# A formal model of remote-compressor

remote-compressor is a client/server program: a user of `compressor-client` sends files over TCP to
`compressor-server`, chooses an archive name and a compressor, and asks for the archive of everything
sent. The server runs one thread per client and has no lock. This directory holds TLA+ modules translated
from the code, the TLC runs that check them, and proofs checked by TLAPS.

## Inventory

| Component | State | Operations | Interactions |
|---|---|---|---|
| connection acceptor and slot table (`server.cpp`, `threadHelper.cpp`) | `base_conf`, `conf[MAX_CLIENT]`, `worker[MAX_CLIENT]`, two directories per client_ID | `server_listen`, `generate_client_ID`, `configure_working_dir`, `client_disconnect`, `free_client_ID` | the main thread fills a slot, the worker thread of that client empties it; both write the same arrays without a lock |
| worker thread (`commandHandler.cpp`) | current command, configuration pointer, compressor bridge | `handle_command`, `command_parser`, one `handle_...` per command | reads and writes the socket, the client's directories, its configuration; calls `client_disconnect` at its end |
| client shell (`shell.cpp`) | current command, current directory | `command_line`, `parse_command`, `check_...`, one `do_...` per command, `configuration_check` | the other half of every conversation |
| network layer (`network.cpp`) | none | `send_...`, `receive_...` for int, command, response, data, file | blocking `recv` with MSG_WAITALL, errors as exceptions, the end of the stream seen by two of the five receives |
| configuration (`configuration.cpp`, `serverSideConfiguration.cpp`) | archive name, compressor index, enabled compressors, sent-file counters, dirty flag | setters, `check_compressors`, `check_compressor_argument` | one copy at each side, one per client at the server, copied from `base_conf` |
| compressors (`compressor.cpp`) | current algorithm, current file name | `compress`, `set_compression_algorithm` | run `tar` or `zip` by `system()` |
| files (`fileHandler.cpp`) | none | MD5, existence, creation, deletion, block reading and appending | `rm -rf` by `system()` |
| client connection, parameter parsers (`client.cpp`, `paramParser.cpp`, the client's `main.cpp`) | address, port | `parse_params`, `check_port`, `client_connect`, `client_disconnect` | before the conversation starts and after it |
| exceptions | none | messages | which handler names which exception decides where an error ends |
| hashlib2plus | vendored | MD5, SHA | |

What is hard here:

* **Interleaving.** `free_client_ID` clears `conf[id]` before it destroys `worker[id]`, and
  `client_disconnect` removes the directories after that. The main thread can give the slot away at any
  point in between. The main thread itself reads back what it stored.
* **A table at its limit.** `generate_client_ID` returns -1 when it is full, and -1 is used as an index.
* **Partial failure.** Results of `pthread_create`, `configure_working_dir` and `do_...` are ignored. Dynamic
  exception specifications turn an exception that is not listed into the end of the process.
* **Framing.** TCP keeps no boundaries. Which answer is expected next is known only from the place in the
  function, so that an early return on one side shifts the stream for the other.
* **Checks before use.** The shell looks at a path, each time with a `stat` of its own, before a command uses it.
* **Widths.** The four loops over the blocks of a file count in `int`, `unsigned` and `long`, up to a length
  that was an `int` on the way.
* **Stale state.** Two configurations, the bridge's algorithm, the counters and the dirty flag have to tell
  the same story across two processes.

What makes each component correct: a session owns its slot, worker and directories until it releases them;
a client that leaves is released; the two configurations agree between commands; success messages are
true; an error does not break the stream; nobody waits for an answer that never comes; both sides agree where
a file ends; a command that passed its checks finds what they found.

## Modules

* `ServerPool` is the server process: the main thread, statement by statement where other threads can see
  the difference, each worker thread reduced to the stages of its life, and the memory of the two tables.
  `cell` holds the words `base_conf`, `conf[0..]`, `worker[0..]` by address, in the order of `server.h`, so that
  index -1 is what the layout makes of it. `live` is the set of objects constructed and not destroyed. A
  thread that follows a pointer to anything else than its object ends the process: a null pointer is a
  `segfault`, anything else leaves the process `astray`, and the model does not follow undefined behaviour
  any further. Where the outcome of `delete`d memory matters, that is all it claims. Two free-running
  choices replace the conversation: a worker may receive a command or quit, and a client may close at any
  time, after which a receive may still succeed (data sent before), find the end of the stream, or fail.
* `Workers` is the abstract specification of the server as the sum of its threads: each connection's thread
  goes from start through the handshake, the loop and its commands to its end, in that order and once; what
  may end the process at once is named. It knows no slots, no messages and no files.
  `ServerPool` (through `StageOf(p)`) and `Session` (through `StageOf(side)`, for one connection) both implement
  it, as `ImplementsWorkers`. This is how the two are one system: what `ServerPool` lets a thread do
  by free choice is what `Session` makes it do message by message.
* `RemoteArchive` is the service as its user sees it: stored files, a name, an algorithm, a folder of archives
  and what the user was told. `Session` implements it with the server's configuration as the one that
  counts (`ImplementsService`), with and without faults.
* `Session` is one client and its worker. Every function of the conversation is a *script*, a sequence of
  `Put`, `Get` and local steps in the order of the code (`DoSend`, `HandleSend`, and so on), and the actions
  interpret the scripts: one action per kind of network operation and its failures, one per kind of local
  step. A response `ERROR` or `CONTINUE` in place of another is the exception `commandExecutionException`
  (`ClientRefused`, `ServerRefused`). A message of another kind than the one expected is the loss of the
  framing: the model goes to mode `lost` and stops, since from there on bytes are taken for something else.
  The failures are those of the code with all their outcomes: an archive that cannot be opened leaves the worker
  in its loop or ends the process (the `delete[]` of a buffer that was not set yet, `OpenFails`), an `rm` that fails
  goes unnoticed and leaves the archive (`DeleteArchive`), or was not even asked whether it worked before the
  creation fails too (`CreateArchive`). A file travels as one non-empty message. An archive is a value that names the algorithm and the contents
  it was made from. MD5 equality is equality of contents; a torn or junk content never matches.
* `Trunks` is the transfer of one file, block by block, in either direction: `command` is `"send"` or
  `"compress"`, `out` and `in` are the sender's and the receiver's loop variables, and the two types
  (`SenderType`, `ReceiverType`) those of the declarations. Bytes are counted: `sent`, `taken`, and `good`, how
  many of those sent are the file's own. A receiver whose sender went away before it had announced length and MD5
  goes on with a length that is whatever `receive_int()` found on its stack (`ReceiverAlone`, `JunkLengths`). The
  conversation around it is in `Session`, where a file is one message.
* `FileMessage` is that message: put whole, taken whole or not at all, and answered with "ok" only for the bytes
  announced. `Trunks` implements it (`ImplementsMessage`) for lengths that both loops can count to, which
  makes the abstraction of `Session` sound there; of longer files nothing is promised. The message is on the
  connection with the last byte of the file, and taken with the receiver's last turn.
* `Console` is the client process from `main()`'s arguments to its end: the loop of `command_line()`, which
  exception is caught where and what `ret` is then, the checks of `send` and `compress` one `stat` at a
  time with other programs in between, and what the command finds. What the server answers is any choice.
  `framed` is lost where the client leaves bytes on the connection that nobody will read, after an archive or a
  refused file that could not be written; from there on, and in a `do_compress()` whose archive the server cannot
  read, a receive may last as long as the connection does (`Waits`, `WaitEnds`).
  A name is looked up in `/` or in the working directory. Whether a buffer that `stat()` left unwritten says
  "directory" is a free choice. `Session` has files with absolute names only.
* `SessionInv` holds the inductive invariants of `Session`: how the two scripts fit together (`FrameInv`), what
  the variables hold (`DataOK`), the settings (`ConfigInv`), a send (`SendInv`), an archive (`ArchiveInv`),
  what the counters tell (`RefusalInv`, `PromptOK`), what keeps the user's messages true (`ServiceInv`) and which
  files are stored (`HoldsInv`).
* `ServerPoolProofs`, `TrunksProofs` and `ConsoleProofs` hold the theorems about the module of that name. Those
  about `Session` are in `SessionProofs` (it is a worker of `Workers`), `FramingProofs`, `DataProofs`, `TransferProofs` and
  `PromiseProofs`, each on top of the one before it.
* `MCServerPool`, `MCSession` and `MCConsole` define the symmetry sets and the port arguments for TLC.

In the modules a definition called a mutant or a variant is a plausible mistake in the code. It is used to see
that a property notices it, and takes no part in the specifications.

### State and code

| `ServerPool` | code | | `Session` | code |
|---|---|---|---|---|
| `cell`, `live` | `server.h:28-30` and the objects | | `c2s`, `s2c` | the socket |
| `pc` | the place of a worker thread | | `client`, `server` | mode, function and place in it |
| `mpc`, `cur`, `scan`, `mdir` | the place of the main thread | | `creg`, `sreg` | local variables |
| `id`, `peer` | `client_ID`, the other end | | `cconf`, `sconf`, `alg` | configurations, bridge |
| `owner` | the working directories | | `sfiles`, `sarch`, `received`, `local` | the directories |
| `process`, `reissued` | how the process ended; history | | `note`, `faulted` | message to the user; history |

| `Trunks` | code | | `Console` | code |
|---|---|---|---|---|
| `out`, `in` | `i`, `next`, `len` of the two loops | | `pc`, `line`, `ret` | the place in the client, `cmd`, `ret` of `command_line()` |
| `size`, `hashed` | the file now, and when its MD5 was made | | `args`, `port` | the [port] argument, what `check_port()` stored |
| `eof`, `junk` | the failed stream; going on with what did not arrive | | `fs`, `folder`, `cwd` | local files, `ricevuti_client<ID>`, working directory |
| `verdict` | the receiver's answer | | `said`, `changed`, `astray` | message to the user; history |

## Runs

All are exhaustive. `CHECK_DEADLOCK` is off because a session and the process may end; the deadlock that
matters is the invariant `NotBothWaiting`. A property that is proved for every fault may be checked without faults
only, where the inductive invariant it follows from is checked with every fault: `ConfigInv`, `SendInv` and `ArchiveInv` imply
`ConfigAgreement`, `SendMeansStored` and `ReceivedArchiveIsCurrent`.

| Run | Instance | Checks |
|---|---|---|
| `pool` | 3 connections, 2 slots, no faults | `PoolInv`, `UniqueIDs`, `SessionOwnsSlot`, `SessionOwnsDirs`, `MemoryFaultsExplained`, `QuiescentClean`, `SlotClearedByOwner` |
| `pool_faults` | 2 connections, 1 slot, every failing system call and failing files in a command, fairness | `ImplementsWorkers`, `DepartedIsReleased`, `QueuedIsServed` |
| `pool_too_many` | 2 connections, 1 slot | violation of `AtMostMaxClient` |
| `pool_handshake` | 1 slot | violation of `HandshakeFailureCloses` |
| `session` | 2 files in 2 versions that change, 2 names, gnuzip and zip, 2 sends | `ConfigAgreement`, `SendMeansStored`, `ReceivedArchiveIsCurrent`, `RefusalJustified`, `ImplementsService` |
| `session_faults` | 1 file in 2 versions, all faults, at most 2 kinds in a behaviour, an uninstalled xz | `TypeOK`, `FrameInv`, `ConfigInv`, `SendInv`, `ArchiveInv`, `RefusalInv`, `RefusalJustifiedUnlessFailed`, `FramingKept`, `NotBothWaiting`, `ArchiveHoldsFile`, `ImplementsWorkers`, `ImplementsService` |
| `session_live` | 1 file, either process killed at any moment, every other kind of fault but an edit, at most 2 kinds in a behaviour, fairness | `CommandReturns`, `GoneIsNoticed` |
| `session_refusal` | 2 files, failing compression | violation of `RefusalJustified` |
| `session_unsupported` | zip without xz | violation of `ConfirmedCompressorInstalled` |
| `trunks` | blocks of 2 bytes, `int` of 4 bits, files of 0 to 17 bytes, fairness | `TypeOK`, `BlocksFit`, `StreamAligned`, `FileArrives`, `ImplementsMessage`, `LoopsEnd` |
| `console` | one name in two directories, `int` of 8 bits, ports of two digits, fairness | `TypeOK`, `PortAsTyped`, `AbortExplained`, `FolderExplained`, `LineIsAnswered` |
| `console_relative` | the same | violation of `LocalFileIsFound` |

**Bounds.** Three connections and two slots let a release, a new connection in the same slot and a bystander
in the other meet; two connections on one slot reach the overflow and its -1 with every fault. Sessions are
unbounded: `MaxSends` bounds only `send`, any number of the other commands is explored, since the state they
leave is finite. Two sends are the least that reach the deletion of an older version. `MaxFaults = 2` allows
a fault and one in its aftermath (a failed deletion and the append that follows).
In `trunks` the sizes are those around zero, one block, the largest `int` less a block, the largest `int`, twice
that and one round of `unsigned`; `MaxSent` stops a sender that counts to a length it cannot reach, and no
property speaks of it from there on. In `console` the ports are none, too small, a leading zero, the largest, one
too large, not a number, the largest `int` and one that wraps to a legal port; others change one path in a
command (`changed`), at any point of it.

**Fairness.** In `pool_faults` each thread makes progress while the process runs: the main thread (`MainStep`),
and each worker in its handshake, in a command, in noticing the end of its connection and in its release.
`accept` and `pthread_create` are blocking or kernel calls that do not starve a thread. In `session_live`
`ClientStep` and `ServerStep` are weakly fair: they are two processes. In `trunks` so are `Sender` and `Receiver`,
and in `console` the client where it works on a line (`Answering`). A receive that need not end is not part of
that: it is the place `waiting`, which the client leaves only if the connection ends (`WaitEnds`, not fair). That every other
command on a framed connection returns is what `session_live` shows, which has the faults `read` and `create` too:
`CommandReturns` names the two ways a command may not return, an archive that is announced and never sent
(`ArchiveNotSent`) and a stream that has lost its framing, and `LineIsAnswered` has the same two exceptions. No
fairness is assumed of the user, of other programs, of faults (a failing `accept` is no part of the fair `MainStep`),
nor of a client closing.

### What the runs show of the code

* `pool_too_many`: the server has no limit of `MAX_CLIENT`; the next connection overwrites `base_conf`, and
  its worker the last configuration slot. Every safety property of the other slots is stated with this
  exception (`Spared`), and a slot given away while still being released is tracked in `reissued`. Sessions
  in either case are the only ones that may be harmed: that is what the properties say and the proofs show.
* `pool_handshake`: a client that leaves in the handshake ends the process for all clients.
* `session_refusal`: `parse_command` resets the dirty flag after a compression that failed.
* `session_unsupported`: the flag of zip is sent for xz, and the server sets what it receives.
* `console_relative`: `check_send` looks for a relative name in `/`, since nothing assigns `current_dir`. A file of
  the working directory is refused; one that is in `/` only lets the send begin, and the client ends.
* `AbortExplained` names what else can end the client in a send that passed its checks: a file it may not
  read, and a change by others. `FolderExplained` names what leaves an archive on the connection: the
  comment in `check_compress` speaks of the permission to write, but `got_permissions` is a `stat`, and a
  folder that is there and not writable, or a plain file of its name, passes.
* `StreamAligned` and `FileArrives` hold for lengths up to the largest `int` less a block: 2 GB less 64 KB.
* `PortAsTyped` holds for numbers that are an `int`; a longer one may wrap to a legal port.
* At the end of the standard input the client's loop reads empty lines for ever.
* `FramingKept` names the one fault that breaks the stream: a file that cannot be created after its transfer
  was agreed on, on either side. An archive the server cannot read leaves both sides waiting, which
  `NotBothWaiting` excludes otherwise: the user's command does not come back unless the connection ends, and after the
  framing is lost no command has to. `CommandReturns` and `LineIsAnswered` hold of everything else.
* `FolderExplained` speaks of an archive left on the connection for want of its folder. The disk may be full, or
  the descriptors used up, in a folder that is there: then the framing is lost all the same.
* `LoopsEnd` and `BlocksFit` include a receiver that goes on alone with a length nobody sent: every block fits, and the
  loop ends after writing up to 4 GB of junk. It does not end for the few lengths beyond what its counter can
  count to, 2^32 - 1 for `handle_send()`; `GoneIsNoticed` holds for all others.

## Proofs

| Theorem | Module | Says |
|---|---|---|
| `TypeCorrect` | `ServerPoolProofs` | `Spec => []TypeOK` |
| `PoolInvariant` | | `Spec => []PoolInv` |
| `IDsAreUnique` | | `Spec => []UniqueIDs` |
| `SlotsAreOwned` | | `Spec => []SessionOwnsSlot` |
| `FaultsAreExplained` | | `Spec => []MemoryFaultsExplained` |
| `OwnersClear` | | `Spec => SlotClearedByOwner` |
| `SessionsOwnDirs` | | `DirsWork => (Spec => []SessionOwnsDirs)` |
| `ReleasedIsClean` | | `DirsWork => (Spec => []QuiescentClean)` |
| `PoolRefinesWorkers` | | `Spec => ImplementsWorkers` |
| `SessionRefinesWorkers` | `SessionProofs` | `Spec => ImplementsWorkers` |
| `FrameInvariant` | `FramingProofs` | `Spec => []FrameInv` |
| `StreamsFramed` | | `Spec => []FramingKept` |
| `NeverBothWait` | | `Spec => []NotBothWaiting` |
| `SessionTyped` | `DataProofs` | `Spec => []TypeOK` |
| `ConfigInvariant` | | `Spec => [](FrameInv /\ DataOK /\ ConfigInv)` |
| `ConfigurationsAgree` | | `Spec => []ConfigAgreement` |
| `SendInvariant` | `TransferProofs` | `Spec => [](FrameInv /\ DataOK /\ SendInv)` |
| `SentIsStored` | | `Spec => []SendMeansStored` |
| `ArchiveInvariant` | | `Spec => [](FrameInv /\ DataOK /\ ConfigInv /\ ArchiveInv)` |
| `ReceivedIsCurrent` | | `Spec => []ReceivedArchiveIsCurrent` |
| `RefusalInvariant` | `PromiseProofs` | `Spec => [](FrameInv /\ DataOK /\ ConfigInv /\ ArchiveInv /\ RefusalInv)` |
| `RefusalIsJustified` | | `Spec => []RefusalJustifiedUnlessFailed` |
| `ServiceInvariant` | | `Spec => [](FrameInv /\ DataOK /\ ConfigInv /\ SendInv /\ ArchiveInv /\ RefusalInv /\ ServiceInv)` |
| `SessionServes` | | `Spec => ImplementsService` |
| `HoldsInvariant` | | `Spec => [](FrameInv /\ DataOK /\ ConfigInv /\ SendInv /\ ArchiveInv /\ RefusalInv /\ ServiceInv /\ HoldsInv)` |
| `ArchivesHoldFiles` | | `Spec => []ArchiveHoldsFile` |
| `RefusalsAreJustified` | | `Faults \subseteq {"edit"} /\ Compressors \subseteq Available => (Spec => []RefusalJustified)` |
| `TypeCorrect` | `TrunksProofs` | `Spec => []TypeOK` |
| `BlocksAlwaysFit` | | `Spec => []BlocksFit` |
| `StreamStaysAligned` | | `Spec => []StreamAligned` |
| `UntouchedFileArrives` | | `Spec => []FileArrives` |
| `NoLoopStarves` | | `Spec => []Supplied` |
| `TrunksAreOneMessage` | | `Spec => ImplementsMessage` |
| `TypeCorrect` | `ConsoleProofs` | `Spec => []TypeOK` |
| `SendAborts` | | `Spec => []AbortExplained` |
| `ArchiveAstray` | | `Spec => []FolderExplained` |
| `PortIsTyped` | | `Spec => []PortAsTyped` |

**`ServerPoolProofs`**: for every `MAX_CLIENT > 0`, every set of connections, and any set of faults.
The assumptions are those of `PoolAssumption`. The argument: the main thread sets up one connection at a
time (`MainInv`), so that the scan that found a null slot is followed by the assignment to it with no other
assignment in between; a slot can only become null in between (`IdInv`, `ConfInv`). Ownership of `conf[id]`
is inductive on its own. Ownership of `worker[id]` is not: a releasing thread destroys whatever handler is
there. `ReleaseInv` says that a connection that shares its slot with an unfinished release is marked in
`reissued`, `WorkerInv` that a handler is filed under its own number, and with both `ObjectInv` shows that a
release cannot hit a connection that is neither marked nor in the overflowed slot.
`MemoryFaultsExplained` is part of the induction because the process ends only in a step from a state where
the rest holds. `PoolRefinesWorkers` needs the types only: an action of a thread that moves its place moves its
stage along one of the edges of `Workers` or not at all (`StageMoves`), everything the main thread
does is a start or a stutter, and each way the process may end is one that `Workers` names.
The two theorems about directories are under `DirsWork` (no failing mkdir or rm): with them the property is false,
since nobody looks at the result of `configure_working_dir`. `DirInv` gives a session its directories from the
place of the main thread on that made them (`HasDir`), `EmptyInv` says that no slot and no object is left without a
connection that will release it, and `LeftInv` that a directory of a finished connection is gone or has another
connection behind it that will remove it. A released server is clean because these three have nobody left to
name.

**`SessionProofs`**: for every set of files, names, compressors and faults (`SessionAssumption`: what the user's files hold is not what the model writes for a torn file
or for bytes nobody sent). The server is in
a function only between its dispatch and its return (`SidesInv`), so that a step of the server is a move of
`Workers`, and one of the client is none, or its closing.

**`FramingProofs`**, for the same constants: the two scripts of a command are halves of one `Dialogue`. A side at a
place of its script has done a number of its messages (`ClientClock`, `ServerClock`), and while nothing
went wrong the connection holds exactly the messages between the two numbers (`InFlight`, `Between`), which are
all of one side (`PutBy`): that is `Talking`. It is not inductive on its own. The client may be in its next command while
the worker is still in the last one (`Overlapping`); a refusal, a silent return or a file that could not be created
ends the dialogue on one side before the other (`ServerRefuses`, `ClientRefuses`, `ArchiveUnread`, `ArchiveUnwanted`,
`FileUnwanted`); and once a side is gone the other reads what is left (`Stale`, `Silent`). `Framed` is the disjunction of
these nine, and the proof shows where each step leads from each. `FramingKept` follows since only `FileUnwanted`,
`ArchiveUnwanted` and `Stale` let a side meet a message of another kind, `NotBothWaiting` since two empty channels
leave only `Talking` with both clocks the same, and then the next message is one of the two sides' to put.

**`DataProofs`**: what a side takes from the connection is of the type it expects, because `Framed` says
what it is. `DataOK` adds to `TypeOK` what the registers hold at each place: what the user entered (`ArgOK`), a
setting that was taken and, of a connection that ended, will not be set (`TakenOK`), what the server reports
(`SettingsOK`), the bytes of a file (`BytesOK`).

Between the two assignments of one setting the configurations differ, and the worker may set its
own before or after the shell. So `ConfigInv` compares what each will have once it has set what it has taken:
`ServerName` is the register of a worker past its receive, `ClientName` what the shell sent once the worker has
taken it (`NameTaken`). It holds as long as nobody is gone, or the client has not read all the server sent (`Met`).

**`TransferProofs`**: for a send, `ToldOK` follows the name and the MD5 from the shell's registers into the
worker's, `AnswerOK` says that an answer on its way that means "stored" is true, also where the answer of an
earlier place could be taken for it. An archive needs what was left behind by earlier commands: zip updates
the archive it finds, so that a file that was stored when that one was made, and is not any more, would come
back. `Leftovers` says that there is no such file, except between the deletion of an old version and
the arrival of the new one, or after the creation of the new one failed (`FileUnwanted`): there the stream has lost its
framing before another command is read. With it `MadeOK`, `FetchedOK` and `ReceivedOK` follow the archive from the
worker's directory to the user.

**`PromiseProofs`**: `check_compress()` believes two counters and a flag, so the invariant says what these know of the
commands before. Where compressing, creating, reading and writing a file work and the server is there (`Works`), no
answer on its way to the shell in a compression is a refusal, and the shell ends the command with the archive of the
stored files in its folder (`GoesThrough`, `Held`). A send, a failed one too, makes the counters differ
(`CountsOK`), and a setting raises the flag; so equal counters and a flag that is not set mean `Held` (`FreshOK`).
For the message "already" to stay true no file may change after it: the worker has done with the files (`Idle`). That needs
`Framed` again: a shell at its prompt may be ahead of the worker, but not of one that is still in a send.

That a session implements `RemoteArchive` (`SessionServes`) needs more than the three facts about its messages. There, nothing
is stored and no setting changes after a message the user relies on; here, the worker writes whenever it gets to it. So
`SettledOK` looks ahead: after such a message no command that writes is in the worker, in its register or among
the messages it has not read (`Settled`), because the shell has read an answer that comes after the writing
(`SentSettled`, `PresentSettled`, `PromptSettled`, each from `Framed`). `NoteOK` says where a message can stand while a
command runs: at its end, or before a compression that `parse_command()` starts after a failed check, which
finds the connection closed. For the message that no file was sent the worker does not even know of a send
(`NothingOK`, `Knows`); where only the user's files change, the server stays until the user quits (`ServedOK`); and
the archive is written under the name the server has for it (`KeyOK`, `BodyOK`). Each step of the shell that tells
something is then the step of `RemoteArchive` of that name, each write of the worker a `Store` or a `Configure`,
and the rest are stutters.

That an archive holds a file (`ArchivesHoldFiles`) is about a whole series of commands: the shell counts a send that
failed, and one command later compresses. So `StoredOK` says of every end of a send that a file is stored, or that
the stream has lost its framing before a command can be read (`FileUnwanted`). It needs what an answer on
its way tells (`ErrorOK`: a file that was answered with an error is stored all the same, since nothing deletes it)
and that a file is received where there is none (`UploadOK`): appended to another it would be torn. The archive is made
of that file (`MadeOfOK`) because only a client that has counted a send asks for one (`AskedOK`). A file that changes
while it is sent does not matter: what is stored is then not what was announced, but whole. `RefusalsAreJustified` is
the other half of `RefusalIsJustified`, for the constants of the run `session`: where only the user's files change, the
shell that says "already" is at its prompt (`PromptOK`) and the server is there.

**`TrunksProofs`**: for every size of block and every width of `int` that holds it, every set of sizes
(`TrunkAssumption`): 65535 and 32 bits among them. `OneTurn` is what a turn does whose `next` has followed
`i`; the invariant puts both loops on one scale: `sent` and `taken` are the place of the loop in bytes
(`Place`), both lengths are one unless the receiver goes on alone (`Together`), the receiver is not ahead (`InStep`), and for a file left
alone `good` is `sent` (`Followed`). Overflow shows as the condition `Countable`, and only `BlocksFit` and
`TypeOK` do without it.

The refinement of `FileMessage` has to know of the transfer also what `Counted` does not say once the sender is gone:
`Carried` keeps both places for every length that fits (`Fits`), as long as the receiver has not gone on with what
it did not receive (`junk`), and a stream that has not failed as one whose bytes are all the file's own. A receiver
goes on with junk only if bytes before the length were never sent (`ReceiveTurn`), or the length itself was not
(`AloneIsSeen`): either is the end of a stream in which the message was never put. A turn of the sender is then a stutter but for the one that
reaches the length (`SendIsSeen`), and that one is no turn at all for a file of no bytes (`HashIsSeen`); the turn of zero
bytes after a multiple of `NET_TRUNK` is a stutter too. The bytes put are other than those announced only if the file
was changed or is too large (`Followed`). The receiver's last turn takes the message, or finds that the sender went away
before it was put (`ReceiveIsSeen`), and the comparison tells these apart (`CheckIsAnswer`). `NoLoopStarves` is what of
`LoopsEnd` can be said without fairness: when the sender has left its loop, every block that
the receiver asks for is there, so that the two never wait for each other.

**`ConsoleProofs`**: for all names, files, ports and changes of them (`ConsoleAssumption`). The invariant carries
what each check saw to the step that relies on it, or that others changed it since (`SendChecked`, `FolderMade`).

`PortIsTyped` is about the sum of `check_port()`, a recursive function over the digits. The prover cannot use
a theorem whose parameter is an operator, the usual form of induction. The module derives it for sets from the
well-foundedness of the naturals (`LeastElement`, `InductionOnNat`), and from that, that a recursion over the naturals, or
over an initial part of them, has the function it defines (`RecursionUpTo`, `RecursionAgrees`, `RecursionOnNat`). With
these, the powers of ten grow (`TenToGrows`), and as long as the number is an `int` no product and no sum of the loop leaves
the type: each partial sum is the part of the number it stands for, so nothing is wrapped (`TypedSum`, `ReadSum`, `PortRead`).
`PortInv` carries the argument that was accepted to the port that is used.

Only model-checked: liveness (`DepartedIsReleased`, `QueuedIsServed`, `CommandReturns`, `GoneIsNoticed`, `LineIsAnswered`,
`LoopsEnd`), since fairness is about ENABLED, which the prover does not handle. Every invariant and every action property
of a passing run is a theorem. `RefusalJustified` is false where compressing may fail (`session_refusal`), and the two
properties of directories where making them may, so that these have a condition on the faults.

## Not modelled

* Partial sends and receives, and a reset that discards received data: `MSG_WAITALL` makes a message of a
  stream that ends in its middle either absent or junk.
* The bytes of buffers and their sizes (an MD5 of 32 characters and its zero in 32 bytes, the buffer of
  `show-configuration`): what a byte past the end meets is up to the stack of the build.
* The characters of the command line and of names: a line is a command and a parameter, or one that is refused.
  `extract_file_name`: a file has the same name on both sides.
* In `Session`, versions of a file of different lengths; `Trunks` has them.
* The server's start (its arguments, `check_compressors` ending the process, `bind` and `listen`), the syntax of
  an address, the exception texts, hashlib2plus, the build files. `src/common/main.cpp`
  is an empty `main`.

## Plan

Done: `ServerPool`, `Session`, `Workers`, `RemoteArchive`, `Trunks`, `FileMessage`, `Console` and the theorems above. Left:

1. The server's start, if it ever does more than end on a failure.
