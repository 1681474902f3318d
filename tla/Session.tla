-------------------------------- MODULE Session --------------------------------
(***************************************************************************)
(* One session of remote-compressor: the shell of a client (shell.cpp) and *)
(* the worker thread that serves it (commandHandler.cpp), joined by a TCP  *)
(* connection (network.cpp), with the configuration each keeps, the files  *)
(* the server was sent and the archives the client received.               *)
(*                                                                         *)
(* A function of either side is a script: the messages it puts and gets in *)
(* order, and the steps it takes in between.  TCP keeps no message         *)
(* boundaries: a side that gets another kind of message than the one it is *)
(* at has lost the framing of the stream, and the model stops there.       *)
(* The blocks a file travels in are one message, its bytes one value.      *)
(***************************************************************************)
EXTENDS Integers, Sequences, FiniteSets

CONSTANTS
  Files,         \* the local files the user may send
  Versions,      \* the contents a local file may have
  ArchiveNames,  \* the archive names the user may configure
  DefaultName,   \* DEFAULT_ARCHIVE_NAME
  Compressors,   \* the compressors the user may ask for
  Installed,     \* the optional compressors found by the server: zip, xz
  MaxSends,      \* bound: how often the user sends a file
  Faults,        \* what may go wrong in a run
  MaxFaults      \* bound: how many kinds of fault happen in one behaviour

FaultKinds ==
  {"create",  \* the file to receive into cannot be opened
   "read",    \* the archive to send cannot be opened
   "io",      \* a stat, an MD5 or an rm fails
   "disk",    \* what is written does not all reach the file
   "tar",     \* the compression command fails
   "edit",    \* the user's files change at any moment
   "kill",    \* the client is killed
   "server"}  \* the server process is ended by another of its threads

ASSUME SessionAssumption ==
  /\ Versions \cap {"torn", "junk"} = {}
  /\ DefaultName \in ArchiveNames
  /\ "gnuzip" \in Compressors /\ Compressors \subseteq {"gnuzip", "bzip2", "zip", "xz"}
  /\ Installed \subseteq {"zip", "xz"}
  /\ MaxSends \in Nat
  /\ Faults \subseteq FaultKinds
  /\ MaxFaults \in Nat

VARIABLES
  c2s, s2c,  \* the two directions of the connection
  client,    \* the shell: [mode, cmd, pos], the place in a script
  server,    \* the worker thread, in the same way
  creg,      \* the local variables of the client's functions
  sreg,      \* the local variables of the server's functions
  cconf,     \* the client's configuration object
  sconf,     \* the server's configuration object of this client
  alg,       \* the algorithm in the compressorBridge
  local,     \* the user's files
  sfiles,    \* the client's files directory on the server
  sarch,     \* the client's archive directory on the server
  received,  \* the folder of archives at the client
  note,      \* what the shell told the user about the last command
  faulted    \* history: the kinds of fault that happened

channels == <<c2s, s2c>>
cvars    == <<client, creg, cconf, local, received, note>>
svars    == <<server, sreg, sconf, alg, sfiles, sarch>>
vars     == <<channels, cvars, svars, faulted>>
-----------------------------------------------------------------------------
(* Contents: of a file, of an archive, of nothing; one cut short or         *)
(* appended to another; bytes nobody sent.                                  *)
Absent == <<>>
Torn   == <<"torn">>
Junk   == <<"junk">>
FileContents == {<<v>> : v \in Versions} \cup {Absent, Torn, Junk}
Archive(a, files) == <<"archive", a, files>>
ArchiveKeys  == ArchiveNames \X Compressors

(* The operations of a script.  The operand of a put is a register or a     *)
(* constant, that of a get a register or "none".                            *)
Put(kind, x) == [do |-> "put", kind |-> kind, x |-> x]
Get(kind, x) == [do |-> "get", kind |-> kind, x |-> x]
Do(step)     == [do |-> "do", kind |-> "none", x |-> step]

Blank == [cmd |-> "none", arg |-> "none", hash |-> Absent, body |-> Absent,
          name |-> "none", index |-> "none", flag |-> FALSE]
Value(reg, x)    == IF x \in DOMAIN reg THEN reg[x] ELSE x
Store(reg, x, v) == IF x \in DOMAIN reg THEN [reg EXCEPT ![x] = v] ELSE reg

Ack == Get("rsp", "none")
OK  == Put("rsp", "ack")
BYE == Put("rsp", "bye")

(* The functions of the shell.                                              *)
CommandLine ==
  <<Get("int", "none"), OK,
    Get("int", "flag"), OK, Do("enable_zip"), Get("int", "flag"), OK, Do("enable_xz")>>
DoHelp == <<Put("cmd", "help"), Ack>>
DoQuit == <<Put("cmd", "quit"), Ack>>
DoSend ==
  <<Put("cmd", "send"), Ack, Put("int", "none"), Ack, Put("data", "arg"), Ack,
    Do("stat"), Put("int", "none"), Ack, Do("hash"), Put("data", "hash"), Ack,
    Do("open"), Put("file", "body"), Ack, BYE, Do("sent")>>
GetConfig ==
  <<Get("int", "none"), OK, Get("data", "name"), OK, Get("int", "index"), OK, Ack>>
ConfigurationCheck == <<Put("cmd", "check"), Ack>> \o GetConfig \o <<Do("fix")>>
DoShowConf == <<Put("cmd", "show"), Ack>> \o GetConfig \o <<Do("adopt")>>
DoConfName ==
  <<Put("cmd", "rename"), Ack, Put("int", "none"), Ack, Put("data", "arg"), Ack, BYE,
    Do("set_name")>>
DoConfComp == <<Put("cmd", "comp"), Ack, Put("int", "arg"), Ack, BYE, Do("set_index")>>
DoCompress ==
  <<Put("cmd", "compress"), Ack, Ack, Get("int", "none"), OK, Get("data", "hash"), OK,
    Do("create"), Get("file", "body"), Do("verify"), OK, Ack, Do("received")>>

ClientScript == [hello |-> CommandLine, help |-> DoHelp, quit |-> DoQuit, send |-> DoSend,
                 check |-> ConfigurationCheck, show |-> DoShowConf, rename |-> DoConfName,
                 comp |-> DoConfComp, compress |-> DoCompress]

(* The functions of the worker.                                             *)
SendHello ==
  <<Put("int", "none"), Ack, Put("int", "flag"), Ack, Put("int", "flag"), Ack>>
CommandLoop == <<Get("cmd", "cmd"), OK, Do("dispatch")>>
HandleSend ==
  <<Get("int", "none"), OK, Get("data", "arg"), OK, Get("int", "none"), OK,
    Get("data", "hash"), Do("existing"), OK, Do("create"), Get("file", "body"),
    Do("store"), OK, Ack>>
HandleConfigurationCheck ==
  <<Put("int", "none"), Ack, Put("data", "name"), Ack, Put("int", "index"), Ack, BYE>>
HandleShowConfiguration == HandleConfigurationCheck
HandleConfigureName ==
  <<Get("int", "none"), OK, Get("data", "name"), OK, Ack, Do("set_name")>>
HandleConfigureCompressor == <<Get("int", "index"), OK, Ack, Do("set_index")>>
HandleCompress ==
  <<Do("tar"), OK, Do("stat"), Put("int", "none"), Ack, Do("hash"), Put("data", "hash"),
    Ack, Do("open"), Put("file", "body"), Ack, BYE, Do("delete")>>

ServerScript == [hello |-> SendHello, loop |-> CommandLoop, help |-> <<>>, send |-> HandleSend,
                 check |-> HandleConfigurationCheck, show |-> HandleShowConfiguration,
                 rename |-> HandleConfigureName, comp |-> HandleConfigureCompressor,
                 compress |-> HandleCompress]

Modes == {"prompt", "run", "lost", "left", "aborted", "killed", "closed", "terminated"}

TypeOK ==
  /\ client \in [mode : Modes, cmd : DOMAIN ClientScript, pos : Nat]
  /\ server \in [mode : Modes, cmd : DOMAIN ServerScript, pos : Nat]
  /\ DOMAIN creg = DOMAIN Blank /\ DOMAIN sreg = DOMAIN Blank
  /\ cconf \in [name : ArchiveNames, index : Compressors, enabled : SUBSET {"zip", "xz"},
                sent : 0 .. MaxSends, at : 0 .. MaxSends, dirty : BOOLEAN]
  /\ sconf \in [name : ArchiveNames, index : Compressors]
  /\ alg \in Compressors
  /\ local \in [Files -> {<<v>> : v \in Versions}]
  /\ sfiles \in [Files -> FileContents]
  /\ DOMAIN sarch = ArchiveKeys /\ DOMAIN received = ArchiveKeys
  /\ note \in {"none", "sent", "present", "received", "no_files", "already", "failed"}
  /\ faulted \subseteq Faults

(* The connection is accepted, the worker thread started, the shell at its  *)
(* first receive; the server found the compressors that are installed.      *)
Init ==
  /\ c2s = <<>> /\ s2c = <<>>
  /\ client = [mode |-> "run", cmd |-> "hello", pos |-> 1]
  /\ server = [mode |-> "run", cmd |-> "hello", pos |-> 1]
  /\ creg = Blank
  /\ sreg = [Blank EXCEPT !.flag = "zip" \in Installed]
  /\ cconf = [name |-> DefaultName, index |-> "gnuzip", enabled |-> {},
              sent |-> 0, at |-> 0, dirty |-> FALSE]
  /\ sconf = [name |-> DefaultName, index |-> "gnuzip"]
  /\ alg = "gnuzip"
  /\ local \in [Files -> {<<v>> : v \in Versions}]
  /\ sfiles = [f \in Files |-> Absent]
  /\ sarch = [k \in ArchiveKeys |-> Absent]
  /\ received = [k \in ArchiveKeys |-> Absent]
  /\ note = "none"
  /\ faulted = {}

Available == {"gnuzip", "bzip2"} \cup Installed

InFrame == client.mode # "lost" /\ server.mode # "lost"
Fault(k) ==
  /\ k \in Faults
  /\ faulted' = faulted \cup {k}
  /\ Cardinality(faulted') <= MaxFaults

ClientGone == client.mode \in {"left", "aborted", "killed"}
ServerGone == server.mode \in {"closed", "terminated", "killed"}

(* The place in a script: the next operation, the end.                      *)
Step(side)           == [side EXCEPT !.pos = @ + 1]
Finish(side, script) == [side EXCEPT !.pos = Len(script[side.cmd]) + 1]
Ends(side, how)      == [side EXCEPT !.mode = how]
Enter(side, cmd)     == [side EXCEPT !.mode = "run", !.cmd = cmd, !.pos = 1]

(* What a receive finds in the variable at the end of the stream: recv()    *)
(* returns 0, and receive_int(), receive_data() and receive_file() do not   *)
(* look at it.                                                              *)
JunkOf(x) == CASE x \in {"hash", "body"} -> {Junk}
               [] x = "flag"             -> BOOLEAN
               [] OTHER                  -> {"junk"}

(* What the MD5 comparison says of what was written and what was announced. *)
Matches(written, hash) == written = hash /\ written \notin {Torn, Junk}
-----------------------------------------------------------------------------
(* The shell: the prompt, and what parse_command() does around a command.   *)

Starts(cmd, arg) ==
  /\ client' = Enter(client, cmd)
  /\ creg' = [Blank EXCEPT !.arg = arg]
  /\ note' = "none"
  /\ UNCHANGED <<channels, svars, cconf, local, received, faulted>>

(* check_compress(): nothing sent, or nothing changed since an archive was  *)
(* asked for.                                                               *)
NothingSentClean   == cconf.sent = 0 /\ ~cconf.dirty  \* mutant: a configuration to try is enough
NothingSent        == cconf.sent = 0
AlreadyUnlessDirty == ~cconf.dirty  \* mutant: the counters are not compared
AlreadyCompressed  == cconf.at = cconf.sent /\ ~cconf.dirty

(* check_send() and check_conf_name() have accepted the argument;           *)
(* check_compressor_argument() accepts what the server said it has.         *)
AtPrompt ==
  /\ InFrame /\ client.mode = "prompt"
  /\ \/ \E f \in Files : cconf.sent < MaxSends /\ Starts("send", f)
     \/ \E n \in ArchiveNames : Starts("rename", n)
     \/ \E i \in Compressors \cap ({"gnuzip", "bzip2"} \cup cconf.enabled) : Starts("comp", i)
     \/ Starts("show", "none")
     \/ Starts("help", "none")
     \/ Starts("quit", "none")
     \/ ~NothingSent /\ ~AlreadyCompressed /\ Starts("check", "none")

Refuses ==
  /\ InFrame /\ client.mode = "prompt"
  /\ note' = IF NothingSent THEN "no_files" ELSE "already"
  /\ NothingSent \/ AlreadyCompressed
  /\ UNCHANGED <<channels, svars, client, creg, cconf, local, received, faulted>>

ClientRunning == InFrame /\ client.mode = "run" /\ client.pos <= Len(ClientScript[client.cmd])
ClientOp      == ClientScript[client.cmd][client.pos]

(* The function returned, whatever it returned: parse_command() counts the  *)
(* file, starts the compression, clears the dirty flag.                     *)
ClientReturns ==
  /\ InFrame /\ client.mode = "run" /\ client.pos > Len(ClientScript[client.cmd])
  /\ creg' = Blank
  /\ client' = CASE client.cmd = "check" -> Enter(client, "compress")
                 [] client.cmd = "quit"  -> Ends(client, "left")
                 [] OTHER                -> Ends(client, "prompt")
  /\ cconf' = CASE client.cmd = "send"     -> [cconf EXCEPT !.sent = @ + 1]
                [] client.cmd = "compress" -> [cconf EXCEPT !.dirty = FALSE]
                [] OTHER                   -> cconf
  /\ UNCHANGED <<channels, svars, local, received, note, faulted>>

(* The user's files change under a running command.                         *)
Edit(f, v) ==
  /\ InFrame /\ ~ClientGone
  /\ local[f] # <<v>> /\ Fault("edit")
  /\ local' = [local EXCEPT ![f] = <<v>>]
  /\ UNCHANGED <<channels, svars, client, creg, cconf, received, note>>

ClientKilled ==
  /\ InFrame /\ ~ClientGone /\ Fault("kill")
  /\ client' = Ends(client, "killed")
  /\ UNCHANGED <<channels, svars, creg, cconf, local, received, note>>
-----------------------------------------------------------------------------
(* The shell: network operations.                                           *)

(* A send to a server that is gone is lost, or fails (see ClientFails).     *)
ClientPuts ==
  /\ ClientRunning /\ ClientOp.do = "put"
  /\ c2s' = IF ServerGone THEN c2s
            ELSE Append(c2s, [kind |-> ClientOp.kind, val |-> Value(creg, ClientOp.x)])
  /\ client' = Step(client)
  /\ UNCHANGED <<s2c, svars, creg, cconf, local, received, note, faulted>>

Refusal == {"err", "cnt"}

ClientGets ==
  /\ ClientRunning /\ ClientOp.do = "get" /\ s2c # <<>>
  /\ Head(s2c).kind = ClientOp.kind
  /\ ClientOp.kind = "rsp" => Head(s2c).val \notin Refusal
  /\ s2c' = Tail(s2c)
  /\ creg' = Store(creg, ClientOp.x, Head(s2c).val)
  /\ client' = Step(client)
  /\ UNCHANGED <<c2s, svars, cconf, local, received, note, faulted>>

(* receive_response() throws commandExecutionException: caught by every     *)
(* do_...(); configuration_check() is not allowed to throw it, and ends.    *)
ClientRefused ==
  /\ ClientRunning /\ ClientOp.do = "get" /\ ClientOp.kind = "rsp" /\ s2c # <<>>
  /\ Head(s2c).kind = "rsp" /\ Head(s2c).val \in Refusal
  /\ s2c' = Tail(s2c)
  /\ client' = IF client.cmd = "check" THEN Ends(client, "aborted") ELSE Finish(client, ClientScript)
  /\ note' = IF Head(s2c).val = "cnt" THEN "present" ELSE "failed"
  /\ UNCHANGED <<c2s, svars, creg, cconf, local, received, faulted>>

ClientMisreads ==
  /\ ClientRunning /\ ClientOp.do = "get" /\ s2c # <<>>
  /\ Head(s2c).kind # ClientOp.kind
  /\ client' = Ends(client, "lost")
  /\ UNCHANGED <<channels, svars, creg, cconf, local, received, note, faulted>>

(* The end of the stream.  receive_response() throws notConnectedException: *)
(* the shell ends, by main() or, from configuration_check(), by terminate().*)
ClientAtEnd ==
  /\ ClientRunning /\ ClientOp.do = "get" /\ s2c = <<>> /\ ServerGone
  /\ \/ /\ ClientOp.kind = "rsp"
        /\ client' = Ends(client, IF client.cmd = "check" THEN "aborted" ELSE "left")
        /\ UNCHANGED creg
     \/ /\ ClientOp.kind # "rsp"
        /\ \E j \in JunkOf(ClientOp.x) : creg' = Store(creg, ClientOp.x, j)
        /\ client' = Step(client)
  /\ UNCHANGED <<channels, svars, cconf, local, received, note, faulted>>

(* A call on the connection fails: transmissionException.  command_line()   *)
(* gives up when the first two do; do_show_conf() sends an error that may   *)
(* fail in turn, against its exception specification; the others return.    *)
ClientFails ==
  /\ ClientRunning /\ ServerGone
  /\ ClientOp.do = "put" \/ (ClientOp.do = "get" /\ s2c = <<>>)
  /\ \/ /\ client.cmd = "hello" /\ client.pos <= 2
        /\ client' = Ends(client, "left")
     \/ client.cmd = "show" /\ client' = Ends(client, "aborted")
     \/ /\ ~(client.cmd = "hello" /\ client.pos <= 2)
        /\ client' = Finish(client, ClientScript)
  /\ note' = "failed"
  /\ UNCHANGED <<channels, svars, creg, cconf, local, received, faulted>>
-----------------------------------------------------------------------------
(* The shell: local steps.                                                  *)

ClientDoes(steps) == ClientRunning /\ ClientOp.do = "do" /\ ClientOp.x \in steps

(* Mutant: the loop over the optional compressors starts at 1.              *)
EnableFromOne ==
  /\ ClientDoes({"enable_zip", "enable_xz"})
  /\ LET c == IF ClientOp.x = "enable_zip" THEN "bzip2" ELSE "zip"
     IN  cconf' = IF creg.flag THEN [cconf EXCEPT !.enabled = @ \cup {c}] ELSE cconf
  /\ client' = Step(client)
  /\ UNCHANGED <<channels, svars, creg, local, received, note, faulted>>

EnableCompressor ==
  /\ ClientDoes({"enable_zip", "enable_xz"})
  /\ LET c == IF ClientOp.x = "enable_zip" THEN "zip" ELSE "xz"
     IN  cconf' = IF creg.flag THEN [cconf EXCEPT !.enabled = @ \cup {c}] ELSE cconf
  /\ client' = Step(client)
  /\ UNCHANGED <<channels, svars, creg, local, received, note, faulted>>

(* do_send(): the length, the MD5 and the bytes are read from the file one  *)
(* after the other (the versions of a file have one length).                *)
ReadLocal ==
  /\ ClientDoes({"stat", "hash", "open"})
  /\ creg' = CASE ClientOp.x = "hash" -> [creg EXCEPT !.hash = local[creg.arg]]
               [] ClientOp.x = "open" -> [creg EXCEPT !.body = local[creg.arg]]
               [] OTHER               -> creg
  /\ client' = Step(client)
  /\ UNCHANGED <<channels, svars, cconf, local, received, note, faulted>>

(* The exception of a file that cannot be read is not among those           *)
(* parse_command() may throw, or nobody catches it: the client ends.        *)
ClientFileFails ==
  /\ ClientDoes({"stat", "hash", "open", "verify"}) /\ Fault("io")
  /\ client' = Ends(client, "aborted")
  /\ UNCHANGED <<channels, svars, creg, cconf, local, received, note>>

SendSucceeds ==
  /\ ClientDoes({"sent"})
  /\ note' = "sent"
  /\ client' = Step(client)
  /\ UNCHANGED <<channels, svars, creg, cconf, local, received, faulted>>

(* Mutant: set_compressor_index() does not mark the configuration dirty.    *)
SetConfigClean ==
  /\ ClientDoes({"set_name", "set_index", "adopt", "fix"})
  /\ cconf' =
       CASE ClientOp.x = "set_name"  -> [cconf EXCEPT !.name = creg.arg, !.dirty = TRUE]
         [] ClientOp.x = "set_index" -> [cconf EXCEPT !.index = creg.arg]
         [] OTHER                    -> [cconf EXCEPT !.name = creg.name, !.index = creg.index]
  /\ client' = Step(client)
  /\ UNCHANGED <<channels, svars, creg, local, received, note, faulted>>

(* set_archive_name() and set_compressor_index() mark the configuration     *)
(* dirty; do_show_conf() calls both, configuration_check() only for what    *)
(* differs from the server's.                                               *)
SetConfig ==
  /\ ClientDoes({"set_name", "set_index", "adopt", "fix"})
  /\ cconf' =
       CASE ClientOp.x = "set_name"  -> [cconf EXCEPT !.name = creg.arg, !.dirty = TRUE]
         [] ClientOp.x = "set_index" -> [cconf EXCEPT !.index = creg.arg, !.dirty = TRUE]
         [] ClientOp.x = "adopt"     -> [cconf EXCEPT !.name = creg.name, !.index = creg.index,
                                                      !.dirty = TRUE]
         [] ClientOp.x = "fix"       -> [cconf EXCEPT !.name = creg.name, !.index = creg.index,
                !.dirty = @ \/ creg.name # cconf.name \/ creg.index # cconf.index]
  /\ client' = Step(client)
  /\ UNCHANGED <<channels, svars, creg, local, received, note, faulted>>

ArchiveKey == <<cconf.name, cconf.index>>

(* do_compress(): the old archive of that name is deleted, unless the rm    *)
(* fails, and the new one opened to append to it.  A file that cannot be    *)
(* opened, where the rm may have failed for the same reason, makes the      *)
(* function return, after a delete[] of a pointer that is not set.          *)
CreateArchive ==
  /\ ClientDoes({"create"})
  /\ \/ /\ received' = [received EXCEPT ![ArchiveKey] = Absent]
        /\ client' = Step(client)
        /\ UNCHANGED <<note, faulted>>
     \/ /\ received[ArchiveKey] # Absent /\ Fault("io")
        /\ client' = Step(client)
        /\ UNCHANGED <<received, note>>
     \/ /\ Fault("create")
        /\ received' \in {received, [received EXCEPT ![ArchiveKey] = Absent]}
        /\ client' \in {Finish(client, ClientScript), Ends(client, "aborted")}
        /\ note' = "failed"
  /\ UNCHANGED <<channels, svars, creg, cconf, local>>

(* Mutant: the MD5 of the archive is not compared.                          *)
VerifyArchiveUnchecked ==
  /\ ClientDoes({"verify"})
  /\ \E written \in {creg.body, Torn} :
       /\ IF written = creg.body THEN UNCHANGED faulted ELSE Fault("disk")
       /\ received' = [received EXCEPT ![ArchiveKey] = written]
  /\ client' = Step(client)
  /\ UNCHANGED <<channels, svars, creg, cconf, local, note>>

(* Mutant: the MD5 is compared, the server is not told that it differs.     *)
VerifyArchiveSilently ==
  /\ ClientDoes({"verify"})
  /\ \E written \in {creg.body, Torn} :
       /\ IF written = creg.body THEN UNCHANGED faulted ELSE Fault("disk")
       /\ received' = [received EXCEPT ![ArchiveKey] = written]
       /\ client' = IF Matches(written, creg.hash) THEN Step(client)
                    ELSE Finish(client, ClientScript)
  /\ UNCHANGED <<channels, svars, creg, cconf, local, note>>

(* The archive is written and its MD5 compared with the one received; if    *)
(* they differ the server is told, and that send may fail, against the      *)
(* exception specification.                                                 *)
VerifyArchive ==
  /\ ClientDoes({"verify"})
  /\ \E written \in {creg.body, Torn} :
       /\ IF received[ArchiveKey] # Absent THEN written = Torn /\ UNCHANGED faulted
          ELSE IF written = creg.body THEN UNCHANGED faulted
          ELSE Fault("disk")
       /\ received' = [received EXCEPT ![ArchiveKey] = written]
       /\ \/ /\ Matches(written, creg.hash)
             /\ client' = Step(client)
             /\ UNCHANGED <<c2s, note>>
          \/ /\ ~Matches(written, creg.hash)
             /\ client' = Finish(client, ClientScript)
             /\ c2s' = IF ServerGone THEN c2s ELSE Append(c2s, [kind |-> "rsp", val |-> "err"])
             /\ note' = "failed"
          \/ /\ ~Matches(written, creg.hash) /\ ServerGone
             /\ client' = Ends(client, "aborted")
             /\ UNCHANGED <<c2s, note>>
  /\ UNCHANGED <<s2c, svars, creg, cconf, local>>

(* set_sent_files_at_compress().                                            *)
ArchiveReceived ==
  /\ ClientDoes({"received"})
  /\ cconf' = [cconf EXCEPT !.at = cconf.sent]
  /\ note' = "received"
  /\ client' = Step(client)
  /\ UNCHANGED <<channels, svars, creg, local, received, faulted>>
-----------------------------------------------------------------------------
(* The worker thread: network operations.                                   *)

ServerRunning == InFrame /\ server.mode = "run" /\ server.pos <= Len(ServerScript[server.cmd])
ServerOp      == ServerScript[server.cmd][server.pos]

(* handle_command() loops: after the handshake, after every command whether *)
(* it returned or threw commandExecutionException.                          *)
ServerReturns ==
  /\ InFrame /\ server.mode = "run" /\ server.pos > Len(ServerScript[server.cmd])
  /\ server' = Enter(server, "loop")
  /\ sreg' = Blank
  /\ UNCHANGED <<channels, cvars, sconf, alg, sfiles, sarch, faulted>>

ServerPuts ==
  /\ ServerRunning /\ ServerOp.do = "put"
  /\ s2c' = IF ClientGone THEN s2c
            ELSE Append(s2c, [kind |-> ServerOp.kind, val |-> Value(sreg, ServerOp.x)])
  /\ server' = Step(server)
  /\ UNCHANGED <<c2s, cvars, sreg, sconf, alg, sfiles, sarch, faulted>>

ServerGets ==
  /\ ServerRunning /\ ServerOp.do = "get" /\ c2s # <<>>
  /\ Head(c2s).kind = ServerOp.kind
  /\ ServerOp.kind = "rsp" => Head(c2s).val \notin Refusal
  /\ c2s' = Tail(c2s)
  /\ sreg' = Store(sreg, ServerOp.x, Head(c2s).val)
  /\ server' = Step(server)
  /\ UNCHANGED <<s2c, cvars, sconf, alg, sfiles, sarch, faulted>>

(* Mutant: commandExecutionException is caught outside of the loop.         *)
ServerRefusedLeaves ==
  /\ ServerRunning /\ ServerOp.do = "get" /\ ServerOp.kind = "rsp" /\ c2s # <<>>
  /\ Head(c2s).kind = "rsp" /\ Head(c2s).val \in Refusal
  /\ c2s' = Tail(c2s)
  /\ server' = Ends(server, "closed")
  /\ UNCHANGED <<s2c, cvars, sreg, sconf, alg, sfiles, sarch, faulted>>

(* commandExecutionException goes back to the loop.                         *)
ServerRefused ==
  /\ ServerRunning /\ ServerOp.do = "get" /\ ServerOp.kind = "rsp" /\ c2s # <<>>
  /\ Head(c2s).kind = "rsp" /\ Head(c2s).val \in Refusal
  /\ c2s' = Tail(c2s)
  /\ server' = Finish(server, ServerScript)
  /\ UNCHANGED <<s2c, cvars, sreg, sconf, alg, sfiles, sarch, faulted>>

ServerMisreads ==
  /\ ServerRunning /\ ServerOp.do = "get" /\ c2s # <<>>
  /\ Head(c2s).kind # ServerOp.kind
  /\ server' = Ends(server, "lost")
  /\ UNCHANGED <<channels, cvars, sreg, sconf, alg, sfiles, sarch, faulted>>

(* Mutant: receive_command() takes the end of the stream for a command; the *)
(* parser does not know it.                                                 *)
ServerIgnoresEnd ==
  /\ ServerRunning /\ ServerOp.do = "get" /\ c2s = <<>> /\ ClientGone
  /\ ServerOp.kind = "cmd" /\ server' = Enter(server, "help")
  /\ UNCHANGED <<channels, cvars, sreg, sconf, alg, sfiles, sarch, faulted>>

(* The end of the stream: between commands the client is disconnected; in a *)
(* command notConnectedException meets a specification that excludes it, in *)
(* the handshake no handler, and the process ends.                          *)
ServerAtEnd ==
  /\ ServerRunning /\ ServerOp.do = "get" /\ c2s = <<>> /\ ClientGone
  /\ \/ /\ ServerOp.kind = "cmd" /\ server' = Ends(server, "closed")
        /\ UNCHANGED sreg
     \/ /\ ServerOp.kind = "rsp" /\ server' = Ends(server, "terminated")
        /\ UNCHANGED sreg
     \/ /\ ServerOp.kind \notin {"cmd", "rsp"} /\ server' = Step(server)
        /\ \E j \in JunkOf(ServerOp.x) : sreg' = Store(sreg, ServerOp.x, j)
  /\ UNCHANGED <<channels, cvars, sconf, alg, sfiles, sarch, faulted>>

(* transmissionException.  The handshake closes the connection if the       *)
(* number could not be exchanged; the loop answers on the same connection,  *)
(* and nobody catches the second exception; the commands return, some after *)
(* a delete[] of a pointer that is not set or is deleted already.           *)
ServerFails ==
  /\ ServerRunning /\ ClientGone
  /\ ServerOp.do = "put" \/ (ServerOp.do = "get" /\ c2s = <<>>)
  /\ \/ /\ server.cmd = "hello" /\ server.pos <= 2
        /\ server' = Ends(server, "closed")
     \/ /\ server.cmd \in {"loop", "rename", "send", "compress"}
        /\ server' = Ends(server, "terminated")
     \/ /\ server.cmd # "loop" /\ ~(server.cmd = "hello" /\ server.pos <= 2)
        /\ server' = Finish(server, ServerScript)
  /\ UNCHANGED <<channels, cvars, sreg, sconf, alg, sfiles, sarch, faulted>>

(* Another thread ended the process: see ServerPool.                        *)
ServerKilled ==
  /\ InFrame /\ ~ServerGone /\ Fault("server")
  /\ server' = Ends(server, "killed")
  /\ UNCHANGED <<channels, cvars, sreg, sconf, alg, sfiles, sarch>>
-----------------------------------------------------------------------------
(* The worker thread: local steps.                                          *)

ServerDoes(steps) == ServerRunning /\ ServerOp.do = "do" /\ ServerOp.x \in steps

(* Mutant: an error path returns without a reply.                           *)
ReturnsSilently(code) ==
  /\ server' = Finish(server, ServerScript)
  /\ UNCHANGED s2c

(* A reply from an error path, outside of any handler: the function returns *)
(* or, when the client is gone and the send fails, the process ends.        *)
RepliesAndReturns(code) ==
  \/ /\ server' = Finish(server, ServerScript)
     /\ s2c' = IF ClientGone THEN s2c ELSE Append(s2c, [kind |-> "rsp", val |-> code])
  \/ /\ ClientGone
     /\ server' = Ends(server, "terminated")
     /\ UNCHANGED s2c

(* The function command_parser() calls: none for help, nor for a command it *)
(* does not know.                                                           *)
HandlerOf(cmd) == IF cmd \in DOMAIN ServerScript \ {"hello", "loop"} THEN cmd ELSE "help"

(* command_parser(); quit leaves the loop and disconnects the client.       *)
Dispatch ==
  /\ ServerDoes({"dispatch"})
  /\ server' = IF sreg.cmd = "quit" THEN Ends(server, "closed")
               ELSE Enter(server, HandlerOf(sreg.cmd))
  /\ sreg' = [Blank EXCEPT !.name = sconf.name, !.index = sconf.index]
  /\ UNCHANGED <<channels, cvars, sconf, alg, sfiles, sarch, faulted>>

SetServerName ==
  /\ ServerDoes({"set_name"})
  /\ sconf' = [sconf EXCEPT !.name = sreg.name]
  /\ server' = Step(server)
  /\ UNCHANGED <<channels, cvars, sreg, alg, sfiles, sarch, faulted>>

(* Mutant: the switch has no case for the new compressor.                   *)
SetServerIndexOnly ==
  /\ ServerDoes({"set_index"})
  /\ sconf' = [sconf EXCEPT !.index = sreg.index]
  /\ server' = Step(server)
  /\ UNCHANGED <<channels, cvars, sreg, alg, sfiles, sarch, faulted>>

(* Mutant: the bridge is told, the configuration is not.                    *)
SetServerBridgeOnly ==
  /\ ServerDoes({"set_index"})
  /\ alg' = sreg.index
  /\ server' = Step(server)
  /\ UNCHANGED <<channels, cvars, sreg, sconf, sfiles, sarch, faulted>>

(* set_compressor_index() and set_compression_algorithm(): nothing asks     *)
(* is_compressor_supported().                                               *)
SetServerIndex ==
  /\ ServerDoes({"set_index"})
  /\ sconf' = [sconf EXCEPT !.index = sreg.index]
  /\ alg' = sreg.index
  /\ server' = Step(server)
  /\ UNCHANGED <<channels, cvars, sreg, sfiles, sarch, faulted>>

(* The file of the name received.                                           *)
Stored         == IF sreg.arg \in Files THEN sfiles[sreg.arg] ELSE Absent
WithStored(v)  == IF sreg.arg \in Files THEN [sfiles EXCEPT ![sreg.arg] = v] ELSE sfiles

(* Mutant: a file that is there already is taken for the one announced.     *)
CheckExistingByName ==
  /\ ServerDoes({"existing"})
  /\ \/ Stored # Absent /\ RepliesAndReturns("cnt")
     \/ Stored = Absent /\ server' = Step(server) /\ UNCHANGED s2c
  /\ UNCHANGED <<c2s, cvars, sreg, sconf, alg, sfiles, sarch, faulted>>

(* handle_send(): a file of that name is there already.  The same content   *)
(* is not sent again; another is deleted first, unless that or its MD5      *)
(* fails, which is only shown.                                              *)
CheckExisting ==
  /\ ServerDoes({"existing"})
  /\ \/ /\ Stored # Absent /\ Matches(Stored, sreg.hash)
        /\ RepliesAndReturns("cnt")
        /\ UNCHANGED <<sfiles, faulted>>
     \/ /\ ~(Stored # Absent /\ Matches(Stored, sreg.hash))
        /\ sfiles' = WithStored(Absent)
        /\ server' = Step(server)
        /\ UNCHANGED <<s2c, faulted>>
     \/ /\ Stored # Absent /\ Fault("io")
        /\ server' = Step(server)
        /\ UNCHANGED <<s2c, sfiles>>
  /\ UNCHANGED <<c2s, cvars, sreg, sconf, alg, sarch>>

(* fileWriter: the file is opened to append to it.                          *)
CreateFile ==
  /\ ServerDoes({"create"})
  /\ \/ server' = Step(server) /\ UNCHANGED <<s2c, faulted>>
     \/ RepliesAndReturns("err") /\ Fault("create")
  /\ UNCHANGED <<c2s, cvars, sreg, sconf, alg, sfiles, sarch>>

(* Mutant: the MD5 of the file is not compared.                             *)
StoreFileUnchecked ==
  /\ ServerDoes({"store"})
  /\ \E written \in {sreg.body, Torn} :
       /\ IF written = sreg.body THEN UNCHANGED faulted ELSE Fault("disk")
       /\ sfiles' = WithStored(written)
  /\ server' = Step(server)
  /\ UNCHANGED <<channels, cvars, sreg, sconf, alg, sarch>>

(* The file is written and its MD5 compared with the one received.  A file  *)
(* that fails the comparison is left where it is.                           *)
StoreFile ==
  /\ ServerDoes({"store"})
  /\ \E written \in {sreg.body, Torn} :
       /\ IF Stored # Absent THEN written = Torn /\ UNCHANGED faulted
          ELSE IF written = sreg.body THEN UNCHANGED faulted
          ELSE Fault("disk")
       /\ sfiles' = WithStored(written)
       /\ \/ Matches(written, sreg.hash) /\ server' = Step(server) /\ UNCHANGED s2c
          \/ ~Matches(written, sreg.hash) /\ RepliesAndReturns("err")
  /\ UNCHANGED <<c2s, cvars, sreg, sconf, alg, sarch>>

ServerKey == <<sconf.name, alg>>

(* What the compression command makes: tar starts the archive afresh, zip   *)
(* updates the one it finds.                                                *)
NewArchive ==
  LET old == sarch[ServerKey]
  IN  Archive(alg, IF alg = "zip" /\ old # Absent
                   THEN [f \in Files |-> IF sfiles[f] # Absent THEN sfiles[f] ELSE old[3][f]]
                   ELSE sfiles)

(* handle_compress(): the archive is made before the first answer.          *)
MakeArchive ==
  /\ ServerDoes({"tar"})
  /\ \/ /\ alg \in Available
        /\ sarch' = [sarch EXCEPT ![ServerKey] = NewArchive]
        /\ server' = Step(server)
        /\ UNCHANGED <<s2c, faulted>>
     \/ /\ \/ alg \notin Available /\ UNCHANGED faulted
           \/ Fault("tar")
        /\ RepliesAndReturns("err")
        /\ UNCHANGED sarch
  /\ UNCHANGED <<c2s, cvars, sreg, sconf, alg, sfiles>>

ReadArchive ==
  /\ ServerDoes({"stat", "hash", "open"})
  /\ sreg' = CASE ServerOp.x = "hash" -> [sreg EXCEPT !.hash = sarch[ServerKey]]
               [] ServerOp.x = "open" -> [sreg EXCEPT !.body = sarch[ServerKey]]
               [] OTHER               -> sreg
  /\ server' = Step(server)
  /\ UNCHANGED <<channels, cvars, sconf, alg, sfiles, sarch, faulted>>

(* fileReaderException is caught: the function returns and says nothing, or *)
(* the process ends in the delete[] of a pointer that is not set.           *)
OpenFails ==
  /\ ServerDoes({"open"}) /\ Fault("read")
  /\ server' \in {Finish(server, ServerScript), Ends(server, "terminated")}
  /\ UNCHANGED <<channels, cvars, sreg, sconf, alg, sfiles, sarch>>

(* fileException is not: the process ends.                                  *)
ServerFileFails ==
  /\ ServerDoes({"stat", "hash", "store", "delete"}) /\ Fault("io")
  /\ server' = Ends(server, "terminated")
  /\ UNCHANGED <<channels, cvars, sreg, sconf, alg, sfiles, sarch>>

(* delete_file() does not look at what the rm it starts returns: an archive *)
(* that could not be removed stays.                                         *)
DeleteArchive ==
  /\ ServerDoes({"delete"})
  /\ \/ sarch' = [sarch EXCEPT ![ServerKey] = Absent] /\ UNCHANGED faulted
     \/ Fault("io") /\ UNCHANGED sarch
  /\ server' = Step(server)
  /\ UNCHANGED <<channels, cvars, sreg, sconf, alg, sfiles>>
-----------------------------------------------------------------------------
(* What the shell does by itself, once the user has entered a command.      *)
ClientStep ==
  \/ ClientReturns
  \/ ClientPuts \/ ClientGets \/ ClientRefused \/ ClientMisreads \/ ClientAtEnd \/ ClientFails
  \/ EnableCompressor \/ ReadLocal \/ ClientFileFails \/ SendSucceeds \/ SetConfig
  \/ CreateArchive \/ VerifyArchive \/ ArchiveReceived

ServerStep ==
  \/ ServerReturns
  \/ ServerPuts \/ ServerGets \/ ServerRefused \/ ServerMisreads \/ ServerAtEnd \/ ServerFails
  \/ Dispatch \/ SetServerName \/ SetServerIndex
  \/ CheckExisting \/ CreateFile \/ StoreFile
  \/ MakeArchive \/ ReadArchive \/ OpenFails \/ ServerFileFails \/ DeleteArchive

Next ==
  \/ AtPrompt \/ Refuses
  \/ ClientStep \/ ServerStep
  \/ \E f \in Files, v \in Versions : Edit(f, v)
  \/ ClientKilled \/ ServerKilled

Spec == Init /\ [][Next]_vars

(* Both sides go on while they can: each is a thread of its own.  The user  *)
(* enters a command or not, and a fault happens or not.                     *)
FairSpec == Spec /\ WF_vars(ClientStep) /\ WF_vars(ServerStep)
-----------------------------------------------------------------------------
(* Properties.                                                              *)

AtRest ==
  /\ c2s = <<>> /\ s2c = <<>>
  /\ client.mode = "prompt"
  /\ server.mode = "run" /\ server.cmd = "loop" /\ server.pos = 1

(* The two configurations are changed one after the other, each by its own  *)
(* copy of the data: between commands they name the same archive, and the   *)
(* algorithm of the bridge is the one the configuration stands for.         *)
ConfigAgreement ==
  AtRest => /\ cconf.name = sconf.name
            /\ cconf.index = sconf.index
            /\ alg = sconf.index

(* "mandato con successo", and the notice that the server has the file      *)
(* already, mean that the server holds the bytes the client hashed,         *)
(* whatever happened to either copy before (do_send(), handle_send()).      *)
SendMeansStored ==
  client.mode = "run" /\ client.cmd = "send" /\ note \in {"sent", "present"}
    => sfiles[creg.arg] = creg.hash

(* "ricevuto con successo" means that the archive the configuration names   *)
(* is in the folder, made by the configured compressor from the files the   *)
(* server holds (do_compress(), handle_compress()).                         *)
ReceivedArchiveIsCurrent ==
  note = "received" => received[ArchiveKey] = Archive(cconf.index, sfiles)

(* "Archivio gia' ricevuto e nessuna modifica alla configurazione": a       *)
(* compress that is refused with this message would have made the archive   *)
(* the client has (check_compress() and the counters it reads).             *)
RefusalJustified ==
  note = "already" => received[ArchiveKey] = Archive(cconf.index, sfiles)

(* The same where the compressor is installed and compressing, opening,     *)
(* reading and writing a file work.                                         *)
RefusalJustifiedUnlessFailed ==
  /\ faulted \cap {"tar", "create", "read", "io", "disk"} = {} /\ ~ServerGone
  /\ cconf.index \in Available
  => RefusalJustified

(* check_compress() relies on the number of sends, and parse_command()      *)
(* counts the ones that failed as well: even so an archive that is received *)
(* is not one of nothing ("NO_SENT_FILES" is what the user is told then),   *)
(* and unless a file was cut short or could not be looked at while it was   *)
(* sent, it holds a whole file, even if the user changed it meanwhile.      *)
ArchiveHoldsFile ==
  note = "received" =>
    /\ \E f \in Files : sfiles[f] # Absent
    /\ faulted \cap {"disk", "io"} = {} => \E f \in Files : sfiles[f] \notin {Absent, Torn, Junk}

(* An error leaves the stream where both sides expect it, except that of a  *)
(* file that cannot be created after its transfer was agreed on.            *)
FramingKept ==
  ~InFrame => "create" \in faulted

Waits(side, op, incoming) == side.mode = "run" /\ op.do = "get" /\ incoming = <<>>

(* Client and server never wait for each other, unless the server could not *)
(* read the archive it had announced.                                       *)
NotBothWaiting ==
  ~( /\ ClientRunning /\ Waits(client, ClientOp, s2c)
     /\ ServerRunning /\ Waits(server, ServerOp, c2s)
     /\ faulted \cap {"read"} = {} )

(* configure-compressor is confirmed by the server.                         *)
ConfirmedCompressorInstalled ==
  sconf.index \in Available

(* Seen from the rest of the server, a session is one worker thread of      *)
(* Workers: the scripts pass its stages in order, and an exception leaves   *)
(* the thread only where Workers allows it.                                 *)
StageOf(side) ==
  CASE side.mode = "closed"                                -> "leaving"
    [] side.mode = "terminated"                            -> "uncaught"
    [] side.mode \notin {"closed", "terminated"} ->
         CASE side.cmd = "hello"              -> "handshake"
           [] side.cmd = "loop"               -> "idle"
           [] side.cmd \notin {"hello", "loop"} -> "command"

ThisClient == {"client"}
Worker == INSTANCE Workers WITH
  Conn         <- ThisClient,
  FilesMayFail <- Faults \cap {"io", "read"} # {},
  stage        <- [c \in ThisClient |-> StageOf(server)],
  peer         <- [c \in ThisClient |-> IF ClientGone THEN "closed" ELSE "open"],
  process      <- CASE server.mode = "killed"     -> "ended"
                    [] server.mode = "terminated" -> "terminated"
                    [] OTHER                      -> "up"

ImplementsWorkers == Worker!Spec

(* Seen by the user, a session is RemoteArchive, with the configuration of  *)
(* the server as the one that counts: whatever is interleaved and fails, an *)
(* archive is stored under that name and is the one of the stored files,    *)
(* and what the shell said stays true until the next command.               *)
Service == INSTANCE RemoteArchive WITH
  Whole      <- {<<v>> : v \in Versions},
  Broken     <- {Torn, Junk},
  Names      <- ArchiveNames,
  Algorithms <- Compressors,
  Reliable   <- Faults \subseteq {"edit"} /\ Compressors \subseteq Available,
  stored     <- sfiles,
  name       <- sconf.name,
  folder     <- received,
  told       <- note

ImplementsService == Service!Spec

(* The server could not open the archive it had announced, and waits for a  *)
(* command while do_compress() waits for the file.                          *)
ArchiveNotSent ==
  /\ "read" \in faulted /\ client.cmd = "compress"
  /\ server.mode = "run" /\ server.cmd = "loop"

(* A command ends, whatever fails on either side and even if one of them is *)
(* killed: the prompt comes back, or the shell ends.  It never does after   *)
(* an archive that is not sent, and nothing is said of a stream whose       *)
(* framing is lost.                                                         *)
CommandReturns ==
  client.mode = "run" ~>
    \/ client.mode \in {"prompt", "left", "aborted", "killed"}
    \/ ArchiveNotSent
    \/ ~InFrame

(* The worker of a client that left or was killed, in any place of any      *)
(* command, leaves its loop: nobody waits for a client that is gone.  (A    *)
(* length that was never received is one its loops can count to here; for   *)
(* any other see Trunks.)                                                   *)
GoneIsNoticed ==
  ClientGone ~> ServerGone \/ ~InFrame
=============================================================================
