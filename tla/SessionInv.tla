------------------------------ MODULE SessionInv ------------------------------
(***************************************************************************)
(* The inductive invariants of Session.  The scripts of the two sides of a *)
(* command are two halves of one dialogue: each side has done a prefix of  *)
(* it, and what one has done and the other has not is in the connection.   *)
(* The rest are the ways a command ends before its dialogue does.          *)
(***************************************************************************)
EXTENDS Session

(* A message of a dialogue: who puts it, and from what.                     *)
Cl(kind, x) == [who |-> "client", kind |-> kind, x |-> x]
Sv(kind, x) == [who |-> "server", kind |-> kind, x |-> x]

COk  == Cl("rsp", "ack")
SOk  == Sv("rsp", "ack")
CBye == Cl("rsp", "bye")
SBye == Sv("rsp", "bye")

ConfigDialogue(cmd) ==
  <<Cl("cmd", cmd), SOk, Sv("int", "none"), COk, Sv("data", "name"), COk, Sv("int", "index"), COk,
    SBye>>

Dialogue ==
  [hello    |-> <<Sv("int", "none"), COk, Sv("int", "flag"), COk, Sv("int", "flag"), COk>>,
   help     |-> <<Cl("cmd", "help"), SOk>>,
   quit     |-> <<Cl("cmd", "quit"), SOk>>,
   send     |-> <<Cl("cmd", "send"), SOk, Cl("int", "none"), SOk, Cl("data", "arg"), SOk,
                  Cl("int", "none"), SOk, Cl("data", "hash"), SOk, Cl("file", "body"), SOk, CBye>>,
   check    |-> ConfigDialogue("check"),
   show     |-> ConfigDialogue("show"),
   rename   |-> <<Cl("cmd", "rename"), SOk, Cl("int", "none"), SOk, Cl("data", "arg"), SOk, CBye>>,
   comp     |-> <<Cl("cmd", "comp"), SOk, Cl("int", "arg"), SOk, CBye>>,
   compress |-> <<Cl("cmd", "compress"), SOk, SOk, Sv("int", "none"), COk, Sv("data", "hash"), COk,
                  Sv("file", "body"), COk, SBye>>]

Length(cmd) == Len(Dialogue[cmd])

(* How many messages of the dialogue a side at each place of its script has *)
(* done.                                                                    *)
ClientClock ==
  [hello    |-> <<0, 1, 2, 3, 4, 4, 5, 6, 6>>,
   help     |-> <<0, 1, 2>>,
   quit     |-> <<0, 1, 2>>,
   send     |-> <<0, 1, 2, 3, 4, 5, 6, 6, 7, 8, 8, 9, 10, 10, 11, 12, 13, 13>>,
   check    |-> <<0, 1, 2, 3, 4, 5, 6, 7, 8, 9, 9>>,
   show     |-> <<0, 1, 2, 3, 4, 5, 6, 7, 8, 9, 9>>,
   rename   |-> <<0, 1, 2, 3, 4, 5, 6, 7, 7>>,
   comp     |-> <<0, 1, 2, 3, 4, 5, 5>>,
   compress |-> <<0, 1, 2, 3, 4, 5, 6, 7, 7, 8, 8, 9, 10, 10>>]

ServerClock ==
  [hello    |-> <<0, 1, 2, 3, 4, 5, 6>>,
   loop     |-> <<0, 1, 2>>,
   help     |-> <<2>>,
   send     |-> <<2, 3, 4, 5, 6, 7, 8, 9, 9, 10, 10, 11, 11, 12, 13>>,
   check    |-> <<2, 3, 4, 5, 6, 7, 8, 9>>,
   show     |-> <<2, 3, 4, 5, 6, 7, 8, 9>>,
   rename   |-> <<2, 3, 4, 5, 6, 7, 7>>,
   comp     |-> <<2, 3, 4, 5, 5>>,
   compress |-> <<2, 2, 3, 3, 4, 5, 5, 6, 7, 7, 8, 9, 10, 10>>]

CDone == ClientClock[client.cmd][client.pos]
SDone == ServerClock[server.cmd][server.pos]

(* Each side is at a place in a script, or at its end.                      *)
ClientOK ==
  /\ client \in [mode : {"run", "prompt", "lost", "left", "aborted", "killed"},
                 cmd : DOMAIN ClientScript, pos : Nat \ {0}]
  /\ client.pos <= Len(ClientScript[client.cmd]) + 1
  /\ client.mode = "prompt" => client.cmd # "quit" /\ client.pos = Len(ClientScript[client.cmd]) + 1
  /\ DOMAIN creg = DOMAIN Blank

ServerOK ==
  /\ server \in [mode : {"run", "lost", "closed", "terminated", "killed"},
                 cmd : DOMAIN ServerScript, pos : Nat \ {0}]
  /\ server.pos <= Len(ServerScript[server.cmd]) + 1
  /\ server.cmd = "loop" => server.pos <= 3
  /\ DOMAIN sreg = DOMAIN Blank

SidesOK == ClientOK /\ ServerOK

ClientEnded == client.pos = Len(ClientScript[client.cmd]) + 1
ServerEnded(cmd) ==
  \/ server.cmd = cmd /\ server.pos = Len(ServerScript[cmd]) + 1
  \/ server.cmd = "loop" /\ server.pos = 1

(* A channel with one message; what is in a channel, and what follows it.   *)
Only(m) == <<m>>
Before(first, next) == first \o next
Reply(code) == Only([kind |-> "rsp", val |-> code])

(* What the messages of a dialogue after the first "from", up to "to", are. *)
Message(reg, m) == [kind |-> m.kind, val |-> Value(reg, m.x)]
InFlight(cmd, from, to, reg) ==
  [i \in 1 .. (to - from) |-> Message(reg, Dialogue[cmd][from + i])]
PutBy(who, cmd, from, to) == \A i \in from + 1 .. to : Dialogue[cmd][i].who = who

(* What a side that is gone was sent does not matter, nor what it sends.    *)
Channels(up, down) ==
  /\ ~ServerGone => c2s = up
  /\ ~ClientGone => s2c = down

(* The server has done b messages of the client's dialogue.                 *)
Between(b) ==
  /\ PutBy("client", client.cmd, b, CDone) /\ PutBy("server", client.cmd, CDone, b)
  /\ Channels(InFlight(client.cmd, b, CDone, creg), InFlight(client.cmd, CDone, b, sreg))

(* Both sides are in the same command, or the server before or after it.    *)
Talking ==
  \/ server.cmd = client.cmd /\ Between(SDone)
  \/ server.cmd = "loop" /\ server.pos = 1 /\ Between(Length(client.cmd))
  \/ /\ server.cmd = "loop" /\ client.cmd # "hello"
     /\ server.pos > 1 /\ ~ServerGone => sreg.cmd = client.cmd
     /\ Between(SDone)

(* The client has begun a command, as far as it can by itself.              *)
Begins == client.cmd # "hello" /\ client.pos \in {1, 2}
Begun  == IF Begins /\ client.pos = 2 THEN Only([kind |-> "cmd", val |-> client.cmd]) ELSE <<>>

(* The server has not done with the last command when the next one begins.  *)
Overlapping ==
  /\ Begins
  /\ \/ /\ server.cmd # "loop"
        /\ PutBy("client", server.cmd, SDone, Length(server.cmd))
        /\ Channels(Before(InFlight(server.cmd, SDone, Length(server.cmd), Blank), Begun), <<>>)
     \/ /\ server.cmd = "loop" /\ server.pos = 3
        /\ ~ServerGone => sreg.cmd = "help"
        /\ Channels(Begun, <<>>)

(* The server has answered with an error, or that it has the file, and      *)
(* returned; the client has not read it yet.                                *)
ServerRefuses ==
  /\ client.cmd \in {"send", "compress"} /\ ServerEnded(client.cmd)
  /\ \E b \in CDone .. Length(client.cmd) - 1, code \in Refusal :
       /\ PutBy("server", client.cmd, CDone, b + 1)
       /\ Dialogue[client.cmd][b + 1].kind = "rsp"
       /\ Channels(<<>>, Before(InFlight(client.cmd, CDone, b, Blank), Reply(code)))

(* The client has found that the archive is not the one announced.          *)
ClientRefuses ==
  /\ server.cmd = "compress" /\ server.pos = 11
  /\ Begins \/ (client.cmd = "compress" /\ ClientEnded)
  /\ Channels(Before(Reply("err"), Begun), <<>>)

(* The server could not read the archive and returned without a word.       *)
ArchiveUnread ==
  /\ "read" \in faulted
  /\ ServerEnded("compress")
  /\ client.cmd = "compress" /\ client.pos \in {8, 9}
  /\ Channels(<<>>, <<>>)

(* The client could not create the archive and returned without a word: the *)
(* server goes on to send it.                                               *)
ArchiveUnwanted ==
  /\ "create" \in faulted
  /\ server.cmd = "compress" /\ server.pos \in 8 .. 11
  /\ Begins \/ (client.cmd = "compress" /\ ClientEnded)
  /\ Channels(Before(IF server.pos = 8 THEN Reply("ack") ELSE <<>>, Begun),
              IF server.pos = 11 THEN Only([kind |-> "file", val |-> sreg.body]) ELSE <<>>)

(* The server could not create the file and answered with an error: the     *)
(* client sends it before it reads the answer.                              *)
FileUnwanted ==
  /\ "create" \in faulted
  /\ ServerEnded("send")
  /\ \/ /\ client.cmd = "send" /\ client.pos \in 12 .. 14
        /\ Channels(<<>>, Before(IF client.pos = 12 THEN Reply("ack") ELSE <<>>, Reply("err")))
     \/ /\ client.cmd = "send" /\ client.pos = 15
        /\ Channels(Only([kind |-> "file", val |-> creg.body]), Reply("err"))
     \/ /\ Begins \/ (client.cmd = "send" /\ ClientEnded)
        /\ ~ServerGone => /\ c2s # <<>>
                          /\ c2s = Before(Only([kind |-> "file", val |-> Head(c2s).val]), Begun)
        /\ ~ClientGone => s2c = <<>>

(* The server is gone, and what it sent last is no answer to any command.   *)
Stale ==
  /\ ServerGone /\ "create" \in faulted
  /\ Begins \/ ClientEnded
  /\ s2c # <<>> /\ s2c = Only(Head(s2c))
  /\ Head(s2c).kind = "rsp" => Head(s2c).val = "err"

(* Somebody is gone, and the one that is left will read nothing.            *)
Silent ==
  \/ ClientGone /\ ServerGone
  \/ ServerGone /\ s2c = <<>>
  \/ ClientGone /\ c2s = <<>>

Framed ==
  \/ Talking \/ Overlapping
  \/ ServerRefuses \/ ClientRefuses
  \/ ArchiveUnread \/ ArchiveUnwanted \/ FileUnwanted
  \/ Stale \/ Silent

(* The stream is where both sides expect it, but for the one error.         *)
StreamKept == IF InFrame THEN Framed ELSE "create" \in faulted

FrameInv == SidesOK /\ StreamKept

-----------------------------------------------------------------------------
(* What the two sides hold in common while a dialogue goes on.              *)

(* Nobody is gone, or the client has not read all the server sent.          *)
Met == ~ClientGone /\ (~ServerGone \/ s2c # <<>>)

(* The settings of the server, once it has set what it has taken; those of  *)
(* the client, once it has set what the server has taken.                   *)
ServerName  == IF server.cmd = "rename" /\ server.pos \in 4 .. 6 THEN sreg.name ELSE sconf.name
ServerIndex == IF server.cmd = "comp" /\ server.pos \in 2 .. 4 THEN sreg.index ELSE sconf.index

NameTaken ==
  /\ client.cmd = "rename"
  /\ client.pos \in {7, 8} \/ (client.pos = 6 /\ server.cmd = "rename" /\ server.pos > 3)
IndexTaken ==
  /\ client.cmd = "comp"
  /\ client.pos \in {5, 6} \/ (client.pos = 4 /\ server.cmd = "comp" /\ server.pos > 1)

ClientName  == IF NameTaken THEN creg.arg ELSE cconf.name
ClientIndex == IF IndexTaken THEN creg.arg ELSE cconf.index

Reports(side) == side.cmd \in {"show", "check"}

ConfigInv ==
  Met => /\ ServerName = ClientName /\ ServerIndex = ClientIndex
         /\ Reports(client) /\ client.pos \in 6 .. 10 => creg.name = ServerName
         /\ Reports(client) /\ client.pos \in 8 .. 10 => creg.index = ServerIndex

(* What the user entered; what a side took for a setting, which it does not *)
(* set if the other side is gone; the bytes of a file.                      *)
ArgOK ==
  client.pos <= Len(ClientScript[client.cmd]) =>
    /\ client.cmd = "send"   => creg.arg \in Files
    /\ client.cmd = "rename" => creg.arg \in ArchiveNames
    /\ client.cmd = "comp"   => creg.arg \in Compressors

TakenOK ==
  /\ server.cmd = "rename" /\ server.pos \in 4 .. 6 =>
       sreg.name \in ArchiveNames \/ (ClientGone /\ c2s = <<>> /\ server.pos < 6)
  /\ server.cmd = "comp" /\ server.pos \in 2 .. 4 =>
       sreg.index \in Compressors \/ (ClientGone /\ c2s = <<>> /\ server.pos < 4)
  /\ Reports(client) /\ client.pos \in 6 .. 10 =>
       creg.name \in ArchiveNames \/ (ServerGone /\ s2c = <<>> /\ client.pos < 10)
  /\ Reports(client) /\ client.pos \in 8 .. 10 =>
       creg.index \in Compressors \/ (ServerGone /\ s2c = <<>> /\ client.pos < 10)

(* What the server reports, and what it compresses with, is what it has.    *)
SettingsOK ==
  /\ alg = sconf.index
  /\ Reports(server) => sreg.name = sconf.name /\ sreg.index = sconf.index

BytesOK ==
  /\ client.cmd = "send" /\ client.pos \in 14 .. 17 => creg.body \in {<<v>> : v \in Versions}
  /\ server.cmd = "send" /\ server.pos = 12 => sreg.body \in FileContents \ {Absent}

CountOK == client.cmd = "send" /\ client.mode = "run" => cconf.sent < MaxSends

DataOK == TypeOK /\ ArgOK /\ TakenOK /\ SettingsOK /\ BytesOK /\ CountOK

(* A file that is sent: the server was told its name and its MD5, and holds *)
(* it before it says so.                                                    *)
Sending == ~ClientGone /\ client.cmd = "send"
Kept    == sfiles[creg.arg] = creg.hash /\ creg.hash \in {<<v>> : v \in Versions}

(* What the server takes for the file is what the client sends.             *)
ToldOK ==
  Met /\ client.cmd = "send" /\ client.pos \in 3 .. 17 /\ server.cmd = "send" =>
    /\ server.pos \in 4 .. 14  => sreg.arg = creg.arg
    /\ server.pos \in 8 .. 14  => sreg.hash = creg.hash
    /\ server.pos \in 13 .. 14 => Kept

(* What the server answers once it holds the file.                          *)
AnswerOK ==
  Sending /\ s2c # <<>> /\ Head(s2c).kind = "rsp" =>
    /\ client.pos \in 2 .. 17 /\ Head(s2c).val = "cnt" => Kept
    /\ client.pos = 15 /\ Head(s2c).val = "ack" => Kept

SendInv ==
  /\ ToldOK /\ AnswerOK
  /\ Sending /\ client.pos \in 16 .. 17 => Kept
  /\ client.mode = "run" /\ client.cmd = "send" /\ note \in {"sent", "present"} =>
       client.pos = 18 /\ Kept

(* An archive that is fetched is the one of what the server stores: the     *)
(* server made it, the client has it, the user was told.                    *)
Archived == Archive(cconf.index, sfiles)

MadeOK ==
  ~ClientGone /\ server.cmd = "compress" =>
    /\ server.pos \in 2 .. 13  => sarch[ServerKey] = Archive(alg, sfiles)
    /\ server.pos \in 7 .. 13  => sreg.hash = Archive(alg, sfiles)
    /\ server.pos \in 10 .. 13 => sreg.body = Archive(alg, sfiles)

FetchedOK ==
  ~ClientGone /\ client.cmd = "compress" =>
    /\ client.pos \in 7 .. 13  => creg.hash \in {Archived, Junk}
    /\ client.pos \in 11 .. 13 => received[ArchiveKey] = Archived

ReceivedOK ==
  note = "received" =>
    /\ client.cmd = "compress" /\ client.pos = 14
    /\ received[ArchiveKey] = Archived
    /\ ~ServerGone => /\ c2s = <<>>
                      /\ \/ server.cmd = "compress" /\ server.pos >= 13
                         \/ server.cmd = "loop" /\ server.pos = 1

(* An archive left behind holds no file the server has not, so that zip     *)
(* does not bring one back; only between the deletion of an old version and *)
(* the arrival of the new one it may.                                       *)
Leftovers ==
  ~ClientGone /\ ~ServerGone =>
    \A k \in ArchiveKeys, f \in Files :
      sarch[k] # Absent /\ sarch[k][3][f] # Absent =>
        \/ sfiles[f] # Absent
        \/ server.cmd = "send" /\ server.pos \in 9 .. 12 /\ sreg.arg = f
        \/ FileUnwanted

ArchiveInv == MadeOK /\ FetchedOK /\ ReceivedOK /\ Leftovers

(* Compressing, opening, reading and writing a file work: a compression     *)
(* goes through, and what it fetches is what the server stores.             *)
Works ==
  /\ faulted \cap {"tar", "create", "read", "io", "disk"} = {} /\ ~ServerGone
  /\ cconf.index \in Available
Held == received[ArchiveKey] = Archived

NoRefusalIn(s) == \A i \in 1 .. Len(s) : s[i].kind = "rsp" => s[i].val \notin Refusal

GoesThrough ==
  Works /\ ~ClientGone /\ client.cmd = "compress" =>
    /\ NoRefusalIn(s2c)
    /\ client.pos \in 7 .. 13  => creg.hash = Archived
    /\ client.pos \in 9 .. 10  => received[ArchiveKey] = Absent
    /\ client.pos = 10         => creg.body = Archived
    /\ client.pos \in 11 .. 14 => Held

(* The counters and the dirty flag tell whether it is still so.             *)
CountsOK ==
  /\ cconf.at <= cconf.sent
  /\ client.cmd = "send" /\ client.mode = "prompt" => cconf.at < cconf.sent

FreshOK ==
  /\ Works /\ ~ClientGone /\ client.cmd \notin {"send", "compress"}
  /\ cconf.at = cconf.sent /\ cconf.sent > 0 /\ ~cconf.dirty
  => Held

(* The worker has done with the files until another command is sent.        *)
Idle ==
  /\ server.cmd # "send" /\ (server.cmd = "loop" /\ server.pos > 1 => sreg.cmd # "send")
  /\ c2s = <<>> \/ (c2s = Only(Head(c2s)) /\ Head(c2s).kind # "cmd")

AlreadyOK == note = "already" => client.mode # "run" /\ (Works => Held /\ Idle)

RefusalInv == GoesThrough /\ CountsOK /\ FreshOK /\ AlreadyOK

(* The shell says so at its prompt, and does nothing there by itself.       *)
PromptOK == note = "already" => client.mode = "prompt" \/ "kill" \in faulted

-----------------------------------------------------------------------------
(* What the user was told stays so (RemoteArchive).                         *)

(* Commands that write the files or the settings of the server, and the     *)
(* places of the worker where it has done so.                               *)
Writers == {"send", "rename", "comp"}
Written ==
  /\ server.cmd = "send"   => server.pos >= 13
  /\ server.cmd = "rename" => server.pos = 7
  /\ server.cmd = "comp"   => server.pos = 5

(* The messages of a channel.  The worker knows of a command, or will when  *)
(* it reads on.                                                             *)
Messages(s) == {s[i] : i \in 1 .. Len(s)}
Knows(cmd) ==
  \/ server.cmd = cmd \/ sreg.cmd = cmd
  \/ \E m \in Messages(c2s) : m.kind = "cmd" /\ m.val = cmd

(* No command is on its way, and the last one has written what it writes.   *)
Settled ==
  /\ Written
  /\ server.cmd = "loop" /\ server.pos > 1 => sreg.cmd \notin Writers
  /\ \A m \in Messages(c2s) : m.kind # "cmd"

SettledOK ==
  note \in {"sent", "present", "received", "already"} /\ ~ServerGone => Settled

(* A message is for a command that has ended.  Only parse_command() goes on *)
(* after one, with a compression that hears nothing from the server.        *)
Unheard == s2c = <<>> \/ Head(s2c).kind # "rsp" \/ Head(s2c).val \in Refusal
NoteOK ==
  client.mode = "run" =>
    \/ note = "none"
    \/ client.cmd # "check" /\ ClientEnded
    \/ /\ note = "failed" /\ ServerGone /\ Unheard
       /\ \/ client.cmd = "check" /\ ClientEnded
          \/ client.cmd = "compress" /\ client.pos <= 2

(* Only a send hears that the server has the file.                          *)
HaveOK ==
  ~ClientGone /\ client.cmd # "send" =>
    \A m \in Messages(s2c) : m.kind = "rsp" => m.val # "cnt"

(* Who has sent nothing has nothing there.                                  *)
NothingOK ==
  cconf.sent = 0 /\ client.cmd # "send" =>
    ~Knows("send") /\ \A f \in Files : sfiles[f] = Absent

(* The server stays until the user quits, unless a file or a thread fails.  *)
ServedOK ==
  /\ Knows("quit") => client.cmd = "quit"
  /\ faulted \cap {"io", "read", "server"} = {} /\ ~ClientGone /\ client.cmd # "quit" => ~ServerGone

(* A setting that has been sent leaves the configuration dirty.             *)
DirtyOK ==
  /\ client.mode \in {"run", "prompt"} /\ client.cmd \in {"rename", "comp"}
  /\ ClientEnded /\ ~ServerGone
  => cconf.dirty

(* An archive is fetched under the name the server has for it.              *)
KeyOK ==
  client.mode = "run" /\ client.cmd = "compress" /\ client.pos \in 4 .. 13 =>
    cconf.name = sconf.name /\ cconf.index = alg
BodyOK ==
  ~ClientGone /\ client.cmd = "compress" /\ client.pos = 10 => creg.body \in {Archived, Junk}

ServiceInv == SettledOK /\ NoteOK /\ HaveOK /\ NothingOK /\ ServedOK /\ DirtyOK /\ KeyOK /\ BodyOK
-----------------------------------------------------------------------------
(* An archive is never one of nothing (ArchiveHoldsFile).                   *)

(* A file is stored; it is a whole one unless a disk or a look at it failed. *)
Intact   == faulted \cap {"disk", "io"} = {}
Holds(f) == sfiles[f] # Absent /\ (Intact => sfiles[f] \notin {Torn, Junk})
HasFile  == \E f \in Files : Holds(f)

(* The worker has deleted what it replaces, and has what it replaces it by. *)
UploadOK ==
  ~ClientGone /\ server.cmd = "send" =>
    /\ server.pos \in 9 .. 12 /\ Intact => Stored = Absent
    /\ server.pos = 12 => sreg.body \in {<<v>> : v \in Versions}

(* A file that is answered with an error is stored all the same, or it      *)
(* could not be created and nothing is compressed any more.                 *)
ErrorOK ==
  /\ ~ClientGone /\ ~ServerGone /\ client.cmd = "send" /\ ~ClientEnded
  /\ \E m \in Messages(s2c) : m.kind = "rsp" /\ m.val = "err"
  => Holds(creg.arg) \/ FileUnwanted

StoredOK ==
  /\ ~ClientGone /\ ~ServerGone
  /\ IF client.cmd = "send" THEN ClientEnded ELSE cconf.sent > 0
  => HasFile \/ FileUnwanted

(* Only who has sent a file asks for an archive; it is made, and announced, *)
(* from the files that are stored.                                          *)
AskedOK == client.cmd \in {"check", "compress"} => cconf.sent > 0
MadeOfOK ==
  /\ ~ClientGone /\ server.cmd = "compress" /\ server.pos \in 2 .. 13 => HasFile
  /\ ~ClientGone /\ client.cmd = "compress" =>
       /\ client.pos \in 7 .. 10  => creg.hash = Junk \/ HasFile
       /\ client.pos \in 11 .. 13 => HasFile
  /\ note = "received" => HasFile

HoldsInv == UploadOK /\ ErrorOK /\ StoredOK /\ AskedOK /\ MadeOfOK
=============================================================================
