----------------------------- MODULE PromiseProofs -----------------------------
(***************************************************************************)
(* Theorems of Session about what the user can rely on, for every set of   *)
(* files, versions, names, compressors and faults.  The counters of the    *)
(* client and its dirty flag tell the truth about the files of the server, *)
(* where compressing and files work; what the user was told stays so until *)
(* the next command; a session implements RemoteArchive; an archive that   *)
(* is received holds a file.                                               *)
(***************************************************************************)
EXTENDS TransferProofs

(* The messages of a channel after it was put on and taken from.            *)
LEMMA PutElements ==
  ASSUME NEW S, NEW s \in Seq(S), NEW m, NoRefusalIn(s), m.kind = "rsp" => m.val \notin Refusal
  PROVE  NoRefusalIn(Append(s, m))
  <1>1. s \in Seq(S \cup {m}) /\ m \in S \cup {m}
    OBVIOUS
  <1>2. /\ Len(Append(s, m)) = Len(s) + 1 /\ Append(s, m)[Len(s) + 1] = m
        /\ \A i \in 1 .. Len(s) : Append(s, m)[i] = s[i]
    BY <1>1
  <1> QED
    BY <1>2 DEF NoRefusalIn

LEMMA GetElements ==
  ASSUME NEW S, NEW s \in Seq(S), s # <<>>, NoRefusalIn(s)
  PROVE  NoRefusalIn(Tail(s)) /\ (Head(s).kind = "rsp" => Head(s).val \notin Refusal)
  <1>1. /\ Head(s) = s[1] /\ 1 \in 1 .. Len(s) /\ Len(Tail(s)) = Len(s) - 1
        /\ \A i \in 1 .. Len(s) - 1 : Tail(s)[i] = s[i + 1]
    OBVIOUS
  <1>2. \A i \in 1 .. Len(s) - 1 : i + 1 \in 1 .. Len(s)
    OBVIOUS
  <1> QED
    BY <1>1, <1>2 DEF NoRefusalIn

(* The last message of a dialogue and the one before it.                    *)
LEMMA PromptDialogue ==
  ASSUME NEW cmd \in DOMAIN ClientScript, Dialogue[cmd][Length(cmd)].who = "client"
  PROVE  Dialogue[cmd][Length(cmd) - 1].who = "server" /\ Dialogue[cmd][Length(cmd)].kind # "cmd"
  <1>1. CASE cmd = "hello"
    BY <1>1 DEF Dialogue, Length, ConfigDialogue, Cl, Sv, COk, SOk, CBye, SBye
  <1>2. CASE cmd = "help"
    BY <1>2 DEF Dialogue, Length, ConfigDialogue, Cl, Sv, COk, SOk, CBye, SBye
  <1>3. CASE cmd = "quit"
    BY <1>3 DEF Dialogue, Length, ConfigDialogue, Cl, Sv, COk, SOk, CBye, SBye
  <1>4. CASE cmd = "send"
    BY <1>4 DEF Dialogue, Length, ConfigDialogue, Cl, Sv, COk, SOk, CBye, SBye
  <1>5. CASE cmd = "check"
    BY <1>5 DEF Dialogue, Length, ConfigDialogue, Cl, Sv, COk, SOk, CBye, SBye
  <1>6. CASE cmd = "show"
    BY <1>6 DEF Dialogue, Length, ConfigDialogue, Cl, Sv, COk, SOk, CBye, SBye
  <1>7. CASE cmd = "rename"
    BY <1>7 DEF Dialogue, Length, ConfigDialogue, Cl, Sv, COk, SOk, CBye, SBye
  <1>8. CASE cmd = "comp"
    BY <1>8 DEF Dialogue, Length, ConfigDialogue, Cl, Sv, COk, SOk, CBye, SBye
  <1>9. CASE cmd = "compress"
    BY <1>9 DEF Dialogue, Length, ConfigDialogue, Cl, Sv, COk, SOk, CBye, SBye
  <1> QED
    BY <1>1, <1>2, <1>3, <1>4, <1>5, <1>6, <1>7, <1>8, <1>9 DEF ClientScript

(* Between the check of the settings and the compression nothing is on its  *)
(* way to the client.                                                       *)
LEMMA CheckedQuiet ==
  ASSUME SidesOK, Framed, client.cmd = "check", ClientEnded, ~ClientGone, ~ServerGone, "create" \notin faulted
  PROVE  s2c = <<>>
  <1>1. CDone = Length(client.cmd) /\ ~Begins
    <2>1. client.pos = 11
      BY ClientLengths DEF ClientEnded
    <2> QED
      BY <2>1, ClocksInRange DEF Begins
  <1>2. ~Overlapping /\ ~ServerRefuses /\ ~ArchiveUnread /\ ~ArchiveUnwanted /\ ~FileUnwanted /\ ~Stale
    BY <1>1 DEF Overlapping, ServerRefuses, ArchiveUnread, ArchiveUnwanted, FileUnwanted, Stale
  <1>3. CASE ClientRefuses
    BY <1>3 DEF ClientRefuses, Channels
  <1>4. CASE Silent
    BY <1>4 DEF Silent
  <1>5. CASE Talking
    <2>1. PICK b \in Nat : TalkingAt(b)
      BY <1>5, TalkingSomewhere
    <2>2. CDone \in Nat
      BY ClocksInRange
    <2>3. s2c # <<>> => CDone < b
      BY <2>1, Ahead DEF TalkingAt
    <2> QED
      BY <1>1, <2>1, <2>2, <2>3 DEF TalkingAt
  <1> QED
    BY <1>2, <1>3, <1>4, <1>5 DEF Framed

(* At the prompt the worker has done with the files, unless the last        *)
(* command was a send.                                                      *)
LEMMA PromptIdle ==
  ASSUME SidesOK, Framed, client.mode = "prompt", client.cmd # "send", ~ServerGone, "create" \notin faulted
  PROVE  Idle
  <1>1. ClientEnded /\ ~ClientGone /\ ~Begins /\ CDone = Length(client.cmd) /\ client.cmd # "loop"
    <2>1. ClientEnded /\ ~ClientGone /\ client.cmd \in DOMAIN ClientScript
      BY DEF SidesOK, ClientOK, ClientEnded, ClientGone
    <2>2. Len(ClientScript[client.cmd]) >= 2
      BY <2>1, ScriptIsLong
    <2>3. client.cmd # "loop"
      BY <2>1 DEF ClientScript
    <2> QED
      BY <2>1, <2>2, <2>3, ClocksInRange DEF Begins, ClientEnded
  <1>2. ~Overlapping /\ ~ArchiveUnwanted /\ ~FileUnwanted /\ ~Stale /\ ~Silent
    BY <1>1 DEF Overlapping, ArchiveUnwanted, FileUnwanted, Stale, Silent
  <1>3. ~ArchiveUnread
    <2> SUFFICES ASSUME client.cmd = "compress" PROVE client.pos \notin {8, 9}
      BY DEF ArchiveUnread
    <2>1. Len(ClientScript[client.cmd]) = 13
      BY ClientLengths
    <2> QED
      BY <1>1, <2>1 DEF ClientEnded
  <1>4. CASE ServerRefuses
    BY <1>4 DEF ServerRefuses, ServerEnded, Channels, Idle
  <1>5. CASE ClientRefuses
    <2>1. c2s = <<[kind |-> "rsp", val |-> "err"]>>
      BY <1>1, <1>5 DEF ClientRefuses, Channels, Before, Reply, Only, Begun
    <2> QED
      BY <1>5, <2>1 DEF ClientRefuses, Idle, Only
  <1>6. CASE Talking
    <2>1. PICK b \in Nat : TalkingAt(b)
      BY <1>6, TalkingSomewhere
    <2>2. server.cmd # "send" /\ (server.cmd = "loop" /\ server.pos > 1 => sreg.cmd # "send")
      BY <1>1, <2>1 DEF TalkingAt
    <2>3. c2s = InFlight(client.cmd, b, Length(client.cmd), creg)
      BY <1>1, <2>1 DEF TalkingAt, Between, Channels
    <2> DEFINE L == Length(client.cmd)
    <2>4. L \in Nat \ {0, 1} /\ client.cmd \in DOMAIN ClientScript /\ CDone = L
      BY <1>1, ClocksInRange
    <2>5. CASE b >= L
      BY <2>2, <2>3, <2>4, <2>5, NothingInFlight DEF Idle
    <2>6. CASE b < L
      <3>1. Dialogue[client.cmd][(L - 2) + 1].who = "server" => b > L - 2
        BY <2>1, <2>4, Ahead DEF TalkingAt
      <3>2. Dialogue[client.cmd][L].who = "client"
        <4>1. L \in b + 1 .. CDone
          BY <2>4, <2>6
        <4> QED
          BY <2>1, <4>1 DEF TalkingAt, Between, PutBy
      <3>3. Dialogue[client.cmd][L - 1].who = "server" /\ Dialogue[client.cmd][L].kind # "cmd"
        BY <2>4, <3>2, PromptDialogue
      <3>4. b = L - 1
        BY <2>4, <2>6, <3>1, <3>3
      <3>5. c2s = [i \in 1 .. 1 |-> Message(creg, Dialogue[client.cmd][b + i])]
        BY <2>3, <2>4, <3>4 DEF InFlight
      <3>6. c2s = <<Message(creg, Dialogue[client.cmd][L])>>
        BY <2>4, <3>4, <3>5
      <3> QED
        BY <2>2, <3>3, <3>6 DEF Idle, Only, Message
    <2> QED
      BY <2>4, <2>5, <2>6
  <1> QED
    BY <1>2, <1>3, <1>4, <1>5, <1>6 DEF Framed

-----------------------------------------------------------------------------
(* A compression where everything works: what the shell gets.               *)

LEMMA BodyPlaces ==
  /\ ClientClock["compress"][9] = 7
  /\ Dialogue["compress"][8] = Sv("file", "body") /\ Dialogue["compress"][9].who = "client"
  /\ \A p \in 1 .. 14 : ServerClock["compress"][p] = 8 <=> p = 11
  BY DEF ClientClock, ServerClock, Dialogue, Sv, COk, Cl

(* The bytes the shell gets are those the worker read.                      *)
LEMMA ShellHearsBody ==
  ASSUME SidesOK, Framed, ~ClientGone, s2c # <<>>, client.cmd = "compress", client.pos = 9,
         Head(s2c).kind = "file"
  PROVE  server.cmd = "compress" /\ server.pos = 11 /\ Head(s2c).val = sreg.body
  <1>1. CDone = 7 /\ Length("compress") = 10 /\ ~Begins /\ ~ClientEnded
    BY BodyPlaces, CompressPlaces, ClientLengths DEF CDone, Begins, ClientEnded
  <1>2. ~Overlapping /\ ~ClientRefuses /\ ~ArchiveUnwanted /\ ~FileUnwanted /\ ~Stale
    BY <1>1 DEF Overlapping, ClientRefuses, ArchiveUnwanted, FileUnwanted, Stale
  <1>3. ~ArchiveUnread /\ ~Silent
    BY DEF ArchiveUnread, Silent, Channels
  <1>4. ~ServerRefuses
    <2> SUFFICES ASSUME ServerRefuses PROVE FALSE
      OBVIOUS
    <2>1. PICK b \in 7 .. 9 : PutBy("server", "compress", 7, b + 1) /\ Dialogue["compress"][b + 1].kind = "rsp"
      BY <1>1 DEF ServerRefuses
    <2>2. CASE b = 7
      BY <2>1, <2>2, BodyPlaces DEF Sv
    <2>3. CASE b > 7
      <3>1. 9 \in 8 .. b + 1
        BY <2>1, <2>3
      <3>2. Dialogue["compress"][9].who = "server"
        BY <2>1, <3>1 DEF PutBy
      <3> QED
        BY <3>2, BodyPlaces
    <2> QED
      BY <2>1, <2>2, <2>3
  <1>5. PICK b \in Nat : TalkingAt(b)
    BY <1>2, <1>3, <1>4, TalkingSomewhere DEF Framed
  <1>6. server.cmd = client.cmd /\ SDone = 8 /\ Head(s2c) = Message(sreg, Dialogue[client.cmd][8])
    <2>1. CDone >= 2 /\ CDone + 2 <= Length(client.cmd) /\ Dialogue[client.cmd][CDone + 2].who = "client"
      BY <1>1, BodyPlaces
    <2>2. /\ server.cmd = client.cmd /\ SDone = CDone + 1
          /\ Head(s2c) = Message(sreg, Dialogue[client.cmd][CDone + 1])
      BY <1>5, <2>1, ClientHears
    <2> QED
      BY <1>1, <2>2
  <1>7. server.pos \in 1 .. 14 /\ DOMAIN sreg = DOMAIN Blank
    BY <1>6, CompressPlaces DEF SidesOK, ServerOK
  <1>8. server.pos = 11
    BY <1>6, <1>7, BodyPlaces DEF SDone
  <1>9. Head(s2c).val = sreg.body
    BY <1>6, <1>7, BodyPlaces DEF Message, Value, Sv, Blank
  <1> QED
    BY <1>6, <1>8, <1>9

(* The shell takes for the archive that of the stored files.                *)
LEMMA ShellTakesBody ==
  ASSUME SidesOK, Framed, DataOK, ConfigInv, MadeOK, ClientGets, ~ClientGone,
         client.cmd = "compress", client.pos = 9
  PROVE  creg'.body = Archived
  <1>1. ClientOp.do = "get" /\ ClientOp.x = "body" /\ ClientOp.kind = "file"
    BY DEF ClientOp, ClientScript, DoCompress, Get
  <1>2. s2c # <<>> /\ Head(s2c).kind = "file" /\ creg' = Store(creg, ClientOp.x, Head(s2c).val)
    BY <1>1 DEF ClientGets
  <1>3. server.cmd = "compress" /\ server.pos = 11 /\ Head(s2c).val = sreg.body
    BY <1>2, ShellHearsBody
  <1>4. sreg.body = Archive(alg, sfiles)
    BY <1>3 DEF MadeOK
  <1>5. alg = cconf.index
    <2>1. ServerIndex = sconf.index /\ ClientIndex = cconf.index
      BY <1>3 DEF ServerIndex, ClientIndex, IndexTaken
    <2>2. Met
      BY <1>2 DEF Met
    <2> QED
      BY <2>1, <2>2 DEF ConfigInv, DataOK, SettingsOK
  <1>6. creg'.body = sreg.body
    <2>1. DOMAIN creg = DOMAIN Blank
      BY DEF SidesOK, ClientOK
    <2> QED
      BY <1>1, <1>2, <1>3, <2>1, StoreOther
  <1> QED
    BY <1>4, <1>5, <1>6 DEF Archived

(* What works in the next state works in this one.                          *)
LEMMA WorkedBefore ==
  ASSUME Works', faulted \subseteq faulted', ServerGone => ServerGone', cconf'.index = cconf.index
  PROVE  Works
  BY DEF Works, Available

(* Nothing the shell takes from the connection is a refusal.                *)
LEMMA ShellNotRefused ==
  ASSUME SidesOK, Framed, ShellStep, NoRefusalIn(s2c)
  PROVE  NoRefusalIn(s2c') /\ ~ClientRefused
  <1>0. ~ClientGone
    BY ShellSteps
  <1>1. ASSUME s2c # <<>>
        PROVE  NoRefusalIn(Tail(s2c)) /\ (Head(s2c).kind = "rsp" => Head(s2c).val \notin Refusal)
    BY <1>0, <1>1, AnswersAreSequence, GetElements
  <1>2. ~ClientRefused
    BY <1>1 DEF ClientRefused
  <1> QED
    BY <1>1, <1>2, ShellChannel DEF ClientGets

(* Where nothing fails, the shell creates the archive afresh.               *)
LEMMA ShellCreates ==
  ASSUME SidesOK, DataOK, CreateArchive, Works'
  PROVE  client.cmd = "compress" /\ client.pos = 8 /\ client'.pos = 9 /\ received'[ArchiveKey] = Absent
  <1>1. client.cmd = "compress" /\ client.pos = 8
    BY AtOps DEF CreateArchive, ClientDoes, ClientOpAt
  <1>2. received' = [received EXCEPT ![ArchiveKey] = Absent] /\ client' = Step(client)
    BY DEF CreateArchive, Fault, Works
  <1>3. ArchiveKey \in DOMAIN received
    BY DEF DataOK, TypeOK, ArchiveKey, ArchiveKeys
  <1> QED
    BY <1>1, <1>2, <1>3, ClientForms

(* Nor do the bytes it writes differ from those announced.                  *)
LEMMA ShellVerifies ==
  ASSUME SidesOK, DataOK, VerifyArchive, Works', received[ArchiveKey] = Absent,
         creg.body = Archived, creg.hash = Archived
  PROVE  client'.pos = 11 /\ received'[ArchiveKey] = Archived
  <1>1. client.cmd = "compress" /\ client.pos = 10
    BY AtOps DEF VerifyArchive, ClientDoes, ClientOpAt
  <1>2. PICK written \in {creg.body, Torn} :
          /\ CASE received[ArchiveKey] # Absent -> written = Torn /\ UNCHANGED faulted
               [] written = creg.body           -> UNCHANGED faulted
               [] OTHER                         -> Fault("disk")
          /\ received' = [received EXCEPT ![ArchiveKey] = written]
          /\ \/ Matches(written, creg.hash) /\ client' = Step(client)
             \/ ~Matches(written, creg.hash)
    BY DEF VerifyArchive
  <1>3. written = Archived
    BY <1>2 DEF Fault, Works
  <1>4. Matches(written, creg.hash)
    BY <1>3 DEF Matches, Archived, Archive, Torn, Junk
  <1>5. ArchiveKey \in DOMAIN received
    BY DEF DataOK, TypeOK, ArchiveKey, ArchiveKeys
  <1> QED
    BY <1>1, <1>2, <1>3, <1>4, <1>5, ClientForms

(* A compression goes through: a step of the shell in it.                   *)
LEMMA ShellGoesOnThrough ==
  ASSUME SidesOK, Framed, DataOK, ConfigInv, MadeOK, FetchedOK, GoesThrough, ShellStep,
         Works', ~ClientGone', client.cmd = "compress", ~ClientReturns, ~AtPrompt
  PROVE  /\ NoRefusalIn(s2c')
         /\ client'.pos \in 7 .. 13  => creg'.hash = Archived'
         /\ client'.pos \in 9 .. 10  => received'[ArchiveKey'] = Absent
         /\ client'.pos = 10         => creg'.body = Archived'
         /\ client'.pos \in 11 .. 14 => received'[ArchiveKey'] = Archived'
  <1>1. /\ ~ClientGone /\ (ServerGone' <=> ServerGone) /\ faulted \subseteq faulted'
        /\ ArchiveKey' = ArchiveKey /\ Archived' = Archived /\ cconf'.index = cconf.index
    BY ShellSteps, ShellKeepsKey DEF ServerGone
  <1>2. Works /\ ~ServerGone /\ "create" \notin faulted'
    <2>1. Works
      BY <1>1, WorkedBefore
    <2> QED
      BY <2>1 DEF Works
  <1>3. /\ NoRefusalIn(s2c)
        /\ client.pos \in 7 .. 13  => creg.hash = Archived
        /\ client.pos \in 9 .. 10  => received[ArchiveKey] = Absent
        /\ client.pos = 10         => creg.body = Archived
        /\ client.pos \in 11 .. 14 => received[ArchiveKey] = Archived
    BY <1>1, <1>2 DEF GoesThrough, Held
  <1>4. client.pos \in 1 .. 14 /\ Len(ClientScript[client.cmd]) = 13 /\ DOMAIN creg = DOMAIN Blank
    <2>1. Len(ClientScript[client.cmd]) = 13
      BY ClientLengths
    <2> QED
      BY <2>1 DEF SidesOK, ClientOK
  <1>5. NoRefusalIn(s2c') /\ ~ClientRefused
    BY <1>3, ShellNotRefused
  <1>6. CreateArchive => client.pos = 8 /\ client'.pos = 9 /\ received'[ArchiveKey] = Absent
    BY ShellCreates
  <1>7. VerifyArchive => client.pos = 10 /\ client'.pos = 11 /\ received'[ArchiveKey] = Archived
    <2> SUFFICES ASSUME VerifyArchive
                 PROVE  client.pos = 10 /\ client'.pos = 11 /\ received'[ArchiveKey] = Archived
      OBVIOUS
    <2>1. client.pos = 10
      BY AtOps DEF VerifyArchive, ClientDoes, ClientOpAt
    <2> QED
      BY <1>3, <2>1, ShellVerifies
  <1>8. received' = received \/ CreateArchive \/ VerifyArchive
    BY ShellArchives
  <1>9. CASE client'.pos = client.pos /\ creg' = creg
    <2>1. received' = received
      BY <1>6, <1>7, <1>8, <1>9
    <2> QED
      BY <1>1, <1>3, <1>5, <1>9, <2>1
  <1>10. CASE ClientAdvances
    <2>1. /\ ClientRunning /\ client'.pos = client.pos + 1 /\ client.pos \in 1 .. 13
          /\ (creg'.hash = creg.hash \/ client.pos = 6) /\ (creg'.body = creg.body \/ client.pos = 9)
      BY <1>4, <1>10, AtOps, ShellKeeps DEF ClientAdvances
    <2>2. CASE client.pos = 6
      <3>1. ClientOp.do = "get"
        BY <2>2 DEF ClientOp, ClientScript, DoCompress, Get
      <3>2. ClientGets
        BY <1>2, <1>10, <3>1 DEF ClientAdvances, ReadLocal, ClientDoes
      <3>3. creg'.hash = Archived
        BY <1>1, <2>2, <3>2, ShellTakesHash
      <3> QED
        BY <1>1, <1>5, <2>1, <2>2, <3>3
    <2>3. CASE client.pos = 8
      <3>1. ClientOp.do = "do" /\ ClientOp.x = "create"
        BY <2>3 DEF ClientOp, ClientScript, DoCompress, Do
      <3>2. CreateArchive
        <4>1. ~ClientPuts /\ ~ClientGets /\ ~ClientMisreads /\ ~ClientAtEnd /\ ~ClientFails
          BY <3>1 DEF ClientPuts, ClientGets, ClientMisreads, ClientAtEnd, ClientFails
        <4>2. ~EnableCompressor /\ ~ReadLocal /\ ~SendSucceeds /\ ~SetConfig /\ ~VerifyArchive /\ ~ArchiveReceived
          BY <3>1 DEF EnableCompressor, ReadLocal, SendSucceeds, SetConfig, VerifyArchive, ArchiveReceived,
             ClientDoes
        <4>3. ~ClientFileFails /\ ~ClientKilled /\ ~Refuses /\ ~\E f \in Files, v \in Versions : Edit(f, v)
          BY <2>1, ClientForms DEF ClientFileFails, ClientKilled, Refuses, Edit
        <4> QED
          BY <1>5, <4>1, <4>2, <4>3 DEF ShellStep, ClientStep
      <3> QED
        BY <1>1, <1>3, <1>5, <1>6, <2>1, <2>3, <3>2
    <2>4. CASE client.pos = 9
      <3>1. ClientOp.do = "get"
        BY <2>4 DEF ClientOp, ClientScript, DoCompress, Get
      <3>2. ClientGets
        BY <1>2, <1>10, <3>1 DEF ClientAdvances, ReadLocal, ClientDoes
      <3>3. creg'.body = Archived
        BY <1>1, <1>2, <2>4, <3>2, ShellTakesBody
      <3>4. received' = received
        BY <1>6, <1>7, <1>8, <2>4
      <3> QED
        BY <1>1, <1>3, <1>5, <2>1, <2>4, <3>3, <3>4
    <2>5. CASE client.pos = 10
      <3>1. ClientOp.do = "do" /\ ClientOp.x = "verify"
        BY <2>5 DEF ClientOp, ClientScript, DoCompress, Do
      <3>2. VerifyArchive
        <4>1. ~ClientPuts /\ ~ClientGets /\ ~ClientMisreads /\ ~ClientAtEnd /\ ~ClientFails
          BY <3>1 DEF ClientPuts, ClientGets, ClientMisreads, ClientAtEnd, ClientFails
        <4>2. ~EnableCompressor /\ ~ReadLocal /\ ~SendSucceeds /\ ~SetConfig /\ ~CreateArchive /\ ~ArchiveReceived
          BY <3>1 DEF EnableCompressor, ReadLocal, SendSucceeds, SetConfig, CreateArchive, ArchiveReceived,
             ClientDoes
        <4>3. ~ClientFileFails /\ ~ClientKilled /\ ~Refuses /\ ~\E f \in Files, v \in Versions : Edit(f, v)
          BY <2>1, ClientForms DEF ClientFileFails, ClientKilled, Refuses, Edit
        <4> QED
          BY <1>5, <4>1, <4>2, <4>3 DEF ShellStep, ClientStep
      <3> QED
        BY <1>1, <1>3, <1>5, <1>7, <2>1, <2>5, <3>2
    <2>6. CASE client.pos \notin {6, 8, 9, 10}
      <3>1. received' = received
        BY <1>6, <1>7, <1>8, <2>6
      <3> QED
        BY <1>1, <1>3, <1>5, <2>1, <2>6, <3>1
    <2> QED
      BY <2>2, <2>3, <2>4, <2>5, <2>6
  <1>11. CASE ClientRunning /\ client'.pos = Len(ClientScript[client.cmd]) + 1 /\ creg' = creg /\ ~ClientAdvances
    <2>1. client'.pos = 14 /\ client.pos # 14 /\ client.mode = "run"
      BY <1>4, <1>11 DEF ClientRunning
    <2>2. ~CreateArchive /\ ~VerifyArchive /\ ~ClientRefused /\ ~ClientFails /\ ~ClientAtEnd
      BY <1>2, <1>5, <1>6, <1>7, <2>1 DEF ClientFails, ClientAtEnd
    <2>3. ~ClientMisreads /\ ~ClientFileFails /\ ~ClientKilled /\ ~Refuses
          /\ ~\E f \in Files, v \in Versions : Edit(f, v)
      BY <2>1, ClientForms DEF ClientMisreads, ClientFileFails, ClientKilled, Refuses, Edit
    <2>4. client' = Step(client)
      BY <2>2, <2>3 DEF ShellStep, ClientStep, ClientPuts, ClientGets, EnableCompressor, ReadLocal,
         SendSucceeds, SetConfig, ArchiveReceived
    <2>5. client'.pos = client.pos + 1
      BY <2>4, ClientForms
    <2>6. client.pos = 13 /\ received' = received
      BY <1>8, <2>1, <2>2, <2>5, <1>4
    <2> QED
      BY <1>1, <1>3, <1>5, <2>1, <2>6
  <1> QED
    BY <1>9, <1>10, <1>11, ShellRegs

LEMMA ShellGoesThrough ==
  ASSUME SidesOK, Framed, DataOK, ConfigInv, MadeOK, FetchedOK, GoesThrough, ShellStep
  PROVE  GoesThrough'
  <1> SUFFICES ASSUME Works', ~ClientGone', client'.cmd = "compress"
               PROVE  /\ NoRefusalIn(s2c')
                      /\ client'.pos \in 7 .. 13  => creg'.hash = Archived'
                      /\ client'.pos \in 9 .. 10  => received'[ArchiveKey'] = Absent
                      /\ client'.pos = 10         => creg'.body = Archived'
                      /\ client'.pos \in 11 .. 14 => received'[ArchiveKey'] = Archived'
    BY DEF GoesThrough, Held
  <1>1. ~AtPrompt
    BY ClientForms DEF AtPrompt, Starts
  <1>2. CASE ClientReturns /\ client.cmd # "compress"
    <2>1. client.cmd = "check" /\ client'.pos = 1 /\ ClientEnded
      BY <1>2, ShellReturnPlace DEF ClientEnded
    <2>2. cconf' = cconf /\ s2c' = s2c
      BY <2>1, <1>2 DEF ClientReturns, channels
    <2>3. Works /\ ~ClientGone
      BY <2>2, ShellSteps, WorkedBefore DEF ServerGone
    <2>4. s2c = <<>>
      BY <2>1, <2>3, CheckedQuiet DEF Works
    <2> QED
      BY <2>1, <2>2, <2>4 DEF NoRefusalIn
  <1>3. CASE ClientReturns /\ client.cmd = "compress"
    <2>1. client.pos = 14 /\ client'.pos = 14
      <3>1. client.pos = Len(ClientScript[client.cmd]) + 1 /\ client'.pos = client.pos
        BY <1>3, ShellReturnPlace
      <3>2. Len(ClientScript[client.cmd]) = 13
        BY <1>3, ClientLengths
      <3> QED
        BY <3>1, <3>2
    <2>2. cconf'.index = cconf.index /\ ArchiveKey' = ArchiveKey /\ Archived' = Archived
          /\ received' = received /\ s2c' = s2c
      BY <1>3, ShellKeepsKey DEF ClientReturns, channels
    <2>3. Works /\ ~ClientGone
      BY <2>2, ShellSteps, WorkedBefore DEF ServerGone
    <2> QED
      BY <1>3, <2>1, <2>2, <2>3 DEF GoesThrough, Held
  <1>4. CASE ~ClientReturns
    <2>1. client.cmd = "compress"
      BY <1>1, <1>4, ShellRegs
    <2> QED
      BY <1>1, <1>4, <2>1, ShellGoesOnThrough
  <1> QED
    BY <1>2, <1>3, <1>4

(* What the worker says is no refusal where nothing fails.                  *)
LEMMA WorkerNoRefusal ==
  ASSUME SidesOK, Framed, DataOK, ConfigInv, WorkerStep, ~ClientGone, client.cmd = "compress",
         Works', NoRefusalIn(s2c)
  PROVE  NoRefusalIn(s2c')
  <1>1. ~ServerGone /\ UNCHANGED cvars /\ \E S : s2c \in Seq(S)
    BY WorkerSteps, WorkerLeavesClient, AnswersAreSequence
  <1>2. CASE s2c' = s2c
    BY <1>2
  <1>3. CASE ServerPuts
    <2>1. ServerRunning /\ ServerOp.do = "put" /\ s2c' = Append(s2c, [kind |-> ServerOp.kind, val |-> Value(sreg, ServerOp.x)])
      BY <1>3 DEF ServerPuts
    <2>2. ASSUME ServerOp.kind = "rsp" PROVE Value(sreg, ServerOp.x) \notin Refusal
      <3>1. ServerOp.x \in {"ack", "bye"}
        BY <2>1, <2>2, AtOps DEF ServerOpAt
      <3> QED
        BY <3>1 DEF Value, SidesOK, ServerOK, Blank, Refusal
    <2> DEFINE m == [kind |-> ServerOp.kind, val |-> Value(sreg, ServerOp.x)]
    <2>3. m.kind = "rsp" => m.val \notin Refusal
      BY <2>2
    <2> HIDE DEF m
    <2>4. s2c' = Append(s2c, m)
      BY <2>1 DEF m
    <2> QED
      BY <1>1, <2>3, <2>4, PutElements
  <1>4. ~CheckExisting /\ ~StoreFile
    <2>1. ASSUME CheckExisting \/ StoreFile PROVE FALSE
      <3>1. ServerRunning /\ server.cmd = "send" /\ server.pos \in {8, 12}
        BY <2>1, AtOps DEF CheckExisting, StoreFile, ServerDoes, ServerOpAt
      <3> QED
        BY <3>1, WorkerAtFile
    <2> QED
      BY <2>1
  <1>5. CreateFile => s2c' = s2c
    BY DEF CreateFile, Fault, Works
  <1>6. MakeArchive => s2c' = s2c
    <2> SUFFICES ASSUME MakeArchive PROVE s2c' = s2c
      OBVIOUS
    <2>1. server.cmd = "compress" /\ server.pos = 1
      BY AtOps DEF MakeArchive, ServerDoes, ServerOpAt
    <2>2. alg = cconf.index
      <3>1. ServerIndex = sconf.index /\ ClientIndex = cconf.index
        BY <2>1 DEF ServerIndex, ClientIndex, IndexTaken
      <3>2. Met
        BY <1>1 DEF Met
      <3> QED
        BY <3>1, <3>2 DEF ConfigInv, DataOK, SettingsOK
    <2>3. alg \in Available
      BY <1>1, <2>2 DEF Works, Available, cvars
    <2> QED
      BY <2>3 DEF MakeArchive, Fault, Works
  <1>7. s2c' = s2c \/ ServerPuts \/ CheckExisting \/ StoreFile \/ CreateFile \/ MakeArchive
    <2>1. CASE ServerReturns \/ ServerKilled \/ ServerGets \/ ServerRefused \/ ServerMisreads
      BY <2>1 DEF ServerReturns, ServerKilled, ServerGets, ServerRefused, ServerMisreads, channels
    <2>2. CASE ServerAtEnd \/ ServerFails \/ Dispatch \/ SetServerName \/ SetServerIndex
      BY <2>2 DEF ServerAtEnd, ServerFails, Dispatch, SetServerName, SetServerIndex, channels
    <2>3. CASE ReadArchive \/ OpenFails \/ ServerFileFails \/ DeleteArchive
      BY <2>3 DEF ReadArchive, OpenFails, ServerFileFails, DeleteArchive, channels
    <2> QED
      BY <2>1, <2>2, <2>3 DEF WorkerStep, ServerStep
  <1> QED
    BY <1>2, <1>3, <1>4, <1>5, <1>6, <1>7

LEMMA WorkerGoesThrough ==
  ASSUME SidesOK, Framed, DataOK, ConfigInv, GoesThrough, WorkerStep
  PROVE  GoesThrough'
  <1> SUFFICES ASSUME Works', ~ClientGone', client'.cmd = "compress" PROVE GoesThrough'
    BY DEF GoesThrough
  <1>1. ~ClientGone /\ UNCHANGED cvars /\ client.cmd = "compress"
    BY WorkerSteps, WorkerLeavesClient DEF ClientGone, cvars
  <1>2. sfiles' = sfiles
    BY <1>1, WorkerLeavesFiles
  <1>3. Works
    BY <1>1, WorkerSteps, WorkedBefore DEF cvars
  <1>4. NoRefusalIn(s2c')
    BY <1>1, <1>3, WorkerNoRefusal DEF GoesThrough
  <1>5. /\ creg' = creg /\ cconf' = cconf /\ client' = client /\ received' = received
        /\ Archived' = Archived /\ ArchiveKey' = ArchiveKey
    BY <1>1, <1>2 DEF cvars, Archived, ArchiveKey
  <1> QED
    BY <1>1, <1>3, <1>4, <1>5 DEF GoesThrough, Held

-----------------------------------------------------------------------------
(* The counters and the dirty flag.                                         *)

(* At the prompt the shell is where it came back, or nothing happens to it. *)
LEMMA ShellAtPrompt ==
  ASSUME SidesOK, ShellStep, client'.mode = "prompt"
  PROVE  \/ ClientReturns
         \/ /\ client.mode = "prompt"
            /\ UNCHANGED <<channels, svars, client, creg, cconf, received>>
  <1>1. ~AtPrompt
    BY ClientForms DEF AtPrompt, Starts
  <1>2. CASE client.mode = "run" /\ ~ClientReturns
    <2>1. CASE ClientPuts \/ ClientGets \/ ClientMisreads \/ ClientAtEnd \/ ClientFails \/ ClientRefused
      BY <1>2, <2>1, ClientForms DEF ClientPuts, ClientGets, ClientMisreads, ClientAtEnd, ClientFails, ClientRefused
    <2>2. CASE EnableCompressor \/ ReadLocal \/ ClientFileFails \/ SendSucceeds \/ SetConfig \/ ArchiveReceived
      BY <1>2, <2>2, ClientForms DEF EnableCompressor, ReadLocal, ClientFileFails, SendSucceeds, SetConfig,
         ArchiveReceived
    <2>3. CASE CreateArchive \/ VerifyArchive
      BY <1>2, <2>3, ClientForms DEF CreateArchive, VerifyArchive
    <2>4. CASE Refuses \/ ClientKilled \/ \E f \in Files, v \in Versions : Edit(f, v)
      BY <1>2, <2>4, ClientForms DEF Refuses, ClientKilled, Edit
    <2> QED
      BY <1>1, <1>2, <2>1, <2>2, <2>3, <2>4 DEF ShellStep, ClientStep
  <1>3. CASE client.mode # "run"
    <2>1. ~ClientRunning /\ ~ClientReturns
      BY <1>3 DEF ClientRunning, ClientReturns
    <2>2. ~ClientKilled
      BY ClientForms DEF ClientKilled
    <2>3. Refuses \/ \E f \in Files, v \in Versions : Edit(f, v)
      BY <1>1, <2>1, <2>2 DEF ShellStep, ClientStep, ClientPuts, ClientGets, ClientMisreads, ClientAtEnd,
         ClientFails, ClientRefused, EnableCompressor, ReadLocal, ClientFileFails, SendSucceeds, SetConfig,
         CreateArchive, VerifyArchive, ArchiveReceived, ClientDoes
    <2> QED
      BY <2>3 DEF Refuses, Edit
  <1> QED
    BY <1>2, <1>3

(* What the steps of the shell do to the counters.                          *)
LEMMA ShellCounters ==
  ASSUME DataOK, ShellStep
  PROVE  \/ cconf'.sent = cconf.sent /\ cconf'.at = cconf.at
         \/ ArchiveReceived /\ cconf'.sent = cconf.sent /\ cconf'.at = cconf.sent
         \/ /\ ClientReturns /\ client.cmd = "send"
            /\ cconf'.sent = cconf.sent + 1 /\ cconf'.at = cconf.at
  <1>0. cconf \in [name : ArchiveNames, index : Compressors, enabled : SUBSET {"zip", "xz"},
                   sent : 0 .. MaxSends, at : 0 .. MaxSends, dirty : BOOLEAN]
    BY DEF DataOK, TypeOK
  <1>1. CASE ClientPuts \/ ClientGets \/ ClientMisreads \/ ClientAtEnd \/ ClientFails \/ ClientRefused
    BY <1>1 DEF ClientPuts, ClientGets, ClientMisreads, ClientAtEnd, ClientFails, ClientRefused
  <1>2. CASE ReadLocal \/ ClientFileFails \/ SendSucceeds \/ CreateArchive \/ VerifyArchive
    BY <1>2 DEF ReadLocal, ClientFileFails, SendSucceeds, CreateArchive, VerifyArchive
  <1>3. CASE EnableCompressor
    BY <1>0, <1>3 DEF EnableCompressor
  <1>4. CASE SetConfig
    <2>1. ClientOp.x \in {"set_name", "set_index", "adopt", "fix"}
      BY <1>4 DEF SetConfig, ClientDoes
    <2> QED
      BY <1>0, <1>4, <2>1 DEF SetConfig
  <1>5. CASE ArchiveReceived
    BY <1>0, <1>5 DEF ArchiveReceived
  <1>6. CASE ClientReturns
    BY <1>0, <1>6 DEF ClientReturns
  <1>7. CASE AtPrompt \/ Refuses \/ ClientKilled \/ \E f \in Files, v \in Versions : Edit(f, v)
    BY <1>7 DEF AtPrompt, Starts, Refuses, ClientKilled, Edit
  <1> QED
    BY <1>1, <1>2, <1>3, <1>4, <1>5, <1>6, <1>7 DEF ShellStep, ClientStep

LEMMA ShellKeepsCounts ==
  ASSUME SidesOK, DataOK, CountsOK, ShellStep
  PROVE  CountsOK'
  <1>1. cconf.sent \in Nat /\ cconf.at \in Nat
    BY SessionAssumption DEF DataOK, TypeOK
  <1>2. cconf'.at <= cconf'.sent
    BY <1>1, ShellCounters DEF CountsOK
  <1>3. ASSUME client'.cmd = "send", client'.mode = "prompt" PROVE cconf'.at < cconf'.sent
    <2>1. CASE ClientReturns
      <3>1. client.cmd = "send"
        BY <1>3, <2>1, ShellReturnPlace
      <3>2. cconf' = [cconf EXCEPT !.sent = @ + 1]
        BY <2>1, <3>1 DEF ClientReturns
      <3>3. cconf'.sent = cconf.sent + 1 /\ cconf'.at = cconf.at
        BY <3>2 DEF DataOK, TypeOK
      <3> QED
        BY <1>1, <3>3 DEF CountsOK
    <2>2. CASE client.mode = "prompt" /\ UNCHANGED <<channels, svars, client, creg, cconf, received>>
      BY <1>3, <2>2 DEF CountsOK
    <2> QED
      BY <1>3, <2>1, <2>2, ShellAtPrompt
  <1> QED
    BY <1>2, <1>3 DEF CountsOK

(* Where the user has not sent a file, nor changed the settings, they stay. *)
LEMMA ShellSettles ==
  ASSUME SidesOK, DataOK, ShellStep, ~cconf'.dirty, client.cmd # "compress"
  PROVE  ~cconf.dirty /\ cconf'.name = cconf.name /\ cconf'.index = cconf.index
  <1>0. cconf \in [name : ArchiveNames, index : Compressors, enabled : SUBSET {"zip", "xz"},
                   sent : 0 .. MaxSends, at : 0 .. MaxSends, dirty : BOOLEAN]
    BY DEF DataOK, TypeOK
  <1>1. CASE ClientPuts \/ ClientGets \/ ClientMisreads \/ ClientAtEnd \/ ClientFails \/ ClientRefused
    BY <1>1 DEF ClientPuts, ClientGets, ClientMisreads, ClientAtEnd, ClientFails, ClientRefused
  <1>2. CASE ReadLocal \/ ClientFileFails \/ SendSucceeds \/ CreateArchive \/ VerifyArchive
    BY <1>2 DEF ReadLocal, ClientFileFails, SendSucceeds, CreateArchive, VerifyArchive
  <1>3. CASE EnableCompressor
    BY <1>0, <1>3 DEF EnableCompressor
  <1>4. CASE SetConfig
    <2>1. ClientOp.x \in {"set_name", "set_index", "adopt", "fix"}
      BY <1>4 DEF SetConfig, ClientDoes
    <2>2. CASE ClientOp.x # "fix"
      BY <1>0, <1>4, <2>1, <2>2 DEF SetConfig
    <2>3. CASE ClientOp.x = "fix"
      <3>1. cconf' = [cconf EXCEPT !.name = creg.name, !.index = creg.index,
                        !.dirty = @ \/ creg.name # cconf.name \/ creg.index # cconf.index]
        BY <1>4, <2>3 DEF SetConfig
      <3>2. /\ cconf'.name = creg.name /\ cconf'.index = creg.index
            /\ cconf'.dirty = (cconf.dirty \/ creg.name # cconf.name \/ creg.index # cconf.index)
        BY <1>0, <3>1
      <3> QED
        BY <3>2
    <2> QED
      BY <2>2, <2>3
  <1>5. CASE ArchiveReceived
    BY <1>0, <1>5 DEF ArchiveReceived
  <1>6. CASE ClientReturns
    BY <1>0, <1>6 DEF ClientReturns
  <1>7. CASE AtPrompt \/ Refuses \/ ClientKilled \/ \E f \in Files, v \in Versions : Edit(f, v)
    BY <1>7 DEF AtPrompt, Starts, Refuses, ClientKilled, Edit
  <1> QED
    BY <1>1, <1>2, <1>3, <1>4, <1>5, <1>6, <1>7 DEF ShellStep, ClientStep

LEMMA ShellStaysFresh ==
  ASSUME SidesOK, DataOK, GoesThrough, CountsOK, FreshOK, ShellStep
  PROVE  FreshOK'
  <1> SUFFICES ASSUME Works', ~ClientGone', client'.cmd \notin {"send", "compress"},
                      cconf'.at = cconf'.sent, cconf'.sent > 0, ~cconf'.dirty
               PROVE  Held'
    BY DEF FreshOK
  <1>1. ~ClientGone /\ sfiles' = sfiles /\ faulted \subseteq faulted' /\ (ServerGone' <=> ServerGone)
    BY ShellSteps, ShellLeavesServer DEF svars, ServerGone
  <1>2. CASE AtPrompt
    <2>1. client.mode = "prompt" /\ cconf' = cconf /\ received' = received
      BY <1>2 DEF AtPrompt, Starts
    <2>2. Works
      BY <1>1, <2>1, WorkedBefore
    <2>3. client.cmd # "send"
      BY <2>1 DEF CountsOK, DataOK, TypeOK
    <2>4. Held
      <3>1. CASE client.cmd = "compress"
        <4>1. Len(ClientScript[client.cmd]) = 13
          BY <3>1, ClientLengths
        <4>2. client.pos = 14
          BY <2>1, <4>1 DEF SidesOK, ClientOK
        <4> QED
          BY <1>1, <2>2, <3>1, <4>2 DEF GoesThrough
      <3>2. CASE client.cmd # "compress"
        BY <1>1, <2>1, <2>2, <2>3, <3>2 DEF FreshOK
      <3> QED
        BY <3>1, <3>2
    <2> QED
      BY <1>1, <2>1, <2>4 DEF Held, Archived, ArchiveKey
  <1>3. CASE ~AtPrompt
    <2>1. client.cmd \notin {"send", "compress"}
      <3>1. CASE ClientReturns
        BY <3>1, ShellReturnPlace
      <3>2. CASE ~ClientReturns
        BY <1>3, <3>2, ShellRegs
      <3> QED
        BY <3>1, <3>2
    <2>2. ~CreateArchive /\ ~VerifyArchive /\ ~ArchiveReceived
      BY <2>1, AtOps DEF CreateArchive, VerifyArchive, ArchiveReceived, ClientDoes, ClientOpAt
    <2>3. received' = received
      BY <2>2, ShellArchives
    <2>4. ~cconf.dirty /\ cconf'.name = cconf.name /\ cconf'.index = cconf.index
      BY <2>1, ShellSettles
    <2>5. cconf'.sent = cconf.sent /\ cconf'.at = cconf.at
      BY <2>1, <2>2, ShellCounters
    <2>6. Works
      BY <1>1, <2>4, WorkedBefore
    <2>7. Held
      BY <1>1, <2>1, <2>4, <2>5, <2>6 DEF FreshOK
    <2> QED
      BY <1>1, <2>3, <2>4, <2>7 DEF Held, Archived, ArchiveKey
  <1> QED
    BY <1>2, <1>3

LEMMA WorkerStaysFresh ==
  ASSUME SidesOK, Framed, FreshOK, WorkerStep
  PROVE  FreshOK'
  <1>1. UNCHANGED cvars /\ faulted \subseteq faulted' /\ ~ServerGone
    BY WorkerSteps, WorkerLeavesClient
  <1> SUFFICES ASSUME Works', ~ClientGone', client'.cmd \notin {"send", "compress"},
                      cconf'.at = cconf'.sent, cconf'.sent > 0, ~cconf'.dirty
               PROVE  Held'
    BY DEF FreshOK
  <1>2. Works /\ ~ClientGone
    BY <1>1, WorkedBefore DEF cvars, ClientGone
  <1>3. sfiles' = sfiles
    BY <1>1, <1>2, WorkerLeavesFiles DEF cvars
  <1> QED
    BY <1>1, <1>2, <1>3 DEF FreshOK, Held, Archived, ArchiveKey, cvars

-----------------------------------------------------------------------------
(* What the user is told when a compression is refused.                     *)

LEMMA ShellRepeatsAlready ==
  ASSUME SidesOK, ShellStep, AlreadyOK, note' = "already", ~Refuses
  PROVE  /\ note = "already" /\ client.mode # "run"
         /\ ClientKilled \/ \E f \in Files, v \in Versions : Edit(f, v)
  <1>1. ~AtPrompt
    BY DEF AtPrompt, Starts
  <1>2. note = "already" /\ client.mode # "run"
    <2>1. note = "already"
      <3>1. CASE ClientPuts \/ ClientGets \/ ClientMisreads \/ ClientAtEnd \/ ClientFails \/ ClientRefused
        BY <3>1 DEF ClientPuts, ClientGets, ClientMisreads, ClientAtEnd, ClientFails, ClientRefused
      <3>2. CASE EnableCompressor \/ ReadLocal \/ ClientFileFails \/ SendSucceeds \/ SetConfig \/ ArchiveReceived
        BY <3>2 DEF EnableCompressor, ReadLocal, ClientFileFails, SendSucceeds, SetConfig, ArchiveReceived
      <3>3. CASE CreateArchive \/ VerifyArchive
        BY <3>3 DEF CreateArchive, VerifyArchive
      <3>4. CASE ClientReturns \/ ClientKilled \/ \E f \in Files, v \in Versions : Edit(f, v)
        BY <3>4 DEF ClientReturns, ClientKilled, Edit
      <3> QED
        BY <1>1, <3>1, <3>2, <3>3, <3>4 DEF ShellStep, ClientStep
    <2> QED
      BY <2>1 DEF AlreadyOK
  <1>3. ~ClientRunning /\ ~ClientReturns
    BY <1>2 DEF ClientRunning, ClientReturns
  <1>4. ClientKilled \/ \E f \in Files, v \in Versions : Edit(f, v)
    BY <1>1, <1>3 DEF ShellStep, ClientStep, ClientPuts, ClientGets, ClientMisreads, ClientAtEnd, ClientFails,
       ClientRefused, EnableCompressor, ReadLocal, ClientFileFails, SendSucceeds, SetConfig, CreateArchive,
       VerifyArchive, ArchiveReceived, ClientDoes
  <1> QED
    BY <1>2, <1>4

LEMMA ShellSaysAlready ==
  ASSUME SidesOK, ShellStep, AlreadyOK, note' = "already"
  PROVE  \/ Refuses /\ AlreadyCompressed /\ cconf.sent # 0
         \/ note = "already" /\ client.mode # "run" /\ client'.mode # "run" /\ client'.cmd = client.cmd
            /\ UNCHANGED <<c2s, cconf, received>>
  <1>1. CASE Refuses
    BY <1>1 DEF Refuses, NothingSent
  <1>2. CASE ClientKilled /\ ~Refuses
    BY <1>2, ShellRepeatsAlready, ClientForms DEF ClientKilled, channels
  <1>3. CASE ~Refuses /\ \E f \in Files, v \in Versions : Edit(f, v)
    BY <1>3, ShellRepeatsAlready DEF Edit, channels
  <1> QED
    BY <1>1, <1>2, <1>3, ShellRepeatsAlready

LEMMA ShellAlready ==
  ASSUME SidesOK, Framed, DataOK, RefusalInv, ShellStep
  PROVE  AlreadyOK'
  <1> SUFFICES ASSUME note' = "already" PROVE client'.mode # "run" /\ (Works' => Held' /\ Idle')
    BY DEF AlreadyOK
  <1>1. /\ UNCHANGED svars /\ ~ClientGone /\ faulted \subseteq faulted' /\ (ServerGone' <=> ServerGone)
    BY ShellSteps, ShellLeavesServer DEF svars, ServerGone
  <1>2. CASE Refuses /\ AlreadyCompressed /\ cconf.sent # 0
    <2>1. /\ client.mode = "prompt" /\ UNCHANGED <<c2s, client, cconf, received>>
          /\ cconf.at = cconf.sent /\ ~cconf.dirty /\ cconf.sent > 0
      BY <1>2, SessionAssumption DEF Refuses, AlreadyCompressed, channels, DataOK, TypeOK
    <2>2. client.cmd # "send"
      BY <2>1 DEF RefusalInv, CountsOK, DataOK, TypeOK
    <2>3. ASSUME Works' PROVE Held' /\ Idle'
      <3>1. Works
        BY <1>1, <2>1, <2>3, WorkedBefore
      <3>2. Held
        <4>1. CASE client.cmd = "compress"
          <5>1. Len(ClientScript[client.cmd]) = 13
            BY <4>1, ClientLengths
          <5>2. client.pos = 14
            BY <2>1, <5>1 DEF SidesOK, ClientOK
          <5> QED
            BY <1>1, <3>1, <4>1, <5>2 DEF RefusalInv, GoesThrough
        <4>2. CASE client.cmd # "compress"
          BY <1>1, <2>1, <2>2, <3>1, <4>2 DEF RefusalInv, FreshOK
        <4> QED
          BY <4>1, <4>2
      <3>3. Idle
        BY <2>1, <2>2, <3>1, PromptIdle DEF Works
      <3> QED
        BY <1>1, <2>1, <3>2, <3>3 DEF Held, Archived, ArchiveKey, Idle, svars
    <2> QED
      BY <2>1, <2>3
  <1>3. CASE note = "already" /\ client'.mode # "run" /\ UNCHANGED <<c2s, cconf, received>>
    <2>1. ASSUME Works' PROVE Held' /\ Idle'
      <3>1. Works
        BY <1>1, <1>3, <2>1, WorkedBefore
      <3>2. Held /\ Idle
        BY <1>3, <3>1 DEF RefusalInv, AlreadyOK
      <3> QED
        BY <1>1, <1>3, <3>2 DEF Held, Archived, ArchiveKey, Idle, svars
    <2> QED
      BY <1>3, <2>1
  <1> QED
    BY <1>2, <1>3, ShellSaysAlready DEF RefusalInv

(* The worker that has done with the files stays so.                        *)
LEMMA WorkerStaysIdle ==
  ASSUME SidesOK, SidesOK', WorkerStep, Idle, ~ServerGone'
  PROVE  Idle'
  <1>1. CASE ServerReturns
    <2>1. server'.cmd = "loop" /\ server'.pos = 1 /\ c2s' = c2s
      BY <1>1, WorkerReturnPlace DEF ServerReturns, channels
    <2> QED
      BY <2>1 DEF Idle
  <1>2. CASE Dispatch
    <2>1. server.cmd = "loop" /\ server.pos = 3 /\ c2s' = c2s
          /\ \/ server'.mode = "closed"
             \/ server'.cmd = HandlerOf(sreg.cmd)
      BY <1>2, WorkerReturnPlace DEF Dispatch, channels
    <2>2. server'.cmd = HandlerOf(sreg.cmd) /\ sreg.cmd # "send"
      BY <2>1 DEF Idle, ServerGone
    <2>3. server'.cmd # "send" /\ server'.cmd # "loop"
      BY <2>2 DEF HandlerOf, ServerScript
    <2> QED
      BY <2>1, <2>3 DEF Idle
  <1>3. CASE ~ServerReturns /\ ~Dispatch
    <2>1. server'.cmd = server.cmd /\ (c2s = <<>> => c2s' = <<>>)
      BY <1>3, WorkerRegs
    <2>2. c2s' = <<>> \/ c2s' = c2s
      <3>1. CASE ServerGets \/ ServerRefused
        <4>1. c2s # <<>> /\ c2s' = Tail(c2s)
          BY <3>1 DEF ServerGets, ServerRefused
        <4>2. c2s = <<Head(c2s)>>
          BY <4>1 DEF Idle, Only
        <4>3. \A m : Tail(<<m>>) = <<>>
          OBVIOUS
        <4>4. c2s' = Tail(<<Head(c2s)>>)
          BY <4>1, <4>2
        <4> QED
          BY <4>3, <4>4
      <3>2. CASE ~ServerGets /\ ~ServerRefused
        BY <1>3, <3>2, WorkerSteps DEF ServerPuts, ServerMisreads, ServerAtEnd, ServerFails, ServerLocal,
           ServerLeaves, ArchiveUnreadable, ServerReplies, channels
      <3> QED
        BY <3>1, <3>2
    <2>3. CASE server.cmd # "loop"
      BY <2>1, <2>2, <2>3 DEF Idle
    <2>4. CASE server.cmd = "loop"
      <3>1. server.pos \in 1 .. 3 /\ server'.pos \in 1 .. 3 /\ Len(ServerScript[server.cmd]) = 3
        BY <2>1, <2>4, ServerLengths DEF SidesOK, ServerOK
      <3>2. CASE server'.pos = server.pos /\ sreg' = sreg
        BY <2>1, <2>2, <2>4, <3>2 DEF Idle
      <3>3. CASE ServerAdvances
        <4>1. server'.pos = server.pos + 1
          BY <3>3 DEF ServerAdvances
        <4>2. server.pos = 2
          <5> SUFFICES ASSUME server.pos = 1 PROVE FALSE
            BY <3>1, <4>1
          <5>1. ServerOp.do = "get" /\ ServerOp.kind = "cmd" /\ ServerOp.x = "cmd"
            BY <2>4 DEF ServerOp, ServerScript, CommandLoop, Get
          <5>2. ~ServerGets
            BY <5>1 DEF ServerGets, Idle, Only
          <5>3. ~ServerAtEnd
            BY <5>1, <4>1, ServerForms DEF ServerAtEnd
          <5> QED
            BY <3>3, <5>1, <5>2, <5>3 DEF ServerAdvances, ReadArchive, ServerDoes
        <4>3. sreg'.cmd = sreg.cmd
          <5>1. ServerOp.do = "put"
            BY <2>4, <4>2 DEF ServerOp, ServerScript, CommandLoop, OK, Put
          <5>2. sreg' = sreg
            BY <3>3, <5>1 DEF ServerAdvances, ReadArchive, ServerGets, ServerAtEnd, ServerDoes
          <5> QED
            BY <5>2
        <4> QED
          BY <2>1, <2>2, <2>4, <4>2, <4>3 DEF Idle
      <3> QED
        BY <1>3, <3>1, <3>2, <3>3, WorkerRegs
    <2> QED
      BY <2>3, <2>4
  <1> QED
    BY <1>1, <1>2, <1>3

LEMMA WorkerAlready ==
  ASSUME SidesOK, SidesOK', AlreadyOK, WorkerStep
  PROVE  AlreadyOK'
  <1>1. UNCHANGED cvars /\ faulted \subseteq faulted' /\ ~ServerGone
    BY WorkerSteps, WorkerLeavesClient
  <1> SUFFICES ASSUME note' = "already", Works' PROVE Held' /\ Idle'
    BY <1>1 DEF AlreadyOK, cvars
  <1>2. Works
    BY <1>1, WorkedBefore DEF cvars
  <1>3. Held /\ Idle
    BY <1>1, <1>2 DEF AlreadyOK, cvars
  <1>4. sfiles' = sfiles
    BY <1>3, WorkerFilesKept DEF Idle
  <1>5. Idle'
    BY <1>3, WorkerStaysIdle DEF Works
  <1> QED
    BY <1>1, <1>3, <1>4, <1>5 DEF Held, Archived, ArchiveKey, cvars

LEMMA RefusalInit == Init => RefusalInv
  BY DEF Init, RefusalInv, GoesThrough, CountsOK, FreshOK, AlreadyOK

LEMMA RefusalStep ==
  FrameInv /\ FrameInv' /\ DataOK /\ ConfigInv /\ ArchiveInv /\ RefusalInv /\ [Next]_vars => RefusalInv'
  <1> SUFFICES ASSUME FrameInv, FrameInv', DataOK, ConfigInv, ArchiveInv, RefusalInv, [Next]_vars
               PROVE  RefusalInv'
    OBVIOUS
  <1>1. SidesOK /\ SidesOK' /\ (InFrame => Framed)
    BY DEF FrameInv, StreamKept
  <1>2. CASE ShellStep
    <2>1. Framed
      BY <1>1, <1>2, ShellSteps
    <2>2. GoesThrough' /\ FreshOK' /\ CountsOK' /\ AlreadyOK'
      BY <1>1, <1>2, <2>1, ShellGoesThrough, ShellStaysFresh, ShellKeepsCounts, ShellAlready
         DEF RefusalInv, ArchiveInv
    <2> QED
      BY <2>2 DEF RefusalInv
  <1>3. CASE WorkerStep
    <2>1. Framed
      BY <1>1, <1>3, WorkerSteps
    <2>2. GoesThrough' /\ FreshOK' /\ AlreadyOK'
      BY <1>1, <1>3, <2>1, WorkerGoesThrough, WorkerStaysFresh, WorkerAlready DEF RefusalInv
    <2>3. CountsOK'
      BY <1>3, WorkerLeavesClient DEF RefusalInv, CountsOK, cvars
    <2> QED
      BY <2>2, <2>3 DEF RefusalInv
  <1>4. CASE UNCHANGED vars
    <2>1. /\ UNCHANGED <<c2s, s2c, client, server, creg, sreg, cconf, sfiles, received, note, faulted>>
          /\ (Works' <=> Works) /\ (ClientGone' <=> ClientGone) /\ Archived' = Archived /\ ArchiveKey' = ArchiveKey
      BY <1>4 DEF vars, channels, cvars, svars, Works, ServerGone, ClientGone, Archived, ArchiveKey, Available
    <2>2. GoesThrough' /\ FreshOK' /\ CountsOK' /\ AlreadyOK'
      BY <2>1 DEF RefusalInv, GoesThrough, FreshOK, CountsOK, AlreadyOK, Held, Idle
    <2> QED
      BY <2>2 DEF RefusalInv
  <1> QED
    BY <1>2, <1>3, <1>4 DEF Next, ShellStep, WorkerStep

(* The counters and the dirty flag tell the truth: a compression where      *)
(* everything works goes through, and what it fetched stays the archive of  *)
(* the stored files until a file is sent or the settings change             *)
(* (check_compress(), parse_command(), do_compress()).                      *)
THEOREM RefusalInvariant == Spec => [](FrameInv /\ DataOK /\ ConfigInv /\ ArchiveInv /\ RefusalInv)
  <1> DEFINE IInv == FrameInv /\ DataOK /\ ConfigInv /\ ArchiveInv /\ RefusalInv
  <1>1. IInv /\ [Next]_vars => IInv'
    <2>1. FrameInv /\ [Next]_vars => FrameInv'
      BY FrameStep
    <2> QED
      BY <2>1, DataStep, ConfigStep, ArchiveStep, RefusalStep
  <1>2. Init => IInv
    BY FrameInit, DataInit, ConfigInit, ArchiveInit, RefusalInit
  <1> HIDE DEF IInv
  <1>3. Spec => []IInv
    BY <1>1, <1>2, PTL DEF Spec
  <1> QED
    BY <1>3 DEF IInv

(* When the shell refuses to compress because the user has the archive      *)
(* already, the one in the folder is what a compression would have made, if *)
(* the compressor is installed and compressing, opening, reading and        *)
(* writing a file work, whoever else fails (check_compress()).              *)
THEOREM RefusalIsJustified == Spec => []RefusalJustifiedUnlessFailed
  <1>1. RefusalInv => RefusalJustifiedUnlessFailed
    BY DEF RefusalInv, AlreadyOK, RefusalJustifiedUnlessFailed, RefusalJustified, Works, Held, Archived
  <1> QED
    BY <1>1, RefusalInvariant, PTL

-----------------------------------------------------------------------------
(* The worker keeps what the user was told: what is in the connection.      *)

(* The messages of a channel after it was put on and taken from.            *)
LEMMA PutMessages ==
  ASSUME NEW S, NEW s \in Seq(S), NEW m
  PROVE  Messages(Append(s, m)) = Messages(s) \cup {m}
  <1>1. s \in Seq(S \cup {m}) /\ m \in S \cup {m}
    OBVIOUS
  <1>2. /\ Len(Append(s, m)) = Len(s) + 1 /\ Append(s, m)[Len(s) + 1] = m /\ Len(s) \in Nat
        /\ \A i \in 1 .. Len(s) : Append(s, m)[i] = s[i]
    BY <1>1
  <1>3. 1 .. Len(s) + 1 = (1 .. Len(s)) \cup {Len(s) + 1}
    BY <1>2
  <1> QED
    BY <1>2, <1>3 DEF Messages

LEMMA GetMessages ==
  ASSUME NEW S, NEW s \in Seq(S), s # <<>>
  PROVE  Head(s) \in Messages(s) /\ Messages(Tail(s)) \subseteq Messages(s)
  <1>1. /\ Head(s) = s[1] /\ 1 \in 1 .. Len(s) /\ Len(Tail(s)) = Len(s) - 1
        /\ \A i \in 1 .. Len(s) - 1 : Tail(s)[i] = s[i + 1] /\ i + 1 \in 1 .. Len(s)
    OBVIOUS
  <1> QED
    BY <1>1 DEF Messages

LEMMA NoMessages == Messages(<<>>) = {}
  BY DEF Messages

LEMMA OneMessage == \A m : Messages(<<m>>) = {m}
  BY DEF Messages

LEMMA JoinMessages ==
  ASSUME NEW S, NEW s \in Seq(S), NEW T, NEW t \in Seq(T)
  PROVE  Messages(s \o t) = Messages(s) \cup Messages(t)
  <1>1. s \in Seq(S \cup T) /\ t \in Seq(S \cup T)
    OBVIOUS
  <1>2. /\ Len(s) \in Nat /\ Len(t) \in Nat /\ Len(s \o t) = Len(s) + Len(t)
        /\ \A i \in 1 .. Len(s) + Len(t) : (s \o t)[i] = IF i <= Len(s) THEN s[i] ELSE t[i - Len(s)]
    BY <1>1
  <1>3. ASSUME NEW i \in 1 .. Len(s) + Len(t)
        PROVE  (s \o t)[i] \in Messages(s) \cup Messages(t)
    <2>1. CASE i <= Len(s)
      BY <1>2, <2>1 DEF Messages
    <2>2. CASE i > Len(s)
      <3>1. i - Len(s) \in 1 .. Len(t)
        BY <1>2, <2>2
      <3> QED
        BY <1>2, <2>2, <3>1 DEF Messages
    <2> QED
      BY <1>2, <2>1, <2>2
  <1>4. ASSUME NEW i \in 1 .. Len(s) PROVE s[i] \in Messages(s \o t)
    BY <1>2 DEF Messages
  <1>5. ASSUME NEW i \in 1 .. Len(t) PROVE t[i] \in Messages(s \o t)
    <2>1. Len(s) + i \in 1 .. Len(s) + Len(t) /\ (s \o t)[Len(s) + i] = t[i]
      BY <1>2
    <2> QED
      BY <1>2, <2>1 DEF Messages
  <1> QED
    BY <1>2, <1>3, <1>4, <1>5 DEF Messages

(* What the worker has been sent and not read.                              *)
LEMMA RequestsAreSequence ==
  ASSUME SidesOK, Framed, ~ServerGone
  PROVE  \E S : c2s \in Seq(S)
  <1> USE DEF Before, Reply, Only
  <1>0. CDone \in Nat /\ Length(client.cmd) \in Nat
    BY ClocksInRange
  <1>1. CASE Talking
    <2>1. PICK b \in Nat : TalkingAt(b)
      BY <1>1, TalkingSomewhere
    <2>2. c2s = InFlight(client.cmd, b, CDone, creg)
      BY <2>1 DEF TalkingAt, Between, Channels
    <2> QED
      BY <1>0, <2>1, <2>2, InFlightIsSequence
  <1>2. ASSUME NEW T, NEW s \in Seq(T), c2s = s \o Begun PROVE \E S : c2s \in Seq(S)
    <2> DEFINE M == [kind |-> "cmd", val |-> client.cmd]
    <2>0. Begun = <<M>> \/ Begun = <<>>
      BY DEF Begun
    <2> HIDE DEF M
    <2>1. s \in Seq(T \cup {M}) /\ <<>> \in Seq(T \cup {M}) /\ <<M>> \in Seq(T \cup {M})
      OBVIOUS
    <2>2. Begun \in Seq(T \cup {M})
      BY <2>0, <2>1
    <2>3. s \o Begun \in Seq(T \cup {M})
      BY <2>1, <2>2
    <2> QED
      BY <1>2, <2>3
  <1>3. ASSUME NEW m, c2s = <<m>> \o Begun PROVE \E S : c2s \in Seq(S)
    <2>1. <<m>> \in Seq({m})
      OBVIOUS
    <2> QED
      BY <1>2, <1>3, <2>1
  <1>4. ASSUME c2s = Begun PROVE \E S : c2s \in Seq(S)
    <2>1. <<>> \in Seq({}) /\ <<>> \o Begun = Begun
      BY DEF Begun
    <2> QED
      BY <1>2, <1>4, <2>1
  <1>5. ASSUME NEW m, c2s = <<m>> PROVE \E S : c2s \in Seq(S)
    <2>1. c2s \in Seq({m})
      BY <1>5
    <2> QED
      BY <2>1
  <1>6. CASE c2s = <<>>
    <2>1. c2s \in Seq({})
      BY <1>6
    <2> QED
      BY <2>1
  <1>7. CASE Overlapping
    <2>1. CASE server.cmd = "loop"
      BY <1>4, <1>7, <2>1 DEF Overlapping, Channels
    <2>2. CASE server.cmd # "loop"
      <3>1. SDone \in Nat /\ Length(server.cmd) \in Nat
        BY <2>2, ClocksInRange
      <3>2. PICK T : InFlight(server.cmd, SDone, Length(server.cmd), Blank) \in Seq(T)
        BY <3>1, InFlightIsSequence
      <3>3. c2s = InFlight(server.cmd, SDone, Length(server.cmd), Blank) \o Begun
        BY <1>7, <2>2 DEF Overlapping, Channels
      <3> QED
        BY <1>2, <3>2, <3>3
    <2> QED
      BY <2>1, <2>2
  <1>8. CASE ServerRefuses \/ ArchiveUnread
    BY <1>6, <1>8 DEF ServerRefuses, ArchiveUnread, Channels
  <1>9. CASE ClientRefuses
    BY <1>3, <1>9 DEF ClientRefuses, Channels
  <1>10. CASE ArchiveUnwanted
    <2>1. CASE server.pos = 8
      BY <1>3, <1>10, <2>1 DEF ArchiveUnwanted, Channels
    <2>2. CASE server.pos # 8
      <3>1. c2s = <<>> \o Begun
        BY <1>10, <2>2 DEF ArchiveUnwanted, Channels
      <3>2. <<>> \in Seq({})
        OBVIOUS
      <3> QED
        BY <1>2, <3>1, <3>2
    <2> QED
      BY <2>1, <2>2
  <1>11. CASE FileUnwanted
    BY <1>3, <1>5, <1>6, <1>11 DEF FileUnwanted, Channels
  <1>12. CASE Stale
    BY <1>12 DEF Stale
  <1>13. CASE Silent
    BY <1>6, <1>13 DEF Silent
  <1> QED
    BY <1>1, <1>7, <1>8, <1>9, <1>10, <1>11, <1>12, <1>13 DEF Framed

-----------------------------------------------------------------------------
(* What the user is told, and when.                                         *)

(* A step of a command tells the user something only as it ends.            *)
LEMMA ShellSays ==
  ASSUME SidesOK, ShellStep, client'.mode = "run", ~AtPrompt, ~ClientReturns, note' # note
  PROVE  /\ client'.pos = Len(ClientScript[client.cmd]) + 1
         /\ client.cmd = "check" => ClientFails /\ note' = "failed"
  <1>1. CASE Refuses
    BY <1>1 DEF Refuses
  <1>2. CASE ClientKilled \/ \E f \in Files, v \in Versions : Edit(f, v)
    BY <1>2 DEF ClientKilled, Edit
  <1>3. CASE ClientRefused
    BY <1>3, ClientForms DEF ClientRefused
  <1>4. CASE ClientFails
    BY <1>4, ClientForms DEF ClientFails
  <1>5. CASE SendSucceeds
    <2>1. client.cmd = "send" /\ client.pos = 17 /\ client'.pos = 18
      BY <1>5, AtOps, ClientForms DEF SendSucceeds, ClientDoes, ClientOpAt
    <2>2. Len(ClientScript[client.cmd]) = 17
      BY <2>1, ClientLengths
    <2> QED
      BY <2>1, <2>2
  <1>6. CASE ArchiveReceived
    <2>1. client.cmd = "compress" /\ client.pos = 13 /\ client'.pos = 14
      BY <1>6, AtOps, ClientForms DEF ArchiveReceived, ClientDoes, ClientOpAt
    <2>2. Len(ClientScript[client.cmd]) = 13
      BY <2>1, ClientLengths
    <2> QED
      BY <2>1, <2>2
  <1>7. CASE CreateArchive
    <2>1. client.cmd = "compress"
      BY <1>7, AtOps DEF CreateArchive, ClientDoes, ClientOpAt
    <2>2. client' = Finish(client, ClientScript) \/ client' = Ends(client, "aborted")
      BY <1>7 DEF CreateArchive
    <2> QED
      BY <2>1, <2>2, ClientForms
  <1>8. CASE VerifyArchive
    <2>1. client.cmd = "compress"
      BY <1>8, AtOps DEF VerifyArchive, ClientDoes, ClientOpAt
    <2>2. client' = Finish(client, ClientScript)
      BY <1>8 DEF VerifyArchive
    <2> QED
      BY <2>1, <2>2, ClientForms
  <1>9. \/ Refuses \/ ClientKilled \/ (\E f \in Files, v \in Versions : Edit(f, v)) \/ ClientRefused \/ ClientFails
        \/ SendSucceeds \/ ArchiveReceived \/ CreateArchive \/ VerifyArchive
    BY DEF ShellStep, ClientStep, ClientPuts, ClientGets, ClientMisreads, ClientAtEnd, EnableCompressor,
       ReadLocal, ClientFileFails, SetConfig
  <1> QED
    BY <1>1, <1>2, <1>3, <1>4, <1>5, <1>6, <1>7, <1>8, <1>9

(* A check whose connection fails has read all there was to read.           *)
LEMMA ShellFailsUnheard ==
  ASSUME SidesOK, Framed, ClientFails, client.cmd = "check"
  PROVE  Unheard
  <1> SUFFICES ASSUME s2c # <<>> PROVE Unheard
    BY DEF Unheard
  <1>1. ClientRunning /\ ClientOp.do = "put" /\ ServerGone /\ ~ClientGone /\ ~ClientEnded
    BY DEF ClientFails, ClientRunning, ClientGone, ClientEnded, SidesOK, ClientOK
  <1>2. ~Overlapping /\ ~ServerRefuses /\ ~ClientRefuses /\ ~ArchiveUnread /\ ~Silent
    BY <1>1 DEF Overlapping, ServerRefuses, ClientRefuses, ArchiveUnread, Silent, Channels
  <1>3. CASE ArchiveUnwanted
    BY <1>1, <1>3 DEF ArchiveUnwanted, Channels, Only, Unheard
  <1>4. CASE FileUnwanted
    BY <1>1, <1>4 DEF FileUnwanted
  <1>5. CASE Stale
    BY <1>5 DEF Stale, Unheard, Refusal
  <1>6. ~Talking
    <2> SUFFICES ASSUME Talking PROVE FALSE
      OBVIOUS
    <2>1. PICK b \in Nat : TalkingAt(b)
      BY TalkingSomewhere
    <2>2. CDone \in Nat /\ CDone < b
      BY <1>1, <2>1, Ahead, ClocksInRange DEF TalkingAt
    <2>3. Dialogue[client.cmd][CDone + 1].who = "server"
      <3>1. CDone + 1 \in CDone + 1 .. b
        BY <2>2
      <3> QED
        BY <2>1, <3>1 DEF TalkingAt, Between, PutBy
    <2>4. Dialogue[client.cmd][CDone + 1].who = "client"
      BY <1>1, ClientPlace DEF Cl
    <2> QED
      BY <2>3, <2>4
  <1> QED
    BY <1>2, <1>3, <1>4, <1>5, <1>6 DEF Framed

LEMMA ShellNotesOK ==
  ASSUME SidesOK, Framed, NoteOK, ShellStep
  PROVE  NoteOK'
  <1> SUFFICES ASSUME client'.mode = "run" PROVE NoteOK'
    BY DEF NoteOK
  <1>0. server' = server /\ (ServerGone' <=> ServerGone)
    BY ShellSteps DEF ServerGone
  <1>1. CASE AtPrompt
    BY <1>1 DEF AtPrompt, Starts, NoteOK
  <1>2. CASE ClientReturns
    <2>1. client.cmd = "check" /\ client'.cmd = "compress" /\ client'.pos = 1 /\ client.mode = "run"
      BY <1>2, ShellReturnPlace
    <2>2. note' = note /\ s2c' = s2c
      BY <1>2 DEF ClientReturns, channels
    <2> QED
      BY <1>0, <2>1, <2>2 DEF NoteOK, Unheard
  <1>3. CASE ~AtPrompt /\ ~ClientReturns /\ note' # note
    <2>1. /\ client'.cmd = client.cmd /\ client'.pos = Len(ClientScript[client.cmd]) + 1
          /\ client.cmd = "check" => ClientFails /\ note' = "failed"
      BY <1>3, ShellRegs, ShellSays
    <2>2. ClientEnded'
      BY <2>1 DEF ClientEnded
    <2>3. CASE client.cmd = "check"
      <3>1. ServerGone /\ s2c' = s2c /\ Unheard
        BY <2>1, <2>3, ShellFailsUnheard DEF ClientFails, channels
      <3> QED
        BY <1>0, <2>1, <2>2, <2>3, <3>1 DEF NoteOK, Unheard
    <2> QED
      BY <2>1, <2>2, <2>3 DEF NoteOK
  <1>4. CASE ~AtPrompt /\ ~ClientReturns /\ note' = note
    <2>1. client'.cmd = client.cmd /\ client.mode = "run"
      BY <1>4, ShellRegs
    <2>2. s2c' = s2c \/ ClientRunning
      BY ShellChannel DEF ClientGets, ClientRefused
    <2>3. CASE note = "none"
      BY <1>4, <2>3 DEF NoteOK
    <2>4. CASE ClientEnded
      <3>1. ~ClientRunning
        BY <2>4 DEF ClientEnded, ClientRunning, SidesOK, ClientOK
      <3>2. client'.pos = client.pos
        BY <1>4, <3>1, ShellRegs DEF ClientAdvances
      <3> QED
        BY <1>0, <1>4, <2>1, <2>2, <2>4, <3>1, <3>2 DEF NoteOK, ClientEnded, Unheard
    <2>5. CASE note = "failed" /\ ServerGone /\ Unheard /\ client.cmd = "compress" /\ client.pos <= 2
      <3>1. client.pos \in {1, 2} /\ Len(ClientScript[client.cmd]) = 13
        BY <2>5, ClientLengths DEF SidesOK, ClientOK
      <3>2. /\ ClientRunning => /\ client.pos = 1 => ClientOp.do = "put"
                                /\ client.pos = 2 => ClientOp.do = "get" /\ ClientOp.kind = "rsp"
        BY <2>5, <3>1 DEF ClientOp, ClientScript, DoCompress, Put, Ack, Get
      <3>3. CASE client'.pos = client.pos
        <4>1. s2c' = s2c
          BY <3>1, <3>3, ClientForms, ShellChannel DEF ClientGets, ClientRefused
        <4> QED
          BY <1>0, <1>4, <2>1, <2>5, <3>3, <4>1 DEF NoteOK, Unheard
      <3>4. CASE client'.pos = Len(ClientScript[client.cmd]) + 1
        BY <2>1, <2>5, <3>4 DEF NoteOK, ClientEnded
      <3>5. CASE ClientAdvances
        <4>1. (~ClientGets /\ ~ClientRefused) \/ client.pos = 2
          BY <3>1, <3>2, <3>5 DEF ClientAdvances, ClientGets, ClientRefused
        <4>2. client.pos # 2
          <5> SUFFICES ASSUME client.pos = 2 PROVE FALSE
            OBVIOUS
          <5>1. ~ClientGets
            BY <2>5, <3>2 DEF ClientGets, Unheard
          <5> QED
            BY <3>2, <3>5, <5>1 DEF ClientAdvances, ReadLocal, ClientDoes
        <4>3. client'.pos = 2 /\ s2c' = s2c
          BY <3>1, <3>5, <4>1, <4>2, ShellChannel DEF ClientAdvances
        <4> QED
          BY <1>0, <1>4, <2>1, <2>5, <4>3 DEF NoteOK, Unheard
      <3> QED
        BY <1>4, <3>3, <3>4, <3>5, ShellRegs
    <2> QED
      BY <2>1, <2>3, <2>4, <2>5 DEF NoteOK
  <1> QED
    BY <1>1, <1>2, <1>3, <1>4

(* No answer that the file is there outside of a send.                      *)
LEMMA EndedHearsNothing ==
  ASSUME SidesOK, Framed, ClientEnded, ~ClientGone
  PROVE  \/ s2c = <<>>
         \/ s2c = Only(Head(s2c)) /\ (Head(s2c).kind = "rsp" => Head(s2c).val = "err" /\ ServerGone)
  <1>1. /\ CDone = Length(client.cmd) /\ Length(client.cmd) \in Nat /\ ~Begins
        /\ ~(client.cmd = "compress" /\ client.pos \in {8, 9})
    <2>1. client.cmd \in DOMAIN ClientScript /\ Len(ClientScript[client.cmd]) >= 2
      BY ScriptIsLong DEF SidesOK, ClientOK
    <2>2. ASSUME client.cmd = "compress" PROVE client.pos = 14
      BY <2>2, ClientLengths DEF ClientEnded
    <2> QED
      BY <2>1, <2>2, ClocksInRange DEF Begins, ClientEnded
  <1>2. ~Overlapping /\ ~ArchiveUnread
    BY <1>1 DEF Overlapping, ArchiveUnread
  <1>3. CASE Talking
    <2>1. PICK b \in Nat : TalkingAt(b)
      BY <1>3, TalkingSomewhere
    <2> QED
      BY <1>1, <2>1, Ahead DEF TalkingAt
  <1>4. CASE ServerRefuses
    <2>1. PICK b \in CDone .. Length(client.cmd) - 1 : TRUE
      BY <1>4 DEF ServerRefuses
    <2> QED
      BY <1>1, <2>1
  <1>5. CASE ClientRefuses \/ Silent
    BY <1>5 DEF ClientRefuses, Silent, Channels
  <1>6. CASE ArchiveUnwanted
    BY <1>6 DEF ArchiveUnwanted, Channels, Only
  <1>7. CASE FileUnwanted
    <2>1. ~(client.cmd = "send" /\ client.pos \in 12 .. 15)
      <3>1. ASSUME client.cmd = "send" PROVE client.pos = 18
        BY <3>1, ClientLengths DEF ClientEnded
      <3> QED
        BY <3>1
    <2> QED
      BY <1>7, <2>1 DEF FileUnwanted
  <1>8. CASE Stale
    BY <1>8 DEF Stale
  <1> QED
    BY <1>2, <1>3, <1>4, <1>5, <1>6, <1>7, <1>8 DEF Framed

LEMMA ShellHave ==
  ASSUME SidesOK, Framed, HaveOK, ShellStep
  PROVE  HaveOK'
  <1> SUFFICES ASSUME client'.cmd # "send", NEW m \in Messages(s2c'), m.kind = "rsp" PROVE m.val # "cnt"
    BY DEF HaveOK
  <1>0. ~ClientGone
    BY ShellSteps
  <1>1. m \in Messages(s2c)
    <2>1. s2c # <<>> => Messages(Tail(s2c)) \subseteq Messages(s2c)
      BY <1>0, AnswersAreSequence, GetMessages
    <2>2. s2c' = s2c \/ (s2c # <<>> /\ s2c' = Tail(s2c))
      BY ShellChannel DEF ClientGets, ClientRefused
    <2> QED
      BY <2>1, <2>2
  <1>2. CASE client.cmd = "send"
    <2>1. AtPrompt
      BY <1>2, ShellRegs, ShellReturnPlace
    <2>2. ClientEnded
      BY <2>1 DEF AtPrompt, SidesOK, ClientOK, ClientEnded
    <2>3. s2c = <<>> \/ (s2c = <<Head(s2c)>> /\ (Head(s2c).kind = "rsp" => Head(s2c).val = "err"))
      BY <1>0, <2>2, EndedHearsNothing DEF Only
    <2>4. m = Head(s2c)
      BY <1>1, <2>3, NoMessages, OneMessage
    <2> QED
      BY <1>1, <2>3, <2>4, NoMessages
  <1> QED
    BY <1>0, <1>1, <1>2 DEF HaveOK

LEMMA WorkerHave ==
  ASSUME SidesOK, Framed, HaveOK, WorkerStep
  PROVE  HaveOK'
  <1> SUFFICES ASSUME ~ClientGone, client.cmd # "send", NEW m \in Messages(s2c'), m.kind = "rsp" PROVE m.val # "cnt"
    BY WorkerSteps DEF HaveOK, ClientGone
  <1>1. PICK S : s2c \in Seq(S)
    BY AnswersAreSequence
  <1>2. m \in Messages(s2c) => m.val # "cnt"
    BY DEF HaveOK
  <1>3. ~CheckExisting
    <2>1. CheckExisting => ServerRunning /\ server.cmd = "send" /\ server.pos = 8
      BY AtOps DEF CheckExisting, ServerDoes, ServerOpAt
    <2> QED
      BY <2>1, WorkerAtFile
  <1>4. CASE ServerPuts
    <2>1. s2c' = Append(s2c, [kind |-> ServerOp.kind, val |-> Value(sreg, ServerOp.x)])
      BY <1>4 DEF ServerPuts
    <2>2. Messages(s2c') = Messages(s2c) \cup {[kind |-> ServerOp.kind, val |-> Value(sreg, ServerOp.x)]}
      BY <1>1, <2>1, PutMessages
    <2>3. ASSUME ServerOp.kind = "rsp" PROVE Value(sreg, ServerOp.x) # "cnt"
      <3>1. ServerOp.x \in {"ack", "bye"}
        BY <1>4, <2>3, AtOps DEF ServerOpAt, ServerPuts
      <3> QED
        BY <3>1 DEF Value, SidesOK, ServerOK, Blank
    <2> QED
      BY <1>2, <2>2, <2>3
  <1>5. CASE s2c' = Append(s2c, [kind |-> "rsp", val |-> "err"])
    <2>1. Messages(s2c') = Messages(s2c) \cup {[kind |-> "rsp", val |-> "err"]}
      BY <1>1, <1>5, PutMessages
    <2> QED
      BY <1>2, <2>1
  <1> QED
    BY <1>2, <1>3, <1>4, <1>5, WorkerChannel

-----------------------------------------------------------------------------
(* What the worker knows of the user's commands.                            *)

LEMMA CommandPuts ==
  ASSUME NEW cmd \in DOMAIN ClientScript, NEW p \in 1 .. Len(ClientScript[cmd]),
         ClientScript[cmd][p].do = "put", ClientScript[cmd][p].kind = "cmd"
  PROVE  ClientScript[cmd][p].x = cmd
  <1> USE DEF ClientScript, Put, Get, Do, Ack, OK, BYE
  <1>1. CASE cmd = "hello"
    BY <1>1 DEF CommandLine
  <1>2. CASE cmd = "help"
    BY <1>2 DEF DoHelp
  <1>3. CASE cmd = "quit"
    BY <1>3 DEF DoQuit
  <1>4. CASE cmd = "check"
    BY <1>4 DEF ConfigurationCheck, GetConfig
  <1>5. CASE cmd = "show"
    BY <1>5 DEF DoShowConf, GetConfig
  <1>6. CASE cmd = "rename"
    BY <1>6 DEF DoConfName
  <1>7. CASE cmd = "comp"
    BY <1>7 DEF DoConfComp
  <1>8. CASE cmd = "compress"
    BY <1>8 DEF DoCompress
  <1>9. CASE cmd = "send"
    BY <1>9 DEF DoSend
  <1> QED
    BY <1>1, <1>2, <1>3, <1>4, <1>5, <1>6, <1>7, <1>8, <1>9

LEMMA ShellPuts ==
  ASSUME ShellStep
  PROVE  \/ c2s' = c2s
         \/ ~ServerGone /\ ClientPuts
            /\ c2s' = Append(c2s, [kind |-> ClientOp.kind, val |-> Value(creg, ClientOp.x)])
         \/ ~ServerGone /\ c2s' = Append(c2s, [kind |-> "rsp", val |-> "err"])
  <1>1. CASE AtPrompt \/ Refuses \/ ClientKilled \/ ClientReturns
    BY <1>1 DEF AtPrompt, Starts, Refuses, ClientKilled, ClientReturns, channels
  <1>2. CASE \E f \in Files, v \in Versions : Edit(f, v)
    BY <1>2 DEF Edit, channels
  <1>3. CASE ClientPuts
    BY <1>3 DEF ClientPuts
  <1>4. CASE ClientGets \/ ClientRefused \/ ClientMisreads \/ ClientAtEnd \/ ClientFails
    BY <1>4 DEF ClientGets, ClientRefused, ClientMisreads, ClientAtEnd, ClientFails, channels
  <1>5. CASE EnableCompressor \/ ReadLocal \/ ClientFileFails \/ SendSucceeds \/ SetConfig \/ CreateArchive \/ ArchiveReceived
    BY <1>5 DEF EnableCompressor, ReadLocal, ClientFileFails, SendSucceeds, SetConfig, CreateArchive, ArchiveReceived,
       channels
  <1>6. CASE VerifyArchive
    BY <1>6 DEF VerifyArchive
  <1> QED
    BY <1>1, <1>2, <1>3, <1>4, <1>5, <1>6 DEF ShellStep, ClientStep

(* The worker comes to know of the command the shell is in, and no other.   *)
LEMMA ShellLetsKnow ==
  ASSUME SidesOK, Framed, ShellStep, NEW cmd, cmd # client.cmd, ~Knows(cmd)
  PROVE  ~Knows(cmd)'
  <1>1. server' = server /\ sreg' = sreg
    BY ShellSteps
  <1>2. ASSUME NEW m \in Messages(c2s') \ Messages(c2s), m.kind = "cmd" PROVE m.val # cmd
    <2>1. PICK n : ~ServerGone /\ c2s' = Append(c2s, n)
      BY <1>2, ShellPuts
    <2>2. m = n
      BY <1>2, <2>1, RequestsAreSequence, PutMessages
    <2>3. ClientPuts /\ c2s' = Append(c2s, [kind |-> ClientOp.kind, val |-> Value(creg, ClientOp.x)])
      <3>1. ASSUME c2s' = Append(c2s, [kind |-> "rsp", val |-> "err"]) PROVE FALSE
        <4>1. m = [kind |-> "rsp", val |-> "err"]
          BY <1>2, <2>1, <3>1, RequestsAreSequence, PutMessages
        <4> QED
          BY <1>2, <4>1
      <3> QED
        BY <1>2, <3>1, ShellPuts
    <2>4. m = [kind |-> ClientOp.kind, val |-> Value(creg, ClientOp.x)]
      BY <1>2, <2>1, <2>3, RequestsAreSequence, PutMessages
    <2>5. ClientRunning /\ ClientOp.do = "put" /\ ClientOp.kind = "cmd"
      BY <1>2, <2>3, <2>4 DEF ClientPuts
    <2>6. ClientOp.x = client.cmd /\ client.cmd \in DOMAIN ClientScript
      BY <2>5, ClientPlace, CommandPuts DEF ClientOp
    <2>7. client.cmd \notin DOMAIN creg
      BY <2>6 DEF SidesOK, ClientOK, Blank, ClientScript
    <2> QED
      BY <2>4, <2>6, <2>7 DEF Value
  <1> QED
    BY <1>1, <1>2 DEF Knows

LEMMA WorkerTakes ==
  ASSUME WorkerStep
  PROVE  c2s' = c2s \/ (c2s # <<>> /\ c2s' = Tail(c2s) /\ (ServerGets \/ ServerRefused))
  <1>1. CASE ServerReturns \/ ServerPuts \/ ServerMisreads \/ ServerAtEnd \/ ServerFails \/ ServerKilled
    BY <1>1 DEF ServerReturns, ServerPuts, ServerMisreads, ServerAtEnd, ServerFails, ServerKilled, channels
  <1>2. CASE ServerGets \/ ServerRefused
    BY <1>2 DEF ServerGets, ServerRefused
  <1>3. CASE Dispatch \/ SetServerName \/ SetServerIndex \/ CheckExisting \/ CreateFile \/ StoreFile \/ MakeArchive
    BY <1>3 DEF Dispatch, SetServerName, SetServerIndex, CheckExisting, CreateFile, StoreFile, MakeArchive, channels
  <1>4. CASE ReadArchive \/ OpenFails \/ ServerFileFails \/ DeleteArchive
    BY <1>4 DEF ReadArchive, OpenFails, ServerFileFails, DeleteArchive, channels
  <1> QED
    BY <1>1, <1>2, <1>3, <1>4 DEF WorkerStep, ServerStep

LEMMA WorkerReadsMessages ==
  ASSUME SidesOK, Framed, WorkerStep
  PROVE  /\ Messages(c2s') \subseteq Messages(c2s)
         /\ c2s # <<>> => Head(c2s) \in Messages(c2s)
  <1>1. c2s # <<>> => Head(c2s) \in Messages(c2s) /\ Messages(Tail(c2s)) \subseteq Messages(c2s)
    BY WorkerSteps, RequestsAreSequence, GetMessages
  <1> QED
    BY <1>1, WorkerTakes

(* What the worker takes for a command is one it has been sent.             *)
LEMMA WorkerCommand ==
  ASSUME SidesOK, Framed, WorkerStep, sreg'.cmd # sreg.cmd, sreg'.cmd # "none"
  PROVE  /\ ServerGets /\ server.cmd = "loop" /\ c2s # <<>>
         /\ Head(c2s).kind = "cmd" /\ sreg'.cmd = Head(c2s).val
  <1>1. ~Dispatch /\ ~ServerReturns
    <2>1. ServerReturns => sreg' = Blank
      BY DEF ServerReturns
    <2>2. Dispatch => sreg' = [Blank EXCEPT !.name = sconf.name, !.index = sconf.index]
      BY DEF Dispatch
    <2>3. Blank.cmd = "none" /\ [Blank EXCEPT !.name = sconf.name, !.index = sconf.index].cmd = "none"
      BY DEF Blank
    <2> QED
      BY <2>1, <2>2, <2>3
  <1>2. ServerAdvances /\ server.cmd = "loop"
    BY <1>1, WorkerRegs, WorkerKeeps
  <1>3. ServerOpAt(ServerOp, server.cmd, server.pos) /\ DOMAIN sreg = DOMAIN Blank
    BY <1>2, AtOps DEF ServerAdvances, SidesOK, ServerOK
  <1>4. ~ReadArchive
    BY <1>2, <1>3 DEF ReadArchive, ServerDoes, ServerOpAt
  <1>5. ~(ServerOp.do = "get" /\ ServerOp.kind # "cmd")
    BY <1>2, <1>3 DEF ServerOpAt
  <1>6. ServerGets /\ sreg' = Store(sreg, ServerOp.x, Head(c2s).val)
    <2>1. ~ServerAtEnd \/ ServerOp.kind # "cmd"
      BY <1>2, ServerForms DEF ServerAtEnd, ServerAdvances, SidesOK, ServerOK
    <2> QED
      BY <1>2, <1>4, <1>5, <2>1 DEF ServerAdvances
  <1>7. ServerOp.x = "cmd" /\ ServerOp.kind = "cmd"
    BY <1>2, <1>3, <1>5, <1>6 DEF ServerOpAt, ServerGets
  <1> QED
    BY <1>2, <1>3, <1>6, <1>7, StoreOther DEF ServerGets

LEMMA WorkerLearnsNothing ==
  ASSUME SidesOK, Framed, WorkerStep, NEW cmd, cmd \notin {"none", "loop", "help"}, ~Knows(cmd)
  PROVE  ~Knows(cmd)'
  <1>1. sreg'.cmd # cmd
    BY WorkerCommand, WorkerReadsMessages DEF Knows
  <1>2. server'.cmd # cmd
    <2>1. CASE Dispatch
      <3>1. server' = Ends(server, "closed") \/ server' = Enter(server, HandlerOf(sreg.cmd))
        BY <2>1 DEF Dispatch
      <3>2. HandlerOf(sreg.cmd) \in {sreg.cmd, "help"}
        BY DEF HandlerOf
      <3> QED
        BY <3>1, <3>2, ServerForms DEF Knows
    <2>2. CASE ServerReturns
      BY <2>2, ServerForms DEF ServerReturns
    <2>3. CASE ~Dispatch /\ ~ServerReturns
      BY <2>3, WorkerRegs DEF Knows
    <2> QED
      BY <2>1, <2>2, <2>3
  <1> QED
    BY <1>1, <1>2, WorkerReadsMessages DEF Knows

(* Who has sent nothing.                                                    *)
LEMMA ShellNothing ==
  ASSUME SidesOK, Framed, DataOK, CountsOK, NothingOK, ShellStep
  PROVE  NothingOK'
  <1> SUFFICES ASSUME cconf'.sent = 0, client'.cmd # "send"
               PROVE  ~Knows("send")' /\ \A f \in Files : sfiles'[f] = Absent
    BY DEF NothingOK
  <1>1. cconf.sent \in Nat /\ cconf.at \in Nat /\ sfiles' = sfiles
    BY ShellLeavesServer DEF DataOK, TypeOK, svars
  <1>2. client.cmd # "send"
    <2> SUFFICES ASSUME client.cmd = "send" PROVE FALSE
      OBVIOUS
    <2>1. AtPrompt
      BY ShellRegs, ShellReturnPlace
    <2>2. client.mode = "prompt" /\ cconf' = cconf
      BY <2>1 DEF AtPrompt, Starts
    <2> QED
      BY <1>1, <2>2 DEF CountsOK
  <1>3. cconf.sent = 0
    BY <1>2, ShellCounters DEF DataOK
  <1> QED
    BY <1>1, <1>2, <1>3, ShellLetsKnow DEF NothingOK

LEMMA WorkerNothing ==
  ASSUME SidesOK, Framed, NothingOK, WorkerStep
  PROVE  NothingOK'
  <1>1. client' = client /\ cconf' = cconf
    BY WorkerLeavesClient DEF cvars
  <1> SUFFICES ASSUME cconf.sent = 0, client.cmd # "send"
               PROVE  ~Knows("send")' /\ \A f \in Files : sfiles'[f] = Absent
    BY <1>1 DEF NothingOK
  <1>2. ~Knows("send") /\ \A f \in Files : sfiles[f] = Absent
    BY DEF NothingOK
  <1>3. sfiles' = sfiles
    BY <1>2, WorkerFilesKept DEF Knows
  <1> QED
    BY <1>2, <1>3, WorkerLearnsNothing

(* The worker stays as long as the user does.                               *)
LEMMA ShellServed ==
  ASSUME SidesOK, Framed, ServedOK, ShellStep
  PROVE  ServedOK'
  <1>1. (ServerGone' <=> ServerGone) /\ ~ClientGone /\ faulted \subseteq faulted'
    BY ShellSteps DEF ServerGone
  <1>2. client.cmd = "quit" => client'.cmd = "quit"
    <2>1. client.cmd = "quit" => ~AtPrompt
      BY DEF AtPrompt, SidesOK, ClientOK
    <2> QED
      BY <2>1, ShellRegs, ShellReturnPlace
  <1>3. Knows("quit")' => client.cmd = "quit"
    BY ShellLetsKnow DEF ServedOK
  <1> QED
    BY <1>1, <1>2, <1>3 DEF ServedOK

LEMMA WorkerServed ==
  ASSUME SidesOK, Framed, ServedOK, WorkerStep
  PROVE  ServedOK'
  <1>1. client' = client /\ faulted \subseteq faulted' /\ ~ServerGone /\ (ClientGone' <=> ClientGone)
    BY WorkerSteps DEF ClientGone
  <1>2. Knows("quit")' => client.cmd = "quit"
    BY WorkerLearnsNothing DEF ServedOK
  <1>3. ASSUME ServerGone', ~ClientGone PROVE faulted' \cap {"io", "read", "server"} # {} \/ client.cmd = "quit"
    <2>1. CASE Dispatch
      <3>1. sreg.cmd = "quit"
        BY <1>3, <2>1, ServerForms DEF Dispatch, ServerGone
      <3> QED
        BY <3>1 DEF ServedOK, Knows
    <2>2. CASE ServerFileFails \/ OpenFails \/ ServerKilled
      BY <2>2 DEF ServerFileFails, OpenFails, ServerKilled, Fault
    <2>3. CASE ServerReturns \/ ServerPuts \/ ServerGets \/ ServerRefused \/ ServerMisreads
      BY <1>1, <1>3, <2>3, ServerForms DEF ServerReturns, ServerPuts, ServerGets, ServerRefused, ServerMisreads, ServerGone
    <2>4. CASE SetServerName \/ SetServerIndex \/ ReadArchive \/ DeleteArchive
      BY <1>1, <1>3, <2>4, ServerForms DEF SetServerName, SetServerIndex, ReadArchive, DeleteArchive, ServerGone
    <2>5. CASE CheckExisting \/ CreateFile \/ StoreFile \/ MakeArchive
      <3>1. server' = Step(server) \/ server' = Finish(server, ServerScript)
        BY <1>3, <2>5 DEF CheckExisting, CreateFile, StoreFile, MakeArchive, RepliesAndReturns
      <3> QED
        BY <1>1, <1>3, <3>1, ServerForms DEF ServerGone
    <2>6. ~ServerAtEnd /\ ~ServerFails
      BY <1>3 DEF ServerAtEnd, ServerFails
    <2> QED
      BY <2>1, <2>2, <2>3, <2>4, <2>5, <2>6 DEF WorkerStep, ServerStep
  <1> QED
    BY <1>1, <1>2, <1>3 DEF ServedOK

-----------------------------------------------------------------------------
(* The settings, and the archive that is on its way.                        *)

(* The server does not refuse a setting.                                    *)
LEMMA SettingNotRefused ==
  ASSUME SidesOK, Framed, ~ClientGone, ~ServerGone, client.cmd \in {"rename", "comp"}
  PROVE  ~ClientRefused
  <1> SUFFICES ASSUME ClientRefused PROVE FALSE
    OBVIOUS
  <1>1. /\ s2c # <<>> /\ Head(s2c).kind = "rsp" /\ ~ClientEnded
    BY DEF ClientRefused, ClientRunning, ClientEnded, SidesOK, ClientOK
  <1>2. ~Overlapping /\ ~ServerRefuses /\ ~ClientRefuses /\ ~ArchiveUnread /\ ~Stale /\ ~Silent
    BY <1>1 DEF Overlapping, ServerRefuses, ClientRefuses, ArchiveUnread, Stale, Silent, Channels
  <1>3. ~ArchiveUnwanted
    BY <1>1 DEF ArchiveUnwanted, Channels, Only
  <1>4. ~FileUnwanted
    BY <1>1 DEF FileUnwanted
  <1>5. ~Talking
    <2> SUFFICES ASSUME Talking PROVE FALSE
      OBVIOUS
    <2>1. PICK b \in Nat : TalkingAt(b)
      BY TalkingSomewhere
    <2> QED
      BY <2>1, ShellReads DEF TalkingAt
  <1> QED
    BY <1>2, <1>3, <1>4, <1>5 DEF Framed

LEMMA ShellDirty ==
  ASSUME SidesOK, Framed, DirtyOK, DataOK, ShellStep
  PROVE  DirtyOK'
  <1> SUFFICES ASSUME client'.mode \in {"run", "prompt"}, client'.cmd \in {"rename", "comp"},
                      ClientEnded', ~ServerGone'
               PROVE  cconf'.dirty
    BY DEF DirtyOK
  <1>0. ~ClientGone /\ ~ServerGone
    BY ShellSteps DEF ServerGone
  <1>1. ~AtPrompt
    <2> SUFFICES ASSUME AtPrompt PROVE FALSE
      OBVIOUS
    <2>1. client'.pos = 1 /\ client'.cmd \in DOMAIN ClientScript
      BY ClientForms DEF AtPrompt, Starts, ClientScript
    <2> QED
      BY <2>1, ScriptIsLong DEF ClientEnded
  <1>2. client'.cmd = client.cmd
    BY <1>1, ShellRegs, ShellReturnPlace
  <1>3. client.mode \in {"run", "prompt"}
    BY <1>1, ShellRegs, ShellReturnPlace, ShellAtPrompt
  <1>4. CASE client'.pos = client.pos
    <2>1. ClientEnded
      BY <1>2, <1>4 DEF ClientEnded
    <2>2. cconf.dirty
      BY <1>0, <1>2, <1>3, <2>1 DEF DirtyOK
    <2> QED
      BY <1>2, <2>2, ShellSettles
  <1>5. CASE client'.pos # client.pos
    <2>1. ~ClientReturns
      BY <1>2, <1>5, ShellReturnPlace
    <2>2. ClientRunning
      BY <1>1, <1>5, <2>1, ShellRegs DEF ClientAdvances
    <2>3. CASE ClientAdvances
      <3>1. client.pos = Len(ClientScript[client.cmd])
        BY <1>2, <2>3 DEF ClientAdvances, ClientEnded, SidesOK, ClientOK
      <3>2. ClientOp.do = "do" /\ ClientOp.x \in {"set_name", "set_index"}
        <4>1. CASE client.cmd = "rename"
          BY <3>1, <4>1 DEF ClientOp, ClientScript, DoConfName, Do, Put, Ack, Get, BYE
        <4>2. CASE client.cmd = "comp"
          BY <3>1, <4>2 DEF ClientOp, ClientScript, DoConfComp, Do, Put, Ack, Get, BYE
        <4> QED
          BY <1>2, <4>1, <4>2
      <3>3. SetConfig
        BY <1>5, <2>2, <3>2, ShellDoes
      <3> QED
        BY <3>2, <3>3 DEF SetConfig, DataOK, TypeOK
    <2>4. CASE ~ClientAdvances
      <3>1. ~ClientRefused /\ ~ClientFails
        BY <1>0, <1>2, SettingNotRefused DEF ClientFails
      <3>2. ~CreateArchive /\ ~VerifyArchive
        BY <1>2, AtOps DEF CreateArchive, VerifyArchive, ClientDoes, ClientOpAt
      <3>3. ~ClientPuts /\ ~ClientGets
        BY <2>2, <2>4, ClientForms DEF ClientPuts, ClientGets, ClientAdvances
      <3>4. ~(ClientMisreads \/ ClientAtEnd \/ ClientKilled \/ Refuses \/ \E f \in Files, v \in Versions : Edit(f, v))
        BY <1>0, <1>5, ClientForms DEF ClientMisreads, ClientAtEnd, ClientKilled, Refuses, Edit
      <3>5. ~(EnableCompressor \/ ReadLocal \/ SendSucceeds \/ ArchiveReceived)
        BY <1>2, <2>2, AtOps DEF EnableCompressor, ReadLocal, SendSucceeds, ArchiveReceived, ClientDoes, ClientOpAt
      <3>6. ~ClientFileFails
        BY <1>5, ClientForms DEF ClientFileFails
      <3>7. SetConfig
        BY <1>1, <2>1, <3>1, <3>2, <3>3, <3>4, <3>5, <3>6 DEF ShellStep, ClientStep
      <3>8. ClientAdvances
        BY <2>2, <3>7, ClientForms DEF SetConfig, ClientDoes, ClientAdvances
      <3> QED
        BY <2>4, <3>8
    <2> QED
      BY <2>3, <2>4
  <1> QED
    BY <1>4, <1>5

LEMMA WorkerDirty ==
  ASSUME SidesOK, DirtyOK, WorkerStep
  PROVE  DirtyOK'
  <1>1. client' = client /\ cconf' = cconf /\ ~ServerGone
    BY WorkerSteps, WorkerLeavesClient DEF cvars
  <1> QED
    BY <1>1 DEF DirtyOK, ClientEnded

(* Once the server has answered a compression, it is not in a setting.      *)
LEMMA ServerCompresses ==
  ASSUME SidesOK, Framed, Met, client.cmd = "compress", ~Begins, ~ClientEnded
  PROVE  server.cmd \in {"compress", "loop"}
  <1>1. ~Overlapping /\ ~Stale
    BY DEF Overlapping, Stale
  <1>2. ~Silent
    BY DEF Met, Silent
  <1>3. CASE Talking
    <2>1. PICK b \in Nat : TalkingAt(b)
      BY <1>3, TalkingSomewhere
    <2> QED
      BY <2>1 DEF TalkingAt
  <1>4. CASE ServerRefuses \/ ClientRefuses \/ ArchiveUnread \/ ArchiveUnwanted \/ FileUnwanted
    BY <1>4 DEF ServerRefuses, ClientRefuses, ArchiveUnread, ArchiveUnwanted, FileUnwanted, ServerEnded
  <1> QED
    BY <1>1, <1>2, <1>3, <1>4 DEF Framed

LEMMA CompressUnderway ==
  ASSUME SidesOK, client.cmd = "compress", client.pos \in 3 .. 13
  PROVE  ~Begins /\ ~ClientEnded
  <1>1. Len(ClientScript[client.cmd]) = 13
    BY ClientLengths
  <1> QED
    BY <1>1 DEF Begins, ClientEnded

LEMMA ShellKey ==
  ASSUME SidesOK, Framed, DataOK, ConfigInv, KeyOK, ShellStep
  PROVE  KeyOK'
  <1> SUFFICES ASSUME client'.mode = "run", client'.cmd = "compress", client'.pos \in 4 .. 13
               PROVE  cconf'.name = sconf'.name /\ cconf'.index = alg'
    BY DEF KeyOK
  <1>1. ~AtPrompt
    BY ClientForms DEF AtPrompt, Starts
  <1>2. ~ClientReturns
    BY ShellReturnPlace
  <1>3. client.cmd = "compress" /\ client.mode = "run"
    BY <1>1, <1>2, ShellRegs
  <1>4. cconf'.name = cconf.name /\ cconf'.index = cconf.index /\ sconf' = sconf /\ alg' = alg
    BY <1>3, ShellKeepsKey, ShellLeavesServer DEF svars
  <1>5. client.pos \in 3 .. 13
    <2>1. Len(ClientScript[client.cmd]) = 13
      BY <1>3, ClientLengths
    <2> QED
      BY <1>1, <1>2, <2>1, ShellRegs DEF ClientAdvances, SidesOK, ClientOK
  <1>6. CASE client.pos # 3
    BY <1>3, <1>4, <1>5, <1>6 DEF KeyOK
  <1>7. CASE client.pos = 3
    <2>1. ClientAdvances
      <3>1. Len(ClientScript[client.cmd]) = 13
        BY <1>3, ClientLengths
      <3> QED
        BY <1>1, <1>2, <1>7, <3>1, ShellRegs
    <2>2. ClientOp.do = "get" /\ ClientOp.kind = "rsp"
      BY <1>3, <1>7 DEF ClientOp, ClientScript, DoCompress, Put, Ack, Get
    <2>3. Met
      BY <1>3, <2>1, <2>2 DEF ClientAdvances, ReadLocal, ClientDoes, ClientGets, Met, ClientGone
    <2>4. server.cmd \in {"compress", "loop"}
      BY <1>3, <1>5, <2>3, CompressUnderway, ServerCompresses
    <2> QED
      BY <1>3, <1>4, <2>3, <2>4 DEF ConfigInv, ServerName, ServerIndex, ClientName, ClientIndex, NameTaken, IndexTaken,
         DataOK, SettingsOK
  <1> QED
    BY <1>6, <1>7

LEMMA WorkerKey ==
  ASSUME SidesOK, Framed, KeyOK, WorkerStep
  PROVE  KeyOK'
  <1>1. client' = client /\ cconf' = cconf /\ ~ServerGone
    BY WorkerSteps, WorkerLeavesClient DEF cvars
  <1> SUFFICES ASSUME client.mode = "run", client.cmd = "compress", client.pos \in 4 .. 13
               PROVE  cconf.name = sconf'.name /\ cconf.index = alg'
    BY <1>1 DEF KeyOK
  <1>2. server.cmd \in {"compress", "loop"}
    BY <1>1, CompressUnderway, ServerCompresses DEF Met, ClientGone
  <1>3. ~SetServerName /\ ~SetServerIndex
    BY <1>2, AtOps DEF SetServerName, SetServerIndex, ServerDoes, ServerOpAt
  <1> QED
    BY <1>3, WorkerSettingsKept DEF KeyOK

LEMMA ShellBody ==
  ASSUME SidesOK, Framed, DataOK, ConfigInv, MadeOK, BodyOK, ShellStep
  PROVE  BodyOK'
  <1> SUFFICES ASSUME client'.cmd = "compress", client'.pos = 10
               PROVE  creg'.body \in {Archived', Junk}
    BY DEF BodyOK
  <1>0. ~ClientGone
    BY ShellSteps
  <1>1. ~AtPrompt
    BY ClientForms DEF AtPrompt, Starts
  <1>2. ~ClientReturns
    <2> SUFFICES ASSUME ClientReturns PROVE FALSE
      OBVIOUS
    <2>1. client.cmd = "compress" /\ client.pos = Len(ClientScript[client.cmd]) + 1 /\ client.pos = 10
      BY ShellReturnPlace
    <2>2. Len(ClientScript[client.cmd]) = 13
      BY <2>1, ClientLengths
    <2> QED
      BY <2>1, <2>2
  <1>3. client.cmd = "compress" /\ Len(ClientScript[client.cmd]) = 13
    BY <1>1, <1>2, ShellRegs, ClientLengths
  <1>4. Archived' = Archived
    BY <1>3, ShellKeepsKey
  <1>5. CASE client'.pos = client.pos /\ creg' = creg
    BY <1>0, <1>3, <1>4, <1>5 DEF BodyOK
  <1>6. CASE ClientAdvances
    <2>1. client.pos = 9 /\ ClientOp.do = "get" /\ ClientOp.x = "body"
      <3>1. client.pos = 9
        BY <1>6 DEF ClientAdvances, SidesOK, ClientOK
      <3> QED
        BY <1>3, <3>1 DEF ClientOp, ClientScript, DoCompress, Put, Ack, Get
    <2>2. CASE ClientGets
      BY <1>0, <1>3, <1>4, <2>1, <2>2, ShellTakesBody
    <2>3. CASE ~ClientGets
      <3>1. ClientAtEnd /\ ClientOp.kind # "rsp"
        BY <1>6, <2>1, <2>3 DEF ClientAdvances, ReadLocal, ClientDoes
      <3>2. creg' = Store(creg, "body", Junk)
        BY <2>1, <3>1 DEF ClientAtEnd, JunkOf
      <3> QED
        BY <3>2, StoreOther DEF SidesOK, ClientOK
    <2> QED
      BY <2>2, <2>3
  <1> QED
    BY <1>1, <1>2, <1>3, <1>5, <1>6, ShellRegs

LEMMA WorkerBody ==
  ASSUME SidesOK, Framed, BodyOK, WorkerStep
  PROVE  BodyOK'
  <1>1. client' = client /\ cconf' = cconf /\ creg' = creg
    BY WorkerSteps, WorkerLeavesClient DEF cvars
  <1> SUFFICES ASSUME ~ClientGone, client.cmd = "compress", client.pos = 10 PROVE creg.body \in {Archived', Junk}
    BY <1>1 DEF BodyOK, ClientGone
  <1>2. sfiles' = sfiles
    BY WorkerLeavesFiles
  <1> QED
    BY <1>1, <1>2 DEF BodyOK, Archived

-----------------------------------------------------------------------------
(* No command of a writer is under way once the user was assured.           *)

LEMMA WorkerNotesOK ==
  ASSUME NoteOK, WorkerStep
  PROVE  NoteOK'
  <1>1. client' = client /\ note' = note /\ ~ServerGone
    BY WorkerSteps, WorkerLeavesClient DEF cvars
  <1> QED
    BY <1>1 DEF NoteOK, ClientEnded

LEMMA CommandsFirst ==
  ASSUME NEW cmd \in DOMAIN ClientScript, NEW i \in 1 .. Length(cmd), Dialogue[cmd][i].kind = "cmd"
  PROVE  i = 1 /\ cmd # "hello"
  <1> USE DEF Length, Dialogue, Cl, Sv, COk, SOk, CBye, SBye
  <1>0. cmd \in {"hello", "help", "quit", "send", "check", "show", "rename", "comp", "compress"}
    BY DEF ClientScript
  <1>1. CASE cmd = "check"
    BY <1>1 DEF ConfigDialogue
  <1>8. CASE cmd = "show"
    BY <1>8 DEF ConfigDialogue
  <1>2. CASE cmd = "hello"
    BY <1>2
  <1>3. CASE cmd = "help"
    BY <1>3
  <1>9. CASE cmd = "quit"
    BY <1>9
  <1>4. CASE cmd = "send"
    BY <1>4
  <1>5. CASE cmd = "rename"
    BY <1>5
  <1>6. CASE cmd = "comp"
    BY <1>6
  <1>7. CASE cmd = "compress"
    BY <1>7
  <1> QED
    BY <1>0, <1>1, <1>2, <1>3, <1>4, <1>5, <1>6, <1>7, <1>8, <1>9

LEMMA NoCommandInFlight ==
  ASSUME NEW cmd \in DOMAIN ClientScript, NEW from \in Nat, NEW reg, from >= 1 \/ cmd = "hello",
         NEW m \in Messages(InFlight(cmd, from, Length(cmd), reg))
  PROVE  m.kind # "cmd"
  <1>0. Length(cmd) \in Nat
    BY ClientClockEnds
  <1>1. PICK i \in 1 .. Length(cmd) - from : m = Message(reg, Dialogue[cmd][from + i])
    <2>1. CASE from >= Length(cmd)
      <3>1. InFlight(cmd, from, Length(cmd), reg) = <<>>
        BY <1>0, <2>1, NothingInFlight
      <3> QED
        BY <3>1, NoMessages
    <2>2. CASE from < Length(cmd)
      <3>1. Len(InFlight(cmd, from, Length(cmd), reg)) = Length(cmd) - from
        BY <1>0, <2>2 DEF InFlight
      <3> QED
        BY <3>1 DEF Messages, InFlight
    <2> QED
      BY <1>0, <2>1, <2>2
  <1>2. from + i # 1 \/ cmd = "hello"
    BY <1>0
  <1>3. from + i \in 1 .. Length(cmd)
    BY <1>0
  <1>4. Dialogue[cmd][from + i].kind # "cmd"
    BY <1>2, <1>3, CommandsFirst
  <1> QED
    BY <1>1, <1>4 DEF Message

LEMMA WorkerSettled ==
  ASSUME SidesOK, SidesOK', Framed, SettledOK, WorkerStep
  PROVE  SettledOK'
  <1>1. note' = note /\ ~ServerGone
    BY WorkerSteps, WorkerLeavesClient DEF cvars
  <1> SUFFICES ASSUME Settled, ~ServerGone' PROVE Settled'
    BY <1>1 DEF SettledOK
  <1>2. \A m \in Messages(c2s') : m.kind # "cmd"
    BY WorkerReadsMessages DEF Settled
  <1>3. ~(ServerGets /\ Head(c2s).kind = "cmd")
    BY WorkerReadsMessages DEF Settled, ServerGets
  <1>4. ASSUME server'.cmd = "loop", server'.pos > 1 PROVE sreg'.cmd \notin Writers
    <2>1. ~ServerReturns
      BY <1>4, ServerForms DEF ServerReturns
    <2>2. ~Dispatch
      <3> SUFFICES ASSUME Dispatch PROVE FALSE
        OBVIOUS
      <3>1. server'.mode # "closed"
        BY DEF ServerGone
      <3>2. HandlerOf(sreg.cmd) # "loop"
        BY DEF HandlerOf
      <3> QED
        BY <1>4, <3>1, <3>2, WorkerReturnPlace
    <2>3. server.cmd = "loop"
      BY <1>4, <2>1, <2>2, WorkerRegs
    <2>4. sreg'.cmd = sreg.cmd \/ sreg'.cmd = "none"
      BY <1>3, WorkerCommand
    <2>5. server.pos # 1
      <3> SUFFICES ASSUME server.pos = 1 PROVE FALSE
        OBVIOUS
      <3>1. ServerOp.do = "get" /\ ServerOp.kind = "cmd" /\ Len(ServerScript[server.cmd]) = 3
        BY <2>3, LoopScript DEF ServerOp, Get
      <3>2. ServerAdvances
        <4>1. server'.pos # 4
          BY <1>4 DEF SidesOK, ServerOK
        <4> QED
          BY <1>4, <2>1, <2>2, <3>1, <4>1, WorkerRegs
      <3>3. ~ServerAtEnd
        BY <3>1, ServerForms DEF ServerAtEnd, ServerGone
      <3>4. ServerGets
        BY <3>1, <3>2, <3>3 DEF ServerAdvances, ReadArchive, ServerDoes
      <3> QED
        BY <1>3, <3>1, <3>4 DEF ServerGets
    <2>6. server.pos > 1
      BY <2>5 DEF SidesOK, ServerOK
    <2> QED
      BY <2>3, <2>4, <2>6 DEF Settled, Writers
  <1>5. Written'
    <2>1. CASE Dispatch
      <3>1. server.cmd = "loop" /\ server.pos = 3 /\ server'.cmd \in {"loop", HandlerOf(sreg.cmd)}
        BY <2>1, WorkerReturnPlace
      <3>2. sreg.cmd \notin Writers /\ HandlerOf(sreg.cmd) \in {sreg.cmd, "help"}
        BY <3>1 DEF Settled, HandlerOf
      <3> QED
        BY <3>1, <3>2 DEF Writers, Written
    <2>2. CASE ServerReturns
      BY <2>2, WorkerReturnPlace DEF Written
    <2>3. CASE ~Dispatch /\ ~ServerReturns
      <3>1. server'.cmd = server.cmd
        BY <2>3, WorkerRegs
      <3>2. CASE server'.pos = server.pos
        BY <3>1, <3>2 DEF Written, Settled
      <3>3. CASE server'.pos = Len(ServerScript[server.cmd]) + 1
        <4>1. ASSUME server.cmd = "send" PROVE server'.pos = 15
          BY <3>3, <4>1, ServerLengths
        <4>2. ASSUME server.cmd = "rename" PROVE server'.pos = 7
          BY <3>3, <4>2, ServerLengths
        <4>3. ASSUME server.cmd = "comp" PROVE server'.pos = 5
          BY <3>3, <4>3, ServerLengths
        <4> QED
          BY <3>1, <4>1, <4>2, <4>3 DEF Written
      <3>4. CASE ServerAdvances
        <4>1. server'.pos = server.pos + 1 /\ server.pos \in Nat /\ server.pos <= Len(ServerScript[server.cmd])
          BY <3>4 DEF ServerAdvances, ServerRunning, SidesOK, ServerOK
        <4>2. ASSUME server.cmd = "rename" PROVE server.pos # 7
          BY <4>1, <4>2, ServerLengths
        <4>3. ASSUME server.cmd = "comp" PROVE server.pos # 5
          BY <4>1, <4>3, ServerLengths
        <4> QED
          BY <3>1, <4>1, <4>2, <4>3 DEF Written, Settled
      <3> QED
        BY <2>3, <3>2, <3>3, <3>4, WorkerRegs
    <2> QED
      BY <2>1, <2>2, <2>3
  <1> QED
    BY <1>2, <1>4, <1>5 DEF Settled

(* What a shell whose command has ended finds of the worker.                *)
LEMMA PromptSettled ==
  ASSUME SidesOK, Framed, ClientEnded, ~ClientGone, ~ServerGone, client.cmd \notin Writers
  PROVE  Settled
  <1>1. /\ ~Begins /\ CDone = Length(client.cmd) /\ client.cmd \in DOMAIN ClientScript
        /\ Length(client.cmd) \in Nat \ {0, 1} /\ client.cmd # "loop" /\ Begun = <<>>
    <2>1. Len(ClientScript[client.cmd]) >= 2 /\ client.cmd \in DOMAIN ClientScript
      BY ScriptIsLong DEF SidesOK, ClientOK
    <2>2. client.cmd # "loop"
      BY <2>1 DEF ClientScript
    <2>3. ~Begins
      BY <2>1 DEF Begins, ClientEnded
    <2> QED
      BY <2>1, <2>2, <2>3, ClocksInRange DEF Begun
  <1>2. ~Overlapping /\ ~FileUnwanted /\ ~Stale /\ ~Silent
    BY <1>1 DEF Overlapping, FileUnwanted, Stale, Silent, Writers
  <1>3. ~ArchiveUnread
    <2> SUFFICES ASSUME client.cmd = "compress" PROVE client.pos \notin {8, 9}
      BY DEF ArchiveUnread
    <2>1. Len(ClientScript[client.cmd]) = 13
      BY ClientLengths
    <2> QED
      BY <2>1 DEF ClientEnded
  <1>4. ~ServerRefuses
    BY <1>1 DEF ServerRefuses
  <1>5. ASSUME NEW code, c2s = Before(Reply(code), <<>>) PROVE \A m \in Messages(c2s) : m.kind # "cmd"
    <2>1. c2s = <<[kind |-> "rsp", val |-> code]>>
      BY <1>5, ShortBefore DEF Reply
    <2> QED
      BY <2>1, OneMessage
  <1>6. CASE ClientRefuses
    BY <1>1, <1>5, <1>6 DEF ClientRefuses, Channels, Settled, Written
  <1>7. CASE ArchiveUnwanted
    <2>1. c2s = Before(IF server.pos = 8 THEN Reply("ack") ELSE <<>>, <<>>) /\ server.cmd = "compress"
      BY <1>1, <1>7 DEF ArchiveUnwanted, Channels
    <2>2. c2s = Before(Reply("ack"), <<>>) \/ c2s = <<>>
      BY <2>1, ShortBefore
    <2> QED
      BY <1>5, <2>1, <2>2, NoMessages DEF Settled, Written
  <1>8. CASE Talking
    <2>1. PICK b \in Nat : TalkingAt(b)
      BY <1>8, TalkingSomewhere
    <2>2. server.cmd \notin Writers /\ (server.cmd = "loop" /\ server.pos > 1 => sreg.cmd \notin Writers)
      BY <1>1, <2>1 DEF TalkingAt, Writers
    <2>3. c2s = InFlight(client.cmd, b, Length(client.cmd), creg)
      BY <1>1, <2>1 DEF TalkingAt, Between, Channels
    <2>4. b >= 1 \/ client.cmd = "hello"
      <3> SUFFICES ASSUME client.cmd # "hello" PROVE b > 1
        OBVIOUS
      <3>1. Dialogue[client.cmd][1 + 1].who = "server"
        BY <1>1, DialogueShape DEF SOk, Sv
      <3> QED
        BY <1>1, <2>1, <3>1, Ahead DEF TalkingAt
    <2>5. \A m \in Messages(c2s) : m.kind # "cmd"
      BY <1>1, <2>3, <2>4, NoCommandInFlight
    <2> QED
      BY <2>2, <2>5 DEF Settled, Written, Writers
  <1> QED
    BY <1>2, <1>3, <1>4, <1>6, <1>7, <1>8 DEF Framed

(* ... a send that was answered to the end, ...                             *)
LEMMA SentSettled ==
  ASSUME SidesOK, Framed, ~ClientGone, ~ServerGone, client.cmd = "send", client.pos = 17
  PROVE  Settled
  <1>1. /\ CDone = 13 /\ Length(client.cmd) = 13 /\ ~Begins /\ ~ClientEnded
        /\ Dialogue["send"][11 + 1].who = "server" /\ client.cmd \in DOMAIN ClientScript
    <2>1. Len(ClientScript[client.cmd]) = 17
      BY ClientLengths
    <2>2. ClientClock["send"][17] = 13
      BY SendClocks
    <2>3. Length("send") = 13 /\ Dialogue["send"][12] = SOk
      BY SendPlaces
    <2>4. client.cmd \in DOMAIN ClientScript
      BY ClocksInRange
    <2>5. Dialogue["send"][11 + 1].who = "server"
      BY <2>3 DEF SOk, Sv
    <2> QED
      BY <2>1, <2>2, <2>3, <2>4, <2>5 DEF CDone, Begins, ClientEnded
  <1>2. ~Overlapping /\ ~ClientRefuses /\ ~ArchiveUnread /\ ~ArchiveUnwanted /\ ~FileUnwanted /\ ~Stale /\ ~Silent
    BY <1>1 DEF Overlapping, ClientRefuses, ArchiveUnread, ArchiveUnwanted, FileUnwanted, Stale, Silent
  <1>3. ~ServerRefuses
    BY <1>1 DEF ServerRefuses
  <1>4. PICK b \in Nat : TalkingAt(b)
    BY <1>2, <1>3, TalkingSomewhere DEF Framed
  <1>5. b > 11
    BY <1>1, <1>4, Ahead DEF TalkingAt
  <1>6. c2s = InFlight(client.cmd, b, Length(client.cmd), creg)
    BY <1>1, <1>4 DEF TalkingAt, Between, Channels
  <1>7. \A m \in Messages(c2s) : m.kind # "cmd"
    BY <1>1, <1>5, <1>6, NoCommandInFlight
  <1>8. CASE server.cmd = "loop"
    <2>1. server.pos = 1
      BY <1>4, <1>5, <1>8, ClocksInRange DEF TalkingAt
    <2> QED
      BY <1>7, <1>8, <2>1 DEF Settled, Written
  <1>9. CASE server.cmd = "send"
    <2>1. SDone > 11 /\ server.pos \in 1 .. 15
      <3>1. Len(ServerScript[server.cmd]) = 14
        BY <1>9, ServerLengths
      <3> QED
        BY <1>4, <1>5, <1>9, <3>1 DEF TalkingAt, SidesOK, ServerOK
    <2>2. \A p \in 1 .. 15 : ServerClock["send"][p] > 11 => p >= 13
      BY DEF ServerClock
    <2> QED
      BY <1>7, <1>9, <2>1, <2>2 DEF Settled, Written, SDone
  <1> QED
    BY <1>1, <1>4, <1>8, <1>9 DEF TalkingAt

(* ... a send that was told that the file is there.                         *)
LEMMA PresentSettled ==
  ASSUME SidesOK, Framed, HaveOK, ClientRefused, note' = "present", ~ServerGone
  PROVE  client.cmd = "send" /\ Settled
  <1>1. /\ s2c # <<>> /\ Head(s2c).kind = "rsp" /\ Head(s2c).val = "cnt" /\ ~ClientEnded /\ ~ClientGone
    BY DEF ClientRefused, ClientRunning, ClientEnded, ClientGone, SidesOK, ClientOK
  <1>2. Head(s2c) \in Messages(s2c)
    BY <1>1, AnswersAreSequence, GetMessages
  <1>3. client.cmd = "send"
    BY <1>1, <1>2 DEF HaveOK
  <1>4. ~Overlapping /\ ~ClientRefuses /\ ~ArchiveUnread /\ ~Stale /\ ~Silent
    BY <1>1, <1>3 DEF Overlapping, ClientRefuses, ArchiveUnread, Stale, Silent, Channels
  <1>5. ~ArchiveUnwanted
    BY <1>1 DEF ArchiveUnwanted, Channels, Only
  <1>6. ~FileUnwanted
    <2> SUFFICES ASSUME FileUnwanted PROVE FALSE
      OBVIOUS
    <2>1. s2c = Before(Reply("ack"), Reply("err")) \/ s2c = Before(<<>>, Reply("err")) \/ s2c = Reply("err") \/ s2c = <<>>
      BY <1>1 DEF FileUnwanted, Channels
    <2>2. Head(s2c) \in {[kind |-> "rsp", val |-> "ack"], [kind |-> "rsp", val |-> "err"]}
      BY <1>1, <2>1, ShortBefore DEF Reply
    <2> QED
      BY <1>1, <2>2
  <1>7. ~Talking
    <2> SUFFICES ASSUME Talking PROVE FALSE
      OBVIOUS
    <2>1. PICK b \in Nat : TalkingAt(b)
      BY TalkingSomewhere
    <2> QED
      BY <1>1, <2>1, ShellReads DEF TalkingAt
  <1>8. ServerRefuses
    BY <1>4, <1>5, <1>6, <1>7 DEF Framed
  <1>9. c2s = <<>> /\ ServerEnded("send")
    BY <1>3, <1>8 DEF ServerRefuses, Channels
  <1>10. Len(ServerScript["send"]) = 14
    BY ServerLengths
  <1> QED
    BY <1>3, <1>9, <1>10, NoMessages DEF Settled, Written, ServerEnded

(* What the user can be told, by which step.                                *)
LEMMA ShellAssures ==
  ASSUME ShellStep, note' # note
  PROVE  /\ note' = "sent" => SendSucceeds
         /\ note' = "present" => ClientRefused
         /\ note' = "received" => ArchiveReceived
         /\ note' \in {"already", "no_files"} => Refuses
  <1>1. CASE AtPrompt \/ Refuses \/ ClientKilled \/ ClientReturns
    BY <1>1 DEF AtPrompt, Starts, Refuses, ClientKilled, ClientReturns
  <1>2. CASE \E f \in Files, v \in Versions : Edit(f, v)
    BY <1>2 DEF Edit
  <1>3. CASE ClientPuts \/ ClientGets \/ ClientRefused \/ ClientMisreads \/ ClientAtEnd \/ ClientFails
    BY <1>3 DEF ClientPuts, ClientGets, ClientRefused, ClientMisreads, ClientAtEnd, ClientFails
  <1>4. CASE EnableCompressor \/ ReadLocal \/ ClientFileFails \/ SendSucceeds \/ SetConfig
    BY <1>4 DEF EnableCompressor, ReadLocal, ClientFileFails, SendSucceeds, SetConfig
  <1>5. CASE CreateArchive \/ VerifyArchive \/ ArchiveReceived
    BY <1>5 DEF CreateArchive, VerifyArchive, ArchiveReceived
  <1> QED
    BY <1>1, <1>2, <1>3, <1>4, <1>5 DEF ShellStep, ClientStep

LEMMA ShellSettled ==
  ASSUME SidesOK, Framed, DataOK, CountsOK, NoteOK, HaveOK, DirtyOK, SettledOK, ShellStep
  PROVE  SettledOK'
  <1> SUFFICES ASSUME note' \in {"sent", "present", "received", "already"}, ~ServerGone PROVE Settled'
    BY ShellSteps DEF SettledOK, ServerGone
  <1>0. server' = server /\ sreg' = sreg /\ ~ClientGone
    BY ShellSteps
  <1>1. Settled
    <2>1. CASE note' = note
      BY <2>1 DEF SettledOK
    <2>2. CASE SendSucceeds
      BY <1>0, <2>2, AtOps, SentSettled DEF SendSucceeds, ClientDoes, ClientOpAt
    <2>3. CASE ClientRefused /\ note' = "present"
      BY <2>3, PresentSettled
    <2>4. CASE ArchiveReceived
      <3>1. client.cmd = "compress" /\ client.pos = 13
        BY <2>4, AtOps DEF ArchiveReceived, ClientDoes, ClientOpAt
      <3> QED
        BY <1>0, <3>1, ShellHasArchive, NoMessages DEF Settled, Written
    <2>5. CASE Refuses /\ note' = "already"
      <3>1. client.mode = "prompt" /\ ClientEnded /\ AlreadyCompressed
        BY <2>5 DEF Refuses, SidesOK, ClientOK, ClientEnded
      <3>2. cconf.at \in Nat /\ cconf.sent \in Nat
        BY DEF DataOK, TypeOK
      <3>3. client.cmd \notin Writers
        BY <3>1, <3>2 DEF AlreadyCompressed, CountsOK, DirtyOK, Writers
      <3> QED
        BY <1>0, <3>1, <3>3, PromptSettled
    <2> QED
      BY <2>1, <2>2, <2>3, <2>4, <2>5, ShellAssures
  <1>2. CASE c2s' = c2s
    BY <1>0, <1>1, <1>2 DEF Settled, Written
  <1>3. CASE c2s' = Append(c2s, [kind |-> "rsp", val |-> "err"])
    <2>1. Messages(c2s') = Messages(c2s) \cup {[kind |-> "rsp", val |-> "err"]}
      BY <1>3, RequestsAreSequence, PutMessages
    <2> QED
      BY <1>0, <1>1, <2>1 DEF Settled, Written
  <1>4. ~ClientPuts
    <2> SUFFICES ASSUME ClientPuts PROVE FALSE
      OBVIOUS
    <2>1. note' = note /\ client.mode = "run" /\ ~ClientEnded
      BY DEF ClientPuts, ClientRunning, ClientEnded, SidesOK, ClientOK
    <2> QED
      BY <2>1 DEF NoteOK
  <1> QED
    BY <1>2, <1>3, <1>4, ShellPuts

-----------------------------------------------------------------------------
(* What the user was told stays so.                                         *)

LEMMA ServiceInit == Init => ServiceInv
  <1> SUFFICES ASSUME Init PROVE ServiceInv
    OBVIOUS
  <1>1. /\ c2s = <<>> /\ s2c = <<>> /\ note = "none" /\ faulted = {} /\ sreg.cmd = "none"
        /\ client.cmd = "hello" /\ client.mode = "run" /\ server.cmd = "hello" /\ server.mode = "run"
        /\ \A f \in Files : sfiles[f] = Absent
    BY DEF Init, Blank
  <1>2. Messages(c2s) = {} /\ Messages(s2c) = {}
    BY <1>1, NoMessages
  <1> QED
    BY <1>1, <1>2 DEF ServiceInv, SettledOK, NoteOK, HaveOK, NothingOK, ServedOK, DirtyOK, KeyOK, BodyOK, Knows,
       ServerGone

LEMMA ServiceStep ==
  FrameInv /\ FrameInv' /\ DataOK /\ ConfigInv /\ ArchiveInv /\ RefusalInv /\ ServiceInv /\ [Next]_vars => ServiceInv'
  <1> SUFFICES ASSUME FrameInv, FrameInv', DataOK, ConfigInv, ArchiveInv, RefusalInv, ServiceInv, [Next]_vars
               PROVE  ServiceInv'
    OBVIOUS
  <1>1. SidesOK /\ SidesOK' /\ (InFrame => Framed)
    BY DEF FrameInv, StreamKept
  <1>2. MadeOK /\ CountsOK
    BY DEF ArchiveInv, RefusalInv
  <1>3. SettledOK /\ NoteOK /\ HaveOK /\ NothingOK /\ ServedOK /\ DirtyOK /\ KeyOK /\ BodyOK
    BY DEF ServiceInv
  <1>4. CASE ShellStep
    <2>1. Framed
      BY <1>1, <1>4, ShellSteps
    <2>2. SettledOK' /\ NoteOK' /\ HaveOK' /\ NothingOK'
      BY <1>1, <1>2, <1>3, <1>4, <2>1, ShellSettled, ShellNotesOK, ShellHave, ShellNothing
    <2>3. ServedOK' /\ DirtyOK' /\ KeyOK' /\ BodyOK'
      BY <1>1, <1>2, <1>3, <1>4, <2>1, ShellServed, ShellDirty, ShellKey, ShellBody
    <2> QED
      BY <2>2, <2>3 DEF ServiceInv
  <1>5. CASE WorkerStep
    <2>1. Framed
      BY <1>1, <1>5, WorkerSteps
    <2>2. SettledOK' /\ NoteOK' /\ HaveOK' /\ NothingOK'
      BY <1>1, <1>3, <1>5, <2>1, WorkerSettled, WorkerNotesOK, WorkerHave, WorkerNothing
    <2>3. ServedOK' /\ DirtyOK' /\ KeyOK' /\ BodyOK'
      BY <1>1, <1>3, <1>5, <2>1, WorkerServed, WorkerDirty, WorkerKey, WorkerBody
    <2> QED
      BY <2>2, <2>3 DEF ServiceInv
  <1>6. CASE UNCHANGED vars
    <2>1. UNCHANGED <<c2s, s2c, client, server, creg, sreg, cconf, sconf, alg, sfiles, note, faulted>>
      BY <1>6 DEF vars, channels, cvars, svars
    <2>2. SettledOK' /\ NoteOK' /\ HaveOK' /\ NothingOK'
      BY <1>3, <2>1 DEF SettledOK, NoteOK, HaveOK, NothingOK, Settled, Written, Knows, Unheard, ClientGone, ServerGone,
         ClientEnded
    <2>3. ServedOK' /\ DirtyOK' /\ KeyOK' /\ BodyOK'
      BY <1>3, <2>1 DEF ServedOK, DirtyOK, KeyOK, BodyOK, Knows, ClientGone, ServerGone, ClientEnded, Archived
    <2> QED
      BY <2>2, <2>3 DEF ServiceInv
  <1> QED
    BY <1>4, <1>5, <1>6 DEF Next, ShellStep, WorkerStep

(* Once the user was told that a file is stored or an archive fetched,      *)
(* neither the worker nor what is still in the connection changes a file or *)
(* a setting before the next command, and only a command that ended, or one *)
(* that will hear nothing, follows a message (do_send(), do_compress(),     *)
(* parse_command(), handle_command()).                                      *)
THEOREM ServiceInvariant ==
  Spec => [](FrameInv /\ DataOK /\ ConfigInv /\ SendInv /\ ArchiveInv /\ RefusalInv /\ ServiceInv)
  <1> DEFINE IInv == FrameInv /\ DataOK /\ ConfigInv /\ SendInv /\ ArchiveInv /\ RefusalInv /\ ServiceInv
  <1>1. IInv /\ [Next]_vars => IInv'
    <2>1. FrameInv /\ [Next]_vars => FrameInv'
      BY FrameStep
    <2>2. IInv /\ [Next]_vars => (FrameInv /\ DataOK /\ ConfigInv /\ SendInv)'
      BY <2>1, DataStep, ConfigStep, SendStep
    <2> QED
      BY <2>2, ArchiveStep, RefusalStep, ServiceStep
  <1>2. Init => IInv
    BY FrameInit, DataInit, ConfigInit, SendInit, ArchiveInit, RefusalInit, ServiceInit
  <1> HIDE DEF IInv
  <1>3. Spec => []IInv
    BY <1>1, <1>2, PTL DEF Spec
  <1> QED
    BY <1>3 DEF IInv

-----------------------------------------------------------------------------
(* Every step of a session is one that its user sees, or none.              *)

LEMMA ServiceRefuses ==
  ASSUME SidesOK, DataOK, DataOK', ConfigInv, CountsOK, AlreadyOK', SettledOK', NothingOK, ServedOK, Refuses
  PROVE  Service!Refuse
  <1>1. /\ UNCHANGED <<sfiles, sconf, alg, received, cconf, server, sreg, c2s, client, faulted>>
        /\ client.mode = "prompt" /\ ClientEnded /\ ~ClientGone /\ client.cmd # "quit"
    BY DEF Refuses, channels, svars, SidesOK, ClientOK, ClientEnded, ClientGone
  <1>2. CASE NothingSent
    <2>1. client.cmd # "send"
      BY <1>1, <1>2 DEF NothingSent, CountsOK, DataOK, TypeOK
    <2>2. note' = "no_files" /\ \A f \in Files : sfiles[f] = Absent
      BY <1>2, <2>1 DEF NothingSent, NothingOK, Refuses
    <2> QED
      BY <1>1, <2>2 DEF Service!Refuse
  <1>3. CASE ~NothingSent
    <2>1. note' = "already"
      BY <1>3 DEF Refuses
    <2>2. ASSUME Faults \subseteq {"edit"} /\ Compressors \subseteq Available
          PROVE  received[<<sconf.name, alg>>] = Archive(alg, sfiles)
      <3>1. ~ServerGone /\ Works
        <4>1. faulted \subseteq {"edit"} /\ cconf.index \in Available
          BY <2>2 DEF DataOK, TypeOK
        <4>2. ~ServerGone
          BY <1>1, <4>1 DEF ServedOK
        <4> QED
          BY <4>1, <4>2 DEF Works
      <3>2. Works' /\ ~ServerGone'
        BY <1>1, <3>1 DEF Works, ServerGone, Available
      <3>3. Held' /\ Settled'
        BY <2>1, <3>2 DEF AlreadyOK, SettledOK
      <3>4. Held /\ Written
        BY <1>1, <3>3 DEF Held, ArchiveKey, Archived, Settled, Written
      <3>5. ServerName = ClientName /\ ServerIndex = ClientIndex
        BY <1>1, <3>1 DEF ConfigInv, Met
      <3>6. ServerName = sconf.name /\ ServerIndex = alg
        BY <3>4 DEF ServerName, ServerIndex, Written, DataOK, SettingsOK
      <3>7. ASSUME client.cmd = "rename" PROVE client.pos = 9
        BY <1>1, <3>7, ClientLengths DEF ClientEnded
      <3>8. ASSUME client.cmd = "comp" PROVE client.pos = 7
        BY <1>1, <3>8, ClientLengths DEF ClientEnded
      <3>9. ClientName = cconf.name /\ ClientIndex = cconf.index
        BY <3>7, <3>8 DEF ClientName, ClientIndex, NameTaken, IndexTaken
      <3> QED
        BY <3>4, <3>5, <3>6, <3>9 DEF Held, ArchiveKey, Archived
    <2> QED
      BY <1>1, <2>1, <2>2 DEF Service!Refuse, Service!Key, Service!Current
  <1> QED
    BY <1>2, <1>3

LEMMA ServiceAssuresSent ==
  ASSUME SidesOK, Framed, DataOK, SendInv, HaveOK,
         SendSucceeds \/ (ClientRefused /\ note' = "present")
  PROVE  Service!AssureSent
  <1>1. UNCHANGED <<sfiles, sconf, alg, received>> /\ ClientRunning /\ ~ClientGone
    BY DEF SendSucceeds, ClientRefused, ClientDoes, ClientRunning, ClientGone, svars
  <1>2. client.cmd = "send" /\ note' \in {"sent", "present"} /\ Kept
    <2>1. CASE SendSucceeds
      <3>1. client.cmd = "send" /\ client.pos = 17 /\ note' = "sent"
        BY <2>1, AtOps DEF SendSucceeds, ClientDoes, ClientOpAt
      <3> QED
        BY <1>1, <3>1 DEF SendInv, Sending
    <2>2. CASE ~SendSucceeds
      <3>0. s2c # <<>> /\ Head(s2c).kind = "rsp" /\ Head(s2c).val = "cnt" /\ ClientOp.do = "get"
        BY <2>2 DEF ClientRefused
      <3>1. client.cmd = "send"
        BY <1>1, <3>0, AnswersAreSequence, GetMessages DEF HaveOK
      <3>2. client.pos \in 2 .. 17
        <4>1. client.pos \in 1 .. 17
          BY <1>1, <3>1, ClientLengths DEF ClientRunning, SidesOK, ClientOK
        <4>2. client.pos # 1
          BY <1>1, <3>0, <3>1, AtOps DEF ClientOpAt
        <4> QED
          BY <4>1, <4>2
      <3> QED
        BY <1>1, <2>2, <3>0, <3>1, <3>2 DEF SendInv, AnswerOK, Sending
    <2> QED
      BY <2>1, <2>2
  <1>3. creg.arg \in Files
    BY <1>1, <1>2 DEF DataOK, ArgOK, ClientRunning
  <1> QED
    BY <1>1, <1>2, <1>3 DEF Service!AssureSent, Kept

LEMMA ServiceAssuresReceived ==
  ASSUME SidesOK, FetchedOK, KeyOK, ArchiveReceived
  PROVE  Service!AssureReceived
  <1>1. /\ UNCHANGED <<sfiles, sconf, alg, received>> /\ note' = "received"
        /\ client.mode = "run" /\ client.cmd = "compress" /\ client.pos = 13
    BY AtOps DEF ArchiveReceived, ClientDoes, ClientOpAt, ClientRunning, svars
  <1>2. received[ArchiveKey] = Archived /\ cconf.name = sconf.name /\ cconf.index = alg
    BY <1>1 DEF FetchedOK, KeyOK, ClientGone
  <1> QED
    BY <1>1, <1>2 DEF Service!AssureReceived, Service!Key, Service!Current, ArchiveKey, Archived

LEMMA ServiceFetches ==
  ASSUME SidesOK, NoteOK, KeyOK, BodyOK, CreateArchive \/ VerifyArchive
  PROVE  Service!Fetch \/ Service!ReportFailure \/ UNCHANGED Service!avars
  <1>1. /\ UNCHANGED <<sfiles, sconf, alg>> /\ ClientRunning /\ client.mode = "run" /\ client.cmd = "compress"
        /\ client.pos \in {8, 10} /\ (VerifyArchive => client.pos = 10)
    BY AtOps DEF CreateArchive, VerifyArchive, ClientDoes, ClientOpAt, ClientRunning, svars
  <1>2. note = "none"
    <2>1. ~ClientEnded
      BY <1>1 DEF ClientRunning, ClientEnded, SidesOK, ClientOK
    <2> QED
      BY <1>1, <2>1 DEF NoteOK
  <1>3. ArchiveKey = <<sconf.name, alg>> /\ Archived = Archive(alg, sfiles)
    BY <1>1 DEF KeyOK, ArchiveKey, Archived
  <1>4. CASE CreateArchive
    <2>1. \/ received' = [received EXCEPT ![<<sconf.name, alg>>] = Absent] /\ (note' = note \/ note' = "failed")
          \/ received' = received /\ (note' = note \/ note' = "failed")
      BY <1>3, <1>4 DEF CreateArchive
    <2> QED
      BY <1>1, <1>2, <2>1 DEF Service!Fetch, Service!ReportFailure, Service!Key, Service!Current, Service!avars
  <1>5. CASE VerifyArchive
    <2>1. PICK written \in {creg.body, Torn} :
            received' = [received EXCEPT ![<<sconf.name, alg>>] = written] /\ (note' = note \/ note' = "failed")
      BY <1>3, <1>5 DEF VerifyArchive
    <2>2. written \in {Archive(alg, sfiles), Torn, Junk}
      BY <1>1, <1>3, <1>5, <2>1 DEF BodyOK, ClientGone
    <2> QED
      BY <1>1, <1>2, <2>1, <2>2 DEF Service!Fetch, Service!Key, Service!Current
  <1> QED
    BY <1>4, <1>5

LEMMA ServiceStepOfShell ==
  ASSUME SidesOK, Framed, DataOK, DataOK', ConfigInv, SendInv, ArchiveInv, RefusalInv, RefusalInv',
         ServiceInv, ServiceInv', ShellStep
  PROVE  Service!Next \/ UNCHANGED Service!avars
  <1>0. /\ CountsOK /\ AlreadyOK' /\ FetchedOK
        /\ NoteOK /\ HaveOK /\ NothingOK /\ ServedOK /\ KeyOK /\ BodyOK /\ SettledOK'
    BY DEF RefusalInv, ArchiveInv, ServiceInv
  <1>1. UNCHANGED <<sfiles, sconf, alg>>
    BY ShellLeavesServer DEF svars
  <1>2. CASE AtPrompt
    BY <1>1, <1>2 DEF AtPrompt, Starts, Service!Next, Service!Ask
  <1>3. CASE Refuses
    BY <1>0, <1>3, ServiceRefuses DEF Service!Next
  <1>4. CASE ClientRefused
    <2>1. note' \in {"present", "failed"} /\ received' = received
      BY <1>4 DEF ClientRefused
    <2>2. CASE note' = "present"
      BY <1>0, <1>4, <2>2, ServiceAssuresSent DEF Service!Next
    <2>3. CASE note' = "failed"
      BY <1>1, <2>1, <2>3 DEF Service!Next, Service!ReportFailure
    <2> QED
      BY <2>1, <2>2, <2>3
  <1>5. CASE ClientFails
    BY <1>1, <1>5 DEF ClientFails, Service!Next, Service!ReportFailure
  <1>6. CASE SendSucceeds
    <2>1. note' = "sent"
      BY <1>6 DEF SendSucceeds
    <2> QED
      BY <1>0, <1>6, <2>1, ServiceAssuresSent DEF Service!Next
  <1>7. CASE ArchiveReceived
    BY <1>0, <1>7, ServiceAssuresReceived DEF Service!Next
  <1>8. CASE CreateArchive \/ VerifyArchive
    BY <1>0, <1>8, ServiceFetches DEF Service!Next
  <1>9. CASE ~(AtPrompt \/ Refuses \/ ClientRefused \/ ClientFails \/ SendSucceeds \/ ArchiveReceived)
             /\ ~CreateArchive /\ ~VerifyArchive
    <2>1. received' = received
      BY <1>9, ShellArchives
    <2>2. CASE ClientReturns \/ ClientKilled \/ (\E f \in Files, v \in Versions : Edit(f, v))
      BY <1>1, <2>1, <2>2 DEF ClientReturns, ClientKilled, Edit, Service!avars
    <2>3. CASE ClientPuts \/ ClientGets \/ ClientMisreads \/ ClientAtEnd
      BY <1>1, <2>1, <2>3 DEF ClientPuts, ClientGets, ClientMisreads, ClientAtEnd, Service!avars
    <2>4. CASE EnableCompressor \/ ReadLocal \/ ClientFileFails \/ SetConfig
      BY <1>1, <2>1, <2>4 DEF EnableCompressor, ReadLocal, ClientFileFails, SetConfig, Service!avars
    <2> QED
      BY <1>9, <2>2, <2>3, <2>4 DEF ShellStep, ClientStep
  <1> QED
    BY <1>2, <1>3, <1>4, <1>5, <1>6, <1>7, <1>8, <1>9

LEMMA ServiceStores ==
  ASSUME SidesOK, DataOK, SettledOK, ~ServerGone, note' = note,
         UNCHANGED <<sconf, alg, received>>, CheckExisting \/ StoreFile
  PROVE  (\E f \in Files : Service!Store(f)) \/ UNCHANGED Service!avars
  <1>1. ServerRunning /\ server.cmd = "send" /\ server.pos \in {8, 12} /\ (StoreFile => server.pos = 12)
    BY AtOps DEF CheckExisting, StoreFile, ServerDoes, ServerOpAt
  <1>2. note \notin {"sent", "present", "received", "already"}
    BY <1>1 DEF SettledOK, Settled, Written
  <1>3. sfiles' = sfiles \/ \E v \in {<<w>> : w \in Versions} \cup {Torn, Junk} \cup {Absent} : sfiles' = WithStored(v)
    <2>1. CASE CheckExisting
      BY <2>1 DEF CheckExisting
    <2>2. CASE StoreFile
      <3>1. PICK v \in {sreg.body, Torn} : sfiles' = WithStored(v)
        BY <2>2 DEF StoreFile
      <3>2. sreg.body \in FileContents
        BY <1>1, <2>2 DEF DataOK, BytesOK
      <3> QED
        BY <3>1, <3>2 DEF FileContents
    <2> QED
      BY <2>1, <2>2
  <1>4. CASE sfiles' = sfiles
    BY <1>4 DEF Service!avars
  <1>5. CASE sfiles' # sfiles
    <2>1. PICK v \in {<<w>> : w \in Versions} \cup {Torn, Junk} \cup {Absent} : sfiles' = WithStored(v)
      BY <1>3, <1>5
    <2>2. sreg.arg \in Files /\ sfiles' = [sfiles EXCEPT ![sreg.arg] = v]
      BY <1>5, <2>1 DEF WithStored
    <2>3. Service!Store(sreg.arg)
      BY <1>2, <2>2 DEF Service!Store, Service!Unassured, Service!Assurances
    <2> QED
      BY <2>2, <2>3
  <1> QED
    BY <1>4, <1>5

LEMMA ServiceConfigures ==
  ASSUME SidesOK, DataOK, DataOK', SettledOK, ~ServerGone, UNCHANGED <<note, received>>, SetServerName \/ SetServerIndex
  PROVE  Service!Configure
  <1>1. \/ SetServerName /\ ServerRunning /\ server.cmd = "rename" /\ server.pos = 6
        \/ SetServerIndex /\ ServerRunning /\ server.cmd = "comp" /\ server.pos = 4
    BY AtOps DEF SetServerName, SetServerIndex, ServerDoes, ServerOpAt
  <1>2. note \notin {"sent", "present", "received", "already"}
    BY <1>1 DEF SettledOK, Settled, Written
  <1>3. sconf'.name \in ArchiveNames /\ alg' \in Compressors
    BY DEF DataOK, TypeOK
  <1>4. sfiles' = sfiles /\ (alg' = alg \/ sconf'.name = sconf.name)
    BY DEF SetServerName, SetServerIndex, DataOK, TypeOK
  <1> QED
    BY <1>2, <1>3, <1>4 DEF Service!Configure, Service!Unassured, Service!Assurances

LEMMA ServiceStepOfWorker ==
  ASSUME SidesOK, DataOK, DataOK', SettledOK, WorkerStep
  PROVE  Service!Next \/ UNCHANGED Service!avars
  <1>1. note' = note /\ received' = received /\ ~ServerGone
    BY WorkerSteps, WorkerLeavesClient DEF cvars
  <1>2. CASE SetServerName \/ SetServerIndex
    BY <1>1, <1>2, ServiceConfigures DEF Service!Next
  <1>3. CASE ~SetServerName /\ ~SetServerIndex
    <2>1. sconf' = sconf /\ alg' = alg
      BY <1>3, WorkerSettingsKept
    <2>2. CASE CheckExisting \/ StoreFile
      BY <1>1, <2>1, <2>2, ServiceStores DEF Service!Next
    <2>3. CASE ~CheckExisting /\ ~StoreFile
      BY <1>1, <2>1, <2>3, WorkerFiles DEF Service!avars
    <2> QED
      BY <2>2, <2>3
  <1> QED
    BY <1>2, <1>3

(* Whatever is interleaved and whatever fails, what the user sees of a      *)
(* session is RemoteArchive: an archive is that of the stored files and in  *)
(* the folder under the configured name when the user is told so, a file is *)
(* stored when the user is told so, and until the next command is entered   *)
(* nothing of that changes (Shell, commandHandler).                         *)
THEOREM SessionServes == Spec => ImplementsService
  <1> DEFINE IInv == FrameInv /\ DataOK /\ ConfigInv /\ SendInv /\ ArchiveInv /\ RefusalInv /\ ServiceInv
  <1>1. Init => Service!Init
    BY SessionAssumption DEF Init, Service!Init, ArchiveKeys
  <1>2. IInv /\ IInv' /\ [Next]_vars => [Service!Next]_(Service!avars)
    <2> SUFFICES ASSUME IInv, IInv', [Next]_vars PROVE Service!Next \/ UNCHANGED Service!avars
      OBVIOUS
    <2>1. SidesOK /\ (InFrame => Framed) /\ SettledOK
      BY DEF FrameInv, StreamKept, ServiceInv
    <2>2. CASE ShellStep
      BY <2>1, <2>2, ShellSteps, ServiceStepOfShell
    <2>3. CASE WorkerStep
      BY <2>1, <2>3, ServiceStepOfWorker
    <2>4. CASE UNCHANGED vars
      BY <2>4 DEF vars, channels, cvars, svars, Service!avars
    <2> QED
      BY <2>2, <2>3, <2>4 DEF Next, ShellStep, WorkerStep
  <1>3. Spec => []IInv
    BY ServiceInvariant
  <1> HIDE DEF IInv
  <1> QED
    BY <1>1, <1>2, <1>3, PTL DEF Spec, ImplementsService, Service!Spec

-----------------------------------------------------------------------------
(* An archive is never one of nothing.                                      *)

(* A version of a file is not what a failed transfer leaves behind.         *)
LEMMA VersionsAreWhole ==
  /\ \A v \in Versions : <<v>> # Absent /\ <<v>> \notin {Torn, Junk}
  /\ Torn # Absent
  <1>1. \A v, w : <<v>> = <<w>> => v = w
    <2>1. \A v : <<v>>[1] = v
      OBVIOUS
    <2> QED
      BY <2>1
  <1>2. \A v \in Versions : v \notin {"torn", "junk"}
    BY SessionAssumption
  <1>3. \A v : <<v>> # <<>>
    OBVIOUS
  <1> QED
    BY <1>1, <1>2, <1>3 DEF Absent, Torn, Junk

(* A file that is stored stays so while nobody writes the files.            *)
LEMMA FilesHeld ==
  ASSUME sfiles' = sfiles, faulted \subseteq faulted'
  PROVE  /\ \A f : Holds(f) => Holds(f)'
         /\ HasFile => HasFile'
  BY DEF Holds, HasFile, Intact

(* A file that is received replaces none, unless something failed, and is   *)
(* the client's.                                                            *)
LEMMA WorkerDeletes ==
  ASSUME SidesOK, DataOK, CheckExisting, ~ClientGone, server'.cmd = "send", server'.pos = 9, Intact'
  PROVE  Stored' = Absent
  <1>1. server.cmd = "send" /\ server.pos = 8 /\ sreg' = sreg /\ DOMAIN sfiles = Files
    BY AtOps DEF CheckExisting, ServerDoes, ServerOpAt, DataOK, TypeOK
  <1>2. ~RepliesAndReturns("cnt")
    <2>1. Len(ServerScript["send"]) = 14
      BY ServerLengths
    <2> QED
      BY <1>1, <2>1, ServerForms DEF RepliesAndReturns
  <1>3. ~(Stored # Absent /\ Fault("io"))
    BY DEF Fault, Intact
  <1>4. sfiles' = WithStored(Absent)
    BY <1>2, <1>3 DEF CheckExisting
  <1> QED
    BY <1>1, <1>4 DEF Stored, WithStored

LEMMA WorkerUpload ==
  ASSUME SidesOK, Framed, DataOK, UploadOK, WorkerStep
  PROVE  UploadOK'
  <1> SUFFICES ASSUME ~ClientGone', server'.cmd = "send"
               PROVE  /\ server'.pos \in 9 .. 12 /\ Intact' => Stored' = Absent
                      /\ server'.pos = 12 => sreg'.body \in {<<v>> : v \in Versions}
    BY DEF UploadOK
  <1>1. ~ClientGone /\ client' = client /\ creg' = creg /\ ~ServerGone /\ faulted \subseteq faulted'
    BY WorkerSteps DEF ClientGone
  <1>2. ~ServerReturns
    BY WorkerReturnPlace
  <1>3. CASE Dispatch
    BY <1>3, WorkerReturnPlace
  <1>4. CASE ~Dispatch
    <2>1. server.cmd = "send" /\ Len(ServerScript[server.cmd]) = 14 /\ server.pos \in 1 .. 15
      <3>1. server.cmd = "send"
        BY <1>2, <1>4, WorkerRegs
      <3> QED
        BY <3>1, ServerLengths DEF SidesOK, ServerOK
    <2>2. /\ server.pos \in 9 .. 12 /\ Intact => Stored = Absent
          /\ server.pos = 12 => sreg.body \in {<<v>> : v \in Versions}
      BY <1>1, <2>1 DEF UploadOK
    <2>3. Intact' => Intact
      BY <1>1 DEF Intact
    <2>4. CheckExisting => server.pos = 8
      BY AtOps DEF CheckExisting, ServerDoes, ServerOpAt
    <2>5. StoreFile => server.pos = 12 /\ server'.pos # 12
      <3> SUFFICES ASSUME StoreFile PROVE server.pos = 12 /\ server'.pos # 12
        OBVIOUS
      <3>1. server.pos = 12
        BY AtOps DEF StoreFile, ServerDoes, ServerOpAt
      <3>2. server' = Step(server) \/ server' = Finish(server, ServerScript)
        BY <1>1 DEF StoreFile, RepliesAndReturns
      <3> QED
        BY <2>1, <3>1, <3>2, ServerForms
    <2>6. CASE server'.pos = server.pos /\ sreg' = sreg
      <3>1. server.pos \in 9 .. 12 => sfiles' = sfiles
        BY <2>4, <2>5, <2>6, WorkerFiles
      <3> QED
        BY <2>2, <2>3, <2>6, <3>1 DEF Stored
    <2>7. CASE server'.pos = Len(ServerScript[server.cmd]) + 1
      BY <2>1, <2>7
    <2>8. CASE ServerAdvances
      <3>1. ServerRunning /\ server'.pos = server.pos + 1 /\ server.pos \in 1 .. 14 /\ DOMAIN sreg = DOMAIN Blank
        BY <2>1, <2>8, AtOps DEF ServerAdvances, SidesOK, ServerOK
      <3>2. CASE server.pos = 8 /\ Intact'
        <4>1. ServerOp.do = "do" /\ ServerOp.x = "existing"
          BY <2>1, <3>2 DEF ServerOp, ServerScript, HandleSend, Do
        <4>2. CASE CheckExisting
          BY <1>1, <2>1, <3>1, <3>2, <4>2, WorkerDeletes
        <4>3. CheckExisting
          BY <1>2, <1>4, <3>1, <4>1, ServerForms DEF WorkerStep, ServerStep, ServerPuts, ServerGets, ServerRefused,
             ServerMisreads, ServerAtEnd, ServerFails, CreateFile, StoreFile, MakeArchive, ReadArchive, OpenFails,
             ServerFileFails, DeleteArchive, SetServerName, SetServerIndex, ServerDoes, ServerKilled
        <4> QED
          BY <3>1, <3>2, <4>2, <4>3
      <3>3. CASE server.pos \in 9 .. 11
        <4>1. sfiles' = sfiles /\ sreg'.arg = sreg.arg
          BY <2>1, <2>4, <2>5, <2>8, <3>3, WorkerFiles, WorkerKeeps
        <4>2. Intact' => Stored' = Absent
          BY <2>2, <2>3, <3>3, <4>1 DEF Stored
        <4>3. ASSUME server.pos = 11 PROVE sreg'.body \in {<<v>> : v \in Versions}
          <5>1. ServerOp.do = "get" /\ ServerOp.x = "body"
            BY <2>1, <4>3 DEF ServerOp, ServerScript, HandleSend, Get
          <5>2. ServerGets /\ sreg' = Store(sreg, "body", Head(c2s).val)
            BY <1>1, <2>8, <5>1 DEF ServerAdvances, ReadArchive, ServerDoes
          <5>3. client.cmd = "send" /\ client.pos = 15 /\ Head(c2s).val = creg.body
            BY <2>1, <3>1, <4>3, <5>2, WorkerHearsFile DEF ServerGets
          <5>4. creg.body \in {<<v>> : v \in Versions}
            BY <5>3 DEF DataOK, BytesOK
          <5> QED
            BY <3>1, <5>2, <5>3, <5>4, StoreOther
        <4> QED
          BY <3>1, <3>3, <4>2, <4>3
      <3> QED
        BY <3>1, <3>2, <3>3, <2>5, <2>8, <2>1, WorkerStores
    <2> QED
      BY <1>2, <1>4, <2>6, <2>7, <2>8, WorkerRegs
  <1> QED
    BY <1>3, <1>4

(* What is written of a file is kept even if it is not what was announced.  *)
LEMMA WorkerHolds ==
  ASSUME SidesOK, Framed, DataOK, ToldOK, UploadOK, WorkerStep, StoreFile, ~ClientGone
  PROVE  client.cmd = "send" /\ Holds(creg.arg)'
  <1>1. ServerRunning /\ server.cmd = "send" /\ server.pos = 12
    BY AtOps DEF StoreFile, ServerDoes, ServerOpAt
  <1>2. /\ client.cmd = "send" /\ Stored = sfiles[creg.arg] /\ \A v : WithStored(v)[creg.arg] = v
    BY <1>1, WorkerKnows
  <1>3. creg' = creg /\ faulted \subseteq faulted'
    BY WorkerSteps
  <1>4. PICK written \in {sreg.body, Torn} :
          /\ CASE Stored # Absent     -> written = Torn /\ UNCHANGED faulted
               [] written = sreg.body -> UNCHANGED faulted
               [] OTHER               -> Fault("disk")
          /\ sfiles' = WithStored(written)
    BY DEF StoreFile
  <1>5. sreg.body \in {<<v>> : v \in Versions}
    BY <1>1 DEF UploadOK
  <1>6. sfiles'[creg.arg] = written
    BY <1>2, <1>4
  <1>7. Intact' => written = sreg.body
    <2> SUFFICES ASSUME Intact' PROVE written = sreg.body
      OBVIOUS
    <2>1. Stored = Absent
      BY <1>1, <1>3 DEF UploadOK, Intact
    <2>2. ~Fault("disk")
      BY DEF Fault, Intact
    <2> QED
      BY <1>4, <2>1, <2>2
  <1> QED
    BY <1>2, <1>3, <1>5, <1>6, <1>7, VersionsAreWhole DEF Holds

(* The worker starts to compress when the client has asked it to.           *)
LEMMA WorkerIsAsked ==
  ASSUME SidesOK, Framed, ~ClientGone, ServerRunning, server.cmd = "compress", server.pos = 1
  PROVE  client.cmd = "compress"
  <1>1. ~ServerGone
    BY DEF ServerRunning, ServerGone
  <1>2. ~Overlapping
    <2>1. SDone = 2 /\ Length("compress") = 10 /\ Dialogue["compress"][3].who = "server"
      BY DEF SDone, ServerClock, Length, Dialogue, SOk, Sv
    <2> QED
      BY <2>1 DEF Overlapping, PutBy
  <1>3. ~ServerEnded("compress") /\ ~ServerEnded("send")
    BY ServerLengths DEF ServerEnded
  <1>4. ~ClientRefuses /\ ~ArchiveUnread /\ ~ArchiveUnwanted /\ ~FileUnwanted /\ ~Stale /\ ~Silent
    BY <1>1, <1>3 DEF ClientRefuses, ArchiveUnread, ArchiveUnwanted, FileUnwanted, Stale, Silent
  <1>5. ~ServerRefuses \/ client.cmd = "compress"
    BY <1>3 DEF ServerRefuses
  <1> QED
    BY <1>2, <1>4, <1>5 DEF Framed, Talking

(* Which steps of the worker answer with an error.                          *)
LEMMA WorkerErrs ==
  ASSUME SidesOK, Framed, WorkerStep, ~ClientGone,
         NEW m \in Messages(s2c'), m.kind = "rsp", m.val = "err"
  PROVE  m \in Messages(s2c) \/ StoreFile \/ (CreateFile /\ server' # Step(server)) \/ MakeArchive
  <1>1. PICK S : s2c \in Seq(S)
    BY AnswersAreSequence
  <1>2. CASE ServerPuts
    <2>1. s2c' = Append(s2c, [kind |-> ServerOp.kind, val |-> Value(sreg, ServerOp.x)])
      BY <1>2 DEF ServerPuts
    <2>2. Messages(s2c') = Messages(s2c) \cup {[kind |-> ServerOp.kind, val |-> Value(sreg, ServerOp.x)]}
      BY <1>1, <2>1, PutMessages
    <2>3. ASSUME ServerOp.kind = "rsp" PROVE Value(sreg, ServerOp.x) # "err"
      <3>1. ServerOp.x \in {"ack", "bye"}
        BY <1>2, <2>3, AtOps DEF ServerOpAt, ServerPuts
      <3> QED
        BY <3>1 DEF Value, SidesOK, ServerOK, Blank
    <2> QED
      BY <2>2, <2>3
  <1>3. CASE CheckExisting
    <2>1. s2c' = s2c \/ s2c' = Append(s2c, [kind |-> "rsp", val |-> "cnt"])
      BY <1>3 DEF CheckExisting, RepliesAndReturns
    <2>2. CASE s2c' = Append(s2c, [kind |-> "rsp", val |-> "cnt"])
      <3>1. Messages(s2c') = Messages(s2c) \cup {[kind |-> "rsp", val |-> "cnt"]}
        BY <1>1, <2>2, PutMessages
      <3> QED
        BY <3>1
    <2> QED
      BY <2>1, <2>2
  <1>4. CASE ServerReturns \/ ServerGets \/ ServerRefused \/ ServerMisreads \/ ServerAtEnd \/ ServerFails
    BY <1>4 DEF ServerReturns, ServerGets, ServerRefused, ServerMisreads, ServerAtEnd, ServerFails, channels
  <1>5. CASE Dispatch \/ SetServerName \/ SetServerIndex \/ ReadArchive \/ OpenFails \/ ServerFileFails
             \/ DeleteArchive \/ ServerKilled
    BY <1>5 DEF Dispatch, SetServerName, SetServerIndex, ReadArchive, OpenFails, ServerFileFails, DeleteArchive,
       ServerKilled, channels
  <1>6. CASE CreateFile /\ server' = Step(server)
    <2>1. ~RepliesAndReturns("err")
      <3>1. ServerRunning /\ server.cmd = "send" /\ server.pos = 10 /\ Len(ServerScript["send"]) = 14
        BY <1>6, AtOps, ServerLengths DEF CreateFile, ServerDoes, ServerOpAt
      <3> QED
        BY <1>6, <3>1, ServerForms DEF RepliesAndReturns
    <2> QED
      BY <1>6, <2>1 DEF CreateFile
  <1> QED
    BY <1>2, <1>3, <1>4, <1>5, <1>6 DEF WorkerStep, ServerStep

LEMMA WorkerErrors ==
  ASSUME SidesOK, Framed, DataOK, ToldOK, UploadOK, ErrorOK, WorkerStep
  PROVE  ErrorOK'
  <1>1. UNCHANGED cvars /\ faulted \subseteq faulted' /\ ~ServerGone
    BY WorkerSteps, WorkerLeavesClient
  <1> SUFFICES ASSUME ~ClientGone, ~ServerGone', client.cmd = "send", ~ClientEnded,
                      NEW m \in Messages(s2c'), m.kind = "rsp", m.val = "err"
               PROVE  Holds(creg.arg)' \/ FileUnwanted'
    BY <1>1 DEF ErrorOK, cvars, ClientGone, ClientEnded
  <1>2. creg' = creg
    BY <1>1 DEF cvars
  <1>3. CASE StoreFile
    BY <1>3, WorkerHolds
  <1>4. CASE CreateFile /\ server' # Step(server)
    <2>1. RepliesAndReturns("err")
      BY <1>4 DEF CreateFile
    <2>2. server'.pos = 15
      <3>1. server.cmd = "send" /\ Len(ServerScript["send"]) = 14
        BY <1>4, WorkerCreates, ServerLengths
      <3> QED
        BY <2>1, <3>1, ServerForms DEF RepliesAndReturns
    <2> QED
      BY <1>4, <2>2, WorkerCreates
  <1>5. ~MakeArchive
    <2>1. MakeArchive => ServerRunning /\ server.cmd = "compress" /\ server.pos = 1
      BY AtOps DEF MakeArchive, ServerDoes, ServerOpAt
    <2> QED
      BY <2>1, WorkerIsAsked
  <1>6. CASE m \in Messages(s2c) /\ ~StoreFile
    <2>1. Holds(creg.arg) \/ FileUnwanted
      BY <1>1, <1>6 DEF ErrorOK
    <2>2. FileUnwanted => FileUnwanted'
      BY <1>1, WorkerFileUnwanted
    <2>3. sfiles' = sfiles
      <3>1. ~CheckExisting
        <4> SUFFICES ASSUME CheckExisting PROVE FALSE
          OBVIOUS
        <4>1. ServerRunning /\ server.cmd = "send" /\ server.pos = 8
          BY AtOps DEF CheckExisting, ServerDoes, ServerOpAt
        <4>2. s2c = <<>>
          BY <4>1, WorkerAtFile
        <4> QED
          BY <1>6, <4>2, NoMessages
      <3> QED
        BY <1>6, <3>1, WorkerFiles
    <2> QED
      BY <1>1, <1>2, <2>1, <2>2, <2>3, FilesHeld
  <1> QED
    BY <1>3, <1>4, <1>5, <1>6, WorkerErrs

LEMMA WorkerStored ==
  ASSUME SidesOK, Framed, StoredOK, WorkerStep
  PROVE  StoredOK'
  <1>1. UNCHANGED cvars /\ faulted \subseteq faulted' /\ ~ServerGone
    BY WorkerSteps, WorkerLeavesClient
  <1> SUFFICES ASSUME ~ClientGone, ~ServerGone', IF client.cmd = "send" THEN ClientEnded ELSE cconf.sent > 0
               PROVE  HasFile' \/ FileUnwanted'
    BY <1>1 DEF StoredOK, cvars, ClientGone, ClientEnded
  <1>2. HasFile \/ FileUnwanted
    BY <1>1 DEF StoredOK
  <1>3. FileUnwanted => FileUnwanted'
    BY WorkerFileUnwanted
  <1>4. ~(ServerRunning /\ server.cmd = "send" /\ server.pos \in {8, 12})
    <2> SUFFICES ASSUME ServerRunning, server.cmd = "send", server.pos \in {8, 12} PROVE FALSE
      OBVIOUS
    <2>1. client.cmd = "send" /\ client.pos \in {12, 15}
      BY WorkerAtFile
    <2>2. Len(ClientScript["send"]) = 17
      BY ClientLengths
    <2> QED
      BY <2>1, <2>2 DEF ClientEnded
  <1>5. sfiles' = sfiles
    BY <1>4, AtOps, WorkerFiles DEF CheckExisting, StoreFile, ServerDoes, ServerOpAt
  <1> QED
    BY <1>1, <1>2, <1>3, <1>5, FilesHeld

LEMMA WorkerMadeOf ==
  ASSUME SidesOK, Framed, SettledOK, StoredOK, AskedOK, MadeOfOK, WorkerStep
  PROVE  MadeOfOK'
  <1>1. UNCHANGED cvars /\ faulted \subseteq faulted' /\ ~ServerGone
    BY WorkerSteps, WorkerLeavesClient
  <1>2. ASSUME ~ClientGone, server'.cmd = "compress", server'.pos \in 2 .. 13 PROVE HasFile'
    <2>1. ~ServerReturns /\ ~Dispatch
      BY <1>2, WorkerReturnPlace
    <2>2. server.cmd = "compress" /\ Len(ServerScript[server.cmd]) = 13
      BY <1>2, <2>1, WorkerRegs, ServerLengths
    <2>3. CASE server.pos \in 2 .. 13
      <3>1. HasFile /\ sfiles' = sfiles
        BY <1>2, <2>2, <2>3, WorkerFilesKept DEF MadeOfOK
      <3> QED
        BY <1>1, <3>1, FilesHeld
    <2>4. CASE server.pos \notin 2 .. 13
      <3>1. ServerRunning /\ server.pos = 1
        <4>1. server.pos # server'.pos
          BY <1>2, <2>4
        <4>2. server'.pos # Len(ServerScript[server.cmd]) + 1
          BY <1>2, <2>2
        <4>3. ServerAdvances
          BY <2>1, <4>1, <4>2, WorkerRegs
        <4>4. server.pos \in Nat
          BY DEF SidesOK, ServerOK
        <4> QED
          BY <1>2, <2>2, <2>4, <4>3, <4>4, AtOps DEF ServerAdvances
      <3>2. client.cmd = "compress"
        BY <1>2, <2>2, <3>1, WorkerIsAsked
      <3>3. HasFile \/ FileUnwanted
        BY <1>1, <1>2, <3>2 DEF AskedOK, StoredOK
      <3>4. ~FileUnwanted
        BY <2>2 DEF FileUnwanted, ServerEnded
      <3>5. sfiles' = sfiles
        BY <2>2, WorkerFilesKept
      <3> QED
        BY <1>1, <3>3, <3>4, <3>5, FilesHeld
    <2> QED
      BY <2>3, <2>4
  <1>3. ASSUME ~ClientGone, client.cmd = "compress"
        PROVE  /\ client.pos \in 7 .. 10  => creg.hash = Junk \/ HasFile'
               /\ client.pos \in 11 .. 13 => HasFile'
    <2>1. sfiles' = sfiles
      BY <1>3, WorkerLeavesFiles
    <2>2. HasFile => HasFile'
      BY <1>1, <2>1, FilesHeld
    <2> QED
      BY <1>3, <2>2 DEF MadeOfOK
  <1>4. ASSUME note = "received" PROVE HasFile'
    <2>1. HasFile /\ Settled
      BY <1>1, <1>4 DEF MadeOfOK, SettledOK
    <2>2. sfiles' = sfiles
      BY <2>1, AtOps, WorkerFiles DEF Settled, Written, CheckExisting, StoreFile, ServerDoes, ServerOpAt
    <2> QED
      BY <1>1, <2>1, <2>2, FilesHeld
  <1> QED
    BY <1>1, <1>2, <1>3, <1>4 DEF MadeOfOK, cvars, ClientGone

LEMMA ShellUpload ==
  ASSUME UploadOK, ShellStep
  PROVE  UploadOK'
  <1>1. UNCHANGED svars /\ ~ClientGone /\ faulted \subseteq faulted'
    BY ShellSteps, ShellLeavesServer
  <1> QED
    BY <1>1 DEF UploadOK, svars, Stored, Intact

(* What the client still has to read of an error is in the channel.         *)
LEMMA ShellErrors ==
  ASSUME SidesOK, Framed, ErrorOK, ShellStep
  PROVE  ErrorOK'
  <1>1. UNCHANGED svars /\ ~ClientGone /\ faulted \subseteq faulted' /\ (ServerGone' <=> ServerGone)
    BY ShellSteps, ShellLeavesServer DEF svars, ServerGone
  <1> SUFFICES ASSUME ~ClientGone', ~ServerGone, client'.cmd = "send", ~ClientEnded',
                      NEW m \in Messages(s2c'), m.kind = "rsp", m.val = "err"
               PROVE  Holds(creg.arg)' \/ FileUnwanted'
    BY <1>1 DEF ErrorOK
  <1>2. m \in Messages(s2c)
    <2>1. s2c # <<>> => Messages(Tail(s2c)) \subseteq Messages(s2c)
      BY <1>1, AnswersAreSequence, GetMessages
    <2>2. s2c' = s2c \/ (s2c # <<>> /\ s2c' = Tail(s2c))
      BY ShellChannel DEF ClientGets, ClientRefused
    <2> QED
      BY <2>1, <2>2
  <1>3. ~ClientEnded
    <2> SUFFICES ASSUME ClientEnded PROVE FALSE
      OBVIOUS
    <2>1. s2c = <<>> \/ (s2c = <<Head(s2c)>> /\ Head(s2c).kind # "rsp")
      BY <1>1, EndedHearsNothing DEF Only
    <2>2. m = Head(s2c) /\ s2c # <<>>
      BY <1>2, <2>1, NoMessages, OneMessage
    <2> QED
      BY <2>1, <2>2
  <1>4. ~AtPrompt /\ ~ClientReturns
    BY <1>3, ShellReturnPlace DEF AtPrompt, SidesOK, ClientOK, ClientEnded
  <1>5. client.cmd = "send" /\ creg'.arg = creg.arg
    BY <1>4, ShellRegs, ShellKeeps
  <1>6. Holds(creg.arg) \/ FileUnwanted
    BY <1>1, <1>2, <1>3, <1>5 DEF ErrorOK
  <1> QED
    BY <1>1, <1>5, <1>6, ShellFileUnwanted, FilesHeld DEF svars

LEMMA ShellAsks ==
  ASSUME SidesOK, DataOK, AskedOK, ShellStep
  PROVE  AskedOK'
  <1> SUFFICES ASSUME client'.cmd \in {"check", "compress"} PROVE cconf'.sent > 0
    BY DEF AskedOK
  <1>1. CASE AtPrompt
    <2>1. ~NothingSent /\ cconf' = cconf
      BY <1>1, ClientForms DEF AtPrompt, Starts
    <2> QED
      BY <2>1 DEF NothingSent, DataOK, TypeOK
  <1>2. CASE ~AtPrompt
    <2>1. client.cmd \in {"check", "compress"}
      BY <1>2, ShellRegs, ShellReturnPlace
    <2>2. cconf'.sent = cconf.sent
      BY <2>1, ShellCounters
    <2> QED
      BY <2>1, <2>2 DEF AskedOK
  <1> QED
    BY <1>1, <1>2

(* However a send ends, a file is stored or nothing is compressed any more. *)
LEMMA SendEnds ==
  ASSUME SidesOK, Framed, DataOK, SendInv, ErrorOK, ShellStep, ~ClientGone', ~ServerGone,
         client.cmd = "send", ~ClientEnded, client'.pos = 18
  PROVE  HasFile \/ FileUnwanted
  <1>1. ~ClientGone /\ creg.arg \in Files /\ client.pos \in 1 .. 17
    <2>1. Len(ClientScript["send"]) = 17
      BY ClientLengths
    <2>2. client.pos \in 1 .. 17
      BY <2>1 DEF SidesOK, ClientOK, ClientEnded
    <2>3. creg.arg \in Files
      BY <2>1, <2>2 DEF DataOK, ArgOK
    <2> QED
      BY <2>2, <2>3, ShellSteps
  <1>2. Kept => HasFile
    BY <1>1, VersionsAreWhole DEF Kept, HasFile, Holds
  <1>3. ~AtPrompt /\ ~ClientReturns
    BY ShellReturnPlace DEF AtPrompt, SidesOK, ClientOK, ClientEnded
  <1>4. CASE client.pos = 17
    BY <1>1, <1>2, <1>4 DEF SendInv, Sending
  <1>5. CASE ClientRefused
    <2>1. /\ ClientRunning /\ ClientOp.do = "get" /\ s2c # <<>> /\ Head(s2c).kind = "rsp"
          /\ Head(s2c).val \in {"err", "cnt"}
      BY <1>5 DEF ClientRefused, Refusal
    <2>2. CASE Head(s2c).val = "cnt"
      <3>1. client.pos # 1
        <4>1. ClientScript["send"][1].do = "put"
          BY DEF ClientScript, DoSend, Put
        <4> QED
          BY <2>1, <4>1 DEF ClientOp
      <3> QED
        BY <1>1, <1>2, <2>1, <2>2, <3>1 DEF SendInv, AnswerOK, Sending
    <2>3. CASE Head(s2c).val = "err"
      <3>1. Head(s2c) \in Messages(s2c)
        BY <1>1, <2>1, AnswersAreSequence, GetMessages
      <3>2. Holds(creg.arg) \/ FileUnwanted
        BY <1>1, <2>1, <2>3, <3>1 DEF ErrorOK
      <3> QED
        BY <1>1, <3>2 DEF HasFile
    <2> QED
      BY <2>1, <2>2, <2>3
  <1>6. CASE client.pos # 17 /\ ~ClientRefused
    <2>1. client' # Step(client) /\ client'.pos # client.pos
      BY <1>1, <1>6, ClientForms
    <2>2. ~CreateArchive /\ ~VerifyArchive
      BY AtOps DEF CreateArchive, VerifyArchive, ClientDoes, ClientOpAt
    <2>3. ~ClientPuts /\ ~ClientGets /\ ~ClientMisreads /\ ~ClientAtEnd /\ ~ClientFails
      BY <2>1, ClientForms DEF ClientPuts, ClientGets, ClientMisreads, ClientAtEnd, ClientFails
    <2>4. /\ ~EnableCompressor /\ ~ReadLocal /\ ~ClientFileFails /\ ~SendSucceeds /\ ~SetConfig
          /\ ~ArchiveReceived
      BY <2>1, ClientForms DEF EnableCompressor, ReadLocal, ClientFileFails, SendSucceeds, SetConfig,
         ArchiveReceived
    <2>5. ~Refuses /\ ~ClientKilled /\ ~\E f \in Files, v \in Versions : Edit(f, v)
      BY <2>1, ClientForms DEF Refuses, ClientKilled, Edit
    <2> QED
      BY <1>3, <1>6, <2>2, <2>3, <2>4, <2>5 DEF ShellStep, ClientStep
  <1> QED
    BY <1>4, <1>5, <1>6

LEMMA ShellStored ==
  ASSUME SidesOK, Framed, DataOK, SendInv, ErrorOK, StoredOK, ShellStep
  PROVE  StoredOK'
  <1>1. UNCHANGED svars /\ ~ClientGone /\ faulted \subseteq faulted' /\ (ServerGone' <=> ServerGone)
    BY ShellSteps, ShellLeavesServer DEF svars, ServerGone
  <1> SUFFICES ASSUME ~ClientGone', ~ServerGone,
                      IF client'.cmd = "send" THEN ClientEnded' ELSE cconf'.sent > 0
               PROVE  HasFile' \/ FileUnwanted'
    BY <1>1 DEF StoredOK
  <1>2. HasFile \/ FileUnwanted
    <2>1. CASE AtPrompt
      <3>1. ClientEnded /\ cconf' = cconf
        BY <2>1 DEF AtPrompt, Starts, SidesOK, ClientOK, ClientEnded
      <3>2. client'.cmd # "send"
        <4> SUFFICES ASSUME client'.cmd = "send" PROVE FALSE
          OBVIOUS
        <4>1. client'.pos = 1
          BY <2>1, ClientForms DEF AtPrompt, Starts
        <4> QED
          BY <4>1, ClientLengths DEF ClientEnded
      <3> QED
        BY <1>1, <3>1, <3>2 DEF StoredOK
    <2>2. CASE ClientReturns
      <3>1. ClientEnded
        BY <2>2, ShellReturnPlace DEF ClientEnded
      <3>2. CASE client.cmd = "send"
        BY <1>1, <3>1, <3>2 DEF StoredOK
      <3>3. CASE client.cmd # "send"
        <4>1. client'.cmd # "send" /\ cconf'.sent = cconf.sent
          BY <2>2, <3>3, ShellReturnPlace, ShellCounters
        <4> QED
          BY <1>1, <3>3, <4>1 DEF StoredOK
      <3> QED
        BY <3>2, <3>3
    <2>3. CASE ~AtPrompt /\ ~ClientReturns
      <3>1. client'.cmd = client.cmd /\ cconf'.sent = cconf.sent
        BY <2>3, ShellRegs, ShellCounters
      <3>2. CASE client.cmd = "send" /\ ~ClientEnded
        <4>1. client'.pos = 18
          BY <3>1, <3>2, ClientLengths DEF ClientEnded
        <4> QED
          BY <3>2, <4>1, SendEnds
      <3>3. CASE client.cmd # "send" \/ ClientEnded
        BY <1>1, <3>1, <3>3 DEF StoredOK
      <3> QED
        BY <3>2, <3>3
    <2> QED
      BY <2>1, <2>2, <2>3
  <1> QED
    BY <1>1, <1>2, ShellFileUnwanted, FilesHeld DEF svars

(* An archive that is verified has an MD5 the server announced.             *)
LEMMA ShellAnnounced ==
  ASSUME SidesOK, Framed, MadeOfOK, ShellStep, ~ClientGone', client'.cmd = "compress"
  PROVE  /\ client'.pos \in 7 .. 10  => creg'.hash = Junk \/ HasFile
         /\ client'.pos \in 11 .. 13 => HasFile
  <1>1. ~ClientGone
    BY ShellSteps
  <1>2. CASE AtPrompt
    BY <1>2, ClientForms DEF AtPrompt, Starts
  <1>3. CASE ClientReturns
    <2>1. CASE client.cmd = "check"
      BY <1>3, <2>1, ShellReturnPlace
    <2>2. CASE client.cmd # "check"
      <3>1. client.cmd = "compress" /\ client'.pos = Len(ClientScript[client.cmd]) + 1
        BY <1>3, <2>2, ShellReturnPlace
      <3>2. Len(ClientScript[client.cmd]) = 13
        BY <3>1, ClientLengths
      <3> QED
        BY <3>1, <3>2
    <2> QED
      BY <2>1, <2>2
  <1>4. CASE ~AtPrompt /\ ~ClientReturns
    <2>1. client.cmd = "compress" /\ Len(ClientScript[client.cmd]) = 13 /\ client.pos \in 1 .. 14
      <3>1. client.cmd = "compress"
        BY <1>4, ShellRegs
      <3> QED
        BY <3>1, ClientLengths DEF SidesOK, ClientOK
    <2>2. /\ client.pos \in 7 .. 10  => creg.hash = Junk \/ HasFile
          /\ client.pos \in 11 .. 13 => HasFile
      BY <1>1, <2>1 DEF MadeOfOK
    <2>3. CASE client'.pos = client.pos /\ creg' = creg
      BY <2>2, <2>3
    <2>4. CASE client'.pos = Len(ClientScript[client.cmd]) + 1
      BY <2>1, <2>4
    <2>5. CASE ClientAdvances
      <3>1. ClientRunning /\ client'.pos = client.pos + 1 /\ client.pos \in 1 .. 13
            /\ (creg'.hash = creg.hash \/ client.pos = 6) /\ DOMAIN creg = DOMAIN Blank
        BY <2>1, <2>5, AtOps, ShellKeeps DEF ClientAdvances, SidesOK, ClientOK
      <3>2. ASSUME client.pos = 6 PROVE creg'.hash = Junk \/ HasFile
        <4>1. ClientOp.do = "get" /\ ClientOp.x = "hash" /\ ClientOp.kind = "data"
          BY <2>1, <3>2 DEF ClientOp, ClientScript, DoCompress, Get
        <4>2. CASE ClientGets
          <5>1. server.cmd = "compress" /\ server.pos = 8
            BY <1>1, <2>1, <3>2, <4>1, <4>2, ShellHearsHash DEF ClientGets
          <5> QED
            BY <1>1, <5>1 DEF MadeOfOK
        <4>3. CASE ClientAtEnd
          <5>1. creg' = Store(creg, "hash", Junk)
            BY <4>1, <4>3 DEF ClientAtEnd, JunkOf
          <5> QED
            BY <3>1, <5>1, StoreOther
        <4> QED
          BY <2>5, <4>1, <4>2, <4>3 DEF ClientAdvances, ReadLocal, ClientDoes
      <3>3. ASSUME client.pos = 10 PROVE creg.hash # Junk
        <4>1. ClientOp.do = "do" /\ ClientOp.x = "verify"
          BY <2>1, <3>3 DEF ClientOp, ClientScript, DoCompress, Do
        <4>2. ~ClientPuts /\ ~ClientGets /\ ~ClientRefused /\ ~ClientMisreads /\ ~ClientAtEnd /\ ~ClientFails
          BY <4>1 DEF ClientPuts, ClientGets, ClientRefused, ClientMisreads, ClientAtEnd, ClientFails
        <4>3. ~EnableCompressor /\ ~ReadLocal /\ ~SendSucceeds /\ ~SetConfig /\ ~CreateArchive /\ ~ArchiveReceived
          BY <4>1 DEF EnableCompressor, ReadLocal, SendSucceeds, SetConfig, CreateArchive, ArchiveReceived,
             ClientDoes
        <4>4. ~ClientFileFails /\ ~ClientKilled /\ ~Refuses /\ ~\E f \in Files, v \in Versions : Edit(f, v)
          BY <3>1, ClientForms DEF ClientFileFails, ClientKilled, Refuses, Edit
        <4>5. VerifyArchive
          BY <1>4, <4>2, <4>3, <4>4 DEF ShellStep, ClientStep
        <4>6. client' # Finish(client, ClientScript) /\ \A how : client' # Ends(client, how)
          BY <2>1, <3>1, <3>3, ClientForms
        <4>7. \E w : Matches(w, creg.hash)
          BY <4>5, <4>6 DEF VerifyArchive
        <4> QED
          BY <4>7 DEF Matches
      <3> QED
        BY <2>2, <3>1, <3>2, <3>3
    <2> QED
      BY <1>4, <2>3, <2>4, <2>5, ShellRegs
  <1> QED
    BY <1>2, <1>3, <1>4

LEMMA ShellMadeOf ==
  ASSUME SidesOK, Framed, MadeOfOK, ShellStep
  PROVE  MadeOfOK'
  <1>1. UNCHANGED svars /\ ~ClientGone /\ faulted \subseteq faulted'
    BY ShellSteps, ShellLeavesServer
  <1>2. HasFile => HasFile'
    BY <1>1, FilesHeld DEF svars
  <1>3. server'.cmd = "compress" /\ server'.pos \in 2 .. 13 => HasFile'
    BY <1>1, <1>2 DEF MadeOfOK, svars
  <1>4. ~ClientGone' /\ client'.cmd = "compress" =>
          /\ client'.pos \in 7 .. 10  => creg'.hash = Junk \/ HasFile'
          /\ client'.pos \in 11 .. 13 => HasFile'
    BY <1>2, ShellAnnounced
  <1>5. ASSUME note' = "received" PROVE HasFile'
    <2>1. CASE ArchiveReceived
      <3>1. client.cmd = "compress" /\ client.pos = 13
        BY <2>1, AtOps DEF ArchiveReceived, ClientDoes, ClientOpAt
      <3> QED
        BY <1>1, <1>2, <3>1 DEF MadeOfOK
    <2>2. CASE note' = note
      BY <1>2, <1>5, <2>2 DEF MadeOfOK
    <2> QED
      BY <1>5, <2>1, <2>2, ShellAssures
  <1> QED
    BY <1>3, <1>4, <1>5 DEF MadeOfOK

LEMMA HoldsInit == Init => HoldsInv
  <1> SUFFICES ASSUME Init PROVE HoldsInv
    OBVIOUS
  <1>1. /\ client.cmd = "hello" /\ server.cmd = "hello" /\ cconf.sent = 0 /\ note = "none"
    BY DEF Init
  <1> QED
    BY <1>1 DEF HoldsInv, UploadOK, ErrorOK, StoredOK, AskedOK, MadeOfOK

LEMMA HoldsStep ==
  FrameInv /\ DataOK /\ SendInv /\ ServiceInv /\ HoldsInv /\ [Next]_vars => HoldsInv'
  <1> SUFFICES ASSUME FrameInv, DataOK, SendInv, ServiceInv, HoldsInv, [Next]_vars PROVE HoldsInv'
    OBVIOUS
  <1>1. SidesOK /\ (InFrame => Framed) /\ ToldOK /\ SettledOK
    BY DEF FrameInv, StreamKept, SendInv, ServiceInv
  <1>2. UploadOK /\ ErrorOK /\ StoredOK /\ AskedOK /\ MadeOfOK
    BY DEF HoldsInv
  <1>3. CASE ShellStep
    <2>1. Framed
      BY <1>1, <1>3, ShellSteps
    <2>2. UploadOK' /\ ErrorOK' /\ StoredOK'
      BY <1>1, <1>2, <1>3, <2>1, ShellUpload, ShellErrors, ShellStored
    <2>3. AskedOK' /\ MadeOfOK'
      BY <1>1, <1>2, <1>3, <2>1, ShellAsks, ShellMadeOf
    <2> QED
      BY <2>2, <2>3 DEF HoldsInv
  <1>4. CASE WorkerStep
    <2>1. Framed /\ UNCHANGED cvars
      BY <1>1, <1>4, WorkerSteps, WorkerLeavesClient
    <2>2. UploadOK' /\ ErrorOK' /\ StoredOK' /\ MadeOfOK'
      BY <1>1, <1>2, <1>4, <2>1, WorkerUpload, WorkerErrors, WorkerStored, WorkerMadeOf
    <2>3. AskedOK'
      BY <1>2, <2>1 DEF AskedOK, cvars
    <2> QED
      BY <2>2, <2>3 DEF HoldsInv
  <1>5. CASE UNCHANGED vars
    <2>1. UNCHANGED <<c2s, s2c, client, server, creg, sreg, cconf, sfiles, note, faulted>>
      BY <1>5 DEF vars, channels, cvars, svars
    <2>2. UNCHANGED <<HasFile, FileUnwanted, Holds(creg.arg), Messages(s2c), ClientEnded, ClientGone, ServerGone>>
      BY <2>1 DEF HasFile, Holds, Intact, FileUnwanted, Messages, ClientEnded, ClientGone, ServerGone, ServerEnded,
         Begins, Begun, Channels
    <2>3. UploadOK' /\ AskedOK'
      BY <1>2, <2>1 DEF UploadOK, AskedOK, Stored, Intact, ClientGone
    <2>4. ErrorOK' /\ StoredOK' /\ MadeOfOK'
      BY <1>2, <2>1, <2>2 DEF ErrorOK, StoredOK, MadeOfOK
    <2> QED
      BY <2>3, <2>4 DEF HoldsInv
  <1> QED
    BY <1>3, <1>4, <1>5 DEF Next, ShellStep, WorkerStep

(* A file is stored before anything is compressed, however the sends ended. *)
THEOREM HoldsInvariant ==
  Spec => [](FrameInv /\ DataOK /\ ConfigInv /\ SendInv /\ ArchiveInv /\ RefusalInv /\ ServiceInv /\ HoldsInv)
  <1> DEFINE Base == FrameInv /\ DataOK /\ ConfigInv /\ SendInv /\ ArchiveInv /\ RefusalInv /\ ServiceInv
  <1>1. Spec => []Base
    BY ServiceInvariant
  <1>2. Base /\ HoldsInv /\ [Next]_vars => HoldsInv'
    BY HoldsStep
  <1> QED
    BY <1>1, <1>2, HoldsInit, PTL DEF Spec

(* An archive that is received holds a file, a whole one unless a disk or a *)
(* look at a file failed, although parse_command() counts the sends that    *)
(* failed as well (check_compress(), parse_command(), handle_send()).       *)
THEOREM ArchivesHoldFiles == Spec => []ArchiveHoldsFile
  <1>1. HoldsInv => ArchiveHoldsFile
    BY DEF HoldsInv, MadeOfOK, ArchiveHoldsFile, HasFile, Holds, Intact
  <1> QED
    BY <1>1, HoldsInvariant, PTL

-----------------------------------------------------------------------------
(* The message "already" where nothing fails.                               *)

LEMMA AlreadyStays ==
  SidesOK /\ AlreadyOK /\ PromptOK /\ [Next]_vars => PromptOK'
  <1> SUFFICES ASSUME SidesOK, AlreadyOK, PromptOK, [Next]_vars, note' = "already"
               PROVE  client'.mode = "prompt" \/ "kill" \in faulted'
    BY DEF PromptOK
  <1>1. CASE ShellStep
    <2>1. CASE Refuses
      BY <2>1 DEF Refuses
    <2>2. CASE ClientKilled
      BY <2>2 DEF ClientKilled, Fault
    <2>3. CASE ~Refuses /\ \E f \in Files, v \in Versions : Edit(f, v)
      <3>1. note = "already" /\ client' = client /\ faulted \subseteq faulted'
        BY <1>1, <2>3, ShellRepeatsAlready, ShellSteps DEF Edit
      <3> QED
        BY <3>1 DEF PromptOK
    <2> QED
      BY <1>1, <2>1, <2>2, <2>3, ShellRepeatsAlready
  <1>2. CASE WorkerStep
    <2>1. UNCHANGED cvars /\ faulted \subseteq faulted'
      BY <1>2, WorkerSteps, WorkerLeavesClient
    <2> QED
      BY <2>1 DEF PromptOK, cvars
  <1>3. CASE UNCHANGED vars
    BY <1>3 DEF PromptOK, vars, cvars
  <1> QED
    BY <1>1, <1>2, <1>3 DEF Next, ShellStep, WorkerStep

(* Where nothing fails and every compressor that may be chosen is there, a  *)
(* compress that is refused as done already would have made the archive the *)
(* client has, whatever the user changes and sends (check_compress()).      *)
THEOREM RefusalsAreJustified ==
  Faults \subseteq {"edit"} /\ Compressors \subseteq Available => (Spec => []RefusalJustified)
  <1> SUFFICES ASSUME Faults \subseteq {"edit"}, Compressors \subseteq Available
               PROVE  Spec => []RefusalJustified
    OBVIOUS
  <1> DEFINE IInv == FrameInv /\ DataOK /\ ConfigInv /\ SendInv /\ ArchiveInv /\ RefusalInv /\ ServiceInv
  <1>1. Init => PromptOK
    BY DEF Init, PromptOK
  <1>2. IInv /\ PromptOK /\ [Next]_vars => PromptOK'
    BY AlreadyStays DEF FrameInv, RefusalInv
  <1>3. IInv /\ PromptOK => RefusalJustified
    <2> SUFFICES ASSUME IInv, PromptOK, note = "already" PROVE Held
      BY DEF RefusalJustified, Held, Archived
    <2>1. faulted \subseteq {"edit"} /\ cconf.index \in Available
      BY DEF DataOK, TypeOK
    <2>2. client.mode = "prompt"
      BY <2>1 DEF PromptOK
    <2>3. client.cmd # "quit" /\ ~ClientGone
      BY <2>2 DEF FrameInv, SidesOK, ClientOK, ClientGone
    <2>4. ~ServerGone
      BY <2>1, <2>3 DEF ServiceInv, ServedOK
    <2>5. Works
      BY <2>1, <2>4 DEF Works
    <2> QED
      BY <2>5 DEF RefusalInv, AlreadyOK
  <1>4. Spec => []IInv
    BY ServiceInvariant
  <1> HIDE DEF IInv
  <1> QED
    BY <1>1, <1>2, <1>3, <1>4, PTL DEF Spec
=============================================================================
