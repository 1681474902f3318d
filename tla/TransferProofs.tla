----------------------------- MODULE TransferProofs -----------------------------
(***************************************************************************)
(* Theorems of Session about what the shell tells the user: a file that is *)
(* sent is stored and an archive that is received is that of the stored    *)
(* files, for every set of files, versions, names and compressors and      *)
(* every set of faults.                                                    *)
(***************************************************************************)
EXTENDS DataProofs

LEMMA SendMessages ==
  \A i \in 1 .. 13 : Dialogue["send"][i].who = "server" => Dialogue["send"][i] = SOk
  BY DEF Dialogue, Cl, Sv, SOk, CBye

(* What the client of a send finds in the connection: one answer, or an     *)
(* error, which may be behind the answer to the MD5.                        *)
LEMMA SendAnswers ==
  ASSUME SidesOK, Framed, ~ClientGone, client.cmd = "send", client.pos \in 1 .. 17, s2c # <<>>
  PROVE  \/ Head(s2c).kind = "rsp" => Head(s2c).val = "err"
         \/ /\ Dialogue["send"][CDone + 1].who = "server" /\ CDone + 1 \in 1 .. 13
            /\ Head(s2c).kind = "rsp" /\ Head(s2c).val \in {"ack"} \cup Refusal
            /\ Tail(s2c) \in {<<>>, Reply("err")}
  <1> USE DEF Reply, Only
  <1>0. /\ Length("send") = 13 /\ CDone \in Nat
        /\ \A i \in 1 .. 13 : Dialogue["send"][i].who = (IF i \in {1, 3, 5, 7, 9, 11, 13} THEN "client" ELSE "server")
    BY ClocksInRange, SendPlaces
  <1>1. CASE Talking
    <2>1. PICK b \in Nat : TalkingAt(b)
      BY <1>1, TalkingSomewhere
    <2>2. Between(b) /\ b <= 13
      BY <1>0, <2>1 DEF TalkingAt
    <2>3. CDone < b
      BY <2>2, Ahead
    <2>4. PutBy("server", "send", CDone, b) /\ s2c = InFlight("send", CDone, b, sreg)
      BY <2>2 DEF Between, Channels
    <2>5. Dialogue["send"][CDone + 1].who = "server" /\ CDone + 1 \in 1 .. 13
      BY <1>0, <2>2, <2>3, <2>4 DEF PutBy
    <2>6. b = CDone + 1
      <3> SUFFICES ASSUME b > CDone + 1 PROVE FALSE
        BY <1>0, <2>3
      <3>1. Dialogue["send"][CDone + 2].who = "server" /\ CDone + 2 \in 1 .. 13
        BY <1>0, <2>2, <2>4 DEF PutBy
      <3> QED
        BY <1>0, <2>5, <3>1
    <2>7. Head(s2c) = Message(sreg, SOk)
      <3>1. Head(InFlight("send", CDone, b, sreg)) = Message(sreg, Dialogue["send"][CDone + 1])
        BY <1>0, <2>3, GetInFlight
      <3>2. Dialogue["send"][CDone + 1] = SOk
        BY <2>5, SendMessages
      <3> QED
        BY <2>4, <3>1, <3>2
    <2>8. Tail(s2c) = <<>>
      <3>1. Tail(InFlight("send", CDone, b, sreg)) = InFlight("send", CDone + 1, b, sreg)
        BY <1>0, <2>3, GetInFlight
      <3>2. InFlight("send", CDone + 1, b, sreg) = <<>>
        BY <1>0, <2>6, NothingInFlight
      <3> QED
        BY <2>4, <3>1, <3>2
    <2>9. Head(s2c).kind = "rsp" /\ Head(s2c).val = "ack"
      BY <2>7 DEF Message, Value, SOk, Sv, SidesOK, ServerOK, Blank
    <2> QED
      BY <2>5, <2>8, <2>9
  <1>2. CASE ServerRefuses
    <2>1. PICK b \in CDone .. 12, code \in Refusal :
            /\ PutBy("server", "send", CDone, b + 1)
            /\ s2c = Before(InFlight("send", CDone, b, Blank), Reply(code))
      BY <1>0, <1>2 DEF ServerRefuses, Channels
    <2>2. Dialogue["send"][CDone + 1].who = "server" /\ CDone + 1 \in 1 .. 13
      BY <1>0, <2>1 DEF PutBy
    <2>3. b = CDone
      <3> SUFFICES ASSUME b > CDone PROVE FALSE
        BY <1>0, <2>1
      <3>0. b \in Nat /\ CDone + 2 <= b + 1
        BY <1>0, <2>1
      <3>1. Dialogue["send"][CDone + 2].who = "server" /\ CDone + 2 \in 1 .. 13
        BY <1>0, <2>1, <3>0 DEF PutBy
      <3>2. CDone + 1 \in {2, 4, 6, 8, 10, 12}
        BY <1>0, <2>2
      <3>3. CDone + 2 \in {3, 5, 7, 9, 11, 13}
        BY <1>0, <3>2
      <3> QED
        BY <1>0, <3>1, <3>3
    <2>4. s2c = <<[kind |-> "rsp", val |-> code]>>
      <3>1. InFlight("send", CDone, b, Blank) = <<>>
        BY <1>0, <2>3, NothingInFlight
      <3>2. s2c = <<>> \o <<[kind |-> "rsp", val |-> code]>>
        BY <2>1, <3>1 DEF Before
      <3> QED
        BY <3>2
    <2> QED
      BY <2>2, <2>4
  <1>3. CASE FileUnwanted
    <2>1. CASE client.pos = 12
      <3>1. s2c = <<[kind |-> "rsp", val |-> "ack"], [kind |-> "rsp", val |-> "err"]>>
        BY <1>3, <2>1, ClientLengths DEF FileUnwanted, Channels, Before, Begins, ClientEnded
      <3>2. CDone = 9
        BY <2>1, SendPlaces DEF CDone
      <3> QED
        BY <1>0, <3>1, <3>2
    <2>2. CASE client.pos # 12
      <3>1. s2c = <<[kind |-> "rsp", val |-> "err"]>>
        <4>1. ~ClientEnded
          BY ClientLengths DEF ClientEnded
        <4> QED
          BY <1>3, <2>2, <4>1 DEF FileUnwanted, Channels, Before
      <3> QED
        BY <3>1
    <2> QED
      BY <2>1, <2>2
  <1>4. CASE ArchiveUnwanted
    <2>1. s2c = <<[kind |-> "file", val |-> sreg.body]>>
      BY <1>4 DEF ArchiveUnwanted, Channels
    <2> QED
      BY <2>1
  <1>5. CASE Overlapping \/ ClientRefuses \/ ArchiveUnread
    BY <1>5 DEF Overlapping, ClientRefuses, ArchiveUnread, Channels
  <1>6. CASE Stale \/ Silent
    <2>1. CASE Stale
      BY <2>1 DEF Stale
    <2>2. CASE Silent
      BY <2>2 DEF Silent
    <2> QED
      BY <1>6, <2>1, <2>2
  <1> QED
    BY <1>1, <1>2, <1>3, <1>4, <1>5, <1>6 DEF Framed

(* Where nothing of the server's is due it finds nothing but an error.      *)
LEMMA SendQuiet ==
  ASSUME SidesOK, Framed, ~ClientGone, client.cmd = "send", client.pos \in {1, 10, 14}, s2c # <<>>,
         Head(s2c).kind = "rsp"
  PROVE  Head(s2c).val = "err"
  <1>1. CDone \in {0, 8, 10}
    BY SendClocks DEF CDone, ClientClock
  <1>2. Dialogue["send"][CDone + 1].who = "client"
    BY <1>1, SendPlaces
  <1> QED
    BY <1>2, SendAnswers

(* The worker where it looks at the file, and the client then.              *)
LEMMA WorkerAtFile ==
  ASSUME SidesOK, Framed, ~ClientGone, ServerRunning, server.cmd = "send", server.pos \in {8, 12}
  PROVE  /\ client.cmd = "send" /\ client.pos = (IF server.pos = 8 THEN 12 ELSE 15)
         /\ s2c = <<>>
  <1>1. ~ServerGone /\ ~ServerEnded("send") /\ server.cmd # "loop"
    BY ServerLengths DEF ServerRunning, ServerGone, ServerEnded
  <1>2. SDone = (IF server.pos = 8 THEN 9 ELSE 11)
    BY SendClocks DEF SDone
  <1>3. ~Overlapping
    <2>1. Dialogue["send"][SDone + 1].who = "server" /\ SDone + 1 \in SDone + 1 .. Length("send")
      BY <1>2, SendPlaces
    <2> QED
      BY <1>1, <2>1 DEF Overlapping, PutBy
  <1>4. ~ServerRefuses /\ ~ClientRefuses /\ ~ArchiveUnread /\ ~ArchiveUnwanted /\ ~FileUnwanted
    BY <1>1 DEF ServerRefuses, ClientRefuses, ArchiveUnread, ArchiveUnwanted, FileUnwanted, ServerEnded
  <1>5. ~Stale /\ ~Silent
    BY <1>1 DEF Stale, Silent
  <1>6. client.cmd = "send" /\ Between(SDone)
    BY <1>1, <1>3, <1>4, <1>5 DEF Framed, Talking
  <1>7. CDone = SDone
    <2>1. CDone \in 0 .. 13
      BY <1>6, ClocksInRange, SendPlaces
    <2>2. ~(SDone < CDone)
      <3> SUFFICES ASSUME SDone < CDone PROVE FALSE
        OBVIOUS
      <3>1. Dialogue["send"][SDone + 1].who = "client"
        BY <1>2, <1>6, <2>1 DEF Between, PutBy
      <3> QED
        BY <1>2, <3>1, SendPlaces
    <2>3. ~(CDone < SDone)
      <3> SUFFICES ASSUME CDone < SDone PROVE FALSE
        OBVIOUS
      <3>1. Dialogue["send"][SDone].who = "server"
        BY <1>2, <1>6, <2>1 DEF Between, PutBy
      <3> QED
        BY <1>2, <3>1, SendPlaces
    <2> QED
      BY <1>2, <2>1, <2>2, <2>3
  <1>8. s2c = <<>>
    BY <1>2, <1>6, <1>7, NothingInFlight DEF Between, Channels
  <1>9. client.pos \in 1 .. 18
    BY <1>6, ClientLengths DEF SidesOK, ClientOK
  <1>10. client.pos = (IF server.pos = 8 THEN 12 ELSE 15)
    BY <1>2, <1>6, <1>7, <1>9, SendPlaces DEF CDone
  <1> QED
    BY <1>6, <1>8, <1>10

-----------------------------------------------------------------------------
(* A file that is sent: a step of the shell.                                *)

LEMMA ShellNotes ==
  ASSUME ShellStep, client.mode = "run", client.cmd = "send"
  PROVE  \/ note' = note \/ note' \notin {"sent", "present"}
         \/ SendSucceeds \/ (ClientRefused /\ note' = "present")
  <1>1. CASE ClientPuts \/ ClientGets \/ ClientMisreads \/ ClientAtEnd \/ ClientFails \/ ClientRefused
    BY <1>1 DEF ClientPuts, ClientGets, ClientMisreads, ClientAtEnd, ClientFails, ClientRefused
  <1>2. CASE EnableCompressor \/ ReadLocal \/ ClientFileFails \/ SetConfig \/ CreateArchive \/ ArchiveReceived
    BY <1>2 DEF EnableCompressor, ReadLocal, ClientFileFails, SetConfig, CreateArchive, ArchiveReceived
  <1>3. CASE VerifyArchive
    BY <1>3 DEF VerifyArchive
  <1>4. CASE \/ AtPrompt \/ Refuses \/ ClientReturns \/ ClientKilled
             \/ \E f \in Files, v \in Versions : Edit(f, v)
    BY <1>4 DEF AtPrompt, Refuses, ClientReturns, ClientKilled, Edit
  <1> QED
    BY <1>1, <1>2, <1>3, <1>4 DEF ShellStep, ClientStep

(* Only a get takes from the connection.                                    *)
LEMMA ShellChannel ==
  ASSUME ShellStep
  PROVE  s2c' = s2c \/ ClientGets \/ ClientRefused
  BY ShellSteps DEF ClientPuts, ClientMisreads, ClientAtEnd, ClientFails, ClientReturns, AtPrompt, Starts,
     ClientLocal, ClientLeaves, ClientIdle, ArchiveFails, ArchiveDiffers, channels

(* The worker does not take a file before the client tells it.              *)
LEMMA SendPlacesMet ==
  ASSUME SidesOK, Framed, Met, client.cmd = "send", server.cmd = "send"
  PROVE  /\ /\ client.pos = 2 /\ s2c # <<>> /\ Head(s2c).kind = "rsp" /\ Head(s2c).val \notin Refusal
            => server.pos \notin 4 .. 14
         /\ client.pos = 10 => server.pos \notin 8 .. 14
  <1>0. server.pos \in 1 .. 15 /\ Len(ServerScript["send"]) = 14 /\ ~ClientGone
    BY ServerLengths DEF SidesOK, ServerOK, Met
  <1>1. CASE Talking
    <2>1. PICK b \in Nat : TalkingAt(b)
      BY <1>1, TalkingSomewhere
    <2>2. Between(b) /\ b = SDone
      BY <2>1 DEF TalkingAt
    <2>3. ASSUME client.pos = 2 PROVE server.pos \notin 4 .. 14
      <3>1. CDone = 1
        BY <2>3 DEF CDone, ClientClock
      <3>2. Dialogue[client.cmd][2 + 1].who = "client"
        BY SendPlaces
      <3>3. ~(2 < b)
        BY <2>2, <3>1, <3>2, Ahead
      <3> QED
        BY <2>2, <3>3, SendClocks DEF SDone
    <2>4. ASSUME client.pos = 10 PROVE server.pos \notin 8 .. 14
      <3>1. CDone = 8
        BY <2>4, SendClocks DEF CDone
      <3>2. Dialogue[client.cmd][8 + 1].who = "client"
        BY SendPlaces
      <3>3. ~(8 < b)
        BY <2>2, <3>1, <3>2, Ahead
      <3> QED
        BY <2>2, <3>3, SendClocks DEF SDone
    <2> QED
      BY <2>3, <2>4
  <1>2. CASE ServerRefuses \/ FileUnwanted
    BY <1>0, <1>2 DEF ServerRefuses, FileUnwanted, ServerEnded
  <1>3. CASE Overlapping
    BY <1>0, <1>3 DEF Overlapping, Begins, Channels
  <1>4. CASE ClientRefuses \/ ArchiveUnread \/ ArchiveUnwanted
    BY <1>4 DEF ClientRefuses, ArchiveUnread, ArchiveUnwanted
  <1>5. CASE Stale
    BY <1>0, <1>5, ClientLengths DEF Stale, Begins, ClientEnded, Refusal
  <1>6. CASE Silent
    BY <1>6 DEF Silent, Met
  <1> QED
    BY <1>1, <1>2, <1>3, <1>4, <1>5, <1>6 DEF Framed

(* What the client gets of a send is the answer it waits for.               *)
LEMMA SendGets ==
  ASSUME SidesOK, Framed, ClientGets, client.cmd = "send"
  PROVE  /\ s2c # <<>> /\ Head(s2c).kind = "rsp" /\ Head(s2c).val = "ack" /\ s2c' \in {<<>>, Reply("err")}
  <1>1. /\ ClientRunning /\ ClientOp.do = "get" /\ s2c # <<>> /\ s2c' = Tail(s2c)
        /\ Head(s2c).kind = ClientOp.kind
        /\ ClientOp.kind = "rsp" => Head(s2c).val \notin Refusal
    BY DEF ClientGets
  <1>2. /\ ~ClientGone /\ client.pos \in 1 .. 17
    BY <1>1, ClientPlace, ClientLengths DEF ClientRunning, ClientGone
  <1>3. ClientOp.kind = "rsp"
    <2>1. /\ CDone \in 0 .. Length("send") /\ CDone < Length("send")
          /\ Dialogue["send"][CDone + 1].kind = ClientOp.kind
          /\ Dialogue["send"][CDone + 1].who = "server"
      BY <1>1, ClientPlace
    <2>2. CDone + 1 \in 1 .. 13
      BY <2>1, SendPlaces
    <2>3. Dialogue["send"][CDone + 1] = SOk
      BY <2>1, <2>2, SendMessages
    <2> QED
      BY <2>1, <2>3 DEF SOk, Sv
  <1> QED
    BY <1>1, <1>2, <1>3, SendAnswers DEF Refusal

LEMMA ShellSend ==
  ASSUME SidesOK, Framed, DataOK, SendInv, ShellStep
  PROVE  SendInv'
  <1>1. /\ server' = server /\ sreg' = sreg /\ sfiles' = sfiles /\ ~ClientGone
        /\ (ServerGone' <=> ServerGone)
    BY ShellSteps, ShellLeavesServer DEF svars, ServerGone
  <1>2. CASE client'.cmd # "send"
    BY <1>2 DEF SendInv, ToldOK, AnswerOK, Sending
  <1>3. CASE AtPrompt
    <2>1. client'.pos = 1 /\ note' = "none"
      BY <1>3, ClientForms DEF AtPrompt, Starts
    <2> QED
      BY <2>1 DEF SendInv, ToldOK, AnswerOK
  <1>4. CASE ClientReturns /\ client'.cmd = "send"
    <2>1. client.cmd = "send" /\ client'.pos = Len(ClientScript[client.cmd]) + 1 /\ client'.mode # "run"
      BY <1>4, ShellReturnPlace
    <2>2. client'.pos = 18
      <3>1. Len(ClientScript[client.cmd]) = 17
        BY <2>1, ClientLengths
      <3> QED
        BY <2>1, <3>1
    <2>3. ToldOK' /\ AnswerOK'
      BY <2>2 DEF ToldOK, AnswerOK
    <2> QED
      BY <2>1, <2>2, <2>3 DEF SendInv
  <1>5. CASE ~AtPrompt /\ ~ClientReturns /\ client'.cmd = "send"
    <2>1. /\ client.cmd = "send" /\ Len(ClientScript[client.cmd]) = 17 /\ client.pos \in 1 .. 18
          /\ (client'.mode = "run" => client.mode = "run")
      <3>1. client.cmd = "send" /\ (client'.mode = "run" => client.mode = "run")
        BY <1>5, ShellRegs
      <3>2. Len(ClientScript[client.cmd]) = 17
        BY <3>1, ClientLengths
      <3> QED
        BY <3>1, <3>2 DEF SidesOK, ClientOK
    <2>2. ClientRunning => ClientOpAt(ClientOp, client.cmd, client.pos) /\ client.pos \in 1 .. 17
      BY <2>1, AtOps
    <2>3. /\ ToldOK /\ AnswerOK
          /\ client.pos \in 16 .. 17 => Kept
          /\ client.mode = "run" /\ note \in {"sent", "present"} => client.pos = 18 /\ Kept
      BY <1>1, <2>1 DEF SendInv, Sending
    <2>4. CASE client'.pos = client.pos /\ creg' = creg
      <3>1. s2c' = s2c
        <4>1. ~ClientGets
          BY <2>1, <2>4, ClientForms DEF ClientGets
        <4>2. ~ClientRefused
          <5> SUFFICES ASSUME ClientRefused PROVE FALSE
            OBVIOUS
          <5>1. client' = Finish(client, ClientScript) /\ ClientRunning
            BY <2>1 DEF ClientRefused
          <5>2. client'.pos = 18
            BY <2>1, <5>1, ClientForms
          <5> QED
            BY <2>2, <2>4, <5>1, <5>2
        <4> QED
          BY <4>1, <4>2, ShellChannel
      <3>2. ToldOK' /\ AnswerOK'
        <4>1. Met' => Met
          BY ShellMet
        <4> QED
          BY <1>1, <1>5, <2>1, <2>3, <2>4, <3>1, <4>1 DEF ToldOK, AnswerOK, Kept, Sending
      <3>3. client'.mode = "run" => note' = note \/ note' \notin {"sent", "present"}
        <4>1. ~SendSucceeds
          BY <2>1, <2>4, ClientForms DEF SendSucceeds
        <4>2. ~ClientRefused
          <5> SUFFICES ASSUME ClientRefused PROVE FALSE
            OBVIOUS
          <5>1. client' = Finish(client, ClientScript) /\ ClientRunning
            BY <2>1 DEF ClientRefused
          <5>2. client'.pos = 18
            BY <2>1, <5>1, ClientForms
          <5> QED
            BY <2>2, <2>4, <5>1, <5>2
        <4> QED
          BY <2>1, <4>1, <4>2, ShellNotes
      <3> QED
        BY <1>1, <1>5, <2>1, <2>3, <2>4, <3>2, <3>3 DEF SendInv, Kept
    <2>5. CASE ClientRunning /\ client'.pos = Len(ClientScript[client.cmd]) + 1 /\ creg' = creg
      <3>1. client'.pos = 18 /\ client.mode = "run"
        BY <2>1, <2>5 DEF ClientRunning
      <3>2. ASSUME note' \in {"sent", "present"} PROVE Kept'
        <4>1. CASE SendSucceeds
          <5>1. client.pos = 17
            BY <2>2, <4>1 DEF SendSucceeds, ClientDoes, ClientOpAt
          <5> QED
            BY <1>1, <2>3, <2>5, <5>1 DEF Kept
        <4>2. CASE ClientRefused /\ note' = "present"
          <5>1. s2c # <<>> /\ Head(s2c).kind = "rsp" /\ Head(s2c).val = "cnt" /\ ClientOp.do = "get"
            BY <4>2 DEF ClientRefused
          <5>2. client.pos # 1
            BY <2>1, <2>2, <2>5, <5>1 DEF ClientOpAt
          <5>3. client.pos \in 2 .. 17
            BY <2>2, <2>5, <5>2
          <5> QED
            BY <1>1, <2>1, <2>3, <2>5, <5>1, <5>3 DEF Kept, AnswerOK, Sending
        <4> QED
          BY <2>1, <2>2, <2>3, <2>5, <3>1, <3>2, <4>1, <4>2, ShellNotes
      <3> QED
        BY <1>5, <3>1, <3>2 DEF SendInv, ToldOK, AnswerOK
    <2>6. CASE ClientAdvances
      <3>1. /\ ClientRunning /\ client'.pos = client.pos + 1 /\ client.pos \in 1 .. 17 /\ client.mode = "run"
            /\ creg'.arg = creg.arg /\ (creg'.hash = creg.hash \/ client.pos = 10)
        BY <2>1, <2>2, <2>6, ShellKeeps DEF ClientAdvances, ClientRunning
      <3>2. ~ClientRefused
        <4> SUFFICES ASSUME ClientRefused PROVE FALSE
          OBVIOUS
        <4>1. client'.pos = 18 /\ ClientOp.do = "get"
          BY <2>1, ClientForms DEF ClientRefused
        <4>2. client.pos = 17
          BY <3>1, <4>1
        <4> QED
          BY <3>1, <4>1, <4>2, <2>1 DEF ClientOp, ClientScript, DoSend, Do
      <3>3. s2c' = s2c \/ ClientGets
        BY <3>2, ShellChannel
      <3>4. ClientOp.do = "get" => ClientGets
        <4>1. ~ClientAtEnd \/ ClientOp.kind = "rsp"
          <5>1. ASSUME ClientOp.do = "get" PROVE ClientOp.kind = "rsp"
            <6>1. client.pos \in {2, 4, 6, 9, 12, 15}
              BY <2>1, <3>1, <5>1 DEF ClientOp, ClientScript, DoSend, Do, Put, BYE
            <6> QED
              BY <2>1, <6>1 DEF ClientOp, ClientScript, DoSend, Ack, Get
          <5> QED
            BY <5>1 DEF ClientAtEnd
        <4> QED
          BY <2>6, <4>1 DEF ClientAdvances, ReadLocal, ClientDoes
      <3>5. (Kept' <=> Kept) \/ client.pos = 10
        BY <1>1, <3>1 DEF Kept
      <3>6. ToldOK'
        <4> SUFFICES ASSUME Met', client'.pos \in 3 .. 17, server.cmd = "send"
                     PROVE  /\ server.pos \in 4 .. 14  => sreg.arg = creg'.arg
                            /\ server.pos \in 8 .. 14  => sreg.hash = creg'.hash
                            /\ server.pos \in 13 .. 14 => Kept'
          BY <1>1 DEF ToldOK
        <4>1. Met
          BY ShellMet
        <4>2. server.pos \in Nat
          BY DEF SidesOK, ServerOK
        <4>3. CASE client.pos = 2
          <5>1. ClientOp.do = "get"
            BY <2>1, <4>3 DEF ClientOp, ClientScript, DoSend, Ack, Get
          <5>2. s2c # <<>> /\ Head(s2c).kind = "rsp" /\ Head(s2c).val = "ack"
            BY <2>1, <3>4, <5>1, SendGets
          <5>3. server.pos \notin 4 .. 14
            BY <2>1, <4>1, <4>3, <5>2, SendPlacesMet DEF Refusal
          <5> QED
            BY <4>2, <5>3
        <4>4. CASE client.pos = 10
          <5>1. server.pos \notin 8 .. 14
            BY <2>1, <4>1, <4>4, SendPlacesMet
          <5> QED
            BY <2>1, <2>3, <3>1, <4>1, <4>2, <4>4, <5>1 DEF ToldOK
        <4>5. CASE client.pos \in 3 .. 16 \ {10}
          BY <1>1, <2>1, <2>3, <3>1, <4>1, <4>5 DEF ToldOK, Kept
        <4> QED
          BY <3>1, <4>3, <4>4, <4>5
      <3>7. AnswerOK'
        <4> SUFFICES ASSUME s2c' # <<>>, Head(s2c').kind = "rsp", Head(s2c').val # "err"
                     PROVE  /\ client'.pos \in 2 .. 17 /\ Head(s2c').val = "cnt" => Kept'
                            /\ client'.pos = 15 /\ Head(s2c').val = "ack" => Kept'
          BY DEF AnswerOK
        <4>1. ~ClientGets
          <5> SUFFICES ASSUME ClientGets PROVE FALSE
            OBVIOUS
          <5>1. s2c' = Reply("err")
            BY <2>1, SendGets
          <5>2. Head(Reply("err")).val = "err"
            BY DEF Reply, Only
          <5> QED
            BY <5>1, <5>2
        <4>2. s2c' = s2c
          BY <3>3, <4>1
        <4>3. client.pos \notin {1, 10, 14}
          BY <1>1, <2>1, <4>2, SendQuiet
        <4> QED
          BY <1>1, <2>1, <2>3, <3>1, <3>5, <4>2, <4>3 DEF AnswerOK, Sending
      <3>8. client'.pos \in 16 .. 17 => Kept'
        <4>1. CASE client.pos = 15
          <5>1. ClientOp.do = "get"
            BY <2>1, <4>1 DEF ClientOp, ClientScript, DoSend, Ack, Get
          <5>2. s2c # <<>> /\ Head(s2c).kind = "rsp" /\ Head(s2c).val = "ack"
            BY <2>1, <3>4, <5>1, SendGets
          <5> QED
            BY <1>1, <2>1, <2>3, <3>1, <3>5, <4>1, <5>2 DEF AnswerOK, Sending
        <4>2. CASE client.pos # 15
          BY <2>3, <3>1, <3>5, <4>2
        <4> QED
          BY <4>1, <4>2
      <3>9. note' \in {"sent", "present"} => client'.pos = 18 /\ Kept'
        <4>1. CASE SendSucceeds
          <5>1. client.pos = 17
            BY <2>2, <3>1, <4>1 DEF SendSucceeds, ClientDoes, ClientOpAt
          <5> QED
            BY <2>3, <3>1, <3>5, <5>1
        <4> QED
          BY <2>1, <2>3, <3>1, <3>2, <4>1, ShellNotes
      <3> QED
        BY <3>6, <3>7, <3>8, <3>9 DEF SendInv
    <2> QED
      BY <1>5, <2>4, <2>5, <2>6, ShellRegs
  <1> QED
    BY <1>2, <1>3, <1>4, <1>5

-----------------------------------------------------------------------------
(* A file that is sent: a step of the worker.                               *)

LEMMA WorkerFiles ==
  ASSUME WorkerStep
  PROVE  sfiles' = sfiles \/ CheckExisting \/ StoreFile
  <1>1. CASE ServerReturns \/ ServerKilled \/ ServerPuts \/ ServerGets \/ ServerRefused \/ ServerMisreads
    BY <1>1 DEF ServerReturns, ServerKilled, ServerPuts, ServerGets, ServerRefused, ServerMisreads
  <1>2. CASE ServerAtEnd \/ ServerFails \/ Dispatch \/ SetServerName \/ SetServerIndex
    BY <1>2 DEF ServerAtEnd, ServerFails, Dispatch, SetServerName, SetServerIndex
  <1>3. CASE CreateFile \/ MakeArchive \/ ReadArchive \/ OpenFails \/ ServerFileFails \/ DeleteArchive
    BY <1>3 DEF CreateFile, MakeArchive, ReadArchive, OpenFails, ServerFileFails, DeleteArchive
  <1> QED
    BY <1>1, <1>2, <1>3 DEF WorkerStep, ServerStep

LEMMA WorkerChannel ==
  ASSUME WorkerStep, ~ClientGone
  PROVE  \/ s2c' = s2c \/ ServerPuts \/ CheckExisting
         \/ s2c' = Append(s2c, [kind |-> "rsp", val |-> "err"])
  <1>1. CASE ServerReturns \/ ServerKilled \/ ServerGets \/ ServerRefused \/ ServerMisreads
    BY <1>1 DEF ServerReturns, ServerKilled, ServerGets, ServerRefused, ServerMisreads, channels
  <1>2. CASE ServerAtEnd \/ ServerFails \/ Dispatch \/ SetServerName \/ SetServerIndex
    BY <1>2 DEF ServerAtEnd, ServerFails, Dispatch, SetServerName, SetServerIndex, channels
  <1>3. CASE ReadArchive \/ OpenFails \/ ServerFileFails \/ DeleteArchive
    BY <1>3 DEF ReadArchive, OpenFails, ServerFileFails, DeleteArchive, channels
  <1>4. CASE CreateFile
    BY <1>4 DEF CreateFile, RepliesAndReturns
  <1>5. CASE StoreFile
    BY <1>5 DEF StoreFile, RepliesAndReturns
  <1>6. CASE MakeArchive
    BY <1>6 DEF MakeArchive, RepliesAndReturns
  <1> QED
    BY <1>1, <1>2, <1>3, <1>4, <1>5, <1>6 DEF WorkerStep, ServerStep

(* The only step of the worker at the end of a file is to store it, or to go. *)
LEMMA WorkerStores ==
  ASSUME SidesOK, WorkerStep, ServerRunning, server.cmd = "send", server.pos = 12, server'.pos # server.pos
  PROVE  StoreFile
  <1>0. ServerOp.do = "do" /\ ServerOp.x = "store"
    BY DEF ServerOp, ServerScript, HandleSend, Do
  <1>1. ~ServerPuts /\ ~ServerGets /\ ~ServerRefused /\ ~ServerMisreads /\ ~ServerAtEnd /\ ~ServerFails
    BY <1>0 DEF ServerPuts, ServerGets, ServerRefused, ServerMisreads, ServerAtEnd, ServerFails
  <1>2. ~ServerReturns
    <2>1. server.pos \in 1 .. Len(ServerScript[server.cmd])
      BY AtOps
    <2> QED
      BY <2>1 DEF ServerReturns
  <1>3. ~ServerKilled /\ ~ServerFileFails
    BY ServerForms DEF ServerKilled, ServerFileFails
  <1>4. /\ ~CheckExisting /\ ~CreateFile /\ ~MakeArchive /\ ~ReadArchive /\ ~OpenFails
        /\ ~DeleteArchive /\ ~Dispatch /\ ~SetServerName /\ ~SetServerIndex
    BY <1>0 DEF CheckExisting, CreateFile, MakeArchive, ReadArchive, OpenFails,
       DeleteArchive, Dispatch, SetServerName, SetServerIndex, ServerDoes
  <1> QED
    BY <1>1, <1>2, <1>3, <1>4 DEF WorkerStep, ServerStep

(* Nothing is put to a client that waits for the answer to its file before  *)
(* that answer.                                                             *)
LEMMA AnswerPut ==
  ASSUME SidesOK, Framed, ~ClientGone, ServerPuts, client.cmd = "send", client.pos = 15, s2c = <<>>
  PROVE  server.cmd = "send" /\ server.pos \in 13 .. 14
  <1>1. ServerRunning /\ ServerOp.do = "put" /\ ~ServerGone
    BY DEF ServerPuts, ServerRunning, ServerGone
  <1>2. CDone = 11 /\ ~Begins /\ ~ClientEnded
    BY SendPlaces, ClientLengths DEF CDone, Begins, ClientEnded
  <1>3. ~Overlapping /\ ~ClientRefuses /\ ~ArchiveUnread /\ ~ArchiveUnwanted /\ ~Stale /\ ~Silent
    BY <1>1, <1>2 DEF Overlapping, ClientRefuses, ArchiveUnread, ArchiveUnwanted, Stale, Silent
  <1>4. ~ServerEnded("send")
    <2>1. server.cmd # "loop" \/ server.pos # 1
      BY <1>1 DEF ServerOp, ServerScript, CommandLoop, Get
    <2>2. server.cmd = "send" => server.pos <= Len(ServerScript["send"])
      BY <1>1 DEF ServerRunning
    <2> QED
      BY <2>1, <2>2, ServerLengths DEF ServerEnded
  <1>5. ~ServerRefuses /\ ~FileUnwanted
    BY <1>4 DEF ServerRefuses, FileUnwanted
  <1>6. Talking
    BY <1>3, <1>5 DEF Framed
  <1>7. PICK b \in Nat : TalkingAt(b)
    BY <1>6, TalkingSomewhere
  <1>8. Between(b) /\ b = SDone /\ ~(server.cmd = "loop" /\ server.pos = 1)
    <2>1. ~(server.cmd = "loop" /\ server.pos = 1)
      BY <1>1 DEF ServerOp, ServerScript, CommandLoop, Get
    <2> QED
      BY <1>7, <2>1 DEF TalkingAt
  <1>9. b >= 10
    <2> SUFFICES ASSUME b < 10 PROVE FALSE
      OBVIOUS
    <2>1. Dialogue["send"][10].who = "client"
      BY <1>2, <1>8 DEF Between, PutBy
    <2> QED
      BY <2>1, SendPlaces
  <1>10. server.cmd = "send"
    <2> SUFFICES ASSUME server.cmd # "send" PROVE FALSE
      OBVIOUS
    <2>1. server.cmd = "loop"
      BY <1>7 DEF TalkingAt
    <2>2. server.pos \in 1 .. 3
      BY <2>1 DEF SidesOK, ServerOK
    <2>3. SDone <= 2
      BY <2>1, <2>2 DEF SDone, ServerClock
    <2> QED
      BY <1>8, <1>9, <2>3
  <1>11. Dialogue["send"][b + 1].who = "server" /\ b + 1 \in 1 .. 13
    <2>1. /\ SDone < Length(server.cmd)
          /\ Dialogue[server.cmd][SDone + 1] = Sv(ServerOp.kind, ServerOp.x)
      BY <1>1, <1>10, ServerPlace
    <2>2. Length("send") = 13
      BY SendPlaces
    <2>3. b = SDone
      BY <1>8
    <2>4. Sv(ServerOp.kind, ServerOp.x).who = "server"
      BY DEF Sv
    <2> HIDE DEF Sv
    <2>5. Dialogue["send"][b + 1].who = "server"
      BY <1>10, <2>1, <2>3, <2>4
    <2>6. b < 13
      BY <1>10, <2>1, <2>2, <2>3
    <2> QED
      BY <2>5, <2>6
  <1>12. ~(b > 11)
    <2> SUFFICES ASSUME b > 11 PROVE FALSE
      OBVIOUS
    <2>1. s2c = InFlight("send", 11, b, sreg)
      BY <1>2, <1>8 DEF Between, Channels
    <2> QED
      BY <2>1, SomeInFlight
  <1>13. b = 11
    BY <1>9, <1>11, <1>12, SendPlaces
  <1>14. server.pos \in 1 .. 14
    BY <1>1, <1>10, ServerPlace, ServerLengths
  <1>15. server.pos \in {12, 13}
    BY <1>8, <1>10, <1>13, <1>14 DEF SDone, ServerClock
  <1>16. server.pos # 12
    BY <1>1, <1>10 DEF ServerOp, ServerScript, HandleSend, Do
  <1> QED
    BY <1>10, <1>15, <1>16

-----------------------------------------------------------------------------
(* A channel is a sequence.                                                 *)

LEMMA InFlightIsSequence ==
  ASSUME NEW cmd, NEW from \in Nat, NEW to \in Nat, NEW reg
  PROVE  \E S : InFlight(cmd, from, to, reg) \in Seq(S)
  <1> DEFINE F == InFlight(cmd, from, to, reg)
             S == {F[i] : i \in 1 .. (to - from)}
  <1>1. F = [i \in 1 .. (to - from) |-> F[i]] /\ DOMAIN F = 1 .. (to - from)
    BY DEF InFlight
  <1>2. F \in [1 .. (to - from) -> S]
    BY <1>1
  <1>3. CASE to >= from
    <2>1. to - from \in Nat
      BY <1>3
    <2>2. F \in Seq(S)
      BY <1>2, <2>1
    <2> QED
      BY <2>2
  <1>4. CASE to < from
    <2>1. 1 .. (to - from) = 1 .. 0 /\ 0 \in Nat
      BY <1>4
    <2>2. F \in [1 .. 0 -> S]
      BY <1>2, <2>1
    <2>3. F \in Seq(S)
      BY <2>1, <2>2
    <2> QED
      BY <2>3
  <1> QED
    BY <1>3, <1>4

LEMMA AppendKeepsHead ==
  ASSUME NEW S, NEW s \in Seq(S), s # <<>>, NEW m
  PROVE  Head(Append(s, m)) = Head(s)
  <1>1. s \in Seq(S \cup {m}) /\ m \in S \cup {m}
    OBVIOUS
  <1> QED
    BY <1>1

LEMMA AnswersAreSequence ==
  ASSUME SidesOK, Framed, ~ClientGone
  PROVE  \E S : s2c \in Seq(S)
  <1> USE DEF Before, Reply, Only
  <1>0. CDone \in Nat /\ Length(client.cmd) \in Nat
    BY ClocksInRange
  <1>1. CASE Talking
    <2>1. PICK b \in Nat : TalkingAt(b)
      BY <1>1, TalkingSomewhere
    <2>2. s2c = InFlight(client.cmd, CDone, b, sreg)
      BY <2>1 DEF TalkingAt, Between, Channels
    <2> QED
      BY <1>0, <2>1, <2>2, InFlightIsSequence
  <1>2. CASE ServerRefuses
    <2>1. PICK b \in CDone .. Length(client.cmd) - 1, code \in Refusal :
            s2c = InFlight(client.cmd, CDone, b, Blank) \o <<[kind |-> "rsp", val |-> code]>>
      BY <1>2 DEF ServerRefuses, Channels
    <2>2. b \in Nat
      BY <1>0, <2>1
    <2>3. PICK S : InFlight(client.cmd, CDone, b, Blank) \in Seq(S)
      BY <1>0, <2>2, InFlightIsSequence
    <2> DEFINE T == S \cup {[kind |-> "rsp", val |-> code]}
    <2>4. InFlight(client.cmd, CDone, b, Blank) \in Seq(T) /\ <<[kind |-> "rsp", val |-> code]>> \in Seq(T)
      BY <2>3
    <2>5. s2c \in Seq(T)
      BY <2>1, <2>4
    <2> QED
      BY <2>5
  <1>3. ASSUME NEW m, s2c = <<m>> PROVE \E S : s2c \in Seq(S)
    <2>1. s2c \in Seq({m})
      BY <1>3
    <2> QED
      BY <2>1
  <1>4. CASE s2c = <<>>
    <2>1. s2c \in Seq({})
      BY <1>4
    <2> QED
      BY <2>1
  <1>5. CASE Overlapping \/ ClientRefuses \/ ArchiveUnread \/ Silent
    BY <1>4, <1>5 DEF Overlapping, ClientRefuses, ArchiveUnread, Silent, Channels
  <1>6. CASE ArchiveUnwanted
    BY <1>3, <1>4, <1>6 DEF ArchiveUnwanted, Channels
  <1>7. CASE FileUnwanted
    <2>1. CASE client.cmd = "send" /\ client.pos = 12
      <3> DEFINE S == {[kind |-> "rsp", val |-> "ack"], [kind |-> "rsp", val |-> "err"]}
      <3>1. s2c = <<[kind |-> "rsp", val |-> "ack"], [kind |-> "rsp", val |-> "err"]>>
        BY <1>7, <2>1, ClientLengths DEF FileUnwanted, Channels, Begins, ClientEnded
      <3>2. s2c \in Seq(S)
        BY <3>1
      <3> QED
        BY <3>2
    <2>2. CASE ~(client.cmd = "send" /\ client.pos = 12)
      <3>1. s2c = <<[kind |-> "rsp", val |-> "err"]>> \/ s2c = <<>>
        BY <1>7, <2>2 DEF FileUnwanted, Channels
      <3> QED
        BY <1>3, <1>4, <3>1
    <2> QED
      BY <2>1, <2>2
  <1>8. CASE Stale
    BY <1>3, <1>8 DEF Stale
  <1> QED
    BY <1>1, <1>2, <1>5, <1>6, <1>7, <1>8 DEF Framed

(* What the worker takes for the file, in a step that leaves the files.     *)
LEMMA WorkerTold ==
  ASSUME SidesOK, Framed, WorkerStep, ToldOK, ~ClientGone, ~CheckExisting, ~StoreFile,
         client.cmd = "send", client.pos \in 3 .. 17, server'.cmd = "send"
  PROVE  /\ server'.pos \in 4 .. 14  => sreg'.arg = creg.arg
         /\ server'.pos \in 8 .. 14  => sreg'.hash = creg.hash
         /\ server'.pos \in 13 .. 14 => Kept
  <1>0. ~ServerReturns
    BY WorkerReturnPlace
  <1>1. CASE Dispatch
    BY <1>1, WorkerReturnPlace
  <1>2. CASE ~Dispatch
    <2>1. server.cmd = "send" /\ Len(ServerScript[server.cmd]) = 14 /\ server.pos \in 1 .. 15
      <3>1. server.cmd = "send"
        BY <1>0, <1>2, WorkerRegs
      <3> QED
        BY <3>1, ServerLengths DEF SidesOK, ServerOK
    <2>2. /\ server.pos \in 4 .. 14  => sreg.arg = creg.arg
          /\ server.pos \in 8 .. 14  => sreg.hash = creg.hash
          /\ server.pos \in 13 .. 14 => Kept
      <3>1. Met
        BY WorkerSteps DEF Met
      <3> QED
        BY <2>1, <3>1 DEF ToldOK
    <2>3. CASE server'.pos = server.pos /\ sreg' = sreg
      BY <2>2, <2>3
    <2>4. CASE server'.pos = Len(ServerScript[server.cmd]) + 1
      BY <2>1, <2>4
    <2>5. CASE ServerAdvances
      <3>1. ServerRunning /\ server'.pos = server.pos + 1 /\ server.pos \in 1 .. 14 /\ DOMAIN sreg = DOMAIN Blank
        BY <2>1, <2>5, AtOps DEF ServerAdvances, SidesOK, ServerOK
      <3>2. server.pos # 12
        BY <2>1, <3>1, WorkerStores
      <3>3. CASE server.pos \in {3, 7}
        <4>1. ServerOp.do = "get" /\ ServerOp.x = (IF server.pos = 3 THEN "arg" ELSE "hash")
          BY <2>1, <3>3 DEF ServerOp, ServerScript, HandleSend, Get
        <4>2. ServerGets /\ sreg' = Store(sreg, ServerOp.x, Head(c2s).val) /\ c2s # <<>>
          BY <2>5, <4>1 DEF ServerAdvances, ReadArchive, ServerDoes, ServerAtEnd, ServerGets
        <4>3. Head(c2s).val = (IF server.pos = 3 THEN creg.arg ELSE creg.hash)
          BY <2>1, <3>1, <3>3, <4>2, WorkerHearsFile
        <4>4. CASE server.pos = 3
          <5>1. sreg'.arg = creg.arg
            BY <3>1, <4>1, <4>2, <4>3, <4>4, StoreOther
          <5> QED
            BY <3>1, <4>4, <5>1
        <4>5. CASE server.pos = 7
          <5>1. sreg'.hash = creg.hash /\ sreg'.arg = sreg.arg
            BY <3>1, <4>1, <4>2, <4>3, <4>5, StoreOther
          <5> QED
            BY <2>2, <3>1, <4>5, <5>1
        <4> QED
          BY <3>3, <4>4, <4>5
      <3>4. CASE server.pos \notin {3, 7}
        <4>1. sreg'.arg = sreg.arg /\ sreg'.hash = sreg.hash
          BY <2>1, <2>5, <3>4, WorkerKeeps
        <4> QED
          BY <2>2, <3>1, <3>2, <3>4, <4>1
      <3> QED
        BY <3>3, <3>4
    <2> QED
      BY <1>0, <1>2, <2>3, <2>4, <2>5, WorkerRegs
  <1> QED
    BY <1>1, <1>2

(* What it answers in such a step.                                          *)
LEMMA WorkerAnswers ==
  ASSUME SidesOK, Framed, WorkerStep, ToldOK, AnswerOK, ~ClientGone, ~CheckExisting, ~StoreFile,
         client.cmd = "send", s2c' # <<>>, Head(s2c').kind = "rsp"
  PROVE  /\ client.pos \in 2 .. 17 /\ Head(s2c').val = "cnt" => Kept
         /\ client.pos = 15 /\ Head(s2c').val = "ack" => Kept
  <1>1. AnswerOK /\ Sending
    BY DEF Sending
  <1>2. CASE s2c' = s2c
    BY <1>1, <1>2 DEF AnswerOK
  <1>3. CASE s2c # <<>> /\ Head(s2c') = Head(s2c)
    BY <1>1, <1>3 DEF AnswerOK
  <1>4. CASE s2c = <<>> /\ s2c' = Append(s2c, [kind |-> "rsp", val |-> "err"])
    BY <1>4
  <1>5. CASE ServerPuts /\ s2c = <<>>
    <2>1. /\ ServerRunning /\ ServerOp.do = "put"
          /\ s2c' = <<[kind |-> ServerOp.kind, val |-> Value(sreg, ServerOp.x)]>>
      BY <1>5 DEF ServerPuts
    <2>2. ServerOp.kind = "rsp" /\ Head(s2c').val = Value(sreg, ServerOp.x)
      BY <2>1
    <2>3. ServerOp.x \in {"ack", "bye"}
      BY <2>1, <2>2, AtOps DEF ServerOpAt
    <2>4. Head(s2c').val \in {"ack", "bye"}
      BY <2>2, <2>3 DEF Value, SidesOK, ServerOK, Blank
    <2>5. ASSUME client.pos = 15 PROVE Kept
      <3>1. server.cmd = "send" /\ server.pos \in 13 .. 14
        BY <1>5, <2>5, AnswerPut
      <3>2. Met
        BY WorkerSteps DEF Met
      <3> QED
        BY <2>5, <3>1, <3>2 DEF ToldOK
    <2> QED
      BY <2>4, <2>5
  <1>6. ASSUME NEW m, s2c' = Append(s2c, m), s2c # <<>> PROVE Head(s2c') = Head(s2c)
    BY <1>6, AnswersAreSequence, AppendKeepsHead
  <1> QED
    BY <1>2, <1>3, <1>4, <1>5, <1>6, WorkerChannel DEF ServerPuts

(* What the worker stores is what it was told of.                           *)
LEMMA WorkerKnows ==
  ASSUME SidesOK, Framed, DataOK, ToldOK, ~ClientGone, ServerRunning, server.cmd = "send", server.pos \in {8, 12}
  PROVE  /\ client.cmd = "send" /\ client.pos = (IF server.pos = 8 THEN 12 ELSE 15) /\ s2c = <<>>
         /\ sreg.arg = creg.arg /\ sreg.hash = creg.hash /\ creg.arg \in Files
         /\ Stored = sfiles[creg.arg] /\ \A v : WithStored(v)[creg.arg] = v
  <1>1. client.cmd = "send" /\ client.pos = (IF server.pos = 8 THEN 12 ELSE 15) /\ s2c = <<>>
    BY WorkerAtFile
  <1>2. Met
    BY DEF Met, ServerRunning, ServerGone
  <1>3. sreg.arg = creg.arg /\ sreg.hash = creg.hash
    BY <1>1, <1>2 DEF ToldOK
  <1>4. creg.arg \in Files
    BY <1>1, ClientLengths DEF DataOK, ArgOK
  <1>5. DOMAIN sfiles = Files
    BY DEF DataOK, TypeOK
  <1> QED
    BY <1>1, <1>3, <1>4, <1>5 DEF Stored, WithStored

LEMMA WorkerSend ==
  ASSUME SidesOK, Framed, DataOK, SendInv, WorkerStep
  PROVE  SendInv'
  <1>1. /\ client' = client /\ creg' = creg /\ note' = note /\ ~ServerGone /\ (ClientGone' <=> ClientGone)
        /\ (client.mode = "run" => ~ClientGone)
    BY WorkerSteps, WorkerLeavesClient DEF cvars, ClientGone
  <1>2. CASE client.cmd # "send" \/ ClientGone
    BY <1>1, <1>2 DEF SendInv, ToldOK, AnswerOK, Sending, Met
  <1>3. CASE client.cmd = "send" /\ ~ClientGone /\ ~CheckExisting /\ ~StoreFile
    <2>1. sfiles' = sfiles
      BY <1>3, WorkerFiles
    <2>2. ToldOK'
      BY <1>1, <1>3, <2>1, WorkerTold DEF SendInv, ToldOK, Kept
    <2>3. AnswerOK'
      BY <1>1, <1>3, <2>1, WorkerAnswers DEF SendInv, AnswerOK, Kept
    <2> QED
      BY <1>1, <1>3, <2>1, <2>2, <2>3 DEF SendInv, Sending, Kept
  <1>4. CASE client.cmd = "send" /\ ~ClientGone /\ CheckExisting
    <2>1. ServerRunning /\ server.cmd = "send" /\ server.pos = 8
      BY <1>4, AtOps DEF CheckExisting, ServerDoes, ServerOpAt
    <2>2. /\ client.pos = 12 /\ s2c = <<>> /\ sreg.arg = creg.arg /\ sreg.hash = creg.hash
          /\ Stored = sfiles[creg.arg] /\ sreg' = sreg
      BY <1>4, <2>1, WorkerKnows DEF SendInv, CheckExisting
    <2>3. CASE server' = Step(server) /\ s2c' = s2c
      <3>1. server'.pos = 9
        BY <2>1, <2>3, ServerForms
      <3> QED
        BY <1>1, <2>2, <2>3, <3>1 DEF SendInv, ToldOK, AnswerOK, Sending
    <2>4. CASE RepliesAndReturns("cnt") /\ sfiles' = sfiles /\ Stored # Absent /\ Matches(Stored, sreg.hash)
      <3>1. server' = Finish(server, ServerScript) /\ s2c' = Append(s2c, [kind |-> "rsp", val |-> "cnt"])
        BY <1>4, <2>4 DEF RepliesAndReturns
      <3>2. server'.pos = 15
        <4>1. Len(ServerScript[server.cmd]) = 14
          BY <2>1, ServerLengths
        <4> QED
          BY <3>1, <4>1, ServerForms
      <3>3. Stored \in FileContents
        BY DEF Stored, DataOK, TypeOK, FileContents
      <3>4. Kept'
        BY <1>1, <2>2, <2>4, <3>3 DEF Kept, Matches, FileContents
      <3> QED
        BY <1>1, <2>2, <3>2, <3>4 DEF SendInv, ToldOK, AnswerOK, Sending
    <2> QED
      BY <1>4, <2>3, <2>4 DEF CheckExisting
  <1>5. CASE client.cmd = "send" /\ ~ClientGone /\ StoreFile
    <2>1. ServerRunning /\ server.cmd = "send" /\ server.pos = 12
      BY <1>5, AtOps DEF StoreFile, ServerDoes, ServerOpAt
    <2>2. /\ client.pos = 15 /\ s2c = <<>> /\ sreg.arg = creg.arg /\ sreg.hash = creg.hash
          /\ (\A v : WithStored(v)[creg.arg] = v) /\ sreg' = sreg
      BY <1>5, <2>1, WorkerKnows DEF SendInv, StoreFile
    <2>3. PICK written \in {sreg.body, Torn} :
                         /\ sfiles' = WithStored(written)
                         /\ \/ Matches(written, sreg.hash) /\ server' = Step(server) /\ UNCHANGED s2c
                            \/ ~Matches(written, sreg.hash) /\ RepliesAndReturns("err")
      BY <1>5 DEF StoreFile
    <2>4. CASE Matches(written, sreg.hash) /\ server' = Step(server) /\ s2c' = s2c
      <3>1. server'.pos = 13
        BY <2>1, <2>4, ServerForms
      <3>2. written \in FileContents \ {Absent}
        BY <2>1, <2>3 DEF DataOK, BytesOK, FileContents, Absent, Torn
      <3>3. Kept'
        BY <1>1, <2>2, <2>3, <2>4, <3>2 DEF Kept, Matches, FileContents
      <3> QED
        BY <1>1, <2>2, <2>4, <3>1, <3>3 DEF SendInv, ToldOK, AnswerOK, Sending
    <2>5. CASE RepliesAndReturns("err")
      <3>1. server' = Finish(server, ServerScript) /\ s2c' = Append(s2c, [kind |-> "rsp", val |-> "err"])
        BY <1>5, <2>5 DEF RepliesAndReturns
      <3>2. server'.pos = 15
        <4>1. Len(ServerScript[server.cmd]) = 14
          BY <2>1, ServerLengths
        <4> QED
          BY <3>1, <4>1, ServerForms
      <3> QED
        BY <1>1, <2>2, <3>1, <3>2 DEF SendInv, ToldOK, AnswerOK, Sending
    <2> QED
      BY <2>3, <2>4, <2>5
  <1> QED
    BY <1>2, <1>3, <1>4, <1>5

LEMMA SendInit == Init => SendInv
  BY DEF Init, SendInv, ToldOK, AnswerOK, Sending

LEMMA SendStep == FrameInv /\ DataOK /\ SendInv /\ [Next]_vars => SendInv'
  <1> SUFFICES ASSUME FrameInv, DataOK, SendInv, [Next]_vars PROVE SendInv'
    OBVIOUS
  <1>1. SidesOK /\ StreamKept
    BY DEF FrameInv
  <1>2. CASE ShellStep
    BY <1>1, <1>2, ShellSend, ShellSteps DEF StreamKept
  <1>3. CASE WorkerStep
    BY <1>1, <1>3, WorkerSend, WorkerSteps DEF StreamKept
  <1>4. CASE UNCHANGED vars
    BY <1>4 DEF vars, channels, cvars, svars, SendInv, ToldOK, AnswerOK, Sending, Kept, Met, ClientGone, ServerGone
  <1> QED
    BY <1>2, <1>3, <1>4 DEF Next, ShellStep, WorkerStep

(* The worker has under the name it was told what the shell hashed, from    *)
(* the moment it says that it has it (do_send(), handle_send()).            *)
THEOREM SendInvariant == Spec => [](FrameInv /\ DataOK /\ SendInv)
  <1>1. FrameInv /\ DataOK /\ SendInv /\ [Next]_vars => (FrameInv /\ DataOK /\ SendInv)'
    BY FrameStep, DataStep, SendStep
  <1>2. Init => FrameInv /\ DataOK /\ SendInv
    BY FrameInit, DataInit, SendInit
  <1> QED
    BY <1>1, <1>2, PTL DEF Spec

(* When the shell says that a file was sent, or that the server has it      *)
(* already, the server holds under that name the bytes the client hashed,   *)
(* whatever fault happened, for every set of files and versions             *)
(* (do_send(), handle_send()).                                              *)
THEOREM SentIsStored == Spec => []SendMeansStored
  <1>1. SendInv => SendMeansStored
    BY DEF SendInv, SendMeansStored, Kept
  <1> QED
    BY <1>1, SendInvariant, PTL

-----------------------------------------------------------------------------
(* An archive that is received: where the sides are.                        *)

LEMMA ArchivePlaces ==
  /\ ClientClock["compress"][6] = 5 /\ ClientClock["compress"][13] = 10 /\ ClientClock["compress"][14] = 10
  /\ Dialogue["compress"][6] = Sv("data", "hash") /\ Dialogue["compress"][7].who = "client"
  /\ Dialogue["compress"][10].who = "server"
  /\ \A p \in 1 .. 14 : ServerClock["compress"][p] = 10 <=> p \in {13, 14}
  BY DEF ClientClock, ServerClock, Dialogue, Sv, COk, SBye, Cl

(* The MD5 the shell gets is that of the archive the worker made.           *)
LEMMA ShellHearsHash ==
  ASSUME SidesOK, Framed, ~ClientGone, s2c # <<>>, client.cmd = "compress", client.pos = 6,
         Head(s2c).kind = "data"
  PROVE  server.cmd = "compress" /\ server.pos = 8 /\ Head(s2c).val = sreg.hash
  <1>1. CDone = 5 /\ Length("compress") = 10 /\ ~Begins /\ ~ClientEnded
    BY ArchivePlaces, CompressPlaces, ClientLengths DEF CDone, Begins, ClientEnded
  <1>2. ~Overlapping /\ ~ClientRefuses /\ ~ArchiveUnread /\ ~ArchiveUnwanted /\ ~FileUnwanted
    BY <1>1 DEF Overlapping, ClientRefuses, ArchiveUnread, ArchiveUnwanted, FileUnwanted
  <1>3. ~Stale /\ ~Silent
    BY <1>1 DEF Stale, Silent
  <1>4. ~ServerRefuses
    <2> SUFFICES ASSUME ServerRefuses PROVE FALSE
      OBVIOUS
    <2>1. PICK b \in 5 .. 9 : PutBy("server", "compress", 5, b + 1) /\ Dialogue["compress"][b + 1].kind = "rsp"
      BY <1>1 DEF ServerRefuses
    <2>2. CASE b = 5
      BY <2>1, <2>2, ArchivePlaces DEF Sv
    <2>3. CASE b > 5
      <3>1. 7 \in 6 .. b + 1
        BY <2>1, <2>3
      <3>2. Dialogue["compress"][7].who = "server"
        BY <2>1, <3>1 DEF PutBy
      <3> QED
        BY <3>2, ArchivePlaces
    <2> QED
      BY <2>1, <2>2, <2>3
  <1>5. PICK b \in Nat : TalkingAt(b)
    BY <1>2, <1>3, <1>4, TalkingSomewhere DEF Framed
  <1>6. server.cmd = client.cmd /\ SDone = 6 /\ Head(s2c) = Message(sreg, Dialogue[client.cmd][6])
    <2>1. CDone >= 2 /\ CDone + 2 <= Length(client.cmd) /\ Dialogue[client.cmd][CDone + 2].who = "client"
      BY <1>1, ArchivePlaces
    <2>2. /\ server.cmd = client.cmd /\ SDone = CDone + 1
          /\ Head(s2c) = Message(sreg, Dialogue[client.cmd][CDone + 1])
      BY <1>5, <2>1, ClientHears
    <2> QED
      BY <1>1, <2>2
  <1>7. server.pos \in 1 .. 14 /\ DOMAIN sreg = DOMAIN Blank
    BY <1>6, CompressPlaces DEF SidesOK, ServerOK
  <1>8. server.pos = 8
    BY <1>6, <1>7, CompressPlaces DEF SDone
  <1>9. Head(s2c).val = sreg.hash
    BY <1>6, <1>7, ArchivePlaces DEF Message, Value, Sv, Blank
  <1> QED
    BY <1>6, <1>8, <1>9

(* When the shell has the archive the worker has only to delete its own.    *)
LEMMA ShellHasArchive ==
  ASSUME SidesOK, Framed, ~ClientGone, ~ServerGone, client.cmd = "compress", client.pos = 13
  PROVE  /\ c2s = <<>>
         /\ \/ server.cmd = "compress" /\ server.pos >= 13
            \/ server.cmd = "loop" /\ server.pos = 1
  <1>1. CDone = 10 /\ Length("compress") = 10 /\ ~Begins /\ ~ClientEnded
    BY ArchivePlaces, CompressPlaces, ClientLengths DEF CDone, Begins, ClientEnded
  <1>2. ~Overlapping /\ ~ClientRefuses /\ ~ArchiveUnread /\ ~ArchiveUnwanted /\ ~FileUnwanted
    BY <1>1 DEF Overlapping, ClientRefuses, ArchiveUnread, ArchiveUnwanted, FileUnwanted
  <1>3. ~Stale /\ ~Silent /\ ~ServerRefuses
    BY <1>1 DEF Stale, Silent, ServerRefuses
  <1>4. PICK b \in Nat : TalkingAt(b)
    BY <1>2, <1>3, TalkingSomewhere DEF Framed
  <1>5. b = 10
    <2>1. Dialogue[client.cmd][9 + 1].who = "server" /\ 9 < CDone /\ Between(b) /\ b <= 10
      BY <1>1, <1>4, ArchivePlaces DEF TalkingAt
    <2>2. b > 9
      BY <2>1, Ahead
    <2> QED
      BY <2>1, <2>2
  <1>6. c2s = <<>>
    BY <1>1, <1>4, <1>5, NothingInFlight DEF TalkingAt, Between, Channels
  <1>7. CASE server.cmd = "compress" /\ SDone = 10
    <2>1. server.pos \in 1 .. 14
      BY <1>7, CompressPlaces DEF SidesOK, ServerOK
    <2> QED
      BY <1>6, <1>7, <2>1, ArchivePlaces DEF SDone
  <1>8. ~(server.cmd = "loop" /\ SDone = 10)
    BY ClocksInRange
  <1> QED
    BY <1>4, <1>5, <1>6, <1>7, <1>8 DEF TalkingAt

-----------------------------------------------------------------------------
(* An archive that is received: a step of the shell.                        *)

LEMMA ShellArchives ==
  ASSUME ShellStep
  PROVE  received' = received \/ CreateArchive \/ VerifyArchive
  <1>1. CASE ClientPuts \/ ClientGets \/ ClientMisreads \/ ClientAtEnd \/ ClientFails \/ ClientRefused
    BY <1>1 DEF ClientPuts, ClientGets, ClientMisreads, ClientAtEnd, ClientFails, ClientRefused
  <1>2. CASE EnableCompressor \/ ReadLocal \/ ClientFileFails \/ SendSucceeds \/ SetConfig \/ ArchiveReceived
    BY <1>2 DEF EnableCompressor, ReadLocal, ClientFileFails, SendSucceeds, SetConfig, ArchiveReceived
  <1>3. CASE \/ AtPrompt \/ Refuses \/ ClientReturns \/ ClientKilled
             \/ \E f \in Files, v \in Versions : Edit(f, v)
    BY <1>3 DEF AtPrompt, Starts, Refuses, ClientReturns, ClientKilled, Edit
  <1> QED
    BY <1>1, <1>2, <1>3 DEF ShellStep, ClientStep

(* In a compression the shell leaves its settings as they are.              *)
LEMMA ShellKeepsKey ==
  ASSUME SidesOK, DataOK, ShellStep, client.cmd = "compress"
  PROVE  /\ cconf'.name = cconf.name /\ cconf'.index = cconf.index
         /\ ArchiveKey' = ArchiveKey /\ Archived' = Archived /\ ArchiveKey \in DOMAIN received
  <1>1. ~SetConfig
    <2> SUFFICES ASSUME SetConfig PROVE FALSE
      OBVIOUS
    <2>1. ClientOpAt(ClientOp, client.cmd, client.pos) /\ ClientOp.do = "do"
          /\ ClientOp.x \in {"set_name", "set_index", "adopt", "fix"}
      BY AtOps DEF SetConfig, ClientDoes
    <2> QED
      BY <2>1 DEF ClientOpAt
  <1>2. cconf'.name = cconf.name /\ cconf'.index = cconf.index
    BY <1>1, ShellSettingsKept
  <1>3. sfiles' = sfiles
    BY ShellLeavesServer DEF svars
  <1>4. ArchiveKey \in DOMAIN received
    BY DEF DataOK, TypeOK, ArchiveKey, ArchiveKeys
  <1> QED
    BY <1>2, <1>3, <1>4 DEF ArchiveKey, Archived

(* The shell takes for the MD5 that of the archive of the stored files.     *)
LEMMA ShellTakesHash ==
  ASSUME SidesOK, Framed, DataOK, ConfigInv, MadeOK, ClientGets, ~ClientGone,
         client.cmd = "compress", client.pos = 6
  PROVE  creg'.hash = Archived
  <1>1. ClientOp.do = "get" /\ ClientOp.x = "hash" /\ ClientOp.kind = "data"
    BY DEF ClientOp, ClientScript, DoCompress, Get
  <1>2. s2c # <<>> /\ Head(s2c).kind = "data" /\ creg' = Store(creg, ClientOp.x, Head(s2c).val)
    BY <1>1 DEF ClientGets
  <1>3. server.cmd = "compress" /\ server.pos = 8 /\ Head(s2c).val = sreg.hash
    BY <1>2, ShellHearsHash
  <1>4. sreg.hash = Archive(alg, sfiles)
    BY <1>3 DEF MadeOK
  <1>5. alg = cconf.index
    <2>1. ServerIndex = sconf.index /\ ClientIndex = cconf.index
      BY <1>3 DEF ServerIndex, ClientIndex, IndexTaken
    <2>2. Met
      BY <1>2 DEF Met
    <2> QED
      BY <2>1, <2>2 DEF ConfigInv, DataOK, SettingsOK
  <1>6. creg'.hash = sreg.hash
    <2>1. DOMAIN creg = DOMAIN Blank
      BY DEF SidesOK, ClientOK
    <2> QED
      BY <1>1, <1>2, <1>3, <2>1, StoreOther
  <1> QED
    BY <1>4, <1>5, <1>6 DEF Archived

LEMMA ShellFetches ==
  ASSUME SidesOK, Framed, DataOK, ConfigInv, MadeOK, FetchedOK, ShellStep
  PROVE  FetchedOK'
  <1> SUFFICES ASSUME ~ClientGone', client'.cmd = "compress"
               PROVE  /\ client'.pos \in 7 .. 13  => creg'.hash \in {Archived', Junk}
                      /\ client'.pos \in 11 .. 13 => received'[ArchiveKey'] = Archived'
    BY DEF FetchedOK
  <1>1. ~ClientGone /\ server' = server /\ sreg' = sreg
    BY ShellSteps
  <1>2. CASE AtPrompt
    BY <1>2, ClientForms DEF AtPrompt, Starts
  <1>3. CASE ClientReturns
    <2>1. CASE client.cmd = "check"
      BY <1>3, <2>1, ShellReturnPlace
    <2>2. CASE client.cmd # "check"
      <3>1. client.cmd = "compress" /\ client'.pos = Len(ClientScript[client.cmd]) + 1
        BY <1>3, <2>2, ShellReturnPlace
      <3>2. Len(ClientScript[client.cmd]) = 13
        BY <3>1, ClientLengths
      <3> QED
        BY <3>1, <3>2
    <2> QED
      BY <2>1, <2>2
  <1>4. CASE ~AtPrompt /\ ~ClientReturns
    <2>1. client.cmd = "compress" /\ Len(ClientScript[client.cmd]) = 13 /\ client.pos \in 1 .. 14
      <3>1. client.cmd = "compress"
        BY <1>4, ShellRegs
      <3> QED
        BY <3>1, ClientLengths DEF SidesOK, ClientOK
    <2>2. /\ client.pos \in 7 .. 13  => creg.hash \in {Archived, Junk}
          /\ client.pos \in 11 .. 13 => received[ArchiveKey] = Archived
      BY <1>1, <2>1 DEF FetchedOK
    <2>3. ArchiveKey' = ArchiveKey /\ Archived' = Archived /\ ArchiveKey \in DOMAIN received
      BY <2>1, ShellKeepsKey
    <2>4. CreateArchive => client.pos = 8 /\ client'.pos \in {9, 14}
      <3> SUFFICES ASSUME CreateArchive PROVE client.pos = 8 /\ client'.pos \in {9, 14}
        OBVIOUS
      <3>1. client.pos = 8
        BY AtOps DEF CreateArchive, ClientDoes, ClientOpAt
      <3>2. client' = Step(client) \/ client' = Finish(client, ClientScript)
        BY ClientForms DEF CreateArchive, ClientGone
      <3> QED
        BY <2>1, <3>1, <3>2, ClientForms
    <2>5. VerifyArchive => /\ client.pos = 10
                           /\ \/ client'.pos = 14
                              \/ /\ client'.pos = 11
                                 /\ \E w : Matches(w, creg.hash) /\ received' = [received EXCEPT ![ArchiveKey] = w]
      <3> SUFFICES ASSUME VerifyArchive
                   PROVE  /\ client.pos = 10
                          /\ \/ client'.pos = 14
                             \/ /\ client'.pos = 11
                                /\ \E w : /\ Matches(w, creg.hash)
                                          /\ received' = [received EXCEPT ![ArchiveKey] = w]
        OBVIOUS
      <3>1. client.pos = 10
        BY AtOps DEF VerifyArchive, ClientDoes, ClientOpAt
      <3>2. \/ client' = Finish(client, ClientScript)
            \/ /\ client' = Step(client)
               /\ \E w : Matches(w, creg.hash) /\ received' = [received EXCEPT ![ArchiveKey] = w]
        BY ClientForms DEF VerifyArchive, ClientGone
      <3> QED
        BY <2>1, <3>1, <3>2, ClientForms
    <2>6. CASE client'.pos = client.pos /\ creg' = creg
      <3>1. received' = received
        BY <2>4, <2>5, <2>6, ShellArchives
      <3> QED
        BY <2>2, <2>3, <2>6, <3>1
    <2>7. CASE client'.pos = Len(ClientScript[client.cmd]) + 1
      BY <2>1, <2>7
    <2>8. CASE ClientAdvances
      <3>1. ClientRunning /\ client'.pos = client.pos + 1 /\ client.pos \in 1 .. 13
            /\ (creg'.hash = creg.hash \/ client.pos = 6) /\ DOMAIN creg = DOMAIN Blank
        BY <2>1, <2>8, AtOps, ShellKeeps DEF ClientAdvances, SidesOK, ClientOK
      <3>2. CASE client.pos = 6
        <4>1. ClientOp.do = "get" /\ ClientOp.x = "hash" /\ ClientOp.kind = "data"
          BY <2>1, <3>2 DEF ClientOp, ClientScript, DoCompress, Get
        <4>2. CASE ClientGets
          BY <1>1, <2>1, <2>3, <3>1, <3>2, <4>2, ShellTakesHash
        <4>3. CASE \E j \in JunkOf(ClientOp.x) : creg' = Store(creg, ClientOp.x, j)
          <5>1. creg' = Store(creg, "hash", Junk)
            BY <4>1, <4>3 DEF JunkOf
          <5>2. creg'.hash = Junk
            BY <3>1, <5>1, StoreOther
          <5> QED
            BY <3>1, <3>2, <5>2
        <4>4. ClientAtEnd => \E j \in JunkOf(ClientOp.x) : creg' = Store(creg, ClientOp.x, j)
          BY <4>1 DEF ClientAtEnd
        <4> QED
          BY <2>8, <4>1, <4>2, <4>3, <4>4 DEF ClientAdvances, ReadLocal, ClientDoes
      <3>3. CASE client.pos = 10
        <4>1. CASE VerifyArchive
          <5>1. PICK w : Matches(w, creg.hash) /\ received' = [received EXCEPT ![ArchiveKey] = w]
            BY <2>5, <3>1, <3>3, <4>1
          <5>2. w = creg.hash /\ w # Junk /\ received'[ArchiveKey] = w
            BY <2>3, <5>1 DEF Matches
          <5> QED
            BY <2>2, <2>3, <3>1, <3>3, <5>2
        <4>2. VerifyArchive
          <5>1. ClientOp.do = "do" /\ ClientOp.x = "verify"
            BY <2>1, <3>3 DEF ClientOp, ClientScript, DoCompress, Do
          <5>2. ~ClientPuts /\ ~ClientGets /\ ~ClientRefused /\ ~ClientMisreads /\ ~ClientAtEnd /\ ~ClientFails
            BY <5>1 DEF ClientPuts, ClientGets, ClientRefused, ClientMisreads, ClientAtEnd, ClientFails
          <5>3. ~EnableCompressor /\ ~ReadLocal /\ ~SendSucceeds /\ ~SetConfig /\ ~CreateArchive /\ ~ArchiveReceived
            BY <5>1 DEF EnableCompressor, ReadLocal, SendSucceeds, SetConfig, CreateArchive, ArchiveReceived,
               ClientDoes
          <5>4. ~ClientFileFails /\ ~ClientKilled /\ ~Refuses /\ ~\E f \in Files, v \in Versions : Edit(f, v)
            BY <3>1, ClientForms DEF ClientFileFails, ClientKilled, Refuses, Edit
          <5> QED
            BY <1>4, <5>2, <5>3, <5>4 DEF ShellStep, ClientStep
        <4> QED
          BY <4>1, <4>2
      <3>4. CASE client.pos \notin {6, 10}
        <4>1. client'.pos \in 11 .. 13 => received' = received
          BY <2>4, <2>5, <3>1, <3>4, ShellArchives
        <4> QED
          BY <2>2, <2>3, <3>1, <3>4, <4>1
      <3> QED
        BY <3>2, <3>3, <3>4
    <2> QED
      BY <1>4, <2>6, <2>7, <2>8, ShellRegs
  <1> QED
    BY <1>2, <1>3, <1>4

(* Where the user is told.                                                  *)
LEMMA ShellTells ==
  ASSUME ShellStep, note' = "received"
  PROVE  note = "received" \/ ArchiveReceived
  <1>1. CASE ClientPuts \/ ClientGets \/ ClientMisreads \/ ClientAtEnd \/ ClientFails \/ ClientRefused
    BY <1>1 DEF ClientPuts, ClientGets, ClientMisreads, ClientAtEnd, ClientFails, ClientRefused
  <1>2. CASE EnableCompressor \/ ReadLocal \/ ClientFileFails \/ SendSucceeds \/ SetConfig \/ CreateArchive
    BY <1>2 DEF EnableCompressor, ReadLocal, ClientFileFails, SendSucceeds, SetConfig, CreateArchive
  <1>3. CASE VerifyArchive
    BY <1>3 DEF VerifyArchive
  <1>4. CASE \/ AtPrompt \/ Refuses \/ ClientReturns \/ ClientKilled
             \/ \E f \in Files, v \in Versions : Edit(f, v)
    BY <1>4 DEF AtPrompt, Starts, Refuses, ClientReturns, ClientKilled, Edit
  <1> QED
    BY <1>1, <1>2, <1>3, <1>4 DEF ShellStep, ClientStep

LEMMA ShellReceives ==
  ASSUME SidesOK, Framed, DataOK, FetchedOK, ReceivedOK, ShellStep
  PROVE  ReceivedOK'
  <1> SUFFICES ASSUME note' = "received" PROVE ReceivedOK'
    BY DEF ReceivedOK
  <1>1. ~ClientGone /\ server' = server /\ (ServerGone' <=> ServerGone)
    BY ShellSteps DEF ServerGone
  <1>2. CASE ArchiveReceived
    <2>1. client.cmd = "compress" /\ client.pos = 13 /\ client' = Step(client)
      BY <1>2, AtOps DEF ArchiveReceived, ClientDoes, ClientOpAt
    <2>2. client'.cmd = "compress" /\ client'.pos = 14
      BY <2>1, ClientForms
    <2>3. received'[ArchiveKey'] = Archived'
      <3>1. received[ArchiveKey] = Archived
        BY <1>1, <2>1 DEF FetchedOK
      <3>2. received' = received
        BY <1>2 DEF ArchiveReceived
      <3> QED
        BY <2>1, <3>1, <3>2, ShellKeepsKey
    <2>4. c2s' = c2s
      BY <1>2 DEF ArchiveReceived, channels
    <2> QED
      BY <1>1, <2>1, <2>2, <2>3, <2>4, ShellHasArchive DEF ReceivedOK
  <1>3. CASE note = "received" /\ ~ArchiveReceived
    <2>1. client.cmd = "compress" /\ client.pos = 14 /\ Len(ClientScript[client.cmd]) = 13
          /\ received[ArchiveKey] = Archived
          /\ (~ServerGone => /\ c2s = <<>>
                             /\ \/ server.cmd = "compress" /\ server.pos >= 13
                                \/ server.cmd = "loop" /\ server.pos = 1)
      BY <1>3, ClientLengths DEF ReceivedOK
    <2>2. ~ClientRunning
      BY <2>1 DEF ClientRunning
    <2>3. ~AtPrompt
      BY DEF AtPrompt, Starts
    <2>4. client'.cmd = "compress" /\ client'.pos = 14
      <3>1. CASE ClientReturns
        BY <2>1, <3>1, ShellReturnPlace
      <3>2. CASE ~ClientReturns
        BY <2>1, <2>2, <2>3, <3>2, ShellRegs DEF ClientAdvances
      <3> QED
        BY <3>1, <3>2
    <2>5. received' = received
      BY <2>2, ShellArchives DEF CreateArchive, VerifyArchive, ClientDoes
    <2>6. c2s' = c2s
      BY <2>2, ShellSteps DEF ClientPuts, ClientGets, ClientRefused, ClientMisreads, ClientAtEnd, ClientFails,
         ClientReturns, AtPrompt, Starts, ClientLocal, ClientLeaves, ClientIdle, ArchiveFails, ArchiveDiffers, channels
    <2> QED
      BY <1>1, <2>1, <2>4, <2>5, <2>6, ShellKeepsKey DEF ReceivedOK
  <1> QED
    BY <1>2, <1>3, ShellTells

(* A file that is not wanted stays so until the framing is lost.            *)
LEMMA ShellFileUnwanted ==
  ASSUME SidesOK, ShellStep, FileUnwanted, ~ClientGone', ~ServerGone
  PROVE  FileUnwanted'
  <1>1. /\ server' = server /\ sreg' = sreg /\ ~ClientGone /\ InFrame /\ "create" \in faulted'
        /\ (ServerGone' <=> ServerGone)
    BY ShellSteps DEF FileUnwanted, ServerGone
  <1>2. CASE ShellTurn
    BY <1>1, <1>2, ShellSendsUnwanted
  <1>3. CASE ClientIdle
    BY <1>1, <1>3 DEF ClientIdle, channels, FileUnwanted, ServerEnded, Begins, Begun, ClientEnded, Channels,
                      ClientGone
  <1>4. ~ClientLeaves
    BY ClientForms DEF ClientLeaves, ClientGone
  <1>5. ~ClientAtEnd /\ ~ClientFails
    BY DEF ClientAtEnd, ClientFails
  <1> QED
    BY <1>2, <1>3, <1>4, <1>5, ShellSteps DEF ShellTurn

LEMMA ShellLeftovers ==
  ASSUME SidesOK, ShellStep, Leftovers
  PROVE  Leftovers'
  <1> SUFFICES ASSUME ~ClientGone', ~ServerGone' PROVE Leftovers'
    BY DEF Leftovers
  <1>1. ~ClientGone /\ ~ServerGone /\ UNCHANGED svars
    BY ShellSteps, ShellLeavesServer DEF ServerGone, svars
  <1>2. FileUnwanted => FileUnwanted'
    BY <1>1, ShellFileUnwanted
  <1> QED
    BY <1>1, <1>2 DEF Leftovers, svars

LEMMA ShellArchive ==
  ASSUME SidesOK, Framed, DataOK, ConfigInv, ArchiveInv, ShellStep
  PROVE  ArchiveInv'
  <1>1. MadeOK'
    BY ShellSteps, ShellLeavesServer DEF ArchiveInv, MadeOK, svars, ServerKey
  <1> QED
    BY <1>1, ShellFetches, ShellReceives, ShellLeftovers DEF ArchiveInv

-----------------------------------------------------------------------------
(* An archive that is received: a step of the worker.                       *)

LEMMA WorkerArchives ==
  ASSUME WorkerStep
  PROVE  sarch' = sarch \/ MakeArchive \/ DeleteArchive
  <1>1. CASE ServerReturns \/ ServerKilled \/ ServerPuts \/ ServerGets \/ ServerRefused \/ ServerMisreads
    BY <1>1 DEF ServerReturns, ServerKilled, ServerPuts, ServerGets, ServerRefused, ServerMisreads
  <1>2. CASE ServerAtEnd \/ ServerFails \/ Dispatch \/ SetServerName \/ SetServerIndex
    BY <1>2 DEF ServerAtEnd, ServerFails, Dispatch, SetServerName, SetServerIndex
  <1>3. CASE \/ CheckExisting \/ CreateFile \/ StoreFile \/ ReadArchive \/ OpenFails \/ ServerFileFails
    BY <1>3 DEF CheckExisting, CreateFile, StoreFile, ReadArchive, OpenFails, ServerFileFails
  <1> QED
    BY <1>1, <1>2, <1>3 DEF WorkerStep, ServerStep

(* In a compression the worker leaves its settings and the files.           *)
LEMMA WorkerKeepsKey ==
  ASSUME SidesOK, DataOK, WorkerStep, server.cmd # "rename", server.cmd # "comp"
  PROVE  alg' = alg /\ ServerKey' = ServerKey /\ ServerKey \in ArchiveKeys
  <1>1. ~SetServerName /\ ~SetServerIndex
    BY AtOps DEF SetServerName, SetServerIndex, ServerDoes, ServerOpAt
  <1> QED
    BY <1>1, WorkerSettingsKept DEF ServerKey, DataOK, TypeOK, ArchiveKeys

LEMMA WorkerFilesKept ==
  ASSUME SidesOK, WorkerStep, server.cmd # "send"
  PROVE  sfiles' = sfiles
  <1>1. ~CheckExisting /\ ~StoreFile
    BY AtOps DEF CheckExisting, StoreFile, ServerDoes, ServerOpAt
  <1> QED
    BY <1>1, WorkerFiles

(* What zip updates has no more than what the server stores.                *)
LEMMA NewArchiveIsCurrent ==
  ASSUME DataOK, Leftovers, ~ClientGone, ~ServerGone, server.cmd = "compress"
  PROVE  NewArchive = Archive(alg, sfiles)
  <1>1. DOMAIN sfiles = Files /\ sfiles = [f \in Files |-> sfiles[f]] /\ ServerKey \in ArchiveKeys
    BY DEF DataOK, TypeOK, ServerKey, ArchiveKeys
  <1>2. ~FileUnwanted
    BY DEF FileUnwanted, ServerEnded
  <1>3. ASSUME sarch[ServerKey] # Absent, NEW f \in Files, sfiles[f] = Absent
        PROVE  sarch[ServerKey][3][f] = sfiles[f]
    BY <1>1, <1>2, <1>3 DEF Leftovers
  <1>4. ASSUME sarch[ServerKey] # Absent
        PROVE  [f \in Files |-> IF sfiles[f] # Absent THEN sfiles[f] ELSE sarch[ServerKey][3][f]] = sfiles
    <2>1. \A f \in Files : (IF sfiles[f] # Absent THEN sfiles[f] ELSE sarch[ServerKey][3][f]) = sfiles[f]
      BY <1>3, <1>4
    <2> QED
      BY <1>1, <2>1
  <1> QED
    BY <1>4 DEF NewArchive

LEMMA WorkerMakes ==
  ASSUME SidesOK, DataOK, MadeOK, Leftovers, WorkerStep
  PROVE  MadeOK'
  <1> SUFFICES ASSUME ~ClientGone', server'.cmd = "compress"
               PROVE  /\ server'.pos \in 2 .. 13  => sarch'[ServerKey'] = Archive(alg', sfiles')
                      /\ server'.pos \in 7 .. 13  => sreg'.hash = Archive(alg', sfiles')
                      /\ server'.pos \in 10 .. 13 => sreg'.body = Archive(alg', sfiles')
    BY DEF MadeOK
  <1>1. ~ClientGone /\ ~ServerGone
    BY WorkerSteps DEF ClientGone
  <1>2. ~ServerReturns
    BY WorkerReturnPlace
  <1>3. CASE Dispatch
    BY <1>3, WorkerReturnPlace
  <1>4. CASE ~Dispatch
    <2>1. server.cmd = "compress" /\ Len(ServerScript[server.cmd]) = 13 /\ server.pos \in 1 .. 14
      <3>1. server.cmd = "compress"
        BY <1>2, <1>4, WorkerRegs
      <3> QED
        BY <3>1, ServerLengths DEF SidesOK, ServerOK
    <2>2. /\ server.pos \in 2 .. 13  => sarch[ServerKey] = Archive(alg, sfiles)
          /\ server.pos \in 7 .. 13  => sreg.hash = Archive(alg, sfiles)
          /\ server.pos \in 10 .. 13 => sreg.body = Archive(alg, sfiles)
      BY <1>1, <2>1 DEF MadeOK
    <2>3. alg' = alg /\ ServerKey' = ServerKey /\ ServerKey \in DOMAIN sarch /\ sfiles' = sfiles
      BY <2>1, WorkerKeepsKey, WorkerFilesKept DEF DataOK, TypeOK
    <2>4. MakeArchive => /\ server.pos = 1
                         /\ \/ server'.pos = 14
                            \/ server'.pos = 2 /\ sarch' = [sarch EXCEPT ![ServerKey] = NewArchive]
      <3> SUFFICES ASSUME MakeArchive
                   PROVE  /\ server.pos = 1
                          /\ \/ server'.pos = 14
                             \/ server'.pos = 2 /\ sarch' = [sarch EXCEPT ![ServerKey] = NewArchive]
        OBVIOUS
      <3>1. server.pos = 1
        BY AtOps DEF MakeArchive, ServerDoes, ServerOpAt
      <3>2. \/ server' = Finish(server, ServerScript)
            \/ server' = Step(server) /\ sarch' = [sarch EXCEPT ![ServerKey] = NewArchive]
        BY <1>1 DEF MakeArchive, RepliesAndReturns
      <3> QED
        BY <2>1, <3>1, <3>2, ServerForms
    <2>5. DeleteArchive => server.pos = 13 /\ server'.pos = 14
      <3> SUFFICES ASSUME DeleteArchive PROVE server.pos = 13 /\ server'.pos = 14
        OBVIOUS
      <3>1. server.pos = 13 /\ server' = Step(server)
        BY AtOps DEF DeleteArchive, ServerDoes, ServerOpAt
      <3> QED
        BY <3>1, ServerForms
    <2>6. CASE server'.pos = server.pos /\ sreg' = sreg
      <3>1. sarch' = sarch
        BY <2>4, <2>5, <2>6, WorkerArchives
      <3> QED
        BY <2>2, <2>3, <2>6, <3>1
    <2>7. CASE server'.pos = Len(ServerScript[server.cmd]) + 1
      BY <2>1, <2>7
    <2>8. CASE ServerAdvances
      <3>1. /\ ServerRunning /\ server'.pos = server.pos + 1 /\ server.pos \in 1 .. 13 /\ DOMAIN sreg = DOMAIN Blank
            /\ (sreg'.hash = sreg.hash \/ server.pos = 6) /\ (sreg'.body = sreg.body \/ server.pos = 9)
        BY <2>1, <2>8, AtOps, WorkerKeeps DEF ServerAdvances, SidesOK, ServerOK
      <3>2. server.pos # 1 => sarch' = sarch \/ server'.pos = 14
        BY <2>4, <2>5, WorkerArchives
      <3>3. CASE server.pos = 1
        <4>1. ServerOp.do = "do" /\ ServerOp.x = "tar"
          BY <2>1, <3>3 DEF ServerOp, ServerScript, HandleCompress, Do
        <4>2. ~ServerPuts /\ ~ServerGets /\ ~ServerRefused /\ ~ServerMisreads /\ ~ServerAtEnd /\ ~ServerFails
          BY <4>1 DEF ServerPuts, ServerGets, ServerRefused, ServerMisreads, ServerAtEnd, ServerFails
        <4>3. /\ ~CheckExisting /\ ~CreateFile /\ ~StoreFile /\ ~ReadArchive /\ ~OpenFails /\ ~ServerFileFails
              /\ ~DeleteArchive /\ ~SetServerName /\ ~SetServerIndex
          BY <4>1 DEF CheckExisting, CreateFile, StoreFile, ReadArchive, OpenFails, ServerFileFails,
             DeleteArchive, SetServerName, SetServerIndex, ServerDoes
        <4>4. ~ServerKilled
          BY <3>1, ServerForms DEF ServerKilled
        <4>5. MakeArchive
          BY <1>2, <1>4, <4>2, <4>3, <4>4 DEF WorkerStep, ServerStep
        <4>6. sarch' = [sarch EXCEPT ![ServerKey] = NewArchive]
          BY <2>4, <3>1, <3>3, <4>5
        <4>7. sarch'[ServerKey] = Archive(alg, sfiles)
          BY <1>1, <2>1, <2>3, <4>6, NewArchiveIsCurrent
        <4> QED
          BY <2>3, <3>1, <3>3, <4>7
      <3>4. CASE server.pos \in {6, 9}
        <4>1. ServerOp.do = "do" /\ ServerOp.x = (IF server.pos = 6 THEN "hash" ELSE "open")
          BY <2>1, <3>4 DEF ServerOp, ServerScript, HandleCompress, Do
        <4>2. ReadArchive
          BY <2>8, <3>4, <4>1 DEF ServerAdvances, ServerGets, ServerAtEnd
        <4>3. sarch' = sarch
          BY <4>2 DEF ReadArchive
        <4>4. CASE server.pos = 6
          <5>1. sreg' = [sreg EXCEPT !.hash = sarch[ServerKey]]
            BY <4>1, <4>2, <4>4 DEF ReadArchive
          <5>2. sreg'.hash = Archive(alg, sfiles)
            BY <2>2, <3>1, <4>4, <5>1 DEF Blank
          <5> QED
            BY <2>2, <2>3, <3>1, <4>3, <4>4, <5>2
        <4>5. CASE server.pos = 9
          <5>1. sreg' = [sreg EXCEPT !.body = sarch[ServerKey]]
            BY <4>1, <4>2, <4>5 DEF ReadArchive
          <5>2. sreg'.body = Archive(alg, sfiles) /\ sreg'.hash = sreg.hash
            BY <2>2, <3>1, <4>5, <5>1 DEF Blank
          <5> QED
            BY <2>2, <2>3, <3>1, <4>3, <4>5, <5>2
        <4> QED
          BY <3>4, <4>4, <4>5
      <3>5. CASE server.pos \notin {1, 6, 9}
        BY <2>2, <2>3, <3>1, <3>2, <3>5
      <3> QED
        BY <3>3, <3>4, <3>5
    <2> QED
      BY <1>2, <1>4, <2>6, <2>7, <2>8, WorkerRegs
  <1> QED
    BY <1>3, <1>4

(* The files of the server change only while one is sent.                   *)
LEMMA WorkerLeavesFiles ==
  ASSUME SidesOK, Framed, WorkerStep, ~ClientGone, client.cmd # "send"
  PROVE  sfiles' = sfiles
  <1>1. ~CheckExisting
    <2> SUFFICES ASSUME CheckExisting PROVE FALSE
      OBVIOUS
    <2>1. ServerRunning /\ server.cmd = "send" /\ server.pos = 8
      BY AtOps DEF CheckExisting, ServerDoes, ServerOpAt
    <2> QED
      BY <2>1, WorkerAtFile
  <1>2. ~StoreFile
    <2> SUFFICES ASSUME StoreFile PROVE FALSE
      OBVIOUS
    <2>1. ServerRunning /\ server.cmd = "send" /\ server.pos = 12
      BY AtOps DEF StoreFile, ServerDoes, ServerOpAt
    <2> QED
      BY <2>1, WorkerAtFile
  <1> QED
    BY <1>1, <1>2, WorkerFiles

LEMMA WorkerFetches ==
  ASSUME SidesOK, Framed, DataOK, FetchedOK, WorkerStep
  PROVE  FetchedOK'
  <1> SUFFICES ASSUME ~ClientGone', client'.cmd = "compress" PROVE FetchedOK'
    BY DEF FetchedOK
  <1>1. ~ClientGone /\ UNCHANGED cvars
    BY WorkerSteps, WorkerLeavesClient DEF ClientGone
  <1>2. sfiles' = sfiles
    BY <1>1, WorkerLeavesFiles DEF cvars
  <1> QED
    BY <1>1, <1>2 DEF FetchedOK, cvars, Archived, ArchiveKey

(* With nothing to read the worker stays in its loop, or goes.              *)
LEMMA WorkerWaits ==
  ASSUME SidesOK, WorkerStep, server.cmd = "loop", server.pos = 1, c2s = <<>>
  PROVE  server'.cmd = "loop" /\ server'.pos = 1 /\ c2s' = <<>>
  <1>1. ServerOp.do = "get" /\ ServerOp.kind = "cmd"
    BY DEF ServerOp, ServerScript, CommandLoop, Get
  <1>2. ~ServerReturns /\ ~Dispatch
    BY WorkerReturnPlace
  <1>3. /\ ~ServerPuts /\ ~ServerGets /\ ~ServerRefused /\ ~ServerMisreads /\ ~ServerLocal /\ ~ArchiveUnreadable
        /\ \A steps, code : ~ServerReplies(steps, code)
    BY <1>1 DEF ServerPuts, ServerGets, ServerRefused, ServerMisreads, ServerLocal, ArchiveUnreadable,
       ServerReplies
  <1>4. CASE ServerAtEnd
    BY <1>1, <1>4, ServerForms DEF ServerAtEnd, channels
  <1>5. CASE ServerFails
    BY <1>5, ServerForms DEF ServerFails, channels
  <1>6. CASE ServerLeaves
    BY <1>6, ServerForms DEF ServerLeaves, channels
  <1> QED
    BY <1>2, <1>3, <1>4, <1>5, <1>6, WorkerSteps

LEMMA WorkerReceives ==
  ASSUME SidesOK, DataOK, ReceivedOK, WorkerStep
  PROVE  ReceivedOK'
  <1> SUFFICES ASSUME note' = "received" PROVE ReceivedOK'
    BY DEF ReceivedOK
  <1>1. UNCHANGED cvars /\ ~ServerGone
    BY WorkerSteps, WorkerLeavesClient
  <1>2. /\ client.cmd = "compress" /\ client.pos = 14 /\ received[ArchiveKey] = Archived /\ c2s = <<>>
        /\ \/ server.cmd = "compress" /\ server.pos >= 13
           \/ server.cmd = "loop" /\ server.pos = 1
    BY <1>1 DEF ReceivedOK, cvars
  <1>3. sfiles' = sfiles
    BY <1>2, WorkerFilesKept
  <1>4. CASE server.cmd = "loop" /\ server.pos = 1
    BY <1>1, <1>2, <1>3, <1>4, WorkerWaits DEF ReceivedOK, cvars, Archived, ArchiveKey
  <1>5. CASE server.cmd = "compress" /\ server.pos >= 13
    <2>1. Len(ServerScript[server.cmd]) = 13 /\ server.pos \in Nat
      BY <1>5, ServerLengths DEF SidesOK, ServerOK
    <2>2. CASE ServerReturns
      <3>1. server'.cmd = "loop" /\ server'.pos = 1 /\ c2s' = c2s
        BY <2>2, WorkerReturnPlace DEF ServerReturns, channels
      <3> QED
        BY <1>1, <1>2, <1>3, <3>1 DEF ReceivedOK, cvars, Archived, ArchiveKey
    <2>3. CASE ~ServerReturns
      <3>1. ~Dispatch
        BY <1>5, WorkerReturnPlace
      <3>2. server'.cmd = "compress" /\ c2s' = <<>>
        BY <1>2, <1>5, <2>3, <3>1, WorkerRegs
      <3>3. server'.pos = server.pos \/ server'.pos = Len(ServerScript[server.cmd]) + 1 \/ server'.pos = server.pos + 1
        BY <2>3, <3>1, WorkerRegs DEF ServerAdvances
      <3>4. server'.pos >= 13
        BY <1>5, <2>1, <3>3
      <3> QED
        BY <1>1, <1>2, <1>3, <3>2, <3>4 DEF ReceivedOK, cvars, Archived, ArchiveKey
    <2> QED
      BY <2>2, <2>3
  <1> QED
    BY <1>2, <1>4, <1>5

(* The file that was deleted to be replaced: the worker goes on to its      *)
(* arrival, or cannot create it.                                            *)
LEMMA WorkerUploads ==
  ASSUME SidesOK, WorkerStep, ~ClientGone, ~CreateFile, ~StoreFile, ~ServerGone',
         server.cmd = "send", server.pos \in 9 .. 12
  PROVE  server'.cmd = "send" /\ server'.pos \in 9 .. 12 /\ sreg'.arg = sreg.arg
  <1>1. ~ServerReturns /\ ~Dispatch
    <2>1. Len(ServerScript[server.cmd]) = 14
      BY ServerLengths
    <2> QED
      BY <2>1, WorkerReturnPlace
  <1>2. server'.cmd = "send"
    BY <1>1, WorkerRegs
  <1>3. CASE server'.pos = server.pos /\ sreg' = sreg
    BY <1>2, <1>3
  <1>4. CASE ServerAdvances
    <2>1. server.pos # 12
      BY <1>4, WorkerStores DEF ServerAdvances
    <2>2. sreg'.arg = sreg.arg
      BY <1>4, WorkerKeeps
    <2> QED
      BY <1>2, <1>4, <2>1, <2>2 DEF ServerAdvances
  <1>5. CASE ServerRunning /\ server'.pos = Len(ServerScript[server.cmd]) + 1
    <2>1. server'.pos = 15
      <3>1. Len(ServerScript[server.cmd]) = 14
        BY ServerLengths
      <3> QED
        BY <1>5, <3>1
    <2>2. ServerOp = CASE server.pos = 9 -> OK [] server.pos = 10 -> Do("create")
                       [] server.pos = 11 -> Get("file", "body") [] server.pos = 12 -> Do("store")
      BY DEF ServerOp, ServerScript, HandleSend
    <2>3. ServerOp.kind # "rsp" \/ ServerOp.do = "put"
      BY <2>2 DEF OK, Put, Do, Get
    <2>4. ServerOp.x \notin {"existing", "tar", "open", "stat", "hash", "delete", "set_name", "set_index"}
      BY <2>2 DEF OK, Put, Do, Get
    <2>5. ~ServerRefused /\ ~ServerAtEnd /\ ~ServerFails
      BY <2>3 DEF ServerRefused, ServerAtEnd, ServerFails
    <2>6. ~ServerPuts /\ ~ServerGets /\ ~ServerMisreads /\ ~ServerKilled
      BY <2>1, ServerForms DEF ServerPuts, ServerGets, ServerMisreads, ServerKilled
    <2>7. ~ServerFileFails
      BY <2>1, ServerForms DEF ServerFileFails
    <2>8. /\ ~CheckExisting /\ ~MakeArchive /\ ~ReadArchive /\ ~OpenFails /\ ~DeleteArchive
          /\ ~SetServerName /\ ~SetServerIndex
      BY <2>4 DEF CheckExisting, MakeArchive, ReadArchive, OpenFails, DeleteArchive, SetServerName,
         SetServerIndex, ServerDoes
    <2> QED
      BY <1>1, <2>5, <2>6, <2>7, <2>8 DEF WorkerStep, ServerStep
  <1> QED
    BY <1>1, <1>3, <1>4, <1>5, WorkerRegs

LEMMA WorkerCreates ==
  ASSUME SidesOK, Framed, WorkerStep, CreateFile, ~ClientGone
  PROVE  /\ server.cmd = "send" /\ server.pos = 10
         /\ \/ server'.cmd = "send" /\ server'.pos = 11 /\ sreg' = sreg
            \/ FileUnwanted'
  <1>1. ServerRunning /\ server.cmd = "send" /\ server.pos = 10 /\ ~ServerGone
        /\ ServerOp.do = "do" /\ ServerOp.x = "create"
    BY AtOps DEF CreateFile, ServerDoes, ServerOpAt, ServerRunning, ServerGone
  <1>2. CASE server' = Step(server)
    BY <1>1, <1>2, ServerForms DEF CreateFile
  <1>3. CASE RepliesAndReturns("err") /\ Fault("create")
    <2>1. ServerReplies({"create"}, "err") /\ "create" \in faulted'
      BY <1>1, <1>3 DEF RepliesAndReturns, ServerReplies, Fault, CreateFile
    <2>2. SDone = 10
      BY <1>1, SendPlaces DEF SDone
    <2>3. ~Overlapping
      <3>1. Dialogue["send"][12].who = "server" /\ 12 \in SDone + 1 .. Length("send")
        BY <2>2, SendPlaces
      <3> QED
        BY <1>1, <3>1 DEF Overlapping, PutBy
    <2>4. ~ServerEnded("send") /\ ~Stale /\ ~Silent
      BY <1>1, ServerLengths DEF ServerEnded, Stale, Silent
    <2>5. ~ServerRefuses /\ ~ClientRefuses /\ ~ArchiveUnread /\ ~ArchiveUnwanted /\ ~FileUnwanted
      BY <1>1, <2>4 DEF ServerRefuses, ClientRefuses, ArchiveUnread, ArchiveUnwanted, FileUnwanted, ServerEnded
    <2>6. Together(10)
      BY <1>1, <2>2, <2>3, <2>4, <2>5 DEF Framed, Talking, Together
    <2>7. client' = client /\ creg' = creg
      BY WorkerSteps
    <2>8. FileUnwanted'
      BY <1>1, <2>1, <2>6, <2>7, WorkerGivesUp
    <2> QED
      BY <1>1, <2>8
  <1> QED
    BY <1>2, <1>3 DEF CreateFile

LEMMA WorkerFileUnwanted ==
  ASSUME SidesOK, WorkerStep, FileUnwanted, ~ClientGone, ~ServerGone'
  PROVE  FileUnwanted'
  <1>1. /\ client' = client /\ creg' = creg /\ ~ServerGone /\ faulted \subseteq faulted'
        /\ (ClientGone' <=> ClientGone)
    BY WorkerSteps DEF ClientGone
  <1>2. CASE ServerMisreads
    <2>1. server'.cmd = server.cmd /\ server'.pos = server.pos /\ UNCHANGED channels
      BY <1>2, ServerForms DEF ServerMisreads
    <2> QED
      BY <1>1, <2>1 DEF channels, FileUnwanted, ServerEnded, Begins, Begun, ClientEnded, Channels
  <1>3. CASE WorkerTurn /\ ~ServerMisreads
    BY <1>1, <1>3, WorkerUnwanted
  <1>4. ~ServerAtEnd /\ ~ServerFails
    BY DEF ServerAtEnd, ServerFails
  <1>5. ~ServerLeaves
    BY ServerForms DEF ServerLeaves, ServerGone
  <1> QED
    BY <1>1, <1>2, <1>3, <1>4, <1>5, WorkerSteps DEF WorkerTurn

(* At the deletion, the file of the old version is the one that is coming.  *)
LEMMA WorkerDeletesOld ==
  ASSUME SidesOK, DataOK, CheckExisting, ~ClientGone, NEW f \in Files, sfiles[f] # Absent
  PROVE  \/ sfiles'[f] # Absent
         \/ server'.cmd = "send" /\ server'.pos \in 9 .. 12 /\ sreg'.arg = f
  <1>1. server.cmd = "send" /\ server.pos = 8 /\ sreg' = sreg
    BY AtOps DEF CheckExisting, ServerDoes, ServerOpAt
  <1>2. DOMAIN sfiles = Files
    BY DEF DataOK, TypeOK
  <1>3. CASE sfiles' = sfiles
    BY <1>3
  <1>4. CASE sfiles' = WithStored(Absent) /\ server' = Step(server)
    <2>1. server'.cmd = "send" /\ server'.pos = 9
      BY <1>1, <1>4, ServerForms
    <2>2. CASE sreg.arg = f
      BY <1>1, <2>1, <2>2
    <2>3. CASE sreg.arg # f
      BY <1>2, <1>4, <2>3 DEF WithStored
    <2> QED
      BY <2>2, <2>3
  <1> QED
    BY <1>3, <1>4 DEF CheckExisting

(* A file that arrives is there, whole or not, and no other goes.           *)
LEMMA WorkerFilesStay ==
  ASSUME SidesOK, DataOK, StoreFile, NEW f \in Files, sfiles[f] # Absent \/ sreg.arg = f
  PROVE  sfiles'[f] # Absent
  <1>1. server.cmd = "send" /\ server.pos = 12
    BY AtOps DEF StoreFile, ServerDoes, ServerOpAt
  <1>2. PICK written \in {sreg.body, Torn} : sfiles' = WithStored(written)
    BY DEF StoreFile
  <1>3. written # Absent /\ DOMAIN sfiles = Files
    <2>1. sreg.body # Absent /\ DOMAIN sfiles = Files
      BY <1>1 DEF DataOK, BytesOK, TypeOK
    <2>2. Torn # Absent
      BY DEF Torn, Absent
    <2> QED
      BY <2>1, <2>2
  <1> QED
    BY <1>2, <1>3 DEF WithStored

LEMMA WorkerLeftovers ==
  ASSUME SidesOK, Framed, DataOK, Leftovers, WorkerStep
  PROVE  Leftovers'
  <1> SUFFICES ASSUME ~ClientGone', ~ServerGone',
                      NEW k \in ArchiveKeys, NEW f \in Files,
                      sarch'[k] # Absent, sarch'[k][3][f] # Absent
               PROVE  \/ sfiles'[f] # Absent
                      \/ server'.cmd = "send" /\ server'.pos \in 9 .. 12 /\ sreg'.arg = f
                      \/ FileUnwanted'
    BY DEF Leftovers
  <1>1. ~ClientGone /\ ~ServerGone
    BY WorkerSteps DEF ClientGone
  <1>2. ASSUME sarch[k] # Absent, sarch[k][3][f] # Absent
        PROVE  \/ sfiles[f] # Absent
               \/ server.cmd = "send" /\ server.pos \in 9 .. 12 /\ sreg.arg = f
               \/ FileUnwanted
    BY <1>1, <1>2 DEF Leftovers
  <1>3. ASSUME server.cmd = "send", server.pos \in 8 .. 12 PROVE ~FileUnwanted
    <2>1. Len(ServerScript["send"]) = 14
      BY ServerLengths
    <2> QED
      BY <1>3, <2>1 DEF FileUnwanted, ServerEnded
  <1>4. CASE CheckExisting
    <2>1. server.cmd = "send" /\ server.pos = 8 /\ sarch' = sarch
      BY <1>4, AtOps DEF CheckExisting, ServerDoes, ServerOpAt
    <2>2. sfiles[f] # Absent
      BY <1>2, <1>3, <2>1
    <2> QED
      BY <1>1, <1>4, <2>2, WorkerDeletesOld
  <1>5. CASE StoreFile
    <2>1. server.cmd = "send" /\ server.pos = 12 /\ sarch' = sarch
      BY <1>5, AtOps DEF StoreFile, ServerDoes, ServerOpAt
    <2>2. sfiles[f] # Absent \/ sreg.arg = f
      BY <1>2, <1>3, <2>1
    <2> QED
      BY <1>5, <2>2, WorkerFilesStay
  <1>6. CASE MakeArchive /\ sarch' # sarch
    <2>1. server.cmd = "compress" /\ sfiles' = sfiles /\ sarch' = [sarch EXCEPT ![ServerKey] = NewArchive]
      BY <1>6, AtOps DEF MakeArchive, ServerDoes, ServerOpAt
    <2>2. CASE k = ServerKey
      <3>1. sarch'[k] = Archive(alg, sfiles)
        BY <1>1, <2>1, <2>2, NewArchiveIsCurrent DEF DataOK, TypeOK
      <3>2. sarch'[k][3] = sfiles
        BY <3>1 DEF Archive
      <3> QED
        BY <2>1, <3>2
    <2>3. CASE k # ServerKey
      <3>1. sarch'[k] = sarch[k]
        BY <2>1, <2>3 DEF DataOK, TypeOK
      <3>2. ~FileUnwanted
        BY <2>1 DEF FileUnwanted, ServerEnded
      <3> QED
        BY <1>2, <2>1, <3>1, <3>2
    <2> QED
      BY <2>2, <2>3
  <1>7. CASE DeleteArchive
    <2>1. /\ server.cmd = "compress" /\ sfiles' = sfiles
          /\ sarch' = [sarch EXCEPT ![ServerKey] = Absent] \/ sarch' = sarch
      BY <1>7, AtOps DEF DeleteArchive, ServerDoes, ServerOpAt
    <2>2. sarch'[k] = sarch[k]
      BY <2>1 DEF DataOK, TypeOK
    <2>3. ~FileUnwanted
      BY <2>1 DEF FileUnwanted, ServerEnded
    <2> QED
      BY <1>2, <2>1, <2>2, <2>3
  <1>8. CASE sarch' = sarch /\ sfiles' = sfiles /\ ~StoreFile
    <2>1. CASE FileUnwanted
      BY <1>1, <2>1, WorkerFileUnwanted
    <2>2. CASE server.cmd = "send" /\ server.pos \in 9 .. 12 /\ sreg.arg = f
      <3>1. CASE CreateFile
        BY <1>1, <2>2, <3>1, WorkerCreates
      <3>2. CASE ~CreateFile
        BY <1>1, <1>8, <2>2, <3>2, WorkerUploads
      <3> QED
        BY <3>1, <3>2
    <2> QED
      BY <1>2, <1>8, <2>1, <2>2
  <1> QED
    BY <1>4, <1>5, <1>6, <1>7, <1>8, WorkerArchives, WorkerFiles

LEMMA WorkerArchive ==
  ASSUME SidesOK, Framed, DataOK, ArchiveInv, WorkerStep
  PROVE  ArchiveInv'
  BY WorkerMakes, WorkerFetches, WorkerReceives, WorkerLeftovers DEF ArchiveInv

LEMMA ArchiveInit == Init => ArchiveInv
  BY DEF Init, ArchiveInv, MadeOK, FetchedOK, ReceivedOK, Leftovers

LEMMA ArchiveStep == FrameInv /\ DataOK /\ ConfigInv /\ ArchiveInv /\ [Next]_vars => ArchiveInv'
  <1> SUFFICES ASSUME FrameInv, DataOK, ConfigInv, ArchiveInv, [Next]_vars PROVE ArchiveInv'
    OBVIOUS
  <1>1. SidesOK /\ StreamKept
    BY DEF FrameInv
  <1>2. CASE ShellStep
    BY <1>1, <1>2, ShellArchive, ShellSteps DEF StreamKept
  <1>3. CASE WorkerStep
    BY <1>1, <1>3, WorkerArchive, WorkerSteps DEF StreamKept
  <1>4. CASE UNCHANGED vars
    <2>1. MadeOK' /\ FetchedOK' /\ ReceivedOK'
      BY <1>4 DEF vars, channels, cvars, svars, ArchiveInv, MadeOK, FetchedOK, ReceivedOK, Archived, ArchiveKey,
         ServerKey, ClientGone, ServerGone
    <2>2. Leftovers'
      BY <1>4 DEF vars, channels, cvars, svars, ArchiveInv, Leftovers, ClientGone, ServerGone, FileUnwanted,
         ServerEnded, Begins, Begun, ClientEnded, Channels
    <2> QED
      BY <2>1, <2>2 DEF ArchiveInv
  <1> QED
    BY <1>2, <1>3, <1>4 DEF Next, ShellStep, WorkerStep

(* What an archive left on the server holds is stored there, so that also   *)
(* zip makes the archive of the stored files; what the worker sends and the *)
(* shell keeps is that archive (handle_send(), handle_compress(),           *)
(* do_compress()).                                                          *)
THEOREM ArchiveInvariant == Spec => [](FrameInv /\ DataOK /\ ConfigInv /\ ArchiveInv)
  <1>1. FrameInv /\ DataOK /\ ConfigInv /\ ArchiveInv /\ [Next]_vars
          => (FrameInv /\ DataOK /\ ConfigInv /\ ArchiveInv)'
    BY FrameStep, DataStep, ConfigStep, ArchiveStep
  <1>2. Init => FrameInv /\ DataOK /\ ConfigInv /\ ArchiveInv
    BY FrameInit, DataInit, ConfigInit, ArchiveInit
  <1> QED
    BY <1>1, <1>2, PTL DEF Spec

(* When the shell says that an archive was received, the archive of the     *)
(* configured name is in the folder, made by the configured compressor from *)
(* the files the server holds, whatever archives were left behind and       *)
(* whatever fault happened (do_compress(), handle_compress()).              *)
THEOREM ReceivedIsCurrent == Spec => []ReceivedArchiveIsCurrent
  <1>1. ArchiveInv => ReceivedArchiveIsCurrent
    BY DEF ArchiveInv, ReceivedOK, ReceivedArchiveIsCurrent, Archived
  <1> QED
    BY <1>1, ArchiveInvariant, PTL
=============================================================================
