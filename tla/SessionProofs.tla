----------------------------- MODULE SessionProofs -----------------------------
(***************************************************************************)
(* Theorems of Session, for every set of files, versions, names and        *)
(* compressors and every set of faults: a session is one worker thread of  *)
(* Workers.  With PoolRefinesWorkers this is what joins the two halves of  *)
(* the model: the conversation behaves as ServerPool takes it to.          *)
(***************************************************************************)
EXTENDS Session, TLAPS

(* Both sides are at an operation of a script, or at the end of one.        *)
SidesInv ==
  /\ DOMAIN client = {"mode", "cmd", "pos"}
  /\ DOMAIN server = {"mode", "cmd", "pos"}
  /\ server.cmd \in DOMAIN ServerScript
  /\ server.pos \in Nat \ {0}

(* Which functions of the worker hold the operations that can end it: the   *)
(* loop reads and dispatches commands, only send and compress read files.   *)
LEMMA ServerOps ==
  ASSUME NEW cmd \in DOMAIN ServerScript, NEW p \in 1 .. Len(ServerScript[cmd])
  PROVE  LET op == ServerScript[cmd][p]
         IN  /\ op.do = "get" /\ op.kind = "cmd" => cmd = "loop"
             /\ op.do = "do" /\ op.x = "dispatch" => cmd = "loop"
             /\ op.do = "do" /\ op.x \in {"stat", "hash", "open", "store", "delete"}
                  => cmd \in {"send", "compress"}
  <1> USE DEF ServerScript, Put, Get, Do, Ack, OK, BYE
  <1>1. CASE cmd = "hello"
    BY <1>1 DEF SendHello
  <1>2. CASE cmd = "loop"
    BY <1>2 DEF CommandLoop
  <1>3. CASE cmd = "send"
    BY <1>3 DEF HandleSend
  <1>4. CASE cmd = "check"
    BY <1>4 DEF HandleConfigurationCheck
  <1>5. CASE cmd = "rename"
    BY <1>5 DEF HandleConfigureName
  <1>6. CASE cmd = "comp"
    BY <1>6 DEF HandleConfigureCompressor
  <1>7. CASE cmd = "compress"
    BY <1>7 DEF HandleCompress
  <1>8. CASE cmd = "help"
    BY <1>8
  <1>9. CASE cmd = "show"
    BY <1>9 DEF HandleShowConfiguration, HandleConfigurationCheck
  <1> QED
    BY <1>1, <1>2, <1>3, <1>4, <1>5, <1>6, <1>7, <1>8, <1>9 DEF ServerScript

LEMMA ScriptLengths == \A cmd \in DOMAIN ServerScript : Len(ServerScript[cmd]) \in Nat
  BY DEF ServerScript, SendHello, CommandLoop, HandleSend, HandleConfigurationCheck,
         HandleShowConfiguration, HandleConfigureName, HandleConfigureCompressor, HandleCompress

LEMMA HandlerIsFunction == \A cmd : HandlerOf(cmd) \in DOMAIN ServerScript \ {"hello", "loop"}
  BY DEF HandlerOf, ServerScript

-----------------------------------------------------------------------------
(* What a step of the shell does that the worker can notice: nothing, but   *)
(* that a client that was there may be gone.                                *)
LEMMA ShellEffect ==
  ASSUME DOMAIN client = {"mode", "cmd", "pos"},
         \/ AtPrompt \/ Refuses \/ ClientStep \/ ClientKilled
         \/ \E f \in Files, v \in Versions : Edit(f, v)
  PROVE  /\ server' = server
         /\ DOMAIN client' = {"mode", "cmd", "pos"}
         /\ client.mode \notin {"left", "aborted", "killed"}
  <1> USE DEF svars, Ends, Enter, Step, Finish
  <1>1. CASE AtPrompt \/ Refuses
    BY <1>1 DEF AtPrompt, Refuses, Starts
  <1>2. CASE ClientReturns
    BY <1>2 DEF ClientReturns
  <1>3. CASE ClientPuts \/ ClientGets \/ ClientRefused \/ ClientMisreads
    BY <1>3 DEF ClientPuts, ClientGets, ClientRefused, ClientMisreads, ClientRunning
  <1>4. CASE ClientAtEnd \/ ClientFails
    BY <1>4 DEF ClientAtEnd, ClientFails, ClientRunning
  <1>5. CASE EnableCompressor \/ ReadLocal \/ ClientFileFails \/ SendSucceeds \/ SetConfig
    BY <1>5 DEF EnableCompressor, ReadLocal, ClientFileFails, SendSucceeds, SetConfig,
                ClientDoes, ClientRunning
  <1>6. CASE CreateArchive \/ VerifyArchive \/ ArchiveReceived
    BY <1>6 DEF CreateArchive, VerifyArchive, ArchiveReceived, ClientDoes, ClientRunning
  <1>7. CASE ClientKilled \/ \E f \in Files, v \in Versions : Edit(f, v)
    BY <1>7 DEF ClientKilled, Edit, ClientGone
  <1> QED
    BY <1>1, <1>2, <1>3, <1>4, <1>5, <1>6, <1>7 DEF ClientStep

(* The ways the place of the worker changes in a step of its own.           *)
ServerMove ==
  \/ server' = Step(server) \/ server' = Finish(server, ServerScript)
  \/ server' = Ends(server, "lost")
  \/ server.pos > Len(ServerScript[server.cmd]) /\ server' = Enter(server, "loop")
  \/ server.cmd = "loop" /\ server' = Ends(server, "closed")
  \/ server.cmd = "hello" /\ ClientGone /\ server' = Ends(server, "closed")
  \/ server.cmd = "loop" /\ server' = Enter(server, HandlerOf(sreg.cmd))
  \/ ClientGone /\ server' = Ends(server, "terminated")
  \/ /\ server.cmd \in {"send", "compress"} /\ Faults \cap {"io", "read"} # {}
     /\ server' = Ends(server, "terminated")

LEMMA WorkerEffect ==
  ASSUME SidesInv, ServerStep
  PROVE  client' = client /\ server.mode = "run" /\ ServerMove
  <1> USE DEF cvars, ServerMove
  <1>1. ServerRunning =>
          LET op == ServerOp
          IN  /\ op.do = "get" /\ op.kind = "cmd" => server.cmd = "loop"
              /\ op.do = "do" /\ op.x = "dispatch" => server.cmd = "loop"
              /\ op.do = "do" /\ op.x \in {"stat", "hash", "open", "store", "delete"}
                   => server.cmd \in {"send", "compress"}
    BY ServerOps, ScriptLengths DEF ServerRunning, ServerOp, SidesInv
  <1>2. CASE ServerReturns
    BY <1>2 DEF ServerReturns
  <1>3. CASE ServerPuts \/ ServerGets \/ ServerRefused \/ ServerMisreads
    BY <1>3 DEF ServerPuts, ServerGets, ServerRefused, ServerMisreads, ServerRunning
  <1>4. CASE ServerAtEnd
    BY <1>1, <1>4 DEF ServerAtEnd, ServerRunning
  <1>5. CASE ServerFails
    BY <1>5 DEF ServerFails, ServerRunning
  <1>6. CASE Dispatch
    BY <1>1, <1>6 DEF Dispatch, ServerDoes, ServerRunning
  <1>7. CASE SetServerName \/ SetServerIndex \/ ReadArchive \/ DeleteArchive
    BY <1>7 DEF SetServerName, SetServerIndex, ReadArchive, DeleteArchive,
                ServerDoes, ServerRunning
  <1>8. CASE CheckExisting \/ CreateFile \/ StoreFile \/ MakeArchive
    BY <1>8 DEF CheckExisting, CreateFile, StoreFile, MakeArchive, RepliesAndReturns,
                ServerDoes, ServerRunning
  <1>9. CASE ServerFileFails
    BY <1>1, <1>9 DEF ServerFileFails, Fault, ServerDoes, ServerRunning
  <1>10. CASE OpenFails
    BY <1>1, <1>10 DEF OpenFails, Fault, ServerDoes, ServerRunning
  <1> QED
    BY <1>2, <1>3, <1>4, <1>5, <1>6, <1>7, <1>8, <1>9, <1>10 DEF ServerStep

LEMMA SidesInit == Init => SidesInv
  BY DEF Init, SidesInv, ServerScript

LEMMA SidesStep == SidesInv /\ [Next]_vars => SidesInv'
  <1> SUFFICES ASSUME SidesInv, [Next]_vars PROVE SidesInv'
    OBVIOUS
  <1>1. CASE ServerStep
    <2>1. client' = client /\ ServerMove
      BY <1>1, WorkerEffect
    <2>2. ASSUME NEW how, server' = Ends(server, how) PROVE SidesInv'
      BY <2>1, <2>2 DEF SidesInv, Ends
    <2>3. ASSUME NEW cmd \in DOMAIN ServerScript, server' = Enter(server, cmd) PROVE SidesInv'
      BY <2>1, <2>3 DEF SidesInv, Enter
    <2>4. CASE server' = Step(server)
      BY <2>1, <2>4 DEF SidesInv, Step
    <2>5. CASE server' = Finish(server, ServerScript)
      <3>1. Len(ServerScript[server.cmd]) + 1 \in Nat \ {0}
        BY ScriptLengths DEF SidesInv
      <3> QED
        BY <2>1, <2>5, <3>1 DEF SidesInv, Finish
    <2>6. "loop" \in DOMAIN ServerScript /\ HandlerOf(sreg.cmd) \in DOMAIN ServerScript
      BY HandlerIsFunction DEF ServerScript
    <2> QED
      BY <2>1, <2>2, <2>3, <2>4, <2>5, <2>6 DEF ServerMove
  <1>2. CASE ServerKilled
    BY <1>2 DEF ServerKilled, SidesInv, Ends, cvars
  <1>3. CASE UNCHANGED vars
    BY <1>3 DEF vars, cvars, svars, SidesInv
  <1> QED
    BY <1>1, <1>2, <1>3, ShellEffect DEF Next, SidesInv
-----------------------------------------------------------------------------
(* The session as Workers sees it.                                          *)

LEMMA ShellRefines ==
  ASSUME SidesInv, server' = server, client.mode \notin {"left", "aborted", "killed"}
  PROVE  [Worker!Next]_(Worker!wvars)
  <1>1. CASE ~ClientGone'
    BY <1>1 DEF ClientGone, Worker!wvars
  <1>2. CASE ClientGone'
    <2>1. Worker!PeerCloses("client")
      BY <1>2 DEF ClientGone, ThisClient, Worker!PeerCloses
    <2> QED
      BY <2>1 DEF Worker!Next, ThisClient
  <1> QED
    BY <1>1, <1>2

LEMMA WorkerRefines ==
  ASSUME SidesInv, client' = client, server.mode = "run", ServerMove
  PROVE  [Worker!Next]_(Worker!wvars)
  <1> USE DEF SidesInv, StageOf, ThisClient
  <1>0. ClientGone' = ClientGone
    BY DEF ClientGone
  <1>1. CASE server' = Step(server) \/ server' = Finish(server, ServerScript)
             \/ server' = Ends(server, "lost")
    BY <1>0, <1>1 DEF Step, Finish, Ends, Worker!wvars
  <1>2. CASE server' = Enter(server, "loop")
    BY <1>0, <1>2 DEF Enter, Worker!wvars, Worker!Next, Worker!Greet, Worker!Finish, Worker!Moves
  <1>3. CASE /\ server.cmd = "loop" \/ (server.cmd = "hello" /\ ClientGone)
             /\ server' = Ends(server, "closed")
    BY <1>0, <1>3 DEF Ends, Worker!Next, Worker!Leave, Worker!Moves
  <1>4. CASE server.cmd = "loop" /\ server' = Enter(server, HandlerOf(sreg.cmd))
    BY <1>0, <1>4, HandlerIsFunction DEF Enter, Worker!Next, Worker!Receive, Worker!Moves
  <1>5. CASE /\ ClientGone \/ (server.cmd \in {"send", "compress"} /\ Faults \cap {"io", "read"} # {})
             /\ server' = Ends(server, "terminated")
    BY <1>0, <1>5 DEF Ends, Worker!Next, Worker!Terminate
  <1> QED
    BY <1>1, <1>2, <1>3, <1>4, <1>5 DEF ServerMove

(* One session, whatever its faults, passes the stages of a worker in their *)
(* order, and its thread is left by an exception only where the client is   *)
(* gone or a file of a command failed (handle_command(), command_parser()). *)
THEOREM SessionRefinesWorkers == Spec => ImplementsWorkers
  <1>1. Init => Worker!Init
    BY DEF Init, Worker!Init, StageOf, ThisClient, ClientGone
  <1>2. SidesInv /\ [Next]_vars => [Worker!Next]_(Worker!wvars)
    <2> SUFFICES ASSUME SidesInv, [Next]_vars PROVE [Worker!Next]_(Worker!wvars)
      OBVIOUS
    <2>1. CASE ServerStep
      BY <2>1, WorkerEffect, WorkerRefines
    <2>2. CASE ServerKilled
      <3>1. Worker!ProcessEnds
        BY <2>2 DEF ServerKilled, ServerGone, ClientGone, Ends, cvars, SidesInv, StageOf,
                    Worker!ProcessEnds
      <3> QED
        BY <3>1 DEF Worker!Next
    <2>3. CASE UNCHANGED vars
      BY <2>3 DEF vars, cvars, svars, ClientGone, Worker!wvars
    <2> QED
      BY <2>1, <2>2, <2>3, ShellEffect, ShellRefines DEF Next, SidesInv
  <1>3. Spec => []SidesInv
    BY SidesInit, SidesStep, PTL DEF Spec
  <1> QED
    BY <1>1, <1>2, <1>3, PTL DEF Spec, ImplementsWorkers, Worker!Spec
=============================================================================
