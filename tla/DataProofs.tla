------------------------------- MODULE DataProofs -------------------------------
(***************************************************************************)
(* Theorems of Session about what the two sides hold: what one takes from  *)
(* the connection is what the other may put on it, and the configurations  *)
(* agree between commands, for every set of files, versions, names and     *)
(* compressors and every set of faults.                                    *)
(***************************************************************************)
EXTENDS FramingProofs

(* The steps of the scripts that touch the data.                            *)
LEMMA ClientLengths ==
  /\ Len(ClientScript["hello"]) = 8 /\ Len(ClientScript["send"]) = 17
  /\ Len(ClientScript["check"]) = 10 /\ Len(ClientScript["show"]) = 10
  /\ Len(ClientScript["rename"]) = 8 /\ Len(ClientScript["comp"]) = 6
  /\ Len(ClientScript["compress"]) = 13
  BY DEF ClientScript, CommandLine, DoSend, ConfigurationCheck, DoShowConf, GetConfig, DoConfName, DoConfComp,
         DoCompress

LEMMA ServerLengths ==
  /\ Len(ServerScript["loop"]) = 3 /\ Len(ServerScript["send"]) = 14
  /\ Len(ServerScript["check"]) = 7 /\ Len(ServerScript["show"]) = 7
  /\ Len(ServerScript["rename"]) = 6 /\ Len(ServerScript["comp"]) = 4
  /\ Len(ServerScript["compress"]) = 13
  BY DEF ServerScript, CommandLoop, HandleSend, HandleConfigurationCheck, HandleShowConfiguration,
         HandleConfigureName, HandleConfigureCompressor, HandleCompress

(* Where the shell does what, and where it keeps what it gets.              *)
ClientOpAt(op, cmd, p) ==
  /\ op.do = "do" =>
       /\ op.x = "set_name"  => cmd = "rename" /\ p = 8
       /\ op.x = "set_index" => cmd = "comp" /\ p = 6
       /\ op.x \in {"adopt", "fix"} => cmd \in {"show", "check"} /\ p = 10
       /\ op.x \in {"enable_zip", "enable_xz"} => cmd = "hello"
       /\ op.x = "stat" => cmd = "send" /\ p = 7
       /\ op.x = "hash" => cmd = "send" /\ p = 10
       /\ op.x = "open" => cmd = "send" /\ p = 13
       /\ op.x = "sent" => cmd = "send" /\ p = 17
       /\ op.x = "received" => cmd = "compress" /\ p = 13
       /\ op.x = "create" => cmd = "compress" /\ p = 8
       /\ op.x = "verify" => cmd = "compress" /\ p = 10
  /\ op.do = "get" =>
       /\ op.x \in {"none", "flag", "name", "index", "hash", "body"}
       /\ op.x = "flag"  => cmd = "hello"
       /\ op.x = "name"  <=> cmd \in {"show", "check"} /\ p = 5
       /\ op.x = "index" <=> cmd \in {"show", "check"} /\ p = 7
       /\ op.x = "hash"  <=> cmd = "compress" /\ p = 6
       /\ op.x = "body"  <=> cmd = "compress" /\ p = 9
       /\ op.kind = "rsp" => op.x = "none"
       /\ cmd \in {"show", "check"} /\ p = 9 => op.kind = "rsp"
  /\ op.do = "put" /\ op.kind = "rsp" => op.x \in {"ack", "bye"}
  /\ cmd = "send" => /\ op.do = "put" <=> p \in {1, 3, 5, 8, 11, 14, 16}
                     /\ p = 13 => op.do = "do" /\ op.x = "open"
  /\ cmd \in {"show", "check"} => (op.do = "get" <=> p \in {2, 3, 5, 7, 9})

LEMMA ClientTable ==
  ASSUME NEW cmd \in DOMAIN ClientScript, NEW p \in 1 .. Len(ClientScript[cmd])
  PROVE  ClientOpAt(ClientScript[cmd][p], cmd, p)
  <1> USE DEF ClientScript, Put, Get, Do, Ack, OK, BYE, ClientOpAt
  <1>1. CASE cmd = "hello"
    BY <1>1 DEF CommandLine
  <1>2. CASE cmd = "help"
    BY <1>2 DEF DoHelp
  <1>3. CASE cmd = "quit"
    BY <1>3 DEF DoQuit
  <1>4. CASE cmd = "check"
    BY <1>4 DEF ConfigurationCheck, GetConfig
  <1>5. CASE cmd = "show"
    BY <1>5 DEF DoShowConf, GetConfig
  <1>6. CASE cmd = "rename"
    BY <1>6 DEF DoConfName
  <1>7. CASE cmd = "comp"
    BY <1>7 DEF DoConfComp
  <1>8. CASE cmd = "compress"
    BY <1>8 DEF DoCompress
  <1>9. CASE cmd = "send"
    BY <1>9 DEF DoSend
  <1> QED
    BY <1>1, <1>2, <1>3, <1>4, <1>5, <1>6, <1>7, <1>8, <1>9

(* The same of the worker.                                                  *)
ServerOpAt(op, cmd, p) ==
  /\ op.do = "do" =>
       /\ op.x = "set_name"  => cmd = "rename" /\ p = 6
       /\ op.x = "set_index" => cmd = "comp" /\ p = 4
       /\ op.x = "dispatch"  => cmd = "loop" /\ p = 3
       /\ op.x = "existing"  => cmd = "send" /\ p = 8
       /\ op.x = "create"    => cmd = "send" /\ p = 10
       /\ op.x = "store"     => cmd = "send" /\ p = 12
       /\ op.x = "tar"       => cmd = "compress" /\ p = 1
       /\ op.x = "stat"      => cmd = "compress" /\ p = 3
       /\ op.x = "hash"      => cmd = "compress" /\ p = 6
       /\ op.x = "open"      => cmd = "compress" /\ p = 9
       /\ op.x = "delete"    => cmd = "compress" /\ p = 13
  /\ op.do = "get" =>
       /\ op.x \in {"none", "cmd", "arg", "name", "index", "hash", "body"}
       /\ op.x = "cmd"   <=> cmd = "loop"
       /\ op.x = "arg"   <=> cmd = "send" /\ p = 3
       /\ op.x = "hash"  <=> cmd = "send" /\ p = 7
       /\ op.x = "body"  <=> cmd = "send" /\ p = 11
       /\ op.x = "name"  <=> cmd = "rename" /\ p = 3
       /\ op.x = "index" <=> cmd = "comp" /\ p = 1
       /\ op.kind = "rsp" => op.x = "none"
       /\ op.kind = "cmd" <=> cmd = "loop"
       /\ cmd = "rename" /\ p \in 4 .. 6 => p = 5 /\ op.kind = "rsp"
       /\ cmd = "comp" /\ p \in 2 .. 4 => p = 3 /\ op.kind = "rsp"
  /\ op.do = "put" /\ op.kind = "rsp" => op.x \in {"ack", "bye"}
  /\ cmd \in {"send", "compress"} => (op.do = "do" <=> \/ cmd = "send" /\ p \in {8, 10, 12}
                                                       \/ cmd = "compress" /\ p \in {1, 3, 6, 9, 13})

LEMMA ServerTable ==
  ASSUME NEW cmd \in DOMAIN ServerScript, NEW p \in 1 .. Len(ServerScript[cmd])
  PROVE  ServerOpAt(ServerScript[cmd][p], cmd, p)
  <1> USE DEF ServerScript, Put, Get, Do, Ack, OK, BYE, ServerOpAt
  <1>1. CASE cmd = "hello"
    BY <1>1 DEF SendHello
  <1>2. CASE cmd = "loop"
    BY <1>2 DEF CommandLoop
  <1>3. CASE cmd = "help"
    BY <1>3
  <1>4. CASE cmd = "send"
    BY <1>4 DEF HandleSend
  <1>5. CASE cmd = "check"
    BY <1>5 DEF HandleConfigurationCheck
  <1>6. CASE cmd = "show"
    BY <1>6 DEF HandleShowConfiguration, HandleConfigurationCheck
  <1>7. CASE cmd = "rename"
    BY <1>7 DEF HandleConfigureName
  <1>8. CASE cmd = "comp"
    BY <1>8 DEF HandleConfigureCompressor
  <1>9. CASE cmd = "compress"
    BY <1>9 DEF HandleCompress
  <1> QED
    BY <1>1, <1>2, <1>3, <1>4, <1>5, <1>6, <1>7, <1>8, <1>9

(* The operation a side is at.                                              *)
LEMMA AtOps ==
  ASSUME SidesOK
  PROVE  /\ ClientRunning => /\ ClientOpAt(ClientOp, client.cmd, client.pos)
                             /\ client.pos \in 1 .. Len(ClientScript[client.cmd])
         /\ ServerRunning => /\ ServerOpAt(ServerOp, server.cmd, server.pos)
                             /\ server.pos \in 1 .. Len(ServerScript[server.cmd])
  <1>1. ClientRunning => /\ client.cmd \in DOMAIN ClientScript
                         /\ client.pos \in 1 .. Len(ClientScript[client.cmd])
    BY ClientPlace
  <1>2. ServerRunning => /\ server.cmd \in DOMAIN ServerScript
                         /\ server.pos \in 1 .. Len(ServerScript[server.cmd])
    BY ScriptLengths DEF SidesOK, ServerOK, ServerRunning
  <1> QED
    BY <1>1, <1>2, ClientTable, ServerTable DEF ClientOp, ServerOp

(* How a side moves.                                                        *)
LEMMA ClientForms ==
  ASSUME SidesOK
  PROVE  /\ client' = Step(client) =>
              client'.cmd = client.cmd /\ client'.pos = client.pos + 1 /\ client'.mode = client.mode
         /\ client' = Finish(client, ClientScript) =>
              /\ client'.cmd = client.cmd /\ client'.pos = Len(ClientScript[client.cmd]) + 1
              /\ client'.mode = client.mode
         /\ \A how : client' = Ends(client, how) =>
              client'.cmd = client.cmd /\ client'.pos = client.pos /\ client'.mode = how
         /\ \A cmd : client' = Enter(client, cmd) =>
              client'.cmd = cmd /\ client'.pos = 1 /\ client'.mode = "run"
  BY DEF SidesOK, ClientOK, Step, Finish, Ends, Enter

LEMMA ServerForms ==
  ASSUME SidesOK
  PROVE  /\ server' = Step(server) =>
              server'.cmd = server.cmd /\ server'.pos = server.pos + 1 /\ server'.mode = server.mode
         /\ server' = Finish(server, ServerScript) =>
              /\ server'.cmd = server.cmd /\ server'.pos = Len(ServerScript[server.cmd]) + 1
              /\ server'.mode = server.mode
         /\ \A how : server' = Ends(server, how) =>
              server'.cmd = server.cmd /\ server'.pos = server.pos /\ server'.mode = how
         /\ \A cmd : server' = Enter(server, cmd) =>
              server'.cmd = cmd /\ server'.pos = 1 /\ server'.mode = "run"
  BY DEF SidesOK, ServerOK, Step, Finish, Ends, Enter

(* What the worker has does not change in a step of the shell, nor the      *)
(* other way round.                                                         *)
LEMMA ShellLeavesServer ==
  ASSUME ShellStep
  PROVE  UNCHANGED svars
  <1> USE DEF svars
  <1>1. CASE \/ AtPrompt \/ Refuses \/ ClientKilled \/ \E f \in Files, v \in Versions : Edit(f, v)
             \/ ClientReturns
    BY <1>1 DEF AtPrompt, Starts, Refuses, ClientKilled, Edit, ClientReturns
  <1>2. CASE ClientPuts \/ ClientGets \/ ClientRefused \/ ClientMisreads \/ ClientAtEnd \/ ClientFails
    BY <1>2 DEF ClientPuts, ClientGets, ClientRefused, ClientMisreads, ClientAtEnd, ClientFails
  <1>3. CASE \/ EnableCompressor \/ ReadLocal \/ ClientFileFails \/ SendSucceeds \/ SetConfig
             \/ CreateArchive \/ VerifyArchive \/ ArchiveReceived
    BY <1>3 DEF EnableCompressor, ReadLocal, ClientFileFails, SendSucceeds, SetConfig, CreateArchive,
                VerifyArchive, ArchiveReceived
  <1> QED
    BY <1>1, <1>2, <1>3 DEF ShellStep, ClientStep

LEMMA WorkerLeavesClient ==
  ASSUME WorkerStep
  PROVE  UNCHANGED cvars
  <1> USE DEF cvars
  <1>1. CASE ServerReturns \/ ServerKilled \/ ServerPuts \/ ServerGets \/ ServerRefused \/ ServerMisreads
    BY <1>1 DEF ServerReturns, ServerKilled, ServerPuts, ServerGets, ServerRefused, ServerMisreads
  <1>2. CASE ServerAtEnd \/ ServerFails \/ Dispatch \/ SetServerName \/ SetServerIndex
    BY <1>2 DEF ServerAtEnd, ServerFails, Dispatch, SetServerName, SetServerIndex
  <1>3. CASE \/ CheckExisting \/ CreateFile \/ StoreFile \/ MakeArchive \/ ReadArchive \/ OpenFails
             \/ ServerFileFails \/ DeleteArchive
    BY <1>3 DEF CheckExisting, CreateFile, StoreFile, MakeArchive, ReadArchive, OpenFails,
                ServerFileFails, DeleteArchive
  <1> QED
    BY <1>1, <1>2, <1>3 DEF WorkerStep, ServerStep

-----------------------------------------------------------------------------
(* What the variables hold, the regard of the other side left out.          *)

ConfigType == [name : ArchiveNames, index : Compressors, enabled : SUBSET {"zip", "xz"},
               sent : 0 .. MaxSends, at : 0 .. MaxSends, dirty : BOOLEAN]

(* The shell sets only what it was told.                                    *)
LEMMA ShellConfigType ==
  ASSUME SidesOK, DataOK, ShellStep
  PROVE  cconf' \in ConfigType
  <1>1. cconf \in ConfigType /\ MaxSends \in Nat
    BY SessionAssumption DEF DataOK, TypeOK, ConfigType
  <1>2. CASE EnableCompressor
    BY <1>1, <1>2 DEF EnableCompressor, ConfigType
  <1>3. CASE SetConfig
    <2>1. ClientRunning /\ ClientOp.do = "do" /\ ClientOp.x \in {"set_name", "set_index", "adopt", "fix"}
          /\ ~ClientGone
      BY <1>3 DEF SetConfig, ClientDoes, ClientRunning, ClientGone
    <2>2. ClientOpAt(ClientOp, client.cmd, client.pos) /\ client.pos \in 1 .. Len(ClientScript[client.cmd])
      BY <2>1, AtOps
    <2>3. CASE ClientOp.x = "set_name"
      <3>1. client.cmd = "rename" /\ client.pos <= Len(ClientScript[client.cmd])
        BY <2>1, <2>2, <2>3 DEF ClientOpAt
      <3>2. creg.arg \in ArchiveNames
        BY <3>1 DEF DataOK, ArgOK
      <3>3. cconf' = [cconf EXCEPT !.name = creg.arg, !.dirty = TRUE]
        BY <1>3, <2>3 DEF SetConfig
      <3> QED
        BY <1>1, <3>2, <3>3 DEF ConfigType
    <2>4. CASE ClientOp.x = "set_index"
      <3>1. client.cmd = "comp" /\ client.pos <= Len(ClientScript[client.cmd])
        BY <2>1, <2>2, <2>4 DEF ClientOpAt
      <3>2. creg.arg \in Compressors
        BY <3>1 DEF DataOK, ArgOK
      <3>3. cconf' = [cconf EXCEPT !.index = creg.arg, !.dirty = TRUE]
        BY <1>3, <2>4 DEF SetConfig
      <3> QED
        BY <1>1, <3>2, <3>3 DEF ConfigType
    <2>5. CASE ClientOp.x \in {"adopt", "fix"}
      <3>1. Reports(client) /\ client.pos = 10
        BY <2>1, <2>2, <2>5 DEF ClientOpAt, Reports
      <3>2. creg.name \in ArchiveNames /\ creg.index \in Compressors
        BY <3>1 DEF DataOK, TakenOK
      <3>3. \E d \in BOOLEAN : cconf' = [cconf EXCEPT !.name = creg.name, !.index = creg.index, !.dirty = d]
        <4>1. cconf.dirty \in BOOLEAN
          BY <1>1 DEF ConfigType
        <4>2. CASE ClientOp.x = "adopt"
          BY <1>3, <4>2 DEF SetConfig
        <4>3. CASE ClientOp.x = "fix"
          <5>1. (cconf.dirty \/ creg.name # cconf.name \/ creg.index # cconf.index) \in BOOLEAN
            OBVIOUS
          <5>2. cconf' = [cconf EXCEPT !.name = creg.name, !.index = creg.index,
                          !.dirty = cconf.dirty \/ creg.name # cconf.name \/ creg.index # cconf.index]
            BY <1>3, <4>3 DEF SetConfig
          <5> QED
            BY <5>1, <5>2
        <4> QED
          BY <2>5, <4>2, <4>3
      <3> QED
        BY <1>1, <3>2, <3>3 DEF ConfigType
    <2> QED
      BY <2>1, <2>3, <2>4, <2>5
  <1>4. CASE ArchiveReceived
    BY <1>1, <1>4 DEF ArchiveReceived, ConfigType
  <1>5. CASE ClientReturns
    <2>1. client.cmd = "send" => cconf.sent + 1 \in 0 .. MaxSends
      BY <1>1, <1>5 DEF ClientReturns, DataOK, CountOK, ConfigType
    <2>2. CASE client.cmd = "send"
      <3>1. cconf' = [cconf EXCEPT !.sent = cconf.sent + 1]
        BY <1>5, <2>2 DEF ClientReturns
      <3> QED
        BY <1>1, <2>1, <2>2, <3>1 DEF ConfigType
    <2>3. CASE client.cmd # "send"
      BY <1>1, <1>5, <2>3 DEF ClientReturns, ConfigType
    <2> QED
      BY <2>2, <2>3
  <1>6. CASE cconf' = cconf
    BY <1>1, <1>6
  <1>7. CASE \/ AtPrompt \/ Refuses \/ ClientKilled \/ \E f \in Files, v \in Versions : Edit(f, v)
             \/ ClientPuts \/ ClientGets \/ ClientRefused \/ ClientMisreads \/ ClientAtEnd \/ ClientFails
             \/ ReadLocal \/ ClientFileFails \/ SendSucceeds \/ CreateArchive \/ VerifyArchive
    BY <1>6, <1>7 DEF AtPrompt, Starts, Refuses, ClientKilled, Edit, ClientPuts, ClientGets, ClientRefused,
         ClientMisreads, ClientAtEnd, ClientFails, ReadLocal, ClientFileFails, SendSucceeds, CreateArchive,
         VerifyArchive
  <1> QED
    BY <1>2, <1>3, <1>4, <1>5, <1>7 DEF ShellStep, ClientStep

LEMMA ShellTypes ==
  ASSUME SidesOK, SidesOK', DataOK, ShellStep
  PROVE  TypeOK'
  <1>1. cconf' \in ConfigType
    BY ShellConfigType
  <1>2. UNCHANGED svars
    BY ShellLeavesServer
  <1>3. local' \in [Files -> {<<v>> : v \in Versions}]
    <2>1. local \in [Files -> {<<v>> : v \in Versions}]
      BY DEF DataOK, TypeOK
    <2>2. ASSUME NEW f \in Files, NEW v \in Versions, Edit(f, v)
          PROVE  local' \in [Files -> {<<w>> : w \in Versions}]
      BY <2>1, <2>2 DEF Edit
    <2>3. local' = local \/ \E f \in Files, v \in Versions : Edit(f, v)
      <3>1. CASE AtPrompt \/ Refuses \/ ClientKilled \/ ClientReturns
        BY <3>1 DEF AtPrompt, Starts, Refuses, ClientKilled, ClientReturns
      <3>2. CASE ClientPuts \/ ClientGets \/ ClientRefused \/ ClientMisreads \/ ClientAtEnd \/ ClientFails
        BY <3>2 DEF ClientPuts, ClientGets, ClientRefused, ClientMisreads, ClientAtEnd, ClientFails
      <3>3. CASE \/ EnableCompressor \/ ReadLocal \/ ClientFileFails \/ SendSucceeds \/ SetConfig
                 \/ CreateArchive \/ VerifyArchive \/ ArchiveReceived
        BY <3>3 DEF EnableCompressor, ReadLocal, ClientFileFails, SendSucceeds, SetConfig, CreateArchive,
                    VerifyArchive, ArchiveReceived
      <3> QED
        BY <3>1, <3>2, <3>3 DEF ShellStep, ClientStep
    <2> QED
      BY <2>1, <2>2, <2>3
  <1>4. /\ DOMAIN received' = ArchiveKeys /\ faulted' \subseteq Faults
        /\ note' \in {"none", "sent", "present", "received", "no_files", "already", "failed"}
    <2>1. /\ DOMAIN received = ArchiveKeys /\ faulted \subseteq Faults
          /\ note \in {"none", "sent", "present", "received", "no_files", "already", "failed"}
      BY DEF DataOK, TypeOK
    <2> USE <2>1 DEF Fault
    <2>2. CASE AtPrompt \/ Refuses \/ ClientKilled \/ ClientReturns
               \/ \E f \in Files, v \in Versions : Edit(f, v)
      BY <2>2 DEF AtPrompt, Starts, Refuses, ClientKilled, ClientReturns, Edit
    <2>3. CASE ClientPuts \/ ClientGets \/ ClientRefused \/ ClientMisreads \/ ClientAtEnd \/ ClientFails
      BY <2>3 DEF ClientPuts, ClientGets, ClientRefused, ClientMisreads, ClientAtEnd, ClientFails
    <2>4. CASE \/ EnableCompressor \/ ReadLocal \/ ClientFileFails \/ SendSucceeds \/ SetConfig
               \/ ArchiveReceived
      BY <2>4 DEF EnableCompressor, ReadLocal, ClientFileFails, SendSucceeds, SetConfig, ArchiveReceived
    <2>5. CASE CreateArchive
      BY <2>5 DEF CreateArchive
    <2>6. CASE VerifyArchive
      BY <2>6 DEF VerifyArchive
    <2> QED
      BY <2>2, <2>3, <2>4, <2>5, <2>6 DEF ShellStep, ClientStep
  <1>5. /\ client' \in [mode : Modes, cmd : DOMAIN ClientScript, pos : Nat]
        /\ server' \in [mode : Modes, cmd : DOMAIN ServerScript, pos : Nat]
        /\ DOMAIN creg' = DOMAIN Blank /\ DOMAIN sreg' = DOMAIN Blank
    BY DEF SidesOK, ClientOK, ServerOK, Modes
  <1> QED
    BY <1>1, <1>2, <1>3, <1>4, <1>5 DEF DataOK, TypeOK, ConfigType, svars

(* What a step of the worker takes for a setting is one; the files are      *)
(* written with what was received, or with bytes cut short.                 *)
LEMMA WorkerTypes ==
  ASSUME SidesOK, SidesOK', DataOK, WorkerStep
  PROVE  TypeOK'
  <1>0. TypeOK
    BY DEF DataOK
  <1>1. UNCHANGED cvars
    BY WorkerLeavesClient
  <1>2. faulted' \subseteq Faults /\ DOMAIN sarch' = ArchiveKeys
    <2> USE <1>0 DEF Fault, TypeOK
    <2>1. CASE ServerReturns \/ ServerKilled \/ ServerPuts \/ ServerGets \/ ServerRefused \/ ServerMisreads
      BY <2>1 DEF ServerReturns, ServerKilled, ServerPuts, ServerGets, ServerRefused, ServerMisreads
    <2>2. CASE ServerAtEnd \/ ServerFails \/ Dispatch \/ SetServerName \/ SetServerIndex
      BY <2>2 DEF ServerAtEnd, ServerFails, Dispatch, SetServerName, SetServerIndex
    <2>3. CASE CheckExisting \/ CreateFile \/ ReadArchive \/ OpenFails \/ ServerFileFails \/ DeleteArchive
      BY <2>3 DEF CheckExisting, CreateFile, ReadArchive, OpenFails, ServerFileFails, DeleteArchive
    <2>4. CASE StoreFile
      BY <2>4 DEF StoreFile
    <2>5. CASE MakeArchive
      BY <2>5 DEF MakeArchive
    <2> QED
      BY <2>1, <2>2, <2>3, <2>4, <2>5 DEF WorkerStep, ServerStep
  <1>3. /\ sconf' \in [name : ArchiveNames, index : Compressors]
        /\ alg' \in Compressors
    <2>0. sconf \in [name : ArchiveNames, index : Compressors] /\ alg \in Compressors
      BY <1>0 DEF TypeOK
    <2>1. CASE sconf' = sconf /\ alg' = alg
      BY <2>0, <2>1
    <2>2. CASE SetServerName
      <3>1. server.cmd = "rename" /\ server.pos = 6
        BY <2>2, AtOps DEF SetServerName, ServerDoes, ServerOpAt
      <3>2. sreg.name \in ArchiveNames
        BY <3>1 DEF DataOK, TakenOK
      <3> QED
        BY <2>0, <2>2, <3>2 DEF SetServerName
    <2>3. CASE SetServerIndex
      <3>1. server.cmd = "comp" /\ server.pos = 4
        BY <2>3, AtOps DEF SetServerIndex, ServerDoes, ServerOpAt
      <3>2. sreg.index \in Compressors
        BY <3>1 DEF DataOK, TakenOK
      <3> QED
        BY <2>0, <2>3, <3>2 DEF SetServerIndex
    <2>4. CASE ServerReturns \/ ServerKilled \/ ServerPuts \/ ServerGets \/ ServerRefused \/ ServerMisreads
      BY <2>1, <2>4 DEF ServerReturns, ServerKilled, ServerPuts, ServerGets, ServerRefused, ServerMisreads
    <2>5. CASE ServerAtEnd \/ ServerFails \/ Dispatch
      BY <2>1, <2>5 DEF ServerAtEnd, ServerFails, Dispatch
    <2>6. CASE \/ CheckExisting \/ CreateFile \/ StoreFile \/ MakeArchive \/ ReadArchive \/ OpenFails
               \/ ServerFileFails \/ DeleteArchive
      BY <2>1, <2>6 DEF CheckExisting, CreateFile, StoreFile, MakeArchive, ReadArchive, OpenFails,
                  ServerFileFails, DeleteArchive
    <2> QED
      BY <2>2, <2>3, <2>4, <2>5, <2>6 DEF WorkerStep, ServerStep
  <1>4. sfiles' \in [Files -> FileContents]
    <2>0. sfiles \in [Files -> FileContents]
      BY <1>0 DEF TypeOK
    <2>1. ASSUME NEW v \in FileContents PROVE WithStored(v) \in [Files -> FileContents]
      BY <2>0 DEF WithStored
    <2>2. Absent \in FileContents /\ Torn \in FileContents
      BY DEF FileContents
    <2>3. CASE CheckExisting
      BY <2>0, <2>1, <2>2, <2>3 DEF CheckExisting
    <2>4. CASE StoreFile
      <3>1. server.cmd = "send" /\ server.pos = 12
        BY <2>4, AtOps DEF StoreFile, ServerDoes, ServerOpAt
      <3>2. sreg.body \in FileContents
        BY <3>1 DEF DataOK, BytesOK
      <3>3. \E written \in {sreg.body, Torn} : sfiles' = WithStored(written)
        BY <2>4 DEF StoreFile
      <3> QED
        BY <2>1, <2>2, <3>2, <3>3
    <2>5. CASE ServerReturns \/ ServerKilled \/ ServerPuts \/ ServerGets \/ ServerRefused \/ ServerMisreads
      BY <2>0, <2>5 DEF ServerReturns, ServerKilled, ServerPuts, ServerGets, ServerRefused, ServerMisreads
    <2>6. CASE ServerAtEnd \/ ServerFails \/ Dispatch \/ SetServerName \/ SetServerIndex
      BY <2>0, <2>6 DEF ServerAtEnd, ServerFails, Dispatch, SetServerName, SetServerIndex
    <2>7. CASE CreateFile \/ MakeArchive \/ ReadArchive \/ OpenFails \/ ServerFileFails \/ DeleteArchive
      BY <2>0, <2>7 DEF CreateFile, MakeArchive, ReadArchive, OpenFails, ServerFileFails, DeleteArchive
    <2> QED
      BY <2>3, <2>4, <2>5, <2>6, <2>7 DEF WorkerStep, ServerStep
  <1>5. /\ client' \in [mode : Modes, cmd : DOMAIN ClientScript, pos : Nat]
        /\ server' \in [mode : Modes, cmd : DOMAIN ServerScript, pos : Nat]
        /\ DOMAIN creg' = DOMAIN Blank /\ DOMAIN sreg' = DOMAIN Blank
    BY DEF SidesOK, ClientOK, ServerOK, Modes
  <1> QED
    BY <1>0, <1>1, <1>2, <1>3, <1>4, <1>5 DEF TypeOK, cvars

-----------------------------------------------------------------------------
(* What a side hears in the middle of a dialogue.                           *)

(* A message of the client after which it waits for an answer.              *)
LEMMA ServerHears ==
  ASSUME SidesOK, Framed, ServerRunning, c2s # <<>>,
         server.cmd # "loop", ~(server.cmd = "compress" /\ server.pos \in 8 .. 11),
         SDone + 2 <= Length(server.cmd), Dialogue[server.cmd][SDone + 2].who = "server"
  PROVE  /\ client.cmd = server.cmd /\ CDone = SDone + 1
         /\ Head(c2s) = Message(creg, Dialogue[server.cmd][SDone + 1])
  <1>1. /\ ~ServerGone /\ server.pos # Len(ServerScript[server.cmd]) + 1
        /\ SDone \in Nat /\ Length(server.cmd) \in Nat /\ CDone \in Nat
    BY ServerPlace, ClocksInRange DEF ServerRunning, ServerGone
  <1>2. Talking
    <2>1. ~Overlapping
      BY <1>1 DEF Overlapping, PutBy
    <2>2. ~ServerRefuses /\ ~ArchiveUnread /\ ~FileUnwanted
      BY <1>1 DEF ServerRefuses, ArchiveUnread, FileUnwanted, ServerEnded
    <2>3. ~ClientRefuses /\ ~ArchiveUnwanted
      BY DEF ClientRefuses, ArchiveUnwanted
    <2>4. ~Stale /\ ~Silent
      BY <1>1 DEF Stale, Silent
    <2> QED
      BY <2>1, <2>2, <2>3, <2>4 DEF Framed
  <1>3. client.cmd = server.cmd /\ Between(SDone)
    BY <1>2 DEF Talking
  <1>4. SDone < CDone
    BY <1>1, <1>3, Ahead
  <1>5. CDone = SDone + 1
    BY <1>1, <1>3, <1>4 DEF Between, PutBy
  <1>6. c2s = InFlight(client.cmd, SDone, CDone, creg)
    BY <1>1, <1>3 DEF Between, Channels
  <1> QED
    BY <1>1, <1>3, <1>4, <1>5, <1>6, GetInFlight

(* The shell, in a command with no error path.                              *)
LEMMA ClientTalks ==
  ASSUME SidesOK, Framed, Met, client.cmd \notin {"send", "compress"}, ~Begins, ~ClientEnded
  PROVE  \E b \in Nat : TalkingAt(b)
  <1>1. ~Overlapping /\ ~ServerRefuses /\ ~ArchiveUnread /\ ~ClientRefuses
    BY DEF Overlapping, ServerRefuses, ArchiveUnread, ClientRefuses
  <1>2. ~ArchiveUnwanted /\ ~FileUnwanted /\ ~Stale
    BY DEF ArchiveUnwanted, FileUnwanted, Stale
  <1>3. ~Silent
    BY DEF Silent, Met
  <1> QED
    BY <1>1, <1>2, <1>3, TalkingSomewhere DEF Framed

(* A message of the server after which it waits for an answer.              *)
LEMMA ClientHears ==
  ASSUME SidesOK, NEW b \in Nat, TalkingAt(b), ~ClientGone, s2c # <<>>,
         CDone >= 2, CDone + 2 <= Length(client.cmd), Dialogue[client.cmd][CDone + 2].who = "client"
  PROVE  /\ server.cmd = client.cmd /\ SDone = CDone + 1 /\ b = SDone
         /\ Head(s2c) = Message(sreg, Dialogue[client.cmd][CDone + 1])
  <1>1. CDone \in Nat /\ Length(client.cmd) \in Nat
    BY ClocksInRange
  <1>2. CDone < b
    BY Ahead DEF TalkingAt
  <1>3. b = CDone + 1
    BY <1>1, <1>2 DEF TalkingAt, Between, PutBy
  <1>4. s2c = InFlight(client.cmd, CDone, b, sreg)
    BY DEF TalkingAt, Between, Channels
  <1>5. ~(server.cmd = "loop" /\ b = SDone)
    BY <1>1, <1>3, ClocksInRange
  <1>6. Head(s2c) = Message(sreg, Dialogue[client.cmd][CDone + 1])
    BY <1>1, <1>2, <1>4, GetInFlight
  <1>7. server.cmd = client.cmd /\ b = SDone
    BY <1>1, <1>3, <1>5 DEF TalkingAt
  <1> QED
    BY <1>3, <1>6, <1>7

-----------------------------------------------------------------------------
(* The registers.                                                           *)

(* A step of the shell in a function, and what it does to its registers.    *)
ClientAdvances ==
  /\ ClientRunning /\ client'.pos = client.pos + 1 /\ client'.mode = client.mode
  /\ \/ /\ ClientOp.do = "put" \/ (ClientOp.do = "do" /\ ClientOp.x \notin {"stat", "hash", "open"})
        /\ creg' = creg
     \/ ReadLocal
     \/ ClientGets /\ creg' = Store(creg, ClientOp.x, Head(s2c).val)
     \/ /\ ClientAtEnd /\ ClientOp.do = "get" /\ ClientOp.kind # "rsp" /\ ServerGone /\ s2c = <<>>
        /\ \E j : creg' = Store(creg, ClientOp.x, j)

LEMMA ShellRegs ==
  ASSUME SidesOK, ShellStep, ~AtPrompt, ~ClientReturns
  PROVE  /\ client'.cmd = client.cmd /\ (client'.mode = "run" => client.mode = "run")
         /\ \/ client'.pos = client.pos /\ creg' = creg
            \/ ClientRunning /\ client'.pos = Len(ClientScript[client.cmd]) + 1 /\ creg' = creg
            \/ ClientAdvances
         /\ client.mode # "run" => client'.pos = client.pos
         /\ s2c = <<>> => s2c' = <<>>
  <1> USE ClientForms
  <1>1. CASE ClientPuts
    BY <1>1 DEF ClientPuts, ClientAdvances, ClientRunning
  <1>2. CASE ClientGets
    BY <1>2 DEF ClientGets, ClientAdvances, ClientRunning
  <1>3. CASE ClientRefused
    BY <1>3 DEF ClientRefused, ClientRunning
  <1>4. CASE ClientMisreads
    BY <1>4 DEF ClientMisreads, ClientRunning
  <1>5. CASE ClientAtEnd
    BY <1>5 DEF ClientAtEnd, ClientAdvances, ClientRunning, channels
  <1>6. CASE ClientFails
    BY <1>6 DEF ClientFails, ClientRunning, channels
  <1>7. CASE EnableCompressor \/ SendSucceeds \/ SetConfig \/ ArchiveReceived
    BY <1>7 DEF EnableCompressor, SendSucceeds, SetConfig, ArchiveReceived, ClientDoes, ClientAdvances,
                ClientRunning, channels
  <1>8. CASE ReadLocal
    BY <1>8 DEF ReadLocal, ClientDoes, ClientAdvances, ClientRunning, channels
  <1>9. CASE ClientFileFails
    BY <1>9 DEF ClientFileFails, ClientDoes, ClientRunning, channels
  <1>10. CASE CreateArchive
    BY <1>10 DEF CreateArchive, ClientDoes, ClientAdvances, ClientRunning, channels
  <1>11. CASE VerifyArchive
    BY <1>11 DEF VerifyArchive, ClientDoes, ClientAdvances, ClientRunning
  <1>12. CASE Refuses \/ ClientKilled \/ \E f \in Files, v \in Versions : Edit(f, v)
    BY <1>12 DEF Refuses, ClientKilled, Edit, channels
  <1> QED
    BY <1>1, <1>2, <1>3, <1>4, <1>5, <1>6, <1>7, <1>8, <1>9, <1>10, <1>11, <1>12 DEF ShellStep, ClientStep

(* The same of the worker.                                                  *)
ServerAdvances ==
  /\ ServerRunning /\ server'.pos = server.pos + 1 /\ server'.mode = server.mode
  /\ \/ /\ ServerOp.do = "put" \/ (ServerOp.do = "do" /\ ServerOp.x \notin {"stat", "hash", "open"})
        /\ sreg' = sreg
     \/ ReadArchive
     \/ ServerGets /\ sreg' = Store(sreg, ServerOp.x, Head(c2s).val)
     \/ /\ ServerAtEnd /\ ServerOp.do = "get" /\ ServerOp.kind # "rsp" /\ ClientGone /\ c2s = <<>>
        /\ \E j \in JunkOf(ServerOp.x) : sreg' = Store(sreg, ServerOp.x, j)

LEMMA WorkerRegs ==
  ASSUME SidesOK, WorkerStep, ~Dispatch, ~ServerReturns
  PROVE  /\ server'.cmd = server.cmd /\ (server'.mode = "run" => server.mode = "run")
         /\ \/ server'.pos = server.pos /\ sreg' = sreg
            \/ ServerRunning /\ server'.pos = Len(ServerScript[server.cmd]) + 1 /\ sreg' = sreg
            \/ ServerAdvances
         /\ c2s = <<>> => c2s' = <<>>
  <1> USE ServerForms
  <1>1. CASE ServerPuts
    BY <1>1 DEF ServerPuts, ServerAdvances, ServerRunning
  <1>2. CASE ServerGets
    BY <1>2 DEF ServerGets, ServerAdvances, ServerRunning
  <1>3. CASE ServerRefused
    BY <1>3 DEF ServerRefused, ServerRunning
  <1>4. CASE ServerMisreads
    BY <1>4 DEF ServerMisreads, ServerRunning
  <1>5. CASE ServerAtEnd
    BY <1>5 DEF ServerAtEnd, ServerAdvances, ServerRunning, channels
  <1>6. CASE ServerFails
    BY <1>6 DEF ServerFails, ServerRunning, channels
  <1>7. CASE SetServerName \/ SetServerIndex \/ DeleteArchive
    BY <1>7 DEF SetServerName, SetServerIndex, DeleteArchive, ServerDoes, ServerAdvances,
                ServerRunning, channels
  <1>8. CASE ReadArchive
    BY <1>8 DEF ReadArchive, ServerDoes, ServerAdvances, ServerRunning, channels
  <1>9. CASE OpenFails \/ ServerFileFails \/ ServerKilled
    BY <1>9 DEF OpenFails, ServerFileFails, ServerKilled, ServerDoes, ServerRunning, channels
  <1>10. ASSUME NEW code, ServerRunning, RepliesAndReturns(code), sreg' = sreg, c2s' = c2s
         PROVE  /\ server'.cmd = server.cmd /\ server.mode = "run" /\ sreg' = sreg /\ c2s' = c2s
                /\ \/ server'.pos = server.pos
                   \/ ServerRunning /\ server'.pos = Len(ServerScript[server.cmd]) + 1
    BY <1>10 DEF RepliesAndReturns, ServerRunning
  <1>11. ASSUME ServerDoes({"existing", "create", "store", "tar"}), server' = Step(server),
                sreg' = sreg, c2s' = c2s
         PROVE  server'.cmd = server.cmd /\ server.mode = "run" /\ ServerAdvances /\ c2s' = c2s
    BY <1>11 DEF ServerAdvances, ServerDoes, ServerRunning
  <1>12. CASE CheckExisting
    BY <1>10, <1>11, <1>12 DEF CheckExisting, ServerDoes
  <1>13. CASE CreateFile
    BY <1>10, <1>11, <1>13 DEF CreateFile, ServerDoes
  <1>14. CASE StoreFile
    BY <1>10, <1>11, <1>14 DEF StoreFile, ServerDoes
  <1>15. CASE MakeArchive
    BY <1>10, <1>11, <1>15 DEF MakeArchive, ServerDoes
  <1> QED
    BY <1>1, <1>2, <1>3, <1>4, <1>5, <1>6, <1>7, <1>8, <1>9, <1>12, <1>13, <1>14, <1>15
    DEF WorkerStep, ServerStep

(* Where a side is after a command.                                         *)
LEMMA ShellReturnPlace ==
  ASSUME SidesOK, ClientReturns
  PROVE  /\ client.pos = Len(ClientScript[client.cmd]) + 1 /\ client.mode = "run"
         /\ \/ client.cmd = "check" /\ client'.cmd = "compress" /\ client'.pos = 1
            \/ /\ client.cmd # "check" /\ client'.cmd = client.cmd /\ client'.pos = client.pos
               /\ client'.mode \in {"prompt", "left"}
  <1>1. client.pos = Len(ClientScript[client.cmd]) + 1 /\ client.mode = "run"
    BY ClientClockEnds DEF ClientReturns, SidesOK, ClientOK
  <1>2. CASE client.cmd = "check"
    BY <1>1, <1>2, ClientForms DEF ClientReturns
  <1>3. CASE client.cmd = "quit"
    BY <1>1, <1>3, ClientForms DEF ClientReturns
  <1>4. CASE client.cmd \notin {"check", "quit"}
    BY <1>1, <1>4, ClientForms DEF ClientReturns
  <1> QED
    BY <1>2, <1>3, <1>4

LEMMA StoreOther ==
  ASSUME NEW reg, DOMAIN reg = DOMAIN Blank, NEW x, NEW v
  PROVE  /\ \A y \in {"cmd", "arg", "hash", "body", "name", "index", "flag"} :
              Store(reg, x, v)[y] = IF x = y THEN v ELSE reg[y]
  BY DEF Store, Blank

(* Which register a step of a function changes.                             *)
LEMMA ShellKeeps ==
  ASSUME SidesOK, ClientAdvances
  PROVE  /\ creg'.arg = creg.arg
         /\ creg'.name = creg.name \/ (Reports(client) /\ client.pos = 5)
         /\ creg'.index = creg.index \/ (Reports(client) /\ client.pos = 7)
         /\ \/ creg'.hash = creg.hash
            \/ client.cmd = "send" /\ client.pos = 10
            \/ client.cmd = "compress" /\ client.pos = 6
         /\ \/ creg'.body = creg.body
            \/ client.cmd = "send" /\ client.pos = 13
            \/ client.cmd = "compress" /\ client.pos = 9
  <1>1. DOMAIN creg = DOMAIN Blank
    BY DEF SidesOK, ClientOK
  <1>2. ClientOpAt(ClientOp, client.cmd, client.pos)
    BY AtOps DEF ClientAdvances
  <1>3. CASE creg' = creg
    BY <1>3
  <1>4. CASE ReadLocal
    BY <1>1, <1>2, <1>4 DEF ReadLocal, ClientDoes, ClientOpAt, Blank
  <1>5. ASSUME NEW v, ClientOp.do = "get", creg' = Store(creg, ClientOp.x, v)
        PROVE  /\ creg'.arg = creg.arg
               /\ creg'.name = creg.name \/ (Reports(client) /\ client.pos = 5)
               /\ creg'.index = creg.index \/ (Reports(client) /\ client.pos = 7)
               /\ creg'.hash = creg.hash \/ (client.cmd = "compress" /\ client.pos = 6)
               /\ creg'.body = creg.body \/ (client.cmd = "compress" /\ client.pos = 9)
    BY <1>1, <1>2, <1>5, StoreOther DEF ClientOpAt, Reports
  <1>6. CASE creg' # creg /\ ~ReadLocal
    BY <1>5, <1>6 DEF ClientAdvances, ClientGets
  <1> QED
    BY <1>3, <1>4, <1>6

LEMMA WorkerKeeps ==
  ASSUME SidesOK, ServerAdvances
  PROVE  /\ sreg'.cmd = sreg.cmd \/ server.cmd = "loop"
         /\ sreg'.arg = sreg.arg \/ (server.cmd = "send" /\ server.pos = 3)
         /\ sreg'.name = sreg.name \/ (server.cmd = "rename" /\ server.pos = 3)
         /\ sreg'.index = sreg.index \/ (server.cmd = "comp" /\ server.pos = 1)
         /\ \/ sreg'.hash = sreg.hash
            \/ server.cmd = "send" /\ server.pos = 7
            \/ server.cmd = "compress" /\ server.pos = 6
         /\ \/ sreg'.body = sreg.body
            \/ server.cmd = "send" /\ server.pos = 11
            \/ server.cmd = "compress" /\ server.pos = 9
  <1>1. DOMAIN sreg = DOMAIN Blank
    BY DEF SidesOK, ServerOK
  <1>2. ServerOpAt(ServerOp, server.cmd, server.pos)
    BY AtOps DEF ServerAdvances
  <1>3. CASE sreg' = sreg
    BY <1>3
  <1>4. CASE ReadArchive
    BY <1>1, <1>2, <1>4 DEF ReadArchive, ServerDoes, ServerOpAt, Blank
  <1>5. ASSUME NEW v, ServerOp.do = "get", sreg' = Store(sreg, ServerOp.x, v)
        PROVE  /\ sreg'.cmd = sreg.cmd \/ server.cmd = "loop"
               /\ sreg'.arg = sreg.arg \/ (server.cmd = "send" /\ server.pos = 3)
               /\ sreg'.name = sreg.name \/ (server.cmd = "rename" /\ server.pos = 3)
               /\ sreg'.index = sreg.index \/ (server.cmd = "comp" /\ server.pos = 1)
               /\ sreg'.hash = sreg.hash \/ (server.cmd = "send" /\ server.pos = 7)
               /\ sreg'.body = sreg.body \/ (server.cmd = "send" /\ server.pos = 11)
    BY <1>1, <1>2, <1>5, StoreOther DEF ServerOpAt
  <1>6. CASE sreg' # sreg /\ ~ReadArchive
    BY <1>5, <1>6 DEF ServerAdvances, ServerGets
  <1> QED
    BY <1>3, <1>4, <1>6

LEMMA ShellArg ==
  ASSUME SidesOK, ArgOK, ShellStep
  PROVE  ArgOK'
  <1> USE DEF ArgOK
  <1>1. CASE AtPrompt
    <2> USE ClientForms DEF Starts, Blank
    <2>1. ASSUME NEW f \in Files, Starts("send", f) PROVE ArgOK'
      BY <2>1
    <2>2. ASSUME NEW n \in ArchiveNames, Starts("rename", n) PROVE ArgOK'
      BY <2>2
    <2>3. ASSUME NEW i \in Compressors, Starts("comp", i) PROVE ArgOK'
      BY <2>3
    <2>4. ASSUME NEW cmd \in {"show", "help", "quit", "check"}, Starts(cmd, "none") PROVE ArgOK'
      BY <2>4
    <2> QED
      BY <1>1, <2>1, <2>2, <2>3, <2>4 DEF AtPrompt
  <1>2. CASE ClientReturns
    <2>1. CASE client.cmd = "check"
      BY <1>2, <2>1, ClientForms DEF ClientReturns
    <2>2. CASE client.cmd # "check"
      <3>1. client'.cmd = client.cmd /\ client'.pos = client.pos
        BY <1>2, <2>2, ClientForms DEF ClientReturns
      <3>2. client.pos \in Nat /\ Len(ClientScript[client.cmd]) \in Nat
        BY ClientClockEnds DEF SidesOK, ClientOK
      <3> QED
        BY <1>2, <3>1, <3>2 DEF ClientReturns
    <2> QED
      BY <2>1, <2>2
  <1>3. CASE ~AtPrompt /\ ~ClientReturns
    <2>1. client'.cmd = client.cmd
      BY <1>3, ShellRegs
    <2>2. client.pos \in Nat /\ Len(ClientScript[client.cmd]) \in Nat
      BY ClientClockEnds DEF SidesOK, ClientOK
    <2>3. CASE client'.pos = client.pos /\ creg' = creg
      BY <2>1, <2>3
    <2>4. CASE client'.pos = Len(ClientScript[client.cmd]) + 1
      BY <2>1, <2>2, <2>4
    <2>5. CASE ClientAdvances
      <3>1. creg'.arg = creg.arg /\ client.pos <= Len(ClientScript[client.cmd])
        BY <2>5, ShellKeeps DEF ClientAdvances, ClientRunning
      <3> QED
        BY <2>1, <3>1
    <2> QED
      BY <1>3, <2>3, <2>4, <2>5, ShellRegs
  <1> QED
    BY <1>1, <1>2, <1>3

LEMMA ShellCounts ==
  ASSUME SidesOK, CountOK, ShellStep
  PROVE  CountOK'
  <1> USE DEF CountOK
  <1>1. CASE AtPrompt
    BY <1>1, ClientForms DEF AtPrompt, Starts
  <1>2. CASE ClientReturns
    <2>1. CASE client.cmd = "check"
      BY <1>2, <2>1, ClientForms DEF ClientReturns
    <2>2. CASE client.cmd # "check"
      BY <1>2, <2>2, ClientForms DEF ClientReturns
    <2> QED
      BY <2>1, <2>2
  <1>3. CASE ~AtPrompt /\ ~ClientReturns
    <2>1. SUFFICES ASSUME client.cmd = "send" PROVE cconf' = cconf
      BY <1>3, ShellRegs
    <2>2. ClientRunning => ClientOpAt(ClientOp, client.cmd, client.pos)
      BY AtOps
    <2>3. ~EnableCompressor /\ ~SetConfig /\ ~ArchiveReceived
      BY <2>1, <2>2 DEF EnableCompressor, SetConfig, ArchiveReceived, ClientDoes, ClientOpAt
    <2>4. CASE \/ Refuses \/ ClientKilled \/ \E f \in Files, v \in Versions : Edit(f, v)
               \/ ClientPuts \/ ClientGets \/ ClientRefused \/ ClientMisreads \/ ClientAtEnd \/ ClientFails
               \/ ReadLocal \/ ClientFileFails \/ SendSucceeds \/ CreateArchive \/ VerifyArchive
      BY <2>4 DEF Refuses, ClientKilled, Edit, ClientPuts, ClientGets, ClientRefused,
           ClientMisreads, ClientAtEnd, ClientFails, ReadLocal, ClientFileFails, SendSucceeds, CreateArchive,
           VerifyArchive
    <2> QED
      BY <1>3, <2>3, <2>4 DEF ShellStep, ClientStep
  <1> QED
    BY <1>1, <1>2, <1>3

(* The places in the dialogues that carry data.                             *)
LEMMA DataPlaces ==
  /\ \A cmd \in {"show", "check"} :
       /\ Length(cmd) = 9 /\ \A p \in 1 .. 10 : ClientClock[cmd][p] = p - 1
       /\ Dialogue[cmd][5] = Sv("data", "name") /\ Dialogue[cmd][7] = Sv("int", "index")
       /\ \A i \in 1 .. 9 : Dialogue[cmd][i].who = IF i \in {1, 4, 6, 8} THEN "client" ELSE "server"
  /\ Length("rename") = 7 /\ Dialogue["rename"][5] = Cl("data", "arg")
  /\ \A i \in 1 .. 7 : Dialogue["rename"][i].who = IF i \in {1, 3, 5, 7} THEN "client" ELSE "server"
  /\ \A p \in 1 .. 8 : ClientClock["rename"][p] = p - 1
  /\ \A p \in 1 .. 6 : ServerClock["rename"][p] = p + 1
  /\ ServerClock["rename"][7] = 7 /\ ClientClock["rename"][9] = 7
  /\ Length("comp") = 5 /\ Dialogue["comp"][3] = Cl("int", "arg")
  /\ \A i \in 1 .. 5 : Dialogue["comp"][i].who = IF i \in {1, 3, 5} THEN "client" ELSE "server"
  /\ \A p \in 1 .. 6 : ClientClock["comp"][p] = p - 1
  /\ \A p \in 1 .. 4 : ServerClock["comp"][p] = p + 1
  /\ ServerClock["comp"][5] = 5 /\ ClientClock["comp"][7] = 5
  BY DEF Length, Dialogue, ConfigDialogue, ClientClock, ServerClock, Cl, Sv, COk, SOk, CBye, SBye

(* A side gets the settings and the bytes of the other.                     *)
LEMMA ShellHearsSettings ==
  ASSUME SidesOK, Framed, ~ClientGone, s2c # <<>>, Reports(client), client.pos \in {5, 7}
  PROVE  /\ server.cmd = client.cmd /\ Reports(server)
         /\ client.pos = 5 => Head(s2c).val = sreg.name
         /\ client.pos = 7 => Head(s2c).val = sreg.index
  <1>1. client.cmd \in {"show", "check"}
    BY DEF Reports
  <1>2. ~Begins /\ ~ClientEnded /\ Met
    <2>1. Len(ClientScript[client.cmd]) = 10
      BY <1>1, ClientLengths
    <2> QED
      BY <2>1 DEF Begins, ClientEnded, Met
  <1>3. PICK b \in Nat : TalkingAt(b)
    BY <1>1, <1>2, ClientTalks
  <1>4. CDone = client.pos - 1 /\ CDone \in {4, 6}
    BY <1>1, DataPlaces DEF CDone
  <1>5. CDone + 2 <= Length(client.cmd) /\ Dialogue[client.cmd][CDone + 2].who = "client"
    BY <1>1, <1>4, DataPlaces
  <1>6. server.cmd = client.cmd /\ Head(s2c) = Message(sreg, Dialogue[client.cmd][CDone + 1])
    BY <1>3, <1>4, <1>5, ClientHears
  <1>7. DOMAIN sreg = DOMAIN Blank
    BY DEF SidesOK, ServerOK
  <1>8. CASE client.pos = 5
    BY <1>1, <1>4, <1>6, <1>7, <1>8, DataPlaces DEF Message, Value, Sv, Blank, Reports
  <1>9. CASE client.pos = 7
    BY <1>1, <1>4, <1>6, <1>7, <1>9, DataPlaces DEF Message, Value, Sv, Blank, Reports
  <1> QED
    BY <1>8, <1>9

LEMMA WorkerHearsName ==
  ASSUME SidesOK, Framed, ServerRunning, c2s # <<>>, server.cmd = "rename", server.pos = 3
  PROVE  client.cmd = "rename" /\ client.pos = 6 /\ Head(c2s).val = creg.arg
  <1>1. SDone = 4
    BY DataPlaces DEF SDone
  <1>2. client.cmd = "rename" /\ CDone = 5 /\ Head(c2s) = Message(creg, Dialogue["rename"][5])
    BY <1>1, DataPlaces, ServerHears
  <1>3. client.pos = 6
    BY <1>2, DataPlaces, ClientLengths DEF CDone, SidesOK, ClientOK
  <1>4. DOMAIN creg = DOMAIN Blank
    BY DEF SidesOK, ClientOK
  <1> QED
    BY <1>2, <1>3, <1>4, DataPlaces DEF Message, Value, Cl, Blank

LEMMA WorkerHearsIndex ==
  ASSUME SidesOK, Framed, ServerRunning, c2s # <<>>, server.cmd = "comp", server.pos = 1
  PROVE  client.cmd = "comp" /\ client.pos = 4 /\ Head(c2s).val = creg.arg
  <1>1. SDone = 2
    BY DataPlaces DEF SDone
  <1>2. client.cmd = "comp" /\ CDone = 3 /\ Head(c2s) = Message(creg, Dialogue["comp"][3])
    BY <1>1, DataPlaces, ServerHears
  <1>3. client.pos = 4
    BY <1>2, DataPlaces, ClientLengths DEF CDone, SidesOK, ClientOK
  <1>4. DOMAIN creg = DOMAIN Blank
    BY DEF SidesOK, ClientOK
  <1> QED
    BY <1>2, <1>3, <1>4, DataPlaces DEF Message, Value, Cl, Blank

(* What the worker gets of a file, and where the client is then.            *)
LEMMA SendClocks ==
  /\ \A p \in 1 .. 18 : /\ ClientClock["send"][p] = 5 <=> p = 6
                        /\ ClientClock["send"][p] = 9 <=> p = 12
                        /\ ClientClock["send"][p] = 11 <=> p = 15
                        /\ p \in 1 .. 7 => ClientClock["send"][p] <= 6
                        /\ p \in 3 .. 18 => ClientClock["send"][p] >= 2
                        /\ p \in 16 .. 18 => ClientClock["send"][p] >= 12
                        /\ p <= 10 => ClientClock["send"][p] <= 8
                        /\ p <= 2 => ClientClock["send"][p] <= 1
                        /\ p = 10 => ClientClock["send"][p] = 8
                        /\ p = 14 => ClientClock["send"][p] = 10
                        /\ p = 17 => ClientClock["send"][p] = 13
  /\ \A p \in 1 .. 14 : /\ p >= 4 => ServerClock["send"][p] >= 5
                        /\ p >= 8 => ServerClock["send"][p] >= 9
                        /\ p >= 13 => ServerClock["send"][p] >= 11
                        /\ p >= 2 => ServerClock["send"][p] >= 3
                        /\ p = 14 <=> ServerClock["send"][p] = 12
  /\ ServerClock["send"][3] = 4 /\ ServerClock["send"][7] = 8 /\ ServerClock["send"][8] = 9
  /\ ServerClock["send"][11] = 10 /\ ServerClock["send"][12] = 11 /\ ServerClock["send"][13] = 11
  /\ ServerClock["send"][15] = 13
  /\ Dialogue["send"][5] = Cl("data", "arg") /\ Dialogue["send"][9] = Cl("data", "hash")
  BY DEF ClientClock, ServerClock, Dialogue, Cl

LEMMA WorkerHearsFile ==
  ASSUME SidesOK, Framed, ServerRunning, c2s # <<>>, server.cmd = "send", server.pos \in {3, 7, 11}
  PROVE  /\ client.cmd = "send"
         /\ client.pos = (CASE server.pos = 3 -> 6 [] server.pos = 7 -> 12 [] server.pos = 11 -> 15)
         /\ Head(c2s).val = (CASE server.pos = 3 -> creg.arg [] server.pos = 7 -> creg.hash
                               [] server.pos = 11 -> creg.body)
  <1>1. SDone = CASE server.pos = 3 -> 4 [] server.pos = 7 -> 8 [] server.pos = 11 -> 10
    BY SendClocks DEF SDone
  <1>2. SDone + 2 <= Length("send") /\ Dialogue["send"][SDone + 2].who = "server"
    BY <1>1, SendPlaces
  <1>3. client.cmd = "send" /\ CDone = SDone + 1 /\ Head(c2s) = Message(creg, Dialogue["send"][SDone + 1])
    BY <1>2, ServerHears
  <1>4. client.pos \in 1 .. 18 /\ DOMAIN creg = DOMAIN Blank
    BY <1>3, ClientLengths DEF SidesOK, ClientOK
  <1>5. CASE server.pos = 3
    BY <1>1, <1>3, <1>4, <1>5, SendClocks DEF CDone, Message, Value, Cl, Blank
  <1>6. CASE server.pos = 7
    BY <1>1, <1>3, <1>4, <1>6, SendClocks DEF CDone, Message, Value, Cl, Blank
  <1>7. CASE server.pos = 11
    BY <1>1, <1>3, <1>4, <1>7, SendClocks, SendPlaces DEF CDone, Message, Value, Cl, Blank
  <1> QED
    BY <1>5, <1>6, <1>7

-----------------------------------------------------------------------------
(* The data of a step of the shell.                                         *)

LEMMA ShellTaken ==
  ASSUME SidesOK, Framed, DataOK, ShellStep
  PROVE  TakenOK'
  <1> USE DEF Reports
  <1>1. TakenOK /\ ~ClientGone
    BY ShellSteps DEF DataOK
  <1>2. server' = server /\ sreg' = sreg
    BY ShellSteps
  <1>3. /\ server.cmd = "rename" /\ server.pos \in 4 .. 6 => sreg.name \in ArchiveNames
        /\ server.cmd = "comp" /\ server.pos \in 2 .. 4 => sreg.index \in Compressors
    BY <1>1 DEF TakenOK
  <1>4. /\ Reports(client)' /\ client'.pos \in 6 .. 10 =>
             creg'.name \in ArchiveNames \/ (ServerGone' /\ s2c' = <<>> /\ client'.pos < 10)
        /\ Reports(client)' /\ client'.pos \in 8 .. 10 =>
             creg'.index \in Compressors \/ (ServerGone' /\ s2c' = <<>> /\ client'.pos < 10)
    <2> SUFFICES ASSUME Reports(client)', client'.pos \in 6 .. 10
                 PROVE  /\ creg'.name \in ArchiveNames \/ (ServerGone' /\ s2c' = <<>> /\ client'.pos < 10)
                        /\ client'.pos \in 8 .. 10 => creg'.index \in Compressors
                             \/ (ServerGone' /\ s2c' = <<>> /\ client'.pos < 10)
      OBVIOUS
    <2>0. ServerGone' <=> ServerGone
      BY <1>2 DEF ServerGone
    <2>1. ~AtPrompt
      BY ClientForms DEF AtPrompt, Starts
    <2>2. ~ClientReturns
      <3> SUFFICES ASSUME ClientReturns PROVE FALSE
        OBVIOUS
      <3>1. client.cmd = "show" /\ client'.pos = Len(ClientScript[client.cmd]) + 1
        BY ShellReturnPlace
      <3> QED
        BY <3>1, ClientLengths
    <2>3. client'.cmd = client.cmd /\ Reports(client) /\ Len(ClientScript[client.cmd]) = 10
          /\ (s2c = <<>> => s2c' = <<>>)
      BY <2>1, <2>2, ShellRegs, ClientLengths
    <2>4. CASE client'.pos = client.pos /\ creg' = creg
      BY <1>1, <2>0, <2>3, <2>4 DEF TakenOK
    <2>5. CASE ClientAdvances
      <3>1. /\ client.pos \in 5 .. 9 /\ client'.pos = client.pos + 1 /\ ClientRunning
            /\ creg'.name = creg.name \/ client.pos = 5
            /\ creg'.index = creg.index \/ client.pos = 7
        BY <2>5, ShellKeeps DEF ClientAdvances, SidesOK, ClientOK
      <3>2. ClientOpAt(ClientOp, client.cmd, client.pos)
        BY <3>1, AtOps
      <3>3. CASE client.pos \in {6, 8}
        BY <1>1, <2>0, <2>3, <3>1, <3>3 DEF TakenOK
      <3>4. CASE client.pos \in {5, 7, 9}
        <4>1. ClientOp.do = "get" /\ (client.pos = 9 => ClientOp.kind = "rsp")
          BY <2>3, <3>2, <3>4 DEF ClientOpAt
        <4>2. CASE ClientAtEnd /\ ClientOp.kind # "rsp" /\ ServerGone /\ s2c = <<>>
          BY <2>0, <2>3, <3>1, <3>4, <4>1, <4>2
        <4>3. CASE ClientGets /\ creg' = Store(creg, ClientOp.x, Head(s2c).val)
          <5>0. DOMAIN creg = DOMAIN Blank /\ s2c # <<>>
            BY <4>3 DEF SidesOK, ClientOK, ClientGets
          <5>1. (sreg.name \in ArchiveNames /\ sreg.index \in Compressors) \/ client.pos = 9
            <6> SUFFICES ASSUME client.pos \in {5, 7} PROVE sreg.name \in ArchiveNames /\ sreg.index \in Compressors
              BY <3>4
            <6>1. Reports(server)
              BY <1>1, <2>3, <5>0, ShellHearsSettings
            <6> QED
              BY <6>1 DEF DataOK, SettingsOK, TypeOK
          <5>2. CASE client.pos = 5
            <6>1. ClientOp.x = "name" /\ Head(s2c).val = sreg.name
              BY <1>1, <2>3, <3>2, <4>1, <5>0, <5>2, ShellHearsSettings DEF ClientOpAt
            <6> QED
              BY <3>1, <4>3, <5>0, <5>1, <5>2, <6>1, StoreOther
          <5>3. CASE client.pos = 7
            <6>1. ClientOp.x = "index" /\ Head(s2c).val = sreg.index
              BY <1>1, <2>3, <3>2, <4>1, <5>0, <5>3, ShellHearsSettings DEF ClientOpAt
            <6>2. creg'.index \in Compressors
              BY <4>3, <5>0, <5>1, <5>3, <6>1, StoreOther
            <6> QED
              BY <1>1, <2>0, <2>3, <3>1, <5>0, <5>3, <6>2 DEF TakenOK
          <5>4. CASE client.pos = 9
            BY <1>1, <2>0, <2>3, <3>1, <5>0, <5>4 DEF TakenOK
          <5> QED
            BY <3>4, <5>2, <5>3, <5>4
        <4> QED
          BY <2>5, <4>1, <4>2, <4>3 DEF ClientAdvances, ReadLocal, ClientDoes
      <3> QED
        BY <3>1, <3>3, <3>4
    <2>6. client'.pos # Len(ClientScript[client.cmd]) + 1
      BY <2>3
    <2> QED
      BY <2>1, <2>2, <2>4, <2>5, <2>6, ShellRegs
  <1> QED
    BY <1>2, <1>3, <1>4 DEF TakenOK

LEMMA ShellBytes ==
  ASSUME SidesOK, DataOK, ShellStep
  PROVE  BytesOK'
  <1>1. server' = server /\ sreg' = sreg
    BY ShellSteps
  <1>2. ASSUME client'.cmd = "send", client'.pos \in 14 .. 17
        PROVE  creg'.body \in {<<v>> : v \in Versions}
    <2>1. ~AtPrompt
      BY <1>2, ClientForms DEF AtPrompt, Starts
    <2>2. ~ClientReturns
      <3> SUFFICES ASSUME ClientReturns PROVE FALSE
        OBVIOUS
      <3>1. client.cmd = "send" /\ client'.pos = Len(ClientScript[client.cmd]) + 1
        BY <1>2, ShellReturnPlace
      <3> QED
        BY <1>2, <3>1, ClientLengths
    <2>3. client.cmd = "send" /\ Len(ClientScript[client.cmd]) = 17
      BY <1>2, <2>1, <2>2, ShellRegs, ClientLengths
    <2>4. CASE client'.pos = client.pos /\ creg' = creg
      BY <1>2, <2>3, <2>4 DEF DataOK, BytesOK
    <2>5. CASE ClientAdvances
      <3>1. ClientRunning /\ client.pos \in 13 .. 16 /\ (creg'.body = creg.body \/ client.pos = 13)
        BY <1>2, <2>3, <2>5, ShellKeeps DEF ClientAdvances, SidesOK, ClientOK
      <3>2. CASE client.pos \in 14 .. 16
        BY <2>3, <3>1, <3>2 DEF DataOK, BytesOK
      <3>3. CASE client.pos = 13
        <4>1. ClientOp.do = "do" /\ ClientOp.x = "open"
          BY <2>3, <3>1, <3>3, AtOps DEF ClientOpAt
        <4>2. creg.arg \in Files /\ local \in [Files -> {<<v>> : v \in Versions}]
          BY <2>3, <3>3 DEF DataOK, ArgOK, TypeOK
        <4>3. DOMAIN creg = DOMAIN Blank
          BY DEF SidesOK, ClientOK
        <4>4. ReadLocal
          BY <2>5, <4>1 DEF ClientAdvances, ClientGets, ClientAtEnd
        <4>5. creg' = [creg EXCEPT !.body = local[creg.arg]]
          BY <4>1, <4>4 DEF ReadLocal
        <4> QED
          BY <4>2, <4>3, <4>5 DEF Blank
      <3> QED
        BY <3>1, <3>2, <3>3
    <2>6. client'.pos # Len(ClientScript[client.cmd]) + 1
      BY <1>2, <2>3
    <2> QED
      BY <2>1, <2>2, <2>4, <2>5, <2>6, ShellRegs
  <1> QED
    BY <1>1, <1>2 DEF DataOK, BytesOK

LEMMA ShellData ==
  ASSUME SidesOK, SidesOK', Framed, DataOK, ShellStep
  PROVE  DataOK'
  <1>1. SettingsOK'
    BY ShellLeavesServer DEF DataOK, SettingsOK, Reports, svars
  <1>2. ArgOK' /\ CountOK'
    BY ShellArg, ShellCounts DEF DataOK
  <1> QED
    BY <1>1, <1>2, ShellTypes, ShellTaken, ShellBytes DEF DataOK

-----------------------------------------------------------------------------
(* The data of a step of the worker.                                        *)

(* Where the worker is between commands.                                    *)
LEMMA WorkerReturnPlace ==
  ASSUME SidesOK
  PROVE  /\ ServerReturns => /\ server.pos = Len(ServerScript[server.cmd]) + 1 /\ server.mode = "run"
                             /\ server.cmd # "loop"
                             /\ server'.cmd = "loop" /\ server'.pos = 1 /\ sreg' = Blank
         /\ Dispatch =>
              /\ server.cmd = "loop" /\ server.pos = 3 /\ ServerRunning
              /\ \/ sreg.cmd = "quit" /\ server'.cmd = "loop" /\ server'.pos = 3 /\ server'.mode = "closed"
                 \/ /\ sreg.cmd # "quit" /\ server'.cmd = HandlerOf(sreg.cmd) /\ server'.pos = 1
                    /\ server'.mode = "run"
              /\ sreg' = [Blank EXCEPT !.name = sconf.name, !.index = sconf.index]
  <1>1. ASSUME ServerReturns
        PROVE  /\ server.pos = Len(ServerScript[server.cmd]) + 1 /\ server.mode = "run"
               /\ server.cmd # "loop"
               /\ server'.cmd = "loop" /\ server'.pos = 1 /\ sreg' = Blank
    <2>1. server.pos > Len(ServerScript[server.cmd]) /\ server.mode = "run"
          /\ server' = Enter(server, "loop") /\ sreg' = Blank
      BY <1>1 DEF ServerReturns
    <2>2. Len(ServerScript[server.cmd]) \in Nat /\ server.pos <= Len(ServerScript[server.cmd]) + 1
      BY ScriptLengths DEF SidesOK, ServerOK
    <2>3. server.cmd # "loop"
      <3> SUFFICES ASSUME server.cmd = "loop" PROVE FALSE
        OBVIOUS
      <3>1. Len(ServerScript[server.cmd]) = 3
        BY ServerLengths
      <3>2. server.pos <= 3 /\ server.pos \in Nat
        BY DEF SidesOK, ServerOK
      <3> QED
        BY <2>1, <3>1, <3>2
    <2> QED
      BY <2>1, <2>2, <2>3, ServerForms DEF SidesOK, ServerOK
  <1>2. ASSUME Dispatch
        PROVE  /\ server.cmd = "loop" /\ server.pos = 3 /\ ServerRunning
               /\ \/ sreg.cmd = "quit" /\ server'.cmd = "loop" /\ server'.pos = 3 /\ server'.mode = "closed"
                  \/ /\ sreg.cmd # "quit" /\ server'.cmd = HandlerOf(sreg.cmd) /\ server'.pos = 1
                     /\ server'.mode = "run"
               /\ sreg' = [Blank EXCEPT !.name = sconf.name, !.index = sconf.index]
    <2>1. server.cmd = "loop" /\ server.pos = 3 /\ ServerRunning
      BY <1>2, AtOps DEF Dispatch, ServerDoes, ServerOpAt
    <2> QED
      BY <1>2, <2>1, ServerForms DEF Dispatch
  <1> QED
    BY <1>1, <1>2

LEMMA WorkerTaken ==
  ASSUME SidesOK, Framed, DataOK, WorkerStep
  PROVE  TakenOK'
  <1>1. TakenOK /\ ArgOK /\ client' = client /\ creg' = creg /\ ~ServerGone /\ (ClientGone' <=> ClientGone)
    BY WorkerSteps DEF DataOK, ClientGone
  <1>2. /\ Reports(client) /\ client.pos \in 6 .. 10 => creg.name \in ArchiveNames
        /\ Reports(client) /\ client.pos \in 8 .. 10 => creg.index \in Compressors
    BY <1>1 DEF TakenOK
  <1>3. CASE ServerReturns
    BY <1>1, <1>2, <1>3, WorkerReturnPlace DEF TakenOK, Reports
  <1>4. CASE Dispatch
    <2>1. server'.pos = 1 \/ server'.cmd = "loop"
      BY <1>4, WorkerReturnPlace
    <2> QED
      BY <1>1, <1>2, <1>4, <2>1 DEF TakenOK, Reports
  <1>5. CASE ~ServerReturns /\ ~Dispatch
    <2>1. server'.cmd = server.cmd /\ (c2s = <<>> => c2s' = <<>>)
      BY <1>5, WorkerRegs
    <2>2. CASE server'.pos = server.pos /\ sreg' = sreg
      BY <1>1, <1>2, <2>1, <2>2 DEF TakenOK, Reports
    <2>3. CASE server'.pos = Len(ServerScript[server.cmd]) + 1
      <3>1. ASSUME server.cmd = "rename" PROVE server'.pos = 7
        <4>1. Len(ServerScript[server.cmd]) = 6
          BY <3>1, ServerLengths
        <4> QED
          BY <2>3, <4>1
      <3>2. ASSUME server.cmd = "comp" PROVE server'.pos = 5
        <4>1. Len(ServerScript[server.cmd]) = 4
          BY <3>2, ServerLengths
        <4> QED
          BY <2>3, <4>1
      <3> QED
        BY <1>1, <1>2, <2>1, <3>1, <3>2 DEF TakenOK, Reports
    <2>4. CASE ServerAdvances
      <3>0. /\ ServerRunning /\ server'.pos = server.pos + 1 /\ server.pos \in Nat
            /\ ServerOpAt(ServerOp, server.cmd, server.pos)
            /\ DOMAIN sreg = DOMAIN Blank
        BY <2>4, AtOps DEF ServerAdvances, SidesOK, ServerOK
      <3>1. ASSUME server.cmd = "rename", server'.pos \in 4 .. 6
            PROVE  sreg'.name \in ArchiveNames \/ (ClientGone' /\ c2s' = <<>> /\ server'.pos < 6)
        <4>1. CASE server.pos = 4
          <5>1. sreg'.name = sreg.name
            BY <2>4, <3>1, <4>1, WorkerKeeps
          <5> QED
            BY <1>1, <2>1, <3>0, <3>1, <4>1, <5>1 DEF TakenOK
        <4>2. CASE server.pos = 5
          <5>1. sreg'.name = sreg.name
            BY <2>4, <3>1, <4>2, WorkerKeeps
          <5>2. ClientGone /\ c2s = <<>> => FALSE
            <6>1. ServerOp.do = "get" /\ ServerOp.kind = "rsp"
              BY <3>1, <4>2 DEF ServerOp, ServerScript, HandleConfigureName, Ack, Get
            <6> QED
              BY <2>4, <6>1 DEF ServerAdvances, ServerGets, ReadArchive, ServerDoes
          <5> QED
            BY <1>1, <2>1, <3>0, <3>1, <4>2, <5>1, <5>2 DEF TakenOK
        <4>3. CASE server.pos = 3
          <5>1. ServerOp.do = "get" /\ ServerOp.x = "name" /\ ServerOp.kind # "rsp"
            BY <3>1, <4>3 DEF ServerOp, ServerScript, HandleConfigureName, Get
          <5>2. CASE ServerGets /\ sreg' = Store(sreg, ServerOp.x, Head(c2s).val)
            <6>1. c2s # <<>>
              BY <5>2 DEF ServerGets
            <6>2. client.cmd = "rename" /\ client.pos = 6 /\ Head(c2s).val = creg.arg
              BY <3>0, <3>1, <4>3, <6>1, WorkerHearsName
            <6>3. creg.arg \in ArchiveNames
              BY <1>1, <6>2, ClientLengths DEF ArgOK
            <6> QED
              BY <3>0, <5>1, <5>2, <6>2, <6>3, StoreOther
          <5>3. CASE ClientGone /\ c2s = <<>>
            BY <1>1, <2>1, <3>0, <4>3, <5>3
          <5> QED
            BY <2>4, <5>1, <5>2, <5>3 DEF ServerAdvances, ReadArchive, ServerDoes
        <4> QED
          BY <3>0, <3>1, <4>1, <4>2, <4>3
      <3>2. ASSUME server.cmd = "comp", server'.pos \in 2 .. 4
            PROVE  sreg'.index \in Compressors \/ (ClientGone' /\ c2s' = <<>> /\ server'.pos < 4)
        <4>1. CASE server.pos = 2
          <5>1. sreg'.index = sreg.index
            BY <2>4, <3>2, <4>1, WorkerKeeps
          <5> QED
            BY <1>1, <2>1, <3>0, <3>2, <4>1, <5>1 DEF TakenOK
        <4>2. CASE server.pos = 3
          <5>1. sreg'.index = sreg.index
            BY <2>4, <3>2, <4>2, WorkerKeeps
          <5>2. ClientGone /\ c2s = <<>> => FALSE
            <6>1. ServerOp.do = "get" /\ ServerOp.kind = "rsp"
              BY <3>2, <4>2 DEF ServerOp, ServerScript, HandleConfigureCompressor, Ack, Get
            <6> QED
              BY <2>4, <6>1 DEF ServerAdvances, ServerGets, ReadArchive, ServerDoes
          <5> QED
            BY <1>1, <2>1, <3>0, <3>2, <4>2, <5>1, <5>2 DEF TakenOK
        <4>3. CASE server.pos = 1
          <5>1. ServerOp.do = "get" /\ ServerOp.x = "index" /\ ServerOp.kind # "rsp"
            BY <3>2, <4>3 DEF ServerOp, ServerScript, HandleConfigureCompressor, Get
          <5>2. CASE ServerGets /\ sreg' = Store(sreg, ServerOp.x, Head(c2s).val)
            <6>1. c2s # <<>>
              BY <5>2 DEF ServerGets
            <6>2. client.cmd = "comp" /\ client.pos = 4 /\ Head(c2s).val = creg.arg
              BY <3>0, <3>2, <4>3, <6>1, WorkerHearsIndex
            <6>3. creg.arg \in Compressors
              BY <1>1, <6>2, ClientLengths DEF ArgOK
            <6> QED
              BY <3>0, <5>1, <5>2, <6>2, <6>3, StoreOther
          <5>3. CASE ClientGone /\ c2s = <<>>
            BY <1>1, <2>1, <3>0, <4>3, <5>3
          <5> QED
            BY <2>4, <5>1, <5>2, <5>3 DEF ServerAdvances, ReadArchive, ServerDoes
        <4> QED
          BY <3>0, <3>2, <4>1, <4>2, <4>3
      <3> QED
        BY <1>1, <1>2, <2>1, <3>1, <3>2 DEF TakenOK, Reports
    <2> QED
      BY <1>5, <2>2, <2>3, <2>4, WorkerRegs
  <1> QED
    BY <1>3, <1>4, <1>5

LEMMA WorkerBytes ==
  ASSUME SidesOK, Framed, DataOK, WorkerStep
  PROVE  BytesOK'
  <1>1. client' = client /\ creg' = creg /\ BytesOK
    BY WorkerSteps DEF DataOK
  <1>2. ASSUME server'.cmd = "send", server'.pos = 12
        PROVE  sreg'.body \in FileContents \ {Absent}
    <2>1. ~ServerReturns /\ ~Dispatch
      BY <1>2, WorkerReturnPlace
    <2>2. server.cmd = "send" /\ Len(ServerScript[server.cmd]) = 14
      BY <1>2, <2>1, WorkerRegs, ServerLengths
    <2>3. CASE server'.pos = server.pos /\ sreg' = sreg
      BY <1>1, <1>2, <2>2, <2>3 DEF BytesOK
    <2>4. CASE ServerAdvances
      <3>1. server.pos = 11 /\ ServerRunning /\ DOMAIN sreg = DOMAIN Blank
        BY <1>2, <2>4 DEF ServerAdvances, SidesOK, ServerOK
      <3>2. ServerOp.do = "get" /\ ServerOp.x = "body"
        BY <2>2, <3>1 DEF ServerOp, ServerScript, HandleSend, Get
      <3>3. CASE ServerGets /\ sreg' = Store(sreg, ServerOp.x, Head(c2s).val)
        <4>1. c2s # <<>>
          BY <3>3 DEF ServerGets
        <4>2. client.cmd = "send" /\ client.pos = 15 /\ Head(c2s).val = creg.body
          BY <2>2, <3>1, <4>1, WorkerHearsFile
        <4>3. creg.body \in {<<v>> : v \in Versions}
          BY <1>1, <4>2 DEF BytesOK
        <4>4. sreg'.body = creg.body
          BY <3>1, <3>2, <3>3, <4>2, StoreOther
        <4>5. \A v : <<v>> # <<>>
          OBVIOUS
        <4> QED
          BY <4>3, <4>4, <4>5 DEF FileContents, Absent
      <3>4. CASE \E j \in JunkOf(ServerOp.x) : sreg' = Store(sreg, ServerOp.x, j)
        <4>1. sreg' = Store(sreg, "body", Junk)
          BY <3>2, <3>4 DEF JunkOf
        <4> QED
          BY <3>1, <4>1, StoreOther DEF FileContents, Absent, Junk
      <3> QED
        BY <2>4, <3>2, <3>3, <3>4 DEF ServerAdvances, ReadArchive, ServerDoes
    <2>5. server'.pos # Len(ServerScript[server.cmd]) + 1
      BY <1>2, <2>2
    <2> QED
      BY <2>1, <2>3, <2>4, <2>5, WorkerRegs
  <1> QED
    BY <1>1, <1>2 DEF BytesOK

LEMMA WorkerSettingsKept ==
  ASSUME WorkerStep, ~SetServerName, ~SetServerIndex
  PROVE  sconf' = sconf /\ alg' = alg
  <1>1. CASE ServerReturns \/ ServerKilled \/ ServerPuts \/ ServerGets \/ ServerRefused \/ ServerMisreads
    BY <1>1 DEF ServerReturns, ServerKilled, ServerPuts, ServerGets, ServerRefused, ServerMisreads
  <1>2. CASE ServerAtEnd \/ ServerFails \/ Dispatch
    BY <1>2 DEF ServerAtEnd, ServerFails, Dispatch
  <1>3. CASE \/ CheckExisting \/ CreateFile \/ StoreFile \/ MakeArchive \/ ReadArchive \/ OpenFails
             \/ ServerFileFails \/ DeleteArchive
    BY <1>3 DEF CheckExisting, CreateFile, StoreFile, MakeArchive, ReadArchive, OpenFails,
                ServerFileFails, DeleteArchive
  <1> QED
    BY <1>1, <1>2, <1>3 DEF WorkerStep, ServerStep

LEMMA WorkerSettings ==
  ASSUME SidesOK, DataOK, WorkerStep
  PROVE  SettingsOK'
  <1>1. SettingsOK
    BY DEF DataOK
  <1>2. CASE ServerReturns
    BY <1>1, <1>2, WorkerReturnPlace DEF SettingsOK, Reports, ServerReturns
  <1>3. CASE Dispatch
    BY <1>1, <1>3, WorkerReturnPlace DEF SettingsOK, Reports, Dispatch, Blank
  <1>4. CASE SetServerName
    <2>1. server.cmd = "rename" /\ server'.cmd = "rename"
      BY <1>4, AtOps, ServerForms DEF SetServerName, ServerDoes, ServerOpAt
    <2> QED
      BY <1>1, <1>4, <2>1 DEF SettingsOK, Reports, SetServerName
  <1>5. CASE SetServerIndex
    <2>1. server.cmd = "comp" /\ server'.cmd = "comp"
      BY <1>5, AtOps, ServerForms DEF SetServerIndex, ServerDoes, ServerOpAt
    <2>2. "index" \in DOMAIN sconf
      BY DEF DataOK, TypeOK
    <2> QED
      BY <1>1, <1>5, <2>1, <2>2 DEF SettingsOK, Reports, SetServerIndex
  <1>6. CASE ~ServerReturns /\ ~Dispatch /\ ~SetServerName /\ ~SetServerIndex
    <2>1. sconf' = sconf /\ alg' = alg
      BY <1>6, WorkerSettingsKept
    <2>2. ASSUME Reports(server) PROVE sreg'.name = sreg.name /\ sreg'.index = sreg.index
      BY <1>6, <2>2, WorkerRegs, WorkerKeeps DEF Reports
    <2> QED
      BY <1>1, <1>6, <2>1, <2>2, WorkerRegs DEF SettingsOK, Reports
  <1> QED
    BY <1>2, <1>3, <1>4, <1>5, <1>6

LEMMA WorkerData ==
  ASSUME SidesOK, SidesOK', Framed, DataOK, WorkerStep
  PROVE  DataOK'
  <1>1. ArgOK' /\ CountOK'
    BY WorkerLeavesClient DEF DataOK, ArgOK, CountOK, cvars
  <1> QED
    BY <1>1, WorkerTypes, WorkerTaken, WorkerBytes, WorkerSettings DEF DataOK

LEMMA DataInit == Init => DataOK
  <1> SUFFICES ASSUME Init PROVE DataOK
    OBVIOUS
  <1>1. TypeOK
    BY SessionAssumption DEF Init, TypeOK, Modes, ClientScript, ServerScript, Blank, FileContents
  <1>2. ArgOK /\ TakenOK /\ SettingsOK /\ BytesOK /\ CountOK
    BY DEF Init, ArgOK, TakenOK, SettingsOK, BytesOK, CountOK, Reports
  <1> QED
    BY <1>1, <1>2 DEF DataOK

LEMMA DataStep == FrameInv /\ DataOK /\ [Next]_vars /\ FrameInv' => DataOK'
  <1> SUFFICES ASSUME FrameInv, DataOK, [Next]_vars, FrameInv' PROVE DataOK'
    OBVIOUS
  <1>1. SidesOK /\ SidesOK' /\ StreamKept
    BY DEF FrameInv
  <1>2. CASE ShellStep
    BY <1>1, <1>2, ShellData, ShellSteps DEF StreamKept
  <1>3. CASE WorkerStep
    BY <1>1, <1>3, WorkerData, WorkerSteps DEF StreamKept
  <1>4. CASE UNCHANGED vars
    BY <1>4 DEF vars, channels, cvars, svars, DataOK, TypeOK, ArgOK, TakenOK, SettingsOK, BytesOK, CountOK,
                Reports, ClientGone, ServerGone
  <1> QED
    BY <1>2, <1>3, <1>4 DEF Next, ShellStep, WorkerStep

(* The configurations, files and archives hold what their types say,        *)
(* whatever one side took for a setting when the other was gone: nothing is *)
(* set from a stream that ended (do_show_conf(), handle_configure_name()).  *)
THEOREM SessionTyped == Spec => []TypeOK
  <1>1. FrameInv /\ DataOK /\ [Next]_vars => FrameInv' /\ DataOK'
    BY FrameStep, DataStep
  <1>2. Init => FrameInv /\ DataOK
    BY FrameInit, DataInit
  <1>3. DataOK => TypeOK
    BY DEF DataOK
  <1> QED
    BY <1>1, <1>2, <1>3, PTL DEF Spec

-----------------------------------------------------------------------------
(* The settings of the two sides.                                           *)

(* The settings are set in one place on either side.                        *)
LEMMA ShellSettingsKept ==
  ASSUME DataOK, ShellStep, ~SetConfig
  PROVE  cconf'.name = cconf.name /\ cconf'.index = cconf.index
  <1>1. cconf \in ConfigType
    BY DEF DataOK, TypeOK, ConfigType
  <1>2. CASE EnableCompressor
    BY <1>1, <1>2 DEF EnableCompressor, ConfigType
  <1>3. CASE ArchiveReceived
    BY <1>1, <1>3 DEF ArchiveReceived, ConfigType
  <1>4. CASE ClientReturns
    BY <1>1, <1>4 DEF ClientReturns, ConfigType
  <1>5. CASE \/ AtPrompt \/ Refuses \/ ClientKilled \/ \E f \in Files, v \in Versions : Edit(f, v)
             \/ ClientPuts \/ ClientGets \/ ClientRefused \/ ClientMisreads \/ ClientAtEnd \/ ClientFails
             \/ ReadLocal \/ ClientFileFails \/ SendSucceeds \/ CreateArchive \/ VerifyArchive
    BY <1>5 DEF AtPrompt, Starts, Refuses, ClientKilled, Edit, ClientPuts, ClientGets, ClientRefused,
         ClientMisreads, ClientAtEnd, ClientFails, ReadLocal, ClientFileFails, SendSucceeds, CreateArchive,
         VerifyArchive
  <1> QED
    BY <1>2, <1>3, <1>4, <1>5 DEF ShellStep, ClientStep

(* Who has met has met before.                                              *)
LEMMA ShellMet ==
  ASSUME SidesOK, ShellStep, Met'
  PROVE  Met
  <1>1. ~ClientGone /\ (ServerGone' <=> ServerGone)
    BY ShellSteps DEF ServerGone
  <1>2. s2c = <<>> => s2c' = <<>>
    BY ShellRegs DEF AtPrompt, Starts, ClientReturns, channels
  <1> QED
    BY <1>1, <1>2 DEF Met

LEMMA WorkerMet ==
  ASSUME SidesOK, WorkerStep, Met'
  PROVE  Met /\ ~ServerGone /\ ~ClientGone /\ client' = client /\ creg' = creg /\ cconf' = cconf
  BY WorkerSteps, WorkerLeavesClient DEF Met, ClientGone, cvars

-----------------------------------------------------------------------------
(* Where the sides are when the one has taken what the other was told.      *)

LEMMA RenamePlaces ==
  ASSUME SidesOK, Framed, Met, client.cmd = "rename", client.pos \in {5, 6}, server.cmd = "rename"
  PROVE  /\ client.pos = 5 => server.pos <= 3
         /\ client.pos = 6 => server.pos <= 6
  <1>1. ~Begins /\ ~ClientEnded
    BY ClientLengths DEF Begins, ClientEnded
  <1>2. PICK b \in Nat : TalkingAt(b)
    BY <1>1, ClientTalks
  <1>3. Between(b) /\ b = SDone
    BY <1>2 DEF TalkingAt
  <1>4. server.pos \in 1 .. 7
    BY ServerLengths DEF SidesOK, ServerOK
  <1>5. CASE client.pos = 5
    <2>1. CDone = 4
      BY <1>5, DataPlaces DEF CDone
    <2>2. ~(4 < b)
      <3>1. Dialogue[client.cmd][4 + 1].who = "client"
        BY DataPlaces
      <3>2. 4 < b => CDone > 4
        BY <1>3, <3>1, Ahead
      <3> QED
        BY <2>1, <3>2
    <2>3. server.pos \in 4 .. 6 => SDone = server.pos + 1
      BY DataPlaces DEF SDone
    <2>4. server.pos = 7 => SDone = 7
      BY DataPlaces DEF SDone
    <2> QED
      BY <1>3, <1>4, <1>5, <2>2, <2>3, <2>4
  <1>6. CASE client.pos = 6
    <2>1. CDone = 5
      BY <1>6, DataPlaces DEF CDone
    <2>2. ~(6 < b)
      <3>1. Dialogue[client.cmd][6 + 1].who = "client"
        BY DataPlaces
      <3>2. 6 < b => CDone > 6
        BY <1>3, <3>1, Ahead
      <3> QED
        BY <2>1, <3>2
    <2>3. server.pos = 7 => SDone = 7
      BY DataPlaces DEF SDone
    <2> QED
      BY <1>3, <1>4, <1>6, <2>2, <2>3
  <1> QED
    BY <1>5, <1>6

LEMMA CompPlaces ==
  ASSUME SidesOK, Framed, Met, client.cmd = "comp", client.pos \in {3, 4}, server.cmd = "comp"
  PROVE  /\ client.pos = 3 => server.pos <= 1
         /\ client.pos = 4 => server.pos <= 4
  <1>1. ~Begins /\ ~ClientEnded
    BY ClientLengths DEF Begins, ClientEnded
  <1>2. PICK b \in Nat : TalkingAt(b)
    BY <1>1, ClientTalks
  <1>3. Between(b) /\ b = SDone
    BY <1>2 DEF TalkingAt
  <1>4. server.pos \in 1 .. 5
    BY ServerLengths DEF SidesOK, ServerOK
  <1>5. CASE client.pos = 3
    <2>1. CDone = 2
      BY <1>5, DataPlaces DEF CDone
    <2>2. ~(2 < b)
      <3>1. Dialogue[client.cmd][2 + 1].who = "client"
        BY DataPlaces
      <3>2. 2 < b => CDone > 2
        BY <1>3, <3>1, Ahead
      <3> QED
        BY <2>1, <3>2
    <2>3. server.pos \in 2 .. 4 => SDone = server.pos + 1
      BY DataPlaces DEF SDone
    <2>4. server.pos = 5 => SDone = 5
      BY DataPlaces DEF SDone
    <2> QED
      BY <1>3, <1>4, <1>5, <2>2, <2>3, <2>4
  <1>6. CASE client.pos = 4
    <2>1. CDone = 3
      BY <1>6, DataPlaces DEF CDone
    <2>2. ~(4 < b)
      <3>1. Dialogue[client.cmd][4 + 1].who = "client"
        BY DataPlaces
      <3>2. 4 < b => CDone > 4
        BY <1>3, <3>1, Ahead
      <3> QED
        BY <2>1, <3>2
    <2>3. server.pos = 5 => SDone = 5
      BY DataPlaces DEF SDone
    <2> QED
      BY <1>3, <1>4, <1>6, <2>2, <2>3
  <1> QED
    BY <1>5, <1>6

(* What the client was told it told the server before.                      *)
LEMMA ToldTaken ==
  ASSUME SidesOK, Framed, ~ClientGone, s2c # <<>>,
         (client.cmd = "rename" /\ client.pos = 6) \/ (client.cmd = "comp" /\ client.pos = 4)
  PROVE  NameTaken \/ IndexTaken
  <1>1. ~Begins /\ ~ClientEnded
    <2>1. CASE client.cmd = "rename" /\ client.pos = 6
      <3>1. Len(ClientScript[client.cmd]) = 8
        BY <2>1, ClientLengths
      <3> QED
        BY <2>1, <3>1 DEF Begins, ClientEnded
    <2>2. CASE client.cmd = "comp" /\ client.pos = 4
      <3>1. Len(ClientScript[client.cmd]) = 6
        BY <2>2, ClientLengths
      <3> QED
        BY <2>2, <3>1 DEF Begins, ClientEnded
    <2> QED
      BY <2>1, <2>2
  <1>0. Met
    BY DEF Met
  <1>2. PICK b \in Nat : TalkingAt(b)
    BY <1>0, <1>1, ClientTalks
  <1>3. CASE client.cmd = "rename" /\ client.pos = 6
    <2>1. CDone = 5
      BY <1>3, DataPlaces DEF CDone
    <2>2. CDone + 2 <= Length(client.cmd) /\ Dialogue[client.cmd][CDone + 2].who = "client"
      BY <1>3, <2>1, DataPlaces
    <2>3. server.cmd = "rename" /\ SDone = 6
      BY <1>2, <1>3, <2>1, <2>2, ClientHears
    <2>4. server.pos \in 1 .. 7
      BY <2>3, ServerLengths DEF SidesOK, ServerOK
    <2>5. server.pos \in 1 .. 3 => SDone = server.pos + 1
      BY <2>3, DataPlaces DEF SDone
    <2> QED
      BY <1>3, <2>3, <2>4, <2>5 DEF NameTaken
  <1>4. CASE client.cmd = "comp" /\ client.pos = 4
    <2>1. CDone = 3
      BY <1>4, DataPlaces DEF CDone
    <2>2. CDone + 2 <= Length(client.cmd) /\ Dialogue[client.cmd][CDone + 2].who = "client"
      BY <1>4, <2>1, DataPlaces
    <2>3. server.cmd = "comp" /\ SDone = 4
      BY <1>2, <1>4, <2>1, <2>2, ClientHears
    <2>4. server.pos \in 1 .. 5
      BY <2>3, ServerLengths DEF SidesOK, ServerOK
    <2>5. server.pos = 1 => SDone = 2
      BY <2>3, DataPlaces DEF SDone
    <2> QED
      BY <1>4, <2>3, <2>4, <2>5 DEF IndexTaken
  <1> QED
    BY <1>3, <1>4

(* A command without an error path goes on, unless somebody is gone.        *)
LEMMA ShellGoesOn ==
  ASSUME SidesOK, Framed, ShellStep, Met', ~AtPrompt, ~ClientReturns,
         client.cmd \notin {"send", "compress"}, ~Begins, ~ClientEnded, client'.pos # client.pos
  PROVE  ClientAdvances /\ ~ClientAtEnd
  <1>1. Met
    BY ShellMet
  <1>2. PICK b \in Nat : TalkingAt(b)
    BY <1>1, ClientTalks
  <1>3. Between(b) /\ b <= Length(client.cmd) /\ ~ClientGone
    BY <1>1, <1>2 DEF TalkingAt, Met
  <1>4. ~ClientRefused
    BY <1>3, ShellReads
  <1>5. ~ClientAtEnd
    <2> SUFFICES ASSUME ClientAtEnd PROVE FALSE
      OBVIOUS
    <2>1. ServerGone /\ s2c = <<>> /\ s2c' = <<>> /\ server' = server
      BY ShellSteps DEF ClientAtEnd, channels
    <2> QED
      BY <2>1 DEF Met, ServerGone
  <1>6. ~ClientFails
    <2> SUFFICES ASSUME ClientFails PROVE FALSE
      OBVIOUS
    <2>1. ServerGone /\ s2c' = s2c /\ server' = server /\ ClientRunning
      BY ShellSteps DEF ClientFails, channels
    <2>2. s2c # <<>> /\ ClientOp.do = "put"
      BY <2>1 DEF ClientFails, Met, ServerGone
    <2>3. CDone < b /\ CDone \in Nat
      BY <1>3, <2>2, Ahead, ClocksInRange
    <2>4. Dialogue[client.cmd][CDone + 1].who = "client"
      BY <2>1, <2>2, ClientPlace DEF Cl
    <2> QED
      BY <1>3, <2>3, <2>4, Ahead
  <1>7. ~CreateArchive /\ ~VerifyArchive
    BY AtOps DEF CreateArchive, VerifyArchive, ClientDoes, ClientOpAt
  <1>8. CASE ClientPuts \/ ClientGets
    BY <1>5, <1>8, ClientForms DEF ClientPuts, ClientGets, ClientAdvances, ClientRunning
  <1>9. CASE EnableCompressor \/ ReadLocal \/ SendSucceeds \/ SetConfig \/ ArchiveReceived
    BY <1>5, <1>9, ClientForms DEF EnableCompressor, ReadLocal, SendSucceeds, SetConfig, ArchiveReceived,
       ClientDoes, ClientAdvances, ClientRunning
  <1>10. CASE \/ ClientMisreads \/ ClientFileFails \/ Refuses \/ ClientKilled
              \/ \E f \in Files, v \in Versions : Edit(f, v)
    BY <1>10, ClientForms DEF ClientMisreads, ClientFileFails, Refuses, ClientKilled, Edit
  <1> QED
    BY <1>4, <1>5, <1>6, <1>7, <1>8, <1>9, <1>10 DEF ShellStep, ClientStep

(* The only step of the shell at a setting to set is to set it, or to go.   *)
LEMMA ShellDoes ==
  ASSUME SidesOK, ShellStep, ClientRunning, ClientOp.do = "do",
         ClientOp.x \in {"set_name", "set_index", "adopt", "fix"}, client'.pos # client.pos
  PROVE  SetConfig
  <1>1. client.mode = "run" /\ client.pos <= Len(ClientScript[client.cmd])
        /\ client.pos \in Nat /\ Len(ClientScript[client.cmd]) \in Nat
    BY ClientClockEnds DEF ClientRunning, SidesOK, ClientOK
  <1>2. ~AtPrompt /\ ~ClientReturns
    BY <1>1 DEF AtPrompt, ClientReturns
  <1>3. ~ClientPuts /\ ~ClientGets /\ ~ClientRefused /\ ~ClientMisreads /\ ~ClientAtEnd /\ ~ClientFails
    BY DEF ClientPuts, ClientGets, ClientRefused, ClientMisreads, ClientAtEnd, ClientFails
  <1>4. ~EnableCompressor /\ ~ReadLocal /\ ~ClientFileFails /\ ~SendSucceeds
        /\ ~CreateArchive /\ ~VerifyArchive /\ ~ArchiveReceived
    BY DEF EnableCompressor, ReadLocal, ClientFileFails, SendSucceeds, CreateArchive, VerifyArchive,
           ArchiveReceived, ClientDoes
  <1>5. CASE Refuses \/ ClientKilled \/ \E f \in Files, v \in Versions : Edit(f, v)
    BY <1>5, ClientForms DEF Refuses, ClientKilled, Edit
  <1> QED
    BY <1>2, <1>3, <1>4, <1>5 DEF ShellStep, ClientStep

-----------------------------------------------------------------------------
(* A step of the shell.                                                     *)

LEMMA ShellRename ==
  ASSUME SidesOK, Framed, DataOK, ShellStep, Met', client.cmd = "rename",
         ~AtPrompt, ~ClientReturns
  PROVE  ClientName' = ClientName /\ cconf'.index = cconf.index /\ client'.cmd = "rename"
  <1>1. Met /\ server' = server /\ sreg' = sreg
    BY ShellMet, ShellSteps
  <1>2. client'.cmd = client.cmd
    BY ShellRegs
  <1>3. Len(ClientScript["rename"]) = 8 /\ client.pos \in 1 .. 9
    BY ClientLengths DEF SidesOK, ClientOK
  <1>4. ClientRunning => ClientOpAt(ClientOp, client.cmd, client.pos)
    BY AtOps
  <1>5. cconf \in ConfigType
    BY DEF DataOK, TypeOK, ConfigType
  <1>6. CASE SetConfig
    <2>1. ClientRunning /\ ClientOp.do = "do" /\ ClientOp.x \in {"set_name", "set_index", "adopt", "fix"}
          /\ client' = Step(client) /\ creg' = creg
      BY <1>6 DEF SetConfig, ClientDoes
    <2>2. ClientOp.x = "set_name" /\ client.pos = 8
      BY <1>4, <2>1 DEF ClientOpAt
    <2>3. cconf' = [cconf EXCEPT !.name = creg.arg, !.dirty = TRUE]
      BY <1>6, <2>2 DEF SetConfig
    <2>4. cconf'.name = creg.arg /\ cconf'.index = cconf.index
      BY <1>5, <2>3 DEF ConfigType
    <2>5. client'.pos = 9
      BY <2>1, <2>2, ClientForms
    <2> QED
      BY <1>2, <2>2, <2>4, <2>5 DEF ClientName, NameTaken
  <1>7. CASE ~SetConfig
    <2>1. cconf'.name = cconf.name /\ cconf'.index = cconf.index
      BY <1>7, ShellSettingsKept
    <2>2. CASE client'.pos = client.pos
      <3>1. creg' = creg
        <4>1. ~ClientAdvances
          BY <1>3, <2>2 DEF ClientAdvances
        <4> QED
          BY <4>1, ShellRegs
      <3> QED
        BY <1>1, <1>2, <2>1, <2>2, <3>1 DEF ClientName, NameTaken
    <2>3. CASE client'.pos # client.pos /\ client.pos \in 3 .. 8
      <3>1. ~Begins /\ ~ClientEnded
        BY <1>3, <2>3 DEF Begins, ClientEnded
      <3>2. ClientAdvances /\ ~ClientAtEnd
        BY <2>3, <3>1, ShellGoesOn
      <3>3. client'.pos = client.pos + 1 /\ ClientRunning /\ creg'.arg = creg.arg
        BY <3>2, ShellKeeps DEF ClientAdvances
      <3>4. NameTaken' <=> NameTaken
        <4>1. CASE client.pos = 5
          <5>1. server.cmd = "rename" => server.pos <= 3 /\ server.pos \in Nat
            BY <1>1, <4>1, RenamePlaces DEF SidesOK, ServerOK
          <5> QED
            BY <1>1, <1>2, <3>3, <4>1, <5>1 DEF NameTaken
        <4>2. CASE client.pos = 6
          <5>1. ClientOp.do = "get"
            BY <3>3, <4>2 DEF ClientOp, ClientScript, DoConfName, Ack, Get
          <5>2. s2c # <<>>
            BY <3>2, <5>1 DEF ClientAdvances, ClientGets, ReadLocal, ClientDoes
          <5>3. NameTaken
            BY <1>1, <4>2, <5>2, ToldTaken DEF Met, IndexTaken
          <5> QED
            BY <1>2, <3>3, <4>2, <5>3 DEF NameTaken
        <4>3. CASE client.pos \in {3, 4, 7}
          BY <1>1, <1>2, <3>3, <4>3 DEF NameTaken
        <4>4. client.pos # 8
          <5> SUFFICES ASSUME client.pos = 8 PROVE FALSE
            OBVIOUS
          <5>1. ClientOp.do = "do" /\ ClientOp.x = "set_name"
            BY <3>3 DEF ClientOp, ClientScript, DoConfName, Do
          <5>2. SetConfig
            BY <2>3, <3>3, <5>1, ShellDoes
          <5> QED
            BY <1>7, <5>2
        <4> QED
          BY <2>3, <4>1, <4>2, <4>3, <4>4
      <3> QED
        BY <1>2, <2>1, <3>3, <3>4 DEF ClientName
    <2>4. CASE client'.pos # client.pos /\ client.pos \in {1, 2, 9}
      <3>1. client'.pos \in {2, 3, 9}
        BY <1>3, <2>4, ShellRegs DEF ClientAdvances, ClientRunning
      <3> QED
        BY <1>2, <2>1, <2>4, <3>1 DEF ClientName, NameTaken
    <2> QED
      BY <1>2, <1>3, <2>1, <2>2, <2>3, <2>4
  <1> QED
    BY <1>6, <1>7

LEMMA ShellComp ==
  ASSUME SidesOK, Framed, DataOK, ShellStep, Met', client.cmd = "comp",
         ~AtPrompt, ~ClientReturns
  PROVE  ClientIndex' = ClientIndex /\ cconf'.name = cconf.name /\ client'.cmd = "comp"
  <1>1. Met /\ server' = server /\ sreg' = sreg
    BY ShellMet, ShellSteps
  <1>2. client'.cmd = client.cmd
    BY ShellRegs
  <1>3. Len(ClientScript["comp"]) = 6 /\ client.pos \in 1 .. 7
    BY ClientLengths DEF SidesOK, ClientOK
  <1>4. ClientRunning => ClientOpAt(ClientOp, client.cmd, client.pos)
    BY AtOps
  <1>5. cconf \in ConfigType
    BY DEF DataOK, TypeOK, ConfigType
  <1>6. CASE SetConfig
    <2>1. ClientRunning /\ ClientOp.do = "do" /\ ClientOp.x \in {"set_name", "set_index", "adopt", "fix"}
          /\ client' = Step(client) /\ creg' = creg
      BY <1>6 DEF SetConfig, ClientDoes
    <2>2. ClientOp.x = "set_index" /\ client.pos = 6
      BY <1>4, <2>1 DEF ClientOpAt
    <2>3. cconf' = [cconf EXCEPT !.index = creg.arg, !.dirty = TRUE]
      BY <1>6, <2>2 DEF SetConfig
    <2>4. cconf'.index = creg.arg /\ cconf'.name = cconf.name
      BY <1>5, <2>3 DEF ConfigType
    <2>5. client'.pos = 7
      BY <2>1, <2>2, ClientForms
    <2> QED
      BY <1>2, <2>2, <2>4, <2>5 DEF ClientIndex, IndexTaken
  <1>7. CASE ~SetConfig
    <2>1. cconf'.name = cconf.name /\ cconf'.index = cconf.index
      BY <1>7, ShellSettingsKept
    <2>2. CASE client'.pos = client.pos
      <3>1. creg' = creg
        <4>1. ~ClientAdvances
          BY <1>3, <2>2 DEF ClientAdvances
        <4> QED
          BY <4>1, ShellRegs
      <3> QED
        BY <1>1, <1>2, <2>1, <2>2, <3>1 DEF ClientIndex, IndexTaken
    <2>3. CASE client'.pos # client.pos /\ client.pos \in 3 .. 6
      <3>1. ~Begins /\ ~ClientEnded
        BY <1>3, <2>3 DEF Begins, ClientEnded
      <3>2. ClientAdvances /\ ~ClientAtEnd
        BY <2>3, <3>1, ShellGoesOn
      <3>3. client'.pos = client.pos + 1 /\ ClientRunning /\ creg'.arg = creg.arg
        BY <3>2, ShellKeeps DEF ClientAdvances
      <3>4. IndexTaken' <=> IndexTaken
        <4>1. CASE client.pos = 3
          <5>1. server.cmd = "comp" => server.pos <= 1 /\ server.pos \in Nat
            BY <1>1, <4>1, CompPlaces DEF SidesOK, ServerOK
          <5> QED
            BY <1>1, <1>2, <3>3, <4>1, <5>1 DEF IndexTaken
        <4>2. CASE client.pos = 4
          <5>1. ClientOp.do = "get"
            BY <3>3, <4>2 DEF ClientOp, ClientScript, DoConfComp, Ack, Get
          <5>2. s2c # <<>>
            BY <3>2, <5>1 DEF ClientAdvances, ClientGets, ReadLocal, ClientDoes
          <5>3. IndexTaken
            BY <1>1, <4>2, <5>2, ToldTaken DEF Met, NameTaken
          <5> QED
            BY <1>2, <3>3, <4>2, <5>3 DEF IndexTaken
        <4>3. CASE client.pos = 5
          BY <1>1, <1>2, <3>3, <4>3 DEF IndexTaken
        <4>4. client.pos # 6
          <5> SUFFICES ASSUME client.pos = 6 PROVE FALSE
            OBVIOUS
          <5>1. ClientOp.do = "do" /\ ClientOp.x = "set_index"
            BY <3>3 DEF ClientOp, ClientScript, DoConfComp, Do
          <5>2. SetConfig
            BY <2>3, <3>3, <5>1, ShellDoes
          <5> QED
            BY <1>7, <5>2
        <4> QED
          BY <2>3, <4>1, <4>2, <4>3, <4>4
      <3> QED
        BY <1>2, <2>1, <3>3, <3>4 DEF ClientIndex
    <2>4. CASE client'.pos # client.pos /\ client.pos \in {1, 2, 7}
      <3>1. client'.pos \in {2, 3, 7}
        BY <1>3, <2>4, ShellRegs DEF ClientAdvances, ClientRunning
      <3> QED
        BY <1>2, <2>1, <2>4, <3>1 DEF ClientIndex, IndexTaken
    <2> QED
      BY <1>2, <1>3, <2>1, <2>2, <2>3, <2>4
  <1> QED
    BY <1>6, <1>7

(* The settings the client takes for those of the server are.               *)
LEMMA ShellReport ==
  ASSUME SidesOK, Framed, DataOK, ConfigInv, ShellStep, Met', Reports(client),
         ~AtPrompt, ~ClientReturns
  PROVE  /\ cconf'.name \in {cconf.name, ServerName} /\ cconf'.index \in {cconf.index, ServerIndex}
         /\ client'.cmd = client.cmd
         /\ client'.pos \in 6 .. 10 => creg'.name = ServerName
         /\ client'.pos \in 8 .. 10 => creg'.index = ServerIndex
  <1>1. Met
    BY ShellMet
  <1>2. client'.cmd = client.cmd
    BY ShellRegs
  <1>3. Len(ClientScript[client.cmd]) = 10 /\ client.pos \in 1 .. 11
    <2>1. Len(ClientScript[client.cmd]) = 10
      BY ClientLengths DEF Reports
    <2> QED
      BY <2>1 DEF SidesOK, ClientOK
  <1>4. ClientRunning => ClientOpAt(ClientOp, client.cmd, client.pos)
    BY AtOps
  <1>5. /\ client.pos \in 6 .. 10 => creg.name = ServerName
        /\ client.pos \in 8 .. 10 => creg.index = ServerIndex
    BY <1>1 DEF ConfigInv
  <1>6. cconf'.name \in {cconf.name, ServerName} /\ cconf'.index \in {cconf.index, ServerIndex}
    <2>1. CASE SetConfig
      <3>1. ClientRunning /\ ClientOp.do = "do" /\ ClientOp.x \in {"set_name", "set_index", "adopt", "fix"}
        BY <2>1 DEF SetConfig, ClientDoes
      <3>2. ClientOp.x \in {"adopt", "fix"} /\ client.pos = 10
        BY <1>4, <3>1 DEF ClientOpAt, Reports
      <3>3. \E d : cconf' = [cconf EXCEPT !.name = creg.name, !.index = creg.index, !.dirty = d]
        <4>1. CASE ClientOp.x = "adopt"
          BY <2>1, <4>1 DEF SetConfig
        <4>2. CASE ClientOp.x = "fix"
          <5>1. cconf' = [cconf EXCEPT !.name = creg.name, !.index = creg.index,
                          !.dirty = cconf.dirty \/ creg.name # cconf.name \/ creg.index # cconf.index]
            BY <2>1, <4>2 DEF SetConfig
          <5> QED
            BY <5>1
        <4> QED
          BY <3>2, <4>1, <4>2
      <3>4. cconf \in ConfigType
        BY DEF DataOK, TypeOK, ConfigType
      <3>5. cconf'.name = creg.name /\ cconf'.index = creg.index
        BY <3>3, <3>4 DEF ConfigType
      <3> QED
        BY <1>5, <3>2, <3>5
    <2>2. CASE ~SetConfig
      BY <2>2, ShellSettingsKept
    <2> QED
      BY <2>1, <2>2
  <1>7. /\ client'.pos \in 6 .. 10 => creg'.name = ServerName
        /\ client'.pos \in 8 .. 10 => creg'.index = ServerIndex
    <2> SUFFICES ASSUME client'.pos \in 6 .. 10
                 PROVE  /\ creg'.name = ServerName
                        /\ client'.pos \in 8 .. 10 => creg'.index = ServerIndex
      OBVIOUS
    <2>1. CASE client'.pos = client.pos
      <3>1. creg' = creg
        <4>1. ~ClientAdvances
          BY <1>3, <2>1 DEF ClientAdvances
        <4> QED
          BY <4>1, ShellRegs
      <3> QED
        BY <1>5, <2>1, <3>1
    <2>2. CASE ClientAdvances
      <3>1. /\ client.pos \in 5 .. 9 /\ client'.pos = client.pos + 1 /\ ClientRunning
            /\ creg'.name = creg.name \/ client.pos = 5
            /\ creg'.index = creg.index \/ client.pos = 7
        BY <1>3, <2>2, ShellKeeps DEF ClientAdvances
      <3>2. CASE client.pos \in {6, 8, 9}
        BY <1>5, <3>1, <3>2
      <3>3. CASE client.pos \in {5, 7}
        <4>1. ~Begins /\ ~ClientEnded /\ client.cmd \notin {"send", "compress"} /\ client'.pos # client.pos
          BY <1>3, <3>1, <3>3 DEF Begins, ClientEnded, Reports
        <4>2. ~ClientAtEnd
          BY <4>1, ShellGoesOn
        <4>3. ClientOp.do = "get"
          BY <1>4, <3>1, <3>3 DEF ClientOpAt, Reports
        <4>4. ClientGets /\ creg' = Store(creg, ClientOp.x, Head(s2c).val)
          BY <2>2, <4>2, <4>3 DEF ClientAdvances, ReadLocal, ClientDoes
        <4>5. s2c # <<>> /\ DOMAIN creg = DOMAIN Blank /\ ~ClientGone
          BY <1>1, <4>4 DEF ClientGets, SidesOK, ClientOK, Met
        <4>6. /\ Reports(server)
              /\ client.pos = 5 => Head(s2c).val = sreg.name
              /\ client.pos = 7 => Head(s2c).val = sreg.index
          BY <3>3, <4>5, ShellHearsSettings
        <4>7. sreg.name = ServerName /\ sreg.index = ServerIndex
          BY <4>6 DEF DataOK, SettingsOK, ServerName, ServerIndex, Reports
        <4>8. CASE client.pos = 5
          <5>1. ClientOp.x = "name"
            BY <1>4, <3>1, <4>3, <4>8 DEF ClientOpAt, Reports
          <5> QED
            BY <3>1, <4>4, <4>5, <4>6, <4>7, <4>8, <5>1, StoreOther
        <4>9. CASE client.pos = 7
          <5>1. ClientOp.x = "index"
            BY <1>4, <3>1, <4>3, <4>9 DEF ClientOpAt, Reports
          <5>2. creg'.index = ServerIndex
            BY <4>4, <4>5, <4>6, <4>7, <4>9, <5>1, StoreOther
          <5> QED
            BY <1>5, <3>1, <4>9, <5>2
        <4> QED
          BY <3>3, <4>8, <4>9
      <3> QED
        BY <3>1, <3>2, <3>3
    <2>3. client'.pos # Len(ClientScript[client.cmd]) + 1
      BY <1>3
    <2> QED
      BY <2>1, <2>2, <2>3, ShellRegs
  <1> QED
    BY <1>2, <1>6, <1>7

LEMMA ShellConfig ==
  ASSUME SidesOK, Framed, DataOK, ConfigInv, ShellStep
  PROVE  ConfigInv'
  <1> SUFFICES ASSUME Met' PROVE ConfigInv'
    BY DEF ConfigInv
  <1>1. Met /\ UNCHANGED svars
    BY ShellMet, ShellLeavesServer
  <1>2. ServerName' = ServerName /\ ServerIndex' = ServerIndex
    BY <1>1 DEF svars, ServerName, ServerIndex
  <1>3. /\ ServerName = ClientName /\ ServerIndex = ClientIndex
    BY <1>1 DEF ConfigInv
  <1>4. CASE AtPrompt \/ ClientReturns
    <2>1. client.pos = Len(ClientScript[client.cmd]) + 1
      BY <1>4, ShellReturnPlace DEF AtPrompt, SidesOK, ClientOK
    <2>2. ASSUME client.cmd = "rename" PROVE client.pos = 9
      <3>1. Len(ClientScript[client.cmd]) = 8
        BY <2>2, ClientLengths
      <3> QED
        BY <2>1, <3>1
    <2>3. ASSUME client.cmd = "comp" PROVE client.pos = 7
      <3>1. Len(ClientScript[client.cmd]) = 6
        BY <2>3, ClientLengths
      <3> QED
        BY <2>1, <3>1
    <2>4. ASSUME Reports(client) PROVE client.pos = 11
      <3>1. Len(ClientScript[client.cmd]) = 10
        BY <2>4, ClientLengths DEF Reports
      <3> QED
        BY <2>1, <3>1
    <2>5. client'.pos = 1 \/ (client'.cmd = client.cmd /\ client'.pos = client.pos)
      BY <1>4, ClientForms, ShellReturnPlace DEF AtPrompt, Starts
    <2>6. cconf'.name = cconf.name /\ cconf'.index = cconf.index
      <3>1. ~SetConfig
        <4> SUFFICES ASSUME SetConfig PROVE FALSE
          OBVIOUS
        <4>1. ClientRunning /\ client' = Step(client)
          BY DEF SetConfig, ClientDoes
        <4>2. client.pos \in 1 .. Len(ClientScript[client.cmd])
          BY <4>1, AtOps
        <4> QED
          BY <2>1, <4>2
      <3> QED
        BY <3>1, ShellSettingsKept
    <2> QED
      BY <1>1, <1>2, <1>3, <2>2, <2>3, <2>4, <2>5, <2>6
      DEF ConfigInv, ClientName, ClientIndex, NameTaken, IndexTaken, Reports, svars
  <1>5. CASE ~AtPrompt /\ ~ClientReturns /\ client.cmd = "rename"
    BY <1>2, <1>3, <1>5, ShellRename DEF ConfigInv, ClientIndex, IndexTaken, Reports
  <1>6. CASE ~AtPrompt /\ ~ClientReturns /\ client.cmd = "comp"
    BY <1>2, <1>3, <1>6, ShellComp DEF ConfigInv, ClientName, NameTaken, Reports
  <1>7. CASE ~AtPrompt /\ ~ClientReturns /\ Reports(client)
    BY <1>2, <1>3, <1>7, ShellReport DEF ConfigInv, ClientName, ClientIndex, NameTaken, IndexTaken, Reports
  <1>8. CASE ~AtPrompt /\ ~ClientReturns /\ client.cmd \notin {"rename", "comp", "show", "check"}
    <2>1. client'.cmd = client.cmd
      BY <1>8, ShellRegs
    <2>2. ~SetConfig
      BY <1>8, AtOps DEF SetConfig, ClientDoes, ClientOpAt
    <2>3. cconf'.name = cconf.name /\ cconf'.index = cconf.index
      BY <2>2, ShellSettingsKept
    <2> QED
      BY <1>2, <1>3, <1>8, <2>1, <2>3 DEF ConfigInv, ClientName, ClientIndex, NameTaken, IndexTaken, Reports
  <1> QED
    BY <1>4, <1>5, <1>6, <1>7, <1>8 DEF Reports

-----------------------------------------------------------------------------
(* A step of the worker.                                                    *)

LEMMA WorkerNotRefused ==
  ASSUME SidesOK, Framed, ~ClientGone, server.cmd \in {"rename", "comp"}
  PROVE  ~ServerRefused
  <1> SUFFICES ASSUME ServerRefused PROVE FALSE
    OBVIOUS
  <1>1. ServerRunning /\ ServerOp.do = "get" /\ ServerOp.kind = "rsp" /\ c2s # <<>> /\ ~ServerGone
        /\ Head(c2s).kind = "rsp" /\ Head(c2s).val \in Refusal
    BY DEF ServerRefused, ServerRunning, ServerGone
  <1>2. CASE Talking
    <2>1. Together(SDone) /\ SDone \in Nat
      BY <1>2, ClocksInRange DEF Talking, Together
    <2> QED
      BY <1>1, <2>1, WorkerReads
  <1>3. CASE Overlapping
    <2>1. /\ PutBy("client", server.cmd, SDone, Length(server.cmd))
          /\ c2s = Before(InFlight(server.cmd, SDone, Length(server.cmd), Blank), Begun)
      BY <1>1, <1>3 DEF Overlapping, Channels
    <2>2. /\ server.cmd \in DOMAIN ClientScript /\ SDone \in Nat /\ Length(server.cmd) \in Nat
          /\ SDone < Length(server.cmd)
      BY <1>1, ServerPlace
    <2>3. Short(Begun)
      BY DEF Short, Begun
    <2>4. Head(c2s) = Message(Blank, Dialogue[server.cmd][SDone + 1])
      BY <2>1, <2>2, <2>3, GetBefore
    <2>5. SDone + 1 \in 1 .. Length(server.cmd)
      BY <2>2
    <2>6. DOMAIN Blank = DOMAIN Blank
      OBVIOUS
    <2> QED
      BY <1>1, <2>2, <2>4, <2>5, <2>6, AnswersInFlight
  <1>4. CASE ServerRefuses \/ ClientRefuses \/ ArchiveUnwanted
    BY <1>4 DEF ServerRefuses, ServerEnded, ClientRefuses, ArchiveUnwanted
  <1>5. CASE ArchiveUnread \/ FileUnwanted
    BY <1>5 DEF ArchiveUnread, FileUnwanted, ServerEnded
  <1>6. CASE Stale \/ Silent
    BY <1>1, <1>6 DEF Stale, Silent
  <1> QED
    BY <1>2, <1>3, <1>4, <1>5, <1>6 DEF Framed

LEMMA WorkerGoesOn ==
  ASSUME SidesOK, Framed, WorkerStep, ~ClientGone, server.cmd \in {"rename", "comp"},
         ~ServerReturns, server'.pos # server.pos
  PROVE  ServerAdvances /\ ServerRunning
  <1>1. ~ServerRefused
    BY WorkerNotRefused
  <1>2. ~ServerAtEnd /\ ~ServerFails
    BY DEF ServerAtEnd, ServerFails
  <1>3. ~Dispatch
    BY WorkerReturnPlace
  <1>4. ServerRunning => ServerOpAt(ServerOp, server.cmd, server.pos)
    BY AtOps
  <1>5. ~CheckExisting /\ ~CreateFile /\ ~StoreFile /\ ~MakeArchive /\ ~ReadArchive /\ ~OpenFails
        /\ ~ServerFileFails /\ ~DeleteArchive
    BY <1>4 DEF CheckExisting, CreateFile, StoreFile, MakeArchive, ReadArchive, OpenFails,
       ServerFileFails, DeleteArchive, ServerDoes, ServerOpAt
  <1>6. CASE ServerPuts \/ ServerGets
    BY <1>6, ServerForms DEF ServerPuts, ServerGets, ServerAdvances, ServerRunning
  <1>7. CASE SetServerName \/ SetServerIndex
    BY <1>7, ServerForms DEF SetServerName, SetServerIndex, ServerDoes, ServerAdvances, ServerRunning
  <1>8. CASE ServerMisreads \/ ServerKilled
    BY <1>8, ServerForms DEF ServerMisreads, ServerKilled
  <1> QED
    BY <1>1, <1>2, <1>3, <1>5, <1>6, <1>7, <1>8 DEF WorkerStep, ServerStep

(* The only step of the worker at a setting to set is to set it, or to go.  *)
LEMMA WorkerDoes ==
  ASSUME SidesOK, WorkerStep, ServerRunning, ServerOp.do = "do", server'.pos # server.pos
  PROVE  /\ ServerOp.x = "set_name" => SetServerName
         /\ ServerOp.x = "set_index" => SetServerIndex
  <1>1. ~ServerPuts /\ ~ServerGets /\ ~ServerRefused /\ ~ServerMisreads /\ ~ServerAtEnd /\ ~ServerFails
    BY DEF ServerPuts, ServerGets, ServerRefused, ServerMisreads, ServerAtEnd, ServerFails
  <1>2. ~ServerReturns
    <2>1. server.pos \in 1 .. Len(ServerScript[server.cmd])
      BY AtOps
    <2> QED
      BY <2>1 DEF ServerReturns
  <1>3. ~ServerKilled
    BY ServerForms DEF ServerKilled
  <1>4. ServerOp.x \in {"set_name", "set_index"} =>
          /\ ~CheckExisting /\ ~CreateFile /\ ~StoreFile /\ ~MakeArchive /\ ~ReadArchive /\ ~OpenFails
          /\ ~ServerFileFails /\ ~DeleteArchive /\ ~Dispatch
    BY DEF CheckExisting, CreateFile, StoreFile, MakeArchive, ReadArchive, OpenFails,
       ServerFileFails, DeleteArchive, Dispatch, ServerDoes
  <1>5. /\ ServerOp.x = "set_name" => ~SetServerIndex
        /\ ServerOp.x = "set_index" => ~SetServerName
    BY DEF SetServerName, SetServerIndex, ServerDoes
  <1> QED
    BY <1>1, <1>2, <1>3, <1>4, <1>5 DEF WorkerStep, ServerStep

LEMMA WorkerRename ==
  ASSUME SidesOK, Framed, DataOK, ConfigInv, WorkerStep, Met', server.cmd = "rename"
  PROVE  (ServerName = ClientName)' /\ (ServerIndex = ClientIndex)'
  <1>0. Met /\ ~ServerGone /\ ~ClientGone /\ client' = client /\ creg' = creg /\ cconf' = cconf
    BY WorkerMet
  <1>1. ServerName = ClientName /\ ServerIndex = ClientIndex /\ sconf.index = ServerIndex
    BY <1>0 DEF ConfigInv, ServerIndex
  <1>2. "name" \in DOMAIN sconf /\ "index" \in DOMAIN sconf
    BY DEF DataOK, TypeOK
  <1>3. server.pos \in 1 .. 7
    BY ServerLengths DEF SidesOK, ServerOK
  <1>4. ~Dispatch
    BY WorkerReturnPlace
  <1>5. CASE ServerReturns
    <2>1. server.pos = 7 /\ server'.cmd = "loop" /\ sconf' = sconf
      <3>1. Len(ServerScript[server.cmd]) = 6
        BY ServerLengths
      <3> QED
        BY <1>5, <3>1, WorkerReturnPlace DEF ServerReturns
    <2>2. NameTaken' <=> NameTaken
      BY <1>0, <2>1, RenamePlaces DEF NameTaken
    <2> QED
      BY <1>0, <1>1, <2>1, <2>2 DEF ServerName, ServerIndex, ClientName, ClientIndex, IndexTaken
  <1>6. CASE ~ServerReturns /\ server'.pos = server.pos
    <2>1. server'.cmd = server.cmd /\ ~ServerAdvances
      BY <1>3, <1>4, <1>6, WorkerRegs DEF ServerAdvances
    <2>2. sreg' = sreg /\ ~SetServerName /\ ~SetServerIndex
      BY <1>3, <1>4, <1>6, <2>1, WorkerRegs, ServerForms DEF SetServerName, SetServerIndex
    <2>3. sconf' = sconf
      BY <2>2, WorkerSettingsKept
    <2> QED
      BY <1>0, <1>1, <1>6, <2>1, <2>2, <2>3
      DEF ServerName, ServerIndex, ClientName, ClientIndex, NameTaken, IndexTaken
  <1>7. CASE ~ServerReturns /\ server'.pos # server.pos
    <2>1. ServerAdvances /\ ServerRunning /\ server'.cmd = "rename" /\ server'.pos = server.pos + 1
      BY <1>0, <1>4, <1>7, WorkerGoesOn, WorkerRegs DEF ServerAdvances
    <2>2. server.pos \in 1 .. 6
      <3>1. server.pos <= 6
        BY <2>1, ServerLengths DEF ServerRunning
      <3> QED
        BY <1>3, <3>1
    <2>3. ~SetServerIndex
      BY AtOps DEF SetServerIndex, ServerDoes, ServerOpAt
    <2>4. CASE server.pos = 6
      <3>1. ServerOp.do = "do" /\ ServerOp.x = "set_name"
        BY <2>4 DEF ServerOp, ServerScript, HandleConfigureName, Do
      <3>2. SetServerName
        BY <1>7, <2>1, <3>1, WorkerDoes
      <3>3. sconf'.name = sreg.name /\ sconf'.index = sconf.index
        BY <1>2, <3>2 DEF SetServerName
      <3> QED
        BY <1>0, <1>1, <2>1, <2>4, <3>3
        DEF ServerName, ServerIndex, ClientName, ClientIndex, NameTaken, IndexTaken
    <2>5. CASE server.pos # 6
      <3>1. ~SetServerName
        BY <2>5, AtOps DEF SetServerName, ServerDoes, ServerOpAt
      <3>2. sconf' = sconf
        BY <2>3, <3>1, WorkerSettingsKept
      <3>3. CASE server.pos = 3
        <4>1. ServerOp.do = "get" /\ ServerOp.x = "name"
          BY <3>3 DEF ServerOp, ServerScript, HandleConfigureName, Get
        <4>2. ServerGets /\ sreg' = Store(sreg, "name", Head(c2s).val)
          BY <1>0, <2>1, <4>1 DEF ServerAdvances, ReadArchive, ServerDoes
        <4>3. c2s # <<>> /\ DOMAIN sreg = DOMAIN Blank
          BY <4>2 DEF ServerGets, SidesOK, ServerOK
        <4>4. client.cmd = "rename" /\ client.pos = 6 /\ Head(c2s).val = creg.arg
          BY <2>1, <3>3, <4>3, WorkerHearsName
        <4>5. sreg'.name = creg.arg
          BY <4>2, <4>3, <4>4, StoreOther
        <4> QED
          BY <1>0, <1>1, <2>1, <3>2, <3>3, <4>4, <4>5
          DEF ServerName, ServerIndex, ClientName, ClientIndex, NameTaken, IndexTaken
      <3>4. CASE server.pos \in {1, 2, 4, 5}
        <4>1. sreg'.name = sreg.name
          BY <2>1, <3>4, WorkerKeeps
        <4> QED
          BY <1>0, <1>1, <2>1, <3>2, <3>4, <4>1
          DEF ServerName, ServerIndex, ClientName, ClientIndex, NameTaken, IndexTaken
      <3> QED
        BY <2>2, <2>5, <3>3, <3>4
    <2> QED
      BY <2>4, <2>5
  <1> QED
    BY <1>5, <1>6, <1>7

LEMMA WorkerComp ==
  ASSUME SidesOK, Framed, DataOK, ConfigInv, WorkerStep, Met', server.cmd = "comp"
  PROVE  (ServerName = ClientName)' /\ (ServerIndex = ClientIndex)'
  <1>0. Met /\ ~ServerGone /\ ~ClientGone /\ client' = client /\ creg' = creg /\ cconf' = cconf
    BY WorkerMet
  <1>1. ServerName = ClientName /\ ServerIndex = ClientIndex /\ sconf.name = ServerName
    BY <1>0 DEF ConfigInv, ServerName
  <1>2. "name" \in DOMAIN sconf /\ "index" \in DOMAIN sconf
    BY DEF DataOK, TypeOK
  <1>3. server.pos \in 1 .. 5
    BY ServerLengths DEF SidesOK, ServerOK
  <1>4. ~Dispatch
    BY WorkerReturnPlace
  <1>5. CASE ServerReturns
    <2>1. server.pos = 5 /\ server'.cmd = "loop" /\ sconf' = sconf
      <3>1. Len(ServerScript[server.cmd]) = 4
        BY ServerLengths
      <3> QED
        BY <1>5, <3>1, WorkerReturnPlace DEF ServerReturns
    <2>2. IndexTaken' <=> IndexTaken
      BY <1>0, <2>1, CompPlaces DEF IndexTaken
    <2> QED
      BY <1>0, <1>1, <2>1, <2>2 DEF ServerName, ServerIndex, ClientName, ClientIndex, NameTaken
  <1>6. CASE ~ServerReturns /\ server'.pos = server.pos
    <2>1. server'.cmd = server.cmd /\ ~ServerAdvances
      BY <1>3, <1>4, <1>6, WorkerRegs DEF ServerAdvances
    <2>2. sreg' = sreg /\ ~SetServerName /\ ~SetServerIndex
      BY <1>3, <1>4, <1>6, <2>1, WorkerRegs, ServerForms DEF SetServerName, SetServerIndex
    <2>3. sconf' = sconf
      BY <2>2, WorkerSettingsKept
    <2> QED
      BY <1>0, <1>1, <1>6, <2>1, <2>2, <2>3
      DEF ServerName, ServerIndex, ClientName, ClientIndex, NameTaken, IndexTaken
  <1>7. CASE ~ServerReturns /\ server'.pos # server.pos
    <2>1. ServerAdvances /\ ServerRunning /\ server'.cmd = "comp" /\ server'.pos = server.pos + 1
      BY <1>0, <1>4, <1>7, WorkerGoesOn, WorkerRegs DEF ServerAdvances
    <2>2. server.pos \in 1 .. 4
      <3>1. server.pos <= 4
        BY <2>1, ServerLengths DEF ServerRunning
      <3> QED
        BY <1>3, <3>1
    <2>3. ~SetServerName
      BY AtOps DEF SetServerName, ServerDoes, ServerOpAt
    <2>4. CASE server.pos = 4
      <3>1. ServerOp.do = "do" /\ ServerOp.x = "set_index"
        BY <2>4 DEF ServerOp, ServerScript, HandleConfigureCompressor, Do
      <3>2. SetServerIndex
        BY <1>7, <2>1, <3>1, WorkerDoes
      <3>3. sconf'.index = sreg.index /\ sconf'.name = sconf.name
        BY <1>2, <3>2 DEF SetServerIndex
      <3> QED
        BY <1>0, <1>1, <2>1, <2>4, <3>3
        DEF ServerName, ServerIndex, ClientName, ClientIndex, NameTaken, IndexTaken
    <2>5. CASE server.pos # 4
      <3>1. ~SetServerIndex
        BY <2>5, AtOps DEF SetServerIndex, ServerDoes, ServerOpAt
      <3>2. sconf' = sconf
        BY <2>3, <3>1, WorkerSettingsKept
      <3>3. CASE server.pos = 1
        <4>1. ServerOp.do = "get" /\ ServerOp.x = "index"
          BY <3>3 DEF ServerOp, ServerScript, HandleConfigureCompressor, Get
        <4>2. ServerGets /\ sreg' = Store(sreg, "index", Head(c2s).val)
          BY <1>0, <2>1, <4>1 DEF ServerAdvances, ReadArchive, ServerDoes
        <4>3. c2s # <<>> /\ DOMAIN sreg = DOMAIN Blank
          BY <4>2 DEF ServerGets, SidesOK, ServerOK
        <4>4. client.cmd = "comp" /\ client.pos = 4 /\ Head(c2s).val = creg.arg
          BY <2>1, <3>3, <4>3, WorkerHearsIndex
        <4>5. sreg'.index = creg.arg
          BY <4>2, <4>3, <4>4, StoreOther
        <4> QED
          BY <1>0, <1>1, <2>1, <3>2, <3>3, <4>4, <4>5
          DEF ServerName, ServerIndex, ClientName, ClientIndex, NameTaken, IndexTaken
      <3>4. CASE server.pos \in {2, 3}
        <4>1. sreg'.index = sreg.index
          BY <2>1, <3>4, WorkerKeeps
        <4> QED
          BY <1>0, <1>1, <2>1, <3>2, <3>4, <4>1
          DEF ServerName, ServerIndex, ClientName, ClientIndex, NameTaken, IndexTaken
      <3> QED
        BY <2>2, <2>5, <3>3, <3>4
    <2> QED
      BY <2>4, <2>5
  <1> QED
    BY <1>5, <1>6, <1>7

LEMMA WorkerConfig ==
  ASSUME SidesOK, Framed, DataOK, ConfigInv, WorkerStep
  PROVE  ConfigInv'
  <1> SUFFICES ASSUME Met' PROVE ConfigInv'
    BY DEF ConfigInv
  <1>1. Met /\ ~ServerGone /\ ~ClientGone /\ client' = client /\ creg' = creg /\ cconf' = cconf
    BY WorkerMet
  <1>2. ServerName = ClientName /\ ServerIndex = ClientIndex
    BY <1>1 DEF ConfigInv
  <1>3. (ServerName = ClientName)' /\ (ServerIndex = ClientIndex)'
    <2>1. CASE server.cmd = "rename"
      BY <2>1, WorkerRename
    <2>2. CASE server.cmd = "comp"
      BY <2>2, WorkerComp
    <2>3. CASE server.cmd \notin {"rename", "comp"}
      <3>1. ~SetServerName /\ ~SetServerIndex
        BY <2>3, AtOps DEF SetServerName, SetServerIndex, ServerDoes, ServerOpAt
      <3>2. sconf' = sconf
        BY <3>1, WorkerSettingsKept
      <3>3. server'.cmd = server.cmd \/ server'.cmd = "loop" \/ server'.pos = 1
        BY WorkerRegs, WorkerReturnPlace
      <3> QED
        BY <1>1, <1>2, <2>3, <3>2, <3>3
        DEF ServerName, ServerIndex, ClientName, ClientIndex, NameTaken, IndexTaken
    <2> QED
      BY <2>1, <2>2, <2>3
  <1>4. ASSUME Reports(client) PROVE ServerName' = ServerName /\ ServerIndex' = ServerIndex
    BY <1>1, <1>2, <1>3, <1>4 DEF ClientName, ClientIndex, NameTaken, IndexTaken, Reports
  <1>5. /\ Reports(client) /\ client.pos \in 6 .. 10 => creg.name = ServerName
        /\ Reports(client) /\ client.pos \in 8 .. 10 => creg.index = ServerIndex
    BY <1>1 DEF ConfigInv
  <1> QED
    BY <1>1, <1>3, <1>4, <1>5 DEF ConfigInv, Reports

-----------------------------------------------------------------------------
LEMMA ConfigInit == Init => ConfigInv
  BY DEF Init, ConfigInv, ServerName, ServerIndex, ClientName, ClientIndex, NameTaken, IndexTaken, Reports

LEMMA ConfigStep == FrameInv /\ DataOK /\ ConfigInv /\ [Next]_vars => ConfigInv'
  <1> SUFFICES ASSUME FrameInv, DataOK, ConfigInv, [Next]_vars PROVE ConfigInv'
    OBVIOUS
  <1>1. SidesOK /\ StreamKept
    BY DEF FrameInv
  <1>2. CASE ShellStep
    BY <1>1, <1>2, ShellConfig, ShellSteps DEF StreamKept
  <1>3. CASE WorkerStep
    BY <1>1, <1>3, WorkerConfig, WorkerSteps DEF StreamKept
  <1>4. CASE UNCHANGED vars
    BY <1>4 DEF vars, channels, cvars, svars, ConfigInv, Met, ClientGone, ServerGone, ServerName, ServerIndex,
                ClientName, ClientIndex, NameTaken, IndexTaken, Reports
  <1> QED
    BY <1>2, <1>3, <1>4 DEF Next, ShellStep, WorkerStep

(* What one side has set and the other has not is a place in the dialogue:  *)
(* the settings of both, once each has set what it has taken, are the same  *)
(* while both are there (handle_configure_...(), do_conf_...(),             *)
(* configuration_check()).                                                  *)
THEOREM ConfigInvariant == Spec => [](FrameInv /\ DataOK /\ ConfigInv)
  <1>1. FrameInv /\ DataOK /\ ConfigInv /\ [Next]_vars => (FrameInv /\ DataOK /\ ConfigInv)'
    BY FrameStep, DataStep, ConfigStep
  <1>2. Init => FrameInv /\ DataOK /\ ConfigInv
    BY FrameInit, DataInit, ConfigInit
  <1> QED
    BY <1>1, <1>2, PTL DEF Spec

(* A setting is changed on the server first, by the worker, and then at the *)
(* client (do_conf_name(), do_conf_comp()), and never on one side only      *)
(* while both are there: between commands the configurations agree, and the *)
(* algorithm of the bridge is the one the server's stands for.              *)
THEOREM ConfigurationsAgree == Spec => []ConfigAgreement
  <1>1. FrameInv /\ DataOK /\ ConfigInv => ConfigAgreement
    <2> SUFFICES ASSUME FrameInv, DataOK, ConfigInv, AtRest PROVE ConfigAgreement
      BY DEF ConfigAgreement
    <2>1. client.mode = "prompt" /\ server.cmd = "loop" /\ Met
      BY DEF AtRest, Met, ClientGone, ServerGone
    <2>2. client.pos = Len(ClientScript[client.cmd]) + 1
      BY <2>1 DEF FrameInv, SidesOK, ClientOK
    <2>3. ASSUME client.cmd = "rename" PROVE client.pos = 9
      <3>1. Len(ClientScript[client.cmd]) = 8
        BY <2>3, ClientLengths
      <3> QED
        BY <2>2, <3>1
    <2>4. ASSUME client.cmd = "comp" PROVE client.pos = 7
      <3>1. Len(ClientScript[client.cmd]) = 6
        BY <2>4, ClientLengths
      <3> QED
        BY <2>2, <3>1
    <2> QED
      BY <2>1, <2>3, <2>4 DEF ConfigAgreement, ConfigInv, ServerName, ServerIndex, ClientName, ClientIndex,
         NameTaken, IndexTaken, DataOK, SettingsOK
  <1> QED
    BY <1>1, ConfigInvariant, PTL
=============================================================================
