--------------------------- MODULE ServerPoolProofs ---------------------------
(***************************************************************************)
(* Theorems of ServerPool, for every set of connections, every number of   *)
(* slots and every set of faults.                                          *)
(***************************************************************************)
EXTENDS ServerPool, TLAPS

USE DEF Goto

-----------------------------------------------------------------------------
(* Every variable stays in its type, and the main thread has at most one    *)
(* connection in hand (server_listen() is a single loop).                   *)
LEMMA TypeMainInit == Init => TypeOK /\ MainInv
  <1> SUFFICES ASSUME Init PROVE TypeOK /\ MainInv
    OBVIOUS
  <1> USE PoolAssumption DEF Init
  <1>1. TypeOK
    BY DEF TypeOK, Addresses, Slots, Ids, NoId, Objects, Object, Null, Wild, Base, BaseAt,
           Stages, MainSteps, DirKinds
  <1>2. MainInv
    BY DEF MainInv
  <1> QED
    BY <1>1, <1>2

LEMMA TypeMainStep == TypeOK /\ MainInv /\ [Next]_vars => TypeOK' /\ MainInv'
  <1> SUFFICES ASSUME TypeOK, MainInv, [Next]_vars PROVE TypeOK' /\ MainInv'
    OBVIOUS
  <1> USE PoolAssumption DEF TypeOK, MainInv
  <1>1. CASE \E c \in Conn : Connect(c) \/ PeerCloses(c)
    BY <1>1 DEF Connect, PeerCloses, memory, mainvar, Stages
  <1>2. CASE \E c \in Conn : Accept(c)
    BY <1>2 DEF Accept, memory, Stages, MainSteps
  <1>3. CASE ScanSlot
    BY <1>3 DEF ScanSlot, Take, memory, MainSteps, Ids, Slots, NoId
  <1>4. CASE NewConf
    <2> USE <1>4 DEF NewConf
    <2>1. cur \in Conn
      BY DEF MainSteps
    <2>2. Conf(cur) \in Objects
      BY <2>1 DEF Conf, Object, Objects
    <2>3. TypeOK'
      BY <2>1, <2>2 DEF Stages, MainSteps, DirKinds
    <2>4. MainInv'
      BY <2>1 DEF Stages, MainSteps
    <2> QED
      BY <2>3, <2>4
  <1>5. CASE Mkdir \/ Rmdir \/ Remkdir \/ RecreateFails
    BY <1>5 DEF Mkdir, Rmdir, Remkdir, RecreateFails, NextDir, Dir, memory, MainSteps, DirKinds
  <1>6. CASE NewWorker
    <2> USE <1>6 DEF NewWorker
    <2>1. cur \in Conn
      BY DEF MainSteps
    <2>2. Handler(cur) \in Objects
      BY <2>1 DEF Handler, Object, Objects
    <2> QED
      BY <2>1, <2>2 DEF MainSteps
  <1>7. CASE StartThread \/ StartThreadFails
    BY <1>7 DEF StartThread, StartThreadFails, memory, Stages, Serving, MainSteps
  <1>8. CASE AcceptFails \/ MkdirFails \/ MainBadPointer
    BY <1>8 DEF AcceptFails, MkdirFails, MainBadPointer, BadPointer, Die, Outcome
  <1>9. CASE \E c \in Conn : Serve(c)
    BY <1>9 DEF Serve, Handshake, HandshakeTransmissionError, HandshakeNotConnected, ReceiveCommand,
                Quit, IdleEOF, IdleReset, CommandEnds, CommandNotConnected, CommandFileFails, UseDestroyed,
                Move, Terminate, BadPointer, Die, Outcome, memory, mainvar,
                Stages, Serving, Releasing
  <1>10. CASE \E c \in Conn : Release(c)
    BY <1>10, SMTT(30) DEF Release, Close, Free, ClearConf, DestroyWorker, ClearWorker, RmArchive, RmFiles,
                 RmFails, ReleaseBadPointer,
                Move, BadPointer, Die, Outcome, memory, mainvar,
                Stages, Serving, Releasing, Cleaning, Null, Object, Objects
  <1>11. CASE UNCHANGED vars
    BY <1>11 DEF vars
  <1> QED
    BY <1>1, <1>2, <1>3, <1>4, <1>5, <1>6, <1>7, <1>8, <1>9, <1>10, <1>11 DEF Next, MainStep

THEOREM TypeCorrect == Spec => []TypeOK
  <1>1. Spec => [](TypeOK /\ MainInv)
    BY TypeMainInit, TypeMainStep, PTL DEF Spec
  <1> QED
    BY <1>1, PTL
-----------------------------------------------------------------------------
(* Pointers to different things differ, and so do addresses, except that    *)
(* worker[-1] is conf[MAX_CLIENT - 1].                                      *)
LEMMA PointersDiffer ==
  ASSUME NEW c \in Conn, NEW d \in Conn
  PROVE  /\ Conf(c) = Conf(d) => c = d
         /\ Handler(c) = Handler(d) => c = d
         /\ Conf(c) # Handler(d)
         /\ Null # Conf(c) /\ Null # Handler(c)
         /\ Base # Conf(c) /\ Base # Handler(c) /\ Base # Null
         /\ Wild # Conf(c) /\ Wild # Handler(c) /\ Base # Wild
  BY DEF Conf, Handler, Null, Base, Wild, Object

LEMMA AddressesDiffer ==
  ASSUME NEW i \in Ids, NEW j \in Ids
  PROVE  /\ ConfAt(i) \in Addresses /\ WorkerAt(i) \in Addresses /\ BaseAt \in Addresses
         /\ ConfAt(i) = ConfAt(j) => i = j
         /\ WorkerAt(i) = WorkerAt(j) => i = j
         /\ ConfAt(i) = WorkerAt(j) => i = MAX_CLIENT - 1 /\ j = -1
         /\ WorkerAt(i) # BaseAt
         /\ ConfAt(i) = BaseAt => i = -1
  BY PoolAssumption DEF ConfAt, WorkerAt, BaseAt, Ids, Addresses

(* The directories: client_IDs are numbers, the others are not.             *)
LEMMA SlotsAreIds == Slots \subseteq Ids /\ -1 \in Ids /\ -1 \notin Slots /\ NoId \notin Ids
  BY PoolAssumption DEF Slots, Ids, NoId

-----------------------------------------------------------------------------
(* The other parts of the invariant, one lemma each.                        *)
LEMMA PoolInit == Init => PoolInv
  <1> SUFFICES ASSUME Init PROVE PoolInv
    OBVIOUS
  <1> USE DEF Init
  <1>1. TypeOK /\ MainInv
    BY TypeMainInit
  <1>2. IdInv
    BY DEF IdInv
  <1>3. ConfInv
    BY PoolAssumption, SlotsAreIds
    DEF ConfInv, Holding, Serving, Releasing, Overflowed, NoId, BaseAt, Addresses
  <1>4. WorkerInv
    BY PointersDiffer, AddressesDiffer, SlotsAreIds DEF WorkerInv
  <1>5. ReleaseInv
    BY DEF ReleaseInv, Cleaning
  <1>6. ObjectInv
    BY DEF ObjectInv, Serving, Releasing
  <1>7. MemoryFaultsExplained
    BY DEF MemoryFaultsExplained
  <1>8. DirInv
    BY DEF DirInv, HasDir, Serving, Releasing
  <1>9. EmptyInv
    BY PoolAssumption DEF EmptyInv, Slots, ConfAt, BaseAt, Addresses
  <1>10. LeftInv
    BY DEF LeftInv
  <1> QED
    BY <1>1, <1>2, <1>3, <1>4, <1>5, <1>6, <1>7, <1>8, <1>9, <1>10 DEF PoolInv

LEMMA IdStep == TypeOK /\ MainInv /\ IdInv /\ [Next]_vars => IdInv'
  <1> SUFFICES ASSUME TypeOK, MainInv, IdInv, [Next]_vars PROVE IdInv'
    OBVIOUS
  <1> USE PoolAssumption DEF TypeOK, MainInv, IdInv
  <1>1. CASE \E c \in Conn : Connect(c) \/ PeerCloses(c)
    BY <1>1 DEF Connect, PeerCloses, memory, mainvar
  <1>2. CASE \E c \in Conn : Accept(c)
    BY <1>2 DEF Accept, memory
  <1>3. CASE ScanSlot
    BY <1>3, SlotsAreIds DEF ScanSlot, Take, memory, Slots, NoId
  <1>4. CASE NewConf
    BY <1>4 DEF NewConf, MainSteps
  <1>5. CASE Mkdir \/ Rmdir \/ Remkdir \/ RecreateFails
    BY <1>5 DEF Mkdir, Rmdir, Remkdir, RecreateFails, NextDir, memory
  <1>6. CASE NewWorker
    BY <1>6 DEF NewWorker
  <1>7. CASE StartThread \/ StartThreadFails
    BY <1>7 DEF StartThread, StartThreadFails, memory
  <1>8. CASE AcceptFails \/ MkdirFails \/ MainBadPointer
    BY <1>8 DEF AcceptFails, MkdirFails, MainBadPointer, BadPointer, Die
  <1>9. CASE \E c \in Conn : Serve(c)
    BY <1>9 DEF Serve, Handshake, HandshakeTransmissionError, HandshakeNotConnected, ReceiveCommand,
                Quit, IdleEOF, IdleReset, CommandEnds, CommandNotConnected, CommandFileFails, UseDestroyed,
                Move, Terminate, BadPointer, Die, mainvar
  <1>10. CASE \E c \in Conn : Release(c)
    BY <1>10 DEF Release, Close, Free, ClearConf, DestroyWorker, ClearWorker, RmArchive, RmFiles,
                 RmFails, ReleaseBadPointer, Move, BadPointer, Die, mainvar
  <1>11. CASE UNCHANGED vars
    BY <1>11 DEF vars
  <1> QED
    BY <1>1, <1>2, <1>3, <1>4, <1>5, <1>6, <1>7, <1>8, <1>9, <1>10, <1>11 DEF Next, MainStep

(* Numbers are never taken back, the mark of an early slot never removed,   *)
(* and an overflow never forgotten: what is spared now was spared before.   *)
LEMMA Monotonic ==
  ASSUME TypeOK, MainInv, IdInv, [Next]_vars
  PROVE  /\ \A c \in Conn : id[c] # NoId => id'[c] = id[c]
         /\ Overflowed => Overflowed'
         /\ reissued \subseteq reissued'
         /\ \A c \in Conn : id[c] # NoId /\ Spared(c)' => Spared(c)
  <1> USE DEF TypeOK, MainInv, IdInv
  <1>1. (\A c \in Conn : id[c] # NoId => id'[c] = id[c]) /\ reissued \subseteq reissued'
    <2>1. CASE ScanSlot
      BY <2>1 DEF ScanSlot, Take, memory
    <2>2. CASE UNCHANGED <<id, reissued>>
      BY <2>2
    <2> QED
      BY <2>1, <2>2
      DEF Next, MainStep, vars, Connect, PeerCloses, Accept, AcceptFails, NewConf, Mkdir, MkdirFails,
          Rmdir, Remkdir, RecreateFails, NewWorker, StartThread, StartThreadFails, MainBadPointer,
          Serve, Handshake, HandshakeTransmissionError, HandshakeNotConnected, ReceiveCommand,
          Quit, IdleEOF, IdleReset, CommandEnds, CommandNotConnected, CommandFileFails, UseDestroyed,
          Release, Close, Free, ClearConf, DestroyWorker, ClearWorker, RmArchive, RmFiles,
          RmFails, ReleaseBadPointer, Move, Terminate, BadPointer, Die
  <1>2. Overflowed => Overflowed'
    BY <1>1 DEF Overflowed, NoId
  <1>3. ASSUME NEW c \in Conn, id[c] # NoId, Spared(c)' PROVE Spared(c)
    BY <1>1, <1>2, <1>3 DEF Spared
  <1> QED
    BY <1>1, <1>2, <1>3

(* What a step of a served connection does to the tables: nothing.          *)
LEMMA ServeEffect ==
  ASSUME NEW c \in Conn, Serve(c)
  PROVE  /\ cell' = cell /\ live' = live /\ id' = id /\ mpc' = mpc /\ cur' = cur
         /\ reissued' = reissued
         /\ \/ pc' = pc
            \/ /\ pc[c] \in Serving
               /\ \E to \in Serving \cup {"close", "uncaught"} : pc' = [pc EXCEPT ![c] = to]
  BY DEF Serve, Handshake, HandshakeTransmissionError, HandshakeNotConnected, ReceiveCommand,
         Quit, IdleEOF, IdleReset, CommandEnds, CommandNotConnected, CommandFileFails, UseDestroyed,
         Move, Terminate, BadPointer, Die, memory, mainvar, Serving

(* What a step of a releasing connection does to them.                      *)
LEMMA ReleaseEffect ==
  ASSUME NEW c \in Conn, Release(c)
  PROVE  /\ id' = id /\ mpc' = mpc /\ cur' = cur /\ reissued' = reissued
         /\ \/ Free(c) \/ ClearConf(c) \/ DestroyWorker(c) \/ ClearWorker(c)
            \/ /\ cell' = cell /\ live' = live
               /\ \/ pc' = pc
                  \/ pc[c] = "close" /\ pc' = [pc EXCEPT ![c] = "free"]
                  \/ /\ pc[c] \in {"rm_archive", "rm_files"}
                     /\ \E to \in {"rm_files", "done"} : pc' = [pc EXCEPT ![c] = to]
  BY DEF Release, Close, Free, ClearConf, DestroyWorker, ClearWorker, RmArchive, RmFiles, RmFails,
         ReleaseBadPointer, Move, BadPointer, Die, memory, mainvar

(* What the rest of the steps do, but for the main thread's writes.         *)
LEMMA OtherEffect ==
  ASSUME NEW c \in Conn,
         Connect(c) \/ PeerCloses(c) \/ Accept(c)
         \/ Mkdir \/ Rmdir \/ Remkdir \/ RecreateFails \/ StartThread \/ StartThreadFails
         \/ AcceptFails \/ MkdirFails \/ MainBadPointer \/ UNCHANGED vars
  PROVE  cell' = cell /\ live' = live /\ id' = id /\ reissued' = reissued
  BY DEF Connect, PeerCloses, Accept, Mkdir, Rmdir, Remkdir, RecreateFails, StartThread,
         StartThreadFails, AcceptFails, MkdirFails, MainBadPointer, BadPointer, Die, memory, vars

LEMMA ConfStep == TypeOK /\ MainInv /\ IdInv /\ ConfInv /\ [Next]_vars => ConfInv'
  <1> SUFFICES ASSUME TypeOK, MainInv, IdInv, ConfInv, [Next]_vars PROVE ConfInv'
    OBVIOUS
  <1> USE Monotonic, SlotsAreIds DEF TypeOK, MainInv, IdInv, ConfInv, Holding, Serving, Releasing
  <1>0. \A c \in Conn : Spared(c) => id[c] \in Slots
    BY DEF Spared
  <1>1. CASE \E c \in Conn : Connect(c) \/ PeerCloses(c)
    BY <1>1 DEF Connect, PeerCloses, memory, mainvar
  <1>2. CASE \E c \in Conn : Accept(c)
    BY <1>2 DEF Accept, memory
  <1>3. CASE ScanSlot
    <2> USE <1>3 DEF ScanSlot, memory
    <2>1. cur \in Conn /\ pc' = pc /\ cell' = cell /\ live' = live /\ cur' = cur
      OBVIOUS
    <2>2. \A c \in Conn : Holding(c) => id[c] # NoId /\ id'[c] = id[c]
      BY PoolAssumption
    <2>3. ASSUME mpc' = "construct", Spared(cur)' PROVE cell[ConfAt(id'[cur])] = Null
      BY <2>1, <2>3 DEF Take, Spared
    <2> QED
      BY <2>1, <2>2, <2>3
  <1>4. CASE NewConf
    <2> USE <1>4 DEF NewConf
    <2>1. cur \in Conn /\ id[cur] \in Ids /\ cur # "none"
      BY PoolAssumption
    <2>2. \A c \in Conn : Holding(c) /\ Spared(c) => id[c] # id[cur]
      BY <2>1, PointersDiffer DEF Spared
    <2>3. ASSUME NEW c \in Conn, Holding(c)', Spared(c)' PROVE cell'[ConfAt(id[c])] = Conf(c)
      <3>1. Spared(c) /\ id[c] \in Ids
        BY <2>1, <2>3
      <3>2. CASE c = cur
        BY <2>1, <3>2, AddressesDiffer
      <3>3. CASE c # cur
        BY <2>1, <2>2, <2>3, <3>1, <3>3, AddressesDiffer
      <3> QED
        BY <3>2, <3>3
    <2>4. ASSUME ~Overflowed' PROVE cell'[BaseAt] = Base /\ Base \in live'
      <3>1. id[cur] # -1
        BY <2>1, <2>4 DEF Overflowed
      <3> QED
        BY <2>1, <2>4, <3>1, AddressesDiffer
    <2> QED
      BY <2>3, <2>4
  <1>5. CASE Mkdir \/ Rmdir \/ Remkdir \/ RecreateFails
    BY <1>5 DEF Mkdir, Rmdir, Remkdir, RecreateFails, NextDir, memory
  <1>6. CASE NewWorker
    <2> USE <1>6 DEF NewWorker
    <2>1. cur \in Conn /\ id[cur] \in Ids
      BY PoolAssumption
    <2>2. ASSUME NEW c \in Conn, Holding(c)', Spared(c)' PROVE cell'[ConfAt(id[c])] = Conf(c)
      <3>1. Spared(c) /\ id[c] \in Ids /\ Holding(c)
        BY <2>2
      <3>2. ConfAt(id[c]) # WorkerAt(id[cur])
        BY <2>1, <3>1, AddressesDiffer DEF Spared, Overflowed
      <3> QED
        BY <2>1, <3>1, <3>2
    <2>3. ASSUME ~Overflowed' PROVE cell'[BaseAt] = Base /\ Base \in live'
      BY <2>1, <2>3, AddressesDiffer
    <2> QED
      BY <2>2, <2>3
  <1>7. CASE StartThread \/ StartThreadFails
    BY <1>7 DEF StartThread, StartThreadFails, memory
  <1>8. CASE AcceptFails \/ MkdirFails \/ MainBadPointer
    BY <1>8 DEF AcceptFails, MkdirFails, MainBadPointer, BadPointer, Die
  <1>9. CASE \E c \in Conn : Serve(c)
    BY <1>9, ServeEffect
  <1>10. ASSUME NEW c \in Conn, Release(c) PROVE ConfInv'
    <2>1. /\ id' = id /\ mpc' = mpc /\ cur' = cur
      BY <1>10, ReleaseEffect
    <2>2. \A d \in Conn : Spared(d)' => Spared(d)
      BY <2>1 DEF Spared, Overflowed
    <2>3. CASE Free(c)
      <3>1. cell' = cell /\ (Base \in live => Base \in live')
        BY <2>3, PointersDiffer DEF Free
      <3>2. \A d \in Conn : Holding(d)' /\ Spared(d)' => Holding(d)
        BY <2>3 DEF Free
      <3>3. \A d \in Conn : pc'[d] = "accepted" => pc[d] = "accepted"
        BY <2>3 DEF Free
      <3> QED
        BY <2>1, <2>2, <3>1, <3>2
    <2>4. CASE ClearConf(c)
      <3> USE <2>4 DEF ClearConf
      <3>1. id[c] \in Ids
        OBVIOUS
      <3>2. ASSUME NEW d \in Conn, Holding(d)', Spared(d)' PROVE cell'[ConfAt(id[d])] = Conf(d)
        <4>1. d # c /\ Holding(d) /\ Spared(d) /\ id[d] \in Ids
          BY <2>2, <3>2, <1>0
        <4>2. id[d] # id[c]
          BY <2>2, <4>1, PointersDiffer DEF Spared
        <4> QED
          BY <3>1, <4>1, <4>2, AddressesDiffer
      <3>3. ASSUME mpc' = "construct", Spared(cur)' PROVE cell'[ConfAt(id[cur])] = Null
        <4>1. cur \in Conn /\ Spared(cur) /\ id[cur] \in Ids
          BY <2>1, <2>2, <3>3, <1>0, PoolAssumption
        <4> QED
          BY <2>1, <3>1, <3>3, <4>1, AddressesDiffer
      <3>4. ASSUME ~Overflowed' PROVE cell'[BaseAt] = Base /\ Base \in live'
        <4>1. id[c] # -1
          BY <2>1, <3>4 DEF Overflowed
        <4> QED
          BY <3>1, <3>4, <4>1, AddressesDiffer
      <3> QED
        BY <2>1, <3>2, <3>3, <3>4
    <2>5. CASE DestroyWorker(c)
      BY <2>1, <2>2, <2>5, PointersDiffer DEF DestroyWorker, Cleaning
    <2>6. CASE ClearWorker(c)
      <3> USE <2>6 DEF ClearWorker
      <3>1. id[c] \in Ids
        OBVIOUS
      <3>2. \A d \in Conn : Spared(d) => ConfAt(id[d]) # WorkerAt(id[c])
        BY <3>1, AddressesDiffer DEF Spared, Overflowed
      <3>3. BaseAt # WorkerAt(id[c]) /\ ConfAt(id[c]) \in Addresses
        BY <3>1, AddressesDiffer
      <3>4. \A d \in Conn : Spared(d) => ConfAt(id[d]) \in Addresses
        BY <1>0, AddressesDiffer
      <3>5. mpc = "construct" => cur \in Conn
        BY PoolAssumption
      <3> QED
        BY <2>1, <2>2, <3>2, <3>3, <3>4, <3>5, AddressesDiffer
    <2> QED
      BY <1>10, <2>1, <2>2, <2>3, <2>4, <2>5, <2>6, ReleaseEffect
  <1>11. CASE UNCHANGED vars
    BY <1>11 DEF vars
  <1> QED
    BY <1>1, <1>2, <1>3, <1>4, <1>5, <1>6, <1>7, <1>8, <1>9, <1>10, <1>11 DEF Next, MainStep

(* In which steps the words of the tables change.                           *)
LEMMA OtherSteps ==
  ASSUME [Next]_vars
  PROVE  \/ cell' = cell /\ live' = live /\ id' = id /\ reissued' = reissued
         \/ ScanSlot \/ NewConf \/ NewWorker
         \/ \E c \in Conn : Free(c) \/ ClearConf(c) \/ DestroyWorker(c) \/ ClearWorker(c)
  <1>1. CASE \E c \in Conn : Serve(c)
    BY <1>1, ServeEffect
  <1>2. CASE \E c \in Conn : Release(c)
    BY <1>2, ReleaseEffect
  <1> QED
    BY <1>1, <1>2
    DEF Next, MainStep, Connect, PeerCloses, Accept, Mkdir, Rmdir, Remkdir, RecreateFails,
        StartThread, StartThreadFails, AcceptFails, MkdirFails, MainBadPointer, BadPointer,
        Die, memory, vars

LEMMA WorkerStep == TypeOK /\ MainInv /\ IdInv /\ WorkerInv /\ [Next]_vars => WorkerInv'
  <1> SUFFICES ASSUME TypeOK, MainInv, IdInv, WorkerInv, [Next]_vars,
                      NEW i \in Ids, NEW x \in Conn, cell'[WorkerAt(i)] = Handler(x)
               PROVE  id'[x] = i
    BY DEF WorkerInv
  <1> USE Monotonic, SlotsAreIds, AddressesDiffer, PointersDiffer DEF TypeOK
  <1>0. cell[WorkerAt(i)] = Handler(x) => id'[x] = i
    BY DEF WorkerInv
  <1>1. CASE ScanSlot
    BY <1>0, <1>1 DEF ScanSlot, memory
  <1>2. CASE NewConf
    <2>1. cur \in Conn /\ id[cur] \in Ids /\ id' = id
      BY <1>2, PoolAssumption DEF NewConf, MainInv, IdInv
    <2> QED
      BY <1>0, <1>2, <2>1 DEF NewConf
  <1>3. CASE NewWorker
    <2>1. cur \in Conn /\ id[cur] \in Ids /\ id' = id
      BY <1>3, PoolAssumption DEF NewWorker, MainInv, IdInv
    <2> QED
      BY <1>0, <1>3, <2>1 DEF NewWorker
  <1>4. ASSUME NEW c \in Conn, Free(c) \/ ClearConf(c) \/ DestroyWorker(c) \/ ClearWorker(c)
        PROVE  id'[x] = i
    <2>1. id[c] \in Ids
      BY <1>4 DEF Free, ClearConf, DestroyWorker, ClearWorker, IdInv
    <2> QED
      BY <1>0, <1>4, <2>1 DEF Free, ClearConf, DestroyWorker, ClearWorker
  <1> QED
    BY <1>0, <1>1, <1>2, <1>3, <1>4, OtherSteps

(* Which connections hold a slot, and which are still releasing one.        *)
LEMMA StageSteps ==
  ASSUME TypeOK, MainInv, IdInv, ConfInv, [Next]_vars, NEW c \in Conn
  PROVE  /\ HasSlot(c)' /\ ~HasSlot(c) => ScanSlot /\ c = cur /\ id'[c] # NoId /\ id[c] = NoId
         /\ (pc[c] \in Cleaning)' /\ pc[c] \notin Cleaning /\ Spared(c)
            => ClearConf(c) /\ Holding(c)
         /\ pc[c] \in Cleaning => (pc[c] \in Cleaning \cup {"done"})'
         /\ pc[c] \in Cleaning \/ HasSlot(c) => id[c] # NoId
  <1> USE PoolAssumption DEF TypeOK, MainInv, IdInv, HasSlot, Holding, Serving, Releasing, Cleaning
  <1>1. CASE \E d \in Conn : Connect(d) \/ PeerCloses(d)
    BY <1>1 DEF Connect, PeerCloses, memory, mainvar
  <1>2. CASE \E d \in Conn : Accept(d)
    BY <1>2 DEF Accept, memory
  <1>3. CASE ScanSlot
    BY <1>3, SlotsAreIds DEF ScanSlot, Take, memory, Slots, NoId
  <1>4. CASE NewConf
    BY <1>4 DEF NewConf, MainSteps
  <1>5. CASE Mkdir \/ Rmdir \/ Remkdir \/ RecreateFails
    BY <1>5 DEF Mkdir, Rmdir, Remkdir, RecreateFails, NextDir, memory
  <1>6. CASE NewWorker
    BY <1>6 DEF NewWorker
  <1>7. CASE StartThread \/ StartThreadFails
    BY <1>7 DEF StartThread, StartThreadFails, memory
  <1>8. CASE AcceptFails \/ MkdirFails \/ MainBadPointer
    BY <1>8 DEF AcceptFails, MkdirFails, MainBadPointer, BadPointer, Die
  <1>9. CASE \E d \in Conn : Serve(d)
    BY <1>9, ServeEffect
  <1>10. ASSUME NEW d \in Conn, Release(d)
         PROVE  /\ HasSlot(c)' => HasSlot(c)
                /\ (pc[c] \in Cleaning)' /\ pc[c] \notin Cleaning /\ Spared(c)
                   => ClearConf(c) /\ Holding(c)
                /\ pc[c] \in Cleaning => (pc[c] \in Cleaning \cup {"done"})'
    <2>1. mpc' = mpc /\ cur' = cur
      BY <1>10, ReleaseEffect
    <2>2. CASE Free(d)
      <3>1. d = c /\ Spared(c) /\ pc[c] = "free" => cell[ConfAt(id[c])] # Null
        BY PointersDiffer DEF ConfInv
      <3> QED
        BY <2>1, <2>2, <3>1 DEF Free
    <2>3. CASE ClearConf(d)
      BY <2>1, <2>3 DEF ClearConf
    <2>4. CASE DestroyWorker(d)
      BY <2>1, <2>4 DEF DestroyWorker
    <2>5. CASE ClearWorker(d)
      BY <2>1, <2>5 DEF ClearWorker
    <2> QED
      BY <1>10, <2>1, <2>2, <2>3, <2>4, <2>5, ReleaseEffect
  <1>11. CASE UNCHANGED vars
    BY <1>11 DEF vars
  <1> QED
    BY <1>1, <1>2, <1>3, <1>4, <1>5, <1>6, <1>7, <1>8, <1>9, <1>10, <1>11 DEF Next, MainStep

LEMMA ReleaseStep ==
  TypeOK /\ MainInv /\ IdInv /\ ConfInv /\ ReleaseInv /\ [Next]_vars => ReleaseInv'
  <1> SUFFICES ASSUME TypeOK, MainInv, IdInv, ConfInv, ReleaseInv, [Next]_vars,
                      NEW c \in Conn, NEW d \in Conn,
                      c # d, id'[c] = id'[d], Spared(c)', (pc[d] \in Cleaning)'
               PROVE  /\ HasSlot(c)' => c \in reissued'
                      /\ (pc[c] \in Cleaning)' => reissued' # {}
    BY DEF ReleaseInv
  <1> USE Monotonic
  <1>1. CASE ScanSlot
    <2>1. cur \in Conn /\ pc' = pc /\ cur' = cur /\ pc[cur] = "accepted" /\ id[cur] = NoId
      BY <1>1, PoolAssumption DEF ScanSlot, MainInv, TypeOK, IdInv
    <2>2. d # cur /\ id[d] # NoId /\ id'[d] = id[d]
      BY <2>1 DEF Cleaning, IdInv
    <2>3. CASE c = cur
      <3>1. (pc[c] \notin Cleaning)'
        BY <2>1, <2>3 DEF Cleaning
      <3>2. id'[c] # NoId
        BY SlotsAreIds DEF Spared
      <3>3. PICK i \in Ids : Take(i)
        <4>1. (scan < MAX_CLIENT /\ Take(scan)) \/ Take(-1)
          BY <1>1, <2>1, <2>3, <3>2 DEF ScanSlot
        <4>2. scan < MAX_CLIENT => scan \in Ids
          BY PoolAssumption DEF TypeOK, Ids
        <4> QED
          BY <4>1, <4>2, SlotsAreIds
      <3>4. id'[c] = i
        BY <2>3, <3>3 DEF Take, TypeOK
      <3>5. d \in Unfinished(i)
        BY <2>1, <2>2, <3>4 DEF Unfinished
      <3> QED
        BY <2>3, <3>1, <3>3, <3>5 DEF Take
    <2>4. CASE c # cur
      <3>1. id'[c] = id[c]
        BY <1>1, <2>1, <2>4 DEF ScanSlot, Take, TypeOK
      <3>2. Spared(c) /\ (HasSlot(c)' => HasSlot(c))
        BY <2>1, <2>2, <2>4, <3>1 DEF HasSlot, Holding
      <3> QED
        BY <2>1, <2>2, <2>4, <3>1, <3>2 DEF ReleaseInv
    <2> QED
      BY <2>3, <2>4
  <1>2. CASE ~ScanSlot
    <2>1. id' = id
      BY <1>2, OtherSteps DEF NewConf, NewWorker, Free, ClearConf, DestroyWorker, ClearWorker
    <2>2. Spared(c) /\ Spared(d)
      BY <2>1 DEF Spared, Overflowed
    <2>3. HasSlot(c)' => HasSlot(c)
      BY <1>2, StageSteps
    <2>4. CASE pc[d] \in Cleaning
      <3>1. HasSlot(c) => c \in reissued
        BY <2>1, <2>2, <2>4 DEF ReleaseInv
      <3>2. pc[c] \in Cleaning => reissued # {}
        BY <2>1, <2>2, <2>4 DEF ReleaseInv
      <3>3. (pc[c] \in Cleaning)' => pc[c] \in Cleaning \/ HasSlot(c)
        BY <2>2, StageSteps DEF HasSlot
      <3> QED
        BY <2>3, <3>1, <3>2, <3>3
    <2>5. CASE pc[d] \notin Cleaning
      <3>1. ClearConf(d) /\ Holding(d)
        BY <2>2, <2>5, StageSteps
      <3>2. ~HasSlot(c)
        <4>1. id[c] = id[d] /\ cell[ConfAt(id[d])] = Conf(d)
          BY <2>1, <2>2, <3>1 DEF ConfInv
        <4> QED
          BY <2>2, <4>1, PointersDiffer DEF ConfInv, HasSlot
      <3>3. (pc[c] \in Cleaning)' => pc[c] \in Cleaning
        BY <3>1 DEF ClearConf, TypeOK
      <3>4. pc[c] \in Cleaning => d \in reissued
        BY <2>1, <2>2, <3>1 DEF ReleaseInv, HasSlot
      <3> QED
        BY <2>3, <3>2, <3>3, <3>4
    <2> QED
      BY <2>4, <2>5
  <1> QED
    BY <1>1, <1>2

-----------------------------------------------------------------------------
(* The stages at which ObjectInv speaks of the two objects of a connection. *)
UsesConf(c) == pc[c] \in {"setup", "nothread", "close", "free"} \cup Serving
UsesHandler(c) == \/ pc[c] \in {"nothread"} \cup Serving \cup Releasing
                  \/ pc[c] = "setup" /\ mpc = "start"

LEMMA UseSteps ==
  ASSUME TypeOK, MainInv, IdInv, [Next]_vars, NEW c \in Conn
  PROVE  /\ UsesConf(c)' => UsesConf(c) \/ (NewConf /\ c = cur)
         /\ UsesHandler(c)' => UsesHandler(c) \/ (NewWorker /\ c = cur)
         /\ (pc[c] = "destroy_worker")' => pc[c] = "destroy_worker" \/ ClearConf(c)
  <1> USE PoolAssumption DEF TypeOK, MainInv, UsesConf, UsesHandler, Serving, Releasing
  <1>1. CASE \E d \in Conn : Connect(d) \/ PeerCloses(d)
    BY <1>1 DEF Connect, PeerCloses, memory, mainvar
  <1>2. CASE \E d \in Conn : Accept(d)
    BY <1>2 DEF Accept, memory
  <1>3. CASE ScanSlot
    BY <1>3 DEF ScanSlot, Take, memory
  <1>4. CASE NewConf
    BY <1>4 DEF NewConf, MainSteps
  <1>5. CASE Mkdir \/ Rmdir \/ Remkdir \/ RecreateFails
    BY <1>5 DEF Mkdir, Rmdir, Remkdir, RecreateFails, NextDir, memory
  <1>6. CASE NewWorker
    BY <1>6 DEF NewWorker
  <1>7. CASE StartThread \/ StartThreadFails
    BY <1>7 DEF StartThread, StartThreadFails, memory
  <1>8. CASE AcceptFails \/ MkdirFails \/ MainBadPointer
    BY <1>8 DEF AcceptFails, MkdirFails, MainBadPointer, BadPointer, Die
  <1>9. CASE \E d \in Conn : Serve(d)
    BY <1>9, ServeEffect
  <1>10. CASE \E d \in Conn : Release(d)
    BY <1>10, ReleaseEffect DEF Free, ClearConf, DestroyWorker, ClearWorker
  <1>11. CASE UNCHANGED vars
    BY <1>11 DEF vars
  <1> QED
    BY <1>1, <1>2, <1>3, <1>4, <1>5, <1>6, <1>7, <1>8, <1>9, <1>10, <1>11 DEF Next, MainStep

(* A destructor run by thread d, or worker[] cleared by it, never concerns  *)
(* a connection that got its slot when nobody was releasing it.             *)
LEMMA ReleaseSparesOthers ==
  ASSUME TypeOK, WorkerInv, ReleaseInv, NEW c \in Conn, NEW d \in Conn,
         Spared(c), HasSlot(c), c \notin reissued, c # d, pc[d] \in Cleaning, id[d] \in Ids
  PROVE  id[c] # id[d] /\ cell[WorkerAt(id[d])] # Handler(c)
  BY DEF WorkerInv, ReleaseInv

LEMMA ObjectStep == PoolInv /\ [Next]_vars => ObjectInv'
  <1> SUFFICES ASSUME PoolInv, [Next]_vars PROVE ObjectInv'
    OBVIOUS
  <1> USE Monotonic, SlotsAreIds DEF PoolInv
  <1>1. ASSUME NEW c \in Conn, Spared(c)', (c \notin reissued)', UsesConf(c)'
        PROVE  Conf(c) \in live'
    <2>1. CASE NewConf /\ c = cur
      BY <2>1 DEF NewConf
    <2>2. CASE UsesConf(c)
      <3>1. Spared(c) /\ c \notin reissued /\ HasSlot(c) /\ Conf(c) \in live
        BY <1>1, <2>2
        DEF ObjectInv, UsesConf, HasSlot, Holding, IdInv, Serving, Releasing
      <3>2. ASSUME NEW d \in Conn, Free(d) PROVE Conf(c) \in live'
        <4>1. c # d
          BY <1>1, <3>2 DEF Free, UsesConf, Serving, TypeOK
        <4> QED
          BY <3>1, <3>2, <4>1, PointersDiffer DEF Free
      <3>3. ASSUME NEW d \in Conn, DestroyWorker(d) PROVE Conf(c) \in live'
        <4>1. c # d /\ pc[d] \in Cleaning
          BY <2>2, <3>3 DEF DestroyWorker, UsesConf, Serving, Cleaning
        <4>2. id[d] \in Ids
          BY <4>1 DEF IdInv, TypeOK, Cleaning
        <4> QED
          BY <3>1, <3>3, <4>1, <4>2, ReleaseSparesOthers, PointersDiffer DEF DestroyWorker
      <3> QED
        BY <3>1, <3>2, <3>3, OtherSteps
        DEF ScanSlot, NewConf, NewWorker, ClearConf, ClearWorker, memory
    <2> QED
      BY <1>1, <2>1, <2>2, UseSteps
  <1>2. ASSUME NEW c \in Conn, Spared(c)', (c \notin reissued)', UsesHandler(c)'
        PROVE  (cell[WorkerAt(id[c])] = Handler(c) /\ Handler(c) \in live)'
    <2>1. CASE NewWorker /\ c = cur
      <3>1. id[c] \in Ids /\ id' = id
        BY <2>1 DEF NewWorker, IdInv, MainInv, TypeOK
      <3> QED
        BY <2>1, <3>1, AddressesDiffer DEF NewWorker, TypeOK
    <2>2. CASE UsesHandler(c)
      <3>1. Spared(c) /\ c \notin reissued /\ HasSlot(c) /\ id'[c] = id[c] /\ id[c] \in Slots
        BY <1>2, <2>2
        DEF UsesHandler, HasSlot, Holding, IdInv, Serving, Releasing, Spared
      <3>2. cell[WorkerAt(id[c])] = Handler(c) /\ Handler(c) \in live
        BY <2>2, <3>1 DEF ObjectInv, UsesHandler
      <3>3. CASE NewConf
        <4>1. id[cur] \in Ids /\ ConfAt(id[cur]) # WorkerAt(id[c])
          BY <3>1, <3>3, AddressesDiffer DEF NewConf, IdInv, MainInv, TypeOK
        <4> QED
          BY <3>1, <3>2, <3>3, <4>1, AddressesDiffer DEF NewConf, TypeOK
      <3>4. CASE NewWorker /\ c # cur
        <4>1. cur \in Conn /\ Holding(cur) /\ Holding(c)
          BY <2>2, <3>4, PoolAssumption
          DEF NewWorker, MainInv, TypeOK, UsesHandler, Holding, Serving, Releasing
        <4>2. id[cur] \in Ids /\ id[cur] # id[c]
          BY <3>1, <3>4, <4>1, PointersDiffer DEF ConfInv, Spared, IdInv, TypeOK, Holding, Serving, Releasing
        <4>3. WorkerAt(id[cur]) # WorkerAt(id[c])
          BY <3>1, <4>2, AddressesDiffer
        <4> QED
          BY <3>1, <3>2, <3>4, <4>3, AddressesDiffer DEF NewWorker, TypeOK
      <3>5. ASSUME NEW d \in Conn, Free(d) \/ ClearConf(d) \/ DestroyWorker(d) \/ ClearWorker(d)
            PROVE  (cell[WorkerAt(id[c])] = Handler(c) /\ Handler(c) \in live)'
        <4>1. id[d] \in Ids /\ id' = id
          BY <3>5 DEF Free, ClearConf, DestroyWorker, ClearWorker, IdInv, TypeOK
        <4>2. CASE Free(d)
          BY <3>2, <4>1, <4>2, PointersDiffer DEF Free
        <4>3. CASE ClearConf(d)
          <5>1. ConfAt(id[d]) # WorkerAt(id[c])
            BY <3>1, <4>1, AddressesDiffer
          <5> QED
            BY <3>1, <3>2, <4>1, <4>3, <5>1, AddressesDiffer DEF ClearConf, TypeOK
        <4>4. CASE DestroyWorker(d) \/ ClearWorker(d)
          <5>1. c # d /\ pc[d] \in Cleaning
            BY <2>2, <4>4
            DEF DestroyWorker, ClearWorker, UsesHandler, Serving, Releasing, Cleaning
          <5>2. id[c] # id[d] /\ cell[WorkerAt(id[d])] # Handler(c)
            BY <3>1, <4>1, <5>1, ReleaseSparesOthers
          <5>3. WorkerAt(id[d]) # WorkerAt(id[c])
            BY <3>1, <4>1, <5>2, AddressesDiffer
          <5> QED
            BY <3>1, <3>2, <4>1, <4>4, <5>2, <5>3, AddressesDiffer, PointersDiffer
            DEF DestroyWorker, ClearWorker, TypeOK
        <4> QED
          BY <3>5, <4>2, <4>3, <4>4
      <3>6. CASE NewWorker /\ c = cur
        BY <2>1, <3>6
      <3> QED
        BY <3>1, <3>2, <3>3, <3>4, <3>5, <3>6, OtherSteps DEF ScanSlot, memory
    <2> QED
      BY <1>2, <2>1, <2>2, UseSteps
  <1>3. ASSUME reissued' = {}, ~Overflowed', NEW c \in Conn, pc'[c] = "destroy_worker"
        PROVE  (cell[WorkerAt(id[c])] = Handler(c) /\ Handler(c) \in live)'
    <2>1. reissued = {} /\ ~Overflowed
      BY <1>3
    <2>2. id[c] \in Slots /\ Spared(c) /\ id'[c] = id[c]
      <3>1. pc[c] = "destroy_worker" \/ ClearConf(c)
        BY <1>3, UseSteps
      <3>2. id[c] \in Ids /\ id[c] # -1
        BY <2>1, <3>1 DEF ClearConf, IdInv, TypeOK, Overflowed
      <3> QED
        BY <2>1, <3>2 DEF Spared, Ids, Slots, NoId
    <2>3. cell[WorkerAt(id[c])] = Handler(c) /\ Handler(c) \in live
      <3>1. pc[c] \in {"destroy_worker", "clear_conf"}
        BY <1>3, UseSteps DEF ClearConf
      <3> QED
        BY <2>1, <2>2, <3>1 DEF ObjectInv, Releasing
    <2>4. CASE NewConf
      <3>1. id[cur] \in Ids /\ ConfAt(id[cur]) # WorkerAt(id[c])
        BY <2>2, <2>4, AddressesDiffer DEF NewConf, IdInv, MainInv, TypeOK
      <3> QED
        BY <2>2, <2>3, <2>4, <3>1, AddressesDiffer DEF NewConf, TypeOK
    <2>5. CASE NewWorker
      <3>1. /\ cur \in Conn /\ HasSlot(cur) /\ pc[cur] = "setup" /\ pc' = pc
            /\ pc[c] \in Cleaning /\ id[cur] \in Ids
        BY <1>3, <2>5, PoolAssumption DEF NewWorker, MainInv, TypeOK, HasSlot, Holding, Cleaning, IdInv
      <3>2. cur # c
        BY <3>1 DEF Cleaning
      <3>3. id[cur] = id[c] => Spared(cur)
        BY <2>2 DEF Spared
      <3>4. id[cur] # id[c]
        BY <2>1, <3>1, <3>2, <3>3 DEF ReleaseInv
      <3>5. WorkerAt(id[cur]) # WorkerAt(id[c])
        BY <2>2, <3>1, <3>4, AddressesDiffer
      <3> QED
        BY <2>2, <2>3, <2>5, <3>5, AddressesDiffer DEF NewWorker, TypeOK
    <2>6. ASSUME NEW d \in Conn, Free(d) \/ ClearConf(d) \/ DestroyWorker(d) \/ ClearWorker(d)
          PROVE  (cell[WorkerAt(id[c])] = Handler(c) /\ Handler(c) \in live)'
      <3>1. id[d] \in Ids /\ id' = id
        BY <2>6 DEF Free, ClearConf, DestroyWorker, ClearWorker, IdInv, TypeOK
      <3>2. CASE Free(d)
        BY <2>3, <3>1, <3>2, PointersDiffer DEF Free
      <3>3. CASE ClearConf(d)
        <4>1. ConfAt(id[d]) # WorkerAt(id[c])
          BY <2>2, <3>1, AddressesDiffer
        <4> QED
          BY <2>2, <2>3, <3>1, <3>3, <4>1, AddressesDiffer DEF ClearConf, TypeOK
      <3>4. CASE DestroyWorker(d) \/ ClearWorker(d)
        <4>1. c # d /\ pc[d] \in Cleaning /\ pc'[c] = pc[c]
          BY <1>3, <3>4 DEF DestroyWorker, ClearWorker, Cleaning, TypeOK
        <4>2. id[c] # id[d]
          BY <1>3, <2>1, <2>2, <4>1 DEF ReleaseInv, Cleaning
        <4>3. WorkerAt(id[d]) # WorkerAt(id[c]) /\ cell[WorkerAt(id[d])] # Handler(c)
          BY <2>2, <3>1, <4>2, AddressesDiffer DEF WorkerInv
        <4> QED
          BY <2>2, <2>3, <3>1, <3>4, <4>3, AddressesDiffer, PointersDiffer
          DEF DestroyWorker, ClearWorker, TypeOK
      <3> QED
        BY <2>6, <3>2, <3>3, <3>4
    <2> QED
      BY <2>2, <2>3, <2>4, <2>5, <2>6, OtherSteps DEF ScanSlot, memory
  <1> QED
    BY <1>1, <1>2, <1>3 DEF ObjectInv, UsesConf, UsesHandler

LEMMA MemoryFaultsStep == PoolInv /\ [Next]_vars => MemoryFaultsExplained'
  <1> SUFFICES ASSUME PoolInv, [Next]_vars, (process \in {"segfault", "astray"})'
               PROVE  reissued' # {} \/ Overflowed'
    BY DEF MemoryFaultsExplained
  <1> USE Monotonic, PoolAssumption DEF PoolInv
  <1>1. CASE process \in {"segfault", "astray"}
    BY <1>1 DEF MemoryFaultsExplained
  <1>2. CASE process \notin {"segfault", "astray"} /\ reissued = {} /\ ~Overflowed
    <2>1. \A c \in Conn : id[c] # NoId => Spared(c)
      BY <1>2 DEF TypeOK, Spared, Overflowed, Ids, Slots
    <2>2. \A c \in Conn : Holding(c) /\ UsesConf(c) => OwnConf(c)
      BY <1>2, <2>1
      DEF ConfInv, ObjectInv, IdInv, UsesConf, OwnConf, Holding, Serving, Releasing
    <2>3. \A c \in Conn : UsesHandler(c) =>
            cell[WorkerAt(id[c])] = Handler(c) /\ Handler(c) \in live
      BY <1>2, <2>1 DEF ObjectInv, IdInv, UsesHandler, Serving, Releasing
    <2>4. ~MainBadPointer
      <3>1. cell[BaseAt] \in live
        BY <1>2 DEF ConfInv
      <3>2. mpc \in {"mkdir", "new_worker"} => ConfReady
        BY <2>2 DEF MainInv, TypeOK, ConfReady, UsesConf, Holding
      <3>3. mpc = "start" => WorkerReady
        BY <2>3 DEF MainInv, TypeOK, WorkerReady, UsesHandler
      <3> QED
        BY <3>1, <3>2, <3>3 DEF MainBadPointer
    <2>5. ASSUME NEW c \in Conn PROVE ~UseDestroyed(c) /\ ~ReleaseBadPointer(c)
      <3>1. ~UseDestroyed(c)
        BY <2>3 DEF UseDestroyed, UsesHandler, Releasing
      <3>2. pc[c] \in {"close", "free"} => OwnConf(c)
        BY <2>2 DEF UsesConf, Holding, Releasing
      <3>3. pc[c] = "destroy_worker" => cell[WorkerAt(id[c])] = Handler(c) /\ Handler(c) \in live
        BY <1>2 DEF ObjectInv
      <3> QED
        BY <3>1, <3>2, <3>3 DEF ReleaseBadPointer
    <2>6. process' \in {process, "exited", "terminated"}
      BY <2>4, <2>5
      DEF Next, MainStep, vars, Connect, PeerCloses, Accept, AcceptFails, ScanSlot, Take, NewConf, Mkdir,
          MkdirFails, Rmdir, Remkdir, RecreateFails, NewWorker, StartThread, StartThreadFails,
          Serve, Handshake, HandshakeTransmissionError, HandshakeNotConnected, ReceiveCommand,
          Quit, IdleEOF, IdleReset, CommandEnds, CommandNotConnected, CommandFileFails,
          Release, Close, Free, ClearConf, DestroyWorker, ClearWorker, RmArchive, RmFiles,
          RmFails, Move, Terminate, Die
    <2> QED
      BY <1>2, <2>6
  <1>3. CASE reissued # {} \/ Overflowed
    BY <1>3
  <1> QED
    BY <1>1, <1>2, <1>3

-----------------------------------------------------------------------------
(* Which steps touch a directory.                                           *)
LEMMA DirEffect ==
  ASSUME [Next]_vars
  PROVE  \/ owner' = owner
         \/ Mkdir \/ Rmdir \/ Remkdir
         \/ \E c \in Conn : RmArchive(c) \/ RmFiles(c)
  <1>1. CASE \E c \in Conn : Serve(c)
    BY <1>1 DEF Serve, Handshake, HandshakeTransmissionError, HandshakeNotConnected, ReceiveCommand,
         Quit, IdleEOF, IdleReset, CommandEnds, CommandNotConnected, CommandFileFails, UseDestroyed,
         Move, Terminate, BadPointer, Die
  <1>2. CASE \E c \in Conn : Release(c)
    BY <1>2 DEF Release, Close, Free, ClearConf, DestroyWorker, ClearWorker, RmFails,
         ReleaseBadPointer, Move, BadPointer, Die
  <1> QED
    BY <1>1, <1>2
    DEF Next, MainStep, Connect, PeerCloses, Accept, AcceptFails, ScanSlot, NewConf, MkdirFails,
        RecreateFails, NewWorker, StartThread, StartThreadFails, MainBadPointer, BadPointer, Die, vars

(* A connection has a directory once the main thread made it.               *)
LEMMA HasDirSteps ==
  ASSUME TypeOK, MainInv, DirsWork, [Next]_vars, NEW c \in Conn, NEW d \in DirKinds
  PROVE  HasDir(c, d)' => \/ HasDir(c, d)
                          \/ (Mkdir \/ Remkdir) /\ c = cur /\ d = mdir /\ owner' = [owner EXCEPT ![Dir] = cur]
  <1> USE PoolAssumption DEF TypeOK, MainInv, HasDir, Serving, Releasing, DirKinds
  <1>1. CASE \E x \in Conn : Connect(x) \/ PeerCloses(x)
    BY <1>1 DEF Connect, PeerCloses, memory, mainvar
  <1>2. CASE \E x \in Conn : Accept(x)
    BY <1>2 DEF Accept, memory
  <1>3. CASE ScanSlot
    BY <1>3 DEF ScanSlot, Take, memory
  <1>4. CASE NewConf
    BY <1>4 DEF NewConf, MainSteps
  <1>5. CASE Mkdir \/ Rmdir \/ Remkdir
    BY <1>5 DEF Mkdir, Rmdir, Remkdir, NextDir, memory
  <1>6. CASE RecreateFails \/ MkdirFails
    BY <1>6 DEF RecreateFails, MkdirFails, DirsWork
  <1>7. CASE NewWorker
    BY <1>7 DEF NewWorker
  <1>8. CASE StartThread \/ StartThreadFails
    BY <1>8 DEF StartThread, StartThreadFails, memory
  <1>9. CASE AcceptFails \/ MainBadPointer
    BY <1>9 DEF AcceptFails, MainBadPointer, BadPointer, Die
  <1>10. CASE \E x \in Conn : Serve(x)
    <2>1. mdir' = mdir
      BY <1>10 DEF Serve, Handshake, HandshakeTransmissionError, HandshakeNotConnected,
           ReceiveCommand, Quit, IdleEOF, IdleReset, CommandEnds, CommandNotConnected,
           CommandFileFails, UseDestroyed, Move, Terminate, BadPointer, Die, mainvar
    <2> QED
      BY <1>10, <2>1, ServeEffect
  <1>11. CASE \E x \in Conn : Release(x)
    <2>1. mdir' = mdir
      BY <1>11 DEF Release, Close, Free, ClearConf, DestroyWorker, ClearWorker, RmArchive,
           RmFiles, RmFails, ReleaseBadPointer, Move, BadPointer, Die, mainvar
    <2> QED
      BY <1>11, <2>1, ReleaseEffect DEF Free, ClearConf, DestroyWorker, ClearWorker
  <1>12. CASE UNCHANGED vars
    BY <1>12 DEF vars
  <1> QED
    BY <1>1, <1>2, <1>3, <1>4, <1>5, <1>6, <1>7, <1>8, <1>9, <1>10, <1>11, <1>12 DEF Next, MainStep

LEMMA DirStep == PoolInv /\ [Next]_vars => DirInv'
  <1> SUFFICES ASSUME PoolInv, [Next]_vars, DirsWork,
                      NEW c \in Conn, Spared(c)', (c \notin reissued)',
                      NEW d \in DirKinds, HasDir(c, d)'
               PROVE  owner'[<<d, id'[c]>>] = c
    BY DEF DirInv, DirsWork
  <1> USE Monotonic, SlotsAreIds, PoolAssumption DEF PoolInv
  <1>1. CASE HasDir(c, d)
    <2>1. Spared(c) /\ c \notin reissued /\ id'[c] = id[c] /\ id[c] \in Slots /\ Holding(c)
      BY <1>1 DEF HasDir, IdInv, Spared, Holding, Serving, Releasing
    <2>2. owner[<<d, id[c]>>] = c
      BY <1>1, <2>1 DEF DirInv
    <2>3. CASE Mkdir \/ Rmdir \/ Remkdir
      <3>1. /\ cur \in Conn /\ pc[cur] = "setup" /\ id[cur] \in Ids
            /\ \E v : owner' = [owner EXCEPT ![Dir] = v] \/ owner' = owner
            /\ mpc \in {"mkdir", "rmdir", "remkdir"}
        BY <2>3 DEF Mkdir, Rmdir, Remkdir, MainInv, TypeOK, IdInv
      <3>2. CASE c = cur
        <4>1. d = "files" /\ mdir = "archive"
          BY <1>1, <3>1, <3>2 DEF HasDir, Serving, Releasing
        <4>2. Dir # <<d, id[c]>>
          BY <4>1 DEF Dir
        <4> QED
          BY <2>1, <2>2, <3>1, <4>2 DEF TypeOK
      <3>3. CASE c # cur
        <4>1. id[c] # id[cur]
          <5>1. Holding(cur)
            BY <3>1 DEF Holding
          <5>2. id[c] = id[cur] => Spared(cur)
            BY <2>1 DEF Spared
          <5> QED
            BY <2>1, <3>1, <3>3, <5>1, <5>2, PointersDiffer DEF ConfInv
        <4>2. Dir # <<d, id[c]>>
          BY <4>1 DEF Dir
        <4> QED
          BY <2>1, <2>2, <3>1, <4>2 DEF TypeOK
      <3> QED
        BY <3>2, <3>3
    <2>4. ASSUME NEW e \in Conn, RmArchive(e) \/ RmFiles(e)
          PROVE  owner'[<<d, id[c]>>] = c
      <3>1. c # e /\ pc[e] \in Cleaning /\ id[e] # NoId
        BY <1>1, <2>4 DEF RmArchive, RmFiles, HasDir, Cleaning, Serving, Releasing, IdInv
      <3>2. id[e] # id[c]
        BY <2>1, <3>1 DEF ReleaseInv, HasSlot
      <3> QED
        BY <2>1, <2>2, <2>4, <3>2 DEF RmArchive, RmFiles, TypeOK
    <2> QED
      BY <2>1, <2>2, <2>3, <2>4, DirEffect
  <1>2. CASE (Mkdir \/ Remkdir) /\ c = cur /\ d = mdir /\ owner' = [owner EXCEPT ![Dir] = cur]
    <2>1. id' = id /\ id[c] \in Ids
      BY <1>2 DEF Mkdir, Remkdir, MainInv, IdInv, TypeOK
    <2> QED
      BY <1>2, <2>1 DEF Dir, TypeOK
  <1> QED
    BY <1>1, <1>2, HasDirSteps

(* How a connection gives up its slot and its objects.                      *)
LEMMA HoldingSteps ==
  ASSUME PoolInv, [Next]_vars, NEW c \in Conn, Spared(c)
  PROVE  /\ Holding(c) => Holding(c)' \/ ClearConf(c)
         /\ Holding(c) /\ pc[c] # "clear_conf" => (Holding(c) /\ pc[c] # "clear_conf")' \/ Free(c)
         /\ pc[c] = "destroy_worker" => pc'[c] = "destroy_worker" \/ DestroyWorker(c)
         /\ pc[c] \in Cleaning => (pc[c] \in Cleaning)' \/ RmFiles(c) \/ RmFails(c)
         /\ (pc[c] = "rm_files")' => pc[c] = "rm_files" \/ RmArchive(c) \/ RmFails(c)
         /\ (pc[c] = "done")' => pc[c] = "done" \/ RmFiles(c) \/ RmFails(c)
  <1> USE PoolAssumption DEF PoolInv, TypeOK, MainInv, Holding, Serving, Releasing, Cleaning
  <1>1. CASE \E x \in Conn : Connect(x) \/ PeerCloses(x)
    BY <1>1 DEF Connect, PeerCloses, memory, mainvar
  <1>2. CASE \E x \in Conn : Accept(x)
    BY <1>2 DEF Accept, memory
  <1>3. CASE ScanSlot
    BY <1>3 DEF ScanSlot, Take, memory
  <1>4. CASE NewConf
    BY <1>4 DEF NewConf, MainSteps
  <1>5. CASE Mkdir \/ Rmdir \/ Remkdir \/ RecreateFails
    BY <1>5 DEF Mkdir, Rmdir, Remkdir, RecreateFails, NextDir, memory
  <1>6. CASE NewWorker
    BY <1>6 DEF NewWorker
  <1>7. CASE StartThread \/ StartThreadFails
    BY <1>7 DEF StartThread, StartThreadFails, memory
  <1>8. CASE AcceptFails \/ MkdirFails \/ MainBadPointer
    BY <1>8 DEF AcceptFails, MkdirFails, MainBadPointer, BadPointer, Die
  <1>9. CASE \E x \in Conn : Serve(x)
    BY <1>9, ServeEffect
  <1>10. ASSUME NEW x \in Conn, Release(x), x # c PROVE pc'[c] = pc[c]
    BY <1>10, ReleaseEffect DEF Free, ClearConf, DestroyWorker, ClearWorker, Goto
  <1>11. CASE Free(c)
    <2>1. pc[c] = "free" => cell[ConfAt(id[c])] # Null
      BY PointersDiffer DEF ConfInv
    <2> QED
      BY <1>11, <2>1 DEF Free, Goto
  <1>12. CASE ClearConf(c)
    BY <1>12 DEF ClearConf, Goto
  <1>13. CASE DestroyWorker(c) \/ ClearWorker(c)
    BY <1>13 DEF DestroyWorker, ClearWorker, Goto
  <1>14. CASE RmArchive(c) \/ RmFiles(c) \/ RmFails(c)
    BY <1>14 DEF RmArchive, RmFiles, RmFails, Move, Goto
  <1>15. CASE Close(c) \/ ReleaseBadPointer(c)
    BY <1>15 DEF Close, ReleaseBadPointer, Move, Goto, BadPointer, Die
  <1>16. CASE UNCHANGED vars
    BY <1>16 DEF vars
  <1>17. CASE \E x \in Conn : Release(x)
    <2>1. PICK x \in Conn : Release(x)
      BY <1>17
    <2>2. CASE x = c
      BY <2>1, <2>2, <1>11, <1>12, <1>13, <1>14, <1>15 DEF Release
    <2>3. CASE x # c
      <3>1. pc'[c] = pc[c]
        BY <2>1, <2>3, <1>10
      <3> QED
        BY <3>1
    <2> QED
      BY <2>2, <2>3
  <1> QED
    BY <1>1, <1>2, <1>3, <1>4, <1>5, <1>6, <1>7, <1>8, <1>9, <1>16, <1>17 DEF Next, MainStep

LEMMA EmptyStep == PoolInv /\ [Next]_vars => EmptyInv'
  <1> SUFFICES ASSUME PoolInv, [Next]_vars, reissued' = {}, ~Overflowed' PROVE EmptyInv'
    BY DEF EmptyInv
  <1> USE Monotonic, SlotsAreIds, PoolAssumption DEF PoolInv
  <1>0. /\ reissued = {} /\ ~Overflowed
        /\ \A c \in Conn : id[c] # NoId => Spared(c) /\ id[c] \in Slots /\ id'[c] = id[c]
    BY DEF TypeOK, Spared, Overflowed, Ids, Slots
  <1>1. \A c \in Conn : Holding(c) \/ pc[c] \in Cleaning => id[c] # NoId
    BY DEF IdInv, Holding, Serving, Releasing, Cleaning
  <1>2. ASSUME NEW i \in Slots, cell'[ConfAt(i)] # Null
        PROVE  \E c \in Conn : Holding(c)' /\ id'[c] = i
    <2>1. CASE cell[ConfAt(i)] # Null /\ \A c \in Conn : id[c] = i => ~ClearConf(c)
      <3>1. PICK c \in Conn : Holding(c) /\ id[c] = i
        BY <1>0, <2>1 DEF EmptyInv
      <3>2. Holding(c)'
        BY <1>0, <1>1, <2>1, <3>1, HoldingSteps
      <3> QED
        BY <1>0, <1>1, <3>1, <3>2
    <2>2. CASE NewConf
      <3>1. cur \in Conn /\ Holding(cur)' /\ id' = id /\ id[cur] \in Ids /\ pc[cur] # "clear_conf"
        BY <2>2 DEF NewConf, Holding, MainInv, TypeOK, IdInv
      <3>2. CASE id[cur] = i
        <4>1. PICK x \in Conn : x = cur
          BY <3>1
        <4>2. Holding(x)' /\ id'[x] = i
          BY <2>2, <3>1, <3>2, <4>1 DEF NewConf
        <4> QED
          BY <4>2
      <3>3. CASE id[cur] # i
        <4>1. cell[ConfAt(i)] # Null
          BY <1>2, <2>2, <3>1, <3>3, AddressesDiffer DEF NewConf, TypeOK
        <4>2. \A c \in Conn : id[c] = i => ~ClearConf(c)
          BY <2>2 DEF NewConf, ClearConf, MainInv, TypeOK
        <4> QED
          BY <2>1, <4>1, <4>2
      <3> QED
        BY <3>2, <3>3
    <2>3. ASSUME NEW c \in Conn, ClearConf(c)
          PROVE  cell[ConfAt(i)] # Null /\ \A x \in Conn : id[x] = i => ~ClearConf(x)
      <3>1. id[c] \in Ids /\ id[c] # i
        BY <1>2, <2>3, AddressesDiffer DEF ClearConf, IdInv, TypeOK
      <3>2. \A x \in Conn : ClearConf(x) => x = c
        BY <2>3 DEF ClearConf, TypeOK
      <3> QED
        BY <1>2, <2>3, <3>1, <3>2, AddressesDiffer DEF ClearConf, TypeOK
    <2>4. cell' = cell \/ NewConf \/ NewWorker \/ \E c \in Conn : ClearConf(c) \/ ClearWorker(c)
      BY OtherSteps DEF ScanSlot, Free, DestroyWorker, memory
    <2>5. NewWorker \/ (\E c \in Conn : ClearWorker(c)) => cell[ConfAt(i)] # Null
      <3> SUFFICES ASSUME NewWorker \/ \E c \in Conn : ClearWorker(c)
                   PROVE  cell[ConfAt(i)] # Null
        OBVIOUS
      <3>0. \A x \in Conn : pc[x] \in {"setup", "clear_worker"} => id[x] \in Ids
        BY DEF IdInv, TypeOK
      <3>1. PICK x \in Conn : /\ \E v : cell' = [cell EXCEPT ![WorkerAt(id[x])] = v]
                              /\ id[x] \in Ids
        <4>1. CASE NewWorker
          <5>1. cur \in Conn /\ id[cur] \in Ids
            BY <3>0, <4>1 DEF NewWorker, MainInv, TypeOK
          <5>2. \E v : cell' = [cell EXCEPT ![WorkerAt(id[cur])] = v]
            BY <4>1 DEF NewWorker
          <5> QED
            BY <5>1, <5>2
        <4>2. CASE \E c \in Conn : ClearWorker(c)
          BY <3>0, <4>2 DEF ClearWorker, Goto
        <4> QED
          BY <4>1, <4>2
      <3>2. id[x] # -1
        BY <1>0 DEF Overflowed
      <3>3. ConfAt(i) # WorkerAt(id[x])
        BY <3>1, <3>2, AddressesDiffer
      <3> QED
        BY <1>2, <3>1, <3>3, AddressesDiffer DEF TypeOK
    <2> QED
      BY <1>2, <2>1, <2>2, <2>3, <2>4, <2>5
  <1>3. ASSUME NEW o \in live'
        PROVE  \/ o = Base
               \/ \E c \in Conn : (Holding(c) /\ pc[c] # "clear_conf")' /\ o = Conf(c)
               \/ \E c \in Conn : (Holding(c) \/ pc[c] = "destroy_worker")' /\ o = Handler(c)
    <2>1. CASE o \in live
      <3>1. ASSUME NEW c \in Conn, Holding(c), pc[c] # "clear_conf", o = Conf(c)
            PROVE  (Holding(c) /\ pc[c] # "clear_conf")'
        <4>1. ~Free(c)
          <5>1. cell[ConfAt(id[c])] # Null
            BY <1>0, <1>1, <3>1, PointersDiffer DEF ConfInv
          <5> QED
            BY <1>3, <3>1, <5>1 DEF Free
        <4> QED
          BY <1>0, <1>1, <3>1, <4>1, HoldingSteps
      <3>2. ASSUME NEW c \in Conn, Holding(c), o = Handler(c)
            PROVE  (Holding(c) \/ pc[c] = "destroy_worker")'
        BY <1>0, <1>1, <3>2, HoldingSteps DEF ClearConf, TypeOK
      <3>3. ASSUME NEW c \in Conn, pc[c] = "destroy_worker", o = Handler(c)
            PROVE  (pc[c] = "destroy_worker")'
        <4>1. ~DestroyWorker(c)
          BY <1>0, <1>3, <3>3, PointersDiffer DEF DestroyWorker, ObjectInv
        <4> QED
          BY <1>0, <1>1, <3>3, <4>1, HoldingSteps DEF Cleaning
      <3> QED
        BY <1>0, <2>1, <3>1, <3>2, <3>3 DEF EmptyInv
    <2>2. CASE NewConf /\ o = Conf(cur)
      BY <2>2 DEF NewConf, Holding, MainInv, TypeOK
    <2>3. CASE NewWorker /\ o = Handler(cur)
      BY <2>3 DEF NewWorker, Holding, MainInv, TypeOK
    <2> QED
      BY <1>3, <2>1, <2>2, <2>3, OtherSteps
      DEF ScanSlot, NewConf, NewWorker, Free, ClearConf, DestroyWorker, ClearWorker, memory
  <1> QED
    BY <1>2, <1>3 DEF EmptyInv

LEMMA LeftStep == PoolInv /\ [Next]_vars => LeftInv'
  <1> SUFFICES ASSUME PoolInv, [Next]_vars, DirsWork, reissued' = {}, ~Overflowed',
                      NEW c \in Conn
               PROVE  /\ (pc[c] = "rm_files")' => owner'[<<"archive", id'[c]>>] = "absent"
                      /\ (pc[c] = "done")' => \A d \in DirKinds :
                           \/ owner'[<<d, id'[c]>>] = "absent"
                           \/ \E e \in Conn : (Holding(e) \/ pc[e] \in Cleaning)' /\ id'[e] = id'[c]
    BY DEF LeftInv, DirsWork
  <1> USE Monotonic, SlotsAreIds, PoolAssumption DEF PoolInv
  <1>0. /\ reissued = {} /\ ~Overflowed
        /\ \A x \in Conn : id[x] # NoId => Spared(x) /\ id[x] \in Slots /\ id'[x] = id[x]
        /\ \A x \in Conn : Holding(x) \/ pc[x] \in Cleaning \cup {"done"} => id[x] # NoId
        /\ \A x \in Conn : ~RmFails(x)
    BY DEF TypeOK, Spared, Overflowed, Ids, Slots, IdInv, Holding, Serving, Releasing, Cleaning,
           RmFails, DirsWork
  <1>1. ASSUME NEW e \in Conn, RmArchive(e) \/ RmFiles(e)
        PROVE  \A d \in DirKinds, x \in Conn : id[x] # NoId /\ owner[<<d, id[x]>>] = "absent"
                 => owner'[<<d, id[x]>>] = "absent"
    BY <1>1 DEF RmArchive, RmFiles, TypeOK
  <1>2. ASSUME (pc[c] = "rm_files")' PROVE owner'[<<"archive", id'[c]>>] = "absent"
    <2>1. CASE RmArchive(c)
      BY <1>0, <2>1 DEF RmArchive, TypeOK, Cleaning, DirKinds
    <2>2. CASE pc[c] = "rm_files"
      <3>1. Spared(c) /\ id'[c] = id[c] /\ id[c] # NoId /\ owner[<<"archive", id[c]>>] = "absent"
        BY <1>0, <2>2 DEF LeftInv, Cleaning
      <3>2. CASE Mkdir \/ Rmdir \/ Remkdir
        <4>1. /\ cur \in Conn /\ pc[cur] = "setup" /\ id[cur] \in Ids
              /\ \E v : owner' = [owner EXCEPT ![Dir] = v] \/ owner' = owner
          BY <3>2 DEF Mkdir, Rmdir, Remkdir, MainInv, TypeOK, IdInv
        <4>2. HasSlot(cur) /\ id[cur] # NoId /\ c # cur
          BY <2>2, <4>1 DEF HasSlot, Holding
        <4>3. id[cur] # id[c]
          BY <1>0, <2>2, <4>1, <4>2 DEF ReleaseInv, Cleaning
        <4>4. Dir # <<"archive", id[c]>> /\ <<"archive", id[c]>> \in DirKinds \X Ids
          BY <1>0, <3>1, <4>3 DEF Dir, DirKinds
        <4>5. owner'[<<"archive", id[c]>>] = owner[<<"archive", id[c]>>]
          BY <4>1, <4>4 DEF TypeOK
        <4> QED
          BY <3>1, <4>5
      <3> QED
        BY <1>1, <3>1, <3>2, DirEffect DEF DirKinds
    <2>3. id[c] # NoId
      <3>1. pc[c] \in {"rm_archive", "rm_files"} \/ id[c] = NoId
        BY <1>0, <1>2, HoldingSteps DEF RmArchive
      <3>2. pc'[c] = "rm_files" => id'[c] # NoId
        BY IdStep DEF IdInv
      <3>3. CASE ScanSlot
        BY <1>2, <3>3 DEF ScanSlot, MainInv, TypeOK, IdInv
      <3>4. CASE ~ScanSlot
        <4>1. id' = id
          BY <3>4, OtherSteps DEF NewConf, NewWorker, Free, ClearConf, DestroyWorker, ClearWorker
        <4> QED
          BY <1>2, <3>2, <4>1
      <3> QED
        BY <3>3, <3>4
    <2> QED
      BY <1>0, <1>2, <2>1, <2>2, <2>3, HoldingSteps
  <1>3. ASSUME (pc[c] = "done")', NEW d \in DirKinds
        PROVE  \/ owner'[<<d, id'[c]>>] = "absent"
               \/ \E e \in Conn : (Holding(e) \/ pc[e] \in Cleaning)' /\ id'[e] = id'[c]
    <2>0. id[c] # NoId
      <3>1. pc'[c] = "done" => id'[c] # NoId
        BY IdStep DEF IdInv
      <3>2. CASE ScanSlot
        BY <1>3, <3>2 DEF ScanSlot, MainInv, TypeOK, IdInv
      <3>3. CASE ~ScanSlot
        <4>1. id' = id
          BY <3>3, OtherSteps DEF NewConf, NewWorker, Free, ClearConf, DestroyWorker, ClearWorker
        <4> QED
          BY <1>3, <3>1, <4>1
      <3> QED
        BY <3>2, <3>3
    <2>1. ASSUME NEW e \in Conn, RmFiles(e), id[e] = id[c] PROVE owner'[<<d, id'[c]>>] = "absent"
      <3>1. owner[<<"archive", id[c]>>] = "absent"
        BY <1>0, <2>1 DEF LeftInv, RmFiles
      <3> QED
        BY <1>0, <2>0, <2>1, <3>1 DEF RmFiles, TypeOK, DirKinds
    <2>2. CASE pc[c] = "done" /\ \E e \in Conn : (Holding(e) \/ pc[e] \in Cleaning) /\ id[e] = id[c]
      <3>1. PICK e \in Conn : (Holding(e) \/ pc[e] \in Cleaning) /\ id[e] = id[c]
        BY <2>2
      <3>2. (Holding(e) \/ pc[e] \in Cleaning)' \/ RmFiles(e)
        <4>1. Holding(e) => (Holding(e) \/ pc[e] \in Cleaning)'
          BY <1>0, <3>1, HoldingSteps DEF ClearConf, Cleaning, TypeOK
        <4>2. pc[e] \in Cleaning => (pc[e] \in Cleaning)' \/ RmFiles(e)
          BY <1>0, <3>1, HoldingSteps
        <4> QED
          BY <3>1, <4>1, <4>2
      <3> QED
        BY <1>0, <2>0, <2>1, <3>1, <3>2
    <2>3. CASE pc[c] = "done" /\ owner[<<d, id[c]>>] = "absent"
      <3>1. CASE Mkdir \/ Rmdir \/ Remkdir
        <4>1. cur \in Conn /\ pc[cur] = "setup" /\ pc' = pc /\ id[cur] \in Ids
              /\ \E v : owner' = [owner EXCEPT ![Dir] = v] \/ owner' = owner
          BY <3>1 DEF Mkdir, Rmdir, Remkdir, MainInv, TypeOK, IdInv, memory
        <4>2. CASE id[cur] = id[c]
          BY <1>0, <2>0, <4>1, <4>2 DEF Holding
        <4>3. CASE id[cur] # id[c]
          <5>1. Dir # <<d, id[c]>>
            BY <4>3 DEF Dir
          <5> QED
            BY <1>0, <2>0, <2>3, <4>1, <5>1 DEF TypeOK
        <4> QED
          BY <4>2, <4>3
      <3> QED
        BY <1>0, <1>1, <2>0, <2>3, <3>1, DirEffect
    <2> QED
      BY <1>0, <1>3, <2>0, <2>1, <2>2, <2>3, HoldingSteps DEF LeftInv
  <1> QED
    BY <1>2, <1>3

LEMMA PoolStep == PoolInv /\ [Next]_vars => PoolInv'
  BY TypeMainStep, IdStep, ConfStep, WorkerStep, ReleaseStep, ObjectStep, MemoryFaultsStep,
     DirStep, EmptyStep, LeftStep
  DEF PoolInv

(* The invariant the theorems below are read off.                           *)
THEOREM PoolInvariant == Spec => []PoolInv
  BY PoolInit, PoolStep, PTL DEF Spec

-----------------------------------------------------------------------------
(* The numbers server_listen() gives are unique among the connections that  *)
(* hold one, whatever the interleaving of the scan with the releases.       *)
THEOREM IDsAreUnique == Spec => []UniqueIDs
  <1>1. PoolInv => UniqueIDs
    <2> SUFFICES ASSUME PoolInv, NEW c \in Conn, NEW d \in Conn,
                        HasSlot(c), HasSlot(d), Spared(c), id[c] = id[d]
                 PROVE  c = d
      BY DEF UniqueIDs
    <2>1. Spared(d)
      BY DEF Spared
    <2> QED
      BY <2>1, PointersDiffer DEF PoolInv, ConfInv, HasSlot
  <1> QED
    BY <1>1, PoolInvariant, PTL

(* A connection whose slot was free of any release keeps its two objects    *)
(* for as long as it is served.                                             *)
THEOREM SlotsAreOwned == Spec => []SessionOwnsSlot
  <1>1. PoolInv => SessionOwnsSlot
    BY DEF PoolInv, SessionOwnsSlot, OwnConf, ConfInv, ObjectInv, Holding, Serving, Releasing
  <1> QED
    BY <1>1, PoolInvariant, PTL

(* A connection whose slot was free of any release works in the two         *)
(* directories configure_working_dir() made for it and for nobody else, as  *)
(* long as mkdir and rm do what they are asked.                             *)
THEOREM SessionsOwnDirs == ASSUME DirsWork PROVE Spec => []SessionOwnsDirs
  <1>1. PoolInv => SessionOwnsDirs
    BY DEF PoolInv, SessionOwnsDirs, DirInv, HasDir, Serving, Releasing
  <1> QED
    BY <1>1, PoolInvariant, PTL

(* When the last connection is released, and no slot was ever given away    *)
(* too early, the tables, the memory and the directories are as before the  *)
(* first: client_disconnect() forgets nothing.                              *)
THEOREM ReleasedIsClean == ASSUME DirsWork PROVE Spec => []QuiescentClean
  <1>1. PoolInv => QuiescentClean
    <2> SUFFICES ASSUME PoolInv, Up /\ mpc = "accept" /\ ~Overflowed /\ reissued = {},
                        \A c \in Conn : pc[c] \in {"new", "backlog", "done"}
                 PROVE  /\ \A i \in Slots : cell[ConfAt(i)] = Null
                        /\ live = {Base}
                        /\ \A c \in Conn, d \in DirKinds :
                             pc[c] = "done" => owner[<<d, id[c]>>] = "absent"
      BY DEF QuiescentClean
    <2>1. \A c \in Conn : ~Holding(c) /\ pc[c] # "destroy_worker" /\ pc[c] \notin Cleaning
      BY DEF Holding, Serving, Releasing, Cleaning
    <2>2. \A i \in Slots : cell[ConfAt(i)] = Null
      BY <2>1 DEF PoolInv, EmptyInv
    <2>3. live = {Base}
      BY <2>1 DEF PoolInv, EmptyInv, ConfInv
    <2>4. \A c \in Conn, d \in DirKinds : pc[c] = "done" => owner[<<d, id[c]>>] = "absent"
      BY <2>1 DEF PoolInv, LeftInv
    <2> QED
      BY <2>2, <2>3, <2>4
  <1> QED
    BY <1>1, PoolInvariant, PTL

(* The two ways, and the only two, to a null or foreign pointer.            *)
THEOREM FaultsAreExplained == Spec => []MemoryFaultsExplained
  <1>1. PoolInv => MemoryFaultsExplained
    BY DEF PoolInv
  <1> QED
    BY <1>1, PoolInvariant, PTL

(* conf[id] is cleared by nobody but the thread of its connection.          *)
THEOREM OwnersClear == Spec => SlotClearedByOwner
  <1>1. ASSUME PoolInv, [Next]_vars, NEW c \in Conn, Spared(c), Spared(c)', OwnConf(c),
               cell'[ConfAt(id[c])] # Conf(c)
        PROVE  pc[c] = "clear_conf"
    <2> USE SlotsAreIds, PointersDiffer, AddressesDiffer DEF PoolInv, TypeOK, OwnConf
    <2>1. id[c] \in Slots /\ cell[ConfAt(id[c])] = Conf(c)
      BY <1>1 DEF Spared
    <2>2. ~NewConf
      <3> SUFFICES ASSUME NewConf PROVE FALSE
        OBVIOUS
      <3>1. cur \in Conn /\ id[cur] \in Ids
        BY <1>1, PoolAssumption DEF NewConf, MainInv, IdInv
      <3>2. id[cur] = id[c]
        BY <1>1, <2>1, <3>1 DEF NewConf
      <3>3. Spared(cur)
        BY <1>1, <3>2 DEF Spared
      <3> QED
        BY <1>1, <2>1, <3>1, <3>2, <3>3 DEF NewConf, ConfInv
    <2>3. \A i \in Ids : i = -1 /\ id[c] = MAX_CLIENT - 1 => \A d \in Conn : id[d] # i
      BY <1>1 DEF Spared, Overflowed
    <2>4. ~NewWorker
      <3> SUFFICES ASSUME NewWorker PROVE FALSE
        OBVIOUS
      <3>1. cur \in Conn /\ id[cur] \in Ids
        BY <1>1, PoolAssumption DEF NewWorker, MainInv, IdInv
      <3> QED
        BY <1>1, <2>1, <2>3, <3>1 DEF NewWorker
    <2>5. ASSUME NEW d \in Conn, ClearWorker(d) PROVE FALSE
      <3>1. id[d] \in Ids
        BY <1>1, <2>5 DEF ClearWorker, IdInv
      <3> QED
        BY <1>1, <2>1, <2>3, <2>5, <3>1 DEF ClearWorker
    <2>6. ASSUME NEW d \in Conn, ClearConf(d) PROVE pc[c] = "clear_conf"
      <3>1. id[d] \in Ids
        BY <1>1, <2>6 DEF ClearConf, IdInv
      <3>2. id[d] = id[c]
        BY <1>1, <2>1, <2>6, <3>1 DEF ClearConf
      <3>3. Spared(d) /\ Holding(d)
        BY <1>1, <2>6, <3>2 DEF Spared, ClearConf, Holding, Releasing
      <3>4. c = d
        BY <1>1, <2>1, <3>2, <3>3 DEF ConfInv
      <3> QED
        BY <2>6, <3>4 DEF ClearConf
    <2> QED
      BY <1>1, <2>1, <2>2, <2>4, <2>5, <2>6, OtherSteps DEF ScanSlot, Free, DestroyWorker, memory
  <1>2. PoolInv /\ [Next]_vars =>
          [\A c \in Conn : Spared(c) /\ Spared(c)' /\ OwnConf(c) =>
             cell'[ConfAt(id[c])] = Conf(c) \/ pc[c] = "clear_conf"]_vars
    BY <1>1
  <1> QED
    BY <1>2, PoolInvariant, PTL DEF Spec, SlotClearedByOwner
-----------------------------------------------------------------------------
(* The stages seen by Workers, and what they are after one thread moved.    *)
LEMMA StageMoves ==
  ASSUME TypeOK, NEW c \in Conn, NEW from, NEW to, Goto(c, from, to)
  PROVE  /\ [d \in Conn |-> StageOf(pc[d])][c] = StageOf(from)
         /\ [d \in Conn |-> StageOf(pc[d])]' =
              [[d \in Conn |-> StageOf(pc[d])] EXCEPT ![c] = StageOf(to)]
         /\ StageOf(from) = StageOf(to) =>
              [d \in Conn |-> StageOf(pc[d])]' = [d \in Conn |-> StageOf(pc[d])]
  <1>1. \A d \in Conn : pc'[d] = IF d = c THEN to ELSE pc[d]
    BY DEF TypeOK
  <1>2. pc[c] = from
    OBVIOUS
  <1>3. \A d \in Conn : StageOf(pc'[d]) = IF d = c THEN StageOf(to) ELSE StageOf(pc[d])
    BY <1>1
  <1> QED
    BY <1>2, <1>3

LEMMA StagesOf ==
  /\ StageOf("handshake") = "handshake" /\ StageOf("idle") = "idle"
  /\ StageOf("command") = "command" /\ StageOf("uncaught") = "uncaught"
  /\ \A p \in Releasing \cup Cleaning \cup {"done"} : StageOf(p) = "leaving"
  /\ \A p \in {"new", "backlog", "accepted", "setup", "nothread"} : StageOf(p) = "waiting"
  BY DEF StageOf, Serving, Releasing, Cleaning

(* A step of one thread that leaves the rest alone.                         *)
LEMMA MoveRefines ==
  ASSUME TypeOK, NEW c \in Conn, NEW from, NEW to, Goto(c, from, to),
         Up, peer' = peer, process' = process
  PROVE  Abstract!Moves(c, StageOf(from), StageOf(to))
  <1>1. /\ [d \in Conn |-> StageOf(pc[d])][c] = StageOf(from)
        /\ [d \in Conn |-> StageOf(pc[d])]' =
             [[d \in Conn |-> StageOf(pc[d])] EXCEPT ![c] = StageOf(to)]
    BY StageMoves
  <1> QED
    BY <1>1 DEF Abstract!Moves, Up

(* A step that ends the process without an exception of a worker.           *)
LEMMA EndingStep ==
  ASSUME TypeOK, process = "up", process' \in {"exited", "segfault", "astray"},
         pc' = pc, peer' = peer
  PROVE  Abstract!Next
  BY DEF Abstract!Next, Abstract!ProcessEnds

(* A step that no other thread could tell from none.                        *)
LEMMA HiddenStep ==
  ASSUME \A d \in Conn : StageOf(pc'[d]) = StageOf(pc[d]), peer' = peer, process' = process
  PROVE  UNCHANGED Abstract!wvars
  BY DEF Abstract!wvars

LEMMA MainRefines ==
  TypeOK /\ MainInv /\ (MainStep \/ AcceptFails) => [Abstract!Next]_(Abstract!wvars)
  <1> SUFFICES ASSUME TypeOK, MainInv, MainStep \/ AcceptFails
               PROVE  [Abstract!Next]_(Abstract!wvars)
    OBVIOUS
  <1>1. CASE \E c \in Conn : Accept(c)
    BY <1>1, StageMoves, StagesOf DEF Accept, Abstract!wvars
  <1>2. CASE ScanSlot
    BY <1>2, HiddenStep DEF ScanSlot
  <1>3. CASE NewConf
    <2>1. cur \in Conn
      BY <1>3, PoolAssumption DEF NewConf, MainInv, TypeOK
    <2> QED
      BY <1>3, <2>1, StageMoves, StagesOf DEF NewConf, Abstract!wvars
  <1>4. CASE Mkdir \/ Rmdir \/ Remkdir \/ RecreateFails \/ NewWorker
    BY <1>4, HiddenStep DEF Mkdir, Rmdir, Remkdir, RecreateFails, NewWorker
  <1>5. CASE StartThread
    <2>1. cur \in Conn
      BY <1>5, PoolAssumption DEF StartThread, MainInv, TypeOK
    <2>2. Abstract!Moves(cur, StageOf("setup"), StageOf("handshake"))
      BY <1>5, <2>1, MoveRefines DEF StartThread
    <2>3. Abstract!Start(cur)
      BY <2>2, StagesOf DEF Abstract!Start
    <2> QED
      BY <2>1, <2>3 DEF Abstract!Next
  <1>6. CASE StartThreadFails
    <2>1. cur \in Conn
      BY <1>6, PoolAssumption DEF StartThreadFails, MainInv, TypeOK
    <2> QED
      BY <1>6, <2>1, StageMoves, StagesOf DEF StartThreadFails, Abstract!wvars
  <1>7. CASE MkdirFails \/ MainBadPointer \/ AcceptFails
    BY <1>7, EndingStep DEF MkdirFails, MainBadPointer, AcceptFails, BadPointer, Outcome, Die, Up
  <1> QED
    BY <1>1, <1>2, <1>3, <1>4, <1>5, <1>6, <1>7 DEF MainStep

LEMMA ServeRefines ==
  ASSUME TypeOK, NEW c \in Conn, Serve(c)
  PROVE  [Abstract!Next]_(Abstract!wvars)
  <1>0. \A from, to : Move(c, from, to) => Abstract!Moves(c, StageOf(from), StageOf(to))
    BY MoveRefines DEF Move, mainvar
  <1>1. CASE Handshake(c)
    <2>1. Abstract!Greet(c)
      BY <1>0, <1>1, StagesOf DEF Handshake, Abstract!Greet
    <2> QED
      BY <2>1 DEF Abstract!Next
  <1>2. CASE ReceiveCommand(c)
    <2>1. Abstract!Receive(c)
      BY <1>0, <1>2, StagesOf DEF ReceiveCommand, Abstract!Receive
    <2> QED
      BY <2>1 DEF Abstract!Next
  <1>3. CASE CommandEnds(c)
    <2>1. Abstract!Finish(c)
      BY <1>0, <1>3, StagesOf DEF CommandEnds, Abstract!Finish
    <2> QED
      BY <2>1 DEF Abstract!Next
  <1>4. CASE HandshakeTransmissionError(c) \/ Quit(c) \/ IdleEOF(c)
    <2>1. StageOf("close") = "leaving"
      BY StagesOf DEF Releasing
    <2>2. Abstract!Leave(c)
      BY <1>0, <1>4, <2>1, StagesOf
      DEF HandshakeTransmissionError, Quit, IdleEOF, Abstract!Leave
    <2> QED
      BY <2>2 DEF Abstract!Next
  <1>5. CASE HandshakeNotConnected(c) \/ IdleReset(c) \/ CommandNotConnected(c)
             \/ CommandFileFails(c)
    <2>1. PICK from \in Serving :
            /\ Goto(c, from, "uncaught")
            /\ peer[c] = "closed" \/ (from = "command" /\ "file" \in Faults)
      BY <1>5 DEF HandshakeNotConnected, IdleReset, CommandNotConnected, CommandFileFails,
                  Terminate, Serving
    <2>2. process = "up" /\ process' = "terminated" /\ peer' = peer
      BY <1>5 DEF HandshakeNotConnected, IdleReset, CommandNotConnected, CommandFileFails,
                  Terminate, Die, Up
    <2>3. StageOf(from) = from
      BY <2>1, StagesOf DEF Serving
    <2>4. /\ [d \in Conn |-> StageOf(pc[d])][c] = from
          /\ [d \in Conn |-> StageOf(pc[d])]' =
               [[d \in Conn |-> StageOf(pc[d])] EXCEPT ![c] = "uncaught"]
      <3>1. /\ [d \in Conn |-> StageOf(pc[d])][c] = StageOf(from)
            /\ [d \in Conn |-> StageOf(pc[d])]' =
                 [[d \in Conn |-> StageOf(pc[d])] EXCEPT ![c] = StageOf("uncaught")]
        BY <2>1, StageMoves
      <3> QED
        BY <2>3, <3>1, StagesOf
    <2>5. Abstract!Terminate(c)
      BY <2>1, <2>2, <2>4 DEF Abstract!Terminate, Serving
    <2> QED
      BY <2>5 DEF Abstract!Next
  <1>6. CASE UseDestroyed(c)
    BY <1>6, EndingStep DEF UseDestroyed, BadPointer, Outcome, Die, Up
  <1> QED
    BY <1>1, <1>2, <1>3, <1>4, <1>5, <1>6 DEF Serve

LEMMA ReleaseRefines ==
  ASSUME TypeOK, NEW c \in Conn, Release(c)
  PROVE  [Abstract!Next]_(Abstract!wvars)
  <1>1. CASE ReleaseBadPointer(c)
    BY <1>1, EndingStep DEF ReleaseBadPointer, BadPointer, Outcome, Die, Up
  <1>2. CASE ~ReleaseBadPointer(c)
    <2>1. /\ peer' = peer /\ process' = process
          /\ \E from, to \in Releasing \cup Cleaning \cup {"done"} : Goto(c, from, to)
      BY <1>2 DEF Release, Close, Free, ClearConf, DestroyWorker, ClearWorker, RmArchive, RmFiles,
                  RmFails, Move, Releasing, Cleaning, mainvar
    <2> QED
      BY <2>1, StageMoves, StagesOf DEF Abstract!wvars
  <1> QED
    BY <1>1, <1>2

(* The process with its slots, its memory and its failures implements the   *)
(* promise of Workers: every thread passes the stages in order, and the     *)
(* exceptions that end the process come from where Workers allows them.     *)
THEOREM PoolRefinesWorkers == Spec => ImplementsWorkers
  <1>1. Init => Abstract!Init
    BY StagesOf DEF Init, Abstract!Init
  <1>2. TypeOK /\ MainInv /\ [Next]_vars => [Abstract!Next]_(Abstract!wvars)
    <2> SUFFICES ASSUME TypeOK, MainInv, [Next]_vars PROVE [Abstract!Next]_(Abstract!wvars)
      OBVIOUS
    <2>1. ASSUME NEW c \in Conn, Connect(c) PROVE [Abstract!Next]_(Abstract!wvars)
      BY <2>1, StageMoves, StagesOf DEF Connect, Abstract!wvars
    <2>2. ASSUME NEW c \in Conn, PeerCloses(c) PROVE [Abstract!Next]_(Abstract!wvars)
      BY <2>2 DEF PeerCloses, Abstract!Next, Abstract!PeerCloses
    <2>3. CASE UNCHANGED vars
      BY <2>3, HiddenStep DEF vars
    <2> QED
      BY <2>1, <2>2, <2>3, MainRefines, ServeRefines, ReleaseRefines DEF Next
  <1>3. Spec => [](TypeOK /\ MainInv)
    BY TypeMainInit, TypeMainStep, PTL DEF Spec
  <1> QED
    BY <1>1, <1>2, <1>3, PTL DEF Spec, ImplementsWorkers, Abstract!Spec
=============================================================================
