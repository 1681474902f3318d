------------------------------ MODULE ServerPool ------------------------------
(***************************************************************************)
(* The process of compressor-server: the main thread that accepts          *)
(* connections (server::server_listen), one worker thread per connection   *)
(* (commandHandler::handle_command, its conversation with the client kept  *)
(* to what can end it), the two tables conf[] and worker[] they share      *)
(* without a lock, and the two working directories of every client_ID.     *)
(*                                                                         *)
(* The tables are modelled as the memory they are: server.h declares       *)
(* base_conf, conf[MAX_CLIENT] and worker[MAX_CLIENT] one after the other, *)
(* so that index -1 of conf is base_conf and index -1 of worker is         *)
(* conf[MAX_CLIENT - 1].  generate_client_ID() returns -1 when no slot is  *)
(* free, and server_listen() uses it as any other index.                   *)
(***************************************************************************)
EXTENDS Integers, FiniteSets

CONSTANTS
  Conn,        \* the connections opened during the life of the server
  MAX_CLIENT,  \* the number of slots of conf[] and of worker[]
  Faults       \* the failures of system calls that may happen in a run

FaultKinds == {"accept", "mkdir", "rm", "thread", "file"}

ASSUME PoolAssumption ==
  /\ MAX_CLIENT \in Nat \ {0}
  /\ Conn \cap {"none", "absent", "stale"} = {}
  /\ Faults \subseteq FaultKinds

VARIABLES
  cell,      \* the words base_conf, conf[0..], worker[0..], by address
  live,      \* the objects that are constructed and not yet destroyed
  pc,        \* where each connection is: in the backlog, served, released...
  id,        \* the client_ID a connection was given
  peer,      \* whether the client's end of the connection is open
  mpc,       \* the statement the main thread is at
  cur,       \* the connection the main thread is setting up
  scan,      \* the loop index of generate_client_ID()
  mdir,      \* the directory configure_working_dir() is at
  owner,     \* who filled each working directory, or "absent"
  process,   \* whether the server process runs, or how it ended
  reissued   \* history: connections given a slot that was still being released

vars == <<cell, live, pc, id, peer, mpc, cur, scan, mdir, owner, process, reissued>>

memory  == <<cell, live>>
mainvar == <<mpc, cur, scan, mdir>>

-----------------------------------------------------------------------------
(* Addresses.  NoId is the id of a connection that was given none yet.      *)

BaseAt      == -1
ConfAt(i)   == i
WorkerAt(i) == MAX_CLIENT + i
Slots       == 0 .. MAX_CLIENT - 1
Ids         == -1 .. MAX_CLIENT - 1
NoId        == -2
Addresses   == -1 .. 2 * MAX_CLIENT - 1

(* What a word holds: the null pointer, a value nobody wrote, or a pointer  *)
(* to an object.                                                            *)
Object(k, c) == [kind |-> k, of |-> c]
Null         == Object("null", "none")
Wild         == Object("wild", "none")
Base         == Object("base", "none")
Conf(c)      == Object("conf", c)
Handler(c)   == Object("handler", c)
Objects      == [kind : {"null", "wild", "base", "conf", "handler"}, of : Conn \cup {"none"}]

DirKinds == {"files", "archive"}

(* The stages of a connection.  The main thread moves it from "backlog" to  *)
(* "handshake"; the rest is its own thread.  "uncaught" is a thread that    *)
(* an exception nobody catches has left.                                    *)
Serving   == {"handshake", "idle", "command"}
Releasing == {"close", "free", "clear_conf"}
Cleaning  == {"destroy_worker", "clear_worker", "rm_archive", "rm_files"}
Stages    == {"new", "backlog", "accepted", "setup", "nothread", "uncaught", "done"}
               \cup Serving \cup Releasing \cup Cleaning
MainSteps == {"accept", "scan", "construct", "mkdir", "rmdir", "remkdir",
              "new_worker", "start"}

TypeOK ==
  /\ cell \in [Addresses -> Objects]
  /\ live \subseteq Objects
  /\ pc \in [Conn -> Stages]
  /\ id \in [Conn -> Ids \cup {NoId}]
  /\ peer \in [Conn -> {"open", "closed"}]
  /\ mpc \in MainSteps
  /\ cur \in Conn \cup {"none"}
  /\ scan \in 0 .. MAX_CLIENT
  /\ mdir \in DirKinds
  /\ owner \in [DirKinds \X Ids -> Conn \cup {"absent", "stale"}]
  /\ process \in {"up", "exited", "terminated", "segfault", "astray"}
  /\ reissued \subseteq Conn

(* server::server() clears conf[] and leaves worker[] as it finds it; the   *)
(* directories of an earlier server that did not stop cleanly may be there. *)
Init ==
  /\ cell = [a \in Addresses |-> IF a = BaseAt THEN Base
                                 ELSE IF a \in Slots THEN Null ELSE Wild]
  /\ live = {Base}
  /\ pc = [c \in Conn |-> "new"]
  /\ id = [c \in Conn |-> NoId]
  /\ peer = [c \in Conn |-> "open"]
  /\ mpc = "accept"
  /\ cur = "none"
  /\ scan = 0
  /\ mdir = "files"
  /\ \E left \in {"absent", "stale"} : owner = [d \in DirKinds \X Ids |-> left]
  /\ process = "up"
  /\ reissued = {}

Up == process = "up"

Goto(c, from, to) ==
  /\ pc[c] = from
  /\ pc' = [pc EXCEPT ![c] = to]

(* The process ends; nothing else of its state matters afterwards.          *)
Die(how) ==
  /\ process' = how
  /\ UNCHANGED <<cell, live, id, peer, mpc, cur, scan, mdir, owner, reissued>>

(* Following a pointer that does not point to the object it should: the     *)
(* null pointer faults; with a destroyed object, a word nobody wrote or the *)
(* object of another connection the process goes "astray", and the model    *)
(* does not follow it any further.                                          *)
Outcome(o) == IF o = Null THEN "segfault" ELSE "astray"
BadPointer(o) == Die(Outcome(o)) /\ UNCHANGED pc

(* The object conf[id] points to is the one of this connection.             *)
OwnConf(c) == cell[ConfAt(id[c])] = Conf(c) /\ Conf(c) \in live

-----------------------------------------------------------------------------
(* The clients.                                                             *)

(* A client's connect() completes: the kernel queues the connection.  A     *)
(* connection's stages never return to "new".                               *)
Connect(c) ==
  /\ Up
  /\ Goto(c, "new", "backlog")
  /\ UNCHANGED <<memory, id, peer, mainvar, owner, process, reissued>>

(* The client ends: after quit, or because it was killed.                   *)
PeerCloses(c) ==
  /\ Up
  /\ pc[c] # "new" /\ peer[c] = "open"
  /\ peer' = [peer EXCEPT ![c] = "closed"]
  /\ UNCHANGED <<memory, pc, id, mainvar, owner, process, reissued>>
-----------------------------------------------------------------------------
(* The main thread: one turn of the loop of server_listen().                *)

(* Variant of Accept: accepts only when no thread is serving anybody.       *)
AcceptWhenIdle(c) ==
  /\ Up /\ mpc = "accept"
  /\ \A d \in Conn : pc[d] \notin Serving
  /\ Goto(c, "backlog", "accepted")
  /\ mpc' = "scan" /\ cur' = c /\ scan' = 0
  /\ UNCHANGED <<memory, id, peer, mdir, owner, process, reissued>>

Accept(c) ==
  /\ Up /\ mpc = "accept"
  /\ Goto(c, "backlog", "accepted")
  /\ mpc' = "scan" /\ cur' = c /\ scan' = 0
  /\ UNCHANGED <<memory, id, peer, mdir, owner, process, reissued>>

(* accept() fails: serverErrorException(ACCEPT) reaches main(), which exits.*)
AcceptFails ==
  /\ Up /\ mpc = "accept" /\ "accept" \in Faults
  /\ Die("exited") /\ UNCHANGED pc

(* The connections that have freed slot i and have not finished with it.    *)
Unfinished(i) == {d \in Conn : id[d] = i /\ pc[d] \in Cleaning}

Take(i) ==
  /\ id' = [id EXCEPT ![cur] = i]
  /\ mpc' = "construct"
  /\ reissued' = IF Unfinished(i) # {} THEN reissued \cup {cur} ELSE reissued
  /\ UNCHANGED scan

(* Variant of ScanSlot: the bound of the loop is one too far.               *)
ScanSlotTooFar ==
  /\ Up /\ mpc = "scan"
  /\ \/ /\ scan <= MAX_CLIENT /\ cell[ConfAt(scan)] # Null
        /\ scan' = scan + 1
        /\ UNCHANGED <<mpc, id, reissued>>
     \/ scan <= MAX_CLIENT /\ cell[ConfAt(scan)] = Null /\ Take(scan)
     \/ scan > MAX_CLIENT /\ Take(-1)
  /\ UNCHANGED <<memory, pc, peer, cur, mdir, owner, process>>

(* Variant of ScanSlot: a full table yields the last slot.                  *)
ScanSlotClamped ==
  /\ Up /\ mpc = "scan"
  /\ \/ /\ scan < MAX_CLIENT /\ cell[ConfAt(scan)] # Null
        /\ scan' = scan + 1
        /\ UNCHANGED <<mpc, id, reissued>>
     \/ scan < MAX_CLIENT /\ cell[ConfAt(scan)] = Null /\ Take(scan)
     \/ scan = MAX_CLIENT /\ Take(MAX_CLIENT - 1)
  /\ UNCHANGED <<memory, pc, peer, cur, mdir, owner, process>>

(* generate_client_ID() reads conf[scan] and takes the first null slot; the *)
(* scan is not atomic, a slot freed behind it is missed.  With no slot left *)
(* the result is -1, and server_listen() does not look at it.               *)
ScanSlot ==
  /\ Up /\ mpc = "scan"
  /\ \/ /\ scan < MAX_CLIENT /\ cell[ConfAt(scan)] # Null
        /\ scan' = scan + 1
        /\ UNCHANGED <<mpc, id, reissued>>
     \/ scan < MAX_CLIENT /\ cell[ConfAt(scan)] = Null /\ Take(scan)
     \/ scan = MAX_CLIENT /\ Take(-1)
  /\ UNCHANGED <<memory, pc, peer, cur, mdir, owner, process>>

(* conf[client_ID] = new serverSideConfiguration(base_conf, ...): the new   *)
(* object is copied from the one base_conf points to.  With client_ID = -1  *)
(* the assignment replaces base_conf itself.                                *)
NewConf ==
  /\ Up /\ mpc = "construct"
  /\ cell[BaseAt] \in live
  /\ cell' = [cell EXCEPT ![ConfAt(id[cur])] = Conf(cur)]
  /\ live' = live \cup {Conf(cur)}
  /\ Goto(cur, "accepted", "setup")
  /\ mpc' = "mkdir" /\ mdir' = "files"
  /\ UNCHANGED <<id, peer, cur, scan, owner, process, reissued>>

(* The object conf[client_ID] points to is the one the main thread made.    *)
ConfReady == OwnConf(cur)

Dir == <<mdir, id[cur]>>

(* configure_working_dir() is over: on to the archive directory, then to    *)
(* the worker.                                                              *)
NextDir ==
  IF mdir = "files" THEN mpc' = "mkdir" /\ mdir' = "archive"
                    ELSE mpc' = "new_worker" /\ UNCHANGED mdir

(* Variant of Mkdir: a directory that is there already is used as it is.    *)
MkdirKeepsOld ==
  /\ Up /\ mpc = "mkdir" /\ ConfReady
  /\ owner' = IF owner[Dir] = "absent" THEN [owner EXCEPT ![Dir] = cur] ELSE owner
  /\ NextDir
  /\ UNCHANGED <<memory, pc, id, peer, cur, scan, process, reissued>>

(* create_directory(conf[client_ID]->get_..._dir()).                        *)
Mkdir ==
  /\ Up /\ mpc = "mkdir" /\ ConfReady
  /\ \/ /\ owner[Dir] = "absent"
        /\ owner' = [owner EXCEPT ![Dir] = cur]
        /\ NextDir
     \/ /\ owner[Dir] # "absent"
        /\ mpc' = "rmdir"
        /\ UNCHANGED <<owner, mdir>>
  /\ UNCHANGED <<memory, pc, id, peer, cur, scan, process, reissued>>

(* Any error but EEXIST: serverErrorException(WORKINGDIR), main() exits.    *)
MkdirFails ==
  /\ Up /\ mpc = "mkdir" /\ ConfReady /\ "mkdir" \in Faults
  /\ Die("exited") /\ UNCHANGED pc

(* The directory is there already: rm -rf, and create_directory() again.    *)
Rmdir ==
  /\ Up /\ mpc = "rmdir"
  /\ owner' = [owner EXCEPT ![Dir] = "absent"]
  /\ mpc' = "remkdir"
  /\ UNCHANGED <<memory, pc, id, peer, cur, scan, mdir, process, reissued>>

Remkdir ==
  /\ Up /\ mpc = "remkdir"
  /\ owner' = [owner EXCEPT ![Dir] = cur]
  /\ NextDir
  /\ UNCHANGED <<memory, pc, id, peer, cur, scan, process, reissued>>

(* rm or the second mkdir fails: configure_working_dir() returns -1, which  *)
(* server_listen() does not look at, and the session starts without.        *)
RecreateFails ==
  /\ Up
  /\ (mpc = "rmdir" /\ "rm" \in Faults) \/ (mpc = "remkdir" /\ "mkdir" \in Faults)
  /\ NextDir
  /\ UNCHANGED <<memory, pc, id, peer, cur, scan, owner, process, reissued>>

(* worker[client_ID] = new commandHandler(this, conf[client_ID]).           *)
NewWorker ==
  /\ Up /\ mpc = "new_worker" /\ ConfReady
  /\ cell' = [cell EXCEPT ![WorkerAt(id[cur])] = Handler(cur)]
  /\ live' = live \cup {Handler(cur)}
  /\ mpc' = "start"
  /\ UNCHANGED <<pc, id, peer, cur, scan, mdir, owner, process, reissued>>

(* worker[client_ID]->thread_start() reads worker[client_ID] again.         *)
WorkerReady == cell[WorkerAt(id[cur])] = Handler(cur) /\ Handler(cur) \in live

StartThread ==
  /\ Up /\ mpc = "start" /\ WorkerReady
  /\ Goto(cur, "setup", "handshake")
  /\ mpc' = "accept" /\ cur' = "none"
  /\ UNCHANGED <<memory, id, peer, scan, mdir, owner, process, reissued>>

(* pthread_create() fails; nobody looks at the result: the connection keeps *)
(* its slot and is never served.                                            *)
StartThreadFails ==
  /\ Up /\ mpc = "start" /\ WorkerReady /\ "thread" \in Faults
  /\ Goto(cur, "setup", "nothread")
  /\ mpc' = "accept" /\ cur' = "none"
  /\ UNCHANGED <<memory, id, peer, scan, mdir, owner, process, reissued>>

(* The main thread follows a pointer that another thread has spoilt.        *)
MainBadPointer ==
  /\ Up
  /\ \/ mpc = "construct" /\ cell[BaseAt] \notin live /\ BadPointer(cell[BaseAt])
     \/ /\ mpc \in {"mkdir", "new_worker"} /\ ~ConfReady
        /\ BadPointer(cell[ConfAt(id[cur])])
     \/ mpc = "start" /\ ~WorkerReady /\ BadPointer(cell[WorkerAt(id[cur])])
-----------------------------------------------------------------------------
(* A worker thread: commandHandler::handle_command().  What the client sent *)
(* before it closed can still be read, so a closed peer excludes nothing.   *)

Terminate(c, from) ==
  /\ Goto(c, from, "uncaught")
  /\ Die("terminated")

Move(c, from, to) ==
  /\ Up
  /\ Goto(c, from, to)
  /\ UNCHANGED <<memory, id, peer, mainvar, owner, process, reissued>>

(* send_int(client_ID), receive_response(), enable_compressors().           *)
Handshake(c) == Move(c, "handshake", "idle")

(* The one failure handle_command() catches here is transmissionException.  *)
HandshakeTransmissionError(c) ==
  peer[c] = "closed" /\ Move(c, "handshake", "close")

(* receive_response() sees the end of the stream: notConnectedException     *)
(* leaves the thread's function and std::terminate() ends the process.      *)
HandshakeNotConnected(c) ==
  /\ Up /\ peer[c] = "closed"
  /\ Terminate(c, "handshake")

ReceiveCommand(c) == Move(c, "idle", "command")

Quit(c) == Move(c, "idle", "close")

(* receive_command() sees the end of the stream: the loop ends.             *)
IdleEOF(c) == peer[c] = "closed" /\ Move(c, "idle", "close")

(* receive_command() or the reply fails; the handler of that                *)
(* transmissionException sends on the same socket, and its own exception    *)
(* is caught by nobody.                                                     *)
IdleReset(c) ==
  /\ Up /\ peer[c] = "closed"
  /\ Terminate(c, "idle")

(* Variant of CommandEnds: the command frees the configuration it was given.*)
CommandEndsFreesConf(c) ==
  /\ Up
  /\ Goto(c, "command", "idle")
  /\ live' = live \ {Conf(c)}
  /\ UNCHANGED <<cell, id, peer, mainvar, owner, process, reissued>>

(* Variant of CommandEnds: a command that fails leaves the loop.            *)
CommandEndsLoop(c) == Move(c, "command", "idle") \/ Move(c, "command", "close")

(* command_parser() returns, or throws what handle_command() catches.       *)
CommandEnds(c) == Move(c, "command", "idle")

(* A receive of the command sees the end of the stream.                     *)
CommandNotConnected(c) ==
  /\ Up /\ peer[c] = "closed"
  /\ Terminate(c, "command")

(* handle_send() and handle_compress() do not catch the fileException of a  *)
(* stat, an MD5 or an rm, and command_parser() is not allowed to throw it.  *)
CommandFileFails(c) ==
  /\ Up /\ "file" \in Faults
  /\ Terminate(c, "command")

(* The thread runs on members of a handler that another thread destroyed.   *)
UseDestroyed(c) ==
  /\ Up
  /\ pc[c] \in Serving \cup {"close"}
  /\ Handler(c) \notin live
  /\ BadPointer(Handler(c))
-----------------------------------------------------------------------------
(* A worker thread: server::client_disconnect() and free_client_ID().       *)

(* Variant of Close: the slot is given back before the rest is released.    *)
CloseClearsSlot(c) ==
  /\ Up
  /\ Goto(c, "close", "free")
  /\ OwnConf(c)
  /\ cell' = [cell EXCEPT ![ConfAt(id[c])] = Null]
  /\ UNCHANGED <<live, id, peer, mainvar, owner, process, reissued>>

(* conf[id] is followed three times, its socket closed, its names copied.   *)
Close(c) ==
  /\ Move(c, "close", "free")
  /\ OwnConf(c)

(* Variant of Free: the test of the null pointer is the wrong way round.    *)
FreeInverted(c) ==
  /\ Goto(c, "free", "rm_archive")
  /\ cell[ConfAt(id[c])] # Null
  /\ UNCHANGED live
  /\ UNCHANGED <<cell, id, peer, mainvar, owner, process, reissued>>

(* conf[id]->~serverSideConfiguration(), unless conf[id] is null already.   *)
Free(c) ==
  /\ Up
  /\ \/ /\ Goto(c, "free", "rm_archive")
        /\ cell[ConfAt(id[c])] = Null
        /\ UNCHANGED live
     \/ /\ Goto(c, "free", "clear_conf")
        /\ OwnConf(c)
        /\ live' = live \ {Conf(c)}
  /\ UNCHANGED <<cell, id, peer, mainvar, owner, process, reissued>>

(* conf[id] = 0: from here the main thread may give the slot away.          *)
ClearConf(c) ==
  /\ Up
  /\ Goto(c, "clear_conf", "destroy_worker")
  /\ cell' = [cell EXCEPT ![ConfAt(id[c])] = Null]
  /\ UNCHANGED <<live, id, peer, mainvar, owner, process, reissued>>

(* Variant of DestroyWorker: the destructor is not called.                  *)
DestroyWorkerLeaks(c) ==
  /\ Up
  /\ Goto(c, "destroy_worker", "clear_worker")
  /\ UNCHANGED <<memory, id, peer, mainvar, owner, process, reissued>>

(* worker[id]->~commandHandler(): whichever handler is there now; it frees  *)
(* the configuration its session uses.                                      *)
DestroyWorker(c) ==
  /\ Up
  /\ Goto(c, "destroy_worker", "clear_worker")
  /\ \E x \in Conn :
       /\ cell[WorkerAt(id[c])] = Handler(x) /\ Handler(x) \in live
       /\ live' = live \ {Handler(x), Conf(x)}
  /\ UNCHANGED <<cell, id, peer, mainvar, owner, process, reissued>>

(* Variant of ClearWorker: conf[id] is cleared again with worker[id].       *)
ClearWorkerAndConf(c) ==
  /\ Up
  /\ Goto(c, "clear_worker", "rm_archive")
  /\ cell' = [cell EXCEPT ![WorkerAt(id[c])] = Null, ![ConfAt(id[c])] = Null]
  /\ UNCHANGED <<live, id, peer, mainvar, owner, process, reissued>>

(* worker[id] = 0.                                                          *)
ClearWorker(c) ==
  /\ Up
  /\ Goto(c, "clear_worker", "rm_archive")
  /\ cell' = [cell EXCEPT ![WorkerAt(id[c])] = Null]
  /\ UNCHANGED <<live, id, peer, mainvar, owner, process, reissued>>

RmArchive(c) ==
  /\ Up
  /\ Goto(c, "rm_archive", "rm_files")
  /\ owner' = [owner EXCEPT ![<<"archive", id[c]>>] = "absent"]
  /\ UNCHANGED <<memory, id, peer, mainvar, process, reissued>>

RmFiles(c) ==
  /\ Up
  /\ Goto(c, "rm_files", "done")
  /\ owner' = [owner EXCEPT ![<<"files", id[c]>>] = "absent"]
  /\ UNCHANGED <<memory, id, peer, mainvar, process, reissued>>

(* system() itself fails: fileException, client_disconnect() returns.  rm   *)
(* fails: the result of system() is not -1, and nobody notices.             *)
RmFails(c) ==
  /\ "rm" \in Faults
  /\ \/ Move(c, "rm_archive", "rm_files")
     \/ Move(c, "rm_archive", "done")
     \/ Move(c, "rm_files", "done")

(* The releasing thread follows a pointer that is no longer its own.        *)
ReleaseBadPointer(c) ==
  /\ Up
  /\ \/ /\ pc[c] \in {"close", "free"}
        /\ ~OwnConf(c)
        /\ pc[c] = "free" => cell[ConfAt(id[c])] # Null
        /\ BadPointer(cell[ConfAt(id[c])])
     \/ /\ pc[c] = "destroy_worker"
        /\ \A x \in Conn : cell[WorkerAt(id[c])] = Handler(x) => Handler(x) \notin live
        /\ BadPointer(cell[WorkerAt(id[c])])
-----------------------------------------------------------------------------
MainStep ==
  \/ \E c \in Conn : Accept(c)
  \/ ScanSlot
  \/ NewConf
  \/ Mkdir \/ MkdirFails \/ Rmdir \/ Remkdir \/ RecreateFails
  \/ NewWorker
  \/ StartThread \/ StartThreadFails
  \/ MainBadPointer

Serve(c) ==
  \/ Handshake(c) \/ HandshakeTransmissionError(c) \/ HandshakeNotConnected(c)
  \/ ReceiveCommand(c) \/ Quit(c) \/ IdleEOF(c) \/ IdleReset(c)
  \/ CommandEnds(c) \/ CommandNotConnected(c) \/ CommandFileFails(c)
  \/ UseDestroyed(c)

Release(c) ==
  \/ Close(c) \/ Free(c) \/ ClearConf(c)
  \/ DestroyWorker(c) \/ ClearWorker(c)
  \/ RmArchive(c) \/ RmFiles(c) \/ RmFails(c)
  \/ ReleaseBadPointer(c)

Next ==
  \/ \E c \in Conn : Connect(c) \/ PeerCloses(c)
  \/ MainStep \/ AcceptFails
  \/ \E c \in Conn : Serve(c) \/ Release(c)

Spec == Init /\ [][Next]_vars

(* The scheduler runs every thread that can run.  A thread serving a closed *)
(* peer never waits for it: a receive returns what is left, then the end of *)
(* the stream or an error; and what a closed peer sent is finite, so that   *)
(* the end is what receive_command() finds at last.  No failure is ever due.*)
Fairness ==
  /\ WF_vars(MainStep)
  /\ \A c \in Conn :
       /\ WF_vars(Release(c))
       /\ WF_vars(peer[c] = "closed" /\ Serve(c))
       /\ SF_vars(IdleEOF(c) \/ IdleReset(c))

FairSpec == Spec /\ Fairness
-----------------------------------------------------------------------------
(* A connection whose object is in conf[].                                  *)
Holding(c) == pc[c] \in {"setup", "nothread", "uncaught"} \cup Serving \cup Releasing

(* A connection that holds a slot: generate_client_ID() chose it, and its   *)
(* own thread has not yet reached conf[id] = 0.                             *)
HasSlot(c) == (c = cur /\ mpc = "construct") \/ Holding(c)

(* More connections than slots: some were given the index -1.               *)
Overflowed == \E c \in Conn : id[c] = -1

(* Writing worker[-1] spoils conf[MAX_CLIENT - 1], and writing conf[-1]     *)
(* spoils base_conf; the other slots are spared.                            *)
Spared(c) == id[c] \in Slots /\ (Overflowed => id[c] # MAX_CLIENT - 1)

(* The clients numbered by server_listen() differ: whatever the order of    *)
(* the main thread's scan and of the releases, no two connections hold the  *)
(* same entry of conf[] (and so the same directories) at once.              *)
UniqueIDs ==
  \A c, d \in Conn :
    HasSlot(c) /\ HasSlot(d) /\ Spared(c) /\ id[c] = id[d] => c = d

(* While a connection is served, conf[id] and worker[id] are its own and    *)
(* neither object is destroyed by the thread that had the slot before: true *)
(* of every connection whose slot was not taken half released.              *)
SessionOwnsSlot ==
  \A c \in Conn : pc[c] \in Serving \cup {"close"} /\ Spared(c) /\ c \notin reissued =>
    /\ OwnConf(c)
    /\ cell[WorkerAt(id[c])] = Handler(c)
    /\ Handler(c) \in live

(* While a connection is served, the two directories named after its number *)
(* are the ones configure_working_dir() made for it: nothing is left of an  *)
(* earlier client, and no release removes them under it.                    *)
SessionOwnsDirs ==
  \A c \in Conn : pc[c] \in Serving \cup Releasing /\ Spared(c) /\ c \notin reissued =>
    \A d \in DirKinds : owner[<<d, id[c]>>] = c

(* A null or foreign pointer is followed only after a slot was given away   *)
(* while client_disconnect() was still releasing it, or after more clients  *)
(* than slots: nothing else in the process can spoil the tables.            *)
MemoryFaultsExplained ==
  process \in {"segfault", "astray"} => reissued # {} \/ Overflowed

(* conf[id] is put back to null by the thread of the connection it belongs  *)
(* to and by no other, even when slots are reissued half released.          *)
SlotClearedByOwner ==
  [][\A c \in Conn : Spared(c) /\ Spared(c)' /\ OwnConf(c) =>
       cell'[ConfAt(id[c])] = Conf(c) \/ pc[c] = "clear_conf"]_vars

(* After the last connection is released nothing is left of any: the table  *)
(* is empty, every object but base_conf destroyed, the directories removed. *)
QuiescentClean ==
  /\ Up /\ mpc = "accept" /\ ~Overflowed /\ reissued = {}
  /\ \A c \in Conn : pc[c] \in {"new", "backlog", "done"}
  => /\ \A i \in Slots : cell[ConfAt(i)] = Null
     /\ live = {Base}
     /\ \A c \in Conn, d \in DirKinds :
          pc[c] = "done" => owner[<<d, id[c]>>] = "absent"

-----------------------------------------------------------------------------
(* The inductive invariant the safety properties follow from, in parts.     *)

(* The main thread sets up one connection at a time.                        *)
MainInv ==
  /\ (cur = "none") <=> (mpc = "accept")
  /\ mpc \in {"scan", "construct"} => pc[cur] = "accepted"
  /\ mpc \notin {"accept", "scan", "construct"} => pc[cur] = "setup"
  /\ \A c \in Conn : pc[c] \in {"accepted", "setup"} => c = cur

(* A client_ID is given once and kept.                                      *)
IdInv ==
  \A c \in Conn :
    (id[c] = NoId) <=> (pc[c] \in {"new", "backlog"} \/ (pc[c] = "accepted" /\ mpc = "scan"))

(* conf[] and the connections that hold its slots agree.                    *)
ConfInv ==
  /\ \A c \in Conn : Holding(c) /\ Spared(c) => cell[ConfAt(id[c])] = Conf(c)
  /\ mpc = "construct" /\ Spared(cur) => cell[ConfAt(id[cur])] = Null
  /\ ~Overflowed => cell[BaseAt] = Base /\ Base \in live

(* A handler is found in worker[] under the number of its connection.       *)
WorkerInv ==
  \A i \in Ids, x \in Conn : cell[WorkerAt(i)] = Handler(x) => id[x] = i

(* A slot with an unfinished release is held only by a connection that is   *)
(* marked as having got it too early.                                       *)
ReleaseInv ==
  \A c, d \in Conn :
    /\ c # d /\ id[c] = id[d] /\ Spared(c) /\ pc[d] \in Cleaning
    => /\ HasSlot(c) => c \in reissued
       /\ pc[c] \in Cleaning => reissued # {}

(* What a connection with a slot of its own can rely on until its release.  *)
ObjectInv ==
  /\ \A c \in Conn : Spared(c) /\ c \notin reissued =>
       /\ pc[c] \in {"setup", "nothread", "close", "free"} \cup Serving => Conf(c) \in live
       /\ pc[c] \in {"nothread"} \cup Serving \cup Releasing \/ (pc[c] = "setup" /\ mpc = "start")
          => cell[WorkerAt(id[c])] = Handler(c) /\ Handler(c) \in live
  /\ reissued = {} /\ ~Overflowed =>
       \A c \in Conn : pc[c] = "destroy_worker" =>
         cell[WorkerAt(id[c])] = Handler(c) /\ Handler(c) \in live

(* The directories the connection has by now: configure_working_dir() makes *)
(* them one after the other.                                                *)
HasDir(c, d) ==
  \/ pc[c] \in {"nothread"} \cup Serving \cup Releasing
  \/ pc[c] = "setup" /\ mpc \in {"new_worker", "start"}
  \/ pc[c] = "setup" /\ mdir = "archive" /\ d = "files"

DirsWork == Faults \cap {"mkdir", "rm"} = {}

DirInv ==
  DirsWork =>
    \A c \in Conn : Spared(c) /\ c \notin reissued =>
      \A d \in DirKinds : HasDir(c, d) => owner[<<d, id[c]>>] = c

(* No slot and no object is left without a connection that will release it. *)
EmptyInv ==
  reissued = {} /\ ~Overflowed =>
    /\ \A i \in Slots : cell[ConfAt(i)] # Null => \E c \in Conn : Holding(c) /\ id[c] = i
    /\ \A o \in live :
         \/ o = Base
         \/ \E c \in Conn : Holding(c) /\ pc[c] # "clear_conf" /\ o = Conf(c)
         \/ \E c \in Conn : (Holding(c) \/ pc[c] = "destroy_worker") /\ o = Handler(c)

(* Nor is a directory: the next to remove it is at hand.                    *)
LeftInv ==
  DirsWork /\ reissued = {} /\ ~Overflowed =>
    \A c \in Conn :
      /\ pc[c] = "rm_files" => owner[<<"archive", id[c]>>] = "absent"
      /\ pc[c] = "done" => \A d \in DirKinds :
           \/ owner[<<d, id[c]>>] = "absent"
           \/ \E e \in Conn : (Holding(e) \/ pc[e] \in Cleaning) /\ id[e] = id[c]

(* Everything the safety theorems need, and the one of them that speaks of  *)
(* how the process ended.                                                   *)
PoolInv ==
  /\ TypeOK
  /\ MainInv /\ IdInv
  /\ ConfInv /\ WorkerInv
  /\ ReleaseInv /\ ObjectInv
  /\ MemoryFaultsExplained
  /\ DirInv /\ EmptyInv /\ LeftInv

-----------------------------------------------------------------------------
(* What the slots and the memory add is invisible in the stages of Workers: *)
(* every thread passes them in order, and an exception ends the process     *)
(* only where Workers allows it.                                            *)
StageOf(p) ==
  CASE p \in Serving \cup {"uncaught"}                                -> p
    [] p \in Releasing \cup Cleaning \cup {"done"}                    -> "leaving"
    [] p \in {"new", "backlog", "accepted", "setup", "nothread"}       -> "waiting"

Abstract == INSTANCE Workers WITH
  FilesMayFail <- "file" \in Faults,
  stage        <- [c \in Conn |-> StageOf(pc[c])],
  process      <- IF process \in {"up", "terminated"} THEN process ELSE "ended"

ImplementsWorkers == Abstract!Spec

-----------------------------------------------------------------------------
(* A client that goes away, quit or killed, at any moment of its session is *)
(* disconnected: its slot and directories are released, or the process ends.*)
DepartedIsReleased ==
  \A c \in Conn : (pc[c] = "handshake" /\ peer[c] = "closed") ~>
    \/ pc[c] = "done" /\ cell[ConfAt(id[c])] # Conf(c)
    \/ ~Up

(* A queued connection is taken up whatever the served clients do: it gets  *)
(* a thread, unless pthread_create() fails.                                 *)
QueuedIsServed ==
  \A c \in Conn : (pc[c] = "backlog") ~> (pc[c] \in {"handshake", "nothread"} \/ ~Up)

(* main.cpp of the client: "Il massimo numero di client è 16".  No more     *)
(* connections are set up than there are slots.                             *)
AtMostMaxClient == Cardinality({c \in Conn : HasSlot(c)}) <= MAX_CLIENT

(* handle_command(): when the handshake fails the connection is closed      *)
(* ("Chiudo la connessione con il client").                                 *)
HandshakeFailureCloses ==
  [][\A c \in Conn : pc[c] = "handshake" => pc'[c] \in {"handshake", "idle", "close"}]_vars
=============================================================================
