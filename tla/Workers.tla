-------------------------------- MODULE Workers --------------------------------
(***************************************************************************)
(* What compressor-server promises about its worker threads, and no more:  *)
(* the order of the stages of commandHandler::handle_command(), and which  *)
(* of them may end the whole process.  ServerPool keeps the slots and the  *)
(* memory behind these stages, Session the conversation of one client;     *)
(* both implement this module, so that what ServerPool assumes of a        *)
(* conversation is what Session makes of it.                               *)
(***************************************************************************)
CONSTANTS
  Conn,          \* the connections opened during the life of the server
  FilesMayFail   \* whether a stat, an MD5, an rm or an open of a command may fail

VARIABLES
  stage,   \* where the thread of each connection is
  peer,    \* whether the client's end of each connection is open
  process  \* "up", "terminated" by an exception of a worker, "ended" otherwise

wvars == <<stage, peer, process>>

(* "waiting" has no thread yet, "leaving" has left the loop of commands.    *)
Init ==
  /\ stage \in [Conn -> {"waiting", "handshake"}]
  /\ peer = [c \in Conn |-> "open"]
  /\ process = "up"

Moves(c, from, to) ==
  /\ process = "up"
  /\ stage[c] = from
  /\ stage' = [stage EXCEPT ![c] = to]
  /\ UNCHANGED <<peer, process>>

Start(c)   == Moves(c, "waiting", "handshake")
Greet(c)   == Moves(c, "handshake", "idle")
Receive(c) == Moves(c, "idle", "command")
Finish(c)  == Moves(c, "command", "idle")

(* The thread goes on to client_disconnect(): from the loop of commands, or *)
(* from a handshake whose client is gone.                                   *)
Leave(c) ==
  \/ Moves(c, "idle", "leaving")
  \/ peer[c] = "closed" /\ Moves(c, "handshake", "leaving")

PeerCloses(c) ==
  /\ peer[c] = "open"
  /\ peer' = [peer EXCEPT ![c] = "closed"]
  /\ UNCHANGED <<stage, process>>

(* An exception leaves the thread: only where the client is gone, or where  *)
(* a command meets a file it cannot open, read or delete.                   *)
Terminate(c) ==
  /\ process = "up"
  /\ \/ stage[c] \in {"handshake", "idle", "command"} /\ peer[c] = "closed"
     \/ stage[c] = "command" /\ FilesMayFail
  /\ stage' = [stage EXCEPT ![c] = "uncaught"]
  /\ process' = "terminated"
  /\ UNCHANGED peer

(* The process ends for a reason that is no worker's exception.             *)
ProcessEnds ==
  /\ process = "up"
  /\ process' = "ended"
  /\ UNCHANGED <<stage, peer>>

Next ==
  \/ \E c \in Conn :
       \/ Start(c) \/ Greet(c) \/ Receive(c) \/ Finish(c) \/ Leave(c)
       \/ PeerCloses(c) \/ Terminate(c)
  \/ ProcessEnds

Spec == Init /\ [][Next]_wvars
=============================================================================
