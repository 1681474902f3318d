------------------------------ MODULE FileMessage ------------------------------
(***************************************************************************)
(* What Session takes the transfer of a file for: one message, put whole   *)
(* and taken whole, and an answer that says whether its bytes are the ones *)
(* announced.  The loops of Trunks implement it (see Message there) for    *)
(* every file whose length they can count; of others nothing is promised.  *)
(***************************************************************************)
VARIABLES
  sender,    \* "sending", "sent", "gone", or "beyond" what it can count
  wire,      \* the message: "none", or the bytes it has, "announced" or "other"
  receiver,  \* "waiting", or what it has written: such bytes, or "junk"
  unsteady,  \* the file was changed meanwhile, or is too large to be counted
  verdict    \* "none", and then "ok" or "err"

mvars == <<sender, wire, receiver, unsteady, verdict>>

Init ==
  /\ sender = "sending" /\ wire = "none" /\ receiver = "waiting"
  /\ unsteady \in BOOLEAN
  /\ verdict = "none"

Edit ==
  /\ unsteady' = TRUE
  /\ UNCHANGED <<sender, wire, receiver, verdict>>

(* A length that is announced and cannot be counted.                        *)
Exceed ==
  /\ sender = "sending" /\ unsteady
  /\ sender' = "beyond"
  /\ UNCHANGED <<wire, receiver, unsteady, verdict>>

(* The bytes are the announced ones unless the file was unsteady.           *)
PutFile ==
  /\ sender = "sending"
  /\ sender' = "sent"
  /\ wire' = "announced" \/ (wire' = "other" /\ unsteady)
  /\ UNCHANGED <<receiver, unsteady, verdict>>

(* What is on the connection stays there when the sender's process ends.    *)
SenderEnds ==
  /\ sender \in {"sending", "sent"}
  /\ sender' = "gone"
  /\ UNCHANGED <<wire, receiver, unsteady, verdict>>

TakeFile ==
  /\ receiver = "waiting" /\ wire # "none"
  /\ receiver' = wire
  /\ wire' = "none"
  /\ UNCHANGED <<sender, unsteady, verdict>>

(* The stream ends before the file does.                                    *)
TakeEnd ==
  /\ receiver = "waiting" /\ wire = "none" /\ sender = "gone"
  /\ receiver' = "junk"
  /\ UNCHANGED <<sender, wire, unsteady, verdict>>

Answer ==
  /\ receiver # "waiting" /\ verdict = "none"
  /\ verdict' = IF receiver = "announced" THEN "ok" ELSE "err"
  /\ UNCHANGED <<sender, wire, receiver, unsteady>>

Next == Edit \/ Exceed \/ PutFile \/ SenderEnds \/ TakeFile \/ TakeEnd \/ Answer

Spec == Init /\ [][Next]_mvars
=============================================================================
