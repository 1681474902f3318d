-------------------------------- MODULE Trunks --------------------------------
(***************************************************************************)
(* The transfer of one file, block by block: the loops over NET_TRUNK      *)
(* bytes that do_send() and handle_compress() send with, and that          *)
(* handle_send() and do_compress() receive with.  Each of the four counts  *)
(* in a type of its own, and the length they count to has passed through   *)
(* get_file_len() and receive_int() as an int.                             *)
(*                                                                         *)
(* The bytes on the connection are counted, not listed: the first "good"   *)
(* of those sent are the file's own in their order, the others are what    *)
(* the buffer held when the file had no more to give.                      *)
(***************************************************************************)
EXTENDS Integers

CONSTANTS
  NET_TRUNK,  \* the size of a block
  IntMax,     \* the largest int
  Sizes,      \* the sizes the file may have
  MaxSent     \* bound: how many bytes a sender that does not stop sends

ASSUME TrunkAssumption ==
  /\ NET_TRUNK \in Nat \ {0}
  /\ IntMax \in Nat /\ NET_TRUNK <= IntMax
  /\ Sizes \subseteq Nat
  /\ MaxSent \in Nat

VARIABLES
  command,  \* whose transfer it is: "send" or "compress"
  size,     \* the size of the file now; its bytes before that do not change
  edited,   \* history: whether the size has changed since the command began
  hashed,   \* the size of the file when its MD5 was calculated
  out,      \* the sender: its place, the length, and the variables of its loop
  in,       \* the receiver, in the same way
  sent,     \* the bytes sent
  good,     \* how many of these, from the first, are the file's
  eof,      \* the stream of the file has failed at its end
  taken,    \* the bytes the receiver took from the connection
  junk,     \* the receiver has gone on with what it did not receive
  verdict   \* what the receiver answers: "ok" or "err"

vars == <<command, size, edited, hashed, out, in, sent, good, eof, taken, junk, verdict>>

reading == <<good, eof>>
-----------------------------------------------------------------------------
(* The types of the loops' variables.  A sum that is out of its type goes   *)
(* round: always for unsigned, for int in what the compiler makes of it     *)
(* without optimization.                                                    *)
Word == 2 * (IntMax + 1)

SenderType   == IF command = "send" THEN "int" ELSE "long"
ReceiverType == IF command = "send" THEN "unsigned" ELSE "int"

Largest(type) == IF type = "int" THEN IntMax ELSE Word - 1
Plus(type, n) == IF type # "long" /\ n > Largest(type) THEN n - Word ELSE n

(* Variant of ToInt: half the width.                                        *)
ToIntHalf(n) == n % ((IntMax + 1) \div 2)

(* get_file_len() returns st_size as an int; receive_int() gives an int,    *)
(* which handle_send() keeps in an unsigned.                                *)
ToInt(n) == IF n % Word > IntMax THEN (n % Word) - Word ELSE n % Word
Announced(len) == IF command = "send" /\ len < 0 THEN len + Word ELSE len

(* receive_int() at the end of the stream gives what its variable held.     *)
JunkLengths == IF command = "send" THEN 0 .. Word - 1 ELSE -IntMax - 1 .. IntMax

Loop(len) == [pc |-> "loop", len |-> len, i |-> 0, next |-> 0]

TypeOK ==
  /\ command \in {"send", "compress"}
  /\ size \in Nat /\ hashed \in Nat
  /\ edited \in BOOLEAN /\ eof \in BOOLEAN /\ junk \in BOOLEAN
  /\ out \in [pc : {"stat", "hash", "loop", "wait", "done", "gone"},
              len : Int, i : Int, next : Int]
  /\ in \in [pc : {"idle", "told", "left", "loop", "check", "done"},
             len : Int, i : Int, next : Int]
  /\ sent \in Nat /\ good \in Nat /\ taken \in Nat
  /\ verdict \in {"none", "ok", "err"}

Init ==
  /\ command \in {"send", "compress"}
  /\ size \in Sizes
  /\ edited = FALSE
  /\ hashed = 0
  /\ out = [Loop(0) EXCEPT !.pc = "stat"]
  /\ in = [Loop(0) EXCEPT !.pc = "idle"]
  /\ sent = 0 /\ good = 0 /\ eof = FALSE /\ taken = 0 /\ junk = FALSE
  /\ verdict = "none"

Alive == out.pc # "gone"
Begun == in.pc \in {"loop", "check", "done"}
-----------------------------------------------------------------------------
(* Another program writes to the file or cuts it.                           *)
Edit ==
  /\ out.pc # "done" /\ Alive
  /\ size' \in Sizes \ {size}
  /\ edited' = TRUE
  /\ UNCHANGED <<command, hashed, out, in, sent, reading, taken, junk, verdict>>

(* The sender's process ends, in any place.                                 *)
SenderKilled ==
  /\ Alive /\ out.pc # "done"
  /\ out' = [out EXCEPT !.pc = "gone"]
  /\ UNCHANGED <<command, size, edited, hashed, in, sent, reading, taken, junk, verdict>>

(* The length is read, sent and acknowledged.                               *)
AnnounceLength ==
  /\ out.pc = "stat"
  /\ out' = [out EXCEPT !.pc = "hash", !.len = ToInt(size)]
  /\ in' = [in EXCEPT !.pc = "told", !.len = Announced(ToInt(size))]
  /\ UNCHANGED <<command, size, edited, hashed, sent, reading, taken, junk, verdict>>

(* The MD5 is calculated, sent and acknowledged: both go on to their loops. *)
AnnounceHash ==
  /\ out.pc = "hash"
  /\ hashed' = size
  /\ out' = Loop(out.len)
  /\ in' = Loop(in.len)
  /\ UNCHANGED <<command, size, edited, sent, reading, taken, junk, verdict>>

(* The sender is gone before it has announced both.  The receiver leaves    *)
(* when it cannot send its answer; it goes on to its loop, with an MD5 and, *)
(* unless it was told, a length that nobody sent, when it can.              *)
ReceiverAlone ==
  /\ ~Alive /\ in.pc \in {"idle", "told"}
  /\ \/ in' = [in EXCEPT !.pc = "left"] /\ UNCHANGED junk
     \/ /\ \E len \in (IF in.pc = "told" THEN {in.len} ELSE JunkLengths) : in' = Loop(len)
        /\ junk' = TRUE
  /\ UNCHANGED <<command, size, edited, hashed, out, sent, reading, taken, verdict>>

(* One turn of "while (i <= len)": i is increased first, and with it the    *)
(* turn knows whether this block is the last.                               *)
Turning(side)      == side.pc = "loop" /\ side.i <= side.len
NextI(type, side)  == Plus(type, side.i + NET_TRUNK)

(* Variant of Block: the last block is what is left after i.                *)
BlockAfterI(type, side) ==
  IF NextI(type, side) > side.len THEN side.len - NextI(type, side) ELSE NET_TRUNK

Block(type, side)  == IF NextI(type, side) > side.len THEN side.len - side.next ELSE NET_TRUNK

(* Variant of Turned: next is forgotten.                                    *)
TurnedStaleNext(type, side) == [side EXCEPT !.i = NextI(type, side)]

Turned(type, side) == [side EXCEPT !.i = NextI(type, side), !.next = NextI(type, side)]

(* read_trunk(): n bytes of the file, or what there is of them; from then   *)
(* on the stream gives none.                                                *)
ReadTrunk(n) ==
  /\ good' = IF eof \/ size < sent THEN good
             ELSE IF size < sent + n THEN size
             ELSE sent + n
  /\ eof' = (eof \/ size < sent + n)

SendTrunk ==
  /\ Turning(out)
  /\ LET n == Block(SenderType, out)
     IN  /\ sent + n <= MaxSent
         /\ ReadTrunk(n)
         /\ sent' = sent + n
  /\ out' = Turned(SenderType, out)
  /\ UNCHANGED <<command, size, edited, hashed, in, taken, junk, verdict>>

SendEnds ==
  /\ out.pc = "loop" /\ ~Turning(out)
  /\ out' = [out EXCEPT !.pc = "wait"]
  /\ UNCHANGED <<command, size, edited, hashed, in, sent, reading, taken, junk, verdict>>

(* Variant of ReceiveTrunk: the last block is awaited whole too.            *)
ReceiveWholeTrunk ==
  /\ Turning(in)
  /\ \/ /\ sent - taken >= NET_TRUNK
        /\ taken' = taken + NET_TRUNK
        /\ UNCHANGED junk
     \/ /\ sent - taken < NET_TRUNK /\ ~Alive
        /\ taken' = sent
        /\ junk' = TRUE
  /\ in' = Turned(ReceiverType, in)
  /\ UNCHANGED <<command, size, edited, hashed, out, sent, reading, verdict>>

(* receive_file() waits for all the bytes of the block, or for the end of   *)
(* the stream; append_trunk() writes the whole block in either case.        *)
ReceiveTrunk ==
  /\ Turning(in)
  /\ LET n == Block(ReceiverType, in)
     IN  \/ /\ sent - taken >= n
            /\ taken' = taken + n
            /\ UNCHANGED junk
         \/ /\ sent - taken < n /\ ~Alive
            /\ taken' = sent
            /\ junk' = TRUE
  /\ in' = Turned(ReceiverType, in)
  /\ UNCHANGED <<command, size, edited, hashed, out, sent, reading, verdict>>

ReceiveEnds ==
  /\ in.pc = "loop" /\ ~Turning(in)
  /\ in' = [in EXCEPT !.pc = "check"]
  /\ UNCHANGED <<command, size, edited, hashed, out, sent, reading, taken, junk, verdict>>

(* What was written has the MD5 that was announced.                         *)
Intact == ~junk /\ taken <= good /\ taken = hashed

CheckMD5 ==
  /\ in.pc = "check"
  /\ verdict' = IF Intact THEN "ok" ELSE "err"
  /\ in' = [in EXCEPT !.pc = "done"]
  /\ UNCHANGED <<command, size, edited, hashed, out, sent, reading, taken, junk>>

ReceiveVerdict ==
  /\ out.pc = "wait" /\ in.pc = "done"
  /\ out' = [out EXCEPT !.pc = "done"]
  /\ UNCHANGED <<command, size, edited, hashed, in, sent, reading, taken, junk, verdict>>
-----------------------------------------------------------------------------
Sender   == AnnounceLength \/ AnnounceHash \/ SendTrunk \/ SendEnds \/ ReceiveVerdict
Receiver == ReceiverAlone \/ ReceiveTrunk \/ ReceiveEnds \/ CheckMD5
Next     == Sender \/ Receiver \/ Edit \/ SenderKilled

Spec == Init /\ [][Next]_vars

(* Two threads of two processes: each goes on while it can.                 *)
FairSpec == Spec /\ WF_vars(Sender) /\ WF_vars(Receiver)
-----------------------------------------------------------------------------
(* The lengths both loops can count to: adding a block to one of them is    *)
(* still an int, and handle_send() does not take a negative one for a large *)
(* one.  Files below 2 GB less one block have such a length.                *)
Countable(len) ==
  /\ len + NET_TRUNK <= IntMax
  /\ command = "send" => len >= 0

(* What both sides have agreed to transfer.                                 *)
Agreed == IF out.len < 0 THEN 0 ELSE out.len

(* No block is longer than the buffer of NET_TRUNK bytes, nor negative: for *)
(* every length, even where the counters go round.                          *)
BlocksFit ==
  /\ Turning(out) => Block(SenderType, out) \in 0 .. NET_TRUNK
  /\ Turning(in)  => Block(ReceiverType, in) \in 0 .. NET_TRUNK

(* Whatever happens to the file meanwhile, the receiver takes from the      *)
(* connection the bytes that the sender puts there, no fewer and no more:   *)
(* the next message is found where it begins.                               *)
StreamAligned ==
  in.pc \in {"check", "done"} /\ Alive /\ Countable(out.len) =>
    sent = Agreed /\ taken = Agreed

(* A file that is left alone and whose size is countable arrives: no block  *)
(* is lost, repeated or cut at a multiple of NET_TRUNK, at zero bytes or at *)
(* one byte more.                                                           *)
FileArrives ==
  verdict = "err" /\ Alive => edited \/ size + NET_TRUNK > IntMax

(* The blocks of a file are one message: it is on the connection when the   *)
(* last byte is, and taken when the receiver's last turn is over, which     *)
(* finds all of it there, or a sender that is gone.  The answer is "ok"     *)
(* only for the bytes announced, and always for those of a file that is     *)
(* countable and left alone: also where the sender's process ends between   *)
(* its last block and the answer.                                           *)
Fits     == 0 <= out.len /\ out.len + NET_TRUNK <= IntMax
AllSent  == Begun /\ ~junk /\ sent = out.len
AllTaken == Begun /\ in.i > in.len
Bytes    == IF sent <= good /\ sent = hashed THEN "announced" ELSE "other"

Message == INSTANCE FileMessage WITH
  sender   <- IF ~Fits THEN "beyond" ELSE IF ~Alive THEN "gone"
              ELSE IF AllSent THEN "sent" ELSE "sending",
  wire     <- IF Fits /\ AllSent /\ ~AllTaken THEN Bytes ELSE "none",
  receiver <- IF ~Fits \/ ~AllTaken THEN "waiting"
              ELSE IF AllSent THEN Bytes ELSE "junk",
  unsteady <- edited \/ size + NET_TRUNK > IntMax,
  verdict  <- IF Fits THEN verdict ELSE "none"

ImplementsMessage == Message!Spec

(* Both loops come to an end.  So does the receiver's when the sender is    *)
(* gone, for every length its own counter can count to and also for one     *)
(* that nobody sent: up to 4 GB of junk are then written, and only the      *)
(* lengths beyond keep it turning for ever.                                 *)
LoopsEnd ==
  /\ (out.pc = "loop" /\ Countable(out.len)) ~> out.pc # "loop"
  /\ (in.pc = "loop" /\ Countable(in.len)) ~> in.pc # "loop"
  /\ (in.pc = "loop" /\ ~Alive /\ in.len + NET_TRUNK <= Largest(ReceiverType))
       ~> in.pc # "loop"
=============================================================================
