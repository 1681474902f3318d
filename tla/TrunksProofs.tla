----------------------------- MODULE TrunksProofs -----------------------------
(***************************************************************************)
(* What holds of the block loops of Trunks for every size of block, every  *)
(* width of int and every size of file.                                    *)
(***************************************************************************)
EXTENDS Trunks, TLAPS

(* A size that is an int comes back from ToInt as it was; any other comes   *)
(* back as some number.                                                     *)
LEMMA ToIntOfSize ==
  ASSUME NEW n \in Nat
  PROVE  ToInt(n) \in Int /\ (n <= IntMax => ToInt(n) = n)
<1> DEFINE w == 2 * (IntMax + 1)
<1>1. w \in Nat /\ w > 0 /\ IntMax < w
  BY TrunkAssumption
<1>2. n % w \in Nat
  BY <1>1
<1>3. n <= IntMax => n % w = n
  BY <1>1, TrunkAssumption
<1>4. QED
  BY <1>1, <1>2, <1>3, TrunkAssumption DEF ToInt, Word

LEMMA TypesOfLoops ==
  /\ SenderType \in {"int", "long"}
  /\ ReceiverType \in {"int", "unsigned"}
BY DEF SenderType, ReceiverType

(* One turn of a loop whose next has followed its i: the block fits, and    *)
(* where no sum leaves its type the place of the loop moves with the bytes. *)
LEMMA OneTurn ==
  ASSUME NEW type \in {"int", "unsigned", "long"}, NEW P,
         NEW side \in [pc : P, len : Int, i : Int, next : Int],
         side.next = side.i, Turning(side)
  PROVE  /\ Block(type, side) \in 0 .. NET_TRUNK
         /\ Turned(type, side) \in [pc : P, len : Int, i : Int, next : Int]
         /\ Turned(type, side).pc = side.pc
         /\ Turned(type, side).len = side.len
         /\ Turned(type, side).next = Turned(type, side).i
         /\ 0 <= side.i /\ side.len + NET_TRUNK <= IntMax =>
              /\ 0 <= Turned(type, side).i
              /\ side.i + Block(type, side) =
                   IF Turned(type, side).i <= side.len
                   THEN Turned(type, side).i ELSE side.len
<1> DEFINE j == NextI(type, side)
<1>1. NET_TRUNK \in Nat /\ NET_TRUNK > 0 /\ IntMax \in Nat /\ NET_TRUNK <= IntMax
  BY TrunkAssumption
<1>2. j \in Int /\ (j = side.i + NET_TRUNK \/ j < side.i)
  BY <1>1 DEF NextI, Plus, Largest, Word, Turning
<1>3. Turned(type, side) = [side EXCEPT !.i = j, !.next = j]
  BY DEF Turned
<1>4. Block(type, side) = IF j > side.len THEN side.len - side.i ELSE NET_TRUNK
  BY DEF Block
<1>5. side.len + NET_TRUNK <= IntMax => j = side.i + NET_TRUNK
  BY <1>1 DEF NextI, Plus, Largest, Word, Turning
<1> HIDE DEF j
<1>6. Block(type, side) \in 0 .. NET_TRUNK
  BY <1>1, <1>2, <1>4 DEF Turning
<1>7. Turned(type, side) \in [pc : P, len : Int, i : Int, next : Int]
  BY <1>2, <1>3
<1>8. /\ Turned(type, side).pc = side.pc
      /\ Turned(type, side).len = side.len
      /\ Turned(type, side).i = j
      /\ Turned(type, side).next = j
  BY <1>3
<1>9. side.len + NET_TRUNK <= IntMax =>
        side.i + Block(type, side) = IF j <= side.len THEN j ELSE side.len
  BY <1>1, <1>2, <1>4, <1>5
<1>10. 0 <= side.i /\ side.len + NET_TRUNK <= IntMax => 0 <= j
  BY <1>1, <1>5
<1>11. QED
  BY <1>6, <1>7, <1>8, <1>9, <1>10
-----------------------------------------------------------------------------
(* The invariant.  Before its loop the receiver has taken nothing and the   *)
(* sender has sent nothing; both loops start together, with one length,     *)
(* unless the receiver goes on alone.                                       *)
Together ==
  /\ out.pc = "stat" => in.pc = "idle"
  /\ out.pc = "hash" => in.pc = "told"
  /\ out.pc \in {"loop", "wait", "done"} => Begun
  /\ ~Begun => sent = 0 /\ taken = 0 /\ good = 0 /\ ~eof /\ verdict = "none"
  /\ in.pc = "told" \/ (Begun /\ ~junk) => in.len = Announced(out.len)

(* next follows i on both sides, and the receiver is never ahead.           *)
InStep ==
  /\ out.next = out.i /\ in.next = in.i
  /\ taken <= sent
  /\ Alive => ~junk

(* Where a loop has come to, in bytes.                                      *)
Place(side) == IF side.i <= side.len THEN side.i ELSE Agreed

Counted ==
  Alive /\ Countable(out.len) =>
    /\ out.pc = "loop" => 0 <= out.i /\ sent = Place(out)
    /\ out.pc \in {"wait", "done"} => sent = Agreed
    /\ in.pc = "loop" => 0 <= in.i /\ taken = Place(in)
    /\ in.pc \in {"check", "done"} => taken = Agreed

(* A file left alone is the one whose length and MD5 were announced, and    *)
(* every byte sent is its own.                                              *)
Followed ==
  Alive /\ ~edited /\ size + NET_TRUNK <= IntMax =>
    /\ out.pc # "stat" => out.len = size
    /\ out.pc \notin {"stat", "hash"} => hashed = size
    /\ ~eof /\ good = sent
    /\ verdict # "err"

IInv == TypeOK /\ Together /\ InStep /\ Counted /\ Followed

LEMMA InvInit == Init => IInv
<1> SUFFICES ASSUME Init PROVE IInv
  OBVIOUS
<1>1. /\ out = [pc |-> "stat", len |-> 0, i |-> 0, next |-> 0]
      /\ in = [pc |-> "idle", len |-> 0, i |-> 0, next |-> 0]
  BY DEF Init, Loop
<1>2. TypeOK
  <2>1. /\ out \in [pc : {"stat", "hash", "loop", "wait", "done", "gone"},
                   len : Int, i : Int, next : Int]
        /\ in \in [pc : {"idle", "told", "left", "loop", "check", "done"},
               len : Int, i : Int, next : Int]
    BY <1>1
  <2>2. size \in Nat
    BY TrunkAssumption DEF Init
  <2> QED
    BY <2>1, <2>2 DEF Init, TypeOK
<1>3. Together /\ InStep /\ Counted /\ Followed
  BY <1>1 DEF Init, Together, Begun, InStep, Counted, Followed, Alive
<1> QED
  BY <1>2, <1>3 DEF IInv

LEMMA InvStep == IInv /\ [Next]_vars => IInv'
<1> SUFFICES ASSUME IInv, [Next]_vars PROVE IInv'
  OBVIOUS
<1> USE TrunkAssumption DEF IInv
<1>1. CASE Edit
  <2>1. TypeOK'
    BY <1>1 DEF Edit, TypeOK, Together, Begun, InStep, Counted, Followed, Alive, Countable, Agreed, Place, Announced, reading
  <2>2. Together'
    BY <1>1 DEF Edit, TypeOK, Together, Begun, InStep, Counted, Followed, Alive, Countable, Agreed, Place, Announced, reading
  <2>3. InStep'
    BY <1>1 DEF Edit, TypeOK, Together, Begun, InStep, Counted, Followed, Alive, Countable, Agreed, Place, Announced, reading
  <2>4. Counted'
    BY <1>1 DEF Edit, TypeOK, Together, Begun, InStep, Counted, Followed, Alive, Countable, Agreed, Place, Announced, reading
  <2>5. Followed'
    BY <1>1 DEF Edit, TypeOK, Together, Begun, InStep, Counted, Followed, Alive, Countable, Agreed, Place, Announced, reading
  <2> QED
    BY <2>1, <2>2, <2>3, <2>4, <2>5
<1>2. CASE SenderKilled
  <2>1. TypeOK'
    BY <1>2 DEF SenderKilled, TypeOK, Together, Begun, InStep, Counted, Followed, Alive, Countable, Agreed, Place, Announced, reading
  <2>2. Together'
    BY <1>2 DEF SenderKilled, TypeOK, Together, Begun, InStep, Counted, Followed, Alive, Countable, Agreed, Place, Announced, reading
  <2>3. InStep'
    BY <1>2 DEF SenderKilled, TypeOK, Together, Begun, InStep, Counted, Followed, Alive, Countable, Agreed, Place, Announced, reading
  <2>4. Counted'
    BY <1>2 DEF SenderKilled, TypeOK, Together, Begun, InStep, Counted, Followed, Alive, Countable, Agreed, Place, Announced, reading
  <2>5. Followed'
    BY <1>2 DEF SenderKilled, TypeOK, Together, Begun, InStep, Counted, Followed, Alive, Countable, Agreed, Place, Announced, reading
  <2> QED
    BY <2>1, <2>2, <2>3, <2>4, <2>5
<1>3. CASE AnnounceLength
  <2>1. TypeOK'
    <3>1. ToInt(size) \in Int /\ size \in Nat
      BY ToIntOfSize DEF TypeOK
    <3>2. Announced(ToInt(size)) \in Int
      BY <3>1 DEF Announced, Word
    <3>3. /\ out' \in [pc : {"stat", "hash", "loop", "wait", "done", "gone"},
                       len : Int, i : Int, next : Int]
          /\ in' \in [pc : {"idle", "told", "left", "loop", "check", "done"},
                      len : Int, i : Int, next : Int]
      BY <1>3, <3>1, <3>2 DEF AnnounceLength, TypeOK
    <3> QED
      BY <1>3, <3>3 DEF AnnounceLength, TypeOK, reading
  <2>2. Together'
    BY <1>3, ToIntOfSize DEF AnnounceLength, TypeOK, Together, Begun, InStep, Counted, Followed, Alive, Countable, Agreed, Place, Announced, reading
  <2>3. InStep'
    BY <1>3, ToIntOfSize DEF AnnounceLength, TypeOK, Together, Begun, InStep, Counted, Followed, Alive, Countable, Agreed, Place, Announced, reading
  <2>4. Counted'
    BY <1>3, ToIntOfSize DEF AnnounceLength, TypeOK, Together, Begun, InStep, Counted, Followed, Alive, Countable, Agreed, Place, Announced, reading
  <2>5. Followed'
    BY <1>3, ToIntOfSize DEF AnnounceLength, TypeOK, Together, Begun, InStep, Counted, Followed, Alive, Countable, Agreed, Place, Announced, reading
  <2> QED
    BY <2>1, <2>2, <2>3, <2>4, <2>5
<1>4. CASE AnnounceHash
  <2>1. TypeOK'
    BY <1>4 DEF AnnounceHash, TypeOK, Together, Begun, InStep, Counted, Followed, Alive, Countable, Agreed, Place, Announced, reading, Loop
  <2>2. Together'
    BY <1>4 DEF AnnounceHash, TypeOK, Together, Begun, InStep, Counted, Followed, Alive, Countable, Agreed, Place, Announced, reading, Loop
  <2>3. InStep'
    BY <1>4 DEF AnnounceHash, TypeOK, Together, Begun, InStep, Counted, Followed, Alive, Countable, Agreed, Place, Announced, reading, Loop
  <2>4. Counted'
    BY <1>4 DEF AnnounceHash, TypeOK, Together, Begun, InStep, Counted, Followed, Alive, Countable, Agreed, Place, Announced, reading, Loop
  <2>5. Followed'
    BY <1>4 DEF AnnounceHash, TypeOK, Together, Begun, InStep, Counted, Followed, Alive, Countable, Agreed, Place, Announced, reading, Loop
  <2> QED
    BY <2>1, <2>2, <2>3, <2>4, <2>5
<1>5. CASE SendTrunk
  <2> DEFINE n == Block(SenderType, out)
             t == Turned(SenderType, out)
             Ps == {"stat", "hash", "loop", "wait", "done", "gone"}
  <2>1. Turning(out) /\ out.pc = "loop"
    BY <1>5 DEF SendTrunk, Turning
  <2>2. /\ n \in 0 .. NET_TRUNK
        /\ t \in [pc : Ps, len : Int, i : Int, next : Int]
        /\ t.pc = "loop" /\ t.len = out.len /\ t.next = t.i
        /\ 0 <= out.i /\ out.len + NET_TRUNK <= IntMax =>
             /\ 0 <= t.i
             /\ out.i + n = IF t.i <= out.len THEN t.i ELSE out.len
    <3> DEFINE y == SenderType
    <3>1. y \in {"int", "unsigned", "long"}
      BY TypesOfLoops
    <3>2. out \in [pc : Ps, len : Int, i : Int, next : Int] /\ out.next = out.i
      BY DEF TypeOK, InStep
    <3> QED
      BY <2>1, <3>1, <3>2, OneTurn, ZenonT(60)
  <2>3. /\ out' = t /\ sent' = sent + n
        /\ good' = IF eof \/ size < sent THEN good
                   ELSE IF size < sent + n THEN size ELSE sent + n
        /\ eof' = (eof \/ size < sent + n)
        /\ UNCHANGED <<command, size, edited, hashed, in, taken, junk, verdict>>
    BY <1>5 DEF SendTrunk, ReadTrunk
  <2> HIDE DEF n, t
  <2>4. TypeOK'
    BY <2>1, <2>2, <2>3 DEF TypeOK, Together, Begun, InStep, Counted, Followed, Alive, Countable, Agreed, Place, Announced, Turning, reading
  <2>5. Together'
    BY <2>1, <2>2, <2>3 DEF TypeOK, Together, Begun, InStep, Counted, Followed, Alive, Countable, Agreed, Place, Announced, Turning, reading
  <2>6. InStep'
    BY <2>1, <2>2, <2>3 DEF TypeOK, Together, Begun, InStep, Counted, Followed, Alive, Countable, Agreed, Place, Announced, Turning, reading
  <2>7. Counted'
    BY <2>1, <2>2, <2>3 DEF TypeOK, Together, Begun, InStep, Counted, Followed, Alive, Countable, Agreed, Place, Announced, Turning, reading
  <2>8. Followed'
    BY <2>1, <2>2, <2>3 DEF TypeOK, Together, Begun, InStep, Counted, Followed, Alive, Countable, Agreed, Place, Announced, Turning, reading
  <2> QED
    BY <2>4, <2>5, <2>6, <2>7, <2>8
<1>6. CASE SendEnds
  <2>1. TypeOK'
    BY <1>6 DEF SendEnds, TypeOK, Together, Begun, InStep, Counted, Followed, Alive, Countable, Agreed, Place, Announced, reading, Turning
  <2>2. Together'
    BY <1>6 DEF SendEnds, TypeOK, Together, Begun, InStep, Counted, Followed, Alive, Countable, Agreed, Place, Announced, reading, Turning
  <2>3. InStep'
    BY <1>6 DEF SendEnds, TypeOK, Together, Begun, InStep, Counted, Followed, Alive, Countable, Agreed, Place, Announced, reading, Turning
  <2>4. Counted'
    BY <1>6 DEF SendEnds, TypeOK, Together, Begun, InStep, Counted, Followed, Alive, Countable, Agreed, Place, Announced, reading, Turning
  <2>5. Followed'
    BY <1>6 DEF SendEnds, TypeOK, Together, Begun, InStep, Counted, Followed, Alive, Countable, Agreed, Place, Announced, reading, Turning
  <2> QED
    BY <2>1, <2>2, <2>3, <2>4, <2>5
<1>7. CASE ReceiveTrunk
  <2> DEFINE n == Block(ReceiverType, in)
             t == Turned(ReceiverType, in)
             Ps == {"idle", "told", "left", "loop", "check", "done"}
  <2>1. Turning(in) /\ in.pc = "loop"
    BY <1>7 DEF ReceiveTrunk, Turning
  <2>2. /\ n \in 0 .. NET_TRUNK
        /\ t \in [pc : Ps, len : Int, i : Int, next : Int]
        /\ t.pc = "loop" /\ t.len = in.len /\ t.next = t.i
        /\ 0 <= in.i /\ in.len + NET_TRUNK <= IntMax =>
             /\ 0 <= t.i
             /\ in.i + n = IF t.i <= in.len THEN t.i ELSE in.len
    <3> DEFINE y == ReceiverType
    <3>1. y \in {"int", "unsigned", "long"}
      BY TypesOfLoops
    <3>2. in \in [pc : Ps, len : Int, i : Int, next : Int] /\ in.next = in.i
      BY DEF TypeOK, InStep
    <3> QED
      BY <2>1, <3>1, <3>2, OneTurn, ZenonT(60)
  <2>3. /\ in' = t
        /\ \/ sent - taken >= n /\ taken' = taken + n /\ UNCHANGED junk
           \/ ~Alive /\ taken' = sent /\ junk' = TRUE
        /\ UNCHANGED <<command, size, edited, hashed, out, sent, reading, verdict>>
    BY <1>7 DEF ReceiveTrunk
  <2> HIDE DEF n, t
  <2>4. TypeOK'
    <3>1. n \in Nat
      BY <2>2
    <3>2. taken \in Nat /\ sent \in Nat /\ junk \in BOOLEAN
      BY DEF TypeOK
    <3>3. taken' = taken + n \/ taken' = sent
      BY <2>3
    <3>4. taken' \in Nat
      BY <3>1, <3>2, <3>3
    <3>5. junk' \in BOOLEAN
      BY <2>3, <3>2
    <3>6. in' \in [pc : {"idle", "told", "left", "loop", "check", "done"},
                  len : Int, i : Int, next : Int]
      BY <2>2, <2>3 DEF Ps
    <3> QED
      BY <2>3, <3>4, <3>5, <3>6 DEF TypeOK, reading
  <2>5. Together'
    BY <2>1, <2>2, <2>3 DEF TypeOK, Together, Begun, InStep, Counted, Followed, Alive, Countable, Agreed, Place, Announced, Turning, reading
  <2>6. InStep'
    BY <2>1, <2>2, <2>3 DEF TypeOK, Together, Begun, InStep, Counted, Followed, Alive, Countable, Agreed, Place, Announced, Turning, reading
  <2>7. Counted'
    BY <2>1, <2>2, <2>3 DEF TypeOK, Together, Begun, InStep, Counted, Followed, Alive, Countable, Agreed, Place, Announced, Turning, reading
  <2>8. Followed'
    BY <2>1, <2>2, <2>3 DEF TypeOK, Together, Begun, InStep, Counted, Followed, Alive, Countable, Agreed, Place, Announced, Turning, reading
  <2> QED
    BY <2>4, <2>5, <2>6, <2>7, <2>8
<1>8. CASE ReceiveEnds
  <2>1. TypeOK'
    BY <1>8 DEF ReceiveEnds, TypeOK, Together, Begun, InStep, Counted, Followed, Alive, Countable, Agreed, Place, Announced, reading, Turning
  <2>2. Together'
    BY <1>8 DEF ReceiveEnds, TypeOK, Together, Begun, InStep, Counted, Followed, Alive, Countable, Agreed, Place, Announced, reading, Turning
  <2>3. InStep'
    BY <1>8 DEF ReceiveEnds, TypeOK, Together, Begun, InStep, Counted, Followed, Alive, Countable, Agreed, Place, Announced, reading, Turning
  <2>4. Counted'
    BY <1>8 DEF ReceiveEnds, TypeOK, Together, Begun, InStep, Counted, Followed, Alive, Countable, Agreed, Place, Announced, reading, Turning
  <2>5. Followed'
    BY <1>8 DEF ReceiveEnds, TypeOK, Together, Begun, InStep, Counted, Followed, Alive, Countable, Agreed, Place, Announced, reading, Turning
  <2> QED
    BY <2>1, <2>2, <2>3, <2>4, <2>5
<1>9. CASE CheckMD5
  <2>1. TypeOK'
    BY <1>9 DEF CheckMD5, TypeOK, Together, Begun, InStep, Counted, Followed, Alive, Countable, Agreed, Place, Announced, reading, Intact
  <2>2. Together'
    BY <1>9 DEF CheckMD5, TypeOK, Together, Begun, InStep, Counted, Followed, Alive, Countable, Agreed, Place, Announced, reading, Intact
  <2>3. InStep'
    BY <1>9 DEF CheckMD5, TypeOK, Together, Begun, InStep, Counted, Followed, Alive, Countable, Agreed, Place, Announced, reading, Intact
  <2>4. Counted'
    BY <1>9 DEF CheckMD5, TypeOK, Together, Begun, InStep, Counted, Followed, Alive, Countable, Agreed, Place, Announced, reading, Intact
  <2>5. Followed'
    BY <1>9 DEF CheckMD5, TypeOK, Together, Begun, InStep, Counted, Followed, Alive, Countable, Agreed, Place, Announced, reading, Intact
  <2> QED
    BY <2>1, <2>2, <2>3, <2>4, <2>5
<1>10. CASE ReceiveVerdict
  <2>1. TypeOK'
    BY <1>10 DEF ReceiveVerdict, TypeOK, Together, Begun, InStep, Counted, Followed, Alive, Countable, Agreed, Place, Announced, reading
  <2>2. Together'
    BY <1>10 DEF ReceiveVerdict, TypeOK, Together, Begun, InStep, Counted, Followed, Alive, Countable, Agreed, Place, Announced, reading
  <2>3. InStep'
    BY <1>10 DEF ReceiveVerdict, TypeOK, Together, Begun, InStep, Counted, Followed, Alive, Countable, Agreed, Place, Announced, reading
  <2>4. Counted'
    BY <1>10 DEF ReceiveVerdict, TypeOK, Together, Begun, InStep, Counted, Followed, Alive, Countable, Agreed, Place, Announced, reading
  <2>5. Followed'
    BY <1>10 DEF ReceiveVerdict, TypeOK, Together, Begun, InStep, Counted, Followed, Alive, Countable, Agreed, Place, Announced, reading
  <2> QED
    BY <2>1, <2>2, <2>3, <2>4, <2>5
<1>11. CASE ReceiverAlone
  <2>1. /\ UNCHANGED <<command, size, edited, hashed, out, sent, good, eof, taken, verdict>>
        /\ ~Alive /\ ~Alive' /\ ~Begun
    BY <1>11 DEF ReceiverAlone, reading, Alive, Begun
  <2>2. in'.next = in'.i /\ junk' \in BOOLEAN
        /\ in' \in [pc : {"idle", "told", "left", "loop", "check", "done"},
                  len : Int, i : Int, next : Int]
        /\ (in'.pc = "left" \/ (in'.pc = "loop" /\ junk'))
    <3>1. CASE in' = [in EXCEPT !.pc = "left"] /\ UNCHANGED junk
      BY <3>1 DEF TypeOK, InStep
    <3>2. ASSUME NEW len \in (IF in.pc = "told" THEN {in.len} ELSE JunkLengths),
                 in' = Loop(len), junk' = TRUE
          PROVE  in'.next = in'.i /\ junk' \in BOOLEAN
                 /\ in' \in [pc : {"idle", "told", "left", "loop", "check", "done"},
                           len : Int, i : Int, next : Int]
                 /\ (in'.pc = "left" \/ (in'.pc = "loop" /\ junk'))
      <4>1. len \in Int
        BY <3>2 DEF JunkLengths, Word, TypeOK
      <4> QED
        BY <3>2, <4>1 DEF Loop
    <3> QED
      BY <1>11, <3>1, <3>2 DEF ReceiverAlone
  <2>3. TypeOK'
    BY <2>1, <2>2 DEF TypeOK
  <2>4. Together'
    BY <2>1, <2>2 DEF Together, Begun, Alive
  <2>5. InStep' /\ Counted' /\ Followed'
    BY <2>1, <2>2 DEF InStep, Counted, Followed
  <2> QED
    BY <2>3, <2>4, <2>5
<1>12. CASE UNCHANGED vars
  BY <1>12 DEF vars, reading, TypeOK, Together, Begun, InStep, Counted, Followed, Alive, Countable,
     Agreed, Place, Announced
<1> QED
  BY <1>1, <1>2, <1>3, <1>4, <1>5, <1>6, <1>7, <1>8, <1>9, <1>10, <1>11, <1>12
     DEF Next, Sender, Receiver

LEMMA Invariant == Spec => []IInv
BY InvInit, InvStep, PTL DEF Spec

(* The numbers of both loops stay numbers, and the counts of bytes never    *)
(* fall below zero, for any length that get_file_len() may give.            *)
THEOREM TypeCorrect == Spec => []TypeOK
<1>1. IInv => TypeOK
  BY DEF IInv
<1> QED
  BY <1>1, Invariant, PTL

(* No block of the four loops is larger than the buffer of NET_TRUNK bytes  *)
(* nor negative, also where the counters overflow.                          *)
THEOREM BlocksAlwaysFit == Spec => []BlocksFit
<1>1. ASSUME IInv, Turning(out) PROVE Block(SenderType, out) \in 0 .. NET_TRUNK
  <2>1. out \in [pc : {"stat", "hash", "loop", "wait", "done", "gone"},
                 len : Int, i : Int, next : Int] /\ out.next = out.i
    BY <1>1 DEF IInv, TypeOK, InStep
  <2>2. SenderType \in {"int", "unsigned", "long"}
    BY TypesOfLoops
  <2> QED
    BY <1>1, <2>1, <2>2, OneTurn
<1>2. ASSUME IInv, Turning(in) PROVE Block(ReceiverType, in) \in 0 .. NET_TRUNK
  <2>1. in \in [pc : {"idle", "told", "left", "loop", "check", "done"},
                len : Int, i : Int, next : Int] /\ in.next = in.i
    BY <1>2 DEF IInv, TypeOK, InStep
  <2>2. ReceiverType \in {"int", "unsigned", "long"}
    BY TypesOfLoops
  <2> QED
    BY <1>2, <2>1, <2>2, OneTurn
<1>3. IInv => BlocksFit
  BY <1>1, <1>2 DEF BlocksFit
<1> QED
  BY <1>3, Invariant, PTL

(* Where the length is countable, the receiver leaves its loop with exactly *)
(* the bytes that the sender put on the connection, whatever happens to the *)
(* file during the transfer.                                                *)
THEOREM StreamStaysAligned == Spec => []StreamAligned
<1>1. IInv => StreamAligned
  BY TrunkAssumption DEF IInv, StreamAligned, TypeOK, Together, Begun, InStep, Counted, Place, Agreed,
     Countable, Alive
<1> QED
  BY <1>1, Invariant, PTL

(* A file that is left alone and is not of 2 GB is never refused for its    *)
(* MD5, for any size of it and of the blocks.                               *)
THEOREM UntouchedFileArrives == Spec => []FileArrives
<1>1. IInv => FileArrives
  BY TrunkAssumption DEF IInv, FileArrives, TypeOK, Followed, Alive
<1> QED
  BY <1>1, Invariant, PTL
-----------------------------------------------------------------------------
(* The blocks as one message.  Where the length fits, the places of both    *)
(* loops say how many bytes have passed, also after the sender is gone, as  *)
(* long as the receiver has not gone on without it.                         *)
Carried ==
  /\ out.pc = "stat" => out.len = 0
  /\ Begun /\ Fits /\ ~junk =>
       /\ 0 <= out.i /\ sent = Place(out)
       /\ 0 <= in.i /\ taken = Place(in)
       /\ out.pc \in {"wait", "done"} => out.i > out.len
  /\ in.pc \in {"check", "done"} => AllTaken
  /\ eof \/ good = sent
  /\ verdict = "none" <=> in.pc # "done"

LEMMA CarriedInit == Init => Carried
  BY DEF Init, Loop, Carried, Begun

(* The same lengths on both sides, where they fit.                          *)
LEMMA SameLength ==
  ASSUME IInv, Fits, Begun, ~junk
  PROVE  in.len = out.len /\ Agreed = out.len
  BY TrunkAssumption DEF IInv, TypeOK, Together, Fits, Announced, Agreed

(* One turn of the sender: it sends what is left up to a block, and the     *)
(* bytes are the file's own unless the stream has failed.                   *)
LEMMA SendTurn ==
  ASSUME IInv, Carried, SendTrunk
  PROVE  \E n \in 0 .. NET_TRUNK :
           /\ sent' = sent + n
           /\ UNCHANGED <<command, size, edited, hashed, in, taken, junk, verdict>>
           /\ out'.pc = "loop" /\ out.pc = "loop" /\ out'.len = out.len
           /\ Begun /\ ~junk
           /\ eof' \/ good' = sent'
           /\ n = 0 => good' = good
           /\ Fits => /\ 0 <= out'.i /\ out.i <= out.len
                      /\ sent = out.i
                      /\ sent' = IF out'.i <= out.len THEN out'.i ELSE out.len
  <1> DEFINE n == Block(SenderType, out)
             t == Turned(SenderType, out)
             Ps == {"stat", "hash", "loop", "wait", "done", "gone"}
  <1>1. Turning(out) /\ out.pc = "loop" /\ out.i <= out.len
    BY DEF SendTrunk, Turning
  <1>2. /\ n \in 0 .. NET_TRUNK
        /\ t \in [pc : Ps, len : Int, i : Int, next : Int]
        /\ t.pc = "loop" /\ t.len = out.len /\ t.next = t.i
        /\ 0 <= out.i /\ out.len + NET_TRUNK <= IntMax =>
             /\ 0 <= t.i
             /\ out.i + n = IF t.i <= out.len THEN t.i ELSE out.len
    <2> DEFINE y == SenderType
    <2>1. y \in {"int", "unsigned", "long"}
      BY TypesOfLoops
    <2>2. out \in [pc : Ps, len : Int, i : Int, next : Int] /\ out.next = out.i
      BY DEF IInv, TypeOK, InStep
    <2> QED
      BY <1>1, <2>1, <2>2, OneTurn, ZenonT(60)
  <1>3. /\ out' = t /\ sent' = sent + n
        /\ good' = IF eof \/ size < sent THEN good
                   ELSE IF size < sent + n THEN size ELSE sent + n
        /\ eof' = (eof \/ size < sent + n)
        /\ UNCHANGED <<command, size, edited, hashed, in, taken, junk, verdict>>
    BY DEF SendTrunk, ReadTrunk
  <1> HIDE DEF n, t
  <1>4. size \in Nat /\ sent \in Nat /\ good \in Nat /\ eof \in BOOLEAN
    BY DEF IInv, TypeOK
  <1>5. Begun /\ ~junk
    BY <1>1 DEF IInv, Together, InStep, Alive
  <1>6. eof \/ good = sent
    BY DEF Carried
  <1>7. n \in Nat
    BY <1>2
  <1>8. ASSUME ~eof' PROVE good' = sent'
    <2>1. ~eof /\ ~(size < sent + n)
      BY <1>3, <1>8, Zenon
    <2>2. ~(size < sent)
      BY <1>4, <1>7, <2>1
    <2> QED
      BY <1>3, <2>1, <2>2
  <1>9. ASSUME n = 0 PROVE good' = good
    <2>1. CASE eof \/ size < sent
      BY <1>3, <2>1
    <2>2. CASE ~(eof \/ size < sent)
      <3>1. ~(size < sent + n) /\ sent + n = good
        BY <1>4, <1>6, <1>9, <2>2
      <3> QED
        BY <1>3, <2>2, <3>1
    <2> QED
      BY <2>1, <2>2
  <1>10. Fits => 0 <= out.i /\ sent = out.i
    BY <1>1, <1>5 DEF Carried, Place
  <1> QED
    BY <1>1, <1>2, <1>3, <1>5, <1>8, <1>9, <1>10 DEF Fits

(* One turn of the receiver: it takes what the sender's turn has put there, *)
(* or finds that the sender is gone before the file is.                     *)
LEMMA ReceiveTurn ==
  ASSUME IInv, Carried, ReceiveTrunk
  PROVE  /\ UNCHANGED <<command, size, edited, hashed, out, sent, reading, verdict>>
         /\ in.pc = "loop" /\ in'.pc = "loop" /\ in'.len = in.len /\ in.i <= in.len
         /\ junk => ~Alive /\ junk'
         /\ Fits /\ ~junk =>
              /\ 0 <= in'.i
              /\ \/ /\ ~junk' /\ sent >= taken'
                    /\ taken' = IF in'.i <= in.len THEN in'.i ELSE in.len
                 \/ junk' /\ ~Alive /\ sent < out.len
  <1> DEFINE n == Block(ReceiverType, in)
             t == Turned(ReceiverType, in)
             Ps == {"idle", "told", "left", "loop", "check", "done"}
  <1>1. Turning(in) /\ in.pc = "loop" /\ in.i <= in.len
    BY DEF ReceiveTrunk, Turning
  <1>2. /\ n \in 0 .. NET_TRUNK
        /\ t \in [pc : Ps, len : Int, i : Int, next : Int]
        /\ t.pc = "loop" /\ t.len = in.len /\ t.next = t.i
        /\ 0 <= in.i /\ in.len + NET_TRUNK <= IntMax =>
             /\ 0 <= t.i
             /\ in.i + n = IF t.i <= in.len THEN t.i ELSE in.len
    <2> DEFINE y == ReceiverType
    <2>1. y \in {"int", "unsigned", "long"}
      BY TypesOfLoops
    <2>2. in \in [pc : Ps, len : Int, i : Int, next : Int] /\ in.next = in.i
      BY DEF IInv, TypeOK, InStep
    <2> QED
      BY <1>1, <2>1, <2>2, OneTurn, ZenonT(60)
  <1>3. /\ in' = t
        /\ \/ sent - taken >= n /\ taken' = taken + n /\ UNCHANGED junk
           \/ sent - taken < n /\ ~Alive /\ taken' = sent /\ junk' = TRUE
        /\ UNCHANGED <<command, size, edited, hashed, out, sent, reading, verdict>>
    BY DEF ReceiveTrunk
  <1> HIDE DEF n, t
  <1>4. ASSUME Fits, ~junk
        PROVE  /\ 0 <= in'.i
               /\ \/ /\ ~junk' /\ sent >= taken'
                     /\ taken' = IF in'.i <= in.len THEN in'.i ELSE in.len
                  \/ junk' /\ ~Alive /\ sent < out.len
    <2>0. Begun
      BY <1>1 DEF Begun
    <2>1. in.len = out.len /\ Agreed = out.len
      BY <2>0, <1>4, SameLength
    <2>2. 0 <= in.i /\ taken = in.i /\ sent = Place(out)
      BY <1>1, <1>4, <2>0 DEF Carried, Place
    <2>3. /\ in.len + NET_TRUNK <= IntMax
          /\ sent \in Nat /\ taken \in Nat /\ junk \in BOOLEAN /\ taken <= sent
          /\ in.i \in Int /\ in.len \in Int /\ t.i \in Int /\ n \in Nat
      BY <1>2, <1>4, <2>1 DEF Fits, IInv, TypeOK, InStep
    <2>4. /\ in'.i = t.i /\ 0 <= t.i
          /\ in.i + n = IF t.i <= in.len THEN t.i ELSE in.len
      <3>1. in'.i = t.i
        BY <1>3
      <3>2. 0 <= in.i /\ in.len + NET_TRUNK <= IntMax
        BY <2>2, <2>3
      <3>3. 0 <= t.i /\ in.i + n = IF t.i <= in.len THEN t.i ELSE in.len
        BY <1>2, <3>2
      <3> QED
        BY <3>1, <3>3
    <2> QED
      BY <1>1, <1>3, <1>4, <2>1, <2>2, <2>3, <2>4
  <1>5. ASSUME junk PROVE ~Alive /\ junk'
    <2>1. ~Alive
      BY <1>5 DEF IInv, InStep
    <2>2. junk'
      BY <1>3, <1>5, Zenon
    <2> QED
      BY <2>1, <2>2
  <1> QED
    BY <1>1, <1>2, <1>3, <1>4, <1>5

LEMMA CarriedStep == IInv /\ Carried /\ [Next]_vars => Carried'
<1> SUFFICES ASSUME IInv, Carried, [Next]_vars PROVE Carried'
  OBVIOUS
<1> USE TrunkAssumption
<1>1. CASE Edit
  BY <1>1 DEF Edit, reading, Carried, Fits, Place, Agreed, Begun, AllTaken
<1>2. CASE SenderKilled
  BY <1>2 DEF SenderKilled, reading, IInv, TypeOK, Carried, Fits, Place, Agreed, Begun, AllTaken
<1>3. CASE AnnounceLength
  <2>1. in.pc = "idle" /\ in'.pc = "told" /\ out'.pc = "hash"
    BY <1>3 DEF AnnounceLength, IInv, TypeOK, Together
  <2> QED
    BY <1>3, <2>1 DEF AnnounceLength, reading, Carried, Begun
<1>4. CASE AnnounceHash
  <2>1. sent' = 0 /\ taken' = 0 /\ good' = 0 /\ verdict' = "none"
    BY <1>4 DEF AnnounceHash, reading, IInv, Together, Begun
  <2>2. /\ out'.pc = "loop" /\ out'.i = 0 /\ in'.pc = "loop" /\ in'.i = 0
        /\ out'.len = out.len /\ in'.len = in.len
    BY <1>4 DEF AnnounceHash, Loop
  <2>3. Fits' => in'.len = out'.len
    BY <1>4, <2>2 DEF AnnounceHash, IInv, TypeOK, Together, Fits, Announced
  <2> QED
    BY <2>1, <2>2, <2>3 DEF Carried, Fits, Place, Agreed, Begun
<1>5. CASE SendTrunk
  <2>1. PICK n \in 0 .. NET_TRUNK :
          /\ sent' = sent + n
          /\ UNCHANGED <<command, size, edited, hashed, in, taken, junk, verdict>>
          /\ out'.pc = "loop" /\ out.pc = "loop" /\ out'.len = out.len
          /\ Begun /\ ~junk
          /\ eof' \/ good' = sent'
          /\ n = 0 => good' = good
          /\ Fits => /\ 0 <= out'.i /\ out.i <= out.len
                     /\ sent = out.i
                     /\ sent' = IF out'.i <= out.len THEN out'.i ELSE out.len
    BY <1>5, SendTurn
  <2>2. Begun'
    BY <2>1 DEF Begun
  <2>3. Fits' => Fits /\ in.len = out.len /\ Agreed = out.len /\ Agreed' = out'.len
    BY <2>1, SameLength DEF Fits, Agreed
  <2>4. Fits' => /\ 0 <= out'.i /\ sent' = Place(out)'
                 /\ 0 <= in'.i /\ taken' = Place(in)'
    BY <2>1, <2>2, <2>3 DEF Carried, Place
  <2> QED
    BY <2>1, <2>2, <2>4 DEF Carried, AllTaken
<1>6. CASE SendEnds
  <2>1. out.i \in Int /\ out.len \in Int
    BY DEF IInv, TypeOK
  <2>2. out' = [out EXCEPT !.pc = "wait"] /\ ~(out.i <= out.len)
    BY <1>6 DEF SendEnds, Turning
  <2>3. /\ out'.i = out.i /\ out'.len = out.len /\ out'.pc = "wait"
        /\ out.i > out.len /\ out.pc = "loop"
    BY <1>6, <2>1, <2>2 DEF IInv, TypeOK, SendEnds
  <2>4. UNCHANGED <<in, sent, good, eof, taken, junk, verdict>>
    BY <1>6 DEF SendEnds, reading
  <2> QED
    BY <2>3, <2>4 DEF Carried, Fits, Place, Agreed, Begun, AllTaken
<1>7. CASE ReceiveTrunk
  <2>1. /\ UNCHANGED <<out, sent, good, eof, verdict>>
        /\ in.pc = "loop" /\ in'.pc = "loop" /\ in'.len = in.len
        /\ junk => ~Alive /\ junk'
        /\ Fits /\ ~junk =>
             /\ 0 <= in'.i
             /\ \/ /\ ~junk' /\ sent >= taken'
                   /\ taken' = IF in'.i <= in.len THEN in'.i ELSE in.len
                \/ junk' /\ ~Alive /\ sent < out.len
    BY <1>7, ReceiveTurn DEF reading
  <2>2. /\ (Fits' <=> Fits) /\ Agreed' = Agreed /\ Place(out)' = Place(out)
        /\ Begun /\ Begun'
    BY <2>1 DEF Fits, Agreed, Place, Begun
  <2>3. ASSUME Fits', ~junk'
        PROVE  /\ 0 <= out'.i /\ sent' = Place(out)'
               /\ 0 <= in'.i /\ taken' = Place(in)'
               /\ out'.pc \in {"wait", "done"} => out'.i > out'.len
    <3>1. Fits /\ ~junk
      BY <2>1, <2>2, <2>3
    <3>2. in.len = out.len /\ Agreed = out.len
      BY <2>2, <3>1, SameLength
    <3>3. taken' = Place(in)'
      BY <2>1, <2>2, <2>3, <3>1, <3>2 DEF Place
    <3> QED
      BY <2>1, <2>2, <3>1, <3>3 DEF Carried
  <2> QED
    BY <2>1, <2>2, <2>3 DEF Carried
<1>8. CASE ReceiveEnds
  <2>1. in.i \in Int /\ in.len \in Int
    BY DEF IInv, TypeOK
  <2>2. /\ in'.i = in.i /\ in'.len = in.len /\ in'.pc = "check"
        /\ in.i > in.len /\ in.pc = "loop"
    BY <1>8, <2>1 DEF IInv, TypeOK, ReceiveEnds, Turning
  <2>3. UNCHANGED <<out, sent, good, eof, taken, junk, verdict>>
    BY <1>8 DEF ReceiveEnds, reading
  <2> QED
    BY <2>2, <2>3 DEF Carried, Fits, Place, Agreed, Begun, AllTaken
<1>9. CASE CheckMD5
  <2>1. /\ in'.i = in.i /\ in'.len = in.len /\ in'.pc = "done" /\ in.pc = "check"
        /\ verdict' \in {"ok", "err"}
    BY <1>9 DEF IInv, TypeOK, CheckMD5
  <2>2. UNCHANGED <<out, sent, good, eof, taken, junk>>
    BY <1>9 DEF CheckMD5, reading
  <2> QED
    BY <2>1, <2>2 DEF Carried, Fits, Place, Agreed, Begun, AllTaken
<1>10. CASE ReceiveVerdict
  <2>1. /\ out'.i = out.i /\ out'.len = out.len /\ out'.pc = "done" /\ out.pc = "wait"
    BY <1>10 DEF IInv, TypeOK, ReceiveVerdict
  <2>2. UNCHANGED <<in, sent, good, eof, taken, junk, verdict>>
    BY <1>10 DEF ReceiveVerdict, reading
  <2> QED
    BY <2>1, <2>2 DEF Carried, Fits, Place, Agreed, Begun, AllTaken
<1>11. CASE ReceiverAlone
  <2>1. /\ UNCHANGED <<out, sent, good, eof, taken, verdict>>
        /\ in.pc \in {"idle", "told"}
        /\ in'.pc = "left" \/ (in'.pc = "loop" /\ junk')
    BY <1>11 DEF ReceiverAlone, reading, Loop, IInv, TypeOK
  <2> QED
    BY <2>1 DEF Carried, Begun
<1>12. CASE UNCHANGED vars
  BY <1>12 DEF vars, reading, Carried, Fits, Place, Agreed, Begun, AllTaken
<1> QED
  BY <1>1, <1>2, <1>3, <1>4, <1>5, <1>6, <1>7, <1>8, <1>9, <1>10, <1>11, <1>12
     DEF Next, Sender, Receiver

LEMMA CarriedAlways == Spec => [](IInv /\ Carried)
BY InvInit, InvStep, CarriedInit, CarriedStep, PTL DEF Spec

(* The receiver waits for no byte that will not come: once the sender has   *)
(* ended its loop and waits for the answer, every block the receiver still  *)
(* asks for is already on the connection.                                   *)
Supplied ==
  Fits /\ out.pc \in {"wait", "done"} /\ Turning(in) =>
    sent - taken >= Block(ReceiverType, in)

(* The two loops do not wait for each other, whatever the size of the file  *)
(* and of the blocks: the sender for the answer, the receiver for bytes.    *)
THEOREM NoLoopStarves == Spec => []Supplied
<1>1. ASSUME IInv, Carried, Fits, out.pc \in {"wait", "done"}, Turning(in)
      PROVE  sent - taken >= Block(ReceiverType, in)
  <2> DEFINE n == Block(ReceiverType, in)
             t == Turned(ReceiverType, in)
             Ps == {"idle", "told", "left", "loop", "check", "done"}
  <2>1. in.pc = "loop" /\ in.i <= in.len
    BY <1>1 DEF Turning
  <2>2. Begun /\ ~junk
    BY <1>1, <2>1 DEF IInv, InStep, Alive, Begun
  <2>3. in.len = out.len /\ Agreed = out.len
    BY <1>1, <2>2, SameLength
  <2>4. sent = out.len /\ 0 <= in.i /\ taken = in.i
    <3>1. out.i > out.len /\ out.i \in Int /\ out.len \in Int
      BY <1>1, <2>2 DEF Carried, IInv, TypeOK
    <3> QED
      BY <1>1, <2>1, <2>2, <2>3, <3>1 DEF Carried, Place
  <2>5. /\ n \in 0 .. NET_TRUNK
        /\ t \in [pc : Ps, len : Int, i : Int, next : Int]
        /\ 0 <= in.i /\ in.len + NET_TRUNK <= IntMax =>
             in.i + n = IF t.i <= in.len THEN t.i ELSE in.len
    <3>1. ReceiverType \in {"int", "unsigned", "long"}
      BY TypesOfLoops
    <3>2. in \in [pc : Ps, len : Int, i : Int, next : Int] /\ in.next = in.i
      BY <1>1 DEF IInv, TypeOK, InStep
    <3> QED
      BY <1>1, <3>1, <3>2, OneTurn, ZenonT(60)
  <2> HIDE DEF n, t
  <2>6. in.len + NET_TRUNK <= IntMax /\ in.i \in Int /\ in.len \in Int /\ t.i \in Int
    BY <1>1, <2>3, <2>5 DEF Fits, IInv, TypeOK
  <2>7. in.i + n <= in.len
    BY <2>4, <2>5, <2>6
  <2>8. sent - taken >= n
    BY <2>3, <2>4, <2>5, <2>6, <2>7
  <2> QED
    BY <2>8 DEF n
<1>2. IInv /\ Carried => Supplied
  BY <1>1 DEF Supplied
<1> QED
  BY <1>2, CarriedAlways, PTL
-----------------------------------------------------------------------------
(* What FileMessage sees of a step.  A file that is unsteady may be         *)
(* transferred as other bytes than those announced.                         *)
Unsteady == edited \/ size + NET_TRUNK > IntMax

(* Beyond the lengths that fit only the file itself is seen.                *)
LEMMA NothingSeenBeyond ==
  ASSUME ~Fits, out'.len = out.len, UNCHANGED <<size, edited>>
  PROVE  UNCHANGED Message!mvars
  <1>1. ~Fits'
    BY DEF Fits
  <1> QED
    BY <1>1 DEF Message!mvars

LEMMA EditIsEdit ==
  ASSUME Edit
  PROVE  Message!Edit
  <1>1. UNCHANGED <<hashed, out, in, sent, good, eof, junk, verdict>> /\ edited'
    BY DEF Edit, reading
  <1>2. Fits' = Fits /\ Alive' = Alive /\ Begun' = Begun /\ AllTaken' = AllTaken /\ Bytes' = Bytes
    BY <1>1 DEF Fits, Alive, Begun, AllTaken, Bytes
  <1>3. AllSent' = AllSent
    BY <1>1, <1>2 DEF AllSent
  <1> QED
    BY <1>1, <1>2, <1>3 DEF Message!Edit

LEMMA KillIsEnd ==
  ASSUME IInv, SenderKilled
  PROVE  [Message!Next]_(Message!mvars)
  <1>1. /\ UNCHANGED <<size, edited, hashed, in, sent, good, eof, junk, verdict>>
        /\ out'.pc = "gone" /\ out'.len = out.len /\ Alive /\ ~Alive'
    BY DEF SenderKilled, reading, IInv, TypeOK, Alive
  <1>2. CASE ~Fits
    BY <1>1, <1>2, NothingSeenBeyond
  <1>3. CASE Fits
    <2>1. Fits' /\ AllSent' = AllSent /\ AllTaken' = AllTaken /\ Bytes' = Bytes
      BY <1>1, <1>3 DEF Fits, AllSent, AllTaken, Begun, Bytes
    <2>2. Message!SenderEnds
      BY <1>1, <1>3, <2>1 DEF Message!SenderEnds
    <2> QED
      BY <2>2 DEF Message!Next
  <1> QED
    BY <1>2, <1>3

(* A length that does not fit is that of a file too large, or is not its    *)
(* size as an int.                                                          *)
LEMMA LengthIsSeen ==
  ASSUME IInv, AnnounceLength, Fits
  PROVE  [Message!Next]_(Message!mvars)
  <1> USE TrunkAssumption
  <1>1. /\ UNCHANGED <<size, edited, hashed, sent, good, eof, verdict>>
        /\ out.pc = "stat" /\ out'.pc = "hash" /\ out'.len = ToInt(size)
        /\ in.pc = "idle" /\ in'.pc = "told"
    BY DEF AnnounceLength, reading, IInv, TypeOK, Together
  <1>2. ~AllSent /\ ~AllSent' /\ ~AllTaken /\ ~AllTaken' /\ Alive /\ Alive'
    BY <1>1 DEF AllSent, AllTaken, Begun, Alive
  <1>3. verdict = "none"
    BY <1>1 DEF IInv, Together, Begun
  <1>4. CASE Fits'
    BY <1>1, <1>2, <1>4 DEF Message!mvars
  <1>5. CASE ~Fits'
    <2>1. size \in Nat /\ ToInt(size) \in Int /\ (size <= IntMax => ToInt(size) = size)
      BY ToIntOfSize DEF IInv, TypeOK
    <2>2. size + NET_TRUNK > IntMax
      BY <1>1, <1>5, <2>1 DEF Fits
    <2>3. Message!Exceed
      BY <1>1, <1>2, <1>3, <1>5, <2>2 DEF Message!Exceed
    <2> QED
      BY <2>3 DEF Message!Next
  <1> QED
    BY <1>4, <1>5

(* A file of no bytes is on the connection as soon as it is announced.      *)
LEMMA HashIsSeen ==
  ASSUME IInv, IInv', AnnounceHash
  PROVE  [Message!Next]_(Message!mvars)
  <1>1. /\ UNCHANGED <<size, edited, sent, good, eof, verdict>>
        /\ out.pc = "hash" /\ out'.pc = "loop" /\ out'.len = out.len
        /\ in'.pc = "loop" /\ in'.i = 0 /\ in'.len = in.len
        /\ in.pc = "told" /\ sent = 0 /\ good = 0
    BY DEF AnnounceHash, Loop, reading, IInv, TypeOK, Together, Begun
  <1>2. CASE ~Fits
    BY <1>1, <1>2, NothingSeenBeyond
  <1>3. CASE Fits
    <2>1. Fits' /\ ~AllSent /\ ~AllTaken /\ Alive /\ Alive'
      BY <1>1, <1>3 DEF Fits, AllSent, AllTaken, Begun, Alive
    <2>2. in'.len = out'.len /\ out.len \in Int
      BY <1>1, <2>1 DEF IInv, Together, TypeOK, Announced, Fits
    <2>3. ~AllTaken'
      BY <1>1, <2>1, <2>2 DEF AllTaken, Fits
    <2>4. CASE ~AllSent'
      BY <1>1, <1>3, <2>1, <2>3, <2>4 DEF Message!mvars
    <2>5. CASE AllSent'
      <3>1. Bytes' = "other" => Unsteady
        <4>1. ASSUME ~edited, ~(size + NET_TRUNK > IntMax) PROVE Bytes' = "announced"
          <5>1. size' + NET_TRUNK <= IntMax /\ ~edited'
            BY <1>1, <4>1, TrunkAssumption DEF IInv, TypeOK
          <5>2. out'.len = size' /\ hashed' = size' /\ good' = sent'
            BY <1>1, <2>1, <5>1 DEF IInv, Followed
          <5>3. sent' = out'.len /\ sent' \in Nat
            BY <2>5 DEF AllSent, IInv, TypeOK
          <5> QED
            BY <5>2, <5>3 DEF Bytes
        <4> QED
          BY <4>1 DEF Unsteady
      <3>2. Message!PutFile
        BY <1>1, <1>3, <2>1, <2>3, <2>5, <3>1 DEF Message!PutFile, Unsteady, Bytes
      <3> QED
        BY <3>2 DEF Message!Next
    <2> QED
      BY <2>4, <2>5
  <1> QED
    BY <1>2, <1>3

(* The sender's turn that reaches the length puts the message; the others,  *)
(* and the turn of no bytes after it, are not seen.                         *)
LEMMA SendIsSeen ==
  ASSUME IInv, IInv', Carried, Carried', SendTrunk
  PROVE  [Message!Next]_(Message!mvars)
  <1>1. PICK n \in 0 .. NET_TRUNK :
          /\ sent' = sent + n
          /\ UNCHANGED <<command, size, edited, hashed, in, taken, junk, verdict>>
          /\ out'.pc = "loop" /\ out.pc = "loop" /\ out'.len = out.len
          /\ Begun /\ ~junk
          /\ eof' \/ good' = sent'
          /\ n = 0 => good' = good
          /\ Fits => /\ 0 <= out'.i /\ out.i <= out.len
                     /\ sent = out.i
                     /\ sent' = IF out'.i <= out.len THEN out'.i ELSE out.len
    BY SendTurn
  <1>2. CASE ~Fits
    BY <1>1, <1>2, NothingSeenBeyond
  <1>3. CASE Fits
    <2>1. /\ Fits' /\ Alive /\ Alive' /\ AllTaken' = AllTaken
          /\ Begun' /\ ~junk'
          /\ in.len = out.len /\ Agreed = out.len
      BY <1>1, <1>3, SameLength DEF Fits, Alive, AllTaken, Begun
    <2>2. /\ sent \in Nat /\ sent' \in Nat /\ out.len \in Int /\ out.i \in Int
          /\ out'.i \in Int /\ n \in Nat
      BY <1>1 DEF IInv, TypeOK
    <2>3. CASE AllSent
      <3>1. sent = out.len
        BY <2>3 DEF AllSent
      <3>2. n = 0
        BY <1>1, <1>3, <2>2, <3>1
      <3>3. sent' = sent /\ good' = good
        BY <1>1, <2>2, <3>2
      <3> QED
        BY <1>1, <1>3, <2>1, <3>3 DEF AllSent, Bytes, Message!mvars
    <2>4. CASE ~AllSent
      <3>1. sent < out.len
        BY <1>1, <1>3, <2>2, <2>4 DEF AllSent
      <3>2. ~AllTaken
        <4>1. taken <= sent /\ taken \in Nat
          BY DEF IInv, InStep, TypeOK
        <4>2. taken = Place(in)
          BY <1>1, <1>3 DEF Carried
        <4>3. in.i \in Int /\ in.len \in Int
          BY DEF IInv, TypeOK
        <4> QED
          BY <2>1, <2>2, <3>1, <4>1, <4>2, <4>3 DEF Place, AllTaken
      <3>3. CASE ~AllSent'
        BY <1>1, <1>3, <2>1, <2>4, <3>2, <3>3 DEF Message!mvars
      <3>4. CASE AllSent'
        <4>1. Bytes' = "other" => Unsteady
          <5>1. ASSUME ~edited, ~(size + NET_TRUNK > IntMax) PROVE Bytes' = "announced"
            <6>1. size' + NET_TRUNK <= IntMax /\ ~edited'
              BY <1>1, <5>1, TrunkAssumption DEF IInv, TypeOK
            <6>2. out'.len = size' /\ hashed' = size' /\ good' = sent'
              BY <1>1, <2>1, <6>1 DEF IInv, Followed
            <6>3. sent' = out'.len
              BY <3>4 DEF AllSent
            <6> QED
              BY <2>2, <6>2, <6>3 DEF Bytes
          <5> QED
            BY <5>1 DEF Unsteady
        <4>2. Message!PutFile
          BY <1>1, <1>3, <2>1, <2>4, <3>2, <3>4, <4>1 DEF Message!PutFile, Unsteady, Bytes
        <4> QED
          BY <4>2 DEF Message!Next
      <3> QED
        BY <3>3, <3>4
    <2> QED
      BY <2>3, <2>4
  <1> QED
    BY <1>2, <1>3

(* The receiver's last turn takes the message, all of it, or the end of a   *)
(* stream whose sender went away before the message was put.                *)
LEMMA ReceiveIsSeen ==
  ASSUME IInv, IInv', Carried, Carried', ReceiveTrunk
  PROVE  [Message!Next]_(Message!mvars)
  <1>1. /\ UNCHANGED <<command, size, edited, hashed, out, sent, good, eof, verdict>>
        /\ in.pc = "loop" /\ in'.pc = "loop" /\ in'.len = in.len /\ in.i <= in.len
        /\ junk => ~Alive /\ junk'
        /\ Fits /\ ~junk =>
             /\ 0 <= in'.i
             /\ \/ /\ ~junk' /\ sent >= taken'
                   /\ taken' = IF in'.i <= in.len THEN in'.i ELSE in.len
                \/ junk' /\ ~Alive /\ sent < out.len
    BY ReceiveTurn DEF reading
  <1>2. CASE ~Fits
    BY <1>1, <1>2, NothingSeenBeyond
  <1>3. CASE Fits
    <2>1. in.len \in Int /\ in.i \in Int /\ sent \in Nat /\ out.len \in Int
      BY DEF IInv, TypeOK
    <2>2. Fits' /\ Alive' = Alive /\ Bytes' = Bytes /\ ~AllTaken /\ Begun /\ Begun'
      BY <1>1, <1>3, <2>1 DEF Fits, Alive, AllTaken, Begun, Bytes
    <2>3. /\ (AllSent' <=> AllSent)
          /\ AllTaken' /\ ~AllSent => ~Alive
      <3>1. CASE junk
        BY <1>1, <3>1 DEF AllSent
      <3>2. CASE ~junk
        <4>1. in.len = out.len /\ Agreed = out.len
          BY <1>3, <2>2, <3>2, SameLength
        <4>2. AllSent' <=> AllSent
          <5>1. CASE junk'
            BY <1>1, <1>3, <2>1, <3>2, <5>1 DEF AllSent
          <5>2. CASE ~junk'
            BY <1>1, <2>2, <3>2, <5>2 DEF AllSent
          <5> QED
            BY <5>1, <5>2
        <4>3. ASSUME AllTaken', ~AllSent PROVE ~Alive
          <5>1. sent # out.len
            BY <2>2, <3>2, <4>3 DEF AllSent
          <5>2. sent <= out.len
            <6>1. sent = Place(out)
              BY <1>3, <2>2, <3>2 DEF Carried
            <6> QED
              BY <2>1, <4>1, <6>1 DEF Place, IInv, TypeOK
          <5>3. in'.i > in.len /\ in'.i \in Int
            BY <1>1, <4>3 DEF AllTaken, IInv, TypeOK
          <5>4. CASE junk'
            BY <1>1, <1>3, <3>2, <5>4
          <5>5. CASE ~junk'
            BY <1>1, <1>3, <2>1, <3>2, <4>1, <5>1, <5>2, <5>3, <5>5
          <5> QED
            BY <5>4, <5>5
        <4> QED
          BY <4>2, <4>3
      <3> QED
        BY <3>1, <3>2
    <2>4. CASE ~AllTaken'
      BY <1>1, <1>3, <2>2, <2>3, <2>4 DEF Message!mvars
    <2>5. CASE AllTaken' /\ AllSent
      <3>1. Message!TakeFile
        BY <1>1, <1>3, <2>2, <2>3, <2>5 DEF Message!TakeFile, Bytes
      <3> QED
        BY <3>1 DEF Message!Next
    <2>6. CASE AllTaken' /\ ~AllSent
      <3>1. Message!TakeEnd
        BY <1>1, <1>3, <2>2, <2>3, <2>6 DEF Message!TakeEnd
      <3> QED
        BY <3>1 DEF Message!Next
    <2> QED
      BY <2>4, <2>5, <2>6
  <1> QED
    BY <1>2, <1>3

(* The receiver that goes on alone has not taken the message; where its     *)
(* length is negative it has taken the end of the stream at once.           *)
LEMMA AloneIsSeen ==
  ASSUME IInv, ReceiverAlone
  PROVE  [Message!Next]_(Message!mvars)
  <1>1. /\ UNCHANGED <<size, edited, hashed, out, sent, good, eof, verdict>>
        /\ ~Alive /\ ~Begun
        /\ in'.pc = "left" \/ (in'.pc = "loop" /\ junk')
    BY DEF ReceiverAlone, reading, Alive, Begun, Loop, IInv, TypeOK
  <1>2. CASE ~Fits
    BY <1>1, <1>2, NothingSeenBeyond
  <1>3. CASE Fits
    <2>1. /\ Fits' /\ Alive' = Alive /\ Bytes' = Bytes
          /\ ~AllSent /\ ~AllTaken /\ ~AllSent'
      BY <1>1, <1>3 DEF Fits, Alive, Bytes, AllSent, AllTaken, Begun
    <2>2. CASE ~AllTaken'
      BY <1>1, <1>3, <2>1, <2>2 DEF Message!mvars
    <2>3. CASE AllTaken'
      <3>1. Message!TakeEnd
        BY <1>1, <1>3, <2>1, <2>3 DEF Message!TakeEnd
      <3> QED
        BY <3>1 DEF Message!Next
    <2> QED
      BY <2>2, <2>3
  <1> QED
    BY <1>2, <1>3

(* The MD5 comparison says "ok" of exactly the bytes announced.             *)
LEMMA CheckIsAnswer ==
  ASSUME IInv, Carried, CheckMD5
  PROVE  [Message!Next]_(Message!mvars)
  <1>1. /\ UNCHANGED <<size, edited, hashed, out, sent, good, eof, taken, junk>>
        /\ in.pc = "check" /\ in'.pc = "done" /\ in'.i = in.i /\ in'.len = in.len
        /\ verdict' = IF Intact THEN "ok" ELSE "err"
    BY DEF CheckMD5, reading, IInv, TypeOK
  <1>2. CASE ~Fits
    BY <1>1, <1>2, NothingSeenBeyond
  <1>3. CASE Fits
    <2>1. Begun /\ Begun' /\ AllTaken /\ verdict = "none"
      BY <1>1 DEF Carried, Begun
    <2>2. Fits' /\ Alive' = Alive /\ AllSent' = AllSent /\ Bytes' = Bytes /\ AllTaken'
      BY <1>1, <1>3, <2>1 DEF Fits, Alive, AllSent, AllTaken, Bytes
    <2>3. /\ in.i \in Int /\ in.len \in Int /\ out.i \in Int /\ out.len \in Int
          /\ sent \in Nat /\ taken \in Nat /\ good \in Nat /\ taken <= sent
      BY DEF IInv, TypeOK, InStep
    <2>4. ASSUME ~junk PROVE taken = out.len /\ sent = out.len
      <3>1. in.len = out.len /\ Agreed = out.len
        BY <1>3, <2>1, <2>4, SameLength
      <3>2. sent = Place(out) /\ taken = Place(in)
        BY <1>3, <2>1, <2>4 DEF Carried
      <3>3. in.i > in.len
        BY <2>1 DEF AllTaken
      <3>4. taken = out.len
        BY <2>3, <3>1, <3>2, <3>3 DEF Place
      <3>5. sent <= out.len
        BY <2>3, <3>1, <3>2 DEF Place
      <3> QED
        BY <2>3, <3>4, <3>5
    <2>5. CASE AllSent
      <3>1. sent = out.len /\ ~junk
        BY <2>5 DEF AllSent
      <3>2. Intact <=> Bytes = "announced"
        BY <2>4, <3>1 DEF Intact, Bytes
      <3>3. Message!Answer
        BY <1>1, <1>3, <2>1, <2>2, <2>5, <3>2 DEF Message!Answer, Bytes
      <3> QED
        BY <3>3 DEF Message!Next
    <2>6. CASE ~AllSent
      <3>1. ~Intact
        BY <2>1, <2>4, <2>6 DEF AllSent, Intact
      <3>2. Message!Answer
        BY <1>1, <1>3, <2>1, <2>2, <2>6, <3>1 DEF Message!Answer
      <3> QED
        BY <3>2 DEF Message!Next
    <2> QED
      BY <2>5, <2>6
  <1> QED
    BY <1>2, <1>3

(* The ends of both loops and the answer's arrival are not seen.            *)
LEMMA EndsAreUnseen ==
  ASSUME IInv, SendEnds \/ ReceiveEnds \/ ReceiveVerdict
  PROVE  UNCHANGED Message!mvars
  <1>1. /\ UNCHANGED <<size, edited, hashed, sent, good, eof, junk, verdict>>
        /\ out'.len = out.len /\ in'.len = in.len /\ in'.i = in.i
    BY DEF SendEnds, ReceiveEnds, ReceiveVerdict, reading, IInv, TypeOK
  <1>2. (out.pc # "gone" /\ out'.pc # "gone") \/ out'.pc = out.pc
    BY DEF SendEnds, ReceiveEnds, ReceiveVerdict, IInv, TypeOK
  <1>3. Begun' = Begun
    BY DEF SendEnds, ReceiveEnds, ReceiveVerdict, IInv, TypeOK, Begun
  <1>4. /\ Fits' = Fits /\ Alive' = Alive /\ AllSent' = AllSent /\ AllTaken' = AllTaken
        /\ Bytes' = Bytes
    BY <1>1, <1>2, <1>3 DEF Fits, Alive, AllSent, AllTaken, Bytes
  <1> QED
    BY <1>1, <1>4 DEF Message!mvars

(* The block loops transfer the file as one message: for every size of the  *)
(* file and of the blocks, whatever happens to the file meanwhile, and      *)
(* wherever the sender's process ends.  It is what lets Session put a file  *)
(* on the connection in one step (do_send(), handle_compress()) and take it *)
(* in one (handle_send(), do_compress()).                                   *)
THEOREM TrunksAreOneMessage == Spec => ImplementsMessage
  <1>1. Init => Message!Init
    <2> SUFFICES ASSUME Init PROVE Message!Init
      OBVIOUS
    <2>1. out.len = 0 /\ out.pc = "stat" /\ in.pc = "idle" /\ verdict = "none"
      BY DEF Init, Loop
    <2>2. Fits /\ Alive /\ ~AllSent /\ ~AllTaken
      BY <2>1, TrunkAssumption DEF Fits, Alive, AllSent, AllTaken, Begun
    <2>3. (edited \/ size + NET_TRUNK > IntMax) \in BOOLEAN
      BY TrunkAssumption DEF Init
    <2> QED
      BY <2>1, <2>2, <2>3 DEF Message!Init
  <1>2. /\ IInv /\ Carried /\ (IInv /\ Carried)' /\ [Next]_vars
        => [Message!Next]_(Message!mvars)
    <2> SUFFICES ASSUME IInv, Carried, IInv', Carried', [Next]_vars
                 PROVE  [Message!Next]_(Message!mvars)
      OBVIOUS
    <2>1. CASE Edit
      BY <2>1, EditIsEdit DEF Message!Next
    <2>2. CASE SenderKilled
      BY <2>2, KillIsEnd
    <2>3. CASE AnnounceLength
      <3>1. Fits
        BY <2>3, TrunkAssumption DEF AnnounceLength, Carried, Fits
      <3> QED
        BY <2>3, <3>1, LengthIsSeen
    <2>4. CASE AnnounceHash
      BY <2>4, HashIsSeen
    <2>5. CASE SendTrunk
      BY <2>5, SendIsSeen
    <2>6. CASE ReceiveTrunk
      BY <2>6, ReceiveIsSeen
    <2>7. CASE CheckMD5
      BY <2>7, CheckIsAnswer
    <2>8. CASE SendEnds \/ ReceiveEnds \/ ReceiveVerdict
      BY <2>8, EndsAreUnseen
    <2>9. CASE ReceiverAlone
      BY <2>9, AloneIsSeen
    <2>10. CASE UNCHANGED vars
      BY <2>10 DEF vars, reading, Message!mvars, Fits, Alive, AllSent, AllTaken, Begun, Bytes
    <2> QED
      BY <2>1, <2>2, <2>3, <2>4, <2>5, <2>6, <2>7, <2>8, <2>9, <2>10 DEF Next, Sender, Receiver
  <1> QED
    BY <1>1, <1>2, CarriedAlways, PTL DEF Spec, ImplementsMessage, Message!Spec
=============================================================================
