----------------------------- MODULE FramingProofs -----------------------------
(***************************************************************************)
(* Theorems of Session about the stream, for every set of files, versions, *)
(* names and compressors and every set of faults.                          *)
(***************************************************************************)
EXTENDS SessionInv, SessionProofs

(* The scripts of the shell follow the dialogues: a side that is at a put   *)
(* or a get is at the message of the dialogue it has not done yet.          *)
LEMMA ClientFollows ==
  ASSUME NEW cmd \in DOMAIN ClientScript, NEW p \in 1 .. Len(ClientScript[cmd])
  PROVE  LET op == ClientScript[cmd][p]
             a  == ClientClock[cmd][p]
         IN  /\ a \in 0 .. Length(cmd)
             /\ op.do \in {"put", "get"} => /\ a < Length(cmd)
                                            /\ ClientClock[cmd][p + 1] = a + 1
                                            /\ Dialogue[cmd][a + 1].kind = op.kind
             /\ op.do = "put" => Dialogue[cmd][a + 1] = Cl(op.kind, op.x)
             /\ op.do = "get" => Dialogue[cmd][a + 1].who = "server"
             /\ op.do \notin {"put", "get"} => op.do = "do" /\ ClientClock[cmd][p + 1] = a
  <1> USE DEF ClientScript, ClientClock, Dialogue, Length, Put, Get, Do, Ack, OK, BYE,
              Cl, Sv, COk, SOk, CBye, SBye
  <1>1. CASE cmd = "hello"
    BY <1>1 DEF CommandLine
  <1>2. CASE cmd = "help"
    BY <1>2 DEF DoHelp
  <1>9. CASE cmd = "quit"
    BY <1>9 DEF DoQuit
  <1>3. CASE cmd = "send"
    <2>1. CASE p \in 1 .. 6
      BY <1>3, <2>1 DEF DoSend
    <2>2. CASE p \in 7 .. 12
      BY <1>3, <2>2 DEF DoSend
    <2>3. CASE p \in 13 .. 17
      BY <1>3, <2>3 DEF DoSend
    <2>4. p \in 1 .. 6 \/ p \in 7 .. 12 \/ p \in 13 .. 17
      BY <1>3 DEF DoSend
    <2> QED
      BY <2>1, <2>2, <2>3, <2>4, Zenon
  <1>4. CASE cmd = "check"
    BY <1>4 DEF ConfigurationCheck, GetConfig, ConfigDialogue
  <1>5. CASE cmd = "show"
    BY <1>5 DEF DoShowConf, GetConfig, ConfigDialogue
  <1>6. CASE cmd = "rename"
    BY <1>6 DEF DoConfName
  <1>7. CASE cmd = "comp"
    BY <1>7 DEF DoConfComp
  <1>8. CASE cmd = "compress"
    BY <1>8 DEF DoCompress
  <1> QED
    BY <1>1, <1>2, <1>3, <1>4, <1>5, <1>6, <1>7, <1>8, <1>9

LEMMA ServerFollows ==
  ASSUME NEW cmd \in DOMAIN ServerScript \ {"loop"}, NEW p \in 1 .. Len(ServerScript[cmd])
  PROVE  LET op == ServerScript[cmd][p]
             b  == ServerClock[cmd][p]
         IN  /\ b \in 0 .. Length(cmd)
             /\ op.do \in {"put", "get"} => /\ b < Length(cmd)
                                            /\ ServerClock[cmd][p + 1] = b + 1
                                            /\ Dialogue[cmd][b + 1].kind = op.kind
             /\ op.do = "put" => Dialogue[cmd][b + 1] = Sv(op.kind, op.x)
             /\ op.do = "get" => Dialogue[cmd][b + 1].who = "client"
             /\ op.do \notin {"put", "get"} => op.do = "do" /\ ServerClock[cmd][p + 1] = b
  <1> USE DEF ServerScript, ServerClock, Dialogue, Length, Put, Get, Do, Ack, OK, BYE,
              Cl, Sv, COk, SOk, CBye, SBye
  <1>1. CASE cmd = "hello"
    BY <1>1 DEF SendHello
  <1>2. CASE cmd = "help"
    BY <1>2
  <1>3. CASE cmd = "send"
    BY <1>3 DEF HandleSend
  <1>4. CASE cmd = "check"
    BY <1>4 DEF HandleConfigurationCheck, ConfigDialogue
  <1>8. CASE cmd = "show"
    BY <1>8 DEF HandleConfigurationCheck, HandleShowConfiguration, ConfigDialogue
  <1>5. CASE cmd = "rename"
    BY <1>5 DEF HandleConfigureName
  <1>6. CASE cmd = "comp"
    BY <1>6 DEF HandleConfigureCompressor
  <1>7. CASE cmd = "compress"
    BY <1>7 DEF HandleCompress
  <1> QED
    BY <1>1, <1>2, <1>3, <1>4, <1>5, <1>6, <1>7, <1>8

(* Where a side is when it has done what its script says.                   *)
LEMMA ClientClockEnds ==
  ASSUME NEW cmd \in DOMAIN ClientScript
  PROVE  /\ Len(ClientScript[cmd]) \in Nat \ {0, 1} /\ Length(cmd) \in Nat \ {0, 1}
         /\ ClientClock[cmd][Len(ClientScript[cmd]) + 1] = Length(cmd)
         /\ cmd # "hello" => ClientClock[cmd][1] = 0 /\ ClientClock[cmd][2] = 1
  <1> USE DEF ClientScript, ClientClock, Dialogue, Length
  <1>1. CASE cmd = "hello"
    BY <1>1 DEF CommandLine
  <1>2. CASE cmd = "help"
    BY <1>2 DEF DoHelp
  <1>3. CASE cmd = "quit"
    BY <1>3 DEF DoQuit
  <1>4. CASE cmd = "send"
    BY <1>4 DEF DoSend
  <1>5. CASE cmd = "check"
    BY <1>5 DEF ConfigurationCheck, GetConfig, ConfigDialogue
  <1>6. CASE cmd = "show"
    BY <1>6 DEF DoShowConf, GetConfig, ConfigDialogue
  <1>7. CASE cmd = "rename"
    BY <1>7 DEF DoConfName
  <1>8. CASE cmd = "comp"
    BY <1>8 DEF DoConfComp
  <1>9. CASE cmd = "compress"
    BY <1>9 DEF DoCompress
  <1> QED
    BY <1>1, <1>2, <1>3, <1>4, <1>5, <1>6, <1>7, <1>8, <1>9

LEMMA ServerClockEnds ==
  ASSUME NEW cmd \in DOMAIN ServerScript \ {"loop"}
  PROVE  /\ Len(ServerScript[cmd]) \in Nat /\ cmd \in DOMAIN ClientScript
         /\ ServerClock[cmd][Len(ServerScript[cmd]) + 1] = Length(cmd)
         /\ cmd # "hello" => ServerClock[cmd][1] = 2
  <1> USE DEF ServerScript, ClientScript, ServerClock, Dialogue, Length
  <1>1. CASE cmd = "hello"
    BY <1>1 DEF SendHello
  <1>2. CASE cmd = "help"
    BY <1>2
  <1>3. CASE cmd = "send"
    BY <1>3 DEF HandleSend
  <1>4. CASE cmd = "check"
    BY <1>4 DEF HandleConfigurationCheck, ConfigDialogue
  <1>5. CASE cmd = "show"
    BY <1>5 DEF HandleShowConfiguration, HandleConfigurationCheck, ConfigDialogue
  <1>6. CASE cmd = "rename"
    BY <1>6 DEF HandleConfigureName
  <1>7. CASE cmd = "comp"
    BY <1>7 DEF HandleConfigureCompressor
  <1>8. CASE cmd = "compress"
    BY <1>8 DEF HandleCompress
  <1> QED
    BY <1>1, <1>2, <1>3, <1>4, <1>5, <1>6, <1>7, <1>8

LEMMA ScriptIsLong ==
  ASSUME NEW cmd \in DOMAIN ClientScript
  PROVE  Len(ClientScript[cmd]) \in Nat /\ Len(ClientScript[cmd]) >= 2
  <1>1. \A n \in Nat \ {0, 1} : n \in Nat /\ n >= 2
    OBVIOUS
  <1>2. Len(ClientScript[cmd]) \in Nat \ {0, 1}
    BY ClientClockEnds
  <1> QED
    BY <1>1, <1>2

(* The command loop is the start of the dialogue of any command.            *)
LEMMA LoopScript ==
  /\ Len(ServerScript["loop"]) = 3
  /\ ServerScript["loop"][1] = Get("cmd", "cmd")
  /\ ServerScript["loop"][2] = OK
  /\ ServerScript["loop"][3] = Do("dispatch")
  /\ ServerClock["loop"][1] = 0 /\ ServerClock["loop"][2] = 1 /\ ServerClock["loop"][3] = 2
  BY DEF ServerScript, ServerClock, CommandLoop

(* The messages themselves: those at the ends of a dialogue are constants.  *)
LEMMA DialogueShape ==
  ASSUME NEW cmd \in DOMAIN ClientScript
  PROVE  /\ \A i \in 1 .. Length(cmd) :
              /\ Dialogue[cmd][i].who \in {"client", "server"}
              /\ Dialogue[cmd][i].kind = "rsp" => Dialogue[cmd][i].x \in {"ack", "bye"}
         /\ cmd # "hello" => Dialogue[cmd][1] = Cl("cmd", cmd) /\ Dialogue[cmd][2] = SOk
         /\ Length(cmd) > 2 => Dialogue[cmd][Length(cmd) - 1].who # Dialogue[cmd][Length(cmd)].who
         /\ Dialogue[cmd][Length(cmd)].x \in {"ack", "bye"}
         /\ Length(cmd) = 2 <=> cmd \in {"help", "quit"}
  <1> USE DEF ClientScript, Dialogue, Length, ConfigDialogue, Cl, Sv, COk, SOk, CBye, SBye
  <1>1. CASE cmd = "hello"
    BY <1>1
  <1>2. CASE cmd = "help"
    BY <1>2
  <1>3. CASE cmd = "quit"
    BY <1>3
  <1>4. CASE cmd = "send"
    BY <1>4
  <1>5. CASE cmd = "check"
    BY <1>5
  <1>6. CASE cmd = "show"
    BY <1>6
  <1>7. CASE cmd = "rename"
    BY <1>7
  <1>8. CASE cmd = "comp"
    BY <1>8
  <1>9. CASE cmd = "compress"
    BY <1>9
  <1> QED
    BY <1>1, <1>2, <1>3, <1>4, <1>5, <1>6, <1>7, <1>8, <1>9

-----------------------------------------------------------------------------
(* The messages in a channel.                                               *)

LEMMA NothingInFlight ==
  ASSUME NEW cmd, NEW from \in Nat, NEW to \in Nat, to <= from, NEW reg
  PROVE  InFlight(cmd, from, to, reg) = <<>>
  BY DEF InFlight

LEMMA PutInFlight ==
  ASSUME NEW cmd, NEW from \in Nat, NEW to \in Nat, from <= to, NEW reg
  PROVE  Append(InFlight(cmd, from, to, reg), Message(reg, Dialogue[cmd][to + 1]))
           = InFlight(cmd, from, to + 1, reg)
  BY DEF InFlight

LEMMA PutSecond ==
  \A cmd, reg : \A from \in Nat :
    from <= 1 => Append(InFlight(cmd, from, 1, reg), Message(reg, Dialogue[cmd][2]))
                   = InFlight(cmd, from, 2, reg)
  <1>1. ASSUME NEW cmd, NEW reg, NEW from \in Nat, from <= 1
        PROVE  Append(InFlight(cmd, from, 1, reg), Message(reg, Dialogue[cmd][1 + 1]))
                 = InFlight(cmd, from, 1 + 1, reg)
    BY <1>1, PutInFlight
  <1> QED
    BY <1>1

LEMMA SomeInFlight ==
  ASSUME NEW cmd, NEW from \in Nat, NEW to \in Nat, from < to, NEW reg
  PROVE  InFlight(cmd, from, to, reg) # <<>>
  <1>1. to - from \in Nat /\ to - from >= 1
    OBVIOUS
  <1> QED
    BY <1>1 DEF InFlight

LEMMA GetInFlight ==
  ASSUME NEW cmd, NEW from \in Nat, NEW to \in Nat, from < to, NEW reg
  PROVE  /\ Head(InFlight(cmd, from, to, reg)) = Message(reg, Dialogue[cmd][from + 1])
         /\ Tail(InFlight(cmd, from, to, reg)) = InFlight(cmd, from + 1, to, reg)
  <1>1. Head(InFlight(cmd, from, to, reg)) = Message(reg, Dialogue[cmd][from + 1])
    BY DEF InFlight
  <1>2. Tail(InFlight(cmd, from, to, reg)) = InFlight(cmd, from + 1, to, reg)
    <2> DEFINE m(i) == Message(reg, Dialogue[cmd][i])
               f    == [i \in 1 .. to - from |-> m(from + i)]
               g    == [i \in 1 .. to - (from + 1) |-> m(from + 1 + i)]
    <2>1. to - from \in Nat /\ to - from >= 1 /\ to - (from + 1) = (to - from) - 1
      OBVIOUS
    <2>2. Tail(f) = g
      <3> HIDE DEF m
      <3> QED
        BY <2>1, SMTT(30)
    <2> QED
      BY <2>2 DEF InFlight
  <1> QED
    BY <1>1, <1>2

(* The same with a message behind them, or nothing.                         *)
Short(rest) == rest = <<>> \/ \E m : rest = Only(m)

LEMMA GetBefore ==
  ASSUME NEW cmd, NEW from \in Nat, NEW to \in Nat, from < to, NEW reg, NEW rest, Short(rest)
  PROVE  /\ Head(Before(InFlight(cmd, from, to, reg), rest)) = Message(reg, Dialogue[cmd][from + 1])
         /\ Tail(Before(InFlight(cmd, from, to, reg), rest)) = Before(InFlight(cmd, from + 1, to, reg), rest)
  <1> DEFINE f == InFlight(cmd, from, to, reg)
             t == InFlight(cmd, from + 1, to, reg)
  <1>1. Head(f) = Message(reg, Dialogue[cmd][from + 1]) /\ Tail(f) = t
    BY GetInFlight
  <1>2. Before(f, <<>>) = f /\ Before(t, <<>>) = t
    BY DEF InFlight, Before
  <1>3. CASE rest = <<>>
    <2> HIDE DEF f, t
    <2>1. Before(f, rest) = f /\ Before(t, rest) = t
      BY <1>2, <1>3
    <2> QED
      BY <1>1, <2>1 DEF f, t
  <1>4. ASSUME NEW m
        PROVE  /\ Head(Before(f, Only(m))) = Message(reg, Dialogue[cmd][from + 1])
               /\ Tail(Before(f, Only(m))) = Before(t, Only(m))
    <2>2. Head(f \o <<m>>) = Message(reg, Dialogue[cmd][from + 1])
      BY DEF InFlight
    <2>3. Tail(f \o <<m>>) = t \o <<m>>
      BY DEF InFlight
    <2> QED
      BY <2>2, <2>3 DEF Before, Only
  <1> QED
    BY <1>3, <1>4 DEF Short

LEMMA PutBehind ==
  ASSUME NEW cmd, NEW from \in Nat, NEW to \in Nat, NEW reg
  PROVE  \A m : Append(InFlight(cmd, from, to, reg), m) = Before(InFlight(cmd, from, to, reg), Only(m))
  <1>1. ASSUME NEW m
        PROVE  Append(InFlight(cmd, from, to, reg), m) = InFlight(cmd, from, to, reg) \o <<m>>
    <2>1. PICK n \in Nat : InFlight(cmd, from, to, reg) = [i \in 1 .. n |-> InFlight(cmd, from, to, reg)[i]]
      <3>1. CASE from <= to
        <4>1. to - from \in Nat
          BY <3>1
        <4> QED
          BY <4>1 DEF InFlight
      <3>2. CASE to < from
        <4>1. 1 .. to - from = 1 .. 0
          BY <3>2
        <4> QED
          BY <4>1 DEF InFlight
      <3> QED
        BY <3>1, <3>2
    <2> QED
      BY <2>1
  <1> QED
    BY <1>1 DEF Before, Only

LEMMA NothingBehind ==
  \A cmd : \A from, to \in Nat : \A reg :
    Before(InFlight(cmd, from, to, reg), <<>>) = InFlight(cmd, from, to, reg)
  BY DEF InFlight, Before

(* Of one message, or nothing, and what is behind it.                       *)
LEMMA ShortBefore ==
  /\ Short(Begun) /\ \A code : Short(Reply(code))
  /\ \A rest : Short(rest) => Before(<<>>, rest) = rest
  /\ \A m : /\ Before(Only(m), <<>>) = Only(m) /\ Append(<<>>, m) = Only(m) /\ Only(m) # <<>>
            /\ Head(Only(m)) = m /\ Tail(Only(m)) = <<>>
  /\ \A m, n : Append(Only(m), n) = Before(Only(m), Only(n))
  /\ \A m, rest : Short(rest) => /\ Head(Before(Only(m), rest)) = m
                                 /\ Tail(Before(Only(m), rest)) = rest
                                 /\ Before(Only(m), rest) # <<>>
  /\ \A x, m : Short(x) => Append(Before(x, <<>>), m) = Before(x, Only(m))
  /\ Short(<<>>) /\ \A m : Short(Only(m))
  <1>1. Short(Begun) /\ \A code : Short(Reply(code))
    BY DEF Short, Begun, Reply
  <1>2. ASSUME NEW rest, Short(rest) PROVE Before(<<>>, rest) = rest
    BY <1>2 DEF Short, Before, Only
  <1>3. ASSUME NEW m
        PROVE  /\ Before(Only(m), <<>>) = Only(m) /\ Append(<<>>, m) = Only(m) /\ Only(m) # <<>>
               /\ Head(Only(m)) = m /\ Tail(Only(m)) = <<>>
    BY DEF Before, Only
  <1>4. \A m, n : Append(Only(m), n) = Before(Only(m), Only(n))
    BY DEF Before, Only
  <1>5. ASSUME NEW m, NEW rest, Short(rest)
        PROVE  /\ Head(Before(Only(m), rest)) = m
               /\ Tail(Before(Only(m), rest)) = rest
               /\ Before(Only(m), rest) # <<>>
    <2>1. CASE rest = <<>>
      BY <1>3, <2>1
    <2>2. ASSUME NEW n PROVE /\ Head(Before(Only(m), Only(n))) = m
                            /\ Tail(Before(Only(m), Only(n))) = Only(n)
                            /\ Before(Only(m), Only(n)) # <<>>
      <3>1. Head(<<m>> \o <<n>>) = m
        OBVIOUS
      <3>2. Tail(<<m>> \o <<n>>) = [i \in 1 .. 1 |-> n]
        OBVIOUS
      <3>3. [i \in 1 .. 1 |-> n] = <<n>>
        OBVIOUS
      <3>4. <<m>> \o <<n>> # <<>>
        OBVIOUS
      <3> QED
        BY <3>1, <3>2, <3>3, <3>4 DEF Before, Only
    <2> QED
      BY <1>5, <2>1, <2>2 DEF Short
  <1>6. ASSUME NEW x, NEW m, Short(x)
        PROVE  Append(Before(x, <<>>), m) = Before(x, Only(m))
    <2>1. CASE x = <<>>
      <3>1. Short(<<>>) /\ Short(Only(m))
        BY DEF Short
      <3>2. Before(<<>>, <<>>) = <<>> /\ Before(<<>>, Only(m)) = Only(m)
        BY <1>2, <3>1
      <3> QED
        BY <1>3, <2>1, <3>2
    <2>2. CASE \E n : x = Only(n)
      BY <1>3, <1>4, <2>2
    <2> QED
      BY <1>6, <2>1, <2>2 DEF Short
  <1>7. Short(<<>>) /\ \A m : Short(Only(m))
    BY DEF Short
  <1> QED
    BY <1>1, <1>2, <1>3, <1>4, <1>5, <1>6, <1>7

(* Constants do not depend on the registers.                                *)
LEMMA ConstantsInFlight ==
  ASSUME NEW cmd, NEW from \in Nat, NEW to \in Nat, NEW r, NEW s,
         DOMAIN r = DOMAIN Blank, DOMAIN s = DOMAIN Blank,
         \A i \in from + 1 .. to : Dialogue[cmd][i].x \in {"ack", "bye"}
  PROVE  InFlight(cmd, from, to, r) = InFlight(cmd, from, to, s)
  BY DEF InFlight, Message, Value, Blank

(* What a side puts at the end of a dialogue are constants.                 *)
LEMMA LastInFlight ==
  ASSUME NEW cmd \in DOMAIN ClientScript, NEW who, NEW from \in Nat,
         PutBy(who, cmd, from, Length(cmd)), NEW r, NEW s,
         DOMAIN r = DOMAIN Blank, DOMAIN s = DOMAIN Blank
  PROVE  InFlight(cmd, from, Length(cmd), r) = InFlight(cmd, from, Length(cmd), s)
  <1>1. Length(cmd) \in Nat \ {0, 1}
    BY ClientClockEnds
  <1>2. \A i \in from + 1 .. Length(cmd) : i = Length(cmd) \/ Length(cmd) = 2
    BY <1>1, DialogueShape DEF PutBy
  <1>3. \A i \in from + 1 .. Length(cmd) : Dialogue[cmd][i].x \in {"ack", "bye"}
    <2>1. CASE Length(cmd) = 2
      <3>1. Dialogue[cmd][1].who = "client" /\ Dialogue[cmd][2] = SOk
        <4>1. cmd # "hello"
          BY <2>1, DialogueShape
        <4>2. Dialogue[cmd][1] = Cl("cmd", cmd) /\ Dialogue[cmd][2] = SOk
          BY <4>1, DialogueShape
        <4> QED
          BY <4>2 DEF Cl
      <3>2. from # 0
        BY <2>1, <3>1 DEF PutBy, SOk, Sv
      <3> QED
        BY <2>1, <3>1, <3>2 DEF SOk, Sv
    <2>2. CASE Length(cmd) # 2
      BY <1>1, <1>2, <2>2, DialogueShape
    <2> QED
      BY <2>1, <2>2
  <1> QED
    BY <1>1, <1>3, ConstantsInFlight

(* A constant is the answer it looks like.                                  *)
LEMMA AnswersInFlight ==
  ASSUME NEW cmd \in DOMAIN ClientScript, NEW i \in 1 .. Length(cmd),
         NEW reg, DOMAIN reg = DOMAIN Blank
  PROVE  LET m == Message(reg, Dialogue[cmd][i])
         IN  /\ m.kind = Dialogue[cmd][i].kind
             /\ m.kind = "rsp" => m.val \in {"ack", "bye"} /\ m.val \notin Refusal
  BY DialogueShape DEF Message, Value, Blank, Refusal

-----------------------------------------------------------------------------
(* The place of a side in its script.                                       *)

LEMMA ClientPlace ==
  ASSUME SidesOK, ClientRunning
  PROVE  /\ client.cmd \in DOMAIN ClientScript /\ client.pos \in 1 .. Len(ClientScript[client.cmd])
         /\ CDone \in 0 .. Length(client.cmd) /\ Length(client.cmd) \in Nat
         /\ ClientOp.do \in {"put", "get"} => /\ CDone < Length(client.cmd)
                                              /\ Dialogue[client.cmd][CDone + 1].kind = ClientOp.kind
         /\ ClientOp.do = "put" => Dialogue[client.cmd][CDone + 1] = Cl(ClientOp.kind, ClientOp.x)
         /\ ClientOp.do = "get" => Dialogue[client.cmd][CDone + 1].who = "server"
         /\ client' = Step(client) =>
              /\ client'.cmd = client.cmd /\ client'.mode = client.mode
              /\ client'.pos = client.pos + 1
              /\ CDone' = IF ClientOp.do \in {"put", "get"} THEN CDone + 1 ELSE CDone
  <1>1. /\ client.cmd \in DOMAIN ClientScript /\ client.pos \in 1 .. Len(ClientScript[client.cmd])
        /\ Length(client.cmd) \in Nat
    BY ClientClockEnds DEF SidesOK, ClientOK, ClientRunning
  <1>2. client' = Step(client) => /\ client'.cmd = client.cmd /\ client'.mode = client.mode
                                  /\ client'.pos = client.pos + 1
    BY DEF Step, SidesOK, ClientOK, ServerOK
  <1>3. /\ CDone \in 0 .. Length(client.cmd)
        /\ ClientOp.do \in {"put", "get"} => /\ CDone < Length(client.cmd)
                                             /\ ClientClock[client.cmd][client.pos + 1] = CDone + 1
                                             /\ Dialogue[client.cmd][CDone + 1].kind = ClientOp.kind
        /\ ClientOp.do = "put" => Dialogue[client.cmd][CDone + 1] = Cl(ClientOp.kind, ClientOp.x)
        /\ ClientOp.do = "get" => Dialogue[client.cmd][CDone + 1].who = "server"
        /\ ClientOp.do \notin {"put", "get"} => ClientClock[client.cmd][client.pos + 1] = CDone
    BY <1>1, ClientFollows DEF CDone, ClientOp
  <1> QED
    BY <1>1, <1>2, <1>3 DEF CDone

LEMMA ServerPlace ==
  ASSUME SidesOK, ServerRunning, server.cmd # "loop"
  PROVE  /\ server.cmd \in DOMAIN ServerScript \ {"loop"} /\ server.cmd \in DOMAIN ClientScript
         /\ server.pos \in 1 .. Len(ServerScript[server.cmd])
         /\ SDone \in 0 .. Length(server.cmd) /\ Length(server.cmd) \in Nat
         /\ ServerOp.do \in {"put", "get"} => /\ SDone < Length(server.cmd)
                                              /\ Dialogue[server.cmd][SDone + 1].kind = ServerOp.kind
         /\ ServerOp.do = "put" => Dialogue[server.cmd][SDone + 1] = Sv(ServerOp.kind, ServerOp.x)
         /\ ServerOp.do = "get" => Dialogue[server.cmd][SDone + 1].who = "client"
         /\ server' = Step(server) =>
              /\ server'.cmd = server.cmd /\ server'.mode = server.mode
              /\ server'.pos = server.pos + 1
              /\ SDone' = IF ServerOp.do \in {"put", "get"} THEN SDone + 1 ELSE SDone
  <1>1. /\ server.cmd \in DOMAIN ServerScript \ {"loop"} /\ server.cmd \in DOMAIN ClientScript
        /\ server.pos \in 1 .. Len(ServerScript[server.cmd])
        /\ Length(server.cmd) \in Nat
    BY ServerClockEnds, ClientClockEnds DEF SidesOK, ServerOK, ServerRunning
  <1>2. server' = Step(server) => /\ server'.cmd = server.cmd /\ server'.mode = server.mode
                                  /\ server'.pos = server.pos + 1
    BY DEF Step, SidesOK, ClientOK, ServerOK
  <1>3. /\ SDone \in 0 .. Length(server.cmd)
        /\ ServerOp.do \in {"put", "get"} => /\ SDone < Length(server.cmd)
                                             /\ ServerClock[server.cmd][server.pos + 1] = SDone + 1
                                             /\ Dialogue[server.cmd][SDone + 1].kind = ServerOp.kind
        /\ ServerOp.do = "put" => Dialogue[server.cmd][SDone + 1] = Sv(ServerOp.kind, ServerOp.x)
        /\ ServerOp.do = "get" => Dialogue[server.cmd][SDone + 1].who = "client"
        /\ ServerOp.do \notin {"put", "get"} => ServerClock[server.cmd][server.pos + 1] = SDone
    BY <1>1, ServerFollows DEF SDone, ServerOp
  <1> QED
    BY <1>1, <1>2, <1>3 DEF SDone

(* The clocks are numbers of messages of the dialogue.                      *)
LEMMA ClocksInRange ==
  ASSUME SidesOK
  PROVE  /\ client.cmd \in DOMAIN ClientScript /\ CDone \in 0 .. Length(client.cmd)
         /\ Length(client.cmd) \in Nat \ {0, 1}
         /\ ClientEnded => CDone = Length(client.cmd)
         /\ server.cmd # "loop" => /\ server.cmd \in DOMAIN ClientScript
                                   /\ SDone \in 0 .. Length(server.cmd)
                                   /\ Length(server.cmd) \in Nat \ {0, 1}
                                   /\ server.pos = Len(ServerScript[server.cmd]) + 1
                                        => SDone = Length(server.cmd)
         /\ server.cmd = "loop" => SDone = server.pos - 1 /\ server.pos \in 1 .. 3
  <1>1. client.cmd \in DOMAIN ClientScript
    BY DEF SidesOK, ClientOK, ServerOK
  <1>2. CDone \in 0 .. Length(client.cmd)
    <2>1. CASE client.pos <= Len(ClientScript[client.cmd])
      <3>1. client.pos \in 1 .. Len(ClientScript[client.cmd])
        BY <1>1, <2>1, ClientClockEnds DEF SidesOK, ClientOK, ServerOK
      <3> QED
        BY <1>1, <3>1, ClientFollows DEF CDone
    <2>2. CASE client.pos = Len(ClientScript[client.cmd]) + 1
      BY <1>1, <2>2, ClientClockEnds DEF CDone
    <2> QED
      BY <1>1, <2>1, <2>2, ClientClockEnds DEF SidesOK, ClientOK, ServerOK
  <1>3. ASSUME server.cmd # "loop"
        PROVE  server.cmd \in DOMAIN ServerScript \ {"loop"} /\ SDone \in 0 .. Length(server.cmd)
    <2>1. server.cmd \in DOMAIN ServerScript \ {"loop"}
      BY <1>3 DEF SidesOK, ClientOK, ServerOK
    <2>2. CASE server.pos <= Len(ServerScript[server.cmd])
      <3>1. server.pos \in 1 .. Len(ServerScript[server.cmd])
        BY <2>1, <2>2, ServerClockEnds DEF SidesOK, ClientOK, ServerOK
      <3> QED
        BY <2>1, <3>1, ServerFollows DEF SDone
    <2>3. CASE server.pos = Len(ServerScript[server.cmd]) + 1
      BY <2>1, <2>3, ServerClockEnds, ClientClockEnds DEF SDone
    <2> QED
      BY <2>1, <2>2, <2>3, ServerClockEnds DEF SidesOK, ClientOK, ServerOK
  <1>4. server.cmd = "loop" => SDone = server.pos - 1 /\ server.pos \in 1 .. 3
    BY LoopScript DEF SDone, SidesOK, ServerOK
  <1> QED
    BY <1>1, <1>2, <1>3, <1>4, ClientClockEnds, ServerClockEnds DEF CDone, SDone, ClientEnded

-----------------------------------------------------------------------------
(* The steps of the shell, as the stream sees them.                         *)

(* A step of a function that is no network operation.                       *)
ClientLocal ==
  /\ ClientRunning /\ ClientOp.do = "do"
  /\ client' = Step(client)
  /\ creg' = creg \/ (ClientOp.x \in {"hash", "open"} /\ DOMAIN creg' = DOMAIN creg)
  /\ UNCHANGED channels

(* The shell ends, or is ended.                                             *)
ClientLeaves ==
  /\ InFrame /\ ~ClientGone
  /\ \E how \in {"left", "aborted", "killed"} : client' = Ends(client, how)
  /\ UNCHANGED <<channels, creg>>

ClientIdle == UNCHANGED <<channels, client, creg>>

(* The archive cannot be created.                                           *)
ArchiveFails ==
  /\ ClientRunning /\ ClientOp.do = "do" /\ ClientOp.x = "create" /\ "create" \in faulted'
  /\ client' = Finish(client, ClientScript)
  /\ UNCHANGED <<channels, creg>>

(* The archive is not what was announced.                                   *)
ArchiveDiffers ==
  /\ ClientRunning /\ ClientOp.do = "do" /\ ClientOp.x = "verify"
  /\ client' = Finish(client, ClientScript)
  /\ c2s' = IF ServerGone THEN c2s ELSE Append(c2s, [kind |-> "rsp", val |-> "err"])
  /\ UNCHANGED <<s2c, creg>>

ShellStep ==
  \/ AtPrompt \/ Refuses \/ ClientStep \/ ClientKilled
  \/ \E f \in Files, v \in Versions : Edit(f, v)

LEMMA ShellSteps ==
  ASSUME ShellStep
  PROVE  /\ server' = server /\ sreg' = sreg /\ faulted \subseteq faulted' /\ InFrame /\ ~ClientGone
         /\ \/ ClientPuts \/ ClientGets \/ ClientRefused \/ ClientMisreads \/ ClientAtEnd \/ ClientFails
            \/ ClientReturns \/ AtPrompt
            \/ ClientLocal \/ ClientLeaves \/ ClientIdle \/ ArchiveFails \/ ArchiveDiffers
  <1> USE DEF svars, Fault
  <1>1. CASE Refuses \/ AtPrompt
    BY <1>1 DEF Refuses, AtPrompt, Starts, ClientIdle, ClientGone
  <1>2. CASE \E f \in Files, v \in Versions : Edit(f, v)
    BY <1>2 DEF Edit, ClientIdle
  <1>3. CASE ClientKilled
    BY <1>3 DEF ClientKilled, ClientLeaves
  <1>4. CASE ClientReturns
    BY <1>4 DEF ClientReturns, ClientGone
  <1>5. CASE \/ ClientPuts \/ ClientGets \/ ClientRefused \/ ClientMisreads \/ ClientAtEnd
             \/ ClientFails
    BY <1>5 DEF ClientPuts, ClientGets, ClientRefused, ClientMisreads, ClientAtEnd, ClientFails,
                ClientRunning, ClientGone
  <1>6. CASE EnableCompressor \/ ReadLocal \/ SendSucceeds \/ SetConfig \/ ArchiveReceived
    BY <1>6 DEF EnableCompressor, ReadLocal, SendSucceeds, SetConfig, ArchiveReceived,
                ClientLocal, ClientDoes, ClientRunning, ClientGone
  <1>7. CASE ClientFileFails
    BY <1>7 DEF ClientFileFails, ClientDoes, ClientRunning, ClientGone, ClientLeaves
  <1>8. CASE CreateArchive
    BY <1>8 DEF CreateArchive, ClientDoes, ClientRunning, ClientGone, ClientLeaves, ClientLocal,
                ArchiveFails
  <1>9. CASE VerifyArchive
    BY <1>9 DEF VerifyArchive, ClientDoes, ClientRunning, ClientGone, ClientLeaves, ClientLocal,
                ArchiveDiffers, channels
  <1> QED
    BY <1>1, <1>2, <1>3, <1>4, <1>5, <1>6, <1>7, <1>8, <1>9 DEF ShellStep, ClientStep

-----------------------------------------------------------------------------
(* The steps of the worker, as the stream sees them.                        *)

ServerLocal ==
  /\ ServerRunning /\ ServerOp.do = "do" /\ ServerOp.x # "dispatch"
  /\ server' = Step(server)
  /\ sreg' = sreg \/ (ServerOp.x \in {"hash", "open"} /\ DOMAIN sreg' = DOMAIN sreg)
  /\ UNCHANGED channels

ServerLeaves ==
  /\ InFrame /\ ~ServerGone
  /\ \E how \in {"closed", "terminated", "killed"} : server' = Ends(server, how)
  /\ UNCHANGED <<channels, sreg>>

(* A reply from an error path.                                              *)
ServerReplies(steps, code) ==
  /\ ServerRunning /\ ServerOp.do = "do" /\ ServerOp.x \in steps
  /\ server' = Finish(server, ServerScript)
  /\ s2c' = IF ClientGone THEN s2c ELSE Append(s2c, [kind |-> "rsp", val |-> code])
  /\ UNCHANGED <<c2s, sreg>>

ArchiveUnreadable ==
  /\ ServerRunning /\ ServerOp.do = "do" /\ ServerOp.x = "open" /\ "read" \in faulted'
  /\ server' = Finish(server, ServerScript)
  /\ UNCHANGED <<channels, sreg>>

WorkerStep == ServerStep \/ ServerKilled

LEMMA WorkerSteps ==
  ASSUME WorkerStep
  PROVE  /\ client' = client /\ creg' = creg /\ faulted \subseteq faulted' /\ InFrame /\ ~ServerGone
         /\ \/ ServerPuts \/ ServerGets \/ ServerRefused \/ ServerMisreads \/ ServerAtEnd \/ ServerFails
            \/ ServerReturns \/ Dispatch
            \/ ServerLocal \/ ServerLeaves \/ ArchiveUnreadable
            \/ \E code \in Refusal : ServerReplies({"existing", "store", "tar"}, code)
            \/ ServerReplies({"create"}, "err") /\ "create" \in faulted'
  <1> USE DEF cvars, Fault
  <1>1. CASE ServerReturns
    BY <1>1 DEF ServerReturns, ServerGone
  <1>2. CASE ServerKilled
    BY <1>2 DEF ServerKilled, ServerLeaves
  <1>3. CASE \/ ServerPuts \/ ServerGets \/ ServerRefused \/ ServerMisreads \/ ServerAtEnd
             \/ ServerFails
    BY <1>3 DEF ServerPuts, ServerGets, ServerRefused, ServerMisreads, ServerAtEnd, ServerFails,
                ServerRunning, ServerGone
  <1>4. CASE Dispatch
    BY <1>4 DEF Dispatch, ServerDoes, ServerRunning, ServerGone
  <1>5. CASE SetServerName \/ SetServerIndex \/ ReadArchive \/ DeleteArchive
    BY <1>5 DEF SetServerName, SetServerIndex, ReadArchive, DeleteArchive,
                ServerLocal, ServerDoes, ServerRunning, ServerGone
  <1>6. CASE OpenFails \/ ServerFileFails
    BY <1>6 DEF OpenFails, ServerFileFails, ArchiveUnreadable, ServerLeaves, ServerDoes,
                ServerRunning, ServerGone
  <1>7. ASSUME NEW code, RepliesAndReturns(code), NEW steps, ServerDoes(steps),
               UNCHANGED <<c2s, sreg>>
        PROVE  ServerReplies(steps, code) \/ ServerLeaves
    BY <1>7 DEF RepliesAndReturns, ServerReplies, ServerLeaves, ServerDoes, ServerRunning, ServerGone,
                channels
  <1>12. ASSUME NEW code \in Refusal, NEW step \in {"existing", "store", "tar"},
                ServerReplies({step}, code)
         PROVE  \E c \in Refusal : ServerReplies({"existing", "store", "tar"}, c)
    BY <1>12 DEF ServerReplies
  <1>13. "err" \in Refusal /\ "cnt" \in Refusal
    BY DEF Refusal
  <1>14. ASSUME NEW steps, ServerDoes(steps), server' = Step(server), "dispatch" \notin steps,
                UNCHANGED <<c2s, s2c, sreg>>
         PROVE  ServerLocal
    BY <1>14 DEF ServerLocal, ServerDoes, channels
  <1>15. ASSUME NEW steps, ServerDoes(steps) PROVE InFrame /\ ~ServerGone
    BY <1>15 DEF ServerDoes, ServerRunning, ServerGone
  <1>8. CASE CheckExisting
    <2>1. ServerDoes({"existing"}) /\ UNCHANGED <<c2s, sreg>> /\ client' = client /\ creg' = creg
          /\ (RepliesAndReturns("cnt") \/ (server' = Step(server) /\ UNCHANGED s2c))
          /\ faulted \subseteq faulted'
      BY <1>8 DEF CheckExisting
    <2> QED
      BY <1>7, <1>12, <1>13, <1>14, <1>15, <2>1
  <1>9. CASE CreateFile
    <2>1. ServerDoes({"create"}) /\ UNCHANGED <<c2s, sreg>> /\ client' = client /\ creg' = creg
          /\ \/ RepliesAndReturns("err") /\ "create" \in faulted'
             \/ server' = Step(server) /\ UNCHANGED s2c
          /\ faulted \subseteq faulted'
      BY <1>9 DEF CreateFile
    <2> QED
      BY <1>7, <1>14, <1>15, <2>1
  <1>10. CASE StoreFile
    <2>1. ServerDoes({"store"}) /\ UNCHANGED <<c2s, sreg>> /\ client' = client /\ creg' = creg
          /\ (RepliesAndReturns("err") \/ (server' = Step(server) /\ UNCHANGED s2c))
          /\ faulted \subseteq faulted'
      BY <1>10 DEF StoreFile
    <2> QED
      BY <1>7, <1>12, <1>13, <1>14, <1>15, <2>1
  <1>11. CASE MakeArchive
    <2>1. ServerDoes({"tar"}) /\ UNCHANGED <<c2s, sreg>> /\ client' = client /\ creg' = creg
          /\ (RepliesAndReturns("err") \/ (server' = Step(server) /\ UNCHANGED s2c))
          /\ faulted \subseteq faulted'
      BY <1>11 DEF MakeArchive
    <2> QED
      BY <1>7, <1>12, <1>13, <1>14, <1>15, <2>1
  <1> QED
    BY <1>1, <1>2, <1>3, <1>4, <1>5, <1>6, <1>8, <1>9, <1>10, <1>11 DEF WorkerStep, ServerStep

-----------------------------------------------------------------------------
(* The places stay places of the scripts.                                   *)

LEMMA SidesOKInit == Init => SidesOK
  BY DEF Init, SidesOK, ClientOK, ServerOK, ClientScript, ServerScript, CommandLine, SendHello, Blank

LEMMA StoreKeeps == \A reg, x, v : DOMAIN Store(reg, x, v) = DOMAIN reg
  BY DEF Store

LEMMA ClientOKStep ==
  ASSUME ClientOK, ShellStep
  PROVE  ClientOK'
  <1> USE ClientClockEnds DEF ClientOK
  <1>1. client.cmd \in DOMAIN ClientScript /\ Len(ClientScript[client.cmd]) \in Nat
    OBVIOUS
  <1>2. ASSUME ClientRunning, client' = Step(client), DOMAIN creg' = DOMAIN Blank
        PROVE  ClientOK'
    BY <1>2 DEF Step, ClientRunning
  <1>3. ASSUME client.mode = "run", client' = Finish(client, ClientScript), DOMAIN creg' = DOMAIN Blank
        PROVE  ClientOK'
    BY <1>3 DEF Finish
  <1>4. ASSUME NEW how \in {"lost", "left", "aborted", "killed"}, client' = Ends(client, how),
               DOMAIN creg' = DOMAIN Blank
        PROVE  ClientOK'
    BY <1>4 DEF Ends
  <1>5. ASSUME NEW cmd \in DOMAIN ClientScript, client' = Enter(client, cmd),
               DOMAIN creg' = DOMAIN Blank
        PROVE  ClientOK'
    <2>1. Len(ClientScript[cmd]) \in Nat
      OBVIOUS
    <2>2. client' = [mode |-> "run", cmd |-> cmd, pos |-> 1]
      BY <1>5 DEF Enter
    <2>3. client'.mode = "run" /\ client'.cmd = cmd /\ client'.pos = 1
      BY <2>2
    <2>4. client' \in [mode : {"run", "prompt", "lost", "left", "aborted", "killed"},
                      cmd : DOMAIN ClientScript, pos : Nat \ {0}]
      BY <2>2
    <2> QED
      BY <1>5, <2>1, <2>3, <2>4
  <1>6. CASE ClientPuts \/ ClientGets \/ ClientLocal
    BY <1>2, <1>6, StoreKeeps DEF ClientPuts, ClientGets, ClientLocal
  <1>7. CASE ClientRefused \/ ClientMisreads \/ ArchiveFails \/ ArchiveDiffers
    BY <1>3, <1>4, <1>7 DEF ClientRefused, ClientMisreads, ArchiveFails, ArchiveDiffers, ClientRunning
  <1>8. CASE ClientAtEnd
    BY <1>2, <1>4, <1>8, StoreKeeps DEF ClientAtEnd
  <1>9. CASE ClientFails
    BY <1>3, <1>4, <1>9 DEF ClientFails, ClientRunning
  <1>10. CASE ClientLeaves \/ ClientIdle
    BY <1>4, <1>10 DEF ClientLeaves, ClientIdle
  <1>11. CASE ClientReturns
    <2>1. DOMAIN creg' = DOMAIN Blank
      BY <1>11 DEF ClientReturns
    <2>2. CASE client.cmd = "check"
      BY <1>5, <1>11, <2>1, <2>2 DEF ClientReturns, ClientScript
    <2>3. CASE client.cmd = "quit"
      BY <1>4, <1>11, <2>1, <2>3 DEF ClientReturns
    <2>4. CASE client.cmd \notin {"check", "quit"}
      BY <1>1, <1>11, <2>1, <2>4 DEF ClientReturns, Ends
    <2> QED
      BY <2>2, <2>3, <2>4
  <1>12. CASE AtPrompt
    <2>1. DOMAIN creg' = DOMAIN Blank
      BY <1>12 DEF AtPrompt, Starts, Blank
    <2>2. \E cmd \in DOMAIN ClientScript : client' = Enter(client, cmd)
      BY <1>12 DEF AtPrompt, Starts, ClientScript
    <2> QED
      BY <1>5, <2>1, <2>2
  <1> QED
    BY <1>6, <1>7, <1>8, <1>9, <1>10, <1>11, <1>12, ShellSteps

LEMMA ServerOKStep ==
  ASSUME ServerOK, WorkerStep
  PROVE  ServerOK'
  <1> USE DEF ServerOK
  <1>1. server.cmd \in DOMAIN ServerScript /\ Len(ServerScript[server.cmd]) \in Nat
    BY ScriptLengths
  <1>0. server.cmd = "loop" /\ ServerRunning => ServerOp \in {Get("cmd", "cmd"), OK, Do("dispatch")}
    BY LoopScript, <1>1 DEF ServerOp, ServerRunning
  <1>2. ASSUME ServerRunning, server' = Step(server), DOMAIN sreg' = DOMAIN Blank,
               server.cmd = "loop" => server.pos # 3
        PROVE  ServerOK'
    BY <1>1, <1>2 DEF Step, ServerRunning
  <1>3. ASSUME server' = Finish(server, ServerScript), server.cmd # "loop", DOMAIN sreg' = DOMAIN Blank
        PROVE  ServerOK'
    BY <1>1, <1>3 DEF Finish
  <1>4. ASSUME NEW how \in {"lost", "closed", "terminated", "killed"}, server' = Ends(server, how),
               DOMAIN sreg' = DOMAIN Blank
        PROVE  ServerOK'
    BY <1>4 DEF Ends
  <1>5. ASSUME NEW cmd \in DOMAIN ServerScript, server' = Enter(server, cmd), server.mode = "run",
               DOMAIN sreg' = DOMAIN Blank
        PROVE  ServerOK'
    <2>1. Len(ServerScript[cmd]) \in Nat
      BY ScriptLengths
    <2>2. server' = [mode |-> "run", cmd |-> cmd, pos |-> 1]
      BY <1>5 DEF Enter
    <2>3. server'.mode = "run" /\ server'.cmd = cmd /\ server'.pos = 1
      BY <2>2
    <2>4. server' \in [mode : {"run", "lost", "closed", "terminated", "killed"},
                      cmd : DOMAIN ServerScript, pos : Nat \ {0}]
      BY <2>2
    <2> QED
      BY <1>5, <2>1, <2>3, <2>4
  <1>6. ServerRunning /\ (ServerOp.do # "do" \/ ServerOp.x # "dispatch")
          => (server.cmd = "loop" => server.pos # 3)
    BY LoopScript DEF ServerOp, Do
  <1>7. ServerRunning /\ server.cmd = "loop"
          => (ServerOp.do = "do" => ServerOp.x = "dispatch") /\ (ServerOp.do = "get" => ServerOp.kind = "cmd")
    <2> SUFFICES ASSUME ServerOp \in {Get("cmd", "cmd"), OK, Do("dispatch")}
                 PROVE  /\ ServerOp.do = "do" => ServerOp.x = "dispatch"
                        /\ ServerOp.do = "get" => ServerOp.kind = "cmd"
      BY <1>0
    <2>1. CASE ServerOp = Get("cmd", "cmd")
      BY <2>1 DEF Get
    <2>2. CASE ServerOp = OK
      BY <2>2 DEF OK, Put
    <2>3. CASE ServerOp = Do("dispatch")
      BY <2>3 DEF Do
    <2> QED
      BY <2>1, <2>2, <2>3
  <1>8. CASE ServerPuts \/ ServerGets
    <2>1. ServerRunning /\ ServerOp.do # "do" /\ server' = Step(server)
      BY <1>8 DEF ServerPuts, ServerGets
    <2>2. DOMAIN sreg' = DOMAIN Blank
      BY <1>8, StoreKeeps DEF ServerPuts, ServerGets
    <2>3. server.cmd = "loop" => server.pos # 3
      BY <1>6, <2>1
    <2> QED
      BY <1>2, <2>1, <2>2, <2>3
  <1>9. CASE ServerLocal
    <2>1. server.cmd # "loop"
      BY <1>7, <1>9 DEF ServerLocal
    <2> QED
      BY <1>2, <1>9, <2>1 DEF ServerLocal
  <1>10. CASE ServerRefused \/ ServerMisreads
    <2>1. CASE ServerRefused
      <3>1. server.cmd # "loop"
        BY <1>7, <2>1 DEF ServerRefused
      <3> QED
        BY <1>3, <2>1, <3>1 DEF ServerRefused
    <2>2. CASE ServerMisreads
      BY <1>4, <2>2 DEF ServerMisreads
    <2> QED
      BY <1>10, <2>1, <2>2
  <1>11. CASE ServerAtEnd
    <2>1. ServerRunning /\ ServerOp.do # "do" /\ DOMAIN sreg' = DOMAIN Blank
      BY <1>11, StoreKeeps DEF ServerAtEnd
    <2>2. server' = Step(server) \/ \E how \in {"closed", "terminated"} : server' = Ends(server, how)
      BY <1>11 DEF ServerAtEnd
    <2>3. server.cmd = "loop" => server.pos # 3
      BY <1>6, <2>1
    <2>4. CASE server' = Step(server)
      BY <1>2, <2>1, <2>3, <2>4
    <2> QED
      BY <1>4, <2>1, <2>2, <2>4
  <1>12. CASE ServerFails
    BY <1>3, <1>4, <1>12 DEF ServerFails
  <1>13. CASE ServerReturns
    BY <1>5, <1>13 DEF ServerReturns, ServerScript
  <1>14. CASE Dispatch
    <2>1. DOMAIN sreg' = DOMAIN Blank /\ server.mode = "run"
      BY <1>14 DEF Dispatch, Blank, ServerDoes, ServerRunning
    <2> QED
      BY <1>4, <1>5, <1>14, <2>1, HandlerIsFunction DEF Dispatch
  <1>15. CASE ServerLeaves
    BY <1>4, <1>15 DEF ServerLeaves
  <1>16. CASE ArchiveUnreadable \/ \E steps, code : ServerReplies(steps, code) /\ "dispatch" \notin steps
    BY <1>3, <1>7, <1>16 DEF ArchiveUnreadable, ServerReplies
  <1> QED
    BY <1>8, <1>9, <1>10, <1>11, <1>12, <1>13, <1>14, <1>15, <1>16, WorkerSteps

-----------------------------------------------------------------------------
(* Inside a dialogue.                                                       *)

(* A file is read when the other side has answered what was put before.     *)
LEMMA ReadsAfterAnswer ==
  /\ SidesOK /\ ClientRunning /\ ClientOp.do = "do" /\ ClientOp.x \in {"hash", "open"}
       => CDone > 0 /\ Dialogue[client.cmd][CDone].who = "server"
  /\ SidesOK /\ ServerRunning /\ ServerOp.do = "do" /\ ServerOp.x \in {"hash", "open"}
       => SDone > 0 /\ server.cmd # "loop" /\ Dialogue[server.cmd][SDone].who = "client"
  <1>1. ASSUME NEW cmd \in DOMAIN ClientScript, NEW p \in 1 .. Len(ClientScript[cmd]),
               ClientScript[cmd][p].do = "do", ClientScript[cmd][p].x \in {"hash", "open"}
        PROVE  ClientClock[cmd][p] > 0 /\ Dialogue[cmd][ClientClock[cmd][p]].who = "server"
    <2> USE DEF ClientScript, Put, Get, Do, Ack, OK, BYE
    <2>1. CASE cmd = "hello"
      BY <1>1, <2>1 DEF CommandLine
    <2>2. CASE cmd = "help"
      BY <1>1, <2>2 DEF DoHelp
    <2>3. CASE cmd = "quit"
      BY <1>1, <2>3 DEF DoQuit
    <2>4. CASE cmd = "check"
      BY <1>1, <2>4 DEF ConfigurationCheck, GetConfig
    <2>5. CASE cmd = "show"
      BY <1>1, <2>5 DEF DoShowConf, GetConfig
    <2>6. CASE cmd = "rename"
      BY <1>1, <2>6 DEF DoConfName
    <2>7. CASE cmd = "comp"
      BY <1>1, <2>7 DEF DoConfComp
    <2>8. CASE cmd = "compress"
      BY <1>1, <2>8 DEF DoCompress
    <2>9. CASE cmd = "send"
      <3>1. p \in {10, 13}
        BY <1>1, <2>9 DEF DoSend
      <3> QED
        BY <2>9, <3>1 DEF ClientClock, Dialogue, SOk, Sv, Cl
    <2> QED
      BY <2>1, <2>2, <2>3, <2>4, <2>5, <2>6, <2>7, <2>8, <2>9
  <1>2. ASSUME NEW cmd \in DOMAIN ServerScript, NEW p \in 1 .. Len(ServerScript[cmd]),
               ServerScript[cmd][p].do = "do", ServerScript[cmd][p].x \in {"hash", "open"}
        PROVE  /\ ServerClock[cmd][p] > 0 /\ cmd # "loop"
               /\ Dialogue[cmd][ServerClock[cmd][p]].who = "client"
    <2> USE DEF ServerScript, Put, Get, Do, Ack, OK, BYE
    <2>1. CASE cmd = "hello"
      BY <1>2, <2>1 DEF SendHello
    <2>2. CASE cmd = "loop"
      BY <1>2, <2>2 DEF CommandLoop
    <2>3. CASE cmd = "help"
      BY <1>2, <2>3
    <2>4. CASE cmd = "send"
      BY <1>2, <2>4 DEF HandleSend
    <2>5. CASE cmd = "check"
      BY <1>2, <2>5 DEF HandleConfigurationCheck
    <2>6. CASE cmd = "show"
      BY <1>2, <2>6 DEF HandleShowConfiguration, HandleConfigurationCheck
    <2>7. CASE cmd = "rename"
      BY <1>2, <2>7 DEF HandleConfigureName
    <2>8. CASE cmd = "comp"
      BY <1>2, <2>8 DEF HandleConfigureCompressor
    <2>9. CASE cmd = "compress"
      <3>1. p \in {6, 9}
        BY <1>2, <2>9 DEF HandleCompress
      <3> QED
        BY <2>9, <3>1 DEF ServerClock, Dialogue, COk, Sv, Cl
    <2> QED
      BY <2>1, <2>2, <2>3, <2>4, <2>5, <2>6, <2>7, <2>8, <2>9
  <1>3. ASSUME SidesOK, ServerRunning
        PROVE  server.cmd \in DOMAIN ServerScript /\ server.pos \in 1 .. Len(ServerScript[server.cmd])
    BY <1>3, ScriptLengths DEF SidesOK, ServerOK, ServerRunning
  <1> QED
    BY <1>1, <1>2, <1>3, ClientPlace DEF CDone, SDone, ClientOp, ServerOp

(* Who is ahead in a dialogue.                                              *)
LEMMA Ahead ==
  ASSUME SidesOK, NEW b \in Nat, Between(b), NEW n \in Nat
  PROVE  /\ n < CDone /\ Dialogue[client.cmd][n + 1].who = "server" => b > n
         /\ n < b /\ Dialogue[client.cmd][n + 1].who = "client" => CDone > n
         /\ ~ClientGone /\ s2c # <<>> => CDone < b
         /\ ~ServerGone /\ c2s # <<>> => b < CDone
  <1>1. CDone \in Nat
    BY ClocksInRange
  <1>2. CDone >= b /\ ~ClientGone => s2c = <<>>
    BY <1>1, NothingInFlight DEF Between, Channels
  <1>3. b >= CDone /\ ~ServerGone => c2s = <<>>
    BY <1>1, NothingInFlight DEF Between, Channels
  <1>4. n < CDone /\ b <= n => Dialogue[client.cmd][n + 1].who = "client"
    BY <1>1 DEF Between, PutBy
  <1>5. n < b /\ CDone <= n => Dialogue[client.cmd][n + 1].who = "server"
    BY <1>1 DEF Between, PutBy
  <1> QED
    BY <1>1, <1>2, <1>3, <1>4, <1>5

(* The shell goes on with the dialogue.                                     *)
LEMMA ShellTalks ==
  ASSUME SidesOK, ~ClientGone, NEW b \in Nat, Between(b), server' = server, sreg' = sreg,
         ClientPuts \/ ClientGets \/ ClientLocal
  PROVE  Between(b)' /\ client'.cmd = client.cmd
  <1> USE DEF Between
  <1>0. /\ ClientRunning /\ client'.cmd = client.cmd /\ client'.mode = client.mode
        /\ CDone' = (IF ClientOp.do \in {"put", "get"} THEN CDone + 1 ELSE CDone)
        /\ CDone \in Nat /\ (ServerGone' <=> ServerGone) /\ ~ClientGone'
    BY ClientPlace, ClocksInRange DEF ClientPuts, ClientGets, ClientLocal, ServerGone, ClientGone
  <1>1. CASE ClientPuts
    <2>1. ClientOp.do = "put" /\ Dialogue[client.cmd][CDone + 1] = Cl(ClientOp.kind, ClientOp.x)
      BY <1>0, <1>1, ClientPlace DEF ClientPuts
    <2>2. b <= CDone
      BY <1>0, <2>1 DEF PutBy, Cl
    <2>3. Message(creg, Dialogue[client.cmd][CDone + 1]) = [kind |-> ClientOp.kind, val |-> Value(creg, ClientOp.x)]
      BY <2>1 DEF Message, Cl
    <2>4. PutBy("client", client.cmd, b, CDone + 1) /\ PutBy("server", client.cmd, CDone + 1, b)
      BY <1>0, <2>1, <2>2 DEF PutBy, Cl
    <2>5. ~ServerGone => c2s' = InFlight(client.cmd, b, CDone + 1, creg)
      BY <1>0, <1>1, <2>2, <2>3, PutInFlight DEF ClientPuts, Channels
    <2>6. s2c' = InFlight(client.cmd, CDone + 1, b, sreg)
      BY <1>0, <1>1, <2>2, NothingInFlight DEF ClientPuts, Channels
    <2> QED
      BY <1>0, <1>1, <2>1, <2>4, <2>5, <2>6 DEF ClientPuts, Channels
  <1>2. CASE ClientGets
    <2>1. ClientOp.do = "get" /\ Dialogue[client.cmd][CDone + 1].who = "server" /\ CDone < b
      BY <1>0, <1>2, ClientPlace, Ahead DEF ClientGets
    <2>2. PutBy("client", client.cmd, b, CDone + 1) /\ PutBy("server", client.cmd, CDone + 1, b)
      BY <1>0, <2>1 DEF PutBy
    <2>3. s2c' = InFlight(client.cmd, CDone + 1, b, sreg)
      BY <1>0, <1>2, <2>1, GetInFlight DEF ClientGets, Channels
    <2>4. ~ServerGone => c2s' = InFlight(client.cmd, b, CDone + 1, creg')
      BY <1>0, <1>2, <2>1, NothingInFlight DEF ClientGets, Channels
    <2> QED
      BY <1>0, <2>1, <2>2, <2>3, <2>4 DEF Channels
  <1>3. CASE ClientLocal
    <2>1. creg' = creg \/ CDone <= b
      <3>1. CASE ClientOp.x \in {"hash", "open"}
        <4>1. CDone > 0 /\ Dialogue[client.cmd][CDone].who = "server"
          BY <1>0, <1>3, <3>1, ReadsAfterAnswer DEF ClientLocal
        <4> QED
          BY <1>0, <4>1 DEF PutBy
      <3> QED
        BY <1>3, <3>1 DEF ClientLocal
    <2>2. ~ServerGone => c2s' = InFlight(client.cmd, b, CDone, creg')
      BY <1>0, <1>3, <2>1, NothingInFlight DEF ClientLocal, Channels, channels
    <2> QED
      BY <1>0, <1>3, <2>2 DEF ClientLocal, Channels, channels
  <1> QED
    BY <1>1, <1>2, <1>3

(* It reads what it expects, and no refusal.                                *)
LEMMA ShellReads ==
  ASSUME SidesOK, ~ClientGone, NEW b \in Nat, b <= Length(client.cmd), Between(b)
  PROVE  ~ClientRefused /\ ~ClientMisreads
  <1> SUFFICES ASSUME ClientRefused \/ ClientMisreads PROVE FALSE
    OBVIOUS
  <1>1. ClientRunning /\ ClientOp.do = "get" /\ s2c # <<>>
    BY DEF ClientRefused, ClientMisreads
  <1>2. CDone < b /\ CDone \in Nat /\ b <= Length(client.cmd) /\ Length(client.cmd) \in Nat
    <2>1. CDone < b
      BY <1>1, Ahead
    <2> QED
      BY <2>1, ClocksInRange
  <1>3. Head(s2c) = Message(sreg, Dialogue[client.cmd][CDone + 1])
    <2>1. s2c = InFlight(client.cmd, CDone, b, sreg)
      BY DEF Between, Channels
    <2> QED
      BY <1>2, <2>1, GetInFlight
  <1>4. CDone + 1 \in 1 .. Length(client.cmd) /\ client.cmd \in DOMAIN ClientScript
    BY <1>2, ClocksInRange
  <1>5. Head(s2c).kind = ClientOp.kind /\ (Head(s2c).kind = "rsp" => Head(s2c).val \notin Refusal)
    BY <1>1, <1>3, <1>4, AnswersInFlight, ClientPlace DEF SidesOK, ServerOK
  <1> QED
    BY <1>5 DEF ClientRefused, ClientMisreads

-----------------------------------------------------------------------------
(* Somebody is gone.                                                        *)

(* Only a message of another kind than expected loses the framing.          *)
LEMMA ShellFramed ==
  ASSUME SidesOK, ShellStep
  PROVE  InFrame' \/ ClientMisreads
  <1> USE DEF SidesOK, ClientOK, InFrame, Step, Finish, Ends, Enter
  <1>1. InFrame /\ server' = server
    BY ShellSteps
  <1>2. CASE ClientPuts \/ ClientGets \/ ClientLocal
    BY <1>1, <1>2 DEF ClientPuts, ClientGets, ClientLocal
  <1>3. CASE ClientRefused \/ ClientAtEnd \/ ClientFails
    BY <1>1, <1>3 DEF ClientRefused, ClientAtEnd, ClientFails
  <1>4. CASE ClientReturns \/ AtPrompt
    BY <1>1, <1>4 DEF ClientReturns, AtPrompt, Starts
  <1>5. CASE ClientLeaves \/ ClientIdle \/ ArchiveFails \/ ArchiveDiffers
    BY <1>1, <1>5 DEF ClientLeaves, ClientIdle, ArchiveFails, ArchiveDiffers
  <1> QED
    BY <1>2, <1>3, <1>4, <1>5, ShellSteps

LEMMA WorkerFramed ==
  ASSUME SidesOK, WorkerStep
  PROVE  InFrame' \/ ServerMisreads
  <1> USE DEF SidesOK, ServerOK, InFrame, Step, Finish, Ends, Enter
  <1>1. InFrame /\ client' = client
    BY WorkerSteps
  <1>2. CASE ServerPuts \/ ServerGets \/ ServerLocal
    BY <1>1, <1>2 DEF ServerPuts, ServerGets, ServerLocal
  <1>3. CASE ServerRefused \/ ServerAtEnd \/ ServerFails
    BY <1>1, <1>3 DEF ServerRefused, ServerAtEnd, ServerFails
  <1>4. CASE ServerReturns \/ Dispatch
    BY <1>1, <1>4 DEF ServerReturns, Dispatch
  <1>5. CASE ServerLeaves \/ ArchiveUnreadable \/ \E steps, code : ServerReplies(steps, code)
    BY <1>1, <1>5 DEF ServerLeaves, ArchiveUnreadable, ServerReplies
  <1> QED
    BY <1>2, <1>3, <1>4, <1>5, WorkerSteps

(* The server is gone and nothing it sent is left, or it does not matter.   *)
LEMMA ShellSilent ==
  ASSUME SidesOK, ShellStep, ServerGone, s2c = <<>>
  PROVE  StreamKept'
  <1>1. ServerGone' /\ ~ClientGone
    BY ShellSteps DEF ServerGone
  <1>2. ~ClientGets /\ ~ClientRefused /\ ~ClientMisreads
    BY DEF ClientGets, ClientRefused, ClientMisreads
  <1>3. InFrame'
    BY <1>2, ShellFramed
  <1>4. s2c' = <<>>
    BY <1>2, ShellSteps DEF ClientPuts, ClientAtEnd, ClientFails, ClientReturns, AtPrompt, Starts,
       ClientLocal, ClientLeaves, ClientIdle, ArchiveFails, ArchiveDiffers, channels
  <1> QED
    BY <1>1, <1>3, <1>4 DEF StreamKept, Framed, Silent

LEMMA WorkerSilent ==
  ASSUME SidesOK, WorkerStep, ClientGone, c2s = <<>>
  PROVE  StreamKept'
  <1>1. ClientGone' /\ ~ServerGone
    BY WorkerSteps DEF ClientGone
  <1>2. ~ServerGets /\ ~ServerRefused /\ ~ServerMisreads
    BY DEF ServerGets, ServerRefused, ServerMisreads
  <1>3. InFrame'
    BY <1>2, WorkerFramed
  <1>4. c2s' = <<>>
    BY <1>2, WorkerSteps DEF ServerPuts, ServerAtEnd, ServerFails, ServerReturns, Dispatch,
       ServerLocal, ServerLeaves, ArchiveUnreadable, ServerReplies, channels
  <1> QED
    BY <1>1, <1>3, <1>4 DEF StreamKept, Framed, Silent

(* Nothing but a mode changes, and that to the worse.                       *)
LEMMA PhasesKept ==
  ASSUME Framed, client'.cmd = client.cmd, client'.pos = client.pos,
         server'.cmd = server.cmd, server'.pos = server.pos,
         UNCHANGED <<channels, creg, sreg>>, faulted \subseteq faulted',
         ClientGone => ClientGone', ServerGone => ServerGone'
  PROVE  Framed'
  <1> USE DEF channels, Begins, Begun, ClientEnded, ServerEnded, Channels
  <1>1. CASE Talking
    <2>1. ASSUME NEW b, Between(b) PROVE Between(b)'
      BY <2>1 DEF Between, CDone
    <2> QED
      BY <1>1, <2>1 DEF Framed, Talking, SDone
  <1>2. CASE Overlapping
    BY <1>2 DEF Framed, Overlapping, SDone
  <1>3. CASE ServerRefuses
    <2>1. CDone' = CDone
      BY DEF CDone
    <2> QED
      BY <1>3, <2>1 DEF Framed, ServerRefuses
  <1>4. CASE ClientRefuses
    BY <1>4 DEF Framed, ClientRefuses
  <1>5. CASE ArchiveUnread
    BY <1>5 DEF Framed, ArchiveUnread
  <1>6. CASE ArchiveUnwanted
    BY <1>6 DEF Framed, ArchiveUnwanted
  <1>7. CASE FileUnwanted
    BY <1>7 DEF Framed, FileUnwanted
  <1>8. CASE Stale
    BY <1>8 DEF Framed, Stale
  <1>9. CASE Silent
    BY <1>9 DEF Framed, Silent
  <1> QED
    BY <1>1, <1>2, <1>3, <1>4, <1>5, <1>6, <1>7, <1>8, <1>9 DEF Framed

-----------------------------------------------------------------------------
(* Where the steps are that end a command early.                            *)

LEMMA CommandStart ==
  ASSUME NEW cmd \in DOMAIN ClientScript \ {"hello"}
  PROVE  /\ ClientScript[cmd][1] = Put("cmd", cmd) /\ ClientScript[cmd][2] = Ack
         /\ cmd \notin DOMAIN Blank
         /\ Length(cmd) = 2 \/ Length(cmd) >= 5
  <1> USE DEF ClientScript, Dialogue, Length, Blank
  <1>2. CASE cmd = "help"
    BY <1>2 DEF DoHelp
  <1>3. CASE cmd = "quit"
    BY <1>3 DEF DoQuit
  <1>4. CASE cmd = "send"
    BY <1>4 DEF DoSend
  <1>5. CASE cmd = "check"
    BY <1>5 DEF ConfigurationCheck, GetConfig, ConfigDialogue
  <1>6. CASE cmd = "show"
    BY <1>6 DEF DoShowConf, GetConfig, ConfigDialogue
  <1>7. CASE cmd = "rename"
    BY <1>7 DEF DoConfName
  <1>8. CASE cmd = "comp"
    BY <1>8 DEF DoConfComp
  <1>9. CASE cmd = "compress"
    BY <1>9 DEF DoCompress
  <1> QED
    BY <1>2, <1>3, <1>4, <1>5, <1>6, <1>7, <1>8, <1>9

LEMMA ShellStops ==
  ASSUME NEW cmd \in DOMAIN ClientScript, NEW p \in 1 .. Len(ClientScript[cmd]),
         ClientScript[cmd][p].do = "do"
  PROVE  /\ ClientScript[cmd][p].x = "create" => cmd = "compress" /\ p = 8
         /\ ClientScript[cmd][p].x = "verify" => cmd = "compress" /\ p = 10
  <1> USE DEF ClientScript, Put, Get, Do, Ack, OK, BYE
  <1>1. CASE cmd = "hello"
    BY <1>1 DEF CommandLine
  <1>2. CASE cmd = "help"
    BY <1>2 DEF DoHelp
  <1>3. CASE cmd = "quit"
    BY <1>3 DEF DoQuit
  <1>4. CASE cmd = "check"
    BY <1>4 DEF ConfigurationCheck, GetConfig
  <1>5. CASE cmd = "show"
    BY <1>5 DEF DoShowConf, GetConfig
  <1>6. CASE cmd = "rename"
    BY <1>6 DEF DoConfName
  <1>7. CASE cmd = "comp"
    BY <1>7 DEF DoConfComp
  <1>8. CASE cmd = "compress"
    BY <1>8 DEF DoCompress
  <1>9. CASE cmd = "send"
    BY <1>9 DEF DoSend
  <1> QED
    BY <1>1, <1>2, <1>3, <1>4, <1>5, <1>6, <1>7, <1>8, <1>9

LEMMA WorkerStops ==
  ASSUME NEW cmd \in DOMAIN ServerScript, NEW p \in 1 .. Len(ServerScript[cmd]),
         ServerScript[cmd][p].do = "do"
  PROVE  LET x == ServerScript[cmd][p].x
         IN  /\ x \in {"existing", "store"} => cmd = "send" /\ p \in {8, 12}
             /\ x = "create" => cmd = "send" /\ p = 10
             /\ x = "tar" => cmd = "compress" /\ p = 1
             /\ x = "open" => cmd = "compress" /\ p = 9
             /\ x = "dispatch" <=> cmd = "loop"
  <1> USE DEF ServerScript, Put, Get, Do, Ack, OK, BYE
  <1>1. CASE cmd = "hello"
    BY <1>1 DEF SendHello
  <1>2. CASE cmd = "loop"
    BY <1>2 DEF CommandLoop
  <1>3. CASE cmd = "help"
    BY <1>3
  <1>4. CASE cmd = "send"
    BY <1>4 DEF HandleSend
  <1>5. CASE cmd = "check"
    BY <1>5 DEF HandleConfigurationCheck
  <1>6. CASE cmd = "show"
    BY <1>6 DEF HandleShowConfiguration, HandleConfigurationCheck
  <1>7. CASE cmd = "rename"
    BY <1>7 DEF HandleConfigureName
  <1>8. CASE cmd = "comp"
    BY <1>8 DEF HandleConfigureCompressor
  <1>9. CASE cmd = "compress"
    BY <1>9 DEF HandleCompress
  <1> QED
    BY <1>1, <1>2, <1>3, <1>4, <1>5, <1>6, <1>7, <1>8, <1>9

(* The parts of the dialogues in which that happens.                        *)
LEMMA CompressPlaces ==
  /\ Len(ClientScript["compress"]) = 13 /\ Len(ServerScript["compress"]) = 13
  /\ \A p \in 1 .. 14 : /\ ClientClock["compress"][p] = 7 <=> p \in {8, 9}
                        /\ ClientClock["compress"][p] = 8 <=> p \in {10, 11}
                        /\ ServerClock["compress"][p] = 6 <=> p = 8
                        /\ ServerClock["compress"][p] = 7 <=> p \in {9, 10}
                        /\ ServerClock["compress"][p] = 8 <=> p = 11
                        /\ p = 1 => ServerClock["compress"][p] = 2
  /\ Length("compress") = 10
  /\ \A i \in 1 .. 10 : Dialogue["compress"][i].who = (IF i \in {1, 5, 7, 9} THEN "client" ELSE "server")
  /\ Dialogue["compress"][2] = SOk /\ Dialogue["compress"][3] = SOk
  /\ Dialogue["compress"][7] = COk /\ Dialogue["compress"][8] = Sv("file", "body")
  /\ Dialogue["compress"][9] = COk
  BY DEF ClientScript, DoCompress, ServerScript, HandleCompress, ClientClock, ServerClock, Dialogue, Length,
         Cl, Sv, COk, SOk, SBye

LEMMA SendPlaces ==
  /\ Len(ClientScript["send"]) = 17 /\ Len(ServerScript["send"]) = 14
  /\ \A p \in 1 .. 18 : /\ ClientClock["send"][p] = 9 <=> p = 12
                        /\ ClientClock["send"][p] = 10 <=> p \in {13, 14}
                        /\ ClientClock["send"][p] = 11 <=> p = 15
  /\ ServerClock["send"][8] = 9 /\ ServerClock["send"][10] = 10 /\ ServerClock["send"][12] = 11
  /\ Length("send") = 13
  /\ \A i \in 1 .. 13 : Dialogue["send"][i].who = (IF i \in {1, 3, 5, 7, 9, 11, 13} THEN "client" ELSE "server")
  /\ Dialogue["send"][10] = SOk /\ Dialogue["send"][12] = SOk
  /\ Dialogue["send"][11] = Cl("file", "body")
  BY DEF ClientScript, DoSend, ServerScript, HandleSend, ClientClock, ServerClock, Dialogue, Length,
         Cl, Sv, COk, SOk, CBye

-----------------------------------------------------------------------------
(* The shell in a dialogue.                                                 *)

TalkingAt(b) ==
  /\ b <= Length(client.cmd) /\ Between(b)
  /\ \/ server.cmd = client.cmd /\ b = SDone
     \/ server.cmd = "loop" /\ server.pos = 1 /\ b = Length(client.cmd)
     \/ /\ server.cmd = "loop" /\ client.cmd # "hello" /\ b = SDone
        /\ server.pos > 1 /\ ~ServerGone => sreg.cmd = client.cmd

LEMMA TalkingSomewhere ==
  ASSUME SidesOK, Talking
  PROVE  \E b \in Nat : TalkingAt(b)
  BY ClocksInRange DEF Talking, TalkingAt

(* A command that has ended on both sides.                                  *)
EndedQuiet == ClientEnded /\ ServerEnded(client.cmd) /\ Channels(<<>>, <<>>)

LEMMA EndedTalking == SidesOK /\ EndedQuiet => Talking
  <1> SUFFICES ASSUME SidesOK, EndedQuiet PROVE Talking
    OBVIOUS
  <1> USE DEF EndedQuiet
  <1>1. CDone = Length(client.cmd) /\ Length(client.cmd) \in Nat /\ client.cmd \in DOMAIN ClientScript
    BY ClocksInRange
  <1>2. Between(Length(client.cmd))
    BY <1>1, NothingInFlight DEF Between, PutBy, Channels
  <1>3. server.cmd = client.cmd => SDone = Length(client.cmd) \/ server.pos # Len(ServerScript[client.cmd]) + 1
    BY <1>1, ClocksInRange DEF ClientScript
  <1> QED
    BY <1>2, <1>3 DEF Talking, ServerEnded

(* The dialogue goes on.                                                    *)
LEMMA ShellTalksOn ==
  ASSUME SidesOK, ~ClientGone, Talking, server' = server, sreg' = sreg,
         ClientPuts \/ ClientGets \/ ClientLocal
  PROVE  Talking'
  <1>1. PICK b \in Nat : TalkingAt(b)
    BY TalkingSomewhere
  <1>2. Between(b)' /\ client'.cmd = client.cmd
    BY <1>1, ShellTalks DEF TalkingAt
  <1> QED
    BY <1>1, <1>2 DEF TalkingAt, Talking, SDone, ServerGone

LEMMA ShellTalkReturns ==
  ASSUME SidesOK, ~ClientGone, Talking, server' = server, sreg' = sreg, ClientReturns
  PROVE  Framed'
  <1>1. PICK b \in Nat : TalkingAt(b)
    BY TalkingSomewhere
  <1>2. /\ client.pos = Len(ClientScript[client.cmd]) + 1 /\ creg' = Blank /\ DOMAIN creg = DOMAIN Blank
        /\ c2s' = c2s /\ s2c' = s2c
    BY DEF ClientReturns, SidesOK, ClientOK, channels
  <1>3. CDone = Length(client.cmd) /\ client.cmd \in DOMAIN ClientScript /\ Length(client.cmd) \in Nat
    BY <1>2, ClocksInRange DEF ClientEnded
  <1>4. PutBy("client", client.cmd, b, Length(client.cmd)) /\ b <= Length(client.cmd)
    BY <1>1, <1>3 DEF TalkingAt, Between
  <1>5. InFlight(client.cmd, b, CDone, creg) = InFlight(client.cmd, b, CDone, Blank)
    BY <1>2, <1>3, <1>4, LastInFlight
  <1>6. CASE client.cmd # "check"
    <2>1. client'.cmd = client.cmd /\ client'.pos = client.pos
      BY <1>6 DEF ClientReturns, Ends, SidesOK, ClientOK
    <2>2. CDone' = CDone
      BY <2>1 DEF CDone
    <2>3. Between(b)'
      BY <1>1, <1>2, <1>5, <2>1, <2>2 DEF TalkingAt, Between, Channels, ServerGone, ClientGone
    <2> QED
      BY <1>1, <2>1, <2>3 DEF TalkingAt, Talking, Framed, SDone, ServerGone
  <1>7. CASE client.cmd = "check"
    <2>1. client'.cmd = "compress" /\ client'.pos = 1 /\ client'.mode = "run"
      BY <1>7 DEF ClientReturns, Enter, SidesOK, ClientOK
    <2>2. Length("check") = 9 /\ Dialogue["check"][9].who = "server"
      BY DEF Length, Dialogue, ConfigDialogue, SBye, Sv
    <2>3. b = 9
      BY <1>4, <1>7, <2>2 DEF PutBy
    <2>4. (~ServerGone => c2s = <<>>) /\ s2c = <<>>
      BY <1>1, <1>3, <1>7, <2>2, <2>3, NothingInFlight DEF TalkingAt, Between, Channels
    <2>5. CASE server.cmd = "check"
      <3>1. SDone = 9 /\ SDone' = SDone
        BY <1>1, <1>7, <2>3, <2>5 DEF TalkingAt, SDone
      <3>2. InFlight("check", 9, 9, Blank) = <<>> /\ Begun' = <<>>
        BY <2>1, NothingInFlight DEF Begun
      <3>3. Before(<<>>, <<>>) = <<>> /\ PutBy("client", "check", 9, 9)
        BY ShortBefore DEF PutBy
      <3>4. Overlapping'
        BY <1>2, <2>1, <2>2, <2>4, <2>5, <3>1, <3>2, <3>3 DEF Overlapping, Begins, Channels, ServerGone
      <3> QED
        BY <3>4 DEF Framed
    <2>6. CASE server.cmd # "check"
      <3>1. server.cmd = "loop" /\ server.pos = 1
        BY <1>1, <1>7, <2>2, <2>3, <2>6, ClocksInRange DEF TalkingAt
      <3>2. SDone' = 0 /\ CDone' = 0
        BY <2>1, <3>1, LoopScript, ClientClockEnds DEF SDone, CDone, ClientScript
      <3>3. Between(0)'
        BY <1>2, <2>4, <3>2, NothingInFlight DEF Between, PutBy, Channels, ServerGone
      <3> QED
        BY <2>1, <3>1, <3>2, <3>3 DEF Framed, Talking
    <2> QED
      BY <2>5, <2>6
  <1> QED
    BY <1>6, <1>7

(* The user enters the next command: the server is at the end of the last   *)
(* one, or has not come to it yet.                                          *)
LEMMA ShellTalkStarts ==
  ASSUME SidesOK, ~ClientGone, Talking, server' = server, sreg' = sreg, AtPrompt
  PROVE  Framed'
  <1>1. PICK b \in Nat : TalkingAt(b)
    BY TalkingSomewhere
  <1>2. /\ client.pos = Len(ClientScript[client.cmd]) + 1 /\ client.cmd # "quit"
        /\ DOMAIN creg = DOMAIN Blank /\ c2s' = c2s /\ s2c' = s2c
    BY DEF AtPrompt, Starts, SidesOK, ClientOK, channels
  <1>3. client'.cmd \in DOMAIN ClientScript \ {"hello"} /\ client'.pos = 1 /\ client'.mode = "run"
    BY DEF AtPrompt, Starts, Enter, SidesOK, ClientOK, ClientScript
  <1>4. CDone = Length(client.cmd) /\ client.cmd \in DOMAIN ClientScript /\ Length(client.cmd) \in Nat
    BY <1>2, ClocksInRange DEF ClientEnded
  <1>5. PutBy("client", client.cmd, b, Length(client.cmd)) /\ b <= Length(client.cmd)
    BY <1>1, <1>4 DEF TalkingAt, Between
  <1>6. /\ ~ServerGone => c2s = InFlight(client.cmd, b, Length(client.cmd), Blank)
        /\ s2c = <<>>
    <2>1. InFlight(client.cmd, b, Length(client.cmd), creg) = InFlight(client.cmd, b, Length(client.cmd), Blank)
      BY <1>2, <1>4, <1>5, LastInFlight
    <2> QED
      BY <1>1, <1>4, <1>5, <2>1, NothingInFlight DEF TalkingAt, Between, Channels
  <1>7. /\ Begun' = <<>> /\ CDone' = 0 /\ Begins' /\ (ServerGone' <=> ServerGone) /\ SDone' = SDone
    BY <1>3, ClientClockEnds DEF Begun, Begins, CDone, ServerGone, SDone
  <1>8. CASE server.cmd = client.cmd
    <2>1. b = SDone /\ server.cmd # "loop"
      BY <1>1, <1>4, <1>8 DEF TalkingAt, ClientScript
    <2>2. ~ServerGone => c2s' = Before(InFlight(server.cmd, SDone, Length(server.cmd), Blank), <<>>)
      BY <1>2, <1>4, <1>6, <1>8, <2>1, NothingBehind
    <2> QED
      BY <1>2, <1>5, <1>6, <1>7, <1>8, <2>1, <2>2 DEF Framed, Overlapping, Channels
  <1>9. CASE server.cmd = "loop" /\ b = Length(client.cmd) /\ server.pos = 1
    <2>1. Between(0)'
      BY <1>2, <1>4, <1>6, <1>7, <1>9, NothingInFlight DEF Between, PutBy, Channels
    <2>2. SDone' = 0
      BY <1>7, <1>9, ClocksInRange
    <2> QED
      BY <1>3, <1>9, <2>1, <2>2 DEF Framed, Talking
  <1>10. CASE /\ server.cmd = "loop" /\ client.cmd # "hello" /\ b = SDone
              /\ server.pos > 1 /\ ~ServerGone => sreg.cmd = client.cmd
    <2>1. b = server.pos - 1 /\ server.pos \in 1 .. 3
      BY <1>10, ClocksInRange
    <2>2. client.cmd = "help" /\ b = 2
      <3>1. Length(client.cmd) = 2 \/ Length(client.cmd) >= 5
        BY <1>4, <1>10, CommandStart
      <3>2. CASE Length(client.cmd) >= 5
        <4>1. b + 1 < Length(client.cmd) /\ b + 1 >= 1
          BY <1>4, <2>1, <3>2
        <4>2. Dialogue[client.cmd][Length(client.cmd) - 1].who # Dialogue[client.cmd][Length(client.cmd)].who
          BY <1>4, <3>2, DialogueShape
        <4> QED
          BY <1>4, <1>5, <4>1, <4>2 DEF PutBy
      <3>3. CASE Length(client.cmd) = 2
        <4>1. client.cmd = "help"
          BY <1>2, <1>4, <3>3, DialogueShape
        <4>2. Dialogue[client.cmd][2].who = "server"
          BY <1>4, <1>10, DialogueShape DEF SOk, Sv
        <4> QED
          BY <1>5, <2>1, <3>3, <4>1, <4>2 DEF PutBy
      <3> QED
        BY <3>1, <3>2, <3>3
    <2>3. Length("help") = 2
      BY <1>4, <2>2, DialogueShape
    <2>4. ~ServerGone => c2s' = <<>>
      BY <1>2, <1>6, <2>2, <2>3, NothingInFlight
    <2> QED
      BY <1>2, <1>6, <1>7, <1>10, <2>1, <2>2, <2>4 DEF Framed, Overlapping, Channels
  <1> QED
    BY <1>1, <1>8, <1>9, <1>10 DEF TalkingAt

(* The archive cannot be created, or is not the one announced: the server   *)
(* may have sent it, or be about to.                                        *)
LEMMA ShellTalkStops ==
  ASSUME SidesOK, ~ClientGone, Talking, server' = server, sreg' = sreg,
         ArchiveFails \/ ArchiveDiffers
  PROVE  Framed'
  <1>1. PICK b \in Nat : TalkingAt(b)
    BY TalkingSomewhere
  <1>2. /\ ClientRunning /\ ClientOp.do = "do" /\ ClientOp.x \in {"create", "verify"}
        /\ client' = Finish(client, ClientScript) /\ s2c' = s2c /\ creg' = creg
    BY DEF ArchiveFails, ArchiveDiffers, channels
  <1>3. /\ client.cmd = "compress" /\ (ClientOp.x = "create" => client.pos = 8)
        /\ (ClientOp.x = "verify" => client.pos = 10)
    BY <1>2, ShellStops, ClientPlace DEF ClientOp
  <1>4. client'.cmd = "compress" /\ ClientEnded' /\ client'.pos = 14 /\ client'.mode = client.mode
    <2>1. Len(ClientScript["compress"]) + 1 = 14
      BY CompressPlaces
    <2>2. client' = [client EXCEPT !.pos = 14]
      BY <1>2, <1>3, <2>1 DEF Finish
    <2> QED
      BY <1>3, <2>1, <2>2 DEF SidesOK, ClientOK, ClientEnded
  <1>5. /\ ~Begins' /\ Begun' = <<>> /\ ~ClientGone' /\ (ServerGone' <=> ServerGone)
    BY <1>4 DEF Begins, Begun, ClientGone, ServerGone
  <1>6. CDone = (IF ClientOp.x = "create" THEN 7 ELSE 8) /\ b <= 10 /\ Length("compress") = 10
    BY <1>1, <1>2, <1>3, CompressPlaces DEF CDone, TalkingAt
  <1>7. PutBy("client", "compress", b, CDone) /\ PutBy("server", "compress", CDone, b)
        /\ Channels(InFlight("compress", b, CDone, creg), InFlight("compress", CDone, b, sreg))
    BY <1>1, <1>3 DEF TalkingAt, Between
  <1>8. b \in {6, 7, 8} => server.cmd = "compress" /\ SDone = b /\ server.pos \in 1 .. 14
    <2>1. b \in {6, 7, 8} => b = SDone /\ server.cmd # "loop"
      BY <1>1, <1>3, <1>6, ClocksInRange DEF TalkingAt
    <2>2. Len(ServerScript["compress"]) = 13
      BY CompressPlaces
    <2>3. ASSUME server.cmd = "compress" PROVE server.pos \in 1 .. 14
      <3>1. Len(ServerScript[server.cmd]) = 13
        BY <2>2, <2>3
      <3> QED
        BY <3>1 DEF SidesOK, ServerOK
    <2> QED
      BY <1>1, <1>3, <2>1, <2>3 DEF TalkingAt
  <1>9. CASE ArchiveDiffers
    <2>1. ClientOp.x = "verify"
      BY <1>9 DEF ArchiveDiffers
    <2>2. CDone = 8
      BY <1>6, <2>1
    <2>3. b = 8
      BY <1>6, <1>7, <2>2, CompressPlaces DEF PutBy
    <2>4. server.pos = 11
      BY <1>8, <2>3, CompressPlaces DEF SDone
    <2>5. (~ServerGone => c2s = <<>>) /\ s2c = <<>>
      BY <1>7, <2>2, <2>3, NothingInFlight DEF Channels
    <2>6. ~ServerGone => c2s' = Before(Reply("err"), <<>>)
      BY <1>9, <2>5, ShortBefore DEF ArchiveDiffers, Reply
    <2> QED
      BY <1>2, <1>4, <1>5, <1>8, <2>3, <2>4, <2>5, <2>6 DEF Framed, ClientRefuses, Channels
  <1>10. CASE ArchiveFails
    <2>1. ClientOp.x = "create" /\ c2s' = c2s /\ "create" \in faulted'
      BY <1>10 DEF ArchiveFails, channels
    <2>2. CDone = 7
      BY <1>6, <2>1
    <2>3. b \in {6, 7, 8}
      BY <1>6, <1>7, <2>2, CompressPlaces DEF PutBy
    <2>4. IF b = 6 THEN server.pos = 8 ELSE IF b = 7 THEN server.pos \in {9, 10} ELSE server.pos = 11
      BY <1>8, <2>3, CompressPlaces DEF SDone
    <2>5. InFlight("compress", b, 7, creg) = IF server.pos = 8 THEN Reply("ack") ELSE <<>>
      <3>1. InFlight("compress", 6, 7, creg) = Reply("ack")
        <4>1. Message(creg, Dialogue["compress"][7]) = [kind |-> "rsp", val |-> "ack"]
          BY CompressPlaces DEF Message, Value, COk, Cl, SidesOK, ClientOK, Blank
        <4> QED
          BY <4>1 DEF InFlight, Reply, Only
      <3> QED
        BY <2>3, <2>4, <3>1, NothingInFlight
    <2>6. InFlight("compress", 7, b, sreg) = IF server.pos = 11 THEN Only([kind |-> "file", val |-> sreg.body]) ELSE <<>>
      <3>1. InFlight("compress", 7, 8, sreg) = Only([kind |-> "file", val |-> sreg.body])
        BY CompressPlaces DEF InFlight, Only, Message, Value, Sv, SidesOK, ServerOK, Blank
      <3> QED
        BY <2>3, <2>4, <3>1, NothingInFlight
    <2>7. ~ServerGone => c2s' = Before(IF server.pos = 8 THEN Reply("ack") ELSE <<>>, <<>>)
      <3>1. Before(Reply("ack"), <<>>) = Reply("ack") /\ Before(<<>>, <<>>) = <<>>
        BY ShortBefore DEF Reply, Short
      <3> QED
        BY <1>7, <2>1, <2>2, <2>5, <3>1 DEF Channels
    <2> QED
      BY <1>2, <1>4, <1>5, <1>7, <1>8, <2>1, <2>2, <2>3, <2>4, <2>6, <2>7
      DEF Framed, ArchiveUnwanted, Channels
  <1> QED
    BY <1>9, <1>10

-----------------------------------------------------------------------------
(* The shell when the command has ended before its dialogue.                *)

(* Between two commands the shell goes on to the next, and asks for it.     *)
Starting(cmd) == Begins \/ (client.cmd = cmd /\ ClientEnded)
Call(cmd)     == [kind |-> "cmd", val |-> cmd]

ShellTurn ==
  \/ ClientPuts \/ ClientGets \/ ClientRefused \/ ClientMisreads
  \/ ClientReturns \/ AtPrompt
  \/ ClientLocal \/ ArchiveFails \/ ArchiveDiffers

LEMMA ShellBegins ==
  ASSUME SidesOK, Begins, ShellTurn, ServerGone' <=> ServerGone
  PROVE  \/ /\ ClientRunning /\ ClientOp.do = "get" /\ ClientOp.kind = "rsp" /\ s2c # <<>>
            /\ ClientGets \/ ClientRefused \/ ClientMisreads
         \/ /\ Begins' /\ Begun = <<>> /\ Begun' = Only(Call(client.cmd))
            /\ client'.mode = client.mode
            /\ c2s' = (IF ServerGone THEN c2s ELSE Append(c2s, Call(client.cmd)))
            /\ UNCHANGED <<s2c, creg>>
  <1>1. /\ client.cmd \in DOMAIN ClientScript \ {"hello"} /\ client.pos \in {1, 2}
        /\ Len(ClientScript[client.cmd]) \in Nat /\ Len(ClientScript[client.cmd]) >= 2
        /\ DOMAIN creg = DOMAIN Blank
    BY ScriptIsLong DEF Begins, SidesOK, ClientOK
  <1>2. /\ client.pos = 1 => ClientOp = Put("cmd", client.cmd)
        /\ client.pos = 2 => ClientOp = Ack
    BY <1>1, CommandStart DEF ClientOp
  <1>3. ~ClientReturns /\ ~AtPrompt
    <2>1. client.pos <= Len(ClientScript[client.cmd])
      BY <1>1
    <2> QED
      BY <1>1, <2>1 DEF ClientReturns, AtPrompt, SidesOK, ClientOK
  <1>4. CASE client.pos = 1
    <2>1. ClientOp.do = "put" /\ ClientOp.kind = "cmd" /\ ClientOp.x = client.cmd
      BY <1>2, <1>4 DEF Put
    <2>2. ClientPuts
      BY <1>3, <2>1 DEF ShellTurn, ClientGets, ClientRefused, ClientMisreads, ClientLocal, ArchiveFails,
                        ArchiveDiffers
    <2>3. client'.pos = 2 /\ client'.cmd = client.cmd /\ client'.mode = client.mode
      BY <1>4, <2>2 DEF ClientPuts, Step, SidesOK, ClientOK
    <2>4. Value(creg, client.cmd) = client.cmd
      BY <1>1, CommandStart DEF Value
    <2> QED
      BY <1>1, <1>4, <2>1, <2>2, <2>3, <2>4 DEF ClientPuts, Begins, Begun, Call
  <1>5. CASE client.pos = 2
    <2>1. ClientOp.do = "get" /\ ClientOp.kind = "rsp"
      BY <1>2, <1>5 DEF Ack, Get
    <2> QED
      BY <1>3, <2>1 DEF ShellTurn, ClientPuts, ClientGets, ClientRefused, ClientMisreads, ClientLocal,
                        ArchiveFails, ArchiveDiffers
  <1> QED
    BY <1>1, <1>4, <1>5

LEMMA ShellMovesOn ==
  ASSUME SidesOK, NEW cmd \in {"send", "compress"}, Starting(cmd), ShellTurn, ServerGone' <=> ServerGone
  PROVE  \/ /\ ClientRunning /\ ClientOp.do = "get" /\ ClientOp.kind = "rsp" /\ s2c # <<>>
            /\ ClientGets \/ ClientRefused \/ ClientMisreads
         \/ Starting(cmd)' /\ Begun' = Begun /\ UNCHANGED channels
         \/ /\ Starting(cmd)' /\ Begun = <<>> /\ Begun' = Only(Call(client.cmd))
            /\ c2s' = (IF ServerGone THEN c2s ELSE Append(c2s, Call(client.cmd)))
            /\ UNCHANGED s2c
  <1>1. CASE Begins
    BY <1>1, ShellBegins DEF Starting
  <1>2. CASE client.cmd = cmd /\ ClientEnded
    <2>1. /\ client.pos = Len(ClientScript[cmd]) + 1 /\ Len(ClientScript[cmd]) \in Nat
          /\ Len(ClientScript[cmd]) >= 2 /\ cmd \in DOMAIN ClientScript
      BY <1>2, ScriptIsLong DEF ClientEnded, SidesOK, ClientOK
    <2>2. ~ClientRunning
      BY <1>2, <2>1 DEF ClientRunning
    <2>3. CASE ClientReturns
      <3>1. client'.cmd = cmd /\ client'.pos = client.pos
        BY <1>2, <2>3 DEF ClientReturns, Ends, SidesOK, ClientOK
      <3>2. Begun' = Begun /\ ClientEnded'
        BY <1>2, <2>1, <3>1 DEF Begun, Begins, ClientEnded
      <3> QED
        BY <2>3, <3>1, <3>2 DEF ClientReturns, Starting
    <2>4. CASE AtPrompt
      <3>1. client'.cmd \in DOMAIN ClientScript \ {"hello"} /\ client'.pos = 1
        BY <2>4 DEF AtPrompt, Starts, Enter, SidesOK, ClientOK, ClientScript
      <3>2. Begun' = <<>> /\ Begun = <<>> /\ Begins'
        BY <1>2, <2>1, <3>1 DEF Begun, Begins
      <3> QED
        BY <2>4, <3>2 DEF AtPrompt, Starts, Starting
    <2> QED
      BY <2>2, <2>3, <2>4 DEF ShellTurn, ClientPuts, ClientGets, ClientRefused, ClientMisreads, ClientLocal,
                              ArchiveFails, ArchiveDiffers
  <1> QED
    BY <1>1, <1>2 DEF Starting

LEMMA ShellOverlaps ==
  ASSUME SidesOK, ~ClientGone, Overlapping, server' = server, sreg' = sreg, ShellTurn
  PROVE  Overlapping'
  <1>1. s2c = <<>> /\ Begins /\ (ServerGone' <=> ServerGone) /\ SDone' = SDone
    BY DEF Overlapping, Channels, ServerGone, SDone
  <1>2. /\ Begins' /\ Begun = <<>> /\ Begun' = Only(Call(client.cmd))
        /\ c2s' = (IF ServerGone THEN c2s ELSE Append(c2s, Call(client.cmd)))
        /\ s2c' = s2c
    BY <1>1, ShellBegins
  <1>3. CASE /\ server.cmd # "loop"
             /\ PutBy("client", server.cmd, SDone, Length(server.cmd))
             /\ Channels(Before(InFlight(server.cmd, SDone, Length(server.cmd), Blank), Begun), <<>>)
    <2>1. SDone \in Nat /\ Length(server.cmd) \in Nat
      BY <1>3, ClocksInRange
    <2>2. ASSUME ~ServerGone
          PROVE  c2s' = Before(InFlight(server.cmd, SDone, Length(server.cmd), Blank), Only(Call(client.cmd)))
      <3>1. c2s = InFlight(server.cmd, SDone, Length(server.cmd), Blank)
        BY <1>2, <1>3, <2>1, <2>2, NothingBehind DEF Channels
      <3>2. c2s' = Append(InFlight(server.cmd, SDone, Length(server.cmd), Blank), Call(client.cmd))
        BY <1>2, <2>2, <3>1
      <3> QED
        BY <2>1, <3>2, PutBehind
    <2> QED
      BY <1>1, <1>2, <1>3, <2>2 DEF Overlapping, Channels
  <1>4. CASE /\ server.cmd = "loop" /\ server.pos = 3
             /\ ~ServerGone => sreg.cmd = "help"
             /\ Channels(Begun, <<>>)
    <2>1. ~ServerGone => c2s' = Only(Call(client.cmd))
      <3>1. ~ServerGone => c2s' = Append(<<>>, Call(client.cmd))
        BY <1>2, <1>4 DEF Channels
      <3> QED
        BY <3>1, ShortBefore
    <2> QED
      BY <1>1, <1>2, <1>4, <2>1 DEF Overlapping, Channels
  <1> QED
    BY <1>3, <1>4 DEF Overlapping

LEMMA ShellIsRefused ==
  ASSUME SidesOK, ~ClientGone, ServerRefuses, server' = server, sreg' = sreg, ShellTurn
  PROVE  Framed' /\ ~ClientMisreads
  <1>0. PICK cmd \in {"send", "compress"} : client.cmd = cmd
    BY DEF ServerRefuses
  <1> USE <1>0
  <1>1. /\ cmd \in {"send", "compress"} /\ ServerEnded(cmd) /\ cmd \in DOMAIN ClientScript
        /\ CDone \in Nat /\ Length(cmd) \in Nat /\ DOMAIN creg = DOMAIN Blank
    BY ClocksInRange DEF ServerRefuses, SidesOK, ClientOK
  <1>2. PICK b \in CDone .. Length(cmd) - 1, code \in Refusal :
          /\ PutBy("server", cmd, CDone, b + 1)
          /\ Dialogue[cmd][b + 1].kind = "rsp"
          /\ Channels(<<>>, Before(InFlight(cmd, CDone, b, Blank), Reply(code)))
    BY DEF ServerRefuses
  <1>3. b \in Nat /\ CDone <= b /\ b + 1 <= Length(cmd)
    BY <1>1, <1>2
  <1>4. Dialogue[cmd][CDone + 1].who = "server"
    BY <1>1, <1>2, <1>3 DEF PutBy
  <1>5. s2c = Before(InFlight(cmd, CDone, b, Blank), Reply(code)) /\ (~ServerGone => c2s = <<>>)
    BY <1>2 DEF Channels
  <1>6. ~ClientReturns /\ ~AtPrompt
    <2>1. ~ClientEnded
      BY <1>1, <1>3, ClocksInRange
    <2> QED
      BY <1>1, <2>1, ScriptIsLong DEF ClientEnded, ClientReturns, AtPrompt, SidesOK, ClientOK
  <1>7. ClientRunning
    BY <1>6 DEF ShellTurn, ClientPuts, ClientGets, ClientRefused, ClientMisreads, ClientLocal,
                ArchiveFails, ArchiveDiffers
  <1>8. ~ClientPuts
    BY <1>4, <1>7, ClientPlace DEF ClientPuts, Cl
  <1>9. ~ArchiveFails /\ ~ArchiveDiffers
    <2> SUFFICES ASSUME ArchiveFails \/ ArchiveDiffers PROVE FALSE
      OBVIOUS
    <2>1. cmd = "compress" /\ client.pos \in {8, 10}
      BY <1>7, ShellStops, ClientPlace DEF ClientOp, ArchiveFails, ArchiveDiffers
    <2>2. CDone \in {7, 8}
      BY <2>1, CompressPlaces DEF CDone
    <2>3. b = 7 /\ CDone = 7
      BY <1>2, <1>3, <2>1, <2>2, CompressPlaces DEF PutBy
    <2>4. Dialogue["compress"][8].kind = "file"
      BY CompressPlaces DEF Sv
    <2> QED
      BY <1>2, <2>1, <2>3, <2>4
  <1>10. (ServerGone' <=> ServerGone) /\ (ServerEnded(cmd)' <=> ServerEnded(cmd))
    BY DEF ServerGone, ServerEnded
  <1>11. CASE CDone = b
    <2>1. s2c = Reply(code)
      <3>1. InFlight(cmd, CDone, b, Blank) = <<>>
        BY <1>1, <1>3, <1>11, NothingInFlight
      <3> QED
        BY <1>5, <3>1, ShortBefore
    <2>2. Head(s2c).kind = "rsp" /\ Head(s2c).val = code /\ Tail(s2c) = <<>>
      <3>1. s2c = Only([kind |-> "rsp", val |-> code])
        BY <2>1 DEF Reply
      <3>2. Head(s2c) = [kind |-> "rsp", val |-> code] /\ Tail(s2c) = <<>>
        BY <3>1, ShortBefore
      <3> QED
        BY <3>2
    <2>3. ClientOp.do = "get" => ClientOp.kind = "rsp"
      BY <1>2, <1>7, <1>11, ClientPlace
    <2>4. ~ClientGets /\ ~ClientMisreads
      BY <1>2, <2>2, <2>3 DEF ClientGets, ClientMisreads
    <2>5. CASE ClientRefused
      <3>1. client' = Finish(client, ClientScript) /\ c2s' = c2s /\ s2c' = <<>> /\ creg' = creg
        BY <1>1, <2>2, <2>5 DEF ClientRefused
      <3>2. client'.cmd = cmd /\ ClientEnded' /\ SidesOK'
        <4>1. client' = [mode |-> client.mode, cmd |-> cmd, pos |-> Len(ClientScript[cmd]) + 1]
          BY <3>1 DEF Finish, SidesOK, ClientOK
        <4>2. client.mode = "run"
          BY <1>7 DEF ClientRunning
        <4>3. Len(ClientScript[cmd]) + 1 \in Nat \ {0}
          BY <1>1, ScriptIsLong
        <4> QED
          BY <1>1, <3>1, <4>1, <4>2, <4>3 DEF ClientEnded, SidesOK, ClientOK, ServerOK
      <3>3. EndedQuiet'
        BY <1>1, <1>5, <1>10, <3>1, <3>2 DEF EndedQuiet, Channels, ServerEnded
      <3>4. Talking'
        BY <3>2, <3>3, EndedTalking, PTL
      <3> QED
        BY <2>4, <3>4 DEF Framed
    <2>6. CASE ClientLocal
      <3>1. CDone' = CDone /\ client'.cmd = cmd /\ c2s' = c2s /\ s2c' = s2c
        BY <1>7, <2>6, ClientPlace DEF ClientLocal, channels
      <3> QED
        BY <1>1, <1>2, <1>5, <1>10, <2>4, <3>1 DEF Framed, ServerRefuses, Channels
    <2> QED
      BY <1>6, <1>8, <1>9, <2>4, <2>5, <2>6 DEF ShellTurn
  <1>12. CASE CDone < b
    <2>1. /\ Head(s2c) = Message(Blank, Dialogue[cmd][CDone + 1])
          /\ Tail(s2c) = Before(InFlight(cmd, CDone + 1, b, Blank), Reply(code))
      <3>1. Short(Reply(code))
        BY ShortBefore
      <3> QED
        BY <1>1, <1>3, <1>5, <1>12, <3>1, GetBefore
    <2>2. CDone + 1 \in 1 .. Length(cmd)
      BY <1>1, <1>3, <1>12
    <2>3. /\ Head(s2c).kind = Dialogue[cmd][CDone + 1].kind
          /\ Head(s2c).kind = "rsp" => Head(s2c).val \notin Refusal
      BY <1>1, <2>1, <2>2, AnswersInFlight
    <2>4. ~ClientRefused /\ ~ClientMisreads
      BY <1>7, <2>3, ClientPlace DEF ClientRefused, ClientMisreads
    <2>5. CASE ClientGets
      <3>1. CDone' = CDone + 1 /\ client'.cmd = cmd /\ c2s' = c2s /\ s2c' = Tail(s2c)
        BY <1>7, <2>5, ClientPlace DEF ClientGets
      <3>2. b \in CDone' .. Length(cmd) - 1 /\ PutBy("server", cmd, CDone', b + 1)
        BY <1>1, <1>2, <1>3, <1>12, <3>1 DEF PutBy
      <3> QED
        BY <1>1, <1>2, <1>5, <1>10, <2>1, <2>4, <3>1, <3>2 DEF Framed, ServerRefuses, Channels
    <2>6. CASE ClientLocal
      <3>1. CDone' = CDone /\ client'.cmd = cmd /\ c2s' = c2s /\ s2c' = s2c
        BY <1>7, <2>6, ClientPlace DEF ClientLocal, channels
      <3> QED
        BY <1>1, <1>2, <1>5, <1>10, <2>4, <3>1 DEF Framed, ServerRefuses, Channels
    <2> QED
      BY <1>6, <1>8, <1>9, <2>4, <2>5, <2>6 DEF ShellTurn
  <1> QED
    BY <1>3, <1>11, <1>12, ClocksInRange

(* The client has said that the archive is another, or did not want it.     *)
LEMMA ShellHasRefused ==
  ASSUME SidesOK, ~ClientGone, ClientRefuses, server' = server, sreg' = sreg, ShellTurn
  PROVE  Framed' /\ ~ClientMisreads
  <1>1. /\ s2c = <<>> /\ Starting("compress") /\ (ServerGone' <=> ServerGone)
        /\ ~ServerGone => c2s = Before(Reply("err"), Begun)
    BY DEF ClientRefuses, Starting, Channels, ServerGone
  <1>2. \/ Starting("compress")' /\ Begun' = Begun /\ UNCHANGED channels
        \/ /\ Starting("compress")' /\ Begun = <<>> /\ Begun' = Only(Call(client.cmd))
           /\ c2s' = (IF ServerGone THEN c2s ELSE Append(c2s, Call(client.cmd)))
           /\ UNCHANGED s2c
    BY <1>1, ShellMovesOn
  <1>5. Append(Before(Reply("err"), <<>>), Call(client.cmd)) = Before(Reply("err"), Only(Call(client.cmd)))
    BY ShortBefore
  <1>3. (~ServerGone => c2s' = Before(Reply("err"), Begun')) /\ s2c' = <<>>
    BY <1>1, <1>2, <1>5 DEF channels
  <1>4. ClientRefuses'
    BY <1>1, <1>2, <1>3 DEF ClientRefuses, Starting, Channels
  <1> QED
    BY <1>1, <1>4 DEF Framed, ClientMisreads

LEMMA ShellUnwanted ==
  ASSUME SidesOK, ~ClientGone, ArchiveUnwanted, server' = server, sreg' = sreg, ShellTurn,
         "create" \in faulted'
  PROVE  Framed' \/ ClientMisreads
  <1> DEFINE x == IF server.pos = 8 THEN Reply("ack") ELSE <<>>
             y == IF server.pos = 11 THEN Only([kind |-> "file", val |-> sreg.body]) ELSE <<>>
  <1>1. /\ Starting("compress") /\ (ServerGone' <=> ServerGone)
        /\ ~ServerGone => c2s = Before(x, Begun)
        /\ s2c = y /\ x' = x /\ y' = y /\ Short(x)
    BY ShortBefore DEF ArchiveUnwanted, Starting, Channels, ServerGone
  <1>2. CASE /\ ClientRunning /\ ClientOp.do = "get" /\ ClientOp.kind = "rsp" /\ s2c # <<>>
             /\ ClientGets \/ ClientRefused \/ ClientMisreads
    <2>1. Head(s2c) = [kind |-> "file", val |-> sreg.body]
      BY <1>1, <1>2, ShortBefore
    <2> QED
      BY <1>2, <2>1 DEF ClientGets, ClientRefused
  <1>3. CASE \/ Starting("compress")' /\ Begun' = Begun /\ UNCHANGED channels
             \/ /\ Starting("compress")' /\ Begun = <<>> /\ Begun' = Only(Call(client.cmd))
                /\ c2s' = (IF ServerGone THEN c2s ELSE Append(c2s, Call(client.cmd)))
                /\ UNCHANGED s2c
    <2> HIDE DEF x, y
    <2>2. Append(Before(x, <<>>), Call(client.cmd)) = Before(x, Only(Call(client.cmd)))
      BY <1>1, ShortBefore
    <2>1. (~ServerGone => c2s' = Before(x', Begun')) /\ s2c' = y'
      BY <1>1, <1>3, <2>2 DEF channels
    <2> QED
      BY <1>1, <1>3, <2>1 DEF Framed, ArchiveUnwanted, Starting, Channels, x, y
  <1> QED
    BY <1>1, <1>2, <1>3, ShellMovesOn

(* The server has said nothing, and waits for the next command.             *)
LEMMA ShellUnread ==
  ASSUME SidesOK, ~ClientGone, ArchiveUnread, server' = server, sreg' = sreg, ShellTurn,
         faulted \subseteq faulted'
  PROVE  Framed' /\ ~ClientMisreads
  <1>1. /\ s2c = <<>> /\ (~ServerGone => c2s = <<>>) /\ (ServerGone' <=> ServerGone)
        /\ client.cmd = "compress" /\ client.pos \in {8, 9} /\ ServerEnded("compress")
        /\ ServerEnded("compress")'
    BY DEF ArchiveUnread, Channels, ServerGone, ServerEnded
  <1>2. ClientOp = IF client.pos = 8 THEN Do("create") ELSE Get("file", "body")
    BY <1>1 DEF ClientOp, ClientScript, DoCompress
  <1>3. ClientOp.do = IF client.pos = 8 THEN "do" ELSE "get"
    BY <1>2 DEF Do, Get
  <1>4. ~ClientReturns /\ ~AtPrompt
    BY <1>1, CompressPlaces DEF ClientReturns, AtPrompt, SidesOK, ClientOK
  <1>5. ~ClientGets /\ ~ClientRefused /\ ~ClientMisreads
    BY <1>1 DEF ClientGets, ClientRefused, ClientMisreads
  <1>6. client.pos = 8 /\ (ClientLocal \/ ArchiveFails \/ ArchiveDiffers)
    BY <1>1, <1>3, <1>4, <1>5 DEF ShellTurn, ClientPuts, ClientLocal, ArchiveFails, ArchiveDiffers
  <1>7. ClientOp.x = "create" /\ ~ArchiveDiffers
    <2>1. ClientOp.x = "create"
      BY <1>2, <1>6 DEF Do
    <2> QED
      BY <2>1 DEF ArchiveDiffers
  <1>8. CASE ClientLocal
    <2>1. client'.cmd = "compress" /\ client'.pos = 9 /\ UNCHANGED channels
      BY <1>1, <1>6, <1>8 DEF ClientLocal, Step, SidesOK, ClientOK
    <2> QED
      BY <1>1, <1>5, <2>1 DEF Framed, ArchiveUnread, Channels, channels
  <1>9. CASE ArchiveFails
    <2>1. /\ client' = Finish(client, ClientScript) /\ c2s' = c2s /\ s2c' = s2c /\ creg' = creg
      BY <1>9 DEF ArchiveFails, channels
    <2>2. client'.cmd = "compress" /\ ClientEnded' /\ SidesOK'
      <3>1. client' = [mode |-> client.mode, cmd |-> "compress", pos |-> 14]
        BY <1>1, <2>1, CompressPlaces DEF Finish, SidesOK, ClientOK
      <3>2. client.mode = "run"
        BY <1>9 DEF ArchiveFails, ClientRunning
      <3>3. /\ client'.cmd = "compress" /\ client'.pos = 14 /\ client'.mode = "run"
            /\ client' = [mode |-> "run", cmd |-> "compress", pos |-> 14]
        BY <3>1, <3>2
      <3>6. Len(ClientScript["compress"]) = 13
        BY CompressPlaces
      <3>4. Len(ClientScript[client'.cmd]) + 1 = 14 /\ "compress" \in DOMAIN ClientScript
        BY <1>1, <3>3, <3>6 DEF SidesOK, ClientOK
      <3>5. ClientOK'
        BY <2>1, <3>3, <3>4 DEF SidesOK, ClientOK
      <3> QED
        BY <2>1, <3>3, <3>4, <3>5 DEF ClientEnded, SidesOK, ServerOK
    <2>3. EndedQuiet'
      BY <1>1, <2>1, <2>2 DEF EndedQuiet, Channels, ServerEnded
    <2>4. Talking'
      BY <2>2, <2>3, EndedTalking, PTL
    <2> QED
      BY <1>5, <2>4 DEF Framed
  <1> QED
    BY <1>6, <1>7, <1>8, <1>9

(* The server has answered that it cannot create the file: the client sends *)
(* it, and reads the answer then.                                           *)
LEMMA ShellSendsUnwanted ==
  ASSUME SidesOK, ~ClientGone, FileUnwanted, server' = server, sreg' = sreg, ShellTurn,
         "create" \in faulted'
  PROVE  FileUnwanted' /\ Framed' /\ ~ClientMisreads
  <1>1. /\ (ServerGone' <=> ServerGone) /\ ServerEnded("send") /\ ServerEnded("send")'
        /\ DOMAIN creg = DOMAIN Blank /\ Short(Reply("err"))
    BY ShortBefore DEF FileUnwanted, ServerGone, ServerEnded, SidesOK, ClientOK
  <1>2. ASSUME client.cmd = "send", client.pos \in 12 .. 15
        PROVE  /\ ClientOp = CASE client.pos = 12 -> Ack [] client.pos = 13 -> Do("open")
                               [] client.pos = 14 -> Put("file", "body") [] client.pos = 15 -> Ack
               /\ ~ClientReturns /\ ~AtPrompt
    <2>1. ClientOp = CASE client.pos = 12 -> Ack [] client.pos = 13 -> Do("open")
                       [] client.pos = 14 -> Put("file", "body") [] client.pos = 15 -> Ack
      BY <1>2 DEF ClientOp, ClientScript, DoSend
    <2>2. ~ClientReturns /\ ~AtPrompt
      BY <1>2, SendPlaces DEF ClientReturns, AtPrompt, SidesOK, ClientOK
    <2> QED
      BY <2>1, <2>2
  <1>3. ASSUME client' = Step(client), NEW p \in Nat, client.pos = p
        PROVE  client'.cmd = client.cmd /\ client'.pos = p + 1
    BY <1>3 DEF Step, SidesOK, ClientOK
  <1>4. ASSUME client.cmd = "send", client.pos = 12,
               Channels(<<>>, Before(Reply("ack"), Reply("err")))
        PROVE  FileUnwanted' /\ Framed' /\ ~ClientMisreads
    <2>1. ClientOp.do = "get" /\ ClientOp.kind = "rsp" /\ ~ClientReturns /\ ~AtPrompt
      BY <1>2, <1>4 DEF Ack, Get
    <2>2. Head(s2c) = [kind |-> "rsp", val |-> "ack"] /\ Tail(s2c) = Reply("err")
      <3>1. s2c = Before(Only([kind |-> "rsp", val |-> "ack"]), Reply("err"))
        BY <1>4 DEF Channels, Reply
      <3> QED
        BY <1>1, <3>1, ShortBefore
    <2>3. Head(s2c).kind = "rsp" /\ Head(s2c).val \notin Refusal
      BY <2>2 DEF Refusal
    <2>4. ClientGets /\ ~ClientMisreads
      BY <2>1, <2>3 DEF ShellTurn, ClientPuts, ClientRefused, ClientMisreads, ClientLocal, ArchiveFails, ArchiveDiffers
    <2>5. client'.cmd = "send" /\ client'.pos = 13 /\ c2s' = c2s /\ s2c' = Reply("err")
      BY <1>3, <1>4, <2>2, <2>4 DEF ClientGets
    <2>6. Before(<<>>, Reply("err")) = Reply("err")
      BY <1>1, ShortBefore
    <2> QED
      BY <1>1, <1>4, <2>4, <2>5, <2>6 DEF Framed, FileUnwanted, Channels
  <1>5. ASSUME client.cmd = "send", client.pos = 13, Channels(<<>>, Reply("err"))
        PROVE  FileUnwanted' /\ Framed' /\ ~ClientMisreads
    <2>1. ClientOp.do = "do" /\ ClientOp.x = "open" /\ ~ClientReturns /\ ~AtPrompt
      BY <1>2, <1>5 DEF Do
    <2>4. ClientLocal /\ ~ClientMisreads
      BY <2>1 DEF ShellTurn, ClientPuts, ClientGets, ClientRefused, ClientMisreads, ArchiveFails, ArchiveDiffers
    <2>5. client'.cmd = "send" /\ client'.pos = 14 /\ c2s' = c2s /\ s2c' = s2c
      BY <1>3, <1>5, <2>4 DEF ClientLocal, channels
    <2>6. Before(<<>>, Reply("err")) = Reply("err")
      BY <1>1, ShortBefore
    <2> QED
      BY <1>1, <1>5, <2>4, <2>5, <2>6 DEF Framed, FileUnwanted, Channels
  <1>6. ASSUME client.cmd = "send", client.pos = 14, Channels(<<>>, Reply("err"))
        PROVE  FileUnwanted' /\ Framed' /\ ~ClientMisreads
    <2>1. ClientOp.do = "put" /\ ClientOp.kind = "file" /\ ClientOp.x = "body" /\ ~ClientReturns /\ ~AtPrompt
      BY <1>2, <1>6 DEF Put
    <2>4. ClientPuts /\ ~ClientMisreads
      BY <2>1 DEF ShellTurn, ClientLocal, ClientGets, ClientRefused, ClientMisreads, ArchiveFails, ArchiveDiffers
    <2>5. client'.cmd = "send" /\ client'.pos = 15 /\ creg' = creg /\ s2c' = s2c
      BY <1>3, <1>6, <2>4 DEF ClientPuts
    <2>6. ASSUME ~ServerGone PROVE c2s' = Only([kind |-> "file", val |-> creg.body])
      <3>1. Value(creg, "body") = creg.body
        BY <1>1 DEF Value, Blank
      <3>2. c2s' = Append(<<>>, [kind |-> "file", val |-> creg.body])
        BY <1>6, <2>1, <2>4, <2>6, <3>1 DEF ClientPuts, Channels
      <3> QED
        BY <3>2, ShortBefore
    <2> QED
      BY <1>1, <1>6, <2>4, <2>5, <2>6 DEF Framed, FileUnwanted, Channels
  <1>7. ASSUME client.cmd = "send", client.pos = 15,
               Channels(Only([kind |-> "file", val |-> creg.body]), Reply("err"))
        PROVE  FileUnwanted' /\ Framed' /\ ~ClientMisreads
    <2>1. ClientOp.do = "get" /\ ClientOp.kind = "rsp" /\ ~ClientReturns /\ ~AtPrompt
      BY <1>2, <1>7 DEF Ack, Get
    <2>2. Head(s2c) = [kind |-> "rsp", val |-> "err"] /\ Tail(s2c) = <<>>
      BY <1>7, ShortBefore DEF Channels, Reply
    <2>3. Head(s2c).kind = "rsp" /\ Head(s2c).val \in Refusal
      BY <2>2 DEF Refusal
    <2>4. ClientRefused /\ ~ClientMisreads
      BY <2>1, <2>3 DEF ShellTurn, ClientPuts, ClientGets, ClientMisreads, ClientLocal, ArchiveFails, ArchiveDiffers
    <2>5. client' = Finish(client, ClientScript) /\ c2s' = c2s /\ s2c' = <<>>
      BY <1>7, <2>2, <2>4 DEF ClientRefused
    <2>6. client'.cmd = "send" /\ client'.pos = 18 /\ ClientEnded'
      <3>1. Len(ClientScript["send"]) + 1 = 18
        BY SendPlaces
      <3>2. client' = [client EXCEPT !.pos = 18]
        BY <1>7, <2>5, <3>1 DEF Finish
      <3>3. client'.cmd = "send" /\ client'.pos = 18
        BY <1>7, <3>2 DEF SidesOK, ClientOK
      <3> QED
        BY <3>1, <3>3 DEF ClientEnded
    <2>7. ~Begins' /\ Begun' = <<>>
      BY <2>6 DEF Begins, Begun
    <2>8. ASSUME ~ServerGone
          PROVE  c2s' # <<>> /\ c2s' = Before(Only([kind |-> "file", val |-> Head(c2s').val]), <<>>)
      <3>1. c2s' = Only([kind |-> "file", val |-> creg.body])
        BY <1>7, <2>5, <2>8 DEF Channels
      <3>2. c2s' # <<>> /\ Head(c2s') = [kind |-> "file", val |-> creg.body]
        BY <3>1, ShortBefore
      <3>3. Head(c2s').val = creg.body
        BY <3>2
      <3> QED
        BY <3>1, <3>2, <3>3, ShortBefore
    <2> QED
      BY <1>1, <2>4, <2>5, <2>6, <2>7, <2>8 DEF Framed, FileUnwanted
  <1>8. ASSUME Starting("send"), s2c = <<>>,
               ~ServerGone => /\ c2s # <<>>
                              /\ c2s = Before(Only([kind |-> "file", val |-> Head(c2s).val]), Begun)
        PROVE  FileUnwanted' /\ Framed' /\ ~ClientMisreads
    <2>1. \/ Starting("send")' /\ Begun' = Begun /\ UNCHANGED channels
          \/ /\ Starting("send")' /\ Begun = <<>> /\ Begun' = Only(Call(client.cmd))
             /\ c2s' = (IF ServerGone THEN c2s ELSE Append(c2s, Call(client.cmd)))
             /\ UNCHANGED s2c
      BY <1>1, <1>8, ShellMovesOn
    <2>2. CASE Starting("send")' /\ Begun' = Begun /\ UNCHANGED channels
      BY <1>1, <1>8, <2>2 DEF Framed, FileUnwanted, Starting, channels, ClientMisreads
    <2>3. CASE /\ Starting("send")' /\ Begun = <<>> /\ Begun' = Only(Call(client.cmd))
               /\ c2s' = (IF ServerGone THEN c2s ELSE Append(c2s, Call(client.cmd)))
               /\ UNCHANGED s2c
      <3>1. ASSUME ~ServerGone
            PROVE  /\ c2s' # <<>>
                   /\ c2s' = Before(Only([kind |-> "file", val |-> Head(c2s').val]), Begun')
        <4>1. PICK v : c2s = Before(Only([kind |-> "file", val |-> v]), <<>>)
          BY <1>8, <2>3, <3>1
        <4>2. c2s' = Before(Only([kind |-> "file", val |-> v]), Only(Call(client.cmd)))
          BY <2>3, <3>1, <4>1, ShortBefore
        <4>3. c2s' # <<>> /\ Head(c2s') = [kind |-> "file", val |-> v]
          BY <4>2, ShortBefore
        <4>4. Head(c2s').val = v
          BY <4>3
        <4> QED
          BY <2>3, <4>2, <4>3, <4>4
      <3> QED
        BY <1>1, <1>8, <2>3, <3>1 DEF Framed, FileUnwanted, Starting, ClientMisreads
    <2> QED
      BY <2>1, <2>2, <2>3
  <1>9. Before(<<>>, Reply("err")) = Reply("err")
    BY <1>1, ShortBefore
  <1> QED
    BY <1>4, <1>5, <1>6, <1>7, <1>8, <1>9 DEF FileUnwanted, Starting

LEMMA ShellStale ==
  ASSUME SidesOK, ~ClientGone, Stale, server' = server, faulted \subseteq faulted', ShellTurn, ShellStep
  PROVE  StreamKept'
  <1>1. /\ ServerGone' /\ "create" \in faulted'
        /\ s2c # <<>> /\ s2c = Only(Head(s2c))
        /\ Head(s2c).kind = "rsp" => Head(s2c).val = "err"
    BY DEF Stale, ServerGone
  <1>2. Tail(s2c) = <<>>
    <2>1. Tail(Only(Head(s2c))) = <<>>
      BY ShortBefore
    <2> QED
      BY <1>1, <2>1
  <1>3. CASE ClientMisreads
    <2>1. client'.mode = "lost"
      BY <1>3 DEF ClientMisreads, Ends, SidesOK, ClientOK
    <2> QED
      BY <1>1, <2>1 DEF StreamKept, InFrame
  <1>4. ASSUME ClientOp.kind = "rsp" PROVE ~ClientGets
    BY <1>1, <1>4 DEF ClientGets, Refusal
  <1>5. CASE ClientRefused
    <2>1. s2c' = <<>> /\ InFrame'
      BY <1>2, <1>5, ShellFramed DEF ClientRefused, ClientMisreads
    <2> QED
      BY <1>1, <2>1 DEF StreamKept, Framed, Silent
  <1>6. ASSUME ~ClientMisreads, s2c' = s2c, (Begins \/ ClientEnded)' PROVE StreamKept'
    <2>1. Stale'
      BY <1>1, <1>6 DEF Stale
    <2>2. InFrame'
      BY <1>6, ShellFramed
    <2> QED
      BY <2>1, <2>2 DEF StreamKept, Framed
  <1>7. CASE Begins
    BY <1>3, <1>4, <1>5, <1>6, <1>7, ShellBegins DEF ServerGone
  <1>8. CASE ClientEnded /\ ~Begins
    <2>1. /\ client.pos = Len(ClientScript[client.cmd]) + 1 /\ Len(ClientScript[client.cmd]) \in Nat
          /\ client.cmd \in DOMAIN ClientScript
      BY <1>8, ScriptIsLong DEF ClientEnded, SidesOK, ClientOK
    <2>2. ~ClientRunning
      BY <2>1 DEF ClientRunning
    <2>3. CASE ClientReturns
      <3>1. s2c' = s2c /\ ~ClientMisreads
        BY <2>2, <2>3 DEF ClientReturns, ClientMisreads, channels
      <3>2. CASE client.cmd = "quit"
        <4>1. ClientGone'
          BY <2>3, <3>2 DEF ClientReturns, Ends, ClientGone, SidesOK, ClientOK
        <4> QED
          BY <1>1, <3>1, <4>1, ShellFramed DEF StreamKept, Framed, Silent
      <3>3. CASE client.cmd = "check"
        <4>1. Begins'
          BY <2>3, <3>3 DEF ClientReturns, Enter, Begins, SidesOK, ClientOK
        <4> QED
          BY <1>6, <3>1, <4>1
      <3>4. CASE client.cmd \notin {"check", "quit"}
        <4>1. ClientEnded'
          BY <2>1, <2>3, <3>4 DEF ClientReturns, Ends, ClientEnded, SidesOK, ClientOK
        <4> QED
          BY <1>6, <3>1, <4>1
      <3> QED
        BY <3>2, <3>3, <3>4
    <2>4. CASE AtPrompt
      <3>1. Begins' /\ s2c' = s2c /\ ~ClientMisreads
        BY <2>2, <2>4 DEF AtPrompt, Starts, Enter, Begins, ClientMisreads, SidesOK, ClientOK, channels
      <3> QED
        BY <1>6, <3>1
    <2> QED
      BY <2>2, <2>3, <2>4 DEF ShellTurn, ClientPuts, ClientGets, ClientRefused, ClientMisreads, ClientLocal,
                              ArchiveFails, ArchiveDiffers
  <1> QED
    BY <1>7, <1>8 DEF Stale

-----------------------------------------------------------------------------
(* Every step of the shell.                                                 *)

LEMMA ShellFindsEnd ==
  ASSUME SidesOK, Framed, ShellStep, ClientAtEnd \/ ClientFails
  PROVE  StreamKept'
  <1>1. /\ ServerGone /\ ~ClientGone /\ ClientRunning /\ server' = server /\ ServerGone'
        /\ faulted \subseteq faulted'
    BY ShellSteps DEF ClientAtEnd, ClientFails, ServerGone
  <1>2. CASE s2c = <<>>
    BY <1>1, <1>2, ShellSilent
  <1>3. CASE s2c # <<>>
    <2>1. ClientFails /\ ClientOp.do = "put" /\ s2c' = s2c /\ InFrame'
      <3>1. ClientFails /\ ClientOp.do = "put"
        BY <1>3 DEF ClientAtEnd, ClientFails
      <3>2. ~ClientMisreads
        BY <3>1 DEF ClientMisreads
      <3> QED
        BY <3>1, <3>2, ShellFramed DEF ClientFails, channels
    <2>2. Dialogue[client.cmd][CDone + 1].who = "client"
      BY <1>1, <2>1, ClientPlace DEF Cl
    <2>3. ~Talking
      <3> SUFFICES ASSUME Talking PROVE FALSE
        OBVIOUS
      <3>1. PICK b \in Nat : TalkingAt(b)
        BY TalkingSomewhere
      <3>2. CDone < b /\ CDone \in Nat
        BY <1>1, <1>3, <3>1, Ahead, ClocksInRange DEF TalkingAt
      <3> QED
        BY <2>2, <3>1, <3>2 DEF TalkingAt, Between, PutBy
    <2>4. ~ServerRefuses
      BY <2>2, ClocksInRange DEF ServerRefuses, PutBy
    <2>5. ~Overlapping /\ ~ClientRefuses /\ ~ArchiveUnread /\ ~Silent
      BY <1>1, <1>3 DEF Overlapping, ClientRefuses, ArchiveUnread, Silent, Channels
    <2>6. /\ "create" \in faulted
          /\ s2c = Only(Head(s2c)) /\ (Head(s2c).kind = "rsp" => Head(s2c).val = "err")
      <3>1. CASE ArchiveUnwanted
        <4>1. s2c = Only([kind |-> "file", val |-> sreg.body])
          BY <1>1, <1>3, <3>1 DEF ArchiveUnwanted, Channels
        <4> QED
          BY <3>1, <4>1, ShortBefore DEF ArchiveUnwanted
      <3>2. CASE FileUnwanted
        <4>1. client.cmd = "send" /\ client.pos # 12 /\ client.pos \in 12 .. 15
          <5>1. client.cmd = "send" /\ client.pos = 12 => ClientOp.do = "get"
            BY DEF ClientOp, ClientScript, DoSend, Ack, Get
          <5> QED
            BY <1>1, <1>3, <2>1, <3>2, <5>1 DEF FileUnwanted
        <4>2. s2c = Reply("err")
          BY <1>1, <1>3, <3>2, <4>1, ShortBefore DEF FileUnwanted, Channels, Begins
        <4>3. Head(s2c) = [kind |-> "rsp", val |-> "err"]
          BY <4>2, ShortBefore DEF Reply
        <4> QED
          BY <3>2, <4>2, <4>3 DEF FileUnwanted, Reply, Refusal
      <3>3. CASE Stale
        BY <3>3 DEF Stale
      <3> QED
        BY <2>3, <2>4, <2>5, <3>1, <3>2, <3>3 DEF Framed
    <2>7. ClientGone' \/ ClientEnded'
      <3>1. client.cmd \in DOMAIN ClientScript /\ Len(ClientScript[client.cmd]) \in Nat
        BY <1>1, ClientPlace, ScriptIsLong
      <3> QED
        BY <2>1, <3>1 DEF ClientFails, Ends, Finish, ClientGone, ClientEnded, SidesOK, ClientOK
    <2> QED
      BY <1>1, <1>3, <2>1, <2>6, <2>7 DEF StreamKept, Framed, Stale, Silent
  <1> QED
    BY <1>2, <1>3

LEMMA ShellKeepsFrame ==
  ASSUME SidesOK, StreamKept, ShellStep
  PROVE  StreamKept'
  <1>1. /\ Framed /\ ~ClientGone /\ server' = server /\ sreg' = sreg /\ faulted \subseteq faulted'
        /\ InFrame
    BY ShellSteps DEF StreamKept
  <1>2. CASE ClientAtEnd \/ ClientFails
    BY <1>1, <1>2, ShellFindsEnd
  <1>3. CASE ClientLeaves \/ ClientIdle
    <2>1. client'.cmd = client.cmd /\ client'.pos = client.pos /\ InFrame'
      BY <1>1, <1>3 DEF ClientLeaves, ClientIdle, Ends, InFrame, SidesOK, ClientOK
    <2>2. UNCHANGED <<channels, creg, sreg>>
      BY <1>1, <1>3 DEF ClientLeaves, ClientIdle
    <2>3. Framed'
      BY <1>1, <2>1, <2>2, PhasesKept DEF ServerGone
    <2> QED
      BY <2>1, <2>3 DEF StreamKept
  <1>4. CASE ShellTurn
    <2>1. CASE Talking
      <3>1. Framed'
        <4>1. ~ClientRefused /\ ~ClientMisreads
          <5>1. PICK b \in Nat : TalkingAt(b)
            BY <2>1, TalkingSomewhere
          <5> QED
            BY <1>1, <5>1, ShellReads DEF TalkingAt
        <4>2. CASE ClientPuts \/ ClientGets \/ ClientLocal
          BY <1>1, <2>1, <4>2, ShellTalksOn DEF Framed
        <4> QED
          BY <1>1, <1>4, <2>1, <4>1, <4>2, ShellTalkReturns, ShellTalkStarts, ShellTalkStops DEF ShellTurn
      <3>2. InFrame'
        <4>1. PICK b \in Nat : TalkingAt(b)
          BY <2>1, TalkingSomewhere
        <4>2. ~ClientMisreads
          BY <1>1, <4>1, ShellReads DEF TalkingAt
        <4> QED
          BY <4>2, ShellFramed
      <3> QED
        BY <3>1, <3>2 DEF StreamKept
    <2>2. CASE Overlapping
      <3>1. Framed' /\ ~ClientMisreads
        BY <1>1, <1>4, <2>2, ShellOverlaps DEF Framed, Overlapping, Channels, ClientMisreads
      <3> QED
        BY <3>1, ShellFramed DEF StreamKept
    <2>3. CASE ServerRefuses
      BY <1>1, <1>4, <2>3, ShellIsRefused, ShellFramed DEF StreamKept
    <2>4. CASE ClientRefuses
      BY <1>1, <1>4, <2>4, ShellHasRefused, ShellFramed DEF StreamKept
    <2>5. CASE ArchiveUnread
      BY <1>1, <1>4, <2>5, ShellUnread, ShellFramed DEF StreamKept
    <2>6. CASE ArchiveUnwanted
      <3>1. "create" \in faulted'
        BY <1>1, <2>6 DEF ArchiveUnwanted
      <3>2. CASE ClientMisreads
        <4>1. client'.mode = "lost"
          BY <3>2 DEF ClientMisreads, Ends, SidesOK, ClientOK
        <4> QED
          BY <3>1, <4>1 DEF StreamKept, InFrame
      <3>3. Framed' \/ ClientMisreads
        BY <1>1, <1>4, <2>6, <3>1, ShellUnwanted
      <3> QED
        BY <3>1, <3>2, <3>3, ShellFramed DEF StreamKept
    <2>7. CASE FileUnwanted
      <3>1. "create" \in faulted'
        BY <1>1, <2>7 DEF FileUnwanted
      <3> QED
        BY <1>1, <1>4, <2>7, <3>1, ShellSendsUnwanted, ShellFramed DEF StreamKept
    <2>8. CASE Stale
      BY <1>1, <1>4, <2>8, ShellStale
    <2>9. CASE Silent
      BY <1>1, <2>9, ShellSilent DEF Silent
    <2> QED
      BY <1>1, <2>1, <2>2, <2>3, <2>4, <2>5, <2>6, <2>7, <2>8, <2>9 DEF Framed
  <1> QED
    BY <1>2, <1>3, <1>4, ShellSteps DEF ShellTurn

-----------------------------------------------------------------------------
(* The worker in a dialogue.                                                *)

Together(b) == server.cmd = client.cmd /\ b = SDone /\ Between(b)

LEMMA WorkerTalks ==
  ASSUME SidesOK, ~ServerGone, NEW b \in Nat, Together(b), client' = client, creg' = creg,
         ServerPuts \/ ServerGets \/ ServerLocal
  PROVE  Talking'
  <1> USE DEF Between
  <1>0. /\ client.cmd \in DOMAIN ClientScript /\ server.cmd # "loop" /\ CDone \in Nat
        /\ Length(client.cmd) \in Nat
    BY ClocksInRange DEF ClientScript, Together
  <1>1. /\ ServerRunning /\ server'.cmd = client.cmd /\ server'.mode = server.mode
        /\ SDone' = (IF ServerOp.do \in {"put", "get"} THEN b + 1 ELSE b)
        /\ (ClientGone' <=> ClientGone) /\ ~ServerGone' /\ CDone' = CDone /\ client'.cmd = client.cmd
    BY <1>0, ServerPlace DEF Together, ServerPuts, ServerGets, ServerLocal, ServerGone, ClientGone, CDone
  <1>2. SUFFICES Between(SDone)'
    BY <1>1 DEF Talking, Together
  <1>3. CASE ServerPuts
    <2>1. ServerOp.do = "put" /\ Dialogue[client.cmd][b + 1] = Sv(ServerOp.kind, ServerOp.x)
      BY <1>0, <1>1, <1>3, ServerPlace DEF Together, ServerPuts
    <2>2. CDone <= b
      BY <1>0, <2>1 DEF Together, PutBy, Sv
    <2>3. Message(sreg, Dialogue[client.cmd][b + 1]) = [kind |-> ServerOp.kind, val |-> Value(sreg, ServerOp.x)]
      BY <2>1 DEF Message, Sv
    <2>4. PutBy("server", client.cmd, CDone, b + 1) /\ PutBy("client", client.cmd, b + 1, CDone)
      BY <1>0, <2>1, <2>2 DEF Together, PutBy, Sv
    <2>5. ~ClientGone => s2c' = InFlight(client.cmd, CDone, b + 1, sreg)
      <3>1. ~ClientGone => s2c = InFlight(client.cmd, CDone, b, sreg)
        BY DEF Together, Channels
      <3>2. ~ClientGone => s2c' = Append(s2c, Message(sreg, Dialogue[client.cmd][b + 1]))
        BY <1>3, <2>3 DEF Together, ServerPuts
      <3>3. Append(InFlight(client.cmd, CDone, b, sreg), Message(sreg, Dialogue[client.cmd][b + 1]))
              = InFlight(client.cmd, CDone, b + 1, sreg)
        BY <1>0, <2>2, PutInFlight
      <3> QED
        BY <3>1, <3>2, <3>3
    <2>6. c2s' = InFlight(client.cmd, b + 1, CDone, creg)
      BY <1>0, <1>3, <2>2, NothingInFlight DEF Together, ServerPuts, Channels
    <2> QED
      BY <1>1, <1>3, <2>1, <2>4, <2>5, <2>6 DEF Together, ServerPuts, Channels
  <1>4. CASE ServerGets
    <2>1. ServerOp.do = "get" /\ Dialogue[client.cmd][b + 1].who = "client" /\ b < CDone
      BY <1>0, <1>1, <1>4, ServerPlace, Ahead DEF Together, ServerGets
    <2>2. PutBy("server", client.cmd, CDone, b + 1) /\ PutBy("client", client.cmd, b + 1, CDone)
      BY <1>0, <2>1 DEF Together, PutBy
    <2>3. c2s' = InFlight(client.cmd, b + 1, CDone, creg)
      <3>1. c2s = InFlight(client.cmd, b, CDone, creg) /\ c2s' = Tail(c2s)
        BY <1>4 DEF Together, ServerGets, Channels
      <3>2. Tail(InFlight(client.cmd, b, CDone, creg)) = InFlight(client.cmd, b + 1, CDone, creg)
        BY <1>0, <2>1, GetInFlight
      <3> QED
        BY <3>1, <3>2
    <2>4. ~ClientGone => s2c' = InFlight(client.cmd, CDone, b + 1, sreg')
      BY <1>0, <1>4, <2>1, NothingInFlight DEF Together, ServerGets, Channels
    <2> QED
      BY <1>1, <2>1, <2>2, <2>3, <2>4 DEF Together, Channels
  <1>5. CASE ServerLocal
    <2>1. sreg' = sreg \/ b <= CDone
      <3>1. CASE ServerOp.x \in {"hash", "open"}
        <4>1. b > 0 /\ Dialogue[client.cmd][b].who = "client"
          BY <1>1, <1>5, <3>1, ReadsAfterAnswer DEF Together, ServerLocal
        <4> QED
          BY <1>0, <4>1 DEF Together, PutBy
      <3> QED
        BY <1>5, <3>1 DEF Together, ServerLocal
    <2>2. ~ClientGone => s2c' = InFlight(client.cmd, CDone, b, sreg')
      BY <1>0, <1>5, <2>1, NothingInFlight DEF Together, ServerLocal, Channels, channels
    <2> QED
      BY <1>1, <1>5, <2>2 DEF Together, ServerLocal, Channels, channels
  <1> QED
    BY <1>3, <1>4, <1>5

LEMMA WorkerReads ==
  ASSUME SidesOK, ~ServerGone, NEW b \in Nat, Together(b)
  PROVE  ~ServerRefused /\ ~ServerMisreads
  <1> SUFFICES ASSUME ServerRefused \/ ServerMisreads PROVE FALSE
    OBVIOUS
  <1>0. client.cmd \in DOMAIN ClientScript /\ server.cmd # "loop"
    BY ClocksInRange DEF ClientScript, Together
  <1>1. ServerRunning /\ ServerOp.do = "get" /\ c2s # <<>>
    BY DEF ServerRefused, ServerMisreads
  <1>2. b < CDone /\ CDone \in Nat /\ CDone <= Length(client.cmd) /\ Length(client.cmd) \in Nat
    <2>1. b < CDone
      BY <1>1, Ahead DEF Together
    <2> QED
      BY <2>1, ClocksInRange
  <1>3. Head(c2s) = Message(creg, Dialogue[client.cmd][b + 1])
    <2>1. c2s = InFlight(client.cmd, b, CDone, creg)
      BY DEF Together, Between, Channels
    <2>2. Head(InFlight(client.cmd, b, CDone, creg)) = Message(creg, Dialogue[client.cmd][b + 1])
      BY <1>2, GetInFlight
    <2> QED
      BY <2>1, <2>2
  <1>4. b + 1 \in 1 .. Length(client.cmd)
    BY <1>2
  <1>5. Head(c2s).kind = ServerOp.kind /\ (Head(c2s).kind = "rsp" => Head(c2s).val \notin Refusal)
    BY <1>0, <1>1, <1>3, <1>4, AnswersInFlight, ServerPlace DEF SidesOK, ClientOK, Together
  <1> QED
    BY <1>5 DEF ServerRefused, ServerMisreads

(* The worker comes back to its loop.                                       *)
LEMMA WorkerTalkReturns ==
  ASSUME SidesOK, NEW b \in Nat, Together(b), client' = client, creg' = creg, ServerReturns
  PROVE  Talking'
  <1> USE DEF Together, Between
  <1>0. /\ client.cmd \in DOMAIN ClientScript /\ server.cmd # "loop" /\ CDone \in Nat
        /\ Length(client.cmd) \in Nat /\ DOMAIN sreg = DOMAIN Blank
    BY ClocksInRange DEF ClientScript, SidesOK, ServerOK
  <1>1. b = Length(client.cmd)
    BY <1>0, ClocksInRange DEF ServerReturns, SidesOK, ServerOK
  <1>2. /\ server'.cmd = "loop" /\ server'.pos = 1 /\ sreg' = Blank /\ c2s' = c2s /\ s2c' = s2c
        /\ (ClientGone' <=> ClientGone) /\ CDone' = CDone /\ client'.cmd = client.cmd
        /\ ~ServerGone
    BY DEF ServerReturns, Enter, SidesOK, ServerOK, ClientGone, ServerGone, CDone, channels
  <1>3. InFlight(client.cmd, CDone, b, sreg) = InFlight(client.cmd, CDone, b, Blank)
    BY <1>0, <1>1, LastInFlight
  <1>4. Between(Length(client.cmd))'
    BY <1>1, <1>2, <1>3 DEF Channels
  <1> QED
    BY <1>2, <1>4 DEF Talking

(* It answers with an error, or that it has the file.                       *)
LEMMA WorkerRefuses ==
  ASSUME SidesOK, ~ServerGone, NEW b \in Nat, Together(b), client' = client, creg' = creg,
         NEW code \in Refusal, ServerReplies({"existing", "store", "tar"}, code)
  PROVE  ServerRefuses'
  <1> USE DEF Together, Between
  <1>0. /\ client.cmd \in DOMAIN ClientScript /\ server.cmd # "loop" /\ CDone \in Nat
        /\ Length(client.cmd) \in Nat /\ DOMAIN sreg = DOMAIN Blank /\ ServerRunning
    BY ClocksInRange DEF ClientScript, SidesOK, ServerOK, ServerReplies
  <1>1. \/ client.cmd = "send" /\ b \in {9, 11}
        \/ client.cmd = "compress" /\ b = 2
    <2>1. ServerOp = ServerScript[server.cmd][server.pos] /\ ServerOp.do = "do"
          /\ ServerOp.x \in {"existing", "store", "tar"}
          /\ server.cmd \in DOMAIN ServerScript /\ server.pos \in 1 .. Len(ServerScript[server.cmd])
      BY <1>0, ServerPlace DEF ServerReplies, ServerOp
    <2>2. \/ server.cmd = "send" /\ server.pos \in {8, 12}
          \/ server.cmd = "compress" /\ server.pos = 1
      BY <2>1, WorkerStops
    <2>3. ServerClock["send"][8] = 9 /\ ServerClock["send"][12] = 11 /\ ServerClock["compress"][1] = 2
      BY SendPlaces, CompressPlaces
    <2> QED
      BY <2>2, <2>3 DEF SDone
  <1>2. /\ b + 1 <= Length(client.cmd) /\ Dialogue[client.cmd][b + 1] = SOk
        /\ client.cmd = "send" => Dialogue[client.cmd][b].who = "client"
        /\ client.cmd = "compress" => Dialogue[client.cmd][b] = SOk
    BY <1>1, SendPlaces, CompressPlaces
  <1>3. Dialogue[client.cmd][b + 1].who = "server" /\ Dialogue[client.cmd][b + 1].kind = "rsp"
    BY <1>2 DEF SOk, Sv
  <1>4. CDone <= b
    BY <1>0, <1>3 DEF PutBy
  <1>5. c2s = <<>>
    BY <1>0, <1>4, NothingInFlight DEF Channels
  <1>6. InFlight(client.cmd, CDone, b, sreg) = InFlight(client.cmd, CDone, b, Blank)
    <2>1. CASE client.cmd = "send"
      <3>1. CDone = b
        BY <1>0, <1>1, <1>2, <1>4, <2>1 DEF PutBy
      <3> QED
        BY <3>1, NothingInFlight
    <2>2. CASE client.cmd = "compress"
      <3>1. CDone >= 1
        BY <1>0, <1>1, <2>2, CompressPlaces DEF PutBy
      <3>2. \A i \in CDone + 1 .. b : Dialogue[client.cmd][i].x \in {"ack", "bye"}
        BY <1>0, <1>1, <1>2, <2>2, <3>1 DEF SOk, Sv
      <3> QED
        BY <1>0, <3>2, ConstantsInFlight
    <2> QED
      BY <1>1, <2>1, <2>2
  <1>7. ~ClientGone => s2c' = Before(InFlight(client.cmd, CDone, b, Blank), Reply(code))
    BY <1>0, <1>6, PutBehind DEF ServerReplies, Channels, Reply
  <1>8. /\ server'.cmd = client.cmd /\ server'.pos = Len(ServerScript[client.cmd]) + 1 /\ c2s' = <<>>
        /\ (ClientGone' <=> ClientGone) /\ CDone' = CDone /\ client'.cmd = client.cmd
    BY <1>5 DEF ServerReplies, Finish, SidesOK, ServerOK, ClientGone, CDone
  <1>9. b \in CDone .. Length(client.cmd) - 1 /\ PutBy("server", client.cmd, CDone, b + 1)
    BY <1>0, <1>2, <1>3, <1>4 DEF PutBy
  <1> QED
    BY <1>1, <1>3, <1>7, <1>8, <1>9 DEF ServerRefuses, ServerEnded, Channels

(* It cannot create the file, or read the archive.                          *)
LEMMA WorkerGivesUp ==
  ASSUME SidesOK, ~ServerGone, NEW b \in Nat, Together(b), client' = client, creg' = creg,
         \/ ServerReplies({"create"}, "err") /\ "create" \in faulted'
         \/ ArchiveUnreadable
  PROVE  Framed' /\ (ServerOp.x = "create" => FileUnwanted')
  <1> USE DEF Together, Between
  <1>0. /\ client.cmd \in DOMAIN ClientScript /\ server.cmd # "loop" /\ CDone \in Nat
        /\ DOMAIN creg = DOMAIN Blank /\ ServerRunning
        /\ server.cmd \in DOMAIN ServerScript /\ server.pos \in 1 .. Len(ServerScript[server.cmd])
        /\ ServerOp.do = "do" /\ ServerOp.x \in {"create", "open"}
    BY ClocksInRange, ServerPlace
    DEF ClientScript, SidesOK, ClientOK, ServerReplies, ArchiveUnreadable
  <1>1. \/ ServerOp.x = "create" /\ client.cmd = "send" /\ b = 10
        \/ ServerOp.x = "open" /\ client.cmd = "compress" /\ b = 7
    <2>1. \/ ServerOp.x = "create" /\ server.cmd = "send" /\ server.pos = 10
          \/ ServerOp.x = "open" /\ server.cmd = "compress" /\ server.pos = 9
      BY <1>0, WorkerStops DEF ServerOp
    <2>2. ServerClock["send"][10] = 10 /\ ServerClock["compress"][9] = 7
      BY SendPlaces, CompressPlaces
    <2> QED
      BY <2>1, <2>2 DEF SDone
  <1>2. /\ server'.cmd = client.cmd /\ server'.pos = Len(ServerScript[client.cmd]) + 1 /\ c2s' = c2s
        /\ (ClientGone' <=> ClientGone) /\ (ServerGone' <=> ServerGone)
    <2>1. server' = Finish(server, ServerScript) /\ c2s' = c2s
      BY DEF ServerReplies, ArchiveUnreadable, channels
    <2>2. server'.mode = server.mode /\ server'.cmd = client.cmd
          /\ server'.pos = Len(ServerScript[client.cmd]) + 1
      BY <2>1 DEF Finish, SidesOK, ServerOK
    <2> QED
      BY <2>1, <2>2 DEF ClientGone, ServerGone
  <1>3. ServerEnded(client.cmd)'
    BY <1>2 DEF ServerEnded
  <1>4. CASE ServerOp.x = "create"
    <2>1. client.cmd = "send" /\ b = 10 /\ ServerReplies({"create"}, "err") /\ "create" \in faulted'
      BY <1>1, <1>4 DEF ArchiveUnreadable
    <2>2. CDone \in {9, 10, 11} /\ client.pos \in 1 .. 18
      <3>1. client.pos \in 1 .. 18
        <4>1. Len(ClientScript[client.cmd]) = 17
          BY <2>1, SendPlaces
        <4> QED
          BY <4>1 DEF SidesOK, ClientOK
      <3>2. Length("send") = 13 /\ CDone \in 0 .. 13
        <4>1. Length("send") = 13
          BY SendPlaces
        <4> QED
          BY <2>1, <4>1, ClocksInRange
      <3> QED
        BY <2>1, <3>1, <3>2, SendPlaces DEF PutBy
    <2>3. /\ CDone = 9 => client.pos = 12
          /\ CDone = 10 => client.pos \in 13 .. 14
          /\ CDone = 11 => client.pos = 15
      BY <2>1, <2>2, SendPlaces DEF CDone
    <2>4. ~ClientGone => s2c' = Append(InFlight("send", CDone, 10, sreg), [kind |-> "rsp", val |-> "err"])
      BY <2>1 DEF ServerReplies, Channels
    <2>5. /\ c2s' = InFlight("send", 10, CDone, creg)
      BY <1>2, <2>1 DEF Channels
    <2>6. CASE CDone = 9
      <3>1. InFlight("send", 9, 10, sreg) = Only([kind |-> "rsp", val |-> "ack"])
        <4>1. Message(sreg, Dialogue["send"][10]) = [kind |-> "rsp", val |-> "ack"]
          BY SendPlaces DEF Message, Value, SOk, Sv, SidesOK, ServerOK, Blank
        <4> QED
          BY <4>1 DEF InFlight, Only
      <3>4. ASSUME ~ClientGone
            PROVE  s2c' = Append(Only([kind |-> "rsp", val |-> "ack"]), [kind |-> "rsp", val |-> "err"])
        BY <2>4, <2>6, <3>1, <3>4
      <3>2. ~ClientGone => s2c' = Before(Reply("ack"), Reply("err"))
        BY <3>4, ShortBefore DEF Reply
      <3>3. c2s' = <<>>
        BY <2>5, <2>6, NothingInFlight
      <3> QED
        BY <1>2, <1>3, <2>1, <2>3, <2>6, <3>2, <3>3 DEF Framed, FileUnwanted, Channels
    <2>7. CASE CDone = 10
      <3>1. InFlight("send", 10, 10, sreg) = <<>> /\ InFlight("send", 10, 10, creg) = <<>>
        BY NothingInFlight
      <3>2. ~ClientGone => s2c' = Reply("err")
        BY <2>4, <2>7, <3>1, ShortBefore DEF Reply
      <3>4. Before(<<>>, Reply("err")) = Reply("err")
        BY ShortBefore
      <3> QED
        BY <1>2, <1>3, <2>1, <2>3, <2>5, <2>7, <3>1, <3>2, <3>4 DEF Framed, FileUnwanted, Channels
    <2>8. CASE CDone = 11
      <3>1. InFlight("send", 11, 10, sreg) = <<>>
        BY NothingInFlight
      <3>2. ~ClientGone => s2c' = Reply("err")
        BY <2>4, <2>8, <3>1, ShortBefore DEF Reply
      <3>3. InFlight("send", 10, 11, creg) = Only([kind |-> "file", val |-> creg.body])
        <4>1. Message(creg, Dialogue["send"][11]) = [kind |-> "file", val |-> creg.body]
          BY <1>0, SendPlaces DEF Message, Value, Cl, Blank
        <4> QED
          BY <4>1 DEF InFlight, Only
      <3> QED
        BY <1>2, <1>3, <2>1, <2>3, <2>5, <2>8, <3>2, <3>3 DEF Framed, FileUnwanted, Channels
    <2> QED
      BY <2>2, <2>6, <2>7, <2>8
  <1>5. CASE ServerOp.x = "open"
    <2>1. client.cmd = "compress" /\ b = 7 /\ "read" \in faulted' /\ s2c' = s2c
      BY <1>1, <1>5 DEF ArchiveUnreadable, ServerReplies, channels
    <2>2. Length("compress") = 10 /\ CDone \in 0 .. 10 /\ client.pos \in 1 .. 14
      <3>1. Length("compress") = 10 /\ Len(ClientScript["compress"]) = 13
        BY CompressPlaces
      <3>2. Len(ClientScript[client.cmd]) = 13
        BY <2>1, <3>1
      <3> QED
        BY <2>1, <3>1, <3>2, ClocksInRange DEF SidesOK, ClientOK
    <2>3. CDone = 7
      BY <2>1, <2>2, CompressPlaces DEF PutBy
    <2>4. client.pos \in {8, 9}
      BY <2>1, <2>2, <2>3, CompressPlaces DEF CDone
    <2>5. c2s' = <<>> /\ (~ClientGone => s2c' = <<>>)
      BY <1>2, <2>1, <2>3, NothingInFlight DEF Channels
    <2> QED
      BY <1>2, <1>3, <1>5, <2>1, <2>4, <2>5 DEF Framed, ArchiveUnread, Channels
  <1> QED
    BY <1>0, <1>4, <1>5

(* The worker in its loop.                                                  *)
WorkerTurn ==
  \/ ServerPuts \/ ServerGets \/ ServerRefused \/ ServerMisreads
  \/ ServerReturns \/ Dispatch
  \/ ServerLocal \/ ArchiveUnreadable
  \/ \E code \in Refusal : ServerReplies({"existing", "store", "tar"}, code)
  \/ ServerReplies({"create"}, "err") /\ "create" \in faulted'

LEMMA LoopPlace ==
  ASSUME SidesOK, server.cmd = "loop", WorkerTurn
  PROVE  /\ server.pos \in 1 .. 3 /\ SDone = server.pos - 1
         /\ server.pos = 1 => /\ ServerGets \/ ServerMisreads
                              /\ ServerOp = Get("cmd", "cmd") /\ c2s # <<>>
         /\ server.pos = 2 => ServerPuts /\ ServerOp = OK
         /\ server.pos = 3 => Dispatch
  <1>1. server.pos \in 1 .. 3 /\ SDone = server.pos - 1 /\ Len(ServerScript["loop"]) = 3
    BY ClocksInRange, LoopScript
  <1>2. ~ServerReturns
    BY <1>1 DEF ServerReturns
  <1>3. CASE server.pos = 1
    <2>1. ServerOp = Get("cmd", "cmd")
      BY <1>3, LoopScript DEF ServerOp
    <2>2. ServerOp.do = "get" /\ ServerOp.kind = "cmd"
      BY <2>1 DEF Get
    <2>3. ServerGets \/ ServerMisreads
      BY <1>2, <2>2 DEF WorkerTurn, ServerPuts, ServerRefused, Dispatch, ServerDoes, ServerLocal,
                        ArchiveUnreadable, ServerReplies
    <2> QED
      BY <1>1, <1>3, <2>1, <2>3 DEF ServerGets, ServerMisreads
  <1>4. CASE server.pos = 2
    <2>1. ServerOp = OK
      BY <1>4, LoopScript DEF ServerOp
    <2>2. ServerOp.do = "put"
      BY <2>1 DEF OK, Put
    <2>3. ServerPuts
      BY <1>2, <2>2 DEF WorkerTurn, ServerGets, ServerRefused, ServerMisreads, Dispatch, ServerDoes,
                        ServerLocal, ArchiveUnreadable, ServerReplies
    <2> QED
      BY <1>1, <1>4, <2>1, <2>3
  <1>5. CASE server.pos = 3
    <2>1. ServerOp = Do("dispatch")
      BY <1>5, LoopScript DEF ServerOp
    <2>2. ServerOp.do = "do" /\ ServerOp.x = "dispatch"
      BY <2>1 DEF Do
    <2>3. Dispatch
      BY <1>2, <2>2 DEF WorkerTurn, ServerPuts, ServerGets, ServerRefused, ServerMisreads,
                        ServerLocal, ArchiveUnreadable, ServerReplies
    <2> QED
      BY <1>1, <1>5, <2>3
  <1> QED
    BY <1>1, <1>3, <1>4, <1>5

LEMMA HandlerOfCommand ==
  ASSUME NEW cmd \in DOMAIN ClientScript \ {"hello", "quit"}
  PROVE  HandlerOf(cmd) = cmd /\ cmd \in DOMAIN ServerScript \ {"loop"}
  BY DEF HandlerOf, ClientScript, ServerScript

(* Nothing to read: the worker waits.                                       *)
LEMMA WorkerRests ==
  ASSUME SidesOK, ~ServerGone, server.cmd = "loop", server.pos = 1, Between(Length(client.cmd))
  PROVE  ~WorkerTurn
  <1>1. CDone <= Length(client.cmd) /\ Length(client.cmd) \in Nat /\ CDone \in Nat
    BY ClocksInRange
  <1>2. c2s = <<>>
    BY <1>1, NothingInFlight DEF Between, Channels
  <1> QED
    BY <1>2, LoopPlace

LEMMA WorkerLoops ==
  ASSUME SidesOK, ~ServerGone, server.cmd = "loop", client.cmd # "hello",
         server.pos > 1 => sreg.cmd = client.cmd, Between(server.pos - 1),
         client' = client, creg' = creg, WorkerTurn
  PROVE  Talking' /\ ~ServerMisreads
  <1> USE DEF Between
  <1>0. /\ client.cmd \in DOMAIN ClientScript \ {"hello"} /\ CDone \in Nat /\ Length(client.cmd) \in Nat
        /\ Length(client.cmd) >= 2
        /\ DOMAIN sreg = DOMAIN Blank /\ server.pos \in 1 .. 3
        /\ (ClientGone' <=> ClientGone) /\ CDone' = CDone /\ client'.cmd = client.cmd
        /\ Dialogue[client.cmd][1] = Cl("cmd", client.cmd) /\ Dialogue[client.cmd][2] = SOk
    <2>1. \A n \in Nat \ {0, 1} : n \in Nat /\ n >= 2
      OBVIOUS
    <2>2. client.cmd \in DOMAIN ClientScript \ {"hello"} /\ Length(client.cmd) \in Nat \ {0, 1}
      BY ClocksInRange
    <2> QED
      BY <2>1, <2>2, ClocksInRange, DialogueShape DEF SidesOK, ServerOK, ClientGone, CDone
  <1>1. CASE server.pos = 1
    <2>1. c2s # <<>> /\ ServerOp = Get("cmd", "cmd") /\ (ServerGets \/ ServerMisreads)
      BY <1>1, LoopPlace
    <2>2. 0 < CDone
      BY <1>0, <1>1, <2>1, NothingInFlight DEF Channels
    <2>3. /\ Head(c2s) = Message(creg, Dialogue[client.cmd][1])
          /\ Tail(c2s) = InFlight(client.cmd, 1, CDone, creg)
      <3>1. c2s = InFlight(client.cmd, 0, CDone, creg)
        BY <1>1 DEF Channels
      <3>0. CDone \in Nat /\ 0 \in Nat
        BY <1>0
      <3>2. /\ Head(InFlight(client.cmd, 0, CDone, creg)) = Message(creg, Dialogue[client.cmd][0 + 1])
            /\ Tail(InFlight(client.cmd, 0, CDone, creg)) = InFlight(client.cmd, 0 + 1, CDone, creg)
        BY <2>2, <3>0, GetInFlight
      <3> QED
        BY <3>1, <3>2
    <2>4. Head(c2s).kind = "cmd" /\ Head(c2s).val = client.cmd
      <3>1. Value(creg, client.cmd) = client.cmd
        BY <1>0, CommandStart DEF Value, SidesOK, ClientOK
      <3> QED
        BY <1>0, <2>3, <3>1 DEF Message, Cl
    <2>5. ServerGets /\ ~ServerMisreads
      BY <2>1, <2>4 DEF ServerMisreads, Get
    <2>6. /\ server'.cmd = "loop" /\ server'.pos = 2 /\ c2s' = Tail(c2s) /\ s2c' = s2c
          /\ server'.mode = server.mode
      BY <1>1, <2>5 DEF ServerGets, Step, SidesOK, ServerOK
    <2>7. sreg'.cmd = client.cmd
      <3>1. sreg' = Store(sreg, "cmd", client.cmd)
        BY <2>1, <2>4, <2>5 DEF ServerGets, Get
      <3> QED
        BY <1>0, <3>1 DEF Store, Blank
    <2>8. SDone' = 1
      BY <2>6, LoopScript DEF SDone
    <2>9. PutBy("client", client.cmd, 1, CDone) /\ PutBy("server", client.cmd, CDone, 1)
      BY <1>0, <1>1, <2>2 DEF PutBy
    <2>10. ~ClientGone => s2c' = InFlight(client.cmd, CDone, 1, sreg')
      BY <1>0, <1>1, <2>2, <2>6, NothingInFlight DEF Channels
    <2>11. Between(1)'
      BY <1>0, <2>3, <2>6, <2>9, <2>10 DEF Channels
    <2> QED
      BY <1>0, <2>5, <2>6, <2>7, <2>8, <2>11 DEF Talking
  <1>2. CASE server.pos = 2
    <2>1. ServerPuts /\ ServerOp = OK
      BY <1>2, LoopPlace
    <2>2. ServerOp.do = "put" /\ ServerOp.kind = "rsp" /\ ServerOp.x = "ack"
      BY <2>1 DEF OK, Put
    <2>3. CDone <= 1
      BY <1>0, <1>2 DEF PutBy, SOk, Sv
    <2>4. Message(sreg, Dialogue[client.cmd][2]) = [kind |-> "rsp", val |-> Value(sreg, "ack")]
      BY <1>0 DEF Message, SOk, Sv
    <2>5. /\ server'.cmd = "loop" /\ server'.pos = 3 /\ c2s' = c2s /\ sreg' = sreg
          /\ server'.mode = server.mode
      BY <1>2, <2>1 DEF ServerPuts, Step, SidesOK, ServerOK
    <2>6. ~ClientGone => s2c' = InFlight(client.cmd, CDone, 2, sreg)
      <3>1. ~ClientGone => s2c' = Append(InFlight(client.cmd, CDone, 1, sreg), Message(sreg, Dialogue[client.cmd][2]))
        BY <1>2, <2>1, <2>2, <2>4 DEF ServerPuts, Channels
      <3>0. CDone \in Nat
        BY <1>0
      <3>2. Append(InFlight(client.cmd, CDone, 1, sreg), Message(sreg, Dialogue[client.cmd][2]))
              = InFlight(client.cmd, CDone, 2, sreg)
        BY <2>3, <3>0, PutSecond
      <3> QED
        BY <3>1, <3>2
    <2>7. c2s' = InFlight(client.cmd, 2, CDone, creg)
      BY <1>0, <1>2, <2>3, <2>5, NothingInFlight DEF Channels
    <2>8. PutBy("client", client.cmd, 2, CDone) /\ PutBy("server", client.cmd, CDone, 2)
      BY <1>0, <1>2, <2>3 DEF PutBy, SOk, Sv
    <2>9. SDone' = 2
      BY <2>5, LoopScript DEF SDone
    <2>10. Between(2)'
      BY <1>0, <2>5, <2>6, <2>7, <2>8 DEF Channels
    <2> QED
      BY <1>0, <1>2, <2>2, <2>5, <2>9, <2>10 DEF Talking, ServerMisreads
  <1>3. CASE server.pos = 3
    <2>1. Dispatch
      BY <1>3, LoopPlace
    <2>2. sreg.cmd = client.cmd /\ c2s' = c2s /\ s2c' = s2c /\ DOMAIN sreg' = DOMAIN Blank
      BY <1>3, <2>1 DEF Dispatch, channels, Blank
    <2>3. \A i \in CDone + 1 .. 2 : Dialogue[client.cmd][i].x \in {"ack", "bye"}
      <3>1. CDone # 0
        BY <1>0, <1>3 DEF PutBy, Cl
      <3> QED
        BY <1>0, <3>1 DEF SOk, Sv
    <2>4. InFlight(client.cmd, CDone, 2, sreg) = InFlight(client.cmd, CDone, 2, sreg')
      BY <1>0, <2>2, <2>3, ConstantsInFlight
    <2>6. PutBy("client", client.cmd, 2, CDone) /\ PutBy("server", client.cmd, CDone, 2)
          /\ c2s' = InFlight(client.cmd, 2, CDone, creg)
          /\ (~ClientGone => s2c' = InFlight(client.cmd, CDone, 2, sreg'))
      BY <1>3, <2>2, <2>4 DEF Channels
    <2>7. Between(2)'
      BY <1>0, <2>6 DEF Channels
    <2>8. ~ServerMisreads
      <3>1. ServerOp.do = "do"
        BY <2>1 DEF Dispatch, ServerDoes
      <3> QED
        BY <3>1 DEF ServerMisreads
    <2>9. CASE client.cmd = "quit"
      <3>1. server' = Ends(server, "closed")
        BY <2>1, <2>2, <2>9 DEF Dispatch
      <3>2. server'.cmd = "loop" /\ server'.pos = 3 /\ ServerGone'
        BY <1>3, <3>1 DEF Ends, ServerGone, SidesOK, ServerOK
      <3>3. SDone' = 2
        BY <3>2, LoopScript DEF SDone
      <3> QED
        BY <1>0, <2>7, <2>8, <3>2, <3>3 DEF Talking
    <2>10. CASE client.cmd # "quit"
      <3>1. server' = Enter(server, client.cmd) /\ client.cmd \in DOMAIN ServerScript \ {"loop"}
        BY <1>0, <2>1, <2>2, <2>10, HandlerOfCommand DEF Dispatch
      <3>2. server'.cmd = client.cmd /\ server'.pos = 1
        BY <3>1 DEF Enter, SidesOK, ServerOK
      <3>3. SDone' = 2
        BY <1>0, <3>1, <3>2, ServerClockEnds DEF SDone
      <3> QED
        BY <1>0, <2>7, <2>8, <3>2, <3>3 DEF Talking
    <2> QED
      BY <2>9, <2>10
  <1> QED
    BY <1>0, <1>1, <1>2, <1>3

LEMMA WorkerInDialogue ==
  ASSUME SidesOK, ~ServerGone, Talking, client' = client, creg' = creg, WorkerTurn
  PROVE  Framed' /\ ~ServerMisreads
  <1>1. ASSUME server.cmd = client.cmd, Between(SDone)
        PROVE  Framed' /\ ~ServerMisreads
    <2>1. server.cmd # "loop" /\ SDone \in Nat
      BY <1>1, ClocksInRange DEF ClientScript
    <2>2. PICK b \in Nat : b = SDone
      BY <2>1
    <2>3. Together(b)
      BY <1>1, <2>2 DEF Together
    <2>4. ~ServerRefused /\ ~ServerMisreads
      BY <2>3, WorkerReads
    <2>5. ~Dispatch
      <3>1. ServerRunning =>
              server.cmd \in DOMAIN ServerScript /\ server.pos \in 1 .. Len(ServerScript[server.cmd])
        BY <2>1, ServerPlace
      <3> QED
        BY <2>1, <3>1, WorkerStops DEF Dispatch, ServerDoes, ServerOp
    <2>6. CASE ServerPuts \/ ServerGets \/ ServerLocal
      BY <2>3, <2>4, <2>6, WorkerTalks DEF Framed
    <2>7. CASE ServerReturns
      BY <2>3, <2>4, <2>7, WorkerTalkReturns DEF Framed
    <2>8. CASE \E code \in Refusal : ServerReplies({"existing", "store", "tar"}, code)
      BY <2>3, <2>4, <2>8, WorkerRefuses DEF Framed
    <2>9. CASE ArchiveUnreadable \/ (ServerReplies({"create"}, "err") /\ "create" \in faulted')
      BY <2>3, <2>4, <2>9, WorkerGivesUp
    <2> QED
      BY <2>4, <2>5, <2>6, <2>7, <2>8, <2>9 DEF WorkerTurn
  <1>2. ~(server.cmd = "loop" /\ server.pos = 1 /\ Between(Length(client.cmd)))
    BY WorkerRests
  <1>3. ASSUME server.cmd = "loop", client.cmd # "hello", server.pos > 1 /\ ~ServerGone => sreg.cmd = client.cmd,
               Between(SDone)
        PROVE  Framed' /\ ~ServerMisreads
    <2>1. SDone = server.pos - 1
      BY <1>3, ClocksInRange
    <2>2. Between(server.pos - 1)
      BY <1>3, <2>1
    <2> QED
      BY <1>3, <2>2, WorkerLoops DEF Framed
  <1> QED
    BY <1>1, <1>2, <1>3 DEF Talking

(* The call of the next command is the first message of its dialogue.       *)
LEMMA BegunInFlight ==
  ASSUME SidesOK, Begins
  PROVE  /\ CDone \in {0, 1} /\ Begun = InFlight(client.cmd, 0, CDone, creg)
         /\ PutBy("client", client.cmd, 0, CDone) /\ PutBy("server", client.cmd, CDone, 0)
  <1>1. client.cmd \in DOMAIN ClientScript \ {"hello"} /\ client.pos \in {1, 2} /\ DOMAIN creg = DOMAIN Blank
    BY DEF Begins, SidesOK, ClientOK
  <1>2. CDone = client.pos - 1
    BY <1>1, ClientClockEnds DEF CDone
  <1>3. Dialogue[client.cmd][1] = Cl("cmd", client.cmd)
    BY <1>1, DialogueShape
  <1>4. Message(creg, Dialogue[client.cmd][1]) = [kind |-> "cmd", val |-> client.cmd]
    <2>1. Value(creg, client.cmd) = client.cmd
      BY <1>1, CommandStart DEF Value
    <2> QED
      BY <1>3, <2>1 DEF Message, Cl
  <1>5. CASE client.pos = 1
    BY <1>2, <1>5, NothingInFlight DEF Begun, PutBy
  <1>6. CASE client.pos = 2
    <2>1. InFlight(client.cmd, 0, 1, creg) = Only([kind |-> "cmd", val |-> client.cmd])
      BY <1>4 DEF InFlight, Only
    <2> QED
      BY <1>2, <1>3, <1>6, <2>1 DEF Begun, PutBy, Cl
  <1> QED
    BY <1>1, <1>5, <1>6

(* The worker ends the last command when the shell has begun the next.      *)
LEMMA WorkerEndsLast ==
  ASSUME SidesOK, ~ServerGone, Begins, server.cmd # "loop", NEW b \in Nat, b = SDone,
         PutBy("client", server.cmd, b, Length(server.cmd)),
         Channels(Before(InFlight(server.cmd, b, Length(server.cmd), Blank), Begun), <<>>),
         client' = client, creg' = creg, WorkerTurn
  PROVE  Framed' /\ ~ServerMisreads
  <1>0. /\ server.cmd \in DOMAIN ClientScript /\ server.cmd \in DOMAIN ServerScript
        /\ Length(server.cmd) \in Nat /\ DOMAIN Blank = DOMAIN Blank
        /\ (ClientGone' <=> ClientGone) /\ Begins' /\ Begun' = Begun /\ Short(Begun)
    BY ClocksInRange, ShortBefore DEF SidesOK, ServerOK, ClientGone, Begins, Begun
  <1>1. c2s = Before(InFlight(server.cmd, b, Length(server.cmd), Blank), Begun) /\ (~ClientGone => s2c = <<>>)
    BY DEF Channels
  <1>2. ServerRunning => server.pos \in 1 .. Len(ServerScript[server.cmd])
    BY ServerPlace
  <1>3. ~ServerPuts
    BY <1>0, ServerPlace DEF ServerPuts, PutBy, Sv
  <1>4. ASSUME ServerRunning, ServerOp.do = "do"
        PROVE  ServerOp.x \notin {"existing", "store", "tar", "create", "open", "dispatch"}
    <2>1. SUFFICES ASSUME ServerOp.x \in {"existing", "store", "tar", "create", "open", "dispatch"}
                   PROVE  FALSE
      OBVIOUS
    <2>2. \/ server.cmd = "send" /\ server.pos \in {8, 10, 12}
          \/ server.cmd = "compress" /\ server.pos \in {1, 9}
      BY <1>0, <1>2, <1>4, <2>1, WorkerStops DEF ServerOp
    <2>3. CASE server.cmd = "send"
      <3>1. b \in {9, 10, 11}
        BY <2>2, <2>3, SendPlaces DEF SDone
      <3>2. Length("send") = 13 /\ Dialogue["send"][12].who = "server"
        BY SendPlaces
      <3> QED
        BY <2>3, <3>1, <3>2 DEF PutBy
    <2>4. CASE server.cmd = "compress"
      <3>1. b \in {2, 7}
        BY <2>2, <2>4, CompressPlaces DEF SDone
      <3>2. Length("compress") = 10 /\ Dialogue["compress"][8].who = "server"
        BY CompressPlaces
      <3> QED
        BY <2>4, <3>1, <3>2 DEF PutBy
    <2> QED
      BY <2>2, <2>3, <2>4
  <1>5. /\ ~Dispatch /\ ~ArchiveUnreadable
        /\ \A steps \in {{"existing", "store", "tar"}, {"create"}} : \A code : ~ServerReplies(steps, code)
    BY <1>4 DEF Dispatch, ServerDoes, ArchiveUnreadable, ServerReplies
  <1>6. CASE ServerGets \/ ServerRefused \/ ServerMisreads
    <2>1. /\ ServerRunning /\ ServerOp.do = "get" /\ b < Length(server.cmd)
          /\ Dialogue[server.cmd][b + 1].kind = ServerOp.kind
      BY <1>6, ServerPlace DEF ServerGets, ServerRefused, ServerMisreads
    <2>2. /\ Head(c2s) = Message(Blank, Dialogue[server.cmd][b + 1])
          /\ Tail(c2s) = Before(InFlight(server.cmd, b + 1, Length(server.cmd), Blank), Begun)
      <3>1. b \in Nat /\ Length(server.cmd) \in Nat /\ Short(Begun)
        BY <1>0
      <3> QED
        BY <1>1, <2>1, <3>1, GetBefore
    <2>3. Head(c2s).kind = ServerOp.kind /\ (Head(c2s).kind = "rsp" => Head(c2s).val \notin Refusal)
      <3>1. b + 1 \in 1 .. Length(server.cmd)
        BY <1>0, <2>1
      <3> QED
        BY <1>0, <2>1, <2>2, <3>1, AnswersInFlight
    <2>4. ServerGets /\ ~ServerMisreads
      BY <1>6, <2>3 DEF ServerRefused, ServerMisreads
    <2>5. /\ server'.cmd = server.cmd /\ SDone' = b + 1 /\ c2s' = Tail(c2s) /\ s2c' = s2c
      BY <2>1, <2>4, ServerPlace DEF ServerGets
    <2>6. PutBy("client", server.cmd, b + 1, Length(server.cmd))
      BY <1>0 DEF PutBy
    <2>7. Overlapping'
      BY <1>0, <1>1, <2>2, <2>5, <2>6 DEF Overlapping, Channels
    <2> QED
      BY <2>4, <2>7 DEF Framed
  <1>7. CASE ServerLocal
    <2>1. /\ server'.cmd = server.cmd /\ SDone' = b /\ c2s' = c2s /\ s2c' = s2c
      BY <1>7, ServerPlace DEF ServerLocal, channels
    <2>2. Overlapping'
      BY <1>0, <1>1, <2>1 DEF Overlapping, Channels
    <2> QED
      BY <1>7, <2>2 DEF Framed, ServerLocal, ServerMisreads
  <1>8. CASE ServerReturns
    <2>1. b = Length(server.cmd)
      BY <1>8, ClocksInRange DEF ServerReturns, SidesOK, ServerOK
    <2>2. /\ server'.cmd = "loop" /\ server'.pos = 1 /\ c2s' = c2s /\ s2c' = s2c /\ ~ServerRunning
      BY <1>8 DEF ServerReturns, Enter, SidesOK, ServerOK, channels, ServerRunning
    <2>3. c2s = Begun
      <3>1. InFlight(server.cmd, b, Length(server.cmd), Blank) = <<>>
        BY <1>0, <2>1, NothingInFlight
      <3> QED
        BY <1>0, <1>1, <3>1, ShortBefore
    <2>4. InFlight(client.cmd, CDone, 0, sreg') = <<>> /\ CDone' = CDone /\ client'.cmd = client.cmd
      BY BegunInFlight, NothingInFlight DEF CDone
    <2>5. SDone' = 0
      BY <2>2, LoopScript DEF SDone
    <2>6. Between(0)'
      BY <1>0, <1>1, <2>2, <2>3, <2>4, BegunInFlight DEF Between, Channels
    <2> QED
      BY <2>2, <2>5, <2>6 DEF Framed, Talking, Begins, ServerMisreads
  <1> QED
    BY <1>3, <1>5, <1>6, <1>7, <1>8 DEF WorkerTurn

LEMMA WorkerOverlaps ==
  ASSUME SidesOK, ~ServerGone, Overlapping, client' = client, creg' = creg, WorkerTurn
  PROVE  Framed' /\ ~ServerMisreads
  <1>1. ASSUME server.cmd # "loop",
               PutBy("client", server.cmd, SDone, Length(server.cmd)),
               Channels(Before(InFlight(server.cmd, SDone, Length(server.cmd), Blank), Begun), <<>>)
        PROVE  Framed' /\ ~ServerMisreads
    <2>1. PICK b \in Nat : b = SDone
      BY <1>1, ClocksInRange
    <2>2. /\ PutBy("client", server.cmd, b, Length(server.cmd)) /\ Begins
          /\ Channels(Before(InFlight(server.cmd, b, Length(server.cmd), Blank), Begun), <<>>)
      BY <1>1, <2>1 DEF Overlapping
    <2> QED
      BY <1>1, <2>1, <2>2, WorkerEndsLast
  <1>2. ASSUME server.cmd = "loop", server.pos = 3, ~ServerGone => sreg.cmd = "help", Channels(Begun, <<>>)
        PROVE  Framed' /\ ~ServerMisreads
    <2>1. Dispatch /\ sreg.cmd = "help" /\ Begins
      BY <1>2, LoopPlace DEF Overlapping
    <2>2. HandlerOf("help") = "help"
      BY DEF HandlerOf, ServerScript
    <2>3. server' = Enter(server, "help") /\ c2s' = c2s /\ s2c' = s2c
      BY <2>1, <2>2 DEF Dispatch, channels
    <2>4. server'.cmd = "help" /\ server'.pos = 1
      BY <2>3 DEF Enter, SidesOK, ServerOK
    <2>5. SDone' = 2 /\ Length("help") = 2
      BY <2>4 DEF SDone, ServerClock, Length, Dialogue
    <2>6. /\ InFlight("help", 2, 2, Blank) = <<>> /\ Before(<<>>, Begun) = Begun
          /\ Begins' /\ Begun' = Begun /\ (ClientGone' <=> ClientGone)
      BY <2>1, NothingInFlight, ShortBefore DEF Begins, Begun, ClientGone
    <2>7. PutBy("client", "help", 2, 2)
      BY DEF PutBy
    <2>8. Overlapping'
      BY <1>2, <2>3, <2>4, <2>5, <2>6, <2>7 DEF Overlapping, Channels
    <2> QED
      BY <2>1, <2>8 DEF Framed, Dispatch, ServerDoes, ServerMisreads
  <1> QED
    BY <1>1, <1>2 DEF Overlapping

-----------------------------------------------------------------------------
(* The worker when the command has ended before its dialogue.               *)

LEMMA WorkerEnded ==
  ASSUME SidesOK, NEW cmd \in {"send", "compress"}, ServerEnded(cmd), WorkerTurn
  PROVE  \/ /\ ServerReturns /\ ~ServerMisreads
            /\ ServerEnded(cmd)' /\ UNCHANGED channels /\ (ServerGone' <=> ServerGone)
         \/ /\ ServerGets \/ ServerMisreads
            /\ ServerOp = Get("cmd", "cmd") /\ c2s # <<>>
  <1>1. cmd \in DOMAIN ServerScript /\ Len(ServerScript[cmd]) \in Nat /\ cmd # "loop"
    BY ScriptLengths DEF ServerScript
  <1>2. CASE server.cmd = cmd /\ server.pos = Len(ServerScript[cmd]) + 1
    <2>1. ~ServerRunning
      BY <1>1, <1>2 DEF ServerRunning
    <2>2. ServerReturns
      BY <2>1 DEF WorkerTurn, ServerPuts, ServerGets, ServerRefused, ServerMisreads, Dispatch, ServerDoes,
                  ServerLocal, ArchiveUnreadable, ServerReplies
    <2>3. /\ server'.cmd = "loop" /\ server'.pos = 1 /\ server'.mode = "run" /\ server.mode = "run"
          /\ UNCHANGED channels
      BY <2>2 DEF ServerReturns, Enter, SidesOK, ServerOK
    <2> QED
      BY <2>1, <2>2, <2>3 DEF ServerEnded, ServerGone, ServerMisreads
  <1>3. CASE server.cmd = "loop" /\ server.pos = 1
    BY <1>3, LoopPlace
  <1> QED
    BY <1>2, <1>3 DEF ServerEnded

LEMMA WorkerHasRefused ==
  ASSUME SidesOK, ~ServerGone, ServerRefuses, client' = client, creg' = creg, WorkerTurn
  PROVE  Framed' /\ ~ServerMisreads
  <1>1. PICK cmd \in {"send", "compress"} : client.cmd = cmd /\ ServerEnded(cmd)
    BY DEF ServerRefuses
  <1>2. c2s = <<>>
    BY DEF ServerRefuses, Channels
  <1>3. /\ ServerReturns /\ ~ServerMisreads
        /\ ServerEnded(cmd)' /\ UNCHANGED channels /\ (ServerGone' <=> ServerGone)
    BY <1>1, <1>2, WorkerEnded
  <1>4. CDone' = CDone /\ client'.cmd = client.cmd /\ (ClientGone' <=> ClientGone)
    BY DEF CDone, ClientGone
  <1>5. ServerRefuses'
    BY <1>1, <1>3, <1>4 DEF ServerRefuses, Channels, channels
  <1> QED
    BY <1>3, <1>5 DEF Framed

LEMMA WorkerHasNotRead ==
  ASSUME SidesOK, ~ServerGone, ArchiveUnread, client' = client, creg' = creg, WorkerTurn,
         faulted \subseteq faulted'
  PROVE  Framed' /\ ~ServerMisreads
  <1>2. c2s = <<>> /\ ServerEnded("compress")
    BY DEF ArchiveUnread, Channels
  <1>3. /\ ServerReturns /\ ~ServerMisreads
        /\ ServerEnded("compress")' /\ UNCHANGED channels /\ (ServerGone' <=> ServerGone)
    BY <1>2, WorkerEnded
  <1>5. ArchiveUnread'
    BY <1>3 DEF ArchiveUnread, Channels, channels, ClientGone
  <1> QED
    BY <1>3, <1>5 DEF Framed

LEMMA WorkerUnwanted ==
  ASSUME SidesOK, ~ServerGone, FileUnwanted, client' = client, creg' = creg, WorkerTurn,
         faulted \subseteq faulted'
  PROVE  (FileUnwanted' /\ Framed') \/ ServerMisreads
  <1>1. ServerEnded("send") /\ (ClientGone' <=> ClientGone) /\ Begun' = Begun /\ (Begins' <=> Begins)
        /\ (ClientEnded' <=> ClientEnded)
    BY DEF FileUnwanted, ClientGone, Begun, Begins, ClientEnded
  <1>2. c2s # <<>> => Head(c2s).kind = "file"
    <2>1. \A v, rest : Short(rest) =>
            Head(Before(Only([kind |-> "file", val |-> v]), rest)).kind = "file"
      BY ShortBefore
    <2>2. \A v : Head(Only([kind |-> "file", val |-> v])).kind = "file"
      BY ShortBefore
    <2> QED
      BY <2>1, <2>2, ShortBefore DEF FileUnwanted, Channels
  <1>3. CASE /\ ServerReturns /\ ~ServerMisreads
             /\ ServerEnded("send")' /\ UNCHANGED channels /\ (ServerGone' <=> ServerGone)
    <2>1. FileUnwanted'
      BY <1>1, <1>3 DEF FileUnwanted, Channels, channels
    <2> QED
      BY <2>1 DEF Framed
  <1>4. CASE (ServerGets \/ ServerMisreads) /\ ServerOp = Get("cmd", "cmd") /\ c2s # <<>>
    BY <1>2, <1>4 DEF ServerGets, Get
  <1> QED
    BY <1>1, <1>3, <1>4, WorkerEnded

(* The worker is done with an archive the shell did not take.               *)
CompressOver ==
  /\ Starting("compress") /\ server.cmd = "compress" /\ server.pos = 14
  /\ Channels(Begun, <<>>)

LEMMA CompressOverFramed == SidesOK /\ CompressOver => Framed
  <1> SUFFICES ASSUME SidesOK, CompressOver PROVE Framed
    OBVIOUS
  <1>1. Len(ServerScript["compress"]) = 13 /\ Length("compress") = 10
    BY CompressPlaces
  <1>2. SDone = 10
    BY <1>1, ClocksInRange DEF CompressOver
  <1>3. CASE Begins
    <2>1. InFlight("compress", 10, 10, Blank) = <<>> /\ Before(<<>>, Begun) = Begun
      BY NothingInFlight, ShortBefore
    <2>2. PutBy("client", "compress", 10, 10)
      BY DEF PutBy
    <2> QED
      BY <1>1, <1>2, <1>3, <2>1, <2>2 DEF CompressOver, Framed, Overlapping, Channels
  <1>4. CASE ~Begins
    <2>1. client.cmd = "compress" /\ ClientEnded /\ Begun = <<>>
      BY <1>4 DEF CompressOver, Starting, Begun
    <2>2. EndedQuiet
      <3>1. Len(ServerScript["compress"]) + 1 = 14
        BY <1>1
      <3>2. Channels(<<>>, <<>>)
        BY <2>1 DEF CompressOver
      <3> QED
        BY <2>1, <3>1, <3>2 DEF CompressOver, EndedQuiet, ServerEnded
    <2> QED
      BY <2>2, EndedTalking DEF Framed
  <1> QED
    BY <1>3, <1>4

LEMMA WorkerIsRefused ==
  ASSUME SidesOK, SidesOK', ~ServerGone, ClientRefuses, client' = client, creg' = creg, WorkerTurn
  PROVE  Framed' /\ ~ServerMisreads
  <1>1. /\ server.cmd = "compress" /\ server.pos = 11 /\ Starting("compress") /\ Starting("compress")'
        /\ c2s = Before(Reply("err"), Begun) /\ (~ClientGone => s2c = <<>>)
        /\ Begun' = Begun /\ (ClientGone' <=> ClientGone) /\ Short(Begun)
    BY ShortBefore DEF ClientRefuses, Channels, Starting, Begun, Begins, ClientEnded, ClientGone
  <1>2. ServerOp.do = "get" /\ ServerOp.kind = "rsp" /\ Len(ServerScript["compress"]) = 13
    BY <1>1 DEF ServerOp, ServerScript, HandleCompress, Ack, Get
  <1>3. Head(c2s) = [kind |-> "rsp", val |-> "err"] /\ Tail(c2s) = Begun
    BY <1>1, ShortBefore DEF Reply
  <1>4. ServerRefused /\ ~ServerMisreads
    <2>1. Head(c2s).kind = "rsp" /\ Head(c2s).val \in Refusal
      BY <1>3 DEF Refusal
    <2>2. ~ServerReturns
      BY <1>1, <1>2 DEF ServerReturns
    <2> QED
      BY <1>2, <2>1, <2>2 DEF WorkerTurn, ServerPuts, ServerGets, ServerMisreads, Dispatch, ServerDoes,
                  ServerLocal, ArchiveUnreadable, ServerReplies
  <1>5. /\ server'.cmd = "compress" /\ server'.pos = 14 /\ c2s' = Begun /\ s2c' = s2c
    <2>1. server' = Finish(server, ServerScript) /\ c2s' = Begun /\ s2c' = s2c
      BY <1>3, <1>4 DEF ServerRefused
    <2>2. server' = [server EXCEPT !.pos = 14]
      <3>1. Len(ServerScript["compress"]) + 1 = 14
        BY <1>2
      <3> QED
        BY <1>1, <2>1, <3>1 DEF Finish
    <2> QED
      BY <1>1, <2>1, <2>2 DEF SidesOK, ServerOK
  <1>6. CompressOver'
    BY <1>1, <1>5 DEF CompressOver, Channels
  <1>7. Framed'
    BY <1>6, CompressOverFramed, PTL
  <1> QED
    BY <1>4, <1>7

LEMMA WorkerSendsUnwanted ==
  ASSUME SidesOK, SidesOK', ~ServerGone, ArchiveUnwanted, client' = client, creg' = creg, WorkerTurn,
         "create" \in faulted'
  PROVE  Framed' \/ ServerMisreads
  <1>1. /\ server.cmd = "compress" /\ server.pos \in 8 .. 11
        /\ Starting("compress") /\ Starting("compress")' /\ (ClientGone' <=> ClientGone)
        /\ c2s = Before(IF server.pos = 8 THEN Reply("ack") ELSE <<>>, Begun)
        /\ ~ClientGone => s2c = IF server.pos = 11 THEN Only([kind |-> "file", val |-> sreg.body]) ELSE <<>>
        /\ Begun' = Begun /\ Short(Begun) /\ Before(<<>>, Begun) = Begun /\ DOMAIN sreg = DOMAIN Blank
    BY ShortBefore DEF ArchiveUnwanted, Channels, Starting, Begun, Begins, ClientEnded, ClientGone,
                       SidesOK, ServerOK
  <1>2. Len(ServerScript["compress"]) = 13 /\ ~ServerReturns
    <2>1. Len(ServerScript["compress"]) = 13
      BY CompressPlaces
    <2> QED
      BY <1>1, <2>1 DEF ServerReturns
  <1>3. ASSUME server' = Step(server), server.pos \in 8 .. 10, c2s' = Begun,
               server.pos # 10 => (~ClientGone => s2c' = <<>>),
               server.pos = 10 => (~ClientGone => s2c' = Only([kind |-> "file", val |-> sreg'.body]))
        PROVE  Framed'
    <2>1. server'.cmd = "compress" /\ server'.pos = server.pos + 1
      BY <1>1, <1>3 DEF Step, SidesOK, ServerOK
    <2>2. ArchiveUnwanted'
      BY <1>1, <1>3, <2>1 DEF ArchiveUnwanted, Starting, Channels
    <2> QED
      BY <2>2 DEF Framed
  <1>4. CASE server.pos = 8
    <2>1. ServerOp.do = "get" /\ ServerOp.kind = "rsp" /\ ServerOp.x = "none"
      BY <1>1, <1>4 DEF ServerOp, ServerScript, HandleCompress, Ack, Get
    <2>2. Head(c2s) = [kind |-> "rsp", val |-> "ack"] /\ Tail(c2s) = Begun
      BY <1>1, <1>4, ShortBefore DEF Reply
    <2>3. Head(c2s).kind = "rsp" /\ Head(c2s).val \notin Refusal
      BY <2>2 DEF Refusal
    <2>4. ServerGets
      BY <1>2, <2>1, <2>3 DEF WorkerTurn, ServerPuts, ServerRefused, ServerMisreads, Dispatch, ServerDoes,
                  ServerLocal, ArchiveUnreadable, ServerReplies
    <2>5. server' = Step(server) /\ c2s' = Begun /\ (~ClientGone => s2c' = <<>>)
      BY <1>1, <1>4, <2>2, <2>4 DEF ServerGets
    <2> QED
      BY <1>3, <1>4, <2>5
  <1>5. CASE server.pos = 9
    <2>1. ServerOp.do = "do" /\ ServerOp.x = "open"
      BY <1>1, <1>5 DEF ServerOp, ServerScript, HandleCompress, Do
    <2>2. ServerLocal \/ ArchiveUnreadable
      BY <1>2, <2>1 DEF WorkerTurn, ServerPuts, ServerGets, ServerRefused, ServerMisreads, Dispatch, ServerDoes,
                  ServerReplies
    <2>3. c2s' = Begun /\ (~ClientGone => s2c' = <<>>)
      BY <1>1, <1>5, <2>2 DEF ServerLocal, ArchiveUnreadable, channels
    <2>4. CASE ServerLocal
      BY <1>3, <1>5, <2>3, <2>4 DEF ServerLocal
    <2>5. CASE ArchiveUnreadable
      <3>1. server' = [server EXCEPT !.pos = 14]
        <4>1. Len(ServerScript["compress"]) + 1 = 14
          BY <1>2
        <4> QED
          BY <1>1, <2>5, <4>1 DEF ArchiveUnreadable, Finish
      <3>2. server'.cmd = "compress" /\ server'.pos = 14
        BY <1>1, <3>1 DEF SidesOK, ServerOK
      <3>3. CompressOver'
        BY <1>1, <2>3, <3>2 DEF CompressOver, Channels
      <3> QED
        BY <3>3, CompressOverFramed, PTL
    <2> QED
      BY <2>2, <2>4, <2>5
  <1>6. CASE server.pos = 10
    <2>1. ServerOp.do = "put" /\ ServerOp.kind = "file" /\ ServerOp.x = "body"
      BY <1>1, <1>6 DEF ServerOp, ServerScript, HandleCompress, Put
    <2>2. ServerPuts
      BY <1>2, <2>1 DEF WorkerTurn, ServerGets, ServerRefused, ServerMisreads, Dispatch, ServerDoes,
                  ServerLocal, ArchiveUnreadable, ServerReplies
    <2>3. Value(sreg, "body") = sreg.body
      BY <1>1 DEF Value, Blank
    <2>4. ~ClientGone => s2c' = Append(<<>>, [kind |-> "file", val |-> sreg.body])
      BY <1>1, <1>6, <2>1, <2>2, <2>3 DEF ServerPuts
    <2>5. ~ClientGone => s2c' = Only([kind |-> "file", val |-> sreg.body])
      BY <2>4, ShortBefore
    <2>6. server' = Step(server) /\ c2s' = Begun /\ sreg' = sreg
      BY <1>1, <1>6, <2>2 DEF ServerPuts
    <2> QED
      BY <1>3, <1>6, <2>5, <2>6
  <1>7. CASE server.pos = 11
    <2>1. ServerOp.do = "get" /\ ServerOp.kind = "rsp"
      BY <1>1, <1>7 DEF ServerOp, ServerScript, HandleCompress, Ack, Get
    <2>2. c2s = Begun
      BY <1>1, <1>7
    <2>3. c2s # <<>> => Head(c2s) = [kind |-> "cmd", val |-> client.cmd]
      BY <2>2, ShortBefore DEF Begun
    <2>4. c2s # <<>> => Head(c2s).kind = "cmd"
      BY <2>3
    <2> QED
      BY <1>2, <2>1, <2>4 DEF WorkerTurn, ServerPuts, ServerGets, ServerRefused, ServerMisreads, Dispatch, ServerDoes,
                  ServerLocal, ArchiveUnreadable, ServerReplies
  <1> QED
    BY <1>1, <1>4, <1>5, <1>6, <1>7

-----------------------------------------------------------------------------
(* Every step of the worker.                                                *)

LEMMA WorkerFindsEnd ==
  ASSUME SidesOK, Framed, WorkerStep, ServerAtEnd \/ ServerFails
  PROVE  StreamKept'
  <1>1. ClientGone /\ ~ServerGone /\ ServerRunning
    BY WorkerSteps DEF ServerAtEnd, ServerFails
  <1>2. CASE c2s = <<>>
    BY <1>1, <1>2, WorkerSilent
  <1>3. CASE c2s # <<>>
    <2>1. ServerOp.do = "put"
      BY <1>3 DEF ServerAtEnd, ServerFails
    <2>2. server.cmd # "loop" => Dialogue[server.cmd][SDone + 1].who = "server" /\ SDone < Length(server.cmd)
      BY <1>1, <2>1, ServerPlace DEF Sv
    <2>3. server.cmd = "loop" => server.pos = 2
      <3>1. server.cmd = "loop" => server.pos \in 1 .. 3
        BY ClocksInRange
      <3> QED
        BY <2>1, <3>1, LoopScript DEF ServerOp, Get, Do
    <2>4. ~Talking
      <3> SUFFICES ASSUME Talking PROVE FALSE
        OBVIOUS
      <3>1. PICK b \in Nat : TalkingAt(b)
        BY TalkingSomewhere
      <3>2. b < CDone /\ CDone \in Nat /\ PutBy("client", client.cmd, b, CDone)
        BY <1>1, <1>3, <3>1, Ahead, ClocksInRange DEF TalkingAt, Between
      <3>3. Dialogue[client.cmd][b + 1].who = "client"
        BY <3>2 DEF PutBy
      <3>4. CASE server.cmd = client.cmd /\ b = SDone
        <4>1. client.cmd # "loop"
          BY ClocksInRange DEF ClientScript
        <4> QED
          BY <2>2, <3>3, <3>4, <4>1
      <3>5. CASE server.cmd = "loop" /\ server.pos = 1
        BY <2>3, <3>5
      <3>6. CASE server.cmd = "loop" /\ client.cmd # "hello" /\ b = SDone
        <4>1. b = 1
          BY <2>3, <3>6, ClocksInRange
        <4>2. Dialogue[client.cmd][2] = SOk
          BY <3>6, ClocksInRange, DialogueShape
        <4> QED
          BY <3>3, <4>1, <4>2 DEF SOk, Sv
      <3> QED
        BY <3>1, <3>4, <3>5, <3>6 DEF TalkingAt
    <2>5. ~Overlapping
      BY <2>2, <2>3, ClocksInRange DEF Overlapping, PutBy
    <2>6. ~ServerRefuses /\ ~ArchiveUnread
      BY <1>1, <1>3 DEF ServerRefuses, ArchiveUnread, Channels
    <2>7. ~ClientRefuses
      <3> SUFFICES ASSUME ClientRefuses PROVE FALSE
        OBVIOUS
      <3>1. ServerOp.do = "get"
        BY DEF ClientRefuses, ServerOp, ServerScript, HandleCompress, Ack, Get
      <3> QED
        BY <2>1, <3>1
    <2>8. ~FileUnwanted
      <3>1. Len(ServerScript["send"]) = 14
        BY DEF ServerScript, HandleSend
      <3>2. server.cmd = "send" => server.pos <= 14
        BY <1>1, <3>1 DEF ServerRunning
      <3>3. ~ServerEnded("send")
        BY <2>3, <3>1, <3>2 DEF ServerEnded
      <3> QED
        BY <3>3 DEF FileUnwanted
    <2>9. ArchiveUnwanted
      BY <1>1, <1>3, <2>4, <2>5, <2>6, <2>7, <2>8 DEF Framed, Stale, Silent
    <2>10. server.cmd = "compress" /\ Begins /\ c2s = Begun
      <3>1. server.pos # 8
        BY <2>1, <2>9 DEF ArchiveUnwanted, ServerOp, ServerScript, HandleCompress, Ack, Get
      <3>2. c2s = Begun
        BY <1>1, <2>9, <3>1, ShortBefore DEF ArchiveUnwanted, Channels
      <3> QED
        BY <1>3, <2>9, <3>2 DEF ArchiveUnwanted, Begun
    <2>11. ServerFails /\ client' = client /\ c2s' = c2s /\ ClientGone' /\ InFrame'
      <3>1. ServerFails /\ client' = client
        BY <1>3, WorkerSteps DEF ServerAtEnd, ServerFails
      <3>2. ~ServerMisreads
        BY <2>1 DEF ServerMisreads
      <3> QED
        BY <1>1, <3>1, <3>2, WorkerFramed DEF ServerFails, ClientGone, channels
    <2>12. CASE ServerGone'
      BY <2>11, <2>12 DEF StreamKept, Framed, Silent
    <2>13. CASE server' = Finish(server, ServerScript)
      <3>1. server'.cmd = "compress" /\ server'.pos = 14
        BY <2>10, <2>13 DEF Finish, SidesOK, ServerOK, ServerScript, HandleCompress
      <3>2. SDone' = 10 /\ Length("compress") = 10
        BY <3>1 DEF SDone, ServerClock, Length, Dialogue
      <3>3. Begins' /\ Begun' = Begun
        BY <2>10, <2>11 DEF Begins, Begun
      <3>4. Before(InFlight("compress", 10, 10, Blank), Begun) = Begun
        BY NothingInFlight, ShortBefore
      <3>5. PutBy("client", "compress", 10, 10)
        BY DEF PutBy
      <3>6. Overlapping'
        BY <2>10, <2>11, <3>1, <3>2, <3>3, <3>4, <3>5 DEF Overlapping, Channels
      <3> QED
        BY <2>11, <3>6 DEF StreamKept, Framed
    <2> QED
      BY <2>10, <2>11, <2>12, <2>13 DEF ServerFails, Ends, ServerGone, SidesOK, ServerOK
  <1> QED
    BY <1>2, <1>3

LEMMA WorkerKeepsFrame ==
  ASSUME SidesOK, SidesOK', StreamKept, WorkerStep
  PROVE  StreamKept'
  <1>1. /\ Framed /\ ~ServerGone /\ client' = client /\ creg' = creg /\ faulted \subseteq faulted'
        /\ InFrame
    BY WorkerSteps DEF StreamKept
  <1>2. CASE ServerAtEnd \/ ServerFails
    BY <1>1, <1>2, WorkerFindsEnd
  <1>3. CASE ServerLeaves
    <2>1. server'.cmd = server.cmd /\ server'.pos = server.pos /\ InFrame'
      BY <1>1, <1>3 DEF ServerLeaves, Ends, InFrame, SidesOK, ServerOK
    <2>2. UNCHANGED <<channels, creg, sreg>>
      BY <1>1, <1>3 DEF ServerLeaves
    <2>3. Framed'
      BY <1>1, <2>1, <2>2, PhasesKept DEF ClientGone
    <2> QED
      BY <2>1, <2>3 DEF StreamKept
  <1>4. CASE WorkerTurn
    <2>0. ASSUME ServerMisreads, "create" \in faulted' PROVE StreamKept'
      <3>1. server'.mode = "lost"
        BY <2>0 DEF ServerMisreads, Ends, SidesOK, ServerOK
      <3> QED
        BY <2>0, <3>1 DEF StreamKept, InFrame
    <2>1. CASE Talking
      BY <1>1, <1>4, <2>1, WorkerInDialogue, WorkerFramed DEF StreamKept
    <2>2. CASE Overlapping
      BY <1>1, <1>4, <2>2, WorkerOverlaps, WorkerFramed DEF StreamKept
    <2>3. CASE ServerRefuses
      BY <1>1, <1>4, <2>3, WorkerHasRefused, WorkerFramed DEF StreamKept
    <2>4. CASE ClientRefuses
      BY <1>1, <1>4, <2>4, WorkerIsRefused, WorkerFramed DEF StreamKept
    <2>5. CASE ArchiveUnread
      BY <1>1, <1>4, <2>5, WorkerHasNotRead, WorkerFramed DEF StreamKept
    <2>6. CASE ArchiveUnwanted
      <3>1. "create" \in faulted'
        BY <1>1, <2>6 DEF ArchiveUnwanted
      <3>2. Framed' \/ ServerMisreads
        BY <1>1, <1>4, <2>6, <3>1, WorkerSendsUnwanted
      <3> QED
        BY <2>0, <3>1, <3>2, WorkerFramed DEF StreamKept
    <2>7. CASE FileUnwanted
      <3>1. "create" \in faulted'
        BY <1>1, <2>7 DEF FileUnwanted
      <3>2. Framed' \/ ServerMisreads
        BY <1>1, <1>4, <2>7, WorkerUnwanted
      <3> QED
        BY <2>0, <3>1, <3>2, WorkerFramed DEF StreamKept
    <2>8. CASE Silent
      BY <1>1, <2>8, WorkerSilent DEF Silent
    <2> QED
      BY <1>1, <2>1, <2>2, <2>3, <2>4, <2>5, <2>6, <2>7, <2>8 DEF Framed, Stale
  <1> QED
    BY <1>2, <1>3, <1>4, WorkerSteps DEF WorkerTurn

-----------------------------------------------------------------------------
(* The theorems.                                                            *)

LEMMA FrameInit == Init => FrameInv
  <1> SUFFICES ASSUME Init PROVE FrameInv
    OBVIOUS
  <1>1. SidesOK
    BY SidesOKInit
  <1>2. /\ client.cmd = "hello" /\ client.pos = 1 /\ client.mode = "run"
        /\ server.cmd = "hello" /\ server.pos = 1 /\ server.mode = "run"
        /\ c2s = <<>> /\ s2c = <<>>
    BY DEF Init
  <1>3. CDone = 0 /\ SDone = 0
    BY <1>2 DEF CDone, SDone, ClientClock, ServerClock
  <1>4. Between(0)
    BY <1>2, <1>3, NothingInFlight DEF Between, PutBy, Channels
  <1> QED
    BY <1>1, <1>2, <1>3, <1>4 DEF FrameInv, StreamKept, InFrame, Framed, Talking

LEMMA FrameStep == FrameInv /\ [Next]_vars => FrameInv'
  <1> SUFFICES ASSUME FrameInv, [Next]_vars PROVE FrameInv'
    OBVIOUS
  <1> USE DEF FrameInv
  <1>1. CASE ShellStep
    <2>1. ServerOK'
      BY <1>1, ShellSteps DEF SidesOK, ServerOK
    <2> QED
      BY <1>1, <2>1, ClientOKStep, ShellKeepsFrame DEF SidesOK
  <1>2. CASE WorkerStep
    <2>1. ClientOK'
      BY <1>2, WorkerSteps DEF SidesOK, ClientOK
    <2>2. SidesOK'
      BY <1>2, <2>1, ServerOKStep DEF SidesOK
    <2> QED
      BY <1>2, <2>2, WorkerKeepsFrame
  <1>3. CASE UNCHANGED vars
    <2>1. client' = client /\ server' = server /\ faulted' = faulted /\ UNCHANGED <<channels, creg, sreg>>
      BY <1>3 DEF vars, cvars, svars
    <2>2. SidesOK' /\ (InFrame' <=> InFrame)
      BY <2>1 DEF SidesOK, ClientOK, ServerOK, InFrame
    <2>3. Framed => Framed'
      BY <2>1, PhasesKept DEF ClientGone, ServerGone
    <2> QED
      BY <2>1, <2>2, <2>3 DEF StreamKept
  <1> QED
    BY <1>1, <1>2, <1>3 DEF Next, ShellStep, WorkerStep

(* What is in the connection is what one side has put and the other has not *)
(* got, of the dialogue of one command (or of one that ended early), in     *)
(* every reachable state: no message is read at another place than the one  *)
(* it was put for (network.cpp keeps no boundaries between messages).       *)
THEOREM FrameInvariant == Spec => []FrameInv
  BY FrameInit, FrameStep, PTL DEF Spec

(* Neither side ever reads a message of another kind than it expects,       *)
(* whatever fails, but for a file that cannot be created once its transfer  *)
(* was agreed on (handle_send(), do_compress()).                            *)
THEOREM StreamsFramed == Spec => []FramingKept
  <1>1. FrameInv => FramingKept
    BY DEF FrameInv, StreamKept, FramingKept
  <1> QED
    BY <1>1, FrameInvariant, PTL

LEMMA SomethingBefore ==
  ASSUME NEW cmd, NEW from \in Nat, NEW to \in Nat, from < to, NEW reg, NEW rest, Short(rest)
  PROVE  Before(InFlight(cmd, from, to, reg), rest) # <<>>
  <1>1. CASE rest = <<>>
    <2>1. InFlight(cmd, from, to, reg) # <<>>
      BY SomeInFlight
    <2>2. Before(InFlight(cmd, from, to, reg), <<>>) = InFlight(cmd, from, to, reg)
      BY NothingBehind
    <2> QED
      BY <1>1, <2>1, <2>2
  <1>2. ASSUME NEW m PROVE InFlight(cmd, from, to, reg) \o <<m>> # <<>>
    BY DEF InFlight
  <1> QED
    BY <1>1, <1>2 DEF Short, Before, Only

LEMMA FramedNotWaiting ==
  ASSUME FrameInv, ClientRunning, ServerRunning, ClientOp.do = "get", ServerOp.do = "get",
         s2c = <<>>, c2s = <<>>, "read" \notin faulted
  PROVE  FALSE
  <1>1. SidesOK /\ Framed /\ ~ClientGone /\ ~ServerGone
    BY DEF FrameInv, StreamKept, ClientRunning, ServerRunning, ClientGone, ServerGone
  <1>2. /\ CDone \in Nat /\ CDone < Length(client.cmd) /\ Length(client.cmd) \in Nat
        /\ Dialogue[client.cmd][CDone + 1].who = "server" /\ client.cmd \in DOMAIN ClientScript
    BY <1>1, ClientPlace
  <1>3. /\ server.cmd # "loop" => Dialogue[server.cmd][SDone + 1].who = "client" /\ SDone < Length(server.cmd)
        /\ server.cmd = "loop" => server.pos = 1 /\ SDone = 0
    <2>1. server.cmd = "loop" => server.pos \in 1 .. 3 /\ SDone = server.pos - 1
      BY <1>1, ClocksInRange
    <2>2. server.cmd = "loop" => server.pos = 1
      BY <2>1, LoopScript DEF ServerOp, OK, Put, Do
    <2> QED
      BY <1>1, <2>1, <2>2, ServerPlace
  <1>4. ASSUME Begins PROVE \E m : Begun = Only(m)
    <2>1. client.pos # 1
      <3>1. ClientScript[client.cmd][1] = Put("cmd", client.cmd)
        BY <1>2, <1>4, CommandStart DEF Begins
      <3> QED
        BY <3>1 DEF ClientOp, Put
    <2> QED
      BY <1>4, <2>1 DEF Begins, Begun
  <1>5. ~ClientEnded
    BY <1>1, ClientPlace, ScriptIsLong DEF ClientEnded
  <1>6. ~Talking
    <2> SUFFICES ASSUME Talking PROVE FALSE
      OBVIOUS
    <2>1. PICK b \in Nat : TalkingAt(b)
      BY <1>1, TalkingSomewhere
    <2>2. /\ InFlight(client.cmd, b, CDone, creg) = <<>> /\ InFlight(client.cmd, CDone, b, sreg) = <<>>
      BY <1>1, <2>1 DEF TalkingAt, Between, Channels
    <2>3. ~(b < CDone)
      BY <1>2, <2>2, SomeInFlight
    <2>4. ~(CDone < b)
      BY <1>2, <2>2, SomeInFlight
    <2>5. b = CDone
      BY <1>2, <2>3, <2>4
    <2>6. CASE server.cmd = client.cmd /\ b = SDone
      <3>1. server.cmd # "loop"
        BY <1>2, <2>6 DEF ClientScript
      <3> QED
        BY <1>2, <1>3, <2>5, <2>6, <3>1
    <2>7. CASE b = Length(client.cmd)
      BY <1>2, <2>5, <2>7
    <2>8. CASE server.cmd = "loop" /\ client.cmd # "hello" /\ b = SDone
      <3>1. CDone = 0 /\ Dialogue[client.cmd][1] = Cl("cmd", client.cmd)
        BY <1>2, <1>3, <2>5, <2>8, DialogueShape
      <3> QED
        BY <1>2, <3>1 DEF Cl
    <2> QED
      BY <2>1, <2>6, <2>7, <2>8 DEF TalkingAt
  <1>7. ~Overlapping
    <2> SUFFICES ASSUME Overlapping PROVE FALSE
      OBVIOUS
    <2>1. /\ server.cmd # "loop"
          /\ Before(InFlight(server.cmd, SDone, Length(server.cmd), Blank), Begun) = <<>>
      BY <1>1, <1>3 DEF Overlapping, Channels
    <2>2. SDone \in Nat /\ Length(server.cmd) \in Nat /\ SDone < Length(server.cmd) /\ Short(Begun)
      BY <1>1, <1>3, <2>1, ClocksInRange, ShortBefore
    <2> QED
      BY <2>1, <2>2, SomethingBefore
  <1>8. ~ServerRefuses
    <2> SUFFICES ASSUME ServerRefuses PROVE FALSE
      OBVIOUS
    <2>1. PICK b \in CDone .. Length(client.cmd) - 1, code \in Refusal :
            Before(InFlight(client.cmd, CDone, b, Blank), Reply(code)) = <<>>
      BY <1>1 DEF ServerRefuses, Channels
    <2>2. Short(Reply(code)) /\ b \in Nat /\ CDone <= b
      BY <1>2, <2>1, ShortBefore
    <2>3. CASE CDone < b
      BY <1>2, <2>1, <2>2, <2>3, SomethingBefore
    <2>4. CASE CDone = b
      <3>1. InFlight(client.cmd, CDone, b, Blank) = <<>>
        BY <2>2, <2>4, NothingInFlight
      <3>2. Before(<<>>, Reply(code)) = Reply(code)
        BY <2>2, ShortBefore
      <3>3. Reply(code) = <<>>
        BY <2>1, <3>1, <3>2
      <3> QED
        BY <3>3, ShortBefore DEF Reply
    <2> QED
      BY <1>2, <2>2, <2>3, <2>4
  <1>9. ~ClientRefuses
    <2> SUFFICES ASSUME ClientRefuses PROVE FALSE
      OBVIOUS
    <2>1. Before(Reply("err"), Begun) = <<>>
      BY <1>1 DEF ClientRefuses, Channels
    <2> QED
      BY <2>1, ShortBefore DEF Reply
  <1>10. ~ArchiveUnread
    BY DEF ArchiveUnread
  <1>11. ~ArchiveUnwanted
    <2> SUFFICES ASSUME ArchiveUnwanted PROVE FALSE
      OBVIOUS
    <2>1. Begins
      BY <1>5 DEF ArchiveUnwanted
    <2>2. PICK m : Begun = Only(m)
      BY <1>4, <2>1
    <2>3. Before(IF server.pos = 8 THEN Reply("ack") ELSE <<>>, Only(m)) = <<>>
      BY <1>1, <2>2 DEF ArchiveUnwanted, Channels
    <2>4. Before(Reply("ack"), Only(m)) # <<>> /\ Before(<<>>, Only(m)) # <<>>
      BY ShortBefore DEF Reply
    <2> QED
      BY <2>3, <2>4
  <1>12. ~FileUnwanted
    <2> SUFFICES ASSUME FileUnwanted PROVE FALSE
      OBVIOUS
    <2>1. /\ Short(Reply("err")) /\ Reply("err") # <<>> /\ Before(<<>>, Reply("err")) = Reply("err")
          /\ Before(Reply("ack"), Reply("err")) # <<>>
      BY ShortBefore DEF Reply
    <2>2. /\ s2c # Reply("err") /\ s2c # Before(Reply("ack"), Reply("err"))
          /\ s2c # Before(<<>>, Reply("err"))
      BY <2>1
    <2> QED
      BY <1>1, <2>2 DEF FileUnwanted, Channels
  <1>13. ~Silent /\ ~Stale
    BY <1>1 DEF Silent, Stale
  <1> QED
    BY <1>1, <1>6, <1>7, <1>8, <1>9, <1>10, <1>11, <1>12, <1>13 DEF Framed

(* Client and server never wait for each other, in any order of the steps   *)
(* of the two and whatever fails, unless the server could not open the      *)
(* archive it had announced (handle_compress()).                            *)
THEOREM NeverBothWait == Spec => []NotBothWaiting
  <1>1. FrameInv => NotBothWaiting
    BY FramedNotWaiting DEF NotBothWaiting, Waits
  <1> QED
    BY <1>1, FrameInvariant, PTL
=============================================================================
