---------------------------- MODULE Kw1281Proofs ----------------------------
(***************************************************************************)
(* Theorems about Kw1281, for every table, every ECU and any number of      *)
(* disturbances.                                                            *)
(***************************************************************************)
EXTENDS Kw1281, TLAPS

\* The constants of the protocol are bytes, and so are complements.
LEMMA ProtocolBytes ==
    /\ {ASCII, ACK, ZERO, GROUP, ANSWER, END, SYNC, KW1, KW2, 0, 1, 3, 4} \subseteq Byte
    /\ \A c \in Byte : c \in Nat /\ Neg(c) \in Byte /\ Neg(Neg(c)) = c
BY DEF Byte, ASCII, ACK, ZERO, GROUP, ANSWER, END, SYNC, KW1, KW2, Neg

\* Block numbers wrap before they leave the range of a byte.
LEMMA NumbersAreBytes ==
    ASSUME NEW n \in Nat
    PROVE  NextNumber(n) \in Byte /\ IncCounter(n) \in Byte
<1>1. (n + 1) % CounterMod \in 0..(CounterMod - 1) /\ CounterMod - 1 <= 255
  BY LineAssumption
<1> QED BY <1>1, LineAssumption DEF NextNumber, IncCounter, Byte

\* Short tuples of bytes are sequences of bytes.
LEMMA Tuples ==
    /\ \A a \in Byte : <<a>> \in Seq(Byte)
    /\ \A a, b, c \in Byte : <<a, b, c>> \in Seq(Byte)
OBVIOUS

\* A block the ECU says consists of bytes.
LEMMA BlockIsBytes ==
    ASSUME NEW n \in Byte, NEW t \in Byte, NEW d \in Seq(Byte), Len(d) <= 200
    PROVE  /\ EcuBlock(n, t, d) \in Seq(Byte)
           /\ Len(EcuBlock(n, t, d)) >= 1
<1>1. Len(d) + 3 \in Byte
  <2>1. \A l \in Nat : l <= 200 => l + 3 \in Byte
    BY DEF Byte
  <2> QED BY <2>1
<1>2. <<Len(d) + 3, n, t>> \in Seq(Byte)
  BY <1>1, Tuples
<1>3. <<END>> \in Seq(Byte)
  BY ProtocolBytes, Tuples
<1>4. <<Len(d) + 3, n, t>> \o d \in Seq(Byte)
  BY <1>2
<1> QED BY <1>3, <1>4 DEF EcuBlock

-----------------------------------------------------------------------------
\* What can be read is a byte.
LEMMA IncomingIsByte ==
    ASSUME LineTypeOK
    PROVE  Incoming \subseteq Byte
<1>1. CASE ~live
  BY <1>1, LineAssumption, ProtocolBytes DEF Incoming
<1>2. CASE live /\ rx # <<>>
  BY <1>2 DEF LineTypeOK, Incoming
<1>3. CASE live /\ rx = <<>>
  BY <1>3 DEF Incoming
<1> QED BY <1>1, <1>2, <1>3

\* A read takes a byte from the line and touches nothing else of it.
LEMMA ReadKeepsLine ==
    ASSUME LineTypeOK, NEW S, Read(S)
    PROVE  LineTypeOK'
<1>1. rx' \in Seq(Byte)
  BY DEF LineTypeOK, Read, Incoming
<1> QED BY <1>1 DEF LineTypeOK, Read, world

\* A write of the tester keeps the line's types.
LEMMA WriteKeepsLine ==
    ASSUME LineTypeOK, NEW c \in Byte, Write(c)
    PROVE  LineTypeOK'
<1>1. rx' \in Seq(Byte) /\ ecuRx' \in Seq(Byte)
  BY DEF LineTypeOK, Write
<1> QED BY <1>1 DEF LineTypeOK, Write, world

-----------------------------------------------------------------------------
(* The steps of the tester.                                                 *)

\* A soft error keeps the types of the tester's control.
LEMMA SoftErrorType ==
    ASSUME SoftError
    PROVE  ControlTypeOK'
<1>1. 1 \in 1..LastPos' /\ 0 \in Byte /\ <<>> \in Seq(Byte)
  BY ProtocolBytes DEF LastPos
<1> QED BY <1>1 DEF SoftError, Goto, ControlTypeOK

\* Starting to send a block keeps the types of the tester's control.
LEMMA BeginSendType ==
    ASSUME NEW i \in {0} \cup Items, BeginSend(i)
    PROVE  ControlTypeOK'
<1>1. 1 \in 1..LastPos' /\ 0 \in Byte /\ <<>> \in Seq(Byte)
  BY ProtocolBytes DEF LastPos
<1> QED BY <1>1 DEF BeginSend, Goto, ControlTypeOK

\* A counter that steps stays a byte.
LEMMA CounterType ==
    ASSUME counter \in Byte, NEW p
    PROVE  IncCounter(counter) \in Byte /\ CounterAfter(p) \in Byte
BY NumbersAreBytes, ProtocolBytes DEF CounterAfter

\* An entry of the table is a block entry.
LEMMA EntryType ==
    ASSUME NEW i \in Items
    PROVE  BlockTable[i] \in Block
BY TableAssumption DEF Items

\* The entry polled carries a group number, and the outgoing bytes are bytes.
LEMMA OutgoingType ==
    ASSUME ControlTypeOK, GlobalsTypeOK
    PROVE  Outgoing(pos) \in Byte
<1>1. CASE pos = 4 /\ LastPos = 5
  <2>1. item \in Items
    BY <1>1 DEF ControlTypeOK, LastPos
  <2>2. RequestedGroup \in 1..255
    BY <2>1, EntryType DEF RequestedGroup, Block
  <2>3. RequestedGroup \in Byte
    BY <2>2 DEF Byte
  <2> QED BY <1>1, <2>3 DEF Outgoing
<1>2. CASE ~(pos = 4 /\ LastPos = 5)
  <2>1. LastPos \in {4, 5} /\ pos \in 1..LastPos
    BY DEF LastPos, ControlTypeOK
  <2>2. pos = 1 \/ pos = 2 \/ pos = 3 \/ (pos > 3 /\ pos = LastPos)
    BY <1>2, <2>1
  <2> QED BY <2>1, <2>2, ProtocolBytes DEF Outgoing, GlobalsTypeOK
<1> QED BY <1>1, <1>2

\* Storing a complete answer keeps the types of the values shown.
LEMMA ShownType ==
    ASSUME TypeOK, NEW b \in Seq(Byte), NEW g \in Noise
    PROVE  ShownAfter(b, g) \in [Fields -> Byte]
<1>1. ASSUME NEW f \in Fields, item # 0, Carries(item, f)
      PROVE  ValueOf(f, b, g) \in Byte
  <2>1. BlockTable[item] \in Block
    BY <1>1, EntryType DEF TypeOK, ControlTypeOK
  <2>2. 3 + BlockTable[item].slot[f] \in Nat \ {0}
    BY <2>1, LineAssumption DEF Block
  <2>3. g \in Byte
    BY LineAssumption
  <2> QED BY <2>2, <2>3 DEF ValueOf
<1> QED BY <1>1 DEF ShownAfter, TypeOK, GlobalsTypeOK

\* Every step of the tester keeps the types.
LEMMA TesterStepType ==
    ASSUME TypeOK, TesterNext
    PROVE  TypeOK'
<1> USE DEF TypeOK
<1>1. CASE Open
  BY <1>1 DEF Open, Goto, ControlTypeOK, GlobalsTypeOK, globals, LineTypeOK, LastPos
<1>2. CASE InitBegin
  BY <1>2, ProtocolBytes DEF InitBegin, Goto, ControlTypeOK, GlobalsTypeOK,
     LineTypeOK, world, LastPos
<1>3. CASE SendAddress
  <2>1. rx' \in Seq(Byte)
    BY <1>3, LineAssumption DEF SendAddress, LineTypeOK
  <2> QED BY <1>3, <2>1 DEF SendAddress, Goto, ControlTypeOK, GlobalsTypeOK,
          globals, LineTypeOK, world, LastPos
<1>4. CASE HardError
  BY <1>4 DEF HardError, Goto, ControlTypeOK, GlobalsTypeOK, globals, LineTypeOK,
     lineVars, line, world, LastPos
<1>5. CASE Flush
  BY <1>5 DEF Flush, Goto, ControlTypeOK, GlobalsTypeOK, globals, LineTypeOK,
     world, LastPos
<1>6. CASE FlushFails
  BY <1>6, SoftErrorType DEF FlushFails, GlobalsTypeOK, globals, LineTypeOK,
     lineVars, line, world
<1>7. CASE ReadKeyByte
  <2>1. LineTypeOK' /\ buf' \in Seq(Byte)
    BY <1>7, ReadKeepsLine, IncomingIsByte DEF ReadKeyByte, ControlTypeOK
  <2> QED BY <1>7, <2>1 DEF ReadKeyByte, ControlTypeOK, GlobalsTypeOK, globals, LastPos
<1>8. CASE ReadByte
  <2>1. LineTypeOK' /\ sent' \in Byte
    BY <1>8, ReadKeepsLine, IncomingIsByte, ProtocolBytes DEF ReadByte
  <2> QED BY <1>8, <2>1 DEF ReadByte, Goto, ControlTypeOK, GlobalsTypeOK, globals, LastPos
<1>9. CASE WriteAck
  <2>1. LineTypeOK'
    BY <1>9, WriteKeepsLine DEF WriteAck, ControlTypeOK
  <2> QED BY <1>9, <2>1 DEF WriteAck, Goto, ControlTypeOK, GlobalsTypeOK, globals, LastPos
<1>10. CASE TakeKey
  <2>1. LineTypeOK'
    BY <1>10, ReadKeepsLine DEF TakeKey
  <2>2. ControlTypeOK'
    BY <1>10 DEF TakeKey, Goto, ControlTypeOK, LastPos
  <2>3. GlobalsTypeOK'
    BY <1>10 DEF TakeKey, GlobalsTypeOK
  <2> QED BY <2>1, <2>2, <2>3
<1>11. CASE TakeByte
  <2>1. LineTypeOK'
    BY <1>11, ReadKeepsLine DEF TakeByte
  <2>2. buf' \in Seq(Byte)
    BY <1>11, ProtocolBytes DEF TakeByte, Store, ControlTypeOK
  <2>3. activeblock' \in {"none", "block1"}
    BY <1>11 DEF TakeByte, RecognisedBy, GlobalsTypeOK
  <2>4. shown' \in [Fields -> Byte]
    BY <1>11, <2>2, ShownType DEF TakeByte, GlobalsTypeOK
  <2>5. ControlTypeOK'
    BY <1>11, <2>2 DEF TakeByte, Goto, ControlTypeOK, LastPos
  <2>6. GlobalsTypeOK'
    BY <1>11, <2>3, <2>4 DEF TakeByte, GlobalsTypeOK
  <2> QED BY <2>1, <2>5, <2>6
<1>12. CASE CounterWrong \/ EchoWrong \/ BlockEndWrong \/ SendAckWrong
  <2>1. LineTypeOK'
    BY <1>12, ReadKeepsLine DEF CounterWrong, EchoWrong, BlockEndWrong, SendAckWrong
  <2>2. ControlTypeOK'
    BY <1>12, SoftErrorType DEF CounterWrong, EchoWrong, BlockEndWrong, SendAckWrong
  <2> QED BY <1>12, <2>1, <2>2 DEF CounterWrong, EchoWrong, BlockEndWrong,
          SendAckWrong, GlobalsTypeOK, globals
<1>13. ASSUME EndBlock
       PROVE  LineTypeOK' /\ counter' \in Byte /\ gotAck' \in BOOLEAN
  <2>1. LineTypeOK'
    BY <1>13, ReadKeepsLine DEF EndBlock
  <2>2. counter' \in Byte /\ gotAck' \in BOOLEAN
    BY <1>13, CounterType DEF EndBlock, GlobalsTypeOK
  <2> QED BY <2>1, <2>2
<1>14. CASE IdentBlockDone
  BY <1>13, <1>14, BeginSendType DEF IdentBlockDone, EndBlock, GlobalsTypeOK
<1>15. CASE IdentDone
  BY <1>13, <1>15, BeginSendType DEF IdentDone, EndBlock, GlobalsTypeOK
<1>16. CASE UnknownEcu
  BY <1>13, <1>16, SoftErrorType DEF UnknownEcu, EndBlock, GlobalsTypeOK
<1>17. CASE AnswerDone
  <2>1. (loopcount + 1) % LoopMod \in Nat
    BY TableAssumption DEF GlobalsTypeOK
  <2>2. loopcount' \in Nat
    BY <1>17, <2>1 DEF AnswerDone, GlobalsTypeOK
  <2> QED BY <1>13, <1>17, <2>2, BeginSendType DEF AnswerDone, EndBlock, GlobalsTypeOK
<1>18. CASE SendByte
  <2>1. LineTypeOK' /\ sent' \in Byte
    BY <1>18, OutgoingType, WriteKeepsLine DEF SendByte
  <2>2. counter' \in Byte
    BY <1>18, CounterType DEF SendByte, GlobalsTypeOK
  <2> QED BY <1>18, <2>1, <2>2 DEF SendByte, Goto, ControlTypeOK, GlobalsTypeOK, LastPos
<1>19. CASE SendEchoOk
  <2>1. LineTypeOK'
    BY <1>19, ReadKeepsLine DEF SendEchoOk
  <2> QED BY <1>19, <2>1, ProtocolBytes DEF SendEchoOk, Goto, ControlTypeOK,
          GlobalsTypeOK, globals, LastPos
<1>20. CASE SendAckOk
  <2>1. LineTypeOK'
    BY <1>20, ReadKeepsLine DEF SendAckOk
  <2> QED BY <1>20, <2>1, ProtocolBytes DEF SendAckOk, Goto, ControlTypeOK,
          GlobalsTypeOK, globals, LastPos
<1>21. CASE WriteFails
  <2>1. counter' \in Byte
    BY <1>21, CounterType DEF WriteFails, GlobalsTypeOK
  <2> QED BY <1>21, <2>1, SoftErrorType DEF WriteFails, GlobalsTypeOK, LineTypeOK,
          lineVars, line, world
<1>22. CASE ReadTimeout
  BY <1>22, SoftErrorType DEF ReadTimeout, TimesOut, GlobalsTypeOK, globals,
     LineTypeOK, line
<1> QED BY <1>1, <1>2, <1>3, <1>4, <1>5, <1>6, <1>7, <1>8, <1>9, <1>10, <1>11,
        <1>12, <1>14, <1>15, <1>16, <1>17, <1>18, <1>19, <1>20, <1>21, <1>22
     DEF TesterNext

-----------------------------------------------------------------------------
(* The steps of the ECU and of the line.                                    *)

\* The head and the tail of a sequence of bytes that is not empty.
LEMMA HeadTail ==
    ASSUME NEW s \in Seq(Byte), s # <<>>
    PROVE  Head(s) \in Byte /\ Tail(s) \in Seq(Byte)
OBVIOUS

\* Delivering bytes leaves bytes on the line.
LEMMA DeliverType ==
    ASSUME LineTypeOK, NEW s \in Seq(Byte), Deliver(s)
    PROVE  rx' \in Seq(Byte)
BY DEF LineTypeOK, Deliver

\* A block of the ECU consists of bytes and is not empty.
LEMMA EcuBlockTypes ==
    ASSUME NEW n \in Byte
    PROVE  /\ \A t \in Byte : /\ EcuBlock(n, t, <<>>) \in Seq(Byte)
                              /\ Len(EcuBlock(n, t, <<>>)) >= 1
           /\ \A t \in Byte, c \in Byte : /\ EcuBlock(n, t, <<c>>) \in Seq(Byte)
                                          /\ Len(EcuBlock(n, t, <<c>>)) >= 1
           /\ \A t \in Byte, r \in [1..NumSlots -> Values] :
                 /\ EcuBlock(n, t, r) \in Seq(Byte)
                 /\ Len(EcuBlock(n, t, r)) >= 1
<1>1. <<>> \in Seq(Byte) /\ Len(<<>>) <= 200
  OBVIOUS
<1>2. \A c \in Byte : <<c>> \in Seq(Byte) /\ Len(<<c>>) <= 200
  BY Tuples
<1>3. ASSUME NEW r \in [1..NumSlots -> Values]
      PROVE  r \in Seq(Byte) /\ Len(r) <= 200
  <2>1. r \in [1..NumSlots -> Byte] /\ NumSlots \in Nat /\ NumSlots <= 200
    BY LineAssumption
  <2>2. r \in Seq(Byte)
    BY <2>1
  <2>3. Len(r) = NumSlots
    BY <2>1, <2>2
  <2> QED BY <2>1, <2>2, <2>3
<1> QED BY <1>1, <1>2, <1>3, BlockIsBytes

\* An ECU about to say a well-formed block is well-formed.
EcuOK(e) == e \in EcuType /\ (e.st \in {"say", "hear"} => e.at \in 1..Len(e.blk))

\* The updates of the ECU's record keep its type.
LEMMA EcuUpdates ==
    ASSUME NEW e \in EcuType
    PROVE  /\ \A b \in Seq(Byte), n \in Nat : Len(b) >= 1 =>
                EcuOK([e EXCEPT !.st = "say", !.at = 1, !.left = n, !.blk = b])
           /\ \A b \in Seq(Byte) : Len(b) >= 1 =>
                EcuOK([e EXCEPT !.st = "say", !.at = 1, !.blk = b])
           /\ \A b \in Seq(Byte), a \in Byte : Len(b) >= 1 =>
                EcuOK([e EXCEPT !.st = "say", !.at = 1, !.asked = a, !.blk = b])
           /\ EcuOK([e EXCEPT !.st = "idle"])
<1>1. ASSUME NEW b \in Seq(Byte), NEW n \in Nat, Len(b) >= 1
      PROVE  EcuOK([e EXCEPT !.st = "say", !.at = 1, !.left = n, !.blk = b])
  <2> DEFINE f == [e EXCEPT !.st = "say", !.at = 1, !.left = n, !.blk = b]
  <2>1. f \in EcuType /\ f.at = 1 /\ f.blk = b
    BY DEF EcuType, EcuStates
  <2> QED BY <1>1, <2>1 DEF EcuOK
<1>2. ASSUME NEW b \in Seq(Byte), Len(b) >= 1
      PROVE  EcuOK([e EXCEPT !.st = "say", !.at = 1, !.blk = b])
  <2> DEFINE f == [e EXCEPT !.st = "say", !.at = 1, !.blk = b]
  <2>1. f \in EcuType /\ f.at = 1 /\ f.blk = b
    BY DEF EcuType, EcuStates
  <2> QED BY <1>2, <2>1 DEF EcuOK
<1>3. ASSUME NEW b \in Seq(Byte), NEW a \in Byte, Len(b) >= 1
      PROVE  EcuOK([e EXCEPT !.st = "say", !.at = 1, !.asked = a, !.blk = b])
  <2> DEFINE f == [e EXCEPT !.st = "say", !.at = 1, !.asked = a, !.blk = b]
  <2>1. f \in EcuType /\ f.at = 1 /\ f.blk = b
    BY DEF EcuType, EcuStates
  <2> QED BY <1>3, <2>1 DEF EcuOK
<1>4. EcuOK([e EXCEPT !.st = "idle"])
  BY DEF EcuOK, EcuType, EcuStates
<1> QED BY <1>1, <1>2, <1>3, <1>4

\* The next identification block keeps the ECU's type.
LEMMA IdentifyType ==
    ASSUME LineTypeOK, NEW e \in EcuType
    PROVE  EcuOK(Identify(e))
<1>0. e.ctr \in Byte /\ e.left \in Nat
  BY DEF EcuType
<1>1. CASE e.left > 0
  <2> DEFINE b == EcuBlock(e.ctr, ASCII, <<IF e.left = AsciiBlocks THEN car ELSE 0>>)
  <2>1. (IF e.left = AsciiBlocks THEN car ELSE 0) \in Byte
    BY ProtocolBytes, LineAssumption DEF LineTypeOK
  <2>2. b \in Seq(Byte) /\ Len(b) >= 1
    BY <1>0, <2>1, EcuBlockTypes, ProtocolBytes
  <2> DEFINE n == e.left - 1
  <2>4. n \in Nat
    BY <1>0, <1>1
  <2>3. Identify(e) = [e EXCEPT !.st = "say", !.at = 1, !.left = n, !.blk = b]
    BY <1>1 DEF Identify
  <2> HIDE DEF b, n
  <2>5. \A c \in Seq(Byte), m \in Nat : Len(c) >= 1 =>
          EcuOK([e EXCEPT !.st = "say", !.at = 1, !.left = m, !.blk = c])
    BY EcuUpdates
  <2>6. EcuOK([e EXCEPT !.st = "say", !.at = 1, !.left = n, !.blk = b])
    BY <2>2, <2>4, <2>5
  <2> QED BY <2>3, <2>6
<1>2. CASE ~(e.left > 0)
  <2> DEFINE b == EcuBlock(e.ctr, ACK, <<>>)
  <2>2. b \in Seq(Byte) /\ Len(b) >= 1
    BY <1>0, EcuBlockTypes, ProtocolBytes
  <2>3. Identify(e) = [e EXCEPT !.st = "say", !.at = 1, !.blk = b]
    BY <1>2 DEF Identify
  <2> HIDE DEF b
  <2> QED BY <2>2, <2>3, EcuUpdates
<1> QED BY <1>1, <1>2

\* Every reply to a whole block keeps the ECU's type.
LEMMA RepliesType ==
    ASSUME LineTypeOK, NEW in \in Seq(Byte), Len(in) > 3, NEW e \in Replies(in)
    PROVE  EcuOK(e)
<1> DEFINE next == [ecu EXCEPT !.in = in, !.ctr = NextNumber(@)]
<1>1. ecu \in EcuType
  BY DEF LineTypeOK
<1>2. NextNumber(ecu.ctr) \in Byte
  BY <1>1, NumbersAreBytes, ProtocolBytes DEF EcuType
<1>3. next \in EcuType /\ next.ctr \in Byte
  BY <1>1, <1>2 DEF EcuType
<1>5. CASE e = Identify(next)
  BY <1>3, <1>5, IdentifyType
<1>6. ASSUME NEW r \in [1..NumSlots -> Values],
             e = [next EXCEPT !.st = "say", !.at = 1, !.asked = in[4],
                              !.blk = EcuBlock(next.ctr, ANSWER, r)]
      PROVE  EcuOK(e)
  <2> HIDE DEF next
  <2> DEFINE b == EcuBlock(next.ctr, ANSWER, r)
  <2>1. in[4] \in Byte
    OBVIOUS
  <2>2. b \in Seq(Byte) /\ Len(b) >= 1
    BY <1>3, EcuBlockTypes, ProtocolBytes
  <2>3. e = [next EXCEPT !.st = "say", !.at = 1, !.asked = in[4], !.blk = b]
    BY <1>6
  <2> HIDE DEF b
  <2> QED BY <1>3, <2>1, <2>2, <2>3, EcuUpdates
<1>7. CASE e = [ecu EXCEPT !.st = "idle"]
  BY <1>1, <1>7, EcuUpdates
<1> QED BY <1>5, <1>6, <1>7 DEF Replies

\* The line is well-typed when its parts are.
LEMMA LineParts ==
    ASSUME rx' \in Seq(Byte), ecuRx' \in Seq(Byte), addr' \in BOOLEAN,
           present' \in BOOLEAN, live' \in BOOLEAN, car' \in Cars, EcuOK(ecu'),
           faults' \in 0..MaxFaults, changed' \in BOOLEAN
    PROVE  LineTypeOK'
BY DEF LineTypeOK, EcuOK

\* The conjuncts of the line's types.
LEMMA LinePartsNow ==
    ASSUME LineTypeOK
    PROVE  /\ rx \in Seq(Byte) /\ ecuRx \in Seq(Byte) /\ addr \in BOOLEAN
           /\ present \in BOOLEAN /\ live \in BOOLEAN
           /\ car \in Cars /\ EcuOK(ecu) /\ ecu \in EcuType
           /\ faults \in 0..MaxFaults /\ changed \in BOOLEAN
BY DEF LineTypeOK, EcuOK

\* Saying a byte keeps the types.
LEMMA EcuSayType ==
    ASSUME LineTypeOK, EcuSay
    PROVE  LineTypeOK'
<1>1. ecu.blk[ecu.at] \in Byte
  BY LinePartsNow DEF EcuSay, EcuOK, EcuType
<1>2. rx' \in Seq(Byte)
  BY <1>1, Tuples, DeliverType DEF EcuSay
<1>3. NextNumber(ecu.ctr) \in Byte
  BY LinePartsNow, NumbersAreBytes, ProtocolBytes DEF EcuType
<1>4. EcuOK([ecu EXCEPT !.st = "listen", !.in = <<>>, !.ctr = NextNumber(@)])
  <2> DEFINE n == NextNumber(ecu.ctr)
             e == [ecu EXCEPT !.st = "listen", !.in = <<>>, !.ctr = n]
  <2>1. n \in Byte /\ <<>> \in Seq(Byte)
    BY <1>3
  <2> HIDE DEF n
  <2>2. e \in EcuType /\ e.st = "listen"
    BY <2>1, LinePartsNow DEF EcuType, EcuStates
  <2>3. EcuOK(e)
    BY <2>2 DEF EcuOK
  <2> QED BY <2>3 DEF n
<1>5. EcuOK([ecu EXCEPT !.st = "hear"])
  <2>1. ecu.at \in 1..Len(ecu.blk)
    BY LinePartsNow DEF EcuSay, EcuOK
  <2> QED BY <2>1, LinePartsNow DEF EcuOK, EcuType, EcuStates
<1>6. EcuOK(ecu')
  BY <1>4, <1>5 DEF EcuSay
<1>7. changed' \in BOOLEAN
  BY DEF EcuSay
<1> QED BY <1>2, <1>6, <1>7, LinePartsNow, LineParts DEF EcuSay

\* Hearing an acknowledgement keeps the types.
LEMMA EcuHearType ==
    ASSUME LineTypeOK, EcuHear
    PROVE  LineTypeOK'
<1>1. ecuRx' \in Seq(Byte)
  <2>1. Tail(ecuRx) \in Seq(Byte) /\ <<>> \in Seq(Byte)
    BY LinePartsNow, HeadTail DEF EcuHear
  <2>2. ecuRx' = <<>> \/ ecuRx' = Tail(ecuRx)
    BY DEF EcuHear
  <2> QED BY <2>1, <2>2
<1>2. ASSUME ecu.at # Len(ecu.blk)
      PROVE  EcuOK([ecu EXCEPT !.st = "say", !.at = @ + 1])
  <2>1. ecu.at \in 1..Len(ecu.blk) /\ Len(ecu.blk) \in Nat
    BY LinePartsNow DEF EcuHear, EcuOK, EcuType
  <2>2. ecu.at + 1 \in 1..Len(ecu.blk)
    BY <1>2, <2>1
  <2> DEFINE a == ecu.at + 1
             e == [ecu EXCEPT !.st = "say", !.at = a]
  <2>3. a \in Nat
    BY <2>1
  <2> HIDE DEF a
  <2>4. e \in EcuType /\ e.at = a /\ e.blk = ecu.blk
    BY <2>3, LinePartsNow DEF EcuType, EcuStates
  <2>5. EcuOK(e)
    BY <2>2, <2>4 DEF EcuOK, a
  <2> QED BY <2>5 DEF a
<1>3. EcuOK(ecu')
  BY <1>2, LinePartsNow, EcuUpdates, IdentifyType DEF EcuHear
<1> QED BY <1>1, <1>3, LinePartsNow, LineParts DEF EcuHear

\* Taking a byte of the tester's block keeps the types.
LEMMA EcuListenType ==
    ASSUME LineTypeOK, EcuListen
    PROVE  LineTypeOK'
<1> DEFINE c == Head(ecuRx)
           in == Append(ecu.in, c)
<1>1. c \in Byte /\ Tail(ecuRx) \in Seq(Byte)
  BY LinePartsNow, HeadTail DEF EcuListen
<1>2. in \in Seq(Byte)
  BY <1>1, LinePartsNow DEF EcuType
<1>3. \/ ecu' = [ecu EXCEPT !.st = "idle"] /\ ecuRx' = <<>> /\ rx' = rx
      \/ Len(in) > 3 /\ ecu' \in Replies(in) /\ ecuRx' = Tail(ecuRx) /\ rx' = rx
      \/ ecu' = [ecu EXCEPT !.in = in] /\ ecuRx' = Tail(ecuRx) /\ Deliver(<<Neg(c)>>)
  BY DEF EcuListen
<1>4. ecuRx' \in Seq(Byte)
  <2>1. <<>> \in Seq(Byte)
    OBVIOUS
  <2> QED BY <1>1, <1>3, <2>1
<1>5. rx' \in Seq(Byte)
  <2>1. <<Neg(c)>> \in Seq(Byte)
    BY <1>1, ProtocolBytes, Tuples
  <2> QED BY <1>3, <2>1, DeliverType, LinePartsNow
<1>6. EcuOK(ecu')
  <2>1. EcuOK([ecu EXCEPT !.in = in])
    BY <1>2, LinePartsNow DEF EcuOK, EcuType
  <2> HIDE DEF in
  <2> QED BY <1>2, <1>3, <2>1, RepliesType, EcuUpdates, LinePartsNow
<1> QED BY <1>4, <1>5, <1>6, LinePartsNow, LineParts DEF EcuListen

\* An idle ECU has the type of an ECU.
LEMMA IdleEcuType == EcuOK(IdleEcu)
BY ProtocolBytes DEF IdleEcu, EcuOK, EcuType, EcuStates

\* Waking the ECU keeps the types.
LEMMA WakeType ==
    ASSUME LineTypeOK, Wake, faults' \in 0..MaxFaults
    PROVE  LineTypeOK'
<1>1. rx' \in Seq(Byte)
  BY ProtocolBytes, Tuples, DeliverType DEF Wake
<1>2. <<KW2>> \in Seq(Byte) /\ Len(<<KW2>>) = 1
  BY ProtocolBytes, Tuples
<1>3. IdleEcu \in EcuType /\ IdleEcu.at = 1
  BY IdleEcuType DEF EcuOK, IdleEcu
<1>4. EcuOK(ecu')
  <2> DEFINE e == [IdleEcu EXCEPT !.st = "hear", !.blk = <<KW2>>, !.left = AsciiBlocks]
  <2>1. e \in EcuType
    BY <1>2, <1>3, LineAssumption DEF EcuType, EcuStates
  <2>2. e.at = 1 /\ e.blk = <<KW2>>
    BY <1>3 DEF EcuType
  <2>3. ecu' = e
    BY DEF Wake
  <2> HIDE DEF e
  <2>4. 1 \in 1..Len(<<KW2>>)
    BY <1>2
  <2> QED BY <2>1, <2>2, <2>3, <2>4 DEF EcuOK
<1>5. addr' \in BOOLEAN /\ changed' \in BOOLEAN
  BY DEF Wake
<1>6. ecuRx' \in Seq(Byte)
  BY DEF Wake
<1> QED BY <1>1, <1>4, <1>5, <1>6, LinePartsNow, LineParts DEF Wake

\* Disturbances stay within their bound.
LEMMA FaultType ==
    ASSUME LineTypeOK, Fault
    PROVE  faults' \in 0..MaxFaults
BY LineAssumption DEF LineTypeOK, Fault

\* Every disturbance keeps the types.
LEMMA DisturbanceType ==
    ASSUME LineTypeOK, Disturbance
    PROVE  LineTypeOK'
<1>1. faults' \in 0..MaxFaults
  BY FaultType DEF Disturbance, Garble, Lose, EcuReset, EcuReadyBlock, Unplug
<1>2. CASE Garble
  <2>1. PICK n \in Noise : \/ rx # <<>> /\ rx' = <<n>> \o Tail(rx) /\ ecuRx' = ecuRx
                           \/ ecuRx # <<>> /\ ecuRx' = <<n>> \o Tail(ecuRx) /\ rx' = rx
    BY <1>2 DEF Garble
  <2>2. <<n>> \in Seq(Byte)
    BY LineAssumption, Tuples
  <2>3. \A s \in Seq(Byte) : s # <<>> => <<n>> \o Tail(s) \in Seq(Byte)
    BY <2>2, HeadTail
  <2>4. rx' \in Seq(Byte) /\ ecuRx' \in Seq(Byte)
    BY <2>1, <2>3, LinePartsNow
  <2>5. changed' \in BOOLEAN
    BY <1>2 DEF Garble
  <2> QED BY <1>1, <1>2, <2>4, <2>5, LinePartsNow, LineParts DEF Garble
<1>3. CASE Lose
  <2>1. rx' \in Seq(Byte) /\ ecuRx' \in Seq(Byte)
    BY <1>3, LinePartsNow, HeadTail DEF Lose
  <2> QED BY <1>1, <1>3, <2>1, LinePartsNow, LineParts DEF Lose
<1>4. CASE EcuReset
  <2>1. EcuOK(ecu')
    BY <1>4, EcuUpdates, LinePartsNow DEF EcuReset
  <2>2. addr' \in BOOLEAN
    BY <1>4 DEF EcuReset
  <2>3. ecuRx' \in Seq(Byte)
    BY <1>4 DEF EcuReset
  <2> QED BY <1>1, <1>4, <2>1, <2>2, <2>3, LinePartsNow, LineParts DEF EcuReset
<1>5. CASE EcuReadyBlock
  <2>1. PICK t \in {ACK, ZERO} : ecu' = [ecu EXCEPT !.blk = EcuBlock(ecu.ctr, t, <<>>)]
    BY <1>5 DEF EcuReadyBlock
  <2> DEFINE b == EcuBlock(ecu.ctr, t, <<>>)
  <2>2. b \in Seq(Byte) /\ Len(b) >= 1
    BY LinePartsNow, EcuBlockTypes, ProtocolBytes DEF EcuType
  <2>3. ecu' = [ecu EXCEPT !.blk = b] /\ ecu.at = 1
    BY <1>5, <2>1 DEF EcuReadyBlock
  <2> HIDE DEF b
  <2>4. ecu' \in EcuType /\ ecu'.at = 1 /\ ecu'.blk = b
    BY <2>2, <2>3, LinePartsNow DEF EcuType
  <2>5. EcuOK(ecu')
    BY <2>2, <2>4 DEF EcuOK
  <2> QED BY <1>1, <1>5, <2>5, LinePartsNow, LineParts DEF EcuReadyBlock, line
<1>6. CASE Unplug
  <2>1. present' \in BOOLEAN /\ live' \in BOOLEAN
    BY <1>6 DEF Unplug
  <2>2. rx' \in Seq(Byte)
    BY <1>6 DEF Unplug
  <2> QED BY <1>1, <1>6, <2>1, <2>2, LinePartsNow, LineParts DEF Unplug
<1> QED BY <1>2, <1>3, <1>4, <1>5, <1>6 DEF Disturbance

\* Plugging the cable in again keeps the types.
LEMMA ReplugType ==
    ASSUME LineTypeOK, Replug
    PROVE  LineTypeOK'
<1>1. addr' \in BOOLEAN /\ present' \in BOOLEAN
  BY DEF Replug
<1>2. ecuRx' \in Seq(Byte)
  BY DEF Replug
<1> QED BY <1>1, <1>2, IdleEcuType, LinePartsNow, LineParts DEF Replug

\* A step that leaves the tester alone keeps its types.
LEMMA TesterUnchanged ==
    ASSUME TypeOK, UNCHANGED tester, LineTypeOK'
    PROVE  TypeOK'
BY DEF TypeOK, ControlTypeOK, GlobalsTypeOK, LastPos, tester, control, globals

\* Every step of the ECU, the line and the cable keeps the types.
LEMMA EnvironmentType ==
    ASSUME TypeOK, EcuNext \/ FaultNext \/ ReplugStep
    PROVE  TypeOK'
<1>1. CASE EcuNext
  <2>1. CASE EcuWake
    <3>1. faults' \in 0..MaxFaults
      BY <2>1 DEF EcuWake, TypeOK, LineTypeOK
    <3> QED BY <2>1, <3>1, WakeType, TesterUnchanged DEF EcuWake, TypeOK
  <2>2. CASE (EcuSay \/ EcuHear \/ EcuListen) /\ UNCHANGED tester
    BY <2>2, EcuSayType, EcuHearType, EcuListenType, TesterUnchanged DEF TypeOK
  <2> QED BY <1>1, <2>1, <2>2 DEF EcuNext
<1>2. CASE FaultNext
  <2>1. CASE SlowTimeout
    BY <2>1, FaultType, SoftErrorType DEF SlowTimeout, TimesOut, TypeOK,
       GlobalsTypeOK, LineTypeOK, globals, line
  <2>2. CASE EarlyWake
    BY <2>2, FaultType, WakeType, TesterUnchanged DEF EarlyWake, TypeOK
  <2>3. CASE Disturbance /\ UNCHANGED tester
    BY <2>3, DisturbanceType, TesterUnchanged DEF TypeOK
  <2> QED BY <1>2, <2>1, <2>2, <2>3 DEF FaultNext
<1>3. CASE ReplugStep
  BY <1>3, ReplugType, TesterUnchanged DEF ReplugStep, TypeOK
<1> QED BY <1>1, <1>2, <1>3

-----------------------------------------------------------------------------
(* The theorems.                                                            *)

\* Every reachable state of the protocol is well-typed: in particular the
\* tester never sends past the end of its block (send_ack, send_block).
THEOREM TypeCorrect == Spec => []TypeOK
<1>1. Init => TypeOK
  <2> SUFFICES ASSUME Init PROVE TypeOK
    OBVIOUS
  <2>1. 1 \in 1..LastPos /\ {0, 1} \subseteq Byte /\ <<>> \in Seq(Byte)
    BY ProtocolBytes DEF LastPos
  <2>2. ControlTypeOK
    BY <2>1 DEF Init, ControlTypeOK
  <2>3. GlobalsTypeOK
    BY <2>1 DEF Init, GlobalsTypeOK
  <2>4. addr \in BOOLEAN /\ live \in BOOLEAN /\ present \in BOOLEAN /\ changed \in BOOLEAN
    BY DEF Init, LineInit
  <2>5. LineTypeOK
    BY <2>1, <2>4, IdleEcuType, LineAssumption DEF Init, LineInit, LineTypeOK, EcuOK
  <2> QED BY <2>2, <2>3, <2>5 DEF TypeOK
<1>2. TypeOK /\ [Next]_vars => TypeOK'
  <2> SUFFICES ASSUME TypeOK, [Next]_vars PROVE TypeOK'
    OBVIOUS
  <2>1. CASE TesterNext
    BY <2>1, TesterStepType
  <2>2. CASE EcuNext \/ FaultNext \/ ReplugStep
    BY <2>2, EnvironmentType
  <2>3. CASE UNCHANGED vars
    <3>1. LineTypeOK'
      BY <2>3 DEF TypeOK, LineTypeOK, vars, lineVars, line, world
    <3> QED BY <2>3, <3>1, TesterUnchanged DEF vars
  <2> QED BY <2>1, <2>2, <2>3 DEF Next
<1> QED BY <1>1, <1>2, PTL DEF Spec

-----------------------------------------------------------------------------
\* The session starts with block number 1: kw1281_init has set the counter and
\* nothing touches it until the third key byte has been acknowledged.
CounterFresh == pc \in {"wake", "flush", "key"} => counter = 1

SessionInv == ReadyBeforeRequest /\ CounterFresh

\* The invariant of the session holds at the start.
LEMMA SessionInvInit == Init => SessionInv
BY DEF Init, SessionInv, ReadyBeforeRequest, CounterFresh

\* After an error the tester is outside a session.
LEMMA SoftErrorInv ==
    ASSUME SoftError
    PROVE  SessionInv'
BY DEF SoftError, Goto, SessionInv, ReadyBeforeRequest, CounterFresh

\* Every step keeps the invariant of the session.
LEMMA SessionInvStep ==
    ASSUME TypeOK, SessionInv, [Next]_vars
    PROVE  SessionInv'
<1> USE DEF SessionInv, ReadyBeforeRequest, CounterFresh
<1>1. CASE UNCHANGED tester
  BY <1>1 DEF tester, control, globals
<1>2. CASE Open \/ InitBegin \/ SendAddress \/ HardError \/ Flush
  BY <1>2 DEF Open, InitBegin, SendAddress, HardError, Flush, Goto, globals
<1>3. CASE ReadKeyByte \/ ReadByte \/ WriteAck
  BY <1>3 DEF ReadKeyByte, ReadByte, WriteAck, Goto, globals
<1>4. CASE TakeKey
  BY <1>4 DEF TakeKey, Goto
<1>5. CASE TakeByte
  <2>1. activeblock = "block1" => activeblock' = "block1"
    BY <1>5 DEF TakeByte, RecognisedBy
  <2> QED BY <1>5, <2>1 DEF TakeByte, Goto
<1>6. CASE FlushFails \/ CounterWrong \/ EchoWrong \/ BlockEndWrong \/ UnknownEcu
           \/ SendAckWrong \/ WriteFails \/ ReadTimeout \/ SlowTimeout
  BY <1>6, SoftErrorInv DEF FlushFails, CounterWrong, EchoWrong, BlockEndWrong,
     UnknownEcu, SendAckWrong, WriteFails, ReadTimeout, SlowTimeout, TimesOut
<1>7. CASE IdentBlockDone
  BY <1>7 DEF IdentBlockDone, BeginSend, Goto
<1>8. CASE IdentDone
  <2>1. activeblock' = "block1"
    BY <1>8 DEF IdentDone, EndBlock, EcuUnknown, TypeOK, GlobalsTypeOK
  <2> QED BY <1>8, <2>1 DEF IdentDone, BeginSend, Goto
<1>9. CASE AnswerDone
  BY <1>9 DEF AnswerDone, EndBlock, BeginSend, Goto
<1>10. CASE SendByte \/ SendEchoOk \/ SendAckOk
  BY <1>10 DEF SendByte, SendEchoOk, SendAckOk, Goto, globals
<1> QED BY <1>1, <1>2, <1>3, <1>4, <1>5, <1>6, <1>7, <1>8, <1>9, <1>10
        DEF Next, TesterNext, EcuNext, EcuWake, FaultNext, EarlyWake, ReplugStep, vars

\* No group block is requested before the ECU is ready and known, for every
\* ECU, every table and any number of disturbances (kw1281_get_ascii_blocks).
THEOREM ReadyCorrect == Spec => []ReadyBeforeRequest
<1>1. TypeOK /\ SessionInv /\ [Next]_vars => SessionInv'
  BY SessionInvStep
<1>2. SessionInv => ReadyBeforeRequest
  BY DEF SessionInv
<1> QED BY <1>1, <1>2, SessionInvInit, TypeCorrect, PTL DEF Spec

-----------------------------------------------------------------------------
(* The bytes implement the session of BlockSession.                         *)

\* Both levels poll the same entries in a pass.
LEMMA SameSchedule == \A n : Session!DueIn(n) = Due(n)
BY DEF Session!DueIn, Due

\* Where the session is down, BlockSession is in its initial state.
LEMMA DownState ==
    ASSUME SessionInv, ~InSession
    PROVE  Session!Init
BY DEF SessionInv, ReadyBeforeRequest, InSession, Session!Init

\* A soft error maps to the loss of the session, or to a stutter.
LEMMA DropStep ==
    ASSUME SessionInv, SoftError
    PROVE  [Session!Next]_(Session!vars)
<1>1. ~InSession' /\ item' = 0 /\ pc' # "send"
  BY DEF SoftError, Goto, InSession
<1>2. Session!Down
  BY <1>1 DEF Session!Down
<1>3. CASE InSession
  BY <1>2, <1>3 DEF InSession, Session!Drop, Session!Next
<1>4. CASE ~InSession
  BY <1>2, <1>4, DownState DEF Session!Down, Session!Init, Session!vars
<1> QED BY <1>3, <1>4

\* What every complete block does to the session.
LEMMA EndBlockStep ==
    ASSUME EndBlock, NEW i, BeginSend(i), SessionInv
    PROVE  /\ Session!EcuBlock
           /\ pc = "recv" /\ InSession /\ InSession' /\ pc' = "send" /\ pos' = 1
           /\ item' = i
<1>1. pc = "recv" /\ pc' = "send" /\ pos' = 1 /\ item' = i /\ InSession /\ InSession'
  BY DEF EndBlock, AtBlockEnd, BeginSend, Goto, InSession
<1>2. counter' = (counter + 1) % CounterMod
  BY DEF EndBlock, IncCounter
<1> QED BY <1>1, <1>2 DEF Session!EcuBlock

\* Every step maps to a step of the session or to a stutter.
LEMMA SessionStep ==
    ASSUME TypeOK, SessionInv, [Next]_vars
    PROVE  [Session!Next]_(Session!vars)
<1>1. CASE UNCHANGED tester
  BY <1>1 DEF tester, control, globals, InSession, Session!vars
<1>2. CASE Open \/ InitBegin \/ SendAddress \/ HardError \/ Flush
  <2>1. ~InSession /\ ~InSession' /\ item' = item /\ pc # "send" /\ pc' # "send"
    BY <1>2 DEF Open, InitBegin, SendAddress, HardError, Flush, Goto, InSession
  <2>2. item = 0
    BY <2>1 DEF SessionInv, ReadyBeforeRequest, InSession
  <2> QED BY <2>1, <2>2 DEF Session!vars
<1>3. CASE ReadKeyByte \/ ReadByte \/ WriteAck
  BY <1>3 DEF ReadKeyByte, ReadByte, WriteAck, Goto, globals, InSession, Session!vars
<1>4. CASE TakeKey
  <2>1. /\ ~InSession /\ InSession' /\ counter = 1 /\ counter' = 1
        /\ item = 0 /\ item' = 0 /\ pc = "key" /\ pc' = "recv"
    BY <1>4 DEF TakeKey, Goto, InSession, SessionInv, CounterFresh, ReadyBeforeRequest
  <2>2. Session!Connect
    BY <2>1 DEF Session!Connect
  <2> QED BY <2>2 DEF Session!Next
<1>5. CASE TakeByte
  BY <1>5 DEF TakeByte, Goto, InSession, Session!vars
<1>6. CASE FlushFails \/ CounterWrong \/ EchoWrong \/ BlockEndWrong \/ UnknownEcu
           \/ SendAckWrong \/ WriteFails \/ ReadTimeout \/ SlowTimeout
  BY <1>6, DropStep DEF FlushFails, CounterWrong, EchoWrong, BlockEndWrong,
     UnknownEcu, SendAckWrong, WriteFails, ReadTimeout, SlowTimeout, TimesOut
<1>7. CASE IdentBlockDone
  <2>1. item = 0 /\ BeginSend(0) /\ EndBlock
    BY <1>7 DEF IdentBlockDone
  <2>2. Session!IdentBlock
    BY <2>1, EndBlockStep DEF Session!IdentBlock
  <2> QED BY <2>2 DEF Session!Next
<1>8. CASE IdentDone
  <2>1. PICK i \in Items : First(i, Due(0)) /\ BeginSend(i)
    BY <1>8 DEF IdentDone
  <2>2. item = 0 /\ EndBlock /\ loopcount' = 0 /\ i # 0
    BY <1>8, TableAssumption DEF IdentDone, Items
  <2>3. Session!Identified
    BY <2>1, <2>2, EndBlockStep, SameSchedule
       DEF Session!Identified, Session!FirstOf, First
  <2> QED BY <2>3 DEF Session!Next
<1>9. CASE AnswerDone
  <2> DEFINE later == {j \in Due(loopcount) : j > item}
             next  == (loopcount + 1) % LoopMod
  <2>1. PICK i \in Items :
          /\ BeginSend(i)
          /\ \/ First(i, later) /\ loopcount' = loopcount
             \/ later = {} /\ First(i, Due(next)) /\ loopcount' = next
    BY <1>9 DEF AnswerDone
  <2>2. item # 0 /\ EndBlock /\ i # 0
    BY <1>9, TableAssumption DEF AnswerDone, Items
  <2>3. Session!Answered
    BY <2>1, <2>2, EndBlockStep, SameSchedule
       DEF Session!Answered, Session!FirstOf, First
  <2> QED BY <2>3 DEF Session!Next
<1>10. CASE SendByte
  <2>1. /\ pc = "send" /\ pc' = "send" /\ step = "write" /\ step' = "echo"
        /\ pos' = pos /\ item' = item /\ loopcount' = loopcount
        /\ counter' = IF pos = 2 THEN (counter + 1) % CounterMod ELSE counter
    BY <1>10 DEF SendByte, Goto, CounterAfter, IncCounter
  <2>2. CASE pos = 2
    <3>1. Session!TesterBlock
      BY <2>1, <2>2 DEF Session!TesterBlock, InSession
    <3> QED BY <3>1 DEF Session!Next
  <2>3. CASE pos # 2
    BY <2>1, <2>3 DEF Session!vars, InSession
  <2> QED BY <2>2, <2>3
<1>11. CASE SendEchoOk
  <2>1. pos = LastPos => pos # 1 /\ pos # 2
    BY DEF LastPos
  <2> QED BY <1>11, <2>1 DEF SendEchoOk, Goto, globals, Session!vars, InSession
<1>12. CASE SendAckOk
  <2>1. pos \in Nat /\ pos' = pos + 1 /\ pos # 0
    BY <1>12 DEF SendAckOk, TypeOK, ControlTypeOK, LastPos
  <2> QED BY <1>12, <2>1 DEF SendAckOk, Goto, globals, Session!vars, InSession
<1> QED BY <1>1, <1>2, <1>3, <1>4, <1>5, <1>6, <1>7, <1>8, <1>9, <1>10, <1>11, <1>12
        DEF Next, TesterNext, EcuNext, EcuWake, FaultNext, EarlyWake, ReplugStep, vars

\* Every behaviour of the byte protocol is a behaviour of BlockSession: blocks
\* numbered without gap or repetition, strict turns, the polling order of
\* kw1281_mainloop - whatever the line, the ECU and the user do.
THEOREM ImplementsSession == Spec => SessionSpec
<1>1. Init => Session!Init
  BY SessionInvInit, DownState DEF Init, InSession
<1>2. TypeOK /\ SessionInv /\ [Next]_vars => [Session!Next]_(Session!vars)
  BY SessionStep
<1>3. TypeOK /\ SessionInv /\ [Next]_vars => SessionInv'
  BY SessionInvStep
<1> QED BY <1>1, <1>2, <1>3, SessionInvInit, TypeCorrect, PTL
        DEF Spec, SessionSpec, Session!Spec
=============================================================================
