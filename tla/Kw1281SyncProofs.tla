-------------------------- MODULE Kw1281SyncProofs --------------------------
(***************************************************************************)
(* Theorems about Kw1281 that relate the two ends of the line: for every    *)
(* table, every ECU and any number of disturbances, no two changes of which *)
(* hit the same exchange (KLine!Garble), tester and ECU never lose step.    *)
(***************************************************************************)
EXTENDS Kw1281Proofs, Integers

(* The invariant says, of every place of the tester in an exchange, where   *)
(* the ECU can be.  In an exchange that is in order exactly one byte is on  *)
(* its way or about to be said, but for the echo: the byte the tester waits *)
(* for, or the one the ECU waits for.  When it is lost both wait (Stuck).   *)

\* The bytes of the ECU's block the tester has accepted, or is about to.
Taken ==
    IF pc # "recv" THEN <<>>
    ELSE IF step \in {"write", "echo"} THEN Append(buf, Neg(sent)) ELSE buf

\* The echoes to be read before the ECU's next byte.
Echoes == IF step = "echo" THEN 1 ELSE 0

\* The ECU says nothing more unless it hears something.
Quiet == ecuRx = <<>> /\ ecu.st # "say"

\* A byte is coming from the ECU; the reads until the tester writes again, or
\* has a block complete.
Coming == IF ecu.st = "say" \/ ecuRx # <<>> THEN 1 ELSE 0
Needs == IF step = "echo" THEN 2 ELSE IF pc = "key" THEN 3 - Len(buf) ELSE 1

AskedRight == item # 0 => ecu.asked = RequestedGroup

\* A byte is missing: the tester cannot but time out, or see a wrong byte.
Stuck ==
    /\ Reading /\ Len(rx) + Coming < Needs
    /\ Len(ecuRx) <= 1 /\ (ecu.st = "say" => ecuRx = <<>>)
    /\ pc = "recv" /\ step = "echo" =>
         AskedRight /\ (ecu.st = "listen" => ecuRx = <<>>)

BlockOK(b) == Len(b) >= 4 /\ b[1] = Len(b) - 1 /\ b[Len(b)] = END

Agree(n) == \A i \in 1..n : Taken[i] = ecu.blk[i]

\* The ECU knows that the tester has Taken; its next byte comes behind e echoes.
Acked(e) ==
    /\ ecuRx = <<>> /\ BlockOK(ecu.blk) /\ AskedRight
    /\ ecu.at = Len(Taken) + 1 /\ ecu.at <= Len(ecu.blk) /\ Agree(Len(Taken))
    /\ \/ ecu.st = "say" /\ Len(rx) = e /\ ecu.ctr = counter
       \/ /\ Len(rx) = e + 1 /\ (~changed => rx[e+1] = ecu.blk[ecu.at])
          /\ \/ ecu.st = "idle"
             \/ ecu.st = "hear" /\ ecu.at < Len(ecu.blk) /\ ecu.ctr = counter
             \/ /\ ecu.st = "listen" /\ ecu.at = Len(ecu.blk) /\ ecu.in = <<>>
                /\ ecu.ctr = NextNumber(counter)

\* The last byte of Taken has yet to be acknowledged, and may be a changed one.
Doubtful ==
    /\ BlockOK(ecu.blk) /\ AskedRight
    /\ ecu.at = Len(Taken) /\ ecu.at \in 1..Len(ecu.blk)-1 /\ Agree(ecu.at - 1)
    /\ ~changed => Taken[ecu.at] = ecu.blk[ecu.at]

\* Its acknowledgement is on its way.
Unacked(e) ==
    /\ Doubtful /\ ecu.st = "hear" /\ ecu.ctr = counter
    /\ Len(rx) = e /\ Len(ecuRx) = 1
    /\ ecuRx[1] = Neg(ecu.blk[ecu.at]) => Taken[ecu.at] = ecu.blk[ecu.at]

\* The ECU has said the key word, and wants the last byte acknowledged.
KeyEcu == ecu.st = "hear" /\ ecu.blk = <<KW2>> /\ ecu.at = 1 /\ ecu.ctr = counter

Woken(e) == KeyEcu /\ item = 0 /\ Len(rx) = e /\ Len(ecuRx) = 1

KeySync ==
    \/ /\ step = "read" /\ Len(buf) + Len(rx) = 3 /\ Len(buf) <= 2 /\ ecuRx = <<>>
       /\ ecu.st = "idle" \/ KeyEcu
    \/ step = "write" /\ rx = <<>> /\ ecuRx = <<>> /\ (ecu.st = "idle" \/ KeyEcu)
    \/ step = "echo" /\ (Woken(1) \/ Acked(1))

\* The ECU has the first n bytes of the tester's block; what it has for the
\* second one it has compared with its own number.
Heard(n) == \A p \in 1..n : p # 2 => ecu.in[p] = Outgoing(p)

Numbers ==
    ecu.st = "listen" =>
        IF pos = 1 \/ (pos = 2 /\ step = "write")
        THEN ecu.ctr = counter ELSE NextNumber(ecu.ctr) = counter

\* Byte p of the tester's block is on its way, behind it e echoes.
Offered(p, e) ==
    /\ ecu.st = "listen" /\ Len(rx) = e /\ Len(ecuRx) = 1
    /\ Len(ecu.in) = p - 1 /\ Heard(p - 1)

\* The ECU has heard it, or something else, and said so.
Confirmed(e) ==
    /\ pos < LastPos /\ ecuRx = <<>> /\ Len(rx) = e + 1
    /\ \/ ecu.st = "idle"
       \/ /\ ecu.st = "listen" /\ Len(ecu.in) = pos /\ Heard(pos - 1)
          /\ ~changed \/ rx[e+1] = Neg(sent) => ecu.in[pos] = sent

SendSync ==
    \/ /\ step = "write" /\ rx = <<>> /\ ecuRx = <<>> /\ Numbers
       /\ \/ ecu.st = "idle"
          \/ ecu.st = "listen" /\ Len(ecu.in) = pos - 1 /\ Heard(pos - 1)
    \/ /\ step \in {"echo", "ack"} /\ (pos # 2 => sent = Outgoing(pos))
       /\ \/ Offered(pos, Echoes) /\ Numbers /\ (~changed => ecuRx[1] = sent)
          \/ Confirmed(Echoes) /\ Numbers
          \/ step = "echo" /\ pos = LastPos /\ Acked(1)

\* Its last byte is on its way.
Ended == buf = <<>> /\ Offered(LastPos, 0) /\ NextNumber(ecu.ctr) = counter

RecvSync ==
    \/ step = "read" /\ (Unacked(0) \/ Acked(0) \/ (buf = <<>> /\ Woken(0)) \/ Ended)
    \/ /\ step = "write" /\ Doubtful /\ rx = <<>> /\ ecuRx = <<>>
       /\ ecu.st = "idle" \/ (ecu.st = "hear" /\ ecu.ctr = counter)
    \/ step = "echo" /\ (Unacked(1) \/ Acked(1))

KeyInStep ==
    IF addr THEN rx = <<>> /\ buf = <<>> /\ step = "read" ELSE Stuck \/ KeySync

InExchange ==
    /\ pc = "flush" => addr \/ Quiet
    /\ pc = "key" => KeyInStep
    /\ pc = "recv" => ~addr /\ (Stuck \/ RecvSync)
    /\ pc = "send" => ~addr /\ (Stuck \/ SendSync)

\* Between two exchanges nothing is half done.
Started ==
    /\ pc \in {"open", "init", "wake", "flush"} => step = "read"
    /\ pc \notin {"key", "recv"} => buf = <<>>

\* Tester and ECU are in step, as long as the adapter is there.
InStep ==
    /\ live => present
    /\ Started
    /\ live => InExchange

-----------------------------------------------------------------------------
(* Sequences of bytes, and what a state and a step consist of.              *)

\* A sequence is empty when its length is zero.
LEMMA Empty == \A s \in Seq(Byte) : Len(s) \in Nat /\ (Len(s) = 0 <=> s = <<>>)
OBVIOUS

\* What remains of a sequence without its first byte.
LEMMA TailOf ==
    ASSUME NEW s \in Seq(Byte), s # <<>>
    PROVE  /\ Len(s) >= 1 /\ Head(s) = s[1] /\ s[1] \in Byte
           /\ Tail(s) \in Seq(Byte) /\ Len(Tail(s)) = Len(s) - 1
           /\ Len(s) >= 2 => Tail(s)[1] = s[2]
OBVIOUS

\* A byte is appended behind the others.
LEMMA AppendOf ==
    ASSUME NEW s \in Seq(Byte), NEW c \in Byte
    PROVE  /\ Append(s, c) \in Seq(Byte) /\ Len(Append(s, c)) = Len(s) + 1
           /\ Append(s, c)[Len(s) + 1] = c
           /\ \A i \in 1..Len(s) : Append(s, c)[i] = s[i]
OBVIOUS

\* The types of the parts of a state.
LEMMA Types ==
    ASSUME TypeOK
    PROVE  /\ rx \in Seq(Byte) /\ ecuRx \in Seq(Byte) /\ buf \in Seq(Byte)
           /\ sent \in Byte /\ counter \in Byte /\ Taken \in Seq(Byte)
           /\ ecu \in EcuType /\ ecu.blk \in Seq(Byte) /\ ecu.in \in Seq(Byte)
           /\ ecu.at \in Nat /\ ecu.ctr \in Byte
           /\ pos \in 1..LastPos /\ LastPos \in {4, 5} /\ pos \in Nat
           /\ Len(rx) \in Nat /\ Len(ecuRx) \in Nat /\ Len(buf) \in Nat
           /\ Len(ecu.blk) \in Nat /\ Len(ecu.in) \in Nat /\ Len(Taken) \in Nat
<1>1. /\ rx \in Seq(Byte) /\ ecuRx \in Seq(Byte) /\ buf \in Seq(Byte)
      /\ sent \in Byte /\ counter \in Byte /\ ecu \in EcuType
      /\ pos \in 1..LastPos
  BY DEF TypeOK, ControlTypeOK, GlobalsTypeOK, LineTypeOK
<1>2. LastPos \in {4, 5}
  BY DEF LastPos
<1>3. Taken \in Seq(Byte)
  <2>1. Neg(sent) \in Byte
    BY <1>1, ProtocolBytes
  <2>2. Append(buf, Neg(sent)) \in Seq(Byte)
    BY <1>1, <2>1, AppendOf
  <2>3. <<>> \in Seq(Byte)
    OBVIOUS
  <2> QED BY <1>1, <2>2, <2>3 DEF Taken
<1>4. /\ ecu.blk \in Seq(Byte) /\ ecu.in \in Seq(Byte)
      /\ ecu.at \in Nat /\ ecu.ctr \in Byte
  BY <1>1 DEF EcuType
<1>5. pos \in Nat
  BY <1>1, <1>2
<1> QED BY <1>1, <1>2, <1>3, <1>4, <1>5, Empty

\* What a read of the tester does while the adapter is there.
LEMMA ReadStep ==
    ASSUME TypeOK, live, NEW S, Read(S)
    PROVE  /\ rx # <<>> /\ rx[1] \in S /\ rx' = Tail(rx)
           /\ Len(rx) >= 1 /\ rx' \in Seq(Byte) /\ Len(rx') = Len(rx) - 1
           /\ Len(rx) >= 2 => rx'[1] = rx[2]
           /\ UNCHANGED <<ecuRx, addr, present, live, car, ecu, faults, changed>>
<1>1. rx # <<>> /\ Head(rx) \in S /\ rx' = Tail(rx)
  BY DEF Read, Incoming
<1>2. UNCHANGED <<ecuRx, addr, present, live, car, ecu, faults, changed>>
  BY DEF Read, world
<1>3. rx \in Seq(Byte)
  BY Types
<1> QED BY <1>1, <1>2, <1>3, TailOf

\* A read leaves the world as it is, adapter or not.
LEMMA ReadWorld ==
    ASSUME NEW S, Read(S)
    PROVE  UNCHANGED <<ecuRx, addr, present, live, car, ecu, faults, changed>>
BY DEF Read, world

-----------------------------------------------------------------------------
(* The steps of the tester outside of a session.                            *)

\* After a soft error the tester is about to start over.
LEMMA SoftErrorInStep ==
    ASSUME InStep, SoftError, UNCHANGED <<present, live>>
    PROVE  InStep'
BY DEF SoftError, Goto, InStep, Started, InExchange

\* Every error of the tester ends the exchange.
LEMMA ErrorInStep ==
    ASSUME TypeOK, InStep,
           \/ FlushFails \/ CounterWrong \/ EchoWrong \/ BlockEndWrong \/ UnknownEcu
           \/ SendAckWrong \/ WriteFails \/ ReadTimeout \/ SlowTimeout
    PROVE  InStep'
<1>1. SoftError
  BY DEF FlushFails, CounterWrong, EchoWrong, BlockEndWrong, UnknownEcu,
     SendAckWrong, WriteFails, ReadTimeout, SlowTimeout, TimesOut
<1>2. UNCHANGED <<present, live>>
  <2>1. CASE FlushFails \/ WriteFails
    BY <2>1 DEF FlushFails, WriteFails, lineVars, world
  <2>2. CASE CounterWrong \/ EchoWrong \/ BlockEndWrong \/ UnknownEcu \/ SendAckWrong
    BY <2>2, ReadWorld DEF CounterWrong, EchoWrong, BlockEndWrong, UnknownEcu,
       EndBlock, SendAckWrong
  <2>3. CASE ReadTimeout \/ SlowTimeout
    BY <2>3 DEF ReadTimeout, SlowTimeout, TimesOut
  <2> QED BY <2>1, <2>2, <2>3
<1> QED BY <1>1, <1>2, SoftErrorInStep

\* Opening the port, resetting the counter and failing to send the address.
LEMMA OpenInStep ==
    ASSUME InStep, Open \/ InitBegin \/ HardError
    PROVE  InStep'
<1>1. CASE Open
  BY <1>1 DEF Open, Goto, InStep, Started, InExchange
<1>2. CASE InitBegin
  BY <1>2 DEF InitBegin, Goto, InStep, Started, InExchange, world
<1>3. CASE HardError
  BY <1>3 DEF HardError, Goto, InStep, Started, InExchange, lineVars, world
<1> QED BY <1>1, <1>2, <1>3

\* With the address on its way nothing else comes from the ECU.
LEMMA AddressInStep ==
    ASSUME InStep, SendAddress
    PROVE  InStep'
BY DEF SendAddress, Goto, InStep, Started, InExchange, world

\* The ECU is still to be woken, or was woken too early and waits.
LEMMA FlushInStep ==
    ASSUME TypeOK, InStep, Flush
    PROVE  InStep'
<1>1. /\ pc = "flush" /\ live /\ pc' = "key" /\ step' = step /\ rx' = <<>>
      /\ buf' = buf /\ UNCHANGED <<ecuRx, addr, present, live, ecu>>
  BY DEF Flush, Goto, world
<1>2. step = "read" /\ buf = <<>> /\ (addr \/ Quiet)
  BY <1>1 DEF InStep, Started, InExchange
<1>3. KeyInStep'
  <2>1. CASE addr
    BY <1>1, <1>2, <2>1 DEF KeyInStep
  <2>2. CASE ~addr
    <3>1. Stuck'
      BY <1>1, <1>2, <2>2 DEF Stuck, Quiet, Reading, Coming, Needs
    <3> QED BY <1>1, <2>2, <3>1 DEF KeyInStep
  <2> QED BY <2>1, <2>2
<1> QED BY <1>1, <1>3 DEF InStep, Started, InExchange

-----------------------------------------------------------------------------
(* The steps of the tester that read a block.                               *)

\* The ECU's next byte is there to be read.
LEMMA NextByteThere ==
    ASSUME TypeOK, Acked(0), rx # <<>>
    PROVE  /\ Len(rx) = 1 /\ (~changed => rx[1] = ecu.blk[ecu.at])
           /\ \/ ecu.st = "idle"
              \/ ecu.st = "hear" /\ ecu.at < Len(ecu.blk) /\ ecu.ctr = counter
              \/ /\ ecu.st = "listen" /\ ecu.at = Len(ecu.blk) /\ ecu.in = <<>>
                 /\ ecu.ctr = NextNumber(counter)
<1>1. Len(rx) # 0
  BY Types, Empty
<1> QED BY <1>1 DEF Acked

\* What has to be shown of a step inside an exchange.
LEMMA StaysInStep ==
    ASSUME InStep, UNCHANGED <<present, live>>, pc' \in {"key", "recv", "send"},
           pc' = "send" => buf' = <<>>, live => InExchange'
    PROVE  InStep'
BY DEF InStep, Started

\* A byte of the sync or key word.
LEMMA ReadKeyByteInStep ==
    ASSUME TypeOK, InStep, ReadKeyByte
    PROVE  InStep'
<1>1. /\ pc = "key" /\ step = "read" /\ Len(buf) < 2
      /\ UNCHANGED <<pc, step, pos, sent, item, counter>>
  BY DEF ReadKeyByte, globals
<1>2. PICK c \in Incoming : Read({c}) /\ buf' = Append(buf, c)
  BY DEF ReadKeyByte
<1>3. UNCHANGED <<ecuRx, addr, present, live, ecu>>
  BY <1>2, ReadWorld
<1>4. ASSUME live
      PROVE  InExchange'
  <2>1. rx # <<>> /\ Len(rx') = Len(rx) - 1
    BY <1>2, <1>4, ReadStep
  <2>2. Len(buf') = Len(buf) + 1
    <3>1. c \in Byte
      BY IncomingIsByte DEF TypeOK
    <3> QED BY <1>2, <3>1, Types, AppendOf
  <2>3. ~addr /\ (Stuck \/ KeySync)
    BY <1>1, <1>4, <2>1 DEF InStep, InExchange, KeyInStep
  <2>4. CASE Stuck
    <3>1. Stuck'
      BY <1>1, <1>3, <2>1, <2>2, <2>4, Types DEF Stuck, Reading, Coming, Needs
    <3> QED BY <1>1, <1>3, <2>3, <3>1 DEF InExchange, KeyInStep
  <2>5. CASE KeySync
    <3>1. KeySync'
      BY <1>1, <1>3, <2>1, <2>2, <2>5, Types DEF KeySync, KeyEcu
    <3> QED BY <1>1, <1>3, <2>3, <3>1 DEF InExchange, KeyInStep
  <2> QED BY <2>3, <2>4, <2>5
<1> QED BY <1>1, <1>3, <1>4, StaysInStep

\* A byte that is going to be acknowledged: it is the ECU's next one, or it has
\* been changed.
LEMMA ReadByteInStep ==
    ASSUME TypeOK, InStep, ReadByte
    PROVE  InStep'
<1>1. /\ step = "read" /\ step' = "write" /\ UNCHANGED <<pc, pos, buf, item, counter>>
      /\ \/ pc = "key" /\ Len(buf) = 2
         \/ pc = "recv" /\ ~Complete(buf)
  BY DEF ReadByte, Goto, globals
<1>2. PICK c \in Incoming : Read({c}) /\ sent' = Neg(c)
  BY DEF ReadByte
<1>3. UNCHANGED <<ecuRx, addr, present, live, ecu, changed>>
  BY <1>2, ReadWorld
<1>4. c \in Byte /\ Neg(sent') = c
  BY <1>2, IncomingIsByte, ProtocolBytes DEF TypeOK
<1>5. ASSUME live
      PROVE  InExchange'
  <2>1. /\ rx # <<>> /\ rx[1] \in {c} /\ Len(rx) >= 1
        /\ Len(rx') = Len(rx) - 1 /\ rx' \in Seq(Byte)
    BY <1>2, <1>5, ReadStep
  <2>2. ~Stuck
    <3>1. Needs = 1
      <4>1. CASE pc = "key"
        <5>1. Needs = 3 - Len(buf) /\ Len(buf) = 2
          BY <1>1, <4>1 DEF Needs
        <5> QED BY <5>1
      <4>2. CASE pc = "recv"
        BY <1>1, <4>2 DEF Needs
      <4> QED BY <1>1, <4>1, <4>2
    <3>2. Coming \in {0, 1} /\ Len(rx) \in Nat
      BY Types DEF Coming
    <3> QED BY <2>1, <3>1, <3>2 DEF Stuck
  <2>3. CASE pc = "key"
    <3>1. KeySync /\ ~addr
      BY <1>1, <1>5, <2>1, <2>2, <2>3 DEF InStep, InExchange, KeyInStep
    <3>2. Len(rx) = 1 /\ ecuRx = <<>> /\ (ecu.st = "idle" \/ KeyEcu)
      <4>1. Len(buf) + Len(rx) = 3 /\ ecuRx = <<>> /\ (ecu.st = "idle" \/ KeyEcu)
        BY <1>1, <2>3, <3>1 DEF KeySync
      <4>2. Len(rx) = 3 - Len(buf)
        BY <4>1, Types
      <4>3. Len(buf) = 2
        BY <1>1, <2>3
      <4>4. Len(rx) = 1
        BY <4>2, <4>3
      <4> QED BY <4>1, <4>4
    <3>3. rx' = <<>>
      BY <2>1, <3>2, Empty
    <3>4. KeySync'
      BY <1>1, <1>3, <3>2, <3>3 DEF KeySync, KeyEcu
    <3> QED BY <1>1, <1>3, <2>3, <3>1, <3>4 DEF InExchange, KeyInStep
  <2>4. CASE pc = "recv"
    <3>1. RecvSync /\ ~addr
      BY <1>5, <2>2, <2>4 DEF InStep, InExchange
    <3>2. Acked(0)
      BY <1>1, <2>1, <3>1, Types DEF RecvSync, Unacked, Woken, Ended, Offered
    <3>3. Taken = buf /\ Taken' = Append(buf, c)
      BY <1>1, <1>4, <2>4 DEF Taken
    <3>4. Len(ecu.blk) # Len(buf) + 1
      <4>1. Len(ecu.blk) >= 4 /\ ecu.blk[1] = Len(ecu.blk) - 1
        BY <3>2 DEF Acked, BlockOK
      <4>2. \A i \in 1..Len(buf) : buf[i] = ecu.blk[i]
        BY <3>2, <3>3 DEF Acked, Agree
      <4>3. ~(Len(buf) >= 3 /\ Len(buf) = buf[1])
        BY <1>1, <2>4 DEF Complete
      <4>4. Len(buf) \in Nat /\ Len(ecu.blk) \in Nat
        BY Types
      <4>5. SUFFICES ASSUME Len(ecu.blk) = Len(buf) + 1
                     PROVE  FALSE
        OBVIOUS
      <4>6. Len(buf) >= 3 /\ 1 \in 1..Len(buf)
        BY <4>1, <4>4, <4>5
      <4>7. buf[1] = Len(buf)
        BY <4>1, <4>2, <4>4, <4>5, <4>6
      <4> QED BY <4>3, <4>6, <4>7
    <3>5. ecu.at = Len(buf) + 1 /\ ecu.at \in 1..Len(ecu.blk)-1
      BY <3>2, <3>3, <3>4, Types DEF Acked
    <3>6. /\ Len(Taken') = Len(buf) + 1 /\ Taken'[Len(buf) + 1] = c
          /\ \A i \in 1..Len(buf) : Taken'[i] = buf[i]
      BY <1>4, <3>3, Types, AppendOf
    <3>7. Doubtful'
      <4>1. BlockOK(ecu.blk)' /\ AskedRight'
        BY <1>1, <1>3, <3>2 DEF Acked, BlockOK, AskedRight, RequestedGroup
      <4>2. Agree(ecu.at - 1)'
        BY <1>3, <3>2, <3>3, <3>5, <3>6, Types DEF Acked, Agree
      <4>3. ~changed => c = ecu.blk[ecu.at]
        BY <2>1, <3>2, NextByteThere
      <4> QED BY <1>3, <3>5, <3>6, <4>1, <4>2, <4>3 DEF Doubtful
    <3>8. rx' = <<>> /\ ecuRx' = <<>> /\ (ecu.st = "idle" \/ (ecu.st = "hear" /\ ecu.ctr = counter))
      <4>1. Len(rx) = 1 /\ (ecu.st = "idle" \/ (ecu.st = "hear" /\ ecu.ctr = counter))
        <5>1. ecu.at # Len(ecu.blk)
          <6>1. Len(ecu.blk) \in Nat
            BY Types
          <6> QED BY <3>5, <6>1
        <5> QED BY <2>1, <3>2, <5>1, NextByteThere
      <4>2. rx' = <<>>
        BY <2>1, <4>1, Empty
      <4> QED BY <1>3, <3>2, <4>1, <4>2 DEF Acked
    <3>9. RecvSync'
      BY <1>1, <1>3, <3>7, <3>8 DEF RecvSync
    <3> QED BY <1>1, <1>3, <2>4, <3>1, <3>9 DEF InExchange
  <2> QED BY <1>1, <2>3, <2>4
<1> QED BY <1>1, <1>3, <1>5, StaysInStep

\* What a write of the tester does to an empty line.
LEMMA WriteStep ==
    ASSUME TypeOK, NEW c \in Byte, Write(c), rx = <<>>, ecuRx = <<>>
    PROVE  /\ live /\ Len(rx') = 1 /\ rx'[1] = c
           /\ ecu.st = "idle" => ecuRx' = <<>>
           /\ ecu.st # "idle" => Len(ecuRx') = 1 /\ ecuRx'[1] = c
           /\ UNCHANGED <<addr, present, live, car, ecu, faults, changed>>
<1>1. Append(<<>>, c) = <<c>> /\ Len(<<c>>) = 1 /\ <<c>>[1] = c
  OBVIOUS
<1>2. /\ live /\ rx' = <<c>> /\ ecuRx' = IF ecu.st = "idle" THEN <<>> ELSE <<c>>
      /\ UNCHANGED <<addr, world>>
  BY <1>1 DEF Write
<1> QED BY <1>1, <1>2 DEF world

\* The acknowledgement goes to an ECU that waits for it, or that is gone.
LEMMA WriteAckInStep ==
    ASSUME TypeOK, SessionInv, InStep, WriteAck
    PROVE  InStep'
<1>1. /\ pc \in {"key", "recv"} /\ step = "write" /\ Write(sent) /\ pc' = pc
      /\ step' = "echo" /\ UNCHANGED <<pos, sent, buf, item, counter>>
  BY DEF WriteAck, Goto, globals
<1>2. live /\ ~addr /\ ~Stuck
  BY <1>1 DEF Write, InStep, InExchange, KeyInStep, Stuck, Reading
<1>3. sent \in Byte /\ Neg(Neg(sent)) = sent
  BY Types, ProtocolBytes
<1>4. CASE pc = "key"
  <2>1. rx = <<>> /\ ecuRx = <<>> /\ (ecu.st = "idle" \/ KeyEcu)
    BY <1>1, <1>2, <1>4 DEF InStep, InExchange, KeyInStep, KeySync
  <2>2. /\ Len(rx') = 1 /\ UNCHANGED <<addr, present, live, ecu>>
        /\ ecu.st = "idle" => ecuRx' = <<>>
        /\ ecu.st # "idle" => Len(ecuRx') = 1
    BY <1>1, <1>3, <2>1, WriteStep
  <2>3. CASE ecu.st = "idle"
    <3>1. Len(rx') = 1 /\ Coming' = 0 /\ Needs' = 2 /\ Len(ecuRx') = 0
      BY <1>1, <2>2, <2>3 DEF Coming, Needs
    <3>2. Stuck'
      BY <1>1, <1>4, <2>2, <2>3, <3>1 DEF Stuck, Reading
    <3> QED BY <1>1, <1>2, <1>4, <2>2, <3>2, StaysInStep DEF InExchange, KeyInStep
  <2>4. CASE KeyEcu
    <3>1. item = 0
      BY <1>4 DEF SessionInv, ReadyBeforeRequest
    <3>2. Woken(1)'
      BY <1>1, <2>2, <2>4, <3>1 DEF Woken, KeyEcu
    <3>3. KeyInStep'
      BY <1>1, <1>2, <2>2, <3>2 DEF KeyInStep, KeySync
    <3> QED BY <1>1, <1>4, <2>2, <3>3, StaysInStep DEF InExchange
  <2> QED BY <2>1, <2>3, <2>4
<1>5. CASE pc = "recv"
  <2>1. /\ Doubtful /\ rx = <<>> /\ ecuRx = <<>>
        /\ ecu.st = "idle" \/ (ecu.st = "hear" /\ ecu.ctr = counter)
    BY <1>1, <1>2, <1>5 DEF InStep, InExchange, RecvSync
  <2>2. /\ Len(rx') = 1 /\ UNCHANGED <<addr, present, live, ecu, changed>>
        /\ ecu.st = "idle" => ecuRx' = <<>>
        /\ ecu.st # "idle" => Len(ecuRx') = 1 /\ ecuRx'[1] = sent
    BY <1>1, <1>3, <2>1, WriteStep
  <2>3. Taken' = Taken /\ Taken = Append(buf, Neg(sent))
    BY <1>1, <1>5 DEF Taken
  <2>4. Doubtful'
    BY <1>1, <2>1, <2>2, <2>3 DEF Doubtful, BlockOK, AskedRight, RequestedGroup, Agree
  <2>5. CASE ecu.st = "idle"
    <3>1. Len(rx') = 1 /\ Coming' = 0 /\ Needs' = 2 /\ Len(ecuRx') = 0
      BY <1>1, <2>2, <2>5 DEF Coming, Needs
    <3>2. Stuck'
      BY <1>1, <1>5, <2>2, <2>4, <2>5, <3>1 DEF Stuck, Reading, Doubtful
    <3> QED BY <1>1, <1>2, <1>5, <2>2, <3>2, StaysInStep DEF InExchange
  <2>6. CASE ecu.st = "hear" /\ ecu.ctr = counter
    <3>1. Taken[Len(Taken)] = Neg(sent)
      <4>1. Neg(sent) \in Byte /\ buf \in Seq(Byte)
        BY <1>3, Types, ProtocolBytes
      <4> QED BY <2>3, <4>1, AppendOf
    <3>2. ecu.at = Len(Taken) /\ ecu.blk[ecu.at] \in Byte
      <4>1. ecu.at = Len(Taken) /\ ecu.at \in 1..Len(ecu.blk) - 1
        BY <2>1 DEF Doubtful
      <4>2. ecu.blk \in Seq(Byte) /\ Len(ecu.blk) \in Nat
        BY Types
      <4>3. ecu.at \in 1..Len(ecu.blk)
        BY <4>1, <4>2
      <4> QED BY <4>1, <4>2, <4>3
    <3>3. sent = Neg(ecu.blk[ecu.at]) => Taken[ecu.at] = ecu.blk[ecu.at]
      BY <3>1, <3>2, ProtocolBytes
    <3>4. Unacked(1)'
      BY <1>1, <2>2, <2>3, <2>4, <2>6, <3>3 DEF Unacked
    <3>5. RecvSync'
      BY <1>1, <3>4 DEF RecvSync
    <3> QED BY <1>1, <1>2, <1>5, <2>2, <3>5, StaysInStep DEF InExchange
  <2> QED BY <2>1, <2>5, <2>6
<1> QED BY <1>1, <1>4, <1>5

\* The echo of an acknowledgement is read: what follows it is one place nearer.
LEMMA EchoRead ==
    ASSUME TypeOK, live, NEW S, Read(S), step = "echo", step' = "read", pc' = "recv",
           Taken' = Taken, UNCHANGED <<item, counter>>
    PROVE  /\ Stuck => Stuck'
           /\ Acked(1) => Acked(0)'
           /\ Unacked(1) => Unacked(0)'
<1>1. /\ Len(rx) >= 1 /\ Len(rx') = Len(rx) - 1 /\ Len(rx) \in Nat
      /\ Len(rx) >= 2 => rx'[1] = rx[2]
      /\ UNCHANGED <<ecuRx, addr, present, live, ecu, changed>>
  BY ReadStep, Types
<1>2. ASSUME Stuck
      PROVE  Stuck'
  <2>1. Needs = 2 /\ Needs' = 1 /\ Coming' = Coming /\ Coming \in {0, 1}
    BY <1>1 DEF Needs, Coming
  <2>2. Len(rx') + Coming' < Needs'
    <3>1. Len(rx) + Coming < 2
      BY <1>2, <2>1 DEF Stuck
    <3> QED BY <1>1, <2>1, <3>1
  <2> QED BY <1>1, <1>2, <2>2 DEF Stuck, Reading
<1>3. ASSUME Acked(1)
      PROVE  Acked(0)'
  <2>1. /\ (ecuRx = <<>>)' /\ BlockOK(ecu.blk)' /\ AskedRight'
        /\ (ecu.at = Len(Taken) + 1)' /\ (ecu.at <= Len(ecu.blk))' /\ Agree(Len(Taken))'
    BY <1>1, <1>3 DEF Acked, BlockOK, AskedRight, RequestedGroup, Agree
  <2>2. CASE ecu.st = "say" /\ Len(rx) = 1 /\ ecu.ctr = counter
    BY <1>1, <2>1, <2>2 DEF Acked
  <2>3. CASE /\ Len(rx) = 2 /\ (~changed => rx[2] = ecu.blk[ecu.at])
             /\ \/ ecu.st = "idle"
                \/ ecu.st = "hear" /\ ecu.at < Len(ecu.blk) /\ ecu.ctr = counter
                \/ /\ ecu.st = "listen" /\ ecu.at = Len(ecu.blk) /\ ecu.in = <<>>
                   /\ ecu.ctr = NextNumber(counter)
    <3>1. Len(rx') = 1 /\ rx'[1] = rx[2]
      BY <1>1, <2>3
    <3> QED BY <1>1, <2>1, <2>3, <3>1 DEF Acked
  <2> QED BY <1>3, <2>2, <2>3 DEF Acked
<1>4. ASSUME Unacked(1)
      PROVE  Unacked(0)'
  <2>1. Doubtful'
    BY <1>1, <1>4 DEF Unacked, Doubtful, BlockOK, AskedRight, RequestedGroup, Agree
  <2>2. Len(rx') = 0
    BY <1>1, <1>4 DEF Unacked
  <2> QED BY <1>1, <1>4, <2>1, <2>2 DEF Unacked
<1> QED BY <1>2, <1>3, <1>4

\* The third key byte is acknowledged: the identification begins.
LEMMA TakeKeyInStep ==
    ASSUME TypeOK, InStep, TakeKey
    PROVE  InStep'
<1>1. /\ pc = "key" /\ step = "echo" /\ Read({sent}) /\ pc' = "recv" /\ step' = "read"
      /\ buf' = <<>> /\ UNCHANGED <<item, counter>>
  BY DEF TakeKey, Goto
<1>2. UNCHANGED <<ecuRx, addr, present, live, ecu>>
  BY <1>1, ReadWorld
<1>3. ASSUME live
      PROVE  InExchange'
  <2>1. ~addr /\ (Stuck \/ Woken(1) \/ Acked(1))
    BY <1>1, <1>3 DEF InStep, InExchange, KeyInStep, KeySync
  <2>2. Taken = <<>> /\ Taken' = Taken
    BY <1>1 DEF Taken
  <2>3. (Stuck => Stuck') /\ (Acked(1) => Acked(0)')
    BY <1>1, <1>3, <2>2, EchoRead
  <2>4. Woken(1) => Woken(0)'
    <3>1. Len(rx') = Len(rx) - 1
      BY <1>1, <1>3, ReadStep
    <3> QED BY <1>1, <1>2, <3>1 DEF Woken, KeyEcu
  <2> QED BY <1>1, <1>2, <2>1, <2>3, <2>4 DEF InExchange, RecvSync
<1> QED BY <1>1, <1>2, <1>3, StaysInStep

\* The byte joins the block.
LEMMA TakeByteInStep ==
    ASSUME TypeOK, InStep, TakeByte
    PROVE  InStep'
<1>1. /\ pc = "recv" /\ step = "echo" /\ Read({sent}) /\ pc' = "recv" /\ step' = "read"
      /\ buf' = Append(buf, Neg(sent)) /\ UNCHANGED <<item, counter>>
  BY DEF TakeByte, Goto, Store
<1>2. UNCHANGED <<ecuRx, addr, present, live, ecu>>
  BY <1>1, ReadWorld
<1>3. ASSUME live
      PROVE  InExchange'
  <2>1. ~addr /\ (Stuck \/ Unacked(1) \/ Acked(1))
    BY <1>1, <1>3 DEF InStep, InExchange, RecvSync
  <2>2. Taken' = Taken
    BY <1>1 DEF Taken
  <2>3. (Stuck => Stuck') /\ (Acked(1) => Acked(0)') /\ (Unacked(1) => Unacked(0)')
    BY <1>1, <1>3, <2>2, EchoRead
  <2> QED BY <1>1, <1>2, <2>1, <2>3 DEF InExchange, RecvSync
<1> QED BY <1>1, <1>2, <1>3, StaysInStep

-----------------------------------------------------------------------------
(* The end of a block.                                                      *)

\* Whoever gets a byte behind a complete block has the ECU's whole block, and
\* the ECU has said all of it.
LEMMA BlockEndThere ==
    ASSUME TypeOK, InStep, live, AtBlockEnd, rx # <<>>
    PROVE  /\ ~addr /\ Len(rx) = 1 /\ ecuRx = <<>>
           /\ ecu.blk = buf \o <<END>>
           /\ \/ ecu.st = "idle"
              \/ ecu.st = "listen" /\ ecu.in = <<>> /\ ecu.ctr = NextNumber(counter)
<1>1. pc = "recv" /\ step = "read" /\ Len(buf) >= 3 /\ Len(buf) = buf[1]
  BY DEF AtBlockEnd, Complete
<1>2. /\ Len(rx) \in Nat /\ Len(rx) # 0 /\ Len(buf) \in Nat /\ Len(ecu.blk) \in Nat
      /\ buf \in Seq(Byte) /\ ecu.blk \in Seq(Byte)
  BY Types, Empty
<1>3. ~Stuck
  <2>1. Needs = 1 /\ Coming \in {0, 1}
    BY <1>1 DEF Needs, Coming
  <2> QED BY <1>2, <2>1 DEF Stuck
<1>4. ~addr /\ Acked(0)
  BY <1>1, <1>2, <1>3 DEF InStep, InExchange, RecvSync, Unacked, Woken, Ended, Offered
<1>5. /\ Taken = buf /\ ecu.at = Len(buf) + 1 /\ BlockOK(ecu.blk)
      /\ \A i \in 1..Len(buf) : buf[i] = ecu.blk[i]
  BY <1>1, <1>4 DEF Acked, Taken, Agree
<1>6. Len(ecu.blk) = Len(buf) + 1
  <2>1. 1 \in 1..Len(buf)
    BY <1>1, <1>2
  <2>2. ecu.blk[1] = Len(buf)
    BY <1>1, <1>5, <2>1
  <2>3. ecu.blk[1] = Len(ecu.blk) - 1
    BY <1>5 DEF BlockOK
  <2> QED BY <1>2, <2>2, <2>3
<1>7. ecu.blk = buf \o <<END>>
  <2>1. buf \o <<END>> = Append(buf, END) /\ END \in Byte
    BY <1>2, ProtocolBytes
  <2>2. /\ Append(buf, END) \in Seq(Byte) /\ Len(Append(buf, END)) = Len(buf) + 1
        /\ Append(buf, END)[Len(buf) + 1] = END
        /\ \A i \in 1..Len(buf) : Append(buf, END)[i] = buf[i]
    BY <1>2, <2>1, AppendOf
  <2>3. ecu.blk[Len(buf) + 1] = END
    BY <1>5, <1>6 DEF BlockOK
  <2>4. ASSUME NEW i \in 1..Len(buf) + 1
        PROVE  ecu.blk[i] = Append(buf, END)[i]
    <3>1. i \in 1..Len(buf) \/ i = Len(buf) + 1
      BY <1>2
    <3> QED BY <1>5, <2>2, <2>3, <3>1
  <2>5. ecu.blk = Append(buf, END)
    BY <1>2, <1>6, <2>2, <2>4
  <2> QED BY <2>1, <2>5
<1>8. ~(ecu.at < Len(ecu.blk))
  BY <1>2, <1>5, <1>6
<1> QED BY <1>2, <1>4, <1>7, <1>8, NextByteThere DEF Acked

\* The tester has taken the ECU's block, and may send its own.
LEMMA EndBlockInStep ==
    ASSUME TypeOK, InStep, EndBlock, NEW i, BeginSend(i)
    PROVE  InStep'
<1>1. /\ AtBlockEnd /\ Read({END}) /\ counter' = NextNumber(counter)
      /\ pc' = "send" /\ step' = "write" /\ pos' = 1 /\ buf' = <<>>
  BY DEF EndBlock, BeginSend, Goto, IncCounter, NextNumber
<1>2. UNCHANGED <<ecuRx, addr, present, live, ecu>>
  BY <1>1, ReadWorld
<1>3. ASSUME live
      PROVE  InExchange'
  <2>1. rx # <<>> /\ Len(rx') = Len(rx) - 1 /\ rx' \in Seq(Byte)
    BY <1>1, <1>3, ReadStep
  <2>2. /\ ~addr /\ Len(rx) = 1 /\ ecuRx = <<>>
        /\ \/ ecu.st = "idle"
           \/ ecu.st = "listen" /\ ecu.in = <<>> /\ ecu.ctr = NextNumber(counter)
    BY <1>1, <1>3, <2>1, BlockEndThere
  <2>3. rx' = <<>>
    BY <2>1, <2>2, Empty
  <2>4. Numbers'
    BY <1>1, <1>2, <2>2 DEF Numbers
  <2>5. ecu.st = "listen" => Len(ecu.in) = 0
    BY <2>2
  <2>6. Heard(0)'
    BY DEF Heard
  <2>7. SendSync'
    BY <1>1, <1>2, <2>2, <2>3, <2>4, <2>5, <2>6 DEF SendSync
  <2> QED BY <1>1, <1>2, <2>2, <2>7 DEF InExchange
<1> QED BY <1>1, <1>2, <1>3, StaysInStep

\* However the block ends, if the session goes on.
LEMMA BlockDoneInStep ==
    ASSUME TypeOK, InStep, IdentBlockDone \/ IdentDone \/ AnswerDone
    PROVE  InStep'
BY EndBlockInStep DEF IdentBlockDone, IdentDone, AnswerDone

-----------------------------------------------------------------------------
(* The steps of the tester that send a block.                               *)

\* The bytes of a block, but its number, stay the same while it is sent.
LEMMA OutgoingSame ==
    ASSUME UNCHANGED item
    PROVE  /\ LastPos' = LastPos
           /\ \A p \in Nat : p # 2 => Outgoing(p)' = Outgoing(p)
           /\ \A n \in Nat : Heard(n) /\ UNCHANGED ecu => Heard(n)'
<1>1. LastPos' = LastPos /\ RequestedGroup' = RequestedGroup
  BY DEF LastPos, RequestedGroup
<1>2. \A p \in Nat : p # 2 => Outgoing(p)' = Outgoing(p)
  BY <1>1 DEF Outgoing
<1>3. \A n \in Nat : Heard(n) /\ UNCHANGED ecu => Heard(n)'
  BY <1>2 DEF Heard
<1> QED BY <1>1, <1>2, <1>3

\* A byte goes to an ECU that waits for it, or that is gone.
LEMMA SendByteInStep ==
    ASSUME TypeOK, InStep, SendByte
    PROVE  InStep'
<1>1. /\ pc = "send" /\ step = "write" /\ Write(Outgoing(pos)) /\ sent' = Outgoing(pos)
      /\ pc' = "send" /\ step' = "echo" /\ UNCHANGED <<pos, buf, item>>
      /\ counter' = IF pos = 2 THEN NextNumber(counter) ELSE counter
  BY DEF SendByte, Goto, CounterAfter, IncCounter, NextNumber
<1>2. Outgoing(pos) \in Byte /\ pos \in Nat /\ pos >= 1
  BY OutgoingType, Types DEF TypeOK
<1>3. live /\ ~addr /\ ~Stuck /\ buf = <<>>
  BY <1>1 DEF Write, InStep, InExchange, Started, Stuck, Reading
<1>4. /\ rx = <<>> /\ ecuRx = <<>> /\ Numbers
      /\ \/ ecu.st = "idle"
         \/ ecu.st = "listen" /\ Len(ecu.in) = pos - 1 /\ Heard(pos - 1)
  BY <1>1, <1>3 DEF InStep, InExchange, SendSync
<1>5. /\ Len(rx') = 1 /\ UNCHANGED <<addr, present, live, ecu>>
      /\ ecu.st = "idle" => ecuRx' = <<>>
      /\ ecu.st # "idle" => Len(ecuRx') = 1 /\ ecuRx'[1] = sent'
  BY <1>1, <1>2, <1>4, WriteStep
<1>6. CASE ecu.st = "idle"
  <2>1. Len(rx') = 1 /\ Coming' = 0 /\ Needs' = 2 /\ Len(ecuRx') = 0
    BY <1>1, <1>5, <1>6 DEF Coming, Needs
  <2>2. Stuck'
    BY <1>1, <1>5, <1>6, <2>1 DEF Stuck, Reading
  <2> QED BY <1>1, <1>3, <1>5, <2>2, StaysInStep DEF InExchange
<1>7. CASE ecu.st = "listen" /\ Len(ecu.in) = pos - 1 /\ Heard(pos - 1)
  <2>1. Heard(pos - 1)'
    <3>1. pos - 1 \in Nat /\ (pos - 1)' = pos - 1
      BY <1>1, <1>2
    <3> QED BY <1>1, <1>5, <1>7, <3>1, OutgoingSame
  <2>2. Offered(pos, 1)'
    BY <1>1, <1>5, <1>7, <2>1 DEF Offered
  <2>3. pos # 2 => sent' = Outgoing(pos)'
    BY <1>1, <1>2, OutgoingSame
  <2>4. Numbers'
    <3>1. CASE pos = 1
      BY <1>1, <1>4, <1>5, <1>7, <3>1 DEF Numbers
    <3>2. CASE pos = 2
      BY <1>1, <1>4, <1>5, <1>7, <3>2 DEF Numbers
    <3>3. CASE pos # 1 /\ pos # 2
      BY <1>1, <1>4, <1>5, <1>7, <3>3 DEF Numbers
    <3> QED BY <3>1, <3>2, <3>3
  <2>5. SendSync'
    BY <1>1, <1>5, <1>7, <2>2, <2>3, <2>4 DEF SendSync, Echoes
  <2> QED BY <1>1, <1>3, <1>5, <2>5, StaysInStep DEF InExchange
<1> QED BY <1>4, <1>6, <1>7

\* Its echo is read.
LEMMA SendEchoOkInStep ==
    ASSUME TypeOK, InStep, SendEchoOk
    PROVE  InStep'
<1>1. /\ pc = "send" /\ step = "echo" /\ Read({sent}) /\ UNCHANGED <<buf, item, counter>>
      /\ \/ pos = LastPos /\ pc' = "recv" /\ step' = "read"
         \/ pos # LastPos /\ pc' = "send" /\ step' = "ack" /\ UNCHANGED <<pos, sent>>
  BY DEF SendEchoOk, Goto, globals
<1>2. UNCHANGED <<ecuRx, addr, present, live, ecu, changed>>
  BY <1>1, ReadWorld
<1>3. buf = <<>> /\ pos \in 1..LastPos /\ LastPos \in {4, 5} /\ pos \in Nat
  BY <1>1, Types DEF InStep, Started
<1>4. ASSUME live
      PROVE  InExchange'
  <2>1. /\ Len(rx) >= 1 /\ Len(rx') = Len(rx) - 1 /\ Len(rx) \in Nat
        /\ Len(rx) >= 2 => rx'[1] = rx[2]
    BY <1>1, <1>4, ReadStep, Types
  <2>2. ~addr /\ (Stuck \/ SendSync)
    BY <1>1, <1>4 DEF InStep, InExchange
  <2>3. CASE Stuck
    <3>1. Needs = 2 /\ Needs' = 1 /\ Coming' = Coming /\ Coming \in {0, 1}
      BY <1>1, <1>2 DEF Needs, Coming
    <3>2. Len(rx') + Coming' < Needs'
      <4>1. Len(rx) + Coming < 2
        BY <2>3, <3>1 DEF Stuck
      <4> QED BY <2>1, <3>1, <4>1
    <3>3. Stuck'
      BY <1>1, <1>2, <2>3, <3>2 DEF Stuck, Reading
    <3> QED BY <1>1, <1>2, <2>2, <3>3 DEF InExchange
  <2>4. CASE Offered(pos, 1) /\ Numbers /\ (~changed => ecuRx[1] = sent) /\ (pos # 2 => sent = Outgoing(pos))
    <3>1. Len(rx') = 0
      BY <2>1, <2>4 DEF Offered
    <3>2. CASE pos = LastPos
      <4>1. LastPos' = LastPos /\ Heard(LastPos - 1)'
        <5>1. LastPos - 1 \in Nat /\ (LastPos - 1)' = LastPos - 1
          BY <1>1, <1>3, OutgoingSame
        <5> QED BY <1>1, <1>2, <2>4, <3>2, <5>1, OutgoingSame DEF Offered
      <4>2. Offered(LastPos, 0)'
        BY <1>2, <2>4, <3>1, <3>2, <4>1 DEF Offered
      <4>3. NextNumber(ecu.ctr) = counter
        <5>1. pos # 1 /\ pos # 2
          BY <1>3, <3>2
        <5> QED BY <2>4, <5>1 DEF Numbers, Offered
      <4>4. Ended'
        BY <1>1, <1>2, <1>3, <4>2, <4>3 DEF Ended
      <4> QED BY <1>1, <1>2, <2>2, <3>2, <4>4 DEF InExchange, RecvSync
    <3>3. CASE pos # LastPos
      <4>1. Heard(pos - 1)'
        <5>1. pos - 1 \in Nat /\ (pos - 1)' = pos - 1
          BY <1>1, <1>3, <3>3
        <5> QED BY <1>1, <1>2, <2>4, <5>1, OutgoingSame DEF Offered
      <4>2. Offered(pos, 0)'
        BY <1>1, <1>2, <2>4, <3>1, <3>3, <4>1 DEF Offered
      <4>3. pos # 2 => sent' = Outgoing(pos)'
        BY <1>1, <1>3, <2>4, <3>3, OutgoingSame
      <4>4. Numbers'
        BY <1>1, <1>2, <2>4, <3>3 DEF Numbers
      <4>5. SendSync'
        BY <1>1, <1>2, <2>4, <3>3, <4>2, <4>3, <4>4 DEF SendSync, Echoes
      <4> QED BY <1>1, <1>2, <2>2, <3>3, <4>5 DEF InExchange
    <3> QED BY <3>2, <3>3
  <2>5. CASE Confirmed(1) /\ Numbers /\ (pos # 2 => sent = Outgoing(pos))
    <3>1. pos # LastPos /\ Len(rx') = 1 /\ rx'[1] = rx[2] /\ ecuRx = <<>>
      BY <1>3, <2>1, <2>5 DEF Confirmed
    <3>2. LastPos' = LastPos /\ (Heard(pos - 1) => Heard(pos - 1)')
      <4>1. pos - 1 \in Nat /\ (pos - 1)' = pos - 1
        BY <1>1, <1>3, <3>1
      <4> QED BY <1>1, <1>2, <4>1, OutgoingSame
    <3>3. Confirmed(0)'
      BY <1>1, <1>2, <2>5, <3>1, <3>2 DEF Confirmed
    <3>4. pos # 2 => sent' = Outgoing(pos)'
      BY <1>1, <1>3, <2>5, <3>1, OutgoingSame
    <3>5. Numbers'
      BY <1>1, <1>2, <2>5, <3>1 DEF Numbers
    <3>6. SendSync'
      BY <1>1, <3>1, <3>3, <3>4, <3>5 DEF SendSync, Echoes
    <3> QED BY <1>1, <1>2, <2>2, <3>1, <3>6 DEF InExchange
  <2>6. CASE pos = LastPos /\ Acked(1)
    <3>1. Taken = <<>> /\ Taken' = Taken
      BY <1>1, <1>3, <2>6 DEF Taken
    <3>2. Acked(0)'
      BY <1>1, <1>4, <2>6, <3>1, EchoRead
    <3> QED BY <1>1, <1>2, <2>2, <2>6, <3>2 DEF InExchange, RecvSync
  <2> QED BY <1>1, <2>2, <2>3, <2>4, <2>5, <2>6 DEF SendSync, Echoes
<1> QED BY <1>1, <1>2, <1>3, <1>4, StaysInStep

\* The ECU has heard the byte it acknowledges.
LEMMA SendAckOkInStep ==
    ASSUME TypeOK, InStep, SendAckOk
    PROVE  InStep'
<1>1. /\ pc = "send" /\ step = "ack" /\ Read({Neg(sent)}) /\ UNCHANGED <<buf, item, counter>>
      /\ pc' = "send" /\ step' = "write" /\ pos' = pos + 1
  BY DEF SendAckOk, Goto, globals
<1>2. UNCHANGED <<ecuRx, addr, present, live, ecu, changed>>
  BY <1>1, ReadWorld
<1>3. buf = <<>> /\ pos \in Nat /\ pos >= 1
  BY <1>1, Types DEF InStep, Started
<1>4. ASSUME live
      PROVE  InExchange'
  <2>1. /\ Len(rx) >= 1 /\ Len(rx') = Len(rx) - 1 /\ Len(rx) \in Nat
        /\ rx[1] = Neg(sent) /\ rx' \in Seq(Byte)
    <3>1. /\ Len(rx) >= 1 /\ Len(rx') = Len(rx) - 1 /\ rx' \in Seq(Byte)
          /\ rx[1] \in {Neg(sent)}
      BY <1>1, <1>4, ReadStep
    <3> QED BY <3>1, Types
  <2>2. ~Stuck
    <3>1. Needs = 1 /\ Coming \in {0, 1}
      BY <1>1 DEF Needs, Coming
    <3> QED BY <2>1, <3>1 DEF Stuck
  <2>3. ~addr /\ SendSync
    BY <1>1, <1>4, <2>2 DEF InStep, InExchange
  <2>4. Confirmed(0) /\ Numbers /\ (pos # 2 => sent = Outgoing(pos))
    BY <1>1, <2>1, <2>3 DEF SendSync, Offered, Echoes
  <2>5. rx' = <<>> /\ ecuRx' = <<>>
    BY <1>2, <2>1, <2>4, Empty DEF Confirmed
  <2>6. ASSUME ecu.st = "listen"
        PROVE  (Len(ecu.in) = pos - 1 /\ Heard(pos - 1))'
    <3>1. Len(ecu.in) = pos /\ Heard(pos - 1) /\ ecu.in[pos] = sent
      BY <2>1, <2>4, <2>6 DEF Confirmed
    <3>2. Heard(pos)
      <4>1. \A p \in 1..pos : p \in 1..pos - 1 \/ p = pos
        BY <1>3
      <4> QED BY <2>4, <3>1, <4>1 DEF Heard
    <3>3. (pos - 1)' = pos
      BY <1>1, <1>3
    <3>4. (\A p \in 1..pos : p # 2 => ecu.in[p] = Outgoing(p))
            => (\A p \in 1..pos : p # 2 => ecu.in[p] = Outgoing(p)')
      <4>1. \A p \in 1..pos : p \in Nat
        BY <1>3
      <4> QED BY <1>1, <4>1, OutgoingSame
    <3> QED BY <1>2, <3>1, <3>2, <3>3, <3>4 DEF Heard
  <2>7. Numbers'
    <3>1. pos' # 1 /\ (pos' = 2 <=> pos = 1)
      BY <1>1, <1>3
    <3> QED BY <1>1, <1>2, <2>4, <3>1 DEF Numbers
  <2>8. ecu.st = "idle" \/ ecu.st = "listen"
    BY <2>4 DEF Confirmed
  <2>9. SendSync'
    BY <1>1, <1>2, <2>5, <2>6, <2>7, <2>8 DEF SendSync
  <2> QED BY <1>1, <1>2, <2>3, <2>9 DEF InExchange
<1> QED BY <1>1, <1>2, <1>3, <1>4, StaysInStep

\* Every step of the tester keeps the two ends in step.
LEMMA TesterInStep ==
    ASSUME TypeOK, SessionInv, InStep, TesterNext
    PROVE  InStep'
<1>1. CASE Open \/ InitBegin \/ HardError \/ SendAddress \/ Flush
  BY <1>1, OpenInStep, AddressInStep, FlushInStep
<1>2. CASE ReadKeyByte \/ ReadByte \/ WriteAck \/ TakeKey \/ TakeByte
  BY <1>2, ReadKeyByteInStep, ReadByteInStep, WriteAckInStep, TakeKeyInStep, TakeByteInStep
<1>3. CASE FlushFails \/ CounterWrong \/ EchoWrong \/ BlockEndWrong \/ UnknownEcu
           \/ SendAckWrong \/ WriteFails \/ ReadTimeout
  BY <1>3, ErrorInStep
<1>4. CASE IdentBlockDone \/ IdentDone \/ AnswerDone
  BY <1>4, BlockDoneInStep
<1>5. CASE SendByte \/ SendEchoOk \/ SendAckOk
  BY <1>5, SendByteInStep, SendEchoOkInStep, SendAckOkInStep
<1> QED BY <1>1, <1>2, <1>3, <1>4, <1>5 DEF TesterNext

-----------------------------------------------------------------------------
(* The steps of the ECU and of the line.                                    *)

\* An exchange with an ECU that is awake, and in order.
Inside == pc \in {"key", "recv", "send"} /\ ~addr

Sync ==
    \/ pc = "key" /\ KeySync
    \/ pc = "recv" /\ RecvSync
    \/ pc = "send" /\ SendSync

\* What an exchange that is not stuck leaves for a loss to take.
LEMMA InsideIs ==
    ASSUME InStep, live, Inside
    PROVE  Stuck \/ Sync
BY DEF InStep, InExchange, KeyInStep, Inside, Sync

\* What has to be shown of a step that the tester does not see.
LEMMA UnseenStays ==
    ASSUME InStep, UNCHANGED <<tester, present, live>>, addr' => addr,
           live /\ pc = "flush" => (addr \/ Quiet)',
           live /\ pc = "key" /\ addr' => rx' = <<>>,
           live /\ Inside' => (Stuck \/ Sync)'
    PROVE  InStep'
<1>1. pc' = pc /\ step' = step /\ buf' = buf /\ live' = live /\ present' = present
  BY DEF tester, control
<1>2. ASSUME live
      PROVE  InExchange'
  <2>1. pc = "key" => KeyInStep'
    BY <1>1, <1>2 DEF InStep, InExchange, KeyInStep, Inside, Sync
  <2>2. pc \in {"recv", "send"} => ~addr' /\ (Stuck \/ Sync)'
    BY <1>1, <1>2 DEF InStep, InExchange, Inside
  <2> QED BY <1>1, <1>2, <2>1, <2>2 DEF InExchange, Sync
<1> QED BY <1>1, <1>2 DEF InStep, Started

\* No more than the tester needs is on its way.
Full ==
    /\ Reading /\ Len(rx) + Coming <= Needs
    /\ Len(ecuRx) <= 1 /\ (ecu.st = "say" => ecuRx = <<>>)
    /\ pc = "recv" /\ step = "echo" =>
         AskedRight /\ (ecu.st = "listen" => ecuRx = <<>>)

\* A byte is said, or on its way, behind e echoes: there is one of it.
OneByte(e) ==
    Len(rx) + Coming = e + 1 /\ Len(ecuRx) <= 1 /\ (ecu.st = "say" => ecuRx = <<>>)

\* It is the one the tester waits for, or the one the ECU waits for.
LEMMA OneComing ==
    ASSUME TypeOK, NEW e \in {0, 1}
    PROVE  /\ Acked(e) => OneByte(e) /\ ecuRx = <<>> /\ AskedRight
           /\ Len(rx) = e /\ Len(ecuRx) = 1 /\ ecu.st # "say" => OneByte(e)
<1>1. Len(rx) \in Nat /\ (Len(ecuRx) = 0 <=> ecuRx = <<>>)
  BY Types, Empty
<1>2. ASSUME Acked(e)
      PROVE  OneByte(e) /\ ecuRx = <<>> /\ AskedRight
  <2>1. ecuRx = <<>> /\ AskedRight
    BY <1>2 DEF Acked
  <2>2. (ecu.st = "say" /\ Len(rx) = e) \/ (ecu.st # "say" /\ Len(rx) = e + 1)
    BY <1>2 DEF Acked
  <2>3. CASE ecu.st = "say" /\ Len(rx) = e
    <3>1. Coming = 1
      BY <2>3 DEF Coming
    <3> QED BY <1>1, <2>1, <2>3, <3>1 DEF OneByte
  <2>4. CASE ecu.st # "say" /\ Len(rx) = e + 1
    <3>1. Coming = 0
      BY <2>1, <2>4 DEF Coming
    <3> QED BY <1>1, <2>1, <2>4, <3>1 DEF OneByte
  <2> QED BY <2>2, <2>3, <2>4
<1>3. ASSUME Len(rx) = e, Len(ecuRx) = 1, ecu.st # "say"
      PROVE  OneByte(e)
  <2>1. Coming = 1
    BY <1>1, <1>3 DEF Coming
  <2> QED BY <1>1, <1>3, <2>1 DEF OneByte
<1> QED BY <1>2, <1>3

\* An exchange is full, or nothing is on the line.
LEMMA SyncIsFull ==
    ASSUME TypeOK, Stuck \/ Sync
    PROVE  \/ Full
           \/ step = "write" /\ rx = <<>> /\ ecuRx = <<>>
<1>1. CASE Stuck
  BY <1>1, Types DEF Stuck, Full, Needs, Coming
<1>2. CASE pc = "key" /\ KeySync
  <2>1. CASE /\ step = "read" /\ Len(buf) + Len(rx) = 3 /\ ecuRx = <<>>
             /\ ecu.st = "idle" \/ KeyEcu
    <3>1. Coming = 0 /\ Needs = 3 - Len(buf) /\ Len(ecuRx) = 0 /\ ecu.st # "say"
      BY <1>2, <2>1 DEF Coming, Needs, KeyEcu
    <3>2. Len(rx) + Coming <= Needs
      BY <2>1, <3>1, Types
    <3> QED BY <1>2, <2>1, <3>1, <3>2 DEF Full, Reading, OneByte
  <2>2. CASE step = "echo" /\ (Woken(1) \/ Acked(1))
    <3>1. Needs = 2
      BY <2>2 DEF Needs
    <3>2. OneByte(1)
      BY <2>2, OneComing DEF Woken, KeyEcu
    <3> QED BY <1>2, <2>2, <3>1, <3>2 DEF Full, Reading, OneByte
  <2> QED BY <1>2, <2>1, <2>2 DEF KeySync
<1>3. CASE pc = "recv" /\ RecvSync
  <2>1. CASE step = "read" /\ (Unacked(0) \/ Acked(0) \/ Woken(0) \/ Ended)
    <3>1. Needs = 1
      BY <1>3, <2>1 DEF Needs
    <3>2. OneByte(0)
      BY <2>1, OneComing DEF Unacked, Woken, KeyEcu, Ended, Offered
    <3> QED BY <1>3, <2>1, <3>1, <3>2 DEF Full, Reading, OneByte
  <2>2. CASE step = "echo" /\ (Unacked(1) \/ Acked(1))
    <3>1. Needs = 2
      BY <2>2 DEF Needs
    <3>2. /\ OneByte(1)
          /\ AskedRight /\ (ecu.st = "listen" => ecuRx = <<>>)
      BY <2>2, OneComing DEF Unacked, Doubtful
    <3> QED BY <1>3, <2>2, <3>1, <3>2 DEF Full, Reading, OneByte
  <2> QED BY <1>3, <2>1, <2>2 DEF RecvSync
<1>4. CASE pc = "send" /\ SendSync
  <2>1. CASE step = "echo" /\ (Offered(pos, 1) \/ Confirmed(1) \/ Acked(1))
    <3>1. Needs = 2
      BY <2>1 DEF Needs
    <3>2. CASE Confirmed(1)
      <4>1. Coming = 0 /\ Len(rx) = 2 /\ Len(ecuRx) = 0 /\ ecu.st # "say"
        BY <3>2 DEF Confirmed, Coming
      <4> QED BY <1>4, <2>1, <3>1, <4>1 DEF Full, Reading, OneByte
    <3>3. CASE Offered(pos, 1) \/ Acked(1)
      <4>1. OneByte(1)
        BY <3>3, OneComing DEF Offered
      <4> QED BY <1>4, <2>1, <3>1, <4>1 DEF Full, Reading, OneByte
    <3> QED BY <2>1, <3>2, <3>3
  <2>2. CASE step = "ack" /\ (Offered(pos, 0) \/ Confirmed(0))
    <3>1. Needs = 1
      BY <1>4, <2>2 DEF Needs
    <3>2. CASE Confirmed(0)
      <4>1. Coming = 0 /\ Len(rx) = 1 /\ Len(ecuRx) = 0 /\ ecu.st # "say"
        BY <3>2 DEF Confirmed, Coming
      <4> QED BY <1>4, <2>2, <3>1, <4>1 DEF Full, Reading, OneByte
    <3>3. CASE Offered(pos, 0)
      <4>1. OneByte(0)
        BY <3>3, OneComing DEF Offered
      <4> QED BY <1>4, <2>2, <3>1, <4>1 DEF Full, Reading, OneByte
    <3> QED BY <2>2, <3>2, <3>3
  <2> QED BY <1>4, <2>1, <2>2 DEF SendSync, Echoes
<1> QED BY <1>1, <1>2, <1>3, <1>4 DEF Sync

\* A byte is lost: both ends wait.
LEMMA LoseInStep ==
    ASSUME TypeOK, InStep, Lose, UNCHANGED tester
    PROVE  InStep'
<1>1. /\ UNCHANGED <<addr, present, live, ecu>>
      /\ \/ rx # <<>> /\ rx' = Tail(rx) /\ ecuRx' = ecuRx
         \/ ecuRx # <<>> /\ ecuRx' = Tail(ecuRx) /\ rx' = rx
  BY DEF Lose
<1>2. UNCHANGED <<pc, step, buf, item>>
  BY DEF tester, control
<1>3. Len(rx) \in Nat /\ Len(ecuRx) \in Nat
  BY Types
<1>4. ASSUME live, Inside
      PROVE  Stuck'
  <2>1. Full
    BY <1>1, <1>4, InsideIs, SyncIsFull
  <2>2. Needs' = Needs /\ Needs \in Int /\ Reading' = Reading
        /\ AskedRight' = AskedRight
    <3>1. Needs' = Needs /\ Reading' = Reading /\ AskedRight' = AskedRight
      BY <1>1, <1>2 DEF Needs, Reading, AskedRight, RequestedGroup
    <3>2. pc = "key" => 3 - Len(buf) \in Int
      BY Types
    <3> QED BY <3>1, <3>2 DEF Needs
  <2>3. CASE rx # <<>> /\ rx' = Tail(rx) /\ ecuRx' = ecuRx
    <3>1. Len(rx') = Len(rx) - 1 /\ Coming' = Coming /\ Coming \in {0, 1}
      BY <1>1, <2>3, TailOf, Types DEF Coming
    <3>2. Len(rx') + Coming' < Needs'
      BY <1>3, <2>1, <2>2, <3>1 DEF Full
    <3> QED BY <1>1, <1>2, <2>1, <2>2, <2>3, <3>2 DEF Full, Stuck
  <2>4. CASE ecuRx # <<>> /\ ecuRx' = Tail(ecuRx) /\ rx' = rx
    <3>1. Len(ecuRx') = 0 /\ ecuRx' = <<>>
      <4>1. Len(ecuRx') = Len(ecuRx) - 1 /\ Len(ecuRx) >= 1 /\ ecuRx' \in Seq(Byte)
        BY <2>4, TailOf, Types
      <4>2. Len(ecuRx) <= 1
        BY <2>1 DEF Full
      <4> QED BY <1>3, <4>1, <4>2, Empty
    <3>2. Coming = 1 /\ Coming' = 0
      BY <1>1, <2>1, <2>4, <3>1 DEF Coming, Full
    <3>3. Len(rx') + Coming' < Needs'
      BY <1>3, <2>1, <2>2, <2>4, <3>2 DEF Full
    <3> QED BY <1>1, <1>2, <2>1, <2>2, <3>1, <3>3 DEF Full, Stuck
  <2> QED BY <1>1, <2>3, <2>4
<1>5. pc = "flush" /\ live => (addr \/ Quiet)'
  BY <1>1, <1>2 DEF InStep, InExchange, Quiet
<1>6. pc = "key" /\ live /\ addr => rx' = <<>>
  BY <1>1, <1>2 DEF InStep, InExchange, KeyInStep
<1> QED BY <1>1, <1>2, <1>4, <1>5, <1>6, UnseenStays DEF Inside

\* A byte is changed, in an exchange no byte of which has been changed before:
\* what was said of unchanged bytes is known from the other end.
LEMMA GarbleInStep ==
    ASSUME TypeOK, InStep, Garble, UNCHANGED tester
    PROVE  InStep'
<1>1. /\ UNCHANGED <<addr, present, live, ecu>> /\ ~changed /\ changed'
      /\ UNCHANGED <<pc, step, pos, sent, buf, item, counter>>
  BY DEF Garble, tester, control, globals
<1>2. /\ Len(rx') = Len(rx) /\ Len(ecuRx') = Len(ecuRx)
      /\ rx = <<>> => rx' = <<>>
      /\ (ecuRx = <<>>) = (ecuRx' = <<>>)
  <2>1. PICK n \in Noise : \/ rx # <<>> /\ rx' = <<n>> \o Tail(rx) /\ ecuRx' = ecuRx
                           \/ ecuRx # <<>> /\ ecuRx' = <<n>> \o Tail(ecuRx) /\ rx' = rx
    BY DEF Garble
  <2>2. ASSUME NEW s \in Seq(Byte), s # <<>>
        PROVE  Len(<<n>> \o Tail(s)) = Len(s) /\ <<n>> \o Tail(s) # <<>>
    <3>1. Tail(s) \in Seq(Byte) /\ Len(Tail(s)) = Len(s) - 1 /\ Len(s) >= 1 /\ Len(s) \in Nat
      BY <2>2, TailOf, Empty
    <3>2. <<n>> \in Seq(Byte) /\ Len(<<n>>) = 1
      BY LineAssumption, Tuples
    <3>3. Len(<<n>> \o Tail(s)) = 1 + Len(Tail(s)) /\ <<n>> \o Tail(s) \in Seq(Byte)
      BY <3>1, <3>2
    <3> QED BY <3>1, <3>3, Empty
  <2> QED BY <2>1, <2>2, Types
<1>3. Taken' = Taken /\ Coming' = Coming /\ Needs' = Needs /\ Reading' = Reading
      /\ Echoes' = Echoes
  BY <1>1, <1>2 DEF Taken, Coming, Needs, Reading, Echoes
<1>4. Stuck => Stuck'
  BY <1>1, <1>2, <1>3 DEF Stuck, AskedRight, RequestedGroup
<1>5. ASSUME NEW e \in {0, 1}
      PROVE  /\ Acked(e) => Acked(e)'
             /\ Unacked(e) => Unacked(e)'
             /\ Woken(e) => Woken(e)'
             /\ Confirmed(e) => Confirmed(e)'
             /\ \A p \in Nat \ {0} : Offered(p, e) => Offered(p, e)'
  <2>1. Acked(e) => Acked(e)'
    BY <1>1, <1>2, <1>3 DEF Acked, BlockOK, AskedRight, RequestedGroup, Agree
  <2>2. Unacked(e) => Unacked(e)'
    BY <1>1, <1>2, <1>3 DEF Unacked, Doubtful, BlockOK, AskedRight, RequestedGroup, Agree
  <2>3. Woken(e) => Woken(e)'
    BY <1>1, <1>2 DEF Woken, KeyEcu
  <2>4. Confirmed(e) => Confirmed(e)'
    BY <1>1, <1>2 DEF Confirmed, Heard, Outgoing, LastPos, RequestedGroup
  <2>5. \A p \in Nat \ {0} : Offered(p, e) => Offered(p, e)'
    BY <1>1, <1>2 DEF Offered, Heard, Outgoing, LastPos, RequestedGroup
  <2> QED BY <2>1, <2>2, <2>3, <2>4, <2>5
<1>6. Sync => Sync'
  <2>1. KeySync => KeySync'
    BY <1>1, <1>2, <1>5 DEF KeySync, KeyEcu
  <2>2. RecvSync => RecvSync'
    <3>1. LastPos \in Nat \ {0} /\ LastPos' = LastPos
      BY <1>1 DEF LastPos
    <3>2. Ended => Ended'
      BY <1>1, <1>5, <3>1 DEF Ended
    <3>3. Doubtful => Doubtful'
      BY <1>1, <1>3 DEF Doubtful, BlockOK, AskedRight, RequestedGroup, Agree
    <3> QED BY <1>1, <1>2, <1>5, <3>2, <3>3 DEF RecvSync
  <2>3. SendSync => SendSync'
    <3>1. pos \in Nat \ {0} /\ pos' = pos /\ Outgoing(pos)' = Outgoing(pos)
      BY <1>1, Types DEF Outgoing, LastPos, RequestedGroup
    <3>2. Numbers => Numbers'
      BY <1>1 DEF Numbers
    <3>3. Heard(pos - 1) => Heard(pos - 1)'
      BY <1>1 DEF Heard, Outgoing, LastPos, RequestedGroup
    <3>4. Echoes \in {0, 1} /\ LastPos' = LastPos
      BY <1>1 DEF Echoes, LastPos
    <3>5. CASE step = "write"
      BY <1>1, <1>2, <3>2, <3>3, <3>5 DEF SendSync
    <3>6. CASE step # "write"
      BY <1>1, <1>2, <1>3, <1>5, <3>1, <3>2, <3>4, <3>6 DEF SendSync
    <3> QED BY <3>5, <3>6
  <2> QED BY <1>1, <2>1, <2>2, <2>3 DEF Sync
<1>7. live /\ Inside' => (Stuck \/ Sync)'
  BY <1>1, <1>4, <1>6, InsideIs DEF Inside
<1>8. pc = "flush" /\ live => (addr \/ Quiet)'
  BY <1>1, <1>2 DEF InStep, InExchange, Quiet
<1>9. pc = "key" /\ live /\ addr => rx' = <<>>
  BY <1>1, <1>2 DEF InStep, InExchange, KeyInStep
<1> QED BY <1>1, <1>7, <1>8, <1>9, UnseenStays

\* The ECU forgets the session: what it has said is still read.
LEMMA EcuResetInStep ==
    ASSUME TypeOK, InStep, EcuReset, UNCHANGED tester
    PROVE  InStep'
<1>1. /\ UNCHANGED <<rx, present, live, changed>> /\ ecuRx' = <<>> /\ ~addr'
      /\ UNCHANGED <<pc, step, pos, sent, buf, item, counter>>
      /\ ecu' = [ecu EXCEPT !.st = "idle"]
  BY DEF EcuReset, tester, control, globals
<1>2. ecu'.st = "idle" /\ ecu'.blk = ecu.blk /\ ecu'.at = ecu.at /\ ecu'.asked = ecu.asked
  BY <1>1, Types DEF EcuType
<1>3. Coming' = 0 /\ Needs' = Needs /\ Reading' = Reading /\ Len(ecuRx') = 0 /\ Taken' = Taken
      /\ Echoes' = Echoes /\ AskedRight' = AskedRight
  BY <1>1, <1>2 DEF Coming, Needs, Reading, Taken, Echoes, AskedRight, RequestedGroup
<1>4. ASSUME Full, Coming # 0
      PROVE  Stuck'
  <2>1. Len(rx) + 1 <= Needs /\ Reading
    BY <1>4 DEF Full, Coming
  <2>2. Needs \in Int /\ Len(rx) \in Nat
    <3>1. pc = "key" => 3 - Len(buf) \in Int
      BY Types
    <3> QED BY <3>1, Types DEF Needs
  <2>3. Len(rx') + Coming' < Needs'
    BY <1>1, <1>3, <2>1, <2>2
  <2> QED BY <1>1, <1>2, <1>3, <1>4, <2>1, <2>3 DEF Stuck, Full
<1>5. ASSUME Coming = 0, Stuck
      PROVE  Stuck'
  BY <1>1, <1>2, <1>3, <1>5 DEF Stuck
<1>6. ASSUME Coming = 0, Sync
      PROVE  Sync'
  <2>1. ecu.st # "say" /\ ecuRx = <<>> /\ Len(ecuRx) = 0
    BY <1>6 DEF Coming
  <2>2. \A e \in {0, 1} : Acked(e) => Acked(e)'
    BY <1>1, <1>2, <1>3, <2>1 DEF Acked, BlockOK, Agree
  <2>3. \A e \in {0, 1} : Confirmed(e) => Confirmed(e)'
    BY <1>1, <1>2, <1>3 DEF Confirmed, LastPos
  <2>4. KeySync => KeySync'
    BY <1>1, <1>2, <2>1, <2>2 DEF KeySync, Woken
  <2>5. RecvSync => RecvSync'
    <3>1. Doubtful => Doubtful'
      BY <1>1, <1>2, <1>3 DEF Doubtful, BlockOK, Agree
    <3> QED BY <1>1, <1>2, <2>1, <2>2, <3>1 DEF RecvSync, Unacked, Woken, Ended, Offered
  <2>6. SendSync => SendSync'
    <3>1. Numbers'
      BY <1>2 DEF Numbers
    <3>2. LastPos' = LastPos /\ Outgoing(pos)' = Outgoing(pos) /\ Echoes \in {0, 1}
      BY <1>1 DEF LastPos, Outgoing, RequestedGroup, Echoes
    <3>3. CASE step = "write"
      BY <1>1, <1>2, <3>1, <3>3 DEF SendSync
    <3>4. CASE step # "write"
      BY <1>1, <1>3, <2>1, <2>2, <2>3, <3>1, <3>2, <3>4 DEF SendSync, Offered
    <3> QED BY <3>3, <3>4
  <2> QED BY <1>1, <1>6, <2>4, <2>5, <2>6 DEF Sync
<1>7. ASSUME live, Inside
      PROVE  (Stuck \/ Sync)'
  <2>1. Stuck \/ Sync
    BY <1>7, InsideIs
  <2>2. CASE Coming = 0
    BY <1>5, <1>6, <2>1, <2>2
  <2>3. CASE Coming # 0
    <3>1. ~(step = "write" /\ rx = <<>> /\ ecuRx = <<>>)
      <4>1. SUFFICES ASSUME step = "write", ecuRx = <<>>
                     PROVE  FALSE
        OBVIOUS
      <4>2. ecu.st = "say"
        BY <2>3, <4>1 DEF Coming
      <4> QED BY <2>1, <4>1, <4>2 DEF Stuck, Reading, Sync, KeySync, RecvSync, SendSync, KeyEcu
    <3> QED BY <1>4, <2>1, <2>3, <3>1, SyncIsFull
  <2> QED BY <2>2, <2>3
<1>8. ASSUME live, pc = "key", addr
      PROVE  Stuck'
  <2>1. rx = <<>> /\ buf = <<>> /\ step = "read"
    BY <1>8 DEF InStep, InExchange, KeyInStep
  <2>2. Needs' = 3 /\ Len(rx') = 0
    BY <1>1, <1>8, <2>1 DEF Needs
  <2> QED BY <1>1, <1>2, <1>3, <1>8, <2>1, <2>2 DEF Stuck, Reading
<1>9. pc = "flush" => Quiet'
  BY <1>1, <1>2 DEF Quiet
<1>10. live /\ Inside' => (Stuck \/ Sync)'
  <2>1. CASE Inside
    BY <1>7, <2>1
  <2>2. CASE ~Inside
    BY <1>1, <1>8, <2>2 DEF Inside, InStep, InExchange
  <2> QED BY <2>1, <2>2
<1> QED BY <1>1, <1>9, <1>10, UnseenStays

\* A block of an ECU tells its own length and ends with the block end.
LEMMA BlocksAreOK ==
    ASSUME NEW n \in Byte, NEW t \in Byte
    PROVE  /\ \A d \in Seq(Byte) : BlockOK(EcuBlock(n, t, d))
           /\ \A c \in Byte : BlockOK(EcuBlock(n, t, <<c>>))
           /\ BlockOK(EcuBlock(n, t, <<>>))
           /\ \A r \in [1..NumSlots -> Values] : BlockOK(EcuBlock(n, t, r))
<1>1. ASSUME NEW d \in Seq(Byte)
      PROVE  BlockOK(EcuBlock(n, t, d))
  <2> DEFINE head == <<Len(d) + 3, n, t>>
             body == head \o d
  <2>1. Len(d) \in Nat /\ d \in Seq(Nat) /\ n \in Nat /\ t \in Nat /\ END \in Nat
    <3>1. \A c \in Byte : c \in Nat
      BY ProtocolBytes
    <3>2. Len(d) \in Nat /\ d \in Seq(Nat)
      BY <3>1
    <3> QED BY <3>1, <3>2, ProtocolBytes
  <2>2. head \in Seq(Nat) /\ Len(head) = 3 /\ head[1] = Len(d) + 3
    BY <2>1
  <2> HIDE DEF head
  <2>3. body \in Seq(Nat) /\ Len(body) = 3 + Len(d) /\ body[1] = head[1]
    <3>1. ASSUME NEW a \in Seq(Nat), NEW b \in Seq(Nat), Len(a) = 3
          PROVE  a \o b \in Seq(Nat) /\ Len(a \o b) = 3 + Len(b) /\ (a \o b)[1] = a[1]
      <4>1. a \o b \in Seq(Nat) /\ Len(a \o b) = Len(a) + Len(b)
        OBVIOUS
      <4>2. Len(a) >= 1 => (a \o b)[1] = a[1]
        OBVIOUS
      <4> QED BY <3>1, <4>1, <4>2
    <3> QED BY <2>1, <2>2, <3>1
  <2> HIDE DEF body
  <2>4. Append(body, END) = body \o <<END>>
    BY <2>1, <2>3
  <2>5. /\ Len(Append(body, END)) = Len(d) + 4
        /\ Append(body, END)[1] = Len(d) + 3
        /\ Append(body, END)[Len(d) + 4] = END
    BY <2>1, <2>2, <2>3
  <2>6. EcuBlock(n, t, d) = Append(body, END)
    BY <2>4 DEF EcuBlock, body, head
  <2> QED BY <2>1, <2>5, <2>6 DEF BlockOK
<1>2. \A c \in Byte : <<c>> \in Seq(Byte)
  BY Tuples
<1>3. <<>> \in Seq(Byte)
  OBVIOUS
<1>4. \A r \in [1..NumSlots -> Values] : r \in Seq(Byte)
  BY LineAssumption
<1> QED BY <1>1, <1>2, <1>3, <1>4

\* Where the tester is when the ECU begins or goes on with a block.
AnswerDue ==
    \/ pc = "key" /\ step = "echo"
    \/ pc = "recv" /\ step \in {"read", "echo"}
    \/ pc = "send" /\ step = "echo" /\ pos = LastPos /\ sent = Outgoing(pos)

\* There, an acknowledged byte behind the echo is what the tester waits for.
LEMMA AckedIsSync ==
    ASSUME AnswerDue', Acked(Echoes)', (pos \in 1..LastPos)'
    PROVE  Sync'
<1>1. (pos = LastPos => pos # 2)'
  BY DEF LastPos
<1> QED BY <1>1 DEF AnswerDue, Sync, KeySync, RecvSync, SendSync, Echoes

\* An ECU about to say a byte has heard everything before it.
LEMMA SayingIsAcked ==
    ASSUME Sync, ecu.st = "say", pos \in 1..LastPos
    PROVE  AnswerDue /\ Acked(Echoes)
<1>1. LastPos # 2
  BY DEF LastPos
<1> QED BY <1>1 DEF Sync, AnswerDue, KeySync, KeyEcu, Woken, RecvSync, Unacked, Ended, Offered,
        SendSync, Confirmed, Echoes

\* Another block is said in the place of the one that was about to begin.
LEMMA EcuReadyBlockInStep ==
    ASSUME TypeOK, InStep, EcuReadyBlock, UNCHANGED tester
    PROVE  InStep'
<1>1. /\ UNCHANGED <<rx, ecuRx, addr, present, live, changed>>
      /\ UNCHANGED <<pc, step, pos, sent, buf, item, counter>>
      /\ ecu.st = "say" /\ ecu.at = 1
  BY DEF EcuReadyBlock, tester, control, globals, line
<1>2. PICK t \in {ACK, ZERO} : ecu' = [ecu EXCEPT !.blk = EcuBlock(ecu.ctr, t, <<>>)]
  BY DEF EcuReadyBlock
<1>3. /\ ecu'.st = ecu.st /\ ecu'.at = ecu.at /\ ecu'.asked = ecu.asked /\ ecu'.ctr = ecu.ctr
      /\ ecu'.in = ecu.in /\ ecu'.blk = EcuBlock(ecu.ctr, t, <<>>)
  BY <1>2, Types DEF EcuType
<1>4. BlockOK(ecu.blk)'
  <2>1. BlockOK(EcuBlock(ecu.ctr, t, <<>>))
    BY BlocksAreOK, ProtocolBytes, Types
  <2> QED BY <1>3, <2>1
<1>5. Taken' = Taken /\ Coming' = Coming /\ Needs' = Needs /\ Reading' = Reading
      /\ Echoes' = Echoes /\ AskedRight' = AskedRight
  BY <1>1, <1>3 DEF Taken, Coming, Needs, Reading, Echoes, AskedRight, RequestedGroup
<1>6. Stuck => Stuck'
  BY <1>1, <1>3, <1>5 DEF Stuck
<1>7. ASSUME Sync
      PROVE  Sync'
  <2>1. AnswerDue /\ Acked(Echoes)
    BY <1>1, <1>7, SayingIsAcked, Types
  <2>2. AnswerDue'
    BY <1>1, <2>1 DEF AnswerDue, LastPos, Outgoing, RequestedGroup
  <2>3. Len(Taken) = 0
    BY <1>1, <2>1, Types DEF Acked
  <2>4. Agree(Len(Taken))'
    BY <1>5, <2>3 DEF Agree
  <2>5. (ecu.at <= Len(ecu.blk))'
    <3>1. Len(ecu'.blk) >= 4
      BY <1>4 DEF BlockOK
    <3>2. Len(ecu'.blk) \in Nat
      BY <1>2, <1>3, EcuBlockTypes, ProtocolBytes, Types, Empty
    <3> QED BY <1>1, <1>3, <3>1, <3>2
  <2>6. Acked(Echoes)'
    BY <1>1, <1>3, <1>4, <1>5, <2>1, <2>4, <2>5 DEF Acked
  <2>7. (pos \in 1..LastPos)'
    BY <1>1, Types DEF LastPos
  <2> QED BY <2>2, <2>6, <2>7, AckedIsSync
<1>8. live /\ Inside' => (Stuck \/ Sync)'
  BY <1>1, <1>6, <1>7, InsideIs DEF Inside
<1>9. pc = "flush" /\ live => (addr \/ Quiet)'
  BY <1>1 DEF InStep, InExchange, Quiet
<1>10. pc = "key" /\ live /\ addr => rx' = <<>>
  BY <1>1 DEF InStep, InExchange, KeyInStep
<1> QED BY <1>1, <1>8, <1>9, <1>10, UnseenStays

\* Without the adapter there is nothing to be in step with.
LEMMA PlugInStep ==
    ASSUME InStep, Unplug \/ Replug, UNCHANGED tester
    PROVE  InStep'
<1>1. UNCHANGED <<pc, step, buf>>
  BY DEF tester, control
<1>2. ~live'
  BY DEF Unplug, Replug, InStep
<1> QED BY <1>1, <1>2 DEF InStep, Started

\* The ECU wakes: three bytes come, the last to be acknowledged.
LEMMA WakeInStep ==
    ASSUME TypeOK, SessionInv, InStep, Wake, UNCHANGED tester
    PROVE  InStep'
<1>1. /\ addr /\ ~addr' /\ ecuRx' = <<>> /\ UNCHANGED <<present, live>>
      /\ live => rx' = rx \o <<SYNC, KW1, KW2>>
      /\ ecu' = [IdleEcu EXCEPT !.st = "hear", !.blk = <<KW2>>, !.left = AsciiBlocks]
      /\ UNCHANGED <<pc, step, pos, buf, counter>>
  BY DEF Wake, Deliver, tester, control, globals
<1>2. ecu'.st = "hear" /\ ecu'.blk = <<KW2>> /\ ecu'.at = 1 /\ ecu'.ctr = 1
  BY <1>1 DEF IdleEcu
<1>3. ASSUME live, Inside'
      PROVE  Sync'
  <2>1. pc = "key" /\ rx = <<>> /\ buf = <<>> /\ step = "read"
    BY <1>1, <1>3 DEF Inside, InStep, InExchange, KeyInStep
  <2>2. Len(rx') = 3 /\ Len(buf') = 0
    BY <1>1, <1>3, <2>1
  <2>3. counter = 1
    BY <2>1 DEF SessionInv, CounterFresh
  <2>4. KeySync'
    BY <1>1, <1>2, <2>1, <2>2, <2>3 DEF KeySync, KeyEcu
  <2> QED BY <1>1, <2>1, <2>4 DEF Sync
<1>4. Quiet'
  BY <1>1, <1>2 DEF Quiet
<1> QED BY <1>1, <1>3, <1>4, UnseenStays

\* The ECU says its next byte: it is the one the tester waits for.
LEMMA EcuSayInStep ==
    ASSUME TypeOK, InStep, EcuSay, UNCHANGED tester
    PROVE  InStep'
<1>1. /\ ecu.st = "say" /\ ~addr /\ ~changed' /\ UNCHANGED <<ecuRx, addr, present, live>>
      /\ UNCHANGED <<pc, step, pos, sent, buf, item, counter>>
      /\ live => rx' = rx \o <<ecu.blk[ecu.at]>>
  BY DEF EcuSay, Deliver, tester, control, globals
<1>2. ecu.at \in 1..Len(ecu.blk) /\ ecu.blk[ecu.at] \in Byte
  <2>1. ecu.at \in 1..Len(ecu.blk)
    BY <1>1 DEF TypeOK, LineTypeOK
  <2> QED BY <2>1, Types
<1>3. live => /\ rx' \in Seq(Byte) /\ Len(rx') = Len(rx) + 1
              /\ rx'[Len(rx) + 1] = ecu.blk[ecu.at]
  <2>1. \A s \in Seq(Byte), c \in Byte : s \o <<c>> = Append(s, c)
    OBVIOUS
  <2>2. rx \in Seq(Byte)
    BY Types
  <2>3. live => rx' = Append(rx, ecu.blk[ecu.at])
    BY <1>1, <1>2, <2>1, <2>2
  <2> QED BY <1>2, <2>2, <2>3, AppendOf
<1>4. /\ ecu'.blk = ecu.blk /\ ecu'.at = ecu.at /\ ecu'.asked = ecu.asked
      /\ \/ /\ ecu.at = Len(ecu.blk) /\ ecu'.st = "listen" /\ ecu'.in = <<>>
            /\ ecu'.ctr = NextNumber(ecu.ctr)
         \/ ecu.at # Len(ecu.blk) /\ ecu'.st = "hear" /\ ecu'.ctr = ecu.ctr
  BY Types DEF EcuSay, EcuType
<1>5. Taken' = Taken /\ Needs' = Needs /\ Reading' = Reading /\ Echoes' = Echoes
      /\ AskedRight' = AskedRight
  BY <1>1, <1>4 DEF Taken, Needs, Reading, Echoes, AskedRight, RequestedGroup
<1>6. ASSUME live, Stuck
      PROVE  Stuck'
  <2>1. ecuRx = <<>> /\ Coming = 1 /\ Coming' = 0 /\ Len(ecuRx) = 0
    BY <1>1, <1>4, <1>6 DEF Stuck, Coming
  <2>2. Len(rx) + 1 < Needs
    BY <1>6, <2>1 DEF Stuck
  <2>3. Len(rx') + Coming' < Needs'
    BY <1>3, <1>5, <1>6, <2>1, <2>2, Types
  <2> QED BY <1>1, <1>4, <1>5, <1>6, <2>1, <2>3 DEF Stuck
<1>7. ASSUME live, Sync
      PROVE  Sync'
  <2>1. AnswerDue /\ Acked(Echoes)
    BY <1>1, <1>7, SayingIsAcked, Types
  <2>2. AnswerDue' /\ (pos \in 1..LastPos)'
    BY <1>1, <2>1, Types DEF AnswerDue, LastPos, Outgoing, RequestedGroup
  <2>3. /\ ecuRx = <<>> /\ BlockOK(ecu.blk) /\ AskedRight /\ ecu.at = Len(Taken) + 1
        /\ ecu.at <= Len(ecu.blk) /\ Agree(Len(Taken)) /\ Len(rx) = Echoes /\ ecu.ctr = counter
    BY <1>1, <2>1, Types DEF Acked, Echoes
  <2>4. /\ (ecuRx = <<>>)' /\ BlockOK(ecu.blk)' /\ AskedRight' /\ (ecu.at = Len(Taken) + 1)'
        /\ (ecu.at <= Len(ecu.blk))' /\ Agree(Len(Taken))'
    BY <1>1, <1>4, <1>5, <2>3 DEF Agree, BlockOK
  <2>5. (Len(rx) = Echoes + 1 /\ rx[Echoes + 1] = ecu.blk[ecu.at])'
    BY <1>3, <1>4, <1>5, <1>7, <2>3
  <2>6. ecu.at # Len(ecu.blk) => ecu.at < Len(ecu.blk)
    BY <2>3, Types
  <2>7. Acked(Echoes)'
    BY <1>1, <1>4, <2>3, <2>4, <2>5, <2>6 DEF Acked
  <2> QED BY <2>2, <2>7, AckedIsSync
<1>8. live /\ Inside' => (Stuck \/ Sync)'
  BY <1>1, <1>6, <1>7, InsideIs DEF Inside
<1>9. pc = "flush" /\ live => (addr \/ Quiet)'
  BY <1>1 DEF InStep, InExchange, Quiet
<1> QED BY <1>1, <1>8, <1>9, UnseenStays

\* The next identification block, whatever it holds.
LEMMA IdentifyFields ==
    ASSUME TypeOK, NEW e \in EcuType
    PROVE  /\ Identify(e).st = "say" /\ Identify(e).at = 1 /\ Identify(e).ctr = e.ctr
           /\ Identify(e).asked = e.asked /\ BlockOK(Identify(e).blk)
<1>1. e.ctr \in Byte
  BY DEF EcuType
<1>2. (IF e.left = AsciiBlocks THEN car ELSE 0) \in Byte
  BY ProtocolBytes, LineAssumption DEF TypeOK, LineTypeOK
<1>3. CASE e.left > 0
  <2> DEFINE b == EcuBlock(e.ctr, ASCII, <<IF e.left = AsciiBlocks THEN car ELSE 0>>)
  <2>1. BlockOK(b)
    BY <1>1, <1>2, BlocksAreOK, ProtocolBytes
  <2>2. Identify(e) = [e EXCEPT !.st = "say", !.at = 1, !.left = @ - 1, !.blk = b]
    BY <1>3 DEF Identify
  <2> HIDE DEF b
  <2> QED BY <2>1, <2>2 DEF EcuType
<1>4. CASE ~(e.left > 0)
  <2> DEFINE b == EcuBlock(e.ctr, ACK, <<>>)
  <2>1. BlockOK(b)
    BY <1>1, BlocksAreOK, ProtocolBytes
  <2>2. Identify(e) = [e EXCEPT !.st = "say", !.at = 1, !.blk = b]
    BY <1>4 DEF Identify
  <2> HIDE DEF b
  <2> QED BY <2>1, <2>2 DEF EcuType
<1> QED BY <1>3, <1>4

\* An ECU that begins a block while the tester has none of it.
LEMMA BeginsBlock ==
    ASSUME TypeOK, UNCHANGED tester, AnswerDue, Taken = <<>>, AskedRight',
           ecuRx' = <<>>, Len(rx') = Echoes, BlockOK(ecu.blk)',
           ecu'.st = "say", ecu'.at = 1, ecu'.ctr = counter, ecu'.blk \in Seq(Byte)
    PROVE  Sync'
<1>1. UNCHANGED <<pc, step, pos, sent, buf, item, counter>>
  BY DEF tester, control, globals
<1>2. Taken' = <<>> /\ Echoes' = Echoes /\ Len(Taken') = 0
  <2>1. Taken' = Taken /\ Echoes' = Echoes
    BY <1>1 DEF Taken, Echoes
  <2>2. Len(<<>>) = 0
    OBVIOUS
  <2> QED BY <2>1, <2>2
<1>3. AnswerDue' /\ (pos \in 1..LastPos)'
  BY <1>1, Types DEF AnswerDue, LastPos, Outgoing, RequestedGroup
<1>4. (ecu.at <= Len(ecu.blk))'
  <2>1. Len(ecu'.blk) >= 4 /\ Len(ecu'.blk) \in Nat
    BY DEF BlockOK
  <2> QED BY <2>1
<1>5. Agree(Len(Taken))'
  BY <1>2 DEF Agree
<1>6. Acked(Echoes)'
  BY <1>1, <1>2, <1>4, <1>5 DEF Acked
<1> QED BY <1>3, <1>6, AckedIsSync

\* An ECU that hears something hears the acknowledgement it waits for.
LEMMA HearingIsUnacked ==
    ASSUME Sync, ecu.st = "hear", ecuRx # <<>>
    PROVE  AnswerDue /\ (Unacked(Echoes) \/ (Woken(Echoes) /\ Taken = <<>>))
<1>1. CASE pc = "key"
  <2>1. step = "echo" /\ Woken(1)
    BY <1>1 DEF Sync, KeySync, Acked
  <2>2. Echoes = 1 /\ Taken = <<>> /\ AnswerDue
    BY <1>1, <2>1 DEF Echoes, Taken, AnswerDue
  <2> QED BY <2>1, <2>2
<1>2. CASE pc = "recv"
  <2>1. \/ step = "read" /\ (Unacked(0) \/ (buf = <<>> /\ Woken(0)))
        \/ step = "echo" /\ Unacked(1)
    BY <1>2 DEF Sync, RecvSync, Acked, Ended, Offered
  <2>2. CASE step = "read"
    <3>1. Echoes = 0 /\ Taken = buf /\ AnswerDue
      BY <1>2, <2>2 DEF Echoes, Taken, AnswerDue
    <3> QED BY <2>1, <2>2, <3>1
  <2>3. CASE step = "echo"
    <3>1. Echoes = 1 /\ AnswerDue
      BY <1>2, <2>3 DEF Echoes, AnswerDue
    <3> QED BY <2>1, <2>3, <3>1
  <2> QED BY <2>1, <2>2, <2>3
<1>3. pc # "send"
  BY DEF Sync, SendSync, Offered, Confirmed, Acked
<1> QED BY <1>1, <1>2, <1>3 DEF Sync

\* The bytes on the way to the ECU are gone, and it does not go on.
LEMMA GivesUp ==
    ASSUME TypeOK, Full, ecuRx # <<>>, UNCHANGED <<tester, rx>>, ecuRx' = <<>>,
           ecu'.st = "idle", ecu'.asked = ecu.asked
    PROVE  Stuck'
<1>1. UNCHANGED <<pc, step, pos, sent, buf, item, counter>>
  BY DEF tester, control, globals
<1>2. Coming = 1 /\ Coming' = 0 /\ Needs' = Needs /\ Reading' = Reading
      /\ AskedRight' = AskedRight /\ Len(ecuRx') = 0
  BY <1>1 DEF Coming, Needs, Reading, AskedRight, RequestedGroup
<1>3. Needs \in Int /\ Len(rx) \in Nat
  <2>1. pc = "key" => 3 - Len(buf) \in Int
    BY Types
  <2> QED BY <2>1, Types DEF Needs
<1>4. Len(rx) + 1 <= Needs
  BY <1>2 DEF Full
<1>5. Len(rx') + Coming' < Needs'
  BY <1>2, <1>3, <1>4
<1> QED BY <1>1, <1>2, <1>5 DEF Full, Stuck

\* The ECU hears that its byte was understood, or gives the session up.
LEMMA EcuHearInStep ==
    ASSUME TypeOK, InStep, EcuHear, UNCHANGED tester
    PROVE  InStep'
<1>1. /\ ecu.st = "hear" /\ ecuRx # <<>> /\ UNCHANGED <<rx, addr, present, live, changed>>
      /\ UNCHANGED <<pc, step, pos, sent, buf, item, counter>>
  BY DEF EcuHear, tester, control, globals
<1>2. ecu \in EcuType /\ Head(ecuRx) = ecuRx[1]
  BY <1>1, Types, TailOf
<1>3. \/ ecuRx' = <<>> /\ ecu' = [ecu EXCEPT !.st = "idle"]
      \/ /\ ecuRx' = Tail(ecuRx) /\ ecuRx[1] = Neg(ecu.blk[ecu.at])
         /\ \/ ecu.at = Len(ecu.blk) /\ ecu' = Identify(ecu)
            \/ ecu.at # Len(ecu.blk) /\ ecu' = [ecu EXCEPT !.st = "say", !.at = @ + 1]
  BY <1>1, <1>2 DEF EcuHear
<1>4. ASSUME live, Inside
      PROVE  (Stuck \/ Sync)'
  <2>1. Full /\ (Stuck \/ Sync)
    BY <1>1, <1>4, InsideIs, SyncIsFull
  <2>2. Tail(ecuRx) = <<>>
    <3>1. Len(ecuRx) <= 1 /\ Len(ecuRx) \in Nat
      BY <2>1, Types DEF Full
    <3>2. Tail(ecuRx) \in Seq(Byte) /\ Len(Tail(ecuRx)) = Len(ecuRx) - 1 /\ Len(ecuRx) >= 1
      BY <1>1, Types, TailOf
    <3> QED BY <3>1, <3>2, Empty
  <2>3. CASE ecuRx' = <<>> /\ ecu' = [ecu EXCEPT !.st = "idle"]
    <3>1. ecu'.st = "idle" /\ ecu'.asked = ecu.asked
      BY <1>2, <2>3 DEF EcuType
    <3> QED BY <1>1, <2>1, <2>3, <3>1, GivesUp
  <2>4. CASE /\ ecuRx' = Tail(ecuRx) /\ ecuRx[1] = Neg(ecu.blk[ecu.at])
             /\ \/ ecu.at = Len(ecu.blk) /\ ecu' = Identify(ecu)
                \/ ecu.at # Len(ecu.blk) /\ ecu' = [ecu EXCEPT !.st = "say", !.at = @ + 1]
    <3>1. ecu'.st = "say" /\ ecu'.asked = ecu.asked /\ ecu'.ctr = ecu.ctr /\ ecuRx' = <<>>
      BY <1>2, <2>2, <2>4, IdentifyFields DEF EcuType
    <3>2. AskedRight' = AskedRight /\ Echoes' = Echoes /\ Taken' = Taken
      BY <1>1, <3>1 DEF AskedRight, RequestedGroup, Echoes, Taken
    <3>3. CASE Stuck
      <4>1. Coming = 1 /\ Coming' = 1 /\ Needs' = Needs /\ Reading' = Reading /\ Len(ecuRx') = 0
        BY <1>1, <3>1 DEF Coming, Needs, Reading
      <4> QED BY <1>1, <3>1, <3>2, <3>3, <4>1 DEF Stuck
    <3>4. CASE Sync
      <4>1. AnswerDue /\ (Unacked(Echoes) \/ (Woken(Echoes) /\ Taken = <<>>))
        BY <1>1, <3>4, HearingIsUnacked
      <4>2. CASE Unacked(Echoes)
        <5>1. /\ BlockOK(ecu.blk) /\ AskedRight /\ ecu.at = Len(Taken)
              /\ ecu.at \in 1..Len(ecu.blk)-1 /\ Agree(ecu.at - 1)
              /\ Taken[ecu.at] = ecu.blk[ecu.at] /\ Len(rx) = Echoes /\ ecu.ctr = counter
          BY <2>4, <4>2 DEF Unacked, Doubtful
        <5>2. ecu.at # Len(ecu.blk) /\ ecu.at + 1 <= Len(ecu.blk) /\ ecu.at \in Nat
          BY <5>1, Types
        <5>3. ecu'.at = ecu.at + 1 /\ ecu'.blk = ecu.blk
          BY <1>2, <2>4, <5>2 DEF EcuType
        <5>4. (ecu.at = Len(Taken) + 1 /\ ecu.at <= Len(ecu.blk) /\ BlockOK(ecu.blk))'
          BY <3>2, <5>1, <5>2, <5>3 DEF BlockOK
        <5>5. Agree(Len(Taken))'
          <6>1. \A i \in 1..ecu.at : i \in 1..ecu.at - 1 \/ i = ecu.at
            BY <5>2
          <6> QED BY <3>2, <5>1, <5>3, <6>1 DEF Agree
        <5>6. Acked(Echoes)'
          BY <1>1, <3>1, <3>2, <5>1, <5>4, <5>5 DEF Acked
        <5>7. AnswerDue' /\ (pos \in 1..LastPos)'
          BY <1>1, <4>1, Types DEF AnswerDue, LastPos, Outgoing, RequestedGroup
        <5> QED BY <5>6, <5>7, AckedIsSync
      <4>3. CASE Woken(Echoes) /\ Taken = <<>>
        <5>1. ecu.blk = <<KW2>> /\ ecu.at = 1 /\ ecu.ctr = counter /\ item = 0 /\ Len(rx) = Echoes
          BY <4>3 DEF Woken, KeyEcu
        <5>2. ecu' = Identify(ecu)
          <6>1. Len(<<KW2>>) = 1
            OBVIOUS
          <6> QED BY <2>4, <5>1, <6>1
        <5>3. ecu'.at = 1 /\ BlockOK(ecu'.blk)
          BY <1>2, <5>2, IdentifyFields
        <5>4. ecu'.blk \in Seq(Byte)
          BY <1>2, <5>2, IdentifyType DEF EcuOK, EcuType, TypeOK
        <5>5. AskedRight' /\ BlockOK(ecu.blk)'
          BY <1>1, <5>1, <5>3 DEF AskedRight, BlockOK
        <5> QED BY <1>1, <3>1, <4>1, <4>3, <5>1, <5>3, <5>4, <5>5, BeginsBlock
      <4> QED BY <4>1, <4>2, <4>3
    <3> QED BY <2>1, <3>3, <3>4
  <2> QED BY <1>3, <2>3, <2>4
<1>5. live /\ Inside' => (Stuck \/ Sync)'
  BY <1>1, <1>4 DEF Inside
<1>6. pc = "flush" /\ live => (addr \/ Quiet)'
  BY <1>1 DEF InStep, InExchange, Quiet
<1>7. pc = "key" /\ live /\ addr => rx' = <<>>
  BY <1>1 DEF InStep, InExchange, KeyInStep
<1> QED BY <1>1, <1>5, <1>6, <1>7, UnseenStays

\* An ECU that hears a byte of a block hears the one the tester waits over.
LEMMA ListeningIsOffered ==
    ASSUME Sync, ecu.st = "listen", ecuRx # <<>>
    PROVE  \/ pc = "recv" /\ step = "read" /\ Ended
           \/ /\ pc = "send" /\ step \in {"echo", "ack"} /\ Offered(pos, Echoes) /\ Numbers
              /\ ~changed => ecuRx[1] = sent
              /\ pos # 2 => sent = Outgoing(pos)
<1>1. pc # "key"
  BY DEF Sync, KeySync, KeyEcu, Woken, Acked
<1>2. CASE pc = "recv"
  BY <1>2 DEF Sync, RecvSync, Unacked, Acked, Woken, KeyEcu
<1>3. CASE pc = "send"
  BY <1>3 DEF Sync, SendSync, Confirmed, Acked
<1> QED BY <1>1, <1>2, <1>3 DEF Sync

\* The last byte of the tester's block arrives: the ECU answers what was asked.
LEMMA ReplyBegins ==
    ASSUME TypeOK, UNCHANGED tester, Len(ecu.in) = LastPos - 1, Heard(LastPos - 1),
           NextNumber(ecu.ctr) = counter, NEW c \in Byte,
           ecu' \in Replies(Append(ecu.in, c))
    PROVE  /\ ecu'.st = "say" /\ ecu'.at = 1 /\ ecu'.ctr = counter
           /\ ecu'.blk \in Seq(Byte) /\ BlockOK(ecu.blk)' /\ AskedRight'
<1> DEFINE in == Append(ecu.in, c)
           next == [ecu EXCEPT !.in = in, !.ctr = NextNumber(@)]
<1>1. UNCHANGED <<item, counter>>
  BY DEF tester, control, globals
<1>2. /\ in \in Seq(Byte) /\ Len(in) = LastPos
      /\ \A i \in 1..LastPos - 1 : in[i] = ecu.in[i]
  <2>1. ecu.in \in Seq(Byte) /\ LastPos \in {4, 5}
    BY Types
  <2>2. in \in Seq(Byte) /\ Len(in) = Len(ecu.in) + 1 /\ \A i \in 1..Len(ecu.in) : in[i] = ecu.in[i]
    BY <2>1, AppendOf
  <2> QED BY <2>1, <2>2
<1>3. /\ next \in EcuType /\ next.ctr = counter /\ next.asked = ecu.asked
  <2>1. NextNumber(ecu.ctr) \in Byte /\ ecu \in EcuType
    BY Types
  <2> QED BY <1>2, <2>1 DEF EcuType
<1>4. 3 \in 1..LastPos - 1 /\ Outgoing(3) = IF item = 0 THEN ACK ELSE GROUP
  BY DEF LastPos, Outgoing
<1>5. in[3] = IF item = 0 THEN ACK ELSE GROUP
  BY <1>2, <1>4 DEF Heard
<1>6. /\ item = 0 => in[3] = ACK
      /\ item # 0 => in[3] = GROUP /\ in[3] # ACK
  BY <1>5 DEF ACK, GROUP
<1>7. ecu' \in Replies(in)
  OBVIOUS
<1> HIDE DEF in
<1>8. CASE item = 0
  <2>1. ecu' = Identify(next)
    <3>1. in[3] = ACK /\ in[3] # GROUP
      BY <1>6, <1>8 DEF ACK, GROUP
    <3>2. Replies(in) = {Identify(next)}
      BY <3>1, Zenon DEF Replies
    <3> QED BY <1>7, <3>2
  <2> HIDE DEF next
  <2>2. EcuOK(Identify(next))
    BY <1>3, IdentifyType DEF TypeOK
  <2>3. ecu'.blk \in Seq(Byte)
    BY <2>1, <2>2 DEF EcuOK, EcuType
  <2>4. /\ ecu'.st = "say" /\ ecu'.at = 1 /\ ecu'.ctr = counter /\ BlockOK(ecu'.blk)
    BY <1>3, <2>1, IdentifyFields
  <2> QED BY <1>1, <1>8, <2>3, <2>4 DEF AskedRight
<1>9. CASE item # 0
  <2>1. PICK r \in [1..NumSlots -> Values] :
          ecu' = [next EXCEPT !.st = "say", !.at = 1, !.asked = in[4],
                              !.blk = EcuBlock(next.ctr, ANSWER, r)]
    BY <1>6, <1>7, <1>9 DEF Replies
  <2> DEFINE b == EcuBlock(next.ctr, ANSWER, r)
  <2>2. next.ctr \in Byte
    BY <1>3, Types
  <2>3. BlockOK(b) /\ b \in Seq(Byte)
    BY <2>2, BlocksAreOK, EcuBlockTypes, ProtocolBytes
  <2>4. ecu' = [next EXCEPT !.st = "say", !.at = 1, !.asked = in[4], !.blk = b]
    BY <2>1
  <2> HIDE DEF b, next
  <2>5. /\ ecu'.st = "say" /\ ecu'.at = 1 /\ ecu'.ctr = counter /\ ecu'.blk = b
        /\ ecu'.asked = in[4]
    BY <1>3, <2>4 DEF EcuType
  <2>6. in[4] = RequestedGroup
    <3>1. 4 \in 1..LastPos - 1 /\ Outgoing(4) = RequestedGroup
      BY <1>9 DEF LastPos, Outgoing
    <3> QED BY <1>2, <3>1 DEF Heard
  <2>7. AskedRight'
    BY <1>1, <2>5, <2>6 DEF AskedRight, RequestedGroup
  <2> QED BY <2>3, <2>5, <2>7
<1> QED BY <1>8, <1>9

\* What the ECU does with a byte of the tester's block.
LEMMA ListenStep ==
    ASSUME TypeOK, EcuListen, NEW c, NEW in, c = ecuRx[1], in = Append(ecu.in, c)
    PROVE  \/ ecuRx' = <<>> /\ rx' = rx /\ ecu' = [ecu EXCEPT !.st = "idle"]
           \/ /\ Len(in) > 3 /\ Len(in) > in[1] /\ ecuRx' = Tail(ecuRx) /\ rx' = rx
              /\ ecu' \in Replies(in)
           \/ /\ ~(Len(in) > 3 /\ Len(in) > in[1]) /\ ecuRx' = Tail(ecuRx)
              /\ Deliver(<<Neg(c)>>) /\ ecu' = [ecu EXCEPT !.in = in]
<1>1. Head(ecuRx) = ecuRx[1]
  BY Types, TailOf DEF EcuListen
<1>2. c = Head(ecuRx)
  BY <1>1
<1> DEFINE atEnd == Len(in) > 3 /\ Len(in) > in[1]
           wrong == (Len(in) = 2 /\ c # ecu.ctr) \/ (atEnd /\ c # END)
<1>3. (CASE wrong -> ecu' = [ecu EXCEPT !.st = "idle"] /\ ecuRx' = <<>> /\ UNCHANGED rx
         [] atEnd /\ ~wrong -> ecu' \in Replies(in) /\ ecuRx' = Tail(ecuRx) /\ UNCHANGED rx
         [] OTHER -> /\ ecu' = [ecu EXCEPT !.in = in] /\ ecuRx' = Tail(ecuRx)
                     /\ Deliver(<<Neg(c)>>))
  BY <1>2 DEF EcuListen
<1> HIDE DEF atEnd, wrong
<1>4. \/ wrong /\ ecu' = [ecu EXCEPT !.st = "idle"] /\ ecuRx' = <<>> /\ UNCHANGED rx
      \/ atEnd /\ ecu' \in Replies(in) /\ ecuRx' = Tail(ecuRx) /\ UNCHANGED rx
      \/ ~wrong /\ ~atEnd /\ ecu' = [ecu EXCEPT !.in = in] /\ ecuRx' = Tail(ecuRx)
         /\ Deliver(<<Neg(c)>>)
  BY <1>3
<1> QED BY <1>4 DEF atEnd

\* The ECU hears a byte of the tester's block: it says so, answers the whole
\* block, or gives the session up.
LEMMA EcuListenInStep ==
    ASSUME TypeOK, InStep, EcuListen, UNCHANGED tester
    PROVE  InStep'
<1>1. /\ ecu.st = "listen" /\ ecuRx # <<>> /\ ~addr
      /\ UNCHANGED <<addr, present, live, changed>>
      /\ UNCHANGED <<pc, step, pos, sent, buf, item, counter>>
  BY DEF EcuListen, tester, control, globals
<1> DEFINE c == ecuRx[1]
           in == Append(ecu.in, c)
<1>2. /\ ecu \in EcuType /\ ecu.in \in Seq(Byte) /\ c \in Byte /\ in \in Seq(Byte)
      /\ Len(in) = Len(ecu.in) + 1 /\ in[Len(ecu.in) + 1] = c
      /\ \A i \in 1..Len(ecu.in) : in[i] = ecu.in[i]
  <2>1. ecu \in EcuType /\ ecu.in \in Seq(Byte) /\ c \in Byte
    BY <1>1, Types, TailOf
  <2> HIDE DEF c
  <2> QED BY <2>1, AppendOf
<1>3. \/ ecuRx' = <<>> /\ rx' = rx /\ ecu' = [ecu EXCEPT !.st = "idle"]
      \/ /\ Len(in) > 3 /\ Len(in) > in[1] /\ ecuRx' = Tail(ecuRx) /\ rx' = rx
         /\ ecu' \in Replies(in)
      \/ /\ ~(Len(in) > 3 /\ Len(in) > in[1]) /\ ecuRx' = Tail(ecuRx)
         /\ Deliver(<<Neg(c)>>) /\ ecu' = [ecu EXCEPT !.in = in]
  BY ListenStep
<1> HIDE DEF in, c
<1>4. ASSUME live, Inside
      PROVE  (Stuck \/ Sync)'
  <2>1. Full /\ (Stuck \/ Sync)
    BY <1>1, <1>4, InsideIs, SyncIsFull
  <2>2. Tail(ecuRx) = <<>> /\ Len(ecuRx) = 1
    <3>1. Len(ecuRx) <= 1 /\ Len(ecuRx) \in Nat
      BY <2>1, Types DEF Full
    <3>2. Tail(ecuRx) \in Seq(Byte) /\ Len(Tail(ecuRx)) = Len(ecuRx) - 1 /\ Len(ecuRx) >= 1
      BY <1>1, Types, TailOf
    <3> QED BY <3>1, <3>2, Empty
  <2>3. CASE ecuRx' = <<>> /\ rx' = rx /\ ecu' = [ecu EXCEPT !.st = "idle"]
    <3>1. ecu'.st = "idle" /\ ecu'.asked = ecu.asked
      BY <1>2, <2>3 DEF EcuType
    <3> QED BY <1>1, <2>1, <2>3, <3>1, GivesUp
  <2>4. CASE /\ Len(in) > 3 /\ Len(in) > in[1] /\ ecuRx' = Tail(ecuRx) /\ rx' = rx
             /\ ecu' \in Replies(in)
    <3>1. CASE Stuck
      <4>1. /\ ~(pc = "recv" /\ step = "echo") /\ Reading
            /\ Coming = 1 /\ Coming' \in {0, 1} /\ Needs' = Needs /\ Reading' = Reading
            /\ ecuRx' = <<>> /\ Len(ecuRx') = 0
        BY <1>1, <2>2, <2>4, <3>1 DEF Stuck, Coming, Needs, Reading
      <4>2. Len(rx') + Coming' < Needs'
        <5>1. Len(rx) + 1 < Needs /\ Len(rx') = Len(rx)
          BY <2>4, <3>1, <4>1 DEF Stuck
        <5>2. Needs \in Int /\ Len(rx) \in Nat
          <6>1. pc = "key" => 3 - Len(buf) \in Int
            BY Types
          <6> QED BY <6>1, Types DEF Needs
        <5> QED BY <4>1, <5>1, <5>2
      <4> QED BY <1>1, <4>1, <4>2 DEF Stuck
    <3>2. CASE Sync
      <4>1. LastPos \in {4, 5} /\ pos \in 1..LastPos /\ Outgoing(1) = LastPos - 1
        BY Types DEF Outgoing
      <4>2. CASE pc = "recv" /\ step = "read" /\ Ended
        <5>1. /\ Len(ecu.in) = LastPos - 1 /\ Heard(LastPos - 1) /\ NextNumber(ecu.ctr) = counter
              /\ Len(rx) = 0 /\ buf = <<>>
          BY <4>2 DEF Ended, Offered
        <5>2. AnswerDue /\ Taken = <<>> /\ Echoes = 0
          BY <4>2, <5>1 DEF AnswerDue, Taken, Echoes
        <5>3. /\ ecu'.st = "say" /\ ecu'.at = 1 /\ ecu'.ctr = counter
              /\ ecu'.blk \in Seq(Byte) /\ BlockOK(ecu.blk)' /\ AskedRight'
          BY <1>2, <2>4, <5>1, ReplyBegins DEF in
        <5>4. ecuRx' = <<>> /\ Len(rx') = Echoes
          BY <2>2, <2>4, <5>1, <5>2
        <5> QED BY <5>2, <5>3, <5>4, BeginsBlock
      <4>3. CASE /\ pc = "send" /\ step \in {"echo", "ack"} /\ Offered(pos, Echoes) /\ Numbers
                 /\ pos # 2 => sent = Outgoing(pos)
        <5>1. Len(ecu.in) = pos - 1 /\ Heard(pos - 1) /\ Len(rx) = Echoes
          BY <4>3 DEF Offered
        <5>2. Len(in) = pos
          BY <1>2, <4>1, <5>1
        <5>3. pos > 3 /\ 1 \in 1..pos - 1
          BY <2>4, <4>1, <5>2
        <5>4. in[1] = LastPos - 1
          <6>1. in[1] = ecu.in[1]
            BY <1>2, <5>1, <5>3
          <6>2. ecu.in[1] = Outgoing(1)
            BY <5>1, <5>3 DEF Heard
          <6> QED BY <4>1, <6>1, <6>2
        <5>5. pos = LastPos /\ pos # 1 /\ pos # 2
          <6>1. pos > LastPos - 1
            BY <2>4, <5>2, <5>4
          <6> QED BY <4>1, <6>1
        <5>6. step = "echo" /\ Echoes = 1
          <6>1. step # "ack"
            BY <4>1, <4>3, <5>5 DEF TypeOK, ControlTypeOK
          <6> QED BY <4>3, <6>1 DEF Echoes
        <5>7. NextNumber(ecu.ctr) = counter
          BY <1>1, <4>3, <5>5 DEF Numbers
        <5>8. AnswerDue /\ Taken = <<>>
          BY <4>3, <5>5, <5>6 DEF AnswerDue, Taken
        <5>9. /\ ecu'.st = "say" /\ ecu'.at = 1 /\ ecu'.ctr = counter
              /\ ecu'.blk \in Seq(Byte) /\ BlockOK(ecu.blk)' /\ AskedRight'
          BY <1>2, <2>4, <5>1, <5>5, <5>7, ReplyBegins DEF in
        <5>10. ecuRx' = <<>> /\ Len(rx') = Echoes
          BY <2>2, <2>4, <5>1
        <5> QED BY <5>8, <5>9, <5>10, BeginsBlock
      <4> QED BY <1>1, <3>2, <4>2, <4>3, ListeningIsOffered
    <3> QED BY <2>1, <3>1, <3>2
  <2>5. CASE /\ ~(Len(in) > 3 /\ Len(in) > in[1]) /\ ecuRx' = Tail(ecuRx)
             /\ Deliver(<<Neg(c)>>) /\ ecu' = [ecu EXCEPT !.in = in]
    <3>1. /\ ecu'.st = "listen" /\ ecu'.in = in /\ ecu'.ctr = ecu.ctr /\ ecuRx' = <<>>
          /\ Len(ecuRx') = 0
      BY <1>1, <1>2, <2>2, <2>5 DEF EcuType
    <3>2. Neg(c) \in Byte /\ Len(rx') = Len(rx) + 1 /\ rx'[Len(rx) + 1] = Neg(c)
      <4>1. Neg(c) \in Byte /\ rx \in Seq(Byte)
        BY <1>2, ProtocolBytes, Types
      <4>2. \A s \in Seq(Byte), b \in Byte : s \o <<b>> = Append(s, b)
        OBVIOUS
      <4>3. rx' = rx \o <<Neg(c)>>
        BY <1>4, <2>5 DEF Deliver
      <4>4. rx' = Append(rx, Neg(c))
        BY <4>1, <4>2, <4>3
      <4> QED BY <4>1, <4>4, AppendOf
    <3>3. CASE Stuck
      <4>1. /\ ~(pc = "recv" /\ step = "echo") /\ Reading
            /\ Coming = 1 /\ Coming' = 0 /\ Needs' = Needs /\ Reading' = Reading
        BY <1>1, <3>1, <3>3 DEF Stuck, Coming, Needs, Reading
      <4>2. Len(rx') + Coming' < Needs'
        <5>1. Len(rx) + 1 < Needs
          BY <3>3, <4>1 DEF Stuck
        <5> QED BY <3>2, <4>1, <5>1, Types
      <4> QED BY <1>1, <3>1, <4>1, <4>2 DEF Stuck
    <3>4. CASE Sync
      <4>1. LastPos \in {4, 5} /\ pos \in 1..LastPos /\ Outgoing(1) = LastPos - 1
        BY Types DEF Outgoing
      <4>2. ASSUME NEW p \in 1..LastPos, Len(ecu.in) = p - 1, Heard(p - 1)
            PROVE  p < LastPos
        <5>1. SUFFICES ASSUME p = LastPos
                       PROVE  FALSE
          BY <4>1
        <5>2. Len(in) = LastPos /\ 1 \in 1..p - 1
          BY <1>2, <4>1, <4>2, <5>1
        <5>3. in[1] = ecu.in[1]
          BY <1>2, <4>2, <5>2
        <5>4. ecu.in[1] = Outgoing(1)
          BY <4>2, <5>2 DEF Heard
        <5> QED BY <2>5, <4>1, <5>2, <5>3, <5>4
      <4>3. ~(pc = "recv" /\ step = "read" /\ Ended)
        BY <4>1, <4>2 DEF Ended, Offered
      <4>4. /\ pc = "send" /\ step \in {"echo", "ack"} /\ Offered(pos, Echoes) /\ Numbers
            /\ ~changed => c = sent
            /\ pos # 2 => sent = Outgoing(pos)
        BY <1>1, <3>4, <4>3, ListeningIsOffered DEF c
      <4>5. /\ Len(ecu.in) = pos - 1 /\ Heard(pos - 1) /\ Len(rx) = Echoes /\ pos < LastPos
        BY <4>1, <4>2, <4>4 DEF Offered
      <4>6. Echoes' = Echoes /\ LastPos' = LastPos
        BY <1>1 DEF Echoes, LastPos
      <4>7. Len(in) = pos /\ in[pos] = c
        BY <1>2, <4>1, <4>5
      <4>8. \A i \in 1..pos - 1 : in[i] = ecu.in[i]
        BY <1>2, <4>5
      <4>9. \A i \in 1..pos - 1 : i # 2 => in[i] = Outgoing(i)
        BY <4>5, <4>8 DEF Heard
      <4>10. Heard(pos - 1)'
        BY <1>1, <3>1, <4>9 DEF Heard, Outgoing, LastPos, RequestedGroup
      <4>11. (~changed \/ rx[Echoes + 1] = Neg(sent) => ecu.in[pos] = sent)'
        <5>1. Neg(c) = Neg(sent) => c = sent
          BY <1>2, Types, ProtocolBytes
        <5>2. rx'[Echoes + 1] = Neg(c) /\ ecu'.in[pos] = c
          BY <3>1, <3>2, <4>5, <4>7
        <5> QED BY <1>1, <4>4, <4>6, <5>1, <5>2
      <4>12. Len(rx') = Echoes + 1
        BY <3>2, <4>5
      <4>13. Confirmed(Echoes)'
        BY <1>1, <3>1, <4>5, <4>6, <4>7, <4>10, <4>11, <4>12 DEF Confirmed
      <4>14. Numbers'
        BY <1>1, <3>1, <4>4 DEF Numbers
      <4>15. (pos # 2 => sent = Outgoing(pos))'
        BY <1>1, <4>4 DEF Outgoing, LastPos, RequestedGroup
      <4>16. SendSync'
        BY <1>1, <4>4, <4>13, <4>14, <4>15 DEF SendSync
      <4> QED BY <1>1, <4>4, <4>16 DEF Sync
    <3> QED BY <2>1, <3>3, <3>4
  <2> QED BY <1>3, <2>3, <2>4, <2>5
<1>5. live /\ Inside' => (Stuck \/ Sync)'
  BY <1>1, <1>4 DEF Inside
<1>6. pc = "flush" /\ live => (addr \/ Quiet)'
  BY <1>1 DEF InStep, InExchange, Quiet
<1> QED BY <1>1, <1>5, <1>6, UnseenStays

\* Every step of the ECU, the line and the cable keeps the two ends in step.
LEMMA EnvironmentInStep ==
    ASSUME TypeOK, SessionInv, InStep, EcuNext \/ FaultNext \/ ReplugStep
    PROVE  InStep'
<1>1. CASE SlowTimeout
  BY <1>1, ErrorInStep
<1>2. CASE Wake /\ UNCHANGED tester
  BY <1>2, WakeInStep
<1>3. CASE (EcuSay \/ EcuHear \/ EcuListen) /\ UNCHANGED tester
  BY <1>3, EcuSayInStep, EcuHearInStep, EcuListenInStep
<1>4. CASE (Garble \/ Lose \/ EcuReset \/ EcuReadyBlock) /\ UNCHANGED tester
  BY <1>4, GarbleInStep, LoseInStep, EcuResetInStep, EcuReadyBlockInStep
<1>5. CASE (Unplug \/ Replug) /\ UNCHANGED tester
  BY <1>5, PlugInStep
<1> QED BY <1>1, <1>2, <1>3, <1>4, <1>5
        DEF EcuNext, EcuWake, FaultNext, EarlyWake, Disturbance, ReplugStep

-----------------------------------------------------------------------------
(* The theorems.                                                            *)

\* InStep holds at the start and is kept by every step.
LEMMA InStepInductive ==
    /\ Init => InStep
    /\ TypeOK /\ SessionInv /\ InStep /\ [Next]_vars => InStep'
<1>1. Init => InStep
  BY DEF Init, LineInit, InStep, Started
<1>2. ASSUME TypeOK, SessionInv, InStep, [Next]_vars
      PROVE  InStep'
  <2>1. CASE TesterNext
    BY <1>2, <2>1, TesterInStep
  <2>2. CASE EcuNext \/ FaultNext \/ ReplugStep
    BY <1>2, <2>2, EnvironmentInStep
  <2>3. CASE UNCHANGED vars
    <3>1. UNCHANGED <<pc, step, pos, sent, buf, item, counter, rx, ecuRx, addr, present,
                      live, ecu, changed>>
      BY <2>3 DEF vars, tester, control, globals, lineVars, line, world
    <3>2. UNCHANGED tester
      BY <2>3 DEF vars
    <3>3. live /\ Inside' => (Stuck \/ Sync)'
      <4>1. ASSUME Sync PROVE Sync'
        <5>1. Taken' = Taken /\ LastPos' = LastPos
          BY <3>1 DEF Taken, LastPos
        <5>2. /\ KeySync => KeySync'
              /\ RecvSync => RecvSync'
              /\ SendSync => SendSync'
          BY <3>1, <5>1 DEF KeySync, RecvSync, SendSync, Woken, KeyEcu, Acked, Unacked,
             Doubtful, Ended, Offered, Confirmed, Numbers, Heard, Outgoing, RequestedGroup,
             AskedRight, Agree, BlockOK, Echoes
        <5> QED BY <3>1, <4>1, <5>2 DEF Sync
      <4>2. ASSUME Stuck PROVE Stuck'
        BY <3>1, <4>2 DEF Stuck, Reading, Coming, Needs, AskedRight, RequestedGroup
      <4> QED BY <1>2, <3>1, <4>1, <4>2, InsideIs DEF Inside
    <3>4. pc = "flush" /\ live => (addr \/ Quiet)'
      BY <1>2, <3>1 DEF InStep, InExchange, Quiet
    <3>5. pc = "key" /\ live /\ addr => rx' = <<>>
      BY <1>2, <3>1 DEF InStep, InExchange, KeyInStep
    <3> QED BY <1>2, <3>1, <3>2, <3>3, <3>4, <3>5, UnseenStays
  <2> QED BY <1>2, <2>1, <2>2, <2>3 DEF Next
<1> QED BY <1>1, <1>2

\* Whatever is lost, changed or restarted, tester and ECU are never in two
\* different exchanges (kw1281_send_byte_ack and kw1281_recv_byte_ack).
THEOREM EndsInStep == Spec => []InStep
<1>1. TypeOK /\ SessionInv /\ [Next]_vars => SessionInv'
  BY SessionInvStep
<1> QED BY <1>1, InStepInductive, SessionInvInit, TypeCorrect, PTL DEF Spec

\* The block numbers of tester and ECU never drift apart, and no byte of an
\* older exchange meets a new block (kw1281_inc_counter).
THEOREM CountersCorrect == Spec => []CountersAgree
<1>1. TypeOK /\ InStep => CountersAgree
  <2> SUFFICES ASSUME TypeOK, InStep, pc = "send", pos = 1, step = "write", live,
                      ecu.st = "listen"
               PROVE  ecu.ctr = counter /\ ecu.in = <<>> /\ rx = <<>> /\ ecuRx = <<>>
    BY DEF CountersAgree
  <2>1. SendSync
    BY DEF InStep, InExchange, Stuck, Reading
  <2>2. /\ rx = <<>> /\ ecuRx = <<>> /\ Numbers /\ Len(ecu.in) = pos - 1
    BY <2>1 DEF SendSync
  <2>3. Len(ecu.in) = 0
    BY <2>2
  <2> QED BY <2>2, <2>3, Types, Empty DEF Numbers
<1> QED BY <1>1, EndsInStep, TypeCorrect, PTL

\* Only a byte that joins a block changes the values shown.
LEMMA WhoShows ==
    ASSUME [Next]_vars, shown' # shown
    PROVE  TakeByte
BY DEF Next, TesterNext, EcuNext, EcuWake, FaultNext, EarlyWake, SlowTimeout, TimesOut,
   ReplugStep, Open, InitBegin, SendAddress, HardError, Flush, FlushFails, ReadKeyByte,
   ReadByte, WriteAck, TakeKey, CounterWrong, EchoWrong, BlockEndWrong, IdentBlockDone,
   IdentDone, UnknownEcu, AnswerDone, EndBlock, SendByte, SendEchoOk, SendAckOk,
   SendAckWrong, WriteFails, ReadTimeout, vars, tester, globals

\* The values shown are those of an answer to the group that was asked for
\* (block_handle_field): no late or foreign block is decoded in its place.
THEOREM AnswersCorrect == Spec => AnswerMatchesRequest
<1>1. ASSUME TypeOK, InStep, [Next]_vars, shown' # shown, live
      PROVE  ecu.asked = BlockTable[item].block
  <2>1. TakeByte
    BY <1>1, WhoShows
  <2>2. PICK b, g : shown' = ShownAfter(b, g)
    BY <1>1, <2>1 DEF TakeByte
  <2>3. item # 0
    <3>1. item = 0 => ShownAfter(b, g) = [f \in Fields |-> shown[f]]
      BY DEF ShownAfter
    <3>2. shown = [f \in Fields |-> shown[f]]
      BY <1>1 DEF TypeOK, GlobalsTypeOK
    <3> QED BY <1>1, <2>2, <3>1, <3>2
  <2>4. pc = "recv" /\ step = "echo"
    BY <2>1 DEF TakeByte
  <2>5. AskedRight
    BY <1>1, <2>4 DEF InStep, InExchange, Stuck, RecvSync, Unacked, Doubtful, Acked
  <2> QED BY <2>3, <2>5 DEF AskedRight, RequestedGroup
<1>2. TypeOK /\ InStep /\ [Next]_vars =>
        [shown' # shown /\ live => ecu.asked = BlockTable[item].block]_vars
  BY <1>1
<1> QED BY <1>2, EndsInStep, TypeCorrect, PTL DEF Spec, AnswerMatchesRequest

\* At the end of a block only its end makes the counter step.
LEMMA WhoCounts ==
    ASSUME [Next]_vars, AtBlockEnd, counter' # counter
    PROVE  EndBlock
BY DEF AtBlockEnd, Next, TesterNext, EcuNext, EcuWake, FaultNext, EarlyWake, SlowTimeout,
   TimesOut, ReplugStep, Open, InitBegin, SendAddress, HardError, Flush, FlushFails,
   ReadKeyByte, ReadByte, WriteAck, TakeKey, TakeByte, CounterWrong, EchoWrong,
   BlockEndWrong, IdentBlockDone, IdentDone, UnknownEcu, AnswerDone, SendByte, SendEchoOk,
   SendAckOk, SendAckWrong, WriteFails, ReadTimeout, vars, tester, globals

\* A block that recv_block accepts is byte for byte the one the ECU sent, with
\* the adapter there and every exchange hit by one change at most.
THEOREM BlocksCorrect == Spec => CompletedBlockGenuine
<1>1. ASSUME TypeOK, InStep, [Next]_vars, AtBlockEnd, live, counter' # counter
      PROVE  ecu.blk = buf \o <<END>>
  <2>1. Read({END})
    BY <1>1, WhoCounts DEF EndBlock
  <2>2. rx # <<>>
    BY <1>1, <2>1, ReadStep
  <2> QED BY <1>1, <2>2, BlockEndThere
<1>2. TypeOK /\ InStep /\ [Next]_vars =>
        [AtBlockEnd /\ live /\ counter' # counter => ecu.blk = buf \o <<END>>]_vars
  BY <1>1
<1> QED BY <1>2, EndsInStep, TypeCorrect, PTL DEF Spec, CompletedBlockGenuine
=============================================================================
