------------------------------- MODULE Kw1281 -------------------------------
(***************************************************************************)
(* The KW1281 diagnostic protocol as nerdobd2 speaks it (kw1281.c), with    *)
(* the outer loop of main() (core.c) that opens the port, starts a session  *)
(* and starts over after every error.                                       *)
(*                                                                         *)
(* The tester (this program) and the ECU exchange blocks byte by byte over  *)
(* one K-line.  Each byte but the last of a block is answered with its      *)
(* complement, and the adapter echoes everything the tester writes.  Blocks *)
(* are numbered by one shared counter and the two sides take turns.         *)
(***************************************************************************)
EXTENDS KLine

CONSTANTS
    LoopMod,        \* the main loop counter is a uint32_t: 2^32 in the code
    BlockTable,     \* the group blocks to poll: Block1 in the code
    PartId1,        \* the text of the one part number that is known
    Undecodable     \* values decode_value rejects

Fields == {"RPM", "THROTTLE_ANGLE", "INTAKE_AIR", "SPEED", "BATTERY",
           "COOLANT_TEMP", "INJECTION_TIME"}

\* An entry of the table: its group number, how often it is due, and for each
\* field the place of its value in the answer (0: not in this block).
Block == [block : 1..255, modulus : Nat \ {0}, slot : [Fields -> 0..NumSlots]]

NoSlots == [f \in Fields |-> 0]

Block1 ==
    << [block |-> 3, modulus |-> 1,
        slot |-> [NoSlots EXCEPT !["RPM"] = 1, !["THROTTLE_ANGLE"] = 3,
                                 !["INTAKE_AIR"] = 4]],
       [block |-> 4, modulus |-> 1,
        slot |-> [NoSlots EXCEPT !["RPM"] = 1, !["SPEED"] = 3]],
       [block |-> 2, modulus |-> 15,
        slot |-> [NoSlots EXCEPT !["RPM"] = 1, !["BATTERY"] = 3,
                                 !["INJECTION_TIME"] = 2]] >>

Items == DOMAIN BlockTable

ASSUME TableAssumption ==
    /\ LoopMod \in Nat \ {0}
    /\ BlockTable \in Seq(Block)
    /\ \E i \in Items : BlockTable[i].modulus = 1
    /\ PartId1 \in Byte /\ Undecodable \subseteq Byte

VARIABLES
    \* the serial thread: where main(), kw1281_init and kw1281_mainloop are
    pc,             \* "open", "init", "wake", "flush", "key", "recv", "send"
    step,           \* inside a byte exchange: "read", "write", "echo", "ack"
    pos,            \* the byte of the outgoing block being sent
    sent,           \* the byte last written, to compare the echo with
    buf,            \* the bytes of the incoming block taken so far
    item,           \* loopblock: the entry being polled, 0 while identifying
    \* the globals of kw1281.c, and obd_data
    counter, gotAck, activeblock, loopcount, shown

control == <<pc, step, pos, sent, buf, item>>
globals == <<counter, gotAck, activeblock, loopcount, shown>>
tester  == <<control, globals>>
vars    == <<tester, lineVars>>

-----------------------------------------------------------------------------
(* Blocks, their checks and the schedule.                                   *)

\* The length byte counts every byte of the block but itself, so the block
\* lacks only its end byte when that many have been taken.
Complete(b) == Len(b) >= 3 /\ Len(b) = b[1]

\* kw1281_inc_counter relies on the wrap of the unsigned counter.
IncCounter_Forgotten(c) == c
IncCounter(c) == (c + 1) % CounterMod

CounterMatches(c) == c = counter

\* buf[i++] = c
Store_Backwards(b, c) ==
    IF Len(b) < 3 THEN Append(b, c)
    ELSE SubSeq(b, 1, 3) \o <<c>> \o SubSeq(b, 4, Len(b))
Store(b, c) == Append(b, c)

\* The entries polled in pass n of the main loop, and the first of a set.
Due_Always(n) == Items
Due(n) == {i \in Items : n % BlockTable[i].modulus = 0}

First(i, S) == i \in S /\ \A j \in S : i <= j

\* The bytes of an outgoing block: send_ack while identifying, send_block when
\* polling an entry.
LastPos == IF item = 0 THEN 4 ELSE 5

RequestedGroup_First == BlockTable[1].block
RequestedGroup == BlockTable[item].block

Outgoing(p) ==
    CASE p = 1       -> LastPos - 1
      [] p = 2       -> counter
      [] p = 3       -> IF item = 0 THEN ACK ELSE GROUP
      [] p = LastPos -> END
      [] OTHER       -> RequestedGroup

IsReadyTitle(t) == t \in {ACK, ZERO}

\* The part number is looked at only while none has been recognised.
RecognisedBy(b) ==
    IF b[3] = ASCII /\ activeblock = "none" /\ Len(b) >= 4 /\ b[4] = PartId1
      THEN "block1" ELSE activeblock

EcuUnknown_Dropped == FALSE
EcuUnknown == activeblock = "none"

\* The fields recv_block hands to block_handle_field, which stores them.
StoredFields == Fields \ {"INJECTION_TIME"}

Carries(i, f) == BlockTable[i].slot[f] # 0

\* The value of field f in the answer b; past its data the buffer is not
\* initialised, so any byte g may be there.
ValueOf(f, b, g) ==
    LET p == 3 + BlockTable[item].slot[f]
    IN  IF p <= Len(b) THEN b[p] ELSE g

\* obd_data after the values of answer b have been stored.
ShownAfter(b, g) ==
    [f \in Fields |->
        IF /\ item # 0 /\ b[3] = ANSWER
           /\ Carries(item, f) /\ f \in StoredFields
           /\ ValueOf(f, b, g) \notin Undecodable
          THEN ValueOf(f, b, g) ELSE shown[f]]

-----------------------------------------------------------------------------
(* Reading and writing through the adapter.                                 *)

\* A read returns the next byte.  An adapter that hung up is always readable,
\* read() returns 0 and the byte handed back is uninitialised.
Incoming == IF ~live THEN {END} \cup Noise
            ELSE IF rx = <<>> THEN {} ELSE {Head(rx)}

\* One of the bytes S is read.
Read(S) ==
    /\ Incoming \cap S # {}
    /\ rx' = IF live THEN Tail(rx) ELSE rx
    /\ UNCHANGED <<ecuRx, addr, world>>

\* A write goes to the ECU, if it listens, and is echoed by the adapter.
Write(c) ==
    /\ live
    /\ rx' = Append(rx, c)
    /\ ecuRx' = IF ecu.st = "idle" THEN ecuRx ELSE Append(ecuRx, c)
    /\ UNCHANGED <<addr, world>>

\* Where the tester waits in kw1281_read_timeout.
Reading_NotForAck == pc \in {"key", "recv", "send"} /\ step \in {"read", "echo"}
Reading == pc \in {"key", "recv", "send"} /\ step \in {"read", "echo", "ack"}

Goto(p, s) == pc' = p /\ step' = s

\* main(): after a soft error kw1281_init is called again.
SoftError ==
    /\ Goto("init", "read") /\ pos' = 1 /\ sent' = 0 /\ buf' = <<>> /\ item' = 0

BeginSend(i) ==
    /\ Goto("send", "write") /\ pos' = 1 /\ sent' = 0 /\ buf' = <<>> /\ item' = i

-----------------------------------------------------------------------------
(* Opening the port and waking the ECU.                                     *)

\* kw1281_open succeeds; its tcflush drops what has arrived.
Open ==
    /\ pc = "open" /\ present
    /\ Goto("init", step) /\ live' = TRUE /\ rx' = <<>>
    /\ UNCHANGED <<pos, sent, buf, item, globals, ecuRx, addr, present, car,
                   ecu, faults, changed>>

\* kw1281_init: reset the counter and empty the receive buffer.
InitBegin ==
    /\ pc = "init"
    /\ Goto("wake", step) /\ counter' = 1 /\ rx' = <<>>
    /\ UNCHANGED <<pos, sent, buf, item, gotAck, activeblock, loopcount, shown,
                   ecuRx, addr, world>>

\* Send the address at five baud; the line may leave a bogus byte behind.
SendAddress ==
    /\ pc = "wake" /\ live
    /\ Goto("flush", step) /\ addr' = TRUE
    /\ rx' \in {rx} \cup {Append(rx, n) : n \in Noise}
    /\ UNCHANGED <<pos, sent, buf, item, globals, ecuRx, world>>

\* TIOCMGET or TIOCMSET fails: a hard error, main() closes and reopens.
HardError ==
    /\ pc = "wake" /\ ~live
    /\ Goto("open", step)
    /\ UNCHANGED <<pos, sent, buf, item, globals, lineVars>>

\* Read away the FIONREAD bytes that are there.
Flush ==
    /\ pc = "flush" /\ live
    /\ Goto("key", step) /\ rx' = <<>>
    /\ UNCHANGED <<pos, sent, buf, item, globals, ecuRx, addr, world>>

\* FIONREAD fails: a soft error.
FlushFails ==
    /\ pc = "flush" /\ ~live
    /\ SoftError
    /\ UNCHANGED <<globals, lineVars>>

\* Two bytes are read whatever they are: meant to be sync and key word.
ReadKeyByte ==
    /\ pc = "key" /\ step = "read" /\ Len(buf) < 2
    /\ \E c \in Incoming : Read({c}) /\ buf' = Append(buf, c)
    /\ UNCHANGED <<pc, step, pos, sent, item, globals>>

-----------------------------------------------------------------------------
(* kw1281_recv_byte_ack and kw1281_recv_block.                              *)

ReadByte ==
    /\ step = "read"
    /\ \/ pc = "key" /\ Len(buf) = 2
       \/ pc = "recv" /\ ~Complete(buf)
    /\ \E c \in Incoming : Read({c}) /\ sent' = Neg(c)
    /\ Goto(pc, "write")
    /\ UNCHANGED <<pos, buf, item, globals>>

WriteAck ==
    /\ pc \in {"key", "recv"} /\ step = "write"
    /\ Write(sent)
    /\ Goto(pc, "echo")
    /\ UNCHANGED <<pos, sent, buf, item, globals>>

\* The third key byte ends kw1281_init; kw1281_get_ascii_blocks begins.
TakeKey ==
    /\ pc = "key" /\ step = "echo"
    /\ Read({sent})
    /\ Goto("recv", "read") /\ buf' = <<>> /\ gotAck' = FALSE
    /\ UNCHANGED <<pos, sent, item, counter, activeblock, loopcount, shown>>

\* The byte joins the block.  The second one must be the counter; with the
\* last one before the block end the contents are looked at.
TakeByte ==
    /\ pc = "recv" /\ step = "echo"
    /\ Len(buf) = 1 => CounterMatches(Neg(sent))
    /\ Read({sent})
    /\ Goto("recv", "read") /\ buf' = Store(buf, Neg(sent))
    /\ IF Complete(buf')
         THEN /\ activeblock' = RecognisedBy(buf')
              /\ \E g \in Noise : shown' = ShownAfter(buf', g)
         ELSE UNCHANGED <<activeblock, shown>>
    /\ UNCHANGED <<pos, sent, item, counter, gotAck, loopcount>>

CounterWrong ==
    /\ pc = "recv" /\ step = "echo" /\ Len(buf) = 1
    /\ ~CounterMatches(Neg(sent))
    /\ Read({sent})
    /\ SoftError /\ UNCHANGED globals

EchoWrong ==
    /\ pc \in {"key", "recv", "send"} /\ step = "echo"
    /\ Read(Byte \ {sent})
    /\ SoftError /\ UNCHANGED globals

\* The next byte is the block end.
AtBlockEnd == pc = "recv" /\ step = "read" /\ Complete(buf)

BlockEndWrong ==
    /\ AtBlockEnd
    /\ Read(Byte \ {END})
    /\ SoftError /\ UNCHANGED globals

\* The block is complete: count it and raise the ready flag if it says so.
EndBlock ==
    /\ AtBlockEnd
    /\ Read({END})
    /\ counter' = IncCounter(counter)
    /\ gotAck' = (gotAck \/ IsReadyTitle(buf[3]))
    /\ UNCHANGED <<activeblock, shown>>

\* kw1281_get_ascii_blocks: not ready yet, acknowledge and go on.
IdentBlockDone ==
    /\ item = 0 /\ EndBlock /\ ~gotAck'
    /\ BeginSend(0) /\ UNCHANGED loopcount

\* kw1281_get_ascii_blocks returns; the main loop starts at pass 0.
IdentDone ==
    /\ item = 0 /\ EndBlock /\ gotAck' /\ ~EcuUnknown
    /\ loopcount' = 0
    /\ \E i \in Items : First(i, Due(0)) /\ BeginSend(i)

\* "Error: Unknown ECU part number."
UnknownEcu ==
    /\ item = 0 /\ EndBlock /\ gotAck' /\ EcuUnknown
    /\ SoftError /\ UNCHANGED loopcount

\* kw1281_get_block returns; on to the next entry that is due.
AnswerDone ==
    /\ item # 0 /\ EndBlock
    /\ LET later == {i \in Due(loopcount) : i > item}
           next  == (loopcount + 1) % LoopMod
       IN  \E i \in Items :
             /\ BeginSend(i)
             /\ \/ First(i, later) /\ UNCHANGED loopcount
                \/ later = {} /\ First(i, Due(next)) /\ loopcount' = next

-----------------------------------------------------------------------------
(* kw1281_send_byte_ack, kw1281_send_ack and kw1281_send_block.             *)

\* The counter is taken, and stepped, when the second byte is about to go.
CounterAfter(p) == IF p = 2 THEN IncCounter(counter) ELSE counter

SendByte ==
    /\ pc = "send" /\ step = "write"
    /\ Write(Outgoing(pos)) /\ sent' = Outgoing(pos)
    /\ counter' = CounterAfter(pos)
    /\ Goto("send", "echo")
    /\ UNCHANGED <<pos, buf, item, gotAck, activeblock, loopcount, shown>>

\* The block end has no acknowledgement: wait for the ECU's block.
SendEchoOk ==
    /\ pc = "send" /\ step = "echo"
    /\ Read({sent})
    /\ IF pos = LastPos THEN Goto("recv", "read") /\ pos' = 1 /\ sent' = 0
                        ELSE Goto("send", "ack") /\ UNCHANGED <<pos, sent>>
    /\ UNCHANGED <<buf, item, globals>>

SendAckOk ==
    /\ pc = "send" /\ step = "ack"
    /\ Read({Neg(sent)})
    /\ Goto("send", "write") /\ pos' = pos + 1 /\ sent' = 0
    /\ UNCHANGED <<buf, item, globals>>

SendAckWrong ==
    /\ pc = "send" /\ step = "ack"
    /\ Read(Byte \ {Neg(sent)})
    /\ SoftError /\ UNCHANGED globals

\* A write to an adapter that hung up fails.
WriteFails ==
    /\ step = "write" /\ ~live
    /\ counter' = IF pc = "send" THEN CounterAfter(pos) ELSE counter
    /\ SoftError
    /\ UNCHANGED <<gotAck, activeblock, loopcount, shown, lineVars>>

\* kw1281_read_timeout gives up after a second with nothing to read.
TimesOut ==
    /\ Reading /\ live /\ rx = <<>>
    /\ SoftError
    /\ UNCHANGED <<globals, line, present, live, car, ecu, changed>>

ReadTimeout == ~ByteComing /\ TimesOut /\ UNCHANGED faults

-----------------------------------------------------------------------------
Init ==
    /\ pc = "open" /\ step = "read" /\ pos = 1 /\ sent = 0 /\ buf = <<>>
    /\ item = 0
    /\ counter = 0 /\ gotAck = FALSE /\ activeblock = "none" /\ loopcount = 0
    /\ shown = [f \in Fields |-> 0]
    /\ LineInit

TesterNext ==
    \/ Open \/ InitBegin \/ SendAddress \/ HardError \/ Flush \/ FlushFails
    \/ ReadKeyByte \/ ReadByte \/ WriteAck \/ TakeKey \/ TakeByte
    \/ CounterWrong \/ EchoWrong \/ BlockEndWrong
    \/ IdentBlockDone \/ IdentDone \/ UnknownEcu \/ AnswerDone
    \/ SendByte \/ SendEchoOk \/ SendAckOk \/ SendAckWrong
    \/ WriteFails \/ ReadTimeout

\* The ECU answers the address once the bogus bytes have been read away...
EcuWake == pc # "flush" /\ Wake /\ UNCHANGED <<tester, faults>>

EcuNext == EcuWake \/ ((EcuSay \/ EcuHear \/ EcuListen) /\ UNCHANGED tester)

\* ... or, a disturbance, before; and it may be slower than the timeout.
EarlyWake   == Fault /\ pc = "flush" /\ Wake /\ UNCHANGED tester
SlowTimeout == Fault /\ ByteComing /\ TimesOut

FaultNext == SlowTimeout \/ EarlyWake \/ (Disturbance /\ UNCHANGED tester)

ReplugStep == Replug /\ UNCHANGED tester

Next == TesterNext \/ EcuNext \/ FaultNext \/ ReplugStep

Spec == Init /\ [][Next]_vars

\* main() never blocks for good: every read and write has a timeout.  The ECU
\* answers, and a cable that was pulled is plugged in again.
FairSpec == /\ Spec
            /\ WF_vars(TesterNext) /\ WF_vars(EcuNext)
            /\ WF_vars(ReplugStep)

-----------------------------------------------------------------------------
(* Properties.                                                              *)

ControlTypeOK ==
    /\ pc \in {"open", "init", "wake", "flush", "key", "recv", "send"}
    /\ step \in {"read", "write", "echo", "ack"}
    /\ pos \in 1..LastPos /\ sent \in Byte /\ buf \in Seq(Byte)
    /\ item \in {0} \cup Items
    /\ pc = "send" /\ step = "ack" => pos < LastPos

GlobalsTypeOK ==
    /\ counter \in Byte /\ gotAck \in BOOLEAN
    /\ activeblock \in {"none", "block1"} /\ loopcount \in Nat
    /\ shown \in [Fields -> Byte]

\* Every variable has its type, the tester is never past the end of the block
\* it sends, nor the ECU of the block it says.
TypeOK == ControlTypeOK /\ GlobalsTypeOK /\ LineTypeOK

\* Group blocks are requested only after the ECU has said it is ready and a
\* part number has been recognised (kw1281_get_ascii_blocks), however often
\* the session was restarted.
ReadyBeforeRequest ==
    item # 0 => gotAck /\ activeblock = "block1" /\ pc \in {"recv", "send"}

\* When the tester is about to send a block to an ECU that waits for one, both
\* expect the same block number and nothing of an older exchange is left on the
\* line: the two counters never drift apart, whatever was lost or restarted
\* (kw1281_inc_counter in recv_block, send_ack and send_block).
CountersAgree ==
    pc = "send" /\ pos = 1 /\ step = "write" /\ live /\ ecu.st = "listen" =>
        ecu.ctr = counter /\ ecu.in = <<>> /\ rx = <<>> /\ ecuRx = <<>>

\* Values reach obd_data only from the answer to the group they are decoded
\* for: no late, repeated or foreign block is taken for it.
AnswerMatchesRequest ==
    [][ shown' # shown /\ live => ecu.asked = BlockTable[item].block ]_vars

\* A block recv_block accepts as complete is, byte for byte, the one the ECU
\* sent: what was changed or lost on the line never gets past the block end
\* while the adapter is there.
CompletedBlockGenuine ==
    [][ AtBlockEnd /\ live /\ counter' # counter =>
            ecu.blk = buf \o <<END>> ]_vars

\* Once the disturbances are over every entry of the table is answered again
\* and again: no error leaves the tester stuck, or polling without the ECU.
EveryGroupAnswered == \A i \in Items : []<>(item = i /\ AtBlockEnd)

\* kw1281.c:421 calls recv_block "receive a complete block": what it stores
\* should be values of the block the ECU sent.
StoredValuesGenuine ==
    [][ shown' # shown /\ live =>
            \A f \in Fields : shown'[f] # shown[f] =>
                \E k \in DOMAIN ecu.blk : ecu.blk[k] = shown'[f] ]_vars

\* kw1281.c:602 "Error: Unknown ECU part number.": an ECU with another part
\* number should not be polled.
OnlyKnownEcuPolled ==
    item # 0 /\ live /\ ecu.st # "idle" => car = PartId1

-----------------------------------------------------------------------------
(* The session at the level of whole blocks.                                *)

InSession == pc \in {"recv", "send"}

\* A number is used up when the counter steps: on the second byte of a block
\* the tester sends, on the last byte of one it receives.
Session == INSTANCE BlockSession WITH
    Entries <- Items,
    Modulus <- [i \in Items |-> BlockTable[i].modulus],
    phase   <- IF ~InSession THEN "down" ELSE IF item = 0 THEN "ident" ELSE "poll",
    turn    <- IF pc = "send" /\ (pos = 1 \/ (pos = 2 /\ step = "write"))
                 THEN "tester" ELSE "ecu",
    number  <- IF InSession THEN counter ELSE 1,
    entry   <- item,
    pass    <- IF item = 0 THEN 0 ELSE loopcount

\* The bytes implement the session: block numbers without gap or repetition,
\* strict alternation, and the polling order of kw1281_mainloop, under every
\* disturbance and restart.
SessionSpec == Session!Spec

=============================================================================
