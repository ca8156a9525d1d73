-------------------------------- MODULE KLine --------------------------------
(***************************************************************************)
(* The other end of kw1281.c: the serial adapter, the K-line and the ECU.   *)
(* None of it is code of this repository; it is the peer kw1281.c is        *)
(* written for.  The ECU sends one byte at a time and waits for its         *)
(* complement before the next, except after the last byte of a block, and   *)
(* gives the session up when anything but what it expects comes back.       *)
(*                                                                         *)
(* Data abstraction: the text of an ASCII block is one byte, which names    *)
(* the part; each three-byte value of a group answer is one byte.           *)
(***************************************************************************)
EXTENDS Naturals, Sequences

CONSTANTS
    CounterMod,     \* the block counter is a uint8_t: 256 in the code
    NumSlots,       \* values in a group answer: 4 for a real ECU
    Cars,           \* the part number texts of the ECUs one may plug into
    AsciiBlocks,    \* identification blocks an ECU sends before its ACK block
    Values,         \* the values an ECU reports
    Noise,          \* what a disturbed or an uninitialised byte may hold
    MaxFaults       \* bound on the disturbances of a behaviour

Byte == 0..255

ASSUME LineAssumption ==
    /\ CounterMod \in 2..256
    /\ NumSlots \in 1..200
    /\ Cars \subseteq Byte /\ Cars # {}
    /\ AsciiBlocks \in Nat \ {0}
    /\ Values \subseteq Byte /\ Values # {}
    /\ Noise \subseteq Byte /\ Noise # {}
    /\ MaxFaults \in Nat

\* Block titles and the block end byte; what an ECU says when it is woken.
ASCII == 246
ACK == 9
ZERO == 0
GROUP == 41
ANSWER == 231
END == 3
SYNC == 85
KW1 == 1
KW2 == 138

VARIABLES
    rx,             \* bytes on their way to the tester
    ecuRx,          \* bytes on their way to the ECU
    addr,           \* the five-baud address has been sent, the ECU not awake yet
    present,        \* the adapter is plugged in
    live,           \* fd refers to the adapter that is plugged in
    car,            \* the part number of the ECU at the other end
    ecu,            \* the ECU
    faults,         \* disturbances so far
    changed         \* a byte has been changed since the ECU last said one

line    == <<rx, ecuRx, addr>>
world   == <<present, live, car, ecu, faults, changed>>
lineVars == <<line, world>>

\* 0xff - c: the acknowledgement of a byte.
Neg_Twos(c) == 256 - c
Neg(c) == 255 - c

NextNumber(n) == (n + 1) % CounterMod

EcuBlock(n, title, data) ==
    <<Len(data) + 3, n, title>> \o data \o <<END>>

EcuStates == {"idle", "say", "hear", "listen"}

\* blk is the block being said, at the place of the byte in it, in the bytes of
\* the tester's block heard so far, ctr the next block number, left the number
\* of identification blocks to go, asked the group last asked for.
IdleEcu == [st |-> "idle", blk |-> <<>>, at |-> 1, in |-> <<>>, ctr |-> 1,
            left |-> 0, asked |-> 0]

\* A byte from the ECU reaches the tester while the adapter is there.
Deliver(s) == rx' = IF live THEN rx \o s ELSE rx

\* Something is about to reach the tester without its doing anything.
ByteComing ==
    \/ rx # <<>> \/ addr \/ ecu.st = "say"
    \/ ecu.st \in {"hear", "listen"} /\ ecuRx # <<>>

-----------------------------------------------------------------------------
\* Woken by the address, the ECU sends sync and key word, wants the last one
\* acknowledged and has its identification to send.
Wake ==
    /\ addr /\ addr' = FALSE /\ ecuRx' = <<>>
    /\ Deliver(<<SYNC, KW1, KW2>>)
    /\ ecu' = [IdleEcu EXCEPT !.st = "hear", !.blk = <<KW2>>,
                              !.left = AsciiBlocks]
    /\ changed' = FALSE
    /\ UNCHANGED <<present, live, car>>

EcuSay ==
    /\ ecu.st = "say" /\ ~addr
    /\ Deliver(<<ecu.blk[ecu.at]>>)
    /\ ecu' = IF ecu.at = Len(ecu.blk)
                THEN [ecu EXCEPT !.st = "listen", !.in = <<>>,
                                 !.ctr = NextNumber(@)]
                ELSE [ecu EXCEPT !.st = "hear"]
    /\ changed' = FALSE
    /\ UNCHANGED <<ecuRx, addr, present, live, car, faults>>

\* The next identification block: the part number first, at last an ACK block.
Identify(e) ==
    LET text == IF e.left = AsciiBlocks THEN car ELSE 0
    IN  IF e.left > 0
          THEN [e EXCEPT !.st = "say", !.at = 1, !.left = @ - 1,
                         !.blk = EcuBlock(e.ctr, ASCII, <<text>>)]
          ELSE [e EXCEPT !.st = "say", !.at = 1,
                         !.blk = EcuBlock(e.ctr, ACK, <<>>)]

\* The byte just said is acknowledged: go on, or give the session up.
EcuHear ==
    /\ ecu.st = "hear" /\ ecuRx # <<>>
    /\ IF Head(ecuRx) # Neg(ecu.blk[ecu.at])
         THEN ecuRx' = <<>> /\ ecu' = [ecu EXCEPT !.st = "idle"]
         ELSE /\ ecuRx' = Tail(ecuRx)
              /\ ecu' = IF ecu.at = Len(ecu.blk)
                          THEN Identify(ecu)
                          ELSE [ecu EXCEPT !.st = "say", !.at = @ + 1]
    /\ UNCHANGED <<rx, addr, present, live, car, faults, changed>>

\* What the ECU may say to a whole block of the tester.
Replies(in) ==
    LET next == [ecu EXCEPT !.in = in, !.ctr = NextNumber(@)]
    IN  CASE in[3] = ACK -> {Identify(next)}
          [] in[3] = GROUP ->
               {[next EXCEPT !.st = "say", !.at = 1, !.asked = in[4],
                             !.blk = EcuBlock(next.ctr, ANSWER, r)] :
                   r \in [1..NumSlots -> Values]}
          [] OTHER -> {[ecu EXCEPT !.st = "idle"]}

\* A byte of the tester's block: acknowledge it, or answer the whole block.
EcuListen ==
    /\ ecu.st = "listen" /\ ecuRx # <<>> /\ ~addr
    /\ LET c     == Head(ecuRx)
           in    == Append(ecu.in, c)
           atEnd == Len(in) > 3 /\ Len(in) > in[1]
           wrong == \/ Len(in) = 2 /\ c # ecu.ctr
                    \/ atEnd /\ c # END
       IN  CASE wrong -> /\ ecu' = [ecu EXCEPT !.st = "idle"]
                         /\ ecuRx' = <<>> /\ UNCHANGED rx
             [] atEnd /\ ~wrong -> /\ ecu' \in Replies(in)
                                   /\ ecuRx' = Tail(ecuRx) /\ UNCHANGED rx
             [] OTHER -> /\ ecu' = [ecu EXCEPT !.in = in]
                         /\ ecuRx' = Tail(ecuRx) /\ Deliver(<<Neg(c)>>)
    /\ UNCHANGED <<addr, present, live, car, faults, changed>>

\* The cable is plugged in again, perhaps at another car.
Replug ==
    /\ ~present /\ present' = TRUE
    /\ car' \in Cars /\ ecu' = IdleEcu /\ ecuRx' = <<>> /\ addr' = FALSE
    /\ UNCHANGED <<rx, live, faults, changed>>

-----------------------------------------------------------------------------
(* Disturbances.                                                            *)

Fault == faults < MaxFaults /\ faults' = faults + 1

\* A byte is changed or lost on its way, in either direction.  Between two bytes
\* the ECU says of its own accord there is one change only: a byte changed on its
\* way to one end and its complement changed back on its way to the other would
\* defeat any program.
Garble ==
    /\ Fault
    /\ ~changed /\ changed' = TRUE
    /\ \E n \in Noise :
         \/ rx # <<>> /\ rx' = <<n>> \o Tail(rx) /\ UNCHANGED ecuRx
         \/ ecuRx # <<>> /\ ecuRx' = <<n>> \o Tail(ecuRx) /\ UNCHANGED rx
    /\ UNCHANGED <<addr, present, live, car, ecu>>

Lose ==
    /\ Fault
    /\ \/ rx # <<>> /\ rx' = Tail(rx) /\ UNCHANGED ecuRx
       \/ ecuRx # <<>> /\ ecuRx' = Tail(ecuRx) /\ UNCHANGED rx
    /\ UNCHANGED <<addr, present, live, car, ecu, changed>>

\* The ECU forgets the session (ignition off and on).
EcuReset ==
    /\ Fault
    /\ ecu.st # "idle" \/ addr
    /\ ecu' = [ecu EXCEPT !.st = "idle"] /\ ecuRx' = <<>> /\ addr' = FALSE
    /\ UNCHANGED <<rx, present, live, car, changed>>

\* Instead of the block it is about to say the ECU says one that only means it
\* is ready: 0x00 after an error, or ACK when it has no data.
EcuReadyBlock ==
    /\ Fault
    /\ ecu.st = "say" /\ ecu.at = 1
    /\ \E t \in {ACK, ZERO} :
         ecu' = [ecu EXCEPT !.blk = EcuBlock(ecu.ctr, t, <<>>)]
    /\ UNCHANGED <<line, present, live, car, changed>>

\* The cable is pulled.
Unplug ==
    /\ Fault
    /\ present /\ present' = FALSE /\ live' = FALSE /\ rx' = <<>>
    /\ UNCHANGED <<ecuRx, addr, car, ecu, changed>>

Disturbance == Garble \/ Lose \/ EcuReset \/ EcuReadyBlock \/ Unplug

-----------------------------------------------------------------------------
LineInit ==
    /\ rx = <<>> /\ ecuRx = <<>> /\ addr = FALSE
    /\ present \in BOOLEAN /\ live = FALSE
    /\ car \in Cars /\ ecu = IdleEcu /\ faults = 0 /\ changed = FALSE

EcuType == [st : EcuStates, blk : Seq(Byte), at : Nat, in : Seq(Byte),
            ctr : Byte, left : Nat, asked : Byte]

LineTypeOK ==
    /\ rx \in Seq(Byte) /\ ecuRx \in Seq(Byte) /\ addr \in BOOLEAN
    /\ present \in BOOLEAN /\ live \in BOOLEAN
    /\ car \in Cars /\ ecu \in EcuType /\ faults \in 0..MaxFaults
    /\ changed \in BOOLEAN
    /\ ecu.st \in {"say", "hear"} => ecu.at \in 1..Len(ecu.blk)
=============================================================================
