------------------------------ MODULE Skytraq ------------------------------
(***************************************************************************)
(* The GPS thread and its driver (gps.c, datalogger.c, lowlevel.c): it asks *)
(* the Skytraq receiver for its software version, and then takes navigation *)
(* data out of a stream of bytes for ever.                                  *)
(*                                                                         *)
(* A message is A0 A1, two bytes of length, the payload, its checksum, CR   *)
(* and LF.  Data abstraction: a byte has four bits instead of eight, so the  *)
(* constants of the code have other values here; a navigation payload is its *)
(* identifier, the quality of the fix (none or a poor one, or a good one),   *)
(* latitude and longitude in a byte each.                                   *)
(***************************************************************************)
EXTENDS Naturals, Sequences

CONSTANTS
    Positions,      \* the positions the receiver reports: <<latitude, longitude>>
    Retries,        \* how often a request is repeated: 300 in the code
    Room,           \* the receiver sends while fewer bytes are on their way
    Noise,          \* what a disturbed or an uninitialised byte may hold
    MaxFaults       \* bound on the disturbances of a behaviour

\* A byte: four bits are enough to tell the bytes apart that matter here.
Width == 16
Byte == 0..(Width - 1)

ASSUME SkytraqAssumption ==
    /\ Positions \subseteq Byte \X Byte /\ Positions # {}
    /\ Retries \in Nat \ {0} /\ Room \in Nat \ {0} /\ MaxFaults \in Nat
    /\ Noise \subseteq Byte /\ Noise # {}

A0 == 14
A1 == 15
CR == 13
LF == 12
\* The identifiers of messages.
QUERY_VERSION == 2
VERSION == 5
ACK == 3
NACK == 4
NAVIGATION == 8
UNUSABLE == 0
GOOD == 1

VARIABLES
    pc,             \* what the thread does: "request", "again", "answer",
                    \* "version" or "loop"
    tries,          \* retries_left
    rd,             \* skytraq_read_next_package
    stored,         \* the position last stored in obd_data
    \* the receiver, and the bytes between it and the thread
    stream,         \* bytes on their way to the thread
    requests,       \* requests on their way to the receiver
    receiver,       \* how it answers a request: "ack", "nack" or "silent"
    faults          \* disturbances so far

thread == <<pc, tries, stored>>
outside == <<requests, receiver, faults>>
vars == <<thread, rd, stream, outside>>

-----------------------------------------------------------------------------
(* Messages.                                                                *)

\* a ^ b, for bytes: bit by bit, w being the weight of a bit.
BitXor(a, b, w) == (((a \div w) + (b \div w)) % 2) * w
Xor(a, b) == BitXor(a, b, 1) + BitXor(a, b, 2) + BitXor(a, b, 4) + BitXor(a, b, 8)

\* calculate_skytraq_checksum of the payloads the receiver sends.
Checksum(p) ==
    LET two == Xor(p[1], p[2])
    IN  IF Len(p) = 2 THEN two ELSE Xor(Xor(two, p[3]), p[4])

Frame(p) == <<A0, A1, 0, Len(p)>> \o p \o <<Checksum(p), CR, LF>>

NavFrame(q, x) == Frame(<<NAVIGATION, q, x[1], x[2]>>)

\* Byte i of a payload; past its end it is whatever is in memory there.
At(p, i, g) == IF i <= Len(p) THEN p[i] ELSE g

-----------------------------------------------------------------------------
(* skytraq_read_next_package.                                               *)

Waiting == {"hunt", "high", "low", "data", "check", "end1", "end2"}

\* last is whether lastByte is A0, len the length of the message, data the first bytes of the
\* payload, got their number, sum its checksum, ok whether it is valid so far.
Idle == [st |-> "idle", last |-> FALSE, len |-> 0, data |-> <<>>, got |-> 0,
         sum |-> 0, ok |-> TRUE]

\* A call: lastByte is not initialised.
StartRead ==
    \E b \in BOOLEAN : rd' = [Idle EXCEPT !.st = "hunt", !.last = b]

\* while (dataRead < pkg->length)
PayloadDone_Overlong(n, len) == n > len
PayloadDone(n, len) == n = len

Payload(r) ==
    [r EXCEPT !.data = <<>>, !.got = 0, !.sum = 0,
              !.st = IF PayloadDone(0, r.len) THEN "check" ELSE "data"]

\* check_skytraq_checksum
ChecksumOk_Skipped(sum, c) == TRUE
ChecksumOk(sum, c) == sum = c

\* readInteger, from the high byte on; SkyTraqPackage.length is a byte, so that no more
\* than the low one is left of it.
Integer(high) == high * Width
Length(n, low) == (n + low) % Width

\* After a message that is not valid the search goes on behind it.
Rejected == [Idle EXCEPT !.st = "hunt"]

\* The reader r after byte c.
Taken(r, c) ==
    CASE r.st = "hunt"  -> IF r.last /\ c = A1
                             THEN [Idle EXCEPT !.st = "high"]
                             ELSE [r EXCEPT !.last = (c = A0)]
      [] r.st = "high"  -> [r EXCEPT !.st = "low", !.len = Integer(c)]
      [] r.st = "low"   -> Payload([r EXCEPT !.len = Length(@, c)])
      [] r.st = "data"  ->
            [r EXCEPT !.data = IF Len(@) < 4 THEN Append(@, c) ELSE @,
                      !.got = @ + 1, !.sum = Xor(@, c),
                      !.st = IF PayloadDone(r.got + 1, r.len) THEN "check" ELSE "data"]
      [] r.st = "check" -> [r EXCEPT !.st = "end1", !.ok = ChecksumOk(r.sum, c)]
      [] r.st = "end1"  -> [r EXCEPT !.st = "end2", !.ok = @ /\ c = CR]
      [] r.st = "end2"  -> IF r.ok /\ c = LF THEN [r EXCEPT !.st = "package"]
                                             ELSE Rejected

\* A message that is not valid is forgotten where it is.
Take(c) == rd' = Taken(rd, c)

ReadByte ==
    /\ rd.st \in Waiting /\ stream # <<>>
    /\ Take(Head(stream)) /\ stream' = Tail(stream)
    /\ UNCHANGED <<thread, outside>>

Fault == faults < MaxFaults /\ faults' = faults + 1

NoPackage == rd' = [Idle EXCEPT !.st = "none"]

\* The time is over while the search goes on; the byte just read is lost.
TimeUp ==
    /\ Fault
    /\ rd.st = "hunt" /\ stream # <<>>
    /\ NoPackage /\ stream' = Tail(stream)
    /\ UNCHANGED <<thread, requests, receiver>>

\* Nothing comes in time.  A byte of the header or the end is then what is in
\* memory; the payload is read again from its first byte, for read_with_timeout
\* says that it has read nothing.
ReadTimeout ==
    /\ Fault
    /\ rd.st \in Waiting /\ stream = <<>>
    /\ CASE rd.st = "hunt" -> NoPackage
         [] rd.st = "data" -> rd' = Payload(rd)
         [] OTHER          -> \E n \in Noise : Take(n)
    /\ UNCHANGED <<thread, stream, requests, receiver>>

-----------------------------------------------------------------------------
(* skytraq_read_software_version and its request.                           *)

Write == requests' = requests + 1 /\ UNCHANGED <<receiver, faults>>

\* The request is written before the loop of the retries...
WriteRequest ==
    /\ pc = "request" /\ pc' = "again" /\ tries' = Retries
    /\ Write
    /\ UNCHANGED <<stored, rd, stream>>

\* ... and again in each turn of it.
WriteAgain ==
    /\ pc = "again" /\ pc' = "answer"
    /\ Write /\ StartRead
    /\ UNCHANGED <<tries, stored, stream>>

Answers(id, g) == /\ rd.st = "package"
                  /\ At(rd.data, 1, g) = id /\ At(rd.data, 2, g) = QUERY_VERSION

Refused(g) == Answers(NACK, g)

Confirmed_AnyAnswer(g) == Answers(ACK, g) \/ Answers(NACK, g)
Confirmed(g) == Answers(ACK, g)

TriesLeft_Forever(n) == n
TriesLeft(n) == n - 1

\* skytraq_write_package_with_response returns; the next message is read.
Returned(p) == pc' = p /\ tries' = 0 /\ StartRead

GotAnswer ==
    /\ pc = "answer" /\ rd.st \in {"package", "none"}
    /\ \E g \in Noise :
         \/ Confirmed(g) /\ Returned("version")
         \/ ~Confirmed(g) /\ Refused(g) /\ Returned("loop")
         \/ ~Confirmed(g) /\ ~Refused(g) /\ TriesLeft(tries) = 0 /\ Returned("loop")
         \/ /\ ~Confirmed(g) /\ ~Refused(g) /\ TriesLeft(tries) # 0
            /\ pc' = "again" /\ tries' = TriesLeft(tries) /\ rd' = Idle
    /\ UNCHANGED <<stored, stream, outside>>

\* Whatever comes next is taken for the version.
GotVersion ==
    /\ pc = "version" /\ rd.st \in {"package", "none"}
    /\ pc' = "loop" /\ StartRead
    /\ UNCHANGED <<tries, stored, stream, outside>>

-----------------------------------------------------------------------------
(* The loop of the thread.                                                  *)

\* Nothing, or a message of another kind: freed, and on to the next.
Ignore ==
    /\ pc = "loop"
    /\ \/ rd.st = "none"
       \/ rd.st = "package" /\ \E g \in Noise : At(rd.data, 1, g) # NAVIGATION
    /\ StartRead
    /\ UNCHANGED <<thread, stream, outside>>

Navigation(g) == /\ pc = "loop" /\ rd.st = "package"
                 /\ At(rd.data, 1, g) = NAVIGATION

\* Navigation data without a fix, or with a poor one: `continue`.
SkipFix ==
    /\ \E g \in Noise : Navigation(g) /\ At(rd.data, 2, g) # GOOD
    /\ StartRead
    /\ UNCHANGED <<thread, stream, outside>>

FixAtHand(g) == Navigation(g) /\ At(rd.data, 2, g) = GOOD

StoreFix ==
    /\ \E g \in Noise : /\ FixAtHand(g)
                        /\ stored' = <<At(rd.data, 3, g), At(rd.data, 4, g)>>
    /\ StartRead
    /\ UNCHANGED <<pc, tries, stream, outside>>

-----------------------------------------------------------------------------
(* The receiver and the line.                                               *)

Send(bytes) ==
    /\ Len(stream) < Room
    /\ stream' = stream \o bytes

SendNavigation(q) ==
    /\ \E x \in Positions : Send(NavFrame(q, x))
    /\ UNCHANGED <<thread, rd, outside>>

Answer ==
    CASE receiver = "ack"    -> Frame(<<ACK, QUERY_VERSION>>) \o
                                Frame(<<VERSION, 1, 0, 0>>)
      [] receiver = "nack"   -> Frame(<<NACK, QUERY_VERSION>>)
      [] receiver = "silent" -> <<>>

Reply ==
    /\ requests > 0 /\ requests' = requests - 1
    /\ Send(Answer)
    /\ UNCHANGED <<thread, rd, receiver, faults>>

Garble ==
    /\ Fault /\ stream # <<>>
    /\ \E n \in Noise : stream' = <<n>> \o Tail(stream)
    /\ UNCHANGED <<thread, rd, requests, receiver>>

Lose ==
    /\ Fault /\ stream # <<>> /\ stream' = Tail(stream)
    /\ UNCHANGED <<thread, rd, requests, receiver>>

-----------------------------------------------------------------------------
Init ==
    /\ pc = "request" /\ tries = 0 /\ rd = Idle
    /\ stored = <<0, 0>>
    /\ stream = <<>> /\ requests = 0 /\ faults = 0
    /\ receiver \in {"ack", "nack", "silent"}

ThreadNext == \/ ReadByte \/ WriteRequest \/ WriteAgain \/ GotAnswer \/ GotVersion
              \/ Ignore \/ SkipFix \/ StoreFix

Next == \/ ThreadNext \/ TimeUp \/ ReadTimeout \/ Reply \/ Garble \/ Lose
        \/ \E q \in {UNUSABLE, GOOD} : SendNavigation(q)

Spec == Init /\ [][Next]_vars

\* The thread runs, and the receiver has a good fix again and again.
FairSpec == Spec /\ WF_vars(ThreadNext) /\ SF_vars(SendNavigation(GOOD))

-----------------------------------------------------------------------------
(* Properties.                                                              *)

\* Every variable has its type, and the reader never takes more bytes for a
\* payload than its length says.
TypeOK ==
    /\ pc \in {"request", "again", "answer", "version", "loop"}
    /\ tries \in 0..Retries
    /\ rd \in [st : Waiting \cup {"idle", "package", "none"}, last : BOOLEAN,
               len : Nat, data : Seq(Byte), got : Nat, sum : Byte, ok : BOOLEAN]
    /\ rd.got <= rd.len
    /\ stored \in Byte \X Byte
    /\ stream \in Seq(Byte) /\ requests \in 0..(Retries + 1)
    /\ receiver \in {"ack", "nack", "silent"} /\ faults \in 0..MaxFaults

\* A position that is stored is one the receiver reported: a byte lost, changed
\* or late never mixes two messages into one.
FixGenuine == stored \in Positions \cup {<<0, 0>>}

\* The request counts as confirmed only if the receiver confirmed it.
AnswerGenuine == pc = "version" => receiver = "ack"

\* As long as there are fixes they are stored: the search for the next message
\* recovers from every disturbance, and the request does not hold the thread up.
FixesStored == []<>(\E g \in Noise : FixAtHand(g))
=============================================================================
