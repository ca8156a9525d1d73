--------------------------- MODULE SkytraqProofs ---------------------------
(* Proofs about Skytraq. *)
EXTENDS Skytraq, Integers, SequenceTheorems, TLAPS

-----------------------------------------------------------------------------
(* The checksum.                                                            *)

\* A bit of an exclusive or is set or not.
LEMMA BitXorRange ==
    ASSUME NEW a \in Byte, NEW b \in Byte
    PROVE  /\ BitXor(a, b, 1) \in {0, 1} /\ BitXor(a, b, 2) \in {0, 2}
           /\ BitXor(a, b, 4) \in {0, 4} /\ BitXor(a, b, 8) \in {0, 8}
  BY DEF BitXor, Byte, Width

\* The exclusive or of two bytes is a byte.
LEMMA XorRange ==
    ASSUME NEW a \in Byte, NEW b \in Byte
    PROVE  Xor(a, b) \in Byte
  <1> DEFINE one == BitXor(a, b, 1)  two == BitXor(a, b, 2)
             four == BitXor(a, b, 4)  eight == BitXor(a, b, 8)
  <1>1. one \in {0, 1} /\ two \in {0, 2} /\ four \in {0, 4} /\ eight \in {0, 8}
    BY BitXorRange
  <1>2. Xor(a, b) = one + two + four + eight
    BY DEF Xor
  <1> HIDE DEF one, two, four, eight
  <1> QED BY <1>1, <1>2 DEF Byte, Width

\* The sum of a payload starts with its first byte.
LEMMA XorZero ==
    ASSUME NEW a \in Byte
    PROVE  Xor(0, a) = a
  <1>1. \/ a = 0 \/ a = 1 \/ a = 2 \/ a = 3 \/ a = 4 \/ a = 5 \/ a = 6 \/ a = 7
        \/ a = 8 \/ a = 9 \/ a = 10 \/ a = 11 \/ a = 12 \/ a = 13 \/ a = 14 \/ a = 15
    BY DEF Byte, Width
  <1> QED BY <1>1 DEF Xor, BitXor

-----------------------------------------------------------------------------
(* Types.                                                                   *)

Readers ==
    [st : Waiting \cup {"idle", "package", "none"}, last : BOOLEAN,
     len : Nat, data : Seq(Byte), got : Nat, sum : Byte, ok : BOOLEAN]

\* Before the payload nothing of it has been taken, in it there is a byte to
\* come.
ReaderOK(r) ==
    /\ r \in Readers /\ r.got <= r.len
    /\ r.st \in {"hunt", "high", "low"} => r.got = 0
    /\ r.st = "data" => r.got < r.len

\* What has been requested and what may still be requested: one request goes
\* out before the loop of the retries, and one in each turn of it.
RequestsCounted ==
    /\ pc = "request" => requests = 0
    /\ pc = "again" => tries >= 1 /\ requests + tries <= Retries + 1
    /\ pc = "answer" => tries >= 1 /\ requests + tries <= Retries + 2

TypeInv == TypeOK /\ ReaderOK(rd) /\ RequestsCounted

\* The bytes of the code are bytes, and bytes are numbers.
LEMMA Bytes ==
    /\ Byte \subseteq Nat /\ 0 \in Byte
    /\ {1, A0, A1, CR, LF, QUERY_VERSION, VERSION, ACK, NACK, NAVIGATION} \subseteq Byte
  BY DEF Byte, Width, A0, A1, CR, LF, QUERY_VERSION, VERSION, ACK, NACK, NAVIGATION

\* Whatever a call of the reader starts from, it is in order.
LEMMA IdleOK ==
    /\ ReaderOK(Idle)
    /\ StartRead => ReaderOK(rd') /\ rd'.st = "hunt"
    /\ NoPackage => ReaderOK(rd') /\ rd'.st = "none"
  <1>1. Idle \in Readers
    BY Bytes DEF Readers, Idle, Waiting
  <1>2. ASSUME StartRead PROVE ReaderOK(rd') /\ rd'.st = "hunt"
    <2>1. PICK b \in BOOLEAN : rd' = [Idle EXCEPT !.st = "hunt", !.last = b]
      BY <1>2 DEF StartRead
    <2>2. rd' \in Readers
      BY <1>1, <2>1 DEF Readers, Waiting
    <2>3. rd'.st = "hunt" /\ rd'.got = 0 /\ rd'.len = 0
      BY <2>1 DEF Idle
    <2> QED BY <2>2, <2>3 DEF ReaderOK
  <1>3. ASSUME NoPackage PROVE ReaderOK(rd') /\ rd'.st = "none"
    <2>1. rd' = [Idle EXCEPT !.st = "none"]
      BY <1>3 DEF NoPackage
    <2>2. rd' \in Readers
      BY <1>1, <2>1 DEF Readers
    <2>3. rd'.st = "none" /\ rd'.got = 0 /\ rd'.len = 0
      BY <2>1 DEF Idle
    <2> QED BY <2>2, <2>3 DEF ReaderOK
  <1> QED BY <1>1, <1>2, <1>3 DEF ReaderOK, Idle

\* What taking a byte of the payload changes keeps its type.
LEMMA PayloadFields ==
    ASSUME NEW r \in Readers, NEW data \in Seq(Byte), NEW got \in Nat,
           NEW sum \in Byte, NEW st \in Waiting
    PROVE  [r EXCEPT !.data = data, !.got = got, !.sum = sum, !.st = st] \in Readers
  BY DEF Readers

\* The payload starts, or is empty.
LEMMA PayloadOK ==
    ASSUME NEW r \in Readers
    PROVE  ReaderOK(Payload(r))
  <1>1. r.len \in Nat
    BY DEF Readers
  <1>2. CASE r.len = 0
    <2>1. Payload(r) = [r EXCEPT !.data = <<>>, !.got = 0, !.sum = 0, !.st = "check"]
      BY <1>2 DEF Payload, PayloadDone
    <2>2. Payload(r) \in Readers
      <3>1. <<>> \in Seq(Byte) /\ 0 \in Byte /\ 0 \in Nat
            /\ "check" \in Waiting /\ "data" \in Waiting
        BY Bytes DEF Waiting
      <3>2. [r EXCEPT !.data = <<>>, !.got = 0, !.sum = 0, !.st = "check"] \in Readers
        BY <3>1, PayloadFields
      <3> QED BY <2>1, <3>2
    <2>3. Payload(r).got = 0 /\ Payload(r).len = r.len /\ Payload(r).st = "check"
      BY <2>1 DEF Readers
    <2> QED BY <1>1, <2>2, <2>3 DEF ReaderOK
  <1>3. CASE r.len # 0
    <2>1. Payload(r) = [r EXCEPT !.data = <<>>, !.got = 0, !.sum = 0, !.st = "data"]
      BY <1>3 DEF Payload, PayloadDone
    <2>2. Payload(r) \in Readers
      <3>1. <<>> \in Seq(Byte) /\ 0 \in Byte /\ 0 \in Nat
            /\ "check" \in Waiting /\ "data" \in Waiting
        BY Bytes DEF Waiting
      <3>2. [r EXCEPT !.data = <<>>, !.got = 0, !.sum = 0, !.st = "data"] \in Readers
        BY <3>1, PayloadFields
      <3> QED BY <2>1, <3>2
    <2>3. Payload(r).got = 0 /\ Payload(r).len = r.len /\ Payload(r).st = "data"
      BY <2>1 DEF Readers
    <2> QED BY <1>1, <1>3, <2>2, <2>3 DEF ReaderOK
  <1> QED BY <1>2, <1>3

\* A byte keeps the reader in order, whatever its value.
LEMMA TakenOK ==
    ASSUME NEW r, ReaderOK(r), r.st \in Waiting, NEW c \in Byte
    PROVE  ReaderOK(Taken(r, c))
  <1> USE DEF ReaderOK
  <1>1. CASE r.st = "hunt"
    <2>1. CASE r.last /\ c = A1
      BY <1>1, <2>1, IdleOK DEF Taken, Readers, Idle, Waiting
    <2>2. CASE ~(r.last /\ c = A1)
      <3>1. Taken(r, c) = [r EXCEPT !.last = (c = A0)]
        BY <1>1, <2>2 DEF Taken
      <3> QED BY <1>1, <3>1 DEF Readers
    <2> QED BY <2>1, <2>2
  <1>2. CASE r.st = "high"
    <2>1. Integer(c) \in Nat
      BY DEF Integer, Byte, Width
    <2>2. Taken(r, c) = [r EXCEPT !.st = "low", !.len = Integer(c)]
      BY <1>2 DEF Taken
    <2>3. r.len \in Nat /\ r.got \in Nat
      BY DEF Readers
    <2>4. Taken(r, c) \in Readers
      BY <2>1, <2>2 DEF Readers, Waiting
    <2>5. r.got = 0 /\ 0 <= Integer(c)
      BY <1>2, <2>1
    <2> QED BY <2>1, <2>2, <2>4, <2>5 DEF Readers
  <1>3. CASE r.st = "low"
    <2>1. [r EXCEPT !.len = Length(@, c)] \in Readers
      <3>1. r.len \in Nat /\ r.len + c \in Nat
        BY Bytes DEF Readers
      <3>2. Length(r.len, c) \in Nat
        BY <3>1 DEF Length, Width
      <3> QED BY <3>2 DEF Readers
    <2>2. Taken(r, c) = Payload([r EXCEPT !.len = Length(@, c)])
      BY <1>3 DEF Taken
    <2> QED BY <2>1, <2>2, PayloadOK
  <1>4. CASE r.st = "data"
    <2> DEFINE data == IF Len(r.data) < 4 THEN Append(r.data, c) ELSE r.data
    <2>1. data \in Seq(Byte) /\ Xor(r.sum, c) \in Byte
      BY XorRange DEF Readers
    <2>2. r.len \in Nat /\ r.got \in Nat /\ r.got < r.len
      BY <1>4 DEF Readers
    <2>3. CASE r.got + 1 = r.len
      <3>1. Taken(r, c) = [r EXCEPT !.data = data, !.got = r.got + 1,
                                    !.sum = Xor(r.sum, c), !.st = "check"]
        BY <1>4, <2>3 DEF Taken, PayloadDone
      <3> HIDE DEF data
      <3>2. Taken(r, c) \in Readers
        <4>1. r.got + 1 \in Nat /\ "check" \in Waiting /\ "data" \in Waiting
          BY <2>2 DEF Waiting
        <4>2. [r EXCEPT !.data = data, !.got = r.got + 1,
                        !.sum = Xor(r.sum, c), !.st = "check"] \in Readers
          BY <4>1, <2>1, PayloadFields
        <4> QED BY <3>1, <4>2
      <3> QED BY <3>1, <3>2, <2>2, <2>3 DEF Readers
    <2>4. CASE r.got + 1 # r.len
      <3>1. Taken(r, c) = [r EXCEPT !.data = data, !.got = r.got + 1,
                                    !.sum = Xor(r.sum, c), !.st = "data"]
        BY <1>4, <2>4 DEF Taken, PayloadDone
      <3> HIDE DEF data
      <3>2. Taken(r, c) \in Readers
        <4>1. r.got + 1 \in Nat /\ "check" \in Waiting /\ "data" \in Waiting
          BY <2>2 DEF Waiting
        <4>2. [r EXCEPT !.data = data, !.got = r.got + 1,
                        !.sum = Xor(r.sum, c), !.st = "data"] \in Readers
          BY <4>1, <2>1, PayloadFields
        <4> QED BY <3>1, <4>2
      <3> QED BY <3>1, <3>2, <2>2, <2>4 DEF Readers
    <2> QED BY <2>3, <2>4
  <1>5. CASE r.st = "check"
    BY <1>5 DEF Taken, Readers, Waiting, ChecksumOk
  <1>6. CASE r.st = "end1"
    BY <1>6 DEF Taken, Readers, Waiting
  <1>7. CASE r.st = "end2"
    <2>1. CASE r.ok /\ c = LF
      BY <1>7, <2>1 DEF Taken, Readers
    <2>2. CASE ~(r.ok /\ c = LF)
      <3>1. Taken(r, c) = Rejected
        BY <1>7, <2>2 DEF Taken
      <3> QED BY <3>1, IdleOK DEF Rejected, Idle, Readers, Waiting
    <2> QED BY <2>1, <2>2
  <1> QED BY <1>1, <1>2, <1>3, <1>4, <1>5, <1>6, <1>7 DEF Waiting

\* A message is a sequence of bytes.
LEMMA FrameType ==
    ASSUME NEW p \in Seq(Byte), Len(p) \in {2, 4}
    PROVE  Frame(p) \in Seq(Byte) /\ Checksum(p) \in Byte
  <1>1. p[1] \in Byte /\ p[2] \in Byte /\ (Len(p) = 4 => p[3] \in Byte /\ p[4] \in Byte)
    BY ElementOfSeq
  <1>2. Checksum(p) \in Byte
    BY <1>1, XorRange DEF Checksum
  <1>3. <<A0, A1, 0, Len(p)>> \in Seq(Byte) /\ <<Checksum(p), CR, LF>> \in Seq(Byte)
    BY <1>2 DEF Byte, Width, A0, A1, CR, LF
  <1>4. Frame(p) \in Seq(Byte)
    BY <1>3, ConcatProperties DEF Frame
  <1> QED BY <1>2, <1>4

\* A byte of a payload, or of the memory behind it.
LEMMA AtRange ==
    ASSUME NEW p \in Seq(Byte), NEW i \in Nat \ {0}, NEW g \in Noise
    PROVE  At(p, i, g) \in Byte
  <1>1. CASE i <= Len(p)
    BY <1>1, ElementOfSeq DEF At
  <1>2. CASE ~(i <= Len(p))
    BY <1>2, SkytraqAssumption DEF At
  <1> QED BY <1>1, <1>2

\* What the receiver sends is bytes.
LEMMA MessagesAreBytes ==
    /\ \A q \in {UNUSABLE, GOOD}, x \in Positions :
          /\ <<NAVIGATION, q, x[1], x[2]>> \in Seq(Byte)
          /\ NavFrame(q, x) \in Seq(Byte)
    /\ <<ACK, QUERY_VERSION>> \in Seq(Byte) /\ <<NACK, QUERY_VERSION>> \in Seq(Byte)
    /\ <<VERSION, 1, 0, 0>> \in Seq(Byte)
    /\ receiver \in {"ack", "nack", "silent"} => Answer \in Seq(Byte)
  <1>1. ASSUME NEW q \in {UNUSABLE, GOOD}, NEW x \in Positions
        PROVE  /\ <<NAVIGATION, q, x[1], x[2]>> \in Seq(Byte)
               /\ NavFrame(q, x) \in Seq(Byte)
    <2>1. x[1] \in Byte /\ x[2] \in Byte /\ q \in Byte /\ NAVIGATION \in Byte
      BY SkytraqAssumption, Bytes DEF UNUSABLE, GOOD
    <2>2. <<NAVIGATION, q, x[1], x[2]>> \in Seq(Byte)
      BY <2>1
    <2>3. NavFrame(q, x) \in Seq(Byte)
      BY <2>2, FrameType DEF NavFrame
    <2> QED BY <2>2, <2>3
  <1>2. /\ <<ACK, QUERY_VERSION>> \in Seq(Byte) /\ <<NACK, QUERY_VERSION>> \in Seq(Byte)
        /\ <<VERSION, 1, 0, 0>> \in Seq(Byte)
    BY Bytes
  <1>3. /\ Frame(<<ACK, QUERY_VERSION>>) \in Seq(Byte)
        /\ Frame(<<NACK, QUERY_VERSION>>) \in Seq(Byte)
        /\ Frame(<<VERSION, 1, 0, 0>>) \in Seq(Byte)
    BY <1>2, FrameType
  <1>4. receiver \in {"ack", "nack", "silent"} => Answer \in Seq(Byte)
    BY <1>3, ConcatProperties DEF Answer
  <1> QED BY <1>1, <1>2, <1>4

\* The first state.
LEMMA InitTypes == Init => TypeInv
  <1> SUFFICES ASSUME Init PROVE TypeInv OBVIOUS
  <1>1. rd = Idle /\ ReaderOK(Idle)
    BY IdleOK DEF Init
  <1>2. stored \in Byte \X Byte
    BY Bytes DEF Init
  <1>3. receiver \in {"ack", "nack", "silent"} /\ requests = 0 /\ faults = 0
        /\ tries = 0 /\ stream = <<>> /\ pc = "request"
    BY DEF Init
  <1>4. Retries \in Nat /\ MaxFaults \in Nat
    BY SkytraqAssumption
  <1> QED BY <1>1, <1>2, <1>3, <1>4 DEF TypeInv, TypeOK, RequestsCounted, ReaderOK, Readers

\* A request less is no more requests.
LEMMA FewerRequests ==
    ASSUME NEW a \in Nat, NEW b \in Nat, b <= a, NEW t \in Nat, NEW n \in Nat
    PROVE  /\ a + t <= n + 1 => b + t <= n + 1
           /\ a + t <= n + 2 => b + t <= n + 2
  OBVIOUS

\* A step that leaves what the thread does and its requests alone.
LEMMA OtherTypes ==
    ASSUME TypeInv, ReaderOK(rd'), stream' \in Seq(Byte), stored' \in Byte \X Byte,
           faults' \in 0..MaxFaults, UNCHANGED <<pc, tries, receiver>>,
           requests' = requests \/ (requests > 0 /\ requests' = requests - 1)
    PROVE  TypeInv'
  <1>1. requests \in Nat /\ requests' \in Nat /\ requests' <= requests
        /\ requests <= Retries + 1 /\ tries \in Nat /\ Retries \in Nat
    BY SkytraqAssumption DEF TypeInv, TypeOK
  <1>2. RequestsCounted'
    <2>1. pc' = pc /\ tries' = tries
      OBVIOUS
    <2>2. RequestsCounted
      BY DEF TypeInv
    <2>3. CASE pc = "request"
      BY <1>1, <2>1, <2>2, <2>3 DEF RequestsCounted
    <2>4. CASE pc = "again"
      <3>1. tries >= 1 /\ requests + tries <= Retries + 1
        BY <2>2, <2>4 DEF RequestsCounted
      <3>2. requests' + tries <= Retries + 1
        BY ONLY <1>1, <3>1, FewerRequests, Zenon
      <3> QED BY <2>1, <2>4, <3>1, <3>2 DEF RequestsCounted
    <2>5. CASE pc = "answer"
      <3>1. tries >= 1 /\ requests + tries <= Retries + 2
        BY <2>2, <2>5 DEF RequestsCounted
      <3>2. requests' + tries <= Retries + 2
        BY ONLY <1>1, <3>1, FewerRequests, Zenon
      <3> QED BY <2>1, <2>5, <3>1, <3>2 DEF RequestsCounted
    <2> QED BY <2>1, <2>3, <2>4, <2>5 DEF RequestsCounted
  <1>3. requests' \in 0..(Retries + 1)
    BY <1>1
  <1> QED BY <1>2, <1>3 DEF TypeInv, TypeOK, ReaderOK, Readers

\* A step of the thread's request.
LEMMA RequestTypes ==
    ASSUME TypeInv, ReaderOK(rd'), UNCHANGED <<stream, stored, receiver, faults>>,
           pc' \in {"request", "again", "answer", "version", "loop"},
           tries' \in 0..Retries, requests' \in 0..(Retries + 1), RequestsCounted'
    PROVE  TypeInv'
  BY DEF TypeInv, TypeOK, ReaderOK, Readers

\* Every step of the thread, the receiver and the line.
LEMMA NextTypes == TypeInv /\ [Next]_vars => TypeInv'
  <1> SUFFICES ASSUME TypeInv, [Next]_vars PROVE TypeInv'
    OBVIOUS
  <1>1. /\ ReaderOK(rd) /\ stream \in Seq(Byte) /\ stored \in Byte \X Byte
        /\ faults \in 0..MaxFaults /\ rd \in Readers /\ rd.data \in Seq(Byte)
        /\ receiver \in {"ack", "nack", "silent"}
    BY DEF TypeInv, TypeOK, ReaderOK, Readers
  <1>2. /\ requests \in Nat /\ requests <= Retries + 1 /\ tries \in Nat /\ tries <= Retries
        /\ Retries \in Nat \ {0} /\ MaxFaults \in Nat /\ Noise \subseteq Byte
    BY SkytraqAssumption DEF TypeInv, TypeOK
  <1>3. Fault => faults' \in 0..MaxFaults
    BY <1>1, <1>2 DEF Fault
  <1>4. stream # <<>> => Head(stream) \in Byte /\ Tail(stream) \in Seq(Byte)
    BY <1>1
  <1>5. CASE ReadByte
    <2>1. ReaderOK(rd')
      BY <1>1, <1>4, <1>5, TakenOK DEF ReadByte, Take
    <2> QED BY <1>1, <1>4, <1>5, <2>1, OtherTypes DEF ReadByte, thread, outside
  <1>6. CASE WriteRequest
    <2>1. RequestsCounted' /\ requests' \in 0..(Retries + 1) /\ tries' \in 0..Retries
      BY <1>2, <1>6 DEF WriteRequest, Write, TypeInv, RequestsCounted
    <2> QED BY <1>1, <1>6, <2>1, RequestTypes DEF WriteRequest, Write
  <1>7. CASE WriteAgain
    <2>1. tries >= 1 /\ requests + tries <= Retries + 1
      BY <1>7 DEF WriteAgain, TypeInv, RequestsCounted
    <2>2. RequestsCounted' /\ requests' \in 0..(Retries + 1) /\ tries' \in 0..Retries
      BY <1>2, <1>7, <2>1 DEF WriteAgain, Write, RequestsCounted
    <2>3. ReaderOK(rd')
      BY <1>7, IdleOK DEF WriteAgain
    <2> QED BY <1>7, <2>2, <2>3, RequestTypes DEF WriteAgain, Write
  <1>8. CASE GotAnswer
    <2>1. tries >= 1 /\ requests + tries <= Retries + 2
      BY <1>8 DEF GotAnswer, TypeInv, RequestsCounted
    <2>2. UNCHANGED <<stream, stored, requests, receiver, faults>>
      BY <1>8 DEF GotAnswer, outside
    <2>3. CASE StartRead /\ tries' = 0 /\ pc' \in {"version", "loop"}
      BY <1>2, <2>2, <2>3, IdleOK, RequestTypes DEF RequestsCounted
    <2>4. CASE /\ TriesLeft(tries) # 0 /\ tries' = TriesLeft(tries)
               /\ pc' = "again" /\ rd' = Idle
      BY <1>2, <2>1, <2>2, <2>4, IdleOK, RequestTypes DEF RequestsCounted, TriesLeft
    <2> QED BY <1>8, <2>3, <2>4 DEF GotAnswer, Returned
  <1>9. CASE GotVersion
    <2>1. ReaderOK(rd') /\ RequestsCounted'
      BY <1>9, IdleOK DEF GotVersion, RequestsCounted
    <2> QED BY <1>2, <1>9, <2>1, RequestTypes DEF GotVersion, outside
  <1>10. CASE Ignore \/ SkipFix
    <2>1. StartRead /\ UNCHANGED <<thread, stream, outside>>
      BY <1>10 DEF Ignore, SkipFix
    <2> QED BY <1>1, <2>1, IdleOK, OtherTypes DEF thread, outside
  <1>11. CASE StoreFix
    <2>1. stored' \in Byte \X Byte
      BY <1>1, <1>11, AtRange DEF StoreFix
    <2>2. StartRead /\ UNCHANGED <<pc, tries, stream, outside>>
      BY <1>11 DEF StoreFix
    <2> QED BY <1>1, <2>1, <2>2, IdleOK, OtherTypes DEF outside
  <1>12. CASE TimeUp
    BY <1>1, <1>3, <1>4, <1>12, IdleOK, OtherTypes DEF TimeUp, thread
  <1>13. CASE ReadTimeout
    <2>1. ReaderOK(rd')
      <3>1. NoPackage => ReaderOK(rd')
        BY IdleOK
      <3>2. rd' = Payload(rd) => ReaderOK(rd')
        BY <1>1, PayloadOK
      <3>3. ASSUME NEW n \in Noise, Take(n) PROVE ReaderOK(rd')
        BY <1>1, <1>2, <1>13, <3>3, TakenOK DEF Take, ReadTimeout
      <3> QED BY <1>13, <3>1, <3>2, <3>3 DEF ReadTimeout
    <2> QED BY <1>1, <1>3, <1>13, <2>1, OtherTypes DEF ReadTimeout, thread
  <1>14. CASE Reply
    <2>1. stream' \in Seq(Byte)
      BY <1>1, <1>14, MessagesAreBytes, ConcatProperties DEF Reply, Send
    <2> QED BY <1>1, <1>14, <2>1, OtherTypes DEF Reply, thread
  <1>15. CASE Garble
    <2>1. stream' \in Seq(Byte)
      BY <1>2, <1>4, <1>15, ConcatProperties DEF Garble
    <2> QED BY <1>1, <1>3, <1>15, <2>1, OtherTypes DEF Garble, thread
  <1>16. CASE Lose
    BY <1>1, <1>3, <1>4, <1>16, OtherTypes DEF Lose, thread
  <1>17. ASSUME NEW q \in {UNUSABLE, GOOD}, SendNavigation(q) PROVE TypeInv'
    <2>1. stream' \in Seq(Byte)
      BY <1>1, <1>17, MessagesAreBytes, ConcatProperties DEF SendNavigation, Send
    <2> QED BY <1>1, <1>17, <2>1, OtherTypes DEF SendNavigation, thread, outside
  <1>18. CASE UNCHANGED vars
    BY <1>1, <1>18, OtherTypes DEF vars, thread, outside
  <1> QED BY <1>5, <1>6, <1>7, <1>8, <1>9, <1>10, <1>11, <1>12, <1>13, <1>14, <1>15,
             <1>16, <1>17, <1>18 DEF Next, ThreadNext

\* TypeOK: whatever the line does, the driver never takes more bytes for a
\* payload than the length it read (datalogger.c), and never sends more than
\* one request before its loop and one in each turn of it.
THEOREM TypeCorrect == Spec => []TypeOK
  <1>1. TypeInv => TypeOK
    BY DEF TypeInv
  <1> QED BY <1>1, InitTypes, NextTypes, PTL DEF Spec

-----------------------------------------------------------------------------
(* The line before the first disturbance.                                   *)

\* The payloads of a receiver that answers a request as a does.
Payloads(a) ==
    {<<NAVIGATION, q, x[1], x[2]>> : q \in {UNUSABLE, GOOD}, x \in Positions}
    \cup IF a = "ack"  THEN {<<ACK, QUERY_VERSION>>, <<VERSION, 1, 0, 0>>} ELSE {}
    \cup IF a = "nack" THEN {<<NACK, QUERY_VERSION>>} ELSE {}

\* Whole messages one after the other: the least set with the empty line and,
\* with a line, that line behind a message.
Messages(a) ==
    {s \in Seq(Byte) : \A S \in SUBSET Seq(Byte) :
        (<<>> \in S /\ \A p \in Payloads(a), t \in S : Frame(p) \o t \in S) => s \in S}

\* Payloads are two or four bytes.
LEMMA PayloadType ==
    ASSUME NEW a, NEW p \in Payloads(a)
    PROVE  p \in Seq(Byte) /\ Len(p) \in {2, 4} /\ Frame(p) \in Seq(Byte)
  <1>1. p \in Seq(Byte) /\ Len(p) \in {2, 4}
    <2>1. CASE \E q \in {UNUSABLE, GOOD}, x \in Positions : p = <<NAVIGATION, q, x[1], x[2]>>
      BY <2>1, MessagesAreBytes
    <2>2. CASE p \in {<<ACK, QUERY_VERSION>>, <<NACK, QUERY_VERSION>>, <<VERSION, 1, 0, 0>>}
      BY <2>2, MessagesAreBytes
    <2> QED BY <2>1, <2>2 DEF Payloads
  <1> QED BY <1>1, FrameType

\* Nothing is whole messages, and so is one more in front of them.
LEMMA MessageInFront ==
    ASSUME NEW a
    PROVE  /\ <<>> \in Messages(a)
           /\ \A p \in Payloads(a), t \in Messages(a) : Frame(p) \o t \in Messages(a)
  <1>1. <<>> \in Messages(a)
    BY DEF Messages
  <1>2. ASSUME NEW p \in Payloads(a), NEW t \in Messages(a)
        PROVE  Frame(p) \o t \in Messages(a)
    <2>1. Frame(p) \o t \in Seq(Byte)
      BY PayloadType, ConcatProperties DEF Messages
    <2>2. ASSUME NEW S \in SUBSET Seq(Byte), <<>> \in S,
                 \A u \in Payloads(a), v \in S : Frame(u) \o v \in S
          PROVE  Frame(p) \o t \in S
      BY <2>2 DEF Messages
    <2> QED BY <2>1, <2>2 DEF Messages
  <1> QED BY <1>1, <1>2

\* Whole messages are nothing, or one and whole messages behind it.
LEMMA FirstMessage ==
    ASSUME NEW a, NEW s \in Messages(a), s # <<>>
    PROVE  \E p \in Payloads(a), t \in Messages(a) : s = Frame(p) \o t
  <1> DEFINE S == {u \in Messages(a) :
                     u # <<>> => \E p \in Payloads(a), t \in Messages(a) : u = Frame(p) \o t}
  <1>1. <<>> \in S
    BY MessageInFront
  <1>2. S \in SUBSET Seq(Byte)
    BY DEF Messages
  <1>3. \A p \in Payloads(a), t \in S : Frame(p) \o t \in S
    BY MessageInFront
  <1>4. s \in S
    <2> HIDE DEF S
    <2> QED BY <1>1, <1>2, <1>3 DEF Messages
  <1> QED BY <1>4

\* Three strings of bytes, put together from either end.
LEMMA Rebracket ==
    \A a, b, c \in Seq(Byte) : (a \o b) \o c = a \o (b \o c)
  BY ConcatAssociative

\* One more behind them, and there are whole messages again.
LEMMA MessageBehind ==
    ASSUME NEW a, NEW s \in Messages(a), NEW p \in Payloads(a)
    PROVE  s \o Frame(p) \in Messages(a)
  <1> DEFINE S == {u \in Seq(Byte) : u \o Frame(p) \in Messages(a)}
  <1>1. Frame(p) \in Seq(Byte) /\ Frame(p) \in Messages(a)
    <2>1. Frame(p) \in Seq(Byte)
      BY PayloadType
    <2>2. Frame(p) \o <<>> \in Messages(a)
      BY MessageInFront
    <2> QED BY <2>1, <2>2, ConcatEmptySeq
  <1>2. <<>> \in S
    BY <1>1, ConcatEmptySeq
  <1>3. ASSUME NEW u \in Payloads(a), NEW t \in S PROVE Frame(u) \o t \in S
    <2>1. t \in Seq(Byte) /\ Frame(u) \in Seq(Byte) /\ Frame(u) \o t \in Seq(Byte)
      BY PayloadType, ConcatProperties
    <2>2. Frame(u) \o (t \o Frame(p)) \in Messages(a)
      BY MessageInFront
    <2>3. (Frame(u) \o t) \o Frame(p) = Frame(u) \o (t \o Frame(p))
      <3> HIDE DEF S
      <3> QED BY ONLY <1>1, <2>1, Rebracket, Zenon
    <2> QED BY <2>1, <2>2, <2>3
  <1>4. s \in S
    <2>1. S \in SUBSET Seq(Byte)
      OBVIOUS
    <2> HIDE DEF S
    <2> QED BY <1>2, <1>3, <2>1 DEF Messages
  <1> QED BY <1>4

\* Byte by byte, a message is what its reader expects.
LEMMA FrameBytes ==
    ASSUME NEW p \in Seq(Byte), Len(p) \in {2, 4}
    PROVE  /\ Len(Frame(p)) = Len(p) + 7
           /\ Frame(p)[1] = A0 /\ Frame(p)[2] = A1 /\ Frame(p)[3] = 0 /\ Frame(p)[4] = Len(p)
           /\ \A i \in 1..Len(p) : Frame(p)[i + 4] = p[i]
           /\ Frame(p)[Len(p) + 5] = Checksum(p)
           /\ Frame(p)[Len(p) + 6] = CR /\ Frame(p)[Len(p) + 7] = LF
  BY DEF Frame

\* The checksum of the first n bytes of a payload.
PartSum(p, n) ==
    CASE n = 0 -> 0
      [] n = 1 -> p[1]
      [] n = 2 -> Xor(p[1], p[2])
      [] n = 3 -> Xor(Xor(p[1], p[2]), p[3])

\* The reader r has taken j bytes of the message of payload p.
Within(r, p, j) ==
    \/ j = 1 /\ r.st = "hunt" /\ r.last
    \/ j = 2 /\ r.st = "high"
    \/ j = 3 /\ r.st = "low" /\ r.len = 0
    \/ /\ j \in 4..(Len(p) + 3)
       /\ r.st = "data" /\ r.len = Len(p) /\ r.got = j - 4
       /\ r.data = SubSeq(p, 1, j - 4) /\ r.sum = PartSum(p, j - 4)
    \/ j = Len(p) + 4 /\ r.st = "check" /\ r.data = p /\ r.sum = Checksum(p)
    \/ j = Len(p) + 5 /\ r.st = "end1" /\ r.data = p /\ r.ok
    \/ j = Len(p) + 6 /\ r.st = "end2" /\ r.data = p /\ r.ok

\* The bytes of a message after its first j.
Coming(p, j) == SubSeq(Frame(p), j + 1, Len(Frame(p)))

InMessage ==
    \E p \in Payloads(receiver), rest \in Messages(receiver) :
        \E j \in 1..(Len(p) + 6) :
            Within(rd, p, j) /\ stream = Coming(p, j) \o rest

AtBorder ==
    rd.st \in {"idle", "none", "package", "hunt"} /\ stream \in Messages(receiver)

\* The reader and the line fit together, and what has been read was sent.
Aligned ==
    /\ InMessage \/ AtBorder
    /\ rd.st = "package" => rd.data \in Payloads(receiver)
    /\ pc \in {"request", "again"} => rd.st = "idle"

\* A step stores what the receiver reported, and takes a request for confirmed
\* if the receiver confirmed it.
Genuine ==
    /\ stored' # stored => stored' \in Positions
    /\ pc' = "version" /\ pc # "version" => receiver = "ack"

\* The sum of one byte more.
LEMMA PartSumStep ==
    ASSUME NEW p \in Seq(Byte), Len(p) \in {2, 4}, NEW k \in 0..(Len(p) - 1)
    PROVE  /\ k + 1 < Len(p) => PartSum(p, k + 1) = Xor(PartSum(p, k), p[k + 1])
           /\ k + 1 = Len(p) => Checksum(p) = Xor(PartSum(p, k), p[k + 1])
  <1>1. p[1] \in Byte
    BY ElementOfSeq
  <1>2. Xor(0, p[1]) = p[1]
    BY <1>1, XorZero
  <1>3. CASE k = 0
    <2>1. PartSum(p, 0) = 0 /\ PartSum(p, 1) = p[1]
      BY DEF PartSum
    <2> QED BY <1>2, <1>3, <2>1
  <1>4. CASE k = 1
    BY <1>4 DEF PartSum, Checksum
  <1>5. CASE k = 2
    BY <1>5 DEF PartSum, Checksum
  <1>6. CASE k = 3
    <2>1. Len(p) = 4
      <3>1. CASE Len(p) = 2
        <4>1. k \in 0..1
          BY <3>1
        <4> QED BY <1>6, <4>1
      <3> QED BY <3>1
    <2>2. PartSum(p, 3) = Xor(Xor(p[1], p[2]), p[3])
      BY DEF PartSum
    <2>3. Checksum(p) = Xor(Xor(Xor(p[1], p[2]), p[3]), p[4])
      BY <2>1 DEF Checksum
    <2> QED BY <1>6, <2>1, <2>2, <2>3
  <1> QED BY <1>3, <1>4, <1>5, <1>6

\* One byte more of a payload.
LEMMA PartStep ==
    ASSUME NEW p \in Seq(Byte), Len(p) \in {2, 4}, NEW k \in 0..(Len(p) - 1)
    PROVE  /\ Len(SubSeq(p, 1, k)) < 4
           /\ Append(SubSeq(p, 1, k), p[k + 1]) = SubSeq(p, 1, k + 1)
           /\ SubSeq(p, 1, 0) = <<>> /\ SubSeq(p, 1, Len(p)) = p
  <1>1. Len(SubSeq(p, 1, k)) = k
    OBVIOUS
  <1>2. Append(SubSeq(p, 1, k), p[k + 1]) = SubSeq(p, 1, k + 1)
    OBVIOUS
  <1>3. SubSeq(p, 1, 0) = <<>>
    OBVIOUS
  <1>4. SubSeq(p, 1, Len(p)) = p
    BY SubSeqFull
  <1> QED BY <1>1, <1>2, <1>3, <1>4

\* What is still to come of a message starts with its next byte.
LEMMA ComingStep ==
    ASSUME NEW p \in Seq(Byte), Len(p) \in {2, 4}, NEW rest \in Seq(Byte),
           NEW j \in 0..(Len(p) + 6)
    PROVE  /\ Head(Coming(p, j) \o rest) = Frame(p)[j + 1]
           /\ Tail(Coming(p, j) \o rest) = Coming(p, j + 1) \o rest
           /\ j = Len(p) + 6 => Coming(p, j + 1) \o rest = rest
  <1> DEFINE s == Coming(p, j) \o rest
  <1>1. Frame(p) \in Seq(Byte) /\ Len(Frame(p)) = Len(p) + 7
    BY FrameType, FrameBytes
  <1>2. Coming(p, j) = <<Frame(p)[j + 1]>> \o Coming(p, j + 1)
    <2>1. j + 1 \in 1..Len(Frame(p)) /\ Len(Frame(p)) \in (j + 1)..Len(Frame(p))
      BY <1>1
    <2>2. SubSeq(Frame(p), j + 1, Len(Frame(p))) =
             <<Frame(p)[j + 1]>> \o SubSeq(Frame(p), (j + 1) + 1, Len(Frame(p)))
      BY <1>1, <2>1, SubSeqRecursiveFirst
    <2> QED BY <2>2 DEF Coming
  <1>3. Frame(p)[j + 1] \in Byte /\ Coming(p, j + 1) \in Seq(Byte)
    BY <1>1 DEF Coming
  <1>4. s = <<Frame(p)[j + 1]>> \o (Coming(p, j + 1) \o rest)
    <2>1. <<Frame(p)[j + 1]>> \in Seq(Byte)
      BY <1>3
    <2> QED BY <1>2, <1>3, <2>1, ConcatAssociative
  <1>5. Coming(p, j + 1) \o rest \in Seq(Byte)
    BY <1>3, ConcatProperties
  <1>6. Head(s) = Frame(p)[j + 1] /\ Tail(s) = Coming(p, j + 1) \o rest
    <2> DEFINE c == Frame(p)[j + 1]  t == Coming(p, j + 1) \o rest
    <2>1. c \in Byte /\ t \in Seq(Byte) /\ s = <<c>> \o t
      BY <1>3, <1>4, <1>5
    <2> HIDE DEF c, t, s
    <2>2. Head(s) = c /\ Tail(s) = t
      BY <2>1
    <2> QED BY <2>2 DEF c, t
  <1>7. j = Len(p) + 6 => Coming(p, j + 1) \o rest = rest
    <2>1. j = Len(p) + 6 => Coming(p, j + 1) = <<>>
      BY <1>1, SubSeqEmpty DEF Coming
    <2> QED BY <2>1, ConcatEmptySeq
  <1> QED BY <1>6, <1>7

\* The reader takes the next byte of a message.
LEMMA TakeNext ==
    ASSUME NEW r \in Readers, NEW p \in Seq(Byte), Len(p) \in {2, 4},
           NEW j \in 1..(Len(p) + 6), Within(r, p, j)
    PROVE  LET next == Taken(r, Frame(p)[j + 1])
           IN  /\ j < Len(p) + 6 => Within(next, p, j + 1) /\ next.st # "package"
               /\ j = Len(p) + 6 => next.st = "package" /\ next.data = p
  <1> DEFINE c == Frame(p)[j + 1]  next == Taken(r, c)
             Result == /\ j < Len(p) + 6 => Within(next, p, j + 1) /\ next.st # "package"
                       /\ j = Len(p) + 6 => next.st = "package" /\ next.data = p
  <1> SUFFICES Result
    OBVIOUS
  <1>1. CASE j = 1 /\ r.st = "hunt" /\ r.last
    <2>1. c = A1
      BY <1>1, FrameBytes
    <2>2. next = [Idle EXCEPT !.st = "high"]
      BY <1>1, <2>1 DEF Taken
    <2>3. next.st = "high"
      BY <2>2 DEF Idle
    <2> QED BY <1>1, <2>3 DEF Within
  <1>2. CASE j = 2 /\ r.st = "high"
    <2>1. c = 0 /\ Integer(0) = 0
      BY <1>2, FrameBytes DEF Integer, Width
    <2>2. next = [r EXCEPT !.st = "low", !.len = 0]
      BY <1>2, <2>1 DEF Taken
    <2>3. next.st = "low" /\ next.len = 0
      BY <2>2 DEF Readers
    <2> QED BY <1>2, <2>3 DEF Within
  <1>3. CASE j = 3 /\ r.st = "low" /\ r.len = 0
    <2> j + 1 = 4
      BY <1>3
    <2> Len(p) \in Nat /\ Len(p) >= 2
      OBVIOUS
    <2>1. c = Len(p) /\ Len(p) # 0
      <3>1. Frame(p)[4] = Len(p)
        BY FrameBytes
      <3> QED BY <3>1
    <2>2. Length(0, Len(p)) = Len(p)
      <3>1. (0 + 2) % 16 = 2 /\ (0 + 4) % 16 = 4
        OBVIOUS
      <3>2. Length(0, 2) = 2 /\ Length(0, 4) = 4
        BY ONLY <3>1 DEF Length, Width
      <3>3. CASE Len(p) = 2
        BY ONLY <3>2, <3>3
      <3>4. CASE Len(p) = 4
        BY ONLY <3>2, <3>4
      <3> QED BY <3>3, <3>4
    <2>3. next = Payload([r EXCEPT !.len = Len(p)])
      BY <1>3, <2>1, <2>2 DEF Taken
    <2>4. /\ next.st = "data" /\ next.len = Len(p) /\ next.got = 0
          /\ next.data = <<>> /\ next.sum = 0
      BY <2>1, <2>3 DEF Payload, PayloadDone, Readers
    <2>5. SubSeq(p, 1, 0) = <<>> /\ PartSum(p, 0) = 0
      BY PartStep DEF PartSum
    <2>6. 4 \in 4..(Len(p) + 3) /\ 4 - 4 = 0
      OBVIOUS
    <2>7. Within(next, p, 4)
      BY <2>4, <2>5, <2>6 DEF Within
    <2> QED BY <1>3, <2>4, <2>6, <2>7
  <1>4. CASE /\ j \in 4..(Len(p) + 3)
             /\ r.st = "data" /\ r.len = Len(p) /\ r.got = j - 4
             /\ r.data = SubSeq(p, 1, j - 4) /\ r.sum = PartSum(p, j - 4)
    <2> DEFINE k == j - 4
    <2>1. k \in 0..(Len(p) - 1) /\ j = k + 4 /\ k + 1 \in 1..Len(p) /\ k + 1 + 4 = j + 1
      BY <1>4
    <2>2. c = p[k + 1]
      BY <2>1, FrameBytes
    <2>3. /\ Len(r.data) < 4 /\ Append(r.data, c) = SubSeq(p, 1, k + 1)
          /\ r.data = SubSeq(p, 1, k) /\ r.sum = PartSum(p, k) /\ r.got = k /\ r.len = Len(p)
      BY <1>4, <2>1, <2>2, PartStep
    <2> HIDE DEF k, c
    <2>4. CASE k + 1 = Len(p)
      <3>1. next = [r EXCEPT !.data = Append(r.data, c), !.got = k + 1,
                             !.sum = Xor(r.sum, c), !.st = "check"]
        BY <1>4, <2>3, <2>4 DEF Taken, PayloadDone
      <3>2. next.st = "check" /\ next.data = SubSeq(p, 1, k + 1) /\ next.sum = Xor(r.sum, c)
        BY <2>3, <3>1 DEF Readers
      <3>3. next.data = p /\ next.sum = Checksum(p)
        BY <2>1, <2>2, <2>3, <2>4, <3>2, PartStep, PartSumStep
      <3>4. j + 1 = Len(p) + 4 /\ j # Len(p) + 6
        BY <2>1, <2>4
      <3>5. Within(next, p, j + 1)
        BY <3>2, <3>3, <3>4 DEF Within
      <3> QED BY <3>2, <3>4, <3>5
    <2>5. CASE k + 1 # Len(p)
      <3>1. next = [r EXCEPT !.data = Append(r.data, c), !.got = k + 1,
                             !.sum = Xor(r.sum, c), !.st = "data"]
        BY <1>4, <2>3, <2>5 DEF Taken, PayloadDone
      <3>2. /\ next.st = "data" /\ next.data = SubSeq(p, 1, k + 1)
            /\ next.sum = Xor(r.sum, c) /\ next.got = k + 1 /\ next.len = Len(p)
        BY <2>3, <3>1 DEF Readers
      <3>3. next.sum = PartSum(p, k + 1)
        BY <2>1, <2>2, <2>3, <2>5, <3>2, PartSumStep
      <3>4. j + 1 \in 4..(Len(p) + 3) /\ (j + 1) - 4 = k + 1 /\ j # Len(p) + 6
        BY <2>1, <2>5
      <3>5. Within(next, p, j + 1)
        BY <3>2, <3>3, <3>4 DEF Within
      <3> QED BY <3>2, <3>4, <3>5
    <2> QED BY <2>4, <2>5
  <1>5. CASE j = Len(p) + 4 /\ r.st = "check" /\ r.data = p /\ r.sum = Checksum(p)
    <2>1. c = Checksum(p)
      BY <1>5, FrameBytes
    <2>2. next = [r EXCEPT !.st = "end1", !.ok = (r.sum = c)]
      BY <1>5 DEF Taken, ChecksumOk
    <2>3. next.st = "end1" /\ next.data = p /\ next.ok
      BY <1>5, <2>1, <2>2 DEF Readers
    <2>4. j + 1 = Len(p) + 5
      BY <1>5
    <2> QED BY <2>3, <2>4 DEF Within
  <1>6. CASE j = Len(p) + 5 /\ r.st = "end1" /\ r.data = p /\ r.ok
    <2>1. c = CR
      BY <1>6, FrameBytes
    <2>2. next = [r EXCEPT !.st = "end2", !.ok = (r.ok /\ c = CR)]
      BY <1>6 DEF Taken
    <2>3. next.st = "end2" /\ next.data = p /\ next.ok
      BY <1>6, <2>1, <2>2 DEF Readers
    <2>4. j + 1 = Len(p) + 6
      BY <1>6
    <2> QED BY <2>3, <2>4 DEF Within
  <1>7. CASE j = Len(p) + 6 /\ r.st = "end2" /\ r.data = p /\ r.ok
    <2>1. c = LF
      BY <1>7, FrameBytes
    <2>2. next = [r EXCEPT !.st = "package"]
      BY <1>7, <2>1 DEF Taken
    <2>3. next.st = "package" /\ next.data = p
      BY <1>7, <2>2 DEF Readers
    <2> QED BY <1>7, <2>3
  <1> QED BY <1>1, <1>2, <1>3, <1>4, <1>5, <1>6, <1>7 DEF Within

\* What a payload of the receiver says.
LEMMA PayloadSays ==
    ASSUME NEW a, NEW p \in Payloads(a), NEW g
    PROVE  /\ At(p, 1, g) = p[1] /\ At(p, 2, g) = p[2]
           /\ p[1] = ACK => a = "ack"
           /\ p[1] = NAVIGATION => <<At(p, 3, g), At(p, 4, g)>> \in Positions
  <1>1. CASE \E q \in {UNUSABLE, GOOD}, x \in Positions : p = <<NAVIGATION, q, x[1], x[2]>>
    <2>1. PICK q \in {UNUSABLE, GOOD}, x \in Positions : p = <<NAVIGATION, q, x[1], x[2]>>
      BY <1>1
    <2>2. x \in Byte \X Byte
      BY SkytraqAssumption
    <2>3. x = <<x[1], x[2]>>
      BY <2>2
    <2>4. At(p, 3, g) = x[1] /\ At(p, 4, g) = x[2]
      BY <2>1 DEF At
    <2>5. <<At(p, 3, g), At(p, 4, g)>> \in Positions
      BY <2>3, <2>4
    <2>6. At(p, 1, g) = p[1] /\ At(p, 2, g) = p[2] /\ p[1] = NAVIGATION
      BY <2>1 DEF At
    <2> QED BY <2>5, <2>6 DEF ACK, NAVIGATION
  <1>2. CASE a = "ack" /\ p \in {<<ACK, QUERY_VERSION>>, <<VERSION, 1, 0, 0>>}
    BY <1>2 DEF At, ACK, VERSION, NAVIGATION
  <1>3. CASE a = "nack" /\ p = <<NACK, QUERY_VERSION>>
    BY <1>3 DEF At, ACK, NACK, NAVIGATION
  <1> QED BY <1>1, <1>2, <1>3 DEF Payloads

\* A reader that waits for nothing is at a border.
LEMMA NotWithin ==
    ASSUME InMessage
    PROVE  rd.st \in Waiting
  BY DEF InMessage, Within, Waiting

\* A byte that is read keeps reader and line together.
LEMMA ReadByteAligned ==
    ASSUME TypeInv, Aligned, ReadByte
    PROVE  Aligned'
  <1>1. /\ rd.st \in Waiting /\ stream # <<>> /\ rd' = Taken(rd, Head(stream))
        /\ stream' = Tail(stream) /\ UNCHANGED <<pc, stored, receiver>>
    BY DEF ReadByte, Take, thread, outside
  <1>2. rd \in Readers
    BY DEF TypeInv, ReaderOK
  <1>3. pc \notin {"request", "again"}
    BY <1>1 DEF Aligned, Waiting
  <1>4. (InMessage \/ AtBorder)' /\ (rd'.st = "package" => rd'.data \in Payloads(receiver))
    <2>1. CASE InMessage
      <3>1. PICK p \in Payloads(receiver), rest \in Messages(receiver) :
              \E j \in 1..(Len(p) + 6) : Within(rd, p, j) /\ stream = Coming(p, j) \o rest
        BY <2>1 DEF InMessage
      <3>2. PICK j \in 1..(Len(p) + 6) : Within(rd, p, j) /\ stream = Coming(p, j) \o rest
        BY <3>1
      <3>3. p \in Seq(Byte) /\ Len(p) \in {2, 4} /\ rest \in Seq(Byte) /\ j \in 0..(Len(p) + 6)
        BY PayloadType DEF Messages
      <3>4. /\ Head(stream) = Frame(p)[j + 1]
            /\ Tail(stream) = Coming(p, j + 1) \o rest
            /\ j = Len(p) + 6 => Tail(stream) = rest
        <4>1. /\ Head(Coming(p, j) \o rest) = Frame(p)[j + 1]
              /\ Tail(Coming(p, j) \o rest) = Coming(p, j + 1) \o rest
              /\ j = Len(p) + 6 => Coming(p, j + 1) \o rest = rest
          BY ONLY <3>3, ComingStep
        <4> QED BY ONLY <3>2, <4>1, Zenon
      <3>5. /\ j < Len(p) + 6 => Within(rd', p, j + 1) /\ rd'.st # "package"
            /\ j = Len(p) + 6 => rd'.st = "package" /\ rd'.data = p
        BY <1>1, <1>2, <3>2, <3>3, <3>4, TakeNext
      <3>6. CASE j < Len(p) + 6
        <4>1. j + 1 \in 1..(Len(p) + 6)
          BY <3>3, <3>6
        <4>2. Within(rd', p, j + 1) /\ stream' = Coming(p, j + 1) \o rest
          BY <1>1, <3>4, <3>5, <3>6
        <4>3. \E i \in 1..(Len(p) + 6) : Within(rd', p, i) /\ stream' = Coming(p, i) \o rest
          BY <4>1, <4>2
        <4>4. InMessage'
          BY <1>1, <4>3 DEF InMessage
        <4> QED BY <3>5, <3>6, <4>4
      <3>7. CASE j = Len(p) + 6
        BY <1>1, <3>4, <3>5, <3>7 DEF AtBorder
      <3> QED BY <3>3, <3>6, <3>7
    <2>2. CASE AtBorder
      <3>1. rd.st = "hunt"
        BY <1>1, <2>2 DEF AtBorder, Waiting
      <3>2. PICK p \in Payloads(receiver), rest \in Messages(receiver) :
              stream = Frame(p) \o rest
        BY <1>1, <2>2, FirstMessage DEF AtBorder
      <3>3. p \in Seq(Byte) /\ Len(p) \in {2, 4} /\ rest \in Seq(Byte) /\ 0 \in 0..(Len(p) + 6)
        BY PayloadType DEF Messages
      <3>4. Coming(p, 0) = Frame(p)
        BY <3>3, FrameType, SubSeqFull DEF Coming
      <3>5. Head(stream) = Frame(p)[0 + 1] /\ Tail(stream) = Coming(p, 0 + 1) \o rest
        <4>1. /\ Head(Coming(p, 0) \o rest) = Frame(p)[0 + 1]
              /\ Tail(Coming(p, 0) \o rest) = Coming(p, 0 + 1) \o rest
          BY ONLY <3>3, ComingStep
        <4> QED BY <3>2, <3>4, <4>1
      <3>6. Head(stream) = A0 /\ Tail(stream) = Coming(p, 1) \o rest /\ 1 \in 1..(Len(p) + 6)
        <4>1. 0 + 1 = 1 /\ 1 \in 1..(Len(p) + 6)
          BY ONLY <3>3
        <4>2. Frame(p)[1] = A0
          BY ONLY <3>3, FrameBytes
        <4> QED BY <3>5, <4>1, <4>2
      <3>7. rd' = [rd EXCEPT !.last = (Head(stream) = A0)]
        BY <1>1, <3>1, <3>6 DEF Taken, A0, A1
      <3>8. rd'.st = "hunt" /\ rd'.last
        BY <1>2, <3>1, <3>6, <3>7 DEF Readers
      <3>9. Within(rd', p, 1) /\ stream' = Coming(p, 1) \o rest
        BY <1>1, <3>6, <3>8 DEF Within
      <3>10. \E i \in 1..(Len(p) + 6) : Within(rd', p, i) /\ stream' = Coming(p, i) \o rest
        BY <3>6, <3>9
      <3>11. InMessage'
        BY <1>1, <3>10 DEF InMessage
      <3> QED BY <3>8, <3>11
    <2> QED BY <2>1, <2>2 DEF Aligned
  <1> QED BY <1>1, <1>3, <1>4 DEF Aligned

\* Whole messages more on the line keep reader and line together.
LEMMA SentAligned ==
    ASSUME Aligned, UNCHANGED <<pc, rd, receiver>>, NEW s \in Seq(Byte),
           stream' = stream \o s,
           \A t \in Messages(receiver) : t \o s \in Messages(receiver)
    PROVE  Aligned'
  <1>1. CASE InMessage
    <2>1. PICK p \in Payloads(receiver), rest \in Messages(receiver) :
            \E j \in 1..(Len(p) + 6) : Within(rd, p, j) /\ stream = Coming(p, j) \o rest
      BY <1>1 DEF InMessage
    <2>2. PICK j \in 1..(Len(p) + 6) : Within(rd, p, j) /\ stream = Coming(p, j) \o rest
      BY <2>1
    <2>3. Coming(p, j) \in Seq(Byte) /\ rest \in Seq(Byte) /\ rest \o s \in Messages(receiver)
      <3>1. Frame(p) \in Seq(Byte) /\ Len(Frame(p)) = Len(p) + 7 /\ Len(p) \in Nat
        BY PayloadType, FrameBytes
      <3>2. Coming(p, j) \in Seq(Byte)
        BY <3>1 DEF Coming
      <3>3. rest \in Seq(Byte)
        BY DEF Messages
      <3> QED BY <3>2, <3>3
    <2>4. stream' = Coming(p, j) \o (rest \o s)
      <3>1. (Coming(p, j) \o rest) \o s = Coming(p, j) \o (rest \o s)
        BY ONLY <2>3, s \in Seq(Byte), Rebracket
      <3> QED BY <2>2, <3>1
    <2>5. \E i \in 1..(Len(p) + 6) :
             Within(rd', p, i) /\ stream' = Coming(p, i) \o (rest \o s)
      BY <2>2, <2>4
    <2>6. InMessage'
      BY <2>3, <2>5 DEF InMessage
    <2> QED BY <2>6 DEF Aligned
  <1>2. CASE AtBorder
    <2>1. AtBorder'
      BY <1>2 DEF AtBorder
    <2> QED BY <2>1 DEF Aligned
  <1> QED BY <1>1, <1>2 DEF Aligned

\* A call of the reader, or its end, leaves the line where it was: at a border.
LEMMA BorderAligned ==
    ASSUME Aligned, rd.st \notin Waiting, UNCHANGED <<stream, receiver>>,
           rd'.st \in {"idle", "hunt"}, pc' \in {"request", "again"} => rd'.st = "idle"
    PROVE  Aligned'
  <1>1. AtBorder
    BY NotWithin DEF Aligned
  <1>2. AtBorder'
    BY <1>1 DEF AtBorder
  <1> QED BY <1>2 DEF Aligned

\* Every step that is not a disturbance keeps reader and line together, and
\* stores and confirms what was sent only.
LEMMA NextAligned ==
    ASSUME TypeInv, Aligned, [Next]_vars, faults' = faults
    PROVE  Aligned' /\ Genuine
  <1>1. StartRead => rd'.st = "hunt"
    BY IdleOK
  <1>2. ~Fault
    BY DEF Fault, TypeInv, TypeOK
  <1>3. rd.st = "package" => rd.data \in Payloads(receiver)
    BY DEF Aligned
  <1>4. CASE ReadByte
    BY <1>4, ReadByteAligned DEF ReadByte, thread, Genuine
  <1>5. CASE WriteRequest
    <2>1. UNCHANGED <<rd, stream, stored, receiver>> /\ pc = "request" /\ pc' = "again"
      BY <1>5 DEF WriteRequest, Write
    <2>2. rd'.st = "idle" /\ rd.st = "idle" /\ rd.st \notin Waiting
      BY <2>1 DEF Aligned, Waiting
    <2> QED BY <2>1, <2>2, BorderAligned DEF Genuine
  <1>6. CASE WriteAgain
    <2>1. UNCHANGED <<stream, stored, receiver>> /\ pc = "again" /\ pc' = "answer" /\ StartRead
      BY <1>6 DEF WriteAgain, Write
    <2>2. rd.st \notin Waiting
      BY <2>1 DEF Aligned, Waiting
    <2> QED BY <1>1, <2>1, <2>2, BorderAligned DEF Genuine
  <1>7. CASE GotAnswer
    <2>1. UNCHANGED <<stream, stored, receiver>> /\ rd.st \notin Waiting
      BY <1>7 DEF GotAnswer, outside, Waiting
    <2>2. PICK g \in Noise :
            \/ Confirmed(g) /\ Returned("version")
            \/ Returned("loop")
            \/ pc' = "again" /\ rd' = Idle
      BY <1>7 DEF GotAnswer
    <2>3. CASE Confirmed(g) /\ Returned("version")
      <3>1. rd.data \in Payloads(receiver) /\ At(rd.data, 1, g) = ACK
        BY <1>3, <2>3 DEF Confirmed, Answers
      <3>2. receiver = "ack"
        BY <3>1, PayloadSays
      <3>3. pc' = "version" /\ StartRead
        BY <2>3 DEF Returned
      <3> QED BY <1>1, <2>1, <3>2, <3>3, BorderAligned DEF Genuine
    <2>4. CASE Returned("loop")
      BY <1>1, <2>1, <2>4, BorderAligned DEF Returned, Genuine
    <2>5. CASE pc' = "again" /\ rd' = Idle
      BY <2>1, <2>5, BorderAligned DEF Idle, Genuine
    <2> QED BY <2>2, <2>3, <2>4, <2>5
  <1>8. CASE GotVersion
    <2>1. /\ UNCHANGED <<stream, stored, receiver>> /\ rd.st \notin Waiting
          /\ pc' = "loop" /\ StartRead
      BY <1>8 DEF GotVersion, outside, Waiting
    <2> QED BY <1>1, <2>1, BorderAligned DEF Genuine
  <1>9. CASE Ignore \/ SkipFix
    <2>1. /\ UNCHANGED <<pc, stream, stored, receiver>> /\ rd.st \notin Waiting
          /\ pc = "loop" /\ StartRead
      BY <1>9 DEF Ignore, SkipFix, Navigation, thread, outside, Waiting
    <2> QED BY <1>1, <2>1, BorderAligned DEF Genuine
  <1>10. CASE StoreFix
    <2>1. PICK g \in Noise : /\ FixAtHand(g)
                             /\ stored' = <<At(rd.data, 3, g), At(rd.data, 4, g)>>
      BY <1>10 DEF StoreFix
    <2>2. /\ UNCHANGED <<pc, stream, receiver>> /\ pc = "loop" /\ StartRead
          /\ rd.st = "package" /\ At(rd.data, 1, g) = NAVIGATION
      BY <1>10, <2>1 DEF StoreFix, FixAtHand, Navigation, outside
    <2>3. stored' \in Positions
      BY <1>3, <2>1, <2>2, PayloadSays
    <2>4. rd.st \notin Waiting
      BY <2>2 DEF Waiting
    <2> QED BY <1>1, <2>2, <2>3, <2>4, BorderAligned DEF Genuine
  <1>11. CASE TimeUp \/ ReadTimeout \/ Garble \/ Lose
    BY <1>2, <1>11 DEF TimeUp, ReadTimeout, Garble, Lose
  <1>12. CASE Reply
    <2>1. /\ UNCHANGED <<pc, rd, stored, receiver>> /\ stream' = stream \o Answer
          /\ receiver \in {"ack", "nack", "silent"}
      BY <1>1, <1>12 DEF Reply, Send, thread, TypeInv, TypeOK
    <2>2. Answer \in Seq(Byte)
      BY <2>1, MessagesAreBytes
    <2>3. ASSUME NEW t \in Messages(receiver)
          PROVE  t \o Answer \in Messages(receiver)
      <3>1. t \in Seq(Byte)
        BY DEF Messages
      <3>2. CASE receiver = "ack"
        <4> DEFINE ack == Frame(<<ACK, QUERY_VERSION>>)
                   version == Frame(<<VERSION, 1, 0, 0>>)
        <4>1. <<ACK, QUERY_VERSION>> \in Payloads("ack") /\ <<VERSION, 1, 0, 0>> \in Payloads("ack")
          BY DEF Payloads
        <4>2. (t \o ack) \o version \in Messages("ack")
          <5>1. t \o ack \in Messages("ack")
            BY <3>2, <4>1, MessageBehind
          <5> HIDE DEF ack, version
          <5>2. version = Frame(<<VERSION, 1, 0, 0>>)
            BY DEF version
          <5> QED BY <4>1, <5>1, <5>2, MessageBehind
        <4>3. ack \in Seq(Byte) /\ version \in Seq(Byte)
          BY <4>1, PayloadType
        <4>4. (t \o ack) \o version = t \o (ack \o version)
          <5> HIDE DEF ack, version
          <5> QED BY ONLY <3>1, <4>3, Rebracket, Zenon
        <4>5. Answer = ack \o version
          BY <3>2 DEF Answer
        <4> QED BY <3>2, <4>2, <4>4, <4>5
      <3>3. CASE receiver = "nack"
        <4>1. <<NACK, QUERY_VERSION>> \in Payloads("nack")
          BY DEF Payloads
        <4>2. Answer = Frame(<<NACK, QUERY_VERSION>>)
          BY <3>3 DEF Answer
        <4> QED BY <3>3, <4>1, <4>2, MessageBehind
      <3>4. CASE receiver = "silent"
        BY <3>1, <3>4, ConcatEmptySeq DEF Answer
      <3> QED BY <2>1, <3>2, <3>3, <3>4
    <2> QED BY <2>1, <2>2, <2>3, SentAligned DEF Genuine
  <1>13. ASSUME NEW q \in {UNUSABLE, GOOD}, SendNavigation(q)
         PROVE  Aligned' /\ Genuine
    <2>1. PICK x \in Positions : stream' = stream \o NavFrame(q, x)
      BY <1>13 DEF SendNavigation, Send
    <2>2. UNCHANGED <<pc, rd, stored, receiver>>
      BY <1>13 DEF SendNavigation, thread, outside
    <2>3. <<NAVIGATION, q, x[1], x[2]>> \in Payloads(receiver)
      BY DEF Payloads
    <2>4. NavFrame(q, x) \in Seq(Byte)
      BY MessagesAreBytes
    <2>5. \A t \in Messages(receiver) : t \o NavFrame(q, x) \in Messages(receiver)
      BY <2>3, MessageBehind DEF NavFrame
    <2> QED BY <2>1, <2>2, <2>4, <2>5, SentAligned DEF Genuine
  <1>14. CASE UNCHANGED vars
    <2>1. UNCHANGED <<pc, rd, stored, receiver, stream>>
      BY <1>14 DEF vars, thread, outside
    <2> QED BY <2>1 DEF Aligned, InMessage, AtBorder, Genuine
  <1> QED BY <1>4, <1>5, <1>6, <1>7, <1>8, <1>9, <1>10, <1>11, <1>12, <1>13, <1>14
          DEF Next, ThreadNext

-----------------------------------------------------------------------------
(* What is stored and confirmed.                                            *)

GenuineInv == TypeInv /\ (faults = 0 => Aligned /\ FixGenuine /\ AnswerGenuine)

\* The first state.
LEMMA InitGenuine == Init => GenuineInv
  <1> SUFFICES ASSUME Init PROVE GenuineInv OBVIOUS
  <1>1. rd.st = "idle" /\ stream = <<>> /\ stored = <<0, 0>> /\ pc = "request"
    BY DEF Init, Idle
  <1>2. AtBorder
    BY <1>1, MessageInFront DEF AtBorder
  <1>3. FixGenuine /\ AnswerGenuine
    BY <1>1 DEF FixGenuine, AnswerGenuine
  <1> QED BY <1>1, <1>2, <1>3, InitTypes DEF GenuineInv, Aligned

\* The receiver answers in the same way for ever, and disturbances are counted.
LEMMA FaultsCounted ==
    ASSUME TypeInv, [Next]_vars
    PROVE  receiver' = receiver /\ faults' >= faults
  BY DEF TypeInv, TypeOK, Fault, Next, ThreadNext, ReadByte, WriteRequest, WriteAgain, Write,
         GotAnswer, GotVersion, Ignore, SkipFix, StoreFix, TimeUp, ReadTimeout, Reply,
         Garble, Lose, SendNavigation, vars, thread, outside

\* Every step; a disturbance ends what is claimed.
LEMMA NextGenuine == GenuineInv /\ [Next]_vars => GenuineInv'
  <1> SUFFICES ASSUME GenuineInv, [Next]_vars PROVE GenuineInv'
    OBVIOUS
  <1>1. TypeInv /\ TypeInv'
    BY NextTypes DEF GenuineInv
  <1> SUFFICES ASSUME faults' = 0 PROVE Aligned' /\ FixGenuine' /\ AnswerGenuine'
    BY <1>1 DEF GenuineInv
  <1>2. faults = 0 /\ receiver' = receiver
    BY <1>1, FaultsCounted DEF TypeInv, TypeOK
  <1>3. Aligned /\ FixGenuine /\ AnswerGenuine
    BY <1>2 DEF GenuineInv
  <1>4. Aligned' /\ Genuine
    BY <1>1, <1>2, <1>3, NextAligned
  <1> QED BY <1>2, <1>3, <1>4 DEF Genuine, FixGenuine, AnswerGenuine

\* FixGenuine: until the line is disturbed for the first time, every position
\* that is stored is one the receiver reported - wherever in the stream the
\* reader starts, whatever bytes the positions are made of (the marks of a
\* message may be among them), and however many messages wait on the line.
THEOREM FixGenuineUndisturbed == Spec => [](faults = 0 => FixGenuine)
  <1>1. GenuineInv => (faults = 0 => FixGenuine)
    BY DEF GenuineInv
  <1> QED BY <1>1, InitGenuine, NextGenuine, PTL DEF Spec

\* AnswerGenuine: until the line is disturbed for the first time, the request
\* counts as confirmed only if the receiver confirmed it, however many
\* navigation data come between the request and its answer.
THEOREM AnswerGenuineUndisturbed == Spec => [](faults = 0 => AnswerGenuine)
  <1>1. GenuineInv => (faults = 0 => AnswerGenuine)
    BY DEF GenuineInv
  <1> QED BY <1>1, InitGenuine, NextGenuine, PTL DEF Spec

\* After any disturbances: once reader and line fit together again - the reader
\* in a message of which it has every byte so far, or at a border - they do until
\* the next disturbance, and all that while a step stores only a position the
\* receiver reported and takes a request for confirmed only if it was.
THEOREM RecoveryLasts ==
    Spec => [][Aligned /\ faults' = faults => Aligned' /\ Genuine]_vars
  <1>1. TypeInv /\ [Next]_vars => (Aligned /\ faults' = faults => Aligned' /\ Genuine)
    BY NextAligned
  <1> QED BY <1>1, InitTypes, NextTypes, PTL DEF Spec
=============================================================================
