---------------------------- MODULE GraphProofs ----------------------------
(* Proofs about Graph. *)
EXTENDS Graph, TLAPS, WellFoundedInduction

USE GraphAssumption DEF setting

\* Up to the row n, every row has come with an answer, comes with `more`, or is
\* older than the narrowest time span.
Covered(n, more) ==
    /\ n <= Len(rows)
    /\ \A i \in 1..n : i \in seen \cup more \/ rows[i] <= serverTime - narrowest

\* The index is covered, and so is that of every request and answer under way: it
\* may be set again when the answer comes.
AllCovered ==
    /\ narrowest <= Whole(timespan)
    /\ Covered(index, {})
    /\ \A c \in 1..Connections :
         /\ Asked(c) => narrowest <= conn[c].timespan /\ Covered(conn[c].index, {})
         /\ Answered(c) => Covered(conn[c].index, conn[c].data)

Inv == TypeOK /\ AllCovered

\* What is on a connection.
Conns ==
    {Idle}
    \cup [at : {"server"}, index : 0..MaxRows, timespan : Nat]
    \cup [at : {"client"}, data : SUBSET (1..MaxRows), hasIndex : BOOLEAN,
          index : 0..MaxRows, timespan : Nat]

-----------------------------------------------------------------------------
(* Operators.                                                               *)

\* The interval is never zero, for the time span is not below the number of polls
\* where it is divided by it.
LEMMA IntervalPositive ==
    ASSUME NEW s \in Nat \ {0} PROVE Interval(s) \in Nat \ {0}
  <1>1. CASE s < Short
    BY <1>1 DEF Interval
  <1>2. CASE s >= Short
    <2>1. s \div Polls \in Int /\ Polls * (s \div Polls) <= s
          /\ s < Polls * (s \div Polls) + Polls
      BY SMTT(30)
    <2>2. s >= Polls
      BY <1>2
    <2>3. s \div Polls >= 1
      BY <2>1, <2>2, SMTT(30)
    <2> QED BY <1>2, <2>1, <2>3 DEF Interval
  <1> QED BY <1>1, <1>2

\* The smaller of two numbers.
LEMMA MinPair ==
    ASSUME NEW a \in Int, NEW b \in Int
    PROVE  /\ Min({a, b}) \in {a, b} /\ Min({a, b}) <= a /\ Min({a, b}) <= b
  <1>1. \E m \in {a, b} : \A y \in {a, b} : m <= y
    <2>1. CASE a <= b BY <2>1
    <2>2. CASE b <= a BY <2>2
    <2> QED BY <2>1, <2>2
  <1> QED BY <1>1 DEF Min

\* An inhabited set of natural numbers has a least one.
LEMMA LeastExists ==
    ASSUME NEW S \in SUBSET Nat, S # {}
    PROVE  \E m \in S : \A y \in S : m <= y
  <1> DEFINE R == OpToRel(<, Nat)
  <1>1. PICK m \in S : \A y \in S : <<y, m>> \notin R
    <2>1. IsWellFoundedOn(R, Nat) BY NatLessThanWellFounded
    <2> HIDE DEF R
    <2> QED BY <2>1, WFMin
  <1>2. \A y \in S : ~ (y < m)
    BY <1>1 DEF OpToRel
  <1> QED BY <1>2

\* A bounded, inhabited set of numbers has a greatest one, Max.
LEMMA MaxRange ==
    ASSUME NEW n \in Nat, NEW S \in SUBSET (1..n), S # {}
    PROVE  Max(S) \in S /\ \A y \in S : y <= Max(S)
  <1> DEFINE D == {n - y : y \in S}
  <1>0. \A y \in S : y \in 1..n /\ n - y \in Nat
    OBVIOUS
  <1>1. D \subseteq Nat /\ D # {}
    BY <1>0
  <1>2. PICK d \in D : \A e \in D : d <= e
    BY <1>1, LeastExists
  <1>3. PICK m \in S : d = n - m
    BY <1>2
  <1>4. \A y \in S : m >= y
    <2> TAKE y \in S
    <2>1. n - m <= n - y
      BY <1>2, <1>3
    <2> QED BY <1>0, <2>1
  <1> QED BY <1>4 DEF Max

\* Whole seconds: what is cut off is less than a second, and the order stays.
LEMMA WholeRange ==
    ASSUME NEW s \in Int
    PROVE  Whole(s) \in Int /\ Whole(s) <= s /\ s < Whole(s) + Second
  <1> DEFINE q == s \div Second
  <1>1. q \in Int /\ Second * q <= s /\ s < Second * q + Second
    BY SMTT(30)
  <1>2. q * Second = Second * q /\ q * Second \in Int
    <2>1. q \in Int BY <1>1
    <2> HIDE DEF q
    <2> QED BY <2>1, SMTT(30)
  <1> QED BY <1>1, <1>2 DEF Whole

LEMMA WholeMonotone ==
    ASSUME NEW a \in Int, NEW b \in Int, a <= b PROVE Whole(a) <= Whole(b)
  <1> DEFINE p == a \div Second  q == b \div Second
  <1>1. p \in Int /\ q \in Int
    BY SMTT(30)
  <1>2. Whole(a) = p * Second /\ Whole(b) = q * Second
    BY DEF Whole
  <1>3. /\ Whole(a) <= a /\ a < Whole(a) + Second /\ Whole(a) \in Int
        /\ Whole(b) <= b /\ b < Whole(b) + Second /\ Whole(b) \in Int
    BY WholeRange
  <1> HIDE DEF p, q
  <1>4. CASE p <= q
    <2>1. p * Second <= q * Second
      BY <1>1, <1>4, SMTT(30)
    <2> QED BY <1>2, <2>1
  <1>5. CASE p > q
    <2>1. p >= q + 1
      BY <1>1, <1>5
    <2>2. p * Second >= (q + 1) * Second
      BY <1>1, <2>1, SMTT(30)
    <2>3. (q + 1) * Second = q * Second + Second
      BY <1>1, SMTT(30)
    <2> QED BY <1>2, <1>3, <2>2, <2>3
  <1> QED BY <1>1, <1>4, <1>5

\* A time span in whole seconds.
LEMMA WholeSpan ==
    ASSUME NEW s \in Nat PROVE Whole(s) \in Nat
  <1>1. Whole(0) = 0
    <2>1. 0 \div Second = 0
      BY SMTT(30)
    <2> QED BY <2>1 DEF Whole
  <1> QED BY <1>1, WholeRange, WholeMonotone

\* Times are stored in their order.
LEMMA StoredMonotone ==
    ASSUME serverZone \in Int, NEW a \in Int, NEW b \in Int, a <= b
    PROVE  Stored(a) \in Int /\ Stored(b) \in Int /\ Stored(a) <= Stored(b)
  <1>1. Whole(a) \in Int /\ Whole(b) \in Int /\ Whole(a) <= Whole(b)
    BY WholeRange, WholeMonotone
  <1>2. CASE plugin = "sqlite"
    BY <1>1, <1>2 DEF Stored
  <1>3. CASE plugin # "sqlite"
    BY <1>3 DEF Stored
  <1> QED BY <1>2, <1>3

\* The server's clock goes on.
LEMMA ServerTime ==
    ASSUME TypeOK, UNCHANGED <<plugin, serverZone>>, now' \in Int, now <= now'
    PROVE  serverTime \in Int /\ serverTime' \in Int /\ serverTime <= serverTime'
  <1>1. serverZone \in Int /\ now \in Int
    BY DEF TypeOK
  <1>2. Stored(now) \in Int /\ Stored(now') \in Int /\ Stored(now) <= Stored(now')
    BY <1>1, StoredMonotone
  <1>3. serverTime = Stored(now) /\ serverTime' = Stored(now')
    BY DEF serverTime, Stored
  <1> QED BY <1>2, <1>3

LEMMA ServerTimeStays ==
    ASSUME TypeOK
    PROVE  /\ serverTime \in Int
           /\ UNCHANGED world => serverTime' = serverTime
  <1>1. serverZone \in Int /\ now \in Int
    BY DEF TypeOK
  <1>2. UNCHANGED world => serverTime' = serverTime
    BY DEF serverTime, Stored, world
  <1> QED BY <1>1, <1>2, StoredMonotone DEF serverTime

\* The table to begin with.
LEMMA FilledTable ==
    ASSUME Init
    PROVE  /\ rows \in Seq(Int) /\ Len(rows) \in Nat /\ Len(rows) <= MaxRows
           /\ \A i, j \in 1..Len(rows) : i <= j => rows[i] <= rows[j]
           /\ \A i \in 1..Len(rows) : rows[i] <= serverTime
  <1>1. PICK a \in Ages : rows = [i \in 1..Len(a) |-> Stored(0 - a[i])]
    BY DEF Init
  <1>2. /\ Len(a) \in Nat /\ Len(a) <= MaxRows /\ \A i \in 1..Len(a) : a[i] \in Nat
        /\ \A i, j \in 1..Len(a) : i <= j => a[i] >= a[j]
    <2>1. a \in Seq(Nat)
      OBVIOUS
    <2> QED BY <2>1
  <1>3. serverZone \in Int /\ now = 0
    BY DEF Init
  <1>4. \A i \in 1..Len(a) : Stored(0 - a[i]) \in Int /\ Stored(0 - a[i]) <= serverTime
    <2> TAKE i \in 1..Len(a)
    <2>1. 0 - a[i] \in Int /\ 0 \in Int /\ 0 - a[i] <= 0
      BY <1>2
    <2> QED BY <1>3, <2>1, StoredMonotone DEF serverTime
  <1>5. ASSUME NEW i \in 1..Len(a), NEW j \in 1..Len(a), i <= j
        PROVE  Stored(0 - a[i]) <= Stored(0 - a[j])
    <2>1. 0 - a[i] \in Int /\ 0 - a[j] \in Int /\ 0 - a[i] <= 0 - a[j]
      BY <1>2, <1>5
    <2> QED BY <1>3, <2>1, StoredMonotone
  <1>6. rows \in Seq(Int) /\ Len(rows) = Len(a)
    BY <1>1, <1>2, <1>4
  <1> QED BY <1>1, <1>2, <1>4, <1>5, <1>6
-----------------------------------------------------------------------------
(* The invariant.                                                            *)

\* The first state.
LEMMA InitInv == Init => Inv
  <1> SUFFICES ASSUME Init PROVE Inv OBVIOUS
  <1>1. interval \in Nat \ {0}
    BY IntervalPositive DEF Init
  <1>2. TypeOK
    <2>1. rows \in Seq(Int) /\ Len(rows) <= MaxRows
      BY FilledTable
    <2>2. conn \in [1..Connections -> Conns]
      BY DEF Init, Conns
    <2>3. /\ index \in 0..MaxRows /\ timespan \in Nat \ {0} /\ axis \in Int
          /\ timer \in Int /\ now \in 0..MaxTime /\ events \in 0..MaxEvents
          /\ narrowest \in Nat
      BY WholeSpan DEF Init
    <2>4. /\ plotted \in BOOLEAN /\ plugin \in Plugins /\ table \in Tables /\ zone \in Zones
          /\ serverZone \in ServerZones /\ seen \subseteq 1..MaxRows
      BY DEF Init
    <2> QED BY <1>1, <2>1, <2>2, <2>3, <2>4 DEF TypeOK, Conns
  <1>3. AllCovered
    <2>1. index = 0 /\ timespan = Timespan /\ narrowest = Whole(Timespan)
          /\ \A c \in 1..Connections : conn[c] = Idle
      BY DEF Init
    <2>2. narrowest <= Whole(timespan)
      BY <2>1, WholeSpan
    <2>3. 0 <= Len(rows)
      BY FilledTable
    <2> QED BY <2>1, <2>2, <2>3 DEF AllCovered, Covered, Asked, Answered, Idle
  <1> QED BY <1>2, <1>3 DEF Inv

\* A request goes out with the index and the time span of the graph.
LEMMA UpdateInv == ASSUME Inv, Update PROVE Inv'
  <1> USE DEF Inv
  <1>1. PICK c \in 1..Connections : conn' = [conn EXCEPT ![c] = Request(index, timespan)]
    BY DEF Update
  <1>2. UNCHANGED <<graph, world, events, history>> /\ timer' = interval
        /\ serverTime' = serverTime
    BY ServerTimeStays DEF Update
  <1>3. conn' \in [1..Connections -> Conns]
    <2>1. Whole(timespan) \in Nat
      BY WholeSpan DEF TypeOK
    <2> QED BY <1>1, <2>1 DEF TypeOK, Conns, Request
  <1>4. TypeOK'
    BY <1>2, <1>3 DEF TypeOK, Conns, graph, world, history
  <1>5. ASSUME NEW d \in 1..Connections
        PROVE  /\ Asked(d)' => narrowest' <= conn'[d].timespan /\ Covered(conn[d].index, {})'
               /\ Answered(d)' => Covered(conn[d].index, conn[d].data)'
    <2>1. CASE d = c
      BY <2>1, <1>1, <1>2 DEF Request, Asked, Answered, AllCovered, Covered, TypeOK,
           graph, world, history
    <2>2. CASE d # c
      BY <2>2, <1>1, <1>2 DEF Asked, Answered, AllCovered, Covered, TypeOK,
           graph, world, history
    <2> QED BY <2>1, <2>2
  <1>6. AllCovered'
    BY <1>2, <1>5 DEF AllCovered, Covered, graph, world, history
  <1> QED BY <1>4, <1>6

\* What the server finds after the index and newer than the time span reaches, up
\* to the new index, all that had not been seen yet.
LEMMA AnswerCovered ==
    ASSUME Inv, NEW c \in 1..Connections, Asked(c)
    PROVE  LET r == conn[c]
           IN  /\ Result(r) \in SUBSET (1..MaxRows)
               /\ NewIndex(r) \in 0..MaxRows
               /\ Covered(NewIndex(r), Result(r))
               /\ Covered(r.index, {})
  <1> DEFINE r == conn[c]
  <1> USE DEF Inv
  <1>1. /\ r \in [at : {"server"}, index : 0..MaxRows, timespan : Nat]
        /\ narrowest <= r.timespan /\ Covered(r.index, {})
    BY DEF TypeOK, AllCovered, Asked, Idle
  <1>2. Len(rows) \in Nat /\ Len(rows) <= MaxRows /\ rows \in [1..Len(rows) -> Int]
        /\ serverTime \in Int
    BY ServerTimeStays DEF TypeOK
  <1>3. Result(r) \in SUBSET (1..Len(rows))
    BY DEF Result
  <1>4. CASE NewIndex(r) = r.index
    BY <1>1, <1>2, <1>3, <1>4 DEF Covered
  <1>5. CASE NewIndex(r) # r.index
    <2>1. Result(r) # {} /\ NewIndex(r) = Max(Result(r))
      BY <1>5 DEF NewIndex
    <2>2. Max(Result(r)) \in Result(r)
      BY <2>1, <1>2, <1>3, MaxRange
    <2>3. NewIndex(r) \in 1..Len(rows)
      BY <2>1, <2>2, <1>3
    <2>4. ASSUME NEW i \in 1..NewIndex(r), i \notin seen \cup Result(r)
          PROVE  rows[i] <= serverTime - narrowest
      <3>0. i \in 1..Len(rows) /\ rows[i] \in Int /\ serverTime \in Int
            /\ narrowest \in Nat /\ r.index \in Nat /\ r.timespan \in Nat
        BY <2>3, <1>1, <1>2 DEF TypeOK
      <3>1. CASE i <= r.index
        <4>1. i \in 1..r.index BY <3>0, <3>1
        <4> QED BY <4>1, <2>4, <1>1 DEF Covered
      <3>2. CASE i > r.index
        <4>1. rows[i] <= serverTime - r.timespan
          BY <3>0, <3>2, <2>4 DEF Result, Wanted
        <4> QED BY <4>1, <3>0, <1>1
      <3> QED BY <3>0, <3>1, <3>2
    <2> QED BY <2>3, <2>4, <1>1, <1>2, <1>3 DEF Covered
  <1> QED BY <1>4, <1>5

\* Nothing but the connection c has changed, and it holds a covered answer.
LEMMA AnswerInv ==
    ASSUME Inv, NEW c \in 1..Connections, NEW a \in Conns, a.at = "client",
           conn' = [conn EXCEPT ![c] = a], Covered(a.index, a.data),
           UNCHANGED <<graph, timer, world, history>>, events' \in 0..MaxEvents
    PROVE  Inv'
  <1> USE DEF Inv
  <1>1. TypeOK'
    BY DEF TypeOK, Conns, graph, world, history
  <1>2. serverTime' = serverTime
    BY ServerTimeStays
  <1>3. ASSUME NEW d \in 1..Connections
        PROVE  /\ Asked(d)' => narrowest' <= conn'[d].timespan /\ Covered(conn[d].index, {})'
               /\ Answered(d)' => Covered(conn[d].index, conn[d].data)'
    <2>1. CASE d = c
      BY <1>2, <2>1 DEF Asked, Answered, Covered, TypeOK, graph, world, history
    <2>2. CASE d # c
      BY <1>2, <2>2 DEF Asked, Answered, AllCovered, Covered, TypeOK, graph, world, history
    <2> QED BY <2>1, <2>2
  <1>4. AllCovered'
    BY <1>2, <1>3 DEF AllCovered, Covered, graph, world, history
  <1> QED BY <1>1, <1>4

LEMMA ServeInv == ASSUME Inv, NEW c \in 1..Connections, Serve(c) PROVE Inv'
  <1> DEFINE r == conn[c]
             a == Answer(r, Result(r), NewIndex(r))
  <1>1. Asked(c) /\ conn' = [conn EXCEPT ![c] = a]
    BY DEF Serve
  <1>2. /\ Result(r) \in SUBSET (1..MaxRows) /\ NewIndex(r) \in 0..MaxRows
        /\ Covered(NewIndex(r), Result(r))
    BY <1>1, AnswerCovered
  <1>3. r.timespan \in Nat /\ HasIndex(Result(r)) \in BOOLEAN
    BY <1>1 DEF Inv, TypeOK, Asked, Idle, HasIndex
  <1>4. a \in Conns /\ a.at = "client" /\ a.index = NewIndex(r) /\ a.data = Result(r)
    BY <1>2, <1>3 DEF Answer, Conns
  <1>5. UNCHANGED <<graph, timer, world, history>> /\ events' \in 0..MaxEvents
    BY DEF Serve, Inv, TypeOK
  <1> HIDE DEF a, r
  <1> QED BY <1>1, <1>2, <1>4, <1>5, AnswerInv

LEMMA ServeErrorInv == ASSUME Inv, NEW c \in 1..Connections, ServeError(c) PROVE Inv'
  <1> DEFINE r == conn[c]
             a == Answer(r, {}, r.index)
  <1>1. Asked(c) /\ conn' = [conn EXCEPT ![c] = a]
    BY DEF ServeError
  <1>2. Covered(r.index, {})
    BY <1>1, AnswerCovered
  <1>3. r.timespan \in Nat /\ r.index \in 0..MaxRows /\ HasIndex({}) \in BOOLEAN
    BY <1>1 DEF Inv, TypeOK, Asked, Idle, HasIndex
  <1>4. a \in Conns /\ a.at = "client" /\ a.index = r.index /\ a.data = {}
    BY <1>3 DEF Answer, Conns
  <1>5. UNCHANGED <<graph, timer, world, history>> /\ events' \in 0..MaxEvents
    BY DEF ServeError, Inv, TypeOK
  <1> HIDE DEF a, r
  <1> QED BY <1>1, <1>2, <1>4, <1>5, AnswerInv

\* The index of the answer is taken, whatever it was before; its rows are seen.
LEMMA ReceiveInv == ASSUME Inv, NEW c \in 1..Connections, Receive(c) PROVE Inv'
  <1> USE DEF Inv
  <1>1. /\ Answered(c) /\ conn' = [conn EXCEPT ![c] = Idle]
        /\ seen' = seen \cup conn[c].data
        /\ index' \in {index, conn[c].index}
        /\ axis' = timespan - Second /\ plotted' = TRUE
        /\ UNCHANGED <<timespan, interval, timer, world, events, narrowest>>
    BY DEF Receive, UpdateOptions
  <1>2. conn[c].data \in SUBSET (1..MaxRows) /\ conn[c].index \in 0..MaxRows
    BY <1>1 DEF TypeOK, Answered, Idle
  <1>3. conn' \in [1..Connections -> Conns]
    BY <1>1 DEF TypeOK, Conns
  <1>4. TypeOK'
    <2>1. index' \in 0..MaxRows /\ seen' \subseteq 1..MaxRows
      BY <1>1, <1>2 DEF TypeOK
    <2>2. axis' \in Int /\ plotted' \in BOOLEAN
      BY <1>1 DEF TypeOK
    <2> QED BY <1>1, <1>3, <2>1, <2>2 DEF TypeOK, Conns, world
  <1>5. Len(rows) <= Len(rows') /\ (\A i \in 1..Len(rows) : rows'[i] = rows[i])
        /\ serverTime' = serverTime /\ narrowest' = narrowest
    BY <1>1, ServerTimeStays DEF TypeOK, world
  <1>6. Covered(index, {})'
    <2>1. CASE index' = index
      <3>1. Covered(index, {}) /\ index \in Nat BY DEF AllCovered, TypeOK
      <3>2. Covered(index, {}) => \A n : n = index => Covered(n, {}) OBVIOUS
      <3> QED BY <2>1, <3>1, <1>1, <1>4, <1>5 DEF Covered, world
    <2>2. CASE index' = conn[c].index
      <3>1. Covered(conn[c].index, conn[c].data) BY <1>1 DEF AllCovered
      <3> QED BY <2>2, <3>1, <1>1, <1>2, <1>4, <1>5 DEF Covered, world
    <2> QED BY <1>1, <2>1, <2>2
  <1>7. ASSUME NEW d \in 1..Connections
        PROVE  /\ Asked(d)' => narrowest' <= conn'[d].timespan /\ Covered(conn[d].index, {})'
               /\ Answered(d)' => Covered(conn[d].index, conn[d].data)'
    <2>1. CASE d = c
      BY <2>1, <1>1 DEF Asked, Answered, Idle, TypeOK
    <2>2. CASE d # c
      BY <2>2, <1>1, <1>5 DEF Asked, Answered, AllCovered, Covered, TypeOK, world
    <2> QED BY <2>1, <2>2
  <1>8. AllCovered'
    BY <1>1, <1>6, <1>7 DEF AllCovered
  <1> QED BY <1>4, <1>8

LEMMA FailInv == ASSUME Inv, NEW c \in 1..Connections, Fail(c) PROVE Inv'
  <1> USE DEF Inv
  <1>1. /\ conn' = [conn EXCEPT ![c] = Idle] /\ events' \in 0..MaxEvents
        /\ UNCHANGED <<graph, timer, world, history>> /\ serverTime' = serverTime
    BY ServerTimeStays DEF Fail, OnError, TypeOK
  <1>2. conn' \in [1..Connections -> Conns]
    BY <1>1 DEF TypeOK, Conns
  <1>3. TypeOK'
    BY <1>1, <1>2 DEF TypeOK, Conns, graph, world, history
  <1>4. ASSUME NEW d \in 1..Connections
        PROVE  /\ Asked(d)' => narrowest' <= conn'[d].timespan /\ Covered(conn[d].index, {})'
               /\ Answered(d)' => Covered(conn[d].index, conn[d].data)'
    <2>1. CASE d = c
      BY <2>1, <1>1 DEF Asked, Answered, Idle, TypeOK
    <2>2. CASE d # c
      BY <2>2, <1>1 DEF Asked, Answered, AllCovered, Covered, TypeOK, graph, world, history
    <2> QED BY <2>1, <2>2
  <1>5. AllCovered'
    BY <1>1, <1>4 DEF AllCovered, Covered, graph, world, history
  <1> QED BY <1>3, <1>5

\* Only the graph's time span, interval and index change; the index stays or is 0.
LEMMA SetTimespanInv ==
    ASSUME Inv, Click, NEW s \in Nat \ {0}, SetTimespan(s) PROVE Inv'
  <1> USE DEF Inv
  <1>1. /\ index' \in {0, index} /\ timespan' = s /\ interval' = Interval(s)
        /\ narrowest' = Min({narrowest, Whole(s)})
        /\ events' \in 0..MaxEvents
        /\ UNCHANGED <<series, axis, plotted, timer, world, conn, seen>>
    BY DEF Click, SetTimespan, TypeOK
  <1>2. interval' \in Nat \ {0}
    BY <1>1, IntervalPositive
  <1>3. /\ narrowest' \in {narrowest, Whole(s)} /\ Whole(s) \in Nat
        /\ narrowest' <= narrowest /\ narrowest' <= Whole(s)
    <2> DEFINE w == Whole(s)
    <2>1. narrowest \in Int /\ w \in Nat /\ narrowest' = Min({narrowest, w})
      BY <1>1, WholeSpan DEF TypeOK
    <2> HIDE DEF w
    <2>2. narrowest' \in {narrowest, w} /\ narrowest' <= narrowest /\ narrowest' <= w
      <3>1. w \in Int /\ narrowest \in Int
        BY <2>1
      <3>2. /\ Min({narrowest, w}) \in {narrowest, w}
            /\ Min({narrowest, w}) <= narrowest /\ Min({narrowest, w}) <= w
        BY ONLY <3>1, MinPair
      <3> QED BY ONLY <2>1, <3>2
    <2> QED BY <2>1, <2>2 DEF w
  <1>4. TypeOK'
    BY <1>1, <1>2, <1>3 DEF TypeOK, world
  <1>5. serverTime' = serverTime /\ serverTime \in Int
    BY <1>1, ServerTimeStays
  <1>6. ASSUME NEW n \in 0..MaxRows, NEW more, Covered(n, more)
        PROVE  /\ n <= Len(rows')
               /\ \A i \in 1..n : i \in seen' \cup more \/ rows'[i] <= serverTime' - narrowest'
    <2>1. ASSUME NEW i \in 1..n, rows[i] <= serverTime - narrowest
          PROVE  rows[i] <= serverTime - narrowest'
      <3>1. i \in 1..Len(rows) BY <1>6 DEF Covered, TypeOK
      <3>2. rows[i] \in Int BY <3>1 DEF TypeOK
      <3> QED BY <3>2, <2>1, <1>3, <1>5 DEF TypeOK
    <2> QED BY <2>1, <1>5, <1>6, <1>1 DEF Covered, world
  <1>7. Covered(0, {})
    BY DEF Covered, TypeOK
  <1>8. Covered(index, {})'
    <2>1. Covered(index, {}) /\ index \in 0..MaxRows /\ 0 \in 0..MaxRows
      BY DEF AllCovered, TypeOK
    <2>2. \A n \in {0, index} :
            /\ n <= Len(rows')
            /\ \A i \in 1..n : i \in seen' \cup {} \/ rows'[i] <= serverTime' - narrowest'
      BY <2>1, <1>6, <1>7
    <2> QED BY <2>2, <1>1 DEF Covered
  <1>9. ASSUME NEW d \in 1..Connections
        PROVE  /\ Asked(d)' => narrowest' <= conn'[d].timespan /\ Covered(conn[d].index, {})'
               /\ Answered(d)' => Covered(conn[d].index, conn[d].data)'
    <2>1. CASE Asked(d)
      <3>1. conn[d].index \in 0..MaxRows /\ conn[d].timespan \in Nat
        BY <2>1 DEF TypeOK, Asked, Idle
      <3>2. Covered(conn[d].index, {}) /\ narrowest <= conn[d].timespan
        BY <2>1 DEF AllCovered
      <3>3. narrowest' <= conn'[d].timespan
        BY <3>1, <3>2, <1>1, <1>3 DEF TypeOK
      <3>4. Covered(conn[d].index, {})'
        BY <3>1, <3>2, <1>1, <1>6 DEF Covered
      <3>5. ~ Answered(d)'
        BY <2>1, <1>1 DEF Asked, Answered
      <3> QED BY <3>3, <3>4, <3>5
    <2>2. CASE Answered(d)
      <3>1. conn[d].index \in 0..MaxRows
        BY <2>2 DEF TypeOK, Answered, Idle
      <3> QED BY <2>2, <3>1, <1>1, <1>6 DEF AllCovered, Covered, Asked, Answered
    <2> QED BY <2>1, <2>2, <1>1 DEF Asked, Answered
  <1>10. AllCovered'
    BY <1>1, <1>3, <1>8, <1>9 DEF AllCovered
  <1> QED BY <1>4, <1>10

\* A row more, or a tick of the clock.
LEMMA WorldInv ==
    ASSUME Inv, UNCHANGED <<graph, setting, conn, events, history>>, timer' \in Int,
           \/ rows' = rows /\ now' \in 0..MaxTime /\ now <= now'
           \/ now' = now /\ rows' = Append(rows, serverTime) /\ Len(rows) < MaxRows
    PROVE  Inv'
  <1> USE DEF Inv
  <1>1. /\ rows' \in Seq(Int) /\ Len(rows') <= MaxRows /\ Len(rows) <= Len(rows')
        /\ \A i \in 1..Len(rows) : rows'[i] = rows[i]
    <2>1. rows \in Seq(Int) /\ Len(rows) \in Nat /\ Len(rows) <= MaxRows
          /\ serverTime \in Int
      BY ServerTimeStays DEF TypeOK
    <2>2. CASE rows' = rows BY <2>1, <2>2
    <2>3. CASE rows' = Append(rows, serverTime) /\ Len(rows) < MaxRows
      BY <2>1, <2>3
    <2> QED BY <2>2, <2>3
  <1>2. now' \in 0..MaxTime /\ now <= now'
    BY DEF TypeOK
  <1>3. serverTime \in Int /\ serverTime' \in Int /\ serverTime <= serverTime'
    BY <1>2, ServerTime
  <1>4. TypeOK'
    BY <1>1, <1>2 DEF TypeOK, graph, history
  <1>5. ASSUME NEW n \in 0..MaxRows, NEW more, Covered(n, more)
        PROVE  /\ n <= Len(rows')
               /\ \A i \in 1..n : i \in seen' \cup more \/ rows'[i] <= serverTime' - narrowest'
    <2>1. n <= Len(rows) /\ Len(rows) \in Nat /\ Len(rows') \in Nat
      BY <1>1, <1>5 DEF Covered, TypeOK
    <2>2. ASSUME NEW i \in 1..n, rows[i] <= serverTime - narrowest
          PROVE  rows'[i] <= serverTime' - narrowest
      <3>1. i \in 1..Len(rows) BY <2>1
      <3>2. rows'[i] = rows[i] /\ rows[i] \in Int BY <3>1, <1>1 DEF TypeOK
      <3>3. narrowest \in Int BY DEF TypeOK
      <3> QED BY ONLY <3>2, <3>3, <2>2, <1>3
    <2>3. UNCHANGED <<seen, narrowest>> BY DEF history
    <2> QED BY <2>1, <2>2, <2>3, <1>1, <1>5 DEF Covered
  <1>6. UNCHANGED <<index, timespan, seen, narrowest, conn>>
    BY DEF graph, history
  <1>7. Covered(index, {})'
    BY <1>5, <1>6 DEF Covered, AllCovered, TypeOK
  <1>8. ASSUME NEW d \in 1..Connections
        PROVE  /\ Asked(d)' => narrowest' <= conn'[d].timespan /\ Covered(conn[d].index, {})'
               /\ Answered(d)' => Covered(conn[d].index, conn[d].data)'
    <2>1. CASE Asked(d)
      <3>1. conn[d].index \in 0..MaxRows
        BY <2>1 DEF TypeOK, Asked, Idle
      <3> QED BY <2>1, <3>1, <1>5, <1>6 DEF AllCovered, Covered, Asked, Answered
    <2>2. CASE Answered(d)
      <3>1. conn[d].index \in 0..MaxRows
        BY <2>2 DEF TypeOK, Answered, Idle
      <3> QED BY <2>2, <3>1, <1>5, <1>6 DEF AllCovered, Covered, Asked, Answered
    <2> QED BY <2>1, <2>2, <1>6 DEF Asked, Answered
  <1>9. AllCovered'
    BY <1>6, <1>7, <1>8 DEF AllCovered
  <1> QED BY <1>4, <1>9

\* Every step keeps the invariant.
LEMMA NextInv == Inv /\ [Next]_vars => Inv'
  <1> SUFFICES ASSUME Inv, [Next]_vars PROVE Inv' OBVIOUS
  <1>1. CASE Update BY <1>1, UpdateInv
  <1>2. CASE Increase
    <2>1. timespan * 2 \in Nat \ {0} BY DEF Inv, TypeOK
    <2> QED BY <1>2, <2>1, SetTimespanInv DEF Increase
  <1>3. CASE Decrease
    <2>1. timespan \div 2 \in Nat \ {0}
      BY <1>3 DEF Decrease, Inv, TypeOK
    <2> QED BY <1>3, <2>1, SetTimespanInv DEF Decrease
  <1>4. CASE Insert
    BY <1>4, WorldInv DEF Insert, Inv, TypeOK
  <1>5. CASE Tick
    BY <1>5, WorldInv DEF Tick, Inv, TypeOK
  <1>6. ASSUME NEW c \in 1..Connections, Network(c) \/ ServeError(c) \/ Fail(c)
        PROVE  Inv'
    BY <1>6, ServeInv, ReceiveInv, ServeErrorInv, FailInv DEF Network
  <1>7. CASE UNCHANGED vars
    BY <1>7, WorldInv DEF vars, world, Inv, TypeOK
  <1> QED BY <1>1, <1>2, <1>3, <1>4, <1>5, <1>6, <1>7 DEF Next

-----------------------------------------------------------------------------
(* Theorems.                                                                 *)

\* The inductive invariant holds in every behaviour.
THEOREM Invariance == Spec => []Inv
  BY InitInv, NextInv, PTL DEF Spec

\* Every variable of the graph, the server and the network keeps its type, and the
\* interval between two polls is never zero.
THEOREM TypeCorrect == Spec => []TypeOK
  BY Invariance, PTL DEF Inv

\* graph.js:112-113: however requests overlap and answers overtake each other, get
\* lost or meet a changed time span, and although the time span is cut to whole seconds
\* on its way, the index passes no row that has not come with an answer and is not older
\* than the narrowest time span that can have been asked for.
THEOREM IndexNeverSkips == Spec => []NothingSkipped
  <1>1. Inv => NothingSkipped
    BY DEF Inv, AllCovered, Covered, NothingSkipped
  <1> QED BY <1>1, Invariance, PTL
=============================================================================
