------------------------- MODULE GraphSeriesProofs -------------------------
(* Proofs about what Graph draws: the series that appendData leaves, and the *)
(* rows a graph on PostgreSQL shows.                                         *)
EXTENDS GraphProofs, FiniteSetTheorems, SequenceTheorems

USE DEF setting

-----------------------------------------------------------------------------
(* Recursion over the dots.                                                  *)

\* Induction over the natural numbers, for a set.
LEMMA SetInduction ==
    ASSUME NEW S, 0 \in S, \A n \in Nat : n \in S => n + 1 \in S
    PROVE  \A n \in Nat : n \in S
  <1> DEFINE Bad == {n \in Nat : n \notin S}
  <1> SUFFICES ASSUME Bad # {} PROVE FALSE
    OBVIOUS
  <1>1. PICK m \in Bad : \A n \in Bad : m <= n
    BY LeastExists
  <1>2. m - 1 \in Nat /\ m - 1 \notin Bad
    BY <1>1
  <1>3. (m - 1) + 1 \in S
    BY <1>2
  <1> QED BY <1>1, <1>3

\* What the loop of Appended leaves of the first k dots of d, u[i] being what it
\* leaves of the first i.
Laid(d, u, k) ==
    IF k <= 1 THEN SubSeq(d, 1, k)
    ELSE IF Outdated(d[k]) THEN <<d[k]>>
    ELSE IF Far(d[k-1], d[k])
      THEN u[k-1] \o <<NoValue(d[k-1]), NoValue(d[k]), d[k]>>
    ELSE Append(u[k-1], d[k])

\* There is a function with this recursion.
LEMMA LaidExists ==
    ASSUME NEW d, NEW n \in Nat
    PROVE  \E u : u = [k \in 0..n |-> Laid(d, u, k)]
  <1> DEFINE S == {m \in Nat : \E u : u = [k \in 0..m |-> Laid(d, u, k)]}
  <1>1. 0 \in S
    <2> DEFINE u == [k \in 0..0 |-> SubSeq(d, 1, k)]
    <2>1. u = [k \in 0..0 |-> Laid(d, u, k)]
      <3>1. \A k \in 0..0 : Laid(d, u, k) = SubSeq(d, 1, k)
        BY DEF Laid
      <3> QED BY <3>1
    <2> QED BY <2>1
  <1>2. ASSUME NEW m \in Nat, m \in S PROVE m + 1 \in S
    <2>1. PICK v : v = [k \in 0..m |-> Laid(d, v, k)]
      BY <1>2
    <2> DEFINE u == [k \in 0..(m + 1) |-> Laid(d, v, k)]
    <2>2. ASSUME NEW k \in 0..(m + 1) PROVE Laid(d, v, k) = Laid(d, u, k)
      <3>1. CASE k <= 1
        BY <3>1 DEF Laid
      <3>2. CASE k > 1
        <4>1. k - 1 \in 0..m /\ k - 1 \in 0..(m + 1)
          BY <3>2
        <4>2. v[k-1] = Laid(d, v, k-1) /\ u[k-1] = Laid(d, v, k-1)
          <5>1. v[k-1] = Laid(d, v, k-1)
            <6> HIDE DEF u
            <6> QED BY <2>1, <4>1
          <5> QED BY <5>1, <4>1
        <4> HIDE DEF u
        <4> QED BY <3>2, <4>2 DEF Laid
      <3> QED BY <3>1, <3>2
    <2>3. u = [k \in 0..(m + 1) |-> Laid(d, u, k)]
      BY <2>2
    <2>4. \E w : w = [k \in 0..(m + 1) |-> Laid(d, w, k)]
      <3> HIDE DEF u
      <3> QED BY <2>3
    <2> QED BY <2>4
  <1>3. \A m \in Nat : m \in S
    <2> HIDE DEF S
    <2> QED BY <1>1, <1>2, SetInduction
  <1> QED BY <1>3

\* What Appended leaves is what such a function gives.
LEMMA AppendedLaid ==
    ASSUME NEW d, Len(d) \in Nat
    PROVE  \E u : /\ Appended(d) = u[Len(d)]
                  /\ \A k \in 0..Len(d) : u[k] = Laid(d, u, k)
  <1>1. \E u : /\ Appended(d) = u[Len(d)]
               /\ u = CHOOSE v : v = [k \in 0..Len(d) |-> Laid(d, v, k)]
    BY Zenon DEF Appended, Laid
  <1>2. PICK u : /\ Appended(d) = u[Len(d)]
                 /\ u = CHOOSE v : v = [k \in 0..Len(d) |-> Laid(d, v, k)]
    BY <1>1
  <1>3. u = [k \in 0..Len(d) |-> Laid(d, u, k)]
    BY <1>2, LaidExists, Zenon
  <1>4. \A k \in 0..Len(d) : u[k] = Laid(d, u, k)
    <2> TAKE k \in 0..Len(d)
    <2> HIDE DEF Laid
    <2> QED BY <1>3
  <1> QED BY <1>2, <1>4

-----------------------------------------------------------------------------
(* The dots of an answer.                                                    *)

\* A run of ids, put in their order, is the ids one after the other.
LEMMA RunInOrder ==
    ASSUME NEW m \in Nat \ {0}, NEW n \in Nat, m <= n
    PROVE  /\ InIdOrder(m..n) \in [1..(n - m + 1) -> m..n]
           /\ \A k \in 1..(n - m + 1) : InIdOrder(m..n)[k] = m + k - 1
  <1> DEFINE size == n - m + 1
             id == InIdOrder(m..n)
  <1>1. size \in Nat /\ Cardinality(m..n) = size
    BY FS_Interval
  <1>2. \E f \in [1..size -> m..n] : \A j, k \in DOMAIN f : j < k => f[j] < f[k]
    <2> DEFINE f == [k \in 1..size |-> m + k - 1]
    <2>1. f \in [1..size -> m..n] /\ \A j, k \in DOMAIN f : j < k => f[j] < f[k]
      OBVIOUS
    <2> HIDE DEF f, size
    <2> QED BY <2>1
  <1>3. id \in [1..size -> m..n] /\ \A j, k \in 1..size : j < k => id[j] < id[k]
    <2>1. id = CHOOSE f \in [1..size -> m..n] : \A j, k \in DOMAIN f : j < k => f[j] < f[k]
      <3> HIDE DEF size
      <3> QED BY <1>1 DEF InIdOrder
    <2> HIDE DEF id, size
    <2> QED BY <1>2, <2>1
  <1> HIDE DEF id
  <1>4. \A k \in 1..size : id[k] \in m..n
    <2> HIDE DEF size
    <2> QED BY <1>3
  <1> DEFINE Up == {i \in Nat : i + 1 \in 1..size => id[i + 1] >= m + i}
             Down == {i \in Nat : size - i \in 1..size => id[size - i] <= n - i}
  <1>5. \A i \in Nat : i \in Up
    <2>1. 0 \in Up
      BY <1>1, <1>4
    <2>2. ASSUME NEW i \in Nat, i \in Up PROVE i + 1 \in Up
      <3>1. SUFFICES ASSUME i + 2 \in 1..size PROVE id[i + 2] >= m + i + 1
        BY <2>2
      <3>2. i + 1 \in 1..size /\ id[i + 1] >= m + i
        BY <3>1, <2>2
      <3>3. id[i + 1] < id[i + 2]
        BY <3>1, <3>2, <1>3
      <3> QED BY <3>1, <3>2, <3>3, <1>4
    <2> HIDE DEF Up
    <2> QED BY <2>1, <2>2, SetInduction
  <1>6. \A i \in Nat : i \in Down
    <2>1. 0 \in Down
      BY <1>1, <1>4
    <2>2. ASSUME NEW i \in Nat, i \in Down PROVE i + 1 \in Down
      <3>1. SUFFICES ASSUME size - (i + 1) \in 1..size
                     PROVE  id[size - (i + 1)] <= n - (i + 1)
        OBVIOUS
      <3>2. size - i \in 1..size /\ id[size - i] <= n - i
        BY <3>1, <2>2
      <3>3. id[size - (i + 1)] < id[size - i]
        BY <3>1, <3>2, <1>3
      <3> QED BY <3>1, <3>2, <3>3, <1>4
    <2> HIDE DEF Down
    <2> QED BY <2>1, <2>2, SetInduction
  <1>7. ASSUME NEW k \in 1..size PROVE id[k] = m + k - 1
    <2>1. k - 1 \in Nat /\ (k - 1) + 1 = k
      OBVIOUS
    <2>2. id[k] >= m + (k - 1)
      BY <2>1, <1>5
    <2>3. size - k \in Nat /\ size - (size - k) = k /\ n - (size - k) = m + k - 1
      BY <1>1
    <2>4. id[k] <= m + k - 1
      BY <2>3, <1>6
    <2> QED BY <2>2, <2>4, <1>4
  <1> QED BY <1>3, <1>7 DEF id

Dot == [t : Int, row : Nat]

\* The dots of an answer: the rows from m on, one after the other, all but the first
\* in local time.
DotsFrom(d, m) ==
    /\ d \in Seq(Dot)
    /\ \A k \in 1..Len(d) :
         /\ d[k].row = m + k - 1 /\ d[k].row \in 1..Len(rows)
         /\ d[k].t = IF k = 1 THEN rows[d[k].row] ELSE rows[d[k].row] - zone

\* The rows are in the order of their times.
InOrder ==
    /\ \A i, j \in 1..Len(rows) : i <= j => rows[i] <= rows[j]
    /\ \A i \in 1..Len(rows) : rows[i] <= serverTime

LEMMA TypeInt ==
    ASSUME TypeOK
    PROVE  /\ Len(rows) \in Nat /\ \A i \in 1..Len(rows) : rows[i] \in Int
           /\ zone \in Int /\ now \in Int /\ timespan \in Int /\ Gap \in Int
           /\ serverZone \in Int /\ serverTime \in Int
  <1>1. /\ rows \in Seq(Int) /\ serverZone \in ServerZones /\ zone \in Zones /\ now \in 0..MaxTime
        /\ timespan \in Nat \ {0}
    BY DEF TypeOK
  <1>2. Len(rows) \in Nat /\ \A i \in 1..Len(rows) : rows[i] \in Int
    BY <1>1, GraphAssumption
  <1>3. serverTime \in Int
    BY ServerTimeStays
  <1> QED BY <1>1, <1>2, <1>3, GraphAssumption

LEMMA RunDots ==
    ASSUME TypeOK, NEW m \in Nat \ {0}, NEW n \in 0..Len(rows)
    PROVE  /\ DotsFrom(Adjusted(m..n), m)
           /\ Len(Adjusted(m..n)) = IF m <= n THEN n - m + 1 ELSE 0
  <1>0. Len(rows) \in Nat /\ (\A i \in 1..Len(rows) : rows[i] \in Int) /\ zone \in Int /\ n \in Nat
    BY TypeInt
  <1>1. CASE m <= n
    <2> DEFINE id == InIdOrder(m..n)  size == n - m + 1
    <2>1. id \in [1..size -> m..n] /\ \A k \in 1..size : id[k] = m + k - 1
      BY <1>0, <1>1, RunInOrder
    <2>2. size \in Nat /\ Len(id) = size
      <3>1. size \in Nat
        BY <1>0, <1>1
      <3> HIDE DEF id, size
      <3> QED BY <2>1, <3>1
    <2> DEFINE d == [k \in 1..size |-> [t   |-> IF k = 1 THEN rows[id[k]] ELSE rows[id[k]] - zone,
                                        row |-> id[k]]]
    <2>3. Adjusted(m..n) = d
      <3>1. Adjusted(m..n) = [k \in 1..Len(id) |->
                [t |-> IF k = 1 THEN rows[id[k]] ELSE rows[id[k]] - zone, row |-> id[k]]]
        BY DEF Adjusted
      <3> HIDE DEF id, size
      <3> QED BY <2>2, <3>1
    <2> HIDE DEF id
    <2>4. \A k \in 1..size : id[k] = m + k - 1 /\ id[k] \in 1..Len(rows) /\ rows[id[k]] \in Int
      BY <1>0, <1>1, <2>1
    <2>5. d \in Seq(Dot) /\ Len(d) = size
      <3>1. \A k \in 1..size : d[k] \in Dot
        BY <2>4, <1>0 DEF Dot
      <3> HIDE DEF size
      <3> QED BY <2>2, <3>1
    <2>6. \A k \in 1..size :
            /\ d[k].row = m + k - 1 /\ d[k].row \in 1..Len(rows)
            /\ d[k].t = IF k = 1 THEN rows[d[k].row] ELSE rows[d[k].row] - zone
      BY <2>4
    <2> HIDE DEF d
    <2> QED BY <1>1, <2>3, <2>5, <2>6 DEF DotsFrom
  <1>2. CASE m > n
    <2>1. m..n = {} /\ Cardinality({}) = 0
      BY <1>2, <1>0, FS_EmptySet
    <2>2. InIdOrder({}) = <<>>
      <3>1. InIdOrder({}) = CHOOSE f \in [1..0 -> {}] : \A j, k \in DOMAIN f : j < k => f[j] < f[k]
        BY <2>1 DEF InIdOrder
      <3>2. \A f \in [1..0 -> {}] : f = <<>>
        OBVIOUS
      <3>3. \E f \in [1..0 -> {}] : \A j, k \in DOMAIN f : j < k => f[j] < f[k]
        <4>1. <<>> \in [1..0 -> {}] /\ DOMAIN <<>> = {}
          OBVIOUS
        <4> QED BY <4>1
      <3> QED BY <3>1, <3>2, <3>3
    <2>3. Adjusted(m..n) = <<>>
      <3>1. Len(InIdOrder(m..n)) = 0
        BY <2>1, <2>2
      <3> QED BY <3>1 DEF Adjusted
    <2>4. DotsFrom(<<>>, m) /\ Len(<<>>) = 0
      BY DEF DotsFrom
    <2> QED BY <2>3, <2>4, <1>2, <1>0
  <1> QED BY <1>0, <1>1, <1>2

-----------------------------------------------------------------------------
(* What the loop leaves of the dots.                                         *)

\* GapsShown, of the dots k and k + 1 of a series s.
GapAt(s, k) ==
    /\ s[k].row # 0 /\ s[k+1].row # 0 =>
         /\ s[k+1].row = s[k].row + 1
         /\ rows[s[k+1].row] <= rows[s[k].row] + Gap
    /\ s[k].row = 0 /\ s[k+1].row = 0 /\ k # 2 =>
         /\ s[k-1].row # 0 /\ s[k+2].row = s[k-1].row + 1
         /\ rows[s[k+2].row] > rows[s[k-1].row] + Gap
         /\ s[k].t = s[k-1].t /\ s[k+1].t = s[k+2].t

LEMMA GapsAt == GapsShown <=> \A k \in 2..Len(series) - 1 : GapAt(series, k)
  BY DEF GapsShown, GapAt

\* s is what the loop leaves of the first k dots of d: the last one is there, the
\* gaps are, and so is every dot of the time span.
Drawn(d, s, k) ==
    /\ s \in Seq(Dot) /\ Len(s) > 0 /\ s[Len(s)] = d[k]
    /\ k = 1 => Len(s) = 1
    /\ \A i \in 1..Len(s) : s[i].row \in 0..Len(rows)
    /\ \A i \in 2..Len(s) - 1 : GapAt(s, i)
    /\ \A i \in 1..k : rows[d[i].row] > now - timespan => \E j \in 1..Len(s) : s[j] = d[i]

\* What is compared in local time is compared in UTC.
LEMMA ZoneCancels ==
    ASSUME NEW a \in Int, NEW b \in Int, NEW c \in Int, NEW z \in Int
    PROVE  /\ a - z <= b - z - c => a <= b - c
           /\ a - z > b - z + c <=> a > b + c
  OBVIOUS

LEMMA Orders ==
    ASSUME NEW a \in Int, NEW b \in Int, NEW c \in Int
    PROVE  /\ a <= b /\ b <= c => ~(a > c)
           /\ ~(a > b + c) => a <= b + c
           /\ a > b - c => ~(a <= b - c)
  OBVIOUS

\* A dot behind the first one is outdated when its row is, and far from the one
\* before when their rows are, in every time zone.
LEMMA DotAt ==
    ASSUME TypeOK, NEW m \in Nat, NEW d, DotsFrom(d, m), NEW k \in 1..Len(d)
    PROVE  /\ d \in Seq(Dot) /\ Len(d) \in Nat /\ d[k] \in Dot
           /\ d[k].row = m + k - 1 /\ d[k].row \in 1..Len(rows) /\ d[k].row # 0
           /\ Len(rows) \in Nat /\ rows[d[k].row] \in Int
           /\ k # 1 /\ Outdated(d[k]) => rows[d[k].row] <= now - timespan
           /\ k > 2 => (Far(d[k-1], d[k]) <=> rows[d[k].row] > rows[d[k-1].row] + Gap)
  <1>1. d \in Seq(Dot) /\ Len(d) \in Nat /\ d[k] \in Dot
    BY DEF DotsFrom
  <1>2. \A i \in 1..Len(d) :
          /\ d[i].row = m + i - 1 /\ d[i].row \in 1..Len(rows)
          /\ d[i].t = IF i = 1 THEN rows[d[i].row] ELSE rows[d[i].row] - zone
    BY DEF DotsFrom
  <1>3. \A i \in 1..Len(d) : rows[d[i].row] \in Int
    BY <1>2, TypeInt
  <1>4. ASSUME k # 1, Outdated(d[k]) PROVE rows[d[k].row] <= now - timespan
    <2>1. d[k].t = rows[d[k].row] - zone
      BY <1>2, <1>4
    <2>2. rows[d[k].row] - zone <= now - zone - timespan
      BY <1>4, <2>1 DEF Outdated, getLocalTime
    <2>3. rows[d[k].row] \in Int /\ now \in Int /\ timespan \in Int /\ zone \in Int
      BY <1>3, TypeInt
    <2> QED BY <2>2, <2>3, ZoneCancels
  <1>5. ASSUME k > 2
        PROVE  Far(d[k-1], d[k]) <=> rows[d[k].row] > rows[d[k-1].row] + Gap
    <2>1. k - 1 \in 1..Len(d) /\ k - 1 # 1 /\ k # 1
      BY <1>1, <1>5
    <2>2. d[k].t = rows[d[k].row] - zone /\ d[k-1].t = rows[d[k-1].row] - zone
      BY <1>2, <2>1
    <2>3. Far(d[k-1], d[k]) <=> rows[d[k].row] - zone > rows[d[k-1].row] - zone + Gap
      BY <2>2 DEF Far
    <2>4. rows[d[k].row] \in Int /\ rows[d[k-1].row] \in Int /\ Gap \in Int /\ zone \in Int
      BY <2>1, <1>3, TypeInt
    <2> QED BY <2>3, <2>4, ZoneCancels
  <1>6. /\ d[k].row = m + k - 1 /\ d[k].row \in 1..Len(rows) /\ Len(rows) \in Nat
        /\ rows[d[k].row] \in Int
    BY <1>2, <1>3, TypeInt
  <1>7. d[k].row # 0
    BY ONLY <1>6
  <1> QED BY <1>1, <1>4, <1>5, <1>6, <1>7

\* One dot: the loop begins with it, or ends at it.
LEMMA DrawnOne ==
    ASSUME TypeOK, InOrder, NEW m \in Nat, NEW d, DotsFrom(d, m), NEW k \in 1..Len(d),
           k = 1 \/ Outdated(d[k])
    PROVE  Drawn(d, <<d[k]>>, k)
  <1> DEFINE s == <<d[k]>>
  <1>1. d[k] \in Dot /\ d[k].row \in 1..Len(rows) /\ Len(d) \in Nat /\ Len(rows) \in Nat
    BY DotAt
  <1>2. s \in Seq(Dot) /\ Len(s) = 1 /\ s[1] = d[k]
    BY <1>1
  <1>3. ASSUME NEW i \in 1..k, rows[d[i].row] > now - timespan PROVE i = k
    <2>1. SUFFICES ASSUME i < k PROVE FALSE
      BY <1>1
    <2>2. i \in 1..Len(d) /\ k # 1
      BY <1>1, <2>1
    <2>3. rows[d[k].row] <= now - timespan
      BY <2>2, DotAt
    <2>4. d[i].row <= d[k].row /\ d[i].row \in 1..Len(rows) /\ rows[d[i].row] \in Int
          /\ rows[d[k].row] \in Int
      <3>1. d[i].row = m + i - 1 /\ d[k].row = m + k - 1
        BY <2>2, DotAt
      <3>2. d[i].row <= d[k].row
        <4>1. i \in Nat /\ k \in Nat /\ m \in Nat
          BY <1>1
        <4> QED BY ONLY <2>1, <3>1, <4>1
      <3> QED BY <2>2, <3>2, DotAt
    <2>5. rows[d[i].row] <= rows[d[k].row]
      BY <1>1, <2>4 DEF InOrder
    <2>6. now - timespan \in Int
      BY TypeInt
    <2> QED BY ONLY <1>3, <2>3, <2>4, <2>5, <2>6, Orders
  <1> HIDE DEF s
  <1>4. \A i \in 1..k : rows[d[i].row] > now - timespan => \E j \in 1..Len(s) : s[j] = d[i]
    BY <1>2, <1>3
  <1>5. Drawn(d, s, k)
    BY <1>1, <1>2, <1>4 DEF Drawn
  <1> QED BY <1>5 DEF s

\* One dot more, connected with the one before.
LEMMA DrawnJoined ==
    ASSUME TypeOK, NEW m \in Nat, NEW d, DotsFrom(d, m), NEW k \in 2..Len(d),
           NEW s, Drawn(d, s, k - 1), ~ Far(d[k-1], d[k])
    PROVE  Drawn(d, Append(s, d[k]), k)
  <1> DEFINE r == Append(s, d[k])  l == Len(s)
  <1>1. /\ k \in 1..Len(d) /\ k - 1 \in 1..Len(d) /\ Len(d) \in Nat
    BY DEF DotsFrom
  <1>2. /\ s \in Seq(Dot) /\ l \in Nat /\ l > 0 /\ s[l] = d[k-1] /\ d[k] \in Dot
        /\ d[k].row \in 1..Len(rows) /\ Len(rows) \in Nat
    BY <1>1, DotAt DEF Drawn
  <1>3. r \in Seq(Dot) /\ Len(r) = l + 1 /\ r[l + 1] = d[k] /\ \A i \in 1..l : r[i] = s[i]
    BY <1>2
  <1> HIDE DEF r
  <1>4. \A i \in 1..Len(r) : r[i].row \in 0..Len(rows)
    <2> TAKE i \in 1..Len(r)
    <2>1. CASE i = l + 1
      BY <1>2, <1>3, <2>1
    <2>2. CASE i # l + 1
      <3>1. i \in 1..l
        BY <1>2, <1>3, <2>2
      <3> QED BY <1>3, <3>1 DEF Drawn
    <2> QED BY <2>1, <2>2
  <1>5. ASSUME NEW i \in 2..l PROVE GapAt(r, i)
    <2>1. CASE i = l
      <3>1. k > 2
        BY <1>2, <2>1 DEF Drawn
      <3>2. r[i] = d[k-1] /\ r[i+1] = d[k]
        BY <1>2, <1>3, <2>1
      <3>3. /\ d[k].row = m + k - 1 /\ d[k-1].row = m + (k - 1) - 1
            /\ d[k-1].row # 0 /\ d[k].row # 0
            /\ rows[d[k].row] \in Int /\ rows[d[k-1].row] \in Int
            /\ ~ (rows[d[k].row] > rows[d[k-1].row] + Gap)
        BY <1>1, <3>1, DotAt
      <3>4. d[k].row = d[k-1].row + 1
        BY <3>3
      <3>5. rows[d[k].row] <= rows[d[k-1].row] + Gap
        <4>1. Gap \in Int
          BY TypeInt
        <4> QED BY ONLY <3>3, <4>1, Orders
      <3> QED BY <3>2, <3>3, <3>4, <3>5 DEF GapAt
    <2>2. CASE i < l
      <3>0. i \in 2..l - 1 /\ i \in 1..l /\ i + 1 \in 1..l /\ i - 1 \in 1..l
        BY <1>2, <2>2
      <3>1. r[i] = s[i] /\ r[i+1] = s[i+1] /\ r[i-1] = s[i-1]
        BY <1>3, <3>0
      <3>2. GapAt(s, i)
        BY <3>0 DEF Drawn
      <3>3. s[i+1].row = 0 => r[i+2] = s[i+2]
        <4>1. s[l].row # 0
          BY <1>1, <1>2, DotAt
        <4>2. i + 1 # l => i + 2 \in 1..l
          BY <1>2, <3>0
        <4> QED BY <4>1, <4>2, <1>3
      <3> QED BY <3>1, <3>2, <3>3 DEF GapAt
    <2> QED BY <1>2, <2>1, <2>2
  <1>6. ASSUME NEW i \in 1..k, rows[d[i].row] > now - timespan
        PROVE  \E j \in 1..Len(r) : r[j] = d[i]
    <2>1. CASE i = k
      BY <1>2, <1>3, <2>1
    <2>2. CASE i < k
      <3>1. PICK j \in 1..Len(s) : s[j] = d[i]
        BY <1>1, <1>6, <2>2 DEF Drawn
      <3> QED BY <1>2, <1>3, <3>1
    <2> QED BY <1>1, <2>1, <2>2
  <1>7. r[Len(r)] = d[k] /\ Len(r) > 0 /\ k # 1 /\ Len(r) - 1 = l
    BY <1>2, <1>3
  <1>8. Drawn(d, r, k)
    BY <1>3, <1>4, <1>5, <1>6, <1>7 DEF Drawn
  <1> QED BY <1>8 DEF r

\* One dot more, parted from the one before by two without a value.
LEMMA DrawnParted ==
    ASSUME TypeOK, NEW m \in Nat, NEW d, DotsFrom(d, m), NEW k \in 2..Len(d),
           NEW s, Drawn(d, s, k - 1), Far(d[k-1], d[k])
    PROVE  Drawn(d, s \o <<NoValue(d[k-1]), NoValue(d[k]), d[k]>>, k)
  <1> DEFINE a == NoValue(d[k-1])  b == NoValue(d[k])
             r == s \o <<a, b, d[k]>>  l == Len(s)
  <1>1. /\ k \in 1..Len(d) /\ k - 1 \in 1..Len(d) /\ Len(d) \in Nat
    BY DEF DotsFrom
  <1>2. /\ s \in Seq(Dot) /\ l \in Nat /\ l > 0 /\ s[l] = d[k-1] /\ d[k] \in Dot /\ d[k-1] \in Dot
        /\ d[k].row \in 1..Len(rows) /\ Len(rows) \in Nat
        /\ d[k].row # 0 /\ d[k-1].row # 0
    BY <1>1, DotAt DEF Drawn
  <1>3. /\ a \in Dot /\ a.row = 0 /\ a.t = d[k-1].t
        /\ b \in Dot /\ b.row = 0 /\ b.t = d[k].t
    BY <1>2 DEF NoValue, Dot
  <1> HIDE DEF a, b
  <1>4. /\ r \in Seq(Dot) /\ Len(r) = l + 3 /\ \A i \in 1..l : r[i] = s[i]
        /\ r[l + 1] = a /\ r[l + 2] = b /\ r[l + 3] = d[k]
    BY <1>2, <1>3
  <1> HIDE DEF r
  <1>5. \A i \in 1..Len(r) : r[i].row \in 0..Len(rows)
    <2>1. \A i \in 1..l : r[i].row \in 0..Len(rows)
      BY <1>4 DEF Drawn
    <2>2. \A i \in 1..(l + 3) : i \in 1..l \/ i = l + 1 \/ i = l + 2 \/ i = l + 3
      BY <1>2
    <2>3. a.row \in 0..Len(rows) /\ b.row \in 0..Len(rows) /\ d[k].row \in 0..Len(rows)
      BY <1>2, <1>3
    <2> QED BY ONLY <1>4, <2>1, <2>2, <2>3
  <1>6. ASSUME NEW i \in 2..(l + 2) PROVE GapAt(r, i)
    <2>1. CASE i = l \/ i = l + 2
      <3>1. (r[i].row # 0 /\ r[i+1].row = 0) \/ (r[i].row = 0 /\ r[i+1].row # 0)
        <4>1. CASE i = l
          BY <1>2, <1>3, <1>4, <4>1
        <4>2. CASE i = l + 2
          BY <1>2, <1>3, <1>4, <4>2
        <4> QED BY <2>1, <4>1, <4>2
      <3> QED BY <3>1 DEF GapAt
    <2>2. CASE i = l + 1
      <3>1. SUFFICES ASSUME i # 2 PROVE GapAt(r, i)
        BY <1>3, <1>4, <2>2 DEF GapAt
      <3>2. k > 2
        <4>1. l # 1
          BY <1>2, <2>2, <3>1
        <4>2. k - 1 # 1
          BY <4>1 DEF Drawn
        <4>3. k \in Nat /\ k >= 2
          BY <1>1
        <4> QED BY ONLY <4>2, <4>3
      <3>3. r[i-1] = d[k-1] /\ r[i] = a /\ r[i+1] = b /\ r[i+2] = d[k]
        <4>1. l \in Nat /\ l > 0
          BY <1>2
        <4> HIDE DEF l
        <4>2. i - 1 = l /\ i + 1 = l + 2 /\ i + 2 = l + 3 /\ l \in 1..l
          BY ONLY <2>2, <4>1
        <4> QED BY <1>2, <1>4, <2>2, <4>2
      <3>4. /\ d[k].row = m + k - 1 /\ d[k-1].row = m + (k - 1) - 1
            /\ rows[d[k].row] > rows[d[k-1].row] + Gap
        BY <1>1, <3>2, DotAt
      <3>5. d[k].row = d[k-1].row + 1
        BY <3>4
      <3> QED BY <1>2, <1>3, <3>3, <3>4, <3>5 DEF GapAt
    <2>3. CASE i < l
      <3>0. i \in 2..l - 1 /\ i \in 1..l /\ i + 1 \in 1..l /\ i - 1 \in 1..l
        <4>1. l \in Nat /\ i \in 2..(l + 2)
          BY <1>2
        <4> HIDE DEF l
        <4> QED BY ONLY <2>3, <4>1
      <3>1. r[i] = s[i] /\ r[i+1] = s[i+1] /\ r[i-1] = s[i-1]
        BY <1>4, <3>0
      <3>2. GapAt(s, i)
        BY <3>0 DEF Drawn
      <3>3. s[i+1].row = 0 => r[i+2] = s[i+2]
        <4>1. s[l].row # 0
          BY <1>2
        <4>2. i + 1 # l => i + 2 \in 1..l
          BY <1>2, <3>0
        <4> QED BY <4>1, <4>2, <1>4
      <3> QED BY <3>1, <3>2, <3>3 DEF GapAt
    <2> QED BY <1>2, <2>1, <2>2, <2>3
  <1>7. ASSUME NEW i \in 1..k, rows[d[i].row] > now - timespan
        PROVE  \E j \in 1..Len(r) : r[j] = d[i]
    <2>1. CASE i = k
      BY <1>2, <1>4, <2>1
    <2>2. CASE i < k
      <3>1. PICK j \in 1..Len(s) : s[j] = d[i]
        BY <1>1, <1>7, <2>2 DEF Drawn
      <3> QED BY <1>2, <1>4, <3>1
    <2> QED BY <1>1, <2>1, <2>2
  <1>8. r[Len(r)] = d[k] /\ Len(r) > 0 /\ k # 1 /\ Len(r) - 1 = l + 2
    BY <1>2, <1>4
  <1>9. Drawn(d, r, k)
    BY <1>4, <1>5, <1>6, <1>7, <1>8 DEF Drawn
  <1> QED BY <1>9 DEF r, a, b

\* A sequence of one element.
LEMMA OneElement ==
    ASSUME NEW s \in Seq(Dot), NEW t \in Seq(Dot), Len(s) = 1, Len(t) = 1, s[1] = t[1]
    PROVE  s = t
  <1>1. \A i \in 1..Len(s) : s[i] = t[i]
    OBVIOUS
  <1> QED BY <1>1, SeqEqual, Zenon

\* What is left of the rows m to n, of which one at least there is, is the last one
\* and before it what is drawn of the others.
LEMMA AppendedDrawn ==
    ASSUME TypeOK, InOrder, NEW m \in Nat \ {0}, NEW n \in 0..Len(rows), m <= n
    PROVE  Drawn(Adjusted(m..n), Appended(Adjusted(m..n)), n - m + 1)
  <1> DEFINE d == Adjusted(m..n)  size == n - m + 1
  <1>1. DotsFrom(d, m) /\ Len(d) = size /\ size \in Nat /\ size > 0
    <2>1. size \in Nat /\ size > 0
      BY TypeInt
    <2> QED BY <2>1, RunDots
  <1> HIDE DEF d, size
  <1>2. PICK u : Appended(d) = u[size] /\ \A k \in 0..size : u[k] = Laid(d, u, k)
    BY <1>1, AppendedLaid
  <1> DEFINE S == {i \in Nat : i + 1 \in 1..size => Drawn(d, u[i + 1], i + 1)}
  <1>3. 0 \in S
    <2>1. u[1] = SubSeq(d, 1, 1)
      <3>1. u[1] = Laid(d, u, 1)
        BY <1>1, <1>2
      <3> QED BY <3>1 DEF Laid
    <2>2. SubSeq(d, 1, 1) = <<d[1]>>
      <3>1. d \in Seq(Dot) /\ Len(d) >= 1
        BY <1>1 DEF DotsFrom
      <3>2. SubSeq(d, 1, 1) \in Seq(Dot) /\ Len(SubSeq(d, 1, 1)) = 1 /\ SubSeq(d, 1, 1)[1] = d[1]
        BY <3>1
      <3>3. <<d[1]>> \in Seq(Dot) /\ Len(<<d[1]>>) = 1 /\ <<d[1]>>[1] = d[1]
        BY <3>1
      <3> QED BY ONLY <3>2, <3>3, OneElement
    <2>3. Drawn(d, <<d[1]>>, 1)
      BY <1>1, DrawnOne
    <2> QED BY <2>1, <2>2, <2>3
  <1>4. ASSUME NEW i \in Nat, i \in S PROVE i + 1 \in S
    <2> DEFINE k == i + 2
    <2>1. SUFFICES ASSUME k \in 1..size PROVE Drawn(d, u[k], k)
      OBVIOUS
    <2>2. /\ k \in 2..Len(d) /\ k \in 1..Len(d) /\ k \in 0..size /\ ~ k <= 1
          /\ i + 1 \in 1..size /\ k - 1 = i + 1
      BY <1>1, <2>1
    <2>3. Drawn(d, u[k-1], k - 1)
      BY <1>4, <2>2
    <2> HIDE DEF k
    <2>4. u[k] = Laid(d, u, k)
      BY <1>2, <2>2
    <2>5. CASE Outdated(d[k])
      BY <1>1, <2>2, <2>4, <2>5, DrawnOne DEF Laid
    <2>6. CASE ~ Outdated(d[k]) /\ Far(d[k-1], d[k])
      BY <1>1, <2>2, <2>3, <2>4, <2>6, DrawnParted DEF Laid
    <2>7. CASE ~ Outdated(d[k]) /\ ~ Far(d[k-1], d[k])
      BY <1>1, <2>2, <2>3, <2>4, <2>7, DrawnJoined DEF Laid
    <2> QED BY <2>5, <2>6, <2>7
  <1>5. size - 1 \in S
    <2>1. \A i \in Nat : i \in S
      <3> HIDE DEF S
      <3> QED BY <1>3, <1>4, SetInduction
    <2> QED BY <2>1, <1>1
  <1>6. Drawn(d, u[size], size)
    <2>1. (size - 1) + 1 = size /\ size \in 1..size
      BY <1>1
    <2> QED BY <1>5, <2>1
  <1> QED BY <1>2, <1>6 DEF d, size

LEMMA AppendedNothing ==
    ASSUME TypeOK, NEW m \in Nat \ {0}, NEW n \in 0..Len(rows), m > n
    PROVE  Appended(Adjusted(m..n)) = <<>>
  <1> DEFINE d == Adjusted(m..n)
  <1>1. d \in Seq(Dot) /\ Len(d) = 0
    <2>1. DotsFrom(d, m) /\ Len(d) = IF m <= n THEN n - m + 1 ELSE 0
      BY RunDots
    <2>2. ~ m <= n
      BY TypeInt
    <2> HIDE DEF d
    <2> QED BY <2>1, <2>2 DEF DotsFrom
  <1> HIDE DEF d
  <1>2. PICK u : Appended(d) = u[0] /\ u[0] = Laid(d, u, 0)
    BY <1>1, AppendedLaid
  <1>3. SubSeq(d, 1, 0) = <<>>
    BY <1>1
  <1> QED BY <1>2, <1>3 DEF Laid, d

-----------------------------------------------------------------------------
(* The invariant.                                                            *)

\* An answer is a run of ids: the newest rows.
RunsCome ==
    \A c \in 1..Connections : Answered(c) =>
        \E m \in Nat \ {0}, n \in 0..Len(rows) : conn[c].data = m..n

\* The series is dots of rows that there are, and the last one has a value.
SeriesOK ==
    /\ series \in Seq(Dot) /\ \A k \in 1..Len(series) : series[k].row \in 0..Len(rows)
    /\ Len(series) > 0 => series[Len(series)].row # 0

\* With PostgreSQL every request is for the whole table, and so up to its newest row an
\* answer leaves out what is too old only.
WholeTable ==
    plugin = "postgres" =>
        /\ index = 0
        /\ \A c \in 1..Connections : conn[c] # Idle =>
             /\ conn[c].index = 0
             /\ Answered(c) => \A n \in conn[c].data : \A i \in 1..n :
                    i \in conn[c].data \/ rows[i] <= serverTime - conn[c].timespan

ShownInv == InOrder /\ RunsCome /\ SeriesOK /\ GapsShown /\ WholeTable

LEMMA InitShown == Init => ShownInv
  <1> SUFFICES ASSUME Init PROVE ShownInv OBVIOUS
  <1>1. series = <<>> /\ index = 0 /\ \A c \in 1..Connections : conn[c] = Idle
    BY DEF Init
  <1>2. InOrder /\ SeriesOK /\ GapsShown
    <2>1. InOrder
      BY FilledTable DEF InOrder
    <2> QED BY <1>1, <2>1 DEF SeriesOK, GapsShown
  <1>3. RunsCome /\ WholeTable
    BY <1>1 DEF RunsCome, WholeTable, Answered, Idle
  <1> QED BY <1>2, <1>3 DEF ShownInv

\* The rows a request is for are the newest ones, from some row on.
LEMMA ResultRun ==
    ASSUME TypeOK, InOrder, NEW c \in 1..Connections, Asked(c)
    PROVE  \E m \in Nat \ {0} : Result(conn[c]) = m..Len(rows)
  <1> DEFINE r == conn[c]
  <1>1. r.index \in Int /\ r.timespan \in Int
    BY DEF TypeOK, Asked, Idle
  <1>2. \A i \in 1..Len(rows) : rows[i] \in Int
    BY TypeInt
  <1>3. Len(rows) \in Nat /\ serverTime \in Int /\ Result(r) \in SUBSET Nat
    BY TypeInt DEF Result
  <1> HIDE DEF r
  <1>4. CASE Result(r) = {}
    <2>1. Len(rows) + 1 \in Nat \ {0} /\ (Len(rows) + 1)..Len(rows) = {}
      BY <1>3
    <2> QED BY <1>4, <2>1 DEF r
  <1>5. CASE Result(r) # {}
    <2>1. PICK m \in Result(r) : \A y \in Result(r) : m <= y
      BY <1>3, <1>5, LeastExists
    <2>2. m \in 1..Len(rows) /\ m > r.index /\ rows[m] > serverTime - r.timespan
      BY DEF Result, Wanted
    <2>3. ASSUME NEW i \in m..Len(rows) PROVE i \in Result(r)
      <3>1. i \in 1..Len(rows) /\ i > r.index
        BY <1>1, <1>3, <2>2
      <3>2. rows[m] <= rows[i]
        BY <2>2, <3>1 DEF InOrder
      <3>3. rows[i] > serverTime - r.timespan
        BY <1>1, <1>2, <1>3, <2>2, <3>1, <3>2
      <3> QED BY <3>1, <3>3 DEF Result, Wanted
    <2>4. \A i \in Result(r) : i \in m..Len(rows)
      BY <1>3, <2>1, <2>2 DEF Result
    <2>5. Result(r) = m..Len(rows)
      BY <2>3, <2>4, Zenon
    <2>6. m \in Nat \ {0}
      BY <2>2
    <2> QED BY <2>5, <2>6 DEF r
  <1> QED BY <1>4, <1>5

\* What comes onto one connection is no answer, or a run, and with PostgreSQL what it
\* says of the whole table is true.
LEMMA ConnShown ==
    ASSUME TypeOK, RunsCome, WholeTable, UNCHANGED <<plugin, serverTime, now, rows>>,
           NEW c \in 1..Connections, NEW a, conn' = [conn EXCEPT ![c] = a],
           a.at = "client" => \E m \in Nat \ {0}, n \in 0..Len(rows) : a.data = m..n,
           plugin = "postgres" => index' = 0,
           plugin = "postgres" /\ a # Idle =>
             /\ a.index = 0
             /\ a.at = "client" => \A n \in a.data : \A i \in 1..n :
                  i \in a.data \/ rows[i] <= serverTime - a.timespan
    PROVE  RunsCome' /\ WholeTable'
  <1>1. conn'[c] = a /\ \A d \in 1..Connections : d # c => conn'[d] = conn[d]
    BY DEF TypeOK
  <1>2. RunsCome'
    <2> SUFFICES ASSUME NEW d \in 1..Connections, conn'[d].at = "client"
                 PROVE  \E m \in Nat \ {0}, n \in 0..Len(rows) : conn'[d].data = m..n
      BY DEF RunsCome, Answered
    <2>1. CASE d = c BY <1>1, <2>1
    <2>2. CASE d # c BY <1>1, <2>2 DEF RunsCome, Answered
    <2> QED BY <2>1, <2>2
  <1>3. WholeTable'
    <2> SUFFICES ASSUME plugin = "postgres", NEW d \in 1..Connections, conn'[d] # Idle
                 PROVE  /\ conn'[d].index = 0
                        /\ conn'[d].at = "client" => \A n \in conn'[d].data : \A i \in 1..n :
                             i \in conn'[d].data \/ rows[i] <= serverTime - conn'[d].timespan
      BY DEF WholeTable, Answered, Idle
    <2>1. CASE d = c BY <1>1, <2>1
    <2>2. CASE d # c BY <1>1, <2>2 DEF WholeTable, Answered
    <2> QED BY <2>1, <2>2
  <1> QED BY <1>2, <1>3

\* The series and the rows it is of stay.
LEMMA SeriesStays ==
    ASSUME ShownInv, UNCHANGED <<series, rows, now, serverTime>> PROVE (InOrder /\ SeriesOK /\ GapsShown)'
  BY DEF ShownInv, InOrder, SeriesOK, GapsShown

LEMMA UpdateShown == ASSUME TypeOK, ShownInv, Update PROVE ShownInv'
  <1>1. PICK c \in 1..Connections : conn' = [conn EXCEPT ![c] = Request(index, timespan)]
    BY DEF Update
  <1>2. UNCHANGED <<series, index, plugin, serverTime, now, rows>>
    BY ServerTimeStays DEF Update, graph, world
  <1>3. /\ Request(index, timespan).at = "server"
        /\ Request(index, timespan).index = index
    BY DEF Request
  <1>4. plugin = "postgres" => index = 0
    BY DEF ShownInv, WholeTable
  <1>5. RunsCome' /\ WholeTable'
    BY <1>1, <1>2, <1>3, <1>4, ConnShown DEF ShownInv
  <1> QED BY <1>2, <1>5, SeriesStays DEF ShownInv

LEMMA FailShown == ASSUME TypeOK, ShownInv, NEW c \in 1..Connections, Fail(c) PROVE ShownInv'
  <1>1. conn' = [conn EXCEPT ![c] = Idle] /\ UNCHANGED <<series, index, plugin, serverTime, now, rows>>
    BY ServerTimeStays DEF Fail, graph, world
  <1>2. Idle.at # "client"
    BY DEF Idle
  <1>3. plugin = "postgres" => index = 0
    BY DEF ShownInv, WholeTable
  <1>4. RunsCome' /\ WholeTable'
    BY <1>1, <1>2, <1>3, ConnShown DEF ShownInv
  <1> QED BY <1>1, <1>4, SeriesStays DEF ShownInv

LEMMA ServeShown == ASSUME TypeOK, ShownInv, NEW c \in 1..Connections, Serve(c) PROVE ShownInv'
  <1> DEFINE r == conn[c]
             a == Answer(r, Result(r), NewIndex(r))
  <1>1. Asked(c) /\ conn' = [conn EXCEPT ![c] = a] /\ UNCHANGED <<series, index, plugin, serverTime, now, rows>>
    BY ServerTimeStays DEF Serve, graph, world
  <1>2. /\ a.at = "client" /\ a.data = Result(r) /\ a.index = NewIndex(r)
        /\ a.timespan = r.timespan
    BY DEF Answer
  <1>3. \E m \in Nat \ {0}, n \in 0..Len(rows) : a.data = m..n
    <2>1. Len(rows) \in 0..Len(rows)
      BY TypeInt
    <2> QED BY <1>1, <1>2, <2>1, ResultRun DEF ShownInv
  <1>4. ASSUME plugin = "postgres"
        PROVE  /\ a.index = 0
               /\ \A n \in a.data : \A i \in 1..n : i \in a.data \/ rows[i] <= serverTime - a.timespan
    <2>1. r.index = 0 /\ a.index = 0
      BY <1>1, <1>2, <1>4 DEF ShownInv, WholeTable, Asked, Idle, NewIndex
    <2>2. ASSUME NEW n \in Result(r), NEW i \in 1..n, i \notin Result(r)
          PROVE  rows[i] <= serverTime - r.timespan
      <3>1. i \in 1..Len(rows) /\ i > 0
        <4>1. n \in 1..Len(rows) /\ Len(rows) \in Nat
          BY TypeInt DEF Result
        <4> QED BY ONLY <4>1, <2>2
      <3>2. ~ (rows[i] > serverTime - r.timespan)
        BY <2>1, <2>2, <3>1 DEF Result, Wanted
      <3>3. r.timespan \in Int /\ rows[i] \in Int /\ serverTime \in Int
        <4>1. r.timespan \in Int
          BY <1>1 DEF TypeOK, Asked, Idle
        <4> QED BY <3>1, <4>1, TypeInt
      <3> QED BY ONLY <3>2, <3>3
    <2> QED BY <1>2, <2>1, <2>2
  <1>5. plugin = "postgres" => index = 0
    BY DEF ShownInv, WholeTable
  <1> HIDE DEF a
  <1>6. RunsCome' /\ WholeTable'
    BY <1>1, <1>3, <1>4, <1>5, ConnShown DEF ShownInv
  <1> QED BY <1>1, <1>6, SeriesStays DEF ShownInv

LEMMA ServeErrorShown ==
    ASSUME TypeOK, ShownInv, NEW c \in 1..Connections, ServeError(c) PROVE ShownInv'
  <1> DEFINE a == Answer(conn[c], {}, conn[c].index)
  <1>1. Asked(c) /\ conn' = [conn EXCEPT ![c] = a] /\ UNCHANGED <<series, index, plugin, serverTime, now, rows>>
    BY ServerTimeStays DEF ServeError, graph, world
  <1>2. a.at = "client" /\ a.data = {} /\ a.index = conn[c].index
    BY DEF Answer
  <1>3. \E m \in Nat \ {0}, n \in 0..Len(rows) : a.data = m..n
    <2>1. 1..0 = {} /\ 1 \in Nat \ {0} /\ 0 \in 0..Len(rows)
      BY TypeInt
    <2> QED BY <1>2, <2>1
  <1>4. plugin = "postgres" => index = 0 /\ a.index = 0
    BY <1>1, <1>2 DEF ShownInv, WholeTable, Asked, Idle
  <1> HIDE DEF a
  <1>5. RunsCome' /\ WholeTable'
    BY <1>1, <1>2, <1>3, <1>4, ConnShown DEF ShownInv
  <1> QED BY <1>1, <1>5, SeriesStays DEF ShownInv

\* The newest of some ids, and of none.
LEMMA MaxZero == Max({0} \cup {}) = 0
  BY DEF Max

LEMMA NewestId ==
    ASSUME NEW ids \in SUBSET (1..MaxRows), ids # {}, NEW i \in 1..Max({0} \cup ids)
    PROVE  \E n \in ids : i \in 1..n
  <1>1. PICK n \in ids : \A y \in ids : y <= n
    BY MaxRange, GraphAssumption
  <1>2. n \in {0} \cup ids /\ \A y \in {0} \cup ids : y <= n
    BY <1>1, GraphAssumption
  <1>3. \A k \in {0} \cup ids : (\A y \in {0} \cup ids : y <= k) => k = n
    BY <1>2, GraphAssumption
  <1>4. Max({0} \cup ids) = n
    BY <1>2, <1>3 DEF Max
  <1> QED BY <1>1, <1>4

\* An answer: what is drawn of it replaces the series.
LEMMA ReceiveDrawn ==
    ASSUME TypeOK, ShownInv, NEW c \in 1..Connections, Receive(c)
    PROVE  /\ (SeriesOK /\ GapsShown)'
           /\ \A i \in conn[c].data : rows[i] > now - timespan => i \in OnScreen'
  <1>1. PICK m \in Nat \ {0}, n \in 0..Len(rows) : conn[c].data = m..n
    BY DEF Receive, ShownInv, RunsCome
  <1> DEFINE d == Adjusted(m..n)  size == n - m + 1
  <1>2. series' = Appended(d) /\ UNCHANGED <<rows, now>>
    BY <1>1 DEF Receive, world
  <1>3. CASE m > n
    <2>1. series' = <<>>
      BY <1>2, <1>3, AppendedNothing
    <2>2. SeriesOK'
      BY <2>1 DEF SeriesOK
    <2>3. GapsShown'
      BY <2>1 DEF GapsShown
    <2>4. conn[c].data = {}
      BY <1>1, <1>3, TypeInt
    <2> QED BY <2>2, <2>3, <2>4
  <1>4. CASE m <= n
    <2>1. Drawn(d, series', size)
      BY <1>2, <1>4, AppendedDrawn DEF ShownInv
    <2>2. DotsFrom(d, m) /\ Len(d) = size
      BY <1>4, RunDots
    <2> HIDE DEF d
    <2>3. SeriesOK'
      <3>1. size \in 1..Len(d)
        BY <1>4, <2>2, TypeInt
      <3>2. d[size].row # 0
        BY <2>2, <3>1, DotAt
      <3> HIDE DEF size
      <3> QED BY <1>2, <2>1, <3>2 DEF SeriesOK, Drawn
    <2>4. GapsShown'
      <3>1. \A k \in 2..Len(series') - 1 : GapAt(series', k)
        BY <2>1 DEF Drawn
      <3> QED BY <1>2, <3>1 DEF GapsShown, GapAt
    <2>5. ASSUME NEW i \in conn[c].data, rows[i] > now - timespan PROVE i \in OnScreen'
      <3> DEFINE k == i - m + 1
      <3>1. k \in 1..size /\ m + k - 1 = i /\ i # 0
        BY <1>1, TypeInt
      <3> HIDE DEF k, size
      <3>2. d[k].row = i
        BY <2>2, <3>1 DEF DotsFrom
      <3>3. PICK j \in 1..Len(series') : series'[j] = d[k]
        BY <2>1, <2>5, <3>1, <3>2 DEF Drawn
      <3>4. j \in DOMAIN series'
        BY <2>1, <3>3 DEF Drawn
      <3> QED BY <3>1, <3>2, <3>3, <3>4 DEF OnScreen
    <2> QED BY <2>3, <2>4, <2>5
  <1> QED BY <1>3, <1>4, TypeInt

LEMMA ReceiveShown == ASSUME TypeOK, ShownInv, NEW c \in 1..Connections, Receive(c) PROVE ShownInv'
  <1>1. /\ Answered(c) /\ conn' = [conn EXCEPT ![c] = Idle] /\ UNCHANGED <<plugin, serverTime, now, rows>>
        /\ index' \in {index, conn[c].index}
    BY ServerTimeStays DEF Receive, world
  <1>2. Idle.at # "client"
    BY DEF Idle
  <1>3. plugin = "postgres" => index' = 0
    BY <1>1 DEF ShownInv, WholeTable, Answered, Idle
  <1>4. RunsCome' /\ WholeTable'
    BY <1>1, <1>2, <1>3, ConnShown DEF ShownInv
  <1>5. InOrder'
    BY <1>1 DEF ShownInv, InOrder
  <1> QED BY <1>4, <1>5, ReceiveDrawn DEF ShownInv

\* A click sets the index back at most.
LEMMA ClickShown ==
    ASSUME TypeOK, ShownInv, Click, NEW s, SetTimespan(s) PROVE ShownInv'
  <1>1. UNCHANGED <<series, plugin, serverTime, now, rows, conn>> /\ index' \in {0, index}
    BY ServerTimeStays DEF Click, SetTimespan, world
  <1>2. RunsCome' /\ WholeTable'
    BY <1>1 DEF ShownInv, RunsCome, WholeTable, Answered
  <1> QED BY <1>1, <1>2, SeriesStays DEF ShownInv

\* A row more, or time that passes.
LEMMA WorldShown ==
    ASSUME TypeOK, ShownInv, UNCHANGED <<index, series, plugin, serverZone, conn>>,
           \/ rows' = rows /\ now' \in Int /\ now <= now'
           \/ now' = now /\ rows' = Append(rows, serverTime)
    PROVE  ShownInv'
  <1>1. /\ Len(rows) \in Nat /\ Len(rows') \in Nat /\ Len(rows) <= Len(rows')
        /\ \A i \in 1..Len(rows) : rows'[i] = rows[i] /\ rows[i] \in Int
        /\ \A i \in 1..Len(rows') : i \notin 1..Len(rows) => rows'[i] = serverTime
        /\ serverTime \in Int /\ serverTime' \in Int /\ serverTime <= serverTime'
    <2>1. rows \in Seq(Int) /\ serverTime \in Int /\ now \in Int
      BY TypeInt DEF TypeOK
    <2>2. serverTime' \in Int /\ serverTime <= serverTime'
      <3>1. now' \in Int /\ now <= now'
        BY <2>1
      <3> QED BY <3>1, ServerTime
    <2>3. CASE rows' = rows
      BY <2>1, <2>3, <2>2
    <2>4. CASE rows' = Append(rows, serverTime)
      <3> DEFINE t == serverTime
      <3>1. t \in Int /\ rows' = Append(rows, t)
        BY <2>1, <2>4
      <3> HIDE DEF t
      <3>2. /\ Len(rows') = Len(rows) + 1 /\ rows'[Len(rows) + 1] = t
            /\ \A i \in 1..Len(rows) : rows'[i] = rows[i]
        BY <2>1, <3>1
      <3>3. Len(rows) \in Nat /\ \A i \in 1..Len(rows) : rows[i] \in Int
        BY <2>1
      <3>4. \A i \in 1..Len(rows') : i \notin 1..Len(rows) => rows'[i] = serverTime
        BY <3>2, <3>3 DEF t
      <3> QED BY <2>1, <2>2, <3>2, <3>3, <3>4
    <2> QED BY <2>3, <2>4
  <1>2. InOrder'
    <2>1. \A i \in 1..Len(rows) : rows[i] <= serverTime
      BY DEF ShownInv, InOrder
    <2>2. ASSUME NEW i \in 1..Len(rows'), NEW j \in 1..Len(rows'), i <= j
          PROVE  rows'[i] <= rows'[j]
      <3>1. CASE j \in 1..Len(rows)
        <4>1. i \in 1..Len(rows)
          BY <1>1, <2>2, <3>1
        <4> QED BY <1>1, <2>2, <3>1, <4>1 DEF ShownInv, InOrder
      <3>2. CASE j \notin 1..Len(rows)
        BY <1>1, <2>1, <3>2
      <3> QED BY <3>1, <3>2
    <2>3. ASSUME NEW i \in 1..Len(rows') PROVE rows'[i] <= serverTime'
      <3>1. rows'[i] <= serverTime /\ rows'[i] \in Int
        BY <1>1, <2>1
      <3> QED BY <1>1, <3>1
    <2> QED BY <2>2, <2>3 DEF InOrder
  <1>3. RunsCome'
    <2>1. \A n \in 0..Len(rows) : n \in 0..Len(rows')
      BY <1>1
    <2> QED BY <2>1 DEF ShownInv, RunsCome, Answered
  <1>4. SeriesOK'
    <2>1. \A n \in 0..Len(rows) : n \in 0..Len(rows')
      BY <1>1
    <2> QED BY <2>1 DEF ShownInv, SeriesOK
  <1>5. GapsShown'
    <2>1. SUFFICES ASSUME NEW k \in 2..Len(series) - 1 PROVE GapAt(series, k)'
      BY GapsAt DEF GapsShown, GapAt
    <2>2. GapAt(series, k)
      BY <2>1, GapsAt DEF ShownInv
    <2>3. /\ Len(series) \in Nat /\ \A i \in 1..Len(series) : series[i].row \in 0..Len(rows)
          /\ Len(series) > 0 => series[Len(series)].row # 0
      BY DEF ShownInv, SeriesOK
    <2>4. \A i \in 1..Len(series) : series[i].row # 0 => rows'[series[i].row] = rows[series[i].row]
      BY <1>1, <2>3
    <2>5. k \in 1..Len(series) /\ k + 1 \in 1..Len(series) /\ k - 1 \in 1..Len(series)
      BY <2>3
    <2>6. series[k+1].row = 0 => k + 2 \in 1..Len(series)
      BY <2>3, <2>5
    <2>7. /\ series[k].row # 0 => rows'[series[k].row] = rows[series[k].row]
          /\ series[k+1].row # 0 => rows'[series[k+1].row] = rows[series[k+1].row]
          /\ series[k-1].row # 0 => rows'[series[k-1].row] = rows[series[k-1].row]
          /\ series[k+1].row = 0 /\ series[k+2].row # 0 =>
                rows'[series[k+2].row] = rows[series[k+2].row]
      BY <2>4, <2>5, <2>6
    <2>8. series[k-1].row # 0 /\ series[k+2].row = series[k-1].row + 1 => series[k+2].row # 0
      BY <2>3, <2>5
    <2> QED BY <2>2, <2>7, <2>8 DEF GapAt
  <1>6. WholeTable'
    <2> SUFFICES ASSUME plugin = "postgres", NEW c \in 1..Connections, conn[c] # Idle
                 PROVE  /\ conn[c].index = 0
                        /\ Answered(c) => \A n \in conn[c].data : \A i \in 1..n :
                             i \in conn[c].data \/ rows'[i] <= serverTime' - conn[c].timespan
      BY DEF ShownInv, WholeTable, Answered
    <2>1. ASSUME Answered(c), NEW n \in conn[c].data, NEW i \in 1..n, i \notin conn[c].data
          PROVE  rows'[i] <= serverTime' - conn[c].timespan
      <3>1. rows[i] <= serverTime - conn[c].timespan
        BY <2>1 DEF ShownInv, WholeTable
      <3>2. n \in 1..Len(rows)
        BY <1>1, <2>1 DEF ShownInv, RunsCome
      <3>3. i \in 1..Len(rows)
        BY <1>1, <3>2
      <3>4. conn[c].timespan \in Int
        BY <2>1 DEF TypeOK, Answered, Idle
      <3> QED BY <1>1, <3>1, <3>3, <3>4
    <2> QED BY <2>1 DEF ShownInv, WholeTable
  <1> QED BY <1>2, <1>3, <1>4, <1>5, <1>6 DEF ShownInv

\* Every step keeps the invariant.
LEMMA NextShown == TypeOK /\ ShownInv /\ [Next]_vars => ShownInv'
  <1> SUFFICES ASSUME TypeOK, ShownInv, [Next]_vars PROVE ShownInv' OBVIOUS
  <1>1. CASE Update BY <1>1, UpdateShown
  <1>2. CASE Increase BY <1>2, ClickShown DEF Increase
  <1>3. CASE Decrease BY <1>3, ClickShown DEF Decrease
  <1>4. CASE Insert
    BY <1>4, WorldShown DEF Insert, graph, setting
  <1>5. CASE Tick
    <2>1. now' \in Int /\ now <= now'
      BY <1>5, TypeInt DEF Tick
    <2> QED BY <1>5, <2>1, WorldShown DEF Tick, graph, setting
  <1>6. ASSUME NEW c \in 1..Connections, Network(c) \/ ServeError(c) \/ Fail(c)
        PROVE  ShownInv'
    BY <1>6, ServeShown, ReceiveShown, ServeErrorShown, FailShown DEF Network
  <1>7. CASE UNCHANGED vars
    BY <1>7, TypeInt, WorldShown DEF vars, graph, world
  <1> QED BY <1>1, <1>2, <1>3, <1>4, <1>5, <1>6, <1>7 DEF Next

-----------------------------------------------------------------------------
(* Theorems.                                                                 *)

\* graph.js:91-107: for every time span, time zone and gap, and for any number of rows,
\* clicks, errors and answers in any order, rows drawn connected are neighbours no
\* further apart than Gap, and rows drawn apart are neighbours that are.
THEOREM GapsCorrect == Spec => []GapsShown
  <1>1. ShownInv => GapsShown
    BY DEF ShownInv
  <1> QED BY <1>1, InitShown, NextShown, TypeCorrect, PTL DEF Spec

\* postgres2json.c:158, graph.js:86: with PostgreSQL, whatever was clicked while the answer
\* was under way and whatever the two time zones, the graph then shows every row up to its
\* newest that the whole seconds asked for and, moved by the server's zone, its time span
\* reach.
THEOREM PostgresCorrect == Spec => PostgresShowsAll
  <1>1. ASSUME TypeOK, ShownInv, plugin = "postgres", NEW c \in 1..Connections, Receive(c),
               NEW i \in 1..Max({0} \cup conn[c].data),
               Age(i) < Min({conn[c].timespan, timespan - serverZone})
        PROVE  i \in OnScreen'
    <2> DEFINE ids == conn[c].data
    <2>1. Answered(c) /\ ids \in SUBSET (1..MaxRows) /\ conn[c].timespan \in Int /\ conn[c] # Idle
      BY <1>1 DEF Receive, TypeOK, Answered, Idle
    <2>2. ids # {}
      <3>1. SUFFICES ASSUME ids = {} PROVE FALSE
        OBVIOUS
      <3>2. Max({0} \cup ids) = 0
        BY <3>1, MaxZero
      <3> QED BY <3>2
    <2>3. PICK n \in ids : i \in 1..n
      BY <2>1, <2>2, NewestId
    <2>4. n \in 1..Len(rows)
      BY <1>1, <2>1, <2>3, TypeInt DEF ShownInv, RunsCome
    <2>5. i \in 1..Len(rows)
      BY <2>3, <2>4, TypeInt
    <2>6. /\ rows[i] \in Int /\ now \in Int /\ timespan \in Int /\ serverZone \in Int
          /\ serverTime = now - serverZone
      BY <1>1, <2>5, TypeInt DEF serverTime, Stored
    <2>7. rows[i] > now - timespan /\ rows[i] > serverTime - conn[c].timespan
      <3> DEFINE least == Min({conn[c].timespan, timespan - serverZone})
      <3>1. timespan - serverZone \in Int
        BY <2>6
      <3>2. least \in Int /\ least <= conn[c].timespan /\ least <= timespan - serverZone
        BY <2>1, <3>1, MinPair
      <3>3. now - (rows[i] + serverZone) < least
        BY <1>1 DEF Age
      <3> HIDE DEF least
      <3> QED BY <2>6, <2>1, <3>2, <3>3
    <2>8. i \in ids
      <3>1. i \in ids \/ rows[i] <= serverTime - conn[c].timespan
        BY <1>1, <2>1, <2>3 DEF ShownInv, WholeTable
      <3>2. rows[i] \in Int /\ serverTime \in Int
        BY <1>1, <2>5, TypeInt
      <3> QED BY ONLY <2>1, <2>7, <3>1, <3>2, Orders
    <2> QED BY <1>1, <2>7, <2>8, ReceiveDrawn
  <1>2. TypeOK /\ ShownInv /\ [Next]_vars =>
          [plugin = "postgres" => \A c \in 1..Connections : Receive(c) =>
             \A i \in 1..Max({0} \cup conn[c].data) :
                Age(i) < Min({conn[c].timespan, timespan - serverZone}) => i \in OnScreen']_vars
    BY <1>1
  <1> QED BY <1>2, InitShown, NextShown, TypeCorrect, PTL DEF Spec, PostgresShowsAll
=============================================================================
