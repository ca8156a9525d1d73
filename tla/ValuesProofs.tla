---------------------------- MODULE ValuesProofs ----------------------------
(* Proofs about Values. *)
EXTENDS Values, TLAPS

USE ValuesAssumption DEF NaN, setting

Inv == TypeOK /\ RowsExist /\ UnitFits /\ MarkerGenuine

\* The first state: nothing is shown yet, the marker is at its start.
LEMMA InitInv == Init => Inv
  <1> SUFFICES ASSUME Init PROVE Inv OBVIOUS
  <1>1. TypeOK
    <2>1. rows \in Seq(Rows) /\ Len(rows) <= MaxRows
      <3>1. PICK n \in 0..Filled : rows \in [1..n -> Rows]
        BY DEF Init
      <3> QED BY <3>1
    <2>2. /\ mapPage \in Pages /\ plugin \in Plugins /\ table \in Tables
          /\ elements \subseteq Names /\ timer \in BOOLEAN
      BY DEF Init
    <2>3. /\ shown \in [Names -> 0..MaxRows] /\ column \in Columns
          /\ unit \in {"l/km", "l/h"} /\ fix \in {"-", "no", "2D", "3D"}
          /\ lastLocation \in Nat \X Nat /\ marker \in Nat \X Nat
      BY DEF Init, MapInit, Nowhere, Frankfurt, Names, Columns
    <2>4. /\ errors \in 0..MaxErrors
          /\ conn \in [1..Requests ->
                   {Idle, Request} \cup [at : {"client"}, row : 0..MaxRows]]
      BY DEF Init
    <2> QED BY <2>1, <2>2, <2>3, <2>4 DEF TypeOK
  <1>2. RowsExist
    <2>1. Len(rows) \in Nat
      BY <1>1 DEF TypeOK
    <2> QED BY <2>1 DEF Init, RowsExist, Idle
  <1>3. UnitFits
    BY DEF Init, UnitFits, Names
  <1>4. MarkerGenuine
    BY DEF Init, MarkerGenuine, MapInit
  <1> QED BY <1>1, <1>2, <1>3, <1>4 DEF Inv

\* SetLocation moves the map and the marker to a location, or leaves them.
LEMMA Moves ==
    ASSUME NEW lat \in Nat \cup {NaN}, NEW lng \in Nat \cup {NaN}, SetLocation(lat, lng)
    PROVE  \/ UNCHANGED mapVars
           \/ /\ lat # NaN /\ lng # NaN /\ <<lat, lng>> # Nowhere
              /\ lastLocation' = <<lat, lng>> /\ marker' = <<lat, lng>>
  BY DEF SetLocation, IsLocation

\* What an element shows of a row that exists is of a row that exists.
LEMMA NumberRange ==
    ASSUME TypeOK, RowsExist, NEW e \in Names, NEW k \in 0..MaxRows, k <= Len(rows)
    PROVE  Number(e, k) \in 0..MaxRows /\ Number(e, k) <= Len(rows)
  BY DEF TypeOK, RowsExist, Number, Names

\* The update of the elements keeps the invariant.
LEMMA UpdateElementsInv ==
    ASSUME Inv, NEW k \in 0..MaxRows, k <= Len(rows), UpdateElements(k),
           UNCHANGED <<setting, elements, timer, rows, errors>>,
           conn' \in [1..Requests ->
                   {Idle, Request} \cup [at : {"client"}, row : 0..MaxRows]],
           \A c \in 1..Requests : conn'[c].at = "client" => conn'[c].row <= Len(rows)
    PROVE  Inv'
  <1> USE DEF Inv
  <1>1. rows \in Seq(RowType) /\ Len(rows) \in Nat
        /\ \A j \in 1..Len(rows) : rows[j] \in RowType
    BY DEF TypeOK
  <1>2. k # 0 => k \in 1..Len(rows) /\ rows[k] \in RowType
    BY <1>1
  <1>3. \/ UNCHANGED mapVars
        \/ /\ k # 0 /\ Near(rows[k])
           /\ rows[k].lat # NaN /\ rows[k].lng # NaN /\ Location(k) # Nowhere
           /\ lastLocation' = Location(k) /\ marker' = Location(k)
    <2>1. Locate(k) \/ UNCHANGED mapVars
      BY DEF UpdateElements, mapVars
    <2>2. CASE k # 0 /\ SetLocation(rows[k].lat, rows[k].lng) /\ Near(rows[k])
      <3>1. rows[k].lat \in Nat \cup {NaN} /\ rows[k].lng \in Nat \cup {NaN}
        BY <2>2, <1>2 DEF RowType
      <3> QED BY <3>1, <2>2, Moves DEF Location
    <2> QED BY <2>1, <2>2 DEF Locate
  <1>4. column' \in Columns /\ unit' \in {"l/km", "l/h"}
    BY DEF TypeOK, UpdateElements, SetConsumption, Columns
  <1>5. fix' \in {"-", "no", "2D", "3D"}
    BY DEF TypeOK, UpdateElements, Status
  <1>6. shown' \in [Names -> 0..MaxRows] /\ \A e \in Names : shown'[e] <= Len(rows)
    BY NumberRange DEF TypeOK, RowsExist, UpdateElements
  <1>7. TypeOK'
    <2>1. lastLocation' \in Nat \X Nat /\ marker' \in Nat \X Nat
      <3>1. CASE UNCHANGED mapVars
        BY <3>1 DEF TypeOK, mapVars
      <3>2. CASE k # 0 /\ rows[k].lat # NaN /\ rows[k].lng # NaN
                 /\ lastLocation' = Location(k) /\ marker' = Location(k)
        BY <3>2, <1>2 DEF Location, RowType
      <3> QED BY <3>1, <3>2, <1>3
    <2> QED BY <2>1, <1>4, <1>5, <1>6 DEF TypeOK
  <1>8. RowsExist'
    BY <1>6 DEF RowsExist
  <1>9. UnitFits'
    <2> DEFINE e == "consumption_per_100km"
    <2>1. CASE e \in elements
      <3>1. SetConsumption(k) /\ shown'[e] = Number(e, k)
        BY <2>1 DEF UpdateElements, Names
      <3> QED BY <3>1 DEF UnitFits, SetConsumption, Number, IsNumber, TypeOK, Columns
    <2>2. CASE e \notin elements
      BY <2>2 DEF UpdateElements, UnitFits, IsNumber, Names
    <2> QED BY <2>1, <2>2
  <1>10. MarkerGenuine'
    <2>1. CASE UNCHANGED mapVars
      BY <2>1 DEF MarkerGenuine, mapVars, Location
    <2>2. CASE /\ k # 0 /\ Near(rows[k])
               /\ rows[k].lat # NaN /\ rows[k].lng # NaN /\ Location(k) # Nowhere
               /\ lastLocation' = Location(k) /\ marker' = Location(k)
      BY <2>2, <1>2 DEF MarkerGenuine, Location, Near
    <2> QED BY <2>1, <2>2, <1>3
  <1> QED BY <1>7, <1>8, <1>9, <1>10

\* A row more in the table: the others stay what they are.
LEMMA InsertInv == ASSUME Inv, Insert PROVE Inv'
  <1> USE DEF Inv
  <1>1. PICK r \in Rows : rows' = Append(rows, r)
    BY DEF Insert
  <1>2. Len(rows') = Len(rows) + 1 /\ \A k \in 1..Len(rows) : rows'[k] = rows[k]
    BY <1>1 DEF TypeOK
  <1>3. TypeOK'
    BY <1>1, <1>2 DEF Insert, TypeOK, page, mapVars
  <1>4. RowsExist'
    <2>1. \A c \in 1..Requests : conn[c].at = "client" => conn[c].row \in 0..MaxRows
      BY DEF TypeOK, Idle, Request
    <2>2. \A e \in Names : shown[e] \in 0..MaxRows
      BY DEF TypeOK
    <2>3. UNCHANGED <<shown, conn>> /\ Len(rows) \in Nat
      BY DEF Insert, page, TypeOK
    <2> QED BY <1>2, <2>1, <2>2, <2>3 DEF RowsExist
  <1>5. UnitFits'
    <2>1. shown["consumption_per_100km"] \in 0..Len(rows)
      BY DEF TypeOK, RowsExist, Names
    <2> QED BY <1>2, <2>1 DEF Insert, UnitFits, IsNumber, page
  <1>6. MarkerGenuine'
    <2>1. UNCHANGED <<lastLocation, marker>>
      BY DEF Insert, page, mapVars
    <2>2. \A k \in 1..Len(rows) : k \in 1..Len(rows') /\ rows'[k] = rows[k]
      <3>1. Len(rows) \in Nat
        BY DEF TypeOK
      <3> QED BY ONLY <1>2, <3>1
    <2> QED BY <2>1, <2>2 DEF MarkerGenuine, Location
  <1> QED BY <1>3, <1>4, <1>5, <1>6

\* The steps that leave the page and the table alone.
LEMMA QuietInv ==
    ASSUME Inv, UNCHANGED <<setting, page, rows>>, timer' \in BOOLEAN,
           elements' \subseteq Names, errors' \in 0..MaxErrors,
           conn' \in [1..Requests ->
                   {Idle, Request} \cup [at : {"client"}, row : 0..MaxRows]],
           \A c \in 1..Requests : conn'[c].at = "client" => conn'[c].row <= Len(rows)
    PROVE  Inv'
  <1> USE DEF Inv
  <1>1. TypeOK' BY DEF TypeOK, page, mapVars
  <1>2. RowsExist' BY DEF RowsExist, page
  <1>3. UnitFits' BY DEF UnitFits, IsNumber, page
  <1>4. MarkerGenuine' BY DEF MarkerGenuine, Location, page, mapVars
  <1> QED BY <1>1, <1>2, <1>3, <1>4

\* Every step keeps the invariant.
LEMMA NextInv == Inv /\ [Next]_vars => Inv'
  <1> SUFFICES ASSUME Inv, [Next]_vars PROVE Inv' OBVIOUS
  <1> USE DEF Inv
  <1> DEFINE Conns == [1..Requests ->
                   {Idle, Request} \cup [at : {"client"}, row : 0..MaxRows]]
             Known == \A c \in 1..Requests :
                        conn'[c].at = "client" => conn'[c].row <= Len(rows)
  <1>1. CASE Update
    <2>1. \/ UNCHANGED conn
          \/ \E c \in 1..Requests : conn' = [conn EXCEPT ![c] = Request]
      BY <1>1 DEF Update
    <2>2. conn \in Conns
      BY DEF TypeOK
    <2>3. conn' \in Conns
      BY <2>1, <2>2
    <2>4. Known
      BY <2>1, <2>2 DEF RowsExist, Request
    <2> QED BY <1>1, <2>3, <2>4, QuietInv DEF Update, TypeOK
  <1>2. CASE Insert
    BY <1>2, InsertInv
  <1>3. ASSUME NEW e \in Names, Create(e) PROVE Inv'
    <2>1. UNCHANGED <<setting, page, timer, rows, conn, errors>>
      BY <1>3 DEF Create
    <2>2. elements' \subseteq Names
      BY <1>3 DEF Create, TypeOK
    <2>3. conn' \in Conns /\ Known
      BY <2>1 DEF TypeOK, RowsExist
    <2> QED BY <2>1, <2>2, <2>3, QuietInv DEF TypeOK
  <1>4. ASSUME NEW c \in 1..Requests, Serve(c) PROVE Inv'
    <2>1. conn' \in Conns /\ Known
      BY <1>4 DEF Serve, TypeOK, RowsExist, Answer
    <2> QED BY <1>4, <2>1, QuietInv DEF Serve, TypeOK
  <1>5. ASSUME NEW c \in 1..Requests, Receive(c) PROVE Inv'
    <2>1. conn' \in Conns /\ Known
      BY <1>5 DEF Receive, TypeOK, RowsExist, Idle
    <2>2. conn[c].row \in 0..MaxRows /\ conn[c].row <= Len(rows)
      <3>1. conn[c].at = "client"
        BY <1>5 DEF Receive
      <3>2. conn[c] \in {Idle, Request} \cup [at : {"client"}, row : 0..MaxRows]
        BY DEF TypeOK
      <3>3. conn[c].row \in 0..MaxRows
        BY ONLY <3>1, <3>2 DEF Idle, Request
      <3> QED BY <3>1, <3>3 DEF RowsExist
    <2> QED BY <1>5, <2>1, <2>2, UpdateElementsInv DEF Receive
  <1>6. ASSUME NEW c \in 1..Requests, Fail(c) PROVE Inv'
    <2>1. conn' \in Conns /\ Known
      BY <1>6 DEF Fail, TypeOK, RowsExist, Idle
    <2>2. errors' \in 0..MaxErrors
      BY <1>6 DEF Fail, TypeOK
    <2> QED BY <1>6, <2>1, <2>2, QuietInv DEF Fail, TypeOK
  <1>7. ASSUME NEW c \in 1..Requests, ServeNull(c) PROVE Inv'
    <2>1. conn' \in Conns /\ Known
      BY <1>7 DEF ServeNull, TypeOK, RowsExist, Idle
    <2> QED BY <1>7, <2>1, QuietInv DEF ServeNull, TypeOK
  <1>8. CASE UNCHANGED vars
    BY <1>8, QuietInv DEF vars, TypeOK, RowsExist
  <1> QED BY <1>1, <1>2, <1>3, <1>4, <1>5, <1>6, <1>7, <1>8 DEF Next, Network

\* The inductive invariant holds in every behaviour.
THEOREM Invariance == Spec => []Inv
  BY InitInv, NextInv, PTL DEF Spec

\* Every variable of the page, the table and the network keeps its type.
THEOREM TypeCorrect == Spec => []TypeOK
  BY Invariance, PTL DEF Inv

\* value.js:42: a consumption per hour is never given as one per 100 km, and a
\* number that is shown is in the row it is said to be from.
THEOREM UnitAlwaysFits == Spec => []UnitFits
  BY Invariance, PTL DEF Inv

\* map.js:12-34: the marker is at its start or at a location that one row gives,
\* known and precise in both coordinates.
THEOREM MarkerAlwaysGenuine == Spec => []MarkerGenuine
  BY Invariance, PTL DEF Inv
=============================================================================
