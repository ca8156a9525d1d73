------------------------------- MODULE Values -------------------------------
(***************************************************************************)
(* The values of the web client (html/js/value.js): a Values object polls     *)
(* the server for the latest row of the table and hands it to its elements,  *)
(* from the last to the first; on the map's page the element gps_mode moves  *)
(* the marker, too (Map).  The next poll is set up when a request is sent,    *)
(* so that answers overtake each other or are lost.                          *)
(*                                                                         *)
(* The server's side is json_get_data of either query plugin, on a table     *)
(* whose shape it may not fit (Table): on the one that init_db creates it     *)
(* never has an answer.                                                     *)
(*                                                                         *)
(* Data abstraction: a number on the page is the row it comes from, 0 for    *)
(* the "-" it starts with; of a row it is said which columns hold a number   *)
(* (the others come as the string "null").  The timeout is not counted: an   *)
(* armed timer may fire at any moment.  `speed` stands for all elements      *)
(* without a rule of their own.                                             *)
(***************************************************************************)
EXTENDS Map, Table, Sequences, FiniteSets

CONSTANTS
    Plugins,        \* the plugins to look at: "sqlite", "postgres"
    Tables,         \* the shapes of the table to look at (Table)
    Filled,         \* bound on the rows of the table to begin with
    Rows,           \* the rows to look at
    Pages,          \* with a map (TRUE), without one (FALSE)
    Requests,       \* bound on the requests under way at a time
    MaxRows,        \* bound on the table
    MaxErrors       \* bound on the requests that fail

Names == {"consumption_per_100km", "speed", "gps_mode"}

\* A row of a table with the columns; one of another table is never looked at.
RowType == [numbers : SUBSET {"consumption_per_100km", "consumption_per_h", "speed"},
            mode : 0..3,                        \* 0 stands for "null", too
            lat : Nat \cup {NaN}, lng : Nat \cup {NaN},
            near_lat : BOOLEAN, near_lng : BOOLEAN]   \* gps_err_... < 50

ASSUME ValuesAssumption ==
    /\ Plugins \subseteq {"sqlite", "postgres"} /\ Tables \subseteq Shapes
    /\ Rows \subseteq RowType /\ Pages \subseteq BOOLEAN
    /\ Filled \in Nat /\ Filled <= MaxRows
    /\ Requests \in Nat /\ MaxRows \in Nat /\ MaxErrors \in Nat

VARIABLES
    \* the page
    mapPage,
    elements,       \* the names of the elements, in the order of creation
    shown,          \* the row whose number each element shows
    column,         \* the column the consumption is from
    unit,           \* its unit
    fix,            \* what gps_mode shows
    timer,          \* a call of update is set up
    \* the world around it
    plugin, table,  \* the plugins in use; the shape of the table
    rows,           \* the table
    conn,           \* per request under way: where it is, and its answer
    errors          \* so far

page == <<shown, column, unit, fix, mapVars>>
setting == <<mapPage, plugin, table>>
vars == <<setting, elements, page, timer, rows, conn, errors>>

-----------------------------------------------------------------------------
(* A Value: what update and set make of the row k, or of 0, the empty object  *)
(* that comes of an empty table, and of PostgreSQL's failure.                *)

IsNumber(k, c) == k # 0 /\ c \in rows[k].numbers

Status(mode) == CASE mode = 2 -> "2D" [] mode = 3 -> "3D" [] OTHER -> "no"

\* consumption_per_100km is NaN when the car stands.  When consumption_per_h is
\* not a number either, the unit changes and the number stays.
SetConsumption_NoUnit(k) ==
    /\ UNCHANGED unit
    /\ column' = CASE IsNumber(k, "consumption_per_100km") -> "consumption_per_100km"
                   [] IsNumber(k, "consumption_per_h") -> "consumption_per_h"
                   [] OTHER -> column
SetConsumption_Sticky(k) ==
    /\ column' = CASE IsNumber(k, "consumption_per_100km") -> "consumption_per_100km"
                   [] IsNumber(k, "consumption_per_h") -> "consumption_per_h"
                   [] OTHER -> column
    /\ unit' = IF k = 0 \/ IsNumber(k, "consumption_per_100km") THEN unit ELSE "l/h"
SetConsumption(k) ==
    LET c == IF IsNumber(k, "consumption_per_100km")
             THEN "consumption_per_100km" ELSE "consumption_per_h"
    IN  /\ column' = IF IsNumber(k, c) THEN c ELSE column
        /\ unit' = CASE k = 0 -> unit
                     [] c = "consumption_per_h" -> "l/h"
                     [] OTHER -> "l/km"

\* The number an element shows afterwards.
Number(e, k) ==
    CASE e = "gps_mode" -> 0
      [] e = "speed" -> IF IsNumber(k, e) THEN k ELSE shown[e]
      [] e = "consumption_per_100km" ->
            IF IsNumber(k, e) \/ IsNumber(k, "consumption_per_h") THEN k ELSE shown[e]

Near_Latitude(r) == r.near_lat
Near(r) == r.near_lat /\ r.near_lng

Locate(k) ==
    IF mapPage /\ k # 0 /\ Near(rows[k])
    THEN SetLocation(rows[k].lat, rows[k].lng)
    ELSE UNCHANGED mapVars

\* The elements do not touch each other: all are updated in one step.
UpdateElements(k) ==
    /\ shown' = [e \in Names |-> IF e \in elements THEN Number(e, k) ELSE shown[e]]
    /\ IF "consumption_per_100km" \in elements
       THEN SetConsumption(k) ELSE UNCHANGED <<column, unit>>
    /\ IF "gps_mode" \in elements
       THEN /\ fix' = IF k = 0 THEN fix ELSE Status(rows[k].mode)
            /\ Locate(k)
       ELSE UNCHANGED <<fix, mapVars>>

-----------------------------------------------------------------------------
(* Values.                                                                  *)

Idle == [at |-> "nowhere"]
Request == [at |-> "server"]
Answer(k) == [at |-> "client", row |-> k]

\* update: sets itself up again, elements or not, and whatever becomes of the
\* request.
Update ==
    /\ timer /\ timer' = TRUE
    /\ IF elements = {} THEN UNCHANGED conn
       ELSE \E c \in 1..Requests :
              /\ conn[c] = Idle /\ \A d \in 1..c-1 : conn[d] # Idle
              /\ conn' = [conn EXCEPT ![c] = Request]
    /\ UNCHANGED <<setting, elements, page, rows, errors>>

\* The pages create their elements at once; an object without any is foreseen.
Create(e) ==
    /\ e \notin elements /\ elements' = elements \cup {e}
    /\ UNCHANGED <<setting, page, timer, rows, conn, errors>>

\* json_get_data: the latest row.  PostgreSQL's plugin returns an object without
\* values when the query fails.
Serve(c) ==
    /\ conn[c] = Request
    /\ HasValues(table) \/ plugin = "postgres"
    /\ conn' = [conn EXCEPT ![c] = Answer(IF HasValues(table) THEN Len(rows) ELSE 0)]
    /\ UNCHANGED <<setting, elements, page, timer, rows, errors>>

\* SQLite's plugin returns NULL when the query cannot be prepared: `null` on the
\* page, and the first look at a column of it throws.  No element is updated.
ServeNull(c) ==
    /\ conn[c] = Request /\ ~ HasValues(table) /\ plugin = "sqlite"
    /\ conn' = [conn EXCEPT ![c] = Idle]
    /\ UNCHANGED <<setting, elements, page, timer, rows, errors>>

\* onDataReceived
Receive(c) ==
    /\ conn[c].at = "client"
    /\ UpdateElements(conn[c].row)
    /\ conn' = [conn EXCEPT ![c] = Idle]
    /\ UNCHANGED <<setting, elements, timer, rows, errors>>

\* No answer, or a `null` for another reason.
Fail(c) ==
    /\ conn[c] # Idle /\ errors < MaxErrors
    /\ conn' = [conn EXCEPT ![c] = Idle]
    /\ errors' = errors + 1
    /\ UNCHANGED <<setting, elements, page, timer, rows>>

\* handle_data, where the database takes the row.
Insert ==
    /\ Accepts(plugin, table) /\ Len(rows) < MaxRows
    /\ \E r \in Rows : rows' = Append(rows, r)
    /\ UNCHANGED <<setting, elements, page, timer, conn, errors>>

-----------------------------------------------------------------------------
Init ==
    /\ mapPage \in Pages /\ plugin \in Plugins /\ table \in Tables /\ MapInit
    /\ elements = {} /\ shown = [e \in Names |-> 0]
    /\ column = "consumption_per_100km" /\ unit = "l/km" /\ fix = "-"
    /\ timer = TRUE
    /\ \E n \in 0..Filled : rows \in [1..n -> Rows]
    /\ conn = [c \in 1..Requests |-> Idle] /\ errors = 0

Network(c) == Serve(c) \/ ServeNull(c) \/ Receive(c)

Next ==
    \/ Update \/ Insert
    \/ \E e \in Names : Create(e)
    \/ \E c \in 1..Requests : Network(c) \/ Fail(c)

Spec == Init /\ [][Next]_vars

\* The browser runs a handler that is due, and a request that does not fail is
\* answered.
FairSpec == Spec /\ WF_vars(Update) /\ \A c \in 1..Requests : WF_vars(Network(c))

-----------------------------------------------------------------------------
(* Properties.                                                              *)

Columns == {"consumption_per_100km", "consumption_per_h"}

\* Every variable has its type; in particular the marker has coordinates.
TypeOK ==
    /\ mapPage \in Pages /\ plugin \in Plugins /\ table \in Tables
    /\ elements \subseteq Names
    /\ shown \in [Names -> 0..MaxRows] /\ column \in Columns
    /\ unit \in {"l/km", "l/h"} /\ fix \in {"-", "no", "2D", "3D"}
    /\ lastLocation \in Nat \X Nat /\ marker \in Nat \X Nat
    /\ timer \in BOOLEAN
    /\ rows \in Seq(Rows) /\ Len(rows) <= MaxRows
    /\ conn \in [1..Requests ->
                   {Idle, Request} \cup [at : {"client"}, row : 0..MaxRows]]
    /\ errors \in 0..MaxErrors

\* value.js:42 "switch to l/h if consumption_per_100km is nan (means that speed ==
\* 0)": the page never gives a consumption per hour for one per 100 km, and every
\* number it shows is one that the row it is from does hold.  (The reverse fails:
\* see SetConsumption.)
UnitFits ==
    LET k == shown["consumption_per_100km"]
    IN  k # 0 => /\ IsNumber(k, column)
                 /\ unit = "l/km" => column = "consumption_per_100km"

Located(k) == Near(rows[k]) /\ IsLocation(rows[k].lat, rows[k].lng)
Location(k) == <<rows[k].lat, rows[k].lng>>

\* The marker stands at its start, or where the map was last moved to: a location
\* that one row gives with both errors below the limit.
MarkerGenuine ==
    IF lastLocation = Nowhere THEN marker = Frankfurt
    ELSE /\ marker = lastLocation
         /\ \E k \in 1..Len(rows) :
              /\ rows[k].near_lat /\ rows[k].near_lng
              /\ lastLocation = Location(k) /\ rows[k].lat # NaN /\ rows[k].lng # NaN

\* What an element makes of the row k is on the page.  Of the location only one
\* coordinate is sure to be: see Moved.
Fresh(e, k) ==
    CASE e = "speed" -> IsNumber(k, e) => shown[e] = k
      [] e = "consumption_per_100km" ->
            \A c \in Columns :
                IsNumber(k, c) /\ (c = e \/ ~ IsNumber(k, e)) =>
                    /\ shown[e] = k /\ column = c
                    /\ unit = IF c = e THEN "l/km" ELSE "l/h"
      [] e = "gps_mode" ->
            /\ fix = Status(rows[k].mode)
            /\ mapPage /\ Located(k) =>
                 \/ lastLocation[1] = rows[k].lat
                 \/ lastLocation[2] = rows[k].lng

\* What is shown and what is on its way are rows of the table.
RowsExist ==
    /\ \A e \in Names : shown[e] <= Len(rows)
    /\ \A c \in 1..Requests : conn[c].at = "client" => conn[c].row <= Len(rows)

\* Whatever answers were lost or came late, the page shows the latest row in the
\* end, and goes on to: no old answer stays, and the polling never stops.  Where the
\* table has not the columns, it shows no number ever.
Converges ==
    <>[](IF HasValues(table)
         THEN rows # <<>> => \A e \in elements : Fresh(e, Len(rows))
         ELSE \A e \in elements : shown[e] = 0)
=============================================================================
