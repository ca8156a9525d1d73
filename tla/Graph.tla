------------------------------- MODULE Graph -------------------------------
(***************************************************************************)
(* A graph of the web client (html/js/graph.js): it polls the server for    *)
(* the samples of the last `timespan`, from the id `index` on, and draws    *)
(* them.  The next poll is set up when a request is sent, not when it is    *)
(* answered, so that several requests may be on their way and the answers   *)
(* come in any order, or not at all.                                        *)
(*                                                                         *)
(* The server's side is json_get_graph_data of either query plugin          *)
(* (sqlite2json.c, postgres2json.c), for a column that the table has, and    *)
(* handle_data of the output plugin.  Data abstraction: a row is the time    *)
(* stored in it and has a value; a dot is its place on the time axis and the  *)
(* row it shows, 0 for y = -1.  Time zones do not change.                    *)
(***************************************************************************)
EXTENDS Integers, Sequences, FiniteSetsExt, SequencesExt, Table

CONSTANTS
    Plugins,        \* the query plugins to look at: "sqlite", "postgres"
    Tables,         \* the shapes of the table to look at (Table)
    Ages,           \* the tables to begin with: the age of each row, by id
    Timespan,       \* the time span of the page: half an hour in the code
    Second,         \* 1000 in the code
    Short,          \* 30000: below, a graph is updated once a second
    Polls,          \* 300: above, so often per time span
    Gap,            \* 20000: dots further apart are not connected
    Zones,          \* browsers' zones to look at: what getTimezoneOffset returns
    ServerZones,    \* the same of servers
    Connections,    \* bound on the requests under way at a time
    MaxTime,        \* bound on the clock; later on time passes uncounted
    MaxRows,        \* bound on the table
    MaxEvents       \* bound on the clicks and failed requests of a behaviour

ASSUME GraphAssumption ==
    /\ Plugins \subseteq {"sqlite", "postgres"}
    /\ Tables \subseteq Shapes /\ Ages \subseteq Seq(Nat)
    /\ \A a \in Ages : /\ Len(a) <= MaxRows
                       /\ \A i, j \in DOMAIN a : i <= j => a[i] >= a[j]
    /\ Timespan \in Nat \ {0} /\ Second \in Nat \ {0} /\ Gap \in Nat
    /\ Short \in Nat /\ Polls \in Nat \ {0} /\ Polls <= Short
    /\ Zones \subseteq Int /\ ServerZones \subseteq Int /\ Connections \in Nat
    /\ MaxTime \in Nat /\ MaxRows \in Nat /\ MaxEvents \in Nat

VARIABLES
    \* the graph
    index, timespan, interval, series,
    axis,           \* options.xaxis: its length
    plotted,        \* it has been drawn: the legend can be clicked
    timer,          \* the time until setTimeout calls update
    \* the world around it
    plugin, table,  \* the plugins in use; the shape of the table
    zone,           \* the time zone of the browser
    serverZone,     \* and of the server
    now,            \* UTC
    rows,           \* the table: the time stored in each row, by id
    conn,           \* per connection: the request, or its answer, on it
    events,         \* clicks and failures so far
    \* what has happened, for the properties
    seen,           \* rows that have come with an answer
    narrowest       \* the smallest time span so far, in whole seconds

graph == <<index, timespan, interval, series, axis, plotted>>
setting == <<plugin, table, zone, serverZone>>
world == <<setting, now, rows>>
history == <<seen, narrowest>>
vars == <<graph, timer, world, conn, events, history>>

-----------------------------------------------------------------------------
(* Requests.                                                                *)

\* timespan / 1000 goes out with its decimals; get_query_long reads up to the point.
Whole(s) == (s \div Second) * Second

Idle == [at |-> "nowhere"]
Request(i, s) == [at |-> "server", index |-> i, timespan |-> Whole(s)]
Asked(c) == conn[c].at = "server"
Answered(c) == conn[c].at = "client"

\* don't update more than once a second
Interval_Plain(s) == s \div Polls
Interval(s) == IF s < Short THEN Second ELSE s \div Polls

\* update: the request goes out and the timer is set at once, whatever becomes
\* of the request.
Update ==
    /\ timer = 0 /\ timer' = interval
    /\ \E c \in 1..Connections :
         /\ conn[c] = Idle /\ \A d \in 1..c-1 : conn[d] # Idle
         /\ conn' = [conn EXCEPT ![c] = Request(index, timespan)]
    /\ UNCHANGED <<graph, world, events, history>>

\* The error handler only writes a message.
OnError_Stops == timer' = -1
OnError == UNCHANGED timer

\* No answer, or the `null` that json_get_graph_data's NULL comes out as: the
\* look at json.index throws.
Fail(c) ==
    /\ conn[c] # Idle /\ events < MaxEvents
    /\ conn' = [conn EXCEPT ![c] = Idle]
    /\ events' = events + 1
    /\ OnError
    /\ UNCHANGED <<graph, world, history>>

-----------------------------------------------------------------------------
(* json_get_graph_data.                                                     *)

\* A time as it is stored: local, and with SQLite in whole seconds.
Stored(t) == (IF plugin = "sqlite" THEN Whole(t) ELSE t) - serverZone

serverTime == Stored(now)

\* WHERE id > index AND time > now - timespan, all in the server's local time
Wanted_Utc(i, r) == i > r.index /\ rows[i] > now - r.timespan
Wanted(i, r) == i > r.index /\ rows[i] > serverTime - r.timespan

Result(r) == {i \in 1..Len(rows) : Wanted(i, r)}

\* The index that comes with the rows: SQLite's plugin returns that of the last
\* row, or else the one that was asked for; PostgreSQL's always the latter.
NewIndex(r) ==
    IF plugin = "postgres" \/ Result(r) = {} THEN r.index ELSE Max(Result(r))

\* PostgreSQL's plugin returns an index only with a row.
HasIndex(ids) == plugin = "sqlite" \/ ids # {}

Answer(r, ids, i) ==
    [at |-> "client", data |-> ids, hasIndex |-> HasIndex(ids), index |-> i,
     timespan |-> r.timespan]

Serve(c) ==
    /\ Asked(c)
    /\ conn' = [conn EXCEPT ![c] = Answer(@, Result(@), NewIndex(@))]
    /\ UNCHANGED <<graph, timer, world, events, history>>

\* PQexec fails: an empty array without an index.
ServeError(c) ==
    /\ Asked(c) /\ plugin = "postgres" /\ events < MaxEvents
    /\ conn' = [conn EXCEPT ![c] = Answer(@, {}, @.index)]
    /\ events' = events + 1
    /\ UNCHANGED <<graph, timer, world, history>>

-----------------------------------------------------------------------------
(* appendData.                                                              *)

getLocalTime == now - zone

\* ORDER BY id
InIdOrder(ids) ==
    CHOOSE id \in [1..Cardinality(ids) -> ids] :
        \A j, k \in DOMAIN id : j < k => id[j] < id[k]

\* What comes is the stored local time, as if it were UTC; the loop takes it to
\* local time once more.  It leaves out the first dot.
Adjusted(ids) ==
    LET id == InIdOrder(ids)
    IN  [k \in 1..Len(id) |->
            [t |-> IF k = 1 THEN rows[id[k]] ELSE rows[id[k]] - zone,
             row |-> id[k]]]

Outdated_Utc(dot) == dot.t <= now - timespan
Outdated(dot) == dot.t <= getLocalTime - timespan

Far_OrAsFar(a, b) == b.t >= a.t + Gap
Far(a, b) == b.t > a.t + Gap

NoValue(dot) == [dot EXCEPT !.row = 0]

\* What the loop from the last dot down to the second leaves of the dots d: it
\* ends at the first that is outdated, which stays, and puts two dots without a
\* value where the time between two dots is more than Gap.
Appended(d) ==
    LET upto[k \in 0..Len(d)] ==
            IF k <= 1 THEN SubSeq(d, 1, k)
            ELSE IF Outdated(d[k]) THEN <<d[k]>>
            ELSE IF Far(d[k-1], d[k])
              THEN upto[k-1] \o <<NoValue(d[k-1]), NoValue(d[k]), d[k]>>
            ELSE Append(upto[k-1], d[k])
    IN  upto[Len(d)]

\* xaxis.min = now - timespan, xaxis.max = now - 1000
UpdateOptions_IfData(ids) == axis' = IF ids = {} THEN axis ELSE timespan - Second
UpdateOptions(ids) == axis' = timespan - Second

\* onDataReceived, appendData
Receive(c) ==
    /\ Answered(c)
    /\ index' = IF conn[c].hasIndex THEN conn[c].index ELSE index
    /\ series' = Appended(Adjusted(conn[c].data))
    /\ UpdateOptions(conn[c].data)
    /\ plotted' = TRUE
    /\ conn' = [conn EXCEPT ![c] = Idle]
    /\ seen' = seen \cup conn[c].data
    /\ UNCHANGED <<timespan, interval, timer, world, events, narrowest>>

-----------------------------------------------------------------------------
(* setTimespan, called from the handlers of a click.  The running timer is   *)
(* left alone.                                                              *)

SetTimespan(s) ==
    /\ index' = IF timespan < s THEN 0 ELSE index
    /\ timespan' = s
    /\ interval' = Interval(s)
    /\ narrowest' = Min({narrowest, Whole(s)})

Click ==
    /\ plotted /\ events < MaxEvents /\ events' = events + 1
    /\ UNCHANGED <<series, axis, plotted, timer, world, conn, seen>>

Increase == Click /\ SetTimespan(timespan * 2)

\* Time spans stay whole numbers here.
Decrease == Click /\ timespan % 2 = 0 /\ SetTimespan(timespan \div 2)

-----------------------------------------------------------------------------
(* The world.                                                               *)

\* handle_data, where the database takes the row.  Where it does not, it only
\* writes a message.
Insert ==
    /\ Accepts(plugin, table) /\ Len(rows) < MaxRows
    /\ rows' = Append(rows, serverTime)
    /\ UNCHANGED <<graph, timer, setting, now, conn, events, history>>

Tick ==
    /\ now' = IF now < MaxTime THEN now + 1 ELSE now
    /\ timer' = IF timer > 0 THEN timer - 1 ELSE timer
    /\ UNCHANGED <<graph, setting, rows, conn, events, history>>

Init ==
    /\ index = 0 /\ timespan = Timespan /\ interval = Interval(Timespan)
    /\ series = <<>> /\ axis = 0 /\ plotted = FALSE
    /\ timer = 0
    /\ plugin \in Plugins /\ table \in Tables
    /\ zone \in Zones /\ serverZone \in ServerZones
    /\ now = 0 /\ \E a \in Ages : rows = [i \in 1..Len(a) |-> Stored(0 - a[i])]
    /\ conn = [c \in 1..Connections |-> Idle]
    /\ events = 0
    /\ seen = {} /\ narrowest = Whole(Timespan)

Network(c) == Serve(c) \/ Receive(c)

Next ==
    \/ Update \/ Increase \/ Decrease \/ Insert \/ Tick
    \/ \E c \in 1..Connections : Network(c) \/ ServeError(c) \/ Fail(c)

Spec == Init /\ [][Next]_vars

\* Time passes, the browser runs the handlers that are due, and a request that
\* does not fail is answered.
FairSpec == /\ Spec /\ WF_vars(Tick) /\ WF_vars(Update)
            /\ \A c \in 1..Connections : WF_vars(Network(c))

-----------------------------------------------------------------------------
(* Properties.                                                              *)

\* Every variable has its type; in particular the interval between two polls is
\* never zero.  (The series is GapsShown's.)
TypeOK ==
    /\ index \in 0..MaxRows /\ timespan \in Nat \ {0} /\ interval \in Nat \ {0}
    /\ axis \in Int /\ plotted \in BOOLEAN /\ timer \in Int
    /\ plugin \in Plugins /\ table \in Tables
    /\ zone \in Zones /\ serverZone \in ServerZones /\ now \in 0..MaxTime
    /\ rows \in Seq(Int) /\ Len(rows) <= MaxRows
    /\ conn \in [1..Connections ->
            {Idle}
            \cup [at : {"server"}, index : 0..MaxRows, timespan : Nat]
            \cup [at : {"client"}, data : SUBSET (1..MaxRows), hasIndex : BOOLEAN,
                  index : 0..MaxRows, timespan : Nat]]
    /\ events \in 0..MaxEvents
    /\ seen \subseteq 1..MaxRows /\ narrowest \in Nat

\* However the answers overtake each other, the index never passes a row that
\* has not come with one of them, unless the row is older than the narrowest time
\* span the graph ever had.  Such a row may be lost, although graph.js:32 resets
\* the index "so we will fetch older data as well": an answer that was under way at
\* the click sets it again.
NothingSkipped ==
    /\ index <= Len(rows)
    /\ \A i \in 1..index : i \in seen \/ rows[i] <= serverTime - narrowest

\* The rows that are on the screen.
OnScreen == {series[k].row : k \in DOMAIN series} \ {0}

\* How long ago a row was stored.
Age(i) == now - (rows[i] + serverZone)

\* graph.js:60 "(last " + timespan / 60000 + "min)": after an answer the graph shows
\* all rows of the time span up to the newest that came.
WholeTimespanShown ==
    [][\A c \in 1..Connections : Receive(c) =>
         \A i \in 1..Max({conn[c].index} \cup conn[c].data) :
            Age(i) < Min({timespan, conn[c].timespan}) => i \in OnScreen']_vars

\* With PostgreSQL, whose index stays 0, it shows all rows of the whole seconds that
\* were asked for, whatever was clicked meanwhile, as far as appendData does not take
\* them for outdated.  It does so too early where the server is west of UTC, by as
\* much as its zone.
PostgresShowsAll ==
    [][plugin = "postgres" => \A c \in 1..Connections : Receive(c) =>
         \A i \in 1..Max({0} \cup conn[c].data) :
            Age(i) < Min({conn[c].timespan, timespan - serverZone}) => i \in OnScreen']_vars

\* Rows that are drawn connected are neighbours and no further apart than Gap; where
\* there are dots without a value, they stand at the times of the two neighbours they
\* part, which are further apart, whatever the time zone.  But for the first row,
\* whose place is not adjusted.
GapsShown ==
    \A k \in 2..Len(series) - 1 :
        LET a == series[k]    before == series[k-1]
            b == series[k+1]  after == series[k+2]
        IN  /\ a.row # 0 /\ b.row # 0 => /\ b.row = a.row + 1
                                         /\ rows[b.row] <= rows[a.row] + Gap
            /\ a.row = 0 /\ b.row = 0 /\ k # 2 =>
                 /\ before.row # 0 /\ after.row = before.row + 1
                 /\ rows[after.row] > rows[before.row] + Gap
                 /\ a.t = before.t /\ b.t = after.t

\* Every row is fetched in the end, or gets too old: no order of answers, errors
\* or clicks stops the polling or leads the index past it.  (The table stops to
\* grow at MaxRows.)
EveryRowFetched ==
    <>[](\A i \in 1..Len(rows) : i \in seen \/ rows[i] <= serverTime - narrowest)

\* After a click the axis follows the label with the next answer, and stays so.
AxisFollowsLabel == <>[](axis = timespan - Second)
=============================================================================
