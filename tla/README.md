# Verification of nerdobd2

TLA+ models of nerdobd2, the TLC configurations that check them, and TLAPS proofs about
them. nerdobd2 reads a car's engine control unit (ECU) over KW1281, together with a GPS
receiver and an Arduino, and hands the data to output plugins (databases, CSV, UDP,
websocket, CAN) and, through a forked HTTP server, to a small web client.

Contents: [inventory](#inventory) - [plan](#plan) - [modules](#modules) - [runs](#runs) -
[fairness](#fairness) - [proofs](#proofs) - [findings](#findings) - [not modelled](#not-modelled).

## Inventory

| Component | Source | State it keeps | Operations | What makes it correct |
|---|---|---|---|---|
| KW1281 protocol | `kw1281.c` | `fd`, `counter`, `got_ack`, `activeblock`, `loopcount`, the place in a byte exchange | open, init (five-baud address, key bytes), receive and send a byte with its complement, receive a block, send ACK and group blocks, poll | block numbers never drift from the ECU's; no stale or damaged block is accepted; only a ready, known ECU is polled; every group keeps being answered |
| Main loop | `core.c` main | `ret`, the error it starts over from | open, init, mainloop, close | every error leads back to a session |
| Shared record | `core.c`, `common.h` | `obd_data`, `obd_data_lock` | `block_handle_field`, the stores of the GPS and the Arduino thread, `output_telemetry` | what is stored together is delivered together; everything stored is delivered |
| GPS thread | `gps/gps.c` (or `gps/gpsd.c`) | the port, packages in use | wait for navigation data, check fix and precision, store | as above; packages are freed |
| Skytraq driver | `gps/lowlevel.c`, `gps/datalogger.c` | the byte stream | frame a message, write a request and wait for ACK, NACK or an answer | finds the frame border again after every loss; an answer belongs to its request |
| Arduino thread | `secondary_telemetry.c` | the last telemetry record | read, store, sleep | coherent store |
| Process life | `core.c` cleanup, main | threads, child, `cleaning_up`, handlers | start, signal, cancel, join, close, wait, exit | a signal ends the program and leaves no child; plugins are not unloaded under a thread |
| Plugin loader | `plugins.c` | table of plugins and handles, the query plugin | load, close, handle_data, set_point | table and handles agree; limits are kept |
| SQL outputs | `output_sqlite.c`, `output_postgres.c`, `db_common.c` | a connection, the table, set points | open, create the tables, insert a record, set point | the INSERT fits the table; each record is inserted once; transactions do not mix |
| Query plugins | `sqlite2json.c`, `postgres2json.c`, `json.c` | a connection | latest, averages, graph since an index within a time span | no transaction is left open; no sample is skipped |
| Other outputs | `output_csv.c`, `output_udp.cpp`, `output_websocket.cpp`, `output_canbus.c` | a file, a socket | write a record | reconnects when closed |
| HTTP server | `httpd.c` | the forked child | start, serve, stop | serves only with a query plugin; ends with its parent |
| Graphs of the web client | `html/js/graph.js` | index, time span, interval and series per graph | poll, take an answer, prepare the dots, change the time span | no row is skipped whatever order answers come in; gaps are shown; polling never ends |
| Values and map of the web client | `html/js/value.js`, `map.js` | the elements, their numbers and units, the marker | poll, update the elements, move the marker | the page ends up with the latest row; number and unit belong together; the marker is where a precise fix was |

How they interact. main() calls kw1281.c, which calls back `block_handle_field` for every
value. Three writers (main, GPS, Arduino) share `obd_data` with the output thread under
`obd_data_lock`. The output thread calls the plugins without a lock, and main calls
`output_plugins_set_point` on the same plugins whenever the serial port was opened. The HTTP
child is forked before any plugin is loaded and shares nothing but the database. A signal
runs `cleanup()` on the stack of main, wherever main is. The web client polls the HTTP child
with requests that overlap, for its timer is set when a request is sent; the child answers from
the database, through the query plugin.

What is hard here: an unreliable byte line on which each side must notice, by itself and at
the same byte, that a session is over; retries by restarting that meet the leftovers of what
they retry; four threads around one record; cancellation and signals at any moment; partial
failures during start and shutdown. `PROJECT.json` lists these hazards line by line with the
properties that cover them.

## Plan

1. **Done.** `KLine`, `Kw1281`, `BlockSession`: the protocol against its peer, with the
   outer loop of main - the heart of the program. Its theorems.
2. **Done.** `ObdStore`, `AtomicStore`: the record and its threads; refinement and proofs.
3. **Done.** `Shutdown`: the life of the process; safety proofs.
4. `Plugins`: the plugin table with its limit, a load that fails halfway, reload, the query
   plugin. Property: table and handles agree, nothing is used after it was closed; theorem:
   the same for every MAX_PLUGINS.
5. `Database`: one connection with transactions, used by the output thread and by main
   (`set_point`), and by the queries of the HTTP child; errors in the middle of a
   transaction, the busy handler and its limit. `Table` is its first part.
6. **Done.** `Skytraq`: framing as a state machine over a damaged
   byte stream, the request with its repetition, packages that are never freed.
7. **Done.** `Table`, `Graph`, and `Values` with `Map`: the web client with the server's side
   of its requests and the table they are answered from; overlapping, lost and reordered
   answers; safety proofs.
8. `Supervisor`: the descriptors of kw1281_open and kw1281_close.
9. Composition: Kw1281 as the main writer of ObdStore, by mapping `shown` to the fields of
   the main thread.
10. **Done.** Proofs: the joint invariant of tester and ECU behind CountersAgree,
    AnswerMatchesRequest and CompletedBlockGenuine; the theorems of 6. `GapsShown` and
    `PostgresShowsAll`, by induction along the loop over the dots. Left: the theorem of 4.

## Modules

**`KLine`** is the other end of the line: adapter, K-line, ECU. It is not code of this
repository, but the peer `kw1281.c` is written for, derived from what `kw1281.c` expects of
it byte by byte: sync and key word after the address, the complement of each byte, the block
format, the turn taking, and silence after any error. It also holds the disturbances: bytes
changed or lost in either direction (no two in one exchange of a byte and its complement,
which the history variable `changed` sees to), an ECU that forgets the session or says it is ready
instead of answering, a pulled cable, perhaps plugged into another car. `MaxFaults` bounds
them. Data abstraction: an ASCII block carries one byte that names the part, a value of a
group answer is one byte instead of three, decoded by the identity except for the
`Undecodable` ones (the formulas of `decode_value` are a library's).

**`Kw1281`** is `kw1281.c` and the loop of `main()` around it. `pc`/`step` say in which
function and which byte exchange the serial thread is, `buf`/`pos`/`sent` its place in
the block, `item` is `loopblock`; `counter`, `gotAck`, `activeblock`, `loopcount` are the
globals and `shown` is what has been stored in `obd_data`. One action is one call that reads
or writes a byte with everything that follows it up to the next one:

| Action | Code |
|---|---|
| `Open`, `InitBegin`, `SendAddress`, `HardError`, `Flush`, `FlushFails`, `ReadKeyByte`, `TakeKey` | `kw1281_open`, `kw1281_init` and the error branches of main |
| `ReadByte`, `WriteAck`, `TakeByte`, `EchoWrong`, `CounterWrong`, `BlockEndWrong` | `kw1281_recv_byte_ack`, `kw1281_recv_block`; `TakeByte` also stores the values of the table with the last data byte |
| `IdentBlockDone`, `IdentDone`, `UnknownEcu` | `kw1281_get_ascii_blocks` |
| `AnswerDone` | the end of `kw1281_recv_block` in `kw1281_mainloop` and the choice of the next entry |
| `SendByte`, `SendEchoOk`, `SendAckOk`, `SendAckWrong` | `kw1281_send_byte_ack`, `kw1281_send_ack`, `kw1281_send_block` |
| `WriteFails`, `ReadTimeout`, `SlowTimeout` | `kw1281_write_timeout`, `kw1281_read_timeout` |

An adapter that hung up is readable at once and read() returns 0: the byte is
uninitialised and any byte of `Noise` (or a block end). A time-out happens when nothing is on
its way (`ReadTimeout`), or, as a disturbance, although something is (`SlowTimeout`).

**`BlockSession`** is what the protocol promises without its bytes: blocks numbered without
gap or repetition, alternating sides, and the polling order of the table. `Kw1281!SessionSpec`
is its refinement; the mapping counts a block at the byte where the code steps `counter`.

**`ObdStore`** is `obd_data` and its threads. A *section* is a set of fields stored under one
lock; a writer's *layout* is the sequence of sections of one sample (main: one field per
section; GPS and Arduino: all fields in one). Stores and copies go field by field, in any
order. The copy in `core.c:78`, made without the lock, yields `Torn` in every field. A value is
the number of the sample it belongs to. **`AtomicStore`** is the record with atomic
stores and snapshots.

**`Shutdown`** is the process: start-up with its failures, main's loop reduced to the locks
and plugins it enters, the other threads with their cancellation points, the HTTP child, and
`cleanup()` running on top of main. `PluginLock` says whether a plugin locks its
connection, as SQLite does in its default mode. A failed `pthread_create` leaves the thread
identifier undefined: `cleanup` may then skip it or fault (`CancelFault`).

The end of the child is modelled as the code waits for it. `httpd` becomes a zombie, `sigchld`
is the signal that says so, and `SigChld` the handler, which may run wherever main is, reaps the
child and leaves `ECHILD` in the same `errno`. `wait4childs` is the loop `Wait`, `WaitAgain` /
`Exit`: `wait(NULL)` sleeps while the child lives, reaps a zombie *without* setting `errno`, or
fails; then `errno` is compared. `CallWait` enters it with whatever earlier calls have left in
`errno`. A signal handled during the wait may end it with `EINTR`: POSIX leaves open whether
`signal()` has it restarted, so both happen here. The child is the only one there is.

**`Skytraq`** is the GPS thread with its driver, against a receiver and a disturbed line.
`rd` is the state of `skytraq_read_next_package`, byte by byte: it hunts for `A0 A1`, takes the
length, the payload, the checksum and the end; `pc` and `tries` are the place in
`skytraq_read_software_version` and `skytraq_write_package_with_response`, whose request goes
out once before its loop and once in each turn of it, and then in the loop of `gps.c`. `ReadByte`
is a byte that was read, `ReadTimeout` and `TimeUp` the time-outs of a byte and of the search:
after a time-out a byte of the header or the end is uninitialised, and the payload is read
again from its start. `readInteger` makes an integer of the two bytes of a length, but
`SkyTraqPackage.length` is a byte (datalogger.h:87): `Length` keeps the low one, and a length that
was damaged may be 0. Data abstraction: a byte has four bits (`Width`), so the constants have
other values than in the code, a navigation payload is four bytes and its quality is good or not.
Stored positions are checked here; how they reach `obd_data` is `ObdStore`'s.

**`Table`** is the shape of the table `data`. `init_db` creates it with 16 columns, but only IF
NOT EXISTS; the INSERT of `output_sqlite.c` and `output_postgres.c` has 17 values (`Supplied`:
id, time and what `build_query` adds, the throttle angle last). On the table `created`,
every INSERT fails. So two more shapes are looked at, which the program keeps when it finds
them: `extended`, with a column for the throttle angle, and `former`, with the columns that
`json_get_data` and `json_get_averages` name and `init_db` does not create. SQLite
wants as many values as columns, PostgreSQL not more. Rows may be there from the start.

**`Graph`** is `graph.js` with `json_get_graph_data` of both query plugins as its server.
`index`, `timespan`, `interval` and `series` are the variables of the closure, `axis` the length
of `options.xaxis`, `timer` what is left of the last `setTimeout`. A request under way is in
`conn`, first on its way to the server, then as the answer on its way back:

| Action | Code |
|---|---|
| `Update` | `update`: sends the request and sets the timer in the same breath (`complete:` is given the result of `setTimeout`, not a function, so that nothing that happens to the request stops the polling) |
| `Insert` | `handle_data` of the output plugin, on a table that accepts it (`Accepts`); on another the table stays as it is |
| `Serve`, `ServeError` | the query of SQLite and PostgreSQL; the first returns the id of its last row, the second the index it was asked for, and only beside a row |
| `Receive` | `onDataReceived`, `appendData`, `updateOptions`, `plot` |
| `Fail` | no answer, or the `null` a failed query of SQLite comes out as, on which `json.index` throws |
| `Increase`, `Decrease` | the handlers of [+] and [-], which exist once the graph was plotted, with `setTimespan` |

`Appended` is the loop over the dots as a recursive function, splices included. A dot is its
place on the axis and the number of the row it shows. `InIdOrder` is "ORDER BY id": the one
increasing function onto the ids selected. `seen` and `narrowest` are there for the
properties. Rows are all given a value: PostgreSQL's plugin leaves a row without one out,
SQLite's gives it the value 0.

Two conversions matter and are modelled by what they do. The time span goes out as
`timespan / 1000` with its decimals, and `get_query_long` reads up to the point: `Whole`. A row is
stored in the local time of the server (`Stored`; SQLite's in whole seconds), compared with the
same in the query (`serverTime`), sent as if it were UTC, and shifted by the zone of the browser
once more (`Adjusted`), there to be compared with local time (`Outdated`): so `zone` and
`serverZone` are both in the model, and they may differ. The graph modelled is one whose column the
table has, such as `speed`: those of `consumption_per_100km` and `gps_altitude` (httpd.c:45, 57) ask
for columns the created table lacks, and each of their requests fails.

**`Map`** is `map.js`: `setLocation` with its guards. **`Values`** is `value.js`: a `Values`
object with its elements, one of each kind: `consumption_per_100km`, which shows another column
and unit while the car stands, `gps_mode`, which turns a number into a word and moves the marker,
and `speed` for all others. A number on the page is the row it comes from. The timeout is not
counted; an armed timer fires at any moment. An empty table comes as row 0, a lost answer as
`Fail`. On a table without the columns of `json_get_data` - the one `init_db` creates - SQLite's plugin
returns NULL each time (`ServeNull`: the first look at a column of the `null` throws before any
element has changed) and PostgreSQL's an object without values (`Serve`). Elements may be
created at any time, as value.js:67 foresees; the pages create theirs at once.

**`MCKw1281`**, **`MCObdStore`**, **`MCSkytraq`**, **`MCGraph`**, **`MCValues`** hold the small
tables, layouts, positions, plugins and rows for TLC.

## Runs

| Run | Question | Bounds |
|---|---|---|
| `kw1281_faults` | Does the exchange keep numbers, turns and order, and accept only genuine blocks, whatever goes wrong? | two disturbances, two cars, two entries sharing a field, counter modulo 4 and passes modulo 2, so that both wrap; 878k states |
| `kw1281_live` | Is every group answered again after a disturbance? | the code's own table with its group due in every 15th pass, passes modulo 16, one disturbance |
| `kw1281_stored_values`, `kw1281_only_known_ecu` | expected to fail: see [findings](#findings) | as `kw1281_faults` |
| `obd_store` | Is the record atomic and coherent for its readers, and is what is stored delivered? | all three writers, main and the GPS with one sample each, the Arduino repeating its own for ever, two fields per sensor; 33k states |
| `shutdown` | Every failure of the start, every moment of a signal | none: the model is finite; 9259 states |
| `shutdown_signal_exits`, `shutdown_cancel_in_plugin` | expected to fail: see [findings](#findings) | none |
| `skytraq` | Does the GPS thread find back to the message border, and never mix two messages? | one disturbance anywhere, two positions with the same checksum, two retries instead of 300, one message at a time on the line; 53k states |
| `graph` | Does a graph fetch every row, draw it and its gaps, whatever order answers come in? | both plugins, the created and the extended table, with one or three rows at the start, two requests under way, three rows, one click or failure, servers east and west of UTC, a browser to its west; 168k states |
| `graph_whole_timespan` | expected to fail: see [findings](#findings) | SQLite only, the created table with two rows and none added, all in UTC |
| `values` | Does the page end up with the latest row, and never with a number, unit or location that do not belong together? | both plugins, the created and the former table, empty or with a row, two requests under way, two rows of six kinds, one failure, with and without a map; 163k states |

The properties, and why the bounds suffice:

* `ReadyBeforeRequest`, `CountersAgree`, `AnswerMatchesRequest`, `CompletedBlockGenuine`,
  `SessionSpec` are checked with two disturbances because the dangerous cases are a first
  one that breaks a session and a second one that meets the restart. The noise bytes
  include a block end, a value the ECU reports and the complement of another, so that a changed byte
  can look like a genuine one. What is excluded is that *one* exchange is changed twice: a byte
  changed on its way and its complement changed back to what the sender expects defeats KW1281
  itself, not this program. `changed` is reset when the ECU is woken and with each byte it says of
  its own accord; a block of the tester lies between two of those, but a change there ends the
  session at once, for the tester checks each echo and each complement (TLC shows the double change in a moment when the guard `~changed` of `KLine!Garble` is
  dropped). Any other two disturbances may combine.
  `CompletedBlockGenuine` and `AnswerMatchesRequest` speak of the time the adapter is there;
  after that the bytes are uninitialised memory.
* `EveryGroupAnswered` needs the real table: the entry due in every fifteenth pass is the one
  a restart could starve.
* `CoherentDelivery`, `AtomicSpec`, `StoredDelivered` need two values of a field, one to be
  overwritten by the other: the zeros of the start and the sample.
* `Reaped` and `IdleSignalExits` together are about the loop of `wait4childs`: it must not end while
  the child lives or is a zombie, and must end. The child may end by itself at any moment (`ChildFails`),
  so that `sig_chld` runs before, between and during the waits.
* `HttpdStopped` speaks of main's orderly ends. A process killed before its handlers are
  installed leaves the child; so does the code, by its order.
* `FixGenuine`, `AnswerGenuine`, `FixesStored` are checked with one disturbance: the checksum is
  an exclusive or, so that two changed bytes can compensate each other, which is the weakness of the
  format and not of this program. `FixesStored`
  is about the positions of `TwoPositions`: a receiver whose every payload contained a header
  could keep a reader that lost the border from finding it, and the code has nothing against it.
* `NothingSkipped` and `EveryRowFetched` need two requests under way, so that one answer overtakes
  another, and a click or failure in between. A second is two ticks and the time span three seconds:
  a click halves it to one and a half, of which the server is asked for one. Rows are 8, 4 and 1
  ticks old at the start, so that a time span doubled or halved reaches another number of
  them, and with `Gap` 0 rows of different ticks are far apart and those of the same are not. In the
  table `extended` rows are added too, with time passing between them. Both properties speak of
  whole seconds (`narrowest` is the smallest time span as the server was asked for it): a row in
  the last fraction of the time span is passed by the index and never asked for again.
* `PostgresShowsAll` takes the zone of the server off the time span: where it is west of UTC,
  stored times are behind and `appendData` cuts off as much too early, or everything when the time
  span is shorter than that; where it is east of UTC, nothing is lost.
  The browser's own zone cancels out. `ServerZones` of one tick either way is enough for both cases.
* `GapsShown` says both that dots joined by a line are neighbouring rows no further
  apart than `Gap`, and that dots parted by two without a value are neighbouring rows that are,
  with the two at the times of those. It needs three rows, because the loop of graph.js:78 leaves out the first
  dot, whose place the property therefore does not speak of: a false gap, or none, between the
  first dot and the second is possible in the code wherever the browser is not on UTC.
  After `MaxTime` time passes without being counted: rows grow no older, but timers still expire.
* `NothingSkipped` speaks of the *narrowest* time span there was. Rows between a narrow and a
  wider one may be lost for good: the click resets the index (graph.js:35), and an answer that was
  under way sets it again (graph.js:113). TLC finds this at once when `narrowest` is replaced by
  `timespan`.
* `Converges` says of a table that has the columns that the page ends up with its latest row, and of
  one that has not, such as the created one, that it shows no number ever. It allows the page to go back for a moment, which it does when an old answer comes
  late, and asks for one coordinate of the location only: map.js:19 moves the marker when *both*
  have changed. `UnitFits` is one direction only: when neither column is a number, the unit turns to
  l/h beside the old number. Two rows suffice for an old answer after a newer one.
* `Shutdown.cfg` and its variants say `CHECK_DEADLOCK FALSE` because the process ends, and a
  program that nobody signals may wait for its devices for ever.

## Fairness

`Kw1281!FairSpec`: weak fairness of the tester (every read and write of the code has a
time-out, so it never blocks for good), of the ECU (it answers or falls silent, and is woken
by the address), and of plugging the cable in again - not of any particular action of the
tester. Disturbances are never forced.

`ObdStore!FairSpec` and `Shutdown!FairSpec`: threads keep running (weak fairness), and a
thread that wants the mutex gets it if it is free again and again (strong fairness of taking
the lock only). A POSIX mutex promises no order, but all of its users leave their critical
section after a few assignments and then sleep 20 ms or more or wait for a device, so a
waiter finds it free; that it is not starved all the same is assumed, not shown. The kernel
delivers the signal of the child's end (weak fairness of `SigChld`), and the child handles its SIGTERM.
No fairness of the ECU, the sensors or the sender of a signal is assumed.

`Skytraq!FairSpec`: the thread runs (weak fairness of `ThreadNext`), and the receiver, which
reports its position all the time, has a good fix again and again (strong fairness, for it sends
while there is room only). No fairness of its answers, and none of time-outs.

`Graph!FairSpec`, `Values!FairSpec`: the browser runs a handler that is due, time passes, and a
request that does not fail is answered and its answer handled (weak fairness per request: the
server takes them one by one and never drops one). Failures are bounded, so in the end some
request succeeds; no fairness of the user or of `Insert`.

## Proofs

All theorems hold for every value of the constants that satisfies the named assumptions
(`LineAssumption`, `TableAssumption`, `StoreAssumption`, `PluginAssumption`, `GraphAssumption`,
`ValuesAssumption`, `SkytraqAssumption`).

* **`Kw1281Proofs`**: `TypeCorrect` (`Spec => []TypeOK`) is inductive by itself, once the line
  (ECU, disturbances) and the tester are treated apart. `ReadyCorrect` adds `CounterFresh`:
  from the wake-up to the third key byte the counter is still 1. With that invariant
  `ImplementsSession` maps every step to a step of `BlockSession` or a stutter: a soft error to
  `Drop`, the third key byte to `Connect`, the second byte of a sent block to `TesterBlock`,
  the end of a received one to `IdentBlock`, `Identified` or `Answered`.
* **`Kw1281SyncProofs`**: `CountersCorrect`, `AnswersCorrect` and `BlocksCorrect`, for any number of
  disturbances and every `Noise`. None of the three properties is inductive: each speaks of one
  moment of an exchange, and what holds there depends on both ends and the line between them since
  its start. Their common invariant is `InStep`. It gives, for each place of the tester in an
  exchange, the places the ECU can be in and what is on the line: `Acked` (the ECU knows what the
  tester has taken, its next byte is coming), `Doubtful` and `Unacked` (the last byte may be a
  changed one, its complement is on its way back), `Offered` and `Confirmed` (the same in the
  other direction), `Woken` for the key word. The idea is that in an exchange in order *exactly
  one* byte is coming, so that a byte too many can never be taken for the next one; when it is
  lost, both ends wait (`Stuck`), and all the tester can do is to time out. A changed byte of the
  ECU leaves `Doubtful`, where the two ends disagree about a byte until its complement arrives, at
  which the ECU falls silent: so a block that comes to its end is the one that was sent. The
  tester's numbers are in step with the ECU's by `Numbers`, which knows that the second byte
  of a block is where the counter steps. `InStep` was model-checked on the instance of
  `kw1281_faults` before it was proved; there is one lemma for each action of either end.
* **`ObdStoreProofs`**: the inductive invariant is mutual exclusion (`LockInv`), that the work
  of a writer is made of its sections (`WorkInv`), and that in a critical section what is no
  longer to do has been copied (`CopyInv`). From it the refinement `ImplementsAtomicStore`: a
  section takes effect when its writer *gets* the lock, a snapshot when the output thread
  releases it. `DeliveryCoherent` follows at the level of the atomic record.
* **`ShutdownProofs`**: `ShutdownTypeCorrect`, `PluginsStayQuiet`, `ChildReaped` from one
  invariant: `QuietInv` (from the join on the output thread is gone; plugins are closed after
  the join only), `StartInv` (what has not been started is absent) and `WaitInv`: whoever wrote
  it, `ECHILD` is in `errno` only when the child has been reaped or was never forked, and no
  child comes afterwards. So the loop of `wait4childs` cannot end early, although it
  compares an `errno` that its own `wait` may not have set.
* **`GraphProofs`**: `IndexNeverSkips` is not inductive by itself, for the index is set to what an
  answer carries, whenever it comes. `AllCovered` says of every index there is - the graph's, a
  request's, an answer's together with its rows - that the rows up to it have been seen or are too
  old, and that no request asks for less than the narrowest time span. Clicks and clock are cut to
  whole seconds on either side (`WholeMonotone`, `WholeSpan`), and what is stored moves with the
  clock of the server (`StoredMonotone`, `ServerTime`): a row too old stays so. `TypeCorrect` rests on
  `IntervalPositive`: a time span is divided by the number of polls only when it is not below it.
* **`GraphSeriesProofs`**: `GapsCorrect` (`Spec => []GapsShown`) and `PostgresCorrect`, about what
  the loop of `appendData` leaves of a series, splices included. The inductive invariant
  `ShownInv` relates the pieces: rows are in the order of their times (`InOrder`) from the
  table the program finds on, an answer holds
  an unbroken run of rows up to its newest (`RunsCome`), the series is made of dots of rows there
  are, and an answer of PostgreSQL has every row its time span reaches (`WholeTable`). What an
  answer makes of the series is proved along the loop: `Drawn` says of the dots before the k-th
  that the last one is there, that its gaps are right, and that no dot of the time span is
  missing; `DrawnOne`, `DrawnJoined` and `DrawnParted` are its three branches. The library's
  induction cannot be used, but for a *set* of numbers the same follows from a least
  element of what is missing (`LeastExists`, `SetInduction`), as does that the recursive function
  in `Appended` exists at all (`LaidExists`, `AppendedLaid`). `RunInOrder` says that
  the increasing function onto a run of ids is the obvious one.
* **`ValuesProofs`**: `UnitAlwaysFits` and `MarkerAlwaysGenuine` (and `TypeCorrect`) from one
  invariant, which adds that what is shown and what is on its way are rows of the table
  (`RowsExist`), so that a row more changes nothing.
* **`SkytraqProofs`**: `TypeCorrect` rests on `ReaderOK` (in the payload there is a byte to come, so
  that no more than its length is taken) and `RequestsCounted` (requests out and retries left add
  up). `FixGenuineUndisturbed` and `AnswerGenuineUndisturbed`: as long as nothing has disturbed the
  line, `FixGenuine` and `AnswerGenuine` hold, whatever the positions are - they may contain the
  mark of a message. `RecoveryLasts`: after any disturbances, once reader and line fit together
  again (`Aligned`), they do until the next one, and in all that while a step stores only a position
  that was reported and confirms a request only if it was. The
  invariant is that the line is whole messages, after what is left of the one the reader is in
  (`InMessage`), and that the reader has of that one what `Within` says. Whole messages are the
  *least* set closed under putting one in front (`Messages`), so that what would be an induction
  over the line is a set instantiated: that one may be added behind is `MessageBehind`, that the
  first one can be taken off `FirstMessage`.

Only model-checked: `FixGenuine` and `AnswerGenuine` from a disturbance until reader and line are
`Aligned` again (what is stored then depends on what the checksum makes of the bytes, and two
changes that compensate each other defeat it), and every liveness property: the prover has no
rule for liveness under fairness and ENABLED. It cannot instantiate the library's induction
theorems either, nor does it support RECURSIVE operators; no module here declares one, and where an
induction is needed it runs over a set.

## Findings

Five runs show the code at odds with what it says of itself; each is listed in `PROJECT.json`
with its quotation.

1. `StoredValuesGenuine`: `recv_block` stores values before it has seen the block end. A byte
   garbled on its way is stored although the block is then given up.
2. `OnlyKnownEcuPolled`: `activeblock` is never reset, so after a known ECU any other is polled.
3. `SignalExits`: a signal that interrupts main inside `block_handle_field` never ends the
   program: cleanup joins threads that wait for the lock below it on the same stack.
4. `IdleSignalExits` with `PluginLock`: the output thread can be cancelled in SQLite's busy
   handler, with the mutex of the connection held that closing the plugin needs.
5. `WholeTimespanShown` with SQLite: the index advances with every answer and each answer replaces
   the series. On a table filled before, the first answer shows all rows of the time span; the second
   poll asks for those after the last one only, and its empty answer leaves nothing of the graph. No
   row needs to be added. PostgreSQL's plugin returns the index it was given, which hides
   this at the price of sending the whole time span each time.

Seen while modelling, and not given a run because the text alone shows them: the INSERT has 17
values for the 16 columns of the created table, so that nothing is ever stored in it
(output_sqlite.c:69, db_common.c:46); `json_get_data` asks for columns that table lacks, so that the
values of the page never appear (sqlite2json.c:27); dots are taken to local time twice, which outdates
all of them where the zone west of UTC exceeds the time span (output_sqlite.c:109, graph.js:79); the length of a
message of the receiver keeps its low byte (lowlevel.c:211); `pid_httpd` outlives the child that
`sig_chld` reaped, so that the SIGTERM of core.c:47 may meet a stranger; the injection time
is polled and dropped (kw1281.c:535); navigation data without a good fix leaves its loop past the
call that frees it (gps.c:65); a graph of 30 s to 5 min is updated more than once a second
(graph.js:44); the first dot of a graph keeps UTC (graph.js:78); the marker stays behind on a
drive due north or east (map.js:19).

Without 3 and 4 - no plugin lock, main outside of its critical section - every signal ends
the program (`IdleSignalExits` in the run `shutdown`).

## Not modelled

The plugin table, the transactions of the databases and their set points, the HTTP server's own loop and the
descriptors of the serial port are planned (see above). The averages of `json_get_averages` are
sums over the table. Of the web client, labels, rounding and what flot and leaflet draw are left
out, and so are the change to and from daylight saving time, time spans so small or large that
JavaScript writes them with an exponent, and rows SQLite keeps with values of another type than the
column's. The formats of CSV,
UDP, websocket and CAN records are data without control. gpsd.c is the same writer over another
library. A block of the ECU with a length below 3, which makes the length loop of
`recv_block` run away, is outside the peer `KLine` describes. A port of the GPS that hangs up is left out (the receiver hangs on the board's own UART), and
so are the requests of `datalogger.c` the GPS thread never makes. The TEST build, vendored scripts,
style sheets and build files are left out.
