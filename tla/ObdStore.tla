------------------------------ MODULE ObdStore ------------------------------
(***************************************************************************)
(* obd_data, the record all data passes through, and the threads around it: *)
(* the main thread stores one value of an ECU answer at a time              *)
(* (block_handle_field), the GPS and the Arduino thread a whole sample      *)
(* (gps.c, secondary_telemetry.c), each under obd_data_lock; the output     *)
(* thread copies the record and hands it to the plugins (output_telemetry). *)
(*                                                                         *)
(* A value is the number of the sample it comes from: 0 is the initial      *)
(* zero, sample n of a writer is newer than its sample n - 1.               *)
(***************************************************************************)
EXTENDS Naturals, Sequences

CONSTANTS
    Writers,        \* the threads that store: main, GPS, Arduino
    Out,            \* the output thread
    Free,           \* the lock when nobody holds it
    Torn,           \* what a copy made without the lock may contain
    Fields,         \* the fields of obd_data_t
    Layouts,        \* per writer, the sequences of sections a sample may have
    Repeating,      \* writers that store the old sample again when a read fails
    Skipping,       \* writers that skip a section they cannot decode
    MaxSample       \* bound on the samples of a writer

Threads == Writers \cup {Out}

\* A section is a set of fields stored under one lock.  block_handle_field has
\* one field in each; an answer of the ECU is stored in several.
SerialLayouts == { << {"rpm"}, {"throttle_angle"}, {"temp_air_intake"} >>,
                   << {"rpm"}, {"speed"} >>,
                   << {"rpm"}, {"voltage"} >> }
GpsLayouts == { << {"latitude", "longitude", "altitude", "gps_speed", "track"} >> }
ArduinoLayouts ==
    { << {"fuel_remaining", "fuel_level", "temp_oil", "temp_coolant"} >> }

SectionsOf(w) == UNION { {l[i] : i \in DOMAIN l} : l \in Layouts[w] }
Sections == UNION { SectionsOf(w) : w \in Writers }

ASSUME StoreAssumption ==
    /\ Out \notin Writers /\ Free \notin Threads /\ Torn \notin Nat
    /\ \A w \in Writers : Layouts[w] \subseteq Seq(SUBSET Fields) \ {<<>>}
    /\ \A S, T \in Sections : S = T \/ S \cap T = {}
    /\ Repeating \subseteq Writers /\ Skipping \subseteq Writers
    /\ MaxSample \in Nat

VARIABLES
    pc,             \* per thread: where it is
    lock,           \* the holder of obd_data_lock
    todo,           \* per thread: fields still to copy in the critical section
    work,           \* per writer: the sections of the sample still to store
    sample,         \* per writer: the number of the sample
    obd,            \* obd_data
    tmp,            \* tmp_data of the output thread
    delivered       \* what the plugins were last handed

vars == <<pc, lock, todo, work, sample, obd, tmp, delivered>>

Init ==
    /\ pc = [t \in Threads |-> IF t = Out THEN "top" ELSE "idle"]
    /\ lock = Free
    /\ todo = [t \in Threads |-> {}]
    /\ work = [w \in Writers |-> <<>>]
    /\ sample = [w \in Writers |-> 0]
    /\ obd = [f \in Fields |-> 0]
    /\ tmp = [f \in Fields |-> 0]
    /\ delivered = [f \in Fields |-> 0]

Goto(t, l) == pc' = [pc EXCEPT ![t] = l]

\* pthread_mutex_lock, on the way to copying the fields S.
Acquire_Unchecked(t, S) == lock' = t /\ todo' = [todo EXCEPT ![t] = S]
Acquire(t, S) ==
    /\ lock = Free /\ lock' = t
    /\ todo' = [todo EXCEPT ![t] = S]

-----------------------------------------------------------------------------
(* The writers.                                                             *)

\* An answer, a fix or a telemetry record has come in; or has not, and what
\* the last one left in the Arduino thread's buffer is stored again.
NewSample(w) ==
    /\ pc[w] = "idle"
    /\ \/ sample[w] < MaxSample /\ sample' = [sample EXCEPT ![w] = @ + 1]
       \/ w \in Repeating /\ UNCHANGED sample
    /\ \E l \in Layouts[w] : work' = [work EXCEPT ![w] = l]
    /\ Goto(w, "lock")
    /\ UNCHANGED <<lock, todo, obd, tmp, delivered>>

\* On to the next section, or done with the sample.
Advance(w) ==
    /\ work' = [work EXCEPT ![w] = Tail(@)]
    /\ Goto(w, IF Tail(work[w]) = <<>> THEN "idle" ELSE "lock")

\* decode_value fails: the field keeps its value.
Skip(w) ==
    /\ w \in Skipping /\ pc[w] = "lock"
    /\ Advance(w)
    /\ UNCHANGED <<lock, todo, sample, obd, tmp, delivered>>

Lock(w) ==
    /\ pc[w] = "lock"
    /\ Acquire(w, Head(work[w]))
    /\ Goto(w, "store")
    /\ UNCHANGED <<work, sample, obd, tmp, delivered>>

\* The fields of a section, in whatever order the compiler chose.
Store(w) ==
    /\ pc[w] = "store"
    /\ \E f \in todo[w] :
         /\ obd' = [obd EXCEPT ![f] = sample[w]]
         /\ todo' = [todo EXCEPT ![w] = @ \ {f}]
    /\ UNCHANGED <<pc, lock, work, sample, tmp, delivered>>

Unlock(w) ==
    /\ pc[w] = "store" /\ todo[w] = {}
    /\ lock' = Free
    /\ Advance(w)
    /\ UNCHANGED <<todo, sample, obd, tmp, delivered>>

Write(w) == NewSample(w) \/ Skip(w) \/ Lock(w) \/ Store(w) \/ Unlock(w)

-----------------------------------------------------------------------------
(* output_telemetry.                                                        *)

\* obd_data_t tmp_data = obd_data: a copy without the lock, torn for all one
\* may know.
RaceCopy ==
    /\ pc[Out] = "top"
    /\ tmp' = [f \in Fields |-> Torn]
    /\ Goto(Out, "lock")
    /\ UNCHANGED <<lock, todo, work, sample, obd, delivered>>

\* The fields copied under the lock: the whole record.
Copied_Nothing == {}
Copied == Fields

OutLock ==
    /\ pc[Out] = "lock"
    /\ Acquire(Out, Copied)
    /\ Goto(Out, "copy")
    /\ UNCHANGED <<work, sample, obd, tmp, delivered>>

Copy ==
    /\ pc[Out] = "copy"
    /\ \E f \in todo[Out] :
         /\ tmp' = [tmp EXCEPT ![f] = obd[f]]
         /\ todo' = [todo EXCEPT ![Out] = @ \ {f}]
    /\ UNCHANGED <<pc, lock, work, sample, obd, delivered>>

OutUnlock_Early ==
    /\ pc[Out] = "copy"
    /\ lock' = Free
    /\ Goto(Out, "deliver")
    /\ UNCHANGED <<todo, work, sample, obd, tmp, delivered>>
OutUnlock ==
    /\ pc[Out] = "copy" /\ todo[Out] = {}
    /\ lock' = Free
    /\ Goto(Out, "deliver")
    /\ UNCHANGED <<todo, work, sample, obd, tmp, delivered>>

\* output_plugins_handle_data, then sleep.
Deliver ==
    /\ pc[Out] = "deliver"
    /\ delivered' = tmp
    /\ Goto(Out, "top")
    /\ UNCHANGED <<lock, todo, work, sample, obd, tmp>>

Output == RaceCopy \/ OutLock \/ Copy \/ OutUnlock \/ Deliver

Next == Output \/ \E w \in Writers : Write(w)

Spec == Init /\ [][Next]_vars

\* Every thread keeps running.  The mutex promises no order, but everyone who
\* holds it leaves at once and then sleeps or waits for a device, so that a
\* thread that wants it finds it free again and again and gets it.
FairSpec ==
    /\ Spec
    /\ WF_vars(Output) /\ SF_vars(OutLock)
    /\ \A w \in Writers : WF_vars(Unlock(w)) /\ WF_vars(Store(w))

-----------------------------------------------------------------------------
(* Properties.                                                              *)

\* Every variable has its type: in particular what was copied without the lock
\* never reaches a plugin.
TypeOK ==
    /\ pc \in [Threads -> {"idle", "lock", "store", "top", "copy", "deliver"}]
    /\ lock \in Threads \cup {Free}
    /\ todo \in [Threads -> SUBSET Fields]
    /\ work \in [Writers -> Seq(SUBSET Fields)]
    /\ sample \in [Writers -> 0..MaxSample]
    /\ obd \in [Fields -> 0..MaxSample]
    /\ tmp \in [Fields -> 0..MaxSample \cup {Torn}]
    /\ delivered \in [Fields -> 0..MaxSample]

\* The fields of a section hold values of one and the same sample.
Coherent(record) == \A S \in Sections : \A f, g \in S : record[f] = record[g]

\* What a plugin is handed never mixes two fixes of the GPS, or two telemetry
\* records of the Arduino: the latitude and the longitude belong together.
CoherentDelivery == Coherent(delivered)

\* Whatever has been stored is handed to the plugins in the end, or something
\* newer: the output thread is not starved by the writers.
StoredDelivered ==
    \A f \in Fields : \A n \in 1..MaxSample :
        (obd[f] >= n) ~> (delivered[f] \in n..MaxSample)

-----------------------------------------------------------------------------
\* A section takes effect when its writer gets the lock, a snapshot when the
\* output thread releases it.
AbstractStore ==
    [f \in Fields |->
        IF \E w \in Writers : lock = w /\ f \in Head(work[w])
          THEN sample[lock] ELSE obd[f]]

Atomic == INSTANCE AtomicStore WITH
    SectionSets <- Sections,
    Values <- 0..MaxSample,
    store <- AbstractStore,
    snap <- IF pc[Out] = "deliver" THEN tmp ELSE delivered

\* The record behaves as if each section were stored, and each snapshot taken,
\* in one step: output_telemetry and the writers use the lock as they should.
AtomicSpec == Atomic!Spec
=============================================================================
