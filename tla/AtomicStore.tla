---------------------------- MODULE AtomicStore ----------------------------
(***************************************************************************)
(* What the threads of nerdobd2 promise each other about obd_data: a        *)
(* writer's section of fields is stored at once, and what the output        *)
(* plugins are handed is the whole record as it was at one moment.          *)
(***************************************************************************)
EXTENDS Naturals

CONSTANTS Fields,       \* the fields of obd_data_t
          SectionSets,  \* the sets of fields that are stored together
          Values        \* what a field may hold

VARIABLES store,        \* the record
          snap,         \* the record as last looked at by the output thread
          delivered     \* the record the plugins were last handed

vars == <<store, snap, delivered>>

Init ==
    /\ store = [f \in Fields |-> 0]
    /\ snap = store /\ delivered = store

\* A writer stores sample n of all the fields S.
Put(S, n) ==
    /\ store' = [f \in Fields |-> IF f \in S THEN n ELSE store[f]]
    /\ UNCHANGED <<snap, delivered>>

Look == snap' = store /\ UNCHANGED <<store, delivered>>

Deliver == delivered' = snap /\ UNCHANGED <<store, snap>>

Next == Look \/ Deliver \/ \E S \in SectionSets, n \in Values : Put(S, n)

Spec == Init /\ [][Next]_vars
=============================================================================
