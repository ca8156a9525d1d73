--------------------------- MODULE ObdStoreProofs ---------------------------
(***************************************************************************)
(* Proofs about ObdStore, for any number of writers, fields and samples:    *)
(* its types, that it implements AtomicStore, and that what the plugins are *)
(* handed is coherent.                                                      *)
(***************************************************************************)
EXTENDS ObdStore, TLAPS

-----------------------------------------------------------------------------
(* The inductive invariant.                                                 *)

\* Whoever holds the lock is in its critical section, and nobody else is.
LockInv ==
    /\ \A w \in Writers : /\ pc[w] \in {"idle", "lock", "store"}
                          /\ pc[w] = "store" <=> lock = w
                          /\ pc[w] # "idle" => work[w] # <<>>
    /\ pc[Out] \in {"top", "lock", "copy", "deliver"}
    /\ pc[Out] = "copy" <=> lock = Out

\* The work of a writer is made of its sections.
WorkInv == work \in [Writers -> Seq(Sections)]

\* In a critical section, what is no longer to do has been copied.
CopyInv ==
    /\ \A w \in Writers : pc[w] = "store" =>
         \A f \in Head(work[w]) \ todo[w] : obd[f] = sample[w]
    /\ \A w \in Writers : pc[w] = "store" => todo[w] \subseteq Head(work[w])
    /\ pc[Out] = "copy" => \A f \in Fields \ todo[Out] : tmp[f] = obd[f]
    /\ pc[Out] = "deliver" => tmp \in [Fields -> 0..MaxSample]

IndInv == TypeOK /\ LockInv /\ WorkInv /\ CopyInv

-----------------------------------------------------------------------------
(* Sequences of sections.                                                   *)

\* The head and the tail of a sequence that is not empty.
LEMMA HeadTail ==
    ASSUME NEW S, NEW s \in Seq(S), s # <<>>
    PROVE  Head(s) \in S /\ Tail(s) \in Seq(S)
  OBVIOUS

\* A sequence over a set is one over any larger set.
LEMMA SeqSubset ==
    ASSUME NEW S, NEW T, S \subseteq T, NEW s \in Seq(S)
    PROVE  s \in Seq(T)
  OBVIOUS

\* Sections are sets of fields.
LEMMA SectionFields == Sections \subseteq SUBSET Fields
  <1>1. SUFFICES ASSUME NEW w \in Writers, NEW l \in Layouts[w],
                        NEW i \in DOMAIN l
                 PROVE  l[i] \in SUBSET Fields
    BY DEF Sections, SectionsOf
  <1>2. l \in Seq(SUBSET Fields)
    BY StoreAssumption
  <1> QED
    BY <1>2

\* The layouts of a writer are not empty and made of its sections.
LEMMA LayoutSections ==
    ASSUME NEW w \in Writers, NEW l \in Layouts[w]
    PROVE  l \in Seq(Sections) /\ l # <<>>
  <1>1. l \in Seq(SUBSET Fields) /\ l # <<>>
    BY StoreAssumption
  <1>2. \A i \in DOMAIN l : l[i] \in Sections
    BY DEF Sections, SectionsOf
  <1>3. DOMAIN l = 1..Len(l) /\ Len(l) \in Nat /\ l = [i \in 1..Len(l) |-> l[i]]
    BY <1>1
  <1>4. l \in Seq(Sections)
    BY <1>2, <1>3
  <1> QED
    BY <1>1, <1>4

-----------------------------------------------------------------------------
(* The invariant is inductive.                                              *)

\* It holds at the start.
LEMMA InitInv == Init => IndInv
  <1> SUFFICES ASSUME Init PROVE IndInv
    OBVIOUS
  <1> USE StoreAssumption
  <1>1. TypeOK
    <2>1. \A w \in Writers : work[w] = <<>>
      BY DEF Init
    <2>2. work \in [Writers -> Seq(SUBSET Fields)] /\ WorkInv
      BY DEF Init, WorkInv
    <2> QED
      BY <2>2 DEF Init, TypeOK, Threads
  <1>2. LockInv
    BY DEF Init, LockInv, Threads
  <1>3. WorkInv
    BY DEF Init, WorkInv
  <1>4. CopyInv
    BY DEF Init, CopyInv, Threads
  <1> QED
    BY <1>1, <1>2, <1>3, <1>4 DEF IndInv

\* A writer whose sample still has sections to store moves on.
LEMMA AdvanceInv ==
    ASSUME IndInv, NEW w \in Writers, pc[w] # "idle", Advance(w)
    PROVE  /\ WorkInv' /\ work' \in [Writers -> Seq(SUBSET Fields)]
           /\ pc' \in [Threads ->
                 {"idle", "lock", "store", "top", "copy", "deliver"}]
           /\ pc'[w] \in {"idle", "lock"}
           /\ pc'[w] # "idle" => work'[w] # <<>>
           /\ \A t \in Threads \ {w} : pc'[t] = pc[t]
           /\ \A v \in Writers \ {w} : work'[v] = work[v]
  <1>1. work[w] \in Seq(Sections) /\ work[w] # <<>>
    BY DEF IndInv, WorkInv, LockInv
  <1>2. Tail(work[w]) \in Seq(Sections)
    BY <1>1, HeadTail
  <1>3. WorkInv'
    BY <1>2 DEF IndInv, WorkInv, Advance
  <1>4. \A v \in Writers : work'[v] \in Seq(SUBSET Fields)
    BY <1>3, SeqSubset, SectionFields DEF WorkInv
  <1>5. work' \in [Writers -> Seq(SUBSET Fields)]
    BY <1>3, <1>4 DEF WorkInv
  <1>6. w \in Threads
    BY DEF Threads
  <1> QED
    BY <1>3, <1>5, <1>6 DEF IndInv, TypeOK, WorkInv, Advance, Goto

\* It is kept by every step of a writer.
LEMMA WriteInv ==
    ASSUME IndInv, NEW w \in Writers, Write(w)
    PROVE  IndInv'
  <1> USE StoreAssumption
  <1> w \in Threads /\ w # Out /\ Out \in Threads /\ Writers \subseteq Threads
    BY DEF Threads
  <1>1. CASE NewSample(w)
    <2>1. PICK l \in Layouts[w] : work' = [work EXCEPT ![w] = l]
      BY <1>1 DEF NewSample
    <2>2. l \in Seq(Sections) /\ l # <<>>
      BY LayoutSections
    <2>3. l \in Seq(SUBSET Fields)
      BY <2>2, SeqSubset, SectionFields
    <2>4. TypeOK'
      BY <1>1, <2>1, <2>3 DEF IndInv, TypeOK, NewSample, Goto
    <2>5. WorkInv'
      BY <2>1, <2>2 DEF IndInv, WorkInv
    <2>6. LockInv'
      BY <1>1, <2>1, <2>2 DEF IndInv, TypeOK, LockInv, NewSample, Goto
    <2>7. CopyInv'
      BY <1>1, <2>1 DEF IndInv, TypeOK, LockInv, CopyInv, NewSample, Goto
    <2> QED
      BY <2>4, <2>5, <2>6, <2>7 DEF IndInv
  <1>2. CASE Skip(w)
    <2>1. pc[w] = "lock" /\ Advance(w)
      BY <1>2 DEF Skip
    <2>2. TypeOK'
      BY <1>2, <2>1, AdvanceInv DEF IndInv, TypeOK, Skip
    <2>3. LockInv'
      BY <1>2, <2>1, AdvanceInv DEF IndInv, LockInv, Skip
    <2>5. /\ pc'[Out] = pc[Out]
          /\ \A v \in Writers : pc'[v] = "store" =>
               pc[v] = "store" /\ work'[v] = work[v]
      BY <2>1, AdvanceInv
    <2>4. CopyInv'
      BY <1>2, <2>5 DEF IndInv, CopyInv, Skip
    <2> QED
      BY <2>1, <2>2, <2>3, <2>4, AdvanceInv DEF IndInv
  <1>3. CASE Lock(w)
    <2>1. Head(work[w]) \in SUBSET Fields
      BY <1>3, HeadTail, SectionFields DEF IndInv, WorkInv, LockInv, Lock
    <2>2. TypeOK'
      BY <1>3, <2>1 DEF IndInv, TypeOK, Lock, Acquire, Goto
    <2>3. LockInv'
      BY <1>3 DEF IndInv, TypeOK, LockInv, Lock, Acquire, Goto
    <2>4. CopyInv'
      BY <1>3 DEF IndInv, TypeOK, LockInv, CopyInv, Lock, Acquire, Goto
    <2>5. WorkInv'
      BY <1>3 DEF IndInv, WorkInv, Lock
    <2> QED
      BY <2>2, <2>3, <2>4, <2>5 DEF IndInv
  <1>4. CASE Store(w)
    <2>1. PICK f \in todo[w] : /\ obd' = [obd EXCEPT ![f] = sample[w]]
                               /\ todo' = [todo EXCEPT ![w] = @ \ {f}]
      BY <1>4 DEF Store
    <2>2. f \in Fields
      BY DEF IndInv, TypeOK
    <2>3. TypeOK'
      BY <1>4, <2>1, <2>2 DEF IndInv, TypeOK, Store
    <2>4. LockInv'
      BY <1>4 DEF IndInv, LockInv, Store
    <2>5. CopyInv'
      BY <1>4, <2>1, <2>2 DEF IndInv, TypeOK, LockInv, CopyInv, Store
    <2>6. WorkInv'
      BY <1>4 DEF IndInv, WorkInv, Store
    <2> QED
      BY <2>3, <2>4, <2>5, <2>6 DEF IndInv
  <1>5. CASE Unlock(w)
    <2>1. pc[w] = "store" /\ Advance(w)
      BY <1>5 DEF Unlock
    <2>2. TypeOK'
      BY <1>5, <2>1, AdvanceInv DEF IndInv, TypeOK, Unlock
    <2>3. LockInv'
      BY <1>5, <2>1, AdvanceInv DEF IndInv, LockInv, Unlock, Threads
    <2>5. /\ pc'[Out] = pc[Out]
          /\ \A v \in Writers : pc'[v] = "store" =>
               pc[v] = "store" /\ work'[v] = work[v]
      BY <2>1, AdvanceInv
    <2>4. CopyInv'
      BY <1>5, <2>5 DEF IndInv, CopyInv, Unlock
    <2> QED
      BY <2>1, <2>2, <2>3, <2>4, AdvanceInv DEF IndInv
  <1> QED
    BY <1>1, <1>2, <1>3, <1>4, <1>5 DEF Write

\* It is kept by every step of the output thread.
LEMMA OutputInv == IndInv /\ Output => IndInv'
  <1> SUFFICES ASSUME IndInv, Output PROVE IndInv'
    OBVIOUS
  <1> USE StoreAssumption
  <1> Out \in Threads /\ Writers \subseteq Threads /\ Out \notin Writers
    BY DEF Threads
  <1>1. CASE RaceCopy
    <2>1. TypeOK' /\ WorkInv'
      BY <1>1 DEF IndInv, TypeOK, WorkInv, RaceCopy, Goto
    <2>2. LockInv' /\ CopyInv'
      BY <1>1 DEF IndInv, TypeOK, LockInv, CopyInv, RaceCopy, Goto
    <2> QED
      BY <2>1, <2>2 DEF IndInv
  <1>2. CASE OutLock
    <2>1. TypeOK' /\ WorkInv'
      BY <1>2 DEF IndInv, TypeOK, WorkInv, OutLock, Acquire, Copied, Goto
    <2>2. LockInv' /\ CopyInv'
      BY <1>2 DEF IndInv, TypeOK, LockInv, CopyInv, OutLock, Acquire, Copied, Goto
    <2> QED
      BY <2>1, <2>2 DEF IndInv
  <1>3. CASE Copy
    <2>1. PICK f \in todo[Out] : /\ tmp' = [tmp EXCEPT ![f] = obd[f]]
                                 /\ todo' = [todo EXCEPT ![Out] = @ \ {f}]
      BY <1>3 DEF Copy
    <2>2. f \in Fields
      BY DEF IndInv, TypeOK
    <2>3. TypeOK' /\ WorkInv'
      BY <1>3, <2>1, <2>2 DEF IndInv, TypeOK, WorkInv, Copy
    <2>4. LockInv'
      BY <1>3 DEF IndInv, LockInv, Copy
    <2>5. CopyInv'
      BY <1>3, <2>1, <2>2 DEF IndInv, TypeOK, CopyInv, Copy
    <2> QED
      BY <2>3, <2>4, <2>5 DEF IndInv
  <1>4. CASE OutUnlock
    <2>1. TypeOK' /\ WorkInv'
      BY <1>4 DEF IndInv, TypeOK, WorkInv, OutUnlock, Goto
    <2>2. LockInv'
      BY <1>4 DEF IndInv, TypeOK, LockInv, OutUnlock, Goto, Threads
    <2>3. \A f \in Fields : tmp[f] = obd[f]
      BY <1>4 DEF IndInv, CopyInv, OutUnlock
    <2>4. tmp \in [Fields -> 0..MaxSample]
      BY <2>3 DEF IndInv, TypeOK
    <2>5. CopyInv'
      BY <1>4, <2>4 DEF IndInv, TypeOK, CopyInv, OutUnlock, Goto
    <2> QED
      BY <2>1, <2>2, <2>5 DEF IndInv
  <1>5. CASE Deliver
    <2>1. tmp \in [Fields -> 0..MaxSample]
      BY <1>5 DEF IndInv, CopyInv, Deliver
    <2>2. TypeOK' /\ WorkInv'
      BY <1>5, <2>1 DEF IndInv, TypeOK, WorkInv, Deliver, Goto
    <2>3. LockInv' /\ CopyInv'
      BY <1>5 DEF IndInv, TypeOK, LockInv, CopyInv, Deliver, Goto
    <2> QED
      BY <2>2, <2>3 DEF IndInv
  <1> QED
    BY <1>1, <1>2, <1>3, <1>4, <1>5 DEF Output

-----------------------------------------------------------------------------
(* The record is atomic.                                                    *)

\* The invariant holds throughout.
LEMMA Invariance == Spec => []IndInv
  <1>1. ASSUME IndInv, [Next]_vars PROVE IndInv'
    <2>1. CASE Output
      BY <1>1, <2>1, OutputInv
    <2>2. CASE \E w \in Writers : Write(w)
      BY <1>1, <2>2, WriteInv
    <2>3. CASE UNCHANGED vars
      BY <1>1, <2>3 DEF vars, IndInv, TypeOK, LockInv, WorkInv, CopyInv
    <2> QED
      BY <1>1, <2>1, <2>2, <2>3 DEF Next
  <1> QED
    BY <1>1, InitInv, PTL DEF Spec

\* Types are correct: what output_telemetry copies without the lock never
\* reaches a plugin.
THEOREM StoreTypeCorrect == Spec => []TypeOK
  <1>1. IndInv => TypeOK
    BY DEF IndInv
  <1> QED
    BY <1>1, Invariance, PTL

\* A field of the abstract record: the new sample if a writer is storing it,
\* else what obd_data holds.
LEMMA AbstractField ==
    ASSUME IndInv, NEW f \in Fields
    PROVE  /\ \A w \in Writers : lock = w /\ f \in Head(work[w])
                  => AbstractStore[f] = sample[w]
           /\ (\A w \in Writers : lock = w => f \notin Head(work[w]))
                  => AbstractStore[f] = obd[f]
  BY DEF AbstractStore

\* When no writer is in its critical section, the abstract record is obd_data.
LEMMA AbstractQuiet ==
    ASSUME IndInv, lock \notin Writers
    PROVE  AbstractStore = obd
  BY DEF AbstractStore, IndInv, TypeOK

\* The abstract snapshot of a state.
Snap == IF pc[Out] = "deliver" THEN tmp ELSE delivered

\* A step of the output thread keeps the abstract record: no writer holds the
\* lock before and after it, or the same one does.
LEMMA OutputKeeps ==
    ASSUME IndInv, Output
    PROVE  AbstractStore' = AbstractStore
  <1> USE StoreAssumption
  <1>1. CASE lock \in Writers
    <2>1. lock' = lock
      BY <1>1 DEF Output, RaceCopy, OutLock, Acquire, Copy, OutUnlock, Deliver,
                  IndInv, LockInv, Threads
    <2> QED
      BY <2>1 DEF AbstractStore, Output, RaceCopy, OutLock, Copy, OutUnlock,
                  Deliver
  <1>2. CASE lock \notin Writers
    <2>1. lock' \notin Writers /\ obd' = obd
      BY <1>2 DEF Output, RaceCopy, OutLock, Acquire, Copy, OutUnlock, Deliver,
                  Threads
    <2>2. IndInv'
      BY OutputInv
    <2>3. AbstractStore' = obd'
      BY <2>1, <2>2 DEF AbstractStore, IndInv, TypeOK
    <2> QED
      BY <1>2, <2>1, <2>3, AbstractQuiet
  <1> QED
    BY <1>1, <1>2

\* Every step of the output thread maps to Look, to Deliver or to a stutter.
LEMMA OutputStep ==
    ASSUME IndInv, Output
    PROVE  Atomic!Look \/ Atomic!Deliver \/ UNCHANGED Atomic!vars
  <1> USE StoreAssumption
  <1> Out \in Threads
    BY DEF Threads
  <1>1. AbstractStore' = AbstractStore
    BY OutputKeeps
  <1>2. pc \in [Threads -> {"idle", "lock", "store", "top", "copy", "deliver"}]
    BY DEF IndInv, TypeOK
  <1>3. CASE RaceCopy \/ OutLock \/ Copy
    <2>1. Snap' = Snap /\ delivered' = delivered
      BY <1>2, <1>3 DEF RaceCopy, OutLock, Copy, Goto, Snap
    <2> QED
      BY <1>1, <2>1 DEF Atomic!vars, Snap
  <1>4. CASE OutUnlock
    <2>1. lock = Out /\ lock \notin Writers
      BY <1>4 DEF IndInv, LockInv, OutUnlock
    <2>2. \A f \in Fields : tmp[f] = obd[f]
      BY <1>4 DEF IndInv, CopyInv, OutUnlock
    <2>3. tmp = AbstractStore
      BY <2>1, <2>2, AbstractQuiet DEF IndInv, TypeOK
    <2>4. Snap' = AbstractStore /\ delivered' = delivered
      BY <1>2, <1>4, <2>3 DEF OutUnlock, Goto, Snap
    <2> QED
      BY <1>1, <2>4 DEF Atomic!Look, Snap
  <1>5. CASE Deliver
    <2>1. Snap = tmp /\ delivered' = tmp /\ Snap' = delivered'
      BY <1>2, <1>5 DEF Deliver, Goto, Snap
    <2> QED
      BY <1>1, <2>1 DEF Atomic!Deliver, Snap
  <1> QED
    BY <1>3, <1>4, <1>5 DEF Output

\* Every step of a writer maps to a Put or to a stutter.
LEMMA WriteStep ==
    ASSUME IndInv, NEW w \in Writers, Write(w)
    PROVE  (\E S \in Sections, n \in 0..MaxSample : Atomic!Put(S, n))
           \/ UNCHANGED Atomic!vars
  <1> USE StoreAssumption
  <1> w \in Threads /\ w # Out /\ Out \in Threads
    BY DEF Threads
  <1>1. pc \in [Threads -> {"idle", "lock", "store", "top", "copy", "deliver"}]
    BY DEF IndInv, TypeOK
  <1>2. Snap' = Snap /\ delivered' = delivered
    <2>1. pc'[Out] = pc[Out]
      BY <1>1 DEF Write, NewSample, Skip, Lock, Store, Unlock, Advance, Goto
    <2>2. tmp' = tmp /\ delivered' = delivered
      BY DEF Write, NewSample, Skip, Lock, Store, Unlock
    <2> QED
      BY <2>1, <2>2 DEF Snap
  <1>3. IndInv'
    BY WriteInv
  <1>4. CASE NewSample(w) \/ Skip(w)
    <2>1. lock # w /\ lock' = lock /\ obd' = obd
      BY <1>4 DEF NewSample, Skip, IndInv, LockInv
    <2>2. \A v \in Writers \ {w} : work'[v] = work[v] /\ sample'[v] = sample[v]
      BY <1>4 DEF NewSample, Skip, Advance, IndInv, TypeOK
    <2>3. AbstractStore' = AbstractStore
      BY <2>1, <2>2 DEF AbstractStore
    <2> QED
      BY <1>2, <2>3 DEF Atomic!vars, Snap
  <1>5. CASE Lock(w)
    <2>1. lock \notin Writers /\ lock' = w /\ UNCHANGED <<obd, work, sample>>
      BY <1>5 DEF Lock, Acquire, Threads
    <2>2. Head(work[w]) \in Sections /\ sample[w] \in 0..MaxSample
      BY <1>5, HeadTail DEF Lock, IndInv, WorkInv, LockInv, TypeOK
    <2>3. AbstractStore = obd
      BY <2>1, AbstractQuiet
    <2>4. AbstractStore' = [f \in Fields |-> IF f \in Head(work[w])
                                THEN sample[w] ELSE AbstractStore[f]]
      BY <2>1, <2>3 DEF AbstractStore
    <2>5. Atomic!Put(Head(work[w]), sample[w])
      BY <1>2, <2>4 DEF Atomic!Put, Snap
    <2> QED
      BY <2>2, <2>5
  <1>6. CASE Store(w)
    <2>1. lock = w /\ lock' = w /\ UNCHANGED <<work, sample>>
      BY <1>6 DEF Store, IndInv, LockInv
    <2>2. \A f \in Fields \ Head(work[w]) : obd'[f] = obd[f]
      BY <1>6 DEF Store, IndInv, TypeOK, CopyInv
    <2>3. AbstractStore' = AbstractStore
      BY <2>1, <2>2 DEF AbstractStore
    <2> QED
      BY <1>2, <2>3 DEF Atomic!vars, Snap
  <1>7. CASE Unlock(w)
    <2>1. lock = w /\ lock' \notin Writers /\ obd' = obd
      BY <1>7 DEF Unlock, IndInv, LockInv, Threads
    <2>2. \A f \in Head(work[w]) : obd[f] = sample[w]
      BY <1>7 DEF Unlock, IndInv, CopyInv
    <2>3. AbstractStore = obd
      BY <2>1, <2>2 DEF AbstractStore, IndInv, TypeOK
    <2>4. AbstractStore' = obd'
      BY <1>3, <2>1 DEF AbstractStore, IndInv, TypeOK
    <2> QED
      BY <1>2, <2>1, <2>3, <2>4 DEF Atomic!vars, Snap
  <1> QED
    BY <1>4, <1>5, <1>6, <1>7 DEF Write

\* The threads around obd_data implement a record that is stored and copied in
\* single steps.
THEOREM ImplementsAtomicStore == Spec => AtomicSpec
  <1> USE StoreAssumption
  <1>1. Init => Atomic!Init
    <2> SUFFICES ASSUME Init PROVE Atomic!Init
      OBVIOUS
    <2>1. lock \notin Writers /\ pc[Out] = "top" /\ obd = [f \in Fields |-> 0]
      BY DEF Init, Threads
    <2>2. AbstractStore = [f \in Fields |-> 0]
      BY <2>1 DEF AbstractStore
    <2> QED
      BY <2>1, <2>2 DEF Atomic!Init, Init
  <1>2. IndInv /\ [Next]_vars => [Atomic!Next]_(Atomic!vars)
    <2> SUFFICES ASSUME IndInv, [Next]_vars
                 PROVE  Atomic!Next \/ UNCHANGED Atomic!vars
      OBVIOUS
    <2>1. CASE Output
      BY <2>1, OutputStep DEF Atomic!Next
    <2>2. CASE \E w \in Writers : Write(w)
      BY <2>2, WriteStep DEF Atomic!Next
    <2>3. CASE UNCHANGED vars
      <3>1. AbstractStore' = AbstractStore
        BY <2>3 DEF vars, AbstractStore
      <3>2. Snap' = Snap /\ delivered' = delivered
        BY <2>3 DEF vars, Snap
      <3> QED
        BY <3>1, <3>2 DEF Atomic!vars, Snap
    <2> QED
      BY <2>1, <2>2, <2>3 DEF Next
  <1> QED
    BY <1>1, <1>2, Invariance, PTL DEF Spec, AtomicSpec, Atomic!Spec

-----------------------------------------------------------------------------
(* What follows from it for the plugins.                                    *)

\* The record, the snapshot and what was delivered are coherent.
AtomicCoherent == Coherent(AbstractStore) /\ Coherent(Snap) /\ Coherent(delivered)

\* What a plugin is handed is coherent.
THEOREM DeliveryCoherent == Spec => []CoherentDelivery
  <1> USE StoreAssumption
  <1>1. Init => AtomicCoherent
    <2> SUFFICES ASSUME Init PROVE AtomicCoherent
      OBVIOUS
    <2>1. lock \notin Writers /\ obd = [f \in Fields |-> 0]
      BY DEF Init, Threads
    <2>2. AbstractStore = [f \in Fields |-> 0]
      BY <2>1 DEF AbstractStore
    <2>3. Snap = [f \in Fields |-> 0] /\ delivered = [f \in Fields |-> 0]
      BY DEF Init, Snap
    <2> QED
      BY <2>2, <2>3, SectionFields DEF AtomicCoherent, Coherent
  <1>2. AtomicCoherent /\ [Atomic!Next]_(Atomic!vars) => AtomicCoherent'
    <2> SUFFICES ASSUME AtomicCoherent, [Atomic!Next]_(Atomic!vars)
                 PROVE  AtomicCoherent'
      OBVIOUS
    <2>1. CASE Atomic!Look
      BY <2>1 DEF Atomic!Look, AtomicCoherent, Coherent, Snap
    <2>2. CASE Atomic!Deliver
      BY <2>2 DEF Atomic!Deliver, AtomicCoherent, Coherent, Snap
    <2>3. ASSUME NEW S \in Sections, NEW n \in 0..MaxSample, Atomic!Put(S, n)
          PROVE  AtomicCoherent'
      <3>1. AbstractStore' = [f \in Fields |-> IF f \in S THEN n
                                                ELSE AbstractStore[f]]
        BY <2>3 DEF Atomic!Put
      <3>2. ASSUME NEW T \in Sections, NEW f \in T, NEW g \in T
            PROVE  AbstractStore'[f] = AbstractStore'[g]
        <4>1. S = T \/ S \cap T = {}
          BY StoreAssumption
        <4>2. AbstractStore[f] = AbstractStore[g] /\ f \in Fields /\ g \in Fields
          BY SectionFields DEF AtomicCoherent, Coherent
        <4> QED
          BY <3>1, <4>1, <4>2
      <3>3. Snap' = Snap /\ delivered' = delivered
        BY <2>3 DEF Atomic!Put, Snap
      <3> QED
        BY <3>2, <3>3 DEF AtomicCoherent, Coherent
    <2>4. CASE UNCHANGED Atomic!vars
      BY <2>4 DEF Atomic!vars, AtomicCoherent, Coherent, Snap
    <2> QED
      BY <2>1, <2>2, <2>3, <2>4 DEF Atomic!Next
  <1>3. Spec => [][Atomic!Next]_(Atomic!vars)
    BY ImplementsAtomicStore, PTL DEF AtomicSpec, Atomic!Spec
  <1>4. AtomicCoherent => CoherentDelivery
    BY DEF AtomicCoherent, CoherentDelivery
  <1> QED
    BY <1>1, <1>2, <1>3, <1>4, PTL DEF Spec
=============================================================================
