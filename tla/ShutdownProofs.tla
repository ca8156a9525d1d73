--------------------------- MODULE ShutdownProofs ---------------------------
(***************************************************************************)
(* Proofs about Shutdown, with and without a lock in the plugins: its types *)
(* and its safety properties.                                               *)
(***************************************************************************)
EXTENDS Shutdown, TLAPS

\* The calls of cleanup that come after the output thread was joined.
AfterJoin == {"httpd", "plugins", "cancel_gps", "join_gps", "wait", "test"}

\* From the join on the output thread is gone, and never starts again; the
\* plugins are closed after the join only.
QuietInv ==
    /\ handler \in AfterJoin \/ at["main"] = "exited" =>
         at["out"] \in {"absent", "undefined", "gone"}
    /\ plugins = "closed" =>
         handler \in {"cancel_gps", "join_gps", "wait", "test"} \/ at["main"] = "exited"

\* Threads that have not been started are absent.
StartInv ==
    /\ at["main"] \in {"fork", "load", "start_gps"} => at["gps"] = "absent"
    /\ at["main"] \in {"fork", "load", "start_gps", "start_arduino"} =>
         at["arduino"] = "absent"
    /\ at["main"] \in Starting \ {"signals"} => at["out"] \in {"absent", "undefined"}

\* errno says that there is no child only when there is none, and none will be:
\* it has been reaped, or fork failed.
WaitInv ==
    /\ at["main"] = "fork" => httpd = "none"
    /\ httpd = "none" => at["main"] = "fork" \/ Ended
    /\ sigchld => httpd \in {"zombie", "gone"}
    /\ errno = "ECHILD" => \/ httpd = "gone"
                           \/ httpd = "none" /\ (handler # "none" \/ Ended)

IndInv == TypeOK /\ QuietInv /\ StartInv /\ WaitInv /\ Reaped

\* The invariant holds at the start.
LEMMA InitInv == Init => IndInv
  BY DEF Init, IndInv, TypeOK, QuietInv, StartInv, WaitInv, Reaped, AfterJoin, Threads, Free, Ended,
         MainPlaces, OutPlaces, SensorPlaces, Starting, Looping

\* The steps of the start of main keep the invariant.
LEMMA StartupInv == IndInv /\ Startup => IndInv'
  <1> SUFFICES ASSUME IndInv, Startup PROVE IndInv'
    OBVIOUS
  <1> USE DEF child, Alive, IndInv, TypeOK, QuietInv, StartInv, WaitInv, Reaped, AfterJoin, Threads, Free, Ended,
              MainPlaces, OutPlaces, SensorPlaces, Starting, Looping, Step, Goto
  <1>1. CASE Fork
    BY <1>1 DEF Fork
  <1>2. CASE ForkFails
    BY <1>2 DEF ForkFails
  <1>3. CASE LoadPlugins
    BY <1>3 DEF LoadPlugins
  <1>4. CASE LoadFails
    BY <1>4 DEF LoadFails, LoadFailure, Terminated, Becomes
  <1>5. CASE StartGps
    BY <1>5 DEF StartGps, StartThread
  <1>6. CASE StartArduino
    BY <1>6 DEF StartArduino, StartThread
  <1>7. CASE StartOut
    BY <1>7 DEF StartOut
  <1>8. CASE StartOutFails
    BY <1>8 DEF StartOutFails
  <1>9. CASE InstallHandlers
    BY <1>9 DEF InstallHandlers
  <1> QED
    BY <1>1, <1>2, <1>3, <1>4, <1>5, <1>6, <1>7, <1>8, <1>9 DEF Startup

\* The steps of the loop of main keep the invariant.
LEMMA MainLoopInv == IndInv /\ MainLoop => IndInv'
  <1> SUFFICES ASSUME IndInv, MainLoop PROVE IndInv'
    OBVIOUS
  <1> USE DEF child, Alive, IndInv, TypeOK, QuietInv, StartInv, WaitInv, Reaped, AfterJoin, Threads, Free,
              Ended, MainPlaces, OutPlaces, SensorPlaces, Starting, Looping, Step,
              Goto
  <1>1. CASE Local("main", "open", "set_point")
    BY <1>1 DEF Local
  <1>2. CASE EnterPlugin("main", "set_point", "pointing")
    <2>1. dbLock' \in {"main", "out", Free}
      BY <1>2 DEF EnterPlugin
    <2>2. at' = [at EXCEPT !["main"] = "pointing"] /\ at["main"] = "set_point"
          /\ UNCHANGED <<handler, installed, cancelled, obdLock, plugins, child>>
      BY <1>2 DEF EnterPlugin
    <2> QED
      BY <2>1, <2>2
  <1>3. CASE MainLeave
    BY <1>3 DEF MainLeave, LeavePlugin
  <1>4. CASE Local("main", "serial", "store")
    BY <1>4 DEF Local
  <1>7. CASE Local("main", "serial", "open")
    BY <1>7 DEF Local
  <1>5. CASE LockObd("main", "store", "storing")
    BY <1>5 DEF LockObd
  <1>6. CASE MainRelease
    BY <1>6 DEF MainRelease, UnlockObd
  <1> QED
    BY <1>1, <1>2, <1>3, <1>4, <1>5, <1>6, <1>7 DEF MainLoop

\* A thread that was cancelled ends holding no obd_data_lock.
LEMMA DieInv ==
    ASSUME IndInv, NEW t \in Threads, Die(t)
    PROVE  IndInv'
  <1> USE DEF child, Alive, IndInv, TypeOK, QuietInv, StartInv, WaitInv, Reaped, AfterJoin, Threads, Free,
              Ended, MainPlaces, OutPlaces, SensorPlaces, Starting, Looping, Step,
              Goto
  <1>1. CASE t = "out"
    BY <1>1 DEF Die
  <1>2. CASE t = "gps"
    BY <1>2 DEF Die
  <1> QED
    BY <1>1, <1>2 DEF Die

\* The steps of the output thread keep the invariant.
LEMMA OutInv == IndInv /\ (OutLock \/ OutEnter \/ OutRun) => IndInv'
  <1> SUFFICES ASSUME IndInv, OutLock \/ OutEnter \/ OutRun PROVE IndInv'
    OBVIOUS
  <1>1. CASE Die("out")
    BY <1>1, DieInv DEF Threads
  <1> USE DEF child, Alive, IndInv, TypeOK, QuietInv, StartInv, WaitInv, Reaped, AfterJoin, Threads, Free,
              Ended, MainPlaces, OutPlaces, SensorPlaces, Starting, Looping, Step,
              Goto
  <1>2. CASE OutLock
    BY <1>2 DEF OutLock, LockObd
  <1>3. CASE OutEnter
    BY <1>3 DEF OutEnter, EnterPlugin
  <1>4. CASE UnlockObd("out", "copying", "plugin")
    BY <1>4 DEF UnlockObd
  <1>5. CASE LeavePlugin("out", "handling", "sleep")
    BY <1>5 DEF LeavePlugin
  <1>6. CASE Local("out", "sleep", "want")
    BY <1>6 DEF Local
  <1> QED
    BY <1>1, <1>2, <1>3, <1>4, <1>5, <1>6 DEF OutRun

\* The steps of the GPS and of the Arduino thread keep the invariant.
LEMMA SensorInv ==
    ASSUME IndInv, NEW t \in {"gps", "arduino"}, Sensor(t)
    PROVE  IndInv'
  <1>1. CASE Die(t)
    BY <1>1, DieInv DEF Threads
  <1> USE DEF child, Alive, IndInv, TypeOK, QuietInv, StartInv, WaitInv, Reaped, AfterJoin, Threads, Free,
              Ended, MainPlaces, OutPlaces, SensorPlaces, Starting, Looping, Step,
              Goto
  <1>2. CASE SensorLock(t)
    <2>1. CASE t = "gps"
      BY <1>2, <2>1 DEF SensorLock, LockObd
    <2>2. CASE t = "arduino"
      BY <1>2, <2>2 DEF SensorLock, LockObd
    <2> QED
      BY <2>1, <2>2
  <1>3. CASE SensorRelease(t)
    <2>1. CASE t = "gps"
      BY <1>3, <2>1 DEF SensorRelease, UnlockObd
    <2>2. CASE t = "arduino"
      BY <1>3, <2>2 DEF SensorRelease, UnlockObd
    <2> QED
      BY <2>1, <2>2
  <1>4. CASE SensorRead(t)
    BY <1>4 DEF SensorRead, Local
  <1> QED
    BY <1>1, <1>2, <1>3, <1>4 DEF Sensor

\* The steps of cleanup keep the invariant.
LEMMA CleanupInv == IndInv /\ CleanupStep => IndInv'
  <1> SUFFICES ASSUME IndInv, CleanupStep PROVE IndInv'
    OBVIOUS
  <1> USE DEF child, Alive, IndInv, TypeOK, QuietInv, StartInv, WaitInv, Reaped, AfterJoin, Threads, Free,
              Ended, MainPlaces, OutPlaces, SensorPlaces, Starting, Looping, Goto,
              Cleanup
  <1>1. CASE CancelOut
    <2>1. cancelled' \in SUBSET {"out", "gps"}
      BY <1>1 DEF CancelOut, Cancel
    <2>2. handler = "cancel_out" /\ ~Ended
      BY <1>1 DEF CancelOut
    <2>3. /\ handler' \in {"httpd", "join_out"}
          /\ handler' = "httpd" => at["out"] \in {"absent", "undefined"}
          /\ UNCHANGED <<at, installed, obdLock, dbLock, plugins, child>>
      BY <1>1 DEF CancelOut
    <2> QED
      BY <2>1, <2>2, <2>3
  <1>2. CASE CancelFault
    BY <1>2 DEF CancelFault
  <1>3. CASE JoinOut
    BY <1>3 DEF JoinOut, Joined
  <1>4. CASE TermHttpd
    BY <1>4 DEF TermHttpd, Terminated, Becomes
  <1>5. CASE ClosePlugins
    BY <1>5 DEF ClosePlugins
  <1>6. CASE CancelGps
    <2>1. cancelled' \in SUBSET {"out", "gps"}
      BY <1>6 DEF CancelGps, GpsCancelled
    <2>2. handler = "cancel_gps" /\ ~Ended
      BY <1>6 DEF CancelGps, CallWait
    <2>3. /\ handler' \in {"wait", "join_gps"}
          /\ errno' \in {errno, "other"}
          /\ UNCHANGED <<at, installed, obdLock, dbLock, plugins, httpd, sigchld>>
      BY <1>6 DEF CancelGps, CallWait
    <2> QED
      BY <2>1, <2>2, <2>3
  <1>7. CASE JoinGps
    BY <1>7 DEF JoinGps, CallWait
  <1>8. CASE Wait
    BY <1>8 DEF Wait
  <1>9. CASE WaitAgain
    BY <1>9 DEF WaitAgain
  <1>10. CASE Exit
    BY <1>10 DEF Exit, WaitedEnough
  <1> QED
    BY <1>1, <1>2, <1>3, <1>4, <1>5, <1>6, <1>7, <1>8, <1>9, <1>10 DEF CleanupStep

\* sig_chld keeps the invariant: errno is ECHILD when it returns, or the wait it
\* interrupted overwrites that.
LEMMA SigChldInv == IndInv /\ SigChld => IndInv'
  <1> SUFFICES ASSUME IndInv, SigChld PROVE IndInv'
    OBVIOUS
  <1>1. /\ UNCHANGED <<at, installed, cancelled, obdLock, dbLock, plugins>>
        /\ httpd' = IF httpd = "zombie" THEN "gone" ELSE httpd
        /\ sigchld /\ sigchld' = FALSE /\ ~Ended
    BY DEF SigChld
  <1>2. \/ errno' = "ECHILD" /\ handler' = handler
        \/ errno' = "EINTR" /\ handler = "wait" /\ handler' = "test"
    BY DEF SigChld, Interrupted
  <1>3. httpd' = "gone"
    BY <1>1 DEF IndInv, WaitInv
  <1>4. TypeOK'
    BY <1>1, <1>2, <1>3 DEF IndInv, TypeOK, Ended
  <1>5. QuietInv' /\ StartInv'
    BY <1>1, <1>2 DEF IndInv, QuietInv, StartInv, AfterJoin
  <1>6. WaitInv' /\ Reaped'
    BY <1>1, <1>3 DEF IndInv, WaitInv, Reaped, Ended
  <1> QED
    BY <1>4, <1>5, <1>6 DEF IndInv

\* What the child does by itself keeps the invariant: it is not reaped by that.
LEMMA ChildInv == IndInv /\ (ChildServes \/ ChildStops \/ ChildFails) => IndInv'
  <1> SUFFICES ASSUME IndInv, ChildServes \/ ChildStops \/ ChildFails PROVE IndInv'
    OBVIOUS
  <1>1. UNCHANGED <<at, handler, installed, cancelled, obdLock, dbLock, plugins, errno>>
    BY DEF ChildServes, ChildStops, ChildFails, Child
  <1>2. Alive /\ (Becomes("serving") \/ Becomes("zombie"))
    BY DEF ChildServes, ChildStops, ChildFails, Child, Alive
  <1>3. /\ httpd \notin {"none", "zombie", "gone"} /\ ~sigchld
        /\ \/ httpd' = "serving" /\ sigchld' = FALSE
           \/ httpd' = "zombie" /\ sigchld' = TRUE
    <2>1. httpd \notin {"none", "zombie", "gone"}
      BY <1>2 DEF Alive
    <2>2. ~sigchld
      BY <2>1 DEF IndInv, WaitInv
    <2>3. CASE Becomes("serving")
      BY <2>1, <2>2, <2>3 DEF Becomes
    <2>4. CASE Becomes("zombie")
      BY <1>2, <2>1, <2>2, <2>4 DEF Becomes
    <2> QED
      BY <1>2, <2>3, <2>4
  <1>4. TypeOK'
    <2>1. httpd' \in {"serving", "zombie"} /\ sigchld' \in BOOLEAN
      BY ONLY <1>3
    <2> QED
      BY ONLY IndInv, <1>1, <2>1 DEF IndInv, TypeOK, Ended
  <1>5. QuietInv' /\ StartInv'
    BY <1>1 DEF IndInv, QuietInv, StartInv
  <1>6. WaitInv' /\ Reaped'
    BY <1>1, <1>3 DEF IndInv, WaitInv, Reaped, Ended
  <1> QED
    BY <1>4, <1>5, <1>6 DEF IndInv

\* A signal starts cleanup, kills the process, or at most interrupts its wait.
LEMMA SignalInv == IndInv /\ Signal => IndInv'
  <1> SUFFICES ASSUME IndInv, Signal PROVE IndInv'
    OBVIOUS
  <1>1. ~Ended /\ UNCHANGED <<installed, cancelled, obdLock, dbLock, plugins>>
    BY DEF Signal
  <1>2. /\ httpd' \in {httpd, "stopping", "zombie"} /\ sigchld' \in BOOLEAN
        /\ httpd = "none" => httpd' = "none"
        /\ httpd = "gone" => httpd' = "gone"
        /\ sigchld' => httpd' \in {"zombie", "gone"}
    BY DEF Signal, Becomes, Terminated, Alive, IndInv, TypeOK, WaitInv
  <1>3. CASE /\ at' = [at EXCEPT !["main"] = "killed"]
             /\ UNCHANGED <<handler, errno>>
    BY <1>1, <1>2, <1>3 DEF IndInv, TypeOK, QuietInv, StartInv, WaitInv, Reaped, Ended,
                            Threads, MainPlaces, Starting
  <1>4. CASE /\ UNCHANGED at
             /\ \/ UNCHANGED <<handler, errno>>
                \/ handler = "none" /\ handler' = "cancel_out" /\ UNCHANGED errno
                \/ handler = "wait" /\ handler' = "test" /\ errno' = "EINTR"
    BY <1>1, <1>2, <1>4 DEF IndInv, TypeOK, QuietInv, StartInv, WaitInv, Reaped, Ended,
                            AfterJoin
  <1> QED
    BY <1>3, <1>4 DEF Signal, Interrupted, Goto

\* The invariant holds throughout.
LEMMA Invariance == Spec => []IndInv
  <1>1. ASSUME IndInv, [Next]_vars PROVE IndInv'
    <2>1. CASE ChildServes \/ ChildStops \/ ChildFails
      BY <1>1, <2>1, ChildInv
    <2>7. CASE SigChld
      BY <1>1, <2>7, SigChldInv
    <2>2. CASE Signal
      BY <1>1, <2>2, SignalInv
    <2>3. CASE UNCHANGED vars
      BY <1>1, <2>3 DEF vars, child, IndInv, TypeOK, QuietInv, StartInv, WaitInv, Reaped, Ended
    <2>4. CASE Startup \/ MainLoop \/ CleanupStep
      BY <1>1, <2>4, StartupInv, MainLoopInv, CleanupInv
    <2>5. CASE OutLock \/ OutEnter \/ OutRun
      BY <1>1, <2>5, OutInv
    <2>6. CASE Sensor("gps") \/ Sensor("arduino")
      BY <1>1, <2>6, SensorInv
    <2> QED
      BY <1>1, <2>1, <2>2, <2>3, <2>4, <2>5, <2>6, <2>7 DEF Next, Run
  <1> QED
    BY <1>1, InitInv, PTL DEF Spec

\* Types are correct, and obd_data_lock is held exactly between a lock and its
\* unlock.
THEOREM ShutdownTypeCorrect == Spec => []TypeOK
  <1>1. IndInv => TypeOK
    BY DEF IndInv
  <1> QED
    BY <1>1, Invariance, PTL

\* No thread is in a plugin that has been closed and unloaded.
THEOREM PluginsStayQuiet == Spec => []PluginsQuiet
  <1>1. IndInv => PluginsQuiet
    BY DEF IndInv, QuietInv, AfterJoin, PluginsQuiet, Ended
  <1> QED
    BY <1>1, Invariance, PTL

\* core.c:20-26: the loop ends on an errno that wait() sets only when it fails, that
\* sig_chld overwrites at any moment, and that may be an old one; it never ends
\* before the child has ended and was reaped.
THEOREM ChildReaped == Spec => []Reaped
  <1>1. IndInv => Reaped
    BY DEF IndInv
  <1> QED
    BY <1>1, Invariance, PTL
=============================================================================
