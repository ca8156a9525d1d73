------------------------------ MODULE Shutdown ------------------------------
(***************************************************************************)
(* The life of the nerdobd2 process: main starts the httpd child and the    *)
(* threads and then reads the ECU for ever; SIGINT or SIGTERM runs cleanup  *)
(* on top of whatever main was doing.  Threads are seen by the locks they   *)
(* take and the points where a cancellation can end them.  The kernel gives *)
(* a signal sent to the process to its main thread, so that both handlers   *)
(* run on the stack, and with the errno, of main.                           *)
(***************************************************************************)
EXTENDS Naturals

CONSTANT PluginLock     \* a loaded plugin locks its connection (SQLite does)

ASSUME PluginAssumption == PluginLock \in BOOLEAN

Free == "free"
Threads == {"main", "out", "gps", "arduino"}

VARIABLES
    at,             \* per thread: where it is
    handler,        \* where cleanup() is, on the stack of main; "none"
    installed,      \* cleanup is installed for SIGINT and SIGTERM
    cancelled,      \* the threads a cancellation is pending for
    obdLock,        \* the holder of obd_data_lock
    dbLock,         \* the holder of the plugin's connection
    plugins,        \* "none", "loaded" or "closed"
    httpd,          \* the child process; "zombie" until it is waited for
    sigchld,        \* a SIGCHLD is pending
    errno           \* of main: "ECHILD", "EINTR", or "other" for all the rest

child == <<httpd, sigchld, errno>>
vars == <<at, handler, installed, cancelled, obdLock, dbLock, plugins, child>>

Alive == httpd \in {"starting", "serving", "stopping"}

Init ==
    /\ at = [t \in Threads |-> IF t = "main" THEN "fork" ELSE "absent"]
    /\ handler = "none" /\ installed = FALSE
    /\ cancelled = {}
    /\ obdLock = Free /\ dbLock = Free
    /\ plugins = "none" /\ httpd = "none"
    /\ sigchld = FALSE /\ errno = "other"

\* cleanup() ended it, main returned, or a signal or a fault killed it.
Ended == at["main"] \in {"exited", "returned", "killed"}

Goto(t, l) == at' = [at EXCEPT ![t] = l]

\* A step of thread t from l to m; main does not run under its handler.
Step(t, l, m) ==
    /\ ~Ended
    /\ t = "main" => handler = "none"
    /\ at[t] = l /\ Goto(t, m)

LockObd(t, l, m) ==
    /\ Step(t, l, m)
    /\ obdLock = Free /\ obdLock' = t
    /\ UNCHANGED <<handler, installed, cancelled, dbLock, plugins, child>>

UnlockObd_Forgotten(t, l, m) ==
    /\ Step(t, l, m)
    /\ UNCHANGED <<handler, installed, cancelled, obdLock, dbLock, plugins, child>>
UnlockObd(t, l, m) ==
    /\ Step(t, l, m)
    /\ obdLock' = Free
    /\ UNCHANGED <<handler, installed, cancelled, dbLock, plugins, child>>

\* Into and out of a plugin, which may lock its connection.
EnterPlugin(t, l, m) ==
    /\ Step(t, l, m)
    /\ IF PluginLock THEN dbLock = Free /\ dbLock' = t ELSE UNCHANGED dbLock
    /\ UNCHANGED <<handler, installed, cancelled, obdLock, plugins, child>>

LeavePlugin(t, l, m) ==
    /\ Step(t, l, m)
    /\ dbLock' = Free
    /\ UNCHANGED <<handler, installed, cancelled, obdLock, plugins, child>>

\* A step without an effect on what is shared.
Local(t, l, m) ==
    /\ Step(t, l, m)
    /\ UNCHANGED <<handler, installed, cancelled, obdLock, dbLock, plugins, child>>

-----------------------------------------------------------------------------
(* The start of main.                                                       *)

Fork ==
    /\ Step("main", "fork", "load") /\ httpd' = "starting"
    /\ UNCHANGED <<handler, installed, cancelled, obdLock, dbLock, plugins, sigchld, errno>>

\* cleanup(15)
ForkFails ==
    /\ at["main"] = "fork" /\ handler = "none" /\ handler' = "cancel_out"
    /\ UNCHANGED <<at, installed, cancelled, obdLock, dbLock, plugins, child>>

LoadPlugins ==
    /\ Step("main", "load", "start_gps") /\ plugins' = "loaded"
    /\ UNCHANGED <<handler, installed, cancelled, obdLock, dbLock, child>>

\* SIGTERM: the child has no handler for it while it starts, and ends at once.
\* pid_httpd is kept when the child has been reaped: the signal then goes to nobody,
\* or to whoever was given that number.
Terminated ==
    CASE httpd = "starting" -> "zombie"
      [] httpd = "serving"  -> "stopping"
      [] OTHER              -> httpd

\* The child becomes what; its end is signalled.
Becomes(what) ==
    /\ httpd' = what
    /\ sigchld' = (sigchld \/ (Alive /\ what = "zombie"))

\* main returns; before that it sends the child a SIGTERM.
LoadFailure_Silent == httpd
LoadFailure == Terminated
LoadFails ==
    /\ Step("main", "load", "returned") /\ Becomes(LoadFailure)
    /\ UNCHANGED <<handler, installed, cancelled, obdLock, dbLock, plugins, errno>>

\* gps_start and secondary_telemetry_start: main goes on without the thread
\* when it cannot be started.  pthread_create then leaves the GPS thread's
\* identifier undefined; the Arduino's is never looked at.
StartThread(t, l, m) ==
    /\ ~Ended /\ handler = "none" /\ at["main"] = l
    /\ \E s \in {"undefined", "read"} : at' = [at EXCEPT !["main"] = m, ![t] = s]
    /\ UNCHANGED <<handler, installed, cancelled, obdLock, dbLock, plugins, child>>

StartGps == StartThread("gps", "start_gps", "start_arduino")
StartArduino == StartThread("arduino", "start_arduino", "start_out")

StartOut ==
    /\ ~Ended /\ handler = "none" /\ at["main"] = "start_out"
    /\ at' = [at EXCEPT !["main"] = "signals", !["out"] = "want"]
    /\ UNCHANGED <<handler, installed, cancelled, obdLock, dbLock, plugins, child>>

\* pthread_create fails and leaves output_thread undefined: cleanup(15).
StartOutFails ==
    /\ ~Ended /\ handler = "none" /\ at["main"] = "start_out"
    /\ at' = [at EXCEPT !["out"] = "undefined"]
    /\ handler' = "cancel_out"
    /\ UNCHANGED <<installed, cancelled, obdLock, dbLock, plugins, child>>

InstallHandlers ==
    /\ Step("main", "signals", "open") /\ installed' = TRUE
    /\ UNCHANGED <<handler, cancelled, obdLock, dbLock, plugins, child>>

Startup == \/ Fork \/ ForkFails \/ LoadPlugins \/ LoadFails
           \/ StartGps \/ StartArduino \/ StartOut \/ StartOutFails
           \/ InstallHandlers

-----------------------------------------------------------------------------
(* The loop of main: open the port, set the set point, talk to the ECU and  *)
(* store its values; a hard error closes the port and starts over.          *)

MainRelease == UnlockObd("main", "storing", "serial")
MainLeave == LeavePlugin("main", "pointing", "serial")

MainLoop ==
    \/ Local("main", "open", "set_point")
    \/ EnterPlugin("main", "set_point", "pointing")
    \/ MainLeave
    \/ Local("main", "serial", "store")
    \/ Local("main", "serial", "open")
    \/ LockObd("main", "store", "storing")
    \/ MainRelease

-----------------------------------------------------------------------------
(* The other threads.                                                       *)

\* A pending cancellation ends a thread where it sleeps, reads or writes: the
\* output thread also inside a plugin, whose lock it then keeps.
Die(t) ==
    /\ t \in cancelled
    /\ at[t] \in {"read", "sleep", "handling"}
    /\ ~Ended /\ Goto(t, "gone")
    /\ UNCHANGED <<handler, installed, cancelled, obdLock, dbLock, plugins, child>>

OutLock == LockObd("out", "want", "copying")
OutEnter == EnterPlugin("out", "plugin", "handling")
OutRun ==
    \/ UnlockObd("out", "copying", "plugin")
    \/ LeavePlugin("out", "handling", "sleep")
    \/ "out" \notin cancelled /\ Local("out", "sleep", "want")
    \/ Die("out")

\* The GPS and the Arduino thread.
SensorLock(t) == LockObd(t, "want", "storing")
SensorRelease(t) == UnlockObd(t, "storing", "read")
SensorRead(t) == t \notin cancelled /\ Local(t, "read", "want")
Sensor(t) == SensorLock(t) \/ SensorRelease(t) \/ SensorRead(t) \/ Die(t)

-----------------------------------------------------------------------------
(* The httpd child.                                                         *)

Child(from, to) ==
    /\ httpd = from /\ Becomes(to)
    /\ UNCHANGED <<at, handler, installed, cancelled, obdLock, dbLock, plugins, errno>>

ChildServes == Child("starting", "serving")

\* httpd_stop
ChildStops == Child("stopping", "zombie")

\* It ends by itself: a fault, or a signal it has no handler for.
ChildFails == Alive /\ Child(httpd, "zombie")

-----------------------------------------------------------------------------
(* cleanup.                                                                 *)

\* One call of cleanup, from l on to m.
Cleanup(l, m) == ~Ended /\ handler = l /\ handler' = m

Cancel(t) == cancelled' = cancelled \cup {t}

\* if (output_thread) pthread_cancel
CancelOut ==
    /\ IF at["out"] \in {"absent", "undefined"}
         THEN Cleanup("cancel_out", "httpd") /\ UNCHANGED cancelled
         ELSE Cleanup("cancel_out", "join_out") /\ Cancel("out")
    /\ UNCHANGED <<at, installed, obdLock, dbLock, plugins, child>>

\* The undefined identifier happens to name no thread: a fault.
CancelFault ==
    /\ ~Ended
    /\ \/ handler = "cancel_out" /\ at["out"] = "undefined"
       \/ handler = "cancel_gps" /\ at["gps"] = "undefined"
    /\ Goto("main", "killed")
    /\ UNCHANGED <<handler, installed, cancelled, obdLock, dbLock, plugins, child>>

Joined_AtOnce(t) == TRUE
Joined(t) == at[t] = "gone"

JoinOut ==
    /\ Cleanup("join_out", "httpd") /\ Joined("out")
    /\ UNCHANGED <<at, installed, cancelled, obdLock, dbLock, plugins, child>>

TermHttpd ==
    /\ Cleanup("httpd", "plugins") /\ Becomes(Terminated)
    /\ UNCHANGED <<at, installed, cancelled, obdLock, dbLock, plugins, errno>>

\* close_output_plugins waits for the lock of the connection, unless main has
\* it already (it is recursive).
ClosePlugins ==
    /\ Cleanup("plugins", "cancel_gps")
    /\ plugins = "loaded" => dbLock \in {Free, "main"}
    /\ plugins' = IF plugins = "loaded" THEN "closed" ELSE plugins
    /\ UNCHANGED <<at, installed, cancelled, obdLock, dbLock, child>>

\* wait4childs is called; other calls may have failed since errno was set.
CallWait(l) == Cleanup(l, "wait") /\ errno' \in {errno, "other"}

\* kw1281_close, and in gps_stop: if (thread) pthread_cancel
GpsCancelled_Dropped == cancelled
GpsCancelled == cancelled \cup {"gps"}
CancelGps ==
    /\ IF at["gps"] \in {"absent", "undefined"}
         THEN CallWait("cancel_gps") /\ UNCHANGED cancelled
         ELSE /\ Cleanup("cancel_gps", "join_gps") /\ cancelled' = GpsCancelled
              /\ UNCHANGED errno
    /\ UNCHANGED <<at, installed, obdLock, dbLock, plugins, httpd, sigchld>>

JoinGps ==
    /\ CallWait("join_gps") /\ Joined("gps")
    /\ UNCHANGED <<at, installed, cancelled, obdLock, dbLock, plugins, httpd, sigchld>>

-----------------------------------------------------------------------------
(* wait4childs, in which a wait and the test of errno take turns, and the     *)
(* handler sig_chld, which reaps the same child.                            *)

\* A signal is handled while wait() sleeps.  POSIX leaves it open whether signal()
\* has the wait then start over; where it does not, it fails.
Interrupted == handler = "wait" /\ handler' = "test" /\ errno' = "EINTR"

\* wait(NULL) sleeps as long as the child lives.  It sets errno only if it fails.
Wait ==
    /\ Cleanup("wait", "test") /\ ~Alive
    /\ httpd' = IF httpd = "zombie" THEN "gone" ELSE httpd
    /\ errno' = IF httpd = "zombie" THEN errno ELSE "ECHILD"
    /\ UNCHANGED <<at, installed, cancelled, obdLock, dbLock, plugins, sigchld>>

\* while (errno != ECHILD)
WaitedEnough_Once(e) == TRUE
WaitedEnough(e) == e = "ECHILD"

WaitAgain ==
    /\ Cleanup("test", "wait") /\ ~WaitedEnough(errno)
    /\ UNCHANGED <<at, installed, cancelled, obdLock, dbLock, plugins, child>>

\* exit(0)
Exit ==
    /\ Cleanup("test", "none") /\ WaitedEnough(errno)
    /\ Goto("main", "exited")
    /\ UNCHANGED <<installed, cancelled, obdLock, dbLock, plugins, child>>

\* sig_chld, wherever main is: it waits until that fails, for no child is left.
SigChld ==
    /\ ~Ended
    /\ sigchld /\ sigchld' = FALSE
    /\ httpd' = IF httpd = "zombie" THEN "gone" ELSE httpd
    /\ \/ errno' = "ECHILD" /\ UNCHANGED handler
       \/ Interrupted
    /\ UNCHANGED <<at, installed, cancelled, obdLock, dbLock, plugins>>

CleanupStep == \/ CancelOut \/ CancelFault \/ JoinOut \/ TermHttpd \/ ClosePlugins
               \/ CancelGps \/ JoinGps \/ Wait \/ WaitAgain \/ Exit

-----------------------------------------------------------------------------
(* Signals.                                                                 *)

\* SIGINT or SIGTERM, to the process alone or, from a terminal, to the child
\* as well.  While cleanup runs, cleaning_up makes another one return at once.
Signal ==
    /\ ~Ended
    /\ CASE ~installed -> Goto("main", "killed") /\ UNCHANGED <<handler, errno>>
         [] installed /\ handler = "none" ->
                handler' = "cancel_out" /\ UNCHANGED <<at, errno>>
         [] OTHER ->
                /\ UNCHANGED at
                /\ UNCHANGED <<handler, errno>> \/ (Alive /\ Interrupted)
    /\ Becomes(httpd) \/ Becomes(Terminated)
    /\ UNCHANGED <<installed, cancelled, obdLock, dbLock, plugins>>

Run == \/ Startup \/ MainLoop \/ CleanupStep
       \/ OutLock \/ OutEnter \/ OutRun
       \/ Sensor("gps") \/ Sensor("arduino")
       \/ ChildServes \/ ChildStops \/ SigChld

Next == Run \/ Signal \/ ChildFails

Spec == Init /\ [][Next]_vars

\* cleanup and the threads keep running, and main leaves the locks it took.
\* A lock that is free again and again is got: those who take it hold it for a
\* few assignments and then sleep or wait for a device.  Nobody has to send a
\* signal, and nothing has to come from the ECU or the sensors.
FairSpec ==
    /\ Spec
    /\ WF_vars(CleanupStep) /\ WF_vars(MainRelease) /\ WF_vars(MainLeave)
    /\ WF_vars(OutRun) /\ SF_vars(OutLock) /\ SF_vars(OutEnter)
    /\ \A t \in {"gps", "arduino"} :
         /\ SF_vars(SensorLock(t)) /\ WF_vars(SensorRelease(t)) /\ WF_vars(Die(t))
    /\ WF_vars(ChildServes) /\ WF_vars(ChildStops) /\ WF_vars(SigChld)

-----------------------------------------------------------------------------
(* Properties.                                                              *)

\* Where the main thread, the output thread and the sensors' threads can be.
Starting == {"fork", "load", "start_gps", "start_arduino", "start_out", "signals"}
Looping == {"open", "set_point", "pointing", "serial", "store", "storing"}
MainPlaces == Starting \cup Looping \cup {"exited", "returned", "killed"}
OutPlaces == {"absent", "undefined", "want", "copying", "plugin", "handling",
              "sleep", "gone"}
SensorPlaces == {"absent", "undefined", "read", "want", "storing", "gone"}

\* Every variable has its type, and obd_data_lock is held by the thread that is
\* between its lock and its unlock.
TypeOK ==
    /\ at \in [Threads -> MainPlaces \cup OutPlaces \cup SensorPlaces]
    /\ at["main"] \in MainPlaces /\ at["out"] \in OutPlaces
    /\ at["gps"] \in SensorPlaces /\ at["arduino"] \in SensorPlaces
    /\ handler \in {"none", "cancel_out", "join_out", "httpd", "plugins",
                    "cancel_gps", "join_gps", "wait", "test"}
    /\ installed \in BOOLEAN
    /\ cancelled \in SUBSET {"out", "gps"}
    /\ obdLock \in Threads \cup {Free} /\ dbLock \in {"main", "out", Free}
    /\ plugins \in {"none", "loaded", "closed"}
    /\ httpd \in {"none", "starting", "serving", "stopping", "zombie", "gone"}
    /\ sigchld \in BOOLEAN /\ errno \in {"ECHILD", "EINTR", "other"}
    /\ ~Ended => \A t \in Threads :
                    obdLock = t <=> at[t] \in {"storing", "copying"}

\* Once the plugins are closed and unloaded no thread is in one or on its way
\* there: the output thread has ended, and main stays in cleanup.
PluginsQuiet ==
    plugins = "closed" => /\ at["out"] \in {"absent", "undefined", "gone"}
                          /\ handler # "none" \/ Ended

\* cleanup exits only when the child has ended and was reaped: although sig_chld may
\* have taken it away first, errno may be old, and signals interrupt the wait,
\* wait4childs does not stop before - no httpd keeps the port of the next start.
Reaped == at["main"] = "exited" => httpd \in {"none", "gone"}

\* After an orderly end, be it main's own return when no plugin could be
\* loaded, the child ends as well.
HttpdStopped == (at["main"] \in {"exited", "returned"}) ~> ~Alive

\* A signal that finds main outside of its critical sections ends the program.
IdleSignalExits ==
    (handler # "none" /\ "main" \notin {obdLock, dbLock}) ~> Ended

\* A signal ends the program: "add signal handler for cleanup function".
SignalExits == (handler # "none") ~> Ended
=============================================================================
