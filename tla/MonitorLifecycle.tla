-------------------------- MODULE MonitorLifecycle --------------------------
(***************************************************************************)
(* The "monitor" process: ApplicationController.run, the threads it starts *)
(* and joins, and the child processes two of those threads read from.      *)
(*                                                                         *)
(*   "auth"      AuthenticationJournalCollector.follow, reads journalctl   *)
(*   "net"       NetworkTcpdumpCollector.follow, reads tcpdump and starts  *)
(*               it again within a budget                                  *)
(*   "detector"  ApplicationController._run_detector                       *)
(*   "worker"    ResponseWorker.run, in automatic response only            *)
(*                                                                         *)
(* The main thread and each component interleave; an action is one access  *)
(* to an Event, one call on a child process, or one health record.         *)
(***************************************************************************)
EXTENDS Naturals, FiniteSets, Sequences

CONSTANTS
    Automatic,      \* response.mode is automatic response
    MaxRestarts,    \* network_sensor.max_restart_attempts
    MaxFaults       \* bound: failing calls, commands and records

Collectors == {"auth", "net"}
Order == IF Automatic THEN <<"auth", "net", "detector", "worker">>
                     ELSE <<"auth", "net", "detector">>
Runners == IF Automatic THEN {"detector", "worker"} ELSE {"detector"}
Components == Collectors \cup Runners

ASSUME LifecycleAssumption ==
    /\ Automatic \in BOOLEAN
    /\ MaxRestarts \in Nat
    /\ MaxFaults \in Nat

VARIABLES
    stopEvent,      \* the controller's stop_event
    main,           \* where the main thread is
    turn,           \* the component, in Order, that it stops or joins
    late,           \* the components whose join has timed out
    signalled,      \* SIGTERM or SIGINT has arrived
    exitStatus,     \* what the process returned, 9 while it has not
    appHealth,      \* health record of the controller
    thread,         \* where each component is
    outcome,        \* whether it ends by an exception
    health,         \* health record of each component
    stopFlag,       \* _stop_event of each collector
    slot,           \* a collector has published its child in _process
    child,          \* the child process of each collector
    starts,         \* children each collector has started
    failures,       \* captures of the network collector that have ended
    faults          \* faults so far

mainVars == <<main, turn, late, exitStatus, appHealth>>
componentVars == <<thread, outcome, health, starts, failures>>
vars == <<stopEvent, mainVars, signalled, componentVars, stopFlag, slot, child, faults>>

MainPhases == {"starting", "watching", "flagging", "terminating", "joining", "reporting",
               "exited", "killed"}
CollectorPhases == {"spawn", "publish", "read", "reap", "judge"}
Phases == {"new", "begin", "loop", "run", "ended", "dead"} \cup CollectorPhases
HealthStates == {"unknown", "healthy", "degraded", "failed", "stopped"}
Children == {"none", "running", "signalled", "done", "broken"}

Alive(t) == thread[t] \notin {"new", "dead"}
Running(c) == child[c] \in {"running", "signalled"}
Up == main \notin {"exited", "killed"}

TypeOK ==
    /\ stopEvent \in BOOLEAN /\ signalled \in BOOLEAN
    /\ main \in MainPhases
    /\ turn \in 1..Len(Order)
    /\ late \subseteq Components
    /\ exitStatus \in {0, 1, 9}
    /\ appHealth \in HealthStates
    /\ thread \in [Components -> Phases]
    /\ outcome \in [Components -> {"ok", "raised", "unrecorded"}]
    /\ health \in [Components -> HealthStates]
    /\ stopFlag \in [Collectors -> BOOLEAN]
    /\ slot \in [Collectors -> BOOLEAN]
    /\ child \in [Collectors -> Children]
    /\ starts \in [Collectors -> Nat]
    /\ failures \in Nat
    /\ faults \in 0..MaxFaults

Init ==
    /\ stopEvent = FALSE /\ signalled = FALSE
    /\ main = "starting" /\ turn = 1 /\ late = {} /\ exitStatus = 9
    /\ appHealth = "unknown"
    /\ thread = [t \in Components |-> "new"]
    /\ outcome = [t \in Components |-> "ok"]
    /\ health = [t \in Components |-> "unknown"]
    /\ stopFlag = [c \in Collectors |-> FALSE]
    /\ slot = [c \in Collectors |-> FALSE]
    /\ child = [c \in Collectors |-> "none"]
    /\ starts = [c \in Collectors |-> 0]
    /\ failures = 0
    /\ faults = 0

Fault == faults < MaxFaults /\ faults' = faults + 1
NoFault == faults' = faults

\* Thread t goes from one phase to the next.
Step(t, from, to) ==
    /\ Up /\ thread[t] = from
    /\ thread' = [thread EXCEPT ![t] = to]
    /\ UNCHANGED <<signalled, mainVars>>

Record(t, state) == health' = [health EXCEPT ![t] = state]
Raise(t) == outcome' = [outcome EXCEPT ![t] = "raised"]

processes == <<stopFlag, slot, child, starts>>

\* A step that does nothing else, or nothing but record the component's health.
Move(t, from, to) ==
    Step(t, from, to) /\ UNCHANGED <<health, outcome, failures, faults, stopEvent, processes>>
Report(t, from, to, state) ==
    /\ Step(t, from, to) /\ Record(t, state)
    /\ UNCHANGED <<outcome, failures, faults, stopEvent, processes>>

(***************************************************************************)
(* The collectors                                                          *)
(***************************************************************************)
\* A collector the configuration disables returns at once, and ends the monitor.
Disabled(c) == Report(c, "begin", "ended", "stopped")

\* follow starts by clearing _stop_event, whoever has set it.
Clear(c) ==
    /\ Step(c, "begin", IF c = "net" THEN "loop" ELSE "spawn")
    /\ stopFlag' = [stopFlag EXCEPT ![c] = FALSE]
    /\ UNCHANGED <<health, outcome, failures, faults, stopEvent, slot, child, starts>>

\* The capture loop and its wait between two captures look at the stop flag.
Capture == ~stopFlag["net"] /\ Move("net", "loop", "spawn")
StopCapturing == stopFlag["net"] /\ Report("net", "loop", "ended", "stopped")

\* _start_process: Popen, then the assignment of _process under the lock.
Spawn(c) ==
    /\ Step(c, "spawn", "publish") /\ Record(c, "healthy")
    /\ child' = [child EXCEPT ![c] = "running"]
    /\ starts' = [starts EXCEPT ![c] = @ + 1]
    /\ UNCHANGED <<outcome, failures, faults, stopEvent, stopFlag, slot>>

Publish(c) ==
    /\ Step(c, "publish", "read")
    /\ slot' = [slot EXCEPT ![c] = TRUE]
    /\ UNCHANGED <<health, outcome, failures, faults, stopEvent, stopFlag, child, starts>>

\* The stop flag is looked at only when a line arrives; a line handled leaves
\* the thread where it is.
SeeLine(c) == stopFlag[c] /\ Move(c, "read", "reap")
LineFails(c) ==
    /\ ~stopFlag[c] /\ Step(c, "read", "reap") /\ Raise(c) /\ Fault
    /\ UNCHANGED <<health, failures, stopEvent, processes>>
SeeEnd(c) == ~Running(c) /\ Move(c, "read", "reap")

\* Mutant of Reap: a child that was not asked to stop is not killed.
Reap_NoKill(c) ==
    /\ Step(c, "reap", "judge")
    /\ \/ ~Running(c) /\ UNCHANGED child
       \/ Running(c) /\ ~stopFlag[c] /\ UNCHANGED child
       \/ Running(c) /\ stopFlag[c] /\ child' = [child EXCEPT ![c] = "done"]
    /\ slot' = [slot EXCEPT ![c] = FALSE]
    /\ UNCHANGED <<health, outcome, failures, faults, stopEvent, stopFlag, starts>>

\* terminate when asked to stop, wait, kill after five seconds, _clear_process.
Reap(c) ==
    /\ Step(c, "reap", "judge")
    /\ \/ ~Running(c) /\ UNCHANGED child
       \/ Running(c) /\ child' = [child EXCEPT ![c] = "broken"]
       \/ Running(c) /\ stopFlag[c] /\ child' = [child EXCEPT ![c] = "done"]
    /\ slot' = [slot EXCEPT ![c] = FALSE]
    /\ UNCHANGED <<health, outcome, failures, faults, stopEvent, stopFlag, starts>>

\* An exception raised while reading leaves follow.
Propagate(c) == outcome[c] = "raised" /\ Move(c, "judge", "ended")

JournalFailed == child["auth"] = "broken" /\ ~stopFlag["auth"]
JudgeJournal ==
    /\ outcome["auth"] = "ok"
    /\ \/ /\ JournalFailed
          /\ Step("auth", "judge", "ended") /\ Record("auth", "failed") /\ Raise("auth")
          /\ UNCHANGED <<failures, faults, stopEvent, processes>>
       \/ ~JournalFailed /\ Report("auth", "judge", "ended", "stopped")

\* Mutant of Exhausted: one restart too many.
Exhausted_OneMore == failures > MaxRestarts

\* The restart budget of the capture, which nothing resets.
Exhausted == failures + 1 > MaxRestarts

CountFailure(from) ==
    /\ failures' = failures + 1
    /\ \/ Exhausted /\ Step("net", from, "ended") /\ Record("net", "failed") /\ Raise("net")
       \/ ~Exhausted /\ Step("net", from, "loop") /\ Record("net", "degraded")
          /\ UNCHANGED outcome
    /\ UNCHANGED <<stopEvent, processes>>

JudgeCapture ==
    /\ outcome["net"] = "ok"
    /\ \/ stopFlag["net"] /\ Report("net", "judge", "ended", "stopped")
       \/ ~stopFlag["net"] /\ CountFailure("judge") /\ NoFault

\* Popen fails.
SpawnFails(c) ==
    /\ Fault
    /\ \/ c = "net" /\ CountFailure("spawn")
       \/ /\ c = "auth" /\ Step(c, "spawn", "ended")
          /\ Record(c, "failed") /\ Raise(c)
          /\ UNCHANGED <<failures, stopEvent, processes>>

\* The health record of a collector cannot be written.
Reporting(c) ==
    \/ thread[c] \in {"begin", "spawn"}
    \/ thread[c] = "loop" /\ stopFlag[c]
    \/ thread[c] = "judge" /\ outcome[c] = "ok"
ReportFails(c) ==
    /\ Reporting(c) /\ Fault /\ Raise(c)
    /\ Step(c, thread[c], "ended")
    /\ UNCHANGED <<health, failures, stopEvent, processes>>

Collect(c) ==
    \/ Disabled(c) \/ Clear(c) \/ Spawn(c) \/ Publish(c)
    \/ SeeEnd(c) \/ Reap(c) \/ Propagate(c)
    \/ c = "auth" /\ JudgeJournal
    \/ c = "net" /\ (Capture \/ StopCapturing \/ JudgeCapture)

CollectorFails(c) == SpawnFails(c) \/ LineFails(c) \/ ReportFails(c)

(***************************************************************************)
(* The detector and the response worker                                    *)
(***************************************************************************)
\* The worker reconciles before its loop looks at stop_event.
Reconcile(t) == t = "worker" /\ Report(t, "begin", "loop", "healthy")

Cycle(t) == ~stopEvent /\ Move(t, "loop", "run")
Work(t) == Report(t, "run", "loop", "healthy")
StopRunning(t) ==
    /\ stopEvent
    /\ \/ t = "detector" /\ Move(t, "loop", "ended")
       \/ t = "worker" /\ Report(t, "loop", "ended", "stopped")

\* The worker records that it has stopped when its loop ends, by an exception too.
WorkFails(t) ==
    /\ Fault /\ Raise(t)
    /\ UNCHANGED <<failures, stopEvent, processes>>
    /\ \/ t = "worker" /\ Step(t, "begin", "ended") /\ UNCHANGED health
       \/ Step(t, "run", "ended")
          /\ IF t = "worker" THEN Record(t, "stopped") ELSE UNCHANGED health

Run(t) == Reconcile(t) \/ Cycle(t) \/ Work(t) \/ StopRunning(t)

\* Mutant of Finish: a component that has recorded its own end is left at that.
Finish_KeepsStopped(t) ==
    /\ Step(t, "ended", "dead")
    /\ stopEvent' = TRUE
    /\ IF outcome[t] = "raised" /\ health[t] # "stopped" THEN Record(t, "failed")
                                                        ELSE UNCHANGED health
    /\ UNCHANGED <<failures, processes, outcome, faults>>

\* _guard_component: an exception is recorded, and stop_event is set anyway.
Finish(t) ==
    /\ Step(t, "ended", "dead")
    /\ stopEvent' = TRUE
    /\ UNCHANGED <<failures, processes>>
    /\ \/ outcome[t] = "ok" /\ UNCHANGED <<health, outcome, faults>>
       \/ outcome[t] = "raised" /\ Record(t, "failed") /\ UNCHANGED <<outcome, faults>>
       \/ outcome[t] = "raised" /\ Fault /\ UNCHANGED health
          /\ outcome' = [outcome EXCEPT ![t] = "unrecorded"]

(***************************************************************************)
(* The main thread                                                         *)
(***************************************************************************)
Main(from, to) ==
    /\ main = from /\ main' = to
    /\ UNCHANGED <<signalled, outcome, health, starts, failures, slot>>

StartThreads ==
    /\ Main("starting", "watching")
    /\ appHealth' = "healthy"
    /\ thread' = [t \in Components |-> IF t = "detector" THEN "loop" ELSE "begin"]
    /\ UNCHANGED <<turn, late, exitStatus, stopEvent, stopFlag, child, faults>>

\* The record of the start cannot be written: no thread is started.
StartFails ==
    /\ Main("starting", "exited") /\ Fault
    /\ exitStatus' = 1
    /\ UNCHANGED <<turn, late, appHealth, thread, stopEvent, stopFlag, child>>

\* Mutant of EndWatch: all(...) for any(...), and the event is not waited on.
EndWatch_All ==
    /\ \A t \in Components : ~Alive(t)
    /\ Main("watching", "flagging")
    /\ stopEvent' = TRUE
    /\ UNCHANGED <<turn, late, exitStatus, appHealth, thread, stopFlag, child, faults>>

\* The wait ends: a signal, or a component that has ended.
EndWatch ==
    /\ stopEvent \/ \E t \in Components : ~Alive(t)
    /\ Main("watching", "flagging")
    /\ stopEvent' = TRUE
    /\ UNCHANGED <<turn, late, exitStatus, appHealth, thread, stopFlag, child, faults>>

\* stop() of a collector: set its event, then terminate the child it has published.
Flag ==
    /\ Main("flagging", "terminating")
    /\ stopFlag' = [stopFlag EXCEPT ![Order[turn]] = TRUE]
    /\ UNCHANGED <<turn, late, exitStatus, appHealth, thread, stopEvent, child, faults>>

\* Mutant of Terminate: stop() only sets its event.
Terminate_FlagOnly ==
    /\ \/ turn = 1 /\ Main("terminating", "flagging") /\ turn' = 2
       \/ turn = 2 /\ Main("terminating", "joining") /\ turn' = 1
    /\ UNCHANGED <<child, late, exitStatus, appHealth, thread, stopEvent, stopFlag, faults>>

Terminate ==
    /\ \/ turn = 1 /\ Main("terminating", "flagging") /\ turn' = 2
       \/ turn = 2 /\ Main("terminating", "joining") /\ turn' = 1
    /\ child' = IF slot[Order[turn]] /\ child[Order[turn]] = "running"
                THEN [child EXCEPT ![Order[turn]] = "signalled"] ELSE child
    /\ UNCHANGED <<late, exitStatus, appHealth, thread, stopEvent, stopFlag, faults>>

\* Where a thread can stay for the ten seconds of a join: waiting for a line
\* of a child nobody has terminated, or in the middle of its work.
Stuck(t) ==
    \/ t \in Collectors /\ thread[t] = "read" /\ child[t] = "running"
    \/ t \in Runners /\ thread[t] \in {"begin", "run"}

\* Mutant of NextJoin: one step past the last thread.
NextJoin_PastEnd ==
    \/ turn <= Len(Order) /\ Main("joining", "joining") /\ turn' = turn + 1
    \/ turn > Len(Order) /\ Main("joining", "reporting") /\ turn' = turn

NextJoin ==
    \/ turn < Len(Order) /\ Main("joining", "joining") /\ turn' = turn + 1
    \/ turn = Len(Order) /\ Main("joining", "reporting") /\ turn' = turn

Join ==
    /\ NextJoin
    /\ \/ ~Alive(Order[turn]) /\ late' = late
       \/ Stuck(Order[turn]) /\ late' = late \cup {Order[turn]}
    /\ UNCHANGED <<exitStatus, appHealth, thread, stopEvent, stopFlag, child, faults>>

\* The last record, and the end of the process: daemon threads end with it.
ReportShutdown ==
    /\ Main("reporting", "exited")
    /\ \/ /\ appHealth' = IF \E t \in Components : Alive(t) THEN "degraded" ELSE "stopped"
          /\ exitStatus' = 0 /\ NoFault
       \/ Fault /\ exitStatus' = 1 /\ UNCHANGED appHealth
    /\ UNCHANGED <<turn, late, thread, stopEvent, stopFlag, child>>

Control ==
    StartThreads \/ EndWatch \/ Flag \/ Terminate \/ Join \/ ReportShutdown

(***************************************************************************)
(* The environment                                                         *)
(***************************************************************************)
Outside == <<componentVars, stopFlag, slot, turn, late, appHealth>>

\* A signal to the process alone, or to its whole group or control group.
Signal ==
    /\ Up /\ ~signalled
    /\ signalled' = TRUE /\ stopEvent' = TRUE
    /\ \/ child' = child
       \/ child' = [c \in Collectors |-> IF Running(c) THEN "signalled" ELSE child[c]]
    /\ UNCHANGED <<Outside, main, exitStatus, faults>>

\* TimeoutStopSec=20: the service manager kills the whole control group.
ManagerKill ==
    /\ signalled /\ main \in {"joining", "reporting"} /\ Cardinality(late) >= 2
    /\ main' = "killed"
    /\ child' = [c \in Collectors |-> IF Running(c) THEN "broken" ELSE child[c]]
    /\ UNCHANGED <<Outside, signalled, stopEvent, exitStatus, faults>>

ChildObeys(c) ==
    /\ child[c] = "signalled"
    /\ child' = [child EXCEPT ![c] = "done"]
    /\ UNCHANGED <<Outside, main, signalled, stopEvent, exitStatus, faults>>

ChildDies(c) ==
    /\ Up /\ child[c] = "running" /\ Fault
    /\ child' \in {[child EXCEPT ![c] = how] : how \in {"done", "broken"}}
    /\ UNCHANGED <<Outside, main, signalled, stopEvent, exitStatus>>

Next ==
    \/ Control \/ StartFails \/ Signal \/ ManagerKill
    \/ \E c \in Collectors :
          Collect(c) \/ SeeLine(c) \/ CollectorFails(c) \/ ChildObeys(c) \/ ChildDies(c)
    \/ \E t \in Runners : Run(t) \/ WorkFails(t)
    \/ \E t \in Components : Finish(t)

Spec == Init /\ [][Next]_vars

\* Threads and terminated children make progress; lines may never arrive.
Fairness ==
    /\ WF_vars(Control)
    /\ \A c \in Collectors : WF_vars(Collect(c) \/ Finish(c)) /\ WF_vars(ChildObeys(c))
    /\ \A t \in Runners : WF_vars(Run(t) \/ Finish(t))

FairSpec == Spec /\ Fairness

(***************************************************************************)
(* Properties                                                              *)
(***************************************************************************)
\* A monitor that records a clean shutdown has no thread that still runs, and
\* has left no journalctl or tcpdump behind, whatever failed on the way.
StoppedMeansClean ==
    appHealth = "stopped" =>
        /\ \A t \in Components : ~Alive(t)
        /\ \A c \in Collectors : ~Running(c)

\* tcpdump is started once and then max_restart_attempts times at the most, and
\* journalctl once; a capture recorded as failed has used its whole budget or
\* ended by an exception.
RestartBudget ==
    /\ starts["auth"] <= 1
    /\ starts["net"] <= MaxRestarts + 1
    /\ failures <= MaxRestarts + 1

\* A component that ended by an exception is shown as failed from then on: no
\* later record of the component or of the shutdown covers it up.
FailureShown ==
    \A t \in Components : thread[t] = "dead" /\ outcome[t] = "raised" => health[t] = "failed"

\* A stop that finds the child published, or the thread not about to start one,
\* gets the thread out of follow, even when no line ever arrives.
Starting == {"begin", "spawn", "publish"}
Heard(c) ==
    main = "terminating" /\ Order[turn] = c /\ stopFlag[c] /\ thread[c] \notin Starting
StopIsHeard ==
    \A c \in Collectors : Heard(c) ~> (thread[c] = "dead" \/ main = "killed")

\* A signal, and the end of any component however it ends, end the process.
EndsTogether ==
    ((\E t \in Components : thread[t] = "dead") \/ signalled) ~> ~Up

\* The invariant that implies the three above, conjunct by conjunct: which
\* threads can own a running child, how many children they have started, and
\* when the controller records that it has stopped.
Owning == {"publish", "read", "reap"}
OwnedChild == \A c \in Collectors : Running(c) => thread[c] \in Owning
Before == {"new", "begin", "loop", "spawn"}
CountedStarts ==
    /\ starts["auth"] <= 1 /\ (thread["auth"] \in Before => starts["auth"] = 0)
    /\ starts["net"] <= failures + 1 /\ (thread["net"] \in Before => starts["net"] <= failures)
    /\ failures <= MaxRestarts + 1
    /\ thread["net"] \notin {"ended", "dead"} => failures <= MaxRestarts
    /\ failures > MaxRestarts => starts["net"] <= MaxRestarts + 1
ShutdownRecord ==
    appHealth = "stopped" => main = "exited" /\ \A t \in Components : ~Alive(t)
NotStarted == main = "starting" => \A t \in Components : thread[t] = "new"
LifecycleInv == OwnedChild /\ CountedStarts /\ ShutdownRecord /\ FailureShown /\ NotStarted

\* What stop() says of itself: it terminates a blocked child, so none is left.
NoChildLeft == main = "exited" => \A c \in Collectors : ~Running(c)

(***************************************************************************)
(* The monitor implements Supervision                                      *)
(***************************************************************************)
Stage ==
    CASE main = "starting" -> "new"
      [] main = "watching" -> "up"
      [] main \in {"flagging", "terminating", "joining", "reporting"} -> "stopping"
      [] OTHER -> "over"

Verdict ==
    CASE main = "killed" -> "killed"
      [] exitStatus = 0 -> appHealth
      [] exitStatus = 1 -> "error"
      [] OTHER -> "none"

AtWork == {t \in Components : Alive(t)}
Reading == {c \in Collectors : Running(c)}
Broken == {t \in Components : outcome[t] = "raised"}
ShownFailed == {t \in Components : thread[t] = "dead" /\ health[t] = "failed"}

Supervised == INSTANCE Supervision WITH
    Budget <- [c \in Collectors |-> IF c = "auth" THEN 1 ELSE MaxRestarts + 1],
    stage <- Stage,
    told <- stopEvent,
    working <- AtWork,
    reading <- Reading,
    started <- starts,
    broken <- Broken,
    failed <- ShownFailed,
    verdict <- Verdict

\* What the steps rely on: threads run between the start and the report, an
\* ended one has set the event, and nothing is shown as failed that has not.
Launched == main = "watching" => \A t \in Components : thread[t] # "new"
EndIsHeard == \A t \in Components : thread[t] = "dead" => stopEvent
NoFalseAlarm == \A t \in Components : health[t] = "failed" => outcome[t] # "ok"
Returned == IF main = "exited" THEN exitStatus \in {0, 1} ELSE exitStatus = 9
SupervisionInv == Launched /\ EndIsHeard /\ NoFalseAlarm /\ Returned

\* Every step of the main thread, the components and their children is a step of
\* the supervision or none: the first end, of any component and at any moment,
\* ends all of them, children are started within their budget and by components
\* at work, no component ends before its child, and the last record tells the truth.
ImplementsSupervision == Supervised!Spec
=============================================================================
