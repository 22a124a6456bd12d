---------------------- MODULE MonitorLifecycleProofs ------------------------
(***************************************************************************)
(* Theorems about MonitorLifecycle, for every restart budget, with and     *)
(* without the response worker, and any number of faults.                  *)
(***************************************************************************)
EXTENDS MonitorLifecycle, TLAPS

(* The operators that only abbreviate assignments. *)
USE DEF mainVars, componentVars, vars, processes, Outside, NoFault, Fault

LEMMA ComponentNames ==
    /\ "auth" \in Collectors /\ "net" \in Collectors /\ "detector" \in Runners
    /\ Collectors \subseteq Components /\ Runners \subseteq Components
    /\ \A t \in Runners : t \notin Collectors
    /\ \A t \in Runners : t \in {"detector", "worker"}
  BY DEF Collectors, Runners, Components

LEMMA OrderOfComponents ==
    /\ Len(Order) \in {3, 4}
    /\ \A i \in 1..Len(Order) : Order[i] \in Components
    /\ Order[1] = "auth" /\ Order[2] = "net"
<1>1. CASE Automatic
  <2>1. Order = <<"auth", "net", "detector", "worker">>
    BY <1>1 DEF Order
  <2> QED BY <1>1, <2>1 DEF Components, Collectors, Runners
<1>2. CASE ~Automatic
  <2>1. Order = <<"auth", "net", "detector">>
    BY <1>2 DEF Order
  <2> QED BY <1>2, <2>1 DEF Components, Collectors, Runners
<1> QED BY <1>1, <1>2

LEMMA PhaseNames ==
    /\ "new" \in Phases /\ "begin" \in Phases /\ "loop" \in Phases /\ "run" \in Phases
    /\ "ended" \in Phases /\ "dead" \in Phases /\ "spawn" \in Phases /\ "publish" \in Phases
    /\ "read" \in Phases /\ "reap" \in Phases /\ "judge" \in Phases
  BY DEF Phases, CollectorPhases

(* A step of thread t leaves the rest of TypeOK to its other assignments. *)
LEMMA StepType ==
    ASSUME TypeOK, NEW t \in Components, NEW from, NEW to \in Phases, Step(t, from, to),
           health' \in [Components -> HealthStates],
           outcome' \in [Components -> {"ok", "raised", "unrecorded"}],
           stopEvent' \in BOOLEAN,
           stopFlag' \in [Collectors -> BOOLEAN],
           slot' \in [Collectors -> BOOLEAN],
           child' \in [Collectors -> Children],
           starts' \in [Collectors -> Nat],
           failures' \in Nat,
           faults' \in 0..MaxFaults
    PROVE  TypeOK'
  BY DEF TypeOK, Step

LEMMA CollectType ==
    ASSUME TypeOK, NEW c \in Collectors, Collect(c) \/ SeeLine(c) \/ CollectorFails(c)
    PROVE  TypeOK'
<1> USE ComponentNames, PhaseNames, StepType, LifecycleAssumption
<1>h. {"healthy", "degraded", "failed", "stopped"} \subseteq HealthStates
  BY DEF HealthStates
<1>1. CASE Disabled(c)       BY <1>1, <1>h DEF TypeOK, Disabled, Report, Record
<1>2. CASE Clear(c)          BY <1>2 DEF TypeOK, Clear
<1>3. CASE Spawn(c)
  <2>1. starts' \in [Collectors -> Nat] /\ child' \in [Collectors -> Children]
    BY <1>3 DEF TypeOK, Spawn, Children
  <2> QED BY <1>3, <1>h, <2>1 DEF TypeOK, Spawn, Record
<1>4. CASE Publish(c)        BY <1>4 DEF TypeOK, Publish
<1>5. CASE SeeEnd(c)         BY <1>5 DEF TypeOK, SeeEnd, Move
<1>6. CASE Reap(c)
  <2>1. slot' \in [Collectors -> BOOLEAN] /\ child' \in [Collectors -> Children]
    BY <1>6 DEF TypeOK, Reap, Children
  <2> QED BY <1>6, <2>1 DEF TypeOK, Reap
<1>7. CASE Propagate(c)      BY <1>7 DEF TypeOK, Propagate, Move
<1>8. CASE JudgeJournal      BY <1>8, <1>h DEF TypeOK, JudgeJournal, Report, Record, Raise
<1>9. CASE Capture           BY <1>9 DEF TypeOK, Capture, Move
<1>10. CASE StopCapturing    BY <1>10, <1>h DEF TypeOK, StopCapturing, Report, Record
<1>11. ASSUME NEW from, CountFailure(from), faults' \in 0..MaxFaults
       PROVE  TypeOK'
  <2>1. failures' \in Nat
    BY <1>11 DEF TypeOK, CountFailure
  <2>2. PICK state \in HealthStates : Record("net", state)
    BY <1>11, <1>h DEF CountFailure
  <2>3. health' \in [Components -> HealthStates]
    BY <2>2 DEF TypeOK, Record
  <2>4. outcome' \in [Components -> {"ok", "raised", "unrecorded"}]
    BY <1>11 DEF TypeOK, CountFailure, Raise
  <2>5. PICK to \in Phases : Step("net", from, to)
    BY <1>11 DEF CountFailure
  <2> QED BY <1>11, <2>1, <2>3, <2>4, <2>5 DEF TypeOK, CountFailure
<1>12. CASE JudgeCapture
  <2>1. CASE Report("net", "judge", "ended", "stopped")
    BY <2>1, <1>h DEF TypeOK, Report, Record
  <2>2. CASE CountFailure("judge") /\ NoFault
    <3>1. faults' \in 0..MaxFaults
      BY <2>2 DEF TypeOK
    <3> QED BY <2>2, <3>1, <1>11
  <2> QED BY <1>12, <2>1, <2>2 DEF JudgeCapture
<1>13. CASE SeeLine(c)       BY <1>13 DEF TypeOK, SeeLine, Move
<1>14. CASE LineFails(c)     BY <1>14 DEF TypeOK, LineFails, Raise
<1>15. CASE SpawnFails(c)
  <2>1. faults' \in 0..MaxFaults
    BY <1>15 DEF TypeOK, SpawnFails
  <2>2. CASE CountFailure("spawn")
    BY <2>1, <2>2, <1>11
  <2>3. CASE ~CountFailure("spawn")
    <3>1. /\ Step(c, "spawn", "ended") /\ Record(c, "failed") /\ Raise(c)
          /\ UNCHANGED <<failures, stopEvent, processes>>
      BY <1>15, <2>3 DEF SpawnFails
    <3>2. health' \in [Components -> HealthStates]
      BY <3>1, <1>h DEF TypeOK, Record
    <3>3. outcome' \in [Components -> {"ok", "raised", "unrecorded"}]
      BY <3>1 DEF TypeOK, Raise
    <3> QED BY <2>1, <3>1, <3>2, <3>3 DEF TypeOK
  <2> QED BY <2>2, <2>3
<1>16. CASE ReportFails(c)   BY <1>16 DEF TypeOK, ReportFails, Raise
<1> QED
  BY <1>1, <1>2, <1>3, <1>4, <1>5, <1>6, <1>7, <1>8, <1>9, <1>10, <1>12, <1>13, <1>14,
     <1>15, <1>16 DEF Collect, CollectorFails

LEMMA RunType ==
    ASSUME TypeOK, NEW t \in Components,
           (t \in Runners /\ (Run(t) \/ WorkFails(t))) \/ Finish(t)
    PROVE  TypeOK'
<1> USE ComponentNames, PhaseNames, StepType, LifecycleAssumption
<1>h. {"healthy", "degraded", "failed", "stopped"} \subseteq HealthStates
  BY DEF HealthStates
<1>1. CASE Reconcile(t)      BY <1>1, <1>h DEF TypeOK, Reconcile, Report, Record
<1>2. CASE Cycle(t)          BY <1>2 DEF TypeOK, Cycle, Move
<1>3. CASE Work(t)           BY <1>3, <1>h DEF TypeOK, Work, Report, Record
<1>4. CASE StopRunning(t)
  <2>1. CASE Move(t, "loop", "ended")
    BY <2>1 DEF TypeOK, Move
  <2>2. CASE Report(t, "loop", "ended", "stopped")
    BY <2>2, <1>h DEF TypeOK, Report, Record
  <2> QED BY <1>4, <2>1, <2>2 DEF StopRunning
<1>5. CASE WorkFails(t)      BY <1>5, <1>h DEF TypeOK, WorkFails, Record, Raise
<1>6. CASE Finish(t)
  <2>1. faults' \in 0..MaxFaults
    BY <1>6 DEF TypeOK, Finish
  <2>2. health' \in [Components -> HealthStates]
    BY <1>6, <1>h DEF TypeOK, Finish, Record
  <2>3. outcome' \in [Components -> {"ok", "raised", "unrecorded"}]
    BY <1>6 DEF TypeOK, Finish
  <2> QED BY <1>6, <2>1, <2>2, <2>3 DEF TypeOK, Finish
<1> QED BY <1>1, <1>2, <1>3, <1>4, <1>5, <1>6 DEF Run

LEMMA MainType ==
    ASSUME TypeOK, Control \/ StartFails \/ Signal \/ ManagerKill
    PROVE  TypeOK'
<1> USE ComponentNames, OrderOfComponents, PhaseNames, LifecycleAssumption
    DEF TypeOK, MainPhases, HealthStates
<1>1. CASE StartThreads      BY <1>1 DEF StartThreads, Main
<1>2. CASE EndWatch          BY <1>2 DEF EndWatch, Main
<1>3. CASE Flag              BY <1>3 DEF Flag, Main
<1>4. CASE Terminate         BY <1>4 DEF Terminate, Main, Children
<1>5. CASE Join              BY <1>5 DEF Join, NextJoin, Main
<1>6. CASE ReportShutdown    BY <1>6 DEF ReportShutdown, Main
<1>7. CASE StartFails        BY <1>7 DEF StartFails, Main
<1>8. CASE Signal            BY <1>8 DEF Signal, Children
<1>9. CASE ManagerKill       BY <1>9 DEF ManagerKill, Children
<1> QED BY <1>1, <1>2, <1>3, <1>4, <1>5, <1>6, <1>7, <1>8, <1>9 DEF Control

LEMMA ChildType ==
    ASSUME TypeOK, NEW c \in Collectors, ChildObeys(c) \/ ChildDies(c)
    PROVE  TypeOK'
<1> USE LifecycleAssumption DEF TypeOK, Children
<1>1. CASE ChildObeys(c)     BY <1>1 DEF ChildObeys
<1>2. CASE ChildDies(c)
  <2>1. PICK how \in {"done", "broken"} : child' = [child EXCEPT ![c] = how]
    BY <1>2 DEF ChildDies
  <2>2. faults' \in 0..MaxFaults
    BY <1>2 DEF ChildDies
  <2> QED BY <1>2, <2>1, <2>2 DEF ChildDies
<1> QED BY <1>1, <1>2

(* Every variable of the monitor keeps the values its code can give it. *)
THEOREM LifecycleTypeCorrect == Spec => []TypeOK
<1>1. Init => TypeOK
  <2> SUFFICES ASSUME Init PROVE TypeOK
    OBVIOUS
  <2>1. stopEvent \in BOOLEAN /\ signalled \in BOOLEAN /\ main \in MainPhases
    BY DEF Init, MainPhases
  <2>2. turn \in 1..Len(Order) /\ faults \in 0..MaxFaults /\ failures \in Nat
    BY OrderOfComponents, LifecycleAssumption DEF Init
  <2>3. /\ late \subseteq Components /\ exitStatus \in {0, 1, 9}
        /\ appHealth \in HealthStates
        /\ thread \in [Components -> Phases] /\ health \in [Components -> HealthStates]
        /\ outcome \in [Components -> {"ok", "raised", "unrecorded"}]
    BY PhaseNames DEF Init, HealthStates
  <2>4. /\ stopFlag \in [Collectors -> BOOLEAN] /\ slot \in [Collectors -> BOOLEAN]
        /\ child \in [Collectors -> Children] /\ starts \in [Collectors -> Nat]
    BY DEF Init, Children
  <2> QED BY <2>1, <2>2, <2>3, <2>4 DEF TypeOK
<1>2. TypeOK /\ [Next]_vars => TypeOK'
  <2> SUFFICES ASSUME TypeOK, [Next]_vars PROVE TypeOK'
    OBVIOUS
  <2>1. CASE UNCHANGED vars  BY <2>1 DEF TypeOK
  <2>2. CASE Next
    BY <2>2, CollectType, RunType, MainType, ChildType, ComponentNames DEF Next
  <2> QED BY <2>1, <2>2
<1> QED BY <1>1, <1>2, PTL DEF Spec

(***************************************************************************)
(* LifecycleInv.  A step of one thread disturbs only that thread's part of *)
(* each conjunct, and no thread steps once the main thread has reported.   *)
(***************************************************************************)
LEMMA StepRecords ==
    ASSUME TypeOK, LifecycleInv, NEW t \in Components, NEW from, NEW to \in Phases,
           Step(t, from, to), from # "new", to # "dead",
           \A u \in Components \ {t} : health'[u] = health[u] /\ outcome'[u] = outcome[u]
    PROVE  ShutdownRecord' /\ FailureShown' /\ NotStarted'
<1>1. ShutdownRecord'
  BY DEF LifecycleInv, ShutdownRecord, Step, Up
<1>2. FailureShown'
  BY DEF LifecycleInv, FailureShown, Step, TypeOK
<1>3. NotStarted'
  BY DEF LifecycleInv, NotStarted, Step
<1> QED BY <1>1, <1>2, <1>3

(* A step of collector c that neither starts nor ends a child. *)
LEMMA StepKeepsInv ==
    ASSUME TypeOK, LifecycleInv, NEW t \in Components, NEW from, NEW to \in Phases,
           Step(t, from, to), from \notin {"new", "ended", "dead"}, to # "dead",
           to \in Before => from \in Before, from \in Owning => to \in Owning,
           \A u \in Components \ {t} : health'[u] = health[u] /\ outcome'[u] = outcome[u],
           UNCHANGED <<child, starts, failures>>
    PROVE  LifecycleInv'
<1> USE ComponentNames, LifecycleAssumption
<1>1. ShutdownRecord' /\ FailureShown' /\ NotStarted'
  BY StepRecords
<1>2. OwnedChild'
  BY DEF LifecycleInv, OwnedChild, Step, Running, TypeOK
<1>3. CountedStarts'
  BY DEF LifecycleInv, CountedStarts, Step, TypeOK
<1> QED BY <1>1, <1>2, <1>3 DEF LifecycleInv

LEMMA CountInv ==
    ASSUME TypeOK, LifecycleInv, NEW from \in {"spawn", "judge"}, CountFailure(from)
    PROVE  LifecycleInv'
<1> USE ComponentNames, PhaseNames, LifecycleAssumption
<1>1. PICK to \in {"ended", "loop"} :
          /\ Step("net", from, to) /\ (Exhausted => to = "ended") /\ (~Exhausted => to = "loop")
  BY DEF CountFailure
<1>2. \A u \in Components \ {"net"} : health'[u] = health[u] /\ outcome'[u] = outcome[u]
  BY DEF CountFailure, Record, Raise, TypeOK
<1>3. ShutdownRecord' /\ FailureShown' /\ NotStarted'
  BY <1>1, <1>2, StepRecords
<1>4. UNCHANGED <<child, starts>> /\ failures' = failures + 1
  BY DEF CountFailure
<1>5. OwnedChild'
  BY <1>1, <1>4 DEF LifecycleInv, OwnedChild, Owning, Step, Running, TypeOK
<1>6. CountedStarts'
  BY <1>1, <1>4 DEF LifecycleInv, CountedStarts, Before, Exhausted, Step, TypeOK
<1> QED BY <1>3, <1>5, <1>6 DEF LifecycleInv

LEMMA CollectInv ==
    ASSUME TypeOK, LifecycleInv, NEW c \in Collectors,
           Collect(c) \/ SeeLine(c) \/ CollectorFails(c)
    PROVE  LifecycleInv'
<1> USE ComponentNames, PhaseNames, LifecycleAssumption
<1>n. Before = {"new", "begin", "loop", "spawn"} /\ Owning = {"publish", "read", "reap"}
  BY DEF Before, Owning
<1>1. CASE Disabled(c)
  BY <1>1, <1>n, StepKeepsInv DEF Disabled, Report, Record, TypeOK
<1>2. CASE Clear(c)
  BY <1>2, <1>n, StepKeepsInv DEF Clear
<1>3. CASE Spawn(c)
  <2>1. \A u \in Components \ {c} : health'[u] = health[u] /\ outcome'[u] = outcome[u]
    BY <1>3 DEF Spawn, Record, TypeOK
  <2>2. Step(c, "spawn", "publish") /\ UNCHANGED failures
    BY <1>3 DEF Spawn
  <2>3. ShutdownRecord' /\ FailureShown' /\ NotStarted'
    BY <2>1, <2>2, StepRecords
  <2>4. OwnedChild'
    BY <1>3, <2>2 DEF LifecycleInv, OwnedChild, Owning, Spawn, Step, Running, TypeOK
  <2>5. /\ starts'[c] = starts[c] + 1
        /\ \A d \in Collectors \ {c} : starts'[d] = starts[d]
        /\ thread'[c] = "publish" /\ thread[c] = "spawn"
        /\ \A d \in Components \ {c} : thread'[d] = thread[d]
    BY <1>3 DEF Spawn, Step, TypeOK
  <2>6. CountedStarts'
    BY <2>2, <2>5, <1>n DEF LifecycleInv, CountedStarts, TypeOK, Collectors
  <2> QED BY <2>3, <2>4, <2>6 DEF LifecycleInv
<1>4. CASE Publish(c)
  BY <1>4, <1>n, StepKeepsInv DEF Publish
<1>5. CASE SeeEnd(c)
  BY <1>5, <1>n, StepKeepsInv DEF SeeEnd, Move
<1>6. CASE Reap(c)
  <2>1. Step(c, "reap", "judge") /\ UNCHANGED <<health, outcome, starts, failures>>
    BY <1>6 DEF Reap
  <2>2. ShutdownRecord' /\ FailureShown' /\ NotStarted'
    BY <2>1, StepRecords
  <2>3. child'[c] \notin {"running", "signalled"}
    BY <1>6 DEF Reap, Running, TypeOK
  <2>4. \A d \in Collectors \ {c} : child'[d] = child[d]
    BY <1>6 DEF Reap, TypeOK
  <2>5. OwnedChild'
    BY <2>1, <2>3, <2>4 DEF LifecycleInv, OwnedChild, Step, Running, TypeOK
  <2>6. CountedStarts'
    BY <2>1, <1>n DEF LifecycleInv, CountedStarts, Step, TypeOK
  <2> QED BY <2>2, <2>5, <2>6 DEF LifecycleInv
<1>7. CASE Propagate(c)
  BY <1>7, <1>n, StepKeepsInv DEF Propagate, Move
<1>8. CASE JudgeJournal
  BY <1>8, <1>n, StepKeepsInv DEF JudgeJournal, Report, Record, Raise, TypeOK
<1>9. CASE Capture
  BY <1>9, <1>n, StepKeepsInv DEF Capture, Move
<1>10. CASE StopCapturing
  BY <1>10, <1>n, StepKeepsInv DEF StopCapturing, Report, Record, TypeOK
<1>11. CASE JudgeCapture
  <2>1. CASE Report("net", "judge", "ended", "stopped")
    BY <2>1, <1>n, StepKeepsInv DEF Report, Record, TypeOK
  <2> QED BY <1>11, <2>1, CountInv DEF JudgeCapture
<1>12. CASE SeeLine(c)
  BY <1>12, <1>n, StepKeepsInv DEF SeeLine, Move
<1>13. CASE LineFails(c)
  BY <1>13, <1>n, StepKeepsInv DEF LineFails, Raise, TypeOK
<1>14. CASE SpawnFails(c)
  <2>1. CASE Step(c, "spawn", "ended") /\ Record(c, "failed") /\ Raise(c)
             /\ UNCHANGED <<failures, stopEvent, processes>>
    BY <2>1, <1>n, StepKeepsInv DEF Record, Raise, TypeOK
  <2> QED BY <1>14, <2>1, CountInv DEF SpawnFails
<1>15. CASE ReportFails(c)
  <2>1. thread[c] \in {"begin", "spawn", "loop", "judge"}
    BY <1>15 DEF ReportFails, Reporting
  <2> QED BY <1>15, <2>1, <1>n, StepKeepsInv DEF ReportFails, Raise, TypeOK
<1> QED
  BY <1>1, <1>2, <1>3, <1>4, <1>5, <1>6, <1>7, <1>8, <1>9, <1>10, <1>11, <1>12, <1>13,
     <1>14, <1>15 DEF Collect, CollectorFails

LEMMA RunInv ==
    ASSUME TypeOK, LifecycleInv, NEW t \in Runners, Run(t) \/ WorkFails(t)
    PROVE  LifecycleInv'
<1> USE ComponentNames, PhaseNames, LifecycleAssumption
<1>n. Before = {"new", "begin", "loop", "spawn"} /\ Owning = {"publish", "read", "reap"}
  BY DEF Before, Owning
<1>1. ASSUME NEW from \in {"begin", "loop", "run"}, NEW to \in {"loop", "run", "ended"},
             Step(t, from, to), UNCHANGED <<child, starts, failures>>,
             \A u \in Components \ {t} : health'[u] = health[u] /\ outcome'[u] = outcome[u]
      PROVE  LifecycleInv'
  <2>1. ShutdownRecord' /\ FailureShown' /\ NotStarted'
    BY <1>1, StepRecords
  <2>2. OwnedChild' /\ CountedStarts'
    BY <1>1 DEF LifecycleInv, OwnedChild, CountedStarts, Step, Running, TypeOK
  <2> QED BY <2>1, <2>2 DEF LifecycleInv
<1>2. CASE Reconcile(t)      BY <1>2, <1>1 DEF Reconcile, Report, Record, TypeOK
<1>3. CASE Cycle(t)          BY <1>3, <1>1 DEF Cycle, Move
<1>4. CASE Work(t)           BY <1>4, <1>1 DEF Work, Report, Record, TypeOK
<1>5. CASE StopRunning(t)    BY <1>5, <1>1 DEF StopRunning, Move, Report, Record, TypeOK
<1>6. CASE WorkFails(t)      BY <1>6, <1>1 DEF WorkFails, Record, Raise, TypeOK
<1> QED BY <1>2, <1>3, <1>4, <1>5, <1>6 DEF Run

LEMMA FinishInv ==
    ASSUME TypeOK, LifecycleInv, NEW t \in Components, Finish(t)
    PROVE  LifecycleInv'
<1> USE ComponentNames, PhaseNames, LifecycleAssumption
<1>1. Step(t, "ended", "dead") /\ UNCHANGED <<child, starts, failures>>
  BY DEF Finish
<1>2. /\ \A u \in Components \ {t} : health'[u] = health[u] /\ outcome'[u] = outcome[u]
      /\ outcome'[t] = "raised" => health'[t] = "failed"
  BY DEF Finish, Record, TypeOK
<1>3. ShutdownRecord' /\ NotStarted'
  BY <1>1 DEF LifecycleInv, ShutdownRecord, NotStarted, Step, Up
<1>4. FailureShown'
  BY <1>1, <1>2 DEF LifecycleInv, FailureShown, Step, TypeOK
<1>5. OwnedChild' /\ CountedStarts'
  BY <1>1 DEF LifecycleInv, OwnedChild, Owning, CountedStarts, Before, Step, Running, TypeOK
<1> QED BY <1>3, <1>4, <1>5 DEF LifecycleInv

LEMMA MainInv ==
    ASSUME TypeOK, LifecycleInv, Control \/ StartFails \/ Signal \/ ManagerKill
    PROVE  LifecycleInv'
<1> USE ComponentNames, OrderOfComponents, LifecycleAssumption
    DEF LifecycleInv, OwnedChild, CountedStarts, ShutdownRecord, FailureShown, NotStarted,
        Running, TypeOK
<1>1. CASE StartThreads      BY <1>1 DEF StartThreads, Main, Owning, Before
<1>2. CASE EndWatch          BY <1>2 DEF EndWatch, Main
<1>3. CASE Flag              BY <1>3 DEF Flag, Main
<1>4. CASE Terminate         BY <1>4 DEF Terminate, Main
<1>5. CASE Join              BY <1>5 DEF Join, NextJoin, Main
<1>6. CASE ReportShutdown
  <2>1. /\ UNCHANGED <<thread, outcome, health, starts, failures, child>>
        /\ main = "reporting" /\ main' = "exited"
    BY <1>6 DEF ReportShutdown, Main
  <2>2. appHealth' = "stopped" => \A t \in Components : ~Alive(t)
    BY <1>6, <2>1 DEF ReportShutdown
  <2> QED BY <2>1, <2>2 DEF Alive
<1>7. CASE StartFails        BY <1>7 DEF StartFails, Main
<1>8. CASE Signal
  <2>1. \A c \in Collectors : child'[c] \in {"running", "signalled"} => Running(c)
    BY <1>8 DEF Signal
  <2> QED BY <1>8, <2>1 DEF Signal, Up
<1>9. CASE ManagerKill       BY <1>9 DEF ManagerKill
<1> QED BY <1>1, <1>2, <1>3, <1>4, <1>5, <1>6, <1>7, <1>8, <1>9 DEF Control

LEMMA ChildInv ==
    ASSUME TypeOK, LifecycleInv, NEW c \in Collectors, ChildObeys(c) \/ ChildDies(c)
    PROVE  LifecycleInv'
<1> USE DEF LifecycleInv, CountedStarts, ShutdownRecord, FailureShown, NotStarted, TypeOK
<1>1. child'[c] \notin {"running", "signalled"}
  BY DEF ChildObeys, ChildDies
<1>2. \A d \in Collectors \ {c} : child'[d] = child[d]
  BY DEF ChildObeys, ChildDies
<1>3. UNCHANGED <<componentVars, appHealth, main>>
  BY DEF ChildObeys, ChildDies
<1>4. OwnedChild'
  BY <1>1, <1>2, <1>3 DEF OwnedChild, Running
<1> QED BY <1>3, <1>4 DEF Alive

THEOREM LifecycleInvariance == Spec => []LifecycleInv
<1>1. Init => LifecycleInv
  BY ComponentNames, LifecycleAssumption
     DEF Init, LifecycleInv, OwnedChild, CountedStarts, ShutdownRecord, FailureShown,
         NotStarted, Running
<1>2. TypeOK /\ LifecycleInv /\ [Next]_vars => LifecycleInv'
  <2> SUFFICES ASSUME TypeOK, LifecycleInv, [Next]_vars PROVE LifecycleInv'
    OBVIOUS
  <2>1. CASE UNCHANGED vars
    BY <2>1 DEF LifecycleInv, OwnedChild, CountedStarts, ShutdownRecord, FailureShown,
                NotStarted, Running, Alive
  <2>2. CASE Next
    BY <2>2, CollectInv, RunInv, FinishInv, MainInv, ChildInv DEF Next
  <2> QED BY <2>1, <2>2
<1> QED BY <1>1, <1>2, LifecycleTypeCorrect, PTL DEF Spec

(* A recorded clean shutdown left neither a thread nor a child behind. *)
THEOREM StoppedIsClean == Spec => []StoppedMeansClean
<1>1. LifecycleInv => StoppedMeansClean
  BY ComponentNames
     DEF LifecycleInv, ShutdownRecord, OwnedChild, Owning, Alive, StoppedMeansClean
<1> QED BY <1>1, LifecycleInvariance, PTL

(* The capture never starts tcpdump more often than its budget allows. *)
THEOREM BudgetIsKept == Spec => []RestartBudget
<1>1. TypeOK /\ LifecycleInv => RestartBudget
  BY ComponentNames, LifecycleAssumption DEF TypeOK, LifecycleInv, CountedStarts, RestartBudget
<1> QED BY <1>1, LifecycleInvariance, LifecycleTypeCorrect, PTL

(* A component that failed is shown as failed. *)
THEOREM FailureIsShown == Spec => []FailureShown
<1>1. LifecycleInv => FailureShown
  BY DEF LifecycleInv
<1> QED BY <1>1, LifecycleInvariance, PTL

(***************************************************************************)
(* The refinement of Supervision                                           *)
(***************************************************************************)
LEMMA CollectSupervised ==
    ASSUME TypeOK, LifecycleInv, SupervisionInv, NEW c \in Collectors,
           Collect(c) \/ SeeLine(c) \/ CollectorFails(c)
    PROVE  SupervisionInv'
<1>1. PICK from \in Phases \ {"new", "ended", "dead"}, to \in Phases \ {"new", "dead"} :
          Step(c, from, to)
  BY ComponentNames, PhaseNames
     DEF Collect, CollectorFails, Disabled, Clear, Spawn, Publish, SeeEnd, Reap, Propagate,
         JudgeJournal, Capture, StopCapturing, JudgeCapture, CountFailure, SeeLine, SpawnFails,
         LineFails, ReportFails, Reporting, Move, Report
<1>2. UNCHANGED stopEvent
  BY DEF Collect, CollectorFails, Disabled, Clear, Spawn, Publish, SeeEnd, Reap, Propagate,
         JudgeJournal, Capture, StopCapturing, JudgeCapture, CountFailure, SeeLine, SpawnFails,
         LineFails, ReportFails, Move, Report
<1>3. /\ \A u \in Components \ {c} : health'[u] = health[u] /\ outcome'[u] = outcome[u]
      /\ health'[c] = "failed" => outcome'[c] # "ok"
  BY ComponentNames
     DEF TypeOK, SupervisionInv, NoFalseAlarm, Record, Raise,
         Collect, CollectorFails, Disabled, Clear, Spawn, Publish, SeeEnd, Reap, Propagate,
         JudgeJournal, Capture, StopCapturing, JudgeCapture, CountFailure, SeeLine, SpawnFails,
         LineFails, ReportFails, Move, Report
<1> QED
  BY <1>1, <1>2, <1>3 DEF SupervisionInv, Launched, EndIsHeard, NoFalseAlarm, Returned, Step, TypeOK

LEMMA RunSupervised ==
    ASSUME TypeOK, LifecycleInv, SupervisionInv, NEW t \in Components,
           (t \in Runners /\ (Run(t) \/ WorkFails(t))) \/ Finish(t)
    PROVE  SupervisionInv'
<1>1. PICK from \in Phases \ {"new", "dead"}, to \in Phases \ {"new"} :
          Step(t, from, to) /\ (to = "dead" => stopEvent')
  BY PhaseNames
     DEF Run, Reconcile, Cycle, Work, StopRunning, WorkFails, Finish, Move, Report
<1>2. stopEvent => stopEvent'
  BY DEF Run, Reconcile, Cycle, Work, StopRunning, WorkFails, Finish, Move, Report
<1>3. /\ \A u \in Components \ {t} : health'[u] = health[u] /\ outcome'[u] = outcome[u]
      /\ health'[t] = "failed" => outcome'[t] # "ok"
  BY DEF TypeOK, SupervisionInv, NoFalseAlarm, Record, Raise,
         Run, Reconcile, Cycle, Work, StopRunning, WorkFails, Finish, Move, Report
<1> QED
  BY <1>1, <1>2, <1>3 DEF SupervisionInv, Launched, EndIsHeard, NoFalseAlarm, Returned, Step, TypeOK

LEMMA MainSupervised ==
    ASSUME TypeOK, LifecycleInv, SupervisionInv, Control \/ StartFails \/ Signal \/ ManagerKill
    PROVE  SupervisionInv'
<1> USE DEF SupervisionInv, Launched, EndIsHeard, NoFalseAlarm, Returned
<1>1. CASE StartThreads      BY <1>1 DEF StartThreads, Main
<1>2. CASE EndWatch          BY <1>2 DEF EndWatch, Main
<1>3. CASE Flag              BY <1>3 DEF Flag, Main
<1>4. CASE Terminate         BY <1>4 DEF Terminate, Main
<1>5. CASE Join              BY <1>5 DEF Join, NextJoin, Main
<1>6. CASE ReportShutdown    BY <1>6 DEF ReportShutdown, Main
<1>7. CASE StartFails        BY <1>7 DEF StartFails, Main
<1>8. CASE Signal            BY <1>8 DEF Signal, Up
<1>9. CASE ManagerKill       BY <1>9 DEF ManagerKill
<1> QED BY <1>1, <1>2, <1>3, <1>4, <1>5, <1>6, <1>7, <1>8, <1>9 DEF Control

LEMMA SupervisionInvariance == Spec => []SupervisionInv
<1>1. Init => SupervisionInv
  BY DEF Init, SupervisionInv, Launched, EndIsHeard, NoFalseAlarm, Returned
<1>2. TypeOK /\ LifecycleInv /\ SupervisionInv /\ [Next]_vars => SupervisionInv'
  <2> SUFFICES ASSUME TypeOK, LifecycleInv, SupervisionInv, [Next]_vars PROVE SupervisionInv'
    OBVIOUS
  <2>1. CASE UNCHANGED vars
    BY <2>1 DEF SupervisionInv, Launched, EndIsHeard, NoFalseAlarm, Returned
  <2>2. ASSUME NEW c \in Collectors, ChildObeys(c) \/ ChildDies(c) PROVE SupervisionInv'
    BY <2>2 DEF ChildObeys, ChildDies, SupervisionInv, Launched, EndIsHeard, NoFalseAlarm, Returned
  <2>3. CASE Next
    BY <2>2, <2>3, CollectSupervised, RunSupervised, MainSupervised, ComponentNames DEF Next
  <2> QED BY <2>1, <2>3
<1> QED BY <1>1, <1>2, LifecycleTypeCorrect, LifecycleInvariance, PTL DEF Spec

(* A thread that has begun and not ended works between start and report. *)
LEMMA StepShows ==
    ASSUME TypeOK, LifecycleInv, SupervisionInv, NEW t \in Components, NEW from, NEW to,
           Step(t, from, to), from \notin {"new", "dead"}, to # "new"
    PROVE  /\ Supervised!Going /\ t \in AtWork
           /\ Stage' = Stage /\ Verdict' = Verdict
           /\ AtWork' = IF to = "dead" THEN AtWork \ {t} ELSE AtWork
<1>1. main \notin {"starting", "exited", "killed"} /\ UNCHANGED <<main, exitStatus, appHealth>>
  BY DEF Step, Up, LifecycleInv, NotStarted
<1>2. Supervised!Going
  BY <1>1 DEF Supervised!Going, Stage, TypeOK, MainPhases
<1>3. t \in AtWork
  BY DEF AtWork, Alive, Step
<1>4. Stage' = Stage /\ Verdict' = Verdict
  BY <1>1 DEF Stage, Verdict
<1>5. AtWork' = IF to = "dead" THEN AtWork \ {t} ELSE AtWork
  BY DEF AtWork, Alive, Step, TypeOK
<1> QED BY <1>2, <1>3, <1>4, <1>5

LEMMA ShownStays ==
    ASSUME TypeOK, NEW t \in Components, NEW from, NEW to, Step(t, from, to),
           from # "dead", to # "dead",
           \A u \in Components \ {t} : health'[u] = health[u]
    PROVE  ShownFailed' = ShownFailed
  BY DEF ShownFailed, Step, TypeOK

(* A step of a component that neither starts nor ends a child, nor is its end. *)
LEMMA QuietStep ==
    ASSUME TypeOK, LifecycleInv, SupervisionInv, NEW t \in Components, NEW from, NEW to,
           Step(t, from, to), from \notin {"new", "dead"}, to \notin {"new", "dead"},
           \A u \in Components \ {t} : health'[u] = health[u],
           outcome' = outcome \/ Raise(t),
           UNCHANGED <<stopEvent, child, starts>>
    PROVE  [Supervised!Next]_Supervised!vars
<1>1. Supervised!Going /\ t \in AtWork /\ UNCHANGED <<Stage, Verdict, AtWork, ShownFailed>>
  BY StepShows, ShownStays
<1>2. Reading' = Reading
  BY DEF Reading, Running
<1>3. CASE outcome' = outcome
  <2>1. Broken' = Broken
    BY <1>3 DEF Broken
  <2> QED BY <1>1, <1>2, <2>1 DEF Supervised!vars, Supervised!crew
<1>4. CASE Raise(t)
  <2>1. Broken' = Broken \cup {t}
    BY <1>4 DEF Broken, Raise, TypeOK
  <2>2. Supervised!Break(t)
    BY <1>1, <1>2, <2>1 DEF Supervised!Break
  <2> QED BY <2>2 DEF Supervised!Next
<1> QED BY <1>3, <1>4

LEMMA SpawnShows ==
    ASSUME TypeOK, LifecycleInv, SupervisionInv, NEW c \in Collectors, Spawn(c)
    PROVE  Supervised!StartChild(c)
<1>1. Step(c, "spawn", "publish") /\ UNCHANGED <<stopEvent, outcome>>
  BY DEF Spawn
<1>2. \A u \in Components \ {c} : health'[u] = health[u]
  BY DEF Spawn, Record, TypeOK
<1>3. Supervised!Going /\ c \in AtWork /\ UNCHANGED <<Stage, Verdict, AtWork, ShownFailed>>
  BY <1>1, <1>2, ComponentNames, StepShows, ShownStays
<1>4. Broken' = Broken
  BY <1>1 DEF Broken
<1>5. c \notin Reading /\ Reading' = Reading \cup {c}
  <2>1. ~Running(c)
    BY <1>1 DEF Step, LifecycleInv, OwnedChild, Owning
  <2>2. /\ child'[c] = "running"
        /\ \A d \in Collectors \ {c} : child'[d] = child[d]
    BY DEF Spawn, TypeOK
  <2> QED BY <2>1, <2>2 DEF Reading, Running
<1>6. starts[c] < IF c = "auth" THEN 1 ELSE MaxRestarts + 1
  BY <1>1, ComponentNames, LifecycleAssumption
     DEF Step, LifecycleInv, CountedStarts, Before, Collectors, TypeOK
<1>7. starts' = [starts EXCEPT ![c] = @ + 1]
  BY DEF Spawn
<1> QED BY <1>1, <1>3, <1>4, <1>5, <1>6, <1>7 DEF Supervised!StartChild

(* A child ends, and nothing else that shows happens. *)
LEMMA ChildShows ==
    ASSUME TypeOK, NEW c \in Collectors,
           child'[c] \notin {"running", "signalled"},
           \A d \in Collectors \ {c} : child'[d] = child[d],
           UNCHANGED <<Stage, Verdict, AtWork, Broken, ShownFailed, stopEvent, starts>>
    PROVE  [Supervised!Next]_Supervised!vars
<1>1. Reading' = Reading \ {c}
  BY DEF Reading, Running
<1>2. CASE c \in Reading
  <2>1. Supervised!LoseChild(c)
    BY <1>1, <1>2 DEF Supervised!LoseChild
  <2> QED BY <2>1 DEF Supervised!Next
<1>3. CASE c \notin Reading
  BY <1>1, <1>3 DEF Supervised!vars, Supervised!crew
<1> QED BY <1>2, <1>3

LEMMA ReapShows ==
    ASSUME TypeOK, LifecycleInv, SupervisionInv, NEW c \in Collectors, Reap(c)
    PROVE  [Supervised!Next]_Supervised!vars
<1>1. Step(c, "reap", "judge") /\ UNCHANGED <<stopEvent, health, outcome, starts>>
  BY DEF Reap
<1>2. UNCHANGED <<Stage, Verdict, AtWork, ShownFailed>>
  BY <1>1, ComponentNames, StepShows, ShownStays
<1>3. Broken' = Broken
  BY <1>1 DEF Broken
<1>4. child'[c] \notin {"running", "signalled"} /\ \A d \in Collectors \ {c} : child'[d] = child[d]
  BY DEF Reap, Running, TypeOK
<1> QED BY <1>1, <1>2, <1>3, <1>4, ChildShows

LEMMA CollectShows ==
    ASSUME TypeOK, LifecycleInv, SupervisionInv, NEW c \in Collectors,
           Collect(c) \/ SeeLine(c) \/ CollectorFails(c)
    PROVE  [Supervised!Next]_Supervised!vars
<1>1. CASE Spawn(c)          BY <1>1, SpawnShows DEF Supervised!Next
<1>2. CASE Reap(c)           BY <1>2, ReapShows
<1>3. CASE ~Spawn(c) /\ ~Reap(c)
  <2>1. PICK from \in Phases \ {"new", "ended", "dead"}, to \in Phases \ {"new", "dead"} :
            Step(c, from, to)
    BY ComponentNames, PhaseNames
       DEF Collect, CollectorFails, Disabled, Clear, Spawn, Publish, SeeEnd, Reap, Propagate,
           JudgeJournal, Capture, StopCapturing, JudgeCapture, CountFailure, SeeLine, SpawnFails,
           LineFails, ReportFails, Reporting, Move, Report
  <2>2. UNCHANGED <<stopEvent, child, starts>> /\ (outcome' = outcome \/ Raise(c))
    BY <1>3
       DEF Collect, CollectorFails, Disabled, Clear, Publish, SeeEnd, Propagate,
           JudgeJournal, Capture, StopCapturing, JudgeCapture, CountFailure, SeeLine, SpawnFails,
           LineFails, ReportFails, Move, Report
  <2>3. \A u \in Components \ {c} : health'[u] = health[u]
    BY <1>3, ComponentNames
       DEF TypeOK, Record, Raise,
           Collect, CollectorFails, Disabled, Clear, Publish, SeeEnd, Propagate,
           JudgeJournal, Capture, StopCapturing, JudgeCapture, CountFailure, SeeLine, SpawnFails,
           LineFails, ReportFails, Move, Report
  <2> QED BY <2>1, <2>2, <2>3, ComponentNames, QuietStep
<1> QED BY <1>1, <1>2, <1>3

LEMMA RunShows ==
    ASSUME TypeOK, LifecycleInv, SupervisionInv, NEW t \in Runners, Run(t) \/ WorkFails(t)
    PROVE  [Supervised!Next]_Supervised!vars
<1>1. PICK from \in Phases \ {"new", "dead"}, to \in Phases \ {"new", "dead"} : Step(t, from, to)
  BY PhaseNames
     DEF Run, Reconcile, Cycle, Work, StopRunning, WorkFails, Move, Report
<1>2. UNCHANGED <<stopEvent, child, starts>> /\ (outcome' = outcome \/ Raise(t))
  BY DEF Run, Reconcile, Cycle, Work, StopRunning, WorkFails, Move, Report
<1>3. \A u \in Components \ {t} : health'[u] = health[u]
  BY ComponentNames
     DEF TypeOK, Record, Run, Reconcile, Cycle, Work, StopRunning, WorkFails, Move, Report
<1> QED BY <1>1, <1>2, <1>3, ComponentNames, QuietStep

LEMMA FinishShows ==
    ASSUME TypeOK, LifecycleInv, SupervisionInv, NEW t \in Components, Finish(t)
    PROVE  Supervised!End(t)
<1>1. Step(t, "ended", "dead") /\ stopEvent' /\ UNCHANGED <<child, starts>>
  BY DEF Finish
<1>2. /\ Supervised!Going /\ t \in AtWork
      /\ AtWork' = AtWork \ {t} /\ UNCHANGED <<Stage, Verdict>>
  BY <1>1, StepShows
<1>3. t \notin Reading /\ Reading' = Reading
  BY <1>1 DEF Reading, Running, Step, LifecycleInv, OwnedChild, Owning
<1>4. \A u \in Components \ {t} :
          /\ health'[u] = health[u] /\ outcome'[u] = outcome[u]
          /\ thread'[u] = "dead" <=> thread[u] = "dead"
  BY <1>1 DEF Finish, Record, Step, TypeOK
<1>5. thread[t] # "dead" /\ thread'[t] = "dead"
  BY <1>1 DEF Step, TypeOK
<1>6. ShownFailed' = IF health'[t] = "failed" THEN ShownFailed \cup {t} ELSE ShownFailed
  BY <1>4, <1>5 DEF ShownFailed
<1>7. Broken' = IF outcome'[t] = "raised" THEN Broken \cup {t} ELSE Broken \ {t}
  BY <1>4 DEF Broken
<1>8. CASE outcome[t] = "ok" /\ UNCHANGED <<health, outcome, faults>>
  <2>1. health[t] # "failed"
    BY <1>8 DEF SupervisionInv, NoFalseAlarm
  <2>2. t \notin Broken /\ UNCHANGED <<Broken, ShownFailed>>
    BY <1>6, <1>7, <1>8, <2>1 DEF Broken
  <2> QED BY <1>1, <1>2, <1>3, <2>2 DEF Supervised!End
<1>9. CASE outcome[t] = "raised" /\ Record(t, "failed") /\ UNCHANGED <<outcome, faults>>
  <2>1. health'[t] = "failed"
    BY <1>9 DEF Record, TypeOK
  <2>2. t \in Broken /\ ShownFailed' = ShownFailed \cup {t} /\ Broken' = Broken
    BY <1>6, <1>9, <2>1 DEF Broken
  <2> QED BY <1>1, <1>2, <1>3, <2>2 DEF Supervised!End
<1>10. CASE outcome[t] = "raised" /\ outcome' = [outcome EXCEPT ![t] = "unrecorded"]
  <2>1. outcome'[t] = "unrecorded"
    BY <1>10 DEF TypeOK
  <2>2. /\ t \in Broken /\ Broken' = Broken \ {t}
        /\ ShownFailed' \in {ShownFailed, ShownFailed \cup {t}}
    BY <1>6, <1>7, <1>10, <2>1 DEF Broken
  <2> QED BY <1>1, <1>2, <1>3, <2>2 DEF Supervised!End
<1> QED BY <1>8, <1>9, <1>10 DEF Finish

LEMMA MainShows ==
    ASSUME TypeOK, LifecycleInv, SupervisionInv, Control \/ StartFails \/ Signal \/ ManagerKill
    PROVE  [Supervised!Next]_Supervised!vars
<1> USE DEF Supervised!Next
<1>r. main # "exited" => exitStatus = 9
  BY DEF SupervisionInv, Returned
<1>c. UNCHANGED child => Reading' = Reading
  BY DEF Reading, Running
<1>t. UNCHANGED <<thread, health, outcome>> => UNCHANGED <<AtWork, Broken, ShownFailed>>
  BY DEF AtWork, Alive, Broken, ShownFailed
<1>1. CASE StartThreads
  <2>1. /\ main = "starting" /\ main' = "watching"
        /\ UNCHANGED <<health, outcome, child, starts, stopEvent, exitStatus>>
        /\ \A t \in Components : thread'[t] \in {"loop", "begin"}
    BY <1>1 DEF StartThreads, Main
  <2>2. Stage = "new" /\ Stage' = "up"
    BY <2>1 DEF Stage
  <2>3. AtWork' = Components /\ Broken' = Broken
    BY <2>1 DEF AtWork, Alive, Broken
  <2>4. \A t \in Components : thread[t] = "new"
    BY <2>1 DEF LifecycleInv, NotStarted
  <2>5. ShownFailed' = ShownFailed
    BY <2>1, <2>4 DEF ShownFailed
  <2>6. Verdict' = Verdict
    BY <1>r, <2>1 DEF Verdict
  <2>7. Supervised!Begin
    BY <1>c, <2>1, <2>2, <2>3, <2>5, <2>6 DEF Supervised!Begin
  <2> QED BY <2>7
<1>2. CASE EndWatch
  <2>1. /\ main = "watching" /\ main' = "flagging" /\ stopEvent'
        /\ UNCHANGED <<thread, health, outcome, child, starts, exitStatus>>
    BY <1>2 DEF EndWatch, Main
  <2>2. stopEvent
    BY <1>2, <2>1 DEF EndWatch, Alive, SupervisionInv, Launched, EndIsHeard
  <2>3. Stage = "up" /\ Stage' = "stopping" /\ Verdict' = Verdict
    BY <1>r, <2>1 DEF Stage, Verdict
  <2>4. stopEvent' = stopEvent
    BY <1>2, <2>2 DEF EndWatch, TypeOK
  <2>5. Supervised!StopAll
    BY <1>c, <1>t, <2>1, <2>2, <2>3, <2>4 DEF Supervised!StopAll, Supervised!crew
  <2> QED BY <2>5
<1>3. ASSUME main \in {"flagging", "terminating", "joining"},
             main' \in {"flagging", "terminating", "joining", "reporting"},
             UNCHANGED <<thread, health, outcome, starts, stopEvent, exitStatus>>,
             Reading' = Reading
      PROVE  UNCHANGED Supervised!vars
  <2>1. Stage' = Stage /\ Verdict' = Verdict
    BY <1>3, <1>r DEF Stage, Verdict
  <2> QED BY <1>3, <1>t, <2>1 DEF Supervised!vars, Supervised!crew
<1>4. CASE Flag              BY <1>3, <1>4, <1>c DEF Flag, Main
<1>5. CASE Terminate
  <2>1. Order[turn] \in Collectors
    BY <1>5, OrderOfComponents, ComponentNames DEF Terminate
  <2>2. Reading' = Reading
    BY <1>5, <2>1 DEF Terminate, Reading, Running, TypeOK
  <2> QED BY <1>3, <1>5, <2>2 DEF Terminate, Main
<1>6. CASE Join              BY <1>3, <1>6, <1>c DEF Join, NextJoin, Main
<1>7. CASE ReportShutdown
  <2>1. /\ main = "reporting" /\ main' = "exited"
        /\ UNCHANGED <<thread, health, outcome, child, starts, stopEvent>>
    BY <1>7 DEF ReportShutdown, Main
  <2>2. Stage = "stopping" /\ Stage' = "over"
    BY <2>1 DEF Stage
  <2>3. AtWork = {} <=> ~\E t \in Components : Alive(t)
    BY DEF AtWork
  <2>4. \/ Verdict' = IF AtWork = {} THEN "stopped" ELSE "degraded"
        \/ Verdict' = "error"
    BY <1>7, <2>1, <2>3 DEF ReportShutdown, Verdict
  <2>5. Supervised!Close
    BY <1>c, <1>t, <2>1, <2>2, <2>4 DEF Supervised!Close, Supervised!crew
  <2> QED BY <2>5
<1>8. CASE StartFails
  <2>1. /\ main = "starting" /\ main' = "exited" /\ exitStatus' = 1
        /\ UNCHANGED <<thread, health, outcome, child, starts, stopEvent>>
    BY <1>8 DEF StartFails, Main
  <2>2. Stage = "new" /\ Stage' = "over" /\ Verdict' = "error"
    BY <2>1 DEF Stage, Verdict
  <2>3. Supervised!Close
    BY <1>c, <1>t, <2>1, <2>2 DEF Supervised!Close, Supervised!crew
  <2> QED BY <2>3
<1>9. CASE Signal
  <2>1. /\ UNCHANGED <<main, thread, health, outcome, starts, exitStatus, appHealth>>
        /\ Up /\ stopEvent' = TRUE
    BY <1>9 DEF Signal
  <2>2. Reading' = Reading
    BY <1>9 DEF Signal, Reading, Running, TypeOK
  <2>3. Stage # "over" /\ UNCHANGED <<Stage, Verdict>>
    BY <2>1 DEF Stage, Verdict, Up, TypeOK, MainPhases
  <2>4. Supervised!Ask
    BY <1>t, <2>1, <2>2, <2>3 DEF Supervised!Ask, Supervised!crew
  <2> QED BY <2>4
<1>10. CASE ManagerKill
  <2>1. /\ main \in {"joining", "reporting"} /\ main' = "killed"
        /\ UNCHANGED <<thread, health, outcome, starts, stopEvent, exitStatus>>
    BY <1>10 DEF ManagerKill
  <2>2. Stage = "stopping" /\ Stage' = "over" /\ Verdict' = "killed"
    BY <1>r, <2>1 DEF Stage, Verdict
  <2>3. Reading' = {}
    BY <1>10 DEF ManagerKill, Reading, Running, TypeOK
  <2>4. Supervised!Kill
    BY <1>t, <2>1, <2>2, <2>3 DEF Supervised!Kill
  <2> QED BY <2>4
<1> QED BY <1>1, <1>2, <1>4, <1>5, <1>6, <1>7, <1>8, <1>9, <1>10 DEF Control

(* What the monitor does is what Supervision allows, step by step, for every *)
(* restart budget, in both modes, and whatever fails.                        *)
THEOREM MonitorIsSupervised == Spec => ImplementsSupervision
<1>1. Init => Supervised!Init
  <2> SUFFICES ASSUME Init PROVE Supervised!Init
    OBVIOUS
  <2>1. Stage = "new" /\ Verdict = "none"
    BY DEF Init, Stage, Verdict
  <2>2. AtWork = {} /\ Reading = {} /\ Broken = {} /\ ShownFailed = {}
    BY DEF Init, AtWork, Alive, Reading, Running, Broken, ShownFailed
  <2> QED BY <2>1, <2>2 DEF Init, Supervised!Init
<1>2. TypeOK /\ LifecycleInv /\ SupervisionInv /\ [Next]_vars
          => [Supervised!Next]_Supervised!vars
  <2> SUFFICES ASSUME TypeOK, LifecycleInv, SupervisionInv, [Next]_vars
               PROVE  [Supervised!Next]_Supervised!vars
    OBVIOUS
  <2>1. CASE UNCHANGED vars
    BY <2>1 DEF Supervised!vars, Supervised!crew, Stage, Verdict, AtWork, Alive, Reading,
                Running, Broken, ShownFailed
  <2>2. ASSUME NEW c \in Collectors, ChildObeys(c) \/ ChildDies(c)
        PROVE  [Supervised!Next]_Supervised!vars
    <3>1. UNCHANGED <<main, exitStatus, appHealth, thread, health, outcome, starts, stopEvent>>
      BY <2>2 DEF ChildObeys, ChildDies
    <3>2. UNCHANGED <<Stage, Verdict, AtWork, Broken, ShownFailed>>
      BY <3>1 DEF Stage, Verdict, AtWork, Alive, Broken, ShownFailed
    <3>3. /\ child'[c] \notin {"running", "signalled"}
          /\ \A d \in Collectors \ {c} : child'[d] = child[d]
      BY <2>2 DEF ChildObeys, ChildDies, TypeOK
    <3> QED BY <3>1, <3>2, <3>3, ChildShows
  <2>3. ASSUME NEW t \in Components, Finish(t) PROVE [Supervised!Next]_Supervised!vars
    BY <2>3, FinishShows DEF Supervised!Next
  <2>4. CASE Next
    BY <2>2, <2>3, <2>4, CollectShows, RunShows, MainShows DEF Next
  <2> QED BY <2>1, <2>4
<1> QED
  BY <1>1, <1>2, LifecycleTypeCorrect, LifecycleInvariance, SupervisionInvariance, PTL
     DEF Spec, Supervised!Spec, ImplementsSupervision
=============================================================================
