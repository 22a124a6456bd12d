------------------------ MODULE BlockResponseProofs ------------------------
(***************************************************************************)
(* What holds of BlockResponse whoever runs beside whom: the types, the    *)
(* core invariant, and the bounds on copies of a rule, Active rows and     *)
(* jumps.  No theorem assumes one detector or one administrator.           *)
(***************************************************************************)
EXTENDS BlockInvariants, FiniteSetTheorems, TLAPS

(* The operators that only abbreviate assignments. *)
USE DEF tables, frame, table, locals, vars,
        GoTo, Enter, SetRow, SetClk, SetTodo, SetSnap, At

LEMMA StepNames ==
    /\ "idle" \in Steps /\ "findChain" \in Steps /\ "findRule" \in Steps
    /\ "apply" \in Steps /\ "confirm" \in Steps /\ "cleanStart" \in Steps
    /\ "cleanList" \in Steps /\ "cleanNext" \in Steps /\ "findJump" \in Steps
    /\ "dropJump" \in Steps /\ "confirmJump" \in Steps /\ "dropChain" \in Steps
    /\ "confirmChain" \in Steps /\ "initStart" \in Steps /\ "makeChain" \in Steps
    /\ "initJump" \in Steps /\ "makeJump" \in Steps /\ "confirmInit" \in Steps
    /\ "confirmInitJump" \in Steps /\ "changed" \in Steps /\ "unchanged" \in Steps
    /\ "failed" \in Steps
  BY DEF Steps, RuleSteps, CleanupSteps, InitializeSteps, Results

LEMMA ChainType ==
    ASSUME chain \in BOOLEAN, NEW p, DropChain(p) \/ MakeChain(p)
    PROVE  chain' \in BOOLEAN
  BY Zenon DEF DropChain, MakeChain, Change, ChainGone, ChainMade

LEMMA ManagerStepType ==
    ASSUME ManagerTypeOK, NEW p \in Callers, ManagerStep(p)
    PROVE  ManagerTypeOK'
<1> USE StepNames, ManagerAssumption DEF ManagerTypeOK, Fault, Done, Check
<1>1. CASE FindChain(p)      BY <1>1 DEF FindChain
<1>2. CASE FindRule(p)       BY <1>2 DEF FindRule, HasRule, Inserting
<1>3. CASE ApplyChange(p)    BY <1>3 DEF ApplyChange, Change, AddRule, HasRule, Inserting
<1>4. CASE ConfirmChange(p)  BY <1>4 DEF ConfirmChange, HasRule, Inserting
<1>5. CASE CleanStart(p)     BY <1>5 DEF CleanStart
<1>6. CASE CleanList(p)      BY <1>6 DEF CleanList
<1>7. CASE CleanNext(p)      BY <1>7 DEF CleanNext
<1>8. CASE FindJump(p)       BY <1>8 DEF FindJump
<1>9. CASE DropJump(p)       BY <1>9 DEF DropJump, Change, AddJump
<1>10. CASE ConfirmJump(p)   BY <1>10 DEF ConfirmJump
<1>11. CASE DropChain(p)
  <2>1. UNCHANGED <<jump, rules, foreign, op, arg, listed>>
    BY <1>11 DEF DropChain, Change, ChainGone
  <2>2. step' \in [Callers -> Steps] /\ faults' \in 0..MaxFaults
    BY <1>11 DEF DropChain, Change
  <2> QED BY <1>11, <2>1, <2>2, ChainType
<1>12. CASE ConfirmChain(p)  BY <1>12 DEF ConfirmChain
<1>13. CASE InitStart(p)     BY <1>13 DEF InitStart
<1>14. CASE MakeChain(p)
  <2>1. UNCHANGED <<jump, rules, foreign, op, arg, listed>>
    BY <1>14 DEF MakeChain, Change, ChainMade
  <2>2. step' \in [Callers -> Steps] /\ faults' \in 0..MaxFaults
    BY <1>14 DEF MakeChain, Change
  <2> QED BY <1>14, <2>1, <2>2, ChainType
<1>15. CASE InitJump(p)      BY <1>15 DEF InitJump
<1>16. CASE MakeJump(p)      BY <1>16 DEF MakeJump, Change, AddJump
<1>17. CASE ConfirmInit(p)   BY <1>17 DEF ConfirmInit
<1>18. CASE ConfirmInitJump(p) BY <1>18 DEF ConfirmInitJump
<1> QED
  BY <1>1, <1>2, <1>3, <1>4, <1>5, <1>6, <1>7, <1>8, <1>9, <1>10, <1>11, <1>12,
     <1>13, <1>14, <1>15, <1>16, <1>17, <1>18
     DEF ManagerStep, ChangeRule, Cleanup, Initialize

LEMMA PhaseNames ==
    /\ "idle" \in Phases /\ "down" \in Phases /\ "readActive" \in Phases
    /\ "probe" \in Phases /\ "inserting" \in Phases /\ "rollingBack" \in Phases
    /\ "listExpired" \in Phases /\ "expiring" \in Phases /\ "deleting" \in Phases
    /\ "absent" \in Phases /\ "started" \in Phases /\ "listRules" \in Phases
    /\ "listActive" \in Phases /\ "reconciling" \in Phases /\ "lifting" \in Phases
    /\ "unblocking" \in Phases /\ "unblockDelete" \in Phases /\ "maintaining" \in Phases
    /\ "closing" \in Phases
  BY DEF Phases, DetectorPhases, WorkerPhases, ReconcilePhases, CommandPhases

LEMMA StatusNames ==
    /\ "Active" \in Statuses /\ "Expired" \in Statuses
    /\ "ManuallyRemoved" \in Statuses /\ "Inconsistent" \in Statuses
    /\ "Automatic" \in Methods /\ "Reconciliation" \in Methods
    /\ "ManualCLI" \in Methods /\ "ExplicitCleanup" \in Methods
  BY DEF Statuses, Removals, Methods

(* A call, a return and the two table transactions keep the types. *)
LEMMA CallType ==
    ASSUME ManagerTypeOK, NEW p \in Callers, NEW s \in Sources \cup {NoSource},
           NEW m \in {"insert", "delete", "initialize", "cleanup"}, Call(p, m, s)
    PROVE  /\ op' \in [Callers -> Operations] /\ step' \in [Callers -> Steps]
           /\ arg' \in [Callers -> Sources \cup {NoSource}]
           /\ listed' \in [Callers -> SUBSET Sources]
  BY StepNames DEF Call, FirstStep, ManagerTypeOK, Operations

LEMMA ReturnType ==
    ASSUME ManagerTypeOK, NEW p \in Callers, Return(p)
    PROVE  /\ op' \in [Callers -> Operations] /\ step' \in [Callers -> Steps]
           /\ arg' \in [Callers -> Sources \cup {NoSource}]
           /\ listed' \in [Callers -> SUBSET Sources]
  BY StepNames DEF Return, ManagerTypeOK, Operations

LEMMA BecomeType ==
    ASSUME TypeOK, NEW p \in Callers, NEW ph \in Phases, Become(p, ph)
    PROVE  /\ op' \in [Callers -> Operations] /\ step' \in [Callers -> Steps]
           /\ arg' \in [Callers -> Sources \cup {NoSource}]
           /\ listed' \in [Callers -> SUBSET Sources]
           /\ phase' \in [Callers -> Phases] /\ row' \in [Callers -> Blocks \cup {NoBlock}]
           /\ clk' \in [Callers -> Nat] /\ todo' \in [Callers -> SUBSET Blocks]
           /\ snap' \in [Callers -> [Sources -> Int]]
<1>1. Return(p) BY DEF Become
<1>2. ManagerTypeOK BY DEF TypeOK
<1> QED BY <1>1, <1>2, ReturnType DEF Become, TypeOK, NoRules

LEMMA MarkRemovedType ==
    ASSUME TypeOK, NEW b, NEW st \in Statuses, NEW how \in Methods, MarkRemoved(b, st, how)
    PROVE  /\ status' \in [Blocks -> Statuses] /\ owner' \in [Blocks -> Sources \cup {NoSource}]
           /\ expires' \in [Blocks -> Nat] /\ method' \in [Blocks -> Methods]
           /\ profile' \in [Sources -> Statuses]
  BY DEF MarkRemoved, TypeOK

LEMMA ActivateType ==
    ASSUME TypeOK, NEW b, NEW s \in Sources \cup {NoSource}, NEW t \in Nat, Activate(b, s, t)
    PROVE  /\ status' \in [Blocks -> Statuses] /\ owner' \in [Blocks -> Sources \cup {NoSource}]
           /\ expires' \in [Blocks -> Nat] /\ method' \in [Blocks -> Methods]
           /\ profile' \in [Sources -> Statuses]
<1>1. t + Duration \in Nat
  BY ResponseAssumption
<1> QED BY <1>1, StatusNames DEF Activate, TypeOK

LEMMA DetectorStepType ==
    ASSUME TypeOK, NEW p \in Callers, DetectorStep(p) \/ \E s \in Sources : BeginBlock(p, s)
    PROVE  TypeOK'
<1> USE PhaseNames, StepNames, ManagerAssumption DEF TypeOK, ManagerTypeOK, Fault
<1>1. ASSUME NEW s \in Sources, BeginBlock(p, s) PROVE TypeOK'
  BY <1>1 DEF BeginBlock
<1>2. CASE ReadActive(p)     BY <1>2, BecomeType DEF ReadActive
<1>3. CASE ProbeRule(p)
  <2>1. CASE Become(p, "idle")
    BY <1>3, <2>1, BecomeType DEF ProbeRule
  <2>2. CASE Enter(p, "inserting") /\ Call(p, "insert", arg[p])
               /\ UNCHANGED <<faults, row, clk, todo, snap>>
    BY <1>3, <2>2, CallType DEF ProbeRule
  <2> QED BY <1>3, <2>1, <2>2 DEF ProbeRule
<1>4. CASE ActivateBlock(p)  BY <1>4, BecomeType, ActivateType DEF ActivateBlock
<1>5. CASE ActivateFails(p)  BY <1>5, CallType DEF ActivateFails
<1>6. CASE RejectInsert(p)   BY <1>6, BecomeType DEF RejectInsert
<1>7. CASE EndRollback(p)    BY <1>7, BecomeType DEF EndRollback
<1> QED BY <1>1, <1>2, <1>3, <1>4, <1>5, <1>6, <1>7 DEF DetectorStep

LEMMA WorkerStepType ==
    ASSUME TypeOK, NEW p \in Callers, WorkerStep(p)
    PROVE  TypeOK'
<1> USE PhaseNames, StepNames, ManagerAssumption DEF TypeOK, ManagerTypeOK, Fault
<1>1. CASE BeginExpiry(p)    BY <1>1 DEF BeginExpiry
<1>2. CASE ListExpired(p)    BY <1>2 DEF ListExpired, FirstDue, DueRows, ActiveRows
<1>3. CASE ProbeExpired(p)
  <2>1. PICK b \in Blocks : /\ SetTodo(p, todo[p] \ {b})
                            /\ \/ /\ SetRow(p, b)
                                  /\ IF HasRule(owner[b])
                                     THEN Enter(p, "deleting") /\ Call(p, "delete", owner[b])
                                     ELSE Enter(p, "absent") /\ UNCHANGED frame
                                  /\ UNCHANGED faults
                               \/ Fault /\ UNCHANGED <<phase, row, frame>>
    BY <1>3 DEF ProbeExpired, Earliest
  <2>2. CASE Enter(p, "deleting") /\ Call(p, "delete", owner[b]) /\ SetRow(p, b) /\ UNCHANGED faults
    BY <1>3, <2>1, <2>2, CallType DEF ProbeExpired
  <2>3. CASE Enter(p, "absent") /\ UNCHANGED frame /\ SetRow(p, b) /\ UNCHANGED faults
    BY <1>3, <2>1, <2>3 DEF ProbeExpired
  <2>4. CASE Fault /\ UNCHANGED <<phase, row, frame>>
    BY <1>3, <2>1, <2>4 DEF ProbeExpired
  <2> QED BY <2>1, <2>2, <2>3, <2>4
<1>4. CASE MarkExpired(p)    BY <1>4, MarkRemovedType, ReturnType, StatusNames DEF MarkExpired, NextRow
<1>5. CASE ExpiryFails(p)    BY <1>5, ReturnType DEF ExpiryFails, NextRow
<1>6. CASE EndExpiry(p)      BY <1>6, BecomeType DEF EndExpiry
<1> QED BY <1>1, <1>2, <1>3, <1>4, <1>5, <1>6 DEF WorkerStep

LEMMA ClaimType ==
    ASSUME snap \in [Callers -> [Sources -> Int]], NEW p \in Callers, NEW s, Claim(p, s)
    PROVE  snap' \in [Callers -> [Sources -> Int]]
<1> DEFINE f == [snap[p] EXCEPT ![s] = @ - 1]
<1>1. f \in [Sources -> Int]
  <2>1. snap[p] \in [Sources -> Int]
    OBVIOUS
  <2>2. ASSUME NEW x \in Sources PROVE f[x] \in Int
    BY <2>1, <2>2
  <2> QED BY <2>1, <2>2
<1>2. snap' = [snap EXCEPT ![p] = f]
  BY DEF Claim
<1> HIDE DEF f
<1> QED BY <1>1, <1>2

LEMMA ReconcileStepType ==
    ASSUME TypeOK, NEW p \in Callers, ReconcileStep(p) \/ BeginReconcile(p)
    PROVE  TypeOK'
<1> USE PhaseNames, StepNames, ManagerAssumption DEF TypeOK, ManagerTypeOK, Fault
<1>1. CASE BeginReconcile(p) BY <1>1 DEF BeginReconcile
<1>2. CASE ListRules(p)
  <2>1. CASE Become(p, "idle")
    BY <1>2, <2>1, BecomeType DEF ListRules
  <2>2. CASE SetSnap(p, rules) /\ Enter(p, "listActive") /\ UNCHANGED <<faults, frame, row, clk, todo>>
    <3>1. rules \in [Sources -> Int]
      OBVIOUS
    <3> QED BY <1>2, <2>2, <3>1 DEF ListRules
  <2> QED BY <1>2, <2>1, <2>2 DEF ListRules
<1>3. CASE ListActive(p)     BY <1>3 DEF ListActive, ActiveRows
<1>4. CASE ReconcileRow(p)
  <2>1. PICK b \in Blocks :
          /\ SetTodo(p, todo[p] \ {b})
          /\ \/ /\ Enter(p, "lifting") /\ SetRow(p, b) /\ Call(p, "delete", owner[b])
                /\ UNCHANGED <<table, snap>>
             \/ /\ \/ MarkRemoved(b, "Expired", "Reconciliation")
                   \/ MarkRemoved(b, "Inconsistent", "Reconciliation")
                /\ UNCHANGED <<phase, row, frame, snap>>
             \/ Claim(p, owner[b]) /\ UNCHANGED <<table, phase, row, frame>>
    BY <1>4 DEF ReconcileRow, Earliest
  <2>2. CASE /\ Enter(p, "lifting") /\ SetRow(p, b) /\ Call(p, "delete", owner[b])
             /\ UNCHANGED <<table, snap>>
    BY <1>4, <2>1, <2>2, CallType DEF ReconcileRow
  <2>3. CASE /\ \/ MarkRemoved(b, "Expired", "Reconciliation")
                \/ MarkRemoved(b, "Inconsistent", "Reconciliation")
             /\ UNCHANGED <<phase, row, frame, snap>>
    BY <1>4, <2>1, <2>3, MarkRemovedType, StatusNames DEF ReconcileRow
  <2>4. CASE Claim(p, owner[b]) /\ UNCHANGED <<table, phase, row, frame>>
    <3>1. snap' \in [Callers -> [Sources -> Int]]
      BY <2>4, ClaimType
    <3> QED BY <1>4, <2>1, <2>4, <3>1 DEF ReconcileRow
  <2> QED BY <2>1, <2>2, <2>3, <2>4
<1>5. CASE MarkLifted(p)
  <2>1. snap' \in [Callers -> [Sources -> Int]]
    BY <1>5, ClaimType DEF MarkLifted
  <2> QED BY <1>5, <2>1, MarkRemovedType, ReturnType, StatusNames DEF MarkLifted
<1>6. CASE LiftFails(p)      BY <1>6, ReturnType DEF LiftFails, NextRow
<1>7. CASE EndReconcile(p)   BY <1>7, BecomeType DEF EndReconcile
<1> QED BY <1>1, <1>2, <1>3, <1>4, <1>5, <1>6, <1>7 DEF ReconcileStep

LEMMA UnblockStepType ==
    ASSUME TypeOK, NEW p \in Callers, UnblockStep(p) \/ \E s \in Sources : BeginUnblock(p, s)
    PROVE  TypeOK'
<1> USE PhaseNames, StepNames, ManagerAssumption DEF TypeOK, ManagerTypeOK, Fault
<1>1. ASSUME NEW s \in Sources, BeginUnblock(p, s) PROVE TypeOK'
  BY <1>1 DEF BeginUnblock, Latest, ActiveOf, ActiveRows
<1>2. CASE ProbeUnblock(p)
  <2>1. CASE Become(p, "idle")
    BY <1>2, <2>1, BecomeType DEF ProbeUnblock
  <2>2. CASE Enter(p, "unblockDelete") /\ Call(p, "delete", arg[p])
               /\ UNCHANGED <<faults, row, clk, todo, snap>>
    BY <1>2, <2>2, CallType DEF ProbeUnblock
  <2> QED BY <1>2, <2>1, <2>2 DEF ProbeUnblock
<1>3. CASE MarkUnblocked(p)
  BY <1>3, BecomeType, MarkRemovedType, StatusNames DEF MarkUnblocked
<1>4. CASE UnblockFails(p)   BY <1>4, BecomeType DEF UnblockFails
<1> QED BY <1>1, <1>2, <1>3, <1>4 DEF UnblockStep

LEMMA AdminStepType ==
    ASSUME TypeOK, NEW p \in Callers,
           AdminStep(p) \/ \E c \in {"initialize", "cleanup"} : BeginMaintenance(p, c)
    PROVE  TypeOK'
<1> USE PhaseNames, StepNames, ManagerAssumption DEF TypeOK, ManagerTypeOK, Fault
<1>1. ASSUME NEW c \in {"initialize", "cleanup"}, BeginMaintenance(p, c) PROVE TypeOK'
  BY <1>1, CallType DEF BeginMaintenance
<1>2. CASE EndMaintenance(p) BY <1>2, BecomeType DEF EndMaintenance
<1>3. CASE ListCleaned(p)    BY <1>3, ReturnType DEF ListCleaned, ActiveRows
<1>4. CASE CloseRow(p)
  <2>1. PICK b \in Blocks : MarkRemoved(b, "Inconsistent", "ExplicitCleanup")
                            /\ SetTodo(p, todo[p] \ {b})
    BY <1>4 DEF CloseRow, Earliest
  <2> QED BY <1>4, <2>1, MarkRemovedType, StatusNames DEF CloseRow
<1>5. CASE EndCleanup(p)     BY <1>5, BecomeType DEF EndCleanup
<1> QED BY <1>1, <1>2, <1>3, <1>4, <1>5 DEF AdminStep

\* Every variable keeps its type, whatever the constants.
THEOREM TypeCorrect == Spec => []TypeOK
<1>1. Init => TypeOK
  BY StepNames, PhaseNames, ManagerAssumption, ResponseAssumption
     DEF Init, ManagerInit, TypeOK, ManagerTypeOK, NoRules, Statuses, Methods, Operations
<1>2. TypeOK /\ [Next]_vars => TypeOK'
  <2> SUFFICES ASSUME TypeOK, [Next]_vars PROVE TypeOK'
    OBVIOUS
  <2>1. ASSUME NEW p \in Callers, CallManager(p) PROVE TypeOK'
    BY <2>1, ManagerStepType DEF CallManager, TypeOK
  <2>2. ASSUME NEW p \in Callers, Advance(p) PROVE TypeOK'
    BY <2>1, <2>2, DetectorStepType, WorkerStepType, ReconcileStepType, UnblockStepType,
       AdminStepType DEF Advance
  <2>3. CASE Request
    BY <2>3, DetectorStepType, ReconcileStepType, UnblockStepType, AdminStepType,
       ResponseAssumption DEF Request
  <2>4. ASSUME NEW p \in Callers, Die(p) PROVE TypeOK'
    BY <2>4, BecomeType, PhaseNames, ResponseAssumption DEF Die, TypeOK, ManagerTypeOK
  <2>5. ASSUME NEW p \in Threads, StopThread(p) PROVE TypeOK'
    BY <2>5, BecomeType, PhaseNames, ResponseAssumption DEF StopThread, TypeOK, ManagerTypeOK, Threads
  <2>6. ASSUME NEW g \in Groups, Start(g) PROVE TypeOK'
    BY <2>6, PhaseNames DEF Start, TypeOK, ManagerTypeOK
  <2>7. CASE Tick
    BY <2>7 DEF Tick, TypeOK, ManagerTypeOK
  <2>8. CASE UNCHANGED vars
    BY <2>8 DEF TypeOK, ManagerTypeOK
  <2> QED BY <2>2, <2>3, <2>4, <2>5, <2>6, <2>7, <2>8 DEF Next
<1> QED BY <1>1, <1>2, PTL DEF Spec

(***************************************************************************)
(* How a step changes the stores and the processes.  A step of process p   *)
(* touches the locals of p only (Alone) and changes the stores in a few    *)
(* ways (Moves).                                                           *)
(***************************************************************************)
Alone(p) ==
    \A q \in Callers : q # p =>
        /\ op'[q] = op[q] /\ step'[q] = step[q] /\ arg'[q] = arg[q]
        /\ phase'[q] = phase[q] /\ row'[q] = row[q]
        /\ clk'[q] = clk[q] /\ todo'[q] = todo[q]

(* What one command of the manager does to the call p has in progress. *)
MethodSteps(p) ==
    /\ step[p] \in RuleSteps \cup CleanupSteps \cup InitializeSteps
    /\ step[p] \in RuleSteps =>
          /\ step'[p] \in RuleSteps \cup Results \cup {"cleanNext"}
          /\ step'[p] = "cleanNext" => op[p] = "cleanup"
          /\ arg'[p] = arg[p]
          /\ op[p] = "cleanup" => step'[p] # "changed"
          /\ op[p] = "insert" /\ step'[p] = "apply" => ~HasRule(arg[p]) /\ UNCHANGED tables
          /\ op[p] = "delete" /\ step'[p] \in {"changed", "unchanged"} =>
                 ~HasRule(arg[p]) /\ UNCHANGED tables
    /\ step[p] \in CleanupSteps =>
          /\ step'[p] \in CleanupSteps \cup Results \cup {"findChain"}
          /\ step'[p] = "changed" => ~chain /\ UNCHANGED tables
    /\ step[p] \in InitializeSteps => step'[p] \in InitializeSteps \cup Results

LEMMA ManagerMoves ==
    ASSUME ManagerTypeOK, NEW p \in Callers, ManagerStep(p)
    PROVE  /\ op' = op
           /\ \A q \in Callers : q # p => step'[q] = step[q] /\ arg'[q] = arg[q]
           /\ MethodSteps(p)
<1> USE DEF ManagerTypeOK, MethodSteps, RuleSteps, CleanupSteps, InitializeSteps,
            Results, Check, Change, Done, Inserting
<1>1. CASE FindChain(p)      BY <1>1 DEF FindChain
<1>2. CASE FindRule(p)       BY <1>2 DEF FindRule
<1>3. CASE ApplyChange(p)    BY <1>3 DEF ApplyChange
<1>4. CASE ConfirmChange(p)  BY <1>4 DEF ConfirmChange
<1>5. CASE CleanStart(p)     BY <1>5 DEF CleanStart
<1>6. CASE CleanList(p)      BY <1>6 DEF CleanList
<1>7. CASE CleanNext(p)      BY <1>7 DEF CleanNext
<1>8. CASE FindJump(p)       BY <1>8 DEF FindJump
<1>9. CASE DropJump(p)       BY <1>9 DEF DropJump
<1>10. CASE ConfirmJump(p)   BY <1>10 DEF ConfirmJump
<1>11. CASE DropChain(p)     BY <1>11 DEF DropChain
<1>12. CASE ConfirmChain(p)  BY <1>12 DEF ConfirmChain
<1>13. CASE InitStart(p)     BY <1>13 DEF InitStart
<1>14. CASE MakeChain(p)     BY <1>14 DEF MakeChain
<1>15. CASE InitJump(p)      BY <1>15 DEF InitJump
<1>16. CASE MakeJump(p)      BY <1>16 DEF MakeJump
<1>17. CASE ConfirmInit(p)   BY <1>17 DEF ConfirmInit
<1>18. CASE ConfirmInitJump(p) BY <1>18 DEF ConfirmInitJump
<1> QED
  BY <1>1, <1>2, <1>3, <1>4, <1>5, <1>6, <1>7, <1>8, <1>9, <1>10, <1>11, <1>12,
     <1>13, <1>14, <1>15, <1>16, <1>17, <1>18
     DEF ManagerStep, ChangeRule, Cleanup, Initialize

(* How the rules and the chain change: by an insertion, by a deletion, by *)
(* dropping or by making the chain.                                       *)
Inserts(p) ==
    /\ step[p] = "apply" /\ op[p] = "insert" /\ chain
    /\ rules' = [rules EXCEPT ![arg[p]] = @ + 1] /\ chain' = chain

Deletes(p) ==
    /\ step[p] = "apply" /\ op[p] # "insert" /\ HasRule(arg[p])
    /\ rules' = [rules EXCEPT ![arg[p]] = @ - 1] /\ chain' = chain

DropsChain == Droppable /\ chain' = FALSE /\ rules' = rules

MakesChain(p) == step[p] = "makeChain" /\ chain' = TRUE /\ rules' = rules

LEMMA ChainMoves ==
    ASSUME ManagerTypeOK, NEW p \in Callers, ManagerStep(p)
    PROVE  Inserts(p) \/ Deletes(p) \/ DropsChain \/ MakesChain(p) \/ UNCHANGED <<chain, rules>>
<1> USE DEF Check, Change, Inserting
<1>1. CASE ApplyChange(p)
  <2>1. CASE op[p] = "insert"
    BY <1>1, <2>1 DEF ApplyChange, AddRule, Inserts
  <2>2. CASE op[p] # "insert"
    <3>1. CASE HasRule(arg[p]) /\ AddRule(arg[p], -1)
      BY <1>1, <2>2, <3>1 DEF ApplyChange, AddRule, Deletes, ManagerTypeOK
    <3>2. CASE UNCHANGED tables
      BY <3>2
    <3> QED BY <1>1, <2>2, <3>1, <3>2 DEF ApplyChange
  <2> QED BY <2>1, <2>2
<1>2. CASE DropChain(p)
  BY <1>2, Zenon DEF DropChain, DropsChain, ChainGone
<1>3. CASE MakeChain(p)
  BY <1>3, Zenon DEF MakeChain, MakesChain, ChainMade
<1>4. CASE FindChain(p) \/ FindRule(p) \/ ConfirmChange(p) \/ CleanStart(p)
             \/ CleanList(p) \/ CleanNext(p) \/ FindJump(p) \/ ConfirmJump(p)
             \/ ConfirmChain(p) \/ InitStart(p) \/ InitJump(p) \/ ConfirmInit(p)
             \/ ConfirmInitJump(p)
  BY <1>4 DEF FindChain, FindRule, ConfirmChange, CleanStart, CleanList, CleanNext,
              FindJump, ConfirmJump, ConfirmChain, InitStart, InitJump, ConfirmInit,
              ConfirmInitJump
<1>5. CASE DropJump(p) \/ MakeJump(p)
  BY <1>5 DEF DropJump, MakeJump, AddJump
<1> QED
  BY <1>1, <1>2, <1>3, <1>4, <1>5 DEF ManagerStep, ChangeRule, Cleanup, Initialize

LEMMA BecomeCore ==
    ASSUME TypeOK, NEW p \in Callers, NEW ph \in {"idle", "down"}, Become(p, ph), now' \in Nat
    PROVE  CoreOf(p)' /\ Alone(p)
<1>1. /\ phase'[p] = ph /\ op'[p] = "none" /\ step'[p] = "idle"
      /\ todo'[p] = {} /\ clk'[p] = 0
  BY DEF Become, Return, TypeOK, ManagerTypeOK
<1>2. CoreOf(p)'
  BY <1>1 DEF CoreOf, ControlOf, RowsOf, DueOf, Calling, Deleting, Holding, RuleSteps,
     CleanupSteps, InitializeSteps, DetectorPhases
<1>3. Alone(p)
  BY DEF Become, Return, TypeOK, ManagerTypeOK, Alone
<1> QED BY <1>2, <1>3

(* Closing a row opens none and loses none. *)
ClosesOnly ==
    /\ owner' = owner /\ expires' = expires
    /\ \A b \in Blocks : (status'[b] = "none" <=> status[b] = "none")
                         /\ (status'[b] = "Active" => status[b] = "Active")

LEMMA MarkRemovedCloses ==
    ASSUME TypeOK, NEW b \in Blocks, NEW st \in Removals, NEW how, MarkRemoved(b, st, how)
    PROVE  ClosesOnly
  BY DEF MarkRemoved, ClosesOnly, Removals, TypeOK

LEMMA DetectorCore ==
    ASSUME TypeOK, CoreInv, NEW p \in Callers,
           \/ p \in Detectors /\ DetectorStep(p)
           \/ p \in Detectors /\ \E s \in Sources : BeginBlock(p, s)
    PROVE  CoreOf(p)' /\ Alone(p)
<1> USE DEF TypeOK, ManagerTypeOK
<1>0. CoreOf(p)
  BY DEF CoreInv
<1> USE <1>0 DEF CoreOf, ControlOf, RowsOf, DueOf, Calling, Deleting, Holding, RuleSteps,
     CleanupSteps, InitializeSteps, DetectorPhases, Alone
<1>1. ASSUME NEW s \in Sources, p \in Detectors, BeginBlock(p, s) PROVE CoreOf(p)' /\ Alone(p)
  BY <1>1 DEF BeginBlock
<1>2. CASE p \in Detectors /\ ReadActive(p)
  <2>1. CASE Become(p, "idle")
    BY <1>2, <2>1, BecomeCore DEF ReadActive
  <2>2. CASE ActiveOf(arg[p]) = {} /\ Enter(p, "probe")
    BY <1>2, <2>2 DEF ReadActive, ActiveOf, ActiveRows
  <2> QED BY <1>2, <2>1, <2>2 DEF ReadActive
<1>3. CASE p \in Detectors /\ ProbeRule(p)
  <2>1. CASE Become(p, "idle")
    BY <1>3, <2>1, BecomeCore DEF ProbeRule
  <2>2. CASE Enter(p, "inserting") /\ Call(p, "insert", arg[p]) /\ UNCHANGED <<row, clk, todo, snap>>
    BY <1>3, <2>2 DEF ProbeRule, Call, FirstStep
  <2> QED BY <1>3, <2>1, <2>2 DEF ProbeRule
<1>4. CASE p \in Detectors /\ ActivateBlock(p)
  BY <1>4, BecomeCore DEF ActivateBlock
<1>5. CASE p \in Detectors /\ ActivateFails(p)
  BY <1>5 DEF ActivateFails, Call, FirstStep
<1>6. CASE RejectInsert(p)
  BY <1>6, BecomeCore DEF RejectInsert
<1>7. CASE EndRollback(p)
  BY <1>7, BecomeCore DEF EndRollback
<1> QED BY <1>1, <1>2, <1>3, <1>4, <1>5, <1>6, <1>7 DEF DetectorStep

(* Going on with the next row, after a transaction that only closes rows. *)
LEMMA NextRowCore ==
    ASSUME TypeOK, CoreInv, NEW p \in Callers, NEW ph, NextRow(p, ph),
           \/ ph = "expiring" /\ phase[p] \in {"deleting", "absent"}
           \/ ph = "reconciling",
           UNCHANGED table \/ ClosesOnly, now' = now
    PROVE  CoreOf(p)' /\ Alone(p)
<1> USE DEF TypeOK, ManagerTypeOK
<1>1. CoreOf(p)
  BY DEF CoreInv
<1>2. /\ phase'[p] = ph /\ op'[p] = "none" /\ step'[p] = "idle"
      /\ todo' = todo /\ clk' = clk
  BY DEF NextRow, Return
<1>3. \A b \in todo[p] : status'[b] # "none" /\ expires'[b] = expires[b]
  BY <1>1 DEF ClosesOnly, CoreOf, RowsOf
<1>4. CoreOf(p)'
  BY <1>1, <1>2, <1>3 DEF CoreOf, ControlOf, RowsOf, DueOf, Calling, Deleting, Holding, RuleSteps,
     CleanupSteps, InitializeSteps, DetectorPhases
<1>5. Alone(p)
  BY DEF NextRow, Return, Alone
<1> QED BY <1>4, <1>5

LEMMA WorkerCore ==
    ASSUME TypeOK, CoreInv, NEW p \in Callers, WorkerStep(p)
    PROVE  CoreOf(p)' /\ Alone(p)
<1> USE DEF TypeOK, ManagerTypeOK
<1>0. CoreOf(p)
  BY DEF CoreInv
<1> USE <1>0 DEF CoreOf, ControlOf, RowsOf, DueOf, Calling, Deleting, Holding, RuleSteps,
     CleanupSteps, InitializeSteps, DetectorPhases, Alone
<1>1. CASE BeginExpiry(p)
  BY <1>1 DEF BeginExpiry
<1>2. CASE ListExpired(p)
  <2>1. PICK S \in SUBSET DueRows(clk[p]) : SetTodo(p, S)
    BY <1>2 DEF ListExpired, FirstDue
  <2>2. \A b \in S : b \in Blocks /\ status[b] = "Active" /\ expires[b] <= clk[p]
    BY DEF DueRows, ActiveRows
  <2> QED BY <1>2, <2>1, <2>2 DEF ListExpired
<1>3. CASE ProbeExpired(p)
  <2>1. PICK b \in todo[p] : /\ SetTodo(p, todo[p] \ {b})
                             /\ \/ /\ SetRow(p, b)
                                   /\ IF HasRule(owner[b])
                                      THEN Enter(p, "deleting") /\ Call(p, "delete", owner[b])
                                      ELSE Enter(p, "absent") /\ UNCHANGED frame
                                   /\ UNCHANGED faults
                                \/ Fault /\ UNCHANGED <<phase, row, frame>>
    BY <1>3 DEF ProbeExpired, Earliest
  <2>2. b \in Blocks /\ status[b] # "none" /\ expires[b] <= clk[p]
    BY <1>3 DEF ProbeExpired
  <2>3. CASE Enter(p, "deleting") /\ Call(p, "delete", owner[b]) /\ SetRow(p, b)
    BY <1>3, <2>1, <2>2, <2>3 DEF ProbeExpired, Call, FirstStep, Succeeded
  <2>4. CASE ~HasRule(owner[b]) /\ Enter(p, "absent") /\ UNCHANGED frame /\ SetRow(p, b)
    BY <1>3, <2>1, <2>2, <2>4 DEF ProbeExpired, HasRule
  <2>5. CASE UNCHANGED <<phase, row, frame>>
    BY <1>3, <2>1, <2>2, <2>5 DEF ProbeExpired
  <2> QED BY <2>1, <2>3, <2>4, <2>5
<1>4. CASE MarkExpired(p)
  <2>1. row[p] \in Blocks /\ phase[p] \in {"deleting", "absent"}
    BY <1>4 DEF MarkExpired
  <2>2. ClosesOnly
    BY <1>4, <2>1, MarkRemovedCloses DEF MarkExpired, Removals
  <2> QED BY <1>4, <2>1, <2>2, NextRowCore DEF MarkExpired
<1>5. CASE ExpiryFails(p)
  BY <1>5, NextRowCore DEF ExpiryFails
<1>6. CASE EndExpiry(p)
  BY <1>6, BecomeCore DEF EndExpiry
<1> QED BY <1>1, <1>2, <1>3, <1>4, <1>5, <1>6 DEF WorkerStep

LEMMA ReconcileCore ==
    ASSUME TypeOK, CoreInv, NEW p \in Callers, ReconcileStep(p) \/ BeginReconcile(p)
    PROVE  CoreOf(p)' /\ Alone(p)
<1> USE DEF TypeOK, ManagerTypeOK
<1>0. CoreOf(p)
  BY DEF CoreInv
<1> USE <1>0 DEF CoreOf, ControlOf, RowsOf, DueOf, Calling, Deleting, Holding, RuleSteps,
     CleanupSteps, InitializeSteps, DetectorPhases, Alone
<1>1. CASE BeginReconcile(p)
  BY <1>1 DEF BeginReconcile
<1>2. CASE ListRules(p)
  <2>1. CASE Become(p, "idle")
    BY <1>2, <2>1, BecomeCore DEF ListRules
  <2>2. CASE Enter(p, "listActive") /\ UNCHANGED <<frame, row, clk, todo>>
    BY <1>2, <2>2 DEF ListRules
  <2> QED BY <1>2, <2>1, <2>2 DEF ListRules
<1>3. CASE ListActive(p)
  BY <1>3 DEF ListActive, ActiveRows
<1>4. CASE ReconcileRow(p)
  <2>1. PICK b \in todo[p] :
          /\ SetTodo(p, todo[p] \ {b})
          /\ \/ /\ expires[b] <= clk[p]
                /\ Enter(p, "lifting") /\ SetRow(p, b) /\ Call(p, "delete", owner[b])
                /\ UNCHANGED <<table, snap>>
             \/ /\ \/ MarkRemoved(b, "Expired", "Reconciliation")
                   \/ MarkRemoved(b, "Inconsistent", "Reconciliation")
                /\ UNCHANGED <<phase, row, frame>>
             \/ UNCHANGED <<table, phase, row, frame>>
    BY <1>4 DEF ReconcileRow, Earliest
  <2>2. b \in Blocks /\ status[b] # "none"
    BY <1>4 DEF ReconcileRow
  <2>3. CASE /\ expires[b] <= clk[p]
             /\ Enter(p, "lifting") /\ SetRow(p, b) /\ Call(p, "delete", owner[b])
             /\ UNCHANGED <<table, snap>>
    BY <1>4, <2>1, <2>2, <2>3 DEF ReconcileRow, Call, FirstStep
  <2>4. CASE /\ \/ MarkRemoved(b, "Expired", "Reconciliation")
                \/ MarkRemoved(b, "Inconsistent", "Reconciliation")
             /\ UNCHANGED <<phase, row, frame>>
    <3>1. ClosesOnly
      BY <2>2, <2>4, MarkRemovedCloses DEF Removals
    <3> QED BY <1>4, <2>1, <2>2, <2>4, <3>1 DEF ReconcileRow, ClosesOnly
  <2>5. CASE UNCHANGED <<table, phase, row, frame>>
    BY <1>4, <2>1, <2>2, <2>5 DEF ReconcileRow
  <2> QED BY <2>1, <2>3, <2>4, <2>5
<1>5. CASE MarkLifted(p)
  <2>1. row[p] \in Blocks
    BY <1>5 DEF MarkLifted
  <2>2. ClosesOnly
    BY <1>5, <2>1, MarkRemovedCloses DEF MarkLifted, Removals
  <2> QED BY <1>5, <2>2 DEF MarkLifted, ClosesOnly, Return
<1>6. CASE LiftFails(p)
  BY <1>6, NextRowCore DEF LiftFails
<1>7. CASE EndReconcile(p)
  BY <1>7, BecomeCore DEF EndReconcile
<1> QED BY <1>1, <1>2, <1>3, <1>4, <1>5, <1>6, <1>7 DEF ReconcileStep

LEMMA UnblockCore ==
    ASSUME TypeOK, CoreInv, NEW p \in Callers,
           UnblockStep(p) \/ \E s \in Sources : BeginUnblock(p, s)
    PROVE  CoreOf(p)' /\ Alone(p)
<1> USE DEF TypeOK, ManagerTypeOK
<1>0. CoreOf(p)
  BY DEF CoreInv
<1> USE <1>0 DEF CoreOf, ControlOf, RowsOf, DueOf, Calling, Deleting, Holding, RuleSteps,
     CleanupSteps, InitializeSteps, DetectorPhases, Alone
<1>1. ASSUME NEW s \in Sources, BeginUnblock(p, s) PROVE CoreOf(p)' /\ Alone(p)
  <2>1. PICK b \in Blocks : status[b] = "Active" /\ owner[b] = s /\ SetRow(p, b)
    BY <1>1 DEF BeginUnblock, Latest, ActiveOf, ActiveRows
  <2> QED BY <1>1, <2>1 DEF BeginUnblock
<1>2. CASE ProbeUnblock(p)
  <2>1. CASE Become(p, "idle")
    BY <1>2, <2>1, BecomeCore DEF ProbeUnblock
  <2>2. CASE Enter(p, "unblockDelete") /\ Call(p, "delete", arg[p])
               /\ UNCHANGED <<faults, row, clk, todo, snap>>
    BY <1>2, <2>2 DEF ProbeUnblock, Call, FirstStep, Succeeded
  <2> QED BY <1>2, <2>1, <2>2 DEF ProbeUnblock
<1>3. CASE MarkUnblocked(p)
  BY <1>3, BecomeCore DEF MarkUnblocked
<1>4. CASE UnblockFails(p)
  BY <1>4, BecomeCore DEF UnblockFails
<1> QED BY <1>1, <1>2, <1>3, <1>4 DEF UnblockStep

LEMMA AdminCore ==
    ASSUME TypeOK, CoreInv, NEW p \in Callers, p \in Admins,
           AdminStep(p) \/ \E c \in {"initialize", "cleanup"} : BeginMaintenance(p, c)
    PROVE  CoreOf(p)' /\ Alone(p)
<1> USE DEF TypeOK, ManagerTypeOK
<1>0. CoreOf(p)
  BY DEF CoreInv
<1> USE <1>0 DEF CoreOf, ControlOf, RowsOf, DueOf, Calling, Deleting, Holding, RuleSteps,
     CleanupSteps, InitializeSteps, DetectorPhases, Alone
<1>1. ASSUME NEW c \in {"initialize", "cleanup"}, BeginMaintenance(p, c) PROVE CoreOf(p)' /\ Alone(p)
  BY <1>1 DEF BeginMaintenance, Call, FirstStep
<1>2. CASE EndMaintenance(p)
  BY <1>2, BecomeCore DEF EndMaintenance
<1>3. CASE ListCleaned(p)
  BY <1>3 DEF ListCleaned, ActiveRows, Return
<1>4. CASE CloseRow(p)
  <2>1. PICK b \in todo[p] : MarkRemoved(b, "Inconsistent", "ExplicitCleanup")
                             /\ SetTodo(p, todo[p] \ {b})
    BY <1>4 DEF CloseRow, Earliest
  <2>2. ClosesOnly
    BY <2>1, MarkRemovedCloses DEF Removals
  <2> QED BY <1>4, <2>1, <2>2 DEF CloseRow, ClosesOnly
<1>5. CASE EndCleanup(p)
  BY <1>5, BecomeCore DEF EndCleanup
<1> QED BY <1>1, <1>2, <1>3, <1>4, <1>5 DEF AdminStep

LEMMA ManagerCore ==
    ASSUME TypeOK, CoreInv, NEW p \in Callers, CallManager(p)
    PROVE  CoreOf(p)' /\ Alone(p)
<1> USE DEF TypeOK, ManagerTypeOK
<1>0. CoreOf(p)
  BY DEF CoreInv
<1>1. /\ op' = op /\ MethodSteps(p)
      /\ \A q \in Callers : q # p => step'[q] = step[q] /\ arg'[q] = arg[q]
  BY ManagerMoves DEF CallManager
<1>2. UNCHANGED <<deaths, table, now, phase, row, clk, todo, snap>>
  BY DEF CallManager
<1>3. Alone(p)
  BY <1>1, <1>2 DEF Alone
<1>4. ControlOf(p)'
  BY <1>0, <1>1, <1>2 DEF CoreOf, ControlOf, MethodSteps, Calling, RuleSteps, CleanupSteps,
     InitializeSteps, Results, Deleting, DetectorPhases
<1>5. phase[p] \in Calling
  BY <1>0, <1>1 DEF CoreOf, ControlOf, MethodSteps, RuleSteps, CleanupSteps, InitializeSteps
<1>6. phase[p] \in {"inserting", "deleting", "unblockDelete"} => arg'[p] = arg[p]
  BY <1>0, <1>1 DEF CoreOf, ControlOf, MethodSteps, RuleSteps, CleanupSteps, InitializeSteps, Deleting
<1>7. RowsOf(p)'
  BY <1>0, <1>2, <1>5, <1>6 DEF CoreOf, RowsOf, Calling, Holding, Deleting
<1>8. DueOf(p)'
  BY <1>0, <1>2 DEF CoreOf, DueOf
<1> QED BY <1>3, <1>4, <1>7, <1>8 DEF CoreOf

(* Every step of p changes one store at most, and only in these ways. *)
Opens(p) ==
    /\ phase[p] = "inserting" /\ p \in Detectors /\ arg[p] \in Sources
    /\ \E b \in Blocks : Activate(b, arg[p], clk[p])

Closes == \E b \in Blocks, st \in Removals : \E how \in Methods : MarkRemoved(b, st, how)

Moves(p) ==
    /\ now' = now
    /\ \/ /\ UNCHANGED table
          /\ \/ Inserts(p) \/ Deletes(p) \/ DropsChain \/ MakesChain(p)
             \/ UNCHANGED <<chain, rules>>
       \/ UNCHANGED <<chain, rules>> /\ (Opens(p) \/ Closes)

(* A step p takes by itself, or a request that starts p. *)
StepOf(p) ==
    \/ Advance(p) \/ Die(p) \/ StopThread(p)
    \/ p \in Detectors /\ \E s \in Sources : BeginBlock(p, s)
    \/ p \in Operators /\ BeginReconcile(p)
    \/ p \in Operators /\ \E s \in Sources : BeginUnblock(p, s)
    \/ p \in Admins /\ \E c \in {"initialize", "cleanup"} : BeginMaintenance(p, c)

LEMMA StepCore ==
    ASSUME TypeOK, CoreInv, NEW p \in Callers, StepOf(p)
    PROVE  CoreOf(p)' /\ Alone(p)
<1>1. CASE Die(p)
  BY <1>1, BecomeCore DEF Die, TypeOK
<1>2. CASE StopThread(p)
  BY <1>2, BecomeCore DEF StopThread, TypeOK
<1> QED
  BY <1>1, <1>2, ManagerCore, DetectorCore, WorkerCore, ReconcileCore, UnblockCore, AdminCore
     DEF StepOf, Advance

LEMMA StepMoves ==
    ASSUME TypeOK, CoreInv, NEW p \in Callers, StepOf(p)
    PROVE  Moves(p)
<1> USE DEF Moves
<1>0. ManagerTypeOK /\ RowsOf(p) /\ ControlOf(p) /\ todo[p] \subseteq Blocks
  BY DEF CoreInv, CoreOf, TypeOK
<1>1. CASE CallManager(p)
  BY <1>0, <1>1, ChainMoves DEF CallManager
<1>2. CASE p \in Detectors /\ DetectorStep(p)
  <2>1. CASE ActivateBlock(p)
    BY <1>0, <1>2, <2>1 DEF ActivateBlock, Opens, ControlOf, DetectorPhases
  <2> QED BY <1>2, <2>1
          DEF DetectorStep, ReadActive, ProbeRule, ActivateFails, RejectInsert, EndRollback
<1>3. CASE WorkerStep(p)
  <2>1. CASE MarkExpired(p)
    BY <1>0, <2>1 DEF MarkExpired, Closes, Removals, Methods, RowsOf, Holding, Deleting
  <2> QED BY <1>3, <2>1
          DEF WorkerStep, BeginExpiry, ListExpired, ProbeExpired, ExpiryFails, EndExpiry
<1>4. CASE ReconcileStep(p)
  <2>1. CASE ReconcileRow(p)
    BY <1>0, <2>1 DEF ReconcileRow, Earliest, Closes, Removals, Methods
  <2>2. CASE MarkLifted(p)
    BY <1>0, <2>2 DEF MarkLifted, Closes, Removals, Methods, RowsOf, Holding, Deleting
  <2> QED BY <1>4, <2>1, <2>2
          DEF ReconcileStep, ListRules, ListActive, LiftFails, EndReconcile
<1>5. CASE UnblockStep(p)
  <2>1. CASE MarkUnblocked(p)
    BY <1>0, <2>1 DEF MarkUnblocked, Closes, Removals, Methods, RowsOf, Holding, Deleting
  <2> QED BY <1>5, <2>1 DEF UnblockStep, ProbeUnblock, UnblockFails
<1>6. CASE AdminStep(p)
  <2>1. CASE CloseRow(p)
    BY <1>0, <2>1 DEF CloseRow, Earliest, Closes, Removals, Methods
  <2> QED BY <1>6, <2>1 DEF AdminStep, EndMaintenance, ListCleaned, EndCleanup
<1>7. CASE ~Advance(p) \/ BeginReconcile(p)
  BY <1>7 DEF StepOf, Die, StopThread, BeginBlock, BeginReconcile, BeginUnblock, BeginMaintenance
<1> QED BY <1>1, <1>2, <1>3, <1>4, <1>5, <1>6, <1>7 DEF Advance

(* A row that was inserted stays, with its owner and its expires_at. *)
LEMMA RowsStay ==
    ASSUME TypeOK, CoreInv, NEW p \in Callers, StepOf(p)
    PROVE  \A b \in Blocks : status[b] # "none" =>
               status'[b] # "none" /\ owner'[b] = owner[b] /\ expires'[b] = expires[b]
<1> USE DEF TypeOK
<1>1. CASE UNCHANGED table
  BY <1>1
<1>2. CASE Opens(p)
  BY <1>2 DEF Opens, Activate
<1>3. CASE Closes
  BY <1>3, MarkRemovedCloses DEF Closes, ClosesOnly
<1> QED BY <1>1, <1>2, <1>3, StepMoves DEF Moves

LEMMA OthersCore ==
    ASSUME TypeOK, CoreInv, NEW p \in Callers, StepOf(p), NEW q \in Callers, q # p
    PROVE  CoreOf(q)'
<1> USE DEF TypeOK, ManagerTypeOK
<1>1. CoreOf(q)
  BY DEF CoreInv
<1>2. Moves(p) /\ Alone(p)
  BY StepMoves, StepCore
<1>3. /\ op'[q] = op[q] /\ step'[q] = step[q] /\ arg'[q] = arg[q]
      /\ phase'[q] = phase[q] /\ row'[q] = row[q]
      /\ clk'[q] = clk[q] /\ todo'[q] = todo[q]
  BY <1>2 DEF Alone
<1>4. \A b \in Blocks : status[b] # "none" =>
          status'[b] # "none" /\ owner'[b] = owner[b] /\ expires'[b] = expires[b]
  BY RowsStay
<1>5. ControlOf(q)'
  BY <1>1, <1>3 DEF CoreOf, ControlOf
<1>6. /\ \A b \in todo[q] : b \in Blocks /\ status[b] # "none"
      /\ phase[q] \in Holding => row[q] \in Blocks /\ status[row[q]] # "none"
  BY <1>1 DEF CoreOf, RowsOf
<1>7. RowsOf(q)'
  BY <1>1, <1>3, <1>4, <1>6 DEF CoreOf, RowsOf, Holding, Deleting
<1>8. DueOf(q)'
  BY <1>1, <1>2, <1>3, <1>4, <1>6 DEF CoreOf, DueOf, Moves, Holding, Deleting
<1> QED BY <1>5, <1>7, <1>8 DEF CoreOf

LEMMA StoresCore ==
    ASSUME TypeOK, CoreInv, NEW p \in Callers, StepOf(p)
    PROVE  Owners' /\ RulesInChain' /\ ProfileHasRow'
<1> USE DEF TypeOK, ManagerTypeOK
<1>1. Owners /\ RulesInChain /\ ProfileHasRow /\ Moves(p)
  BY StepMoves DEF CoreInv
<1>2. RulesInChain'
  <2>1. CASE Inserts(p)
    BY <2>1 DEF Inserts, RulesInChain
  <2>2. CASE Deletes(p)
    BY <1>1, <2>2 DEF Deletes, RulesInChain, HasRule
  <2>3. CASE DropsChain
    BY <2>3 DEF DropsChain, Droppable, RulesInChain, HasRule
  <2>4. CASE MakesChain(p)
    BY <2>4 DEF MakesChain, RulesInChain
  <2>5. CASE UNCHANGED <<chain, rules>>
    BY <1>1, <2>5 DEF RulesInChain, HasRule
  <2> QED BY <1>1, <2>1, <2>2, <2>3, <2>4, <2>5 DEF Moves
<1>3. Owners' /\ ProfileHasRow'
  <2>1. CASE UNCHANGED table
    BY <1>1, <2>1 DEF ProfileHasRow, ActiveOf, ActiveRows, Owners
  <2>2. CASE Opens(p)
    <3>1. PICK b \in Blocks : Activate(b, arg[p], clk[p]) /\ arg[p] \in Sources
      BY <2>2 DEF Opens
    <3>2. /\ status' = [status EXCEPT ![b] = "Active"] /\ owner' = [owner EXCEPT ![b] = arg[p]]
          /\ profile' = [profile EXCEPT ![arg[p]] = "Active"] /\ status[b] = "none"
      BY <3>1 DEF Activate
    <3>3. Owners'
      BY <1>1, <3>1, <3>2 DEF Owners
    <3>4. ProfileHasRow'
      <4> SUFFICES ASSUME NEW s \in Sources, profile'[s] = "Active"
                   PROVE  \E c \in Blocks : status'[c] = "Active" /\ owner'[c] = s
        BY DEF ProfileHasRow, ActiveOf, ActiveRows
      <4>1. CASE s = arg[p]
        BY <3>2, <4>1
      <4>2. CASE s # arg[p]
        <5>1. PICK c \in Blocks : status[c] = "Active" /\ owner[c] = s
          BY <1>1, <3>2, <4>2 DEF ProfileHasRow, ActiveOf, ActiveRows
        <5> QED BY <3>2, <5>1
      <4> QED BY <4>1, <4>2
    <3> QED BY <3>3, <3>4
  <2>3. CASE Closes
    <3>1. PICK b \in Blocks, st \in Removals, how \in Methods : MarkRemoved(b, st, how)
      BY <2>3 DEF Closes
    <3>2. ClosesOnly
      BY <3>1, MarkRemovedCloses
    <3>3. Owners'
      BY <1>1, <3>2 DEF Owners, ClosesOnly
    <3>4. ProfileHasRow'
      <4> SUFFICES ASSUME NEW s \in Sources, profile'[s] = "Active"
                   PROVE  \E c \in Blocks : status'[c] = "Active" /\ owner'[c] = s
        BY DEF ProfileHasRow, ActiveOf, ActiveRows
      <4>1. CASE status[b] # "Active"
        BY <1>1, <3>1, <4>1 DEF MarkRemoved, ProfileHasRow, ActiveOf, ActiveRows
      <4>2. CASE status[b] = "Active"
        <5>1. /\ status' = [status EXCEPT ![b] = st] /\ st # "Active" /\ owner' = owner
              /\ profile' = [profile EXCEPT ![owner[b]] = st] /\ owner[b] \in Sources
          BY <1>1, <3>1, <4>2 DEF MarkRemoved, Removals, Owners
        <5>2. s # owner[b] /\ profile[s] = "Active"
          BY <5>1
        <5>3. PICK c \in Blocks : status[c] = "Active" /\ owner[c] = s
          BY <1>1, <5>2 DEF ProfileHasRow, ActiveOf, ActiveRows
        <5> QED BY <5>1, <5>2, <5>3
      <4> QED BY <4>1, <4>2
    <3> QED BY <3>3, <3>4
  <2> QED BY <1>1, <2>1, <2>2, <2>3 DEF Moves
<1> QED BY <1>2, <1>3

LEMMA AnyStep ==
    ASSUME TypeOK, [Next]_vars
    PROVE  \/ \E p \in Callers : StepOf(p)
           \/ /\ UNCHANGED <<tables, table, faults, deaths, frame, row, clk, todo>>
              /\ now' \in {now, now + 1}
              /\ \A p \in Callers : phase'[p] = phase[p]
                     \/ (phase[p] = "down" /\ phase'[p] \in {"idle", "started"})
<1>1. ASSUME NEW g \in Groups, Start(g)
      PROVE  /\ UNCHANGED <<tables, table, faults, deaths, frame, row, clk, todo, now>>
             /\ \A p \in Callers : phase'[p] = phase[p]
                     \/ (phase[p] = "down" /\ phase'[p] \in {"idle", "started"})
  BY <1>1 DEF Start, TypeOK
<1> QED BY <1>1, ResponseAssumption DEF Next, Request, StepOf, Threads, Tick

\* CoreInv holds in every state, whoever runs beside whom.
THEOREM CoreInvariance == Spec => []CoreInv
<1>1. Init => CoreInv
  BY DEF Init, ManagerInit, NoRules, CoreInv, CoreOf, ControlOf, RowsOf, DueOf, Calling, Deleting,
     Holding, RuleSteps, CleanupSteps, InitializeSteps, DetectorPhases, ProfileHasRow, ActiveOf,
     ActiveRows, Owners, RulesInChain, HasRule
<1>2. TypeOK /\ CoreInv /\ [Next]_vars => CoreInv'
  <2> SUFFICES ASSUME TypeOK, CoreInv, [Next]_vars PROVE CoreInv'
    OBVIOUS
  <2>1. ASSUME NEW p \in Callers, StepOf(p) PROVE CoreInv'
    BY <2>1, StepCore, OthersCore, StoresCore DEF CoreInv
  <2>2. CASE /\ UNCHANGED <<tables, table, faults, deaths, frame, row, clk, todo>>
             /\ now' \in {now, now + 1}
             /\ \A p \in Callers : phase'[p] = phase[p]
                    \/ (phase[p] = "down" /\ phase'[p] \in {"idle", "started"})
    <3>1. ASSUME NEW q \in Callers PROVE CoreOf(q)'
      <4>1. CoreOf(q) /\ (phase'[q] = phase[q]
                            \/ (phase[q] = "down" /\ phase'[q] \in {"idle", "started"}))
        BY <2>2 DEF CoreInv
      <4>2. now \in Nat /\ clk[q] \in Nat
        BY DEF TypeOK
      <4> QED BY <2>2, <4>1, <4>2 DEF CoreOf, ControlOf, RowsOf, DueOf, Calling, Deleting,
                 Holding, RuleSteps, CleanupSteps, InitializeSteps, DetectorPhases
    <3> QED BY <2>2, <3>1 DEF CoreInv, ProfileHasRow, ActiveOf, ActiveRows, Owners, RulesInChain,
               HasRule
  <2> QED BY <2>1, <2>2, AnyStep
<1> QED BY <1>1, <1>2, TypeCorrect, PTL DEF Spec

(***************************************************************************)
(* What a step knows that it rests on: the closing of a row ...            *)
(***************************************************************************)
(* p closes the Active row b; lifting it, p knows that the rule was gone,  *)
(* cleaning up, that the chain was.                                        *)
ClosedBy(p, b) ==
    /\ status' = [status EXCEPT ![b] = status'[b]]
    /\ method' = [method EXCEPT ![b] = method'[b]]
    /\ UNCHANGED <<owner, expires, now, tables>>
    /\ <<status'[b], method'[b]>> \in Ledger!Closings
    /\ status'[b] = "Expired" => expires[b] <= now
    /\ method'[b] \in {"Automatic", "ManualCLI"} => KnowsLifted(p) /\ row[p] = b
    /\ method'[b] = "ExplicitCleanup" => phase[p] = "closing"

LEMMA ClosingSteps ==
    ASSUME TypeOK, CoreInv, NEW p \in Callers, StepOf(p),
           NEW b \in Blocks, status[b] = "Active", status'[b] # "Active"
    PROVE  ClosedBy(p, b)
<1> USE DEF TypeOK, ManagerTypeOK
<1>1. CoreOf(p)
  BY DEF CoreInv
<1>2. ASSUME NEW c \in Blocks, NEW st \in Removals, NEW how \in Methods, MarkRemoved(c, st, how),
             UNCHANGED <<now, tables>>, <<st, how>> \in Ledger!Closings,
             st = "Expired" => expires[c] <= now,
             how \in {"Automatic", "ManualCLI"} => KnowsLifted(p) /\ row[p] = c,
             how = "ExplicitCleanup" => phase[p] = "closing"
      PROVE  ClosedBy(p, b)
  <2>1. c = b
    BY <1>2 DEF MarkRemoved
  <2>2. status'[b] = st /\ method'[b] = how
    BY <1>2, <2>1 DEF MarkRemoved
  <2> QED BY <1>2, <2>1, <2>2 DEF MarkRemoved, ClosedBy
<1> USE DEF CoreOf, RowsOf, KnowsLifted, DueOf, Holding, Deleting,
            Ledger!Closings, Removals, Methods
<1>3. CASE MarkExpired(p)
  <2>1. row[p] \in Blocks /\ phase[p] \in {"absent", "deleting"} /\ KnowsLifted(p)
    BY <1>1, <1>3 DEF MarkExpired
  <2>2. expires[row[p]] <= now
    BY <1>1, <2>1
  <2> QED BY <1>2, <1>3, <2>1, <2>2 DEF MarkExpired
<1>4. CASE ReconcileRow(p)
  <2>1. PICK c \in Blocks : /\ c \in todo[p]
                            /\ \/ expires[c] <= clk[p] /\ MarkRemoved(c, "Expired", "Reconciliation")
                               \/ MarkRemoved(c, "Inconsistent", "Reconciliation")
                               \/ UNCHANGED table
    BY <1>4 DEF ReconcileRow, Earliest
  <2> QED BY <1>1, <1>2, <1>4, <2>1 DEF ReconcileRow
<1>5. CASE MarkLifted(p)
  <2>1. row[p] \in Blocks /\ expires[row[p]] <= now
    BY <1>1, <1>5 DEF MarkLifted
  <2> QED BY <1>2, <1>5, <2>1 DEF MarkLifted
<1>6. CASE MarkUnblocked(p)
  <2>1. row[p] \in Blocks /\ KnowsLifted(p)
    BY <1>1, <1>6 DEF MarkUnblocked
  <2> QED BY <1>2, <1>6, <2>1 DEF MarkUnblocked
<1>7. CASE CloseRow(p)
  <2>1. PICK c \in Blocks : MarkRemoved(c, "Inconsistent", "ExplicitCleanup")
    BY <1>7 DEF CloseRow, Earliest
  <2> QED BY <1>2, <1>7, <2>1 DEF CloseRow
<1>8. CASE UNCHANGED table
  BY <1>8
<1>9. CASE ActivateBlock(p)
  BY <1>9 DEF ActivateBlock, Activate
<1> QED
  BY <1>3, <1>4, <1>5, <1>6, <1>7, <1>8, <1>9
     DEF StepOf, Advance, CallManager, Die, StopThread, DetectorStep, WorkerStep, ReconcileStep,
         UnblockStep, AdminStep, BeginBlock, ReadActive, ProbeRule, ActivateFails, RejectInsert,
         EndRollback, BeginExpiry, ListExpired, ProbeExpired, ExpiryFails, EndExpiry,
         BeginReconcile, ListRules, ListActive, LiftFails, EndReconcile, BeginUnblock,
         ProbeUnblock, UnblockFails, BeginMaintenance, EndMaintenance, ListCleaned, EndCleanup

\* A block is closed as Expired only when it is due, whatever the age of the clock
\* reading its process works with.
THEOREM ExpiryIsDue == Spec => NoEarlyExpiry
<1>1. TypeOK /\ CoreInv /\ [Next]_vars =>
        [\A b \in Blocks :
           status[b] = "Active" /\ status'[b] = "Expired" => expires[b] <= now]_vars
  <2> SUFFICES ASSUME TypeOK, CoreInv, [Next]_vars, NEW b \in Blocks,
                      status[b] = "Active", status'[b] = "Expired"
               PROVE  expires[b] <= now
    OBVIOUS
  <2>1. PICK p \in Callers : StepOf(p)
    BY AnyStep
  <2> QED BY <2>1, ClosingSteps DEF ClosedBy
<1> QED BY <1>1, TypeCorrect, CoreInvariance, PTL DEF Spec, NoEarlyExpiry

(***************************************************************************)
(* ... and what a process finds before it inserts, opens or closes.        *)
(***************************************************************************)
(* The steps between the commands of the manager leave the tables alone. *)
LEMMA BetweenCommands ==
    ASSUME TypeOK, NEW p \in Callers, StepOf(p), ~CallManager(p)
    PROVE  /\ UNCHANGED tables
           /\ \/ op'[p] = op[p] /\ step'[p] = step[p]
              \/ step'[p] \in {"idle", "findChain", "initStart", "cleanStart"}
<1> USE DEF TypeOK, ManagerTypeOK, Become, NextRow, Call, Return, FirstStep
<1>1. CASE p \in Detectors /\ DetectorStep(p)
  BY <1>1 DEF DetectorStep, ReadActive, ProbeRule, ActivateBlock, ActivateFails, RejectInsert,
     EndRollback
<1>2. CASE WorkerStep(p)
  BY <1>2 DEF WorkerStep, BeginExpiry, ListExpired, ProbeExpired, MarkExpired, ExpiryFails,
     EndExpiry
<1>3. CASE ReconcileStep(p)
  BY <1>3 DEF ReconcileStep, ListRules, ListActive, ReconcileRow, MarkLifted, LiftFails,
     EndReconcile
<1>4. CASE UnblockStep(p)
  BY <1>4 DEF UnblockStep, ProbeUnblock, MarkUnblocked, UnblockFails
<1>5. CASE AdminStep(p)
  BY <1>5 DEF AdminStep, EndMaintenance, ListCleaned, CloseRow, EndCleanup
<1>6. ASSUME NEW c \in {"initialize", "cleanup"}, BeginMaintenance(p, c)
      PROVE  UNCHANGED tables /\ step'[p] \in {"initStart", "cleanStart"}
  BY <1>6 DEF BeginMaintenance
<1>7. CASE Die(p) \/ StopThread(p) \/ BeginReconcile(p)
            \/ (\E s \in Sources : BeginBlock(p, s)) \/ (\E s \in Sources : BeginUnblock(p, s))
  BY <1>7 DEF Die, StopThread, BeginReconcile, BeginBlock, BeginUnblock
<1> QED BY <1>1, <1>2, <1>3, <1>4, <1>5, <1>6, <1>7 DEF StepOf, Advance

(* A process waits for the manager call it has in progress, unless it dies. *)
LEMMA Waiting ==
    ASSUME TypeOK, CoreInv, NEW p \in Callers, StepOf(p), ~CallManager(p),
           step[p] \notin Results \cup {"idle"}
    PROVE  Die(p)
<1>1. phase[p] \in Calling
  BY DEF CoreInv, CoreOf, ControlOf
<1> USE <1>1 DEF Calling, Succeeded, Failed, Results
<1>2. ~DetectorStep(p) /\ ~(\E s \in Sources : BeginBlock(p, s))
  BY DEF DetectorStep, ReadActive, ProbeRule, ActivateBlock, ActivateFails, RejectInsert,
     EndRollback, BeginBlock
<1>3. ~WorkerStep(p)
  BY DEF WorkerStep, BeginExpiry, ListExpired, ProbeExpired, MarkExpired, ExpiryFails, EndExpiry
<1>4. ~ReconcileStep(p) /\ ~BeginReconcile(p)
  BY DEF ReconcileStep, ListRules, ListActive, ReconcileRow, MarkLifted, LiftFails, EndReconcile,
     BeginReconcile
<1>5. ~UnblockStep(p) /\ ~(\E s \in Sources : BeginUnblock(p, s))
  BY DEF UnblockStep, ProbeUnblock, MarkUnblocked, UnblockFails, BeginUnblock
<1>6. ~AdminStep(p) /\ ~(\E c \in {"initialize", "cleanup"} : BeginMaintenance(p, c))
  BY DEF AdminStep, EndMaintenance, ListCleaned, CloseRow, EndCleanup, BeginMaintenance
<1>7. ~StopThread(p)
  BY DEF StopThread
<1> QED BY <1>2, <1>3, <1>4, <1>5, <1>6, <1>7 DEF StepOf, Advance

(* Where the phases that matter begin. *)
Entry(p) ==
    /\ phase'[p] = "probe" => ReadActive(p)
    /\ phase'[p] = "inserting" => ProbeRule(p)
    /\ phase'[p] = "rollingBack" => ActivateFails(p)
    /\ phase'[p] \in {"absent", "deleting"} => ProbeExpired(p)
    /\ phase'[p] = "unblockDelete" => ProbeUnblock(p)
    /\ phase'[p] = "closing" => ListCleaned(p) \/ CloseRow(p)

LEMMA Entries ==
    ASSUME TypeOK, NEW p \in Callers, StepOf(p), ~CallManager(p)
    PROVE  Entry(p)
<1> USE DEF TypeOK, ManagerTypeOK, Become, NextRow, Entry
<1>1. CASE DetectorStep(p)
  BY <1>1 DEF DetectorStep, ReadActive, ProbeRule, ActivateBlock, ActivateFails, RejectInsert,
     EndRollback
<1>2. CASE WorkerStep(p)
  <2>1. CASE ProbeExpired(p)
    <3>1. phase'[p] \in {"expiring", "absent", "deleting"}
      BY <2>1 DEF ProbeExpired
    <3> QED BY <2>1, <3>1
  <2>2. CASE MarkExpired(p) \/ ExpiryFails(p)
    BY <2>2 DEF MarkExpired, ExpiryFails
  <2>3. CASE BeginExpiry(p) \/ ListExpired(p) \/ EndExpiry(p)
    BY <2>3 DEF BeginExpiry, ListExpired, EndExpiry
  <2> QED BY <1>2, <2>1, <2>2, <2>3 DEF WorkerStep
<1>3. CASE ReconcileStep(p)
  BY <1>3 DEF ReconcileStep, ListRules, ListActive, ReconcileRow, MarkLifted, LiftFails,
     EndReconcile
<1>4. CASE UnblockStep(p)
  BY <1>4 DEF UnblockStep, ProbeUnblock, MarkUnblocked, UnblockFails
<1>5. CASE AdminStep(p)
  BY <1>5 DEF AdminStep, EndMaintenance, ListCleaned, CloseRow, EndCleanup
<1>6. CASE \E c \in {"initialize", "cleanup"} : BeginMaintenance(p, c)
  BY <1>6 DEF BeginMaintenance
<1>7. CASE Die(p) \/ StopThread(p) \/ BeginReconcile(p)
            \/ (\E s \in Sources : BeginBlock(p, s)) \/ (\E s \in Sources : BeginUnblock(p, s))
  BY <1>7 DEF Die, StopThread, BeginReconcile, BeginBlock, BeginUnblock
<1> QED BY <1>1, <1>2, <1>3, <1>4, <1>5, <1>6, <1>7 DEF StepOf, Advance

(* Whoever is about to insert a rule found none. *)
LEMMA Applies ==
    ASSUME TypeOK, CoreInv, NEW p \in Callers, StepOf(p), op'[p] = "insert", step'[p] = "apply"
    PROVE  UNCHANGED tables /\ arg'[p] = arg[p] /\ ~HasRule(arg[p])
<1> USE DEF TypeOK, ManagerTypeOK
<1>1. ControlOf(p)
  BY DEF CoreInv, CoreOf
<1>2. CASE CallManager(p)
  <2>1. op' = op /\ MethodSteps(p)
    BY <1>2, ManagerMoves DEF CallManager
  <2>2. step[p] \in RuleSteps
    BY <1>1, <2>1 DEF ControlOf, MethodSteps
  <2> QED BY <2>1, <2>2 DEF MethodSteps
<1>3. CASE ~CallManager(p)
  <2>1. step[p] = "apply"
    BY <1>3, BetweenCommands
  <2>2. Die(p)
    BY <1>3, <2>1, Waiting DEF Results
  <2> QED BY <2>2 DEF Die, Become, Return
<1> QED BY <1>2, <1>3

(* Whoever is about to open a row has found none, and goes on with its source. *)
LEMMA Seeks ==
    ASSUME TypeOK, CoreInv, NEW p \in Callers, StepOf(p), phase'[p] \in {"probe", "inserting"}
    PROVE  /\ UNCHANGED table /\ arg'[p] = arg[p]
           /\ phase[p] \in {"probe", "inserting"} \/ ActiveOf(arg[p]) = {}
<1> USE DEF TypeOK, ManagerTypeOK
<1>1. ControlOf(p)
  BY DEF CoreInv, CoreOf
<1>2. CASE CallManager(p)
  <2>1. op' = op /\ MethodSteps(p) /\ UNCHANGED <<phase, table>>
    BY <1>2, ManagerMoves DEF CallManager
  <2>2. step[p] \in RuleSteps
    BY <1>1, <2>1 DEF ControlOf, MethodSteps, Calling
  <2> QED BY <2>1, <2>2 DEF MethodSteps
<1>3. CASE ReadActive(p)
  BY <1>3 DEF ReadActive, Become
<1>4. CASE ProbeRule(p)
  BY <1>4 DEF ProbeRule, Become, Call
<1> QED BY <1>2, <1>3, <1>4, Entries DEF Entry

(* Whoever comes to know that the rule of its row is gone sees that it is. *)
LEMMA Learns ==
    ASSUME TypeOK, CoreInv, NEW p \in Callers, StepOf(p), KnowsLifted(p)'
    PROVE  /\ UNCHANGED <<tables, table>>
           /\ row'[p] \in Blocks /\ ~HasRule(owner[row'[p]])
<1> USE DEF TypeOK, ManagerTypeOK
<1>1. ControlOf(p) /\ RowsOf(p)
  BY DEF CoreInv, CoreOf
<1>2. CASE CallManager(p)
  <2>1. op' = op /\ MethodSteps(p) /\ UNCHANGED <<phase, table, row>>
    BY <1>2, ManagerMoves DEF CallManager
  <2>2. phase[p] \in Calling
    BY <1>1, <2>1 DEF ControlOf, MethodSteps, RuleSteps, CleanupSteps, InitializeSteps
  <2>3. phase[p] \in {"deleting", "unblockDelete"} /\ step'[p] \in {"changed", "unchanged"}
    BY <2>1, <2>2 DEF KnowsLifted, Succeeded, Calling
  <2>4. op[p] = "delete" /\ step[p] \in RuleSteps
    BY <1>1, <2>1, <2>3 DEF ControlOf, MethodSteps, Deleting
  <2>5. ~HasRule(arg[p]) /\ UNCHANGED tables
    BY <2>1, <2>3, <2>4 DEF MethodSteps
  <2> QED BY <1>1, <2>1, <2>3, <2>5 DEF RowsOf, Holding, Deleting
<1>3. CASE ProbeExpired(p)
  <2>1. PICK b \in todo[p] : \/ /\ SetRow(p, b)
                                /\ IF HasRule(owner[b])
                                   THEN Enter(p, "deleting") /\ Call(p, "delete", owner[b])
                                   ELSE Enter(p, "absent") /\ UNCHANGED frame
                             \/ UNCHANGED <<phase, row, frame>>
    BY <1>3 DEF ProbeExpired, Earliest
  <2>2. b \in Blocks /\ UNCHANGED <<tables, table>> /\ phase[p] = "expiring"
    BY <1>3 DEF ProbeExpired
  <2> QED BY <2>1, <2>2 DEF KnowsLifted, Succeeded, Call, FirstStep
<1>4. CASE ProbeUnblock(p)
  BY <1>4 DEF ProbeUnblock, KnowsLifted, Succeeded, Become, Call, FirstStep
<1> QED BY <1>2, <1>3, <1>4, Entries DEF Entry, KnowsLifted

(***************************************************************************)
(* Bounds.  A process about to insert, open or add found none, so that     *)
(* each of the competitors contributes one at most.                        *)
(***************************************************************************)
(* A set that loses a member. *)
LEMMA LosesOne ==
    ASSUME NEW S, IsFiniteSet(S), NEW T, NEW p \in S, T \subseteq S \ {p}
    PROVE  IsFiniteSet(T) /\ Cardinality(T) + 1 <= Cardinality(S)
<1>1. IsFiniteSet(S \ {p}) /\ Cardinality(S \ {p}) = Cardinality(S) - 1
  BY FS_RemoveElement
<1>2. IsFiniteSet(T) /\ Cardinality(T) <= Cardinality(S \ {p})
  BY <1>1, FS_Subset
<1> QED BY <1>1, <1>2, FS_CardinalityType

LEMMA RuleShare ==
    ASSUME TypeOK, CoreInv, IsFiniteSet(Detectors), RuleShares, NEW p \in Callers, StepOf(p)
    PROVE  RuleShares'
<1> USE DEF TypeOK, ManagerTypeOK
<1> SUFFICES ASSUME NEW s \in Sources
             PROVE  rules'[s] + Cardinality(Applying(s)') <= Cardinality(Detectors)
  BY DEF RuleShares
<1>1. /\ IsFiniteSet(Applying(s)) /\ Cardinality(Applying(s)) \in Nat
      /\ IsFiniteSet(Applying(s)') /\ Cardinality(Applying(s)') \in Nat
      /\ Cardinality(Applying(s)') <= Cardinality(Detectors) /\ Cardinality(Detectors) \in Nat
  <2>1. Applying(s) \subseteq Detectors /\ Applying(s)' \subseteq Detectors
    BY DEF Applying
  <2> QED BY <2>1, FS_Subset, FS_CardinalityType
<1>2. rules[s] \in Nat /\ rules[s] + Cardinality(Applying(s)) <= Cardinality(Detectors)
  BY DEF RuleShares
<1>3. Moves(p) /\ Alone(p) /\ Detectors \subseteq Callers
  BY StepMoves, StepCore, ResponseAssumption
<1>4. CASE p \in Applying(s)'
  <2>1. op'[p] = "insert" /\ step'[p] = "apply" /\ arg'[p] = s
    BY <1>4 DEF Applying
  <2>2. UNCHANGED tables /\ ~HasRule(s)
    BY <2>1, Applies
  <2>3. rules'[s] = 0
    BY <1>2, <2>2 DEF HasRule
  <2> QED BY <1>1, <2>3
<1>5. CASE p \notin Applying(s)'
  <2>1. Applying(s)' \subseteq Applying(s) \ {p}
    BY <1>3, <1>5 DEF Alone, Applying
  <2>2. CASE Inserts(p) /\ arg[p] = s
    <3>1. p \in Applying(s)
      BY <2>2 DEF Applying, Inserts, CoreInv, CoreOf, ControlOf
    <3>2. rules'[s] = rules[s] + 1
      BY <2>2 DEF Inserts
    <3>3. Cardinality(Applying(s)') + 1 <= Cardinality(Applying(s))
      BY <1>1, <2>1, <3>1, LosesOne
    <3> QED BY <1>1, <1>2, <3>2, <3>3
  <2>3. CASE ~(Inserts(p) /\ arg[p] = s)
    <3>1. rules'[s] <= rules[s] /\ rules'[s] \in Int
      BY <1>2, <1>3, <2>3 DEF Moves, Inserts, Deletes, DropsChain, MakesChain
    <3>2. Cardinality(Applying(s)') <= Cardinality(Applying(s))
      BY <1>1, <2>1, FS_Subset
    <3> QED BY <1>1, <1>2, <3>1, <3>2
  <2> QED BY <2>2, <2>3
<1> QED BY <1>4, <1>5

LEMMA RowShare ==
    ASSUME TypeOK, CoreInv, IsFiniteSet(Detectors), RowShares, NEW p \in Callers, StepOf(p)
    PROVE  RowShares'
<1> USE DEF TypeOK, ManagerTypeOK
<1> SUFFICES ASSUME NEW s \in Sources
             PROVE  /\ IsFiniteSet(ActiveOf(s)')
                    /\ Cardinality(ActiveOf(s)') + Cardinality(Opening(s)') <= Cardinality(Detectors)
  BY DEF RowShares
<1>1. /\ IsFiniteSet(Opening(s)) /\ Cardinality(Opening(s)) \in Nat
      /\ IsFiniteSet(Opening(s)') /\ Cardinality(Opening(s)') \in Nat
      /\ Cardinality(Opening(s)') <= Cardinality(Detectors) /\ Cardinality(Detectors) \in Nat
  <2>1. Opening(s) \subseteq Detectors /\ Opening(s)' \subseteq Detectors
    BY DEF Opening
  <2> QED BY <2>1, FS_Subset, FS_CardinalityType
<1>2. /\ IsFiniteSet(ActiveOf(s)) /\ Cardinality(ActiveOf(s)) \in Nat
      /\ Cardinality(ActiveOf(s)) + Cardinality(Opening(s)) <= Cardinality(Detectors)
  BY FS_CardinalityType DEF RowShares
<1>3. Moves(p) /\ Alone(p) /\ Detectors \subseteq Callers
  BY StepMoves, StepCore, ResponseAssumption
<1>4. CASE p \in Opening(s)'
  <2>1. phase'[p] \in {"probe", "inserting"} /\ arg'[p] = s /\ p \in Detectors
    BY <1>4 DEF Opening
  <2>2. /\ UNCHANGED table /\ arg[p] = s
        /\ phase[p] \in {"probe", "inserting"} \/ ActiveOf(s) = {}
    BY <2>1, Seeks
  <2>3. ActiveOf(s)' = ActiveOf(s)
    BY <2>2 DEF ActiveOf, ActiveRows
  <2>4. CASE phase[p] \in {"probe", "inserting"}
    <3>1. Opening(s)' \subseteq Opening(s)
      BY <1>3, <2>1, <2>2, <2>4 DEF Alone, Opening
    <3>2. Cardinality(Opening(s)') <= Cardinality(Opening(s))
      BY <1>1, <3>1, FS_Subset
    <3> QED BY <1>1, <1>2, <2>3, <3>2
  <2>5. CASE ActiveOf(s) = {}
    <3>1. Cardinality(ActiveOf(s)') = 0
      BY <2>3, <2>5, FS_EmptySet
    <3> QED BY <1>1, <1>2, <2>3, <3>1
  <2> QED BY <2>2, <2>4, <2>5
<1>5. CASE p \notin Opening(s)'
  <2>1. Opening(s)' \subseteq Opening(s) \ {p}
    BY <1>3, <1>5 DEF Alone, Opening
  <2>2. Cardinality(Opening(s)') <= Cardinality(Opening(s))
    BY <1>1, <2>1, FS_Subset
  <2>3. CASE Opens(p) /\ arg[p] = s
    <3>1. p \in Opening(s)
      BY <2>3 DEF Opening, Opens
    <3>2. Cardinality(Opening(s)') + 1 <= Cardinality(Opening(s))
      BY <1>1, <2>1, <3>1, LosesOne
    <3>3. PICK b \in Blocks : Activate(b, s, clk[p])
      BY <2>3 DEF Opens
    <3>4. ActiveOf(s)' = ActiveOf(s) \cup {b}
      BY <3>3 DEF Activate, ActiveOf, ActiveRows
    <3>5. IsFiniteSet(ActiveOf(s)') /\ Cardinality(ActiveOf(s)') <= Cardinality(ActiveOf(s)) + 1
      <4>1. CASE b \in ActiveOf(s)
        <5>1. ActiveOf(s)' = ActiveOf(s)
          BY <3>4, <4>1
        <5> QED BY <1>2, <5>1
      <4>2. CASE b \notin ActiveOf(s)
        <5>1. /\ IsFiniteSet(ActiveOf(s) \cup {b})
              /\ Cardinality(ActiveOf(s) \cup {b}) = Cardinality(ActiveOf(s)) + 1
          BY <1>2, <4>2, FS_AddElement
        <5> QED BY <1>2, <3>4, <5>1
      <4> QED BY <4>1, <4>2
    <3>6. Cardinality(ActiveOf(s)') \in Nat
      BY <3>5, FS_CardinalityType
    <3> QED BY <1>1, <1>2, <3>2, <3>5, <3>6
  <2>4. CASE ~(Opens(p) /\ arg[p] = s)
    <3>1. ActiveOf(s)' \subseteq ActiveOf(s)
      <4>1. CASE UNCHANGED table
        BY <4>1 DEF ActiveOf, ActiveRows
      <4>2. CASE Opens(p)
        BY <2>4, <4>2 DEF Opens, Activate, ActiveOf, ActiveRows
      <4>3. CASE Closes
        BY <4>3, MarkRemovedCloses DEF Closes, ClosesOnly, ActiveOf, ActiveRows
      <4> QED BY <1>3, <4>1, <4>2, <4>3 DEF Moves
    <3>2. IsFiniteSet(ActiveOf(s)') /\ Cardinality(ActiveOf(s)') <= Cardinality(ActiveOf(s))
      BY <1>2, <3>1, FS_Subset
    <3>3. Cardinality(ActiveOf(s)') \in Nat
      BY <3>2, FS_CardinalityType
    <3> QED BY <1>1, <1>2, <2>2, <3>2, <3>3
  <2> QED BY <2>3, <2>4
<1> QED BY <1>4, <1>5

(* How the jump changes. *)
LEMMA JumpMoves ==
    ASSUME ManagerTypeOK, NEW p \in Callers, ManagerStep(p)
    PROVE  \/ step[p] = "makeJump" /\ step'[p] # "makeJump" /\ jump' \in {jump, jump + 1}
           \/ /\ jump' = jump \/ (jump > 0 /\ jump' = jump - 1)
              /\ step'[p] = "makeJump" => jump = 0 /\ jump' = jump
<1> USE DEF ManagerTypeOK, Check, Change
<1>1. CASE MakeJump(p)
  BY <1>1 DEF MakeJump, AddJump
<1>2. CASE DropJump(p)
  BY <1>2 DEF DropJump, AddJump
<1>3. CASE InitJump(p)
  BY <1>3 DEF InitJump
<1>4. CASE ApplyChange(p)
  BY <1>4 DEF ApplyChange, AddRule
<1>5. CASE DropChain(p) \/ MakeChain(p)
  BY <1>5 DEF DropChain, MakeChain, ChainGone, ChainMade
<1>6. CASE FindChain(p) \/ FindRule(p) \/ ConfirmChange(p) \/ CleanStart(p)
             \/ CleanList(p) \/ CleanNext(p) \/ FindJump(p) \/ ConfirmJump(p)
             \/ ConfirmChain(p) \/ InitStart(p) \/ ConfirmInit(p) \/ ConfirmInitJump(p)
  BY <1>6 DEF FindChain, FindRule, ConfirmChange, CleanStart, CleanList, CleanNext, Done,
     FindJump, ConfirmJump, ConfirmChain, InitStart, ConfirmInit, ConfirmInitJump
<1> QED
  BY <1>1, <1>2, <1>3, <1>4, <1>5, <1>6 DEF ManagerStep, ChangeRule, Cleanup, Initialize

LEMMA JumpShare ==
    ASSUME TypeOK, CoreInv, IsFiniteSet(Admins), JumpShares, NEW p \in Callers, StepOf(p)
    PROVE  JumpShares'
<1> USE DEF TypeOK, ManagerTypeOK
<1>1. Jumping \subseteq Admins /\ Jumping' \subseteq Admins
  BY DEF Jumping
<1>2. /\ IsFiniteSet(Jumping) /\ Cardinality(Jumping) \in Nat
      /\ IsFiniteSet(Jumping') /\ Cardinality(Jumping') \in Nat
      /\ Cardinality(Jumping') <= Cardinality(Admins) /\ Cardinality(Admins) \in Nat
  BY <1>1, FS_Subset, FS_CardinalityType
<1>3. MostJumps \in Nat /\ jump \in Nat /\ jump + Cardinality(Jumping) <= MostJumps
  BY <1>2 DEF MostJumps, JumpShares
<1>4. \A q \in Callers : q # p => step'[q] = step[q]
  BY StepCore DEF Alone
<1>5. Admins \subseteq Callers
  BY ResponseAssumption
<1>6. step[p] = "makeJump" => p \in Jumping
  BY DEF CoreInv, CoreOf, ControlOf, InitializeSteps, Jumping
<1>7. CASE p \notin Jumping' /\ step[p] = "makeJump" /\ jump' \in {jump, jump + 1}
  <2>1. Jumping' \subseteq Jumping \ {p}
    BY <1>4, <1>5, <1>7 DEF Jumping
  <2>2. Cardinality(Jumping') + 1 <= Cardinality(Jumping)
    BY <1>2, <1>6, <1>7, <2>1, LosesOne
  <2> QED BY <1>2, <1>3, <1>7, <2>2 DEF JumpShares, MostJumps
<1>8. CASE Jumping' \subseteq Jumping /\ jump' \in Nat /\ jump' <= jump
  <2>1. Cardinality(Jumping') <= Cardinality(Jumping)
    BY <1>2, <1>8, FS_Subset
  <2> QED BY <1>2, <1>3, <1>8, <2>1 DEF JumpShares, MostJumps
<1>9. CASE p \in Jumping' /\ jump' = 0
  <2>1. Admins # {}
    BY <1>1, <1>9
  <2>2. MostJumps = Cardinality(Admins)
    BY <2>1 DEF MostJumps
  <2> QED BY <1>2, <1>9, <2>2 DEF JumpShares, MostJumps
<1>10. CASE CallManager(p)
  <2>1. CASE step[p] = "makeJump" /\ step'[p] # "makeJump" /\ jump' \in {jump, jump + 1}
    <3>1. p \notin Jumping'
      BY <2>1 DEF Jumping
    <3> QED BY <1>7, <2>1, <3>1
  <2>2. CASE /\ jump' = jump \/ (jump > 0 /\ jump' = jump - 1)
             /\ step'[p] = "makeJump" => jump = 0 /\ jump' = jump
    <3>1. CASE p \in Jumping'
      BY <1>9, <2>2, <3>1 DEF Jumping
    <3>2. CASE p \notin Jumping'
      <4>1. Jumping' \subseteq Jumping
        BY <1>4, <1>5, <3>2 DEF Jumping
      <4> QED BY <1>3, <1>8, <2>2, <4>1
    <3> QED BY <3>1, <3>2
  <2> QED BY <1>10, <2>1, <2>2, JumpMoves DEF CallManager
<1>11. CASE ~CallManager(p)
  <2>1. jump' = jump /\ (step'[p] = "makeJump" => step[p] = "makeJump")
    BY <1>11, BetweenCommands
  <2>2. Jumping' \subseteq Jumping
    BY <1>4, <1>5, <2>1 DEF Jumping
  <2> QED BY <1>3, <1>8, <2>1, <2>2
<1> QED BY <1>10, <1>11

(* Between the steps of processes nobody begins or ends to open a row. *)
LEMMA OpeningStays ==
    ASSUME TypeOK, CoreInv, UNCHANGED <<tables, table, frame>>, RowShares,
           \A p \in Callers : phase'[p] = phase[p]
               \/ (phase[p] = "down" /\ phase'[p] \in {"idle", "started"})
    PROVE  RowShares'
<1>1. Detectors \subseteq Callers
  BY ResponseAssumption
<1>2. ASSUME NEW s \in Sources PROVE Opening(s)' = Opening(s) /\ ActiveOf(s)' = ActiveOf(s)
  BY <1>1 DEF Opening, ActiveOf, ActiveRows
<1> QED BY <1>2, Zenon DEF RowShares

(* Before anything runs nobody has a share. *)
LEMMA NoShares ==
    ASSUME Init, IsFiniteSet(Detectors)
    PROVE  RuleShares /\ RowShares
<1> SUFFICES ASSUME NEW s \in Sources
             PROVE  /\ rules[s] + Cardinality(Applying(s)) <= Cardinality(Detectors)
                    /\ IsFiniteSet(ActiveOf(s))
                    /\ Cardinality(ActiveOf(s)) + Cardinality(Opening(s)) <= Cardinality(Detectors)
  BY DEF RuleShares, RowShares
<1>1. rules[s] = 0
  BY DEF Init, ManagerInit
<1>2. Applying(s) = {} /\ Opening(s) = {} /\ ActiveOf(s) = {}
  BY ResponseAssumption DEF Init, ManagerInit, Applying, Opening, ActiveOf, ActiveRows
<1>3. IsFiniteSet({}) /\ Cardinality({}) = 0 /\ Cardinality(Detectors) \in Nat
  BY FS_EmptySet, FS_CardinalityType
<1> QED BY <1>1, <1>2, <1>3

LEMMA NoJumpShares ==
    ASSUME Init, IsFiniteSet(Admins)
    PROVE  JumpShares
<1>1. jump = 1 /\ Jumping = {}
  BY ResponseAssumption DEF Init, ManagerInit, Jumping
<1>2. Cardinality({}) = 0
  BY FS_EmptySet
<1>3. MostJumps \in Nat /\ MostJumps >= 1
  <2>1. Cardinality(Admins) \in Nat /\ (Cardinality(Admins) = 0 <=> Admins = {})
    BY FS_CardinalityType, FS_EmptySet
  <2> QED BY <2>1 DEF MostJumps
<1> QED BY <1>1, <1>2, <1>3 DEF JumpShares

\* Every detector about to insert or to open has its share, in every state.
LEMMA SharesInvariance ==
    ASSUME IsFiniteSet(Detectors)
    PROVE  Spec => [](RuleShares /\ RowShares)
<1>1. TypeOK /\ CoreInv /\ RuleShares /\ RowShares /\ [Next]_vars => (RuleShares /\ RowShares)'
  <2> SUFFICES ASSUME TypeOK, CoreInv, RuleShares, RowShares, [Next]_vars
               PROVE  RuleShares' /\ RowShares'
    OBVIOUS
  <2>1. ASSUME UNCHANGED <<tables, table, frame>> PROVE RuleShares'
    <3>1. \A s \in Sources : Applying(s)' = Applying(s)
      BY <2>1 DEF Applying
    <3> QED BY <2>1, <3>1, Zenon DEF RuleShares
  <2>2. RuleShares'
    BY <2>1, RuleShare, AnyStep
  <2>3. RowShares'
    BY RowShare, OpeningStays, AnyStep
  <2> QED BY <2>2, <2>3
<1> QED BY <1>1, NoShares, TypeCorrect, CoreInvariance, PTL DEF Spec

\* However many detectors race, a source never has more copies of its rule than
\* there are detectors, ...
THEOREM RulesAreBounded ==
    ASSUME IsFiniteSet(Detectors)
    PROVE  Spec => []RulesBounded
<1>1. TypeOK /\ RuleShares => RulesBounded
  <2> SUFFICES ASSUME TypeOK, RuleShares, NEW s \in Sources PROVE rules[s] <= Cardinality(Detectors)
    BY DEF RulesBounded
  <2>1. Applying(s) \subseteq Detectors
    BY DEF Applying
  <2>2. IsFiniteSet(Applying(s))
    BY <2>1, FS_Subset
  <2>3. Cardinality(Applying(s)) \in Nat /\ Cardinality(Detectors) \in Nat /\ rules[s] \in Nat
    BY <2>2, FS_CardinalityType DEF TypeOK, ManagerTypeOK
  <2> QED BY <2>3 DEF RuleShares
<1> QED BY <1>1, TypeCorrect, SharesInvariance, PTL

\* ... never more Active rows, ...
THEOREM RowsAreBounded ==
    ASSUME IsFiniteSet(Detectors)
    PROVE  Spec => []RowsBounded
<1>1. RowShares => RowsBounded
  <2> SUFFICES ASSUME RowShares, NEW s \in Sources
               PROVE  Cardinality(ActiveOf(s)) <= Cardinality(Detectors)
    BY DEF RowsBounded
  <2>1. Opening(s) \subseteq Detectors
    BY DEF Opening
  <2>2. IsFiniteSet(Opening(s)) /\ IsFiniteSet(ActiveOf(s))
    BY <2>1, FS_Subset DEF RowShares
  <2>3. /\ Cardinality(Opening(s)) \in Nat /\ Cardinality(Detectors) \in Nat
        /\ Cardinality(ActiveOf(s)) \in Nat
    BY <2>2, FS_CardinalityType
  <2> QED BY <2>3 DEF RowShares
<1> QED BY <1>1, SharesInvariance, PTL

\* ... and the chain never more jumps than there are administrators.
THEOREM JumpsAreBounded ==
    ASSUME IsFiniteSet(Admins)
    PROVE  Spec => []JumpsBounded
<1>1. TypeOK /\ CoreInv /\ JumpShares /\ [Next]_vars => JumpShares'
  <2> SUFFICES ASSUME TypeOK, CoreInv, JumpShares, [Next]_vars PROVE JumpShares'
    OBVIOUS
  <2>1. CASE UNCHANGED <<tables, table, frame>>
    <3>1. Jumping' = Jumping
      BY <2>1 DEF Jumping
    <3> QED BY <2>1, <3>1, Zenon DEF JumpShares, MostJumps
  <2> QED BY <2>1, JumpShare, AnyStep
<1>2. TypeOK /\ JumpShares => JumpsBounded
  <2> SUFFICES ASSUME TypeOK, JumpShares PROVE jump <= MostJumps
    BY DEF JumpsBounded
  <2>1. Jumping \subseteq Admins
    BY DEF Jumping
  <2>2. IsFiniteSet(Jumping)
    BY <2>1, FS_Subset
  <2>3. Cardinality(Jumping) \in Nat /\ Cardinality(Admins) \in Nat /\ jump \in Nat
    BY <2>2, FS_CardinalityType DEF TypeOK, ManagerTypeOK
  <2> QED BY <2>3 DEF JumpShares, MostJumps
<1> QED BY <1>1, <1>2, NoJumpShares, TypeCorrect, CoreInvariance, PTL DEF Spec
=============================================================================
