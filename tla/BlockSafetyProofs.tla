------------------------- MODULE BlockSafetyProofs -------------------------
(***************************************************************************)
(* What holds of BlockResponse with one detector, or one administrator, or *)
(* one of each.  With one detector the bounds of BlockResponseProofs say   *)
(* that whoever is about to insert or to open is alone, so that a rule     *)
(* seen to be gone stays gone while its row is Active (LiftedOf).  With    *)
(* one administrator a removed chain stays removed while its rows are      *)
(* closed (RemovedOf), and whoever counts on that needs no more: the       *)
(* owner of a rule is found whatever the number of detectors.              *)
(***************************************************************************)
EXTENDS BlockResponseProofs

USE DEF tables, frame, table, locals, vars,
        GoTo, Enter, SetRow, SetClk, SetTodo, SetSnap, At

(***************************************************************************)
(* One of a kind                                                           *)
(***************************************************************************)
LEMMA AtMostOne ==
    ASSUME NEW S, \A x, y \in S : x = y
    PROVE  IsFiniteSet(S) /\ Cardinality(S) \in {0, 1}
<1>1. CASE S = {}
  BY <1>1, FS_EmptySet
<1>2. ASSUME NEW x \in S PROVE IsFiniteSet(S) /\ Cardinality(S) \in {0, 1}
  <2>1. S = {x}
    OBVIOUS
  <2> QED BY <2>1, FS_Singleton
<1> QED BY <1>1, <1>2

\* The chain never has a second jump, however often it is made and cleaned up.
THEOREM AtMostOneJump ==
    ASSUME OneAdmin
    PROVE  Spec => []OneJump
<1>1. IsFiniteSet(Admins) /\ Cardinality(Admins) \in {0, 1}
  BY AtMostOne DEF OneAdmin
<1>2. Admins # {} => Cardinality(Admins) = 1
  BY <1>1, FS_EmptySet
<1>3. JumpsBounded => OneJump
  BY <1>2 DEF JumpsBounded, MostJumps, OneJump
<1> QED BY <1>1, <1>3, JumpsAreBounded, PTL

(* Of two quantities that share one, the second leaves nothing to the first. *)
LEMMA NothingLeft ==
    ASSUME NEW m \in Nat, NEW S, IsFiniteSet(S), S # {}, m + Cardinality(S) <= 1
    PROVE  m = 0
<1>1. Cardinality(S) \in Nat /\ Cardinality(S) # 0
  BY FS_CardinalityType, FS_EmptySet
<1> QED BY <1>1

\* A detector that is about to insert or to open is alone.
LEMMA OneShare ==
    ASSUME OneDetector, TypeOK, CoreInv, RuleShares, RowShares
    PROVE  /\ SingleActive /\ NoDuplicateRule
           /\ \A p \in Callers : FreshOf(p) /\ InsertOf(p)
<1>1. IsFiniteSet(Detectors) /\ Cardinality(Detectors) \in {0, 1}
  BY AtMostOne DEF OneDetector
<1>2. ASSUME NEW s \in Sources
      PROVE  /\ rules[s] <= 1 /\ (Applying(s) # {} => rules[s] = 0)
             /\ IsFiniteSet(ActiveOf(s)) /\ Cardinality(ActiveOf(s)) <= 1
             /\ Opening(s) # {} => ActiveOf(s) = {}
  <2>1. Applying(s) \subseteq Detectors /\ Opening(s) \subseteq Detectors
    BY DEF Applying, Opening
  <2>2. IsFiniteSet(Applying(s)) /\ IsFiniteSet(Opening(s)) /\ IsFiniteSet(ActiveOf(s))
    BY <1>1, <2>1, FS_Subset DEF RowShares
  <2>3. /\ Cardinality(Applying(s)) \in Nat /\ Cardinality(Opening(s)) \in Nat
        /\ Cardinality(ActiveOf(s)) \in Nat /\ rules[s] \in Nat
    BY <2>2, FS_CardinalityType DEF TypeOK, ManagerTypeOK
  <2>4. /\ rules[s] + Cardinality(Applying(s)) <= 1
        /\ Cardinality(ActiveOf(s)) + Cardinality(Opening(s)) <= 1
    BY <1>1, <2>3 DEF RuleShares, RowShares
  <2>5. Applying(s) # {} => rules[s] = 0
    BY <2>2, <2>3, <2>4, NothingLeft
  <2>6. Opening(s) # {} => Cardinality(ActiveOf(s)) = 0
    BY <2>2, <2>3, <2>4, NothingLeft
  <2>7. Opening(s) # {} => ActiveOf(s) = {}
    BY <2>2, <2>6, FS_EmptySet
  <2> QED BY <2>2, <2>3, <2>4, <2>5, <2>7
<1>3. NoDuplicateRule
  BY <1>2 DEF NoDuplicateRule
<1>4. SingleActive
  <2> SUFFICES ASSUME NEW b \in Blocks, NEW c \in Blocks, status[b] = "Active",
                      status[c] = "Active", owner[b] = owner[c], b # c
               PROVE  FALSE
    BY DEF SingleActive
  <2>1. owner[b] \in Sources /\ {b, c} \subseteq ActiveOf(owner[b])
    BY DEF CoreInv, Owners, ActiveOf, ActiveRows
  <2>2. Cardinality({b, c}) <= Cardinality(ActiveOf(owner[b])) /\ IsFiniteSet({b, c})
    BY <1>2, <2>1, FS_Subset
  <2>3. IsFiniteSet({b}) /\ Cardinality({b}) = 1
    BY FS_Singleton
  <2>4. Cardinality({b} \cup {c}) = Cardinality({b}) + 1
    BY <2>3, FS_AddElement
  <2>5. {b} \cup {c} = {b, c}
    OBVIOUS
  <2>6. Cardinality({b, c}) = 2
    BY <2>3, <2>4, <2>5
  <2>7. Cardinality(ActiveOf(owner[b])) <= 1 /\ Cardinality(ActiveOf(owner[b])) \in Nat
    BY <1>2, <2>1, FS_CardinalityType
  <2> QED BY <2>2, <2>6, <2>7
<1>5. ASSUME NEW p \in Callers PROVE FreshOf(p) /\ InsertOf(p)
  <2>1. ControlOf(p)
    BY DEF CoreInv, CoreOf
  <2>2. op[p] = "insert" /\ step[p] = "apply" => arg[p] \in Sources /\ p \in Applying(arg[p])
    BY <2>1 DEF ControlOf, DetectorPhases, Applying
  <2>3. phase[p] \in {"probe", "inserting"} => arg[p] \in Sources /\ p \in Opening(arg[p])
    BY <2>1 DEF ControlOf, DetectorPhases, Opening
  <2>4. InsertOf(p)
    BY <1>2, <2>2 DEF InsertOf, HasRule
  <2>5. FreshOf(p)
    BY <1>2, <2>3 DEF FreshOf, ActiveOf, ActiveRows
  <2> QED BY <2>4, <2>5
<1> QED BY <1>3, <1>4, <1>5

\* A source has at most one copy of its rule, ...
THEOREM AtMostOneRule ==
    ASSUME OneDetector
    PROVE  Spec => []NoDuplicateRule
<1>1. IsFiniteSet(Detectors)
  BY AtMostOne DEF OneDetector
<1>2. TypeOK /\ CoreInv /\ RuleShares /\ RowShares => NoDuplicateRule
  BY OneShare
<1> QED BY <1>1, <1>2, TypeCorrect, CoreInvariance, SharesInvariance, PTL

\* ... and at most one Active row.
THEOREM AtMostOneActive ==
    ASSUME OneDetector
    PROVE  Spec => []SingleActive
<1>1. IsFiniteSet(Detectors)
  BY AtMostOne DEF OneDetector
<1>2. TypeOK /\ CoreInv /\ RuleShares /\ RowShares => SingleActive
  BY OneShare
<1> QED BY <1>1, <1>2, TypeCorrect, CoreInvariance, SharesInvariance, PTL

(***************************************************************************)
(* One detector: a lifted rule, and the profiles                           *)
(***************************************************************************)
LEMMA LiftedStep ==
    ASSUME TypeOK, CoreInv, BlockInv, NEW p \in Callers, StepOf(p), NEW q \in Callers
    PROVE  LiftedOf(q)'
<1> USE DEF TypeOK, ManagerTypeOK
<1>1. CASE q = p
  <2>1. SUFFICES ASSUME KnowsLifted(p)' PROVE ~HasRule(owner[row[p]])'
    BY <1>1 DEF LiftedOf
  <2>2. /\ UNCHANGED <<tables, table>>
        /\ row'[p] \in Blocks /\ ~HasRule(owner[row'[p]])
    BY <2>1, Learns
  <2> QED BY <2>2 DEF HasRule
<1>2. CASE q # p
  <2>1. step'[q] = step[q] /\ phase'[q] = phase[q] /\ row'[q] = row[q] /\ Moves(p)
    BY <1>2, StepCore, StepMoves DEF Alone
  <2>2. SUFFICES ASSUME KnowsLifted(q), status'[row[q]] = "Active"
                 PROVE  ~HasRule(owner[row[q]])'
    BY <2>1 DEF LiftedOf, KnowsLifted, Succeeded, HasRule
  <2>3. row[q] \in Blocks /\ status[row[q]] # "none"
    BY <2>2 DEF KnowsLifted, CoreInv, CoreOf, RowsOf, Holding, Deleting
  <2>4. status[row[q]] = "Active" /\ owner'[row[q]] = owner[row[q]]
    <3>1. CASE UNCHANGED table
      BY <2>2, <3>1
    <3>2. CASE Opens(p)
      BY <2>2, <2>3, <3>2 DEF Opens, Activate
    <3>3. CASE Closes
      BY <2>2, <2>3, <3>3, MarkRemovedCloses DEF Closes, ClosesOnly
    <3> QED BY <2>1, <3>1, <3>2, <3>3 DEF Moves
  <2>5. owner[row[q]] \in Sources /\ ~HasRule(owner[row[q]])
    BY <2>2, <2>3, <2>4 DEF BlockInv, LiftedOf, CoreInv, Owners
  <2>6. Inserts(p) => owner[row[q]] # arg[p]
    BY <2>3, <2>4 DEF Inserts, CoreInv, CoreOf, ControlOf, BlockInv, FreshOf
  <2>7. ~(rules'[owner[row[q]]] > 0)
    BY <2>1, <2>5, <2>6 DEF Moves, Inserts, Deletes, DropsChain, MakesChain, HasRule
  <2> QED BY <2>1, <2>4, <2>7 DEF HasRule
<1> QED BY <1>1, <1>2

LEMMA ProfileStep ==
    ASSUME TypeOK, CoreInv, BlockInv, NEW p \in Callers, StepOf(p)
    PROVE  ProfileAgrees'
<1> USE DEF TypeOK
<1>1. ProfileAgrees /\ SingleActive /\ Owners /\ Moves(p)
  BY StepMoves DEF BlockInv, CoreInv
<1> SUFFICES ASSUME NEW s \in Sources
             PROVE  profile'[s] = "Active" <=>
                      \E c \in Blocks : status'[c] = "Active" /\ owner'[c] = s
  BY DEF ProfileAgrees, ActiveOf, ActiveRows
<1>2. profile[s] = "Active" <=> \E c \in Blocks : status[c] = "Active" /\ owner[c] = s
  BY <1>1 DEF ProfileAgrees, ActiveOf, ActiveRows
<1>3. CASE UNCHANGED table
  BY <1>2, <1>3
<1>4. CASE Opens(p)
  <2>1. PICK b \in Blocks : Activate(b, arg[p], clk[p]) /\ arg[p] \in Sources
    BY <1>4 DEF Opens
  <2>2. /\ status' = [status EXCEPT ![b] = "Active"] /\ owner' = [owner EXCEPT ![b] = arg[p]]
        /\ profile' = [profile EXCEPT ![arg[p]] = "Active"] /\ status[b] = "none"
    BY <2>1 DEF Activate
  <2> QED BY <1>2, <2>1, <2>2
<1>5. CASE Closes
  <2>1. PICK b \in Blocks, st \in Removals, how \in Methods : MarkRemoved(b, st, how)
    BY <1>5 DEF Closes
  <2>2. CASE status[b] # "Active"
    BY <1>2, <2>1, <2>2 DEF MarkRemoved
  <2>3. CASE status[b] = "Active"
    <3>1. /\ status' = [status EXCEPT ![b] = st] /\ st # "Active" /\ owner' = owner
          /\ profile' = [profile EXCEPT ![owner[b]] = st] /\ owner[b] \in Sources
      BY <1>1, <2>1, <2>3 DEF MarkRemoved, Removals, Owners
    <3>2. \A c \in Blocks : status[c] = "Active" /\ owner[c] = owner[b] => c = b
      BY <1>1, <2>3 DEF SingleActive
    <3> QED BY <1>2, <3>1, <3>2
  <2> QED BY <2>2, <2>3
<1> QED BY <1>1, <1>3, <1>4, <1>5 DEF Moves

\* With one detector BlockInv holds in every state, whatever the number of workers,
\* operators, administrators, sources, rows, faults and deaths.
THEOREM Invariance ==
    ASSUME OneDetector
    PROVE  Spec => []BlockInv
<1> DEFINE Rest == (\A p \in Callers : LiftedOf(p)) /\ ProfileAgrees
<1>1. IsFiniteSet(Detectors)
  BY AtMostOne DEF OneDetector
<1>2. Init => Rest
  BY DEF Init, ManagerInit, LiftedOf, KnowsLifted, ProfileAgrees, ActiveOf, ActiveRows
<1>3. TypeOK /\ CoreInv /\ RuleShares /\ RowShares /\ Rest => BlockInv
  BY OneShare DEF BlockInv
<1>4. TypeOK /\ CoreInv /\ BlockInv /\ [Next]_vars => Rest'
  <2> SUFFICES ASSUME TypeOK, CoreInv, BlockInv, [Next]_vars PROVE Rest'
    OBVIOUS
  <2>1. ASSUME NEW p \in Callers, StepOf(p) PROVE Rest'
    BY <2>1, LiftedStep, ProfileStep
  <2>2. CASE /\ UNCHANGED <<tables, table, frame, row>>
             /\ \A p \in Callers : phase'[p] = phase[p]
                    \/ (phase[p] = "down" /\ phase'[p] \in {"idle", "started"})
    <3>1. ProfileAgrees'
      BY <2>2 DEF BlockInv, ProfileAgrees, ActiveOf, ActiveRows
    <3>2. ASSUME NEW q \in Callers PROVE LiftedOf(q)'
      BY <2>2 DEF BlockInv, LiftedOf, KnowsLifted, Succeeded, HasRule
    <3> QED BY <3>1, <3>2
  <2> QED BY <2>1, <2>2, AnyStep
<1> HIDE DEF Rest
<1> QED BY <1>1, <1>2, <1>3, <1>4, TypeCorrect, CoreInvariance, SharesInvariance, PTL DEF Spec

\* The profiles agree with the blocks table.
THEOREM ProfilesAgree ==
    ASSUME OneDetector
    PROVE  Spec => []ProfileAgrees
<1>1. BlockInv => ProfileAgrees
  BY DEF BlockInv
<1> QED BY <1>1, Invariance, PTL

(***************************************************************************)
(* One administrator: a removed chain                                      *)
(***************************************************************************)
LEMMA RemovedStep ==
    ASSUME TypeOK, CoreInv, OneAdmin, RemovedInv, NEW p \in Callers, StepOf(p), NEW q \in Callers
    PROVE  RemovedOf(q)'
<1> USE DEF TypeOK, ManagerTypeOK
<1>0. ControlOf(p) /\ ControlOf(q) /\ RemovedOf(p) /\ RemovedOf(q)
  BY DEF CoreInv, CoreOf, RemovedInv
<1>1. CASE q = p /\ CallManager(p)
  <2>1. op' = op /\ phase' = phase /\ MethodSteps(p)
    BY <1>1, ManagerMoves DEF CallManager
  <2>2. phase[p] # "closing" /\ step[p] # "changed"
    BY <1>0, <2>1 DEF ControlOf, MethodSteps, Calling, RuleSteps, CleanupSteps, InitializeSteps
  <2> QED BY <1>0, <1>1, <2>1, <2>2 DEF RemovedOf, ControlOf, MethodSteps, InitializeSteps
<1>2. CASE q = p /\ ~CallManager(p)
  <2>1. UNCHANGED tables /\ Entry(p)
    BY <1>2, BetweenCommands, Entries
  <2>2. step'[p] = "changed" => step[p] = "changed"
    BY <1>2, BetweenCommands
  <2>3. op'[p] = "cleanup" /\ step'[p] = "changed" => op[p] = "cleanup"
    BY <1>2, BetweenCommands
  <2>4. phase'[p] = "closing" => phase[p] = "closing" \/ (op[p] = "cleanup" /\ step[p] = "changed")
    BY <2>1 DEF Entry, ListCleaned, CloseRow
  <2> QED BY <1>0, <1>2, <2>1, <2>2, <2>3, <2>4 DEF RemovedOf
<1>3. CASE q # p
  <2>1. op'[q] = op[q] /\ step'[q] = step[q] /\ phase'[q] = phase[q] /\ Moves(p)
    BY <1>3, StepCore, StepMoves DEF Alone
  <2>2. SUFFICES ASSUME phase[q] = "closing" \/ (op[q] = "cleanup" /\ step[q] = "changed")
                 PROVE  ~chain'
    BY <2>1 DEF RemovedOf
  <2>3. ~chain /\ q \in Admins
    BY <1>0, <2>2 DEF RemovedOf, ControlOf
  <2>4. ~MakesChain(p)
    BY <1>0, <1>3, <2>3 DEF MakesChain, ControlOf, InitializeSteps, OneAdmin
  <2> QED BY <2>1, <2>3, <2>4 DEF Moves, Inserts, Deletes, DropsChain
<1> QED BY <1>1, <1>2, <1>3

LEMMA RemovedInvariance ==
    ASSUME OneAdmin
    PROVE  Spec => []RemovedInv
<1>1. Init => RemovedInv
  BY DEF Init, ManagerInit, RemovedInv, RemovedOf
<1>2. TypeOK /\ CoreInv /\ RemovedInv /\ [Next]_vars => RemovedInv'
  <2> SUFFICES ASSUME TypeOK, CoreInv, RemovedInv, [Next]_vars PROVE RemovedInv'
    OBVIOUS
  <2>1. ASSUME NEW p \in Callers, StepOf(p) PROVE RemovedInv'
    BY <2>1, RemovedStep DEF RemovedInv
  <2>2. CASE /\ UNCHANGED <<tables, frame>>
             /\ \A p \in Callers : phase'[p] = phase[p]
                    \/ (phase[p] = "down" /\ phase'[p] \in {"idle", "started"})
    BY <2>2 DEF RemovedInv, RemovedOf
  <2> QED BY <2>1, <2>2, AnyStep
<1> QED BY <1>1, <1>2, TypeCorrect, CoreInvariance, PTL DEF Spec

(***************************************************************************)
(* One detector and one administrator: the ledger                          *)
(***************************************************************************)
(* Only a reconciliation closes a row whose rule is in the chain. *)
LEMMA ClosedIsLifted ==
    ASSUME TypeOK, CoreInv, BlockInv, RemovedInv, NEW p \in Callers,
           NEW b \in Blocks, status[b] = "Active", ClosedBy(p, b),
           method'[b] # "Reconciliation"
    PROVE  ~HasRule(owner[b])
<1>1. method'[b] \in {"Automatic", "ManualCLI", "ExplicitCleanup"}
  BY DEF ClosedBy, Ledger!Closings
<1>2. CASE method'[b] \in {"Automatic", "ManualCLI"}
  BY <1>2 DEF ClosedBy, BlockInv, LiftedOf
<1>3. CASE method'[b] = "ExplicitCleanup"
  BY <1>3 DEF ClosedBy, RemovedInv, RemovedOf, CoreInv, RulesInChain, Owners
<1> QED BY <1>1, <1>2, <1>3

\* The expiration worker, unblock and firewall-cleanup close a row only when
\* its rule is not in the chain.
THEOREM ClosingIsLifted ==
    ASSUME OneDetector, OneAdmin
    PROVE  Spec => ClosedMeansLifted
<1>1. TypeOK /\ CoreInv /\ BlockInv /\ RemovedInv /\ [Next]_vars =>
        [\A b \in Blocks :
           status[b] = "Active" /\ status'[b] # "Active"
             /\ method'[b] \in {"Automatic", "ManualCLI", "ExplicitCleanup"}
           => ~HasRule(owner[b])]_vars
  <2> SUFFICES ASSUME TypeOK, CoreInv, BlockInv, RemovedInv, [Next]_vars, NEW b \in Blocks,
                      status[b] = "Active", status'[b] # "Active",
                      method'[b] \in {"Automatic", "ManualCLI", "ExplicitCleanup"}
               PROVE  ~HasRule(owner[b])
    OBVIOUS
  <2>1. PICK p \in Callers : StepOf(p)
    BY AnyStep
  <2> QED BY <2>1, ClosingSteps, ClosedIsLifted
<1> QED
  BY <1>1, TypeCorrect, CoreInvariance, Invariance, RemovedInvariance, PTL
     DEF Spec, ClosedMeansLifted

LEMMA LedgerInitial ==
    Init => Ledger!LedgerInit
  BY DEF Init, ManagerInit, Ledger!LedgerInit, Dropped, HasRule

LEMMA NobodyBlocked ==
    ASSUME BlockInv, NEW p \in Callers, phase[p] \in {"probe", "inserting"}
    PROVE  ~Ledger!Blocked(arg[p])
  BY DEF BlockInv, FreshOf, Ledger!Blocked, Ledger!Open

LEMMA RulesLedger ==
    ASSUME TypeOK, CoreInv, BlockInv, NEW p \in Callers, UNCHANGED table, now' = now,
           \/ Inserts(p) \/ Deletes(p) \/ DropsChain \/ MakesChain(p)
           \/ UNCHANGED <<chain, rules>>
    PROVE  [Ledger!LedgerNext]_Ledger!ledger
<1> USE DEF TypeOK, ManagerTypeOK
<1>1. ControlOf(p) /\ InsertOf(p) /\ NoDuplicateRule
  BY DEF CoreInv, CoreOf, BlockInv
<1>2. CASE rules' = rules
  BY <1>2 DEF Ledger!ledger, Dropped, HasRule
<1>3. CASE Inserts(p)
  <2>1. arg[p] \in Sources /\ ~HasRule(arg[p]) /\ phase[p] = "inserting"
    BY <1>1, <1>3 DEF Inserts, ControlOf, InsertOf, DetectorPhases
  <2>2. ~Ledger!Blocked(arg[p])
    BY <2>1, NobodyBlocked
  <2>3. Dropped' = Dropped \cup {arg[p]}
    BY <1>3, <2>1 DEF Inserts, Dropped, HasRule
  <2>4. Ledger!Drop(arg[p])
    BY <2>1, <2>2, <2>3 DEF Ledger!Drop, Dropped
  <2> QED BY <2>1, <2>4 DEF Ledger!LedgerNext
<1>4. CASE Deletes(p) /\ arg[p] \in Sources
  <2>1. rules[arg[p]] = 1
    BY <1>1, <1>4 DEF Deletes, HasRule, NoDuplicateRule
  <2>2. Dropped' = Dropped \ {arg[p]}
    BY <1>4, <2>1 DEF Deletes, Dropped, HasRule
  <2>3. Ledger!Accept(arg[p])
    BY <1>4, <2>1, <2>2 DEF Ledger!Accept, Dropped, HasRule
  <2> QED BY <1>4, <2>3 DEF Ledger!LedgerNext
<1>5. CASE Deletes(p) /\ arg[p] \notin Sources
  BY <1>2, <1>5 DEF Deletes
<1> QED BY <1>2, <1>3, <1>4, <1>5 DEF DropsChain, MakesChain

LEMMA RowsLedger ==
    ASSUME TypeOK, CoreInv, BlockInv, RemovedInv, NEW p \in Callers, StepOf(p),
           UNCHANGED <<chain, rules>>, now' = now, Opens(p) \/ Closes
    PROVE  [Ledger!LedgerNext]_Ledger!ledger
<1> USE DEF TypeOK, ManagerTypeOK
<1>1. DueOf(p) /\ Owners
  BY DEF CoreInv, CoreOf
<1>2. Dropped' = Dropped
  BY DEF Dropped, HasRule
<1>3. CASE Opens(p)
  <2>1. PICK b \in Blocks : Activate(b, arg[p], clk[p])
    BY <1>3 DEF Opens
  <2>2. clk[p] \in 0..now /\ arg[p] \in Sources
    BY <1>1, <1>3 DEF DueOf, Opens
  <2>3. ~Ledger!Blocked(arg[p])
    BY <1>3, NobodyBlocked DEF Opens
  <2>4. Ledger!OpenBlock(b, arg[p], clk[p])
    BY <1>2, <2>1, <2>3 DEF Activate, Ledger!OpenBlock
  <2> QED BY <2>2, <2>4 DEF Ledger!LedgerNext
<1>4. CASE Closes
  <2>1. PICK b \in Blocks, st \in Removals, how \in Methods : MarkRemoved(b, st, how)
    BY <1>4 DEF Closes
  <2>2. CASE status[b] # "Active"
    BY <1>2, <2>1, <2>2 DEF MarkRemoved, Ledger!ledger
  <2>3. CASE status[b] = "Active"
    <3>1. status'[b] # "Active"
      BY <2>1, <2>3 DEF MarkRemoved, Removals
    <3>2. ClosedBy(p, b)
      BY <2>3, <3>1, ClosingSteps
    <3>3. method'[b] # "Reconciliation" => ~HasRule(owner[b])
      BY <2>3, <3>2, ClosedIsLifted
    <3>4. Ledger!CloseBlock(b, status'[b], method'[b])
      BY <1>1, <1>2, <2>3, <3>2, <3>3 DEF ClosedBy, Ledger!CloseBlock, Dropped, Owners
    <3> QED BY <3>2, <3>4 DEF ClosedBy, Ledger!LedgerNext, Ledger!Closings
  <2> QED BY <2>2, <2>3
<1> QED BY <1>3, <1>4

\* BlockResponse implements BlockLedger, with a source dropped while the
\* chain has its rule.
THEOREM Refinement ==
    ASSUME OneDetector, OneAdmin
    PROVE  Spec => ImplementsLedger
<1>1. TypeOK /\ CoreInv /\ BlockInv /\ RemovedInv /\ [Next]_vars
        => [Ledger!LedgerNext]_Ledger!ledger
  <2> SUFFICES ASSUME TypeOK, CoreInv, BlockInv, RemovedInv, [Next]_vars
               PROVE  [Ledger!LedgerNext]_Ledger!ledger
    OBVIOUS
  <2>1. ASSUME NEW p \in Callers, StepOf(p) PROVE [Ledger!LedgerNext]_Ledger!ledger
    BY <2>1, StepMoves, RulesLedger, RowsLedger DEF Moves
  <2>2. CASE UNCHANGED <<tables, table>> /\ now' \in {now, now + 1}
    BY <2>2 DEF Dropped, HasRule, Ledger!LedgerNext, Ledger!TimePasses, Ledger!ledger
  <2> QED BY <2>1, <2>2, AnyStep
<1> QED
  BY <1>1, LedgerInitial, TypeCorrect, CoreInvariance, Invariance, RemovedInvariance, PTL
     DEF Spec, ImplementsLedger, Ledger!LedgerSpec

(***************************************************************************)
(* One administrator: the owner of a rule                                  *)
(***************************************************************************)
(* Failures and deaths are not undone. *)
LEMMA FaultsGrow ==
    ASSUME TypeOK, NEW p \in Callers, StepOf(p)
    PROVE  /\ faults' \in {faults, faults + 1} /\ deaths' \in {deaths, deaths + 1}
           /\ Die(p) => deaths' = deaths + 1
<1> USE DEF Fault
<1>1. CASE CallManager(p)
  <2>1. faults' \in {faults, faults + 1}
    BY <1>1 DEF CallManager, ManagerStep, ChangeRule, Cleanup, Initialize, Check, Change,
       FindChain, FindRule, ApplyChange, ConfirmChange, CleanStart, CleanList, CleanNext,
       FindJump, DropJump, ConfirmJump, DropChain, ConfirmChain, InitStart, MakeChain, InitJump,
       MakeJump, ConfirmInit, ConfirmInitJump
  <2> QED BY <1>1, <2>1 DEF CallManager, Die
<1>2. CASE Die(p)
  BY <1>2 DEF Die
<1>3. CASE ~CallManager(p) /\ ~Die(p)
  BY <1>3 DEF StepOf, Advance, StopThread, DetectorStep, WorkerStep, ReconcileStep,
     UnblockStep, AdminStep, BeginBlock, ReadActive, ProbeRule, ActivateBlock, ActivateFails,
     RejectInsert, EndRollback, BeginExpiry, ListExpired, ProbeExpired, MarkExpired, ExpiryFails,
     EndExpiry, BeginReconcile, ListRules, ListActive, ReconcileRow, MarkLifted, LiftFails,
     EndReconcile, BeginUnblock, ProbeUnblock, MarkUnblocked, UnblockFails, BeginMaintenance,
     EndMaintenance, ListCleaned, CloseRow, EndCleanup
<1> QED BY <1>1, <1>2, <1>3

(* How a closed row was closed stays in it. *)
LEMMA OpenRowsStep ==
    ASSUME TypeOK, CoreInv, OpenRows, NEW p \in Callers, StepOf(p)
    PROVE  /\ OpenRows'
           /\ \A b \in Blocks : method[b] = "Reconciliation" =>
                  method'[b] = method[b] /\ owner'[b] = owner[b]
<1> USE DEF TypeOK
<1>1. CASE UNCHANGED table
  BY <1>1 DEF OpenRows
<1>2. CASE Opens(p)
  BY <1>2 DEF Opens, Activate, OpenRows
<1>3. CASE Closes
  BY <1>3 DEF Closes, MarkRemoved, OpenRows, Removals
<1> QED BY <1>1, <1>2, <1>3, StepMoves DEF Moves

(* A row that owns its rule owns it until a reconciliation closes it. *)
LEMMA RowOwns ==
    ASSUME TypeOK, CoreInv, RemovedInv, NEW p \in Callers, StepOf(p),
           NEW s \in Sources, HasRule(s),
           NEW b \in ActiveOf(s), \A q \in Callers : KnowsLifted(q) => row[q] # b
    PROVE  Kept(s)'
<1> USE DEF TypeOK
<1>1. b \in Blocks /\ status[b] = "Active" /\ owner[b] = s /\ owner'[b] = s
  BY RowsStay DEF ActiveOf, ActiveRows
<1>2. CASE status'[b] = "Active"
  <2>1. ASSUME NEW q \in Callers, KnowsLifted(q)' PROVE row'[q] # b
    <3>1. CASE q = p
      BY <1>1, <2>1, <3>1, Learns
    <3>2. CASE q # p
      <4>1. step'[q] = step[q] /\ phase'[q] = phase[q] /\ row'[q] = row[q]
        BY <3>2, StepCore DEF Alone
      <4> QED BY <2>1, <4>1 DEF KnowsLifted, Succeeded
    <3> QED BY <3>1, <3>2
  <2> QED BY <1>1, <1>2, <2>1 DEF Kept, ActiveOf, ActiveRows
<1>3. CASE status'[b] # "Active"
  <2>1. ClosedBy(p, b)
    BY <1>1, <1>3, ClosingSteps
  <2>2. method'[b] \notin {"Automatic", "ManualCLI"}
    BY <2>1 DEF ClosedBy
  <2>3. method'[b] # "ExplicitCleanup"
    BY <2>1 DEF ClosedBy, RemovedInv, RemovedOf, CoreInv, RulesInChain
  <2>4. method'[b] = "Reconciliation"
    BY <2>1, <2>2, <2>3 DEF ClosedBy, Ledger!Closings
  <2> QED BY <1>1, <2>4 DEF Kept, Reconciled
<1> QED BY <1>2, <1>3

(* A rule that is inserted without a fault is confirmed, ... *)
LEMMA InsertedIsConfirmed ==
    ASSUME TypeOK, CoreInv, NEW p \in Callers, StepOf(p), faults' = faults,
           NEW s \in Sources, ~HasRule(s), HasRule(s)'
    PROVE  p \in Detectors /\ op'[p] = "insert" /\ arg'[p] = s /\ step'[p] = "confirm"
<1> USE DEF TypeOK, ManagerTypeOK
<1>1. Inserts(p) /\ arg[p] = s
  BY StepMoves DEF Moves, Inserts, Deletes, DropsChain, MakesChain, HasRule
<1>2. CallManager(p) /\ ControlOf(p)
  BY BetweenCommands DEF HasRule, CoreInv, CoreOf
<1>3. ApplyChange(p)
  BY <1>1, <1>2 DEF Inserts, CallManager, ManagerStep, ChangeRule, Cleanup, Initialize,
     FindChain, FindRule, ConfirmChange, CleanStart, CleanList, CleanNext, FindJump, DropJump,
     ConfirmJump, DropChain, ConfirmChain, InitStart, MakeChain, InitJump, MakeJump,
     ConfirmInit, ConfirmInitJump
<1>4. step'[p] = "confirm" /\ op' = op /\ arg' = arg
  BY <1>1, <1>3 DEF Inserts, ApplyChange, Inserting, Change, GoTo, Fault
<1> QED BY <1>1, <1>2, <1>4 DEF Inserts, ControlOf

(* ... and, if nobody takes it away, gets its row. *)
LEMMA InsertionOwns ==
    ASSUME TypeOK, CoreInv, NEW p \in Callers, StepOf(p), ~Die(p), faults' = faults,
           NEW s \in Sources, HasRule(s), p \in Detectors, op[p] = "insert", arg[p] = s,
           step[p] \in {"confirm", "changed"}
    PROVE  Kept(s)'
<1> USE DEF TypeOK, ManagerTypeOK
<1>1. phase[p] = "inserting"
  BY DEF CoreInv, CoreOf, ControlOf
<1>2. CASE step[p] = "confirm"
  <2>1. CallManager(p)
    BY <1>2, Waiting DEF Results
  <2>2. ConfirmChange(p)
    BY <1>2, <2>1 DEF CallManager, ManagerStep, ChangeRule, Cleanup, Initialize,
       FindChain, FindRule, ApplyChange, CleanStart, CleanList, CleanNext, FindJump, DropJump,
       ConfirmJump, DropChain, ConfirmChain, InitStart, MakeChain, InitJump, MakeJump,
       ConfirmInit, ConfirmInitJump
  <2>3. /\ UNCHANGED <<op, arg>>
        /\ GoTo(p, IF HasRule(arg[p]) = Inserting(p) THEN "changed" ELSE "failed") \/ Fault
    BY <2>2 DEF ConfirmChange, Check, Done
  <2>4. HasRule(arg[p]) /\ Inserting(p) /\ ~Fault
    BY DEF Inserting, Fault
  <2>5. HasRule(arg[p]) = Inserting(p)
    BY <2>4 DEF HasRule, Inserting
  <2>6. step'[p] = "changed"
    BY <2>3, <2>4, <2>5 DEF GoTo
  <2> QED BY <2>3, <2>6 DEF Kept
<1>3. CASE step[p] = "changed"
  <2>1. ~CallManager(p)
    BY <1>3, ManagerMoves DEF CallManager, MethodSteps, RuleSteps, CleanupSteps, InitializeSteps
  <2>2. p \notin Workers \cup Operators \cup Admins
    BY ResponseAssumption
  <2>3. ActivateBlock(p)
    BY <1>1, <1>3, <2>1, <2>2 DEF StepOf, Advance, StopThread, DetectorStep, ReadActive,
       ProbeRule, ActivateFails, RejectInsert, EndRollback, BeginBlock, Fault
  <2>4. PICK b \in Blocks : Activate(b, s, clk[p])
    BY <2>3 DEF ActivateBlock
  <2>5. status[b] = "none" /\ b \in (ActiveOf(s))'
    BY <2>4 DEF Activate, ActiveOf, ActiveRows
  <2>6. ASSUME NEW q \in Callers, KnowsLifted(q)' PROVE row'[q] # b
    <3>1. q # p
      BY <2>3, <2>6 DEF ActivateBlock, Become, KnowsLifted
    <3>2. step'[q] = step[q] /\ phase'[q] = phase[q] /\ row'[q] = row[q]
      BY <3>1, StepCore DEF Alone
    <3>3. phase[q] \in Holding
      BY <2>6, <3>2 DEF KnowsLifted, Holding, Deleting
    <3> QED BY <2>5, <3>2, <3>3 DEF CoreInv, CoreOf, RowsOf
  <2> QED BY <2>5, <2>6 DEF Kept
<1> QED BY <1>2, <1>3

LEMMA KeptStep ==
    ASSUME TypeOK, CoreInv, RemovedInv, RulesKept, OpenRows, NEW p \in Callers, StepOf(p)
    PROVE  RulesKept'
<1> SUFFICES ASSUME faults' = 0, deaths' = 0, NEW s \in Sources, HasRule(s)'
             PROVE  Kept(s)'
  BY DEF RulesKept
<1>1. /\ faults = 0 /\ deaths = 0 /\ ~Die(p)
      /\ Detectors \subseteq Callers
  BY FaultsGrow, ResponseAssumption DEF TypeOK, ManagerTypeOK
<1>2. CASE ~HasRule(s)
  BY <1>1, <1>2, InsertedIsConfirmed DEF Kept
<1>3. CASE HasRule(s)
  <2>1. Kept(s)
    BY <1>1, <1>3 DEF RulesKept
  <2>2. CASE \E b \in ActiveOf(s) : \A q \in Callers : KnowsLifted(q) => row[q] # b
    BY <1>3, <2>2, RowOwns
  <2>3. ASSUME NEW d \in Detectors, op[d] = "insert", arg[d] = s, step[d] \in {"confirm", "changed"}
        PROVE  Kept(s)'
    <3>1. CASE d = p
      BY <1>1, <1>3, <2>3, <3>1, InsertionOwns
    <3>2. CASE d # p
      <4>1. op'[d] = op[d] /\ step'[d] = step[d] /\ arg'[d] = arg[d]
        BY <1>1, <3>2, StepCore DEF Alone
      <4> QED BY <2>3, <4>1 DEF Kept
    <3> QED BY <3>1, <3>2
  <2>4. CASE Reconciled(s)
    BY <2>4, OpenRowsStep DEF Kept, Reconciled
  <2> QED BY <2>1, <2>2, <2>3, <2>4 DEF Kept
<1> QED BY <1>2, <1>3

\* While nothing has failed, a rule belongs to an Active row, to a detector about to
\* insert the row, or to a source of which a reconciliation has closed a row.  Two
\* detectors that race for a source keep it so.
THEOREM RulesHaveOwners ==
    ASSUME OneAdmin
    PROVE  Spec => []RuleHasOwner
<1>1. Init => RulesKept /\ OpenRows
  BY DEF Init, ManagerInit, RulesKept, OpenRows, HasRule
<1>2. TypeOK /\ CoreInv /\ RemovedInv /\ RulesKept /\ OpenRows /\ [Next]_vars
        => (RulesKept /\ OpenRows)'
  <2> SUFFICES ASSUME TypeOK, CoreInv, RemovedInv, RulesKept, OpenRows, [Next]_vars
               PROVE  (RulesKept /\ OpenRows)'
    OBVIOUS
  <2>1. ASSUME NEW p \in Callers, StepOf(p) PROVE (RulesKept /\ OpenRows)'
    BY <2>1, KeptStep, OpenRowsStep
  <2>2. CASE /\ UNCHANGED <<tables, table, faults, deaths, frame, row>>
             /\ \A p \in Callers : phase'[p] = phase[p]
                    \/ (phase[p] = "down" /\ phase'[p] \in {"idle", "started"})
    <3>1. ASSUME NEW q \in Callers PROVE KnowsLifted(q)' => KnowsLifted(q)
      BY <2>2 DEF KnowsLifted, Succeeded
    <3>2. OpenRows'
      BY <2>2 DEF OpenRows
    <3>3. RulesKept'
      BY <2>2, <3>1 DEF RulesKept, Kept, HasRule, ActiveOf, ActiveRows, Reconciled
    <3> QED BY <3>2, <3>3
  <2> QED BY <2>1, <2>2, AnyStep
<1>3. TypeOK /\ CoreInv /\ RulesKept => RuleHasOwner
  <2> SUFFICES ASSUME TypeOK, CoreInv, RulesKept, NEW s \in Sources,
                      faults = 0, deaths = 0, HasRule(s)
               PROVE  \/ ActiveOf(s) # {} \/ Reconciled(s)
                      \/ \E d \in Detectors : arg[d] = s /\ phase[d] \in {"inserting", "rollingBack"}
    BY DEF RuleHasOwner
  <2>1. Kept(s) /\ Detectors \subseteq Callers
    BY ResponseAssumption DEF RulesKept
  <2>2. \A d \in Detectors : op[d] = "insert" => phase[d] = "inserting"
    BY <2>1 DEF CoreInv, CoreOf, ControlOf
  <2> QED BY <2>1, <2>2 DEF Kept
<1> QED BY <1>1, <1>2, <1>3, TypeCorrect, CoreInvariance, RemovedInvariance, PTL DEF Spec
(***************************************************************************)
(* A monitor by itself                                                     *)
(***************************************************************************)
(* Who deletes a rule is the worker, for the Active row in its hands. *)
LEMMA OnlyWorkersDelete ==
    ASSUME TypeOK, CoreInv, MonitorAlone, NEW p \in Callers, UndisturbedOf(p),
           op[p] # "insert", step[p] # "idle"
    PROVE  /\ p \in Workers /\ op[p] = "delete" /\ phase[p] \in {"deleting", "lifting"}
           /\ row[p] \in Blocks /\ status[row[p]] = "Active" /\ arg[p] = owner[row[p]]
<1>1. ControlOf(p) /\ RowsOf(p) /\ p \notin Admins
  BY DEF CoreInv, CoreOf, MonitorAlone
<1>2. phase[p] \in Calling \ {"inserting", "rollingBack", "maintaining"}
  BY <1>1 DEF ControlOf, UndisturbedOf
<1>3. phase[p] \in Deleting /\ row[p] \in Blocks /\ op[p] = "delete"
  BY <1>1, <1>2 DEF Calling, Deleting, Holding, ControlOf, RowsOf
<1>4. row[p] # NoBlock
  BY <1>3, ResponseAssumption
<1> QED BY <1>1, <1>3, <1>4 DEF UndisturbedOf, HandsOf, Taking, Deleting, RowsOf

(* An Active row the worker does not hold has its rule. *)
LEMMA OtherRowsHaveRules ==
    ASSUME MonitorAlone, \A q \in Callers : UndisturbedOf(q), ActiveHasRule,
           NEW w \in Workers, NEW b \in Blocks, status[b] = "Active", row[w] # b
    PROVE  HasRule(owner[b])
<1>1. ASSUME NEW q \in Callers, row[q] = b PROVE FALSE
  <2>1. row[q] # NoBlock
    BY <1>1, ResponseAssumption
  <2> QED BY <1>1, <2>1 DEF UndisturbedOf, HandsOf, MonitorAlone
<1> QED BY <1>1 DEF ActiveHasRule

(* The commands of the detector and the worker do not get into each other's way. *)
LEMMA CommandsUndisturbed ==
    ASSUME TypeOK, CoreInv, BlockInv, MonitorAlone, chain, \A q \in Callers : UndisturbedOf(q),
           ActiveHasRule, NEW p \in Callers, CallManager(p), faults' = faults
    PROVE  chain' /\ (\A q \in Callers : UndisturbedOf(q)') /\ ActiveHasRule'
<1> USE DEF TypeOK, ManagerTypeOK
<1>1. ControlOf(p) /\ p \notin Admins
  BY DEF CoreInv, CoreOf, MonitorAlone
<1>2. step[p] \notin CleanupSteps \cup InitializeSteps
  BY <1>1 DEF ControlOf
<1>3. ChangeRule(p)
  BY <1>2 DEF CallManager, ManagerStep, Cleanup, Initialize, CleanupSteps, InitializeSteps,
     CleanStart, CleanList, CleanNext, FindJump, DropJump, ConfirmJump, DropChain, ConfirmChain,
     InitStart, MakeChain, InitJump, MakeJump, ConfirmInit, ConfirmInitJump
<1>4. ~Fault
  BY DEF Fault
<1>5. /\ op[p] # "cleanup" /\ step[p] # "idle" /\ (Inserting(p) <=> op[p] = "insert")
      /\ step[p] \in RuleSteps
  BY <1>1, <1>3 DEF ControlOf, ChangeRule, FindChain, FindRule, ApplyChange, ConfirmChange,
     Inserting, RuleSteps
<1>6. /\ op' = op /\ arg' = arg /\ UNCHANGED <<table, phase, row, todo>>
      /\ \A q \in Callers : q # p => step'[q] = step[q]
  BY ManagerMoves, <1>3 DEF CallManager, ChangeRule, FindChain, FindRule, ApplyChange,
     ConfirmChange, Check, Change
<1>7. op[p] # "insert" =>
        /\ p \in Workers /\ op[p] = "delete" /\ phase[p] \in {"deleting", "lifting"}
        /\ row[p] \in Blocks /\ status[row[p]] = "Active" /\ arg[p] = owner[row[p]]
  BY <1>5, OnlyWorkersDelete
<1>8. op[p] = "insert" => phase[p] = "inserting" /\ p \in Detectors /\ arg[p] \in Sources
  BY <1>1 DEF ControlOf, DetectorPhases
\* What p does to the rules and what it knows of them.
<1>9. /\ chain'
      /\ \/ rules' = rules
         \/ op[p] = "insert" /\ rules' = [rules EXCEPT ![arg[p]] = @ + 1]
         \/ /\ op[p] # "insert" /\ rules' = [rules EXCEPT ![arg[p]] = @ - 1]
            /\ step'[p] = "confirm"
      /\ op[p] = "insert" /\ step'[p] \in {"confirm", "changed"} => HasRule(arg[p])'
      /\ op[p] # "insert" /\ step'[p] \in {"findChain", "findRule", "apply", "failed"}
             => HasRule(arg[p])'
  <2>0. DeletionOf(p) /\ InsertionOf(p) /\ arg[p] \in Sources
    <3>1. op[p] # "insert" => arg[p] \in Sources
      BY <1>7 DEF CoreInv, Owners
    <3> QED BY <1>8, <3>1 DEF UndisturbedOf
  <2>1. CASE FindChain(p)
    <3>1. step[p] = "findChain" /\ step'[p] = "findRule" /\ UNCHANGED tables
      BY <1>4, <2>1 DEF FindChain, Check, GoTo
    <3> QED BY <1>6, <1>7, <2>0, <3>1 DEF DeletionOf, HasRule, tables
  <2>2. CASE FindRule(p)
    <3>1. UNCHANGED tables /\ step[p] = "findRule"
      BY <2>2 DEF FindRule, Check
    <3>2. CASE HasRule(arg[p]) = Inserting(p)
      <4>1. step'[p] = "unchanged"
        BY <1>4, <1>5, <2>2, <3>2 DEF FindRule, Check, GoTo, Done
      <4> QED BY <3>1, <4>1 DEF tables
    <3>3. CASE ~(HasRule(arg[p]) = Inserting(p))
      <4>1. step'[p] = "apply"
        BY <1>4, <2>2, <3>3 DEF FindRule, Check, GoTo
      <4> QED BY <1>6, <1>7, <2>0, <3>1, <4>1 DEF DeletionOf, HasRule, tables
    <3> QED BY <3>2, <3>3
  <2>3. CASE ApplyChange(p)
    <3>1. CASE op[p] = "insert"
      <4>1. /\ step'[p] = "confirm" /\ rules' = [rules EXCEPT ![arg[p]] = @ + 1]
            /\ chain' = chain
        BY <1>4, <1>5, <2>3, <3>1 DEF ApplyChange, Change, GoTo, AddRule
      <4> QED BY <1>6, <2>0, <3>1, <4>1 DEF HasRule
    <3>2. CASE op[p] # "insert"
      <4>1. HasRule(arg[p])
        BY <1>7, <2>0, <2>3, <3>2 DEF DeletionOf, ApplyChange
      <4>2. /\ step'[p] = "confirm" /\ rules' = [rules EXCEPT ![arg[p]] = @ - 1]
            /\ chain' = chain
        BY <1>4, <1>5, <2>3, <3>2, <4>1 DEF ApplyChange, Change, GoTo, AddRule
      <4> QED BY <3>2, <4>2
    <3> QED BY <3>1, <3>2
  <2>4. CASE ConfirmChange(p)
    <3>1. UNCHANGED tables /\ step[p] = "confirm"
      BY <2>4 DEF ConfirmChange, Check
    <3>2. CASE op[p] = "insert"
      BY <1>6, <2>0, <3>1, <3>2 DEF InsertionOf, HasRule, tables
    <3>3. CASE op[p] # "insert" /\ HasRule(arg[p])
      BY <1>6, <3>1, <3>3 DEF HasRule, tables
    <3>4. CASE op[p] # "insert" /\ ~HasRule(arg[p])
      <4>1. HasRule(arg[p]) = Inserting(p)
        BY <3>4, <1>5 DEF HasRule, Inserting
      <4>2. step'[p] = "changed"
        BY <1>4, <1>5, <2>4, <4>1 DEF ConfirmChange, Check, GoTo, Done
      <4> QED BY <3>1, <3>4, <4>2 DEF tables
    <3> QED BY <3>2, <3>3, <3>4
  <2> QED BY <1>3, <2>1, <2>2, <2>3, <2>4 DEF ChangeRule
\* Rules only disappear from under the row that p holds.
<1>10. ASSUME NEW s \in Sources, HasRule(s), ~HasRule(s)'
       PROVE  op[p] # "insert" /\ s = arg[p]
  BY <1>9, <1>10 DEF HasRule
<1>11. ASSUME NEW q \in Callers PROVE UndisturbedOf(q)'
  <2>1. HandsOf(q)' /\ phase'[q] \notin {"rollingBack", "maintaining"}
    BY <1>6 DEF UndisturbedOf, HandsOf, table
  <2>2. CASE q = p
    BY <1>6, <1>7, <1>8, <1>9, <2>1, <2>2 DEF UndisturbedOf, DeletionOf, InsertionOf
  <2>3. CASE q # p
    <3>1. DeletionOf(q)'
      <4>1. SUFFICES ASSUME phase[q] \in {"deleting", "lifting"}, HasRule(arg[q])
                     PROVE  HasRule(arg[q])'
        BY <1>6, <2>3 DEF UndisturbedOf, DeletionOf
      <4>2. q \in Workers /\ arg[q] \in Sources
        <5>1. row[q] \in Blocks /\ status[row[q]] # "none"
          BY <4>1 DEF CoreInv, CoreOf, RowsOf, Holding, Deleting
        <5>2. row[q] # NoBlock
          BY <5>1, ResponseAssumption
        <5>3. arg[q] = owner[row[q]]
          BY <4>1 DEF UndisturbedOf, HandsOf, CoreInv, CoreOf, RowsOf
        <5> QED BY <5>1, <5>2, <5>3 DEF UndisturbedOf, HandsOf, CoreInv, Owners
      <4>3. op[p] = "insert"
        BY <1>7, <2>3, <4>2 DEF MonitorAlone
      <4> QED BY <1>6, <1>10, <4>1, <4>2, <4>3
    <3>2. InsertionOf(q)'
      <4>1. SUFFICES ASSUME op[q] = "insert", HasRule(arg[q]) PROVE HasRule(arg[q])'
        BY <1>6, <2>3 DEF UndisturbedOf, InsertionOf
      <4>2. phase[q] = "inserting" /\ arg[q] \in Sources
        BY <4>1 DEF CoreInv, CoreOf, ControlOf, DetectorPhases
      <4>3. op[p] # "insert" => arg[q] # arg[p]
        BY <1>7, <4>2 DEF BlockInv, FreshOf
      <4> QED BY <1>6, <1>10, <4>1, <4>2, <4>3
    <3> QED BY <2>1, <3>1, <3>2 DEF UndisturbedOf
  <2> QED BY <2>2, <2>3
<1>12. ActiveHasRule'
  <2>1. ASSUME NEW b \in Blocks, status[b] = "Active", HasRule(owner[b]), ~HasRule(owner[b])'
        PROVE  row[p] = b
    <3>1. owner[b] \in Sources /\ owner' = owner
      BY <1>6, <2>1 DEF CoreInv, Owners, table
    <3>2. op[p] # "insert" /\ owner[b] = arg[p]
      BY <1>10, <2>1, <3>1 DEF HasRule
    <3> QED BY <1>7, <2>1, <3>2 DEF BlockInv, SingleActive
  <2> QED BY <1>6, <2>1 DEF ActiveHasRule, table
<1> QED BY <1>9, <1>11, <1>12

(* A step leaves the other one alone. *)
LEMMA OtherUndisturbed ==
    ASSUME TypeOK, CoreInv, MonitorAlone, NEW p \in Callers, Alone(p), UNCHANGED tables,
           \/ p \in Workers
           \/ \A b \in Blocks : status[b] = "Active" =>
                  status'[b] = "Active" /\ owner'[b] = owner[b],
           NEW q \in Callers, q # p, UndisturbedOf(q)
    PROVE  UndisturbedOf(q)'
<1> USE DEF TypeOK
<1>1. /\ op'[q] = op[q] /\ step'[q] = step[q] /\ arg'[q] = arg[q]
      /\ phase'[q] = phase[q] /\ row'[q] = row[q] /\ todo'[q] = todo[q]
  BY DEF Alone
<1>2. /\ DeletionOf(q)' /\ InsertionOf(q)'
      /\ phase'[q] \notin {"rollingBack", "maintaining"}
  BY <1>1 DEF UndisturbedOf, DeletionOf, InsertionOf, HasRule, tables
<1>3. HandsOf(q)'
  <2>1. CASE p \in Workers
    <3>1. row[q] = NoBlock /\ todo[q] = {}
      BY <2>1 DEF UndisturbedOf, HandsOf, MonitorAlone
    <3>2. phase[q] # "lifting"
      BY <3>1, ResponseAssumption DEF CoreInv, CoreOf, RowsOf, Holding, Deleting
    <3> QED BY <1>1, <3>1, <3>2 DEF HandsOf
  <2>2. CASE \A b \in Blocks : status[b] = "Active" =>
                 status'[b] = "Active" /\ owner'[b] = owner[b]
    <3>1. row[q] # NoBlock => row[q] \in Blocks
      OBVIOUS
    <3>2. todo[q] \subseteq Blocks
      OBVIOUS
    <3>3. phase[q] = "lifting" => row[q] \in Blocks
      BY DEF CoreInv, CoreOf, RowsOf, Holding, Deleting
    <3>4. phase[q] = "lifting" => owner'[row[q]] = owner[row[q]]
      BY <2>2, <3>3, ResponseAssumption DEF UndisturbedOf, HandsOf
    <3> QED BY <1>1, <2>2, <3>1, <3>2, <3>4 DEF UndisturbedOf, HandsOf
  <2> QED BY <2>1, <2>2
<1> QED BY <1>2, <1>3 DEF UndisturbedOf
LEMMA DetectorUndisturbed ==
    ASSUME TypeOK, CoreInv, MonitorAlone, \A q \in Callers : UndisturbedOf(q), ActiveHasRule,
           NEW p \in Callers, p \in Detectors, faults' = faults,
           DetectorStep(p) \/ \E s \in Sources : BeginBlock(p, s)
    PROVE  UNCHANGED tables /\ (\A q \in Callers : UndisturbedOf(q)') /\ ActiveHasRule'
<1> USE DEF TypeOK, ManagerTypeOK
<1>1. /\ p \notin Workers /\ UndisturbedOf(p) /\ ~Fault
      /\ row[p] = NoBlock /\ todo[p] = {}
  BY ResponseAssumption DEF UndisturbedOf, HandsOf, Fault
<1>2. UNCHANGED tables /\ ~ActivateFails(p)
  BY <1>1 DEF DetectorStep, BeginBlock, ReadActive, ProbeRule, ActivateBlock, ActivateFails,
     RejectInsert, EndRollback
<1>3. Alone(p) /\ CoreOf(p)'
  BY DetectorCore
<1>4. UndisturbedOf(p)'
  <2>1. /\ row'[p] = NoBlock /\ todo'[p] = {}
        /\ phase'[p] \notin Taking \cup {"rollingBack", "maintaining"}
    BY <1>1, <1>2 DEF DetectorStep, BeginBlock, ReadActive, ProbeRule, ActivateBlock,
       RejectInsert, EndRollback, Become, Enter, SetRow, SetTodo, Taking, UndisturbedOf, HandsOf
  <2>2. step'[p] \notin {"confirm", "changed"} \/ (step'[p] = step[p] /\ UNCHANGED <<op, arg>>)
    <3>1. CASE DetectorStep(p)
      BY <1>2, <3>1 DEF DetectorStep, ReadActive, ProbeRule, ActivateBlock,
         RejectInsert, EndRollback, Become, Return, Call, FirstStep, frame
    <3>2. CASE \E s \in Sources : BeginBlock(p, s)
      BY <3>2 DEF BeginBlock, At, CoreInv, CoreOf, ControlOf, Calling
    <3> QED BY <3>1, <3>2
  <2>3. InsertionOf(p)'
    BY <1>1, <1>2, <2>2 DEF UndisturbedOf, InsertionOf, HasRule, tables
  <2> QED BY <2>1, <2>3 DEF UndisturbedOf, HandsOf, DeletionOf, Taking
<1>5. CASE UNCHANGED table
  <2>1. ASSUME NEW q \in Callers PROVE UndisturbedOf(q)'
    BY <1>2, <1>3, <1>4, <1>5, OtherUndisturbed DEF table
  <2>2. ASSUME NEW q \in Callers PROVE row'[q] = row[q] \/ row[q] = NoBlock
    BY <1>1, <1>3 DEF Alone
  <2>3. ActiveHasRule'
    BY <1>2, <1>5, <2>2, ResponseAssumption DEF ActiveHasRule, table, HasRule, tables
  <2> QED BY <1>2, <2>1, <2>3
<1>6. CASE ActivateBlock(p)
  <2>1. PICK b \in Blocks : Activate(b, arg[p], clk[p])
    BY <1>6 DEF ActivateBlock
  <2>2. /\ status[b] = "none"
        /\ \A c \in Blocks : c # b => status'[c] = status[c] /\ owner'[c] = owner[c]
        /\ owner'[b] = arg[p]
    BY <2>1 DEF Activate
  <2>3. HasRule(arg[p])
    BY <1>1, <1>6 DEF UndisturbedOf, InsertionOf, ActivateBlock, At, CoreInv, CoreOf, ControlOf
  <2>4. ASSUME NEW q \in Callers PROVE UndisturbedOf(q)'
    BY <1>2, <1>3, <1>4, <2>2, OtherUndisturbed
  <2>5. ASSUME NEW q \in Callers PROVE row'[q] = row[q] \/ row[q] = NoBlock
    BY <1>1, <1>3 DEF Alone
  <2>6. ActiveHasRule'
    <3>1. ASSUME NEW c \in Blocks, c # b, status'[c] = "Active"
          PROVE  HasRule(owner[c]) \/ \E q \in Callers : row'[q] = c
      <4>1. HasRule(owner[c]) \/ \E q \in Callers : row[q] = c
        BY <2>2, <3>1 DEF ActiveHasRule
      <4> QED BY <2>5, <4>1, ResponseAssumption
    <3> QED BY <1>2, <2>2, <2>3, <3>1 DEF ActiveHasRule, HasRule, tables
  <2> QED BY <1>2, <2>4, <2>6
<1> QED BY <1>2, <1>5, <1>6 DEF DetectorStep, BeginBlock, ReadActive, ProbeRule,
         RejectInsert, EndRollback

(* The worker takes the rows it has listed one by one, and closes a row only *)
(* when it lays it down. *)
LEMMA WorkerUndisturbed ==
    ASSUME TypeOK, CoreInv, MonitorAlone, \A q \in Callers : UndisturbedOf(q), ActiveHasRule,
           NEW p \in Callers, p \in Workers, faults' = faults,
           WorkerStep(p) \/ BeginReconcile(p) \/ ReconcileStep(p)
    PROVE  UNCHANGED tables /\ (\A q \in Callers : UndisturbedOf(q)') /\ ActiveHasRule'
<1> USE DEF TypeOK, ManagerTypeOK
<1>1. /\ p \notin Detectors \cup Operators /\ ~Fault
      /\ HandsOf(p) /\ DeletionOf(p) /\ RowsOf(p)
  BY ResponseAssumption DEF UndisturbedOf, Fault, CoreInv, CoreOf
<1>2. UNCHANGED tables
  BY DEF WorkerStep, BeginReconcile, ReconcileStep, BeginExpiry, ListExpired, ProbeExpired,
     MarkExpired, ExpiryFails, EndExpiry, ListRules, ListActive, ReconcileRow, MarkLifted,
     LiftFails, EndReconcile
<1>3. Alone(p) /\ CoreOf(p)'
  BY WorkerCore, ReconcileCore
<1>4. InsertionOf(p)'
  BY <1>1, <1>3 DEF InsertionOf, CoreOf, ControlOf
<1>5. \A b \in Blocks : status[b] = "Active" /\ row[p] # b => HasRule(owner[b])
  BY OtherRowsHaveRules
<1>6. phase[p] \notin Taking => row[p] = NoBlock
  BY <1>1 DEF HandsOf
\* It is enough to look at the hands of p.
<1>7. ASSUME HandsOf(p)', DeletionOf(p)', phase'[p] \notin {"rollingBack", "maintaining"},
             \A b \in Blocks : status'[b] = "Active" =>
                 status[b] = "Active" /\ owner'[b] = owner[b] /\ (HasRule(owner[b]) \/ row'[p] = b)
      PROVE  UNCHANGED tables /\ (\A q \in Callers : UndisturbedOf(q)') /\ ActiveHasRule'
  <2>1. UndisturbedOf(p)'
    BY <1>4, <1>7 DEF UndisturbedOf
  <2>2. ASSUME NEW q \in Callers PROVE UndisturbedOf(q)'
    BY <1>2, <1>3, <2>1, OtherUndisturbed
  <2>3. ActiveHasRule'
    BY <1>2, <1>7 DEF ActiveHasRule, HasRule, tables
  <2> QED BY <1>2, <2>2, <2>3
\* p stays between two rows, or lays down the row it has closed.
<1>8. ASSUME row'[p] = NoBlock, phase'[p] \notin Taking \cup {"rollingBack", "maintaining"},
             NEW c \in Blocks \cup {NoBlock}, c \notin todo'[p],
             todo'[p] \subseteq todo[p] \/ todo'[p] \subseteq ActiveRows,
             owner' = owner,
             \A b \in Blocks : status'[b] = "Active" <=> status[b] = "Active" /\ b # c,
             \A b \in Blocks : status[b] = "Active" /\ b # c => HasRule(owner[b])
      PROVE  UNCHANGED tables /\ (\A q \in Callers : UndisturbedOf(q)') /\ ActiveHasRule'
  <2>1. todo'[p] \in SUBSET Blocks /\ \A b \in todo'[p] : status[b] = "Active"
    BY <1>1, <1>8 DEF HandsOf, ActiveRows
  <2>2. HandsOf(p)'
    BY <1>8, <2>1, ResponseAssumption DEF HandsOf, Taking
  <2>3. DeletionOf(p)'
    BY <1>8 DEF DeletionOf, Taking
  <2> QED BY <1>7, <1>8, <2>2, <2>3
\* p takes up a row and calls for the deletion of its rule, or finds it gone.
<1>9. ASSUME NEW b \in todo[p], phase[p] \notin Taking, UNCHANGED table,
             row'[p] = b, todo'[p] = todo[p] \ {b},
             \/ phase'[p] \in {"deleting", "lifting"} /\ arg'[p] = owner[b]
             \/ phase'[p] = "absent"
      PROVE  UNCHANGED tables /\ (\A q \in Callers : UndisturbedOf(q)') /\ ActiveHasRule'
  <2>1. b \in Blocks /\ status[b] = "Active" /\ HasRule(owner[b])
    BY <1>1, <1>5, <1>6, <1>9, ResponseAssumption DEF HandsOf
  <2>2. HandsOf(p)'
    BY <1>1, <1>9, <2>1 DEF HandsOf, Taking, table
  <2>3. DeletionOf(p)'
    BY <1>2, <1>9, <2>1 DEF DeletionOf, HasRule, tables
  <2> QED BY <1>5, <1>6, <1>7, <1>9, <2>1, <2>2, <2>3, ResponseAssumption DEF table, Taking
<1>10. ASSUME BeginExpiry(p) \/ BeginReconcile(p) \/ ListExpired(p) \/ ListRules(p)
              \/ ListActive(p) \/ EndExpiry(p) \/ EndReconcile(p)
       PROVE  UNCHANGED tables /\ (\A q \in Callers : UndisturbedOf(q)') /\ ActiveHasRule'
  <2>1. phase[p] \notin Taking /\ UNCHANGED table
    BY <1>1, <1>10 DEF BeginExpiry, BeginReconcile, ListExpired, ListRules, ListActive,
       EndExpiry, EndReconcile, At, Taking
  <2>2. row'[p] = NoBlock /\ phase'[p] \notin Taking \cup {"rollingBack", "maintaining"}
    BY <1>1, <1>6, <1>10, <2>1 DEF BeginExpiry, BeginReconcile, ListExpired, ListRules,
       ListActive, EndExpiry, EndReconcile, Enter, Become, SetRow, Taking
  <2>3. todo'[p] \subseteq todo[p] \/ todo'[p] \subseteq ActiveRows
    BY <1>10 DEF BeginExpiry, BeginReconcile, ListExpired, ListRules, ListActive,
       EndExpiry, EndReconcile, SetTodo, Become, FirstDue, DueRows
  <2>4. NoBlock \notin todo'[p]
    BY <2>3, ResponseAssumption DEF ActiveRows
  <2> QED BY <1>5, <1>6, <1>8, <2>1, <2>2, <2>3, <2>4, ResponseAssumption DEF table
<1>11. ASSUME ProbeExpired(p)
       PROVE  UNCHANGED tables /\ (\A q \in Callers : UndisturbedOf(q)') /\ ActiveHasRule'
  <2>1. PICK b \in todo[p] : /\ phase[p] = "expiring" /\ row'[p] = b /\ todo'[p] = todo[p] \ {b}
                             /\ UNCHANGED table
                             /\ \/ phase'[p] = "deleting" /\ arg'[p] = owner[b]
                                \/ phase'[p] = "absent"
    BY <1>1, <1>11 DEF ProbeExpired, At, Earliest, SetTodo, SetRow, Enter, Call
  <2> QED BY <1>9, <2>1 DEF Taking
<1>12. ASSUME ReconcileRow(p)
       PROVE  UNCHANGED tables /\ (\A q \in Callers : UndisturbedOf(q)') /\ ActiveHasRule'
  <2>1. phase[p] = "reconciling" /\ row[p] = NoBlock
    BY <1>6, <1>12 DEF ReconcileRow, At, Taking
  <2>2. PICK b \in todo[p] :
           /\ todo'[p] = todo[p] \ {b}
           /\ \/ /\ phase'[p] = "lifting" /\ row'[p] = b /\ arg'[p] = owner[b]
                 /\ UNCHANGED table
              \/ /\ UNCHANGED <<phase, row>> /\ UNCHANGED table
              \/ /\ UNCHANGED <<phase, row>>
                 /\ \E st \in Removals, how \in Methods : MarkRemoved(b, st, how)
    BY <1>12 DEF ReconcileRow, Earliest, SetTodo, SetRow, Enter, Call, Removals, Methods
  <2>3. b \in Blocks /\ status[b] = "Active"
    BY <1>1 DEF HandsOf
  <2>4. CASE phase'[p] = "lifting" /\ row'[p] = b /\ arg'[p] = owner[b] /\ UNCHANGED table
    BY <1>9, <2>1, <2>2, <2>4 DEF Taking
  <2>5. CASE UNCHANGED <<phase, row>> /\ UNCHANGED table
    <3>1. NoBlock \notin todo'[p]
      BY <2>2, ResponseAssumption
    <3> QED BY <1>5, <1>8, <2>1, <2>2, <2>5, <3>1, ResponseAssumption DEF table, Taking
  <2>6. CASE UNCHANGED <<phase, row>> /\ \E st \in Removals, how \in Methods : MarkRemoved(b, st, how)
    <3>1. owner' = owner /\ \A c \in Blocks : status'[c] = "Active" <=> status[c] = "Active" /\ c # b
      BY <2>3, <2>6 DEF MarkRemoved, Removals
    <3>2. b \notin todo'[p]
      BY <2>2
    <3> QED BY <1>5, <1>8, <2>1, <2>2, <2>3, <2>6, <3>1, <3>2, ResponseAssumption DEF Taking
  <2> QED BY <2>2, <2>4, <2>5, <2>6
\* The row p lays down is closed, or still has its rule.
<1>13. ASSUME MarkExpired(p) \/ MarkLifted(p)
       PROVE  UNCHANGED tables /\ (\A q \in Callers : UndisturbedOf(q)') /\ ActiveHasRule'
  <2>1. phase[p] \in Taking /\ row[p] \in Blocks /\ status[row[p]] = "Active"
    BY <1>1, <1>13, ResponseAssumption DEF MarkExpired, MarkLifted, At, Taking, RowsOf, Holding,
       Deleting, HandsOf
  <2>2. /\ row'[p] = NoBlock /\ todo' = todo /\ row[p] \notin todo[p]
        /\ phase'[p] \in {"expiring", "reconciling"}
    BY <1>1, <1>13 DEF MarkExpired, MarkLifted, NextRow, SetRow, Enter, HandsOf
  <2>3. /\ owner' = owner
        /\ \A c \in Blocks : status'[c] = "Active" <=> status[c] = "Active" /\ c # row[p]
    BY <1>13, <2>1 DEF MarkExpired, MarkLifted, MarkRemoved
  <2> QED BY <1>5, <1>8, <2>1, <2>2, <2>3 DEF Taking
<1>14. ASSUME ExpiryFails(p) \/ LiftFails(p)
       PROVE  UNCHANGED tables /\ (\A q \in Callers : UndisturbedOf(q)') /\ ActiveHasRule'
  <2>1. phase[p] \in {"deleting", "lifting"} /\ row[p] \in Blocks /\ HasRule(arg[p])
    BY <1>1, <1>14 DEF ExpiryFails, LiftFails, At, Failed, RowsOf, Holding, Deleting, DeletionOf
  <2>2. arg[p] = owner[row[p]]
    BY <1>1, <2>1 DEF RowsOf, HandsOf
  <2>3. /\ row'[p] = NoBlock /\ todo' = todo /\ UNCHANGED table
        /\ phase'[p] \in {"expiring", "reconciling"}
    BY <1>14 DEF ExpiryFails, LiftFails, NextRow, SetRow, Enter
  <2>4. NoBlock \notin todo'[p]
    BY <2>3, ResponseAssumption
  <2> QED BY <1>5, <1>8, <2>1, <2>2, <2>3, <2>4, ResponseAssumption DEF table, Taking
<1> QED BY <1>10, <1>11, <1>12, <1>13, <1>14 DEF WorkerStep, ReconcileStep

LEMMA UndisturbedStep ==
    ASSUME TypeOK, CoreInv, BlockInv, MonitorAlone, Undisturbed, NEW p \in Callers, StepOf(p)
    PROVE  Undisturbed'
<1> SUFFICES ASSUME faults' = 0, deaths' = 0
             PROVE  chain' /\ (\A q \in Callers : UndisturbedOf(q)') /\ ActiveHasRule'
  BY DEF Undisturbed
<1>1. faults = 0 /\ deaths = 0 /\ ~Die(p)
  BY FaultsGrow DEF TypeOK, ManagerTypeOK
<1>2. chain /\ (\A q \in Callers : UndisturbedOf(q)) /\ ActiveHasRule
  BY <1>1 DEF Undisturbed
<1>3. Operators = {} /\ Admins = {}
  BY DEF MonitorAlone
<1>4. CASE CallManager(p)
  BY <1>1, <1>2, <1>4, CommandsUndisturbed
<1>5. CASE p \in Detectors /\ (DetectorStep(p) \/ \E s \in Sources : BeginBlock(p, s))
  BY <1>1, <1>2, <1>5, DetectorUndisturbed DEF tables
<1>6. CASE p \in Workers /\ (WorkerStep(p) \/ BeginReconcile(p) \/ ReconcileStep(p))
  BY <1>1, <1>2, <1>6, WorkerUndisturbed DEF tables
<1>7. CASE StopThread(p)
  <2>1. UNCHANGED <<tables, table>> /\ Alone(p)
    BY <1>7, StepCore DEF StopThread, StepOf
  <2>2. row[p] = NoBlock
    BY <1>2, <1>7 DEF StopThread, At, UndisturbedOf, HandsOf, Taking
  <2>3. UndisturbedOf(p)'
    BY <1>7 DEF StopThread, Become, Enter, SetRow, SetTodo, Return, UndisturbedOf, HandsOf,
       DeletionOf, InsertionOf, Taking, TypeOK, ManagerTypeOK
  <2>4. ASSUME NEW q \in Callers PROVE UndisturbedOf(q)'
    BY <1>2, <2>1, <2>3, OtherUndisturbed DEF table
  <2>5. ASSUME NEW q \in Callers PROVE row'[q] = row[q] \/ row[q] = NoBlock
    BY <2>1, <2>2 DEF Alone
  <2>6. ActiveHasRule'
    BY <1>2, <2>1, <2>5, ResponseAssumption DEF ActiveHasRule, table, HasRule, tables
  <2> QED BY <1>2, <2>1, <2>4, <2>6 DEF tables
<1> QED BY <1>1, <1>3, <1>4, <1>5, <1>6, <1>7 DEF StepOf, Advance

\* While a monitor runs alone and nothing has failed, every Active row that the worker
\* is not about to close has its rule.  The assumption is needed: with an operator
\* beside the monitor ActiveHasRule fails (run find_stale_deletion).
THEOREM BlocksStayInForce ==
    ASSUME MonitorAlone
    PROVE  Spec => []BlocksInForce
<1>1. Init => Undisturbed
  BY DEF Init, ManagerInit, Undisturbed, UndisturbedOf, HandsOf, DeletionOf, InsertionOf,
     ActiveHasRule
<1>2. TypeOK /\ CoreInv /\ BlockInv /\ Undisturbed /\ [Next]_vars => Undisturbed'
  <2> SUFFICES ASSUME TypeOK, CoreInv, BlockInv, Undisturbed, [Next]_vars
               PROVE  Undisturbed'
    OBVIOUS
  <2>1. ASSUME NEW p \in Callers, StepOf(p) PROVE Undisturbed'
    BY <2>1, UndisturbedStep
  <2>2. CASE /\ UNCHANGED <<tables, table, faults, deaths, frame, row, todo>>
             /\ \A p \in Callers : phase'[p] = phase[p]
                    \/ (phase[p] = "down" /\ phase'[p] \in {"idle", "started"})
    BY <2>2 DEF Undisturbed, UndisturbedOf, HandsOf, DeletionOf, InsertionOf, ActiveHasRule,
       HasRule, tables, table, frame, Taking
  <2> QED BY <2>1, <2>2, AnyStep
<1>3. Undisturbed => BlocksInForce
  BY DEF Undisturbed, BlocksInForce
<1>4. OneDetector
  BY DEF MonitorAlone
<1> QED BY <1>1, <1>2, <1>3, <1>4, TypeCorrect, CoreInvariance, Invariance, PTL DEF Spec
(***************************************************************************)
(* One detector: what the detection sees                                   *)
(***************************************************************************)
FiniteRows == \A s \in Sources : IsFiniteSet(RowsFor(s))

LEMMA OpeningShows ==
    ASSUME TypeOK, CoreInv, BlockInv, FiniteRows, NEW p \in Callers, Opens(p)
    PROVE  FiniteRows' /\ Table!Next
<1> USE DEF TypeOK
<1>0. PICK x \in Sources : x = arg[p]
  BY DEF Opens
<1>1. PICK b \in Blocks : Activate(b, x, clk[p])
  BY <1>0 DEF Opens
<1>2. /\ status[b] = "none"
      /\ status'[b] = "Active" /\ owner'[b] = x
      /\ \A c \in Blocks : c # b => status'[c] = status[c] /\ owner'[c] = owner[c]
  BY <1>1 DEF Activate
<1>3. ActiveOf(x) = {}
  BY <1>0 DEF Opens, BlockInv, FreshOf, ActiveOf, ActiveRows
<1>4. /\ ActiveOf(x)' = {b}
      /\ \A s \in Sources : s # x => ActiveOf(s)' = ActiveOf(s)
  BY <1>2, <1>3 DEF ActiveOf, ActiveRows
<1>5. /\ RowsFor(x)' = RowsFor(x) \cup {b} /\ b \notin RowsFor(x)
      /\ \A s \in Sources : s # x => RowsFor(s)' = RowsFor(s)
  BY <1>2 DEF RowsFor
<1>6. /\ IsFiniteSet(RowsFor(x))'
      /\ Cardinality(RowsFor(x)') = Cardinality(RowsFor(x)) + 1
  <2>1. IsFiniteSet(RowsFor(x))
    BY DEF FiniteRows
  <2>2. /\ IsFiniteSet(RowsFor(x) \cup {b})
        /\ Cardinality(RowsFor(x) \cup {b}) = Cardinality(RowsFor(x)) + 1
    BY <1>5, <2>1, FS_AddElement
  <2> QED BY <1>5, <2>2
<1>7. FiniteRows'
  <2>1. ASSUME NEW s \in Sources PROVE IsFiniteSet(RowsFor(s)')
    BY <1>5, <1>6 DEF FiniteRows
  <2> QED BY <2>1 DEF FiniteRows
<1>8. {s \in Sources : ActiveOf(s)' # {}} = {s \in Sources : ActiveOf(s) # {}} \cup {x}
  BY <1>2, <1>4
<1>9. [s \in Sources |-> Cardinality(RowsFor(s)')]
        = [[s \in Sources |-> Cardinality(RowsFor(s))]
             EXCEPT ![x] = Cardinality(RowsFor(x)) + 1]
  BY <1>2, <1>5, <1>6
<1>10. Table!Activate(x)
  BY <1>2, <1>3, <1>8, <1>9 DEF Table!Activate
<1> QED BY <1>2, <1>7, <1>10 DEF Table!Next

LEMMA ClosingShows ==
    ASSUME TypeOK, CoreInv, BlockInv, FiniteRows, Closes
    PROVE  FiniteRows' /\ [Table!Next]_Table!view
<1> USE DEF TypeOK
<1>1. PICK b \in Blocks, st \in Removals, how \in Methods : MarkRemoved(b, st, how)
  BY DEF Closes
<1>2. /\ owner' = owner
      /\ \A c \in Blocks : status'[c] = "none" <=> status[c] = "none"
      /\ \A c \in Blocks : status'[c] = "Active" <=> status[c] = "Active" /\ c # b
  BY <1>1 DEF MarkRemoved, Removals
<1>3. \A s \in Sources : RowsFor(s)' = RowsFor(s)
  BY <1>2 DEF RowsFor
<1>4. FiniteRows'
  BY <1>3 DEF FiniteRows
<1>5. [s \in Sources |-> Cardinality(RowsFor(s)')] = [s \in Sources |-> Cardinality(RowsFor(s))]
  BY <1>3
<1>6. CASE status[b] # "Active"
  <2>1. \A s \in Sources : ActiveOf(s)' = ActiveOf(s)
    BY <1>2, <1>6 DEF ActiveOf, ActiveRows
  <2>2. {s \in Sources : ActiveOf(s)' # {}} = {s \in Sources : ActiveOf(s) # {}}
    BY <2>1
  <2> QED BY <1>4, <1>5, <2>2 DEF Table!view
<1>7. CASE status[b] = "Active"
  <2>1. PICK x \in Sources : x = owner[b]
    BY <1>7 DEF CoreInv, Owners
  <2>2. ActiveOf(x) = {b}
    BY <1>7, <2>1 DEF BlockInv, SingleActive, ActiveOf, ActiveRows
  <2>3. /\ ActiveOf(x)' = {}
        /\ \A s \in Sources : s # x => ActiveOf(s)' = ActiveOf(s)
    BY <1>2, <1>7, <2>1, <2>2 DEF ActiveOf, ActiveRows, BlockInv, SingleActive
  <2>4. {s \in Sources : ActiveOf(s)' # {}} = {s \in Sources : ActiveOf(s) # {}} \ {x}
    BY <2>1, <2>3
  <2>5. Table!Remove(x)
    BY <1>5, <2>1, <2>2, <2>4 DEF Table!Remove
  <2> QED BY <1>4, <2>1, <2>5 DEF Table!Next
<1> QED BY <1>6, <1>7

\* With one detector the response keeps to the table the detection relies on: a source
\* is blocked only while it is not, and the count of its blocks is that of its rows.
THEOREM ResponseKeepsTable ==
    ASSUME OneDetector
    PROVE  Spec => KeepsBlockTable
<1>1. Init => FiniteRows /\ Table!Init
  <2> SUFFICES ASSUME Init PROVE FiniteRows /\ Table!Init
    OBVIOUS
  <2>1. \A s \in Sources : RowsFor(s) = {} /\ ActiveOf(s) = {}
    BY DEF Init, RowsFor, ActiveOf, ActiveRows
  <2>2. \A s \in Sources : IsFiniteSet(RowsFor(s)) /\ Cardinality(RowsFor(s)) = 0
    BY <2>1, FS_EmptySet
  <2> QED BY <2>1, <2>2 DEF FiniteRows, Table!Init
<1>2. TypeOK /\ CoreInv /\ BlockInv /\ FiniteRows /\ [Next]_vars
        => FiniteRows' /\ [Table!Next]_Table!view
  <2> SUFFICES ASSUME TypeOK, CoreInv, BlockInv, FiniteRows, [Next]_vars
               PROVE  FiniteRows' /\ [Table!Next]_Table!view
    OBVIOUS
  <2>1. CASE UNCHANGED table
    <3>1. \A s \in Sources : RowsFor(s)' = RowsFor(s) /\ ActiveOf(s)' = ActiveOf(s)
      BY <2>1 DEF table, RowsFor, ActiveOf, ActiveRows
    <3>2. /\ {s \in Sources : ActiveOf(s)' # {}} = {s \in Sources : ActiveOf(s) # {}}
          /\ [s \in Sources |-> Cardinality(RowsFor(s)')]
               = [s \in Sources |-> Cardinality(RowsFor(s))]
      BY <3>1
    <3> QED BY <3>1, <3>2 DEF FiniteRows, Table!view
  <2>2. ASSUME NEW p \in Callers, StepOf(p) PROVE FiniteRows' /\ [Table!Next]_Table!view
    BY <2>1, <2>2, StepMoves, OpeningShows, ClosingShows DEF Moves
  <2> QED BY <2>1, <2>2, AnyStep
<1> QED BY <1>1, <1>2, TypeCorrect, CoreInvariance, Invariance, PTL
      DEF Spec, KeepsBlockTable, Table!Spec
=============================================================================
