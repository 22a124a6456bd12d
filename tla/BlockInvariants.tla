-------------------------- MODULE BlockInvariants --------------------------
(***************************************************************************)
(* The inductive invariants behind the safety properties of BlockResponse, *)
(* layered by what they assume:                                            *)
(*                                                                         *)
(*   CoreInv        whoever runs beside whom                               *)
(*   BlockInv       one detector (OneDetector)                             *)
(*   RemovedOf      one administrator (OneAdmin)                           *)
(*                                                                         *)
(* Nothing in the code enforces either assumption: the monitor and         *)
(* "detect --apply-response" are two detectors, and firewall-init can be   *)
(* called while firewall-cleanup runs.                                     *)
(***************************************************************************)
EXTENDS BlockResponse

OneDetector == \A d, e \in Detectors : d = e
OneAdmin == \A a, b \in Admins : a = b

Calling == {"inserting", "rollingBack", "deleting", "lifting", "unblockDelete", "maintaining"}
Deleting == {"deleting", "lifting", "unblockDelete"}
Holding == Deleting \cup {"absent", "unblocking"}

(***************************************************************************)
(* Any number of detectors and administrators                              *)
(***************************************************************************)
\* Which manager call a process can be in at each point of its handler.
ControlOf(p) ==
    /\ op[p] = "insert" => p \in Detectors
    /\ op[p] = "insert" <=> phase[p] = "inserting"
    /\ op[p] \in {"initialize", "cleanup"} => p \in Admins
    /\ phase[p] \in Deleting \cup {"rollingBack"} => op[p] = "delete"
    /\ phase[p] \notin Calling => op[p] = "none" /\ step[p] = "idle"
    /\ step[p] \in RuleSteps => op[p] \in {"insert", "delete", "cleanup"}
    /\ step[p] \in CleanupSteps => op[p] = "cleanup"
    /\ step[p] \in InitializeSteps => op[p] = "initialize"
    /\ phase[p] \in DetectorPhases => p \in Detectors /\ arg[p] \in Sources
    /\ phase[p] = "closing" => p \in Admins

\* The rows a process holds were inserted, and it deletes the rule of its row.
RowsOf(p) ==
    /\ phase[p] \in Holding => row[p] \in Blocks /\ status[row[p]] # "none"
    /\ phase[p] \in {"unblocking", "deleting", "unblockDelete"} => arg[p] = owner[row[p]]
    /\ \A b \in todo[p] : status[b] # "none"

\* Clock readings are in the past, and the rows read as due are due.
DueOf(p) ==
    /\ clk[p] <= now
    /\ phase[p] \in {"expiring", "deleting", "absent"} => \A b \in todo[p] : expires[b] <= clk[p]
    /\ phase[p] \in {"deleting", "absent", "lifting"} => expires[row[p]] <= clk[p]

CoreOf(p) == ControlOf(p) /\ RowsOf(p) /\ DueOf(p)

Owners == \A b \in Blocks : status[b] # "none" => owner[b] \in Sources

\* Rules are in the chain.
RulesInChain == ~chain => \A s \in Sources : ~HasRule(s)

\* A profile that says Active has a row that is: half of ProfileAgrees, the
\* other half of which a second Active row of the source breaks.
ProfileHasRow == \A s \in Sources : profile[s] = "Active" => ActiveOf(s) # {}

CoreInv == (\A p \in Callers : CoreOf(p)) /\ Owners /\ RulesInChain /\ ProfileHasRow

(***************************************************************************)
(* Counting: who is about to insert a rule, open a row or add a jump, and  *)
(* found none, has a share in the rules, rows or jumps there may be.       *)
(***************************************************************************)
Applying(s) == {d \in Detectors : op[d] = "insert" /\ step[d] = "apply" /\ arg[d] = s}
Opening(s) == {d \in Detectors : phase[d] \in {"probe", "inserting"} /\ arg[d] = s}
Jumping == {a \in Admins : step[a] = "makeJump"}

RuleShares ==
    \A s \in Sources : rules[s] + Cardinality(Applying(s)) <= Cardinality(Detectors)
RowShares ==
    \A s \in Sources :
        /\ IsFiniteSet(ActiveOf(s))
        /\ Cardinality(ActiveOf(s)) + Cardinality(Opening(s)) <= Cardinality(Detectors)
MostJumps == IF Admins = {} THEN 1 ELSE Cardinality(Admins)
JumpShares == jump + Cardinality(Jumping) <= MostJumps

\* What they say: as many copies, Active rows and jumps as there are processes
\* that can race for them, never more, however long they run.
RulesBounded == \A s \in Sources : rules[s] <= Cardinality(Detectors)
RowsBounded == \A s \in Sources : Cardinality(ActiveOf(s)) <= Cardinality(Detectors)
JumpsBounded == jump <= MostJumps

(***************************************************************************)
(* One detector, or one administrator                                      *)
(***************************************************************************)
\* A detector past get_active works on a source without an Active row.
FreshOf(p) ==
    phase[p] \in {"probe", "inserting"} =>
        \A b \in Blocks : status[b] = "Active" => owner[b] # arg[p]

\* -I runs only when the source has no rule.
InsertOf(p) == op[p] = "insert" /\ step[p] = "apply" => ~HasRule(arg[p])

\* A process about to close its row as lifted knows that the rule is gone,
\* as long as nobody else has closed the row.
KnowsLifted(p) ==
    \/ phase[p] = "absent"
    \/ phase[p] \in {"deleting", "unblockDelete"} /\ Succeeded(p)

LiftedOf(p) == KnowsLifted(p) /\ status[row[p]] = "Active" => ~HasRule(owner[row[p]])

BlockInv ==
    /\ \A p \in Callers : FreshOf(p) /\ InsertOf(p) /\ LiftedOf(p)
    /\ SingleActive /\ NoDuplicateRule /\ ProfileAgrees

\* An administrator that closes rows has removed the chain.
RemovedOf(p) == phase[p] = "closing" \/ (op[p] = "cleanup" /\ step[p] = "changed") => ~chain
RemovedInv == \A p \in Callers : RemovedOf(p)

(***************************************************************************)
(* The owner of a rule: an Active row that nobody is about to close as     *)
(* lifted, an insertion past -I, or a reconciliation.  The last insertion  *)
(* of a rule is younger than anybody's knowledge that the rule is gone.    *)
(***************************************************************************)
Kept(s) ==
    \/ \E b \in ActiveOf(s) : \A p \in Callers : KnowsLifted(p) => row[p] # b
    \/ \E d \in Detectors : op[d] = "insert" /\ arg[d] = s /\ step[d] \in {"confirm", "changed"}
    \/ Reconciled(s)

RulesKept == faults = 0 /\ deaths = 0 => \A s \in Sources : HasRule(s) => Kept(s)

\* Only a closed row says how it was closed.
OpenRows == \A b \in Blocks : status[b] \in {"none", "Active"} => method[b] = "none"

(***************************************************************************)
(* A monitor by itself: one detector, one worker and no command.  As long  *)
(* as nothing fails, the rows the worker has listed are Active until it    *)
(* closes them, and each has its rule until the worker deletes it.         *)
(***************************************************************************)
MonitorAlone ==
    /\ OneDetector /\ Operators = {} /\ Admins = {}
    /\ \A v, w \in Workers : v = w

Taking == {"deleting", "absent", "lifting"}

\* What a worker has in its hands: rows nobody else closes.
HandsOf(p) ==
    /\ row[p] # NoBlock \/ todo[p] # {} => p \in Workers
    /\ row[p] # NoBlock => phase[p] \in Taking /\ status[row[p]] = "Active"
    /\ \A b \in todo[p] : status[b] = "Active" /\ b # row[p]
    /\ phase[p] = "lifting" => arg[p] = owner[row[p]]

\* A deletion that has not reached -D, or has failed, has left the rule.
DeletionOf(p) ==
    phase[p] \in {"deleting", "lifting"} /\ step[p] \in {"findChain", "findRule", "apply", "failed"}
        => HasRule(arg[p])

\* An insertion past -I has its rule.
InsertionOf(p) ==
    op[p] = "insert" /\ step[p] \in {"confirm", "changed"} => HasRule(arg[p])

UndisturbedOf(p) ==
    /\ HandsOf(p) /\ DeletionOf(p) /\ InsertionOf(p)
    /\ phase[p] \notin {"rollingBack", "maintaining"}

Undisturbed ==
    faults = 0 /\ deaths = 0 =>
        chain /\ (\A p \in Callers : UndisturbedOf(p)) /\ ActiveHasRule
=============================================================================
