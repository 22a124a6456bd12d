--------------------------- MODULE BlockResponse ---------------------------
(***************************************************************************)
(* The block lifecycle: every process that turns a BLOCK decision into an  *)
(* iptables rule and a row of the blocks table, or takes one away.         *)
(*                                                                         *)
(*   Detectors   BlockManager.block_detection, in the monitor's            *)
(*               correlation thread and in "detect --apply-response"       *)
(*   Workers     ResponseWorker.run: one reconciliation, then expiration   *)
(*               cycles, in the monitor                                    *)
(*   Operators   "unblock" and "response-reconcile"                        *)
(*   Admins      "firewall-init" and "firewall-cleanup"                    *)
(*                                                                         *)
(* The table rows and the iptables rules are two stores with no common     *)
(* transaction: an action is one SQLite transaction or query, one iptables *)
(* command (FirewallManager), or one reading of the clock.                 *)
(***************************************************************************)
EXTENDS FirewallManager

CONSTANTS
    Detectors, Workers, Operators, Admins,
    Groups,         \* the processes: sets of threads that start together
    Blocks,         \* block identifiers, one per row of the blocks table
    NoBlock,        \* no block
    Duration,       \* response.block_duration_seconds
    ExpireLimit,    \* rows a cycle of the expiration worker reads
    MaxDeaths,      \* bound: threads and commands that die between two steps
    MaxTime         \* bound on the clock

Threads == Detectors \cup Workers

ASSUME ResponseAssumption ==
    /\ Callers = Detectors \cup Workers \cup Operators \cup Admins
    /\ Detectors \cap (Workers \cup Operators \cup Admins) = {}
    /\ Workers \cap (Operators \cup Admins) = {}
    /\ Operators \cap Admins = {}
    /\ Groups \subseteq SUBSET Threads
    /\ NoBlock \notin Blocks
    /\ Duration \in Nat \ {0}
    /\ ExpireLimit \in Nat \ {0}
    /\ MaxDeaths \in Nat
    /\ MaxTime \in Nat

VARIABLES
    status,         \* blocks.status of each row, "none" before it is inserted
    owner,          \* blocks.source_ip
    expires,        \* blocks.expires_at
    method,         \* blocks.removal_method
    profile,        \* ip_profiles.current_block_status of each source
    now,            \* the wall clock
    deaths,         \* threads and commands that have died
    phase,          \* where each process is
    row,            \* the block it works on
    clk,            \* its reading of the clock
    todo,           \* the rows it has read and not yet handled
    snap            \* reconciliation: copies of each rule listed, not yet owned

table == <<status, owner, expires, method, profile>>
locals == <<frame, phase, row, clk, todo, snap>>
vars == <<tables, faults, deaths, table, now, locals>>

Removals == {"Expired", "ManuallyRemoved", "Inconsistent"}
Statuses == {"none", "Active"} \cup Removals
Methods == {"none", "Automatic", "Reconciliation", "ManualCLI", "ExplicitCleanup"}
DetectorPhases == {"readActive", "probe", "inserting", "rollingBack"}
WorkerPhases == {"listExpired", "expiring", "deleting", "absent"}
ReconcilePhases == {"started", "listRules", "listActive", "reconciling", "lifting"}
CommandPhases == {"unblocking", "unblockDelete", "maintaining", "closing"}
Phases == {"idle", "down"} \cup DetectorPhases \cup WorkerPhases
              \cup ReconcilePhases \cup CommandPhases

NoRules == [s \in Sources |-> 0]

TypeOK ==
    /\ ManagerTypeOK
    /\ status \in [Blocks -> Statuses]
    /\ owner \in [Blocks -> Sources \cup {NoSource}]
    /\ expires \in [Blocks -> Nat]
    /\ method \in [Blocks -> Methods]
    /\ profile \in [Sources -> Statuses]
    /\ now \in Nat
    /\ deaths \in 0..MaxDeaths
    /\ phase \in [Callers -> Phases]
    /\ row \in [Callers -> Blocks \cup {NoBlock}]
    /\ clk \in [Callers -> Nat]
    /\ todo \in [Callers -> SUBSET Blocks]
    /\ snap \in [Callers -> [Sources -> Int]]

Init ==
    /\ ManagerInit
    /\ status = [b \in Blocks |-> "none"]
    /\ owner = [b \in Blocks |-> NoSource]
    /\ expires = [b \in Blocks |-> 0]
    /\ method = [b \in Blocks |-> "none"]
    /\ profile = [s \in Sources |-> "none"]
    /\ now = 0
    /\ deaths = 0
    /\ phase = [p \in Callers |-> IF p \in Workers THEN "started" ELSE "idle"]
    /\ row = [p \in Callers |-> NoBlock]
    /\ clk = [p \in Callers |-> 0]
    /\ todo = [p \in Callers |-> {}]
    /\ snap = [p \in Callers |-> NoRules]

(***************************************************************************)
(* The blocks table (BlockRepository).  Every operator is one transaction. *)
(***************************************************************************)
ActiveRows == {b \in Blocks : status[b] = "Active"}
ActiveOf(s) == {b \in ActiveRows : owner[b] = s}

Earliest(S) == {b \in S : \A c \in S : expires[b] <= expires[c]}
Latest(S) == {b \in S : \A c \in S : expires[c] <= expires[b]}

(* Mutant: expires_at is before blocked_at. *)
Activate_Backwards(b, s, blockedAt) ==
    /\ status[b] = "none"
    /\ status' = [status EXCEPT ![b] = "Active"]
    /\ owner' = [owner EXCEPT ![b] = s]
    /\ expires' = [expires EXCEPT ![b] = blockedAt - Duration]
    /\ profile' = [profile EXCEPT ![s] = "Active"]
    /\ UNCHANGED method

Activate(b, s, blockedAt) ==
    /\ status[b] = "none"
    /\ status' = [status EXCEPT ![b] = "Active"]
    /\ owner' = [owner EXCEPT ![b] = s]
    /\ expires' = [expires EXCEPT ![b] = blockedAt + Duration]
    /\ profile' = [profile EXCEPT ![s] = "Active"]
    /\ UNCHANGED method

(* Mutant: the profile changes even if the row is closed already. *)
MarkRemoved_AnyRow(b, newStatus, how) ==
    /\ IF status[b] = "Active"
       THEN /\ status' = [status EXCEPT ![b] = newStatus]
            /\ method' = [method EXCEPT ![b] = how]
       ELSE UNCHANGED <<status, method>>
    /\ profile' = [profile EXCEPT ![owner[b]] = newStatus]
    /\ UNCHANGED <<owner, expires>>

(* mark_removed changes only a row that is still Active, and its profile
   in the same transaction. *)
MarkRemoved(b, newStatus, how) ==
    /\ IF status[b] = "Active"
       THEN /\ status' = [status EXCEPT ![b] = newStatus]
            /\ method' = [method EXCEPT ![b] = how]
            /\ profile' = [profile EXCEPT ![owner[b]] = newStatus]
       ELSE UNCHANGED <<status, method, profile>>
    /\ UNCHANGED <<owner, expires>>

(* Mutant: the comparison with expires_at is missing. *)
DueRows_All(t) == ActiveRows

(* The first ExpireLimit Active rows that are due at t, by expires_at. *)
DueRows(t) == {b \in ActiveRows : expires[b] <= t}
(* Mutant: LIMIT is one row short. *)
FirstDue_Short(t) ==
    {S \in SUBSET DueRows(t) :
        /\ Cardinality(S) < ExpireLimit
        /\ S # DueRows(t) => Cardinality(S) = ExpireLimit - 1
        /\ \A b \in S : \A c \in DueRows(t) \ S : expires[b] <= expires[c]}

FirstDue(t) ==
    {S \in SUBSET DueRows(t) :
        /\ Cardinality(S) <= ExpireLimit
        /\ S # DueRows(t) => Cardinality(S) = ExpireLimit
        /\ \A b \in S : \A c \in DueRows(t) \ S : expires[b] <= expires[c]}

(***************************************************************************)
(* Control.  Become(p, ph) returns from everything p was doing.            *)
(***************************************************************************)
At(p, ph) == phase[p] = ph
Enter(p, ph) == phase' = [phase EXCEPT ![p] = ph]
SetRow(p, b) == row' = [row EXCEPT ![p] = b]
SetClk(p, t) == clk' = [clk EXCEPT ![p] = t]
SetTodo(p, S) == todo' = [todo EXCEPT ![p] = S]
SetSnap(p, f) == snap' = [snap EXCEPT ![p] = f]

Become(p, ph) ==
    /\ Enter(p, ph) /\ SetRow(p, NoBlock) /\ SetClk(p, 0)
    /\ SetTodo(p, {}) /\ SetSnap(p, NoRules) /\ Return(p)

(* A loop over rows is done with the current one. *)
NextRow(p, ph) ==
    /\ Enter(p, ph) /\ SetRow(p, NoBlock) /\ Return(p)
    /\ UNCHANGED <<clk, todo, snap>>

(* The result of the manager call p made. *)
Succeeded(p) == step[p] \in {"changed", "unchanged"}
Failed(p) == step[p] = "failed"

(***************************************************************************)
(* BlockManager.block_detection                                            *)
(***************************************************************************)
(* The clock is read first, for blocked_at and expires_at.  A rejection    *)
(* before anything is changed (decision, allowlist, address) is a          *)
(* detection this action does not start.                                   *)
BeginBlock(d, s) ==
    /\ At(d, "idle")
    /\ \E b \in Blocks : status[b] = "none"         \* bound: a row is left
    /\ Enter(d, "readActive")
    /\ SetClk(d, now)
    /\ arg' = [arg EXCEPT ![d] = s]
    /\ UNCHANGED <<tables, faults, deaths, table, now, op, step, listed, row, todo, snap>>

(* Mutant: an existing Active row is ignored. *)
ReadActive_Unchecked(d) ==
    /\ At(d, "readActive")
    /\ Enter(d, "probe")
    /\ UNCHANGED <<tables, faults, deaths, table, now, frame, row, clk, todo, snap>>

ReadActive(d) ==
    /\ At(d, "readActive")
    /\ IF ActiveOf(arg[d]) # {}
       THEN Become(d, "idle")
       ELSE Enter(d, "probe") /\ UNCHANGED <<frame, row, clk, todo, snap>>
    /\ UNCHANGED <<tables, faults, deaths, table, now>>

ProbeRule(d) ==
    /\ At(d, "probe")
    /\ \/ HasRule(arg[d]) /\ Become(d, "idle") /\ UNCHANGED faults
       \/ /\ ~HasRule(arg[d])
          /\ Enter(d, "inserting")
          /\ Call(d, "insert", arg[d])
          /\ UNCHANGED <<faults, row, clk, todo, snap>>
       \/ Fault /\ Become(d, "idle")
    /\ UNCHANGED <<tables, deaths, table, now>>

ActivateBlock(d) ==
    /\ At(d, "inserting") /\ step[d] = "changed"
    /\ \E b \in Blocks : Activate(b, arg[d], clk[d])
    /\ Become(d, "idle")
    /\ UNCHANGED <<tables, faults, deaths, now>>

(* activate raises: no profile for the source, or the database fails. *)
ActivateFails(d) ==
    /\ At(d, "inserting") /\ step[d] = "changed"
    /\ Fault
    /\ Enter(d, "rollingBack")
    /\ Call(d, "delete", arg[d])
    /\ UNCHANGED <<tables, deaths, table, now, row, clk, todo, snap>>

(* Anything but a successful change is rejected as it stands. *)
RejectInsert(d) ==
    /\ At(d, "inserting") /\ step[d] \in {"unchanged", "failed"}
    /\ Become(d, "idle")
    /\ UNCHANGED <<tables, faults, deaths, table, now>>

EndRollback(d) ==
    /\ At(d, "rollingBack") /\ step[d] \in Results
    /\ Become(d, "idle")
    /\ UNCHANGED <<tables, faults, deaths, table, now>>

DetectorStep(d) ==
    \/ ReadActive(d) \/ ProbeRule(d) \/ ActivateBlock(d)
    \/ ActivateFails(d) \/ RejectInsert(d) \/ EndRollback(d)

(***************************************************************************)
(* ExpirationWorker.process_once.  record_error writes only a message.     *)
(***************************************************************************)
BeginExpiry(w) ==
    /\ At(w, "idle")
    /\ Enter(w, "listExpired")
    /\ SetClk(w, now)
    /\ UNCHANGED <<tables, faults, deaths, table, now, frame, row, todo, snap>>

ListExpired(w) ==
    /\ At(w, "listExpired")
    /\ \E S \in FirstDue(clk[w]) : SetTodo(w, S)
    /\ Enter(w, "expiring")
    /\ UNCHANGED <<tables, faults, deaths, table, now, frame, row, clk, snap>>

(* Mutant: the rule is taken to be absent. *)
ProbeExpired_Unchecked(w) ==
    /\ At(w, "expiring")
    /\ \E b \in Earliest(todo[w]) : SetTodo(w, todo[w] \ {b}) /\ SetRow(w, b)
    /\ Enter(w, "absent")
    /\ UNCHANGED <<tables, faults, deaths, table, now, frame, clk, snap>>

ProbeExpired(w) ==
    /\ At(w, "expiring")
    /\ \E b \in Earliest(todo[w]) :
          /\ SetTodo(w, todo[w] \ {b})
          /\ \/ /\ SetRow(w, b)
                /\ IF HasRule(owner[b])
                   THEN Enter(w, "deleting") /\ Call(w, "delete", owner[b])
                   ELSE Enter(w, "absent") /\ UNCHANGED frame
                /\ UNCHANGED faults
             \/ Fault /\ UNCHANGED <<phase, row, frame>>
    /\ UNCHANGED <<tables, deaths, table, now, clk, snap>>

(* Mutant: the result of the deletion is ignored. *)
MarkExpired_AnyResult(w) ==
    /\ At(w, "absent") \/ (At(w, "deleting") /\ step[w] \in Results)
    /\ MarkRemoved(row[w], "Expired", "Automatic")
    /\ NextRow(w, "expiring")
    /\ UNCHANGED <<tables, faults, deaths, now>>

MarkExpired(w) ==
    /\ At(w, "absent") \/ (At(w, "deleting") /\ Succeeded(w))
    /\ MarkRemoved(row[w], "Expired", "Automatic")
    /\ NextRow(w, "expiring")
    /\ UNCHANGED <<tables, faults, deaths, now>>

(* Mutant: a successful deletion is treated as a failed one. *)
ExpiryFails_AnyResult(w) ==
    /\ At(w, "deleting") /\ step[w] \in Results
    /\ NextRow(w, "expiring")
    /\ UNCHANGED <<tables, faults, deaths, table, now>>

ExpiryFails(w) ==
    /\ At(w, "deleting") /\ Failed(w)
    /\ NextRow(w, "expiring")
    /\ UNCHANGED <<tables, faults, deaths, table, now>>

EndExpiry(w) ==
    /\ At(w, "expiring") /\ todo[w] = {}
    /\ Become(w, "idle")
    /\ UNCHANGED <<tables, faults, deaths, table, now>>

WorkerStep(w) ==
    \/ BeginExpiry(w) \/ ListExpired(w) \/ ProbeExpired(w)
    \/ MarkExpired(w) \/ ExpiryFails(w) \/ EndExpiry(w)

(***************************************************************************)
(* FirewallReconciler.reconcile, at the start of a worker and by hand.     *)
(***************************************************************************)
Ready == chain /\ jump > 0

BeginReconcile(p) ==
    /\ \/ p \in Workers /\ At(p, "started")
       \/ p \in Operators /\ At(p, "idle") /\ Ready
    /\ Enter(p, "listRules")
    /\ SetClk(p, now)
    /\ UNCHANGED <<tables, faults, deaths, table, now, frame, row, todo, snap>>

ListRules(p) ==
    /\ At(p, "listRules")
    /\ \/ /\ chain
          /\ SetSnap(p, rules)
          /\ Enter(p, "listActive")
          /\ UNCHANGED <<faults, frame, row, clk, todo>>
       \/ ~chain /\ Become(p, "idle") /\ UNCHANGED faults
       \/ Fault /\ Become(p, "idle")
    /\ UNCHANGED <<tables, deaths, table, now>>

ListActive(p) ==
    /\ At(p, "listActive")
    /\ SetTodo(p, ActiveRows)
    /\ Enter(p, "reconciling")
    /\ UNCHANGED <<tables, faults, deaths, table, now, frame, row, clk, snap>>

Claim(p, s) == SetSnap(p, [snap[p] EXCEPT ![s] = @ - 1])

(* One row: due and listed, so its rule is deleted; due and not listed;    *)
(* in force and listed; or in force and not listed.                        *)
ReconcileRow(p) ==
    /\ At(p, "reconciling")
    /\ \E b \in Earliest(todo[p]) :
          LET due == expires[b] <= clk[p]
              has == snap[p][owner[b]] > 0
          IN /\ SetTodo(p, todo[p] \ {b})
             /\ \/ /\ due /\ has
                   /\ Enter(p, "lifting") /\ SetRow(p, b)
                   /\ Call(p, "delete", owner[b])
                   /\ UNCHANGED <<table, snap>>
                \/ /\ due /\ ~has
                   /\ MarkRemoved(b, "Expired", "Reconciliation")
                   /\ UNCHANGED <<phase, row, frame, snap>>
                \/ /\ ~due /\ has
                   /\ Claim(p, owner[b])
                   /\ UNCHANGED <<table, phase, row, frame>>
                \/ /\ ~due /\ ~has
                   /\ MarkRemoved(b, "Inconsistent", "Reconciliation")
                   /\ UNCHANGED <<phase, row, frame, snap>>
    /\ UNCHANGED <<tables, faults, deaths, now, clk>>

MarkLifted(p) ==
    /\ At(p, "lifting") /\ Succeeded(p)
    /\ MarkRemoved(row[p], "Expired", "Reconciliation")
    /\ Claim(p, arg[p])
    /\ Enter(p, "reconciling") /\ SetRow(p, NoBlock) /\ Return(p)
    /\ UNCHANGED <<tables, faults, deaths, now, clk, todo>>

LiftFails(p) ==
    /\ At(p, "lifting") /\ Failed(p)
    /\ NextRow(p, "reconciling")
    /\ UNCHANGED <<tables, faults, deaths, table, now>>

(* Rules left in snap belong to no row: they are reported, not deleted. *)
EndReconcile(p) ==
    /\ At(p, "reconciling") /\ todo[p] = {}
    /\ Become(p, "idle")
    /\ UNCHANGED <<tables, faults, deaths, table, now>>

ReconcileStep(p) ==
    \/ ListRules(p) \/ ListActive(p) \/ ReconcileRow(p)
    \/ MarkLifted(p) \/ LiftFails(p) \/ EndReconcile(p)

(***************************************************************************)
(* unblock                                                                 *)
(***************************************************************************)
BeginUnblock(o, s) ==
    /\ At(o, "idle")
    /\ \E b \in Latest(ActiveOf(s)) : SetRow(o, b)
    /\ Enter(o, "unblocking")
    /\ arg' = [arg EXCEPT ![o] = s]
    /\ UNCHANGED <<tables, faults, deaths, table, now, op, step, listed, clk, todo, snap>>

ProbeUnblock(o) ==
    /\ At(o, "unblocking")
    /\ \/ /\ HasRule(arg[o])
          /\ Enter(o, "unblockDelete")
          /\ Call(o, "delete", arg[o])
          /\ UNCHANGED <<faults, row, clk, todo, snap>>
       \/ ~HasRule(arg[o]) /\ Become(o, "idle") /\ UNCHANGED faults
       \/ Fault /\ Become(o, "idle")
    /\ UNCHANGED <<tables, deaths, table, now>>

MarkUnblocked(o) ==
    /\ At(o, "unblockDelete") /\ Succeeded(o)
    /\ MarkRemoved(row[o], "ManuallyRemoved", "ManualCLI")
    /\ Become(o, "idle")
    /\ UNCHANGED <<tables, faults, deaths, now>>

UnblockFails(o) ==
    /\ At(o, "unblockDelete") /\ Failed(o)
    /\ Become(o, "idle")
    /\ UNCHANGED <<tables, faults, deaths, table, now>>

UnblockStep(o) == ProbeUnblock(o) \/ MarkUnblocked(o) \/ UnblockFails(o)

(***************************************************************************)
(* firewall-init and firewall-cleanup                                      *)
(***************************************************************************)
BeginMaintenance(a, command) ==
    /\ At(a, "idle")
    /\ Enter(a, "maintaining")
    /\ Call(a, command, NoSource)
    /\ UNCHANGED <<tables, faults, deaths, table, now, row, clk, todo, snap>>

(* Only a cleanup that removed the chain goes on to the blocks table. *)
EndMaintenance(a) ==
    /\ At(a, "maintaining") /\ step[a] \in Results
    /\ op[a] = "cleanup" => step[a] # "changed"
    /\ Become(a, "idle")
    /\ UNCHANGED <<tables, faults, deaths, table, now>>

(* Mutant: the result of the cleanup is ignored. *)
ListCleaned_AnyResult(a) ==
    /\ At(a, "maintaining") /\ op[a] = "cleanup" /\ step[a] \in Results
    /\ SetTodo(a, ActiveRows)
    /\ Enter(a, "closing")
    /\ Return(a)
    /\ UNCHANGED <<tables, faults, deaths, table, now, row, clk, snap>>

ListCleaned(a) ==
    /\ At(a, "maintaining") /\ op[a] = "cleanup" /\ step[a] = "changed"
    /\ SetTodo(a, ActiveRows)
    /\ Enter(a, "closing")
    /\ Return(a)
    /\ UNCHANGED <<tables, faults, deaths, table, now, row, clk, snap>>

CloseRow(a) ==
    /\ At(a, "closing")
    /\ \E b \in Earliest(todo[a]) :
          /\ MarkRemoved(b, "Inconsistent", "ExplicitCleanup")
          /\ SetTodo(a, todo[a] \ {b})
    /\ UNCHANGED <<tables, faults, deaths, now, frame, phase, row, clk, snap>>

EndCleanup(a) ==
    /\ At(a, "closing") /\ todo[a] = {}
    /\ Become(a, "idle")
    /\ UNCHANGED <<tables, faults, deaths, table, now>>

AdminStep(a) ==
    \/ EndMaintenance(a) \/ ListCleaned(a) \/ CloseRow(a) \/ EndCleanup(a)

(***************************************************************************)
(* Processes                                                               *)
(***************************************************************************)
CallManager(p) ==
    /\ ManagerStep(p)
    /\ UNCHANGED <<deaths, table, now, phase, row, clk, todo, snap>>

(* A thread or command dies between two steps: an exception the handler    *)
(* does not catch, a kill, a power loss.  Rows and rules stay.             *)
Die(p) ==
    /\ phase[p] \notin {"idle", "down"}
    /\ deaths < MaxDeaths /\ deaths' = deaths + 1
    /\ Become(p, IF p \in Threads THEN "down" ELSE "idle")
    /\ UNCHANGED <<tables, faults, table, now>>

(* _guard_component: when one thread ends the others end too. *)
Stopping(p) == \E g \in Groups : p \in g /\ \E q \in g : At(q, "down")

StopThread(p) ==
    /\ At(p, "idle") /\ Stopping(p)
    /\ Become(p, "down")
    /\ UNCHANGED <<tables, faults, deaths, table, now>>

Start(g) ==
    /\ \A p \in g : At(p, "down")
    /\ Ready
    /\ phase' = [p \in Callers |->
                    IF p \notin g THEN phase[p]
                    ELSE IF p \in Workers THEN "started" ELSE "idle"]
    /\ UNCHANGED <<tables, faults, deaths, table, now, frame, row, clk, todo, snap>>

Tick ==
    /\ now < MaxTime
    /\ now' = now + 1
    /\ UNCHANGED <<tables, faults, deaths, table, locals>>

(* What p does by itself once it has something to do. *)
Advance(p) ==
    \/ CallManager(p)
    \/ p \in Detectors /\ DetectorStep(p)
    \/ p \in Workers /\ (WorkerStep(p) \/ BeginReconcile(p))
    \/ p \in Workers \cup Operators /\ ReconcileStep(p)
    \/ p \in Operators /\ UnblockStep(p)
    \/ p \in Admins /\ AdminStep(p)

Request ==
    \/ \E d \in Detectors, s \in Sources : BeginBlock(d, s)
    \/ \E o \in Operators : BeginReconcile(o)
    \/ \E o \in Operators, s \in Sources : BeginUnblock(o, s)
    \/ \E a \in Admins, c \in {"initialize", "cleanup"} : BeginMaintenance(a, c)

Next ==
    \/ Tick
    \/ Request
    \/ \E p \in Callers : Advance(p) \/ Die(p)
    \/ \E p \in Threads : StopThread(p)
    \/ \E g \in Groups : Start(g)

Spec == Init /\ [][Next]_vars

(***************************************************************************)
(* Fairness: the threads and commands that run are scheduled (their waits  *)
(* have timeouts), time passes, and a thread looks at stop_event every     *)
(* time round its loop: a detector that is always given more work stops,   *)
(* hence SF.  Nobody has to ask for anything, and nothing restarts the     *)
(* monitor.                                                                *)
(***************************************************************************)
Fairness ==
    /\ WF_vars(Tick)
    /\ \A p \in Callers : WF_vars(Advance(p))
    /\ \A p \in Threads : SF_vars(StopThread(p))

FairSpec == Spec /\ Fairness

(***************************************************************************)
(* Properties                                                              *)
(***************************************************************************)
\* At most one row of a source is Active.  Nothing in the schema enforces
\* it: block_detection reads get_active and inserts in two transactions.
SingleActive ==
    \A b, c \in Blocks :
        status[b] = "Active" /\ status[c] = "Active" /\ owner[b] = owner[c] => b = c

\* A source never has two copies of its DROP rule, so that one deletion
\* lifts the block (block_detection and _change_rule check before -I).
NoDuplicateRule == \A s \in Sources : rules[s] <= 1

\* The profile of a source says Active exactly while one of its rows is,
\* through every interleaving of activate and mark_removed.
ProfileAgrees ==
    \A s \in Sources : profile[s] = "Active" <=> ActiveOf(s) # {}

\* firewall-init never gives the chain a second INPUT jump, even when it is
\* repeated after a cleanup or an initialisation that stopped half way.
OneJump == jump <= 1

\* A block is closed as Expired only at or after its expires_at, whatever
\* the age of the clock reading the worker works with.
NoEarlyExpiry ==
    [][\A b \in Blocks :
          status[b] = "Active" /\ status'[b] = "Expired" => expires[b] <= now]_vars

\* When the expiration worker, unblock or firewall-cleanup closes a row, the
\* source's rule is not in the chain: a closed row never leaves its rule
\* behind, whatever was inserted or deleted since the rule was looked at.
ClosedMeansLifted ==
    [][\A b \in Blocks :
          status[b] = "Active" /\ status'[b] # "Active"
             /\ method'[b] \in {"Automatic", "ManualCLI", "ExplicitCleanup"}
          => ~HasRule(owner[b])]_vars

Reconciled(s) == \E b \in Blocks : owner[b] = s /\ method[b] = "Reconciliation"

\* As long as nothing has failed and nobody has died, a rule belongs to an
\* Active row, to a detector that is about to insert the row, or to a source of
\* which a reconciliation closed a row (and may have been wrong:
\* InconsistentMeansNoRule).
RuleHasOwner ==
    \A s \in Sources : faults = 0 /\ deaths = 0 /\ HasRule(s) =>
        \/ ActiveOf(s) # {}
        \/ \E d \in Detectors : arg[d] = s /\ phase[d] \in {"inserting", "rollingBack"}
        \/ Reconciled(s)

\* An Active row that is due is closed, also when commands fail now and then
\* and when rows are read ExpireLimit at a time.
DueRowsAreClosed ==
    \A b \in Blocks :
        status[b] = "Active" /\ expires[b] <= now ~> status[b] # "Active"

\* A DROP rule does not outlive its block: unless something fails, or a
\* reconciliation gives the row up, the rule is deleted after Duration.
Outlasts(s) == HasRule(s) /\ now + Duration <= MaxTime
RulesAreLifted ==
    \A s \in Sources :
        Outlasts(s) ~> ~HasRule(s) \/ Reconciled(s) \/ faults > 0 \/ deaths > 0

\* "active database block has no matching project firewall rule", the reason
\* reconcile records when it closes a row as Inconsistent.
InconsistentMeansNoRule ==
    [][\A b \in Blocks :
          status[b] = "Active" /\ status'[b] = "Inconsistent" => ~HasRule(owner[b])]_vars

\* During a block its DROP rule is in the chain: every Active row that no
\* process is taking away has its rule.
ActiveHasRule ==
    \A b \in Blocks : status[b] = "Active" =>
        HasRule(owner[b]) \/ \E p \in Callers : row[p] = b

\* While a monitor runs alone and nothing has failed, ActiveHasRule does hold:
\* the rows a worker has listed stay Active until it closes them, so that no
\* newer block takes their place, and nobody else deletes a rule.
BlocksInForce == faults = 0 /\ deaths = 0 => ActiveHasRule

\* The promise of BlockLedger, which knows no processes, stale readings,
\* faults or deaths, is kept by every step of one detector with any number
\* of workers and operators and one administrator.
Dropped == {s \in Sources : HasRule(s)}
Ledger == INSTANCE BlockLedger WITH dropped <- Dropped
ImplementsLedger == Ledger!LedgerSpec

\* The detection sees no more of all this than BlockTable shows: a source that
\* is not blocked becomes blocked and is counted, or is blocked no longer.
RowsFor(s) == {b \in Blocks : status[b] # "none" /\ owner[b] = s}
Table == INSTANCE BlockTable WITH
    blocked <- {s \in Sources : ActiveOf(s) # {}},
    blockCount <- [s \in Sources |-> Cardinality(RowsFor(s))]
KeepsBlockTable == Table!Spec
=============================================================================
