---------------------------- MODULE BlockLedger ----------------------------
(***************************************************************************)
(* What the response promises, without its processes: blocks that open and *)
(* close, and the DROP rule of each source.  Every action is atomic and no *)
(* process remembers anything, so a stale reading cannot be expressed.     *)
(*                                                                         *)
(* A rule appears only for a source without an Active block (the rule goes *)
(* in before the row); a block opens only for such a source; it closes as  *)
(* Expired only when it is due; and it closes only when the rule is gone,  *)
(* except by a reconciliation, which may close a block whose rule stays.   *)
(***************************************************************************)
EXTENDS Integers

CONSTANTS Sources, NoSource, Blocks, Duration

VARIABLES status, owner, expires, method, dropped, now

ledger == <<status, owner, expires, method, dropped, now>>

Open == {b \in Blocks : status[b] = "Active"}
Blocked(s) == \E b \in Open : owner[b] = s

LedgerInit ==
    /\ status = [b \in Blocks |-> "none"]
    /\ owner = [b \in Blocks |-> NoSource]
    /\ expires = [b \in Blocks |-> 0]
    /\ method = [b \in Blocks |-> "none"]
    /\ dropped = {}
    /\ now = 0

Drop(s) ==
    /\ s \notin dropped /\ ~Blocked(s)
    /\ dropped' = dropped \cup {s}
    /\ UNCHANGED <<status, owner, expires, method, now>>

Accept(s) ==
    /\ s \in dropped
    /\ dropped' = dropped \ {s}
    /\ UNCHANGED <<status, owner, expires, method, now>>

(* The block counts from a moment that may already be past. *)
OpenBlock(b, s, since) ==
    /\ status[b] = "none" /\ ~Blocked(s)
    /\ status' = [status EXCEPT ![b] = "Active"]
    /\ owner' = [owner EXCEPT ![b] = s]
    /\ expires' = [expires EXCEPT ![b] = since + Duration]
    /\ UNCHANGED <<method, dropped, now>>

CloseBlock(b, as, by) ==
    /\ status[b] = "Active"
    /\ by # "Reconciliation" => owner[b] \notin dropped
    /\ as = "Expired" => expires[b] <= now
    /\ status' = [status EXCEPT ![b] = as]
    /\ method' = [method EXCEPT ![b] = by]
    /\ UNCHANGED <<owner, expires, dropped, now>>

TimePasses ==
    /\ now' = now + 1
    /\ UNCHANGED <<status, owner, expires, method, dropped>>

Closings == {<<"Expired", "Automatic">>, <<"Expired", "Reconciliation">>,
             <<"Inconsistent", "Reconciliation">>,
             <<"Inconsistent", "ExplicitCleanup">>,
             <<"ManuallyRemoved", "ManualCLI">>}

LedgerNext ==
    \/ \E s \in Sources : Drop(s) \/ Accept(s)
    \/ \E b \in Blocks, s \in Sources, since \in 0..now : OpenBlock(b, s, since)
    \/ \E b \in Blocks, c \in Closings : CloseBlock(b, c[1], c[2])
    \/ TimePasses

LedgerSpec == LedgerInit /\ [][LedgerNext]_ledger
=============================================================================
