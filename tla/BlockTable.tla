----------------------------- MODULE BlockTable -----------------------------
(***************************************************************************)
(* What the detection and the response know of each other: which sources   *)
(* are blocked, and how often each has been.  DetectionEngine opens and    *)
(* closes blocks in single steps, BlockResponse in many, of processes that *)
(* interleave; both keep to this table, so that what is shown of the one   *)
(* may be relied on by the other.                                          *)
(***************************************************************************)
EXTENDS Integers

CONSTANT Sources

VARIABLES
    blocked,        \* the sources with an Active block
    blockCount      \* ip_profiles.block_count: the blocks each has ever had

view == <<blocked, blockCount>>

Init == blocked = {} /\ blockCount = [s \in Sources |-> 0]

Activate(s) ==
    /\ s \notin blocked
    /\ blocked' = blocked \cup {s}
    /\ blockCount' = [blockCount EXCEPT ![s] = @ + 1]

Remove(s) ==
    /\ s \in blocked
    /\ blocked' = blocked \ {s}
    /\ UNCHANGED blockCount

Next == \E s \in Sources : Activate(s) \/ Remove(s)

Spec == Init /\ [][Next]_view
=============================================================================
