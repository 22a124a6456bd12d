------------------------------- MODULE EventLog -------------------------------
(***************************************************************************)
(* What the evidence pipeline promises of the tables it writes, whichever  *)
(* processes write and whenever they die: an event enters the log once and *)
(* stays, it is counted in the profile of its address at most once and     *)
(* only after it is in the log, and a profile counts nothing else.         *)
(***************************************************************************)
EXTENDS Naturals

CONSTANTS
    Event,          \* what can be logged
    Addresses,
    AddressOf,      \* the address of an event
    FailedEvents,   \* the events that count as a failed login
    Accepted        \* those that count as a successful one

VARIABLES
    stored,         \* the log
    counted,        \* the events that the profiles include
    failures,       \* failed_count_total of each address
    successes       \* successful_count_total

vars == <<stored, counted, failures, successes>>

Init ==
    /\ stored = {} /\ counted = {}
    /\ failures = [a \in Addresses |-> 0]
    /\ successes = [a \in Addresses |-> 0]

Store(e) ==
    /\ e \notin stored
    /\ stored' = stored \cup {e}
    /\ UNCHANGED <<counted, failures, successes>>

Increase(count, e) == [count EXCEPT ![AddressOf[e]] = @ + 1]

Count(e) ==
    /\ e \in stored \ counted
    /\ counted' = counted \cup {e}
    /\ failures' = IF e \in FailedEvents THEN Increase(failures, e) ELSE failures
    /\ successes' = IF e \in Accepted THEN Increase(successes, e) ELSE successes
    /\ UNCHANGED stored

Next == \E e \in Event : Store(e) \/ Count(e)

Spec == Init /\ [][Next]_vars
=============================================================================
