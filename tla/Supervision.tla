---------------------------- MODULE Supervision -----------------------------
(***************************************************************************)
(* What the supervision of the monitor comes to, without the events, flags *)
(* and joins it is made of: components work until they end, the first end  *)
(* of one asks for the end of all, nobody works again, and the monitor     *)
(* says truly whether it has left anything behind.                         *)
(*                                                                         *)
(* A component cannot end while a child of its own still runs, so nobody   *)
(* needs to look for children at the end.                                  *)
(***************************************************************************)
EXTENDS Naturals

CONSTANTS
    Components,
    Collectors,     \* the components that read from a child process
    Budget          \* the children each collector may start

VARIABLES
    stage,          \* "new", "up", "stopping" or "over"
    told,           \* the end has been asked for
    working,        \* the components that have not ended
    reading,        \* the collectors whose child runs
    started,        \* the children each collector has started
    broken,         \* the components that owe an exception to the health record
    failed,         \* the components that have ended and are shown as failed
    verdict         \* what the monitor says of its end

crew == <<working, reading, started, broken, failed>>
vars == <<stage, told, crew, verdict>>

Init ==
    /\ stage = "new" /\ told = FALSE /\ verdict = "none"
    /\ working = {} /\ reading = {} /\ broken = {} /\ failed = {}
    /\ started = [c \in Collectors |-> 0]

Going == stage \in {"up", "stopping"}

Begin ==
    /\ stage = "new" /\ stage' = "up"
    /\ working' = Components
    /\ UNCHANGED <<told, reading, started, broken, failed, verdict>>

\* A signal, which may come before anything has begun.
Ask ==
    /\ stage # "over"
    /\ told' = TRUE
    /\ UNCHANGED <<stage, crew, verdict>>

StartChild(c) ==
    /\ Going /\ c \in working \ reading
    /\ started[c] < Budget[c]
    /\ reading' = reading \cup {c}
    /\ started' = [started EXCEPT ![c] = @ + 1]
    /\ UNCHANGED <<stage, told, working, broken, failed, verdict>>

\* A child ends, by itself or because it was told to, also when nobody is left.
LoseChild(c) ==
    /\ c \in reading
    /\ reading' = reading \ {c}
    /\ UNCHANGED <<stage, told, working, started, broken, failed, verdict>>

Break(t) ==
    /\ Going /\ t \in working
    /\ broken' = broken \cup {t}
    /\ UNCHANGED <<stage, told, working, reading, started, failed, verdict>>

\* The end of a component, however it comes about, asks for the end of all.  It
\* is shown as failed exactly when it is, unless the record cannot be written.
End(t) ==
    /\ Going /\ t \in working \ reading
    /\ working' = working \ {t}
    /\ told' = TRUE
    /\ \/ t \notin broken /\ UNCHANGED <<broken, failed>>
       \/ t \in broken /\ failed' = failed \cup {t} /\ UNCHANGED broken
       \/ t \in broken /\ failed' \in {failed, failed \cup {t}} /\ broken' = broken \ {t}
    /\ UNCHANGED <<stage, reading, started, verdict>>

StopAll ==
    /\ stage = "up" /\ told
    /\ stage' = "stopping"
    /\ UNCHANGED <<told, crew, verdict>>

Close ==
    /\ \/ stage = "stopping" /\ verdict' = IF working = {} THEN "stopped" ELSE "degraded"
       \/ stage \in {"new", "stopping"} /\ verdict' = "error"
    /\ stage' = "over"
    /\ UNCHANGED <<told, crew>>

\* The service manager loses its patience, and the children with the monitor.
Kill ==
    /\ stage = "stopping"
    /\ stage' = "over" /\ verdict' = "killed" /\ reading' = {}
    /\ UNCHANGED <<told, working, started, broken, failed>>

Next ==
    \/ Begin \/ Ask \/ StopAll \/ Close \/ Kill
    \/ \E c \in Collectors : StartChild(c) \/ LoseChild(c)
    \/ \E t \in Components : Break(t) \/ End(t)

Spec == Init /\ [][Next]_vars
=============================================================================
