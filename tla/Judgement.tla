------------------------------ MODULE Judgement ------------------------------
(***************************************************************************)
(* What the detection promises, without its engines: evidence arrives and  *)
(* is judged, and some of the verdicts are answered by a block.  Every     *)
(* action is atomic and nobody remembers anything, so an answer to a stale *)
(* reading, or a second one, cannot be expressed.                          *)
(*                                                                         *)
(* A body of evidence is what one source has done in one window, which may *)
(* have ended or be still to end.  It is judged once, as notable evidence; *)
(* the verdict stays; and it is answered at most once, if it is BLOCK,     *)
(* while the source is not blocked already, at a time at which nothing     *)
(* that was on the allowlist before, and still is, allows the source.      *)
(***************************************************************************)
EXTENDS Integers, Sequences

CONSTANTS
    Sources,
    Eligible,       \* sources that may be blocked
    Batches,        \* what arrives together
    SourceOf,       \* the source of a batch
    Notable,        \* the sets of batches worth a verdict
    Convicting,     \* the sets of batches that justify a block
    Decisions,
    Window,         \* the length of a window
    Never           \* no time

\* When a window may end.
Times == 0..(Never - 1)

VARIABLES
    now,
    at,             \* the time of each batch, Never while it has not arrived
    allowlist,
    verdicts,
    blocks,         \* the answers, in their order
    active          \* the sources that are blocked

vars == <<now, at, allowlist, verdicts, blocks, active>>

Init ==
    /\ now = 0
    /\ at = [b \in Batches |-> Never]
    /\ allowlist = {} /\ verdicts = {} /\ blocks = <<>> /\ active = {}

TimePasses ==
    /\ now' = now + 1
    /\ UNCHANGED <<at, allowlist, verdicts, blocks, active>>

Arrive(b, t) ==
    /\ at[b] = Never
    /\ at' = [at EXCEPT ![b] = t]
    /\ UNCHANGED <<now, allowlist, verdicts, blocks, active>>

Allow(s, until) ==
    /\ allowlist' = allowlist \cup {[source |-> s, created |-> now, expires |-> until]}
    /\ UNCHANGED <<now, at, verdicts, blocks, active>>

Withdraw(entry) ==
    /\ allowlist' = allowlist \ {entry}
    /\ UNCHANGED <<now, at, verdicts, blocks, active>>

Judged(s, B) == \E v \in verdicts : v.source = s /\ v.evidence = B

Judge(s, B, t) ==
    /\ ~Judged(s, B)
    /\ \A b \in B : SourceOf[b] = s /\ at[b] \in (t - Window)..t
    /\ \E d \in Decisions :
          /\ verdicts' = verdicts \cup {[source |-> s, evidence |-> B, end |-> t, decision |-> d]}
          /\ d = "BLOCK" => s \in Eligible /\ B \in Convicting
    /\ UNCHANGED <<now, at, allowlist, blocks, active>>

Answered(s, B) == \E i \in DOMAIN blocks : blocks[i].source = s /\ blocks[i].evidence = B

AllowedBefore(s, t) ==
    \E entry \in allowlist : entry.source = s /\ entry.created < t /\ t < entry.expires

Answer(v, t) ==
    /\ v.decision = "BLOCK" /\ ~Answered(v.source, v.evidence)
    /\ v.source \notin active /\ ~AllowedBefore(v.source, t)
    /\ blocks' = Append(blocks, [source |-> v.source, evidence |-> v.evidence, time |-> t])
    /\ active' = active \cup {v.source}
    /\ UNCHANGED <<now, at, allowlist, verdicts>>

Close(s) ==
    /\ s \in active
    /\ active' = active \ {s}
    /\ UNCHANGED <<now, at, allowlist, verdicts, blocks>>

Next ==
    \/ TimePasses
    \/ \E b \in Batches, t \in 0..now : Arrive(b, t)
    \/ \E s \in Sources, until \in (now + 1)..Never : Allow(s, until)
    \/ \E entry \in allowlist : Withdraw(entry)
    \/ \E s \in Sources, B \in Notable, t \in Times : Judge(s, B, t)
    \/ \E v \in verdicts, t \in 0..now : Answer(v, t)
    \/ \E s \in Sources : Close(s)

Spec == Init /\ [][Next]_vars
=============================================================================
