-------------------------- MODULE MCDetectionEngine --------------------------
(* Values for TLC: one source with small and large batches of failures and    *)
(* one of packets.                                                            *)
EXTENDS DetectionEngine

CONSTANTS a0, a1, a2, n1, s1, m, d

Auth(b, types, users) ==
    {[batch |-> b, id |-> i, type |-> types[i], user |-> users[i]] : i \in DOMAIN types}

\* One failure; ten of four unknown users; the same and a login.
OneFailure == Auth(a0, <<"failed_password">>, <<"root">>)
Guesses(b, more) ==
    Auth(b, [i \in 1..(10 + more) |-> IF i = 11 THEN "accepted" ELSE "failed_password_invalid_user"],
            [i \in 1..(10 + more) |-> <<"w", "x", "y", "z">>[1 + (i % 4)]])

MCSourceOf == [b \in Batches |-> s1]
MCContents ==
    [b \in Batches |->
       IF b = a0 THEN OneFailure
       ELSE IF b = a1 THEN Guesses(a1, 0)
       ELSE IF b = a2 THEN Guesses(a2, 1)
       ELSE {[batch |-> n1, id |-> i, type |-> "packet"] : i \in 1..2}]
=============================================================================
