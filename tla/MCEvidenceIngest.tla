--------------------------- MODULE MCEvidenceIngest ---------------------------
(***************************************************************************)
(* One address that fails and succeeds to log in, and its packets; the     *)
(* monitor, a "collect-auth" beside it that can also read a file in which  *)
(* a line is repeated, and a "collect-network", which meets a line that the*)
(* parser rejects.  A tick is longer than the duplicate window.            *)
(***************************************************************************)
EXTENDS EvidenceIngest

CONSTANTS attacker, monitor, collectAuth, collectNetwork

MCAuthLines == {"failed", "accepted"}
MCNetLines == {"syn", "garbage"}
MCKindOf == [failed |-> "failed password", accepted |-> "accepted",
             syn |-> "packet", garbage |-> "malformed"]
MCAddressOf == [l \in Lines |-> attacker]
Recorded == [line |-> "failed", time |-> 0]
MCFixture == [c \in Collectors |->
    IF c = collectAuth THEN <<Recorded, Recorded>> ELSE <<>>]
=============================================================================
