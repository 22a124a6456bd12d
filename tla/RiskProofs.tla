------------------------------ MODULE RiskProofs ------------------------------
(***************************************************************************)
(* Theorems about RiskDecision, for every window, all thresholds and       *)
(* every mode.                                                             *)
(***************************************************************************)
EXTENDS RiskDecision, TLAPS

\* d holds at least the evidence of c, and no success that c has not seen.
AtLeast(d, c) ==
    /\ d.failed >= c.failed /\ d.invalid >= c.invalid /\ d.usernames >= c.usernames
    /\ d.connections >= c.connections /\ d.detections >= c.detections /\ d.blocks >= c.blocks
    /\ d.success => c.success

(* The points of a part are integers and grow with its count. *)
LEMMA RatePointsGrow ==
    ASSUME NEW m \in Nat, NEW n \in Nat, m <= n
    PROVE  /\ RatePoints(m) \in Int /\ RatePoints(n) \in Int
           /\ RatePoints(m) <= RatePoints(n)
<1>1. WindowSeconds \in Nat
  BY RiskAssumption
<1>2. PerMinute(m, 2) => PerMinute(n, 2)
  BY <1>1 DEF PerMinute
<1>3. PerMinute(m, 1) => PerMinute(n, 1)
  BY <1>1 DEF PerMinute
<1>4. CASE PerMinute(m, 2)
  BY <1>2, <1>4 DEF RatePoints
<1>5. CASE ~PerMinute(m, 2)
  BY <1>3, <1>5 DEF RatePoints
<1> QED BY <1>4, <1>5

LEMMA PointsGrow ==
    ASSUME NEW m \in Nat, NEW n \in Nat, m <= n
    PROVE  /\ FailurePoints(m) \in Int /\ FailurePoints(m) <= FailurePoints(n)
           /\ UsernamePoints(m) \in Int /\ UsernamePoints(m) <= UsernamePoints(n)
           /\ NetworkPoints(m) \in Int /\ NetworkPoints(m) <= NetworkPoints(n)
           /\ InvalidUserPoints(m) \in Int /\ InvalidUserPoints(m) <= InvalidUserPoints(n)
  BY DEF FailurePoints, UsernamePoints, NetworkPoints, InvalidUserPoints

LEMMA HistoryPointsGrow ==
    ASSUME NEW c \in Correlation, NEW d \in Correlation, AtLeast(d, c)
    PROVE  /\ HistoryPoints(c.detections, c.blocks) \in Int
           /\ HistoryPoints(c.detections, c.blocks) <= HistoryPoints(d.detections, d.blocks)
           /\ SuccessPoints(c.success) \in Int
           /\ SuccessPoints(c.success) <= SuccessPoints(d.success)
  BY DEF HistoryPoints, SuccessPoints, AtLeast, Correlation

LEMMA TotalType ==
    ASSUME NEW c \in Correlation
    PROVE  Total(c) \in Int
<1>1. AtLeast(c, c)
  BY DEF AtLeast, Correlation
<1>2. FailurePoints(c.failed) \in Int /\ UsernamePoints(c.usernames) \in Int
      /\ NetworkPoints(c.connections) \in Int /\ InvalidUserPoints(c.invalid) \in Int
      /\ RatePoints(c.failed) \in Int
  BY PointsGrow, RatePointsGrow DEF Correlation
<1> QED BY <1>1, <1>2, HistoryPointsGrow DEF Total

\* classify_score raises an error outside 0..100: the score of
\* calculate_risk_score (detection.py:51-66) never makes it do so.
THEOREM ScoreInRange ==
    ASSUME NEW c \in Correlation
    PROVE  Score(c) \in 0..100
  BY TotalType DEF Score

\* More failures, users, connections or history never lower the score
\* (detection.py:51-124).
THEOREM ScoreIsMonotone ==
    ASSUME NEW c \in Correlation, NEW d \in Correlation, AtLeast(d, c)
    PROVE  Score(c) <= Score(d)
<1>1. /\ FailurePoints(c.failed) \in Int /\ FailurePoints(c.failed) <= FailurePoints(d.failed)
      /\ UsernamePoints(c.usernames) \in Int
      /\ UsernamePoints(c.usernames) <= UsernamePoints(d.usernames)
      /\ NetworkPoints(c.connections) \in Int
      /\ NetworkPoints(c.connections) <= NetworkPoints(d.connections)
      /\ InvalidUserPoints(c.invalid) \in Int
      /\ InvalidUserPoints(c.invalid) <= InvalidUserPoints(d.invalid)
  BY PointsGrow DEF AtLeast, Correlation
<1>2. /\ FailurePoints(d.failed) \in Int /\ UsernamePoints(d.usernames) \in Int
      /\ NetworkPoints(d.connections) \in Int /\ InvalidUserPoints(d.invalid) \in Int
  BY PointsGrow DEF Correlation
<1>3. /\ RatePoints(c.failed) \in Int /\ RatePoints(d.failed) \in Int
      /\ RatePoints(c.failed) <= RatePoints(d.failed)
  BY RatePointsGrow DEF AtLeast, Correlation
<1>4. /\ HistoryPoints(c.detections, c.blocks) \in Int
      /\ HistoryPoints(c.detections, c.blocks) <= HistoryPoints(d.detections, d.blocks)
      /\ SuccessPoints(c.success) \in Int
      /\ SuccessPoints(c.success) <= SuccessPoints(d.success)
  BY HistoryPointsGrow
<1>5. AtLeast(d, d)
  BY DEF AtLeast, Correlation
<1>6. HistoryPoints(d.detections, d.blocks) \in Int /\ SuccessPoints(d.success) \in Int
  BY <1>5, HistoryPointsGrow
<1>7. Total(c) <= Total(d)
  BY <1>1, <1>2, <1>3, <1>4, <1>6 DEF Total
<1> QED BY <1>7, TotalType DEF Score

\* decide (detection.py:161-235) answers BLOCK only for a source that is not
\* allowlisted, not blocked and eligible, on enough failures and some
\* connection, with every sensor and the firewall ready, in automatic mode.
THEOREM BlockNeedsEverything ==
    ASSUME NEW c \in Correlation, NEW x \in Context, Decide(c, x) = "BLOCK"
    PROVE  /\ Mode = "automatic_response"
           /\ c.failed >= BlockingFailures /\ c.connections > 0
           /\ Score(c) >= 70 /\ Score(c) >= HighRiskScore
           /\ ~c.allowlisted /\ ~c.blocked
           /\ x.eligible /\ x.sensors /\ x.firewall
<1>1. HighRisk(c) /\ Respond(c, x) = "BLOCK"
  BY DEF Decide
<1>2. c.connections # 0 /\ ~c.allowlisted /\ ~c.blocked /\ x.eligible /\ x.sensors /\ x.firewall
  BY <1>1 DEF Respond
<1>3. Mode = "automatic_response"
  BY <1>1, RiskAssumption DEF Respond, Modes
<1>4. Score(c) >= 70
  <2>1. Score(c) \in Int
    BY ScoreInRange
  <2>2. ASSUME NEW n \in Int, Classification(n) = "High Risk" PROVE n >= 70
    BY <2>2 DEF Classification
  <2> QED BY <1>1, <2>1, <2>2 DEF HighRisk
<1>5. c.connections > 0
  BY <1>2 DEF Correlation
<1>6. c.failed >= BlockingFailures /\ Score(c) >= HighRiskScore
  BY <1>1 DEF HighRisk
<1> QED BY <1>2, <1>3, <1>4, <1>5, <1>6
=============================================================================
