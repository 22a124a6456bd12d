---------------------------- MODULE RiskDecision ----------------------------
(***************************************************************************)
(* What ssh_brute_force_detection/detection.py makes of the counts of one  *)
(* source in one window: the risk score, its classification and the        *)
(* decision.  Pure functions; DetectionEngine says where the counts come   *)
(* from.                                                                   *)
(***************************************************************************)
EXTENDS Integers

CONSTANTS
    WindowSeconds,          \* detection.window_seconds
    SuspiciousFailures,     \* detection.suspicious_failure_threshold
    BlockingFailures,       \* detection.blocking_failure_threshold
    HighRiskScore,          \* detection.high_risk_score_threshold
    Mode                    \* response.mode

Modes == {"simulation", "log_only", "automatic_response"}

\* What the configuration loader demands of the five settings.
ASSUME RiskAssumption ==
    /\ WindowSeconds \in Nat \ {0}
    /\ SuspiciousFailures \in Nat /\ BlockingFailures \in Nat
    /\ BlockingFailures >= SuspiciousFailures
    /\ HighRiskScore \in 0..100
    /\ Mode \in Modes

Decisions == {"STORE_ONLY", "DISPLAY", "LOG_DETECTION", "WOULD_BLOCK", "BLOCK",
              "SUPPRESS_ALLOWLIST", "SUPPRESS_NO_NETWORK_EVIDENCE",
              "SUPPRESS_ALREADY_BLOCKED", "SUPPRESS_SENSOR_FAILURE",
              "SUPPRESS_FIREWALL_UNAVAILABLE"}

\* The counts of a window and what is known of its source.
Correlation ==
    [failed : Nat, invalid : Nat, usernames : Nat, connections : Nat,
     detections : Nat, blocks : Nat, success : BOOLEAN,
     allowlisted : BOOLEAN, blocked : BOOLEAN]

\* The rest of a DecisionContext: is the address eligible, are both sensors and
\* the database healthy, are the firewall manager and its chain ready.
Context == [eligible : BOOLEAN, sensors : BOOLEAN, firewall : BOOLEAN]

(***************************************************************************)
(* The score                                                               *)
(***************************************************************************)
FailurePoints(n) ==
    IF n >= 10 THEN 40 ELSE IF n >= 8 THEN 30 ELSE IF n >= 5 THEN 20 ELSE IF n >= 3 THEN 10 ELSE 0

UsernamePoints(n) ==
    IF n >= 6 THEN 20 ELSE IF n >= 4 THEN 15 ELSE IF n = 3 THEN 10 ELSE IF n = 2 THEN 5 ELSE 0

NetworkPoints(n) == IF n >= 10 THEN 15 ELSE IF n >= 5 THEN 10 ELSE IF n >= 1 THEN 5 ELSE 0

\* n failures are k per minute or more, once the rate is rounded to three digits.
PerMinute(n, k) == 120000 * n + WindowSeconds >= 2000 * k * WindowSeconds
RatePoints(n) == IF PerMinute(n, 2) THEN 10 ELSE IF PerMinute(n, 1) THEN 5 ELSE 0

HistoryPoints(detections, blocks) == IF blocks > 0 THEN 10 ELSE IF detections > 0 THEN 5 ELSE 0
InvalidUserPoints(n) == IF n >= 3 THEN 5 ELSE IF n >= 1 THEN 2 ELSE 0
SuccessPoints(recent) == IF recent THEN -10 ELSE 0

Total(c) ==
    FailurePoints(c.failed) + UsernamePoints(c.usernames) + NetworkPoints(c.connections)
      + RatePoints(c.failed) + HistoryPoints(c.detections, c.blocks)
      + InvalidUserPoints(c.invalid) + SuccessPoints(c.success)

Score(c) == IF Total(c) < 0 THEN 0 ELSE IF Total(c) > 100 THEN 100 ELSE Total(c)

(***************************************************************************)
(* The decision                                                            *)
(***************************************************************************)
Classification(score) ==
    IF score >= 70 THEN "High Risk" ELSE IF score >= 50 THEN "Suspicious"
    ELSE IF score >= 30 THEN "Unusual" ELSE "Low Concern"

\* What is done about a source whose evidence is enough for a block.
Respond(c, x) ==
    IF c.allowlisted THEN "SUPPRESS_ALLOWLIST"
    ELSE IF ~x.eligible THEN "LOG_DETECTION"
    ELSE IF c.blocked THEN "SUPPRESS_ALREADY_BLOCKED"
    ELSE IF c.connections = 0 THEN "SUPPRESS_NO_NETWORK_EVIDENCE"
    ELSE IF ~x.sensors THEN "SUPPRESS_SENSOR_FAILURE"
    ELSE IF Mode = "simulation" THEN "WOULD_BLOCK"
    ELSE IF Mode = "log_only" THEN "LOG_DETECTION"
    ELSE IF ~x.firewall THEN "SUPPRESS_FIREWALL_UNAVAILABLE"
    ELSE "BLOCK"

\* The evidence is enough for a block.
HighRisk(c) ==
    /\ Classification(Score(c)) = "High Risk"
    /\ c.failed >= BlockingFailures
    /\ Score(c) >= HighRiskScore

Decide(c, x) ==
    IF c.failed < SuspiciousFailures \/ Classification(Score(c)) = "Low Concern" THEN "STORE_ONLY"
    ELSE IF Classification(Score(c)) = "Unusual" THEN "DISPLAY"
    ELSE IF ~HighRisk(c) THEN "LOG_DETECTION"
    ELSE Respond(c, x)
=============================================================================
