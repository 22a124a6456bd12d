--------------------------- MODULE DetectionEngine ---------------------------
(***************************************************************************)
(* DetectionEngine.run_all and run_for_source as the monitor and the       *)
(* "detect" commands run them, all at once, on one database to which the   *)
(* collectors keep adding: correlate, decide, store the detection, count   *)
(* it, and hand it to BlockManager.block_detection.                        *)
(*                                                                         *)
(* Events are stored in batches of one sensor, one source and one time,    *)
(* one after the other, each with an update of the source's profile in a   *)
(* second transaction: what a batch does to the profile is complete when   *)
(* its last event has been observed.                                       *)
(* An action is one query or transaction, or one reading of the clock.     *)
(***************************************************************************)
EXTENDS RiskDecision, FiniteSets, Sequences

CONSTANTS
    Engines,        \* processes with a DetectionEngine
    Monitors,       \* those that analyse again and again
    Responders,     \* those with a firewall and a block manager
    Sources,
    Eligible,       \* sources validate_ip_address allows to block
    AuthBatches,    \* batches of authentication events
    NetBatches,     \* batches of network events
    SourceOf,       \* the source of a batch
    Contents,       \* the events of a batch
    Window,         \* window_seconds, in units of the model's clock
    MaxTime,        \* bound: the clock
    MaxEntries,     \* bound: active allowlist entries
    MaxFaults,      \* bound: unhealthy sensors, unready firewalls, failed blocks
    MaxDeaths,      \* bound: passes that end by a crash or an exception
    NoSource

Batches == AuthBatches \cup NetBatches
Never == MaxTime + 1

FailedTypes == {"failed_password", "failed_password_invalid_user"}
InvalidTypes == {"invalid_user", "failed_password_invalid_user"}
EventTypes == FailedTypes \cup InvalidTypes \cup {"accepted", "packet"}

ASSUME EngineAssumption ==
    /\ IsFiniteSet(Engines)
    /\ Monitors \subseteq Engines /\ Responders \subseteq Engines
    /\ Eligible \subseteq Sources /\ NoSource \notin Sources
    /\ AuthBatches \cap NetBatches = {}
    /\ IsFiniteSet(Batches)
    /\ SourceOf \in [Batches -> Sources]
    /\ \A b \in Batches :
          IsFiniteSet(Contents[b]) /\ \A e \in Contents[b] : e.type \in EventTypes
    /\ Window \in Nat /\ MaxTime \in Nat /\ MaxEntries \in Nat
    /\ MaxFaults \in Nat /\ MaxDeaths \in Nat

VARIABLES
    now,            \* the clock
    at,             \* event time of each batch, Never while it is not stored
    observed,       \* the batches whose last event is in the profile, too
    allowlist,      \* active entries
    rows,           \* the detections table
    detectionCount, \* ip_profiles.detection_count
    uncounted,      \* history: the rows whose update found no profile
    blocks,         \* the blocks table
    active,         \* the sources with an Active block
    faults,
    deaths,
    phase,          \* what each engine does next
    end,            \* window_end of its pass
    todo,           \* the sources it has still to analyse
    source,         \* the one it analyses
    seen,           \* the batches it has read
    facts,          \* what else it has read of the source
    asked           \* the time block_detection has read

evidenceVars == <<now, at, observed, allowlist>>
countVars == <<detectionCount, uncounted>>
tableVars == <<rows, countVars, blocks, active>>
sourceVars == <<source, seen, facts, asked>>
passVars == <<end, todo>>
localVars == <<phase, passVars, sourceVars>>
vars == <<evidenceVars, tableVars, faults, deaths, localVars>>

Phases == {"idle", "list", "next", "network", "profile", "success", "allowlist",
           "active", "store", "count", "check", "open"}
Facts == [detections : Nat, blocks : Nat, success : BOOLEAN, allowlisted : BOOLEAN,
          blocked : BOOLEAN]
NoFacts == [detections |-> 0, blocks |-> 0, success |-> FALSE, allowlisted |-> FALSE,
            blocked |-> FALSE]

(***************************************************************************)
(* Correlation                                                             *)
(***************************************************************************)
Stored == {b \in Batches : at[b] # Never}

\* Mutant of InWindow: everything up to the end of the window.
InWindow_NoStart(b, t) == b \in Stored /\ at[b] <= t

InWindow(b, t) == b \in Stored /\ t - Window <= at[b] /\ at[b] <= t

\* The batches of B that a query for s and the window that ends at t returns.
Matching(B, s, t) == {b \in B : SourceOf[b] = s /\ InWindow(b, t)}

OfType(B, types) == {e \in UNION {Contents[b] : b \in B} : e.type \in types}
Failures(B) == Cardinality(OfType(B, FailedTypes))
Packets(B) == Cardinality(OfType(B, {"packet"}))

\* CorrelationResult of the batches B and the facts f.
Correlate(B, f) ==
    [failed      |-> Failures(B),
     invalid     |-> Cardinality(OfType(B, InvalidTypes)),
     usernames   |-> Cardinality({e.user : e \in OfType(B, FailedTypes \cup InvalidTypes)}),
     connections |-> Packets(B),
     detections  |-> f.detections,
     blocks      |-> f.blocks,
     success     |-> f.success,
     allowlisted |-> f.allowlisted,
     blocked     |-> f.blocked]

\* Mutant of Failing: only failures of existing users count.
Failing_KnownUsers(b) == OfType({b}, {"failed_password"}) # {}

Failing(b) == OfType({b}, FailedTypes) # {}

\* One event, or several of which the first is observed before the second is stored.
Lone(b) == Cardinality(Contents[b]) <= 1

\* A login is the last event of its batch.
Accepted(b) == OfType({b}, {"accepted"}) # {}

\* Mutant of Profiled: the profile is updated once, after the last event.
Profiled_Late(s) == \E b \in observed : SourceOf[b] = s

\* The profile of s exists; it remembers a login, for recent_success_days are longer
\* than the bound on the clock.
Profiled(s) == \E b \in Stored : SourceOf[b] = s /\ (Lone(b) => b \in observed)
Succeeded(s) == \E b \in observed \cap AuthBatches : SourceOf[b] = s /\ Accepted(b)

BlockCount(s) == Cardinality({i \in DOMAIN blocks : blocks[i].source = s})

Allowlisted(s, t) == \E entry \in allowlist : entry.source = s /\ entry.expires > t

Row == [source : Sources, evidence : SUBSET Batches, end : 0..MaxTime,
        correlation : Correlation, decision : Decisions]
Entry == [source : Sources, created : 0..MaxTime, expires : 0..Never]
Block == [source : Sources, evidence : SUBSET Batches, time : 0..MaxTime]

TypeOK ==
    /\ now \in 0..MaxTime
    /\ at \in [Batches -> 0..Never]
    /\ observed \subseteq Stored
    /\ allowlist \subseteq Entry
    /\ rows \subseteq Row
    /\ detectionCount \in [Sources -> Nat]
    /\ uncounted \subseteq rows
    /\ blocks \in Seq(Block)
    /\ active \subseteq Sources
    /\ faults \in 0..MaxFaults /\ deaths \in 0..MaxDeaths
    /\ phase \in [Engines -> Phases]
    /\ end \in [Engines -> 0..MaxTime]
    /\ todo \in [Engines -> SUBSET Sources]
    /\ source \in [Engines -> Sources \cup {NoSource}]
    /\ seen \in [Engines -> SUBSET Batches]
    /\ facts \in [Engines -> Facts]
    /\ asked \in [Engines -> 0..MaxTime]

Init ==
    /\ now = 0
    /\ at = [b \in Batches |-> Never]
    /\ observed = {}
    /\ allowlist = {}
    /\ rows = {}
    /\ detectionCount = [s \in Sources |-> 0]
    /\ uncounted = {}
    /\ blocks = <<>>
    /\ active = {}
    /\ faults = 0 /\ deaths = 0
    /\ phase = [p \in Engines |-> "idle"]
    /\ end = [p \in Engines |-> 0]
    /\ todo = [p \in Engines |-> {}]
    /\ source = [p \in Engines |-> NoSource]
    /\ seen = [p \in Engines |-> {}]
    /\ facts = [p \in Engines |-> NoFacts]
    /\ asked = [p \in Engines |-> 0]

(***************************************************************************)
(* The world around the engines                                            *)
(***************************************************************************)
Tick ==
    /\ now < MaxTime
    /\ now' = now + 1
    /\ UNCHANGED <<at, observed, allowlist, tableVars, faults, deaths, localVars>>

\* A collector stores the events of b; they may be older than others already stored.
StoreBatch(b) ==
    /\ at[b] = Never
    /\ \E t \in 0..now : at' = [at EXCEPT ![b] = t]
    /\ UNCHANGED <<now, observed, allowlist, tableVars, faults, deaths, localVars>>

\* It updates the profile with the last of them, if it lives to do so; only the first
\* event of a source and a success make a difference to what the engines read.
ObserveBatch(b) ==
    /\ b \in Stored \ observed
    /\ Lone(b) \/ Accepted(b)
    /\ observed' = observed \cup {b}
    /\ UNCHANGED <<now, at, allowlist, tableVars, faults, deaths, localVars>>

AddEntry(s) ==
    /\ Cardinality(allowlist) < MaxEntries
    /\ \E t \in (now + 1)..Never :
          allowlist' = allowlist \cup {[source |-> s, created |-> now, expires |-> t]}
    /\ UNCHANGED <<now, at, observed, tableVars, faults, deaths, localVars>>

DisableEntry(entry) ==
    /\ allowlist' = allowlist \ {entry}
    /\ UNCHANGED <<now, at, observed, tableVars, faults, deaths, localVars>>

\* The block of s expires or is lifted, see BlockResponse.
CloseBlock(s) ==
    /\ s \in active
    /\ active' = active \ {s}
    /\ UNCHANGED <<evidenceVars, rows, countVars, blocks, faults, deaths, localVars>>

Fault == faults < MaxFaults /\ faults' = faults + 1

(***************************************************************************)
(* One pass                                                                *)
(***************************************************************************)
At(p, here) == phase[p] = here
Goto(p, there) == phase' = [phase EXCEPT ![p] = there]

\* run_for_source returns.
Return(p) ==
    /\ Goto(p, "next")
    /\ source' = [source EXCEPT ![p] = NoSource]
    /\ seen' = [seen EXCEPT ![p] = {}]
    /\ facts' = [facts EXCEPT ![p] = NoFacts]
    /\ asked' = [asked EXCEPT ![p] = 0]
    /\ UNCHANGED passVars

\* run_all; a command may name any end of the window, one that is to come too.
Begin(p) ==
    /\ At(p, "idle")
    /\ \E t \in IF p \in Monitors THEN {now} ELSE 0..MaxTime : end' = [end EXCEPT ![p] = t]
    /\ Goto(p, "list")
    /\ UNCHANGED <<evidenceVars, tableVars, faults, deaths, todo, sourceVars>>

\* "detect" of one source.
BeginOne(p, s) ==
    /\ At(p, "idle") /\ p \notin Monitors
    /\ \E t \in 0..MaxTime : end' = [end EXCEPT ![p] = t]
    /\ todo' = [todo EXCEPT ![p] = {s}]
    /\ Goto(p, "next")
    /\ UNCHANGED <<evidenceVars, tableVars, faults, deaths, sourceVars>>

List(p) ==
    /\ At(p, "list")
    /\ todo' = [todo EXCEPT ![p] =
                   {s \in Sources : \E b \in Matching(AuthBatches, s, end[p]) : Failing(b)}]
    /\ Goto(p, "next")
    /\ UNCHANGED <<evidenceVars, tableVars, faults, deaths, end, sourceVars>>

Done(p) ==
    /\ At(p, "next") /\ todo[p] = {}
    /\ end' = [end EXCEPT ![p] = 0]
    /\ Goto(p, "idle")
    /\ UNCHANGED <<evidenceVars, tableVars, faults, deaths, todo, sourceVars>>

\* The sources come in the order of their addresses, which may be any.
ReadAuth(p) ==
    /\ At(p, "next")
    /\ \E s \in todo[p] :
          /\ todo' = [todo EXCEPT ![p] = @ \ {s}]
          /\ source' = [source EXCEPT ![p] = s]
          /\ seen' = [seen EXCEPT ![p] = Matching(AuthBatches, s, end[p])]
    /\ Goto(p, "network")
    /\ UNCHANGED <<evidenceVars, tableVars, faults, deaths, end, facts, asked>>

ReadNetwork(p) ==
    /\ At(p, "network")
    /\ seen' = [seen EXCEPT ![p] = @ \cup Matching(NetBatches, source[p], end[p])]
    /\ Goto(p, "profile")
    /\ UNCHANGED <<evidenceVars, tableVars, faults, deaths, passVars, source, facts, asked>>

ReadProfile(p) ==
    /\ At(p, "profile")
    /\ facts' = [facts EXCEPT ![p].detections = detectionCount[source[p]],
                              ![p].blocks = BlockCount(source[p])]
    /\ Goto(p, "success")
    /\ UNCHANGED <<evidenceVars, tableVars, faults, deaths, passVars, source, seen, asked>>

ReadSuccess(p) ==
    /\ At(p, "success")
    /\ facts' = [facts EXCEPT ![p].success = Succeeded(source[p])]
    /\ Goto(p, "allowlist")
    /\ UNCHANGED <<evidenceVars, tableVars, faults, deaths, passVars, source, seen, asked>>

ReadAllowlist(p) ==
    /\ At(p, "allowlist")
    /\ facts' = [facts EXCEPT ![p].allowlisted = Allowlisted(source[p], end[p])]
    /\ Goto(p, "active")
    /\ UNCHANGED <<evidenceVars, tableVars, faults, deaths, passVars, source, seen, asked>>

ReadActive(p) ==
    /\ At(p, "active")
    /\ IF Failures(seen[p]) < SuspiciousFailures
         THEN Return(p)
         ELSE /\ facts' = [facts EXCEPT ![p].blocked = source[p] \in active]
              /\ Goto(p, "store")
              /\ UNCHANGED <<passVars, source, seen, asked>>
    /\ UNCHANGED <<evidenceVars, tableVars, faults, deaths>>

\* What the health table and inspect_readiness tell p.
Healthy(p, x) == x.sensors /\ (p \in Responders => x.firewall)

\* The rows of the fingerprint of what p has read.
Matches(p) == {r \in rows : r.source = source[p] /\ r.evidence = seen[p]}
Known(p) == Matches(p) # {}

\* The row that p makes of what it has read.
NewRow(p, c, x) ==
    [source |-> source[p], evidence |-> seen[p], end |-> end[p], correlation |-> c,
     decision |-> Decide(c, x)]

\* Mutant of StoreDetection: the row is stored whatever rows there are.
StoreDetection_Again(p) ==
    /\ At(p, "store")
    /\ \E x \in Context, c \in {Correlate(seen[p], facts[p])} :
          /\ x.eligible = (source[p] \in Eligible /\ ~facts[p].allowlisted)
          /\ x.firewall => p \in Responders
          /\ IF Healthy(p, x) THEN UNCHANGED faults ELSE Fault
          /\ rows' = rows \cup {NewRow(p, c, x)}
          /\ Goto(p, "count")
    /\ UNCHANGED <<evidenceVars, countVars, blocks, active, deaths, passVars, sourceVars>>

\* Mutant of StoreDetection: a detection that was stored before is counted too.
StoreDetection_CountsKnown(p) ==
    /\ At(p, "store")
    /\ \E x \in Context, c \in {Correlate(seen[p], facts[p])} :
          /\ x.eligible = (source[p] \in Eligible /\ ~facts[p].allowlisted)
          /\ x.firewall => p \in Responders
          /\ IF Healthy(p, x) THEN UNCHANGED faults ELSE Fault
          /\ rows' = IF Known(p) THEN rows ELSE rows \cup {NewRow(p, c, x)}
          /\ Goto(p, "count")
    /\ UNCHANGED <<evidenceVars, countVars, blocks, active, deaths, passVars, sourceVars>>

StoreDetection(p) ==
    /\ At(p, "store")
    /\ \E x \in Context, c \in {Correlate(seen[p], facts[p])} :
          /\ x.eligible = (source[p] \in Eligible /\ ~facts[p].allowlisted)
          /\ x.firewall => p \in Responders
          /\ IF Healthy(p, x) THEN UNCHANGED faults ELSE Fault
          /\ IF Known(p)
               THEN Return(p) /\ UNCHANGED rows
               ELSE /\ rows' = rows \cup {NewRow(p, c, x)}
                    /\ Goto(p, "count")
                    /\ UNCHANGED <<passVars, sourceVars>>
    /\ UNCHANGED <<evidenceVars, countVars, blocks, active, deaths>>

\* Mutant of Authorized: any BLOCK row of the source will do.
Authorized_AnyRow(p) == \E r \in rows : r.source = source[p] /\ r.decision = "BLOCK"

\* The decision p has stored is BLOCK.
Authorized(p) == \E r \in Matches(p) : r.decision = "BLOCK"

\* Mutant of CountDetection: the count goes down.
CountDetection_Down(p) ==
    /\ At(p, "count")
    /\ detectionCount' = [detectionCount EXCEPT ![source[p]] = @ - 1]
    /\ Return(p)
    /\ UNCHANGED <<evidenceVars, rows, uncounted, blocks, active, faults, deaths>>

\* The update of a profile that does not exist changes nothing.
CountDetection(p) ==
    /\ At(p, "count")
    /\ IF Profiled(source[p])
         THEN /\ detectionCount' = [detectionCount EXCEPT ![source[p]] = @ + 1]
              /\ UNCHANGED uncounted
         ELSE /\ uncounted' = uncounted \cup Matches(p)
              /\ UNCHANGED detectionCount
    /\ IF Authorized(p) /\ p \in Responders
         THEN Goto(p, "check") /\ UNCHANGED <<passVars, sourceVars>>
         ELSE Return(p)
    /\ UNCHANGED <<evidenceVars, rows, blocks, active, faults, deaths>>

\* Mutant of Blockable: block_detection trusts what the detection says.
Blockable_Trusting(p) == source[p] \in Eligible /\ ~facts[p].allowlisted

\* The validation of block_detection.
Blockable(p) == source[p] \in Eligible /\ ~Allowlisted(source[p], now)

CheckSource(p) ==
    /\ At(p, "check")
    /\ IF Blockable(p)
         THEN /\ asked' = [asked EXCEPT ![p] = now]
              /\ Goto(p, "open")
              /\ UNCHANGED <<passVars, source, seen, facts>>
         ELSE Return(p)
    /\ UNCHANGED <<evidenceVars, tableVars, faults, deaths>>

\* The rest of block_detection in one step, see BlockResponse for its own.
OpenBlock(p) ==
    /\ At(p, "open")
    /\ \/ source[p] \in active /\ UNCHANGED <<blocks, active, faults>>
       \/ Fault /\ UNCHANGED <<blocks, active>>
       \/ /\ source[p] \notin active
          /\ blocks' = Append(blocks, [source |-> source[p], evidence |-> seen[p],
                                       time |-> asked[p]])
          /\ active' = active \cup {source[p]}
          /\ UNCHANGED faults
    /\ Return(p)
    /\ UNCHANGED <<evidenceVars, rows, countVars, deaths>>

\* A crash, or an exception that leaves run_all.
Die(p) ==
    /\ ~At(p, "idle") /\ deaths < MaxDeaths
    /\ deaths' = deaths + 1
    /\ Goto(p, "idle")
    /\ end' = [end EXCEPT ![p] = 0]
    /\ todo' = [todo EXCEPT ![p] = {}]
    /\ source' = [source EXCEPT ![p] = NoSource]
    /\ seen' = [seen EXCEPT ![p] = {}]
    /\ facts' = [facts EXCEPT ![p] = NoFacts]
    /\ asked' = [asked EXCEPT ![p] = 0]
    /\ UNCHANGED <<evidenceVars, tableVars, faults>>

Step(p) ==
    \/ Begin(p) \/ List(p) \/ Done(p)
    \/ ReadAuth(p) \/ ReadNetwork(p) \/ ReadProfile(p) \/ ReadSuccess(p)
    \/ ReadAllowlist(p) \/ ReadActive(p)
    \/ StoreDetection(p) \/ CountDetection(p) \/ CheckSource(p) \/ OpenBlock(p)

World ==
    \/ Tick
    \/ \E b \in Batches : StoreBatch(b) \/ ObserveBatch(b)
    \/ \E s \in Sources : AddEntry(s) \/ CloseBlock(s)
    \/ \E entry \in allowlist : DisableEntry(entry)

Next ==
    \/ World
    \/ \E p \in Engines : Step(p) \/ Die(p) \/ \E s \in Sources : BeginOne(p, s)

Spec == Init /\ [][Next]_vars

\* The detector thread of a monitor keeps running and starts pass after pass.
FairSpec == Spec /\ \A p \in Monitors : WF_vars(Step(p))

(***************************************************************************)
(* Safety                                                                  *)
(***************************************************************************)
RowsOf(s) == {r \in rows : r.source = s}
Counting(s) == {p \in Engines : At(p, "count") /\ source[p] = s}

\* The profile's detection_count, a second update after the insertion of the
\* row (detection.py:579-587), is the number of the source's detections, up to
\* the updates under way, those that crashes have lost and those that came
\* before the source's profile (auth.py:485-487).
CountsAgree ==
    \A s \in Sources :
       LET counted == detectionCount[s] + Cardinality(Counting(s))
           countable == Cardinality(RowsOf(s) \ uncounted)
       IN  counted <= countable /\ countable <= counted + deaths

\* Only a detection of lone events comes before the profile and is never counted:
\* once a collector has stored two events of a source in a row, the source has a
\* profile (auth.py:485-487, event by event, and detection.py:587).
UncountedAreLone == \A r \in uncounted : \A b \in r.evidence : Lone(b)

\* The fingerprint of the evidence keeps every engine from acting on it twice
\* (storage.py:597-656, detection.py:579-585): one block per body of evidence.
OneBlockPerEvidence ==
    \A i, j \in DOMAIN blocks :
       blocks[i].source = blocks[j].source /\ blocks[i].evidence = blocks[j].evidence => i = j

\* A block rests on a stored BLOCK decision whose evidence, read by several
\* queries, is of one source and one window and is enough (detection.py:436-485
\* and 161-235).
BlockIsEarned ==
    \A i \in DOMAIN blocks : \E r \in rows :
       /\ r.source = blocks[i].source /\ r.evidence = blocks[i].evidence
       /\ r.decision = "BLOCK" /\ r.source \in Eligible
       /\ \A b \in r.evidence : SourceOf[b] = r.source /\ at[b] \in (r.end - Window)..r.end
       /\ Failures(r.evidence) >= BlockingFailures /\ Packets(r.evidence) > 0

\* A source is not blocked at a time when an entry that was there before and is
\* still active allows it; block_detection asks again (firewall.py:610).
AllowlistHonoured ==
    \A i \in DOMAIN blocks, entry \in allowlist :
       ~(/\ entry.source = blocks[i].source
         /\ entry.created < blocks[i].time /\ blocks[i].time < entry.expires)

\* Of two detections of one source, the one with all the evidence and at least
\* the history of the other, and no success that the other has not seen, has at
\* least its score (detection.py:51-124).
MoreEvidenceScoresNoLess ==
    \A r, q \in rows :
       /\ r.source = q.source /\ r.evidence \subseteq q.evidence
       /\ r.correlation.detections <= q.correlation.detections
       /\ r.correlation.blocks <= q.correlation.blocks
       /\ q.correlation.success => r.correlation.success
       => Score(r.correlation) <= Score(q.correlation)

\* The promise of Judgement, which knows no engines, queries or crashes, is
\* kept by every step: the rows are its verdicts.
Verdicts ==
    {[source |-> r.source, evidence |-> r.evidence, end |-> r.end, decision |-> r.decision] :
        r \in rows}
NotableBodies == {B \in SUBSET Batches : Failures(B) >= SuspiciousFailures}
ConvictingBodies ==
    {B \in SUBSET Batches : Failures(B) >= BlockingFailures /\ Packets(B) > 0}
Promise == INSTANCE Judgement WITH
    verdicts <- Verdicts, Notable <- NotableBodies, Convicting <- ConvictingBodies
ImplementsJudgement == Promise!Spec

\* The blocks that OpenBlock and CloseBlock make in single steps are those of
\* BlockTable, to which the many steps of BlockResponse keep as well.
Table == INSTANCE BlockTable WITH
    blocked <- active, blockCount <- [s \in Sources |-> BlockCount(s)]
KeepsBlockTable == Table!Spec

(***************************************************************************)
(* Liveness                                                                *)
(***************************************************************************)
Current(s) == Matching(Batches, s, now)
Due(s) == Failures(Current(s)) >= SuspiciousFailures
Judged(s) == \E r \in rows : r.source = s /\ r.evidence = Current(s)

\* Evidence that reaches the threshold and stays in the window is judged as a
\* whole, as long as the monitor does not die (run_all, detection.py:630-637).
EvidenceIsJudged ==
    \A s \in Sources : Due(s) ~> (Judged(s) \/ ~Due(s) \/ deaths > 0)
=============================================================================
