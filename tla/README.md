# Verification of the SSH Security Application

TLA+ models, TLC runs and TLAPS proofs for the program under
`src/application_source_code/ssh_security_application`. The program watches the
SSH journal and the network, decides that a source is attacking, and in
automatic-response mode drops the source's packets with an iptables rule for a
limited time. Three things must be right: the *judgement*, made by several
engines of evidence that keeps arriving; the *response*, a rule in the kernel and
a row in SQLite that have to appear and disappear together without a common
transaction; and the *process*, threads and child processes that have to fail and
stop together. Under them lie the *evidence*, whose lines several processes bring
into one database, and around them the *installation*, which replaces a running
edition of the program on a live host. Each has its own specification.

## 1. The system

| Component | Code | State | Operations | Modelled in |
| --- | --- | --- | --- | --- |
| Detection engine | `ssh_brute_force_detection/detection.py` 359-637 | detections, fingerprints, detection counts | candidate_sources, correlate, run_for_source, run_all | `DetectionEngine` |
| Risk score and decision | `detection.py` 50-235 | none | calculate_risk_score, classify_score, decide | `RiskDecision` |
| Allowlist | `detection.py` 277-349, `storage.py` 734-830 | allowlist rows | add, disable, the lookups of detector and block manager | `DetectionEngine` |
| Firewall manager | `iptables_firewall_response/firewall.py` 123-575 | the project chain, its INPUT jump, one DROP rule per source | insert, delete, initialise, clean up, inspect | `FirewallManager` |
| Block manager | `firewall.py` 579-698 | none of its own; rows of `blocks`, profiles | `block_detection` | `DetectionEngine` (checks), `BlockResponse` (the rest) |
| Expiration worker | `firewall.py` 709-814 | rows it has listed | `process_once` | `BlockResponse` |
| Reconciler | `firewall.py` 827-983 | rules and rows it has listed | `reconcile` | `BlockResponse` |
| Response worker | `firewall.py` 987-1025 | where it is in its loop | reconcile once, then expire | `BlockResponse`, `MonitorLifecycle` |
| Block repository | `storage.py` 833-1040, `schema.sql` | `blocks`, `ip_profiles.current_block_status` | activate, mark_removed, list_*, get_active | `BlockResponse` |
| Commands | `main.py` 459-684, 868-897 | where they are | firewall-init, firewall-cleanup, unblock, response-reconcile; detect, allowlist (lines 685-711, a `response-worker`, have no entry in the parser) | `BlockResponse`; `DetectionEngine` |
| Application controller | `service.py`, `main.py` 714-853 | threads, stop event, exit status | run, stop | `MonitorLifecycle` |
| Journal and tcpdump collectors | `evidence_collection/` | child process, stop event, restart count | follow, collect_once, collect_fixture, stop | `MonitorLifecycle` (process), `EvidenceIngest` (lines) |
| Evidence ingestion | `evidence_collection/`, `ssh_brute_force_detection/normalization.py`, `deduplication.py`, `storage.py` | a duplicate cache per collector, event tables, profiles, parser errors | process_line, observe_authentication, observe_network | `EvidenceIngest`, `EventLog` |
| Live lab set-up | `live_lab_setup.py`, `lab.py`, `installation_and_service_setup/` | files, units and tables of the host | apply_plan, verify_installation | `LiveLabSetup` |
| Audit and health services | `audit.py`, `health.py` | log rows | record, update | in part: health of the threads (`MonitorLifecycle`), the audit of a rejected line (`EvidenceIngest`) |
| Configuration, address validation, terminal, local set-up | `config.py`, `modes.py`, `ip_validation.py`, `terminal.py`, `setup_environment.py` | none or a file | | no (section 8) |

How they interact. The collectors read lines from `journalctl` and `tcpdump` and
store events and profiles. The detector thread runs pass after pass over them:
each pass asks the database for sources with failures, correlates each source,
stores a detection and, when the decision is BLOCK, calls `block_detection`, which
asks the allowlist again, calls the firewall manager and then the block
repository. The response worker reads the repository and calls the manager and
the repository again. Commands are other processes that do the same. There is no
lock between any of them: each iptables command is atomic (`-w 5` takes the
xtables lock), each repository method is one SQLite transaction, and nothing spans
two of them. The threads of the monitor stop together: when one ends,
`_guard_component` sets the stop event and the main thread joins the others. A
`collect-auth` or `collect-network` command may read the same lines as the monitor;
their caches are their own, and only the unique fingerprint of an event stands
between them. The installer stops the monitor, replaces files and tables, and
starts it again, while systemd restarts and boots as it sees fit.

What is hard: interleavings of detectors, worker, reconciliation, operators and
arriving evidence; readings (evidence, rules listed, rows listed, the clock) used
after they went stale; commands that time out with or without effect; a process
that dies between the rule and the row, or between a detection and its block;
closing exactly the due rows, a limited number per cycle; a stop that reaches a
collector before it has published its child; a restart budget; evidence that
arrives while its first part is being judged; lines that two collectors read, or
one reads twice; an installation that is cut off anywhere and tried again.
`PROJECT.json` lists the hazards at their lines.

## 2. The modules

| Module | Contents |
| --- | --- |
| `RiskDecision` | score, classification and decision as pure functions |
| `DetectionEngine` | extends it with evidence, allowlist, detections, blocks and the engines; its properties |
| `Judgement` | abstract specification of the detection: evidence is judged once and answered at most once, atomically |
| `BlockTable` | abstract specification of what detection and response know of each other: who is blocked, and how often each has been |
| `RiskProofs`, `DetectionProofs` | the theorems about the two |
| `MCDetectionEngine` | constants for TLC |
| `FirewallManager` | the kernel's tables, one action per iptables command of every manager method, faults, call and return |
| `BlockResponse` | extends it with the rows, the profiles, the clock, the processes and their handlers; the properties |
| `BlockLedger` | abstract specification: blocks open and close, rules come and go, atomically |
| `BlockInvariants` | the inductive invariants, in named parts, layered by what they assume |
| `BlockResponseProofs` | types, and what holds whoever runs beside whom |
| `BlockSafetyProofs` | what holds with one detector, one administrator or a monitor alone; the refinements |
| `MCBlockResponse` | constants for TLC |
| `MonitorLifecycle` | the monitor process, its threads and their children; its properties and inductive invariant |
| `Supervision` | abstract specification of the monitor: components work until they end, the first end ends all, the last word is true |
| `MonitorLifecycleProofs` | the theorems about the two |
| `EvidenceIngest` | lines, collectors, their caches and the tables they write; its properties |
| `EventLog` | abstract specification of the tables: an event enters once and is counted at most once, afterwards |
| `EvidenceIngestProofs` | its invariants and the refinement |
| `EvidenceProfileProofs` | what the profiles say of the events |
| `MCEvidenceIngest` | constants for TLC |
| `LiveLabSetup` | the installer, command by command, the host, systemd and the monitor as a unit; its properties |
| `LiveLabSetupProofs` | its inductive invariant and the theorems |

### RiskDecision

`Correlation` is a `CorrelationResult` without identifiers and times, `Context`
the rest of a `DecisionContext`; `sensors` stands for both sensors and the
database, `firewall` for manager and chain, because `decide` treats them alike.
`Score` adds the seven parts and clamps. The attempt rate, rounded to three
digits and compared with 1 and 2, is the integer comparison `PerMinute`.
`RiskAssumption` is what the configuration loader enforces.

### DetectionEngine

Evidence comes in batches: events of one sensor and source with one event time
(`at`), which may lie in the past when the batch is stored (`StoreBatch`). The
collector observes an event in the source's profile after it has stored it
(auth.py:485, 487); `ObserveBatch` is the observation of the last event of a batch. An
engine is at `phase[p]` of a pass, one query, transaction or clock reading per
action, in the order of the code:

    idle -> list -> next -> network -> profile -> success -> allowlist -> active
         -> store -> count -> check -> open -> next

`Begin` reads the clock once for the pass; `List` is `candidate_sources`;
`ReadAuth` to `ReadActive` are the queries of `correlate` (the last one with the
early return for too few failures); `StoreDetection` reads the health of sensors
and firewall, decides, and inserts the row unless its fingerprint, the source and
the set `seen` of its evidence, is known; `CountDetection` is
`increment_detection_count`; `CheckSource` is the part of `block_detection` that
asks clock, allowlist and address; `OpenBlock` the rest of it. `BeginOne` is
`detect` of one source. The window of a monitor's pass ends at the clock's time, that
of a command at any time, past or future (`--window-end` has no bound, main.py:470,
914-919). `Responders` are the engines with a block manager: the
monitor in automatic response and `detect --apply-response`.

Abstractions: the steps inside `OpenBlock` and the closing of a block
(`CloseBlock`) are `BlockResponse`; of the observations of a batch the engines read
only two things, that the source has a profile and that it has logged in, so only
these are actions: the profile exists once one event has been observed, which for a
batch of several is before the last of them is stored (`Lone`, `Profiled`), and a
login is the last event of its batch (`Accepted`, `Succeeded`); an observation need
never come, for the collector may die before it; `recent_success_days` is longer
than the model's clock, so that `Succeeded` is any observed login (it has no upper
bound in the code either); the
address check is the constant set `Eligible`; sensors, firewall and blocks are
bad at most `MaxFaults` times. `uncounted` is history: the rows that
`CountDetection` could not count because there was no profile to update.

### Judgement

Evidence arrives, `Judge` gives a set of batches that one source has produced in
one window, past or to come, a verdict, once, and `Answer` blocks the source for it, once, while the
source is not blocked and was not allowed before. What makes evidence worth a
verdict (`Notable`) and worth a block (`Convicting`) are constants, to which
`DetectionEngine` gives its thresholds and the conditions of `decide`. There are
no engines, readings or crashes in it: an answer to a stale reading, a second
answer, or a verdict on evidence of two sources cannot be said.
`ImplementsJudgement` says that every step of the engines is one of its steps or
none.

### FirewallManager

`chain`, `jump`, `rules` and `foreign` are the kernel's state: does the chain
exist, how many jumps lead to it, how many copies of each source's exact rule it
holds, and whether it holds a rule `parse_project_rules` does not recognise. A
caller `p` is in method `op[p]`, about to run command `step[p]` for source
`arg[p]`; `listed[p]` are the sources a cleanup has still to delete. `Check` is
`_check` (yes, no, or `FirewallError`), `Change` is `_execute` of a changing
command: done, refused by the kernel, or failed, and a failed command (a
timeout) may have taken effect. Each fault consumes one of `MaxFaults`.
`_change_rule` is `FindChain`, `FindRule`, `ApplyChange`, `ConfirmChange`;
`cleanup_project_chain` and `initialize_chain` are sequences of the same kind.
A call ends at a step in `Results`, and the caller acts on it.

### BlockResponse

Rows are `status`, `owner` (source_ip), `expires` and `method`; `profile` is
`ip_profiles.current_block_status`. A process is at `phase[p]` of its handler,
with the row it holds, the clock it read, the rows it has still to handle
(`todo`) and, for a reconciliation, the rules it listed and has not yet matched
with a row (`snap`). One action is one transaction or query, one command, or one
reading of the clock:

- detector: `BeginBlock` (clock), `ReadActive`, `ProbeRule`, the insertion,
  `ActivateBlock` or `ActivateFails` with the rollback;
- worker: `BeginReconcile` ... `EndReconcile` once, then `BeginExpiry` (clock),
  `ListExpired`, and per row `ProbeExpired`, the deletion, `MarkExpired`;
- operator: `BeginUnblock` ... `MarkUnblocked`, or a reconciliation;
- administrator: `BeginMaintenance`, the manager call, and after a successful
  cleanup `ListCleaned` and `CloseRow` for each row.

`Die` ends a process between two steps and leaves rows and rules as they are;
`StopThread` is the stop event seen at the top of a loop; `Start` starts a
process again, if the chain is ready, as `_run_application_service` demands.
A detection that `block_detection` rejects before it touches anything (decision,
allowlist, address) is simply not begun.

Abstractions: an address is a model value; the readiness check made when the
detection was created is long past and so constrains nothing; the version check
and the policy lines of a listing have no effect of their own; the 10 000-row
limit of a reconciliation is not reached; messages, audit and health are left
out, except that their failure is a death.

### BlockLedger

Its six variables are the four row fields, the clock and the set of dropped sources. A
rule appears only for a source without an Active block, a block opens only for
such a source, closes as Expired only when due, and closes only when its rule is
gone, unless a reconciliation closes it. `BlockResponse` implements it with
`dropped` the sources that have a rule.

### BlockTable

The interface of the two halves. `DetectionEngine` treats `block_detection` and the
end of a block as single steps, `BlockResponse` as many steps of several
processes, and both define `KeepsBlockTable`: they open a block only for a source
without one and count it once, and close only what is open. In `BlockResponse`
the blocked sources are those with an Active row and the count is that of all rows
the source has had; in `DetectionEngine` they are `active` and the number of `blocks`.
Both are proved (section 6).

### MonitorLifecycle

`main` is where the main thread is (`StartThreads`, `EndWatch`, `Flag` and
`Terminate` for each collector's `stop`, `Join` with its timeout, then
`ReportShutdown`), `turn` the component it stops or joins. `thread[t]` is the
place of each component in its runner: a collector spawns a child, publishes it
in `_process`, reads lines, reaps it and judges how it ended; `slot` says that it
is published, `child` what `poll` would say. `health` is the component's record,
`outcome` whether its thread ends by an exception; `Finish` is the end of
`_guard_component`. `stopFlag` is a collector's own event, which `follow` clears
when it starts. `Signal`, `ManagerKill`, `ChildObeys` and `ChildDies` are the
world outside. An action is one access to an event, one call on a child or one
record; a record, a spawn, a line handler or a cycle may fail (`Fault`).
Late for a join of ten seconds can be (`Stuck`) a collector that waits for a line of a
running child, and a detector or worker in the middle of its work; that a line handler
waits for the database, or the `finally` of a collector for its child (auth.py:318-326),
for longer than that is left out.

### Supervision

Components begin together and end for good; a collector starts a child only while
it works and within its budget, and cannot end before the child; the end of a
component asks for the end of all; who has failed is shown as failed, and nobody
else; the verdict is "stopped" only when no component is at work. The events, the
flags, the published child and the joins, by which the code brings this about,
are not in it. `ImplementsSupervision` maps `stopEvent` to `told`, the threads
that are alive to `working` and the running children to `reading`.

### EvidenceIngest

An event is a line and the time at which it was written; its fingerprint is made
of these. A collector `c` is `off`, or at `pc[c]`, which is where it is in
`process_line`:

    read -> insert -> observe -> read        an accepted line
         -> record -> audit -> read          a rejected one

`Read` takes the next line of `queue[c]`, parses it (`KindOf` stands for the
parser and the address check: rejected, or an event of some type) and asks the
duplicate cache, which drops what is older than `Window` and marks the line as
seen, even when it was seen before; a duplicate is passed over. `Insert` is
`INSERT ... ON CONFLICT DO NOTHING`; on a conflict `process_line` returns.
`Observe` is the upsert of the profile, `Record` and `Audit` are
`_record_parser_error`. `Log` and `Packet` are the world: every journalctl that
follows prints a line, a tcpdump may miss a packet. `Follow`, `FollowSince`,
`CollectOnce` and `CollectFixture` are the modes in which a collector starts; a
monitor uses only the first. `Stop` ends one between two lines, `Die` anywhere: a
kill, or a failed transaction, whose exception nothing on the way up handles. The
next start has an empty cache.

`countedBy` and `given` are history: which events each collector has counted,
and which lines it has been given since it started. Parser errors and audit
records are sets of lines, so that recording one twice, which the code does, is
not visible. `DetectionEngine!StoreBatch` and `ObserveBatch` are a run of `Insert` and
`Observe`.

### LiveLabSetup

`stage` is the command that `apply_plan` or `verify_installation` is about to run;
commands in a row that leave no trace in the model but can fail are one stage
(`Prepare`, `InstallDirectories`). Files are known by their edition: that of the
repository when they were copied, `Broken` when the copy was cut off, `None` when
absent. `chain`, `rule` and `row` are the project chain, a rule and an Active
block of the lab client; `policy` and `opening` whether the host accepts SSH by
default or by a rule; `owner` who owns the files in the data and log directories, which
matters because commands run by root write the same rotating log. `odd` says that the
chain has a rule the application does not know, or one twice (`Disturb`): then
`CleanupChain`, `cleanup_project_chain`, refuses it, which ends a call that has not
reset the tables before, while the `ExecStop` of the firewall unit may fail
unnoticed (`StopFirewall`). `BackUpConfiguration` copies the configuration, if
there is one; a `sudo test -f` that fails itself counts as the answer that there is
none (`Overlook`), and `overlooked` keeps what was lost that way. `Fail` ends the
installer at any stage and may leave behind what `CutOff` says; `Boot` does the same
to the host, empties the tables and starts the enabled units with whatever files
there are.

The monitor under `Restart=on-failure`: `Refuse` is a start without files or chain,
`Stop` a crash (which systemd restarts) or the end of a component (after which the
process returns 0 and stays down), `Settle` the start-up reconciliation. It
then blocks the lab client in two steps, `InsertRule` and `ActivateBlock`, and ends a
block in two, `DeleteRule` and `CloseBlock`; `blocking` says that it is between the
first two, where a death leaves a rule without a row.

## 3. Properties

Of the judgement (`DetectionEngine`):

| Property | Why it could be wrong |
| --- | --- |
| `OneBlockPerEvidence` | engines judge the same evidence at once, and again after a crash; only the fingerprint of the row keeps them from responding twice |
| `BlockIsEarned` | the evidence is read by several queries while more arrives, and the block is made some steps after the decision |
| `CountsAgree` | the row and the count are two transactions, and so are the event and the profile that the count is in |
| `UncountedAreLone` | the update of a profile that does not exist yet is lost without an error; it must not happen to a source that goes on |
| `AllowlistHonoured` | the detection and the block ask the allowlist at different times, about different times |
| `ImplementsJudgement` | all of the above, as one statement about every step: a verdict is about one source, one window and one body of evidence, and is answered once |
| `EvidenceIsJudged` | a pass may see half of the evidence and store that; the whole has a fingerprint of its own |

No run checks `MoreEvidenceScoresNoLess`, that more evidence never lowers a score: it
is a statement about a pure function of the rows, and proved (section 6).

Of the response (`BlockResponse`):

| Property | Why it could be wrong |
| --- | --- |
| `SingleActive` | get_active and activate are two transactions and the schema has no unique index |
| `NoDuplicateRule` | iptables accepts a second copy; one deletion would then not lift the block |
| `ProfileAgrees` | activate and mark_removed of different rows write the same profile |
| `OneJump` | an interrupted cleanup or initialisation is repeated |
| `NoEarlyExpiry` | the clock reading and the list of due rows are stale when used |
| `ClosedMeansLifted` | the rule was looked at, or deleted, some steps before the row is closed |
| `RuleHasOwner` | a rule without a row is never deleted |
| `BlocksInForce` | a block without its rule blocks nobody and nothing notices; the worker deletes rules of rows it listed some steps before |
| `DueRowsAreClosed`, `RulesAreLifted` | the worker handles a few rows per cycle, commands fail, rows change under it |
| `ImplementsLedger` | all of the above, as one statement about every step |

Of the process (`MonitorLifecycle`):

| Property | Why it could be wrong |
| --- | --- |
| `StoppedMeansClean` | joins time out, and a child may survive the thread that reads it; only then is the shutdown degraded |
| `ImplementsSupervision` | who starts children when, how often (failed spawns, children that end by themselves and stops count differently), who ends in which order, who is shown as failed and what is recorded last, as one statement about every step |
| `FailureShown` | runner, guard and collector all write the health record of one component |
| `StopIsHeard` | a collector blocked on a line hears a stop only when its child is terminated |
| `EndsTogether` | a component that ends must set the event that the main thread waits for |

Of the evidence (`EvidenceIngest`):

| Property | Why it could be wrong |
| --- | --- |
| `ProfileFromEvents` | several collectors meet the same line, one after a restart that emptied its cache; an event counted twice would stay counted |
| `OnlyDeathsLoseRecords` | the event and its profile, the parser error and its audit, are two transactions; a second reading does not repair the first |
| `NothingSkipped` | the cache marks an event before it is stored |
| `MonitorKeepsNewestSuccess` | each accepted login overwrites `last_success_at`, whatever its time |
| `TablesSpec` | the tables implement `EventLog`: all of the above as one statement about every step |
| `InputHandled` | every line read is finished while more keep coming |

Of the installation (`LiveLabSetup`):

| Property | Why it could be wrong |
| --- | --- |
| `NoServiceDuringReplacement` | systemd restarts what fails and boots what is enabled, also between two commands |
| `NeverLockedOut` | a reset flushes the rules that let SSH in |
| `ConfigurationKept` | a second try backs up what the first, cut off, left behind; only a failed `test -f` loses one |
| `CleanStart` | chain, rule and row are removed by several commands, each of which may have failed before, and a monitor may have died between the rule and its row |
| `ReadyIsNewest` | the checks look at services and chain, not at editions |
| `RerunSucceeds` | the state that failures leave must never be one that the installer refuses; the three that it does refuse, or takes for a failed check, are its premise |

## 4. Runs

The block runs have two rows, `Duration` 1 and `ExpireLimit` 1; the bounds are
failing commands, deaths and the last value of the clock. The lifecycle runs give
the mode, the restarts of tcpdump and the faults; the detection runs the faults,
the deaths and the last value of the clock.

| Run | Instance | Bounds | Shows |
| --- | --- | --- | --- |
| `block_safety` | 1 source; detector, worker, operator | 1, 0, 2 | `TypeOK`, `SingleActive`, `NoDuplicateRule`, `ProfileAgrees`, `RuleHasOwner`, `NoEarlyExpiry`, `ImplementsLedger` |
| `block_maintenance` | 1 source; detector, worker, administrator | 1, 1, 1 | `OneJump`, `ClosedMeansLifted`, with and without an administrator's own rule in the chain |
| `block_liveness` | 2 sources; detector, worker | 1, 0, 2 | `DueRowsAreClosed` with more due rows than a cycle reads, `RulesAreLifted`, `BlocksInForce` |
| `lifecycle_safety` | automatic response, 4 threads | 1 restart, 1 fault | `TypeOK`, `StoppedMeansClean`, `FailureShown`, `ImplementsSupervision` |
| `lifecycle_liveness` | 3 threads | 0 restarts, 1 fault | `StopIsHeard`, `EndsTogether` |
| `detection_races` | monitor and `detect --apply-response`; a batch of ten failures and one of packets | 1, 1, 1 | `TypeOK`, `CountsAgree`, `OneBlockPerEvidence`, `BlockIsEarned`, `ImplementsJudgement` |
| `detection_passes` | monitor with a `suspicious_failure_threshold` of 1; a lone failure, ten failures and a login, packets, one allowlist entry | 0, 0, 1 | `UncountedAreLone`, `AllowlistHonoured`, `EvidenceIsJudged` |
| `ingest` | the monitor's journal collector, a `collect-auth` and a `collect-network`; one address | 2 lines, clock 1, 1 death | `TypeOK`, `ProfileFromEvents`, `OnlyDeathsLoseRecords`, `NothingSkipped`, `MonitorKeepsNewestSuccess`, `TablesSpec`, `InputHandled` |
| `install` | a host without the program, or with its first edition | 2 editions, 3 faults | `TypeOK`, `NoServiceDuringReplacement`, `NeverLockedOut`, `ConfigurationKept`, `CleanStart`, `ReadyIsNewest`, `RerunSucceeds` |

Why the bounds are enough. In the block runs the conflicts are about one source,
between a row and the next row of the same source, so two rows and one source let
every pair of handlers meet, and a clock of 2 lets a row become due, be closed and
a second one be opened and become due. One fault is enough to reach every error
path once; two faults only combine error paths whose effect, a call that failed
with or without effect, is the same. `Blocks` is a symmetry set in the safety
runs; there is none in the liveness runs. In the detection runs the window is one
unit long (`Window` 0) and the clock has two values: a batch is inside or outside
the window of a pass, in time or late. Windows that overlap are left to the
proofs, which hold for every `Window` and `MaxTime`. The thresholds are those of
`default_config.json`, but for the suspicious one of `detection_passes`: with 1 a
single failure is judged, and its detection can be stored before its profile. In
`detection_races` the command names either value of the clock for the end of its
window, so at time 0 also a future one. One failing or dying engine beside a healthy one is the
smallest case of a lost update or an evidence handled twice. In the ingest run two
lines, one of which a file repeats, and two collectors of the same journal are the
smallest case of every meeting: at one collector inside and outside the window,
at two, and after a restart. In the install run a fault can cut off a first
installation, another one its repetition, and a third be a boot between two
commands of either; or a monitor can die between a rule and its row, the chain get an
odd rule and a `test -f` fail. The lifecycle runs
stop when the process has ended (`CHECK_DEADLOCK FALSE`); in the others somebody
can always act.

Three runs end in a violation, each of one statement the documentation or the
code makes:

| Run | Statement | What happens |
| --- | --- | --- |
| `find_reconcile_race` | `InconsistentMeansNoRule` (firewall.py:911) | a block made between the listing of the rules and of the rows is closed as Inconsistent while its rule is in the chain |
| `find_stale_deletion` | `ActiveHasRule` (Project Context Information.md:513) | `unblock` has found the Active row of a source (main.py:609) and its rule; the start-up reconciliation of a monitor deletes the rule and closes the row as due (firewall.py:874, 887); the source is blocked again; `unblock` deletes the rule of the new block (main.py:627), whose row stays Active |
| `find_lost_stop` | `NoChildLeft` (auth.py:352) | a stop that reaches a collector before it has published its child terminates nothing, and the process ends without it |

What else the models show of the code and no run states as a violation:

- an insertion that has effect but is reported as failed (the confirming look
  fails) is not rolled back (firewall.py:633), and nothing ever deletes the rule,
  although blocks are to be removed automatically (README.md:233);
- when a component fails the monitor stops and returns 0 (main.py:853), which
  `Restart=on-failure` of its unit does not take for a failure;
- a death between the insertion of the rule and of its row leaves a rule that the
  restarted monitor reports and does not remove; only `firewall-cleanup` or an
  installation does (`CleanStart`);
- two detectors (the monitor and `detect --apply-response`) can insert the same
  rule twice: `get_active`, `rule_exists` and `-I` are three steps. There are never
  more copies, or Active rows, than there are detectors (`RulesAreBounded`,
  `RowsAreBounded`); that there is one of each needs `OneDetector`;
- `firewall-init` beside `firewall-cleanup`: the cleanup has removed the chain, the
  initialisation makes it again, the monitor blocks a source, and the cleanup then
  closes the new row, whose rule is in the chain. This is why `ClosingIsLifted`
  assumes `OneAdmin`;
- evidence is consumed when its row is stored. If the engine dies before the
  block, the block fails, or the row was stored by `detect` without
  `--apply-response`, that body of evidence is never blocked; one more event makes
  a new body;
- a block shorter than the window can be followed by another that rests on part
  of the same events, as soon as one more arrives;
- with a `suspicious_failure_threshold` of 1 (or 0, for a source named to `detect`) a
  detection may be stored before the source has a profile; the update at
  detection.py:587 then changes nothing, and the detection is never counted though
  nothing failed (`uncounted`, `UncountedAreLone`);
- a `collect-auth --since` beside the monitor can set `last_success_at` back: the
  monitor has counted a newer login, the command then stores an older one;
- a death between the insertion of an event and the update of its profile is
  never repaired, because the second reading finds the event and returns;
- the installer takes any failure of `sudo test -f` on the configuration for its
  absence (live_lab_setup.py:773) and then makes no backup: what is lost that way is
  `overlooked`, the exception of `ConfigurationKept`;
- `firewall-cleanup` refuses a chain with an unknown or doubled rule
  (firewall.py:402-409), and two detectors can double one: without
  `--reset-host-iptables` every repeated call of the installer then fails
  (live_lab_setup.py:900). With it the rules are gone before, and the call succeeds:
  the premise `odd => resetting` of `RerunSucceeds`;
- the verification takes a DROP rule of the lab client for a failure, so that a call
  does not end in success while the monitor goes on blocking the client: the
  premise `~rule`;
- `unblock` is not the only one that deletes the rule of a block newer than the row
  it has read: a worker's cycle (firewall.py:744) and a reconciliation look at their
  rows and delete in the same way, several steps apart;
- a command that root runs may rotate the log and leave a file of root's; if the
  installer fails before it restores the owner, it cannot get past `init-db` the
  next time. This is the premise of `RerunSucceeds`;
- with `--reset-host-iptables` the chain is already gone when `firewall-cleanup`
  runs, which therefore closes no row (main.py:575); the start-up reconciliation
  does, as Inconsistent;
- rules given to firewalld or ufw for an earlier lab client are never removed;
- a failed installation leaves the monitor stopped but enabled, and the next boot
  starts it with whatever mixture of editions there is.

## 5. Fairness

`BlockResponse!FairSpec` assumes that time passes, that a thread or command which
has a next step takes it (`WF` of `Advance`: every wait of the code has a timeout,
every command is bounded by `command_timeout_seconds`), and that a stopping thread
notices (`SF` of `StopThread`: it looks at the event each time round, but a
detector may be busy in between). No request is fair: nobody need ever detect,
unblock or maintain. `Start` is not fair, because nothing restarts a monitor that
returned 0.

`MonitorLifecycle!FairSpec` assumes that the main thread and every component take
their next step and that a child which has been told to terminate ends. It does
not assume that a line arrives, that a child ends by itself, that a signal comes
or that anything fails or does not fail: a collector waits for a line as long as
it likes. `DetectionEngine!FairSpec` assumes that the detector thread of a monitor
takes its next step, as the loop of `_run_detector` does; neither commands nor
evidence nor time are fair, and a monitor that dies ends the obligation.

`EvidenceIngest!FairSpec` assumes that a collector finishes the line it has and
takes the next one; nobody need start, stop or kill one, and neither lines nor
time are fair. `LiveLabSetup!FairSpec` assumes that the installer goes on (each
command has a timeout or ends), that systemd starts a waiting monitor, and that one
which has been started either settles or refuses, whichever applies. Nothing forces
a crash, another fault, a block or its end. `SF` of `Apply` is the operator who does not
give up; it is an assumption about a person, and only `RerunSucceeds`, which is
about what happens when he calls again, needs it.

## 6. Proofs

For every value of the constants that satisfies the named assumptions.

**Score and decision** (`RiskProofs`). `ScoreInRange` (so that `classify_score`
never raises), `ScoreIsMonotone` by the monotonicity of each part, and
`BlockNeedsEverything`: what a BLOCK decision implies.

**Detection** (`DetectionProofs`), for any number of engines, sources and batches,
any window, clock, faults and deaths. `EngineInv` is the conjunction of

- `TypeInv`: types, and a source for every engine that is analysing one;
- `EvidenceInv`: what an engine has read is of its source and in its window;
  nothing stored is ever changed, so this stays true while evidence arrives;
- `RowsInv`: the evidence of a row is of its source and in its window, its counts
  are those of the evidence, and a BLOCK row satisfies both thresholds (by
  `BlockNeedsEverything`);
- `HandledInv`: an engine between `store` and its return finds its row in the
  table, with the decision it acts on, and no two such engines have the same
  evidence: the insertion let only one of them through;
- `BlocksInv`: a block rests on a BLOCK row that no engine will act on any more;
  with `HandledInv` this is what makes `OneBlockPerEvidence` inductive;
- `ListInv`: no entry that is older than the time block_detection has read, or
  than a block, allows its source at that time; an entry added later is not older.

`OneBlock`, `BlocksAreEarned`, `AllowlistIsHonoured` and `ScoresGrowWithEvidence`
(the statement `MoreEvidenceScoresNoLess`, which no run checks) follow, and
so does the refinement `EngineKeepsJudgement`: a new row is a `Judge`
(`NewRowIsJudgement`: by `EvidenceInv` its evidence is of one source and window, and
by the unique fingerprint it is new), a new block is an `Answer`
(`NewBlockIsAnswer`: by `HandledInv` and `BlocksInv` to a BLOCK row that has none,
by `ListInv` at a time when nothing older allows the source). It holds for windows
that end at any time. `CountsAreKept` and `LoneEventsGoUncounted` have an invariant of their
own, `CountsInv`, and a lemma `EngineBalance` for the sum of counted, counting, lost and
uncounted detections. `CountsInv` says besides that a row is told by its source and
evidence (`OneRowPerEvidence`) and that one being counted has not been given up
(`CountingIsNew`); what an engine has read of a source without a profile is of lone
events (`UnprofiledIsLone`). They hold for every threshold, 0 and 1 included.

**Monitor** (`MonitorLifecycleProofs`), for any restart budget, any number of
faults and both modes. `LifecycleInv` says which threads own a running child,
how many children were started for how many failures, that a clean shutdown is
recorded only after every join, and what an unstarted component has not done.
`StoppedIsClean`, `BudgetIsKept` and `FailureIsShown` follow.
`SupervisionInv` adds what the refinement `MonitorIsSupervised` needs besides: an
ended component has set the event (so that the polling of the threads in `EndWatch`
finds nothing the event has not said), all threads are launched when the watch
begins, and what is shown as failed has failed. Most steps of a component do not
show (`QuietStep`); `Spawn` is a `StartChild` because a collector that spawns has no
running child and, by the counts of `LifecycleInv`, a start left, and `Finish` is an
`End` because by `OwnedChild` its child is gone.

**Response**. The processes are arbitrarily many unless a theorem says otherwise,
and so are sources, rows, faults and deaths. `BlockInvariants` has three layers.

*Whoever runs beside whom* (`BlockResponseProofs`). `CoreInv` is inductive without
an assumption on the processes:

- `ControlOf`: which manager call belongs to which phase, so that only a
  detector inserts and only an administrator makes or drops the chain;
- `RowsOf`, `Owners`: a row that a process holds has been inserted, and the source
  being lifted is its owner;
- `DueOf`: clock readings are in the past and rows read as due are due;
- `RulesInChain`, and `ProfileHasRow`: a profile that says Active has such a row.

`ExpiryIsDue` follows. The bounds are an argument of shares: a detector that has
seen no rule and is about to run `-I` (`Applying`) holds a share in the rules of its
source, one past `get_active` (`Opening`) in its Active rows, an administrator about
to add the jump (`Jumping`) in the jumps. Rules plus shares (`RuleShares`) never
exceed the number of detectors: to get a share one must have seen none, so that at
that moment all the rest are shares of other detectors; `-I` turns a share into a
rule. `RulesAreBounded`, `RowsAreBounded` and `JumpsAreBounded` say what this comes
to. A step of `p` touches the locals of `p` only (`Alone`) and changes the stores in
few ways (`Moves`); `StepCore` is what it leaves `p` with, `OthersCore` what it
leaves the others with, `StoresCore` is about the stores.

*One detector* (`OneDetector`; `BlockSafetyProofs`). The shares then say that what
a detector has not seen is not there: `FreshOf` (its source has no Active row) and
`InsertOf` (no rule), and give `AtMostOneRule` and `AtMostOneActive` at once.
`LiftedOf` is about closing: a process about to close its row knows the rule is
gone *as long as the row is still Active*, because a new rule for the source needs
a detector that saw no Active row. With `ProfilesAgree` these are `BlockInv`.

*One administrator* (`OneAdmin`). `RemovedOf`: an administrator that closes rows has
removed the chain, and `RulesInChain` says there are no rules without it. With it,
`ClosingIsLifted` and `Refinement`, the theorem that every step maps to a step
of `BlockLedger` or a stutter. `AtMostOneJump` needs `OneAdmin` only, and so does
`RulesHaveOwners`, with any number of detectors: while nothing has failed, the
last insertion of a rule is younger than anybody's knowledge that the rule is gone
(`Kept`), and a row whose closing is recorded as a reconciliation stays so
(`OpenRows`).

*A monitor alone* (`MonitorAlone`: one detector, one worker, no commands).
`BlocksStayInForce` is the true form of the statement that `find_stale_deletion`
refutes. `Undisturbed`: while nothing has failed, the rows the worker has in its hands
are Active (`HandsOf`: nobody else closes any, and those it has still to handle
differ from the one it holds), a deletion that has not run has left the rule
(`DeletionOf`) and an insertion past `-I` has put it there (`InsertionOf`).

*The interface.* `ResponseKeepsTable` (with `OneDetector`) and `EngineKeepsTable`
(without) show both halves to keep to `BlockTable`. So the detection may treat a
block as one step, and its engine that finds the source blocked between
`CheckSource` and `OpenBlock` is the detector whose `get_active` finds a row.

**Evidence** (`EvidenceIngestProofs`), for any lines, addresses, collectors, files,
window, clock and deaths. `IngestTypeCorrect` comes first. `Places` says where a
line is on its way:

- `HandFits`: a line about to be observed is stored and not yet counted, one about
  to be audited is quarantined;
- `CountsAlone`: no two collectors are about to count the same event, because the
  insertion let only one of them through;
- `CountedAreStored`;
- `CachedAreStored`: an event in a collector's cache is stored, or is the one this
  collector is about to insert; only a death takes that one from it, and the cache
  with it.

With it `TablesAreALog` shows that every step is a step of `EventLog` or a stutter,
and `DeathsBoundLosses` that the stored events nobody has counted or is about to
count, with the quarantined lines nobody has audited or is about to audit, are
never more than the deaths. `NoLineIsSkipped` needs `CachedAreStored`.

`EvidenceProfileProofs` builds on `Places`. `ProfilesCountEvents` is one lemma about
the upsert, `ObservedSummary`: what a profile says of a set of events it says of
the set with one more after it has observed that one. `NewestSuccessIsKept` needs
`MonitorsInOrder`: what a monitor has counted is not newer than what it holds, that
not newer than what it has still to read, and that is sorted, because a monitor
never reads the journal back.

**Installation** (`LiveLabSetupProofs`), for any number of editions and faults.
`SetupInv` adds to the checked invariants how far the installer has come: the
monitor is stopped before the firewall unit (`MonitorFirst`), the flush finds the
policies open (`PolicyFirst`) and the chains are deleted without rules
((`FlushFirst`), the configuration about to be replaced has a backup or was overlooked
(`BackupFirst`), and each part that has been installed, up to what the monitor
has loaded, is of the edition of the repository (`Newest`). `SetupTypeCorrect`,
`ServicesStayStopped`, `AlwaysReachable`, `ConfigurationsAreKept`,
`BaselineIsClean` and `ReadyMeansNewest` follow.

Only model-checked: the liveness properties `DueRowsAreClosed`, `RulesAreLifted`,
`StopIsHeard`, `EndsTogether`, `EvidenceIsJudged`, `InputHandled` and
`RerunSucceeds`, which are out of reach of the prover (fairness, ENABLED).

## 7. Plan

1. (done) `FirewallManager`, `BlockResponse`, `BlockLedger`, their runs and
   proofs.
2. (done) `MonitorLifecycle` with its runs and proofs.
3. (done) `RiskDecision` and `DetectionEngine` with their runs and proofs.
4. (done) `EvidenceIngest` and `EventLog`, with the run and the proofs.
5. (done) `LiveLabSetup` with its run and proofs.
6. (done) `OneJump`, `RuleHasOwner`, `ProfileFromEvents` and
   `MonitorKeepsNewestSuccess` proved.
7. (done) `Judgement` with its refinement; `BlockTable`, to which detection and
   response both keep; the block proofs without assumptions where none is needed.
8. (done) `Supervision` and its refinement.

## 8. Not modelled

- Audit and health records beyond the status of each component and the audit of a
  rejected line: append-only, and no decision depends on them.
- The configuration loader and the modes: validation of a file into constants; its
  conditions are the assumptions of the modules.
- Address validation and the text of a journal or tcpdump line: pure
  classifications, which the models take as `Eligible` and `KindOf`.
- `setup_environment.py`: a developer's virtual environment and local
  configuration, one step after the other, without services.
- Terminal output: formatting. Reports and listings of events: reading only.
- `expire_old_entries` of the allowlist: nothing calls it.
- `create_plan` of the installer: it looks at the host and refuses or not; the model
  begins when it has accepted.
