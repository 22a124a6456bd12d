---------------------------- MODULE EvidenceIngest ----------------------------
(***************************************************************************)
(* The way of a line of evidence into the database: sshd's journal lines   *)
(* and tcpdump's packets, the collectors that read them (the monitor's, and*)
(* the "collect-auth" and "collect-network" commands beside it), and       *)
(* process_line of the two ingestors: parse, validate, suppress a          *)
(* duplicate, insert the event, update the profile of its address; or put  *)
(* the line into the quarantine and audit it.                              *)
(*                                                                         *)
(* A collector has its ingestor, and so a duplicate cache, of its own; only*)
(* the database is shared.  An action is the work on a line in memory, or  *)
(* one transaction.                                                        *)
(***************************************************************************)
EXTENDS Integers, Sequences, FiniteSets

CONSTANTS
    AuthLines,      \* lines of sshd in the journal, without their time
    NetLines,       \* lines of tcpdump, without their time
    KindOf,         \* what the parser and the address check make of a line
    AddressOf,      \* the source address of an accepted line
    Addresses,
    AuthCollectors,
    NetCollectors,
    Monitors,       \* the collectors of the monitor
    Fixture,        \* the recorded lines a command may be given instead
    Window,         \* the duplicate window, in units of the model's clock
    MaxTime,        \* bound: the clock
    MaxLines,       \* bound: lines in the journal and packets
    MaxDeaths,      \* bound: crashes and failed transactions
    NoEvent

Lines == AuthLines \cup NetLines
Collectors == AuthCollectors \cup NetCollectors
Never == MaxTime + 1

\* A line with its time; the fingerprint of an event is made of these.
Event == [line : Lines, time : 0..MaxTime]

RejectedKinds == {"malformed", "unsupported", "bad address"}
AuthKinds == {"failed password", "invalid user", "accepted", "closed"}

ASSUME IngestAssumption ==
    /\ AuthLines \cap NetLines = {} /\ AuthCollectors \cap NetCollectors = {}
    /\ IsFiniteSet(Lines) /\ IsFiniteSet(Collectors)
    /\ KindOf \in [Lines -> RejectedKinds \cup AuthKinds \cup {"packet"}]
    /\ AddressOf \in [Lines -> Addresses]
    /\ Monitors \subseteq Collectors
    /\ Fixture \in [Collectors -> Seq(Event)]
    /\ Window \in Nat /\ MaxTime \in Nat /\ MaxLines \in Nat /\ MaxDeaths \in Nat
    /\ NoEvent \notin Event

VARIABLES
    now,            \* the clock
    journal,        \* what sshd has written
    packets,        \* the number of packets so far
    stored,         \* auth_events and network_events
    profile,        \* ip_profiles
    quarantined,    \* parser_errors
    audited,        \* the audit records of parser failures
    countedBy,      \* history: the events whose profile update each collector made
    deaths,
    pc,             \* what each collector does next
    following,      \* those that follow their source until they are stopped
    queue,          \* the lines a collector has still to read
    given,          \* history: all the lines it was to read since it started
    hand,           \* the line it works on
    cache           \* EventDeduplicator._seen: fingerprint to time of collection

worldVars == <<now, journal, packets>>
logVars == <<stored, profile, countedBy>>
errorVars == <<quarantined, audited>>
sourceVars == <<following, queue, given>>
localVars == <<pc, sourceVars, hand, cache>>
vars == <<worldVars, logVars, errorVars, deaths, localVars>>

Stages == {"off", "read", "insert", "observe", "record", "audit"}

NoProfile == [first |-> Never, last |-> Never, failed |-> 0, succeeded |-> 0,
              success |-> Never]
Profile == [first : 0..Never, last : 0..Never, failed : Nat, succeeded : Nat,
            success : 0..Never]

NoCache == [e \in {} |-> 0]

Rejected(e) == KindOf[e.line] \in RejectedKinds
FailedEvents == {e \in Event : KindOf[e.line] = "failed password"}
Accepted == {e \in Event : KindOf[e.line] = "accepted"}
Counted == UNION {countedBy[c] : c \in Collectors}
InQueue(c) == {queue[c][i] : i \in DOMAIN queue[c]}

TypeOK ==
    /\ now \in 0..MaxTime
    /\ journal \in Seq(Event)
    /\ packets \in Nat
    /\ stored \subseteq Event
    /\ profile \in [Addresses -> Profile]
    /\ quarantined \subseteq Event /\ audited \subseteq Event
    /\ countedBy \in [Collectors -> SUBSET Event]
    /\ deaths \in 0..MaxDeaths
    /\ pc \in [Collectors -> Stages]
    /\ following \subseteq Collectors
    /\ queue \in [Collectors -> Seq(Event)]
    /\ given \in [Collectors -> SUBSET Event]
    /\ hand \in [Collectors -> Event \cup {NoEvent}]
    /\ DOMAIN cache = Collectors
    /\ \A c \in Collectors : /\ DOMAIN cache[c] \subseteq Event
                              /\ cache[c] \in [DOMAIN cache[c] -> 0..MaxTime]

Init ==
    /\ now = 0 /\ journal = <<>> /\ packets = 0
    /\ stored = {}
    /\ profile = [a \in Addresses |-> NoProfile]
    /\ quarantined = {} /\ audited = {}
    /\ countedBy = [c \in Collectors |-> {}]
    /\ deaths = 0
    /\ pc = [c \in Collectors |-> "off"]
    /\ following = {}
    /\ queue = [c \in Collectors |-> <<>>]
    /\ given = [c \in Collectors |-> {}]
    /\ hand = [c \in Collectors |-> NoEvent]
    /\ cache = [c \in Collectors |-> NoCache]

(***************************************************************************)
(* Properties                                                              *)
(***************************************************************************)
InHand(stage) == {hand[c] : c \in {d \in Collectors : pc[d] = stage}}

Uncounted == stored \ (Counted \cup InHand("observe"))
Unaudited == quarantined \ (audited \cup InHand("audit"))

CountedOf(a) == {e \in Counted : AddressOf[e.line] = a}

\* A profile is a function of the events counted in it, none of them twice: its
\* counters, the time of the newest and of a first one, and the time of some
\* accepted login; however many collectors meet the same line (the upserts of
\* IPProfileRepository after AuthenticationEventRepository.insert).
ProfileFromEvents ==
    \A a \in Addresses :
        LET E == CountedOf(a)
            p == profile[a]
        IN  /\ p.failed = Cardinality(E \cap FailedEvents)
            /\ p.succeeded = Cardinality(E \cap Accepted)
            /\ IF E = {} THEN p = NoProfile
               ELSE /\ \E e \in E : p.first = e.time
                    /\ \E e \in E : p.last = e.time
                    /\ \A e \in E : e.time <= p.last
            /\ IF E \cap Accepted = {} THEN p.success = Never
               ELSE \E e \in E \cap Accepted : p.success = e.time

\* An event missing from its profile, or a quarantined line without an audit
\* record, cost a collector its life between the two transactions of process_line;
\* a second reading of the line does not repair it, and nothing else loses one.
OnlyDeathsLoseRecords == Cardinality(Uncounted) + Cardinality(Unaudited) <= deaths

\* Of the lines a collector was given, each is in the database, in the quarantine,
\* in its hand or still to be read: the cache marks an event before it is inserted,
\* and yet suppresses none that is not stored in the end.
NothingSkipped ==
    \A c \in Collectors :
        given[c] \subseteq stored \cup quarantined \cup InQueue(c) \cup {hand[c]}

\* last_success_at, which every accepted login overwrites and has_recent_success
\* compares with the window, is that of the newest one as long as one monitor,
\* stopped and started or not, has counted all the accepted logins of the address.
MonitorKeepsNewestSuccess ==
    \A a \in Addresses, c \in Monitors \cap AuthCollectors :
        CountedOf(a) \cap Accepted \subseteq countedBy[c] =>
            \A e \in CountedOf(a) \cap Accepted : e.time <= profile[a].success

(***************************************************************************)
(* The SSH server and the network                                          *)
(***************************************************************************)
Tick ==
    /\ now < MaxTime
    /\ now' = now + 1
    /\ UNCHANGED <<journal, packets, logVars, errorVars, deaths, localVars>>

\* The line e reaches the collectors in C.
Deliver(e, C) ==
    /\ queue' = [c \in Collectors |-> IF c \in C THEN Append(queue[c], e) ELSE queue[c]]
    /\ given' = [c \in Collectors |-> IF c \in C THEN given[c] \cup {e} ELSE given[c]]
    /\ UNCHANGED following

\* sshd logs a line; every journalctl that follows prints it.
Log(l) ==
    /\ Len(journal) + packets < MaxLines
    /\ LET e == [line |-> l, time |-> now]
       IN  /\ journal' = Append(journal, e)
           /\ Deliver(e, following \cap AuthCollectors)
    /\ UNCHANGED <<now, packets, logVars, errorVars, deaths, pc, hand, cache>>

\* A packet arrives; a tcpdump that is restarting, or that drops it, misses it.
Packet(l) ==
    /\ Len(journal) + packets < MaxLines
    /\ packets' = packets + 1
    /\ \E C \in SUBSET (following \cap NetCollectors) : Deliver([line |-> l, time |-> now], C)
    /\ UNCHANGED <<now, journal, logVars, errorVars, deaths, pc, hand, cache>>

(***************************************************************************)
(* Start and end of a collector                                            *)
(***************************************************************************)
At(c, here) == pc[c] = here
Goto(c, there) == pc' = [pc EXCEPT ![c] = there]

\* c starts with the lines of s before it.
Start(c, s) ==
    /\ At(c, "off")
    /\ Goto(c, "read")
    /\ queue' = [queue EXCEPT ![c] = s]
    /\ given' = [given EXCEPT ![c] = {s[i] : i \in DOMAIN s}]
    /\ UNCHANGED <<worldVars, logVars, errorVars, deaths, hand, cache>>

\* The journal since some time, which is the end of it.
Since(k) == SubSeq(journal, k, Len(journal))

\* Mutant of Follow: the monitor reads the journal from some time on.
Follow_Since(c) ==
    /\ \E k \in 1..(Len(journal) + 1) : Start(c, Since(k))
    /\ following' = following \cup {c}

\* "monitor", or a command with --follow: only what comes after the start.
Follow(c) == Start(c, <<>>) /\ following' = following \cup {c}

\* "collect-auth --follow --since".
FollowSince(c) ==
    /\ c \in AuthCollectors \ Monitors
    /\ \E k \in 1..Len(journal) : Start(c, Since(k))
    /\ following' = following \cup {c}

\* "collect-auth --once": the lines of the lookback, or since a time.
CollectOnce(c) ==
    /\ c \in AuthCollectors \ Monitors
    /\ \E k \in 1..Len(journal) : Start(c, Since(k))
    /\ UNCHANGED following

\* "--fixture": the lines of a file.
CollectFixture(c) ==
    /\ c \notin Monitors /\ Fixture[c] # <<>>
    /\ Start(c, Fixture[c])
    /\ UNCHANGED following

\* The collector and all it has in memory are gone.
Leave(c) ==
    /\ Goto(c, "off")
    /\ following' = following \ {c}
    /\ queue' = [queue EXCEPT ![c] = <<>>]
    /\ given' = [given EXCEPT ![c] = {}]
    /\ hand' = [hand EXCEPT ![c] = NoEvent]
    /\ cache' = [cache EXCEPT ![c] = NoCache]
    /\ UNCHANGED <<worldVars, logVars, errorVars>>

\* Mutant of Stop: a line is left where it is.
Stop_AnyTime(c) ==
    /\ ~At(c, "off")
    /\ Leave(c)
    /\ UNCHANGED deaths

\* Between two lines: stop(), a signal, or the end of the input of a batch.
Stop(c) ==
    /\ At(c, "read")
    /\ Leave(c)
    /\ UNCHANGED deaths

\* At any step: the process is killed, or a transaction fails and its exception,
\* which process_line and the collectors let pass, ends the collector.
Die(c) ==
    /\ ~At(c, "off")
    /\ deaths < MaxDeaths
    /\ deaths' = deaths + 1
    /\ Leave(c)

(***************************************************************************)
(* process_line                                                            *)
(***************************************************************************)
\* The cache without the entries older than the window.
Fresh(c) == {e \in DOMAIN cache[c] : cache[c][e] >= now - Window}

\* Mutant of Remember: the cache holds the time at which an entry is too old.
Remember_Expiry(c, e) ==
    cache' = [cache EXCEPT ![c] =
        [f \in Fresh(c) \cup {e} |-> IF f = e THEN now + Window + 1 ELSE cache[c][f]]]

\* is_duplicate marks e as seen now, even when it was seen before.
Remember(c, e) ==
    cache' = [cache EXCEPT ![c] =
        [f \in Fresh(c) \cup {e} |-> IF f = e THEN now ELSE cache[c][f]]]

Duplicate(c, e) == e \in Fresh(c)

\* Parse and validate the next line; suppress it if it is a duplicate.
Read(c) ==
    /\ At(c, "read") /\ queue[c] # <<>>
    /\ LET e == Head(queue[c])
       IN  \/ /\ Rejected(e)
              /\ Goto(c, "record")
              /\ hand' = [hand EXCEPT ![c] = e]
              /\ UNCHANGED cache
           \/ /\ ~Rejected(e) /\ Duplicate(c, e)
              /\ Remember(c, e)
              /\ UNCHANGED <<pc, hand>>
           \/ /\ ~Rejected(e) /\ ~Duplicate(c, e)
              /\ Remember(c, e)
              /\ Goto(c, "insert")
              /\ hand' = [hand EXCEPT ![c] = e]
    /\ queue' = [queue EXCEPT ![c] = Tail(@)]
    /\ UNCHANGED <<worldVars, logVars, errorVars, deaths, following, given>>

\* process_line returns.
Return(c) ==
    /\ Goto(c, "read")
    /\ hand' = [hand EXCEPT ![c] = NoEvent]

\* Mutant of Insert: the result of the insertion is not looked at.
Insert_Unchecked(c) ==
    /\ At(c, "insert")
    /\ stored' = stored \cup {hand[c]}
    /\ Goto(c, "observe")
    /\ UNCHANGED <<worldVars, profile, countedBy, errorVars, deaths, sourceVars, hand, cache>>

\* Mutant of Insert: a failed transaction is swallowed with its line.
Insert_Swallowed(c) ==
    /\ At(c, "insert")
    /\ \/ Return(c) /\ UNCHANGED stored
       \/ /\ hand[c] \notin stored
          /\ stored' = stored \cup {hand[c]}
          /\ Goto(c, "observe")
          /\ UNCHANGED hand
    /\ UNCHANGED <<worldVars, profile, countedBy, errorVars, deaths, sourceVars, cache>>

\* Mutant of Insert: a conflict is taken for a busy database.
Insert_Retry(c) ==
    /\ At(c, "insert")
    /\ hand[c] \notin stored
    /\ stored' = stored \cup {hand[c]}
    /\ Goto(c, "observe")
    /\ UNCHANGED <<worldVars, profile, countedBy, errorVars, deaths, sourceVars, hand, cache>>

\* INSERT ... ON CONFLICT DO NOTHING on the unique fingerprint.
Insert(c) ==
    /\ At(c, "insert")
    /\ \/ /\ hand[c] \in stored
          /\ Return(c)
          /\ UNCHANGED stored
       \/ /\ hand[c] \notin stored
          /\ stored' = stored \cup {hand[c]}
          /\ Goto(c, "observe")
          /\ UNCHANGED hand
    /\ UNCHANGED <<worldVars, profile, countedBy, errorVars, deaths, sourceVars, cache>>

Later(t, u) == IF t > u THEN t ELSE u

\* The upsert of observe_authentication and observe_network: a new row, or the
\* old one with the event added.
Observed(p, e) ==
    LET new == p = NoProfile
    IN  [first     |-> IF new THEN e.time ELSE p.first,
         last      |-> IF new THEN e.time ELSE Later(e.time, p.last),
         failed    |-> p.failed + (IF e \in FailedEvents THEN 1 ELSE 0),
         succeeded |-> p.succeeded + (IF e \in Accepted THEN 1 ELSE 0),
         success   |-> IF e \in Accepted THEN e.time ELSE p.success]

Observe(c) ==
    /\ At(c, "observe")
    /\ profile' = [profile EXCEPT ![AddressOf[hand[c].line]] = Observed(@, hand[c])]
    /\ countedBy' = [countedBy EXCEPT ![c] = @ \cup {hand[c]}]
    /\ Return(c)
    /\ UNCHANGED <<worldVars, stored, errorVars, deaths, sourceVars, cache>>

\* _record_parser_error: the row, then its audit record.
Record(c) ==
    /\ At(c, "record")
    /\ quarantined' = quarantined \cup {hand[c]}
    /\ Goto(c, "audit")
    /\ UNCHANGED <<worldVars, logVars, audited, deaths, sourceVars, hand, cache>>

Audit(c) ==
    /\ At(c, "audit")
    /\ audited' = audited \cup {hand[c]}
    /\ Return(c)
    /\ UNCHANGED <<worldVars, logVars, quarantined, deaths, sourceVars, cache>>

Step(c) == Read(c) \/ Insert(c) \/ Observe(c) \/ Record(c) \/ Audit(c)

Command(c) == Follow(c) \/ FollowSince(c) \/ CollectOnce(c) \/ CollectFixture(c)

Next ==
    \/ Tick
    \/ \E l \in AuthLines : Log(l)
    \/ \E l \in NetLines : Packet(l)
    \/ \E c \in Collectors : Command(c) \/ Step(c) \/ Stop(c) \/ Die(c)

Spec == Init /\ [][Next]_vars

\* The tables are an event log whose events are counted at most once, after they
\* are stored, and the profiles count nothing else.
Tables == INSTANCE EventLog WITH
    AddressOf <- [e \in Event |-> AddressOf[e.line]],
    counted <- Counted,
    failures <- [a \in Addresses |-> profile[a].failed],
    successes <- [a \in Addresses |-> profile[a].succeeded]

\* The detailed specification implements the event log.
TablesSpec == Tables!Spec

\* A thread that can go on does; nobody has to start, stop or kill one.
FairSpec == Spec /\ \A c \in Collectors : WF_vars(Step(c))

\* The monitor gets to the end of its input whenever sshd pauses: every line it
\* has been given is in the database or in the quarantine, unless it ends first
\* (process_line returns or raises for every line, and follow goes on to the next).
InputHandled ==
    \A c \in Monitors :
        (queue[c] # <<>>) ~>
            (given[c] \subseteq stored \cup quarantined \/ At(c, "off"))
=============================================================================
