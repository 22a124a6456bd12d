------------------------ MODULE EvidenceProfileProofs -------------------------
(***************************************************************************)
(* Theorems about the profiles of EvidenceIngest, on the invariants of     *)
(* EvidenceIngestProofs.                                                   *)
(***************************************************************************)
EXTENDS EvidenceIngestProofs

(* The operators that only abbreviate. *)
USE DEF worldVars, logVars, errorVars, sourceVars, localVars, vars, At, Goto

(***************************************************************************)
(* Profiles and the events counted in them                                 *)
(***************************************************************************)
\* What a profile says of the set E of events.
Counts(p, E) ==
    /\ p.failed = Cardinality(E \cap FailedEvents)
    /\ p.succeeded = Cardinality(E \cap Accepted)
Spans(p, E) ==
    IF E = {} THEN p = NoProfile
    ELSE /\ \E e \in E : p.first = e.time
         /\ \E e \in E : p.last = e.time
         /\ \A e \in E : e.time <= p.last
Succeeds(p, E) ==
    IF E \cap Accepted = {} THEN p.success = Never
    ELSE \E e \in E \cap Accepted : p.success = e.time
Summarises(p, E) == Counts(p, E) /\ Spans(p, E) /\ Succeeds(p, E)

LEMMA Summaries ==
    ProfileFromEvents <=> \A a \in Addresses : Summarises(profile[a], CountedOf(a))
  BY DEF ProfileFromEvents, Summarises, Counts, Spans, Succeeds

LEMMA SummaryOfNone == Summarises(NoProfile, {})
<1>1. {} \cap FailedEvents = {} /\ {} \cap Accepted = {}
  OBVIOUS
<1> QED BY <1>1, FS_EmptySet DEF Summarises, Counts, Spans, Succeeds, NoProfile

\* The times of events are not Never, so that a profile that counts some is not new.
LEMMA NewProfile ==
    ASSUME NEW p \in Profile, NEW E \in SUBSET Event, Spans(p, E)
    PROVE  p = NoProfile <=> E = {}
<1>1. ASSUME NEW e \in E, p.first = e.time PROVE p # NoProfile
  BY <1>1, EventFields, Constants DEF NoProfile, Never
<1> QED BY <1>1 DEF Spans

LEMMA OneMore ==
    ASSUME NEW E \in SUBSET Event, NEW e \in Event \ E, NEW K
    PROVE  Cardinality((E \cup {e}) \cap K)
              = Cardinality(E \cap K) + (IF e \in K THEN 1 ELSE 0)
<1>1. IsFiniteSet(E \cap K)
  <2>1. E \cap K \subseteq Event
    OBVIOUS
  <2> QED BY <2>1, EventsAreFinite, FS_Subset
<1>2. CASE e \in K
  <2>1. (E \cup {e}) \cap K = (E \cap K) \cup {e} /\ e \notin E \cap K
    BY <1>2
  <2>2. Cardinality((E \cap K) \cup {e}) = Cardinality(E \cap K) + 1
    BY <1>1, <2>1, FS_AddElement
  <2> QED BY <1>2, <2>1, <2>2
<1>3. CASE e \notin K
  <2>1. (E \cup {e}) \cap K = E \cap K
    BY <1>3
  <2>2. Cardinality((E \cup {e}) \cap K) = Cardinality(E \cap K)
    BY <2>1, Zenon
  <2>3. Cardinality(E \cap K) \in Nat
    BY <1>1, FS_CardinalityType
  <2> QED BY <1>3, <2>2, <2>3
<1> QED BY <1>2, <1>3

\* The upsert adds an event to the set that the profile summarises.
LEMMA ObservedSummary ==
    ASSUME NEW p \in Profile, NEW E \in SUBSET Event, NEW e \in Event \ E, Summarises(p, E)
    PROVE  Summarises(Observed(p, e), E \cup {e})
<1>n. p = NoProfile <=> E = {}
  BY NewProfile DEF Summarises
<1>t. e.time \in 0..MaxTime /\ MaxTime \in Nat /\ \A f \in E : f.time \in 0..MaxTime
  BY EventFields, Constants
<1>1. Counts(Observed(p, e), E \cup {e})
  <2>1. /\ Observed(p, e).failed = p.failed + (IF e \in FailedEvents THEN 1 ELSE 0)
        /\ Observed(p, e).succeeded = p.succeeded + (IF e \in Accepted THEN 1 ELSE 0)
    BY DEF Observed
  <2>2. p.failed = Cardinality(E \cap FailedEvents) /\ p.succeeded = Cardinality(E \cap Accepted)
    BY DEF Summarises, Counts
  <2>3. /\ Cardinality((E \cup {e}) \cap FailedEvents)
              = Cardinality(E \cap FailedEvents) + (IF e \in FailedEvents THEN 1 ELSE 0)
        /\ Cardinality((E \cup {e}) \cap Accepted)
              = Cardinality(E \cap Accepted) + (IF e \in Accepted THEN 1 ELSE 0)
    BY OneMore
  <2> QED BY <2>1, <2>2, <2>3 DEF Counts
<1>2. Spans(Observed(p, e), E \cup {e})
  <2>1. CASE E = {}
    <3>1. Observed(p, e).first = e.time /\ Observed(p, e).last = e.time
      BY <1>n, <2>1 DEF Observed
    <3> QED BY <1>t, <2>1, <3>1 DEF Spans
  <2>2. CASE E # {}
    <3>1. Observed(p, e).first = p.first /\ Observed(p, e).last = Later(e.time, p.last)
      BY <1>n, <2>2 DEF Observed
    <3>2. PICK f \in E : p.first = f.time
      BY <2>2 DEF Summarises, Spans
    <3>3. PICK l \in E : p.last = l.time
      BY <2>2 DEF Summarises, Spans
    <3>4. \A x \in E : x.time <= p.last
      BY <2>2 DEF Summarises, Spans
    <3>5. \E x \in E \cup {e} : Observed(p, e).last = x.time
      BY <3>1, <3>3 DEF Later
    <3>6. \A x \in E \cup {e} : x.time <= Observed(p, e).last
      BY <1>t, <3>1, <3>3, <3>4 DEF Later
    <3> QED BY <3>1, <3>2, <3>5, <3>6 DEF Spans
  <2> QED BY <2>1, <2>2
<1>3. Succeeds(Observed(p, e), E \cup {e})
  <2>1. CASE e \in Accepted
    <3>1. Observed(p, e).success = e.time
      BY <2>1 DEF Observed
    <3> QED BY <2>1, <3>1 DEF Succeeds
  <2>2. CASE e \notin Accepted
    <3>1. Observed(p, e).success = p.success
      BY <2>2 DEF Observed
    <3>2. (E \cup {e}) \cap Accepted = E \cap Accepted
      BY <2>2
    <3> QED BY <3>1, <3>2 DEF Summarises, Succeeds
  <2> QED BY <2>1, <2>2
<1> QED BY <1>1, <1>2, <1>3 DEF Summarises

\* What a step does to the profiles and to what is counted.
LEMMA CountingSteps ==
    ASSUME Types, Places, [Next]_vars
    PROVE  \/ UNCHANGED <<profile, Counted>>
           \/ \E e \in Event \ Counted :
                 /\ Counted' = Counted \cup {e}
                 /\ profile' = [profile EXCEPT ![AddressOf[e.line]] =
                                   Observed(profile[AddressOf[e.line]], e)]
<1>t. HandTypes /\ LogTypes
  BY DEF Types
<1>1. ASSUME NEW c \in Collectors, Observe(c)
      PROVE  \E e \in Event \ Counted :
                 /\ Counted' = Counted \cup {e}
                 /\ profile' = [profile EXCEPT ![AddressOf[e.line]] =
                                   Observed(profile[AddressOf[e.line]], e)]
  <2>1. hand[c] \in Event \ Counted
    BY <1>1, <1>t DEF Observe, HandTypes, Places, HandFits
  <2>2. Counted' = Counted \cup {hand[c]}
    BY <1>1, <1>t, MoreCounted DEF Observe
  <2> QED BY <1>1, <2>1, <2>2 DEF Observe
<1>2. ASSUME NEW c \in Collectors,
             Command(c) \/ Read(c) \/ Insert(c) \/ Record(c) \/ Audit(c) \/ Stop(c) \/ Die(c)
      PROVE  UNCHANGED <<profile, countedBy>>
  BY <1>2 DEF Command, Follow, FollowSince, CollectOnce, CollectFixture, Start, Stop, Die,
     Leave, Read, Insert, Record, Audit
<1>3. CASE Tick \/ (\E l \in AuthLines : Log(l)) \/ (\E l \in NetLines : Packet(l))
           \/ UNCHANGED vars
  BY <1>3, SameCounted DEF Tick, Log, Packet
<1> QED BY <1>1, <1>2, <1>3, SameCounted DEF Next, Step

LEMMA ProfilesStep ==
    ASSUME Types, Places, ProfileFromEvents, [Next]_vars
    PROVE  ProfileFromEvents'
<1>1. CASE UNCHANGED <<profile, Counted>>
  BY <1>1 DEF ProfileFromEvents, CountedOf
<1>2. ASSUME NEW e \in Event \ Counted,
             Counted' = Counted \cup {e},
             profile' = [profile EXCEPT ![AddressOf[e.line]] =
                            Observed(profile[AddressOf[e.line]], e)]
      PROVE  ProfileFromEvents'
  <2>t. profile \in [Addresses -> Profile] /\ Counted \subseteq Event
    BY DEF Types, LogTypes, Places, CountedAreStored
  <2>1. ASSUME NEW a \in Addresses PROVE Summarises(profile[a], CountedOf(a))
    BY Summaries
  <2>2. ASSUME NEW a \in Addresses PROVE Summarises(profile'[a], CountedOf(a)')
    <3>1. CASE a = AddressOf[e.line]
      <4>1. profile'[a] = Observed(profile[a], e)
        BY <1>2, <2>t, <3>1
      <4>2. CountedOf(a)' = CountedOf(a) \cup {e}
        BY <1>2, <3>1 DEF CountedOf
      <4>3. CountedOf(a) \in SUBSET Event /\ e \in Event \ CountedOf(a) /\ profile[a] \in Profile
        BY <2>t DEF CountedOf
      <4> QED BY <2>1, <4>1, <4>2, <4>3, ObservedSummary
    <3>2. CASE a # AddressOf[e.line]
      <4>1. profile'[a] = profile[a]
        BY <1>2, <2>t, <3>2
      <4>2. CountedOf(a)' = CountedOf(a)
        BY <1>2, <3>2 DEF CountedOf
      <4> QED BY <2>1, <4>1, <4>2
    <3> QED BY <3>1, <3>2
  <2> QED BY <2>2 DEF ProfileFromEvents, Summarises, Counts, Spans, Succeeds
<1> QED BY <1>1, <1>2, CountingSteps

LEMMA ProfilesInit == Init => ProfileFromEvents
<1> SUFFICES ASSUME Init, NEW a \in Addresses PROVE Summarises(profile[a], CountedOf(a))
  BY Summaries
<1>1. profile[a] = NoProfile /\ CountedOf(a) = {}
  BY DEF Init, CountedOf, Counted
<1> QED BY <1>1, SummaryOfNone

\* A profile is a function of the events counted in it, whichever collectors met them.
THEOREM ProfilesCountEvents == Spec => []ProfileFromEvents
<1>1. Init => Types /\ Places /\ ProfileFromEvents
  BY TypesInit, PlacesInit, ProfilesInit
<1>2. Types /\ Places /\ ProfileFromEvents /\ [Next]_vars
          => (Types /\ Places /\ ProfileFromEvents)'
  BY TypesStep, PlacesStep, ProfilesStep
<1> QED BY <1>1, <1>2, PTL DEF Spec

(***************************************************************************)
(* A monitor works in the order of time                                    *)
(***************************************************************************)
\* C has been counted, h is in the hand, q is to be read, at time t.
InOrder(C, h, q, t) ==
    /\ \A i \in DOMAIN q : q[i].time <= t
    /\ \A i, j \in DOMAIN q : i <= j => q[i].time <= q[j].time
    /\ h # NoEvent => h.time <= t /\ \A i \in DOMAIN q : h.time <= q[i].time
    /\ \A e \in C : /\ e.time <= t
                    /\ h # NoEvent => e.time <= h.time
                    /\ \A i \in DOMAIN q : e.time <= q[i].time

MonitorsInOrder == \A c \in Monitors : InOrder(countedBy[c], hand[c], queue[c], now)

\* Sorted in the same way as the type lemmas: time passes, ...
LEMMA OrderLater ==
    ASSUME NEW C \in SUBSET Event, NEW h \in Event \cup {NoEvent}, NEW q \in Seq(Event),
           NEW t \in Nat, NEW u \in Nat, t <= u, InOrder(C, h, q, t)
    PROVE  InOrder(C, h, q, u)
<1>1. \A x \in Event : x.time \in Nat
  BY EventFields, Constants
<1>2. \A i \in DOMAIN q : q[i] \in Event
  BY ElementOfSeq, LenProperties
<1> QED BY <1>1, <1>2 DEF InOrder

\* ... a line arrives, ...
LEMMA OrderArrival ==
    ASSUME NEW C \in SUBSET Event, NEW h \in Event \cup {NoEvent}, NEW q \in Seq(Event),
           NEW e \in Event, InOrder(C, h, q, e.time)
    PROVE  InOrder(C, h, Append(q, e), e.time)
<1> DEFINE r == Append(q, e)
<1>1. \A x \in Event : x.time \in Nat
  BY EventFields, Constants
<1>2. /\ DOMAIN q = 1..Len(q) /\ Len(q) \in Nat /\ DOMAIN r = 1..(Len(q) + 1)
      /\ \A i \in 1..Len(q) : r[i] = q[i] /\ q[i] \in Event
      /\ r[Len(q) + 1] = e
  BY AppendProperties, LenProperties, ElementOfSeq
<1> HIDE DEF r
<1>3. \A i \in DOMAIN r : r[i] \in Event /\ r[i].time <= e.time
  BY <1>1, <1>2 DEF InOrder
<1>4. \A i, j \in DOMAIN r : i <= j => r[i].time <= r[j].time
  <2> SUFFICES ASSUME NEW i \in DOMAIN r, NEW j \in DOMAIN r, i <= j
               PROVE  r[i].time <= r[j].time
    OBVIOUS
  <2>1. CASE j = Len(q) + 1
    BY <1>2, <1>3, <2>1
  <2>2. CASE j # Len(q) + 1
    BY <1>2, <2>2 DEF InOrder
  <2> QED BY <2>1, <2>2
<1>5. h # NoEvent => h.time <= e.time /\ \A i \in DOMAIN r : h.time <= r[i].time
  BY <1>2 DEF InOrder
<1>6. \A x \in C : /\ x.time <= e.time
                   /\ h # NoEvent => x.time <= h.time
                   /\ \A i \in DOMAIN r : x.time <= r[i].time
  BY <1>2 DEF InOrder
<1>7. InOrder(C, h, r, e.time)
  BY <1>3, <1>4, <1>5, <1>6 DEF InOrder
<1> QED BY <1>7 DEF r

\* ... is read, ...
LEMMA OrderRead ==
    ASSUME NEW C \in SUBSET Event, NEW q \in Seq(Event), q # <<>>, NEW t,
           InOrder(C, NoEvent, q, t)
    PROVE  InOrder(C, Head(q), Tail(q), t) /\ InOrder(C, NoEvent, Tail(q), t)
<1>1. /\ DOMAIN q = 1..Len(q) /\ Len(q) \in Nat \ {0} /\ Head(q) = q[1]
      /\ DOMAIN Tail(q) = 1..(Len(q) - 1)
      /\ \A i \in 1..(Len(q) - 1) : Tail(q)[i] = q[i + 1]
  BY HeadTailProperties, LenProperties, EmptySeq
<1>2. \A i \in DOMAIN Tail(q) : i + 1 \in DOMAIN q /\ 1 <= i + 1 /\ Tail(q)[i] = q[i + 1]
  BY <1>1
<1>3. 1 \in DOMAIN q
  BY <1>1
<1>4. \A i, j \in DOMAIN Tail(q) : i <= j => Tail(q)[i].time <= Tail(q)[j].time
  <2> SUFFICES ASSUME NEW i \in DOMAIN Tail(q), NEW j \in DOMAIN Tail(q), i <= j
               PROVE  Tail(q)[i].time <= Tail(q)[j].time
    OBVIOUS
  <2>1. i + 1 <= j + 1
    BY <1>1
  <2> QED BY <1>2, <2>1 DEF InOrder
<1>5. /\ \A i \in DOMAIN Tail(q) : Tail(q)[i].time <= t /\ Head(q).time <= Tail(q)[i].time
      /\ Head(q).time <= t
  BY <1>1, <1>2, <1>3 DEF InOrder
<1>6. \A e \in C : /\ e.time <= t /\ e.time <= Head(q).time
                   /\ \A i \in DOMAIN Tail(q) : e.time <= Tail(q)[i].time
  BY <1>1, <1>2, <1>3 DEF InOrder
<1> QED BY <1>4, <1>5, <1>6 DEF InOrder

\* ... is counted or put away, ...
LEMMA OrderDone ==
    ASSUME NEW C, NEW h, h # NoEvent, NEW q, NEW t, InOrder(C, h, q, t)
    PROVE  InOrder(C \cup {h}, NoEvent, q, t) /\ InOrder(C, NoEvent, q, t)
  BY DEF InOrder

\* ... and what is left is forgotten.
LEMMA OrderForgotten ==
    ASSUME NEW C, NEW h, NEW q, NEW t, InOrder(C, h, q, t)
    PROVE  InOrder(C, NoEvent, <<>>, t)
<1>1. DOMAIN <<>> = {}
  OBVIOUS
<1> QED BY <1>1 DEF InOrder

LEMMA OrderStep ==
    ASSUME Types, Places, MonitorsInOrder, [Next]_vars
    PROVE  MonitorsInOrder'
<1> SUFFICES ASSUME NEW m \in Monitors
             PROVE  InOrder(countedBy'[m], hand'[m], queue'[m], now')
  BY DEF MonitorsInOrder
<1>o. InOrder(countedBy[m], hand[m], queue[m], now)
  BY DEF MonitorsInOrder
<1>t. /\ m \in Collectors /\ Monitors \subseteq Collectors
      /\ countedBy \in [Collectors -> SUBSET Event] /\ hand \in [Collectors -> Event \cup {NoEvent}]
      /\ queue \in [Collectors -> Seq(Event)] /\ now \in Nat
      /\ pc \in [Collectors -> Stages]
  BY IngestAssumption DEF Types, LogTypes, HandTypes, QueueTypes, WorldTypes
<1>f. /\ \A c \in Collectors : pc[c] \in {"off", "read"} => hand[c] = NoEvent
      /\ \A c \in Collectors :
            pc[c] \in {"insert", "observe", "record", "audit"} => hand[c] \in Event /\ hand[c] # NoEvent
  BY Constants DEF Types, HandTypes, Places, HandFits
<1>1. CASE Tick
  BY <1>o, <1>t, <1>1, OrderLater DEF Tick
<1>2. ASSUME NEW l \in Lines, NEW C, Deliver([line |-> l, time |-> now], C),
             UNCHANGED <<countedBy, hand, now>>
      PROVE  InOrder(countedBy'[m], hand'[m], queue'[m], now')
  <2> DEFINE e == [line |-> l, time |-> now]
  <2>1. e \in Event /\ e.time = now
    BY EventType DEF Types
  <2>2. queue'[m] = IF m \in C THEN Append(queue[m], e) ELSE queue[m]
    BY <1>2, <1>t DEF Deliver
  <2> HIDE DEF e
  <2>3. InOrder(countedBy[m], hand[m], Append(queue[m], e), now)
    BY <1>o, <1>t, <2>1, OrderArrival
  <2> QED BY <1>o, <1>2, <2>2, <2>3
<1>3. ASSUME NEW l \in AuthLines, Log(l)
      PROVE  InOrder(countedBy'[m], hand'[m], queue'[m], now')
  BY <1>2, <1>3, Constants DEF Log
<1>4. ASSUME NEW l \in NetLines, Packet(l)
      PROVE  InOrder(countedBy'[m], hand'[m], queue'[m], now')
  BY <1>2, <1>4, Constants DEF Packet
<1>5. ASSUME NEW c \in Collectors \ {m}, Command(c) \/ Step(c) \/ Stop(c) \/ Die(c)
      PROVE  InOrder(countedBy'[m], hand'[m], queue'[m], now')
  <2>1. countedBy'[m] = countedBy[m] /\ hand'[m] = hand[m] /\ queue'[m] = queue[m] /\ now' = now
    BY <1>5, <1>t DEF Command, Follow, FollowSince, CollectOnce, CollectFixture, Start, Stop, Die,
       Leave, Step, Read, Insert, Observe, Record, Audit, Return
  <2> QED BY <1>o, <2>1
<1>6. CASE Command(m)
  <2>1. queue'[m] = <<>> /\ UNCHANGED <<countedBy, hand, now>> /\ pc[m] = "off"
    BY <1>6, <1>t DEF Command, Follow, FollowSince, CollectOnce, CollectFixture, Start
  <2> QED BY <1>o, <1>t, <1>f, <2>1, OrderForgotten
<1>7. CASE Stop(m) \/ Die(m)
  <2>1. queue'[m] = <<>> /\ hand'[m] = NoEvent /\ UNCHANGED <<countedBy, now>>
    BY <1>7, <1>t DEF Stop, Die, Leave
  <2> QED BY <1>o, <2>1, OrderForgotten
<1>8. CASE Read(m)
  <2>1. /\ pc[m] = "read" /\ queue[m] # <<>> /\ queue'[m] = Tail(queue[m])
        /\ hand' = hand \/ hand' = [hand EXCEPT ![m] = Head(queue[m])]
        /\ UNCHANGED <<countedBy, now>>
    BY <1>8, <1>t DEF Read
  <2>2. hand[m] = NoEvent
    BY <1>t, <1>f, <2>1
  <2>3. hand'[m] \in {NoEvent, Head(queue[m])}
    BY <1>t, <2>1, <2>2
  <2>4. /\ InOrder(countedBy[m], Head(queue[m]), Tail(queue[m]), now)
        /\ InOrder(countedBy[m], NoEvent, Tail(queue[m]), now)
    BY <1>o, <1>t, <2>1, <2>2, OrderRead
  <2> QED BY <2>1, <2>3, <2>4
<1>9. CASE Observe(m)
  <2>1. /\ hand[m] # NoEvent /\ hand'[m] = NoEvent /\ countedBy'[m] = countedBy[m] \cup {hand[m]}
        /\ UNCHANGED <<queue, now>>
    BY <1>9, <1>t, <1>f DEF Observe, Return
  <2> QED BY <1>o, <2>1, OrderDone
<1>10. CASE Insert(m) \/ Record(m) \/ Audit(m)
  <2>1. /\ hand[m] # NoEvent /\ hand'[m] \in {hand[m], NoEvent}
        /\ UNCHANGED <<countedBy, queue, now>>
    BY <1>10, <1>t, <1>f DEF Insert, Record, Audit, Return
  <2> QED BY <1>o, <2>1, OrderDone
<1>11. CASE UNCHANGED vars
  BY <1>o, <1>11
<1> QED BY <1>1, <1>3, <1>4, <1>5, <1>6, <1>7, <1>8, <1>9, <1>10, <1>11 DEF Next, Step

LEMMA OrderInit == Init => MonitorsInOrder
<1> SUFFICES ASSUME Init, NEW c \in Monitors
             PROVE  InOrder(countedBy[c], hand[c], queue[c], now)
  BY DEF MonitorsInOrder
<1>1. countedBy[c] = {} /\ hand[c] = NoEvent /\ queue[c] = <<>> /\ DOMAIN <<>> = {}
  BY IngestAssumption DEF Init
<1> QED BY <1>1 DEF InOrder

\* Whose count it is: the login that a monitor counts is newer than all it has counted,
\* and none of those of any other.
LEMMA NewestStep ==
    ASSUME Types, Places, MonitorsInOrder, MonitorKeepsNewestSuccess, [Next]_vars
    PROVE  MonitorKeepsNewestSuccess'
<1>t. HandTypes /\ LogTypes /\ Counted \subseteq Event /\ Monitors \subseteq Collectors
  BY IngestAssumption DEF Types, LogTypes, Places, CountedAreStored
<1>1. CASE UNCHANGED <<profile, countedBy>>
  <2>1. Counted' = Counted
    BY <1>1, SameCounted
  <2> QED BY <1>1, <2>1 DEF MonitorKeepsNewestSuccess, CountedOf
<1>2. ASSUME NEW c \in Collectors, Observe(c) PROVE MonitorKeepsNewestSuccess'
  <2>e. PICK e \in Event \ Counted : e = hand[c]
    BY <1>2, <1>t DEF Observe, HandTypes, Places, HandFits
  <2>1. /\ Counted' = Counted \cup {e}
        /\ countedBy' = [countedBy EXCEPT ![c] = countedBy[c] \cup {e}]
        /\ profile' = [profile EXCEPT ![AddressOf[e.line]] =
                          Observed(profile[AddressOf[e.line]], e)]
    BY <1>2, <1>t, <2>e, MoreCounted DEF Observe
  <2> SUFFICES ASSUME NEW a \in Addresses, NEW m \in Monitors \cap AuthCollectors,
                      (CountedOf(a))' \cap Accepted \subseteq countedBy'[m],
                      NEW f \in (CountedOf(a))' \cap Accepted
               PROVE  f.time <= profile'[a].success
    BY DEF MonitorKeepsNewestSuccess
  <2>2. CASE e \in Accepted /\ AddressOf[e.line] = a
    <3>1. e \in countedBy'[m]
      BY <2>1, <2>2 DEF CountedOf
    <3>2. m = c
      BY <1>t, <2>1, <3>1 DEF LogTypes, Counted
    <3>3. profile'[a].success = e.time
      BY <1>t, <2>1, <2>2 DEF LogTypes, Observed
    <3>4. f \in countedBy[m] \cup {e}
      BY <1>t, <2>1 DEF LogTypes
    <3>5. \A g \in countedBy[m] : g.time <= e.time
      BY <2>e, <3>2, Constants DEF MonitorsInOrder, InOrder
    <3>6. e.time <= e.time
      BY EventFields, Constants
    <3> QED BY <3>3, <3>4, <3>5, <3>6
  <2>3. CASE ~(e \in Accepted /\ AddressOf[e.line] = a)
    <3>1. (CountedOf(a))' \cap Accepted = CountedOf(a) \cap Accepted
      BY <2>1, <2>3 DEF CountedOf
    <3>2. profile'[a].success = profile[a].success
      BY <1>t, <2>1, <2>3 DEF LogTypes, Observed
    <3>3. CountedOf(a) \cap Accepted \subseteq countedBy[m]
      <4>1. countedBy'[m] \subseteq countedBy[m] \cup {e}
        BY <1>t, <2>1 DEF LogTypes
      <4>2. e \notin CountedOf(a)
        BY <2>e DEF CountedOf
      <4> QED BY <3>1, <4>1, <4>2
    <3> QED BY <3>1, <3>2, <3>3 DEF MonitorKeepsNewestSuccess
  <2> QED BY <2>2, <2>3
<1>3. ASSUME NEW c \in Collectors,
             Command(c) \/ Read(c) \/ Insert(c) \/ Record(c) \/ Audit(c) \/ Stop(c) \/ Die(c)
      PROVE  UNCHANGED <<profile, countedBy>>
  BY <1>3 DEF Command, Follow, FollowSince, CollectOnce, CollectFixture, Start, Stop, Die,
     Leave, Read, Insert, Record, Audit
<1>4. CASE Tick \/ (\E l \in AuthLines : Log(l)) \/ (\E l \in NetLines : Packet(l))
           \/ UNCHANGED vars
  BY <1>1, <1>4 DEF Tick, Log, Packet
<1> QED BY <1>1, <1>2, <1>3, <1>4 DEF Next, Step

LEMMA NewestInit == Init => MonitorKeepsNewestSuccess
  BY DEF Init, MonitorKeepsNewestSuccess, CountedOf, Counted

\* The last success of a profile that one monitor has kept is the newest.
THEOREM NewestSuccessIsKept == Spec => []MonitorKeepsNewestSuccess
<1>1. Init => Types /\ Places /\ MonitorsInOrder /\ MonitorKeepsNewestSuccess
  BY TypesInit, PlacesInit, OrderInit, NewestInit
<1>2. Types /\ Places /\ MonitorsInOrder /\ MonitorKeepsNewestSuccess /\ [Next]_vars
          => (Types /\ Places /\ MonitorsInOrder /\ MonitorKeepsNewestSuccess)'
  BY TypesStep, PlacesStep, OrderStep, NewestStep
<1> QED BY <1>1, <1>2, PTL DEF Spec
===============================================================================
