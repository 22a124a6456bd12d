------------------------- MODULE EvidenceIngestProofs -------------------------
(***************************************************************************)
(* Theorems about EvidenceIngest, for any lines, addresses, collectors,    *)
(* fixtures, duplicate window and bounds.                                  *)
(***************************************************************************)
EXTENDS EvidenceIngest, FiniteSetTheorems, SequenceTheorems, TLAPS

(* The operators that only abbreviate. *)
USE DEF worldVars, logVars, errorVars, sourceVars, localVars, vars, At, Goto

(***************************************************************************)
(* Events and queues                                                       *)
(***************************************************************************)
LEMMA Constants ==
    /\ AuthLines \subseteq Lines /\ NetLines \subseteq Lines
    /\ AuthCollectors \subseteq Collectors /\ NetCollectors \subseteq Collectors
    /\ MaxTime \in Nat /\ Window \in Nat /\ MaxDeaths \in Nat /\ Never \in Nat
    /\ Fixture \in [Collectors -> Seq(Event)] /\ AddressOf \in [Lines -> Addresses]
    /\ NoEvent \notin Event
  BY IngestAssumption DEF Lines, Collectors, Never

LEMMA EventFields ==
    ASSUME NEW e \in Event
    PROVE  e.line \in Lines /\ e.time \in 0..MaxTime /\ AddressOf[e.line] \in Addresses
  BY Constants DEF Event

LEMMA EventsAreFinite == IsFiniteSet(Event)
<1> DEFINE Pairs == Lines \X (0..MaxTime)
<1> DEFINE event == [p \in Pairs |-> [line |-> p[1], time |-> p[2]]]
<1>1. IsFiniteSet(Pairs)
  <2>1. IsFiniteSet(0..MaxTime)
    BY Constants, FS_Interval
  <2> QED BY <2>1, IngestAssumption, FS_Product
<1>2. event \in Surjection(Pairs, Event)
  <2>1. event \in [Pairs -> Event]
    BY DEF Event
  <2>2. ASSUME NEW e \in Event PROVE \E p \in Pairs : event[p] = e
    <3>1. <<e.line, e.time>> \in Pairs /\ event[<<e.line, e.time>>] = e
      BY DEF Event
    <3> QED BY <3>1
  <2> QED BY <2>1, <2>2 DEF Surjection
<1> QED BY <1>1, <1>2, FS_Surjection

Elements(s) == {s[i] : i \in DOMAIN s}

LEMMA AppendElements ==
    ASSUME NEW s \in Seq(Event), NEW e \in Event
    PROVE  /\ Append(s, e) \in Seq(Event)
           /\ Elements(Append(s, e)) = Elements(s) \cup {e}
<1>1. /\ Append(s, e) \in Seq(Event) /\ Len(Append(s, e)) = Len(s) + 1
      /\ \A i \in 1..Len(s) : Append(s, e)[i] = s[i]
      /\ Append(s, e)[Len(s) + 1] = e
  BY AppendProperties
<1>2. DOMAIN s = 1..Len(s) /\ DOMAIN Append(s, e) = 1..(Len(s) + 1) /\ Len(s) \in Nat
  BY <1>1, LenProperties
<1>3. ASSUME NEW x PROVE x \in Elements(Append(s, e)) <=> x \in Elements(s) \cup {e}
  BY <1>1, <1>2 DEF Elements
<1> QED BY <1>1, <1>3

LEMMA HeadElements ==
    ASSUME NEW s \in Seq(Event), s # <<>>
    PROVE  /\ Head(s) \in Event /\ Tail(s) \in Seq(Event)
           /\ Elements(s) = Elements(Tail(s)) \cup {Head(s)}
<1>1. /\ Head(s) \in Event /\ Tail(s) \in Seq(Event) /\ Len(Tail(s)) = Len(s) - 1
      /\ \A i \in 1..Len(Tail(s)) : Tail(s)[i] = s[i + 1]
  BY HeadTailProperties
<1>2. /\ DOMAIN s = 1..Len(s) /\ DOMAIN Tail(s) = 1..(Len(s) - 1)
      /\ Len(s) \in Nat \ {0} /\ Head(s) = s[1]
  BY <1>1, LenProperties, EmptySeq
<1>3. ASSUME NEW x \in Elements(s) PROVE x \in Elements(Tail(s)) \cup {Head(s)}
  <2>1. PICK i \in 1..Len(s) : x = s[i]
    BY <1>2 DEF Elements
  <2>2. CASE i = 1
    BY <1>2, <2>1, <2>2
  <2>3. CASE i # 1
    <3>1. i - 1 \in 1..Len(Tail(s)) /\ x = Tail(s)[i - 1]
      BY <1>1, <1>2, <2>1, <2>3
    <3> QED BY <1>1, <1>2, <3>1 DEF Elements
  <2> QED BY <2>2, <2>3
<1>4. ASSUME NEW x \in Elements(Tail(s)) \cup {Head(s)} PROVE x \in Elements(s)
  BY <1>1, <1>2 DEF Elements
<1> QED BY <1>1, <1>3, <1>4
(***************************************************************************)
(* Type correctness, in six parts                                          *)
(***************************************************************************)
WorldTypes ==
    /\ now \in 0..MaxTime
    /\ journal \in Seq(Event)
    /\ packets \in Nat
LogTypes ==
    /\ stored \subseteq Event
    /\ profile \in [Addresses -> Profile]
    /\ countedBy \in [Collectors -> SUBSET Event]
ErrorTypes ==
    /\ quarantined \subseteq Event /\ audited \subseteq Event
    /\ deaths \in 0..MaxDeaths
QueueTypes ==
    /\ pc \in [Collectors -> Stages]
    /\ following \subseteq Collectors
    /\ queue \in [Collectors -> Seq(Event)]
    /\ given \in [Collectors -> SUBSET Event]
HandTypes ==
    /\ hand \in [Collectors -> Event \cup {NoEvent}]
    /\ \A c \in Collectors :
          pc[c] \in {"insert", "observe", "record", "audit"} => hand[c] \in Event
CacheTypes ==
    /\ DOMAIN cache = Collectors
    /\ \A c \in Collectors : /\ DOMAIN cache[c] \subseteq Event
                              /\ cache[c] \in [DOMAIN cache[c] -> 0..MaxTime]

Types == WorldTypes /\ LogTypes /\ ErrorTypes /\ QueueTypes /\ HandTypes /\ CacheTypes

LEMMA TypesInit == Init => Types
<1> SUFFICES ASSUME Init PROVE Types
  OBVIOUS
<1> USE Constants DEF Init
<1>1. WorldTypes
  BY EmptySeq DEF WorldTypes
<1>2. LogTypes
  BY DEF LogTypes, NoProfile, Profile, Never
<1>3. ErrorTypes
  BY DEF ErrorTypes
<1>4. QueueTypes
  BY EmptySeq DEF QueueTypes, Stages
<1>5. HandTypes
  BY DEF HandTypes
<1>6. CacheTypes
  BY DEF CacheTypes, NoCache
<1> QED BY <1>1, <1>2, <1>3, <1>4, <1>5, <1>6 DEF Types

LEMMA EventType ==
    ASSUME NEW l \in Lines, WorldTypes
    PROVE  [line |-> l, time |-> now] \in Event
  BY DEF Event, WorldTypes

LEMMA WorldStep ==
    ASSUME WorldTypes, [Next]_vars
    PROVE  WorldTypes'
<1> USE DEF WorldTypes
<1>1. CASE Tick
  BY <1>1, Constants DEF Tick
<1>2. ASSUME NEW l \in AuthLines, Log(l) PROVE WorldTypes'
  BY <1>2, Constants, EventType, AppendProperties DEF Log
<1>3. ASSUME NEW l \in NetLines, Packet(l) PROVE WorldTypes'
  BY <1>3 DEF Packet
<1>4. ASSUME NEW c \in Collectors, Command(c) \/ Step(c) \/ Stop(c) \/ Die(c)
      PROVE  UNCHANGED worldVars
  BY <1>4 DEF Command, Follow, FollowSince, CollectOnce, CollectFixture, Start, Stop, Die,
     Leave, Step, Read, Insert, Observe, Record, Audit
<1>5. CASE UNCHANGED vars
  BY <1>5
<1> QED BY <1>1, <1>2, <1>3, <1>4, <1>5 DEF Next

(* An event changes only the profile of its address, to another profile. *)
LEMMA ObservedType ==
    ASSUME NEW p \in Profile, NEW e \in Event
    PROVE  Observed(p, e) \in Profile
  BY EventFields, Constants DEF Profile, Observed, Later, Never

LEMMA LogStep ==
    ASSUME LogTypes, HandTypes, [Next]_vars
    PROVE  LogTypes'
<1> USE DEF LogTypes, HandTypes
<1>1. ASSUME NEW c \in Collectors, Insert(c) PROVE LogTypes'
  BY <1>1 DEF Insert
<1>2. ASSUME NEW c \in Collectors, Observe(c) PROVE LogTypes'
  <2>1. hand[c] \in Event /\ AddressOf[hand[c].line] \in Addresses
    BY <1>2, EventFields DEF Observe
  <2>2. Observed(profile[AddressOf[hand[c].line]], hand[c]) \in Profile
    BY <2>1, ObservedType
  <2>3. profile' \in [Addresses -> Profile]
    BY <1>2, <2>1, <2>2 DEF Observe
  <2>4. countedBy' \in [Collectors -> SUBSET Event] /\ stored' = stored
    BY <1>2, <2>1 DEF Observe
  <2> QED BY <2>3, <2>4
<1>3. ASSUME NEW c \in Collectors,
             Command(c) \/ Read(c) \/ Record(c) \/ Audit(c) \/ Stop(c) \/ Die(c)
      PROVE  UNCHANGED logVars
  BY <1>3 DEF Command, Follow, FollowSince, CollectOnce, CollectFixture, Start, Stop, Die,
     Leave, Read, Record, Audit
<1>4. CASE Tick \/ (\E l \in AuthLines : Log(l)) \/ (\E l \in NetLines : Packet(l))
  BY <1>4 DEF Tick, Log, Packet
<1>5. CASE UNCHANGED vars
  BY <1>5
<1> QED BY <1>1, <1>2, <1>3, <1>4, <1>5 DEF Next, Step

LEMMA ErrorStep ==
    ASSUME ErrorTypes, HandTypes, [Next]_vars
    PROVE  ErrorTypes'
<1> USE DEF ErrorTypes, HandTypes
<1>1. ASSUME NEW c \in Collectors, Record(c) \/ Audit(c) PROVE ErrorTypes'
  BY <1>1 DEF Record, Audit
<1>2. ASSUME NEW c \in Collectors, Die(c) PROVE ErrorTypes'
  BY <1>2, Constants DEF Die, Leave
<1>3. ASSUME NEW c \in Collectors,
             Command(c) \/ Read(c) \/ Insert(c) \/ Observe(c) \/ Stop(c)
      PROVE  UNCHANGED <<errorVars, deaths>>
  BY <1>3 DEF Command, Follow, FollowSince, CollectOnce, CollectFixture, Start, Stop,
     Leave, Read, Insert, Observe
<1>4. CASE Tick \/ (\E l \in AuthLines : Log(l)) \/ (\E l \in NetLines : Packet(l))
  BY <1>4 DEF Tick, Log, Packet
<1>5. CASE UNCHANGED vars
  BY <1>5
<1> QED BY <1>1, <1>2, <1>3, <1>4, <1>5 DEF Next, Step
LEMMA ElementsType ==
    ASSUME NEW s \in Seq(Event)
    PROVE  Elements(s) \subseteq Event
  BY LenProperties DEF Elements

LEMMA SinceType ==
    ASSUME WorldTypes, NEW k \in 1..(Len(journal) + 1)
    PROVE  Since(k) \in Seq(Event)
<1>1. Len(journal) \in Nat /\ \A i \in 1..Len(journal) : journal[i] \in Event
  BY LenProperties DEF WorldTypes
<1>2. \A i \in k..Len(journal) : journal[i] \in Event
  BY <1>1
<1>3. k \in Int /\ Len(journal) \in Int
  BY <1>1
<1> QED BY <1>2, <1>3, SubSeqProperties DEF Since

(* A collector starts on some lines, or none. *)
LEMMA StartsOn ==
    ASSUME WorldTypes, NEW c \in Collectors, Command(c)
    PROVE  \E s \in Seq(Event) : Start(c, s)
<1>1. CASE Follow(c)
  BY <1>1, EmptySeq DEF Follow
<1>2. CASE FollowSince(c) \/ CollectOnce(c)
  <2>1. Len(journal) \in Nat
    BY LenProperties DEF WorldTypes
  <2>2. PICK k \in 1..Len(journal) : Start(c, Since(k))
    BY <1>2 DEF FollowSince, CollectOnce
  <2> QED BY <2>1, <2>2, SinceType
<1>3. CASE CollectFixture(c)
  BY <1>3, Constants DEF CollectFixture
<1> QED BY <1>1, <1>2, <1>3 DEF Command

LEMMA DeliverType ==
    ASSUME QueueTypes, NEW e \in Event, NEW C, Deliver(e, C)
    PROVE  /\ queue' \in [Collectors -> Seq(Event)]
           /\ given' \in [Collectors -> SUBSET Event]
           /\ following' \subseteq Collectors
<1> USE DEF QueueTypes, Deliver
<1>1. \A c \in Collectors : Append(queue[c], e) \in Seq(Event)
  BY AppendElements
<1> QED BY <1>1

LEMMA QueueStep ==
    ASSUME WorldTypes, QueueTypes, [Next]_vars
    PROVE  QueueTypes'
<1> USE DEF QueueTypes
<1>1. CASE Tick
  BY <1>1 DEF Tick
<1>2. ASSUME NEW l \in AuthLines, Log(l) PROVE QueueTypes'
  BY <1>2, EventType, DeliverType, Constants DEF Log
<1>3. ASSUME NEW l \in NetLines, Packet(l) PROVE QueueTypes'
  BY <1>3, EventType, DeliverType, Constants DEF Packet
<1>4. ASSUME NEW c \in Collectors, Command(c) PROVE QueueTypes'
  <2>1. PICK s \in Seq(Event) : Start(c, s)
    BY <1>4, StartsOn
  <2>2. following' \subseteq Collectors
    BY <1>4 DEF Command, Follow, FollowSince, CollectOnce, CollectFixture
  <2>3. {s[i] : i \in DOMAIN s} \subseteq Event
    BY ElementsType DEF Elements
  <2> QED BY <2>1, <2>2, <2>3 DEF Start, Stages
<1>5. ASSUME NEW c \in Collectors, Stop(c) \/ Die(c) PROVE QueueTypes'
  <2>1. <<>> \in Seq(Event) /\ "off" \in Stages
    BY EmptySeq DEF Stages
  <2>2. Leave(c)
    BY <1>5 DEF Stop, Die
  <2> QED BY <2>1, <2>2 DEF Leave
<1>6. ASSUME NEW c \in Collectors, Read(c) PROVE QueueTypes'
  BY <1>6, HeadElements DEF Read, Stages
<1>7. ASSUME NEW c \in Collectors, Insert(c) \/ Observe(c) \/ Record(c) \/ Audit(c)
      PROVE  QueueTypes'
  BY <1>7 DEF Insert, Observe, Record, Audit, Return, Stages
<1>8. CASE UNCHANGED vars
  BY <1>8
<1> QED BY <1>1, <1>2, <1>3, <1>4, <1>5, <1>6, <1>7, <1>8 DEF Next, Step

LEMMA HandStep ==
    ASSUME QueueTypes, HandTypes, [Next]_vars
    PROVE  HandTypes'
<1> USE DEF QueueTypes, HandTypes
<1>1. CASE Tick \/ (\E l \in AuthLines : Log(l)) \/ (\E l \in NetLines : Packet(l))
  BY <1>1 DEF Tick, Log, Packet
<1>2. ASSUME NEW c \in Collectors, Command(c) PROVE HandTypes'
  BY <1>2 DEF Command, Follow, FollowSince, CollectOnce, CollectFixture, Start
<1>3. ASSUME NEW c \in Collectors, Stop(c) \/ Die(c) PROVE HandTypes'
  BY <1>3 DEF Stop, Die, Leave
<1>4. ASSUME NEW c \in Collectors, Read(c) PROVE HandTypes'
  <2>1. Head(queue[c]) \in Event
    BY <1>4, HeadElements DEF Read
  <2>2. \/ UNCHANGED <<pc, hand>>
        \/ /\ pc' \in {[pc EXCEPT ![c] = p] : p \in {"record", "insert"}}
           /\ hand' = [hand EXCEPT ![c] = Head(queue[c])]
    BY <1>4 DEF Read
  <2> QED BY <2>1, <2>2
<1>5. ASSUME NEW c \in Collectors, Insert(c) \/ Observe(c) \/ Record(c) \/ Audit(c)
      PROVE  HandTypes'
  BY <1>5 DEF Insert, Observe, Record, Audit, Return
<1>6. CASE UNCHANGED vars
  BY <1>6
<1> QED BY <1>1, <1>2, <1>3, <1>4, <1>5, <1>6 DEF Next, Step

LEMMA RememberType ==
    ASSUME WorldTypes, CacheTypes, NEW c \in Collectors, NEW e \in Event, Remember(c, e)
    PROVE  CacheTypes'
<1> DEFINE S == Fresh(c) \cup {e}
<1> DEFINE new == [f \in S |-> IF f = e THEN now ELSE cache[c][f]]
<1>1. Fresh(c) \subseteq DOMAIN cache[c] /\ S \subseteq Event
  BY DEF CacheTypes, Fresh
<1>2. \A f \in Fresh(c) : cache[c][f] \in 0..MaxTime
  BY <1>1 DEF CacheTypes
<1>3. new \in [S -> 0..MaxTime] /\ DOMAIN new = S
  BY <1>2 DEF WorldTypes
<1>4. cache' = [cache EXCEPT ![c] = new]
  BY DEF Remember
<1> HIDE DEF new, S
<1> QED BY <1>1, <1>3, <1>4 DEF CacheTypes

LEMMA CacheStep ==
    ASSUME WorldTypes, QueueTypes, CacheTypes, [Next]_vars
    PROVE  CacheTypes'
<1>1. ASSUME NEW c \in Collectors, Stop(c) \/ Die(c) PROVE CacheTypes'
  <2>1. DOMAIN NoCache = {} /\ NoCache \in [{} -> 0..MaxTime]
    BY DEF NoCache
  <2>2. cache' = [cache EXCEPT ![c] = NoCache]
    BY <1>1 DEF Stop, Die, Leave
  <2> QED BY <2>1, <2>2 DEF CacheTypes
<1>2. ASSUME NEW c \in Collectors, Read(c) PROVE CacheTypes'
  <2>1. Head(queue[c]) \in Event
    BY <1>2, HeadElements DEF Read, QueueTypes
  <2>2. UNCHANGED cache \/ Remember(c, Head(queue[c]))
    BY <1>2 DEF Read
  <2>3. CASE UNCHANGED cache
    BY <2>3 DEF CacheTypes
  <2> QED BY <2>1, <2>2, <2>3, RememberType
<1>3. ASSUME NEW c \in Collectors,
             Command(c) \/ Insert(c) \/ Observe(c) \/ Record(c) \/ Audit(c)
      PROVE  UNCHANGED cache
  BY <1>3 DEF Command, Follow, FollowSince, CollectOnce, CollectFixture, Start,
     Insert, Observe, Record, Audit
<1>4. CASE Tick \/ (\E l \in AuthLines : Log(l)) \/ (\E l \in NetLines : Packet(l))
  BY <1>4 DEF Tick, Log, Packet, CacheTypes
<1>5. CASE UNCHANGED vars
  BY <1>5 DEF CacheTypes
<1> QED BY <1>1, <1>2, <1>3, <1>4, <1>5 DEF Next, Step, CacheTypes

LEMMA TypesStep == Types /\ [Next]_vars => Types'
  BY WorldStep, LogStep, ErrorStep, QueueStep, HandStep, CacheStep DEF Types

LEMMA TypesInvariance == Spec => []Types
  BY TypesInit, TypesStep, PTL DEF Spec

LEMMA TypesSuffice == Types => TypeOK
  BY DEF Types, TypeOK, WorldTypes, LogTypes, ErrorTypes, QueueTypes, HandTypes, CacheTypes

\* Every variable of the pipeline keeps its type, for any collectors and lines.
THEOREM IngestTypeCorrect == Spec => []TypeOK
  BY TypesInvariance, TypesSuffice, PTL
(***************************************************************************)
(* Where an event is: an event somebody is about to count is in the table, *)
(* is not counted, and is nobody else's; the cache of a collector knows    *)
(* nothing but what is in the table, or on its way into it.                *)
(***************************************************************************)
HandFits ==
    \A c \in Collectors :
        /\ pc[c] \in {"off", "read"} => hand[c] = NoEvent
        /\ pc[c] = "observe" => hand[c] \in stored /\ hand[c] \notin Counted
        /\ pc[c] = "audit" => hand[c] \in quarantined
CountsAlone ==
    \A c, d \in Collectors :
        pc[c] = "observe" /\ pc[d] = "observe" /\ hand[c] = hand[d] => c = d
CountedAreStored == Counted \subseteq stored
CachedAreStored ==
    \A c \in Collectors : \A e \in DOMAIN cache[c] :
        e \in stored \/ (pc[c] = "insert" /\ e = hand[c])

Places == HandFits /\ CountsAlone /\ CountedAreStored /\ CachedAreStored

LEMMA PlacesInit == Init => Places
  BY DEF Init, Places, HandFits, CountsAlone, CountedAreStored, CachedAreStored, Counted, NoCache

LEMMA SameCounted ==
    ASSUME UNCHANGED countedBy
    PROVE  Counted' = Counted
  BY DEF Counted

LEMMA MoreCounted ==
    ASSUME LogTypes, NEW c \in Collectors, NEW e,
           countedBy' = [countedBy EXCEPT ![c] = @ \cup {e}]
    PROVE  Counted' = Counted \cup {e}
<1>1. \A d \in Collectors : countedBy'[d] = countedBy[d] \cup (IF d = c THEN {e} ELSE {})
  BY DEF LogTypes
<1>2. ASSUME NEW x PROVE x \in Counted' <=> x \in Counted \cup {e}
  BY <1>1 DEF Counted
<1> QED BY <1>2

(* What each step of process_line does to the cache, the hand and the tables. *)
LEMMA ReadCases ==
    ASSUME Types, NEW c \in Collectors, Read(c)
    PROVE  \E e \in Event :
              /\ e = Head(queue[c]) /\ pc[c] = "read"
              /\ \/ /\ pc' = [pc EXCEPT ![c] = "record"]
                    /\ hand' = [hand EXCEPT ![c] = e]
                    /\ UNCHANGED cache
                 \/ /\ e \in DOMAIN cache[c]
                    /\ UNCHANGED <<pc, hand>>
                    /\ Remember(c, e)
                 \/ /\ pc' = [pc EXCEPT ![c] = "insert"]
                    /\ hand' = [hand EXCEPT ![c] = e]
                    /\ Remember(c, e)
  BY HeadElements DEF Read, Types, QueueTypes, Duplicate, Fresh

LEMMA RememberDomain ==
    ASSUME CacheTypes, NEW c \in Collectors, NEW e, Remember(c, e)
    PROVE  /\ DOMAIN cache'[c] \subseteq DOMAIN cache[c] \cup {e}
           /\ \A d \in Collectors \ {c} : cache'[d] = cache[d]
  BY DEF CacheTypes, Remember, Fresh

LEMMA PlacesStep ==
    ASSUME Types, Places, [Next]_vars
    PROVE  Places'
<1> USE DEF Places, HandFits, CountsAlone, CountedAreStored, CachedAreStored
<1>t. HandTypes /\ QueueTypes /\ LogTypes /\ CacheTypes
  BY DEF Types
<1>1. ASSUME UNCHANGED <<logVars, errorVars, pc, hand, cache>> PROVE Places'
  BY <1>1, SameCounted
<1>2. ASSUME NEW c \in Collectors, Command(c) PROVE Places'
  <2>1. /\ pc[c] = "off" /\ pc' = [pc EXCEPT ![c] = "read"]
        /\ UNCHANGED <<logVars, errorVars, hand, cache>>
    BY <1>2 DEF Command, Follow, FollowSince, CollectOnce, CollectFixture, Start
  <2> QED BY <1>t, <2>1, SameCounted DEF QueueTypes
<1>3. ASSUME NEW c \in Collectors, Stop(c) \/ Die(c) PROVE Places'
  <2>1. Leave(c) /\ DOMAIN NoCache = {}
    BY <1>3 DEF Stop, Die, NoCache
  <2> QED BY <1>t, <2>1, SameCounted DEF Leave, QueueTypes, HandTypes, CacheTypes
<1>4. ASSUME NEW c \in Collectors, Read(c) PROVE Places'
  <2>1. UNCHANGED <<logVars, errorVars>>
    BY <1>4 DEF Read
  <2>2. PICK e \in Event :
              /\ e = Head(queue[c]) /\ pc[c] = "read"
              /\ \/ /\ pc' = [pc EXCEPT ![c] = "record"]
                    /\ hand' = [hand EXCEPT ![c] = e]
                    /\ UNCHANGED cache
                 \/ /\ e \in DOMAIN cache[c]
                    /\ UNCHANGED <<pc, hand>>
                    /\ Remember(c, e)
                 \/ /\ pc' = [pc EXCEPT ![c] = "insert"]
                    /\ hand' = [hand EXCEPT ![c] = e]
                    /\ Remember(c, e)
    BY <1>4, ReadCases
  <2>3. CASE pc' = [pc EXCEPT ![c] = "record"] /\ hand' = [hand EXCEPT ![c] = e]
             /\ UNCHANGED cache
    BY <1>t, <2>1, <2>2, <2>3, SameCounted DEF QueueTypes, HandTypes
  <2>4. CASE e \in DOMAIN cache[c] /\ UNCHANGED <<pc, hand>> /\ Remember(c, e)
    BY <1>t, <2>1, <2>2, <2>4, SameCounted, RememberDomain
  <2>5. CASE pc' = [pc EXCEPT ![c] = "insert"] /\ hand' = [hand EXCEPT ![c] = e]
             /\ Remember(c, e)
    <3>1. HandFits' /\ CountsAlone' /\ CountedAreStored'
      BY <1>t, <2>1, <2>2, <2>5, SameCounted DEF QueueTypes, HandTypes
    <3>2. CachedAreStored'
      BY <1>t, <2>1, <2>2, <2>5, RememberDomain DEF QueueTypes, HandTypes
    <3> QED BY <3>1, <3>2
  <2> QED BY <2>2, <2>3, <2>4, <2>5
<1>5. ASSUME NEW c \in Collectors, Insert(c) PROVE Places'
  <2>1. Counted' = Counted /\ UNCHANGED <<quarantined, cache>> /\ pc[c] = "insert"
    BY <1>5, SameCounted DEF Insert
  <2>2. CASE hand[c] \in stored /\ Return(c) /\ UNCHANGED stored
    BY <1>t, <2>1, <2>2 DEF Return, QueueTypes, HandTypes
  <2>3. CASE /\ hand[c] \notin stored /\ stored' = stored \cup {hand[c]}
             /\ pc' = [pc EXCEPT ![c] = "observe"] /\ UNCHANGED hand
    BY <1>t, <2>1, <2>3 DEF QueueTypes, HandTypes
  <2> QED BY <1>5, <2>2, <2>3 DEF Insert
<1>6. ASSUME NEW c \in Collectors, Observe(c) PROVE Places'
  <2>1. /\ Counted' = Counted \cup {hand[c]} /\ pc[c] = "observe"
        /\ UNCHANGED <<stored, quarantined, cache>> /\ Return(c)
    BY <1>6, <1>t, MoreCounted DEF Observe
  <2> QED BY <1>t, <2>1 DEF Return, QueueTypes, HandTypes
<1>7. ASSUME NEW c \in Collectors, Record(c) PROVE Places'
  BY <1>t, <1>7, SameCounted DEF Record, QueueTypes, HandTypes
<1>8. ASSUME NEW c \in Collectors, Audit(c) PROVE Places'
  BY <1>t, <1>8, SameCounted DEF Audit, Return, QueueTypes, HandTypes
<1>9. CASE Tick \/ (\E l \in AuthLines : Log(l)) \/ (\E l \in NetLines : Packet(l))
           \/ UNCHANGED vars
  BY <1>1, <1>9 DEF Tick, Log, Packet
<1> QED BY <1>2, <1>3, <1>4, <1>5, <1>6, <1>7, <1>8, <1>9 DEF Next, Step
LEMMA PlacesInvariance == Spec => [](Types /\ Places)
  BY TypesInit, TypesStep, PlacesInit, PlacesStep, PTL DEF Spec

(***************************************************************************)
(* No line is skipped                                                      *)
(***************************************************************************)
LEMMA SkippedInit == Init => NothingSkipped
  BY DEF Init, NothingSkipped

LEMMA SkippedStep ==
    ASSUME Types, Places, NothingSkipped, [Next]_vars
    PROVE  NothingSkipped'
<1> USE DEF NothingSkipped
<1>t. HandTypes /\ QueueTypes /\ WorldTypes
  BY DEF Types
<1>q. \A c : InQueue(c) = Elements(queue[c]) /\ InQueue(c)' = Elements(queue'[c])
  BY DEF InQueue, Elements
<1>1. ASSUME NEW e \in Event, NEW C, Deliver(e, C),
             UNCHANGED <<stored, quarantined, hand>>
      PROVE  NothingSkipped'
  <2>1. \A c \in Collectors :
            \/ queue'[c] = queue[c] /\ given'[c] = given[c]
            \/ queue'[c] = Append(queue[c], e) /\ given'[c] = given[c] \cup {e}
    BY <1>t, <1>1 DEF Deliver, QueueTypes
  <2>2. \A c \in Collectors : Elements(Append(queue[c], e)) = Elements(queue[c]) \cup {e}
    BY <1>t, AppendElements DEF QueueTypes
  <2>3. ASSUME NEW c \in Collectors
        PROVE  given'[c] \subseteq stored \cup quarantined \cup InQueue(c)' \cup {hand[c]}
    <3>1. given[c] \subseteq stored \cup quarantined \cup Elements(queue[c]) \cup {hand[c]}
      BY <1>q
    <3>2. CASE queue'[c] = queue[c] /\ given'[c] = given[c]
      BY <1>q, <3>1, <3>2
    <3>3. CASE queue'[c] = Append(queue[c], e) /\ given'[c] = given[c] \cup {e}
      <4>1. InQueue(c)' = Elements(queue[c]) \cup {e}
        BY <1>q, <2>2, <3>3
      <4> QED BY <3>1, <3>3, <4>1
    <3> QED BY <2>1, <3>2, <3>3
  <2> QED BY <1>1, <2>3
<1>2. CASE Tick
  BY <1>2, <1>q DEF Tick
<1>3. ASSUME NEW l \in AuthLines, Log(l) PROVE NothingSkipped'
  BY <1>1, <1>3, <1>t, EventType, Constants DEF Log
<1>4. ASSUME NEW l \in NetLines, Packet(l) PROVE NothingSkipped'
  BY <1>1, <1>4, <1>t, EventType, Constants DEF Packet
<1>5. ASSUME NEW c \in Collectors, Command(c) PROVE NothingSkipped'
  <2>1. PICK s \in Seq(Event) : Start(c, s)
    BY <1>5, <1>t, StartsOn
  <2>2. /\ \A d \in Collectors \ {c} : queue'[d] = queue[d] /\ given'[d] = given[d]
        /\ queue'[c] = s /\ given'[c] = Elements(s)
        /\ UNCHANGED <<stored, quarantined, hand>>
    BY <1>t, <2>1 DEF Start, QueueTypes, Elements
  <2> QED BY <1>q, <2>2
<1>6. ASSUME NEW c \in Collectors, Stop(c) \/ Die(c) PROVE NothingSkipped'
  <2>1. /\ \A d \in Collectors \ {c} :
              queue'[d] = queue[d] /\ given'[d] = given[d] /\ hand'[d] = hand[d]
        /\ given'[c] = {}
        /\ UNCHANGED <<stored, quarantined>>
    BY <1>6, <1>t DEF Stop, Die, Leave, QueueTypes, HandTypes
  <2> QED BY <1>q, <2>1
<1>7. ASSUME NEW c \in Collectors, Read(c) PROVE NothingSkipped'
  <2>1. PICK e \in Event :
              /\ e = Head(queue[c]) /\ pc[c] = "read"
              /\ \/ hand' = [hand EXCEPT ![c] = e]
                 \/ e \in DOMAIN cache[c] /\ UNCHANGED hand
    BY <1>7, ReadCases
  <2>2. /\ queue[c] # <<>> /\ queue' = [queue EXCEPT ![c] = Tail(@)]
        /\ UNCHANGED <<stored, quarantined, given>>
    BY <1>7 DEF Read
  <2>3. /\ \A d \in Collectors \ {c} : queue'[d] = queue[d] /\ hand'[d] = hand[d]
        /\ Elements(queue[c]) = Elements(queue'[c]) \cup {e}
    BY <1>t, <2>1, <2>2, HeadElements DEF QueueTypes, HandTypes
  <2>4. given[c] \subseteq stored \cup quarantined \cup Elements(queue'[c]) \cup {e}
    BY <1>t, <1>q, <2>1, <2>3, Constants DEF Places, HandFits, QueueTypes
  <2>5. CASE hand' = [hand EXCEPT ![c] = e]
    BY <1>t, <1>q, <2>2, <2>3, <2>4, <2>5 DEF HandTypes
  <2>6. CASE e \in DOMAIN cache[c] /\ UNCHANGED hand
    <3>1. e \in stored
      BY <2>1, <2>6 DEF Places, CachedAreStored
    <3> QED BY <1>q, <2>2, <2>3, <2>4, <2>6, <3>1
  <2> QED BY <2>1, <2>5, <2>6
<1>8. ASSUME NEW c \in Collectors, Insert(c) \/ Observe(c) \/ Record(c) \/ Audit(c)
      PROVE  NothingSkipped'
  <2>1. /\ UNCHANGED <<queue, given>>
        /\ stored \subseteq stored' /\ quarantined \subseteq quarantined'
        /\ \A d \in Collectors \ {c} : hand'[d] = hand[d]
    BY <1>8, <1>t DEF Insert, Observe, Record, Audit, Return, HandTypes
  <2>2. hand'[c] = hand[c] \/ hand[c] \in stored' \cup quarantined'
    BY <1>8 DEF Insert, Observe, Record, Audit, Places, HandFits
  <2> QED BY <1>q, <2>1, <2>2
<1>9. CASE UNCHANGED vars
  BY <1>9, <1>q
<1> QED BY <1>2, <1>3, <1>4, <1>5, <1>6, <1>7, <1>8, <1>9 DEF Next, Step

\* A collector leaves none of its lines out: each is stored, quarantined, in its hand
\* or still to be read, whatever its cache has marked before.
THEOREM NoLineIsSkipped == Spec => []NothingSkipped
<1>1. Init => Types /\ Places /\ NothingSkipped
  BY TypesInit, PlacesInit, SkippedInit
<1>2. Types /\ Places /\ NothingSkipped /\ [Next]_vars
          => (Types /\ Places /\ NothingSkipped)'
  BY TypesStep, PlacesStep, SkippedStep
<1> QED BY <1>1, <1>2, PTL DEF Spec

(***************************************************************************)
(* The tables implement the event log                                      *)
(***************************************************************************)
LEMMA LogInit == Init => Tables!Init
<1> SUFFICES ASSUME Init PROVE Tables!Init
  OBVIOUS
<1>1. stored = {} /\ Counted = {}
  BY DEF Init, Counted
<1>2. \A a \in Addresses : profile[a].failed = 0 /\ profile[a].succeeded = 0
  BY DEF Init, NoProfile
<1> QED BY <1>1, <1>2 DEF Tables!Init

LEMMA LogRefines ==
    ASSUME Types, Places, [Next]_vars
    PROVE  [Tables!Next]_(Tables!vars)
<1> DEFINE failures == [a \in Addresses |-> profile[a].failed]
           successes == [a \in Addresses |-> profile[a].succeeded]
<1>t. HandTypes /\ LogTypes
  BY DEF Types
<1>1. ASSUME UNCHANGED logVars PROVE UNCHANGED Tables!vars
  BY <1>1, SameCounted DEF Tables!vars
<1>2. ASSUME NEW c \in Collectors, Insert(c) PROVE [Tables!Next]_(Tables!vars)
  <2>1. Counted' = Counted /\ UNCHANGED profile
    BY <1>2, SameCounted DEF Insert
  <2>2. CASE UNCHANGED stored
    BY <2>1, <2>2 DEF Tables!vars
  <2>3. CASE hand[c] \notin stored /\ stored' = stored \cup {hand[c]}
    <3>1. hand[c] \in Event
      BY <1>2, <1>t DEF Insert, HandTypes
    <3>2. Tables!Store(hand[c])
      BY <2>1, <2>3 DEF Tables!Store
    <3> QED BY <3>1, <3>2 DEF Tables!Next
  <2> QED BY <1>2, <2>2, <2>3 DEF Insert
<1>3. ASSUME NEW c \in Collectors, Observe(c) PROVE [Tables!Next]_(Tables!vars)
  <2>e. PICK e \in Event : e = hand[c]
    BY <1>3, <1>t DEF Observe, HandTypes
  <2> DEFINE a == AddressOf[e.line]
  <2>1. e \in stored /\ e \notin Counted /\ a \in Addresses
    BY <1>3, <2>e, EventFields DEF Observe, Places, HandFits
  <2>2. Counted' = Counted \cup {e} /\ UNCHANGED stored
    BY <1>3, <1>t, <2>e, MoreCounted DEF Observe
  <2>3. /\ profile' = [profile EXCEPT ![a] = Observed(profile[a], e)]
        /\ profile \in [Addresses -> Profile]
    BY <1>3, <1>t, <2>e DEF Observe, LogTypes
  <2>4. /\ profile[a].failed \in Nat /\ profile[a].succeeded \in Nat
        /\ Observed(profile[a], e).failed
              = profile[a].failed + (IF e \in FailedEvents THEN 1 ELSE 0)
        /\ Observed(profile[a], e).succeeded
              = profile[a].succeeded + (IF e \in Accepted THEN 1 ELSE 0)
    BY <2>1, <2>3 DEF Observed, Profile
  <2>5. [x \in Event |-> AddressOf[x.line]][e] = a
    BY <2>1
  <2>f. /\ \A b \in Addresses \ {a} : profile'[b] = profile[b]
        /\ profile'[a].failed = profile[a].failed + (IF e \in FailedEvents THEN 1 ELSE 0)
        /\ profile'[a].succeeded = profile[a].succeeded + (IF e \in Accepted THEN 1 ELSE 0)
    BY <2>1, <2>3, <2>4
  <2> HIDE DEF a
  <2>6. failures' = IF e \in FailedEvents THEN [failures EXCEPT ![a] = @ + 1] ELSE failures
    <3>1. CASE e \in FailedEvents
      BY <2>1, <2>4, <2>f, <3>1
    <3>2. CASE e \notin FailedEvents
      BY <2>1, <2>4, <2>f, <3>2
    <3> QED BY <3>1, <3>2
  <2>7. successes' = IF e \in Accepted THEN [successes EXCEPT ![a] = @ + 1] ELSE successes
    <3>1. CASE e \in Accepted
      BY <2>1, <2>4, <2>f, <3>1
    <3>2. CASE e \notin Accepted
      BY <2>1, <2>4, <2>f, <3>2
    <3> QED BY <3>1, <3>2
  <2>8. Tables!Count(e)
    BY <2>1, <2>2, <2>5, <2>6, <2>7 DEF Tables!Count, Tables!Increase
  <2> QED BY <2>1, <2>8 DEF Tables!Next
<1>4. ASSUME NEW c \in Collectors,
             Command(c) \/ Read(c) \/ Record(c) \/ Audit(c) \/ Stop(c) \/ Die(c)
      PROVE  UNCHANGED logVars
  BY <1>4 DEF Command, Follow, FollowSince, CollectOnce, CollectFixture, Start, Stop, Die,
     Leave, Read, Record, Audit
<1>5. CASE Tick \/ (\E l \in AuthLines : Log(l)) \/ (\E l \in NetLines : Packet(l))
           \/ UNCHANGED vars
  BY <1>1, <1>5 DEF Tick, Log, Packet
<1> QED BY <1>1, <1>2, <1>3, <1>4, <1>5 DEF Next, Step

\* The pipeline implements the event log: an event enters the table once, is counted at
\* most once and after that, and the counters of the profiles move with nothing else.
THEOREM TablesAreALog == Spec => TablesSpec
<1>1. Spec => [][Tables!Next]_(Tables!vars)
  BY PlacesInvariance, LogRefines, PTL DEF Spec
<1> QED BY LogInit, <1>1, PTL DEF Spec, TablesSpec, Tables!Spec
(***************************************************************************)
(* Every lost record is a death                                            *)
(***************************************************************************)
LEMMA Lost ==
    ASSUME Types
    PROVE  /\ Uncounted \subseteq Event /\ Unaudited \subseteq Event
           /\ Cardinality(Uncounted) \in Nat /\ Cardinality(Unaudited) \in Nat
<1>1. Uncounted \subseteq Event /\ Unaudited \subseteq Event
  BY DEF Types, LogTypes, ErrorTypes, Uncounted, Unaudited
<1> QED BY <1>1, EventsAreFinite, FS_Subset, FS_CardinalityType

LEMMA AtMostOneMore ==
    ASSUME NEW S \in SUBSET Event, NEW T, NEW x, T \subseteq S \cup {x}
    PROVE  Cardinality(T) <= Cardinality(S) + 1
<1>1. IsFiniteSet(S) /\ Cardinality(S) \in Nat
  BY EventsAreFinite, FS_Subset, FS_CardinalityType
<1>2. IsFiniteSet(S \cup {x}) /\ Cardinality(S \cup {x}) <= Cardinality(S) + 1
  <2>1. CASE x \in S
    <3>1. S \cup {x} = S
      BY <2>1
    <3>2. IsFiniteSet(S \cup {x}) /\ Cardinality(S \cup {x}) = Cardinality(S)
      BY <1>1, <3>1, Zenon
    <3> QED BY <1>1, <3>2
  <2>2. CASE x \notin S
    <3>1. IsFiniteSet(S \cup {x}) /\ Cardinality(S \cup {x}) = Cardinality(S) + 1
      BY <1>1, <2>2, FS_AddElement
    <3> QED BY <1>1, <3>1
  <2> QED BY <2>1, <2>2
<1>3. Cardinality(T) <= Cardinality(S \cup {x}) /\ IsFiniteSet(T)
  BY <1>2, FS_Subset
<1> QED BY <1>1, <1>2, <1>3, FS_CardinalityType

LEMMA NoMore ==
    ASSUME NEW S \in SUBSET Event, NEW T, T \subseteq S
    PROVE  Cardinality(T) <= Cardinality(S)
  BY EventsAreFinite, FS_Subset

LEMMA LossesInit == Init => OnlyDeathsLoseRecords
<1> SUFFICES ASSUME Init PROVE OnlyDeathsLoseRecords
  OBVIOUS
<1>1. Uncounted = {} /\ Unaudited = {} /\ deaths = 0
  BY DEF Init, Uncounted, Unaudited
<1> QED BY <1>1, FS_EmptySet DEF OnlyDeathsLoseRecords

(* What is neither counted nor audited, nor in the hands of the one who will. *)
LEMMA LostElements ==
    /\ \A x : x \in Uncounted <=>
          /\ x \in stored /\ x \notin Counted
          /\ \A d \in Collectors : pc[d] = "observe" => hand[d] # x
    /\ \A x : x \in Unaudited <=>
          /\ x \in quarantined /\ x \notin audited
          /\ \A d \in Collectors : pc[d] = "audit" => hand[d] # x
  BY DEF Uncounted, Unaudited, InHand

LEMMA LostElementsNext ==
    /\ \A x : x \in Uncounted' <=>
          /\ x \in stored' /\ x \notin Counted'
          /\ \A d \in Collectors : pc'[d] = "observe" => hand'[d] # x
    /\ \A x : x \in Unaudited' <=>
          /\ x \in quarantined' /\ x \notin audited'
          /\ \A d \in Collectors : pc'[d] = "audit" => hand'[d] # x
  BY DEF Uncounted, Unaudited, InHand

LEMMA NoLoss ==
    ASSUME Types, Uncounted' \subseteq Uncounted, Unaudited' \subseteq Unaudited,
           OnlyDeathsLoseRecords, deaths' = deaths, Types'
    PROVE  OnlyDeathsLoseRecords'
<1>1. /\ Cardinality(Uncounted') <= Cardinality(Uncounted)
      /\ Cardinality(Unaudited') <= Cardinality(Unaudited)
  BY Lost, NoMore
<1>2. /\ Cardinality(Uncounted) \in Nat /\ Cardinality(Unaudited) \in Nat
      /\ Cardinality(Uncounted') \in Nat /\ Cardinality(Unaudited') \in Nat
      /\ deaths \in Nat
  <2>1. Cardinality(Uncounted') \in Nat /\ Cardinality(Unaudited') \in Nat
    BY EventsAreFinite, FS_Subset, FS_CardinalityType, Lost
  <2> QED BY <2>1, Lost DEF Types, ErrorTypes
<1> QED BY <1>1, <1>2 DEF OnlyDeathsLoseRecords

LEMMA LossesStep ==
    ASSUME Types, Types', Places, OnlyDeathsLoseRecords, [Next]_vars
    PROVE  OnlyDeathsLoseRecords'
<1>t. HandTypes /\ QueueTypes /\ LogTypes
  BY DEF Types
<1> USE LostElements, LostElementsNext
<1>1. ASSUME UNCHANGED <<logVars, errorVars, deaths, hand>>,
             \A d \in Collectors : \A p \in {"observe", "audit"} :
                 pc'[d] = p <=> pc[d] = p
      PROVE  OnlyDeathsLoseRecords'
  <2>1. Uncounted' \subseteq Uncounted /\ Unaudited' \subseteq Unaudited
    BY <1>1, SameCounted
  <2> QED BY <1>1, <2>1, NoLoss
<1>2. CASE Tick \/ (\E l \in AuthLines : Log(l)) \/ (\E l \in NetLines : Packet(l))
           \/ UNCHANGED vars
  BY <1>1, <1>2 DEF Tick, Log, Packet
<1>3. ASSUME NEW c \in Collectors, Command(c) PROVE OnlyDeathsLoseRecords'
  <2>1. /\ pc[c] = "off" /\ pc' = [pc EXCEPT ![c] = "read"]
        /\ UNCHANGED <<logVars, errorVars, deaths, hand>>
    BY <1>3 DEF Command, Follow, FollowSince, CollectOnce, CollectFixture, Start
  <2> QED BY <1>1, <1>t, <2>1 DEF QueueTypes
<1>4. ASSUME NEW c \in Collectors, Leave(c), deaths' = deaths, pc[c] = "read"
      PROVE  OnlyDeathsLoseRecords'
  <2>1. Uncounted' \subseteq Uncounted /\ Unaudited' \subseteq Unaudited
    BY <1>4, <1>t, SameCounted DEF Leave, QueueTypes, HandTypes
  <2> QED BY <1>4, <2>1, NoLoss
<1>5. ASSUME NEW c \in Collectors, Die(c) PROVE OnlyDeathsLoseRecords'
  <2>1. deaths' = deaths + 1 /\ Leave(c)
    BY <1>5 DEF Die
  <2>2. \A d \in Collectors \ {c} : pc'[d] = pc[d] /\ hand'[d] = hand[d]
    BY <2>1, <1>t DEF Leave, QueueTypes, HandTypes
  <2>3. Counted' = Counted /\ UNCHANGED <<stored, quarantined, audited>>
    BY <2>1, SameCounted DEF Leave
  <2>4. \/ Uncounted' \subseteq Uncounted \cup {hand[c]} /\ Unaudited' \subseteq Unaudited
        \/ Uncounted' \subseteq Uncounted /\ Unaudited' \subseteq Unaudited \cup {hand[c]}
    <3>1. CASE pc[c] = "observe"
      BY <2>2, <2>3, <3>1
    <3>2. CASE pc[c] # "observe"
      BY <2>2, <2>3, <3>2
    <3> QED BY <3>1, <3>2
  <2>5. Cardinality(Uncounted') + Cardinality(Unaudited')
            <= Cardinality(Uncounted) + Cardinality(Unaudited) + 1
    <3>1. /\ Cardinality(Uncounted') \in Nat /\ Cardinality(Unaudited') \in Nat
          /\ Cardinality(Uncounted) \in Nat /\ Cardinality(Unaudited) \in Nat
          /\ Uncounted \in SUBSET Event /\ Unaudited \in SUBSET Event
      <4>1. Uncounted' \subseteq Event /\ Unaudited' \subseteq Event
        BY DEF Types, LogTypes, ErrorTypes
      <4> QED BY <4>1, Lost, EventsAreFinite, FS_Subset, FS_CardinalityType
    <3>2. CASE Uncounted' \subseteq Uncounted \cup {hand[c]} /\ Unaudited' \subseteq Unaudited
      <4>1. Cardinality(Uncounted') <= Cardinality(Uncounted) + 1
        BY <3>1, <3>2, AtMostOneMore
      <4>2. Cardinality(Unaudited') <= Cardinality(Unaudited)
        BY <3>1, <3>2, NoMore
      <4> QED BY <3>1, <4>1, <4>2
    <3>3. CASE Uncounted' \subseteq Uncounted /\ Unaudited' \subseteq Unaudited \cup {hand[c]}
      <4>1. Cardinality(Uncounted') <= Cardinality(Uncounted)
        BY <3>1, <3>3, NoMore
      <4>2. Cardinality(Unaudited') <= Cardinality(Unaudited) + 1
        BY <3>1, <3>3, AtMostOneMore
      <4> QED BY <3>1, <4>1, <4>2
    <3> QED BY <2>4, <3>2, <3>3
  <2>6. Cardinality(Uncounted) + Cardinality(Unaudited) <= deaths
    BY DEF OnlyDeathsLoseRecords
  <2>7. /\ Cardinality(Uncounted') \in Nat /\ Cardinality(Unaudited') \in Nat
        /\ Cardinality(Uncounted) \in Nat /\ Cardinality(Unaudited) \in Nat
        /\ deaths \in Nat
    <3>1. Uncounted' \subseteq Event /\ Unaudited' \subseteq Event
      BY DEF Types, LogTypes, ErrorTypes
    <3> QED
      BY <3>1, Lost, EventsAreFinite, FS_Subset, FS_CardinalityType DEF Types, ErrorTypes
  <2>8. Cardinality(Uncounted') + Cardinality(Unaudited') <= deaths'
    BY <2>1, <2>5, <2>6, <2>7
  <2> QED BY <2>8 DEF OnlyDeathsLoseRecords
<1>6. ASSUME NEW c \in Collectors, Read(c) PROVE OnlyDeathsLoseRecords'
  <2>1. Uncounted' \subseteq Uncounted /\ Unaudited' \subseteq Unaudited
    <3>1. /\ \A d \in Collectors \ {c} : pc'[d] = pc[d] /\ hand'[d] = hand[d]
          /\ pc[c] = "read" /\ UNCHANGED <<logVars, errorVars, deaths>>
      BY <1>6, <1>t DEF Read, QueueTypes, HandTypes
    <3> QED BY <3>1, SameCounted
  <2>2. deaths' = deaths
    BY <1>6 DEF Read
  <2> QED BY <2>1, <2>2, NoLoss
<1>7. ASSUME NEW c \in Collectors, Insert(c) PROVE OnlyDeathsLoseRecords'
  <2>1. /\ \A d \in Collectors \ {c} : pc'[d] = pc[d] /\ hand'[d] = hand[d]
        /\ pc[c] = "insert" /\ Counted' = Counted
        /\ UNCHANGED <<errorVars, deaths>>
        /\ \/ UNCHANGED stored
           \/ stored' = stored \cup {hand[c]} /\ pc'[c] = "observe" /\ hand'[c] = hand[c]
    BY <1>7, <1>t, SameCounted DEF Insert, Return, QueueTypes, HandTypes
  <2>2. Uncounted' \subseteq Uncounted /\ Unaudited' \subseteq Unaudited
    BY <2>1
  <2> QED BY <2>1, <2>2, NoLoss
<1>8. ASSUME NEW c \in Collectors, Observe(c) PROVE OnlyDeathsLoseRecords'
  <2>1. /\ \A d \in Collectors \ {c} : pc'[d] = pc[d] /\ hand'[d] = hand[d]
        /\ pc[c] = "observe" /\ Counted' = Counted \cup {hand[c]}
        /\ UNCHANGED <<stored, errorVars, deaths>>
    BY <1>8, <1>t, MoreCounted DEF Observe, Return, QueueTypes, HandTypes
  <2>2. Uncounted' \subseteq Uncounted /\ Unaudited' \subseteq Unaudited
    BY <2>1
  <2> QED BY <2>1, <2>2, NoLoss
<1>9. ASSUME NEW c \in Collectors, Record(c) \/ Audit(c) PROVE OnlyDeathsLoseRecords'
  <2>1. /\ \A d \in Collectors \ {c} : pc'[d] = pc[d] /\ hand'[d] = hand[d]
        /\ UNCHANGED <<logVars, deaths>>
        /\ \/ /\ pc[c] = "record" /\ pc'[c] = "audit" /\ hand'[c] = hand[c]
              /\ quarantined' = quarantined \cup {hand[c]} /\ UNCHANGED audited
           \/ /\ pc[c] = "audit" /\ UNCHANGED quarantined
              /\ audited' = audited \cup {hand[c]}
    BY <1>9, <1>t DEF Record, Audit, Return, QueueTypes, HandTypes
  <2>2. Uncounted' \subseteq Uncounted
    BY <2>1, SameCounted
  <2>3. Unaudited' \subseteq Unaudited
    BY <2>1
  <2> QED BY <2>1, <2>2, <2>3, NoLoss
<1>10. ASSUME NEW c \in Collectors, Stop(c) PROVE OnlyDeathsLoseRecords'
  BY <1>4, <1>10 DEF Stop
<1> QED BY <1>2, <1>3, <1>5, <1>6, <1>7, <1>8, <1>9, <1>10 DEF Next, Step

\* An event without its profile update and a rejected line without its audit record
\* cost one death each; nothing else loses one, and no later reading doubles the loss.
THEOREM DeathsBoundLosses == Spec => []OnlyDeathsLoseRecords
<1>1. Init => Types /\ Places /\ OnlyDeathsLoseRecords
  BY TypesInit, PlacesInit, LossesInit
<1>2. Types /\ Places /\ OnlyDeathsLoseRecords /\ [Next]_vars
          => (Types /\ Places /\ OnlyDeathsLoseRecords)'
  BY TypesStep, PlacesStep, LossesStep
<1> QED BY <1>1, <1>2, PTL DEF Spec
=============================================================================
