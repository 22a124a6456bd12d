--------------------------- MODULE DetectionProofs ---------------------------
(***************************************************************************)
(* Theorems about DetectionEngine, for any engines, sources, batches,      *)
(* thresholds and bounds.                                                  *)
(***************************************************************************)
EXTENDS DetectionEngine, RiskProofs, FiniteSetTheorems

(* The operators that only abbreviate. *)
USE DEF evidenceVars, countVars, tableVars, sourceVars, passVars, localVars, vars, At, Goto,
        Matches, Stored

(***************************************************************************)
(* Counting events                                                         *)
(***************************************************************************)
LEMMA EventsAreFinite ==
    ASSUME NEW B \in SUBSET Batches, NEW types
    PROVE  IsFiniteSet(OfType(B, types))
<1> DEFINE Of == {Contents[b] : b \in B}
<1> DEFINE of == [b \in B |-> Contents[b]]
<1>1. IsFiniteSet(B)
  BY EngineAssumption, FS_Subset
<1>2. of \in Surjection(B, Of)
  BY DEF Surjection
<1>3. IsFiniteSet(Of)
  BY <1>1, <1>2, FS_Surjection
<1>4. \A S \in Of : IsFiniteSet(S)
  BY EngineAssumption
<1>5. IsFiniteSet(UNION Of)
  BY <1>3, <1>4, FS_UNION
<1>6. OfType(B, types) \subseteq UNION Of
  BY DEF OfType
<1> QED BY <1>5, <1>6, FS_Subset

LEMMA CountType ==
    ASSUME NEW B \in SUBSET Batches, NEW types
    PROVE  Cardinality(OfType(B, types)) \in Nat
  BY EventsAreFinite, FS_CardinalityType

\* More batches hold at least as many events of each kind.
LEMMA CountGrows ==
    ASSUME NEW B \in SUBSET Batches, NEW A \in SUBSET B, NEW types
    PROVE  Cardinality(OfType(A, types)) <= Cardinality(OfType(B, types))
<1>1. OfType(A, types) \subseteq OfType(B, types)
  BY DEF OfType
<1> QED BY <1>1, EventsAreFinite, FS_Subset

Names(B) == {e.user : e \in OfType(B, FailedTypes \cup InvalidTypes)}

LEMMA NamesAreFinite ==
    ASSUME NEW B \in SUBSET Batches
    PROVE  IsFiniteSet(Names(B))
<1> DEFINE S == OfType(B, FailedTypes \cup InvalidTypes)
<1> DEFINE name == [e \in S |-> e.user]
<1>1. IsFiniteSet(S)
  BY EventsAreFinite
<1>2. name \in Surjection(S, Names(B))
  BY DEF Surjection, Names
<1> QED BY <1>1, <1>2, FS_Surjection

LEMMA NamesGrow ==
    ASSUME NEW B \in SUBSET Batches, NEW A \in SUBSET B
    PROVE  /\ Cardinality(Names(B)) \in Nat
           /\ Cardinality(Names(A)) <= Cardinality(Names(B))
<1>1. Names(A) \subseteq Names(B)
  BY DEF Names, OfType
<1> QED BY <1>1, NamesAreFinite, FS_Subset, FS_CardinalityType

LEMMA CorrelateType ==
    ASSUME NEW B \in SUBSET Batches, NEW f \in Facts
    PROVE  Correlate(B, f) \in Correlation
<1>1. /\ Failures(B) \in Nat /\ Packets(B) \in Nat
      /\ Cardinality(OfType(B, InvalidTypes)) \in Nat
  BY CountType DEF Failures, Packets
<1>2. Cardinality(Names(B)) \in Nat
  BY NamesGrow
<1>3. Cardinality({e.user : e \in OfType(B, FailedTypes \cup InvalidTypes)}) \in Nat
  BY <1>2 DEF Names
<1> QED BY <1>1, <1>3 DEF Correlate, Correlation, Facts

LEMMA DecisionType ==
    ASSUME NEW c, NEW x
    PROVE  Decide(c, x) \in Decisions
  BY DEF Decide, Respond, Decisions

(***************************************************************************)
(* Types                                                                   *)
(***************************************************************************)
\* An engine between ReadAuth and its return analyses a source.
Located == \A p \in Engines : ~At(p, "idle") /\ ~At(p, "list") /\ ~At(p, "next")
                                => source[p] \in Sources

TypeInv == TypeOK /\ Located

LEMMA BlockCountType ==
    ASSUME TypeOK, NEW s
    PROVE  BlockCount(s) \in Nat
<1>1. DOMAIN blocks = 1..Len(blocks) /\ Len(blocks) \in Nat
  BY DEF TypeOK
<1>2. IsFiniteSet(1..Len(blocks))
  BY <1>1, FS_Interval
<1>3. {i \in DOMAIN blocks : blocks[i].source = s} \subseteq 1..Len(blocks)
  BY <1>1
<1> QED BY <1>2, <1>3, FS_Subset, FS_CardinalityType DEF BlockCount

LEMMA NoFactsType == NoFacts \in Facts
  BY DEF NoFacts, Facts

LEMMA ReturnType ==
    ASSUME TypeInv, NEW p \in Engines, Return(p)
    PROVE  /\ phase' \in [Engines -> Phases] /\ end' \in [Engines -> 0..MaxTime]
           /\ todo' \in [Engines -> SUBSET Sources]
           /\ source' \in [Engines -> Sources \cup {NoSource}]
           /\ seen' \in [Engines -> SUBSET Batches]
           /\ facts' \in [Engines -> Facts] /\ asked' \in [Engines -> 0..MaxTime]
           /\ Located'
<1>1. "next" \in Phases /\ 0 \in 0..MaxTime
  BY EngineAssumption DEF Phases
<1> QED BY <1>1, NoFactsType DEF TypeInv, TypeOK, Located, Return

LEMMA WorldType ==
    ASSUME TypeInv, World
    PROVE  TypeInv'
<1> USE EngineAssumption
<1>1. CASE Tick
  BY <1>1 DEF Tick, TypeInv, TypeOK, Located
<1>2. ASSUME NEW b \in Batches, StoreBatch(b) PROVE TypeInv'
  <2>1. observed' \subseteq Stored'
    BY <1>2 DEF StoreBatch, TypeInv, TypeOK, Stored, Never
  <2> QED BY <1>2, <2>1 DEF StoreBatch, TypeInv, TypeOK, Located, Never
<1>6. ASSUME NEW b \in Batches, ObserveBatch(b) PROVE TypeInv'
  BY <1>6 DEF ObserveBatch, TypeInv, TypeOK, Located, Stored
<1>3. ASSUME NEW s \in Sources, AddEntry(s) PROVE TypeInv'
  <2>1. PICK t \in (now + 1)..Never :
           allowlist' = allowlist \cup {[source |-> s, created |-> now, expires |-> t]}
    BY <1>3 DEF AddEntry
  <2>2. [source |-> s, created |-> now, expires |-> t] \in Entry
    BY <2>1 DEF Entry, Never, TypeInv, TypeOK
  <2>3. allowlist' \subseteq Entry
    BY <2>1, <2>2 DEF TypeInv, TypeOK
  <2> QED BY <1>3, <2>3 DEF AddEntry, TypeInv, TypeOK, Located
<1>4. ASSUME NEW s \in Sources, CloseBlock(s) PROVE TypeInv'
  BY <1>4 DEF CloseBlock, TypeInv, TypeOK, Located
<1>5. ASSUME NEW entry \in allowlist, DisableEntry(entry) PROVE TypeInv'
  BY <1>5 DEF DisableEntry, TypeInv, TypeOK, Located
<1> QED BY <1>1, <1>2, <1>3, <1>4, <1>5, <1>6 DEF World

RowOf(p, x) == NewRow(p, Correlate(seen[p], facts[p]), x)

LEMMA StoreForm ==
    ASSUME NEW p, StoreDetection(p)
    PROVE  \E x \in Context :
              /\ x.eligible = (source[p] \in Eligible /\ ~facts[p].allowlisted)
              /\ IF Healthy(p, x) THEN UNCHANGED faults ELSE Fault
              /\ IF Known(p)
                   THEN Return(p) /\ UNCHANGED rows
                   ELSE /\ rows' = rows \cup {RowOf(p, x)}
                        /\ Goto(p, "count")
                        /\ UNCHANGED <<passVars, sourceVars>>
<1>1. PICK x \in Context, c \in {Correlate(seen[p], facts[p])} :
          /\ x.eligible = (source[p] \in Eligible /\ ~facts[p].allowlisted)
          /\ IF Healthy(p, x) THEN UNCHANGED faults ELSE Fault
          /\ IF Known(p)
               THEN Return(p) /\ UNCHANGED rows
               ELSE /\ rows' = rows \cup {NewRow(p, c, x)}
                    /\ Goto(p, "count")
                    /\ UNCHANGED <<passVars, sourceVars>>
  BY DEF StoreDetection
<1>2. c = Correlate(seen[p], facts[p])
  OBVIOUS
<1>3. NewRow(p, c, x) = RowOf(p, x)
  BY <1>2 DEF RowOf
<1> QED BY <1>1, <1>3

LEMMA NewRowType ==
    ASSUME TypeInv, NEW p \in Engines, source[p] \in Sources, NEW x
    PROVE  RowOf(p, x) \in Row
<1>1. Correlate(seen[p], facts[p]) \in Correlation
  BY CorrelateType DEF TypeInv, TypeOK
<1>2. Decide(Correlate(seen[p], facts[p]), x) \in Decisions
  BY DecisionType
<1> QED BY <1>1, <1>2 DEF RowOf, NewRow, Row, TypeInv, TypeOK

LEMMA ReadType ==
    ASSUME TypeInv, NEW p \in Engines,
           \/ Begin(p) \/ List(p) \/ Done(p) \/ ReadAuth(p) \/ ReadNetwork(p)
           \/ ReadProfile(p) \/ ReadSuccess(p) \/ ReadAllowlist(p) \/ ReadActive(p)
           \/ \E s \in Sources : BeginOne(p, s)
    PROVE  TypeInv'
<1> USE EngineAssumption
<1> USE DEF Phases
<1>m. \A B, s, t : Matching(B, s, t) \subseteq B
  BY DEF Matching
<1>f. facts[p] \in Facts
  BY DEF TypeInv, TypeOK
<1>1. CASE Begin(p)
  BY <1>1 DEF Begin, TypeInv, TypeOK, Located
<1>2. CASE List(p)
  BY <1>2 DEF List, TypeInv, TypeOK, Located
<1>3. CASE Done(p)
  BY <1>3 DEF Done, TypeInv, TypeOK, Located
<1>4. CASE ReadAuth(p)
  <2>1. PICK s \in todo[p] :
          /\ todo' = [todo EXCEPT ![p] = @ \ {s}]
          /\ source' = [source EXCEPT ![p] = s]
          /\ seen' = [seen EXCEPT ![p] = Matching(AuthBatches, s, end[p])]
    BY <1>4 DEF ReadAuth
  <2>2. s \in Sources /\ Matching(AuthBatches, s, end[p]) \in SUBSET Batches
    BY <2>1, <1>m DEF TypeInv, TypeOK, Batches
  <2> QED BY <1>4, <2>1, <2>2 DEF ReadAuth, TypeInv, TypeOK, Located
<1>5. CASE ReadNetwork(p)
  <2>1. Matching(NetBatches, source[p], end[p]) \subseteq Batches
    BY <1>m DEF Batches
  <2> QED BY <1>5, <2>1 DEF ReadNetwork, TypeInv, TypeOK, Located
<1>6. CASE ReadProfile(p)
  <2>1. detectionCount[source[p]] \in Nat /\ BlockCount(source[p]) \in Nat
    BY <1>6, BlockCountType DEF ReadProfile, TypeInv, TypeOK, Located
  <2>2. facts' \in [Engines -> Facts]
    BY <1>6, <1>f, <2>1 DEF ReadProfile, TypeInv, TypeOK, Facts
  <2> QED BY <1>6, <2>2 DEF ReadProfile, TypeInv, TypeOK, Located
<1>7. CASE ReadSuccess(p)
  <2>1. facts' \in [Engines -> Facts]
    BY <1>7, <1>f DEF ReadSuccess, TypeInv, TypeOK, Facts, Succeeded
  <2> QED BY <1>7, <2>1 DEF ReadSuccess, TypeInv, TypeOK, Located
<1>8. CASE ReadAllowlist(p)
  <2>1. facts' \in [Engines -> Facts]
    BY <1>8, <1>f DEF ReadAllowlist, TypeInv, TypeOK, Facts, Allowlisted
  <2> QED BY <1>8, <2>1 DEF ReadAllowlist, TypeInv, TypeOK, Located
<1>9. CASE ReadActive(p)
  <2>1. CASE Return(p)
    BY <1>9, <2>1, ReturnType DEF ReadActive, TypeInv, TypeOK
  <2>2. CASE ~Return(p)
    <3> DEFINE blocked == source[p] \in active
    <3>1. /\ facts' = [facts EXCEPT ![p].blocked = blocked]
          /\ Goto(p, "store") /\ UNCHANGED <<passVars, source, seen, asked>>
          /\ UNCHANGED <<evidenceVars, tableVars, faults, deaths>>
      BY <1>9, <2>2 DEF ReadActive
    <3>2. blocked \in BOOLEAN
      OBVIOUS
    <3> HIDE DEF blocked
    <3>3. facts' \in [Engines -> Facts]
      BY <3>1, <3>2, <1>f DEF TypeInv, TypeOK, Facts
    <3>4. source[p] \in Sources
      BY <1>9 DEF ReadActive, TypeInv, Located
    <3> QED BY <3>1, <3>3, <3>4 DEF TypeInv, TypeOK, Located
  <2> QED BY <2>1, <2>2
<1>10. ASSUME NEW s \in Sources, BeginOne(p, s) PROVE TypeInv'
  BY <1>10 DEF BeginOne, TypeInv, TypeOK, Located
<1> QED BY <1>1, <1>2, <1>3, <1>4, <1>5, <1>6, <1>7, <1>8, <1>9, <1>10

LEMMA ActType ==
    ASSUME TypeInv, NEW p \in Engines,
           StoreDetection(p) \/ CountDetection(p) \/ CheckSource(p) \/ OpenBlock(p) \/ Die(p)
    PROVE  TypeInv'
<1> USE EngineAssumption
<1> USE DEF Phases
<1>1. CASE StoreDetection(p)
  <2>1. PICK x \in Context :
          /\ IF Healthy(p, x) THEN UNCHANGED faults ELSE Fault
          /\ IF Known(p)
               THEN Return(p) /\ UNCHANGED rows
               ELSE /\ rows' = rows \cup {RowOf(p, x)}
                    /\ Goto(p, "count")
                    /\ UNCHANGED <<passVars, sourceVars>>
    BY <1>1, StoreForm
  <2>2. faults' \in 0..MaxFaults
    BY <2>1 DEF Fault, TypeInv, TypeOK
  <2>3. CASE Known(p)
    BY <1>1, <2>1, <2>2, <2>3, ReturnType DEF StoreDetection, TypeInv, TypeOK
  <2>4. CASE ~Known(p)
    <3>1. source[p] \in Sources
      BY <1>1 DEF StoreDetection, TypeInv, Located
    <3>2. rows' \subseteq Row
      BY <2>1, <2>4, <3>1, NewRowType DEF TypeInv, TypeOK
    <3> QED BY <1>1, <2>1, <2>2, <2>4, <3>1, <3>2 DEF StoreDetection, TypeInv, TypeOK, Located
  <2> QED BY <2>3, <2>4
<1>2. CASE CountDetection(p)
  <2>0. \/ detectionCount' = [detectionCount EXCEPT ![source[p]] = @ + 1]
        \/ UNCHANGED detectionCount
    BY <1>2 DEF CountDetection
  <2>1. detectionCount' \in [Sources -> Nat]
    <3>1. detectionCount \in [Sources -> Nat]
      BY DEF TypeInv, TypeOK
    <3>2. source[p] \in Sources
      BY <1>2 DEF CountDetection, TypeInv, Located
    <3> DEFINE count == detectionCount[source[p]]
    <3>3. detectionCount' = [detectionCount EXCEPT ![source[p]] = count + 1] \/ UNCHANGED detectionCount
      BY <2>0, <3>1
    <3>4. count \in Nat
      BY <3>1, <3>2
    <3> HIDE DEF count
    <3> QED BY <3>1, <3>3, <3>4
  <2>u. rows' = rows /\ uncounted' \subseteq rows'
    BY <1>2 DEF CountDetection, TypeInv, TypeOK
  <2>2. CASE Return(p)
    BY <1>2, <2>1, <2>u, <2>2, ReturnType DEF CountDetection, TypeInv, TypeOK
  <2>3. CASE ~Return(p)
    BY <1>2, <2>1, <2>u, <2>3 DEF CountDetection, TypeInv, TypeOK, Located
  <2> QED BY <2>2, <2>3
<1>3. CASE CheckSource(p)
  <2>1. CASE Return(p)
    BY <1>3, <2>1, ReturnType DEF CheckSource, TypeInv, TypeOK
  <2>2. CASE ~Return(p)
    <3>1. /\ asked' = [asked EXCEPT ![p] = now]
          /\ Goto(p, "open")
          /\ UNCHANGED <<passVars, source, seen, facts, evidenceVars, tableVars, faults, deaths>>
      BY <1>3, <2>2 DEF CheckSource
    <3>2. source[p] \in Sources
      BY <1>3 DEF CheckSource, TypeInv, Located
    <3> QED BY <3>1, <3>2 DEF TypeInv, TypeOK, Located
  <2> QED BY <2>1, <2>2
<1>4. CASE OpenBlock(p)
  <2>1. source[p] \in Sources
    BY <1>4 DEF OpenBlock, TypeInv, Located
  <2>2. [source |-> source[p], evidence |-> seen[p], time |-> asked[p]] \in Block
    BY <2>1 DEF Block, TypeInv, TypeOK
  <2> DEFINE block == [source |-> source[p], evidence |-> seen[p], time |-> asked[p]]
  <2> HIDE DEF block
  <2>a. \/ UNCHANGED blocks
        \/ blocks' = Append(blocks, block)
    BY <1>4 DEF OpenBlock, block
  <2>b. blocks' \in Seq(Block)
    <3>1. block \in Block
      BY <2>2 DEF block
    <3>2. blocks \in Seq(Block)
      BY DEF TypeInv, TypeOK
    <3> QED BY <2>a, <3>1, <3>2
  <2>c. faults' \in 0..MaxFaults
    BY <1>4 DEF OpenBlock, Fault, TypeInv, TypeOK
  <2>3. blocks' \in Seq(Block) /\ active' \subseteq Sources /\ faults' \in 0..MaxFaults
    BY <1>4, <2>1, <2>b, <2>c DEF OpenBlock, TypeInv, TypeOK
  <2> QED BY <1>4, <2>3, ReturnType DEF OpenBlock, TypeInv, TypeOK
<1>5. CASE Die(p)
  BY <1>5, NoFactsType DEF Die, TypeInv, TypeOK, Located
<1> QED BY <1>1, <1>2, <1>3, <1>4, <1>5

LEMMA TypeInvInit == Init => TypeInv
  BY EngineAssumption, NoFactsType DEF Init, TypeInv, TypeOK, Located, Phases, Never

LEMMA TypeInvStep == TypeInv /\ [Next]_vars => TypeInv'
<1> SUFFICES ASSUME TypeInv, [Next]_vars PROVE TypeInv'
  OBVIOUS
<1>1. CASE World
  BY <1>1, WorldType
<1>2. ASSUME NEW p \in Engines, Step(p) \/ Die(p) \/ \E s \in Sources : BeginOne(p, s)
      PROVE  TypeInv'
  BY <1>2, ReadType, ActType DEF Step
<1>3. CASE UNCHANGED vars
  BY <1>3 DEF TypeInv, TypeOK, Located
<1> QED BY <1>1, <1>2, <1>3 DEF Next

LEMMA TypeInvariance == Spec => []TypeInv
  BY TypeInvInit, TypeInvStep, PTL DEF Spec

\* Every variable keeps its type, whatever the engines, the batches and the
\* bounds.
THEOREM EngineTypeCorrect == Spec => []TypeOK
<1>1. TypeInv => TypeOK
  BY DEF TypeInv
<1> QED BY <1>1, TypeInvariance, PTL

(***************************************************************************)
(* What an engine holds                                                    *)
(***************************************************************************)
Unused == {"idle", "list", "next"}
Judging == {"store", "count", "check", "open"}

\* The evidence B of source s in the window that ends at t.
InOneWindow(B, s, t) == \A b \in B : SourceOf[b] = s /\ at[b] \in (t - Window)..t

EvidenceOf(p) ==
    /\ phase[p] \in Unused => seen[p] = {}
    /\ InOneWindow(seen[p], source[p], end[p])
    /\ phase[p] \in Judging => Failures(seen[p]) >= SuspiciousFailures

EvidenceInv == \A p \in Engines : EvidenceOf(p)

\* The step of p is not one of q.
LEMMA OthersUntouched ==
    ASSUME TypeInv, NEW p \in Engines, NEW q \in Engines, p # q,
           Step(p) \/ Die(p) \/ \E s \in Sources : BeginOne(p, s)
    PROVE  /\ phase'[q] = phase[q] /\ end'[q] = end[q] /\ todo'[q] = todo[q]
           /\ source'[q] = source[q] /\ seen'[q] = seen[q] /\ facts'[q] = facts[q]
           /\ asked'[q] = asked[q]
<1> USE DEF TypeInv, TypeOK
<1>1. CASE Begin(p) \/ List(p) \/ Done(p) \/ \E s \in Sources : BeginOne(p, s)
  BY <1>1 DEF Begin, List, Done, BeginOne
<1>2. CASE ReadAuth(p) \/ ReadNetwork(p)
  BY <1>2 DEF ReadAuth, ReadNetwork
<1>3. CASE ReadProfile(p) \/ ReadSuccess(p) \/ ReadAllowlist(p)
  BY <1>3 DEF ReadProfile, ReadSuccess, ReadAllowlist
<1>4. CASE ReadActive(p)
  BY <1>4 DEF ReadActive, Return
<1>5. CASE StoreDetection(p)
  BY <1>5 DEF StoreDetection, Return
<1>6. CASE CountDetection(p)
  BY <1>6 DEF CountDetection, Return
<1>7. CASE CheckSource(p)
  BY <1>7 DEF CheckSource, Return
<1>8. CASE OpenBlock(p) \/ Die(p)
  BY <1>8 DEF OpenBlock, Die, Return
<1> QED BY <1>1, <1>2, <1>3, <1>4, <1>5, <1>6, <1>7, <1>8 DEF Step

\* An engine's step changes neither the events nor the allowlist nor the clock.
LEMMA EnginesOnlyRead ==
    ASSUME NEW p \in Engines, Step(p) \/ Die(p) \/ \E s \in Sources : BeginOne(p, s)
    PROVE  UNCHANGED evidenceVars
  BY DEF Step, Die, BeginOne, Begin, List, Done, ReadAuth, ReadNetwork, ReadProfile,
         ReadSuccess, ReadAllowlist, ReadActive, StoreDetection, CountDetection,
         CheckSource, OpenBlock

\* The world leaves the engines alone.
LEMMA WorldOnlyFeeds ==
    ASSUME World
    PROVE  UNCHANGED <<localVars, rows, countVars, blocks, deaths>>
  BY DEF World, Tick, StoreBatch, ObserveBatch, AddEntry, DisableEntry, CloseBlock

LEMMA StoredStays ==
    ASSUME TypeInv, [Next]_vars, NEW b \in Batches, at[b] # Never
    PROVE  at'[b] = at[b]
<1>1. CASE World
  BY <1>1 DEF World, Tick, StoreBatch, ObserveBatch, AddEntry, DisableEntry, CloseBlock, TypeInv, TypeOK
<1>2. CASE UNCHANGED vars
  BY <1>2
<1> QED BY <1>1, <1>2, EnginesOnlyRead DEF Next

\* Evidence does not move out of its window.
LEMMA WindowStays ==
    ASSUME TypeInv, [Next]_vars, NEW B \in SUBSET Batches, NEW s, NEW t \in 0..MaxTime,
           InOneWindow(B, s, t)
    PROVE  \A b \in B : at'[b] = at[b]
<1> SUFFICES ASSUME NEW b \in B PROVE at'[b] = at[b]
  OBVIOUS
<1>1. at[b] # Never
  BY EngineAssumption DEF InOneWindow, Never
<1> QED BY <1>1, StoredStays

LEMMA MatchingFits ==
    ASSUME TypeInv, NEW B \in SUBSET Batches, NEW s, NEW t \in 0..MaxTime
    PROVE  /\ Matching(B, s, t) \in SUBSET Batches
           /\ InOneWindow(Matching(B, s, t), s, t)
<1>1. ASSUME NEW b \in Batches, InWindow(b, t)
      PROVE  at[b] \in (t - Window)..t
  BY <1>1, EngineAssumption DEF InWindow, TypeInv, TypeOK, Never
<1> QED BY <1>1 DEF Matching, InOneWindow

LEMMA EvidenceStep == TypeInv /\ EvidenceInv /\ [Next]_vars => EvidenceInv'
<1> SUFFICES ASSUME TypeInv, EvidenceInv, [Next]_vars, NEW q \in Engines
             PROVE  EvidenceOf(q)'
  BY DEF EvidenceInv
<1> DEFINE Same == /\ phase'[q] = phase[q] /\ end'[q] = end[q]
                   /\ source'[q] = source[q] /\ seen'[q] = seen[q]
<1>a. seen[q] \in SUBSET Batches /\ end[q] \in 0..MaxTime /\ EvidenceOf(q) /\ TypeOK
  BY DEF TypeInv, TypeOK, EvidenceInv
<1>b. \A b \in seen[q] : at'[b] = at[b]
  BY <1>a, WindowStays DEF EvidenceOf
<1>o. ASSUME end'[q] = end[q], source'[q] = source[q], seen'[q] = seen[q]
      PROVE  InOneWindow(seen[q], source[q], end[q])'
  BY <1>a, <1>b, <1>o DEF EvidenceOf, InOneWindow
<1>s. Same => EvidenceOf(q)'
  BY <1>a, <1>o DEF EvidenceOf, Failures, OfType
<1>e. ASSUME seen'[q] = {}, phase'[q] \notin Judging PROVE EvidenceOf(q)'
  BY <1>e DEF EvidenceOf, InOneWindow
<1>r. ASSUME Return(q) PROVE EvidenceOf(q)'
  <2>1. seen'[q] = {} /\ phase'[q] = "next"
    BY <1>r, <1>a DEF Return, TypeOK
  <2> QED BY <1>e, <2>1 DEF Judging
<1>1. CASE World \/ UNCHANGED vars
  BY <1>1, <1>s, WorldOnlyFeeds
<1>2. ASSUME NEW p \in Engines, p # q, Step(p) \/ Die(p) \/ \E s \in Sources : BeginOne(p, s)
      PROVE  EvidenceOf(q)'
  BY <1>2, <1>s, OthersUntouched
<1>3. CASE Begin(q) \/ List(q) \/ Done(q) \/ Die(q) \/ \E s \in Sources : BeginOne(q, s)
  <2>1. seen'[q] = {} /\ phase'[q] \in Unused
    BY <1>3, <1>a DEF Begin, List, Done, Die, BeginOne, EvidenceOf, Unused, TypeOK
  <2> QED BY <1>e, <2>1 DEF Unused, Judging
<1>4. CASE ReadAuth(q)
  <2>1. PICK s \in todo[q] :
          /\ source' = [source EXCEPT ![q] = s]
          /\ seen' = [seen EXCEPT ![q] = Matching(AuthBatches, s, end[q])]
    BY <1>4 DEF ReadAuth
  <2>2. InOneWindow(Matching(AuthBatches, s, end[q]), s, end[q])
    BY <1>a, MatchingFits DEF Batches
  <2>3. /\ source'[q] = s /\ seen'[q] = Matching(AuthBatches, s, end[q])
        /\ end'[q] = end[q] /\ phase'[q] = "network" /\ at' = at
    BY <1>4, <1>a, <2>1 DEF ReadAuth, TypeOK
  <2>4. InOneWindow(seen[q], source[q], end[q])'
    BY <2>2, <2>3 DEF InOneWindow
  <2> QED BY <2>3, <2>4 DEF EvidenceOf, Unused, Judging
<1>5. CASE ReadNetwork(q)
  <2>1. InOneWindow(Matching(NetBatches, source[q], end[q]), source[q], end[q])
    BY <1>a, MatchingFits DEF Batches
  <2>2. /\ source'[q] = source[q] /\ end'[q] = end[q] /\ phase'[q] = "profile" /\ at' = at
        /\ seen'[q] = seen[q] \cup Matching(NetBatches, source[q], end[q])
    BY <1>5, <1>a DEF ReadNetwork, TypeOK
  <2>3. InOneWindow(seen[q], source[q], end[q])'
    BY <1>a, <2>1, <2>2 DEF EvidenceOf, InOneWindow
  <2> QED BY <2>2, <2>3 DEF EvidenceOf, Unused, Judging
<1>6. ASSUME UNCHANGED <<seen, source, end>>, phase'[q] \notin Unused,
             phase'[q] \in Judging => Failures(seen[q]) >= SuspiciousFailures
      PROVE  EvidenceOf(q)'
  <2>1. InOneWindow(seen[q], source[q], end[q])'
    BY <1>6, <1>o
  <2> QED BY <1>6, <2>1 DEF EvidenceOf, Failures, OfType
<1>7. CASE ReadProfile(q) \/ ReadSuccess(q) \/ ReadAllowlist(q)
  <2>1. UNCHANGED <<seen, source, end>> /\ phase'[q] \in {"success", "allowlist", "active"}
    BY <1>7, <1>a DEF ReadProfile, ReadSuccess, ReadAllowlist, TypeOK
  <2> QED BY <1>6, <2>1 DEF Unused, Judging
<1>8. CASE ReadActive(q)
  <2>1. CASE Failures(seen[q]) >= SuspiciousFailures
    <3>1. Failures(seen[q]) \in Nat /\ SuspiciousFailures \in Nat
      BY <1>a, CountType, RiskAssumption DEF Failures
    <3>2. UNCHANGED <<seen, source, end>> /\ phase'[q] = "store"
      BY <1>8, <1>a, <2>1, <3>1 DEF ReadActive, TypeOK
    <3> QED BY <1>6, <2>1, <3>2 DEF Unused
  <2>2. CASE ~(Failures(seen[q]) >= SuspiciousFailures)
    <3>1. Failures(seen[q]) \in Nat /\ SuspiciousFailures \in Nat
      BY <1>a, CountType, RiskAssumption DEF Failures
    <3> QED BY <1>8, <1>r, <2>2, <3>1 DEF ReadActive
  <2> QED BY <2>1, <2>2
<1>9. ASSUME phase[q] \in Judging, phase'[q] \in Judging, UNCHANGED <<seen, source, end>>
      PROVE  EvidenceOf(q)'
  BY <1>6, <1>9, <1>a DEF EvidenceOf, Unused, Judging
<1>10. CASE StoreDetection(q)
  <2>1. Return(q) \/ (phase'[q] = "count" /\ UNCHANGED <<seen, source, end>>)
    BY <1>10, <1>a DEF StoreDetection, TypeOK
  <2> QED BY <1>9, <1>10, <1>r, <2>1 DEF StoreDetection, Judging
<1>11. CASE CountDetection(q)
  <2>1. Return(q) \/ (phase'[q] = "check" /\ UNCHANGED <<seen, source, end>>)
    BY <1>11, <1>a DEF CountDetection, TypeOK
  <2> QED BY <1>9, <1>11, <1>r, <2>1 DEF CountDetection, Judging
<1>12. CASE CheckSource(q)
  <2>1. Return(q) \/ (phase'[q] = "open" /\ UNCHANGED <<seen, source, end>>)
    BY <1>12, <1>a DEF CheckSource, TypeOK
  <2> QED BY <1>9, <1>12, <1>r, <2>1 DEF CheckSource, Judging
<1>13. CASE OpenBlock(q)
  BY <1>13, <1>r DEF OpenBlock
<1> QED
  BY <1>1, <1>2, <1>3, <1>4, <1>5, <1>7, <1>8, <1>10, <1>11, <1>12, <1>13 DEF Next, Step

LEMMA EvidenceInit == Init => EvidenceInv
  BY DEF Init, EvidenceInv, EvidenceOf, InOneWindow, Judging

LEMMA EvidenceInvariance == Spec => [](TypeInv /\ EvidenceInv)
<1>1. Init => TypeInv /\ EvidenceInv
  BY TypeInvInit, EvidenceInit
<1>2. TypeInv /\ EvidenceInv /\ [Next]_vars => (TypeInv /\ EvidenceInv)'
  BY TypeInvStep, EvidenceStep
<1> QED BY <1>1, <1>2, PTL DEF Spec

(***************************************************************************)
(* The rows                                                                *)
(***************************************************************************)
RowSound(r) ==
    /\ InOneWindow(r.evidence, r.source, r.end)
    /\ \E f \in Facts : r.correlation = Correlate(r.evidence, f)
    /\ r.decision = "BLOCK" => /\ r.source \in Eligible
                               /\ Failures(r.evidence) >= BlockingFailures
                               /\ Packets(r.evidence) > 0

RowsInv == \A r \in rows : RowSound(r)

\* Only StoreDetection adds a row, on evidence that has none.
LEMMA RowsGrow ==
    ASSUME [Next]_vars
    PROVE  \/ UNCHANGED rows
           \/ \E p \in Engines, x \in Context :
                 /\ StoreDetection(p) /\ ~Known(p)
                 /\ x.eligible = (source[p] \in Eligible /\ ~facts[p].allowlisted)
                 /\ rows' = rows \cup {RowOf(p, x)}
<1>1. CASE World \/ UNCHANGED vars
  BY <1>1, WorldOnlyFeeds
<1>2. ASSUME NEW p \in Engines, StoreDetection(p)
      PROVE  \/ UNCHANGED rows
             \/ \E x \in Context :
                   /\ StoreDetection(p) /\ ~Known(p)
                   /\ x.eligible = (source[p] \in Eligible /\ ~facts[p].allowlisted)
                   /\ rows' = rows \cup {RowOf(p, x)}
  BY <1>2, StoreForm
<1>3. ASSUME NEW p \in Engines, Step(p) \/ Die(p) \/ \E s \in Sources : BeginOne(p, s),
             ~StoreDetection(p)
      PROVE  UNCHANGED rows
  BY <1>3 DEF Step, Die, BeginOne, Begin, List, Done, ReadAuth, ReadNetwork, ReadProfile,
              ReadSuccess, ReadAllowlist, ReadActive, CountDetection, CheckSource, OpenBlock
<1> QED BY <1>1, <1>2, <1>3 DEF Next

LEMMA NewRowIsSound ==
    ASSUME TypeInv, EvidenceInv, NEW p \in Engines, NEW x \in Context,
           x.eligible = (source[p] \in Eligible /\ ~facts[p].allowlisted)
    PROVE  RowSound(RowOf(p, x))
<1> DEFINE c == Correlate(seen[p], facts[p])
<1>1. seen[p] \in SUBSET Batches /\ facts[p] \in Facts
  BY DEF TypeInv, TypeOK
<1>2. c \in Correlation
  BY <1>1, CorrelateType
<1>3. InOneWindow(seen[p], source[p], end[p])
  BY DEF EvidenceInv, EvidenceOf
<1>4. /\ RowOf(p, x).source = source[p] /\ RowOf(p, x).evidence = seen[p]
      /\ RowOf(p, x).end = end[p] /\ RowOf(p, x).correlation = c
      /\ RowOf(p, x).decision = Decide(c, x)
  BY DEF RowOf, NewRow
<1>5. c.failed = Failures(seen[p]) /\ c.connections = Packets(seen[p])
  BY DEF Correlate
<1> HIDE DEF c
<1>6. ASSUME Decide(c, x) = "BLOCK"
      PROVE  /\ source[p] \in Eligible
             /\ Failures(seen[p]) >= BlockingFailures /\ Packets(seen[p]) > 0
  BY <1>2, <1>5, <1>6, BlockNeedsEverything
<1> QED BY <1>1, <1>3, <1>4, <1>6 DEF RowSound, c

LEMMA RowsStep == TypeInv /\ EvidenceInv /\ RowsInv /\ [Next]_vars => RowsInv'
<1> SUFFICES ASSUME TypeInv, EvidenceInv, RowsInv, [Next]_vars, NEW r \in rows'
             PROVE  RowSound(r)'
  BY DEF RowsInv
<1>1. r \in Row
  <2>1. rows' \subseteq Row
    BY TypeInvStep DEF TypeInv, TypeOK
  <2> QED BY <2>1
<1>2. RowSound(r)
  BY RowsGrow, NewRowIsSound DEF RowsInv
<1>3. \A b \in r.evidence : at'[b] = at[b]
  BY <1>1, <1>2, WindowStays DEF RowSound, Row
<1>4. InOneWindow(r.evidence, r.source, r.end)'
  BY <1>2, <1>3 DEF RowSound, InOneWindow
<1> QED BY <1>2, <1>4 DEF RowSound

(***************************************************************************)
(* One block for one body of evidence                                      *)
(***************************************************************************)
\* The engine has stored a row and not yet returned.
Answering == {"count", "check", "open"}

\* The rows the engines work on are there, and each is worked on by one engine.
HandledInv ==
    /\ \A p \in Engines : phase[p] \in Answering => Known(p)
    /\ \A p \in Engines : phase[p] \in {"check", "open"} => Authorized(p)
    /\ \A p, q \in Engines : /\ phase[p] \in Answering /\ phase[q] \in Answering
                              /\ source[p] = source[q] /\ seen[p] = seen[q]
                              => p = q

\* A block rests on a row that no engine will use again.
BlockRests(i) ==
    /\ \E r \in rows : /\ r.source = blocks[i].source /\ r.evidence = blocks[i].evidence
                       /\ r.decision = "BLOCK"
    /\ \A p \in Engines : ~(/\ phase[p] \in Answering
                            /\ source[p] = blocks[i].source /\ seen[p] = blocks[i].evidence)

BlocksInv == (\A i \in DOMAIN blocks : BlockRests(i)) /\ OneBlockPerEvidence

LEMMA HandledStep == TypeInv /\ HandledInv /\ [Next]_vars => HandledInv'
<1> SUFFICES ASSUME TypeInv, HandledInv, [Next]_vars
             PROVE  HandledInv'
  OBVIOUS
<1>g. rows \subseteq rows'
  BY RowsGrow
<1>1. CASE World \/ UNCHANGED vars
  BY <1>1, WorldOnlyFeeds DEF HandledInv, Known, Authorized
<1>2. ASSUME NEW p \in Engines, Step(p) \/ Die(p) \/ \E s \in Sources : BeginOne(p, s)
      PROVE  HandledInv'
  <2>o. \A q \in Engines \ {p} :
           phase'[q] = phase[q] /\ source'[q] = source[q] /\ seen'[q] = seen[q]
    BY <1>2, OthersUntouched
  <2>1. ASSUME phase'[p] \notin Answering PROVE HandledInv'
    BY <1>g, <2>o, <2>1 DEF HandledInv, Known, Authorized, Answering
  <2>2. ASSUME phase[p] \in Answering, UNCHANGED <<source, seen>>,
               phase'[p] \in {"check", "open"} => Authorized(p)
        PROVE  HandledInv'
    <3>1. phase'[p] \in Answering => Known(p)'
      BY <1>g, <2>2 DEF HandledInv, Known
    <3>2. phase'[p] \in {"check", "open"} => Authorized(p)'
      BY <1>g, <2>2 DEF Authorized
    <3> QED BY <1>g, <2>o, <2>2, <3>1, <3>2 DEF HandledInv, Known, Authorized
  <2>3. CASE StoreDetection(p) /\ ~Known(p)
    <3>1. PICK x \in Context : rows' = rows \cup {RowOf(p, x)}
      BY <2>3, StoreForm
    <3>2. phase'[p] = "count" /\ UNCHANGED <<source, seen>>
      BY <2>3 DEF StoreDetection, TypeInv, TypeOK
    <3>3. Known(p)'
      <4>1. RowOf(p, x).source = source[p] /\ RowOf(p, x).evidence = seen[p]
        BY DEF RowOf, NewRow
      <4>2. RowOf(p, x) \in rows'
        BY <3>1
      <4> QED BY <3>2, <4>1, <4>2 DEF Known
    <3>4. ASSUME NEW q \in Engines, phase[q] \in Answering
          PROVE  ~(source[p] = source[q] /\ seen[p] = seen[q])
      BY <2>3, <3>4 DEF HandledInv, Known
    <3> QED BY <1>g, <2>o, <3>2, <3>3, <3>4 DEF HandledInv, Known, Authorized
  <2>4. CASE CountDetection(p)
    BY <2>1, <2>2, <2>4 DEF CountDetection, Return, TypeInv, TypeOK, Answering
  <2>5. CASE CheckSource(p)
    BY <2>1, <2>2, <2>5 DEF CheckSource, Return, TypeInv, TypeOK, Answering, HandledInv
  <2>6. ASSUME ~StoreDetection(p) \/ Known(p), ~CountDetection(p), ~CheckSource(p)
        PROVE  phase'[p] \notin Answering
    BY <1>2, <2>6
    DEF Step, Die, BeginOne, Begin, List, Done, ReadAuth, ReadNetwork, ReadProfile,
        ReadSuccess, ReadAllowlist, ReadActive, StoreDetection, OpenBlock, Return,
        TypeInv, TypeOK, Answering
  <2> QED BY <2>1, <2>3, <2>4, <2>5, <2>6
<1> QED BY <1>1, <1>2 DEF Next

\* Only OpenBlock adds a block, made of what the engine holds.
LEMMA BlocksGrow ==
    ASSUME TypeInv, [Next]_vars
    PROVE  \/ UNCHANGED blocks
           \/ \E p \in Engines :
                 /\ OpenBlock(p) /\ UNCHANGED <<evidenceVars, rows>>
                 /\ blocks' = Append(blocks, [source |-> source[p], evidence |-> seen[p],
                                             time |-> asked[p]])
<1>1. CASE World \/ UNCHANGED vars
  BY <1>1, WorldOnlyFeeds
<1>2. ASSUME NEW p \in Engines, OpenBlock(p)
      PROVE  \/ UNCHANGED blocks
             \/ /\ UNCHANGED <<evidenceVars, rows>>
                /\ blocks' = Append(blocks, [source |-> source[p], evidence |-> seen[p],
                                            time |-> asked[p]])
  BY <1>2 DEF OpenBlock
<1>3. ASSUME NEW p \in Engines, Step(p) \/ Die(p) \/ \E s \in Sources : BeginOne(p, s),
             ~OpenBlock(p)
      PROVE  UNCHANGED blocks
  BY <1>3 DEF Step, Die, BeginOne, Begin, List, Done, ReadAuth, ReadNetwork, ReadProfile,
              ReadSuccess, ReadAllowlist, ReadActive, StoreDetection, CountDetection, CheckSource
<1> QED BY <1>1, <1>2, <1>3 DEF Next

\* An engine takes up no row but a new one.
LEMMA AnsweringIsNew ==
    ASSUME TypeInv, [Next]_vars, NEW p \in Engines, phase'[p] \in Answering
    PROVE  /\ source'[p] = source[p] /\ seen'[p] = seen[p]
           /\ phase[p] \in Answering \/ ~Known(p)
<1>1. CASE World \/ UNCHANGED vars
  BY <1>1, WorldOnlyFeeds
<1>2. ASSUME NEW q \in Engines, q # p, Step(q) \/ Die(q) \/ \E s \in Sources : BeginOne(q, s)
      PROVE  /\ source'[p] = source[p] /\ seen'[p] = seen[p]
             /\ phase[p] \in Answering \/ ~Known(p)
  BY <1>2, OthersUntouched
<1>3. CASE StoreDetection(p)
  BY <1>3 DEF StoreDetection, Return, TypeInv, TypeOK, Answering
<1>4. CASE CountDetection(p)
  BY <1>4 DEF CountDetection, Return, TypeInv, TypeOK, Answering
<1>5. CASE CheckSource(p)
  BY <1>5 DEF CheckSource, Return, TypeInv, TypeOK, Answering
<1>6. CASE OpenBlock(p) \/ ReadActive(p)
  BY <1>6 DEF OpenBlock, ReadActive, Return, TypeInv, TypeOK, Answering
<1>7. CASE \/ Begin(p) \/ List(p) \/ Done(p) \/ ReadAuth(p) \/ ReadNetwork(p)
           \/ ReadProfile(p) \/ ReadSuccess(p) \/ ReadAllowlist(p) \/ Die(p)
           \/ \E s \in Sources : BeginOne(p, s)
  BY <1>7 DEF Die, BeginOne, Begin, List, Done, ReadAuth, ReadNetwork, ReadProfile,
              ReadSuccess, ReadAllowlist, TypeInv, TypeOK, Answering
<1> QED BY <1>1, <1>2, <1>3, <1>4, <1>5, <1>6, <1>7 DEF Next, Step

LEMMA BlocksStep == TypeInv /\ HandledInv /\ BlocksInv /\ [Next]_vars => BlocksInv'
<1> SUFFICES ASSUME TypeInv, HandledInv, BlocksInv, [Next]_vars
             PROVE  BlocksInv'
  OBVIOUS
<1>g. rows \subseteq rows'
  BY RowsGrow
<1>b. blocks \in Seq(Block)
  BY DEF TypeInv, TypeOK
\* The blocks that were there still rest.
<1>1. ASSUME NEW i \in DOMAIN blocks, blocks'[i] = blocks[i] PROVE BlockRests(i)'
  <2>1. BlockRests(i)
    BY DEF BlocksInv
  <2>2. PICK r \in rows : /\ r.source = blocks[i].source /\ r.evidence = blocks[i].evidence
                          /\ r.decision = "BLOCK"
    BY <2>1 DEF BlockRests
  <2>3. ASSUME NEW p \in Engines, phase'[p] \in Answering
        PROVE  ~(source'[p] = blocks[i].source /\ seen'[p] = blocks[i].evidence)
    BY <2>1, <2>2, <2>3, AnsweringIsNew DEF BlockRests, Known
  <2> QED BY <1>1, <1>g, <2>2, <2>3 DEF BlockRests
<1>2. CASE UNCHANGED blocks
  BY <1>1, <1>2 DEF BlocksInv, OneBlockPerEvidence
<1>3. ASSUME NEW p \in Engines, OpenBlock(p), UNCHANGED rows,
             blocks' = Append(blocks, [source |-> source[p], evidence |-> seen[p],
                                       time |-> asked[p]])
      PROVE  BlocksInv'
  <2>0. PICK n \in Nat : n = Len(blocks) + 1
    BY <1>b
  <2>1. /\ DOMAIN blocks = 1..Len(blocks) /\ DOMAIN blocks' = 1..n /\ Len(blocks) \in Nat
        /\ \A i \in DOMAIN blocks : blocks'[i] = blocks[i]
        /\ blocks'[n] = [source |-> source[p], evidence |-> seen[p], time |-> asked[p]]
    BY <1>b, <1>3, <2>0
  <2>d. DOMAIN blocks' = DOMAIN blocks \cup {n}
    BY <2>0, <2>1
  <2>2. blocks'[n].source = source[p] /\ blocks'[n].evidence = seen[p]
    BY <2>1
  <2>3. phase[p] = "open" /\ phase'[p] = "next"
    BY <1>3 DEF OpenBlock, Return, TypeInv, TypeOK
  <2>4. PICK r \in rows : /\ r.source = source[p] /\ r.evidence = seen[p]
                          /\ r.decision = "BLOCK"
    BY <2>3 DEF HandledInv, Authorized
  <2>5. ASSUME NEW q \in Engines, phase'[q] \in Answering
        PROVE  ~(source'[q] = source[p] /\ seen'[q] = seen[p])
    <3>1. q # p
      BY <2>3, <2>5 DEF Answering
    <3>2. phase'[q] = phase[q] /\ source'[q] = source[q] /\ seen'[q] = seen[q]
      BY <1>3, <3>1, OthersUntouched DEF Step
    <3> QED BY <2>3, <2>5, <3>1, <3>2 DEF HandledInv, Answering
  <2>6. BlockRests(n)'
    BY <1>3, <2>2, <2>4, <2>5 DEF BlockRests
  <2>7. ASSUME NEW i \in DOMAIN blocks
        PROVE  ~(blocks[i].source = source[p] /\ blocks[i].evidence = seen[p])
    BY <2>3 DEF BlocksInv, BlockRests, Answering
  <2>8. \A i \in DOMAIN blocks' : BlockRests(i)'
    BY <1>1, <2>1, <2>d, <2>6
  <2>9. OneBlockPerEvidence'
    <3> SUFFICES ASSUME NEW i \in DOMAIN blocks', NEW j \in DOMAIN blocks',
                        blocks'[i].source = blocks'[j].source,
                        blocks'[i].evidence = blocks'[j].evidence
                 PROVE  i = j
      BY DEF OneBlockPerEvidence
    <3>1. CASE i \in DOMAIN blocks /\ j \in DOMAIN blocks
      BY <2>1, <3>1 DEF BlocksInv, OneBlockPerEvidence
    <3>2. CASE i = n /\ j \in DOMAIN blocks
      BY <2>1, <2>2, <2>7, <3>2
    <3>3. CASE j = n /\ i \in DOMAIN blocks
      BY <2>1, <2>2, <2>7, <3>3
    <3> QED BY <2>d, <3>1, <3>2, <3>3
  <2> QED BY <2>8, <2>9 DEF BlocksInv
<1> QED BY <1>2, <1>3, BlocksGrow

(***************************************************************************)
(* The allowlist                                                           *)
(***************************************************************************)
\* No entry that is still active allowed s at time t, and was there before.
Unlisted(s, t) ==
    \A entry \in allowlist :
       ~(entry.source = s /\ entry.created < t /\ t < entry.expires)

ListInv ==
    /\ \A p \in Engines : phase[p] = "open" => asked[p] <= now /\ Unlisted(source[p], asked[p])
    /\ \A i \in DOMAIN blocks :
          blocks[i].time <= now /\ Unlisted(blocks[i].source, blocks[i].time)

LEMMA UnlistedStays ==
    ASSUME TypeInv, [Next]_vars, NEW s, NEW t \in 0..MaxTime, t <= now, Unlisted(s, t)
    PROVE  t <= now' /\ (\A entry \in allowlist' :
              ~(entry.source = s /\ entry.created < t /\ t < entry.expires))
<1> USE DEF Unlisted
<1>t. now \in Nat /\ t \in Nat
  BY EngineAssumption DEF TypeInv, TypeOK
<1>1. CASE Tick
  BY <1>1, <1>t DEF Tick
<1>2. ASSUME NEW x \in Sources, AddEntry(x)
      PROVE  t <= now' /\ (\A entry \in allowlist' :
                ~(entry.source = s /\ entry.created < t /\ t < entry.expires))
  <2>1. PICK e \in (now + 1)..Never :
           allowlist' = allowlist \cup {[source |-> x, created |-> now, expires |-> e]}
    BY <1>2 DEF AddEntry
  <2>2. ASSUME NEW entry \in allowlist', entry \notin allowlist PROVE ~(entry.created < t)
    <3>1. entry.created = now
      BY <2>1, <2>2
    <3> QED BY <1>t, <3>1
  <2> QED BY <1>2, <2>2 DEF AddEntry
<1>3. ASSUME NEW x \in allowlist, DisableEntry(x)
      PROVE  t <= now' /\ (\A entry \in allowlist' :
                ~(entry.source = s /\ entry.created < t /\ t < entry.expires))
  BY <1>3 DEF DisableEntry
<1>4. ASSUME NEW b \in Batches, StoreBatch(b) \/ ObserveBatch(b)
      PROVE  UNCHANGED <<now, allowlist>>
  BY <1>4 DEF StoreBatch, ObserveBatch
<1>5. ASSUME NEW x \in Sources, CloseBlock(x)
      PROVE  UNCHANGED <<now, allowlist>>
  BY <1>5 DEF CloseBlock
<1>6. CASE UNCHANGED vars
  BY <1>6
<1> QED BY <1>1, <1>2, <1>3, <1>4, <1>5, <1>6, EnginesOnlyRead DEF Next, World

LEMMA ListStep == TypeInv /\ ListInv /\ [Next]_vars => ListInv'
<1> SUFFICES ASSUME TypeInv, ListInv, [Next]_vars
             PROVE  ListInv'
  OBVIOUS
<1>b. blocks \in Seq(Block) /\ asked \in [Engines -> 0..MaxTime]
  BY DEF TypeInv, TypeOK
<1>1. ASSUME NEW i \in DOMAIN blocks, blocks'[i] = blocks[i]
      PROVE  (blocks[i].time <= now /\ Unlisted(blocks[i].source, blocks[i].time))'
  <2>1. blocks[i] \in Block
    BY <1>b
  <2>2. blocks[i].time \in 0..MaxTime
    BY <2>1 DEF Block
  <2>3. blocks[i].time <= now /\ Unlisted(blocks[i].source, blocks[i].time)
    BY DEF ListInv
  <2>4. /\ blocks[i].time <= now'
        /\ \A entry \in allowlist' : ~(/\ entry.source = blocks[i].source
                                       /\ entry.created < blocks[i].time
                                       /\ blocks[i].time < entry.expires)
    BY <2>2, <2>3, UnlistedStays
  <2> QED BY <1>1, <2>4 DEF Unlisted
<1>2. \A i \in DOMAIN blocks' :
        (blocks[i].time <= now /\ Unlisted(blocks[i].source, blocks[i].time))'
  <2>1. CASE UNCHANGED blocks
    BY <1>1, <2>1
  <2>2. ASSUME NEW p \in Engines, OpenBlock(p), UNCHANGED evidenceVars,
               blocks' = Append(blocks, [source |-> source[p], evidence |-> seen[p],
                                         time |-> asked[p]])
        PROVE  \A i \in DOMAIN blocks' :
                 (blocks[i].time <= now /\ Unlisted(blocks[i].source, blocks[i].time))'
    <3>0. PICK n \in Nat : n = Len(blocks) + 1
      BY <1>b
    <3>1. /\ DOMAIN blocks = 1..Len(blocks) /\ DOMAIN blocks' = 1..n /\ Len(blocks) \in Nat
          /\ \A i \in DOMAIN blocks : blocks'[i] = blocks[i]
          /\ blocks'[n] = [source |-> source[p], evidence |-> seen[p], time |-> asked[p]]
      BY <1>b, <2>2, <3>0
    <3>d. DOMAIN blocks' = DOMAIN blocks \cup {n}
      BY <3>0, <3>1
    <3>2. blocks'[n].source = source[p] /\ blocks'[n].time = asked[p]
      BY <3>1
    <3>3. asked[p] <= now /\ Unlisted(source[p], asked[p])
      BY <2>2 DEF OpenBlock, ListInv
    <3>4. (blocks[n].time <= now /\ Unlisted(blocks[n].source, blocks[n].time))'
      BY <2>2, <3>2, <3>3 DEF Unlisted
    <3> QED BY <1>1, <3>1, <3>d, <3>4
  <2> QED BY <2>1, <2>2, BlocksGrow
<1>3. ASSUME NEW p \in Engines, phase'[p] = "open"
      PROVE  (asked[p] <= now /\ Unlisted(source[p], asked[p]))'
  <2>1. ASSUME phase[p] = "open", source'[p] = source[p], asked'[p] = asked[p]
        PROVE  (asked[p] <= now /\ Unlisted(source[p], asked[p]))'
    <3>1. asked[p] \in 0..MaxTime
      BY <1>b
    <3> QED BY <2>1, <3>1, UnlistedStays DEF ListInv, Unlisted
  <2>2. CASE World \/ UNCHANGED vars
    BY <1>3, <2>1, <2>2, WorldOnlyFeeds
  <2>3. ASSUME NEW q \in Engines, q # p,
               Step(q) \/ Die(q) \/ \E s \in Sources : BeginOne(q, s)
        PROVE  (asked[p] <= now /\ Unlisted(source[p], asked[p]))'
    BY <1>3, <2>1, <2>3, OthersUntouched
  <2>4. CASE CheckSource(p)
    <3>1. CASE Blockable(p)
      <4>1. now \in Nat /\ allowlist \subseteq Entry
        BY EngineAssumption DEF TypeInv, TypeOK
      <4>2. UNCHANGED <<evidenceVars, source>> /\ asked'[p] = now
        BY <1>b, <2>4, <3>1 DEF CheckSource
      <4>3. \A entry \in allowlist : ~(entry.source = source[p] /\ entry.expires > now)
        BY <3>1 DEF Blockable, Allowlisted
      <4>4. \A entry \in allowlist : entry.expires \in Int
        BY <4>1 DEF Entry, Never
      <4> QED BY <4>1, <4>2, <4>3, <4>4 DEF Unlisted
    <3>2. CASE ~Blockable(p)
      BY <1>3, <2>4, <3>2 DEF CheckSource, Return, TypeInv, TypeOK
    <3> QED BY <3>1, <3>2
  <2>5. ASSUME Step(p) \/ Die(p) \/ \E s \in Sources : BeginOne(p, s), ~CheckSource(p)
        PROVE  phase'[p] # "open"
    BY <2>5 DEF Step, Die, BeginOne, Begin, List, Done, ReadAuth, ReadNetwork, ReadProfile,
                ReadSuccess, ReadAllowlist, ReadActive, StoreDetection, CountDetection,
                OpenBlock, Return, TypeInv, TypeOK
  <2> QED BY <1>3, <2>2, <2>3, <2>4, <2>5 DEF Next
<1> QED BY <1>2, <1>3 DEF ListInv

(***************************************************************************)
(* The counts                                                              *)
(***************************************************************************)
Countable(s) == RowsOf(s) \ uncounted

\* A row is told by its source and evidence.
OneRowPerEvidence ==
    \A r, q \in rows : r.source = q.source /\ r.evidence = q.evidence => r = q

\* A row that is being counted has not been given up.
CountingIsNew == \A p \in Engines : phase[p] = "count" => Matches(p) \cap uncounted = {}

CountsInv ==
    /\ IsFiniteSet(rows) /\ CountsAgree /\ UncountedAreLone
    /\ OneRowPerEvidence /\ CountingIsNew

LEMMA SetsAreFinite ==
    ASSUME IsFiniteSet(rows), NEW s
    PROVE  /\ IsFiniteSet(Countable(s)) /\ Cardinality(Countable(s)) \in Nat
           /\ IsFiniteSet(Counting(s)) /\ Cardinality(Counting(s)) \in Nat
<1>1. Countable(s) \subseteq rows /\ Counting(s) \subseteq Engines
  BY DEF Countable, RowsOf, Counting
<1> QED BY <1>1, EngineAssumption, FS_Subset, FS_CardinalityType

\* What an engine has read of a source without a profile is of lone events.
LEMMA UnprofiledIsLone ==
    ASSUME TypeInv, EvidenceInv, NEW p \in Engines, ~Profiled(source[p]), NEW b \in seen[p]
    PROVE  Lone(b)
<1>1. /\ SourceOf[b] = source[p] /\ at[b] \in (end[p] - Window)..end[p]
      /\ b \in Batches /\ end[p] \in 0..MaxTime
  BY DEF EvidenceInv, EvidenceOf, InOneWindow, TypeInv, TypeOK
<1>2. b \in Stored
  BY <1>1, EngineAssumption DEF Stored, Never
<1> QED BY <1>1, <1>2 DEF Profiled

LEMMA RowsStayApart ==
    ASSUME TypeInv, OneRowPerEvidence, [Next]_vars
    PROVE  OneRowPerEvidence'
<1>1. CASE UNCHANGED rows
  BY <1>1 DEF OneRowPerEvidence
<1>2. ASSUME NEW p \in Engines, NEW x \in Context, ~Known(p), rows' = rows \cup {RowOf(p, x)}
      PROVE  OneRowPerEvidence'
  <2>1. RowOf(p, x).source = source[p] /\ RowOf(p, x).evidence = seen[p]
    BY DEF RowOf, NewRow
  <2>2. \A r \in rows : ~(r.source = source[p] /\ r.evidence = seen[p])
    BY <1>2 DEF Known
  <2> QED BY <1>2, <2>1, <2>2 DEF OneRowPerEvidence
<1> QED BY <1>1, <1>2, RowsGrow

\* Only CountDetection gives rows up, those of what the engine holds.
LEMMA UncountedGrow ==
    ASSUME [Next]_vars
    PROVE  \/ UNCHANGED uncounted
           \/ \E p \in Engines : /\ CountDetection(p) /\ ~Profiled(source[p])
                                /\ uncounted' = uncounted \cup Matches(p)
<1>1. CASE World \/ UNCHANGED vars
  BY <1>1, WorldOnlyFeeds
<1>2. ASSUME NEW p \in Engines, CountDetection(p)
      PROVE  \/ UNCHANGED uncounted
             \/ ~Profiled(source[p]) /\ uncounted' = uncounted \cup Matches(p)
  BY <1>2 DEF CountDetection
<1>3. ASSUME NEW p \in Engines, Step(p) \/ Die(p) \/ \E s \in Sources : BeginOne(p, s),
             ~CountDetection(p)
      PROVE  UNCHANGED uncounted
  BY <1>3 DEF Step, Die, BeginOne, Begin, List, Done, ReadAuth, ReadNetwork, ReadProfile,
              ReadSuccess, ReadAllowlist, ReadActive, StoreDetection, CheckSource, OpenBlock
<1> QED BY <1>1, <1>2, <1>3 DEF Next

LEMMA LoneStay ==
    ASSUME TypeInv, EvidenceInv, UncountedAreLone, [Next]_vars
    PROVE  UncountedAreLone'
<1>1. CASE UNCHANGED uncounted
  BY <1>1 DEF UncountedAreLone, Lone
<1>2. ASSUME NEW p \in Engines, ~Profiled(source[p]), uncounted' = uncounted \cup Matches(p)
      PROVE  UncountedAreLone'
  <2>1. \A r \in Matches(p) : r.evidence = seen[p]
    OBVIOUS
  <2>2. \A b \in seen[p] : Lone(b)
    BY <1>2, UnprofiledIsLone
  <2> QED BY <1>2, <2>1, <2>2 DEF UncountedAreLone, Lone
<1> QED BY <1>1, <1>2, UncountedGrow

LEMMA CountingStaysNew ==
    ASSUME TypeInv, HandledInv, CountingIsNew, [Next]_vars
    PROVE  CountingIsNew'
<1> SUFFICES ASSUME NEW p \in Engines, phase'[p] = "count", NEW r \in uncounted', r \in rows',
                    r.source = source'[p], r.evidence = seen'[p]
             PROVE  FALSE
  BY DEF CountingIsNew
<1>1. /\ source'[p] = source[p] /\ seen'[p] = seen[p]
      /\ phase[p] \in Answering \/ ~Known(p)
  BY AnsweringIsNew DEF Answering
<1>2. phase[p] = "count" \/ ~Known(p)
  <2>1. CASE World \/ UNCHANGED vars
    BY <2>1, WorldOnlyFeeds
  <2>2. ASSUME NEW q \in Engines, q # p, Step(q) \/ Die(q) \/ \E s \in Sources : BeginOne(q, s)
        PROVE  phase'[p] = phase[p]
    BY <2>2, OthersUntouched
  <2>3. ASSUME Step(p) \/ Die(p) \/ \E s \in Sources : BeginOne(p, s), phase[p] \in Answering
        PROVE  FALSE
    BY <2>3 DEF Step, Die, BeginOne, Begin, List, Done, ReadAuth, ReadNetwork, ReadProfile,
                ReadSuccess, ReadAllowlist, ReadActive, StoreDetection, CountDetection,
                CheckSource, OpenBlock, Return, TypeInv, TypeOK, Answering
  <2> QED BY <1>1, <2>1, <2>2, <2>3 DEF Next
<1>3. CASE r \in uncounted
  <2>1. r \in rows
    BY <1>3 DEF TypeInv, TypeOK
  <2>2. Known(p)
    BY <1>1, <2>1 DEF Known
  <2> QED BY <1>1, <1>2, <1>3, <2>1, <2>2 DEF CountingIsNew
<1>4. CASE r \notin uncounted
  <2>1. PICK q \in Engines : CountDetection(q) /\ uncounted' = uncounted \cup Matches(q)
    BY <1>4, UncountedGrow
  <2>2. r \in Matches(q)
    BY <1>4, <2>1
  <2>3. r \in rows /\ source[q] = source[p] /\ seen[q] = seen[p]
    BY <1>1, <2>2
  <2>4. Known(p)
    BY <2>2, <2>3 DEF Known
  <2>5. phase[q] = "count" /\ phase'[q] # "count"
    BY <2>1 DEF CountDetection, Return, TypeInv, TypeOK
  <2> QED BY <1>2, <2>3, <2>4, <2>5 DEF HandledInv, Answering
<1> QED BY <1>3, <1>4

\* What a step does to the numbers of source s: nothing, one row more that is
\* being counted, one count done, one given up, or one lost.
Balance(s, c, k, r, d) ==
    /\ detectionCount'[s] = detectionCount[s] + c
    /\ Cardinality(Counting(s))' = Cardinality(Counting(s)) + k
    /\ Cardinality(Countable(s))' = Cardinality(Countable(s)) + r
    /\ deaths' = deaths + d

LEMMA EngineBalance ==
    ASSUME TypeInv, HandledInv, IsFiniteSet(rows), OneRowPerEvidence, CountingIsNew,
           NEW p \in Engines, Step(p) \/ Die(p) \/ \E s \in Sources : BeginOne(p, s),
           NEW s \in Sources
    PROVE  /\ IsFiniteSet(rows')
           /\ \/ Balance(s, 0, 0, 0, 0) \/ Balance(s, 0, 1, 1, 0) \/ Balance(s, 1, -1, 0, 0)
              \/ Balance(s, 0, -1, -1, 0) \/ Balance(s, 0, -1, 0, 1)
              \/ Balance(s, 0, 0, 0, 1)
<1>f. /\ IsFiniteSet(Counting(s)) /\ Cardinality(Counting(s)) \in Nat
      /\ IsFiniteSet(Countable(s)) /\ Cardinality(Countable(s)) \in Nat
      /\ detectionCount \in [Sources -> Nat] /\ deaths \in Nat
  BY SetsAreFinite, EngineAssumption DEF TypeInv, TypeOK
<1>o. \A q \in Engines \ {p} : phase'[q] = phase[q] /\ source'[q] = source[q]
  BY OthersUntouched
\* An engine that does not come to "count" or leave it, or not for s, changes
\* nothing in Counting.
<1>1. ASSUME (phase[p] = "count" /\ source[p] = s) <=> (phase'[p] = "count" /\ source'[p] = s)
      PROVE  Cardinality(Counting(s))' = Cardinality(Counting(s)) + 0
  <2>1. Counting(s)' = Counting(s)
    BY <1>1, <1>o DEF Counting
  <2> QED BY <1>f, <2>1
<1>2. ASSUME phase[p] = "count", source[p] = s, phase'[p] # "count"
      PROVE  Cardinality(Counting(s))' = Cardinality(Counting(s)) + (-1)
  <2>1. Counting(s)' = Counting(s) \ {p} /\ p \in Counting(s)
    BY <1>2, <1>o DEF Counting
  <2> QED BY <1>f, <2>1, FS_RemoveElement
<1>3. ASSUME phase[p] # "count", phase'[p] = "count", source'[p] = s
      PROVE  Cardinality(Counting(s))' = Cardinality(Counting(s)) + 1
  <2>1. Counting(s)' = Counting(s) \cup {p} /\ p \notin Counting(s)
    BY <1>3, <1>o DEF Counting
  <2> QED BY <1>f, <2>1, FS_AddElement
<1>r. ASSUME UNCHANGED <<rows, uncounted>>
      PROVE  Cardinality(Countable(s))' = Cardinality(Countable(s)) + 0
  BY <1>f, <1>r DEF Countable, RowsOf
<1>4. CASE StoreDetection(p)
  <2>1. PICK x \in Context : IF Known(p)
               THEN Return(p) /\ UNCHANGED rows
               ELSE /\ rows' = rows \cup {RowOf(p, x)}
                    /\ Goto(p, "count")
                    /\ UNCHANGED <<passVars, sourceVars>>
    BY <1>4, StoreForm
  <2>2. phase[p] = "store" /\ UNCHANGED <<countVars, deaths>>
    BY <1>4 DEF StoreDetection
  <2>3. CASE Known(p)
    <3>1. phase'[p] = "next"
      BY <2>1, <2>3 DEF Return, TypeInv, TypeOK
    <3> QED BY <1>1, <1>f, <1>r, <2>1, <2>2, <2>3, <3>1 DEF Balance
  <2>4. CASE ~Known(p)
    <3>1. phase'[p] = "count" /\ source'[p] = source[p] /\ rows' = rows \cup {RowOf(p, x)}
      BY <2>1, <2>4 DEF TypeInv, TypeOK
    <3>2. RowOf(p, x) \notin rows /\ RowOf(p, x).source = source[p]
      BY <2>4 DEF Known, RowOf, NewRow
    <3>u. uncounted \subseteq rows
      BY DEF TypeInv, TypeOK
    <3>3. IsFiniteSet(rows')
      BY <3>1, FS_AddElement
    <3>4. CASE source[p] = s
      <4>1. Countable(s)' = Countable(s) \cup {RowOf(p, x)} /\ RowOf(p, x) \notin Countable(s)
        BY <2>2, <3>1, <3>2, <3>4, <3>u DEF Countable, RowsOf
      <4>2. Cardinality(Countable(s))' = Cardinality(Countable(s)) + 1
        BY <1>f, <4>1, FS_AddElement
      <4> QED BY <1>3, <1>f, <2>2, <3>1, <3>3, <3>4, <4>2 DEF Balance
    <3>5. CASE source[p] # s
      <4>1. Countable(s)' = Countable(s)
        BY <2>2, <3>1, <3>2, <3>5, <3>u DEF Countable, RowsOf
      <4> QED BY <1>1, <1>f, <2>2, <3>1, <3>3, <3>5, <4>1 DEF Balance
    <3> QED BY <3>4, <3>5
  <2> QED BY <2>3, <2>4
<1>5. CASE CountDetection(p)
  <2>1. phase[p] = "count" /\ UNCHANGED <<rows, deaths>>
    BY <1>5 DEF CountDetection
  <2>2. phase'[p] # "count"
    BY <1>5 DEF CountDetection, Return, TypeInv, TypeOK
  <2>3. CASE Profiled(source[p])
    <3>1. detectionCount' = [detectionCount EXCEPT ![source[p]] = @ + 1] /\ UNCHANGED uncounted
      BY <1>5, <2>3 DEF CountDetection
    <3>2. CASE source[p] = s
      BY <1>2, <1>f, <1>r, <2>1, <2>2, <3>1, <3>2 DEF Balance
    <3>3. CASE source[p] # s
      BY <1>1, <1>f, <1>r, <2>1, <2>2, <3>1, <3>3 DEF Balance
    <3> QED BY <3>2, <3>3
  <2>4. CASE ~Profiled(source[p])
    <3>1. UNCHANGED detectionCount /\ uncounted' = uncounted \cup Matches(p)
      BY <1>5, <2>4 DEF CountDetection
    <3>2. PICK r \in Matches(p) : TRUE
      BY <2>1 DEF HandledInv, Answering, Known
    <3>3. Matches(p) = {r} /\ r \notin uncounted
      BY <2>1, <3>2 DEF OneRowPerEvidence, CountingIsNew
    <3>4. r \in rows /\ r.source = source[p]
      BY <3>2
    <3>5. CASE source[p] = s
      <4>1. Countable(s)' = Countable(s) \ {r} /\ r \in Countable(s)
        BY <2>1, <3>1, <3>3, <3>4, <3>5 DEF Countable, RowsOf
      <4>2. Cardinality(Countable(s))' = Cardinality(Countable(s)) + (-1)
        BY <1>f, <4>1, FS_RemoveElement
      <4> QED BY <1>2, <1>f, <2>1, <2>2, <3>1, <3>5, <4>2 DEF Balance
    <3>6. CASE source[p] # s
      <4>1. Countable(s)' = Countable(s)
        BY <2>1, <3>1, <3>3, <3>4, <3>6 DEF Countable, RowsOf
      <4> QED BY <1>1, <1>f, <2>1, <2>2, <3>1, <3>6, <4>1 DEF Balance
    <3> QED BY <3>5, <3>6
  <2> QED BY <2>3, <2>4
<1>6. CASE Die(p)
  <2>1. phase'[p] = "idle" /\ deaths' = deaths + 1 /\ UNCHANGED <<rows, countVars>>
    BY <1>6 DEF Die, TypeInv, TypeOK
  <2>2. CASE phase[p] = "count" /\ source[p] = s
    BY <1>2, <1>f, <1>r, <2>1, <2>2 DEF Balance
  <2>3. CASE ~(phase[p] = "count" /\ source[p] = s)
    BY <1>1, <1>f, <1>r, <2>1, <2>3 DEF Balance
  <2> QED BY <2>2, <2>3
<1>7. ASSUME ~StoreDetection(p), ~CountDetection(p), ~Die(p)
      PROVE  Balance(s, 0, 0, 0, 0) /\ UNCHANGED rows
  <2>1. phase[p] # "count" /\ phase'[p] # "count" /\ UNCHANGED <<rows, countVars, deaths>>
    BY <1>7 DEF Step, BeginOne, Begin, List, Done, ReadAuth, ReadNetwork, ReadProfile,
                ReadSuccess, ReadAllowlist, ReadActive, CheckSource, OpenBlock, Return,
                TypeInv, TypeOK
  <2> QED BY <1>1, <1>f, <1>r, <2>1 DEF Balance
<1> QED BY <1>4, <1>5, <1>6, <1>7

LEMMA CountsStep ==
    TypeInv /\ EvidenceInv /\ HandledInv /\ CountsInv /\ [Next]_vars => CountsInv'
<1> SUFFICES ASSUME TypeInv, EvidenceInv, HandledInv, CountsInv, [Next]_vars
             PROVE  CountsInv'
  OBVIOUS
<1>a. UncountedAreLone' /\ OneRowPerEvidence' /\ CountingIsNew'
  BY LoneStay, RowsStayApart, CountingStaysNew DEF CountsInv
<1>1. CASE World \/ UNCHANGED vars
  BY <1>1, <1>a, WorldOnlyFeeds DEF CountsInv, CountsAgree, RowsOf, Counting
<1>2. ASSUME NEW p \in Engines, Step(p) \/ Die(p) \/ \E s \in Sources : BeginOne(p, s)
      PROVE  CountsInv'
  <2>1. ASSUME NEW s \in Sources
        PROVE  /\ IsFiniteSet(rows')
               /\ LET counted == detectionCount[s] + Cardinality(Counting(s))
                  IN  (/\ counted <= Cardinality(RowsOf(s) \ uncounted)
                       /\ Cardinality(RowsOf(s) \ uncounted) <= counted + deaths)'
    <3>1. /\ Cardinality(Counting(s)) \in Nat /\ Cardinality(Countable(s)) \in Nat
          /\ detectionCount[s] \in Nat /\ deaths \in Nat
      BY SetsAreFinite, EngineAssumption DEF CountsInv, TypeInv, TypeOK
    <3>2. /\ detectionCount[s] + Cardinality(Counting(s)) <= Cardinality(Countable(s))
          /\ Cardinality(Countable(s)) <= detectionCount[s] + Cardinality(Counting(s)) + deaths
      BY DEF CountsInv, CountsAgree, Countable
    <3>3. /\ IsFiniteSet(rows')
          /\ \/ Balance(s, 0, 0, 0, 0) \/ Balance(s, 0, 1, 1, 0) \/ Balance(s, 1, -1, 0, 0)
             \/ Balance(s, 0, -1, -1, 0) \/ Balance(s, 0, -1, 0, 1)
             \/ Balance(s, 0, 0, 0, 1)
      BY <1>2, EngineBalance DEF CountsInv
    <3> QED BY <3>1, <3>2, <3>3 DEF Balance, Countable
  <2>2. IsFiniteSet(rows')
    BY <1>2, RowsGrow, FS_AddElement DEF CountsInv
  <2> QED BY <1>a, <2>1, <2>2 DEF CountsInv, CountsAgree
<1> QED BY <1>1, <1>2 DEF Next

(***************************************************************************)
(* The theorems                                                            *)
(***************************************************************************)
EngineInv == /\ TypeInv /\ EvidenceInv /\ RowsInv
             /\ HandledInv /\ BlocksInv /\ ListInv

LEMMA EngineInvInit == Init => EngineInv
<1> SUFFICES ASSUME Init PROVE EngineInv
  OBVIOUS
<1>1. rows = {} /\ blocks = <<>> /\ (\A p \in Engines : phase[p] = "idle")
  BY DEF Init
<1>2. RowsInv
  BY <1>1 DEF RowsInv
<1>3. HandledInv
  BY <1>1 DEF HandledInv, Answering
<1>4. DOMAIN blocks = {}
  BY <1>1
<1>5. BlocksInv
  BY <1>4 DEF BlocksInv, OneBlockPerEvidence
<1>6. ListInv
  BY <1>1, <1>4 DEF ListInv
<1> QED BY <1>2, <1>3, <1>5, <1>6, TypeInvInit, EvidenceInit DEF EngineInv

LEMMA EngineInvStep == EngineInv /\ [Next]_vars => EngineInv'
  BY TypeInvStep, EvidenceStep, RowsStep, HandledStep, BlocksStep, ListStep DEF EngineInv

LEMMA EngineInvariance == Spec => []EngineInv
  BY EngineInvInit, EngineInvStep, PTL DEF Spec

\* One body of evidence is blocked at most once, however many engines judge it
\* and however often (storage.py:597-656).
THEOREM OneBlock == Spec => []OneBlockPerEvidence
<1>1. EngineInv => OneBlockPerEvidence
  BY DEF EngineInv, BlocksInv
<1> QED BY <1>1, EngineInvariance, PTL

\* Every block rests on enough evidence of an eligible source in one window.
THEOREM BlocksAreEarned == Spec => []BlockIsEarned
<1>1. EngineInv => BlockIsEarned
  <2> SUFFICES ASSUME EngineInv, NEW i \in DOMAIN blocks
               PROVE  \E r \in rows :
                        /\ r.source = blocks[i].source /\ r.evidence = blocks[i].evidence
                        /\ r.decision = "BLOCK" /\ r.source \in Eligible
                        /\ \A b \in r.evidence :
                              SourceOf[b] = r.source /\ at[b] \in (r.end - Window)..r.end
                        /\ Failures(r.evidence) >= BlockingFailures /\ Packets(r.evidence) > 0
    BY DEF BlockIsEarned
  <2>1. PICK r \in rows : /\ r.source = blocks[i].source /\ r.evidence = blocks[i].evidence
                          /\ r.decision = "BLOCK"
    BY DEF EngineInv, BlocksInv, BlockRests
  <2>2. RowSound(r)
    BY DEF EngineInv, RowsInv
  <2> QED BY <2>1, <2>2 DEF RowSound, InOneWindow
<1> QED BY <1>1, EngineInvariance, PTL

\* An allowlist entry that was there before the block is honoured.
THEOREM AllowlistIsHonoured == Spec => []AllowlistHonoured
<1>1. EngineInv => AllowlistHonoured
  BY DEF EngineInv, ListInv, Unlisted, AllowlistHonoured
<1> QED BY <1>1, EngineInvariance, PTL

\* The stored scores grow with the stored evidence.
THEOREM ScoresGrowWithEvidence == Spec => []MoreEvidenceScoresNoLess
<1>1. EngineInv => MoreEvidenceScoresNoLess
  <2> SUFFICES ASSUME EngineInv, NEW r \in rows, NEW q \in rows,
                      r.evidence \subseteq q.evidence,
                      r.correlation.detections <= q.correlation.detections,
                      r.correlation.blocks <= q.correlation.blocks,
                      q.correlation.success => r.correlation.success
               PROVE  Score(r.correlation) <= Score(q.correlation)
    BY DEF MoreEvidenceScoresNoLess
  <2>1. /\ r.evidence \in SUBSET Batches /\ q.evidence \in SUBSET Batches
        /\ r.correlation \in Correlation /\ q.correlation \in Correlation
    BY DEF EngineInv, TypeInv, TypeOK, Row
  <2>2. PICK f \in Facts : r.correlation = Correlate(r.evidence, f)
    BY DEF EngineInv, RowsInv, RowSound
  <2>3. PICK g \in Facts : q.correlation = Correlate(q.evidence, g)
    BY DEF EngineInv, RowsInv, RowSound
  <2>4. /\ Failures(r.evidence) <= Failures(q.evidence)
        /\ Packets(r.evidence) <= Packets(q.evidence)
        /\ Cardinality(OfType(r.evidence, InvalidTypes))
             <= Cardinality(OfType(q.evidence, InvalidTypes))
    BY <2>1, CountGrows DEF Failures, Packets
  <2>5. Cardinality(Names(r.evidence)) <= Cardinality(Names(q.evidence))
    BY <2>1, NamesGrow
  <2>6. /\ r.correlation.failed <= q.correlation.failed
        /\ r.correlation.invalid <= q.correlation.invalid
        /\ r.correlation.usernames <= q.correlation.usernames
        /\ r.correlation.connections <= q.correlation.connections
    BY <2>2, <2>3, <2>4, <2>5 DEF Correlate, Names
  <2>7. AtLeast(q.correlation, r.correlation)
    BY <2>1, <2>6 DEF AtLeast, Correlation
  <2> QED BY <2>1, <2>7, ScoreIsMonotone
<1> QED BY <1>1, EngineInvariance, PTL

LEMMA CountsInvariance == Spec => []CountsInv
<1>1. Init => CountsInv
  <2> SUFFICES ASSUME Init PROVE CountsInv
    OBVIOUS
  <2>1. rows = {} /\ uncounted = {} /\ deaths = 0 /\ (\A p \in Engines : phase[p] = "idle")
    BY DEF Init
  <2>2. \A s \in Sources : RowsOf(s) \ uncounted = {} /\ Counting(s) = {} /\ detectionCount[s] = 0
    BY <2>1 DEF Init, RowsOf, Counting
  <2>3. CountsAgree
    BY <2>1, <2>2, FS_EmptySet DEF CountsAgree
  <2> QED
    BY <2>1, <2>3, FS_EmptySet
    DEF CountsInv, UncountedAreLone, OneRowPerEvidence, CountingIsNew
<1>2. EngineInv /\ CountsInv /\ [Next]_vars => CountsInv'
  BY CountsStep DEF EngineInv
<1> QED BY <1>1, <1>2, EngineInvariance, PTL DEF Spec

\* The detection count of a profile agrees with the detections, up to those
\* under way, those that crashes have lost and those that came before the
\* profile.
THEOREM CountsAreKept == Spec => []CountsAgree
<1>1. CountsInv => CountsAgree
  BY DEF CountsInv
<1> QED BY <1>1, CountsInvariance, PTL

\* No detection comes before the profile but those of events that are the only
\* ones of their batch, each stored and not yet observed.
THEOREM LoneEventsGoUncounted == Spec => []UncountedAreLone
<1>1. CountsInv => UncountedAreLone
  BY DEF CountsInv
<1> QED BY <1>1, CountsInvariance, PTL

(***************************************************************************)
(* The promise of Judgement                                                *)
(***************************************************************************)
LEMMA WorldKeepsPromise ==
    ASSUME TypeInv, World
    PROVE  [Promise!Next]_Promise!vars
<1>1. UNCHANGED <<rows, blocks>>
  BY WorldOnlyFeeds
<1>2. Verdicts' = Verdicts
  BY <1>1 DEF Verdicts
<1>3. CASE Tick
  BY <1>1, <1>2, <1>3 DEF Tick, Promise!Next, Promise!TimePasses
<1>4. ASSUME NEW b \in Batches, StoreBatch(b) PROVE Promise!Next
  <2>1. PICK t \in 0..now : Promise!Arrive(b, t)
    BY <1>1, <1>2, <1>4 DEF StoreBatch, Promise!Arrive
  <2> QED BY <2>1 DEF Promise!Next
<1>5. ASSUME NEW s \in Sources, AddEntry(s) PROVE Promise!Next
  <2>1. PICK t \in (now + 1)..Never : Promise!Allow(s, t)
    BY <1>1, <1>2, <1>5 DEF AddEntry, Promise!Allow
  <2> QED BY <2>1 DEF Promise!Next
<1>6. ASSUME NEW s \in Sources, CloseBlock(s) PROVE Promise!Next
  <2>1. Promise!Close(s)
    BY <1>1, <1>2, <1>6 DEF CloseBlock, Promise!Close
  <2> QED BY <2>1 DEF Promise!Next
<1>7. ASSUME NEW entry \in allowlist, DisableEntry(entry) PROVE Promise!Next
  <2>1. Promise!Withdraw(entry)
    BY <1>1, <1>2, <1>7 DEF DisableEntry, Promise!Withdraw
  <2> QED BY <2>1 DEF Promise!Next
<1>8. ASSUME NEW b \in Batches, ObserveBatch(b) PROVE UNCHANGED Promise!vars
  BY <1>1, <1>2, <1>8 DEF ObserveBatch, Promise!vars
<1> QED BY <1>3, <1>4, <1>5, <1>6, <1>7, <1>8 DEF World

\* A row that was not known is a verdict on evidence nobody has judged.
LEMMA NewRowIsJudgement ==
    ASSUME EngineInv, NEW p \in Engines, NEW x \in Context, StoreDetection(p), ~Known(p),
           x.eligible = (source[p] \in Eligible /\ ~facts[p].allowlisted),
           rows' = rows \cup {RowOf(p, x)}
    PROVE  Promise!Next
<1> DEFINE r == RowOf(p, x)
           v == [source |-> r.source, evidence |-> r.evidence, end |-> r.end,
                 decision |-> r.decision]
<1>1. /\ TypeInv /\ EvidenceInv
      /\ phase[p] = "store" /\ source[p] \in Sources /\ seen[p] \in SUBSET Batches
      /\ facts[p] \in Facts /\ end[p] \in Promise!Times
  <2>1. TypeInv /\ EvidenceInv /\ phase[p] = "store"
    BY DEF EngineInv, StoreDetection, At
  <2>2. source[p] \in Sources
    BY <2>1 DEF TypeInv, Located, At
  <2>3. seen[p] \in SUBSET Batches /\ facts[p] \in Facts /\ end[p] \in 0..MaxTime
    BY <2>1 DEF TypeInv, TypeOK
  <2>4. end[p] \in Promise!Times
    BY <2>3, EngineAssumption DEF Promise!Times, Never
  <2> QED BY <2>1, <2>2, <2>3, <2>4
<1>2. /\ r.source = source[p] /\ r.evidence = seen[p] /\ r.end = end[p]
      /\ r.decision \in Decisions
  <2>1. Decide(Correlate(seen[p], facts[p]), x) \in Decisions
    BY DecisionType
  <2> QED BY <2>1 DEF RowOf, NewRow
<1>3. RowSound(r)
  BY <1>1, NewRowIsSound
<1> HIDE DEF r
<1>4. Verdicts' = Verdicts \cup {v}
  <2>1. Verdicts' = {[source |-> q.source, evidence |-> q.evidence, end |-> q.end,
                      decision |-> q.decision] : q \in rows \cup {r}}
    BY DEF Verdicts, r
  <2> QED BY <2>1 DEF Verdicts
<1>5. ~Promise!Judged(source[p], seen[p])
  BY DEF Promise!Judged, Verdicts, Known
<1>6. seen[p] \in NotableBodies
  BY <1>1 DEF EvidenceInv, EvidenceOf, Judging, NotableBodies
<1>7. \A b \in seen[p] : SourceOf[b] = source[p] /\ at[b] \in (end[p] - Window)..end[p]
  BY <1>2, <1>3 DEF RowSound, InOneWindow
<1>8. r.decision = "BLOCK" => source[p] \in Eligible /\ seen[p] \in ConvictingBodies
  BY <1>1, <1>2, <1>3 DEF RowSound, ConvictingBodies
<1>9. UNCHANGED <<now, at, allowlist, blocks, active>>
  BY DEF StoreDetection, evidenceVars
<1>10. Promise!Judge(source[p], seen[p], end[p])
  BY <1>2, <1>4, <1>5, <1>7, <1>8, <1>9 DEF Promise!Judge
<1> QED BY <1>1, <1>6, <1>10 DEF Promise!Next

\* A block answers the verdict its engine has stored, for the first time.
LEMMA NewBlockIsAnswer ==
    ASSUME EngineInv, NEW p \in Engines, OpenBlock(p), ~UNCHANGED <<blocks, active>>
    PROVE  Promise!Next
<1>1. /\ phase[p] = "open" /\ source[p] \notin active
      /\ blocks' = Append(blocks, [source |-> source[p], evidence |-> seen[p],
                                   time |-> asked[p]])
      /\ active' = active \cup {source[p]}
      /\ UNCHANGED <<evidenceVars, rows>>
  BY DEF OpenBlock, At
<1>2. PICK r \in rows : /\ r.source = source[p] /\ r.evidence = seen[p]
                        /\ r.decision = "BLOCK"
  BY <1>1 DEF EngineInv, HandledInv, Authorized
<1> DEFINE v == [source |-> r.source, evidence |-> r.evidence, end |-> r.end,
                 decision |-> r.decision]
<1>3. v \in Verdicts
  BY DEF Verdicts
<1>4. v.source = source[p] /\ v.evidence = seen[p] /\ v.decision = "BLOCK"
  BY <1>2
<1> HIDE DEF v
<1>5. Verdicts' = Verdicts
  BY <1>1 DEF Verdicts
<1>6. ~Promise!Answered(source[p], seen[p])
  BY <1>1 DEF EngineInv, BlocksInv, BlockRests, Answering, Promise!Answered
<1>7. ~Promise!AllowedBefore(source[p], asked[p])
  BY <1>1 DEF EngineInv, ListInv, Unlisted, Promise!AllowedBefore
<1>8. asked[p] \in 0..now
  <2>1. asked[p] \in 0..MaxTime /\ now \in 0..MaxTime
    BY DEF EngineInv, TypeInv, TypeOK
  <2>2. asked[p] <= now
    BY <1>1 DEF EngineInv, ListInv
  <2> QED BY <2>1, <2>2, EngineAssumption
<1>9. Promise!Answer(v, asked[p])
  BY <1>1, <1>4, <1>5, <1>6, <1>7 DEF Promise!Answer, evidenceVars
<1> QED BY <1>3, <1>8, <1>9 DEF Promise!Next

LEMMA EngineKeepsPromise ==
    ASSUME EngineInv, NEW p \in Engines,
           Step(p) \/ Die(p) \/ \E s \in Sources : BeginOne(p, s)
    PROVE  [Promise!Next]_Promise!vars
<1>1. CASE UNCHANGED <<rows, blocks, active>>
  <2>1. UNCHANGED evidenceVars
    BY EnginesOnlyRead
  <2> QED BY <1>1, <2>1 DEF Promise!vars, Verdicts, evidenceVars
<1>2. CASE StoreDetection(p)
  <2>1. CASE UNCHANGED rows
    BY <1>1, <1>2, <2>1 DEF StoreDetection
  <2>2. CASE ~UNCHANGED rows
    <3>1. PICK x \in Context : /\ ~Known(p)
                               /\ x.eligible = (source[p] \in Eligible /\ ~facts[p].allowlisted)
                               /\ rows' = rows \cup {RowOf(p, x)}
      BY <1>2, <2>2, StoreForm
    <3> QED BY <1>2, <3>1, NewRowIsJudgement
  <2> QED BY <2>1, <2>2
<1>3. CASE OpenBlock(p)
  <2>1. CASE UNCHANGED <<blocks, active>>
    BY <1>1, <1>3, <2>1 DEF OpenBlock
  <2>2. CASE ~UNCHANGED <<blocks, active>>
    BY <1>3, <2>2, NewBlockIsAnswer
  <2> QED BY <2>1, <2>2
<1>4. ASSUME ~StoreDetection(p), ~OpenBlock(p)
      PROVE  UNCHANGED <<rows, blocks, active>>
  BY <1>4 DEF Step, Die, BeginOne, Begin, List, Done, ReadAuth, ReadNetwork, ReadProfile,
              ReadSuccess, ReadAllowlist, ReadActive, CountDetection, CheckSource, tableVars
<1> QED BY <1>1, <1>2, <1>3, <1>4

\* The detection keeps the promise of Judgement, however its engines, the
\* collectors, the operators and the block manager interleave, and wherever
\* they crash: evidence is judged once and answered at most once, and neither a
\* stale reading nor a repeated analysis shows in the tables.
THEOREM EngineKeepsJudgement == Spec => ImplementsJudgement
<1>1. Init => Promise!Init
  BY DEF Init, Promise!Init, Verdicts
<1>2. EngineInv /\ [Next]_vars => [Promise!Next]_Promise!vars
  <2> SUFFICES ASSUME EngineInv, [Next]_vars
               PROVE  [Promise!Next]_Promise!vars
    OBVIOUS
  <2>1. CASE World
    BY <2>1, WorldKeepsPromise DEF EngineInv
  <2>2. ASSUME NEW p \in Engines, Step(p) \/ Die(p) \/ \E s \in Sources : BeginOne(p, s)
        PROVE  [Promise!Next]_Promise!vars
    BY <2>2, EngineKeepsPromise
  <2>3. CASE UNCHANGED vars
    BY <2>3 DEF vars, evidenceVars, tableVars, Promise!vars, Verdicts
  <2> QED BY <2>1, <2>2, <2>3 DEF Next
<1> QED BY <1>1, <1>2, EngineInvariance, PTL
      DEF Spec, ImplementsJudgement, Promise!Spec
(***************************************************************************)
(* What the response sees                                                  *)
(***************************************************************************)
BlocksFor(s) == {i \in DOMAIN blocks : blocks[i].source = s}

\* The engines keep to the table that the response, too, keeps to (theorem
\* ResponseKeepsTable): they block a source only while it is not blocked, and
\* the block count they read is that of the blocks made.
THEOREM EngineKeepsTable == Spec => KeepsBlockTable
<1>1. Init => Table!Init
  <2> SUFFICES ASSUME Init PROVE Table!Init
    OBVIOUS
  <2>1. active = {} /\ DOMAIN blocks = {}
    BY DEF Init
  <2>2. \A s \in Sources : BlockCount(s) = 0
    BY <2>1, FS_EmptySet DEF BlockCount
  <2> QED BY <2>1, <2>2 DEF Table!Init
<1>2. TypeInv /\ [Next]_vars => [Table!Next]_Table!view
  <2> SUFFICES ASSUME TypeInv, [Next]_vars PROVE [Table!Next]_Table!view
    OBVIOUS
  <2>1. ASSUME UNCHANGED blocks
        PROVE  [s \in Sources |-> BlockCount(s)'] = [s \in Sources |-> BlockCount(s)]
    BY <2>1 DEF BlockCount
  <2>2. CASE UNCHANGED <<blocks, active>>
    BY <2>1, <2>2 DEF Table!view
  <2>3. CASE World
    <3>1. UNCHANGED blocks
      BY <2>3, WorldOnlyFeeds
    <3>2. CASE UNCHANGED active
      BY <2>2, <3>1, <3>2
    <3>3. ASSUME NEW s \in Sources, CloseBlock(s) PROVE Table!Next
      BY <2>1, <3>1, <3>3 DEF CloseBlock, Table!Next, Table!Remove
    <3>4. UNCHANGED active \/ \E s \in Sources : CloseBlock(s)
      BY <2>3 DEF World, Tick, StoreBatch, ObserveBatch, AddEntry, DisableEntry, tableVars
    <3> QED BY <3>2, <3>3, <3>4
  <2>4. ASSUME NEW p \in Engines, OpenBlock(p), ~UNCHANGED <<blocks, active>>
        PROVE  Table!Next
    <3>1. /\ phase[p] = "open" /\ source[p] \notin active
          /\ blocks' = Append(blocks, [source |-> source[p], evidence |-> seen[p],
                                       time |-> asked[p]])
          /\ active' = active \cup {source[p]}
      BY <2>4 DEF OpenBlock, At
    <3>2. source[p] \in Sources /\ blocks \in Seq(Block)
      BY <3>1 DEF TypeInv, TypeOK, Located, At
    <3>3. PICK n \in Nat : n = Len(blocks) + 1
      BY <3>2
    <3>4. /\ DOMAIN blocks' = DOMAIN blocks \cup {n} /\ n \notin DOMAIN blocks
          /\ \A i \in DOMAIN blocks : blocks'[i] = blocks[i]
          /\ blocks'[n] = [source |-> source[p], evidence |-> seen[p], time |-> asked[p]]
      <4>1. /\ DOMAIN blocks = 1..Len(blocks) /\ DOMAIN blocks' = 1..n /\ Len(blocks) \in Nat
            /\ \A i \in DOMAIN blocks : blocks'[i] = blocks[i]
            /\ blocks'[n] = [source |-> source[p], evidence |-> seen[p], time |-> asked[p]]
        BY <3>1, <3>2, <3>3
      <4> QED BY <3>3, <4>1
    <3>5. blocks'[n].source = source[p]
      BY <3>4
    <3>6. ASSUME NEW s \in Sources
          PROVE  BlocksFor(s)' = IF s = source[p] THEN BlocksFor(s) \cup {n} ELSE BlocksFor(s)
      BY <3>4, <3>5 DEF BlocksFor
    <3>7. IsFiniteSet(BlocksFor(source[p])) /\ n \notin BlocksFor(source[p])
      <4>1. IsFiniteSet(1..Len(blocks)) /\ BlocksFor(source[p]) \subseteq 1..Len(blocks)
        BY <3>2, FS_Interval DEF BlocksFor
      <4> QED BY <3>4, <4>1, FS_Subset DEF BlocksFor
    <3>8. Cardinality(BlocksFor(source[p]) \cup {n}) = Cardinality(BlocksFor(source[p])) + 1
      BY <3>7, FS_AddElement
    <3>9. \A s \in Sources : BlockCount(s) = Cardinality(BlocksFor(s))
      BY DEF BlockCount, BlocksFor
    <3>10. \A s \in Sources : BlockCount(s)' = Cardinality(BlocksFor(s)')
      BY DEF BlockCount, BlocksFor
    <3>11. [s \in Sources |-> BlockCount(s)']
             = [[s \in Sources |-> BlockCount(s)] EXCEPT ![source[p]] = BlockCount(source[p]) + 1]
      BY <3>2, <3>6, <3>8, <3>9, <3>10
    <3>12. Table!Activate(source[p])
      BY <3>1, <3>2, <3>11 DEF Table!Activate
    <3> QED BY <3>2, <3>12 DEF Table!Next
  <2>5. ASSUME NEW p \in Engines, Step(p) \/ Die(p) \/ \E s \in Sources : BeginOne(p, s),
               ~OpenBlock(p)
        PROVE  UNCHANGED <<blocks, active>>
    BY <2>5 DEF Step, Die, BeginOne, Begin, List, Done, ReadAuth, ReadNetwork, ReadProfile,
                ReadSuccess, ReadAllowlist, ReadActive, StoreDetection, CountDetection,
                CheckSource, tableVars
  <2>6. CASE UNCHANGED vars
    BY <2>2, <2>6 DEF vars, tableVars
  <2> QED BY <2>2, <2>3, <2>4, <2>5, <2>6 DEF Next
<1> QED BY <1>1, <1>2, TypeInvariance, PTL DEF Spec, KeepsBlockTable, Table!Spec
=============================================================================
