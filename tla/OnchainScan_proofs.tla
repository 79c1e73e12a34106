-------------------------- MODULE OnchainScan_proofs --------------------------
(***************************************************************************)
(* Proofs about OnchainScan for any number of proposals, any lives, any    *)
(* sizes of ranges and overlap, and any number of faults.                  *)
(***************************************************************************)
EXTENDS OnchainScan, GovernanceDecision_proofs, FiniteSetTheorems

\* The range under way goes on from what is stored, and what it has read is stored
\* or still to be.
RangeSound ==
  /\ scan.pc \in {"ranges", "range"} => scan.from <= source.cursor + 1
  /\ scan.pc = "range" =>
       /\ \A m \in scan.logs : /\ m.log \in AllLogs(world[m.id])
                               /\ m.id \in scan.todo \/ Recorded(m.id, m.log)
       /\ \A p \in Ids : \A l \in LogsIn(world[p], scan.from, RangeEnd) :
            [id |-> p, log |-> l] \in scan.logs \cup omitted

ScanInv == TypeOK /\ CursorCovers /\ RangeSound

-------------------------------------------------------------------------------
\* What the constants are.
LEMMA Sizes ==
  ASSUME TypeOK
  PROVE  /\ RangeSize \in Nat /\ RangeSize # 0 /\ MaxBlock \in Nat /\ MaxBlock # 0
         /\ Overlap \in Nat /\ head \in Nat /\ head >= 1 /\ head <= MaxBlock
         /\ \A p \in Ids : IsLife(world[p])
         /\ Ids = 1 .. Len(world) /\ Len(world) \in Nat
BY ConstantsAssumption DEF TypeOK, Ids

\* No block has more proposals than there are.
LEMMA CountType ==
  ASSUME TypeOK, NEW b
  PROVE  ProposalCount(b) \in 0 .. Len(world)
<1> DEFINE S == {p \in Ids : world[p].created <= b}
<1>1. Ids = 1 .. Len(world) /\ Len(world) \in Nat
  BY Sizes
<1>2. IsFiniteSet(1 .. Len(world)) /\ Cardinality(1 .. Len(world)) = Len(world)
  BY <1>1, FS_Interval
<1>3. S \subseteq 1 .. Len(world)
  BY <1>1
<1> HIDE DEF S
<1>4. IsFiniteSet(S) /\ Cardinality(S) <= Len(world)
  BY <1>2, <1>3, FS_Subset
<1>5. Cardinality(S) \in Nat
  BY <1>4, FS_CardinalityType
<1> QED BY <1>1, <1>4, <1>5 DEF ProposalCount, S

\* The state of the source when a run is prepared: it is a state, and the cursor is
\* where it was or at the start.
LEMMA PreparedType ==
  ASSUME TypeOK, NEW b \in 1 .. head
  PROVE  /\ Prepared(b) \in Source
         /\ Prepared(b).cursor \in {NoCursor, source.cursor}
         /\ Prepared(b).replay = "silent" => Prepared(b).baseline = "seeding"
         /\ Prepared(b).replay = "live" => Prepared(b).baseline = "complete"
         /\ Prepared(b).baseline = "complete" => Prepared(b).cursor = source.cursor
<1> DEFINE s == InitializeSourceState(b)
<1>1. ProposalCount(b) \in 0 .. Len(world)
  BY CountType
<1>2. b \in 0 .. MaxBlock /\ 0 \in 0 .. MaxBlock
  BY Sizes
<1>3. InitialSourceState(b) \in Source
  BY <1>1, <1>2 DEF InitialSourceState, Source, NoCursor, NoCount
<1>4. /\ s \in Source /\ s.cursor \in {NoCursor, source.cursor}
      /\ s.replay = "silent" => s.baseline = "seeding"
      /\ s.replay = "live" => s.baseline = "complete"
      /\ s.baseline = "complete" => s.cursor = source.cursor
  BY <1>3 DEF InitializeSourceState, TypeOK, InitialSourceState
<1> HIDE DEF s
<1>5. ProposalCount(b) \in NoCount .. Len(world)
  BY <1>1, Sizes DEF NoCount
<1>6. CASE s.count # NoCount
  BY <1>4, <1>6 DEF Prepared, EnsureProposalBoundaryState, s
<1>7. CASE s.count = NoCount /\ s.baseline = "complete"
  <2>1. Prepared(b) = [s EXCEPT !.count = ProposalCount(b)]
    BY <1>7 DEF Prepared, EnsureProposalBoundaryState, s
  <2> QED BY <1>4, <1>5, <2>1 DEF Source
<1>8. CASE s.count = NoCount /\ s.baseline # "complete"
  <2>1. Prepared(b) = [s EXCEPT !.count = ProposalCount(b), !.target = b, !.cursor = NoCursor]
    BY <1>8 DEF Prepared, EnsureProposalBoundaryState, s
  <2>2. NoCursor \in 0 .. MaxBlock
    BY <1>2 DEF NoCursor
  <2> QED BY <1>2, <1>4, <1>5, <1>8, <2>1, <2>2 DEF Source
<1> QED BY <1>6, <1>7, <1>8

\* The end of a range is a block no later than the end of the scan.
LEMMA RangeEndType ==
  ASSUME TypeOK
  PROVE  RangeEnd \in 0 .. MaxBlock /\ RangeEnd <= scan.to
<1>1. scan.from \in Nat /\ scan.to \in Nat /\ scan.to <= MaxBlock
  BY Sizes DEF TypeOK, Scan
<1> QED BY <1>1, Sizes DEF RangeEnd

\* The events of a decision that an older version had stored.
LEMMA StoredEvents ==
  ASSUME NEW d \in Decision, NEW f, f = UpsertedEvents(NoDecision, NoEvents, d, "skipped")
  PROVE  /\ DOMAIN f \subseteq Transitions
         /\ \A t \in DOMAIN f : f[t] \in LifecycleEvent
<1>1. DOMAIN NoEvents = {}
  BY DEF NoEvents
<1>2. DOMAIN NoEvents \subseteq Transitions /\ \A t \in DOMAIN NoEvents : NoEvents[t] \in LifecycleEvent
  BY <1>1
<1> HIDE DEF NoEvents
<1> QED BY <1>2, UpsertedTypes

LEMMA NotRunningType == ASSUME TypeOK PROVE NotRunning \in Scan
BY Sizes DEF NotRunning, Scan

-------------------------------------------------------------------------------
\* A new database, or what an older version had stored, satisfies the invariant.
LEMMA InitInv == Init => ScanInv
<1> SUFFICES ASSUME Init PROVE ScanInv
  OBVIOUS
<1>1. /\ world \in Worlds /\ MaxBlock \in Nat /\ MaxBlock # 0 /\ Len(world) \in Nat
      /\ Ids = 1 .. Len(world) /\ \A p \in Ids : IsLife(world[p])
  BY ConstantsAssumption DEF Init, Ids
<1>2. scan = NotRunning /\ NotRunning \in Scan /\ omitted = {}
  BY <1>1 DEF Init, NotRunning, Scan
<1>3. RangeSound
  BY <1>2 DEF RangeSound, NotRunning
<1>4. CASE NewDatabase
  <2>1. TypeOK
    <3>1. source \in Source /\ source.replay = "none"
      BY <1>1, <1>4 DEF NewDatabase, Source, NoCount, NoCursor
    <3>2. head \in 1 .. MaxBlock /\ scan.observed <= head
      BY <1>1, <1>2, <1>4 DEF NewDatabase, NotRunning
    <3>3. decisions \in [Ids -> Decision \cup {NoDecision}]
      BY <1>4 DEF NewDatabase
    <3>4. DOMAIN events = Ids /\ \A p \in Ids : DOMAIN events[p] = {}
      BY <1>4 DEF NewDatabase, NoEvents
    <3> QED BY <1>1, <1>2, <3>1, <3>2, <3>3, <3>4 DEF TypeOK
  <2>2. CursorCovers
    <3> SUFFICES ASSUME NEW p \in Ids, NEW l \in AllLogs(world[p]), l.block <= source.cursor
                 PROVE  FALSE
      BY DEF CursorCovers
    <3>1. source.cursor = 0
      BY <1>4 DEF NewDatabase, NoCursor
    <3> QED BY <1>1, <3>1, LogCases
  <2> QED BY <1>3, <2>1, <2>2 DEF ScanInv
<1>5. ASSUME NEW b \in LegacyHeads, NEW cursor \in 0 .. b, LegacyDatabase(b, cursor)
      PROVE  ScanInv
  <2> DEFINE D(p) == IF world[p].created > cursor THEN NoDecision
                     ELSE GetDecision(world[p], LogsIn(world[p], 1, cursor), NoDecision, b)
  <2>1. b \in Nat /\ b >= 1 /\ b <= MaxBlock /\ cursor \in Nat
    BY <1>1, ConstantsAssumption
  <2>2. ASSUME NEW p \in Ids
        PROVE  LogsIn(world[p], 1, cursor) \subseteq AllLogs(world[p])
    BY DEF LogsIn
  <2>3. ASSUME NEW p \in Ids, ~(world[p].created > cursor)
        PROVE  D(p) \in Decision
    BY <1>1, <2>1, <2>2, <2>3, GetDecisionType
  <2>4. /\ head = b /\ source.cursor = cursor /\ source \in Source /\ source.replay = "none"
    BY <1>1, <1>5, <2>1 DEF LegacyDatabase, Source, NoCount
  <2>5. /\ decisions = [p \in Ids |-> D(p)]
        /\ events = [p \in Ids |-> IF D(p) = NoDecision THEN NoEvents
                                   ELSE UpsertedEvents(NoDecision, NoEvents, D(p), "skipped")]
    BY <1>5 DEF LegacyDatabase
  <2>6. ASSUME NEW p \in Ids
        PROVE  /\ DOMAIN events[p] \subseteq Transitions
               /\ \A t \in DOMAIN events[p] : events[p][t] \in LifecycleEvent
    <3>1. CASE D(p) = NoDecision
      BY <2>5, <3>1 DEF NoEvents
    <3>2. CASE D(p) # NoDecision
      <4>1. D(p) \in Decision
        BY <2>3, <3>2
      <4>2. events[p] = UpsertedEvents(NoDecision, NoEvents, D(p), "skipped")
        BY <2>5, <3>2
      <4> HIDE DEF D
      <4> QED BY <4>1, <4>2, StoredEvents
    <3> QED BY <3>1, <3>2
  <2>7. TypeOK
    <3>1. decisions \in [Ids -> Decision \cup {NoDecision}]
      <4>1. \A p \in Ids : D(p) \in Decision \cup {NoDecision}
        BY <2>3
      <4> HIDE DEF D
      <4> QED BY <2>5, <4>1
    <3>2. DOMAIN events = Ids
      BY <2>5
    <3>3. scan.observed <= head
      BY <1>2, <2>1, <2>4 DEF NotRunning
    <3> HIDE DEF D
    <3> QED BY <1>1, <1>2, <2>1, <2>4, <2>6, <3>1, <3>2, <3>3 DEF TypeOK
  <2>8. CursorCovers
    <3> SUFFICES ASSUME NEW p \in Ids, NEW l \in AllLogs(world[p]), l.block <= cursor
                 PROVE  Recorded(p, l)
      BY <2>4 DEF CursorCovers
    <3> DEFINE logs == LogsIn(world[p], 1, cursor)
    <3>1. IsLife(world[p]) /\ l.block \in Nat /\ l.block # 0 /\ world[p].created <= l.block
      BY <1>1, LogCases
    <3>2. world[p].created \in Nat
      BY <3>1 DEF IsLife
    <3>3. l \in logs /\ logs \subseteq AllLogs(world[p])
      BY <3>1 DEF LogsIn
    <3>4. decisions[p] = GetDecision(world[p], logs, NoDecision, b)
      BY <2>1, <2>5, <3>1, <3>2
    <3> HIDE DEF logs
    <3>5. Names(decisions[p], l)
      BY <2>1, <3>1, <3>3, <3>4, FirstLookNames
    <3> QED BY <3>5 DEF Names, Recorded
  <2> QED BY <1>3, <2>7, <2>8 DEF ScanInv
<1> QED BY <1>4, <1>5 DEF Init

-------------------------------------------------------------------------------
\* The sets that are named after the world do not change, for it does not.
LEMMA SameSets ==
  ASSUME world' = world
  PROVE  /\ Ids' = Ids /\ Source' = Source /\ Scan' = Scan
         /\ \A p \in Ids : AllLogs(world[p])' = AllLogs(world[p])
BY DEF Ids, Source, Scan

\* A step that stores no observation keeps the state typed.
LEMMA TypeFrame ==
  ASSUME TypeOK, UNCHANGED <<world, decisions, events>>, head' \in 1 .. MaxBlock, head <= head',
         source' \in Source, scan' \in Scan, scan'.observed <= head',
         source'.replay = "silent" => source'.baseline = "seeding",
         source'.replay = "live" => source'.baseline = "complete"
  PROVE  TypeOK'
BY SameSets DEF TypeOK

\* A step that stores no observation and does not move the cursor on keeps it covered.
LEMMA CursorFrame ==
  ASSUME TypeOK, CursorCovers, UNCHANGED <<world, decisions>>, omitted \subseteq omitted',
         source'.cursor \in Nat, source'.cursor <= source.cursor
  PROVE  CursorCovers'
<1> SUFFICES ASSUME NEW p \in Ids, NEW l \in AllLogs(world[p]), l.block <= source'.cursor,
                    [id |-> p, log |-> l] \notin omitted'
             PROVE  Recorded(p, l)'
  BY SameSets DEF CursorCovers
<1>1. l.block \in Nat /\ source.cursor \in Nat
  BY Sizes, LogCases DEF TypeOK, Source
<1>2. l.block <= source.cursor /\ [id |-> p, log |-> l] \notin omitted
  BY <1>1
<1> QED BY <1>2 DEF CursorCovers, Recorded

\* The end of a run leaves nothing to go on from.
LEMMA RangeFrame ==
  ASSUME scan'.pc \notin {"ranges", "range"}
  PROVE  RangeSound'
BY DEF RangeSound

LEMMA Stopped ==
  ASSUME scan' = NotRunning
  PROVE  RangeSound' /\ (TypeOK => scan' \in Scan /\ scan'.observed = 0)
BY RangeFrame, NotRunningType DEF NotRunning

\* The start of a scan.
LEMMA Started ==
  ASSUME TypeOK, NEW phase \in {"baseline", "live"}, NEW b \in 1 .. head, NEW from \in Nat,
         NEW to \in 0 .. MaxBlock, from <= source'.cursor + 1, Start(phase, b, from, to)
  PROVE  scan' \in Scan /\ scan'.observed = b /\ RangeSound'
<1>1. b \in 0 .. MaxBlock
  BY Sizes
<1>2. scan' \in Scan /\ scan'.observed = b /\ scan'.pc = "ranges" /\ scan'.from = from
  BY <1>1, NotRunningType DEF Start, Scan, NotRunning
<1> QED BY <1>2 DEF RangeSound

\* What the observation of a proposal stores, or that it ends the run.
LEMMA Synchronized ==
  ASSUME TypeOK, NEW p \in Ids, NEW logs, logs \subseteq AllLogs(world[p]),
         SynchronizeDecision(p, logs), UNCHANGED <<world, head, source>>
  PROVE  /\ TypeOK'
         /\ \A q \in Ids : \A l \in AllLogs(world[q]) : Recorded(q, l) => Recorded(q, l)'
         /\ \/ scan' = NotRunning
            \/ /\ scan' = [scan EXCEPT !.todo = scan.todo \ {p}, !.processed = scan.processed \cup {p}]
               /\ \A l \in logs : Recorded(p, l)'
<1> DEFINE o == GetDecision(world[p], logs, decisions[p], scan.observed)
           d == MergeGovernanceDecision(decisions[p], o)
<1>1. /\ IsLife(world[p]) /\ decisions[p] \in Decision \cup {NoDecision}
      /\ scan.observed \in Nat
  BY Sizes DEF TypeOK, Scan
<1>2. CASE Failed /\ UNCHANGED <<decisions, events>>
  <2>1. scan' = NotRunning
    BY <1>2 DEF Failed
  <2>2. scan' \in Scan /\ scan'.observed <= head'
    BY <2>1, Stopped, Sizes
  <2>3. TypeOK'
    BY <1>2, <2>2, TypeFrame, Sizes DEF TypeOK
  <2> QED BY <1>2, <2>1, <2>3 DEF Recorded
<1>3. CASE /\ ~MergeRefused(decisions[p], o)
           /\ decisions' = [decisions EXCEPT ![p] = d]
           /\ events' = [events EXCEPT ![p] =
                UpsertedEvents(decisions[p], events[p], d, NotificationStatus)]
           /\ scan' = [scan EXCEPT !.todo = scan.todo \ {p}, !.processed = scan.processed \cup {p}]
  <2>1. o \in Decision
    BY <1>1, GetDecisionType
  <2>2. d \in Decision
    <3> HIDE DEF o
    <3> QED BY <1>1, <1>3, <2>1, Merged
  <2>3. \A l \in AllLogs(world[p]) : l \in logs \/ Names(decisions[p], l) => Names(d, l)
    BY <1>1, LogsAreNamed
  <2> HIDE DEF d, o
  <2>4. decisions'[p] = d /\ \A q \in Ids : q # p => decisions'[q] = decisions[q]
    BY <1>3 DEF TypeOK
  <2>5. \A l : Recorded(p, l)' <=> Names(d, l)
    BY <2>4 DEF Recorded, Names
  <2>6. \A l : Recorded(p, l) <=> Names(decisions[p], l)
    BY DEF Recorded, Names
  <2>7. \A l \in logs : Recorded(p, l)'
    BY <2>3, <2>5
  <2>8. \A q \in Ids : \A l \in AllLogs(world[q]) : Recorded(q, l) => Recorded(q, l)'
    <3> SUFFICES ASSUME NEW q \in Ids, NEW l \in AllLogs(world[q]), Recorded(q, l)
                 PROVE  Recorded(q, l)'
      OBVIOUS
    <3>1. CASE q = p
      BY <2>3, <2>5, <2>6, <3>1
    <3>2. CASE q # p
      BY <2>4, <3>2 DEF Recorded
    <3> QED BY <3>1, <3>2
  <2>9. TypeOK'
    <3>1. decisions' \in [Ids -> Decision \cup {NoDecision}]
      BY <1>3, <2>2 DEF TypeOK
    <3>2. DOMAIN events' = Ids /\ \A q \in Ids : q # p => events'[q] = events[q]
      BY <1>3 DEF TypeOK
    <3>3. events'[p] = UpsertedEvents(decisions[p], events[p], d, NotificationStatus)
      BY <1>3 DEF TypeOK
    <3>4. NotificationStatus \in {"pending", "skipped"}
      BY DEF NotificationStatus
    <3>5. /\ DOMAIN events'[p] \subseteq Transitions
          /\ \A t \in DOMAIN events'[p] : events'[p][t] \in LifecycleEvent
      <4>1. /\ DOMAIN events[p] \subseteq Transitions
            /\ \A t \in DOMAIN events[p] : events[p][t] \in LifecycleEvent
        BY DEF TypeOK
      <4>2. PICK e, g, n : e = decisions[p] /\ g = events[p] /\ n = NotificationStatus
        OBVIOUS
      <4>3. /\ n \in {"pending", "skipped"} /\ DOMAIN g \subseteq Transitions
            /\ \A t \in DOMAIN g : g[t] \in LifecycleEvent
        BY <3>4, <4>1, <4>2
      <4>4. /\ DOMAIN UpsertedEvents(e, g, d, n) \subseteq Transitions
            /\ \A t \in DOMAIN UpsertedEvents(e, g, d, n) :
                 UpsertedEvents(e, g, d, n)[t] \in LifecycleEvent
        BY <2>2, <4>3, UpsertedTypes
      <4> QED BY <3>3, <4>2, <4>4
    <3>6. \A q \in Ids : /\ DOMAIN events'[q] \subseteq Transitions
                         /\ \A t \in DOMAIN events'[q] : events'[q][t] \in LifecycleEvent
      BY <3>2, <3>5 DEF TypeOK
    <3>7. scan' \in Scan /\ scan'.observed = scan.observed
      BY <1>3 DEF TypeOK, Scan
    <3> QED BY <3>1, <3>2, <3>6, <3>7, SameSets DEF TypeOK
  <2> QED BY <1>3, <2>7, <2>8, <2>9
<1> QED BY <1>2, <1>3 DEF SynchronizeDecision, UpsertRefused

-------------------------------------------------------------------------------
\* The invariant is kept by every step.
LEMMA StepInv == ScanInv /\ [Next]_vars => ScanInv'
<1> SUFFICES ASSUME ScanInv, [Next]_vars PROVE ScanInv'
  OBVIOUS
<1> USE DEF ScanInv
<1>1. /\ source \in Source /\ source.cursor \in 0 .. MaxBlock /\ scan \in Scan
      /\ scan.observed <= head /\ head \in 1 .. MaxBlock
      /\ source.cursor \in Nat /\ source.cursor <= source.cursor
      /\ scan.observed \in 0 .. MaxBlock /\ head \in Nat /\ head <= head /\ 0 <= head
      /\ NoCursor = 0 /\ NoCursor \in 0 .. MaxBlock /\ MaxBlock \in Nat /\ head <= MaxBlock
  BY Sizes DEF TypeOK, Source, Scan, NoCursor
<1>2. CASE UNCHANGED vars
  <2>1. TypeOK'
    BY <1>1, <1>2, TypeFrame DEF vars, TypeOK
  <2>2. CursorCovers'
    BY <1>1, <1>2, CursorFrame DEF vars
  <2>3. RangeEnd' = RangeEnd /\ Ids' = Ids /\ \A p : AllLogs(world[p])' = AllLogs(world[p])
    BY <1>2 DEF vars, RangeEnd, Ids
  <2>4. RangeSound'
    BY <1>2, <2>3 DEF vars, RangeSound, Recorded
  <2> QED BY <2>1, <2>2, <2>4
<1>3. CASE Finalize
  <2>1. TypeOK'
    BY <1>1, <1>3, TypeFrame, Sizes DEF Finalize, TypeOK
  <2>2. CursorCovers'
    BY <1>1, <1>3, CursorFrame DEF Finalize
  <2>3. RangeSound'
    BY <1>3, RangeFrame DEF Finalize
  <2> QED BY <2>1, <2>2, <2>3
<1>4. ASSUME NEW b \in 1 .. head, source' = Prepared(b), UNCHANGED <<world, head, decisions, events, omitted>>,
             scan' \in Scan, scan'.observed <= head
      PROVE  TypeOK' /\ CursorCovers'
  <2>1. /\ source' \in Source /\ source'.cursor \in Nat /\ source'.cursor <= source.cursor
        /\ source'.replay = "silent" => source'.baseline = "seeding"
        /\ source'.replay = "live" => source'.baseline = "complete"
    BY <1>1, <1>4, PreparedType DEF NoCursor
  <2> QED BY <1>1, <1>4, <2>1, TypeFrame, CursorFrame
<1>5. CASE BeginRefused
  <2>1. PICK b \in 1 .. head : LatestFinalized(b) /\ source' = Prepared(b)
    BY <1>5 DEF BeginRefused
  <2>2. UNCHANGED <<world, head, decisions, events, scan, omitted>>
    BY <1>5 DEF BeginRefused
  <2>3. RangeSound'
    BY <2>1, <2>2, RangeFrame DEF LatestFinalized
  <2> QED BY <1>1, <1>4, <2>1, <2>2, <2>3
<1>6. CASE BeginBaseline
  <2>1. PICK b \in 1 .. head : /\ source' = Prepared(b)
                               /\ Start("baseline", b, source'.cursor + 1, source'.target)
    BY <1>6 DEF BeginBaseline
  <2>2. UNCHANGED <<world, head, decisions, events, omitted>>
    BY <1>6 DEF BeginBaseline
  <2>3. source'.cursor \in Nat /\ source'.target \in 0 .. MaxBlock
    BY <2>1, PreparedType DEF Source
  <2>4. scan' \in Scan /\ scan'.observed = b /\ RangeSound'
    BY <2>1, <2>3, Started
  <2> QED BY <1>1, <1>4, <2>1, <2>2, <2>4
<1>7. CASE BeginRepair
  <2>1. PICK b \in 1 .. head : /\ LatestFinalized(b)
                               /\ source' = [Prepared(b) EXCEPT !.baseline = "seeding",
                                              !.replay = "silent", !.cursor = NoCursor]
    BY <1>7 DEF BeginRepair, ResetCoverageCursor
  <2>2. UNCHANGED <<world, head, decisions, events, scan, omitted>>
    BY <1>7 DEF BeginRepair
  <2>3. RangeSound'
    BY <2>1, <2>2, RangeFrame DEF LatestFinalized
  <2>4. /\ source' \in Source /\ source'.cursor = 0 /\ source'.replay = "silent"
        /\ source'.baseline = "seeding"
    BY <1>1, <2>1, PreparedType DEF Source
  <2>5. TypeOK' /\ CursorCovers'
    BY <1>1, <2>2, <2>4, TypeFrame, CursorFrame
  <2> QED BY <2>3, <2>5
<1>8. CASE BeginLive
  <2>1. PICK b \in 1 .. head : /\ Prepared(b).baseline = "complete" /\ source' = Prepared(b)
                               /\ Start("live", b, ScanFrom, b)
    BY <1>8 DEF BeginLive
  <2>2. UNCHANGED <<world, head, decisions, events, omitted>>
    BY <1>8 DEF BeginLive
  <2>3. source'.cursor = source.cursor
    BY <2>1, PreparedType
  <2>4. ScanFrom \in Nat /\ ScanFrom <= source'.cursor + 1
    BY <1>1, <2>3, Sizes DEF ScanFrom
  <2>5. b \in 0 .. MaxBlock
    BY Sizes
  <2>6. scan' \in Scan /\ scan'.observed = b /\ RangeSound'
    BY <2>1, <2>4, <2>5, Started
  <2> QED BY <1>1, <1>4, <2>1, <2>2, <2>6
<1>9. CASE GetEvents
  <2> DEFINE found == UNION {{[id |-> p, log |-> l] : l \in LogsIn(world[p], scan.from, RangeEnd)} : p \in Ids}
  <2>1. PICK answer \in SUBSET found :
          /\ omitted' = omitted \cup (found \ answer)
          /\ scan' = [scan EXCEPT !.pc = "range", !.logs = answer, !.todo = {l.id : l \in answer}]
    BY <1>9 DEF GetEvents
  <2>2. UNCHANGED <<world, head, decisions, events, source>> /\ scan.pc = "ranges"
    BY <1>9 DEF GetEvents
  <2>3. \A m \in found : \E p \in Ids : \E l \in LogsIn(world[p], scan.from, RangeEnd) :
          m = [id |-> p, log |-> l]
    OBVIOUS
  <2>4. \A p \in Ids : \A l \in LogsIn(world[p], scan.from, RangeEnd) : [id |-> p, log |-> l] \in found
    OBVIOUS
  <2> HIDE DEF found
  <2>5. \A p \in Ids : \A l \in LogsIn(world[p], scan.from, RangeEnd) :
          l \in AllLogs(world[p]) /\ l \in Logs
    <3> SUFFICES ASSUME NEW p \in Ids, NEW l \in LogsIn(world[p], scan.from, RangeEnd)
                 PROVE  l \in AllLogs(world[p]) /\ l \in Logs
      OBVIOUS
    <3>1. l \in AllLogs(world[p]) /\ IsLife(world[p])
      BY Sizes DEF LogsIn
    <3>2. l.block \in Nat /\ l.type \in {"created", "canceled", "queued", "executed"}
      BY <3>1, LogCases
    <3>3. l = [type |-> l.type, block |-> l.block]
      BY <3>1 DEF AllLogs
    <3> QED BY <3>1, <3>2, <3>3 DEF Logs
  <2>6. \A m \in answer : m \in [id : Ids, log : Logs] /\ m.log \in AllLogs(world[m.id])
    BY <2>1, <2>3, <2>5
  <2>7. /\ scan' \in Scan /\ scan'.observed = scan.observed /\ scan'.pc = "range"
        /\ scan'.from = scan.from /\ scan'.to = scan.to /\ scan'.logs = answer
        /\ scan'.todo = {l.id : l \in answer}
    <3>1. answer \in SUBSET [id : Ids, log : Logs]
      BY <2>6
    <3>2. {l.id : l \in answer} \in SUBSET Ids
      BY <3>1
    <3> QED BY <1>1, <2>1, <3>1, <3>2 DEF Scan
  <2>8. TypeOK'
    BY <1>1, <2>2, <2>7, TypeFrame DEF TypeOK
  <2>9. CursorCovers'
    BY <1>1, <2>1, <2>2, CursorFrame
  <2>10. RangeEnd' = RangeEnd
    BY <2>7 DEF RangeEnd
  <2>11. \A p \in Ids : \A l \in LogsIn(world[p], scan.from, RangeEnd) :
           [id |-> p, log |-> l] \in answer \cup omitted'
    BY <2>1, <2>4
  <2>12. scan.from <= source.cursor + 1
    BY <2>2 DEF RangeSound
  <2>13. RangeSound'
    BY <2>2, <2>6, <2>7, <2>10, <2>11, <2>12, SameSets DEF RangeSound
  <2> QED BY <2>8, <2>9, <2>13
<1>10. CASE SyncNext
  <2>1. PICK p \in scan.todo : SynchronizeDecision(p, ReadLogs(p))
    BY <1>10 DEF SyncNext
  <2>2. UNCHANGED <<world, head, source, omitted>> /\ scan.pc = "range"
    BY <1>10 DEF SyncNext
  <2>3. p \in Ids
    BY <1>1 DEF Scan
  <2>4. ReadLogs(p) \subseteq AllLogs(world[p])
    BY <2>2 DEF RangeSound, ReadLogs
  <2>5. /\ TypeOK'
        /\ \A q \in Ids : \A l \in AllLogs(world[q]) : Recorded(q, l) => Recorded(q, l)'
        /\ \/ scan' = NotRunning
           \/ /\ scan' = [scan EXCEPT !.todo = scan.todo \ {p}, !.processed = scan.processed \cup {p}]
              /\ \A l \in ReadLogs(p) : Recorded(p, l)'
    BY <2>1, <2>2, <2>3, <2>4, Synchronized
  <2>6. CursorCovers'
    BY <2>2, <2>5, SameSets DEF CursorCovers
  <2>7. RangeSound'
    <3>1. CASE scan' = NotRunning
      BY <3>1, Stopped
    <3>2. CASE /\ scan' = [scan EXCEPT !.todo = scan.todo \ {p}, !.processed = scan.processed \cup {p}]
               /\ \A l \in ReadLogs(p) : Recorded(p, l)'
      <4>1. /\ scan'.pc = "range" /\ scan'.from = scan.from /\ scan'.to = scan.to
            /\ scan'.logs = scan.logs /\ scan'.todo = scan.todo \ {p}
        BY <1>1, <2>2, <3>2 DEF Scan
      <4>2. RangeEnd' = RangeEnd
        BY <4>1 DEF RangeEnd
      <4>3. \A m \in scan.logs : m.id \in Ids /\ m.log \in AllLogs(world[m.id])
        BY <1>1, <2>2 DEF RangeSound, Scan
      <4>4. \A m \in scan.logs : m.id \in scan'.todo \/ Recorded(m.id, m.log)'
        <5> SUFFICES ASSUME NEW m \in scan.logs, m.id \notin scan'.todo
                     PROVE  Recorded(m.id, m.log)'
          OBVIOUS
        <5>1. CASE m.id = p
          BY <3>2, <5>1 DEF ReadLogs
        <5>2. CASE m.id # p
          <6>1. Recorded(m.id, m.log)
            BY <2>2, <4>1, <5>2 DEF RangeSound
          <6> QED BY <2>5, <4>3, <6>1
        <5> QED BY <5>1, <5>2
      <4>5. /\ scan.from <= source.cursor + 1
            /\ \A q \in Ids : \A l \in LogsIn(world[q], scan.from, RangeEnd) :
                 [id |-> q, log |-> l] \in scan.logs \cup omitted
        BY <2>2 DEF RangeSound
      <4> QED BY <2>2, <4>1, <4>2, <4>3, <4>4, <4>5, SameSets DEF RangeSound
    <3> QED BY <2>5, <3>1, <3>2
  <2> QED BY <2>5, <2>6, <2>7
<1>11. CASE EndRange
  <2>1. /\ scan.pc = "range" /\ scan.todo = {}
        /\ source' = [source EXCEPT !.cursor = IF RangeEnd >= source.cursor THEN RangeEnd ELSE source.cursor]
        /\ scan' = [scan EXCEPT !.pc = "ranges", !.from = RangeEnd + 1, !.logs = {}]
        /\ UNCHANGED <<world, head, decisions, events, omitted>>
    BY <1>11 DEF EndRange
  <2>2. RangeEnd \in 0 .. MaxBlock
    BY RangeEndType
  <2>3. /\ source' \in Source /\ source'.replay = source.replay /\ source'.baseline = source.baseline
        /\ source'.cursor = IF RangeEnd >= source.cursor THEN RangeEnd ELSE source.cursor
    BY <1>1, <2>1, <2>2 DEF Source
  <2>4. /\ scan' \in Scan /\ scan'.observed = scan.observed /\ scan'.pc = "ranges"
        /\ scan'.from = RangeEnd + 1
    <3>1. RangeEnd + 1 \in Nat /\ {} \in SUBSET [id : Ids, log : Logs]
      BY <1>1, <2>2
    <3> QED BY <1>1, <2>1, <3>1 DEF Scan
  <2>5. TypeOK'
    BY <1>1, <2>1, <2>3, <2>4, TypeFrame DEF TypeOK
  <2>6. CursorCovers'
    <3> SUFFICES ASSUME NEW p \in Ids, NEW l \in AllLogs(world[p]), l.block <= source'.cursor,
                        [id |-> p, log |-> l] \notin omitted
                 PROVE  Recorded(p, l)'
      BY <2>1, SameSets DEF CursorCovers
    <3>1. l.block \in Nat /\ scan.from \in Nat
      BY <1>1, Sizes, LogCases DEF Scan
    <3>2. CASE l.block <= source.cursor
      BY <2>1, <3>2 DEF CursorCovers, Recorded
    <3>3. CASE ~(l.block <= source.cursor)
      <4>1. scan.from <= l.block /\ l.block <= RangeEnd
        BY <1>1, <2>1, <2>2, <2>3, <3>1, <3>3 DEF RangeSound
      <4>2. l \in LogsIn(world[p], scan.from, RangeEnd)
        BY <4>1 DEF LogsIn
      <4>3. [id |-> p, log |-> l] \in scan.logs
        BY <2>1, <4>2 DEF RangeSound
      <4>4. Recorded(p, l)
        BY <2>1, <4>3 DEF RangeSound
      <4> QED BY <2>1, <4>4 DEF Recorded
    <3> QED BY <3>2, <3>3
  <2>7. RangeSound'
    BY <1>1, <2>2, <2>3, <2>4 DEF RangeSound
  <2> QED BY <2>5, <2>6, <2>7
<1>12. CASE RangesDone
  <2>1. UNCHANGED <<world, head, decisions, events, source, omitted>>
    BY <1>12 DEF RangesDone
  <2>2. scan' \in Scan /\ scan'.observed = scan.observed /\ scan'.pc \in {"coverage", "refresh"}
    BY <1>1, <1>12 DEF RangesDone, Scan
  <2> QED BY <1>1, <2>1, <2>2, TypeFrame, CursorFrame, RangeFrame DEF TypeOK
<1>13. CASE RefreshNext
  <2>1. PICK p \in scan.todo : SynchronizeDecision(p, {})
    BY <1>13 DEF RefreshNext
  <2>2. UNCHANGED <<world, head, source, omitted>> /\ scan.pc = "refresh"
    BY <1>13 DEF RefreshNext
  <2>3. p \in Ids
    BY <1>1 DEF Scan
  <2>4. /\ TypeOK'
        /\ \A q \in Ids : \A l \in AllLogs(world[q]) : Recorded(q, l) => Recorded(q, l)'
        /\ \/ scan' = NotRunning
           \/ scan' = [scan EXCEPT !.todo = scan.todo \ {p}, !.processed = scan.processed \cup {p}]
    BY <2>1, <2>2, <2>3, Synchronized
  <2>5. CursorCovers'
    BY <2>2, <2>4, SameSets DEF CursorCovers
  <2>6. scan'.pc \in {"idle", "refresh"}
    <3>1. CASE scan' = NotRunning
      BY <3>1 DEF NotRunning
    <3>2. CASE scan' = [scan EXCEPT !.todo = scan.todo \ {p}, !.processed = scan.processed \cup {p}]
      BY <1>1, <2>2, <3>2 DEF Scan
    <3> QED BY <2>4, <3>1, <3>2
  <2> QED BY <2>4, <2>5, <2>6, RangeFrame
<1>14. CASE RefreshDone
  <2>1. UNCHANGED <<world, head, decisions, events, source, omitted>>
    BY <1>14 DEF RefreshDone
  <2>2. scan' \in Scan /\ scan'.observed = scan.observed /\ scan'.pc = "coverage"
    BY <1>1, <1>14 DEF RefreshDone, Scan
  <2> QED BY <1>1, <2>1, <2>2, TypeFrame, CursorFrame, RangeFrame DEF TypeOK
<1>15. CASE BaselineIncomplete
  <2>1. /\ UNCHANGED <<world, head, decisions, events, omitted>> /\ scan' = NotRunning
        /\ source' = [source EXCEPT !.baseline = "seeding", !.replay = "silent", !.cursor = NoCursor]
    BY <1>15 DEF BaselineIncomplete, ResetCoverageCursor, Failed
  <2>2. /\ source' \in Source /\ source'.cursor = 0 /\ source'.replay = "silent"
        /\ source'.baseline = "seeding"
    BY <1>1, <2>1 DEF Source
  <2> QED BY <1>1, <2>1, <2>2, TypeFrame, CursorFrame, Stopped
<1>16. CASE CompleteBaseline
  <2>1. /\ UNCHANGED <<world, head, decisions, events, omitted>>
        /\ source' = [source EXCEPT !.baseline = "complete", !.replay = "none"]
        /\ scan' = [scan EXCEPT !.pc = "ranges", !.phase = "catchUp",
                          !.from = source.cursor + 1, !.to = scan.observed, !.processed = {}]
    BY <1>16 DEF CompleteBaseline
  <2>2. source' \in Source /\ source'.cursor = source.cursor /\ source'.replay = "none"
    BY <1>1, <2>1 DEF Source
  <2>3. /\ scan' \in Scan /\ scan'.observed = scan.observed /\ scan'.pc = "ranges"
        /\ scan'.from = source.cursor + 1
    <3>1. source.cursor + 1 \in Nat /\ {} \in SUBSET Ids
      BY <1>1
    <3> QED BY <1>1, <2>1, <3>1 DEF Scan
  <2>4. RangeSound'
    BY <1>1, <2>2, <2>3 DEF RangeSound
  <2> QED BY <1>1, <2>1, <2>2, <2>3, <2>4, TypeFrame, CursorFrame
<1>17. CASE LiveIncomplete
  <2>1. /\ UNCHANGED <<world, head, decisions, events, omitted>> /\ scan' = NotRunning
        /\ source' = [source EXCEPT !.baseline = "complete", !.replay = "live", !.cursor = NoCursor]
    BY <1>17 DEF LiveIncomplete, ResetCoverageCursor, Failed
  <2>2. /\ source' \in Source /\ source'.cursor = 0 /\ source'.replay = "live"
        /\ source'.baseline = "complete"
    BY <1>1, <2>1 DEF Source
  <2> QED BY <1>1, <2>1, <2>2, TypeFrame, CursorFrame, Stopped
<1>18. CASE RecordSuccess
  <2>1. /\ UNCHANGED <<world, head, decisions, events, omitted>> /\ scan' = NotRunning
        /\ source' = [source EXCEPT !.replay = "none", !.success = scan.observed]
    BY <1>18 DEF RecordSuccess
  <2>2. /\ source' \in Source /\ source'.cursor = source.cursor /\ source'.replay = "none"
    BY <1>1, <2>1 DEF Source, Scan
  <2> QED BY <1>1, <2>1, <2>2, TypeFrame, CursorFrame, Stopped
<1>19. CASE Abort
  <2>1. UNCHANGED <<world, head, decisions, events, source, omitted>> /\ scan' = NotRunning
    BY <1>19 DEF Abort, Failed
  <2> QED BY <1>1, <2>1, TypeFrame, CursorFrame, Stopped DEF TypeOK
<1> QED BY <1>2, <1>3, <1>5, <1>6, <1>7, <1>8, <1>9, <1>10, <1>11, <1>12, <1>13, <1>14, <1>15,
           <1>16, <1>17, <1>18, <1>19 DEF Next, Step

LEMMA Invariant == Spec => []ScanInv
BY InitInv, StepInv, PTL DEF Spec

\* The state of a scan is what it is declared to be, whatever an older version left
\* behind and however runs are refused, broken off and repeated.
THEOREM TypeCorrect == Spec => []TypeOK
<1>1. ScanInv => TypeOK
  BY DEF ScanInv
<1> QED BY <1>1, Invariant, PTL

\* The cursor never passes a log that is not in the store, unless the provider left it
\* out of an answer: for any number of proposals, sizes of ranges and overlap, through
\* failed runs, refused observations, overlaps, replays and heads that lag behind.
THEOREM CursorCovered == Spec => []CursorCovers
<1>1. ScanInv => CursorCovers
  BY DEF ScanInv
<1> QED BY <1>1, Invariant, PTL

-------------------------------------------------------------------------------
(* What is stored is true of the chain, and what a run has read is of the block it *)
(* is pinned to: what a completed baseline and a successful run know.              *)

\* What is stored is sound, and the events are those of the decision.
StoreSound ==
  \A p \in Ids :
    /\ Stored(p) => /\ Sound(world[p], decisions[p]) /\ decisions[p].observed <= head
                    /\ EventsFit(world[p], decisions[p], events[p])
    /\ ~Stored(p) => DOMAIN events[p] = {}

\* The decision has the state that the proposal has at the block of the run.
Current(p) == StatusAt(world[p], scan.observed) = decisions[p].status

\* Where a run stands.
RunSound ==
  scan.pc # "idle" =>
    /\ scan.phase = "baseline" => source.baseline = "seeding" /\ scan.to = source.target
    /\ scan.phase # "baseline" => source.baseline = "complete" /\ scan.to = scan.observed
    /\ scan.pc = "coverage" => scan.phase # "baseline"
    /\ source.count # NoCount
    /\ source.target <= scan.observed /\ source.cursor <= scan.observed
    /\ scan.phase # "baseline" /\ scan.pc \in {"refresh", "coverage"} => source.cursor = scan.observed
    /\ scan.pc = "range" => /\ \A m \in scan.logs : m.log.block <= scan.to
                            /\ \A p \in scan.todo : \E m \in scan.logs : m.id = p

\* What a run has done for the decisions that may still change.
RefreshSound ==
  scan.pc # "idle" =>
    /\ \A p \in scan.processed : Stored(p) /\ Current(p)
    /\ scan.pc = "refresh" => /\ \A p \in scan.todo : Stored(p)
                              /\ \A p \in Ids : Stored(p) /\ ~Terminal(decisions[p]) =>
                                                  p \in scan.todo \cup scan.processed
    /\ scan.phase = "catchUp" \/ scan.pc = "coverage" =>
         \A p \in Ids : Stored(p) => Terminal(decisions[p]) \/ Current(p)

\* A complete baseline knows every transition up to its target.
HistoryKnown ==
  /\ source.baseline # "none" /\ source.count # NoCount =>
       \A p \in Ids : world[p].created <= source.target => p <= source.count \/ Stored(p)
  /\ source.baseline = "complete" =>
       \A p \in Ids : world[p].created <= source.target =>
         /\ Stored(p)
         /\ \A t \in Transitions : By(HappenedAt(world[p], t), source.target) =>
              t \in DOMAIN events[p] \/ (t = "expired" /\ decisions[p].status = "canceled")

Silent ==
  /\ source.baseline = "none" => source.success = 0 /\ \A p \in Ids : ~Stored(p)
  /\ \A p \in Ids : \A t \in DOMAIN events[p] :
       source.count = NoCount \/ By(HappenedAt(world[p], t), source.target) =>
         events[p][t].status = "skipped"

\* Until it is complete, a baseline that is not repaired knows no log after its target.
Announced ==
  ~repaired =>
    /\ source.baseline # "complete" =>
         /\ completed = 0
         /\ \A p \in Ids : Stored(p) =>
              /\ world[p].created <= source.target
              /\ \A k \in {decisions[p].created, decisions[p].canceled, decisions[p].queued,
                           decisions[p].executed} : k <= source.target
    /\ NewsIsAnnounced

FullInv == ScanInv /\ StoreSound /\ RunSound /\ RefreshSound /\ HistoryKnown /\ Silent /\ Announced

-------------------------------------------------------------------------------
(* What an accepted observation changes.                                    *)

\* The blocks of the references of a decision.
References(d) == {d.created, d.canceled, d.queued, d.executed}

\* A decision and its events after an observation that was accepted.
Accepted(p, logs) ==
  /\ scan' = [scan EXCEPT !.todo = scan.todo \ {p}, !.processed = scan.processed \cup {p}]
  /\ \A q \in Ids : q # p => decisions'[q] = decisions[q] /\ events'[q] = events[q]
  /\ decisions'[p] \in Decision /\ Sound(world[p], decisions'[p])
  /\ decisions'[p].observed <= scan.observed
  /\ StatusAt(world[p], scan.observed) = decisions'[p].status
  /\ EventsFit(world[p], decisions'[p], events'[p])
  /\ Stored(p) /\ decisions[p].status = "canceled" => decisions'[p].status = "canceled"
  /\ References(decisions'[p]) \subseteq {0} \cup References(decisions[p]) \cup {l.block : l \in logs}
  /\ DOMAIN events[p] \subseteq DOMAIN events'[p]
  /\ \A t \in DOMAIN events'[p] :
       /\ t \in DOMAIN events[p] => events'[p][t].status = events[p][t].status
       /\ t \notin DOMAIN events[p] => /\ events'[p][t].status = NotificationStatus
                                       /\ t \in ImpliedTransitions(decisions'[p])

\* A stored decision is one.
LEMMA StoredType ==
  ASSUME TypeOK, NEW p \in Ids
  PROVE  /\ decisions[p] \in Decision \cup {NoDecision}
         /\ Stored(p) => decisions[p] \in Decision
         /\ ~Stored(p) => decisions[p] = NoDecision
BY DEF TypeOK, Stored

LEMMA DecisionsAreStored == \A d \in Decision : d # NoDecision
BY DEF Decision, NoDecision, Statuses

LEMMA SyncAccepted ==
  ASSUME TypeOK, StoreSound, NEW p \in Ids, NEW logs, logs \subseteq AllLogs(world[p]),
         Stored(p) \/ world[p].created <= scan.observed,
         SynchronizeDecision(p, logs)
  PROVE  \/ scan' = NotRunning /\ UNCHANGED <<decisions, events>>
         \/ Accepted(p, logs)
<1> DEFINE h == world[p]
           e == decisions[p]
           ev == events[p]
           b == scan.observed
           o == GetDecision(h, logs, e, b)
           d == MergeGovernanceDecision(e, o)
           f == UpsertedEvents(e, ev, d, NotificationStatus)
<1>1. /\ IsLife(h) /\ e \in Decision \cup {NoDecision} /\ b \in Nat /\ h.created \in Nat
      /\ DOMAIN ev \subseteq Transitions /\ \A t \in DOMAIN ev : ev[t] \in LifecycleEvent
  BY Sizes DEF TypeOK, Scan, IsLife
<1>2. e = NoDecision \/ (e \in Decision /\ Sound(h, e))
  BY StoredType DEF StoreSound
<1>3. IF e = NoDecision THEN DOMAIN ev = {} ELSE EventsFit(h, e, ev)
  BY DEF StoreSound, Stored
<1>4. CASE scan' = NotRunning /\ UNCHANGED <<decisions, events>>
  BY <1>4
<1>5. CASE /\ ~GetDecisionThrows(h, logs, b) /\ ~MergeRefused(e, o)
           /\ decisions' = [decisions EXCEPT ![p] = d]
           /\ events' = [events EXCEPT ![p] = f]
           /\ scan' = [scan EXCEPT !.todo = scan.todo \ {p}, !.processed = scan.processed \cup {p}]
  <2>1. o \in Decision /\ o.observed = b
    BY <1>1, GetDecisionType DEF GetDecision
  <2>2. h.created <= b
    <3>1. CASE e = NoDecision
      BY <3>1 DEF Stored
    <3>2. CASE e # NoDecision
      <4>1. e \in Decision /\ h.created <= e.observed /\ e.observed \in Nat
        BY <1>2, <3>2 DEF Sound, Decision
      <4>2. e.observed <= o.observed
        <5> HIDE DEF o, e
        <5> QED BY <1>1, <1>5, <2>1, <3>2, MergedState DEF d
      <4> QED BY <1>1, <2>1, <4>1, <4>2
    <3> QED BY <3>1, <3>2
  <2>3. DecisionObservationValid(o)
    BY <1>5 DEF MergeRefused
  <2>4. Sound(h, o) /\ o.status = StatusAt(h, b)
    BY <1>1, <1>2, <1>5, <2>2, <2>3, SoundObserved
  <2> HIDE DEF h, e, ev, b, o
  <2>5. d \in Decision /\ Sound(h, d) /\ d.status = o.status /\ d.observed <= b
    BY <1>1, <1>2, <1>5, <2>1, <2>4, SoundMerged
  <2>6. EventsFit(h, d, f)
    <3> HIDE DEF d
    <3>1. d = MergeGovernanceDecision(e, o)
      BY DEF d
    <3> QED BY <1>1, <1>2, <1>3, <1>5, <2>1, <2>4, <2>5, <3>1, EventsFitMerged
  <2>7. e # NoDecision /\ e.status = "canceled" => d.status = "canceled"
    <3>1. e # NoDecision => d.status = e.status \/ d.status \in AllowedStatusTransitions[e.status]
      BY <1>1, <1>5, <2>1, Merged
    <3> QED BY <3>1 DEF AllowedStatusTransitions
  <2>8. References(d) \subseteq {0} \cup References(e) \cup {l.block : l \in logs}
    <3>1. /\ o.created = FirstOf("created", logs) /\ o.queued = FirstOf("queued", logs)
          /\ o.executed = FirstOf("executed", logs)
          /\ o.canceled = CanonicalCancellationReference(FirstOf("canceled", logs), e)
      BY DEF o, GetDecision
    <3>2. \A type : FirstOf(type, logs) \in {0} \cup {l.block : l \in logs}
      <4>1. \A l \in logs : l.block \in Nat
        BY <1>1, LogCases DEF h
      <4> QED BY <4>1, FirstOfLogs
    <3>3. o.canceled \in {e.canceled, FirstOf("canceled", logs)}
      BY <3>1 DEF CanonicalCancellationReference
    <3>4. /\ d.created \in {o.created, e.created} /\ d.canceled \in {o.canceled, e.canceled}
          /\ d.queued \in {o.queued, e.queued} /\ d.executed \in {o.executed, e.executed}
      BY <1>1, <2>1, MergedReferences DEF OrElse
    <3> QED BY <3>1, <3>2, <3>3, <3>4 DEF References
  <2>10. /\ DOMAIN f = DOMAIN ev \cup NewEvents(e, ev, d)
         /\ \A t \in DOMAIN ev : f[t].status = ev[t].status
         /\ \A t \in NewEvents(e, ev, d) : f[t].status = NotificationStatus
    <3> HIDE DEF d
    <3>1. f = UpsertedEvents(e, ev, d, NotificationStatus)
      BY DEF f
    <3> HIDE DEF f
    <3>2. \A t \in DOMAIN ev : ev[t] \in LifecycleEvent
      BY <1>1
    <3>3. DOMAIN f = DOMAIN ev \cup NewEvents(e, ev, d)
      BY <3>1 DEF UpsertedEvents
    <3>4. \A t \in DOMAIN ev : f[t].status = ev[t].status
      BY <3>1, <3>2, UpsertedStatus
    <3>5. \A t \in NewEvents(e, ev, d) : f[t].status = NotificationStatus
      BY <3>1, <3>2, UpsertedStatus
    <3> QED BY <3>3, <3>4, <3>5
  <2>11. \A t \in NewEvents(e, ev, d) : t \in ImpliedTransitions(d)
    BY DEF NewEvents
  <2> HIDE DEF d, f
  <2>12. /\ decisions'[p] = d /\ events'[p] = f
         /\ \A q \in Ids : q # p => decisions'[q] = decisions[q] /\ events'[q] = events[q]
    BY <1>5 DEF TypeOK
  <2> QED BY <1>5, <2>4, <2>5, <2>6, <2>7, <2>8, <2>10, <2>11, <2>12 DEF Accepted, Stored, h, e, ev, b
<1> QED BY <1>4, <1>5 DEF SynchronizeDecision, Failed, UpsertRefused

-------------------------------------------------------------------------------
(* Steps that store no observation.                                         *)

LEMMA StoreFrame ==
  ASSUME TypeOK, StoreSound, UNCHANGED <<world, decisions, events>>, head <= head',
         head' \in 1 .. MaxBlock
  PROVE  StoreSound'
<1> SUFFICES ASSUME NEW p \in Ids
             PROVE  /\ Stored(p) => /\ Sound(world[p], decisions[p]) /\ decisions[p].observed <= head'
                                    /\ EventsFit(world[p], decisions[p], events[p])
                    /\ ~Stored(p) => DOMAIN events[p] = {}
  BY SameSets DEF StoreSound, Stored
<1>1. Stored(p) => decisions[p].observed \in Nat
  BY StoredType DEF Decision
<1> QED BY <1>1, Sizes DEF StoreSound

\* What is promised of the past is about the target, the count and the store alone.
LEMMA PastFrame ==
  ASSUME HistoryKnown, Silent, Announced, UNCHANGED <<world, decisions, events, completed>>,
         source'.target = source.target, source'.count = source.count,
         source'.baseline = source.baseline,
         source.baseline = "none" => source'.success = source.success,
         repaired => repaired'
  PROVE  HistoryKnown' /\ Silent' /\ Announced'
<1>1. HistoryKnown'
  BY SameSets DEF HistoryKnown, Stored
<1>2. Silent'
  BY SameSets DEF Silent, Stored
<1>3. Announced'
  BY SameSets DEF Announced, NewsIsAnnounced, Stored
<1> QED BY <1>1, <1>2, <1>3

\* A run that is over has nothing to answer for.
LEMMA RunOver ==
  ASSUME scan'.pc = "idle"
  PROVE  RunSound' /\ RefreshSound'
BY DEF RunSound, RefreshSound

\* A run that has just started.
LEMMA RunStarts ==
  ASSUME TypeOK, NEW phase \in {"baseline", "live"}, NEW b \in 1 .. head, NEW from \in Nat, NEW to,
         Start(phase, b, from, to),
         phase = "baseline" => source'.baseline = "seeding" /\ to = source'.target,
         phase = "live" => source'.baseline = "complete" /\ to = b,
         source'.count # NoCount, source'.target <= b, source'.cursor <= b
  PROVE  RunSound' /\ RefreshSound'
<1>1. /\ scan'.pc = "ranges" /\ scan'.phase = phase /\ scan'.observed = b /\ scan'.to = to
      /\ scan'.processed = {}
  BY DEF Start, NotRunning
<1>2. RunSound'
  BY <1>1 DEF RunSound
<1>3. RefreshSound'
  BY <1>1 DEF RefreshSound
<1> QED BY <1>2, <1>3

-------------------------------------------------------------------------------
(* The state a run is prepared with.                                        *)

\* What preparing a run makes of the state of the source.
LEMMA PreparedCases ==
  ASSUME TypeOK, NEW b \in 1 .. head
  PROVE  \/ /\ source.baseline = "none" /\ Prepared(b).baseline = "seeding"
            /\ Prepared(b).target = b /\ Prepared(b).count = ProposalCount(b)
            /\ Prepared(b).success = 0
         \/ /\ source.baseline # "none" /\ source.count # NoCount /\ Prepared(b) = source
         \/ /\ source.baseline = "complete" /\ source.count = NoCount
            /\ Prepared(b).baseline = "complete" /\ Prepared(b).target = source.target
            /\ Prepared(b).count = ProposalCount(b) /\ Prepared(b).success = source.success
         \/ /\ source.baseline = "seeding" /\ source.count = NoCount
            /\ Prepared(b).baseline = "seeding" /\ Prepared(b).target = b
            /\ Prepared(b).count = ProposalCount(b) /\ Prepared(b).success = source.success
<1>1. ProposalCount(b) \in Nat /\ NoCount \notin Nat
  BY CountType, Sizes DEF NoCount
<1>2. source \in Source
  BY DEF TypeOK
<1>3. CASE source.baseline = "none"
  BY <1>1, <1>3 DEF Prepared, InitializeSourceState, InitialSourceState, EnsureProposalBoundaryState
<1>4. CASE source.baseline # "none" /\ source.count # NoCount
  BY <1>4 DEF Prepared, InitializeSourceState, EnsureProposalBoundaryState
<1>5. CASE source.baseline = "complete" /\ source.count = NoCount
  <2>1. Prepared(b) = [source EXCEPT !.count = ProposalCount(b)]
    BY <1>5 DEF Prepared, InitializeSourceState, EnsureProposalBoundaryState
  <2> QED BY <1>2, <1>5, <2>1 DEF Source
<1>6. CASE source.baseline = "seeding" /\ source.count = NoCount
  <2>1. Prepared(b) = [source EXCEPT !.count = ProposalCount(b), !.target = b, !.cursor = NoCursor]
    BY <1>6 DEF Prepared, InitializeSourceState, EnsureProposalBoundaryState
  <2> QED BY <1>2, <1>6, <2>1 DEF Source
<1> QED BY <1>2, <1>3, <1>4, <1>5, <1>6 DEF Source

\* The lives begin in the order of their ids.
LEMMA InOrder ==
  ASSUME TypeOK, NEW q \in Ids, NEW p \in Ids, q <= p
  PROVE  world[q].created <= world[p].created
<1>1. /\ \A r \in Ids : world[r].created \in Nat
      /\ \A r \in Ids : r > 1 => world[r - 1].created < world[r].created
      /\ Ids = 1 .. Len(world) /\ Len(world) \in Nat
  BY Sizes, ConstantsAssumption DEF TypeOK, Ids, IsLife
<1> DEFINE S == {r \in q .. p : world[r].created <= world[p].created}
<1>2. p \in S /\ S \in SUBSET Nat
  BY <1>1
<1>3. PICK k \in S : \A j \in S : k <= j
  BY <1>2, FirstBlock
<1>4. k > q => k - 1 \in S
  <2> SUFFICES ASSUME k > q PROVE k - 1 \in S
    OBVIOUS
  <2>1. k \in Ids /\ k > 1 /\ k - 1 \in Ids /\ k - 1 \in q .. p
    BY <1>1, <1>3
  <2>2. world[k - 1].created < world[k].created /\ world[k].created <= world[p].created
    BY <1>1, <1>3, <2>1
  <2> QED BY <1>1, <2>1, <2>2
<1>5. k = q
  <2>1. k \in q .. p /\ q \in Nat /\ p \in Nat
    BY <1>1, <1>3
  <2> HIDE DEF S
  <2>2. ~(k > q)
    <3> SUFFICES ASSUME k > q PROVE FALSE
      OBVIOUS
    <3>1. k <= k - 1
      BY <1>3, <1>4
    <3> QED BY <2>1, <3>1
  <2> QED BY <2>1, <2>2
<1> QED BY <1>3, <1>5

\* The number of proposals at a block counts every proposal that was created by then.
LEMMA CountCovers ==
  ASSUME TypeOK, NEW b \in Nat, NEW p \in Ids, world[p].created <= b
  PROVE  p <= ProposalCount(b)
<1> DEFINE S == {q \in Ids : world[q].created <= b}
<1>1. Ids = 1 .. Len(world) /\ Len(world) \in Nat /\ \A r \in Ids : world[r].created \in Nat
  BY Sizes DEF IsLife
<1>2. 1 .. p \subseteq S
  <2> SUFFICES ASSUME NEW q \in 1 .. p PROVE q \in S
    OBVIOUS
  <2>1. q \in Ids /\ q <= p
    BY <1>1
  <2>2. world[q].created <= world[p].created
    BY <2>1, InOrder
  <2> QED BY <1>1, <2>1, <2>2
<1>3. IsFiniteSet(S)
  <2>1. S \subseteq 1 .. Len(world)
    BY <1>1
  <2>2. IsFiniteSet(1 .. Len(world))
    BY <1>1, FS_Interval
  <2> HIDE DEF S
  <2> QED BY <2>1, <2>2, FS_Subset
<1>4. Cardinality(1 .. p) = p
  BY <1>1, FS_Interval
<1> HIDE DEF S
<1>5. Cardinality(1 .. p) <= Cardinality(S)
  BY <1>2, <1>3, FS_Subset
<1> QED BY <1>4, <1>5 DEF ProposalCount, S

\* A run that begins with the prepared state, or orders the baseline to be repaired.
LEMMA PreparedPast ==
  ASSUME TypeOK, StoreSound, HistoryKnown, Silent, Announced, NEW b \in 1 .. head,
         UNCHANGED <<world, decisions, events, completed>>,
         source'.target = Prepared(b).target, source'.count = Prepared(b).count,
         source'.baseline \in {Prepared(b).baseline, "seeding"},
         ~repaired' => source'.baseline = Prepared(b).baseline /\ ~Rewound(b)
  PROVE  HistoryKnown' /\ Silent' /\ Announced'
<1>1. /\ b \in Nat /\ source.target \in Nat /\ \A p \in Ids : world[p].created \in Nat
      /\ source \in Source
  BY Sizes DEF TypeOK, Source, IsLife
<1>2. source'.baseline # "none"
  BY PreparedCases
<1>3. ProposalCount(b) # NoCount
  BY CountType, Sizes DEF NoCount
<1>4. HistoryKnown'
  <2>1. ASSUME NEW p \in Ids, world[p].created <= source'.target
        PROVE  p <= source'.count \/ Stored(p)
    <3>1. CASE source'.target = b /\ source'.count = ProposalCount(b)
      BY <1>1, <2>1, <3>1, CountCovers
    <3>2. CASE Prepared(b) = source /\ source.baseline # "none" /\ source.count # NoCount
      BY <2>1, <3>2 DEF HistoryKnown
    <3>3. CASE source.baseline = "complete" /\ source'.target = source.target
      BY <2>1, <3>3 DEF HistoryKnown
    <3> QED BY <3>1, <3>2, <3>3, PreparedCases
  <2>2. ASSUME source'.baseline = "complete"
        PROVE  source.baseline = "complete" /\ source'.target = source.target
    BY <2>2, PreparedCases
  <2> QED BY <2>1, <2>2, SameSets DEF HistoryKnown, Stored
<1>5. Silent'
  <2> SUFFICES ASSUME NEW p \in Ids, NEW t \in DOMAIN events[p],
                      source'.count = NoCount \/ By(HappenedAt(world[p], t), source'.target)
               PROVE  events[p][t].status = "skipped"
    BY <1>2, SameSets DEF Silent
  <2>1. source.baseline # "none"
    BY DEF Silent, StoreSound
  <2>2. CASE source.count = NoCount
    BY <2>2 DEF Silent
  <2>3. CASE Prepared(b) = source
    BY <2>3 DEF Silent
  <2> QED BY <2>1, <2>2, <2>3, PreparedCases
<1>6. Announced'
  <2> SUFFICES ASSUME ~repaired' PROVE Announced'
    BY DEF Announced
  <2>1. ~repaired /\ source.target <= source'.target /\ source'.target \in Nat
    <3>1. source'.target \in Nat
      BY PreparedType DEF Source
    <3> QED BY <1>1, <3>1 DEF Rewound
  <2>2. source'.baseline # "complete" => source.baseline # "complete"
    BY PreparedCases
  <2>3. source'.baseline # "complete" => completed = 0
    BY <2>1, <2>2 DEF Announced
  <2>4. ASSUME source'.baseline # "complete", NEW p \in Ids, Stored(p)
        PROVE  /\ world[p].created <= source'.target
               /\ \A k \in {decisions[p].created, decisions[p].canceled, decisions[p].queued,
                            decisions[p].executed} : k <= source'.target
    <3>1. /\ world[p].created <= source.target
          /\ \A k \in {decisions[p].created, decisions[p].canceled, decisions[p].queued,
                       decisions[p].executed} : k <= source.target
      BY <2>1, <2>2, <2>4 DEF Announced
    <3>2. \A k \in {decisions[p].created, decisions[p].canceled, decisions[p].queued,
                    decisions[p].executed} : k \in Nat
      BY <2>4, StoredType DEF Decision
    <3> QED BY <1>1, <2>1, <3>1, <3>2
  <2>5. ASSUME NEW p \in Ids, NEW t \in DOMAIN events[p],
               world[p].created > source'.target
                 \/ (completed # 0 /\ completed < HappenedAt(world[p], t))
        PROVE  events[p][t].status = "pending"
    <3>1. world[p].created > source'.target => world[p].created > source.target
      BY <1>1, <2>1
    <3> QED BY <2>1, <2>5, <3>1 DEF Announced, NewsIsAnnounced
  <2> QED BY <2>3, <2>4, <2>5, SameSets DEF Announced, NewsIsAnnounced, Stored
<1> QED BY <1>4, <1>5, <1>6

-------------------------------------------------------------------------------
(* The steps that store an observation.                                     *)

LEMMA AcceptedStore ==
  ASSUME TypeOK, StoreSound, UNCHANGED <<world, head>>, NEW p \in Ids, NEW logs,
         scan.pc # "idle", Accepted(p, logs)
  PROVE  StoreSound'
<1>1. scan.observed <= head /\ scan.observed \in Nat /\ head \in Nat
  BY Sizes DEF TypeOK, Scan
<1> SUFFICES ASSUME NEW q \in Ids
             PROVE  /\ Stored(q)' => /\ Sound(world[q], decisions'[q]) /\ decisions'[q].observed <= head
                                     /\ EventsFit(world[q], decisions'[q], events'[q])
                    /\ ~Stored(q)' => DOMAIN events'[q] = {}
  BY SameSets DEF StoreSound, Stored
<1>2. CASE q = p
  <2>1. decisions'[p].observed \in Nat /\ decisions'[p].observed <= scan.observed
    BY DEF Accepted, Decision
  <2>2. Stored(p)'
    BY DecisionsAreStored DEF Accepted, Stored
  <2> QED BY <1>1, <1>2, <2>1, <2>2 DEF Accepted
<1>3. CASE q # p
  BY <1>3 DEF Accepted, StoreSound, Stored
<1> QED BY <1>2, <1>3

LEMMA AcceptedRun ==
  ASSUME TypeOK, RunSound, RefreshSound, UNCHANGED <<world, head, source>>, NEW p \in Ids, NEW logs,
         scan.pc \in {"range", "refresh"}, Accepted(p, logs)
  PROVE  RunSound' /\ RefreshSound'
<1>1. /\ scan'.pc = scan.pc /\ scan'.phase = scan.phase /\ scan'.observed = scan.observed
      /\ scan'.to = scan.to /\ scan'.logs = scan.logs
      /\ scan'.todo = scan.todo \ {p} /\ scan'.processed = scan.processed \cup {p}
  BY DEF Accepted, TypeOK, Scan
<1>2. RunSound'
  BY <1>1 DEF RunSound
<1>3. ASSUME NEW q \in Ids, q # p
      PROVE  decisions'[q] = decisions[q]
  BY <1>3 DEF Accepted
<1>4. Stored(p)' /\ Current(p)'
  BY <1>1, DecisionsAreStored DEF Accepted, Stored, Current
<1>5. \A q \in Ids : q # p => /\ Stored(q)' <=> Stored(q)
                              /\ Current(q)' <=> Current(q)
                              /\ Terminal(decisions[q])' <=> Terminal(decisions[q])
  BY <1>1, <1>3 DEF Stored, Current
<1>6. scan.processed \subseteq Ids /\ scan.todo \subseteq Ids
  BY DEF TypeOK, Scan
<1>7. RefreshSound'
  <2>1. \A q \in scan'.processed : Stored(q)' /\ Current(q)'
    BY <1>1, <1>4, <1>5, <1>6 DEF RefreshSound
  <2>2. scan'.pc = "refresh" =>
          /\ \A q \in scan'.todo : Stored(q)'
          /\ \A q \in Ids : Stored(q)' /\ ~Terminal(decisions[q])' => q \in scan'.todo \cup scan'.processed
    BY <1>1, <1>4, <1>5, <1>6 DEF RefreshSound
  <2>3. scan'.phase = "catchUp" \/ scan'.pc = "coverage" =>
          \A q \in Ids : Stored(q)' => Terminal(decisions[q])' \/ Current(q)'
    BY <1>1, <1>4, <1>5 DEF RefreshSound
  <2> QED BY <2>1, <2>2, <2>3, SameSets DEF RefreshSound
<1> QED BY <1>2, <1>7

LEMMA AcceptedPast ==
  ASSUME TypeOK, StoreSound, RunSound, HistoryKnown, Silent, Announced,
         UNCHANGED <<world, head, source, completed, repaired>>,
         NEW p \in Ids, NEW logs, logs \subseteq AllLogs(world[p]), scan.pc # "idle",
         \A l \in logs : l.block <= scan.to, Stored(p) \/ logs # {}, Accepted(p, logs)
  PROVE  HistoryKnown' /\ Silent' /\ Announced'
<1>1. /\ source.target \in Nat /\ scan.to \in Nat /\ IsLife(world[p]) /\ world[p].created \in Nat
      /\ source.baseline \in {"none", "seeding", "complete"}
      /\ \A q \in Ids : DOMAIN events[q] \subseteq Transitions
  <2>1. source \in Source /\ scan \in Scan /\ \A q \in Ids : DOMAIN events[q] \subseteq Transitions
    BY DEF TypeOK
  <2>2. IsLife(world[p]) /\ MaxBlock \in Nat
    BY Sizes
  <2>3. source.target \in Nat /\ source.baseline \in {"none", "seeding", "complete"}
    BY <2>1, <2>2 DEF Source
  <2>4. scan.to \in Nat
    BY <2>1, <2>2 DEF Scan
  <2> QED BY <2>1, <2>2, <2>3, <2>4 DEF IsLife
<1>2. Stored(p)'
  BY DecisionsAreStored DEF Accepted, Stored
<1>3. ASSUME NEW q \in Ids, q # p
      PROVE  decisions'[q] = decisions[q] /\ events'[q] = events[q]
  BY <1>3 DEF Accepted
<1>4. \A q \in Ids : /\ Stored(q) => Stored(q)'
                     /\ DOMAIN events[q] \subseteq DOMAIN events'[q]
                     /\ Stored(q) /\ decisions[q].status = "canceled" => decisions'[q].status = "canceled"
                     /\ \A t \in DOMAIN events[q] : events'[q][t].status = events[q][t].status
  BY <1>2, <1>3 DEF Accepted, Stored
<1>5. ASSUME NEW t \in DOMAIN events'[p], t \notin DOMAIN events[p]
      PROVE  events'[p][t].status = NotificationStatus /\ t \in ImpliedTransitions(decisions'[p])
  BY <1>5 DEF Accepted
<1>6. ASSUME NEW t \in DOMAIN events'[p], t \notin DOMAIN events[p]
      PROVE  t \in Transitions
  BY <1>5, <1>6 DEF Accepted, ImpliedTransitions, Decision, Statuses, Transitions, Results
<1>7. source.baseline # "none" /\ source.count # NoCount
  BY DEF RunSound
<1>8. HistoryKnown'
  <2>1. ASSUME NEW q \in Ids, world[q].created <= source.target
        PROVE  /\ q <= source.count \/ Stored(q)'
               /\ source.baseline = "complete" =>
                    /\ Stored(q)'
                    /\ \A t \in Transitions : By(HappenedAt(world[q], t), source.target) =>
                         t \in DOMAIN events'[q] \/ (t = "expired" /\ decisions'[q].status = "canceled")
    BY <1>4, <1>7, <2>1 DEF HistoryKnown
  <2> QED BY <2>1, SameSets DEF HistoryKnown, Stored
<1>9. Silent'
  <2> SUFFICES ASSUME NEW q \in Ids, NEW t \in DOMAIN events'[q],
                      By(HappenedAt(world[q], t), source.target)
               PROVE  events'[q][t].status = "skipped"
    BY <1>7, SameSets DEF Silent
  <2>1. CASE t \in DOMAIN events[q]
    BY <1>4, <2>1 DEF Silent
  <2>2. CASE t \notin DOMAIN events[q]
    <3>1. q = p
      BY <1>3, <2>2
    <3>2. CASE scan.phase = "baseline"
      BY <1>5, <2>2, <3>1, <3>2 DEF NotificationStatus
    <3>3. CASE scan.phase # "baseline"
      <4>1. source.baseline = "complete"
        BY <3>3 DEF RunSound
      <4>2. t \in Transitions
        BY <1>6, <2>2, <3>1
      <4>3. world[p].created <= source.target
        BY <1>1, <3>1, <4>2, AfterCreation DEF By
      <4>4. t = "expired" /\ decisions[p].status = "canceled" /\ Stored(p)
        BY <2>2, <3>1, <4>1, <4>2, <4>3 DEF HistoryKnown
      <4>5. decisions'[p].status = "canceled" /\ "expired" \in ImpliedTransitions(decisions'[p])
        BY <1>4, <1>5, <2>2, <3>1, <4>4
      <4> QED BY <4>5 DEF ImpliedTransitions, Results
    <3> QED BY <3>2, <3>3
  <2> QED BY <2>1, <2>2
<1>10. Announced'
  <2> SUFFICES ASSUME ~repaired PROVE Announced'
    BY DEF Announced
  <2>1. source.baseline # "complete" => completed = 0
    BY DEF Announced
  <2>2. ASSUME source.baseline # "complete"
        PROVE  scan.to = source.target
    BY <2>2 DEF RunSound
  <2>3. \A l \in logs : l.block \in Nat /\ world[p].created <= l.block
    BY <1>1, LogCases
  <2>4. ASSUME source.baseline # "complete"
        PROVE  world[p].created <= source.target
    <3>1. CASE Stored(p)
      BY <2>4, <3>1 DEF Announced
    <3>2. CASE logs # {}
      BY <1>1, <2>2, <2>3, <2>4, <3>2
    <3> QED BY <3>1, <3>2
  <2>5. ASSUME source.baseline # "complete", NEW k \in References(decisions'[p])
        PROVE  k <= source.target
    <3>1. k \in {0} \cup References(decisions[p]) \cup {l.block : l \in logs}
      BY <2>5 DEF Accepted
    <3>2. CASE k \in References(decisions[p]) /\ Stored(p)
      BY <2>5, <3>2 DEF Announced, References
    <3>3. CASE k \in References(decisions[p]) /\ ~Stored(p)
      BY <1>1, <3>3 DEF Stored, References, NoDecision
    <3> QED BY <1>1, <2>2, <2>5, <3>1, <3>2, <3>3
  <2>6. ASSUME source.baseline # "complete", NEW q \in Ids, Stored(q)'
        PROVE  /\ world[q].created <= source.target
               /\ \A k \in {decisions'[q].created, decisions'[q].canceled, decisions'[q].queued,
                            decisions'[q].executed} : k <= source.target
    <3>1. CASE q = p
      BY <2>4, <2>5, <2>6, <3>1 DEF References
    <3>2. CASE q # p
      BY <1>3, <2>6, <3>2 DEF Announced, Stored
    <3> QED BY <3>1, <3>2
  <2>7. ASSUME NEW q \in Ids, NEW t \in DOMAIN events'[q],
               world[q].created > source.target
                 \/ (completed # 0 /\ completed < HappenedAt(world[q], t))
        PROVE  events'[q][t].status = "pending"
    <3>1. CASE t \in DOMAIN events[q]
      BY <1>4, <2>7, <3>1 DEF Announced, NewsIsAnnounced
    <3>2. CASE t \notin DOMAIN events[q]
      <4>1. q = p /\ events'[q][t].status = NotificationStatus
        BY <1>3, <1>5, <3>2
      <4>2. scan.phase # "baseline"
        <5> SUFFICES ASSUME scan.phase = "baseline" PROVE FALSE
          OBVIOUS
        <5>1. source.baseline # "complete"
          BY DEF RunSound
        <5> QED BY <1>1, <2>1, <2>4, <2>7, <4>1, <5>1
      <4> QED BY <4>1, <4>2 DEF NotificationStatus
    <3> QED BY <3>1, <3>2
  <2> QED BY <2>1, <2>6, <2>7, SameSets DEF Announced, NewsIsAnnounced, Stored
<1> QED BY <1>8, <1>9, <1>10

\* A step that synchronizes a decision.
LEMMA SyncInv ==
  ASSUME TypeOK, StoreSound, RunSound, RefreshSound, HistoryKnown, Silent, Announced,
         NEW p \in Ids, NEW logs, logs \subseteq AllLogs(world[p]), scan.pc \in {"range", "refresh"},
         \A l \in logs : l.block <= scan.to, Stored(p) \/ logs # {},
         SynchronizeDecision(p, logs),
         UNCHANGED <<world, head, source, completed, repaired>>
  PROVE  StoreSound' /\ RunSound' /\ RefreshSound' /\ HistoryKnown' /\ Silent' /\ Announced'
<1>1. Stored(p) \/ world[p].created <= scan.observed
  <2> SUFFICES ASSUME NEW l \in logs PROVE world[p].created <= scan.observed
    OBVIOUS
  <2>1. l.block \in Nat /\ world[p].created <= l.block /\ l.block <= scan.to /\ world[p].created \in Nat
    BY Sizes, LogCases DEF IsLife
  <2>2. scan.to <= scan.observed /\ scan.to \in Nat /\ scan.observed \in Nat
    BY Sizes DEF RunSound, TypeOK, Scan, Source
  <2> QED BY <2>1, <2>2
<1>2. CASE scan' = NotRunning /\ UNCHANGED <<decisions, events>>
  <2>1. StoreSound'
    BY <1>2, StoreFrame, Sizes DEF TypeOK
  <2>2. RunSound' /\ RefreshSound'
    BY <1>2, RunOver DEF NotRunning
  <2>3. HistoryKnown' /\ Silent' /\ Announced'
    BY <1>2, PastFrame
  <2> QED BY <2>1, <2>2, <2>3
<1>3. CASE Accepted(p, logs)
  <2>1. StoreSound'
    BY <1>3, AcceptedStore
  <2>2. RunSound' /\ RefreshSound'
    BY <1>3, AcceptedRun
  <2>3. HistoryKnown' /\ Silent' /\ Announced'
    BY <1>3, AcceptedPast
  <2> QED BY <2>1, <2>2, <2>3
<1> QED BY <1>1, <1>2, <1>3, SyncAccepted

-------------------------------------------------------------------------------
(* What a baseline that is complete knows.                                  *)

LEMMA CompletedPast ==
  ASSUME TypeOK, StoreSound, RunSound, RefreshSound, HistoryKnown, Silent, Announced, CompleteBaseline
  PROVE  HistoryKnown' /\ Silent' /\ Announced'
<1>1. /\ UNCHANGED <<world, decisions, events, repaired>>
      /\ source'.baseline = "complete" /\ source'.target = source.target
      /\ source'.count = source.count
      /\ completed' = OrElse(completed, scan.observed)
  BY DEF CompleteBaseline, TypeOK, Source
<1>2. /\ scan.pc = "refresh" /\ scan.todo = {} /\ scan.phase = "baseline"
      /\ MissingProposals(source.count) = {} /\ MissingReferences(Ids) = {}
  BY DEF CompleteBaseline, BaselineGaps
<1>3. /\ source.baseline = "seeding" /\ source.count # NoCount
      /\ source.target <= scan.observed
      /\ source.target \in Nat /\ scan.observed \in Nat
      /\ \A p \in Ids : IsLife(world[p]) /\ world[p].created \in Nat
  BY <1>2, Sizes DEF RunSound, TypeOK, Source, Scan, IsLife
<1>4. ASSUME NEW p \in Ids, Stored(p)
      PROVE  /\ decisions[p] \in Decision /\ Sound(world[p], decisions[p])
             /\ EventsFit(world[p], decisions[p], events[p])
             /\ decisions[p].observed \in Nat
             /\ decisions[p].status = "canceled" => decisions[p].canceled # 0
             /\ decisions[p].status = "executed" => decisions[p].executed # 0
             /\ Terminal(decisions[p]) \/ Current(p)
  <2>1. decisions[p] \in Decision /\ decisions[p].observed \in Nat
    BY <1>4, StoredType DEF Decision
  <2>2. Sound(world[p], decisions[p]) /\ EventsFit(world[p], decisions[p], events[p])
    BY <1>4 DEF StoreSound
  <2>3. ~MissingReference(p)
    BY <1>2, <1>4 DEF MissingReferences
  <2>4. Terminal(decisions[p]) \/ Current(p)
    BY <1>2, <1>4 DEF RefreshSound
  <2> QED BY <2>1, <2>2, <2>3, <2>4 DEF MissingReference
<1>5. HistoryKnown'
  <2>1. ASSUME NEW p \in Ids, world[p].created <= source.target
        PROVE  Stored(p)
    <3>1. p <= source.count => Stored(p)
      BY <1>2 DEF MissingProposals
    <3> QED BY <1>3, <2>1, <3>1 DEF HistoryKnown
  <2>2. ASSUME NEW p \in Ids, world[p].created <= source.target,
               NEW t \in Transitions, By(HappenedAt(world[p], t), source.target)
        PROVE  t \in DOMAIN events[p] \/ (t = "expired" /\ decisions[p].status = "canceled")
    <3> DEFINE h == world[p]
               d == decisions[p]
    <3>1. /\ d \in Decision /\ Sound(h, d) /\ d.observed \in Nat
          /\ d.status = "canceled" => d.canceled # 0
          /\ Terminal(d) \/ StatusAt(h, scan.observed) = d.status
          /\ ImpliedTransitions(d) \subseteq DOMAIN events[p]
      BY <1>4, <2>1, <2>2 DEF Current, EventsFit
    <3>2. IsLife(h) /\ HappenedAt(h, t) \in Nat
      BY <1>3, MomentTypes
    <3> HIDE DEF h, d
    <3>3. \E x \in Nat : scan.observed <= x /\ StatusAt(h, x) = d.status
      <4>1. CASE StatusAt(h, scan.observed) = d.status
        BY <1>3, <4>1
      <4>2. CASE Terminal(d) /\ d.observed <= scan.observed
        <5>1. StatusAt(h, d.observed) = d.status /\ d.status \in {"canceled", "executed"}
          BY <3>1, <4>2 DEF Sound, Terminal
        <5>2. StatusAt(h, scan.observed) = d.status
          BY <1>3, <3>1, <3>2, <4>2, <5>1, TerminalStays
        <5> QED BY <1>3, <5>2
      <4>3. CASE scan.observed <= d.observed
        BY <3>1, <4>3 DEF Sound
      <4> QED BY <1>3, <3>1, <4>1, <4>2, <4>3
    <3>4. PICK x \in Nat : scan.observed <= x /\ StatusAt(h, x) = d.status
      BY <3>3
    <3>5. By(HappenedAt(h, t), x)
      <4>1. By(HappenedAt(h, t), source.target)
        BY <2>2 DEF h
      <4> QED BY <1>3, <3>2, <3>4, <4>1 DEF By
    <3>6. t \in ImpliedTransitions(d) \/ (t = "expired" /\ d.status = "canceled")
      BY <3>1, <3>2, <3>4, <3>5, AllImplied
    <3> QED BY <3>1, <3>6 DEF d
  <2> QED BY <1>1, <2>1, <2>2, SameSets DEF HistoryKnown, Stored
<1>6. Silent'
  BY <1>1, SameSets DEF Silent, Stored
<1>7. Announced'
  <2> SUFFICES ASSUME ~repaired, NEW p \in Ids, NEW t \in DOMAIN events[p]
               PROVE  /\ ~(world[p].created > source.target)
                      /\ ~(completed' < HappenedAt(world[p], t))
    BY <1>1, SameSets DEF Announced, NewsIsAnnounced
  <2>1. Stored(p)
    BY DEF StoreSound
  <2>2. completed = 0
    BY <1>3 DEF Announced
  <2>3. completed' = scan.observed
    BY <1>1, <2>2 DEF OrElse
  <2> DEFINE h == world[p]
             d == decisions[p]
  <2>4. /\ d \in Decision /\ Sound(h, d) /\ d.observed \in Nat
        /\ d.status = "canceled" => d.canceled # 0
        /\ d.status = "executed" => d.executed # 0
        /\ Terminal(d) \/ StatusAt(h, scan.observed) = d.status
        /\ EventsFit(h, d, events[p])
    BY <1>4, <2>1 DEF Current
  <2>5. /\ h.created <= source.target /\ d.canceled <= source.target /\ d.executed <= source.target
    BY <1>3, <2>1 DEF Announced
  <2>6. IsLife(h) /\ h.created \in Nat
    BY <1>3
  <2>7. d.canceled \in Nat /\ d.executed \in Nat
    BY <2>4 DEF Decision
  <2>8. h.created <= scan.observed /\ d.canceled <= scan.observed /\ d.executed <= scan.observed
    <3> HIDE DEF h, d
    <3> QED BY <1>3, <2>5, <2>6, <2>7
  <2>9. t \in Transitions
    BY DEF TypeOK
  <2> HIDE DEF h, d
  <2>10. StatusAt(h, scan.observed) = d.status
    <3>1. CASE d.status = "canceled"
      <4>1. d.canceled # 0 /\ d.canceled \in h.cancels
        BY <2>4, <3>1 DEF Sound
      <4> QED BY <1>3, <2>6, <2>7, <2>8, <3>1, <4>1, LastLog
    <3>2. CASE d.status = "executed"
      <4>1. d.executed # 0 /\ d.executed = h.executed
        BY <2>4, <3>2 DEF Sound
      <4> QED BY <1>3, <2>6, <2>7, <2>8, <3>2, <4>1, LastLog
    <3> QED BY <2>4, <3>1, <3>2 DEF Terminal
  <2>11. HappenedAt(h, t) <= scan.observed
    <3>1. t \in DOMAIN events[p]
      OBVIOUS
    <3> QED BY <1>3, <2>4, <2>6, <2>8, <2>10, <3>1, NoneLater
  <2>12. HappenedAt(h, t) \in Nat
    BY <2>6, <2>9, MomentTypes
  <2>13. ~(h.created > source.target)
    BY <1>3, <2>5, <2>6
  <2>14. ~(completed' < HappenedAt(h, t))
    BY <1>3, <2>3, <2>11, <2>12
  <2> QED BY <2>13, <2>14 DEF h
<1> QED BY <1>5, <1>6, <1>7

-------------------------------------------------------------------------------
(* What an older version had stored.                                        *)

\* Its decision on a proposal, of the logs up to the cursor and the state at the target.
LEMMA OlderDecision ==
  ASSUME NEW h, IsLife(h), NEW b \in Nat, NEW cursor \in Nat, cursor <= b, h.created <= cursor,
         NEW o, o = GetDecision(h, LogsIn(h, 1, cursor), NoDecision, b)
  PROVE  /\ o \in Decision /\ Sound(h, o) /\ o.status = StatusAt(h, b) /\ o.observed = b
         /\ \A k \in {o.created, o.canceled, o.queued, o.executed} : k <= cursor
         /\ cursor = b /\ o.status = "canceled" => o.canceled # 0
<1> DEFINE logs == LogsIn(h, 1, cursor)
<1>1. /\ logs \subseteq AllLogs(h) /\ \A l \in logs : l.block <= cursor
      /\ \A l \in logs : l.block \in Nat
  BY LogCases DEF LogsIn
<1>2. NoDecision \in Decision \cup {NoDecision} /\ NoDecision.canceled = 0 /\ ~NoDecision.ended
  BY DEF NoDecision
<1>3. h.created \in Nat /\ h.created <= b
  BY DEF IsLife
<1>4. o = GetDecision(h, logs, NoDecision, b)
  OBVIOUS
<1>5. FirstOf("canceled", logs) = IF By(HappenedAt(h, "canceled"), cursor) THEN HappenedAt(h, "canceled") ELSE 0
  BY FirstSeen
<1> HIDE DEF logs
<1>6. ~GetDecisionThrows(h, logs, b)
  <2>1. \A l \in logs : l.block <= b
    BY <1>1
  <2> QED BY <1>1, <2>1, NothingThrown
<1>7. /\ o.canceled = FirstOf("canceled", logs) /\ o.status = StatusAt(h, b) /\ o.observed = b
      /\ o.created = FirstOf("created", logs) /\ o.queued = FirstOf("queued", logs)
      /\ o.executed = FirstOf("executed", logs)
  BY <1>2, <1>4 DEF GetDecision, CanonicalCancellationReference
<1>8. o.canceled \in {0, HappenedAt(h, "canceled")}
  BY <1>5, <1>7
<1>9. Happening(h, o, b)
  BY <1>1, <1>2, <1>3, <1>4, <1>8, ObservationHappening
<1>10. DecisionObservationValid(o)
  <2>1. NoDecision.canceled <= b
    BY <1>2
  <2> QED BY <1>1, <1>2, <1>4, <1>6, <1>9, <2>1, ObservationValid
<1>11. o \in Decision /\ Sound(h, o)
  BY <1>1, <1>3, <1>4, <1>6, <1>10, SoundObserved
<1>12. \A k \in {o.created, o.canceled, o.queued, o.executed} : k <= cursor
  <2>1. \A type : FirstOf(type, logs) <= cursor
    BY <1>1, FirstOfLogs
  <2> QED BY <1>7, <2>1
<1>13. cursor = b /\ o.status = "canceled" => o.canceled # 0
  <2> SUFFICES ASSUME cursor = b, o.status = "canceled" PROVE o.canceled # 0
    OBVIOUS
  <2>1. By(HappenedAt(h, "canceled"), b)
    BY <1>7, StatusHappened
  <2> QED BY <1>5, <1>7, <2>1 DEF By
<1> QED BY <1>7, <1>11, <1>12, <1>13

\* Its events are those of the decision, and nobody is to be told of them.
LEMMA OlderEvents ==
  ASSUME NEW h, IsLife(h), NEW d \in Decision, Sound(h, d),
         NEW f, f = UpsertedEvents(NoDecision, NoEvents, d, "skipped")
  PROVE  EventsFit(h, d, f) /\ \A t \in DOMAIN f : f[t].status = "skipped"
<1>1. DOMAIN NoEvents = {}
  BY DEF NoEvents
<1>2. DOMAIN f = NewEvents(NoDecision, NoEvents, d)
  BY <1>1 DEF UpsertedEvents
<1>3. NewEvents(NoDecision, NoEvents, d) = ImpliedTransitions(d)
  BY <1>1 DEF NewEvents, DeriveGovernanceTransitions
<1>4. "expired" \in ImpliedTransitions(d) => h.expires # 0 /\ \A k \in h.cancels : h.expires < k
  <2> SUFFICES ASSUME "expired" \in ImpliedTransitions(d)
               PROVE  h.expires # 0 /\ \A k \in h.cancels : h.expires < k
    OBVIOUS
  <2>1. d.status = "expired"
    BY DEF ImpliedTransitions, Results
  <2>2. StatusAt(h, d.observed) = "expired" /\ d.observed \in Nat
    BY <2>1 DEF Sound, Decision
  <2>3. ~CanceledBy(h, d.observed) /\ By(h.expires, d.observed)
    BY <2>2 DEF StatusAt
  <2> QED BY <2>2, <2>3 DEF CanceledBy, By, IsLife
<1>5. \A t \in DOMAIN NoEvents : NoEvents[t] \in LifecycleEvent
  BY <1>1
<1>6. \A t \in NewEvents(NoDecision, NoEvents, d) : f[t].status = "skipped"
  BY <1>5, UpsertedStatus
<1> QED BY <1>2, <1>3, <1>4, <1>6 DEF EventsFit

\* The invariant of a scan.
LEMMA InitFull == Init => FullInv
<1> SUFFICES ASSUME Init PROVE FullInv
  OBVIOUS
<1>1. ScanInv
  BY InitInv
<1>2. RunSound /\ RefreshSound
  BY DEF Init, NotRunning, RunSound, RefreshSound
<1>3. CASE NewDatabase
  <2>1. \A p \in Ids : ~Stored(p) /\ DOMAIN events[p] = {}
    BY <1>3 DEF NewDatabase, Stored, NoEvents
  <2>2. source.baseline = "none" /\ source.success = 0 /\ completed = 0
    BY <1>3 DEF NewDatabase
  <2> QED BY <1>1, <1>2, <2>1, <2>2
      DEF FullInv, StoreSound, HistoryKnown, Silent, Announced, NewsIsAnnounced
<1>4. ASSUME NEW b \in LegacyHeads, NEW cursor \in 0 .. b, LegacyDatabase(b, cursor)
      PROVE  FullInv
  <2>1. /\ b \in Nat /\ cursor \in Nat /\ cursor <= b
        /\ \A p \in Ids : IsLife(world[p]) /\ world[p].created \in Nat
    BY <1>1, Sizes, ConstantsAssumption DEF ScanInv, IsLife
  <2>2. /\ head = b /\ source.target = b /\ source.count = NoCount
        /\ source.baseline = IF cursor = b THEN "complete" ELSE "seeding"
        /\ completed = IF cursor = b THEN b ELSE 0
    BY <1>4 DEF LegacyDatabase
  <2>3. ASSUME NEW p \in Ids, world[p].created > cursor
        PROVE  ~Stored(p) /\ DOMAIN events[p] = {}
    <3>1. decisions[p] = NoDecision /\ events[p] = NoEvents
      BY <1>4, <2>3 DEF LegacyDatabase
    <3> QED BY <3>1 DEF Stored, NoEvents
  <2>4. ASSUME NEW p \in Ids, world[p].created <= cursor
        PROVE  /\ Stored(p) /\ decisions[p] \in Decision /\ Sound(world[p], decisions[p])
               /\ decisions[p].status = StatusAt(world[p], b) /\ decisions[p].observed = b
               /\ \A k \in {decisions[p].created, decisions[p].canceled, decisions[p].queued,
                            decisions[p].executed} : k <= cursor
               /\ cursor = b /\ decisions[p].status = "canceled" =>
                    decisions[p].canceled # 0 /\ decisions[p].canceled <= b
               /\ EventsFit(world[p], decisions[p], events[p])
               /\ \A t \in DOMAIN events[p] : events[p][t].status = "skipped"
    <3> DEFINE o == GetDecision(world[p], LogsIn(world[p], 1, cursor), NoDecision, b)
    <3>1. ~(world[p].created > cursor)
      BY <2>1, <2>4
    <3>2. decisions[p] = o
      BY <1>4, <3>1 DEF LegacyDatabase
    <3>3. events[p] = IF o = NoDecision THEN NoEvents
                      ELSE UpsertedEvents(NoDecision, NoEvents, o, "skipped")
      BY <1>4, <3>1 DEF LegacyDatabase
    <3>4. /\ o \in Decision /\ Sound(world[p], o) /\ o.status = StatusAt(world[p], b) /\ o.observed = b
          /\ \A k \in {o.created, o.canceled, o.queued, o.executed} : k <= cursor
          /\ cursor = b /\ o.status = "canceled" => o.canceled # 0
      BY <2>1, <2>4, OlderDecision
    <3> HIDE DEF o
    <3>5. o # NoDecision
      BY <3>4, DecisionsAreStored
    <3>6. EventsFit(world[p], o, events[p]) /\ \A t \in DOMAIN events[p] : events[p][t].status = "skipped"
      BY <2>1, <3>3, <3>4, <3>5, OlderEvents
    <3> QED BY <2>1, <3>2, <3>4, <3>5, <3>6 DEF Stored
  <2>5. \A p \in Ids : world[p].created > cursor \/ world[p].created <= cursor
    BY <2>1
  <2>6. StoreSound
    <3>1. ASSUME NEW p \in Ids
          PROVE  /\ Stored(p) => /\ Sound(world[p], decisions[p]) /\ decisions[p].observed <= head
                                 /\ EventsFit(world[p], decisions[p], events[p])
                 /\ ~Stored(p) => DOMAIN events[p] = {}
      <4>1. CASE world[p].created > cursor
        BY <2>3, <4>1
      <4>2. CASE world[p].created <= cursor
        BY <2>1, <2>2, <2>4, <4>2
      <4> QED BY <2>5, <4>1, <4>2
    <3> QED BY <3>1 DEF StoreSound
  <2>7. HistoryKnown
    <3> SUFFICES ASSUME cursor = b, NEW p \in Ids, world[p].created <= b
                 PROVE  /\ Stored(p)
                        /\ \A t \in Transitions : By(HappenedAt(world[p], t), b) =>
                             t \in DOMAIN events[p] \/ (t = "expired" /\ decisions[p].status = "canceled")
      BY <2>2 DEF HistoryKnown
    <3>1. /\ Stored(p) /\ decisions[p] \in Decision /\ Sound(world[p], decisions[p])
          /\ StatusAt(world[p], b) = decisions[p].status
          /\ decisions[p].status = "canceled" => decisions[p].canceled # 0
          /\ EventsFit(world[p], decisions[p], events[p])
      BY <2>4
    <3>2. ASSUME NEW t \in Transitions, By(HappenedAt(world[p], t), b)
          PROVE  t \in ImpliedTransitions(decisions[p]) \/ (t = "expired" /\ decisions[p].status = "canceled")
      BY <2>1, <3>1, <3>2, AllImplied
    <3> QED BY <3>1, <3>2 DEF EventsFit
  <2>8. Silent
    <3>1. ASSUME NEW p \in Ids, NEW t \in DOMAIN events[p]
          PROVE  events[p][t].status = "skipped"
      BY <2>3, <2>4, <2>5
    <3> QED BY <2>2, <3>1 DEF Silent
  <2>9. Announced
    <3>1. ASSUME NEW p \in Ids, Stored(p)
          PROVE  /\ world[p].created <= b
                 /\ \A k \in {decisions[p].created, decisions[p].canceled, decisions[p].queued,
                              decisions[p].executed} : k <= b
      <4>1. world[p].created <= cursor
        BY <2>3, <2>5, <3>1
      <4>2. /\ decisions[p] \in Decision
            /\ \A k \in {decisions[p].created, decisions[p].canceled, decisions[p].queued,
                         decisions[p].executed} : k <= cursor
        BY <2>4, <4>1
      <4>3. \A k \in {decisions[p].created, decisions[p].canceled, decisions[p].queued,
                      decisions[p].executed} : k \in Nat
        BY <4>2 DEF Decision
      <4> QED BY <2>1, <4>1, <4>2, <4>3
    <3>2. ASSUME NEW p \in Ids, NEW t \in DOMAIN events[p]
          PROVE  ~(world[p].created > b)
      BY <2>1, <2>3, <2>5, <3>2
    <3>3. ASSUME cursor = b, NEW p \in Ids, NEW t \in DOMAIN events[p]
          PROVE  ~(b < HappenedAt(world[p], t))
      <4>1. world[p].created <= cursor
        BY <2>3, <2>5, <3>3
      <4>2. HappenedAt(world[p], t) <= b
        BY <2>1, <2>4, <3>3, <4>1, NoneLater
      <4>3. HappenedAt(world[p], t) \in Nat
        BY <1>1, <2>1, MomentTypes DEF ScanInv, TypeOK
      <4> QED BY <2>1, <4>2, <4>3
    <3> QED BY <2>2, <3>1, <3>2, <3>3 DEF Announced, NewsIsAnnounced
  <2> QED BY <1>1, <1>2, <2>6, <2>7, <2>8, <2>9 DEF FullInv
<1> QED BY <1>3, <1>4 DEF Init

\* A step that moves no block of the baseline, and stores nothing.
LEMMA QuietStep ==
  ASSUME TypeOK, StoreSound, HistoryKnown, Silent, Announced,
         UNCHANGED <<world, head, decisions, events, completed>>,
         source'.target = source.target, source'.count = source.count,
         source'.baseline = source.baseline,
         source.baseline = "none" => source'.success = source.success, repaired' = repaired
  PROVE  StoreSound' /\ HistoryKnown' /\ Silent' /\ Announced'
<1>1. StoreSound'
  BY StoreFrame, Sizes
<1> QED BY <1>1, PastFrame

\* The steps of a scan keep the invariant.
LEMMA StepFull == FullInv /\ [Next]_vars => FullInv'
<1> SUFFICES ASSUME FullInv, [Next]_vars PROVE FullInv'
  OBVIOUS
<1>1. ScanInv'
  BY StepInv DEF FullInv
<1>2. /\ TypeOK /\ StoreSound /\ RunSound /\ RefreshSound /\ HistoryKnown /\ Silent /\ Announced
      /\ RangeSound
  BY DEF FullInv, ScanInv
<1>3. /\ scan \in Scan /\ source \in Source /\ head \in 1 .. MaxBlock /\ MaxBlock \in Nat
  BY <1>2, Sizes DEF TypeOK
<1> DEFINE Rest == StoreSound /\ RunSound /\ RefreshSound /\ HistoryKnown /\ Silent /\ Announced
<1>4. SUFFICES Rest'
  BY <1>1 DEF FullInv
<1>5. CASE UNCHANGED vars
  BY <1>2, <1>5, SameSets DEF vars, StoreSound, RunSound, RefreshSound, Current, HistoryKnown, Silent,
     Announced, NewsIsAnnounced, Stored
<1>6. CASE Finalize
  <2>1. /\ UNCHANGED <<world, decisions, events, source, scan, completed, repaired>>
        /\ head' \in 1 .. MaxBlock /\ head <= head' /\ scan'.pc = "idle"
    BY <1>3, <1>6 DEF Finalize
  <2>2. StoreSound'
    BY <1>2, <2>1, StoreFrame
  <2>3. RunSound' /\ RefreshSound'
    BY <2>1, RunOver
  <2>4. HistoryKnown' /\ Silent' /\ Announced'
    BY <1>2, <2>1, PastFrame
  <2> QED BY <2>2, <2>3, <2>4
<1>7. CASE BeginRefused
  <2>1. PICK b \in 1 .. head :
          /\ source' = Prepared(b) /\ repaired' = Rewound(b) /\ LatestFinalized(b)
          /\ UNCHANGED <<world, head, decisions, events, scan, completed>>
    BY <1>7 DEF BeginRefused
  <2>2. StoreSound'
    BY <1>2, <1>3, <2>1, StoreFrame
  <2>3. RunSound' /\ RefreshSound'
    BY <2>1, RunOver DEF LatestFinalized
  <2>4. HistoryKnown' /\ Silent' /\ Announced'
    BY <1>2, <2>1, PreparedPast
  <2> QED BY <2>2, <2>3, <2>4
<1>8. CASE BeginBaseline
  <2>1. PICK b \in 1 .. head :
          /\ source' = Prepared(b) /\ repaired' = Rewound(b) /\ Prepared(b).baseline = "seeding"
          /\ Admitted(Prepared(b), b) /\ Start("baseline", b, source'.cursor + 1, source'.target)
          /\ UNCHANGED <<world, head, decisions, events, completed>>
    BY <1>8 DEF BeginBaseline
  <2>2. StoreSound'
    BY <1>2, <1>3, <2>1, StoreFrame
  <2>3. RunSound' /\ RefreshSound'
    <3>1. source'.cursor + 1 \in Nat
      BY <1>2, <1>3, <2>1, PreparedType DEF Source
    <3>2. source'.count # NoCount
      BY <1>2, <2>1, PreparedCases, CountType, Sizes DEF NoCount
    <3>3. source'.target <= b /\ source'.cursor <= b
      BY <2>1 DEF Admitted, CanonicalCursor
    <3> QED BY <1>2, <2>1, <3>1, <3>2, <3>3, RunStarts
  <2>4. HistoryKnown' /\ Silent' /\ Announced'
    BY <1>2, <2>1, PreparedPast
  <2> QED BY <2>2, <2>3, <2>4
<1>9. CASE BeginRepair
  <2>1. PICK b \in 1 .. head :
          /\ source' = [Prepared(b) EXCEPT !.baseline = "seeding", !.replay = "silent", !.cursor = NoCursor]
          /\ repaired' = TRUE /\ LatestFinalized(b)
          /\ UNCHANGED <<world, head, decisions, events, scan, completed>>
    BY <1>9 DEF BeginRepair, ResetCoverageCursor
  <2>2. StoreSound'
    BY <1>2, <1>3, <2>1, StoreFrame
  <2>3. RunSound' /\ RefreshSound'
    BY <2>1, RunOver DEF LatestFinalized
  <2>4. /\ source'.target = Prepared(b).target /\ source'.count = Prepared(b).count
        /\ source'.baseline = "seeding"
    BY <1>2, <2>1, PreparedType DEF Source
  <2>5. HistoryKnown' /\ Silent' /\ Announced'
    BY <1>2, <2>1, <2>4, PreparedPast
  <2> QED BY <2>2, <2>3, <2>5
<1>10. CASE BeginLive
  <2>1. PICK b \in 1 .. head :
          /\ source' = Prepared(b) /\ Prepared(b).baseline = "complete"
          /\ Admitted(Prepared(b), b) /\ Start("live", b, ScanFrom, b)
          /\ UNCHANGED <<world, head, decisions, events, completed, repaired>>
    BY <1>10 DEF BeginLive
  <2>2. StoreSound'
    BY <1>2, <1>3, <2>1, StoreFrame
  <2>3. RunSound' /\ RefreshSound'
    <3>1. ScanFrom \in Nat
      BY <1>2, <1>3, Sizes DEF Source, ScanFrom
    <3>2. source'.count # NoCount
      BY <1>2, <2>1, PreparedCases, CountType, Sizes DEF NoCount
    <3>3. source'.target <= b /\ source'.cursor <= b
      BY <2>1 DEF Admitted, CanonicalCursor
    <3> QED BY <1>2, <2>1, <3>1, <3>2, <3>3, RunStarts
  <2>4. repaired \/ ~Rewound(b)
    <3>1. Prepared(b).target = source.target
      BY <1>2, <2>1, PreparedCases
    <3> QED BY <1>3, <3>1 DEF Rewound, Source
  <2>5. HistoryKnown' /\ Silent' /\ Announced'
    BY <1>2, <2>1, <2>4, PreparedPast
  <2> QED BY <2>2, <2>3, <2>5
<1>11. CASE GetEvents
  <2>1. UNCHANGED <<world, head, decisions, events, source, completed, repaired>>
    BY <1>11 DEF GetEvents
  <2>2. PICK answer :
          /\ \A m \in answer : m.id \in Ids /\ m.log \in LogsIn(world[m.id], scan.from, RangeEnd)
          /\ scan' = [scan EXCEPT !.pc = "range", !.logs = answer, !.todo = {l.id : l \in answer}]
    <3> DEFINE found == UNION {{[id |-> p, log |-> l] : l \in LogsIn(world[p], scan.from, RangeEnd)} : p \in Ids}
    <3>1. \A m \in found : m.id \in Ids /\ m.log \in LogsIn(world[m.id], scan.from, RangeEnd)
      OBVIOUS
    <3>2. PICK answer \in {found} \cup {found \ {m} : m \in found} :
            scan' = [scan EXCEPT !.pc = "range", !.logs = answer, !.todo = {l.id : l \in answer}]
      BY <1>11 DEF GetEvents
    <3>3. answer \subseteq found
      <4> HIDE DEF found
      <4> QED BY <3>2
    <3> HIDE DEF found
    <3>4. \A m \in answer : m.id \in Ids /\ m.log \in LogsIn(world[m.id], scan.from, RangeEnd)
      BY <3>1, <3>3
    <3> QED BY <3>2, <3>4
  <2>3. /\ scan.pc = "ranges" /\ scan'.pc = "range" /\ scan'.phase = scan.phase
        /\ scan'.observed = scan.observed /\ scan'.to = scan.to
        /\ scan'.logs = answer /\ scan'.todo = {l.id : l \in answer} /\ scan'.processed = scan.processed
    BY <1>3, <1>11, <2>2 DEF GetEvents, Scan
  <2>4. \A m \in answer : m.log.block <= scan.to
    <3> SUFFICES ASSUME NEW m \in answer PROVE m.log.block <= scan.to
      OBVIOUS
    <3>1. m.log \in AllLogs(world[m.id]) /\ m.log.block <= RangeEnd /\ m.id \in Ids
      BY <2>2 DEF LogsIn
    <3>2. m.log.block \in Nat /\ RangeEnd \in Nat /\ RangeEnd <= scan.to /\ scan.to \in Nat
      BY <1>2, <1>3, <3>1, Sizes, LogCases, RangeEndType DEF Scan
    <3> QED BY <3>1, <3>2
  <2>5. RunSound'
    BY <1>2, <2>1, <2>3, <2>4 DEF RunSound
  <2>6. RefreshSound'
    BY <1>2, <2>1, <2>3, SameSets DEF RefreshSound, Stored, Current
  <2>7. StoreSound' /\ HistoryKnown' /\ Silent' /\ Announced'
    BY <1>2, <2>1, QuietStep
  <2> QED BY <2>5, <2>6, <2>7
<1>12. CASE SyncNext
  <2>1. PICK p \in scan.todo : SynchronizeDecision(p, ReadLogs(p))
    BY <1>12 DEF SyncNext
  <2>2. UNCHANGED <<world, head, source, completed, repaired>> /\ scan.pc = "range"
    BY <1>12 DEF SyncNext
  <2>3. p \in Ids
    BY <1>3 DEF Scan
  <2>4. \A l \in ReadLogs(p) : l \in AllLogs(world[p]) /\ l.block <= scan.to
    BY <1>2, <2>2 DEF ReadLogs, RangeSound, RunSound
  <2>5. ReadLogs(p) # {}
    <3>1. PICK m \in scan.logs : m.id = p
      BY <1>2, <2>2 DEF RunSound
    <3> QED BY <3>1 DEF ReadLogs
  <2> QED BY <1>2, <2>1, <2>2, <2>3, <2>4, <2>5, SyncInv
<1>13. CASE EndRange
  <2>1. /\ UNCHANGED <<world, head, decisions, events, completed, repaired>> /\ scan.pc = "range"
        /\ source' = [source EXCEPT !.cursor = IF RangeEnd >= source.cursor THEN RangeEnd ELSE source.cursor]
        /\ scan' = [scan EXCEPT !.pc = "ranges", !.from = RangeEnd + 1, !.logs = {}]
    BY <1>13 DEF EndRange
  <2>2. /\ source'.target = source.target /\ source'.count = source.count
        /\ source'.baseline = source.baseline /\ source'.success = source.success
        /\ source'.cursor \in {source.cursor, RangeEnd}
    BY <1>3, <2>1 DEF Source
  <2>3. /\ scan'.pc = "ranges" /\ scan'.phase = scan.phase /\ scan'.to = scan.to
        /\ scan'.observed = scan.observed /\ scan'.processed = scan.processed
    BY <1>3, <2>1 DEF Scan
  <2>4. source'.cursor <= scan.observed
    <3>1. RangeEnd \in Nat /\ RangeEnd <= scan.to /\ scan.to \in Nat /\ scan.observed \in Nat
      BY <1>2, <1>3, RangeEndType DEF Scan
    <3>2. scan.to <= scan.observed /\ source.cursor <= scan.observed
      BY <1>2, <1>3, <2>1, <3>1 DEF RunSound
    <3> QED BY <2>2, <3>1, <3>2
  <2>5. RunSound'
    BY <1>2, <2>1, <2>2, <2>3, <2>4 DEF RunSound
  <2>6. RefreshSound'
    BY <1>2, <2>1, <2>3, SameSets DEF RefreshSound, Stored, Current
  <2>7. StoreSound' /\ HistoryKnown' /\ Silent' /\ Announced'
    BY <1>2, <2>1, <2>2, QuietStep
  <2> QED BY <2>5, <2>6, <2>7
<1>14. CASE RangesDone
  <2>1. /\ UNCHANGED <<world, head, decisions, events, source, completed, repaired>>
        /\ scan.pc = "ranges" /\ scan.to < scan.from
    BY <1>14 DEF RangesDone
  <2>2. /\ scan'.phase = scan.phase /\ scan'.to = scan.to /\ scan'.observed = scan.observed
        /\ scan'.processed = scan.processed
        /\ \/ scan.phase = "catchUp" /\ scan'.pc = "coverage"
           \/ /\ scan.phase # "catchUp" /\ scan'.pc = "refresh"
              /\ scan'.todo = {p \in Ids : Stored(p) /\ ~Terminal(decisions[p])} \ scan.processed
    BY <1>3, <1>14 DEF RangesDone, Scan
  <2>3. scan.phase # "baseline" => source.cursor = scan.observed
    <3>1. /\ scan.from <= source.cursor + 1 /\ source.cursor <= scan.observed
          /\ scan.phase # "baseline" => scan.to = scan.observed
      BY <1>2, <2>1 DEF RangeSound, RunSound
    <3> QED BY <1>3, <2>1, <3>1 DEF Scan, Source
  <2>4. RunSound'
    BY <1>2, <2>1, <2>2, <2>3 DEF RunSound
  <2>5. RefreshSound'
    <3>1. /\ \A p \in scan.processed : Stored(p) /\ Current(p)
          /\ scan.phase = "catchUp" => \A p \in Ids : Stored(p) => Terminal(decisions[p]) \/ Current(p)
      BY <1>2, <2>1 DEF RefreshSound
    <3> QED BY <2>1, <2>2, <3>1, SameSets DEF RefreshSound, Stored, Current
  <2>6. StoreSound' /\ HistoryKnown' /\ Silent' /\ Announced'
    BY <1>2, <2>1, QuietStep
  <2> QED BY <2>4, <2>5, <2>6
<1>15. CASE RefreshNext
  <2>1. PICK p \in scan.todo : SynchronizeDecision(p, {})
    BY <1>15 DEF RefreshNext
  <2>2. UNCHANGED <<world, head, source, completed, repaired>> /\ scan.pc = "refresh"
    BY <1>15 DEF RefreshNext
  <2>3. p \in Ids /\ Stored(p)
    BY <1>2, <1>3, <2>2 DEF Scan, RefreshSound
  <2> QED BY <1>2, <2>1, <2>2, <2>3, SyncInv
<1>16. CASE RefreshDone
  <2>1. /\ UNCHANGED <<world, head, decisions, events, source, completed, repaired>>
        /\ scan.pc = "refresh" /\ scan.todo = {} /\ scan.phase = "live"
    BY <1>16 DEF RefreshDone
  <2>2. /\ scan'.pc = "coverage" /\ scan'.phase = scan.phase /\ scan'.to = scan.to
        /\ scan'.observed = scan.observed /\ scan'.processed = scan.processed
    BY <1>3, <1>16 DEF RefreshDone, Scan
  <2>3. RunSound'
    BY <1>2, <2>1, <2>2 DEF RunSound
  <2>4. RefreshSound'
    <3>1. \A p \in Ids : Stored(p) => Terminal(decisions[p]) \/ Current(p)
      BY <1>2, <2>1 DEF RefreshSound
    <3> QED BY <1>2, <2>1, <2>2, <3>1, SameSets DEF RefreshSound, Stored, Current
  <2>5. StoreSound' /\ HistoryKnown' /\ Silent' /\ Announced'
    BY <1>2, <2>1, QuietStep
  <2> QED BY <2>3, <2>4, <2>5
<1>17. CASE BaselineIncomplete
  <2>1. /\ UNCHANGED <<world, head, decisions, events, completed, repaired>>
        /\ scan.pc = "refresh" /\ scan.phase = "baseline" /\ scan' = NotRunning
        /\ source' = [source EXCEPT !.baseline = "seeding", !.replay = "silent", !.cursor = NoCursor]
    BY <1>17 DEF BaselineIncomplete, ResetCoverageCursor, Failed
  <2>2. source.baseline = "seeding"
    BY <1>2, <2>1 DEF RunSound
  <2>3. /\ source'.target = source.target /\ source'.count = source.count
        /\ source'.baseline = source.baseline
    BY <1>3, <2>1, <2>2 DEF Source
  <2>4. RunSound' /\ RefreshSound'
    BY <2>1, RunOver DEF NotRunning
  <2>5. StoreSound' /\ HistoryKnown' /\ Silent' /\ Announced'
    BY <1>2, <2>1, <2>2, <2>3, QuietStep
  <2> QED BY <2>4, <2>5
<1>18. CASE CompleteBaseline
  <2>1. /\ UNCHANGED <<world, head, decisions, events, repaired>>
        /\ scan.pc = "refresh" /\ scan.todo = {} /\ scan.phase = "baseline"
        /\ source' = [source EXCEPT !.baseline = "complete", !.replay = "none"]
        /\ scan' = [scan EXCEPT !.pc = "ranges", !.phase = "catchUp",
                          !.from = source.cursor + 1, !.to = scan.observed, !.processed = {}]
    BY <1>18 DEF CompleteBaseline
  <2>2. /\ source'.baseline = "complete" /\ source'.count = source.count
        /\ source'.target = source.target /\ source'.cursor = source.cursor
        /\ scan'.pc = "ranges" /\ scan'.phase = "catchUp" /\ scan'.to = scan.observed
        /\ scan'.observed = scan.observed /\ scan'.processed = {}
    BY <1>3, <2>1 DEF Source, Scan
  <2>3. StoreSound'
    BY <1>2, <1>3, <2>1, StoreFrame
  <2>4. RunSound'
    BY <1>2, <2>1, <2>2 DEF RunSound
  <2>5. RefreshSound'
    <3>1. \A p \in Ids : Stored(p) => Terminal(decisions[p]) \/ Current(p)
      BY <1>2, <2>1 DEF RefreshSound
    <3> QED BY <2>1, <2>2, <3>1, SameSets DEF RefreshSound, Stored, Current
  <2>6. HistoryKnown' /\ Silent' /\ Announced'
    BY <1>2, <1>18, CompletedPast
  <2> QED BY <2>3, <2>4, <2>5, <2>6
<1>19. CASE LiveIncomplete
  <2>1. /\ UNCHANGED <<world, head, decisions, events, completed, repaired>>
        /\ scan.pc = "coverage" /\ scan' = NotRunning
        /\ source' = [source EXCEPT !.baseline = "complete", !.replay = "live", !.cursor = NoCursor]
    BY <1>19 DEF LiveIncomplete, ResetCoverageCursor, Failed
  <2>2. source.baseline = "complete"
    BY <1>2, <2>1 DEF RunSound
  <2>3. /\ source'.target = source.target /\ source'.count = source.count
        /\ source'.baseline = source.baseline
    BY <1>3, <2>1, <2>2 DEF Source
  <2>4. RunSound' /\ RefreshSound'
    BY <2>1, RunOver DEF NotRunning
  <2>5. StoreSound' /\ HistoryKnown' /\ Silent' /\ Announced'
    BY <1>2, <2>1, <2>2, <2>3, QuietStep
  <2> QED BY <2>4, <2>5
<1>20. CASE RecordSuccess
  <2>1. /\ UNCHANGED <<world, head, decisions, events, completed, repaired>>
        /\ scan.pc = "coverage" /\ scan' = NotRunning
        /\ source' = [source EXCEPT !.replay = "none", !.success = scan.observed]
    BY <1>20 DEF RecordSuccess
  <2>2. source.baseline = "complete"
    BY <1>2, <2>1 DEF RunSound
  <2>3. /\ source'.target = source.target /\ source'.count = source.count
        /\ source'.baseline = source.baseline
    BY <1>3, <2>1, <2>2 DEF Source
  <2>4. RunSound' /\ RefreshSound'
    BY <2>1, RunOver DEF NotRunning
  <2>5. StoreSound' /\ HistoryKnown' /\ Silent' /\ Announced'
    BY <1>2, <2>1, <2>2, <2>3, QuietStep
  <2> QED BY <2>4, <2>5
<1>21. CASE Abort
  <2>1. UNCHANGED <<world, head, decisions, events, source, completed, repaired>> /\ scan' = NotRunning
    BY <1>21 DEF Abort, Failed
  <2>2. RunSound' /\ RefreshSound'
    BY <2>1, RunOver DEF NotRunning
  <2>3. StoreSound' /\ HistoryKnown' /\ Silent' /\ Announced'
    BY <1>2, <2>1, QuietStep
  <2> QED BY <2>2, <2>3
<1> QED BY <1>5, <1>6, <1>7, <1>8, <1>9, <1>10, <1>11, <1>12, <1>13, <1>14, <1>15,
           <1>16, <1>17, <1>18, <1>19, <1>20, <1>21 DEF Next, Step

LEMMA FullInvariant == Spec => []FullInv
BY InitFull, StepFull, PTL DEF Spec

-------------------------------------------------------------------------------
\* Nothing that had happened when the service was first started is ever announced:
\* not through failed and repeated runs, answers with a log missing, replays, repairs of
\* the baseline, nor the states that an older version left.
THEOREM Silence == Spec => []HistoryIsSilent
<1>1. FullInv => HistoryIsSilent
  <2> SUFFICES ASSUME FullInv, NEW p \in 1 .. source.count, NEW t \in DOMAIN events[p],
                      By(HappenedAt(world[p], t), source.target)
               PROVE  events[p][t].status = "skipped"
    BY DEF HistoryIsSilent
  <2>1. p \in Ids
    BY Sizes DEF FullInv, ScanInv, TypeOK, Source, NoCount
  <2> QED BY <2>1 DEF FullInv, Silent
<1> QED BY <1>1, FullInvariant, PTL

\* What happens later is announced, once the baseline is complete or if the proposal was
\* created after its target, as long as the baseline had not to be repaired.
THEOREM News == Spec => []NewsIsAnnounced
<1>1. FullInv => NewsIsAnnounced
  BY DEF FullInv, Announced, NewsIsAnnounced
<1> QED BY <1>1, FullInvariant, PTL

\* What is stored is true of the chain, though a provider may leave logs out of its
\* answers or lag behind: every decision has the state the proposal had at a block, its
\* references are blocks of the life, and its events are those that the state stands for.
THEOREM StoreTrue == Spec => []StoreSound
<1>1. FullInv => StoreSound
  BY DEF FullInv
<1> QED BY <1>1, FullInvariant, PTL

\* A complete baseline knows every proposal and every transition up to its target, but
\* that a proposal which was found canceled had expired before.
THEOREM BaselineKnows == Spec => []HistoryKnown
<1>1. FullInv => HistoryKnown
  BY DEF FullInv
<1> QED BY <1>1, FullInvariant, PTL

\* What a step that records a success has found.
LEMMA SuccessStep ==
  ASSUME FullInv, RecordSuccess
  PROVE  SuccessIsComplete
<1>1. /\ TypeOK /\ CursorCovers /\ StoreSound /\ RunSound /\ RefreshSound
      /\ scan.pc = "coverage" /\ scan \in Scan /\ source \in Source
      /\ MissingProposals(ProposalCount(scan.observed)) = {} /\ MissingReferences(Ids) = {}
  BY DEF FullInv, ScanInv, TypeOK, RecordSuccess, LiveGaps
<1>2. source.cursor = scan.observed /\ scan.observed \in Nat /\ scan.observed <= head /\ head \in Nat
  BY <1>1, Sizes DEF RunSound, Scan, TypeOK
<1> SUFFICES ASSUME NEW p \in 1 .. ProposalCount(scan.observed)
             PROVE  /\ Stored(p)
                    /\ \E b \in scan.observed .. head : decisions[p].status = StatusAt(world[p], b)
                    /\ \A l \in LogsIn(world[p], 1, scan.observed) :
                         Recorded(p, l) \/ (l.type = "canceled" /\ LaterCancellation(p))
  BY <1>2 DEF SuccessIsComplete
<1>3. p \in Ids /\ p <= ProposalCount(scan.observed)
  BY <1>1, CountType, Sizes
<1>4. Stored(p) /\ ~MissingReference(p)
  BY <1>1, <1>3 DEF MissingProposals, MissingReferences
<1> DEFINE h == world[p]
           d == decisions[p]
<1>5. /\ d \in Decision /\ Sound(h, d) /\ d.observed \in Nat /\ d.observed <= head
      /\ Terminal(d) \/ StatusAt(h, scan.observed) = d.status
      /\ IsLife(h)
  <2>1. d \in Decision
    BY <1>1, <1>3, <1>4, StoredType
  <2>2. Sound(h, d) /\ d.observed <= head
    BY <1>1, <1>3, <1>4 DEF StoreSound
  <2>3. Terminal(d) \/ StatusAt(h, scan.observed) = d.status
    BY <1>1, <1>3, <1>4 DEF RefreshSound, Current
  <2> QED BY <1>1, <1>3, <2>1, <2>2, <2>3, Sizes DEF Decision
<1>6. /\ d.created # 0
      /\ d.status = "canceled" => d.canceled # 0
      /\ d.status \in {"queued", "expired", "executed"} => d.queued # 0
      /\ d.status = "canceled" /\ d.eta => d.queued # 0
      /\ d.status = "executed" => d.executed # 0
  BY <1>4 DEF MissingReference
<1>7. \E b \in scan.observed .. head : d.status = StatusAt(h, b)
  <2> HIDE DEF h, d
  <2>1. CASE StatusAt(h, scan.observed) = d.status
    BY <1>2, <2>1
  <2>2. CASE Terminal(d) /\ d.observed <= scan.observed
    <3>1. StatusAt(h, d.observed) = d.status /\ d.status \in {"canceled", "executed"}
      BY <1>5, <2>2 DEF Sound, Terminal
    <3>2. StatusAt(h, scan.observed) = d.status
      BY <1>2, <1>5, <2>2, <3>1, TerminalStays
    <3> QED BY <1>2, <3>2
  <2>3. CASE scan.observed <= d.observed
    BY <1>2, <1>5, <2>3 DEF Sound
  <2> QED BY <1>2, <1>5, <2>1, <2>2, <2>3
<1>8. ASSUME NEW l \in LogsIn(h, 1, scan.observed)
      PROVE  Recorded(p, l) \/ (l.type = "canceled" /\ LaterCancellation(p))
  <2>1. l \in AllLogs(h) /\ l.block <= scan.observed
    BY <1>8 DEF LogsIn
  <2>2. CASE [id |-> p, log |-> l] \notin omitted
    BY <1>1, <1>2, <1>3, <2>1, <2>2 DEF CursorCovers
  <2>3. CASE [id |-> p, log |-> l] \in omitted
    <3>1. PICK b \in scan.observed .. head : d.status = StatusAt(h, b)
      BY <1>7
    <3>2. /\ b \in Nat /\ l.block \in Nat /\ l.block # 0 /\ l.block <= b
          /\ \/ l.type = "created" /\ l.block = h.created
             \/ l.type = "canceled" /\ l.block \in h.cancels
             \/ l.type = "queued" /\ l.block = h.queued
             \/ l.type = "executed" /\ l.block = h.executed
      BY <1>2, <1>5, <2>1, LogCases
    <3>3. CASE l.type = "created"
      <4>1. d.created = l.block
        BY <1>5, <1>6, <3>2, <3>3 DEF Sound
      <4> QED BY <3>2, <3>3, <4>1 DEF Recorded, TransactionForTransition, d
    <3>4. CASE l.type = "canceled"
      <4>1. d.status = "canceled"
        BY <3>1, <3>2, <3>4 DEF StatusAt, CanceledBy
      <4>2. d.canceled # 0 /\ d.canceled \in Nat
        BY <1>5, <1>6, <4>1 DEF Decision
      <4>3. CASE d.canceled <= l.block
        BY <3>4, <4>2, <4>3 DEF Recorded, TransactionForTransition
      <4>4. CASE l.block < d.canceled
        BY <2>1, <2>3, <3>4, <4>4 DEF LaterCancellation
      <4> QED BY <3>2, <4>2, <4>3, <4>4, <3>4
    <3>5. CASE l.type = "queued"
      <4>1. h.queued # 0 /\ h.queued = l.block
        BY <3>2, <3>5
      <4>2. d.status \in {"canceled", "queued", "expired", "executed"}
        BY <1>5, <3>1, <3>2, <4>1 DEF StatusAt, CanceledBy, By, IsLife
      <4>3. d.status = "canceled" => d.eta
        BY <1>5, <4>1 DEF Sound, QueueFits
      <4>4. d.queued = l.block
        BY <1>5, <1>6, <4>1, <4>2, <4>3 DEF Sound
      <4> QED BY <3>2, <3>5, <4>4 DEF Recorded, TransactionForTransition
    <3>6. CASE l.type = "executed"
      <4>1. d.status = "executed"
        BY <1>5, <3>1, <3>2, <3>6, LastLog
      <4>2. d.executed = l.block
        BY <1>5, <1>6, <3>2, <3>6, <4>1 DEF Sound
      <4> QED BY <3>2, <3>6, <4>2 DEF Recorded, TransactionForTransition
    <3> QED BY <3>2, <3>3, <3>4, <3>5, <3>6
  <2> QED BY <2>2, <2>3
<1> QED BY <1>4, <1>7, <1>8

\* A run that is reported as successful has every proposal of the block it was pinned
\* to, in the state of that block or a later one, and every transaction behind it, but
\* for a cancellation whose log was left out when another one is known.
THEOREM Successes == Spec => SuccessesAreComplete
<1>1. FullInv /\ [Next]_vars => [SuccessIsComplete]_vars
  <2> SUFFICES ASSUME FullInv, [Next]_vars, source'.success # source.success
               PROVE  SuccessIsComplete
    BY DEF SuccessIsComplete
  <2>1. TypeOK /\ source \in Source /\ Silent
    BY DEF FullInv, ScanInv, TypeOK
  <2>2. ~UNCHANGED source
    OBVIOUS
  <2>3. ASSUME NEW b \in 1 .. head
        PROVE  Prepared(b).success = source.success
    <3>1. source.baseline = "none" => source.success = 0
      BY <2>1 DEF Silent
    <3> QED BY <2>1, <3>1, PreparedCases
  <2>4. ~BeginRefused /\ ~BeginBaseline /\ ~BeginLive
    BY <2>3 DEF BeginRefused, BeginBaseline, BeginLive
  <2>5. ~BeginRepair
    <3> SUFFICES ASSUME NEW b \in 1 .. head,
                        source' = [Prepared(b) EXCEPT !.baseline = "seeding", !.replay = "silent",
                                                      !.cursor = NoCursor]
                 PROVE  FALSE
      BY DEF BeginRepair, ResetCoverageCursor
    <3>1. source'.success = Prepared(b).success
      BY <2>1, PreparedType DEF Source
    <3> QED BY <2>3, <3>1
  <2>6. ~EndRange
    BY <2>1 DEF EndRange, Source
  <2>7. ~BaselineIncomplete /\ ~CompleteBaseline /\ ~LiveIncomplete
    BY <2>1 DEF BaselineIncomplete, CompleteBaseline, LiveIncomplete, ResetCoverageCursor, Source
  <2>8. /\ ~GetEvents /\ ~SyncNext /\ ~RangesDone /\ ~RefreshNext /\ ~RefreshDone
        /\ ~Finalize /\ ~Abort
    BY <2>2 DEF GetEvents, SyncNext, RangesDone, RefreshNext, RefreshDone, Finalize, Abort
  <2>9. RecordSuccess
    BY <2>2, <2>4, <2>5, <2>6, <2>7, <2>8 DEF Next, Step, vars
  <2> QED BY <2>9, SuccessStep
<1> QED BY <1>1, FullInvariant, PTL DEF Spec, SuccessesAreComplete
===============================================================================
