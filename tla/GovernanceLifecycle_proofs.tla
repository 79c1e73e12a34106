---------------------- MODULE GovernanceLifecycle_proofs ----------------------
(***************************************************************************)
(* Proofs about GovernanceLifecycle for any scanners, any lives of a       *)
(* proposal, and any number of blocks.                                     *)
(***************************************************************************)
EXTENDS GovernanceLifecycle, GovernanceDecision_proofs

-------------------------------------------------------------------------------
\* An event with a transaction is dated by it; the others name none.
EventsDated ==
  \A t \in DOMAIN events :
    events[t].transaction # 0 => t \notin Results /\ events[t].block = events[t].transaction

\* Whatever a scanner holds, however old it is by now, is an observation of this life.
ObservationsFit ==
  \A s \in Scanners : scanner[s].reading =>
    /\ scanner[s].observation \in Decision
    /\ scanner[s].observation.observed <= head
    /\ QueueFits(life, scanner[s].observation)

LifecycleInv ==
  /\ TypeOK /\ EventsMatchDecision /\ EventsDated /\ ObservationsFit
  /\ decision # NoDecision => QueueFits(life, decision) /\ VoteFits(decision)

\* The initial states satisfy the invariant.
LEMMA InitInv == Init => LifecycleInv
<1> SUFFICES ASSUME Init PROVE LifecycleInv
  OBVIOUS
<1> USE ConstantsAssumption DEF Init
<1>1. NotReading \in [reading : BOOLEAN, observation : Decision \cup {NoDecision}, upTo : 0 .. MaxBlock]
  BY DEF NotReading
<1>2. scanner \in [Scanners -> [reading : BOOLEAN, observation : Decision \cup {NoDecision},
                              upTo : 0 .. MaxBlock]]
  BY <1>1
<1>3. DOMAIN events = {}
  BY DEF NoEvents
<1>4. /\ life \in Lives /\ head \in 0 .. MaxBlock /\ cursor \in 0 .. MaxBlock
      /\ synced \in 0 .. MaxBlock /\ refused \in BOOLEAN
  <2>1. head = 0 /\ cursor = 0 /\ synced = 0 /\ life \in Lives /\ refused = FALSE
    OBVIOUS
  <2>2. refused \in BOOLEAN
    BY <2>1, Zenon
  <2> HIDE DEF Init
  <2> QED BY <2>1, <2>2
<1>5. TypeOK
  BY <1>2, <1>3, <1>4 DEF TypeOK
<1>6. \A s \in Scanners : ~scanner[s].reading
  BY DEF NotReading
<1> QED BY <1>3, <1>5, <1>6 DEF LifecycleInv, EventsMatchDecision, EventsDated, ObservationsFit

\* Every step keeps it.
LEMMA StepInv == LifecycleInv /\ [Next]_vars => LifecycleInv'
<1> SUFFICES ASSUME LifecycleInv, [Next]_vars PROVE LifecycleInv'
  OBVIOUS
<1> USE DEF LifecycleInv
<1>h. IsLife(life) /\ head \in Nat /\ head <= MaxBlock /\ MaxBlock \in Nat
  BY ConstantsAssumption DEF TypeOK
<1>1. CASE Finalize
  <2> USE <1>1 DEF Finalize
  <2>1. TypeOK'
    BY <1>h DEF TypeOK
  <2>2. ObservationsFit'
    <3> SUFFICES ASSUME NEW s \in Scanners, scanner[s].reading
                 PROVE  scanner[s].observation.observed <= head + 1
      BY DEF ObservationsFit
    <3>1. scanner[s].observation.observed \in Nat /\ scanner[s].observation.observed <= head
      BY DEF ObservationsFit, Decision
    <3> QED BY <1>h, <3>1
  <2> QED BY <2>1, <2>2 DEF EventsMatchDecision, EventsDated
<1>2. ASSUME NEW s \in Scanners, NEW logs, logs \subseteq AllLogs(life), NEW upTo \in 0 .. MaxBlock,
             NEW at \in 1 .. head, Observe(s, logs, upTo, at)
      PROVE  LifecycleInv'
  <2> DEFINE o == GetDecision(life, logs, decision, at)
  <2>1. decision \in Decision \cup {NoDecision}
    BY DEF TypeOK
  <2>2. o \in Decision /\ QueueFits(life, o)
    <3>1. at \in Nat
      BY <1>h
    <3> QED BY <1>h, <1>2, <2>1, <3>1, GetDecisionType, ObservationFits DEF Observe
  <2>3. o.observed = at /\ at <= head
    BY <1>h DEF GetDecision
  <2>4. scanner' = [scanner EXCEPT ![s] = [reading |-> TRUE, observation |-> o, upTo |-> upTo]]
    BY <1>2 DEF Observe
  <2>5. UNCHANGED <<life, head, decision, events, cursor, synced, refused>>
    BY <1>2 DEF Observe
  <2> HIDE DEF o
  <2>6. TypeOK'
    BY <2>2, <2>4, <2>5 DEF TypeOK
  <2>7. ObservationsFit'
    BY <1>h, <2>2, <2>3, <2>4, <2>5 DEF ObservationsFit, TypeOK
  <2> QED BY <2>5, <2>6, <2>7 DEF EventsMatchDecision, EventsDated
<1>3. ASSUME NEW s \in Scanners, ScanRange(s) PROVE LifecycleInv'
  <2>1. PICK at \in 1 .. head : \E lo \in {1, cursor + 1}, hi \in {l.block : l \in LogsIn(life, 1, at)} :
          Observe(s, LogsIn(life, lo, hi), hi, at)
    BY <1>3 DEF ScanRange
  <2>4. PICK lo \in {1, cursor + 1}, hi \in {l.block : l \in LogsIn(life, 1, at)} :
          Observe(s, LogsIn(life, lo, hi), hi, at)
    BY <2>1
  <2>2. hi \in 0 .. MaxBlock
    BY <1>h, LogsOfALife DEF LogsIn
  <2>3. LogsIn(life, lo, hi) \subseteq AllLogs(life)
    BY DEF LogsIn
  <2> QED BY <1>2, <2>2, <2>3, <2>4
<1>4. ASSUME NEW s \in Scanners, Refresh(s) PROVE LifecycleInv'
  BY <1>2, <1>4, <1>h DEF Refresh
<1>5. ASSUME NEW s \in Scanners, Upsert(s) PROVE LifecycleInv'
  <2> DEFINE o == scanner[s].observation
             d == MergeGovernanceDecision(decision, o)
             implied == ImpliedTransitions(d)
             new == NewEvents(decision, events, d)
  <2>1. o \in Decision /\ o.observed \in Nat /\ o.observed <= head /\ QueueFits(life, o)
    BY <1>5 DEF Upsert, ObservationsFit, Decision
  <2>2. decision \in Decision \cup {NoDecision}
    BY DEF TypeOK
  <2>3. ~MergeRefused(decision, o)
    BY <1>5 DEF Upsert, UpsertRefused
  <2>4. /\ decision' = d
        /\ events' = UpsertedEvents(decision, events, d, Note(s))
        /\ scanner' = [scanner EXCEPT ![s] = NotReading]
        /\ UNCHANGED <<life, head, refused>>
        /\ cursor' \in {cursor, scanner[s].upTo} /\ synced' \in {synced, o.observed}
    BY <1>5 DEF Upsert, Done
  <2>5. Note(s) \in {"pending", "skipped"}
    BY DEF Note
  <2> HIDE DEF o
  <2>6. /\ d \in Decision
        /\ d.status = o.status /\ d.eta = o.eta /\ d.queued = OrElse(o.queued, decision.queued)
        /\ decision # NoDecision =>
             /\ d.status = decision.status \/ d.status \in AllowedStatusTransitions[decision.status]
             /\ decision.eta => d.eta
        /\ VoteFits(d)
        /\ d.status = "canceled" /\ decision.vote \in Results =>
             d.vote = decision.vote \/ (d.vote = "succeeded" /\ WasQueued(o))
        /\ d.status = "canceled" /\ WasQueued(o) => decision.vote # "defeated"
    BY <2>1, <2>2, <2>3, Merged
  <2> HIDE DEF d
  <2>7. QueueFits(life, d)
    <3>1. CASE decision = NoDecision
      <4>1. decision.queued = 0
        BY <3>1 DEF NoDecision
      <4> QED BY <2>1, <2>6, <4>1 DEF QueueFits, OrElse
    <3>2. CASE decision # NoDecision
      <4>1. decision.queued # 0 => decision.eta
        BY <3>2 DEF QueueFits
      <4> QED BY <2>1, <2>6, <3>2, <4>1 DEF QueueFits, OrElse
    <3> QED BY <3>1, <3>2
  <2>8. decision # NoDecision =>
          /\ implied \subseteq ImpliedTransitions(decision) \cup DeriveGovernanceTransitions(decision, d)
          /\ ImpliedTransitions(decision) \subseteq implied
                \cup (IF d.status = "canceled" THEN {"expired"} ELSE {})
          /\ decision.status = "canceled" => d.status = "canceled"
    <3> SUFFICES ASSUME decision # NoDecision
                 PROVE  /\ implied \subseteq ImpliedTransitions(decision)
                                              \cup DeriveGovernanceTransitions(decision, d)
                        /\ ImpliedTransitions(decision) \subseteq implied
                              \cup (IF d.status = "canceled" THEN {"expired"} ELSE {})
                        /\ decision.status = "canceled" => d.status = "canceled"
      OBVIOUS
    <3>1. decision \in Decision /\ QueueFits(life, decision) /\ VoteFits(decision)
      BY <2>2
    <3>2. WasQueued(o) => WasQueued(d)
      BY <2>1, <2>6 DEF WasQueued, QueueFits
    <3>3. d.status = "canceled" /\ decision.vote = "defeated" => ~WasQueued(d)
      <4>1. SUFFICES ASSUME d.status = "canceled", decision.vote = "defeated", WasQueued(d)
                     PROVE  FALSE
        OBVIOUS
      <4>2. d.eta
        BY <2>7, <4>1 DEF WasQueued, QueueFits
      <4> QED BY <2>6, <4>1, <4>2 DEF WasQueued
    <3> QED BY <2>6, <2>7, <3>1, <3>2, <3>3, TransitionsDerived
  <2>9. DOMAIN events' = DOMAIN events \cup new
    BY <2>4 DEF UpsertedEvents
  <2>10. EventsMatchDecision'
    <3>1. d # NoDecision
      BY <2>6 DEF Decision, NoDecision, Statuses
    <3>2. new \subseteq implied
      BY DEF NewEvents
    <3>3. CASE decision = NoDecision
      <4>1. implied \subseteq new /\ DOMAIN events = {}
        BY <3>3 DEF NewEvents, DeriveGovernanceTransitions, EventsMatchDecision, NoEvents
      <4> QED BY <2>4, <2>9, <3>1, <3>2, <4>1 DEF EventsMatchDecision
    <3>4. CASE decision # NoDecision
      <4>1. /\ ImpliedTransitions(decision) \subseteq DOMAIN events
            /\ DOMAIN events \subseteq ImpliedTransitions(decision)
                  \cup (IF decision.status = "canceled" THEN {"expired"} ELSE {})
        BY <3>4 DEF EventsMatchDecision
      <4>2. implied \subseteq DOMAIN events \cup new
        BY <2>8, <3>4, <4>1 DEF NewEvents
      <4> QED BY <2>4, <2>8, <2>9, <3>1, <3>2, <3>4, <4>1, <4>2 DEF EventsMatchDecision
    <3> QED BY <3>3, <3>4
  <2>11. implied \subseteq Transitions
    BY <2>6 DEF ImpliedTransitions, Transitions, Decision, Statuses, Results
  <2>12. ASSUME NEW t \in DOMAIN events'
         PROVE  /\ t \in Transitions /\ events'[t] \in LifecycleEvent
                /\ events'[t].transaction # 0 =>
                     t \notin Results /\ events'[t].block = events'[t].transaction
    <3>1. events'[t] = IF t \notin DOMAIN events THEN BuildLifecycleEvent(d, t, Note(s))
                       ELSE IF t \notin implied THEN events[t]
                       ELSE MergeLifecycleEventMetadata(events[t], BuildLifecycleEvent(d, t, Note(s)))
      BY <2>4, <2>9 DEF UpsertedEvents
    <3>2. t \in Transitions
      BY <2>9, <2>11 DEF NewEvents, TypeOK
    <3>3. t \in DOMAIN events =>
            /\ events[t] \in LifecycleEvent
            /\ events[t].transaction # 0 => t \notin Results /\ events[t].block = events[t].transaction
      BY DEF TypeOK, EventsDated
    <3>4. /\ BuildLifecycleEvent(d, t, Note(s)) \in LifecycleEvent
          /\ BuildLifecycleEvent(d, t, Note(s)).transaction # 0 =>
               /\ t \notin Results
               /\ BuildLifecycleEvent(d, t, Note(s)).block = BuildLifecycleEvent(d, t, Note(s)).transaction
      BY <2>5, <2>6, <3>2, EventTypes
    <3>5. ASSUME NEW old \in LifecycleEvent, NEW candidate \in LifecycleEvent
          PROVE  MergeLifecycleEventMetadata(old, candidate) \in
                   {old, [old EXCEPT !.transaction = candidate.transaction, !.block = candidate.block]}
      BY DEF MergeLifecycleEventMetadata
    <3>6. CASE events'[t] = BuildLifecycleEvent(d, t, Note(s))
      BY <3>2, <3>4, <3>6
    <3>7. CASE t \in DOMAIN events /\ events'[t] = events[t]
      BY <3>2, <3>3, <3>7
    <3>8. CASE /\ t \in DOMAIN events
               /\ events'[t] = [events[t] EXCEPT
                    !.transaction = BuildLifecycleEvent(d, t, Note(s)).transaction,
                    !.block = BuildLifecycleEvent(d, t, Note(s)).block]
      <4> DEFINE candidate == BuildLifecycleEvent(d, t, Note(s))
      <4>1. events[t] \in LifecycleEvent /\ candidate \in LifecycleEvent
        BY <3>3, <3>4, <3>8
      <4>2. events'[t] = [events[t] EXCEPT !.transaction = candidate.transaction,
                                          !.block = candidate.block]
        BY <3>8
      <4>3. candidate.transaction # 0 => t \notin Results /\ candidate.block = candidate.transaction
        BY <3>4
      <4> HIDE DEF candidate
      <4> QED BY <3>2, <4>1, <4>2, <4>3 DEF LifecycleEvent
    <3> QED BY <3>1, <3>3, <3>4, <3>5, <3>6, <3>7, <3>8
  <2>13. NotReading \in [reading : BOOLEAN, observation : Decision \cup {NoDecision},
                         upTo : 0 .. MaxBlock]
    BY <1>h DEF NotReading
  <2>14. TypeOK'
    <3>1. scanner' \in [Scanners -> [reading : BOOLEAN, observation : Decision \cup {NoDecision},
                                     upTo : 0 .. MaxBlock]]
      BY <2>4, <2>13 DEF TypeOK
    <3>2. cursor' \in 0 .. MaxBlock /\ synced' \in 0 .. MaxBlock
      BY <1>h, <2>1, <2>4 DEF TypeOK
    <3> QED BY <2>4, <2>6, <2>12, <3>1, <3>2 DEF TypeOK
  <2>15. ObservationsFit'
    BY <2>4 DEF ObservationsFit, NotReading, TypeOK
  <2>16. EventsDated'
    BY <2>12 DEF EventsDated
  <2>17. decision' # NoDecision => QueueFits(life', decision') /\ VoteFits(decision')
    BY <2>4, <2>6, <2>7
  <2> QED BY <2>10, <2>14, <2>15, <2>16, <2>17
<1>6. ASSUME NEW s \in Scanners, Refuse(s) \/ Abandon(s) PROVE LifecycleInv'
  <2>1. /\ scanner' = [scanner EXCEPT ![s] = NotReading]
        /\ UNCHANGED <<life, head, decision, events, cursor, synced>> /\ refused' \in BOOLEAN
    BY <1>6 DEF Refuse, Abandon, Done, TypeOK
  <2>2. NotReading \in [reading : BOOLEAN, observation : Decision \cup {NoDecision},
                        upTo : 0 .. MaxBlock]
    BY <1>h DEF NotReading
  <2>3. TypeOK'
    BY <2>1, <2>2 DEF TypeOK
  <2>4. ObservationsFit'
    BY <2>1 DEF ObservationsFit, NotReading, TypeOK
  <2> QED BY <2>1, <2>3, <2>4 DEF EventsMatchDecision, EventsDated
<1>7. CASE UNCHANGED vars
  BY <1>7 DEF vars, TypeOK, EventsMatchDecision, EventsDated, ObservationsFit
<1> QED BY <1>1, <1>3, <1>4, <1>5, <1>6, <1>7 DEF Next

\* Type correctness: what is stored is always what an observation can be, though
\* merges and several scanners interfere.
THEOREM TypeCorrect == Spec => []TypeOK
<1>1. LifecycleInv => TypeOK
  BY DEF LifecycleInv
<1> QED BY InitInv, StepInv, <1>1, PTL DEF Spec

\* EventsMatchDecision, whatever was sampled by whom: upsertDecision stores exactly
\* the events that the decision stands for.
THEOREM EventsMatch == Spec => []EventsMatchDecision
<1>1. LifecycleInv => EventsMatchDecision
  BY DEF LifecycleInv
<1> QED BY InitInv, StepInv, <1>1, PTL DEF Spec

\* EventsStay: no observation, old or new, removes an event, changes whether it
\* alerts, or rewrites a transaction that mergeLifecycleEventMetadata has stored.
THEOREM EventsPersist == Spec => EventsStay
<1>1. LifecycleInv /\ [Next]_vars => [EventsKept]_vars
  <2> SUFFICES ASSUME LifecycleInv, Next, NEW t \in DOMAIN events
               PROVE  /\ t \in DOMAIN events'
                      /\ events'[t].status = events[t].status
                      /\ events[t].transaction # 0 => events'[t] = events[t]
    BY DEF EventsKept
  <2>1. events[t] \in LifecycleEvent
    BY DEF LifecycleInv, TypeOK
  <2>2. ASSUME NEW s \in Scanners, Upsert(s)
        PROVE  /\ t \in DOMAIN events'
               /\ events'[t].status = events[t].status
               /\ events[t].transaction # 0 => events'[t] = events[t]
    <3> DEFINE d == MergeGovernanceDecision(decision, scanner[s].observation)
               candidate == BuildLifecycleEvent(d, t, Note(s))
    <3>1. /\ t \in DOMAIN events'
          /\ events'[t] = IF t \notin ImpliedTransitions(d) THEN events[t]
                          ELSE MergeLifecycleEventMetadata(events[t], candidate)
      BY <2>2 DEF Upsert, UpsertedEvents
    <3>2. t \in ImpliedTransitions(d) =>
            ~TransactionChanges(events[t], BuildLifecycleEvent(d, t, "skipped"))
      BY <2>2 DEF Upsert, UpsertRefused
    <3>3. /\ d \in Decision /\ t \in Transitions /\ Note(s) \in {"pending", "skipped"}
      <4>1. scanner[s].observation \in Decision /\ decision \in Decision \cup {NoDecision}
        BY <2>2 DEF Upsert, LifecycleInv, ObservationsFit, TypeOK
      <4>2. ~MergeRefused(decision, scanner[s].observation)
        BY <2>2 DEF Upsert, UpsertRefused
      <4> QED BY <4>1, <4>2, Merged DEF LifecycleInv, TypeOK, Note
    <3>4. /\ candidate \in LifecycleEvent
          /\ candidate.transaction # 0 => candidate.block = candidate.transaction
          /\ candidate.transaction = BuildLifecycleEvent(d, t, "skipped").transaction
      BY <3>3, EventTypes DEF BuildLifecycleEvent
    <3>5. events[t].transaction # 0 => events[t].block = events[t].transaction
      BY DEF LifecycleInv, EventsDated
    <3> HIDE DEF d, candidate
    <3>6. events'[t] \in {events[t], [events[t] EXCEPT !.transaction = candidate.transaction,
                                                      !.block = candidate.block]}
      BY <3>1 DEF MergeLifecycleEventMetadata
    <3>7. events'[t].status = events[t].status
      BY <2>1, <3>6 DEF LifecycleEvent
    <3>8. ASSUME events[t].transaction # 0, events'[t] # events[t] PROVE FALSE
      <4>1. /\ candidate.transaction # 0 /\ t \in ImpliedTransitions(d)
            /\ events'[t] = [events[t] EXCEPT !.transaction = candidate.transaction,
                                              !.block = candidate.block]
        BY <3>1, <3>8 DEF MergeLifecycleEventMetadata
      <4>2. candidate.transaction = events[t].transaction /\ candidate.block = events[t].block
        BY <3>2, <3>4, <3>5, <3>8, <4>1 DEF TransactionChanges
      <4> QED BY <2>1, <3>8, <4>1, <4>2 DEF LifecycleEvent
    <3> QED BY <3>1, <3>7, <3>8
  <2>3. CASE UNCHANGED events
    BY <2>3
  <2> QED BY <2>2, <2>3 DEF Next, Finalize, ScanRange, Refresh, Observe, Refuse, Abandon
<1> QED BY InitInv, StepInv, <1>1, PTL DEF Spec, EventsStay

-------------------------------------------------------------------------------
\* The first cancellation is known to what has been read as far as it.
CancellationKnown(d, upTo) ==
  By(HappenedAt(life, "canceled"), upTo) => d.canceled = HappenedAt(life, "canceled")

\* What is stored, and what scanners hold, took place.
ChainInv ==
  /\ decision # NoDecision => Happening(life, decision, head)
  /\ CancellationKnown(decision, cursor)
  /\ \A s \in Scanners : scanner[s].reading =>
       /\ Happening(life, scanner[s].observation, head)
       /\ CancellationKnown(scanner[s].observation, scanner[s].upTo)
  /\ EventsHappened

LEMMA ChainInit == Init => ChainInv
<1> SUFFICES ASSUME Init PROVE ChainInv
  OBVIOUS
<1>1. decision = NoDecision /\ cursor = 0 /\ DOMAIN events = {} /\ IsLife(life)
  BY ConstantsAssumption DEF Init, NoEvents
<1>2. \A s \in Scanners : ~scanner[s].reading
  BY DEF Init, NotReading
<1>3. HappenedAt(life, "canceled") \in Nat
  BY <1>1, Moments DEF IsLife
<1>4. CancellationKnown(decision, cursor)
  BY <1>1, <1>3 DEF CancellationKnown, By
<1> QED BY <1>1, <1>2, <1>4 DEF ChainInv, EventsHappened

LEMMA ChainStep == LifecycleInv /\ LifecycleInv' /\ ChainInv /\ [Next]_vars => ChainInv'
<1> SUFFICES ASSUME LifecycleInv, LifecycleInv', ChainInv, [Next]_vars PROVE ChainInv'
  OBVIOUS
<1>1. /\ IsLife(life) /\ head \in Nat /\ MaxBlock \in Nat /\ cursor \in Nat
      /\ decision \in Decision \cup {NoDecision} /\ life' = life
      /\ \A s \in Scanners : scanner[s].reading => scanner[s].observation \in Decision
      /\ \A s \in Scanners : scanner[s].upTo \in Nat
      /\ scanner \in [Scanners -> [reading : BOOLEAN, observation : Decision \cup {NoDecision},
                                   upTo : 0 .. MaxBlock]]
  BY ConstantsAssumption DEF LifecycleInv, TypeOK, ObservationsFit, Next, vars, Finalize,
     ScanRange, Refresh, Observe, Upsert, Refuse, Abandon
<1>2. HappenedAt(life, "canceled") \in Nat
  BY <1>1, Moments DEF IsLife
<1>3. decision.canceled \in {0, HappenedAt(life, "canceled")}
  BY DEF ChainInv, Happening, NoDecision
<1>4. CASE Finalize
  <2>1. head <= head' /\ head' \in Nat /\ UNCHANGED <<life, decision, events, cursor, scanner>>
    BY <1>1, <1>4 DEF Finalize
  <2>2. \A d \in Decision : Happening(life, d, head) => Happening(life, d, head')
    BY <1>1, <2>1, HappeningLater
  <2>3. \A t \in DOMAIN events : By(HappenedAt(life, t), head')
    <3> SUFFICES ASSUME NEW t \in DOMAIN events PROVE By(HappenedAt(life, t), head')
      OBVIOUS
    <3>1. By(HappenedAt(life, t), head)
      BY DEF ChainInv, EventsHappened
    <3>2. t \in Transitions
      BY DEF LifecycleInv, TypeOK
    <3>3. HappenedAt(life, t) \in Nat
      BY <1>1, <3>2, MomentTypes
    <3> QED BY <1>1, <2>1, <3>1, <3>3 DEF By
  <2> QED BY <1>1, <2>1, <2>2, <2>3 DEF ChainInv, CancellationKnown, EventsHappened
<1>5. ASSUME NEW s \in Scanners, NEW lo \in {1, cursor + 1}, NEW upTo \in Nat,
             NEW logs, logs = LogsIn(life, lo, upTo), NEW at \in 1 .. head, Observe(s, logs, upTo, at)
      PROVE  ChainInv'
  <2> DEFINE o == GetDecision(life, logs, decision, at)
  <2>1. /\ scanner' = [scanner EXCEPT ![s] = [reading |-> TRUE, observation |-> o, upTo |-> upTo]]
        /\ UNCHANGED <<life, head, decision, events, cursor>> /\ life.created <= at
    BY <1>5 DEF Observe
  <2>2. /\ o.canceled \in {0, HappenedAt(life, "canceled")}
        /\ By(HappenedAt(life, "canceled"), upTo) => o.canceled = HappenedAt(life, "canceled")
    <3>1. o.canceled = CanonicalCancellationReference(FirstOf("canceled", LogsIn(life, lo, upTo)), decision)
      BY <1>5 DEF GetDecision
    <3>2. By(HappenedAt(life, "canceled"), cursor) => decision.canceled = HappenedAt(life, "canceled")
      BY DEF ChainInv, CancellationKnown
    <3> HIDE DEF o
    <3> QED BY <1>1, <1>3, <3>1, <3>2, CancellationRead
  <2>3. Happening(life, o, head)
    <3>1. logs \subseteq AllLogs(life)
      BY <1>5 DEF LogsIn
    <3>2. decision # NoDecision => Happening(life, decision, head)
      BY DEF ChainInv
    <3>3. at \in Nat /\ at <= head
      BY <1>1
    <3> QED BY <1>1, <2>1, <2>2, <3>1, <3>2, <3>3, ObservationHappening
  <2> HIDE DEF o
  <2>4. ASSUME NEW q \in Scanners, scanner'[q].reading
        PROVE  /\ Happening(life, scanner'[q].observation, head)
               /\ By(HappenedAt(life, "canceled"), scanner'[q].upTo) =>
                    scanner'[q].observation.canceled = HappenedAt(life, "canceled")
    <3>1. CASE q = s
      BY <1>1, <2>1, <2>2, <2>3, <3>1
    <3>2. CASE q # s
      BY <1>1, <2>1, <2>4, <3>2 DEF ChainInv, CancellationKnown
    <3> QED BY <3>1, <3>2
  <2> QED BY <2>1, <2>4 DEF ChainInv, CancellationKnown, EventsHappened
<1>6. ASSUME NEW s \in Scanners, ScanRange(s) PROVE ChainInv'
  <2>1. PICK at \in 1 .. head : \E lo \in {1, cursor + 1}, hi \in {l.block : l \in LogsIn(life, 1, at)} :
          Observe(s, LogsIn(life, lo, hi), hi, at)
    BY <1>6 DEF ScanRange
  <2>2. PICK lo \in {1, cursor + 1}, hi \in {l.block : l \in LogsIn(life, 1, at)} :
          Observe(s, LogsIn(life, lo, hi), hi, at)
    BY <2>1
  <2>3. hi \in Nat
    BY <1>1, LogsOfALife DEF LogsIn
  <2> QED BY <1>5, <2>2, <2>3
<1>7. ASSUME NEW s \in Scanners, Refresh(s) PROVE ChainInv'
  <2>1. LogsIn(life, 1, 0) = {}
    <3>1. \A l \in AllLogs(life) : l.block \in Nat
      BY <1>1, LogsOfALife
    <3> QED BY <3>1 DEF LogsIn
  <2>2. PICK at \in 1 .. head : Observe(s, {}, 0, at)
    BY <1>7 DEF Refresh
  <2> QED BY <1>5, <2>1, <2>2
<1>8. ASSUME NEW s \in Scanners, Upsert(s) PROVE ChainInv'
  <2> DEFINE o == scanner[s].observation
             d == MergeGovernanceDecision(decision, o)
  <2>1. /\ o \in Decision /\ Happening(life, o, head) /\ QueueFits(life, o)
        /\ CancellationKnown(o, scanner[s].upTo)
    BY <1>1, <1>8 DEF Upsert, LifecycleInv, ObservationsFit, ChainInv
  <2>2. ~MergeRefused(decision, o)
    BY <1>8 DEF Upsert, UpsertRefused
  <2>3. /\ decision' = d
        /\ events' = UpsertedEvents(decision, events, d, Note(s))
        /\ scanner' = [scanner EXCEPT ![s] = NotReading]
        /\ UNCHANGED <<life, head>> /\ cursor' \in {cursor, scanner[s].upTo}
    BY <1>8 DEF Upsert, Done
  <2> HIDE DEF o
  <2>4. Happening(life, d, head)
    <3>1. decision # NoDecision => Happening(life, decision, head)
      BY DEF ChainInv
    <3> QED BY <1>1, <2>1, <2>2, <3>1, MergedHappening
  <2>5. d.canceled = OrElse(o.canceled, decision.canceled)
    BY <1>1, <2>1, MergedReferences
  <2>6. d \in Decision /\ QueueFits(life, d) /\ VoteFits(d)
    <3>1. d \in Decision
      BY <1>1, <2>1, <2>2, Merged
    <3>2. decision' # NoDecision
      <4> HIDE DEF d
      <4> QED BY <2>3, <3>1 DEF Decision, NoDecision, Statuses
    <3> QED BY <1>1, <2>3, <3>1, <3>2 DEF LifecycleInv
  <2> HIDE DEF d
  <2>7. CancellationKnown(decision, cursor)'
    <3>1. o.canceled \in {0, HappenedAt(life, "canceled")}
      BY <2>1 DEF Happening
    <3>2. /\ By(HappenedAt(life, "canceled"), cursor) => decision.canceled = HappenedAt(life, "canceled")
          /\ By(HappenedAt(life, "canceled"), scanner[s].upTo) =>
               o.canceled = HappenedAt(life, "canceled")
      BY <2>1 DEF ChainInv, CancellationKnown
    <3>3. By(HappenedAt(life, "canceled"), cursor') => d.canceled = HappenedAt(life, "canceled")
      BY <1>3, <2>3, <2>5, <3>1, <3>2 DEF OrElse
    <3> QED BY <1>1, <2>3, <3>3 DEF CancellationKnown
  <2>8. ASSUME NEW q \in Scanners, scanner'[q].reading
        PROVE  q # s /\ scanner'[q] = scanner[q] /\ scanner[q].reading
    BY <1>1, <2>3, <2>8 DEF NotReading
  <2>9. ASSUME NEW t \in DOMAIN events'
        PROVE  /\ By(HappenedAt(life, t), head)
               /\ events'[t].transaction \in {0, HappenedAt(life, t)}
    <3> DEFINE candidate == BuildLifecycleEvent(d, t, Note(s))
    <3>1. /\ DOMAIN events' = DOMAIN events \cup NewEvents(decision, events, d)
          /\ events'[t] = IF t \notin DOMAIN events THEN candidate
                          ELSE IF t \notin ImpliedTransitions(d) THEN events[t]
                          ELSE MergeLifecycleEventMetadata(events[t], candidate)
      BY <2>3 DEF UpsertedEvents
    <3>2. t \in ImpliedTransitions(d) =>
            /\ By(HappenedAt(life, t), head)
            /\ candidate.transaction \in {0, HappenedAt(life, t)}
      BY <1>1, <2>4, <2>6, ImpliedHappened DEF BuildLifecycleEvent
    <3>3. t \in DOMAIN events =>
            /\ By(HappenedAt(life, t), head)
            /\ events[t].transaction \in {0, HappenedAt(life, t)}
            /\ events[t] \in LifecycleEvent
      BY DEF ChainInv, EventsHappened, LifecycleInv, TypeOK
    <3>4. t \notin DOMAIN events => t \in ImpliedTransitions(d)
      BY <3>1 DEF NewEvents
    <3> HIDE DEF candidate
    <3>5. t \in DOMAIN events /\ t \in ImpliedTransitions(d) =>
            events'[t] \in {events[t], [events[t] EXCEPT !.transaction = candidate.transaction,
                                                         !.block = candidate.block]}
      BY <3>1 DEF MergeLifecycleEventMetadata
    <3>6. CASE t \notin DOMAIN events
      BY <3>1, <3>2, <3>4, <3>6
    <3>7. CASE t \in DOMAIN events /\ t \notin ImpliedTransitions(d)
      BY <3>1, <3>3, <3>7
    <3>8. CASE t \in DOMAIN events /\ t \in ImpliedTransitions(d)
      BY <3>2, <3>3, <3>5, <3>8 DEF LifecycleEvent
    <3> QED BY <3>6, <3>7, <3>8
  <2>10. ASSUME NEW q \in Scanners, scanner'[q].reading
         PROVE  /\ Happening(life, scanner'[q].observation, head)
                /\ By(HappenedAt(life, "canceled"), scanner'[q].upTo) =>
                     scanner'[q].observation.canceled = HappenedAt(life, "canceled")
    BY <2>8, <2>10 DEF ChainInv, CancellationKnown
  <2> QED BY <1>1, <2>3, <2>4, <2>7, <2>9, <2>10 DEF ChainInv, CancellationKnown, EventsHappened
<1>9. ASSUME NEW s \in Scanners, Refuse(s) \/ Abandon(s) PROVE ChainInv'
  <2>1. /\ scanner' = [scanner EXCEPT ![s] = NotReading]
        /\ UNCHANGED <<life, head, decision, events, cursor>>
    BY <1>9 DEF Refuse, Abandon, Done
  <2>2. ASSUME NEW q \in Scanners, scanner'[q].reading
        PROVE  scanner'[q] = scanner[q] /\ scanner[q].reading
    BY <1>1, <2>1, <2>2 DEF NotReading
  <2>3. ASSUME NEW q \in Scanners, scanner'[q].reading
        PROVE  /\ Happening(life, scanner'[q].observation, head)
               /\ By(HappenedAt(life, "canceled"), scanner'[q].upTo) =>
                    scanner'[q].observation.canceled = HappenedAt(life, "canceled")
    BY <2>2, <2>3 DEF ChainInv, CancellationKnown
  <2> QED BY <2>1, <2>3 DEF ChainInv, CancellationKnown, EventsHappened
<1>10. CASE UNCHANGED vars
  BY <1>10 DEF vars, ChainInv, CancellationKnown, EventsHappened
<1> QED BY <1>4, <1>6, <1>7, <1>8, <1>9, <1>10 DEF Next

\* EventsHappened: nothing is ever announced that did not take place, and of what is
\* announced no transaction is named but the one that made it, however the proposal
\* was sampled, by any number of scanners that hold observations of any age.
THEOREM EventsTrue == Spec => []EventsHappened
<1>1. ChainInv => EventsHappened
  BY DEF ChainInv
<1> QED BY InitInv, StepInv, ChainInit, ChainStep, <1>1, PTL DEF Spec

-------------------------------------------------------------------------------
\* Nothing is stored but what an observation has brought, and it is still the state
\* that the newest observation found.
Sampled ==
  IF decision = NoDecision THEN synced = 0
  ELSE /\ decision.observed <= synced /\ synced <= head
       /\ \A b \in decision.observed .. synced : StateOf(life, decision, b)
       /\ decision.endBlock = life.end
       /\ \A k \in {decision.created, decision.canceled, decision.queued, decision.executed} : k <= synced
       /\ decision.ended => decision.vote \in Results
       /\ decision.canceled # 0 => decision.status = "canceled"
       /\ VoteResolved(life, decision)

\* Every log that was read is named by what is stored, or by the scanner that read it.
LogsKept ==
  /\ \A l \in AllLogs(life) : l.block <= cursor => Names(decision, l)
  /\ \A s \in Scanners : scanner[s].reading =>
       \A l \in AllLogs(life) :
         l.block <= scanner[s].upTo => Names(scanner[s].observation, l) \/ Names(decision, l)

ObservationsResolved ==
  \A s \in Scanners : scanner[s].reading =>
    /\ StateOf(life, scanner[s].observation, scanner[s].observation.observed)
    /\ scanner[s].observation.endBlock = life.end
    /\ VoteResolved(life, scanner[s].observation)

SampleInv == Sampled /\ LogsKept /\ ObservationsResolved

LEMMA SampleInit == Init => SampleInv
<1> SUFFICES ASSUME Init PROVE SampleInv
  OBVIOUS
<1>1. decision = NoDecision /\ synced = 0 /\ cursor = 0 /\ IsLife(life)
  BY ConstantsAssumption DEF Init
<1>2. \A s \in Scanners : ~scanner[s].reading
  BY DEF Init, NotReading
<1>3. \A l \in AllLogs(life) : ~(l.block <= cursor)
  BY <1>1, LogCases
<1> QED BY <1>1, <1>2, <1>3 DEF SampleInv, Sampled, LogsKept, ObservationsResolved

LEMMA SampleStep ==
  LifecycleInv /\ LifecycleInv' /\ ChainInv /\ SampleInv /\ [Next]_vars => SampleInv'
<1> SUFFICES ASSUME LifecycleInv, LifecycleInv', ChainInv, SampleInv, [Next]_vars PROVE SampleInv'
  OBVIOUS
<1>1. /\ IsLife(life) /\ head \in Nat /\ cursor \in Nat /\ synced \in Nat
      /\ decision \in Decision \cup {NoDecision} /\ life' = life
      /\ \A s \in Scanners : scanner[s].reading => /\ scanner[s].observation \in Decision
                                                  /\ scanner[s].observation.observed <= head
                                                  /\ QueueFits(life, scanner[s].observation)
                                                  /\ Happening(life, scanner[s].observation, head)
      /\ \A s \in Scanners : scanner[s].upTo \in Nat
      /\ scanner \in [Scanners -> [reading : BOOLEAN, observation : Decision \cup {NoDecision},
                                   upTo : 0 .. MaxBlock]]
  BY ConstantsAssumption DEF LifecycleInv, TypeOK, ObservationsFit, ChainInv, Next, vars, Finalize,
     ScanRange, Refresh, Observe, Upsert, Refuse, Abandon
<1>2. /\ decision.canceled \in {0, HappenedAt(life, "canceled")}
      /\ By(HappenedAt(life, "canceled"), cursor) => decision.canceled = HappenedAt(life, "canceled")
  BY DEF ChainInv, CancellationKnown, Happening, NoDecision
<1>3. CASE Finalize
  <2>1. head <= head' /\ head' \in Nat /\ UNCHANGED <<life, decision, events, cursor, scanner, synced>>
    BY <1>1, <1>3 DEF Finalize
  <2>2. synced <= head => synced <= head'
    BY <1>1, <2>1
  <2> QED BY <2>1, <2>2 DEF SampleInv, Sampled, LogsKept, ObservationsResolved
<1>4. ASSUME NEW s \in Scanners, NEW lo \in {1, cursor + 1}, NEW upTo \in Nat,
             NEW at \in 1 .. head, Observe(s, LogsIn(life, lo, upTo), upTo, at)
      PROVE  SampleInv'
  <2> DEFINE logs == LogsIn(life, lo, upTo)
             o == GetDecision(life, logs, decision, at)
  <2>1. /\ scanner' = [scanner EXCEPT ![s] = [reading |-> TRUE, observation |-> o, upTo |-> upTo]]
        /\ UNCHANGED <<life, head, decision, events, cursor, synced>>
    BY <1>4 DEF Observe
  <2>2. StateOf(life, o, o.observed) /\ o.endBlock = life.end /\ VoteResolved(life, o)
    <3>1. logs \subseteq AllLogs(life)
      BY DEF LogsIn
    <3>2. at \in Nat
      BY <1>1
    <3> HIDE DEF logs
    <3> QED BY <1>1, <3>1, <3>2, ObservationResolved
  <2>3. By(HappenedAt(life, "canceled"), upTo) => o.canceled = HappenedAt(life, "canceled")
    <3>1. o.canceled = CanonicalCancellationReference(FirstOf("canceled", LogsIn(life, lo, upTo)), decision)
      BY DEF GetDecision
    <3> HIDE DEF o
    <3> QED BY <1>1, <1>2, <3>1, CancellationRead
  <2>4. ASSUME NEW l \in AllLogs(life), l.block <= upTo
        PROVE  Names(o, l) \/ Names(decision, l)
    <3>1. l.block \in Nat /\ l.block # 0
      BY <1>1, LogCases
    <3>2. lo \in Nat
      BY <1>1
    <3>3. l.block < lo => Names(decision, l)
      <4>1. l.block < lo => l.block <= cursor
        BY <1>1, <3>1
      <4> QED BY <4>1 DEF SampleInv, LogsKept
    <3> QED BY <1>1, <2>3, <2>4, <3>2, <3>3, NamesObserved
  <2> HIDE DEF o
  <2>5. LogsKept'
    <3>1. ASSUME NEW q \in Scanners, scanner'[q].reading, NEW l \in AllLogs(life),
                 l.block <= scanner'[q].upTo
          PROVE  Names(scanner'[q].observation, l) \/ Names(decision, l)
      <4>1. CASE q = s
        BY <1>1, <2>1, <2>4, <3>1, <4>1
      <4>2. CASE q # s
        BY <1>1, <2>1, <3>1, <4>2 DEF SampleInv, LogsKept
      <4> QED BY <4>1, <4>2
    <3> QED BY <2>1, <3>1 DEF SampleInv, LogsKept
  <2>6. ObservationsResolved'
    <3>1. ASSUME NEW q \in Scanners, scanner'[q].reading
          PROVE  /\ StateOf(life, scanner'[q].observation, scanner'[q].observation.observed)
                 /\ scanner'[q].observation.endBlock = life.end
                 /\ VoteResolved(life, scanner'[q].observation)
      <4>1. CASE q = s
        BY <1>1, <2>1, <2>2, <4>1
      <4>2. CASE q # s
        BY <1>1, <2>1, <3>1, <4>2 DEF SampleInv, ObservationsResolved
      <4> QED BY <4>1, <4>2
    <3> QED BY <2>1, <3>1 DEF ObservationsResolved
  <2>7. Sampled'
    BY <2>1 DEF SampleInv, Sampled
  <2> QED BY <2>5, <2>6, <2>7 DEF SampleInv
<1>5. ASSUME NEW s \in Scanners, ScanRange(s) PROVE SampleInv'
  <2>1. PICK at \in 1 .. head : \E lo \in {1, cursor + 1}, hi \in {l.block : l \in LogsIn(life, 1, at)} :
          Observe(s, LogsIn(life, lo, hi), hi, at)
    BY <1>5 DEF ScanRange
  <2>2. PICK lo \in {1, cursor + 1}, hi \in {l.block : l \in LogsIn(life, 1, at)} :
          Observe(s, LogsIn(life, lo, hi), hi, at)
    BY <2>1
  <2>3. hi \in Nat
    BY <1>1, LogsOfALife DEF LogsIn
  <2> QED BY <1>4, <2>2, <2>3
<1>6. ASSUME NEW s \in Scanners, Refresh(s) PROVE SampleInv'
  <2>1. LogsIn(life, 1, 0) = {}
    <3>1. \A l \in AllLogs(life) : l.block \in Nat
      BY <1>1, LogsOfALife
    <3> QED BY <3>1 DEF LogsIn
  <2>2. PICK at \in 1 .. head : Observe(s, LogsIn(life, 1, 0), 0, at)
    BY <1>6, <2>1 DEF Refresh
  <2> QED BY <1>4, <2>2
<1>7. ASSUME NEW s \in Scanners, Upsert(s) PROVE SampleInv'
  <2> DEFINE o == scanner[s].observation
             d == MergeGovernanceDecision(decision, o)
  <2>1. /\ scanner[s].reading /\ o \in Decision /\ o.observed \in Nat /\ o.observed <= head
        /\ QueueFits(life, o) /\ Happening(life, o, head)
    BY <1>1, <1>7 DEF Upsert, Decision
  <2>2. ~MergeRefused(decision, o)
    BY <1>7 DEF Upsert, UpsertRefused
  <2>3. /\ decision' = d
        /\ scanner' = [scanner EXCEPT ![s] = NotReading]
        /\ UNCHANGED <<life, head>> /\ cursor' \in {cursor, scanner[s].upTo}
        /\ synced' = IF o.observed > synced THEN o.observed ELSE synced
    BY <1>7 DEF Upsert, Done
  <2>4. /\ StateOf(life, o, o.observed) /\ o.endBlock = life.end /\ VoteResolved(life, o)
        /\ \A l \in AllLogs(life) : l.block <= scanner[s].upTo => Names(o, l) \/ Names(decision, l)
    BY <2>1 DEF SampleInv, ObservationsResolved, LogsKept
  <2> HIDE DEF o
  <2>5. /\ d \in Decision
        /\ d.status = o.status /\ d.votes = o.votes /\ d.eta = o.eta /\ d.endBlock = o.endBlock
        /\ d.observed = o.observed \/ (decision # NoDecision /\ d = decision)
        /\ decision # NoDecision => decision.observed <= o.observed
        /\ d.ended => d.vote \in Results
        /\ d.canceled # 0 => d.status = "canceled"
        /\ \A k \in {d.created, d.canceled, d.queued, d.executed} : k <= o.observed
    BY <1>1, <2>1, <2>2, MergedState
  <2>6. VoteResolved(life, d)
    <3>1. decision # NoDecision =>
            VoteResolved(life, decision) /\ (decision.canceled # 0 => decision.status = "canceled")
      BY DEF SampleInv, Sampled
    <3> QED BY <1>1, <2>1, <2>2, <2>4, <3>1, MergedResolved
  <2>7. \A l \in AllLogs(life) : Names(o, l) \/ Names(decision, l) => Names(d, l)
    BY <1>1, <2>1, NamesMerged
  <2> HIDE DEF d
  <2>8. d # NoDecision
    BY <2>5 DEF Decision, NoDecision, Statuses
  <2>9. /\ synced' \in Nat /\ synced <= synced' /\ o.observed <= synced' /\ synced' \in {synced, o.observed}
        /\ o.observed >= synced => synced' = o.observed
    BY <1>1, <2>1, <2>3
  <2>10. \A b : StateOf(life, o, b) <=> StateOf(life, d, b)
    BY <2>5 DEF StateOf
  <2>11. d.observed <= synced' /\ \A b \in d.observed .. synced' : StateOf(life, d, b)
    <3>1. CASE decision = NoDecision
      <4>1. d.observed = o.observed /\ synced = 0
        BY <2>5, <3>1 DEF SampleInv, Sampled
      <4>2. synced' = o.observed
        BY <2>1, <2>9, <4>1
      <4>3. \A b \in o.observed .. o.observed : b = o.observed
        BY <2>1
      <4> QED BY <2>1, <2>4, <2>10, <4>1, <4>2, <4>3
    <3>2. CASE decision # NoDecision
      <4>1. /\ decision.observed \in Nat /\ decision.observed <= synced
            /\ \A b \in decision.observed .. synced : StateOf(life, decision, b)
        BY <1>1, <3>2 DEF SampleInv, Sampled, Decision
      <4>2. CASE o.observed <= synced
        <5>1. synced' = synced
          BY <1>1, <2>1, <2>9, <4>2
        <5>2. StateOf(life, decision, o.observed)
          BY <1>1, <2>1, <2>5, <3>2, <4>1, <4>2
        <5>3. \A b : StateOf(life, decision, b) <=> StateOf(life, d, b)
          BY <2>4, <2>10, <5>2 DEF StateOf
        <5>4. d.observed \in Nat /\ decision.observed <= d.observed /\ d.observed <= synced
          BY <1>1, <2>1, <2>5, <3>2, <4>1, <4>2
        <5> QED BY <1>1, <4>1, <5>1, <5>3, <5>4
      <4>3. CASE synced < o.observed
        <5>1. synced' = o.observed
          BY <1>1, <2>1, <2>9, <4>3
        <5>2. CASE d.observed = o.observed
          <6>1. \A b \in o.observed .. o.observed : b = o.observed
            BY <2>1
          <6> QED BY <2>1, <2>4, <2>10, <5>1, <5>2, <6>1
        <5>3. CASE d = decision
          <6>1. StateOf(life, d, decision.observed) /\ StateOf(life, d, o.observed)
            BY <1>1, <2>4, <2>10, <4>1, <5>3
          <6>2. \A b \in decision.observed .. o.observed : StateOf(life, d, b)
            <7> SUFFICES ASSUME NEW b \in decision.observed .. o.observed
                         PROVE  StateOf(life, d, b)
              OBVIOUS
            <7>1. b \in Nat /\ decision.observed <= b /\ b <= o.observed
              BY <2>1, <4>1
            <7> QED BY <1>1, <2>1, <4>1, <6>1, <7>1, StateBetween
          <6> QED BY <1>1, <2>1, <2>5, <3>2, <5>1, <5>3, <6>2
        <5> QED BY <2>5, <5>2, <5>3
      <4> QED BY <1>1, <2>1, <4>2, <4>3
    <3> QED BY <3>1, <3>2
  <2>12. \A k \in {d.created, d.canceled, d.queued, d.executed} : k <= synced'
    <3>1. \A k \in {d.created, d.canceled, d.queued, d.executed} : k \in Nat /\ k <= o.observed
      BY <2>5 DEF Decision
    <3> QED BY <2>1, <2>9, <3>1
  <2>13. synced' <= head
    <3>1. synced <= head
      BY <1>1 DEF SampleInv, Sampled
    <3> QED BY <2>1, <2>9, <3>1
  <2>14. Sampled'
    BY <1>1, <2>3, <2>4, <2>5, <2>6, <2>8, <2>11, <2>12, <2>13 DEF Sampled
  <2>15. ASSUME NEW q \in Scanners, scanner'[q].reading
         PROVE  q # s /\ scanner'[q] = scanner[q] /\ scanner[q].reading
    BY <1>1, <2>3, <2>15 DEF NotReading
  <2>16. LogsKept'
    <3>1. ASSUME NEW l \in AllLogs(life), l.block <= cursor' PROVE Names(d, l)
      BY <2>3, <2>4, <2>7, <3>1 DEF SampleInv, LogsKept
    <3>2. ASSUME NEW q \in Scanners, scanner'[q].reading, NEW l \in AllLogs(life),
                 l.block <= scanner'[q].upTo
          PROVE  Names(scanner'[q].observation, l) \/ Names(d, l)
      BY <2>7, <2>15, <3>2 DEF SampleInv, LogsKept
    <3> QED BY <1>1, <2>3, <3>1, <3>2 DEF LogsKept
  <2>17. ASSUME NEW q \in Scanners, scanner'[q].reading
         PROVE  /\ StateOf(life, scanner'[q].observation, scanner'[q].observation.observed)
                /\ scanner'[q].observation.endBlock = life.end
                /\ VoteResolved(life, scanner'[q].observation)
    BY <2>15, <2>17 DEF SampleInv, ObservationsResolved
  <2> QED BY <1>1, <2>14, <2>16, <2>17 DEF SampleInv, ObservationsResolved
<1>8. ASSUME NEW s \in Scanners, Refuse(s) \/ Abandon(s) PROVE SampleInv'
  <2>1. /\ scanner' = [scanner EXCEPT ![s] = NotReading]
        /\ UNCHANGED <<life, head, decision, events, cursor, synced>>
    BY <1>8 DEF Refuse, Abandon, Done
  <2>2. ASSUME NEW q \in Scanners, scanner'[q].reading
        PROVE  scanner'[q] = scanner[q] /\ scanner[q].reading
    BY <1>1, <2>1, <2>2 DEF NotReading
  <2>3. ASSUME NEW q \in Scanners, scanner'[q].reading
        PROVE  /\ StateOf(life, scanner'[q].observation, scanner'[q].observation.observed)
               /\ scanner'[q].observation.endBlock = life.end
               /\ VoteResolved(life, scanner'[q].observation)
               /\ \A l \in AllLogs(life) : l.block <= scanner'[q].upTo =>
                    Names(scanner'[q].observation, l) \/ Names(decision, l)
    BY <2>2, <2>3 DEF SampleInv, ObservationsResolved, LogsKept
  <2> QED BY <2>1, <2>3 DEF SampleInv, Sampled, LogsKept, ObservationsResolved
<1>9. CASE UNCHANGED vars
  BY <1>9 DEF vars, SampleInv, Sampled, LogsKept, ObservationsResolved
<1> QED BY <1>3, <1>5, <1>6, <1>7, <1>8, <1>9 DEF Next

\* What is stored of the proposal when all logs up to the newest observation are.
LEMMA SampledFields ==
  ASSUME LifecycleInv, ChainInv, SampleInv, decision # NoDecision,
         \A l \in LogsIn(life, 1, synced) : l.block <= cursor
  PROVE  \A t \in {"created", "canceled", "queued", "executed"} :
           TransactionForTransition(decision, t)
             = IF By(HappenedAt(life, t), synced) THEN HappenedAt(life, t) ELSE 0
<1> SUFFICES ASSUME NEW t \in {"created", "canceled", "queued", "executed"}
             PROVE  TransactionForTransition(decision, t)
                      = IF By(HappenedAt(life, t), synced) THEN HappenedAt(life, t) ELSE 0
  OBVIOUS
<1> DEFINE k == TransactionForTransition(decision, t)
           moment == HappenedAt(life, t)
<1>1. IsLife(life) /\ synced \in Nat /\ life.created \in Nat /\ life.created # 0
  BY ConstantsAssumption DEF LifecycleInv, TypeOK, IsLife
<1>2. moment \in Nat
  BY <1>1, MomentTypes DEF Transitions
<1>3. k \in {0, moment} /\ k <= synced
  BY Moments, <1>1 DEF TransactionForTransition, SampleInv, Sampled, ChainInv, Happening
<1>4. By(moment, synced) => k # 0
  <2> SUFFICES ASSUME By(moment, synced) PROVE k # 0
    OBVIOUS
  <2> DEFINE l == [type |-> t, block |-> moment]
  <2>1. moment # 0 /\ moment <= synced
    BY DEF By
  <2>2. l \in AllLogs(life)
    <3>1. CASE t = "canceled"
      <4>1. moment \in life.cancels
        BY <1>1, <2>1, <3>1, Moments
      <4> HIDE DEF moment
      <4> QED BY <3>1, <4>1 DEF AllLogs
    <3>2. CASE t # "canceled"
      <4>1. \/ t = "created" /\ moment = life.created
            \/ t = "queued" /\ moment = life.queued
            \/ t = "executed" /\ moment = life.executed
        BY <1>1, <3>2, Moments
      <4> HIDE DEF moment
      <4> QED BY <2>1, <4>1 DEF AllLogs
    <3> QED BY <3>1, <3>2
  <2>3. 1 <= l.block /\ l.block <= synced
    <3> HIDE DEF moment
    <3> QED BY <1>2, <2>1
  <2> HIDE DEF moment
  <2>4. l.block <= cursor
    BY <2>2, <2>3 DEF LogsIn
  <2>5. Names(decision, l)
    <3> HIDE DEF l
    <3> QED BY <2>2, <2>4 DEF SampleInv, LogsKept
  <2> QED BY <2>5 DEF Names
<1> HIDE DEF k, moment
<1>5. k = IF By(moment, synced) THEN moment ELSE 0
  BY <1>1, <1>2, <1>3, <1>4 DEF By
<1> QED BY <1>5 DEF k, moment

\* SamplingForgotten, for any scanners: once its logs are stored, a decision is what
\* one first look at the newest block would have found.
THEOREM Forgotten == Spec => []SamplingForgotten
<1>1. LifecycleInv /\ ChainInv /\ SampleInv => SamplingForgotten
  <2> SUFFICES ASSUME LifecycleInv, ChainInv, SampleInv, decision # NoDecision,
                      \A l \in LogsIn(life, 1, synced) : l.block <= cursor
               PROVE  [decision EXCEPT !.observed = 0]
                        = [GetDecision(life, LogsIn(life, 1, synced), NoDecision, synced)
                             EXCEPT !.observed = 0]
    BY DEF SamplingForgotten
  <2> DEFINE seen == LogsIn(life, 1, synced)
             g == GetDecision(life, seen, NoDecision, synced)
  <2>1. /\ IsLife(life) /\ synced \in Nat /\ decision \in Decision /\ decision.observed \in Nat
        /\ life.cancels \in SUBSET Nat /\ life.passed \in BOOLEAN /\ life.end \in Nat
    BY ConstantsAssumption DEF LifecycleInv, TypeOK, Decision, IsLife
  <2>2. seen \subseteq AllLogs(life)
    BY DEF LogsIn
  <2>3. g \in Decision
    <3> HIDE DEF seen
    <3> QED BY <2>1, <2>2, GetDecisionType
  <2>4. /\ g.status = StatusAt(life, synced) /\ g.votes = By(life.voted, synced)
        /\ g.eta = By(life.queued, synced) /\ g.endBlock = life.end
        /\ g.created = FirstOf("created", seen) /\ g.queued = FirstOf("queued", seen)
        /\ g.executed = FirstOf("executed", seen)
        /\ g.canceled = CanonicalCancellationReference(FirstOf("canceled", seen), NoDecision)
        /\ g.ended = (NoDecision.ended \/ g.vote \in Results)
        /\ g.vote = IF g.status = "canceled"
                    THEN ResolveCanceledVoteOutcome(life, NoDecision, g.eta, g.canceled)
                    ELSE VoteOutcomeOf(g.status)
    BY DEF GetDecision
  <2> HIDE DEF g
  <2>5. StateOf(life, decision, synced) /\ decision.endBlock = life.end
    BY <2>1 DEF SampleInv, Sampled
  <2>6. /\ g.status = decision.status /\ g.votes = decision.votes /\ g.eta = decision.eta
        /\ g.endBlock = decision.endBlock
    BY <2>4, <2>5 DEF StateOf
  <2>7. /\ g.created = decision.created /\ g.queued = decision.queued
        /\ g.executed = decision.executed /\ g.canceled = decision.canceled
    <3>1. \A t \in {"created", "canceled", "queued", "executed"} :
            TransactionForTransition(decision, t) = FirstOf(t, seen)
      BY <2>1, SampledFields, FirstSeen
    <3>2. /\ decision.created = FirstOf("created", seen) /\ decision.queued = FirstOf("queued", seen)
          /\ decision.executed = FirstOf("executed", seen)
          /\ decision.canceled = FirstOf("canceled", seen)
      BY <3>1 DEF TransactionForTransition
    <3>3. g.canceled = FirstOf("canceled", seen)
      BY <2>4 DEF CanonicalCancellationReference, NoDecision
    <3> QED BY <2>4, <3>2, <3>3
  <2>8. g.vote = decision.vote
    <3>1. CASE decision.status # "canceled"
      <4>1. decision.vote = VoteOutcomeOf(decision.status)
        BY <3>1 DEF LifecycleInv, VoteFits
      <4> QED BY <2>4, <2>6, <3>1, <4>1
    <3>2. CASE decision.status = "canceled"
      <4> DEFINE first == HappenedAt(life, "canceled")
      <4>1. By(first, synced)
        <5>1. StatusAt(life, synced) = "canceled"
          BY <2>5, <3>2 DEF StateOf
        <5> QED BY <2>1, <5>1, StatusHappened
      <4>2. decision.canceled = first
        BY <4>1, SampledFields DEF TransactionForTransition
      <4>3. first # 0 /\ first \in life.cancels /\ first \in Nat
        BY <2>1, <4>1, Moments DEF By
      <4> HIDE DEF first
      <4>4. g.vote = IF decision.eta THEN "succeeded"
                     ELSE IF decision.canceled <= life.end THEN "canceled"
                     ELSE IF life.passed THEN "succeeded" ELSE "defeated"
        <5>1. NoDecision.vote \notin Results
          BY DEF NoDecision, Results
        <5> QED BY <2>4, <2>6, <2>7, <3>2, <4>2, <4>3, <5>1 DEF ResolveCanceledVoteOutcome
      <4>5. /\ decision.vote \in Results \cup {"canceled"}
            /\ decision.eta => decision.vote = "succeeded"
            /\ life.end < decision.canceled => decision.vote \in Results
        <5>1. VoteFits(decision) /\ VoteResolved(life, decision)
          BY DEF LifecycleInv, SampleInv, Sampled
        <5>2. VoteOutcomeOf(decision.status) = "canceled"
          BY <3>2 DEF VoteOutcomeOf
        <5>3. decision.vote # "pending"
          BY <5>1, <5>2 DEF VoteFits
        <5>4. decision.vote \in {"pending", "canceled"} \cup Results
          BY <2>1 DEF Decision
        <5> QED BY <3>2, <5>1, <5>3, <5>4 DEF VoteResolved
      <4>6. decision.vote \in Results =>
              /\ life.passed <=> (decision.vote = "succeeded")
              /\ life.end < first
        <5> SUFFICES ASSUME decision.vote \in Results
                     PROVE  /\ life.passed <=> (decision.vote = "succeeded")
                            /\ life.end < first
          OBVIOUS
        <5>1. HappenedAt(life, decision.vote) # 0
          BY DEF ChainInv, Happening, By
        <5> QED BY <2>1, <4>3, <5>1, Moments DEF first
      <4>7. CASE decision.eta
        BY <4>4, <4>5, <4>7
      <4>8. CASE ~decision.eta /\ decision.canceled <= life.end
        <5>1. decision.vote \notin Results
          BY <2>1, <4>2, <4>3, <4>6, <4>8
        <5> QED BY <4>4, <4>5, <4>8, <5>1
      <4>9. CASE ~decision.eta /\ life.end < decision.canceled
        <5>1. decision.vote \in Results /\ ~(decision.canceled <= life.end)
          BY <2>1, <4>2, <4>3, <4>5, <4>9
        <5> QED BY <4>4, <4>6, <4>9, <5>1 DEF Results
      <4> QED BY <2>1, <4>2, <4>3, <4>7, <4>8, <4>9
    <3> QED BY <3>1, <3>2
  <2>9. g.ended = decision.ended
    <3>1. decision.ended => decision.vote \in Results
      BY DEF SampleInv, Sampled
    <3>2. decision.vote \in Results => decision.ended
      BY DEF SampleInv, Sampled, VoteResolved
    <3>3. decision.ended \in BOOLEAN /\ NoDecision.ended = FALSE
      BY <2>1 DEF Decision, NoDecision
    <3> QED BY <2>4, <2>8, <3>1, <3>2, <3>3
  <2>10. [decision EXCEPT !.observed = 0] = [g EXCEPT !.observed = 0]
    BY <2>1, <2>3, <2>6, <2>7, <2>8, <2>9 DEF Decision
  <2> QED BY <2>10 DEF g
<1> QED BY InitInv, StepInv, ChainInit, ChainStep, SampleInit, SampleStep, <1>1, PTL DEF Spec

-------------------------------------------------------------------------------
\* What is stored does not depend on later blocks than that of its observation, and
\* has no execution but in its final state.
StoredInItsTime ==
  decision # NoDecision =>
    /\ Happening(life, decision, decision.observed)
    /\ \A k \in {decision.created, decision.canceled, decision.queued, decision.executed} :
         k <= decision.observed
    /\ decision.executed # 0 => decision.status = "executed"

\* An observation that no newer one has overtaken.
InItsTime(o) == Happening(life, o, o.observed) /\ DecisionObservationValid(o)

\* No observation is refused for another reason than its age: what scanners hold is
\* valid, unless something newer was stored before or after it was made.
RefusedInv ==
  /\ ~refused
  /\ StoredInItsTime
  /\ \A s \in Scanners : scanner[s].reading =>
       scanner[s].observation.observed < decision.observed \/ InItsTime(scanner[s].observation)

LEMMA RefusedInit == Init => RefusedInv
BY DEF Init, RefusedInv, StoredInItsTime, NotReading

LEMMA RefusedStep ==
  /\ LifecycleInv /\ LifecycleInv' /\ ChainInv /\ ChainInv' /\ SampleInv
  /\ RefusedInv /\ [Next]_vars
  => RefusedInv'
<1> SUFFICES ASSUME LifecycleInv, LifecycleInv', ChainInv, ChainInv', SampleInv,
                    RefusedInv, [Next]_vars
             PROVE  RefusedInv'
  OBVIOUS
<1>1. /\ IsLife(life) /\ head \in Nat /\ synced \in Nat /\ life' = life
      /\ decision \in Decision \cup {NoDecision}
      /\ \A s \in Scanners : scanner[s].reading => /\ scanner[s].observation \in Decision
                                                  /\ QueueFits(life, scanner[s].observation)
                                                  /\ scanner[s].observation.observed <= head
                                                  /\ Happening(life, scanner[s].observation, head)
      /\ scanner \in [Scanners -> [reading : BOOLEAN, observation : Decision \cup {NoDecision},
                                   upTo : 0 .. MaxBlock]]
  BY ConstantsAssumption DEF LifecycleInv, TypeOK, ObservationsFit, ChainInv, RefusedInv, Next, vars,
     Finalize, ScanRange, Refresh, Observe, Upsert, Refuse, Abandon
<1>2. decision # NoDecision =>
        /\ QueueFits(life, decision) /\ VoteFits(decision) /\ Happening(life, decision, head)
        /\ decision.observed \in Nat /\ decision.observed <= synced /\ synced <= head
        /\ StateOf(life, decision, synced)
        /\ \A k \in {decision.created, decision.canceled, decision.queued, decision.executed} : k <= synced
        /\ decision.ended => decision.vote \in Results
        /\ decision.canceled # 0 => decision.status = "canceled"
        /\ decision.executed # 0 => decision.status = "executed"
  <2> SUFFICES ASSUME decision # NoDecision
               PROVE  /\ QueueFits(life, decision) /\ VoteFits(decision)
                      /\ Happening(life, decision, head)
                      /\ decision.observed \in Nat /\ decision.observed <= synced /\ synced <= head
                      /\ StateOf(life, decision, synced)
                      /\ \A k \in {decision.created, decision.canceled, decision.queued,
                                   decision.executed} : k <= synced
                      /\ decision.ended => decision.vote \in Results
                      /\ decision.canceled # 0 => decision.status = "canceled"
                      /\ decision.executed # 0 => decision.status = "executed"
    OBVIOUS
  <2>1. decision.observed \in Nat
    BY <1>1 DEF Decision
  <2>2. decision.observed <= synced /\ \A b \in decision.observed .. synced : StateOf(life, decision, b)
    BY DEF SampleInv, Sampled
  <2>3. StateOf(life, decision, synced)
    BY <1>1, <2>1, <2>2
  <2> QED BY <2>1, <2>2, <2>3 DEF LifecycleInv, ChainInv, SampleInv, Sampled, RefusedInv, StoredInItsTime
<1>3. ASSUME NEW s \in Scanners, NEW logs, logs \subseteq AllLogs(life), NEW upTo,
             NEW at \in 1 .. head, Observe(s, logs, upTo, at)
      PROVE  RefusedInv'
  <2> DEFINE o == GetDecision(life, logs, decision, at)
  <2>1. /\ scanner' = [scanner EXCEPT ![s] = [reading |-> TRUE, observation |-> o, upTo |-> upTo]]
        /\ UNCHANGED <<life, head, decision, refused>>
        /\ life.created <= at /\ ~GetDecisionThrows(life, logs, at)
    BY <1>3 DEF Observe
  <2>2. /\ scanner'[s].reading /\ scanner'[s].observation = o
        /\ \A q \in Scanners : q # s => scanner'[q] = scanner[q]
    <3> HIDE DEF o
    <3> QED BY <1>1, <2>1
  <2>3. o.observed = at /\ at \in Nat
    BY <1>1 DEF GetDecision
  <2>4. o.canceled \in {0, HappenedAt(life, "canceled")}
    BY <2>1, <2>2 DEF ChainInv, Happening
  <2>5. ASSUME ~(at < decision.observed) PROVE InItsTime(o)
    <3>1. decision # NoDecision => Happening(life, decision, at)
      <4> SUFFICES ASSUME decision # NoDecision PROVE Happening(life, decision, at)
        OBVIOUS
      <4>1. /\ decision \in Decision /\ decision.observed \in Nat
            /\ decision.observed <= at /\ Happening(life, decision, decision.observed)
        BY <1>1, <1>2, <2>3, <2>5 DEF RefusedInv, StoredInItsTime
      <4> QED BY <1>1, <2>3, <4>1, HappeningLater
    <3>2. /\ decision.ended => decision.vote \in Results
          /\ decision.canceled <= at
      <4>1. CASE decision = NoDecision
        BY <2>3, <4>1 DEF NoDecision
      <4>2. CASE decision # NoDecision
        <5>1. decision.canceled \in Nat /\ decision.canceled <= decision.observed
          BY <1>1, <4>2, StoredFields DEF RefusedInv, StoredInItsTime
        <5> QED BY <1>2, <2>3, <2>5, <4>2, <5>1
      <4> QED BY <4>1, <4>2
    <3>3. Happening(life, o, at)
      BY <1>1, <1>3, <2>1, <2>3, <2>4, <3>1, ObservationHappening
    <3>4. DecisionObservationValid(o)
      BY <1>1, <1>3, <2>1, <2>3, <3>1, <3>2, <3>3, ObservationValid
    <3> HIDE DEF o
    <3> QED BY <2>3, <3>3, <3>4 DEF InItsTime
  <2> HIDE DEF o
  <2>6. ASSUME NEW q \in Scanners, scanner'[q].reading
        PROVE  \/ scanner'[q].observation.observed < decision.observed
               \/ InItsTime(scanner'[q].observation)
    <3>1. CASE q = s
      BY <2>2, <2>3, <2>5, <3>1
    <3>2. CASE q # s
      BY <2>2, <2>6, <3>2 DEF RefusedInv
    <3> QED BY <3>1, <3>2
  <2> QED BY <2>1, <2>6 DEF RefusedInv, StoredInItsTime, InItsTime
<1>4. ASSUME NEW s \in Scanners, ScanRange(s) PROVE RefusedInv'
  <2>1. PICK at \in 1 .. head : \E lo, hi : Observe(s, LogsIn(life, lo, hi), hi, at)
    BY <1>4 DEF ScanRange
  <2>2. PICK lo, hi : Observe(s, LogsIn(life, lo, hi), hi, at)
    BY <2>1
  <2>3. LogsIn(life, lo, hi) \subseteq AllLogs(life)
    BY DEF LogsIn
  <2> QED BY <1>3, <2>2, <2>3
<1>5. ASSUME NEW s \in Scanners, Refresh(s) PROVE RefusedInv'
  BY <1>3, <1>5 DEF Refresh
<1>6. ASSUME NEW s \in Scanners, scanner' = [scanner EXCEPT ![s] = NotReading],
             NEW q \in Scanners, scanner'[q].reading
      PROVE  /\ \/ scanner'[q].observation.observed < decision.observed
                \/ InItsTime(scanner'[q].observation)
             /\ scanner'[q].observation.observed \in Nat
  <2>1. q # s
    BY <1>1, <1>6 DEF NotReading
  <2>2. scanner'[q] = scanner[q] /\ scanner[q].reading
    BY <1>1, <1>6, <2>1
  <2> QED BY <1>1, <2>2 DEF RefusedInv, Decision
<1>7. ASSUME NEW s \in Scanners, Upsert(s) PROVE RefusedInv'
  <2> DEFINE o == scanner[s].observation
             d == MergeGovernanceDecision(decision, o)
  <2>1. o \in Decision /\ o.observed \in Nat /\ QueueFits(life, o) /\ ~MergeRefused(decision, o)
    BY <1>1, <1>7 DEF Upsert, UpsertRefused, Decision
  <2>2. decision' = d /\ refused' = refused /\ scanner' = [scanner EXCEPT ![s] = NotReading]
    BY <1>7 DEF Upsert, Done
  <2>5. decision.observed \in Nat
    BY <1>1 DEF Decision, NoDecision
  <2>6. decision.observed <= o.observed
    BY <1>1, <2>1, <2>5, MergedState DEF NoDecision
  <2>7. InItsTime(o)
    BY <1>7, <2>1, <2>5, <2>6 DEF RefusedInv, Upsert
  <2> HIDE DEF o
  <2>3. /\ d.status = o.status /\ d.executed = OrElse(o.executed, decision.executed)
        /\ decision # NoDecision =>
             d.status = decision.status \/ d.status \in AllowedStatusTransitions[decision.status]
    BY <1>1, <2>1, Merged, MergedReferences
  <2> HIDE DEF d
  <2>4. ASSUME d.executed # 0 PROVE d.status = "executed"
    <3>1. CASE o.executed # 0
      BY <2>3, <2>7, <3>1 DEF InItsTime, DecisionObservationValid
    <3>2. CASE o.executed = 0
      <4>1. decision.executed # 0
        BY <2>3, <2>4, <3>2 DEF OrElse
      <4>2. decision # NoDecision
        BY <4>1 DEF NoDecision
      <4>3. decision.status = "executed"
        BY <1>2, <4>1, <4>2
      <4> QED BY <2>3, <4>2, <4>3 DEF AllowedStatusTransitions
    <3> QED BY <3>1, <3>2
  <2>8. /\ d \in Decision /\ d.observed \in Nat
        /\ d.observed = o.observed \/ (decision # NoDecision /\ d = decision)
        /\ \A k \in {d.created, d.canceled, d.queued, d.executed} : k <= o.observed
    BY <1>1, <2>1, MergedState DEF d, Decision
  <2>9. Happening(life, d, o.observed)
    <3>1. decision # NoDecision => Happening(life, decision, o.observed)
      BY <1>1, <2>1, <2>5, <2>6, HappeningLater DEF RefusedInv, StoredInItsTime
    <3> QED BY <1>1, <2>1, <2>7, <3>1, MergedHappening DEF d, InItsTime
  <2>10. StoredInItsTime'
    <3>1. CASE d.observed = o.observed
      BY <1>1, <2>2, <2>4, <2>8, <2>9, <3>1 DEF StoredInItsTime
    <3>2. CASE decision # NoDecision /\ d = decision
      BY <1>1, <2>2, <2>4, <3>2 DEF RefusedInv, StoredInItsTime
    <3> QED BY <2>8, <3>1, <3>2
  <2>11. decision.observed <= d.observed
    BY <2>5, <2>6, <2>8
  <2>12. ASSUME NEW q \in Scanners, scanner'[q].reading
         PROVE  \/ scanner'[q].observation.observed < d.observed
                \/ InItsTime(scanner'[q].observation)
    <3>1. /\ \/ scanner'[q].observation.observed < decision.observed
             \/ InItsTime(scanner'[q].observation)
          /\ scanner'[q].observation.observed \in Nat
      BY <1>6, <2>2, <2>12
    <3> DEFINE b == scanner'[q].observation.observed
    <3>2. b < decision.observed => b < d.observed
      BY <2>5, <2>8, <2>11, <3>1
    <3> QED BY <3>1, <3>2
  <2> QED BY <1>1, <2>2, <2>10, <2>12 DEF RefusedInv, InItsTime
<1>8. ASSUME NEW s \in Scanners, Refuse(s) PROVE RefusedInv'
  <2> DEFINE o == scanner[s].observation
             d == MergeGovernanceDecision(decision, o)
  <2>1. /\ o \in Decision /\ QueueFits(life, o)
        /\ Happening(life, o, head) /\ StateOf(life, o, o.observed)
        /\ o.observed \in Nat
    BY <1>1, <1>8 DEF Refuse, SampleInv, ObservationsResolved, Decision
  <2>2. /\ UpsertRefused(decision, events, o) /\ refused' = (refused \/ synced <= o.observed)
        /\ scanner' = [scanner EXCEPT ![s] = NotReading] /\ UNCHANGED decision
    BY <1>8 DEF Refuse, Done
  <2>5. o.observed < decision.observed \/ InItsTime(o)
    BY <1>8 DEF Refuse, RefusedInv
  <2> HIDE DEF o
  <2>3. ASSUME synced <= o.observed PROVE FALSE
    <3>8. DecisionObservationValid(o)
      <4>1. decision.observed <= o.observed
        BY <1>1, <1>2, <2>1, <2>3 DEF NoDecision
      <4>2. decision.observed \in Nat
        BY <1>1 DEF Decision, NoDecision
      <4> QED BY <2>1, <2>5, <4>1, <4>2 DEF InItsTime
    <3>1. ~MergeRefused(decision, o)
      <4>1. CASE decision = NoDecision
        BY <1>1, <2>1, <3>8, <4>1, NothingRefused
      <4>2. CASE decision # NoDecision
        BY <1>1, <1>2, <2>1, <2>3, <3>8, <4>2, NothingRefused
      <4> QED BY <4>1, <4>2
    <3>2. PICK t \in ImpliedTransitions(d) \cap DOMAIN events :
            TransactionChanges(events[t], BuildLifecycleEvent(d, t, "skipped"))
      BY <2>2, <3>1 DEF UpsertRefused
    <3>3. /\ d \in Decision /\ VoteFits(d) /\ d.status = o.status /\ d.eta = o.eta
          /\ d.queued = OrElse(o.queued, decision.queued)
          /\ decision # NoDecision => (decision.eta => d.eta)
      BY <1>1, <2>1, <3>1, Merged
    <3>4. Happening(life, d, head)
      BY <1>1, <1>2, <2>1, <3>1, MergedHappening
    <3> HIDE DEF d
    <3>5. QueueFits(life, d)
      <4>1. CASE decision = NoDecision
        <5>1. decision.queued = 0
          BY <4>1 DEF NoDecision
        <5> QED BY <2>1, <3>3, <5>1 DEF QueueFits, OrElse
      <4>2. CASE decision # NoDecision
        <5>1. decision.queued # 0 => decision.eta
          BY <1>2, <4>2 DEF QueueFits
        <5> QED BY <2>1, <3>3, <4>2, <5>1 DEF QueueFits, OrElse
      <4> QED BY <4>1, <4>2
    <3>6. BuildLifecycleEvent(d, t, "skipped").transaction \in {0, HappenedAt(life, t)}
      BY <1>1, <3>3, <3>4, <3>5, ImpliedHappened DEF BuildLifecycleEvent
    <3>7. events[t].transaction \in {0, HappenedAt(life, t)}
      BY DEF ChainInv, EventsHappened
    <3> QED BY <3>2, <3>6, <3>7 DEF TransactionChanges
  <2>4. ~refused'
    BY <2>2, <2>3 DEF RefusedInv
  <2> QED BY <1>1, <1>6, <2>2, <2>4 DEF RefusedInv, StoredInItsTime, InItsTime
<1>9. ASSUME NEW s \in Scanners, Abandon(s) PROVE RefusedInv'
  <2>1. scanner' = [scanner EXCEPT ![s] = NotReading] /\ UNCHANGED <<decision, refused>>
    BY <1>9 DEF Abandon, Done
  <2> QED BY <1>1, <1>6, <2>1 DEF RefusedInv, StoredInItsTime, InItsTime
<1>10. CASE Finalize \/ UNCHANGED vars
  BY <1>10 DEF Finalize, vars, RefusedInv, StoredInItsTime, InItsTime
<1> QED BY <1>4, <1>5, <1>7, <1>8, <1>9, <1>10 DEF Next

\* OnlyStaleRefused: the checks of getDecision and of the merge refuse nothing that
\* the chain can show but an observation that a newer one has overtaken.
THEOREM StaleOnly == Spec => []OnlyStaleRefused
<1>1. LifecycleInv /\ RefusedInv => OnlyStaleRefused
  <2> SUFFICES ASSUME LifecycleInv, RefusedInv
               PROVE  ~GetDecisionThrows(life, LogsIn(life, 1, head), head)
    BY DEF OnlyStaleRefused, RefusedInv
  <2>1. IsLife(life) /\ head \in Nat
    BY ConstantsAssumption DEF LifecycleInv, TypeOK
  <2>2. /\ LogsIn(life, 1, head) \subseteq AllLogs(life)
        /\ \A l \in LogsIn(life, 1, head) : l.block <= head
    BY DEF LogsIn
  <2> QED BY <2>1, <2>2, NothingThrown
<1> QED BY InitInv, StepInv, ChainInit, ChainStep, SampleInit, SampleStep, RefusedInit, RefusedStep,
           <1>1, PTL DEF Spec
===============================================================================
