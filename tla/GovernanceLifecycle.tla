------------------------- MODULE GovernanceLifecycle -------------------------
(***************************************************************************)
(* One proposal in the store, sampled by scanners that see its life at     *)
(* whatever blocks their scans happen to be pinned to, read its logs in    *)
(* slices, and write what they saw some time later: synchronizeDecision as *)
(* its read (findDecisionById and getDecision) and its transaction         *)
(* (upsertDecision).  The job that decides which slices are read is        *)
(* OnchainScan; here any slice may be, as long as no log behind the cursor *)
(* was missed.                                                             *)
(***************************************************************************)
EXTENDS GovernanceDecision

CONSTANTS
  Scanners,  \* the processes with a scan job
  Silent,    \* those of them that store history without alerts
  Lives,     \* the lives of a proposal that are considered
  MaxBlock   \* bound: the last finalized block

ASSUME ConstantsAssumption ==
  Silent \subseteq Scanners /\ (\A h \in Lives : IsLife(h)) /\ MaxBlock \in Nat

VARIABLES
  life,      \* what happens to the proposal on the chain
  head,      \* the finalized head
  decision,  \* governanceDecisions: the stored decision or NoDecision
  events,    \* governanceEvents: the stored lifecycle events, by transition
  cursor,    \* the last block with a log up to which all logs are stored
  scanner,   \* per scanner: the observation it holds, and the logs it came from
  synced,    \* history: the newest block an accepted observation was pinned to
  refused    \* history: an observation was refused though none newer was stored

vars == <<life, head, decision, events, cursor, scanner, synced, refused>>

NotReading == [reading |-> FALSE, observation |-> NoDecision, upTo |-> 0]

Note(s) == IF s \in Silent THEN "skipped" ELSE "pending"

Init ==
  /\ life \in Lives
  /\ head = 0 /\ cursor = 0 /\ synced = 0
  /\ decision = NoDecision
  /\ events = NoEvents
  /\ scanner = [s \in Scanners |-> NotReading]
  /\ refused = FALSE

-------------------------------------------------------------------------------
Finalize ==
  /\ head < MaxBlock /\ head' = head + 1
  /\ UNCHANGED <<life, decision, events, cursor, scanner, synced, refused>>

\* findDecisionById, then getDecision with the logs given, pinned to the finalized
\* head that the run of s began with: that head may have moved since, and what is
\* stored may be newer than it.
Observe(s, logs, upTo, at) ==
  /\ ~scanner[s].reading
  /\ life.created <= at
  /\ ~GetDecisionThrows(life, logs, at)
  /\ scanner' = [scanner EXCEPT ![s] =
       [reading |-> TRUE, observation |-> GetDecision(life, logs, decision, at),
        upTo |-> upTo]]
  /\ UNCHANGED <<life, head, decision, events, cursor, synced, refused>>

\* A range of blocks that holds logs of the proposal: it goes on from the cursor,
\* or overlaps what was read before, at most to the deployment of the Governor.
\* Blocks without logs of the proposal are read too, and change nothing here.
ScanRange(s) ==
  \E at \in 1 .. head : \E lo \in {1, cursor + 1}, hi \in {l.block : l \in LogsIn(life, 1, at)} :
    LogsIn(life, lo, hi) # {} /\ Observe(s, LogsIn(life, lo, hi), hi, at)

\* refreshActiveDecisions: the state alone, of a decision that may still change.
Refresh(s) ==
  /\ decision # NoDecision /\ ~Terminal(decision)
  /\ \E at \in 1 .. head : Observe(s, {}, 0, at)

Done(s) == scanner' = [scanner EXCEPT ![s] = NotReading]

\* The transaction of upsertDecision.
Upsert(s) ==
  LET o == scanner[s].observation
      d == MergeGovernanceDecision(decision, o)
  IN /\ scanner[s].reading
     /\ ~UpsertRefused(decision, events, o)
     /\ decision' = d
     /\ events' = UpsertedEvents(decision, events, d, Note(s))
     /\ cursor' = IF scanner[s].upTo > cursor THEN scanner[s].upTo ELSE cursor
     /\ synced' = IF o.observed > synced THEN o.observed ELSE synced
     /\ Done(s)
     /\ UNCHANGED <<life, head, refused>>

\* The transaction throws, and the run fails with it.
Refuse(s) ==
  LET o == scanner[s].observation
  IN /\ scanner[s].reading
     /\ UpsertRefused(decision, events, o)
     /\ refused' = (refused \/ synced <= o.observed)
     /\ Done(s)
     /\ UNCHANGED <<life, head, decision, events, cursor, synced>>

\* The run fails elsewhere, or the process ends.
Abandon(s) ==
  /\ scanner[s].reading /\ Done(s)
  /\ UNCHANGED <<life, head, decision, events, cursor, synced, refused>>

Next ==
  \/ Finalize
  \/ \E s \in Scanners : ScanRange(s) \/ Refresh(s) \/ Upsert(s) \/ Refuse(s) \/ Abandon(s)

Spec == Init /\ [][Next]_vars

-------------------------------------------------------------------------------
\* Types, and the stored decision is what an observation could be.
TypeOK ==
  /\ life \in Lives /\ head \in 0 .. MaxBlock /\ cursor \in 0 .. MaxBlock
  /\ synced \in 0 .. MaxBlock /\ refused \in BOOLEAN
  /\ decision \in Decision \cup {NoDecision}
  /\ DOMAIN events \subseteq Transitions
  /\ \A t \in DOMAIN events : events[t] \in LifecycleEvent
  /\ scanner \in [Scanners -> [reading : BOOLEAN, observation : Decision \cup {NoDecision},
                              upTo : 0 .. MaxBlock]]

\* However the proposal was sampled - at every state, or only at the last one,
\* with or without its logs, by one scanner or by two - the store holds exactly
\* the events that its decision stands for: none is lost between two scans, none
\* is left over from a state that an observation took back.  The one exception is
\* the expiry of a proposal that is canceled later: its event exists if a scan saw
\* the proposal expired, and nothing tells of it otherwise.
EventsMatchDecision ==
  IF decision = NoDecision THEN events = NoEvents
  ELSE /\ ImpliedTransitions(decision) \subseteq DOMAIN events
       /\ DOMAIN events \subseteq ImpliedTransitions(decision)
                             \cup (IF decision.status = "canceled" THEN {"expired"} ELSE {})

\* Every stored event took place on the chain, and where it names a transaction
\* it is the one that made the transition: of several cancellations the first.
EventsHappened ==
  \A t \in DOMAIN events :
    /\ By(HappenedAt(life, t), head)
    /\ events[t].transaction \in {0, HappenedAt(life, t)}

\* Once the logs up to the newest observation have been stored, the decision does
\* not depend on how it was sampled: it is what a first look at that block, with
\* all the logs, would have stored.
SamplingForgotten ==
  LET seen == LogsIn(life, 1, synced)
  IN decision # NoDecision /\ (\A l \in seen : l.block <= cursor) =>
       [decision EXCEPT !.observed = 0]
         = [GetDecision(life, seen, NoDecision, synced) EXCEPT !.observed = 0]

\* The checks of the client and of the merge refuse nothing that the chain can
\* show, with all the logs there are or with some of them, except an observation
\* older than one that another scanner stored in the meantime.
OnlyStaleRefused ==
  /\ ~refused
  /\ life.created <= head => ~GetDecisionThrows(life, LogsIn(life, 1, head), head)

\* Enrichment does not lose an event, change whether it alerts, or change a
\* transaction that is known.
EventsKept ==
  \A t \in DOMAIN events :
    /\ t \in DOMAIN events'
    /\ events'[t].status = events[t].status
    /\ events[t].transaction # 0 => events'[t] = events[t]

EventsStay == [][EventsKept]_vars
===============================================================================
