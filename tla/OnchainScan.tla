----------------------------- MODULE OnchainScan -----------------------------
(***************************************************************************)
(* OnchainGovernanceScanJob.run for one source: the silent baseline, the   *)
(* scan of an established source, the ranges and the cursor, the refresh   *)
(* of decisions without logs, the coverage checks, and the replays that    *)
(* they order.  What one observation does to a decision and its events is  *)
(* in GovernanceDecision.                                                  *)
(*                                                                         *)
(* runningSources admits one run per process and one process is modelled:  *)
(* between findDecisionById and upsertDecision nobody else writes, so      *)
(* synchronizeDecision is one step.  A run is pinned to the finalized head *)
(* its provider names when it begins, so the head moves between runs.      *)
(* Health and counters are only reported, and left out, and so are the     *)
(* identity of the contract and the hash of the cursor block: a run that   *)
(* finds one of them changed is refused.                                   *)
(***************************************************************************)
EXTENDS GovernanceDecision, Integers, FiniteSets, Sequences

CONSTANTS
  Worlds,     \* the sequences of proposals that are considered, each a life
  RangeSize,    \* maxLogBlockRange
  Overlap,      \* reorgOverlapBlocks
  LegacyHeads,  \* blocks at which an older version may have run last
  MaxBlock,     \* bound: the last finalized block
  MaxFaults     \* bound: failed runs, ended processes, answers with a log missing
                \* and answers of a provider that lags behind

ASSUME ConstantsAssumption ==
  /\ \A w \in Worlds : /\ Len(w) \in Nat /\ DOMAIN w = 1 .. Len(w)
                       /\ \A p \in DOMAIN w : /\ IsLife(w[p])
                                              /\ p > 1 => w[p - 1].created < w[p].created
  /\ {RangeSize, MaxBlock} \subseteq Nat \ {0} /\ {Overlap, MaxFaults} \subseteq Nat
  /\ LegacyHeads \subseteq 1 .. MaxBlock

VARIABLES
  world,      \* the lives of the proposals, by proposal id
  head,       \* the finalized head
  decisions,  \* governanceDecisions, by proposal id
  events,     \* governanceEvents, by proposal id and transition
  source,     \* governanceSourceStates; before the first run its baseline is "none"
  scan,       \* the run under way
  omitted,    \* history: the logs left out of an answer
  completed,  \* history: the block at which the baseline was first completed
  repaired,   \* history: a complete baseline was reset to be seeded again, or the
              \* target of an older version replaced by an earlier one
  faults      \* how much of MaxFaults is used up

vars == <<world, head, decisions, events, source, scan, omitted, completed, repaired, faults>>

-------------------------------------------------------------------------------
Ids == DOMAIN world

\* Deployment is block 1.
NoCursor == 0

\* The state of an older version, without the numbers of proposals.
NoCount == -1

Source == [baseline : {"none", "seeding", "complete"}, replay : {"none", "silent", "live"},
           target : 0 .. MaxBlock, count : NoCount .. Len(world), cursor : 0 .. MaxBlock,
           success : 0 .. MaxBlock]

\* pc: between ranges, in a range, in refreshActiveDecisions, before the coverage
\* check.  Of a run the phases are the baseline, its catch-up, and the live scan.
Scan == [pc : {"idle", "ranges", "range", "refresh", "coverage"},
         phase : {"baseline", "catchUp", "live"},
         observed : 0 .. MaxBlock, from : Nat, to : 0 .. MaxBlock,
         logs : SUBSET [id : Ids, log : Logs], todo : SUBSET Ids, processed : SUBSET Ids]

NotRunning == [pc |-> "idle", phase |-> "live", observed |-> 0, from |-> 0, to |-> 0,
               logs |-> {}, todo |-> {}, processed |-> {}]

\* Nothing is stored yet.
NewDatabase ==
  /\ head = 1
  /\ decisions = [p \in Ids |-> NoDecision]
  /\ events = [p \in Ids |-> NoEvents]
  /\ source = [baseline |-> "none", replay |-> "none", target |-> 0, count |-> 0,
               cursor |-> NoCursor, success |-> 0]
  /\ completed = 0

\* What an older version had stored of the baseline with target b when it was stopped
\* at the end of a range, or of the baseline.
LegacyDatabase(b, cursor) ==
  LET decided == [p \in Ids |-> IF world[p].created > cursor THEN NoDecision
                                ELSE GetDecision(world[p], LogsIn(world[p], 1, cursor), NoDecision, b)]
  IN /\ cursor = b \/ cursor % RangeSize = 0
     /\ head = b
     /\ decisions = decided
     /\ events = [p \in Ids |-> IF decided[p] = NoDecision THEN NoEvents
                                ELSE UpsertedEvents(NoDecision, NoEvents, decided[p], "skipped")]
     /\ source = [baseline |-> IF cursor = b THEN "complete" ELSE "seeding", replay |-> "none",
                  target |-> b, count |-> NoCount, cursor |-> cursor, success |-> 0]
     /\ completed = IF cursor = b THEN b ELSE 0

Init ==
  /\ world \in Worlds
  /\ NewDatabase \/ \E b \in LegacyHeads : \E cursor \in 0 .. b : LegacyDatabase(b, cursor)
  /\ scan = NotRunning
  /\ omitted = {} /\ repaired = FALSE /\ faults = 0

Fault == faults < MaxFaults /\ faults' = faults + 1

\* proposalCount read at block b.
ProposalCount(b) == Cardinality({p \in Ids : world[p].created <= b})

Stored(p) == decisions[p] # NoDecision

MissingProposals(count) == {p \in Ids : p <= count /\ ~Stored(p)}

\* findMissingLifecycleReferences, of one decision.
MissingReference(p) ==
  LET d == decisions[p]
  IN \/ d.created = 0
     \/ d.status = "canceled" /\ d.canceled = 0
     \/ d.status \in {"queued", "expired", "executed"} /\ d.queued = 0
     \/ d.status = "canceled" /\ d.eta /\ d.queued = 0
     \/ d.status = "executed" /\ d.executed = 0

MissingReferences(ids) == {p \in ids : Stored(p) /\ MissingReference(p)}

\* Slip: the status of the baseline stays, too.
ResetCursorOnly(s, baseline, replay) ==
  source' = [s EXCEPT !.replay = replay, !.cursor = NoCursor]

\* resetCoverageCursor: the target and the count of the baseline stay.
ResetCoverageCursor(s, baseline, replay) ==
  source' = [s EXCEPT !.baseline = baseline, !.replay = replay, !.cursor = NoCursor]

Failed == scan' = NotRunning

-------------------------------------------------------------------------------
Finalize ==
  /\ scan.pc = "idle" /\ head < MaxBlock /\ head' = head + 1
  /\ UNCHANGED <<world, decisions, events, source, scan, omitted, completed, repaired, faults>>

(* A run, up to the branch.                                                 *)

\* validateSource: the finalized head of a provider, which may lag behind what an
\* earlier run was shown.
LatestFinalized(b) ==
  /\ scan.pc = "idle" /\ b \in 1 .. head
  /\ IF b = head THEN UNCHANGED faults ELSE Fault

InitialSourceState(b) ==
  [baseline |-> "seeding", replay |-> "silent", target |-> b, count |-> ProposalCount(b),
   cursor |-> NoCursor, success |-> 0]

InitializeSourceState(b) == IF source.baseline = "none" THEN InitialSourceState(b) ELSE source

\* The state of an older version gets the count of now; a baseline that it was
\* seeding starts again, with the target of now.
EnsureProposalBoundaryState(s, b) ==
  IF s.count # NoCount THEN s
  ELSE IF s.baseline = "complete" THEN [s EXCEPT !.count = ProposalCount(b)]
  ELSE [s EXCEPT !.count = ProposalCount(b), !.target = b, !.cursor = NoCursor]

Prepared(b) == EnsureProposalBoundaryState(InitializeSourceState(b), b)

\* assertStoredSourceState.
StoredSourceState(s) ==
  /\ s.replay = "silent" => s.baseline = "seeding"
  /\ s.replay = "live" => s.baseline = "complete"
  /\ s.target >= 1 /\ s.cursor >= NoCursor

\* assertProposalSequenceUnchanged.
ProposalSequenceUnchanged(s, b) == s.count <= ProposalCount(b)

\* assertProposalCountCoversStoredDecisions.
ProposalCountCoversStoredDecisions(b) == \A p \in Ids : Stored(p) => p <= ProposalCount(b)

\* assertCanonicalCursor.
CanonicalCursor(s, b) == s.cursor <= b /\ s.target <= b

\* The provider lags behind when the baseline of an older version starts again.
Rewound(b) == repaired \/ Prepared(b).target < source.target

Admitted(s, b) ==
  /\ StoredSourceState(s) /\ ProposalSequenceUnchanged(s, b)
  /\ ProposalCountCoversStoredDecisions(b) /\ CanonicalCursor(s, b)

\* The run throws; that the state was prepared for it stays.
BeginRefused ==
  \E b \in 1 .. head :
    /\ LatestFinalized(b) /\ ~Admitted(Prepared(b), b)
    /\ source' = Prepared(b)
    /\ repaired' = Rewound(b)
    /\ UNCHANGED <<world, head, decisions, events, scan, omitted, completed>>

Start(phase, b, from, to) ==
  scan' = [NotRunning EXCEPT !.pc = "ranges", !.phase = phase, !.observed = b,
                             !.from = from, !.to = to]

\* The run of a source that is new, or whose baseline is being seeded.
BeginBaseline ==
  \E b \in 1 .. head :
    /\ LatestFinalized(b) /\ Admitted(Prepared(b), b)
    /\ Prepared(b).baseline = "seeding"
    /\ source' = Prepared(b)
    /\ Start("baseline", b, source'.cursor + 1, source'.target)
    /\ repaired' = Rewound(b)
    /\ UNCHANGED <<world, head, decisions, events, omitted, completed>>

\* decisionsUpToProposalId.
UpTo(count) == {p \in Ids : p <= count}

\* Slip: a live replay is checked for gaps of the baseline like any other scan.
HistoricalGapsAlways(s) ==
  MissingProposals(s.count) # {} \/ MissingReferences(UpTo(s.count)) # {}

\* scanEstablishedSource: the gaps that order the silent repair of the baseline.
HistoricalGaps(s) ==
  \/ MissingProposals(s.count) # {}
  \/ s.replay # "live" /\ MissingReferences(UpTo(s.count)) # {}

BeginRepair ==
  \E b \in 1 .. head :
    /\ LatestFinalized(b) /\ Admitted(Prepared(b), b)
    /\ Prepared(b).baseline = "complete" /\ HistoricalGaps(Prepared(b))
    /\ ResetCoverageCursor(Prepared(b), "seeding", "silent")
    /\ repaired' = TRUE
    /\ UNCHANGED <<world, head, decisions, events, scan, omitted, completed>>

ScanFrom == IF source.cursor + 1 > Overlap + 1 THEN source.cursor + 1 - Overlap ELSE 1

BeginLive ==
  \E b \in 1 .. head :
    /\ LatestFinalized(b) /\ Admitted(Prepared(b), b)
    /\ Prepared(b).baseline = "complete" /\ ~HistoricalGaps(Prepared(b))
    /\ source' = Prepared(b)
    /\ Start("live", b, ScanFrom, b)
    /\ UNCHANGED <<world, head, decisions, events, omitted, completed, repaired>>

\* The last block of the range that begins at scan.from.
RangeEnd == IF scan.from + RangeSize - 1 < scan.to THEN scan.from + RangeSize - 1 ELSE scan.to

\* getEvents of the next range, perhaps with a log missing from the answer.
GetEvents ==
  LET found == UNION {{[id |-> p, log |-> l] : l \in LogsIn(world[p], scan.from, RangeEnd)} : p \in Ids}
  IN /\ scan.pc = "ranges" /\ scan.from <= scan.to
     /\ \E answer \in {found} \cup {found \ {m} : m \in found} :
          /\ IF answer = found THEN UNCHANGED faults ELSE Fault
          /\ omitted' = omitted \cup (found \ answer)
          /\ scan' = [scan EXCEPT !.pc = "range", !.logs = answer,
                                  !.todo = {l.id : l \in answer}]
     /\ UNCHANGED <<world, head, decisions, events, source, completed, repaired>>

\* Slip: a baseline that is resumed at a newer head is scanned like live blocks.
StatusByTarget == IF scan.observed = source.target THEN "skipped" ELSE "pending"

\* Slip: the catch-up is still part of the silent baseline.
SilentCatchUp == IF scan.phase = "live" THEN "pending" ELSE "skipped"

NotificationStatus == IF scan.phase = "baseline" THEN "skipped" ELSE "pending"

\* The observation of a proposal, and the transaction that stores it; it throws
\* if the observation is refused, and the run fails.
SynchronizeDecision(p, logs) ==
  \E o \in {GetDecision(world[p], logs, decisions[p], scan.observed)} :
    IF \/ GetDecisionThrows(world[p], logs, scan.observed)
       \/ UpsertRefused(decisions[p], events[p], o)
    THEN Failed /\ UNCHANGED <<decisions, events>>
    ELSE \E d \in {MergeGovernanceDecision(decisions[p], o)} :
           /\ decisions' = [decisions EXCEPT ![p] = d]
           /\ events' = [events EXCEPT ![p] =
                UpsertedEvents(decisions[p], events[p], d, NotificationStatus)]
           /\ scan' = [scan EXCEPT !.todo = scan.todo \ {p},
                                   !.processed = scan.processed \cup {p}]

ReadLogs(p) == {l.log : l \in {m \in scan.logs : m.id = p}}

FirstLog(p) == CHOOSE k \in {l.block : l \in ReadLogs(p)} : \A l \in ReadLogs(p) : k <= l.block

\* The proposals of a range come in the order of their first logs.
SyncNext ==
  /\ scan.pc = "range"
  /\ \E p \in scan.todo :
       /\ \A q \in scan.todo :
            FirstLog(p) < FirstLog(q) \/ (FirstLog(p) = FirstLog(q) /\ p <= q)
       /\ SynchronizeDecision(p, ReadLogs(p))
  /\ UNCHANGED <<world, head, source, omitted, completed, repaired, faults>>

\* Slip: the cursor moves before the decisions of the range are synchronized.
EndRangeEarly ==
  /\ scan.pc = "range"
  /\ source' = [source EXCEPT !.cursor = IF RangeEnd >= source.cursor THEN RangeEnd ELSE source.cursor]
  /\ scan' = IF scan.todo # {} THEN scan
             ELSE [scan EXCEPT !.pc = "ranges", !.from = RangeEnd + 1, !.logs = {}]
  /\ UNCHANGED <<world, head, decisions, events, omitted, completed, repaired, faults>>

\* The cursor moves on, never back: an overlap may end behind it.
EndRange ==
  /\ scan.pc = "range" /\ scan.todo = {}
  /\ source' = [source EXCEPT !.cursor = IF RangeEnd >= source.cursor THEN RangeEnd ELSE source.cursor]
  /\ scan' = [scan EXCEPT !.pc = "ranges", !.from = RangeEnd + 1, !.logs = {}]
  /\ UNCHANGED <<world, head, decisions, events, omitted, completed, repaired, faults>>

\* Slip: the decisions that no log mentioned are not read again.
RangesDoneUnrefreshed ==
  /\ scan.pc = "ranges" /\ scan.to < scan.from
  /\ scan' = [scan EXCEPT !.pc = IF scan.phase = "baseline" THEN "refresh" ELSE "coverage"]
  /\ UNCHANGED <<world, head, decisions, events, source, omitted, completed, repaired, faults>>

\* The catch-up goes straight to the coverage check, the others refresh what may
\* still change and was not in the ranges.
RangesDone ==
  /\ scan.pc = "ranges" /\ scan.to < scan.from
  /\ scan' = IF scan.phase = "catchUp" THEN [scan EXCEPT !.pc = "coverage"]
             ELSE [scan EXCEPT !.pc = "refresh",
                               !.todo = {p \in Ids : Stored(p) /\ ~Terminal(decisions[p])}
                                          \ scan.processed]
  /\ UNCHANGED <<world, head, decisions, events, source, omitted, completed, repaired, faults>>

\* refreshActiveDecisions, from the highest id down.
RefreshNext ==
  /\ scan.pc = "refresh"
  /\ \E p \in scan.todo : (\A q \in scan.todo : q <= p) /\ SynchronizeDecision(p, {})
  /\ UNCHANGED <<world, head, source, omitted, completed, repaired, faults>>

RefreshDone ==
  /\ scan.pc = "refresh" /\ scan.todo = {} /\ scan.phase = "live"
  /\ scan' = [scan EXCEPT !.pc = "coverage"]
  /\ UNCHANGED <<world, head, decisions, events, source, omitted, completed, repaired, faults>>

\* Slip: the baseline is held against the proposals of the newest head.
BaselineGapsOfHead ==
  MissingProposals(ProposalCount(scan.observed)) # {} \/ MissingReferences(Ids) # {}

BaselineGaps == MissingProposals(source.count) # {} \/ MissingReferences(Ids) # {}

BaselineIncomplete ==
  /\ scan.pc = "refresh" /\ scan.todo = {} /\ scan.phase = "baseline" /\ BaselineGaps
  /\ ResetCoverageCursor(source, "seeding", "silent")
  /\ Failed
  /\ UNCHANGED <<world, head, decisions, events, omitted, completed, repaired, faults>>

\* The baseline is complete: what came after its target is scanned at once.
CompleteBaseline ==
  /\ scan.pc = "refresh" /\ scan.todo = {} /\ scan.phase = "baseline" /\ ~BaselineGaps
  /\ source' = [source EXCEPT !.baseline = "complete", !.replay = "none"]
  /\ scan' = [scan EXCEPT !.pc = "ranges", !.phase = "catchUp",
                          !.from = source.cursor + 1, !.to = scan.observed, !.processed = {}]
  /\ completed' = OrElse(completed, scan.observed)
  /\ UNCHANGED <<world, head, decisions, events, omitted, repaired, faults>>

LiveGaps == MissingProposals(ProposalCount(scan.observed)) # {} \/ MissingReferences(Ids) # {}

LiveIncomplete ==
  /\ scan.pc = "coverage" /\ LiveGaps
  /\ ResetCoverageCursor(source, "complete", "live")
  /\ Failed
  /\ UNCHANGED <<world, head, decisions, events, omitted, completed, repaired, faults>>

RecordSuccess ==
  /\ scan.pc = "coverage" /\ ~LiveGaps
  /\ source' = [source EXCEPT !.replay = "none", !.success = scan.observed]
  /\ scan' = NotRunning
  /\ UNCHANGED <<world, head, decisions, events, omitted, completed, repaired, faults>>

\* A request or a transaction fails and the run with it, or the process ends.
Abort ==
  /\ scan.pc # "idle" /\ Fault /\ Failed
  /\ UNCHANGED <<world, head, decisions, events, source, omitted, completed, repaired>>

Step ==
  \/ BeginRefused \/ BeginBaseline \/ BeginRepair \/ BeginLive
  \/ GetEvents \/ SyncNext \/ EndRange \/ RangesDone \/ RefreshNext \/ RefreshDone
  \/ BaselineIncomplete \/ CompleteBaseline \/ LiveIncomplete \/ RecordSuccess

Next == Finalize \/ Step \/ Abort

Spec == Init /\ [][Next]_vars

\* The cron starts a scan every six hours, and a run that is not aborted goes on.
FairSpec == Spec /\ WF_vars(Step)

-------------------------------------------------------------------------------
TypeOK ==
  /\ world \in Worlds /\ head \in 1 .. MaxBlock
  /\ decisions \in [Ids -> Decision \cup {NoDecision}]
  /\ DOMAIN events = Ids
  /\ \A p \in Ids : /\ DOMAIN events[p] \subseteq Transitions
                    /\ \A t \in DOMAIN events[p] : events[p][t] \in LifecycleEvent
  /\ source \in Source /\ scan \in Scan /\ scan.observed <= head
  /\ source.replay = "silent" => source.baseline = "seeding"
  /\ source.replay = "live" => source.baseline = "complete"

\* The block that a decision records for a log, if it has one.
Recorded(p, l) ==
  LET k == TransactionForTransition(decisions[p], l.type) IN k # 0 /\ k <= l.block

\* The first cancellation was left out of an answer, and a later one is stored.
LaterCancellation(p) ==
  \E l \in AllLogs(world[p]) :
    /\ l.type = "canceled" /\ [id |-> p, log |-> l] \in omitted
    /\ l.block < decisions[p].canceled

\* The cursor never passes a log that is not in the store, through failed runs,
\* overlaps and replays, unless the provider left the log out of its answer.
CursorCovers ==
  \A p \in Ids : \A l \in AllLogs(world[p]) :
    l.block <= source.cursor /\ [id |-> p, log |-> l] \notin omitted => Recorded(p, l)

\* A run that is reported as successful has every proposal of the block it was
\* pinned to, in the state it had there or in a later one that an earlier run was
\* shown, and every transaction behind it, though answers were incomplete, earlier
\* runs broke off and providers lagged behind.  Nothing tells the scan of a
\* cancellation that is missing when it has another one of the proposal.
SuccessIsComplete ==
  source'.success # source.success =>
    /\ source.cursor = scan.observed
    /\ \A p \in 1 .. ProposalCount(scan.observed) :
         /\ Stored(p)
         /\ \E b \in scan.observed .. head : decisions[p].status = StatusAt(world[p], b)
         /\ \A l \in LogsIn(world[p], 1, scan.observed) :
              Recorded(p, l) \/ (l.type = "canceled" /\ LaterCancellation(p))

SuccessesAreComplete == [][SuccessIsComplete]_vars

\* Nothing that had happened when the service was first started is ever announced.
HistoryIsSilent ==
  \A p \in 1 .. source.count : \A t \in DOMAIN events[p] :
    By(HappenedAt(world[p], t), source.target) => events[p][t].status = "skipped"

\* What happened after the baseline was completed, and whatever happened to a
\* proposal that was created after its target, is announced - as long as the
\* baseline had not to be repaired.
NewsIsAnnounced ==
  ~repaired => \A p \in Ids : \A t \in DOMAIN events[p] :
    world[p].created > source.target \/ (completed # 0 /\ completed < HappenedAt(world[p], t)) =>
      events[p][t].status = "pending"

\* No proposal of the baseline, and none that is stored, has a log after the target
\* of the baseline that is not recorded yet; and which these are is known.
Still ==
  source.count # NoCount /\ \A p \in Ids : p <= source.count \/ Stored(p) =>
    \A l \in AllLogs(world[p]) : l.block <= source.target \/ Recorded(p, l)

\* Every run that reads the cancellation that was left out is refused, for the event
\* names the other one.
Stuck == \E p \in Ids : LaterCancellation(p)

\* A source whose baseline is being seeded gets out of it, if the proposals of
\* the baseline hold still, or it is stuck with the wrong cancellation.
BaselineCompletesIfStill ==
  (source.baseline = "seeding" /\ Still) ~> (source.baseline = "complete" \/ Stuck)

\* A replay ordered by a gap of live coverage ends, or is stuck likewise.
LiveReplayEnds == (source.replay = "live") ~> (source.replay = "none" \/ Stuck)

\* "The first production scan [...] is resumable after a process or provider
\* failure" (README): a baseline that is being seeded is completed.
BaselineCompletes == (source.baseline = "seeding") ~> (source.baseline = "complete")
===============================================================================
