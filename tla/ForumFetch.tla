------------------------------ MODULE ForumFetch ------------------------------
(***************************************************************************)
(* FetchProtocolGovernanceJob.run for one protocol, with the baseline      *)
(* state, the history of runs and the upsert it works on: which topics of  *)
(* a forum become alerts and which are stored silently.                    *)
(*                                                                         *)
(* A run is a sequence of awaits.  runningProtocols admits one run of a    *)
(* protocol at a time in a process, and one process is modelled, so the    *)
(* reads of a run that only runs could invalidate are joined with the      *)
(* step that uses them; what may come between two steps is a new topic, an *)
(* exception, or the end of the process.                                   *)
(***************************************************************************)
EXTENDS Integers, FiniteSets

CONSTANTS
  Topics,      \* the topics of the forum, now and later
  History,     \* those that are older than the service
  Routine,     \* those whose title the notification policy suppresses
  MinFetched,  \* SOURCE_ACTIVITY_MIN_FETCHED_COUNT
  MaxFaults    \* bound: exceptions, restarts and incomplete answers

ASSUME ConstantsAssumption ==
  /\ IsFiniteSet(Topics) /\ History \subseteq Topics /\ Routine \subseteq Topics
  /\ MinFetched \in Nat /\ MaxFaults \in Nat

VARIABLES
  clock,          \* the time: it matters only before which topic a timestamp is
  published,      \* when each topic was published; 0: not yet
  stored,         \* the record of each topic
  protocolState,  \* the baseline: status and baselineCompletedAt (0: absent)
  finished,       \* finishedAt of the newest run recorded with each status
  service,        \* configuration: publishers allowed, sending enabled
  run,            \* the run of runningProtocols
  covered,        \* history: the topics that a successful poll had listed
  upgraded,       \* history: the database is older than the baseline state
  unrecorded,     \* history: a poll completed the baseline but never succeeded
  faults          \* how much of MaxFaults is used up

vars == <<clock, published, stored, protocolState, finished, service, run,
          covered, upgraded, unrecorded, faults>>

-------------------------------------------------------------------------------
\* A record is "pending" (it becomes an alert) or "skipped"; the values other
\* than "pending" all are "skipped", told apart by the reason.
Silent == {"suppressed", "baseline", "historical", "disabled", "earlier"}
Stored == {"absent", "pending"} \cup Silent

Service == [allowed : SUBSET Topics, enabled : BOOLEAN]

\* pc names the await a run stands at: the reads before the fetch, the request to
\* the forum, the loop over its topics, the record of success.
Run == [pc : {"idle", "started", "fetching", "storing", "marked"}, startedAt : Nat,
        prev : Nat, seeding : BOOLEAN, answer : SUBSET Topics, todo : SUBSET Topics]

NotRunning == [pc |-> "idle", startedAt |-> 0, prev |-> 0, seeding |-> FALSE,
               answer |-> {}, todo |-> {}]

Visible == {t \in Topics : published[t] > 0}

Fault == faults < MaxFaults /\ faults' = faults + 1

\* An empty database, or one of an earlier version that had polled the forum and
\* kept some of its topics but no baseline state.
Init ==
  /\ clock = 1
  /\ published = [t \in Topics |-> IF t \in History THEN 1 ELSE 0]
  /\ upgraded \in BOOLEAN
  /\ \E kept \in SUBSET History :
       /\ upgraded <=> kept # {}
       /\ stored = [t \in Topics |-> IF t \in kept THEN "earlier" ELSE "absent"]
  /\ finished = [success |-> IF upgraded THEN 1 ELSE 0, failed |-> 0]
  /\ protocolState = [status |-> "none", completedAt |-> 0]
  /\ covered = IF upgraded THEN History ELSE {}
  /\ service \in Service
  /\ run = NotRunning
  /\ unrecorded = FALSE /\ faults = 0

-------------------------------------------------------------------------------
\* Slip: the newest run counts, whether it succeeded or not.
LatestFinishedAt == IF finished.success > finished.failed THEN finished.success ELSE finished.failed

LatestSuccessfulFinishedAt == finished.success

\* runningProtocols.add, startedAt, findLatestSuccessfulByProtocol.
Begin ==
  /\ run.pc = "idle"
  /\ run' = [NotRunning EXCEPT !.pc = "started", !.startedAt = clock,
                               !.prev = LatestSuccessfulFinishedAt]
  /\ UNCHANGED <<clock, published, stored, protocolState, finished, service,
                 covered, upgraded, unrecorded, faults>>

\* Slip: the initial state is computed but not persisted.
FindBaselineUnwritten ==
  /\ run.pc = "started"
  /\ run' = [run EXCEPT !.pc = "fetching",
               !.seeding = protocolState.status # "complete"
                           /\ \A t \in Topics : stored[t] = "absent"]
  /\ UNCHANGED <<clock, published, stored, protocolState, finished, service,
                 covered, upgraded, unrecorded, faults>>

\* findByProtocol; without a state existsForProtocol and initializeBaseline, which
\* dates a baseline that is complete already by the start of the run.
FindBaseline ==
  /\ run.pc = "started"
  /\ protocolState' =
       IF protocolState.status # "none" THEN protocolState
       ELSE IF \E t \in Topics : stored[t] # "absent"
            THEN [status |-> "complete", completedAt |-> run.startedAt]
            ELSE [status |-> "seeding", completedAt |-> 0]
  /\ run' = [run EXCEPT !.pc = "fetching", !.seeding = protocolState'.status = "seeding"]
  /\ UNCHANGED <<clock, published, stored, finished, service, covered, upgraded,
                 unrecorded, faults>>

\* Slip: the baseline counts as complete once the forum has answered.
FetchCompletes ==
  /\ run.pc = "fetching"
  /\ run' = [run EXCEPT !.pc = "storing", !.answer = Visible,
                        !.todo = Visible \cap service.allowed]
  /\ protocolState' =
       IF run.seeding /\ Cardinality(Visible) >= MinFetched
       THEN [status |-> "complete", completedAt |-> clock] ELSE protocolState
  /\ UNCHANGED <<clock, published, stored, finished, service, covered, upgraded,
                 unrecorded, faults>>

\* fetchRecent and the publisher filter.  A page after the first may fail without
\* an exception, pagination is bounded, and a forum that moved lists nothing.
Fetch ==
  /\ run.pc = "fetching"
  /\ \E answer \in SUBSET Visible :
       /\ IF answer = Visible THEN UNCHANGED faults ELSE Fault
       /\ run' = [run EXCEPT !.pc = "storing", !.answer = answer,
                             !.todo = answer \cap service.allowed]
  /\ UNCHANGED <<clock, published, stored, protocolState, finished, service,
                 covered, upgraded, unrecorded>>

\* Slip: a topic published at the very boundary counts as new.
PublishedBefore(t, boundary) == published[t] < boundary

\* wasPublishedByPreviousSuccessfulRun; 0: there is no such run.
WasPublishedBy(t, boundary) == boundary # 0 /\ published[t] <= boundary

\* How a topic that is not stored yet is stored (notificationStatusForNew).
StatusForNew(t) ==
  IF t \in Routine THEN "suppressed"
  ELSE IF run.seeding THEN "baseline"
  ELSE IF ~service.enabled THEN "disabled"
  ELSE IF WasPublishedBy(t, run.prev) THEN "historical"
  ELSE "pending"

\* Slip: the notification status is computed anew for every topic.
UpsertAgain(t) ==
  /\ run.pc = "storing" /\ t \in run.todo
  /\ stored' = [stored EXCEPT ![t] = StatusForNew(t)]
  /\ run' = [run EXCEPT !.todo = @ \ {t}]
  /\ UNCHANGED <<clock, published, protocolState, finished, service,
                 covered, upgraded, unrecorded, faults>>

\* One turn of the loop.  The upsert of a topic that is stored already may update
\* its title, never its notification status.  A new alert is sent before the next
\* turn (NotificationDelivery); should that throw, the record stays pending.
Upsert(t) ==
  /\ run.pc = "storing" /\ t \in run.todo
  /\ stored' = [stored EXCEPT ![t] = IF @ = "absent" THEN StatusForNew(t) ELSE @]
  /\ run' = [run EXCEPT !.todo = @ \ {t}]
  /\ UNCHANGED <<clock, published, protocolState, finished, service,
                 covered, upgraded, unrecorded, faults>>

\* Slip: the minimum is compared with the topics of allowed publishers.
EnoughAllowed == Cardinality(run.answer \cap service.allowed) >= MinFetched

EnoughFetched == Cardinality(run.answer) >= MinFetched

\* markBaselineComplete, if this was a baseline that met the minimum.
CompleteBaseline ==
  /\ run.pc = "storing" /\ run.todo = {}
  /\ protocolState' =
       IF run.seeding /\ EnoughFetched
       THEN [status |-> "complete", completedAt |-> clock] ELSE protocolState
  /\ run' = [run EXCEPT !.pc = "marked"]
  /\ UNCHANGED <<clock, published, stored, finished, service, covered, upgraded,
                 unrecorded, faults>>

\* The finished run is recorded as a success and runningProtocols.delete.
RecordSuccess ==
  /\ run.pc = "marked"
  /\ finished' = [finished EXCEPT !.success = clock]
  /\ covered' = covered \cup run.answer
  /\ run' = NotRunning
  /\ UNCHANGED <<clock, published, stored, protocolState, service, upgraded,
                 unrecorded, faults>>

\* Whether the end of a run here leaves a baseline that is complete without a
\* successful run.
LosesSuccess == run.pc = "marked" /\ run.seeding /\ protocolState.status = "complete"

\* Slip: without the finally block the protocol stays marked as running.
ThrowKeepsRunning ==
  /\ run.pc # "idle" /\ Fault
  /\ run' = [run EXCEPT !.pc = "thrown"]
  /\ finished' = [finished EXCEPT !.failed = clock]
  /\ UNCHANGED <<clock, published, stored, protocolState, service, covered, upgraded,
                 unrecorded>>

\* Any await throws: the run is recorded as failed unless that throws, too.
Throw ==
  /\ run.pc # "idle" /\ Fault
  /\ run' = NotRunning
  /\ finished' \in {finished, [finished EXCEPT !.failed = clock]}
  /\ unrecorded' = (unrecorded \/ LosesSuccess)
  /\ UNCHANGED <<clock, published, stored, protocolState, service, covered, upgraded>>

\* The process ends and starts again, perhaps with another configuration.
Restart ==
  /\ Fault
  /\ run' = NotRunning
  /\ service' \in Service
  /\ unrecorded' = (unrecorded \/ LosesSuccess)
  /\ UNCHANGED <<clock, published, stored, protocolState, finished, covered, upgraded>>

\* A topic appears, later than every timestamp taken so far.
Publish(t) ==
  /\ published[t] = 0
  /\ clock' = clock + 1
  /\ published' = [published EXCEPT ![t] = clock']
  /\ UNCHANGED <<stored, protocolState, finished, service, run, covered, upgraded,
                 unrecorded, faults>>

RunStep ==
  \/ Begin \/ FindBaseline \/ Fetch
  \/ \E t \in Topics : Upsert(t)
  \/ CompleteBaseline \/ RecordSuccess

Next == RunStep \/ Throw \/ Restart \/ \E t \in Topics : Publish(t)

Spec == Init /\ [][Next]_vars

\* The fetch cron calls run again and again, and the event loop carries every run
\* on.  Nothing obliges anybody to publish; exceptions, restarts and incomplete
\* answers end with the budget of faults.
FairSpec == Spec /\ WF_vars(RunStep)

-------------------------------------------------------------------------------
\* Every variable has its type, and a run that seeds has left a baseline state.
TypeOK ==
  /\ clock \in Nat \ {0}
  /\ published \in [Topics -> Nat]
  /\ stored \in [Topics -> Stored]
  /\ protocolState \in [status : {"none", "seeding", "complete"}, completedAt : Nat]
  /\ finished \in [success : Nat, failed : Nat]
  /\ service \in Service
  /\ run \in Run
  /\ run.pc \in {"fetching", "storing", "marked"} => protocolState.status # "none"
  /\ covered \subseteq Topics
  /\ upgraded \in BOOLEAN /\ unrecorded \in BOOLEAN /\ faults \in Nat

\* The boundary between history and news: what was published until the baseline
\* was completed.
BaselineAlerted ==
  \E t \in Topics : /\ stored[t] = "pending" /\ ~upgraded
                    /\ published[t] <= protocolState.completedAt

\* "An interrupted or unexpectedly empty first fetch remains in seeding state so
\* its retry cannot spam historical proposals": what was published before the
\* baseline was completed is never alerted, however often that was tried, with
\* whatever answers and configurations ...
BaselineStaysSilent == ~BaselineAlerted

\* ... except after one interruption: the run that completed the baseline ended
\* before its success was recorded.
BaselineSilentOnceRecorded == unrecorded \/ ~BaselineAlerted

\* A topic that is stored silently as historical had been published when a
\* successful poll ended: failed polls move no boundary.
HistoricalIsCovered ==
  \A t \in Topics : stored[t] = "historical" => published[t] <= finished.success

\* What becomes an alert was published after the last successful poll, whatever
\* happened to the polls since.
AlertsAreNews ==
  [][\A t \in Topics :
       stored[t] # "pending" /\ stored'[t] = "pending" => published[t] > finished.success]_vars

\* A topic is stored as an alert or as silent history once and for all, although
\* every later poll stores it again under another boundary and configuration.
VerdictIsFinal ==
  [][\A t \in Topics : stored[t] # "absent" => stored'[t] = stored[t]]_vars

\* A topic of an allowed publisher is stored in the end, unless its publisher
\* is not allowed any more: no failure leaves the protocol marked as running.
EveryTopicStored ==
  \A t \in Topics :
    published[t] > 0 /\ t \in service.allowed
      ~> stored[t] # "absent" \/ t \notin service.allowed

\* A baseline that is being seeded completes, if the forum lists enough topics.
SeedingEnds ==
  Cardinality(History) >= MinFetched =>
    (protocolState.status = "seeding" ~> protocolState.status = "complete")

\* "Topics published after that successful poll still notify normally": what is
\* stored silently as historical had been listed by a successful poll before, so
\* that only an expansion of the allowlist can bring it up.
HistoricalWasListed ==
  \A t \in Topics : stored[t] = "historical" => t \in covered
===============================================================================
