# Verification of governance-tracking

This directory holds TLA+ models of the governance tracker in `src/`, the TLC runs
that check them on small instances, and TLAPS proofs of what holds for every
instance. `PROJECT.json` lists which lines of the source each definition stands
for (`map`), the runs, the hazards the properties were chosen for, the
disagreements between code and documents that the runs show (`findings`), and the
theorems. Paths below are relative to the repository (`src/...` is its root).

## 1. Inventory

The tracker polls governance forums (Lido, Aave, CoW, Uniswap) and Uniswap's
Governor contracts, stores what it finds in Firestore (or in memory), and tells a
fixed list of Telegram users about new proposals and about lifecycle events of
on-chain decisions. One Node process runs cron jobs and a small HTTP API. All
concurrency is cooperative: between two `await`s nothing else of the process runs;
Firestore transactions are the only synchronization between processes.

| Component | Source (`src/src/`) | State it keeps | Operations | Correct when |
|---|---|---|---|---|
| Per-record lock | `notifications/proposalNotifications.ts` 108-123, 648-669 | `proposalLocks`: Map from record id to the promise of its last call | `withProposalLock` | one action at a time per record, in order of the calls, no entry left behind, no call waits for ever |
| Notification dispatcher | `notifications/proposalNotifications.ts`, `notificationDeliveryState.ts` | per record: `notificationStatus`, one delivery per recipient (status, attempts, next retry); per process: `recoveryRunning` | `notifyNewProposal`, `recoverOutstanding` | every recipient gets each alert, once unless an outcome was lost; the aggregate status never hides an owed delivery; nobody outside the configuration is messaged; closed records stay quiet; backoff is kept; all of it through crashes |
| Telegram alert service | `notifications/telegramNotification.service.ts` | none | `send` | returns only when Telegram said `ok: true` |
| Forum fetch job | `jobs/fetchProtocolGovernance.job.ts` | `runningProtocols` | `run` per protocol: baseline or poll, upsert and notify each topic | history is stored silently, what was published after the last successful poll alerts once, a failed poll changes no boundary |
| Protocol baseline state | `storage/protocolState.repository.ts` | per protocol `seeding`/`complete`, started at, completed at | `initializeBaseline`, `markBaselineComplete` | a baseline completes only after a poll of its whole history, and never un-completes |
| Fetch run history | `storage/fetchRun.repository.ts` | run records with status and times | `create`, `update`, `findLatestSuccessful` | only successful runs count as boundary |
| Proposal repositories | `storage/firestoreProposal.repository.ts`, `memoryProposal.repository.ts`, `proposal.repositoryUtils.ts` | proposals by source identity | `upsert`, `updateNotificationState`, queries | one record per source topic, first-seen data and notification state survive edits |
| On-chain scan job | `onchain/onchainGovernance.job.ts`, `.coverage.ts`, `.validation.ts` | per governor: cursor, baseline target, replay mode, coverage gaps | `run`: head, ranges of 10,000 blocks, decode, synchronize, advance cursor | every block up to the cursor has been processed; replays lose and repeat no event |
| Decision lifecycle | `onchain/governanceDecision.ts`, `uniswap/*` | decisions (state, votes, stages) | merge of observations, `deriveGovernanceTransitions` | the event history is a function of the final decision, however it was sampled |
| Governance repository | `storage/governance.repository.ts` | decisions, events, event notification state | `upsertDecision`, event queries | a transition becomes an event exactly once, silently during the baseline |
| Source activity watchdog | `sourceActivity/*`, `storage/sourceActivity.repository.ts` | status, age and stale runs per forum | `updateSourceActivity`, `computeSourceActivityStatus` | a forum that was read completely is judged by its newest topic; one read in part is never called healthy without a reason |
| Discourse clients, adapters | `protocols/discourse/*`, `protocols/{lido,aave,cow,uniswap}/*` | none | requests with retries, pages, `fetchRecent` over the global feed and the categories | bounded requests, every poll ends, a topic that stays put is listed though others move |
| Eligibility and policy | `protocols/allowlist.ts`, `protocols/aave/aaveNotificationPolicy.ts` | none (pure) | allowlist, policy by title | - |
| Scheduler, process | `scheduler/scheduler.ts`, `index.ts` | cron tasks | start, stop, graceful shutdown | recovery is scheduled whenever sending is enabled |
| Admin status report | `adminStatus/*` | none | `send`: some dozen queries, one message | "OK" means that nothing was wrong throughout, an alarm that something was |
| HTTP API, configuration, demo | `api/`, `config/`, `demo*.ts` | none | handlers that call the jobs, parsing at start | - |

How they interact: a cron tick or an API call starts a fetch or a scan; the job
upserts records through a repository transaction and, when the upsert created a
record that is not silent, calls `notifyNewProposal` and waits for it. A second
cron runs `recoverOutstanding` over the same records. One dispatcher class serves
both kinds of record (proposals and lifecycle events), one instance each, so a record
in the models may be either. Fetch job and dispatcher meet in the notification
state of the record; scan job and dispatcher in that of the event.

What is hard: two jobs of one process at the same record between awaits; two
processes (a rolling deployment, a replica) at the same store; transactions whose
closure writes a state computed from an earlier read; a crash between Telegram's
answer and the write that records it; deliveries that outlive the list of
recipients; boundaries in time that are taken at a different moment from the data they
bound; scans that stop halfway. `PROJECT.json` lists each at its line.

## 2. What is modelled

The modules and what they take from each other:

| Module | Models | Uses |
|---|---|---|
| `Mutex`, `ProposalLock` | the lock, abstract and as written | `ProposalLock` implements `Mutex` |
| `NotificationDelivery` | dispatcher, recovery, Telegram service | the exclusion that `ProposalLock` proves |
| `ForumFetch` | fetch job, baseline state, run history | an answer of the adapters is a set of topics |
| `ForumSource` | adapters, pages, requests, watchdog | what `ForumFetch` takes for an answer |
| `Governor`, `GovernanceDecision` | the contract; observations, merges, transitions, without state | - |
| `GovernanceLifecycle` | one decision, concurrent scanners | `GovernanceDecision` |
| `OnchainScan` | the scan job and its source | `GovernanceDecision` |
| `AdminReport` | the daily report | what the jobs do to the stores |

### The lock: `ProposalLock`, `Mutex`, `ProposalLock_proofs`

`withProposalLock` is four pieces of code between awaits. `Call` is everything up to
`await previous` (get the previous promise, create an own one, set the Map entry);
`Enter` is the continuation when the previous promise is resolved; the action then
runs; `Leave` is the `finally` block (resolve the own promise; delete the entry
only if it is still the own one). A promise is named after the call that made it. The lock
of one record is modelled: entries of different records never meet.

`Mutex` is what callers rely on: one queue, whose end a call joins when it asks, and
whose head alone may enter, and leaves the queue when it is done. `ProposalLock`
implements it under the mapping `queue <- Queue`: the calls present, in the order of
their tickets, which `Call` draws and the code does not have (`ImplementsMutex`). A call that entered
before its turn, while nobody is inside, would break the refinement and not the exclusion.

### Delivery: `NotificationDelivery`, `NotificationDelivery_proofs`

State. `store` is the notification part of each record: aggregate status and a
delivery per recipient. `task[p][j]` says at which await job `j` of process `p` stands,
where job 0 is the recovery run and job `r` the notification that follows the
creation of record `r`. `scan[p]` is what a recovery run has read of the
store. `config[p]` is the list of recipients the process was started with;
`policy[r]` what the notification policy says of the record's current
title. `copies` and `doubt` are not in the code: they count messages that reached a
chat and sends whose outcome the service did not learn or record.

| Code | Actions |
|---|---|
| upsert that creates a record (both jobs), start of `notifyNewProposal` | `Publish` |
| `notifyNewProposal`, lock to first read | `NotifyRead` with `Decide` |
| `recoverOutstanding`: start, two concurrent queries, loop, end | `RecoverStart`, `RecoverQuery`, `RecoverRead` with `Decide`, `RecoverEnd` |
| transaction of `initializeDeliveries`, `reconcileRemovedRecipients`, `suppressNotification` | `WriteState`, which stores `plan`, the state computed at the earlier read |
| `attemptRecipient`: count the attempt, send, record | `PrepareAttempt`; `SendAccepted`, `SendRejected`, `SendTimedOut`; `RecordSent`, `RecordSentFails`, `RecordFailed` |
| last read, lock released | `Release` |
| a read or transaction throws and nobody catches | `StoreError` |
| crash or `process.exit`, new process with perhaps other recipients | `Restart` |
| a later fetch stores an edited title | `Edit` |

Decisions of the abstraction, each with its reason:

- A job holds the lock exactly while its `pc` is in `Locked`; `LockFree` is the
  guard that `ProposalLock` justifies. The lock is per process, the store is shared.
- Retry times: `RETRY_DELAYS_MS` is `<<1, 2>>` in the runs (the code has four
  growing delays); what matters is that a delay exists, that later ones are
  longer, and that the last one repeats. `retryAt = 0` is an absent `nextRetryAt`.
  `attemptRecipient` takes the time twice; the model uses the one of the run.
- `legacy` holds who was attempted for an old failed record and whom its error text names as failed. The text
  names them by position and masked id (`MaskedId`, the last four digits), and `buildLegacyDeliveries` takes for them whoever
  is configured at these positions now. `Identifies` says which sets of configured recipients that may be: as many as failed, with the
  masked ids of those that failed, each of which only one configured recipient has (with a single recipient the id may be missing).
  The order of the list is not kept, so positions that do not fit, and then a record closed without resending, stay possible
  (`LegacyOutcomes`). Two things may go wrong, each excepted by name in one property. A recipient who was configured later, in the place of
  a removed one, may be called "sent" (`SentWasDelivered`). And a recipient who has the masked id of one that failed may be taken for that
  one (`Mistakable`, in `DuplicatesAreDoubts`): of a list [A, B] with equal masked ids A failed, now the list is [B, D], and B gets a
  second copy. That is contrary to `src/README.md:542`, where such records are closed to avoid a guessed recipient.
- The second reconciliation in `recoverProposal` never has anything left to
  do (the first one has just been written) and is not a separate step.
- `Decide` keeps the branch for an empty list of recipients, although a service that
  is built at all has one (the Telegram service insists on it, the recovery
  cron is scheduled only when sending is enabled).
- A transaction either commits or leaves nothing. A commit whose answer is lost is
  not modelled.
- `Edit` waits until the record's notification has ended, because
  `runningProtocols` keeps the next fetch of that forum away until then.
- `MaxFaults` bounds failures, restarts and edits together. `Tick` stops at the last retry
  still to come, so time is bounded without a constant.

### Forum fetch: `ForumFetch`, `ForumFetch_proofs`

One protocol, one process. State: `published` (the forum), `stored` (the record of each
topic: absent, pending, or skipped with the reason why), `protocolState` (baseline
status and `baselineCompletedAt`), `finished` (when the newest successful and the newest
failed run ended), `service` (allowlist and whether sending is enabled), `run` (where the
run of `runningProtocols` stands). History variables: `covered`
(topics a successful poll has listed), `upgraded` (the database is older than
the baseline state), `unrecorded` (a run completed the baseline but ended before its
success was recorded).

| Code (`FetchProtocolGovernanceJob.run`) | Actions |
|---|---|
| running guard, `findLatestSuccessfulByProtocol`, record of the running run | `Begin` |
| `findByProtocol`, `existsForProtocol`, `initializeBaseline` | `FindBaseline` |
| `fetchRecent`, source activity, `filterByPublisherPolicy` | `Fetch` |
| one turn of the loop: policy, `historicalSeed`, `upsert`, `notifyNewProposal` | `Upsert` with `StatusForNew` |
| `markBaselineComplete` | `CompleteBaseline` |
| record of success, `finally` | `RecordSuccess` |
| `catch`, `finally`; recording the failure may fail, too | `Throw` |
| exit and start with another configuration | `Restart` |
| somebody posts | `Publish` |

- `FindBaseline` dates the baseline of an older database by the start of the run (`startedAt`, taken in `Begin`), as the code does,
  and not by its own time: a topic published in between is newer than that baseline.
- Reads that only another run could invalidate are joined with the step that uses
  them, since `runningProtocols` keeps other runs away. Two replicas are not modelled.
- Time advances with each published topic only: the model compares publication times with
  timestamps of the service, and two timestamps between the same two topics
  compare alike. A topic created after a timestamp but in the same millisecond is left
  out.
- An answer is any subset of the visible topics: Discourse lists by last activity,
  a page after the first may fail without an exception, the number of pages is
  bounded. Incomplete answers count as faults.
- Sending is `NotificationDelivery`'s business: here an alert is a record that was created
  `pending`; whatever becomes of the notification, it is delivered from there.

### Lifecycle of a decision: `Governor`, `GovernanceDecision`, `GovernanceLifecycle` and two modules of proofs

`Governor` is the contract, which is not in the repository: the life of a proposal as
a record of blocks, the state and the logs it shows at any block. `IsLife` is what
the consistency checks of `uniswapOnchain.codec.ts` rely on. Finalized blocks do not change, so
a life is fixed in `Init` and only `head` moves.

`GovernanceDecision` has no state. It is `getDecision` with its checks, `mergeGovernanceDecision`,
`deriveGovernanceTransitions` and what the transaction of `upsertDecision` does to the events,
as operators that both state machines below use.

`GovernanceLifecycle` is one proposal and several scanners. State: `life`, `head`, the
stored `decision` and `events`, `cursor` (how far the logs are stored), `scanner` (the observation
each scanner has made and not written yet). History: `synced`, `refused`.

| Code | Actions |
|---|---|
| a range of `scanBlockRanges` that holds logs of the proposal: `findDecisionById`, `getDecision` | `ScanRange` with `Observe` |
| `refreshActiveDecisions`: the same without logs | `Refresh` with `Observe` |
| the transaction of `upsertDecision`, accepted or thrown | `Upsert`, `Refuse` |
| the run fails or the process ends in between | `Abandon` |

- Numbers of votes are kept as "there are votes" and whether they carry; title, actions and
  addresses do not change and are left out; a transaction is named by its block;
  a queue and a cancellation in one block are still told apart, since a decision keeps one block for each type.
- `EventsMatchDecision` has one exception, which the code has: the event of an expiry that was
  observed stays when the proposal is canceled later, while a scan that sees only the
  cancellation creates none. Nothing in the contract logs an expiry.
- Reads of one observation are pinned to one block, so an observation is one step. The block is the head that the run named at its
  start: `Observe` takes any block from 1 to the current head, so an observation may be old when it is made, and older still when
  its transaction runs.

### The scan: `OnchainScan`, `OnchainScan_proofs`

One source, one process. State: `decisions`, `events` (by proposal), `source` (baseline status, replay
mode, target and count of the baseline, cursor, last success), `scan` (where the run stands). History:
`omitted` (logs a provider left out), `completed`, `repaired`. The database is empty at first, or
what an older version left in it (`LegacyDatabase`): the same records without the numbers of proposals.

| Code (`OnchainGovernanceScanJob`) | Actions |
|---|---|
| `run` up to the branch: `validateSource` (`LatestFinalized`), `initializeSourceState` and `ensureProposalBoundaryState` (`Prepared`), the assertions (`Admitted`) | part of `BeginBaseline`, `BeginRepair`, `BeginLive`; `BeginRefused` when an assertion throws after the state was prepared |
| the branch: the source is being seeded, has gaps, is established | `BeginBaseline`, `BeginRepair`, `BeginLive` |
| `scanBlockRanges`: `getEvents`; one decision; cursor | `GetEvents`; `SyncNext`; `EndRange` |
| `refreshActiveDecisions` | `RangesDone`, `RefreshNext`, `RefreshDone` |
| end of `completeHistoricalBaseline` | `BaselineIncomplete`, `CompleteBaseline` (then the catch-up) |
| `assertLiveCoverage` | `LiveIncomplete`, or on to |
| the end of `run` | `RecordSuccess` |
| anything throws, or the process ends | `Abort` |

- A run is pinned to the finalized head of the provider that answers. A provider that lags behind may name
  an older one than an earlier run has seen (a fault): such a run is refused if its head is behind the cursor,
  the target or a stored proposal, and otherwise goes on with decisions that are ahead of it.
- `synchronizeDecision` is one step here, since `runningSources` keeps a second run of the process
  away; two writers are the subject of `GovernanceLifecycle`.
- The head moves between runs only: a run never looks at it again.
- An answer may lack one of its logs (a fault). `validateGovernanceEvents`, the checks of the contract's
  identity and that of the hash of the cursor block fail the run, which `Abort` covers.
- Two cases from which the code does not recover are named in the properties. `LaterCancellation`: a
  provider left the first of two cancellations out, the second was stored, and from then on the event names
  the wrong transaction and every run that reads the first cancellation is refused (`Stuck`). `Still`: a
  baseline that is seeded again keeps its target, so a proposal of it with a log behind the target keeps it
  from completing (see the finding on `onchain_livelock`). The upgrade of an older database has a case of its own: a
  complete source gets the number of proposals of now and keeps its target and cursor of then. A proposal
  created in between belongs to the baseline, is not stored, orders a repair, and lies behind
  the target: the source is seeded for ever without any failure, contrary to `src/README.md:208`. `BaselineCompletesIfStill` and
  `LiveReplayEnds` except these cases by name and show that, in the instances checked, they are the only ones.

### The forum as it is read: `ForumSource`, `ForumSource_proofs`

One protocol's adapter, one poll after the other, and the forum under it. State: `adapter` (Lido reads the
global feed only; Aave, CoW and Uniswap go on with the public categories, by the same code up to names),
`bumped` (a stamp of the latest activity of each visible topic), `published` (their days), `day`, `poll` (which page of which feed,
the items so far, how many feeds could be read), `request` (attempt and time spent), `activity` (status in the
watchdog's record). History: `seen`, `moves`.

| Code | Actions |
|---|---|
| `fetchRecent`: first request | `StartPoll` |
| `collectDiscourseTopicPages`: a page; the list of categories | `PageAnswered`, `SiteAnswered` |
| `fetchDiscourseJson`: 408, 429, 5xx; no response or a timeout; any other answer | `Unavailable`, `Unreachable`, `Refused`: each either `Retry` or `GiveUp` |
| end of `fetchRecent` and `updateSourceActivity`; no feed could be read | `PollSucceeds`; `PollThrows` |
| Discourse meanwhile: a post, an answer, a deletion | `Post`, `Answer`, `Delete` |
| a day passes between polls | `NextDay` |

- Discourse lists a feed by the latest activity: the position of a topic is the number of topics of the feed with a later stamp
  (`Before`), and a page is a range of positions. A stamp is a number that only grows (`Now`).
- Requests have two attempts in the run (three in the code), so that every branch of an attempt (retried, last) occurs.
- Two topics are the same if they have the same number; which of two titles is kept does not matter here.
- The number of consecutive stale runs and the latest topic's name, which are stored for the report, are left out.
- `RestingTopicsAreListed` states what the second feed is worth: a topic slides past the reader if another is
  deleted, or the topic itself moves to the front, between two pages; each feed read to its end makes up for one such move.

### The daily report: `AdminReport`, `AdminReport_proofs`

State: what a report can tell apart in the stores (`runs`, `delivery`, `activity`, `source`, `scanRun`), the configuration
(`config`), and `report`: at which query it stands and what the earlier ones answered. History: what has been wrong
since the report began (`lasting`), at some time since (`ever`), and the records attempted anew (`retried`).

| Code | Actions |
|---|---|
| `buildAdminStatusReport`, in the order of its queries (`Following`) | `BeginReport`, `ReadRuns`, `Counts`, `ReadDetails`, `ReadActivity`, `ReadSource`, `ReadScan`, `ReadLatest` (a protocol without a run among the newest), `Evaluate` |
| `readReportSection`: a query throws | the second disjunct of `Query` |
| `TelegramAdminStatusNotifier.send` | `EndReport` |
| fetches, scans, deliveries and the watchdog meanwhile | `StartFetch`, `FinishFetch`, `Deliver`, `JudgeActivity`, `Scan`, `GrowOld` |

- `ReportIsHonest` has one exception, which the code has: a failed record that a recovery run begins to retry
  is pending until the attempt ends, and pending records are counted before failed ones. If it is failed at the first count and
  pending at the second, the report says "OK" although the alert is undelivered. That disagrees with `src/README.md:558`, which
  says that such failures stay visible while the delivery is unresolved.
- The checks of the configuration and the wording of the message are left out.

## 3. The runs

| Run | Instance | What it shows |
|---|---|---|
| `proposal_lock` | 5 calls | exclusion, no leaked entry, progress of every call, refinement of `Mutex`, whose one queue is served in the order of the calls. Five calls are enough for an entry to be deleted and made anew while earlier calls wait. |
| `delivery_single` | 1 process, 2 records (one legacy), 3 recipients (`a` and `b` with the same last four digits), configured as {}, {a}, {c}, {a, b} or {b, c}, 2 faults | all safety properties of delivery: `NothingStranded`, `DuplicatesAreDoubts`, `SentWasDelivered`, `OnlyConfiguredContacted`, `SentIsFinal`, `SkippedIsQuiet`, `BackoffRespected`. Two records make the order of a recovery run matter, two configured recipients partial delivery, three a legacy failure that is taken for another recipient, two faults a crash during the recovery from a failure. |
| `delivery_recovers` | 1 process, 2 records, fair, 1 fault, one record per scan | `EventuallySettled`: whatever was interrupted, recovery gets to it, also when a scan returns one record at a time. |
| `delivery_duplicates` | 2 processes, 1 record, no fault | `DuplicatesAreDoubts` is violated, see below. |
| `forum_fetch` | 3 topics (one with a suppressed title, one published later), minimum 2, any configuration, empty or older database, fair, 2 faults | `BaselineSilentOnceRecorded`, `HistoricalIsCovered`, `AlertsAreNews`, `VerdictIsFinal`; `EveryTopicStored` and `SeedingEnds`: nothing leaves the protocol marked as running or seeding. Two faults are enough for a baseline that is answered incompletely and loses its record of success. |
| `forum_source` | 3 topics and one to come, 2 categories, pages of 1, 2 moves of the forum, 3 days, both kinds of adapter, fair | `RestingTopicsAreListed`, `WatchdogIsRight`, `PollEnds`, and how long a request takes (`RequestIsBounded`). Pages of one topic put a page boundary between any two; with two moves one feed is not enough and two are sometimes not. |
| `forum_lost_alert` | no fault | `HistoricalWasListed` is violated, see below. |
| `forum_baseline_alerted` | 1 fault | `BaselineStaysSilent` is violated, see below. |
| `governance_lifecycle` | 2 scanners (one silent), 17 lives up to block 6: voted or not, passed or not, queued, expired or executed, canceled before the vote, in and after its last block, with the queue, after it and after the expiry, two of them again in the last block; observations of any age | `EventsMatchDecision`, `EventsHappened`, `SamplingForgotten`, `OnlyStaleRefused`, `EventsStay`. Six blocks give every stage of a life a block of its own and leave one for a cancellation after it. |
| `onchain_scan` | 2 proposals in 4 histories, one with two cancellations; 6 blocks in ranges of 3, overlap 1; a new database, or one left by an older version at block 2 or 4; fair, 2 faults | `CursorCovers`, `HistoryIsSilent`, `NewsIsAnnounced`, `SuccessesAreComplete`, `BaselineCompletesIfStill`, `LiveReplayEnds`. Two ranges are needed for a run to break off between them, two faults for a baseline that is both resumed and answered incompletely. |
| `onchain_livelock` | the histories without cancellations, a new database | `BaselineCompletes` is violated, see below. |
| `admin_report` | 2 protocols, 1 proposal, 1 event, the newest run only in the first query, 2 changes or failed queries | `ReportIsHonest`. Two changes are enough for a store to be wrong, right and wrong again between two queries. |

Deadlock is checked except in three runs. `proposal_lock`: all calls are over. `delivery_single`: a process
whose sending is disabled and whose records are all closed has nothing to do until somebody publishes.
`governance_lifecycle`: a proposal whose decision is terminal at the last block is not looked at again.

**Finding.** `src/README.md:79` grants that several schedulers duplicate polling
and audit records, and `src/README.md:542` says that recipient state keeps a user from
receiving a proposal again. `delivery_duplicates` shows 12 steps without any failure after
which a recipient has the alert twice: the recovery run of one process finds the
record pending while the other process is sending it.

**Finding.** `src/README.md:291` and `:297` say that a topic is inserted silently only
for the baseline or when the allowlist was expanded, and that topics published
after the last successful poll alert. The boundary is `finishedAt`, taken after the
last topic was stored and its alert sent, but the list was read before that. A
topic that appears in between is stored silently by the next poll: `forum_lost_alert`
shows it without any fault.

**Finding.** `src/README.md:295` says that an interrupted first fetch cannot make its
retry alert on history. `forum_baseline_alerted` interrupts it between
`markBaselineComplete` and the record of success: the next run finds a complete
baseline and no successful run, which counts as no boundary, so it alerts on
historical topics that were not stored yet (a publisher added at the restart, a page that
had failed). `BaselineSilentOnceRecorded` shows, and `BaselineSilent` proves, that this is the
only interruption that does it.

**Finding.** `src/README.md:206` says that the first scan is resumable after a failure. The target
of the baseline is fixed by the first run, but each run observes decisions at its own head. `onchain_livelock`: the
first run breaks off, a proposal of the baseline is queued, the next run stores it as queued while
its range ends before the log of the queue; the coverage check then resets the cursor and keeps the target, for ever.
`BaselineCompletesIfStill` shows that, in these instances, this is the only way: the baseline completes unless a stored or
historical proposal has a log after the target that is not recorded.

Every property of a passing run is paired with a slip of the code that breaks
it (`mutants`): the slips are the operators that stand before the definitions they
replace, under a comment that starts with "Slip".

## 4. Fairness

The event loop runs every continuation that can run; timers and the cron fire as
long as the process lives: weak fairness of every step of a job, of `RecoverStart`
and of `Tick`. The first step of a job under the lock has strong fairness: the lock
is handed over in the order of the calls (`ProposalLock`), so a waiting job is not
passed for ever. Nothing is assumed of creation, edits, restarts and failures,
except that failures end (`MaxFaults`).
In `ForumFetch` the steps of a run are fair together (cron starts runs again and again) and
`Publish`, `Throw` and `Restart` are not.
In `OnchainScan` the steps of runs are fair together (the cron starts one every six hours, and a step that does not
fail is followed by the next); `Finalize` and `Abort` are not.
In `ForumSource` the steps of a poll are fair together (`PollStep`: a request is answered, refused, or aborted by its
timeout); that polls start, that anything is ever answered, and what the forum does, is not assumed.
In `ProposalLock`, `Enter` and `Leave` are fair (a promise that is resolved runs
its continuation; an action ends, because sends and transactions have
timeouts) and `Call` is not.

## 5. Proofs

`ProposalLock_proofs`, for any set of calls: `TypeCorrect`, `Exclusion`, `Order`,
`Tidy`, `Refinement`. The argument: the calls between `await` and their `finally`
form a chain, each waiting for the promise of its predecessor, and the Map entry, if any,
is the last link; from the chain follow order and exclusion. The tickets of the calls that are present are consecutive, so
`Queue` lists them without a gap, and the head of the chain is its first (`Refinement`); `Leave` removes the
first link, so it may delete the entry exactly if it is also the last.

`NotificationDelivery_proofs`, for any processes, records, recipients, delays and
number of faults: `TypeCorrect`, and `NeverStranded`, which says that the aggregate
status on which the recovery query selects always agrees with the
deliveries. `NothingStranded` is not inductive: `WriteState` stores a plan computed
at an earlier read, whatever the record has become. The inductive invariant
`DeliveryInv` therefore asks the same consistency of every plan a job carries, and a
little more of a consistent entry (a record with deliveries has a status).

`OnlyConfigured`, for any processes with different, changing lists of recipients: what a job takes from the store to
deliver, or decides to write, owes nothing to anybody its own process was not started with (`AllInConfig`), however the
store looks by then.

The other theorems about delivery assume that there is one process (`OneProcess`), for any records, recipients, delays and
number of faults: `NoDuplicates`, `SentDelivered`, `SentFinal`, `SkippedQuiet`, `BackoffKept`. With two processes the first
is false (`delivery_duplicates`), for the lock is per process. The invariant `SingleInv`: of two jobs one has a record
(`OneLock`); for every recipient the state of the delivery accounts for copies and doubts (`Account`: an unresolved delivery
has no more copies than doubts, unless a job holds the answer that will resolve it, or the recipient is `Mistakable`); and what a job is about to write, and to
whom it is about to send, fits the record as it is now, not only as it was read (`Fits`, `Works`); a recovery run knows of
nothing closed that is still open in the store (`ScanOpen`).

`ForumFetch_proofs`, for any topics, minimum, configurations and number of faults:
`TypeCorrect`, `SilentHistoryCovered`, `BaselineSilent`, `OnlyNewsAlerted`,
`VerdictsKept`. The invariant `FetchInv` adds three facts to the properties: nothing
stored or timed lies in the future (`TimesInOrder`); what a run has read is still true
when it is used (`RunIsCurrent`: its boundary is the last success, a seeding run finds the
baseline seeding until it completes it itself); and before a baseline is complete there
are no alerts while afterwards a success that is no older has been recorded, but for
the run that is about to do so or was kept from it (`BaselineBounded`).

`GovernanceDecision_proofs` holds what one observation does, for any life, logs and stored decision, as lemmas without
state: what `getDecision`, the merge and the derivation of transitions return, when a transition took place
(`Moments`), what is later than what (`StatusFollows`, `StateBetween`).

`GovernanceLifecycle_proofs` has the theorems, for any scanners, lives and number of blocks.

- `TypeCorrect`, `EventsMatch`, `EventsPersist`. `EventsMatchDecision` is not inductive, because what an upsert derives
  depends on the observation a scanner holds. `LifecycleInv` adds that every decision and
  every observation, however old, fits the life (`QueueFits`: a canceled proposal that was queued has its ETA,
  an active one has none), that the vote outcome fits the status (`VoteFits`), and that an event with a
  transaction is dated by it (`EventsDated`). The lemma `TransitionsDerived` then goes through the status of
  the old decision: what the new one stands for and the old one did not is derived.
- `EventsTrue`. `ChainInv` adds that all that is stored or held took place (`Happening`), and that the first
  cancellation is known to whatever has been read as far as it (`CancellationKnown`). The second is why the cancellation that
  is stored is never a later one, and without it the vote of a canceled proposal could be resolved wrongly.
- `Forgotten`. `SampleInv` adds that the stored decision is the state of the chain at every block from its own to the
  newest observed one (`Sampled`: an upsert that changes nothing keeps the older block), that every log that was
  read is named by the store or by the scanner that read it (`LogsKept`), and that nothing is left open of a vote that can be
  resolved (`VoteResolved`).
- `StaleOnly`. `RefusedInv` adds that what is stored, and what scanners hold unless something newer has been stored, took place by the block it
  was observed at and passes `DecisionObservationValid` (`StoredInItsTime`, `InItsTime`). Without the exception it is not invariant: an
  observation at an old head is merged with what is stored, which may be ahead of it. The lemma `NothingRefused` goes through the
  checks of the merge: against a decision that is the state of the chain at some block, an observation of the same or
  a later block passes each of them, and `EventsTrue` says that no transaction of an event would change.

`OnchainScan_proofs`, for any histories, heads, ranges, overlaps and numbers of faults:

- `TypeCorrect` and `CursorCovered`. `CursorCovers` is not inductive: a run moves the cursor on the word of what it has read.
  `ScanInv` adds `RangeSound`: where a run is within a range, the range goes on from the cursor or overlaps it, and each of its
  logs is stored, still to be stored, or was left out by the provider.
- `StoreTrue`, `BaselineKnows`, `Silence`, `News`, `Successes`, from one invariant, `FullInv`. It says what is stored is true of
  the chain (`StoreSound`, with `Sound` and `EventsFit` of `GovernanceDecision_proofs`); where a run stands, and that what a
  range has read lies before its end (`RunSound`); that what a run has processed has the state of its block, and
  that from the refresh on everything else is terminal or still to be read (`RefreshSound`). From these follows what a baseline knows when it
  completes: every proposal and every transition up to its target (`HistoryKnown`), which is why a later scan that repeats those
  blocks derives nothing new from them (`Silent`); and nothing after its target (`Announced`), which is why nothing that
  happens later is lost in its silence. The last holds only as long as the baseline had not to be repaired, because a repair makes silent
  whatever was missed, as `NewsIsAnnounced` says. The completion of the baseline is the step in which all of them meet (`CompletedPast`);
  it needs that a terminal state is never left (`TerminalStays`), that a decision stands for every transition up to a block at
  which the proposal has its state (`AllImplied`), and for none after it (`NoneLater`).
- `Successes` follows from `FullInv` at the step that records a success: the logs of the answers are covered by the cursor, and
  those that were left out by the checks for missing references, but for a first cancellation.

`ForumSource_proofs`, for any topics, categories, feeds, page sizes and limits: `RequestsBounded`, `Listed`, `Watchdog`. `RestingTopicsAreListed`
speaks of the end of a poll. The inductive invariant (`Accounted`) keeps the account of every topic on the way: for each feed that was read to its
end without it, and for the pages of the feed being read that are already behind it (`Missed`), there is an answer to it or a deletion. The
argument is about positions: a post or an answer to another topic moves a topic back by at most one and never forward, so only
its own answer or a deletion takes it to a page that was read before; and on the last page everything behind has been listed. The arithmetic
of pages and the cardinalities of `Before` are lemmas of their own (`Products` and those that follow).

`AdminReport_proofs`, for any protocols, records, runs, limits and number of changes while the queries are made: `TypeCorrect`, `Honest`.
The invariant relates every answer the report holds to what was wrong since it began: `Account` (what has been wrong all the time is wrong
now, and what is wrong now has been wrong at some time), `FetchesShow`, `StatesShow`, and `CountsShow`, which is about two
counts made one after the other: a record that was undelivered all the time and not attempted anew is pending at the first count or failed at the
first and the second, so both counts being zero leaves none.

Assumed: `ConstantsAssumption` of the modules, which TLC evaluates in every run, and `OneProcess` where it says so.
Every invariant and action property of a passing run is a theorem. Only model-checked are the liveness properties
(`EventuallySettled`, `EveryCallEnters`, `EveryTopicStored`, `SeedingEnds`, `BaselineCompletesIfStill`, `LiveReplayEnds`, `PollEnds`):
they rest on fairness, that is on `ENABLED`, which is out of the prover's reach. That the feeds of a poll come to an end, for one, is checked with
pages of one topic, where a reader is overtaken most easily.

## 6. Not modelled

- Text: rendering and escaping of messages, names and titles in the allowlist and the notification policy, parsing of forum JSON and
  ABI data. The models take verdicts and values; `ForumFetch` and `NotificationDelivery` let the verdict of the policy vary.
- HTTP API: its handlers keep nothing between requests and call the same `run()` as the crons.
- Configuration: parsed once, before anything runs; what it may say is a constant or an initial choice.
- Demo scripts: not started by the service.
- Recovery backlog with a recipient that fails for ever: the scan takes the 1,000 oldest failed records before it drops those that are not
  due. `delivery_recovers` has the limits (one record per scan), with failures that end.
- Two replicas of the fetch job (`fetchProtocolGovernance.job.ts:104`): `src/README.md:79` asks for one active scheduler. Two replicas of the
  dispatcher and of the scan's writes are modelled.
- Health status and failure counters of sources and runs: they are stored for the report, and `AdminReport` lets them change freely.
