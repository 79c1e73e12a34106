------------------------- MODULE NotificationDelivery -------------------------
(***************************************************************************)
(* ProposalNotificationDispatcher (src/src/notifications): how an alert    *)
(* about one stored record reaches every configured Telegram recipient.    *)
(*                                                                         *)
(* A record is a forum proposal or an on-chain lifecycle event; both are   *)
(* delivered by an instance of the same class.  Two jobs of one process    *)
(* deliver it: the notification that follows its creation and the periodic *)
(* recovery.  A job is a sequence of awaits: each read or transaction of   *)
(* the store and each call of Telegram is a step of its own here, and the  *)
(* jobs of a process hold the record's lock from their first read to their *)
(* last (module ProposalLock models that lock).  Processes share nothing   *)
(* but the store.                                                          *)
(***************************************************************************)
EXTENDS Integers, FiniteSets, Sequences

CONSTANTS
  Processes,      \* the running copies of the service
  Records,        \* stored records, numbered in the order of firstSeenAt
  LegacyRecords,  \* those an earlier version left "failed", without deliveries
  Recipients,     \* opaque recipient keys
  NoOne,          \* no recipient
  MaskedId,       \* the masked id of each recipient: its last four digits
  RecipientSets,  \* what TELEGRAM_ALLOWED_USER_IDS may hold; {}: disabled
  RetryDelays,    \* RETRY_DELAYS_MS, a non-empty sequence of positive delays
  ScanSize,       \* NOTIFICATION_RECOVERY_SCAN_SIZE
  BatchSize,      \* NOTIFICATION_RECOVERY_BATCH_SIZE
  MaxFaults       \* bound: failures, restarts and edits in one behaviour

ASSUME ConstantsAssumption ==
  /\ Records \subseteq Nat \ {0} /\ Records # {}
  /\ LegacyRecords \subseteq Records
  /\ NoOne \notin Recipients
  /\ RecipientSets \subseteq SUBSET Recipients
  /\ RetryDelays \in Seq(Nat \ {0}) /\ RetryDelays # << >>
  /\ ScanSize \in Nat /\ BatchSize \in Nat /\ MaxFaults \in Nat

VARIABLES
  store,     \* the notification state of every record
  policy,    \* what evaluateNotificationPolicy says of the record's content
  legacy,    \* whom the error text of a legacy record names (never changes)
  config,    \* the recipients each process was started with
  clock,     \* the time, in the unit of RetryDelays
  scan,      \* the recovery run of each process: its queries and candidates
  task,      \* where each job of each process stands
  copies,    \* messages that reached a recipient's chat, per record
  doubt,     \* sends whose outcome the service never learned or recorded
  faults     \* how much of MaxFaults is used up

vars == <<store, policy, legacy, config, clock, scan, task, copies, doubt, faults>>

-----------------------------------------------------------------------------
(* The state of a record: aggregate status and one delivery per recipient.  *)

DeliveryStatus == {"none", "pending", "failed", "sent", "skipped"}
Delivery == [st : DeliveryStatus, attempts : Nat, retryAt : Nat]
Entry == [status : DeliveryStatus, dlv : [Recipients -> Delivery]]

\* retryAt 0 stands for an absent nextRetryAt, which is due at any time.
NoDelivery == [st |-> "none", attempts |-> 0, retryAt |-> 0]
NoDeliveries == [k \in Recipients |-> NoDelivery]
Blank == [status |-> "none", dlv |-> NoDeliveries]

Resolved(st) == st \in {"sent", "skipped"}
Unresolved(st) == st \in {"pending", "failed"}
HasDeliveries(e) == \E k \in Recipients : e.dlv[k].st # "none"

\* Slips: a status of its own for records that are partly delivered, and a
\* record that counts as sent once one recipient has it.
AggregateWithPartial(d) ==
  LET some(st) == \E k \in Recipients : d[k].st = st
  IN  IF some("failed") /\ some("sent") THEN "partial"
      ELSE IF some("failed") THEN "failed"
      ELSE IF some("pending") THEN "pending"
      ELSE IF some("sent") THEN "sent" ELSE "skipped"

AggregateSentFirst(d) ==
  LET some(st) == \E k \in Recipients : d[k].st = st
  IN  IF some("failed") THEN "failed"
      ELSE IF some("sent") THEN "sent"
      ELSE IF some("pending") THEN "pending" ELSE "skipped"

AggregateStatus(d) ==
  LET some(st) == \E k \in Recipients : d[k].st = st
  IN  IF some("failed") THEN "failed"
      ELSE IF some("pending") THEN "pending"
      ELSE IF some("sent") THEN "sent" ELSE "skipped"

StateFromDeliveries(d) == [status |-> AggregateStatus(d), dlv |-> d]

\* Math.min(Math.max(attemptCount - 1, 0), RETRY_DELAYS_MS.length - 1), from 1.
DelayIndex(attempts) ==
  IF attempts < 1 THEN 1
  ELSE IF attempts > Len(RetryDelays) THEN Len(RetryDelays) ELSE attempts

NotificationRetryAt(attempts, at) == at + RetryDelays[DelayIndex(attempts)]

-----------------------------------------------------------------------------
(* What a job decides to write once it has read the record under the lock.  *)

PendingDeliveries(cfg) ==
  [k \in Recipients |-> IF k \in cfg THEN [NoDelivery EXCEPT !.st = "pending"]
                        ELSE NoDelivery]

\* buildLegacyDeliveries reads an error text that names the failed recipients by
\* position and masked id, and takes for them whoever is configured at these
\* positions now: the recipients called `named` here.  As many must have been
\* attempted as are configured, and each masked id must be that of one configured
\* recipient; it may be missing where there is only one.
MaskedIds(S) == {MaskedId[k] : k \in S}

\* Slip: the masked ids are not compared.
IdentifiesByPosition(l, cfg, named) ==
  /\ Cardinality(l.attempted) = Cardinality(cfg) /\ l.failed # {}
  /\ named \subseteq cfg /\ Cardinality(named) = Cardinality(l.failed)

Identifies(l, cfg, named) ==
  /\ Cardinality(l.attempted) = Cardinality(cfg) /\ l.failed # {}
  /\ named \subseteq cfg /\ Cardinality(named) = Cardinality(l.failed)
  /\ \/ \E f, k \in Recipients : l.attempted = {f} /\ cfg = {k}
     \/ /\ MaskedIds(named) = MaskedIds(l.failed)
        /\ \A k \in named, d \in cfg : MaskedId[k] = MaskedId[d] => k = d

LegacyDeliveries(cfg, named, at) ==
  [k \in Recipients |->
     IF k \notin cfg THEN NoDelivery
     ELSE IF k \in named THEN [st |-> "failed", attempts |-> 1, retryAt |-> at]
     ELSE [st |-> "sent", attempts |-> 1, retryAt |-> 0]]

\* Slips: removed recipients are kept, or their sent deliveries closed as well.
ReconciledNot(d, cfg) == d

ReconciledSentToo(d, cfg) ==
  [k \in Recipients |-> IF k \in cfg \/ d[k].st = "none" THEN d[k]
                        ELSE [d[k] EXCEPT !.st = "skipped"]]

Reconciled(d, cfg) ==
  [k \in Recipients |->
     IF k \in cfg \/ ~Unresolved(d[k].st) THEN d[k]
     ELSE [d[k] EXCEPT !.st = "skipped"]]

\* A legacy failure is closed without resending unless its text identifies the
\* failed recipients; where they stood in the list is not kept here, so it may not.
LegacyOutcomes(l, cfg, at) ==
  {[status |-> "skipped", dlv |-> NoDeliveries]} \cup
  {StateFromDeliveries(LegacyDeliveries(cfg, named, at)) :
     named \in {S \in SUBSET cfg : Identifies(l, cfg, S)}}

\* The states initializeDeliveries may leave a record in; e itself: no write.
Initialized(e, l, cfg, at) ==
  IF HasDeliveries(e) THEN
    {IF Reconciled(e.dlv, cfg) = e.dlv THEN e
     ELSE StateFromDeliveries(Reconciled(e.dlv, cfg))}
  ELSE IF e.status = "failed" THEN LegacyOutcomes(l, cfg, at)
  ELSE {StateFromDeliveries(PendingDeliveries(cfg))}

\* Slip: the record is closed but its deliveries are not.
SuppressedStatusOnly(e) == [e EXCEPT !.status = "skipped"]

Suppressed(e) ==
  [status |-> "skipped",
   dlv |-> [k \in Recipients |->
              IF Unresolved(e.dlv[k].st)
              THEN [e.dlv[k] EXCEPT !.st = "skipped", !.retryAt = 0]
              ELSE e.dlv[k]]]

-----------------------------------------------------------------------------
(* The jobs of a process: 0 is the recovery run, r the notification that    *)
(* follows the creation of record r.                                        *)

Recovery == 0
Jobs == {Recovery} \cup Records

\* pc names the await a job stands at.  "ready": about to take the lock and
\* read; "write": about to run initializeDeliveries', reconcileRemoved-
\* Recipients' or suppressNotification's transaction, which stores plan whatever
\* it reads; the others are the steps of attemptRecipient for recipient key.
Locked == {"write", "attempt", "send", "accepted", "rejected"}
PCs == {"idle", "query", "ready"} \cup Locked

Task == [pc : PCs, rec : {0} \cup Records, at : Nat, plan : Entry,
         todo : SUBSET Recipients, key : Recipients \cup {NoOne}]

Idle == [pc |-> "idle", rec |-> 0, at |-> 0, plan |-> Blank, todo |-> {}, key |-> NoOne]

\* A recovery run's queries: the statuses asked for, the records returned as
\* failed, and those of each answer that needsRecoveryNow or the policy keeps.
Scan == [asked : SUBSET {"pending", "failed"}, failed : SUBSET Records,
         kept : [{"pending", "failed"} -> SUBSET Records], done : SUBSET Records]

NoScan == [asked |-> {}, failed |-> {}, done |-> {},
           kept |-> [st \in {"pending", "failed"} |-> {}]]

Oldest(S, n) == {r \in S : Cardinality({q \in S : q < r}) < n}

\* The candidates of a run still to be processed; in both answers, a record
\* counts as the failed one (deduplicateProposals keeps the last of each id).
Candidates(p) ==
  Oldest((scan[p].kept["pending"] \ scan[p].failed) \cup scan[p].kept["failed"],
         BatchSize) \ scan[p].done

\* Slip: the lock is left out.
LockIgnored(p, r) == TRUE

LockFree(p, r) ==
  \A j \in Jobs : ~(task[p][j].rec = r /\ task[p][j].pc \in Locked)

\* Slip: a run takes every failed delivery of a record that it has chosen for one.
SelectedThoughNotDue(j, e, at) == {k \in Recipients : Unresolved(e.dlv[k].st)}

\* attemptOutstandingRecipients: a notification takes every unresolved delivery,
\* a recovery run only those that were due when it started.
Selected(j, e, at) ==
  {k \in Recipients :
     \/ e.dlv[k].st = "pending"
     \/ e.dlv[k].st = "failed" /\ (e.dlv[k].retryAt <= at \/ j # Recovery)}

\* Job j of p lets go of the lock: a notification ends, a run goes on.
Released(p, j) ==
  IF j = Recovery THEN [Idle EXCEPT !.pc = "ready", !.at = task[p][j].at] ELSE Idle

SetTask(p, j, t) == task' = [task EXCEPT ![p][j] = t]

\* The job goes on under the lock with the recipients that e leaves it.
Attempting(p, j, r, e, at) ==
  [Idle EXCEPT !.pc = "attempt", !.rec = r, !.at = at, !.todo = Selected(j, e, at)]

Writing(r, e, at) == [Idle EXCEPT !.pc = "write", !.rec = r, !.at = at, !.plan = e]

Fault == faults < MaxFaults /\ faults' = faults + 1

Init ==
  /\ legacy \in [Records -> [attempted : SUBSET Recipients, failed : SUBSET Recipients]]
  /\ \A r \in Records :
       /\ legacy[r].failed \subseteq legacy[r].attempted
       /\ legacy[r].attempted \in IF r \in LegacyRecords THEN RecipientSets \ {{}} ELSE {{}}
  /\ store = [r \in Records |->
                IF r \in LegacyRecords THEN [Blank EXCEPT !.status = "failed"] ELSE Blank]
  /\ copies = [r \in Records |-> [k \in Recipients |->
                 IF k \in legacy[r].attempted \ legacy[r].failed THEN 1 ELSE 0]]
  /\ policy \in [Records -> {"notify", "suppress"}]
  /\ config \in [Processes -> RecipientSets]
  /\ clock = 0 /\ faults = 0
  /\ scan = [p \in Processes |-> NoScan]
  /\ task = [p \in Processes |-> [j \in Jobs |-> Idle]]
  /\ doubt = [r \in Records |-> [k \in Recipients |-> 0]]

-----------------------------------------------------------------------------
(* The jobs that create records, and the notification of a new one.         *)

\* The upsert that creates record r: only a "pending" one is notified about.  A
\* silent one belongs to a baseline or is older than the last successful poll.
Publish(p, r) ==
  /\ store[r].status = "none" /\ \A q \in Records : q < r => store[q].status # "none"
  /\ \E silent \in BOOLEAN :
       IF ~silent /\ policy[r] = "notify" /\ config[p] # {}
       THEN /\ store' = [store EXCEPT ![r].status = "pending"]
            /\ SetTask(p, r, [Idle EXCEPT !.pc = "ready", !.rec = r])
       ELSE /\ store' = [store EXCEPT ![r].status = "skipped"]
            /\ UNCHANGED task
  /\ UNCHANGED <<policy, legacy, config, clock, scan, copies, doubt, faults>>

\* What the read of record r decides, for either job: suppress, nothing to do,
\* write the deliveries first, or go on with those that are there.
Decide(p, j, r, at) ==
  IF policy[r] = "suppress" THEN SetTask(p, j, Writing(r, Suppressed(store[r]), at))
  ELSE IF j # Recovery /\ store[r].status = "failed" THEN SetTask(p, j, Released(p, j))
  ELSE IF config[p] = {} THEN
    SetTask(p, j, IF j = Recovery THEN Released(p, j)
                  ELSE Writing(r, [Blank EXCEPT !.status = "skipped"], at))
  ELSE \E e \in Initialized(store[r], legacy[r], config[p], at) :
         SetTask(p, j, IF e = store[r] THEN Attempting(p, j, r, e, at)
                       ELSE Writing(r, e, at))

\* notifyNewProposal, from the lock to the end of its first read.
NotifyRead(p, r) ==
  /\ task[p][r].pc = "ready" /\ LockFree(p, r)
  /\ IF Resolved(store[r].status) THEN SetTask(p, r, Idle)
     ELSE Decide(p, r, r, clock)
  /\ UNCHANGED <<store, policy, legacy, config, clock, scan, copies, doubt, faults>>

-----------------------------------------------------------------------------
(* recoverOutstanding.                                                      *)

\* One run per process (recoveryRunning), scheduled only if sending is enabled.
RecoverStart(p) ==
  /\ task[p][Recovery].pc = "idle" /\ config[p] # {}
  /\ SetTask(p, Recovery, [Idle EXCEPT !.pc = "query", !.at = clock])
  /\ UNCHANGED <<store, policy, legacy, config, clock, scan, copies, doubt, faults>>

\* Slip: a record without deliveries is taken for one that has none left to make.
NeedsRecoveryForDeliveries(e, cfg, now) ==
  \E k \in Recipients :
    \/ e.dlv[k].st = "pending"
    \/ e.dlv[k].st = "failed" /\ (k \notin cfg \/ e.dlv[k].retryAt <= now)

NeedsRecoveryNow(e, cfg, now) ==
  \/ ~HasDeliveries(e)
  \/ \E k \in Recipients :
       \/ e.dlv[k].st = "pending"
       \/ e.dlv[k].st = "failed" /\ (k \notin cfg \/ e.dlv[k].retryAt <= now)

\* findByNotificationStatus(st, NOTIFICATION_RECOVERY_SCAN_SIZE) and the filter on
\* its answer; the two queries run concurrently, so in either order.
RecoverQuery(p, st) ==
  LET answer == Oldest({r \in Records : store[r].status = st}, ScanSize)
      kept == {r \in answer : \/ policy[r] = "suppress"
                              \/ NeedsRecoveryNow(store[r], config[p], task[p][Recovery].at)}
      asked == scan[p].asked \cup {st}
  IN  /\ task[p][Recovery].pc = "query" /\ st \notin scan[p].asked
      /\ scan' = [scan EXCEPT ![p] =
                    [asked |-> asked, kept |-> [scan[p].kept EXCEPT ![st] = kept],
                     failed |-> IF st = "failed" THEN answer ELSE scan[p].failed,
                     done |-> {}]]
      /\ SetTask(p, Recovery, [task[p][Recovery] EXCEPT
                    !.pc = IF asked = {"pending", "failed"} THEN "ready" ELSE "query"])
      /\ UNCHANGED <<store, policy, legacy, config, clock, copies, doubt, faults>>

\* recoverProposal for the oldest candidate left, from the lock to its first read.
RecoverRead(p, r) ==
  /\ task[p][Recovery].pc = "ready" /\ LockFree(p, r)
  /\ r \in Candidates(p) /\ \A q \in Candidates(p) : r <= q
  /\ scan' = [scan EXCEPT ![p].done = @ \cup {r}]
  /\ Decide(p, Recovery, r, task[p][Recovery].at)
  /\ UNCHANGED <<store, policy, legacy, config, clock, copies, doubt, faults>>

RecoverEnd(p) ==
  /\ task[p][Recovery].pc = "ready" /\ Candidates(p) = {}
  /\ scan' = [scan EXCEPT ![p] = NoScan]
  /\ SetTask(p, Recovery, Idle)
  /\ UNCHANGED <<store, policy, legacy, config, clock, copies, doubt, faults>>

-----------------------------------------------------------------------------
(* The locked part of either job.                                           *)

\* The closures of these transactions ignore the record they are given.
WriteState(p, j) ==
  LET t == task[p][j]
  IN  /\ t.pc = "write"
      /\ store' = [store EXCEPT ![t.rec] = t.plan]
      /\ SetTask(p, j, Attempting(p, j, t.rec, t.plan, t.at))
      /\ UNCHANGED <<policy, legacy, config, clock, scan, copies, doubt, faults>>

\* The first transaction of attemptRecipient counts the attempt before sending,
\* unless the delivery has been resolved meanwhile.
PrepareAttempt(p, j, k) ==
  LET t == task[p][j]
      d == store[t.rec].dlv
  IN  /\ t.pc = "attempt" /\ k \in t.todo
      /\ IF Unresolved(d[k].st)
         THEN /\ store' = [store EXCEPT ![t.rec] = StateFromDeliveries(
                   [d EXCEPT ![k] = [st |-> "pending", attempts |-> @.attempts + 1,
                                     retryAt |-> 0]])]
              /\ SetTask(p, j, [t EXCEPT !.pc = "send", !.key = k, !.todo = @ \ {k}])
         ELSE /\ SetTask(p, j, [t EXCEPT !.todo = @ \ {k}])
              /\ UNCHANGED store
      /\ UNCHANGED <<policy, legacy, config, clock, scan, copies, doubt, faults>>

\* Telegram answers ok: true.
SendAccepted(p, j) ==
  LET t == task[p][j]
  IN  /\ t.pc = "send"
      /\ copies' = [copies EXCEPT ![t.rec][t.key] = @ + 1]
      /\ SetTask(p, j, [t EXCEPT !.pc = "accepted"])
      /\ UNCHANGED <<store, policy, legacy, config, clock, scan, doubt, faults>>

\* Slip: an answer that is not ok: true counts as one that is.
SendRejectedUnnoticed(p, j) ==
  LET t == task[p][j]
  IN  /\ t.pc = "send" /\ Fault
      /\ SetTask(p, j, [t EXCEPT !.pc = "accepted"])
      /\ UNCHANGED <<store, policy, legacy, config, clock, scan, copies, doubt>>

\* An error response, an answer that is not ok: true, or no connection.
SendRejected(p, j) ==
  LET t == task[p][j]
  IN  /\ t.pc = "send" /\ Fault
      /\ SetTask(p, j, [t EXCEPT !.pc = "rejected"])
      /\ UNCHANGED <<store, policy, legacy, config, clock, scan, copies, doubt>>

\* The request is aborted or its answer lost after Telegram took the message.
SendTimedOut(p, j) ==
  LET t == task[p][j]
  IN  /\ t.pc = "send" /\ Fault
      /\ copies' = [copies EXCEPT ![t.rec][t.key] = @ + 1]
      /\ doubt' = [doubt EXCEPT ![t.rec][t.key] = @ + 1]
      /\ SetTask(p, j, [t EXCEPT !.pc = "rejected"])
      /\ UNCHANGED <<store, policy, legacy, config, clock, scan>>

\* A delivery that is no longer there is left alone.
SetDelivery(r, k, d) ==
  IF store[r].dlv[k].st = "none" THEN UNCHANGED store
  ELSE store' = [store EXCEPT ![r] = StateFromDeliveries([store[r].dlv EXCEPT ![k] = d])]

RecordSent(p, j) ==
  LET t == task[p][j]
      d == store[t.rec].dlv[t.key]
  IN  /\ t.pc = "accepted"
      /\ SetDelivery(t.rec, t.key, [d EXCEPT !.st = "sent", !.retryAt = 0])
      /\ SetTask(p, j, [t EXCEPT !.pc = "attempt", !.key = NoOne])
      /\ UNCHANGED <<policy, legacy, config, clock, scan, copies, doubt, faults>>

\* The transaction that records "sent" throws inside the try block of the send.
RecordSentFails(p, j) ==
  LET t == task[p][j]
  IN  /\ t.pc = "accepted" /\ Fault
      /\ doubt' = [doubt EXCEPT ![t.rec][t.key] = @ + 1]
      /\ SetTask(p, j, [t EXCEPT !.pc = "rejected"])
      /\ UNCHANGED <<store, policy, legacy, config, clock, scan, copies>>

RecordFailed(p, j) ==
  LET t == task[p][j]
      d == store[t.rec].dlv[t.key]
  IN  /\ t.pc = "rejected"
      /\ SetDelivery(t.rec, t.key,
           [d EXCEPT !.st = "failed", !.retryAt = NotificationRetryAt(d.attempts, t.at)])
      /\ SetTask(p, j, [t EXCEPT !.pc = "attempt", !.key = NoOne])
      /\ UNCHANGED <<policy, legacy, config, clock, scan, copies, doubt, faults>>

\* The last read, and release of the lock in withProposalLock's finally block.
Release(p, j) ==
  /\ task[p][j].pc = "attempt" /\ task[p][j].todo = {}
  /\ SetTask(p, j, Released(p, j))
  /\ UNCHANGED <<store, policy, legacy, config, clock, scan, copies, doubt, faults>>

\* A read or transaction that nothing catches throws: the job ends, and with it
\* the whole recovery run; the finally blocks release lock and recoveryRunning.
StoreError(p, j) ==
  /\ task[p][j].pc \in {"query", "ready", "write", "attempt", "rejected"} /\ Fault
  /\ SetTask(p, j, Idle)
  /\ scan' = IF j = Recovery THEN [scan EXCEPT ![p] = NoScan] ELSE scan
  /\ UNCHANGED <<store, policy, legacy, config, clock, copies, doubt>>

-----------------------------------------------------------------------------
(* The environment.                                                         *)

\* The process dies (or is shut down: process.exit does not wait for jobs) and
\* starts again, perhaps with other recipients.  What it knew of a message that
\* Telegram has accepted is lost.
Restart(p) ==
  /\ Fault
  /\ \E cfg \in RecipientSets : config' = [config EXCEPT ![p] = cfg]
  /\ doubt' = [r \in Records |-> [k \in Recipients |->
       IF \E j \in Jobs : /\ task[p][j].pc = "accepted"
                          /\ task[p][j].rec = r /\ task[p][j].key = k
       THEN doubt[r][k] + 1 ELSE doubt[r][k]]]
  /\ task' = [task EXCEPT ![p] = [j \in Jobs |-> Idle]]
  /\ scan' = [scan EXCEPT ![p] = NoScan]
  /\ UNCHANGED <<store, policy, legacy, clock, copies>>

\* A later fetch stores an edited title, which the policy judges otherwise.  The
\* fetch that creates a record is busy with it until it has been notified about.
Edit(p, r) ==
  /\ Fault
  /\ store[r].status # "none" /\ task[p][r].pc = "idle"
  /\ policy' = [policy EXCEPT ![r] = IF @ = "notify" THEN "suppress" ELSE "notify"]
  /\ UNCHANGED <<store, legacy, config, clock, scan, task, copies, doubt>>

\* Time passes: the clock need not run beyond the last retry to come.
Tick ==
  /\ \E r \in Records, k \in Recipients : store[r].dlv[k].retryAt > clock
  /\ clock' = clock + 1
  /\ UNCHANGED <<store, policy, legacy, config, scan, task, copies, doubt, faults>>

LockedStep(p, j) ==
  \/ WriteState(p, j)
  \/ \E k \in Recipients : PrepareAttempt(p, j, k)
  \/ SendAccepted(p, j) \/ SendRejected(p, j) \/ SendTimedOut(p, j)
  \/ RecordSent(p, j) \/ RecordSentFails(p, j) \/ RecordFailed(p, j)
  \/ Release(p, j)

ProcessStep(p) ==
  \/ \E r \in Records : Publish(p, r) \/ NotifyRead(p, r) \/ RecoverRead(p, r) \/ Edit(p, r)
  \/ RecoverStart(p) \/ RecoverEnd(p)
  \/ \E st \in {"pending", "failed"} : RecoverQuery(p, st)
  \/ \E j \in Jobs : LockedStep(p, j) \/ StoreError(p, j)
  \/ Restart(p)

Next == Tick \/ \E p \in Processes : ProcessStep(p)

Spec == Init /\ [][Next]_vars

(***************************************************************************)
(* Fairness.  The event loop runs every promise continuation it can, timers *)
(* and the recovery cron fire for as long as the process lives, and the     *)
(* lock is handed over in the order of the calls (ProposalLock), so a job   *)
(* that waits for it is not overtaken for ever.  Nothing obliges records to *)
(* be created, edited, or anything to fail.                                 *)
(***************************************************************************)
Fairness ==
  /\ WF_vars(Tick)
  /\ \A p \in Processes :
       /\ WF_vars(RecoverStart(p)) /\ WF_vars(RecoverEnd(p))
       /\ \A st \in {"pending", "failed"} : WF_vars(RecoverQuery(p, st))
       /\ \A r \in Records : SF_vars(NotifyRead(p, r)) /\ SF_vars(RecoverRead(p, r))
       /\ \A j \in Jobs : WF_vars(LockedStep(p, j))

FairSpec == Spec /\ Fairness

-----------------------------------------------------------------------------
(* Properties.                                                              *)

\* Every variable has its type.
TypeOK ==
  /\ store \in [Records -> Entry]
  /\ policy \in [Records -> {"notify", "suppress"}]
  /\ legacy \in [Records -> [attempted : SUBSET Recipients, failed : SUBSET Recipients]]
  /\ config \in [Processes -> SUBSET Recipients]
  /\ clock \in Nat
  /\ scan \in [Processes -> Scan]
  /\ task \in [Processes -> [Jobs -> Task]]
  /\ copies \in [Records -> [Recipients -> Nat]]
  /\ doubt \in [Records -> [Recipients -> Nat]]
  /\ faults \in Nat

\* No delivery is stranded: the recovery query, which selects on the aggregate
\* status alone, finds every record that still owes somebody a message, and a
\* record it finds for its deliveries does owe one.  Holds for any number of
\* processes, crashes and edits.
NothingStranded ==
  \A r \in Records : HasDeliveries(store[r]) =>
    (Unresolved(store[r].status) <=> \E k \in Recipients : Unresolved(store[r].dlv[k].st))

\* A legacy text may mean k by the masked id of another recipient, which had failed.
Mistakable(l, k) ==
  k \in l.attempted \ l.failed /\ MaskedId[k] \in MaskedIds(l.failed)

\* A recipient gets one copy of an alert, and one more at most for every send
\* whose outcome the service could not learn or could not record (a timeout, a
\* crash or a failed write between Telegram's answer and the store).  (The
\* exception: whoever has the last four digits of a recipient that a legacy record
\* failed for may be taken for that one, and gets a second copy.)
DuplicatesAreDoubts ==
  \A r \in Records, k \in Recipients :
    copies[r][k] <= 1 + doubt[r][k] + (IF Mistakable(legacy[r], k) THEN 1 ELSE 0)

\* A delivery recorded as sent did reach the chat.  (A legacy record is the
\* exception: buildLegacyDeliveries calls a recipient sent who was configured
\* later, in the place of one that was removed.)
SentWasDelivered ==
  \A r \in Records, k \in Recipients :
    store[r].dlv[k].st = "sent" =>
      copies[r][k] >= 1 \/ (r \in LegacyRecords /\ k \notin legacy[r].attempted)

\* The dispatcher never asks Telegram to message somebody who is no longer, or
\* not yet, configured, although deliveries outlive the configuration that made
\* them.
OnlyConfiguredContacted ==
  \A p \in Processes, j \in Jobs :
    task[p][j].pc = "send" => task[p][j].key \in config[p]

\* "A successful recipient remains sent": no step takes a delivery out of sent.
SentIsFinal ==
  [][\A r \in Records, k \in Recipients :
       store[r].dlv[k].st = "sent" => store'[r].dlv[k].st = "sent"]_vars

\* Once a record is closed as skipped (by policy, because no recipient is left,
\* or as an ambiguous legacy failure) it stays closed, through edits, restarts and
\* whatever its recipients become, and nobody is messaged about it any more.
SkippedIsQuiet ==
  [][\A r \in Records : store[r].status = "skipped" =>
       store'[r].status = "skipped" /\ copies'[r] = copies[r]]_vars

\* A failed delivery is not attempted before its backoff has run out, whichever
\* of the two jobs gets to it.
BackoffRespected ==
  [][\A r \in Records, k \in Recipients :
       store'[r].dlv[k].attempts > store[r].dlv[k].attempts =>
         store[r].dlv[k].retryAt <= clock]_vars

\* Every record that owes messages is settled in the end, whatever crashed in
\* between, provided failures end and some recipient stays configured.
EventuallySettled ==
  \A r \in Records : Unresolved(store[r].status) ~> Resolved(store[r].status)

=============================================================================
