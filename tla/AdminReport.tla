------------------------------ MODULE AdminReport ------------------------------
(***************************************************************************)
(* DailyAdminStatusReporter: one report reads, query by query, the stores  *)
(* that fetches, scans and deliveries go on writing, and says "OK" if no   *)
(* answer shows a problem.  A query that throws is a problem itself.       *)
(*                                                                         *)
(* Of the stores there is what a report can tell apart in them; they change*)
(* in the ways the other modules let them change.  One on-chain source is  *)
(* enabled.  The checks of the configuration (no protocol enabled, an empty*)
(* allowlist) do not depend on what is read, and are left out.             *)
(***************************************************************************)
EXTENDS Integers, Sequences, FiniteSets

CONSTANTS
  Protocols,     \* the enabled forum protocols
  Proposals,     \* stored proposals
  Events,        \* stored lifecycle events
  FirstRuns,     \* what the history of fetch runs may be at first
  SourceStates,  \* what the state of the on-chain source may be
  RunsRead,      \* how many fetch runs the first query asks for (50)
  MaxChanges     \* bound: changes of the stores, and queries that throw

Records == Proposals \cup Events

\* When a run finished: not with success, too long ago (FETCH_RUN_MAX_AGE_HOURS),
\* lately, or after the report had taken the time.
FetchRun == [protocol : Protocols, status : {"running", "failed", "success"},
             finished : {"not", "long ago", "lately", "later"}]

SourceState == [complete : BOOLEAN, liveReplay : BOOLEAN, healthy : BOOLEAN, behind : BOOLEAN]

ScanRun == [status : {"running", "failed", "success"}, old : BOOLEAN]

ASSUME ConstantsAssumption ==
  /\ FirstRuns \subseteq Seq(FetchRun) /\ SourceStates \subseteq SourceState
  /\ IsFiniteSet(Records) /\ Proposals \cap Events = {}
  /\ RunsRead \in Nat /\ MaxChanges \in Nat

VARIABLES
  config,     \* production with a scheduler, and whether activity alerts are enabled
  runs,       \* fetch runs, the newest first
  delivery,   \* the notification status of each record
  activity,   \* the status in each protocol's source activity record
  source,     \* the state of the on-chain source, in a sequence of one or none
  scanRun,    \* its latest scan, likewise
  report,     \* the query the report stands at, and what the earlier ones answered
  lasting,    \* history: what has been wrong ever since the report began
  ever,       \* history: what has been wrong at some time since
  retried,    \* history: the records with a new attempt since
  changes     \* how much of MaxChanges is used up

vars == <<config, runs, delivery, activity, source, scanRun, report,
          lasting, ever, retried, changes>>

-------------------------------------------------------------------------------
(* What is wrong with an answer, or with the stores.                        *)

FirstN(seq, n) == SubSeq(seq, 1, IF n < Len(seq) THEN n ELSE Len(seq))

\* The newest run of a protocol, in a sequence of one or none.
LatestRun(p, seq) ==
  LET of == {i \in DOMAIN seq : seq[i].protocol = p}
  IN IF of = {} THEN << >> ELSE <<seq[CHOOSE i \in of : \A j \in of : i <= j]>>

FetchFlawed(latest) ==
  latest = << >> \/ latest[1].status # "success"
  \/ (config.aging /\ latest[1].finished \in {"long ago", "later"})

SourceFlawed(state) ==
  state = << >> \/ ~state[1].complete \/ state[1].liveReplay \/ ~state[1].healthy
  \/ (state[1].complete /\ state[1].behind)

ScanFlawed(scan) == scan = << >> \/ scan[1].status # "success" \/ scan[1].old

ActivityFlawed(statuses) ==
  config.watching /\ \E p \in Protocols : statuses[p] # "healthy"

With(status, of) == {r \in of : delivery[r] = status}

\* What is wrong with the tracker now: fetches, deliveries, and the rest.
Wrong ==
  {<<"fetch", p>> : p \in {q \in Protocols : FetchFlawed(LatestRun(q, runs))}}
  \cup {<<"delivery", r>> : r \in With("pending", Records) \cup With("failed", Records)}
  \cup {<<what, 0>> : what \in {w \in {"activity", "source", "scan"} :
          \/ w = "activity" /\ ActivityFlawed(activity)
          \/ w = "source" /\ SourceFlawed(source)
          \/ w = "scan" /\ ScanFlawed(scanRun)}}

-------------------------------------------------------------------------------
(* The report.                                                              *)

Unknown == -1

\* Slip: the fallback for protocols without a recent run is forgotten.
WithoutFallback ==
  [runs |-> "pending", pending |-> "failed", failed |-> "details", details |-> "activity",
   activity |-> "source", source |-> "pendingEvents", pendingEvents |-> "failedEvents",
   failedEvents |-> "eventDetails", eventDetails |-> "scan", scan |-> "send"]

\* The queries in the order of the code; the last one is made for each protocol of
\* which the first has found no run.
Following ==
  [runs |-> "pending", pending |-> "failed", failed |-> "details", details |-> "activity",
   activity |-> "source", source |-> "pendingEvents", pendingEvents |-> "failedEvents",
   failedEvents |-> "eventDetails", eventDetails |-> "scan", scan |-> "latest"]

\* Each count has two parts, of proposals and of events; unread: the queries that
\* threw; todo: the protocols whose latest run is still to be asked for.
NoReport ==
  [at |-> "idle", latest |-> [p \in Protocols |-> << >>], todo |-> Protocols,
   pending |-> [proposals |-> Unknown, events |-> Unknown],
   failed |-> [proposals |-> Unknown, events |-> Unknown],
   activity |-> [p \in Protocols |-> "none"], source |-> << >>, scan |-> << >>,
   unread |-> {}]

Sum(count) ==
  IF Unknown \in {count.proposals, count.events} THEN Unknown ELSE count.proposals + count.events

\* The problems of buildAdminStatusReport: the report is "OK" if there is none.
Problems ==
  {<<"unread", q>> : q \in report.unread}
  \cup {<<"fetch", p>> : p \in {q \in Protocols : "runs" \notin report.unread
                                                  /\ FetchFlawed(report.latest[q])}}
  \cup {<<what, 0>> : what \in {w \in {"pending", "failed", "activity", "source", "scan"} :
          \/ w = "pending" /\ Sum(report.pending) > 0
          \/ w = "failed" /\ Sum(report.failed) > 0
          \/ w = "activity" /\ "activity" \notin report.unread /\ ActivityFlawed(report.activity)
          \/ w = "source" /\ SourceFlawed(report.source)
          \/ w = "scan" /\ ScanFlawed(report.scan)}}

Init ==
  /\ config \in [aging : BOOLEAN, watching : BOOLEAN]
  /\ runs \in FirstRuns
  /\ delivery \in [Records -> {"absent", "failed"}]
  /\ activity = [p \in Protocols |-> "healthy"]
  /\ source \in {<< >>} \cup {<<state>> : state \in SourceStates}
  /\ scanRun = << [status |-> "success", old |-> FALSE] >>
  /\ report = NoReport
  /\ lasting = {} /\ ever = {} /\ retried = {} /\ changes = 0

\* checkedAt is taken: what has finished, finished before it.
BeginReport ==
  /\ report.at = "idle"
  /\ report' = [NoReport EXCEPT !.at = "runs"]
  /\ runs' = [i \in DOMAIN runs |->
                IF runs[i].finished = "later" THEN [runs[i] EXCEPT !.finished = "lately"] ELSE runs[i]]
  /\ UNCHANGED <<config, delivery, activity, source, scanRun, changes>>
  /\ lasting' = Wrong' /\ ever' = Wrong' /\ retried' = {}

Change == changes < MaxChanges /\ changes' = changes + 1

Reading == UNCHANGED <<config, runs, delivery, activity, source, scanRun, lasting, ever, retried>>

\* A query other than the last: its answer is kept, or it throws.
Query(q, answer) ==
  /\ report.at = q
  /\ \/ report' = [answer EXCEPT !.at = Following[q]] /\ UNCHANGED changes
     \/ report' = [report EXCEPT !.at = Following[q], !.unread = @ \cup {q}] /\ Change
  /\ Reading

\* findAll: the newest runs, of whichever protocols they are.
ReadRuns ==
  \E found \in {[p \in Protocols |-> LatestRun(p, FirstN(runs, RunsRead))]} :
    Query("runs", [report EXCEPT !.latest = found, !.todo = {p \in Protocols : found[p] = << >>}])

\* Slip: the failed ones are counted before the pending ones.
CountsSwapped ==
  \/ Query("pending", [report EXCEPT !.failed.proposals = Cardinality(With("failed", Proposals))])
  \/ Query("failed", [report EXCEPT !.pending.proposals = Cardinality(With("pending", Proposals))])
  \/ Query("pendingEvents", [report EXCEPT !.failed.events = Cardinality(With("failed", Events))])
  \/ Query("failedEvents", [report EXCEPT !.pending.events = Cardinality(With("pending", Events))])

Counts ==
  \/ Query("pending", [report EXCEPT !.pending.proposals = Cardinality(With("pending", Proposals))])
  \/ Query("failed", [report EXCEPT !.failed.proposals = Cardinality(With("failed", Proposals))])
  \/ Query("pendingEvents", [report EXCEPT !.pending.events = Cardinality(With("pending", Events))])
  \/ Query("failedEvents", [report EXCEPT !.failed.events = Cardinality(With("failed", Events))])

\* What failed, for the text of the report only.
ReadDetails == Query("details", report) \/ Query("eventDetails", report)

ReadActivity == Query("activity", [report EXCEPT !.activity = activity])

ReadSource == Query("source", [report EXCEPT !.source = source])

ReadScan == Query("scan", [report EXCEPT !.scan = scanRun])

\* findLatestByProtocol of a protocol without a run among the newest.
ReadLatest(p) ==
  /\ report.at = "latest" /\ p \in report.todo
  /\ \/ report' = [report EXCEPT !.todo = @ \ {p}, !.latest[p] = LatestRun(p, runs)]
        /\ UNCHANGED changes
     \/ report' = [report EXCEPT !.todo = @ \ {p}, !.unread = @ \cup {"latest"}] /\ Change
  /\ Reading

Evaluate ==
  /\ report.at = "latest" /\ report.todo = {}
  /\ report' = [report EXCEPT !.at = "send"]
  /\ UNCHANGED changes /\ Reading

\* The message is sent, or that fails; nothing depends on it, and nothing repeats it.
EndReport ==
  /\ report.at = "send"
  /\ report' = NoReport
  /\ lasting' = {} /\ ever' = {} /\ retried' = {}
  /\ UNCHANGED <<config, runs, delivery, activity, source, scanRun, changes>>

ReportStep ==
  \/ BeginReport \/ ReadRuns \/ Counts \/ ReadDetails \/ ReadActivity \/ ReadSource \/ ReadScan
  \/ \E p \in Protocols : ReadLatest(p)
  \/ Evaluate \/ EndReport

-------------------------------------------------------------------------------
(* What goes on meanwhile.                                                  *)

\* Every change of a store keeps the account of what is wrong.
Meanwhile ==
  /\ Change
  /\ UNCHANGED <<config, report>>
  /\ IF report.at = "idle" THEN UNCHANGED <<lasting, ever>>
     ELSE lasting' = lasting \cap Wrong' /\ ever' = ever \cup Wrong'

\* A fetch starts, unless the protocol has one, and finishes.
StartFetch(p) ==
  /\ \A i \in DOMAIN runs : ~(runs[i].protocol = p /\ runs[i].status = "running")
  /\ runs' = <<[protocol |-> p, status |-> "running", finished |-> "not"]>> \o runs
  /\ UNCHANGED <<delivery, activity, source, scanRun, retried>>
  /\ Meanwhile

FinishFetch(i) ==
  /\ runs[i].status = "running"
  /\ \/ runs' = [runs EXCEPT ![i].status = "failed"]
     \/ runs' = [runs EXCEPT ![i].status = "success",
                             ![i].finished = IF report.at = "idle" THEN "lately" ELSE "later"]
  /\ UNCHANGED <<delivery, activity, source, scanRun, retried>>
  /\ Meanwhile

\* The time since a run is the time at which a report begins.
GrowOld(i) ==
  /\ report.at = "idle" /\ runs[i].finished = "lately"
  /\ \A j \in DOMAIN runs : j > i => runs[j].finished \in {"not", "long ago"}
  /\ runs' = [runs EXCEPT ![i].finished = "long ago"]
  /\ UNCHANGED <<delivery, activity, source, scanRun, retried>>
  /\ Meanwhile

\* The dispatcher: a record is created, an attempt begins, fails, or settles it.
Deliver(r) ==
  /\ \/ delivery[r] = "absent" /\ delivery' = [delivery EXCEPT ![r] = "pending"]
     \/ delivery[r] \in {"pending", "failed"} /\ delivery' = [delivery EXCEPT ![r] = "resolved"]
     \/ delivery[r] = "pending" /\ delivery' = [delivery EXCEPT ![r] = "failed"]
     \/ delivery[r] = "failed" /\ delivery' = [delivery EXCEPT ![r] = "pending"]
  /\ retried' = IF delivery[r] = "failed" /\ report.at # "idle" THEN retried \cup {r} ELSE retried
  /\ UNCHANGED <<runs, activity, source, scanRun>>
  /\ Meanwhile

\* updateSourceActivity.
JudgeActivity(p) ==
  /\ \E status \in {"healthy", "warning"} \ {activity[p]} :
       activity' = [activity EXCEPT ![p] = status]
  /\ UNCHANGED <<runs, delivery, source, scanRun, retried>>
  /\ Meanwhile

\* The on-chain scan begins, moves its source, and ends; or there is none for long.
Scan ==
  /\ \/ /\ \E run \in ScanRun : scanRun # <<run>> /\ scanRun' = <<run>>
        /\ UNCHANGED source
     \/ /\ \E state \in SourceStates : source # <<state>> /\ source' = <<state>>
        /\ UNCHANGED scanRun
  /\ UNCHANGED <<runs, delivery, activity, retried>>
  /\ Meanwhile

StoreStep ==
  \/ \E p \in Protocols : StartFetch(p) \/ JudgeActivity(p)
  \/ \E i \in DOMAIN runs : FinishFetch(i) \/ GrowOld(i)
  \/ \E r \in Records : Deliver(r)
  \/ Scan

Next == ReportStep \/ StoreStep

Spec == Init /\ [][Next]_vars

-------------------------------------------------------------------------------
\* Every variable has its type, and a report that is sent has asked for the latest
\* run of every protocol, however many runs of others there are since.
TypeOK ==
  /\ config \in [aging : BOOLEAN, watching : BOOLEAN]
  /\ runs \in Seq(FetchRun)
  /\ delivery \in [Records -> {"absent", "pending", "failed", "resolved"}]
  /\ activity \in [Protocols -> {"healthy", "warning"}]
  /\ Len(source) <= 1 /\ Len(scanRun) <= 1
  /\ report.at \in DOMAIN Following \cup {"idle", "latest", "send"}
  /\ report.todo \subseteq Protocols
  /\ report.at = "send" =>
       \A p \in Protocols : p \notin report.todo /\ (report.latest[p] = << >> =>
         report.unread \cap {"runs", "latest"} # {} \/ <<"fetch", p>> \in ever)

Overlooked == IF report.at = "send" /\ Problems = {} THEN lasting ELSE {}

\* "OK" means that no query threw and that nothing has been wrong from the beginning
\* of the report to its end, whichever stores were read before and after which
\* change, but for deliveries that were attempted anew in between; and a report
\* that raises an alarm has its reason in a query that threw or in what was wrong at
\* some moment of it.
ReportIsHonest ==
  /\ Overlooked \subseteq {<<"delivery", r>> : r \in retried}
  /\ report.at = "send" /\ Problems = {} => report.unread = {}
  /\ report.at = "send" /\ Problems # {} => report.unread # {} \/ ever # {}
===============================================================================
