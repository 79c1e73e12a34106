--------------------------- MODULE ForumFetch_proofs ---------------------------
(***************************************************************************)
(* Proofs about ForumFetch for any set of topics, any number of faults and *)
(* any configurations.                                                     *)
(***************************************************************************)
EXTENDS ForumFetch, TLAPS

\* No timestamp lies in the future, and only what is published gets stored.
TimesInOrder ==
  /\ finished.success <= clock
  /\ protocolState.completedAt <= clock
  /\ run.startedAt <= clock
  /\ \A t \in Topics : published[t] <= clock
  /\ run.todo \subseteq Visible
  /\ \A t \in Topics : stored[t] # "absent" => published[t] > 0

\* The boundary that a run has read is still that of the last success, and what it
\* knows of the baseline still holds until it completes that itself.
RunIsCurrent ==
  /\ run.pc # "idle" => run.prev = finished.success
  /\ run.pc \in {"idle", "started"} => ~run.seeding
  /\ run.pc \in {"fetching", "storing"} /\ run.seeding => protocolState.status = "seeding"
  /\ run.pc \in {"fetching", "storing", "marked"} /\ ~run.seeding =>
       protocolState.status = "complete"

\* Before a baseline is complete nothing has become an alert; afterwards a success
\* has been recorded that is no older, unless the run that will record it is at
\* that step or ended before it.
BaselineBounded ==
  ~upgraded =>
    /\ protocolState.status = "none" => \A t \in Topics : stored[t] = "absent"
    /\ protocolState.status # "complete" => \A t \in Topics : stored[t] # "pending"
    /\ protocolState.status = "complete" => 0 < protocolState.completedAt
    /\ protocolState.status = "complete" /\ ~unrecorded /\ ~(run.pc = "marked" /\ run.seeding) =>
         protocolState.completedAt <= finished.success

FetchInv ==
  /\ TypeOK /\ TimesInOrder /\ RunIsCurrent /\ BaselineBounded
  /\ HistoricalIsCovered /\ BaselineSilentOnceRecorded

\* The initial states satisfy the invariant.
LEMMA InitInv == Init => FetchInv
<1> SUFFICES ASSUME Init PROVE FetchInv
  OBVIOUS
<1> USE DEF Init, NotRunning
<1>1. TypeOK
  <2>1. stored \in [Topics -> Stored]
    BY DEF Stored, Silent
  <2>2. run \in Run
    BY DEF Run
  <2>3. finished \in [success : Nat, failed : Nat] /\ covered \subseteq Topics
    BY ConstantsAssumption
  <2>4. published \in [Topics -> Nat] /\ clock \in Nat \ {0}
    OBVIOUS
  <2>5. protocolState \in [status : {"none", "seeding", "complete"}, completedAt : Nat]
    OBVIOUS
  <2>6. run.pc = "idle"
    OBVIOUS
  <2>7. unrecorded \in BOOLEAN /\ faults \in Nat /\ service \in Service /\ upgraded \in BOOLEAN
    OBVIOUS
  <2> HIDE DEF Init, NotRunning
  <2> QED  BY <2>1, <2>2, <2>3, <2>4, <2>5, <2>6, <2>7 DEF TypeOK
<1>2. TimesInOrder
  BY ConstantsAssumption DEF TimesInOrder, Visible
<1>3. RunIsCurrent
  BY DEF RunIsCurrent
<1>4. BaselineBounded
  BY DEF BaselineBounded
<1>5. HistoricalIsCovered /\ BaselineSilentOnceRecorded
  BY DEF HistoricalIsCovered, BaselineSilentOnceRecorded, BaselineAlerted
<1> QED  BY <1>1, <1>2, <1>3, <1>4, <1>5 DEF FetchInv

\* A run begins, finds its baseline state and fetches: no record changes.
LEMMA BeginInv == FetchInv /\ Begin => FetchInv'
<1> SUFFICES ASSUME FetchInv, Begin PROVE FetchInv'
  OBVIOUS
<1> USE DEF FetchInv, Begin, NotRunning, LatestSuccessfulFinishedAt
<1>1. TypeOK'
  BY DEF TypeOK, Run
<1>2. TimesInOrder' /\ RunIsCurrent'
  BY DEF TypeOK, TimesInOrder, RunIsCurrent, Visible
<1>3. BaselineBounded'
  BY DEF BaselineBounded, RunIsCurrent, TypeOK, Run
<1>4. HistoricalIsCovered' /\ BaselineSilentOnceRecorded'
  BY DEF HistoricalIsCovered, BaselineSilentOnceRecorded, BaselineAlerted
<1> QED  BY <1>1, <1>2, <1>3, <1>4

LEMMA FindBaselineInv == FetchInv /\ FindBaseline => FetchInv'
<1> SUFFICES ASSUME FetchInv, FindBaseline PROVE FetchInv'
  OBVIOUS
<1> USE DEF FetchInv, FindBaseline
<1>1. /\ run' \in Run /\ run'.pc = "fetching" /\ run'.prev = run.prev
      /\ run'.seeding <=> protocolState'.status = "seeding"
      /\ run'.todo = run.todo /\ run'.startedAt = run.startedAt /\ run.startedAt \in Nat
  BY DEF TypeOK, Run
<1>2. \/ protocolState.status # "none" /\ protocolState' = protocolState
      \/ /\ protocolState.status = "none" /\ \E t \in Topics : stored[t] # "absent"
         /\ protocolState' = [status |-> "complete", completedAt |-> run.startedAt]
      \/ /\ protocolState.status = "none"
         /\ protocolState' = [status |-> "seeding", completedAt |-> 0]
  OBVIOUS
<1>3. TypeOK'
  BY <1>1, <1>2 DEF TypeOK
<1>4. TimesInOrder'
  BY <1>1, <1>2 DEF TypeOK, TimesInOrder, Visible
<1>5. RunIsCurrent'
  BY <1>1, <1>2, <1>3 DEF TypeOK, RunIsCurrent
<1>6. BaselineBounded'
  BY <1>1, <1>2 DEF TypeOK, BaselineBounded
<1>7. BaselineSilentOnceRecorded'
  BY <1>2 DEF TypeOK, BaselineBounded, BaselineSilentOnceRecorded, BaselineAlerted
<1>8. HistoricalIsCovered'
  BY DEF HistoricalIsCovered
<1> QED  BY <1>3, <1>4, <1>5, <1>6, <1>7, <1>8

LEMMA FetchStepInv == FetchInv /\ Fetch => FetchInv'
<1> SUFFICES ASSUME FetchInv, Fetch PROVE FetchInv'
  OBVIOUS
<1> USE DEF FetchInv, Fetch
<1>1. /\ run' \in Run /\ run'.pc = "storing" /\ run'.prev = run.prev
      /\ run'.seeding = run.seeding /\ run'.todo \subseteq Visible
      /\ run'.startedAt = run.startedAt
  <2>1. PICK answer \in SUBSET Visible :
          run' = [run EXCEPT !.pc = "storing", !.answer = answer,
                             !.todo = answer \cap service.allowed]
    OBVIOUS
  <2>2. run \in Run /\ answer \subseteq Topics /\ answer \cap service.allowed \subseteq Topics
    BY DEF TypeOK, Visible
  <2> QED  BY <2>1, <2>2 DEF Run
<1>2. TypeOK'
  BY <1>1 DEF TypeOK, Fault
<1>3. TimesInOrder' /\ RunIsCurrent'
  BY <1>1 DEF TypeOK, TimesInOrder, RunIsCurrent, Visible
<1>4. BaselineBounded'
  BY <1>1 DEF BaselineBounded
<1>5. HistoricalIsCovered' /\ BaselineSilentOnceRecorded'
  BY DEF HistoricalIsCovered, BaselineSilentOnceRecorded, BaselineAlerted
<1> QED  BY <1>2, <1>3, <1>4, <1>5

\* What a turn of the loop does to the record of its topic.
LEMMA UpsertStatus ==
  ASSUME FetchInv, NEW t \in Topics, Upsert(t)
  PROVE  /\ stored' \in [Topics -> Stored]
         /\ \A q \in Topics : q # t => stored'[q] = stored[q]
         /\ stored[t] # "absent" => stored'[t] = stored[t]
         /\ stored[t] = "absent" => stored'[t] = StatusForNew(t)
         /\ published[t] > 0
<1> USE DEF FetchInv, Upsert, TypeOK
<1>1. StatusForNew(t) \in Stored /\ StatusForNew(t) # "absent"
  BY DEF StatusForNew, Stored, Silent
<1>2. published[t] > 0
  BY DEF TimesInOrder, Visible
<1> QED  BY <1>1, <1>2

LEMMA UpsertInv ==
  ASSUME FetchInv, NEW t \in Topics, Upsert(t)
  PROVE  FetchInv'
<1>1. /\ stored' \in [Topics -> Stored]
      /\ \A q \in Topics : q # t => stored'[q] = stored[q]
      /\ stored[t] # "absent" => stored'[t] = stored[t]
      /\ stored[t] = "absent" => stored'[t] = StatusForNew(t)
      /\ published[t] > 0
  BY UpsertStatus
<1> USE DEF FetchInv, Upsert
<1>2. /\ run' \in Run /\ run'.pc = "storing" /\ run.pc = "storing" /\ run'.prev = run.prev
      /\ run'.seeding = run.seeding /\ run'.todo \subseteq run.todo
      /\ run'.startedAt = run.startedAt
  BY DEF TypeOK, Run
<1>3. TypeOK'
  BY <1>1, <1>2 DEF TypeOK
<1>4. TimesInOrder'
  BY <1>1, <1>2 DEF TypeOK, TimesInOrder, Visible
<1>5. RunIsCurrent'
  BY <1>2 DEF TypeOK, RunIsCurrent
<1>6. stored[t] = "absent" /\ stored'[t] = "pending" =>
        ~run.seeding /\ ~WasPublishedBy(t, run.prev)
  BY <1>1 DEF StatusForNew
<1>7. stored[t] = "absent" /\ stored'[t] = "historical" => WasPublishedBy(t, run.prev)
  BY <1>1 DEF StatusForNew
<1>8. run.seeding => protocolState.status = "seeding"
  BY DEF RunIsCurrent
<1>9. ~run.seeding => protocolState.status = "complete"
  BY DEF RunIsCurrent
<1>10. run.prev = finished.success
  BY DEF RunIsCurrent
<1>11. BaselineBounded'
  <2>1. protocolState.status # "none"
    BY <1>8, <1>9
  <2>2. protocolState.status # "complete" /\ ~upgraded => stored'[t] # "pending"
    BY <1>1, <1>6, <1>9 DEF BaselineBounded
  <2> QED  BY <1>1, <1>2, <2>1, <2>2 DEF BaselineBounded
<1>12. BaselineSilentOnceRecorded'
  <2> SUFFICES ASSUME ~unrecorded, ~upgraded, NEW q \in Topics, stored'[q] = "pending"
               PROVE  ~(published[q] <= protocolState.completedAt)
    BY DEF BaselineSilentOnceRecorded, BaselineAlerted
  <2>1. CASE stored[q] = "pending"
    BY <2>1 DEF BaselineSilentOnceRecorded, BaselineAlerted
  <2>2. CASE stored[q] # "pending"
    <3>1. q = t /\ stored[t] = "absent"
      BY <1>1, <2>2
    <3>2. ~run.seeding /\ ~WasPublishedBy(t, run.prev)
      BY <1>6, <3>1
    <3>3. 0 < protocolState.completedAt /\ protocolState.completedAt <= finished.success
      BY <1>2, <1>9, <3>2 DEF BaselineBounded
    <3> QED  BY <1>10, <3>1, <3>2, <3>3 DEF TypeOK, WasPublishedBy
  <2> QED  BY <2>1, <2>2
<1>13. HistoricalIsCovered'
  <2> SUFFICES ASSUME NEW q \in Topics, stored'[q] = "historical"
               PROVE  published[q] <= finished.success
    BY DEF HistoricalIsCovered
  <2>1. CASE stored[q] = "historical"
    BY <2>1 DEF HistoricalIsCovered
  <2>2. CASE stored[q] # "historical"
    <3>1. q = t /\ stored[t] = "absent"
      BY <1>1, <2>2
    <3> QED  BY <1>7, <1>10, <3>1 DEF WasPublishedBy
  <2> QED  BY <2>1, <2>2
<1> QED  BY <1>3, <1>4, <1>5, <1>11, <1>12, <1>13

LEMMA CompleteInv == FetchInv /\ CompleteBaseline => FetchInv'
<1> SUFFICES ASSUME FetchInv, CompleteBaseline PROVE FetchInv'
  OBVIOUS
<1> USE DEF FetchInv, CompleteBaseline
<1>1. /\ run' \in Run /\ run'.pc = "marked" /\ run.pc = "storing" /\ run'.prev = run.prev
      /\ run'.seeding = run.seeding /\ run'.todo = run.todo /\ run'.startedAt = run.startedAt
  BY DEF TypeOK, Run
<1>2. \/ protocolState' = protocolState
      \/ /\ run.seeding
         /\ protocolState' = [status |-> "complete", completedAt |-> clock]
  OBVIOUS
<1>3. TypeOK'
  BY <1>1, <1>2 DEF TypeOK
<1>4. TimesInOrder' /\ RunIsCurrent'
  BY <1>1, <1>2 DEF TypeOK, TimesInOrder, RunIsCurrent, Visible
<1>5. BaselineBounded'
  BY <1>1, <1>2 DEF TypeOK, BaselineBounded, RunIsCurrent
<1>6. BaselineSilentOnceRecorded'
  BY <1>1, <1>2 DEF TypeOK, BaselineBounded, RunIsCurrent, BaselineSilentOnceRecorded, BaselineAlerted
<1>7. HistoricalIsCovered'
  BY DEF HistoricalIsCovered
<1> QED  BY <1>3, <1>4, <1>5, <1>6, <1>7

LEMMA SuccessInv == FetchInv /\ RecordSuccess => FetchInv'
<1> SUFFICES ASSUME FetchInv, RecordSuccess PROVE FetchInv'
  OBVIOUS
<1> USE DEF FetchInv, RecordSuccess, NotRunning
<1>1. finished' \in [success : Nat, failed : Nat] /\ finished'.success = clock
  BY DEF TypeOK
<1>2. covered' \subseteq Topics /\ run' \in Run
  BY DEF TypeOK, Run
<1>3. TypeOK'
  BY <1>1, <1>2 DEF TypeOK
<1>4. TimesInOrder' /\ RunIsCurrent'
  BY <1>1 DEF TypeOK, TimesInOrder, RunIsCurrent, Visible
<1>5. BaselineBounded'
  BY <1>1 DEF TypeOK, BaselineBounded, TimesInOrder
<1>6. HistoricalIsCovered' /\ BaselineSilentOnceRecorded'
  BY <1>1 DEF TypeOK, TimesInOrder, HistoricalIsCovered, BaselineSilentOnceRecorded, BaselineAlerted
<1> QED  BY <1>3, <1>4, <1>5, <1>6

\* A run ends without success: with an exception or with its process.
LEMMA BrokenOffInv ==
  ASSUME FetchInv, run' = NotRunning, unrecorded' = (unrecorded \/ LosesSuccess),
         finished' \in [success : Nat, failed : Nat], finished'.success = finished.success,
         service' \in Service, faults' \in Nat,
         UNCHANGED <<clock, published, stored, protocolState, covered, upgraded>>
  PROVE  FetchInv'
<1> USE DEF FetchInv, NotRunning
<1>1. run' \in Run /\ run'.pc = "idle" /\ ~run'.seeding /\ run'.todo = {} /\ run'.startedAt = 0
  BY DEF Run
<1>2. TypeOK'
  BY <1>1 DEF TypeOK, LosesSuccess
<1>3. TimesInOrder' /\ RunIsCurrent'
  BY <1>1 DEF TypeOK, TimesInOrder, RunIsCurrent
<1>4. BaselineBounded'
  BY DEF BaselineBounded, LosesSuccess
<1>5. HistoricalIsCovered' /\ BaselineSilentOnceRecorded'
  BY DEF HistoricalIsCovered, BaselineSilentOnceRecorded, BaselineAlerted
<1> QED  BY <1>2, <1>3, <1>4, <1>5

LEMMA ThrowInv == FetchInv /\ Throw => FetchInv'
<1> SUFFICES ASSUME FetchInv, Throw PROVE FetchInv'
  OBVIOUS
<1>1. finished' \in [success : Nat, failed : Nat] /\ finished'.success = finished.success
  BY DEF FetchInv, TypeOK, Throw
<1>2. faults' \in Nat /\ service' \in Service
  BY DEF FetchInv, TypeOK, Throw, Fault
<1> QED  BY <1>1, <1>2, BrokenOffInv DEF Throw

LEMMA RestartInv == FetchInv /\ Restart => FetchInv'
<1> SUFFICES ASSUME FetchInv, Restart PROVE FetchInv'
  OBVIOUS
<1>1. finished' \in [success : Nat, failed : Nat] /\ finished'.success = finished.success
  BY DEF FetchInv, TypeOK, Restart
<1>2. faults' \in Nat /\ service' \in Service
  BY DEF FetchInv, TypeOK, Restart, Fault
<1> QED  BY <1>1, <1>2, BrokenOffInv DEF Restart

\* A topic appears: it is younger than every boundary, and nothing is known of it.
LEMMA PublishInv ==
  ASSUME FetchInv, NEW t \in Topics, Publish(t)
  PROVE  FetchInv'
<1> USE DEF FetchInv, Publish
<1>1. /\ clock' \in Nat \ {0} /\ clock' > clock
      /\ published' \in [Topics -> Nat] /\ published'[t] = clock'
      /\ \A q \in Topics : q # t => published'[q] = published[q]
  BY DEF TypeOK
<1>2. stored[t] = "absent"
  BY DEF TimesInOrder, TypeOK
<1>3. TypeOK'
  BY <1>1 DEF TypeOK
<1>4. TimesInOrder'
  <2>1. run.startedAt \in Nat
    BY DEF TypeOK, Run
  <2> QED BY <1>1, <1>2, <2>1 DEF TypeOK, TimesInOrder, Visible
<1>5. RunIsCurrent' /\ BaselineBounded'
  BY DEF RunIsCurrent, BaselineBounded
<1>6. HistoricalIsCovered' /\ BaselineSilentOnceRecorded'
  BY <1>1, <1>2 DEF HistoricalIsCovered, BaselineSilentOnceRecorded, BaselineAlerted
<1> QED  BY <1>3, <1>4, <1>5, <1>6

\* Every step preserves the invariant.
LEMMA NextInv == FetchInv /\ [Next]_vars => FetchInv'
<1> SUFFICES ASSUME FetchInv, [Next]_vars PROVE FetchInv'
  OBVIOUS
<1>1. CASE Begin  BY <1>1, BeginInv
<1>2. CASE FindBaseline  BY <1>2, FindBaselineInv
<1>3. CASE Fetch  BY <1>3, FetchStepInv
<1>4. ASSUME NEW t \in Topics, Upsert(t) PROVE FetchInv'  BY <1>4, UpsertInv
<1>5. CASE CompleteBaseline  BY <1>5, CompleteInv
<1>6. CASE RecordSuccess  BY <1>6, SuccessInv
<1>7. CASE Throw  BY <1>7, ThrowInv
<1>8. CASE Restart  BY <1>8, RestartInv
<1>9. ASSUME NEW t \in Topics, Publish(t) PROVE FetchInv'  BY <1>9, PublishInv
<1>10. CASE UNCHANGED vars
  BY <1>10 DEF vars, FetchInv, TypeOK, TimesInOrder, RunIsCurrent, BaselineBounded, Visible,
     HistoricalIsCovered, BaselineSilentOnceRecorded, BaselineAlerted
<1> QED
  BY <1>1, <1>2, <1>3, <1>4, <1>5, <1>6, <1>7, <1>8, <1>9, <1>10 DEF Next, RunStep

LEMMA Invariance == Spec => []FetchInv
  BY InitInv, NextInv, PTL DEF Spec

\* The variables of the fetch job keep their types, and a run past its reads has a
\* baseline state behind it, for any topics and faults.
THEOREM TypeCorrect == Spec => []TypeOK
<1>1. FetchInv => TypeOK
  BY DEF FetchInv
<1> QED  BY <1>1, Invariance, PTL

\* Whatever fails, a topic that fetch runs store silently as historical had been
\* published when a successful run ended.
THEOREM SilentHistoryCovered == Spec => []HistoricalIsCovered
<1>1. FetchInv => HistoricalIsCovered
  BY DEF FetchInv
<1> QED  BY <1>1, Invariance, PTL

\* However often a first fetch was interrupted, nothing published before the
\* baseline was complete becomes an alert, unless the run that completed it ended
\* between markBaselineComplete and the record of its success.
THEOREM BaselineSilent == Spec => []BaselineSilentOnceRecorded
<1>1. FetchInv => BaselineSilentOnceRecorded
  BY DEF FetchInv
<1> QED  BY <1>1, Invariance, PTL

\* A record becomes an alert only if its topic was published after the last
\* successful run had ended.
THEOREM OnlyNewsAlerted == Spec => AlertsAreNews
<1> DEFINE News ==
      \A t \in Topics :
        stored[t] # "pending" /\ stored'[t] = "pending" => published[t] > finished.success
<1>1. FetchInv /\ [Next]_vars => [News]_vars
  <2> SUFFICES ASSUME FetchInv, [Next]_vars, NEW t \in Topics,
                      stored[t] # "pending", stored'[t] = "pending"
               PROVE  published[t] > finished.success
    OBVIOUS
  <2>1. PICK q \in Topics : Upsert(q)
    BY DEF Next, RunStep, Begin, FindBaseline, Fetch, CompleteBaseline, RecordSuccess,
       Throw, Restart, Publish, vars
  <2>2. /\ q = t /\ stored[t] = "absent" /\ StatusForNew(t) = "pending"
        /\ published[t] > 0
    BY <2>1, UpsertStatus
  <2>3. ~WasPublishedBy(t, run.prev)
    BY <2>2 DEF StatusForNew
  <2>4. run.prev = finished.success
    BY <2>1 DEF FetchInv, RunIsCurrent, Upsert
  <2> QED  BY <2>2, <2>3, <2>4 DEF WasPublishedBy, FetchInv, TypeOK
<1>2. QED
  BY <1>1, Invariance, PTL DEF Spec, AlertsAreNews

\* No fetch run changes its mind about a topic, whatever the configuration and the
\* boundary have become.
THEOREM VerdictsKept == Spec => VerdictIsFinal
<1> DEFINE Kept == \A t \in Topics : stored[t] # "absent" => stored'[t] = stored[t]
<1>1. FetchInv /\ [Next]_vars => [Kept]_vars
  <2> SUFFICES ASSUME FetchInv, [Next]_vars, NEW t \in Topics, stored[t] # "absent"
               PROVE  stored'[t] = stored[t]
    OBVIOUS
  <2>1. CASE UNCHANGED stored
    BY <2>1
  <2>2. CASE \E q \in Topics : Upsert(q)
    BY <2>2, UpsertStatus
  <2> QED
    BY <2>1, <2>2 DEF Next, RunStep, Begin, FindBaseline, Fetch, CompleteBaseline,
       RecordSuccess, Throw, Restart, Publish, vars
<1>2. QED
  BY <1>1, Invariance, PTL DEF Spec, VerdictIsFinal
===============================================================================
