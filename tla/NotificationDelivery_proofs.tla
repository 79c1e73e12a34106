--------------------- MODULE NotificationDelivery_proofs ---------------------
(***************************************************************************)
(* What holds of the dispatcher for any number of records, recipients and  *)
(* faults.  For any number of processes: the types, that no delivery is    *)
(* stranded, and that only configured recipients are messaged.  For one    *)
(* process: how often a recipient is messaged.                             *)
(***************************************************************************)
EXTENDS NotificationDelivery, FiniteSetTheorems, TLAPS

Deliveries == [Recipients -> Delivery]

-----------------------------------------------------------------------------
(* The operators the transactions are built from.                           *)

LEMMA AggregateType == \A d \in Deliveries : StateFromDeliveries(d) \in Entry
  BY DEF StateFromDeliveries, AggregateStatus, Entry, DeliveryStatus, Deliveries

LEMMA BlankTypes == NoDelivery \in Delivery /\ NoDeliveries \in Deliveries /\ Blank \in Entry
  BY DEF NoDelivery, NoDeliveries, Blank, Delivery, DeliveryStatus, Entry, Deliveries

LEMMA IdleType == Idle \in Task
  BY BlankTypes DEF Idle, Task, PCs

LEMMA PendingType == \A cfg : PendingDeliveries(cfg) \in Deliveries
  BY DEF PendingDeliveries, NoDelivery, Delivery, DeliveryStatus, Deliveries

LEMMA LegacyType == \A cfg, named : \A at \in Nat : LegacyDeliveries(cfg, named, at) \in Deliveries
  BY DEF LegacyDeliveries, NoDelivery, Delivery, DeliveryStatus, Deliveries

LEMMA ReconciledType == \A cfg : \A d \in Deliveries : Reconciled(d, cfg) \in Deliveries
  BY DEF Reconciled, Unresolved, Delivery, DeliveryStatus, Deliveries

LEMMA SuppressedType == \A e \in Entry : Suppressed(e) \in Entry
  BY DEF Suppressed, Unresolved, Entry, Delivery, DeliveryStatus

LEMMA InitializedType ==
  ASSUME NEW e \in Entry, NEW l, NEW cfg, NEW at \in Nat
  PROVE  Initialized(e, l, cfg, at) \subseteq Entry
<1>1. [status |-> "skipped", dlv |-> NoDeliveries] \in Entry
  BY BlankTypes DEF Entry, DeliveryStatus, Deliveries
<1>2. LegacyOutcomes(l, cfg, at) \subseteq Entry
  BY <1>1, LegacyType, AggregateType DEF LegacyOutcomes
<1>3. StateFromDeliveries(Reconciled(e.dlv, cfg)) \in Entry
  BY ReconciledType, AggregateType DEF Entry, Deliveries
<1>4. StateFromDeliveries(PendingDeliveries(cfg)) \in Entry
  BY PendingType, AggregateType
<1> QED BY <1>2, <1>3, <1>4 DEF Initialized

LEMMA RetryType ==
  \A n \in Nat, at \in Nat : NotificationRetryAt(n, at) \in Nat
  BY ConstantsAssumption DEF NotificationRetryAt, DelayIndex
-----------------------------------------------------------------------------
(* What a job may become.                                                   *)

TaskType == task \in [Processes -> [Jobs -> Task]]

LEMMA SetTaskType ==
  ASSUME TaskType, NEW p \in Processes, NEW j \in Jobs, NEW t \in Task, SetTask(p, j, t)
  PROVE  TaskType'
  BY DEF TaskType, SetTask

LEMMA ReleasedType ==
  ASSUME TaskType, NEW p \in Processes, NEW j \in Jobs
  PROVE  Released(p, j) \in Task
  BY IdleType DEF TaskType, Released, Idle, Task, PCs, Locked

LEMMA AttemptingType ==
  ASSUME NEW p, NEW j, NEW r \in Records, NEW e \in Entry, NEW at \in Nat
  PROVE  Attempting(p, j, r, e, at) \in Task
  BY IdleType DEF Attempting, Selected, Idle, Task, PCs, Locked

LEMMA WritingType ==
  ASSUME NEW r \in Records, NEW e \in Entry, NEW at \in Nat
  PROVE  Writing(r, e, at) \in Task
  BY IdleType DEF Writing, Idle, Task, PCs, Locked

LEMMA DecideType ==
  ASSUME TypeOK, NEW p \in Processes, NEW j \in Jobs, NEW r \in Records, NEW at \in Nat,
         Decide(p, j, r, at)
  PROVE  TaskType'
<1> DEFINE e == store[r]
<1>1. TaskType /\ e \in Entry
  BY DEF TypeOK, TaskType
<1>2. Released(p, j) \in Task
  BY <1>1, ReleasedType
<1>3. CASE policy[r] = "suppress"
  BY <1>1, <1>3, SuppressedType, WritingType, SetTaskType DEF Decide
<1>4. CASE policy[r] # "suppress" /\ j # Recovery /\ e.status = "failed"
  BY <1>1, <1>2, <1>4, SetTaskType DEF Decide
<1>5. CASE /\ policy[r] # "suppress" /\ ~(j # Recovery /\ e.status = "failed")
           /\ config[p] = {}
  <2>1. Writing(r, [Blank EXCEPT !.status = "skipped"], at) \in Task
    BY BlankTypes, WritingType DEF Blank, Entry, DeliveryStatus
  <2> QED BY <1>1, <1>2, <1>5, <2>1, SetTaskType DEF Decide
<1>6. CASE /\ policy[r] # "suppress" /\ ~(j # Recovery /\ e.status = "failed")
           /\ config[p] # {}
  <2>1. PICK f \in Initialized(e, legacy[r], config[p], at) :
          SetTask(p, j, IF f = e THEN Attempting(p, j, r, f, at) ELSE Writing(r, f, at))
    BY <1>6 DEF Decide
  <2>2. f \in Entry
    BY <1>1, InitializedType
  <2> QED BY <1>1, <2>1, <2>2, AttemptingType, WritingType, SetTaskType
<1> QED BY <1>3, <1>4, <1>5, <1>6

-----------------------------------------------------------------------------
(* Every action keeps the types.                                            *)

LEMMA InitType == Init => TypeOK
  BY ConstantsAssumption, BlankTypes, IdleType
  DEF Init, TypeOK, Blank, Entry, DeliveryStatus, Scan, NoScan

\* An update that misses the domain changes nothing, so a job without a record
\* or a recipient needs no case of its own.
LEMMA SetDeliveryType ==
  ASSUME TypeOK, NEW r, NEW k, NEW d,
         r \in Records /\ k \in Recipients => d \in Delivery,
         SetDelivery(r, k, d)
  PROVE  store' \in [Records -> Entry]
<1> DEFINE e == StateFromDeliveries([store[r].dlv EXCEPT ![k] = d])
<1>1. store' = store \/ store' = [store EXCEPT ![r] = e]
  BY DEF SetDelivery
<1>2. CASE r \notin Records
  <2> HIDE DEF e
  <2> QED BY <1>1, <1>2 DEF TypeOK
<1>3. CASE r \in Records
  <2>1. store[r].dlv \in Deliveries
    BY <1>3 DEF TypeOK, Entry, Deliveries
  <2>2. [store[r].dlv EXCEPT ![k] = d] \in Deliveries
    BY <1>3, <2>1 DEF Deliveries
  <2>3. e \in Entry
    BY <2>2, AggregateType
  <2> HIDE DEF e
  <2> QED BY <1>1, <2>3 DEF TypeOK
<1> QED BY <1>2, <1>3

LEMMA CountType ==
  ASSUME NEW f \in [Records -> [Recipients -> Nat]], NEW r, NEW k
  PROVE  [f EXCEPT ![r][k] = @ + 1] \in [Records -> [Recipients -> Nat]]
<1>1. r \in Records => [f[r] EXCEPT ![k] = f[r][k] + 1] \in [Recipients -> Nat]
  <2> SUFFICES ASSUME r \in Records
               PROVE  [f[r] EXCEPT ![k] = f[r][k] + 1] \in [Recipients -> Nat]
    OBVIOUS
  <2> DEFINE h == f[r]
  <2>1. h \in [Recipients -> Nat]
    OBVIOUS
  <2>2. k \in Recipients => h[k] + 1 \in Nat
    BY <2>1
  <2> HIDE DEF h
  <2>3. [h EXCEPT ![k] = h[k] + 1] \in [Recipients -> Nat]
    BY <2>1, <2>2
  <2> QED BY <2>3 DEF h
<1>2. [f EXCEPT ![r][k] = @ + 1] = [f EXCEPT ![r] = [f[r] EXCEPT ![k] = f[r][k] + 1]]
  OBVIOUS
<1> DEFINE g == [f[r] EXCEPT ![k] = f[r][k] + 1]
<1>3. r \in Records => g \in [Recipients -> Nat]
  BY <1>1
<1> HIDE DEF g
<1>4. [f EXCEPT ![r] = g] \in [Records -> [Recipients -> Nat]]
  BY <1>3
<1> QED BY <1>2, <1>4 DEF g

LEMMA CreationTypes ==
  ASSUME TypeOK, NEW p \in Processes, NEW r \in Records,
         Publish(p, r) \/ NotifyRead(p, r) \/ RecoverRead(p, r) \/ Edit(p, r)
  PROVE  TypeOK'
<1>0. TaskType /\ r \in Jobs /\ Recovery \in Jobs
  BY DEF TypeOK, TaskType, Jobs
<1>1. CASE Publish(p, r)
  <2>1. [Idle EXCEPT !.pc = "ready", !.rec = r] \in Task
    BY IdleType DEF Task, PCs
  <2>2. TaskType'
    BY <1>0, <1>1, <2>1, SetTaskType DEF Publish, TaskType
  <2>3. store' \in [Records -> Entry]
    <3>1. PICK st \in DeliveryStatus : store' = [store EXCEPT ![r].status = st]
      BY <1>1 DEF Publish, DeliveryStatus
    <3>2. [store[r] EXCEPT !.status = st] \in Entry
      <4>1. store[r] \in Entry
        BY DEF TypeOK
      <4> QED BY <4>1 DEF Entry
    <3>3. store' = [store EXCEPT ![r] = [store[r] EXCEPT !.status = st]]
      BY <3>1
    <3> QED BY <3>2, <3>3 DEF TypeOK
  <2> QED BY <1>1, <2>2, <2>3 DEF Publish, TypeOK, TaskType
<1>2. CASE NotifyRead(p, r)
  <2>1. TaskType'
    <3>1. CASE Resolved(store[r].status)
      BY <1>0, <1>2, <3>1, IdleType, SetTaskType DEF NotifyRead
    <3>2. CASE ~Resolved(store[r].status)
      BY <1>0, <1>2, <3>2, DecideType DEF NotifyRead, TypeOK
    <3> QED BY <3>1, <3>2
  <2> QED BY <1>2, <2>1 DEF NotifyRead, TypeOK, TaskType
<1>3. CASE RecoverRead(p, r)
  <2>1. task[p][Recovery].at \in Nat
    BY <1>0 DEF TaskType, Task
  <2>2. TaskType'
    BY <1>0, <1>3, <2>1, DecideType DEF RecoverRead
  <2>3. scan' \in [Processes -> Scan]
    <3>1. scan[p] \in Scan
      BY DEF TypeOK
    <3>2. [scan[p] EXCEPT !.done = scan[p].done \cup {r}] \in Scan
      BY <3>1 DEF Scan
    <3>3. scan' = [scan EXCEPT ![p] = [scan[p] EXCEPT !.done = scan[p].done \cup {r}]]
      BY <1>3 DEF RecoverRead
    <3> QED BY <3>2, <3>3 DEF TypeOK
  <2> QED BY <1>3, <2>2, <2>3 DEF RecoverRead, TypeOK, TaskType
<1>4. CASE Edit(p, r)
  BY <1>4, ConstantsAssumption DEF Edit, Fault, TypeOK
<1> QED BY <1>1, <1>2, <1>3, <1>4

LEMMA RunTypes ==
  ASSUME TypeOK, NEW p \in Processes,
         \/ RecoverStart(p) \/ RecoverEnd(p)
         \/ \E st \in {"pending", "failed"} : RecoverQuery(p, st)
  PROVE  TypeOK'
<1>0. TaskType /\ Recovery \in Jobs
  BY DEF TypeOK, TaskType, Jobs
<1>1. CASE RecoverStart(p)
  <2>1. [Idle EXCEPT !.pc = "query", !.at = clock] \in Task
    BY IdleType DEF TypeOK, Task, PCs
  <2> QED BY <1>0, <1>1, <2>1, SetTaskType DEF RecoverStart, TypeOK, TaskType
<1>2. CASE RecoverEnd(p)
  <2>1. NoScan \in Scan
    BY DEF NoScan, Scan
  <2> QED BY <1>0, <1>2, <2>1, IdleType, SetTaskType DEF RecoverEnd, TypeOK, TaskType
<1>3. ASSUME NEW st \in {"pending", "failed"}, RecoverQuery(p, st)
      PROVE  TypeOK'
  <2>1. TaskType'
    <3>1. PICK pc \in {"ready", "query"} :
            SetTask(p, Recovery, [task[p][Recovery] EXCEPT !.pc = pc])
      BY <1>3 DEF RecoverQuery
    <3>2. [task[p][Recovery] EXCEPT !.pc = pc] \in Task
      <4>1. task[p][Recovery] \in Task
        BY <1>0 DEF TaskType
      <4> QED BY <4>1 DEF Task, PCs
    <3> QED BY <1>0, <3>1, <3>2, SetTaskType
  <2>2. scan' \in [Processes -> Scan]
    <3> DEFINE answer == Oldest({r \in Records : store[r].status = st}, ScanSize)
    <3>1. answer \subseteq Records
      BY DEF Oldest
    <3> DEFINE kept == {r \in answer : \/ policy[r] = "suppress"
                          \/ NeedsRecoveryNow(store[r], config[p], task[p][Recovery].at)}
    <3>2. kept \subseteq Records
      BY <3>1
    <3> DEFINE new == [asked |-> scan[p].asked \cup {st},
                       kept |-> [scan[p].kept EXCEPT ![st] = kept],
                       failed |-> IF st = "failed" THEN answer ELSE scan[p].failed,
                       done |-> {}]
    <3>3. scan' = [scan EXCEPT ![p] = new]
      BY <1>3 DEF RecoverQuery
    <3>4. new \in Scan
      <4> HIDE DEF answer, kept
      <4>1. scan[p] \in Scan
        BY DEF TypeOK
      <4> QED BY <3>1, <3>2, <4>1 DEF Scan
    <3> HIDE DEF new
    <3> QED BY <3>3, <3>4 DEF TypeOK
  <2> QED BY <1>3, <2>1, <2>2 DEF RecoverQuery, TypeOK, TaskType
<1> QED BY <1>1, <1>2, <1>3

LEMMA LockedTypes ==
  ASSUME TypeOK, NEW p \in Processes, NEW j \in Jobs, LockedStep(p, j)
  PROVE  TypeOK'
<1> DEFINE t == task[p][j]
<1>0. TaskType /\ t \in Task
  BY DEF TypeOK, TaskType
<1>1. CASE WriteState(p, j)
  <2>1. store' = [store EXCEPT ![t.rec] = t.plan]
    BY <1>1 DEF WriteState
  <2>2. store' \in [Records -> Entry]
    BY <1>0, <2>1 DEF TypeOK, Task
  <2>3. SetTask(p, j, Attempting(p, j, t.rec, t.plan, t.at))
    BY <1>1 DEF WriteState
  <2>4. Attempting(p, j, t.rec, t.plan, t.at) \in Task
    BY <1>0, IdleType DEF Attempting, Selected, Task, PCs, Locked
  <2> QED BY <1>0, <1>1, <2>2, <2>3, <2>4, SetTaskType DEF WriteState, TypeOK, TaskType
<1>2. ASSUME NEW k \in Recipients, PrepareAttempt(p, j, k)
      PROVE  TypeOK'
  <2> DEFINE d == store[t.rec].dlv
             n == [d EXCEPT ![k] = [st |-> "pending", attempts |-> d[k].attempts + 1,
                                    retryAt |-> 0]]
  <2>1. TaskType'
    <3>1. PICK pc \in Locked, key \in Recipients \cup {NoOne} :
            SetTask(p, j, [t EXCEPT !.pc = pc, !.key = key, !.todo = t.todo \ {k}])
      <4>1. CASE Unresolved(d[k].st)
        BY <1>2, <4>1 DEF PrepareAttempt, Locked
      <4>2. CASE ~Unresolved(d[k].st)
        <5>1. [t EXCEPT !.todo = t.todo \ {k}]
                = [t EXCEPT !.pc = t.pc, !.key = t.key, !.todo = t.todo \ {k}]
          BY <1>0 DEF Task
        <5> QED BY <1>0, <1>2, <4>2, <5>1 DEF PrepareAttempt, Locked, Task
      <4> QED BY <4>1, <4>2
    <3>2. [t EXCEPT !.pc = pc, !.key = key, !.todo = t.todo \ {k}] \in Task
      BY <1>0 DEF Task, PCs
    <3> QED BY <1>0, <3>1, <3>2, SetTaskType
  <2>2. store' \in [Records -> Entry]
    <3>1. store' = store \/ store' = [store EXCEPT ![t.rec] = StateFromDeliveries(n)]
      BY <1>2 DEF PrepareAttempt
    <3>2. t.rec \in Records => StateFromDeliveries(n) \in Entry
      <4>1. t.rec \in Records => d \in Deliveries
        BY DEF TypeOK, Entry, Deliveries
      <4>2. t.rec \in Records => n \in Deliveries
        BY <4>1 DEF Deliveries, Delivery, DeliveryStatus
      <4> QED BY <4>2, AggregateType
    <3> HIDE DEF n
    <3> QED BY <3>1, <3>2 DEF TypeOK
  <2> QED BY <1>2, <2>1, <2>2 DEF PrepareAttempt, TypeOK, TaskType
<1>3. CASE SendAccepted(p, j) \/ SendRejected(p, j) \/ SendTimedOut(p, j) \/ RecordSentFails(p, j)
  <2>1. PICK pc \in {"accepted", "rejected"} : SetTask(p, j, [t EXCEPT !.pc = pc])
    BY <1>3 DEF SendAccepted, SendRejected, SendTimedOut, RecordSentFails
  <2>2. [t EXCEPT !.pc = pc] \in Task
    BY <1>0 DEF Task, PCs, Locked
  <2>3. TaskType'
    BY <1>0, <2>1, <2>2, SetTaskType
  <2>4. copies' = copies \/ copies' = [copies EXCEPT ![t.rec][t.key] = @ + 1]
    BY <1>3 DEF SendAccepted, SendRejected, SendTimedOut, RecordSentFails
  <2>5. doubt' = doubt \/ doubt' = [doubt EXCEPT ![t.rec][t.key] = @ + 1]
    BY <1>3 DEF SendAccepted, SendRejected, SendTimedOut, RecordSentFails
  <2>6. /\ copies' \in [Records -> [Recipients -> Nat]]
        /\ doubt' \in [Records -> [Recipients -> Nat]]
    <3>1. copies \in [Records -> [Recipients -> Nat]] /\ doubt \in [Records -> [Recipients -> Nat]]
      BY DEF TypeOK
    <3>2. [copies EXCEPT ![t.rec][t.key] = @ + 1] \in [Records -> [Recipients -> Nat]]
      BY <3>1, CountType
    <3>3. [doubt EXCEPT ![t.rec][t.key] = @ + 1] \in [Records -> [Recipients -> Nat]]
      BY <3>1, CountType
    <3> QED BY <2>4, <2>5, <3>1, <3>2, <3>3
  <2>7. faults' \in Nat
    BY <1>3 DEF SendAccepted, SendRejected, SendTimedOut, RecordSentFails, Fault, TypeOK
  <2>8. UNCHANGED <<store, policy, legacy, config, clock, scan>>
    BY <1>3 DEF SendAccepted, SendRejected, SendTimedOut, RecordSentFails
  <2> QED BY <2>3, <2>6, <2>7, <2>8 DEF TypeOK, TaskType
<1>4. CASE RecordSent(p, j) \/ RecordFailed(p, j)
  <2> DEFINE d == store[t.rec].dlv[t.key]
             sent == [d EXCEPT !.st = "sent", !.retryAt = 0]
             failed == [d EXCEPT !.st = "failed",
                                 !.retryAt = NotificationRetryAt(d.attempts, t.at)]
  <2>1. t.rec \in Records /\ t.key \in Recipients => d \in Delivery
    BY DEF TypeOK, Entry
  <2>2. d \in Delivery => sent \in Delivery
    BY DEF Delivery, DeliveryStatus
  <2>3. d \in Delivery => failed \in Delivery
    <3>1. d \in Delivery => NotificationRetryAt(d.attempts, t.at) \in Nat
      BY <1>0, RetryType DEF Delivery, Task
    <3> QED BY <3>1 DEF Delivery, DeliveryStatus
  <2>4. SetDelivery(t.rec, t.key, sent) \/ SetDelivery(t.rec, t.key, failed)
    BY <1>4 DEF RecordSent, RecordFailed
  <2>5. store' \in [Records -> Entry]
    <3> HIDE DEF sent, failed
    <3> QED BY <2>1, <2>2, <2>3, <2>4, SetDeliveryType
  <2>6. SetTask(p, j, [t EXCEPT !.pc = "attempt", !.key = NoOne])
    BY <1>4 DEF RecordSent, RecordFailed
  <2>7. [t EXCEPT !.pc = "attempt", !.key = NoOne] \in Task
    BY <1>0 DEF Task, PCs, Locked
  <2>8. TaskType'
    BY <1>0, <2>6, <2>7, SetTaskType
  <2> QED BY <1>4, <2>5, <2>8 DEF RecordSent, RecordFailed, TypeOK, TaskType
<1>5. CASE Release(p, j)
  BY <1>0, <1>5, ReleasedType, SetTaskType DEF Release, TypeOK, TaskType
<1> QED BY <1>1, <1>2, <1>3, <1>4, <1>5 DEF LockedStep

LEMMA FailureTypes ==
  ASSUME TypeOK, NEW p \in Processes,
         (\E j \in Jobs : StoreError(p, j)) \/ Restart(p) \/ Tick
  PROVE  TypeOK'
<1>0. TaskType /\ NoScan \in Scan
  BY DEF TypeOK, TaskType, NoScan, Scan
<1>1. ASSUME NEW j \in Jobs, StoreError(p, j)
      PROVE  TypeOK'
  <2>1. TaskType'
    BY <1>0, <1>1, IdleType, SetTaskType DEF StoreError
  <2>2. scan' \in [Processes -> Scan]
    BY <1>0, <1>1 DEF StoreError, TypeOK
  <2> QED BY <1>1, <2>1, <2>2 DEF StoreError, Fault, TypeOK, TaskType
<1>2. CASE Restart(p)
  <2>1. PICK cfg \in RecipientSets : config' = [config EXCEPT ![p] = cfg]
    BY <1>2 DEF Restart
  <2>2. config' \in [Processes -> SUBSET Recipients]
    BY <2>1, ConstantsAssumption DEF TypeOK
  <2>3. TaskType'
    BY <1>0, <1>2, IdleType DEF Restart, TaskType
  <2>4. doubt' \in [Records -> [Recipients -> Nat]]
    BY <1>2 DEF Restart, TypeOK
  <2>5. scan' \in [Processes -> Scan]
    BY <1>0, <1>2 DEF Restart, TypeOK
  <2>6. faults' \in Nat
    BY <1>2 DEF Restart, Fault, TypeOK
  <2> QED BY <1>2, <2>2, <2>3, <2>4, <2>5, <2>6 DEF Restart, TypeOK, TaskType
<1>3. CASE Tick
  BY <1>3 DEF Tick, TypeOK
<1> QED BY <1>1, <1>2, <1>3

LEMMA NextTypes == TypeOK /\ [Next]_vars => TypeOK'
<1> SUFFICES ASSUME TypeOK, [Next]_vars PROVE TypeOK'
  OBVIOUS
<1>1. CASE UNCHANGED vars
  BY <1>1 DEF vars, TypeOK
<1>2. CASE Tick
  <2>1. CASE Processes = {}
    BY <1>2 DEF Tick, TypeOK
  <2> QED BY <1>2, <2>1, FailureTypes
<1>3. ASSUME NEW p \in Processes, ProcessStep(p)
      PROVE  TypeOK'
  BY <1>3, CreationTypes, RunTypes, LockedTypes, FailureTypes DEF ProcessStep
<1> QED BY <1>1, <1>2, <1>3 DEF Next

\* Every variable keeps its type, whatever the constants.
THEOREM TypeCorrect == Spec => []TypeOK
  BY InitType, NextTypes, PTL DEF Spec

-----------------------------------------------------------------------------
(* No delivery is stranded.  The invariant must also speak of the plans: what *)
(* a job decided to write is written later, whatever is in the store by then. *)

Consistent(e) ==
  HasDeliveries(e) =>
    /\ e.status # "none"
    /\ Unresolved(e.status) <=> \E k \in Recipients : Unresolved(e.dlv[k].st)

StoreConsistent == \A r \in Records : Consistent(store[r])
PlansConsistent == \A p \in Processes, j \in Jobs : Consistent(task[p][j].plan)

DeliveryInv == TypeOK /\ StoreConsistent /\ PlansConsistent

LEMMA AggregateConsistent == \A d \in Deliveries : Consistent(StateFromDeliveries(d))
  BY DEF Consistent, HasDeliveries, Unresolved, StateFromDeliveries, AggregateStatus,
         Deliveries, Delivery, DeliveryStatus

LEMMA BlankConsistent ==
  \A st : Consistent([status |-> st, dlv |-> NoDeliveries])
  BY DEF Consistent, HasDeliveries, NoDeliveries, NoDelivery

LEMMA SuppressedConsistent == \A e \in Entry : Consistent(Suppressed(e))
  BY DEF Suppressed, Consistent, Unresolved, Entry, Delivery, DeliveryStatus

LEMMA InitializedConsistent ==
  ASSUME NEW e \in Entry, Consistent(e), NEW l, NEW cfg, NEW at \in Nat,
         NEW f \in Initialized(e, l, cfg, at)
  PROVE  Consistent(f)
<1>1. CASE HasDeliveries(e)
  <2>1. Reconciled(e.dlv, cfg) \in Deliveries
    BY ReconciledType DEF Entry, Deliveries
  <2>2. f = e \/ f = StateFromDeliveries(Reconciled(e.dlv, cfg))
    BY <1>1 DEF Initialized
  <2> QED BY <2>1, <2>2, AggregateConsistent
<1>2. CASE ~HasDeliveries(e) /\ e.status = "failed"
  <2>1. \A named : LegacyDeliveries(cfg, named, at) \in Deliveries
    BY LegacyType
  <2>2. \/ f = [status |-> "skipped", dlv |-> NoDeliveries]
        \/ \E named : f = StateFromDeliveries(LegacyDeliveries(cfg, named, at))
    BY <1>2 DEF Initialized, LegacyOutcomes
  <2> QED BY <2>1, <2>2, AggregateConsistent, BlankConsistent
<1>3. CASE ~HasDeliveries(e) /\ e.status # "failed"
  BY <1>3, PendingType, AggregateConsistent DEF Initialized
<1> QED BY <1>1, <1>2, <1>3

LEMMA PlanSet ==
  ASSUME TaskType, PlansConsistent, NEW p \in Processes, NEW j \in Jobs,
         NEW t, Consistent(t.plan), SetTask(p, j, t)
  PROVE  PlansConsistent'
  BY DEF TaskType, PlansConsistent, SetTask

LEMMA StoreSet ==
  ASSUME TypeOK, StoreConsistent, NEW r, NEW e, Consistent(e),
         store' = [store EXCEPT ![r] = e]
  PROVE  StoreConsistent'
  BY DEF TypeOK, StoreConsistent

LEMMA PlanLess ==
  /\ Consistent(Idle.plan)
  /\ \A p, j : Consistent(Released(p, j).plan)
  /\ \A p, j, r, e, at : Consistent(Attempting(p, j, r, e, at).plan)
  /\ \A r, e, at : Consistent(e) => Consistent(Writing(r, e, at).plan)
<1>1. Consistent(Blank)
  BY BlankConsistent DEF Blank
<1>2. Idle.plan = Blank
  BY DEF Idle
<1>3. \A p, j : Released(p, j).plan = Blank
  BY DEF Released, Idle
<1>4. \A p, j, r, e, at : Attempting(p, j, r, e, at).plan = Blank
  BY DEF Attempting, Idle
<1>5. \A r, e, at : Writing(r, e, at).plan = e
  BY DEF Writing, Idle
<1> QED BY <1>1, <1>2, <1>3, <1>4, <1>5

LEMMA DecidePlan ==
  ASSUME DeliveryInv, NEW p \in Processes, NEW j \in Jobs, NEW r \in Records,
         NEW at \in Nat, Decide(p, j, r, at)
  PROVE  PlansConsistent'
<1> DEFINE e == store[r]
<1>1. TaskType /\ PlansConsistent /\ e \in Entry /\ Consistent(e)
  BY DEF DeliveryInv, TypeOK, TaskType, StoreConsistent
<1> SUFFICES ASSUME NEW t, SetTask(p, j, t), Consistent(t.plan) PROVE PlansConsistent'
  <2> SUFFICES \E t : SetTask(p, j, t) /\ Consistent(t.plan)
    OBVIOUS
  <2>1. CASE policy[r] = "suppress"
    BY <1>1, <2>1, SuppressedConsistent, PlanLess DEF Decide
  <2>2. CASE policy[r] # "suppress" /\ j # Recovery /\ e.status = "failed"
    BY <2>2, PlanLess DEF Decide
  <2>3. CASE /\ policy[r] # "suppress" /\ ~(j # Recovery /\ e.status = "failed")
             /\ config[p] = {}
    <3>1. Consistent([Blank EXCEPT !.status = "skipped"])
      BY BlankConsistent DEF Blank
    <3> QED BY <2>3, <3>1, PlanLess DEF Decide
  <2>4. CASE /\ policy[r] # "suppress" /\ ~(j # Recovery /\ e.status = "failed")
             /\ config[p] # {}
    <3>1. PICK f \in Initialized(e, legacy[r], config[p], at) :
            SetTask(p, j, IF f = e THEN Attempting(p, j, r, f, at) ELSE Writing(r, f, at))
      BY <2>4 DEF Decide
    <3>2. Consistent(f)
      BY <1>1, InitializedConsistent
    <3> QED BY <3>1, <3>2, PlanLess
  <2> QED BY <2>1, <2>2, <2>3, <2>4
<1> QED BY <1>1, PlanSet

LEMMA InitConsistent == Init => StoreConsistent /\ PlansConsistent
<1> SUFFICES ASSUME Init PROVE StoreConsistent /\ PlansConsistent
  OBVIOUS
<1>1. \A r \in Records : store[r].dlv = NoDeliveries
  BY DEF Init, Blank
<1>2. StoreConsistent
  BY <1>1 DEF StoreConsistent, Consistent, HasDeliveries, NoDeliveries, NoDelivery
<1> QED BY <1>2, PlanLess DEF Init, PlansConsistent

\* What a step writes to the store is consistent ...
LEMMA StoreStep ==
  ASSUME DeliveryInv, NEW p \in Processes, ProcessStep(p)
  PROVE  StoreConsistent'
<1>0. TypeOK /\ StoreConsistent /\ PlansConsistent
  BY DEF DeliveryInv
<1>1. ASSUME NEW r \in Records, Publish(p, r)
      PROVE  StoreConsistent'
  \* An update of the aggregate status alone, of a record without deliveries.
  <2>1. PICK st \in DeliveryStatus :
          store' = [store EXCEPT ![r] = [store[r] EXCEPT !.status = st]]
    BY <1>1 DEF Publish, DeliveryStatus
  <2>2. store[r] \in Entry /\ ~HasDeliveries(store[r])
    BY <1>0, <1>1 DEF TypeOK, StoreConsistent, Consistent, Publish
  <2>3. Consistent([store[r] EXCEPT !.status = st])
    BY <2>2 DEF Consistent, HasDeliveries, Entry
  <2> QED BY <1>0, <2>1, <2>3, StoreSet
<1>2. ASSUME NEW j \in Jobs, LockedStep(p, j)
      PROVE  StoreConsistent'
  <2> DEFINE t == task[p][j]
  <2>0. t \in Task /\ Consistent(t.plan)
    BY <1>0 DEF TypeOK, PlansConsistent
  <2>1. CASE WriteState(p, j)
    BY <1>0, <2>0, <2>1, StoreSet DEF WriteState
  <2>2. ASSUME NEW r, NEW k, NEW d, r \in Records /\ k \in Recipients => d \in Delivery,
               store' = [store EXCEPT ![r] =
                           StateFromDeliveries([store[r].dlv EXCEPT ![k] = d])]
        PROVE  StoreConsistent'
    <3> DEFINE n == [store[r].dlv EXCEPT ![k] = d]
    <3>1. CASE r \in Records
      <4>1. store[r].dlv \in Deliveries
        BY <1>0, <3>1 DEF TypeOK, Entry, Deliveries
      <4>2. n \in Deliveries
        BY <2>2, <3>1, <4>1 DEF Deliveries
      <4>3. Consistent(StateFromDeliveries(n))
        BY <4>2, AggregateConsistent
      <4> HIDE DEF n
      <4> QED BY <1>0, <2>2, <4>3, StoreSet DEF n
    <3>2. CASE r \notin Records
      <4> HIDE DEF n
      <4>1. store' = store
        BY <1>0, <2>2, <3>2 DEF TypeOK
      <4> QED BY <1>0, <4>1 DEF StoreConsistent
    <3> QED BY <3>1, <3>2
  <2>3. ASSUME NEW k \in Recipients, PrepareAttempt(p, j, k)
        PROVE  StoreConsistent'
    <3> DEFINE d == store[t.rec].dlv
               n == [st |-> "pending", attempts |-> d[k].attempts + 1, retryAt |-> 0]
    <3>1. CASE ~Unresolved(d[k].st)
      BY <1>0, <2>3, <3>1 DEF PrepareAttempt, StoreConsistent
    <3>2. CASE Unresolved(d[k].st)
      <4>1. t.rec \in Records => n \in Delivery
        BY <1>0 DEF TypeOK, Entry, Delivery, DeliveryStatus
      <4>2. store' = [store EXCEPT ![t.rec] = StateFromDeliveries([d EXCEPT ![k] = n])]
        BY <2>3, <3>2 DEF PrepareAttempt
      <4> HIDE DEF n
      <4> QED BY <2>2, <4>1, <4>2
    <3> QED BY <3>1, <3>2
  <2>4. CASE RecordSent(p, j) \/ RecordFailed(p, j)
    <3> DEFINE d == store[t.rec].dlv[t.key]
               sent == [d EXCEPT !.st = "sent", !.retryAt = 0]
               failed == [d EXCEPT !.st = "failed",
                                   !.retryAt = NotificationRetryAt(d.attempts, t.at)]
    <3>1. t.rec \in Records /\ t.key \in Recipients => d \in Delivery
      BY <1>0 DEF TypeOK, Entry
    <3>2. d \in Delivery => sent \in Delivery
      BY DEF Delivery, DeliveryStatus
    <3>3. d \in Delivery => failed \in Delivery
      <4>1. d \in Delivery => NotificationRetryAt(d.attempts, t.at) \in Nat
        BY <2>0, RetryType DEF Delivery, Task
      <4> QED BY <4>1 DEF Delivery, DeliveryStatus
    <3>4. SetDelivery(t.rec, t.key, sent) \/ SetDelivery(t.rec, t.key, failed)
      BY <2>4 DEF RecordSent, RecordFailed
    <3> HIDE DEF sent, failed
    <3>5. PICK n : /\ t.rec \in Records /\ t.key \in Recipients => n \in Delivery
                   /\ SetDelivery(t.rec, t.key, n)
      BY <3>1, <3>2, <3>3, <3>4
    <3>6. \/ store' = store
          \/ store' = [store EXCEPT ![t.rec] =
                         StateFromDeliveries([store[t.rec].dlv EXCEPT ![t.key] = n])]
      BY <3>5 DEF SetDelivery
    <3>7. CASE store' = store
      BY <1>0, <3>7 DEF StoreConsistent
    <3> QED BY <2>2, <3>5, <3>6, <3>7
  <2>5. CASE \/ SendAccepted(p, j) \/ SendRejected(p, j) \/ SendTimedOut(p, j)
             \/ RecordSentFails(p, j) \/ Release(p, j)
    <3>1. store' = store
      BY <2>5 DEF SendAccepted, SendRejected, SendTimedOut, RecordSentFails, Release
    <3> QED BY <1>0, <3>1 DEF StoreConsistent
  <2> QED BY <1>2, <2>1, <2>3, <2>4, <2>5 DEF LockedStep
<1>3. CASE UNCHANGED store
  BY <1>0, <1>3 DEF StoreConsistent
<1> QED BY <1>1, <1>2, <1>3 DEF ProcessStep, NotifyRead, RecoverRead, Edit, RecoverStart,
          RecoverEnd, RecoverQuery, StoreError, Restart

\* ... and so is what it decides to write later.
LEMMA PlanStep ==
  ASSUME DeliveryInv, NEW p \in Processes, ProcessStep(p)
  PROVE  PlansConsistent'
<1>0. TypeOK /\ StoreConsistent /\ PlansConsistent /\ TaskType
  BY DEF DeliveryInv, TypeOK, TaskType
<1>1. ASSUME NEW j \in Jobs, NEW t, Consistent(t.plan), SetTask(p, j, t)
      PROVE  PlansConsistent'
  BY <1>0, <1>1, PlanSet
<1>2. ASSUME NEW r \in Records,
             Publish(p, r) \/ NotifyRead(p, r) \/ RecoverRead(p, r) \/ Edit(p, r)
      PROVE  PlansConsistent'
  <2>0. r \in Jobs /\ Recovery \in Jobs
    BY DEF Jobs
  <2>1. CASE Publish(p, r)
    <3>1. [Idle EXCEPT !.pc = "ready", !.rec = r].plan = Idle.plan
      BY DEF Idle
    <3> QED BY <1>0, <1>1, <2>0, <2>1, <3>1, PlanLess DEF Publish, PlansConsistent
  <2>2. CASE NotifyRead(p, r)
    <3>1. CASE Resolved(store[r].status)
      BY <1>1, <2>0, <2>2, <3>1, PlanLess DEF NotifyRead
    <3>2. CASE ~Resolved(store[r].status)
      BY <1>0, <2>0, <2>2, <3>2, DecidePlan DEF NotifyRead, TypeOK
    <3> QED BY <3>1, <3>2
  <2>3. CASE RecoverRead(p, r)
    <3>1. task[p][Recovery].at \in Nat
      BY <1>0, <2>0 DEF TaskType, Task
    <3> QED BY <2>0, <2>3, <3>1, DecidePlan DEF RecoverRead
  <2>4. CASE Edit(p, r)
    BY <1>0, <2>4 DEF Edit, PlansConsistent
  <2> QED BY <1>2, <2>1, <2>2, <2>3, <2>4
<1>3. ASSUME NEW j \in Jobs, LockedStep(p, j)
      PROVE  PlansConsistent'
  <2> DEFINE t == task[p][j]
  <2>1. t \in Task /\ Consistent(t.plan)
    BY <1>0 DEF TaskType, PlansConsistent
  <2>2. CASE WriteState(p, j)
    BY <1>1, <2>2, PlanLess DEF WriteState
  <2>3. CASE Release(p, j)
    BY <1>1, <2>3, PlanLess DEF Release
  <2>4. ASSUME NEW k \in Recipients, PrepareAttempt(p, j, k)
        PROVE  PlansConsistent'
    <3>1. PICK u : SetTask(p, j, u) /\ u.plan = t.plan
      <4>1. CASE Unresolved(store[t.rec].dlv[k].st)
        <5>1. [t EXCEPT !.pc = "send", !.key = k, !.todo = t.todo \ {k}].plan = t.plan
          BY <2>1 DEF Task
        <5> QED BY <2>4, <4>1, <5>1 DEF PrepareAttempt
      <4>2. CASE ~Unresolved(store[t.rec].dlv[k].st)
        <5>1. [t EXCEPT !.todo = t.todo \ {k}].plan = t.plan
          BY <2>1 DEF Task
        <5> QED BY <2>4, <4>2, <5>1 DEF PrepareAttempt
      <4> QED BY <4>1, <4>2
    <3> QED BY <1>1, <2>1, <3>1
  <2>5. CASE \/ SendAccepted(p, j) \/ SendRejected(p, j) \/ SendTimedOut(p, j)
             \/ RecordSentFails(p, j) \/ RecordSent(p, j) \/ RecordFailed(p, j)
    <3>1. PICK u : SetTask(p, j, u) /\ u.plan = t.plan
      <4>1. PICK pc, key : SetTask(p, j, [t EXCEPT !.pc = pc, !.key = key])
        <5>1. \A pc : [t EXCEPT !.pc = pc] = [t EXCEPT !.pc = pc, !.key = t.key]
          BY <2>1 DEF Task
        <5> QED BY <2>5, <5>1 DEF SendAccepted, SendRejected, SendTimedOut,
                  RecordSentFails, RecordSent, RecordFailed
      <4>2. [t EXCEPT !.pc = pc, !.key = key].plan = t.plan
        BY <2>1 DEF Task
      <4> QED BY <4>1, <4>2
    <3> QED BY <1>1, <2>1, <3>1
  <2> QED BY <1>3, <2>2, <2>3, <2>4, <2>5 DEF LockedStep
<1>4. ASSUME \/ RecoverStart(p) \/ RecoverEnd(p)
             \/ \E st \in {"pending", "failed"} : RecoverQuery(p, st)
      PROVE  PlansConsistent'
  <2>0. Recovery \in Jobs /\ Consistent(task[p][Recovery].plan)
    BY <1>0 DEF Jobs, PlansConsistent
  <2>1. PICK t : SetTask(p, Recovery, t) /\ t.plan \in {Idle.plan, task[p][Recovery].plan}
    <3>1. CASE RecoverStart(p)
      <4>1. [Idle EXCEPT !.pc = "query", !.at = clock].plan = Idle.plan
        BY DEF Idle
      <4> QED BY <3>1, <4>1 DEF RecoverStart
    <3>2. CASE RecoverEnd(p)
      BY <3>2 DEF RecoverEnd
    <3>3. ASSUME NEW st \in {"pending", "failed"}, RecoverQuery(p, st)
          PROVE  \E pc : SetTask(p, Recovery, [task[p][Recovery] EXCEPT !.pc = pc])
      BY <3>3 DEF RecoverQuery
    <3>4. \A pc : [task[p][Recovery] EXCEPT !.pc = pc].plan = task[p][Recovery].plan
      <4>1. task[p][Recovery] \in Task
        BY <1>0, <2>0 DEF TaskType
      <4> QED BY <4>1 DEF Task
    <3> QED BY <1>4, <3>1, <3>2, <3>3, <3>4
  <2> QED BY <1>1, <2>0, <2>1, PlanLess
<1>5. ASSUME NEW j \in Jobs, StoreError(p, j)
      PROVE  PlansConsistent'
  BY <1>1, <1>5, PlanLess DEF StoreError
<1>6. CASE Restart(p)
  BY <1>0, <1>6, PlanLess DEF Restart, PlansConsistent, TaskType
<1> QED BY <1>2, <1>3, <1>4, <1>5, <1>6 DEF ProcessStep

LEMMA NextConsistent == DeliveryInv /\ [Next]_vars => DeliveryInv'
<1> SUFFICES ASSUME DeliveryInv, [Next]_vars PROVE DeliveryInv'
  OBVIOUS
<1>1. TypeOK'
  BY NextTypes DEF DeliveryInv
<1>2. CASE UNCHANGED vars \/ Tick
  <2>1. UNCHANGED <<store, task>>
    BY <1>2 DEF vars, Tick
  <2> QED BY <1>1, <2>1 DEF DeliveryInv, StoreConsistent, PlansConsistent
<1>3. ASSUME NEW p \in Processes, ProcessStep(p)
      PROVE  DeliveryInv'
  BY <1>1, <1>3, StoreStep, PlanStep DEF DeliveryInv
<1> QED BY <1>2, <1>3 DEF Next

\* The recovery query finds every record that owes somebody a message, for any
\* number of replicas that share the store, whatever fails, restarts or is edited.
THEOREM NeverStranded == Spec => []NothingStranded
<1>1. Init => DeliveryInv
  BY InitType, InitConsistent DEF DeliveryInv
<1>2. DeliveryInv => NothingStranded
  BY DEF DeliveryInv, StoreConsistent, Consistent, NothingStranded
<1> QED BY <1>1, <1>2, NextConsistent, PTL DEF Spec

-------------------------------------------------------------------------------
(***************************************************************************)
(* Who is messaged, by any number of processes that share the store.       *)
(***************************************************************************)

(* Only configured recipients are contacted: what a job takes from the store *)
(* to deliver, or decides to write, owes nothing to anybody else.            *)

OwesOnly(e, cfg) == \A k \in Recipients : Unresolved(e.dlv[k].st) => k \in cfg

InConfig(t, cfg) ==
  /\ t.todo \subseteq cfg
  /\ t.pc = "send" => t.key \in cfg
  /\ t.pc = "write" => OwesOnly(t.plan, cfg)

AllInConfig == \A p \in Processes, j \in Jobs : InConfig(task[p][j], config[p])

LEMMA InitializedOwes ==
  ASSUME NEW e \in Entry, NEW l, NEW cfg, NEW at \in Nat, NEW f \in Initialized(e, l, cfg, at)
  PROVE  OwesOnly(f, cfg)
<1>1. \A d \in Deliveries : OwesOnly(StateFromDeliveries(Reconciled(d, cfg)), cfg)
  BY DEF OwesOnly, StateFromDeliveries, Reconciled, Unresolved, Deliveries, Delivery
<1>2. \A named : OwesOnly(StateFromDeliveries(LegacyDeliveries(cfg, named, at)), cfg)
  BY DEF OwesOnly, StateFromDeliveries, LegacyDeliveries, Unresolved, NoDelivery
<1>3. OwesOnly(StateFromDeliveries(PendingDeliveries(cfg)), cfg)
  BY DEF OwesOnly, StateFromDeliveries, PendingDeliveries, Unresolved, NoDelivery
<1>4. OwesOnly([status |-> "skipped", dlv |-> NoDeliveries], cfg)
  BY DEF OwesOnly, NoDeliveries, NoDelivery, Unresolved
<1>5. e.dlv \in Deliveries
  BY DEF Entry, Deliveries
<1>6. Reconciled(e.dlv, cfg) = e.dlv => OwesOnly(e, cfg)
  BY <1>5 DEF Reconciled, OwesOnly, Unresolved, Deliveries, Delivery
<1> QED BY <1>1, <1>2, <1>3, <1>4, <1>5, <1>6 DEF Initialized, LegacyOutcomes

LEMMA IdleInConfig ==
  ASSUME NEW cfg
  PROVE  /\ InConfig(Idle, cfg)
         /\ \A p, j : InConfig(Released(p, j), cfg)
         /\ \A p, j, r, e, at : OwesOnly(e, cfg) => InConfig(Attempting(p, j, r, e, at), cfg)
         /\ \A r, e, at : OwesOnly(e, cfg) => InConfig(Writing(r, e, at), cfg)
<1>1. InConfig(Idle, cfg)
  BY DEF InConfig, Idle
<1>2. \A p, j : InConfig(Released(p, j), cfg)
  BY <1>1 DEF InConfig, Released, Idle
<1>3. \A p, j, r, e, at : OwesOnly(e, cfg) => InConfig(Attempting(p, j, r, e, at), cfg)
  BY DEF InConfig, Attempting, Selected, OwesOnly, Unresolved, Idle
<1>4. \A r, e, at : OwesOnly(e, cfg) => InConfig(Writing(r, e, at), cfg)
  BY DEF InConfig, Writing, Idle
<1> QED BY <1>1, <1>2, <1>3, <1>4

LEMMA DecideInConfig ==
  ASSUME TypeOK, NEW p \in Processes, NEW j \in Jobs, NEW r \in Records, NEW at \in Nat,
         Decide(p, j, r, at)
  PROVE  \E t : SetTask(p, j, t) /\ InConfig(t, config[p])
<1> DEFINE e == store[r]
<1>1. e \in Entry
  BY DEF TypeOK
<1>2. CASE policy[r] = "suppress"
  <2>1. OwesOnly(Suppressed(e), config[p])
    BY <1>1 DEF OwesOnly, Suppressed, Unresolved, Entry, Delivery
  <2> QED BY <1>2, <2>1, IdleInConfig DEF Decide
<1>3. CASE policy[r] # "suppress" /\ j # Recovery /\ e.status = "failed"
  BY <1>3, IdleInConfig DEF Decide
<1>4. CASE /\ policy[r] # "suppress" /\ ~(j # Recovery /\ e.status = "failed")
           /\ config[p] = {}
  <2>1. OwesOnly([Blank EXCEPT !.status = "skipped"], config[p])
    BY DEF OwesOnly, Blank, NoDeliveries, NoDelivery, Unresolved
  <2> QED BY <1>4, <2>1, IdleInConfig DEF Decide
<1>5. CASE /\ policy[r] # "suppress" /\ ~(j # Recovery /\ e.status = "failed")
           /\ config[p] # {}
  <2>1. PICK f \in Initialized(e, legacy[r], config[p], at) :
          SetTask(p, j, IF f = e THEN Attempting(p, j, r, f, at) ELSE Writing(r, f, at))
    BY <1>5 DEF Decide
  <2>2. OwesOnly(f, config[p])
    BY <1>1, InitializedOwes
  <2> QED BY <2>1, <2>2, IdleInConfig
<1> QED BY <1>2, <1>3, <1>4, <1>5

LEMMA InConfigSet ==
  ASSUME TaskType, AllInConfig, NEW p \in Processes, NEW j \in Jobs, NEW t,
         InConfig(t, config[p]), SetTask(p, j, t), UNCHANGED config
  PROVE  AllInConfig'
  BY DEF TaskType, AllInConfig, SetTask

LEMMA StepInConfig ==
  ASSUME TypeOK, AllInConfig, NEW p \in Processes, ProcessStep(p)
  PROVE  AllInConfig'
<1>0. TaskType
  BY DEF TypeOK, TaskType
<1>1. ASSUME NEW j \in Jobs, NEW t, InConfig(t, config[p]), SetTask(p, j, t), UNCHANGED config
      PROVE  AllInConfig'
  BY <1>0, <1>1, InConfigSet
<1>2. ASSUME NEW r \in Records,
             Publish(p, r) \/ NotifyRead(p, r) \/ RecoverRead(p, r) \/ Edit(p, r)
      PROVE  AllInConfig'
  <2>0. r \in Jobs /\ Recovery \in Jobs /\ UNCHANGED config
    BY <1>2 DEF Jobs, Publish, NotifyRead, RecoverRead, Edit
  <2>1. CASE Publish(p, r)
    <3>1. InConfig([Idle EXCEPT !.pc = "ready", !.rec = r], config[p])
      BY DEF InConfig, Idle
    <3>2. CASE UNCHANGED task
      BY <2>0, <3>2 DEF AllInConfig
    <3> QED BY <1>1, <2>0, <2>1, <3>1, <3>2 DEF Publish
  <2>2. CASE NotifyRead(p, r)
    <3>1. CASE Resolved(store[r].status)
      BY <1>1, <2>0, <2>2, <3>1, IdleInConfig DEF NotifyRead
    <3>2. CASE ~Resolved(store[r].status)
      <4>1. \E t : SetTask(p, r, t) /\ InConfig(t, config[p])
        BY <2>0, <2>2, <3>2, DecideInConfig DEF NotifyRead, TypeOK
      <4> QED BY <1>1, <2>0, <4>1
    <3> QED BY <3>1, <3>2
  <2>3. CASE RecoverRead(p, r)
    <3>1. task[p][Recovery].at \in Nat
      BY <1>0, <2>0 DEF TaskType, Task
    <3>2. \E t : SetTask(p, Recovery, t) /\ InConfig(t, config[p])
      BY <2>0, <2>3, <3>1, DecideInConfig DEF RecoverRead
    <3> QED BY <1>1, <2>0, <3>2
  <2>4. CASE Edit(p, r)
    BY <2>0, <2>4 DEF Edit, AllInConfig
  <2> QED BY <1>2, <2>1, <2>2, <2>3, <2>4
<1>3. ASSUME NEW j \in Jobs, LockedStep(p, j)
      PROVE  AllInConfig'
  <2> DEFINE t == task[p][j]
  <2>1. t \in Task /\ InConfig(t, config[p])
    BY <1>0 DEF TaskType, AllInConfig
  <2>2. UNCHANGED config
    BY <1>3 DEF LockedStep, WriteState, PrepareAttempt, SendAccepted, SendRejected, SendTimedOut,
       RecordSent, RecordSentFails, RecordFailed, Release
  <2>3. CASE WriteState(p, j)
    <3>1. OwesOnly(t.plan, config[p])
      BY <2>1, <2>3 DEF WriteState, InConfig
    <3> QED BY <1>1, <2>2, <2>3, <3>1, IdleInConfig DEF WriteState
  <2>4. ASSUME NEW k \in Recipients, PrepareAttempt(p, j, k)
        PROVE  AllInConfig'
    <3>1. InConfig([t EXCEPT !.pc = "send", !.key = k, !.todo = t.todo \ {k}], config[p])
      BY <2>1, <2>4 DEF PrepareAttempt, InConfig, Task
    <3>2. InConfig([t EXCEPT !.todo = t.todo \ {k}], config[p])
      BY <2>1 DEF InConfig, Task
    <3> QED BY <1>1, <2>2, <2>4, <3>1, <3>2 DEF PrepareAttempt
  <2>5. CASE \/ SendAccepted(p, j) \/ SendRejected(p, j) \/ SendTimedOut(p, j)
             \/ RecordSentFails(p, j) \/ RecordSent(p, j) \/ RecordFailed(p, j)
    <3>1. \A pc \in {"accepted", "rejected"} : InConfig([t EXCEPT !.pc = pc], config[p])
      BY <2>1 DEF InConfig, Task
    <3>2. InConfig([t EXCEPT !.pc = "attempt", !.key = NoOne], config[p])
      BY <2>1 DEF InConfig, Task
    <3> QED BY <1>1, <2>2, <2>5, <3>1, <3>2 DEF SendAccepted, SendRejected, SendTimedOut,
              RecordSentFails, RecordSent, RecordFailed
  <2>6. CASE Release(p, j)
    BY <1>1, <2>2, <2>6, IdleInConfig DEF Release
  <2> QED BY <1>3, <2>3, <2>4, <2>5, <2>6 DEF LockedStep
<1>4. ASSUME \/ RecoverStart(p) \/ RecoverEnd(p)
             \/ \E st \in {"pending", "failed"} : RecoverQuery(p, st)
      PROVE  AllInConfig'
  <2> DEFINE t == task[p][Recovery]
  <2>0. Recovery \in Jobs /\ t \in Task /\ InConfig(t, config[p]) /\ UNCHANGED config
    BY <1>0, <1>4 DEF TaskType, AllInConfig, Jobs, RecoverStart, RecoverEnd, RecoverQuery
  <2>1. InConfig([Idle EXCEPT !.pc = "query", !.at = clock], config[p])
    BY DEF InConfig, Idle
  <2>2. \A pc \in {"ready", "query"} : InConfig([t EXCEPT !.pc = pc], config[p])
    BY <2>0 DEF InConfig, Task
  <2>3. \A st : RecoverQuery(p, st) =>
          \E pc \in {"ready", "query"} : SetTask(p, Recovery, [t EXCEPT !.pc = pc])
    BY DEF RecoverQuery
  <2> QED BY <1>1, <1>4, <2>0, <2>1, <2>2, <2>3, IdleInConfig DEF RecoverStart, RecoverEnd
<1>5. ASSUME NEW j \in Jobs, StoreError(p, j)
      PROVE  AllInConfig'
  BY <1>1, <1>5, IdleInConfig DEF StoreError
<1>6. CASE Restart(p)
  <2>1. \A q \in Processes : q # p => task'[q] = task[q] /\ config'[q] = config[q]
    BY <1>0, <1>6 DEF Restart, TypeOK, TaskType
  <2>2. \A j \in Jobs : task'[p][j] = Idle
    BY <1>0, <1>6 DEF Restart, TaskType
  <2> QED BY <2>1, <2>2, IdleInConfig DEF AllInConfig
<1> QED BY <1>2, <1>3, <1>4, <1>5, <1>6 DEF ProcessStep

\* A message goes to nobody but a recipient of the process that sends it, however
\* many processes with other recipients wrote to the record, and whatever the
\* configuration was when its deliveries were made.
THEOREM OnlyConfigured == Spec => []OnlyConfiguredContacted
<1>1. Init => AllInConfig
  BY IdleInConfig DEF Init, AllInConfig
<1>2. TypeOK /\ AllInConfig /\ [Next]_vars => AllInConfig'
  <2> SUFFICES ASSUME TypeOK, AllInConfig, [Next]_vars PROVE AllInConfig'
    OBVIOUS
  <2>1. CASE UNCHANGED vars \/ Tick
    BY <2>1 DEF vars, Tick, AllInConfig
  <2> QED BY <2>1, StepInConfig DEF Next
<1>3. AllInConfig => OnlyConfiguredContacted
  BY DEF AllInConfig, InConfig, OnlyConfiguredContacted
<1> QED BY <1>1, <1>2, <1>3, TypeCorrect, PTL DEF Spec

-------------------------------------------------------------------------------
(***************************************************************************)
(* How often a recipient is messaged by one process: its lock keeps two of *)
(* its jobs from working on one record, so that what a job read of a record*)
(* is still true when it writes.  (Two processes do send duplicates: the   *)
(* run delivery_duplicates shows one.)                                     *)
(*                                                                         *)
(* The invariant relates, for every recipient of a record, the state of the*)
(* delivery to the copies and the doubts so far (Account), says what a job *)
(* may still write (Fits), and that of two jobs only one has a record.     *)
(***************************************************************************)

OneProcess == \A p, q \in Processes : p = q

Bare(e) == \A k \in Recipients : e.dlv[k].st = "none"

Owing(e) == \E k \in Recipients : Unresolved(e.dlv[k].st)

\* The aggregate status fits the deliveries, and only failures have a backoff.
Sound(e) ==
  /\ \A k \in Recipients : e.dlv[k].st \in {"none", "pending"} => e.dlv[k].retryAt = 0
  /\ \/ Bare(e)
     \/ /\ (\E k \in Recipients : e.dlv[k].st = "failed") => e.status = "failed"
        /\ Unresolved(e.status) <=> Owing(e)
        /\ e.status # "none"

\* The copy too many of a recipient whom a legacy text may take for another one.
Spare(l, k) == IF Mistakable(l, k) THEN 1 ELSE 0

LEMMA SpareType == \A l, k : Spare(l, k) \in Nat
  BY DEF Spare

Owed(r, k) == copies[r][k] <= doubt[r][k] + Spare(legacy[r], k)

Delivered(r, k) ==
  copies[r][k] >= 1 \/ (r \in LegacyRecords /\ k \notin legacy[r].attempted)

Accepted(r, k) ==
  \E p \in Processes, j \in Jobs :
    task[p][j].pc = "accepted" /\ task[p][j].rec = r /\ task[p][j].key = k

\* What the copies and doubts so far have to do with a delivery.
Account(r, k) ==
  /\ copies[r][k] <= 1 + doubt[r][k] + Spare(legacy[r], k)
  /\ Unresolved(store[r].dlv[k].st) => Owed(r, k) \/ Accepted(r, k)
  /\ store[r].dlv[k].st = "sent" => Delivered(r, k)
  /\ r \notin LegacyRecords /\ store[r].dlv[k].st = "none" => copies[r][k] = 0
  /\ r \in LegacyRecords /\ Bare(store[r]) =>
       copies[r][k] = IF k \in legacy[r].attempted \ legacy[r].failed THEN 1 ELSE 0

LegacySound(r) ==
  /\ legacy[r].failed \subseteq legacy[r].attempted
  /\ r \notin LegacyRecords => legacy[r].attempted = {}
  /\ r \in LegacyRecords /\ Bare(store[r]) => store[r].status \in {"failed", "skipped"}

RecordSound(r) == Sound(store[r]) /\ LegacySound(r) /\ \A k \in Recipients : Account(r, k)

\* Job j, which began at time at, may write n in the place of record r.
Fits(j, r, at, n) ==
  LET e == store[r]
  IN  /\ Sound(n) /\ n.status # "none"
      /\ e.status = "skipped" => n.status = "skipped"
      /\ Bare(n) => j = Recovery /\ n.status = "skipped"
      /\ \A k \in Recipients :
           /\ e.dlv[k].st # "none" =>
                n.dlv[k].st # "none" /\ n.dlv[k].attempts = e.dlv[k].attempts
           /\ e.dlv[k].st = "sent" => n.dlv[k].st = "sent"
           /\ n.dlv[k].st = "sent" => Delivered(r, k)
           /\ Unresolved(n.dlv[k].st) => Owed(r, k)
           /\ k \in Selected(j, n, at) => n.dlv[k].retryAt <= clock

Sending == {"send", "accepted", "rejected"}

\* What is true wherever job j of p stands, of t, its task.
Works(p, j, t) ==
  /\ t.at <= clock
  /\ t.pc # "idle" => config[p] # {}
  /\ j # Recovery /\ t.pc # "idle" =>
       t.pc # "query" /\ t.rec = j /\ policy[j] = "notify" /\ store[j].status # "none"
  /\ t.pc \in Locked => t.rec \in Records /\ store[t.rec].status # "none"
  /\ j = Recovery /\ t.pc \in Locked => t.rec \in scan[p].done
  /\ t.pc = "write" => Fits(j, t.rec, t.at, t.plan)
  /\ t.pc \in Locked \ {"write"} => \A k \in t.todo : store[t.rec].dlv[k].retryAt <= clock
  /\ t.pc \in Sending =>
       /\ t.key \in Recipients \ t.todo
       /\ store[t.rec].dlv[t.key].st = "pending"
  /\ t.pc = "accepted" => copies[t.rec][t.key] >= 1

Working == \A p \in Processes, j \in Jobs : Works(p, j, task[p][j])

OneLock ==
  \A p \in Processes, i, j \in Jobs :
    /\ task[p][i].pc \in Locked /\ task[p][j].pc \in Locked
    /\ task[p][i].rec = task[p][j].rec
    => i = j

\* A candidate of a recovery run may have been settled since it was found, but was
\* not closed without deliveries: it would be opened again.
Open(e) == e.status # "none" /\ ~(e.status = "skipped" /\ Bare(e))

ScanOpen(p) ==
  /\ task[p][Recovery].pc \in {"idle", "query"} => scan[p].done = {}
  /\ \A st \in {"pending", "failed"} :
       \A r \in scan[p].kept[st] \ scan[p].done : Open(store[r])

SingleInv ==
  /\ \A r \in Records : RecordSound(r)
  /\ Working
  /\ OneLock
  /\ \A p \in Processes : ScanOpen(p)

-----------------------------------------------------------------------------
(* What a job decides to write fits the record it has read.                 *)

LEMMA SoundState ==
  ASSUME NEW d \in Deliveries,
         \A k \in Recipients : d[k].st \in {"none", "pending"} => d[k].retryAt = 0
  PROVE  Sound(StateFromDeliveries(d))
  BY DEF Sound, Bare, Owing, Unresolved, StateFromDeliveries, AggregateStatus, Deliveries,
         Delivery, DeliveryStatus

LEMMA FitsSuppressed ==
  ASSUME TypeOK, NEW r \in Records, RecordSound(r), NEW at \in Nat
  PROVE  Fits(Recovery, r, at, Suppressed(store[r]))
<1> DEFINE e == store[r]
           n == Suppressed(e)
<1>1. e \in Entry
  BY DEF TypeOK
<1>2. /\ n.status = "skipped"
      /\ \A k \in Recipients :
           /\ n.dlv[k].st = IF Unresolved(e.dlv[k].st) THEN "skipped" ELSE e.dlv[k].st
           /\ n.dlv[k].attempts = e.dlv[k].attempts
           /\ ~Unresolved(e.dlv[k].st) => n.dlv[k] = e.dlv[k]
  BY <1>1 DEF Suppressed, Entry, Delivery
<1>3. \A k \in Recipients : ~Unresolved(n.dlv[k].st)
  BY <1>2 DEF Unresolved
<1> HIDE DEF n
<1>4. Sound(n)
  <2>1. \A k \in Recipients : n.dlv[k].st \in {"none", "pending"} => n.dlv[k].retryAt = 0
    BY <1>2 DEF RecordSound, Sound, Unresolved
  <2> QED BY <1>2, <1>3, <2>1 DEF Sound, Owing, Unresolved
<1>5. \A k \in Recipients : k \notin Selected(Recovery, n, at)
  BY <1>3 DEF Selected, Unresolved
<1>6. \A k \in Recipients : n.dlv[k].st = "sent" => Delivered(r, k)
  BY <1>2 DEF RecordSound, Account
<1>7. \A k \in Recipients :
        /\ e.dlv[k].st # "none" => n.dlv[k].st # "none" /\ n.dlv[k].attempts = e.dlv[k].attempts
        /\ e.dlv[k].st = "sent" => n.dlv[k].st = "sent"
  BY <1>2 DEF Unresolved
<1> HIDE DEF e
<1> QED BY <1>2, <1>3, <1>4, <1>5, <1>6, <1>7 DEF Fits, e, n

\* A notification does not go on with a failed record, so whatever it selects is due.
LEMMA SelectedDue ==
  ASSUME NEW e \in Entry, Sound(e), NEW j \in Jobs, NEW at \in Nat, at <= clock, clock \in Nat,
         j = Recovery \/ e.status # "failed",
         NEW k \in Selected(j, e, at)
  PROVE  e.dlv[k].retryAt <= clock
<1>1. k \in Recipients /\ e.dlv[k].st \in {"pending", "failed"}
  BY DEF Selected
<1>2. CASE e.dlv[k].st = "pending"
  BY <1>1, <1>2 DEF Sound
<1>3. CASE e.dlv[k].st = "failed"
  <2>1. j = Recovery
    BY <1>1, <1>3 DEF Sound, Bare
  <2>2. e.dlv[k].retryAt <= at
    BY <1>3, <2>1 DEF Selected
  <2>3. e.dlv[k].retryAt \in Nat
    BY <1>1 DEF Entry, Delivery
  <2> QED BY <2>2, <2>3
<1> QED BY <1>1, <1>2, <1>3

LEMMA FitsReconciled ==
  ASSUME TypeOK, NEW r \in Records, RecordSound(r), NEW j \in Jobs, NEW at \in Nat, at <= clock,
         j = Recovery \/ store[r].status # "failed",
         NEW cfg, HasDeliveries(store[r]), Reconciled(store[r].dlv, cfg) # store[r].dlv,
         \A k \in Recipients : ~Accepted(r, k)
  PROVE  Fits(j, r, at, StateFromDeliveries(Reconciled(store[r].dlv, cfg)))
<1> DEFINE e == store[r]
           d == Reconciled(e.dlv, cfg)
           n == StateFromDeliveries(d)
<1>1. e \in Entry /\ e.dlv \in Deliveries /\ clock \in Nat
  BY DEF TypeOK, Entry, Deliveries
<1>2. \A k \in Recipients :
        /\ d[k].st = IF k \in cfg \/ ~Unresolved(e.dlv[k].st) THEN e.dlv[k].st ELSE "skipped"
        /\ d[k].attempts = e.dlv[k].attempts
        /\ d[k].retryAt = e.dlv[k].retryAt
  BY <1>1 DEF Reconciled, Deliveries, Delivery
<1>3. d \in Deliveries /\ n \in Entry
  BY <1>1, ReconciledType, AggregateType
<1>4. Sound(e)
  BY DEF RecordSound
<1>5. ~Bare(e)
  BY DEF HasDeliveries, Bare
<1>6. n.dlv = d
  BY DEF StateFromDeliveries
<1> HIDE DEF d
<1>7. Sound(n)
  <2>1. \A k \in Recipients : d[k].st \in {"none", "pending"} => d[k].retryAt = 0
    BY <1>2, <1>4 DEF Sound, Unresolved
  <2> QED BY <1>3, <2>1, SoundState
<1>8. ~Bare(n)
  BY <1>2, <1>5, <1>6 DEF Bare, Unresolved
<1>9. n.status # "none" /\ e.status # "skipped"
  <2>1. PICK k \in Recipients : Unresolved(e.dlv[k].st)
    <3> SUFFICES ASSUME \A k \in Recipients : ~Unresolved(e.dlv[k].st) PROVE FALSE
      OBVIOUS
    <3>1. d = e.dlv
      BY <1>1 DEF d, Reconciled, Deliveries
    <3> QED BY <3>1 DEF d
  <2>2. Unresolved(e.status)
    BY <1>4, <1>5, <2>1 DEF Sound, Owing
  <2> QED BY <1>7, <1>8, <2>2 DEF Sound, Unresolved
<1>10. j = Recovery \/ n.status # "failed"
  <2> SUFFICES ASSUME j # Recovery PROVE n.status # "failed"
    OBVIOUS
  <2>1. \A k \in Recipients : e.dlv[k].st # "failed"
    BY <1>4, <1>5 DEF Sound
  <2>2. \A k \in Recipients : d[k].st # "failed"
    BY <1>2, <2>1
  <2> QED BY <2>2 DEF StateFromDeliveries, AggregateStatus
<1>11. \A k \in Selected(j, n, at) : n.dlv[k].retryAt <= clock
  BY <1>1, <1>3, <1>7, <1>10, SelectedDue
<1>12. \A k \in Recipients :
         /\ e.dlv[k].st # "none" => d[k].st # "none" /\ d[k].attempts = e.dlv[k].attempts
         /\ e.dlv[k].st = "sent" => d[k].st = "sent"
         /\ d[k].st = "sent" => Delivered(r, k)
         /\ Unresolved(d[k].st) => Owed(r, k)
  BY <1>2 DEF RecordSound, Account, Unresolved
<1> HIDE DEF n
<1>13. Fits(j, r, at, n)
  BY <1>6, <1>7, <1>8, <1>9, <1>11, <1>12 DEF Fits
<1> QED BY <1>13 DEF n, d

\* A legacy failure that names the recipients it failed for.
LEMMA FitsLegacy ==
  ASSUME TypeOK, NEW r \in Records, RecordSound(r), NEW at \in Nat, at <= clock,
         NEW cfg \in SUBSET Recipients, NEW named, Bare(store[r]), store[r].status = "failed",
         Identifies(legacy[r], cfg, named)
  PROVE  Fits(Recovery, r, at, StateFromDeliveries(LegacyDeliveries(cfg, named, at)))
<1> DEFINE l == legacy[r]
           d == LegacyDeliveries(cfg, named, at)
           n == StateFromDeliveries(d)
<1>1. /\ l.failed \subseteq l.attempted /\ l.attempted \subseteq Recipients
      /\ l.failed # {} /\ named \subseteq cfg
      /\ \/ \E f, k \in Recipients : l.attempted = {f} /\ cfg = {k}
         \/ /\ MaskedIds(named) = MaskedIds(l.failed)
            /\ \A k \in named, e \in cfg : MaskedId[k] = MaskedId[e] => k = e
  BY DEF TypeOK, RecordSound, LegacySound, Identifies
<1>2. r \in LegacyRecords
  BY <1>1 DEF RecordSound, LegacySound
<1>3. \A k \in Recipients :
        /\ d[k].st = IF k \notin cfg THEN "none" ELSE IF k \in named THEN "failed" ELSE "sent"
        /\ d[k].retryAt = IF k \in cfg /\ k \in named THEN at ELSE 0
  BY DEF LegacyDeliveries, NoDelivery
<1>4. d \in Deliveries /\ n.dlv = d
  BY LegacyType DEF StateFromDeliveries
<1> HIDE DEF d
<1>5. Sound(n)
  BY <1>3, <1>4, SoundState
<1>6. \E k \in Recipients : d[k].st = "failed"
  <2>1. cfg \subseteq Recipients
    OBVIOUS
  <2>2. named # {}
    <3>1. Cardinality(named) = Cardinality(l.failed)
      BY DEF Identifies
    <3>2. CASE \E f, k \in Recipients : l.attempted = {f} /\ cfg = {k}
      <4>1. PICK f \in Recipients : l.failed = {f}
        BY <1>1, <3>2
      <4> QED BY <3>1, <4>1, FS_EmptySet, FS_Singleton
    <3>3. CASE MaskedIds(named) = MaskedIds(l.failed)
      BY <1>1, <3>3 DEF MaskedIds
    <3> QED BY <1>1, <3>2, <3>3
  <2> QED BY <1>1, <1>3, <2>1, <2>2
<1>7. ~Bare(n) /\ n.status # "none"
  BY <1>4, <1>5, <1>6 DEF Bare, Sound
<1>8. \A k \in Recipients : copies[r][k] = IF k \in l.attempted \ l.failed THEN 1 ELSE 0
  BY <1>2 DEF RecordSound, Account
<1>9. \A k \in Recipients : copies[r][k] \in Nat /\ doubt[r][k] \in Nat
  BY DEF TypeOK
<1>10. \A k \in Recipients : /\ d[k].st = "sent" => Delivered(r, k)
                             /\ Unresolved(d[k].st) => Owed(r, k)
  <2>1. ASSUME NEW k \in cfg \ named PROVE k \notin l.failed
    <3>1. CASE \E f, e \in Recipients : l.attempted = {f} /\ cfg = {e}
      <4> QED BY <1>1, <1>6, <1>3, <2>1, <3>1
    <3>2. ASSUME MaskedIds(named) = MaskedIds(l.failed), k \in l.failed,
                 \A i \in named, e \in cfg : MaskedId[i] = MaskedId[e] => i = e
          PROVE  FALSE
      <4>1. PICK i \in named : MaskedId[i] = MaskedId[k]
        BY <3>2 DEF MaskedIds
      <4> QED BY <2>1, <3>2, <4>1
    <3> QED BY <1>1, <3>1, <3>2
  <2>2. ASSUME NEW k \in named PROVE k \notin l.attempted \ l.failed \/ Mistakable(l, k)
    BY <1>1, <2>2 DEF MaskedIds, Mistakable
  <2>3. ASSUME NEW k \in Recipients, d[k].st = "sent" PROVE Delivered(r, k)
    BY <1>2, <1>3, <1>8, <2>1, <2>3 DEF Delivered
  <2>4. ASSUME NEW k \in Recipients, Unresolved(d[k].st) PROVE Owed(r, k)
    BY <1>3, <1>8, <1>9, <2>2, <2>4 DEF Owed, Spare, Unresolved
  <2> QED BY <2>3, <2>4
<1>11. \A k \in Recipients : store[r].dlv[k].st = "none" /\ d[k].retryAt <= clock
  <2>1. at <= clock /\ 0 <= clock
    BY DEF TypeOK
  <2> QED BY <1>3, <2>1 DEF Bare
<1>12. \A k \in Selected(Recovery, n, at) : k \in Recipients
  BY DEF Selected
<1> HIDE DEF n
<1>13. Fits(Recovery, r, at, n)
  BY <1>4, <1>5, <1>7, <1>10, <1>11, <1>12 DEF Fits
<1> QED BY <1>13 DEF n, d

\* A record nobody has been messaged about.
LEMMA FitsPending ==
  ASSUME TypeOK, NEW r \in Records, RecordSound(r), NEW j \in Jobs, NEW at \in Nat,
         NEW cfg \in SUBSET Recipients, cfg # {},
         Bare(store[r]), Open(store[r]), store[r].status # "failed"
  PROVE  Fits(j, r, at, StateFromDeliveries(PendingDeliveries(cfg)))
<1> DEFINE d == PendingDeliveries(cfg)
           n == StateFromDeliveries(d)
<1>1. r \notin LegacyRecords /\ store[r].status # "skipped"
  BY DEF RecordSound, LegacySound, Open
<1>2. \A k \in Recipients :
        d[k].st = (IF k \in cfg THEN "pending" ELSE "none") /\ d[k].retryAt = 0
  BY DEF PendingDeliveries, NoDelivery
<1>3. d \in Deliveries /\ n.dlv = d
  BY PendingType DEF StateFromDeliveries
<1> HIDE DEF d
<1>4. Sound(n)
  BY <1>2, <1>3, SoundState
<1>5. \E k \in Recipients : d[k].st = "pending"
  BY <1>2
<1>6. ~Bare(n) /\ n.status # "none"
  BY <1>3, <1>4, <1>5 DEF Bare, Sound
<1>7. \A k \in Recipients : store[r].dlv[k].st = "none" /\ copies[r][k] = 0 /\ doubt[r][k] \in Nat
  BY <1>1 DEF Bare, RecordSound, Account, TypeOK
<1>8. \A k \in Recipients : d[k].st # "sent" /\ Owed(r, k) /\ d[k].retryAt <= clock
  <2>1. clock \in Nat
    BY DEF TypeOK
  <2> QED BY <1>2, <1>7, <2>1, SpareType DEF Owed
<1> HIDE DEF n
<1>9. Fits(j, r, at, n)
  BY <1>1, <1>3, <1>4, <1>6, <1>7, <1>8 DEF Fits, Selected
<1> QED BY <1>9 DEF n, d

\* A legacy failure that is closed without sending.
LEMMA FitsClosed ==
  ASSUME TypeOK, NEW r \in Records, NEW at \in Nat, Bare(store[r])
  PROVE  Fits(Recovery, r, at, [status |-> "skipped", dlv |-> NoDeliveries])
  BY DEF Fits, Sound, Bare, Selected, Unresolved, NoDeliveries, NoDelivery

-----------------------------------------------------------------------------
(* Whose sends are in doubt.                                                *)

LEMMA NoneAccepted ==
  ASSUME OneProcess, NEW p \in Processes, NEW r \in Records, LockFree(p, r)
  PROVE  \A k : ~Accepted(r, k)
  BY DEF OneProcess, LockFree, Accepted, Locked

LEMMA OneAccepted ==
  ASSUME OneProcess, OneLock, NEW p \in Processes, NEW j \in Jobs, task[p][j].pc \in Locked,
         NEW k
  PROVE  Accepted(task[p][j].rec, k) <=> task[p][j].pc = "accepted" /\ task[p][j].key = k
  BY DEF OneProcess, OneLock, Accepted, Locked

-----------------------------------------------------------------------------
(* The decision after the first read.                                       *)

\* What a job may be after it: without the lock, about to write or to send.
Decided(p, j, r, at, u) ==
  \/ u = Released(p, j)
  \/ \E n : u = Writing(r, n, at) /\ Fits(j, r, at, n)
  \/ /\ u = Attempting(p, j, r, store[r], at)
     /\ \A k \in Selected(j, store[r], at) : store[r].dlv[k].retryAt <= clock

LEMMA InitializedFits ==
  ASSUME TypeOK, NEW r \in Records, RecordSound(r), NEW j \in Jobs, NEW at \in Nat, at <= clock,
         NEW cfg \in SUBSET Recipients, cfg # {}, Open(store[r]),
         j = Recovery \/ store[r].status # "failed",
         \A k \in Recipients : ~Accepted(r, k),
         NEW f \in Initialized(store[r], legacy[r], cfg, at), f # store[r]
  PROVE  Fits(j, r, at, f)
<1>1. CASE HasDeliveries(store[r])
  <2>1. /\ f = StateFromDeliveries(Reconciled(store[r].dlv, cfg))
        /\ Reconciled(store[r].dlv, cfg) # store[r].dlv
    BY <1>1 DEF Initialized
  <2> QED BY <1>1, <2>1, FitsReconciled
<1>2. CASE ~HasDeliveries(store[r]) /\ store[r].status = "failed"
  <2>1. Bare(store[r]) /\ j = Recovery
    BY <1>2 DEF HasDeliveries, Bare
  <2>2. CASE f = [status |-> "skipped", dlv |-> NoDeliveries]
    BY <2>1, <2>2, FitsClosed
  <2>3. ASSUME NEW named, f = StateFromDeliveries(LegacyDeliveries(cfg, named, at)),
               Identifies(legacy[r], cfg, named)
        PROVE  Fits(j, r, at, f)
    BY <1>2, <2>1, <2>3, FitsLegacy
  <2> QED BY <1>2, <2>2, <2>3 DEF Initialized, LegacyOutcomes
<1>3. CASE ~HasDeliveries(store[r]) /\ store[r].status # "failed"
  <2>1. f = StateFromDeliveries(PendingDeliveries(cfg))
    BY <1>3 DEF Initialized
  <2>2. Bare(store[r])
    BY <1>3 DEF HasDeliveries, Bare
  <2> QED BY <1>3, <2>1, <2>2, FitsPending
<1> QED BY <1>1, <1>2, <1>3

LEMMA DecideFits ==
  ASSUME TypeOK, NEW p \in Processes, NEW j \in Jobs, NEW r \in Records, NEW at \in Nat,
         RecordSound(r), at <= clock, config[p] # {}, Open(store[r]),
         \A k \in Recipients : ~Accepted(r, k),
         j = Recovery \/ policy[r] = "notify",
         Decide(p, j, r, at)
  PROVE  \E u : SetTask(p, j, u) /\ Decided(p, j, r, at, u)
<1> DEFINE e == store[r]
<1>1. e \in Entry /\ Sound(e) /\ clock \in Nat /\ config[p] \in SUBSET Recipients
  BY DEF TypeOK, RecordSound
<1>2. CASE policy[r] = "suppress"
  <2>1. Fits(j, r, at, Suppressed(e))
    BY <1>2, FitsSuppressed
  <2> QED BY <1>2, <2>1 DEF Decide, Decided
<1>3. CASE policy[r] # "suppress" /\ j # Recovery /\ e.status = "failed"
  BY <1>3 DEF Decide, Decided
<1>4. CASE policy[r] # "suppress" /\ ~(j # Recovery /\ e.status = "failed")
  <2>1. PICK f \in Initialized(e, legacy[r], config[p], at) :
          SetTask(p, j, IF f = e THEN Attempting(p, j, r, f, at) ELSE Writing(r, f, at))
    BY <1>4 DEF Decide
  <2>2. CASE f = e
    <3>1. \A k \in Selected(j, e, at) : e.dlv[k].retryAt <= clock
      BY <1>1, <1>4, SelectedDue
    <3> QED BY <2>1, <2>2, <3>1 DEF Decided
  <2>3. CASE f # e
    <3>1. Fits(j, r, at, f)
      BY <1>1, <1>4, <2>3, InitializedFits
    <3> QED BY <2>1, <2>3, <3>1 DEF Decided
  <2> QED BY <2>2, <2>3
<1> QED BY <1>2, <1>3, <1>4

-----------------------------------------------------------------------------
(* Steps that change one job, and steps that change its record, too.        *)

LEMMA FitsKept ==
  ASSUME NEW j, NEW r, NEW at, NEW n, Fits(j, r, at, n), UNCHANGED <<legacy, clock>>,
         store'[r] = store[r], copies'[r] = copies[r], doubt'[r] = doubt[r]
  PROVE  Fits(j, r, at, n)'
<1>1. \A k : (Delivered(r, k) => Delivered(r, k)') /\ (Owed(r, k) => Owed(r, k)')
  BY DEF Delivered, Owed
<1> QED BY <1>1 DEF Fits

\* What another job works at stays as it is.
LEMMA WorksKept ==
  ASSUME NEW p, NEW i \in Jobs, NEW t, Works(p, i, t),
         UNCHANGED <<legacy, clock, policy, config>>, i = Recovery => UNCHANGED scan,
         \A q \in Records : store[q].status # "none" => store'[q].status # "none",
         t.pc \in Locked => /\ store'[t.rec] = store[t.rec]
                            /\ copies'[t.rec] = copies[t.rec]
                            /\ doubt'[t.rec] = doubt[t.rec]
  PROVE  Works(p, i, t)'
<1>1. t.pc = "write" => Fits(i, t.rec, t.at, t.plan)'
  BY FitsKept DEF Works, Locked
<1>2. i # Recovery => i \in Records
  BY DEF Jobs
<1> QED BY <1>1, <1>2 DEF Works, Locked, Sending

LEMMA QuietStep ==
  ASSUME OneProcess, TypeOK, SingleInv, NEW p \in Processes, NEW j \in Jobs, NEW u,
         SetTask(p, j, u),
         UNCHANGED <<store, copies, doubt, legacy, policy, config, clock>>,
         j # Recovery => UNCHANGED scan,
         task[p][j].pc # "accepted",
         u.pc \in Locked => \/ LockFree(p, u.rec)
                            \/ task[p][j].pc \in Locked /\ task[p][j].rec = u.rec,
         Works(p, j, u)', ScanOpen(p)'
  PROVE  SingleInv'
<1>1. task'[p][j] = u /\ \A i \in Jobs : i # j => task'[p][i] = task[p][i]
  BY DEF SetTask, TypeOK
<1>2. \A q \in Processes : q = p
  BY DEF OneProcess
<1>3. \A r \in Records : RecordSound(r)'
  <2> TAKE r \in Records
  <2>1. \A k \in Recipients : Accepted(r, k) => Accepted(r, k)'
    BY <1>1, <1>2 DEF Accepted
  <2>2. \A k \in Recipients : Account(r, k) => Account(r, k)'
    BY <2>1 DEF Account, Owed, Delivered
  <2> QED BY <2>2 DEF SingleInv, RecordSound, LegacySound
<1>4. Working'
  <2> SUFFICES ASSUME NEW i \in Jobs PROVE Works(p, i, task[p][i])'
    BY <1>2 DEF Working
  <2>1. CASE i = j
    BY <1>1, <2>1
  <2>2. CASE i # j
    <3>1. Works(p, i, task[p][i]) /\ task'[p][i] = task[p][i]
      BY <1>1, <2>2 DEF SingleInv, Working
    <3>2. i = Recovery => UNCHANGED scan
      BY <2>2
    <3> QED BY <3>1, <3>2, WorksKept
  <2> QED BY <2>1, <2>2
<1>5. OneLock'
  <2> SUFFICES ASSUME NEW i1 \in Jobs, NEW i2 \in Jobs,
                      task'[p][i1].pc \in Locked, task'[p][i2].pc \in Locked,
                      task'[p][i1].rec = task'[p][i2].rec
               PROVE  i1 = i2
    BY <1>2 DEF OneLock
  <2> QED BY <1>1 DEF SingleInv, OneLock, LockFree
<1>6. \A q \in Processes : ScanOpen(q)'
  BY <1>2
<1> QED BY <1>3, <1>4, <1>5, <1>6 DEF SingleInv

LEMMA RecordStep ==
  ASSUME OneProcess, TypeOK, SingleInv, NEW p \in Processes, NEW j \in Jobs,
         NEW r \in Records, NEW u, SetTask(p, j, u),
         task[p][j].pc \in Locked, task[p][j].rec = r, u.pc \in Locked, u.rec = r,
         UNCHANGED <<legacy, policy, config, clock, scan>>,
         \A q \in Records : q # r => /\ store'[q] = store[q]
                                     /\ copies'[q] = copies[q]
                                     /\ doubt'[q] = doubt[q],
         store'[r].status # "none", j = Recovery \/ Open(store'[r]),
         RecordSound(r)', Works(p, j, u)'
  PROVE  SingleInv'
<1>1. task'[p][j] = u /\ \A i \in Jobs : i # j => task'[p][i] = task[p][i]
  BY DEF SetTask, TypeOK
<1>2. \A q \in Processes : q = p
  BY DEF OneProcess
<1>3. ASSUME NEW q \in Records PROVE RecordSound(q)'
  <2>1. CASE q = r
    BY <2>1
  <2>2. CASE q # r
    <3>1. \A k \in Recipients : Accepted(q, k) => Accepted(q, k)'
      BY <1>1, <1>2, <2>2 DEF Accepted
    <3>2. \A k \in Recipients : Account(q, k) => Account(q, k)'
      BY <2>2, <3>1 DEF Account, Owed, Delivered
    <3> QED BY <2>2, <3>2 DEF SingleInv, RecordSound, LegacySound
  <2> QED BY <2>1, <2>2
<1>4. Working'
  <2> SUFFICES ASSUME NEW i \in Jobs PROVE Works(p, i, task[p][i])'
    BY <1>2 DEF Working
  <2>1. CASE i = j
    BY <1>1, <2>1
  <2>2. CASE i # j
    <3>1. Works(p, i, task[p][i]) /\ task'[p][i] = task[p][i]
      BY <1>1, <2>2 DEF SingleInv, Working
    <3>2. task[p][i].pc \in Locked => task[p][i].rec # r
      BY <2>2 DEF SingleInv, OneLock
    <3>3. \A q \in Records : store[q].status # "none" => store'[q].status # "none"
      OBVIOUS
    <3>4. task[p][i].pc \in Locked =>
            /\ store'[task[p][i].rec] = store[task[p][i].rec]
            /\ copies'[task[p][i].rec] = copies[task[p][i].rec]
            /\ doubt'[task[p][i].rec] = doubt[task[p][i].rec]
      BY <3>1, <3>2 DEF Works
    <3> QED BY <3>1, <3>3, <3>4, WorksKept
  <2> QED BY <2>1, <2>2
<1>5. OneLock'
  <2> SUFFICES ASSUME NEW i1 \in Jobs, NEW i2 \in Jobs,
                      task'[p][i1].pc \in Locked, task'[p][i2].pc \in Locked,
                      task'[p][i1].rec = task'[p][i2].rec
               PROVE  i1 = i2
    BY <1>2 DEF OneLock
  <2> QED BY <1>1 DEF SingleInv, OneLock
<1>6. ScanOpen(p)'
  <2>1. ScanOpen(p) /\ Recovery \in Jobs
    BY DEF SingleInv, Jobs
  <2>2. task'[p][Recovery].pc \in {"idle", "query"} => task[p][Recovery].pc \in {"idle", "query"}
    BY <1>1, <2>1 DEF Locked
  <2>3. j = Recovery => r \in scan[p].done
    BY DEF SingleInv, Working, Works
  <2>4. \A st \in {"pending", "failed"} : scan[p].kept[st] \subseteq Records
    BY DEF TypeOK, Scan
  <2>5. \A q \in Records : q # r /\ Open(store[q]) => Open(store'[q])
    OBVIOUS
  <2> QED BY <2>1, <2>2, <2>3, <2>4, <2>5 DEF ScanOpen
<1> QED BY <1>2, <1>3, <1>4, <1>5, <1>6 DEF SingleInv

-----------------------------------------------------------------------------
(* Every action keeps the invariant.                                        *)

LEMMA IdleWorks ==
  ASSUME TypeOK, NEW p \in Processes, NEW j \in Jobs
  PROVE  Works(p, j, Idle)
  BY DEF Works, Idle, TypeOK, Locked, Sending

LEMMA ReleasedWorks ==
  ASSUME TypeOK, NEW p \in Processes, NEW j \in Jobs, Works(p, j, task[p][j]),
         task[p][j].pc # "idle"
  PROVE  /\ Works(p, j, Released(p, j))
         /\ Released(p, j).pc \notin Locked
         /\ j = Recovery => Released(p, j).pc = "ready"
<1>1. CASE j = Recovery
  BY <1>1 DEF Released, Idle, Works, Locked, Sending
<1>2. CASE j # Recovery
  BY <1>2, IdleWorks DEF Released, Idle, Locked
<1> QED BY <1>1, <1>2

LEMMA DecidedWorks ==
  ASSUME TypeOK, NEW p \in Processes, NEW j \in Jobs, NEW r \in Records, NEW at \in Nat, NEW u,
         Works(p, j, task[p][j]), task[p][j].pc # "idle", Decided(p, j, r, at, u),
         at <= clock, config[p] # {}, store[r].status # "none",
         j # Recovery => j = r /\ policy[r] = "notify",
         UNCHANGED <<store, copies, doubt, legacy, policy, config, clock>>,
         j = Recovery => r \in scan'[p].done
  PROVE  /\ Works(p, j, u)'
         /\ u.pc \in Locked => u.rec = r
         /\ j = Recovery => u.pc \notin {"idle", "query"}
<1>1. CASE u = Released(p, j)
  <2>1. Works(p, j, u) /\ u.pc \notin Locked /\ (j = Recovery => u.pc = "ready")
    BY <1>1, ReleasedWorks
  <2> QED BY <2>1 DEF Works, Locked, Sending
<1>2. ASSUME NEW n, u = Writing(r, n, at), Fits(j, r, at, n)
      PROVE  /\ Works(p, j, u)'
             /\ u.pc \in Locked => u.rec = r
             /\ j = Recovery => u.pc \notin {"idle", "query"}
  <2>1. u.pc = "write" /\ u.rec = r /\ u.at = at /\ u.plan = n
    BY <1>2 DEF Writing, Idle
  <2>2. Fits(j, r, at, n)'
    BY <1>2, FitsKept
  <2> QED BY <2>1, <2>2 DEF Works, Locked, Sending
<1>3. CASE /\ u = Attempting(p, j, r, store[r], at)
           /\ \A k \in Selected(j, store[r], at) : store[r].dlv[k].retryAt <= clock
  <2>1. /\ u.pc = "attempt" /\ u.rec = r /\ u.at = at
        /\ \A k \in u.todo : store[r].dlv[k].retryAt <= clock
    BY <1>3 DEF Attempting, Idle
  <2> QED BY <2>1 DEF Works, Locked, Sending
<1> QED BY <1>1, <1>2, <1>3 DEF Decided

LEMMA NotifyReadKeeps ==
  ASSUME OneProcess, TypeOK, SingleInv, NEW p \in Processes, NEW r \in Records,
         NotifyRead(p, r)
  PROVE  SingleInv'
<1>1. /\ r \in Jobs /\ r # Recovery /\ task[p][r].pc = "ready" /\ LockFree(p, r)
      /\ UNCHANGED <<store, copies, doubt, legacy, policy, config, clock, scan>>
  BY ConstantsAssumption DEF NotifyRead, Jobs, Recovery
<1>2. Works(p, r, task[p][r]) /\ RecordSound(r) /\ ScanOpen(p)
  BY <1>1 DEF SingleInv, Working
<1>3. /\ config[p] # {} /\ policy[r] = "notify" /\ store[r].status # "none"
      /\ clock \in Nat
  BY <1>1, <1>2 DEF Works, TypeOK
<1>4. \E u : SetTask(p, r, u) /\ Decided(p, r, r, clock, u)
  <2>1. CASE Resolved(store[r].status)
    <3>1. Released(p, r) = Idle
      BY <1>1 DEF Released
    <3> QED BY <2>1, <3>1 DEF NotifyRead, Decided
  <2>2. CASE ~Resolved(store[r].status)
    <3>1. Open(store[r]) /\ Decide(p, r, r, clock)
      BY <1>3, <2>2 DEF Open, Resolved, NotifyRead
    <3>2. \A k \in Recipients : ~Accepted(r, k)
      BY <1>1, NoneAccepted
    <3> QED BY <1>1, <1>2, <1>3, <3>1, <3>2, DecideFits
  <2> QED BY <2>1, <2>2
<1>5. PICK u : SetTask(p, r, u) /\ Decided(p, r, r, clock, u)
  BY <1>4
<1>6. Works(p, r, u)' /\ (u.pc \in Locked => u.rec = r)
  BY <1>1, <1>2, <1>3, <1>5, DecidedWorks
<1>7. ScanOpen(p)'
  <2>1. task'[p][Recovery] = task[p][Recovery]
    BY <1>1, <1>5 DEF SetTask, TypeOK, Jobs
  <2> QED BY <1>1, <1>2, <2>1 DEF ScanOpen
<1> QED BY <1>1, <1>5, <1>6, <1>7, QuietStep

LEMMA RecoverReadKeeps ==
  ASSUME OneProcess, TypeOK, SingleInv, NEW p \in Processes, NEW r \in Records,
         RecoverRead(p, r)
  PROVE  SingleInv'
<1> DEFINE at == task[p][Recovery].at
<1>1. /\ Recovery \in Jobs /\ task[p][Recovery].pc = "ready" /\ LockFree(p, r)
      /\ UNCHANGED <<store, copies, doubt, legacy, policy, config, clock>>
      /\ scan' = [scan EXCEPT ![p] = [scan[p] EXCEPT !.done = scan[p].done \cup {r}]]
      /\ Decide(p, Recovery, r, at)
  BY DEF RecoverRead, Jobs
<1>2. Works(p, Recovery, task[p][Recovery]) /\ RecordSound(r) /\ ScanOpen(p)
  BY <1>1 DEF SingleInv, Working
<1>3. /\ scan'[p].done = scan[p].done \cup {r}
      /\ scan'[p].kept = scan[p].kept
  BY <1>1 DEF TypeOK, Scan
<1>4. Open(store[r])
  <2>1. \E st \in {"pending", "failed"} : r \in scan[p].kept[st] \ scan[p].done
    BY DEF RecoverRead, Candidates, Oldest
  <2> QED BY <1>2, <2>1 DEF ScanOpen
<1>5. at \in Nat /\ at <= clock /\ config[p] # {} /\ store[r].status # "none"
  BY <1>1, <1>2, <1>4 DEF Works, TypeOK, Task, Open
<1>6. PICK u : SetTask(p, Recovery, u) /\ Decided(p, Recovery, r, at, u)
  <2>1. \A k \in Recipients : ~Accepted(r, k)
    BY <1>1, NoneAccepted
  <2> QED BY <1>1, <1>2, <1>4, <1>5, <2>1, DecideFits
<1>7. Works(p, Recovery, u)' /\ (u.pc \in Locked => u.rec = r) /\ u.pc \notin {"idle", "query"}
  BY <1>1, <1>2, <1>3, <1>5, <1>6, DecidedWorks
<1>8. ScanOpen(p)'
  <2>1. task'[p][Recovery] = u
    BY <1>1, <1>6 DEF SetTask, TypeOK
  <2> QED BY <1>1, <1>2, <1>3, <1>7, <2>1 DEF ScanOpen
<1> QED BY <1>1, <1>6, <1>7, <1>8, QuietStep

LEMMA RunKeeps ==
  ASSUME OneProcess, TypeOK, SingleInv, NEW p \in Processes,
         \/ RecoverStart(p) \/ RecoverEnd(p)
         \/ \E st \in {"pending", "failed"} : RecoverQuery(p, st)
  PROVE  SingleInv'
<1> DEFINE t == task[p][Recovery]
<1>0. Recovery \in Jobs /\ t \in Task /\ Works(p, Recovery, t) /\ ScanOpen(p) /\ scan[p] \in Scan
  BY DEF SingleInv, Working, Jobs, TypeOK
<1>1. UNCHANGED <<store, copies, doubt, legacy, policy, config, clock>>
  BY DEF RecoverStart, RecoverEnd, RecoverQuery
<1>2. CASE RecoverStart(p)
  <2>1. PICK u : /\ u = [Idle EXCEPT !.pc = "query", !.at = clock]
                 /\ SetTask(p, Recovery, u)
    BY <1>2 DEF RecoverStart
  <2>2. /\ u.pc = "query" /\ u.at = clock /\ clock \in Nat
        /\ UNCHANGED scan /\ config[p] # {} /\ t.pc = "idle"
    BY <1>2, <2>1 DEF Idle, TypeOK, RecoverStart
  <2>3. Works(p, Recovery, u)'
    BY <1>1, <2>1, <2>2 DEF Works, Locked, Sending
  <2>4. ScanOpen(p)'
    BY <1>0, <1>1, <2>2 DEF ScanOpen
  <2> QED BY <1>0, <1>1, <2>1, <2>2, <2>3, <2>4, QuietStep DEF Locked
<1>3. CASE RecoverEnd(p)
  <2>1. SetTask(p, Recovery, Idle) /\ t.pc = "ready" /\ scan'[p] = NoScan
    BY <1>3 DEF RecoverEnd, TypeOK
  <2>2. Works(p, Recovery, Idle)'
    BY <1>0, <1>1, IdleWorks DEF Works, Idle, Locked, Sending
  <2>3. ScanOpen(p)'
    BY <2>1 DEF ScanOpen, NoScan
  <2> QED BY <1>0, <1>1, <2>1, <2>2, <2>3, QuietStep DEF Idle, Locked
<1>4. ASSUME NEW st \in {"pending", "failed"}, RecoverQuery(p, st)
      PROVE  SingleInv'
  <2>1. t.pc = "query"
    BY <1>4 DEF RecoverQuery
  <2>0. PICK pc \in {"ready", "query"} : SetTask(p, Recovery, [t EXCEPT !.pc = pc])
    BY <1>4 DEF RecoverQuery
  <2>2. PICK u : u = [t EXCEPT !.pc = pc] /\ SetTask(p, Recovery, u)
    BY <2>0
  <2>3. u.pc = pc /\ u.at = t.at
    BY <1>0, <2>2 DEF Task
  <2>4. Works(p, Recovery, u)'
    BY <1>0, <1>1, <2>1, <2>3 DEF Works, Locked, Sending
  <2>5. ScanOpen(p)'
    <3> DEFINE answer == Oldest({r \in Records : store[r].status = st}, ScanSize)
               kept == {r \in answer : \/ policy[r] = "suppress"
                          \/ NeedsRecoveryNow(store[r], config[p], t.at)}
    <3>1. \A r \in kept : r \in Records /\ store[r].status = st
      BY DEF Oldest
    <3>2. scan' = [scan EXCEPT ![p] = [asked |-> scan[p].asked \cup {st},
                     kept |-> [scan[p].kept EXCEPT ![st] = kept],
                     failed |-> IF st = "failed" THEN answer ELSE scan[p].failed,
                     done |-> {}]]
      BY <1>4 DEF RecoverQuery
    <3> HIDE DEF kept, answer
    <3>3. /\ scan'[p].done = {} /\ scan'[p].kept = [scan[p].kept EXCEPT ![st] = kept]
          /\ scan[p].kept \in [{"pending", "failed"} -> SUBSET Records]
      BY <1>0, <3>2 DEF TypeOK, Scan
    <3>4. scan[p].done = {}
      BY <1>0, <2>1 DEF ScanOpen
    <3>5. \A s \in {"pending", "failed"} : \A r \in scan'[p].kept[s] : Open(store[r])
      BY <1>0, <3>1, <3>3, <3>4 DEF ScanOpen, Open
    <3> QED BY <1>1, <3>3, <3>5 DEF ScanOpen, Open
  <2> QED BY <1>0, <1>1, <2>1, <2>2, <2>3, <2>4, <2>5, QuietStep DEF Locked
<1> QED BY <1>2, <1>3, <1>4

\* Steps under the lock that leave the record alone.
LEMMA StayKeeps ==
  ASSUME OneProcess, TypeOK, SingleInv, NEW p \in Processes, NEW j \in Jobs, NEW u,
         SetTask(p, j, u), UNCHANGED <<store, copies, doubt, legacy, policy, config, clock>>,
         task[p][j].pc # "accepted", task[p][j].pc \in Locked,
         u.pc \in Locked => u.rec = task[p][j].rec,
         j # Recovery => UNCHANGED scan,
         j = Recovery => UNCHANGED scan /\ u.pc \notin {"idle", "query"},
         Works(p, j, u)
  PROVE  SingleInv'
<1>1. Works(p, j, u)'
  BY WorksKept
<1>2. ScanOpen(p)'
  <2>1. task'[p][Recovery] = IF j = Recovery THEN u ELSE task[p][Recovery]
    BY DEF SetTask, TypeOK, Jobs
  <2> QED BY <2>1 DEF SingleInv, ScanOpen, Open
<1> QED BY <1>1, <1>2, QuietStep

LEMMA ReleaseKeeps ==
  ASSUME OneProcess, TypeOK, SingleInv, NEW p \in Processes, NEW j \in Jobs, Release(p, j)
  PROVE  SingleInv'
<1>1. /\ SetTask(p, j, Released(p, j)) /\ task[p][j].pc = "attempt"
      /\ UNCHANGED <<store, copies, doubt, legacy, policy, config, clock, scan>>
  BY DEF Release
<1>2. Works(p, j, task[p][j])
  BY DEF SingleInv, Working
<1>3. /\ Works(p, j, Released(p, j)) /\ Released(p, j).pc \notin Locked
      /\ j = Recovery => Released(p, j).pc = "ready"
  BY <1>1, <1>2, ReleasedWorks
<1> QED BY <1>1, <1>3, StayKeeps DEF Locked

LEMMA SendRejectedKeeps ==
  ASSUME OneProcess, TypeOK, SingleInv, NEW p \in Processes, NEW j \in Jobs,
         SendRejected(p, j)
  PROVE  SingleInv'
<1> DEFINE t == task[p][j]
           u == [t EXCEPT !.pc = "rejected"]
<1>1. /\ SetTask(p, j, u) /\ t.pc = "send"
      /\ UNCHANGED <<store, copies, doubt, legacy, policy, config, clock, scan>>
  BY DEF SendRejected
<1>2. Works(p, j, t) /\ t \in Task
  BY DEF SingleInv, Working, TypeOK
<1>3. /\ u.pc = "rejected" /\ u.rec = t.rec /\ u.at = t.at /\ u.todo = t.todo /\ u.key = t.key
  BY <1>2 DEF Task
<1> HIDE DEF u
<1>4. Works(p, j, u)
  BY <1>1, <1>2, <1>3 DEF Works, Locked, Sending
<1> QED BY <1>1, <1>3, <1>4, StayKeeps DEF Locked

LEMMA StoreErrorKeeps ==
  ASSUME OneProcess, TypeOK, SingleInv, NEW p \in Processes, NEW j \in Jobs, StoreError(p, j)
  PROVE  SingleInv'
<1>1. /\ SetTask(p, j, Idle) /\ task[p][j].pc # "accepted"
      /\ UNCHANGED <<store, copies, doubt, legacy, policy, config, clock>>
      /\ scan' = IF j = Recovery THEN [scan EXCEPT ![p] = NoScan] ELSE scan
  BY DEF StoreError
<1>2. Works(p, j, Idle)'
  BY <1>1, IdleWorks DEF Works, Idle, Locked, Sending
<1>3. ScanOpen(p)'
  <2>1. CASE j = Recovery
    BY <1>1, <2>1 DEF ScanOpen, NoScan, TypeOK
  <2>2. CASE j # Recovery
    <3>1. task'[p][Recovery] = task[p][Recovery]
      BY <1>1, <2>2 DEF SetTask, TypeOK, Jobs
    <3> QED BY <1>1, <2>2, <3>1 DEF SingleInv, ScanOpen, Open
  <2> QED BY <2>1, <2>2
<1> QED BY <1>1, <1>2, <1>3, QuietStep DEF Idle, Locked

LEMMA WriteStateKeeps ==
  ASSUME OneProcess, TypeOK, SingleInv, NEW p \in Processes, NEW j \in Jobs, WriteState(p, j)
  PROVE  SingleInv'
<1> DEFINE t == task[p][j]
<1>1. /\ t.pc = "write" /\ t.rec \in Records /\ Fits(j, t.rec, t.at, t.plan)
      /\ t \in Task /\ Works(p, j, t)
  <2>1. t.pc = "write" /\ t \in Task
    BY DEF WriteState, TypeOK
  <2>2. Works(p, j, t)
    BY DEF SingleInv, Working
  <2> QED BY <2>1, <2>2 DEF Works, Locked
<1>2. PICK r \in Records, at \in Nat, n \in Entry : r = t.rec /\ at = t.at /\ n = t.plan
  BY <1>1 DEF Task
<1>3. PICK u : u = Attempting(p, j, r, n, at) /\ SetTask(p, j, u)
  BY <1>2 DEF WriteState
<1>4. /\ store' = [store EXCEPT ![r] = n]
      /\ UNCHANGED <<policy, legacy, config, clock, scan, copies, doubt>>
  BY <1>2 DEF WriteState
<1>5. store'[r] = n /\ \A q \in Records : q # r => store'[q] = store[q]
  BY <1>4 DEF TypeOK
<1>6. u.pc = "attempt" /\ u.rec = r /\ u.at = at /\ u.todo = Selected(j, n, at)
  BY <1>3 DEF Attempting, Idle
<1>7. Fits(j, r, at, n) /\ RecordSound(r)
  BY <1>1, <1>2 DEF SingleInv
<1>8. Works(p, j, u)'
  <2>1. \A k \in u.todo : n.dlv[k].retryAt <= clock
    BY <1>6, <1>7 DEF Fits, Selected
  <2>2. n.status # "none"
    BY <1>7 DEF Fits
  <2>3. /\ j # Recovery => r = j /\ policy[j] = "notify"
        /\ config[p] # {} /\ at <= clock /\ (j = Recovery => r \in scan[p].done)
    BY <1>1, <1>2 DEF Works, Locked
  <2> QED BY <1>4, <1>5, <1>6, <2>1, <2>2, <2>3 DEF Works, Locked, Sending
<1>9. RecordSound(r)'
  <2>1. Sound(n)
    BY <1>7 DEF Fits
  <2>2. Bare(n) => n.status = "skipped" /\ Bare(store[r])
    BY <1>7 DEF Fits, Bare
  <2>3. ASSUME NEW k \in Recipients PROVE Account(r, k)'
    BY <1>4, <1>5, <1>7, <2>2, <2>3 DEF Fits, RecordSound, Account, Owed, Delivered
  <2> QED BY <1>4, <1>5, <1>7, <2>1, <2>2, <2>3 DEF RecordSound, LegacySound
<1>10. n.status # "none" /\ (j = Recovery \/ Open(n))
  BY <1>7 DEF Fits, Open
<1>11. /\ SetTask(p, j, u) /\ t.pc \in Locked /\ t.rec = r /\ u.pc \in Locked /\ u.rec = r
       /\ UNCHANGED <<legacy, policy, config, clock, scan>>
       /\ \A q \in Records : q # r => /\ store'[q] = store[q]
                                      /\ copies'[q] = copies[q]
                                      /\ doubt'[q] = doubt[q]
  BY <1>1, <1>2, <1>3, <1>4, <1>5, <1>6 DEF Locked
<1> QED BY <1>5, <1>8, <1>9, <1>10, <1>11, RecordStep

\* What is known of the record a job has the lock of.
LEMMA LockedFacts ==
  ASSUME OneProcess, TypeOK, SingleInv, NEW p \in Processes, NEW j \in Jobs,
         task[p][j].pc \in Locked, task[p][j].pc # "write",
         NEW r, r = task[p][j].rec
  PROVE  /\ r \in Records /\ RecordSound(r) /\ store[r] \in Entry
         /\ store[r].dlv \in Deliveries
         /\ task[p][j] \in Task /\ Works(p, j, task[p][j])
         /\ \A k \in Recipients : copies[r][k] \in Nat /\ doubt[r][k] \in Nat
         /\ \A k \in Recipients :
              Unresolved(store[r].dlv[k].st) =>
                Owed(r, k) \/ (task[p][j].pc = "accepted" /\ task[p][j].key = k)
<1>1. r \in Records /\ Works(p, j, task[p][j])
  <2>1. Works(p, j, task[p][j])
    BY DEF SingleInv, Working
  <2> QED BY <2>1 DEF Works
<1>2. RecordSound(r) /\ store[r] \in Entry /\ task[p][j] \in Task
  BY <1>1 DEF SingleInv, TypeOK
<1>3. \A k \in Recipients : Accepted(r, k) <=> task[p][j].pc = "accepted" /\ task[p][j].key = k
  BY OneAccepted DEF SingleInv
<1>4. \A k \in Recipients : copies[r][k] \in Nat /\ doubt[r][k] \in Nat
  BY <1>1 DEF TypeOK
<1>5. store[r].dlv \in Deliveries
  BY <1>2 DEF Entry, Deliveries
<1> QED BY <1>1, <1>2, <1>3, <1>4, <1>5 DEF RecordSound, Account

\* A transaction changes one delivery, d to n, and the copies and doubts stay.
LEMMA DeliveryKeeps ==
  ASSUME TypeOK, NEW r \in Records, RecordSound(r), NEW k \in Recipients, NEW n \in Delivery,
         store' = [store EXCEPT ![r] = StateFromDeliveries([store[r].dlv EXCEPT ![k] = n])],
         UNCHANGED <<copies, doubt, legacy>>,
         store[r].dlv[k].st # "none", n.st # "none",
         n.st = "pending" => n.retryAt = 0,
         n.st = "sent" => Delivered(r, k),
         Unresolved(n.st) => Owed(r, k),
         \A i \in Recipients : i # k /\ Unresolved(store[r].dlv[i].st) => Owed(r, i)
  PROVE  /\ RecordSound(r)'
         /\ store'[r].status # "none" /\ Open(store'[r])
         /\ store'[r].dlv[k] = n
         /\ \A i \in Recipients : i # k => store'[r].dlv[i] = store[r].dlv[i]
<1> DEFINE d == [store[r].dlv EXCEPT ![k] = n]
           e == StateFromDeliveries(d)
<1>1. d \in Deliveries /\ e.dlv = d /\ store'[r] = e
  BY DEF TypeOK, Entry, Deliveries, StateFromDeliveries
<1>2. d[k] = n /\ \A i \in Recipients : i # k => d[i] = store[r].dlv[i]
  BY DEF TypeOK, Entry
<1>3. Sound(e)
  <2> HIDE DEF d
  <2>1. \A i \in Recipients : d[i].st \in {"none", "pending"} => d[i].retryAt = 0
    BY <1>2 DEF RecordSound, Sound
  <2> QED BY <1>1, <2>1, SoundState
<1> HIDE DEF d, e
<1>4. ~Bare(e) /\ ~Bare(store[r])
  BY <1>1, <1>2 DEF Bare
<1>5. e.status # "none" /\ Open(e)
  BY <1>3, <1>4 DEF Sound, Open
<1>6. ASSUME NEW i \in Recipients PROVE Account(r, i)'
  <2>1. CASE i = k
    BY <1>1, <1>2, <1>4, <2>1 DEF RecordSound, Account, Owed, Delivered
  <2>2. CASE i # k
    <3>1. store'[r].dlv[i] = store[r].dlv[i]
      BY <1>1, <1>2, <2>2
    <3> QED BY <1>1, <1>4, <2>2, <3>1 DEF RecordSound, Account, Owed, Delivered
  <2> QED BY <2>1, <2>2
<1>7. RecordSound(r)'
  BY <1>1, <1>3, <1>4, <1>6 DEF RecordSound, LegacySound
<1> QED BY <1>1, <1>2, <1>5, <1>7

LEMMA PrepareAttemptKeeps ==
  ASSUME OneProcess, TypeOK, SingleInv, NEW p \in Processes, NEW j \in Jobs,
         NEW k \in Recipients, PrepareAttempt(p, j, k)
  PROVE  SingleInv'
<1> DEFINE t == task[p][j]
<1>1. PICK r : r = t.rec
  OBVIOUS
<1>2. /\ t.pc = "attempt" /\ k \in t.todo
      /\ UNCHANGED <<copies, doubt, legacy, policy, config, clock, scan>>
  BY DEF PrepareAttempt
<1>3. /\ r \in Records /\ RecordSound(r) /\ store[r] \in Entry /\ t \in Task /\ Works(p, j, t)
      /\ \A i \in Recipients : Unresolved(store[r].dlv[i].st) => Owed(r, i)
  BY <1>1, <1>2, LockedFacts DEF Locked
<1>4. CASE ~Unresolved(store[r].dlv[k].st)
  <2>1. PICK u : u = [t EXCEPT !.todo = t.todo \ {k}] /\ SetTask(p, j, u) /\ UNCHANGED store
    BY <1>1, <1>4 DEF PrepareAttempt
  <2>2. u.pc = t.pc /\ u.rec = t.rec /\ u.at = t.at /\ u.todo = t.todo \ {k} /\ u.key = t.key
    BY <1>3, <2>1 DEF Task
  <2>3. Works(p, j, u)
    BY <1>2, <1>3, <2>2 DEF Works, Locked, Sending
  <2> QED BY <1>2, <2>1, <2>2, <2>3, StayKeeps DEF Locked
<1>5. CASE Unresolved(store[r].dlv[k].st)
  <2>1. PICK u : u = [t EXCEPT !.pc = "send", !.key = k, !.todo = t.todo \ {k}] /\ SetTask(p, j, u)
    BY <1>1, <1>5 DEF PrepareAttempt
  <2>2. u.pc = "send" /\ u.rec = r /\ u.at = t.at /\ u.todo = t.todo \ {k} /\ u.key = k
    BY <1>1, <1>3, <2>1 DEF Task
  <2>3. PICK n : n = [st |-> "pending", attempts |-> store[r].dlv[k].attempts + 1, retryAt |-> 0]
    OBVIOUS
  <2>4. store' = [store EXCEPT ![r] = StateFromDeliveries([store[r].dlv EXCEPT ![k] = n])]
    BY <1>1, <1>5, <2>3 DEF PrepareAttempt
  <2>5. n \in Delivery /\ n.st = "pending" /\ n.retryAt = 0
    BY <1>3, <2>3 DEF Entry, Delivery, DeliveryStatus
  <2>6. /\ RecordSound(r)' /\ store'[r].status # "none" /\ Open(store'[r])
        /\ store'[r].dlv[k] = n
        /\ \A i \in Recipients : i # k => store'[r].dlv[i] = store[r].dlv[i]
    <3>1. /\ store[r].dlv[k].st # "none" /\ n.st # "none" /\ n.st # "sent"
          /\ Owed(r, k) /\ UNCHANGED <<copies, doubt, legacy>>
      BY <1>2, <1>3, <1>5, <2>5 DEF Unresolved
    <3> QED BY <1>3, <2>4, <2>5, <3>1, DeliveryKeeps
  <2>7. \A q \in Records : q # r => store'[q] = store[q]
    BY <2>4 DEF TypeOK
  <2>8. t.todo \subseteq Recipients
    BY <1>3 DEF Task
  <2>9. Works(p, j, u)'
    <3>1. \A i \in u.todo : store'[r].dlv[i].retryAt <= clock
      BY <1>1, <1>2, <1>3, <2>2, <2>6, <2>8 DEF Works, Locked
    <3>2. j # Recovery => r = j /\ policy[j] = "notify"
      BY <1>1, <1>2, <1>3 DEF Works
    <3>3. config[p] # {} /\ u.at <= clock /\ (j = Recovery => r \in scan[p].done)
      BY <1>1, <1>2, <1>3, <2>2 DEF Works, Locked
    <3> QED BY <1>2, <1>3, <2>2, <2>5, <2>6, <3>1, <3>2, <3>3 DEF Works, Locked, Sending
  <2>10. /\ SetTask(p, j, u) /\ t.pc \in Locked /\ t.rec = r /\ u.pc \in Locked /\ u.rec = r
         /\ UNCHANGED <<legacy, policy, config, clock, scan>>
         /\ \A q \in Records : q # r => /\ store'[q] = store[q]
                                        /\ copies'[q] = copies[q]
                                        /\ doubt'[q] = doubt[q]
    BY <1>1, <1>2, <2>1, <2>2, <2>7 DEF Locked
  <2> QED BY <1>3, <2>6, <2>9, <2>10, RecordStep
<1> QED BY <1>4, <1>5

\* Both ways in which a message reaches the chat.
LEMMA SendKeeps ==
  ASSUME OneProcess, TypeOK, SingleInv, NEW p \in Processes, NEW j \in Jobs,
         SendAccepted(p, j) \/ SendTimedOut(p, j)
  PROVE  SingleInv'
<1> DEFINE t == task[p][j]
<1>1. PICK r, k : r = t.rec /\ k = t.key
  OBVIOUS
<1>2. /\ t.pc = "send" /\ copies' = [copies EXCEPT ![r][k] = @ + 1]
      /\ UNCHANGED <<store, legacy, policy, config, clock, scan>>
  BY <1>1 DEF SendAccepted, SendTimedOut
<1>3. /\ r \in Records /\ RecordSound(r) /\ t \in Task /\ Works(p, j, t)
      /\ \A i \in Recipients : Unresolved(store[r].dlv[i].st) => Owed(r, i)
      /\ \A i \in Recipients : copies[r][i] \in Nat /\ doubt[r][i] \in Nat
  BY <1>1, <1>2, LockedFacts DEF Locked
<1>4. k \in Recipients \ t.todo /\ store[r].dlv[k].st = "pending" /\ ~Bare(store[r])
  BY <1>1, <1>2, <1>3 DEF Works, Sending, Bare
<1>0. PICK pc \in {"accepted", "rejected"} :
         /\ SetTask(p, j, [t EXCEPT !.pc = pc])
         /\ pc = "accepted" => UNCHANGED doubt
         /\ pc = "rejected" => doubt' = [doubt EXCEPT ![r][k] = @ + 1]
  BY <1>1 DEF SendAccepted, SendTimedOut
<1>5. PICK u : /\ u = [t EXCEPT !.pc = pc] /\ SetTask(p, j, u)
               /\ pc = "accepted" => UNCHANGED doubt
               /\ pc = "rejected" => doubt' = [doubt EXCEPT ![r][k] = @ + 1]
  BY <1>0
<1>6. u.pc = pc /\ u.rec = r /\ u.at = t.at /\ u.todo = t.todo /\ u.key = k
  BY <1>1, <1>3, <1>5 DEF Task
<1>7. /\ copies'[r][k] = copies[r][k] + 1
      /\ doubt'[r][k] = IF pc = "rejected" THEN doubt[r][k] + 1 ELSE doubt[r][k]
      /\ \A i \in Recipients : i # k => copies'[r][i] = copies[r][i] /\ doubt'[r][i] = doubt[r][i]
      /\ \A q \in Records : q # r => copies'[q] = copies[q] /\ doubt'[q] = doubt[q]
  BY <1>2, <1>3, <1>4, <1>5 DEF TypeOK
<1>8. ASSUME NEW i \in Recipients PROVE Account(r, i)'
  <2>1. CASE i = k
    <3>1. Owed(r, k) /\ copies[r][k] \in Nat /\ doubt[r][k] \in Nat
      BY <1>3, <1>4 DEF Unresolved
    <3>2. /\ (copies[r][k] <= 1 + doubt[r][k] + Spare(legacy[r], k))'
          /\ pc = "rejected" => Owed(r, k)'
      BY <1>2, <1>7, <3>1, SpareType DEF Owed
    <3>3. pc = "accepted" => Accepted(r, k)'
      <4>1. task'[p][j] = u
        BY <1>5 DEF SetTask, TypeOK
      <4> QED BY <1>6, <4>1 DEF Accepted
    <3> QED BY <1>2, <1>4, <2>1, <3>2, <3>3 DEF Account
  <2>2. CASE i # k
    BY <1>2, <1>3, <1>4, <1>7, <2>2 DEF RecordSound, Account, Owed, Delivered
  <2> QED BY <2>1, <2>2
<1>9. RecordSound(r)'
  BY <1>2, <1>3, <1>8 DEF RecordSound, LegacySound
<1>10. Works(p, j, u)'
  <2>1. copies'[r][k] >= 1
    BY <1>3, <1>4, <1>7
  <2> QED BY <1>1, <1>2, <1>3, <1>6, <2>1 DEF Works, Locked, Sending
<1>11. store[r].status # "none" /\ Open(store[r])
  BY <1>3, <1>4 DEF RecordSound, Sound, Open
<1>12. /\ SetTask(p, j, u) /\ t.pc \in Locked /\ t.rec = r /\ u.pc \in Locked /\ u.rec = r
       /\ UNCHANGED <<legacy, policy, config, clock, scan>>
       /\ \A q \in Records : q # r => /\ store'[q] = store[q]
                                      /\ copies'[q] = copies[q]
                                      /\ doubt'[q] = doubt[q]
  BY <1>1, <1>2, <1>5, <1>6, <1>7 DEF Locked
<1>13. store'[r] = store[r]
  BY <1>2
<1> QED BY <1>3, <1>9, <1>10, <1>11, <1>12, <1>13, RecordStep

LEMMA RecordSentFailsKeeps ==
  ASSUME OneProcess, TypeOK, SingleInv, NEW p \in Processes, NEW j \in Jobs,
         RecordSentFails(p, j)
  PROVE  SingleInv'
<1> DEFINE t == task[p][j]
<1>1. PICK r, k : r = t.rec /\ k = t.key
  OBVIOUS
<1>2. /\ t.pc = "accepted" /\ doubt' = [doubt EXCEPT ![r][k] = @ + 1]
      /\ UNCHANGED <<store, copies, legacy, policy, config, clock, scan>>
  BY <1>1 DEF RecordSentFails
<1>3. /\ r \in Records /\ RecordSound(r) /\ t \in Task /\ Works(p, j, t)
      /\ \A i \in Recipients : i # k /\ Unresolved(store[r].dlv[i].st) => Owed(r, i)
      /\ \A i \in Recipients : copies[r][i] \in Nat /\ doubt[r][i] \in Nat
  BY <1>1, <1>2, LockedFacts DEF Locked
<1>4. k \in Recipients \ t.todo /\ store[r].dlv[k].st = "pending" /\ ~Bare(store[r])
  BY <1>1, <1>2, <1>3 DEF Works, Sending, Bare
<1>5. PICK u : u = [t EXCEPT !.pc = "rejected"] /\ SetTask(p, j, u)
  BY DEF RecordSentFails
<1>6. u.pc = "rejected" /\ u.rec = r /\ u.at = t.at /\ u.todo = t.todo /\ u.key = k
  BY <1>1, <1>3, <1>5 DEF Task
<1>7. /\ doubt'[r][k] = doubt[r][k] + 1
      /\ \A i \in Recipients : i # k => doubt'[r][i] = doubt[r][i]
      /\ \A q \in Records : q # r => doubt'[q] = doubt[q]
  BY <1>2, <1>3, <1>4 DEF TypeOK
<1>8. ASSUME NEW i \in Recipients PROVE Account(r, i)'
  <2>1. CASE i = k
    <3>1. /\ copies[r][k] <= 1 + doubt[r][k] + Spare(legacy[r], k)
          /\ copies[r][k] \in Nat /\ doubt[r][k] \in Nat
      BY <1>3, <1>4 DEF RecordSound, Account
    <3>2. (copies[r][k] <= 1 + doubt[r][k] + Spare(legacy[r], k))' /\ Owed(r, k)'
      BY <1>2, <1>7, <3>1, SpareType DEF Owed
    <3> QED BY <1>2, <1>4, <2>1, <3>2 DEF Account
  <2>2. CASE i # k
    BY <1>2, <1>3, <1>4, <1>7, <2>2 DEF RecordSound, Account, Owed, Delivered
  <2> QED BY <2>1, <2>2
<1>9. RecordSound(r)'
  BY <1>2, <1>3, <1>8 DEF RecordSound, LegacySound
<1>10. Works(p, j, u)'
  BY <1>1, <1>2, <1>3, <1>6 DEF Works, Locked, Sending
<1>11. store[r].status # "none" /\ Open(store[r])
  BY <1>3, <1>4 DEF RecordSound, Sound, Open
<1> QED BY <1>1, <1>2, <1>3, <1>5, <1>6, <1>7, <1>9, <1>10, <1>11, RecordStep DEF Locked

LEMMA RecordKeeps ==
  ASSUME OneProcess, TypeOK, SingleInv, NEW p \in Processes, NEW j \in Jobs,
         RecordSent(p, j) \/ RecordFailed(p, j)
  PROVE  SingleInv'
<1> DEFINE t == task[p][j]
<1>1. PICK r, k : r = t.rec /\ k = t.key
  OBVIOUS
<1>2. /\ t.pc \in {"accepted", "rejected"}
      /\ UNCHANGED <<copies, doubt, legacy, policy, config, clock, scan>>
  BY DEF RecordSent, RecordFailed
<1>3. /\ r \in Records /\ RecordSound(r) /\ store[r] \in Entry /\ t \in Task /\ Works(p, j, t)
      /\ \A i \in Recipients : i # k /\ Unresolved(store[r].dlv[i].st) => Owed(r, i)
      /\ t.pc = "rejected" /\ k \in Recipients /\ Unresolved(store[r].dlv[k].st) => Owed(r, k)
  BY <1>1, <1>2, LockedFacts DEF Locked
<1>4. /\ k \in Recipients \ t.todo /\ store[r].dlv[k].st = "pending"
      /\ t.pc = "accepted" => copies[r][k] >= 1
  BY <1>1, <1>2, <1>3 DEF Works, Sending
<1>5. store[r].dlv[k] \in Delivery
  BY <1>3, <1>4 DEF Entry
<1>6. PICK n \in Delivery :
        /\ n.st = IF t.pc = "accepted" THEN "sent" ELSE "failed"
        /\ store' = [store EXCEPT ![r] = StateFromDeliveries([store[r].dlv EXCEPT ![k] = n])]
  <2> DEFINE e == store[r].dlv[k]
             sent == [e EXCEPT !.st = "sent", !.retryAt = 0]
             failed == [e EXCEPT !.st = "failed", !.retryAt = NotificationRetryAt(e.attempts, t.at)]
  <2>1. CASE RecordSent(p, j)
    <3>1. t.pc = "accepted" /\ SetDelivery(r, k, sent)
      BY <1>1, <2>1 DEF RecordSent
    <3>2. sent \in Delivery /\ sent.st = "sent"
      BY <1>5 DEF Delivery, DeliveryStatus
    <3> HIDE DEF sent
    <3> QED BY <1>4, <3>1, <3>2 DEF SetDelivery
  <2>2. CASE RecordFailed(p, j)
    <3>1. t.pc = "rejected" /\ SetDelivery(r, k, failed)
      BY <1>1, <2>2 DEF RecordFailed
    <3>2. NotificationRetryAt(e.attempts, t.at) \in Nat
      BY <1>3, <1>5, RetryType DEF Delivery, Task
    <3>3. failed \in Delivery /\ failed.st = "failed"
      BY <1>5, <3>2 DEF Delivery, DeliveryStatus
    <3> HIDE DEF failed
    <3> QED BY <1>4, <3>1, <3>3 DEF SetDelivery
  <2> QED BY <2>1, <2>2
<1>7. /\ RecordSound(r)' /\ store'[r].status # "none" /\ Open(store'[r])
      /\ \A i \in Recipients : i # k => store'[r].dlv[i] = store[r].dlv[i]
  <2>1. /\ store[r].dlv[k].st # "none" /\ n.st # "none" /\ n.st # "pending"
        /\ n.st = "sent" => Delivered(r, k)
        /\ Unresolved(n.st) => Owed(r, k)
    BY <1>2, <1>3, <1>4, <1>6 DEF Delivered, Unresolved
  <2> QED BY <1>2, <1>3, <1>4, <1>6, <2>1, DeliveryKeeps
<1>8. PICK u : u = [t EXCEPT !.pc = "attempt", !.key = NoOne] /\ SetTask(p, j, u)
  BY DEF RecordSent, RecordFailed
<1>9. u.pc = "attempt" /\ u.rec = r /\ u.at = t.at /\ u.todo = t.todo
  BY <1>1, <1>3, <1>8 DEF Task
<1>10. Works(p, j, u)'
  <2>1. t.todo \subseteq Recipients
    BY <1>3 DEF Task
  <2>2. \A i \in u.todo : store'[r].dlv[i].retryAt <= clock
    BY <1>1, <1>2, <1>3, <1>4, <1>7, <1>9, <2>1 DEF Works, Locked
  <2>3. j # Recovery => r = j /\ policy[j] = "notify"
    BY <1>1, <1>2, <1>3 DEF Works
  <2>4. config[p] # {} /\ u.at <= clock /\ (j = Recovery => r \in scan[p].done)
    BY <1>1, <1>2, <1>3, <1>9 DEF Works, Locked
  <2> QED BY <1>2, <1>3, <1>7, <1>9, <2>2, <2>3, <2>4 DEF Works, Locked, Sending
<1>11. /\ SetTask(p, j, u) /\ t.pc \in Locked /\ t.rec = r /\ u.pc \in Locked /\ u.rec = r
       /\ UNCHANGED <<legacy, policy, config, clock, scan>>
       /\ \A q \in Records : q # r => /\ store'[q] = store[q]
                                      /\ copies'[q] = copies[q]
                                      /\ doubt'[q] = doubt[q]
  <2>1. \A q \in Records : q # r => store'[q] = store[q]
    BY <1>6 DEF TypeOK
  <2> QED BY <1>1, <1>2, <1>8, <1>9, <2>1 DEF Locked
<1> QED BY <1>3, <1>7, <1>10, <1>11, RecordStep

LEMMA LockedKeeps ==
  ASSUME OneProcess, TypeOK, SingleInv, NEW p \in Processes, NEW j \in Jobs, LockedStep(p, j)
  PROVE  SingleInv'
<1>1. CASE WriteState(p, j)
  BY <1>1, WriteStateKeeps
<1>2. ASSUME NEW k \in Recipients, PrepareAttempt(p, j, k) PROVE SingleInv'
  BY <1>2, PrepareAttemptKeeps
<1>3. CASE SendAccepted(p, j) \/ SendTimedOut(p, j)
  BY <1>3, SendKeeps
<1>4. CASE SendRejected(p, j)
  BY <1>4, SendRejectedKeeps
<1>5. CASE RecordSent(p, j) \/ RecordFailed(p, j)
  BY <1>5, RecordKeeps
<1>6. CASE RecordSentFails(p, j)
  BY <1>6, RecordSentFailsKeeps
<1>7. CASE Release(p, j)
  BY <1>7, ReleaseKeeps
<1> QED BY <1>1, <1>2, <1>3, <1>4, <1>5, <1>6, <1>7 DEF LockedStep

LEMMA EditKeeps ==
  ASSUME OneProcess, TypeOK, SingleInv, NEW p \in Processes, NEW r \in Records, Edit(p, r)
  PROVE  SingleInv'
<1>1. /\ UNCHANGED <<store, legacy, config, clock, scan, task, copies, doubt>>
      /\ task[p][r].pc = "idle"
      /\ \A q \in Records : q # r => policy'[q] = policy[q]
  BY DEF Edit, TypeOK
<1>2. \A q \in Records : RecordSound(q)'
  BY <1>1 DEF SingleInv, RecordSound, LegacySound, Account, Accepted, Owed, Delivered
<1>3. ASSUME NEW i \in Jobs PROVE Works(p, i, task[p][i])'
  <2>1. PICK t : t = task[p][i]
    OBVIOUS
  <2>2. Works(p, i, t)
    BY <2>1 DEF SingleInv, Working
  <2>3. t.pc = "write" => Fits(i, t.rec, t.at, t.plan)'
    BY <1>1, <2>2, FitsKept DEF Works
  <2>4. i # Recovery => i \in Records
    BY DEF Jobs
  <2>5. t.pc # "idle" => i # r
    BY <1>1, <2>1
  <2> QED BY <1>1, <2>1, <2>2, <2>3, <2>4, <2>5 DEF Works, Locked, Sending
<1>4. Working'
  BY <1>3 DEF Working, OneProcess
<1>5. OneLock' /\ \A q \in Processes : ScanOpen(q)'
  BY <1>1 DEF SingleInv, OneLock, ScanOpen
<1> QED BY <1>2, <1>4, <1>5 DEF SingleInv

LEMMA RestartKeeps ==
  ASSUME OneProcess, TypeOK, SingleInv, NEW p \in Processes, Restart(p)
  PROVE  SingleInv'
<1>1. UNCHANGED <<store, policy, legacy, clock, copies>>
  BY DEF Restart
<1>2. \A q \in Processes : q = p
  BY DEF OneProcess
<1>3. scan'[p] = NoScan /\ \A j \in Jobs : task'[p][j] = Idle
  BY DEF Restart, TypeOK
<1>4. ASSUME NEW r \in Records, NEW k \in Recipients PROVE Account(r, k)'
  <2>1. doubt'[r][k] = IF Accepted(r, k) THEN doubt[r][k] + 1 ELSE doubt[r][k]
    <3>1. Accepted(r, k) <=> \E j \in Jobs : /\ task[p][j].pc = "accepted"
                                             /\ task[p][j].rec = r /\ task[p][j].key = k
      BY <1>2 DEF Accepted
    <3> QED BY <3>1 DEF Restart
  <2>2. Account(r, k) /\ copies[r][k] \in Nat /\ doubt[r][k] \in Nat
    BY DEF SingleInv, RecordSound, TypeOK
  <2> QED BY <1>1, <2>1, <2>2, SpareType DEF Account, Owed, Delivered
<1>5. \A r \in Records : RecordSound(r)'
  BY <1>1, <1>4 DEF SingleInv, RecordSound, LegacySound
<1>6. ASSUME NEW i \in Jobs PROVE Works(p, i, task[p][i])'
  <2>1. task'[p][i].pc = "idle" /\ task'[p][i].at = 0 /\ clock' >= 0
    BY <1>1, <1>3 DEF Idle, TypeOK
  <2> QED BY <2>1 DEF Works, Locked, Sending
<1>7. Working' /\ OneLock'
  <2>1. \A j \in Jobs : task'[p][j].pc \notin Locked
    BY <1>3 DEF Idle, Locked
  <2> QED BY <1>2, <1>6, <2>1 DEF Working, OneLock
<1>8. ScanOpen(p)'
  BY <1>3 DEF ScanOpen, NoScan
<1> QED BY <1>2, <1>5, <1>7, <1>8 DEF SingleInv

LEMMA PublishKeeps ==
  ASSUME OneProcess, TypeOK, SingleInv, NEW p \in Processes, NEW r \in Records, Publish(p, r)
  PROVE  SingleInv'
<1>1. /\ store[r].status = "none" /\ r \in Jobs /\ r # Recovery
      /\ UNCHANGED <<policy, legacy, config, clock, scan, copies, doubt>>
  BY ConstantsAssumption DEF Publish, Jobs, Recovery
<1>2. \A q \in Processes : q = p
  BY DEF OneProcess
<1>3. PICK st \in {"pending", "skipped"} :
        /\ store' = [store EXCEPT ![r].status = st]
        /\ \/ UNCHANGED task
           \/ /\ SetTask(p, r, [Idle EXCEPT !.pc = "ready", !.rec = r])
              /\ policy[r] = "notify" /\ config[p] # {}
  BY DEF Publish
<1>4. /\ store'[r].status = st /\ store'[r].dlv = store[r].dlv
      /\ \A q \in Records : q # r => store'[q] = store[q]
  <2>1. store[r] \in Entry
    BY DEF TypeOK
  <2> QED BY <1>3, <2>1 DEF TypeOK, Entry
<1>5. RecordSound(r) /\ Works(p, r, task[p][r]) /\ ScanOpen(p)
  BY <1>1 DEF SingleInv, Working
<1>6. Bare(store[r]) /\ r \notin LegacyRecords /\ task[p][r].pc = "idle"
  BY <1>1, <1>5 DEF RecordSound, Sound, LegacySound, Works
<1>7. \A i \in Jobs : \/ task'[p][i] = task[p][i]
                      \/ /\ i = r /\ task'[p][r] = [Idle EXCEPT !.pc = "ready", !.rec = r]
                         /\ policy[r] = "notify" /\ config[p] # {}
  BY <1>1, <1>3 DEF SetTask, TypeOK
<1>8. [Idle EXCEPT !.pc = "ready", !.rec = r].pc = "ready"
  BY DEF Idle
<1>9. ASSUME NEW q \in Records PROVE RecordSound(q)'
  <2>1. \A k \in Recipients : Accepted(q, k) => Accepted(q, k)'
    BY <1>2, <1>6, <1>7 DEF Accepted
  <2>2. \A k \in Recipients : Account(q, k)
    BY DEF SingleInv, RecordSound
  <2>3. CASE q = r
    <3>1. Bare(store[r])'
      BY <1>4, <1>6 DEF Bare
    <3>2. Sound(store[r])'
      BY <1>4, <1>5, <3>1 DEF RecordSound, Sound
    <3>3. ASSUME NEW k \in Recipients PROVE Account(q, k)'
      BY <1>1, <1>4, <1>6, <2>1, <2>2, <2>3 DEF Account, Owed, Delivered
    <3> QED BY <1>1, <1>5, <1>6, <2>3, <3>2, <3>3 DEF RecordSound, LegacySound
  <2>4. CASE q # r
    <3>1. ASSUME NEW k \in Recipients PROVE Account(q, k)'
      BY <1>1, <1>4, <2>1, <2>2, <2>4 DEF Account, Owed, Delivered
    <3> QED BY <1>1, <1>4, <2>4, <3>1 DEF SingleInv, RecordSound, LegacySound
  <2> QED BY <2>3, <2>4
<1>10. ASSUME NEW i \in Jobs PROVE Works(p, i, task[p][i])'
  <2>1. CASE task'[p][i] = task[p][i]
    <3>1. PICK t : t = task[p][i]
      OBVIOUS
    <3>2. Works(p, i, t)
      BY <3>1 DEF SingleInv, Working
    <3>3. t.pc \in Locked => t.rec \in Records /\ t.rec # r
      BY <1>1, <3>2 DEF Works
    <3>4. Works(p, i, t)'
      BY <1>1, <1>4, <3>2, <3>3, WorksKept
    <3> QED BY <2>1, <3>1, <3>4
  <2>2. CASE /\ i = r /\ task'[p][r] = [Idle EXCEPT !.pc = "ready", !.rec = r]
             /\ policy[r] = "notify" /\ config[p] # {}
    <3>1. task'[p][r].pc = "ready" /\ task'[p][r].rec = r /\ task'[p][r].at = 0 /\ clock' >= 0
      BY <1>1, <2>2 DEF Idle, TypeOK
    <3> QED BY <1>1, <1>4, <2>2, <3>1 DEF Works, Locked, Sending
  <2> QED BY <1>7, <2>1, <2>2
<1>11. Working'
  BY <1>2, <1>10 DEF Working
<1>12. OneLock'
  <2>1. \A i \in Jobs : task'[p][i].pc \in Locked => task'[p][i] = task[p][i]
    BY <1>7, <1>8 DEF Locked
  <2> QED BY <1>2, <2>1 DEF SingleInv, OneLock
<1>13. ScanOpen(p)'
  <2>1. task'[p][Recovery] = task[p][Recovery]
    BY <1>1, <1>7 DEF Jobs
  <2>2. \A s \in {"pending", "failed"} : scan[p].kept[s] \subseteq Records
    BY DEF TypeOK, Scan
  <2>3. \A q \in Records : Open(store[q]) => Open(store'[q])
    BY <1>1, <1>4 DEF Open
  <2> QED BY <1>1, <1>5, <2>1, <2>2, <2>3 DEF ScanOpen
<1> QED BY <1>2, <1>9, <1>11, <1>12, <1>13 DEF SingleInv

LEMMA TickKeeps ==
  ASSUME OneProcess, TypeOK, SingleInv, Tick
  PROVE  SingleInv'
<1>1. /\ UNCHANGED <<store, policy, legacy, config, scan, task, copies, doubt>>
      /\ clock \in Nat /\ clock' = clock + 1
  BY DEF Tick, TypeOK
<1>2. \A q \in Records : RecordSound(q)'
  BY <1>1 DEF SingleInv, RecordSound, LegacySound, Account, Accepted, Owed, Delivered
<1>3. ASSUME NEW p \in Processes, NEW i \in Jobs PROVE Works(p, i, task[p][i])'
  <2>1. PICK t \in Task : t = task[p][i]
    BY DEF TypeOK
  <2>2. Works(p, i, t)
    BY <2>1 DEF SingleInv, Working
  <2>3. t.pc = "write" => Fits(i, t.rec, t.at, t.plan)'
    <3>1. PICK n \in Entry : n = t.plan
      BY DEF Task
    <3>2. \A k \in Recipients : n.dlv[k].retryAt \in Nat
      BY DEF Entry, Delivery
    <3>3. \A k \in Recipients : n.dlv[k].retryAt <= clock => n.dlv[k].retryAt <= clock'
      BY <1>1, <3>2
    <3>4. \A k : (Delivered(t.rec, k) => Delivered(t.rec, k)') /\ (Owed(t.rec, k) => Owed(t.rec, k)')
      BY <1>1 DEF Delivered, Owed
    <3> QED BY <1>1, <2>2, <3>1, <3>3, <3>4 DEF Works, Fits
  <2>4. t.at \in Nat /\ t.todo \subseteq Recipients
    BY DEF Task
  <2>5. t.pc \in Locked =>
          \A k \in Recipients : store[t.rec].dlv[k].retryAt \in Nat
    BY <2>2 DEF Works, TypeOK, Entry, Delivery
  <2>6. t.pc \in Locked \ {"write"} =>
          \A k \in t.todo : store[t.rec].dlv[k].retryAt <= clock'
    BY <1>1, <2>2, <2>4, <2>5 DEF Works
  <2>7. t.at <= clock'
    BY <1>1, <2>2, <2>4 DEF Works
  <2> QED BY <1>1, <2>1, <2>2, <2>3, <2>6, <2>7 DEF Works, Locked, Sending
<1>4. Working' /\ OneLock' /\ \A q \in Processes : ScanOpen(q)'
  BY <1>1, <1>3 DEF SingleInv, Working, OneLock, ScanOpen
<1> QED BY <1>2, <1>4 DEF SingleInv

LEMMA SingleInit == Init => SingleInv
<1> SUFFICES ASSUME Init PROVE SingleInv
  OBVIOUS
<1>1. \A p \in Processes, j \in Jobs : task[p][j].pc = "idle" /\ task[p][j].at = 0
  BY DEF Init, Idle
<1>2. ASSUME NEW r \in Records PROVE RecordSound(r)
  <2>1. /\ \A k \in Recipients : store[r].dlv[k].st = "none" /\ store[r].dlv[k].retryAt = 0
        /\ store[r].status = IF r \in LegacyRecords THEN "failed" ELSE "none"
    BY DEF Init, Blank, NoDeliveries, NoDelivery
  <2>2. /\ legacy[r].failed \subseteq legacy[r].attempted
        /\ legacy[r].attempted # {} <=> r \in LegacyRecords
    BY DEF Init
  <2>3. \A k \in Recipients :
          /\ copies[r][k] = IF k \in legacy[r].attempted \ legacy[r].failed THEN 1 ELSE 0
          /\ doubt[r][k] = 0
    BY DEF Init
  <2>4. \A k \in Recipients : Account(r, k)
    BY <2>1, <2>2, <2>3, SpareType DEF Account, Unresolved, Bare
  <2> QED BY <2>1, <2>2, <2>4 DEF RecordSound, Sound, Bare, LegacySound
<1>3. Working /\ OneLock
  <2>1. clock = 0
    BY DEF Init
  <2> QED BY <1>1, <2>1 DEF Working, Works, OneLock, Locked, Sending
<1>4. \A p \in Processes : ScanOpen(p)
  BY DEF Init, ScanOpen, NoScan
<1> QED BY <1>2, <1>3, <1>4 DEF SingleInv

LEMMA SingleNext == OneProcess /\ TypeOK /\ SingleInv /\ [Next]_vars => SingleInv'
<1> SUFFICES ASSUME OneProcess, TypeOK, SingleInv, [Next]_vars PROVE SingleInv'
  OBVIOUS
<1>1. CASE UNCHANGED vars
  <2>1. UNCHANGED <<store, policy, legacy, config, clock, scan, task, copies, doubt>>
    BY <1>1 DEF vars
  <2>2. \A q \in Records : RecordSound(q)'
    BY <2>1 DEF SingleInv, RecordSound, LegacySound, Account, Accepted, Owed, Delivered
  <2>3. Working'
    <3> SUFFICES ASSUME NEW p \in Processes, NEW i \in Jobs PROVE Works(p, i, task[p][i])'
      BY DEF Working
    <3>1. PICK t : t = task[p][i] /\ Works(p, i, t)
      BY DEF SingleInv, Working
    <3>2. Works(p, i, t)'
      BY <2>1, <3>1, WorksKept
    <3> QED BY <2>1, <3>1, <3>2
  <2>4. OneLock' /\ \A q \in Processes : ScanOpen(q)'
    BY <2>1 DEF SingleInv, OneLock, ScanOpen
  <2> QED BY <2>2, <2>3, <2>4 DEF SingleInv
<1>2. CASE Tick
  BY <1>2, TickKeeps
<1>3. ASSUME NEW p \in Processes, ProcessStep(p)
      PROVE  SingleInv'
  BY <1>3, PublishKeeps, NotifyReadKeeps, RecoverReadKeeps, EditKeeps, RunKeeps, LockedKeeps,
     StoreErrorKeeps, RestartKeeps DEF ProcessStep
<1> QED BY <1>1, <1>2, <1>3 DEF Next

LEMMA SingleCorrect == OneProcess /\ Spec => [](OneProcess /\ SingleInv)
<1>1. OneProcess /\ SingleInv /\ TypeOK /\ [Next]_vars => OneProcess' /\ SingleInv'
  BY SingleNext DEF OneProcess
<1> QED BY <1>1, SingleInit, TypeCorrect, PTL DEF Spec

\* However often a record is notified about, recovered, interrupted and recovered
\* again, a recipient has at most one copy for every send whose outcome was
\* lost, and one more; and another one if a legacy failure named somebody else with
\* the same last four digits.
THEOREM NoDuplicates == OneProcess /\ Spec => []DuplicatesAreDoubts
<1>1. SingleInv => DuplicatesAreDoubts
  BY DEF SingleInv, RecordSound, Account, Spare, DuplicatesAreDoubts
<1> QED BY <1>1, SingleCorrect, PTL

\* What the store calls sent was delivered, also when it was recorded after a
\* restart or by a recovery run.
THEOREM SentDelivered == OneProcess /\ Spec => []SentWasDelivered
<1>1. SingleInv => SentWasDelivered
  BY DEF SingleInv, RecordSound, Account, Delivered, SentWasDelivered
<1> QED BY <1>1, SingleCorrect, PTL

-----------------------------------------------------------------------------
(* What a step may never do to a record.                                    *)

Careful(r) ==
  /\ \A k \in Recipients : store[r].dlv[k].st = "sent" => store'[r].dlv[k].st = "sent"
  /\ store[r].status = "skipped" => store'[r].status = "skipped" /\ copies'[r] = copies[r]
  /\ \A k \in Recipients :
       store'[r].dlv[k].attempts > store[r].dlv[k].attempts => store[r].dlv[k].retryAt <= clock

LEMMA SameCareful ==
  ASSUME TypeOK, NEW r \in Records, store'[r].dlv = store[r].dlv, copies'[r] = copies[r],
         store[r].status = "skipped" => store'[r].status = "skipped"
  PROVE  Careful(r)
<1>1. \A k \in Recipients : store[r].dlv[k].attempts \in Nat
  BY DEF TypeOK, Entry, Delivery
<1> QED BY <1>1 DEF Careful

\* A record that owes a message is not closed.
LEMMA OwingOpen ==
  ASSUME NEW r, RecordSound(r), NEW k \in Recipients, Unresolved(store[r].dlv[k].st)
  PROVE  store[r].status # "skipped"
  BY DEF RecordSound, Sound, Bare, Owing, Unresolved

\* One delivery changes, of which the attempts stay or were due.
LEMMA DeliveryCareful ==
  ASSUME TypeOK, NEW r \in Records, RecordSound(r), NEW k \in Recipients, NEW n,
         store' = [store EXCEPT ![r] = StateFromDeliveries([store[r].dlv EXCEPT ![k] = n])],
         Unresolved(store[r].dlv[k].st),
         \/ n.attempts = store[r].dlv[k].attempts
         \/ store[r].dlv[k].retryAt <= clock,
         NEW q \in Records, UNCHANGED copies
  PROVE  Careful(q)
<1>1. CASE q # r
  <2>1. store'[q] = store[q]
    BY <1>1 DEF TypeOK
  <2> QED BY <2>1, SameCareful
<1>2. CASE q = r
  <2>1. store'[r].dlv = [store[r].dlv EXCEPT ![k] = n]
    BY DEF TypeOK, StateFromDeliveries
  <2>2. store[r].dlv \in Deliveries
    BY DEF TypeOK, Entry, Deliveries
  <2>3. store'[r].dlv[k] = n /\ \A i \in Recipients : i # k => store'[r].dlv[i] = store[r].dlv[i]
    BY <2>1, <2>2 DEF Deliveries
  <2>4. \A i \in Recipients : store[r].dlv[i].attempts \in Nat
    BY <2>2 DEF Deliveries, Delivery
  <2>5. store[r].status # "skipped"
    BY OwingOpen
  <2>6. store[r].dlv[k].st # "sent"
    BY DEF Unresolved
  <2> QED BY <1>2, <2>3, <2>4, <2>5, <2>6 DEF Careful
<1> QED BY <1>1, <1>2

LEMMA LockedCareful ==
  ASSUME OneProcess, TypeOK, SingleInv, NEW p \in Processes, NEW j \in Jobs, LockedStep(p, j),
         NEW q \in Records
  PROVE  Careful(q)
<1> DEFINE t == task[p][j]
<1>1. PICK r, k : r = t.rec /\ k = t.key
  OBVIOUS
<1>2. CASE WriteState(p, j)
  <2>1. /\ t.pc = "write" /\ r \in Records /\ Fits(j, r, t.at, t.plan)
        /\ store' = [store EXCEPT ![r] = t.plan] /\ UNCHANGED copies
    BY <1>1, <1>2 DEF WriteState, SingleInv, Working, Works, Locked
  <2>2. CASE q # r
    <3>1. store'[q] = store[q]
      BY <2>1, <2>2 DEF TypeOK
    <3> QED BY <2>1, <3>1, SameCareful
  <2>3. CASE q = r
    <3>1. PICK n : n = t.plan /\ store'[r] = n
      BY <2>1 DEF TypeOK
    <3>2. /\ RecordSound(r) /\ store[r] \in Entry /\ clock \in Nat
      BY <2>1 DEF SingleInv, TypeOK
    <3>3. \A i \in Recipients : /\ store[r].dlv[i].attempts \in Nat
                                /\ store[r].dlv[i].st = "none" => store[r].dlv[i].retryAt = 0
      BY <3>2 DEF RecordSound, Sound, Entry, Delivery
    <3>4. /\ store[r].status = "skipped" => n.status = "skipped"
          /\ \A i \in Recipients :
               /\ store[r].dlv[i].st # "none" => n.dlv[i].attempts = store[r].dlv[i].attempts
               /\ store[r].dlv[i].st = "sent" => n.dlv[i].st = "sent"
      BY <2>1, <3>1 DEF Fits
    <3>5. \A i \in Recipients :
            n.dlv[i].attempts > store[r].dlv[i].attempts => store[r].dlv[i].retryAt <= clock
      BY <3>2, <3>3, <3>4
    <3> QED BY <2>1, <2>3, <3>1, <3>4, <3>5 DEF Careful
  <2> QED BY <2>2, <2>3
<1>3. ASSUME NEW i \in Recipients, PrepareAttempt(p, j, i)
      PROVE  Careful(q)
  <2>1. t.pc = "attempt" /\ i \in t.todo /\ UNCHANGED copies
    BY <1>3 DEF PrepareAttempt
  <2>2. r \in Records /\ RecordSound(r) /\ Works(p, j, t)
    BY <1>1, <2>1, LockedFacts DEF Locked
  <2>3. store[r].dlv[i].retryAt <= clock
    BY <1>1, <2>1, <2>2 DEF Works, Locked
  <2>4. CASE Unresolved(store[r].dlv[i].st)
    <3>1. \E n : store' = [store EXCEPT ![r] = StateFromDeliveries([store[r].dlv EXCEPT ![i] = n])]
      BY <1>1, <1>3, <2>4 DEF PrepareAttempt
    <3> QED BY <2>1, <2>2, <2>3, <2>4, <3>1, DeliveryCareful
  <2>5. CASE ~Unresolved(store[r].dlv[i].st)
    <3>1. UNCHANGED store
      BY <1>1, <1>3, <2>5 DEF PrepareAttempt
    <3> QED BY <2>1, <3>1, SameCareful
  <2> QED BY <2>4, <2>5
<1>4. CASE t.pc \in Sending /\ ~WriteState(p, j) /\ ~(\E i \in Recipients : PrepareAttempt(p, j, i))
  <2>1. /\ r \in Records /\ RecordSound(r) /\ store[r] \in Entry /\ k \in Recipients
        /\ store[r].dlv[k].st = "pending"
    <3>1. r \in Records /\ RecordSound(r) /\ store[r] \in Entry /\ Works(p, j, t)
      BY <1>1, <1>4, LockedFacts DEF Locked, Sending
    <3> QED BY <1>1, <1>4, <3>1 DEF Works
  <2>2. CASE SendAccepted(p, j) \/ SendTimedOut(p, j)
    <3>1. UNCHANGED store /\ copies' = [copies EXCEPT ![r][k] = @ + 1]
      BY <1>1, <2>2 DEF SendAccepted, SendTimedOut
    <3>2. CASE q # r
      <4>1. copies'[q] = copies[q]
        BY <3>1, <3>2 DEF TypeOK
      <4> QED BY <3>1, <4>1, SameCareful
    <3>3. CASE q = r
      <4>1. store[r].status # "skipped"
        BY <2>1, OwingOpen DEF Unresolved
      <4>2. \A i \in Recipients : store[r].dlv[i].attempts \in Nat
        BY <2>1 DEF Entry, Delivery
      <4> QED BY <3>1, <3>3, <4>1, <4>2 DEF Careful
    <3> QED BY <3>2, <3>3
  <2>3. CASE SendRejected(p, j) \/ RecordSentFails(p, j) \/ Release(p, j)
    <3>1. UNCHANGED <<store, copies>>
      BY <2>3 DEF SendRejected, RecordSentFails, Release
    <3> QED BY <3>1, SameCareful
  <2>4. CASE RecordSent(p, j) \/ RecordFailed(p, j)
    <3>1. store[r].dlv[k] \in Delivery
      BY <2>1 DEF Entry
    <3>2. PICK n : /\ SetDelivery(r, k, n) /\ n.attempts = store[r].dlv[k].attempts
      <4> DEFINE e == store[r].dlv[k]
      <4>1. CASE RecordSent(p, j)
        <5>1. SetDelivery(r, k, [e EXCEPT !.st = "sent", !.retryAt = 0])
          BY <1>1, <4>1 DEF RecordSent
        <5>2. [e EXCEPT !.st = "sent", !.retryAt = 0].attempts = e.attempts
          BY <3>1 DEF Delivery
        <5> QED BY <5>1, <5>2
      <4>2. CASE RecordFailed(p, j)
        <5>1. PICK at : SetDelivery(r, k, [e EXCEPT !.st = "failed", !.retryAt = at])
          BY <1>1, <4>2 DEF RecordFailed
        <5>2. [e EXCEPT !.st = "failed", !.retryAt = at].attempts = e.attempts
          BY <3>1 DEF Delivery
        <5> QED BY <5>1, <5>2
      <4> QED BY <2>4, <4>1, <4>2
    <3>3. /\ store' = [store EXCEPT ![r] = StateFromDeliveries([store[r].dlv EXCEPT ![k] = n])]
          /\ UNCHANGED copies
      BY <2>1, <2>4, <3>2 DEF SetDelivery, RecordSent, RecordFailed
    <3> QED BY <2>1, <3>2, <3>3, DeliveryCareful DEF Unresolved
  <2> QED BY <1>4, <2>2, <2>3, <2>4 DEF LockedStep
<1>5. CASE Release(p, j)
  <2>1. UNCHANGED <<store, copies>>
    BY <1>5 DEF Release
  <2> QED BY <2>1, SameCareful
<1>6. \/ WriteState(p, j) \/ (\E i \in Recipients : PrepareAttempt(p, j, i)) \/ Release(p, j)
      \/ t.pc \in Sending
  BY DEF LockedStep, SendAccepted, SendRejected, SendTimedOut, RecordSent, RecordSentFails,
     RecordFailed, Sending
<1> QED BY <1>2, <1>3, <1>4, <1>5, <1>6

LEMMA StepCareful ==
  OneProcess /\ TypeOK /\ SingleInv /\ [Next]_vars => \A r \in Records : Careful(r)
<1> SUFFICES ASSUME OneProcess, TypeOK, SingleInv, [Next]_vars, NEW q \in Records
             PROVE  Careful(q)
  OBVIOUS
<1>1. CASE UNCHANGED <<store, copies>>
  BY <1>1, SameCareful
<1>2. ASSUME NEW p \in Processes, NEW r \in Records, Publish(p, r)
      PROVE  Careful(q)
  <2>1. PICK st : store' = [store EXCEPT ![r].status = st]
    BY <1>2 DEF Publish
  <2>2. store[r] \in Entry /\ store[r].status = "none" /\ UNCHANGED copies
    BY <1>2 DEF Publish, TypeOK
  <2>3. store'[q].dlv = store[q].dlv /\ (store[q].status = "skipped" => store'[q].status = "skipped")
    BY <2>1, <2>2 DEF TypeOK, Entry
  <2> QED BY <2>2, <2>3, SameCareful
<1>3. ASSUME NEW p \in Processes, NEW j \in Jobs, LockedStep(p, j)
      PROVE  Careful(q)
  BY <1>3, LockedCareful
<1>4. \/ UNCHANGED <<store, copies>>
      \/ \E p \in Processes : \/ \E r \in Records : Publish(p, r)
                              \/ \E j \in Jobs : LockedStep(p, j)
  <2>1. Tick => UNCHANGED <<store, copies>>
    BY DEF Tick
  <2>2. ASSUME NEW p \in Processes, NEW r \in Records,
               NotifyRead(p, r) \/ RecoverRead(p, r) \/ Edit(p, r)
        PROVE  UNCHANGED <<store, copies>>
    BY <2>2 DEF NotifyRead, RecoverRead, Edit
  <2>3. ASSUME NEW p \in Processes,
               \/ RecoverStart(p) \/ RecoverEnd(p) \/ Restart(p)
               \/ \E st \in {"pending", "failed"} : RecoverQuery(p, st)
               \/ \E j \in Jobs : StoreError(p, j)
        PROVE  UNCHANGED <<store, copies>>
    BY <2>3 DEF RecoverStart, RecoverEnd, Restart, RecoverQuery, StoreError
  <2>4. UNCHANGED vars => UNCHANGED <<store, copies>>
    BY DEF vars
  <2> QED BY <2>1, <2>2, <2>3, <2>4 DEF Next, ProcessStep
<1> QED BY <1>1, <1>2, <1>3, <1>4

\* "A successful recipient remains sent", though plans are written from earlier
\* reads: the lock keeps what a plan was made from as it was.
THEOREM SentFinal == OneProcess /\ Spec => SentIsFinal
<1>1. OneProcess /\ TypeOK /\ SingleInv /\ [Next]_vars =>
        [\A r \in Records, k \in Recipients :
           store[r].dlv[k].st = "sent" => store'[r].dlv[k].st = "sent"]_vars
  BY StepCareful DEF Careful
<1> QED BY <1>1, SingleCorrect, TypeCorrect, PTL DEF Spec, SentIsFinal

\* A closed record is neither opened nor messaged about again.
THEOREM SkippedQuiet == OneProcess /\ Spec => SkippedIsQuiet
<1>1. OneProcess /\ TypeOK /\ SingleInv /\ [Next]_vars =>
        [\A r \in Records : store[r].status = "skipped" =>
           store'[r].status = "skipped" /\ copies'[r] = copies[r]]_vars
  BY StepCareful DEF Careful
<1> QED BY <1>1, SingleCorrect, TypeCorrect, PTL DEF Spec, SkippedIsQuiet

\* No delivery is attempted before its backoff has run out, by neither job.
THEOREM BackoffKept == OneProcess /\ Spec => BackoffRespected
<1>1. OneProcess /\ TypeOK /\ SingleInv /\ [Next]_vars =>
        [\A r \in Records, k \in Recipients :
           store'[r].dlv[k].attempts > store[r].dlv[k].attempts =>
             store[r].dlv[k].retryAt <= clock]_vars
  BY StepCareful DEF Careful
<1> QED BY <1>1, SingleCorrect, TypeCorrect, PTL DEF Spec, BackoffRespected

===============================================================================
