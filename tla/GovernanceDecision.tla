-------------------------- MODULE GovernanceDecision --------------------------
(***************************************************************************)
(* What one observation of a proposal does to the stores: getDecision of   *)
(* the Uniswap client, the merge and the derivation of transitions of      *)
(* governanceDecision.ts, and the transaction of upsertDecision.           *)
(*                                                                         *)
(* Of a decision the record keeps what decides its lifecycle: status, vote *)
(* outcome, whether the end of voting is known, whether votes were seen,   *)
(* whether it has an ETA, and its canonical blocks (0: not known).  A      *)
(* transaction is named by its block.  The execution outcome is a function *)
(* of the status; title, proposer, actions and addresses do not change.    *)
(***************************************************************************)
EXTENDS Governor

Results == {"succeeded", "defeated"}
Transitions == {"created", "succeeded", "defeated", "canceled", "queued", "expired", "executed"}

Decision == [status : Statuses, vote : {"pending", "canceled"} \cup Results,
             ended : BOOLEAN, votes : BOOLEAN, eta : BOOLEAN, endBlock : Nat,
             created : Nat, canceled : Nat, queued : Nat, executed : Nat,
             observed : Nat]

\* findDecisionById found nothing.
NoDecision == [status |-> "none", vote |-> "pending", ended |-> FALSE,
               votes |-> FALSE, eta |-> FALSE, endBlock |-> 0, created |-> 0,
               canceled |-> 0, queued |-> 0, executed |-> 0, observed |-> 0]

Terminal(d) == d.status \in {"canceled", "executed"}

\* The operator ?? on blocks.
OrElse(block, other) == IF block # 0 THEN block ELSE other

VoteOutcomeOf(status) ==
  CASE status \in {"pending", "active"} -> "pending"
    [] status \in {"defeated", "canceled"} -> status
    [] status \in {"succeeded", "queued", "expired", "executed"} -> "succeeded"

WasQueued(d) == d.eta \/ d.queued # 0

AllowedStatusTransitions ==
  [pending   |-> Statuses \ {"pending"},
   active    |-> Statuses \ {"pending", "active"},
   succeeded |-> {"canceled", "queued", "expired", "executed"},
   queued    |-> {"canceled", "expired", "executed"},
   canceled  |-> {},
   defeated  |-> {"canceled"},
   expired   |-> {"canceled"},
   executed  |-> {}]

-------------------------------------------------------------------------------
(* getDecision: reads pinned to block b, and the logs the caller has read. *)

FirstOf(type, logs) ==
  LET blocks == {l.block : l \in {m \in logs : m.type = type}}
  IN IF blocks = {} THEN 0 ELSE CHOOSE k \in blocks : \A j \in blocks : k <= j

\* When a transition of a life took place; 0: never.
HappenedAt(h, t) ==
  LET canceled == FirstOf("canceled", AllLogs(h))
  IN CASE t = "created" -> h.created
       [] t = "canceled" -> canceled
       [] t \in Results -> IF /\ h.passed <=> (t = "succeeded")
                              /\ canceled = 0 \/ h.end < canceled
                           THEN h.end + 1 ELSE 0
       [] t = "queued" -> h.queued
       [] t = "expired" -> h.expires
       [] t = "executed" -> h.executed

\* Slip: the cancellation of the logs at hand, whatever was recorded before.
CancellationInLogs(first, existing) == OrElse(first, existing.canceled)

CanonicalCancellationReference(first, existing) ==
  IF existing.canceled # 0 /\ (first = 0 \/ existing.canceled <= first)
  THEN existing.canceled ELSE first

\* Slip: a cancellation in the last block of voting counts as one after it.
ResolveAtTheEdge(h, existing, eta, cancellation) ==
  IF eta THEN "succeeded"
  ELSE IF existing.vote \in Results THEN existing.vote
  ELSE IF cancellation = 0 \/ cancellation < h.end THEN "canceled"
  ELSE IF h.passed THEN "succeeded" ELSE "defeated"

\* Slip: a cancellation always cancels the vote.
ResolveWithoutVotes(h, existing, eta, cancellation) ==
  IF eta THEN "succeeded"
  ELSE IF existing.vote \in Results THEN existing.vote ELSE "canceled"

\* After the end of voting the totals of the proposal are final.
ResolveCanceledVoteOutcome(h, existing, eta, cancellation) ==
  IF eta THEN "succeeded"
  ELSE IF existing.vote \in Results THEN existing.vote
  ELSE IF cancellation = 0 \/ cancellation <= h.end THEN "canceled"
  ELSE IF h.passed THEN "succeeded" ELSE "defeated"

GetDecision(h, logs, existing, b) ==
  LET status == StatusAt(h, b)
      eta == By(h.queued, b)
      cancellation == CanonicalCancellationReference(FirstOf("canceled", logs), existing)
      vote == IF status = "canceled"
              THEN ResolveCanceledVoteOutcome(h, existing, eta, cancellation)
              ELSE VoteOutcomeOf(status)
  IN [status |-> status, vote |-> vote, ended |-> existing.ended \/ vote \in Results,
      votes |-> By(h.voted, b), eta |-> eta, endBlock |-> h.end,
      created |-> FirstOf("created", logs), canceled |-> cancellation,
      queued |-> FirstOf("queued", logs), executed |-> FirstOf("executed", logs),
      observed |-> b]

\* assertProposalStateConsistency: the state agrees with the block it was read at.
ProposalStateConsistency(h, status, eta, b) ==
  /\ status = "pending" => b <= h.start
  /\ status = "active" => h.start < b /\ b <= h.end
  /\ status \notin {"pending", "active", "canceled"} => h.end < b
  /\ status \in {"queued", "expired", "executed"} => eta
  /\ status \in {"pending", "active", "defeated", "succeeded"} => ~eta

\* assertDecisionEventConsistency: the logs agree with the state read with them.
DecisionEventConsistency(status, logs, b) ==
  /\ \A l \in logs : l.block <= b
  /\ \A l, m \in logs : l.type = m.type => l.type = "canceled" \/ l = m
  /\ \A l \in logs : /\ l.type = "canceled" => status = "canceled"
                     /\ l.type = "queued" => status \in {"queued", "expired", "executed", "canceled"}
                     /\ l.type = "executed" => status = "executed"

\* An observation whose parts contradict each other is not used.
GetDecisionThrows(h, logs, b) ==
  \/ ~ProposalStateConsistency(h, StatusAt(h, b), By(h.queued, b), b)
  \/ ~DecisionEventConsistency(StatusAt(h, b), logs, b)

-------------------------------------------------------------------------------
(* governanceDecision.ts *)

DecisionObservationValid(o) ==
  /\ \/ o.status = "canceled" /\ o.vote # "pending" /\ (WasQueued(o) => o.vote = "succeeded")
     \/ o.vote = VoteOutcomeOf(o.status)
  /\ o.ended => o.vote \in Results
  /\ o.canceled # 0 => o.status = "canceled"
  /\ o.queued # 0 => o.status \in {"queued", "expired", "executed", "canceled"}
  /\ o.executed # 0 => o.status = "executed"
  /\ \A k \in {o.created, o.canceled, o.queued, o.executed} : k <= o.observed
  /\ o.created # 0 => \A k \in {o.canceled, o.queued, o.executed} : k # 0 => o.created <= k
  /\ o.queued # 0 => \A k \in {o.canceled, o.executed} : k # 0 => o.queued <= k

\* The vote outcome that was stored outlives a cancellation observed without it.
NormalizeCanceledVoteOutcome(existing, o) ==
  IF o.status # "canceled" THEN o
  ELSE [o EXCEPT !.vote = IF WasQueued(o) THEN "succeeded"
                          ELSE IF existing.vote \in Results THEN existing.vote ELSE o.vote]

ImmutableAndMonotonic(existing, o) ==
  /\ o.status = existing.status \/ o.status \in AllowedStatusTransitions[existing.status]
  /\ existing.eta => o.eta
  /\ existing.observed <= o.observed
  /\ existing.votes => o.votes

Combined(existing, o) ==
  [o EXCEPT !.ended = o.ended \/ existing.ended,
            !.created = OrElse(o.created, existing.created),
            !.canceled = OrElse(o.canceled, existing.canceled),
            !.queued = OrElse(o.queued, existing.queued),
            !.executed = OrElse(o.executed, existing.executed)]

MergeRefused(existing, o) ==
  LET n == NormalizeCanceledVoteOutcome(existing, o)
  IN \/ o.status = "canceled" /\ WasQueued(o) /\ existing.vote = "defeated"
     \/ ~DecisionObservationValid(o) \/ ~DecisionObservationValid(n)
     \/ existing # NoDecision /\ ~ImmutableAndMonotonic(existing, n)
     \/ ~DecisionObservationValid(Combined(existing, n))

\* A decision in which only the block of its observation changed is not rewritten.
MergeGovernanceDecision(existing, o) ==
  LET d == Combined(existing, NormalizeCanceledVoteOutcome(existing, o))
  IN IF d = [existing EXCEPT !.observed = d.observed] THEN existing ELSE d

\* Slip: every status is a transition.
ImpliedWithStatus(d) ==
  {"created", d.status}
    \cup (IF \/ d.status \in {"queued", "expired", "executed"}
             \/ d.status = "canceled" /\ WasQueued(d)
          THEN {"succeeded", "queued"}
          ELSE IF d.status = "canceled" THEN {d.vote} \cap Results ELSE {})

\* deriveGovernanceTransitions(null, d): the transitions a decision stands for.
ImpliedTransitions(d) ==
  {"created"} \cup ({d.status} \ {"pending", "active"})
    \cup (IF \/ d.status \in {"queued", "expired", "executed"}
             \/ d.status = "canceled" /\ WasQueued(d)
          THEN {"succeeded", "queued"}
          ELSE IF d.status = "canceled" THEN {d.vote} \cap Results ELSE {})

\* Slip: a queue and a cancellation between two scans.
DeriveWithoutQueue(previous, d) ==
  IF previous.status = d.status
  THEN IF d.status = "canceled" /\ previous.vote = "canceled" THEN {d.vote} \cap Results ELSE {}
  ELSE IF d.status = "canceled" /\ previous.status \in {"pending", "active"}
       THEN {"canceled"} \cup ({d.vote} \cap Results)
  ELSE IF d.status \in {"queued", "expired", "executed"}
       THEN CASE previous.status \in {"pending", "active"} -> {"succeeded", "queued", d.status}
              [] previous.status = "succeeded" -> {"queued", d.status}
              [] OTHER -> {d.status}
  ELSE {d.status} \ {"pending", "active"}

\* deriveGovernanceTransitions(previous, d): those that are new.
DeriveGovernanceTransitions(previous, d) ==
  LET voting == previous.status \in {"pending", "active"}
      unseenQueue == d.status = "canceled" /\ ~WasQueued(previous) /\ WasQueued(d)
  IN IF previous = NoDecision THEN ImpliedTransitions(d)
     ELSE IF previous.status = d.status
     THEN IF d.status = "canceled" /\ previous.vote = "canceled" THEN {d.vote} \cap Results ELSE {}
     ELSE IF unseenQueue /\ voting THEN {"succeeded", "queued", "canceled"}
     ELSE IF unseenQueue /\ previous.status = "succeeded" THEN {"queued", "canceled"}
     ELSE IF d.status = "canceled" /\ voting THEN {"canceled"} \cup ({d.vote} \cap Results)
     ELSE IF d.status \in {"queued", "expired", "executed"} /\ voting
     THEN {"succeeded", "queued", d.status}
     ELSE IF d.status \in {"expired", "executed"} /\ previous.status = "succeeded"
     THEN {"queued", d.status}
     ELSE {d.status} \ {"pending", "active"}

-------------------------------------------------------------------------------
(* governance.repository.ts: lifecycle events, by their transition. *)

LifecycleEvent == [block : Nat, transaction : Nat, status : {"pending", "skipped"}]

TransactionForTransition(d, t) ==
  CASE t = "created" -> d.created [] t = "canceled" -> d.canceled
    [] t = "queued" -> d.queued [] t = "executed" -> d.executed [] OTHER -> 0

BlockNumberForTransition(d, t) ==
  IF t \in Results THEN d.endBlock + 1 ELSE OrElse(TransactionForTransition(d, t), d.observed)

BuildLifecycleEvent(d, t, note) ==
  [block |-> BlockNumberForTransition(d, t), transaction |-> TransactionForTransition(d, t),
   status |-> note]

NoEvents == [t \in {} |-> [block |-> 0, transaction |-> 0, status |-> "skipped"]]

\* Slip: the stored event is replaced by the one built from the new decision.
ReplaceLifecycleEvent(event, candidate) == candidate

MergeLifecycleEventMetadata(event, candidate) ==
  IF candidate.transaction = 0 THEN event
  ELSE [event EXCEPT !.transaction = candidate.transaction, !.block = candidate.block]

\* mergeLifecycleEventMetadata throws: a known transaction would change.
TransactionChanges(event, candidate) ==
  /\ event.transaction # 0 /\ candidate.transaction # 0
  /\ event.transaction # candidate.transaction

UpsertRefused(existing, events, o) ==
  \/ MergeRefused(existing, o)
  \/ LET d == MergeGovernanceDecision(existing, o)
     IN \E t \in ImpliedTransitions(d) \cap DOMAIN events :
          TransactionChanges(events[t], BuildLifecycleEvent(d, t, "skipped"))

\* The transitions for which the transaction creates an event.
NewEvents(existing, events, d) ==
  (ImpliedTransitions(d) \cap DeriveGovernanceTransitions(existing, d)) \ DOMAIN events

UpsertedEvents(existing, events, d, note) ==
  [t \in DOMAIN events \cup NewEvents(existing, events, d) |->
     IF t \notin DOMAIN events THEN BuildLifecycleEvent(d, t, note)
     ELSE IF t \notin ImpliedTransitions(d) THEN events[t]
     ELSE MergeLifecycleEventMetadata(events[t], BuildLifecycleEvent(d, t, note))]
===============================================================================
