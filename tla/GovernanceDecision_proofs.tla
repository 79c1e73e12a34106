----------------------- MODULE GovernanceDecision_proofs -----------------------
(***************************************************************************)
(* Lemmas about one observation of a proposal and what the transaction of  *)
(* upsertDecision makes of it, for any life, logs and stored decision.     *)
(***************************************************************************)
EXTENDS GovernanceDecision, TLAPS, WellFoundedInduction

\* The vote outcome of a decision agrees with its status.
VoteFits(d) ==
  \/ d.status = "canceled" /\ d.vote # "pending" /\ (WasQueued(d) => d.vote = "succeeded")
  \/ d.vote = VoteOutcomeOf(d.status)

\* The queue of a decision and of an observation is that of the life on the chain.
QueueFits(h, d) ==
  /\ d.queued # 0 => d.eta
  /\ d.eta => h.queued # 0
  /\ d.status = "canceled" /\ h.queued # 0 => d.eta
  /\ d.status \in {"queued", "expired", "executed"} => d.eta
  /\ d.status \in {"pending", "active", "defeated", "succeeded"} => ~d.eta

\* A set of blocks that is not empty has a first block.
LEMMA FirstBlock ==
  ASSUME NEW B, B \in SUBSET Nat, B # {}
  PROVE  \E k \in B : \A j \in B : k <= j
<1> DEFINE Less == OpToRel(<, Nat)
<1>1. IsWellFoundedOn(Less, Nat)
  BY NatLessThanWellFounded
<1>2. Less = {ss \in Nat \X Nat : ss[1] < ss[2]}
  BY DEF OpToRel
<1>3. PICK k \in B : \A j \in B : <<j, k>> \notin Less
  <2> HIDE DEF Less
  <2> QED BY <1>1, WFMin
<1>4. ASSUME NEW j \in B PROVE k <= j
  <2>1. <<j, k>> \in Nat \X Nat
    OBVIOUS
  <2>2. ~(<<j, k>>[1] < <<j, k>>[2])
    <3> HIDE DEF Less
    <3> QED BY <2>1, <1>2, <1>3
  <2> QED BY <2>2
<1> QED BY <1>4

\* FirstOf names the block of one of the logs, or 0.
LEMMA FirstOfLogs ==
  ASSUME NEW logs, \A l \in logs : l.block \in Nat, NEW type
  PROVE  /\ FirstOf(type, logs) \in Nat
         /\ FirstOf(type, logs) # 0 =>
              \E l \in logs : l.type = type /\ l.block = FirstOf(type, logs)
<1> DEFINE blocks == {l.block : l \in {m \in logs : m.type = type}}
<1>1. FirstOf(type, logs)
        = IF blocks = {} THEN 0 ELSE CHOOSE k \in blocks : \A j \in blocks : k <= j
  BY DEF FirstOf
<1>2. blocks \in SUBSET Nat /\ \A k \in blocks : \E l \in logs : l.type = type /\ l.block = k
  OBVIOUS
<1>3. blocks # {} => FirstOf(type, logs) \in blocks
  <2> HIDE DEF blocks
  <2> SUFFICES ASSUME blocks # {} PROVE FirstOf(type, logs) \in blocks
    OBVIOUS
  <2>1. \E k \in blocks : \A j \in blocks : k <= j
    BY <1>2, FirstBlock
  <2> QED BY <1>1, <2>1
<1> HIDE DEF blocks
<1>4. CASE blocks = {}
  BY <1>1, <1>4
<1>5. CASE blocks # {}
  <2>1. FirstOf(type, logs) \in blocks
    BY <1>3, <1>5
  <2> QED BY <2>1, <1>2
<1> QED BY <1>4, <1>5

\* What logs the chain can show of a proposal.
LEMMA LogsOfALife ==
  ASSUME NEW h, IsLife(h), NEW l \in AllLogs(h)
  PROVE  /\ l.block \in Nat
         /\ l.type = "queued" => h.queued # 0 /\ l.block = h.queued
<1>1. h.created \in Nat /\ h.queued \in Nat /\ h.executed \in Nat /\ h.cancels \in SUBSET Nat
  BY DEF IsLife
<1>2. \/ l = [type |-> "created", block |-> h.created]
      \/ \E k \in h.cancels : l = [type |-> "canceled", block |-> k]
      \/ l = [type |-> "queued", block |-> h.queued] /\ l.block # 0
      \/ l = [type |-> "executed", block |-> h.executed]
  BY DEF AllLogs
<1> QED BY <1>1, <1>2

\* The fields of what findDecisionById returns.
LEMMA StoredFields ==
  ASSUME NEW e \in Decision \cup {NoDecision}
  PROVE  /\ e.vote \in {"pending", "canceled"} \cup Results
         /\ e.ended \in BOOLEAN /\ e.votes \in BOOLEAN /\ e.eta \in BOOLEAN
         /\ e.endBlock \in Nat /\ e.created \in Nat /\ e.canceled \in Nat
         /\ e.queued \in Nat /\ e.executed \in Nat /\ e.observed \in Nat
<1>1. CASE e \in Decision
  BY <1>1 DEF Decision
<1>2. CASE e = NoDecision
  <2>1. e.ended = FALSE /\ e.votes = FALSE /\ e.eta = FALSE
    BY <1>2 DEF NoDecision
  <2>2. /\ e.vote = "pending" /\ e.endBlock = 0 /\ e.created = 0 /\ e.canceled = 0
        /\ e.queued = 0 /\ e.executed = 0 /\ e.observed = 0
    BY <1>2 DEF NoDecision
  <2>3. e.ended \in BOOLEAN /\ e.votes \in BOOLEAN /\ e.eta \in BOOLEAN
    BY <2>1, Zenon
  <2> QED BY <2>2, <2>3
<1> QED BY <1>1, <1>2

\* The outcome of getDecision is a decision, whatever was stored before.
LEMMA GetDecisionType ==
  ASSUME NEW h, IsLife(h), NEW logs, logs \subseteq AllLogs(h), NEW b \in Nat,
         NEW existing \in Decision \cup {NoDecision}
  PROVE  GetDecision(h, logs, existing, b) \in Decision
<1> DEFINE o == GetDecision(h, logs, existing, b)
<1>1. \A type : FirstOf(type, logs) \in Nat
  BY LogsOfALife, FirstOfLogs
<1>2. StatusAt(h, b) \in Statuses
  BY DEF StatusAt, Statuses
<1>3. existing.canceled \in Nat /\ existing.ended \in BOOLEAN
  BY StoredFields
<1>4. ASSUME NEW eta, NEW k
      PROVE  ResolveCanceledVoteOutcome(h, existing, eta, k) \in {"canceled"} \cup Results
  BY DEF ResolveCanceledVoteOutcome, Results
<1>5. StatusAt(h, b) # "canceled" => VoteOutcomeOf(StatusAt(h, b)) \in {"pending"} \cup Results
  BY <1>2 DEF VoteOutcomeOf, Statuses, Results
<1>6. CanonicalCancellationReference(FirstOf("canceled", logs), existing) \in Nat
  BY <1>1, <1>3 DEF CanonicalCancellationReference
<1>7. h.end \in Nat /\ By(h.voted, b) \in BOOLEAN /\ By(h.queued, b) \in BOOLEAN
  BY DEF IsLife, By
<1>8. o.vote \in {"pending", "canceled"} \cup Results
  BY <1>4, <1>5 DEF GetDecision
<1>9. o = [status |-> StatusAt(h, b), vote |-> o.vote, ended |-> o.ended,
           votes |-> By(h.voted, b), eta |-> By(h.queued, b), endBlock |-> h.end,
           created |-> FirstOf("created", logs), canceled |-> o.canceled,
           queued |-> FirstOf("queued", logs), executed |-> FirstOf("executed", logs),
           observed |-> b]
  BY DEF GetDecision
<1>10. o.ended \in BOOLEAN /\ o.canceled \in Nat
  BY <1>3, <1>6 DEF GetDecision
<1> HIDE DEF o
<1>11. ASSUME NEW vote \in {"pending", "canceled"} \cup Results, NEW ended \in BOOLEAN,
              NEW canceled \in Nat
       PROVE  [status |-> StatusAt(h, b), vote |-> vote, ended |-> ended,
               votes |-> By(h.voted, b), eta |-> By(h.queued, b), endBlock |-> h.end,
               created |-> FirstOf("created", logs), canceled |-> canceled,
               queued |-> FirstOf("queued", logs), executed |-> FirstOf("executed", logs),
               observed |-> b] \in Decision
  BY <1>1, <1>2, <1>7 DEF Decision
<1>12. [status |-> StatusAt(h, b), vote |-> o.vote, ended |-> o.ended,
        votes |-> By(h.voted, b), eta |-> By(h.queued, b), endBlock |-> h.end,
        created |-> FirstOf("created", logs), canceled |-> o.canceled,
        queued |-> FirstOf("queued", logs), executed |-> FirstOf("executed", logs),
        observed |-> b] \in Decision
  BY <1>8, <1>10, <1>11, Zenon
<1>13. o \in Decision
  BY <1>9, <1>12, Zenon
<1> QED BY <1>13 DEF o

\* An observation that is not refused becomes the decision; the references of the
\* decision stay, and the outcome of a vote that was canceled later.
LEMMA Merged ==
  ASSUME NEW e \in Decision \cup {NoDecision}, NEW o \in Decision, ~MergeRefused(e, o),
         NEW d, d = MergeGovernanceDecision(e, o)
  PROVE  /\ d \in Decision
         /\ d.status = o.status /\ d.eta = o.eta /\ d.queued = OrElse(o.queued, e.queued)
         /\ e # NoDecision => /\ d.status = e.status \/ d.status \in AllowedStatusTransitions[e.status]
                              /\ e.eta => d.eta
         /\ VoteFits(d)
         /\ d.status = "canceled" /\ e.vote \in Results =>
              \/ d.vote = e.vote
              \/ d.vote = "succeeded" /\ WasQueued(o)
         /\ d.status = "canceled" /\ WasQueued(o) => e.vote # "defeated"
<1> DEFINE n == NormalizeCanceledVoteOutcome(e, o)
           c == Combined(e, n)
<1>1. /\ e.ended \in BOOLEAN /\ e.votes \in BOOLEAN /\ e.created \in Nat /\ e.canceled \in Nat
      /\ e.queued \in Nat /\ e.executed \in Nat /\ e.vote \in {"pending", "canceled"} \cup Results
  BY StoredFields
<1>2. /\ n \in Decision
      /\ n.status = o.status /\ n.eta = o.eta /\ n.queued = o.queued /\ n.observed = o.observed
      /\ o.status = "canceled" /\ e.vote \in Results =>
           n.vote = e.vote \/ (n.vote = "succeeded" /\ WasQueued(o))
  BY <1>1 DEF NormalizeCanceledVoteOutcome, Decision, Results
<1>3. /\ c \in Decision
      /\ c.status = n.status /\ c.eta = n.eta /\ c.vote = n.vote
      /\ c.queued = OrElse(n.queued, e.queued)
  <2> HIDE DEF n
  <2>1. n.ended \/ e.ended \in BOOLEAN
    BY <1>1, <1>2 DEF Decision
  <2>2. \A k \in {e.created, e.canceled, e.queued, e.executed} :
          \A j \in Nat : OrElse(j, k) \in Nat
    BY <1>1 DEF OrElse
  <2>3. ASSUME NEW ended \in BOOLEAN, NEW created \in Nat, NEW canceled \in Nat,
               NEW queued \in Nat, NEW executed \in Nat, NEW m,
               m = [n EXCEPT !.ended = ended, !.created = created, !.canceled = canceled,
                             !.queued = queued, !.executed = executed]
        PROVE  /\ m \in Decision /\ m.status = n.status /\ m.eta = n.eta /\ m.vote = n.vote
               /\ m.queued = queued
    BY <1>2, <2>3 DEF Decision
  <2> QED BY <1>2, <2>1, <2>2, <2>3 DEF Combined, Decision
<1>4. /\ o.status = "canceled" /\ WasQueued(o) => e.vote # "defeated"
      /\ VoteFits(c)
      /\ e # NoDecision => ImmutableAndMonotonic(e, n)
  BY DEF MergeRefused, DecisionObservationValid, VoteFits
<1>5. d = IF c = [e EXCEPT !.observed = c.observed] THEN e ELSE c
  BY DEF MergeGovernanceDecision
<1> HIDE DEF n, c
<1>6. CASE d = c
  BY <1>2, <1>3, <1>4, <1>6 DEF ImmutableAndMonotonic
<1>7. CASE c = [e EXCEPT !.observed = c.observed] /\ d = e
  <2>1. e # NoDecision
    BY <1>3, <1>7 DEF NoDecision, Decision, Statuses
  <2>2. e \in Decision
    BY <2>1
  <2>3. /\ c.status = e.status /\ c.vote = e.vote /\ c.eta = e.eta /\ c.ended = e.ended
        /\ c.created = e.created /\ c.canceled = e.canceled /\ c.queued = e.queued
        /\ c.executed = e.executed
    BY <1>7, <2>2 DEF Decision
  <2>4. VoteFits(e)
    BY <1>4, <2>3 DEF VoteFits, WasQueued
  <2> QED BY <1>2, <1>3, <1>4, <1>7, <2>2, <2>3, <2>4 DEF Decision
<1> QED BY <1>5, <1>6, <1>7

\* One accepted observation: the transitions that the new decision stands for and
\* the old one did not are derived, and none of the old ones is taken back.
LEMMA TransitionsDerived ==
  ASSUME NEW h, NEW e \in Decision, QueueFits(h, e), VoteFits(e),
         NEW d \in Decision, QueueFits(h, d), VoteFits(d),
         d.status = e.status \/ d.status \in AllowedStatusTransitions[e.status],
         d.status = "canceled" /\ e.vote \in Results =>
           d.vote = e.vote \/ (d.vote = "succeeded" /\ WasQueued(d)),
         d.status = "canceled" /\ e.vote = "defeated" => ~WasQueued(d)
  PROVE  /\ ImpliedTransitions(d) \subseteq
              ImpliedTransitions(e) \cup DeriveGovernanceTransitions(e, d)
         /\ ImpliedTransitions(e) \subseteq ImpliedTransitions(d)
              \cup (IF d.status = "canceled" THEN {"expired"} ELSE {})
         /\ e.status = "canceled" => d.status = "canceled"
<1>1. e # NoDecision
  BY DEF NoDecision, Decision, Statuses
<1>2. (WasQueued(e) <=> e.eta) /\ (WasQueued(d) <=> d.eta)
  BY DEF QueueFits, WasQueued
<1>3. e.status \in Statuses /\ d.status \in Statuses
  BY DEF Decision
<1>4. CASE e.status \in {"pending", "active"}
  <2>1. ~e.eta /\ e.vote = VoteOutcomeOf(e.status)
    BY <1>4 DEF QueueFits, VoteFits
  <2>2. CASE d.status = "canceled" /\ d.eta
    BY <1>1, <1>2, <1>4, <2>1, <2>2 DEF QueueFits, VoteFits, ImpliedTransitions, Statuses, Results,
       DeriveGovernanceTransitions, AllowedStatusTransitions, VoteOutcomeOf
  <2>3. CASE d.status = "canceled" /\ ~d.eta
    BY <1>1, <1>2, <1>4, <2>1, <2>3 DEF QueueFits, VoteFits, ImpliedTransitions, Statuses, Results,
       DeriveGovernanceTransitions, AllowedStatusTransitions, VoteOutcomeOf
  <2>4. CASE d.status \in {"queued", "expired", "executed"}
    BY <1>1, <1>2, <1>4, <2>1, <2>4 DEF QueueFits, VoteFits, ImpliedTransitions, Statuses, Results,
       DeriveGovernanceTransitions, AllowedStatusTransitions, VoteOutcomeOf
  <2>5. CASE d.status \in {"pending", "active", "defeated", "succeeded"}
    BY <1>1, <1>2, <1>4, <2>1, <2>5 DEF QueueFits, VoteFits, ImpliedTransitions, Statuses, Results,
       DeriveGovernanceTransitions, AllowedStatusTransitions, VoteOutcomeOf
  <2> QED BY <1>3, <2>2, <2>3, <2>4, <2>5 DEF Statuses, Decision
<1>5. CASE e.status = "succeeded"
  <2>1. ~e.eta /\ e.vote = VoteOutcomeOf(e.status)
    BY <1>5 DEF QueueFits, VoteFits
  <2>2. CASE d.status = "canceled" /\ d.eta
    BY <1>1, <1>2, <1>5, <2>1, <2>2 DEF QueueFits, VoteFits, ImpliedTransitions, Statuses, Results,
       DeriveGovernanceTransitions, AllowedStatusTransitions, VoteOutcomeOf
  <2>3. CASE d.status = "canceled" /\ ~d.eta
    BY <1>1, <1>2, <1>5, <2>1, <2>3 DEF QueueFits, VoteFits, ImpliedTransitions, Statuses, Results,
       DeriveGovernanceTransitions, AllowedStatusTransitions, VoteOutcomeOf
  <2>4. CASE d.status \in {"queued", "expired", "executed"}
    BY <1>1, <1>2, <1>5, <2>1, <2>4 DEF QueueFits, VoteFits, ImpliedTransitions, Statuses, Results,
       DeriveGovernanceTransitions, AllowedStatusTransitions, VoteOutcomeOf
  <2>5. CASE d.status \in {"pending", "active", "defeated", "succeeded"}
    BY <1>1, <1>2, <1>5, <2>1, <2>5 DEF QueueFits, VoteFits, ImpliedTransitions, Statuses, Results,
       DeriveGovernanceTransitions, AllowedStatusTransitions, VoteOutcomeOf
  <2> QED BY <1>3, <2>2, <2>3, <2>4, <2>5 DEF Statuses, Decision
<1>6. CASE e.status = "defeated"
  <2>1. ~e.eta /\ e.vote = "defeated" /\ (d.status = "canceled" => ~d.eta)
    BY <1>2, <1>6 DEF QueueFits, VoteFits, VoteOutcomeOf
  <2>2. d.status \in {"defeated", "canceled"}
    BY <1>6 DEF AllowedStatusTransitions
  <2>3. CASE d.status = "defeated"
    BY <1>1, <1>6, <2>3 DEF ImpliedTransitions, Statuses, Results, DeriveGovernanceTransitions
  <2>4. CASE d.status = "canceled"
    <3>1. d.vote = "defeated"
      BY <1>2, <2>1, <2>4 DEF Results
    <3> QED BY <1>1, <1>2, <1>6, <2>1, <2>4, <3>1 DEF ImpliedTransitions, Statuses, Results, DeriveGovernanceTransitions
  <2> QED BY <2>2, <2>3, <2>4
<1>8. CASE e.status \in {"queued", "expired", "executed"}
  <2>1. e.eta /\ (d.status = "canceled" => d.eta)
    BY <1>8 DEF QueueFits
  <2> QED BY <1>1, <1>2, <1>3, <1>8, <2>1 DEF QueueFits, VoteFits, ImpliedTransitions, Statuses, Results,
       DeriveGovernanceTransitions, AllowedStatusTransitions, VoteOutcomeOf
<1>7. CASE e.status = "canceled"
  BY <1>1, <1>2, <1>3, <1>7 DEF QueueFits, VoteFits, ImpliedTransitions, Statuses, Results,
     DeriveGovernanceTransitions, AllowedStatusTransitions, VoteOutcomeOf
<1> QED BY <1>3, <1>4, <1>5, <1>6, <1>7, <1>8 DEF Statuses

\* An observation fits the life it was made of.
LEMMA ObservationFits ==
  ASSUME NEW h, IsLife(h), NEW logs, logs \subseteq AllLogs(h), NEW b \in Nat,
         NEW existing \in Decision \cup {NoDecision}, ~GetDecisionThrows(h, logs, b)
  PROVE  QueueFits(h, GetDecision(h, logs, existing, b))
<1> DEFINE o == GetDecision(h, logs, existing, b)
<1>1. o.status = StatusAt(h, b) /\ o.eta = By(h.queued, b) /\ o.queued = FirstOf("queued", logs)
  BY DEF GetDecision
<1> HIDE DEF o
<1>2. /\ h.queued \in Nat /\ h.cancels \in SUBSET Nat
      /\ \A k \in h.cancels : h.queued <= k
  BY DEF IsLife
<1>3. o.queued # 0 => o.eta
  <2>1. SUFFICES ASSUME FirstOf("queued", logs) # 0 PROVE By(h.queued, b)
    BY <1>1, <2>1, Zenon
  <2>2. PICK l \in logs : l.type = "queued"
    BY <2>1, LogsOfALife, FirstOfLogs
  <2>3. h.queued # 0 /\ l.block = h.queued
    BY <2>2, LogsOfALife
  <2>4. l.block <= b
    BY <2>2 DEF GetDecisionThrows, DecisionEventConsistency
  <2> QED BY <2>3, <2>4 DEF By
<1>4. o.eta => h.queued # 0
  BY <1>1 DEF By
<1>5. o.status = "canceled" /\ h.queued # 0 => o.eta
  <2>1. SUFFICES ASSUME StatusAt(h, b) = "canceled", h.queued # 0 PROVE By(h.queued, b)
    BY <1>1, <2>1, Zenon
  <2>2. PICK k \in h.cancels : k <= b
    BY <2>1 DEF StatusAt, CanceledBy
  <2> QED BY <1>2, <2>1, <2>2 DEF By
<1>6. ProposalStateConsistency(h, o.status, o.eta, b)
  BY <1>1 DEF GetDecisionThrows
<1>7. /\ o.status \in {"queued", "expired", "executed"} => o.eta
      /\ o.status \in {"pending", "active", "defeated", "succeeded"} => ~o.eta
  BY <1>6 DEF ProposalStateConsistency
<1>8. QueueFits(h, o)
  BY <1>3, <1>4, <1>5, <1>7 DEF QueueFits
<1> QED BY <1>8 DEF o

\* What is stored of an event is typed.
LEMMA EventTypes ==
  ASSUME NEW d \in Decision, NEW t \in Transitions, NEW note \in {"pending", "skipped"}
  PROVE  /\ BuildLifecycleEvent(d, t, note) \in LifecycleEvent
         /\ BuildLifecycleEvent(d, t, note).status = note
         /\ BuildLifecycleEvent(d, t, note).transaction # 0 =>
              /\ t \notin Results
              /\ BuildLifecycleEvent(d, t, note).block = BuildLifecycleEvent(d, t, note).transaction
<1>1. TransactionForTransition(d, t) \in Nat
  BY DEF TransactionForTransition, Decision, Transitions
<1>2. TransactionForTransition(d, t) # 0 => t \notin Results
  BY DEF TransactionForTransition, Transitions, Results
<1>3. BlockNumberForTransition(d, t) \in Nat
  BY <1>1 DEF BlockNumberForTransition, OrElse, Decision
<1>4. TransactionForTransition(d, t) # 0 =>
        BlockNumberForTransition(d, t) = TransactionForTransition(d, t)
  BY <1>1, <1>2 DEF BlockNumberForTransition, OrElse
<1> QED BY <1>1, <1>2, <1>3, <1>4 DEF BuildLifecycleEvent, LifecycleEvent

-------------------------------------------------------------------------------
\* What the logs of a life are.
LEMMA LogCases ==
  ASSUME NEW h, IsLife(h), NEW l \in AllLogs(h)
  PROVE  /\ l.block \in Nat /\ l.block # 0 /\ h.created <= l.block
         /\ \/ l.type = "created" /\ l.block = h.created
            \/ l.type = "canceled" /\ l.block \in h.cancels
            \/ l.type = "queued" /\ l.block = h.queued
            \/ l.type = "executed" /\ l.block = h.executed
<1>1. /\ h.created \in Nat /\ h.start \in Nat /\ h.end \in Nat /\ h.queued \in Nat
      /\ h.executed \in Nat /\ h.cancels \in SUBSET Nat
      /\ 0 < h.created /\ h.created < h.start /\ h.start < h.end
      /\ h.queued # 0 => h.end < h.queued
      /\ h.executed # 0 => h.queued # 0 /\ h.queued < h.executed
      /\ \A k \in h.cancels : h.created <= k
  BY DEF IsLife
<1>2. \/ l = [type |-> "created", block |-> h.created]
      \/ \E k \in h.cancels : l = [type |-> "canceled", block |-> k]
      \/ l = [type |-> "queued", block |-> h.queued] /\ l.block # 0
      \/ l = [type |-> "executed", block |-> h.executed] /\ l.block # 0
  BY DEF AllLogs
<1> QED BY <1>1, <1>2

\* FirstOf names the first block of a type.
LEMMA FirstOfLeast ==
  ASSUME NEW logs, \A m \in logs : m.block \in Nat /\ m.block # 0, NEW l \in logs
  PROVE  FirstOf(l.type, logs) # 0 /\ FirstOf(l.type, logs) <= l.block
<1> DEFINE blocks == {m.block : m \in {n \in logs : n.type = l.type}}
<1>1. FirstOf(l.type, logs)
        = IF blocks = {} THEN 0 ELSE CHOOSE k \in blocks : \A j \in blocks : k <= j
  BY DEF FirstOf
<1>2. blocks \in SUBSET Nat /\ l.block \in blocks /\ 0 \notin blocks
  OBVIOUS
<1> HIDE DEF blocks
<1>3. \E k \in blocks : \A j \in blocks : k <= j
  BY <1>2, FirstBlock
<1>4. FirstOf(l.type, logs) \in blocks /\ \A j \in blocks : FirstOf(l.type, logs) <= j
  BY <1>1, <1>2, <1>3
<1> QED BY <1>2, <1>4

\* A merged decision takes the references of the observation where it has any.
LEMMA MergedReferences ==
  ASSUME NEW e \in Decision \cup {NoDecision}, NEW o \in Decision,
         NEW d, d = MergeGovernanceDecision(e, o)
  PROVE  /\ d.created = OrElse(o.created, e.created)
         /\ d.canceled = OrElse(o.canceled, e.canceled)
         /\ d.queued = OrElse(o.queued, e.queued)
         /\ d.executed = OrElse(o.executed, e.executed)
         /\ d.observed \in {e.observed, o.observed}
<1> DEFINE n == NormalizeCanceledVoteOutcome(e, o)
           c == Combined(e, n)
<1>1. e.vote \in {"pending", "canceled"} \cup Results
  BY StoredFields
<1>2. /\ n \in Decision /\ n.created = o.created /\ n.canceled = o.canceled
      /\ n.queued = o.queued /\ n.executed = o.executed /\ n.observed = o.observed
  BY <1>1 DEF NormalizeCanceledVoteOutcome, Decision, Results
<1>3. /\ c.created = OrElse(o.created, e.created) /\ c.canceled = OrElse(o.canceled, e.canceled)
      /\ c.queued = OrElse(o.queued, e.queued) /\ c.executed = OrElse(o.executed, e.executed)
      /\ c.observed = o.observed
  <2> HIDE DEF n
  <2> QED BY <1>2 DEF Combined, Decision
<1>4. d = IF c = [e EXCEPT !.observed = c.observed] THEN e ELSE c
  BY DEF MergeGovernanceDecision
<1> HIDE DEF n, c
<1>5. CASE d = c
  BY <1>3, <1>5
<1>6. CASE c = [e EXCEPT !.observed = c.observed] /\ d = e
  <2>1. /\ e.created = c.created /\ e.canceled = c.canceled /\ e.queued = c.queued
        /\ e.executed = c.executed
    BY <1>6 DEF Decision, NoDecision
  <2> QED BY <1>3, <1>6, <2>1
<1> QED BY <1>4, <1>5, <1>6

\* The block that a decision names for a log, if any, is no later than it.
Names(d, l) ==
  LET k == TransactionForTransition(d, l.type) IN k # 0 /\ k <= l.block

\* What an observation stores: it names its logs, and those named before it.
LEMMA LogsAreNamed ==
  ASSUME NEW h, IsLife(h), NEW logs, logs \subseteq AllLogs(h), NEW b \in Nat,
         NEW e \in Decision \cup {NoDecision},
         NEW d, d = MergeGovernanceDecision(e, GetDecision(h, logs, e, b)),
         NEW l \in AllLogs(h), l \in logs \/ Names(e, l)
  PROVE  Names(d, l)
<1> DEFINE o == GetDecision(h, logs, e, b)
           first == FirstOf(l.type, logs)
<1>1. o \in Decision
  BY GetDecisionType
<1>2. /\ o.created = FirstOf("created", logs) /\ o.queued = FirstOf("queued", logs)
      /\ o.executed = FirstOf("executed", logs)
      /\ o.canceled = CanonicalCancellationReference(FirstOf("canceled", logs), e)
  BY DEF GetDecision
<1> HIDE DEF o
<1>3. /\ d.created = OrElse(o.created, e.created) /\ d.canceled = OrElse(o.canceled, e.canceled)
      /\ d.queued = OrElse(o.queued, e.queued) /\ d.executed = OrElse(o.executed, e.executed)
  BY <1>1, MergedReferences DEF o
<1>4. e.created \in Nat /\ e.canceled \in Nat /\ e.queued \in Nat /\ e.executed \in Nat
  BY StoredFields
<1>5. \A m \in logs : m.block \in Nat /\ m.block # 0
  BY LogCases
<1>6. /\ first \in Nat
      /\ l \in logs => first # 0 /\ first <= l.block
      /\ first # 0 => \E m \in logs : m.type = l.type /\ m.block = first
  BY <1>5, FirstOfLogs, FirstOfLeast
<1>7. l.block \in Nat /\ l.type \in {"created", "canceled", "queued", "executed"}
  BY LogCases
<1> HIDE DEF first
<1>8. CASE l.type = "canceled"
  <2>1. o.canceled = IF e.canceled # 0 /\ (first = 0 \/ e.canceled <= first)
                     THEN e.canceled ELSE first
    BY <1>2, <1>8 DEF CanonicalCancellationReference, first
  <2>2. Names(e, l) <=> e.canceled # 0 /\ e.canceled <= l.block
    BY <1>8 DEF Names, TransactionForTransition
  <2>3. d.canceled # 0 /\ d.canceled <= l.block
    BY <1>3, <1>4, <1>6, <1>7, <2>1, <2>2 DEF OrElse
  <2> QED BY <1>8, <2>3 DEF Names, TransactionForTransition
<1>9. CASE l.type # "canceled"
  <2>1. first # 0 => first = l.block
    BY <1>6, <1>9, LogCases
  <2>2. TransactionForTransition(d, l.type)
          = OrElse(first, TransactionForTransition(e, l.type))
    BY <1>2, <1>3, <1>7, <1>9 DEF TransactionForTransition, first
  <2>3. Names(e, l) => /\ TransactionForTransition(e, l.type) # 0
                       /\ TransactionForTransition(e, l.type) <= l.block
    BY DEF Names
  <2> QED BY <1>6, <1>7, <2>1, <2>2, <2>3 DEF Names, OrElse
<1> QED BY <1>8, <1>9

\* The first observation of a proposal names its logs.
LEMMA FirstLookNames ==
  ASSUME NEW h, IsLife(h), NEW logs, logs \subseteq AllLogs(h), NEW b, NEW l \in logs
  PROVE  Names(GetDecision(h, logs, NoDecision, b), l)
<1> DEFINE first == FirstOf(l.type, logs)
<1>1. \A m \in logs : m.block \in Nat /\ m.block # 0
  BY LogCases
<1>2. first # 0 /\ first <= l.block
  BY <1>1, FirstOfLeast
<1>3. TransactionForTransition(GetDecision(h, logs, NoDecision, b), l.type) = first
  <2>1. NoDecision.canceled = 0
    BY DEF NoDecision
  <2>2. l.type \in {"created", "canceled", "queued", "executed"}
    BY LogCases
  <2> QED BY <2>1, <2>2 DEF TransactionForTransition, GetDecision, CanonicalCancellationReference
<1> QED BY <1>2, <1>3 DEF Names

\* The events after an upsert: those before, with their status, and new ones of the
\* status given, that the decision stands for.
LEMMA UpsertedTypes ==
  ASSUME NEW e, NEW events, NEW d \in Decision, NEW note \in {"pending", "skipped"},
         DOMAIN events \subseteq Transitions, \A t \in DOMAIN events : events[t] \in LifecycleEvent
  PROVE  LET f == UpsertedEvents(e, events, d, note)
         IN /\ DOMAIN f = DOMAIN events \cup NewEvents(e, events, d)
            /\ DOMAIN f \subseteq Transitions
            /\ \A t \in DOMAIN f :
                 /\ f[t] \in LifecycleEvent
                 /\ f[t].status = IF t \in DOMAIN events THEN events[t].status ELSE note
<1> DEFINE f == UpsertedEvents(e, events, d, note)
<1>1. DOMAIN f = DOMAIN events \cup NewEvents(e, events, d)
  BY DEF UpsertedEvents
<1>2. ImpliedTransitions(d) \subseteq Transitions
  BY DEF ImpliedTransitions, Transitions, Decision, Statuses, Results
<1>3. DOMAIN f \subseteq Transitions
  BY <1>1, <1>2 DEF NewEvents
<1> HIDE DEF f
<1>4. ASSUME NEW t \in DOMAIN f
      PROVE  /\ f[t] \in LifecycleEvent
             /\ f[t].status = IF t \in DOMAIN events THEN events[t].status ELSE note
  <2> DEFINE candidate == BuildLifecycleEvent(d, t, note)
  <2>1. candidate \in LifecycleEvent /\ candidate.status = note
    BY <1>3, EventTypes
  <2>2. f[t] = IF t \notin DOMAIN events THEN candidate
               ELSE IF t \notin ImpliedTransitions(d) THEN events[t]
               ELSE MergeLifecycleEventMetadata(events[t], candidate)
    BY <1>1 DEF UpsertedEvents, f
  <2> HIDE DEF candidate
  <2>3. CASE t \notin DOMAIN events
    BY <2>1, <2>2, <2>3
  <2>4. CASE t \in DOMAIN events
    <3>1. events[t] \in LifecycleEvent
      BY <2>4
    <3>2. MergeLifecycleEventMetadata(events[t], candidate) \in
            {events[t], [events[t] EXCEPT !.transaction = candidate.transaction,
                                          !.block = candidate.block]}
      BY DEF MergeLifecycleEventMetadata
    <3>3. f[t] \in {events[t], [events[t] EXCEPT !.transaction = candidate.transaction,
                                               !.block = candidate.block]}
      BY <2>2, <2>4, <3>2
    <3> QED BY <2>1, <2>4, <3>1, <3>3 DEF LifecycleEvent
  <2> QED BY <2>3, <2>4
<1> QED BY <1>1, <1>3, <1>4 DEF f

-------------------------------------------------------------------------------
\* What a decision or an observation says took place on the chain by block b, and
\* the transactions it names are those that made the transitions: of several
\* cancellations the first.
Happening(h, d, b) ==
  /\ By(h.created, b)
  /\ d.created \in {0, h.created} /\ d.canceled \in {0, HappenedAt(h, "canceled")}
  /\ d.queued \in {0, h.queued} /\ d.executed \in {0, h.executed}
  /\ d.vote \in Results => By(HappenedAt(h, d.vote), b)
  /\ d.status \notin {"pending", "active"} => By(HappenedAt(h, d.status), b)

\* When the transitions of a life took place.
LEMMA Moments ==
  ASSUME NEW h, IsLife(h)
  PROVE  /\ HappenedAt(h, "created") = h.created
         /\ HappenedAt(h, "queued") = h.queued
         /\ HappenedAt(h, "expired") = h.expires
         /\ HappenedAt(h, "executed") = h.executed
         /\ HappenedAt(h, "canceled") = 0 <=> h.cancels = {}
         /\ h.cancels # {} => HappenedAt(h, "canceled") \in h.cancels
         /\ \A k \in h.cancels : HappenedAt(h, "canceled") <= k
         /\ \A t \in Results :
              HappenedAt(h, t) = IF /\ h.passed <=> (t = "succeeded")
                                    /\ h.cancels = {} \/ h.end < HappenedAt(h, "canceled")
                                 THEN h.end + 1 ELSE 0
<1> DEFINE blocks == {l.block : l \in {m \in AllLogs(h) : m.type = "canceled"}}
           c == FirstOf("canceled", AllLogs(h))
<1>1. h.cancels \in SUBSET Nat /\ \A k \in h.cancels : k # 0
  BY DEF IsLife
<1>2. blocks = h.cancels
  <2>1. \A l \in AllLogs(h) : l.type = "canceled" => l.block \in h.cancels
    BY DEF AllLogs
  <2>2. \A k \in h.cancels : \E l \in AllLogs(h) : l.type = "canceled" /\ l.block = k
    <3> SUFFICES ASSUME NEW k \in h.cancels
                 PROVE  \E l \in AllLogs(h) : l.type = "canceled" /\ l.block = k
      OBVIOUS
    <3>1. [type |-> "canceled", block |-> k] \in AllLogs(h)
      BY DEF AllLogs
    <3> QED BY <3>1
  <2> HIDE DEF blocks
  <2>3. blocks \subseteq h.cancels
    BY <2>1 DEF blocks
  <2>4. h.cancels \subseteq blocks
    BY <2>2 DEF blocks
  <2> QED BY <2>3, <2>4
<1>3. c = IF blocks = {} THEN 0 ELSE CHOOSE k \in blocks : \A j \in blocks : k <= j
  BY DEF FirstOf
<1> HIDE DEF blocks
<1>4. h.cancels # {} => c \in h.cancels /\ \A k \in h.cancels : c <= k
  BY <1>1, <1>2, <1>3, FirstBlock
<1>5. h.cancels = {} => c = 0
  BY <1>2, <1>3
<1>6. HappenedAt(h, "canceled") = c
  BY DEF HappenedAt, Results
<1>7. /\ HappenedAt(h, "created") = h.created /\ HappenedAt(h, "queued") = h.queued
      /\ HappenedAt(h, "expired") = h.expires /\ HappenedAt(h, "executed") = h.executed
  BY DEF HappenedAt, Results
<1>8. \A t \in Results :
        HappenedAt(h, t) = IF /\ h.passed <=> (t = "succeeded")
                              /\ c = 0 \/ h.end < c
                           THEN h.end + 1 ELSE 0
  BY DEF HappenedAt, Results
<1> HIDE DEF c
<1>9. c = 0 <=> h.cancels = {}
  BY <1>1, <1>4, <1>5
<1>10. \A k \in h.cancels : c <= k
  BY <1>4
<1> QED BY <1>4, <1>6, <1>7, <1>8, <1>9, <1>10

LEMMA MomentTypes ==
  ASSUME NEW h, IsLife(h), NEW t \in Transitions
  PROVE  HappenedAt(h, t) \in Nat
<1>1. /\ h.created \in Nat /\ h.end \in Nat /\ h.queued \in Nat /\ h.expires \in Nat
      /\ h.executed \in Nat /\ h.cancels \in SUBSET Nat
  BY DEF IsLife
<1>2. HappenedAt(h, "canceled") \in Nat
  BY <1>1, Moments
<1>3. \A u \in Results : HappenedAt(h, u) \in Nat
  BY <1>1, Moments
<1> QED BY <1>1, <1>2, <1>3, Moments DEF Transitions, Results

\* What a state that is read at block b says has happened by then.
LEMMA StatusHappened ==
  ASSUME NEW h, IsLife(h), NEW b \in Nat, NEW status, status = StatusAt(h, b)
  PROVE  /\ status \in Statuses
         /\ status \notin {"pending", "active"} => By(HappenedAt(h, status), b)
         /\ status \notin {"canceled", "pending", "active", "defeated"} =>
              By(HappenedAt(h, "succeeded"), b)
<1>1. /\ h.start \in Nat /\ h.end \in Nat /\ h.queued \in Nat /\ h.expires \in Nat
      /\ h.executed \in Nat /\ h.cancels \in SUBSET Nat /\ h.passed \in BOOLEAN
  BY DEF IsLife
<1>2. status \in Statuses
  BY DEF StatusAt, Statuses
<1>3. CASE CanceledBy(h, b)
  <2>1. status = "canceled"
    BY <1>3 DEF StatusAt
  <2>2. PICK k \in h.cancels : k <= b
    BY <1>3 DEF CanceledBy
  <2>3. /\ HappenedAt(h, "canceled") \in Nat /\ HappenedAt(h, "canceled") # 0
        /\ HappenedAt(h, "canceled") <= k
    BY <1>1, <2>2, Moments
  <2>4. By(HappenedAt(h, "canceled"), b)
    BY <1>1, <2>2, <2>3 DEF By
  <2> QED BY <1>2, <2>1, <2>4
<1>4. CASE ~CanceledBy(h, b) /\ (b <= h.start \/ b <= h.end)
  <2>1. status \in {"pending", "active"}
    BY <1>4 DEF StatusAt
  <2> QED BY <1>2, <2>1
<1>5. CASE ~CanceledBy(h, b) /\ ~(b <= h.start \/ b <= h.end)
  <2>1. h.end < b /\ h.end \in Nat
    BY <1>1, <1>5
  <2>2. h.cancels = {} \/ h.end < HappenedAt(h, "canceled")
    <3> SUFFICES ASSUME h.cancels # {} PROVE h.end < HappenedAt(h, "canceled")
      OBVIOUS
    <3>1. HappenedAt(h, "canceled") \in h.cancels
      BY Moments
    <3>2. ~(HappenedAt(h, "canceled") <= b)
      BY <1>5, <3>1 DEF CanceledBy
    <3> QED BY <1>1, <2>1, <3>1, <3>2
  <2>3. \A t \in Results : (h.passed <=> (t = "succeeded")) => By(HappenedAt(h, t), b)
    <3> SUFFICES ASSUME NEW t \in Results, h.passed <=> (t = "succeeded")
                 PROVE  By(HappenedAt(h, t), b)
      OBVIOUS
    <3>1. HappenedAt(h, t) = h.end + 1
      BY <2>2, Moments
    <3> QED BY <2>1, <3>1 DEF By
  <2>4. CASE ~h.passed
    <3>1. status = "defeated"
      BY <1>5, <2>4 DEF StatusAt
    <3>2. By(HappenedAt(h, "defeated"), b)
      BY <2>3, <2>4 DEF Results
    <3> QED BY <1>2, <3>1, <3>2
  <2>5. CASE h.passed
    <3>1. By(HappenedAt(h, "succeeded"), b)
      BY <2>3, <2>5 DEF Results
    <3>2. \/ status = "succeeded"
          \/ status = "executed" /\ By(h.executed, b)
          \/ status = "expired" /\ By(h.expires, b)
          \/ status = "queued" /\ By(h.queued, b)
      BY <1>5, <2>5 DEF StatusAt
    <3>3. status # "succeeded" => By(HappenedAt(h, status), b)
      BY <3>2, Moments
    <3> QED BY <1>2, <3>1, <3>2, <3>3
  <2> QED BY <2>4, <2>5
<1> QED BY <1>3, <1>4, <1>5

\* What has happened stays so.
LEMMA HappeningLater ==
  ASSUME NEW h, IsLife(h), NEW d \in Decision, NEW b \in Nat, NEW c \in Nat, b <= c, Happening(h, d, b)
  PROVE  Happening(h, d, c)
<1>1. ASSUME NEW k, k \in Nat, By(k, b) PROVE By(k, c)
  BY <1>1 DEF By
<1>2. h.created \in Nat /\ \A t \in Transitions : HappenedAt(h, t) \in Nat
  BY MomentTypes DEF IsLife
<1>3. /\ d.vote \in Results => d.vote \in Transitions
      /\ d.status \notin {"pending", "active"} => d.status \in Transitions
  BY DEF Decision, Statuses, Results, Transitions
<1> QED BY <1>1, <1>2, <1>3 DEF Happening

\* What an observation says took place did, if the cancellation it names is the
\* first, and if what was stored when it was made had taken place.
LEMMA ObservationHappening ==
  ASSUME NEW h, IsLife(h), NEW logs, logs \subseteq AllLogs(h), NEW b \in Nat,
         NEW a \in Nat, a <= b, h.created <= a,
         NEW e \in Decision \cup {NoDecision}, e # NoDecision => Happening(h, e, b),
         NEW o, o = GetDecision(h, logs, e, a),
         o.canceled \in {0, HappenedAt(h, "canceled")}
  PROVE  Happening(h, o, b)
<1>1. /\ h.created \in Nat /\ h.start \in Nat /\ h.end \in Nat /\ h.queued \in Nat
      /\ h.executed \in Nat /\ h.cancels \in SUBSET Nat /\ h.created # 0 /\ h.passed \in BOOLEAN
      /\ h.queued # 0 => h.passed /\ h.end < h.queued
      /\ \A k \in h.cancels : h.queued <= k
  BY DEF IsLife
<1>2. By(h.created, b)
  BY <1>1 DEF By
<1>3. /\ o.status = StatusAt(h, a)
      /\ o.created = FirstOf("created", logs) /\ o.queued = FirstOf("queued", logs)
      /\ o.executed = FirstOf("executed", logs)
      /\ o.vote = IF o.status = "canceled"
                  THEN ResolveCanceledVoteOutcome(h, e, By(h.queued, a), o.canceled)
                  ELSE VoteOutcomeOf(o.status)
  BY DEF GetDecision
<1>4. \A l \in logs : l.block \in Nat
  BY LogCases
<1>5. /\ o.created \in {0, h.created} /\ o.queued \in {0, h.queued}
      /\ o.executed \in {0, h.executed}
  <2>1. \A l \in logs : /\ l.type = "created" => l.block = h.created
                        /\ l.type = "queued" => l.block = h.queued
                        /\ l.type = "executed" => l.block = h.executed
    BY LogCases
  <2> QED BY <1>3, <1>4, <2>1, FirstOfLogs
<1>6. /\ o.status \in Statuses
      /\ o.status \notin {"pending", "active"} => By(HappenedAt(h, o.status), b)
      /\ o.status \notin {"canceled", "pending", "active", "defeated"} =>
           By(HappenedAt(h, "succeeded"), b)
  <2>1. /\ o.status \in Statuses
        /\ o.status \notin {"pending", "active"} => By(HappenedAt(h, o.status), a)
        /\ o.status \notin {"canceled", "pending", "active", "defeated"} =>
             By(HappenedAt(h, "succeeded"), a)
    BY <1>3, StatusHappened
  <2>2. \A k \in Nat : By(k, a) => By(k, b)
    BY DEF By
  <2>3. \A t \in Transitions : HappenedAt(h, t) \in Nat
    BY MomentTypes
  <2> QED BY <2>1, <2>2, <2>3 DEF Transitions, Results, Statuses
<1>7. ASSUME o.vote \in Results PROVE By(HappenedAt(h, o.vote), b)
  <2>1. CASE o.status # "canceled"
    <3>1. o.vote = VoteOutcomeOf(o.status)
      BY <1>3, <2>1
    <3>2. \/ o.status = "defeated" /\ o.vote = "defeated"
          \/ /\ o.status \notin {"canceled", "pending", "active", "defeated"}
             /\ o.vote = "succeeded"
      BY <1>6, <1>7, <2>1, <3>1 DEF VoteOutcomeOf, Statuses, Results
    <3> QED BY <1>6, <3>2
  <2>2. CASE o.status = "canceled"
    <3> DEFINE first == HappenedAt(h, "canceled")
    <3>1. By(first, b)
      BY <1>6, <2>2
    <3>2. first \in h.cancels /\ first \in Nat /\ first # 0 /\ first <= b
      BY <1>1, <3>1, Moments DEF By
    <3> HIDE DEF first
    <3>3. ASSUME NEW t \in Results, h.passed <=> (t = "succeeded"), h.end < first
          PROVE  By(HappenedAt(h, t), b)
      <4>1. HappenedAt(h, t) = h.end + 1
        BY <3>3, Moments DEF first
      <4> QED BY <1>1, <3>2, <3>3, <4>1 DEF By
    <3>4. o.vote = IF By(h.queued, a) THEN "succeeded"
                   ELSE IF e.vote \in Results THEN e.vote
                   ELSE IF o.canceled = 0 \/ o.canceled <= h.end THEN "canceled"
                   ELSE IF h.passed THEN "succeeded" ELSE "defeated"
      BY <1>3, <2>2 DEF ResolveCanceledVoteOutcome
    <3>5. CASE By(h.queued, a)
      <4>1. h.queued # 0 /\ h.passed /\ h.end < first
        BY <1>1, <3>2, <3>5 DEF By
      <4>2. o.vote = "succeeded"
        BY <3>4, <3>5, Zenon
      <4> QED BY <1>7, <3>3, <4>1, <4>2
    <3>6. CASE ~By(h.queued, a) /\ e.vote \in Results
      <4>1. e # NoDecision
        BY <3>6 DEF NoDecision, Results
      <4>2. o.vote = e.vote
        BY <3>4, <3>6, Zenon
      <4> QED BY <3>6, <4>1, <4>2 DEF Happening
    <3>7. CASE ~By(h.queued, a) /\ e.vote \notin Results
      <4>1. ~(o.canceled = 0 \/ o.canceled <= h.end)
        BY <1>7, <3>4, <3>7 DEF Results
      <4>2. o.canceled = first
        BY <4>1 DEF first
      <4>3. h.end < first
        BY <1>1, <3>2, <4>1, <4>2
      <4>4. o.vote = IF h.passed THEN "succeeded" ELSE "defeated"
        BY <3>4, <3>7, <4>1, Zenon
      <4>5. h.passed <=> (o.vote = "succeeded")
        BY <4>4, Zenon
      <4> QED BY <1>7, <3>3, <4>3, <4>5
    <3> QED BY <3>5, <3>6, <3>7
  <2> QED BY <2>1, <2>2
<1> QED BY <1>2, <1>5, <1>6, <1>7 DEF Happening

\* A merged decision says nothing that neither the stored one nor the observation says.
LEMMA MergedHappening ==
  ASSUME NEW h, IsLife(h), NEW b \in Nat,
         NEW e \in Decision \cup {NoDecision}, e # NoDecision => Happening(h, e, b),
         NEW o \in Decision, Happening(h, o, b), QueueFits(h, o), ~MergeRefused(e, o),
         NEW d, d = MergeGovernanceDecision(e, o)
  PROVE  Happening(h, d, b)
<1>1. /\ h.end \in Nat /\ h.queued \in Nat /\ h.cancels \in SUBSET Nat
      /\ h.queued # 0 => h.passed /\ h.end < h.queued
      /\ \A k \in h.cancels : h.queued <= k
  BY DEF IsLife
<1>2. /\ d \in Decision /\ d.status = o.status
  BY Merged
<1>3. /\ d.created = OrElse(o.created, e.created) /\ d.canceled = OrElse(o.canceled, e.canceled)
      /\ d.queued = OrElse(o.queued, e.queued) /\ d.executed = OrElse(o.executed, e.executed)
  BY MergedReferences
<1>4. /\ e.created \in {0, h.created} /\ e.canceled \in {0, HappenedAt(h, "canceled")}
      /\ e.queued \in {0, h.queued} /\ e.executed \in {0, h.executed}
  BY DEF Happening, NoDecision
<1>5. /\ d.created \in {0, h.created} /\ d.canceled \in {0, HappenedAt(h, "canceled")}
      /\ d.queued \in {0, h.queued} /\ d.executed \in {0, h.executed}
  BY <1>3, <1>4 DEF Happening, OrElse
<1>6. d.vote \in {e.vote, o.vote} \/ (d.vote = "succeeded" /\ o.status = "canceled" /\ WasQueued(o))
  <2> DEFINE n == NormalizeCanceledVoteOutcome(e, o)
             c == Combined(e, n)
  <2>1. n = o \/ (o.status = "canceled" /\
                  n = [o EXCEPT !.vote = IF WasQueued(o) THEN "succeeded"
                                         ELSE IF e.vote \in Results THEN e.vote ELSE o.vote])
    BY DEF NormalizeCanceledVoteOutcome
  <2>2. n.vote \in {e.vote, o.vote} \/ (n.vote = "succeeded" /\ o.status = "canceled" /\ WasQueued(o))
    <3> HIDE DEF n
    <3>1. CASE n = o
      BY <3>1
    <3>2. CASE o.status = "canceled" /\
                  n = [o EXCEPT !.vote = IF WasQueued(o) THEN "succeeded"
                                         ELSE IF e.vote \in Results THEN e.vote ELSE o.vote]
      <4>1. n.vote = IF WasQueued(o) THEN "succeeded"
                     ELSE IF e.vote \in Results THEN e.vote ELSE o.vote
        BY <3>2 DEF Decision
      <4> QED BY <3>2, <4>1
    <3> QED BY <2>1, <3>1, <3>2
  <2>3. n \in Decision
    <3>1. e.vote \in {"pending", "canceled"} \cup Results
      BY StoredFields
    <3> QED BY <3>1 DEF NormalizeCanceledVoteOutcome, Decision, Results
  <2>4. c.vote = n.vote
    <3> HIDE DEF n
    <3> QED BY <2>3 DEF Combined, Decision
  <2>5. d \in {c, e}
    BY DEF MergeGovernanceDecision
  <2> HIDE DEF n, c
  <2> QED BY <2>2, <2>4, <2>5
<1>7. ASSUME d.vote \in Results PROVE By(HappenedAt(h, d.vote), b)
  <2>1. CASE d.vote = o.vote
    BY <1>7, <2>1 DEF Happening
  <2>2. CASE d.vote = e.vote
    <3>1. e # NoDecision
      BY <1>7, <2>2 DEF NoDecision, Results
    <3> QED BY <1>7, <2>2, <3>1 DEF Happening
  <2>3. CASE d.vote = "succeeded" /\ o.status = "canceled" /\ WasQueued(o)
    <3>1. h.queued # 0
      BY <2>3 DEF WasQueued, QueueFits
    <3>2. By(HappenedAt(h, "canceled"), b)
      BY <2>3 DEF Happening
    <3>3. HappenedAt(h, "canceled") \in h.cancels
      BY <3>2, Moments DEF By
    <3>4. h.end < HappenedAt(h, "canceled") /\ h.passed
      BY <1>1, <3>1, <3>3
    <3>5. HappenedAt(h, "succeeded") = h.end + 1
      BY <3>4, Moments DEF Results
    <3> QED BY <1>1, <2>3, <3>2, <3>3, <3>4, <3>5 DEF By
  <2> QED BY <1>6, <2>1, <2>2, <2>3
<1> QED BY <1>2, <1>5, <1>7 DEF Happening

\* The transitions that a decision stands for took place, and where it names their
\* transactions they are the ones that made them.
LEMMA ImpliedHappened ==
  ASSUME NEW h, IsLife(h), NEW b \in Nat, NEW d \in Decision, Happening(h, d, b),
         QueueFits(h, d), VoteFits(d), NEW t \in ImpliedTransitions(d)
  PROVE  /\ By(HappenedAt(h, t), b)
         /\ TransactionForTransition(d, t) \in {0, HappenedAt(h, t)}
<1>1. /\ h.end \in Nat /\ h.queued \in Nat /\ h.expires \in Nat /\ h.executed \in Nat
      /\ h.cancels \in SUBSET Nat
      /\ h.queued # 0 => h.passed /\ h.end < h.queued
      /\ h.expires # 0 => h.queued # 0 /\ h.queued < h.expires
      /\ h.executed # 0 => h.queued # 0 /\ h.queued < h.executed
      /\ \A k \in h.cancels : h.queued <= k
  BY DEF IsLife
<1>2. TransactionForTransition(d, t) \in {0, HappenedAt(h, t)}
  <2>1. /\ HappenedAt(h, "created") = h.created /\ HappenedAt(h, "queued") = h.queued
        /\ HappenedAt(h, "executed") = h.executed
    BY Moments
  <2>2. CASE t \in {"created", "canceled", "queued", "executed"}
    BY <2>1, <2>2 DEF TransactionForTransition, Happening
  <2>3. CASE t \notin {"created", "canceled", "queued", "executed"}
    BY <2>3 DEF TransactionForTransition
  <2> QED BY <2>2, <2>3
<1> SUFFICES By(HappenedAt(h, t), b)
  BY <1>2
<1>3. CASE t = "created"
  BY <1>3, Moments DEF Happening
<1>4. CASE t = d.status /\ t \notin {"pending", "active"}
  BY <1>4 DEF Happening
<1>5. CASE t = d.vote /\ t \in Results
  BY <1>5 DEF Happening
<1>6. CASE /\ t \in {"succeeded", "queued"}
           /\ \/ d.status \in {"queued", "expired", "executed"}
              \/ d.status = "canceled" /\ WasQueued(d)
  <2>2. CASE t = "succeeded"
    <3>1. CASE d.status \in {"queued", "expired", "executed"}
      <4>1. d.vote = "succeeded"
        BY <3>1 DEF VoteFits, VoteOutcomeOf
      <4> QED BY <2>2, <4>1 DEF Happening, Results
    <3>2. CASE d.status = "canceled" /\ WasQueued(d)
      <4>1. h.queued # 0 /\ By(HappenedAt(h, "canceled"), b)
        BY <3>2 DEF QueueFits, WasQueued, Happening
      <4>2. HappenedAt(h, "canceled") \in h.cancels
        BY <4>1, Moments DEF By
      <4>3. h.passed /\ h.end < HappenedAt(h, "canceled")
        BY <1>1, <4>1, <4>2
      <4>4. HappenedAt(h, "succeeded") = h.end + 1
        BY <4>3, Moments DEF Results
      <4> QED BY <1>1, <2>2, <4>1, <4>2, <4>3, <4>4 DEF By
    <3> QED BY <1>6, <3>1, <3>2
  <2>3. CASE t = "queued"
    <3>1. h.queued # 0 /\ By(HappenedAt(h, d.status), b)
      BY <1>6 DEF QueueFits, WasQueued, Happening
    <3>2. HappenedAt(h, "queued") = h.queued
      BY Moments
    <3>3. CASE d.status = "canceled"
      BY <1>1, <2>3, <3>1, <3>2, <3>3, Moments DEF By
    <3>4. CASE d.status \in {"queued", "expired", "executed"}
      BY <1>1, <2>3, <3>1, <3>2, <3>4, Moments DEF By
    <3> QED BY <1>6, <3>3, <3>4
  <2> QED BY <1>6, <2>2, <2>3
<1>7. \/ t = "created"
      \/ t = d.status /\ t \notin {"pending", "active"}
      \/ t = d.vote /\ t \in Results
      \/ /\ t \in {"succeeded", "queued"}
         /\ \/ d.status \in {"queued", "expired", "executed"}
            \/ d.status = "canceled" /\ WasQueued(d)
  BY DEF ImpliedTransitions
<1> QED BY <1>3, <1>4, <1>5, <1>6, <1>7

\* A range that goes on from what is known, or starts at the beginning, finds the
\* first cancellation if it ends behind it, and never another one.
LEMMA CancellationRead ==
  ASSUME NEW h, IsLife(h), NEW cursor \in Nat, NEW lo \in {1, cursor + 1}, NEW hi \in Nat,
         NEW e \in Decision \cup {NoDecision},
         e.canceled \in {0, HappenedAt(h, "canceled")},
         By(HappenedAt(h, "canceled"), cursor) => e.canceled = HappenedAt(h, "canceled"),
         NEW c, c = CanonicalCancellationReference(FirstOf("canceled", LogsIn(h, lo, hi)), e)
  PROVE  /\ c \in {0, HappenedAt(h, "canceled")}
         /\ By(HappenedAt(h, "canceled"), hi) => c = HappenedAt(h, "canceled")
<1> DEFINE first == HappenedAt(h, "canceled")
           logs == LogsIn(h, lo, hi)
           f == FirstOf("canceled", logs)
<1>1. /\ h.cancels \in SUBSET Nat /\ \A k \in h.cancels : k # 0
      /\ first = 0 <=> h.cancels = {}
      /\ first # 0 => first \in h.cancels
      /\ \A k \in h.cancels : first <= k
  BY Moments DEF IsLife
<1>2. \A l \in logs : /\ l.block \in Nat /\ l.block # 0 /\ lo <= l.block /\ l.block <= hi
                      /\ l.type = "canceled" => l.block \in h.cancels
  BY LogCases DEF LogsIn
<1>3. /\ f \in Nat
      /\ f # 0 => f \in h.cancels /\ lo <= f /\ f <= hi
  BY <1>2, FirstOfLogs
<1>4. first # 0 /\ lo <= first /\ first <= hi => f # 0 /\ f <= first
  <2> SUFFICES ASSUME first # 0, lo <= first, first <= hi PROVE f # 0 /\ f <= first
    OBVIOUS
  <2> DEFINE l == [type |-> "canceled", block |-> first]
  <2>1. l \in AllLogs(h)
    BY <1>1 DEF AllLogs
  <2> HIDE DEF first
  <2>2. l \in logs
    BY <2>1 DEF LogsIn
  <2>3. FirstOf(l.type, logs) # 0 /\ FirstOf(l.type, logs) <= l.block
    <3> HIDE DEF logs, l
    <3> QED BY <1>2, <2>2, FirstOfLeast
  <2> QED BY <2>3
<1>5. c = IF e.canceled # 0 /\ (f = 0 \/ e.canceled <= f) THEN e.canceled ELSE f
  BY DEF CanonicalCancellationReference
<1> HIDE DEF f, logs, first
<1>6. e.canceled \in {0, first} /\ (By(first, cursor) => e.canceled = first)
  BY DEF first
<1>7. first \in Nat
  BY <1>1
<1>8. CASE first = 0
  BY <1>1, <1>3, <1>5, <1>6, <1>8 DEF first, By
<1>9. CASE first # 0 /\ hi < first
  BY <1>1, <1>3, <1>5, <1>6, <1>7, <1>9 DEF first, By
<1>10. CASE first # 0 /\ lo <= first /\ first <= hi
  BY <1>1, <1>3, <1>4, <1>5, <1>6, <1>7, <1>10 DEF first, By
<1>11. CASE first # 0 /\ first < lo
  <2>1. By(first, cursor)
    BY <1>7, <1>11 DEF By
  <2> QED BY <1>1, <1>3, <1>5, <1>6, <1>7, <1>11, <2>1 DEF first, By
<1> QED BY <1>7, <1>8, <1>9, <1>10, <1>11

-------------------------------------------------------------------------------
\* The state of the proposal at block b is the one that a decision or observation has.
StateOf(h, d, b) ==
  /\ StatusAt(h, b) = d.status
  /\ By(h.voted, b) = d.votes /\ By(h.queued, b) = d.eta

\* What is said of the vote is all that can be said when the cancellation is known.
VoteResolved(h, d) ==
  /\ d.vote \in Results => d.ended
  /\ d.status = "canceled" /\ d.eta => d.vote = "succeeded"
  /\ d.status = "canceled" /\ h.end < d.canceled => d.vote \in Results

\* A state that is found again was there in between.
LEMMA StateBetween ==
  ASSUME NEW h, IsLife(h), NEW d, NEW x \in Nat, NEW y \in Nat, NEW z \in Nat, x <= y, y <= z,
         StateOf(h, d, x), StateOf(h, d, z)
  PROVE  StateOf(h, d, y)
<1>1. /\ h.start \in Nat /\ h.end \in Nat /\ h.queued \in Nat /\ h.expires \in Nat
      /\ h.executed \in Nat /\ h.voted \in Nat /\ h.cancels \in SUBSET Nat
      /\ h.start < h.end
      /\ h.queued # 0 => h.end < h.queued
      /\ h.expires # 0 => h.queued # 0 /\ h.queued < h.expires
      /\ h.executed # 0 => h.queued # 0 /\ h.queued < h.executed /\ h.expires = 0
  BY DEF IsLife
<1>2. /\ By(h.voted, y) = d.votes /\ By(h.queued, y) = d.eta
  BY <1>1 DEF StateOf, By
<1>3. /\ CanceledBy(h, x) => CanceledBy(h, y)
      /\ CanceledBy(h, y) => CanceledBy(h, z)
  BY <1>1 DEF CanceledBy
<1>4. StatusAt(h, x) = StatusAt(h, z)
  BY DEF StateOf
<1>5. StatusAt(h, y) = StatusAt(h, x)
  <2>1. CASE CanceledBy(h, x)
    BY <1>3, <2>1 DEF StatusAt
  <2>2. CASE ~CanceledBy(h, x)
    <3>1. StatusAt(h, z) # "canceled"
      BY <1>4, <2>2 DEF StatusAt
    <3>2. ~CanceledBy(h, y) /\ ~CanceledBy(h, z)
      BY <1>3, <3>1 DEF StatusAt
    <3> QED BY <1>1, <1>4, <2>2, <3>2 DEF StatusAt, By
  <2> QED BY <2>1, <2>2
<1> QED BY <1>2, <1>5 DEF StateOf

\* What the first look at block b, with all logs, finds of each type.
LEMMA FirstSeen ==
  ASSUME NEW h, IsLife(h), NEW b \in Nat, NEW type \in {"created", "canceled", "queued", "executed"}
  PROVE  FirstOf(type, LogsIn(h, 1, b))
           = IF By(HappenedAt(h, type), b) THEN HappenedAt(h, type) ELSE 0
<1> DEFINE logs == LogsIn(h, 1, b)
           f == FirstOf(type, logs)
           moment == HappenedAt(h, type)
<1>1. /\ h.created \in Nat /\ h.cancels \in SUBSET Nat /\ h.queued \in Nat /\ h.executed \in Nat
      /\ moment \in Nat
      /\ h.created # 0
  BY MomentTypes DEF IsLife, Transitions
<1>2. \A l \in logs : /\ l.block \in Nat /\ l.block # 0 /\ l.block <= b /\ l \in AllLogs(h)
  BY LogCases DEF LogsIn
<1>3. f \in Nat /\ (f # 0 => \E l \in logs : l.type = type /\ l.block = f)
  BY <1>2, FirstOfLogs
<1>4. ASSUME By(moment, b) PROVE f # 0 /\ f <= moment
  <2> DEFINE l == [type |-> type, block |-> moment]
  <2>1. l \in AllLogs(h)
    <3>1. moment # 0
      BY <1>4 DEF By
    <3>2. CASE type = "canceled"
      <4>1. moment \in h.cancels
        BY <3>1, <3>2, Moments
      <4> HIDE DEF moment
      <4> QED BY <3>2, <4>1 DEF AllLogs
    <3>3. CASE type # "canceled"
      <4>1. \/ type = "created" /\ moment = h.created
            \/ type = "queued" /\ moment = h.queued
            \/ type = "executed" /\ moment = h.executed
        BY <3>3, Moments
      <4> HIDE DEF moment
      <4> QED BY <3>1, <4>1 DEF AllLogs
    <3> QED BY <3>2, <3>3
  <2>2. 1 <= l.block /\ l.block <= b
    <3> HIDE DEF moment
    <3> QED BY <1>1, <1>4 DEF By
  <2>3. l \in logs
    <3> HIDE DEF moment
    <3> QED BY <2>1, <2>2 DEF LogsIn
  <2>4. FirstOf(l.type, logs) # 0 /\ FirstOf(l.type, logs) <= l.block
    <3> HIDE DEF logs, l
    <3> QED BY <1>2, <2>3, FirstOfLeast
  <2> QED BY <2>4
<1>5. ASSUME f # 0 PROVE By(moment, b) /\ moment <= f
  <2>1. PICK l \in logs : l.type = type /\ l.block = f
    BY <1>3, <1>5
  <2>2. l \in AllLogs(h) /\ l.block <= b /\ l.block \in Nat /\ l.block # 0
    BY <1>2
  <2>3. CASE type = "canceled"
    <3>1. l.block \in h.cancels
      BY <2>1, <2>2, <2>3, LogCases
    <3>2. moment # 0 /\ moment <= l.block
      BY <1>1, <2>2, <2>3, <3>1, Moments
    <3> HIDE DEF moment
    <3> QED BY <1>1, <2>1, <2>2, <3>2 DEF By
  <2>4. CASE type # "canceled"
    <3>1. l.block = moment
      BY <2>1, <2>2, <2>4, LogCases, Moments
    <3> HIDE DEF moment
    <3> QED BY <1>1, <2>1, <2>2, <3>1 DEF By
  <2> QED BY <2>3, <2>4
<1> HIDE DEF f, moment
<1>6. f = IF By(moment, b) THEN moment ELSE 0
  BY <1>1, <1>3, <1>4, <1>5
<1> QED BY <1>6 DEF f, moment

\* The logs of the range are named by the observation, those before it by what is stored.
LEMMA NamesObserved ==
  ASSUME NEW h, IsLife(h), NEW lo \in Nat, NEW hi \in Nat, NEW b, NEW e,
         NEW o, o = GetDecision(h, LogsIn(h, lo, hi), e, b),
         By(HappenedAt(h, "canceled"), hi) => o.canceled = HappenedAt(h, "canceled"),
         NEW l \in AllLogs(h), l.block <= hi, l.block < lo => Names(e, l)
  PROVE  Names(o, l) \/ Names(e, l)
<1>1. /\ l.block \in Nat /\ l.block # 0
      /\ l.type \in {"created", "canceled", "queued", "executed"}
  BY LogCases
<1>2. SUFFICES ASSUME lo <= l.block PROVE Names(o, l)
  BY <1>1
<1>3. CASE l.type = "canceled"
  <2>1. l.block \in h.cancels
    BY <1>3, LogCases
  <2>2. /\ HappenedAt(h, "canceled") \in Nat /\ HappenedAt(h, "canceled") # 0
        /\ HappenedAt(h, "canceled") <= l.block
    BY <1>1, <2>1, Moments, MomentTypes DEF Transitions
  <2>3. By(HappenedAt(h, "canceled"), hi)
    BY <1>1, <2>2 DEF By
  <2> QED BY <1>3, <2>2, <2>3 DEF Names, TransactionForTransition
<1>4. CASE l.type # "canceled"
  <2> DEFINE logs == LogsIn(h, lo, hi)
  <2>1. l \in logs
    BY <1>2 DEF LogsIn
  <2>2. \A m \in logs : m.block \in Nat /\ m.block # 0
    BY LogCases DEF LogsIn
  <2>3. TransactionForTransition(o, l.type) = FirstOf(l.type, logs)
    BY <1>1, <1>4 DEF TransactionForTransition, GetDecision
  <2> HIDE DEF logs
  <2>4. FirstOf(l.type, logs) # 0 /\ FirstOf(l.type, logs) <= l.block
    BY <2>1, <2>2, FirstOfLeast
  <2> QED BY <2>3, <2>4 DEF Names
<1> QED BY <1>3, <1>4

\* A merge forgets no log that either side names.
LEMMA NamesMerged ==
  ASSUME NEW h, IsLife(h), NEW b, NEW e \in Decision \cup {NoDecision},
         NEW o \in Decision, Happening(h, o, b),
         NEW d, d = MergeGovernanceDecision(e, o),
         NEW l \in AllLogs(h), Names(o, l) \/ Names(e, l)
  PROVE  Names(d, l)
<1>1. l.block \in Nat /\ l.type \in {"created", "canceled", "queued", "executed"}
  BY LogCases
<1>2. TransactionForTransition(d, l.type)
        = OrElse(TransactionForTransition(o, l.type), TransactionForTransition(e, l.type))
  BY <1>1, MergedReferences DEF TransactionForTransition
<1>3. TransactionForTransition(o, l.type) # 0 => TransactionForTransition(o, l.type) <= l.block
  <2>1. CASE l.type = "canceled"
    BY <1>1, <2>1, LogCases, Moments DEF Happening, TransactionForTransition
  <2>2. CASE l.type # "canceled"
    BY <1>1, <2>2, LogCases DEF Happening, TransactionForTransition
  <2> QED BY <2>1, <2>2
<1> QED BY <1>2, <1>3 DEF Names, OrElse

\* What a merge makes of the rest of an observation.
LEMMA MergedState ==
  ASSUME NEW e \in Decision \cup {NoDecision}, NEW o \in Decision, ~MergeRefused(e, o),
         NEW d, d = MergeGovernanceDecision(e, o)
  PROVE  /\ d \in Decision
         /\ d.status = o.status /\ d.votes = o.votes /\ d.eta = o.eta /\ d.endBlock = o.endBlock
         /\ d.ended = (o.ended \/ e.ended)
         /\ d.vote = IF o.status # "canceled" THEN o.vote
                     ELSE IF WasQueued(o) THEN "succeeded"
                     ELSE IF e.vote \in Results THEN e.vote ELSE o.vote
         /\ d.observed = o.observed \/ (e # NoDecision /\ d = e)
         /\ e # NoDecision => e.observed <= o.observed
         /\ d.ended => d.vote \in Results
         /\ d.canceled # 0 => d.status = "canceled"
         /\ \A k \in {d.created, d.canceled, d.queued, d.executed} : k <= o.observed
<1> DEFINE n == NormalizeCanceledVoteOutcome(e, o)
           c == Combined(e, n)
<1>1. d \in Decision
  BY Merged
<1>2. /\ e.vote \in {"pending", "canceled"} \cup Results /\ e.ended \in BOOLEAN
      /\ e.created \in Nat /\ e.canceled \in Nat /\ e.queued \in Nat /\ e.executed \in Nat
  BY StoredFields
<1>3. /\ n \in Decision /\ n.status = o.status /\ n.votes = o.votes /\ n.eta = o.eta
      /\ n.endBlock = o.endBlock /\ n.ended = o.ended /\ n.observed = o.observed
      /\ n.vote = IF o.status # "canceled" THEN o.vote
                  ELSE IF WasQueued(o) THEN "succeeded"
                  ELSE IF e.vote \in Results THEN e.vote ELSE o.vote
  <2>1. CASE o.status # "canceled"
    BY <2>1 DEF NormalizeCanceledVoteOutcome
  <2>2. CASE o.status = "canceled"
    <3>1. n = [o EXCEPT !.vote = IF WasQueued(o) THEN "succeeded"
                                 ELSE IF e.vote \in Results THEN e.vote ELSE o.vote]
      BY <2>2 DEF NormalizeCanceledVoteOutcome
    <3> HIDE DEF n
    <3> QED BY <1>2, <2>2, <3>1 DEF Decision, Results
  <2> QED BY <2>1, <2>2
<1>4. DecisionObservationValid(c) /\ (e # NoDecision => ImmutableAndMonotonic(e, n))
  BY DEF MergeRefused
<1>5. d = IF c = [e EXCEPT !.observed = c.observed] THEN e ELSE c
  BY DEF MergeGovernanceDecision
<1> HIDE DEF n
<1>6. /\ c.status = o.status /\ c.votes = o.votes /\ c.eta = o.eta /\ c.endBlock = o.endBlock
      /\ c.ended = (o.ended \/ e.ended) /\ c.vote = n.vote /\ c.observed = o.observed
  BY <1>3 DEF Combined, Decision
<1>7. /\ c.ended => c.vote \in Results
      /\ c.canceled # 0 => c.status = "canceled"
      /\ \A k \in {c.created, c.canceled, c.queued, c.executed} : k <= c.observed
  BY <1>4 DEF DecisionObservationValid
<1>8. e # NoDecision => e.observed <= o.observed
  BY <1>3, <1>4 DEF ImmutableAndMonotonic
<1> HIDE DEF c
<1>9. CASE d = c
  BY <1>1, <1>3, <1>6, <1>7, <1>8, <1>9
<1>10. CASE d = e /\ c = [e EXCEPT !.observed = c.observed]
  <2>1. e # NoDecision /\ e \in Decision
    BY <1>1, <1>10 DEF NoDecision, Decision, Statuses
  <2>2. /\ e.status = c.status /\ e.votes = c.votes /\ e.eta = c.eta /\ e.endBlock = c.endBlock
        /\ e.ended = c.ended /\ e.vote = c.vote
        /\ e.created = c.created /\ e.canceled = c.canceled /\ e.queued = c.queued
        /\ e.executed = c.executed
    BY <1>10, <2>1 DEF Decision
  <2> QED BY <1>1, <1>3, <1>6, <1>7, <1>8, <1>10, <2>1, <2>2
<1> QED BY <1>5, <1>9, <1>10

\* A vote that is resolved on either side is resolved in the merged decision.
LEMMA MergedResolved ==
  ASSUME NEW h, IsLife(h), NEW e \in Decision \cup {NoDecision}, NEW o \in Decision, ~MergeRefused(e, o),
         QueueFits(h, o), VoteResolved(h, o),
         e # NoDecision => VoteResolved(h, e) /\ (e.canceled # 0 => e.status = "canceled"),
         NEW d, d = MergeGovernanceDecision(e, o)
  PROVE  VoteResolved(h, d)
<1>1. /\ d.status = o.status /\ d.eta = o.eta /\ d.ended = (o.ended \/ e.ended)
      /\ d.vote = IF o.status # "canceled" THEN o.vote
                  ELSE IF WasQueued(o) THEN "succeeded"
                  ELSE IF e.vote \in Results THEN e.vote ELSE o.vote
      /\ d.canceled = OrElse(o.canceled, e.canceled)
  BY MergedState, MergedReferences
<1>2. /\ e = NoDecision => e.vote \notin Results /\ e.canceled = 0
      /\ h.end \in Nat /\ e.ended \in BOOLEAN /\ e.canceled \in Nat
  BY StoredFields DEF NoDecision, Results, IsLife
<1>3. WasQueued(o) => o.eta
  BY DEF WasQueued, QueueFits
<1>4. o.ended \in BOOLEAN
  BY DEF Decision
<1>5. d.vote \in Results => d.ended
  BY <1>1, <1>2, <1>3, <1>4 DEF VoteResolved, Results
<1>6. d.status = "canceled" /\ d.eta => d.vote = "succeeded"
  BY <1>1 DEF WasQueued
<1>7. ASSUME d.status = "canceled", h.end < d.canceled PROVE d.vote \in Results
  <2>1. CASE o.canceled # 0
    BY <1>1, <1>7, <2>1 DEF OrElse, VoteResolved, Results
  <2>2. CASE o.canceled = 0
    <3>1. e # NoDecision /\ e.canceled # 0 /\ h.end < e.canceled
      BY <1>1, <1>2, <1>7, <2>2 DEF OrElse
    <3> QED BY <1>1, <1>7, <3>1 DEF VoteResolved, Results
  <2> QED BY <2>1, <2>2
<1> QED BY <1>5, <1>6, <1>7 DEF VoteResolved

\* A vote is resolved in every observation.
LEMMA ObservationResolved ==
  ASSUME NEW h, IsLife(h), NEW logs, logs \subseteq AllLogs(h), NEW b \in Nat, NEW e \in Decision \cup {NoDecision},
         NEW o, o = GetDecision(h, logs, e, b)
  PROVE  StateOf(h, o, o.observed) /\ o.observed = b /\ o.endBlock = h.end /\ VoteResolved(h, o)
<1>1. /\ o.observed = b /\ o.endBlock = h.end /\ o.status = StatusAt(h, b)
      /\ o.votes = By(h.voted, b) /\ o.eta = By(h.queued, b)
      /\ o.ended = (e.ended \/ o.vote \in Results)
      /\ o.vote = IF o.status = "canceled"
                  THEN ResolveCanceledVoteOutcome(h, e, o.eta, o.canceled)
                  ELSE VoteOutcomeOf(o.status)
  BY DEF GetDecision
<1>2. o.status = "canceled" =>
        o.vote = IF o.eta THEN "succeeded"
                 ELSE IF e.vote \in Results THEN e.vote
                 ELSE IF o.canceled = 0 \/ o.canceled <= h.end THEN "canceled"
                 ELSE IF h.passed THEN "succeeded" ELSE "defeated"
  BY <1>1 DEF ResolveCanceledVoteOutcome
<1>3. o.canceled \in Nat /\ h.end \in Nat
  BY GetDecisionType DEF Decision, IsLife
<1>4. o.vote \in Results => o.ended
  BY <1>1
<1>5. o.status = "canceled" /\ o.eta => o.vote = "succeeded"
  BY <1>2
<1>6. o.status = "canceled" /\ h.end < o.canceled => o.vote \in Results
  BY <1>2, <1>3 DEF Results
<1> QED BY <1>1, <1>4, <1>5, <1>6 DEF StateOf, VoteResolved

-------------------------------------------------------------------------------
\* Later states of a proposal are those that the merge allows to follow.
LEMMA StatusFollows ==
  ASSUME NEW h, IsLife(h), NEW x \in Nat, NEW y \in Nat, x <= y
  PROVE  \/ StatusAt(h, y) = StatusAt(h, x)
         \/ StatusAt(h, y) \in AllowedStatusTransitions[StatusAt(h, x)]
<1>1. /\ h.start \in Nat /\ h.end \in Nat /\ h.queued \in Nat /\ h.expires \in Nat
      /\ h.executed \in Nat /\ h.cancels \in SUBSET Nat
      /\ h.start < h.end
      /\ h.queued # 0 => h.end < h.queued
      /\ h.expires # 0 => h.queued # 0 /\ h.queued < h.expires
      /\ h.executed # 0 => /\ h.queued # 0 /\ h.queued < h.executed
                           /\ h.expires = 0 /\ h.cancels = {}
  BY DEF IsLife
<1>2. CanceledBy(h, x) => CanceledBy(h, y)
  BY <1>1 DEF CanceledBy
<1>3. CASE CanceledBy(h, x)
  BY <1>2, <1>3 DEF StatusAt
<1>4. CASE ~CanceledBy(h, x) /\ CanceledBy(h, y)
  <2>1. StatusAt(h, y) = "canceled" /\ h.executed = 0
    BY <1>1, <1>4 DEF StatusAt, CanceledBy
  <2>2. StatusAt(h, x) \in Statuses \ {"canceled", "executed"}
    BY <1>4, <2>1 DEF StatusAt, Statuses, By
  <2> QED BY <2>1, <2>2 DEF AllowedStatusTransitions, Statuses
<1>5. CASE ~CanceledBy(h, x) /\ ~CanceledBy(h, y)
  <2>1. CASE x <= h.start
    BY <1>5, <2>1 DEF StatusAt, AllowedStatusTransitions, Statuses
  <2>2. CASE ~(x <= h.start) /\ x <= h.end
    <3>1. ~(y <= h.start)
      BY <1>1, <2>2
    <3> QED BY <1>5, <2>2, <3>1 DEF StatusAt, AllowedStatusTransitions, Statuses
  <2>3. CASE ~(x <= h.start) /\ ~(x <= h.end)
    <3>1. ~(y <= h.start) /\ ~(y <= h.end)
      BY <1>1, <2>3
    <3>2. /\ By(h.queued, x) => By(h.queued, y)
          /\ By(h.executed, x) => By(h.executed, y)
          /\ By(h.expires, x) => By(h.expires, y)
      BY <1>1 DEF By
    <3>3. By(h.executed, y) => ~By(h.expires, x)
      BY <1>1 DEF By
    <3> QED BY <1>5, <2>3, <3>1, <3>2, <3>3 DEF StatusAt, AllowedStatusTransitions, Statuses
  <2> QED BY <2>1, <2>2, <2>3
<1> QED BY <1>3, <1>4, <1>5

\* What the contract shows is consistent, whatever part of the logs is read with it.
LEMMA NothingThrown ==
  ASSUME NEW h, IsLife(h), NEW b \in Nat, NEW logs, logs \subseteq AllLogs(h),
         \A l \in logs : l.block <= b
  PROVE  ~GetDecisionThrows(h, logs, b)
<1> DEFINE s == StatusAt(h, b)
<1>1. /\ h.start \in Nat /\ h.end \in Nat /\ h.queued \in Nat /\ h.expires \in Nat
      /\ h.executed \in Nat /\ h.cancels \in SUBSET Nat
      /\ h.start < h.end
      /\ h.queued # 0 => h.passed /\ h.end < h.queued
      /\ h.expires # 0 => h.queued # 0 /\ h.queued < h.expires
      /\ h.executed # 0 => /\ h.queued # 0 /\ h.queued < h.executed
                           /\ h.expires = 0 /\ h.cancels = {}
      /\ \A k \in h.cancels : h.queued <= k
  BY DEF IsLife
<1>2. ProposalStateConsistency(h, s, By(h.queued, b), b)
  BY <1>1 DEF ProposalStateConsistency, StatusAt, By
<1>3. \A l \in logs : l.type = "canceled" => s = "canceled"
  <2> SUFFICES ASSUME NEW l \in logs, l.type = "canceled" PROVE s = "canceled"
    OBVIOUS
  <2>1. l.block \in h.cancels /\ l.block <= b
    BY LogCases
  <2> QED BY <2>1 DEF StatusAt, CanceledBy
<1>4. \A l \in logs : l.type = "queued" => s \in {"queued", "expired", "executed", "canceled"}
  <2> SUFFICES ASSUME NEW l \in logs, l.type = "queued"
               PROVE  s \in {"queued", "expired", "executed", "canceled"}
    OBVIOUS
  <2>1. l.block = h.queued /\ l.block <= b /\ l.block # 0
    BY LogCases
  <2> QED BY <1>1, <2>1 DEF StatusAt, By
<1>5. \A l \in logs : l.type = "executed" => s = "executed"
  <2> SUFFICES ASSUME NEW l \in logs, l.type = "executed" PROVE s = "executed"
    OBVIOUS
  <2>1. l.block = h.executed /\ l.block <= b /\ l.block # 0
    BY LogCases
  <2>2. ~CanceledBy(h, b)
    BY <1>1, <2>1 DEF CanceledBy
  <2> QED BY <1>1, <2>1, <2>2 DEF StatusAt, By
<1>6. \A l, m \in logs : l.type = m.type => l.type = "canceled" \/ l = m
  BY DEF AllLogs
<1> HIDE DEF s
<1>7. DecisionEventConsistency(s, logs, b)
  BY <1>3, <1>4, <1>5, <1>6 DEF DecisionEventConsistency
<1> QED BY <1>2, <1>7 DEF GetDecisionThrows, s

\* The references of decisions and observations are in the order of the life.
LEMMA ReferencesOrdered ==
  ASSUME NEW h, IsLife(h), NEW b, NEW d, Happening(h, d, b)
  PROVE  /\ d.created # 0 => \A k \in {d.canceled, d.queued, d.executed} : k # 0 => d.created <= k
         /\ d.queued # 0 => \A k \in {d.canceled, d.executed} : k # 0 => d.queued <= k
<1>1. /\ h.created \in Nat /\ h.start \in Nat /\ h.end \in Nat /\ h.queued \in Nat
      /\ h.executed \in Nat /\ h.cancels \in SUBSET Nat
      /\ h.created < h.start /\ h.start < h.end
      /\ h.queued # 0 => h.end < h.queued
      /\ h.executed # 0 => h.queued # 0 /\ h.queued < h.executed
      /\ \A k \in h.cancels : h.created <= k /\ h.queued <= k
  BY DEF IsLife
<1>2. HappenedAt(h, "canceled") # 0 => HappenedAt(h, "canceled") \in h.cancels
  BY Moments
<1>3. d.canceled # 0 => d.canceled \in h.cancels
  BY <1>2 DEF Happening
<1>4. /\ d.created \in {0, h.created} /\ d.queued \in {0, h.queued} /\ d.executed \in {0, h.executed}
  BY DEF Happening
<1> QED BY <1>1, <1>3, <1>4

\* An observation that follows what is stored is valid.
LEMMA ObservationValid ==
  ASSUME NEW h, IsLife(h), NEW logs, logs \subseteq AllLogs(h), NEW b \in Nat,
         NEW e \in Decision \cup {NoDecision}, ~GetDecisionThrows(h, logs, b),
         NEW o, o = GetDecision(h, logs, e, b), Happening(h, o, b),
         e.ended => e.vote \in Results, e # NoDecision => Happening(h, e, b), e.canceled <= b
  PROVE  DecisionObservationValid(o)
<1>1. /\ o \in Decision /\ o.observed = b /\ o.status = StatusAt(h, b) /\ o.eta = By(h.queued, b)
      /\ o.created = FirstOf("created", logs) /\ o.queued = FirstOf("queued", logs)
      /\ o.executed = FirstOf("executed", logs)
      /\ o.canceled = CanonicalCancellationReference(FirstOf("canceled", logs), e)
      /\ o.ended = (e.ended \/ o.vote \in Results)
      /\ o.vote = IF o.status = "canceled"
                  THEN ResolveCanceledVoteOutcome(h, e, o.eta, o.canceled)
                  ELSE VoteOutcomeOf(o.status)
  BY GetDecisionType DEF GetDecision
<1>2. QueueFits(h, o)
  BY ObservationFits
<1>3. /\ h.start \in Nat /\ h.end \in Nat /\ h.cancels \in SUBSET Nat
  BY DEF IsLife
<1>4. \A l \in logs : l.block \in Nat /\ l.block # 0 /\ l.block <= b
  BY LogCases DEF GetDecisionThrows, DecisionEventConsistency
<1>5. \A type : FirstOf(type, logs) # 0 =>
        FirstOf(type, logs) <= b /\ \E l \in logs : l.type = type
  BY <1>4, FirstOfLogs
<1>6. e.canceled \in Nat /\ \A type : FirstOf(type, logs) \in Nat
  BY <1>4, StoredFields, FirstOfLogs
<1>7. \A k \in {o.created, o.canceled, o.queued, o.executed} : k <= o.observed
  BY <1>1, <1>5, <1>6 DEF CanonicalCancellationReference
<1>8. o.canceled # 0 => o.status = "canceled"
  <2> SUFFICES ASSUME o.canceled # 0 PROVE o.status = "canceled"
    OBVIOUS
  <2>1. o.canceled \in h.cancels
    BY Moments DEF Happening
  <2> QED BY <1>1, <1>7, <2>1 DEF StatusAt, CanceledBy
<1>9. o.queued # 0 => o.status \in {"queued", "expired", "executed", "canceled"}
  BY <1>1, <1>2 DEF QueueFits, Decision, Statuses
<1>10. o.executed # 0 => o.status = "executed"
  BY <1>1, <1>5 DEF GetDecisionThrows, DecisionEventConsistency
<1>11. o.ended => o.vote \in Results
  <2> SUFFICES ASSUME e.ended PROVE o.vote \in Results
    BY <1>1
  <2>1. e.vote \in Results
    OBVIOUS
  <2>2. CASE o.status = "canceled"
    BY <1>1, <2>1, <2>2 DEF ResolveCanceledVoteOutcome, Results
  <2>3. CASE o.status # "canceled"
    <3>1. By(HappenedAt(h, e.vote), b)
      BY <2>1 DEF Happening, NoDecision, Results
    <3>2. HappenedAt(h, e.vote) \in {0, h.end + 1}
      BY <2>1, Moments
    <3>3. h.end < b
      BY <1>3, <3>1, <3>2 DEF By
    <3>4. o.status \notin {"pending", "active"}
      BY <1>1, <1>2, <1>3, <3>3 DEF GetDecisionThrows, ProposalStateConsistency, IsLife
    <3> QED BY <1>1, <2>3, <3>4 DEF VoteOutcomeOf, Results, Decision, Statuses
  <2> QED BY <2>2, <2>3
<1>12. \/ o.status = "canceled" /\ o.vote # "pending" /\ (WasQueued(o) => o.vote = "succeeded")
       \/ o.vote = VoteOutcomeOf(o.status)
  <2> SUFFICES ASSUME o.status = "canceled"
               PROVE  o.vote # "pending" /\ (WasQueued(o) => o.vote = "succeeded")
    BY <1>1
  <2>1. o.vote = IF o.eta THEN "succeeded"
                 ELSE IF e.vote \in Results THEN e.vote
                 ELSE IF o.canceled = 0 \/ o.canceled <= h.end THEN "canceled"
                 ELSE IF h.passed THEN "succeeded" ELSE "defeated"
    BY <1>1 DEF ResolveCanceledVoteOutcome
  <2>2. WasQueued(o) => o.eta
    BY <1>2 DEF WasQueued, QueueFits
  <2> QED BY <2>1, <2>2 DEF Results
<1> QED BY <1>7, <1>8, <1>9, <1>10, <1>11, <1>12, ReferencesOrdered DEF DecisionObservationValid

\* The merge refuses no observation that is as new as what is stored.
LEMMA NothingRefused ==
  ASSUME NEW h, IsLife(h), NEW x \in Nat, NEW y \in Nat, x <= y,
         NEW o \in Decision, DecisionObservationValid(o), QueueFits(h, o), Happening(h, o, y),
         StateOf(h, o, o.observed),
         NEW e \in Decision \cup {NoDecision},
         e # NoDecision => /\ StateOf(h, e, x) /\ QueueFits(h, e) /\ VoteFits(e) /\ Happening(h, e, y)
                           /\ e.observed <= x /\ x <= o.observed
                           /\ \A k \in {e.created, e.canceled, e.queued, e.executed} : k <= x
                           /\ e.ended => e.vote \in Results
                           /\ e.canceled # 0 => e.status = "canceled"
                           /\ e.executed # 0 => e.status = "executed"
  PROVE  ~MergeRefused(e, o)
<1> DEFINE n == NormalizeCanceledVoteOutcome(e, o)
           c == Combined(e, n)
<1>1. /\ e.vote \in {"pending", "canceled"} \cup Results /\ e.ended \in BOOLEAN
      /\ e.created \in Nat /\ e.canceled \in Nat /\ e.queued \in Nat /\ e.executed \in Nat
      /\ e.observed \in Nat /\ e.eta \in BOOLEAN /\ e.votes \in BOOLEAN
      /\ h.queued \in Nat /\ h.voted \in Nat
      /\ h.queued # 0 => h.passed
  BY StoredFields DEF IsLife
<1>2. /\ n \in Decision /\ n.status = o.status /\ n.votes = o.votes /\ n.eta = o.eta
      /\ n.ended = o.ended /\ n.observed = o.observed
      /\ n.created = o.created /\ n.canceled = o.canceled /\ n.queued = o.queued
      /\ n.executed = o.executed
      /\ n.vote = IF o.status # "canceled" THEN o.vote
                  ELSE IF WasQueued(o) THEN "succeeded"
                  ELSE IF e.vote \in Results THEN e.vote ELSE o.vote
  <2>1. CASE o.status # "canceled"
    BY <2>1 DEF NormalizeCanceledVoteOutcome
  <2>2. CASE o.status = "canceled"
    <3>1. n = [o EXCEPT !.vote = IF WasQueued(o) THEN "succeeded"
                                 ELSE IF e.vote \in Results THEN e.vote ELSE o.vote]
      BY <2>2 DEF NormalizeCanceledVoteOutcome
    <3> HIDE DEF n
    <3> QED BY <1>1, <2>2, <3>1 DEF Decision, Results
  <2> QED BY <2>1, <2>2
<1> HIDE DEF n
<1>3. /\ c.status = o.status /\ c.eta = o.eta /\ c.ended = (o.ended \/ e.ended)
      /\ c.vote = n.vote /\ c.observed = o.observed
      /\ c.created = OrElse(o.created, e.created) /\ c.canceled = OrElse(o.canceled, e.canceled)
      /\ c.queued = OrElse(o.queued, e.queued) /\ c.executed = OrElse(o.executed, e.executed)
  BY <1>2 DEF Combined, Decision
<1> HIDE DEF c
<1>4. o.observed \in Nat /\ o.eta \in BOOLEAN /\ o.status \in Statuses /\ o.ended \in BOOLEAN
  BY DEF Decision
<1>5. WasQueued(o) => o.eta /\ h.queued # 0
  BY DEF WasQueued, QueueFits
<1>6. ~(o.status = "canceled" /\ WasQueued(o) /\ e.vote = "defeated")
  <2> SUFFICES ASSUME WasQueued(o), e.vote = "defeated" PROVE FALSE
    OBVIOUS
  <2>1. By(HappenedAt(h, "defeated"), y)
    BY DEF Happening, NoDecision, Results
  <2>2. HappenedAt(h, "defeated") # 0
    BY <2>1 DEF By
  <2>3. h.passed \in BOOLEAN /\ "defeated" \in Results
    BY DEF IsLife, Results
  <2>4. HappenedAt(h, "defeated")
          = IF /\ h.passed <=> ("defeated" = "succeeded")
               /\ h.cancels = {} \/ h.end < HappenedAt(h, "canceled")
            THEN h.end + 1 ELSE 0
    BY <2>3, Moments
  <2>5. ~h.passed
    BY <2>2, <2>3, <2>4
  <2>6. h.queued # 0
    BY <1>5
  <2> QED BY <1>1, <2>5, <2>6
<1>7. e # NoDecision =>
        /\ o.status = e.status \/ o.status \in AllowedStatusTransitions[e.status]
        /\ e.eta => o.eta
        /\ e.votes => o.votes
        /\ e.observed <= o.observed
  <2> SUFFICES ASSUME e # NoDecision
               PROVE  /\ o.status = e.status \/ o.status \in AllowedStatusTransitions[e.status]
                      /\ e.eta => o.eta
                      /\ e.votes => o.votes
                      /\ e.observed <= o.observed
    OBVIOUS
  <2>1. StateOf(h, e, x) /\ StateOf(h, o, o.observed) /\ x <= o.observed /\ e.observed <= x
    OBVIOUS
  <2>2. o.status = e.status \/ o.status \in AllowedStatusTransitions[e.status]
    <3>1. e.status = StatusAt(h, x) /\ o.status = StatusAt(h, o.observed)
      BY <2>1 DEF StateOf
    <3>2. \/ StatusAt(h, o.observed) = StatusAt(h, x)
          \/ StatusAt(h, o.observed) \in AllowedStatusTransitions[StatusAt(h, x)]
      BY <1>4, <2>1, StatusFollows
    <3> QED BY <3>1, <3>2
  <2>3. (e.eta => o.eta) /\ (e.votes => o.votes)
    <3>1. /\ By(h.voted, x) = e.votes /\ By(h.voted, o.observed) = o.votes
          /\ By(h.queued, x) = e.eta /\ By(h.queued, o.observed) = o.eta
      BY <2>1 DEF StateOf
    <3>2. \A k \in Nat : By(k, x) => By(k, o.observed)
      BY <1>4, <2>1 DEF By
    <3>3. /\ By(h.voted, x) => By(h.voted, o.observed)
          /\ By(h.queued, x) => By(h.queued, o.observed)
      BY <1>1, <3>2, Zenon
    <3> QED BY <3>1, <3>3, Zenon
  <2> QED BY <1>1, <1>4, <2>1, <2>2, <2>3
<1>8. /\ \/ o.status = "canceled" /\ o.vote # "pending" /\ (WasQueued(o) => o.vote = "succeeded")
         \/ o.vote = VoteOutcomeOf(o.status)
      /\ o.ended => o.vote \in Results
      /\ o.canceled # 0 => o.status = "canceled"
      /\ o.queued # 0 => o.status \in {"queued", "expired", "executed", "canceled"}
      /\ o.executed # 0 => o.status = "executed"
      /\ \A k \in {o.created, o.canceled, o.queued, o.executed} : k <= o.observed
  BY DEF DecisionObservationValid
<1>9. /\ \/ n.status = "canceled" /\ n.vote # "pending" /\ (WasQueued(n) => n.vote = "succeeded")
         \/ n.vote = VoteOutcomeOf(n.status)
      /\ n.ended => n.vote \in Results
  <2>1. CASE o.status # "canceled"
    BY <1>2, <1>8, <2>1
  <2>2. CASE o.status = "canceled"
    <3>1. WasQueued(n) <=> WasQueued(o)
      BY <1>2 DEF WasQueued
    <3>2. VoteOutcomeOf(o.status) = "canceled"
      BY <2>2 DEF VoteOutcomeOf
    <3> QED BY <1>2, <1>8, <2>2, <3>1, <3>2 DEF Results
  <2> QED BY <2>1, <2>2
<1>10. DecisionObservationValid(n)
  BY <1>2, <1>8, <1>9, ReferencesOrdered DEF DecisionObservationValid
<1>11. DecisionObservationValid(c)
  <2>1. CASE e = NoDecision
    <3>1. /\ e.created = 0 /\ e.canceled = 0 /\ e.queued = 0 /\ e.executed = 0 /\ e.ended = FALSE
      BY <2>1 DEF NoDecision
    <3>2. /\ c.created = o.created /\ c.canceled = o.canceled /\ c.queued = o.queued
          /\ c.executed = o.executed /\ c.ended = o.ended
      BY <1>3, <1>4, <3>1 DEF OrElse
    <3>3. WasQueued(c) <=> WasQueued(n)
      BY <1>2, <1>3, <3>2 DEF WasQueued
    <3> QED BY <1>2, <1>3, <1>10, <3>2, <3>3 DEF DecisionObservationValid
  <2>2. CASE e # NoDecision
    <3>1. /\ QueueFits(h, e) /\ VoteFits(e) /\ Happening(h, e, y)
          /\ x <= o.observed
          /\ \A k \in {e.created, e.canceled, e.queued, e.executed} : k <= x
          /\ e.ended => e.vote \in Results
          /\ e.canceled # 0 => e.status = "canceled"
          /\ e.executed # 0 => e.status = "executed"
      BY <2>2
    <3>2. /\ c.created \in {o.created, e.created} /\ c.canceled \in {o.canceled, e.canceled}
          /\ c.queued \in {o.queued, e.queued} /\ c.executed \in {o.executed, e.executed}
      BY <1>3 DEF OrElse
    <3>3. \A k \in {e.created, e.canceled, e.queued, e.executed} : k <= o.observed
      BY <1>1, <1>4, <3>1
    <3>4. \A k \in {c.created, c.canceled, c.queued, c.executed} : k <= c.observed
      BY <1>3, <1>8, <3>2, <3>3
    <3>5. c.canceled # 0 => c.status = "canceled"
      <4>1. e.status = "canceled" => o.status = "canceled"
        BY <1>7, <2>2 DEF AllowedStatusTransitions
      <4> QED BY <1>3, <1>8, <3>1, <3>2, <4>1
    <3>6. c.executed # 0 => c.status = "executed"
      <4>1. e.status = "executed" => o.status = "executed"
        BY <1>7, <2>2 DEF AllowedStatusTransitions
      <4> QED BY <1>3, <1>8, <3>1, <3>2, <4>1
    <3>7. c.queued # 0 => o.eta
      BY <1>7, <2>2, <3>1, <3>2 DEF QueueFits
    <3>8. c.queued # 0 => c.status \in {"queued", "expired", "executed", "canceled"}
      BY <1>3, <1>4, <3>7 DEF QueueFits, Statuses
    <3>9. c.ended => c.vote \in Results
      <4>1. o.ended => n.vote \in Results
        BY <1>2, <1>9
      <4>2. ASSUME e.vote \in Results, o.status # "canceled" PROVE n.vote \in Results
        <5>1. e.status \notin {"pending", "active"}
          BY <3>1, <4>2 DEF VoteFits, VoteOutcomeOf, Results
        <5>2. e.status \in Statuses
          BY <2>2 DEF Decision
        <5>3. o.status \notin {"pending", "active"}
          BY <1>4, <1>7, <2>2, <5>1, <5>2 DEF AllowedStatusTransitions, Statuses
        <5>4. n.vote = VoteOutcomeOf(o.status)
          BY <1>2, <1>8, <4>2
        <5> QED BY <1>4, <4>2, <5>3, <5>4 DEF VoteOutcomeOf, Results, Statuses
      <4>3. e.vote \in Results /\ o.status = "canceled" => n.vote \in Results
        BY <1>2 DEF Results
      <4> QED BY <1>3, <3>1, <4>1, <4>2, <4>3
    <3>10. \/ c.status = "canceled" /\ c.vote # "pending" /\ (WasQueued(c) => c.vote = "succeeded")
           \/ c.vote = VoteOutcomeOf(c.status)
      <4>1. WasQueued(c) => WasQueued(n)
        BY <1>2, <1>3, <3>7 DEF WasQueued
      <4> QED BY <1>2, <1>3, <1>9, <4>1
    <3>11. Happening(h, c, y)
      <4>1. c.vote \in Results => By(HappenedAt(h, c.vote), y)
        <5>1. CASE c.vote \in {o.vote, e.vote}
          BY <3>1, <5>1 DEF Happening
        <5>2. CASE o.status = "canceled" /\ WasQueued(o) /\ c.vote = "succeeded"
          <6>1. o.vote \in {"succeeded", "canceled"}
            BY <1>8, <5>2 DEF VoteOutcomeOf
          <6>2. By(HappenedAt(h, "canceled"), y) /\ h.queued # 0
            BY <1>5, <5>2 DEF Happening
          <6>3. /\ HappenedAt(h, "canceled") \in h.cancels /\ h.cancels \in SUBSET Nat /\ h.end \in Nat
                /\ h.passed /\ h.end < HappenedAt(h, "canceled")
            BY <6>2, Moments DEF By, IsLife
          <6>4. HappenedAt(h, "succeeded") = h.end + 1
            BY <6>3, Moments DEF Results
          <6> QED BY <5>2, <6>2, <6>3, <6>4 DEF By
        <5> QED BY <1>2, <1>3, <5>1, <5>2
      <4> QED BY <1>3, <3>1, <3>2, <4>1 DEF Happening
    <3> QED BY <3>4, <3>5, <3>6, <3>8, <3>9, <3>10, <3>11, ReferencesOrdered DEF DecisionObservationValid
  <2> QED BY <2>1, <2>2
<1>12. e # NoDecision => ImmutableAndMonotonic(e, n)
  BY <1>2, <1>7 DEF ImmutableAndMonotonic
<1> QED BY <1>6, <1>10, <1>11, <1>12 DEF MergeRefused, n, c

-------------------------------------------------------------------------------
(* What is true of a decision whatever logs were read with its observations: an       *)
(* answer may lack a log, and a cancellation that is named need not be the first.    *)

\* A decision as observations of a life make it, whatever logs were read with them.
Sound(h, d) ==
  /\ d.created \in {0, h.created} /\ d.canceled \in {0} \cup h.cancels
  /\ d.queued \in {0, h.queued} /\ d.executed \in {0, h.executed}
  /\ QueueFits(h, d) /\ VoteFits(d) /\ VoteResolved(h, d)
  /\ d.vote \in Results => (h.passed <=> d.vote = "succeeded")
  /\ d.canceled # 0 => d.status = "canceled"
  /\ h.created <= d.observed /\ StatusAt(h, d.observed) = d.status

\* Its events are those that it stands for; one that expired may be canceled later.
EventsFit(h, d, ev) ==
  /\ ImpliedTransitions(d) \subseteq DOMAIN ev
  /\ DOMAIN ev \subseteq ImpliedTransitions(d) \cup (IF d.status = "canceled" THEN {"expired"} ELSE {})
  /\ "expired" \in DOMAIN ev => h.expires # 0 /\ \A k \in h.cancels : h.expires < k

\* A terminal state is not left.
LEMMA TerminalStays ==
  ASSUME NEW h, IsLife(h), NEW x \in Nat, NEW y \in Nat, x <= y,
         StatusAt(h, x) \in {"canceled", "executed"}
  PROVE  StatusAt(h, y) = StatusAt(h, x)
BY StatusFollows DEF AllowedStatusTransitions

\* The log that ends a life tells its state ever after.
LEMMA LastLog ==
  ASSUME NEW h, IsLife(h), NEW x \in Nat, NEW k \in Nat, k # 0, k <= x
  PROVE  /\ k \in h.cancels => StatusAt(h, x) = "canceled"
         /\ k = h.executed => StatusAt(h, x) = "executed"
BY DEF IsLife, StatusAt, CanceledBy, By

\* Nothing happens to a proposal before it is created.
LEMMA AfterCreation ==
  ASSUME NEW h, IsLife(h), NEW t \in Transitions, HappenedAt(h, t) # 0
  PROVE  h.created <= HappenedAt(h, t) /\ HappenedAt(h, t) \in Nat
<1>1. /\ h.created \in Nat /\ h.start \in Nat /\ h.end \in Nat /\ h.queued \in Nat
      /\ h.expires \in Nat /\ h.executed \in Nat
      /\ h.created < h.start /\ h.start < h.end
      /\ h.queued # 0 => h.end < h.queued
      /\ h.expires # 0 => h.queued # 0 /\ h.queued < h.expires
      /\ h.executed # 0 => h.queued # 0 /\ h.queued < h.executed
      /\ \A k \in h.cancels : h.created <= k
  BY DEF IsLife
<1>2. HappenedAt(h, t) \in Nat
  BY MomentTypes
<1>3. CASE t \in {"created", "queued", "expired", "executed"}
  BY <1>1, <1>3, Moments
<1>4. CASE t = "canceled"
  <2>1. HappenedAt(h, "canceled") \in h.cancels
    BY <1>4, Moments
  <2> QED BY <1>1, <1>2, <1>4, <2>1
<1>5. CASE t \in Results
  <2>1. HappenedAt(h, t) = h.end + 1
    BY <1>5, Moments
  <2> QED BY <1>1, <1>2, <2>1
<1> QED BY <1>2, <1>3, <1>4, <1>5 DEF Transitions, Results

\* An observation of a life, and what is stored of it if it is accepted, is sound.
LEMMA SoundObserved ==
  ASSUME NEW h, IsLife(h), NEW logs, logs \subseteq AllLogs(h), NEW b \in Nat, h.created <= b,
         NEW e, e = NoDecision \/ (e \in Decision /\ Sound(h, e)),
         ~GetDecisionThrows(h, logs, b),
         NEW o, o = GetDecision(h, logs, e, b), DecisionObservationValid(o)
  PROVE  o \in Decision /\ Sound(h, o) /\ o.status = StatusAt(h, b)
<1>1. e \in Decision \cup {NoDecision}
  OBVIOUS
<1>2. /\ o \in Decision /\ o.observed = b /\ o.status = StatusAt(h, b) /\ o.eta = By(h.queued, b)
      /\ o.created = FirstOf("created", logs) /\ o.queued = FirstOf("queued", logs)
      /\ o.executed = FirstOf("executed", logs)
      /\ o.canceled = CanonicalCancellationReference(FirstOf("canceled", logs), e)
      /\ o.vote = IF o.status = "canceled"
                  THEN ResolveCanceledVoteOutcome(h, e, o.eta, o.canceled)
                  ELSE VoteOutcomeOf(o.status)
  BY <1>1, GetDecisionType DEF GetDecision
<1>3. QueueFits(h, o) /\ VoteResolved(h, o)
  BY <1>1, ObservationFits, ObservationResolved
<1>4. \A l \in logs : /\ l.block \in Nat
                      /\ l.type = "created" => l.block = h.created
                      /\ l.type = "canceled" => l.block \in h.cancels /\ o.status = "canceled"
                      /\ l.type = "queued" => l.block = h.queued
                      /\ l.type = "executed" => l.block = h.executed
  <2> SUFFICES ASSUME NEW l \in logs
               PROVE  /\ l.block \in Nat
                      /\ l.type = "created" => l.block = h.created
                      /\ l.type = "canceled" => l.block \in h.cancels /\ o.status = "canceled"
                      /\ l.type = "queued" => l.block = h.queued
                      /\ l.type = "executed" => l.block = h.executed
    OBVIOUS
  <2>1. l \in AllLogs(h)
    OBVIOUS
  <2>2. l.type = "canceled" => StatusAt(h, b) = "canceled"
    BY DEF GetDecisionThrows, DecisionEventConsistency
  <2> QED BY <1>2, <2>1, <2>2, LogCases
<1>5. /\ o.created \in {0, h.created} /\ o.queued \in {0, h.queued} /\ o.executed \in {0, h.executed}
      /\ FirstOf("canceled", logs) \in {0} \cup h.cancels
      /\ FirstOf("canceled", logs) # 0 => o.status = "canceled"
  BY <1>2, <1>4, FirstOfLogs
<1>6. /\ e.canceled \in {0} \cup h.cancels
      /\ e.canceled # 0 => e # NoDecision /\ e.status = "canceled"
      /\ e.vote \in Results => (h.passed <=> e.vote = "succeeded")
  BY DEF Sound, NoDecision, Results
<1>7. o.canceled \in {0} \cup h.cancels
  BY <1>2, <1>5, <1>6 DEF CanonicalCancellationReference
<1>8. h.queued # 0 => h.passed
  BY DEF IsLife
<1>9. o.vote \in Results => (h.passed <=> o.vote = "succeeded")
  <2>1. CASE o.status = "canceled"
    <3>1. o.vote = IF o.eta THEN "succeeded"
                   ELSE IF e.vote \in Results THEN e.vote
                   ELSE IF o.canceled = 0 \/ o.canceled <= h.end THEN "canceled"
                   ELSE IF h.passed THEN "succeeded" ELSE "defeated"
      BY <1>2, <2>1 DEF ResolveCanceledVoteOutcome
    <3>2. o.eta => h.passed
      BY <1>2, <1>8 DEF By
    <3> QED BY <1>6, <3>1, <3>2 DEF Results
  <2>2. CASE o.status # "canceled"
    <3>1. o.vote = VoteOutcomeOf(o.status)
      BY <1>2, <2>2
    <3>2. o.status = "defeated" => ~h.passed
      BY <1>2, <2>2 DEF StatusAt
    <3>3. o.status \in {"succeeded", "queued", "expired", "executed"} => h.passed
      BY <1>2, <2>2 DEF StatusAt
    <3>4. o.status \in Statuses
      BY <1>2 DEF Decision
    <3> QED BY <2>2, <3>1, <3>2, <3>3, <3>4 DEF VoteOutcomeOf, Results, Statuses
  <2> QED BY <2>1, <2>2
<1>10. VoteFits(o) /\ (o.canceled # 0 => o.status = "canceled")
  BY DEF DecisionObservationValid, VoteFits
<1> QED BY <1>2, <1>3, <1>5, <1>7, <1>9, <1>10 DEF Sound

\* An accepted observation makes a sound decision, which has the state of its block.
LEMMA SoundMerged ==
  ASSUME NEW h, IsLife(h), NEW b \in Nat, NEW e, e = NoDecision \/ (e \in Decision /\ Sound(h, e)),
         NEW o \in Decision, Sound(h, o), o.observed = b, ~MergeRefused(e, o),
         NEW d, d = MergeGovernanceDecision(e, o)
  PROVE  /\ d \in Decision /\ Sound(h, d) /\ d.status = o.status
         /\ d.observed <= b
<1>1. e \in Decision \cup {NoDecision}
  OBVIOUS
<1>2. /\ d \in Decision
      /\ d.status = o.status /\ d.votes = o.votes /\ d.eta = o.eta /\ d.endBlock = o.endBlock
      /\ d.vote = IF o.status # "canceled" THEN o.vote
                  ELSE IF WasQueued(o) THEN "succeeded"
                  ELSE IF e.vote \in Results THEN e.vote ELSE o.vote
      /\ d.observed = o.observed \/ (e # NoDecision /\ d = e)
      /\ e # NoDecision => e.observed <= o.observed
      /\ d.canceled # 0 => d.status = "canceled"
  BY <1>1, MergedState
<1>3. VoteFits(d) /\ d.queued = OrElse(o.queued, e.queued)
  BY <1>1, Merged
<1>4. /\ d.created = OrElse(o.created, e.created)
      /\ d.canceled = OrElse(o.canceled, e.canceled)
      /\ d.executed = OrElse(o.executed, e.executed)
  BY <1>1, MergedReferences
<1>5. /\ o.created \in {0, h.created} /\ o.canceled \in {0} \cup h.cancels
      /\ o.queued \in {0, h.queued} /\ o.executed \in {0, h.executed}
      /\ QueueFits(h, o) /\ VoteResolved(h, o)
      /\ o.vote \in Results => (h.passed <=> o.vote = "succeeded")
      /\ h.created <= o.observed /\ StatusAt(h, o.observed) = o.status
  BY DEF Sound
<1>6. /\ e.created \in {0, h.created} /\ e.canceled \in {0} \cup h.cancels
      /\ e.queued \in {0, h.queued} /\ e.executed \in {0, h.executed}
      /\ e.vote \in Results => (h.passed <=> e.vote = "succeeded")
      /\ e.queued # 0 => e # NoDecision /\ e.eta
  BY DEF Sound, NoDecision, Results, QueueFits
<1>7. e # NoDecision => VoteResolved(h, e) /\ (e.canceled # 0 => e.status = "canceled")
  BY DEF Sound
<1>8. VoteResolved(h, d)
  BY <1>1, <1>5, <1>7, MergedResolved
<1>9. QueueFits(h, d)
  <2>1. e # NoDecision /\ e.eta => d.eta
    BY <1>1, Merged
  <2> QED BY <1>2, <1>3, <1>5, <1>6, <2>1 DEF QueueFits, OrElse
<1>10. d.vote \in Results => (h.passed <=> d.vote = "succeeded")
  <2>1. h.queued # 0 => h.passed
    BY DEF IsLife
  <2>2. WasQueued(o) => h.queued # 0
    BY <1>5 DEF WasQueued, QueueFits
  <2> QED BY <1>2, <1>5, <1>6, <2>1, <2>2
<1>11. /\ d.observed <= b /\ h.created <= d.observed /\ StatusAt(h, d.observed) = d.status
  <2>1. CASE d.observed = o.observed
    BY <1>2, <1>5, <2>1
  <2>2. CASE e # NoDecision /\ d = e
    <3>1. h.created <= e.observed /\ StatusAt(h, e.observed) = e.status
      BY <2>2 DEF Sound
    <3> QED BY <1>2, <2>2, <3>1
  <2> QED BY <1>2, <2>1, <2>2
<1>12. /\ d.created \in {0, h.created} /\ d.canceled \in {0} \cup h.cancels
       /\ d.queued \in {0, h.queued} /\ d.executed \in {0, h.executed}
  BY <1>3, <1>4, <1>5, <1>6 DEF OrElse
<1> QED BY <1>2, <1>3, <1>8, <1>9, <1>10, <1>11, <1>12 DEF Sound

\* The transaction keeps events and decision together, and the status of an event.
LEMMA EventsFitMerged ==
  ASSUME NEW h, IsLife(h), NEW e, e = NoDecision \/ (e \in Decision /\ Sound(h, e)),
         NEW o \in Decision, Sound(h, o), ~MergeRefused(e, o),
         NEW d, d = MergeGovernanceDecision(e, o), d \in Decision, Sound(h, d),
         NEW ev, IF e = NoDecision THEN DOMAIN ev = {} ELSE EventsFit(h, e, ev),
         NEW note, NEW f, f = UpsertedEvents(e, ev, d, note)
  PROVE  EventsFit(h, d, f)
<1> DEFINE implied == ImpliedTransitions(d)
           new == NewEvents(e, ev, d)
           left(x) == IF x.status = "canceled" THEN {"expired"} ELSE {}
<1>1. DOMAIN f = DOMAIN ev \cup new
  BY DEF UpsertedEvents
<1>2. new \subseteq implied
  BY DEF NewEvents
<1>3. e \in Decision \cup {NoDecision}
  OBVIOUS
<1>4. /\ d.status = o.status /\ d.eta = o.eta
      /\ e # NoDecision => /\ d.status = e.status \/ d.status \in AllowedStatusTransitions[e.status]
                           /\ e.eta => d.eta
      /\ d.status = "canceled" /\ e.vote \in Results =>
           \/ d.vote = e.vote
           \/ d.vote = "succeeded" /\ WasQueued(o)
      /\ d.status = "canceled" /\ WasQueued(o) => e.vote # "defeated"
  <2> HIDE DEF implied, new, left
  <2>1. /\ d.status = o.status /\ d.eta = o.eta
        /\ d.status = "canceled" /\ e.vote \in Results =>
             \/ d.vote = e.vote
             \/ d.vote = "succeeded" /\ WasQueued(o)
    BY <1>3, Merged
  <2>2. d.status = "canceled" /\ WasQueued(o) => e.vote # "defeated"
    BY <1>3, Merged
  <2>3. e # NoDecision => /\ d.status = e.status \/ d.status \in AllowedStatusTransitions[e.status]
                          /\ e.eta => d.eta
    BY <1>3, Merged
  <2> QED BY <2>1, <2>2, <2>3
<1>5. QueueFits(h, d) /\ VoteFits(d) /\ QueueFits(h, o)
  BY DEF Sound
<1>6. implied \subseteq DOMAIN f /\ DOMAIN f \subseteq implied \cup left(d)
  <2>1. CASE e = NoDecision
    <3>1. implied \subseteq new /\ DOMAIN ev = {}
      BY <2>1 DEF NewEvents, DeriveGovernanceTransitions
    <3> QED BY <1>1, <1>2, <3>1
  <2>2. CASE e # NoDecision
    <3>1. /\ e \in Decision /\ QueueFits(h, e) /\ VoteFits(e)
          /\ ImpliedTransitions(e) \subseteq DOMAIN ev
          /\ DOMAIN ev \subseteq ImpliedTransitions(e) \cup left(e)
      BY <2>2 DEF Sound, EventsFit
    <3>2. WasQueued(o) <=> WasQueued(d)
      BY <1>4, <1>5 DEF WasQueued, QueueFits
    <3> HIDE DEF implied, left, new
    <3>3. /\ d.status = "canceled" /\ e.vote = "defeated" => ~WasQueued(d)
          /\ d.status = "canceled" /\ e.vote \in Results =>
               d.vote = e.vote \/ (d.vote = "succeeded" /\ WasQueued(d))
      BY <1>4, <3>2
    <3>4. /\ implied \subseteq ImpliedTransitions(e) \cup DeriveGovernanceTransitions(e, d)
          /\ ImpliedTransitions(e) \subseteq implied \cup left(d)
          /\ e.status = "canceled" => d.status = "canceled"
      BY <1>4, <1>5, <2>2, <3>1, <3>3, TransitionsDerived DEF implied, left
    <3>5. implied \subseteq DOMAIN ev \cup new
      BY <3>1, <3>4 DEF new, NewEvents, implied
    <3>6. left(e) \subseteq left(d)
      BY <3>4 DEF left
    <3> QED BY <1>1, <1>2, <3>1, <3>4, <3>5, <3>6
  <2> QED BY <2>1, <2>2
<1>7. "expired" \in DOMAIN f => h.expires # 0 /\ \A k \in h.cancels : h.expires < k
  <2> SUFFICES ASSUME "expired" \in DOMAIN f PROVE h.expires # 0 /\ \A k \in h.cancels : h.expires < k
    OBVIOUS
  <2>1. CASE "expired" \in DOMAIN ev
    <3>1. e # NoDecision
      BY <2>1
    <3> QED BY <2>1, <3>1 DEF EventsFit
  <2>2. CASE "expired" \in implied
    <3>1. d.status = "expired"
      BY <2>2 DEF ImpliedTransitions, Results
    <3>2. StatusAt(h, d.observed) = "expired" /\ d.observed \in Nat
      BY <3>1 DEF Sound, Decision
    <3>3. ~CanceledBy(h, d.observed) /\ By(h.expires, d.observed)
      BY <3>2 DEF StatusAt
    <3> QED BY <3>2, <3>3 DEF CanceledBy, By, IsLife
  <2> QED BY <1>1, <1>2, <2>1, <2>2
<1> QED BY <1>6, <1>7 DEF EventsFit

\* The events after an upsert keep the status they had, and the new ones have the one given.
LEMMA UpsertedStatus ==
  ASSUME NEW e, NEW ev, NEW d, NEW note, \A t \in DOMAIN ev : ev[t] \in LifecycleEvent,
         NEW f, f = UpsertedEvents(e, ev, d, note)
  PROVE  /\ \A t \in DOMAIN ev : f[t].status = ev[t].status
         /\ \A t \in NewEvents(e, ev, d) : f[t].status = note
<1>1. ASSUME NEW t \in DOMAIN ev
      PROVE  f[t].status = ev[t].status
  <2> DEFINE candidate == BuildLifecycleEvent(d, t, note)
  <2>1. f[t] = IF t \notin ImpliedTransitions(d) THEN ev[t]
               ELSE MergeLifecycleEventMetadata(ev[t], candidate)
    BY DEF UpsertedEvents
  <2> HIDE DEF candidate
  <2>2. MergeLifecycleEventMetadata(ev[t], candidate).status = ev[t].status
    BY DEF MergeLifecycleEventMetadata, LifecycleEvent
  <2> QED BY <2>1, <2>2
<1>2. ASSUME NEW t \in NewEvents(e, ev, d)
      PROVE  f[t].status = note
  <2>1. f[t] = BuildLifecycleEvent(d, t, note)
    BY DEF UpsertedEvents, NewEvents
  <2> QED BY <2>1 DEF BuildLifecycleEvent
<1> QED BY <1>1, <1>2

\* A decision stands for every transition up to a block at which the proposal has its
\* state, if it names the cancellation.
LEMMA AllImplied ==
  ASSUME NEW h, IsLife(h), NEW d \in Decision, Sound(h, d), NEW x \in Nat, StatusAt(h, x) = d.status,
         d.status = "canceled" => d.canceled # 0,
         NEW t \in Transitions, By(HappenedAt(h, t), x)
  PROVE  t \in ImpliedTransitions(d) \/ (t = "expired" /\ d.status = "canceled")
<1>1. /\ h.start \in Nat /\ h.end \in Nat /\ h.queued \in Nat /\ h.expires \in Nat /\ h.executed \in Nat
      /\ h.cancels \in SUBSET Nat /\ h.passed \in BOOLEAN
      /\ h.start < h.end
      /\ h.queued # 0 => h.passed /\ h.end < h.queued
      /\ h.expires # 0 => h.queued # 0 /\ h.queued < h.expires
      /\ h.executed # 0 => /\ h.queued # 0 /\ h.queued < h.executed
                           /\ h.expires = 0 /\ h.cancels = {}
  BY DEF IsLife
<1>2. /\ HappenedAt(h, "created") = h.created
      /\ HappenedAt(h, "queued") = h.queued
      /\ HappenedAt(h, "expired") = h.expires
      /\ HappenedAt(h, "executed") = h.executed
      /\ HappenedAt(h, "canceled") = 0 <=> h.cancels = {}
      /\ h.cancels # {} => HappenedAt(h, "canceled") \in h.cancels
      /\ \A k \in h.cancels : HappenedAt(h, "canceled") <= k
  BY Moments
<1>3. /\ QueueFits(h, d) /\ VoteResolved(h, d) /\ d.canceled \in {0} \cup h.cancels
      /\ d.vote \in Results => (h.passed <=> d.vote = "succeeded")
  BY DEF Sound
<1>4. d.status \in Statuses
  BY DEF Decision
<1>5. HappenedAt(h, t) # 0 /\ HappenedAt(h, t) <= x
  BY DEF By
<1>6. CASE t = "created"
  BY <1>6 DEF ImpliedTransitions
<1>7. CASE t = "canceled"
  <2>1. CanceledBy(h, x)
    BY <1>2, <1>5, <1>7 DEF CanceledBy
  <2>2. d.status = "canceled"
    BY <2>1 DEF StatusAt
  <2> QED BY <1>7, <2>2 DEF ImpliedTransitions
<1>8. CASE t = "queued"
  <2>1. CASE d.status = "canceled"
    BY <1>2, <1>3, <1>5, <1>8, <2>1 DEF ImpliedTransitions, WasQueued, QueueFits
  <2>2. CASE d.status # "canceled"
    <3>1. d.status \in {"queued", "expired", "executed"}
      BY <1>1, <1>2, <1>5, <1>8, <2>2 DEF StatusAt, By
    <3> QED BY <1>8, <3>1 DEF ImpliedTransitions
  <2> QED BY <2>1, <2>2
<1>9. CASE t \in {"expired", "executed"}
  <2>1. d.status \in {t, "canceled"} /\ (t = "executed" => d.status = t)
    BY <1>1, <1>2, <1>5, <1>9 DEF StatusAt, By, CanceledBy
  <2> QED BY <1>9, <2>1 DEF ImpliedTransitions
<1>10. CASE t \in Results
  <2>1. /\ HappenedAt(h, t) = h.end + 1
        /\ h.passed <=> (t = "succeeded")
        /\ h.cancels = {} \/ h.end < HappenedAt(h, "canceled")
    BY <1>5, <1>10, Moments
  <2>2. h.end < x
    BY <1>1, <1>5, <2>1
  <2>3. CASE d.status = "canceled"
    <3>1. h.end < d.canceled
      BY <1>1, <1>2, <1>3, <2>1, <2>3
    <3>2. d.vote \in Results
      BY <1>3, <2>3, <3>1 DEF VoteResolved
    <3>3. d.vote = t
      BY <1>3, <1>10, <2>1, <3>2 DEF Results
    <3>4. WasQueued(d) => t = "succeeded"
      BY <1>1, <1>3, <2>1 DEF WasQueued, QueueFits
    <3> QED BY <1>10, <2>3, <3>2, <3>3, <3>4 DEF ImpliedTransitions
  <2>4. CASE d.status # "canceled"
    <3>1. IF h.passed THEN d.status \in {"succeeded", "queued", "expired", "executed"}
          ELSE d.status = "defeated"
      BY <1>1, <2>2, <2>4 DEF StatusAt
    <3> QED BY <1>10, <2>1, <3>1 DEF ImpliedTransitions, Results
  <2> QED BY <2>3, <2>4
<1> QED BY <1>6, <1>7, <1>8, <1>9, <1>10 DEF Transitions, Results

\* No event of a decision is of a transition after a block at which the proposal has its
\* state, if it names a cancellation up to there.
LEMMA NoneLater ==
  ASSUME NEW h, IsLife(h), NEW d \in Decision, Sound(h, d), NEW ev, EventsFit(h, d, ev),
         NEW x \in Nat, StatusAt(h, x) = d.status, h.created <= x,
         d.status = "canceled" => d.canceled # 0 /\ d.canceled <= x,
         NEW t \in DOMAIN ev
  PROVE  HappenedAt(h, t) <= x
<1>1. /\ h.start \in Nat /\ h.end \in Nat /\ h.queued \in Nat /\ h.expires \in Nat /\ h.executed \in Nat
      /\ h.cancels \in SUBSET Nat /\ h.passed \in BOOLEAN
      /\ h.queued # 0 => h.passed /\ h.end < h.queued
      /\ \A k \in h.cancels : h.queued <= k
  BY DEF IsLife
<1>2. /\ HappenedAt(h, "created") = h.created
      /\ HappenedAt(h, "queued") = h.queued
      /\ HappenedAt(h, "expired") = h.expires
      /\ HappenedAt(h, "executed") = h.executed
      /\ h.cancels # {} => HappenedAt(h, "canceled") \in h.cancels
      /\ \A k \in h.cancels : HappenedAt(h, "canceled") <= k
  BY Moments
<1>3. /\ QueueFits(h, d) /\ VoteFits(d) /\ d.canceled \in {0} \cup h.cancels
  BY DEF Sound
<1>4. /\ d.status \in Statuses
      /\ d.status \notin {"pending", "active"} => By(HappenedAt(h, d.status), x)
      /\ d.status \notin {"canceled", "pending", "active", "defeated"} => By(HappenedAt(h, "succeeded"), x)
  BY StatusHappened
<1>5. t \in ImpliedTransitions(d) \/ (t = "expired" /\ d.status = "canceled")
  BY DEF EventsFit
<1>6. CASE t = "created"
  BY <1>2, <1>6
<1>7. CASE t = d.status
  BY <1>4, <1>5, <1>7 DEF By, ImpliedTransitions, Results
<1>8. CASE t = "expired" /\ d.status = "canceled"
  BY <1>1, <1>2, <1>3, <1>8 DEF EventsFit
<1>9. CASE t \in {"succeeded", "queued"} /\ d.status \in {"queued", "expired", "executed"}
  <2>1. By(h.queued, x)
    BY <1>9 DEF StatusAt
  <2> QED BY <1>2, <1>4, <1>9, <2>1 DEF By
<1>10. CASE t \in Results \cup {"queued"} /\ d.status = "canceled"
  <2>1. d.canceled \in h.cancels /\ d.canceled \in Nat /\ d.canceled <= x
    BY <1>1, <1>3, <1>10
  <2>2. h.queued <= x
    BY <1>1, <2>1
  <2>3. t \in Results => HappenedAt(h, t) \in {0, h.end + 1}
                         /\ (HappenedAt(h, t) # 0 => h.end < HappenedAt(h, "canceled"))
    BY <2>1, Moments
  <2>4. HappenedAt(h, "canceled") \in Nat /\ HappenedAt(h, "canceled") <= x
    BY <1>1, <1>2, <2>1
  <2> QED BY <1>1, <1>2, <1>10, <2>2, <2>3, <2>4
<1> QED BY <1>4, <1>5, <1>6, <1>7, <1>8, <1>9, <1>10 DEF ImpliedTransitions, Results

===============================================================================
