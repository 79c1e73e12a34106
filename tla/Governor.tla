------------------------------- MODULE Governor -------------------------------
(***************************************************************************)
(* The Governor Bravo contract as the scanner sees it: what a read pinned  *)
(* to a finalized block says of a proposal, and which logs a range of      *)
(* blocks holds.  The contract is not part of the repository; its rules    *)
(* are those that uniswapOnchain.codec.ts checks what it reads against.    *)
(*                                                                         *)
(* The life of a proposal is a record of blocks, 0 for "never".  Finalized *)
(* blocks do not change, so a behaviour fixes the lives in Init and only   *)
(* the finalized head moves.                                               *)
(***************************************************************************)
EXTENDS Naturals

Statuses == {"pending", "active", "canceled", "defeated", "succeeded",
             "queued", "expired", "executed"}

\* A log has a type, the block it is in, and so its transaction.
Logs == [type : {"created", "canceled", "queued", "executed"}, block : Nat]

\* Voting takes place in start+1 .. end; voted is the block of the last vote,
\* passed whether the votes carried the proposal.  cancel may be called again
\* after a cancellation, but not before a queue, nor before or after an execution.
IsLife(h) ==
  /\ h.created \in Nat /\ h.start \in Nat /\ h.end \in Nat /\ h.voted \in Nat
  /\ h.passed \in BOOLEAN
  /\ h.queued \in Nat /\ h.expires \in Nat /\ h.executed \in Nat
  /\ h.cancels \in SUBSET Nat
  /\ 0 < h.created /\ h.created < h.start /\ h.start < h.end
  /\ h.voted # 0 => h.start < h.voted /\ h.voted <= h.end
  /\ h.passed => h.voted # 0
  /\ h.queued # 0 => h.passed /\ h.end < h.queued
  /\ h.expires # 0 => h.queued # 0 /\ h.queued < h.expires
  /\ h.executed # 0 => /\ h.queued # 0 /\ h.queued < h.executed
                       /\ h.expires = 0 /\ h.cancels = {}
  /\ \A k \in h.cancels : h.created <= k /\ h.voted <= k /\ h.queued <= k

\* An event of the life had happened by block b.
By(block, b) == block # 0 /\ block <= b

CanceledBy(h, b) == \E k \in h.cancels : k <= b

\* state(proposalId) at block b, the tests in the order of the contract.
StatusAt(h, b) ==
  IF CanceledBy(h, b) THEN "canceled"
  ELSE IF b <= h.start THEN "pending"
  ELSE IF b <= h.end THEN "active"
  ELSE IF ~h.passed THEN "defeated"
  ELSE IF ~By(h.queued, b) THEN "succeeded"
  ELSE IF By(h.executed, b) THEN "executed"
  ELSE IF By(h.expires, b) THEN "expired"
  ELSE "queued"

\* eth_getLogs for one proposal; of all its logs, those of the blocks lo .. hi.
AllLogs(h) ==
  {[type |-> "created", block |-> h.created]}
    \cup {[type |-> "canceled", block |-> k] : k \in h.cancels}
    \cup {l \in {[type |-> "queued", block |-> h.queued],
                 [type |-> "executed", block |-> h.executed]} : l.block # 0}

LogsIn(h, lo, hi) == {l \in AllLogs(h) : lo <= l.block /\ l.block <= hi}
===============================================================================
