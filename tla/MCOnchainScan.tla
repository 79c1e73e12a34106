--------------------------- MODULE MCOnchainScan ---------------------------
(* Two proposals: the first is there from the first block on, and passes; it *)
(* may be queued, executed and canceled, even twice, before and after the    *)
(* baseline.  The second is created meanwhile, and comes to nothing.         *)
EXTENDS OnchainScan

Life(created, passed, queued, expires, executed, cancels) ==
  [created |-> created, start |-> created + 1, end |-> created + 2,
   voted |-> IF passed THEN created + 2 ELSE 0, passed |-> passed,
   queued |-> queued, expires |-> expires, executed |-> executed, cancels |-> cancels]

Defeated(created, cancels) == Life(created, FALSE, 0, 0, 0, cancels)

\* bound: two proposals, four pairs of lives.
TwoProposals ==
  {<<Life(1, TRUE, 4, 0, 6, {}), Defeated(3, {})>>,
   <<Life(1, TRUE, 4, 0, 0, {5, 6}), Defeated(3, {6})>>,
   <<Life(1, TRUE, 5, 6, 0, {}), Defeated(2, {3})>>,
   <<Defeated(1, {}), Life(2, TRUE, 5, 0, 6, {})>>}

\* Those in which nothing is canceled.
Uncanceled == {w \in TwoProposals : \A p \in DOMAIN w : w[p].cancels = {}}
=============================================================================
