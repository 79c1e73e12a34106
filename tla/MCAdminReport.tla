---------------------------- MODULE MCAdminReport ----------------------------
\* An instance of AdminReport: two protocols, of which the second may be out of the
\* newest run, one proposal, one event, and an on-chain source before or after the
\* end of its baseline.
EXTENDS AdminReport
CONSTANTS aave, lido
Success(p) == [protocol |-> p, status |-> "success", finished |-> "lately"]
MCFirstRuns == {<<Success(aave)>>, <<Success(aave), Success(lido)>>}
MCSourceStates ==
  {[complete |-> TRUE, liveReplay |-> FALSE, healthy |-> TRUE, behind |-> FALSE],
   [complete |-> FALSE, liveReplay |-> FALSE, healthy |-> FALSE, behind |-> TRUE],
   [complete |-> TRUE, liveReplay |-> TRUE, healthy |-> TRUE, behind |-> TRUE]}
==============================================================================
