------------------------ MODULE MCGovernanceLifecycle ------------------------
(* Lives of a proposal created in block 1, voted on in block 3, perhaps      *)
(* canceled, perhaps queued in block 4 and executed or expired in block 5.   *)
EXTENDS GovernanceLifecycle

Lived(voted, passed, queued, expires, executed, cancels) ==
  [created |-> 1, start |-> 2, end |-> 3, voted |-> voted, passed |-> passed,
   queued |-> queued, expires |-> expires, executed |-> executed, cancels |-> cancels]

\* bound: one cancellation at most, but for two lives in which cancel is repeated
\* in the last block: up to there, each of them is one that was canceled once.
SomeLives ==
  {Lived(0, FALSE, 0, 0, 0, c) : c \in {{}, {1}, {2}}}
    \cup {Lived(3, FALSE, 0, 0, 0, c) : c \in {{}, {3}, {4}, {6}}}
    \cup {Lived(3, TRUE, 0, 0, 0, c) : c \in {{}, {4}, {6}, {3, 6}}}
    \cup {Lived(3, TRUE, 4, 0, 0, c) : c \in {{}, {5}, {4, 6}}}
    \cup {Lived(3, TRUE, 4, 5, 0, c) : c \in {{}, {6}}}
    \cup {Lived(3, TRUE, 4, 0, 5, {})}
===============================================================================
