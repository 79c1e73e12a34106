---------------------------- MODULE MCForumSource ----------------------------
\* An instance of ForumSource: three topics in two categories, and one more to come.
EXTENDS ForumSource
CONSTANTS governance, grants
\* In the order of publication, but for an answer to the oldest since.
MCFirstForums == {<<3, 1, 2, 0>>}
MCCategoryOf == [t \in 1 .. 4 |-> IF t = 2 THEN grants ELSE governance]
==============================================================================
