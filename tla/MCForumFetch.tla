---------------------------- MODULE MCForumFetch ----------------------------
\* An instance of ForumFetch: two topics older than the service, of which one has
\* a title that the notification policy suppresses, and one that is published later.
EXTENDS ForumFetch
CONSTANTS old, routine, new
MCTopics == {old, routine, new}
MCHistory == {old, routine}
MCRoutine == {routine}
=============================================================================
