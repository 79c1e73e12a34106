------------------------------ MODULE ForumSource ------------------------------
(***************************************************************************)
(* One protocol's forum as its adapter reads it: requests with retries     *)
(* (fetchDiscourseJson), pages of a feed (collectDiscourseTopicPages), the *)
(* feeds of a poll (fetchRecent), and the watchdog that judges the forum   *)
(* by what a poll has listed (updateSourceActivity).                       *)
(*                                                                         *)
(* Discourse lists the topics of a feed by their last activity and counts  *)
(* its pages by position.  Between two requests somebody may post, answer  *)
(* (the topic moves to the front) or delete (the topics behind it move up),*)
(* so that the pages of one poll need not fit together.                    *)
(***************************************************************************)
EXTENDS Integers, FiniteSets

CONSTANTS
  LastTopic,         \* topics are numbered in the order of their publication
  FirstForums,       \* when the topics that are there at first had their last activity
  Categories,        \* the public categories
  Latest,            \* the global feed
  CategoryOf,        \* the category of each topic
  PageSize,          \* topics on a page
  MaxPages,          \* <PROTOCOL>_FORUM_MAX_PAGES
  CategoryMaxPages,  \* <PROTOCOL>_FORUM_CATEGORY_MAX_PAGES
  MaxAttempts,       \* DEFAULT_DISCOURSE_MAX_ATTEMPTS
  Timeout,           \* DEFAULT_DISCOURSE_FETCH_TIMEOUT_MS
  BaseDelay,         \* DEFAULT_DISCOURSE_RETRY_BASE_DELAY_MS
  MaxDelay,          \* DEFAULT_DISCOURSE_MAX_RETRY_DELAY_MS
  RetryAfters,       \* the values of Retry-After a forum may send
  MinFetched,        \* SOURCE_ACTIVITY_MIN_FETCHED_COUNT
  WarningDays,       \* SOURCE_ACTIVITY_WARNING_DAYS
  CriticalDays,      \* SOURCE_ACTIVITY_CRITICAL_DAYS
  MaxMoves,          \* bound: posts, answers and deletions
  MaxDay             \* bound: the last day

Topics == 1 .. LastTopic

ASSUME ConstantsAssumption ==
  /\ {LastTopic, MinFetched, MaxMoves, MaxDay} \subseteq Nat
  /\ {PageSize, MaxPages, CategoryMaxPages, MaxAttempts} \subseteq Nat \ {0}
  /\ {Timeout, BaseDelay, MaxDelay} \cup RetryAfters \subseteq Nat
  /\ WarningDays \in Nat \ {0} /\ CriticalDays \in Nat /\ WarningDays < CriticalDays
  /\ FirstForums \subseteq [Topics -> 0 .. LastTopic]
  /\ \A first \in FirstForums : \A t, u \in Topics :
       t < u /\ first[u] > 0 => first[t] > 0 /\ first[t] # first[u]
  /\ Latest \notin Categories /\ CategoryOf \in [Topics -> Categories]

NotYet == -1
NoHeader == -1

VARIABLES
  adapter,    \* "lido" reads the global feed only, the others their categories, too
  bumped,     \* when each visible topic had its last activity, and 0 for the others
  published,  \* the day each topic was published
  day,        \* the date
  poll,       \* fetchRecent
  request,    \* fetchDiscourseJson: the attempt, and the time spent so far
  activity,   \* the status of the source's activity record
  seen,       \* history: what happened to the forum during the poll
  moves       \* how much of MaxMoves is used up

vars == <<adapter, bumped, published, day, poll, request, activity, seen, moves>>

-------------------------------------------------------------------------------
Feeds == {Latest} \cup Categories

InFeed(t, f) == f = Latest \/ CategoryOf[t] = f

Visible == {t \in Topics : bumped[t] > 0}

Feed(f) == {t \in Topics : bumped[t] > 0 /\ InFeed(t, f)}

\* The topics before t in a feed: their number is its position.
Before(t, f) == {u \in Topics : bumped[u] > bumped[t] /\ InFeed(u, f)}

\* pc: between two polls, waiting for a page or for the list of categories, or at
\* the end of the feeds.
Poll == [pc : {"idle", "page", "site", "end"}, feed : Feeds, page : Nat,
         todo : SUBSET Categories, items : SUBSET Topics, feedsRead : Nat]

NoPoll == [pc |-> "idle", feed |-> Latest, page |-> 0, todo |-> {}, items |-> {},
           feedsRead |-> 0]

\* Of a poll: the topics there at its beginning and at any time since, the feeds read
\* to their end, how often each topic moved to the front, how many were deleted.
Seen == [there : SUBSET Topics, ever : SUBSET Topics, exhausted : SUBSET Feeds,
         answered : [Topics -> Nat], deleted : Nat]

NothingSeen == [there |-> {}, ever |-> {}, exhausted |-> {},
                answered |-> [t \in Topics |-> 0], deleted |-> 0]

NewRequest == [attempt |-> 1, spent |-> 0]

\* The longest a request may take: every attempt times out, every delay is maximal.
LongestRequest == MaxAttempts * Timeout + (MaxAttempts - 1) * MaxDelay

Init ==
  /\ adapter \in {"lido", "categories"}
  /\ bumped \in FirstForums
  /\ published = [t \in Topics |-> IF t \in Visible THEN 0 ELSE NotYet]
  /\ day = 0
  /\ poll = NoPoll /\ request = NewRequest
  /\ activity = "none"
  /\ seen = NothingSeen
  /\ moves = 0

-------------------------------------------------------------------------------
(* The feeds of a poll.                                                     *)

StartPoll ==
  /\ poll.pc = "idle"
  /\ poll' = [NoPoll EXCEPT !.pc = "page"]
  /\ request' = NewRequest
  /\ seen' = [NothingSeen EXCEPT !.there = Visible, !.ever = Visible]
  /\ UNCHANGED <<adapter, bumped, published, day, activity, moves>>

\* What a poll does after a feed or the list of categories: the next category, if
\* there is one.
NextFeed(p) ==
  IF p.todo = {} THEN {[p EXCEPT !.pc = "end"]}
  ELSE {[p EXCEPT !.pc = "page", !.feed = c, !.page = 0, !.todo = @ \ {c}] : c \in p.todo}

\* Lido: the poll is over; the others ask for the categories after the global feed.
AfterFeed(p) ==
  IF p.feed # Latest THEN NextFeed(p)
  ELSE IF adapter = "lido" THEN {[p EXCEPT !.pc = "end"]}
  ELSE {[p EXCEPT !.pc = "site"]}

PageLimit == IF poll.feed = Latest THEN MaxPages ELSE CategoryMaxPages

\* more_topics_url.
HasMore(f) == Cardinality(Feed(f)) > (poll.page + 1) * PageSize

PageOf(f) ==
  LET OnPage(position) ==
        poll.page * PageSize <= position /\ position < (poll.page + 1) * PageSize
  IN  {t \in Feed(f) : OnPage(Cardinality(Before(t, f)))}

\* Slip: a page on which there is nothing new ends the feed.
EndsFeedIfNothingNew(f) == PageOf(f) \subseteq poll.items \/ ~HasMore(f)

EndsFeed(f) == PageOf(f) = {} \/ ~HasMore(f)

\* A page is read: its topics join the items of the poll, unless they are there.
PageAnswered ==
  LET read == [poll EXCEPT !.items = @ \cup PageOf(poll.feed)]
      over == EndsFeed(poll.feed)
  IN  /\ poll.pc = "page"
      /\ request' = NewRequest
      /\ IF over \/ poll.page + 1 = PageLimit
         THEN poll' \in AfterFeed([read EXCEPT !.feedsRead = @ + 1])
         ELSE poll' = [read EXCEPT !.page = @ + 1]
      /\ seen' = IF over THEN [seen EXCEPT !.exhausted = @ \cup {poll.feed}] ELSE seen
      /\ UNCHANGED <<adapter, bumped, published, day, activity, moves>>

SiteAnswered ==
  /\ poll.pc = "site"
  /\ request' = NewRequest
  /\ poll' \in NextFeed([poll EXCEPT !.todo = Categories])
  /\ UNCHANGED <<adapter, bumped, published, day, activity, seen, moves>>

\* Slip: a later page that failed is asked for again.
RequestGivesUpButPage ==
  IF poll.pc = "site" THEN NextFeed(poll)
  ELSE IF poll.page > 0 THEN {poll}
  ELSE AfterFeed(poll)

\* The request throws.  A page after the first ends its feed, which counts as read;
\* without its first page a feed is not; without the categories there are no more.
RequestGivesUp ==
  IF poll.pc = "site" THEN NextFeed(poll)
  ELSE IF poll.page > 0 THEN AfterFeed([poll EXCEPT !.feedsRead = @ + 1])
  ELSE AfterFeed(poll)

-------------------------------------------------------------------------------
(* The attempts of a request.                                               *)

AtMost(n, bound) == IF n < bound THEN n ELSE bound

ExponentialRetryDelay(attempt) == AtMost(BaseDelay * 2 ^ (attempt - 1), MaxDelay)

\* Slip: the forum decides how long the service waits.
RetryDelayUncapped(header) ==
  IF header \in RetryAfters THEN header ELSE ExponentialRetryDelay(request.attempt)

\* retryDelayMs; without a Retry-After that it understands, exponential.
RetryDelay(header) ==
  IF header \in RetryAfters THEN AtMost(header, MaxDelay)
  ELSE ExponentialRetryDelay(request.attempt)

\* An attempt fails after some time, and the next one follows after a delay.
Retry(time, delay) ==
  /\ poll.pc \in {"page", "site"}
  /\ request.attempt < MaxAttempts
  /\ request' = [attempt |-> request.attempt + 1, spent |-> request.spent + time + delay]
  /\ UNCHANGED <<adapter, bumped, published, day, poll, activity, seen, moves>>

\* The last attempt fails, or one in a way that is not retried.
GiveUp ==
  /\ poll.pc \in {"page", "site"}
  /\ request' = NewRequest
  /\ poll' \in RequestGivesUp
  /\ UNCHANGED <<adapter, bumped, published, day, activity, seen, moves>>

\* 408, 429 or 5xx.
Unavailable ==
  \/ \E time \in {0, Timeout}, header \in RetryAfters \cup {NoHeader} :
       Retry(time, RetryDelay(header))
  \/ request.attempt = MaxAttempts /\ GiveUp

\* No response, because there is no connection or no answer in time.
Unreachable ==
  \/ \E time \in {0, Timeout} : Retry(time, ExponentialRetryDelay(request.attempt))
  \/ request.attempt = MaxAttempts /\ GiveUp

\* Any other status, no JSON, or JSON of another shape.
Refused == GiveUp

-------------------------------------------------------------------------------
(* The end of a poll, and the watchdog.                                     *)

Age(t) == day - published[t]

\* The greatest is the newest.
Newest(items) == CHOOSE t \in items : \A u \in items : u <= t

\* Slip: the timestamps are sorted the other way round.
StatusByOldest(items) ==
  LET oldest == CHOOSE t \in items : \A u \in items : t <= u
  IN  IF Cardinality(items) < MinFetched \/ items = {} THEN "critical"
      ELSE IF Age(oldest) >= CriticalDays THEN "critical"
      ELSE IF Age(oldest) >= WarningDays THEN "warning" ELSE "healthy"

\* computeSourceActivityStatus of what a poll has listed.
ActivityStatus(items) ==
  IF Cardinality(items) < MinFetched \/ items = {} THEN "critical"
  ELSE IF Age(Newest(items)) >= CriticalDays THEN "critical"
  ELSE IF Age(Newest(items)) >= WarningDays THEN "warning" ELSE "healthy"

\* fetchRecent returns what it has, and updateSourceActivity stores the status.
PollSucceeds ==
  /\ poll.pc = "end" /\ poll.feedsRead > 0
  /\ activity' = ActivityStatus(poll.items)
  /\ poll' = NoPoll /\ seen' = NothingSeen
  /\ UNCHANGED <<adapter, bumped, published, day, request, moves>>

\* No feed could be read: fetchRecent throws, and the record stays as it is.
PollThrows ==
  /\ poll.pc = "end" /\ poll.feedsRead = 0
  /\ poll' = NoPoll /\ seen' = NothingSeen
  /\ UNCHANGED <<adapter, bumped, published, day, request, activity, moves>>

-------------------------------------------------------------------------------
(* The forum.                                                               *)

Move == moves < MaxMoves /\ moves' = moves + 1

\* Later than all there has been: no two topics are level.
Now == LastTopic + moves + 1

During(s) == IF poll.pc = "idle" THEN seen ELSE s

Post ==
  /\ Move
  /\ \E t \in Topics :
       /\ published[t] = NotYet /\ \A u \in Topics : u < t => published[u] # NotYet
       /\ published' = [published EXCEPT ![t] = day]
       /\ bumped' = [bumped EXCEPT ![t] = Now]
       /\ seen' = During([seen EXCEPT !.ever = @ \cup {t}])
  /\ UNCHANGED <<adapter, day, poll, request, activity>>

Answer ==
  /\ Move
  /\ \E t \in Visible :
       /\ bumped' = [bumped EXCEPT ![t] = Now]
       /\ seen' = During([seen EXCEPT !.answered[t] = @ + 1])
  /\ UNCHANGED <<adapter, published, day, poll, request, activity>>

Delete ==
  /\ Move
  /\ \E t \in Visible : bumped' = [bumped EXCEPT ![t] = 0]
  /\ seen' = During([seen EXCEPT !.deleted = @ + 1])
  /\ UNCHANGED <<adapter, published, day, poll, request, activity>>

\* Days pass between the polls, which take minutes.
NextDay ==
  /\ poll.pc = "idle" /\ day < MaxDay
  /\ day' = day + 1
  /\ UNCHANGED <<adapter, bumped, published, poll, request, activity, seen, moves>>

PollStep ==
  \/ PageAnswered \/ SiteAnswered \/ Unavailable \/ Unreachable \/ Refused
  \/ PollSucceeds \/ PollThrows

Next == StartPoll \/ PollStep \/ Post \/ Answer \/ Delete \/ NextDay

Spec == Init /\ [][Next]_vars

\* A request is answered or fails, for the service aborts it in the end, and the
\* event loop goes on with either.  No request need ever be answered.
FairSpec == Spec /\ WF_vars(PollStep)

-------------------------------------------------------------------------------
\* Every variable has its type.
TypeOK ==
  /\ adapter \in {"lido", "categories"}
  /\ bumped \in [Topics -> 0 .. LastTopic + moves] /\ moves \in 0 .. MaxMoves
  /\ published \in [Topics -> {NotYet} \cup 0 .. MaxDay] /\ day \in 0 .. MaxDay
  /\ poll \in Poll
  /\ request.attempt \in 1 .. MaxAttempts /\ request.spent \in Nat
  /\ activity \in {"none", "healthy", "warning", "critical"}
  /\ seen \in Seen

\* A request, with all that it waits for between its attempts, takes no longer than
\* the attempts and the capped delays allow, whatever Retry-After asks for; and every
\* variable has its type.
RequestIsBounded == TypeOK /\ request.spent <= LongestRequest

FeedsReadToTheEnd(t) == {f \in seen.exhausted : InFeed(t, f)}

\* A topic that is there from the beginning to the end of a poll is listed, however
\* the forum moves between the pages, if more of the topic's feeds are read to their end than
\* there were answers to the topic and deletions: a second feed makes up for one move.
RestingTopicsAreListed ==
  poll.pc = "end" =>
    \A t \in seen.there \cap Visible :
      seen.answered[t] + seen.deleted < Cardinality(FeedsReadToTheEnd(t)) => t \in poll.items

\* The forum held still and was read to its end.
CompletePoll ==
  /\ Latest \in seen.exhausted /\ seen.deleted = 0
  /\ \A t \in Topics : seen.answered[t] = 0

\* The watchdog never calls a forum healthy in which nothing was published lately, or
\* in which there is less than the minimum, though polls fail in part; and after a
\* complete poll it raises no alarm about a forum that is neither empty nor old.
WatchdogIsRight ==
  [][PollSucceeds =>
       /\ activity' = "healthy" =>
            /\ Cardinality(seen.ever) >= MinFetched
            /\ \E t \in seen.ever : Age(t) < WarningDays
       /\ CompletePoll /\ activity' # "healthy" =>
            \/ Cardinality(seen.there) < MinFetched \/ seen.there = {}
            \/ \A t \in seen.there :
                 Age(t) >= IF activity' = "critical" THEN CriticalDays ELSE WarningDays]_vars

\* A poll ends, although requests may fail in any way for as long as they like: what
\* it keeps in runningProtocols is not kept out for ever.
PollEnds == poll.pc # "idle" ~> poll.pc = "idle"
===============================================================================
