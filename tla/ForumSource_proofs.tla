------------------------- MODULE ForumSource_proofs -------------------------
(***************************************************************************)
(* What a poll of a forum lists, how the watchdog judges it, and how long a *)
(* request takes, for any number of topics and categories, pages of any    *)
(* size, and any limits, timeouts and delays.                              *)
(***************************************************************************)
EXTENDS ForumSource, TLAPS, FiniteSetTheorems, WellFoundedInduction

Types ==
  /\ adapter \in {"lido", "categories"}
  /\ bumped \in [Topics -> 0 .. LastTopic + moves] /\ moves \in 0 .. MaxMoves
  /\ published \in [Topics -> {NotYet} \cup 0 .. day] /\ day \in 0 .. MaxDay
  /\ poll \in Poll
  /\ request \in [attempt : 1 .. MaxAttempts, spent : Nat]
  /\ request.spent <= (request.attempt - 1) * (Timeout + MaxDelay)
  /\ activity \in {"none", "healthy", "warning", "critical"}
  /\ seen \in Seen

\* No two topics are level, and their numbers follow the days of their publication.
ForumInv ==
  /\ \A t, u \in Visible : bumped[t] = bumped[u] => t = u
  /\ \A t \in Visible : published[t] # NotYet
  /\ \A t, u \in Topics :
       t < u /\ published[u] # NotYet => published[t] # NotYet /\ published[t] <= published[u]

SeenInv ==
  /\ poll.pc = "idle" => seen = NothingSeen /\ poll = NoPoll
  /\ poll.items \subseteq seen.ever /\ seen.there \subseteq seen.ever
  /\ \A t \in seen.ever : published[t] # NotYet
  /\ poll.pc # "idle" => Visible \subseteq seen.ever
  /\ seen.deleted = 0 => seen.there \subseteq Visible
  /\ IsFiniteSet(seen.exhausted)

\* The pages read so far of the feed that is being read did not show t.
Missed(t) ==
  IF /\ poll.pc = "page" /\ poll.feed \notin seen.exhausted /\ InFeed(t, poll.feed)
     /\ Cardinality(Before(t, poll.feed)) < poll.page * PageSize
  THEN 1 ELSE 0

\* For every feed that did not show a topic there is an answer to it or a deletion.
Accounted ==
  \A t \in (seen.there \cap Visible) \ poll.items :
    Cardinality(FeedsReadToTheEnd(t)) + Missed(t) <= seen.answered[t] + seen.deleted

IInv == Types /\ ForumInv /\ SeenInv /\ Accounted

-------------------------------------------------------------------------------
(* Arithmetic.                                                              *)

LEMMA Products ==
  ASSUME NEW n \in Nat, NEW size \in Nat
  PROVE  /\ n * size \in Nat /\ (n + 1) * size = n * size + size
         /\ \A m \in Nat : n <= m => n * size <= m * size
<1>1. n * size \in Nat /\ (n + 1) * size = n * size + size
  OBVIOUS
<1>2. ASSUME NEW m \in Nat, n <= m PROVE n * size <= m * size
  <2>1. m - n \in Nat /\ (m - n) * size \in Nat
    BY <1>2
  <2>2. m * size = n * size + (m - n) * size
    BY <1>2
  <2> QED BY <1>1, <2>1, <2>2
<1> QED BY <1>1, <1>2

\* A power of two counts the subsets of a set.
LEMMA Powers ==
  ASSUME NEW n \in Nat
  PROVE  2 ^ n \in Nat
<1>1. IsFiniteSet(1 .. n) /\ Cardinality(1 .. n) = n
  BY FS_Interval
<1>2. Cardinality(SUBSET (1 .. n)) = 2 ^ n /\ IsFiniteSet(SUBSET (1 .. n))
  BY <1>1, FS_SUBSET
<1> QED BY <1>2, FS_CardinalityType

LEMMA Delays ==
  ASSUME NEW attempt \in Nat \ {0}
  PROVE  ExponentialRetryDelay(attempt) \in 0 .. MaxDelay
<1> DEFINE power == 2 ^ (attempt - 1)
<1>1. power \in Nat
  BY Powers
<1>2. BaseDelay \in Nat /\ MaxDelay \in Nat
  BY ConstantsAssumption
<1> SUFFICES AtMost(BaseDelay * power, MaxDelay) \in 0 .. MaxDelay
  BY DEF ExponentialRetryDelay
<1> HIDE DEF power
<1>3. BaseDelay * power \in Nat
  BY <1>1, <1>2
<1> QED BY <1>2, <1>3 DEF AtMost

LEMMA Least ==
  ASSUME NEW B, B \in SUBSET Nat, B # {}
  PROVE  \E k \in B : \A j \in B : k <= j
<1> DEFINE Less == OpToRel(<, Nat)
<1>1. IsWellFoundedOn(Less, Nat)
  BY NatLessThanWellFounded
<1>2. Less = {ss \in Nat \X Nat : ss[1] < ss[2]}
  BY DEF OpToRel
<1>3. PICK k \in B : \A j \in B : <<j, k>> \notin Less
  <2> HIDE DEF Less
  <2> QED BY <1>1, WFMin
<1>4. ASSUME NEW j \in B PROVE k <= j
  <2>1. <<j, k>> \in Nat \X Nat
    OBVIOUS
  <2>2. ~(<<j, k>>[1] < <<j, k>>[2])
    <3> HIDE DEF Less
    <3> QED BY <2>1, <1>2, <1>3
  <2> QED BY <2>2
<1> QED BY <1>4

-------------------------------------------------------------------------------
(* The positions of topics in a feed.                                       *)

LEMMA FiniteFeeds ==
  /\ IsFiniteSet(Topics)
  /\ \A S \in SUBSET Topics : IsFiniteSet(S) /\ Cardinality(S) \in Nat
  /\ \A f, t : Before(t, f) \in SUBSET Topics /\ Feed(f) \in SUBSET Topics
<1>1. IsFiniteSet(Topics)
  BY ConstantsAssumption, FS_Interval DEF Topics
<1> QED BY <1>1, FS_Subset, FS_CardinalityType DEF Before, Feed

\* There is a topic at every position before that of a topic.
LEMMA EveryPosition ==
  ASSUME Types, ForumInv, NEW f, NEW t \in Feed(f), NEW n \in Nat,
         n <= Cardinality(Before(t, f))
  PROVE  \E u \in Feed(f) : Cardinality(Before(u, f)) = n
<1> DEFINE At(u) == Cardinality(Before(u, f))
           B == {k \in Nat : n <= k /\ \E u \in Feed(f) : At(u) = k}
<1>1. \A u : At(u) \in Nat
  BY FiniteFeeds
<1> HIDE DEF At
<1>2. At(t) \in B
  BY <1>1 DEF At
<1>3. PICK k \in B : \A j \in B : k <= j
  <2> B \in SUBSET Nat /\ B # {}
    BY <1>2
  <2> HIDE DEF B
  <2> QED BY Least
<1>4. PICK u \in Feed(f) : At(u) = k
  BY <1>3
<1>5. ASSUME k # n PROVE FALSE
  <2>1. k > n /\ k \in Nat
    BY <1>3, <1>5
  <2>2. Before(u, f) # {}
    BY <1>4, <2>1, FS_EmptySet DEF At
  <2> DEFINE stamps == {bumped[v] : v \in Before(u, f)}
  <2>3. stamps \in SUBSET Nat /\ stamps # {}
    BY <2>2 DEF Before, Types, Topics
  <2>4. PICK s \in stamps : \A r \in stamps : s <= r
    <3> HIDE DEF stamps
    <3> QED BY <2>3, Least
  <2>5. PICK v \in Before(u, f) : bumped[v] = s
    BY <2>4
  <2>6. \A x \in Before(u, f) : bumped[v] <= bumped[x]
    BY <2>4, <2>5
  <2>7. Before(v, f) = Before(u, f) \ {v}
    <3>1. \A x \in Topics : bumped[x] \in Nat /\ (bumped[x] > 0 => x \in Visible)
      BY DEF Types, Visible
    <3>2. v \in Topics /\ u \in Topics /\ bumped[v] > bumped[u]
      BY DEF Before, Feed
    <3>3. ASSUME NEW x \in Topics PROVE x \in Before(v, f) <=> x \in Before(u, f) \ {v}
      <4>1. CASE x \in Before(v, f)
        BY <3>1, <3>2, <4>1 DEF Before
      <4>2. CASE x \in Before(u, f) \ {v}
        <5>1. bumped[v] <= bumped[x] /\ x # v /\ bumped[x] > 0 /\ bumped[v] > 0
          BY <2>6, <3>1, <3>2, <4>2 DEF Before
        <5>2. bumped[v] # bumped[x]
          BY <5>1, <3>1, <3>2 DEF ForumInv
        <5> QED BY <3>1, <3>2, <4>2, <5>1, <5>2 DEF Before
      <4> QED BY <4>1, <4>2
    <3> QED BY <3>3 DEF Before
  <2>8. At(v) = k - 1
    BY <1>4, <2>1, <2>7, FiniteFeeds, FS_RemoveElement DEF At
  <2>9. v \in Feed(f)
    <3>1. \A x \in Topics : bumped[x] \in Nat
      BY DEF Types
    <3>2. v \in Topics /\ u \in Topics /\ InFeed(v, f) /\ bumped[v] > bumped[u]
      BY DEF Before, Feed
    <3> QED BY <3>1, <3>2 DEF Feed
  <2>10. k - 1 \in B
    BY <1>1, <2>1, <2>8, <2>9
  <2> QED BY <1>3, <2>1, <2>10
<1> QED BY <1>4, <1>5 DEF At

\* A topic of a feed that has been read to its end, and on whose last page the topic
\* is not, has its position before that page.
LEMMA ReadToTheEnd ==
  ASSUME Types, ForumInv, NEW t \in Feed(poll.feed), t \notin PageOf(poll.feed),
         EndsFeed(poll.feed)
  PROVE  Cardinality(Before(t, poll.feed)) < poll.page * PageSize
<1> DEFINE f == poll.feed
           first == poll.page * PageSize
           position == Cardinality(Before(t, f))
<1>1. /\ poll.page \in Nat /\ PageSize \in Nat /\ PageSize > 0 /\ first \in Nat
      /\ (poll.page + 1) * PageSize = first + PageSize
  <2>1. poll.page \in Nat /\ PageSize \in Nat /\ PageSize > 0
    BY ConstantsAssumption DEF Types, Poll
  <2> QED BY <2>1, Products
<1>2. position \in Nat
  BY FiniteFeeds
<1>3. SUFFICES ASSUME position >= first PROVE FALSE
  BY <1>1, <1>2
<1> HIDE DEF f, first, position
<1>4. position >= first + PageSize
  BY <1>1, <1>2, <1>3 DEF PageOf, f, first, position
<1>5. CASE PageOf(f) = {}
  <2>1. PICK u \in Feed(f) : Cardinality(Before(u, f)) = first
    BY <1>1, <1>3, EveryPosition DEF f, position
  <2>2. u \in PageOf(f)
    BY <1>1, <2>1 DEF PageOf, first
  <2> QED BY <1>5, <2>2
<1>6. CASE ~HasMore(f)
  <2>1. Before(t, f) \cup {t} \subseteq Feed(f) /\ t \notin Before(t, f)
    BY DEF Before, Feed, f, Types, Topics
  <2>2. Cardinality(Before(t, f) \cup {t}) = position + 1
    BY <2>1, FiniteFeeds, FS_AddElement DEF position
  <2>3. position + 1 <= Cardinality(Feed(f)) /\ Cardinality(Feed(f)) \in Nat
    BY <2>1, <2>2, FiniteFeeds, FS_Subset
  <2> QED BY <1>1, <1>2, <1>4, <1>6, <2>3 DEF HasMore, first
<1> QED BY <1>5, <1>6 DEF EndsFeed, f

-------------------------------------------------------------------------------
(* The initial states.                                                      *)

LEMMA InitInv == Init => IInv
<1> SUFFICES ASSUME Init PROVE IInv
  OBVIOUS
<1>1. /\ bumped \in [Topics -> 0 .. LastTopic] /\ LastTopic \in Nat /\ MaxAttempts >= 1
      /\ \A t, u \in Topics : t < u /\ bumped[u] > 0 => bumped[t] > 0 /\ bumped[t] # bumped[u]
      /\ MaxMoves \in Nat /\ MaxDay \in Nat /\ MaxAttempts \in Nat
      /\ Timeout \in Nat /\ MaxDelay \in Nat
  BY ConstantsAssumption DEF Init
<1>2. Types
  <2>1. NoPoll \in Poll /\ NothingSeen \in Seen
    BY DEF NoPoll, Poll, NothingSeen, Seen, Feeds
  <2>2. 0 * (Timeout + MaxDelay) = 0
    BY <1>1
  <2>3. /\ NewRequest \in [attempt : 1 .. MaxAttempts, spent : Nat]
        /\ NewRequest.spent <= (NewRequest.attempt - 1) * (Timeout + MaxDelay)
    BY <1>1, <2>2 DEF NewRequest
  <2>4. published \in [Topics -> {NotYet} \cup 0 .. day]
    BY DEF Init, NotYet
  <2> QED BY <1>1, <2>1, <2>3, <2>4 DEF Init, Types
<1>3. ForumInv
  BY <1>1 DEF Init, ForumInv, Visible, NotYet, Topics
<1>4. SeenInv
  BY FS_EmptySet DEF Init, SeenInv, NoPoll, NothingSeen
<1>5. Accounted
  BY DEF Init, Accounted, NothingSeen
<1> QED BY <1>2, <1>3, <1>4, <1>5 DEF IInv

-------------------------------------------------------------------------------
(* The steps of a poll.                                                     *)

\* A poll whose page is not a later one of a feed has missed nothing there.
LEMMA NothingMissed ==
  ASSUME Types, NEW t, poll.pc # "page" \/ poll.page = 0
  PROVE  Missed(t) = 0
<1>1. Cardinality(Before(t, poll.feed)) \in Nat /\ 0 * PageSize = 0
  BY FiniteFeeds, ConstantsAssumption
<1> QED BY <1>1 DEF Missed

LEMMA ReadFeeds ==
  ASSUME SeenInv, NEW t
  PROVE  IsFiniteSet(FeedsReadToTheEnd(t)) /\ Cardinality(FeedsReadToTheEnd(t)) \in Nat
<1>1. FeedsReadToTheEnd(t) \in SUBSET seen.exhausted
  BY DEF FeedsReadToTheEnd
<1> QED BY <1>1, FS_Subset, FS_CardinalityType DEF SeenInv

LEMMA StartPollInv ==
  ASSUME IInv, StartPoll
  PROVE  IInv'
<1>1. /\ poll' = [NoPoll EXCEPT !.pc = "page"] /\ request' = NewRequest
      /\ seen' = [NothingSeen EXCEPT !.there = Visible, !.ever = Visible]
      /\ UNCHANGED <<adapter, bumped, published, day, activity, moves>>
      /\ Visible \subseteq Topics
  BY DEF StartPoll, Visible
<1>2. /\ poll' \in Poll /\ poll'.pc = "page" /\ poll'.page = 0 /\ poll'.items = {}
      /\ seen' \in Seen /\ seen'.there = Visible /\ seen'.ever = Visible
      /\ seen'.exhausted = {} /\ seen'.deleted = 0
      /\ seen'.answered = [t \in Topics |-> 0]
  BY <1>1 DEF NoPoll, Poll, NothingSeen, Seen, Feeds
<1>3. Types'
  <2>1. MaxAttempts \in Nat \ {0} /\ 0 * (Timeout + MaxDelay) = 0
    BY ConstantsAssumption
  <2>2. request' \in [attempt : 1 .. MaxAttempts, spent : Nat]
        /\ request'.spent <= (request'.attempt - 1) * (Timeout + MaxDelay)
    BY <1>1, <2>1 DEF NewRequest
  <2> QED BY <1>1, <1>2, <2>2 DEF Types, IInv
<1>4. ForumInv' /\ Visible' = Visible
  BY <1>1 DEF ForumInv, IInv, Visible
<1>5. SeenInv'
  BY <1>1, <1>2, <1>4, FS_EmptySet DEF SeenInv, ForumInv
<1>6. Accounted'
  <2> SUFFICES ASSUME NEW t \in Topics
               PROVE  Cardinality(FeedsReadToTheEnd(t)') + Missed(t)' <= seen'.answered[t] + seen'.deleted
    BY <1>1, <1>2, <1>4 DEF Accounted
  <2>1. FeedsReadToTheEnd(t)' = {}
    BY <1>2 DEF FeedsReadToTheEnd
  <2>2. Missed(t)' = 0
    <3>1. Cardinality(Before(t, poll.feed)') \in Nat /\ 0 * PageSize = 0
      BY FiniteFeeds, ConstantsAssumption DEF Before
    <3> QED BY <1>2, <3>1 DEF Missed
  <2> QED BY <1>2, <2>1, <2>2, FS_EmptySet
<1> QED BY <1>3, <1>4, <1>5, <1>6 DEF IInv

\* What follows a feed, or the list of categories, takes over what has been read.
LEMMA FeedsFollow ==
  ASSUME NEW p \in Poll, NEW q, q \in NextFeed(p) \/ q \in AfterFeed(p)
  PROVE  /\ q \in Poll /\ q.pc \in {"page", "site", "end"}
         /\ q.pc = "page" => q.page = 0
         /\ q.items = p.items
<1>1. p.todo \in SUBSET Categories
  BY DEF Poll
<1>2. ASSUME q = [p EXCEPT !.pc = "end"] \/ q = [p EXCEPT !.pc = "site"]
      PROVE  /\ q \in Poll /\ q.pc \in {"site", "end"} /\ q.items = p.items
  BY <1>2 DEF Poll
<1>3. ASSUME NEW c \in p.todo,
             q = [p EXCEPT !.pc = "page", !.feed = c, !.page = 0, !.todo = @ \ {c}]
      PROVE  /\ q \in Poll /\ q.pc = "page" /\ q.page = 0 /\ q.items = p.items
  BY <1>1, <1>3 DEF Poll, Feeds
<1>4. CASE q \in NextFeed(p)
  BY <1>2, <1>3, <1>4 DEF NextFeed
<1>5. CASE q \in AfterFeed(p)
  BY <1>2, <1>4, <1>5 DEF AfterFeed
<1> QED BY <1>4, <1>5

\* A step of a poll while the forum rests.
ForumRests == UNCHANGED <<adapter, bumped, published, day, activity, moves>>

LEMMA RestFrame ==
  ASSUME IInv, ForumRests
  PROVE  /\ ForumInv' /\ Visible' = Visible /\ \A t, f : Before(t, f)' = Before(t, f)
         /\ poll' \in Poll /\ seen' \in Seen
            /\ request' \in [attempt : 1 .. MaxAttempts, spent : Nat]
            /\ request'.spent <= (request'.attempt - 1) * (Timeout + MaxDelay) => Types'
         /\ NewRequest \in [attempt : 1 .. MaxAttempts, spent : Nat]
         /\ NewRequest.spent <= (NewRequest.attempt - 1) * (Timeout + MaxDelay)
<1>1. UNCHANGED <<adapter, bumped, published, day, activity, moves>>
  BY DEF ForumRests
<1>2. ForumInv' /\ Visible' = Visible
  BY <1>1 DEF ForumInv, IInv, Visible
<1>3. \A t, f : Before(t, f)' = Before(t, f)
  BY <1>1 DEF Before
<1>4. /\ NewRequest \in [attempt : 1 .. MaxAttempts, spent : Nat]
      /\ NewRequest.spent <= (NewRequest.attempt - 1) * (Timeout + MaxDelay)
  <2>1. MaxAttempts \in Nat \ {0} /\ 0 * (Timeout + MaxDelay) = 0
    BY ConstantsAssumption
  <2> QED BY <2>1 DEF NewRequest
<1> QED BY <1>1, <1>2, <1>3, <1>4 DEF IInv, Types

\* A feed ends without having been read to its end, or the list of categories comes
\* or does not: what was missed in the feed does not count any more.
LEMMA LeaveFeedInv ==
  ASSUME IInv, ForumRests, request' = NewRequest, seen' = seen, poll.pc # "idle",
         poll' \in Poll, poll'.pc \in {"page", "site", "end"}, poll'.items = poll.items,
         poll'.pc = "page" => poll'.page = 0
  PROVE  IInv'
<1>1. Types' /\ ForumInv'
  BY RestFrame DEF IInv, Types
<1>2. SeenInv'
  BY RestFrame DEF IInv, SeenInv, ForumRests
<1>3. Accounted'
  <2> SUFFICES ASSUME NEW t \in (seen.there \cap Visible) \ poll.items
               PROVE  Cardinality(FeedsReadToTheEnd(t)') + Missed(t)' <= seen'.answered[t] + seen'.deleted
    BY RestFrame DEF Accounted
  <2>1. FeedsReadToTheEnd(t)' = FeedsReadToTheEnd(t)
    BY DEF FeedsReadToTheEnd
  <2>2. Missed(t)' = 0
    <3>1. Cardinality(Before(t, poll.feed)') \in Nat /\ 0 * PageSize = 0
      BY FiniteFeeds, ConstantsAssumption DEF Before
    <3> QED BY <3>1 DEF Missed
  <2>3. Missed(t) \in {0, 1} /\ Cardinality(FeedsReadToTheEnd(t)) \in Nat
    BY ReadFeeds DEF Missed, IInv
  <2>4. seen.answered[t] \in Nat /\ seen.deleted \in Nat
    BY DEF IInv, Types, Seen, Visible
  <2>5. Cardinality(FeedsReadToTheEnd(t)) + Missed(t) <= seen.answered[t] + seen.deleted
    BY DEF IInv, Accounted
  <2> QED BY <2>1, <2>2, <2>3, <2>4, <2>5
<1> QED BY <1>1, <1>2, <1>3 DEF IInv

LEMMA SiteInv ==
  ASSUME IInv, SiteAnswered
  PROVE  IInv'
<1> DEFINE p == [poll EXCEPT !.todo = Categories]
<1>1. p \in Poll /\ p.items = poll.items /\ poll.pc = "site" /\ poll' \in NextFeed(p)
  BY DEF SiteAnswered, IInv, Types, Poll
<1> HIDE DEF p
<1>2. /\ poll' \in Poll /\ poll'.pc \in {"page", "site", "end"} /\ poll'.items = poll.items
      /\ poll'.pc = "page" => poll'.page = 0
  BY <1>1, FeedsFollow
<1> QED BY <1>1, <1>2, LeaveFeedInv DEF SiteAnswered, ForumRests

LEMMA GiveUpInv ==
  ASSUME IInv, GiveUp
  PROVE  IInv'
<1> DEFINE p == [poll EXCEPT !.feedsRead = @ + 1]
<1>1. poll \in Poll /\ p \in Poll /\ p.items = poll.items /\ poll.pc \in {"page", "site"}
  BY DEF GiveUp, IInv, Types, Poll
<1>2. \/ poll' \in NextFeed(poll) \/ poll' \in AfterFeed(poll) \/ poll' \in AfterFeed(p)
  BY DEF GiveUp, RequestGivesUp
<1> HIDE DEF p
<1>3. /\ poll' \in Poll /\ poll'.pc \in {"page", "site", "end"} /\ poll'.items = poll.items
      /\ poll'.pc = "page" => poll'.page = 0
  BY <1>1, <1>2, FeedsFollow
<1> QED BY <1>1, <1>3, LeaveFeedInv DEF GiveUp, ForumRests

\* Every attempt but the first has cost at most a timeout and a delay.
LEMMA RetryInv ==
  ASSUME IInv, NEW time \in {0, Timeout}, NEW delay \in 0 .. MaxDelay, Retry(time, delay)
  PROVE  IInv'
<1>1. /\ request' = [attempt |-> request.attempt + 1, spent |-> request.spent + time + delay]
      /\ request.attempt < MaxAttempts /\ poll' = poll /\ seen' = seen /\ ForumRests
  BY DEF Retry, ForumRests
<1>2. /\ request.attempt \in Nat \ {0} /\ request.spent \in Nat /\ MaxAttempts \in Nat
      /\ Timeout \in Nat /\ MaxDelay \in Nat /\ time \in Nat /\ delay \in Nat
      /\ time <= Timeout /\ delay <= MaxDelay
  <2>1. MaxAttempts \in Nat /\ Timeout \in Nat /\ MaxDelay \in Nat
    BY ConstantsAssumption
  <2>2. request.attempt \in 1 .. MaxAttempts /\ request.spent \in Nat
    BY DEF IInv, Types
  <2> QED BY <2>1, <2>2
<1> DEFINE a == request.attempt - 1
           cost == Timeout + MaxDelay
<1>3. a \in Nat /\ cost \in Nat /\ (a + 1) * cost = a * cost + cost /\ a * cost \in Nat
  BY <1>2, Products
<1>4. request.spent <= a * cost
  BY DEF IInv, Types
<1>5. /\ request' \in [attempt : 1 .. MaxAttempts, spent : Nat]
      /\ request'.attempt - 1 = a + 1
      /\ request'.spent = request.spent + time + delay
  BY <1>1, <1>2
<1>6. request.spent + time + delay <= (a + 1) * cost
  <2> HIDE DEF a
  <2>1. request.spent + time + delay <= a * cost + cost
    BY <1>2, <1>3, <1>4
  <2> QED BY <1>3, <2>1
<1>7. Types' /\ ForumInv'
  <2>1. request'.spent <= (request'.attempt - 1) * (Timeout + MaxDelay)
    BY <1>5, <1>6
  <2> HIDE DEF a, cost
  <2> QED BY <1>1, <1>5, <2>1, RestFrame DEF IInv, Types
<1>8. SeenInv' /\ Accounted'
  BY <1>1, RestFrame DEF IInv, SeenInv, Accounted, Missed, FeedsReadToTheEnd, ForumRests
<1> QED BY <1>7, <1>8 DEF IInv

\* A page.  A topic of the feed that is not on it was before it, or is behind it and
\* then the feed is not over.
LEMMA PageInv ==
  ASSUME IInv, PageAnswered
  PROVE  IInv'
<1> DEFINE f == poll.feed
           over == EndsFeed(f)
           read == [poll EXCEPT !.items = @ \cup PageOf(f)]
           ended == [read EXCEPT !.feedsRead = @ + 1]
<1>1. /\ poll.pc = "page" /\ request' = NewRequest /\ ForumRests
      /\ IF over \/ poll.page + 1 = PageLimit THEN poll' \in AfterFeed(ended)
         ELSE poll' = [read EXCEPT !.page = @ + 1]
      /\ seen' = IF over THEN [seen EXCEPT !.exhausted = @ \cup {f}] ELSE seen
  BY DEF PageAnswered, ForumRests
<1>2. /\ poll \in Poll /\ seen \in Seen /\ f \in Feeds /\ poll.page \in Nat
      /\ PageOf(f) \subseteq Visible /\ Visible \subseteq Topics
  BY DEF IInv, Types, Poll, PageOf, Feed, Visible
<1>3. /\ read \in Poll /\ ended \in Poll
      /\ read.items = poll.items \cup PageOf(f) /\ ended.items = poll.items \cup PageOf(f)
      /\ read.page = poll.page /\ read.feed = f /\ read.pc = "page"
  <2> DEFINE items == poll.items \cup PageOf(f)
  <2>1. items \in SUBSET Topics /\ read = [poll EXCEPT !.items = items]
    BY <1>2 DEF Poll
  <2> HIDE DEF items
  <2>2. /\ read \in Poll /\ read.items = items /\ read.page = poll.page /\ read.feed = f
        /\ read.pc = "page"
    BY <1>1, <1>2, <2>1 DEF Poll
  <2> HIDE DEF read
  <2>3. ended \in Poll /\ ended.items = items
    BY <2>2 DEF Poll
  <2> QED BY <2>2, <2>3 DEF items
<1> HIDE DEF ended
<1>4. /\ poll' \in Poll /\ poll'.pc \in {"page", "site", "end"}
      /\ poll'.items = poll.items \cup PageOf(f)
      /\ \/ poll'.pc # "page" \/ poll'.page = 0
         \/ poll'.pc = "page" /\ poll'.feed = f /\ poll'.page = poll.page + 1 /\ ~over
  <2>1. CASE over \/ poll.page + 1 = PageLimit
    BY <1>1, <1>3, <2>1, FeedsFollow
  <2>2. CASE ~(over \/ poll.page + 1 = PageLimit)
    <3>1. poll' = [read EXCEPT !.page = poll.page + 1]
      BY <1>1, <1>3, <2>2
    <3> HIDE DEF read
    <3> QED BY <1>2, <1>3, <2>2, <3>1 DEF Poll
  <2> QED BY <2>1, <2>2
<1> HIDE DEF read, over
<1>5. /\ seen' \in Seen /\ seen'.there = seen.there /\ seen'.ever = seen.ever
      /\ seen'.answered = seen.answered /\ seen'.deleted = seen.deleted
      /\ seen'.exhausted = IF over THEN seen.exhausted \cup {f} ELSE seen.exhausted
  BY <1>1, <1>2 DEF Seen
<1>6. Types' /\ ForumInv' /\ Visible' = Visible /\ \A t, g : Before(t, g)' = Before(t, g)
  BY <1>1, <1>4, <1>5, RestFrame DEF IInv, Types
<1>7. SeenInv'
  <2>1. IsFiniteSet(seen'.exhausted)
    BY <1>5, FS_AddElement DEF IInv, SeenInv
  <2> QED BY <1>1, <1>2, <1>4, <1>5, <1>6, <2>1 DEF IInv, SeenInv, ForumRests
<1>8. Accounted'
  <2> SUFFICES ASSUME NEW t \in (seen.there \cap Visible) \ (poll.items \cup PageOf(f))
               PROVE  Cardinality(FeedsReadToTheEnd(t)') + Missed(t)' <= seen.answered[t] + seen.deleted
    BY <1>4, <1>5, <1>6 DEF Accounted
  <2> DEFINE position == Cardinality(Before(t, f))
             first == poll.page * PageSize
  <2>1. Cardinality(FeedsReadToTheEnd(t)) + Missed(t) <= seen.answered[t] + seen.deleted
    BY DEF IInv, Accounted
  <2>2. /\ seen.answered[t] \in Nat /\ seen.deleted \in Nat /\ position \in Nat
        /\ IsFiniteSet(FeedsReadToTheEnd(t)) /\ Cardinality(FeedsReadToTheEnd(t)) \in Nat
    BY <1>2, ReadFeeds, FiniteFeeds DEF IInv, Seen
  <2>3. PageSize \in Nat /\ first \in Nat /\ (poll.page + 1) * PageSize = first + PageSize
    <3>1. PageSize \in Nat
      BY ConstantsAssumption
    <3> QED BY <1>2, <3>1, Products
  <2>4. InFeed(t, f) => t \in Feed(f)
    BY <1>2 DEF Feed, Visible
  <2>5. Missed(t) = IF f \notin seen.exhausted /\ InFeed(t, f) /\ position < first THEN 1 ELSE 0
    BY <1>1 DEF Missed
  <2>6. InFeed(t, f) => position < first \/ position >= first + PageSize
    BY <2>2, <2>3, <2>4 DEF PageOf
  <2> HIDE DEF position, first
  <2>7. CASE over
    <3>1. InFeed(t, f) => position < first
      BY <2>4, <2>7, ReadToTheEnd DEF over, position, first, IInv
    <3>2. Missed(t)' = 0
      <4>1. Cardinality(Before(t, poll.feed)') \in Nat /\ 0 * PageSize = 0
        BY <2>3, FiniteFeeds DEF Before
      <4> QED BY <1>4, <2>7, <4>1 DEF Missed
    <3>3. Cardinality(FeedsReadToTheEnd(t)') <= Cardinality(FeedsReadToTheEnd(t)) + Missed(t)
      <4>1. CASE f \in seen.exhausted \/ ~InFeed(t, f)
        <5>1. FeedsReadToTheEnd(t)' = FeedsReadToTheEnd(t)
          BY <1>5, <4>1 DEF FeedsReadToTheEnd
        <5> QED BY <2>2, <2>5, <5>1
      <4>2. CASE f \notin seen.exhausted /\ InFeed(t, f)
        <5>1. FeedsReadToTheEnd(t)' = FeedsReadToTheEnd(t) \cup {f}
          BY <1>5, <2>7, <4>2 DEF FeedsReadToTheEnd
        <5>2. Cardinality(FeedsReadToTheEnd(t)') <= Cardinality(FeedsReadToTheEnd(t)) + 1
          <6>1. Cardinality(FeedsReadToTheEnd(t) \cup {f}) \in
                  {Cardinality(FeedsReadToTheEnd(t)), Cardinality(FeedsReadToTheEnd(t)) + 1}
            BY <2>2, FS_AddElement
          <6> QED BY <2>2, <5>1, <6>1
        <5> QED BY <2>5, <3>1, <4>2, <5>2
      <4> QED BY <4>1, <4>2
    <3>4. Cardinality(FeedsReadToTheEnd(t)') \in Nat
      <4>1. FeedsReadToTheEnd(t)' \subseteq FeedsReadToTheEnd(t) \cup {f}
        BY <1>5 DEF FeedsReadToTheEnd
      <4> QED BY <2>2, <4>1, FS_AddElement, FS_Subset, FS_CardinalityType
    <3> QED BY <2>1, <2>2, <2>5, <3>2, <3>3, <3>4
  <2>8. CASE ~over
    <3>1. FeedsReadToTheEnd(t)' = FeedsReadToTheEnd(t)
      BY <1>5, <2>8 DEF FeedsReadToTheEnd
    <3>2. Missed(t)' <= Missed(t) /\ Missed(t)' \in {0, 1}
      <4>1. CASE poll'.pc # "page" \/ poll'.page = 0
        <5>1. Cardinality(Before(t, poll.feed)') \in Nat /\ 0 * PageSize = 0
          BY <2>3, FiniteFeeds DEF Before
        <5> QED BY <2>5, <4>1, <5>1 DEF Missed
      <4>2. CASE poll'.pc = "page" /\ poll'.feed = f /\ poll'.page = poll.page + 1
        <5>1. Cardinality(Before(t, poll.feed)') = position
          BY <1>6, <4>2 DEF position
        <5>2. Missed(t)' = IF f \notin seen.exhausted /\ InFeed(t, f) /\ position < first + PageSize
                           THEN 1 ELSE 0
          BY <1>5, <2>3, <2>8, <4>2, <5>1 DEF Missed
        <5> QED BY <2>2, <2>3, <2>5, <2>6, <5>2
      <4> QED BY <1>4, <4>1, <4>2
    <3> QED BY <2>1, <2>2, <2>5, <3>1, <3>2
  <2> QED BY <2>7, <2>8
<1> QED BY <1>6, <1>7, <1>8 DEF IInv

LEMMA EndInv ==
  ASSUME IInv, PollSucceeds \/ PollThrows
  PROVE  IInv'
<1>1. /\ poll' = NoPoll /\ seen' = NothingSeen
      /\ UNCHANGED <<adapter, bumped, published, day, request, moves>>
      /\ activity' \in {activity, "critical", "warning", "healthy"}
  BY DEF PollSucceeds, PollThrows, ActivityStatus
<1>2. NoPoll \in Poll /\ NothingSeen \in Seen
  BY DEF NoPoll, Poll, NothingSeen, Seen, Feeds
<1>3. Types'
  BY <1>1, <1>2 DEF IInv, Types
<1>4. ForumInv' /\ Visible' = Visible
  BY <1>1 DEF IInv, ForumInv, Visible
<1>5. SeenInv' /\ Accounted'
  BY <1>1, <1>4, FS_EmptySet DEF SeenInv, Accounted, NoPoll, NothingSeen
<1> QED BY <1>3, <1>4, <1>5 DEF IInv

-------------------------------------------------------------------------------
(* The steps of the forum.                                                  *)

\* Between two polls nothing is noted; during one, it is accounted for what may move
\* a topic to an earlier position.
LEMMA MoveFrame ==
  ASSUME IInv, poll' = poll, Types', seen' \in Seen, seen'.exhausted = seen.exhausted,
         seen'.there = seen.there, poll.pc = "idle" => seen' = seen,
         \A t \in (seen.there \cap Visible') \ poll.items :
           /\ t \in Visible
           /\ seen.answered[t] + seen.deleted <= seen'.answered[t] + seen'.deleted
           /\ \/ poll.pc # "idle" /\ seen.answered[t] + seen.deleted < seen'.answered[t] + seen'.deleted
              \/ \A f : Before(t, f) \subseteq Before(t, f)'
  PROVE  Accounted'
<1> SUFFICES ASSUME NEW t \in (seen.there \cap Visible') \ poll.items
             PROVE  Cardinality(FeedsReadToTheEnd(t)') + Missed(t)' <= seen'.answered[t] + seen'.deleted
  BY DEF Accounted
<1>1. FeedsReadToTheEnd(t)' = FeedsReadToTheEnd(t)
  BY DEF FeedsReadToTheEnd
<1>2. Cardinality(FeedsReadToTheEnd(t)) + Missed(t) <= seen.answered[t] + seen.deleted
  BY DEF IInv, Accounted
<1>3. /\ Missed(t) \in {0, 1} /\ Missed(t)' \in {0, 1} /\ Cardinality(FeedsReadToTheEnd(t)) \in Nat
      /\ seen.answered[t] \in Nat /\ seen.deleted \in Nat
      /\ seen'.answered[t] \in Nat /\ seen'.deleted \in Nat
  BY ReadFeeds DEF Missed, IInv, Types, Seen, Visible
<1>4. CASE seen.answered[t] + seen.deleted < seen'.answered[t] + seen'.deleted
  BY <1>1, <1>2, <1>3, <1>4
<1>5. CASE \A f : Before(t, f) \subseteq Before(t, f)'
  <2> DEFINE old == Cardinality(Before(t, poll.feed))
             new == Cardinality(Before(t, poll.feed)')
  <2>1. Before(t, poll.feed) \subseteq Before(t, poll.feed)'
    BY <1>5
  <2>2. Before(t, poll.feed)' \subseteq Topics
    BY DEF Before
  <2>3. old \in Nat /\ new \in Nat /\ old <= new
    BY <2>1, <2>2, FiniteFeeds, FS_Subset
  <2>4. poll.page * PageSize \in Nat
    <3>1. poll.page \in Nat /\ PageSize \in Nat
      BY ConstantsAssumption DEF IInv, Types, Poll
    <3> QED BY <3>1, Products
  <2> HIDE DEF old, new
  <2>5. Missed(t)' <= Missed(t)
    BY <2>3, <2>4 DEF Missed, old, new
  <2> QED BY <1>1, <1>2, <1>3, <2>5
<1> QED BY <1>4, <1>5

LEMMA PostInv ==
  ASSUME IInv, Post
  PROVE  IInv'
<1>1. PICK n \in Topics :
        /\ published[n] = NotYet /\ \A u \in Topics : u < n => published[u] # NotYet
        /\ published' = [published EXCEPT ![n] = day]
        /\ bumped' = [bumped EXCEPT ![n] = Now]
        /\ seen' = During([seen EXCEPT !.ever = @ \cup {n}])
  BY DEF Post
<1>2. /\ UNCHANGED <<adapter, day, poll, request, activity>>
      /\ moves < MaxMoves /\ moves' = moves + 1
  BY DEF Post, Move
<1>3. /\ LastTopic \in Nat /\ MaxMoves \in Nat /\ moves \in Nat /\ day \in Nat
      /\ Now = LastTopic + moves + 1
      /\ bumped \in [Topics -> 0 .. LastTopic + moves]
      /\ published \in [Topics -> {NotYet} \cup 0 .. day] /\ seen \in Seen
  BY ConstantsAssumption DEF IInv, Types, Now
<1>4. /\ \A t \in Topics : bumped'[t] = IF t = n THEN Now ELSE bumped[t]
      /\ \A t \in Topics : published'[t] = IF t = n THEN day ELSE published[t]
      /\ \A t \in Topics : bumped[t] \in Nat /\ bumped[t] < Now
  BY <1>1, <1>3
<1>5. n \notin Visible /\ Visible' = Visible \cup {n} /\ n \notin seen.ever
      /\ Visible \subseteq Topics
  BY <1>1, <1>3, <1>4 DEF IInv, ForumInv, SeenInv, Visible
<1>6. /\ seen' \in Seen /\ seen'.there = seen.there /\ seen'.exhausted = seen.exhausted
      /\ seen'.answered = seen.answered /\ seen'.deleted = seen.deleted
      /\ seen.ever \subseteq seen'.ever /\ seen'.ever \subseteq seen.ever \cup {n}
      /\ poll.pc = "idle" => seen' = seen
      /\ poll.pc # "idle" => n \in seen'.ever
  BY <1>1, <1>3 DEF During, Seen
<1>7. Types'
  <2>1. bumped' \in [Topics -> 0 .. LastTopic + moves'] /\ moves' \in 0 .. MaxMoves
    BY <1>1, <1>2, <1>3
  <2>2. published' \in [Topics -> {NotYet} \cup 0 .. day]
    BY <1>1, <1>3
  <2> QED BY <1>2, <1>6, <2>1, <2>2 DEF IInv, Types
<1>8. ForumInv'
  <2>1. ASSUME NEW t \in Visible', NEW u \in Visible', bumped'[t] = bumped'[u] PROVE t = u
    BY <1>3, <1>4, <1>5, <2>1 DEF IInv, ForumInv
  <2>2. \A t \in Visible' : published'[t] # NotYet
    BY <1>3, <1>4, <1>5 DEF IInv, ForumInv, NotYet
  <2>3. ASSUME NEW t \in Topics, NEW u \in Topics, t < u, published'[u] # NotYet
        PROVE  published'[t] # NotYet /\ published'[t] <= published'[u]
    <3>1. \A x \in Topics : published[x] # NotYet => published[x] \in Nat /\ published[x] <= day
      BY <1>3
    <3>2. CASE u = n
      BY <1>1, <1>3, <1>4, <2>3, <3>1, <3>2 DEF Topics
    <3>3. CASE t = n
      BY <1>1, <1>3, <1>4, <2>3, <3>3 DEF IInv, ForumInv, Topics
    <3>4. CASE u # n /\ t # n
      BY <1>4, <2>3, <3>4 DEF IInv, ForumInv
    <3> QED BY <3>2, <3>3, <3>4
  <2> QED BY <2>1, <2>2, <2>3 DEF ForumInv
<1>9. SeenInv'
  <2>1. \A t \in seen'.ever : published'[t] # NotYet
    <3>1. \A t \in seen'.ever : t \in Topics /\ (t = n \/ published[t] # NotYet)
      BY <1>3, <1>6 DEF IInv, SeenInv, Seen
    <3> QED BY <1>3, <1>4, <3>1 DEF NotYet
  <2> QED BY <1>2, <1>5, <1>6, <2>1 DEF IInv, SeenInv
<1>10. Accounted'
  <2>1. ASSUME NEW t \in (seen.there \cap Visible') \ poll.items
        PROVE  t \in Visible /\ \A f : Before(t, f) \subseteq Before(t, f)'
    <3>1. t \in Visible /\ t # n /\ t \in Topics
      BY <1>5 DEF IInv, SeenInv
    <3>2. ASSUME NEW f, NEW u \in Before(t, f) PROVE u \in Before(t, f)'
      BY <1>3, <1>4, <3>1 DEF Before
    <3> QED BY <3>1, <3>2
  <2>2. \A t \in seen.there : seen.answered[t] \in Nat /\ seen.deleted \in Nat
    BY <1>3 DEF Seen
  <2> QED BY <1>2, <1>6, <1>7, <2>1, <2>2, MoveFrame
<1> QED BY <1>7, <1>8, <1>9, <1>10 DEF IInv

LEMMA AnswerInv ==
  ASSUME IInv, Answer
  PROVE  IInv'
<1>1. PICK n \in Visible :
        /\ bumped' = [bumped EXCEPT ![n] = Now]
        /\ seen' = During([seen EXCEPT !.answered[n] = @ + 1])
  BY DEF Answer
<1>2. /\ UNCHANGED <<adapter, published, day, poll, request, activity>>
      /\ moves < MaxMoves /\ moves' = moves + 1
  BY DEF Answer, Move
<1>3. /\ LastTopic \in Nat /\ MaxMoves \in Nat /\ moves \in Nat
      /\ Now = LastTopic + moves + 1
      /\ bumped \in [Topics -> 0 .. LastTopic + moves] /\ n \in Topics /\ seen \in Seen
  BY ConstantsAssumption DEF IInv, Types, Now, Visible
<1>4. /\ \A t \in Topics : bumped'[t] = IF t = n THEN Now ELSE bumped[t]
      /\ \A t \in Topics : bumped[t] \in Nat /\ bumped[t] < Now
  BY <1>1, <1>3
<1>5. Visible' = Visible
  BY <1>3, <1>4 DEF Visible
<1>6. /\ seen' \in Seen /\ seen'.there = seen.there /\ seen'.exhausted = seen.exhausted
      /\ seen'.ever = seen.ever /\ seen'.deleted = seen.deleted
      /\ \A t \in Topics : seen.answered[t] \in Nat
      /\ \A t \in Topics : seen'.answered[t] =
           IF t = n /\ poll.pc # "idle" THEN seen.answered[t] + 1 ELSE seen.answered[t]
      /\ poll.pc = "idle" => seen' = seen
  <2>1. seen.answered \in [Topics -> Nat]
    BY <1>3 DEF Seen
  <2>2. CASE poll.pc = "idle"
    BY <1>1, <1>3, <2>1, <2>2 DEF During
  <2>3. CASE poll.pc # "idle"
    <3> DEFINE answered == [seen.answered EXCEPT ![n] = @ + 1]
    <3>1. /\ answered \in [Topics -> Nat]
          /\ \A t \in Topics : answered[t] = IF t = n THEN seen.answered[t] + 1 ELSE seen.answered[t]
      BY <1>3, <2>1
    <3>2. seen' = [seen EXCEPT !.answered = answered]
      BY <1>1, <1>3, <2>3 DEF During, Seen
    <3> HIDE DEF answered
    <3> QED BY <1>3, <2>1, <2>3, <3>1, <3>2 DEF Seen
  <2> QED BY <2>2, <2>3
<1>7. Types'
  <2>1. bumped' \in [Topics -> 0 .. LastTopic + moves'] /\ moves' \in 0 .. MaxMoves
    BY <1>1, <1>2, <1>3
  <2> QED BY <1>2, <1>6, <2>1 DEF IInv, Types
<1>8. ForumInv'
  <2>1. ASSUME NEW t \in Visible', NEW u \in Visible', bumped'[t] = bumped'[u] PROVE t = u
    BY <1>3, <1>4, <1>5, <2>1 DEF IInv, ForumInv, Visible
  <2> QED BY <1>2, <1>5, <2>1 DEF IInv, ForumInv
<1>9. SeenInv'
  BY <1>2, <1>5, <1>6 DEF IInv, SeenInv
<1>10. Accounted'
  <2>1. ASSUME NEW t \in (seen.there \cap Visible') \ poll.items
        PROVE  /\ t \in Visible
               /\ seen.answered[t] + seen.deleted <= seen'.answered[t] + seen'.deleted
               /\ \/ poll.pc # "idle" /\ seen.answered[t] + seen.deleted < seen'.answered[t] + seen'.deleted
                  \/ \A f : Before(t, f) \subseteq Before(t, f)'
    <3>1. t \in Visible /\ t \in Topics /\ seen.deleted \in Nat /\ poll.pc # "idle"
      BY <1>3, <1>5 DEF IInv, SeenInv, NothingSeen, Seen
    <3>2. CASE t = n
      BY <1>6, <3>1, <3>2
    <3>3. CASE t # n
      <4>1. ASSUME NEW f, NEW u \in Before(t, f) PROVE u \in Before(t, f)'
        BY <1>3, <1>4, <3>1, <3>3 DEF Before
      <4> QED BY <1>6, <3>1, <3>3, <4>1
    <3> QED BY <3>2, <3>3
  <2> QED BY <1>2, <1>6, <1>7, <2>1, MoveFrame
<1> QED BY <1>7, <1>8, <1>9, <1>10 DEF IInv

LEMMA DeleteInv ==
  ASSUME IInv, Delete
  PROVE  IInv'
<1>1. PICK n \in Visible : bumped' = [bumped EXCEPT ![n] = 0]
  BY DEF Delete
<1>2. /\ UNCHANGED <<adapter, published, day, poll, request, activity>>
      /\ moves < MaxMoves /\ moves' = moves + 1
      /\ seen' = During([seen EXCEPT !.deleted = @ + 1])
  BY DEF Delete, Move
<1>3. /\ LastTopic \in Nat /\ MaxMoves \in Nat /\ moves \in Nat
      /\ bumped \in [Topics -> 0 .. LastTopic + moves] /\ n \in Topics /\ seen \in Seen
  BY ConstantsAssumption DEF IInv, Types, Visible
<1>4. /\ \A t \in Topics : bumped'[t] = IF t = n THEN 0 ELSE bumped[t]
      /\ \A t \in Topics : bumped[t] \in Nat
  BY <1>1, <1>3
<1>5. Visible' = Visible \ {n}
  BY <1>3, <1>4 DEF Visible
<1>6. /\ seen' \in Seen /\ seen'.there = seen.there /\ seen'.exhausted = seen.exhausted
      /\ seen'.ever = seen.ever /\ seen'.answered = seen.answered
      /\ poll.pc # "idle" => seen'.deleted = seen.deleted + 1
      /\ poll.pc = "idle" => seen' = seen
      /\ seen.deleted \in Nat /\ \A t \in Topics : seen.answered[t] \in Nat
  BY <1>2, <1>3 DEF During, Seen
<1>7. Types'
  <2>1. bumped' \in [Topics -> 0 .. LastTopic + moves'] /\ moves' \in 0 .. MaxMoves
    BY <1>1, <1>2, <1>3
  <2> QED BY <1>2, <1>6, <2>1 DEF IInv, Types
<1>8. ForumInv'
  <2>1. ASSUME NEW t \in Visible', NEW u \in Visible', bumped'[t] = bumped'[u] PROVE t = u
    BY <1>3, <1>4, <1>5, <2>1 DEF IInv, ForumInv, Visible
  <2> QED BY <1>2, <1>5, <2>1 DEF IInv, ForumInv
<1>9. SeenInv'
  <2>1. seen'.deleted = 0 => seen'.there = {}
    BY <1>6 DEF IInv, SeenInv, NothingSeen
  <2> QED BY <1>2, <1>5, <1>6, <2>1 DEF IInv, SeenInv
<1>10. Accounted'
  <2>1. ASSUME NEW t \in (seen.there \cap Visible') \ poll.items
        PROVE  /\ t \in Visible /\ poll.pc # "idle"
               /\ seen.answered[t] + seen.deleted < seen'.answered[t] + seen'.deleted
               /\ seen.answered[t] + seen.deleted <= seen'.answered[t] + seen'.deleted
    <3>1. t \in Visible /\ t \in Topics /\ poll.pc # "idle"
      BY <1>5 DEF IInv, SeenInv, NothingSeen, Visible
    <3> QED BY <1>6, <3>1
  <2> QED BY <1>2, <1>6, <1>7, <2>1, MoveFrame
<1> QED BY <1>7, <1>8, <1>9, <1>10 DEF IInv

LEMMA DayInv ==
  ASSUME IInv, NextDay
  PROVE  IInv'
<1>1. /\ UNCHANGED <<adapter, bumped, published, poll, request, activity, seen, moves>>
      /\ day' = day + 1 /\ day < MaxDay /\ day \in Nat /\ MaxDay \in Nat
  BY ConstantsAssumption DEF NextDay, IInv, Types
<1>2. Types'
  <2>1. published \in [Topics -> {NotYet} \cup 0 .. day + 1] /\ day + 1 \in 0 .. MaxDay
    BY <1>1 DEF IInv, Types
  <2> QED BY <1>1, <2>1 DEF IInv, Types
<1>3. Visible' = Visible /\ ForumInv' /\ SeenInv'
  BY <1>1 DEF IInv, ForumInv, SeenInv, Visible
<1>4. Accounted'
  BY <1>1, <1>3 DEF IInv, Accounted, Missed, FeedsReadToTheEnd, Before
<1> QED BY <1>2, <1>3, <1>4 DEF IInv

LEMMA StepInv == IInv /\ [Next]_vars => IInv'
<1> SUFFICES ASSUME IInv, [Next]_vars PROVE IInv'
  OBVIOUS
<1>1. ASSUME NEW header, NEW time \in {0, Timeout},
             Retry(time, RetryDelay(header)) \/ Retry(time, ExponentialRetryDelay(request.attempt))
      PROVE  IInv'
  <2>1. request.attempt \in Nat \ {0} /\ MaxDelay \in Nat /\ RetryAfters \subseteq Nat
    BY ConstantsAssumption DEF IInv, Types
  <2>2. ExponentialRetryDelay(request.attempt) \in 0 .. MaxDelay
    BY <2>1, Delays
  <2>3. RetryDelay(header) \in 0 .. MaxDelay
    <3>1. CASE header \in RetryAfters
      BY <2>1, <3>1 DEF RetryDelay, AtMost
    <3>2. CASE header \notin RetryAfters
      BY <2>2, <3>2 DEF RetryDelay
    <3> QED BY <3>1, <3>2
  <2> QED BY <1>1, <2>2, <2>3, RetryInv
<1>2. CASE PollStep
  <2>1. CASE PageAnswered \/ SiteAnswered \/ PollSucceeds \/ PollThrows
    BY <2>1, PageInv, SiteInv, EndInv
  <2>2. CASE Unavailable \/ Unreachable \/ Refused
    BY <1>1, <2>2, GiveUpInv DEF Unavailable, Unreachable, Refused
  <2> QED BY <1>2, <2>1, <2>2 DEF PollStep
<1>3. CASE StartPoll \/ Post \/ Answer \/ Delete \/ NextDay
  BY <1>3, StartPollInv, PostInv, AnswerInv, DeleteInv, DayInv
<1>4. CASE UNCHANGED vars
  <2>1. /\ UNCHANGED <<adapter, bumped, published, day, poll, request, activity, seen, moves>>
        /\ Visible' = Visible
    BY <1>4 DEF vars, Visible
  <2>2. Types' /\ ForumInv' /\ SeenInv'
    BY <2>1 DEF IInv, Types, ForumInv, SeenInv
  <2>3. Accounted'
    BY <2>1 DEF IInv, Accounted, Missed, FeedsReadToTheEnd, Before
  <2> QED BY <2>2, <2>3 DEF IInv
<1> QED BY <1>2, <1>3, <1>4 DEF Next

THEOREM Inductive == Spec => []IInv
<1> QED BY InitInv, StepInv, PTL DEF Spec

-------------------------------------------------------------------------------
(* The results.                                                             *)

\* Every variable keeps its type, and no request takes longer than its attempts and the
\* capped delays allow, whatever Retry-After says.
THEOREM RequestsBounded == Spec => []RequestIsBounded
<1>1. IInv => RequestIsBounded
  <2> SUFFICES ASSUME IInv PROVE RequestIsBounded
    OBVIOUS
  <2>1. /\ MaxAttempts \in Nat \ {0} /\ Timeout \in Nat /\ MaxDelay \in Nat
    BY ConstantsAssumption
  <2>2. /\ request.attempt \in 1 .. MaxAttempts /\ request.spent \in Nat
        /\ request.spent <= (request.attempt - 1) * (Timeout + MaxDelay)
    BY DEF IInv, Types
  <2> DEFINE a == request.attempt - 1
             m == MaxAttempts - 1
             cost == Timeout + MaxDelay
  <2>3. a \in Nat /\ m \in Nat /\ a <= m /\ cost \in Nat
    BY <2>1, <2>2
  <2>4. a * cost <= m * cost /\ a * cost \in Nat /\ m * cost \in Nat
    <3> HIDE DEF a, m, cost
    <3> QED BY <2>3, Products
  <2>5. LongestRequest = m * cost + Timeout
    BY <2>1 DEF LongestRequest
  <2>6. request.spent \in 0 .. LongestRequest
    <3>1. request.spent <= a * cost
      BY <2>2
    <3> HIDE DEF a, m, cost
    <3> QED BY <2>1, <2>2, <2>4, <2>5, <3>1
  <2>7. published \in [Topics -> {NotYet} \cup 0 .. MaxDay]
    <3>1. published \in [Topics -> {NotYet} \cup 0 .. day] /\ day \in 0 .. MaxDay
      BY DEF IInv, Types
    <3>2. 0 .. day \subseteq 0 .. MaxDay
      BY <3>1, ConstantsAssumption
    <3> QED BY <3>1, <3>2
  <2> QED BY <2>2, <2>6, <2>7 DEF RequestIsBounded, TypeOK, IInv, Types
<1> QED BY <1>1, Inductive, PTL

\* A topic that is there all the time is listed, if more of its feeds are read to their
\* end than there were answers to it and deletions.
THEOREM Listed == Spec => []RestingTopicsAreListed
<1>1. IInv => RestingTopicsAreListed
  <2> SUFFICES ASSUME IInv, poll.pc = "end", NEW t \in seen.there \cap Visible, t \notin poll.items
               PROVE  ~(seen.answered[t] + seen.deleted < Cardinality(FeedsReadToTheEnd(t)))
    BY DEF RestingTopicsAreListed
  <2>1. Cardinality(FeedsReadToTheEnd(t)) + Missed(t) <= seen.answered[t] + seen.deleted
    BY DEF IInv, Accounted
  <2>2. Missed(t) = 0 /\ Cardinality(FeedsReadToTheEnd(t)) \in Nat
    BY ReadFeeds DEF Missed, IInv
  <2>3. seen.answered[t] \in Nat /\ seen.deleted \in Nat
    BY DEF IInv, Types, Seen, Visible
  <2> QED BY <2>1, <2>2, <2>3
<1> QED BY <1>1, Inductive, PTL

\* The greatest of some topics exists, and is the last that was published.
LEMMA NewestIsNewest ==
  ASSUME Types, ForumInv, NEW items \in SUBSET Topics, items # {},
         \A t \in items : published[t] # NotYet
  PROVE  /\ Newest(items) \in items
         /\ \A t \in items : Age(t) \in Int /\ Age(Newest(items)) <= Age(t)
<1> DEFINE B == {LastTopic - t : t \in items}
<1>1. LastTopic \in Nat /\ \A t \in items : t \in Nat /\ LastTopic - t \in Nat
  BY ConstantsAssumption DEF Topics
<1>2. B \in SUBSET Nat /\ B # {}
  BY <1>1
<1>3. PICK k \in B : \A j \in B : k <= j
  <2> HIDE DEF B
  <2> QED BY <1>2, Least
<1>4. PICK n \in items : k = LastTopic - n
  BY <1>3
<1>5. \A u \in items : u <= n
  BY <1>1, <1>3, <1>4
<1>6. Newest(items) \in items /\ \A u \in items : u <= Newest(items)
  BY <1>5 DEF Newest
<1>7. day \in Nat /\ \A t \in items : published[t] \in Nat
  BY DEF Types
<1>8. ASSUME NEW t \in items PROVE published[t] <= published[Newest(items)]
  BY <1>1, <1>6, <1>7 DEF ForumInv
<1> QED BY <1>6, <1>7, <1>8 DEF Age

\* The watchdog is right: "healthy" only of a forum that is, an alarm after a complete
\* poll only of one that is not.
THEOREM Watchdog == Spec => WatchdogIsRight
<1> DEFINE Healthy ==
             activity' = "healthy" =>
               /\ Cardinality(seen.ever) >= MinFetched
               /\ \E t \in seen.ever : Age(t) < WarningDays
           Alarm ==
             CompletePoll /\ activity' # "healthy" =>
               \/ Cardinality(seen.there) < MinFetched \/ seen.there = {}
               \/ \A t \in seen.there :
                    Age(t) >= IF activity' = "critical" THEN CriticalDays ELSE WarningDays
<1>1. ASSUME IInv, PollSucceeds PROVE Healthy /\ Alarm
  <2>1. /\ WarningDays \in Nat /\ CriticalDays \in Nat /\ MinFetched \in Nat
        /\ WarningDays < CriticalDays
    BY ConstantsAssumption
  <2>2. /\ poll.items \in SUBSET Topics /\ seen.there \in SUBSET Topics /\ seen.ever \in SUBSET Topics
        /\ poll.items \subseteq seen.ever /\ seen.there \subseteq seen.ever
        /\ \A t \in seen.ever : published[t] # NotYet
    BY <1>1 DEF IInv, Types, Poll, Seen, SeenInv
  <2>3. poll.pc = "end" /\ activity' = ActivityStatus(poll.items)
    BY <1>1 DEF PollSucceeds
  <2>4. poll.items # {} => /\ Newest(poll.items) \in poll.items
                           /\ \A t \in poll.items : Age(t) \in Int /\ Age(Newest(poll.items)) <= Age(t)
    BY <1>1, <2>2, NewestIsNewest DEF IInv
  <2>5. Cardinality(poll.items) \in Nat /\ Cardinality(seen.ever) \in Nat
        /\ Cardinality(poll.items) <= Cardinality(seen.ever)
    BY <2>2, FiniteFeeds, FS_Subset
  <2>6. Healthy
    <3> SUFFICES ASSUME activity' = "healthy"
                 PROVE  /\ Cardinality(seen.ever) >= MinFetched
                        /\ \E t \in seen.ever : Age(t) < WarningDays
      OBVIOUS
    <3>1. /\ ~(Cardinality(poll.items) < MinFetched) /\ poll.items # {}
          /\ ~(Age(Newest(poll.items)) >= WarningDays)
      BY <2>3 DEF ActivityStatus
    <3>2. Newest(poll.items) \in seen.ever /\ Age(Newest(poll.items)) \in Int
      BY <2>2, <2>4, <3>1
    <3>3. Age(Newest(poll.items)) < WarningDays
      BY <2>1, <3>1, <3>2
    <3> QED BY <2>1, <2>5, <3>1, <3>2, <3>3
  <2>7. Alarm
    <3> SUFFICES ASSUME CompletePoll, activity' # "healthy", seen.there # {},
                        ~(Cardinality(seen.there) < MinFetched), NEW t \in seen.there
                 PROVE  Age(t) >= IF activity' = "critical" THEN CriticalDays ELSE WarningDays
      OBVIOUS
    <3>1. ASSUME NEW u \in seen.there PROVE u \in poll.items
      <4>1. u \in Visible /\ u \in Topics
        BY <1>1, <2>2 DEF CompletePoll, IInv, SeenInv
      <4>2. Latest \in FeedsReadToTheEnd(u)
        BY DEF CompletePoll, FeedsReadToTheEnd, InFeed
      <4>3. Cardinality(FeedsReadToTheEnd(u)) \in Nat \ {0}
        BY <1>1, <4>2, ReadFeeds, FS_EmptySet DEF IInv
      <4>4. seen.answered[u] + seen.deleted = 0
        BY <4>1 DEF CompletePoll
      <4>5. u \notin poll.items => Cardinality(FeedsReadToTheEnd(u)) + Missed(u) <= 0
        BY <1>1, <4>1, <4>4 DEF IInv, Accounted
      <4> QED BY <4>3, <4>5 DEF Missed
    <3>2. Cardinality(seen.there) \in Nat /\ Cardinality(seen.there) <= Cardinality(poll.items)
      BY <2>2, <3>1, FiniteFeeds, FS_Subset
    <3>3. ~(Cardinality(poll.items) < MinFetched) /\ poll.items # {} /\ t \in poll.items
      BY <2>1, <2>5, <3>1, <3>2
    <3>4. Age(t) \in Int /\ Age(Newest(poll.items)) \in Int /\ Age(Newest(poll.items)) <= Age(t)
      BY <2>4, <3>3
    <3>5. CASE Age(Newest(poll.items)) >= CriticalDays
      <4>1. activity' = "critical"
        BY <2>3, <3>3, <3>5 DEF ActivityStatus
      <4> QED BY <2>1, <3>4, <3>5, <4>1
    <3>6. CASE ~(Age(Newest(poll.items)) >= CriticalDays)
      <4>1. activity' = "warning" /\ Age(Newest(poll.items)) >= WarningDays
        BY <2>3, <3>3, <3>6 DEF ActivityStatus
      <4> QED BY <2>1, <3>4, <4>1
    <3> QED BY <3>5, <3>6
  <2> QED BY <2>6, <2>7
<1>2. IInv /\ [Next]_vars => [PollSucceeds => Healthy /\ Alarm]_vars
  BY <1>1
<1> QED BY <1>2, Inductive, PTL DEF Spec, WatchdogIsRight
=============================================================================
