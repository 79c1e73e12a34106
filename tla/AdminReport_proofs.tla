------------------------- MODULE AdminReport_proofs -------------------------
(***************************************************************************)
(* The report of DailyAdminStatusReporter is honest, whatever the stores   *)
(* do between its queries and however many protocols and records there are.*)
(***************************************************************************)
EXTENDS AdminReport, TLAPS, FiniteSetTheorems, WellFoundedInduction

Steps == {"runs", "pending", "failed", "details", "activity", "source", "pendingEvents",
          "failedEvents", "eventDetails", "scan"}

Queries == Steps \cup {"latest"}

Places == Queries \cup {"idle", "send"}

\* How many of the queries the report has behind it.
Position ==
  [idle |-> 0, runs |-> 0, pending |-> 1, failed |-> 2, details |-> 3, activity |-> 4,
   source |-> 5, pendingEvents |-> 6, failedEvents |-> 7, eventDetails |-> 8, scan |-> 9,
   latest |-> 10, send |-> 11]

Asked == {q \in Queries : Position[q] < Position[report.at]}

Answered == Asked \ report.unread

Maybe(S) == {<< >>} \cup {<<x>> : x \in S}

Count == [proposals : Int, events : Int]

Report == [at : Places, latest : [Protocols -> Maybe(FetchRun)],
           todo : SUBSET Protocols, pending : Count, failed : Count,
           activity : [Protocols -> {"none", "healthy", "warning"}],
           source : Maybe(SourceState), scan : Maybe(ScanRun), unread : SUBSET Queries]

Types ==
  /\ config \in [aging : BOOLEAN, watching : BOOLEAN]
  /\ runs \in Seq(FetchRun)
  /\ delivery \in [Records -> {"absent", "pending", "failed", "resolved"}]
  /\ activity \in [Protocols -> {"healthy", "warning"}]
  /\ source \in Maybe(SourceState) /\ scanRun \in Maybe(ScanRun)
  /\ report \in Report

\* The account of what is wrong: nothing has been wrong from the beginning of the
\* report that is not wrong now, and what is wrong now has been noted.
Account == report.at # "idle" => lasting \subseteq Wrong /\ Wrong \subseteq ever

\* What has been wrong all the time shows in the answers there are.
FetchesShow ==
  /\ "runs" \in Answered /\ "latest" \notin report.unread =>
       \A p \in Protocols : <<"fetch", p>> \in lasting => FetchFlawed(report.latest[p])
  /\ "runs" \in Asked =>
       \A p \in Protocols \ report.todo : FetchFlawed(report.latest[p]) =>
         <<"fetch", p>> \in ever \/ report.unread \cap {"runs", "latest"} # {}
  /\ report.at = "send" => report.todo = {}

StatesShow ==
  /\ "activity" \in Answered =>
       /\ <<"activity", 0>> \in lasting => ActivityFlawed(report.activity)
       /\ ActivityFlawed(report.activity) => ever # {}
  /\ "source" \in Answered =>
       /\ <<"source", 0>> \in lasting => SourceFlawed(report.source)
       /\ SourceFlawed(report.source) => ever # {}
  /\ "scan" \in Answered =>
       /\ <<"scan", 0>> \in lasting => ScanFlawed(report.scan)
       /\ ScanFlawed(report.scan) => ever # {}

\* The records of a set that have been undelivered all the time, without a new attempt.
Stuck(of) == {r \in of \ retried : <<"delivery", r>> \in lasting}

\* Two counts of one set of records, the pending ones before the failed ones: a stuck
\* record that was not pending at the first was failed at the second.
CountsShow(of, pending, failed, first, second) ==
  /\ first \notin Asked => pending = Unknown
  /\ second \notin Asked => failed = Unknown
  /\ first \in Answered =>
       /\ pending \in Nat
       /\ pending > 0 => ever # {}
       /\ pending = 0 => \A r \in Stuck(of) : delivery[r] = "failed"
  /\ second \in Answered =>
       /\ failed \in Nat
       /\ failed > 0 => ever # {}
       /\ first \in Answered /\ pending = 0 /\ failed = 0 => Stuck(of) = {}
  /\ first \in report.unread => pending = Unknown
  /\ second \in report.unread => failed = Unknown

Begun ==
  /\ report.unread \subseteq Asked \cup {"latest"}
  /\ report.at = "idle" => lasting = {} /\ ever = {} /\ retried = {}

IInv ==
  /\ Types /\ Account /\ Begun /\ FetchesShow /\ StatesShow
  /\ CountsShow(Proposals, report.pending.proposals, report.failed.proposals, "pending", "failed")
  /\ CountsShow(Events, report.pending.events, report.failed.events,
                "pendingEvents", "failedEvents")

-------------------------------------------------------------------------------
(* The operators.                                                           *)

LEMMA Least ==
  ASSUME NEW B, B \in SUBSET Nat, B # {}
  PROVE  \E k \in B : \A j \in B : k <= j
<1> DEFINE Less == OpToRel(<, Nat)
<1>1. IsWellFoundedOn(Less, Nat)
  BY NatLessThanWellFounded
<1>2. Less = {ss \in Nat \X Nat : ss[1] < ss[2]}
  BY DEF OpToRel
<1>3. PICK k \in B : \A j \in B : <<j, k>> \notin Less
  <2> HIDE DEF Less
  <2> QED BY <1>1, WFMin
<1>4. ASSUME NEW j \in B PROVE k <= j
  <2>1. <<j, k>> \in Nat \X Nat
    OBVIOUS
  <2>2. ~(<<j, k>>[1] < <<j, k>>[2])
    <3> HIDE DEF Less
    <3> QED BY <2>1, <1>2, <1>3
  <2> QED BY <2>2
<1> QED BY <1>4

\* What a protocol's newest run is: one of its runs, with none of its runs before it.
LEMMA NewestRun ==
  ASSUME NEW seq \in Seq(FetchRun), NEW p
  PROVE  \/ LatestRun(p, seq) = << >> /\ \A i \in 1..Len(seq) : seq[i].protocol # p
         \/ \E i \in 1..Len(seq) :
              /\ LatestRun(p, seq) = <<seq[i]>>
              /\ seq[i].protocol = p
              /\ \A j \in 1..Len(seq) : seq[j].protocol = p => i <= j
<1> DEFINE of == {i \in DOMAIN seq : seq[i].protocol = p}
<1>1. DOMAIN seq = 1..Len(seq) /\ Len(seq) \in Nat
  OBVIOUS
<1>2. CASE of = {}
  BY <1>1, <1>2 DEF LatestRun
<1>3. CASE of # {}
  <2>1. \E i \in of : \A j \in of : i <= j
    <3>1. of \in SUBSET Nat
      BY <1>1
    <3> HIDE DEF of
    <3> QED BY <3>1, <1>3, Least
  <2> DEFINE first == CHOOSE i \in of : \A j \in of : i <= j
  <2>2. first \in of /\ \A j \in of : first <= j
    BY <2>1
  <2>3. LatestRun(p, seq) = <<seq[first]>>
    BY <1>3 DEF LatestRun
  <2> HIDE DEF first
  <2> QED BY <1>1, <2>2, <2>3
<1> QED BY <1>2, <1>3

\* Among the newest runs of all, a protocol's newest run is its newest run, or there
\* is none of its runs.
LEMMA NewestOfTheNewest ==
  ASSUME NEW seq \in Seq(FetchRun), NEW n \in Nat, NEW p
  PROVE  /\ LatestRun(p, seq) \in Maybe(FetchRun)
         /\ LatestRun(p, FirstN(seq, n)) \in Maybe(FetchRun)
         /\ LatestRun(p, FirstN(seq, n)) # << >> =>
              LatestRun(p, FirstN(seq, n)) = LatestRun(p, seq)
<1> DEFINE first == FirstN(seq, n)
           k == IF n < Len(seq) THEN n ELSE Len(seq)
<1>1. first \in Seq(FetchRun) /\ Len(first) = k /\ k \in 0..Len(seq)
      /\ \A i \in 1..k : first[i] = seq[i]
  BY DEF FirstN
<1>2. LatestRun(p, seq) \in Maybe(FetchRun)
  BY NewestRun DEF Maybe
<1> HIDE DEF first
<1>3. LatestRun(p, first) \in Maybe(FetchRun)
  BY <1>1, NewestRun DEF Maybe
<1>4. ASSUME LatestRun(p, first) # << >>
      PROVE  LatestRun(p, first) = LatestRun(p, seq)
  <2> HIDE DEF k
  <2>1. PICK i \in 1..k : /\ LatestRun(p, first) = <<first[i]>>
                          /\ first[i].protocol = p
                          /\ \A j \in 1..k : first[j].protocol = p => i <= j
    BY <1>1, <1>4, NewestRun
  <2>2. i \in 1..Len(seq) /\ seq[i] = first[i] /\ seq[i].protocol = p
    BY <1>1, <2>1
  <2>3. PICK h \in 1..Len(seq) : /\ LatestRun(p, seq) = <<seq[h]>>
                                 /\ seq[h].protocol = p
                                 /\ \A j \in 1..Len(seq) : seq[j].protocol = p => h <= j
    BY <2>2, NewestRun
  <2>4. h <= i
    BY <2>2, <2>3
  <2>5. h \in 1..k /\ first[h] = seq[h]
    BY <1>1, <2>1, <2>3, <2>4
  <2>6. i = h
    BY <2>1, <2>2, <2>3, <2>4, <2>5
  <2> QED BY <2>1, <2>2, <2>3, <2>6
<1> QED BY <1>2, <1>3, <1>4 DEF first

\* The order of the queries.
LEMMA Order ==
  /\ DOMAIN Following = Steps
  /\ \A q \in Steps : Following[q] \in Places /\ Position[Following[q]] = Position[q] + 1
                      /\ Following[q] \notin {"idle", "send"}
  /\ \A q \in Queries, s \in Queries : Position[q] = Position[s] => q = s
  /\ \A x \in Places : Position[x] \in Nat
<1>1. DOMAIN Following = Steps
  BY DEF Following, Steps
<1>2. \A q \in Steps : Following[q] \in Places /\ Position[Following[q]] = Position[q] + 1
                       /\ Following[q] \notin {"idle", "send"}
  BY DEF Following, Steps, Places, Queries, Position
<1>3. \A q \in Queries, s \in Queries : Position[q] = Position[s] => q = s
  BY DEF Steps, Queries, Position
<1>4. \A x \in Places : Position[x] \in Nat
  BY DEF Places, Steps, Queries, Position
<1> QED BY <1>1, <1>2, <1>3, <1>4

\* What each part of Wrong says.
LEMMA WrongThings ==
  /\ \A p : <<"fetch", p>> \in Wrong <=> p \in Protocols /\ FetchFlawed(LatestRun(p, runs))
  /\ \A r : <<"delivery", r>> \in Wrong <=> r \in Records /\ delivery[r] \in {"pending", "failed"}
  /\ <<"activity", 0>> \in Wrong <=> ActivityFlawed(activity)
  /\ <<"source", 0>> \in Wrong <=> SourceFlawed(source)
  /\ <<"scan", 0>> \in Wrong <=> ScanFlawed(scanRun)
  /\ \A w \in Wrong : \/ \E p \in Protocols : w = <<"fetch", p>>
                      \/ \E r \in Records : w = <<"delivery", r>>
                      \/ w \in {<<"activity", 0>>, <<"source", 0>>, <<"scan", 0>>}
BY DEF Wrong, With

\* A count is a number, and zero only if there is nothing to count.
LEMMA CountIs ==
  ASSUME NEW status, NEW of \in SUBSET Records
  PROVE  /\ Cardinality(With(status, of)) \in Nat
         /\ Cardinality(With(status, of)) = 0 <=> With(status, of) = {}
<1>1. IsFiniteSet(With(status, of))
  BY ConstantsAssumption, FS_Subset DEF With
<1> QED BY <1>1, FS_CardinalityType, FS_EmptySet

-------------------------------------------------------------------------------
(* The initial states, and the beginning and the end of a report.           *)

LEMMA InitialReport == NoReport \in Report
BY DEF NoReport, Report, Count, Maybe, Unknown, Places

LEMMA InitInv == Init => IInv
<1> SUFFICES ASSUME Init PROVE IInv
  OBVIOUS
<1>1. Types
  <2>1. runs \in Seq(FetchRun) /\ source \in Maybe(SourceState)
    BY ConstantsAssumption DEF Init, Maybe
  <2>2. scanRun \in Maybe(ScanRun)
    BY DEF Init, Maybe, ScanRun
  <2> QED BY <2>1, <2>2, InitialReport DEF Init, Types
<1>2. report.at = "idle" /\ report = NoReport /\ lasting = {} /\ ever = {} /\ retried = {}
  BY DEF Init, NoReport
<1> QED
  BY <1>1, <1>2 DEF IInv, Account, Begun, FetchesShow, StatesShow, CountsShow, Asked, Answered,
     Position, NoReport, Unknown

LEMMA BeginInv ==
  ASSUME IInv, BeginReport
  PROVE  IInv'
<1> USE DEF BeginReport
<1>1. report' \in Report /\ report'.at = "runs" /\ report'.unread = {}
      /\ report'.pending = NoReport.pending /\ report'.failed = NoReport.failed
  BY InitialReport DEF Report, NoReport, Places, Queries, Steps
<1>2. Types'
  <2>1. runs' \in Seq(FetchRun)
    <3>1. \A i \in 1..Len(runs) : runs'[i] \in FetchRun
      <4> TAKE i \in 1..Len(runs)
      <4>1. runs[i] \in FetchRun /\ i \in DOMAIN runs
        BY DEF IInv, Types
      <4>2. runs'[i] \in {runs[i], [runs[i] EXCEPT !.finished = "lately"]}
        BY <4>1
      <4> QED BY <4>1, <4>2 DEF FetchRun
    <3>2. DOMAIN runs = 1..Len(runs) /\ Len(runs) \in Nat
      BY DEF IInv, Types
    <3>3. runs' = [i \in 1..Len(runs) |-> runs'[i]]
      BY <3>2
    <3> QED BY <3>1, <3>2, <3>3
  <2> QED BY <1>1, <2>1 DEF IInv, Types
<1> QED
  BY <1>1, <1>2 DEF IInv, Account, Begun, FetchesShow, StatesShow, CountsShow, Asked, Answered,
     Position, NoReport, Unknown

LEMMA EndInv ==
  ASSUME IInv, EndReport
  PROVE  IInv'
<1>1. Types'
  BY InitialReport DEF IInv, Types, EndReport
<1>2. report' = NoReport /\ report'.at = "idle" /\ lasting' = {} /\ ever' = {} /\ retried' = {}
  BY DEF EndReport, NoReport
<1> QED
  BY <1>1, <1>2 DEF IInv, Account, Begun, FetchesShow, StatesShow, CountsShow, Asked, Answered,
     Position, NoReport, Unknown

-------------------------------------------------------------------------------
(* The queries.                                                             *)

\* While a query is answered nothing else happens.
LEMMA StoresRest ==
  ASSUME IInv, Reading
  PROVE  /\ Wrong' = Wrong
         /\ report' \in Report => Types'
         /\ report.at # "idle" => (Account /\ Account')
         /\ UNCHANGED <<lasting, ever, retried, delivery, config>>
         /\ \A of : Stuck(of)' = Stuck(of)
<1>1. UNCHANGED <<lasting, ever, retried, delivery, config, runs, activity, source, scanRun>>
  BY DEF Reading
<1>2. Wrong' = Wrong
  BY <1>1 DEF Wrong, With, FetchFlawed, SourceFlawed, ScanFlawed, ActivityFlawed
<1>3. \A of : Stuck(of)' = Stuck(of)
  BY <1>1 DEF Stuck
<1> QED BY <1>1, <1>2, <1>3 DEF IInv, Types, Account

\* A query more has been made.
LEMMA QueryMade ==
  ASSUME IInv, Reading, NEW q \in Steps, report.at = q,
         report' \in Report, report'.at = Following[q]
  PROVE  /\ Types' /\ Account' /\ UNCHANGED <<lasting, ever, retried, delivery, config>>
         /\ report.at \notin {"idle", "send"} /\ report'.at \notin {"idle", "send"}
         /\ q \in Queries /\ q \notin Asked /\ q # "latest" /\ q \notin report.unread
         /\ Asked' = Asked \cup {q}
         /\ report'.unread = report.unread => Answered' = Answered \cup {q}
         /\ report'.unread = report.unread \cup {q} => Answered' = Answered \ {q}
<1>1. report \in Report /\ Following[q] \in Places /\ q \in Queries /\ q # "latest"
  BY Order DEF IInv, Types, Queries, Steps
<1>2. Asked' = Asked \cup {q} /\ q \notin Asked
  <2>1. ASSUME NEW s \in Queries
        PROVE  /\ Position[s] < Position[report'.at] <=> (Position[s] < Position[report.at] \/ s = q)
               /\ s = q => ~(Position[s] < Position[report.at])
    BY <1>1, Order DEF Places
  <2> QED BY <1>1, <2>1 DEF Asked
<1>3. q \notin report.unread
  BY <1>1, <1>2 DEF IInv, Begun
<1>4. /\ Types' /\ Account' /\ UNCHANGED <<lasting, ever, retried, delivery, config>>
      /\ report.at \notin {"idle", "send"} /\ report'.at \notin {"idle", "send"}
  BY <1>1, StoresRest, Order DEF Steps
<1> QED BY <1>1, <1>2, <1>3, <1>4 DEF Answered

LEMMA ThrowInv ==
  ASSUME IInv, Reading, NEW q \in Steps, report.at = q,
         report' = [report EXCEPT !.at = Following[q], !.unread = @ \cup {q}]
  PROVE  IInv'
<1>1. /\ report \in Report /\ report' \in Report
      /\ report'.at = Following[q] /\ report'.unread = report.unread \cup {q}
      /\ report'.latest = report.latest /\ report'.todo = report.todo
      /\ report'.pending = report.pending /\ report'.failed = report.failed
      /\ report'.activity = report.activity /\ report'.source = report.source
      /\ report'.scan = report.scan
  BY Order DEF IInv, Types, Queries, Report
<1>2. /\ Types' /\ Account' /\ UNCHANGED <<lasting, ever, retried, delivery, config>>
      /\ report.at \notin {"idle", "send"} /\ report'.at \notin {"idle", "send"}
      /\ q \in Queries /\ q \notin Asked
      /\ Asked' = Asked \cup {q} /\ Answered' = Answered \ {q}
  BY <1>1, QueryMade
<1>3. Begun'
  BY <1>1, <1>2 DEF Begun, IInv
<1>4. FetchesShow'
  BY <1>1, <1>2 DEF FetchesShow, IInv, FetchFlawed
<1>5. StatesShow'
  BY <1>1, <1>2 DEF StatesShow, IInv, SourceFlawed, ScanFlawed, ActivityFlawed
<1>6. CountsShow(Proposals, report.pending.proposals, report.failed.proposals,
                 "pending", "failed")'
  BY <1>1, <1>2, StoresRest DEF CountsShow, IInv
<1>7. CountsShow(Events, report.pending.events, report.failed.events,
                 "pendingEvents", "failedEvents")'
  BY <1>1, <1>2, StoresRest DEF CountsShow, IInv
<1> QED BY <1>2, <1>3, <1>4, <1>5, <1>6, <1>7 DEF IInv

LEMMA RunsInv ==
  ASSUME IInv, ReadRuns
  PROVE  IInv'
<1> DEFINE found == [p \in Protocols |-> LatestRun(p, FirstN(runs, RunsRead))]
           answer == [report EXCEPT !.latest = found, !.todo = {p \in Protocols : found[p] = << >>}]
<1>1. Query("runs", answer)
  BY DEF ReadRuns
<1>2. report.at = "runs" /\ Reading /\ "runs" \in Steps /\ report \in Report
  BY <1>1 DEF Query, Steps, IInv, Types
<1>3. CASE report' = [report EXCEPT !.at = Following["runs"], !.unread = @ \cup {"runs"}]
  BY <1>2, <1>3, ThrowInv
<1>4. CASE report' = [answer EXCEPT !.at = Following["runs"]]
  <2>1. \A p \in Protocols : /\ found[p] = LatestRun(p, FirstN(runs, RunsRead))
                             /\ found[p] \in Maybe(FetchRun)
                             /\ found[p] # << >> => found[p] = LatestRun(p, runs)
    BY NewestOfTheNewest, ConstantsAssumption DEF IInv, Types
  <2>2. found \in [Protocols -> Maybe(FetchRun)]
    BY <2>1
  <2>3. /\ report' \in Report /\ report'.at = Following["runs"]
        /\ report'.unread = report.unread /\ report'.latest = found
        /\ report'.todo = {p \in Protocols : found[p] = << >>}
        /\ report'.pending = report.pending /\ report'.failed = report.failed
        /\ report'.activity = report.activity /\ report'.source = report.source
        /\ report'.scan = report.scan
    <3> HIDE DEF found
    <3> QED BY <1>2, <1>4, <2>2, Order DEF Report
  <2> HIDE DEF found, answer
  <2>4. /\ Types' /\ Account' /\ UNCHANGED <<lasting, ever, retried, delivery, config>>
        /\ report.at \notin {"idle", "send"} /\ report'.at \notin {"idle", "send"}
        /\ Asked' = Asked \cup {"runs"} /\ Answered' = Answered \cup {"runs"}
    BY <1>2, <2>3, QueryMade
  <2>5. Begun'
    BY <2>3, <2>4 DEF Begun, IInv
  <2>6. FetchesShow'
    <3>1. \A p \in Protocols : <<"fetch", p>> \in lasting => FetchFlawed(LatestRun(p, runs))
      BY <2>4, <1>2, WrongThings DEF IInv, Account
    <3>2. \A p \in Protocols : FetchFlawed(LatestRun(p, runs)) => <<"fetch", p>> \in ever
      BY <2>4, <1>2, WrongThings DEF IInv, Account
    <3>3. \A p \in Protocols : found[p] = << >> \/ found[p] = LatestRun(p, runs)
      BY <2>1
    <3> QED BY <2>3, <2>4, <3>1, <3>2, <3>3 DEF FetchesShow, FetchFlawed
  <2>7. StatesShow'
    BY <2>3, <2>4 DEF StatesShow, IInv, SourceFlawed, ScanFlawed, ActivityFlawed
  <2>8. CountsShow(Proposals, report.pending.proposals, report.failed.proposals,
                   "pending", "failed")'
    BY <1>2, <2>3, <2>4, StoresRest DEF CountsShow, IInv
  <2>9. CountsShow(Events, report.pending.events, report.failed.events,
                   "pendingEvents", "failedEvents")'
    BY <1>2, <2>3, <2>4, StoresRest DEF CountsShow, IInv
  <2> QED BY <2>4, <2>5, <2>6, <2>7, <2>8, <2>9 DEF IInv
<1> QED BY <1>1, <1>3, <1>4 DEF Query

\* A query whose answer is not about fetches leaves what is known of them.
LEMMA AnswerFrame ==
  ASSUME IInv, Reading, NEW q \in Steps, report.at = q, q # "runs",
         report' \in Report, report'.at = Following[q], report'.unread = report.unread,
         report'.latest = report.latest, report'.todo = report.todo
  PROVE  /\ Types' /\ Account' /\ UNCHANGED <<lasting, ever, retried, delivery, config>>
         /\ Begun' /\ FetchesShow'
         /\ Asked' = Asked \cup {q} /\ Answered' = Answered \cup {q}
         /\ q \notin Asked /\ q \notin report.unread
         /\ \A of : Stuck(of)' = Stuck(of)
         /\ lasting \subseteq Wrong /\ Wrong \subseteq ever
<1>1. /\ Types' /\ Account' /\ UNCHANGED <<lasting, ever, retried, delivery, config>>
      /\ report.at \notin {"idle", "send"} /\ report'.at \notin {"idle", "send"}
      /\ q \in Queries /\ q \notin Asked /\ q \notin report.unread
      /\ Asked' = Asked \cup {q} /\ Answered' = Answered \cup {q}
  BY QueryMade
<1>2. Begun'
  BY <1>1 DEF Begun, IInv
<1>3. FetchesShow'
  BY <1>1 DEF FetchesShow, IInv, FetchFlawed
<1>4. lasting \subseteq Wrong /\ Wrong \subseteq ever
  BY <1>1 DEF IInv, Account
<1>5. \A of : Stuck(of)' = Stuck(of)
  BY StoresRest
<1> QED BY <1>1, <1>2, <1>3, <1>4, <1>5

\* What the counts of a set of records say when they are made.
LEMMA CountsSay ==
  ASSUME IInv, lasting \subseteq Wrong, Wrong \subseteq ever, NEW of \in SUBSET Records
  PROVE  /\ \A r \in Stuck(of) : r \in With("pending", of) \/ r \in With("failed", of)
         /\ \A status \in {"pending", "failed"} :
              /\ Cardinality(With(status, of)) \in Nat
              /\ Cardinality(With(status, of)) = 0 => With(status, of) = {}
              /\ Cardinality(With(status, of)) > 0 => ever # {}
<1>1. \A r \in Stuck(of) : r \in With("pending", of) \/ r \in With("failed", of)
  BY WrongThings DEF Stuck, With
<1>2. ASSUME NEW status \in {"pending", "failed"}
      PROVE  With(status, of) # {} => ever # {}
  BY WrongThings DEF With
<1> QED BY <1>1, <1>2, CountIs

LEMMA CountsInv ==
  ASSUME IInv, Counts
  PROVE  IInv'
<1> DEFINE C(status, of) == Cardinality(With(status, of))
           pendingProposals == [report EXCEPT !.pending.proposals = C("pending", Proposals)]
           failedProposals == [report EXCEPT !.failed.proposals = C("failed", Proposals)]
           pendingEvents == [report EXCEPT !.pending.events = C("pending", Events)]
           failedEvents == [report EXCEPT !.failed.events = C("failed", Events)]
<1>1. report \in Report /\ Proposals \in SUBSET Records /\ Events \in SUBSET Records
      /\ {"pending", "failed", "pendingEvents", "failedEvents"} \subseteq Steps \ {"runs"}
  BY DEF IInv, Types, Records, Steps
<1>2. \A status \in {"pending", "failed"}, of \in {Proposals, Events} : C(status, of) \in Nat
  BY <1>1, CountIs
<1> HIDE DEF C
<1>3. CASE Query("pending", pendingProposals)
  <2>1. report.at = "pending" /\ Reading
    BY <1>3 DEF Query
  <2>2. CASE report' = [report EXCEPT !.at = Following["pending"], !.unread = @ \cup {"pending"}]
    BY <1>1, <2>1, <2>2, ThrowInv
  <2>3. CASE report' = [pendingProposals EXCEPT !.at = Following["pending"]]
    <3>1. /\ report' \in Report /\ report'.at = Following["pending"]
          /\ report'.unread = report.unread /\ report'.latest = report.latest
          /\ report'.todo = report.todo /\ report'.activity = report.activity
          /\ report'.source = report.source /\ report'.scan = report.scan
          /\ report'.pending.proposals = C("pending", Proposals)
          /\ report'.pending.events = report.pending.events /\ report'.failed = report.failed
      <4> DEFINE count == [report.pending EXCEPT !.proposals = C("pending", Proposals)]
      <4>1. report.pending \in Count
        BY <1>1 DEF Report
      <4>2. /\ count \in Count /\ count.proposals = C("pending", Proposals)
            /\ count.events = report.pending.events
        BY <1>2, <4>1 DEF Count
      <4>3. report' = [report EXCEPT !.pending = count, !.at = Following["pending"]]
        BY <1>1, <2>3 DEF Report
      <4> HIDE DEF count
      <4> QED BY <1>1, <4>2, <4>3, Order DEF Report
    <3> HIDE DEF pendingProposals
    <3>2. /\ Types' /\ Account' /\ UNCHANGED <<lasting, ever, retried, delivery, config>>
          /\ Begun' /\ FetchesShow' /\ \A of : Stuck(of)' = Stuck(of)
          /\ Asked' = Asked \cup {"pending"} /\ Answered' = Answered \cup {"pending"}
          /\ "pending" \notin report.unread
          /\ lasting \subseteq Wrong /\ Wrong \subseteq ever
      BY <1>1, <2>1, <3>1, AnswerFrame
    <3>3. StatesShow'
      BY <3>1, <3>2 DEF StatesShow, IInv, SourceFlawed, ScanFlawed, ActivityFlawed
    <3>4. "failed" \notin Asked'
      BY <2>1, <3>2, Order DEF Asked, Position, Queries, Steps
    <3>5. /\ \A r \in Stuck(Proposals) : delivery[r] \in {"pending", "failed"}
          /\ C("pending", Proposals) \in Nat
          /\ C("pending", Proposals) > 0 => ever # {}
          /\ C("pending", Proposals) = 0 => \A r \in Stuck(Proposals) : delivery[r] # "pending"
      BY <1>1, <3>2, CountsSay DEF C, With, Stuck
    <3>6. CountsShow(Proposals, report.pending.proposals, report.failed.proposals,
                   "pending", "failed")'
      BY <3>1, <3>2, <3>4, <3>5 DEF CountsShow, IInv, Answered
    <3>7. CountsShow(Events, report.pending.events, report.failed.events,
                   "pendingEvents", "failedEvents")'
      BY <3>1, <3>2 DEF CountsShow, IInv
    <3> QED BY <3>2, <3>3, <3>6, <3>7 DEF IInv
  <2> QED BY <1>3, <2>2, <2>3 DEF Query
<1>4. CASE Query("failed", failedProposals)
  <2>1. report.at = "failed" /\ Reading
    BY <1>4 DEF Query
  <2>2. CASE report' = [report EXCEPT !.at = Following["failed"], !.unread = @ \cup {"failed"}]
    BY <1>1, <2>1, <2>2, ThrowInv
  <2>3. CASE report' = [failedProposals EXCEPT !.at = Following["failed"]]
    <3>1. /\ report' \in Report /\ report'.at = Following["failed"]
          /\ report'.unread = report.unread /\ report'.latest = report.latest
          /\ report'.todo = report.todo /\ report'.activity = report.activity
          /\ report'.source = report.source /\ report'.scan = report.scan
          /\ report'.failed.proposals = C("failed", Proposals)
          /\ report'.failed.events = report.failed.events /\ report'.pending = report.pending
      <4> DEFINE count == [report.failed EXCEPT !.proposals = C("failed", Proposals)]
      <4>1. report.failed \in Count
        BY <1>1 DEF Report
      <4>2. /\ count \in Count /\ count.proposals = C("failed", Proposals)
            /\ count.events = report.failed.events
        BY <1>2, <4>1 DEF Count
      <4>3. report' = [report EXCEPT !.failed = count, !.at = Following["failed"]]
        BY <1>1, <2>3 DEF Report
      <4> HIDE DEF count
      <4> QED BY <1>1, <4>2, <4>3, Order DEF Report
    <3> HIDE DEF failedProposals
    <3>2. /\ Types' /\ Account' /\ UNCHANGED <<lasting, ever, retried, delivery, config>>
          /\ Begun' /\ FetchesShow' /\ \A of : Stuck(of)' = Stuck(of)
          /\ Asked' = Asked \cup {"failed"} /\ Answered' = Answered \cup {"failed"}
          /\ "failed" \notin report.unread
          /\ lasting \subseteq Wrong /\ Wrong \subseteq ever
      BY <1>1, <2>1, <3>1, AnswerFrame
    <3>3. StatesShow'
      BY <3>1, <3>2 DEF StatesShow, IInv, SourceFlawed, ScanFlawed, ActivityFlawed
    <3>5. /\ \A r \in Stuck(Proposals) : delivery[r] \in {"pending", "failed"}
          /\ C("failed", Proposals) \in Nat
          /\ C("failed", Proposals) > 0 => ever # {}
          /\ C("failed", Proposals) = 0 => \A r \in Stuck(Proposals) : delivery[r] # "failed"
      BY <1>1, <3>2, CountsSay DEF C, With, Stuck
    <3>6. CountsShow(Proposals, report.pending.proposals, report.failed.proposals,
                   "pending", "failed")'
      BY <3>1, <3>2, <3>5 DEF CountsShow, IInv, Answered
    <3>7. CountsShow(Events, report.pending.events, report.failed.events,
                   "pendingEvents", "failedEvents")'
      BY <3>1, <3>2 DEF CountsShow, IInv
    <3> QED BY <3>2, <3>3, <3>6, <3>7 DEF IInv
  <2> QED BY <1>4, <2>2, <2>3 DEF Query
<1>5. CASE Query("pendingEvents", pendingEvents)
  <2>1. report.at = "pendingEvents" /\ Reading
    BY <1>5 DEF Query
  <2>2. CASE report' = [report EXCEPT !.at = Following["pendingEvents"], !.unread = @ \cup {"pendingEvents"}]
    BY <1>1, <2>1, <2>2, ThrowInv
  <2>3. CASE report' = [pendingEvents EXCEPT !.at = Following["pendingEvents"]]
    <3>1. /\ report' \in Report /\ report'.at = Following["pendingEvents"]
          /\ report'.unread = report.unread /\ report'.latest = report.latest
          /\ report'.todo = report.todo /\ report'.activity = report.activity
          /\ report'.source = report.source /\ report'.scan = report.scan
          /\ report'.pending.events = C("pending", Events)
          /\ report'.pending.proposals = report.pending.proposals /\ report'.failed = report.failed
      <4> DEFINE count == [report.pending EXCEPT !.events = C("pending", Events)]
      <4>1. report.pending \in Count
        BY <1>1 DEF Report
      <4>2. /\ count \in Count /\ count.events = C("pending", Events)
            /\ count.proposals = report.pending.proposals
        BY <1>2, <4>1 DEF Count
      <4>3. report' = [report EXCEPT !.pending = count, !.at = Following["pendingEvents"]]
        BY <1>1, <2>3 DEF Report
      <4> HIDE DEF count
      <4> QED BY <1>1, <4>2, <4>3, Order DEF Report
    <3> HIDE DEF pendingEvents
    <3>2. /\ Types' /\ Account' /\ UNCHANGED <<lasting, ever, retried, delivery, config>>
          /\ Begun' /\ FetchesShow' /\ \A of : Stuck(of)' = Stuck(of)
          /\ Asked' = Asked \cup {"pendingEvents"} /\ Answered' = Answered \cup {"pendingEvents"}
          /\ "pendingEvents" \notin report.unread
          /\ lasting \subseteq Wrong /\ Wrong \subseteq ever
      BY <1>1, <2>1, <3>1, AnswerFrame
    <3>3. StatesShow'
      BY <3>1, <3>2 DEF StatesShow, IInv, SourceFlawed, ScanFlawed, ActivityFlawed
    <3>4. "failedEvents" \notin Asked'
      BY <2>1, <3>2, Order DEF Asked, Position, Queries, Steps
    <3>5. /\ \A r \in Stuck(Events) : delivery[r] \in {"pending", "failed"}
          /\ C("pending", Events) \in Nat
          /\ C("pending", Events) > 0 => ever # {}
          /\ C("pending", Events) = 0 => \A r \in Stuck(Events) : delivery[r] # "pending"
      BY <1>1, <3>2, CountsSay DEF C, With, Stuck
    <3>6. CountsShow(Events, report.pending.events, report.failed.events,
                   "pendingEvents", "failedEvents")'
      BY <3>1, <3>2, <3>4, <3>5 DEF CountsShow, IInv, Answered
    <3>7. CountsShow(Proposals, report.pending.proposals, report.failed.proposals,
                   "pending", "failed")'
      BY <3>1, <3>2 DEF CountsShow, IInv
    <3> QED BY <3>2, <3>3, <3>6, <3>7 DEF IInv
  <2> QED BY <1>5, <2>2, <2>3 DEF Query
<1>6. CASE Query("failedEvents", failedEvents)
  <2>1. report.at = "failedEvents" /\ Reading
    BY <1>6 DEF Query
  <2>2. CASE report' = [report EXCEPT !.at = Following["failedEvents"], !.unread = @ \cup {"failedEvents"}]
    BY <1>1, <2>1, <2>2, ThrowInv
  <2>3. CASE report' = [failedEvents EXCEPT !.at = Following["failedEvents"]]
    <3>1. /\ report' \in Report /\ report'.at = Following["failedEvents"]
          /\ report'.unread = report.unread /\ report'.latest = report.latest
          /\ report'.todo = report.todo /\ report'.activity = report.activity
          /\ report'.source = report.source /\ report'.scan = report.scan
          /\ report'.failed.events = C("failed", Events)
          /\ report'.failed.proposals = report.failed.proposals /\ report'.pending = report.pending
      <4> DEFINE count == [report.failed EXCEPT !.events = C("failed", Events)]
      <4>1. report.failed \in Count
        BY <1>1 DEF Report
      <4>2. /\ count \in Count /\ count.events = C("failed", Events)
            /\ count.proposals = report.failed.proposals
        BY <1>2, <4>1 DEF Count
      <4>3. report' = [report EXCEPT !.failed = count, !.at = Following["failedEvents"]]
        BY <1>1, <2>3 DEF Report
      <4> HIDE DEF count
      <4> QED BY <1>1, <4>2, <4>3, Order DEF Report
    <3> HIDE DEF failedEvents
    <3>2. /\ Types' /\ Account' /\ UNCHANGED <<lasting, ever, retried, delivery, config>>
          /\ Begun' /\ FetchesShow' /\ \A of : Stuck(of)' = Stuck(of)
          /\ Asked' = Asked \cup {"failedEvents"} /\ Answered' = Answered \cup {"failedEvents"}
          /\ "failedEvents" \notin report.unread
          /\ lasting \subseteq Wrong /\ Wrong \subseteq ever
      BY <1>1, <2>1, <3>1, AnswerFrame
    <3>3. StatesShow'
      BY <3>1, <3>2 DEF StatesShow, IInv, SourceFlawed, ScanFlawed, ActivityFlawed
    <3>5. /\ \A r \in Stuck(Events) : delivery[r] \in {"pending", "failed"}
          /\ C("failed", Events) \in Nat
          /\ C("failed", Events) > 0 => ever # {}
          /\ C("failed", Events) = 0 => \A r \in Stuck(Events) : delivery[r] # "failed"
      BY <1>1, <3>2, CountsSay DEF C, With, Stuck
    <3>6. CountsShow(Events, report.pending.events, report.failed.events,
                   "pendingEvents", "failedEvents")'
      BY <3>1, <3>2, <3>5 DEF CountsShow, IInv, Answered
    <3>7. CountsShow(Proposals, report.pending.proposals, report.failed.proposals,
                   "pending", "failed")'
      BY <3>1, <3>2 DEF CountsShow, IInv
    <3> QED BY <3>2, <3>3, <3>6, <3>7 DEF IInv
  <2> QED BY <1>6, <2>2, <2>3 DEF Query
<1> QED BY <1>3, <1>4, <1>5, <1>6 DEF Counts, C

LEMMA DetailsInv ==
  ASSUME IInv, ReadDetails
  PROVE  IInv'
<1>1. PICK q \in {"details", "eventDetails"} : Query(q, report)
  BY DEF ReadDetails
<1>2. report.at = q /\ Reading /\ q \in Steps /\ q # "runs" /\ report \in Report
  BY <1>1 DEF Query, Steps, IInv, Types
<1>3. CASE report' = [report EXCEPT !.at = Following[q], !.unread = @ \cup {q}]
  BY <1>2, <1>3, ThrowInv
<1>4. CASE report' = [report EXCEPT !.at = Following[q]]
  <2>1. /\ report' \in Report /\ report'.at = Following[q]
        /\ report'.unread = report.unread /\ report'.latest = report.latest
        /\ report'.todo = report.todo /\ report'.activity = report.activity
        /\ report'.source = report.source /\ report'.scan = report.scan
        /\ report'.pending = report.pending /\ report'.failed = report.failed
    BY <1>2, <1>4, Order DEF Report
  <2>2. /\ Types' /\ Account' /\ UNCHANGED <<lasting, ever, retried, delivery, config>>
        /\ Begun' /\ FetchesShow' /\ \A of : Stuck(of)' = Stuck(of)
        /\ Asked' = Asked \cup {q} /\ Answered' = Answered \cup {q}
    BY <1>2, <2>1, AnswerFrame
  <2>3. StatesShow'
    BY <1>1, <2>1, <2>2 DEF StatesShow, IInv, SourceFlawed, ScanFlawed, ActivityFlawed
  <2>4. CountsShow(Proposals, report.pending.proposals, report.failed.proposals,
                   "pending", "failed")'
    BY <1>1, <2>1, <2>2 DEF CountsShow, IInv
  <2>5. CountsShow(Events, report.pending.events, report.failed.events,
                   "pendingEvents", "failedEvents")'
    BY <1>1, <2>1, <2>2 DEF CountsShow, IInv
  <2> QED BY <2>2, <2>3, <2>4, <2>5 DEF IInv
<1> QED BY <1>1, <1>3, <1>4 DEF Query

LEMMA ActivityInv ==
  ASSUME IInv, ReadActivity
  PROVE  IInv'
<1> DEFINE answer == [report EXCEPT !.activity = activity]
<1>1. Query("activity", answer)
  BY DEF ReadActivity
<1>2. report.at = "activity" /\ Reading /\ "activity" \in Steps /\ report \in Report
  BY <1>1 DEF Query, Steps, IInv, Types
<1>3. CASE report' = [report EXCEPT !.at = Following["activity"], !.unread = @ \cup {"activity"}]
  BY <1>2, <1>3, ThrowInv
<1>4. CASE report' = [answer EXCEPT !.at = Following["activity"]]
  <2>1. /\ report' \in Report /\ report'.at = Following["activity"] /\ report'.activity = activity
        /\ report'.unread = report.unread /\ report'.latest = report.latest
        /\ report'.todo = report.todo /\ report'.source = report.source
        /\ report'.scan = report.scan
        /\ report'.pending = report.pending /\ report'.failed = report.failed
    BY <1>2, <1>4, Order DEF Report, IInv, Types
  <2> HIDE DEF answer
  <2>2. /\ Types' /\ Account' /\ UNCHANGED <<lasting, ever, retried, delivery, config>>
        /\ Begun' /\ FetchesShow' /\ \A of : Stuck(of)' = Stuck(of)
        /\ Asked' = Asked \cup {"activity"} /\ Answered' = Answered \cup {"activity"}
        /\ lasting \subseteq Wrong /\ Wrong \subseteq ever
    BY <1>2, <2>1, AnswerFrame
  <2>3. /\ <<"activity", 0>> \in lasting => ActivityFlawed(activity)
        /\ ActivityFlawed(activity) => ever # {}
    BY <2>2, WrongThings
  <2>4. StatesShow'
    BY <2>1, <2>2, <2>3 DEF StatesShow, IInv, SourceFlawed, ScanFlawed, ActivityFlawed
  <2>5. CountsShow(Proposals, report.pending.proposals, report.failed.proposals,
                   "pending", "failed")'
    BY <2>1, <2>2 DEF CountsShow, IInv
  <2>6. CountsShow(Events, report.pending.events, report.failed.events,
                   "pendingEvents", "failedEvents")'
    BY <2>1, <2>2 DEF CountsShow, IInv
  <2> QED BY <2>2, <2>4, <2>5, <2>6 DEF IInv
<1> QED BY <1>1, <1>3, <1>4 DEF Query

LEMMA SourceInv ==
  ASSUME IInv, ReadSource
  PROVE  IInv'
<1> DEFINE answer == [report EXCEPT !.source = source]
<1>1. Query("source", answer)
  BY DEF ReadSource
<1>2. report.at = "source" /\ Reading /\ "source" \in Steps /\ report \in Report
  BY <1>1 DEF Query, Steps, IInv, Types
<1>3. CASE report' = [report EXCEPT !.at = Following["source"], !.unread = @ \cup {"source"}]
  BY <1>2, <1>3, ThrowInv
<1>4. CASE report' = [answer EXCEPT !.at = Following["source"]]
  <2>1. /\ report' \in Report /\ report'.at = Following["source"] /\ report'.source = source
        /\ report'.unread = report.unread /\ report'.latest = report.latest
        /\ report'.todo = report.todo /\ report'.activity = report.activity
        /\ report'.scan = report.scan
        /\ report'.pending = report.pending /\ report'.failed = report.failed
    BY <1>2, <1>4, Order DEF Report, IInv, Types
  <2> HIDE DEF answer
  <2>2. /\ Types' /\ Account' /\ UNCHANGED <<lasting, ever, retried, delivery, config>>
        /\ Begun' /\ FetchesShow' /\ \A of : Stuck(of)' = Stuck(of)
        /\ Asked' = Asked \cup {"source"} /\ Answered' = Answered \cup {"source"}
        /\ lasting \subseteq Wrong /\ Wrong \subseteq ever
    BY <1>2, <2>1, AnswerFrame
  <2>3. /\ <<"source", 0>> \in lasting => SourceFlawed(source)
        /\ SourceFlawed(source) => ever # {}
    BY <2>2, WrongThings
  <2>4. StatesShow'
    BY <2>1, <2>2, <2>3 DEF StatesShow, IInv, SourceFlawed, ScanFlawed, ActivityFlawed
  <2>5. CountsShow(Proposals, report.pending.proposals, report.failed.proposals,
                   "pending", "failed")'
    BY <2>1, <2>2 DEF CountsShow, IInv
  <2>6. CountsShow(Events, report.pending.events, report.failed.events,
                   "pendingEvents", "failedEvents")'
    BY <2>1, <2>2 DEF CountsShow, IInv
  <2> QED BY <2>2, <2>4, <2>5, <2>6 DEF IInv
<1> QED BY <1>1, <1>3, <1>4 DEF Query

LEMMA ScanInv ==
  ASSUME IInv, ReadScan
  PROVE  IInv'
<1> DEFINE answer == [report EXCEPT !.scan = scanRun]
<1>1. Query("scan", answer)
  BY DEF ReadScan
<1>2. report.at = "scan" /\ Reading /\ "scan" \in Steps /\ report \in Report
  BY <1>1 DEF Query, Steps, IInv, Types
<1>3. CASE report' = [report EXCEPT !.at = Following["scan"], !.unread = @ \cup {"scan"}]
  BY <1>2, <1>3, ThrowInv
<1>4. CASE report' = [answer EXCEPT !.at = Following["scan"]]
  <2>1. /\ report' \in Report /\ report'.at = Following["scan"] /\ report'.scan = scanRun
        /\ report'.unread = report.unread /\ report'.latest = report.latest
        /\ report'.todo = report.todo /\ report'.activity = report.activity
        /\ report'.source = report.source
        /\ report'.pending = report.pending /\ report'.failed = report.failed
    BY <1>2, <1>4, Order DEF Report, IInv, Types
  <2> HIDE DEF answer
  <2>2. /\ Types' /\ Account' /\ UNCHANGED <<lasting, ever, retried, delivery, config>>
        /\ Begun' /\ FetchesShow' /\ \A of : Stuck(of)' = Stuck(of)
        /\ Asked' = Asked \cup {"scan"} /\ Answered' = Answered \cup {"scan"}
        /\ lasting \subseteq Wrong /\ Wrong \subseteq ever
    BY <1>2, <2>1, AnswerFrame
  <2>3. /\ <<"scan", 0>> \in lasting => ScanFlawed(scanRun)
        /\ ScanFlawed(scanRun) => ever # {}
    BY <2>2, WrongThings
  <2>4. StatesShow'
    BY <2>1, <2>2, <2>3 DEF StatesShow, IInv, SourceFlawed, ScanFlawed, ActivityFlawed
  <2>5. CountsShow(Proposals, report.pending.proposals, report.failed.proposals,
                   "pending", "failed")'
    BY <2>1, <2>2 DEF CountsShow, IInv
  <2>6. CountsShow(Events, report.pending.events, report.failed.events,
                   "pendingEvents", "failedEvents")'
    BY <2>1, <2>2 DEF CountsShow, IInv
  <2> QED BY <2>2, <2>4, <2>5, <2>6 DEF IInv
<1> QED BY <1>1, <1>3, <1>4 DEF Query

LEMMA LatestInv ==
  ASSUME IInv, NEW p \in Protocols, ReadLatest(p)
  PROVE  IInv'
<1>1. report.at = "latest" /\ Reading /\ p \in report.todo /\ report \in Report
  BY DEF ReadLatest, IInv, Types
<1>2. LatestRun(p, runs) \in Maybe(FetchRun)
  BY NewestOfTheNewest, ConstantsAssumption DEF IInv, Types
<1>3. /\ report' \in Report /\ report'.at = report.at
      /\ report'.todo = report.todo \ {p}
      /\ \/ /\ report'.unread = report.unread
            /\ report'.latest = [report.latest EXCEPT ![p] = LatestRun(p, runs)]
         \/ /\ report'.unread = report.unread \cup {"latest"}
            /\ report'.latest = report.latest
      /\ report'.activity = report.activity /\ report'.source = report.source
      /\ report'.scan = report.scan
      /\ report'.pending = report.pending /\ report'.failed = report.failed
  <2>1. /\ report.latest \in [Protocols -> Maybe(FetchRun)] /\ report.todo \in SUBSET Protocols
        /\ report.unread \in SUBSET Queries /\ "latest" \in Queries
    BY <1>1 DEF Report, Queries
  <2>2. CASE report' = [report EXCEPT !.todo = @ \ {p}, !.latest[p] = LatestRun(p, runs)]
    <3> DEFINE latest == [report.latest EXCEPT ![p] = LatestRun(p, runs)]
    <3>1. latest \in [Protocols -> Maybe(FetchRun)]
      BY <1>2, <2>1
    <3>2. report' = [report EXCEPT !.todo = report.todo \ {p}, !.latest = latest]
      BY <1>1, <2>2 DEF Report
    <3> HIDE DEF latest
    <3>3. /\ report' \in Report /\ report'.at = report.at
          /\ report'.todo = report.todo \ {p}
          /\ report'.unread = report.unread /\ report'.latest = latest
          /\ report'.activity = report.activity /\ report'.source = report.source
          /\ report'.scan = report.scan
          /\ report'.pending = report.pending /\ report'.failed = report.failed
      BY <1>1, <2>1, <3>1, <3>2 DEF Report
    <3> QED BY <3>3 DEF latest
  <2>3. CASE report' = [report EXCEPT !.todo = @ \ {p}, !.unread = @ \cup {"latest"}]
    BY <1>1, <2>1, <2>3 DEF Report
  <2> QED BY <2>2, <2>3 DEF ReadLatest
<1>4. /\ Types' /\ Account' /\ UNCHANGED <<lasting, ever, retried, delivery, config>>
      /\ \A of : Stuck(of)' = Stuck(of)
      /\ lasting \subseteq Wrong /\ Wrong \subseteq ever
  BY <1>1, <1>3, StoresRest DEF IInv, Account
<1>5. Asked' = Asked /\ "latest" \notin Asked
      /\ Answered' \subseteq Answered /\ Answered \subseteq Answered'
  BY <1>1, <1>3 DEF Asked, Answered, Position
<1>6. Begun'
  BY <1>1, <1>3, <1>4, <1>5 DEF Begun, IInv
<1>7. FetchesShow'
  <2>1. <<"fetch", p>> \in lasting => FetchFlawed(LatestRun(p, runs))
    BY <1>4, WrongThings
  <2>2. FetchFlawed(LatestRun(p, runs)) => <<"fetch", p>> \in ever
    BY <1>4, WrongThings
  <2>3. report.latest \in [Protocols -> Maybe(FetchRun)]
    BY <1>1 DEF Report
  <2> QED BY <1>1, <1>3, <1>4, <1>5, <2>1, <2>2, <2>3 DEF FetchesShow, FetchFlawed, IInv
<1>8. StatesShow'
  BY <1>3, <1>4, <1>5 DEF StatesShow, IInv, SourceFlawed, ScanFlawed, ActivityFlawed
<1>9. CountsShow(Proposals, report.pending.proposals, report.failed.proposals,
                 "pending", "failed")'
  BY <1>3, <1>4, <1>5 DEF CountsShow, IInv
<1>10. CountsShow(Events, report.pending.events, report.failed.events,
                  "pendingEvents", "failedEvents")'
  BY <1>3, <1>4, <1>5 DEF CountsShow, IInv
<1> QED BY <1>4, <1>6, <1>7, <1>8, <1>9, <1>10 DEF IInv

LEMMA EvaluateInv ==
  ASSUME IInv, Evaluate
  PROVE  IInv'
<1>1. report.at = "latest" /\ Reading /\ report.todo = {} /\ report \in Report
  BY DEF Evaluate, IInv, Types
<1>2. /\ report' \in Report /\ report'.at = "send" /\ report'.unread = report.unread
      /\ report'.todo = report.todo /\ report'.latest = report.latest
      /\ report'.activity = report.activity /\ report'.source = report.source
      /\ report'.scan = report.scan
      /\ report'.pending = report.pending /\ report'.failed = report.failed
  BY <1>1 DEF Evaluate, Report, Places
<1>3. /\ Types' /\ Account' /\ UNCHANGED <<lasting, ever, retried, delivery, config>>
      /\ \A of : Stuck(of)' = Stuck(of)
  BY <1>1, <1>2, StoresRest DEF IInv, Account
<1>4. Steps \subseteq Asked /\ Asked' = Asked \cup {"latest"}
      /\ \A q \in Steps : q \in Answered' <=> q \in Answered
  BY <1>1, <1>2 DEF Asked, Answered, Position, Queries, Steps
<1>5. Begun'
  BY <1>1, <1>2, <1>3, <1>4 DEF Begun, IInv
<1>6. FetchesShow'
  BY <1>1, <1>2, <1>3, <1>4 DEF FetchesShow, FetchFlawed, IInv, Steps
<1>7. StatesShow'
  BY <1>2, <1>3, <1>4 DEF StatesShow, IInv, SourceFlawed, ScanFlawed, ActivityFlawed, Steps
<1>8. CountsShow(Proposals, report.pending.proposals, report.failed.proposals,
                 "pending", "failed")'
  BY <1>2, <1>3, <1>4 DEF CountsShow, IInv, Steps
<1>9. CountsShow(Events, report.pending.events, report.failed.events,
                 "pendingEvents", "failedEvents")'
  BY <1>2, <1>3, <1>4 DEF CountsShow, IInv, Steps
<1> QED BY <1>3, <1>5, <1>6, <1>7, <1>8, <1>9 DEF IInv

-------------------------------------------------------------------------------
(* The stores.                                                              *)

\* A change of the stores: a record that no longer is failed, and still is not
\* delivered, has been attempted anew.
LEMMA MeanwhileInv ==
  ASSUME IInv, Meanwhile, Types', retried \subseteq retried',
         report.at = "idle" => retried' = retried,
         \A r \in Records : report.at # "idle" /\ delivery[r] = "failed" =>
           \/ delivery'[r] = "failed" \/ r \in retried'
           \/ delivery'[r] \notin {"pending", "failed"}
  PROVE  IInv'
<1>1. report' = report /\ config' = config /\ Asked' = Asked /\ Answered' = Answered
  BY DEF Meanwhile, Asked, Answered
<1>2. CASE report.at = "idle"
  <2>1. lasting' = {} /\ ever' = {} /\ retried' = {}
    BY <1>2 DEF Meanwhile, IInv, Begun
  <2>2. Asked = {} /\ Answered = {}
    BY <1>2, Order DEF Asked, Answered, Position, Queries, Steps
  <2> QED BY <1>1, <1>2, <2>1, <2>2 DEF IInv, Account, Begun, FetchesShow, StatesShow, CountsShow
<1>3. CASE report.at # "idle"
  <2>1. /\ lasting' \subseteq lasting /\ lasting' \subseteq Wrong'
        /\ ever \subseteq ever' /\ Wrong' \subseteq ever'
    BY <1>3 DEF Meanwhile
  <2>2. Account' /\ Begun'
    BY <1>1, <1>3, <2>1 DEF Account, Begun, IInv
  <2>3. FetchesShow'
    BY <1>1, <2>1 DEF FetchesShow, FetchFlawed, IInv
  <2>4. StatesShow'
    BY <1>1, <2>1 DEF StatesShow, SourceFlawed, ScanFlawed, ActivityFlawed, IInv
  <2>5. \A of : Stuck(of)' \subseteq Stuck(of)
    BY <2>1 DEF Stuck
  <2>6. ASSUME NEW of \in SUBSET Records, NEW r \in Stuck(of)', delivery[r] = "failed"
        PROVE  delivery'[r] = "failed"
    <3>1. r \in Records /\ r \notin retried' /\ <<"delivery", r>> \in Wrong'
      BY <2>1, <2>6 DEF Stuck
    <3>2. delivery'[r] \in {"pending", "failed"}
      BY <3>1 DEF Wrong, With
    <3> QED BY <1>3, <2>6, <3>1, <3>2
  <2>7. /\ \A r \in Stuck(Proposals)' : r \in Stuck(Proposals)
                                       /\ (delivery[r] = "failed" => delivery'[r] = "failed")
        /\ \A r \in Stuck(Events)' : r \in Stuck(Events)
                                    /\ (delivery[r] = "failed" => delivery'[r] = "failed")
    BY <2>5, <2>6 DEF Records
  <2>8. CountsShow(Proposals, report.pending.proposals, report.failed.proposals,
                   "pending", "failed")'
    BY <1>1, <2>1, <2>7 DEF CountsShow, IInv
  <2>9. CountsShow(Events, report.pending.events, report.failed.events,
                   "pendingEvents", "failedEvents")'
    BY <1>1, <2>1, <2>7 DEF CountsShow, IInv
  <2> QED BY <2>2, <2>3, <2>4, <2>8, <2>9 DEF IInv
<1> QED BY <1>2, <1>3

LEMMA StoreInv ==
  ASSUME IInv, StoreStep
  PROVE  IInv'
<1> USE DEF IInv, Types
<1>1. runs \in Seq(FetchRun) /\ \A i \in DOMAIN runs : runs[i] \in FetchRun
  OBVIOUS
<1>2. ASSUME NEW p \in Protocols, StartFetch(p) PROVE IInv'
  <2>1. [protocol |-> p, status |-> "running", finished |-> "not"] \in FetchRun
    BY DEF FetchRun
  <2>2. runs' \in Seq(FetchRun)
    BY <1>1, <1>2, <2>1 DEF StartFetch
  <2>3. Meanwhile /\ Types' /\ UNCHANGED <<delivery, retried>>
    BY <1>2, <2>2 DEF StartFetch, Meanwhile
  <2> HIDE DEF IInv, Types
  <2> QED BY <2>3, MeanwhileInv
<1>3. ASSUME NEW p \in Protocols, JudgeActivity(p) PROVE IInv'
  <2>1. Meanwhile /\ Types' /\ UNCHANGED <<delivery, retried>>
    BY <1>3 DEF JudgeActivity, Meanwhile
  <2> HIDE DEF IInv, Types
  <2> QED BY <2>1, MeanwhileInv
<1>4. ASSUME NEW i \in DOMAIN runs, FinishFetch(i) \/ GrowOld(i) PROVE IInv'
  <2>1. PICK run \in FetchRun : runs' = [runs EXCEPT ![i] = run]
    <3>1. CASE runs' = [runs EXCEPT ![i].status = "failed"]
      BY <1>1, <3>1 DEF FetchRun
    <3>2. CASE runs' = [runs EXCEPT ![i].status = "success",
                             ![i].finished = IF report.at = "idle" THEN "lately" ELSE "later"]
      <4> DEFINE run == [runs[i] EXCEPT !.status = "success",
                             !.finished = IF report.at = "idle" THEN "lately" ELSE "later"]
      <4>1. run \in FetchRun
        BY <1>1 DEF FetchRun
      <4>2. runs' = [runs EXCEPT ![i] = run]
        BY <1>1, <3>2 DEF FetchRun
      <4> QED BY <4>1, <4>2
    <3>3. CASE runs' = [runs EXCEPT ![i].finished = "long ago"]
      BY <1>1, <3>3 DEF FetchRun
    <3> QED BY <1>4, <3>1, <3>2, <3>3 DEF FinishFetch, GrowOld
  <2>2. runs' \in Seq(FetchRun)
    BY <1>1, <2>1
  <2>3. Meanwhile /\ Types' /\ UNCHANGED <<delivery, retried>>
    BY <1>4, <2>2 DEF FinishFetch, GrowOld, Meanwhile
  <2> HIDE DEF IInv, Types
  <2> QED BY <2>3, MeanwhileInv
<1>5. ASSUME NEW r \in Records, Deliver(r) PROVE IInv'
  <2>1. /\ Meanwhile /\ Types' /\ retried \subseteq retried'
        /\ report.at = "idle" => retried' = retried
    BY <1>5 DEF Deliver, Meanwhile
  <2>2. ASSUME NEW s \in Records, report.at # "idle", delivery[s] = "failed"
        PROVE  delivery'[s] = "failed" \/ s \in retried'
    BY <1>5, <2>2 DEF Deliver
  <2> HIDE DEF IInv, Types
  <2> QED BY <2>1, <2>2, MeanwhileInv
<1>6. ASSUME Scan PROVE IInv'
  <2>1. Meanwhile /\ Types' /\ UNCHANGED <<delivery, retried>>
    BY <1>6, ConstantsAssumption DEF Scan, Meanwhile, Maybe
  <2> HIDE DEF IInv, Types
  <2> QED BY <2>1, MeanwhileInv
<1> QED BY <1>2, <1>3, <1>4, <1>5, <1>6 DEF StoreStep

LEMMA StepInv == IInv /\ [Next]_vars => IInv'
<1> SUFFICES ASSUME IInv, [Next]_vars PROVE IInv'
  OBVIOUS
<1>1. CASE ReportStep
  BY <1>1, BeginInv, RunsInv, CountsInv, DetailsInv, ActivityInv, SourceInv, ScanInv, LatestInv,
     EvaluateInv, EndInv DEF ReportStep
<1>2. CASE StoreStep
  BY <1>2, StoreInv
<1>3. CASE UNCHANGED vars
  <2>1. /\ Reading /\ Wrong' = Wrong /\ report' = report /\ Asked' = Asked /\ Answered' = Answered
        /\ \A of : Stuck(of)' = Stuck(of)
    BY <1>3, StoresRest DEF vars, Reading, Asked, Answered
  <2>2. Types' /\ Account' /\ Begun'
    BY <2>1, StoresRest DEF IInv, Types, Account, Begun, Reading
  <2>3. FetchesShow' /\ StatesShow'
    BY <2>1 DEF IInv, FetchesShow, StatesShow, Reading, FetchFlawed, SourceFlawed, ScanFlawed,
       ActivityFlawed
  <2>4. CountsShow(Proposals, report.pending.proposals, report.failed.proposals,
                   "pending", "failed")'
    BY <2>1 DEF IInv, CountsShow, Reading
  <2>5. CountsShow(Events, report.pending.events, report.failed.events,
                   "pendingEvents", "failedEvents")'
    BY <2>1 DEF IInv, CountsShow, Reading
  <2> QED BY <2>2, <2>3, <2>4, <2>5 DEF IInv
<1> QED BY <1>1, <1>2, <1>3 DEF Next

THEOREM Inductive == Spec => []IInv
<1> QED BY InitInv, StepInv, PTL DEF Spec

-------------------------------------------------------------------------------
(* The results.                                                             *)

\* Every variable keeps its type, and a report that is sent has asked for the latest
\* run of every protocol.
THEOREM TypeCorrect == Spec => []TypeOK
<1>1. IInv => TypeOK
  <2> SUFFICES ASSUME IInv PROVE TypeOK
    OBVIOUS
  <2>1. Len(source) <= 1 /\ Len(scanRun) <= 1
    <3>1. ASSUME NEW S, NEW s \in Maybe(S) PROVE Len(s) <= 1
      <4>1. CASE s = << >>
        BY <4>1
      <4>2. ASSUME NEW x \in S, s = <<x>> PROVE Len(s) <= 1
        BY <4>2
      <4> QED BY <4>1, <4>2 DEF Maybe
    <3> QED BY <3>1 DEF IInv, Types
  <2>2. report.at \in DOMAIN Following \cup {"idle", "latest", "send"}
        /\ report.todo \subseteq Protocols
    BY Order DEF IInv, Types, Report, Places, Queries
  <2>3. ASSUME report.at = "send", NEW p \in Protocols
        PROVE  p \notin report.todo /\ (report.latest[p] = << >> =>
                 report.unread \cap {"runs", "latest"} # {} \/ <<"fetch", p>> \in ever)
    <3>1. "runs" \in Asked
      BY <2>3 DEF Asked, Position, Queries, Steps
    <3> QED BY <2>3, <3>1 DEF IInv, FetchesShow, FetchFlawed
  <2> QED BY <2>1, <2>2, <2>3 DEF TypeOK, IInv, Types
<1> QED BY <1>1, Inductive, PTL

\* The report is honest: "OK" only if every query was answered and nothing was wrong
\* all the time but deliveries attempted anew; an alarm only for a reason.
THEOREM Honest == Spec => []ReportIsHonest
<1>1. IInv => ReportIsHonest
  <2> SUFFICES ASSUME IInv, report.at = "send" PROVE ReportIsHonest
    BY DEF ReportIsHonest, Overlooked
  <2>1. /\ Steps \subseteq Asked /\ lasting \subseteq Wrong /\ report \in Report
        /\ report.todo = {}
    BY DEF Asked, Position, Queries, Steps, IInv, Account, Types, FetchesShow
  <2>2. \A q \in Steps : q \notin report.unread => q \in Answered
    BY <2>1 DEF Answered
  <2>3. ASSUME Problems = {}
        PROVE  report.unread = {} /\ lasting \subseteq {<<"delivery", r>> : r \in retried}
    <3>1. report.unread = {}
      BY <2>3 DEF Problems
    <3>2. Steps \subseteq Answered
      BY <2>2, <3>1
    <3>3. \A p \in Protocols : ~FetchFlawed(report.latest[p])
      BY <2>3, <3>1 DEF Problems
    <3>4. /\ ~(Sum(report.pending) > 0) /\ ~(Sum(report.failed) > 0)
          /\ ~ActivityFlawed(report.activity) /\ ~SourceFlawed(report.source)
          /\ ~ScanFlawed(report.scan)
      BY <2>3, <3>1 DEF Problems
    <3>5. /\ report.pending.proposals = 0 /\ report.failed.proposals = 0
          /\ report.pending.events = 0 /\ report.failed.events = 0
      <4>1. /\ report.pending.proposals \in Nat /\ report.failed.proposals \in Nat
            /\ report.pending.events \in Nat /\ report.failed.events \in Nat
        BY <3>2 DEF IInv, CountsShow, Steps
      <4> QED BY <3>4, <4>1 DEF Sum, Unknown
    <3>6. Stuck(Proposals) = {} /\ Stuck(Events) = {}
      BY <3>2, <3>5 DEF IInv, CountsShow, Steps
    <3>7. \A p \in Protocols : <<"fetch", p>> \notin lasting
      BY <3>1, <3>2, <3>3 DEF IInv, FetchesShow, Steps
    <3>8. /\ <<"activity", 0>> \notin lasting /\ <<"source", 0>> \notin lasting
          /\ <<"scan", 0>> \notin lasting
      <4>1. "activity" \in Answered /\ "source" \in Answered /\ "scan" \in Answered
        BY <3>2 DEF Steps
      <4> QED BY <3>4, <4>1 DEF IInv, StatesShow
    <3>9. \A r \in Records : <<"delivery", r>> \in lasting => r \in retried
      BY <3>6 DEF Stuck, Records
    <3> QED BY <2>1, <3>1, <3>7, <3>8, <3>9, WrongThings
  <2>4. ASSUME Problems # {}, report.unread = {}
        PROVE  ever # {}
    <3>1. Steps \subseteq Answered
      BY <2>2, <2>4
    <3>2. CASE \E p \in Protocols : FetchFlawed(report.latest[p])
      BY <2>1, <2>4, <3>2 DEF IInv, FetchesShow, Steps
    <3>3. CASE Sum(report.pending) > 0 \/ Sum(report.failed) > 0
      <4>1. /\ report.pending.proposals \in Nat /\ report.failed.proposals \in Nat
            /\ report.pending.events \in Nat /\ report.failed.events \in Nat
        BY <3>1 DEF IInv, CountsShow, Steps
      <4>2. \/ report.pending.proposals > 0 \/ report.failed.proposals > 0
            \/ report.pending.events > 0 \/ report.failed.events > 0
        BY <3>3, <4>1 DEF Sum, Unknown
      <4> QED BY <3>1, <4>2 DEF IInv, CountsShow, Steps
    <3>4. CASE ActivityFlawed(report.activity) \/ SourceFlawed(report.source)
               \/ ScanFlawed(report.scan)
      BY <3>1, <3>4 DEF IInv, StatesShow, Steps
    <3> QED BY <2>4, <3>2, <3>3, <3>4 DEF Problems
  <2> QED BY <2>3, <2>4 DEF ReportIsHonest, Overlooked
<1> QED BY <1>1, Inductive, PTL
===============================================================================
