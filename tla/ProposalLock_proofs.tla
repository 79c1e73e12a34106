------------------------- MODULE ProposalLock_proofs -------------------------
(***************************************************************************)
(* The promise chain excludes, serves in order, forgets its Map entry and  *)
(* implements Mutex, for any set of calls.                                 *)
(*                                                                         *)
(* The argument: number the calls.  Those that have left are exactly the   *)
(* first `served`, a call awaits its predecessor or, if the Map was empty, *)
(* is the first that has not left; so only call served + 1 can be inside.  *)
(***************************************************************************)
EXTENDS ProposalLock, Sequences, TLAPS

\* The numbering, and what the chain and the Map entry are in terms of it.
Numbering ==
  /\ \A c \in Calls : pc[c] # "new" => ticket[c] \in 1..issued
  /\ \A c, d \in Calls : pc[c] # "new" /\ pc[d] # "new" /\ ticket[c] = ticket[d] => c = d
  /\ \A c \in Calls : pc[c] = "new" => ticket[c] = 0
  /\ \A c \in Calls : pc[c] = "left" <=> ticket[c] \in 1..served

Chain ==
  /\ \A c \in Calls : Present(c) /\ previous[c] = NoCall => ticket[c] = served + 1
  /\ \A c \in Calls : Present(c) /\ previous[c] # NoCall =>
       pc[previous[c]] # "new" /\ ticket[c] = ticket[previous[c]] + 1
  /\ \A c \in Calls : pc[c] = "inside" => ticket[c] = served + 1

Entry ==
  /\ tail = NoCall => served = issued
  /\ tail # NoCall => Present(tail) /\ ticket[tail] = issued

\* No number is skipped, so the queue has a call at every position.
Gapless == \A n \in 1..issued : \E c \in Calls : ticket[c] = n

IInv == TypeOK /\ served <= issued /\ Numbering /\ Gapless /\ Chain /\ Entry

\* The induction: it holds at first and every call, entry and exit keeps it.
LEMMA InitIInv == Init => IInv
  BY NoCallAssumption DEF Init, IInv, TypeOK, Numbering, Gapless, Chain, Entry, Present

LEMMA CallKeeps == ASSUME IInv, NEW c \in Calls, Call(c) PROVE IInv'
<1> USE NoCallAssumption DEF Present
<1>1. TypeOK' /\ (served <= issued)'
  BY DEF Call, IInv, TypeOK
<1>2. Numbering'
  BY DEF Call, IInv, TypeOK, Numbering
<1>3. Chain'
  BY DEF Call, IInv, TypeOK, Numbering, Chain, Entry
<1>4. Entry'
  BY DEF Call, IInv, TypeOK, Numbering, Entry
<1>5. Gapless'
  <2>1. ticket[c] = 0 /\ c \in DOMAIN ticket /\ issued \in Nat
    BY DEF Call, IInv, TypeOK, Numbering
  <2>2. ticket' = [ticket EXCEPT ![c] = issued + 1] /\ issued' = issued + 1
    BY DEF Call
  <2>3. \A n \in 1..issued : \E d \in Calls : ticket'[d] = n
    BY <2>1, <2>2 DEF IInv, TypeOK, Gapless
  <2> QED BY <2>1, <2>2, <2>3 DEF Gapless
<1> QED BY <1>1, <1>2, <1>3, <1>4, <1>5 DEF IInv

LEMMA EnterKeeps == ASSUME IInv, NEW c \in Calls, Enter(c) PROVE IInv'
<1> USE NoCallAssumption DEF Present, ResolvedPromises
<1>1. TypeOK' /\ (served <= issued)'
  BY DEF Enter, IInv, TypeOK
<1>2. Numbering'
  BY DEF Enter, IInv, TypeOK, Numbering
<1>3. ticket[c] = served + 1
  BY DEF Enter, IInv, TypeOK, Numbering, Chain
<1>4. Chain'
  BY <1>3 DEF Enter, IInv, TypeOK, Numbering, Chain
<1>5. Entry'
  BY DEF Enter, IInv, TypeOK, Entry
<1>6. Gapless'
  BY DEF Enter, IInv, Gapless
<1> QED BY <1>1, <1>2, <1>4, <1>5, <1>6 DEF IInv

LEMMA LeaveKeeps == ASSUME IInv, NEW c \in Calls, Leave(c) PROVE IInv'
<1> USE NoCallAssumption DEF Present
<1>1. ticket[c] = served + 1 /\ ticket[c] \in 1..issued
  BY DEF Leave, IInv, TypeOK, Numbering, Chain
<1>2. TypeOK' /\ (served <= issued)'
  BY <1>1 DEF Leave, IInv, TypeOK
<1>3. Numbering'
  BY <1>1 DEF Leave, IInv, TypeOK, Numbering
<1>4. Chain'
  BY <1>1 DEF Leave, IInv, TypeOK, Numbering, Chain
<1>5. Entry'
  BY <1>1 DEF Leave, IInv, TypeOK, Numbering, Entry
<1>6. Gapless'
  BY DEF Leave, IInv, Gapless
<1> QED BY <1>2, <1>3, <1>4, <1>5, <1>6 DEF IInv

\* The inductive invariant holds throughout.
THEOREM Invariant == Spec => []IInv
<1>1. Init => IInv
  BY InitIInv
<1>2. IInv /\ [Next]_vars => IInv'
  <2> SUFFICES ASSUME IInv, [Next]_vars PROVE IInv'
    OBVIOUS
  <2>1. CASE UNCHANGED vars
    BY <2>1 DEF vars, IInv, TypeOK, Numbering, Gapless, Chain, Entry, Present
  <2>2. CASE Next
    BY <2>2, CallKeeps, EnterKeeps, LeaveKeeps DEF Next
  <2> QED BY <2>1, <2>2
<1> QED BY <1>1, <1>2, PTL DEF Spec

\* The variables of the lock keep their types.
THEOREM TypeCorrect == Spec => []TypeOK
<1>1. IInv => TypeOK
  BY DEF IInv
<1> QED BY <1>1, Invariant, PTL

\* No two actions run on one record at once.
THEOREM Exclusion == Spec => []MutualExclusion
<1>1. IInv => MutualExclusion
  BY DEF IInv, TypeOK, Numbering, Chain, MutualExclusion
<1> QED BY <1>1, Invariant, PTL

\* No call overtakes an earlier one.
THEOREM Order == Spec => []FirstComeFirstServed
<1>1. IInv => FirstComeFirstServed
  BY DEF IInv, TypeOK, Numbering, Chain, FirstComeFirstServed
<1> QED BY <1>1, Invariant, PTL

\* The Map has an entry exactly while some call is there.
THEOREM Tidy == Spec => []NoLeakedEntry
<1>1. IInv => NoLeakedEntry
  BY NoCallAssumption DEF IInv, TypeOK, Numbering, Chain, Entry, Present, NoLeakedEntry
<1> QED BY <1>1, Invariant, PTL

\* What makes a function the sequence with c appended, or without its head.
LEMMA AppendIs ==
  ASSUME NEW S, NEW q \in Seq(S), NEW c \in S, NEW g \in [1..(Len(q) + 1) -> S],
         \A i \in 1..Len(q) : g[i] = q[i], g[Len(q) + 1] = c
  PROVE  g = Append(q, c)
<1>1. g \in Seq(S) /\ Len(g) = Len(q) + 1
  OBVIOUS
<1>2. Append(q, c) \in Seq(S) /\ Len(Append(q, c)) = Len(q) + 1
  OBVIOUS
<1>3. \A i \in 1..(Len(q) + 1) : g[i] = Append(q, c)[i]
  OBVIOUS
<1> QED BY <1>1, <1>2, <1>3

LEMMA TailIs ==
  ASSUME NEW S, NEW q \in Seq(S), q # << >>, NEW g \in [1..(Len(q) - 1) -> S],
         \A i \in 1..(Len(q) - 1) : g[i] = q[i + 1]
  PROVE  g = Tail(q)
<1>1. g \in Seq(S) /\ Len(g) = Len(q) - 1
  OBVIOUS
<1>2. Tail(q) \in Seq(S) /\ Len(Tail(q)) = Len(q) - 1
  OBVIOUS
<1>3. \A i \in 1..(Len(q) - 1) : g[i] = Tail(q)[i]
  OBVIOUS
<1> QED BY <1>1, <1>2, <1>3

\* The queue of the mapping: every call that is there stands at its ticket's
\* distance from the number served, and nobody else stands anywhere.
LEMMA QueueIs ==
  ASSUME IInv
  PROVE  /\ Queue \in Seq(Calls) /\ Len(Queue) = issued - served
         /\ \A c \in Calls : \A i \in 1..(issued - served) :
              ticket[c] = served + i => Queue[i] = c
         /\ \A i \in 1..(issued - served) : ticket[Queue[i]] = served + i
<1>1. issued - served \in Nat /\ issued \in Nat /\ served \in Nat
  BY DEF IInv, TypeOK
<1>2. ASSUME NEW i \in 1..(issued - served)
      PROVE  \E c \in Calls : Queue[i] = c /\ ticket[c] = served + i
  <2>1. served + i \in 1..issued
    BY <1>1
  <2>2. PICK c \in Calls : ticket[c] = served + i
    BY <2>1 DEF IInv, Gapless
  <2>3. Queue[i] = CHOOSE d \in Calls : ticket[d] = served + i
    BY DEF Queue
  <2> QED BY <2>2, <2>3
<1>3. ASSUME NEW c \in Calls, NEW i \in 1..(issued - served), ticket[c] = served + i
      PROVE  Queue[i] = c
  <2>1. PICK d \in Calls : Queue[i] = d /\ ticket[d] = served + i
    BY <1>2
  <2>2. pc[c] # "new" /\ pc[d] # "new"
    BY <1>1, <1>3, <2>1 DEF IInv, Numbering
  <2> QED BY <1>3, <2>1, <2>2 DEF IInv, Numbering
<1>4. \A i \in 1..(issued - served) : (CHOOSE d \in Calls : ticket[d] = served + i) \in Calls
  BY <1>2 DEF Queue
<1>5. Queue \in [1..(issued - served) -> Calls]
  BY <1>4 DEF Queue
<1>6. Queue \in Seq(Calls) /\ Len(Queue) = issued - served
  BY <1>1, <1>5
<1> QED BY <1>2, <1>3, <1>6

\* Every behaviour of the promise chain is one of the abstract lock, which serves
\* in the order of the calls.
THEOREM Refinement == Spec => ImplementsMutex
<1>1. Init => Lock!Init
  <2> SUFFICES ASSUME Init PROVE Lock!Init
    OBVIOUS
  <2>1. Queue = << >>
    BY DEF Init, Queue
  <2> QED BY <2>1 DEF Init, Lock!Init
<1>2. IInv /\ IInv' /\ [Next]_vars => [Lock!Next]_(Lock!vars)
  <2> SUFFICES ASSUME IInv, IInv', [Next]_vars PROVE [Lock!Next]_(Lock!vars)
    OBVIOUS
  <2> DEFINE q == Queue
             n == issued - served
  <2>1. /\ q \in Seq(Calls) /\ Len(q) = n /\ n \in Nat
        /\ \A c \in Calls : \A i \in 1..n : ticket[c] = served + i => q[i] = c
        /\ \A i \in 1..n : ticket[q[i]] = served + i
    BY QueueIs DEF IInv, TypeOK
  <2>2. CASE UNCHANGED vars
    BY <2>2 DEF vars, Lock!vars, Queue
  <2>3. ASSUME NEW c \in Calls, Call(c) PROVE Lock!Ask(c)
    <3>1. /\ ticket[c] = 0 /\ ticket' = [ticket EXCEPT ![c] = issued + 1]
          /\ issued' = issued + 1 /\ served' = served
          /\ DOMAIN ticket = Calls /\ issued \in Nat /\ served \in Nat
      BY <2>3 DEF Call, IInv, TypeOK, Numbering
    <3>2. Queue' = [i \in 1..(n + 1) |-> CHOOSE d \in Calls : ticket'[d] = served + i]
      BY <3>1 DEF Queue
    <3>3. ASSUME NEW i \in 1..n
          PROVE  (CHOOSE d \in Calls : ticket'[d] = served + i) = q[i]
      <4>1. PICK d \in Calls : d = q[i] /\ ticket[d] = served + i
        BY <2>1, <3>3
      <4>2. ticket'[d] = served + i /\ d # c
        BY <3>1, <4>1
      <4>3. \A e \in Calls : ticket'[e] = served + i => e = d
        BY <2>1, <3>1, <4>1, <3>3 DEF IInv, Numbering
      <4> QED BY <4>1, <4>2, <4>3
    <3>4. (CHOOSE d \in Calls : ticket'[d] = served + (n + 1)) = c
      <4>1. ticket'[c] = served + (n + 1)
        BY <3>1
      <4>2. \A e \in Calls : ticket'[e] = served + (n + 1) => e = c
        BY <3>1 DEF IInv, TypeOK, Numbering
      <4> QED BY <4>1, <4>2
    <3>5. Queue' = Append(q, c)
      <4> DEFINE g == [i \in 1..(n + 1) |-> CHOOSE d \in Calls : ticket'[d] = served + i]
      <4>1. \A i \in 1..(n + 1) : i \in 1..n \/ i = n + 1
        BY <2>1
      <4>2. \A i \in 1..n : q[i] \in Calls
        BY <2>1
      <4>3. g \in [1..(n + 1) -> Calls] /\ g[n + 1] = c /\ \A i \in 1..n : g[i] = q[i]
        <5>1. n \in Nat /\ n + 1 \in 1..(n + 1) /\ \A i \in 1..n : i \in 1..(n + 1)
          BY <2>1
        <5>2. g[n + 1] = c
          BY <3>4, <5>1
        <5>3. \A i \in 1..n : g[i] = q[i]
          BY <3>3, <5>1
        <5>4. \A i \in 1..(n + 1) : g[i] \in Calls
          BY <4>1, <4>2, <5>2, <5>3
        <5>5. g = [i \in 1..(n + 1) |-> g[i]]
          OBVIOUS
        <5> HIDE DEF g, q, n
        <5> QED BY <5>2, <5>3, <5>4, <5>5
      <4>4. Queue' = g
        BY <3>2
      <4> HIDE DEF g, q, n
      <4>5. g = Append(q, c)
        BY <2>1, <4>3, AppendIs
      <4> QED BY <4>4, <4>5
    <3>6. q = Queue
      OBVIOUS
    <3> QED BY <2>3, <3>5, <3>6 DEF Call, Lock!Ask
  <2>4. ASSUME NEW c \in Calls, Enter(c) PROVE Lock!Grant(c)
    <3>1. ticket[c] = served + 1 /\ n > 0
      BY <2>4, NoCallAssumption
         DEF Enter, IInv, TypeOK, Numbering, Chain, Present, ResolvedPromises
    <3>2. q # << >> /\ c = Head(q)
      BY <2>1, <3>1
    <3>3. Queue' = Queue
      BY <2>4 DEF Enter, Queue
    <3> QED BY <2>4, <3>2, <3>3 DEF Enter, Lock!Grant
  <2>5. ASSUME NEW c \in Calls, Leave(c) PROVE Lock!Leave(c)
    <3>1. ticket[c] = served + 1 /\ n > 0
      BY <2>5 DEF Leave, IInv, TypeOK, Numbering, Chain
    <3>2. q # << >> /\ c = Head(q)
      BY <2>1, <3>1
    <3>3. /\ ticket' = ticket /\ issued' = issued /\ served' = served + 1
          /\ issued \in Nat /\ served \in Nat
      BY <2>5 DEF Leave, IInv, TypeOK
    <3>4. Queue' = [i \in 1..(n - 1) |-> CHOOSE d \in Calls : ticket[d] = (served + 1) + i]
      BY <3>3 DEF Queue
    <3>5. ASSUME NEW i \in 1..(n - 1)
          PROVE  (CHOOSE d \in Calls : ticket[d] = (served + 1) + i) = q[i + 1]
      <4>1. i + 1 \in 1..n /\ (served + 1) + i = served + (i + 1)
        BY <3>3, <3>5
      <4> QED BY <4>1 DEF Queue
    <3>6. Queue' = Tail(q)
      <4> DEFINE g == [i \in 1..(n - 1) |-> CHOOSE d \in Calls : ticket[d] = (served + 1) + i]
      <4>1. \A i \in 1..(n - 1) : i + 1 \in 1..n
        BY <2>1
      <4>2. \A i \in 1..n : q[i] \in Calls
        BY <2>1
      <4>3. g \in [1..(n - 1) -> Calls] /\ \A i \in 1..(n - 1) : g[i] = q[i + 1]
        <5> HIDE DEF q, n
        <5> QED BY <2>1, <3>5, <4>1, <4>2
      <4>4. Queue' = g
        BY <3>4
      <4> HIDE DEF g, q, n
      <4>5. g = Tail(q)
        BY <2>1, <3>2, <4>3, TailIs
      <4> QED BY <4>4, <4>5
    <3>7. q = Queue
      OBVIOUS
    <3> QED BY <2>5, <3>2, <3>6, <3>7 DEF Leave, Lock!Leave
  <2> QED BY <2>2, <2>3, <2>4, <2>5 DEF Next, Lock!Next
<1> QED BY <1>1, <1>2, Invariant, PTL DEF Spec, ImplementsMutex, Lock!Spec
===============================================================================
