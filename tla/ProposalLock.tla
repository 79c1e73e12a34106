----------------------------- MODULE ProposalLock -----------------------------
(***************************************************************************)
(* withProposalLock of ProposalNotificationDispatcher: the lock that keeps *)
(* the jobs of one process apart on one record.  A Map holds, per record,  *)
(* the promise of the last call; a call replaces it with its own promise,  *)
(* awaits the one it found and resolves its own when its action has ended, *)
(* normally or with an exception.                                          *)
(*                                                                         *)
(* The module follows the entry of one record: the Map keeps records apart.*)
(***************************************************************************)
EXTENDS Integers

CONSTANTS
  Calls,     \* the calls of withProposalLock for this record
  NoCall     \* no promise: the Map has no entry

ASSUME NoCallAssumption == NoCall \notin Calls

VARIABLES
  pc,         \* where each call stands
  tail,       \* proposalLocks.get(id), named by the call that made the promise
  previous,   \* the promise each call awaits
  ticket,     \* history: the position of each call among the calls so far
  issued,     \* history: how many calls there were
  served      \* history: how many calls have left

vars == <<pc, tail, previous, ticket, issued, served>>

Init ==
  /\ pc = [c \in Calls |-> "new"]
  /\ tail = NoCall
  /\ previous = [c \in Calls |-> NoCall]
  /\ ticket = [c \in Calls |-> 0]
  /\ issued = 0 /\ served = 0

(* Slips that a change of withProposalLock could make.                      *)

\* The promise that was found is not awaited.
CallWithoutAwait(c) ==
  /\ pc[c] = "new"
  /\ tail' = c
  /\ pc' = [pc EXCEPT ![c] = "waiting"]
  /\ issued' = issued + 1
  /\ ticket' = [ticket EXCEPT ![c] = issued + 1]
  /\ UNCHANGED <<previous, served>>

\* The entry is replaced before it is read.
CallSetsFirst(c) ==
  /\ pc[c] = "new"
  /\ tail' = c
  /\ previous' = [previous EXCEPT ![c] = c]
  /\ pc' = [pc EXCEPT ![c] = "waiting"]
  /\ issued' = issued + 1
  /\ ticket' = [ticket EXCEPT ![c] = issued + 1]
  /\ UNCHANGED served

\* A call does not await its predecessor but tries again whenever the lock is free.
EnterWhenFree(c) ==
  /\ pc[c] = "waiting" /\ \A d \in Calls : pc[d] # "inside"
  /\ pc' = [pc EXCEPT ![c] = "inside"]
  /\ UNCHANGED <<tail, previous, ticket, issued, served>>

\* The entry is deleted although a later call has replaced it.
LeaveAlwaysDeletes(c) ==
  /\ pc[c] = "inside"
  /\ pc' = [pc EXCEPT ![c] = "left"]
  /\ tail' = NoCall
  /\ served' = served + 1
  /\ UNCHANGED <<previous, ticket, issued>>

\* The entry is never deleted.
LeaveNeverDeletes(c) ==
  /\ pc[c] = "inside"
  /\ pc' = [pc EXCEPT ![c] = "left"]
  /\ served' = served + 1
  /\ UNCHANGED <<tail, previous, ticket, issued>>

\* Without the finally block: an exception ends the call but not its promise.
LeaveUnreleased(c) ==
  /\ pc[c] = "inside"
  /\ pc' = [pc EXCEPT ![c] = "thrown"]
  /\ UNCHANGED <<tail, previous, ticket, issued, served>>

-------------------------------------------------------------------------------
\* The synchronous part of a call, up to its first await: get, then set.
Call(c) ==
  /\ pc[c] = "new"
  /\ previous' = [previous EXCEPT ![c] = tail]
  /\ tail' = c
  /\ pc' = [pc EXCEPT ![c] = "waiting"]
  /\ issued' = issued + 1
  /\ ticket' = [ticket EXCEPT ![c] = issued + 1]
  /\ UNCHANGED served

\* Promise.resolve(), awaited if the Map had no entry, and the promises of the
\* calls that have left, resolved by release().
ResolvedPromises == {NoCall} \cup {c \in Calls : pc[c] = "left"}

\* `await previous` returns and the action starts.
Enter(c) ==
  /\ pc[c] = "waiting" /\ previous[c] \in ResolvedPromises
  /\ pc' = [pc EXCEPT ![c] = "inside"]
  /\ UNCHANGED <<tail, previous, ticket, issued, served>>

\* The finally block: release(), and the entry goes if no later call replaced it.
Leave(c) ==
  /\ pc[c] = "inside"
  /\ pc' = [pc EXCEPT ![c] = "left"]
  /\ tail' = IF tail = c THEN NoCall ELSE tail
  /\ served' = served + 1
  /\ UNCHANGED <<previous, ticket, issued>>

Next == \E c \in Calls : Call(c) \/ Enter(c) \/ Leave(c)

Spec == Init /\ [][Next]_vars

\* Actions end: their awaits are store transactions and Telegram requests with
\* a timeout, and the finally block runs either way.  Nothing obliges a caller
\* to call.
FairSpec == Spec /\ \A c \in Calls : WF_vars(Enter(c)) /\ WF_vars(Leave(c))

-------------------------------------------------------------------------------
Present(c) == pc[c] \in {"waiting", "inside"}

TypeOK ==
  /\ pc \in [Calls -> {"new", "waiting", "inside", "left"}]
  /\ tail \in Calls \cup {NoCall}
  /\ previous \in [Calls -> Calls \cup {NoCall}]
  /\ ticket \in [Calls -> Nat]
  /\ issued \in Nat /\ served \in Nat

\* No two actions run on the same record at once, although the Map forgets a
\* call as soon as it has left as the last one.
MutualExclusion == \A c, d \in Calls : pc[c] = "inside" /\ pc[d] = "inside" => c = d

\* Actions run in the order of the calls: no call overtakes an earlier one.
FirstComeFirstServed ==
  \A c, d \in Calls : ticket[c] < ticket[d] /\ pc[d] \in {"inside", "left"} => 
    pc[c] \in {"new", "left"}

\* The Map has an entry exactly while some call is waiting or inside: it does not
\* grow with the number of records ever notified about.
NoLeakedEntry == tail = NoCall <=> \A c \in Calls : ~Present(c)

\* Every call gets its turn.
EveryCallEnters == \A c \in Calls : pc[c] = "waiting" ~> pc[c] = "inside"

\* The calls that are waiting or inside, in the order of their tickets.
Queue == [i \in 1..(issued - served) |-> CHOOSE c \in Calls : ticket[c] = served + i]

\* The promise chain, in which no call knows of any but its predecessor, serves
\* the calls as one queue would: one at a time and in the order of the calls.
Lock == INSTANCE Mutex WITH state <- pc, queue <- Queue
ImplementsMutex == Lock!Spec
===============================================================================
