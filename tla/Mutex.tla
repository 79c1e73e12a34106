-------------------------------- MODULE Mutex --------------------------------
(***************************************************************************)
(* What a fair lock promises to the calls that ask for it: they are served *)
(* one at a time, each once, and in the order in which they asked.         *)
(***************************************************************************)
EXTENDS Sequences

CONSTANT Calls     \* all the calls that will ever ask for this lock

VARIABLES
  state,     \* where each call stands
  queue      \* the calls that have asked and not left, the oldest first

vars == <<state, queue>>

TypeOK ==
  /\ state \in [Calls -> {"new", "waiting", "inside", "left"}]
  /\ queue \in Seq(Calls)

Init == state = [c \in Calls |-> "new"] /\ queue = << >>

Ask(c) ==
  /\ state[c] = "new"
  /\ state' = [state EXCEPT ![c] = "waiting"]
  /\ queue' = Append(queue, c)

\* Only the head of the queue is served, and it stays there while it is inside.
Grant(c) ==
  /\ state[c] = "waiting" /\ queue # << >> /\ c = Head(queue)
  /\ state' = [state EXCEPT ![c] = "inside"]
  /\ UNCHANGED queue

Leave(c) ==
  /\ state[c] = "inside" /\ queue # << >> /\ c = Head(queue)
  /\ state' = [state EXCEPT ![c] = "left"]
  /\ queue' = Tail(queue)

Next == \E c \in Calls : Ask(c) \/ Grant(c) \/ Leave(c)

Spec == Init /\ [][Next]_vars
==============================================================================
