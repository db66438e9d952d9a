------------------------------- MODULE Fifo -------------------------------
(***************************************************************************)
(* What Bounded_channel promises its callers: a bounded first-in first-out *)
(* queue that is shared by several threads.  A value goes to the tail in   *)
(* one step, and the thread that takes the head has it from that step on.  *)
(***************************************************************************)
EXTENDS Naturals, Sequences

CONSTANTS Threads,   \* the threads that use the queue
          Values,    \* what it can hold
          Capacity   \* how many of them

VARIABLES queue,     \* the values, the head first
          taken      \* taken[t]: the value thread t dequeued last

Init ==
  /\ queue \in Seq(Values)
  /\ Len(queue) <= Capacity
  /\ taken \in [Threads -> Values]

Enqueue(v) ==
  /\ Len(queue) < Capacity
  /\ queue' = Append(queue, v)
  /\ UNCHANGED taken

Dequeue(t) ==
  /\ queue # <<>>
  /\ taken' = [taken EXCEPT ![t] = Head(queue)]
  /\ queue' = Tail(queue)

Next == (\E v \in Values : Enqueue(v)) \/ (\E t \in Threads : Dequeue(t))

Spec == Init /\ [][Next]_<<queue, taken>>
=============================================================================
