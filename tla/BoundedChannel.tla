--------------------------- MODULE BoundedChannel ---------------------------
(***************************************************************************)
(* Bounded_channel (include/ut0mpmcbq.h): the lock-free ring that several  *)
(* producers and consumers share.  Every access to an atomic is a step of  *)
(* its own, and so is the plain copy of the data of a cell.  A position is *)
(* claimed by moving m_epos or m_dpos; the sequence number of the cell     *)
(* says whose turn the cell is: position p of a producer when it is p,     *)
(* position p of a consumer when it is p + 1.                              *)
(*                                                                         *)
(* The ring starts out full, as the constructor of aio::Handler leaves it. *)
(***************************************************************************)
EXTENDS Integers, Sequences

CONSTANTS Threads,   \* the callers
          N,         \* the number of cells
          MaxPos     \* bound of the model: positions handed out

ASSUME ThreadsAssumption == Threads # {}
ASSUME NAssumption == N \in Nat \ {0, 1}      \* a power of 2 in the code
ASSUME MaxPosAssumption == MaxPos \in Nat

VARIABLES m_epos,    \* the next position to enqueue at
          m_dpos,    \* the next position to dequeue from
          m_pos,     \* m_pos[c]: the sequence number of cell c
          m_data,    \* m_data[c]: what is in cell c
          op,        \* op[t]: where t is in enqueue() or dequeue()
          pos,       \* pos[t]: the local variable pos
          arg,       \* arg[t]: the argument of enqueue
          data       \* data[t]: the result of dequeue

channelVars == <<m_epos, m_dpos, m_pos, m_data, op, pos, arg, data>>

Cells  == 0 .. N - 1
Values == Cells

(* pos & m_capacity, for a size that is a power of two. *)
CellOf(p) == p % N

EnqueueOps == {"e_seq", "e_cas", "e_load", "e_copy", "e_publish"}
DequeueOps == {"d_seq", "d_cas", "d_load", "d_copy", "d_release"}

ChannelInit ==
  /\ m_epos = N /\ m_dpos = 0
  /\ m_pos = [c \in Cells |-> c + 1]
  /\ m_data = [c \in Cells |-> c]
  /\ op = [t \in Threads |-> "idle"]
  /\ pos = [t \in Threads |-> 0]
  /\ arg = [t \in Threads |-> 0]
  /\ data = [t \in Threads |-> 0]

Goto(t, where) == op' = [op EXCEPT ![t] = where]

(* The local variables of a call are gone when it returns. *)
Return(t) == Goto(t, "idle") /\ pos' = [pos EXCEPT ![t] = 0]

-----------------------------------------------------------------------------
(* bool enqueue(T const &data): pos = m_epos.load(). *)
BeginEnqueue(t, v) ==
  /\ op[t] = "idle" /\ m_epos < MaxPos
  /\ arg' = [arg EXCEPT ![t] = v]
  /\ pos' = [pos EXCEPT ![t] = m_epos]
  /\ Goto(t, "e_seq")
  /\ UNCHANGED <<m_epos, m_dpos, m_pos, m_data, data>>

(* The acquire load of the cell's number and the branch on diff, but for
   the branch that returns false. *)
EnqueueLoadSeq(t) ==
  /\ op[t] = "e_seq"
  /\ m_pos[CellOf(pos[t])] >= pos[t]
  /\ Goto(t, IF m_pos[CellOf(pos[t])] = pos[t] THEN "e_cas" ELSE "e_load")
  /\ UNCHANGED <<m_epos, m_dpos, m_pos, m_data, pos, arg, data>>

(* diff < 0: return false. *)
EnqueueFull(t) ==
  /\ op[t] = "e_seq"
  /\ m_pos[CellOf(pos[t])] < pos[t]
  /\ Return(t) /\ arg' = [arg EXCEPT ![t] = 0]
  /\ UNCHANGED <<m_epos, m_dpos, m_pos, m_data, data>>

(* compare_exchange_weak succeeds. *)
EnqueueClaim(t) ==
  /\ op[t] = "e_cas" /\ m_epos = pos[t]
  /\ m_epos' = m_epos + 1
  /\ Goto(t, "e_copy")
  /\ UNCHANGED <<m_dpos, m_pos, m_data, pos, arg, data>>

(* compare_exchange_weak fails, perhaps spuriously, and loads m_epos; or
   the branch diff > 0 loads it. *)
EnqueueReload(t) ==
  /\ op[t] \in {"e_cas", "e_load"}
  /\ pos' = [pos EXCEPT ![t] = m_epos]
  /\ Goto(t, "e_seq")
  /\ UNCHANGED <<m_epos, m_dpos, m_pos, m_data, arg, data>>

(* cell->m_data = data. *)
EnqueueCopy(t) ==
  /\ op[t] = "e_copy"
  /\ m_data' = [m_data EXCEPT ![CellOf(pos[t])] = arg[t]]
  /\ Goto(t, "e_publish")
  /\ UNCHANGED <<m_epos, m_dpos, m_pos, pos, arg, data>>

(* The release store of pos + 1; return true. *)
EnqueuePublish(t) ==
  /\ op[t] = "e_publish"
  /\ m_pos' = [m_pos EXCEPT ![CellOf(pos[t])] = pos[t] + 1]
  /\ Return(t) /\ arg' = [arg EXCEPT ![t] = 0]
  /\ UNCHANGED <<m_epos, m_dpos, m_data, data>>

-----------------------------------------------------------------------------
(* bool dequeue(T &data): pos = m_dpos.load(). *)
BeginDequeue(t) ==
  /\ op[t] = "idle"
  /\ pos' = [pos EXCEPT ![t] = m_dpos]
  /\ Goto(t, "d_seq")
  /\ UNCHANGED <<m_epos, m_dpos, m_pos, m_data, arg, data>>

DequeueLoadSeq(t) ==
  /\ op[t] = "d_seq"
  /\ m_pos[CellOf(pos[t])] >= pos[t] + 1
  /\ Goto(t, IF m_pos[CellOf(pos[t])] = pos[t] + 1 THEN "d_cas" ELSE "d_load")
  /\ UNCHANGED <<m_epos, m_dpos, m_pos, m_data, pos, arg, data>>

\* (Mutant: the data is read although the cell holds none.)
DequeueEmpty_copies(t) ==
  /\ op[t] = "d_seq"
  /\ m_pos[CellOf(pos[t])] < pos[t] + 1
  /\ data' = [data EXCEPT ![t] = m_data[CellOf(pos[t])]]
  /\ Return(t)
  /\ UNCHANGED <<m_epos, m_dpos, m_pos, m_data, arg>>

(* diff < 0: return false. *)
DequeueEmpty(t) ==
  /\ op[t] = "d_seq"
  /\ m_pos[CellOf(pos[t])] < pos[t] + 1
  /\ Return(t)
  /\ UNCHANGED <<m_epos, m_dpos, m_pos, m_data, arg, data>>

\* (Mutant: the position is taken without comparing m_dpos.)
DequeueClaim_unchecked(t) ==
  /\ op[t] = "d_cas"
  /\ m_dpos' = pos[t] + 1
  /\ Goto(t, "d_copy")
  /\ UNCHANGED <<m_epos, m_pos, m_data, pos, arg, data>>

DequeueClaim(t) ==
  /\ op[t] = "d_cas" /\ m_dpos = pos[t]
  /\ m_dpos' = m_dpos + 1
  /\ Goto(t, "d_copy")
  /\ UNCHANGED <<m_epos, m_pos, m_data, pos, arg, data>>

DequeueReload(t) ==
  /\ op[t] \in {"d_cas", "d_load"}
  /\ pos' = [pos EXCEPT ![t] = m_dpos]
  /\ Goto(t, "d_seq")
  /\ UNCHANGED <<m_epos, m_dpos, m_pos, m_data, arg, data>>

(* data = cell->m_data. *)
DequeueCopy(t) ==
  /\ op[t] = "d_copy"
  /\ data' = [data EXCEPT ![t] = m_data[CellOf(pos[t])]]
  /\ Goto(t, "d_release")
  /\ UNCHANGED <<m_epos, m_dpos, m_pos, m_data, pos, arg>>

(* The release store of pos + m_capacity + 1, where m_capacity = N - 1. *)
DequeueRelease(t) ==
  /\ op[t] = "d_release"
  /\ m_pos' = [m_pos EXCEPT ![CellOf(pos[t])] = pos[t] + N]
  /\ Return(t)
  /\ UNCHANGED <<m_epos, m_dpos, m_data, arg, data>>

-----------------------------------------------------------------------------
(* The steps inside a call, neither its first nor the one that returns. *)
InsideCall(t) ==
  \/ EnqueueLoadSeq(t) \/ EnqueueClaim(t) \/ EnqueueReload(t) \/ EnqueueCopy(t)
  \/ DequeueLoadSeq(t) \/ DequeueClaim(t) \/ DequeueReload(t) \/ DequeueCopy(t)

ChannelStep(t) ==
  \/ \E v \in Values : BeginEnqueue(t, v)
  \/ BeginDequeue(t)
  \/ InsideCall(t)
  \/ EnqueueFull(t) \/ EnqueuePublish(t)
  \/ DequeueEmpty(t) \/ DequeueRelease(t)

ChannelNext == \E t \in Threads : ChannelStep(t)

ChannelSpec == ChannelInit /\ [][ChannelNext]_channelVars

-----------------------------------------------------------------------------
(* A position between m_dpos and m_epos is claimed: its value is in its cell
   once it was copied there, and until then with the thread that claimed it. *)
Claimer(p) ==
  CHOOSE t \in Threads : op[t] \in {"e_copy", "e_publish"} /\ pos[t] = p

ValueAt(p) ==
  IF m_pos[CellOf(p)] = p + 1 THEN m_data[CellOf(p)] ELSE arg[Claimer(p)]

Queued == [p \in m_dpos .. m_epos - 1 |-> ValueAt(p)]

AbstractQueue == [i \in 1 .. m_epos - m_dpos |-> Queued[m_dpos + i - 1]]

AbstractTaken ==
  [t \in Threads |-> IF op[t] = "d_copy" THEN m_data[CellOf(pos[t])] ELSE data[t]]

Abstract == INSTANCE Fifo
  WITH Capacity <- N, queue <- AbstractQueue, taken <- AbstractTaken

(* The channel is a bounded queue: what is enqueued first is dequeued first,
   by one thread, and never more than N values are in it, whatever the order
   in which producers and consumers claim, copy and publish their cells. *)
ChannelIsFifo == Abstract!Spec

-----------------------------------------------------------------------------
(* The inductive invariant behind ChannelIsFifo. *)

ChannelTypeOK ==
  /\ m_epos \in Nat /\ m_dpos \in Nat
  /\ m_pos \in [Cells -> Nat]
  /\ m_data \in [Cells -> Values]
  /\ op \in [Threads -> {"idle"} \cup EnqueueOps \cup DequeueOps]
  /\ pos \in [Threads -> Nat]
  /\ arg \in [Threads -> Values]
  /\ data \in [Threads -> Values]

Producing(t) == op[t] \in {"e_copy", "e_publish"}
Consuming(t) == op[t] \in {"d_copy", "d_release"}

(* Cell c is the turn of the producer of position p, which the consumer of
   p - N has left; if p was claimed its producer is at work. *)
FreeFor(c, p) ==
  /\ m_pos[c] = p
  /\ m_dpos <= p /\ p < m_dpos + N
  /\ p < m_epos => \E t \in Threads : Producing(t) /\ pos[t] = p

(* Cell c is the turn of the consumer of position p, whose producer has left. *)
FullAt(c, p) ==
  /\ m_pos[c] = p + 1
  /\ p < m_epos /\ m_epos <= p + N

CellInv(c) == \E p \in Nat : CellOf(p) = c /\ (FreeFor(c, p) \/ FullAt(c, p))

(* What a thread knows at each step: a number that it read has only grown
   since, and the cell of a position it has claimed is its own. *)
CallInv(t) ==
  /\ op[t] = "e_cas" => m_pos[CellOf(pos[t])] >= pos[t]
  /\ op[t] = "d_cas" => m_pos[CellOf(pos[t])] >= pos[t] + 1
  /\ Producing(t) => m_pos[CellOf(pos[t])] = pos[t] /\ pos[t] < m_epos
  /\ op[t] = "e_publish" => m_data[CellOf(pos[t])] = arg[t]
  /\ Consuming(t) => m_pos[CellOf(pos[t])] = pos[t] + 1 /\ pos[t] < m_dpos

(* No position is claimed twice. *)
ClaimedOnce ==
  \A t, u \in Threads :
    /\ Producing(t) /\ Producing(u) /\ pos[t] = pos[u] => t = u
    /\ Consuming(t) /\ Consuming(u) /\ pos[t] = pos[u] => t = u

ChannelInv ==
  /\ ChannelTypeOK
  /\ m_dpos <= m_epos /\ m_epos <= m_dpos + N
  /\ \A c \in Cells : CellInv(c)
  /\ \A t \in Threads : CallInv(t)
  /\ ClaimedOnce
=============================================================================
