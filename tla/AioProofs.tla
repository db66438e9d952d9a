----------------------------- MODULE AioProofs -----------------------------
(***************************************************************************)
(* Bounded_channel implements the queue of Fifo, for any number of threads *)
(* and cells.  ChannelInv is inductive; under it the step that claims a    *)
(* position is the step of the queue, and every other step changes nothing *)
(* that the queue's users see.  The pool of free slots of an aio handler   *)
(* is such a channel: every step of Aio is a step of the channel or leaves *)
(* it alone, so the pool is a Fifo as well.                                *)
(*                                                                         *)
(* On top of it, as long as the kernel completes whole requests: every     *)
(* slot is in one place (Held says which), and the counter of the handler  *)
(* is right.  A step moves one slot from one place to another (Moves) or   *)
(* none, and that is all the proof has to know of it.                      *)
(***************************************************************************)
EXTENDS Aio, SequenceTheorems, FiniteSetTheorems, WellFoundedInduction, TLAPS

-----------------------------------------------------------------------------
(* The cells of the ring.                                                  *)

\* Two positions of the same cell are N apart.
LEMMA SameCell ==
  ASSUME NEW p \in Nat, NEW q \in Nat, CellOf(p) = CellOf(q), p <= q, q < p + N
  PROVE  p = q
<1> USE DEF CellOf
<1>0. N \in Nat /\ N > 0 BY NAssumption
<1>1. PICK a \in Int, r \in Int : p = N * a + r /\ r = p % N
  BY <1>0
<1>2. PICK b \in Int : q = N * b + r
  BY <1>0, <1>1
<1>3. q - p = N * (b - a) BY <1>0, <1>1, <1>2
<1>4. ASSUME NEW d \in Int, d >= 1 PROVE N * d >= N BY <1>0, <1>4
<1>5. ASSUME NEW d \in Int, d <= -1 PROVE N * d < 0 BY <1>0, <1>5
<1>6. b - a = 0 BY <1>0, <1>3, <1>4, <1>5
<1> QED BY <1>0, <1>3, <1>6

\* The cell of a position, of the next one, and of the one a round later.
LEMMA CellFacts ==
  /\ N \in Nat /\ N >= 2
  /\ \A p \in Nat : CellOf(p) \in Cells
  /\ \A p \in Nat : CellOf(p + 1) # CellOf(p)
  /\ \A p \in Nat : CellOf(p + N) = CellOf(p)
  /\ \A c \in Cells : c \in Nat /\ CellOf(c) = c
<1>0. N \in Nat /\ N >= 2 BY NAssumption
<1>1. \A p \in Nat : CellOf(p) \in Cells BY <1>0 DEF CellOf, Cells
<1>2. \A p \in Nat : CellOf(p + 1) # CellOf(p)
  <2> SUFFICES ASSUME NEW p \in Nat, CellOf(p + 1) = CellOf(p) PROVE FALSE OBVIOUS
  <2>1. p = p + 1 BY <1>0, SameCell
  <2> QED BY <2>1
<1>3. ASSUME NEW p \in Nat PROVE CellOf(p + N) = CellOf(p)
  <2> USE DEF CellOf
  <2>1. PICK a \in Int, r \in Int : p = N * a + r /\ r = p % N /\ 0 <= r /\ r < N BY <1>0
  <2>2. PICK b \in Int, s \in Int : p + N = N * b + s /\ s = (p + N) % N /\ 0 <= s /\ s < N BY <1>0
  <2>3. r - s = N * (b - a - 1)
    <3>1. N * (b - a - 1) = N * b - N * a - N BY <1>0
    <3>2. N * a \in Int /\ N * b \in Int BY <1>0
    <3>3. p = N * a + r /\ p + N = N * b + s BY <2>1, <2>2
    <3> HIDE DEF CellOf
    <3> QED BY <1>0, <3>1, <3>2, <3>3
  <2>4. ASSUME NEW d \in Int, d >= 1 PROVE N * d >= N BY <1>0, <2>4
  <2>5. ASSUME NEW d \in Int, d <= -1 PROVE N * d <= -N BY <1>0, <2>5
  <2>6. b - a - 1 = 0 BY <1>0, <2>1, <2>2, <2>3, <2>4, <2>5
  <2>7. r - s = 0 BY <1>0, <2>3, <2>6
  <2>8. r = s BY <2>7
  <2> QED BY <2>1, <2>2, <2>8
<1>4. \A c \in Cells : c \in Nat /\ CellOf(c) = c BY <1>0 DEF CellOf, Cells
<1> QED BY <1>0, <1>1, <1>2, <1>3, <1>4

\* The cell of a position that was enqueued and not dequeued: the value was published, or
\* the producer that has claimed the position is at work.
LEMMA QueuedCell ==
  ASSUME ChannelInv, NEW p \in Nat, m_dpos <= p, p < m_epos
  PROVE  \/ m_pos[CellOf(p)] = p + 1
         \/ m_pos[CellOf(p)] = p /\ \E t \in Threads : Producing(t) /\ pos[t] = p
<1>0. m_dpos \in Nat /\ m_epos \in Nat /\ m_epos <= m_dpos + N BY DEF ChannelInv, ChannelTypeOK
<1>1. CellOf(p) \in Cells /\ N \in Nat BY CellFacts
<1>2. PICK q \in Nat : CellOf(q) = CellOf(p) /\ (FreeFor(CellOf(p), q) \/ FullAt(CellOf(p), q))
  BY <1>1 DEF ChannelInv, CellInv
<1>3. CASE FreeFor(CellOf(p), q)
  <2>1. m_dpos <= q /\ q < m_dpos + N BY <1>3 DEF FreeFor
  <2>2. q = p
    <3>1. CASE p <= q BY <1>0, <1>1, <1>2, <2>1, <3>1, SameCell
    <3>2. CASE q <= p BY <1>0, <1>1, <1>2, <2>1, <3>2, SameCell
    <3> QED BY <3>1, <3>2
  <2> QED BY <1>3, <2>2 DEF FreeFor
<1>4. CASE FullAt(CellOf(p), q)
  <2>1. q < m_epos /\ m_epos <= q + N BY <1>4 DEF FullAt
  <2>2. q = p
    <3>1. CASE p <= q BY <1>0, <1>1, <1>2, <2>1, <3>1, SameCell
    <3>2. CASE q <= p BY <1>0, <1>1, <1>2, <2>1, <3>2, SameCell
    <3> QED BY <3>1, <3>2
  <2> QED BY <1>4, <2>2 DEF FullAt
<1> QED BY <1>2, <1>3, <1>4

\* The cell of m_epos when a producer can claim it: the ring is not full.
LEMMA FreeCell ==
  ASSUME ChannelInv, m_pos[CellOf(m_epos)] >= m_epos
  PROVE  m_pos[CellOf(m_epos)] = m_epos /\ m_epos < m_dpos + N
<1>0. m_dpos \in Nat /\ m_epos \in Nat /\ m_dpos <= m_epos /\ m_epos <= m_dpos + N
  BY DEF ChannelInv, ChannelTypeOK
<1>1. CellOf(m_epos) \in Cells /\ N \in Nat /\ N >= 2 BY <1>0, CellFacts
<1>2. PICK q \in Nat : CellOf(q) = CellOf(m_epos)
                       /\ (FreeFor(CellOf(m_epos), q) \/ FullAt(CellOf(m_epos), q))
  BY <1>1 DEF ChannelInv, CellInv
<1>3. CASE FreeFor(CellOf(m_epos), q)
  <2>1. m_epos <= q /\ q < m_dpos + N BY <1>3 DEF FreeFor
  <2>2. q = m_epos BY <1>0, <1>1, <1>2, <2>1, SameCell
  <2> QED BY <1>3, <2>1, <2>2 DEF FreeFor
<1>4. CASE FullAt(CellOf(m_epos), q)
  <2>1. q + 1 >= m_epos /\ q < m_epos BY <1>4 DEF FullAt
  <2>2. m_epos = q + 1 BY <1>0, <2>1
  <2> QED BY <1>2, <2>2, CellFacts
<1> QED BY <1>2, <1>3, <1>4

\* The cell of m_dpos when a consumer can claim it: the ring is not empty.
LEMMA FullCell ==
  ASSUME ChannelInv, m_pos[CellOf(m_dpos)] >= m_dpos + 1
  PROVE  m_pos[CellOf(m_dpos)] = m_dpos + 1 /\ m_dpos < m_epos
<1>0. m_dpos \in Nat /\ m_epos \in Nat /\ m_dpos <= m_epos /\ m_epos <= m_dpos + N
  BY DEF ChannelInv, ChannelTypeOK
<1>1. CellOf(m_dpos) \in Cells /\ N \in Nat /\ N >= 2 BY <1>0, CellFacts
<1>2. PICK q \in Nat : CellOf(q) = CellOf(m_dpos)
                       /\ (FreeFor(CellOf(m_dpos), q) \/ FullAt(CellOf(m_dpos), q))
  BY <1>1 DEF ChannelInv, CellInv
<1>3. CASE FreeFor(CellOf(m_dpos), q)
  <2>1. q >= m_dpos + 1 /\ q < m_dpos + N BY <1>3 DEF FreeFor
  <2>2. q = m_dpos BY <1>0, <1>1, <1>2, <2>1, SameCell
  <2> QED BY <1>0, <2>1, <2>2
<1>4. CASE FullAt(CellOf(m_dpos), q)
  <2>1. q + 1 >= m_dpos + 1 /\ q < m_epos BY <1>4 DEF FullAt
  <2>2. q = m_dpos BY <1>0, <1>1, <1>2, <2>1, SameCell
  <2> QED BY <1>4, <2>1, <2>2 DEF FullAt
<1> QED BY <1>2, <1>3, <1>4

\* The cell of a claimed position is not that of another claim, or of another queued
\* position whose value was published.
LEMMA ClaimedCell ==
  ASSUME ChannelInv, NEW t \in Threads, Producing(t), NEW p \in Nat, m_pos[CellOf(p)] = p + 1
  PROVE  CellOf(p) # CellOf(pos[t])
<1>1. m_pos[CellOf(pos[t])] = pos[t] /\ pos[t] \in Nat BY DEF ChannelInv, CallInv, ChannelTypeOK
<1>2. SUFFICES ASSUME CellOf(p) = CellOf(pos[t]) PROVE FALSE OBVIOUS
<1>3. pos[t] = p + 1 BY <1>1, <1>2
<1> QED BY <1>2, <1>3, CellFacts

-----------------------------------------------------------------------------
(* Every step keeps the invariant.                                         *)

\* The other threads stay where they are.
Others(t) == \A u \in Threads \ {t} : op'[u] = op[u] /\ pos'[u] = pos[u] /\ arg'[u] = arg[u]

\* A step of t that claims nothing and leaves the ring alone.
Quiet(t) ==
  /\ ChannelTypeOK'
  /\ Others(t)
  /\ UNCHANGED <<m_epos, m_dpos, m_pos, m_data, data>>
  /\ ~Producing(t) /\ ~Consuming(t) /\ ~Producing(t)' /\ ~Consuming(t)'
  /\ op'[t] = "e_cas" => m_pos[CellOf(pos'[t])] >= pos'[t]
  /\ op'[t] = "d_cas" => m_pos[CellOf(pos'[t])] >= pos'[t] + 1

\* Such a step keeps the invariant.
LEMMA QuietKeeps ==
  ASSUME ChannelInv, NEW t \in Threads, Quiet(t)
  PROVE  ChannelInv'
<1>1. /\ m_epos' = m_epos /\ m_dpos' = m_dpos /\ m_pos' = m_pos /\ m_data' = m_data
      /\ ChannelTypeOK'
  BY DEF Quiet
<1>2. \A u \in Threads : /\ Producing(u)' <=> Producing(u) /\ (u # t)
                         /\ Consuming(u)' <=> Consuming(u) /\ (u # t)
                         /\ Producing(u) \/ Consuming(u) => pos'[u] = pos[u]
  BY DEF Quiet, Others, Producing, Consuming
<1>3. ASSUME NEW c \in Cells PROVE CellInv(c)'
  <2>1. PICK p \in Nat : CellOf(p) = c /\ (FreeFor(c, p) \/ FullAt(c, p))
    BY DEF ChannelInv, CellInv
  <2>2. FreeFor(c, p) => FreeFor(c, p)'
    <3>1. ~Producing(t) BY DEF Quiet
    <3> QED BY <1>1, <1>2, <3>1 DEF FreeFor
  <2>3. FullAt(c, p) => FullAt(c, p)' BY <1>1 DEF FullAt
  <2> QED BY <2>1, <2>2, <2>3 DEF CellInv, CellOf
<1>4. ASSUME NEW u \in Threads PROVE CallInv(u)'
  <2>1. CASE u # t
    <3>1. op'[u] = op[u] /\ pos'[u] = pos[u] /\ arg'[u] = arg[u] BY <2>1 DEF Quiet, Others
    <3> QED BY <1>1, <3>1 DEF ChannelInv, CallInv, Producing, Consuming, CellOf
  <2>2. CASE u = t
    BY <1>1, <2>2 DEF Quiet, CallInv, Producing, Consuming, CellOf
  <2> QED BY <2>1, <2>2
<1>5. ClaimedOnce' BY <1>2 DEF ChannelInv, ClaimedOnce
<1>6. m_dpos' <= m_epos' /\ m_epos' <= m_dpos' + N BY <1>1 DEF ChannelInv
<1> QED BY <1>1, <1>3, <1>4, <1>5, <1>6 DEF ChannelInv

\* The steps of a call that claim nothing, its first one and the one that returns false
\* included.
LEMMA QuietSteps ==
  ASSUME ChannelInv, NEW t \in Threads,
         \/ \E v \in Values : BeginEnqueue(t, v)
         \/ EnqueueLoadSeq(t) \/ EnqueueFull(t) \/ EnqueueReload(t)
         \/ BeginDequeue(t) \/ DequeueLoadSeq(t) \/ DequeueEmpty(t) \/ DequeueReload(t)
  PROVE  Quiet(t)
<1>0. 0 \in Values BY CellFacts DEF Values, Cells
<1> USE <1>0 DEF ChannelInv, ChannelTypeOK, Quiet, Others, Producing, Consuming, Goto, Return,
                EnqueueOps, DequeueOps
<1>1. CASE \E v \in Values : BeginEnqueue(t, v) BY <1>1 DEF BeginEnqueue
<1>2. CASE EnqueueLoadSeq(t) BY <1>2 DEF EnqueueLoadSeq
<1>3. CASE EnqueueFull(t) BY <1>3 DEF EnqueueFull
<1>4. CASE EnqueueReload(t) BY <1>4 DEF EnqueueReload
<1>5. CASE BeginDequeue(t) BY <1>5 DEF BeginDequeue
<1>6. CASE DequeueLoadSeq(t) BY <1>6 DEF DequeueLoadSeq
<1>7. CASE DequeueEmpty(t) BY <1>7 DEF DequeueEmpty
<1>8. CASE DequeueReload(t) BY <1>8 DEF DequeueReload
<1> QED BY <1>1, <1>2, <1>3, <1>4, <1>5, <1>6, <1>7, <1>8

\* A producer claims m_epos.
LEMMA Keeps_EnqueueClaim ==
  ASSUME ChannelInv, NEW t \in Threads, EnqueueClaim(t)
  PROVE  ChannelInv'
<1> USE DEF EnqueueClaim, Goto
<1>0. /\ m_epos \in Nat /\ m_dpos \in Nat /\ pos[t] = m_epos /\ m_epos' = m_epos + 1
      /\ m_dpos <= m_epos /\ m_epos <= m_dpos + N
      /\ UNCHANGED <<m_dpos, m_pos, m_data, pos, arg, data>>
  BY DEF ChannelInv, ChannelTypeOK
<1>1. N \in Nat /\ N >= 2 BY CellFacts
<1>2. m_pos[CellOf(m_epos)] = m_epos /\ m_epos < m_dpos + N
  <2>1. m_pos[CellOf(m_epos)] >= m_epos BY <1>0 DEF ChannelInv, CallInv
  <2> QED BY <2>1, FreeCell
<1>3. ChannelTypeOK' BY <1>0 DEF ChannelInv, ChannelTypeOK, EnqueueOps
<1>4. /\ op'[t] = "e_copy" /\ op[t] = "e_cas"
      /\ \A u \in Threads \ {t} : op'[u] = op[u]
  BY DEF ChannelInv, ChannelTypeOK
<1>5. ASSUME NEW c \in Cells PROVE CellInv(c)'
  <2>1. PICK p \in Nat : CellOf(p) = c /\ (FreeFor(c, p) \/ FullAt(c, p))
    BY DEF ChannelInv, CellInv
  <2>2. CASE FreeFor(c, p)
    <3>1. p < m_epos' => \E u \in Threads : Producing(u)' /\ pos'[u] = p
      <4>1. CASE p < m_epos
        <5>1. PICK u \in Threads : Producing(u) /\ pos[u] = p BY <2>2, <4>1 DEF FreeFor
        <5>2. u # t BY <1>4, <5>1 DEF Producing
        <5> QED BY <1>0, <1>4, <5>1, <5>2 DEF Producing
      <4>2. CASE p = m_epos BY <1>0, <1>4, <4>2 DEF Producing
      <4> QED BY <1>0, <4>1, <4>2
    <3>2. FreeFor(c, p)' BY <1>0, <2>2, <3>1 DEF FreeFor
    <3> QED BY <2>1, <3>2 DEF CellInv, CellOf
  <2>3. CASE FullAt(c, p)
    <3>1. m_epos # p + N
      <4> SUFFICES ASSUME m_epos = p + N PROVE FALSE OBVIOUS
      <4>1. CellOf(m_epos) = c BY <2>1, CellFacts
      <4>2. m_pos[c] = p + 1 BY <2>3 DEF FullAt
      <4>3. p + 1 = p + N BY <1>2, <4>1, <4>2
      <4> QED BY <1>1, <4>3
    <3>2. FullAt(c, p)' BY <1>0, <1>1, <2>3, <3>1 DEF FullAt
    <3> QED BY <2>1, <3>2 DEF CellInv, CellOf
  <2> QED BY <2>1, <2>2, <2>3
<1>6. ASSUME NEW u \in Threads PROVE CallInv(u)'
  <2>0. pos[u] \in Nat BY DEF ChannelInv, ChannelTypeOK
  <2>1. CASE u # t
    BY <1>0, <1>4, <2>0, <2>1 DEF ChannelInv, CallInv, Producing, Consuming, CellOf
  <2>2. CASE u = t
    BY <1>0, <1>2, <1>4, <2>2 DEF CallInv, Producing, Consuming, CellOf
  <2> QED BY <2>1, <2>2
<1>7. ClaimedOnce'
  <2>1. \A u \in Threads : Producing(u) => pos[u] # m_epos
    BY <1>0 DEF ChannelInv, CallInv, ChannelTypeOK
  <2> QED BY <1>0, <1>4, <2>1 DEF ChannelInv, ClaimedOnce, Producing, Consuming
<1> QED BY <1>0, <1>1, <1>2, <1>3, <1>5, <1>6, <1>7 DEF ChannelInv

\* The value is copied to the cell, which is nobody else's.
LEMMA Keeps_EnqueueCopy ==
  ASSUME ChannelInv, NEW t \in Threads, EnqueueCopy(t)
  PROVE  ChannelInv'
<1> USE DEF EnqueueCopy, Goto
<1>0. UNCHANGED <<m_epos, m_dpos, m_pos, pos, arg, data>> OBVIOUS
<1>1. pos[t] \in Nat /\ CellOf(pos[t]) \in Cells BY CellFacts DEF ChannelInv, ChannelTypeOK
<1>2. ChannelTypeOK' BY <1>0, <1>1 DEF ChannelInv, ChannelTypeOK, EnqueueOps
<1>3. /\ op'[t] = "e_publish" /\ op[t] = "e_copy" /\ m_data'[CellOf(pos[t])] = arg[t]
      /\ \A u \in Threads \ {t} : op'[u] = op[u]
      /\ \A c \in Cells : c # CellOf(pos[t]) => m_data'[c] = m_data[c]
  BY <1>1 DEF ChannelInv, ChannelTypeOK
<1>4. \A u \in Threads : (Producing(u)' <=> Producing(u)) /\ (Consuming(u)' <=> Consuming(u))
  BY <1>3 DEF Producing, Consuming
<1>5. ASSUME NEW c \in Cells PROVE CellInv(c)'
  <2>1. \A p \in Nat : (FreeFor(c, p) => FreeFor(c, p)') /\ (FullAt(c, p) => FullAt(c, p)')
    BY <1>0, <1>4 DEF FreeFor, FullAt
  <2> QED BY <2>1 DEF ChannelInv, CellInv, CellOf
<1>6. ASSUME NEW u \in Threads PROVE CallInv(u)'
  <2>1. CASE u # t
    <3>1. op[u] = "e_publish" => CellOf(pos[u]) # CellOf(pos[t])
      <4> SUFFICES ASSUME op[u] = "e_publish", CellOf(pos[u]) = CellOf(pos[t]) PROVE FALSE OBVIOUS
      <4>1. m_pos[CellOf(pos[u])] = pos[u] /\ m_pos[CellOf(pos[t])] = pos[t]
        BY <1>3 DEF ChannelInv, CallInv, Producing
      <4> QED BY <1>3, <2>1, <4>1 DEF ChannelInv, ClaimedOnce, Producing
    <3>2. CellOf(pos[u]) \in Cells BY CellFacts DEF ChannelInv, ChannelTypeOK
    <3> QED BY <1>0, <1>3, <1>4, <2>1, <3>1, <3>2 DEF ChannelInv, CallInv, CellOf
  <2>2. CASE u = t
    BY <1>0, <1>3, <1>4, <2>2 DEF ChannelInv, CallInv, CellOf
  <2> QED BY <2>1, <2>2
<1>7. ClaimedOnce' BY <1>0, <1>4 DEF ChannelInv, ClaimedOnce
<1> QED BY <1>0, <1>2, <1>5, <1>6, <1>7 DEF ChannelInv

\* No other thread has claimed the cell of a claimed position.
LEMMA OwnCell ==
  ASSUME ChannelInv, NEW t \in Threads, NEW u \in Threads, u # t,
         Producing(t) \/ Consuming(t), Producing(u) \/ Consuming(u)
  PROVE  CellOf(pos[u]) # CellOf(pos[t])
<1>0. pos[t] \in Nat /\ pos[u] \in Nat BY DEF ChannelInv, ChannelTypeOK
<1>1. CallInv(t) /\ CallInv(u) BY DEF ChannelInv
<1> SUFFICES ASSUME CellOf(pos[u]) = CellOf(pos[t]) PROVE FALSE OBVIOUS
<1>2. CASE Producing(t) /\ Producing(u)
  BY <1>0, <1>1, <1>2 DEF CallInv, ChannelInv, ClaimedOnce
<1>3. CASE Consuming(t) /\ Consuming(u)
  <2>1. pos[t] + 1 = pos[u] + 1 BY <1>1, <1>3 DEF CallInv
  <2>2. pos[t] = pos[u] BY <1>0, <2>1
  <2> QED BY <1>3, <2>2 DEF ChannelInv, ClaimedOnce
<1>4. CASE Producing(t) /\ Consuming(u)
  <2>1. m_pos[CellOf(pos[u])] = pos[u] + 1 BY <1>1, <1>4 DEF CallInv
  <2> QED BY <1>0, <1>4, <2>1, ClaimedCell
<1>5. CASE Consuming(t) /\ Producing(u)
  <2>1. m_pos[CellOf(pos[t])] = pos[t] + 1 BY <1>1, <1>5 DEF CallInv
  <2> QED BY <1>0, <1>5, <2>1, ClaimedCell
<1> QED BY <1>2, <1>3, <1>4, <1>5

\* The turn of a claimed cell is the claimed position's.
LEMMA TurnOfClaim ==
  ASSUME ChannelInv, NEW t \in Threads
  PROVE  /\ Producing(t) => FreeFor(CellOf(pos[t]), pos[t])
         /\ Consuming(t) => FullAt(CellOf(pos[t]), pos[t])
<1>0. /\ pos[t] \in Nat /\ CellOf(pos[t]) \in Cells
  BY CellFacts DEF ChannelInv, ChannelTypeOK
<1>1. PICK p \in Nat : /\ CellOf(p) = CellOf(pos[t])
                       /\ FreeFor(CellOf(pos[t]), p) \/ FullAt(CellOf(pos[t]), p)
  BY <1>0 DEF ChannelInv, CellInv
<1>2. CallInv(t) BY DEF ChannelInv
<1>3. ASSUME Producing(t) PROVE FreeFor(CellOf(pos[t]), pos[t])
  <2>1. m_pos[CellOf(pos[t])] = pos[t] BY <1>2, <1>3 DEF CallInv
  <2>2. ~FullAt(CellOf(pos[t]), p)
    <3> SUFFICES ASSUME FullAt(CellOf(pos[t]), p) PROVE FALSE OBVIOUS
    <3>1. pos[t] = p + 1 BY <2>1 DEF FullAt
    <3> QED BY <1>1, <3>1, CellFacts
  <2> QED BY <1>1, <2>1, <2>2 DEF FreeFor
<1>4. ASSUME Consuming(t) PROVE FullAt(CellOf(pos[t]), pos[t])
  <2>1. m_pos[CellOf(pos[t])] = pos[t] + 1 BY <1>2, <1>4 DEF CallInv
  <2>2. ~FreeFor(CellOf(pos[t]), p)
    <3> SUFFICES ASSUME FreeFor(CellOf(pos[t]), p) PROVE FALSE OBVIOUS
    <3>1. p = pos[t] + 1 BY <2>1 DEF FreeFor
    <3> QED BY <1>0, <1>1, <3>1, CellFacts
  <2>3. p + 1 = pos[t] + 1 BY <1>1, <2>1, <2>2 DEF FullAt
  <2>4. p = pos[t] BY <1>0, <2>3
  <2> QED BY <1>1, <2>2, <2>4
<1> QED BY <1>3, <1>4

\* A thread that gives up its claim and hands the cell to the next turn leaves the other
\* cells and the other threads alone.
LEMMA HandsOver ==
  ASSUME ChannelInv, NEW t \in Threads, NEW n \in Nat, NEW d \in Cells, d = CellOf(pos[t]),
         Producing(t) \/ Consuming(t), Others(t), ChannelTypeOK', op'[t] = "idle",
         m_pos' = [m_pos EXCEPT ![d] = n], n >= m_pos[d],
         UNCHANGED <<m_epos, m_dpos, m_data>>,
         CellInv(d)'
  PROVE  ChannelInv'
<1>0. pos[t] \in Nat BY DEF ChannelInv, ChannelTypeOK
<1>1. /\ m_pos'[d] = n
      /\ \A c \in Cells : c # d => m_pos'[c] = m_pos[c]
      /\ \A c \in Cells : m_pos'[c] \in Nat /\ m_pos[c] \in Nat /\ m_pos'[c] >= m_pos[c]
  BY <1>0 DEF ChannelInv, ChannelTypeOK
<1>2. ASSUME NEW c \in Cells, c # d PROVE CellInv(c)'
  <2>1. PICK p \in Nat : CellOf(p) = c /\ (FreeFor(c, p) \/ FullAt(c, p))
    BY DEF ChannelInv, CellInv
  <2>2. CASE FreeFor(c, p)
    <3>1. p < m_epos => \E u \in Threads : Producing(u)' /\ pos'[u] = p
      <4> SUFFICES ASSUME p < m_epos PROVE \E u \in Threads : Producing(u)' /\ pos'[u] = p OBVIOUS
      <4>1. PICK u \in Threads : Producing(u) /\ pos[u] = p BY <2>2 DEF FreeFor
      <4>2. u # t BY <1>2, <2>1, <4>1
      <4> QED BY <4>1, <4>2 DEF Others, Producing
    <3>2. FreeFor(c, p)' BY <1>1, <1>2, <2>2, <3>1 DEF FreeFor
    <3> QED BY <2>1, <3>2 DEF CellInv, CellOf
  <2>3. CASE FullAt(c, p)
    <3>1. FullAt(c, p)' BY <1>1, <1>2, <2>3 DEF FullAt
    <3> QED BY <2>1, <3>1 DEF CellInv, CellOf
  <2> QED BY <2>1, <2>2, <2>3
<1>3. ASSUME NEW u \in Threads PROVE CallInv(u)'
  <2>1. CASE u = t BY <2>1 DEF CallInv, Producing, Consuming
  <2>2. CASE u # t
    <3>0. pos[u] \in Nat /\ CellOf(pos[u]) \in Cells BY CellFacts DEF ChannelInv, ChannelTypeOK
    <3>1. op'[u] = op[u] /\ pos'[u] = pos[u] /\ arg'[u] = arg[u] BY <2>2 DEF Others
    <3>2. CASE Producing(u) \/ Consuming(u)
      <4>1. CellOf(pos[u]) # d BY <2>2, <3>2, OwnCell
      <4>2. m_pos'[CellOf(pos[u])] = m_pos[CellOf(pos[u])] BY <1>1, <3>0, <4>1
      <4> QED BY <3>1, <4>2 DEF ChannelInv, CallInv, Producing, Consuming, CellOf
    <3>3. CASE ~Producing(u) /\ ~Consuming(u)
      <4>1. /\ m_pos'[CellOf(pos[u])] >= m_pos[CellOf(pos[u])]
            /\ m_pos'[CellOf(pos[u])] \in Nat /\ m_pos[CellOf(pos[u])] \in Nat
        BY <1>1, <3>0
      <4>2. CallInv(u) BY DEF ChannelInv
      <4>3. op[u] \notin {"e_copy", "e_publish", "d_copy", "d_release"}
        BY <3>3 DEF Producing, Consuming
      <4>4. (op[u] = "e_cas" => m_pos'[CellOf(pos[u])] >= pos[u])
            /\ (op[u] = "d_cas" => m_pos'[CellOf(pos[u])] >= pos[u] + 1)
        BY <3>0, <4>1, <4>2 DEF CallInv
      <4> QED BY <3>1, <4>3, <4>4 DEF CallInv, Producing, Consuming, CellOf
    <3> QED BY <3>2, <3>3
  <2> QED BY <2>1, <2>2
<1>4. ClaimedOnce'
  <2>1. \A u \in Threads : (Producing(u)' => u # t /\ Producing(u) /\ pos'[u] = pos[u])
                           /\ (Consuming(u)' => u # t /\ Consuming(u) /\ pos'[u] = pos[u])
    BY DEF Others, Producing, Consuming
  <2> QED BY <2>1 DEF ChannelInv, ClaimedOnce
<1> QED BY <1>2, <1>3, <1>4 DEF ChannelInv

\* The value is published.
LEMMA Keeps_EnqueuePublish ==
  ASSUME ChannelInv, NEW t \in Threads, EnqueuePublish(t)
  PROVE  ChannelInv'
<1> USE DEF EnqueuePublish, Return, Goto
<1>0. PICK p \in Nat, c \in Cells : p = pos[t] /\ c = CellOf(p)
  BY CellFacts DEF ChannelInv, ChannelTypeOK
<1>1. 0 \in Values /\ N \in Nat /\ m_epos \in Nat /\ m_dpos \in Nat
  BY CellFacts DEF ChannelInv, ChannelTypeOK, Values, Cells
<1>2. Producing(t) BY DEF Producing
<1>3. FreeFor(c, p) /\ p < m_epos
  BY <1>0, <1>2, TurnOfClaim DEF ChannelInv, CallInv
<1>4. ChannelTypeOK' BY <1>0, <1>1 DEF ChannelInv, ChannelTypeOK
<1>5. Others(t) /\ op'[t] = "idle" BY DEF ChannelInv, ChannelTypeOK, Others
<1>6. m_pos' = [m_pos EXCEPT ![c] = p + 1] /\ p + 1 \in Nat /\ p + 1 >= m_pos[c]
  BY <1>0, <1>3 DEF FreeFor
<1>7. CellInv(c)'
  <2>1. m_pos'[c] = p + 1 BY <1>0, <1>6 DEF ChannelInv, ChannelTypeOK
  <2>2. m_epos <= p + N BY <1>0, <1>1, <1>3 DEF ChannelInv, FreeFor
  <2>3. FullAt(c, p)' BY <1>3, <2>1, <2>2 DEF FullAt
  <2> QED BY <1>0, <2>3 DEF CellInv, CellOf
<1> QED BY <1>0, <1>2, <1>4, <1>5, <1>6, <1>7, HandsOver

\* A consumer claims m_dpos.
LEMMA Keeps_DequeueClaim ==
  ASSUME ChannelInv, NEW t \in Threads, DequeueClaim(t)
  PROVE  ChannelInv'
<1> USE DEF DequeueClaim, Goto
<1>0. /\ m_epos \in Nat /\ m_dpos \in Nat /\ pos[t] = m_dpos /\ m_dpos' = m_dpos + 1
      /\ m_dpos <= m_epos /\ m_epos <= m_dpos + N
      /\ UNCHANGED <<m_epos, m_pos, m_data, pos, arg, data>>
  BY DEF ChannelInv, ChannelTypeOK
<1>1. N \in Nat /\ N >= 2 BY CellFacts
<1>2. m_pos[CellOf(m_dpos)] = m_dpos + 1 /\ m_dpos < m_epos
  <2>1. m_pos[CellOf(m_dpos)] >= m_dpos + 1 BY <1>0 DEF ChannelInv, CallInv
  <2> QED BY <2>1, FullCell
<1>3. ChannelTypeOK' BY <1>0 DEF ChannelInv, ChannelTypeOK, DequeueOps
<1>4. /\ op'[t] = "d_copy" /\ op[t] = "d_cas"
      /\ \A u \in Threads \ {t} : op'[u] = op[u]
  BY DEF ChannelInv, ChannelTypeOK
<1>5. ASSUME NEW c \in Cells PROVE CellInv(c)'
  <2>1. PICK p \in Nat : CellOf(p) = c /\ (FreeFor(c, p) \/ FullAt(c, p))
    BY DEF ChannelInv, CellInv
  <2>2. CASE FreeFor(c, p)
    <3>1. p # m_dpos BY <1>0, <1>2, <2>1, <2>2 DEF FreeFor
    <3>2. p < m_epos => \E u \in Threads : Producing(u)' /\ pos'[u] = p
      <4> SUFFICES ASSUME p < m_epos PROVE \E u \in Threads : Producing(u)' /\ pos'[u] = p OBVIOUS
      <4>1. PICK u \in Threads : Producing(u) /\ pos[u] = p BY <2>2 DEF FreeFor
      <4>2. u # t BY <1>4, <4>1 DEF Producing
      <4> QED BY <1>0, <1>4, <4>1, <4>2 DEF Producing
    <3>3. FreeFor(c, p)' BY <1>0, <1>1, <2>2, <3>1, <3>2 DEF FreeFor
    <3> QED BY <2>1, <3>3 DEF CellInv, CellOf
  <2>3. CASE FullAt(c, p)
    <3>1. FullAt(c, p)' BY <1>0, <2>3 DEF FullAt
    <3> QED BY <2>1, <3>1 DEF CellInv, CellOf
  <2> QED BY <2>1, <2>2, <2>3
<1>6. ASSUME NEW u \in Threads PROVE CallInv(u)'
  <2>0. pos[u] \in Nat BY DEF ChannelInv, ChannelTypeOK
  <2>1. CASE u # t
    BY <1>0, <1>4, <2>0, <2>1 DEF ChannelInv, CallInv, Producing, Consuming, CellOf
  <2>2. CASE u = t
    BY <1>0, <1>2, <1>4, <2>2 DEF CallInv, Producing, Consuming, CellOf
  <2> QED BY <2>1, <2>2
<1>7. ClaimedOnce'
  <2>1. \A u \in Threads : Consuming(u) => pos[u] # m_dpos
    BY <1>0 DEF ChannelInv, CallInv, ChannelTypeOK
  <2> QED BY <1>0, <1>4, <2>1 DEF ChannelInv, ClaimedOnce, Producing, Consuming
<1> QED BY <1>0, <1>1, <1>2, <1>3, <1>5, <1>6, <1>7 DEF ChannelInv

\* The value is copied from the cell.
LEMMA Keeps_DequeueCopy ==
  ASSUME ChannelInv, NEW t \in Threads, DequeueCopy(t)
  PROVE  ChannelInv'
<1> USE DEF DequeueCopy, Goto
<1>0. UNCHANGED <<m_epos, m_dpos, m_pos, m_data, pos, arg>> OBVIOUS
<1>1. pos[t] \in Nat /\ CellOf(pos[t]) \in Cells BY CellFacts DEF ChannelInv, ChannelTypeOK
<1>2. ChannelTypeOK' BY <1>0, <1>1 DEF ChannelInv, ChannelTypeOK, DequeueOps
<1>3. op'[t] = "d_release" /\ op[t] = "d_copy" /\ \A u \in Threads \ {t} : op'[u] = op[u]
  BY DEF ChannelInv, ChannelTypeOK
<1>4. \A u \in Threads : (Producing(u)' <=> Producing(u)) /\ (Consuming(u)' <=> Consuming(u))
  BY <1>3 DEF Producing, Consuming
<1>5. ASSUME NEW c \in Cells PROVE CellInv(c)'
  <2>1. \A p \in Nat : (FreeFor(c, p) => FreeFor(c, p)') /\ (FullAt(c, p) => FullAt(c, p)')
    BY <1>0, <1>4 DEF FreeFor, FullAt
  <2> QED BY <2>1 DEF ChannelInv, CellInv, CellOf
<1>6. ASSUME NEW u \in Threads PROVE CallInv(u)'
  <2>1. op'[u] \in {"e_cas", "d_cas", "e_publish"} => op'[u] = op[u] BY <1>3
  <2> QED BY <1>0, <1>4, <2>1 DEF ChannelInv, CallInv, CellOf
<1>7. ClaimedOnce' BY <1>0, <1>4 DEF ChannelInv, ClaimedOnce
<1> QED BY <1>0, <1>2, <1>5, <1>6, <1>7 DEF ChannelInv

\* The cell is given to the producer of the next round.
LEMMA Keeps_DequeueRelease ==
  ASSUME ChannelInv, NEW t \in Threads, DequeueRelease(t)
  PROVE  ChannelInv'
<1> USE DEF DequeueRelease, Return, Goto
<1>0. PICK p \in Nat, c \in Cells : p = pos[t] /\ c = CellOf(p)
  BY CellFacts DEF ChannelInv, ChannelTypeOK
<1>1. N \in Nat /\ N >= 2 /\ m_epos \in Nat /\ m_dpos \in Nat
  BY CellFacts DEF ChannelInv, ChannelTypeOK
<1>2. Consuming(t) BY DEF Consuming
<1>3. FullAt(c, p) /\ p < m_dpos
  BY <1>0, <1>2, TurnOfClaim DEF ChannelInv, CallInv
<1>4. p + N \in Nat /\ CellOf(p + N) = c BY <1>0, <1>1, CellFacts
<1>5. ChannelTypeOK' BY <1>0, <1>4 DEF ChannelInv, ChannelTypeOK
<1>6. Others(t) /\ op'[t] = "idle" BY DEF ChannelInv, ChannelTypeOK, Others
<1>7. m_pos' = [m_pos EXCEPT ![c] = p + N] /\ p + N >= m_pos[c]
  BY <1>0, <1>1, <1>3 DEF FullAt
<1>8. CellInv(c)'
  <2>1. m_pos'[c] = p + N BY <1>0, <1>7 DEF ChannelInv, ChannelTypeOK
  <2>2. m_dpos <= p + N /\ p + N < m_dpos + N /\ ~(p + N < m_epos)
    BY <1>0, <1>1, <1>3 DEF ChannelInv, FullAt
  <2>3. FreeFor(c, p + N)' BY <2>1, <2>2 DEF FreeFor
  <2> QED BY <1>4, <2>3 DEF CellInv, CellOf
<1> QED BY <1>0, <1>2, <1>4, <1>5, <1>6, <1>7, <1>8, HandsOver

\* The ring as the constructor leaves it.
LEMMA InitChannelInv ==
  ChannelInit => ChannelInv
<1> SUFFICES ASSUME ChannelInit PROVE ChannelInv OBVIOUS
<1> USE DEF ChannelInit
<1>0. N \in Nat /\ N >= 2 BY CellFacts
<1>1. ChannelTypeOK BY <1>0 DEF ChannelTypeOK, Values, Cells
<1>2. ASSUME NEW c \in Cells PROVE CellInv(c)
  <2>1. c \in Nat /\ CellOf(c) = c BY CellFacts
  <2>2. FullAt(c, c) BY <1>0, <2>1 DEF FullAt, Cells
  <2> QED BY <2>1, <2>2 DEF CellInv
<1>3. \A t \in Threads : CallInv(t) BY DEF CallInv, Producing, Consuming
<1>4. ClaimedOnce BY DEF ClaimedOnce, Producing, Consuming
<1> QED BY <1>0, <1>1, <1>2, <1>3, <1>4 DEF ChannelInv

\* Every step of the channel keeps the invariant.
LEMMA NextChannelInv ==
  ASSUME ChannelInv, [ChannelNext]_channelVars
  PROVE  ChannelInv'
<1>1. ASSUME NEW t \in Threads, ChannelStep(t) PROVE ChannelInv'
  <2>1. CASE Quiet(t) BY <2>1, QuietKeeps
  <2> QED BY <1>1, <2>1, QuietSteps, Keeps_EnqueueClaim, Keeps_EnqueueCopy, Keeps_EnqueuePublish,
             Keeps_DequeueClaim, Keeps_DequeueCopy, Keeps_DequeueRelease
          DEF ChannelStep, InsideCall
<1>2. ASSUME UNCHANGED channelVars PROVE ChannelInv'
  BY <1>2 DEF channelVars, ChannelInv, ChannelTypeOK, CellInv, FreeFor, FullAt, CallInv, ClaimedOnce,
              Producing, Consuming, CellOf
<1> QED BY <1>1, <1>2 DEF ChannelNext

-----------------------------------------------------------------------------
(* Every step is a step of the queue, or leaves the queue alone.           *)

\* The thread that has claimed a position is the one its value is with.
LEMMA ClaimerIs ==
  ASSUME NEW o, NEW ps, NEW p, NEW t \in Threads,
         o[t] \in {"e_copy", "e_publish"} /\ ps[t] = p,
         \A u \in Threads : o[u] \in {"e_copy", "e_publish"} /\ ps[u] = p => u = t
  PROVE  (CHOOSE u \in Threads : o[u] \in {"e_copy", "e_publish"} /\ ps[u] = p) = t
OBVIOUS

\* The value of a queued position: with its producer until it was published.
LEMMA QueuedValue ==
  ASSUME ChannelInv, NEW p \in Nat, m_dpos <= p, p < m_epos
  PROVE  /\ ValueAt(p) \in Values
         /\ m_pos[CellOf(p)] = p + 1 => ValueAt(p) = m_data[CellOf(p)]
         /\ \A t \in Threads : Producing(t) /\ pos[t] = p => ValueAt(p) = arg[t]
<1>0. CellOf(p) \in Cells BY CellFacts
<1>1. ASSUME NEW t \in Threads, Producing(t), pos[t] = p PROVE ValueAt(p) = arg[t]
  <2>1. m_pos[CellOf(p)] = p BY <1>1 DEF ChannelInv, CallInv
  <2>2. Claimer(p) = t
    BY <1>1, ClaimerIs DEF Claimer, Producing, ChannelInv, ClaimedOnce
  <2> QED BY <2>1, <2>2 DEF ValueAt
<1>2. ValueAt(p) \in Values
  <2>1. CASE m_pos[CellOf(p)] = p + 1 BY <1>0, <2>1 DEF ValueAt, ChannelInv, ChannelTypeOK
  <2>2. CASE \E t \in Threads : Producing(t) /\ pos[t] = p
    BY <1>1, <2>2 DEF ChannelInv, ChannelTypeOK
  <2> QED BY <2>1, <2>2, QueuedCell
<1> QED BY <1>1, <1>2 DEF ValueAt

\* The values in the queue are the channel's, and their number is what the positions say.
LEMMA QueueIsSeq ==
  ASSUME ChannelInv
  PROVE  /\ AbstractQueue \in Seq(Values)
         /\ Len(AbstractQueue) = m_epos - m_dpos
         /\ m_epos - m_dpos \in Nat
         /\ \A i \in 1 .. m_epos - m_dpos : AbstractQueue[i] = Queued[m_dpos + i - 1]
<1>0. m_epos \in Nat /\ m_dpos \in Nat /\ m_epos - m_dpos \in Nat BY DEF ChannelInv, ChannelTypeOK
<1>1. \A p \in m_dpos .. m_epos - 1 : Queued[p] \in Values BY <1>0, QueuedValue DEF Queued
<1>2. \A i \in 1 .. m_epos - m_dpos : m_dpos + i - 1 \in m_dpos .. m_epos - 1 BY <1>0
<1>3. AbstractQueue \in [1 .. m_epos - m_dpos -> Values] BY <1>1, <1>2 DEF AbstractQueue
<1>4. AbstractQueue \in Seq(Values) /\ Len(AbstractQueue) = m_epos - m_dpos BY <1>0, <1>3
<1> QED BY <1>0, <1>4 DEF AbstractQueue

\* A step that keeps the cell of a queued position and its producer keeps its value.
LEMMA ValueKept ==
  ASSUME ChannelInv, ClaimedOnce', NEW p \in Nat, m_dpos <= p, p < m_epos,
         m_pos'[CellOf(p)] = m_pos[CellOf(p)],
         m_pos[CellOf(p)] = p + 1 => m_data'[CellOf(p)] = m_data[CellOf(p)],
         \A u \in Threads : Producing(u) /\ pos[u] = p =>
                              Producing(u)' /\ pos'[u] = p /\ arg'[u] = arg[u]
  PROVE  ValueAt(p)' = ValueAt(p)
<1>1. CASE m_pos[CellOf(p)] = p + 1 BY <1>1 DEF ValueAt, CellOf
<1>2. CASE m_pos[CellOf(p)] # p + 1
  <2>1. PICK t \in Threads : Producing(t) /\ pos[t] = p BY <1>2, QueuedCell
  <2>2. Claimer(p)' = t BY <2>1, ClaimerIs DEF Claimer, Producing, ClaimedOnce
  <2>3. ValueAt(p)' = arg'[t] BY <1>2, <2>2 DEF ValueAt, CellOf
  <2> QED BY <2>1, <2>3, QueuedValue
<1> QED BY <1>1, <1>2

\* A step that keeps every queued value keeps the queue.
LEMMA QueueKept ==
  ASSUME ChannelInv, m_dpos' = m_dpos, m_epos' = m_epos,
         \A p \in Nat : m_dpos <= p /\ p < m_epos => ValueAt(p)' = ValueAt(p)
  PROVE  AbstractQueue' = AbstractQueue
<1>0. m_epos \in Nat /\ m_dpos \in Nat BY DEF ChannelInv, ChannelTypeOK
<1>1. \A p \in m_dpos .. m_epos - 1 : ValueAt(p)' = ValueAt(p) BY <1>0
<1>2. Queued' = Queued BY <1>1 DEF Queued
<1> QED BY <1>2 DEF AbstractQueue

\* A step that claims nothing.
LEMMA QuietStutters ==
  ASSUME ChannelInv, ChannelInv', NEW t \in Threads, Quiet(t)
  PROVE  AbstractQueue' = AbstractQueue /\ AbstractTaken' = AbstractTaken
<1>1. \A u \in Threads : Producing(u) \/ Consuming(u) =>
         op'[u] = op[u] /\ pos'[u] = pos[u] /\ arg'[u] = arg[u]
  BY DEF Quiet, Others
<1>2. /\ m_epos' = m_epos /\ m_dpos' = m_dpos /\ m_pos' = m_pos /\ m_data' = m_data
      /\ data' = data
  BY DEF Quiet
<1>3. ASSUME NEW p \in Nat, m_dpos <= p, p < m_epos PROVE ValueAt(p)' = ValueAt(p)
  BY <1>1, <1>2, <1>3, ValueKept DEF ChannelInv, Producing
<1>4. AbstractQueue' = AbstractQueue BY <1>2, <1>3, QueueKept
<1>5. \A u \in Threads : op'[u] = "d_copy" <=> op[u] = "d_copy"
  BY DEF Quiet, Others, Consuming
<1>6. AbstractTaken' = AbstractTaken BY <1>1, <1>2, <1>5 DEF AbstractTaken, Consuming, CellOf
<1> QED BY <1>4, <1>6

\* The value is copied to its cell.
LEMMA EnqueueCopyStutters ==
  ASSUME ChannelInv, ChannelInv', NEW t \in Threads, EnqueueCopy(t)
  PROVE  AbstractQueue' = AbstractQueue /\ AbstractTaken' = AbstractTaken
<1> USE DEF EnqueueCopy, Goto
<1>0. UNCHANGED <<m_epos, m_dpos, m_pos, pos, arg, data>> OBVIOUS
<1>1. /\ op'[t] = "e_publish" /\ op[t] = "e_copy"
      /\ \A u \in Threads \ {t} : op'[u] = op[u]
      /\ \A c \in Cells : c # CellOf(pos[t]) => m_data'[c] = m_data[c]
  BY DEF ChannelInv, ChannelTypeOK
<1>2. ASSUME NEW p \in Nat, m_pos[CellOf(p)] = p + 1
      PROVE  m_data'[CellOf(p)] = m_data[CellOf(p)]
  <2>1. CellOf(p) # CellOf(pos[t]) BY <1>1, <1>2, ClaimedCell DEF Producing
  <2> QED BY <1>1, <2>1, CellFacts
<1>3. ASSUME NEW p \in Nat, m_dpos <= p, p < m_epos PROVE ValueAt(p)' = ValueAt(p)
  BY <1>0, <1>1, <1>2, <1>3, ValueKept DEF ChannelInv, Producing
<1>4. AbstractQueue' = AbstractQueue BY <1>0, <1>3, QueueKept
<1>5. ASSUME NEW u \in Threads, op[u] = "d_copy"
      PROVE  m_data'[CellOf(pos[u])] = m_data[CellOf(pos[u])]
  <2>1. m_pos[CellOf(pos[u])] = pos[u] + 1 /\ pos[u] \in Nat
    BY <1>5 DEF ChannelInv, CallInv, Consuming, ChannelTypeOK
  <2> QED BY <1>2, <2>1
<1>6. \A u \in Threads : op'[u] = "d_copy" <=> op[u] = "d_copy" BY <1>1
<1>7. AbstractTaken' = AbstractTaken BY <1>0, <1>5, <1>6 DEF AbstractTaken, CellOf
<1> QED BY <1>4, <1>7

\* The value is published, which its producer had until then.
LEMMA EnqueuePublishStutters ==
  ASSUME ChannelInv, ChannelInv', NEW t \in Threads, EnqueuePublish(t)
  PROVE  AbstractQueue' = AbstractQueue /\ AbstractTaken' = AbstractTaken
<1> USE DEF EnqueuePublish, Return, Goto
<1>0. UNCHANGED <<m_epos, m_dpos, m_data, data>> OBVIOUS
<1>1. PICK q \in Nat, c \in Cells : q = pos[t] /\ c = CellOf(q)
  BY CellFacts DEF ChannelInv, ChannelTypeOK
<1>2. Producing(t) /\ m_data[c] = arg[t] BY <1>1 DEF Producing, ChannelInv, CallInv
<1>3. /\ Others(t) /\ op'[t] = "idle" /\ op[t] = "e_publish"
      /\ m_pos'[c] = q + 1
      /\ \A d \in Cells : d # c => m_pos'[d] = m_pos[d]
  BY <1>1 DEF ChannelInv, ChannelTypeOK, Others
<1>4. ASSUME NEW p \in Nat, m_dpos <= p, p < m_epos PROVE ValueAt(p)' = ValueAt(p)
  <2>1. CASE p = q
    <3>1. ValueAt(p) = arg[t] BY <1>1, <1>2, <1>4, <2>1, QueuedValue
    <3>2. ValueAt(p)' = m_data'[c] BY <1>1, <1>3, <2>1 DEF ValueAt, CellOf
    <3> QED BY <1>0, <1>2, <3>1, <3>2
  <2>2. CASE p # q
    <3>1. CellOf(p) # c
      <4> SUFFICES ASSUME CellOf(p) = c PROVE FALSE OBVIOUS
      <4>1. m_pos[c] = q BY <1>1, <1>2 DEF ChannelInv, CallInv
      <4>2. q = p + 1 BY <1>4, <2>2, <4>1, QueuedCell
      <4> QED BY <1>1, <4>2, CellFacts
    <3>2. CellOf(p) \in Cells BY CellFacts
    <3>3. \A u \in Threads : Producing(u) /\ pos[u] = p =>
                               Producing(u)' /\ pos'[u] = p /\ arg'[u] = arg[u]
      BY <1>1, <1>3, <2>2 DEF Others, Producing
    <3> QED BY <1>0, <1>3, <1>4, <3>1, <3>2, <3>3, ValueKept DEF ChannelInv
  <2> QED BY <2>1, <2>2
<1>5. AbstractQueue' = AbstractQueue BY <1>0, <1>4, QueueKept
<1>6. \A u \in Threads : /\ op'[u] = "d_copy" <=> op[u] = "d_copy"
                         /\ op[u] = "d_copy" => pos'[u] = pos[u]
  BY <1>3 DEF Others
<1>7. AbstractTaken' = AbstractTaken BY <1>0, <1>6 DEF AbstractTaken, CellOf
<1> QED BY <1>5, <1>7

\* The value is copied from its cell, and was the consumer's from the claim on.
LEMMA DequeueCopyStutters ==
  ASSUME ChannelInv, ChannelInv', NEW t \in Threads, DequeueCopy(t)
  PROVE  AbstractQueue' = AbstractQueue /\ AbstractTaken' = AbstractTaken
<1> USE DEF DequeueCopy, Goto
<1>0. UNCHANGED <<m_epos, m_dpos, m_pos, m_data, pos, arg>> OBVIOUS
<1>1. /\ op'[t] = "d_release" /\ op[t] = "d_copy" /\ data'[t] = m_data[CellOf(pos[t])]
      /\ \A u \in Threads \ {t} : op'[u] = op[u] /\ data'[u] = data[u]
  BY DEF ChannelInv, ChannelTypeOK
<1>2. ASSUME NEW p \in Nat, m_dpos <= p, p < m_epos PROVE ValueAt(p)' = ValueAt(p)
  BY <1>0, <1>1, <1>2, ValueKept DEF ChannelInv, Producing
<1>3. AbstractQueue' = AbstractQueue BY <1>0, <1>2, QueueKept
<1>4. AbstractTaken' = AbstractTaken BY <1>0, <1>1 DEF AbstractTaken, CellOf
<1> QED BY <1>3, <1>4

\* The cell of a dequeued position is given back.
LEMMA DequeueReleaseStutters ==
  ASSUME ChannelInv, ChannelInv', NEW t \in Threads, DequeueRelease(t)
  PROVE  AbstractQueue' = AbstractQueue /\ AbstractTaken' = AbstractTaken
<1> USE DEF DequeueRelease, Return, Goto
<1>0. UNCHANGED <<m_epos, m_dpos, m_data, arg, data>> OBVIOUS
<1>1. PICK q \in Nat, c \in Cells : q = pos[t] /\ c = CellOf(q)
  BY CellFacts DEF ChannelInv, ChannelTypeOK
<1>2. m_pos[c] = q + 1 /\ q < m_dpos /\ m_dpos \in Nat /\ m_epos \in Nat
  BY <1>1 DEF Consuming, ChannelInv, CallInv, ChannelTypeOK
<1>3. /\ Others(t) /\ op'[t] = "idle" /\ op[t] = "d_release"
      /\ \A d \in Cells : d # c => m_pos'[d] = m_pos[d]
  BY <1>1 DEF ChannelInv, ChannelTypeOK, Others
<1>4. ASSUME NEW p \in Nat, m_dpos <= p, p < m_epos PROVE ValueAt(p)' = ValueAt(p)
  <2>1. CellOf(p) # c
    <3> SUFFICES ASSUME CellOf(p) = c PROVE FALSE OBVIOUS
    <3>1. q + 1 = p + 1 \/ q + 1 = p BY <1>2, <1>4, QueuedCell
    <3>2. p = q + 1 BY <1>2, <1>4, <3>1
    <3> QED BY <1>1, <3>2, CellFacts
  <2>2. CellOf(p) \in Cells BY CellFacts
  <2>3. \A u \in Threads : Producing(u) /\ pos[u] = p =>
                             Producing(u)' /\ pos'[u] = p /\ arg'[u] = arg[u]
    BY <1>3 DEF Others, Producing
  <2> QED BY <1>0, <1>3, <1>4, <2>1, <2>2, <2>3, ValueKept DEF ChannelInv
<1>5. AbstractQueue' = AbstractQueue BY <1>0, <1>4, QueueKept
<1>6. \A u \in Threads : /\ op'[u] = "d_copy" <=> op[u] = "d_copy"
                         /\ op[u] = "d_copy" => pos'[u] = pos[u]
  BY <1>3 DEF Others
<1>7. AbstractTaken' = AbstractTaken BY <1>0, <1>6 DEF AbstractTaken, CellOf
<1> QED BY <1>5, <1>7

\* When a function is a sequence with one more element.
LEMMA IsAppend ==
  ASSUME NEW S, NEW s \in Seq(S), NEW v \in S, NEW n \in Nat, NEW q, n = Len(s),
         q = [i \in 1 .. n + 1 |-> q[i]], \A i \in 1 .. n : q[i] = s[i], q[n + 1] = v
  PROVE  q = Append(s, v)
<1>1. ASSUME NEW i \in 1 .. n + 1 PROVE q[i] \in S
  <2>1. CASE i = n + 1 BY <2>1
  <2>2. CASE i \in 1 .. n BY <2>2, ElementOfSeq
  <2> QED BY <2>1, <2>2
<1>2. q \in [1 .. n + 1 -> S] BY <1>1
<1>3. q \in Seq(S) /\ Len(q) = n + 1 BY <1>2
<1>4. /\ Append(s, v) \in Seq(S) /\ Len(Append(s, v)) = n + 1
      /\ \A i \in 1 .. n : Append(s, v)[i] = s[i]
      /\ Append(s, v)[n + 1] = v
  BY AppendProperties
<1>5. \A i \in 1 .. n + 1 : q[i] = Append(s, v)[i] BY <1>4
<1> QED BY <1>3, <1>4, <1>5, SeqEqual

\* A sequence without its first element.
LEMMA IsTail ==
  ASSUME NEW S, NEW s \in Seq(S), s # <<>>, NEW q,
         q = [i \in 1 .. Len(s) - 1 |-> s[i + 1]]
  PROVE  q = Tail(s)
<1>0. Len(s) \in Nat /\ Len(s) > 0 BY LenProperties, EmptySeq
<1>1. \A i \in 1 .. Len(s) - 1 : s[i + 1] \in S BY <1>0, ElementOfSeq
<1>2. q \in [1 .. Len(s) - 1 -> S] BY <1>1
<1>3. q \in Seq(S) /\ Len(q) = Len(s) - 1 BY <1>0, <1>2
<1>4. /\ Tail(s) \in Seq(S) /\ Len(Tail(s)) = Len(s) - 1
      /\ \A i \in 1 .. Len(Tail(s)) : Tail(s)[i] = s[i + 1]
  BY HeadTailProperties
<1> QED BY <1>3, <1>4, SeqEqual

\* A producer that claims m_epos has put its value at the tail, though it has yet to copy it.
LEMMA EnqueueClaimAppends ==
  ASSUME ChannelInv, ChannelInv', NEW t \in Threads, EnqueueClaim(t)
  PROVE  arg[t] \in Values /\ Abstract!Enqueue(arg[t])
<1> USE DEF EnqueueClaim, Goto
<1>0. /\ m_epos \in Nat /\ m_dpos \in Nat /\ pos[t] = m_epos /\ m_epos' = m_epos + 1
      /\ m_dpos <= m_epos /\ arg[t] \in Values /\ N \in Nat /\ N >= 2
      /\ UNCHANGED <<m_dpos, m_pos, m_data, pos, arg, data>>
  BY CellFacts DEF ChannelInv, ChannelTypeOK
<1>1. m_pos[CellOf(m_epos)] = m_epos /\ m_epos < m_dpos + N
  <2>1. m_pos[CellOf(m_epos)] >= m_epos BY <1>0 DEF ChannelInv, CallInv
  <2> QED BY <2>1, FreeCell
<1>2. op'[t] = "e_copy" /\ op[t] = "e_cas" /\ \A u \in Threads \ {t} : op'[u] = op[u]
  BY DEF ChannelInv, ChannelTypeOK
<1>3. ASSUME NEW p \in Nat, m_dpos <= p, p < m_epos PROVE ValueAt(p)' = ValueAt(p)
  <2>1. \A u \in Threads : Producing(u) => Producing(u)' BY <1>2 DEF Producing
  <2> QED BY <1>0, <1>3, <2>1, ValueKept DEF ChannelInv
<1>4. ASSUME NEW p \in Nat, p = m_epos PROVE ValueAt(p)' = arg[t]
  <2>1. Claimer(p)' = t BY <1>0, <1>2, <1>4, ClaimerIs DEF Claimer, Producing, ChannelInv, ClaimedOnce
  <2>2. m_pos'[CellOf(p)] # p + 1 BY <1>0, <1>1, <1>4
  <2> QED BY <1>0, <2>1, <2>2 DEF ValueAt, CellOf
<1>5. /\ AbstractQueue \in Seq(Values) /\ Len(AbstractQueue) = m_epos - m_dpos
      /\ \A i \in 1 .. m_epos - m_dpos : AbstractQueue[i] = Queued[m_dpos + i - 1]
  BY QueueIsSeq
<1>6. AbstractQueue' = Append(AbstractQueue, arg[t])
  <2>1. DOMAIN AbstractQueue' = 1 .. m_epos - m_dpos + 1
        /\ \A i \in 1 .. m_epos - m_dpos + 1 : AbstractQueue'[i] = Queued'[m_dpos + i - 1]
    BY <1>0 DEF AbstractQueue
  <2>2. \A p \in m_dpos .. m_epos : Queued'[p] = ValueAt(p)' BY <1>0 DEF Queued
  <2>3. \A p \in m_dpos .. m_epos - 1 : Queued[p] = ValueAt(p) BY DEF Queued
  <2>4. \A p \in m_dpos .. m_epos - 1 : Queued'[p] = Queued[p] BY <1>0, <1>3, <2>2, <2>3
  <2>5. Queued'[m_epos] = arg[t] BY <1>0, <1>4, <2>2
  <2>6. \A i \in 1 .. m_epos - m_dpos : m_dpos + i - 1 \in m_dpos .. m_epos - 1 BY <1>0
  <2>7. ASSUME NEW i \in 1 .. m_epos - m_dpos PROVE AbstractQueue'[i] = AbstractQueue[i]
    <3>1. i \in 1 .. m_epos - m_dpos + 1 BY <1>0
    <3>2. AbstractQueue'[i] = Queued'[m_dpos + i - 1] BY <2>1, <3>1
    <3> QED BY <1>5, <2>4, <2>6, <3>2
  <2>8. AbstractQueue'[m_epos - m_dpos + 1] = arg[t] BY <1>0, <2>1, <2>5
  <2>9. AbstractQueue' = [i \in 1 .. m_epos - m_dpos + 1 |-> AbstractQueue'[i]]
    BY <1>0 DEF AbstractQueue
  <2> HIDE DEF AbstractQueue
  <2>10. m_epos - m_dpos \in Nat BY <1>0
  <2> QED BY <1>0, <1>5, <2>7, <2>8, <2>9, <2>10, IsAppend
<1>7. AbstractTaken' = AbstractTaken BY <1>0, <1>2 DEF AbstractTaken, CellOf
<1>8. Len(AbstractQueue) < N BY <1>0, <1>1, <1>5
<1>9. Abstract!Enqueue(arg[t]) BY <1>6, <1>7, <1>8 DEF Abstract!Enqueue
<1> QED BY <1>0, <1>9

\* So it is a step of the queue.
LEMMA EnqueueClaimEnqueues ==
  ASSUME ChannelInv, ChannelInv', NEW t \in Threads, EnqueueClaim(t)
  PROVE  \E v \in Values : Abstract!Enqueue(v)
BY EnqueueClaimAppends

\* A consumer that claims m_dpos has taken the head, though it has yet to copy it.
LEMMA DequeueClaimDequeues ==
  ASSUME ChannelInv, ChannelInv', NEW t \in Threads, DequeueClaim(t)
  PROVE  Abstract!Dequeue(t)
<1> USE DEF DequeueClaim, Goto
<1>0. /\ m_epos \in Nat /\ m_dpos \in Nat /\ pos[t] = m_dpos /\ m_dpos' = m_dpos + 1
      /\ UNCHANGED <<m_epos, m_pos, m_data, pos, arg, data>>
  BY DEF ChannelInv, ChannelTypeOK
<1>1. m_pos[CellOf(m_dpos)] = m_dpos + 1 /\ m_dpos < m_epos
  <2>1. m_pos[CellOf(m_dpos)] >= m_dpos + 1 BY <1>0 DEF ChannelInv, CallInv
  <2> QED BY <2>1, FullCell
<1>2. op'[t] = "d_copy" /\ op[t] = "d_cas" /\ \A u \in Threads \ {t} : op'[u] = op[u]
  BY DEF ChannelInv, ChannelTypeOK
<1>3. ASSUME NEW p \in Nat, m_dpos <= p, p < m_epos PROVE ValueAt(p)' = ValueAt(p)
  <2>1. \A u \in Threads : Producing(u) => Producing(u)' BY <1>2 DEF Producing
  <2> QED BY <1>0, <1>3, <2>1, ValueKept DEF ChannelInv
<1>4. /\ AbstractQueue \in Seq(Values) /\ Len(AbstractQueue) = m_epos - m_dpos
      /\ \A i \in 1 .. m_epos - m_dpos : AbstractQueue[i] = Queued[m_dpos + i - 1]
  BY QueueIsSeq
<1>5. \A p \in m_dpos .. m_epos - 1 : Queued[p] = ValueAt(p) BY DEF Queued
<1>6. AbstractQueue # <<>> /\ Head(AbstractQueue) = m_data[CellOf(m_dpos)]
  <2>1. Len(AbstractQueue) \in Nat /\ Len(AbstractQueue) > 0 /\ AbstractQueue[1] = Queued[m_dpos]
    BY <1>0, <1>1, <1>4
  <2>2. Queued[m_dpos] = m_data[CellOf(m_dpos)] BY <1>0, <1>1, <1>5, QueuedValue
  <2> HIDE DEF AbstractQueue
  <2> QED BY <1>4, <2>1, <2>2
<1>7. AbstractQueue' = Tail(AbstractQueue)
  <2>1. AbstractQueue' = [i \in 1 .. m_epos - m_dpos - 1 |-> Queued'[m_dpos + 1 + i - 1]]
    BY <1>0 DEF AbstractQueue
  <2>2. \A p \in m_dpos + 1 .. m_epos - 1 : Queued'[p] = ValueAt(p)' BY <1>0 DEF Queued
  <2>3. \A p \in m_dpos + 1 .. m_epos - 1 : Queued'[p] = Queued[p] BY <1>0, <1>3, <1>5, <2>2
  <2>4. ASSUME NEW i \in 1 .. m_epos - m_dpos - 1
        PROVE  Queued'[m_dpos + 1 + i - 1] = AbstractQueue[i + 1]
    <3>1. m_dpos + 1 + i - 1 \in m_dpos + 1 .. m_epos - 1 /\ i + 1 \in 1 .. m_epos - m_dpos
          /\ m_dpos + 1 + i - 1 = m_dpos + (i + 1) - 1
      BY <1>0, <2>4
    <3> QED BY <1>4, <2>3, <3>1
  <2>5. AbstractQueue' = [i \in 1 .. Len(AbstractQueue) - 1 |-> AbstractQueue[i + 1]]
    BY <1>4, <2>1, <2>4
  <2> HIDE DEF AbstractQueue
  <2> QED BY <1>4, <1>6, <2>5, IsTail
<1>8. AbstractTaken' = [AbstractTaken EXCEPT ![t] = m_data[CellOf(m_dpos)]]
  BY <1>0, <1>2 DEF AbstractTaken, CellOf
<1> QED BY <1>6, <1>7, <1>8 DEF Abstract!Dequeue

\* The full ring of the constructor is an initial state of the queue.
LEMMA InitRefines ==
  ChannelInit => Abstract!Init
<1> SUFFICES ASSUME ChannelInit PROVE Abstract!Init OBVIOUS
<1>1. ChannelInv BY InitChannelInv
<1>2. AbstractQueue \in Seq(Values) /\ Len(AbstractQueue) = m_epos - m_dpos BY <1>1, QueueIsSeq
<1>3. m_epos - m_dpos <= N BY CellFacts DEF ChannelInit
<1>4. AbstractTaken \in [Threads -> Values]
  BY <1>1 DEF ChannelInit, AbstractTaken, ChannelInv, ChannelTypeOK
<1> QED BY <1>2, <1>3, <1>4 DEF Abstract!Init

\* Every step of the channel is one of the queue or changes nothing of it.
LEMMA NextRefines ==
  ASSUME ChannelInv, ChannelInv', [ChannelNext]_channelVars
  PROVE  [Abstract!Next]_<<AbstractQueue, AbstractTaken>>
<1>1. ASSUME NEW t \in Threads, ChannelStep(t)
      PROVE  [Abstract!Next]_<<AbstractQueue, AbstractTaken>>
  <2>1. CASE Quiet(t) BY <2>1, QuietStutters
  <2>2. CASE EnqueueClaim(t) BY <2>2, EnqueueClaimEnqueues DEF Abstract!Next
  <2>3. CASE DequeueClaim(t) BY <2>3, DequeueClaimDequeues DEF Abstract!Next
  <2>4. CASE EnqueueCopy(t) BY <2>4, EnqueueCopyStutters
  <2>5. CASE EnqueuePublish(t) BY <2>5, EnqueuePublishStutters
  <2>6. CASE DequeueCopy(t) BY <2>6, DequeueCopyStutters
  <2>7. CASE DequeueRelease(t) BY <2>7, DequeueReleaseStutters
  <2> QED BY <1>1, <2>1, <2>2, <2>3, <2>4, <2>5, <2>6, <2>7, QuietSteps DEF ChannelStep, InsideCall
<1>2. ASSUME UNCHANGED channelVars PROVE UNCHANGED <<AbstractQueue, AbstractTaken>>
  BY <1>2 DEF channelVars, AbstractQueue, Queued, ValueAt, Claimer, AbstractTaken, CellOf
<1> QED BY <1>1, <1>2 DEF ChannelNext

\* Bounded_channel is a bounded queue, for any number of threads and any number of cells
\* but one: what is enqueued first is dequeued first, by one thread.
THEOREM ChannelImplementsFifo ==
  ChannelSpec => ChannelIsFifo
<1>1. ChannelInv /\ [ChannelNext]_channelVars => ChannelInv' BY NextChannelInv
<1>2. ChannelInv /\ ChannelInv' /\ [ChannelNext]_channelVars
        => [Abstract!Next]_<<AbstractQueue, AbstractTaken>>
  BY NextRefines
<1> QED BY <1>1, <1>2, InitChannelInv, InitRefines, PTL DEF ChannelSpec, ChannelIsFifo, Abstract!Spec

-----------------------------------------------------------------------------
(* The free pool of the handler.                                           *)

\* A sequence without its element k, and one with another appended to it.
LEMMA SeqFacts ==
  ASSUME NEW S, NEW s \in Seq(S)
  PROVE  /\ \A k \in DOMAIN s : /\ s[k] \in S
                                /\ SubSeq(s, 1, k - 1) \o SubSeq(s, k + 1, Len(s)) \in Seq(S)
         /\ \A r \in Seq(S) : s \o r \in Seq(S)
         /\ \A e \in S : Append(s, e) \in Seq(S)
         /\ s # <<>> => Head(s) \in S /\ Tail(s) \in Seq(S)
<1>0. Len(s) \in Nat /\ DOMAIN s = 1 .. Len(s) BY LenProperties
<1>1. ASSUME NEW k \in DOMAIN s
      PROVE  s[k] \in S /\ SubSeq(s, 1, k - 1) \o SubSeq(s, k + 1, Len(s)) \in Seq(S)
  <2>1. \A i \in 1 .. Len(s) : s[i] \in S BY ElementOfSeq
  <2>2. SubSeq(s, 1, k - 1) \in Seq(S) BY <1>0, <2>1, SubSeqProperties
  <2>3. SubSeq(s, k + 1, Len(s)) \in Seq(S) BY <1>0, <2>1, SubSeqProperties
  <2> QED BY <1>0, <2>1, <2>2, <2>3, ConcatProperties
<1> QED BY <1>1, ConcatProperties, AppendProperties, HeadTailProperties

\* What the rings hold are slots of the handler.
LEMMA InitAioTypes ==
  Init => AioTypeOK
<1>0. 0 \in Slots BY CellFacts DEF Slots, Values, Cells
<1> QED BY <1>0, EmptySeq DEF Init, AioTypeOK

\* A queue's entry is prepared.
LEMMA PrepareTypes ==
  ASSUME AioTypeOK, NEW q, NEW i \in Slots, left' \in [Slots -> Nat], Prepare(q, i)
  PROVE  AioTypeOK'
<1> USE DEF AioTypeOK, Prepare
<1>1. ASSUME NEW p \in Queues PROVE sq'[p] \in Seq(SqEntry)
  <2>1. [slot |-> i, len |-> left'[i]] \in SqEntry BY DEF SqEntry
  <2>2. Append(sq[p], [slot |-> i, len |-> left'[i]]) \in Seq(SqEntry) BY <2>1, AppendProperties
  <2> QED BY <2>2
<1>2. sq' \in [Queues -> Seq(SqEntry)] BY <1>1
<1> QED BY <1>2

\* A queue's entries go to the kernel.
LEMMA EnterTypes ==
  ASSUME AioTypeOK, NEW q, Enter(q), UNCHANGED slotVars
  PROVE  AioTypeOK'
<1> USE DEF AioTypeOK, Enter, slotVars
<1>1. ASSUME NEW p \in Queues PROVE sq'[p] \in Seq(SqEntry) /\ inflight'[p] \in Seq(SqEntry)
  <2>1. sq[p] \in Seq(SqEntry) /\ inflight[p] \in Seq(SqEntry) /\ <<>> \in Seq(SqEntry) BY EmptySeq
  <2>2. inflight[p] \o sq[p] \in Seq(SqEntry) BY <2>1, ConcatProperties
  <2> QED BY <2>1, <2>2
<1>2. sq' \in [Queues -> Seq(SqEntry)] /\ inflight' \in [Queues -> Seq(SqEntry)] BY <1>1
<1> QED BY <1>2

\* Every step keeps the types of the rings.
LEMMA NextAioTypes ==
  ASSUME AioTypeOK, ChannelInv, [Next]_vars
  PROVE  AioTypeOK'
<1> USE DEF slotVars, ringVars, restVars, handlerVars
<1>1. ASSUME NEW s \in Submitters, SubmitterStep(s) PROVE AioTypeOK'
  <2>1. CASE UNCHANGED <<left, sq, inflight, cq>> BY <2>1 DEF AioTypeOK
  <2>2. CASE SubmitPrepare(s)
    <3>1. data[s] \in Slots BY AioThreads DEF ChannelInv, ChannelTypeOK, Slots
    <3>2. left' \in [Slots -> Nat] BY <2>2, ReqLenAssumption DEF SubmitPrepare, AioTypeOK
    <3> QED BY <2>2, <3>1, <3>2, PrepareTypes DEF SubmitPrepare
  <2>3. CASE SubmitEnter(s) BY <2>3, EnterTypes DEF SubmitEnter
  <2> QED BY <1>1, <2>1, <2>2, <2>3
          DEF SubmitterStep, Submit, ReserveCheck, ReserveWait, ReserveDequeue, ReserveCount,
              ReserveTestOne, ReserveResetEmpty, ReserveTestAll, ReserveResetNotFull,
              SubmitEnterFails, Abort, WaitForPendingOps, WaitReturns
<1>2. ASSUME NEW q \in Queues, ReaperStep(q) PROVE AioTypeOK'
  <2>0. Reaps(q) => Head(cq[q]) \in CqEntry /\ Tail(cq[q]) \in Seq(CqEntry)
    BY SeqFacts DEF AioTypeOK, Reaps
  <2>1. CASE UNCHANGED <<left, sq, inflight, cq>> BY <2>1 DEF AioTypeOK
  <2>2. CASE ReapShutdown(q)
    BY <2>0, <2>2 DEF ReapShutdown, AioTypeOK
  <2>3. CASE ReapPartial(q)
    <3>1. PICK i \in Slots, n \in Nat : i = Head(cq[q]).slot /\ n = Head(cq[q]).res
      BY <2>0, <2>3 DEF ReapPartial, CqEntry
    <3>2. left[i] > n /\ left' = [left EXCEPT ![i] = left[i] - n] BY <2>3, <3>1 DEF ReapPartial
    <3>3. left' \in [Slots -> Nat] BY <3>1, <3>2 DEF AioTypeOK
    <3> QED BY <2>3, <3>1, <3>3, PrepareTypes DEF ReapPartial
  <2>4. CASE ReapResubmit(q) BY <2>4, EnterTypes DEF ReapResubmit
  <2>5. CASE ReapComplete(q)
    <3>1. left' \in [Slots -> Nat] BY <2>5 DEF ReapComplete, AioTypeOK
    <3> QED BY <2>0, <2>5, <3>1 DEF ReapComplete, AioTypeOK
  <2> QED BY <1>2, <2>1, <2>2, <2>3, <2>4, <2>5
          DEF ReaperStep, ReapUnexpected, ReapResubmitFails, FreeEnqueue, FreeEnqueueFails, FreeUncount,
              FreeTestFull, FreeSetNotFull, FreeTestEmpty, FreeSetEmpty, Abort
<1>3. ASSUME NEW q \in Queues, KernelCompletes(q) PROVE AioTypeOK'
  <2>1. PICK k \in DOMAIN inflight[q] : \E n \in 1 .. inflight[q][k].len :
          /\ cq' = [cq EXCEPT ![q] = Append(cq[q], [slot |-> inflight[q][k].slot, res |-> n])]
          /\ inflight' = [inflight EXCEPT ![q] =
                SubSeq(inflight[q], 1, k - 1) \o SubSeq(inflight[q], k + 1, Len(inflight[q]))]
    BY <1>3 DEF KernelCompletes
  <2>2. PICK n \in 1 .. inflight[q][k].len :
          /\ cq' = [cq EXCEPT ![q] = Append(cq[q], [slot |-> inflight[q][k].slot, res |-> n])]
          /\ inflight' = [inflight EXCEPT ![q] =
                SubSeq(inflight[q], 1, k - 1) \o SubSeq(inflight[q], k + 1, Len(inflight[q]))]
    BY <2>1
  <2>3. inflight[q] \in Seq(SqEntry) /\ cq[q] \in Seq(CqEntry) BY DEF AioTypeOK
  <2>4. /\ inflight[q][k] \in SqEntry
        /\ SubSeq(inflight[q], 1, k - 1) \o SubSeq(inflight[q], k + 1, Len(inflight[q])) \in Seq(SqEntry)
    BY <2>3, SeqFacts
  <2>5. [slot |-> inflight[q][k].slot, res |-> n] \in CqEntry BY <2>2, <2>4 DEF SqEntry, CqEntry
  <2>6. Append(cq[q], [slot |-> inflight[q][k].slot, res |-> n]) \in Seq(CqEntry)
    BY <2>3, <2>5, AppendProperties
  <2>7. inflight' \in [Queues -> Seq(SqEntry)] BY <2>2, <2>4 DEF AioTypeOK
  <2>8. cq' \in [Queues -> Seq(CqEntry)] BY <2>2, <2>6 DEF AioTypeOK
  <2> QED BY <1>3, <2>7, <2>8 DEF KernelCompletes, AioTypeOK
<1>4. ASSUME Shutdown PROVE AioTypeOK'
  <2>1. CASE ShutdownAssertions
    <3>1. [slot |-> 0, res |-> 0] \in CqEntry BY CellFacts DEF CqEntry, Slots, Values, Cells
    <3>2. <<[slot |-> 0, res |-> 0]>> \in Seq(CqEntry) BY <3>1
    <3> QED BY <1>4, <2>1, <3>2 DEF Shutdown, AioTypeOK
  <2>2. CASE ~ShutdownAssertions BY <1>4, <2>2 DEF Shutdown, Abort, AioTypeOK
  <2> QED BY <2>1, <2>2
<1>5. ASSUME UNCHANGED vars \/ Terminated \/ \E t \in Threads : ChannelCall(t) PROVE AioTypeOK'
  BY <1>5 DEF Terminated, ChannelCall, vars, aioVars, AioTypeOK
<1> QED BY <1>1, <1>2, <1>3, <1>4, <1>5 DEF Next

\* Every step of the handler is a step of the channel or leaves it alone.
LEMMA HandlerUsesChannel ==
  ASSUME AioTypeOK, [Next]_vars
  PROVE  [ChannelNext]_channelVars
<1>1. ASSUME NEW s \in Submitters, SubmitterStep(s) PROVE [ChannelNext]_channelVars
  <2>0. s \in Threads BY AioThreads
  <2>1. CASE ReserveDequeue(s)
    BY <2>0, <2>1 DEF ReserveDequeue, ChannelNext, ChannelStep
  <2> QED BY <1>1, <2>1
          DEF SubmitterStep, Submit, ReserveCheck, ReserveWait, ReserveCount,
              ReserveTestOne, ReserveResetEmpty, ReserveTestAll, ReserveResetNotFull, SubmitPrepare,
              SubmitEnter, SubmitEnterFails, WaitForPendingOps, WaitReturns
<1>2. ASSUME NEW q \in Queues, ReaperStep(q) PROVE [ChannelNext]_channelVars
  <2>0. q \in Threads BY AioThreads
  <2>1. CASE FreeEnqueue(q) BY <2>0, <2>1 DEF FreeEnqueue, ChannelNext, ChannelStep
  <2>2. CASE FreeEnqueueFails(q) BY <2>0, <2>2 DEF FreeEnqueueFails, ChannelNext, ChannelStep
  <2>3. CASE ReapComplete(q)
    <3>0. cq[q] \in Seq(CqEntry) /\ cq[q] # <<>> BY <2>3 DEF ReapComplete, Reaps, AioTypeOK
    <3>1. Head(cq[q]) \in CqEntry BY <3>0, HeadTailProperties
    <3>2. BeginEnqueue(q, Head(cq[q]).slot) BY <2>3 DEF ReapComplete
    <3>3. Head(cq[q]).slot \in Values BY <3>1 DEF CqEntry, Slots
    <3> QED BY <2>0, <3>2, <3>3 DEF ChannelNext, ChannelStep
  <2> QED BY <1>2, <2>1, <2>2, <2>3
          DEF ReaperStep, ReapShutdown, ReapUnexpected, ReapPartial, ReapResubmit, ReapResubmitFails,
              FreeUncount, FreeTestFull, FreeSetNotFull, FreeTestEmpty, FreeSetEmpty
<1>3. ASSUME NEW q \in Queues, KernelCompletes(q) PROVE UNCHANGED channelVars
  BY <1>3 DEF KernelCompletes
<1>4. ASSUME NEW t \in Threads, ChannelCall(t) PROVE [ChannelNext]_channelVars
  BY <1>4 DEF ChannelCall, ChannelNext, ChannelStep
<1>5. ASSUME Shutdown \/ Terminated \/ UNCHANGED vars PROVE UNCHANGED channelVars
  BY <1>5 DEF Shutdown, Terminated, vars
<1> QED BY <1>1, <1>2, <1>3, <1>4, <1>5 DEF Next

\* The free pool of the handler is a bounded queue whatever submitters and reapers do with
\* it, for any number of submitters, queues, slots and requests.
THEOREM FreePoolIsFifo ==
  Spec => ChannelIsFifo
<1>1. ChannelInv /\ AioTypeOK /\ [Next]_vars => AioTypeOK' BY NextAioTypes
<1>2. AioTypeOK /\ [Next]_vars => [ChannelNext]_channelVars BY HandlerUsesChannel
<1>3. ChannelInv /\ [ChannelNext]_channelVars => ChannelInv' BY NextChannelInv
<1>4. Init => ChannelInit BY DEF Init
<1>5. Spec => ChannelSpec
  BY <1>1, <1>2, <1>3, <1>4, InitAioTypes, InitChannelInv, PTL DEF Spec, ChannelSpec
<1> QED BY <1>5, ChannelImplementsFifo

-----------------------------------------------------------------------------
(* The places of a slot.                                                   *)

\* Slot i is at place k of list K of thread t.
Held(i, K, t, k) ==
  \/ K = "pool" /\ t = 0 /\ k \in DOMAIN AbstractQueue /\ AbstractQueue[k] = i
  \/ K = "submitter" /\ t \in Submitters /\ k = 0 /\ HasSlot(t) /\ AbstractTaken[t] = i
  \/ K = "sq" /\ t \in Queues /\ k \in DOMAIN sq[t] /\ sq[t][k].slot = i
  \/ K = "kernel" /\ t \in Queues /\ k \in DOMAIN inflight[t] /\ inflight[t][k].slot = i
  \/ K = "cq" /\ t \in Queues /\ ~m_shutdown[t] /\ k \in DOMAIN cq[t] /\ cq[t][k].slot = i
  \/ K = "reaper" /\ t \in Queues /\ k = 0 /\ Returning(t) /\ arg[t] = i

OnePlace(i) ==
  /\ \E K, t, k : Held(i, K, t, k)
  /\ \A K, t, k, K2, t2, k2 : Held(i, K, t, k) /\ Held(i, K2, t2, k2) => K = K2 /\ t = t2 /\ k = k2

\* What the invariant claims until a request is completed in parts.
Whole == partial = 0 /\ ~aborted

\* The members of Holders are the places.
LEMMA HoldersArePlaces ==
  ASSUME NEW i
  PROVE  /\ \A K, t, k : Held(i, K, t, k) => <<K, t, k>> \in Holders(i)
         /\ \A h \in Holders(i) : \E K, t, k : h = <<K, t, k>> /\ Held(i, K, t, k)
<1>1. ASSUME NEW K, NEW t, NEW k, Held(i, K, t, k) PROVE <<K, t, k>> \in Holders(i)
  <2>1. CASE K = "pool" /\ t = 0 /\ k \in DOMAIN AbstractQueue /\ AbstractQueue[k] = i
    BY <2>1 DEF Holders
  <2>2. CASE K = "submitter" /\ t \in Submitters /\ k = 0 /\ HasSlot(t) /\ AbstractTaken[t] = i
    BY <2>2 DEF Holders
  <2>3. CASE K = "sq" /\ t \in Queues /\ k \in DOMAIN sq[t] /\ sq[t][k].slot = i
    <3>1. <<t, k>> \in EntriesOf(sq, Queues, i) BY <2>3 DEF EntriesOf
    <3> QED BY <2>3, <3>1 DEF Holders
  <2>4. CASE K = "kernel" /\ t \in Queues /\ k \in DOMAIN inflight[t] /\ inflight[t][k].slot = i
    <3>1. <<t, k>> \in EntriesOf(inflight, Queues, i) BY <2>4 DEF EntriesOf
    <3> QED BY <2>4, <3>1 DEF Holders
  <2>5. CASE K = "cq" /\ t \in Queues /\ ~m_shutdown[t] /\ k \in DOMAIN cq[t] /\ cq[t][k].slot = i
    <3> DEFINE E == EntriesOf(cq, {q \in Queues : ~m_shutdown[q]}, i)
    <3>1. <<t, k>> \in E BY <2>5 DEF EntriesOf
    <3>2. <<"cq", t, k>> \in {<<"cq", e[1], e[2]>> : e \in E}
      <4> HIDE DEF E
      <4> QED BY <3>1
    <3> QED BY <2>5, <3>2 DEF Holders
  <2>6. CASE K = "reaper" /\ t \in Queues /\ k = 0 /\ Returning(t) /\ arg[t] = i
    BY <2>6 DEF Holders
  <2> QED BY <1>1, <2>1, <2>2, <2>3, <2>4, <2>5, <2>6 DEF Held
<1>2. ASSUME NEW h \in Holders(i) PROVE \E K, t, k : h = <<K, t, k>> /\ Held(i, K, t, k)
  <2>1. ASSUME NEW k \in DOMAIN AbstractQueue, AbstractQueue[k] = i, h = <<"pool", 0, k>>
        PROVE  \E K, t, l : h = <<K, t, l>> /\ Held(i, K, t, l)
    <3>1. Held(i, "pool", 0, k) BY <2>1 DEF Held
    <3> QED BY <2>1, <3>1
  <2>2. ASSUME NEW s \in Submitters, HasSlot(s), AbstractTaken[s] = i, h = <<"submitter", s, 0>>
        PROVE  \E K, t, l : h = <<K, t, l>> /\ Held(i, K, t, l)
    <3>1. Held(i, "submitter", s, 0) BY <2>2 DEF Held
    <3> QED BY <2>2, <3>1
  <2>3. ASSUME NEW e \in EntriesOf(sq, Queues, i), h = <<"sq", e[1], e[2]>>
        PROVE  \E K, t, l : h = <<K, t, l>> /\ Held(i, K, t, l)
    <3>1. Held(i, "sq", e[1], e[2]) BY <2>3 DEF Held, EntriesOf
    <3> QED BY <2>3, <3>1
  <2>4. ASSUME NEW e \in EntriesOf(inflight, Queues, i), h = <<"kernel", e[1], e[2]>>
        PROVE  \E K, t, l : h = <<K, t, l>> /\ Held(i, K, t, l)
    <3>1. Held(i, "kernel", e[1], e[2]) BY <2>4 DEF Held, EntriesOf
    <3> QED BY <2>4, <3>1
  <2>5. ASSUME NEW e \in EntriesOf(cq, {q \in Queues : ~m_shutdown[q]}, i), h = <<"cq", e[1], e[2]>>
        PROVE  \E K, t, l : h = <<K, t, l>> /\ Held(i, K, t, l)
    <3>1. Held(i, "cq", e[1], e[2]) BY <2>5 DEF Held, EntriesOf
    <3> QED BY <2>5, <3>1
  <2>6. ASSUME NEW q \in Queues, Returning(q), arg[q] = i, h = <<"reaper", q, 0>>
        PROVE  \E K, t, l : h = <<K, t, l>> /\ Held(i, K, t, l)
    <3>1. Held(i, "reaper", q, 0) BY <2>6 DEF Held
    <3> QED BY <2>6, <3>1
  <2> QED BY <2>1, <2>2, <2>3, <2>4, <2>5, <2>6 DEF Holders
<1> QED BY <1>1, <1>2

\* A slot with one place has one holder.
LEMMA OneHolder ==
  ASSUME NEW i, OnePlace(i)
  PROVE  Cardinality(Holders(i)) = 1
<1>1. PICK K, t, k : Held(i, K, t, k) BY DEF OnePlace
<1>2. <<K, t, k>> \in Holders(i) BY <1>1, HoldersArePlaces
<1>3. \A h \in Holders(i) : h = <<K, t, k>> BY <1>1, HoldersArePlaces DEF OnePlace
<1>4. Holders(i) = {<<K, t, k>>} BY <1>2, <1>3
<1> QED BY <1>4, FS_Singleton

\* A slot i0 goes from the place (K0, t0, k0) to (K1, t1, k1), and the list it leaves closes
\* the gap; the other slots stay.
Moves(i0, K0, t0, k0, K1, t1, k1) ==
  /\ k0 \in Nat
  /\ \A i, k : Held(i, K0, t0, k) => k \in Nat
  /\ \A i : Held(i, K0, t0, k0) <=> i = i0
  /\ \A i, K, t, k : Held(i, K, t, k)' <=>
       \/ K = K1 /\ t = t1 /\ k = k1 /\ i = i0
       \/ ~(K = K0 /\ t = t0) /\ Held(i, K, t, k)
       \/ K = K0 /\ t = t0 /\ k \in Nat /\ k < k0 /\ Held(i, K0, t0, k)
       \/ K = K0 /\ t = t0 /\ k \in Nat /\ k >= k0 /\ Held(i, K0, t0, k + 1)

\* Then every slot is in one place as before.
LEMMA MoveOne ==
  ASSUME NEW i0, NEW K0, NEW t0, NEW k0, NEW K1, NEW t1, NEW k1,
         Moves(i0, K0, t0, k0, K1, t1, k1),
         NEW i, OnePlace(i)
  PROVE  OnePlace(i)'
<1> USE DEF Moves
<1>1. PICK K, t, k : Held(i, K, t, k) BY DEF OnePlace
<1>2. \A L, u, l : Held(i, L, u, l) => L = K /\ u = t /\ l = k BY <1>1 DEF OnePlace
<1>3. CASE K = K0 /\ t = t0 /\ k = k0
  <2>1. i = i0 BY <1>1, <1>3
  <2>2. \A l \in Nat : l < k0 \/ l > k0 => ~Held(i, K0, t0, l) BY <1>2, <1>3
  <2>3. \A l \in Nat : l >= k0 => ~Held(i, K0, t0, l + 1) BY <2>2
  <2>4. \A L, u, l : Held(i, L, u, l)' <=> L = K1 /\ u = t1 /\ l = k1
    BY <1>2, <1>3, <2>1, <2>2, <2>3
  <2> QED BY <2>4 DEF OnePlace
<1>4. CASE ~(K = K0 /\ t = t0)
  <2>1. i # i0 BY <1>2, <1>4
  <2>2. \A L, u, l : Held(i, L, u, l)' <=> L = K /\ u = t /\ l = k BY <1>1, <1>2, <1>4, <2>1
  <2> QED BY <2>2 DEF OnePlace
<1>5. CASE K = K0 /\ t = t0 /\ k # k0
  <2>0. k \in Nat /\ i # i0 BY <1>1, <1>2, <1>5
  <2>1. CASE k < k0
    <3>1. \A l \in Nat : l >= k0 => ~Held(i, K0, t0, l + 1) BY <1>2, <1>5, <2>0, <2>1
    <3>2. \A L, u, l : Held(i, L, u, l)' <=> L = K /\ u = t /\ l = k
      BY <1>1, <1>2, <1>5, <2>0, <2>1, <3>1
    <3> QED BY <3>2 DEF OnePlace
  <2>2. CASE k > k0
    <3>0. k - 1 \in Nat /\ k - 1 >= k0 /\ (k - 1) + 1 = k BY <2>0, <2>2
    <3>1. \A l \in Nat : Held(i, K0, t0, l + 1) => l = k - 1 BY <1>2, <2>0
    <3>2. \A l \in Nat : l < k0 => ~Held(i, K0, t0, l) BY <1>2, <2>0, <2>2
    <3>3. \A L, u, l : Held(i, L, u, l)' <=> L = K /\ u = t /\ l = k - 1
      BY <1>1, <1>2, <1>5, <2>0, <3>0, <3>1, <3>2
    <3> QED BY <3>3 DEF OnePlace
  <2> QED BY <1>5, <2>0, <2>1, <2>2
<1> QED BY <1>3, <1>4, <1>5

\* No slot moves.
LEMMA MoveNone ==
  ASSUME \A i, K, t, k : Held(i, K, t, k)' <=> Held(i, K, t, k), NEW i, OnePlace(i)
  PROVE  OnePlace(i)'
BY DEF OnePlace

\* The steps that move no slot.
LEMMA HeldKept ==
  ASSUME AbstractQueue' = AbstractQueue, UNCHANGED <<sq, inflight, cq, m_shutdown>>,
         \A s \in Submitters : /\ HasSlot(s)' <=> HasSlot(s)
                               /\ HasSlot(s) => AbstractTaken'[s] = AbstractTaken[s],
         \A q \in Queues : /\ Returning(q)' <=> Returning(q)
                           /\ Returning(q) => arg'[q] = arg[q]
  PROVE  \A i, K, t, k : Held(i, K, t, k)' <=> Held(i, K, t, k)
BY DEF Held

\* Every set of numbers that is not empty has a least one.
LEMMA LeastNumber ==
  ASSUME NEW T \in SUBSET Nat, T # {}
  PROVE  \E x \in T : \A y \in T : x <= y
<1>1. PICK x \in T : \A y \in T : ~ (<<y, x>> \in OpToRel(<, Nat))
  BY NatLessThanWellFounded, WFMin
<1>2. \A y \in T : ~(y < x) BY <1>1 DEF OpToRel
<1> QED BY <1>2

\* get_queue_for_submit() returns a queue.
LEMMA LeastPendingQueue ==
  ASSUME m_pending \in [Queues -> Nat]
  PROVE  LeastPending \in Queues
<1>0. NumQueues \in Nat /\ NumQueues >= 1 BY AioThreads
<1>1. Queues # {} /\ Queues \in SUBSET Nat BY <1>0 DEF Queues
<1> DEFINE T == {m_pending[q] : q \in Queues}
<1>2. T \in SUBSET Nat /\ T # {} BY <1>1
<1>3. PICK x \in T : \A y \in T : x <= y BY <1>2, LeastNumber
<1> DEFINE U == {q \in Queues : m_pending[q] = x}
<1>4. U \in SUBSET Nat /\ U # {} BY <1>1, <1>3
<1>5. PICK q \in U : \A p \in U : q <= p BY <1>4, LeastNumber
<1>6. \A p \in Queues : \/ m_pending[q] < m_pending[p]
                        \/ m_pending[q] = m_pending[p] /\ q <= p
  <2> TAKE p \in Queues
  <2>1. x <= m_pending[p] /\ m_pending[q] = x /\ m_pending[p] \in Nat /\ x \in Nat BY <1>2, <1>3, <1>5
  <2>2. m_pending[p] = x => q <= p BY <1>5
  <2> HIDE DEF T, U
  <2> QED BY <2>1, <2>2
<1>7. q \in Queues BY <1>5
<1> QED BY <1>6, <1>7 DEF LeastPending

\* The slots that are given away.
Owned == {i \in Slots : owner[i] # NoOwner}

CountOK == m_n_reserved = Cardinality(Counted) + Cardinality(Owned)

Places == \A i \in Slots : OnePlace(i)

\* A step that leaves the rings and the slots alone.
LEMMA RingsKept ==
  ASSUME HandlerInv, UNCHANGED <<sq, inflight, cq, m_shutdown, m_pending, owner, left>>,
         HandlerTypeOK', CallsAgree', QuietAfterShutdown',
         \A s \in Submitters : at[s] = "enter" => at'[s] = "enter" /\ queue_of'[s] = queue_of[s]
  PROVE  HandlerInv'
<1>1. EntriesWhole' BY DEF HandlerInv, EntriesWhole
<1>2. OwnersInRings' BY DEF HandlerInv, OwnersInRings, InRing
<1>3. PreparedByOne' BY DEF HandlerInv, PreparedByOne
<1>4. PendingCounts' BY DEF HandlerInv, PendingCounts
<1> QED BY <1>1, <1>2, <1>3, <1>4 DEF HandlerInv

\* A step that leaves the rings and the slots alone and moves no slot.
LEMMA StaysPut ==
  ASSUME HandlerInv, Places,
         UNCHANGED <<sq, inflight, cq, m_shutdown, m_pending, owner, left>>,
         AbstractQueue' = AbstractQueue,
         HandlerTypeOK', CallsAgree', QuietAfterShutdown',
         \A s \in Submitters : /\ HasSlot(s)' <=> HasSlot(s)
                               /\ HasSlot(s) => AbstractTaken'[s] = AbstractTaken[s]
                               /\ at[s] = "enter" => at'[s] = "enter" /\ queue_of'[s] = queue_of[s],
         \A q \in Queues : /\ Returning(q)' <=> Returning(q)
                           /\ Returning(q) => arg'[q] = arg[q]
  PROVE  HandlerInv' /\ Places'
<1>1. \A i, K, t, k : Held(i, K, t, k)' <=> Held(i, K, t, k) BY HeldKept
<1>2. Places' BY <1>1, MoveNone DEF Places, Slots
<1> QED BY <1>2, RingsKept

\* The counter is right if neither it nor the sets it counts have changed.
LEMMA CountKept ==
  ASSUME CountOK, Counted' = Counted, UNCHANGED <<owner, m_n_reserved>>
  PROVE  CountOK'
BY DEF CountOK, Owned, Slots

-----------------------------------------------------------------------------
(* The steps that move no slot.                                            *)

\* What the induction carries.
Good == HandlerInv /\ Places /\ CountOK

\* The threads are the submitters and the reapers.
LEMMA TwoKinds ==
  /\ \A s \in Submitters : s \in Threads /\ s \notin Queues
  /\ \A q \in Queues : q \in Threads /\ q \notin Submitters
BY AioThreads

\* The channel is not used, so its queue does not change.
LEMMA ChannelKept ==
  ASSUME UNCHANGED channelVars
  PROVE  /\ UNCHANGED <<AbstractQueue, AbstractTaken, op, arg, data>>
         /\ UNCHANGED <<m_epos, m_dpos, m_pos, m_data, pos>>
BY DEF channelVars, AbstractQueue, Queued, ValueAt, Claimer, AbstractTaken, CellOf

Resting == {"idle", "waited", "empty_asleep"}

\* A submitter goes from one place to another and nothing else happens that matters.
LEMMA SubmitterMoves ==
  ASSUME Good, NEW s \in Submitters, NEW w \in SubmitterPlaces, Move(s, w),
         UNCHANGED <<ringVars, slotVars, m_n_reserved, channelVars>>,
         queue_of' \in [Submitters -> Queues],
         \A u \in Submitters \ {s} : queue_of'[u] = queue_of[u],
         at[s] \notin {"dequeue", "count", "enter"}, w # "count",
         w \in Reserving <=> at[s] \in Reserving,
         at[s] \in Resting => w \in Resting \/ \A q \in Queues : ~m_shutdown[q]
  PROVE  Good'
<1>0. HandlerTypeOK /\ CallsAgree /\ QuietAfterShutdown BY DEF Good, HandlerInv
<1>1. UNCHANGED <<AbstractQueue, AbstractTaken, op, arg>> BY ChannelKept
<1>2. UNCHANGED <<sq, inflight, cq, m_shutdown, m_pending, owner, left>> BY DEF ringVars, slotVars
<1>3. /\ DOMAIN at' = Threads /\ at'[s] = w
      /\ \A u \in Threads \ {s} : at'[u] = at[u]
  BY <1>0, TwoKinds DEF HandlerTypeOK, Move
<1>4. HandlerTypeOK' BY <1>0, <1>2, <1>3, TwoKinds DEF HandlerTypeOK, Slots
<1>5. CallsAgree' BY <1>0, <1>1, <1>3, TwoKinds DEF CallsAgree
<1>6. QuietAfterShutdown'
  BY <1>0, <1>2, <1>3, TwoKinds DEF QuietAfterShutdown, Resting, HandlerTypeOK
<1>7. \A u \in Submitters : /\ HasSlot(u)' <=> HasSlot(u)
                            /\ at[u] = "enter" => at'[u] = "enter" /\ queue_of'[u] = queue_of[u]
  BY <1>1, <1>3, TwoKinds DEF HasSlot
<1>8. \A q \in Queues : Returning(q)' <=> Returning(q) BY <1>1, <1>3, TwoKinds DEF Returning
<1>9. HandlerInv' /\ Places'
  BY <1>1, <1>2, <1>4, <1>5, <1>6, <1>7, <1>8, StaysPut DEF Good
<1>10. Counted' = Counted BY <1>3, TwoKinds DEF Counted
<1>11. CountOK' BY <1>2, <1>10, CountKept DEF Good
<1> QED BY <1>9, <1>11 DEF Good

\* The steps of a submitter that only look at the counter and the events.
LEMMA SubmitterLooks ==
  ASSUME Good, NEW s \in Submitters,
         \/ Submit(s) \/ ReserveCheck(s) \/ ReserveWait(s) \/ ReserveTestOne(s) \/ ReserveResetEmpty(s)
         \/ ReserveTestAll(s) \/ ReserveResetNotFull(s) \/ WaitForPendingOps(s) \/ WaitReturns(s)
  PROVE  Good'
<1> USE DEF handlerVars, At, SubmitterPlaces, Reserving, Resting
<1>0. queue_of \in [Submitters -> Queues] /\ m_pending \in [Queues -> Nat]
  BY DEF Good, HandlerInv, HandlerTypeOK
<1>1. CASE Submit(s)
  <2>1. LeastPending \in Queues BY <1>0, LeastPendingQueue
  <2>2. /\ queue_of' \in [Submitters -> Queues]
        /\ \A u \in Submitters \ {s} : queue_of'[u] = queue_of[u]
    BY <1>0, <1>1, <2>1 DEF Submit
  <2> QED BY <1>1, <2>2, SubmitterMoves DEF Submit
<1>2. CASE ReserveCheck(s)
  <2>1. CASE m_n_reserved = N BY <1>0, <1>2, <2>1, SubmitterMoves DEF ReserveCheck
  <2>2. CASE m_n_reserved # N BY <1>0, <1>2, <2>2, SubmitterMoves DEF ReserveCheck
  <2> QED BY <2>1, <2>2
<1>3. CASE ReserveWait(s)
  <2>1. CASE m_not_full BY <1>0, <1>3, <2>1, SubmitterMoves DEF ReserveWait
  <2>2. CASE ~m_not_full BY <1>0, <1>3, <2>2, SubmitterMoves DEF ReserveWait
  <2> QED BY <2>1, <2>2
<1>4. CASE ReserveTestOne(s)
  <2>1. CASE m_n_reserved = 1 BY <1>0, <1>4, <2>1, SubmitterMoves DEF ReserveTestOne
  <2>2. CASE m_n_reserved # 1 BY <1>0, <1>4, <2>2, SubmitterMoves DEF ReserveTestOne
  <2> QED BY <2>1, <2>2
<1>5. CASE ReserveResetEmpty(s) BY <1>0, <1>5, SubmitterMoves DEF ReserveResetEmpty
<1>6. CASE ReserveTestAll(s)
  <2>1. CASE m_n_reserved = N BY <1>0, <1>6, <2>1, SubmitterMoves DEF ReserveTestAll
  <2>2. CASE m_n_reserved # N BY <1>0, <1>6, <2>2, SubmitterMoves DEF ReserveTestAll
  <2> QED BY <2>1, <2>2
<1>7. CASE ReserveResetNotFull(s) BY <1>0, <1>7, SubmitterMoves DEF ReserveResetNotFull
<1>8. CASE WaitForPendingOps(s)
  <2>1. CASE m_is_empty BY <1>0, <1>8, <2>1, SubmitterMoves DEF WaitForPendingOps
  <2>2. CASE ~m_is_empty BY <1>0, <1>8, <2>2, SubmitterMoves DEF WaitForPendingOps
  <2> QED BY <2>1, <2>2
<1>9. CASE WaitReturns(s) BY <1>0, <1>9, SubmitterMoves DEF WaitReturns
<1> QED BY <1>1, <1>2, <1>3, <1>4, <1>5, <1>6, <1>7, <1>8, <1>9

\* A reaper goes on after it has returned its slot, and perhaps wakes sleepers.
LEMMA ReaperMoves ==
  ASSUME Good, NEW q \in Queues, NEW w \in ReaperPlaces, w \notin {"free", "uncount"},
         at[q] \notin {"free", "uncount"},
         UNCHANGED <<ringVars, slotVars, m_n_reserved, channelVars, queue_of>>,
         DOMAIN at' = Threads, at'[q] = w,
         \A u \in Threads \ {q} : \/ at'[u] = at[u]
                                  \/ at[u] = "not_full_asleep" /\ at'[u] = "check"
                                  \/ at[u] = "empty_asleep" /\ at'[u] = "waited"
  PROVE  Good'
<1>0. HandlerTypeOK /\ CallsAgree /\ QuietAfterShutdown BY DEF Good, HandlerInv
<1>1. UNCHANGED <<AbstractQueue, AbstractTaken, op, arg>> BY ChannelKept
<1>2. UNCHANGED <<sq, inflight, cq, m_shutdown, m_pending, owner, left>> BY DEF ringVars, slotVars
<1>3. \A p \in Queues \ {q} : at'[p] = at[p] BY <1>0, TwoKinds DEF HandlerTypeOK, ReaperPlaces
<1>4. HandlerTypeOK' BY <1>0, <1>2, <1>3, TwoKinds DEF HandlerTypeOK, Slots, SubmitterPlaces
<1>5. CallsAgree' BY <1>0, <1>1, <1>3, TwoKinds DEF CallsAgree
<1>6. QuietAfterShutdown' BY <1>0, <1>2, TwoKinds DEF QuietAfterShutdown
<1>7. \A u \in Submitters : /\ HasSlot(u)' <=> HasSlot(u)
                            /\ at[u] = "enter" => at'[u] = "enter" /\ queue_of'[u] = queue_of[u]
  BY <1>1, TwoKinds DEF HasSlot, Reserving
<1>8. \A p \in Queues : Returning(p)' <=> Returning(p) BY <1>1, <1>3, TwoKinds DEF Returning
<1>9. HandlerInv' /\ Places'
  BY <1>1, <1>2, <1>4, <1>5, <1>6, <1>7, <1>8, StaysPut DEF Good
<1>10. Counted' = Counted BY <1>3, TwoKinds DEF Counted, Reserving
<1>11. CountOK' BY <1>2, <1>10, CountKept DEF Good
<1> QED BY <1>9, <1>11 DEF Good

\* The steps of a reaper that only look at the counter and set the events.
LEMMA ReaperLooks ==
  ASSUME Good, NEW q \in Queues,
         FreeTestFull(q) \/ FreeSetNotFull(q) \/ FreeTestEmpty(q) \/ FreeSetEmpty(q)
  PROVE  Good'
<1> USE DEF handlerVars, At, ReaperPlaces
<1>0. DOMAIN at = Threads /\ q \in Threads BY TwoKinds DEF Good, HandlerInv, HandlerTypeOK
<1>1. CASE FreeTestFull(q) BY <1>0, <1>1, ReaperMoves DEF FreeTestFull, Move
<1>2. CASE FreeSetNotFull(q) BY <1>0, <1>2, ReaperMoves DEF FreeSetNotFull, MoveAll
<1>3. CASE FreeTestEmpty(q) BY <1>0, <1>3, ReaperMoves DEF FreeTestEmpty, Move
<1>4. CASE FreeSetEmpty(q) BY <1>0, <1>4, ReaperMoves DEF FreeSetEmpty, MoveAll
<1> QED BY <1>1, <1>2, <1>3, <1>4

\* A call of the channel goes on, and the pool stays the same.
LEMMA CallMoves ==
  ASSUME Good, NEW t \in Threads, NEW w,
         UNCHANGED <<ringVars, slotVars, m_n_reserved, queue_of, AbstractQueue, AbstractTaken>>,
         DOMAIN at' = Threads, at'[t] = w,
         \A u \in Threads \ {t} : at'[u] = at[u] /\ op'[u] = op[u] /\ arg'[u] = arg[u],
         t \in Submitters =>
           /\ at[t] = "dequeue"
           /\ \/ w = "dequeue" /\ op'[t] \in {"idle"} \cup DequeueOps
              \/ w = "count" /\ op'[t] = "idle"
           /\ HasSlot(t)' <=> HasSlot(t),
         t \in Queues =>
           /\ at[t] = "free"
           /\ \/ w = "free" /\ op'[t] \in EnqueueOps
              \/ w = "uncount" /\ op'[t] = "idle"
           /\ Returning(t)' <=> Returning(t)
           /\ Returning(t) => arg'[t] = arg[t]
  PROVE  Good'
<1>0. HandlerTypeOK /\ CallsAgree /\ QuietAfterShutdown BY DEF Good, HandlerInv
<1>2. UNCHANGED <<sq, inflight, cq, m_shutdown, m_pending, owner, left>> BY DEF ringVars, slotVars
<1>3. t \in Submitters \/ t \in Queues BY AioThreads
<1>4. HandlerTypeOK'
  BY <1>0, <1>2, <1>3, TwoKinds DEF HandlerTypeOK, Slots, SubmitterPlaces, ReaperPlaces, Reserving
<1>5. CallsAgree' BY <1>0, <1>3, TwoKinds DEF CallsAgree
<1>6. QuietAfterShutdown' BY <1>0, <1>2, <1>3, TwoKinds DEF QuietAfterShutdown
<1>7. \A u \in Submitters : /\ HasSlot(u)' <=> HasSlot(u)
                            /\ at[u] = "enter" => at'[u] = "enter" /\ queue_of'[u] = queue_of[u]
  BY TwoKinds DEF HasSlot
<1>8. \A p \in Queues : /\ Returning(p)' <=> Returning(p)
                        /\ Returning(p) => arg'[p] = arg[p]
  BY TwoKinds DEF Returning
<1>9. HandlerInv' /\ Places'
  BY <1>2, <1>4, <1>5, <1>6, <1>7, <1>8, StaysPut DEF Good
<1>10. Counted' = Counted BY <1>3, TwoKinds DEF Counted, Reserving
<1>11. CountOK' BY <1>2, <1>10, CountKept DEF Good
<1> QED BY <1>9, <1>11 DEF Good

\* A submitter in dequeue(), but for the step that claims a position.
LEMMA Good_Dequeue ==
  ASSUME Good, ChannelInv, ChannelInv', NEW s \in Submitters,
         \/ ReserveDequeue(s)
         \/ UNCHANGED aioVars /\ (DequeueLoadSeq(s) \/ DequeueReload(s) \/ DequeueCopy(s))
  PROVE  Good'
<1>0. s \in Threads /\ DOMAIN at = Threads /\ s \notin Queues /\ op[s] \in {"idle"} \cup EnqueueOps \cup DequeueOps
  BY TwoKinds DEF Good, HandlerInv, HandlerTypeOK, ChannelInv, ChannelTypeOK
<1>1. op[s] # "idle" => at[s] = "dequeue" BY DEF Good, HandlerInv, CallsAgree
<1>2. op \in [Threads -> {"idle"} \cup EnqueueOps \cup DequeueOps] BY DEF ChannelInv, ChannelTypeOK
<1> USE DEF Goto, Return, DequeueOps, Reserving, At
<1>3. CASE UNCHANGED aioVars /\ (DequeueLoadSeq(s) \/ DequeueReload(s) \/ DequeueCopy(s))
  <2>1. UNCHANGED <<AbstractQueue, AbstractTaken>>
    <3>1. DequeueLoadSeq(s) \/ DequeueReload(s) => Quiet(s) BY <1>0, QuietSteps
    <3> QED BY <1>0, <1>3, <3>1, QuietStutters, DequeueCopyStutters
  <2>2. /\ op[s] # "idle" /\ op'[s] \in DequeueOps /\ arg' = arg
        /\ op[s] \in {"d_copy", "d_release"} <=> op'[s] \in {"d_copy", "d_release"}
        /\ \A u \in Threads \ {s} : op'[u] = op[u]
    BY <1>0, <1>2, <1>3 DEF DequeueLoadSeq, DequeueReload, DequeueCopy
  <2>3. HasSlot(s)' <=> HasSlot(s) BY <1>3, <2>2 DEF HasSlot, aioVars
  <2>4. UNCHANGED <<ringVars, slotVars, m_n_reserved, queue_of, at>> BY <1>3 DEF aioVars, handlerVars
  <2> QED BY <1>0, <1>1, <2>1, <2>2, <2>3, <2>4, CallMoves
<1>4. CASE ReserveDequeue(s)
  <2>1. UNCHANGED <<ringVars, slotVars, m_n_reserved, queue_of>> /\ at[s] = "dequeue"
    BY <1>4 DEF ReserveDequeue, handlerVars
  <2>2. CASE (BeginDequeue(s) \/ DequeueEmpty(s)) /\ UNCHANGED at
    <3>1. Quiet(s) BY <1>0, <2>2, QuietSteps
    <3>2. UNCHANGED <<AbstractQueue, AbstractTaken>> BY <1>0, <3>1, QuietStutters
    <3>3. /\ op[s] \in {"idle", "d_seq"} /\ op'[s] \in {"idle", "d_seq"} /\ arg' = arg
          /\ \A u \in Threads \ {s} : op'[u] = op[u]
      BY <1>0, <1>2, <2>2 DEF BeginDequeue, DequeueEmpty
    <3>4. HasSlot(s)' <=> HasSlot(s) BY <2>2, <3>3 DEF HasSlot
    <3> QED BY <1>0, <2>1, <2>2, <3>2, <3>3, <3>4, CallMoves
  <2>3. CASE DequeueRelease(s) /\ Move(s, "count")
    <3>1. UNCHANGED <<AbstractQueue, AbstractTaken>> BY <1>0, <2>3, DequeueReleaseStutters
    <3>2. /\ op[s] = "d_release" /\ op'[s] = "idle" /\ arg' = arg
          /\ \A u \in Threads \ {s} : op'[u] = op[u]
      BY <1>0, <1>2, <2>3 DEF DequeueRelease
    <3>3. DOMAIN at' = Threads /\ at'[s] = "count" /\ \A u \in Threads \ {s} : at'[u] = at[u]
      BY <1>0, <2>3 DEF Move
    <3>4. HasSlot(s)' <=> HasSlot(s) BY <3>2, <3>3 DEF HasSlot
    <3> QED BY <1>0, <2>1, <3>1, <3>2, <3>3, <3>4, CallMoves
  <2> QED BY <1>4, <2>2, <2>3 DEF ReserveDequeue
<1> QED BY <1>3, <1>4

\* A reaper in enqueue(), but for the step that claims a position.
LEMMA Good_Enqueue ==
  ASSUME Good, ChannelInv, ChannelInv', NEW q \in Queues,
         \/ FreeEnqueue(q)
         \/ UNCHANGED aioVars /\ (EnqueueLoadSeq(q) \/ EnqueueReload(q) \/ EnqueueCopy(q))
  PROVE  Good'
<1>0. q \in Threads /\ DOMAIN at = Threads /\ q \notin Submitters
  BY TwoKinds DEF Good, HandlerInv, HandlerTypeOK
<1>1. op[q] # "idle" => at[q] = "free" BY DEF Good, HandlerInv, CallsAgree
<1>2. /\ op \in [Threads -> {"idle"} \cup EnqueueOps \cup DequeueOps]
      /\ arg \in [Threads -> Values]
  BY DEF ChannelInv, ChannelTypeOK
<1> USE DEF Goto, Return, EnqueueOps, At
<1>3. CASE UNCHANGED aioVars /\ (EnqueueLoadSeq(q) \/ EnqueueReload(q) \/ EnqueueCopy(q))
  <2>1. UNCHANGED <<AbstractQueue, AbstractTaken>>
    <3>1. EnqueueLoadSeq(q) \/ EnqueueReload(q) => Quiet(q) BY <1>0, QuietSteps
    <3> QED BY <1>0, <1>3, <3>1, QuietStutters, EnqueueCopyStutters
  <2>2. /\ op[q] # "idle" /\ op'[q] \in EnqueueOps /\ arg' = arg
        /\ op[q] \in {"e_copy", "e_publish"} <=> op'[q] \in {"e_copy", "e_publish"}
        /\ \A u \in Threads \ {q} : op'[u] = op[u]
    BY <1>0, <1>2, <1>3 DEF EnqueueLoadSeq, EnqueueReload, EnqueueCopy
  <2>3. Returning(q)' <=> Returning(q) BY <1>3, <2>2 DEF Returning, aioVars
  <2>4. UNCHANGED <<ringVars, slotVars, m_n_reserved, queue_of, at>> BY <1>3 DEF aioVars, handlerVars
  <2> QED BY <1>0, <1>1, <2>1, <2>2, <2>3, <2>4, CallMoves
<1>4. CASE FreeEnqueue(q)
  <2>1. UNCHANGED <<ringVars, slotVars, m_n_reserved, queue_of>> /\ at[q] = "free"
    BY <1>4 DEF FreeEnqueue, handlerVars
  <2>2. EnqueuePublish(q) /\ Move(q, "uncount") BY <1>4 DEF FreeEnqueue
  <2>3. UNCHANGED <<AbstractQueue, AbstractTaken>> BY <1>0, <2>2, EnqueuePublishStutters
  <2>4. /\ op[q] = "e_publish" /\ op'[q] = "idle"
        /\ \A u \in Threads \ {q} : op'[u] = op[u] /\ arg'[u] = arg[u]
    BY <1>0, <1>2, <2>2 DEF EnqueuePublish
  <2>5. DOMAIN at' = Threads /\ at'[q] = "uncount" /\ \A u \in Threads \ {q} : at'[u] = at[u]
    BY <1>0, <2>2 DEF Move
  <2>6. ~Returning(q)' /\ ~Returning(q) BY <2>4, <2>5 DEF Returning
  <2> QED BY <1>0, <2>1, <2>3, <2>4, <2>5, <2>6, CallMoves
<1> QED BY <1>3, <1>4

\* The sets that the counter counts are finite.
LEMMA CountedFinite ==
  /\ IsFiniteSet(Counted) /\ IsFiniteSet(Owned)
  /\ Cardinality(Counted) \in Nat /\ Cardinality(Owned) \in Nat
<1>1. N \in Nat /\ N >= 2 BY CellFacts
<1>2. IsFiniteSet(Queues) BY AioThreads, FS_Interval DEF Queues
<1>3. IsFiniteSet(Slots) BY <1>1, FS_Interval DEF Slots, Values, Cells
<1>4. IsFiniteSet(Submitters \cup Queues) BY <1>2, AioThreads, FS_Union
<1>5. Counted \in SUBSET (Submitters \cup Queues) BY DEF Counted
<1>6. Owned \in SUBSET Slots BY DEF Owned
<1> QED BY <1>3, <1>4, <1>5, <1>6, FS_Subset, FS_CardinalityType

\* A submitter is counted, a reaper is counted off.
LEMMA Good_Count ==
  ASSUME Good, (\E s \in Submitters : ReserveCount(s)) \/ (\E q \in Queues : FreeUncount(q))
  PROVE  Good'
<1>0. /\ HandlerTypeOK /\ CallsAgree /\ QuietAfterShutdown /\ DOMAIN at = Threads
      /\ m_n_reserved \in Int /\ CountOK
  BY DEF Good, HandlerInv, HandlerTypeOK
<1>1. UNCHANGED channelVars /\ UNCHANGED ringVars /\ UNCHANGED slotVars /\ UNCHANGED queue_of
  BY DEF ReserveCount, FreeUncount
<1>2. UNCHANGED <<AbstractQueue, AbstractTaken, op, arg>> BY <1>1, ChannelKept
<1>3. UNCHANGED <<sq, inflight, cq, m_shutdown, m_pending, owner, left>> BY <1>1 DEF ringVars, slotVars
<1>4. PICK t \in Threads :
        \/ t \in Submitters /\ at[t] = "count" /\ at' = [at EXCEPT ![t] = "test_one"] /\ m_n_reserved' = m_n_reserved + 1
        \/ t \in Queues /\ at[t] = "uncount" /\ at' = [at EXCEPT ![t] = "test_full"] /\ m_n_reserved' = m_n_reserved - 1
  BY TwoKinds DEF ReserveCount, FreeUncount, At, Move
<1>5. /\ DOMAIN at' = Threads /\ \A u \in Threads \ {t} : at'[u] = at[u]
      /\ t \in Submitters => at[t] = "count" /\ at'[t] = "test_one" /\ m_n_reserved' = m_n_reserved + 1
      /\ t \in Queues => at[t] = "uncount" /\ at'[t] = "test_full" /\ m_n_reserved' = m_n_reserved - 1
  BY <1>0, <1>4, TwoKinds
<1>6. HandlerTypeOK'
  BY <1>0, <1>1, <1>3, <1>4, <1>5, TwoKinds DEF HandlerTypeOK, Slots, SubmitterPlaces, ReaperPlaces, Reserving
<1>7. CallsAgree' BY <1>0, <1>2, <1>4, <1>5, TwoKinds DEF CallsAgree
<1>8. QuietAfterShutdown' BY <1>0, <1>3, <1>4, <1>5, TwoKinds DEF QuietAfterShutdown
<1>9. \A u \in Submitters : /\ HasSlot(u)' <=> HasSlot(u)
                            /\ at[u] = "enter" => at'[u] = "enter" /\ queue_of'[u] = queue_of[u]
  BY <1>1, <1>2, <1>5, TwoKinds DEF HasSlot, Reserving
<1>10. \A p \in Queues : Returning(p)' <=> Returning(p) BY <1>2, <1>5, TwoKinds DEF Returning
<1>11. HandlerInv' /\ Places'
  BY <1>2, <1>3, <1>6, <1>7, <1>8, <1>9, <1>10, StaysPut DEF Good
<1>12. Owned' = Owned BY <1>3 DEF Owned, Slots
<1>13. CASE t \in Submitters
  <2>1. Counted' = Counted \cup {t} /\ t \notin Counted BY <1>5, <1>13, TwoKinds DEF Counted, Reserving
  <2>2. Cardinality(Counted') = Cardinality(Counted) + 1 BY <2>1, CountedFinite, FS_AddElement
  <2> QED BY <1>0, <1>5, <1>11, <1>12, <1>13, <2>2, CountedFinite DEF Good, CountOK
<1>14. CASE t \in Queues
  <2>1. Counted' = Counted \ {t} /\ t \in Counted BY <1>5, <1>14, TwoKinds DEF Counted, Reserving
  <2>2. Cardinality(Counted') = Cardinality(Counted) - 1 BY <2>1, CountedFinite, FS_RemoveElement
  <2> QED BY <1>0, <1>5, <1>11, <1>12, <1>14, <2>2, CountedFinite DEF Good, CountOK
<1> QED BY <1>4, <1>13, <1>14

-----------------------------------------------------------------------------
(* The steps that move a slot.                                             *)

\* The places of a list of n values, n + 1 values, or n - 1 values.
LEMMA ListFacts ==
  ASSUME NEW S, NEW s \in Seq(S)
  PROVE  /\ Len(s) \in Nat /\ DOMAIN s = 1 .. Len(s)
         /\ \A e \in S : /\ DOMAIN Append(s, e) = 1 .. Len(s) + 1
                         /\ Append(s, e)[Len(s) + 1] = e
                         /\ \A k \in 1 .. Len(s) : Append(s, e)[k] = s[k]
                         /\ Len(Append(s, e)) = Len(s) + 1
         /\ s # <<>> => /\ Len(s) >= 1 /\ DOMAIN Tail(s) = 1 .. Len(s) - 1
                        /\ \A k \in 1 .. Len(s) - 1 : Tail(s)[k] = s[k + 1]
                        /\ Head(s) = s[1] /\ Len(Tail(s)) = Len(s) - 1
<1>1. Len(s) \in Nat /\ DOMAIN s = 1 .. Len(s) BY LenProperties
<1>2. ASSUME NEW e \in S
      PROVE  /\ DOMAIN Append(s, e) = 1 .. Len(s) + 1
             /\ Append(s, e)[Len(s) + 1] = e
             /\ \A k \in 1 .. Len(s) : Append(s, e)[k] = s[k]
             /\ Len(Append(s, e)) = Len(s) + 1
  BY <1>2, AppendProperties, LenProperties
<1>3. ASSUME s # <<>>
      PROVE  /\ Len(s) >= 1 /\ DOMAIN Tail(s) = 1 .. Len(s) - 1
             /\ \A k \in 1 .. Len(s) - 1 : Tail(s)[k] = s[k + 1]
             /\ Head(s) = s[1] /\ Len(Tail(s)) = Len(s) - 1
  BY <1>1, <1>3, EmptySeq, HeadTailProperties, LenProperties
<1> QED BY <1>1, <1>2, <1>3

\* A submitter claims the head of the pool.
LEMMA Good_DequeueClaim ==
  ASSUME Good, ChannelInv, ChannelInv', NEW s \in Submitters, DequeueClaim(s), UNCHANGED aioVars
  PROVE  Good'
<1>0. s \in Threads /\ DOMAIN at = Threads /\ s \notin Queues
  BY TwoKinds DEF Good, HandlerInv, HandlerTypeOK
<1>1. /\ op[s] = "d_cas" /\ op'[s] = "d_copy" /\ arg' = arg
      /\ \A u \in Threads \ {s} : op'[u] = op[u]
  BY <1>0 DEF DequeueClaim, Goto, ChannelInv, ChannelTypeOK
<1>2. at[s] = "dequeue" BY <1>1 DEF Good, HandlerInv, CallsAgree
<1>3. /\ UNCHANGED <<at, m_n_reserved, sq, inflight, cq, m_shutdown, m_pending, owner, left, queue_of>>
  BY DEF aioVars, handlerVars, ringVars, slotVars
<1>4. /\ AbstractQueue # <<>> /\ AbstractQueue' = Tail(AbstractQueue)
      /\ AbstractTaken' = [AbstractTaken EXCEPT ![s] = Head(AbstractQueue)]
  BY <1>0, DequeueClaimDequeues DEF Abstract!Dequeue
<1>5. AbstractQueue \in Seq(Values) BY QueueIsSeq
<1>i. PICK i0 : i0 = AbstractQueue[1] OBVIOUS
<1>6. PICK n \in Nat : /\ n >= 1 /\ DOMAIN AbstractQueue = 1 .. n /\ i0 = AbstractQueue[1]
                       /\ DOMAIN AbstractQueue' = 1 .. n - 1
                       /\ \A k \in 1 .. n - 1 : AbstractQueue'[k] = AbstractQueue[k + 1]
                       /\ Head(AbstractQueue) = i0
  BY <1>4, <1>5, <1>i, ListFacts
<1>7. DOMAIN AbstractTaken = Threads BY DEF AbstractTaken
<1>8. /\ ~HasSlot(s) /\ HasSlot(s)' /\ AbstractTaken'[s] = i0
      /\ \A u \in Submitters \ {s} : /\ HasSlot(u)' <=> HasSlot(u)
                                     /\ AbstractTaken'[u] = AbstractTaken[u]
  BY <1>0, <1>1, <1>2, <1>3, <1>4, <1>6, <1>7, TwoKinds DEF HasSlot, Reserving
<1>9. \A q \in Queues : Returning(q)' <=> Returning(q) BY <1>0, <1>1, <1>3, TwoKinds DEF Returning
<1>10. /\ \A i, k : Held(i, "pool", 0, k) => k \in Nat
       /\ \A i : Held(i, "pool", 0, 1) <=> i = i0
  BY <1>6 DEF Held
<1>11. \A i, K, t, k : Held(i, K, t, k)' <=>
           \/ K = "submitter" /\ t = s /\ k = 0 /\ i = i0
           \/ ~(K = "pool" /\ t = 0) /\ Held(i, K, t, k)
           \/ K = "pool" /\ t = 0 /\ k \in Nat /\ k < 1 /\ Held(i, "pool", 0, k)
           \/ K = "pool" /\ t = 0 /\ k \in Nat /\ k >= 1 /\ Held(i, "pool", 0, k + 1)
  <2> TAKE i, K, t, k
  <2>1. CASE K = "pool" BY <1>6, <2>1 DEF Held
  <2>2. CASE K = "submitter" BY <1>8, <2>2 DEF Held
  <2>3. CASE K \notin {"pool", "submitter"} BY <1>1, <1>3, <1>9, <2>3 DEF Held
  <2> QED BY <2>1, <2>2, <2>3
<1>12. Places'
  <2> SUFFICES ASSUME NEW i \in Slots PROVE OnePlace(i)' BY DEF Places, Slots
  <2>1. OnePlace(i) BY DEF Good, Places
  <2>2. Moves(i0, "pool", 0, 1, "submitter", s, 0) BY <1>10, <1>11 DEF Moves
  <2> QED BY <2>1, <2>2, MoveOne
<1>13. HandlerInv'
  <2>1. HandlerTypeOK' /\ QuietAfterShutdown'
    BY <1>3 DEF Good, HandlerInv, HandlerTypeOK, QuietAfterShutdown, Slots
  <2>2. CallsAgree' BY <1>0, <1>1, <1>2, <1>3, TwoKinds DEF Good, HandlerInv, CallsAgree, DequeueOps
  <2> QED BY <1>3, <2>1, <2>2, RingsKept DEF Good
<1>14. Counted' = Counted BY <1>3 DEF Counted
<1>15. CountOK' BY <1>3, <1>14, CountKept DEF Good
<1> QED BY <1>12, <1>13, <1>15 DEF Good

\* A reaper claims the position behind the last of the pool.
LEMMA Good_EnqueueClaim ==
  ASSUME Good, ChannelInv, ChannelInv', NEW q \in Queues, EnqueueClaim(q), UNCHANGED aioVars
  PROVE  Good'
<1>0. q \in Threads /\ DOMAIN at = Threads /\ q \notin Submitters
  BY TwoKinds DEF Good, HandlerInv, HandlerTypeOK
<1>1. /\ op[q] = "e_cas" /\ op'[q] = "e_copy" /\ arg' = arg
      /\ \A u \in Threads \ {q} : op'[u] = op[u]
  BY <1>0 DEF EnqueueClaim, Goto, ChannelInv, ChannelTypeOK
<1>2. at[q] = "free" BY <1>1 DEF Good, HandlerInv, CallsAgree
<1>3. /\ UNCHANGED <<at, m_n_reserved, sq, inflight, cq, m_shutdown, m_pending, owner, left, queue_of>>
  BY DEF aioVars, handlerVars, ringVars, slotVars
<1>4. /\ arg[q] \in Values /\ AbstractQueue' = Append(AbstractQueue, arg[q])
      /\ AbstractTaken' = AbstractTaken
  BY <1>0, EnqueueClaimAppends DEF Abstract!Enqueue
<1>5. AbstractQueue \in Seq(Values) BY QueueIsSeq
<1>i. PICK i0 : i0 = arg[q] OBVIOUS
<1>6. PICK n \in Nat : /\ DOMAIN AbstractQueue = 1 .. n /\ i0 = arg[q]
                       /\ DOMAIN AbstractQueue' = 1 .. n + 1
                       /\ \A k \in 1 .. n : AbstractQueue'[k] = AbstractQueue[k]
                       /\ AbstractQueue'[n + 1] = i0
  BY <1>4, <1>5, <1>i, ListFacts
<1>7. \A u \in Submitters : HasSlot(u)' <=> HasSlot(u) BY <1>0, <1>1, <1>3, TwoKinds DEF HasSlot
<1>8. /\ Returning(q) /\ ~Returning(q)'
      /\ \A p \in Queues \ {q} : Returning(p)' <=> Returning(p)
  BY <1>0, <1>1, <1>2, <1>3, TwoKinds DEF Returning
<1>9. /\ \A i, k : Held(i, "reaper", q, k) => k \in Nat
      /\ \A i : Held(i, "reaper", q, 0) <=> i = i0
  BY <1>6, <1>8 DEF Held
<1>10. \A i, K, t, k : Held(i, K, t, k)' <=>
           \/ K = "pool" /\ t = 0 /\ k = n + 1 /\ i = i0
           \/ ~(K = "reaper" /\ t = q) /\ Held(i, K, t, k)
           \/ K = "reaper" /\ t = q /\ k \in Nat /\ k < 0 /\ Held(i, "reaper", q, k)
           \/ K = "reaper" /\ t = q /\ k \in Nat /\ k >= 0 /\ Held(i, "reaper", q, k + 1)
  <2> TAKE i, K, t, k
  <2>1. CASE K = "pool" BY <1>6, <2>1 DEF Held
  <2>2. CASE K = "reaper" BY <1>1, <1>8, <2>2 DEF Held
  <2>3. CASE K \notin {"pool", "reaper"} BY <1>3, <1>4, <1>7, <2>3 DEF Held
  <2> QED BY <2>1, <2>2, <2>3
<1>11. Places'
  <2> SUFFICES ASSUME NEW i \in Slots PROVE OnePlace(i)' BY DEF Places, Slots
  <2>1. OnePlace(i) BY DEF Good, Places
  <2>2. Moves(i0, "reaper", q, 0, "pool", 0, n + 1) BY <1>9, <1>10 DEF Moves
  <2> QED BY <2>1, <2>2, MoveOne
<1>12. HandlerInv'
  <2>1. HandlerTypeOK' /\ QuietAfterShutdown'
    BY <1>3 DEF Good, HandlerInv, HandlerTypeOK, QuietAfterShutdown, Slots
  <2>2. CallsAgree' BY <1>0, <1>1, <1>2, <1>3, TwoKinds DEF Good, HandlerInv, CallsAgree, EnqueueOps
  <2> QED BY <1>3, <2>1, <2>2, RingsKept DEF Good
<1>13. Counted' = Counted BY <1>3 DEF Counted
<1>14. CountOK' BY <1>3, <1>13, CountKept DEF Good
<1> QED BY <1>11, <1>12, <1>14 DEF Good

RingKinds == {"sq", "kernel", "cq"}

\* The slots in the rings are those with a place there.
LEMMA RingPlaces ==
  ASSUME NEW i
  PROVE  /\ InRing(i) <=> \E K \in RingKinds : \E t, k : Held(i, K, t, k)
         /\ InRing(i)' <=> \E K \in RingKinds : \E t, k : Held(i, K, t, k)'
<1>1. InRing(i) => \E K \in RingKinds : \E t, k : Held(i, K, t, k) BY DEF Held, InRing, RingKinds
<1>2. ASSUME NEW K \in RingKinds, NEW t, NEW k, Held(i, K, t, k) PROVE InRing(i)
  BY <1>2 DEF Held, InRing, RingKinds
<1>3. InRing(i)' => \E K \in RingKinds : \E t, k : Held(i, K, t, k)' BY DEF Held, InRing, RingKinds
<1>4. ASSUME NEW K \in RingKinds, NEW t, NEW k, Held(i, K, t, k)' PROVE InRing(i)'
  BY <1>4 DEF Held, InRing, RingKinds
<1> QED BY <1>1, <1>2, <1>3, <1>4

\* What a move does to the rings.
LEMMA RingMoves ==
  ASSUME NEW i0, NEW K0, NEW t0, NEW k0, NEW K1, NEW t1, NEW k1,
         Moves(i0, K0, t0, k0, K1, t1, k1), OnePlace(i0), NEW i
  PROVE  /\ K0 \notin RingKinds /\ K1 \in RingKinds => ~InRing(i0) /\ (InRing(i)' <=> InRing(i) \/ i = i0)
         /\ K0 \in RingKinds /\ K1 \in RingKinds => (InRing(i)' <=> InRing(i))
         /\ K0 \in RingKinds /\ K1 \notin RingKinds => InRing(i0) /\ (InRing(i)' <=> InRing(i) /\ i # i0)
<1>0. OnePlace(i0)' BY MoveOne
<1> USE DEF Moves
<1>1. Held(i0, K0, t0, k0) /\ Held(i0, K1, t1, k1)' BY Zenon
<1>2. ASSUME NEW K \in RingKinds, NEW t, NEW k, Held(i, K, t, k)' PROVE (K = K1 /\ i = i0) \/ InRing(i)
  <2>1. \/ K = K1 /\ i = i0
        \/ Held(i, K, t, k) \/ Held(i, K, t, k + 1)
    BY <1>2
  <2> QED BY <2>1, RingPlaces
<1>3. ASSUME NEW K \in RingKinds, NEW t, NEW k, Held(i, K, t, k), i # i0 PROVE InRing(i)'
  <2>1. CASE ~(K = K0 /\ t = t0)
    <3>1. Held(i, K, t, k)' BY <1>3, <2>1
    <3> QED BY <3>1, RingPlaces
  <2>2. CASE K = K0 /\ t = t0 /\ k < k0
    <3>1. Held(i, K, t, k)' BY <1>3, <2>2
    <3> QED BY <3>1, RingPlaces
  <2>3. CASE K = K0 /\ t = t0 /\ k > k0
    <3>1. k \in Nat BY <1>3, <2>3
    <3>2. k - 1 \in Nat /\ k - 1 >= k0 /\ (k - 1) + 1 = k BY <2>3, <3>1
    <3>3. Held(i, K, t, k - 1)' BY <1>3, <2>3, <3>2
    <3> QED BY <3>3, RingPlaces
  <2>4. CASE K = K0 /\ t = t0 /\ k = k0 BY <1>3, <2>4
  <2>5. K = K0 /\ t = t0 => k \in Nat BY <1>3
  <2> QED BY <2>1, <2>2, <2>3, <2>4, <2>5
<1>4. K0 \in RingKinds <=> InRing(i0)
  <2>1. \A K, t, k : Held(i0, K, t, k) => K = K0 BY <1>1 DEF OnePlace
  <2> QED BY <1>1, <2>1, RingPlaces
<1>5. InRing(i)' => InRing(i) \/ (K1 \in RingKinds /\ i = i0) BY <1>2, RingPlaces
<1>6. InRing(i) /\ i # i0 => InRing(i)' BY <1>3, RingPlaces
<1>7. K1 \in RingKinds => InRing(i0)' BY <1>1, RingPlaces
<1>8. K1 \notin RingKinds => ~InRing(i0)'
  <2> SUFFICES ASSUME K1 \notin RingKinds, NEW K \in RingKinds, NEW t, NEW k, Held(i0, K, t, k)'
               PROVE  FALSE
    BY RingPlaces
  <2>1. K = K1 BY <1>0, <1>1 DEF OnePlace
  <2> QED BY <2>1
<1> HIDE DEF Moves
<1> QED BY <1>4, <1>5, <1>6, <1>7, <1>8

\* A submitter fills its slot and prepares an entry for it.
LEMMA Good_SubmitPrepare ==
  ASSUME Good, ChannelInv, AioTypeOK, NEW s \in Submitters, SubmitPrepare(s)
  PROVE  Good'
<1> USE DEF SubmitPrepare, Prepare, At
<1>0. s \in Threads /\ s \notin Queues /\ HandlerTypeOK /\ CallsAgree /\ EntriesWhole /\ OwnersInRings
      /\ PreparedByOne /\ PendingCounts /\ QuietAfterShutdown
  BY TwoKinds DEF Good, HandlerInv
<1>1. UNCHANGED <<AbstractQueue, AbstractTaken, op, arg, data>> BY ChannelKept
<1>2a. queue_of[s] \in Queues BY <1>0 DEF HandlerTypeOK
<1>2b. PICK d : d = data[s] OBVIOUS
<1>2c. PICK q \in Queues : q = queue_of[s] BY <1>2a
<1>2. d = data[s] /\ q = queue_of[s] BY <1>2b, <1>2c
<1>3. /\ d \in Slots /\ op[s] = "idle" /\ AbstractTaken[s] = d
  BY <1>0, <1>2 DEF ChannelInv, ChannelTypeOK, CallsAgree, AbstractTaken, Slots
<1>4. \A p \in Queues : ~m_shutdown[p] BY <1>0 DEF QuietAfterShutdown
<1>5. /\ DOMAIN at = Threads /\ DOMAIN at' = Threads /\ at[s] = "prep" /\ at'[s] = "enter"
      /\ \A u \in Threads \ {s} : at'[u] = at[u]
  BY <1>0 DEF HandlerTypeOK, Move
<1>6. /\ left' = [left EXCEPT ![d] = ReqLen] /\ owner' = [owner EXCEPT ![d] = s]
      /\ left \in [Slots -> Nat] /\ owner \in [Slots -> Submitters \cup {NoOwner}]
      /\ left'[d] = ReqLen /\ \A i \in Slots \ {d} : left'[i] = left[i] /\ owner'[i] = owner[i]
      /\ owner'[d] = s
  BY <1>0, <1>2, <1>3 DEF AioTypeOK, HandlerTypeOK
<1>7. PICK e : e = [slot |-> d, len |-> ReqLen] OBVIOUS
<1>8. e \in SqEntry /\ e.slot = d /\ e.len = ReqLen BY <1>3, <1>7, ReqLenAssumption DEF SqEntry
<1>9. /\ sq' = [sq EXCEPT ![q] = Append(sq[q], e)] /\ UNCHANGED <<m_shutdown, inflight, cq, queue_of, m_n_reserved>>
      /\ m_pending' = [m_pending EXCEPT ![q] = m_pending[q] + 1]
  BY <1>2, <1>6, <1>7 DEF handlerVars
<1>10. sq \in [Queues -> Seq(SqEntry)] /\ inflight \in [Queues -> Seq(SqEntry)] /\ cq \in [Queues -> Seq(CqEntry)]
  BY DEF AioTypeOK
<1>11. PICK n \in Nat : /\ n = Len(sq[q]) /\ DOMAIN sq[q] = 1 .. n /\ DOMAIN sq'[q] = 1 .. n + 1
                        /\ sq'[q][n + 1] = e /\ \A k \in 1 .. n : sq'[q][k] = sq[q][k]
                        /\ Len(sq'[q]) = n + 1
  <2>1. sq'[q] = Append(sq[q], e) /\ sq[q] \in Seq(SqEntry) BY <1>9, <1>10
  <2> QED BY <1>8, <2>1, ListFacts
<1>12. \A p \in Queues \ {q} : sq'[p] = sq[p] BY <1>9, <1>10
<1>13. /\ HasSlot(s) /\ ~HasSlot(s)'
       /\ \A u \in Submitters \ {s} : HasSlot(u)' <=> HasSlot(u)
  BY <1>1, <1>3, <1>5, TwoKinds DEF HasSlot, Reserving
<1>14. \A p \in Queues : Returning(p)' <=> Returning(p) BY <1>0, <1>1, <1>5, TwoKinds DEF Returning
<1>15. Moves(d, "submitter", s, 0, "sq", q, n + 1)
  <2>1. \A i, k : Held(i, "submitter", s, k) => k \in Nat BY DEF Held
  <2>2. \A i : Held(i, "submitter", s, 0) <=> i = d BY <1>3, <1>13 DEF Held
  <2>3. ASSUME NEW i, NEW K, NEW t, NEW k
        PROVE  Held(i, K, t, k)' <=>
                 \/ K = "sq" /\ t = q /\ k = n + 1 /\ i = d
                 \/ ~(K = "submitter" /\ t = s) /\ Held(i, K, t, k)
                 \/ K = "submitter" /\ t = s /\ k \in Nat /\ k < 0 /\ Held(i, "submitter", s, k)
                 \/ K = "submitter" /\ t = s /\ k \in Nat /\ k >= 0 /\ Held(i, "submitter", s, k + 1)
    <3>1. CASE K = "submitter" BY <1>1, <1>13, <3>1 DEF Held
    <3>2. CASE K = "sq" /\ t = q BY <1>8, <1>11, <3>2 DEF Held
    <3>3. CASE K = "sq" /\ t # q BY <1>12, <3>3 DEF Held
    <3>4. CASE K \notin {"submitter", "sq"} BY <1>1, <1>9, <1>14, <3>4 DEF Held
    <3> QED BY <3>1, <3>2, <3>3, <3>4
  <2> QED BY <2>1, <2>2, <2>3 DEF Moves
<1>16. OnePlace(d) BY <1>3 DEF Good, Places
<1>17. Places'
  <2> SUFFICES ASSUME NEW i \in Slots PROVE OnePlace(i)' BY DEF Places, Slots
  <2>1. OnePlace(i) BY DEF Good, Places
  <2> QED BY <1>15, <2>1, MoveOne
<1>18. ~InRing(d) /\ \A i : InRing(i)' <=> InRing(i) \/ i = d
  BY <1>15, <1>16, RingMoves DEF RingKinds
<1>19. HandlerInv'
  <2>1. HandlerTypeOK'
    <3>1. m_pending' \in [Queues -> Nat] BY <1>0, <1>9 DEF HandlerTypeOK
    <3> QED BY <1>0, <1>5, <1>6, <1>9, <3>1, TwoKinds DEF HandlerTypeOK, Slots, SubmitterPlaces
  <2>2. CallsAgree' BY <1>0, <1>1, <1>3, <1>5, TwoKinds DEF CallsAgree
  <2>3. EntriesWhole'
    <3>1. \A i \in Slots : InRing(i) => left'[i] = left[i] BY <1>6, <1>18
    <3>2. ASSUME NEW p \in Queues, NEW k \in DOMAIN sq[p]
          PROVE  sq[p][k].len = ReqLen /\ left'[sq[p][k].slot] = ReqLen
      <4>1. sq[p][k] \in SqEntry BY <1>10, SeqFacts
      <4>2. sq[p][k].slot \in Slots /\ InRing(sq[p][k].slot) BY <4>1 DEF SqEntry, InRing
      <4> QED BY <1>0, <3>1, <4>2 DEF EntriesWhole
    <3>3. ASSUME NEW p \in Queues, NEW k \in DOMAIN inflight[p]
          PROVE  inflight[p][k].len = ReqLen /\ left'[inflight[p][k].slot] = ReqLen
      <4>1. inflight[p][k] \in SqEntry BY <1>10, SeqFacts
      <4>2. inflight[p][k].slot \in Slots /\ InRing(inflight[p][k].slot) BY <4>1 DEF SqEntry, InRing
      <4> QED BY <1>0, <3>1, <4>2 DEF EntriesWhole
    <3>4. ASSUME NEW p \in Queues, NEW k \in DOMAIN cq[p]
          PROVE  cq[p][k].res = ReqLen /\ left'[cq[p][k].slot] = ReqLen
      <4>1. cq[p][k] \in CqEntry BY <1>10, SeqFacts
      <4>2. cq[p][k].slot \in Slots /\ InRing(cq[p][k].slot) BY <1>4, <4>1 DEF CqEntry, InRing
      <4> QED BY <1>0, <1>4, <3>1, <4>2 DEF EntriesWhole
    <3>5. ASSUME NEW p \in Queues, NEW k \in DOMAIN sq'[p]
          PROVE  sq'[p][k].len = ReqLen /\ left'[sq'[p][k].slot] = ReqLen
      BY <1>6, <1>8, <1>11, <1>12, <3>2
    <3> QED BY <1>9, <3>3, <3>4, <3>5 DEF EntriesWhole
  <2>4. OwnersInRings' BY <1>0, <1>6, <1>18, NoOwnerAssumption DEF OwnersInRings, Slots
  <2>5. PreparedByOne'
    <3> SUFFICES ASSUME NEW p \in Queues, sq'[p] # <<>>
                 PROVE  \E u \in Submitters : at'[u] = "enter" /\ queue_of'[u] = p
      BY DEF PreparedByOne
    <3>1. CASE p = q BY <1>2, <1>5, <1>9, <3>1
    <3>2. CASE p # q
      <4>1. PICK u \in Submitters : at[u] = "enter" /\ queue_of[u] = p
        BY <1>0, <1>12, <3>2 DEF PreparedByOne
      <4> QED BY <1>5, <1>9, <4>1, TwoKinds
    <3> QED BY <3>1, <3>2
  <2>6. PendingCounts'
    <3> SUFFICES ASSUME NEW p \in Queues
                 PROVE  m_pending'[p] = Len(sq'[p]) + Len(inflight'[p]) + Len(cq'[p])
      BY DEF PendingCounts
    <3>1. m_pending[p] = Len(sq[p]) + Len(inflight[p]) + Len(cq[p]) BY <1>0, <1>4 DEF PendingCounts
    <3>2. Len(inflight[p]) \in Nat /\ Len(cq[p]) \in Nat /\ Len(sq[p]) \in Nat BY <1>10, LenProperties
    <3>3. CASE p = q
      <4>1. m_pending'[p] = m_pending[p] + 1 BY <1>0, <1>9, <3>3 DEF HandlerTypeOK
      <4>2. /\ Len(sq'[p]) = Len(sq[p]) + 1
            /\ Len(inflight'[p]) = Len(inflight[p]) /\ Len(cq'[p]) = Len(cq[p])
        BY <1>9, <1>11, <3>3
      <4>3. PICK a \in Nat, b \in Nat, c \in Nat :
              a = Len(sq[p]) /\ b = Len(inflight[p]) /\ c = Len(cq[p])
        BY <3>2
      <4>4. m_pending'[p] = (a + b + c) + 1 BY <3>1, <4>1, <4>3, Zenon
      <4>5. Len(sq'[p]) + Len(inflight'[p]) + Len(cq'[p]) = (a + 1) + b + c BY <4>2, <4>3, Zenon
      <4>6. (a + b + c) + 1 = (a + 1) + b + c OBVIOUS
      <4> QED BY <4>4, <4>5, <4>6, Zenon
    <3>4. CASE p # q BY <1>0, <1>9, <1>12, <3>1, <3>4 DEF HandlerTypeOK
    <3> QED BY <3>3, <3>4
  <2>7. QuietAfterShutdown' BY <1>4, <1>9 DEF QuietAfterShutdown
  <2> QED BY <2>1, <2>2, <2>3, <2>4, <2>5, <2>6, <2>7 DEF HandlerInv
<1>20. CountOK'
  <2>1. Owned' = Owned \cup {d} /\ d \notin Owned
    BY <1>0, <1>3, <1>6, <1>18, NoOwnerAssumption DEF Owned, OwnersInRings, Slots
  <2>2. Counted' = Counted \ {s} /\ s \in Counted BY <1>5, TwoKinds DEF Counted, Reserving
  <2>3. Cardinality(Owned') = Cardinality(Owned) + 1 BY <2>1, CountedFinite, FS_AddElement
  <2>4. Cardinality(Counted') = Cardinality(Counted) - 1 BY <2>2, CountedFinite, FS_RemoveElement
  <2> QED BY <1>9, <2>3, <2>4, CountedFinite DEF Good, CountOK
<1> QED BY <1>17, <1>19, <1>20 DEF Good

\* A submitter hands the entry it has prepared to the kernel.
LEMMA Good_SubmitEnter ==
  ASSUME Good, AioTypeOK, NEW s \in Submitters, SubmitEnter(s)
  PROVE  Good'
<1>0. s \in Threads /\ s \notin Queues /\ HandlerTypeOK /\ CallsAgree /\ EntriesWhole /\ OwnersInRings
      /\ PreparedByOne /\ PendingCounts /\ QuietAfterShutdown
  BY TwoKinds DEF Good, HandlerInv
<1>1. UNCHANGED <<AbstractQueue, AbstractTaken, op, arg>> BY ChannelKept DEF SubmitEnter
<1>2. queue_of[s] \in Queues BY <1>0 DEF HandlerTypeOK
<1>3. PICK q \in Queues : q = queue_of[s] BY <1>2
<1>4. /\ Len(sq[q]) = 1
      /\ inflight' = [inflight EXCEPT ![q] = inflight[q] \o sq[q]]
      /\ sq' = [sq EXCEPT ![q] = <<>>]
      /\ UNCHANGED <<m_pending, m_shutdown, cq, owner, left, m_n_reserved>>
      /\ queue_of' = [queue_of EXCEPT ![s] = 1] /\ at[s] = "enter" /\ at' = [at EXCEPT ![s] = "idle"]
  BY <1>3 DEF SubmitEnter, Enter, slotVars, handlerVars, At, Move
<1>5. /\ DOMAIN at' = Threads /\ at[s] = "enter" /\ at'[s] = "idle"
      /\ \A u \in Threads \ {s} : at'[u] = at[u]
  BY <1>0, <1>4 DEF HandlerTypeOK
<1>6. \A p \in Queues : ~m_shutdown[p] BY <1>0, <1>4 DEF QuietAfterShutdown
<1>7. sq \in [Queues -> Seq(SqEntry)] /\ inflight \in [Queues -> Seq(SqEntry)] /\ cq \in [Queues -> Seq(CqEntry)]
  BY DEF AioTypeOK
<1>e. PICK e : e = sq[q][1] OBVIOUS
<1>8. PICK n \in Nat :
        /\ DOMAIN sq[q] = 1 .. 1 /\ e = sq[q][1]
        /\ n = Len(inflight[q]) /\ DOMAIN inflight[q] = 1 .. n
        /\ DOMAIN inflight'[q] = 1 .. n + 1 /\ Len(inflight'[q]) = n + 1
        /\ inflight'[q][n + 1] = e /\ \A k \in 1 .. n : inflight'[q][k] = inflight[q][k]
  <2>1. inflight'[q] = inflight[q] \o sq[q] /\ inflight[q] \in Seq(SqEntry) /\ sq[q] \in Seq(SqEntry) BY <1>4, <1>7
  <2>2. Len(inflight[q]) \in Nat /\ DOMAIN inflight[q] = 1 .. Len(inflight[q]) BY <2>1, LenProperties
  <2>3. DOMAIN sq[q] = 1 .. 1 BY <1>4, <2>1, LenProperties
  <2>4. /\ inflight[q] \o sq[q] \in Seq(SqEntry)
        /\ Len(inflight[q] \o sq[q]) = Len(inflight[q]) + Len(sq[q])
        /\ \A i \in 1 .. Len(inflight[q]) + Len(sq[q]) :
             (inflight[q] \o sq[q])[i] = IF i <= Len(inflight[q]) THEN inflight[q][i] ELSE sq[q][i - Len(inflight[q])]
    BY <2>1, ConcatProperties
  <2>5. PICK n \in Nat : n = Len(inflight[q]) BY <2>2
  <2>6. /\ inflight'[q] \in Seq(SqEntry) /\ Len(inflight'[q]) = n + 1
        /\ \A i \in 1 .. n + 1 : inflight'[q][i] = IF i <= n THEN inflight[q][i] ELSE sq[q][i - n]
    BY <1>4, <2>1, <2>4, <2>5, Zenon
  <2>7. DOMAIN inflight'[q] = 1 .. n + 1 BY <2>6, LenProperties
  <2>8. n + 1 \in 1 .. n + 1 /\ ~(n + 1 <= n) /\ (n + 1) - n = 1 OBVIOUS
  <2>9. inflight'[q][n + 1] = sq[q][1] BY <2>6, <2>8
  <2>10. \A k \in 1 .. n : inflight'[q][k] = inflight[q][k] BY <2>6
  <2>11. DOMAIN inflight[q] = 1 .. n BY <2>2, <2>5, Zenon
  <2> QED BY <1>e, <2>3, <2>5, <2>6, <2>7, <2>9, <2>10, <2>11, Zenon
<1>9. /\ \A p \in Queues \ {q} : sq'[p] = sq[p] /\ inflight'[p] = inflight[p]
      /\ sq'[q] = <<>>
  BY <1>4, <1>7
<1>10. PICK d : d = e.slot OBVIOUS
<1>11. d \in Slots
  <2>1. sq[q] \in Seq(SqEntry) /\ 1 \in DOMAIN sq[q] BY <1>7, <1>8
  <2>2. sq[q][1] \in SqEntry BY <2>1, SeqFacts
  <2> QED BY <1>8, <1>10, <2>2 DEF SqEntry
<1>12. \A u \in Submitters : HasSlot(u)' <=> HasSlot(u) BY <1>1, <1>5, TwoKinds DEF HasSlot, Reserving
<1>13. \A p \in Queues : Returning(p)' <=> Returning(p) BY <1>0, <1>1, <1>5, TwoKinds DEF Returning
<1>14. Moves(d, "sq", q, 1, "kernel", q, n + 1)
  <2>1. \A i, k : Held(i, "sq", q, k) => k \in Nat BY <1>8 DEF Held
  <2>2. \A i : Held(i, "sq", q, 1) <=> i = d BY <1>8, <1>10 DEF Held
  <2>3. ASSUME NEW i, NEW K, NEW t, NEW k
        PROVE  Held(i, K, t, k)' <=>
                 \/ K = "kernel" /\ t = q /\ k = n + 1 /\ i = d
                 \/ ~(K = "sq" /\ t = q) /\ Held(i, K, t, k)
                 \/ K = "sq" /\ t = q /\ k \in Nat /\ k < 1 /\ Held(i, "sq", q, k)
                 \/ K = "sq" /\ t = q /\ k \in Nat /\ k >= 1 /\ Held(i, "sq", q, k + 1)
    <3>1. CASE K = "sq" /\ t = q BY <1>8, <1>9, <3>1 DEF Held
    <3>2. CASE K = "kernel" /\ t = q BY <1>8, <1>10, <3>2 DEF Held
    <3>3. CASE K \in {"sq", "kernel"} /\ t # q BY <1>9, <3>3 DEF Held
    <3>4. CASE K \notin {"sq", "kernel"} BY <1>1, <1>4, <1>12, <1>13, <3>4 DEF Held
    <3> QED BY <3>1, <3>2, <3>3, <3>4
  <2> QED BY <2>1, <2>2, <2>3 DEF Moves
<1>15. OnePlace(d) BY <1>11 DEF Good, Places
<1>16. Places'
  <2> SUFFICES ASSUME NEW i \in Slots PROVE OnePlace(i)' BY DEF Places, Slots
  <2>1. OnePlace(i) BY DEF Good, Places
  <2> QED BY <1>14, <2>1, MoveOne
<1>17. \A i : InRing(i)' <=> InRing(i) BY <1>14, <1>15, RingMoves DEF RingKinds
<1>18. HandlerInv'
  <2>1. HandlerTypeOK'
    <3>1. 1 \in Queues BY AioThreads DEF Queues
    <3> QED BY <1>0, <1>4, <1>5, <3>1, TwoKinds DEF HandlerTypeOK, Slots, SubmitterPlaces
  <2>2. CallsAgree' BY <1>0, <1>1, <1>5, TwoKinds DEF CallsAgree
  <2>3. EntriesWhole'
    <3>1. e.len = ReqLen /\ left[e.slot] = ReqLen BY <1>0, <1>8 DEF EntriesWhole
    <3>2. ASSUME NEW p \in Queues, NEW k \in DOMAIN sq'[p]
          PROVE  sq'[p][k].len = ReqLen /\ left[sq'[p][k].slot] = ReqLen
      BY <1>0, <1>9 DEF EntriesWhole
    <3>3. ASSUME NEW p \in Queues, NEW k \in DOMAIN inflight'[p]
          PROVE  inflight'[p][k].len = ReqLen /\ left[inflight'[p][k].slot] = ReqLen
      BY <1>0, <1>8, <1>9, <3>1 DEF EntriesWhole
    <3> QED BY <1>0, <1>4, <3>2, <3>3 DEF EntriesWhole
  <2>4. OwnersInRings' BY <1>0, <1>4, <1>17 DEF OwnersInRings, Slots
  <2>5. PreparedByOne'
    <3> SUFFICES ASSUME NEW p \in Queues, sq'[p] # <<>>
                 PROVE  \E u \in Submitters : at'[u] = "enter" /\ queue_of'[u] = p
      BY DEF PreparedByOne
    <3>1. p # q BY <1>9
    <3>2. PICK u \in Submitters : at[u] = "enter" /\ queue_of[u] = p BY <1>0, <1>9, <3>1 DEF PreparedByOne
    <3>3. u # s BY <1>3, <3>1, <3>2
    <3>4. queue_of'[u] = p BY <1>0, <1>4, <3>2, <3>3 DEF HandlerTypeOK
    <3> QED BY <1>5, <3>2, <3>3, <3>4, TwoKinds
  <2>6. PendingCounts'
    <3> SUFFICES ASSUME NEW p \in Queues
                 PROVE  m_pending'[p] = Len(sq'[p]) + Len(inflight'[p]) + Len(cq'[p])
      BY DEF PendingCounts
    <3>1. m_pending[p] = Len(sq[p]) + Len(inflight[p]) + Len(cq[p]) BY <1>0, <1>6 DEF PendingCounts
    <3>2. CASE p # q
      <4>1. m_pending'[p] = m_pending[p] /\ sq'[p] = sq[p] /\ inflight'[p] = inflight[p] /\ cq'[p] = cq[p]
        BY <1>4, <1>9, <3>2
      <4> QED BY <3>1, <4>1, Zenon
    <3>3. CASE p = q
      <4>1. Len(cq[p]) \in Nat BY <1>7, LenProperties
      <4>2. PICK c \in Nat : c = Len(cq[p]) BY <4>1
      <4>3. Len(<<>>) = 0 BY EmptySeq
      <4>4. m_pending'[p] = 1 + n + c BY <1>4, <1>8, <3>1, <3>3, <4>2, Zenon
      <4>5. Len(sq'[p]) + Len(inflight'[p]) + Len(cq'[p]) = 0 + (n + 1) + c
        BY <1>4, <1>8, <1>9, <3>3, <4>2, <4>3, Zenon
      <4>6. 1 + n + c = 0 + (n + 1) + c OBVIOUS
      <4> QED BY <4>4, <4>5, <4>6, Zenon
    <3> QED BY <3>2, <3>3
  <2>7. QuietAfterShutdown' BY <1>4, <1>6 DEF QuietAfterShutdown
  <2> QED BY <2>1, <2>2, <2>3, <2>4, <2>5, <2>6, <2>7 DEF HandlerInv
<1>19. Counted' = Counted BY <1>5, TwoKinds DEF Counted, Reserving
<1>20. CountOK' BY <1>4, <1>19, CountKept DEF Good
<1> QED BY <1>16, <1>18, <1>20 DEF Good

\* A list from which one element was taken.
LEMMA RemovedAt ==
  ASSUME NEW S, NEW s \in Seq(S), NEW k \in DOMAIN s, NEW r,
         r = SubSeq(s, 1, k - 1) \o SubSeq(s, k + 1, Len(s))
  PROVE  /\ k \in Nat /\ k >= 1 /\ k <= Len(s) /\ Len(s) \in Nat
         /\ DOMAIN s = 1 .. Len(s) /\ DOMAIN r = 1 .. Len(s) - 1 /\ Len(r) = Len(s) - 1
         /\ \A j \in 1 .. Len(s) - 1 : r[j] = IF j < k THEN s[j] ELSE s[j + 1]
<1>0. Len(s) \in Nat /\ DOMAIN s = 1 .. Len(s) /\ k \in 1 .. Len(s) BY LenProperties
<1>1. \A i \in 1 .. Len(s) : s[i] \in S BY ElementOfSeq
<1> DEFINE a == SubSeq(s, 1, k - 1)
           b == SubSeq(s, k + 1, Len(s))
<1>2. a \in Seq(S) /\ Len(a) = k - 1 /\ \A i \in 1 .. k - 1 : a[i] = s[i]
  <2>1. \A i \in 1 .. k - 1 : s[i] \in S BY <1>0, <1>1
  <2>2. /\ SubSeq(s, 1, k - 1) \in Seq(S)
        /\ Len(SubSeq(s, 1, k - 1)) = IF 1 <= k - 1 THEN (k - 1) - 1 + 1 ELSE 0
        /\ \A i \in 1 .. (k - 1) - 1 + 1 : SubSeq(s, 1, k - 1)[i] = s[1 + i - 1]
    BY <1>0, <2>1, SubSeqProperties
  <2>3. \A i \in 1 .. k - 1 : i \in 1 .. (k - 1) - 1 + 1 /\ 1 + i - 1 = i BY <1>0
  <2>4. Len(a) = k - 1 BY <1>0, <2>2
  <2> QED BY <2>2, <2>3, <2>4
<1>3. b \in Seq(S) /\ Len(b) = Len(s) - k /\ \A i \in 1 .. Len(s) - k : b[i] = s[k + i]
  <2>1. \A i \in k + 1 .. Len(s) : s[i] \in S BY <1>0, <1>1
  <2>2. /\ SubSeq(s, k + 1, Len(s)) \in Seq(S)
        /\ Len(SubSeq(s, k + 1, Len(s))) = IF k + 1 <= Len(s) THEN Len(s) - (k + 1) + 1 ELSE 0
        /\ \A i \in 1 .. Len(s) - (k + 1) + 1 : SubSeq(s, k + 1, Len(s))[i] = s[(k + 1) + i - 1]
    BY <1>0, <2>1, SubSeqProperties
  <2>3. \A i \in 1 .. Len(s) - k : i \in 1 .. Len(s) - (k + 1) + 1 /\ (k + 1) + i - 1 = k + i BY <1>0
  <2>4. Len(b) = Len(s) - k BY <1>0, <2>2
  <2> QED BY <2>2, <2>3, <2>4
<1> HIDE DEF a, b
<1>4. r = a \o b BY DEF a, b
<1>5. /\ a \o b \in Seq(S) /\ Len(a \o b) = Len(a) + Len(b)
      /\ \A i \in 1 .. Len(a) + Len(b) : (a \o b)[i] = IF i <= Len(a) THEN a[i] ELSE b[i - Len(a)]
  BY <1>2, <1>3, ConcatProperties
<1>n. PICK n \in Nat : n = Len(s) BY <1>0
<1>k. k \in Nat /\ k >= 1 /\ k <= n BY <1>0, <1>n
<1>6. /\ r \in Seq(S) /\ Len(r) = (k - 1) + (n - k)
      /\ \A i \in 1 .. (k - 1) + (n - k) : r[i] = IF i <= k - 1 THEN a[i] ELSE b[i - (k - 1)]
  BY <1>2, <1>3, <1>4, <1>5, <1>n, Zenon
<1>7. (k - 1) + (n - k) = n - 1 BY <1>k
<1>8. Len(r) = n - 1 BY <1>6, <1>7
<1>9. DOMAIN r = 1 .. n - 1 BY <1>6, <1>8, LenProperties
<1>10. ASSUME NEW j \in 1 .. n - 1 PROVE r[j] = IF j < k THEN s[j] ELSE s[j + 1]
  <2>1. r[j] = IF j <= k - 1 THEN a[j] ELSE b[j - (k - 1)] BY <1>6, <1>7
  <2>2. CASE j < k
    <3>1. j \in 1 .. k - 1 /\ j <= k - 1 BY <1>k, <2>2
    <3> QED BY <1>2, <2>1, <2>2, <3>1
  <2>3. CASE ~(j < k)
    <3>0. j \in Int /\ j >= k /\ j <= n - 1 BY <1>k, <2>3
    <3>a. j - (k - 1) \in Int /\ j - (k - 1) >= 1 /\ j - (k - 1) <= n - k BY <1>k, <3>0
    <3>b. k + (j - (k - 1)) = j + 1 /\ ~(j <= k - 1) BY <1>k, <3>0
    <3>1. j - (k - 1) \in 1 .. n - k /\ k + (j - (k - 1)) = j + 1 /\ ~(j <= k - 1) BY <1>k, <3>a, <3>b
    <3>2. b[j - (k - 1)] = s[k + (j - (k - 1))] BY <1>3, <1>n, <3>1
    <3> QED BY <2>1, <2>3, <3>1, <3>2
  <2> QED BY <2>2, <2>3
<1> QED BY <1>0, <1>n, <1>k, <1>8, <1>9, <1>10, Zenon

\* The kernel completes a request as a whole.
LEMMA Good_KernelCompletes ==
  ASSUME Good, AioTypeOK, NEW q \in Queues, KernelCompletes(q), partial = 0, partial' = 0
  PROVE  Good'
<1>0. HandlerTypeOK /\ CallsAgree /\ EntriesWhole /\ OwnersInRings
      /\ PreparedByOne /\ PendingCounts /\ QuietAfterShutdown
  BY DEF Good, HandlerInv
<1>1. UNCHANGED <<AbstractQueue, AbstractTaken, op, arg>> BY ChannelKept DEF KernelCompletes
<1>2. UNCHANGED <<at, m_n_reserved, owner, left, m_pending, m_shutdown, sq, queue_of>>
  BY DEF KernelCompletes, handlerVars, slotVars
<1>3. sq \in [Queues -> Seq(SqEntry)] /\ inflight \in [Queues -> Seq(SqEntry)] /\ cq \in [Queues -> Seq(CqEntry)]
  BY DEF AioTypeOK
<1>4. PICK k0 \in DOMAIN inflight[q] : \E n \in 1 .. inflight[q][k0].len :
        /\ cq' = [cq EXCEPT ![q] = Append(cq[q], [slot |-> inflight[q][k0].slot, res |-> n])]
        /\ inflight' = [inflight EXCEPT ![q] =
              SubSeq(inflight[q], 1, k0 - 1) \o SubSeq(inflight[q], k0 + 1, Len(inflight[q]))]
        /\ partial' = IF n < inflight[q][k0].len THEN partial + 1 ELSE partial
  BY DEF KernelCompletes
<1>5. PICK e : e = inflight[q][k0] OBVIOUS
<1>6. e \in SqEntry /\ e.len = ReqLen /\ left[e.slot] = ReqLen /\ ReqLen \in Nat
  BY <1>0, <1>3, <1>4, <1>5, SeqFacts, ReqLenAssumption DEF EntriesWhole
<1>7. PICK c : c = [slot |-> e.slot, res |-> ReqLen] OBVIOUS
<1>8. c \in CqEntry /\ c.slot = e.slot /\ c.res = ReqLen BY <1>6, <1>7 DEF CqEntry, SqEntry
<1>9. /\ cq' = [cq EXCEPT ![q] = Append(cq[q], c)]
      /\ inflight' = [inflight EXCEPT ![q] =
              SubSeq(inflight[q], 1, k0 - 1) \o SubSeq(inflight[q], k0 + 1, Len(inflight[q]))]
  <2>1. PICK n \in 1 .. ReqLen :
        /\ cq' = [cq EXCEPT ![q] = Append(cq[q], [slot |-> e.slot, res |-> n])]
        /\ inflight' = [inflight EXCEPT ![q] =
              SubSeq(inflight[q], 1, k0 - 1) \o SubSeq(inflight[q], k0 + 1, Len(inflight[q]))]
        /\ partial' = IF n < ReqLen THEN partial + 1 ELSE partial
    BY <1>4, <1>5, <1>6
  <2>2. n = ReqLen
    <3>1. ~(n < ReqLen) BY <2>1
    <3> QED BY <1>6, <3>1
  <2> QED BY <1>7, <2>1, <2>2
<1>10. ~m_shutdown[q]
  <2>1. inflight[q] # <<>>
    <3>1. inflight[q] \in Seq(SqEntry) BY <1>3
    <3> QED BY <1>4, <3>1, LenProperties, EmptySeq
  <2> QED BY <1>0, <2>1 DEF QuietAfterShutdown
<1>11. PICK n \in Nat :
        /\ n = Len(cq[q]) /\ DOMAIN cq[q] = 1 .. n /\ DOMAIN cq'[q] = 1 .. n + 1
        /\ Len(cq'[q]) = n + 1 /\ cq'[q][n + 1] = c /\ \A k \in 1 .. n : cq'[q][k] = cq[q][k]
  <2>1. cq[q] \in Seq(CqEntry) /\ cq'[q] = Append(cq[q], c) BY <1>3, <1>9
  <2> QED BY <1>8, <2>1, ListFacts
<1>12. PICK l \in Nat :
        /\ l = Len(inflight[q]) /\ DOMAIN inflight[q] = 1 .. l /\ DOMAIN inflight'[q] = 1 .. l - 1
        /\ Len(inflight'[q]) = l - 1 /\ k0 \in Nat /\ k0 >= 1 /\ k0 <= l
        /\ \A j \in 1 .. l - 1 : inflight'[q][j] = IF j < k0 THEN inflight[q][j] ELSE inflight[q][j + 1]
  <2>1. /\ inflight[q] \in Seq(SqEntry)
        /\ inflight'[q] = SubSeq(inflight[q], 1, k0 - 1) \o SubSeq(inflight[q], k0 + 1, Len(inflight[q]))
    BY <1>3, <1>9
  <2>2. PICK r : r = inflight'[q] OBVIOUS
  <2>i. PICK s : s = inflight[q] OBVIOUS
  <2>j. s \in Seq(SqEntry) /\ k0 \in DOMAIN s /\ r = SubSeq(s, 1, k0 - 1) \o SubSeq(s, k0 + 1, Len(s))
    BY <1>4, <2>1, <2>2, <2>i, Zenon
  <2>k. /\ k0 \in Nat /\ k0 >= 1 /\ k0 <= Len(s) /\ Len(s) \in Nat
        /\ DOMAIN s = 1 .. Len(s) /\ DOMAIN r = 1 .. Len(s) - 1 /\ Len(r) = Len(s) - 1
        /\ \A j \in 1 .. Len(s) - 1 : r[j] = IF j < k0 THEN s[j] ELSE s[j + 1]
    BY <2>j, RemovedAt, Zenon
  <2>3. /\ k0 \in Nat /\ k0 >= 1 /\ k0 <= Len(inflight[q]) /\ Len(inflight[q]) \in Nat
        /\ DOMAIN inflight[q] = 1 .. Len(inflight[q]) /\ DOMAIN r = 1 .. Len(inflight[q]) - 1
        /\ Len(r) = Len(inflight[q]) - 1
        /\ \A j \in 1 .. Len(inflight[q]) - 1 : r[j] = IF j < k0 THEN inflight[q][j] ELSE inflight[q][j + 1]
    BY <2>i, <2>k, Zenon
  <2>4. PICK l \in Nat : l = Len(inflight[q]) BY <2>3
  <2> QED BY <2>2, <2>3, <2>4, Zenon
<1>13. \A p \in Queues \ {q} : cq'[p] = cq[p] /\ inflight'[p] = inflight[p] BY <1>3, <1>9
<1>14. PICK d \in Slots : d = e.slot BY <1>6 DEF SqEntry
<1>15. /\ \A u \in Submitters : HasSlot(u)' <=> HasSlot(u)
       /\ \A p \in Queues : Returning(p)' <=> Returning(p)
  BY <1>1, <1>2 DEF HasSlot, Returning
<1>16. Moves(d, "kernel", q, k0, "cq", q, n + 1)
  <2>1. \A i, k : Held(i, "kernel", q, k) => k \in Nat BY <1>12 DEF Held
  <2>2. \A i : Held(i, "kernel", q, k0) <=> i = d BY <1>4, <1>5, <1>14 DEF Held
  <2>3. ASSUME NEW i, NEW K, NEW t, NEW k
        PROVE  Held(i, K, t, k)' <=>
                 \/ K = "cq" /\ t = q /\ k = n + 1 /\ i = d
                 \/ ~(K = "kernel" /\ t = q) /\ Held(i, K, t, k)
                 \/ K = "kernel" /\ t = q /\ k \in Nat /\ k < k0 /\ Held(i, "kernel", q, k)
                 \/ K = "kernel" /\ t = q /\ k \in Nat /\ k >= k0 /\ Held(i, "kernel", q, k + 1)
    <3>1. CASE K = "kernel" /\ t = q
      <4>1. Held(i, K, t, k)' <=> k \in 1 .. l - 1 /\ inflight'[q][k].slot = i BY <1>12, <3>1 DEF Held
      <4>2. \A j : Held(i, "kernel", q, j) <=> j \in 1 .. l /\ inflight[q][j].slot = i BY <1>12 DEF Held
      <4>3. CASE k \in Nat /\ k < k0 BY <1>12, <3>1, <4>1, <4>2, <4>3
      <4>4. CASE k \in Nat /\ k >= k0
        <5>1. k + 1 \in 1 .. l <=> k \in 1 .. l - 1 BY <1>12, <4>4
        <5> QED BY <1>12, <3>1, <4>1, <4>2, <4>4, <5>1
      <4>5. CASE k \notin Nat
        <5>1. k \notin 1 .. l - 1 BY <1>12, <4>5
        <5> QED BY <3>1, <4>1, <4>5, <5>1
      <4> QED BY <1>12, <4>3, <4>4, <4>5
    <3>2. CASE K = "cq" /\ t = q BY <1>2, <1>8, <1>10, <1>11, <1>14, <3>2 DEF Held
    <3>3. CASE K \in {"cq", "kernel"} /\ t # q BY <1>2, <1>13, <3>3 DEF Held
    <3>4. CASE K \notin {"cq", "kernel"} BY <1>1, <1>2, <1>15, <3>4 DEF Held
    <3> QED BY <3>1, <3>2, <3>3, <3>4
  <2> QED BY <1>12, <2>1, <2>2, <2>3 DEF Moves
<1>17. OnePlace(d) BY DEF Good, Places
<1>18. Places'
  <2> SUFFICES ASSUME NEW i \in Slots PROVE OnePlace(i)' BY DEF Places, Slots
  <2>1. OnePlace(i) BY DEF Good, Places
  <2> QED BY <1>16, <2>1, MoveOne
<1>19. \A i : InRing(i)' <=> InRing(i) BY <1>16, <1>17, RingMoves DEF RingKinds
<1>20. HandlerInv'
  <2>1. HandlerTypeOK' /\ CallsAgree' /\ PreparedByOne'
    BY <1>0, <1>1, <1>2 DEF HandlerTypeOK, CallsAgree, PreparedByOne, Slots
  <2>2. EntriesWhole'
    <3>1. ASSUME NEW p \in Queues, NEW k \in DOMAIN inflight'[p]
          PROVE  inflight'[p][k].len = ReqLen /\ left[inflight'[p][k].slot] = ReqLen
      <4>1. CASE p # q BY <1>0, <1>13, <4>1 DEF EntriesWhole
      <4>2. CASE p = q
        <5>1. k \in 1 .. l - 1 BY <1>12, <4>2
        <5>2. k \in 1 .. l /\ k + 1 \in 1 .. l BY <1>12, <5>1
        <5> QED BY <1>0, <1>12, <4>2, <5>1, <5>2 DEF EntriesWhole
      <4> QED BY <4>1, <4>2
    <3>2. ASSUME NEW p \in Queues, ~m_shutdown[p], NEW k \in DOMAIN cq'[p]
          PROVE  cq'[p][k].res = ReqLen /\ left[cq'[p][k].slot] = ReqLen
      <4>1. CASE p # q BY <1>0, <1>13, <3>2, <4>1 DEF EntriesWhole
      <4>2. CASE p = q
        <5>1. CASE k = n + 1 BY <1>6, <1>8, <1>11, <4>2, <5>1
        <5>2. CASE k \in 1 .. n BY <1>0, <1>11, <3>2, <4>2, <5>2 DEF EntriesWhole
        <5> QED BY <1>11, <4>2, <5>1, <5>2
      <4> QED BY <4>1, <4>2
    <3> QED BY <1>0, <1>2, <3>1, <3>2 DEF EntriesWhole
  <2>3. OwnersInRings' BY <1>0, <1>2, <1>19 DEF OwnersInRings, Slots
  <2>4. PendingCounts'
    <3> SUFFICES ASSUME NEW p \in Queues, ~m_shutdown[p]
                 PROVE  m_pending'[p] = Len(sq'[p]) + Len(inflight'[p]) + Len(cq'[p])
      BY <1>2 DEF PendingCounts
    <3>1. m_pending[p] = Len(sq[p]) + Len(inflight[p]) + Len(cq[p]) BY <1>0 DEF PendingCounts
    <3>2. CASE p # q
      <4>1. m_pending'[p] = m_pending[p] /\ sq'[p] = sq[p] /\ inflight'[p] = inflight[p] /\ cq'[p] = cq[p]
        BY <1>2, <1>13, <3>2
      <4> QED BY <3>1, <4>1, Zenon
    <3>3. CASE p = q
      <4>1. Len(sq[p]) \in Nat BY <1>3, LenProperties
      <4>2. PICK a \in Nat : a = Len(sq[p]) BY <4>1
      <4>3. m_pending'[p] = a + l + n BY <1>2, <1>11, <1>12, <3>1, <3>3, <4>2, Zenon
      <4>4. Len(sq'[p]) + Len(inflight'[p]) + Len(cq'[p]) = a + (l - 1) + (n + 1)
        BY <1>2, <1>11, <1>12, <3>3, <4>2, Zenon
      <4>5. a + l + n = a + (l - 1) + (n + 1) OBVIOUS
      <4> QED BY <4>3, <4>4, <4>5, Zenon
    <3> QED BY <3>2, <3>3
  <2>5. QuietAfterShutdown' BY <1>0, <1>2, <1>10, <1>13 DEF QuietAfterShutdown
  <2> QED BY <2>1, <2>2, <2>3, <2>4, <2>5 DEF HandlerInv
<1>21. Counted' = Counted BY <1>2 DEF Counted
<1>22. CountOK' BY <1>2, <1>21, CountKept DEF Good
<1> QED BY <1>18, <1>20, <1>22 DEF Good

\* A reaper takes the completion of a request and begins to return the slot.
LEMMA Good_ReapComplete ==
  ASSUME Good, ChannelInv, ChannelInv', AioTypeOK, NEW q \in Queues, ReapComplete(q)
  PROVE  Good'
<1>0. q \in Threads /\ q \notin Submitters /\ HandlerTypeOK /\ CallsAgree /\ EntriesWhole /\ OwnersInRings
      /\ PreparedByOne /\ PendingCounts /\ QuietAfterShutdown /\ CountOK
  BY TwoKinds DEF Good, HandlerInv
<1>1. sq \in [Queues -> Seq(SqEntry)] /\ inflight \in [Queues -> Seq(SqEntry)] /\ cq \in [Queues -> Seq(CqEntry)]
  BY DEF AioTypeOK
<1>2. /\ at[q] = "wait_cqe" /\ cq[q] # <<>> /\ ~m_shutdown[q]
      /\ left' = [left EXCEPT ![Head(cq[q]).slot] = 0]
      /\ owner' = [owner EXCEPT ![Head(cq[q]).slot] = NoOwner]
      /\ m_pending' = [m_pending EXCEPT ![q] = m_pending[q] - 1]
      /\ cq' = [cq EXCEPT ![q] = Tail(cq[q])]
      /\ at' = [at EXCEPT ![q] = "free"]
      /\ UNCHANGED <<m_n_reserved, m_shutdown, sq, inflight, queue_of>>
      /\ BeginEnqueue(q, Head(cq[q]).slot)
  BY DEF ReapComplete, Reaps, At, Move, handlerVars
<1>3. PICK e : e = Head(cq[q]) OBVIOUS
<1>4. cq[q] \in Seq(CqEntry) BY <1>1
<1>5. PICK n \in Nat :
        /\ n = Len(cq[q]) /\ n >= 1 /\ DOMAIN cq[q] = 1 .. n /\ DOMAIN cq'[q] = 1 .. n - 1
        /\ Len(cq'[q]) = n - 1 /\ cq[q][1] = e /\ \A k \in 1 .. n - 1 : cq'[q][k] = cq[q][k + 1]
  <2>1. cq'[q] = Tail(cq[q]) BY <1>1, <1>2
  <2>2. /\ Len(cq[q]) \in Nat /\ DOMAIN cq[q] = 1 .. Len(cq[q])
        /\ Len(cq[q]) >= 1 /\ DOMAIN Tail(cq[q]) = 1 .. Len(cq[q]) - 1
        /\ \A k \in 1 .. Len(cq[q]) - 1 : Tail(cq[q])[k] = cq[q][k + 1]
        /\ Head(cq[q]) = cq[q][1] /\ Len(Tail(cq[q])) = Len(cq[q]) - 1
    BY <1>2, <1>4, ListFacts, Zenon
  <2>3. PICK n \in Nat : n = Len(cq[q]) BY <2>2
  <2> QED BY <1>3, <2>1, <2>2, <2>3, Zenon
<1>6. e \in CqEntry BY <1>2, <1>3, <1>4, HeadTailProperties
<1>7. PICK d \in Slots : d = e.slot BY <1>6 DEF CqEntry
<1>8. \A p \in Queues \ {q} : cq'[p] = cq[p] BY <1>1, <1>2
<1>9. BeginEnqueue(q, d) BY <1>2, <1>3, <1>7
<1>10. UNCHANGED <<AbstractQueue, AbstractTaken>>
  <2>1. Quiet(q) BY <1>0, <1>7, <1>9, QuietSteps DEF Slots
  <2> QED BY <1>0, <2>1, QuietStutters
<1>11. /\ op[q] = "idle" /\ op'[q] = "e_seq" /\ arg'[q] = d
       /\ \A u \in Threads \ {q} : op'[u] = op[u] /\ arg'[u] = arg[u]
  BY <1>0, <1>9 DEF BeginEnqueue, Goto, ChannelInv, ChannelTypeOK
<1>12. /\ DOMAIN at' = Threads /\ at'[q] = "free"
       /\ \A u \in Threads \ {q} : at'[u] = at[u]
  BY <1>0, <1>2 DEF HandlerTypeOK
<1>13. /\ \A u \in Submitters : HasSlot(u)' <=> HasSlot(u)
       /\ ~Returning(q) /\ Returning(q)'
       /\ \A p \in Queues \ {q} : Returning(p)' <=> Returning(p)
  BY <1>2, <1>11, <1>12, TwoKinds DEF HasSlot, Returning
<1>14. Moves(d, "cq", q, 1, "reaper", q, 0)
  <2>1. /\ \A i, k : Held(i, "cq", q, k) => k \in Nat
        /\ \A i : Held(i, "cq", q, 1) <=> i = d
    BY <1>2, <1>5, <1>7 DEF Held
  <2>2. ASSUME NEW i, NEW K, NEW t, NEW k
        PROVE  Held(i, K, t, k)' <=>
                 \/ K = "reaper" /\ t = q /\ k = 0 /\ i = d
                 \/ ~(K = "cq" /\ t = q) /\ Held(i, K, t, k)
                 \/ K = "cq" /\ t = q /\ k \in Nat /\ k < 1 /\ Held(i, "cq", q, k)
                 \/ K = "cq" /\ t = q /\ k \in Nat /\ k >= 1 /\ Held(i, "cq", q, k + 1)
    <3>1. CASE K = "cq" /\ t = q
      <4>1. Held(i, K, t, k)' <=> k \in 1 .. n - 1 /\ cq'[q][k].slot = i BY <1>2, <1>5, <3>1 DEF Held
      <4>2. \A j : Held(i, "cq", q, j) <=> j \in 1 .. n /\ cq[q][j].slot = i BY <1>2, <1>5 DEF Held
      <4>3. CASE k \in Nat /\ k < 1 BY <1>5, <3>1, <4>1, <4>2, <4>3
      <4>4. CASE k \in Nat /\ k >= 1
        <5>1. k + 1 \in 1 .. n <=> k \in 1 .. n - 1 BY <1>5, <4>4
        <5> QED BY <1>5, <3>1, <4>1, <4>2, <4>4, <5>1
      <4>5. CASE k \notin Nat
        <5>1. k \notin 1 .. n - 1 BY <1>5, <4>5
        <5> QED BY <3>1, <4>1, <4>5, <5>1
      <4> QED BY <4>3, <4>4, <4>5
    <3>2. CASE K = "cq" /\ t # q BY <1>2, <1>8, <3>2 DEF Held
    <3>3. CASE K = "reaper" /\ t = q BY <1>11, <1>13, <3>3 DEF Held
    <3>4. CASE K = "reaper" /\ t # q BY <1>11, <1>13, <3>4, TwoKinds DEF Held
    <3>5. CASE K \notin {"cq", "reaper"} BY <1>2, <1>10, <1>13, <3>5 DEF Held
    <3> QED BY <3>1, <3>2, <3>3, <3>4, <3>5
  <2> QED BY <2>1, <2>2 DEF Moves
<1>15. OnePlace(d) BY DEF Good, Places
<1>16. Places'
  <2> SUFFICES ASSUME NEW i \in Slots PROVE OnePlace(i)' BY DEF Places, Slots
  <2>1. OnePlace(i) BY DEF Good, Places
  <2> QED BY <1>14, <2>1, MoveOne
<1>17. InRing(d) /\ \A i : InRing(i)' <=> InRing(i) /\ i # d
  BY <1>14, <1>15, RingMoves DEF RingKinds
<1>18. /\ owner \in [Slots -> Submitters \cup {NoOwner}] /\ owner' = [owner EXCEPT ![d] = NoOwner]
       /\ left \in [Slots -> Nat] /\ left' = [left EXCEPT ![d] = 0]
  BY <1>0, <1>2, <1>3, <1>7 DEF HandlerTypeOK, AioTypeOK
<1>19. PICK a \in Nat, b \in Nat :
         /\ a = Len(sq[q]) /\ b = Len(inflight[q])
         /\ m_pending[q] = a + b + n /\ m_pending'[q] = (a + b + n) - 1
  <2>1. Len(sq[q]) \in Nat /\ Len(inflight[q]) \in Nat BY <1>1, LenProperties
  <2>2. m_pending \in [Queues -> Nat] BY <1>0 DEF HandlerTypeOK
  <2>3. m_pending'[q] = m_pending[q] - 1 BY <1>2, <2>2
  <2>4. m_pending[q] = Len(sq[q]) + Len(inflight[q]) + n BY <1>0, <1>2, <1>5 DEF PendingCounts
  <2> QED BY <2>1, <2>3, <2>4
<1>20. HandlerInv'
  <2>1. HandlerTypeOK'
    <3>1. m_pending' \in [Queues -> Nat]
      <4>0. n >= 1 BY <1>5
      <4>1. (a + b + n) - 1 \in Nat BY <4>0
      <4>2. m_pending \in [Queues -> Nat] BY <1>0 DEF HandlerTypeOK
      <4> QED BY <1>2, <1>19, <4>1, <4>2
    <3>2. owner' \in [Slots -> Submitters \cup {NoOwner}] BY <1>18
    <3>3. /\ \A s \in Submitters : at'[s] \in SubmitterPlaces
          /\ \A p \in Queues : at'[p] \in ReaperPlaces
      BY <1>0, <1>12, TwoKinds DEF HandlerTypeOK, ReaperPlaces
    <3> QED BY <1>0, <1>2, <1>12, <3>1, <3>2, <3>3 DEF HandlerTypeOK, Slots
  <2>2. CallsAgree' BY <1>0, <1>11, <1>12, TwoKinds DEF CallsAgree, EnqueueOps
  <2>3. EntriesWhole'
    <3>0. \A i \in Slots : i # d => left'[i] = left[i] BY <1>18
    <3>1. ASSUME NEW p \in Queues, NEW k \in DOMAIN sq[p]
          PROVE  sq[p][k].len = ReqLen /\ left'[sq[p][k].slot] = ReqLen
      <4>1. sq[p][k] \in SqEntry BY <1>1, <3>1, SeqFacts
      <4>2. PICK i \in Slots : i = sq[p][k].slot BY <4>1 DEF SqEntry
      <4>3. InRing(i)' BY <1>2, <3>1, <4>2 DEF InRing
      <4> QED BY <1>0, <1>17, <3>0, <3>1, <4>2, <4>3 DEF EntriesWhole
    <3>2. ASSUME NEW p \in Queues, NEW k \in DOMAIN inflight[p]
          PROVE  inflight[p][k].len = ReqLen /\ left'[inflight[p][k].slot] = ReqLen
      <4>1. inflight[p][k] \in SqEntry BY <1>1, <3>2, SeqFacts
      <4>2. PICK i \in Slots : i = inflight[p][k].slot BY <4>1 DEF SqEntry
      <4>3. InRing(i)' BY <1>2, <3>2, <4>2 DEF InRing
      <4> QED BY <1>0, <1>17, <3>0, <3>2, <4>2, <4>3 DEF EntriesWhole
    <3>3. ASSUME NEW p \in Queues, ~m_shutdown[p], NEW k \in DOMAIN cq'[p]
          PROVE  cq'[p][k].res = ReqLen /\ left'[cq'[p][k].slot] = ReqLen
      <4>1. PICK j \in DOMAIN cq[p] : cq'[p][k] = cq[p][j]
        <5>1. CASE p # q BY <1>8, <3>3, <5>1
        <5>2. CASE p = q
          <6>1. k \in 1 .. n - 1 BY <1>5, <3>3, <5>2
          <6>2. k + 1 \in 1 .. n BY <1>5, <6>1
          <6> QED BY <1>5, <5>2, <6>1, <6>2
        <5> QED BY <5>1, <5>2
      <4>2. cq[p][j] \in CqEntry BY <1>1, <4>1, SeqFacts
      <4>3. PICK i \in Slots : i = cq'[p][k].slot BY <4>1, <4>2 DEF CqEntry
      <4>4. InRing(i)' BY <1>2, <3>3, <4>3 DEF InRing
      <4> QED BY <1>0, <1>17, <3>0, <3>3, <4>1, <4>3, <4>4 DEF EntriesWhole
    <3> QED BY <1>2, <3>1, <3>2, <3>3 DEF EntriesWhole
  <2>4. OwnersInRings'
    <3> SUFFICES ASSUME NEW i \in Slots PROVE owner'[i] # NoOwner <=> InRing(i)'
      BY DEF OwnersInRings, Slots
    <3> QED BY <1>0, <1>17, <1>18 DEF OwnersInRings
  <2>5. PreparedByOne' BY <1>0, <1>2, <1>12, TwoKinds DEF PreparedByOne
  <2>6. PendingCounts'
    <3> SUFFICES ASSUME NEW p \in Queues, ~m_shutdown[p]
                 PROVE  m_pending'[p] = Len(sq[p]) + Len(inflight[p]) + Len(cq'[p])
      BY <1>2 DEF PendingCounts
    <3>2. CASE p # q
      <4>1. m_pending'[p] = m_pending[p] /\ cq'[p] = cq[p] BY <1>0, <1>2, <1>8, <3>2 DEF HandlerTypeOK
      <4>2. m_pending[p] = Len(sq[p]) + Len(inflight[p]) + Len(cq[p]) BY <1>0 DEF PendingCounts
      <4> QED BY <4>1, <4>2, Zenon
    <3>3. CASE p = q
      <4>1. Len(sq[p]) + Len(inflight[p]) + Len(cq'[p]) = a + b + (n - 1) BY <1>5, <1>19, <3>3, Zenon
      <4>2. a + b + (n - 1) = (a + b + n) - 1 OBVIOUS
      <4> QED BY <1>19, <3>3, <4>1, <4>2, Zenon
    <3> QED BY <3>2, <3>3
  <2>7. QuietAfterShutdown' BY <1>0, <1>2, <1>12, TwoKinds DEF QuietAfterShutdown
  <2> QED BY <2>1, <2>2, <2>3, <2>4, <2>5, <2>6, <2>7 DEF HandlerInv
<1>21. CountOK'
  <2>1. owner[d] # NoOwner BY <1>0, <1>17 DEF OwnersInRings
  <2>2. Owned' = Owned \ {d} /\ d \in Owned BY <1>18, <2>1 DEF Owned, Slots
  <2>3. Counted' = Counted \cup {q} /\ q \notin Counted
    BY <1>0, <1>2, <1>12, TwoKinds DEF Counted, Reserving
  <2>4. Cardinality(Owned') = Cardinality(Owned) - 1 BY <2>2, CountedFinite, FS_RemoveElement
  <2>5. Cardinality(Counted') = Cardinality(Counted) + 1 BY <2>3, CountedFinite, FS_AddElement
  <2> QED BY <1>0, <1>2, <2>4, <2>5, CountedFinite DEF CountOK
<1> QED BY <1>16, <1>20, <1>21 DEF Good

\* The reapers see the completion of shutdown(), and end.
LEMMA Good_ReapShutdown ==
  ASSUME Good, AioTypeOK, NEW q \in Queues, ReapShutdown(q)
  PROVE  Good'
<1>0. q \in Threads /\ q \notin Submitters /\ HandlerTypeOK /\ CallsAgree /\ EntriesWhole /\ OwnersInRings
      /\ PreparedByOne /\ PendingCounts /\ QuietAfterShutdown
  BY TwoKinds DEF Good, HandlerInv
<1>1. UNCHANGED <<AbstractQueue, AbstractTaken, op, arg>> BY ChannelKept DEF ReapShutdown
<1>2. /\ at[q] = "wait_cqe" /\ m_shutdown[q] /\ at' = [at EXCEPT ![q] = "exited"]
      /\ cq' = [cq EXCEPT ![q] = Tail(cq[q])]
      /\ UNCHANGED <<m_n_reserved, m_pending, m_shutdown, sq, inflight, owner, left, queue_of>>
  BY DEF ReapShutdown, Reaps, At, Move, handlerVars, slotVars
<1>3. \A p \in Queues : ~m_shutdown[p] => cq'[p] = cq[p] BY <1>2 DEF AioTypeOK
<1>4. /\ DOMAIN at' = Threads /\ at'[q] = "exited"
      /\ \A u \in Threads \ {q} : at'[u] = at[u]
  BY <1>0, <1>2 DEF HandlerTypeOK
<1>5. /\ \A u \in Submitters : HasSlot(u)' <=> HasSlot(u)
      /\ \A p \in Queues : Returning(p)' <=> Returning(p)
  BY <1>1, <1>2, <1>4, TwoKinds DEF HasSlot, Returning
<1>6. \A i, K, t, k : Held(i, K, t, k)' <=> Held(i, K, t, k) BY <1>1, <1>2, <1>3, <1>5 DEF Held
<1>7. Places' BY <1>6, MoveNone DEF Good, Places, Slots
<1>8. \A i : InRing(i)' <=> InRing(i) BY <1>2, <1>3 DEF InRing
<1>9. HandlerInv'
  <2>1. HandlerTypeOK' BY <1>0, <1>2, <1>4, TwoKinds DEF HandlerTypeOK, ReaperPlaces, Slots
  <2>2. CallsAgree' BY <1>0, <1>1, <1>2, <1>4, TwoKinds DEF CallsAgree
  <2>3. EntriesWhole' BY <1>0, <1>2, <1>3 DEF EntriesWhole
  <2>4. OwnersInRings' BY <1>0, <1>2, <1>8 DEF OwnersInRings, Slots
  <2>5. PreparedByOne' BY <1>0, <1>2, <1>4, TwoKinds DEF PreparedByOne
  <2>6. PendingCounts' BY <1>0, <1>2, <1>3 DEF PendingCounts
  <2>7. QuietAfterShutdown' BY <1>0, <1>2, <1>4, TwoKinds DEF QuietAfterShutdown
  <2> QED BY <2>1, <2>2, <2>3, <2>4, <2>5, <2>6, <2>7 DEF HandlerInv
<1>10. Counted' = Counted BY <1>2, <1>4, TwoKinds DEF Counted, Reserving
<1>11. CountOK' BY <1>2, <1>10, CountKept DEF Good
<1> QED BY <1>7, <1>9, <1>11 DEF Good

\* The rings are empty when all was reaped.
LEMMA ReapedRings ==
  ASSUME HandlerInv, AllReaped
  PROVE  \A q \in Queues : sq[q] = <<>> /\ inflight[q] = <<>> /\ cq[q] = <<>> /\ ~m_shutdown[q]
BY DEF HandlerInv, PreparedByOne, AllReaped

\* shutdown() finds every ring empty.
LEMMA Good_Shutdown ==
  ASSUME Good, AioTypeOK, Shutdown, ~aborted'
  PROVE  Good'
<1>0. HandlerTypeOK /\ CallsAgree /\ EntriesWhole /\ OwnersInRings
      /\ PreparedByOne /\ PendingCounts /\ QuietAfterShutdown /\ AllReaped
  BY DEF Good, HandlerInv, Shutdown
<1>1. UNCHANGED <<AbstractQueue, AbstractTaken, op, arg>> BY ChannelKept DEF Shutdown
<1>2. /\ m_shutdown' = [q \in Queues |-> TRUE]
      /\ UNCHANGED <<at, m_n_reserved, m_pending, sq, inflight, owner, left, queue_of>>
  BY DEF Shutdown, Abort, handlerVars, slotVars
<1>3. \A q \in Queues : sq[q] = <<>> /\ inflight[q] = <<>> /\ cq[q] = <<>> /\ ~m_shutdown[q]
  BY <1>0, ReapedRings DEF Good
<1>4. \A q \in Queues : m_shutdown'[q] BY <1>2
<1>5. /\ \A u \in Submitters : HasSlot(u)' <=> HasSlot(u)
      /\ \A p \in Queues : Returning(p)' <=> Returning(p)
  BY <1>1, <1>2 DEF HasSlot, Returning
<1>6. \A q \in Queues : DOMAIN cq[q] = {}
  <2>1. DOMAIN <<>> = {} OBVIOUS
  <2> QED BY <1>3, <2>1
<1>7. \A i, K, t, k : Held(i, K, t, k)' <=> Held(i, K, t, k) BY <1>1, <1>2, <1>4, <1>5, <1>6 DEF Held
<1>8. Places' BY <1>7, MoveNone DEF Good, Places, Slots
<1>9. \A i : InRing(i)' <=> InRing(i) BY <1>2, <1>4, <1>6 DEF InRing
<1>10. HandlerInv'
  <2>1. HandlerTypeOK' BY <1>0, <1>2 DEF HandlerTypeOK, Slots
  <2>2. CallsAgree' BY <1>0, <1>1, <1>2 DEF CallsAgree
  <2>3. EntriesWhole' BY <1>0, <1>2, <1>4 DEF EntriesWhole
  <2>4. OwnersInRings' BY <1>0, <1>2, <1>9 DEF OwnersInRings, Slots
  <2>5. PreparedByOne' BY <1>0, <1>2 DEF PreparedByOne
  <2>6. PendingCounts' BY <1>4 DEF PendingCounts
  <2>7. QuietAfterShutdown' BY <1>0, <1>2, <1>3 DEF QuietAfterShutdown, AllReaped
  <2> QED BY <2>1, <2>2, <2>3, <2>4, <2>5, <2>6, <2>7 DEF HandlerInv
<1>11. Counted' = Counted BY <1>2 DEF Counted
<1>12. CountOK' BY <1>2, <1>11, CountKept DEF Good
<1> QED BY <1>8, <1>10, <1>12 DEF Good

\* The handler starts with all slots in the pool.
LEMMA InitGood ==
  Init => Good
<1> SUFFICES ASSUME Init PROVE Good OBVIOUS
<1> USE DEF Init
<1>0. ChannelInit /\ N \in Nat /\ N >= 2 /\ NumQueues \in Nat /\ NumQueues >= 1 BY CellFacts, AioThreads
<1>1. /\ \A t \in Threads : op[t] = "idle"
      /\ \A s \in Submitters : at[s] = "idle"
      /\ \A q \in Queues : at[q] = "wait_cqe" /\ m_pending[q] = 0 /\ m_shutdown[q] = FALSE
                           /\ sq[q] = <<>> /\ inflight[q] = <<>> /\ cq[q] = <<>>
  BY <1>0, TwoKinds DEF ChannelInit
<1>2. \A q \in Queues : DOMAIN sq[q] = {} /\ DOMAIN inflight[q] = {} /\ DOMAIN cq[q] = {} /\ Len(sq[q]) = 0 /\ Len(inflight[q]) = 0 /\ Len(cq[q]) = 0
  <2>1. DOMAIN <<>> = {} /\ Len(<<>>) = 0 OBVIOUS
  <2> QED BY <1>1, <2>1
<1>3. \A i \in Slots : owner[i] = NoOwner /\ ~InRing(i) BY <1>2 DEF InRing
<1>4. /\ \A s \in Submitters : ~HasSlot(s)
      /\ \A q \in Queues : ~Returning(q)
  BY <1>1, TwoKinds DEF HasSlot, Returning, Reserving
<1>5. DOMAIN AbstractQueue = 1 .. N /\ \A k \in 1 .. N : AbstractQueue[k] = k - 1
  <2>1. m_epos = N /\ m_dpos = 0 BY <1>0 DEF ChannelInit
  <2>2. ASSUME NEW p \in Cells PROVE ValueAt(p) = p
    <3>1. CellOf(p) = p BY <1>0 DEF Cells, CellOf
    <3>2. m_pos[p] = p + 1 /\ m_data[p] = p BY <1>0 DEF ChannelInit
    <3> QED BY <3>1, <3>2 DEF ValueAt
  <2>3. DOMAIN AbstractQueue = 1 .. N BY <1>0, <2>1 DEF AbstractQueue
  <2>4. ASSUME NEW k \in 1 .. N PROVE AbstractQueue[k] = k - 1
    <3>1. k - 1 \in Cells /\ k - 1 \in m_dpos .. m_epos - 1 /\ m_dpos + k - 1 = k - 1 /\ k \in 1 .. m_epos - m_dpos
      BY <1>0, <2>1 DEF Cells
    <3>2. AbstractQueue[k] = Queued[k - 1] BY <3>1 DEF AbstractQueue
    <3> QED BY <2>2, <3>1, <3>2 DEF Queued
  <2> QED BY <2>3, <2>4
<1>6. Places
  <2> SUFFICES ASSUME NEW i \in Slots PROVE OnePlace(i) BY DEF Places
  <2>1. i \in Nat /\ i <= N - 1 BY <1>0 DEF Slots, Values, Cells
  <2>2. \A K, t, k : Held(i, K, t, k) <=> K = "pool" /\ t = 0 /\ k = i + 1
    <3> TAKE K, t, k
    <3>1. Held(i, K, t, k) <=> K = "pool" /\ t = 0 /\ k \in 1 .. N /\ AbstractQueue[k] = i
      BY <1>2, <1>4, <1>5 DEF Held
    <3>2. k \in 1 .. N /\ AbstractQueue[k] = i <=> k = i + 1
      <4>1. ASSUME k \in 1 .. N PROVE AbstractQueue[k] = i <=> k = i + 1
        <5>1. AbstractQueue[k] = k - 1 BY <1>5, <4>1
        <5>2. k \in Int BY <1>0, <4>1
        <5> QED BY <2>1, <5>1, <5>2
      <4>2. i + 1 \in 1 .. N BY <1>0, <2>1
      <4> QED BY <4>1, <4>2
    <3> QED BY <3>1, <3>2
  <2>3. Held(i, "pool", 0, i + 1) BY <2>2
  <2> QED BY <2>2, <2>3 DEF OnePlace
<1>7. HandlerInv
  <2>1. HandlerTypeOK
    <3>1. 1 \in Queues BY <1>0 DEF Queues
    <3>2. at = [t \in Threads |-> IF t \in Queues THEN "wait_cqe" ELSE "idle"] OBVIOUS
    <3>3. DOMAIN at = Threads BY <3>2
    <3>4. /\ m_n_reserved \in Int
          /\ m_pending \in [Queues -> Nat]
          /\ m_shutdown \in [Queues -> BOOLEAN]
          /\ queue_of \in [Submitters -> Queues]
          /\ owner \in [Slots -> Submitters \cup {NoOwner}]
      BY <3>1
    <3> QED BY <1>1, <3>3, <3>4 DEF HandlerTypeOK, SubmitterPlaces, ReaperPlaces
  <2>2. CallsAgree BY <1>1, TwoKinds DEF CallsAgree
  <2>3. EntriesWhole BY <1>2 DEF EntriesWhole
  <2>4. OwnersInRings BY <1>3 DEF OwnersInRings
  <2>5. PreparedByOne BY <1>1 DEF PreparedByOne
  <2>6. PendingCounts
    <3> SUFFICES ASSUME NEW q \in Queues PROVE m_pending[q] = Len(sq[q]) + Len(inflight[q]) + Len(cq[q])
      BY DEF PendingCounts
    <3>1. m_pending[q] = 0 /\ Len(sq[q]) = 0 /\ Len(inflight[q]) = 0 /\ Len(cq[q]) = 0 BY <1>1, <1>2
    <3>2. 0 = 0 + 0 + 0 OBVIOUS
    <3> QED BY <3>1, <3>2, Zenon
  <2>7. QuietAfterShutdown BY <1>1 DEF QuietAfterShutdown
  <2> QED BY <2>1, <2>2, <2>3, <2>4, <2>5, <2>6, <2>7 DEF HandlerInv
<1>8. Counted = {} BY <1>1 DEF Counted, Reserving
<1>9. Owned = {} BY <1>3 DEF Owned
<1>10. CountOK BY <1>8, <1>9, FS_EmptySet DEF CountOK
<1> QED BY <1>6, <1>7, <1>10 DEF Good

\* Once a request was completed in parts, or the process has ended, it stays so.
LEMMA WholeBefore ==
  ASSUME [Next]_vars, partial \in Nat
  PROVE  partial' \in Nat /\ (Whole' => Whole)
<1>1. CASE \E q \in Queues : KernelCompletes(q)
  <2>1. PICK q \in Queues : KernelCompletes(q) BY <1>1
  <2>2. ~aborted /\ (partial' = partial \/ partial' = partial + 1) BY <2>1 DEF KernelCompletes
  <2> QED BY <2>2 DEF Whole
<1>2. CASE ~\E q \in Queues : KernelCompletes(q)
  <2>1. partial' = partial /\ (aborted => aborted')
    <3>1. ASSUME NEW s \in Submitters, SubmitterStep(s) PROVE partial' = partial /\ (aborted => aborted')
      BY <3>1 DEF SubmitterStep, Submit, ReserveCheck, ReserveWait, ReserveDequeue, ReserveCount,
         ReserveTestOne, ReserveResetEmpty, ReserveTestAll, ReserveResetNotFull, SubmitPrepare,
         SubmitEnter, SubmitEnterFails, WaitForPendingOps, WaitReturns, restVars, Abort
    <3>2. ASSUME NEW q \in Queues, ReaperStep(q) PROVE partial' = partial /\ (aborted => aborted')
      BY <3>2 DEF ReaperStep, ReapShutdown, ReapUnexpected, ReapPartial, ReapResubmit, ReapResubmitFails,
         ReapComplete, FreeEnqueue, FreeEnqueueFails, FreeUncount, FreeTestFull, FreeSetNotFull,
         FreeTestEmpty, FreeSetEmpty, restVars, Abort
    <3>3. ASSUME NEW t \in Threads, ChannelCall(t) PROVE partial' = partial /\ (aborted => aborted')
      BY <3>3 DEF ChannelCall, aioVars, restVars
    <3>4. ASSUME Shutdown \/ Terminated \/ UNCHANGED vars PROVE partial' = partial /\ (aborted => aborted')
      BY <3>4 DEF Shutdown, Terminated, vars, aioVars, restVars, Abort
    <3> QED BY <1>2, <3>1, <3>2, <3>3, <3>4 DEF Next
  <2> QED BY <2>1 DEF Whole
<1> QED BY <1>1, <1>2

\* While no request is completed in parts, the reapers resubmit nothing.
LEMMA NothingResubmitted ==
  ASSUME Good, AioTypeOK, NEW q \in Queues
  PROVE  ~ReapPartial(q) /\ ~ReapUnexpected(q) /\ ~ReapResubmit(q) /\ ~ReapResubmitFails(q)
<1>1. at[q] # "resubmit" BY DEF Good, HandlerInv, HandlerTypeOK, ReaperPlaces
<1>2. ASSUME cq[q] # <<>>, ~m_shutdown[q]
      PROVE  left[Head(cq[q]).slot] = Head(cq[q]).res /\ Head(cq[q]).res \in Nat
  <2>1. cq[q] \in Seq(CqEntry) BY DEF AioTypeOK
  <2>2. Head(cq[q]) = cq[q][1] /\ 1 \in DOMAIN cq[q]
    <3>1. Len(cq[q]) \in Nat /\ Len(cq[q]) >= 1 /\ DOMAIN cq[q] = 1 .. Len(cq[q]) /\ Head(cq[q]) = cq[q][1]
      BY <1>2, <2>1, ListFacts
    <3> QED BY <3>1
  <2> QED BY <1>2, <2>2, ReqLenAssumption DEF Good, HandlerInv, EntriesWhole
<1>3. ~ReapPartial(q) BY <1>2 DEF ReapPartial, Reaps
<1>4. ~ReapUnexpected(q) BY <1>2 DEF ReapUnexpected, Reaps
<1> QED BY <1>1, <1>3, <1>4 DEF ReapResubmit, ReapResubmitFails, At

\* Every step keeps the invariant.
LEMMA NextGood ==
  ASSUME ChannelInv, ChannelInv', AioTypeOK, partial \in Nat, Whole => Good, [Next]_vars, Whole'
  PROVE  Good'
<1>0. Good /\ Whole /\ partial = 0 /\ partial' = 0 /\ ~aborted' BY WholeBefore DEF Whole
<1>1. ASSUME NEW s \in Submitters, SubmitterStep(s) PROVE Good'
  <2>1. CASE ReserveDequeue(s) BY <1>0, <2>1, Good_Dequeue
  <2>2. CASE ReserveCount(s) BY <1>0, <2>2, Good_Count
  <2>3. CASE SubmitPrepare(s) BY <1>0, <2>3, Good_SubmitPrepare
  <2>4. CASE SubmitEnter(s) BY <1>0, <2>4, Good_SubmitEnter
  <2>5. CASE SubmitEnterFails(s) BY <1>0, <2>5 DEF SubmitEnterFails, Abort
  <2> QED BY <1>0, <1>1, <2>1, <2>2, <2>3, <2>4, <2>5, SubmitterLooks DEF SubmitterStep
<1>2. ASSUME NEW q \in Queues, ReaperStep(q) PROVE Good'
  <2>1. CASE ReapShutdown(q) BY <1>0, <2>1, Good_ReapShutdown
  <2>2. CASE ReapComplete(q) BY <1>0, <2>2, Good_ReapComplete
  <2>3. CASE FreeEnqueue(q) BY <1>0, <2>3, Good_Enqueue
  <2>4. CASE FreeEnqueueFails(q) BY <1>0, <2>4 DEF FreeEnqueueFails, Abort
  <2>5. CASE FreeUncount(q) BY <1>0, <2>5, Good_Count
  <2> QED BY <1>0, <1>2, <2>1, <2>2, <2>3, <2>4, <2>5, ReaperLooks, NothingResubmitted DEF ReaperStep
<1>3. ASSUME NEW q \in Queues, KernelCompletes(q) PROVE Good' BY <1>0, <1>3, Good_KernelCompletes
<1>4. ASSUME NEW t \in Threads, ChannelCall(t) PROVE Good'
  <2>1. InsideCall(t) /\ UNCHANGED aioVars BY <1>4 DEF ChannelCall
  <2>2. CASE t \in Submitters
    <3>1. op[t] \in {"idle"} \cup DequeueOps BY <1>0, <2>2 DEF Good, HandlerInv, CallsAgree
    <3>2. DequeueLoadSeq(t) \/ DequeueClaim(t) \/ DequeueReload(t) \/ DequeueCopy(t)
      BY <2>1, <3>1 DEF InsideCall, EnqueueLoadSeq, EnqueueClaim, EnqueueReload, EnqueueCopy, DequeueOps
    <3> QED BY <1>0, <2>1, <2>2, <3>2, Good_Dequeue, Good_DequeueClaim
  <2>3. CASE t \in Queues
    <3>1. op[t] \in {"idle"} \cup EnqueueOps BY <1>0, <2>3 DEF Good, HandlerInv, CallsAgree
    <3>2. EnqueueLoadSeq(t) \/ EnqueueClaim(t) \/ EnqueueReload(t) \/ EnqueueCopy(t)
      BY <2>1, <3>1 DEF InsideCall, DequeueLoadSeq, DequeueClaim, DequeueReload, DequeueCopy, EnqueueOps
    <3> QED BY <1>0, <2>1, <2>3, <3>2, Good_Enqueue, Good_EnqueueClaim
  <2> QED BY <2>2, <2>3, AioThreads
<1>5. ASSUME Shutdown PROVE Good' BY <1>0, <1>5, Good_Shutdown
<1>6. ASSUME Terminated \/ UNCHANGED vars PROVE Good'
  <2>0. UNCHANGED vars BY <1>6 DEF Terminated
  <2>1. UNCHANGED channelVars /\ UNCHANGED aioVars BY <2>0 DEF vars
  <2>2. UNCHANGED <<AbstractQueue, AbstractTaken, op, arg>> BY <2>1, ChannelKept
  <2>3. UNCHANGED <<at, m_n_reserved, sq, inflight, cq, m_shutdown, m_pending, owner, left, queue_of>>
    BY <2>1 DEF aioVars, handlerVars, ringVars, slotVars
  <2>4. HandlerTypeOK' /\ CallsAgree' /\ QuietAfterShutdown'
    BY <1>0, <2>2, <2>3 DEF Good, HandlerInv, HandlerTypeOK, CallsAgree, QuietAfterShutdown, Slots
  <2>5. /\ \A s \in Submitters : HasSlot(s)' <=> HasSlot(s)
        /\ \A q \in Queues : Returning(q)' <=> Returning(q)
    BY <2>2, <2>3 DEF HasSlot, Returning
  <2>6. HandlerInv' /\ Places' BY <1>0, <2>2, <2>3, <2>4, <2>5, StaysPut DEF Good
  <2>7. CountOK'
    <3>1. Counted' = Counted BY <2>3 DEF Counted
    <3> QED BY <1>0, <2>3, <3>1, CountKept DEF Good
  <2> QED BY <2>6, <2>7 DEF Good
<1> QED BY <1>1, <1>2, <1>3, <1>4, <1>5, <1>6 DEF Next

\* What holds of the handler as long as the kernel completes whole requests.
LEMMA HandlerIsGood ==
  Spec => [](ChannelInv /\ (Whole => Good))
<1>1. Init => ChannelInv /\ AioTypeOK /\ partial \in Nat /\ Good
  BY InitChannelInv, InitAioTypes, InitGood DEF Init
<1>2. ChannelInv /\ AioTypeOK /\ [Next]_vars => ChannelInv' /\ AioTypeOK'
  BY NextAioTypes, HandlerUsesChannel, NextChannelInv
<1>3. partial \in Nat /\ [Next]_vars => (partial \in Nat)' BY WholeBefore
<1>4. ChannelInv /\ ChannelInv' /\ AioTypeOK /\ partial \in Nat /\ (Whole => Good) /\ [Next]_vars /\ Whole' => Good'
  BY NextGood
<1> QED BY <1>1, <1>2, <1>3, <1>4, PTL DEF Spec

\* As long as the kernel completes whole requests, every slot is in one place: it is never
\* given to two submitters, never in the free pool while the kernel works on it, and never
\* lost, for any number of submitters, queues, slots and requests.
THEOREM SlotsAreExclusive ==
  Spec => []SlotExclusive
<1>1. (Whole => Good) => SlotExclusive BY OneHolder DEF Good, Places, SlotExclusive, Whole
<1> QED BY <1>1, HandlerIsGood, PTL

\* As long as the kernel completes whole requests, m_n_reserved is the number of slots
\* that are given away and of threads between the pool and the counter.
THEOREM CounterIsRight ==
  Spec => []ReservedCount
<1>1. (Whole => Good) => ReservedCount BY DEF Good, CountOK, Owned, ReservedCount, Whole
<1> QED BY <1>1, HandlerIsGood, PTL

\* When all was reaped, every slot is in the pool.
LEMMA AllInPool ==
  ASSUME Good, ChannelInv, AllReaped
  PROVE  m_epos = m_dpos + N
<1>0. m_epos \in Nat /\ m_dpos \in Nat /\ N \in Nat /\ N >= 2 /\ m_dpos <= m_epos /\ m_epos <= m_dpos + N
  BY CellFacts DEF ChannelInv, ChannelTypeOK
<1>1. PICK L \in Nat : L = m_epos - m_dpos BY <1>0
<1>2. DOMAIN AbstractQueue = 1 .. L BY <1>1 DEF AbstractQueue
<1>3. \A q \in Queues : /\ DOMAIN sq[q] = {} /\ DOMAIN inflight[q] = {} /\ DOMAIN cq[q] = {}
  <2>1. DOMAIN <<>> = {} OBVIOUS
  <2> QED BY <2>1, ReapedRings DEF Good
<1>4. /\ \A s \in Submitters : ~HasSlot(s)
      /\ \A q \in Queues : ~Returning(q)
  BY DEF Good, HandlerInv, CallsAgree, AllReaped, HasSlot, Returning, Reserving
<1>5. ASSUME NEW i \in Slots PROVE \E k \in 1 .. L : AbstractQueue[k] = i
  <2>1. PICK K, t, k : Held(i, K, t, k) BY DEF Good, Places, OnePlace
  <2> QED BY <1>2, <1>3, <1>4, <2>1 DEF Held
<1> DEFINE f == [k \in 1 .. L |-> IF AbstractQueue[k] \in Slots THEN AbstractQueue[k] ELSE 0]
<1>6. 0 \in Slots BY <1>0 DEF Slots, Values, Cells
<1>7. f \in Surjection(1 .. L, Slots)
  <2>1. f \in [1 .. L -> Slots] BY <1>6
  <2>2. \A i \in Slots : \E k \in 1 .. L : f[k] = i BY <1>5
  <2> QED BY <2>1, <2>2 DEF Surjection
<1>8. IsFiniteSet(1 .. L) /\ Cardinality(1 .. L) = L
  <2>1. IsFiniteSet(1 .. L) /\ Cardinality(1 .. L) = IF 1 > L THEN 0 ELSE L - 1 + 1 BY FS_Interval
  <2> QED BY <2>1
<1>9. IsFiniteSet(Slots) /\ Cardinality(Slots) = N
  <2>1. /\ IsFiniteSet(0 .. N - 1)
        /\ Cardinality(0 .. N - 1) = IF 0 > N - 1 THEN 0 ELSE (N - 1) - 0 + 1
    BY <1>0, FS_Interval
  <2>2. Cardinality(0 .. N - 1) = N BY <1>0, <2>1
  <2> QED BY <2>1, <2>2 DEF Slots, Values, Cells
<1>10. N <= L
  <2>1. Cardinality(Slots) <= Cardinality(1 .. L) BY <1>7, <1>8, FS_Surjection
  <2> QED BY <1>8, <1>9, <2>1
<1> QED BY <1>0, <1>1, <1>10

\* When all was reaped, what shutdown() asserts is true.
LEMMA CleanWhenReaped ==
  ASSUME Good, ChannelInv, AllReaped
  PROVE  ShutdownAssertions /\ Len(AbstractQueue) = N
<1>0. m_epos \in Nat /\ m_dpos \in Nat /\ N \in Nat /\ N >= 2 /\ m_pos \in [Cells -> Nat]
  BY CellFacts DEF ChannelInv, ChannelTypeOK
<1>1. m_epos = m_dpos + N BY AllInPool
<1>2. Len(AbstractQueue) = N
  <2>1. AbstractQueue \in Seq(Values) BY QueueIsSeq
  <2>2. DOMAIN AbstractQueue = 1 .. N
    <3>1. m_epos - m_dpos = N BY <1>0, <1>1
    <3> QED BY <3>1 DEF AbstractQueue
  <2> QED BY <1>0, <2>1, <2>2, LenProperties
<1>3. full
  <2>1. PICK c \in Cells : c = CellOf(m_epos) BY <1>0, CellFacts
  <2>2. PICK p \in Nat : FreeFor(c, p) \/ FullAt(c, p) BY DEF ChannelInv, CellInv
  <2>3. CASE FreeFor(c, p)
    <3>1. m_pos[c] = p /\ p < m_dpos + N BY <2>3 DEF FreeFor
    <3>2. p <= m_epos BY <1>0, <1>1, <3>1
    <3> QED BY <2>1, <3>1, <3>2 DEF full
  <2>4. CASE FullAt(c, p)
    <3>1. m_pos[c] = p + 1 /\ p < m_epos BY <2>4 DEF FullAt
    <3>2. p + 1 <= m_epos BY <1>0, <3>1
    <3> QED BY <2>1, <3>1, <3>2 DEF full
  <2> QED BY <2>2, <2>3, <2>4
<1>4. ASSUME NEW q \in Queues PROVE m_pending[q] = 0
  <2>1. sq[q] = <<>> /\ inflight[q] = <<>> /\ cq[q] = <<>> /\ ~m_shutdown[q] BY ReapedRings DEF Good
  <2>2. Len(<<>>) = 0 OBVIOUS
  <2>3. m_pending[q] = Len(sq[q]) + Len(inflight[q]) + Len(cq[q]) BY <2>1 DEF Good, HandlerInv, PendingCounts
  <2>4. m_pending[q] = 0 + 0 + 0 BY <2>1, <2>2, <2>3, Zenon
  <2> QED BY <2>4
<1>5. Counted = {} BY DEF Counted, AllReaped, Reserving
<1>6. Owned = {}
  <2>1. \A q \in Queues : /\ DOMAIN sq[q] = {} /\ DOMAIN inflight[q] = {} /\ DOMAIN cq[q] = {}
    <3>1. DOMAIN <<>> = {} OBVIOUS
    <3> QED BY <3>1, ReapedRings DEF Good
  <2>2. \A i \in Slots : ~InRing(i) BY <2>1 DEF InRing
  <2> QED BY <2>2 DEF Good, HandlerInv, OwnersInRings, Owned
<1>7. m_n_reserved = 0 BY <1>5, <1>6, FS_EmptySet DEF Good, CountOK
<1> QED BY <1>2, <1>3, <1>4, <1>7 DEF ShutdownAssertions

\* As long as the kernel completes whole requests, the assertions of Queue::shutdown() hold
\* when the submitters are done and everything was reaped, and the pool has all slots.
THEOREM ShutdownFindsAllFree ==
  Spec => []ShutdownIsClean
<1>1. ChannelInv /\ (Whole => Good) => ShutdownIsClean
  <2> SUFFICES ASSUME ChannelInv, Whole => Good, partial = 0, AllReaped
               PROVE  ShutdownAssertions /\ Len(AbstractQueue) = N
    BY DEF ShutdownIsClean
  <2>1. Good BY DEF Whole, AllReaped
  <2> QED BY <2>1, CleanWhenReaped
<1> QED BY <1>1, HandlerIsGood, PTL
=============================================================================
