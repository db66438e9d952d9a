-------------------------------- MODULE Aio --------------------------------
(***************************************************************************)
(* One handler of the asynchronous i/o system (os/os0aio.cc): the pool of  *)
(* free slots, its two events, and the io_uring queues with one reaping    *)
(* thread each.  A submitter reserves a slot and hands it to the kernel; a *)
(* reaper takes the completion and returns the slot to the pool.           *)
(*                                                                         *)
(* The free pool is the Bounded_channel of BoundedChannel, whose values    *)
(* are the slots; every access to m_n_reserved is a step of its own, as in *)
(* the code, and so is every set() and reset() of an event.  io_uring is   *)
(* external: what the calls of the code say of it is modelled.             *)
(***************************************************************************)
EXTENDS BoundedChannel, FiniteSets

CONSTANTS Submitters,   \* threads that read or write pages
          NumQueues,    \* m_queues.size(); queue q is reaped by thread q
          ReqLen,       \* the length of a request, in blocks
          MaxRequests,  \* bound of the model: requests submitted
          MaxPartial    \* bound of the model: completions of a part only

Queues == 1 .. NumQueues
Slots  == Values

ASSUME AioThreads ==
  /\ Threads = Submitters \cup Queues
  /\ IsFiniteSet(Submitters) /\ Submitters \cap Queues = {}
  /\ NumQueues \in Nat \ {0}
ASSUME ReqLenAssumption == ReqLen \in Nat \ {0}

VARIABLES
  at,            \* at[t]: where thread t is
  m_n_reserved,  \* the counter of the handler
  m_not_full,    \* is the event set?
  m_is_empty,    \* is the event set?
  m_pending,     \* m_pending[q]: m_pending_slots of queue q
  m_shutdown,    \* m_shutdown[q]
  queue_of,      \* queue_of[s]: the queue the submitter chose
  owner,         \* owner[i]: the submitter whose request is in slot i
  left,          \* left[i]: m_request.m_len of slot i
  sq,            \* sq[q]: entries prepared, not yet given to the kernel
  inflight,      \* inflight[q]: what the kernel works on
  cq,            \* cq[q]: completions, the oldest first
  requests,      \* how many requests were made
  partial,       \* how often the kernel did a part of a request only
  aborted        \* an assertion failed or log_fatal() was called

handlerVars == <<m_n_reserved, m_not_full, m_is_empty>>
ringVars    == <<m_pending, m_shutdown, sq, inflight, cq>>
slotVars    == <<owner, left>>
restVars    == <<requests, partial, aborted>>
aioVars     == <<at, handlerVars, ringVars, slotVars, restVars, queue_of>>
vars        == <<aioVars, channelVars>>

NoOwner == "none"
ASSUME NoOwnerAssumption == NoOwner \notin Submitters

(* Handler::Handler(): m_not_full is left unset. *)
Init ==
  /\ ChannelInit
  /\ at = [t \in Threads |-> IF t \in Queues THEN "wait_cqe" ELSE "idle"]
  /\ m_n_reserved = 0 /\ m_not_full = FALSE /\ m_is_empty = TRUE
  /\ m_pending = [q \in Queues |-> 0]
  /\ m_shutdown = [q \in Queues |-> FALSE]
  /\ queue_of = [s \in Submitters |-> 1]
  /\ owner = [i \in Slots |-> NoOwner] /\ left = [i \in Slots |-> 0]
  /\ sq = [q \in Queues |-> <<>>]
  /\ inflight = [q \in Queues |-> <<>>]
  /\ cq = [q \in Queues |-> <<>>]
  /\ requests = 0 /\ partial = 0 /\ aborted = FALSE

Move(t, where) == at' = [at EXCEPT ![t] = where]

At(t, where) == at[t] = where /\ ~aborted

(* ut_a() fails or log_fatal(): the process ends. *)
Abort ==
  /\ aborted' = TRUE
  /\ UNCHANGED <<at, handlerVars, ringVars, slotVars, requests, partial, queue_of>>

-----------------------------------------------------------------------------
(* Handler::get_queue_for_submit(): the first queue with the fewest pending
   slots.  The relaxed loads of the loop are one step. *)
LeastPending ==
  CHOOSE q \in Queues :
    \A p \in Queues : \/ m_pending[q] < m_pending[p]
                      \/ m_pending[q] = m_pending[p] /\ q <= p

(* Impl::submit() of an asynchronous request. *)
Submit(s) ==
  /\ At(s, "idle") /\ requests < MaxRequests
  /\ \A q \in Queues : ~m_shutdown[q]
  /\ requests' = requests + 1
  /\ queue_of' = [queue_of EXCEPT ![s] = LeastPending]
  /\ Move(s, "check")
  /\ UNCHANGED <<handlerVars, ringVars, slotVars, partial, aborted, channelVars>>

(* Queue::reserve_slot(): is the handler full? *)
ReserveCheck(s) ==
  /\ At(s, "check")
  /\ Move(s, IF m_n_reserved = N THEN "not_full" ELSE "dequeue")
  /\ UNCHANGED <<handlerVars, ringVars, slotVars, restVars, queue_of, channelVars>>

(* m_not_full->wait(0): returns at once if the event is set.  A thread that
   sleeps is moved on by set(), which changes the signal count. *)
ReserveWait(s) ==
  /\ At(s, "not_full")
  /\ Move(s, IF m_not_full THEN "check" ELSE "not_full_asleep")
  /\ UNCHANGED <<handlerVars, ringVars, slotVars, restVars, queue_of, channelVars>>

(* m_free_pool->dequeue(slot), again and again until it succeeds. *)
ReserveDequeue(s) ==
  /\ At(s, "dequeue")
  /\ \/ BeginDequeue(s) /\ UNCHANGED at
     \/ DequeueEmpty(s) /\ UNCHANGED at
     \/ DequeueRelease(s) /\ Move(s, "count")
  /\ UNCHANGED <<handlerVars, ringVars, slotVars, restVars, queue_of>>

(* m_n_reserved.fetch_add(1). *)
ReserveCount(s) ==
  /\ At(s, "count")
  /\ m_n_reserved' = m_n_reserved + 1
  /\ Move(s, "test_one")
  /\ UNCHANGED <<m_not_full, m_is_empty, ringVars, slotVars, restVars, queue_of, channelVars>>

(* if (m_n_reserved.load() == 1) *)
ReserveTestOne(s) ==
  /\ At(s, "test_one")
  /\ Move(s, IF m_n_reserved = 1 THEN "reset_empty" ELSE "test_all")
  /\ UNCHANGED <<handlerVars, ringVars, slotVars, restVars, queue_of, channelVars>>

ReserveResetEmpty(s) ==
  /\ At(s, "reset_empty")
  /\ m_is_empty' = FALSE
  /\ Move(s, "test_all")
  /\ UNCHANGED <<m_n_reserved, m_not_full, ringVars, slotVars, restVars, queue_of, channelVars>>

(* if (m_n_reserved.load() == m_slots.capacity()) *)
ReserveTestAll(s) ==
  /\ At(s, "test_all")
  /\ Move(s, IF m_n_reserved = N THEN "reset_not_full" ELSE "prep")
  /\ UNCHANGED <<handlerVars, ringVars, slotVars, restVars, queue_of, channelVars>>

ReserveResetNotFull(s) ==
  /\ At(s, "reset_not_full")
  /\ m_not_full' = FALSE
  /\ Move(s, "prep")
  /\ UNCHANGED <<m_n_reserved, m_is_empty, ringVars, slotVars, restVars, queue_of, channelVars>>

(* Queue::submit() up to io_uring_submit(): io_uring_get_sqe() finds an
   entry, for the ring has one per slot. *)
Prepare(q, i) ==
  /\ m_pending' = [m_pending EXCEPT ![q] = @ + 1]
  /\ sq' = [sq EXCEPT ![q] = Append(@, [slot |-> i, len |-> left'[i]])]
  /\ UNCHANGED <<m_shutdown, inflight, cq>>

(* The end of reserve_slot() fills the slot, then Queue::submit() begins. *)
SubmitPrepare(s) ==
  /\ At(s, "prep")
  /\ owner' = [owner EXCEPT ![data[s]] = s]
  /\ left' = [left EXCEPT ![data[s]] = ReqLen]
  /\ Prepare(queue_of[s], data[s])
  /\ Move(s, "enter")
  /\ UNCHANGED <<handlerVars, restVars, queue_of, channelVars>>

(* io_uring_submit() gives all prepared entries to the kernel and returns
   their number, and the code takes any number but 1 for a failure. *)
Enter(q) ==
  /\ Len(sq[q]) = 1
  /\ inflight' = [inflight EXCEPT ![q] = @ \o sq[q]]
  /\ sq' = [sq EXCEPT ![q] = <<>>]
  /\ UNCHANGED <<m_pending, m_shutdown, cq>>

SubmitEnter(s) ==
  /\ At(s, "enter")
  /\ Enter(queue_of[s])
  /\ Move(s, "idle")
  /\ queue_of' = [queue_of EXCEPT ![s] = 1]
  /\ UNCHANGED <<handlerVars, slotVars, restVars, channelVars>>

SubmitEnterFails(t) ==
  /\ At(t, "enter") /\ t \in Submitters
  /\ Len(sq[queue_of[t]]) # 1
  /\ Abort /\ UNCHANGED channelVars

-----------------------------------------------------------------------------
(* Impl::wait_for_pending_ops(): m_is_empty->wait(0). *)
WaitForPendingOps(s) ==
  /\ At(s, "idle")
  /\ Move(s, IF m_is_empty THEN "waited" ELSE "empty_asleep")
  /\ UNCHANGED <<handlerVars, ringVars, slotVars, restVars, queue_of, channelVars>>

WaitReturns(s) ==
  /\ At(s, "waited")
  /\ Move(s, "idle")
  /\ UNCHANGED <<handlerVars, ringVars, slotVars, restVars, queue_of, channelVars>>

-----------------------------------------------------------------------------
(* The kernel completes one of the requests, perhaps a part of it. *)
KernelCompletes(q) ==
  /\ ~aborted
  /\ \E k \in DOMAIN inflight[q] : \E n \in 1 .. inflight[q][k].len :
       /\ cq' = [cq EXCEPT ![q] = Append(@, [slot |-> inflight[q][k].slot, res |-> n])]
       /\ inflight' = [inflight EXCEPT ![q] = SubSeq(@, 1, k - 1) \o SubSeq(@, k + 1, Len(@))]
       /\ n < inflight[q][k].len => partial < MaxPartial
       /\ partial' = IF n < inflight[q][k].len THEN partial + 1 ELSE partial
  /\ UNCHANGED <<at, handlerVars, slotVars, m_pending, m_shutdown, sq, requests, aborted,
                 queue_of, channelVars>>

(* Queue::reap(): io_uring_wait_cqe() returns the oldest completion, which
   stays in the ring until io_uring_cqe_seen(). *)
Reaps(q) == At(q, "wait_cqe") /\ cq[q] # <<>>

(* The completion of shutdown(): the reaping thread ends. *)
ReapShutdown(q) ==
  /\ Reaps(q) /\ m_shutdown[q]
  /\ cq' = [cq EXCEPT ![q] = Tail(@)]
  /\ Move(q, "exited")
  /\ UNCHANGED <<handlerVars, m_pending, m_shutdown, sq, inflight, slotVars, restVars, queue_of,
                 channelVars>>

(* ut_a(slot->m_request.m_len >= cqe->res) fails. *)
ReapUnexpected(q) ==
  /\ Reaps(q) /\ ~m_shutdown[q]
  /\ left[Head(cq[q]).slot] < Head(cq[q]).res
  /\ Abort /\ UNCHANGED channelVars

(* A partial completion: submit(slot) for the rest. *)
ReapPartial(q) ==
  /\ Reaps(q) /\ ~m_shutdown[q]
  /\ left[Head(cq[q]).slot] > Head(cq[q]).res
  /\ left' = [left EXCEPT ![Head(cq[q]).slot] = @ - Head(cq[q]).res]
  /\ Prepare(q, Head(cq[q]).slot)
  /\ Move(q, "resubmit")
  /\ UNCHANGED <<handlerVars, owner, restVars, queue_of, channelVars>>

ReapResubmit(q) ==
  /\ At(q, "resubmit")
  /\ Enter(q)
  /\ Move(q, "wait_cqe")
  /\ UNCHANGED <<handlerVars, slotVars, restVars, queue_of, channelVars>>

ReapResubmitFails(q) ==
  /\ At(q, "resubmit")
  /\ Len(sq[q]) # 1
  /\ Abort /\ UNCHANGED channelVars

\* (Mutant: m_pending_slots is not counted down.)
ReapComplete_pending(q) ==
  /\ Reaps(q) /\ ~m_shutdown[q]
  /\ left[Head(cq[q]).slot] = Head(cq[q]).res
  /\ left' = [left EXCEPT ![Head(cq[q]).slot] = 0]
  /\ owner' = [owner EXCEPT ![Head(cq[q]).slot] = NoOwner]
  /\ cq' = [cq EXCEPT ![q] = Tail(@)]
  /\ Move(q, "free")
  /\ UNCHANGED <<handlerVars, m_pending, m_shutdown, sq, inflight, restVars, queue_of>>
  /\ BeginEnqueue(q, Head(cq[q]).slot)

(* The request is complete; ut_a(n > 0) holds, for it was counted. *)
ReapComplete(q) ==
  /\ Reaps(q) /\ ~m_shutdown[q]
  /\ left[Head(cq[q]).slot] = Head(cq[q]).res
  /\ left' = [left EXCEPT ![Head(cq[q]).slot] = 0]
  /\ owner' = [owner EXCEPT ![Head(cq[q]).slot] = NoOwner]
  /\ m_pending' = [m_pending EXCEPT ![q] = @ - 1]
  /\ cq' = [cq EXCEPT ![q] = Tail(@)]
  /\ Move(q, "free")
  /\ UNCHANGED <<handlerVars, m_shutdown, sq, inflight, restVars, queue_of>>
  /\ BeginEnqueue(q, Head(cq[q]).slot)

(* Handler::mark_as_free(): the slot goes to the pool first. *)
FreeEnqueue(q) ==
  /\ At(q, "free")
  /\ EnqueuePublish(q)
  /\ Move(q, "uncount")
  /\ UNCHANGED <<handlerVars, ringVars, slotVars, restVars, queue_of>>

(* ut_a(success) fails. *)
FreeEnqueueFails(q) ==
  /\ At(q, "free")
  /\ EnqueueFull(q) /\ Abort

\* (Mutant: the slot is not counted off.)
FreeUncount_missing(q) ==
  /\ At(q, "uncount")
  /\ Move(q, "test_full")
  /\ UNCHANGED <<handlerVars, ringVars, slotVars, restVars, queue_of, channelVars>>

FreeUncount(q) ==
  /\ At(q, "uncount")
  /\ m_n_reserved' = m_n_reserved - 1
  /\ Move(q, "test_full")
  /\ UNCHANGED <<m_not_full, m_is_empty, ringVars, slotVars, restVars, queue_of, channelVars>>

(* if (m_n_reserved.load() == m_slots.capacity() - 1) *)
FreeTestFull(q) ==
  /\ At(q, "test_full")
  /\ Move(q, IF m_n_reserved = N - 1 THEN "set_not_full" ELSE "test_empty")
  /\ UNCHANGED <<handlerVars, ringVars, slotVars, restVars, queue_of, channelVars>>

(* Cond_var::set() moves the sleepers on when the event was not set. *)
MoveAll(t, where, from, to) ==
  at' = [u \in Threads |-> IF u = t THEN where ELSE IF at[u] = from THEN to ELSE at[u]]

FreeSetNotFull(q) ==
  /\ At(q, "set_not_full")
  /\ m_not_full' = TRUE
  /\ MoveAll(q, "test_empty", "not_full_asleep", "check")
  /\ UNCHANGED <<m_n_reserved, m_is_empty, ringVars, slotVars, restVars, queue_of, channelVars>>

(* if (m_n_reserved.load() == 0); the reaper returns and comes again. *)
FreeTestEmpty(q) ==
  /\ At(q, "test_empty")
  /\ Move(q, IF m_n_reserved = 0 THEN "set_empty" ELSE "wait_cqe")
  /\ UNCHANGED <<handlerVars, ringVars, slotVars, restVars, queue_of, channelVars>>

FreeSetEmpty(q) ==
  /\ At(q, "set_empty")
  /\ m_is_empty' = TRUE
  /\ MoveAll(q, "wait_cqe", "empty_asleep", "waited")
  /\ UNCHANGED <<m_n_reserved, m_not_full, ringVars, slotVars, restVars, queue_of, channelVars>>

-----------------------------------------------------------------------------
(* Bounded_channel::full() when no one else uses the channel. *)
full == m_pos[CellOf(m_epos)] <= m_epos

(* What Queue::shutdown() asserts of every queue. *)
ShutdownAssertions ==
  /\ \A q \in Queues : m_pending[q] = 0
  /\ full
  /\ m_n_reserved = 0

(* Impl::shutdown() after the submitters have ended and every request was
   reaped: each queue gets a cancel request, which completes.  If one of
   the assertions fails the process ends. *)
AllReaped ==
  /\ ~aborted
  /\ \A s \in Submitters : at[s] = "idle"
  /\ \A q \in Queues : at[q] = "wait_cqe" /\ inflight[q] = <<>> /\ cq[q] = <<>> /\ ~m_shutdown[q]

Shutdown ==
  /\ AllReaped
  /\ IF ShutdownAssertions
     THEN /\ m_shutdown' = [q \in Queues |-> TRUE]
          /\ cq' = [q \in Queues |-> <<[slot |-> 0, res |-> 0]>>]
          /\ UNCHANGED <<at, handlerVars, m_pending, sq, inflight, slotVars, restVars, queue_of>>
     ELSE Abort
  /\ UNCHANGED channelVars

Terminated ==
  /\ aborted \/ \A q \in Queues : m_shutdown[q]
  /\ UNCHANGED vars

ChannelCall(t) ==
  /\ ~aborted
  /\ InsideCall(t)
  /\ UNCHANGED aioVars

SubmitterStep(s) ==
  \/ Submit(s) \/ ReserveCheck(s) \/ ReserveWait(s) \/ ReserveDequeue(s)
  \/ ReserveCount(s) \/ ReserveTestOne(s) \/ ReserveResetEmpty(s)
  \/ ReserveTestAll(s) \/ ReserveResetNotFull(s)
  \/ SubmitPrepare(s) \/ SubmitEnter(s) \/ SubmitEnterFails(s)
  \/ WaitForPendingOps(s) \/ WaitReturns(s)

ReaperStep(q) ==
  \/ ReapShutdown(q) \/ ReapUnexpected(q) \/ ReapPartial(q) \/ ReapResubmit(q)
  \/ ReapResubmitFails(q) \/ ReapComplete(q)
  \/ FreeEnqueue(q) \/ FreeEnqueueFails(q) \/ FreeUncount(q) \/ FreeTestFull(q)
  \/ FreeSetNotFull(q) \/ FreeTestEmpty(q) \/ FreeSetEmpty(q)

Next ==
  \/ \E s \in Submitters : SubmitterStep(s)
  \/ \E q \in Queues : ReaperStep(q) \/ KernelCompletes(q)
  \/ \E t \in Threads : ChannelCall(t)
  \/ Shutdown
  \/ Terminated

Spec == Init /\ [][Next]_vars

-----------------------------------------------------------------------------
(* The submitters that have slot i: from the claim of its position in the
   pool to the call that gives it to the kernel. *)
Reserving == {"count", "test_one", "reset_empty", "test_all", "reset_not_full", "prep"}

HasSlot(s) == op[s] \in {"d_copy", "d_release"} \/ at[s] \in Reserving

(* The reapers that have a slot and no position yet to put it back at. *)
Returning(q) == at[q] = "free" /\ op[q] \notin {"e_copy", "e_publish"}

(* The entries of a list of each queue that are about slot i. *)
EntriesOf(list, queues, i) ==
  {e \in UNION {{<<q, k>> : k \in DOMAIN list[q]} : q \in queues} : list[e[1]][e[2]].slot = i}

(* Every place that slot i is in. *)
Holders(i) ==
  {<<"pool", 0, k>> : k \in {k \in DOMAIN AbstractQueue : AbstractQueue[k] = i}}
  \cup {<<"submitter", s, 0>> : s \in {s \in Submitters : HasSlot(s) /\ AbstractTaken[s] = i}}
  \cup {<<"sq", e[1], e[2]>> : e \in EntriesOf(sq, Queues, i)}
  \cup {<<"kernel", e[1], e[2]>> : e \in EntriesOf(inflight, Queues, i)}
  \cup {<<"cq", e[1], e[2]>> : e \in EntriesOf(cq, {q \in Queues : ~m_shutdown[q]}, i)}
  \cup {<<"reaper", q, 0>> : q \in {q \in Queues : Returning(q) /\ arg[q] = i}}

(* Until the kernel completes a part of a request only, a slot is in one
   place: never with two submitters, never in the pool while the kernel
   still works on it, and never lost. *)
SlotExclusive ==
  partial = 0 /\ ~aborted => \A i \in Slots : Cardinality(Holders(i)) = 1

(* m_n_reserved lags behind the pool on both sides: a slot is counted after
   it left the pool and until after it is back there. *)
Counted ==
  {s \in Submitters : at[s] \in Reserving \ {"count"}}
  \cup {q \in Queues : at[q] \in {"free", "uncount"}}

ReservedCount ==
  partial = 0 /\ ~aborted =>
    m_n_reserved = Cardinality(Counted) + Cardinality({i \in Slots : owner[i] # NoOwner})

(* When the submitters are done and everything was reaped, the assertions of
   Queue::shutdown() hold, unless a request was completed in parts; and the
   pool really has all slots, which the call of full() there does not test. *)
ShutdownIsClean ==
  (partial = 0 /\ AllReaped) => ShutdownAssertions /\ Len(AbstractQueue) = N

-----------------------------------------------------------------------------
(* What the rings hold are slots of the handler. *)
SqEntry == [slot : Slots, len : Nat]
CqEntry == [slot : Slots, res : Nat]

AioTypeOK ==
  /\ left \in [Slots -> Nat]
  /\ sq \in [Queues -> Seq(SqEntry)]
  /\ inflight \in [Queues -> Seq(SqEntry)]
  /\ cq \in [Queues -> Seq(CqEntry)]

-----------------------------------------------------------------------------
(* The inductive invariant behind SlotExclusive, ReservedCount and
   ShutdownIsClean: what holds until a request is completed in parts. *)

SubmitterPlaces == {"idle", "check", "not_full", "not_full_asleep", "dequeue", "enter",
                    "waited", "empty_asleep"} \cup Reserving
ReaperPlaces == {"wait_cqe", "exited", "free", "uncount", "test_full", "set_not_full",
                 "test_empty", "set_empty"}

HandlerTypeOK ==
  /\ DOMAIN at = Threads
  /\ \A s \in Submitters : at[s] \in SubmitterPlaces
  /\ \A q \in Queues : at[q] \in ReaperPlaces
  /\ m_n_reserved \in Int
  /\ m_pending \in [Queues -> Nat]
  /\ m_shutdown \in [Queues -> BOOLEAN]
  /\ queue_of \in [Submitters -> Queues]
  /\ owner \in [Slots -> Submitters \cup {NoOwner}]

(* A thread is inside a call of the channel only where the handler calls it. *)
CallsAgree ==
  /\ \A s \in Submitters :
       IF at[s] = "dequeue" THEN op[s] \in {"idle"} \cup DequeueOps ELSE op[s] = "idle"
  /\ \A q \in Queues : IF at[q] = "free" THEN op[q] \in EnqueueOps ELSE op[q] = "idle"

(* The entries of the rings are for what is left of their slots. *)
EntriesWhole ==
  \A q \in Queues :
    /\ \A k \in DOMAIN sq[q] : sq[q][k].len = ReqLen /\ left[sq[q][k].slot] = ReqLen
    /\ \A k \in DOMAIN inflight[q] :
         inflight[q][k].len = ReqLen /\ left[inflight[q][k].slot] = ReqLen
    /\ ~m_shutdown[q] =>
         \A k \in DOMAIN cq[q] : cq[q][k].res = ReqLen /\ left[cq[q][k].slot] = ReqLen

(* A slot has an owner while it is in a ring. *)
InRing(i) ==
  \E q \in Queues : \/ \E k \in DOMAIN sq[q] : sq[q][k].slot = i
                    \/ \E k \in DOMAIN inflight[q] : inflight[q][k].slot = i
                    \/ ~m_shutdown[q] /\ \E k \in DOMAIN cq[q] : cq[q][k].slot = i

OwnersInRings == \A i \in Slots : owner[i] # NoOwner <=> InRing(i)

(* An entry that was prepared has a submitter that will hand it over. *)
PreparedByOne ==
  \A q \in Queues : sq[q] # <<>> =>
    \E s \in Submitters : at[s] = "enter" /\ queue_of[s] = q

PendingCounts ==
  \A q \in Queues :
    ~m_shutdown[q] => m_pending[q] = Len(sq[q]) + Len(inflight[q]) + Len(cq[q])

(* After shutdown() nothing is submitted and nothing is in the rings. *)
QuietAfterShutdown ==
  \A q \in Queues : m_shutdown[q] =>
    /\ sq[q] = <<>> /\ inflight[q] = <<>>
    /\ \A s \in Submitters : at[s] \in {"idle", "waited", "empty_asleep"}

HandlerInv ==
  /\ HandlerTypeOK /\ CallsAgree /\ EntriesWhole /\ OwnersInRings
  /\ PreparedByOne /\ PendingCounts /\ QuietAfterShutdown

WholeInv == partial \in Nat /\ (partial = 0 /\ ~aborted => HandlerInv)
=============================================================================
