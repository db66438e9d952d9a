------------------------------ MODULE LockSys ------------------------------
(***************************************************************************)
(* The lock manager (lock/lock0lock.cc) and the parts of a transaction     *)
(* that call it: table and record lock requests, implicit locks and their  *)
(* conversion, waiting and granting, deadlock resolution, the inheritance  *)
(* of gap locks on insert and on record removal, and the release of locks  *)
(* at commit.                                                              *)
(*                                                                         *)
(* Every action is one stretch of code between taking and releasing the    *)
(* kernel mutex, except deadlock_occurs and release_off_kernel, whose      *)
(* loops are one action per iteration; `kernel` then records the call that *)
(* owns the mutex, and no other action can run.                            *)
(***************************************************************************)
EXTENDS LockModes, Integers, Sequences, FiniteSets

CONSTANTS
  Trx,            \* transaction objects; one is reused after it ends
  ReadCommitted,  \* the transactions at TRX_ISO_READ_COMMITTED
  Tables,         \* tables that can be locked
  Pages,          \* index pages that hold records
  TableOf,        \* the table of a page, or NoTable if table locks are left out
  NoTable,
  NoTrx,
  InitialRec,     \* what a page can hold at the start: the states of its records
  ReadRequests,   \* the <<mode, gap>> pairs of the clients' locking reads
  MaxKey,         \* user records have heap numbers 2..MaxKey, in key order
  LOCK_MAX_DEPTH_IN_DEADLOCK_CHECK,
  LOCK_MAX_N_STEPS_IN_DEADLOCK_CHECK,
  LOCK_RELEASE_KERNEL_INTERVAL,
  MaxLocks,       \* bound: no new request once there are this many Lock structs
  MaxUndo         \* bound: row changes of one transaction

Keys == 2..MaxKey
HeapNos == 0..MaxKey

ASSUME ConstantsAssumption ==
  /\ NoTrx \notin Trx
  /\ ReadCommitted \subseteq Trx
  /\ Tables \cap Pages = {}
  /\ NoTable \notin Tables \cup Pages
  /\ TableOf \in [Pages -> Tables \cup {NoTable}]
  /\ InitialRec \subseteq [Keys -> {"absent", "live", "marked"}]
  /\ ReadRequests \subseteq RecModes \X GapModes
  /\ MaxKey \in Nat \ {0, 1}
  /\ LOCK_MAX_DEPTH_IN_DEADLOCK_CHECK \in Nat
  /\ LOCK_MAX_N_STEPS_IN_DEADLOCK_CHECK \in Nat
  /\ LOCK_RELEASE_KERNEL_INTERVAL \in Nat \ {0}
  /\ MaxLocks \in Nat
  /\ MaxUndo \in Nat

VARIABLES
  locks,    \* every Lock struct, in creation order: the queue of a page or of a
            \* table, and the m_trx_locks of a transaction, are subsequences
  conc,     \* m_conc_state
  que,      \* m_que_state
  victim,   \* m_was_chosen_as_deadlock_victim
  err,      \* m_error_state of the last lock call
  rec,      \* user records: absent, live or delete-marked
  rec_trx,  \* DB_TRX_ID of a record: the transaction that last changed it
  undo,     \* undo records of a transaction, oldest first
  kernel    \* the call that owns the kernel mutex between two steps

vars == <<locks, conc, que, victim, err, rec, rec_trx, undo, kernel>>
trxVars == <<conc, que, victim, err>>
rowVars == <<rec, rec_trx, undo>>

Lock == [trx : Trx, type : {"TABLE", "REC"}, on : Tables \cup Pages, mode : TableModes,
         gap : GapModes, ins : BOOLEAN, wait : BOOLEAN, bits : SUBSET HeapNos]
RecStates == {"absent", "live", "marked"}
UndoRec == [page : Pages, key : Keys, old : RecStates, old_trx : Trx \cup {NoTrx}]

\* A lock call between two steps.  `op` says what the caller does on DB_SUCCESS;
\* the other calls are a plain lock request and release_off_kernel.
Call(op, t, p, k, to, n) ==
  [op |-> op, trx |-> t, page |-> p, key |-> k, to |-> to, count |-> n]
NoCall == Call("none", NoTrx, NoTable, 0, "absent", 0)
Calls ==
  [op : {"insert", "modify"}, trx : Trx, page : Pages, key : Keys, to : RecStates, count : {0}]
    \cup [op : {"none", "lock", "release"}, trx : Trx \cup {NoTrx}, page : Pages \cup {NoTable},
          key : HeapNos, to : RecStates, count : Nat]

TypeOK ==
  /\ locks \in Seq(Lock)
  /\ conc \in [Trx -> {"NOT_STARTED", "ACTIVE", "COMMITTED_IN_MEMORY"}]
  /\ que \in [Trx -> {"RUNNING", "LOCK_WAIT", "ROLLING_BACK"}]
  /\ victim \in [Trx -> BOOLEAN]
  /\ err \in [Trx -> {"SUCCESS", "LOCK_WAIT", "DEADLOCK", "LOCK_WAIT_TIMEOUT"}]
  /\ rec \in [Pages -> [Keys -> RecStates]]
  /\ rec_trx \in [Pages -> [Keys -> Trx \cup {NoTrx}]]
  /\ undo \in [Trx -> Seq(UndoRec)]
  /\ kernel \in Calls

Init ==
  /\ locks = <<>>
  /\ conc = [t \in Trx |-> "NOT_STARTED"]
  /\ que = [t \in Trx |-> "RUNNING"]
  /\ victim = [t \in Trx |-> FALSE]
  /\ err = [t \in Trx |-> "SUCCESS"]
  /\ rec \in [Pages -> InitialRec]
  /\ rec_trx = [p \in Pages |-> [k \in Keys |-> NoTrx]]
  /\ undo = [t \in Trx |-> <<>>]
  /\ kernel = NoCall

-----------------------------------------------------------------------------
(* Looking at the queues.  `ls` is the sequence of Lock structs.           *)

OnRec(lock, p, h) == lock.type = "REC" /\ lock.on = p /\ h \in lock.bits

\* The successor of key k among the user records of page p, or the supremum.
Present(p) == {k \in Keys : rec[p][k] # "absent"}
\* (Mutant: the heap numbers of neighbours are taken to be consecutive.)
NextRec_consecutive(p, k) == k + 1
NextRec(p, k) ==
  LET above == {j \in Present(p) : j > k}
  IN  IF above = {} THEN PAGE_HEAP_NO_SUPREMUM
                    ELSE CHOOSE j \in above : \A i \in above : j <= i

\* (Mutant: the operands of the strength test are swapped.)
table_has_swapped(ls, t, tab, mode) ==
  \E i \in DOMAIN ls : ls[i].type = "TABLE" /\ ls[i].on = tab /\ ls[i].trx = t
                       /\ mode_stronger_or_eq(mode, ls[i].mode)
table_has(ls, t, tab, mode) ==
  \E i \in DOMAIN ls : ls[i].type = "TABLE" /\ ls[i].on = tab /\ ls[i].trx = t
                       /\ mode_stronger_or_eq(ls[i].mode, mode)

\* (Mutant: waiting requests are passed over.)
table_other_has_incompatible_granted(ls, t, tab, mode) ==
  \E i \in DOMAIN ls : ls[i].type = "TABLE" /\ ls[i].on = tab /\ ls[i].trx # t /\ ~ls[i].wait
                       /\ ~mode_compatible(ls[i].mode, mode)
table_other_has_incompatible(ls, t, tab, mode) ==
  \E i \in DOMAIN ls : ls[i].type = "TABLE" /\ ls[i].on = tab /\ ls[i].trx # t
                       /\ ~mode_compatible(ls[i].mode, mode)

rec_has_expl(ls, p, req, h, t) ==
  \E i \in DOMAIN ls :
    /\ OnRec(ls[i], p, h)
    /\ ls[i].trx = t
    /\ mode_stronger_or_eq(ls[i].mode, req.mode)
    /\ ~ls[i].wait
    /\ ls[i].gap = "REC_NOT_GAP" => req.gap = "REC_NOT_GAP" \/ h = PAGE_HEAP_NO_SUPREMUM
    /\ ls[i].gap = "GAP" => req.gap = "GAP" \/ h = PAGE_HEAP_NO_SUPREMUM
    /\ ~ls[i].ins

rec_other_has_conflicting(ls, p, req, h, t) ==
  \E i \in DOMAIN ls : OnRec(ls[i], p, h) /\ rec_blocks(ls[i], t, req, h)

\* The clustered index record's writer, if it is still active.
clust_rec_some_has_impl(p, k) == 
  IF rec_trx[p][k] \in Trx /\ conc[rec_trx[p][k]] = "ACTIVE" THEN {rec_trx[p][k]} ELSE {}

\* table_has_to_wait_in_queue and rec_has_to_wait_in_queue: a conflicting lock,
\* granted or waiting, is ahead of the i-th lock in its queue.
has_to_wait_in_queue(ls, i) == \E j \in 1..(i-1) : has_to_wait_for(ls[i], ls[j])

IsWaiting(ls, t) == \E i \in DOMAIN ls : ls[i].trx = t /\ ls[i].wait

-----------------------------------------------------------------------------
(* Changing the queues.                                                    *)

table_create(ls, t, tab, mode, wait) ==
  Append(ls, [trx |-> t, type |-> "TABLE", on |-> tab, mode |-> mode, gap |-> "ORDINARY",
              ins |-> FALSE, wait |-> wait, bits |-> {}])

\* All locks on the supremum are of the gap type: the two flags are not stored.
StoredGap(req, h) == IF h = PAGE_HEAP_NO_SUPREMUM THEN "ORDINARY" ELSE req.gap

NewRecLock(t, p, req, h, wait) ==
  [trx |-> t, type |-> "REC", on |-> p, mode |-> req.mode, gap |-> StoredGap(req, h),
   ins |-> req.ins, wait |-> wait, bits |-> {h}]

rec_create_low(ls, t, p, req, h, wait) == Append(ls, NewRecLock(t, p, req, h, wait))

\* Lock structs of t on page p with exactly the stored type_mode of the request.
Similar(ls, t, p, req, h) ==
  {i \in DOMAIN ls : /\ ls[i].type = "REC" /\ ls[i].on = p /\ ls[i].trx = t
                     /\ ls[i].mode = req.mode /\ ls[i].gap = StoredGap(req, h)
                     /\ ls[i].ins = req.ins /\ ~ls[i].wait}
rec_find_similar_on_page(ls, t, p, req, h) ==
  {i \in Similar(ls, t, p, req, h) : \A j \in Similar(ls, t, p, req, h) : i <= j}

RecHasWaiter(ls, p, h) == \E i \in DOMAIN ls : ls[i].wait /\ OnRec(ls[i], p, h)

SetBit(ls, i, h) == [ls EXCEPT ![i].bits = @ \cup {h}]

rec_add_to_queue(ls, t, p, req, h) ==
  LET similar == rec_find_similar_on_page(ls, t, p, req, h)
  IN  IF RecHasWaiter(ls, p, h) \/ similar = {}
        THEN rec_create_low(ls, t, p, req, h, FALSE)
        ELSE SetBit(ls, CHOOSE i \in similar : TRUE, h)

rec_convert_impl_to_expl(ls, p, k) ==
  LET owner == clust_rec_some_has_impl(p, k)
      req == Request("X", "REC_NOT_GAP", FALSE)
  IN  IF \E o \in owner : ~rec_has_expl(ls, p, req, k, o)
        THEN rec_add_to_queue(ls, CHOOSE o \in owner : TRUE, p, req, k)
        ELSE ls

\* Remove the i-th Lock struct, then grant every waiting lock of the set `who`
\* that no longer has to wait.  Granting one never unblocks another, since the
\* wait rule ignores the wait flag: the order of the loop does not matter.
Remove(ls, i) == [j \in 1..(Len(ls)-1) |-> IF j < i THEN ls[j] ELSE ls[j+1]]
\* (Mutant: whoever waits in the queue is granted its lock.)
Grantable_all(ls, who) == {i \in who : ls[i].wait}
Grantable(ls, who) == {i \in who : ls[i].wait /\ ~has_to_wait_in_queue(ls, i)}
Grant(ls, who) ==
  [i \in DOMAIN ls |-> IF i \in Grantable(ls, who) THEN [ls[i] EXCEPT !.wait = FALSE] ELSE ls[i]]
Granted(ls, who) == {ls[i].trx : i \in Grantable(ls, who)}

\* The locks that rec_dequeue_from_page or table_dequeue look at once the i-th
\* lock is gone: the whole queue of a page, or the part behind i of a table's.
Revisited(ls, i) ==
  {j \in DOMAIN Remove(ls, i) :
     /\ Remove(ls, i)[j].on = ls[i].on
     /\ ls[i].type = "TABLE" => j >= i}

\* Trx::end_lock_wait for the transactions of S that are in TRX_QUE_LOCK_WAIT.
end_lock_wait(S) == [t \in Trx |-> IF t \in S /\ que[t] = "LOCK_WAIT" THEN "RUNNING" ELSE que[t]]

\* rec_dequeue_from_page / table_dequeue of the i-th lock.
Dequeue(i) ==
  LET ls == Remove(locks, i) who == Revisited(locks, i)
  IN  /\ locks' = Grant(ls, who)
      /\ que' = end_lock_wait(Granted(ls, who))

\* cancel_waiting_and_release: as above, and the owner of the lock stops waiting.
cancel_waiting_and_release(i) ==
  LET ls == Remove(locks, i) who == Revisited(locks, i)
  IN  /\ locks' = Grant(ls, who)
      /\ que' = end_lock_wait(Granted(ls, who) \cup {locks[i].trx})

\* Requests that a loop over the set N of lock indices makes, in queue order.
Orders(N) ==
  {f \in [1..Cardinality(N) -> N] : \A a, b \in DOMAIN f : a < b => f[a] < f[b]}

\* rec_add_to_queue of a granted gap lock on record heir of page p for the owner
\* of every lock in Q, one after the other: an owner's similar lock is reused
\* unless someone waits on heir.  The one result, as a singleton.
GapRequest(lock) == Request(lock.mode, "GAP", FALSE)
InheritTo(ls, Q, p, heir) ==
  LET similar(i) == rec_find_similar_on_page(ls, ls[i].trx, p, GapRequest(ls[i]), heir)
      reused == IF RecHasWaiter(ls, p, heir) THEN {} ELSE UNION {similar(i) : i \in Q}
      fresh == IF RecHasWaiter(ls, p, heir) THEN Q
               ELSE {i \in Q : similar(i) = {} /\ ~\E j \in Q :
                                 j < i /\ ls[j].trx = ls[i].trx /\ ls[j].mode = ls[i].mode}
      old == [i \in DOMAIN ls |->
                IF i \in reused THEN [ls[i] EXCEPT !.bits = @ \cup {heir}] ELSE ls[i]]
  IN  {old \o [m \in DOMAIN f |->
                 NewRecLock(ls[f[m]].trx, p, GapRequest(ls[f[m]]), heir, FALSE)] : f \in Orders(fresh)}

rec_inherit_to_gap(ls, p, heir, h) ==
  InheritTo(ls, {i \in DOMAIN ls : /\ OnRec(ls[i], p, h) /\ ~ls[i].ins
                                   /\ ls[i].trx \notin ReadCommitted /\ ls[i].mode = "X"}, p, heir)

\* (Mutant: only locks with the LOCK_GAP flag are inherited.)
rec_inherit_to_gap_if_gap_flag(ls, p, heir, h) ==
  InheritTo(ls, {i \in DOMAIN ls : OnRec(ls[i], p, h) /\ ~ls[i].ins /\ ls[i].gap = "GAP"}, p, heir)
rec_inherit_to_gap_if_gap_lock(ls, p, heir, h) ==
  InheritTo(ls, {i \in DOMAIN ls : /\ OnRec(ls[i], p, h) /\ ~ls[i].ins
                                   /\ \/ h = PAGE_HEAP_NO_SUPREMUM
                                      \/ ls[i].gap # "REC_NOT_GAP"}, p, heir)

\* rec_reset_and_release_wait, with rec_cancel for the waiting requests.
rec_reset_and_release_wait(ls, p, h) ==
  [i \in DOMAIN ls |-> IF OnRec(ls[i], p, h)
                         THEN [ls[i] EXCEPT !.bits = @ \ {h}, !.wait = FALSE] ELSE ls[i]]
Cancelled(ls, p, h) == {ls[i].trx : i \in {j \in DOMAIN ls : ls[j].wait /\ OnRec(ls[j], p, h)}}

\* update_delete: record k leaves page p.
\* (Mutant: the bits of the removed record stay.)
update_delete_no_reset(p, k) ==
  /\ locks' \in rec_inherit_to_gap(locks, p, NextRec(p, k), k)
  /\ que' = end_lock_wait(Cancelled(locks, p, k))
update_delete(p, k) ==
  /\ \E ls \in rec_inherit_to_gap(locks, p, NextRec(p, k), k) :
       locks' = rec_reset_and_release_wait(ls, p, k)
  /\ que' = end_lock_wait(Cancelled(locks, p, k))

-----------------------------------------------------------------------------
(* Lock requests.                                                          *)

\* The client's thread is free to make a call, and the bound on structs allows it.
CanRequest(t) ==
  /\ kernel = NoCall
  /\ conc[t] = "ACTIVE" /\ que[t] = "RUNNING" /\ err[t] = "SUCCESS"
  /\ Len(locks) < MaxLocks

\* What rec_lock and its callers assert about the table of the page.
IntentionHeld(t, p, mode) ==
  TableOf[p] \in Tables => table_has(locks, t, TableOf[p], mode)

\* rec_lock_fast: the page has no lock, or one lock of t with this type_mode.
PageLocks(ls, p) == {i \in DOMAIN ls : ls[i].type = "REC" /\ ls[i].on = p}
\* (Mutant: the owner of the page's only lock is not compared.)
rec_lock_fast_any_owner(ls, t, p, req, h) ==
  \/ PageLocks(ls, p) = {}
  \/ \E i \in DOMAIN ls : PageLocks(ls, p) = {i} /\ ls[i].mode = req.mode
                          /\ ls[i].gap = req.gap /\ ls[i].ins = req.ins /\ ~ls[i].wait
rec_lock_fast(ls, t, p, req, h) ==
  \/ PageLocks(ls, p) = {}
  \/ \E i \in DOMAIN ls : PageLocks(ls, p) = {i} /\ ls[i].trx = t /\ ls[i].mode = req.mode
                          /\ ls[i].gap = req.gap /\ ls[i].ins = req.ins /\ ~ls[i].wait
RecLockFast(ls, impl, t, p, req, h) ==
  IF impl THEN ls
  ELSE IF PageLocks(ls, p) = {} THEN rec_create_low(ls, t, p, req, h, FALSE)
       ELSE SetBit(ls, CHOOSE i \in DOMAIN ls : i \in PageLocks(ls, p), h)

\* rec_lock_slow: when it has to wait, and the queue if it does not.
RecLockWaits(ls, t, p, req, h) ==
  ~rec_has_expl(ls, p, req, h, t) /\ rec_other_has_conflicting(ls, p, req, h, t)
RecLockSlow(ls, impl, t, p, req, h) ==
  IF impl \/ rec_has_expl(ls, p, req, h, t) THEN ls ELSE rec_add_to_queue(ls, t, p, req, h)

\* What the caller does with the record once its lock call returns DB_SUCCESS.
Succeed(ls, op, t, p, k, to) ==
  \/ op = "lock" /\ locks' = ls /\ UNCHANGED rowVars
  \/ /\ op \in {"modify", "insert"}
     /\ rec' = [rec EXCEPT ![p][k] = to]
     /\ rec_trx' = [rec_trx EXCEPT ![p][k] = t]
     /\ undo' = [undo EXCEPT ![t] =
          Append(@, [page |-> p, key |-> k, old |-> rec[p][k], old_trx |-> rec_trx[p][k]])]
     /\ \/ op = "modify" /\ locks' = ls
        \/ op = "insert" /\ locks' \in rec_inherit_to_gap_if_gap_lock(ls, p, k, NextRec(p, k))

\* rec_enqueue_waiting up to deadlock_occurs, which keeps the kernel mutex.
rec_enqueue_waiting(ls, t, p, req, h, call) ==
  /\ locks' = rec_create_low(ls, t, p, req, h, TRUE)
  /\ kernel' = call
  /\ UNCHANGED <<rowVars, trxVars>>

rec_lock(ls, impl, t, p, req, h, call) ==
  \/ /\ rec_lock_fast(ls, t, p, req, h)
     /\ Succeed(RecLockFast(ls, impl, t, p, req, h), call.op, t, p, h, call.to)
     /\ UNCHANGED <<trxVars, kernel>>
  \/ /\ ~rec_lock_fast(ls, t, p, req, h)
     /\ ~RecLockWaits(ls, t, p, req, h)
     /\ Succeed(RecLockSlow(ls, impl, t, p, req, h), call.op, t, p, h, call.to)
     /\ UNCHANGED <<trxVars, kernel>>
  \/ /\ ~rec_lock_fast(ls, t, p, req, h)
     /\ RecLockWaits(ls, t, p, req, h)
     /\ rec_enqueue_waiting(ls, t, p, req, h, call)

lock_table(t, tab, mode) ==
  /\ CanRequest(t)
  /\ ~table_has(locks, t, tab, mode)
  /\ \/ /\ table_other_has_incompatible(locks, t, tab, mode)
        /\ locks' = table_create(locks, t, tab, mode, TRUE)
        /\ kernel' = Call("lock", t, NoTable, 0, "absent", 0)
     \/ /\ ~table_other_has_incompatible(locks, t, tab, mode)
        /\ locks' = table_create(locks, t, tab, mode, FALSE)
        /\ UNCHANGED kernel
  /\ UNCHANGED <<rowVars, trxVars>>

\* A locking read of a user record or of the supremum.
\* (Mutant: the read does not look for an implicit lock.)
clust_rec_read_no_convert(t, p, h, mode, gap) ==
  /\ CanRequest(t)
  /\ h = PAGE_HEAP_NO_SUPREMUM \/ h \in Present(p)
  /\ h = PAGE_HEAP_NO_SUPREMUM => gap # "REC_NOT_GAP"
  /\ IntentionHeld(t, p, IF mode = "X" THEN "IX" ELSE "IS")
  /\ rec_lock(locks, FALSE, t, p, Request(mode, gap, FALSE), h, Call("lock", t, p, h, "absent", 0))
clust_rec_read_check_and_lock(t, p, h, mode, gap) ==
  /\ CanRequest(t)
  /\ h = PAGE_HEAP_NO_SUPREMUM \/ h \in Present(p)
  /\ h = PAGE_HEAP_NO_SUPREMUM => gap # "REC_NOT_GAP"
  /\ IntentionHeld(t, p, IF mode = "X" THEN "IX" ELSE "IS")
  /\ rec_lock(IF h = PAGE_HEAP_NO_SUPREMUM THEN locks ELSE rec_convert_impl_to_expl(locks, p, h),
              FALSE, t, p, Request(mode, gap, FALSE), h, Call("lock", t, p, h, "absent", 0))

\* An update, a delete-mark, or an insert over a delete-marked record.
clust_rec_modify_check_and_lock(t, p, k, to) ==
  /\ CanRequest(t) /\ Len(undo[t]) < MaxUndo
  /\ k \in Present(p)
  /\ rec[p][k] = "marked" => to = "live"
  /\ IntentionHeld(t, p, "IX")
  /\ rec_lock(rec_convert_impl_to_expl(locks, p, k), TRUE, t, p,
              Request("X", "REC_NOT_GAP", FALSE), k, Call("modify", t, p, k, to, 0))

\* An insert of key k waits if its successor carries a gap lock of another.
rec_insert_check_and_lock(t, p, k) ==
  LET next == NextRec(p, k)
      req == Request("X", "GAP", TRUE)
  IN  /\ CanRequest(t) /\ Len(undo[t]) < MaxUndo
      /\ rec[p][k] = "absent"
      /\ IntentionHeld(t, p, "IX")
      /\ \/ /\ ~rec_other_has_conflicting(locks, p, req, next, t)
            /\ Succeed(locks, "insert", t, p, k, "live")
            /\ UNCHANGED <<trxVars, kernel>>
         \/ /\ rec_other_has_conflicting(locks, p, req, next, t)
            /\ rec_enqueue_waiting(locks, t, p, req, next, Call("insert", t, p, k, "live", 0))

-----------------------------------------------------------------------------
(* deadlock_occurs and what rec_enqueue_waiting and table_enqueue_waiting   *)
(* do with its answer.  deadlock_recursive is abstracted to the answers a   *)
(* depth-first search can give; module DeadlockSearch has the search.       *)

Checking(t) == kernel.op \in {"lock", "insert", "modify"} /\ kernel.trx = t

\* t waits in a queue behind a lock of u that it has to wait for.
WaitsFor(ls, t, u) ==
  \E i \in DOMAIN ls : /\ ls[i].trx = t /\ ls[i].wait
                       /\ \E j \in 1..(i-1) : ls[j].trx = u /\ has_to_wait_for(ls[i], ls[j])

\* The transactions the search started at s can enter.
Searched(s) ==
  {u \in Trx : \A S \in SUBSET Trx :
     (s \in S /\ \A v \in S, w \in Trx : WaitsFor(locks, v, w) /\ que[w] = "LOCK_WAIT" => w \in S)
       => u \in S}

\* Those that close a cycle: the search meets s at their wait lock.
Closers(s) == {v \in Searched(s) : v # s /\ WaitsFor(locks, v, s)}

\* A waits-for path that takes the search past its depth limit.
TooFar(s) ==
  LET d == LOCK_MAX_DEPTH_IN_DEADLOCK_CHECK + 1
  IN  /\ d < Cardinality(Trx)
      /\ \E path \in [0..d -> Trx] :
           /\ path[0] = s
           /\ \A a, b \in 0..d : path[a] = path[b] => a = b
           /\ \A a \in 0..(d-1) : /\ WaitsFor(locks, path[a], path[a+1])
                                  /\ que[path[a+1]] = "LOCK_WAIT"
           /\ \E u \in Trx \ {s} : WaitsFor(locks, path[d], u)

\* A search takes one step for each transaction it enters, and its cost is kept
\* over the retries, each of which has one waiting transaction less.
TooLong(s) ==
  /\ Cardinality(Trx) * Cardinality(Trx) > LOCK_MAX_N_STEPS_IN_DEADLOCK_CHECK
  /\ \E v \in Searched(s), u \in Trx \ {s} : WaitsFor(locks, v, u)

\* m_undo_no plus the number of Lock structs.
Weight(t) == Len(undo[t]) + Cardinality({i \in DOMAIN locks : locks[i].trx = t})

WaitLock(t) == CHOOSE i \in DOMAIN locks : locks[i].trx = t /\ locks[i].wait

\* The caller goes to sleep, unless its lock was granted meanwhile.
NotRefused(t) ==
  /\ kernel' = NoCall
  /\ \/ /\ IsWaiting(locks, t)
        /\ que' = [que EXCEPT ![t] = "LOCK_WAIT"]
        /\ victim' = [victim EXCEPT ![t] = FALSE]
        /\ err' = [err EXCEPT ![t] = "LOCK_WAIT"]
        /\ UNCHANGED <<locks, rowVars, conc>>
     \/ /\ ~IsWaiting(locks, t)
        /\ Succeed(locks, kernel.op, t, kernel.page, kernel.key, kernel.to)
        /\ UNCHANGED trxVars

\* LOCK_VICTIM_IS_OTHER: the lighter transaction loses its request; retry.
Choose(v) ==
  /\ victim' = [victim EXCEPT ![v] = TRUE]
  /\ cancel_waiting_and_release(WaitLock(v))
  /\ UNCHANGED <<rowVars, conc, err, kernel>>

NoDeadlock(t) == Checking(t) /\ Closers(t) = {} /\ NotRefused(t)
VictimIsOther(t, v) == Checking(t) /\ v \in Closers(t) /\ Weight(v) < Weight(t) /\ Choose(v)

\* DB_DEADLOCK: a record lock keeps its struct, without the wait flag and the
\* bit; a table lock is removed.  Nobody can be queued behind it yet.
\* (Mutant: the refused request stays in the queue.)
Refuse_still_waiting(t) ==
  /\ err' = [err EXCEPT ![t] = "DEADLOCK"]
  /\ kernel' = NoCall
  /\ UNCHANGED <<locks, rowVars, conc, que, victim>>
Refuse(t) ==
  /\ locks' = IF locks[WaitLock(t)].type = "TABLE" THEN Remove(locks, WaitLock(t))
              ELSE [locks EXCEPT ![WaitLock(t)] = [@ EXCEPT !.wait = FALSE, !.bits = {}]]
  /\ err' = [err EXCEPT ![t] = "DEADLOCK"]
  /\ kernel' = NoCall
  /\ UNCHANGED <<rowVars, conc, que, victim>>

VictimIsStart(t) == Checking(t) /\ (\E v \in Closers(t) : Weight(v) >= Weight(t)) /\ Refuse(t)
ExceedMaxDepth(t) == Checking(t) /\ (TooFar(t) \/ TooLong(t)) /\ Refuse(t)

-----------------------------------------------------------------------------
(* The end of a wait.                                                      *)

\* The lock timeout thread, or an interrupt, gives up the wait of t.
LockTimeout(t) ==
  /\ kernel = NoCall
  /\ IsWaiting(locks, t)
  /\ cancel_waiting_and_release(WaitLock(t))
  /\ UNCHANGED <<rowVars, conc, victim, err, kernel>>

\* suspend_user_thread returns, its last test made without the kernel mutex;
\* module LockWait has its steps.
ResumeWait(t) ==
  /\ err[t] = "LOCK_WAIT" /\ que[t] = "RUNNING"
  /\ err' \in {[err EXCEPT ![t] = e] :
                 e \in {IF victim[t] THEN "DEADLOCK" ELSE "SUCCESS", "LOCK_WAIT_TIMEOUT"}}
  /\ victim' = [victim EXCEPT ![t] = FALSE]
  /\ UNCHANGED <<locks, rowVars, conc, que, kernel>>

\* ib_handle_errors: a timeout undoes the statement only and returns to the client.
ReportTimeout(t) ==
  /\ err[t] = "LOCK_WAIT_TIMEOUT"
  /\ err' = [err EXCEPT ![t] = "SUCCESS"]
  /\ UNCHANGED <<locks, rowVars, conc, que, victim, kernel>>

-----------------------------------------------------------------------------
(* Transactions.                                                           *)

start_low(t) ==
  /\ kernel = NoCall
  /\ conc[t] = "NOT_STARTED"
  /\ conc' = [conc EXCEPT ![t] = "ACTIVE"]
  /\ UNCHANGED <<locks, rowVars, que, victim, err, kernel>>

\* ib_handle_errors on DB_DEADLOCK, or the client: roll back the transaction.
RollbackStart(t) ==
  /\ conc[t] = "ACTIVE" /\ que[t] = "RUNNING" /\ err[t] \in {"SUCCESS", "DEADLOCK"}
  /\ kernel = NoCall
  /\ que' = [que EXCEPT ![t] = "ROLLING_BACK"]
  /\ err' = [err EXCEPT ![t] = "SUCCESS"]
  /\ UNCHANGED <<locks, rowVars, conc, victim, kernel>>

\* Undo the latest row change; undoing an insert removes the record.
\* (Mutant: the record's DB_TRX_ID is not restored.)
RollbackRow_keeps_writer(t) ==
  LET u == undo[t][Len(undo[t])]
  IN  /\ kernel = NoCall
      /\ que[t] = "ROLLING_BACK" /\ undo[t] # <<>>
      /\ undo' = [undo EXCEPT ![t] = SubSeq(@, 1, Len(@) - 1)]
      /\ rec' = [rec EXCEPT ![u.page][u.key] = u.old]
      /\ \/ u.old = "absent" /\ update_delete(u.page, u.key)
         \/ u.old # "absent" /\ UNCHANGED <<locks, que>>
      /\ UNCHANGED <<rec_trx, conc, victim, err, kernel>>
RollbackRow(t) ==
  LET u == undo[t][Len(undo[t])]
  IN  /\ kernel = NoCall
      /\ que[t] = "ROLLING_BACK" /\ undo[t] # <<>>
      /\ undo' = [undo EXCEPT ![t] = SubSeq(@, 1, Len(@) - 1)]
      /\ rec' = [rec EXCEPT ![u.page][u.key] = u.old]
      /\ rec_trx' = [rec_trx EXCEPT ![u.page][u.key] = u.old_trx]
      /\ \/ u.old = "absent" /\ update_delete(u.page, u.key)
         \/ u.old # "absent" /\ UNCHANGED <<locks, que>>
      /\ UNCHANGED <<conc, victim, err, kernel>>

\* Purge removes a record whose delete mark is committed.
purge_remove(p, k) ==
  /\ kernel = NoCall
  /\ rec[p][k] = "marked" /\ clust_rec_some_has_impl(p, k) = {}
  /\ rec' = [rec EXCEPT ![p][k] = "absent"]
  /\ update_delete(p, k)
  /\ UNCHANGED <<rec_trx, undo, conc, victim, err, kernel>>

\* A READ COMMITTED reader gives back the lock on a delete-marked record.
\* (Mutant: nobody is granted the lock that was given back.)
rec_unlock_no_grant(t, p, k, mode) ==
  LET mine == {i \in DOMAIN locks : OnRec(locks[i], p, k) /\ locks[i].trx = t /\ locks[i].mode = mode}
  IN  /\ kernel = NoCall
      /\ conc[t] = "ACTIVE" /\ que[t] = "RUNNING" /\ err[t] = "SUCCESS"
      /\ t \in ReadCommitted
      /\ rec[p][k] = "marked" /\ clust_rec_some_has_impl(p, k) = {}
      /\ \E i \in mine : (\A j \in mine : j <= i) /\ locks' = [locks EXCEPT ![i].bits = @ \ {k}]
      /\ UNCHANGED <<rowVars, trxVars, kernel>>
rec_unlock(t, p, k, mode) ==
  LET mine == {i \in DOMAIN locks : OnRec(locks[i], p, k) /\ locks[i].trx = t /\ locks[i].mode = mode}
  IN  /\ kernel = NoCall
      /\ conc[t] = "ACTIVE" /\ que[t] = "RUNNING" /\ err[t] = "SUCCESS"
      /\ t \in ReadCommitted
      /\ rec[p][k] = "marked" /\ clust_rec_some_has_impl(p, k) = {}
      /\ \E i \in mine :
           /\ \A j \in mine : j <= i
           /\ LET ls == [locks EXCEPT ![i].bits = @ \ {k}]
                  who == {j \in DOMAIN ls : OnRec(ls[j], p, k)}
              IN  locks' = Grant(ls, who) /\ que' = end_lock_wait(Granted(ls, who))
      /\ UNCHANGED <<rowVars, conc, victim, err, kernel>>

\* commit_off_kernel up to release_off_kernel.  A record's DB_TRX_ID is now that
\* of a committed transaction, which the model writes NoTrx.
commit_off_kernel(t) ==
  /\ kernel = NoCall
  /\ conc[t] = "ACTIVE" /\ err[t] = "SUCCESS"
  /\ que[t] = "RUNNING" \/ (que[t] = "ROLLING_BACK" /\ undo[t] = <<>>)
  /\ conc' = [conc EXCEPT ![t] = "COMMITTED_IN_MEMORY"]
  /\ rec_trx' = [p \in Pages |-> [k \in Keys |-> IF rec_trx[p][k] = t THEN NoTrx ELSE rec_trx[p][k]]]
  /\ undo' = [undo EXCEPT ![t] = <<>>]
  /\ que' = [que EXCEPT ![t] = "RUNNING"]
  /\ kernel' = Call("release", t, NoTable, 0, "absent", 0)
  /\ UNCHANGED <<locks, rec, victim, err>>

\* One turn of release_off_kernel: the last lock goes; after every
\* LOCK_RELEASE_KERNEL_INTERVAL locks the kernel mutex is let go for a moment.
release_off_kernel(t) ==
  /\ kernel.op = "release" /\ kernel.trx = t
  /\ \E i \in DOMAIN locks :
       /\ locks[i].trx = t /\ \A j \in DOMAIN locks : locks[j].trx = t => j <= i
       /\ Dequeue(i)
  /\ kernel' = IF kernel.count + 1 = LOCK_RELEASE_KERNEL_INTERVAL THEN NoCall
               ELSE [kernel EXCEPT !.count = @ + 1]
  /\ UNCHANGED <<rowVars, conc, victim, err>>

ReleaseReenter(t) ==
  /\ kernel = NoCall
  /\ conc[t] = "COMMITTED_IN_MEMORY"
  /\ kernel' = Call("release", t, NoTable, 0, "absent", 0)
  /\ UNCHANGED <<locks, rowVars, trxVars>>

\* m_trx_locks is empty: the transaction leaves the trx list.
ReleaseEnd(t) ==
  /\ kernel.op = "release" /\ kernel.trx = t
  /\ ~\E i \in DOMAIN locks : locks[i].trx = t
  /\ conc' = [conc EXCEPT ![t] = "NOT_STARTED"]
  /\ kernel' = NoCall
  /\ UNCHANGED <<locks, rowVars, que, victim, err>>

-----------------------------------------------------------------------------
ClientRequest(t) ==
  \/ \E tab \in Tables, mode \in TableModes : lock_table(t, tab, mode)
  \/ \E p \in Pages, h \in HeapNos \ {PAGE_HEAP_NO_INFIMUM}, r \in ReadRequests :
       clust_rec_read_check_and_lock(t, p, h, r[1], r[2])
  \/ \E p \in Pages, k \in Keys, to \in {"live", "marked"} :
       clust_rec_modify_check_and_lock(t, p, k, to)
  \/ \E p \in Pages, k \in Keys : rec_insert_check_and_lock(t, p, k)
  \/ \E p \in Pages, k \in Keys, mode \in RecModes : rec_unlock(t, p, k, mode)

\* The steps of deadlock_occurs for the request of t.
DeadlockCheck(t) ==
  \/ NoDeadlock(t)
  \/ \E v \in Trx : VictimIsOther(t, v)
  \/ VictimIsStart(t)
  \/ ExceedMaxDepth(t)

TrxStep(t) ==
  \/ start_low(t)
  \/ RollbackStart(t)
  \/ RollbackRow(t)
  \/ commit_off_kernel(t)
  \/ release_off_kernel(t)
  \/ ReleaseReenter(t)
  \/ ReleaseEnd(t)

WaitStep(t) == LockTimeout(t) \/ ResumeWait(t) \/ ReportTimeout(t)

Next ==
  \/ \E t \in Trx : ClientRequest(t) \/ DeadlockCheck(t) \/ TrxStep(t) \/ WaitStep(t)
  \/ \E p \in Pages, k \in Keys : purge_remove(p, k)

Spec == Init /\ [][Next]_vars

-----------------------------------------------------------------------------
(* Properties.                                                             *)

\* The lock locks the record itself, not only the gap before it.
LocksRecord(lock, h) == lock.gap # "GAP" /\ ~lock.ins /\ h # PAGE_HEAP_NO_SUPREMUM

\* The lock locks the gap before record h.
LocksGap(lock, h) == (lock.gap # "REC_NOT_GAP" \/ h = PAGE_HEAP_NO_SUPREMUM) /\ ~lock.ins

\* Two transactions' locks that must not be granted together: both lock the same
\* record, or the same table, in incompatible modes.
Clash(a, b) ==
  /\ a.trx # b.trx /\ ~mode_compatible(a.mode, b.mode)
  /\ \/ a.type = "TABLE" /\ b.type = "TABLE" /\ a.on = b.on
     \/ \E p \in Pages, k \in Keys : /\ OnRec(a, p, k) /\ OnRec(b, p, k)
                                    /\ LocksRecord(a, k) /\ LocksRecord(b, k)

\* Queue order (rec_has_to_wait_in_queue, table_has_to_wait_in_queue): a granted
\* lock never stands behind a conflicting one, granted or waiting, of another
\* transaction.
NoOvertakingIn(ls) == \A i, j \in DOMAIN ls : (i < j /\ ~ls[j].wait) => ~Clash(ls[i], ls[j])
NoOvertaking == NoOvertakingIn(locks)

\* RULE 3 of lock0lock.cc: different transactions cannot have conflicting
\* granted non-gap locks on a record, or conflicting granted locks on a table,
\* at the same time.
NoConflictingGranted ==
  \A i, j \in DOMAIN locks : (~locks[i].wait /\ ~locks[j].wait) => ~Clash(locks[i], locks[j])

\* The implicit lock of clust_rec_some_has_impl is a real X lock: while the
\* writer of a record is active no other transaction holds a lock on the record.
ImplicitLockExcludes ==
  \A p \in Pages, k \in Keys : \A o \in clust_rec_some_has_impl(p, k) :
    ~\E i \in DOMAIN locks : /\ locks[i].trx # o /\ ~locks[i].wait
                             /\ OnRec(locks[i], p, k) /\ LocksRecord(locks[i], k)

\* Multigranularity, what the assertions of rec_lock rest on: beside a granted
\* table lock, another transaction has granted record locks in the table's pages
\* only in the modes that the intention lock compatible with it allows.
TableLocksExclude ==
  \A i, j \in DOMAIN locks :
    (/\ locks[i].type = "TABLE" /\ ~locks[i].wait /\ ~locks[j].wait /\ locks[i].trx # locks[j].trx
     /\ locks[j].type = "REC" /\ locks[j].bits # {} /\ TableOf[locks[j].on] = locks[i].on)
      => mode_compatible(locks[i].mode, IF locks[j].mode = "X" THEN "IX" ELSE "IS")

\* No lost grant: outside a lock call, every waiting request really has a
\* conflicting lock ahead of it (rec_dequeue_from_page, table_dequeue,
\* rec_unlock and update_delete leave nobody waiting for nothing).
WaitersAreBlocked ==
  kernel = NoCall => \A i \in DOMAIN locks : locks[i].wait => has_to_wait_in_queue(locks, i)

\* m_wait_lock, TRX_QUE_LOCK_WAIT and the bitmap agree: a transaction has one
\* waiting lock iff it is in the lock-wait state, and a waiting record lock has
\* exactly one bit (rec_find_set_bit in grant, rec_cancel, deadlock_recursive).
WaitStateConsistent ==
  /\ \A i \in DOMAIN locks : locks[i].wait =>
       /\ locks[i].type = "REC" => \E h \in HeapNos : locks[i].bits = {h}
       /\ \A j \in DOMAIN locks : locks[j].wait /\ locks[j].trx = locks[i].trx => i = j
       /\ que[locks[i].trx] = "LOCK_WAIT" \/ Checking(locks[i].trx)
  /\ \A t \in Trx : que[t] = "LOCK_WAIT" => IsWaiting(locks, t)

\* deadlock_occurs leaves no cycle behind: outside a lock call no set of
\* waiting transactions is such that each waits for another of the set.
NoWaitCycle ==
  kernel = NoCall =>
    ~\E S \in SUBSET {t \in Trx : que[t] = "LOCK_WAIT"} :
       S # {} /\ \A t \in S : \E u \in S : WaitsFor(locks, t, u)

\* No dangling lock: locks sit on records that exist, and an ended transaction
\* has none, not even one inherited while release_off_kernel had let the kernel
\* mutex go.
NoDanglingLock ==
  \A i \in DOMAIN locks :
    /\ conc[locks[i].trx] # "NOT_STARTED"
    /\ locks[i].type = "REC" => locks[i].bits \subseteq Present(locks[i].on) \cup {PAGE_HEAP_NO_SUPREMUM}

\* The requests on page p that succeed at once, and those that find a lock already.
Answers(ls, p) ==
  {a \in [trx : Trx, h : HeapNos, req : [mode : RecModes, gap : GapModes, ins : BOOLEAN]] :
     ~rec_other_has_conflicting(ls, p, a.req, a.h, a.trx)}
Held(ls, p) ==
  {a \in [trx : Trx, h : HeapNos, req : [mode : RecModes, gap : GapModes, ins : {FALSE}]] :
     rec_has_expl(ls, p, a.req, a.h, a.trx)}

\* rec_lock_fast does what rec_lock_slow would: for every request a transaction
\* could make now and that takes the fast path, the slow path would not wait, and
\* the queues the two leave behind answer every later request alike.
FastPathAgrees ==
  \A t \in Trx, p \in Pages, mode \in RecModes, gap \in GapModes, impl \in BOOLEAN :
    \A h \in Present(p) \cup {PAGE_HEAP_NO_SUPREMUM} :
      LET req == Request(mode, gap, FALSE)
          fast == RecLockFast(locks, impl, t, p, req, h)
          slow == RecLockSlow(locks, impl, t, p, req, h)
      IN  (rec_lock_fast(locks, t, p, req, h) /\ (h = PAGE_HEAP_NO_SUPREMUM => gap # "REC_NOT_GAP"))
            => /\ ~RecLockWaits(locks, t, p, req, h)
               /\ fast # slow => Answers(fast, p) = Answers(slow, p) /\ Held(fast, p) = Held(slow, p)

\* The keys whose insertion a granted gap lock of t with this mode forbids to others.
GapHeld(t, mode) ==
  {pk \in Pages \X Keys :
     LET next == NextRec(pk[1], pk[2])
     IN  /\ rec[pk[1]][pk[2]] = "absent"
         /\ \E i \in DOMAIN locks :
              /\ locks[i].trx = t /\ locks[i].mode = mode /\ ~locks[i].wait
              /\ OnRec(locks[i], pk[1], next) /\ LocksGap(locks[i], next)}

\* FACT B of lock0lock.cc for one mode: while t runs, a gap it has locked stays
\* locked and nobody else inserts into it, whatever is inserted, purged or
\* rolled back around it.
GapKept(mode) ==
  \A t \in Trx \ ReadCommitted :
    (conc[t] = "ACTIVE" /\ conc'[t] = "ACTIVE") =>
      \A pk \in GapHeld(t, mode) : pk \in GapHeld(t, mode)' \/ rec_trx'[pk[1]][pk[2]] = t
ExclusiveGapKept == [][GapKept("X")]_vars
SharedGapKept == [][GapKept("S")]_vars
=============================================================================
