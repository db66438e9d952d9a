# TLA+ models of Embedded InnoDB

Embedded InnoDB is a transactional storage engine: a library that keeps tables in
B-trees, isolates concurrent transactions by locks and row versions, and recovers
after a crash from a redo log.  This directory holds TLA+ specifications of its
concurrency control, its row versions, its log and recovery, and the latches and i/o
queues under them, the TLC configurations that check them on small instances,
and TLAPS proofs of the properties that matter most.  `PROJECT.json` maps every
definition to the lines of the source it models.

## 1. Inventory

| Component (source) | State | Operations | Talks to |
|---|---|---|---|
| Lock manager (`lock/lock0lock.cc`) | one queue of Lock structs per page and per table, `m_wait_lock` of each transaction | `lock_table`, the `*_check_and_lock` requests, `rec_unlock`, `release_off_kernel`, `cancel_waiting_and_release`, `update_insert/delete/split/merge/discard`, `deadlock_occurs` | row operations and B-tree call it; it ends lock waits of transactions |
| Lock wait (`srv/srv0srv.cc`, `que/que0que.cc`, `api/api0misc.cc`) | thread state, wait slots and their events, `m_error_state` | `que_thr_stop`, `que_thr_stop_client`, `suspend_user_thread`, `release_user_thread_if_suspended`, `lock_timeout_thread`, `ib_handle_errors` | lock manager, client threads |
| Transactions (`trx/trx0trx.cc`, `trx/trx0roll.cc`, `trx/trx0sys.cc`) | `m_conc_state`, `m_que_state`, id and number, undo logs, the transaction list | `start_low`, `commit_off_kernel`, rollback, prepare | lock manager, undo, log |
| Undo logs (`trx/trx0undo.cc`, `trx/trx0rec.cc`, `trx/trx0rseg.cc`) | undo segments, history list | assign, append, set state at finish, truncate | transactions, purge |
| Read views (`read/read0read.cc`, `row/row0vers.cc`) | list of views with their limits and active ids | open, close, copy oldest, build previous version | transactions, purge, select |
| Purge (`trx/trx0purge.cc`, `row/row0purge.cc`) | purge view, purge position, history list | `run`, `fetch_next_rec`, `truncate_history` | read views, B-tree, lock manager |
| Row operations (`row/row0ins.cc`, `row0upd.cc`, `row0sel.cc`) | cursors, prebuilt structs | insert, update, delete-mark, select | B-tree, lock manager, undo |
| B-tree and pages (`btr/`, `page/`) | pages, directory slots | search, insert, delete, split, merge, discard | buffer pool, mtr, lock manager |
| Mini-transactions and redo log (`mtr/`, `log/log0log.cc`) | memo stack, log buffer, lsn limits | start, commit, `write_up_to`, `checkpoint` | buffer pool, files |
| Recovery (`log/log0recv.cc`) | parsed records per page | scan, parse, apply | log, buffer pool |
| Buffer pool (`buf/`) | page hash, LRU, flush list, fix counts, `io_fix` | get, read, flush, evict | files, log, doublewrite |
| Latches (`sync/`) | lock word, waiters flag, events, wait array | mutex and rw-lock enter, exit | everything |
| Files and space (`fil/`, `fsp/`, `fut/`, `os/`) | open files, extent descriptors, aio slots | allocate, free, read, write | buffer pool, log |
| Dictionary and DDL (`dict/`, `ddl/`) | table and index cache | create, drop, load | lock manager, row operations |
| API, parser, utilities (`api/`, `pars/`, `eval/`, `ut/`, `mem/`) | handles | conversion and checking | row operations |

What is hard here:

* Lock queues are changed under one mutex (the kernel mutex), but a lock request, a
  wait, its end and the row change after it are many critical sections of several
  threads.  `release_off_kernel` even lets the mutex go half way through.
* A lock on a freshly written record is implicit: it exists only as the transaction
  id in the record, and must be made explicit by whoever comes next.
* Locks belong to records that come and go; a gap lock must survive the insertion
  and removal of its neighbours.
* Deadlocks are resolved by cancelling another transaction's request, which can grant
  the very lock whose request is being checked.
* Waiting threads are woken through flags and events that are set in one critical
  section and read in another (lock waits, mutexes, rw-locks).
* Snapshots, purge and commit agree on which row versions are still needed by
  comparing numbers that are drawn in different critical sections.
* Durability depends on the order of log writes, page flushes and checkpoints.

What makes each part correct: no two transactions have conflicting granted locks, nobody
waits for nothing, no cycle of waits remains, gaps stay locked (lock manager); every wait
ends with exactly one answer (lock wait); a snapshot sees exactly what was committed when
it was taken (read views), and purge removes nothing a snapshot can see (purge); one writer
or many readers, and no lost wake-up (latches); after a crash every committed change is
there, once (log, buffer pool, recovery).

## 2. Plan

The lock manager comes first: it is where most of the engine's concurrency is decided,
and everything that waits, waits on it or on a latch.  In this order:

1. `LockModes`, `LockSys`: lock queues, implicit locks, waiting, deadlock answers, gap
   inheritance, release.  *Done, checked and proved.*
2. `LockWait`, a detailed specification that implements `LockSys`: the client thread's steps
   of a lock wait.  *Done, checked; safety and the refinement proved.*
3. `DeadlockSearch`, a detailed specification that implements `LockSys`: the depth-first
   search with marks and limits.  *Done, checked.*
4. `RwLock`: the latches under pages and indexes.  *Done, checked; safety and no lost signal proved.*
5. `BoundedChannel`, with the abstract `Fifo` that it implements, and `Aio` on top of it: the
   lock-free queue and the asynchronous i/o handler that keeps its free slots there.
   *Done, checked and proved.*
6. `Redo`, with the abstract `DurableLog` that it implements: mini-transaction commit, log buffer,
   `write_up_to`, page flush through the doublewrite buffer, checkpoint, crash and recovery.
   *Done, checked and proved.*
7. `ReadView`, and `Mvcc` on top of it: ids, numbers, views and the purge view; rows with their
   versions, a secondary index, rollback and purge.  *Done, checked; types, the safety of the purge
   view, the reads through both indexes and the absence of garbage proved.*
8. `LockPage`: what page splits, merges, reorganisations and discards do to record locks
   (`rec_move` and its callers), and `remove_all_on_table_for_trx`.  *Next.*
9. Smaller ones: `Mutex`, the page directory (pure algorithm), the parallel reader's queue,
   extent allocation, buffer pool fix counts.

## 3. Modules and code

### LockModes, LockSys (`lock/lock0lock.cc`, `trx/trx0trx.cc`, `trx/trx0roll.cc`, ...)

`LockModes` has the compatibility and strength matrices of `lock0types.h` and
`rec_has_to_wait`'s rules on gap, not-gap and insert-intention locks.

`LockSys` keeps all Lock structs in one sequence, in creation order: the queue of a page or of
a table, and a transaction's own list, are its subsequences, because the code appends to all of
them at once and never reorders.  `conc`, `que`, `victim` and `err` are the fields of a
transaction, `rec`, `rec_trx` and `undo` the clustered index records with their DB_TRX_ID and the
undo logs behind them.  An action is what happens between taking and releasing the kernel
mutex; where a function loops and its loop matters (`deadlock_occurs` resolves one deadlock
after another, `release_off_kernel` lets the mutex go every
`LOCK_RELEASE_KERNEL_INTERVAL` locks), `kernel` records the call between two iterations.

A lock request is an action per entry point (`lock_table`, `clust_rec_read_check_and_lock`,
`clust_rec_modify_check_and_lock`, `rec_insert_check_and_lock`), each with the implicit-to-explicit
conversion, the fast path or the slow path, and, if it must wait, the search for a deadlock.
A search can answer that there is none, choose a victim and go on, or refuse the request (the
requester is the victim, or the search is too deep).  Which of these are allowed is stated by
`deadlock_occurs` in `LockSys` in terms of the waits-for graph; `DeadlockSearch` contains the
search itself.

Simplifications: heap numbers follow key order and a removed record's number is taken again by
the same key; a page is one leaf without splits; the row change happens in the step that gets
its lock, or after the wait when the caller tries again.

### LockWait (`srv/srv0srv.cc`, `que/que0que.cc`, `api/api0misc.cc`)

Superposes client threads on `LockSys`.  A step of the lock manager is a step of `LockSys`, with
what `que_thr_end_wait_no_next_thr`, `release_user_thread_if_suspended` and `que_thr_stop` do to
the query threads.  The one-step `ResumeWait` of `LockSys` becomes `que_thr_stop_client`,
`SuspendTooLate` or `SuspendReserve`, `Wake`, `TestTimeout` and `Return`: each a critical section
or the code between two.  `lock_timeout_thread` cancels a wait that is `late`; `Tick` makes it so.

### DeadlockSearch (`Lock_sys::deadlock_recursive`, `deadlock_occurs`)

The search as a recursive function over the lock queues, in the order of the code: a record's
queue from its head, a table's queue backwards, with the mark on transactions searched to the
end, the depth and the cost.  The cost is a variable because `deadlock_occurs` keeps it when it
starts again after a victim.  `SearchImplementsLockSys` says every answer it gives is one that
`LockSys` allows.

### RwLock (`sync/sync0rw.cc`, `include/sync0rw.h`, `sync/sync0arr.cc`, `os/os0sync.cc`)

One rw-lock, its two events and the threads' cells of the wait array.  Every atomic operation on
`m_lock_word`, `m_recursive`, `m_writer_thread`, `m_waiters` and on an event is a step; `pc` names
the next one.  Spinning is not modelled as such: it is a thread that has not taken its next step
yet.  An event's signal count is represented by its effect: a cell whose event has been set since
it was reserved is `signalled`.  `readers`, `x` and `passed` are ghosts: who holds what.
A lock taken with `pass` is released by one of `Handlers`, the i/o threads, which never ask for
the lock otherwise; `rw_lock_x_lock_move_ownership` makes it theirs first.  The error monitor's
`sync_arr_wake_threads_if_sema_free` is an action that nothing relies on.

Reads of `m_lock_word` by the thread that has the x-lock are one step with the change that follows,
since nobody else changes the word then (`LockWordCounts` and `MutualExclusion` confirm it); so are
the test and the reset of `m_recursive` at the start of an x-unlock.  The atomics are taken to be
sequentially consistent, which is their default and what all but the `m_writer_thread` and
`m_recursive` stores use; those two are in the release/acquire order their steps have here.

### BoundedChannel, Fifo (`include/ut0mpmcbq.h`)

The ring of cells with their sequence numbers (`m_pos`), the two positions, and every thread inside a
call: loading a position, comparing it with the cell's number, claiming it with the compare-exchange,
copying the value, publishing it.  A failed compare-exchange and a stale position are
the same step as in the code, the loop's next round.  `Fifo` is a queue of at most N values of which
one is added or taken at a time; `ChannelIsFifo` maps a channel to the values whose positions
were claimed and not yet claimed for taking, so an operation takes effect when it claims its position.

### Aio (`os/os0aio.cc`)

One handler: its pool is a `BoundedChannel` of slots, `m_n_reserved`, the events `m_not_full` and
`m_is_empty`, the queues with `m_pending_slots`, and one reaper thread per queue.  Each access of the counter
is a step, since the code changes and tests it in separate loads.  io_uring is external: entries
prepared (`sq`), given to the kernel by whoever calls `io_uring_submit` (`inflight`), completed in any order and
perhaps in part (`cq`).  `Abort` is a failed `ut_a` or `log_fatal`.  A partial completion submits the rest without
`io_uring_cqe_seen`: the completion is found again, and the slot is then in two places; the invariants
of `Aio` claim nothing after one.

### Redo, DurableLog (`log/log0log.cc`, `mtr/mtr0mtr.cc`, `buf/buf0flu.cc`, `buf/buf0dblwr.cc`, `log/log0recv.cc`)

An lsn counts records; a page is the sequence of records applied to it, so that a record lost, repeated or
out of order shows.  Every file has two contents: what the operating system holds, which a killed process leaves
behind, and what the disk holds, which a power failure leaves behind.  Of what was not synced, each page,
each doublewrite copy and each checkpoint is on disk, or not, or torn, independently of the others.  The log is
the exception: of its unsynced blocks those up to some place are on disk and those behind it are not.  That the disk
does not write the log's blocks out of order is an **assumption on the disk**; all results of this module depend on
it, since recovery accepts any block with the expected number and checksum.  Clients commit mini-transactions and wait for
the log; `WriteInBackground` stands for the callers that do not wait, one of which
passes an uninitialised lsn; the flusher, the checkpointer and recovery are threads of their own.
Recovery is `RecoverPages` (doublewrite), `RecvScan` (checkpoint, scan, incomplete groups) and `RecvApply`
(records by page lsn), and may be interrupted by another crash.

`lapses` is a history variable: it keeps what has happened in this behaviour that the code does, and that
some of the results do not survive.  There are three (section 7).  `"checkpoint"`: a checkpoint read the flush
list while a page that had left it was not synced.  `"early_return"`: `wait_for_pending_ops` returned with a page
write running, so that `buffered_writes` uses the doublewrite area again under it (`WaitForPendingOps`; it takes a doublewrite
batch of at least two pages).  `"misread"`: recovery took a record for another one (`RecvMisread`: the fall-through after
`MLOG_REC_CLUST_DELETE_MARK`; a record is opaque, so any scanned record may be one).  `WriteAhead` and `LogIsDurable`
hold in all behaviours; `RecoveryPossible` excepts the last two lapses and `PagesMatchLog` all three.
A misread ends the model: what the shifted parse makes of the rest of the log is data.

`DurableLog` is what the log promises: a sequence of groups, added as a whole; a crash may lose whole
groups at the end, none that was acknowledged.  `LogIsDurable` says that `Redo` implements it.

Simplifications: letting the log mutex go and waiting for an event are one step (had the event been set
in between, the thread would go on as if woken); records have a body; pages are in other tablespaces than
the doublewrite area; a scan that does not reach its checkpoint counts as fatal; the log area does not
wrap; after the last crash nothing new is started, nor after the last but one if there was a lapse (`Running`),
and the background writes come before the first crash (bounds).  A slot of the i/o handler is given back
before the page's `io_complete`; the page write is over then, and nothing here depends on that order.

### ReadView, Mvcc (`read/read0read.cc`, `include/read0read.h`, `trx/`, `row/`)

`ReadView` has the counter, each client's transaction with id and number, the list of views, the purge
view and the history list.  A commit with an update undo log is two actions, `CommitNumber` and
`CommitInMemory`, since the code lets the kernel mutex go in between.  The visibility test compares ids
as the code does, with a difference stored in an int: `IntMax` is its largest value, and `IdAssumption`
says that ids stay below it.

`Mvcc` adds the rows: a clustered record per key with transaction id, roll pointer, delete mark and value,
the secondary entries, PAGE_MAX_TRX_ID, undo records, the work each transaction has left, and purge.
A row operation changes the clustered record in one mini-transaction and each secondary entry in
a later one; rollback walks back in the same way; purge fetches an undo record, then removes the
secondary entry, then the clustered record.  Reads are operators of the state: the
reader has the page latch and the purge latch while it builds a version.  `committed` and `snap` are
ghosts, what a read should return.  `MvccInv` has the inductive invariants of these rows and of
their secondary entries for `MvccProofs` and `MvccIndexProofs`.

Simplifications: one rollback segment, as the code has; rollbacks of whole transactions; every update changes
the indexed column and no column is stored externally; the secondary index is one page; an undo log is
one page; cursor views are left out.  Row locks are a set per transaction, `LockSys` has the rest.
Purge's test of a secondary entry and its removal (row0purge.cc:244) are one step: it has the page latched and the purge
latch, and nothing comes between.  `EndPurge` leaves out the `truncate_start` of the oldest log when its number is the
limit (trx0purge.cc:240-242), which cuts undo records that purge has handled.  `UndoNext` takes the undo records in
the order of the log, the newest first.  When a transaction has changed a row more than once, the code undoes the row's
earlier changes at once (`UNDO_NODE_PREV_VERS`, row0undo.cc:379-391 and 655-664), before those of other rows made in
between.  The order on each row is the same and the rows are locked until the end, but these orders
between rows are not modelled; with the one row of the runs there are none.  In the undo of an update the inner `err` of row0undo.cc:911 hides the outer one, so an error
there would be swallowed and the loop left; the model has no such error but the stop of section 7.

## 4. What the runs check

| Run | Instance | What it shows |
|---|---|---|
| `lock_gap` | 2 transactions, one of them READ COMMITTED, 2 keys, X next-key reads, inserts, deletes, purge | the invariant `LockInv` behind the proofs; implicit locks exclude; no lock on a record that is gone; the fast path does what the slow path would; a gap locked exclusively stays locked |
| `lock_shared_gap` | as `lock_gap`, both REPEATABLE READ, S reads | **violation**, see section 7 |
| `search_tables` | 3 READ COMMITTED transactions, table locks in all modes and record locks below, depth limit 1 | multigranularity locking excludes; no overtaking in a queue and no conflicting grants; table queues and `rec_unlock` lose no grant; refused requests leave nothing that waits; no cycle of waits survives, whichever victim; the search is linear and its answers are those `LockSys` allows |
| `wait_threads` | 2 client threads, X locks on up to 3 records, some of which purge removes, finite timeout, fairness | no wake-up lost or early; the query thread's state agrees with the transaction's; the threads' steps implement `LockSys`; every wait ends |
| `wait_victim` | as above, 2 records | **violation**, see section 7 |
| `rw_latch` | 2 threads and a handler, 2 nested x-locks, also with nowait, fairness | the lock word is within bounds, mutual exclusion, the lock word counts, the owner is known, nobody sleeps unwoken, every wait ends |
| `rw_word` | 3 nested x-locks | **violation**, see section 7 |
| `aio` | 2 submitters, 2 queues, 2 slots, 3 requests, 1 partial completion | the channel is a FIFO queue; a slot is in one place; the counter accounts for every slot; shutdown finds everything returned |
| `redo` | 1 client, 2 pages, doublewrite batches of 1 or 2, up to 2 records in groups of 1 or 2, 2 crashes of either kind | write-ahead logging; the log is durable and loses whole groups only; but for the lapses of section 3 recovery never stops and pages are what the log says |
| `redo_checkpoint` | as above, doublewrite batches of 1 | **violation**, see section 7 |
| `mvcc` | 2 clients, 1 row, 2 values, 4 ids and numbers, 2 undo records at a time | reads through both indexes are consistent; purge sees no more than any open view (`PurgeViewIsOldest`, `FactC`); when everything has ended and is purged no garbage is left |
| `mvcc_rollback` | as above | **violation**, see section 7 |

### Bounds

`MaxLocks` and `MaxUndo` bound the Lock structs and the row changes of a transaction; they
stop new requests, never the end of one.  Three transactions are what a deadlock of two with a
bystander, a queue with a granted lock and two waiting ones, and a search that goes on behind the first
neighbour need; two keys and the supremum give a gap on each side of a record.  Four locks let two
transactions hold one and ask for another.  With three transactions the search never exceeds a depth of 1, so the
refusal for depth does not occur in `search_tables`: `deadlock_occurs` of `LockSys` allows it, and the theorems of
`LockWaitsProofs` are about every answer that it allows.  `InitialRec` is the set of contents a page may start with.
In `wait_threads` the fifth lock and the third record give the deadlocked
transactions different weights, so that the victim may be the one asleep.  In the runs of
`RwLock`, X_LOCK_DECR only has to exceed the number of threads: the lock word then takes all its
ranges.  Two nested x-locks reach every branch of the relock code but one, three reach that one
(`rw_word`).

In `aio` two slots and three requests make the pool empty, full and go round; two queues let two
reapers return slots at once.  In `redo` two records make a group that a crash may cut, two pages make
records that must not be mixed up and a doublewrite batch of two, and the second crash falls into the recovery from
the first.  With that the run has 676,735 states.  Only the pages are symmetric.  In `mvcc` two clients have a reader and a writer, or two writers with purge between them; four ids are a
writer with a number, a second writer, and a reader before, between or after them; two undo
records at a time are an update over an update or a delete after an insert.  The violation
runs and the mutants show that the interesting cases happen within these bounds.

Symmetry is used over transactions, clients, submitters and pages, only in runs without
liveness; no definition names or orders them.  `wait_threads` and
`rw_latch` check liveness and use none, nor does `lock_gap`, whose transactions differ in isolation
level.

CHECK_DEADLOCK is off in `mvcc`, where the process may stop at the assertion of section 7 and
where, at the bound on ids, nothing may be left to do, and in `redo` and `redo_checkpoint`, where recovery may stop
(`"fatal"`) and where, after the last crash, the model starts nothing more.

### Fairness

`wait_threads`: time passes for a waiting transaction and a call in progress returns (weak
fairness); a waiting thread and the timeout thread get the kernel mutex if they ask for it again and
again while others take and release it (strong fairness).  The code gives no stronger guarantee
than that for `mutex_enter`, and no weaker one: a waiter spins, sleeps, and is woken at every
release.  The wait timeout is finite: the default is 60 seconds (`api0cfg.cc`), and
`lock_timeout_thread` ignores values of 100000000 and above, for which the property does not hold.
Nothing is assumed about the holders of locks: they may never do anything again.

`rw_latch`: a thread inside a call goes on, and one that has a lock releases it (weak fairness per
thread), at last its outermost x-lock too, however often it nests others in it (strong fairness for that
unlock): every latch is released when its mini-transaction or its critical section ends.  No fairness for
new requests, and none for the error monitor, whose wake-ups the code
has only as a remedy.

The other runs check safety only.  `Aio` has no liveness property because a submitter waiting for a
slot can be left asleep (section 7).

## 5. What is proved

`LockSysProofs` proves, for any number of transactions, tables, pages, keys and
locks (assumptions: only `ConstantsAssumption`, which types the constants):

* `LockInvariant`: `Spec => []LockInv`;
* `TypeCorrect`, `QueueOrder` (`NoOvertaking`), `GrantedLocksAgree` (`NoConflictingGranted`, RULE 3 of
  `lock0lock.cc`) and `ImplicitLocksExclude` (`ImplicitLockExcludes`) as consequences.

Why an invariant is needed: that granted locks do not conflict is not preserved by itself, because
a request is granted when it does not have to wait for the locks *ahead* of it; nothing is said about
those behind.  The queue order (`NoOvertakingIn`: no granted lock stands behind a conflicting lock or
request of another transaction) is inductive, since a new lock goes to the end, a removal keeps
the order, and a grant tests everything ahead.  Two details need strengthening.  Bits are added to an
existing struct (`rec_add_to_queue`), which puts a lock *ahead* of its time; that is safe
because the struct is reused only if no waiting lock is on the record and the new lock conflicts with
none.  And implicit locks are converted into explicit locks after others may have queued, so
`ImplicitOrExplicitIn` says that this happens before anybody else requests the record;
this needs `WriterActive`, `UndoConsistent` (rollback gives records back to their previous writer),
`BitsPresentIn` (no stale bit meets a new record) and `CallConsistent` (the row change after a
granted request).  The first part of the module has the lemmas on sequences of locks: appending, setting a
bit, clearing bits, granting, removing, inheriting.

`LockWaitsProofs` proves the other half of the lock manager, what waits:

* `WaitInvariant`: `Spec => [](LockInv /\ WaitInv)`;
* `WaitStatesAgree` (`WaitStateConsistent`), `NoLostGrant` (`WaitersAreBlocked`), `NoDeadlockLeft` (`NoWaitCycle`),
  `LocksHaveOwners` (`NoDanglingLock`), `TableLocksHold` (`TableLocksExclude`) and `FastPathIsSound`
  (`FastPathAgrees`) as consequences;
* `GapInvariant`: `Spec => []GapInv`, and `ExclusiveGapsStay` (`ExclusiveGapKept`), FACT B of `lock0lock.cc` for
  exclusive gap locks.

No grant is lost because everything that leaves a queue (dequeue, unlock, cancel, a lock of a removed
record) is followed by a walk over the same queue that grants what is no longer blocked;
the invariant says so of the queue (`BlockedIn`) with one exception, the request that a running call of
`deadlock_occurs` is about.  No cycle of waits is left although only the new request is searched: without
it there was no cycle (`NoCycleIn` of all others), every new edge starts or ends at the requester
(`SleepMakesNoCycle`), a cancelled victim only loses edges, and a grant turns an edge to a waiting lock into an
edge to a granted one of the same transaction.  The fast path needs the most: that it is taken on the
evidence of the only struct of the page, and that the queue it leaves answers every later request as the slow
path's queue would.

The gap property is an action property, proved step by step from the three invariants together.  `Gaps(ls, r, t)` says that t
loses no gap lock from the queue `ls` to the queue `r`; a first group of lemmas shows it for each change of a queue:
appending, setting a bit, granting, inheriting, and dequeue and unlock of what is not a granted gap lock of t;
`SupremumIn` (a lock on the supremum is never REC_NOT_GAP) is what makes a set bit there a gap lock.
`SuccessorInsert` and `SuccessorDelete` say how the next record of each gap changes when a key comes or
goes, and `HeirHasGap` that after the inheritance loops each owner of an X gap lock on the old place holds
the new one.  Insertion is the hard case: `rec_insert_check_and_lock` tests once, and an insert that waited goes on
without a second test.  `InsertCall` therefore follows its request: as long as it waits it is the
newest struct, so that everything in its way is ahead of it, and once it is granted nothing of another transaction is in
the way (`RequestSurvives`, `MayInsertFrees`).  READ COMMITTED transactions are excepted, as in `rec_inherit_to_gap`.
TLC has checked `GapInv` on the instance of the run `lock_gap`.  The same for shared gap locks is false (section 7).

`WaitThreadsProofs` proves of `LockWait`, for any number of clients and slots (`SlotsAssumption`):

* `ThreadInvariant`: `SpecWait => []ThreadInv`, with `NoWakeupIsLost` (`NoLostWakeup`), `NoWakeupIsEarly`
  (`NoEarlyWakeup`) and `ThreadStatesAgree` (`QueryThreadsAgree`) as consequences;
* `LocksUnderThreads`: `SpecWait => [](LockInv /\ WaitInv)`, the lock manager's invariants with the real steps of the
  waiting threads;
* `ThreadsImplementLockSys`: `SpecWait => WaitImplementsLockSys`, the refinement, by `WaitingInvariant`.

A wake-up is neither lost nor early because an event is reset by the thread that reserves its slot, in the
critical section that also looks at the wait (`EventsAgree`, `SlotOwners`, `WaitsAreOwn`).  The
refinement hides the error state and the victim flag of a thread that has not yet seen them
(`ErrSeen`, `VictimSeen`), and `AnswersAgree` says what the hidden values can be at each point of the wait.

`RwLockProofs` proves, for any number of threads and readers and any nesting, assuming
`ThreadsAssumption` (more units in X_LOCK_DECR than threads) and `NowaitNest <= 2` (nowait is
not used for a third x-lock, section 7):

* `RwInvariant`: `Spec => []RwInv`;
* `WritersExclude` (`MutualExclusion`), `LockWordMeaning` (`LockWordCounts`), `OwnerKnown`
  (`RecursiveFlagValid`) as consequences;
* `RwTypes` (`TypeOK`): types, and the bounds of the lock word, at most X_LOCK_DECR and above -X_LOCK_DECR * MaxNest, by
  a third invariant, `NestInv`: a call that has yet to take its x-lock was counted against the bound when it began;
* `SignalsArrive` (`NoLostSignal`), by a second invariant, `SignalInv`.

Mutual exclusion follows from the lock word only with the recursion flag: a thread whose decrement
fails takes the lock if it finds itself in `writer_thread`, which it reads after `recursive`, without the
lock.  `RwInv` therefore says, for every point of every call, what the thread knows there (`CallOK`): between
the two reads, `writer_thread` can be the reading thread only if it has the lock, since only that thread
writes its own id; the flag is down from the last unlock's first step until the next owner
has written its id.  `SignalInv` is about the window between reserving a cell and sleeping in it: a cell that was
not signalled since belongs to a thread that will look at the lock word again, or has raised the waiters
flag while the lock was still taken (`WaitAnnounced`), and then whoever releases it has yet to test the flag or to signal
(`BlockerLeft`, `ReaderLeft`).

`AioProofs` proves, for any number of threads, any channel of at least two cells, and any number of submitters,
queues and requests (`AioThreads`: finitely many, submitters and reapers distinct; `NoOwnerAssumption`):

* `ChannelImplementsFifo`: `Bounded_channel` implements `Fifo`, and `FreePoolIsFifo` (`ChannelIsFifo`): the handler's
  pool does too, whatever submitters and reapers do with it;
* `SlotsAreExclusive` (`SlotExclusive`), `CounterIsRight` (`ReservedCount`) and `ShutdownFindsAllFree` (`ShutdownIsClean`).

A channel has no lock: the sequence number of a cell says whose turn it is.  `ChannelInv` relates each number
to the two positions and to the one thread that has claimed the cell and not yet published it
(`Claimer`); from it a claimed position determines its value, and the queue of claimed values grows at one end and
shrinks at the other.  For the handler, `Good` says that every slot is in exactly one place (pool, submitter, ring of a queue,
kernel, reaper), that the entries of the rings belong to the slots' owners, and that the counter is
the slots given away plus the threads between pool and counter; every step moves at most one slot from one
place to another.  As in the model, nothing is claimed after a partial completion.

`RedoProofs` proves of `Redo`, for any number of clients, pages, records and crashes and any size of the doublewrite
buffer (`BoundsAssumption` types the bounds, `ClientsAssumption` and `PagesAssumption` keep clients apart from the other
threads and pages from the empty place of the doublewrite area):

* `RedoInvariant`: `Spec => []RedoInv`, with `RedoTypes` (`TypeOK`), `WriteAheadHolds` (`WriteAhead`) and
  `RecoveryIsPossible` (`RecoveryPossible`: recovery stops only after an early return of `wait_for_pending_ops` or a misread
  record) as consequences;
* `LogDurability`: `Spec => LogIsDurable`, the refinement of `DurableLog`: a commit of a mini-transaction is `Extend`,
  `Ack` is `Acknowledge`, `RecvScan` is `Recover`, every other step a stutter;
* `PagesMatchLogHolds` (`PagesMatchLog`: in every history without a lapse), by a second invariant, `MatchOK`, on top of
  the first.

What a flush has made durable cannot be said by comparing lsns with the length of the file: behind the log the file
has old records, a crash may leave a mixture of the written and the synced blocks, and the log then grows again with
other records at the same lsns.  `LogsOK` says what stays true: wherever a file has the end of a group, it has the whole log
before it.  An lsn is `Hard` when an end of a group at or behind it is on disk and in the file.  No step makes a
hard lsn soft (`HardKept`), recovery keeps every hard lsn (`LogScanned`), and the rest of `RedoInv` says that whatever depends on the
log is not ahead of a hard lsn: acknowledgements, calls of `write_up_to` that have returned, also those that only waited for
another thread's flush (`CallsOK`), page images (`ImagesOK`), checkpoints (`CheckpointsOK`).  Recovery is possible because
the two places of the checkpoint take turns, and because an exposed page (its file and disk differ, or it is
being written) has a copy in the doublewrite area that is synced, with no torn copy of the page before it (`GoodCopy`), as
long as no wait for page writes returned early.

`MatchOK` relates images to the points where a recovery may start (`Starts`: both checkpoints, the one being written, the
one the checkpointer has in mind): an image has its page's records below its lsn, and those it lacks are not older than any such
point (`Fits`).  A flush list entry covers what the file lacks (`BlockMatches`), so the oldest modification is a
good place to start, if file and disk are equal when it is read; the lapse `"checkpoint"` records when they are not, and the
only step of the proof that needs it is `MatchCheckpointOldest` (section 7).

`MvccProofs` proves, for any number of clients and rows and any bound on ids and undo
records, assuming `IdAssumption` (ids stay below the largest int, section 3):

* `RInvariant`: `RSpec => []RInv`, with `PurgeViewOldest` (`PurgeViewIsOldest`) and `FactCHolds` (`FactC`) as
  consequences.  FACT C is the claim that `read0read.cc` leaves with "TODO: proof this";
* `MvccRefines`: `Spec => RSpec /\ []RInv`, every step of rows, rollback and purge is a step of
  `ReadView` or a stutter, and so `MvccPurgeViewOldest` and `MvccFactC` for the composition;
* `MvccInvariant`: `Spec => [](RInv /\ PurgePositionOK /\ MInv)`, with `MvccTypes` (`TypeOK`) and `MvccReads`
  (`ReadsAreConsistent`, FACT B of `read0read.cc`) as consequences.

That purge sees no more than any open view is not inductive: purge copies the *oldest* view, so
the views must be ordered.  `OlderSeesLess` says that an older view sees nothing that a newer one does not, except
what its own creator has changed, which is why the copy hides the creator.  A new view goes to the
front of the list and sees everything that is not active, and `HidesActive` says that no view sees an active
id but its creator's; so the order is kept.  FACT C needs `LogsBelowSeen` for every view, not
only for purge's: a log below `low_limit_no` belongs to a transaction that the view sees.  When a view is opened
in the middle of a commit, the log is in the history list and its transaction is still active; then
`LogsNumbered` (the transaction has the number of its log) puts `low_limit_no` at or below it.
`SeesMeaning` turns the walk with int differences into membership.  In `Mvcc` the end of a
purge batch is a stutter because `truncate_rseg_history` frees nothing (`TruncationFreesNothing`: the difference
it tests is unsigned, section 7); the position of purge (`PurgePositionOK`) makes
the terms of that difference numbers.

What a consistent read returns depends on a whole chain of versions, which every update makes longer; an
invariant about chains would need induction at every step.  `MInv` (`MvccInv`) speaks of single records instead.
`VersionsOK` says that a roll pointer leads to the undo record that its transaction wrote when it made the version.
`RowsShow` says, for a set of hidden transactions and a state of the rows, that a record of the index, or one that a
hidden transaction has overwritten, either is itself hidden or has the right row: each link that passes from hidden to visible arrives
at the right place.  It holds with the active transactions and `committed` (`CommittedShown`) and with what a view does not see
and the snapshot of its creator (`SnapsShown`); opening a view turns the first into the second, and a commit
changes `committed` exactly by the rows that it stops hiding.  The other parts keep these two: row locks (`LocksOK`: what a
transaction has overwritten nobody else changes), the steps a row operation or a rollback has yet to do (`WorkOK`,
`NumberedDone`), and what purge is about to remove (`PurgeOK`: its record belongs to a transaction that the purge view sees, so by `PurgeSeesLess`
every reader sees it and stops there).

That leads to the read in two steps.  `Acyclic` gives every undo record a rank, and since there are at most `MaxUndo` of
them, a chain is no longer than that (`UndoBounded`): the loop ends before its bound.  And every round of it stays on records that `RowsShow` speaks of.
The loop is a recursive function on a finite interval; that there is such a function
(`RoundsExist`) and what it returns (`LoopMeaning`) are shown by taking a least
counterexample, since the library's induction theorems are out of reach.  TLC has checked each part of `MInv` on the instances of
the runs but `Acyclic`, which has a quantifier over functions on the naturals.

`MvccIndexProofs` proves of the secondary index, under the same assumptions:

* `MvccSecInvariant`: `Spec => [](RInv /\ PurgePositionOK /\ MInv /\ SInv)`;
* `MvccSecReads` (`SecReadsAreConsistent`, FACT A of `read0read.cc`);
* `MvccGarbageInvariant`: `Spec => [](RInv /\ PurgePositionOK /\ MInv /\ SInv /\ GInv)`;
* `MvccNoGarbage` (`PurgeLeavesNoGarbage`).

A row operation changes the clustered index first and the entries later, and a rollback goes the other way, so
the two indexes agree almost never.  `BusyOK` says how they differ while a client is at its last change (`Busy`):
each live entry that should not be there is one that the list of work is to mark or to remove, each missing one is
to be inserted or unmarked.  Every other key has exactly the live entry of its row (`LiveIsRow`).  The rest of
`SInv` is about what is left behind.  `Linked` says that an undo record that purge must leave alone is reached
from the clustered index over others of that kind, and `OldPresent` that the version in it has its entry: so when
purge asks `old_has_index_entry` it finds the version (`EntryOfVersion`: a record of greatest rank that it does not
find would be reached from one that it does) and keeps the entry.  A record that rollback has undone and not yet popped is
excepted from both (`Reverted`).  A view that sees a version sees what the version has replaced (`ChainsSeen`), so what a reader
needs is not below what purge has seen.  `MaxTrxOK` is for the short cut of a reader that finds PAGE_MAX_TRX_ID below its
view: a change whose transaction is above that number has not yet touched the index (`PageIsOld`).

What is garbage may stay for long: purge looks at each undo record once, and skips an entry that an older version or
a later change still needs.  `GInv` says who will come back for it.  A delete-marked record (`MarkedOwed`) is left to
the log of the transaction that marked it, as long as that log is unfinished or purge's position is not behind the undo record (`Pending`), to a
removal purge has in hand, or to a client that rolls back an insert into it (`DropFollows`).  An entry that is not the
row's (`EntriesOwed`) is left to an undo record with a version of that value which is pending in the same sense and not undone.
`PurgedSeen` is the counterpart: an undo record that leaves something to remove (`Leaving`) and that purge's view does not cover is
pending.  With `OldPresent` of `SInv` it gives the one case that is not local (`KeptIsOwed`): when `old_has_index_entry` makes
purge keep an entry, the version that needs it is the old one of a record which is not purged, hence pending, and so the debt passes to
that record.  `AtLastLog` says that a stored position of purge is in the log that `rseg_last` names; when `choose_next_log` moves on, the
records it leaves behind are those it has handled.  When purge has handled every log and nobody is at work, nothing is
pending and nothing in hand, so there is no garbage.  TLC has checked `GInv` on the instance of the run `mvcc`.
All of this holds until `mvcc_rollback`'s stop (section 7), which `SInv` and the property have as a condition.

## 6. What is only model-checked

Liveness (`EveryWaitEnds` of `LockWait` and of `RwLock`) depends on fairness and ENABLED, which
the prover does not handle.  `DeadlockSearch` is recursive: what it computes for every queue
(`SearchIsLinear`, `SearchImplementsLockSys`) would need induction over data.  That every page matches the log without exception (`RecoveryIsComplete`) is false
(section 7).

## 7. Where code and documentation disagree

* `lock_shared_gap`: `rec_inherit_to_gap` inherits only X locks, and none of a READ COMMITTED
  transaction; its comment says that S locks are inherited even then.  A shared next-key lock of a
  repeatable-read transaction is lost when purge removes the record under it, and the gap opens.  The trace ends
  there; that another transaction can then insert a phantom is the consequence, and not shown.
* `wait_victim`: `suspend_user_thread` overwrites DB_DEADLOCK by DB_LOCK_WAIT_TIMEOUT if the wait was
  also too long; `srv0srv.h` says that the victim gets DB_DEADLOCK.  The victim is not rolled back.
* `rw_word`: `rw_lock_x_lock_func_nowait` takes 1 instead of X_LOCK_DECR for the third and every
  further nested x-lock, while every unlock gives X_LOCK_DECR back; the description in `sync0rw.cc` and
  `rw_lock_validate` call the resulting lock word invalid.  `NowaitNest` names the condition under
  which this does not happen, and all other results on `RwLock` are under it.
* `redo_checkpoint`: `Log::checkpoint` fsyncs the data files before it reads the oldest modification of the
  flush list; a page write that completes in between has left the list and is not synced, and the checkpoint
  passes its records.  If the power fails before the next sync, recovery does not bring the page
  back.  `PagesMatchLog` holds in all behaviours without that window and the other two lapses (section 3).
* `mvcc_rollback`: the rollback of an update of an indexed column restores the position of a
  cursor that was never stored, and the process stops.  The other results on `Mvcc` are about behaviours
  up to such a stop: rollbacks of inserts, of delete marks, and of updates that have not yet reached
  their secondary entry go on.

Four more disagreements need no run of their own.  `truncate_rseg_history` compares unsigned numbers with
`>= 0`, so the history list is never cut (`EndPurge` follows the code).  `Handler::mark_as_free` and
`reserve_slot` test the counter and change the events in separate steps: a reaper that found
the handler empty may set `m_is_empty` after a submitter has reset it, so that `wait_for_pending_ops` returns with
a write in flight, and the doublewrite area is used again before that write is synced (buf0flu.cc:469-472); `Redo` has this as the
lapse `"early_return"`, after which a power failure may leave a torn page without a copy.  Two reapers that
count down together may both miss the value at which `m_not_full` is set.
In `recv_parse_or_apply_log_rec_body` the case of `MLOG_REC_CLUST_DELETE_MARK` has no `break` (log0recv.cc:568-577): the parse
goes on with the body of an `MLOG_REC_SEC_DELETE_MARK` and takes bytes of the next record, so a log with a clustered delete mark
behind the checkpoint is not recovered as written.  `Redo` has this as the lapse `"misread"`; its results on recovered pages are for logs
without such a record behind the checkpoint.
`Bounded_channel::full()` (`ut0mpmcbq.h`) returns true when the next cell to enqueue into is free, so it is true of any
channel nobody is using, full or not; `Queue::shutdown` asserts it of the pool.  `ShutdownIsClean` states what the
assertion means: the pool has all its slots.

## 8. What is not modelled

`PROJECT.json` lists every component with its status.  The planned ones are in section 2.  The engine has some
hundred and twenty thousand lines, and the models stand for the concurrency control, versioning and durability
core of them; most of the rest has little control that a model would add to:
the SQL parser and the evaluator of internal procedures (generated, sequential),
physical record formats and comparisons (data without control), the parsing and applying of each type of log record, the client API's argument checks, the
dictionary's loading and storing of metadata, memory heaps, file I/O, logging and statistics, and the code
under `UNIV_SYNC_DEBUG`.  B-tree changes, space allocation and the buffer pool's replacement have control
worth modelling and are left for later.
