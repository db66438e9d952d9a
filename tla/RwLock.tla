------------------------------ MODULE RwLock ------------------------------
(***************************************************************************)
(* One rw-lock (include/sync0rw.h, sync/sync0rw.cc) with its two events    *)
(* and the cells of the wait array (sync/sync0arr.cc).  Every atomic       *)
(* operation on the lock, its flags and its events is a step of its own;   *)
(* spinning is a thread that has not yet taken its next step.              *)
(*                                                                         *)
(* lock_word counts the holders: X_LOCK_DECR less one for each reader and  *)
(* less X_LOCK_DECR for each x-lock.  A writer that takes its X_LOCK_DECR  *)
(* while there are readers is the next writer: it keeps others out and     *)
(* waits for the readers on wait_ex.  Everybody else waits on event.       *)
(***************************************************************************)
EXTENDS Integers, FiniteSets

CONSTANTS
  Threads,
  Handlers,     \* the threads that complete i/o, and release the locks passed to them
  NoThread,
  X_LOCK_DECR,
  MaxNest,      \* bound: x-locks of one thread
  NowaitNest    \* threads use x_lock_nowait up to this nesting

ASSUME ThreadsAssumption ==
  /\ NoThread \notin Threads
  /\ Handlers \subseteq Threads
  /\ IsFiniteSet(Threads)
  /\ X_LOCK_DECR \in Nat /\ Cardinality(Threads) < X_LOCK_DECR
  /\ MaxNest \in Nat \ {0} /\ NowaitNest \in Nat

VARIABLES
  lock_word, waiters, recursive, writer_thread,
  event,     \* is the event set?
  cell,      \* the cell of a thread for an event: free, reserved, or reserved and
             \* the event's signal count has changed since
  pc, op,    \* where the thread is, and in which call
  readers,   \* the threads that have an s-lock
  x,         \* the x-locks of a thread, one it is still waiting for included
  passed     \* an x-lock taken with pass # 0 that no thread has taken over

vars == <<lock_word, waiters, recursive, writer_thread, event, cell, pc, op, readers, x, passed>>
lockVars == <<lock_word, recursive, writer_thread, readers, x, passed>>
waitVars == <<waiters, event, cell>>

Events == {"event", "wait_ex"}
Steps == {"idle", "s_try", "x_try", "cas", "read_recursive", "read_writer", "reserve", "set_waiters",
          "sleep", "set_writer", "set_recursive", "wait", "ex_reserve", "ex_check", "ex_sleep",
          "ex_signal", "incr", "test_waiters", "reset_waiters", "signal"}

Types ==
  /\ lock_word \in Int
  /\ waiters \in BOOLEAN
  /\ recursive \in BOOLEAN
  /\ writer_thread \in Threads \cup {NoThread}
  /\ event \in [Events -> BOOLEAN]
  /\ cell \in [Threads -> [Events -> {"free", "reserved", "signalled"}]]
  /\ pc \in [Threads -> Steps]
  /\ op \in [Threads -> {"none", "s", "x", "pass", "nowait", "move", "unlock"}]
  /\ readers \in SUBSET Threads
  /\ x \in [Threads -> Nat]
  /\ passed \in BOOLEAN

\* The lock word never exceeds the X_LOCK_DECR of a free lock, and however x-locks are
\* nested, waited for and given back it leaves room for the next reader or writer: no call
\* counts a lock down twice or back twice (rw_lock_lock_word_decr, rw_lock_lock_word_incr).
TypeOK ==
  /\ Types
  /\ lock_word <= X_LOCK_DECR
  /\ lock_word > -X_LOCK_DECR * MaxNest

\* rw_lock_create_func leaves writer_thread as it is.
Init ==
  /\ lock_word = X_LOCK_DECR
  /\ waiters = FALSE
  /\ recursive = FALSE
  /\ writer_thread \in Threads \cup {NoThread}
  /\ event = [e \in Events |-> FALSE]
  /\ cell = [t \in Threads |-> [e \in Events |-> "free"]]
  /\ pc = [t \in Threads |-> "idle"]
  /\ op = [t \in Threads |-> "none"]
  /\ readers = {}
  /\ x = [t \in Threads |-> 0]
  /\ passed = FALSE

-----------------------------------------------------------------------------
At(t, step) == pc[t] = step
Goto(t, step) == pc' = [pc EXCEPT ![t] = step] /\ UNCHANGED op

\* The call begins, and returns; a cell reserved for event is given back.
Begin(t, call, step) ==
  /\ At(t, "idle")
  /\ op' = [op EXCEPT ![t] = call]
  /\ pc' = [pc EXCEPT ![t] = step]
Return(t) ==
  /\ op' = [op EXCEPT ![t] = "none"]
  /\ pc' = [pc EXCEPT ![t] = "idle"]
  /\ cell' = [cell EXCEPT ![t]["event"] = "free"]

\* Cond_var::set and Cond_var::reset.  The signal count grows with every set of
\* an event that was not set: a reserved cell then holds an old count.
\* (Mutant: the signal count is not kept, only the state of the event.)
os_event_set_flag_only(e) == event' = [event EXCEPT ![e] = TRUE] /\ UNCHANGED cell
os_event_set(e) ==
  /\ event' = [event EXCEPT ![e] = TRUE]
  /\ cell' = [t \in Threads |-> [f \in Events |->
                IF f = e /\ ~event[e] /\ cell[t][f] = "reserved" THEN "signalled" ELSE cell[t][f]]]

sync_array_reserve_cell(t, e) ==
  /\ event' = [event EXCEPT ![e] = FALSE]
  /\ cell' = [cell EXCEPT ![t][e] = "reserved"]

\* os_event_wait_low returns.
Woken(t, e) == event[e] \/ cell[t][e] = "signalled"

-----------------------------------------------------------------------------
(* Locking in s-mode.                                                      *)

\* A thread that has the lock in any mode does not ask for an s-lock.
rw_lock_s_lock_func(t) ==
  /\ t \notin readers /\ x[t] = 0 /\ t \notin Handlers
  /\ Begin(t, "s", "s_try")
  /\ UNCHANGED <<lockVars, waitVars>>

rw_lock_s_lock_low(t) ==
  /\ At(t, "s_try") /\ lock_word > 0
  /\ lock_word' = lock_word - 1
  /\ readers' = readers \cup {t}
  /\ Return(t)
  /\ UNCHANGED <<waiters, recursive, writer_thread, event, x, passed>>

\* The attempt failed: the second one, with a cell reserved, puts the thread to sleep.
Failed(t) ==
  Goto(t, IF cell[t]["event"] = "free" THEN "reserve" ELSE "sleep")

SLockFailed(t) ==
  /\ At(t, "s_try") /\ lock_word <= 0
  /\ Failed(t)
  /\ UNCHANGED <<lockVars, waitVars>>

-----------------------------------------------------------------------------
(* Waiting on event, for both modes.                                       *)

Reserve(t) ==
  /\ At(t, "reserve")
  /\ sync_array_reserve_cell(t, "event")
  /\ Goto(t, "set_waiters")
  /\ UNCHANGED <<lockVars, waiters>>

rw_lock_set_waiter_flag(t) ==
  /\ At(t, "set_waiters")
  /\ waiters' = TRUE
  /\ Goto(t, IF op[t] = "s" THEN "s_try" ELSE "x_try")
  /\ UNCHANGED <<lockVars, event, cell>>

sync_array_wait_event(t) ==
  /\ At(t, "sleep") /\ Woken(t, "event")
  /\ cell' = [cell EXCEPT ![t]["event"] = "free"]
  /\ Goto(t, IF op[t] = "s" THEN "s_try" ELSE "x_try")
  /\ UNCHANGED <<lockVars, waiters, event>>

-----------------------------------------------------------------------------
(* Locking in x-mode.                                                      *)

\* A handler only nests the lock it has taken over.
CanXLock(t) ==
  /\ t \notin readers /\ x[t] < MaxNest
  /\ t \in Handlers => x[t] > 0

\* With pass # 0 the lock is for another thread to release, and is never nested.
rw_lock_x_lock_func(t, call) ==
  /\ CanXLock(t)
  /\ call \in {"x", "pass"} /\ (call = "pass" => x[t] = 0)
  /\ Begin(t, call, "x_try")
  /\ UNCHANGED <<lockVars, waitVars>>

\* rw_lock_x_lock_low: the writer, or the next one.  The assertion on recursive
\* would stop the process.
XDecrement(t) ==
  /\ At(t, "x_try") /\ lock_word > 0
  /\ ~recursive
  /\ lock_word' = lock_word - X_LOCK_DECR
  /\ x' = [x EXCEPT ![t] = @ + 1]
  /\ Goto(t, "set_writer")
  /\ UNCHANGED <<recursive, writer_thread, readers, passed, waitVars>>

XDecrementFailed(t) ==
  /\ At(t, "x_try") /\ lock_word <= 0
  /\ \/ op[t] = "pass" /\ Failed(t)
     \/ op[t] # "pass" /\ Goto(t, "read_recursive")
  /\ UNCHANGED <<lockVars, waitVars>>

rw_lock_x_lock_func_nowait(t) ==
  /\ CanXLock(t) /\ x[t] < NowaitNest
  /\ Begin(t, "nowait", "cas")
  /\ UNCHANGED <<lockVars, waitVars>>

\* (Mutant: the lock word is not compared with X_LOCK_DECR.)
NowaitCas_any(t) ==
  /\ At(t, "cas")
  /\ lock_word > 0
  /\ lock_word' = lock_word - X_LOCK_DECR
  /\ x' = [x EXCEPT ![t] = @ + 1]
  /\ Goto(t, "set_writer")
  /\ UNCHANGED <<recursive, writer_thread, readers, passed, waitVars>>
NowaitCas(t) ==
  /\ At(t, "cas")
  /\ \/ /\ lock_word = X_LOCK_DECR
        /\ lock_word' = 0
        /\ x' = [x EXCEPT ![t] = @ + 1]
        /\ Goto(t, "set_writer")
        /\ UNCHANGED <<recursive, writer_thread, readers, passed>>
     \/ /\ lock_word # X_LOCK_DECR
        /\ Goto(t, "read_recursive")
        /\ UNCHANGED lockVars
  /\ UNCHANGED waitVars

\* The lock is not free: is it mine?  The two fields are read one after the other.
NotMine(t) ==
  \/ op[t] = "nowait" /\ Return(t)
  \/ op[t] # "nowait" /\ Failed(t) /\ UNCHANGED cell

ReadRecursive(t) ==
  /\ At(t, "read_recursive")
  /\ \/ recursive /\ Goto(t, "read_writer") /\ UNCHANGED cell
     \/ ~recursive /\ NotMine(t)
  /\ UNCHANGED <<lockVars, waiters, event>>

\* (Mutant: the second one takes 1 as well.)
Relock_by_one(t) ==
  /\ lock_word' = lock_word - (IF op[t] = "nowait" THEN 1 ELSE X_LOCK_DECR)
  /\ x' = [x EXCEPT ![t] = @ + 1]
  /\ Return(t)
  /\ UNCHANGED <<recursive, writer_thread, readers, passed>>
\* rw_lock_x_lock_low takes X_LOCK_DECR for every further x-lock; the nowait
\* function does so for the second one, and takes 1 for those after it.
Relock(t) ==
  /\ \/ op[t] # "nowait" /\ lock_word' = lock_word - X_LOCK_DECR
     \/ op[t] = "nowait" /\ lock_word = 0 /\ lock_word' = lock_word - X_LOCK_DECR
     \/ op[t] = "nowait" /\ lock_word <= -X_LOCK_DECR /\ lock_word' = lock_word - 1
  /\ x' = [x EXCEPT ![t] = @ + 1]
  /\ Return(t)
  /\ UNCHANGED <<recursive, writer_thread, readers, passed>>

ReadWriter(t) ==
  /\ At(t, "read_writer")
  /\ \/ /\ writer_thread = t
        /\ Relock(t)
     \/ /\ writer_thread = t
        /\ op[t] = "nowait" /\ lock_word # 0 /\ lock_word > -X_LOCK_DECR
        /\ Return(t)
        /\ UNCHANGED lockVars
     \/ /\ writer_thread # t
        /\ NotMine(t)
        /\ UNCHANGED lockVars
  /\ UNCHANGED <<waiters, event>>

\* rw_lock_set_writer_id_and_recursion_flag: writer_thread first.
SetWriter(t) ==
  /\ At(t, "set_writer")
  /\ writer_thread' = t
  /\ Goto(t, "set_recursive")
  /\ UNCHANGED <<lock_word, recursive, readers, x, passed, waitVars>>

\* (Mutant: pass is ignored.)
SetRecursive_always(t) ==
  /\ At(t, "set_recursive")
  /\ recursive' = TRUE
  /\ \/ op[t] \in {"x", "pass"} /\ Goto(t, "wait") /\ UNCHANGED cell
     \/ op[t] \in {"nowait", "move"} /\ Return(t)
  /\ UNCHANGED <<lock_word, writer_thread, readers, x, passed, waiters, event>>
SetRecursive(t) ==
  /\ At(t, "set_recursive")
  /\ recursive' = (op[t] # "pass")
  /\ \/ op[t] \in {"x", "pass"} /\ Goto(t, "wait") /\ UNCHANGED cell
     \/ op[t] \in {"nowait", "move"} /\ Return(t)
  /\ UNCHANGED <<lock_word, writer_thread, readers, x, passed, waiters, event>>

-----------------------------------------------------------------------------
(* rw_lock_x_lock_wait: the next writer waits for the readers to leave.    *)

XLocked(t) ==
  /\ At(t, "wait") /\ lock_word >= 0
  /\ Return(t)
  /\ passed' = (passed \/ op[t] = "pass")
  /\ x' = IF op[t] = "pass" THEN [x EXCEPT ![t] = @ - 1] ELSE x
  /\ UNCHANGED <<lock_word, recursive, writer_thread, readers, waiters, event>>

XWaits(t) ==
  /\ At(t, "wait") /\ lock_word < 0
  /\ Goto(t, "ex_reserve")
  /\ UNCHANGED <<lockVars, waitVars>>

ExReserve(t) ==
  /\ At(t, "ex_reserve")
  /\ sync_array_reserve_cell(t, "wait_ex")
  /\ Goto(t, "ex_check")
  /\ UNCHANGED <<lockVars, waiters>>

\* (Mutant: the lock is free by now, and the cell is reserved again.)
ExCheck_again(t) ==
  /\ At(t, "ex_check")
  /\ Goto(t, IF lock_word < 0 THEN "ex_sleep" ELSE "ex_reserve")
  /\ UNCHANGED <<lockVars, waitVars>>
ExCheck(t) ==
  /\ At(t, "ex_check")
  /\ \/ lock_word < 0 /\ Goto(t, "ex_sleep") /\ UNCHANGED cell
     \/ lock_word >= 0 /\ Goto(t, "wait") /\ cell' = [cell EXCEPT ![t]["wait_ex"] = "free"]
  /\ UNCHANGED <<lockVars, waiters, event>>

ExSleep(t) ==
  /\ At(t, "ex_sleep") /\ Woken(t, "wait_ex")
  /\ cell' = [cell EXCEPT ![t]["wait_ex"] = "free"]
  /\ Goto(t, "wait")
  /\ UNCHANGED <<lockVars, waiters, event>>

-----------------------------------------------------------------------------
(* Unlocking.                                                              *)

TakeOver(t) ==
  /\ passed /\ t \in Handlers
  /\ passed' = FALSE
  /\ x' = [x EXCEPT ![t] = @ + 1]

rw_lock_s_unlock_func(t) ==
  /\ t \in readers
  /\ Begin(t, IF lock_word + 1 = 0 THEN "unlock" ELSE "none",
              IF lock_word + 1 = 0 THEN "ex_signal" ELSE "idle")
  /\ lock_word' = lock_word + 1
  /\ readers' = readers \ {t}
  /\ UNCHANGED <<recursive, writer_thread, x, passed, waitVars>>

ExSignal(t) ==
  /\ At(t, "ex_signal")
  /\ os_event_set("wait_ex")
  /\ pc' = [pc EXCEPT ![t] = "idle"]
  /\ op' = [op EXCEPT ![t] = "none"]
  /\ UNCHANGED <<lockVars, waiters>>

\* The x-lock of t, or the one passed to it, which is from now on counted as its own.
rw_lock_x_unlock_func(t) ==
  /\ \/ x[t] > 0 /\ UNCHANGED <<x, passed>>
     \/ TakeOver(t)
  /\ Begin(t, "unlock", "incr")
  /\ recursive' = (recursive /\ lock_word # 0)
  /\ UNCHANGED <<lock_word, writer_thread, readers, waitVars>>

XIncrement(t) ==
  /\ At(t, "incr")
  /\ lock_word' = lock_word + X_LOCK_DECR
  /\ x' = [x EXCEPT ![t] = @ - 1]
  /\ \/ lock_word' = X_LOCK_DECR /\ Goto(t, "test_waiters") /\ UNCHANGED cell
     \/ lock_word' # X_LOCK_DECR /\ Return(t)
  /\ UNCHANGED <<recursive, writer_thread, readers, passed, waiters, event>>

TestWaiters(t) ==
  /\ At(t, "test_waiters")
  /\ \/ waiters /\ Goto(t, "reset_waiters") /\ UNCHANGED cell
     \/ ~waiters /\ Return(t)
  /\ UNCHANGED <<lockVars, waiters, event>>

rw_lock_reset_waiter_flag(t) ==
  /\ At(t, "reset_waiters")
  /\ waiters' = FALSE
  /\ Goto(t, "signal")
  /\ UNCHANGED <<lockVars, event, cell>>

Signal(t) ==
  /\ At(t, "signal")
  /\ os_event_set("event")
  /\ pc' = [pc EXCEPT ![t] = "idle"]
  /\ op' = [op EXCEPT ![t] = "none"]
  /\ UNCHANGED <<lockVars, waiters>>

-----------------------------------------------------------------------------
\* A handler makes a passed x-lock its own.
rw_lock_x_lock_move_ownership(t) ==
  /\ TakeOver(t)
  /\ Begin(t, "move", "set_writer")
  /\ UNCHANGED <<lock_word, recursive, writer_thread, readers, waitVars>>

\* The error monitor thread wakes a thread whose lock it finds free.
can_wake_up(t, e) ==
  /\ cell[t][e] # "free"
  /\ \/ e = "event" /\ lock_word > 0
     \/ e = "wait_ex" /\ lock_word = 0
sync_arr_wake_threads_if_sema_free(t, e) ==
  /\ can_wake_up(t, e)
  /\ os_event_set(e)
  /\ UNCHANGED <<lockVars, waiters, pc, op>>

LockStep(t) ==
  \/ rw_lock_s_lock_low(t)
  \/ SLockFailed(t)
  \/ Reserve(t)
  \/ rw_lock_set_waiter_flag(t)
  \/ sync_array_wait_event(t)
  \/ XDecrement(t)
  \/ XDecrementFailed(t)
  \/ NowaitCas(t)
  \/ ReadRecursive(t)
  \/ ReadWriter(t)
  \/ SetWriter(t)
  \/ SetRecursive(t)
  \/ XLocked(t)
  \/ XWaits(t)
  \/ ExReserve(t)
  \/ ExCheck(t)
  \/ ExSleep(t)

UnlockStep(t) ==
  \/ ExSignal(t)
  \/ XIncrement(t)
  \/ TestWaiters(t)
  \/ rw_lock_reset_waiter_flag(t)
  \/ Signal(t)

LockCall(t) ==
  \/ rw_lock_s_lock_func(t)
  \/ \E call \in {"x", "pass"} : rw_lock_x_lock_func(t, call)
  \/ rw_lock_x_lock_func_nowait(t)
  \/ rw_lock_x_lock_move_ownership(t)

UnlockCall(t) == rw_lock_s_unlock_func(t) \/ rw_lock_x_unlock_func(t)

Next ==
  \/ \E t \in Threads : LockStep(t) \/ UnlockStep(t) \/ LockCall(t) \/ UnlockCall(t)
  \/ \E t \in Threads, e \in Events : sync_arr_wake_threads_if_sema_free(t, e)

Spec == Init /\ [][Next]_vars

\* Every thread goes on with its call and releases what it holds, at last its
\* outermost x-lock too, however often it nests others in it; a waiting thread goes on
\* when it is woken.  The error monitor is not counted on.
Fairness ==
  \A t \in Threads : /\ WF_vars(LockStep(t) \/ UnlockStep(t) \/ UnlockCall(t))
                     /\ SF_vars(UnlockCall(t) /\ x[t] = 1)

FairSpec == Spec /\ Fairness

-----------------------------------------------------------------------------
\* t has taken its X_LOCK_DECR and its call has not returned.
Entering(t) ==
  /\ op[t] \in {"x", "pass"}
  /\ pc[t] \in {"set_writer", "set_recursive", "wait", "ex_reserve", "ex_check", "ex_sleep"}

XHeld(t) == x[t] > 0 /\ ~Entering(t)

\* A thread that has the x-lock, or a passed x-lock on its way to its handler, excludes
\* every reader and every other writer (rw_lock_x_lock_low, rw_lock_x_lock_wait).
MutualExclusion ==
  /\ \A t \in Threads : XHeld(t) => readers = {} /\ ~passed /\ \A u \in Threads \ {t} : x[u] = 0
  /\ passed => readers = {} /\ \A t \in Threads : x[t] = 0

\* What n x-locks leave of lock_word.
XWord(n) == X_LOCK_DECR * (1 - n)

\* lock_word is what the description of the lock says: one less for each reader and
\* X_LOCK_DECR less for each x-lock, whoever holds them and however they were taken.
LockWordCounts ==
  /\ \A t \in Threads : x[t] > 0 => lock_word = XWord(x[t]) - Cardinality(readers)
  /\ passed => lock_word = XWord(1) - Cardinality(readers)
  /\ ~passed /\ (\A t \in Threads : x[t] = 0) => lock_word = XWord(0) - Cardinality(readers)

\* While recursive is set, writer_thread is the thread that has the x-lock or is the next
\* writer, and has it for itself: no other thread can take the lock for its own, and the
\* assertion of rw_lock_x_lock_low cannot fail.
RecursiveFlagValid ==
  recursive => writer_thread \in Threads /\ x[writer_thread] > 0 /\ op[writer_thread] # "pass"

\* Nobody sleeps who will not be woken.  A thread asleep on event has the flag set and
\* somebody in its way, or the thread that will signal it has begun to; the next writer is
\* asleep while a reader is left, or until the last one has signalled.
NoLostSignal ==
  \A t \in Threads :
    /\ At(t, "sleep") /\ ~Woken(t, "event") =>
         \/ waiters /\ (lock_word <= 0 \/ \E u \in Threads : pc[u] \in {"test_waiters", "reset_waiters"})
         \/ \E u \in Threads : At(u, "signal")
    /\ At(t, "ex_sleep") /\ ~Woken(t, "wait_ex") =>
         lock_word < 0 \/ \E u \in Threads : At(u, "ex_signal")

\* The description in sync0rw.cc, asserted by rw_lock_validate: at or below -X_LOCK_DECR
\* lock_word is a multiple of X_LOCK_DECR, and other values are invalid.
LockWordValid == lock_word > -X_LOCK_DECR \/ (-lock_word) % X_LOCK_DECR = 0

\* A thread that sleeps on an event is woken, without the error monitor's help, and the
\* next writer gets the lock: readers that come after it cannot overtake it.
EveryWaitEnds ==
  \A t \in Threads : (At(t, "sleep") \/ Entering(t)) ~> ~(At(t, "sleep") \/ Entering(t))

-----------------------------------------------------------------------------
(* The inductive invariant behind the safety properties.                   *)

OneOwner ==
  /\ \A t, u \in Threads : x[t] > 0 /\ x[u] > 0 => t = u
  /\ passed => \A t \in Threads : x[t] = 0

ReadersIdle == \A t \in readers : At(t, "idle")

\* Readers are left only while the writer is still entering.
OnlyEntering ==
  /\ \A t \in Threads : XHeld(t) => readers = {}
  /\ passed => readers = {}

\* What a thread knows at each step of its calls.
CallOK(t) ==
  /\ At(t, "s_try") => op[t] = "s"
  /\ At(t, "x_try") => op[t] \in {"x", "pass"}
  /\ pc[t] \in {"reserve", "set_waiters", "sleep"} => op[t] \in {"s", "x", "pass"}
  /\ pc[t] \in {"wait", "ex_reserve", "ex_check", "ex_sleep"} => op[t] \in {"x", "pass"} /\ x[t] = 1
  /\ pc[t] \in {"set_writer", "set_recursive"} =>
       op[t] \in {"x", "pass", "nowait", "move"} /\ x[t] = 1 /\ ~recursive
  /\ At(t, "set_recursive") => writer_thread = t
  /\ pc[t] \in {"read_recursive", "read_writer"} => op[t] \in {"x", "nowait"}
  /\ At(t, "read_writer") => (writer_thread = t => x[t] > 0)
  /\ At(t, "cas") => op[t] = "nowait"
  /\ pc[t] \in {"cas", "read_recursive", "read_writer"} /\ op[t] = "nowait" => x[t] <= 1
  /\ At(t, "incr") => x[t] > 0 /\ (x[t] = 1 => ~recursive)

CallsOK == \A t \in Threads : CallOK(t)

RwInv ==
  /\ Types
  /\ OneOwner
  /\ LockWordCounts
  /\ ReadersIdle
  /\ OnlyEntering
  /\ RecursiveFlagValid
  /\ CallsOK

\* t is in a call that has yet to take its x-lock.
Asking(t) ==
  \/ pc[t] \in {"x_try", "cas", "read_recursive", "read_writer"}
  \/ pc[t] \in {"reserve", "set_waiters", "sleep"} /\ op[t] # "s"

\* The bound on nested x-locks, which with LockWordCounts bounds the lock word.
NestOK(t) == x[t] <= MaxNest /\ (Asking(t) => x[t] < MaxNest)

NestInv == \A t \in Threads : NestOK(t)

-----------------------------------------------------------------------------
(* The inductive invariant behind NoLostSignal.                            *)

Somebody(steps) == \E u \in Threads : pc[u] \in steps

\* A set event has no reserved cell: reserving resets the event, and setting it marks
\* the cells.
NoneReserved == \A t \in Threads, e \in Events : event[e] => cell[t][e] # "reserved"

\* In which calls and at which steps a thread has a cell.
CellOK(t) ==
  /\ At(t, "idle") => op[t] = "none"
  /\ pc[t] \in {"incr", "test_waiters", "reset_waiters", "signal", "ex_signal"} => op[t] = "unlock"
  /\ op[t] \notin {"s", "x", "pass"} => cell[t]["event"] = "free"
  /\ At(t, "sleep") => cell[t]["event"] # "free"
  /\ pc[t] \in {"ex_check", "ex_sleep"} => cell[t]["wait_ex"] # "free"

\* A thread that waits for event has set the flag since, or will be signalled; it has
\* found the lock taken since, and whoever released it then is about to test the flag.
WaitAnnounced(t) ==
  cell[t]["event"] = "reserved" /\ ~At(t, "set_waiters") => waiters \/ Somebody({"signal"})
BlockerLeft(t) ==
  cell[t]["event"] = "reserved" /\ pc[t] \in {"read_recursive", "read_writer", "sleep"} =>
    lock_word <= 0 \/ Somebody({"test_waiters", "reset_waiters", "signal"})

\* The next writer found readers after it had reserved its cell, and the last of them
\* will signal it.
ReaderLeft(t) ==
  At(t, "ex_sleep") /\ cell[t]["wait_ex"] = "reserved" =>
    lock_word < 0 \/ Somebody({"ex_signal"})

SignalInv ==
  /\ NoneReserved
  /\ \A t \in Threads : CellOK(t) /\ WaitAnnounced(t) /\ BlockerLeft(t) /\ ReaderLeft(t)
=============================================================================
