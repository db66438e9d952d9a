----------------------------- MODULE LockWait -----------------------------
(***************************************************************************)
(* A lock wait as the client's OS thread lives it: the lock call returns   *)
(* DB_LOCK_WAIT, the thread stops its query thread (que_thr_stop_client),  *)
(* reserves a slot and sleeps on the slot's event (suspend_user_thread),   *)
(* and whoever ends the wait (a grant, a deadlock victim's choice, the     *)
(* lock timeout thread) wakes it.  Each of these is a critical section of  *)
(* its own, so the end of the wait can come between any two of them.       *)
(*                                                                         *)
(* The module superposes the threads on LockSys: every step of the lock    *)
(* manager is a step of LockSys, together with what end_lock_wait and      *)
(* que_thr_stop do to the query threads; only ResumeWait, one step there,  *)
(* is split up.  WaitImplementsLockSys states that nothing else changed.   *)
(***************************************************************************)
EXTENDS LockSys

CONSTANTS
  Slots,   \* srv_client_table, 0..OS_THREAD_MAX_N-1: the slots of sleeping threads
  NoSlot

ASSUME SlotsAssumption ==
  /\ Slots \subseteq Nat /\ NoSlot \notin Slots
  /\ IsFiniteSet(Slots) /\ Cardinality(Slots) >= Cardinality(Trx)

VARIABLES
  pc,      \* where the OS thread is: in "run", or in a step of its error handling
  thr,     \* thr->state of its query thread
  active,  \* thr->is_active
  slot,    \* the slot reserved by the thread (m_in_use, m_thr)
  event,   \* is the event of a slot set?
  late     \* has the wait lasted longer than its timeout, or been interrupted?

threadVars == <<pc, thr, active, slot, event, late>>
waitVars == <<vars, threadVars>>

InitWait ==
  /\ Init
  /\ pc = [t \in Trx |-> "run"]
  /\ thr = [t \in Trx |-> "COMPLETED"]
  /\ active = [t \in Trx |-> FALSE]
  /\ slot = [t \in Trx |-> NoSlot]
  /\ event = [s \in Slots |-> FALSE]
  /\ late = [t \in Trx |-> FALSE]

-----------------------------------------------------------------------------
(* What a step of the lock manager does to the query threads.              *)

\* The transactions whose wait this step ends.
Ended == {t \in Trx : que[t] = "LOCK_WAIT" /\ que'[t] = "RUNNING"}

\* release_user_thread_if_suspended, for the threads that were not active.
Released == {slot[t] : t \in {u \in Ended : ~active[u]}} \ {NoSlot}

\* The query thread when the lock call of t returns: que_thr_stop has made it wait,
\* an error is still to be handled, or que_thr_stop_for_client_no_error ends it.
AfterCall(t) ==
  IF que'[t] = "LOCK_WAIT" THEN "LOCK_WAIT"
  ELSE IF kernel'.trx = t \/ err'[t] # "SUCCESS" THEN "RUNNING" ELSE "COMPLETED"

\* que_thr_end_wait_no_next_thr for every thread whose wait ends; the caller of a
\* lock call was moved to the running state when the call began.
QueryThreads(caller) ==
  /\ thr' = [t \in Trx |-> IF t \in Ended THEN "RUNNING"
                           ELSE IF t = caller THEN AfterCall(t) ELSE thr[t]]
  /\ active' = [t \in Trx |-> IF t = caller THEN AfterCall(t) # "COMPLETED"
                              ELSE t \in Ended \/ active[t]]
  /\ event' = [s \in Slots |-> s \in Released \/ event[s]]
  /\ pc' = [t \in Trx |-> IF t = caller /\ err'[t] # "SUCCESS" THEN "stop_client" ELSE pc[t]]
  /\ late' = [t \in Trx |-> t # caller /\ late[t]]
  /\ UNCHANGED slot

\* A step of a lock call of t's own thread.
LockCall(t) ==
  /\ pc[t] = "run"
  /\ ClientRequest(t) \/ DeadlockCheck(t)
  /\ QueryThreads(t)

\* Its other calls, which do not use the query thread.
TrxCall(t) ==
  /\ pc[t] = "run"
  /\ TrxStep(t) \/ ReportTimeout(t)
  /\ QueryThreads(NoTrx)

PurgeStep == (\E p \in Pages, k \in Keys : purge_remove(p, k)) /\ QueryThreads(NoTrx)

\* lock_timeout_thread at the slot of t: cancel the wait, if it is still one.
\* (Mutant: the loop over the slots starts at 1.)
lock_timeout_thread_from_one(t) ==
  /\ slot[t] # NoSlot /\ slot[t] # 0 /\ late[t]
  /\ LockTimeout(t)
  /\ QueryThreads(NoTrx)
lock_timeout_thread(t) ==
  /\ slot[t] # NoSlot /\ late[t]
  /\ LockTimeout(t)
  /\ QueryThreads(NoTrx)

-----------------------------------------------------------------------------
(* The steps of the waiting thread.                                        *)

\* The call returned an error, or DB_LOCK_WAIT.  On DB_LOCK_WAIT a thread whose
\* wait has already ended stays active.
\* (Mutant: a waiting query thread stays active.)
que_thr_stop_client_active(t) ==
  /\ kernel = NoCall
  /\ pc[t] = "stop_client"
  /\ pc' = [pc EXCEPT ![t] = IF err[t] = "LOCK_WAIT" THEN "suspend" ELSE "run"]
  /\ UNCHANGED <<vars, thr, active, slot, event, late>>
que_thr_stop_client(t) ==
  /\ kernel = NoCall
  /\ pc[t] = "stop_client"
  /\ \/ /\ thr[t] = "RUNNING" /\ err[t] # "LOCK_WAIT"
        /\ thr' = [thr EXCEPT ![t] = "COMPLETED"]
        /\ active' = [active EXCEPT ![t] = FALSE]
     \/ /\ thr[t] = "RUNNING" /\ err[t] = "LOCK_WAIT"
        /\ UNCHANGED <<thr, active>>
     \/ /\ thr[t] # "RUNNING"
        /\ active' = [active EXCEPT ![t] = FALSE]
        /\ UNCHANGED thr
  /\ pc' = [pc EXCEPT ![t] = IF err[t] = "LOCK_WAIT" THEN "suspend" ELSE "run"]
  /\ UNCHANGED <<vars, slot, event, late>>

\* ib_handle_errors after suspend_user_thread: an error stops the query thread
\* and is handled next, otherwise the operation is retried.
Return(t) == pc' = [pc EXCEPT ![t] = IF err'[t] = "SUCCESS" THEN "run" ELSE "stop_client"]

\* m_was_chosen_as_deadlock_victim becomes the answer of the wait.
Answer(t) ==
  /\ err' = [err EXCEPT ![t] = IF victim[t] THEN "DEADLOCK" ELSE "SUCCESS"]
  /\ victim' = [victim EXCEPT ![t] = FALSE]

\* suspend_user_thread, first critical section: the wait is already over.
SuspendTooLate(t) ==
  /\ kernel = NoCall
  /\ pc[t] = "suspend" /\ thr[t] = "RUNNING"
  /\ Answer(t)
  /\ Return(t)
  /\ UNCHANGED <<locks, rowVars, conc, que, kernel, thr, active, slot, event, late>>

\* srv_table_reserve_slot_for_user_thread: the first slot not in use.
FreeSlot(s) == ~\E t \in Trx : slot[t] = s
\* (Mutant: the event is not reset.)
ReserveSlot_no_reset(t) ==
  \E s \in Slots : /\ FreeSlot(s) /\ \A r \in Slots : FreeSlot(r) => s <= r
                   /\ slot' = [slot EXCEPT ![t] = s]
                   /\ UNCHANGED event
ReserveSlot(t) ==
  \E s \in Slots : /\ FreeSlot(s) /\ \A r \in Slots : FreeSlot(r) => s <= r
                   /\ slot' = [slot EXCEPT ![t] = s]
                   /\ event' = [event EXCEPT ![s] = FALSE]

\* Otherwise it reserves a slot, resets the event and goes to sleep.
\* (Mutant: the state of the query thread is not tested.)
SuspendReserve_untested(t) ==
  /\ kernel = NoCall
  /\ pc[t] = "suspend"
  /\ err' = [err EXCEPT ![t] = "SUCCESS"]
  /\ ReserveSlot(t)
  /\ pc' = [pc EXCEPT ![t] = "os_event_wait"]
  /\ UNCHANGED <<locks, rowVars, conc, que, victim, kernel, thr, active, late>>
SuspendReserve(t) ==
  /\ kernel = NoCall
  /\ pc[t] = "suspend" /\ thr[t] # "RUNNING"
  /\ err' = [err EXCEPT ![t] = "SUCCESS"]
  /\ ReserveSlot(t)
  /\ pc' = [pc EXCEPT ![t] = "os_event_wait"]
  /\ UNCHANGED <<locks, rowVars, conc, que, victim, kernel, thr, active, late>>

\* Second critical section, after os_event_wait: give the slot back.
\* (Mutant: m_was_chosen_as_deadlock_victim is not reset.)
Wake_no_reset(t) ==
  /\ kernel = NoCall
  /\ pc[t] = "os_event_wait" /\ event[slot[t]]
  /\ slot' = [slot EXCEPT ![t] = NoSlot]
  /\ err' = [err EXCEPT ![t] = IF victim[t] THEN "DEADLOCK" ELSE err[t]]
  /\ pc' = [pc EXCEPT ![t] = "test_timeout"]
  /\ UNCHANGED <<locks, rowVars, conc, que, victim, kernel, thr, active, event, late>>
Wake(t) ==
  /\ kernel = NoCall
  /\ pc[t] = "os_event_wait" /\ event[slot[t]]
  /\ slot' = [slot EXCEPT ![t] = NoSlot]
  /\ err' = [err EXCEPT ![t] = IF victim[t] THEN "DEADLOCK" ELSE err[t]]
  /\ victim' = [victim EXCEPT ![t] = FALSE]
  /\ pc' = [pc EXCEPT ![t] = "test_timeout"]
  /\ UNCHANGED <<locks, rowVars, conc, que, kernel, thr, active, event, late>>

\* The last test of suspend_user_thread, without the kernel mutex.
TestTimeout(t) ==
  /\ pc[t] = "test_timeout"
  /\ err' = [err EXCEPT ![t] = IF late[t] THEN "LOCK_WAIT_TIMEOUT" ELSE err[t]]
  /\ Return(t)
  /\ UNCHANGED <<locks, rowVars, conc, que, victim, kernel, thr, active, slot, event, late>>

\* Time passes: the wait of t exceeds innodb_lock_wait_timeout, or its client
\* interrupts it.
Tick(t) ==
  /\ pc[t] \in {"os_event_wait", "test_timeout"} /\ ~late[t]
  /\ late' = [late EXCEPT ![t] = TRUE]
  /\ UNCHANGED <<vars, pc, thr, active, slot, event>>

WaitingThread(t) ==
  \/ que_thr_stop_client(t)
  \/ SuspendTooLate(t)
  \/ SuspendReserve(t)
  \/ Wake(t)
  \/ TestTimeout(t)

NextWait ==
  \/ \E t \in Trx : LockCall(t) \/ TrxCall(t) \/ lock_timeout_thread(t) \/ WaitingThread(t) \/ Tick(t)
  \/ PurgeStep

SpecWait == InitWait /\ [][NextWait]_waitVars

\* A thread inside a call leaves it, time passes, and whoever asks for the kernel
\* mutex again and again while it is let go (the waiting threads, and the timeout
\* thread every second) gets it at last.
Fairness ==
  \A t \in Trx : /\ SF_waitVars(WaitingThread(t))
                 /\ WF_waitVars(kernel.trx = t /\ (LockCall(t) \/ TrxCall(t)))
                 /\ WF_waitVars(Tick(t))
                 /\ SF_waitVars(lock_timeout_thread(t))

FairSpecWait == SpecWait /\ Fairness

-----------------------------------------------------------------------------
(* Properties.                                                             *)

\* No lost wake-up (suspend_user_thread against que_thr_end_wait_no_next_thr): a
\* thread asleep on an event nobody has set belongs to a transaction that still
\* waits for a lock.
NoLostWakeup ==
  \A t \in Trx : (pc[t] = "os_event_wait" /\ ~event[slot[t]]) => que[t] = "LOCK_WAIT"

\* No early wake-up: an event left over from an earlier use of the slot wakes
\* nobody, so a thread past its sleep has its wait behind it.
NoEarlyWakeup ==
  \A t \in Trx : (pc[t] = "test_timeout" \/ (pc[t] = "os_event_wait" /\ event[slot[t]]))
                   => que[t] # "LOCK_WAIT"

\* What que_thr_end_wait_no_next_thr asserts when it is called, and what
\* suspend_user_thread asserts before it sleeps: the query thread of a waiting
\* transaction waits, and is inactive once que_thr_stop_client has run.
QueryThreadsAgree ==
  \A t \in Trx : /\ que[t] = "LOCK_WAIT" <=> thr[t] = "LOCK_WAIT"
                 /\ (pc[t] \in {"suspend", "os_event_wait"} /\ thr[t] = "LOCK_WAIT") => ~active[t]

\* Seen from the lock manager, the whole wait is one ResumeWait: until
\* suspend_user_thread returns its answer is pending.
Pending(t) == err[t] = "LOCK_WAIT" \/ pc[t] \in {"os_event_wait", "test_timeout"}
ErrSeen == [t \in Trx |-> IF Pending(t) THEN "LOCK_WAIT" ELSE err[t]]
VictimSeen == [t \in Trx |-> victim[t] \/ (pc[t] = "test_timeout" /\ err[t] = "DEADLOCK")]
Abs == INSTANCE LockSys WITH err <- ErrSeen, victim <- VictimSeen

\* The steps of the waiting threads (que_thr_stop_client, suspend_user_thread,
\* lock_timeout_thread) implement the lock manager's specification.
WaitImplementsLockSys == Abs!Spec

\* suspend_user_thread returns: under the lock wait timeout every wait ends.
EveryWaitEnds == \A t \in Trx : Pending(t) ~> ~Pending(t)

\* What the declaration of suspend_user_thread says of a transaction that
\* selective deadlock resolution chose as a victim: it gets DB_DEADLOCK, and so
\* stays a victim until it rolls back.
VictimRollsBack ==
  [][\A t \in Trx : (victim[t] \/ err[t] = "DEADLOCK")
       => (victim'[t] \/ err'[t] = "DEADLOCK" \/ que'[t] = "ROLLING_BACK")]_waitVars
-----------------------------------------------------------------------------
(* The inductive invariant behind the wake-ups, in parts; LockWaitsProofs  *)
(* proves it.                                                              *)

ThreadTypes ==
  /\ que \in [Trx -> {"RUNNING", "LOCK_WAIT", "ROLLING_BACK"}]
  /\ err \in [Trx -> {"SUCCESS", "LOCK_WAIT", "DEADLOCK", "LOCK_WAIT_TIMEOUT"}]
  /\ pc \in [Trx -> {"run", "stop_client", "suspend", "os_event_wait", "test_timeout"}]
  /\ thr \in [Trx -> {"RUNNING", "LOCK_WAIT", "COMPLETED"}]
  /\ active \in [Trx -> BOOLEAN]
  /\ slot \in [Trx -> Slots \cup {NoSlot}]
  /\ event \in [Slots -> BOOLEAN]
  /\ late \in [Trx -> BOOLEAN]

\* Who has a slot sleeps, and nobody else has the same slot.
SlotOwners ==
  \A t \in Trx : /\ slot[t] \in Slots <=> pc[t] = "os_event_wait"
                 /\ \A u \in Trx : slot[t] = slot[u] /\ slot[t] \in Slots => t = u

\* The event of a slot is set exactly when the wait of its owner is over.
EventsAgree ==
  \A t \in Trx : pc[t] = "os_event_wait" => (event[slot[t]] <=> que[t] # "LOCK_WAIT")

\* A wait is the thread's own: it is between its lock call and the end of its sleep,
\* the call has answered DB_LOCK_WAIT, and the query thread was not stopped for
\* anything else.
WaitsAreOwn ==
  \A t \in Trx :
    /\ que[t] = "LOCK_WAIT" => pc[t] \in {"stop_client", "suspend", "os_event_wait"}
    /\ (que[t] = "LOCK_WAIT" /\ pc[t] = "stop_client") => err[t] = "LOCK_WAIT"
    /\ (err[t] = "LOCK_WAIT" /\ pc[t] = "stop_client") \/ pc[t] = "suspend" => thr[t] # "COMPLETED"
    /\ pc[t] \in {"os_event_wait", "test_timeout"} => err[t] # "LOCK_WAIT"

ThreadInv == ThreadTypes /\ QueryThreadsAgree /\ SlotOwners /\ EventsAgree /\ WaitsAreOwn

\* The answer of a wait: pending until the thread looks at it, then that of its
\* own deadlock check, of the victim flag or of its timeout.
AnswersAgree ==
  \A t \in Trx :
    /\ pc[t] = "suspend" => err[t] = "LOCK_WAIT"
    /\ pc[t] = "os_event_wait" => err[t] = "SUCCESS"
    /\ pc[t] = "test_timeout" => err[t] \in {"SUCCESS", "DEADLOCK"} /\ ~victim[t]
    /\ pc[t] # "run" => que[t] # "ROLLING_BACK"
    /\ Checking(t) => pc[t] = "run" /\ err[t] = "SUCCESS"
    /\ (pc[t] = "run" => err[t] # "LOCK_WAIT")
=============================================================================
