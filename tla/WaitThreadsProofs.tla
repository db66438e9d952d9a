------------------------- MODULE WaitThreadsProofs -------------------------
(***************************************************************************)
(* The client threads of LockWait, for any number of them: ThreadInv is    *)
(* inductive and gives the wake-ups, what is proved of LockSys holds under *)
(* the threads, and with AnswersAgree every step of a thread is a step of  *)
(* LockSys or one that the lock manager does not see.                      *)
(***************************************************************************)
EXTENDS LockWaitsProofs, LockWait

\* What a step of the lock manager may do to the waits and the answers, c being the
\* transaction whose call it belongs to.
WaitsOnlyEnd(c) ==
  /\ que' \in [Trx -> {"RUNNING", "LOCK_WAIT", "ROLLING_BACK"}]
  /\ err' \in [Trx -> {"SUCCESS", "LOCK_WAIT", "DEADLOCK", "LOCK_WAIT_TIMEOUT"}]
  /\ \A u \in Trx : que[u] = "LOCK_WAIT" => que'[u] \in {"LOCK_WAIT", "RUNNING"}
  /\ \A u \in Trx : que'[u] = "LOCK_WAIT" => que[u] = "LOCK_WAIT" \/ (u = c /\ err'[u] = "LOCK_WAIT")
  /\ \A u \in Trx : u # c => err'[u] = err[u]
  /\ \A u \in Trx : que'[u] = "ROLLING_BACK" /\ que[u] # "ROLLING_BACK" => u = c /\ err'[u] = "SUCCESS"

\* Ending waits is all that end_lock_wait does.
LEMMA EndingWaits ==
  ASSUME ThreadTypes, NEW S, NEW c, que' = end_lock_wait(S), UNCHANGED err
  PROVE  WaitsOnlyEnd(c)
BY DEF ThreadTypes, end_lock_wait, WaitsOnlyEnd

\* The steps that leave the waits and the answers alone.
LEMMA QuietWaitsOnlyEnd ==
  ASSUME ThreadTypes, NEW c, UNCHANGED <<que, err>>
  PROVE  WaitsOnlyEnd(c)
BY DEF ThreadTypes, WaitsOnlyEnd

\* Lock requests end waits at most.
LEMMA RequestsOnlyEnd ==
  ASSUME ThreadTypes, NEW t \in Trx, ClientRequest(t)
  PROVE  WaitsOnlyEnd(t)
<1>1. ASSUME NEW tab, NEW mode, lock_table(t, tab, mode) PROVE UNCHANGED <<que, err>>
  BY <1>1 DEF lock_table, trxVars
<1>2. ASSUME NEW ls, NEW impl, NEW p, NEW req, NEW h, NEW call, rec_lock(ls, impl, t, p, req, h, call)
      PROVE  UNCHANGED <<que, err>>
  BY <1>2 DEF rec_lock, rec_enqueue_waiting, trxVars
<1>3. ASSUME NEW p, NEW h, NEW mode, NEW gap, clust_rec_read_check_and_lock(t, p, h, mode, gap)
      PROVE  UNCHANGED <<que, err>>
  BY <1>2, <1>3, Zenon DEF clust_rec_read_check_and_lock
<1>4. ASSUME NEW p, NEW k, NEW to, clust_rec_modify_check_and_lock(t, p, k, to)
      PROVE  UNCHANGED <<que, err>>
  BY <1>2, <1>4, Zenon DEF clust_rec_modify_check_and_lock
<1>5. ASSUME NEW p, NEW k, rec_insert_check_and_lock(t, p, k) PROVE UNCHANGED <<que, err>>
  BY <1>5 DEF rec_insert_check_and_lock, rec_enqueue_waiting, trxVars
<1>6. ASSUME NEW p, NEW k, NEW mode, rec_unlock(t, p, k, mode) PROVE WaitsOnlyEnd(t)
  <2>1. UNCHANGED err /\ \E S : que' = end_lock_wait(S) BY <1>6, Zenon DEF rec_unlock
  <2> QED BY <2>1, EndingWaits
<1>7. ASSUME UNCHANGED <<que, err>> PROVE WaitsOnlyEnd(t) BY <1>7, QuietWaitsOnlyEnd
<1> QED BY <1>1, <1>3, <1>4, <1>5, <1>6, <1>7, Zenon DEF ClientRequest

\* deadlock_occurs and its caller: only the caller can begin to wait.
LEMMA ChecksOnlyEnd ==
  ASSUME ThreadTypes, NEW t \in Trx, DeadlockCheck(t)
  PROVE  WaitsOnlyEnd(t)
<1>1. ASSUME NotRefused(t) PROVE WaitsOnlyEnd(t)
  <2>1. CASE UNCHANGED trxVars BY <2>1, QuietWaitsOnlyEnd DEF trxVars
  <2>2. CASE que' = [que EXCEPT ![t] = "LOCK_WAIT"] /\ err' = [err EXCEPT ![t] = "LOCK_WAIT"]
    BY <2>2 DEF ThreadTypes, WaitsOnlyEnd
  <2> QED BY <1>1, <2>1, <2>2, Zenon DEF NotRefused
<1>2. ASSUME NEW v, Choose(v) PROVE WaitsOnlyEnd(t)
  <2>1. UNCHANGED err /\ \E S : que' = end_lock_wait(S)
    BY <1>2, Zenon DEF Choose, cancel_waiting_and_release
  <2> QED BY <2>1, EndingWaits
<1>3. ASSUME Refuse(t) PROVE WaitsOnlyEnd(t)
  <2>1. UNCHANGED que /\ err' = [err EXCEPT ![t] = "DEADLOCK"] BY <1>3, Zenon DEF Refuse
  <2> QED BY <2>1 DEF ThreadTypes, WaitsOnlyEnd
<1> QED BY <1>1, <1>2, <1>3, Zenon
    DEF DeadlockCheck, NoDeadlock, VictimIsOther, VictimIsStart, ExceedMaxDepth

\* The removal of a record ends waits at most.
LEMMA DeleteOnlyEnds ==
  ASSUME ThreadTypes, NEW c, NEW p, NEW k, update_delete(p, k), UNCHANGED err
  PROVE  WaitsOnlyEnd(c)
<1>1. \E S : que' = end_lock_wait(S) BY Zenon DEF update_delete
<1> QED BY <1>1, EndingWaits

\* The other calls of a transaction begin no wait.
LEMMA TrxStepsOnlyEnd ==
  ASSUME ThreadTypes, NEW t \in Trx, TrxStep(t) \/ ReportTimeout(t)
  PROVE  WaitsOnlyEnd(t) /\ (que'[t] = "LOCK_WAIT" => que[t] = "LOCK_WAIT")
<1> DEFINE Goal == WaitsOnlyEnd(t) /\ (que'[t] = "LOCK_WAIT" => que[t] = "LOCK_WAIT")
<1>0. ASSUME UNCHANGED <<que, err>> PROVE Goal BY <1>0, QuietWaitsOnlyEnd
<1>00. ASSUME NEW S, que' = end_lock_wait(S), UNCHANGED err PROVE Goal
  BY <1>00, EndingWaits DEF end_lock_wait
<1>1. ASSUME start_low(t) \/ ReleaseEnd(t) \/ ReleaseReenter(t) PROVE Goal
  BY <1>0, <1>1 DEF start_low, ReleaseEnd, ReleaseReenter, trxVars
<1>2. ASSUME RollbackStart(t) PROVE Goal
  BY <1>2 DEF RollbackStart, ThreadTypes, WaitsOnlyEnd
<1>3. ASSUME RollbackRow(t) PROVE Goal
  <2>1. UNCHANGED err /\ (UNCHANGED que \/ \E S : que' = end_lock_wait(S))
    BY <1>3, Zenon DEF RollbackRow, update_delete
  <2> QED BY <1>0, <1>00, <2>1
<1>4. ASSUME commit_off_kernel(t) PROVE Goal
  BY <1>4 DEF commit_off_kernel, ThreadTypes, WaitsOnlyEnd
<1>5. ASSUME release_off_kernel(t) PROVE Goal
  <2>1. UNCHANGED err /\ \E S : que' = end_lock_wait(S) BY <1>5, Zenon DEF release_off_kernel, Dequeue
  <2> QED BY <1>00, <2>1
<1>6. ASSUME ReportTimeout(t) PROVE Goal
  BY <1>6 DEF ReportTimeout, ThreadTypes, WaitsOnlyEnd
<1> HIDE DEF Goal
<1>7. Goal BY <1>1, <1>2, <1>3, <1>4, <1>5, <1>6 DEF TrxStep
<1> QED BY <1>7 DEF Goal

\* The timeout thread and purge begin no wait, and answer nobody.
LEMMA OthersOnlyEnd ==
  ASSUME ThreadTypes,
         (\E t \in Trx : LockTimeout(t)) \/ (\E p \in Pages, k \in Keys : purge_remove(p, k))
  PROVE  WaitsOnlyEnd(NoTrx)
<1>1. ASSUME NEW t \in Trx, LockTimeout(t) PROVE WaitsOnlyEnd(NoTrx)
  <2>1. UNCHANGED err /\ \E S : que' = end_lock_wait(S)
    BY <1>1, Zenon DEF LockTimeout, cancel_waiting_and_release
  <2> QED BY <2>1, EndingWaits
<1>2. ASSUME NEW p, NEW k, purge_remove(p, k) PROVE WaitsOnlyEnd(NoTrx)
  BY <1>2, DeleteOnlyEnds DEF purge_remove
<1> QED BY <1>1, <1>2

-----------------------------------------------------------------------------
(* The threads.                                                            *)

\* A step of the lock manager and what it does to the query threads.  c is the thread
\* inside a lock call, or NoTrx; t the transaction whose step it is.
LEMMA LockManagerStep ==
  ASSUME ThreadInv, NEW t \in Trx \cup {NoTrx}, NEW c \in {t, NoTrx}, WaitsOnlyEnd(t),
         t \in Trx => pc[t] = "run",
         (t \in Trx /\ c # t) => (que'[t] = "LOCK_WAIT" => que[t] = "LOCK_WAIT"),
         QueryThreads(c)
  PROVE  ThreadInv'
<1>0. NoTrx \notin Trx /\ NoSlot \notin Slots BY ConstantsAssumption, SlotsAssumption
<1>1. ThreadTypes /\ QueryThreadsAgree /\ SlotOwners /\ EventsAgree /\ WaitsAreOwn BY DEF ThreadInv
<1>2. \A u \in Trx : u \in Ended <=> que[u] = "LOCK_WAIT" /\ que'[u] = "RUNNING" BY DEF Ended
<1>3. /\ \A u \in Trx : thr'[u] = IF u \in Ended THEN "RUNNING"
                                  ELSE IF u = c THEN AfterCall(u) ELSE thr[u]
      /\ \A u \in Trx : active'[u] = IF u = c THEN AfterCall(u) # "COMPLETED"
                                     ELSE u \in Ended \/ active[u]
      /\ \A s \in Slots : event'[s] = (s \in Released \/ event[s])
      /\ \A u \in Trx : pc'[u] = IF u = c /\ err'[u] # "SUCCESS" THEN "stop_client" ELSE pc[u]
      /\ slot' = slot
  BY DEF QueryThreads
<1>4. ThreadTypes'
  <2>1. \A u \in Trx : AfterCall(u) \in {"RUNNING", "LOCK_WAIT", "COMPLETED"} BY DEF AfterCall
  <2>2. thr' \in [Trx -> {"RUNNING", "LOCK_WAIT", "COMPLETED"}]
    BY <1>1, <2>1 DEF QueryThreads, ThreadTypes
  <2>3. active' \in [Trx -> BOOLEAN] BY <1>1, Zenon DEF QueryThreads, ThreadTypes
  <2>4. event' \in [Slots -> BOOLEAN] BY <1>1, Zenon DEF QueryThreads, ThreadTypes
  <2>5. late' \in [Trx -> BOOLEAN] BY <1>1, Zenon DEF QueryThreads, ThreadTypes
  <2>6. pc' \in [Trx -> {"run", "stop_client", "suspend", "os_event_wait", "test_timeout"}]
    BY <1>1 DEF QueryThreads, ThreadTypes
  <2> QED BY <1>1, <1>3, <2>2, <2>3, <2>4, <2>5, <2>6 DEF ThreadTypes, WaitsOnlyEnd
<1>5. ASSUME NEW u \in Trx, u # c
      PROVE  /\ que'[u] = "LOCK_WAIT" => que[u] = "LOCK_WAIT"
             /\ que[u] = "LOCK_WAIT" => que'[u] = "LOCK_WAIT" \/ u \in Ended
             /\ pc'[u] = pc[u] /\ slot'[u] = slot[u]
             /\ pc[u] # "run" => err'[u] = err[u]
  BY <1>0, <1>2, <1>3, <1>5 DEF WaitsOnlyEnd
<1>6. c \in Trx => /\ c \notin Ended
                   /\ que'[c] = "LOCK_WAIT" <=> AfterCall(c) = "LOCK_WAIT"
                   /\ que'[c] = "LOCK_WAIT" => err'[c] = "LOCK_WAIT" /\ pc'[c] = "stop_client"
                   /\ pc'[c] \in {"run", "stop_client"}
                   /\ err'[c] = "LOCK_WAIT" => AfterCall(c) # "COMPLETED"
                   /\ thr'[c] = AfterCall(c)
                   /\ pc[c] = "run"
  <2> SUFFICES ASSUME c \in Trx PROVE c \notin Ended /\ (que'[c] = "LOCK_WAIT" => err'[c] = "LOCK_WAIT")
                                      /\ pc[c] = "run"
    BY <1>3 DEF AfterCall
  <2>1. pc[c] = "run" /\ c = t BY <1>0
  <2>2. que[c] # "LOCK_WAIT" BY <1>1, <2>1 DEF WaitsAreOwn
  <2> QED BY <1>2, <2>1, <2>2 DEF WaitsOnlyEnd
<1>7. QueryThreadsAgree'
  <2> SUFFICES ASSUME NEW u \in Trx
               PROVE  /\ que'[u] = "LOCK_WAIT" <=> thr'[u] = "LOCK_WAIT"
                      /\ (pc'[u] \in {"suspend", "os_event_wait"} /\ thr'[u] = "LOCK_WAIT") => ~active'[u]
    BY DEF QueryThreadsAgree
  <2>1. CASE u = c BY <1>6, <2>1
  <2>2. CASE u # c
    <3>1. que'[u] = "LOCK_WAIT" <=> thr'[u] = "LOCK_WAIT"
      BY <1>1, <1>2, <1>3, <1>5, <2>2 DEF QueryThreadsAgree
    <3>2. ASSUME pc'[u] \in {"suspend", "os_event_wait"}, thr'[u] = "LOCK_WAIT" PROVE ~active'[u]
      <4>1. u \notin Ended /\ pc'[u] = pc[u] /\ thr[u] = "LOCK_WAIT" BY <1>3, <1>5, <2>2, <3>2
      <4>2. ~active[u] BY <1>1, <3>2, <4>1 DEF QueryThreadsAgree
      <4> QED BY <1>3, <2>2, <4>1, <4>2
    <3> QED BY <3>1, <3>2
  <2> QED BY <2>1, <2>2
<1>8. SlotOwners'
  BY <1>1, <1>3, <1>5, <1>6 DEF SlotOwners
<1>9. EventsAgree'
  <2> SUFFICES ASSUME NEW u \in Trx, pc'[u] = "os_event_wait"
               PROVE  event'[slot'[u]] <=> que'[u] # "LOCK_WAIT"
    BY DEF EventsAgree
  <2>1. u # c /\ pc[u] = "os_event_wait" /\ slot'[u] = slot[u] /\ slot[u] \in Slots
    BY <1>1, <1>5, <1>6 DEF SlotOwners
  <2>2. event[slot[u]] <=> que[u] # "LOCK_WAIT" BY <1>1, <2>1 DEF EventsAgree
  <2>3. event'[slot[u]] <=> slot[u] \in Released \/ event[slot[u]] BY <1>3, <2>1
  <2>4. slot[u] \in Released <=> u \in Ended /\ ~active[u]
    BY <1>0, <1>1, <1>2, <2>1 DEF Released, Ended, SlotOwners
  <2>5. que[u] = "LOCK_WAIT" => ~active[u] BY <1>1, <2>1 DEF QueryThreadsAgree
  <2> QED BY <1>2, <1>5, <2>1, <2>2, <2>3, <2>4, <2>5
<1>10. WaitsAreOwn'
  <2> SUFFICES ASSUME NEW u \in Trx
        PROVE  /\ que'[u] = "LOCK_WAIT" => pc'[u] \in {"stop_client", "suspend", "os_event_wait"}
               /\ (que'[u] = "LOCK_WAIT" /\ pc'[u] = "stop_client") => err'[u] = "LOCK_WAIT"
               /\ (err'[u] = "LOCK_WAIT" /\ pc'[u] = "stop_client") \/ pc'[u] = "suspend"
                    => thr'[u] # "COMPLETED"
               /\ pc'[u] \in {"os_event_wait", "test_timeout"} => err'[u] # "LOCK_WAIT"
    BY DEF WaitsAreOwn
  <2>1. CASE u = c BY <1>6, <2>1
  <2>2. CASE u # c
    BY <1>1, <1>3, <1>5, <2>2 DEF WaitsAreOwn
  <2> QED BY <2>1, <2>2
<1> QED BY <1>4, <1>7, <1>8, <1>9, <1>10 DEF ThreadInv

\* A step of the waiting thread itself.
LEMMA WaitingThreadStep ==
  ASSUME ThreadInv, NEW t \in Trx, WaitingThread(t) \/ Tick(t)
  PROVE  ThreadInv'
<1>0. NoSlot \notin Slots BY SlotsAssumption
<1>1. ThreadTypes /\ QueryThreadsAgree /\ SlotOwners /\ EventsAgree /\ WaitsAreOwn BY DEF ThreadInv
<1>2. ASSUME que_thr_stop_client(t) PROVE ThreadInv'
  <2>1. UNCHANGED <<que, err, slot, event, late>> /\ pc[t] = "stop_client"
    BY <1>2, Zenon DEF que_thr_stop_client, vars
  <2>2. pc' = [pc EXCEPT ![t] = IF err[t] = "LOCK_WAIT" THEN "suspend" ELSE "run"]
    BY <1>2 DEF que_thr_stop_client
  <2>3. \/ /\ thr[t] = "RUNNING" /\ err[t] # "LOCK_WAIT"
           /\ thr' = [thr EXCEPT ![t] = "COMPLETED"]
           /\ active' = [active EXCEPT ![t] = FALSE]
        \/ /\ thr[t] = "RUNNING" /\ err[t] = "LOCK_WAIT"
           /\ thr' = thr /\ active' = active
        \/ /\ thr[t] # "RUNNING"
           /\ thr' = thr /\ active' = [active EXCEPT ![t] = FALSE]
    BY <1>2 DEF que_thr_stop_client
  <2>4. ThreadTypes' BY <1>1, <2>1, <2>2, <2>3 DEF ThreadTypes
  <2>5. QueryThreadsAgree' BY <1>1, <2>1, <2>2, <2>3 DEF ThreadTypes, QueryThreadsAgree, WaitsAreOwn
  <2>6. SlotOwners' BY <1>1, <2>1, <2>2 DEF ThreadTypes, SlotOwners
  <2>7. EventsAgree' BY <1>1, <2>1, <2>2 DEF ThreadTypes, EventsAgree
  <2>8. WaitsAreOwn' BY <1>1, <2>1, <2>2, <2>3 DEF ThreadTypes, QueryThreadsAgree, WaitsAreOwn
  <2> QED BY <2>4, <2>5, <2>6, <2>7, <2>8 DEF ThreadInv
<1>3. ASSUME SuspendTooLate(t) \/ TestTimeout(t) PROVE ThreadInv'
  <2>1. /\ UNCHANGED <<que, thr, active, slot, event, late>>
        /\ pc[t] \in {"suspend", "test_timeout"} /\ que[t] # "LOCK_WAIT"
    BY <1>1, <1>3 DEF SuspendTooLate, TestTimeout, QueryThreadsAgree, WaitsAreOwn
  <2>2. /\ err' \in [Trx -> {"SUCCESS", "LOCK_WAIT", "DEADLOCK", "LOCK_WAIT_TIMEOUT"}]
        /\ err'[t] # "LOCK_WAIT" /\ \A u \in Trx : u # t => err'[u] = err[u]
    BY <1>1, <1>3 DEF SuspendTooLate, TestTimeout, Answer, ThreadTypes, WaitsAreOwn
  <2>3. pc' = [pc EXCEPT ![t] = IF err'[t] = "SUCCESS" THEN "run" ELSE "stop_client"]
    BY <1>3 DEF SuspendTooLate, TestTimeout, Return
  <2>4. ThreadTypes' BY <1>1, <2>1, <2>2, <2>3 DEF ThreadTypes
  <2>5. QueryThreadsAgree' BY <1>1, <2>1, <2>3 DEF ThreadTypes, QueryThreadsAgree
  <2>6. SlotOwners' BY <1>1, <2>1, <2>3 DEF ThreadTypes, SlotOwners
  <2>7. EventsAgree' BY <1>1, <2>1, <2>3 DEF ThreadTypes, EventsAgree
  <2>8. WaitsAreOwn' BY <1>1, <2>1, <2>2, <2>3 DEF ThreadTypes, WaitsAreOwn
  <2> QED BY <2>4, <2>5, <2>6, <2>7, <2>8 DEF ThreadInv
<1>4. ASSUME SuspendReserve(t) PROVE ThreadInv'
  <2>1. UNCHANGED <<que, thr, active, late>> /\ pc[t] = "suspend" /\ thr[t] # "RUNNING"
    BY <1>4 DEF SuspendReserve
  <2>2. err' = [err EXCEPT ![t] = "SUCCESS"] /\ pc' = [pc EXCEPT ![t] = "os_event_wait"]
    BY <1>4 DEF SuspendReserve
  <2>3. PICK s \in Slots : /\ \A u \in Trx : slot[u] # s
                           /\ slot' = [slot EXCEPT ![t] = s]
                           /\ event' = [event EXCEPT ![s] = FALSE]
    BY <1>4 DEF SuspendReserve, ReserveSlot, FreeSlot
  <2>4. ThreadTypes' BY <1>1, <2>1, <2>2, <2>3 DEF ThreadTypes
  <2>5. QueryThreadsAgree' BY <1>1, <2>1, <2>2 DEF ThreadTypes, QueryThreadsAgree
  <2>6. SlotOwners' BY <1>1, <2>1, <2>2, <2>3 DEF ThreadTypes, SlotOwners
  <2>7. que[t] = "LOCK_WAIT" BY <1>1, <2>1 DEF ThreadTypes, QueryThreadsAgree, WaitsAreOwn
  <2>8. EventsAgree'
    <3> SUFFICES ASSUME NEW u \in Trx, pc'[u] = "os_event_wait"
                 PROVE  event'[slot'[u]] <=> que[u] # "LOCK_WAIT"
      BY <2>1 DEF EventsAgree
    <3>1. CASE u = t BY <1>1, <2>3, <2>7, <3>1 DEF ThreadTypes
    <3>2. CASE u # t
      <4>1. pc[u] = "os_event_wait" /\ slot'[u] = slot[u] /\ slot[u] # s
        BY <1>1, <2>2, <2>3, <3>2 DEF ThreadTypes
      <4>2. event'[slot[u]] = event[slot[u]]
        BY <1>1, <2>3, <4>1 DEF ThreadTypes, SlotOwners
      <4> QED BY <1>1, <4>1, <4>2 DEF EventsAgree
    <3> QED BY <3>1, <3>2
  <2>9. WaitsAreOwn' BY <1>1, <2>1, <2>2 DEF ThreadTypes, WaitsAreOwn
  <2> QED BY <2>4, <2>5, <2>6, <2>8, <2>9 DEF ThreadInv
<1>5. ASSUME Wake(t) PROVE ThreadInv'
  <2>1. /\ UNCHANGED <<que, thr, active, event, late>> /\ pc[t] = "os_event_wait" /\ event[slot[t]]
        /\ slot' = [slot EXCEPT ![t] = NoSlot] /\ pc' = [pc EXCEPT ![t] = "test_timeout"]
        /\ err' = [err EXCEPT ![t] = IF victim[t] THEN "DEADLOCK" ELSE err[t]]
    BY <1>5 DEF Wake
  <2>2. que[t] # "LOCK_WAIT" BY <1>1, <2>1 DEF EventsAgree
  <2>4. ThreadTypes' BY <1>1, <2>1 DEF ThreadTypes
  <2>5. QueryThreadsAgree' BY <1>1, <2>1 DEF ThreadTypes, QueryThreadsAgree
  <2>6. SlotOwners' BY <1>0, <1>1, <2>1 DEF ThreadTypes, SlotOwners
  <2>7. EventsAgree' BY <1>1, <2>1 DEF ThreadTypes, EventsAgree
  <2>8. WaitsAreOwn' BY <1>1, <2>1, <2>2 DEF ThreadTypes, WaitsAreOwn
  <2> QED BY <2>4, <2>5, <2>6, <2>7, <2>8 DEF ThreadInv
<1>6. ASSUME Tick(t) PROVE ThreadInv'
  <2>1. UNCHANGED <<que, err, pc, thr, active, slot, event>> /\ late' = [late EXCEPT ![t] = TRUE]
    BY <1>6 DEF Tick, vars
  <2> QED BY <1>1, <2>1
    DEF ThreadInv, ThreadTypes, QueryThreadsAgree, SlotOwners, EventsAgree, WaitsAreOwn
<1> QED BY <1>2, <1>3, <1>4, <1>5, <1>6 DEF WaitingThread

\* The threads at the start.
LEMMA ThreadInvInit == InitWait => ThreadInv
<1> SUFFICES ASSUME InitWait PROVE ThreadInv OBVIOUS
<1>0. NoSlot \notin Slots BY SlotsAssumption
<1>1. ThreadTypes BY <1>0 DEF InitWait, Init, ThreadTypes
<1>2. QueryThreadsAgree BY DEF InitWait, Init, QueryThreadsAgree
<1>3. SlotOwners BY <1>0 DEF InitWait, SlotOwners
<1>4. EventsAgree BY DEF InitWait, EventsAgree
<1>5. WaitsAreOwn BY DEF InitWait, Init, WaitsAreOwn
<1> QED BY <1>1, <1>2, <1>3, <1>4, <1>5 DEF ThreadInv

\* Every step of the threads and of the lock manager under them.
LEMMA ThreadInvStep == ThreadInv /\ [NextWait]_waitVars => ThreadInv'
<1> SUFFICES ASSUME ThreadInv, [NextWait]_waitVars PROVE ThreadInv' OBVIOUS
<1>0. ThreadTypes BY DEF ThreadInv
<1>1. ASSUME NEW t \in Trx, LockCall(t) PROVE ThreadInv'
  <2>1. WaitsOnlyEnd(t) BY <1>0, <1>1, RequestsOnlyEnd, ChecksOnlyEnd DEF LockCall
  <2>2. pc[t] = "run" /\ QueryThreads(t) BY <1>1 DEF LockCall
  <2> QED BY <2>1, <2>2, LockManagerStep
<1>2. ASSUME NEW t \in Trx, TrxCall(t) PROVE ThreadInv'
  <2>1. WaitsOnlyEnd(t) /\ (que'[t] = "LOCK_WAIT" => que[t] = "LOCK_WAIT")
    BY <1>0, <1>2, TrxStepsOnlyEnd DEF TrxCall
  <2>2. pc[t] = "run" /\ QueryThreads(NoTrx) BY <1>2 DEF TrxCall
  <2> QED BY <2>1, <2>2, LockManagerStep
<1>3. ASSUME (\E t \in Trx : lock_timeout_thread(t)) \/ PurgeStep PROVE ThreadInv'
  <2>1. WaitsOnlyEnd(NoTrx) BY <1>0, <1>3, OthersOnlyEnd DEF lock_timeout_thread, PurgeStep
  <2>2. QueryThreads(NoTrx) BY <1>3 DEF lock_timeout_thread, PurgeStep
  <2> QED BY <2>1, <2>2, LockManagerStep, ConstantsAssumption
<1>4. ASSUME UNCHANGED waitVars PROVE ThreadInv'
  <2>1. UNCHANGED <<que, err, pc, thr, active, slot, event, late>>
    BY <1>4 DEF waitVars, threadVars, vars
  <2> QED BY <2>1
    DEF ThreadInv, ThreadTypes, QueryThreadsAgree, SlotOwners, EventsAgree, WaitsAreOwn
<1> QED BY <1>1, <1>2, <1>3, <1>4, WaitingThreadStep DEF NextWait

\* The invariant of the waiting threads, for any number of clients and slots.
THEOREM ThreadInvariant == SpecWait => []ThreadInv
BY ThreadInvInit, ThreadInvStep, PTL DEF SpecWait

\* No lost wake-up: que_thr_end_wait_no_next_thr and release_user_thread_if_suspended set
\* the event of every thread that sleeps, wherever between que_thr_stop and os_event_wait
\* the end of its wait finds it.
THEOREM NoWakeupIsLost == SpecWait => []NoLostWakeup
<1>1. ThreadInv => NoLostWakeup BY DEF ThreadInv, EventsAgree, NoLostWakeup
<1> QED BY <1>1, ThreadInvariant, PTL

\* No early wake-up: a slot's event set for its former owner wakes nobody.
THEOREM NoWakeupIsEarly == SpecWait => []NoEarlyWakeup
<1>1. ThreadInv => NoEarlyWakeup BY DEF ThreadInv, EventsAgree, WaitsAreOwn, NoEarlyWakeup
<1> QED BY <1>1, ThreadInvariant, PTL

\* The assertions of que_thr_end_wait_no_next_thr and suspend_user_thread hold.
THEOREM ThreadStatesAgree == SpecWait => []QueryThreadsAgree
<1>1. ThreadInv => QueryThreadsAgree BY DEF ThreadInv
<1> QED BY <1>1, ThreadInvariant, PTL

-----------------------------------------------------------------------------
(* The lock manager as the threads' answers show it.  Of all that LockSys  *)
(* defines only the actions read err and victim: the operators on queues   *)
(* and records are the same in the instance Abs.                           *)

\* Modes, requests and the wait rule.
LEMMA SameModes ==
  /\ \A a, b : Abs!mode_compatible(a, b) = mode_compatible(a, b)
  /\ \A a, b : Abs!mode_stronger_or_eq(a, b) = mode_stronger_or_eq(a, b)
  /\ \A a, b, c : Abs!Request(a, b, c) = Request(a, b, c)
  /\ \A lock, t, req, h : Abs!rec_blocks(lock, t, req, h) = rec_blocks(lock, t, req, h)
  /\ \A lock, ahead : Abs!has_to_wait_for(lock, ahead) = has_to_wait_for(lock, ahead)
<1>1. \A a, b : Abs!mode_compatible(a, b) = mode_compatible(a, b)
  BY DEF mode_compatible, Abs!mode_compatible, Lock_compatibility_matrix, Abs!Lock_compatibility_matrix
<1>2. \A a, b : Abs!mode_stronger_or_eq(a, b) = mode_stronger_or_eq(a, b)
  BY DEF mode_stronger_or_eq, Abs!mode_stronger_or_eq, Lock_strength_matrix, Abs!Lock_strength_matrix
<1>3. \A a, b, c : Abs!Request(a, b, c) = Request(a, b, c) BY DEF Request, Abs!Request
<1>4. \A lock, t, req, h : Abs!rec_blocks(lock, t, req, h) = rec_blocks(lock, t, req, h)
  BY <1>1 DEF rec_blocks, Abs!rec_blocks, PAGE_HEAP_NO_SUPREMUM, Abs!PAGE_HEAP_NO_SUPREMUM
<1>5. \A lock, ahead : Abs!has_to_wait_for(lock, ahead) = has_to_wait_for(lock, ahead)
  BY <1>1, <1>4 DEF has_to_wait_for, Abs!has_to_wait_for
<1> QED BY <1>1, <1>2, <1>3, <1>4, <1>5

\* Numbers, the heap numbers of a page, and calls.
LEMMA SameCounts ==
  /\ \A S : Abs!Cardinality(S) = Cardinality(S)
  /\ Abs!Keys = Keys /\ Abs!HeapNos = HeapNos
  /\ Abs!PAGE_HEAP_NO_SUPREMUM = PAGE_HEAP_NO_SUPREMUM
  /\ Abs!PAGE_HEAP_NO_INFIMUM = PAGE_HEAP_NO_INFIMUM
  /\ \A a, b, c, d, e, f : Abs!Call(a, b, c, d, e, f) = Call(a, b, c, d, e, f)
  /\ Abs!NoCall = NoCall
BY DEF Cardinality, Abs!Cardinality, Keys, Abs!Keys, HeapNos, Abs!HeapNos, PAGE_HEAP_NO_SUPREMUM,
       Abs!PAGE_HEAP_NO_SUPREMUM, PAGE_HEAP_NO_INFIMUM, Abs!PAGE_HEAP_NO_INFIMUM, Call, Abs!Call,
       NoCall, Abs!NoCall

\* What looks at the queues.
LEMMA SameLooks ==
  /\ \A lock, p, h : Abs!OnRec(lock, p, h) = OnRec(lock, p, h)
  /\ \A p : Abs!Present(p) = Present(p)
  /\ \A p, k : Abs!NextRec(p, k) = NextRec(p, k)
  /\ \A ls, t, tab, mode : Abs!table_has(ls, t, tab, mode) = table_has(ls, t, tab, mode)
  /\ \A ls, t, tab, mode :
       Abs!table_other_has_incompatible(ls, t, tab, mode) = table_other_has_incompatible(ls, t, tab, mode)
  /\ \A ls, p, req, h, t : Abs!rec_has_expl(ls, p, req, h, t) = rec_has_expl(ls, p, req, h, t)
  /\ \A ls, p, req, h, t :
       Abs!rec_other_has_conflicting(ls, p, req, h, t) = rec_other_has_conflicting(ls, p, req, h, t)
  /\ \A p, k : Abs!clust_rec_some_has_impl(p, k) = clust_rec_some_has_impl(p, k)
  /\ \A ls, i : Abs!has_to_wait_in_queue(ls, i) = has_to_wait_in_queue(ls, i)
  /\ \A ls, t : Abs!IsWaiting(ls, t) = IsWaiting(ls, t)
<1>1. \A lock, p, h : Abs!OnRec(lock, p, h) = OnRec(lock, p, h) BY DEF OnRec, Abs!OnRec
<1>2. \A p : Abs!Present(p) = Present(p) BY DEF Present, Abs!Present, Keys, Abs!Keys
<1>3. \A p, k : Abs!NextRec(p, k) = NextRec(p, k)
  BY Zenon DEF NextRec, Abs!NextRec, PAGE_HEAP_NO_SUPREMUM, Abs!PAGE_HEAP_NO_SUPREMUM,
       Present, Abs!Present, Keys, Abs!Keys
<1>4. \A ls, t, tab, mode : Abs!table_has(ls, t, tab, mode) = table_has(ls, t, tab, mode)
  BY SameModes DEF table_has, Abs!table_has
<1>5. \A ls, t, tab, mode :
       Abs!table_other_has_incompatible(ls, t, tab, mode) = table_other_has_incompatible(ls, t, tab, mode)
  BY SameModes DEF table_other_has_incompatible, Abs!table_other_has_incompatible
<1>6. \A ls, p, req, h, t : Abs!rec_has_expl(ls, p, req, h, t) = rec_has_expl(ls, p, req, h, t)
  BY <1>1, SameModes, SameCounts DEF rec_has_expl, Abs!rec_has_expl
<1>7. \A ls, p, req, h, t :
       Abs!rec_other_has_conflicting(ls, p, req, h, t) = rec_other_has_conflicting(ls, p, req, h, t)
  BY <1>1, SameModes DEF rec_other_has_conflicting, Abs!rec_other_has_conflicting
<1>8. \A p, k : Abs!clust_rec_some_has_impl(p, k) = clust_rec_some_has_impl(p, k)
  BY DEF clust_rec_some_has_impl, Abs!clust_rec_some_has_impl
<1>9. \A ls, i : Abs!has_to_wait_in_queue(ls, i) = has_to_wait_in_queue(ls, i)
  BY SameModes DEF has_to_wait_in_queue, Abs!has_to_wait_in_queue
<1>10. \A ls, t : Abs!IsWaiting(ls, t) = IsWaiting(ls, t) BY DEF IsWaiting, Abs!IsWaiting
<1> QED BY <1>1, <1>2, <1>3, <1>4, <1>5, <1>6, <1>7, <1>8, <1>9, <1>10

\* What adds to the queues.
LEMMA SameChanges ==
  /\ \A ls, t, tab, mode, wait : Abs!table_create(ls, t, tab, mode, wait) = table_create(ls, t, tab, mode, wait)
  /\ \A t, p, req, h, wait : Abs!NewRecLock(t, p, req, h, wait) = NewRecLock(t, p, req, h, wait)
  /\ \A ls, t, p, req, h, wait :
       Abs!rec_create_low(ls, t, p, req, h, wait) = rec_create_low(ls, t, p, req, h, wait)
  /\ \A ls, t, p, req, h :
       Abs!rec_find_similar_on_page(ls, t, p, req, h) = rec_find_similar_on_page(ls, t, p, req, h)
  /\ \A ls, p, h : Abs!RecHasWaiter(ls, p, h) = RecHasWaiter(ls, p, h)
  /\ \A ls, i, h : Abs!SetBit(ls, i, h) = SetBit(ls, i, h)
  /\ \A ls, t, p, req, h : Abs!rec_add_to_queue(ls, t, p, req, h) = rec_add_to_queue(ls, t, p, req, h)
  /\ \A ls, p, k : Abs!rec_convert_impl_to_expl(ls, p, k) = rec_convert_impl_to_expl(ls, p, k)
<1>1. \A ls, t, tab, mode, wait : Abs!table_create(ls, t, tab, mode, wait) = table_create(ls, t, tab, mode, wait)
  BY DEF table_create, Abs!table_create
<1>2. \A req, h : Abs!StoredGap(req, h) = StoredGap(req, h)
  BY SameCounts DEF StoredGap, Abs!StoredGap
<1>3. \A t, p, req, h, wait : Abs!NewRecLock(t, p, req, h, wait) = NewRecLock(t, p, req, h, wait)
  BY <1>2 DEF NewRecLock, Abs!NewRecLock
<1>4. \A ls, t, p, req, h, wait :
       Abs!rec_create_low(ls, t, p, req, h, wait) = rec_create_low(ls, t, p, req, h, wait)
  BY <1>3 DEF rec_create_low, Abs!rec_create_low
<1>5. \A ls, t, p, req, h : Abs!Similar(ls, t, p, req, h) = Similar(ls, t, p, req, h)
  BY <1>2 DEF Similar, Abs!Similar
<1>6. \A ls, t, p, req, h :
       Abs!rec_find_similar_on_page(ls, t, p, req, h) = rec_find_similar_on_page(ls, t, p, req, h)
  BY <1>5 DEF rec_find_similar_on_page, Abs!rec_find_similar_on_page
<1>7. \A ls, p, h : Abs!RecHasWaiter(ls, p, h) = RecHasWaiter(ls, p, h)
  BY SameLooks DEF RecHasWaiter, Abs!RecHasWaiter
<1>8. \A ls, i, h : Abs!SetBit(ls, i, h) = SetBit(ls, i, h) BY DEF SetBit, Abs!SetBit
<1>9. \A ls, t, p, req, h : Abs!rec_add_to_queue(ls, t, p, req, h) = rec_add_to_queue(ls, t, p, req, h)
  <2> TAKE ls, t, p, req, h
  <2>1. \A S, T : S = T => (CHOOSE i \in S : TRUE) = (CHOOSE i \in T : TRUE) OBVIOUS
  <2> DEFINE i == CHOOSE x \in rec_find_similar_on_page(ls, t, p, req, h) : TRUE
             j == CHOOSE x \in Abs!rec_find_similar_on_page(ls, t, p, req, h) : TRUE
  <2>2. i = j BY <1>6, <2>1
  <2>3. Abs!SetBit(ls, j, h) = SetBit(ls, i, h) BY <1>8, <2>2, Zenon
  <2> QED BY <1>4, <1>6, <1>7, <2>3 DEF rec_add_to_queue, Abs!rec_add_to_queue
<1>10. \A ls, p, k : Abs!rec_convert_impl_to_expl(ls, p, k) = rec_convert_impl_to_expl(ls, p, k)
  <2> TAKE ls, p, k
  <2>1. \A S, T : S = T => (CHOOSE i \in S : TRUE) = (CHOOSE i \in T : TRUE) OBVIOUS
  <2> DEFINE r == Request("X", "REC_NOT_GAP", FALSE)
             a == CHOOSE o \in clust_rec_some_has_impl(p, k) : TRUE
             b == CHOOSE o \in Abs!clust_rec_some_has_impl(p, k) : TRUE
  <2>2. a = b BY <2>1, SameLooks
  <2>3. Abs!Request("X", "REC_NOT_GAP", FALSE) = r BY SameModes
  <2>4. Abs!rec_add_to_queue(ls, b, p, Abs!Request("X", "REC_NOT_GAP", FALSE), k) = rec_add_to_queue(ls, a, p, r, k)
    BY <1>9, <2>2, <2>3, Zenon
  <2>5. Abs!clust_rec_some_has_impl(p, k) = clust_rec_some_has_impl(p, k) BY SameLooks
  <2>6. \A o : Abs!rec_has_expl(ls, p, Abs!Request("X", "REC_NOT_GAP", FALSE), k, o) = rec_has_expl(ls, p, r, k, o)
    BY <2>3, SameLooks, Zenon
  <2> HIDE DEF r
  <2> QED BY <2>3, <2>4, <2>5, <2>6 DEF rec_convert_impl_to_expl, Abs!rec_convert_impl_to_expl, r
<1> QED BY <1>1, <1>3, <1>4, <1>6, <1>7, <1>8, <1>9, <1>10

\* What takes a struct away and grants others.
LEMMA SameGrants ==
  /\ \A ls, i : Abs!Remove(ls, i) = Remove(ls, i)
  /\ \A ls, i : Abs!Revisited(ls, i) = Revisited(ls, i)
  /\ \A ls, who : Abs!Grant(ls, who) = Grant(ls, who)
  /\ \A ls, who : Abs!Granted(ls, who) = Granted(ls, who)
  /\ \A S : Abs!end_lock_wait(S) = end_lock_wait(S)
<1>1. \A ls, i : Abs!Remove(ls, i) = Remove(ls, i) BY DEF Abs!Remove, Remove
<1>2. \A ls, i : Abs!Revisited(ls, i) = Revisited(ls, i) BY <1>1 DEF Abs!Revisited, Revisited
<1>3. \A ls, who : Abs!Grantable(ls, who) = Grantable(ls, who)
  BY SameLooks DEF Grantable, Abs!Grantable
<1>4. \A ls, who : Abs!Grant(ls, who) = Grant(ls, who) BY <1>3 DEF Grant, Abs!Grant
<1>5. \A ls, who : Abs!Granted(ls, who) = Granted(ls, who) BY <1>3 DEF Granted, Abs!Granted
<1>6. \A S : Abs!end_lock_wait(S) = end_lock_wait(S) BY DEF Abs!end_lock_wait, end_lock_wait
<1> QED BY <1>1, <1>2, <1>4, <1>5, <1>6

\* The inheritance of gap locks.
LEMMA SameInherits ==
  /\ \A ls, Q, p, heir : Abs!InheritTo(ls, Q, p, heir) = InheritTo(ls, Q, p, heir)
  /\ \A ls, p, heir, h : Abs!rec_inherit_to_gap(ls, p, heir, h) = rec_inherit_to_gap(ls, p, heir, h)
  /\ \A ls, p, heir, h :
       Abs!rec_inherit_to_gap_if_gap_lock(ls, p, heir, h) = rec_inherit_to_gap_if_gap_lock(ls, p, heir, h)
<1>1. \A N : Abs!Orders(N) = Orders(N) BY SameCounts DEF Orders, Abs!Orders
<1>2. \A lock : Abs!GapRequest(lock) = GapRequest(lock) BY SameModes DEF GapRequest, Abs!GapRequest
<1>3. \A ls, Q, p, heir : Abs!InheritTo(ls, Q, p, heir) = InheritTo(ls, Q, p, heir)
  <2> TAKE ls, Q, p, heir
  <2> DEFINE similar(i) == rec_find_similar_on_page(ls, ls[i].trx, p, GapRequest(ls[i]), heir)
             reused == IF RecHasWaiter(ls, p, heir) THEN {} ELSE UNION {similar(i) : i \in Q}
             fresh == IF RecHasWaiter(ls, p, heir) THEN Q
               ELSE {i \in Q : similar(i) = {} /\ ~\E j \in Q :
                                 j < i /\ ls[j].trx = ls[i].trx /\ ls[j].mode = ls[i].mode}
             old == [i \in DOMAIN ls |->
                IF i \in reused THEN [ls[i] EXCEPT !.bits = @ \cup {heir}] ELSE ls[i]]
             new(f) == [m \in DOMAIN f |->
                 NewRecLock(ls[f[m]].trx, p, GapRequest(ls[f[m]]), heir, FALSE)]
             similarA(i) == Abs!rec_find_similar_on_page(ls, ls[i].trx, p, Abs!GapRequest(ls[i]), heir)
             reusedA == IF Abs!RecHasWaiter(ls, p, heir) THEN {} ELSE UNION {similarA(i) : i \in Q}
             freshA == IF Abs!RecHasWaiter(ls, p, heir) THEN Q
               ELSE {i \in Q : similarA(i) = {} /\ ~\E j \in Q :
                                 j < i /\ ls[j].trx = ls[i].trx /\ ls[j].mode = ls[i].mode}
             oldA == [i \in DOMAIN ls |->
                IF i \in reusedA THEN [ls[i] EXCEPT !.bits = @ \cup {heir}] ELSE ls[i]]
             newA(f) == [m \in DOMAIN f |->
                 Abs!NewRecLock(ls[f[m]].trx, p, Abs!GapRequest(ls[f[m]]), heir, FALSE)]
  <2>1. \A i : similarA(i) = similar(i) BY <1>2, SameChanges, Zenon
  <2>2. Abs!RecHasWaiter(ls, p, heir) = RecHasWaiter(ls, p, heir) BY SameChanges
  <2> HIDE DEF similar, similarA
  <2>3. {similarA(i) : i \in Q} = {similar(i) : i \in Q} BY <2>1
  <2>4. reusedA = reused BY <2>2, <2>3
  <2>5. freshA = fresh BY <2>1, <2>2
  <2> HIDE DEF reused, reusedA
  <2>6. oldA = old BY <2>4
  <2>7. \A f : newA(f) = new(f) BY <1>2, SameChanges, Zenon
  <2> HIDE DEF fresh, freshA, old, oldA, new, newA
  <2>8. {oldA \o newA(f) : f \in Abs!Orders(freshA)} = {old \o new(f) : f \in Orders(fresh)}
    <3>1. Abs!Orders(freshA) = Orders(fresh) BY <1>1, <2>5
    <3>2. \A f : oldA \o newA(f) = old \o new(f) BY <2>6, <2>7
    <3> QED BY <3>1, <3>2
  <2>9. InheritTo(ls, Q, p, heir) = {old \o new(f) : f \in Orders(fresh)}
    BY Zenon DEF InheritTo, old, new, fresh, reused, similar
  <2>10. Abs!InheritTo(ls, Q, p, heir) = {oldA \o newA(f) : f \in Abs!Orders(freshA)}
    BY Zenon DEF Abs!InheritTo, oldA, newA, freshA, reusedA, similarA
  <2> QED BY <2>8, <2>9, <2>10
<1>4. \A ls, p, heir, h : Abs!rec_inherit_to_gap(ls, p, heir, h) = rec_inherit_to_gap(ls, p, heir, h)
  BY <1>3, SameLooks DEF rec_inherit_to_gap, Abs!rec_inherit_to_gap
<1>5. \A ls, p, heir, h :
       Abs!rec_inherit_to_gap_if_gap_lock(ls, p, heir, h) = rec_inherit_to_gap_if_gap_lock(ls, p, heir, h)
  BY <1>3, SameLooks, SameCounts DEF rec_inherit_to_gap_if_gap_lock, Abs!rec_inherit_to_gap_if_gap_lock
<1> QED BY <1>3, <1>4, <1>5

\* The fast and the slow path of a record lock request.
LEMMA SameRecLock ==
  /\ \A ls, p : Abs!PageLocks(ls, p) = PageLocks(ls, p)
  /\ \A ls, t, p, req, h : Abs!rec_lock_fast(ls, t, p, req, h) = rec_lock_fast(ls, t, p, req, h)
  /\ \A ls, impl, t, p, req, h :
       Abs!RecLockFast(ls, impl, t, p, req, h) = RecLockFast(ls, impl, t, p, req, h)
  /\ \A ls, t, p, req, h : Abs!RecLockWaits(ls, t, p, req, h) = RecLockWaits(ls, t, p, req, h)
  /\ \A ls, impl, t, p, req, h :
       Abs!RecLockSlow(ls, impl, t, p, req, h) = RecLockSlow(ls, impl, t, p, req, h)
<1>1. \A ls, p : Abs!PageLocks(ls, p) = PageLocks(ls, p) BY DEF PageLocks, Abs!PageLocks
<1>2. \A ls, t, p, req, h : Abs!rec_lock_fast(ls, t, p, req, h) = rec_lock_fast(ls, t, p, req, h)
  BY <1>1 DEF rec_lock_fast, Abs!rec_lock_fast
<1>3. \A ls, impl, t, p, req, h :
       Abs!RecLockFast(ls, impl, t, p, req, h) = RecLockFast(ls, impl, t, p, req, h)
  <2> TAKE ls, impl, t, p, req, h
  <2>1. \A S, T : S = T => (CHOOSE i \in DOMAIN ls : i \in S) = (CHOOSE i \in DOMAIN ls : i \in T) OBVIOUS
  <2> DEFINE i == CHOOSE x \in DOMAIN ls : x \in PageLocks(ls, p)
             j == CHOOSE x \in DOMAIN ls : x \in Abs!PageLocks(ls, p)
  <2>2. Abs!PageLocks(ls, p) = PageLocks(ls, p) BY <1>1
  <2>3. i = j BY <2>1, <2>2
  <2>4. Abs!SetBit(ls, j, h) = SetBit(ls, i, h) BY <2>3, SameChanges, Zenon
  <2>5. Abs!rec_create_low(ls, t, p, req, h, FALSE) = rec_create_low(ls, t, p, req, h, FALSE) BY SameChanges, Zenon
  <2> HIDE DEF i, j
  <2>6. RecLockFast(ls, impl, t, p, req, h) =
          IF impl THEN ls ELSE IF PageLocks(ls, p) = {} THEN rec_create_low(ls, t, p, req, h, FALSE) ELSE SetBit(ls, i, h)
    BY Zenon DEF RecLockFast, i
  <2>7. Abs!RecLockFast(ls, impl, t, p, req, h) =
          IF impl THEN ls ELSE IF Abs!PageLocks(ls, p) = {} THEN Abs!rec_create_low(ls, t, p, req, h, FALSE) ELSE Abs!SetBit(ls, j, h)
    BY Zenon DEF Abs!RecLockFast, j
  <2>8. CASE impl BY <2>6, <2>7, <2>8, Zenon
  <2>9. CASE ~impl /\ PageLocks(ls, p) = {} BY <2>2, <2>5, <2>6, <2>7, <2>9, Zenon
  <2>10. CASE ~impl /\ PageLocks(ls, p) # {} BY <2>2, <2>4, <2>6, <2>7, <2>10, Zenon
  <2> QED BY <2>8, <2>9, <2>10, Zenon
<1>4. \A ls, t, p, req, h : Abs!RecLockWaits(ls, t, p, req, h) = RecLockWaits(ls, t, p, req, h)
  BY SameLooks DEF RecLockWaits, Abs!RecLockWaits
<1>5. \A ls, impl, t, p, req, h :
       Abs!RecLockSlow(ls, impl, t, p, req, h) = RecLockSlow(ls, impl, t, p, req, h)
  BY SameLooks, SameChanges DEF RecLockSlow, Abs!RecLockSlow
<1> QED BY <1>1, <1>2, <1>3, <1>4, <1>5

\* What the caller does with the record.
LEMMA SucceedSeen ==
  ASSUME NEW ls, NEW op, NEW t, NEW p, NEW k, NEW to, Succeed(ls, op, t, p, k, to)
  PROVE  Abs!Succeed(ls, op, t, p, k, to)
<1>1. Abs!rec_inherit_to_gap_if_gap_lock(ls, p, k, Abs!NextRec(p, k)) =
        rec_inherit_to_gap_if_gap_lock(ls, p, k, NextRec(p, k))
  BY SameLooks, SameInherits, Zenon
<1>2. Abs!rowVars = rowVars BY DEF rowVars, Abs!rowVars
<1> QED BY <1>1 DEF Succeed, Abs!Succeed, rowVars, Abs!rowVars

\* A record lock request.
LEMMA RecLockSeen ==
  ASSUME NEW ls, NEW impl, NEW t, NEW p, NEW req, NEW h, NEW call,
         rec_lock(ls, impl, t, p, req, h, call), UNCHANGED <<ErrSeen, VictimSeen>>
  PROVE  Abs!rec_lock(ls, impl, t, p, req, h, call)
<1>1. UNCHANGED trxVars => UNCHANGED Abs!trxVars BY DEF trxVars, Abs!trxVars
<1>2. CASE rec_lock_fast(ls, t, p, req, h) /\ Succeed(RecLockFast(ls, impl, t, p, req, h), call.op, t, p, h, call.to)
           /\ UNCHANGED <<trxVars, kernel>>
  BY <1>1, <1>2, SucceedSeen, SameRecLock DEF Abs!rec_lock
<1>3. CASE ~rec_lock_fast(ls, t, p, req, h) /\ ~RecLockWaits(ls, t, p, req, h)
           /\ Succeed(RecLockSlow(ls, impl, t, p, req, h), call.op, t, p, h, call.to)
           /\ UNCHANGED <<trxVars, kernel>>
  BY <1>1, <1>3, SucceedSeen, SameRecLock DEF Abs!rec_lock
<1>4. CASE ~rec_lock_fast(ls, t, p, req, h) /\ RecLockWaits(ls, t, p, req, h)
           /\ rec_enqueue_waiting(ls, t, p, req, h, call)
  <2>1. Abs!rec_enqueue_waiting(ls, t, p, req, h, call)
    BY <1>1, <1>4, SameChanges DEF rec_enqueue_waiting, Abs!rec_enqueue_waiting, rowVars, Abs!rowVars
  <2> QED BY <1>4, <2>1, SameRecLock DEF Abs!rec_lock
<1> QED BY <1>2, <1>3, <1>4, Zenon DEF rec_lock

\* The lock requests.
LEMMA RequestsSeen ==
  ASSUME NEW t \in Trx, ClientRequest(t), ErrSeen[t] = "SUCCESS", UNCHANGED <<ErrSeen, VictimSeen>>
  PROVE  Abs!ClientRequest(t)
<1>1. UNCHANGED trxVars => UNCHANGED Abs!trxVars BY DEF trxVars, Abs!trxVars
<1>2. UNCHANGED rowVars => UNCHANGED Abs!rowVars BY DEF rowVars, Abs!rowVars
<1>3. CanRequest(t) => Abs!CanRequest(t) BY SameCounts DEF CanRequest, Abs!CanRequest
<1>4. \A p, mode : IntentionHeld(t, p, mode) => Abs!IntentionHeld(t, p, mode)
  BY SameLooks DEF IntentionHeld, Abs!IntentionHeld
<1>5. ASSUME NEW tab, NEW mode, lock_table(t, tab, mode) PROVE Abs!lock_table(t, tab, mode)
  BY <1>1, <1>2, <1>3, <1>5, SameLooks, SameChanges, SameCounts DEF lock_table, Abs!lock_table
<1>6. ASSUME NEW p, NEW h, NEW mode, NEW gap, clust_rec_read_check_and_lock(t, p, h, mode, gap)
      PROVE  Abs!clust_rec_read_check_and_lock(t, p, h, mode, gap)
  <2> DEFINE ls == IF h = PAGE_HEAP_NO_SUPREMUM THEN locks ELSE rec_convert_impl_to_expl(locks, p, h)
             lsA == IF h = Abs!PAGE_HEAP_NO_SUPREMUM THEN locks ELSE Abs!rec_convert_impl_to_expl(locks, p, h)
             req == Request(mode, gap, FALSE)
             reqA == Abs!Request(mode, gap, FALSE)
             call == Call("lock", t, p, h, "absent", 0)
             callA == Abs!Call("lock", t, p, h, "absent", 0)
  <2>1. ls = lsA /\ req = reqA /\ call = callA BY SameChanges, SameCounts, SameModes
  <2>2. rec_lock(ls, FALSE, t, p, req, h, call) BY <1>6, Zenon DEF clust_rec_read_check_and_lock
  <2> HIDE DEF ls, lsA, req, reqA, call, callA
  <2>3. Abs!rec_lock(lsA, FALSE, t, p, reqA, h, callA) BY <2>1, <2>2, RecLockSeen
  <2>4. /\ Abs!CanRequest(t)
        /\ h = Abs!PAGE_HEAP_NO_SUPREMUM \/ h \in Abs!Present(p)
        /\ h = Abs!PAGE_HEAP_NO_SUPREMUM => gap # "REC_NOT_GAP"
        /\ Abs!IntentionHeld(t, p, IF mode = "X" THEN "IX" ELSE "IS")
    BY <1>3, <1>4, <1>6, SameCounts, SameLooks DEF clust_rec_read_check_and_lock
  <2> QED BY <2>3, <2>4, Zenon DEF Abs!clust_rec_read_check_and_lock, lsA, reqA, callA
<1>7. ASSUME NEW p, NEW k, NEW to, clust_rec_modify_check_and_lock(t, p, k, to)
      PROVE  Abs!clust_rec_modify_check_and_lock(t, p, k, to)
  <2> DEFINE ls == rec_convert_impl_to_expl(locks, p, k)
             lsA == Abs!rec_convert_impl_to_expl(locks, p, k)
             req == Request("X", "REC_NOT_GAP", FALSE)
             reqA == Abs!Request("X", "REC_NOT_GAP", FALSE)
             call == Call("modify", t, p, k, to, 0)
             callA == Abs!Call("modify", t, p, k, to, 0)
  <2>1. ls = lsA /\ req = reqA /\ call = callA BY SameChanges, SameCounts, SameModes
  <2>2. rec_lock(ls, TRUE, t, p, req, k, call) BY <1>7, Zenon DEF clust_rec_modify_check_and_lock
  <2> HIDE DEF ls, lsA, req, reqA, call, callA
  <2>3. Abs!rec_lock(lsA, TRUE, t, p, reqA, k, callA) BY <2>1, <2>2, RecLockSeen
  <2>4. /\ Abs!CanRequest(t) /\ Len(undo[t]) < MaxUndo
        /\ k \in Abs!Present(p)
        /\ rec[p][k] = "marked" => to = "live"
        /\ Abs!IntentionHeld(t, p, "IX")
    BY <1>3, <1>4, <1>7, SameLooks DEF clust_rec_modify_check_and_lock
  <2> QED BY <2>3, <2>4, Zenon DEF Abs!clust_rec_modify_check_and_lock, lsA, reqA, callA
<1>8. ASSUME NEW p, NEW k, rec_insert_check_and_lock(t, p, k) PROVE Abs!rec_insert_check_and_lock(t, p, k)
  <2> DEFINE next == NextRec(p, k)
             nextA == Abs!NextRec(p, k)
             req == Request("X", "GAP", TRUE)
             reqA == Abs!Request("X", "GAP", TRUE)
             call == Call("insert", t, p, k, "live", 0)
             callA == Abs!Call("insert", t, p, k, "live", 0)
  <2>1. next = nextA /\ req = reqA /\ call = callA BY SameLooks, SameCounts, SameModes
  <2>2. /\ CanRequest(t) /\ Len(undo[t]) < MaxUndo
        /\ rec[p][k] = "absent"
        /\ IntentionHeld(t, p, "IX")
        /\ \/ /\ ~rec_other_has_conflicting(locks, p, req, next, t)
              /\ Succeed(locks, "insert", t, p, k, "live")
              /\ UNCHANGED <<trxVars, kernel>>
           \/ /\ rec_other_has_conflicting(locks, p, req, next, t)
              /\ rec_enqueue_waiting(locks, t, p, req, next, call)
    BY <1>8, Zenon DEF rec_insert_check_and_lock
  <2> HIDE DEF next, nextA, req, reqA, call, callA
  <2>3. rec_enqueue_waiting(locks, t, p, req, next, call) => Abs!rec_enqueue_waiting(locks, t, p, reqA, nextA, callA)
    BY <1>1, <1>2, <2>1, SameChanges DEF rec_enqueue_waiting, Abs!rec_enqueue_waiting
  <2>4. /\ Abs!CanRequest(t) /\ Len(undo[t]) < MaxUndo
        /\ rec[p][k] = "absent"
        /\ Abs!IntentionHeld(t, p, "IX")
        /\ \/ /\ ~Abs!rec_other_has_conflicting(locks, p, reqA, nextA, t)
              /\ Abs!Succeed(locks, "insert", t, p, k, "live")
              /\ UNCHANGED <<Abs!trxVars, kernel>>
           \/ /\ Abs!rec_other_has_conflicting(locks, p, reqA, nextA, t)
              /\ Abs!rec_enqueue_waiting(locks, t, p, reqA, nextA, callA)
    BY <1>1, <1>3, <1>4, <2>1, <2>2, <2>3, SucceedSeen, SameLooks
  <2> QED BY <2>4, Zenon DEF Abs!rec_insert_check_and_lock, nextA, reqA, callA
<1>9. ASSUME NEW p, NEW k, NEW mode, rec_unlock(t, p, k, mode) PROVE Abs!rec_unlock(t, p, k, mode)
  <2> DEFINE mine == {i \in DOMAIN locks : OnRec(locks[i], p, k) /\ locks[i].trx = t /\ locks[i].mode = mode}
             mineA == {i \in DOMAIN locks : Abs!OnRec(locks[i], p, k) /\ locks[i].trx = t /\ locks[i].mode = mode}
             ls(i) == [locks EXCEPT ![i].bits = @ \ {k}]
             who(i) == {j \in DOMAIN ls(i) : OnRec(ls(i)[j], p, k)}
             whoA(i) == {j \in DOMAIN ls(i) : Abs!OnRec(ls(i)[j], p, k)}
  <2>1. mine = mineA BY SameLooks
  <2>2. \A i : who(i) = whoA(i) BY SameLooks
  <2>3. /\ kernel = NoCall
        /\ conc[t] = "ACTIVE" /\ que[t] = "RUNNING" /\ err[t] = "SUCCESS"
        /\ t \in ReadCommitted
        /\ rec[p][k] = "marked" /\ clust_rec_some_has_impl(p, k) = {}
        /\ \E i \in mine :
             /\ \A j \in mine : j <= i
             /\ locks' = Grant(ls(i), who(i)) /\ que' = end_lock_wait(Granted(ls(i), who(i)))
        /\ UNCHANGED <<rowVars, conc, victim, err, kernel>>
    BY <1>9, Zenon DEF rec_unlock
  <2> HIDE DEF mine, mineA, ls, who, whoA
  <2>4. PICK i \in mine :
             /\ \A j \in mine : j <= i
             /\ locks' = Grant(ls(i), who(i)) /\ que' = end_lock_wait(Granted(ls(i), who(i)))
    BY <2>3
  <2>5. locks' = Abs!Grant(ls(i), whoA(i)) /\ que' = Abs!end_lock_wait(Abs!Granted(ls(i), whoA(i)))
    BY <2>2, <2>4, SameGrants
  <2>6. /\ kernel = Abs!NoCall
        /\ conc[t] = "ACTIVE" /\ que[t] = "RUNNING" /\ ErrSeen[t] = "SUCCESS"
        /\ t \in ReadCommitted
        /\ rec[p][k] = "marked" /\ Abs!clust_rec_some_has_impl(p, k) = {}
        /\ i \in mineA /\ \A j \in mineA : j <= i
        /\ UNCHANGED <<Abs!rowVars, conc, VictimSeen, ErrSeen, kernel>>
    BY <1>2, <2>1, <2>3, <2>4, SameLooks, SameCounts
  <2> QED BY <2>5, <2>6, Zenon DEF Abs!rec_unlock, mineA, whoA, ls
<1>10. Abs!TableModes = TableModes /\ Abs!RecModes = RecModes
  BY DEF TableModes, Abs!TableModes, RecModes, Abs!RecModes
<1> QED BY <1>5, <1>6, <1>7, <1>8, <1>9, <1>10, SameCounts DEF ClientRequest, Abs!ClientRequest

\* The deadlock search.
LEMMA SameSearch ==
  /\ \A t : Abs!Checking(t) = Checking(t)
  /\ \A ls, t, u : Abs!WaitsFor(ls, t, u) = WaitsFor(ls, t, u)
  /\ \A s : Abs!Searched(s) = Searched(s)
  /\ \A s : Abs!Closers(s) = Closers(s)
  /\ \A s : Abs!TooFar(s) = TooFar(s)
  /\ \A s : Abs!TooLong(s) = TooLong(s)
  /\ \A t : Abs!Weight(t) = Weight(t)
  /\ \A t : Abs!WaitLock(t) = WaitLock(t)
<1>1. \A t : Abs!Checking(t) = Checking(t) BY DEF Checking, Abs!Checking
<1>2. \A ls, t, u : Abs!WaitsFor(ls, t, u) = WaitsFor(ls, t, u)
  BY SameModes DEF WaitsFor, Abs!WaitsFor
<1>3. \A s : Abs!Searched(s) = Searched(s) BY <1>2 DEF Searched, Abs!Searched
<1>4. \A s : Abs!Closers(s) = Closers(s) BY <1>2, <1>3 DEF Closers, Abs!Closers
<1>5. \A s : Abs!TooFar(s) = TooFar(s) BY <1>2, SameCounts DEF TooFar, Abs!TooFar
<1>6. \A s : Abs!TooLong(s) = TooLong(s) BY <1>2, <1>3, SameCounts DEF TooLong, Abs!TooLong
<1>7. \A t : Abs!Weight(t) = Weight(t) BY SameCounts DEF Weight, Abs!Weight
<1>8. \A t : Abs!WaitLock(t) = WaitLock(t) BY DEF WaitLock, Abs!WaitLock
<1> QED BY <1>1, <1>2, <1>3, <1>4, <1>5, <1>6, <1>7, <1>8

\* Taking a struct out of a queue.
LEMMA SameDequeue ==
  /\ \A i : Dequeue(i) => Abs!Dequeue(i)
  /\ \A i : cancel_waiting_and_release(i) => Abs!cancel_waiting_and_release(i)
BY SameGrants DEF Dequeue, Abs!Dequeue, cancel_waiting_and_release, Abs!cancel_waiting_and_release

\* The answers of deadlock_occurs.
LEMMA ChecksSeen ==
  ASSUME NEW t \in Trx, DeadlockCheck(t),
         \A e : err' = [err EXCEPT ![t] = e] => ErrSeen' = [ErrSeen EXCEPT ![t] = e],
         err' = err => ErrSeen' = ErrSeen,
         \A v \in Closers(t) :
           victim' = [victim EXCEPT ![v] = TRUE] => VictimSeen' = [VictimSeen EXCEPT ![v] = TRUE],
         victim' = [victim EXCEPT ![t] = FALSE] => VictimSeen' = [VictimSeen EXCEPT ![t] = FALSE],
         victim' = victim => VictimSeen' = VictimSeen
  PROVE  Abs!DeadlockCheck(t)
<1>2. UNCHANGED rowVars => UNCHANGED Abs!rowVars BY DEF rowVars, Abs!rowVars
<1>3. ASSUME NoDeadlock(t) PROVE Abs!NoDeadlock(t)
  <2>1. Abs!Checking(t) /\ Abs!Closers(t) = {} BY <1>3, SameSearch DEF NoDeadlock
  <2>2. kernel' = Abs!NoCall BY <1>3, SameCounts DEF NoDeadlock, NotRefused
  <2>3. CASE /\ IsWaiting(locks, t)
             /\ que' = [que EXCEPT ![t] = "LOCK_WAIT"]
             /\ victim' = [victim EXCEPT ![t] = FALSE]
             /\ err' = [err EXCEPT ![t] = "LOCK_WAIT"]
             /\ UNCHANGED <<locks, rowVars, conc>>
    <3>1. ErrSeen' = [ErrSeen EXCEPT ![t] = "LOCK_WAIT"] /\ VictimSeen' = [VictimSeen EXCEPT ![t] = FALSE]
      BY <2>3
    <3>2. Abs!IsWaiting(locks, t) BY <2>3, SameLooks
    <3> QED BY <1>2, <2>1, <2>2, <2>3, <3>1, <3>2 DEF Abs!NoDeadlock, Abs!NotRefused
  <2>4. CASE /\ ~IsWaiting(locks, t)
             /\ Succeed(locks, kernel.op, t, kernel.page, kernel.key, kernel.to)
             /\ UNCHANGED trxVars
    <3>1. Abs!Succeed(locks, kernel.op, t, kernel.page, kernel.key, kernel.to) BY <2>4, SucceedSeen
    <3>2. ~Abs!IsWaiting(locks, t) BY <2>4, SameLooks
    <3>3. UNCHANGED Abs!trxVars BY <2>4 DEF trxVars, Abs!trxVars
    <3> QED BY <2>1, <2>2, <3>1, <3>2, <3>3 DEF Abs!NoDeadlock, Abs!NotRefused
  <2> QED BY <1>3, <2>3, <2>4, Zenon DEF NoDeadlock, NotRefused
<1>4. ASSUME NEW v, VictimIsOther(t, v) PROVE Abs!VictimIsOther(t, v)
  <2>1. Abs!Checking(t) /\ v \in Abs!Closers(t) /\ Abs!Weight(v) < Abs!Weight(t)
    BY <1>4, SameSearch DEF VictimIsOther
  <2>2. VictimSeen' = [VictimSeen EXCEPT ![v] = TRUE] /\ ErrSeen' = ErrSeen
    BY <1>4 DEF VictimIsOther, Choose
  <2>3. Abs!cancel_waiting_and_release(Abs!WaitLock(v))
    BY <1>4, SameDequeue, SameSearch DEF VictimIsOther, Choose
  <2> QED BY <1>2, <1>4, <2>1, <2>2, <2>3 DEF Abs!VictimIsOther, Abs!Choose, VictimIsOther, Choose
<1>5. ASSUME Refuse(t) PROVE Abs!Refuse(t)
  <2>1. ErrSeen' = [ErrSeen EXCEPT ![t] = "DEADLOCK"] /\ VictimSeen' = VictimSeen
    BY <1>5 DEF Refuse
  <2>2. Abs!WaitLock(t) = WaitLock(t) BY SameSearch
  <2>3. Abs!Remove(locks, WaitLock(t)) = Remove(locks, WaitLock(t)) BY SameGrants
  <2> QED BY <1>2, <1>5, <2>1, <2>2, <2>3, SameCounts DEF Refuse, Abs!Refuse
<1>6. ASSUME VictimIsStart(t) PROVE Abs!VictimIsStart(t)
  BY <1>5, <1>6, SameSearch DEF VictimIsStart, Abs!VictimIsStart
<1>7. ASSUME ExceedMaxDepth(t) PROVE Abs!ExceedMaxDepth(t)
  BY <1>5, <1>7, SameSearch DEF ExceedMaxDepth, Abs!ExceedMaxDepth
<1> QED BY <1>3, <1>4, <1>6, <1>7 DEF DeadlockCheck, Abs!DeadlockCheck

\* The removal of a record.
LEMMA DeleteSeen ==
  ASSUME NEW p, NEW k, update_delete(p, k)
  PROVE  Abs!update_delete(p, k)
<1>1. Abs!rec_inherit_to_gap(locks, p, Abs!NextRec(p, k), k) = rec_inherit_to_gap(locks, p, NextRec(p, k), k)
  BY SameLooks, SameInherits, Zenon
<1>2. \A ls : Abs!rec_reset_and_release_wait(ls, p, k) = rec_reset_and_release_wait(ls, p, k)
  BY SameLooks DEF rec_reset_and_release_wait, Abs!rec_reset_and_release_wait
<1>3. Abs!Cancelled(locks, p, k) = Cancelled(locks, p, k)
  <2>1. {j \in DOMAIN locks : locks[j].wait /\ Abs!OnRec(locks[j], p, k)} =
          {j \in DOMAIN locks : locks[j].wait /\ OnRec(locks[j], p, k)}
    BY SameLooks
  <2> QED BY <2>1 DEF Cancelled, Abs!Cancelled
<1> QED BY <1>1, <1>2, <1>3, SameGrants DEF update_delete, Abs!update_delete

\* The other calls of a transaction, the timeout thread and purge.
LEMMA TrxStepsSeen ==
  ASSUME NEW t \in Trx, TrxStep(t), ErrSeen[t] = err[t], VictimSeen' = VictimSeen,
         \A e : err' = [err EXCEPT ![t] = e] => ErrSeen' = [ErrSeen EXCEPT ![t] = e],
         err' = err => ErrSeen' = ErrSeen
  PROVE  Abs!TrxStep(t)
<1>2. UNCHANGED rowVars => UNCHANGED Abs!rowVars BY DEF rowVars, Abs!rowVars
<1>3. ASSUME start_low(t) PROVE Abs!start_low(t)
  BY <1>2, <1>3, SameCounts DEF start_low, Abs!start_low
<1>4. ASSUME RollbackStart(t) PROVE Abs!RollbackStart(t)
  BY <1>2, <1>4, SameCounts DEF RollbackStart, Abs!RollbackStart
<1>5. ASSUME RollbackRow(t) PROVE Abs!RollbackRow(t)
  BY <1>5, SameCounts, DeleteSeen DEF RollbackRow, Abs!RollbackRow
<1>6. ASSUME commit_off_kernel(t) PROVE Abs!commit_off_kernel(t)
  BY <1>6, SameCounts DEF commit_off_kernel, Abs!commit_off_kernel
<1>7. ASSUME release_off_kernel(t) PROVE Abs!release_off_kernel(t)
  BY <1>2, <1>7, SameCounts, SameDequeue DEF release_off_kernel, Abs!release_off_kernel
<1>8. ASSUME ReleaseReenter(t) PROVE Abs!ReleaseReenter(t)
  <2>1. UNCHANGED trxVars => UNCHANGED Abs!trxVars BY DEF trxVars, Abs!trxVars
  <2> QED BY <1>2, <1>8, <2>1, SameCounts DEF ReleaseReenter, Abs!ReleaseReenter
<1>9. ASSUME ReleaseEnd(t) PROVE Abs!ReleaseEnd(t)
  BY <1>2, <1>9, SameCounts DEF ReleaseEnd, Abs!ReleaseEnd
<1> QED BY <1>3, <1>4, <1>5, <1>6, <1>7, <1>8, <1>9 DEF TrxStep, Abs!TrxStep

\* A wait that is given up.
LEMMA TimeoutSeen ==
  ASSUME NEW t \in Trx, LockTimeout(t), UNCHANGED <<ErrSeen, VictimSeen>>
  PROVE  Abs!LockTimeout(t)
BY SameLooks, SameCounts, SameDequeue, SameSearch
  DEF LockTimeout, Abs!LockTimeout, rowVars, Abs!rowVars

\* A record that purge removes.
LEMMA PurgeSeen ==
  ASSUME NEW p, NEW k, purge_remove(p, k), UNCHANGED <<ErrSeen, VictimSeen>>
  PROVE  Abs!purge_remove(p, k)
BY SameLooks, SameCounts, DeleteSeen DEF purge_remove, Abs!purge_remove

-----------------------------------------------------------------------------
(* The lock manager and its answers under the threads.                     *)

\* A step of the lock manager under the threads keeps its invariants, and so do the steps of
\* the threads, which change the answers only.
LEMMA LocksUnderThreadsStep ==
  LockInv /\ WaitInv /\ [NextWait]_waitVars => LockInv' /\ WaitInv'
<1> SUFFICES ASSUME LockInv, WaitInv, [NextWait]_waitVars PROVE LockInv' /\ WaitInv' OBVIOUS
<1>1. ASSUME [Next]_vars PROVE LockInv' /\ WaitInv' BY <1>1, LockInvStep, WaitInvStep
<1>2. ASSUME UNCHANGED <<locks, conc, que, rec, rec_trx, undo, kernel>>,
             victim' \in [Trx -> BOOLEAN],
             err' \in [Trx -> {"SUCCESS", "LOCK_WAIT", "DEADLOCK", "LOCK_WAIT_TIMEOUT"}]
      PROVE  LockInv' /\ WaitInv'
  <2>1. TypeOK' BY <1>2 DEF LockInv, TypeOK
  <2>2. LockInv'
    BY <1>2, <2>1 DEF LockInv, BitsPresentIn, Present, ImplicitOrExplicitIn, clust_rec_some_has_impl,
      WriterActive, UndoConsistent, CallConsistent
  <2>3. WaitInv'
    BY <1>2 DEF WaitInv, Begun, WriterIntends, WaitStates, Checking, NewestRequest, Sleeping
  <2> QED BY <2>2, <2>3
<1>3. ASSUME NEW t \in Trx, LockCall(t) \/ TrxCall(t) \/ lock_timeout_thread(t) PROVE [Next]_vars
  BY <1>3 DEF LockCall, TrxCall, lock_timeout_thread, Next, WaitStep
<1>4. ASSUME PurgeStep PROVE [Next]_vars BY <1>4 DEF PurgeStep, Next
<1>5. ASSUME NEW t \in Trx, WaitingThread(t) \/ Tick(t) PROVE LockInv' /\ WaitInv'
  <2>0. /\ victim \in [Trx -> BOOLEAN]
        /\ err \in [Trx -> {"SUCCESS", "LOCK_WAIT", "DEADLOCK", "LOCK_WAIT_TIMEOUT"}]
    BY DEF LockInv, TypeOK
  <2>1. ASSUME que_thr_stop_client(t) \/ Tick(t) PROVE UNCHANGED vars
    BY <2>1 DEF que_thr_stop_client, Tick
  <2>2. ASSUME SuspendTooLate(t) \/ SuspendReserve(t) \/ Wake(t) \/ TestTimeout(t)
        PROVE  UNCHANGED <<locks, conc, que, rec, rec_trx, undo, kernel>>
    BY <2>2 DEF SuspendTooLate, SuspendReserve, Wake, TestTimeout, rowVars
  <2>3. ASSUME SuspendTooLate(t) \/ SuspendReserve(t) \/ Wake(t) \/ TestTimeout(t)
        PROVE  /\ victim' \in [Trx -> BOOLEAN]
               /\ err' \in [Trx -> {"SUCCESS", "LOCK_WAIT", "DEADLOCK", "LOCK_WAIT_TIMEOUT"}]
    BY <2>0, <2>3 DEF SuspendTooLate, Answer, SuspendReserve, Wake, TestTimeout
  <2> QED BY <1>1, <1>2, <1>5, <2>1, <2>2, <2>3 DEF WaitingThread
<1>6. ASSUME UNCHANGED waitVars PROVE [Next]_vars BY <1>6 DEF waitVars
<1> QED BY <1>1, <1>3, <1>4, <1>5, <1>6 DEF NextWait

\* All that is proved of the lock manager holds under the threads.
THEOREM LocksUnderThreads == SpecWait => [](LockInv /\ WaitInv)
<1>1. InitWait => LockInv /\ WaitInv BY LockInvInit, WaitInvInit DEF InitWait
<1> QED BY <1>1, LocksUnderThreadsStep, PTL DEF SpecWait

\* A closer of a cycle sleeps.
LEMMA ClosersSleep ==
  ASSUME NEW t \in Trx, NEW v \in Closers(t)
  PROVE  v \in Trx /\ v # t /\ que[v] = "LOCK_WAIT"
<1>1. v \in Searched(t) /\ v # t /\ v \in Trx BY DEF Closers, Searched
<1> DEFINE S == {t} \cup {w \in Trx : que[w] = "LOCK_WAIT"}
<1>2. S \in SUBSET Trx /\ t \in S OBVIOUS
<1>3. \A u \in S, w \in Trx : WaitsFor(locks, u, w) /\ que[w] = "LOCK_WAIT" => w \in S OBVIOUS
<1>4. v \in S
  <2> HIDE DEF S
  <2> QED BY <1>1, <1>2, <1>3 DEF Searched
<1> QED BY <1>1, <1>4

\* A lock request changes no answer and chooses no victim, and only of a request of its own does
\* it leave a deadlock check.
LEMMA RequestAnswers ==
  ASSUME NEW t \in Trx, ClientRequest(t)
  PROVE  /\ err' = err /\ victim' = victim /\ err[t] = "SUCCESS" /\ que[t] = "RUNNING"
         /\ kernel = NoCall /\ (kernel' = kernel \/ kernel'.trx = t)
<1>1. ASSUME NEW tab, NEW mode, lock_table(t, tab, mode)
      PROVE  UNCHANGED <<err, victim>> /\ CanRequest(t) /\ (kernel' = kernel \/ kernel'.trx = t)
  <2>1. CanRequest(t) /\ UNCHANGED trxVars BY <1>1, Zenon DEF lock_table
  <2>2. kernel' = kernel \/ kernel' = Call("lock", t, NoTable, 0, "absent", 0) BY <1>1, Zenon DEF lock_table
  <2>3. Call("lock", t, NoTable, 0, "absent", 0).trx = t BY DEF Call
  <2> QED BY <2>1, <2>2, <2>3 DEF trxVars
<1>2. ASSUME NEW ls, NEW impl, NEW p, NEW req, NEW h, NEW call, rec_lock(ls, impl, t, p, req, h, call)
      PROVE  UNCHANGED <<err, victim>> /\ (kernel' = kernel \/ kernel' = call)
  BY <1>2 DEF rec_lock, rec_enqueue_waiting, trxVars
<1>3. \A op, p, k, to, n : Call(op, t, p, k, to, n).trx = t BY DEF Call
<1>4. ASSUME NEW p, NEW h, NEW mode, NEW gap, clust_rec_read_check_and_lock(t, p, h, mode, gap)
      PROVE  UNCHANGED <<err, victim>> /\ CanRequest(t) /\ (kernel' = kernel \/ kernel'.trx = t)
  <2>1. CanRequest(t) BY <1>4, Zenon DEF clust_rec_read_check_and_lock
  <2>2. UNCHANGED <<err, victim>> /\ (kernel' = kernel \/ kernel' = Call("lock", t, p, h, "absent", 0))
    BY <1>2, <1>4, Zenon DEF clust_rec_read_check_and_lock
  <2> QED BY <1>3, <2>1, <2>2
<1>5. ASSUME NEW p, NEW k, NEW to, clust_rec_modify_check_and_lock(t, p, k, to)
      PROVE  UNCHANGED <<err, victim>> /\ CanRequest(t) /\ (kernel' = kernel \/ kernel'.trx = t)
  <2>1. CanRequest(t) BY <1>5, Zenon DEF clust_rec_modify_check_and_lock
  <2>2. UNCHANGED <<err, victim>> /\ (kernel' = kernel \/ kernel' = Call("modify", t, p, k, to, 0))
    BY <1>2, <1>5, Zenon DEF clust_rec_modify_check_and_lock
  <2> QED BY <1>3, <2>1, <2>2
<1>6. ASSUME NEW p, NEW k, rec_insert_check_and_lock(t, p, k)
      PROVE  UNCHANGED <<err, victim>> /\ CanRequest(t) /\ (kernel' = kernel \/ kernel'.trx = t)
  BY <1>3, <1>6 DEF rec_insert_check_and_lock, rec_enqueue_waiting, trxVars
<1>7. ASSUME NEW p, NEW k, NEW mode, rec_unlock(t, p, k, mode)
      PROVE  /\ err' = err /\ victim' = victim /\ err[t] = "SUCCESS" /\ que[t] = "RUNNING"
             /\ kernel = NoCall /\ kernel' = kernel
  BY <1>7 DEF rec_unlock
<1> QED BY <1>1, <1>4, <1>5, <1>6, <1>7, Zenon DEF ClientRequest, CanRequest

\* The answers of lock calls.
LEMMA CallAnswers ==
  ASSUME LockInv, WaitInv, AnswersAgree, NEW t \in Trx, ClientRequest(t) \/ DeadlockCheck(t)
  PROVE  /\ err' = err \/ err' = [err EXCEPT ![t] = "LOCK_WAIT"] \/ err' = [err EXCEPT ![t] = "DEADLOCK"]
         /\ err[t] = "SUCCESS" /\ que[t] = "RUNNING"
         /\ \/ victim' = victim
            \/ victim' = [victim EXCEPT ![t] = FALSE]
            \/ \E v \in Trx : que[v] = "LOCK_WAIT" /\ victim' = [victim EXCEPT ![v] = TRUE]
         /\ \A u \in Trx : Checking(u)' => u = t /\ err' = err
<1>0. NoTrx \notin Trx BY ConstantsAssumption
<1>1. ASSUME ClientRequest(t)
      PROVE  /\ err' = err /\ victim' = victim /\ err[t] = "SUCCESS" /\ que[t] = "RUNNING"
             /\ kernel = NoCall /\ (kernel' = kernel \/ kernel'.trx = t)
  BY <1>1, RequestAnswers
<1>2. ASSUME ClientRequest(t), NEW u \in Trx, Checking(u)' PROVE u = t
  BY <1>0, <1>1, <1>2 DEF Checking, NoCall, Call
<1>3. ASSUME DeadlockCheck(t) PROVE Checking(t)
  BY <1>3, Zenon DEF DeadlockCheck, NoDeadlock, VictimIsOther, VictimIsStart, ExceedMaxDepth
<1>4. Checking(t) => err[t] = "SUCCESS" /\ que[t] = "RUNNING"
  BY DEF AnswersAgree, WaitInv, WaitStates
<1>5. ASSUME kernel' = NoCall, NEW u \in Trx PROVE ~Checking(u)'
  BY <1>5 DEF Checking, NoCall, Call
<1>6. ASSUME NoDeadlock(t)
      PROVE  /\ kernel' = NoCall
             /\ \/ victim' = [victim EXCEPT ![t] = FALSE] /\ err' = [err EXCEPT ![t] = "LOCK_WAIT"]
                \/ err' = err /\ victim' = victim
  BY <1>6 DEF NoDeadlock, NotRefused, trxVars
<1>7. ASSUME NEW v \in Trx, VictimIsOther(t, v)
      PROVE  /\ kernel' = kernel /\ err' = err /\ que[v] = "LOCK_WAIT"
             /\ victim' = [victim EXCEPT ![v] = TRUE]
  BY <1>7, ClosersSleep DEF VictimIsOther, Choose
<1>8. ASSUME VictimIsStart(t) \/ ExceedMaxDepth(t)
      PROVE  kernel' = NoCall /\ err' = [err EXCEPT ![t] = "DEADLOCK"] /\ victim' = victim
  BY <1>8 DEF VictimIsStart, ExceedMaxDepth, Refuse
<1>9. ASSUME kernel' = kernel, Checking(t), NEW u \in Trx, Checking(u)' PROVE u = t
  BY <1>9 DEF Checking
<1>10. CASE ClientRequest(t) BY <1>1, <1>2, <1>10
<1>11. CASE NoDeadlock(t) BY <1>3, <1>4, <1>5, <1>6, <1>11 DEF DeadlockCheck
<1>12. CASE \E v \in Trx : VictimIsOther(t, v) BY <1>3, <1>4, <1>7, <1>9, <1>12 DEF DeadlockCheck
<1>13. CASE VictimIsStart(t) \/ ExceedMaxDepth(t)
  BY <1>3, <1>4, <1>5, <1>8, <1>13 DEF DeadlockCheck
<1> QED BY <1>10, <1>11, <1>12, <1>13 DEF DeadlockCheck

\* The other calls of a transaction, the timeout thread and purge choose no victim and leave
\* a deadlock check alone.
LEMMA OtherAnswers ==
  ASSUME LockInv, NEW t \in Trx,
         TrxStep(t) \/ ReportTimeout(t) \/ LockTimeout(t) \/ \E p \in Pages, k \in Keys : purge_remove(p, k)
  PROVE  /\ victim' = victim
         /\ err' = err \/ err' = [err EXCEPT ![t] = "SUCCESS"]
         /\ \A u \in Trx : Checking(u)' => Checking(u)
<1>1. ASSUME start_low(t) \/ RollbackStart(t) \/ RollbackRow(t) \/ ReportTimeout(t) \/ LockTimeout(t)
             \/ \E p \in Pages, k \in Keys : purge_remove(p, k)
      PROVE  /\ victim' = victim /\ kernel' = kernel
             /\ err' = err \/ err' = [err EXCEPT ![t] = "SUCCESS"]
  BY <1>1 DEF start_low, RollbackStart, RollbackRow, ReportTimeout, LockTimeout, purge_remove
<1>2. ASSUME commit_off_kernel(t) \/ release_off_kernel(t) \/ ReleaseReenter(t) \/ ReleaseEnd(t)
      PROVE  victim' = victim /\ err' = err /\ kernel'.op \in {"none", "release"}
  <2>1. UNCHANGED <<victim, err>>
    BY <1>2 DEF commit_off_kernel, release_off_kernel, ReleaseReenter, ReleaseEnd, trxVars
  <2>2. kernel' \in {NoCall, Call("release", t, NoTable, 0, "absent", 0)}
          \/ (kernel.op = "release" /\ kernel' = [kernel EXCEPT !.count = @ + 1])
    BY <1>2 DEF commit_off_kernel, release_off_kernel, ReleaseReenter, ReleaseEnd
  <2>3. kernel \in Calls BY DEF LockInv, TypeOK
  <2>4. kernel.op = "release" => [kernel EXCEPT !.count = @ + 1].op = "release" BY <2>3 DEF Calls
  <2>5. NoCall.op = "none" /\ Call("release", t, NoTable, 0, "absent", 0).op = "release" BY DEF NoCall, Call
  <2> QED BY <2>1, <2>2, <2>4, <2>5
<1>3. ASSUME kernel' = kernel \/ kernel'.op \in {"none", "release"} PROVE \A u \in Trx : Checking(u)' => Checking(u)
  BY <1>3 DEF Checking
<1>4. CASE start_low(t) \/ RollbackStart(t) \/ RollbackRow(t) \/ ReportTimeout(t) \/ LockTimeout(t)
             \/ \E p \in Pages, k \in Keys : purge_remove(p, k)
  BY <1>1, <1>3, <1>4
<1>5. CASE commit_off_kernel(t) \/ release_off_kernel(t) \/ ReleaseReenter(t) \/ ReleaseEnd(t)
  BY <1>2, <1>3, <1>5
<1> QED BY <1>4, <1>5, Zenon DEF TrxStep

\* The parts of AnswersAgree for one thread, spelled out.
LEMMA AnswersAgreeNext ==
  ASSUME \A u \in Trx :
           /\ pc'[u] = "suspend" => err'[u] = "LOCK_WAIT"
           /\ pc'[u] = "os_event_wait" => err'[u] = "SUCCESS"
           /\ pc'[u] = "test_timeout" => err'[u] \in {"SUCCESS", "DEADLOCK"} /\ ~victim'[u]
           /\ pc'[u] # "run" => que'[u] # "ROLLING_BACK"
           /\ Checking(u)' => pc'[u] = "run" /\ err'[u] = "SUCCESS"
           /\ pc'[u] = "run" => err'[u] # "LOCK_WAIT"
  PROVE  AnswersAgree'
BY DEF AnswersAgree

\* A step of the lock manager under the threads keeps the answers.
LEMMA LockManagerAnswers ==
  ASSUME LockInv, WaitInv, ThreadInv, AnswersAgree,
         \/ \E t \in Trx : LockCall(t) \/ TrxCall(t) \/ lock_timeout_thread(t)
         \/ PurgeStep
  PROVE  AnswersAgree'
<1>0. NoTrx \notin Trx BY ConstantsAssumption
<1>1. ThreadTypes /\ WaitsAreOwn BY DEF ThreadInv
<1>2. victim \in [Trx -> BOOLEAN] BY DEF LockInv, TypeOK
<1>3. ASSUME NEW t \in Trx, LockCall(t) PROVE AnswersAgree'
  <2>1. WaitsOnlyEnd(t) BY <1>1, <1>3, RequestsOnlyEnd, ChecksOnlyEnd DEF LockCall
  <2>2. /\ err' = err \/ err' = [err EXCEPT ![t] = "LOCK_WAIT"] \/ err' = [err EXCEPT ![t] = "DEADLOCK"]
        /\ err[t] = "SUCCESS" /\ que[t] = "RUNNING"
        /\ \/ victim' = victim
           \/ victim' = [victim EXCEPT ![t] = FALSE]
           \/ \E v \in Trx : que[v] = "LOCK_WAIT" /\ victim' = [victim EXCEPT ![v] = TRUE]
        /\ \A u \in Trx : Checking(u)' => u = t /\ err' = err
    BY <1>3, CallAnswers DEF LockCall
  <2>3. pc[t] = "run" /\ \A u \in Trx : pc'[u] = IF u = t /\ err'[u] # "SUCCESS" THEN "stop_client" ELSE pc[u]
    BY <1>3 DEF LockCall, QueryThreads
  <2>4. ASSUME NEW u \in Trx, pc[u] = "test_timeout" PROVE victim'[u] => victim[u]
    BY <1>1, <1>2, <2>2, <2>4 DEF WaitsAreOwn
  <2>5. \A u \in Trx : u # t => err'[u] = err[u] BY <2>1 DEF WaitsOnlyEnd
  <2>6. \A u \in Trx : que'[u] = "ROLLING_BACK" => que[u] = "ROLLING_BACK" \/ (u = t /\ err'[u] = "SUCCESS")
    BY <2>1 DEF WaitsOnlyEnd
  <2>7. ASSUME NEW u \in Trx
        PROVE  /\ pc'[u] = "suspend" => err'[u] = "LOCK_WAIT"
               /\ pc'[u] = "os_event_wait" => err'[u] = "SUCCESS"
               /\ pc'[u] = "test_timeout" => err'[u] \in {"SUCCESS", "DEADLOCK"} /\ ~victim'[u]
               /\ pc'[u] # "run" => que'[u] # "ROLLING_BACK"
               /\ Checking(u)' => pc'[u] = "run" /\ err'[u] = "SUCCESS"
               /\ pc'[u] = "run" => err'[u] # "LOCK_WAIT"
    <3>1. CASE u = t BY <2>2, <2>3, <2>6, <3>1
    <3>2. CASE u # t
      <4>1. pc'[u] = pc[u] /\ err'[u] = err[u] /\ ~Checking(u)' BY <2>2, <2>3, <2>5, <3>2
      <4>2. pc'[u] = "test_timeout" => ~victim'[u] BY <2>4, <4>1 DEF AnswersAgree
      <4> QED BY <2>6, <3>2, <4>1, <4>2 DEF AnswersAgree
    <3> QED BY <3>1, <3>2
  <2> QED BY <2>7, AnswersAgreeNext
<1>4. ASSUME NEW t \in Trx, WaitsOnlyEnd(t) \/ WaitsOnlyEnd(NoTrx), QueryThreads(NoTrx),
             victim' = victim, err' = err \/ (pc[t] = "run" /\ err' = [err EXCEPT ![t] = "SUCCESS"]),
             WaitsOnlyEnd(t) => pc[t] = "run" \/ WaitsOnlyEnd(NoTrx),
             \A u \in Trx : Checking(u)' => Checking(u)
      PROVE  AnswersAgree'
  <2>1. \A u \in Trx : pc'[u] = pc[u] BY <1>0, <1>4 DEF QueryThreads
  <2>2. \A u \in Trx : que'[u] = "ROLLING_BACK" => que[u] = "ROLLING_BACK" \/ pc[u] = "run"
    BY <1>0, <1>4 DEF WaitsOnlyEnd
  <2>3. \A u \in Trx : err'[u] = err[u] \/ (pc[u] = "run" /\ err'[u] = "SUCCESS")
    BY <1>1, <1>4 DEF ThreadTypes
  <2> QED BY <1>4, <2>1, <2>2, <2>3, AnswersAgreeNext DEF AnswersAgree
<1>5. ASSUME NEW t \in Trx, TrxCall(t) PROVE AnswersAgree'
  <2>1. WaitsOnlyEnd(t) BY <1>1, <1>5, TrxStepsOnlyEnd DEF TrxCall
  <2>2. pc[t] = "run" /\ QueryThreads(NoTrx) BY <1>5 DEF TrxCall
  <2>3. /\ victim' = victim
        /\ err' = err \/ err' = [err EXCEPT ![t] = "SUCCESS"]
        /\ \A u \in Trx : Checking(u)' => Checking(u)
    BY <1>5, OtherAnswers DEF TrxCall
  <2> QED BY <1>4, <2>1, <2>2, <2>3
<1>6. ASSUME NEW t \in Trx, lock_timeout_thread(t) PROVE AnswersAgree'
  <2>1. WaitsOnlyEnd(NoTrx) BY <1>1, <1>6, OthersOnlyEnd DEF lock_timeout_thread
  <2>2. UNCHANGED <<victim, err, kernel>> /\ QueryThreads(NoTrx) BY <1>6 DEF lock_timeout_thread, LockTimeout
  <2>3. \A u \in Trx : Checking(u)' => Checking(u) BY <2>2 DEF Checking
  <2> QED BY <1>4, <2>1, <2>2, <2>3
<1>7. ASSUME PurgeStep PROVE AnswersAgree'
  <2>1. WaitsOnlyEnd(NoTrx) BY <1>1, <1>7, OthersOnlyEnd DEF PurgeStep
  <2>2. UNCHANGED <<victim, err, kernel>> /\ QueryThreads(NoTrx) BY <1>7 DEF PurgeStep, purge_remove
  <2>3. \A u \in Trx : Checking(u)' => Checking(u) BY <2>2 DEF Checking
  <2>4. CASE Trx = {} BY <2>4 DEF AnswersAgree
  <2> QED BY <1>4, <2>1, <2>2, <2>3, <2>4
<1> QED BY <1>3, <1>5, <1>6, <1>7

\* The steps of the waiting thread keep the answers.
LEMMA WaitingThreadAnswers ==
  ASSUME LockInv, ThreadInv, AnswersAgree, NEW t \in Trx, WaitingThread(t) \/ Tick(t)
  PROVE  AnswersAgree'
<1>1. ThreadTypes BY DEF ThreadInv
<1>2. victim \in [Trx -> BOOLEAN] BY DEF LockInv, TypeOK
<1>3. /\ UNCHANGED <<que, kernel>>
      /\ \A u \in Trx : u # t => pc'[u] = pc[u] /\ err'[u] = err[u] /\ victim'[u] = victim[u]
  BY <1>1, <1>2 DEF WaitingThread, que_thr_stop_client, SuspendTooLate, Answer, Return, SuspendReserve, Wake,
    TestTimeout, Tick, vars, ThreadTypes
<1>4. \A u \in Trx : Checking(u)' <=> Checking(u) BY <1>3 DEF Checking
<1>5. /\ pc'[t] = "suspend" => err'[t] = "LOCK_WAIT"
      /\ pc'[t] = "os_event_wait" => err'[t] = "SUCCESS"
      /\ pc'[t] = "test_timeout" => err'[t] \in {"SUCCESS", "DEADLOCK"} /\ ~victim'[t]
      /\ pc'[t] = "run" => err'[t] # "LOCK_WAIT"
      /\ pc[t] # "run"
  <2>1. CASE que_thr_stop_client(t)
    BY <1>1, <2>1 DEF que_thr_stop_client, vars, ThreadTypes
  <2>2. CASE SuspendTooLate(t)
    BY <1>1, <2>2 DEF SuspendTooLate, Answer, Return, ThreadTypes
  <2>3. CASE SuspendReserve(t)
    BY <1>1, <2>3 DEF SuspendReserve, ThreadTypes
  <2>4. CASE Wake(t)
    BY <1>1, <1>2, <2>4 DEF Wake, ThreadTypes, AnswersAgree
  <2>5. CASE TestTimeout(t)
    BY <1>1, <2>5 DEF TestTimeout, Return, ThreadTypes, AnswersAgree
  <2>6. CASE Tick(t)
    BY <2>6 DEF Tick, vars, AnswersAgree
  <2> QED BY <2>1, <2>2, <2>3, <2>4, <2>5, <2>6 DEF WaitingThread
<1> QED BY <1>3, <1>4, <1>5, AnswersAgreeNext DEF AnswersAgree

\* The invariant of locks, threads and answers.
THEOREM WaitingInvariant == SpecWait => [](LockInv /\ WaitInv /\ ThreadInv /\ AnswersAgree)
<1>1. InitWait => AnswersAgree BY DEF InitWait, Init, AnswersAgree, Checking, NoCall, Call
<1>2. InitWait => LockInv /\ WaitInv BY LockInvInit, WaitInvInit DEF InitWait
<1>3. LockInv /\ WaitInv /\ ThreadInv /\ AnswersAgree /\ [NextWait]_waitVars => AnswersAgree'
  <2> SUFFICES ASSUME LockInv, WaitInv, ThreadInv, AnswersAgree, [NextWait]_waitVars PROVE AnswersAgree'
    OBVIOUS
  <2>1. ASSUME UNCHANGED waitVars PROVE AnswersAgree'
    BY <2>1 DEF waitVars, threadVars, vars, AnswersAgree, Checking
  <2> QED BY <2>1, LockManagerAnswers, WaitingThreadAnswers DEF NextWait
<1> QED BY <1>1, <1>2, <1>3, ThreadInvInit, ThreadInvStep, LocksUnderThreadsStep, PTL DEF SpecWait

-----------------------------------------------------------------------------
(* The threads implement the lock manager.                                 *)

\* What the lock manager sees of the answers when only those of t change, t being awake.
LEMMA SeenChange ==
  ASSUME LockInv, ThreadInv, NEW t \in Trx,
         \A u \in Trx : u # t => pc'[u] = pc[u],
         pc[t] \notin {"os_event_wait", "test_timeout"}, pc'[t] \notin {"os_event_wait", "test_timeout"}
  PROVE  /\ ErrSeen[t] = err[t]
         /\ \A e : err' = [err EXCEPT ![t] = e] => ErrSeen' = [ErrSeen EXCEPT ![t] = e]
         /\ err' = err => ErrSeen' = ErrSeen
<1>1. err \in [Trx -> {"SUCCESS", "LOCK_WAIT", "DEADLOCK", "LOCK_WAIT_TIMEOUT"}] BY DEF LockInv, TypeOK
<1>2. ErrSeen[t] = err[t] BY DEF ErrSeen, Pending
<1>3. ASSUME NEW e, err' = [err EXCEPT ![t] = e] PROVE ErrSeen' = [ErrSeen EXCEPT ![t] = e]
  BY <1>1, <1>3 DEF ErrSeen, Pending
<1>4. ASSUME err' = err PROVE ErrSeen' = ErrSeen
  BY <1>1, <1>4 DEF ErrSeen, Pending
<1> QED BY <1>2, <1>3, <1>4

\* What the lock manager sees of the victims in such a step, v being no thread that has
\* already left its sleep.
LEMMA VictimsSeen ==
  ASSUME LockInv, ThreadInv, NEW t \in Trx,
         \A u \in Trx : u # t => pc'[u] = pc[u] /\ err'[u] = err[u],
         pc[t] # "test_timeout", pc'[t] # "test_timeout"
  PROVE  /\ \A v \in Trx, b \in BOOLEAN : pc[v] # "test_timeout" /\ victim' = [victim EXCEPT ![v] = b]
                           => VictimSeen' = [VictimSeen EXCEPT ![v] = b]
         /\ victim' = victim => VictimSeen' = VictimSeen
<1>1. victim \in [Trx -> BOOLEAN] BY DEF LockInv, TypeOK
<1>2. ASSUME NEW v \in Trx, NEW b \in BOOLEAN, pc[v] # "test_timeout", victim' = [victim EXCEPT ![v] = b]
      PROVE  VictimSeen' = [VictimSeen EXCEPT ![v] = b]
  <2>1. \A u \in Trx : VictimSeen'[u] = [VictimSeen EXCEPT ![v] = b][u]
    <3> SUFFICES ASSUME NEW u \in Trx PROVE VictimSeen'[u] = [VictimSeen EXCEPT ![v] = b][u] OBVIOUS
    <3>1. VictimSeen'[u] = (victim'[u] \/ (pc'[u] = "test_timeout" /\ err'[u] = "DEADLOCK")) BY DEF VictimSeen
    <3>2. VictimSeen[u] = (victim[u] \/ (pc[u] = "test_timeout" /\ err[u] = "DEADLOCK")) BY DEF VictimSeen
    <3>3. CASE u = v
      <4>1. pc'[u] # "test_timeout" BY <1>2, <3>3
      <4>2. victim'[u] = b BY <1>1, <1>2, <3>3
      <4>3. [VictimSeen EXCEPT ![v] = b][u] = b BY <3>3 DEF VictimSeen
      <4> QED BY <3>1, <4>1, <4>2, <4>3
    <3>4. CASE u # v
      <4>1. victim'[u] = victim[u] BY <1>1, <1>2, <3>4
      <4>2. [VictimSeen EXCEPT ![v] = b][u] = VictimSeen[u] BY <3>4 DEF VictimSeen
      <4>3. CASE u = t BY <3>1, <3>2, <4>1, <4>2, <4>3
      <4>4. CASE u # t BY <3>1, <3>2, <4>1, <4>2, <4>4
      <4> QED BY <4>3, <4>4
    <3> QED BY <3>3, <3>4
  <2>2. VictimSeen' = [u \in Trx |-> VictimSeen'[u]] BY DEF VictimSeen
  <2>3. [VictimSeen EXCEPT ![v] = b] = [u \in Trx |-> [VictimSeen EXCEPT ![v] = b][u]] BY DEF VictimSeen
  <2> QED BY <2>1, <2>2, <2>3
<1>3. ASSUME victim' = victim PROVE VictimSeen' = VictimSeen
  BY <1>3 DEF VictimSeen
<1> QED BY <1>2, <1>3

\* A step of the lock manager is the same step in the eyes of its specification.
LEMMA LockManagerSeen ==
  ASSUME LockInv, WaitInv, ThreadInv, AnswersAgree,
         \/ \E t \in Trx : LockCall(t) \/ TrxCall(t) \/ lock_timeout_thread(t)
         \/ PurgeStep
  PROVE  Abs!Next
<1>0. NoTrx \notin Trx BY ConstantsAssumption
<1>1. ThreadTypes /\ WaitsAreOwn BY DEF ThreadInv
<1>2. ASSUME NEW t \in Trx, LockCall(t) PROVE Abs!ClientRequest(t) \/ Abs!DeadlockCheck(t)
  <2>1. WaitsOnlyEnd(t) BY <1>1, <1>2, RequestsOnlyEnd, ChecksOnlyEnd DEF LockCall
  <2>2. pc[t] = "run" /\ \A u \in Trx : pc'[u] = IF u = t /\ err'[u] # "SUCCESS" THEN "stop_client" ELSE pc[u]
    BY <1>2 DEF LockCall, QueryThreads
  <2>3. \A u \in Trx : u # t => pc'[u] = pc[u] /\ err'[u] = err[u] BY <2>1, <2>2 DEF WaitsOnlyEnd
  <2>4. /\ ErrSeen[t] = err[t]
        /\ \A e : err' = [err EXCEPT ![t] = e] => ErrSeen' = [ErrSeen EXCEPT ![t] = e]
        /\ err' = err => ErrSeen' = ErrSeen
    BY <2>2, <2>3, SeenChange
  <2>5. /\ \A v \in Trx, b \in BOOLEAN : pc[v] # "test_timeout" /\ victim' = [victim EXCEPT ![v] = b]
                           => VictimSeen' = [VictimSeen EXCEPT ![v] = b]
        /\ victim' = victim => VictimSeen' = VictimSeen
    BY <2>2, <2>3, VictimsSeen
  <2>6. err[t] = "SUCCESS" BY <1>2, CallAnswers DEF LockCall
  <2>7. CASE ClientRequest(t)
    <3>1. err' = err /\ victim' = victim BY <2>7, RequestAnswers
    <3> QED BY <2>4, <2>5, <2>6, <2>7, <3>1, RequestsSeen
  <2>8. CASE DeadlockCheck(t)
    <3>1. \A v \in Closers(t) : pc[v] # "test_timeout" /\ v \in Trx
      BY <1>1, ClosersSleep DEF WaitsAreOwn
    <3>2. \A v \in Closers(t) : victim' = [victim EXCEPT ![v] = TRUE]
                                  => VictimSeen' = [VictimSeen EXCEPT ![v] = TRUE]
      BY <2>5, <3>1
    <3>3. victim' = [victim EXCEPT ![t] = FALSE] => VictimSeen' = [VictimSeen EXCEPT ![t] = FALSE]
      BY <2>2, <2>5
    <3> QED BY <2>4, <2>5, <2>8, <3>2, <3>3, ChecksSeen
  <2> QED BY <1>2, <2>7, <2>8 DEF LockCall
<1>3. ASSUME NEW t \in Trx, QueryThreads(NoTrx) PROVE \A u \in Trx : pc'[u] = pc[u]
  BY <1>0, <1>3 DEF QueryThreads
<1>4. ASSUME NEW t \in Trx, TrxCall(t) PROVE Abs!TrxStep(t) \/ Abs!ReportTimeout(t)
  <2>1. pc[t] = "run" /\ \A u \in Trx : pc'[u] = pc[u] BY <1>3, <1>4 DEF TrxCall
  <2>2. WaitsOnlyEnd(t) BY <1>1, <1>4, TrxStepsOnlyEnd DEF TrxCall
  <2>3. \A u \in Trx : u # t => pc'[u] = pc[u] /\ err'[u] = err[u] BY <2>1, <2>2 DEF WaitsOnlyEnd
  <2>4. /\ ErrSeen[t] = err[t]
        /\ \A e : err' = [err EXCEPT ![t] = e] => ErrSeen' = [ErrSeen EXCEPT ![t] = e]
        /\ err' = err => ErrSeen' = ErrSeen
    BY <2>1, <2>3, SeenChange
  <2>5. victim' = victim BY <1>4, OtherAnswers DEF TrxCall
  <2>6. VictimSeen' = VictimSeen BY <2>1, <2>3, <2>5, VictimsSeen
  <2>7. CASE TrxStep(t) BY <2>4, <2>6, <2>7, TrxStepsSeen
  <2>8. CASE ReportTimeout(t)
    BY <2>4, <2>6, <2>8 DEF ReportTimeout, Abs!ReportTimeout, rowVars, Abs!rowVars
  <2> QED BY <1>4, <2>7, <2>8 DEF TrxCall
<1>5. ASSUME UNCHANGED <<victim, err>>, QueryThreads(NoTrx) PROVE UNCHANGED <<ErrSeen, VictimSeen>>
  <2>1. \A u \in Trx : pc'[u] = pc[u] BY <1>0, <1>5 DEF QueryThreads
  <2> QED BY <1>5, <2>1 DEF ErrSeen, Pending, VictimSeen
<1>6. ASSUME NEW t \in Trx, lock_timeout_thread(t) PROVE Abs!LockTimeout(t)
  <2>1. LockTimeout(t) /\ QueryThreads(NoTrx) /\ UNCHANGED <<victim, err>>
    BY <1>6 DEF lock_timeout_thread, LockTimeout
  <2> QED BY <1>5, <2>1, TimeoutSeen
<1>7. ASSUME PurgeStep PROVE \E p \in Pages, k \in Keys : Abs!purge_remove(p, k)
  <2>1. PICK p \in Pages, k \in Keys : purge_remove(p, k) BY <1>7 DEF PurgeStep
  <2>2. QueryThreads(NoTrx) /\ UNCHANGED <<victim, err>> BY <1>7, <2>1 DEF PurgeStep, purge_remove
  <2> QED BY <1>5, <2>1, <2>2, PurgeSeen
<1>8. Abs!Keys = Keys BY SameCounts
<1> QED BY <1>2, <1>4, <1>6, <1>7, <1>8 DEF Abs!Next, Abs!WaitStep

\* Of the steps of the waiting thread the lock manager sees the last one, which returns the
\* answer, as its ResumeWait, and nothing of the others.
LEMMA WaitingThreadSeen ==
  ASSUME LockInv, WaitInv, ThreadInv, AnswersAgree, NEW t \in Trx, WaitingThread(t) \/ Tick(t)
  PROVE  Abs!ResumeWait(t) \/ UNCHANGED Abs!vars
<1>1. ThreadTypes /\ QueryThreadsAgree /\ WaitsAreOwn BY DEF ThreadInv
<1>2. victim \in [Trx -> BOOLEAN] BY DEF LockInv, TypeOK
<1>3. /\ UNCHANGED <<locks, conc, que, rec, rec_trx, undo, kernel>>
      /\ \A u \in Trx : u # t => pc'[u] = pc[u] /\ err'[u] = err[u] /\ victim'[u] = victim[u]
  BY <1>1, <1>2 DEF WaitingThread, que_thr_stop_client, SuspendTooLate, Answer, Return, SuspendReserve, Wake,
    TestTimeout, Tick, vars, rowVars, ThreadTypes
<1>4. \A u \in Trx : u # t => ErrSeen'[u] = ErrSeen[u] /\ VictimSeen'[u] = VictimSeen[u]
  BY <1>3 DEF ErrSeen, Pending, VictimSeen
<1>5. /\ ErrSeen = [u \in Trx |-> ErrSeen[u]] /\ ErrSeen' = [u \in Trx |-> ErrSeen'[u]]
      /\ VictimSeen = [u \in Trx |-> VictimSeen[u]] /\ VictimSeen' = [u \in Trx |-> VictimSeen'[u]]
  BY DEF ErrSeen, VictimSeen
<1>6. ErrSeen[t] = IF err[t] = "LOCK_WAIT" \/ pc[t] \in {"os_event_wait", "test_timeout"} THEN "LOCK_WAIT" ELSE err[t]
  BY DEF ErrSeen, Pending
<1>7. ErrSeen'[t] = IF err'[t] = "LOCK_WAIT" \/ pc'[t] \in {"os_event_wait", "test_timeout"} THEN "LOCK_WAIT" ELSE err'[t]
  BY DEF ErrSeen, Pending
<1>8. VictimSeen[t] = (victim[t] \/ (pc[t] = "test_timeout" /\ err[t] = "DEADLOCK")) BY DEF VictimSeen
<1>9. VictimSeen'[t] = (victim'[t] \/ (pc'[t] = "test_timeout" /\ err'[t] = "DEADLOCK")) BY DEF VictimSeen
<1>10. ASSUME ErrSeen'[t] = ErrSeen[t], VictimSeen'[t] = VictimSeen[t] PROVE UNCHANGED Abs!vars
  <2>1. ErrSeen' = ErrSeen /\ VictimSeen' = VictimSeen
    <3>1. \A u \in Trx : ErrSeen'[u] = ErrSeen[u] /\ VictimSeen'[u] = VictimSeen[u] BY <1>4, <1>10
    <3> HIDE DEF ErrSeen, VictimSeen
    <3> QED BY <1>5, <3>1
  <2> QED BY <1>3, <2>1 DEF Abs!vars
<1>11. ASSUME ErrSeen[t] = "LOCK_WAIT", que[t] = "RUNNING",
              ErrSeen'[t] \in {IF VictimSeen[t] THEN "DEADLOCK" ELSE "SUCCESS", "LOCK_WAIT_TIMEOUT"},
              VictimSeen'[t] = FALSE
       PROVE  Abs!ResumeWait(t)
  <2>1. ErrSeen' = [ErrSeen EXCEPT ![t] = ErrSeen'[t]] /\ VictimSeen' = [VictimSeen EXCEPT ![t] = FALSE]
    BY <1>4, <1>5, <1>11
  <2>2. ErrSeen' \in {[ErrSeen EXCEPT ![t] = e] :
                         e \in {IF VictimSeen[t] THEN "DEADLOCK" ELSE "SUCCESS", "LOCK_WAIT_TIMEOUT"}}
    BY <1>11, <2>1
  <2> QED BY <1>3, <1>11, <2>1, <2>2 DEF Abs!ResumeWait, Abs!rowVars
<1>12. que[t] \in {"RUNNING", "LOCK_WAIT"} \/ pc[t] = "run" BY <1>1 DEF ThreadTypes, AnswersAgree
<1>13. CASE que_thr_stop_client(t)
  <2>1. /\ err' = err /\ victim' = victim /\ pc[t] = "stop_client"
        /\ pc'[t] \in {"suspend", "run"}
    BY <1>1, <1>13 DEF que_thr_stop_client, vars, ThreadTypes
  <2> QED BY <1>6, <1>7, <1>8, <1>9, <1>10, <2>1
<1>14. CASE Tick(t)
  <2>1. err' = err /\ victim' = victim /\ pc' = pc BY <1>14 DEF Tick, vars
  <2> QED BY <1>6, <1>7, <1>8, <1>9, <1>10, <2>1
<1>15. CASE SuspendTooLate(t)
  <2>1. /\ pc[t] = "suspend" /\ thr[t] = "RUNNING"
        /\ err'[t] = (IF victim[t] THEN "DEADLOCK" ELSE "SUCCESS")
        /\ victim'[t] = FALSE /\ pc'[t] \in {"run", "stop_client"}
    BY <1>1, <1>2, <1>15 DEF SuspendTooLate, Answer, Return, ThreadTypes
  <2>2. err[t] = "LOCK_WAIT" /\ que[t] = "RUNNING"
    BY <1>1, <1>12, <2>1 DEF AnswersAgree, QueryThreadsAgree
  <2>3. ErrSeen'[t] = (IF VictimSeen[t] THEN "DEADLOCK" ELSE "SUCCESS") BY <1>7, <1>8, <2>1
  <2>4. VictimSeen'[t] = FALSE BY <1>9, <2>1
  <2> QED BY <1>6, <1>11, <2>2, <2>3, <2>4
<1>16. CASE SuspendReserve(t)
  <2>1. pc[t] = "suspend" /\ pc'[t] = "os_event_wait" /\ victim' = victim
    BY <1>1, <1>16 DEF SuspendReserve, ThreadTypes
  <2>2. err[t] = "LOCK_WAIT" BY <2>1 DEF AnswersAgree
  <2> QED BY <1>6, <1>7, <1>8, <1>9, <1>10, <2>1, <2>2
<1>17. CASE Wake(t)
  <2>1. /\ pc[t] = "os_event_wait" /\ pc'[t] = "test_timeout" /\ victim'[t] = FALSE
        /\ err'[t] = (IF victim[t] THEN "DEADLOCK" ELSE err[t])
    BY <1>1, <1>2, <1>17 DEF Wake, ThreadTypes
  <2>2. err[t] = "SUCCESS" /\ victim[t] \in BOOLEAN BY <1>2, <2>1 DEF AnswersAgree
  <2>3. VictimSeen'[t] = VictimSeen[t] BY <1>8, <1>9, <2>1, <2>2
  <2> QED BY <1>6, <1>7, <1>10, <2>1, <2>3
<1>18. CASE TestTimeout(t)
  <2>1. /\ pc[t] = "test_timeout" /\ pc'[t] \in {"run", "stop_client"} /\ victim' = victim
        /\ err'[t] = (IF late[t] THEN "LOCK_WAIT_TIMEOUT" ELSE err[t])
    BY <1>1, <1>18 DEF TestTimeout, Return, ThreadTypes
  <2>2. err[t] \in {"SUCCESS", "DEADLOCK"} /\ ~victim[t] BY <2>1 DEF AnswersAgree
  <2>3. que[t] = "RUNNING" BY <1>1, <1>12, <2>1 DEF WaitsAreOwn
  <2>4. VictimSeen'[t] = FALSE BY <1>9, <2>1, <2>2
  <2>5. VictimSeen[t] = (err[t] = "DEADLOCK") BY <1>8, <2>1, <2>2
  <2>6. ErrSeen'[t] = err'[t] BY <1>7, <2>1, <2>2
  <2>7. ErrSeen'[t] \in {IF VictimSeen[t] THEN "DEADLOCK" ELSE "SUCCESS", "LOCK_WAIT_TIMEOUT"}
    BY <2>1, <2>2, <2>5, <2>6
  <2> QED BY <1>6, <1>11, <2>1, <2>3, <2>4, <2>7
<1> QED BY <1>13, <1>14, <1>15, <1>16, <1>17, <1>18 DEF WaitingThread

\* The steps of the waiting threads (que_thr_stop_client, suspend_user_thread,
\* lock_timeout_thread) implement the lock manager's specification, for any number of
\* transactions, tables, pages, records and slots.
THEOREM ThreadsImplementLockSys == SpecWait => WaitImplementsLockSys
<1>1. InitWait => Abs!Init
  <2> SUFFICES ASSUME InitWait PROVE Abs!Init OBVIOUS
  <2>1. ErrSeen = [t \in Trx |-> "SUCCESS"] BY DEF InitWait, Init, ErrSeen, Pending
  <2>2. VictimSeen = [t \in Trx |-> FALSE] BY DEF InitWait, Init, VictimSeen
  <2> QED BY <2>1, <2>2, SameCounts DEF InitWait, Init, Abs!Init
<1>2. LockInv /\ WaitInv /\ ThreadInv /\ AnswersAgree /\ [NextWait]_waitVars => [Abs!Next]_(Abs!vars)
  <2> SUFFICES ASSUME LockInv, WaitInv, ThreadInv, AnswersAgree, [NextWait]_waitVars
               PROVE  Abs!Next \/ UNCHANGED Abs!vars
    OBVIOUS
  <2>1. ASSUME UNCHANGED waitVars PROVE UNCHANGED Abs!vars
    BY <2>1 DEF waitVars, threadVars, vars, Abs!vars, ErrSeen, Pending, VictimSeen
  <2>2. ASSUME NEW t \in Trx, Abs!ResumeWait(t) PROVE Abs!Next BY <2>2 DEF Abs!Next, Abs!WaitStep
  <2> QED BY <2>1, <2>2, LockManagerSeen, WaitingThreadSeen DEF NextWait
<1> QED BY <1>1, <1>2, WaitingInvariant, PTL DEF SpecWait, WaitImplementsLockSys, Abs!Spec
=============================================================================
