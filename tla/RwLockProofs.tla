--------------------------- MODULE RwLockProofs ---------------------------
(***************************************************************************)
(* RwInv is an inductive invariant of the rw-lock for any number of        *)
(* threads and any depth of nesting, as long as nowait is not used for a   *)
(* third x-lock.  Mutual exclusion, the meaning of the lock word and the   *)
(* validity of the recursion flag follow from it.  SignalInv, inductive    *)
(* next to it, says who will still signal a thread that sleeps: no signal  *)
(* is lost between a release and the sync array.                           *)
(***************************************************************************)
EXTENDS RwLock, FiniteSetTheorems, TLAPS

-----------------------------------------------------------------------------
(* Arithmetic of the lock word.                                            *)

\* What one more or one less x-lock does to the lock word.
LEMMA XWordFacts ==
  /\ \A n \in Nat : XWord(n) \in Int
  /\ \A n \in Nat : XWord(n + 1) = XWord(n) - X_LOCK_DECR
  /\ \A n \in Nat : n > 0 => XWord(n) <= 0 /\ XWord(n - 1) = XWord(n) + X_LOCK_DECR
  /\ XWord(0) = X_LOCK_DECR /\ XWord(1) = 0
  /\ X_LOCK_DECR \in Nat /\ X_LOCK_DECR > 0
<1>0. X_LOCK_DECR \in Nat /\ X_LOCK_DECR > 0
  BY ThreadsAssumption, FS_CardinalityType
<1> QED BY <1>0 DEF XWord

\* The number of readers when one comes or leaves.
LEMMA ReaderFacts ==
  ASSUME NEW r \in SUBSET Threads
  PROVE  /\ Cardinality(r) \in Nat
         /\ Cardinality(r) = 0 <=> r = {}
         /\ \A t \in Threads \ r : Cardinality(r \cup {t}) = Cardinality(r) + 1
         /\ \A t \in r : Cardinality(r \ {t}) = Cardinality(r) - 1
<1>0. IsFiniteSet(r) BY ThreadsAssumption, FS_Subset
<1> QED BY <1>0, FS_CardinalityType, FS_EmptySet, FS_AddElement, FS_RemoveElement

\* While the lock word is positive nobody has, or is about to have, the x-lock.
LEMMA PositiveWord ==
  ASSUME RwInv, lock_word > 0
  PROVE  /\ \A t \in Threads : x[t] = 0
         /\ passed = FALSE
         /\ lock_word = X_LOCK_DECR - Cardinality(readers)
<1>1. Cardinality(readers) \in Nat BY ReaderFacts DEF RwInv, Types
<1>2. \A t \in Threads : x[t] = 0
  <2> SUFFICES ASSUME NEW t \in Threads, x[t] > 0 PROVE FALSE BY DEF RwInv, Types
  <2>1. lock_word = XWord(x[t]) - Cardinality(readers) BY DEF RwInv, LockWordCounts
  <2>2. x[t] \in Nat BY DEF RwInv, Types
  <2>3. XWord(x[t]) \in Int /\ XWord(x[t]) <= 0 BY <2>2, XWordFacts
  <2> QED BY <1>1, <2>1, <2>3 DEF RwInv, Types
<1>3. passed = FALSE BY <1>1, XWordFacts DEF RwInv, Types, LockWordCounts
<1> QED BY <1>1, <1>2, <1>3, XWordFacts DEF RwInv, LockWordCounts

-----------------------------------------------------------------------------
(* What a step of thread t leaves to show.                                 *)

\* The other threads stay where they are.
Frame(t) == \A u \in Threads \ {t} : pc'[u] = pc[u] /\ op'[u] = op[u] /\ x'[u] = x[u]

\* A step of t keeps what another thread knows.
LEMMA OtherCallKept ==
  ASSUME NEW u \in Threads, CallOK(u),
         pc'[u] = pc[u], op'[u] = op[u], x'[u] = x[u],
         x[u] > 0 => writer_thread' = writer_thread /\ (recursive' => recursive),
         writer_thread' = u => writer_thread = u
  PROVE  CallOK(u)'
BY DEF CallOK, At

\* The invariant after a step of t that changes the lock.
LEMMA LockChange ==
  ASSUME RwInv, NEW t \in Threads, Types', Frame(t),
         writer_thread' \in {writer_thread, t},
         x[t] = 0 => writer_thread' = writer_thread /\ (recursive' => recursive),
         OneOwner', LockWordCounts', RecursiveFlagValid', CallOK(t)',
         readers' \subseteq readers \cup {t}, t \in readers' => pc'[t] = "idle",
         readers' \subseteq readers \/ \A u \in Threads : x'[u] = 0,
         XHeld(t)' => readers' = {},
         passed' => readers' = {}
  PROVE  RwInv'
<1>1. CallsOK'
  <2> SUFFICES ASSUME NEW u \in Threads, u # t PROVE CallOK(u)' BY DEF CallsOK
  <2>1. x[u] > 0 => x[t] = 0 BY DEF RwInv, OneOwner, Types
  <2>2. writer_thread' = u => writer_thread = u OBVIOUS
  <2>3. pc'[u] = pc[u] /\ op'[u] = op[u] /\ x'[u] = x[u] BY DEF Frame
  <2>4. CallOK(u) BY DEF RwInv, CallsOK
  <2> QED BY <2>1, <2>2, <2>3, <2>4, OtherCallKept
<1>2. ReadersIdle'
  <2> SUFFICES ASSUME NEW u \in readers', u # t PROVE pc'[u] = "idle" BY DEF ReadersIdle, At
  <2>1. u \in readers /\ u \in Threads BY DEF Types
  <2>2. pc[u] = "idle" BY <2>1 DEF RwInv, ReadersIdle, At
  <2> QED BY <2>1, <2>2 DEF Frame
<1>3. OnlyEntering'
  <2> SUFFICES ASSUME NEW u \in Threads, u # t, XHeld(u)' PROVE readers' = {} BY DEF OnlyEntering
  <2>1. pc'[u] = pc[u] /\ op'[u] = op[u] /\ x'[u] = x[u] BY DEF Frame
  <2>2. XHeld(u) /\ x'[u] > 0 BY <2>1 DEF XHeld, Entering
  <2>3. readers = {} BY <2>2 DEF RwInv, OnlyEntering
  <2>4. readers' \subseteq readers BY <2>2 DEF Types
  <2> QED BY <2>3, <2>4
<1> QED BY <1>1, <1>2, <1>3 DEF RwInv

\* The invariant after a step of t that leaves the lock alone.
LEMMA QuietStep ==
  ASSUME RwInv, NEW t \in Threads, Types', Frame(t), UNCHANGED lockVars, CallOK(t)',
         t \in readers => pc'[t] = "idle",
         XHeld(t)' => XHeld(t),
         op'[t] = "pass" => op[t] = "pass" \/ x[t] = 0
  PROVE  RwInv'
<1>0. /\ lock_word' = lock_word /\ recursive' = recursive /\ writer_thread' = writer_thread
      /\ readers' = readers /\ x' = x /\ passed' = passed
  BY DEF lockVars
<1>1. OneOwner' BY <1>0 DEF RwInv, OneOwner
<1>2. LockWordCounts' BY <1>0 DEF RwInv, LockWordCounts
<1>3. RecursiveFlagValid'
  <2> SUFFICES ASSUME recursive
               PROVE  writer_thread \in Threads /\ x[writer_thread] > 0 /\ op'[writer_thread] # "pass"
    BY <1>0 DEF RecursiveFlagValid
  <2>1. writer_thread \in Threads /\ x[writer_thread] > 0 /\ op[writer_thread] # "pass"
    BY DEF RwInv, RecursiveFlagValid
  <2> QED BY <2>1 DEF Frame, RwInv, Types
<1>4. (XHeld(t)' => readers' = {}) /\ (passed' => readers' = {})
  BY <1>0 DEF RwInv, OnlyEntering
<1> QED BY <1>0, <1>1, <1>2, <1>3, <1>4, LockChange

-----------------------------------------------------------------------------
(* The steps that leave the lock alone.                                    *)

\* An s-lock attempt fails.
LEMMA Keeps_SLockFailed ==
  ASSUME RwInv, NEW t \in Threads, SLockFailed(t)
  PROVE  RwInv'
<1> USE DEF SLockFailed, Goto, At, Failed, lockVars, waitVars
<1>1. Types' BY DEF RwInv, Types, Steps, Events
<1>2. Frame(t) BY DEF RwInv, Types, Frame
<1>3. CallOK(t)' BY DEF RwInv, Types, CallsOK, CallOK
<1>4. t \in readers => pc'[t] = "idle" BY DEF RwInv, Types, ReadersIdle
<1>5. XHeld(t)' => XHeld(t) BY DEF RwInv, Types, CallsOK, CallOK, XHeld, Entering
<1>6. op'[t] = "pass" => op[t] = "pass" \/ x[t] = 0 BY DEF RwInv, Types
<1>7. UNCHANGED lockVars OBVIOUS
<1> QED BY <1>1, <1>2, <1>3, <1>4, <1>5, <1>6, <1>7, QuietStep

\* A cell is reserved, and event reset.
LEMMA Keeps_Reserve ==
  ASSUME RwInv, NEW t \in Threads, Reserve(t)
  PROVE  RwInv'
<1> USE DEF Reserve, Goto, At, sync_array_reserve_cell, lockVars
<1>1. Types' BY DEF RwInv, Types, Steps, Events
<1>2. Frame(t) BY DEF RwInv, Types, Frame
<1>3. CallOK(t)' BY DEF RwInv, Types, CallsOK, CallOK
<1>4. t \in readers => pc'[t] = "idle" BY DEF RwInv, Types, ReadersIdle
<1>5. XHeld(t)' => XHeld(t) BY DEF RwInv, Types, CallsOK, CallOK, XHeld, Entering
<1>6. op'[t] = "pass" => op[t] = "pass" \/ x[t] = 0 BY DEF RwInv, Types
<1>7. UNCHANGED lockVars OBVIOUS
<1> QED BY <1>1, <1>2, <1>3, <1>4, <1>5, <1>6, <1>7, QuietStep

\* The flag is set before the lock word is tested again.
LEMMA Keeps_rw_lock_set_waiter_flag ==
  ASSUME RwInv, NEW t \in Threads, rw_lock_set_waiter_flag(t)
  PROVE  RwInv'
<1> USE DEF rw_lock_set_waiter_flag, Goto, At, lockVars
<1>1. Types' BY DEF RwInv, Types, Steps, Events
<1>2. Frame(t) BY DEF RwInv, Types, Frame
<1>3. CallOK(t)' BY DEF RwInv, Types, CallsOK, CallOK
<1>4. t \in readers => pc'[t] = "idle" BY DEF RwInv, Types, ReadersIdle
<1>5. XHeld(t)' => XHeld(t) BY DEF RwInv, Types, CallsOK, CallOK, XHeld, Entering
<1>6. op'[t] = "pass" => op[t] = "pass" \/ x[t] = 0 BY DEF RwInv, Types
<1>7. UNCHANGED lockVars OBVIOUS
<1> QED BY <1>1, <1>2, <1>3, <1>4, <1>5, <1>6, <1>7, QuietStep

\* A thread asleep on event goes on.
LEMMA Keeps_sync_array_wait_event ==
  ASSUME RwInv, NEW t \in Threads, sync_array_wait_event(t)
  PROVE  RwInv'
<1> USE DEF sync_array_wait_event, Goto, At, lockVars
<1>1. Types' BY DEF RwInv, Types, Steps, Events
<1>2. Frame(t) BY DEF RwInv, Types, Frame
<1>3. CallOK(t)' BY DEF RwInv, Types, CallsOK, CallOK
<1>4. t \in readers => pc'[t] = "idle" BY DEF RwInv, Types, ReadersIdle
<1>5. XHeld(t)' => XHeld(t) BY DEF RwInv, Types, CallsOK, CallOK, XHeld, Entering
<1>6. op'[t] = "pass" => op[t] = "pass" \/ x[t] = 0 BY DEF RwInv, Types
<1>7. UNCHANGED lockVars OBVIOUS
<1> QED BY <1>1, <1>2, <1>3, <1>4, <1>5, <1>6, <1>7, QuietStep

\* The lock word is not positive.
LEMMA Keeps_XDecrementFailed ==
  ASSUME RwInv, NEW t \in Threads, XDecrementFailed(t)
  PROVE  RwInv'
<1> USE DEF XDecrementFailed, Goto, At, Failed, lockVars, waitVars
<1>1. Types' BY DEF RwInv, Types, Steps, Events
<1>2. Frame(t) BY DEF RwInv, Types, Frame
<1>3. CallOK(t)' BY DEF RwInv, Types, CallsOK, CallOK
<1>4. t \in readers => pc'[t] = "idle" BY DEF RwInv, Types, ReadersIdle
<1>5. XHeld(t)' => XHeld(t) BY DEF RwInv, Types, CallsOK, CallOK, XHeld, Entering
<1>6. op'[t] = "pass" => op[t] = "pass" \/ x[t] = 0 BY DEF RwInv, Types
<1>7. UNCHANGED lockVars OBVIOUS
<1> QED BY <1>1, <1>2, <1>3, <1>4, <1>5, <1>6, <1>7, QuietStep

\* The next writer finds readers.
LEMMA Keeps_XWaits ==
  ASSUME RwInv, NEW t \in Threads, XWaits(t)
  PROVE  RwInv'
<1> USE DEF XWaits, Goto, At, lockVars, waitVars
<1>1. Types' BY DEF RwInv, Types, Steps, Events
<1>2. Frame(t) BY DEF RwInv, Types, Frame
<1>3. CallOK(t)' BY DEF RwInv, Types, CallsOK, CallOK
<1>4. t \in readers => pc'[t] = "idle" BY DEF RwInv, Types, ReadersIdle
<1>5. XHeld(t)' => XHeld(t) BY DEF RwInv, Types, CallsOK, CallOK, XHeld, Entering
<1>6. op'[t] = "pass" => op[t] = "pass" \/ x[t] = 0 BY DEF RwInv, Types
<1>7. UNCHANGED lockVars OBVIOUS
<1> QED BY <1>1, <1>2, <1>3, <1>4, <1>5, <1>6, <1>7, QuietStep

\* The next writer reserves its cell.
LEMMA Keeps_ExReserve ==
  ASSUME RwInv, NEW t \in Threads, ExReserve(t)
  PROVE  RwInv'
<1> USE DEF ExReserve, Goto, At, sync_array_reserve_cell, lockVars
<1>1. Types' BY DEF RwInv, Types, Steps, Events
<1>2. Frame(t) BY DEF RwInv, Types, Frame
<1>3. CallOK(t)' BY DEF RwInv, Types, CallsOK, CallOK
<1>4. t \in readers => pc'[t] = "idle" BY DEF RwInv, Types, ReadersIdle
<1>5. XHeld(t)' => XHeld(t) BY DEF RwInv, Types, CallsOK, CallOK, XHeld, Entering
<1>6. op'[t] = "pass" => op[t] = "pass" \/ x[t] = 0 BY DEF RwInv, Types
<1>7. UNCHANGED lockVars OBVIOUS
<1> QED BY <1>1, <1>2, <1>3, <1>4, <1>5, <1>6, <1>7, QuietStep

\* The next writer tests the lock word again.
LEMMA Keeps_ExCheck ==
  ASSUME RwInv, NEW t \in Threads, ExCheck(t)
  PROVE  RwInv'
<1> USE DEF ExCheck, Goto, At, lockVars
<1>1. Types'
  <2>1. cell' \in [Threads -> [Events -> {"free", "reserved", "signalled"}]]
    BY DEF RwInv, Types, Events
  <2>2. pc' \in [Threads -> Steps] BY DEF RwInv, Types, Steps
  <2> QED BY <2>1, <2>2 DEF RwInv, Types
<1>2. Frame(t) BY DEF RwInv, Types, Frame
<1>3. CallOK(t)' BY DEF RwInv, Types, CallsOK, CallOK
<1>4. t \in readers => pc'[t] = "idle" BY DEF RwInv, Types, ReadersIdle
<1>5. XHeld(t)' => XHeld(t) BY DEF RwInv, Types, CallsOK, CallOK, XHeld, Entering
<1>6. op'[t] = "pass" => op[t] = "pass" \/ x[t] = 0 BY DEF RwInv, Types
<1>7. UNCHANGED lockVars OBVIOUS
<1> QED BY <1>1, <1>2, <1>3, <1>4, <1>5, <1>6, <1>7, QuietStep

\* The next writer is woken.
LEMMA Keeps_ExSleep ==
  ASSUME RwInv, NEW t \in Threads, ExSleep(t)
  PROVE  RwInv'
<1> USE DEF ExSleep, Goto, At, lockVars
<1>1. Types' BY DEF RwInv, Types, Steps, Events
<1>2. Frame(t) BY DEF RwInv, Types, Frame
<1>3. CallOK(t)' BY DEF RwInv, Types, CallsOK, CallOK
<1>4. t \in readers => pc'[t] = "idle" BY DEF RwInv, Types, ReadersIdle
<1>5. XHeld(t)' => XHeld(t) BY DEF RwInv, Types, CallsOK, CallOK, XHeld, Entering
<1>6. op'[t] = "pass" => op[t] = "pass" \/ x[t] = 0 BY DEF RwInv, Types
<1>7. UNCHANGED lockVars OBVIOUS
<1> QED BY <1>1, <1>2, <1>3, <1>4, <1>5, <1>6, <1>7, QuietStep

\* The last reader signals the next writer.
LEMMA Keeps_ExSignal ==
  ASSUME RwInv, NEW t \in Threads, ExSignal(t)
  PROVE  RwInv'
<1> USE DEF ExSignal, At, os_event_set, lockVars
<1>1. Types' BY DEF RwInv, Types, Steps, Events
<1>2. Frame(t) BY DEF RwInv, Types, Frame
<1>3. CallOK(t)' BY DEF RwInv, Types, CallsOK, CallOK
<1>4. t \in readers => pc'[t] = "idle" BY DEF RwInv, Types, ReadersIdle
<1>5. XHeld(t)' => XHeld(t) BY DEF RwInv, Types, CallsOK, CallOK, XHeld, Entering
<1>6. op'[t] = "pass" => op[t] = "pass" \/ x[t] = 0 BY DEF RwInv, Types
<1>7. UNCHANGED lockVars OBVIOUS
<1> QED BY <1>1, <1>2, <1>3, <1>4, <1>5, <1>6, <1>7, QuietStep

\* The last writer looks at the flag.
LEMMA Keeps_TestWaiters ==
  ASSUME RwInv, NEW t \in Threads, TestWaiters(t)
  PROVE  RwInv'
<1> USE DEF TestWaiters, Goto, Return, At, lockVars
<1>1. Types'
  <2>1. cell' \in [Threads -> [Events -> {"free", "reserved", "signalled"}]]
    BY DEF RwInv, Types, Events
  <2>2. pc' \in [Threads -> Steps] BY DEF RwInv, Types, Steps
  <2> QED BY <2>1, <2>2 DEF RwInv, Types
<1>2. Frame(t) BY DEF RwInv, Types, Frame
<1>3. CallOK(t)' BY DEF RwInv, Types, CallsOK, CallOK
<1>4. t \in readers => pc'[t] = "idle" BY DEF RwInv, Types, ReadersIdle
<1>5. XHeld(t)' => XHeld(t) BY DEF RwInv, Types, CallsOK, CallOK, XHeld, Entering
<1>6. op'[t] = "pass" => op[t] = "pass" \/ x[t] = 0 BY DEF RwInv, Types
<1>7. UNCHANGED lockVars OBVIOUS
<1> QED BY <1>1, <1>2, <1>3, <1>4, <1>5, <1>6, <1>7, QuietStep

\* The flag is reset before the signal.
LEMMA Keeps_rw_lock_reset_waiter_flag ==
  ASSUME RwInv, NEW t \in Threads, rw_lock_reset_waiter_flag(t)
  PROVE  RwInv'
<1> USE DEF rw_lock_reset_waiter_flag, Goto, At, lockVars
<1>1. Types' BY DEF RwInv, Types, Steps, Events
<1>2. Frame(t) BY DEF RwInv, Types, Frame
<1>3. CallOK(t)' BY DEF RwInv, Types, CallsOK, CallOK
<1>4. t \in readers => pc'[t] = "idle" BY DEF RwInv, Types, ReadersIdle
<1>5. XHeld(t)' => XHeld(t) BY DEF RwInv, Types, CallsOK, CallOK, XHeld, Entering
<1>6. op'[t] = "pass" => op[t] = "pass" \/ x[t] = 0 BY DEF RwInv, Types
<1>7. UNCHANGED lockVars OBVIOUS
<1> QED BY <1>1, <1>2, <1>3, <1>4, <1>5, <1>6, <1>7, QuietStep

\* The last writer signals the waiting threads.
LEMMA Keeps_Signal ==
  ASSUME RwInv, NEW t \in Threads, Signal(t)
  PROVE  RwInv'
<1> USE DEF Signal, At, os_event_set, lockVars
<1>1. Types' BY DEF RwInv, Types, Steps, Events
<1>2. Frame(t) BY DEF RwInv, Types, Frame
<1>3. CallOK(t)' BY DEF RwInv, Types, CallsOK, CallOK
<1>4. t \in readers => pc'[t] = "idle" BY DEF RwInv, Types, ReadersIdle
<1>5. XHeld(t)' => XHeld(t) BY DEF RwInv, Types, CallsOK, CallOK, XHeld, Entering
<1>6. op'[t] = "pass" => op[t] = "pass" \/ x[t] = 0 BY DEF RwInv, Types
<1>7. UNCHANGED lockVars OBVIOUS
<1> QED BY <1>1, <1>2, <1>3, <1>4, <1>5, <1>6, <1>7, QuietStep

\* The call of s_lock_func.
LEMMA Keeps_rw_lock_s_lock_func ==
  ASSUME RwInv, NEW t \in Threads, rw_lock_s_lock_func(t)
  PROVE  RwInv'
<1> USE DEF rw_lock_s_lock_func, Begin, At, lockVars, waitVars
<1>1. Types' BY DEF RwInv, Types, Steps, Events
<1>2. Frame(t) BY DEF RwInv, Types, Frame
<1>3. CallOK(t)' BY DEF RwInv, Types, CallsOK, CallOK
<1>4. t \in readers => pc'[t] = "idle" BY DEF RwInv, Types, ReadersIdle
<1>5. XHeld(t)' => XHeld(t) BY DEF RwInv, Types, CallsOK, CallOK, XHeld, Entering
<1>6. op'[t] = "pass" => op[t] = "pass" \/ x[t] = 0 BY DEF RwInv, Types
<1>7. UNCHANGED lockVars OBVIOUS
<1> QED BY <1>1, <1>2, <1>3, <1>4, <1>5, <1>6, <1>7, QuietStep

\* The call of nowait, for the second x-lock at most.
LEMMA Keeps_rw_lock_x_lock_func_nowait ==
  ASSUME NowaitNest <= 2, RwInv, NEW t \in Threads, rw_lock_x_lock_func_nowait(t)
  PROVE  RwInv'
<1> USE DEF rw_lock_x_lock_func_nowait, Begin, At, CanXLock, lockVars, waitVars
<1>1. Types' BY DEF RwInv, Types, Steps, Events
<1>2. Frame(t) BY DEF RwInv, Types, Frame
<1>3. CallOK(t)' BY ThreadsAssumption DEF RwInv, Types, CallsOK, CallOK
<1>4. t \in readers => pc'[t] = "idle" BY DEF RwInv, Types, ReadersIdle
<1>5. XHeld(t)' => XHeld(t) BY DEF RwInv, Types, CallsOK, CallOK, XHeld, Entering
<1>6. op'[t] = "pass" => op[t] = "pass" \/ x[t] = 0 BY DEF RwInv, Types
<1>7. UNCHANGED lockVars OBVIOUS
<1> QED BY <1>1, <1>2, <1>3, <1>4, <1>5, <1>6, <1>7, QuietStep

\* The call of x_lock_func, for itself or with pass.
LEMMA Keeps_rw_lock_x_lock_func ==
  ASSUME RwInv, NEW t \in Threads, NEW call \in {"x", "pass"}, rw_lock_x_lock_func(t, call)
  PROVE  RwInv'
<1> USE DEF rw_lock_x_lock_func, Begin, At, CanXLock, lockVars, waitVars
<1>1. Types' BY DEF RwInv, Types, Steps, Events
<1>2. Frame(t) BY DEF RwInv, Types, Frame
<1>3. CallOK(t)' BY DEF RwInv, Types, CallsOK, CallOK
<1>4. t \in readers => pc'[t] = "idle" BY DEF RwInv, Types, ReadersIdle
<1>5. XHeld(t)' => XHeld(t) BY DEF RwInv, Types, CallsOK, CallOK, XHeld, Entering
<1>6. op'[t] = "pass" => op[t] = "pass" \/ x[t] = 0 BY DEF RwInv, Types
<1>7. UNCHANGED lockVars OBVIOUS
<1> QED BY <1>1, <1>2, <1>3, <1>4, <1>5, <1>6, <1>7, QuietStep

\* The error monitor sets an event.
LEMMA Keeps_wake ==
  ASSUME RwInv, NEW t \in Threads, NEW e \in Events, sync_arr_wake_threads_if_sema_free(t, e)
  PROVE  RwInv'
<1> USE DEF sync_arr_wake_threads_if_sema_free, os_event_set, lockVars
<1>1. Types' BY DEF RwInv, Types, Steps, Events
<1>2. Frame(t) BY DEF Frame
<1>3. CallOK(t)' BY DEF RwInv, CallsOK, CallOK, At
<1>4. t \in readers => pc'[t] = "idle" BY DEF RwInv, ReadersIdle, At
<1>5. XHeld(t)' => XHeld(t) BY DEF XHeld, Entering
<1> QED BY <1>1, <1>2, <1>3, <1>4, <1>5, QuietStep

\* The answer is that the lock is somebody else's.
LEMMA Keeps_NotMine ==
  ASSUME RwInv, NEW t \in Threads, NotMine(t), UNCHANGED <<lockVars, waiters, event>>,
         pc[t] \in {"read_recursive", "read_writer"}
  PROVE  RwInv'
<1>0. op[t] \in {"x", "nowait"} BY DEF RwInv, CallsOK, CallOK
<1>1. CASE op[t] = "nowait" /\ Return(t)
  <2> USE <1>1 DEF Return, lockVars
  <2>1. Types' BY DEF RwInv, Types, Steps, Events
  <2>2. Frame(t) BY DEF RwInv, Types, Frame
  <2>3. CallOK(t)' BY DEF RwInv, Types, CallsOK, CallOK, At
  <2>4. t \in readers => pc'[t] = "idle" BY DEF RwInv, Types
  <2>5. XHeld(t)' => XHeld(t) BY DEF RwInv, Types, XHeld, Entering
  <2>6. op'[t] # "pass" BY DEF RwInv, Types
  <2> QED BY <2>1, <2>2, <2>3, <2>4, <2>5, <2>6, QuietStep
<1>2. CASE op[t] = "x" /\ Failed(t) /\ UNCHANGED cell
  <2> USE <1>2 DEF Failed, Goto, lockVars
  <2>1. Types' BY DEF RwInv, Types, Steps
  <2>2. Frame(t) BY DEF RwInv, Types, Frame
  <2>3. CallOK(t)' BY DEF RwInv, Types, CallsOK, CallOK, At
  <2>4. t \in readers => pc'[t] = "idle" BY DEF RwInv, Types, ReadersIdle, At
  <2>5. XHeld(t)' => XHeld(t) BY DEF RwInv, Types, XHeld, Entering
  <2> QED BY <2>1, <2>2, <2>3, <2>4, <2>5, QuietStep
<1> QED BY <1>0, <1>1, <1>2 DEF NotMine

\* Reading the recursion flag.
LEMMA Keeps_ReadRecursive ==
  ASSUME RwInv, NEW t \in Threads, ReadRecursive(t)
  PROVE  RwInv'
<1>1. CASE recursive /\ Goto(t, "read_writer") /\ UNCHANGED cell
  <2> USE <1>1 DEF ReadRecursive, Goto, At, lockVars
  <2>1. Types' BY DEF RwInv, Types, Steps
  <2>2. Frame(t) BY DEF RwInv, Types, Frame
  <2>3. CallOK(t)' BY DEF RwInv, Types, CallsOK, CallOK, RecursiveFlagValid
  <2>4. t \in readers => pc'[t] = "idle" BY DEF RwInv, ReadersIdle
  <2>5. XHeld(t)' => XHeld(t) BY DEF RwInv, Types, XHeld, Entering
  <2>6. UNCHANGED lockVars OBVIOUS
  <2> QED BY <2>1, <2>2, <2>3, <2>4, <2>5, <2>6, QuietStep
<1> QED BY <1>1, Keeps_NotMine DEF ReadRecursive, At

-----------------------------------------------------------------------------
(* The steps that change the lock.                                         *)

\* A reader enters.
LEMMA Keeps_rw_lock_s_lock_low ==
  ASSUME RwInv, NEW t \in Threads, rw_lock_s_lock_low(t)
  PROVE  RwInv'
<1> USE DEF rw_lock_s_lock_low, Return, At
<1>0. (\A u \in Threads : x[u] = 0) /\ passed = FALSE
      /\ lock_word = X_LOCK_DECR - Cardinality(readers)
  BY PositiveWord
<1>1. Types' BY DEF RwInv, Types, Steps, Events
<1>2. Frame(t) BY DEF RwInv, Types, Frame
<1>3. t \notin readers BY DEF RwInv, ReadersIdle
<1>4. OneOwner' BY <1>0 DEF OneOwner
<1>5. LockWordCounts'
  <2>1. /\ Cardinality(readers) \in Nat
        /\ Cardinality(readers') = Cardinality(readers) + 1
    BY <1>3, ReaderFacts DEF RwInv, Types
  <2> QED BY <1>0, <2>1, XWordFacts DEF LockWordCounts
<1>6. ~recursive BY <1>0 DEF RwInv, RecursiveFlagValid
<1>7. RecursiveFlagValid' BY <1>6 DEF RecursiveFlagValid
<1>8. CallOK(t)' BY DEF RwInv, Types, CallOK
<1>9. pc'[t] = "idle" BY DEF RwInv, Types
<1>10. ~XHeld(t)' BY <1>0 DEF XHeld
<1> QED BY <1>0, <1>1, <1>2, <1>4, <1>5, <1>6, <1>7, <1>8, <1>9, <1>10, LockChange

\* A thread takes X_LOCK_DECR from a positive lock word and becomes the next writer.
LEMMA NextWriter ==
  ASSUME RwInv, NEW t \in Threads, lock_word > 0, ~recursive,
         lock_word' = lock_word - X_LOCK_DECR,
         x' = [x EXCEPT ![t] = x[t] + 1],
         Goto(t, "set_writer"),
         UNCHANGED <<recursive, writer_thread, readers, passed, waitVars>>,
         op[t] \in {"x", "pass", "nowait"},
         op[t] = "nowait" => readers = {},
         pc[t] # "idle"
  PROVE  RwInv'
<1> USE DEF Goto, waitVars
<1>0. (\A u \in Threads : x[u] = 0) /\ passed = FALSE
      /\ lock_word = X_LOCK_DECR - Cardinality(readers)
  BY PositiveWord
<1>1. Types'
  <2>1. lock_word' \in Int BY XWordFacts DEF RwInv, Types
  <2>2. x' \in [Threads -> Nat] BY DEF RwInv, Types
  <2> QED BY <2>1, <2>2 DEF RwInv, Types, Steps
<1>2. Frame(t) BY DEF RwInv, Types, Frame
<1>3. x'[t] = 1 /\ \A u \in Threads \ {t} : x'[u] = 0 BY <1>0 DEF RwInv, Types
<1>4. OneOwner' BY <1>0, <1>3 DEF OneOwner
<1>5. LockWordCounts'
  <2>1. Cardinality(readers) \in Nat BY ReaderFacts DEF RwInv, Types
  <2>2. lock_word' = 0 - Cardinality(readers) BY <1>0, <2>1, XWordFacts
  <2>3. XWord(x'[t]) = 0 BY <1>3, XWordFacts
  <2> QED BY <1>0, <1>3, <2>2, <2>3 DEF LockWordCounts
<1>6. RecursiveFlagValid' BY DEF RecursiveFlagValid
<1>7. CallOK(t)' BY <1>3 DEF RwInv, Types, CallOK, At
<1>8. t \notin readers BY DEF RwInv, ReadersIdle, At
<1>9. XHeld(t)' => readers' = {} BY DEF RwInv, Types, XHeld, Entering
<1> QED BY <1>0, <1>1, <1>2, <1>4, <1>5, <1>6, <1>7, <1>8, <1>9, LockChange

\* x_lock_low succeeds.
LEMMA Keeps_XDecrement ==
  ASSUME RwInv, NEW t \in Threads, XDecrement(t)
  PROVE  RwInv'
<1>1. op[t] \in {"x", "pass"} BY DEF RwInv, CallsOK, CallOK, XDecrement
<1> QED BY <1>1, NextWriter DEF XDecrement, At

\* x_lock_func_nowait finds the lock free, or not.
LEMMA Keeps_NowaitCas ==
  ASSUME RwInv, NEW t \in Threads, NowaitCas(t)
  PROVE  RwInv'
<1>0. op[t] = "nowait" BY DEF RwInv, CallsOK, CallOK, NowaitCas
<1>1. CASE lock_word = X_LOCK_DECR
  <2>1. lock_word > 0 BY <1>1, XWordFacts
  <2>2. (\A u \in Threads : x[u] = 0) /\ lock_word = X_LOCK_DECR - Cardinality(readers)
    BY <2>1, PositiveWord
  <2>3. readers = {}
    <3>1. readers \in SUBSET Threads BY DEF RwInv, Types
    <3>2. Cardinality(readers) \in Nat /\ (Cardinality(readers) = 0 <=> readers = {})
      BY <3>1, ReaderFacts
    <3>3. X_LOCK_DECR \in Nat BY XWordFacts
    <3> QED BY <1>1, <2>2, <3>2, <3>3
  <2>4. ~recursive BY <2>2 DEF RwInv, RecursiveFlagValid
  <2>5. lock_word' = lock_word - X_LOCK_DECR BY <1>1, XWordFacts DEF NowaitCas
  <2> QED BY <1>0, <1>1, <2>1, <2>3, <2>4, <2>5, NextWriter DEF NowaitCas, At
<1>2. CASE lock_word # X_LOCK_DECR
  <2> USE <1>2 DEF NowaitCas, Goto, At, lockVars, waitVars
  <2>1. Types' BY DEF RwInv, Types, Steps
  <2>2. Frame(t) BY DEF RwInv, Types, Frame
  <2>3. CallOK(t)' BY <1>0 DEF RwInv, Types, CallsOK, CallOK
  <2>4. t \in readers => pc'[t] = "idle" BY DEF RwInv, ReadersIdle
  <2>5. XHeld(t)' => XHeld(t) BY DEF RwInv, Types, XHeld, Entering
  <2>6. UNCHANGED lockVars OBVIOUS
  <2> QED BY <2>1, <2>2, <2>3, <2>4, <2>5, <2>6, QuietStep
<1> QED BY <1>1, <1>2

\* Reading the owner: another x-lock, or none.
LEMMA Keeps_ReadWriter ==
  ASSUME NowaitNest <= 2, RwInv, NEW t \in Threads, ReadWriter(t)
  PROVE  RwInv'
<1>0. pc[t] = "read_writer" /\ op[t] \in {"x", "nowait"} BY DEF RwInv, CallsOK, CallOK, ReadWriter, At
<1>1. CASE writer_thread = t /\ Relock(t)
  <2> USE <1>1 DEF Relock, Return
  <2>0. x[t] \in Nat /\ x[t] > 0 BY <1>0 DEF RwInv, Types, CallsOK, CallOK, At
  <2>1. readers = {} BY <1>0, <2>0 DEF RwInv, OnlyEntering, XHeld, Entering
  <2>2. /\ Cardinality(readers) = 0
        /\ lock_word = XWord(x[t])
    <3>1. readers \in SUBSET Threads BY DEF RwInv, Types
    <3>2. Cardinality(readers) = 0 BY <2>1, <3>1, ReaderFacts
    <3>3. lock_word = XWord(x[t]) - Cardinality(readers) BY <2>0 DEF RwInv, LockWordCounts
    <3> QED BY <2>0, <3>2, <3>3, XWordFacts
  <2>3. lock_word' = lock_word - X_LOCK_DECR
    <3>1. CASE op[t] = "nowait"
      <4>1. x[t] = 1 BY <1>0, <2>0, <3>1 DEF RwInv, CallsOK, CallOK
      <4>2. lock_word = 0 BY <2>2, <4>1, XWordFacts
      <4>3. ~(lock_word <= -X_LOCK_DECR) BY <4>2, XWordFacts
      <4> QED BY <3>1, <4>3
    <3> QED BY <3>1
  <2>4. /\ x'[t] = x[t] + 1
        /\ \A u \in Threads \ {t} : x'[u] = x[u] /\ x[u] = 0
        /\ ~passed
    BY <2>0 DEF RwInv, Types, OneOwner
  <2>5. Types'
    <3>1. lock_word' \in Int BY <2>3, XWordFacts DEF RwInv, Types
    <3>2. x' \in [Threads -> Nat] BY DEF RwInv, Types
    <3> QED BY <3>1, <3>2 DEF RwInv, Types, Steps, Events, ReadWriter
  <2>6. Frame(t) BY DEF RwInv, Types, Frame
  <2>7. OneOwner' BY <2>0, <2>4 DEF OneOwner
  <2>8. LockWordCounts'
    <3>1. XWord(x'[t]) = XWord(x[t]) - X_LOCK_DECR BY <2>0, <2>4, XWordFacts
    <3>2. XWord(x[t]) \in Int /\ X_LOCK_DECR \in Nat BY <2>0, XWordFacts
    <3>3. lock_word' = XWord(x'[t]) - Cardinality(readers) BY <2>2, <2>3, <3>1, <3>2
    <3>4. x'[t] > 0 BY <2>0, <2>4
    <3> QED BY <2>4, <3>3, <3>4 DEF LockWordCounts
  <2>9. op'[t] = "none" /\ pc'[t] = "idle" BY DEF RwInv, Types
  <2>10. RecursiveFlagValid' BY <2>0, <2>4, <2>9 DEF RwInv, RecursiveFlagValid
  <2>11. CallOK(t)' BY <2>9 DEF CallOK, At
  <2>12. ~passed' BY <2>4
  <2> QED BY <2>0, <2>1, <2>5, <2>6, <2>7, <2>8, <2>9, <2>10, <2>11, <2>12, LockChange
<1>2. CASE op[t] = "nowait" /\ Return(t) /\ UNCHANGED lockVars
  <2> QED BY <1>0, <1>2, Keeps_NotMine DEF NotMine, ReadWriter
<1>3. CASE NotMine(t) /\ UNCHANGED lockVars
  <2> QED BY <1>0, <1>3, Keeps_NotMine DEF ReadWriter
<1> QED BY <1>1, <1>2, <1>3 DEF ReadWriter

\* The next writer writes its thread id.
LEMMA Keeps_SetWriter ==
  ASSUME RwInv, NEW t \in Threads, SetWriter(t)
  PROVE  RwInv'
<1> USE DEF SetWriter, Goto, At, waitVars
<1>0. x[t] = 1 /\ ~recursive BY DEF RwInv, CallsOK, CallOK
<1>1. Types' BY DEF RwInv, Types, Steps
<1>2. Frame(t) BY DEF RwInv, Types, Frame
<1>3. OneOwner' BY DEF RwInv, OneOwner
<1>4. LockWordCounts' BY DEF RwInv, LockWordCounts
<1>5. RecursiveFlagValid' BY <1>0 DEF RecursiveFlagValid
<1>6. CallOK(t)' BY <1>0 DEF RwInv, Types, CallsOK, CallOK
<1>7. t \notin readers BY DEF RwInv, ReadersIdle
<1>8. XHeld(t)' => XHeld(t) BY DEF RwInv, Types, XHeld, Entering
<1>9. (XHeld(t)' => readers' = {}) /\ (passed' => readers' = {}) BY <1>8 DEF RwInv, OnlyEntering
<1> QED BY <1>0, <1>1, <1>2, <1>3, <1>4, <1>5, <1>6, <1>7, <1>9, LockChange

\* The next writer sets the recursion flag, unless the lock will be passed on.
LEMMA Keeps_SetRecursive ==
  ASSUME RwInv, NEW t \in Threads, SetRecursive(t)
  PROVE  RwInv'
<1> USE DEF SetRecursive, Goto, Return, At
<1>0. /\ x[t] = 1 /\ ~recursive /\ writer_thread = t
      /\ op[t] \in {"x", "pass", "nowait", "move"}
  BY DEF RwInv, CallsOK, CallOK
<1>1. Types'
  <2>1. cell' \in [Threads -> [Events -> {"free", "reserved", "signalled"}]]
    BY DEF RwInv, Types, Events
  <2>2. pc' \in [Threads -> Steps] BY DEF RwInv, Types, Steps
  <2> QED BY <2>1, <2>2 DEF RwInv, Types
<1>2. Frame(t) BY DEF RwInv, Types, Frame
<1>3. OneOwner' BY DEF RwInv, OneOwner
<1>4. LockWordCounts' BY DEF RwInv, LockWordCounts
<1>5. op[t] # "pass" => op'[t] # "pass" BY DEF RwInv, Types
<1>6. RecursiveFlagValid'
  <2>1. recursive' => op'[t] # "pass" BY <1>5
  <2>2. writer_thread' = t /\ x'[t] > 0 BY <1>0
  <2> QED BY <2>1, <2>2 DEF RecursiveFlagValid
<1>7. CallOK(t)' BY <1>0 DEF RwInv, Types, CallOK
<1>8. t \notin readers BY DEF RwInv, ReadersIdle
<1>9. XHeld(t)' => XHeld(t) BY DEF RwInv, Types, XHeld, Entering
<1>10. (XHeld(t)' => readers' = {}) /\ (passed' => readers' = {}) BY <1>9 DEF RwInv, OnlyEntering
<1> QED BY <1>0, <1>1, <1>2, <1>3, <1>4, <1>6, <1>7, <1>8, <1>10, LockChange

\* The next writer finds the last reader gone.
LEMMA Keeps_XLocked ==
  ASSUME RwInv, NEW t \in Threads, XLocked(t)
  PROVE  RwInv'
<1> USE DEF XLocked, Return, At
<1>0. x[t] = 1 /\ op[t] \in {"x", "pass"} BY DEF RwInv, CallsOK, CallOK
<1>1. (\A u \in Threads \ {t} : x[u] = 0) /\ ~passed
  <2>1. ~passed BY <1>0 DEF RwInv, OneOwner
  <2>2. \A u \in Threads \ {t} : x[u] = 0 BY <1>0 DEF RwInv, OneOwner, Types
  <2> QED BY <2>1, <2>2
<1>2. lock_word = 0 - Cardinality(readers) /\ readers = {} /\ Cardinality(readers) = 0
  <2>1. readers \in SUBSET Threads BY DEF RwInv, Types
  <2>2. Cardinality(readers) \in Nat /\ (Cardinality(readers) = 0 <=> readers = {})
    BY <2>1, ReaderFacts
  <2>3. lock_word = 0 - Cardinality(readers) BY <1>0, XWordFacts DEF RwInv, LockWordCounts
  <2> QED BY <2>2, <2>3
<1>3. Types'
  <2>1. x' \in [Threads -> Nat] BY <1>0 DEF RwInv, Types
  <2>2. passed' \in BOOLEAN BY DEF RwInv, Types
  <2> QED BY <2>1, <2>2 DEF RwInv, Types, Steps, Events
<1>4. Frame(t) BY DEF RwInv, Types, Frame
<1>5. op'[t] = "none" /\ pc'[t] = "idle" BY DEF RwInv, Types
<1>6. CallOK(t)' BY <1>5 DEF CallOK, At
<1>7. CASE op[t] = "x"
  <2>1. x' = x /\ ~passed' BY <1>1, <1>7
  <2>2. OneOwner' BY <2>1 DEF RwInv, OneOwner
  <2>3. LockWordCounts' BY <1>1, <2>1 DEF RwInv, LockWordCounts
  <2>4. RecursiveFlagValid' BY <1>4, <1>5, <2>1 DEF RwInv, RecursiveFlagValid, Frame
  <2> QED BY <1>0, <1>2, <1>3, <1>4, <1>5, <1>6, <2>1, <2>2, <2>3, <2>4, LockChange
<1>8. CASE op[t] = "pass"
  <2>0. passed' BY <1>8
  <2>1. (\A u \in Threads : x'[u] = 0) /\ passed' BY <1>0, <1>1, <1>8, <2>0 DEF RwInv, Types
  <2>2. OneOwner' BY <2>1 DEF OneOwner
  <2>3. LockWordCounts' BY <1>2, <2>1, XWordFacts DEF LockWordCounts
  <2>4. ~recursive BY <1>0, <1>1, <1>8 DEF RwInv, RecursiveFlagValid, Types
  <2>5. RecursiveFlagValid' BY <2>4 DEF RecursiveFlagValid
  <2> QED BY <1>0, <1>2, <1>3, <1>4, <1>5, <1>6, <2>2, <2>3, <2>5, LockChange
<1> QED BY <1>0, <1>7, <1>8

\* A reader leaves.
LEMMA Keeps_rw_lock_s_unlock_func ==
  ASSUME RwInv, NEW t \in Threads, rw_lock_s_unlock_func(t)
  PROVE  RwInv'
<1> USE DEF rw_lock_s_unlock_func, Begin, At, waitVars
<1>1. Types' BY DEF RwInv, Types, Steps
<1>2. Frame(t) BY DEF RwInv, Types, Frame
<1>3. OneOwner' BY DEF RwInv, OneOwner
<1>4. LockWordCounts'
  <2>1. readers \in SUBSET Threads /\ t \in readers BY DEF RwInv, Types
  <2>2. /\ Cardinality(readers) \in Nat
        /\ Cardinality(readers') = Cardinality(readers) - 1
    BY <2>1, ReaderFacts
  <2>3. \A n \in Nat : XWord(n) \in Int BY XWordFacts
  <2>4. ASSUME NEW u \in Threads, x'[u] > 0 PROVE lock_word' = XWord(x'[u]) - Cardinality(readers')
    <3>1. lock_word = XWord(x[u]) - Cardinality(readers) BY <2>4 DEF RwInv, LockWordCounts
    <3>2. XWord(x[u]) \in Int BY <2>3 DEF RwInv, Types
    <3> QED BY <2>2, <3>1, <3>2
  <2>5. passed' => lock_word' = XWord(1) - Cardinality(readers') BY <2>2, XWordFacts
    DEF RwInv, LockWordCounts
  <2>6. ASSUME ~passed', \A u \in Threads : x'[u] = 0
        PROVE  lock_word' = XWord(0) - Cardinality(readers')
    <3>1. lock_word = XWord(0) - Cardinality(readers) BY <2>6 DEF RwInv, LockWordCounts
    <3> QED BY <2>2, <2>3, <3>1
  <2> QED BY <2>4, <2>5, <2>6 DEF LockWordCounts
<1>5. op'[t] \in {"unlock", "none"} /\ pc'[t] \in {"ex_signal", "idle"} BY DEF RwInv, Types
<1>6. RecursiveFlagValid' BY <1>2, <1>5 DEF RwInv, RecursiveFlagValid, Frame
<1>7. CallOK(t)' BY <1>5 DEF CallOK
<1>8. t \notin readers' /\ readers' \subseteq readers OBVIOUS
<1>9. XHeld(t)' => XHeld(t) BY <1>5 DEF XHeld, Entering
<1>10. (XHeld(t)' => readers' = {}) /\ (passed' => readers' = {}) BY <1>8, <1>9
    DEF RwInv, OnlyEntering
<1> QED BY <1>1, <1>2, <1>3, <1>4, <1>6, <1>7, <1>8, <1>10, LockChange

\* A handler takes over the lock passed to it.
LEMMA TakeOverCounts ==
  ASSUME RwInv, NEW t \in Threads, TakeOver(t), UNCHANGED <<lock_word, readers>>
  PROVE  /\ OneOwner' /\ LockWordCounts'
         /\ x'[t] = 1 /\ \A u \in Threads \ {t} : x'[u] = 0 /\ x[u] = 0
         /\ x' \in [Threads -> Nat]
         /\ readers = {} /\ ~passed' /\ lock_word = 0
         /\ ~recursive
<1> USE DEF TakeOver
<1>1. (\A u \in Threads : x[u] = 0) /\ readers = {} BY DEF RwInv, OneOwner, OnlyEntering
<1>2. x'[t] = 1 /\ (\A u \in Threads \ {t} : x'[u] = 0) /\ x' \in [Threads -> Nat]
  BY <1>1 DEF RwInv, Types
<1>3. Cardinality(readers) = 0
  <2>1. readers \in SUBSET Threads BY DEF RwInv, Types
  <2> QED BY <1>1, <2>1, ReaderFacts
<1>4. lock_word = 0
  <2>1. lock_word = XWord(1) - Cardinality(readers) BY DEF RwInv, LockWordCounts
  <2> QED BY <1>3, <2>1, XWordFacts
<1>5. LockWordCounts'
  <2>1. XWord(x'[t]) = 0 /\ lock_word' = 0 /\ Cardinality(readers') = 0 BY <1>2, <1>3, <1>4, XWordFacts
  <2> QED BY <1>2, <2>1 DEF LockWordCounts
<1>6. OneOwner' BY <1>2 DEF OneOwner
<1>7. ~recursive BY <1>1 DEF RwInv, RecursiveFlagValid
<1> QED BY <1>1, <1>2, <1>4, <1>5, <1>6, <1>7

\* A handler makes a passed lock its own.
LEMMA Keeps_rw_lock_x_lock_move_ownership ==
  ASSUME RwInv, NEW t \in Threads, rw_lock_x_lock_move_ownership(t)
  PROVE  RwInv'
<1> USE DEF rw_lock_x_lock_move_ownership, Begin, waitVars
<1>0. /\ OneOwner' /\ LockWordCounts'
      /\ x'[t] = 1 /\ \A u \in Threads \ {t} : x'[u] = 0 /\ x[u] = 0
      /\ x' \in [Threads -> Nat]
      /\ readers = {} /\ ~passed' /\ ~recursive
  BY TakeOverCounts
<1>1. Types' BY <1>0 DEF RwInv, Types, Steps, TakeOver
<1>2. Frame(t) BY <1>0 DEF RwInv, Types, Frame
<1>3. RecursiveFlagValid' BY <1>0 DEF RecursiveFlagValid
<1>4. CallOK(t)' BY <1>0 DEF RwInv, Types, CallOK, At
<1> QED BY <1>0, <1>1, <1>2, <1>3, <1>4, LockChange

\* The holder of the x-lock, or the handler it was passed to, begins to release it.
LEMMA Keeps_rw_lock_x_unlock_func ==
  ASSUME RwInv, NEW t \in Threads, rw_lock_x_unlock_func(t)
  PROVE  RwInv'
<1> USE DEF rw_lock_x_unlock_func, Begin, At, waitVars
<1>1. Frame(t) /\ pc'[t] = "incr" /\ op'[t] = "unlock"
  BY DEF RwInv, Types, Frame, TakeOver
<1>2. CASE x[t] > 0 /\ UNCHANGED <<x, passed>>
  <2>1. readers = {} BY <1>2 DEF RwInv, OnlyEntering, XHeld, Entering
  <2>2. x[t] = 1 => lock_word = 0
    <3>1. Cardinality(readers) = 0
      <4>1. readers \in SUBSET Threads BY DEF RwInv, Types
      <4> QED BY <2>1, <4>1, ReaderFacts
    <3>2. lock_word = XWord(x[t]) - Cardinality(readers) BY <1>2 DEF RwInv, LockWordCounts
    <3> QED BY <3>1, <3>2, XWordFacts
  <2>3. Types' BY <1>2 DEF RwInv, Types, Steps
  <2>4. OneOwner' BY <1>2 DEF RwInv, OneOwner
  <2>5. LockWordCounts' BY <1>2 DEF RwInv, LockWordCounts
  <2>6. RecursiveFlagValid' BY <1>1, <1>2 DEF RwInv, RecursiveFlagValid, Frame
  <2>7. CallOK(t)' BY <1>1, <1>2, <2>2 DEF CallOK
  <2> QED BY <1>1, <1>2, <2>1, <2>3, <2>4, <2>5, <2>6, <2>7, LockChange
<1>3. CASE TakeOver(t)
  <2>0. /\ OneOwner' /\ LockWordCounts'
        /\ x'[t] = 1 /\ x' \in [Threads -> Nat]
        /\ readers = {} /\ ~passed' /\ ~recursive
    BY <1>3, TakeOverCounts
  <2>1. Types' BY <1>3, <2>0 DEF RwInv, Types, Steps, TakeOver
  <2>2. RecursiveFlagValid' BY <2>0 DEF RecursiveFlagValid
  <2>3. ~recursive' BY <2>0
  <2>4. CallOK(t)' BY <1>1, <2>0, <2>3 DEF CallOK
  <2> QED BY <1>1, <2>0, <2>1, <2>2, <2>4, LockChange
<1> QED BY <1>2, <1>3

\* The lock word is incremented.
LEMMA Keeps_XIncrement ==
  ASSUME RwInv, NEW t \in Threads, XIncrement(t)
  PROVE  RwInv'
<1> USE DEF XIncrement, Goto, Return, At
<1>0. x[t] \in Nat /\ x[t] > 0 /\ (x[t] = 1 => ~recursive) BY DEF RwInv, Types, CallsOK, CallOK
<1>1. readers = {} BY <1>0 DEF RwInv, OnlyEntering, XHeld, Entering
<1>2. x'[t] = x[t] - 1 /\ (\A u \in Threads \ {t} : x'[u] = 0) /\ ~passed
  BY <1>0 DEF RwInv, OneOwner, Types
<1>3. Types'
  <2>1. lock_word' \in Int BY XWordFacts DEF RwInv, Types
  <2>2. x' \in [Threads -> Nat] BY <1>0 DEF RwInv, Types
  <2>3. cell' \in [Threads -> [Events -> {"free", "reserved", "signalled"}]]
    BY DEF RwInv, Types, Events
  <2>4. pc' \in [Threads -> Steps] BY DEF RwInv, Types, Steps
  <2>5. op' \in [Threads -> {"none", "s", "x", "pass", "nowait", "move", "unlock"}]
    BY DEF RwInv, Types
  <2> QED BY <2>1, <2>2, <2>3, <2>4, <2>5 DEF RwInv, Types
<1>4. Frame(t) BY DEF RwInv, Types, Frame
<1>5. OneOwner' BY <1>2 DEF OneOwner
<1>6. LockWordCounts'
  <2>1. lock_word = XWord(x[t]) - Cardinality(readers) BY <1>0 DEF RwInv, LockWordCounts
  <2>2. Cardinality(readers) \in Nat BY ReaderFacts DEF RwInv, Types
  <2>3. XWord(x'[t]) = XWord(x[t]) + X_LOCK_DECR /\ XWord(x[t]) \in Int /\ X_LOCK_DECR \in Nat
    BY <1>0, <1>2, XWordFacts
  <2>4. lock_word' = XWord(x'[t]) - Cardinality(readers') BY <2>1, <2>2, <2>3
  <2> QED BY <1>0, <1>2, <2>4 DEF LockWordCounts
<1>7. pc'[t] \in {"test_waiters", "idle"} BY DEF RwInv, Types
<1>8. RecursiveFlagValid'
  <2> SUFFICES ASSUME recursive
               PROVE  writer_thread \in Threads /\ x'[writer_thread] > 0 /\ op'[writer_thread] # "pass"
    BY DEF RecursiveFlagValid
  <2>1. writer_thread \in Threads /\ x[writer_thread] > 0 /\ op[writer_thread] # "pass"
    BY DEF RwInv, RecursiveFlagValid
  <2>2. writer_thread = t BY <1>0, <2>1 DEF RwInv, OneOwner
  <2> QED BY <1>0, <1>2, <2>1, <2>2 DEF RwInv, Types
<1>9. CallOK(t)' BY <1>7 DEF CallOK
<1> QED BY <1>0, <1>1, <1>2, <1>3, <1>4, <1>5, <1>6, <1>8, <1>9, LockChange

-----------------------------------------------------------------------------
(* The theorems.                                                           *)

\* The lock as it is created.
LEMMA InitRwInv ==
  Init => RwInv
<1> SUFFICES ASSUME Init PROVE RwInv OBVIOUS
<1>1. Cardinality({}) = 0 BY FS_EmptySet
<1>2. Types BY XWordFacts DEF Init, Types, Steps, Events
<1>3. LockWordCounts BY <1>1, XWordFacts DEF Init, LockWordCounts
<1> QED BY <1>2, <1>3 DEF Init, RwInv, OneOwner, ReadersIdle, OnlyEntering, XHeld, RecursiveFlagValid,
           CallsOK, CallOK, At

\* Every step keeps the invariant.
LEMMA NextRwInv ==
  ASSUME NowaitNest <= 2, RwInv, [Next]_vars
  PROVE  RwInv'
<1>1. ASSUME NEW t \in Threads, LockStep(t) PROVE RwInv'
  BY <1>1, Keeps_rw_lock_s_lock_low, Keeps_SLockFailed, Keeps_Reserve, Keeps_rw_lock_set_waiter_flag,
     Keeps_sync_array_wait_event, Keeps_XDecrement, Keeps_XDecrementFailed, Keeps_NowaitCas,
     Keeps_ReadRecursive, Keeps_ReadWriter, Keeps_SetWriter, Keeps_SetRecursive, Keeps_XLocked,
     Keeps_XWaits, Keeps_ExReserve, Keeps_ExCheck, Keeps_ExSleep
  DEF LockStep
<1>2. ASSUME NEW t \in Threads, UnlockStep(t) PROVE RwInv'
  BY <1>2, Keeps_ExSignal, Keeps_XIncrement, Keeps_TestWaiters, Keeps_rw_lock_reset_waiter_flag,
     Keeps_Signal
  DEF UnlockStep
<1>3. ASSUME NEW t \in Threads, LockCall(t) PROVE RwInv'
  BY <1>3, Keeps_rw_lock_s_lock_func, Keeps_rw_lock_x_lock_func, Keeps_rw_lock_x_lock_func_nowait,
     Keeps_rw_lock_x_lock_move_ownership
  DEF LockCall
<1>4. ASSUME NEW t \in Threads, UnlockCall(t) PROVE RwInv'
  BY <1>4, Keeps_rw_lock_s_unlock_func, Keeps_rw_lock_x_unlock_func DEF UnlockCall
<1>5. ASSUME UNCHANGED vars PROVE RwInv'
  BY <1>5
  DEF vars, RwInv, Types, OneOwner, LockWordCounts, ReadersIdle, OnlyEntering, XHeld, Entering,
              RecursiveFlagValid, CallsOK, CallOK, At
<1> QED BY <1>1, <1>2, <1>3, <1>4, <1>5, Keeps_wake DEF Next

\* RwInv is an invariant of the rw-lock, for any number of threads.
THEOREM RwInvariant ==
  ASSUME NowaitNest <= 2
  PROVE  Spec => []RwInv
<1>1. RwInv /\ [Next]_vars => RwInv' BY NextRwInv
<1> QED BY <1>1, InitRwInv, PTL DEF Spec

\* A thread with the x-lock, or a passed x-lock, excludes every reader and every other
\* writer, for any number of threads, readers and nested x-locks.
THEOREM WritersExclude ==
  ASSUME NowaitNest <= 2
  PROVE  Spec => []MutualExclusion
<1>1. RwInv => MutualExclusion
  <2> SUFFICES ASSUME RwInv PROVE MutualExclusion OBVIOUS
  <2>1. ASSUME NEW t \in Threads, XHeld(t)
        PROVE  readers = {} /\ ~passed /\ \A u \in Threads \ {t} : x[u] = 0
    <3>1. x[t] > 0 BY <2>1 DEF XHeld
    <3> QED BY <2>1, <3>1 DEF RwInv, OnlyEntering, OneOwner, Types
  <2> QED BY <2>1 DEF RwInv, OnlyEntering, OneOwner, MutualExclusion
<1> QED BY <1>1, RwInvariant, PTL

\* The lock word is X_LOCK_DECR less 1 for each reader and X_LOCK_DECR for each x-lock.
THEOREM LockWordMeaning ==
  ASSUME NowaitNest <= 2
  PROVE  Spec => []LockWordCounts
<1>1. RwInv => LockWordCounts BY DEF RwInv
<1> QED BY <1>1, RwInvariant, PTL

\* While recursive is set writer_thread is the owner of the lock.
THEOREM OwnerKnown ==
  ASSUME NowaitNest <= 2
  PROVE  Spec => []RecursiveFlagValid
<1>1. RwInv => RecursiveFlagValid BY DEF RwInv
<1> QED BY <1>1, RwInvariant, PTL

-----------------------------------------------------------------------------
(* No lost signal.                                                         *)

\* A step of t that takes nobody's signal away: it does not release the lock and is not
\* about to signal, and t waits for event or wait_ex only as its calls allow.
SignalKept(t) ==
  /\ \A u \in Threads \ {t} : pc'[u] = pc[u] /\ op'[u] = op[u] /\ cell'[u] = cell[u]
  /\ \A e \in Events : event'[e] => event[e] /\ cell'[t][e] # "reserved"
  /\ waiters => waiters'
  /\ lock_word <= 0 => lock_word' <= 0
  /\ lock_word < 0 => lock_word' < 0
  /\ pc[t] \notin {"test_waiters", "reset_waiters", "signal", "ex_signal"}
  /\ cell'[t]["event"] = "reserved" =>
       \/ pc'[t] = "set_waiters"
       \/ cell[t]["event"] = "reserved" /\ (pc[t] = "set_waiters" => waiters')
  /\ cell'[t]["event"] = "reserved" /\ pc'[t] \in {"read_recursive", "read_writer", "sleep"} =>
       lock_word' <= 0 \/ (cell[t]["event"] = "reserved" /\ pc[t] \in {"read_recursive", "read_writer"})
  /\ pc'[t] = "ex_sleep" => lock_word' < 0
  /\ CellOK(t)'

\* Such a step keeps the invariant.
LEMMA SignalKeptStep ==
  ASSUME SignalInv, NEW t \in Threads, SignalKept(t)
  PROVE  SignalInv'
<1>1. NoneReserved' BY DEF SignalInv, NoneReserved, SignalKept
<1>2. /\ Somebody({"signal"}) => Somebody({"signal"})'
      /\ Somebody({"test_waiters", "reset_waiters", "signal"}) =>
           Somebody({"test_waiters", "reset_waiters", "signal"})'
      /\ Somebody({"ex_signal"}) => Somebody({"ex_signal"})'
  BY DEF SignalKept, Somebody
<1>3. CellOK(t)' /\ WaitAnnounced(t)' /\ BlockerLeft(t)' /\ ReaderLeft(t)'
  <2>1. WaitAnnounced(t)' BY <1>2 DEF SignalInv, SignalKept, WaitAnnounced, At
  <2>2. BlockerLeft(t)' BY <1>2 DEF SignalInv, SignalKept, BlockerLeft
  <2>3. ReaderLeft(t)' BY DEF SignalKept, ReaderLeft, At
  <2> QED BY <2>1, <2>2, <2>3 DEF SignalKept
<1>4. ASSUME NEW u \in Threads \ {t}
      PROVE  CellOK(u)' /\ WaitAnnounced(u)' /\ BlockerLeft(u)' /\ ReaderLeft(u)'
  <2>1. pc'[u] = pc[u] /\ op'[u] = op[u] /\ cell'[u] = cell[u] BY DEF SignalKept
  <2>2. CellOK(u)' BY <2>1 DEF SignalInv, CellOK, At
  <2>3. WaitAnnounced(u)' BY <1>2, <2>1 DEF SignalInv, WaitAnnounced, SignalKept, At
  <2>4. BlockerLeft(u)' BY <1>2, <2>1 DEF SignalInv, BlockerLeft, SignalKept
  <2>5. ReaderLeft(u)' BY <1>2, <2>1 DEF SignalInv, ReaderLeft, SignalKept, At
  <2> QED BY <2>2, <2>3, <2>4, <2>5
<1> QED BY <1>1, <1>3, <1>4 DEF SignalInv

\* An s-lock attempt fails.
LEMMA Signals_SLockFailed ==
  ASSUME RwInv, SignalInv, NEW t \in Threads, SLockFailed(t)
  PROVE  SignalInv'
<1> USE DEF SLockFailed, Goto, At, Failed, lockVars, waitVars
<1>1. SignalKept(t)
  BY DEF RwInv, Types, Events, SignalInv, NoneReserved, CallsOK, CallOK, CellOK, SignalKept
<1> QED BY <1>1, SignalKeptStep

\* A cell is reserved, and event reset.
LEMMA Signals_Reserve ==
  ASSUME RwInv, SignalInv, NEW t \in Threads, Reserve(t)
  PROVE  SignalInv'
<1> USE DEF Reserve, Goto, At, sync_array_reserve_cell, lockVars
<1>1. SignalKept(t)
  BY DEF RwInv, Types, Events, SignalInv, NoneReserved, CallsOK, CallOK, CellOK, SignalKept
<1> QED BY <1>1, SignalKeptStep

\* The flag is set.
LEMMA Signals_rw_lock_set_waiter_flag ==
  ASSUME RwInv, SignalInv, NEW t \in Threads, rw_lock_set_waiter_flag(t)
  PROVE  SignalInv'
<1> USE DEF rw_lock_set_waiter_flag, Goto, At, lockVars
<1>1. SignalKept(t)
  BY DEF RwInv, Types, Events, SignalInv, NoneReserved, CallsOK, CallOK, CellOK, SignalKept
<1> QED BY <1>1, SignalKeptStep

\* A thread asleep on event goes on.
LEMMA Signals_sync_array_wait_event ==
  ASSUME RwInv, SignalInv, NEW t \in Threads, sync_array_wait_event(t)
  PROVE  SignalInv'
<1> USE DEF sync_array_wait_event, Goto, At, lockVars
<1>1. SignalKept(t)
  BY DEF RwInv, Types, Events, SignalInv, NoneReserved, CallsOK, CallOK, CellOK, SignalKept
<1> QED BY <1>1, SignalKeptStep

\* The lock word is not positive.
LEMMA Signals_XDecrementFailed ==
  ASSUME RwInv, SignalInv, NEW t \in Threads, XDecrementFailed(t)
  PROVE  SignalInv'
<1> USE DEF XDecrementFailed, Goto, At, Failed, lockVars, waitVars
<1>1. SignalKept(t)
  BY DEF RwInv, Types, Events, SignalInv, NoneReserved, CallsOK, CallOK, CellOK, SignalKept
<1> QED BY <1>1, SignalKeptStep

\* The next writer finds readers.
LEMMA Signals_XWaits ==
  ASSUME RwInv, SignalInv, NEW t \in Threads, XWaits(t)
  PROVE  SignalInv'
<1> USE DEF XWaits, Goto, At, lockVars, waitVars
<1>1. SignalKept(t)
  BY DEF RwInv, Types, Events, SignalInv, NoneReserved, CallsOK, CallOK, CellOK, SignalKept
<1> QED BY <1>1, SignalKeptStep

\* The next writer reserves its cell.
LEMMA Signals_ExReserve ==
  ASSUME RwInv, SignalInv, NEW t \in Threads, ExReserve(t)
  PROVE  SignalInv'
<1> USE DEF ExReserve, Goto, At, sync_array_reserve_cell, lockVars
<1>1. SignalKept(t)
  BY DEF RwInv, Types, Events, SignalInv, NoneReserved, CallsOK, CallOK, CellOK, SignalKept
<1> QED BY <1>1, SignalKeptStep

\* The next writer tests the lock word again.
LEMMA Signals_ExCheck ==
  ASSUME RwInv, SignalInv, NEW t \in Threads, ExCheck(t)
  PROVE  SignalInv'
<1> USE DEF ExCheck, Goto, At, lockVars
<1>1. SignalKept(t)
  BY DEF RwInv, Types, Events, SignalInv, NoneReserved, CallsOK, CallOK, CellOK, SignalKept
<1> QED BY <1>1, SignalKeptStep

\* The next writer is woken.
LEMMA Signals_ExSleep ==
  ASSUME RwInv, SignalInv, NEW t \in Threads, ExSleep(t)
  PROVE  SignalInv'
<1> USE DEF ExSleep, Goto, At, lockVars
<1>1. SignalKept(t)
  BY DEF RwInv, Types, Events, SignalInv, NoneReserved, CallsOK, CallOK, CellOK, SignalKept
<1> QED BY <1>1, SignalKeptStep

\* The call of s_lock_func.
LEMMA Signals_rw_lock_s_lock_func ==
  ASSUME RwInv, SignalInv, NEW t \in Threads, rw_lock_s_lock_func(t)
  PROVE  SignalInv'
<1> USE DEF rw_lock_s_lock_func, Begin, At, lockVars, waitVars
<1>1. SignalKept(t)
  BY DEF RwInv, Types, Events, SignalInv, NoneReserved, CallsOK, CallOK, CellOK, SignalKept
<1> QED BY <1>1, SignalKeptStep

\* The call of nowait.
LEMMA Signals_rw_lock_x_lock_func_nowait ==
  ASSUME RwInv, SignalInv, NEW t \in Threads, rw_lock_x_lock_func_nowait(t)
  PROVE  SignalInv'
<1> USE DEF rw_lock_x_lock_func_nowait, Begin, At, CanXLock, lockVars, waitVars
<1>1. SignalKept(t)
  BY DEF RwInv, Types, Events, SignalInv, NoneReserved, CallsOK, CallOK, CellOK, SignalKept
<1> QED BY <1>1, SignalKeptStep

\* The call of x_lock_func.
LEMMA Signals_rw_lock_x_lock_func ==
  ASSUME RwInv, SignalInv, NEW t \in Threads, NEW call \in {"x", "pass"}, rw_lock_x_lock_func(t, call)
  PROVE  SignalInv'
<1> USE DEF rw_lock_x_lock_func, Begin, At, CanXLock, lockVars, waitVars
<1>1. SignalKept(t)
  BY DEF RwInv, Types, Events, SignalInv, NoneReserved, CallsOK, CallOK, CellOK, SignalKept
<1> QED BY <1>1, SignalKeptStep

\* A handler makes a passed lock its own.
LEMMA Signals_rw_lock_x_lock_move_ownership ==
  ASSUME RwInv, SignalInv, NEW t \in Threads, rw_lock_x_lock_move_ownership(t)
  PROVE  SignalInv'
<1> USE DEF rw_lock_x_lock_move_ownership, TakeOver, Begin, At, waitVars
<1>1. SignalKept(t)
  BY DEF RwInv, Types, Events, SignalInv, NoneReserved, CallsOK, CallOK, CellOK, SignalKept
<1> QED BY <1>1, SignalKeptStep

\* The holder begins to release the x-lock.
LEMMA Signals_rw_lock_x_unlock_func ==
  ASSUME RwInv, SignalInv, NEW t \in Threads, rw_lock_x_unlock_func(t)
  PROVE  SignalInv'
<1> USE DEF rw_lock_x_unlock_func, TakeOver, Begin, At, waitVars
<1>1. SignalKept(t)
  BY DEF RwInv, Types, Events, SignalInv, NoneReserved, CallsOK, CallOK, CellOK, SignalKept
<1> QED BY <1>1, SignalKeptStep

\* The next writer writes its thread id.
LEMMA Signals_SetWriter ==
  ASSUME RwInv, SignalInv, NEW t \in Threads, SetWriter(t)
  PROVE  SignalInv'
<1> USE DEF SetWriter, Goto, At, waitVars
<1>1. SignalKept(t)
  BY DEF RwInv, Types, Events, SignalInv, NoneReserved, CallsOK, CallOK, CellOK, SignalKept
<1> QED BY <1>1, SignalKeptStep

\* The next writer sets the recursion flag.
LEMMA Signals_SetRecursive ==
  ASSUME RwInv, SignalInv, NEW t \in Threads, SetRecursive(t)
  PROVE  SignalInv'
<1> USE DEF SetRecursive, Goto, Return, At
<1>1. SignalKept(t)
  BY DEF RwInv, Types, Events, SignalInv, NoneReserved, CallsOK, CallOK, CellOK, SignalKept
<1> QED BY <1>1, SignalKeptStep

\* The next writer finds the last reader gone.
LEMMA Signals_XLocked ==
  ASSUME RwInv, SignalInv, NEW t \in Threads, XLocked(t)
  PROVE  SignalInv'
<1> USE DEF XLocked, Return, At
<1>1. SignalKept(t)
  BY DEF RwInv, Types, Events, SignalInv, NoneReserved, CallsOK, CallOK, CellOK, SignalKept
<1> QED BY <1>1, SignalKeptStep

\* A reader enters.
LEMMA Signals_rw_lock_s_lock_low ==
  ASSUME RwInv, SignalInv, NEW t \in Threads, rw_lock_s_lock_low(t)
  PROVE  SignalInv'
<1> USE DEF rw_lock_s_lock_low, Return, At
<1>1. SignalKept(t)
  BY DEF RwInv, Types, Events, SignalInv, NoneReserved, CallsOK, CallOK, CellOK, SignalKept
<1> QED BY <1>1, SignalKeptStep

\* x_lock_low succeeds.
LEMMA Signals_XDecrement ==
  ASSUME RwInv, SignalInv, NEW t \in Threads, XDecrement(t)
  PROVE  SignalInv'
<1> USE DEF XDecrement, Goto, At, waitVars
<1>1. SignalKept(t)
  BY DEF RwInv, Types, Events, SignalInv, NoneReserved, CallsOK, CallOK, CellOK, SignalKept
<1> QED BY <1>1, SignalKeptStep

\* x_lock_func_nowait finds the lock free, or not.
LEMMA Signals_NowaitCas ==
  ASSUME RwInv, SignalInv, NEW t \in Threads, NowaitCas(t)
  PROVE  SignalInv'
<1> USE DEF NowaitCas, Goto, At, lockVars, waitVars
<1>0. X_LOCK_DECR \in Nat /\ X_LOCK_DECR > 0 BY XWordFacts
<1>1. SignalKept(t)
  BY <1>0 DEF RwInv, Types, Events, SignalInv, NoneReserved, CallsOK, CallOK, CellOK, SignalKept
<1> QED BY <1>1, SignalKeptStep

\* Reading the recursion flag.
LEMMA Signals_ReadRecursive ==
  ASSUME RwInv, SignalInv, NEW t \in Threads, ReadRecursive(t)
  PROVE  SignalInv'
<1> USE DEF ReadRecursive, NotMine, Failed, Goto, Return, At, lockVars
<1>1. SignalKept(t)
  BY DEF RwInv, Types, Events, SignalInv, NoneReserved, CallsOK, CallOK, CellOK, SignalKept
<1> QED BY <1>1, SignalKeptStep

\* Reading the owner: another x-lock, or none.
LEMMA Signals_ReadWriter ==
  ASSUME RwInv, SignalInv, NEW t \in Threads, ReadWriter(t)
  PROVE  SignalInv'
<1> USE DEF ReadWriter, Relock, NotMine, Failed, Goto, Return, At, lockVars
<1>0. X_LOCK_DECR \in Nat /\ X_LOCK_DECR > 0 BY XWordFacts
<1>1. SignalKept(t)
  BY <1>0 DEF RwInv, Types, Events, SignalInv, NoneReserved, CallsOK, CallOK, CellOK, SignalKept
<1> QED BY <1>1, SignalKeptStep

\* A reader leaves: the last one will signal the next writer.
LEMMA Signals_rw_lock_s_unlock_func ==
  ASSUME RwInv, SignalInv, NEW t \in Threads, rw_lock_s_unlock_func(t)
  PROVE  SignalInv'
<1> USE DEF rw_lock_s_unlock_func, Begin, At, waitVars
<1>1. lock_word # 0
  <2>1. readers \in SUBSET Threads /\ readers # {} BY DEF RwInv, Types
  <2>2. Cardinality(readers) \in Nat /\ Cardinality(readers) # 0 BY <2>1, ReaderFacts
  <2>3. Cardinality(readers) < X_LOCK_DECR
    <3>1. Cardinality(readers) <= Cardinality(Threads) BY <2>1, ThreadsAssumption, FS_Subset
    <3> QED BY <2>2, <3>1, ThreadsAssumption, FS_CardinalityType
  <2>4. CASE \E u \in Threads : x[u] > 0
    <3>1. PICK u \in Threads : x[u] > 0 BY <2>4
    <3>2. lock_word = XWord(x[u]) - Cardinality(readers) BY <3>1 DEF RwInv, LockWordCounts
    <3>3. x[u] \in Nat BY DEF RwInv, Types
    <3>4. XWord(x[u]) \in Int /\ XWord(x[u]) <= 0 BY <3>1, <3>3, XWordFacts
    <3> QED BY <2>2, <3>2, <3>4
  <2>5. CASE passed
    BY <2>1, <2>5 DEF RwInv, OnlyEntering
  <2>6. CASE ~passed /\ \A u \in Threads : x[u] = 0
    <3>1. lock_word = XWord(0) - Cardinality(readers) BY <2>6 DEF RwInv, LockWordCounts
    <3> QED BY <2>2, <2>3, <3>1, XWordFacts
  <2> QED BY <2>4, <2>5, <2>6 DEF RwInv, Types
<1>2. CASE lock_word + 1 # 0
  <2>1. SignalKept(t)
    BY <1>1, <1>2 DEF RwInv, Types, Events, SignalInv, NoneReserved, CellOK, SignalKept
  <2> QED BY <2>1, SignalKeptStep
<1>3. CASE lock_word + 1 = 0
  <2>1. pc'[t] = "ex_signal" /\ op'[t] = "unlock" BY <1>3 DEF RwInv, Types
  <2>2. /\ \A u \in Threads \ {t} : pc'[u] = pc[u] /\ op'[u] = op[u]
        /\ cell' = cell /\ event' = event /\ waiters' = waiters
    BY DEF RwInv, Types
  <2>3. lock_word' <= 0 /\ Somebody({"ex_signal"})' BY <1>3, <2>1 DEF RwInv, Types, Somebody
  <2>4. Somebody({"signal"}) => Somebody({"signal"})' BY <2>2 DEF Somebody
  <2>5. NoneReserved' BY <2>2 DEF SignalInv, NoneReserved
  <2>6. cell[t]["event"] = "free" BY DEF SignalInv, CellOK
  <2>7. ASSUME NEW u \in Threads
        PROVE  CellOK(u)' /\ WaitAnnounced(u)' /\ BlockerLeft(u)' /\ ReaderLeft(u)'
    <3>1. CellOK(u)' BY <2>1, <2>2, <2>6 DEF SignalInv, CellOK
    <3>2. WaitAnnounced(u)' BY <2>1, <2>2, <2>4, <2>6 DEF SignalInv, WaitAnnounced
    <3>3. BlockerLeft(u)' /\ ReaderLeft(u)' BY <2>3 DEF BlockerLeft, ReaderLeft
    <3> QED BY <3>1, <3>2, <3>3
  <2> QED BY <2>5, <2>7 DEF SignalInv
<1> QED BY <1>2, <1>3

\* The x-lock is released: if the lock is free the thread will test the flag.  The thread
\* itself held the lock, so no next writer is asleep.
LEMMA Signals_XIncrement ==
  ASSUME RwInv, SignalInv, NEW t \in Threads, XIncrement(t)
  PROVE  SignalInv'
<1> USE DEF XIncrement, Goto, Return, At
<1>0. X_LOCK_DECR \in Nat /\ X_LOCK_DECR > 0 BY XWordFacts
<1>1. x[t] \in Nat /\ x[t] > 0 BY DEF RwInv, Types, CallsOK, CallOK
<1>2. \A u \in Threads \ {t} : pc[u] # "ex_sleep"
  <2> SUFFICES ASSUME NEW u \in Threads \ {t}, pc[u] = "ex_sleep" PROVE FALSE OBVIOUS
  <2>1. x[u] = 1 BY DEF RwInv, CallsOK, CallOK
  <2> QED BY <1>1, <2>1 DEF RwInv, OneOwner
<1>3. lock_word' <= 0 \/ Somebody({"test_waiters", "reset_waiters", "signal"})'
  <2>1. Cardinality(readers) = 0
    <3>1. readers \in SUBSET Threads /\ readers = {}
      BY <1>1 DEF RwInv, Types, OnlyEntering, XHeld, Entering
    <3> QED BY <3>1, ReaderFacts
  <2>2. lock_word = XWord(x[t]) - Cardinality(readers) BY <1>1 DEF RwInv, LockWordCounts
  <2>3. CASE x[t] = 1
    <3>1. lock_word' = X_LOCK_DECR BY <2>1, <2>2, <2>3, <1>0, XWordFacts
    <3>2. pc'[t] = "test_waiters" BY <3>1 DEF RwInv, Types
    <3> QED BY <3>2 DEF Somebody
  <2>4. CASE x[t] > 1
    <3>1. x[t] - 1 \in Nat /\ x[t] - 1 > 0 BY <1>1, <2>4
    <3>2. XWord(x[t] - 1) = XWord(x[t]) + X_LOCK_DECR /\ XWord(x[t] - 1) <= 0 /\ XWord(x[t]) \in Int
      BY <1>1, <3>1, XWordFacts
    <3> QED BY <1>0, <2>1, <2>2, <3>2
  <2> QED BY <1>1, <2>3, <2>4
<1>4. /\ \A u \in Threads \ {t} : pc'[u] = pc[u] /\ op'[u] = op[u] /\ cell'[u] = cell[u]
      /\ pc'[t] \in {"test_waiters", "idle"}
      /\ event' = event /\ waiters' = waiters
  BY DEF RwInv, Types
<1>5. Somebody({"signal"}) => Somebody({"signal"})' BY <1>4 DEF Somebody
<1>6. /\ \A e \in Events : cell'[t][e] = "reserved" => cell[t][e] = "reserved"
      /\ CellOK(t)'
  BY DEF RwInv, Types, Events, SignalInv, CellOK
<1>7. NoneReserved' BY <1>4, <1>6 DEF SignalInv, NoneReserved
<1>8. ASSUME NEW u \in Threads
      PROVE  CellOK(u)' /\ WaitAnnounced(u)' /\ BlockerLeft(u)' /\ ReaderLeft(u)'
  <2>1. CellOK(u)' BY <1>4, <1>6 DEF SignalInv, CellOK
  <2>2. WaitAnnounced(u)' BY <1>4, <1>5, <1>6 DEF SignalInv, WaitAnnounced, Events
  <2>3. BlockerLeft(u)' BY <1>3 DEF BlockerLeft
  <2>4. ReaderLeft(u)' BY <1>2, <1>4 DEF ReaderLeft
  <2> QED BY <2>1, <2>2, <2>3, <2>4
<1> QED BY <1>7, <1>8 DEF SignalInv

\* The flag is tested: if it is not set, whoever reset it will signal.
LEMMA Signals_TestWaiters ==
  ASSUME RwInv, SignalInv, NEW t \in Threads, TestWaiters(t)
  PROVE  SignalInv'
<1> USE DEF TestWaiters, Goto, Return, At, lockVars
<1>1. /\ \A u \in Threads \ {t} : pc'[u] = pc[u] /\ op'[u] = op[u] /\ cell'[u] = cell[u]
      /\ pc'[t] \in {"reset_waiters", "idle"}
      /\ pc'[t] = "idle" => ~waiters
      /\ event' = event /\ waiters' = waiters /\ lock_word' = lock_word
  BY DEF RwInv, Types
<1>2. /\ \A e \in Events : cell'[t][e] = "reserved" => cell[t][e] = "reserved"
      /\ CellOK(t)'
  BY DEF RwInv, Types, Events, SignalInv, CellOK
<1>3. /\ Somebody({"signal"}) => Somebody({"signal"})'
      /\ Somebody({"ex_signal"}) => Somebody({"ex_signal"})'
  BY <1>1 DEF Somebody
<1>4. NoneReserved' BY <1>1, <1>2 DEF SignalInv, NoneReserved
<1>5. ASSUME NEW u \in Threads
      PROVE  CellOK(u)' /\ WaitAnnounced(u)' /\ BlockerLeft(u)' /\ ReaderLeft(u)'
  <2>1. CellOK(u)' BY <1>1, <1>2 DEF SignalInv, CellOK
  <2>2. WaitAnnounced(u)' BY <1>1, <1>2, <1>3 DEF SignalInv, WaitAnnounced, Events
  <2>3. BlockerLeft(u)'
    <3> SUFFICES ASSUME u # t, cell[u]["event"] = "reserved",
                        pc[u] \in {"read_recursive", "read_writer", "sleep"}
                 PROVE  Somebody({"test_waiters", "reset_waiters", "signal"})'
      BY <1>1 DEF BlockerLeft
    <3>1. waiters \/ Somebody({"signal"}) BY DEF SignalInv, WaitAnnounced
    <3>2. waiters => pc'[t] = "reset_waiters" BY <1>1
    <3> QED BY <1>3, <3>1, <3>2 DEF Somebody
  <2>4. ReaderLeft(u)' BY <1>1, <1>3 DEF SignalInv, ReaderLeft
  <2> QED BY <2>1, <2>2, <2>3, <2>4
<1> QED BY <1>4, <1>5 DEF SignalInv

\* The flag is reset: from now on the thread will signal.
LEMMA Signals_rw_lock_reset_waiter_flag ==
  ASSUME RwInv, SignalInv, NEW t \in Threads, rw_lock_reset_waiter_flag(t)
  PROVE  SignalInv'
<1> USE DEF rw_lock_reset_waiter_flag, Goto, At, lockVars
<1>1. /\ \A u \in Threads \ {t} : pc'[u] = pc[u]
      /\ op' = op /\ cell' = cell /\ event' = event /\ lock_word' = lock_word
      /\ pc'[t] = "signal"
  BY DEF RwInv, Types
<1>2. /\ Somebody({"signal"})' /\ Somebody({"test_waiters", "reset_waiters", "signal"})'
      /\ Somebody({"ex_signal"}) => Somebody({"ex_signal"})'
  BY <1>1 DEF Somebody
<1>3. NoneReserved' BY <1>1 DEF SignalInv, NoneReserved
<1>4. ASSUME NEW u \in Threads
      PROVE  CellOK(u)' /\ WaitAnnounced(u)' /\ BlockerLeft(u)' /\ ReaderLeft(u)'
  <2>1. CellOK(u)' BY <1>1 DEF SignalInv, CellOK
  <2>2. WaitAnnounced(u)' /\ BlockerLeft(u)' BY <1>2 DEF WaitAnnounced, BlockerLeft
  <2>3. ReaderLeft(u)' BY <1>1, <1>2 DEF SignalInv, ReaderLeft
  <2> QED BY <2>1, <2>2, <2>3
<1> QED BY <1>3, <1>4 DEF SignalInv

\* Setting an event leaves no reserved cell for it, and the other event's cells alone.
LEMMA EventSet ==
  ASSUME RwInv, SignalInv, NEW e \in Events, os_event_set(e)
  PROVE  /\ NoneReserved'
         /\ \A u \in Threads : cell'[u][e] # "reserved"
         /\ \A u \in Threads, f \in Events : /\ cell'[u][f] = "reserved" => cell[u][f] = "reserved"
                                             /\ cell'[u][f] = "free" <=> cell[u][f] = "free"
<1>1. \A u \in Threads, f \in Events :
        cell'[u][f] = IF f = e /\ ~event[e] /\ cell[u][f] = "reserved" THEN "signalled" ELSE cell[u][f]
  BY DEF os_event_set
<1>2. \A u \in Threads : cell'[u][e] # "reserved" BY <1>1 DEF SignalInv, NoneReserved
<1>3. \A f \in Events \ {e} : event'[f] = event[f] BY DEF os_event_set, RwInv, Types
<1>4. NoneReserved' BY <1>1, <1>2, <1>3 DEF SignalInv, NoneReserved
<1> QED BY <1>1, <1>2, <1>4

\* The last writer signals: no reserved cell is left for event.
LEMMA Signals_Signal ==
  ASSUME RwInv, SignalInv, NEW t \in Threads, Signal(t)
  PROVE  SignalInv'
<1> USE DEF Signal, At, lockVars, Events
<1>1. /\ NoneReserved'
      /\ \A u \in Threads : cell'[u]["event"] # "reserved"
      /\ \A u \in Threads, f \in Events : /\ cell'[u][f] = "reserved" => cell[u][f] = "reserved"
                                          /\ cell'[u][f] = "free" <=> cell[u][f] = "free"
  BY EventSet
<1>2. /\ \A u \in Threads \ {t} : pc'[u] = pc[u] /\ op'[u] = op[u]
      /\ pc'[t] = "idle" /\ op'[t] = "none" /\ lock_word' = lock_word
  BY DEF RwInv, Types
<1>3. Somebody({"ex_signal"}) => Somebody({"ex_signal"})' BY <1>2 DEF Somebody
<1>4. ASSUME NEW u \in Threads
      PROVE  CellOK(u)' /\ WaitAnnounced(u)' /\ BlockerLeft(u)' /\ ReaderLeft(u)'
  <2>0. CellOK(t) /\ CellOK(u) /\ ReaderLeft(u) BY DEF SignalInv
  <2>1. CellOK(u)'
    <3>1. CASE u # t BY <1>1, <1>2, <2>0, <3>1 DEF CellOK
    <3>2. CASE u = t
      <4>1. cell[t]["event"] = "free" BY <2>0 DEF CellOK
      <4> QED BY <1>1, <1>2, <3>2, <4>1 DEF CellOK
    <3> QED BY <3>1, <3>2
  <2>2. WaitAnnounced(u)' /\ BlockerLeft(u)' BY <1>1 DEF WaitAnnounced, BlockerLeft
  <2>3. ReaderLeft(u)' BY <1>1, <1>2, <1>3, <2>0 DEF ReaderLeft
  <2> QED BY <2>1, <2>2, <2>3
<1> QED BY <1>1, <1>4 DEF SignalInv

\* The last reader signals the next writer: no reserved cell is left for wait_ex.
LEMMA Signals_ExSignal ==
  ASSUME RwInv, SignalInv, NEW t \in Threads, ExSignal(t)
  PROVE  SignalInv'
<1> USE DEF ExSignal, At, lockVars, Events
<1>1. /\ NoneReserved'
      /\ \A u \in Threads : cell'[u]["wait_ex"] # "reserved"
      /\ \A u \in Threads, f \in Events : /\ cell'[u][f] = "reserved" => cell[u][f] = "reserved"
                                          /\ cell'[u][f] = "free" <=> cell[u][f] = "free"
  BY EventSet
<1>2. /\ \A u \in Threads \ {t} : pc'[u] = pc[u] /\ op'[u] = op[u]
      /\ pc'[t] = "idle" /\ op'[t] = "none" /\ lock_word' = lock_word /\ waiters' = waiters
  BY DEF RwInv, Types
<1>3. /\ Somebody({"signal"}) => Somebody({"signal"})'
      /\ Somebody({"test_waiters", "reset_waiters", "signal"}) =>
           Somebody({"test_waiters", "reset_waiters", "signal"})'
  BY <1>2 DEF Somebody
<1>4. ASSUME NEW u \in Threads
      PROVE  CellOK(u)' /\ WaitAnnounced(u)' /\ BlockerLeft(u)' /\ ReaderLeft(u)'
  <2>0. CellOK(t) /\ CellOK(u) /\ WaitAnnounced(u) /\ BlockerLeft(u) BY DEF SignalInv
  <2>1. CellOK(u)'
    <3>1. CASE u # t BY <1>1, <1>2, <2>0, <3>1 DEF CellOK
    <3>2. CASE u = t
      <4>1. cell[t]["event"] = "free" BY <2>0 DEF CellOK
      <4> QED BY <1>1, <1>2, <3>2, <4>1 DEF CellOK
    <3> QED BY <3>1, <3>2
  <2>2. WaitAnnounced(u)' BY <1>1, <1>2, <1>3, <2>0 DEF WaitAnnounced
  <2>3. BlockerLeft(u)' BY <1>1, <1>2, <1>3, <2>0 DEF BlockerLeft
  <2>4. ReaderLeft(u)' BY <1>1 DEF ReaderLeft
  <2> QED BY <2>1, <2>2, <2>3, <2>4
<1> QED BY <1>1, <1>4 DEF SignalInv

\* The error monitor sets an event.
LEMMA Signals_wake ==
  ASSUME RwInv, SignalInv, NEW t \in Threads, NEW e \in Events,
         sync_arr_wake_threads_if_sema_free(t, e)
  PROVE  SignalInv'
<1> USE DEF sync_arr_wake_threads_if_sema_free, lockVars
<1>1. /\ NoneReserved'
      /\ \A u \in Threads, f \in Events : /\ cell'[u][f] = "reserved" => cell[u][f] = "reserved"
                                          /\ cell'[u][f] = "free" <=> cell[u][f] = "free"
  BY EventSet
<1>2. pc' = pc /\ op' = op /\ lock_word' = lock_word /\ waiters' = waiters OBVIOUS
<1>3. ASSUME NEW u \in Threads
      PROVE  CellOK(u)' /\ WaitAnnounced(u)' /\ BlockerLeft(u)' /\ ReaderLeft(u)'
  <2>1. CellOK(u)' BY <1>1, <1>2 DEF SignalInv, CellOK, At, Events
  <2>2. WaitAnnounced(u)' BY <1>1, <1>2 DEF SignalInv, WaitAnnounced, At, Events, Somebody
  <2>3. BlockerLeft(u)' BY <1>1, <1>2 DEF SignalInv, BlockerLeft, Events, Somebody
  <2>4. ReaderLeft(u)' BY <1>1, <1>2 DEF SignalInv, ReaderLeft, At, Events, Somebody
  <2> QED BY <2>1, <2>2, <2>3, <2>4
<1> QED BY <1>1, <1>3 DEF SignalInv

\* Nobody waits for a new lock.
LEMMA InitSignalInv ==
  Init => SignalInv
BY DEF Init, SignalInv, NoneReserved, CellOK, WaitAnnounced, BlockerLeft, ReaderLeft, At, Events

\* Every step keeps the invariant.
LEMMA NextSignalInv ==
  ASSUME RwInv, SignalInv, [Next]_vars
  PROVE  SignalInv'
<1>1. ASSUME NEW t \in Threads, LockStep(t) PROVE SignalInv'
  BY <1>1, Signals_rw_lock_s_lock_low, Signals_SLockFailed, Signals_Reserve,
     Signals_rw_lock_set_waiter_flag, Signals_sync_array_wait_event, Signals_XDecrement,
     Signals_XDecrementFailed, Signals_NowaitCas, Signals_ReadRecursive, Signals_ReadWriter,
     Signals_SetWriter, Signals_SetRecursive, Signals_XLocked, Signals_XWaits, Signals_ExReserve,
     Signals_ExCheck, Signals_ExSleep
  DEF LockStep
<1>2. ASSUME NEW t \in Threads, UnlockStep(t) PROVE SignalInv'
  BY <1>2, Signals_ExSignal, Signals_XIncrement, Signals_TestWaiters,
     Signals_rw_lock_reset_waiter_flag, Signals_Signal
  DEF UnlockStep
<1>3. ASSUME NEW t \in Threads, LockCall(t) PROVE SignalInv'
  BY <1>3, Signals_rw_lock_s_lock_func, Signals_rw_lock_x_lock_func,
     Signals_rw_lock_x_lock_func_nowait, Signals_rw_lock_x_lock_move_ownership
  DEF LockCall
<1>4. ASSUME NEW t \in Threads, UnlockCall(t) PROVE SignalInv'
  BY <1>4, Signals_rw_lock_s_unlock_func, Signals_rw_lock_x_unlock_func DEF UnlockCall
<1>5. ASSUME UNCHANGED vars PROVE SignalInv'
  BY <1>5 DEF vars, SignalInv, NoneReserved, CellOK, WaitAnnounced, BlockerLeft, ReaderLeft, At,
              Somebody
<1> QED BY <1>1, <1>2, <1>3, <1>4, <1>5, Signals_wake DEF Next

\* No thread sleeps on event or on wait_ex without somebody left who will signal it, for
\* any number of threads and without the error monitor's help.
THEOREM SignalsArrive ==
  ASSUME NowaitNest <= 2
  PROVE  Spec => []NoLostSignal
<1>1. RwInv /\ SignalInv => NoLostSignal
  <2> SUFFICES ASSUME RwInv, SignalInv, NEW t \in Threads
               PROVE  /\ At(t, "sleep") /\ ~Woken(t, "event") =>
                           \/ waiters /\ (lock_word <= 0 \/
                                \E u \in Threads : pc[u] \in {"test_waiters", "reset_waiters"})
                           \/ \E u \in Threads : At(u, "signal")
                      /\ At(t, "ex_sleep") /\ ~Woken(t, "wait_ex") =>
                           lock_word < 0 \/ \E u \in Threads : At(u, "ex_signal")
    BY DEF NoLostSignal
  <2>0. cell[t]["event"] \in {"free", "reserved", "signalled"}
        /\ cell[t]["wait_ex"] \in {"free", "reserved", "signalled"}
    BY DEF RwInv, Types, Events
  <2>1. CellOK(t) /\ WaitAnnounced(t) /\ BlockerLeft(t) /\ ReaderLeft(t) BY DEF SignalInv
  <2>2. ASSUME At(t, "sleep"), ~Woken(t, "event")
        PROVE  \/ waiters /\ (lock_word <= 0 \/
                    \E u \in Threads : pc[u] \in {"test_waiters", "reset_waiters"})
               \/ \E u \in Threads : At(u, "signal")
    <3>1. cell[t]["event"] = "reserved" BY <2>0, <2>1, <2>2 DEF CellOK, Woken
    <3> QED BY <2>1, <2>2, <3>1 DEF WaitAnnounced, BlockerLeft, Somebody, At
  <2>3. ASSUME At(t, "ex_sleep"), ~Woken(t, "wait_ex")
        PROVE  lock_word < 0 \/ \E u \in Threads : At(u, "ex_signal")
    <3>1. cell[t]["wait_ex"] = "reserved" BY <2>0, <2>1, <2>3 DEF CellOK, Woken, At
    <3> QED BY <2>1, <2>3, <3>1 DEF ReaderLeft, Somebody, At
  <2> QED BY <2>2, <2>3
<1>2. RwInv /\ SignalInv /\ [Next]_vars => SignalInv' BY NextSignalInv
<1> QED BY <1>1, <1>2, InitSignalInv, RwInvariant, PTL DEF Spec

-----------------------------------------------------------------------------
(* The bounds of the lock word: nobody nests x-locks beyond MaxNest, for a *)
(* call that has yet to take its x-lock has been counted when it began.    *)

\* A step of t leaves the nesting of the other threads alone.
LEMMA NestKept ==
  ASSUME NestInv, NEW t \in Threads, Frame(t), NestOK(t)'
  PROVE  NestInv'
<1> SUFFICES ASSUME NEW u \in Threads \ {t} PROVE NestOK(u)' BY DEF NestInv
<1>1. NestOK(u) BY DEF NestInv
<1> QED BY <1>1 DEF NestOK, Asking, Frame

\* Locking, the bound holds: what takes an x-lock was asking for it.
LEMMA NestLock ==
  ASSUME RwInv, NestInv, NEW t \in Threads, LockStep(t)
  PROVE  NestInv'
<1> SUFFICES Frame(t) /\ NestOK(t)' BY NestKept
<1>0. x[t] \in Int /\ MaxNest \in Int /\ NestOK(t)
  BY ThreadsAssumption DEF RwInv, Types, NestInv
<1>1. CASE rw_lock_s_lock_low(t)
  BY <1>1
  DEF rw_lock_s_lock_low, RwInv, Types, CallsOK, CallOK, lockVars, NestInv, NestOK, Asking, Frame, At,
      Goto, Begin, Return
<1>2. CASE SLockFailed(t)
  BY <1>2
 
    DEF SLockFailed, Failed, RwInv, Types, CallsOK, CallOK, lockVars, NestInv, NestOK,
        Asking, Frame, At,
      Goto, Begin, Return
<1>3. CASE Reserve(t)
  BY <1>3
 
    DEF Reserve, RwInv, Types, CallsOK, CallOK, lockVars, NestInv, NestOK, Asking, Frame,
        At, Goto, Begin,
      Return
<1>4. CASE rw_lock_set_waiter_flag(t)
  BY <1>4
 
    DEF rw_lock_set_waiter_flag, RwInv, Types, CallsOK, CallOK, lockVars, NestInv, NestOK,
        Asking, Frame,
      At, Goto, Begin, Return
<1>5. CASE sync_array_wait_event(t)
  BY <1>5
 
    DEF sync_array_wait_event, RwInv, Types, CallsOK, CallOK, lockVars, NestInv, NestOK,
        Asking, Frame, At,
      Goto, Begin, Return
<1>6. CASE XDecrement(t)
  <2>1. Frame(t) BY <1>6 DEF XDecrement, RwInv, Types, Frame, At, Goto, Begin, Return
  <2>2. x'[t] = x[t] + 1 /\ x[t] < MaxNest /\ pc'[t] = "set_writer"
    BY <1>0, <1>6 DEF XDecrement, RwInv, Types, Frame, At, Goto, Begin, Return, NestOK, Asking
  <2> QED BY <1>0, <2>1, <2>2 DEF NestOK, Asking
<1>7. CASE XDecrementFailed(t)
  BY <1>7
 
    DEF XDecrementFailed, Failed, RwInv, Types, CallsOK, CallOK, lockVars, NestInv, NestOK,
        Asking, Frame,
      At, Goto, Begin, Return
<1>8. CASE NowaitCas(t)
  <2>1. Frame(t) BY <1>8 DEF NowaitCas, lockVars, RwInv, Types, Frame, At, Goto, Begin, Return
  <2>2. \/ x'[t] = x[t] + 1 /\ x[t] < MaxNest /\ pc'[t] = "set_writer"
        \/ x'[t] = x[t] /\ x[t] < MaxNest
    BY <1>0, <1>8
    DEF NowaitCas, lockVars, RwInv, Types, Frame, At, Goto, Begin, Return, NestOK, Asking
  <2> QED BY <1>0, <2>1, <2>2 DEF NestOK, Asking
<1>9. CASE ReadRecursive(t)
  BY <1>9
 
    DEF ReadRecursive, NotMine, Failed, RwInv, Types, CallsOK, CallOK, lockVars, NestInv,
        NestOK, Asking,
      Frame, At, Goto, Begin, Return
<1>10. CASE ReadWriter(t)
  <2>1. Frame(t) BY <1>10
    DEF ReadWriter, NotMine, Failed, Relock, lockVars, RwInv, Types, Frame, At, Goto, Begin,
        Return
  <2>2. \/ x'[t] = x[t] + 1 /\ x[t] < MaxNest /\ pc'[t] = "idle"
        \/ x'[t] = x[t] /\ x[t] < MaxNest
    BY <1>0, <1>10
    DEF ReadWriter, NotMine, Failed, Relock, lockVars, RwInv, Types, Frame, At, Goto, Begin,
        Return, NestOK, Asking
  <2> QED BY <1>0, <2>1, <2>2 DEF NestOK, Asking
<1>11. CASE SetWriter(t)
  BY <1>11
  DEF SetWriter, RwInv, Types, CallsOK, CallOK, lockVars, NestInv, NestOK, Asking, Frame, At, Goto,
      Begin, Return
<1>12. CASE SetRecursive(t)
  BY <1>12
  DEF SetRecursive, RwInv, Types, CallsOK, CallOK, lockVars, NestInv, NestOK, Asking, Frame, At, Goto,
      Begin, Return
<1>13. CASE XLocked(t)
  <2>1. Frame(t) BY <1>13 DEF XLocked, RwInv, Types, Frame, At, Goto, Begin, Return
  <2>2. x'[t] \in {x[t], x[t] - 1} /\ pc'[t] = "idle"
    BY <1>0, <1>13 DEF XLocked, RwInv, Types, Frame, At, Goto, Begin, Return
  <2> QED BY <1>0, <2>1, <2>2 DEF NestOK, Asking
<1>14. CASE XWaits(t)
  BY <1>14
 
    DEF XWaits, RwInv, Types, CallsOK, CallOK, lockVars, NestInv, NestOK, Asking, Frame, At,
        Goto, Begin,
      Return
<1>15. CASE ExReserve(t)
  BY <1>15
  DEF ExReserve, RwInv, Types, CallsOK, CallOK, lockVars, NestInv, NestOK, Asking, Frame, At, Goto,
      Begin, Return
<1>16. CASE ExCheck(t)
  BY <1>16
 
    DEF ExCheck, RwInv, Types, CallsOK, CallOK, lockVars, NestInv, NestOK, Asking, Frame,
        At, Goto, Begin,
      Return
<1>17. CASE ExSleep(t)
  BY <1>17
 
    DEF ExSleep, RwInv, Types, CallsOK, CallOK, lockVars, NestInv, NestOK, Asking, Frame,
        At, Goto, Begin,
      Return
<1> QED BY <1>1, <1>2, <1>3, <1>4, <1>5, <1>6, <1>7, <1>8, <1>9, <1>10, <1>11, <1>12, <1>13,
       <1>14, <1>15, <1>16, <1>17
    DEF LockStep

\* Unlocking, x-locks only become fewer.
LEMMA NestUnlock ==
  ASSUME RwInv, NestInv, NEW t \in Threads, UnlockStep(t)
  PROVE  NestInv'
<1> SUFFICES Frame(t) /\ NestOK(t)' BY NestKept
<1>0. x[t] \in Int /\ MaxNest \in Int /\ NestOK(t)
  BY ThreadsAssumption DEF RwInv, Types, NestInv
<1>1. CASE ExSignal(t)
  BY <1>1
 
    DEF ExSignal, RwInv, Types, CallsOK, CallOK, lockVars, NestInv, NestOK, Asking, Frame,
        At, Goto, Begin,
      Return
<1>2. CASE XIncrement(t)
  <2>1. Frame(t) BY <1>2 DEF XIncrement, RwInv, Types, Frame, At, Goto, Begin, Return
  <2>2. x'[t] = x[t] - 1 /\ pc'[t] \in {"test_waiters", "idle"}
    BY <1>0, <1>2 DEF XIncrement, RwInv, Types, Frame, At, Goto, Begin, Return
  <2> QED BY <1>0, <2>1, <2>2 DEF NestOK, Asking
<1>3. CASE TestWaiters(t)
  BY <1>3
  DEF TestWaiters, RwInv, Types, CallsOK, CallOK, lockVars, NestInv, NestOK, Asking, Frame, At, Goto,
      Begin, Return
<1>4. CASE rw_lock_reset_waiter_flag(t)
  BY <1>4
 
    DEF rw_lock_reset_waiter_flag, RwInv, Types, CallsOK, CallOK, lockVars, NestInv, NestOK,
        Asking, Frame,
      At, Goto, Begin, Return
<1>5. CASE Signal(t)
  BY <1>5
 
    DEF Signal, RwInv, Types, CallsOK, CallOK, lockVars, NestInv, NestOK, Asking, Frame, At,
        Goto, Begin,
      Return
<1> QED BY <1>1, <1>2, <1>3, <1>4, <1>5 DEF UnlockStep

\* A call begins below the bound, or takes over the only x-lock there is.
LEMMA NestCall ==
  ASSUME RwInv, NestInv, NEW t \in Threads, LockCall(t) \/ UnlockCall(t)
  PROVE  NestInv'
<1> SUFFICES Frame(t) /\ NestOK(t)' BY NestKept
<1>1. CASE rw_lock_s_lock_func(t)
  BY <1>1
 
    DEF rw_lock_s_lock_func, RwInv, Types, CallsOK, CallOK, lockVars, NestInv, NestOK,
        Asking, Frame, At,
      Goto, Begin, Return
<1>2. CASE rw_lock_x_lock_func_nowait(t)
  BY <1>2
  DEF rw_lock_x_lock_func_nowait, CanXLock, RwInv, Types, CallsOK, CallOK, lockVars, NestInv, NestOK,
      Asking, Frame, At, Goto, Begin, Return
<1>3. CASE rw_lock_x_lock_move_ownership(t)
  BY <1>3, ThreadsAssumption
  DEF OneOwner, rw_lock_x_lock_move_ownership, TakeOver, RwInv, Types, CallsOK, CallOK,
      lockVars, NestInv, NestOK, Asking, Frame, At, Goto, Begin, Return
<1>4. CASE rw_lock_s_unlock_func(t)
  BY <1>4
 
    DEF rw_lock_s_unlock_func, RwInv, Types, CallsOK, CallOK, lockVars, NestInv, NestOK,
        Asking, Frame, At,
      Goto, Begin, Return
<1>5. CASE rw_lock_x_unlock_func(t)
  BY <1>5, ThreadsAssumption
  DEF OneOwner, rw_lock_x_unlock_func, TakeOver, RwInv, Types, CallsOK, CallOK, NestInv,
      NestOK, Asking, Frame, At, Goto, Begin, Return
<1>6. ASSUME NEW call \in {"x", "pass"}, rw_lock_x_lock_func(t, call) PROVE Frame(t) /\ NestOK(t)'
  BY <1>6
  DEF rw_lock_x_lock_func, CanXLock, RwInv, Types, lockVars, NestInv, NestOK, Asking, Frame,
      At, Begin
<1> QED BY <1>1, <1>2, <1>3, <1>4, <1>5, <1>6 DEF LockCall, UnlockCall

\* Every step keeps the bound.
LEMMA NextNestInv ==
  ASSUME RwInv, NestInv, [Next]_vars
  PROVE  NestInv'
<1>1. ASSUME NEW t \in Threads, LockStep(t) \/ UnlockStep(t) \/ LockCall(t) \/ UnlockCall(t)
      PROVE  NestInv'
  BY <1>1, NestLock, NestUnlock, NestCall
<1>2. ASSUME NEW t \in Threads, NEW e \in Events, sync_arr_wake_threads_if_sema_free(t, e)
      PROVE  NestInv'
  BY <1>2 DEF sync_arr_wake_threads_if_sema_free, lockVars, NestInv, NestOK, Asking
<1>3. ASSUME UNCHANGED vars PROVE NestInv'
  BY <1>3 DEF vars, NestInv, NestOK, Asking
<1> QED BY <1>1, <1>2, <1>3 DEF Next

\* The lock word between its bounds: n x-locks leave X_LOCK_DECR * (1 - n) of it, the
\* readers take less than another X_LOCK_DECR.
LEMMA WordBounds ==
  ASSUME RwInv, NestInv
  PROVE  lock_word <= X_LOCK_DECR /\ lock_word > -X_LOCK_DECR * MaxNest
<1>1. readers \in SUBSET Threads BY DEF RwInv, Types
<1>2. Cardinality(readers) \in Nat /\ Cardinality(readers) < X_LOCK_DECR
  <2>1. Cardinality(readers) \in Nat BY <1>1, ReaderFacts
  <2>2. Cardinality(readers) <= Cardinality(Threads) BY <1>1, FS_Subset, ThreadsAssumption
  <2>3. Cardinality(Threads) \in Nat BY FS_CardinalityType, ThreadsAssumption
  <2> QED BY <2>1, <2>2, <2>3, ThreadsAssumption
<1>3. ASSUME NEW n \in 0 .. MaxNest, lock_word = XWord(n) - Cardinality(readers)
      PROVE  lock_word <= X_LOCK_DECR /\ lock_word > -X_LOCK_DECR * MaxNest
  <2>1. X_LOCK_DECR \in Nat /\ X_LOCK_DECR > 0 BY XWordFacts
  <2>2. MaxNest \in Nat /\ n \in Nat /\ n <= MaxNest BY ThreadsAssumption
  <2>3. XWord(n) = X_LOCK_DECR - X_LOCK_DECR * n BY <2>1, <2>2 DEF XWord
  <2>4. PICK p \in Nat : p = X_LOCK_DECR * n /\ p <= X_LOCK_DECR * MaxNest BY <2>1, <2>2
  <2>5. PICK q \in Nat : q = X_LOCK_DECR * MaxNest BY <2>1, <2>2
  <2>6. -X_LOCK_DECR * MaxNest = -q BY <2>1, <2>2, <2>5
  <2>7. lock_word = X_LOCK_DECR - p - Cardinality(readers) /\ p <= q BY <1>3, <2>3, <2>4, <2>5
  <2> QED BY <1>2, <2>1, <2>4, <2>5, <2>6, <2>7
<1>4. CASE \E t \in Threads : x[t] > 0
  <2>1. PICK t \in Threads : x[t] > 0 BY <1>4
  <2>2. x[t] \in 0 .. MaxNest BY <2>1, ThreadsAssumption DEF RwInv, Types, NestInv, NestOK
  <2> QED BY <1>3, <2>1, <2>2 DEF RwInv, LockWordCounts
<1>5. CASE passed
  <2>1. 1 \in 0 .. MaxNest BY ThreadsAssumption
  <2> QED BY <1>3, <1>5, <2>1 DEF RwInv, LockWordCounts
<1>6. CASE ~passed /\ \A t \in Threads : ~(x[t] > 0)
  <2>1. 0 \in 0 .. MaxNest BY ThreadsAssumption
  <2>2. \A t \in Threads : x[t] = 0 BY <1>6 DEF RwInv, Types
  <2> QED BY <1>3, <1>6, <2>1, <2>2 DEF RwInv, LockWordCounts
<1> QED BY <1>4, <1>5, <1>6 DEF RwInv, Types

\* The lock's fields, the wait array and the threads keep their types, and the lock word
\* its bounds: it never exceeds the X_LOCK_DECR of a free lock, and MaxNest nested x-locks
\* with a reader in front of them are the least it shows, for any number of threads.
THEOREM RwTypes ==
  ASSUME NowaitNest <= 2
  PROVE  Spec => []TypeOK
<1>1. Init => NestInv BY ThreadsAssumption DEF Init, NestInv, NestOK, Asking
<1>2. RwInv /\ NestInv /\ [Next]_vars => NestInv' BY NextNestInv
<1>3. RwInv /\ NestInv => TypeOK BY WordBounds DEF TypeOK, RwInv
<1> QED BY <1>1, <1>2, <1>3, RwInvariant, PTL DEF Spec
=============================================================================
