---------------------------- MODULE LockSysInv ----------------------------
(***************************************************************************)
(* The inductive invariant behind RULE 3 of the lock manager, in parts.    *)
(* LockSysProofs proves it.  The second part, WaitInv, is the invariant of *)
(* the waiting requests, and the third, GapInv, that of the gap locks;     *)
(* LockWaitsProofs proves them inductive next to it.                       *)
(***************************************************************************)
EXTENDS LockSys

\* A waiting record lock has at most one bit: without it the struct locks nothing.
OneBitIn(ls) ==
  \A i \in DOMAIN ls : (ls[i].type = "REC" /\ ls[i].wait) => \E h \in HeapNos : ls[i].bits \subseteq {h}

\* Record locks are on records that exist, or on the supremum, and their modes
\* are S and X.
BitsPresentIn(ls) ==
  \A i \in DOMAIN ls : ls[i].type = "REC" =>
    /\ ls[i].on \in Pages
    /\ ls[i].bits \subseteq Present(ls[i].on) \cup {PAGE_HEAP_NO_SUPREMUM}
    /\ ls[i].mode \in RecModes

\* t holds an explicit X lock on the record: rec_has_expl of X | REC_NOT_GAP.
HoldsX(ls, t, p, k) == rec_has_expl(ls, p, Request("X", "REC_NOT_GAP", FALSE), k, t)

\* A request of a transaction other than o, granted or waiting, on the record.
OtherRequest(ls, o, p, k) ==
  \E i \in DOMAIN ls : ls[i].trx # o /\ OnRec(ls[i], p, k) /\ LocksRecord(ls[i], k)

\* RULE 1: an implicit lock is exclusive by itself or has been made explicit.
ImplicitOrExplicitIn(ls) ==
  \A p \in Pages, k \in Keys : \A o \in clust_rec_some_has_impl(p, k) :
    HoldsX(ls, o, p, k) \/ ~OtherRequest(ls, o, p, k)

\* The model's DB_TRX_ID names a transaction only while it is active, and an
\* absent record has none.
WriterActive ==
  \A p \in Pages, k \in Keys :
    /\ rec_trx[p][k] \in Trx => conc[rec_trx[p][k]] = "ACTIVE"
    /\ rec[p][k] = "absent" => rec_trx[p][k] = NoTrx

\* The undo log of t leads back through its own changes to a committed version.
UndoConsistent ==
  \A t \in Trx : \A n \in DOMAIN undo[t] :
    LET u == undo[t][n]
    IN  /\ rec_trx[u.page][u.key] = t
        /\ u.old_trx \in {t, NoTrx}
        /\ u.old = "absent" => u.old_trx = NoTrx
        /\ \A m \in 1..(n-1) :
             (undo[t][m].page = u.page /\ undo[t][m].key = u.key) => u.old_trx = t

\* The lock call that owns the kernel mutex is of an active transaction and still
\* has its request in the queue, and an insert's key is still free.
CallConsistent ==
  /\ kernel.op \in {"modify", "insert"} => kernel.to # "absent" /\ conc[kernel.trx] = "ACTIVE"
  /\ kernel.op = "modify" =>
       \E i \in DOMAIN locks :
         /\ locks[i].trx = kernel.trx /\ OnRec(locks[i], kernel.page, kernel.key)
         /\ locks[i].mode = "X" /\ locks[i].gap = "REC_NOT_GAP" /\ ~locks[i].ins
  /\ kernel.op = "insert" => rec[kernel.page][kernel.key] = "absent"
  /\ kernel.op = "release" => kernel.trx \in Trx /\ conc[kernel.trx] = "COMMITTED_IN_MEMORY"

\* The strengthening of NoConflictingGranted and ImplicitLockExcludes that every
\* step of the lock manager preserves.
LockInv ==
  /\ TypeOK
  /\ NoOvertakingIn(locks)
  /\ OneBitIn(locks)
  /\ BitsPresentIn(locks)
  /\ ImplicitOrExplicitIn(locks)
  /\ WriterActive
  /\ UndoConsistent
  /\ CallConsistent

-----------------------------------------------------------------------------
(* The inductive invariant behind the rules of waiting: no lost grant, no  *)
(* wait cycle, no lock without an owner, and the multigranularity rule.    *)
(* LockWaitsProofs proves it.                                              *)

\* The transactions that may own locks.
Begun == {t \in Trx : conc[t] # "NOT_STARTED"}
OwnersIn(ls, S) == \A i \in DOMAIN ls : ls[i].trx \in S

\* A transaction waits for one request, and a waiting record request has one bit.
OneWaitIn(ls) ==
  \A i \in DOMAIN ls : ls[i].wait =>
    /\ ls[i].type = "REC" => \E h \in HeapNos : ls[i].bits = {h}
    /\ \A j \in DOMAIN ls : (ls[j].wait /\ ls[j].trx = ls[i].trx) => i = j

\* Every waiting request has a lock ahead of it that it must wait for.
BlockedIn(ls) == \A i \in DOMAIN ls : ls[i].wait => has_to_wait_in_queue(ls, i)

\* Among the first n structs is a granted intention lock of t, on the table of
\* page p, for record locks of this mode.
IntentionMode(mode) == IF mode = "X" THEN "IX" ELSE "IS"
IntendsIn(ls, n, t, p, mode) ==
  \E i \in DOMAIN ls :
    /\ i <= n
    /\ ls[i].type = "TABLE" /\ ls[i].trx = t /\ ls[i].on = TableOf[p] /\ ~ls[i].wait
    /\ mode_stronger_or_eq(ls[i].mode, IntentionMode(mode))

\* A record lock was requested under an intention lock, which is older.
IntentionIn(ls) ==
  \A i \in DOMAIN ls : (ls[i].type = "REC" /\ TableOf[ls[i].on] \in Tables) =>
    IntendsIn(ls, i, ls[i].trx, ls[i].on, ls[i].mode)

\* The queues alone.
WaitsIn(ls) == OneWaitIn(ls) /\ BlockedIn(ls) /\ IntentionIn(ls)

\* The writer of a record, and the lock call of one, has the intention lock.
WriterIntends ==
  /\ \A p \in Pages, k \in Keys : (rec_trx[p][k] \in Trx /\ TableOf[p] \in Tables) =>
       IntendsIn(locks, Len(locks), rec_trx[p][k], p, "X")
  /\ (kernel.op \in {"insert", "modify"} /\ TableOf[kernel.page] \in Tables) =>
       IntendsIn(locks, Len(locks), kernel.trx, kernel.page, "X")

\* m_wait_lock and m_que_state agree, and only an active transaction waits.
WaitStates ==
  \A t \in Trx :
    /\ que[t] = "LOCK_WAIT" => IsWaiting(locks, t)
    /\ IsWaiting(locks, t) => que[t] = "LOCK_WAIT" \/ Checking(t)
    /\ Checking(t) => conc[t] = "ACTIVE" /\ que[t] = "RUNNING"
    /\ conc[t] # "ACTIVE" => que[t] = "RUNNING"

\* While deadlock_occurs runs, the request it was called for is the newest struct.
NewestRequest ==
  \A t \in Trx : (Checking(t) /\ IsWaiting(locks, t)) =>
    locks[Len(locks)].trx = t /\ locks[Len(locks)].wait

\* No set of sleeping transactions each of which waits for another of the set.
NoCycleIn(ls, S) == ~\E C \in SUBSET S : C # {} /\ \A t \in C : \E u \in C : WaitsFor(ls, t, u)
Sleeping == {t \in Trx : que[t] = "LOCK_WAIT"}

WaitInv ==
  /\ OwnersIn(locks, Begun)
  /\ WaitsIn(locks)
  /\ WriterIntends
  /\ WaitStates
  /\ NewestRequest
  /\ NoCycleIn(locks, Sleeping)
-----------------------------------------------------------------------------
(* What FACT B of lock0lock.cc needs next to these: the locks on the       *)
(* supremum, and the requests of inserts.                                  *)

\* A lock with the bit of the supremum locks the gap before it.
SupremumIn(ls) ==
  \A i \in DOMAIN ls :
    ls[i].type = "REC" /\ PAGE_HEAP_NO_SUPREMUM \in ls[i].bits => ls[i].gap # "REC_NOT_GAP"

\* rec_insert_check_and_lock's request, and the one that is in the way of none.
InsertRequest == Request("X", "GAP", TRUE)
MayInsert(t, p, k) == ~rec_other_has_conflicting(locks, p, InsertRequest, NextRec(p, k), t)

\* While deadlock_occurs runs for an insert its request is the newest struct; once
\* it has been granted, no lock of another transaction is in the way.
InsertCall ==
  kernel.op = "insert" =>
    IF IsWaiting(locks, kernel.trx)
      THEN locks[Len(locks)] = NewRecLock(kernel.trx, kernel.page, InsertRequest,
                                          NextRec(kernel.page, kernel.key), TRUE)
      ELSE MayInsert(kernel.trx, kernel.page, kernel.key)

GapInv == SupremumIn(locks) /\ InsertCall
=============================================================================
