-------------------------- MODULE DeadlockSearch --------------------------
(***************************************************************************)
(* The depth-first search of deadlock_recursive, as the code makes it: in  *)
(* queue order, with a mark on the transactions searched to the end, a     *)
(* depth and a cost that deadlock_occurs keeps over its retries.  LockSys  *)
(* says which answers a search may give; SearchImplementsLockSys says that *)
(* this one gives no other, so it finds every cycle LockSys wants found.   *)
(***************************************************************************)
EXTENDS LockSys

VARIABLE cost    \* the steps of the search, kept while deadlock_occurs retries

searchVars == <<vars, cost>>

\* The locks ahead of the i-th one that the loop looks at, in the order it does:
\* from the head of a record's queue, or backwards through a table's.
\* (Mutant: the scan of the queue stops one lock early.)
Ahead_short(i) ==
  LET InQueue(j) == \E h \in locks[i].bits : OnRec(locks[j], locks[i].on, h)
  IN  SelectSeq([j \in 1..(i-2) |-> j], InQueue)
Ahead(i) ==
  LET InQueue(j) ==
        IF locks[i].type = "REC"
          THEN \E h \in locks[i].bits : OnRec(locks[j], locks[i].on, h)
          ELSE locks[j].type = "TABLE" /\ locks[j].on = locks[i].on
      up == SelectSeq([j \in 1..(i-1) |-> j], InQueue)
  IN  IF locks[i].type = "REC" THEN up ELSE [n \in DOMAIN up |-> up[Len(up) + 1 - n]]

\* An answer of the search: the victim is the transaction whose wait lock closes
\* the cycle.
Answer(ret, v, marks, n) == [ret |-> ret, victim |-> v, marks |-> marks, cost |-> n]

RECURSIVE deadlock_recursive(_, _, _, _, _, _), Loop(_, _, _, _, _, _, _)

\* The loop over the locks ahead of the i-th, a request of t.
Loop(start, t, i, ahead, marks, n, depth) ==
  IF ahead = <<>> THEN Answer("NONE", t, marks \cup {t}, n)
  ELSE LET found == locks[Head(ahead)]
           next(ms, c) == Loop(start, t, i, Tail(ahead), ms, c, depth)
       IN  IF ~has_to_wait_for(locks[i], found) THEN next(marks, n)
           ELSE IF found.trx = start
             THEN Answer(IF Weight(t) >= Weight(start) THEN "VICTIM_IS_START" ELSE "VICTIM_IS_OTHER",
                         t, marks, n)
           ELSE IF \/ depth > LOCK_MAX_DEPTH_IN_DEADLOCK_CHECK
                   \/ n > LOCK_MAX_N_STEPS_IN_DEADLOCK_CHECK
             THEN Answer("EXCEED_MAX_DEPTH", t, marks, n)
           ELSE IF que[found.trx] = "LOCK_WAIT"
             THEN LET r == deadlock_recursive(start, found.trx, WaitLock(found.trx),
                                              marks, n, depth + 1)
                  IN  IF r.ret # "NONE" THEN r ELSE next(r.marks, r.cost)
             ELSE next(marks, n)

\* (Mutant: the mark is not looked at.)
deadlock_recursive_unmarked(start, t, i, marks, n, depth) ==
  Loop(start, t, i, Ahead(i), marks, n + 1, depth)
\* (Mutant: the depth is counted one too far.)
deadlock_recursive_deeper(start, t, i, marks, n, depth) ==
  IF t \in marks THEN Answer("NONE", t, marks, n)
  ELSE Loop(start, t, i, Ahead(i), marks, n + 1, depth + 1)
deadlock_recursive(start, t, i, marks, n, depth) ==
  IF t \in marks THEN Answer("NONE", t, marks, n)
  ELSE Loop(start, t, i, Ahead(i), marks, n + 1, depth)

\* The request of t: its newest lock, which a retry may find granted.
RequestOf(t) ==
  CHOOSE i \in DOMAIN locks :
    locks[i].trx = t /\ \A j \in DOMAIN locks : locks[j].trx = t => j <= i

\* One search of deadlock_occurs, which first clears all marks.
Search(t) == deadlock_recursive(t, t, RequestOf(t), {}, cost, 0)

\* On LOCK_VICTIM_IS_OTHER the search is repeated.
deadlock_occurs(t) ==
  LET r == Search(t)
  IN  /\ Checking(t)
      /\ \/ r.ret = "NONE" /\ NotRefused(t) /\ cost' = 0
         \/ r.ret = "VICTIM_IS_OTHER" /\ Choose(r.victim) /\ cost' = r.cost
         \/ r.ret \in {"VICTIM_IS_START", "EXCEED_MAX_DEPTH"} /\ Refuse(t) /\ cost' = 0

InitSearch == Init /\ cost = 0

NextSearch ==
  \/ \E t \in Trx : deadlock_occurs(t)
  \/ /\ \/ \E t \in Trx : ClientRequest(t) \/ TrxStep(t) \/ WaitStep(t)
        \/ \E p \in Pages, k \in Keys : purge_remove(p, k)
     /\ UNCHANGED cost

SpecSearch == InitSearch /\ [][NextSearch]_searchVars

-----------------------------------------------------------------------------
(* Properties.                                                             *)

\* deadlock_occurs answers as LockSys allows: "no deadlock" only if no transaction
\* it could reach waits for the caller, a victim only if it closes a cycle, and
\* the limits only if a path or the work exceeds them.
SearchImplementsLockSys == Spec

\* The marks of deadlock_recursive make the search linear: it enters no waiting
\* transaction twice, whatever the shape of the waits-for graph.
SearchIsLinear ==
  \A t \in Trx : Checking(t) =>
    Search(t).cost <= cost + 1 + Cardinality({u \in Trx : que[u] = "LOCK_WAIT"})
=============================================================================
