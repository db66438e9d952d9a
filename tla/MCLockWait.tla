---------------------------- MODULE MCLockWait ----------------------------
(* LockWait for TLC.                                                       *)
EXTENDS LockWait, TLC
CONSTANTS t1, t2, t3, p1

NoTableOf == [p \in Pages |-> NoTable]
ExclusivePoint == {<<"X", "REC_NOT_GAP">>}
\* The page at the start: all records live, or two records of which one is
\* delete-marked.
AllLive == {[k \in Keys |-> "live"]}
LiveOrMarked ==
  AllLive \cup {[k \in Keys |-> IF k = 2 THEN "absent" ELSE IF k = MaxKey THEN "marked" ELSE "live"]}
Symmetry == Permutations(Trx)
=============================================================================
