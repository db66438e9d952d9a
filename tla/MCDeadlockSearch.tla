------------------------- MODULE MCDeadlockSearch -------------------------
(* DeadlockSearch for TLC.                                                 *)
EXTENDS DeadlockSearch, LockSysInv, TLC
CONSTANTS t1, t2, t3, p1, tab1

\* Record locks only, or table locks and record locks below them.
NoTableOf == [p \in Pages |-> NoTable]
OneTableOf == [p \in Pages |-> tab1]
\* Read requests of the runs.
PointReads == {<<"S", "REC_NOT_GAP">>, <<"X", "REC_NOT_GAP">>}
SharedNextKey == {<<"S", "ORDINARY">>}
ExclusiveNextKey == {<<"X", "ORDINARY">>}
\* The page at the start: every record delete-marked.
AllMarked == {[k \in Keys |-> "marked"]}
Symmetry == Permutations(Trx)
=============================================================================
