----------------------------- MODULE LockModes -----------------------------
(***************************************************************************)
(* The pure part of the lock manager (lock/lock0lock.cc): lock modes, the  *)
(* compatibility and strength matrices, and the rules that decide when one *)
(* lock request has to wait for another.                                   *)
(*                                                                         *)
(* A Lock struct is a record                                               *)
(*   trx   m_trx, the owner                                                *)
(*   type  "TABLE" (LOCK_TABLE) or "REC" (LOCK_REC)                        *)
(*   on    the table or the page it belongs to                             *)
(*   mode  the LOCK_MODE_MASK part of m_type_mode                          *)
(*   gap   "ORDINARY" (next-key), "GAP" (LOCK_GAP) or "REC_NOT_GAP"        *)
(*   ins   LOCK_INSERT_INTENTION                                           *)
(*   wait  LOCK_WAIT                                                       *)
(*   bits  the heap numbers set in the bitmap ({} for a table lock).       *)
(***************************************************************************)
EXTENDS Naturals

PAGE_HEAP_NO_INFIMUM == 0
PAGE_HEAP_NO_SUPREMUM == 1

TableModes == {"IS", "IX", "S", "X"}
RecModes == {"S", "X"}
GapModes == {"ORDINARY", "GAP", "REC_NOT_GAP"}

\* The pairs whose entry in the symmetric matrix is true.
Lock_compatibility_matrix ==
  {<<"IS", "IS">>, <<"IS", "IX">>, <<"IS", "S">>,
   <<"IX", "IS">>, <<"IX", "IX">>,
   <<"S", "IS">>, <<"S", "S">>}

\* <<a, b>> is present iff a is at least as strong as b.
Lock_strength_matrix ==
  {<<"IS", "IS">>,
   <<"IX", "IS">>, <<"IX", "IX">>,
   <<"S", "IS">>, <<"S", "S">>,
   <<"X", "IS">>, <<"X", "IX">>, <<"X", "S">>, <<"X", "X">>}

mode_compatible(lhs, rhs) == <<lhs, rhs>> \in Lock_compatibility_matrix
mode_stronger_or_eq(lhs, rhs) == <<lhs, rhs>> \in Lock_strength_matrix

\* What a caller asks for: the type_mode argument without LOCK_WAIT.
Request(mode, gap, ins) == [mode |-> mode, gap |-> gap, ins |-> ins]

\* Does the existing record lock `lock` stand in the way of a request of t on
\* record h?  The wait flag of `lock` plays no part.
rec_blocks(lock, t, req, h) ==
  /\ t # lock.trx
  /\ ~mode_compatible(req.mode, lock.mode)
  /\ ~((h = PAGE_HEAP_NO_SUPREMUM \/ req.gap = "GAP") /\ ~req.ins)
  /\ ~(~req.ins /\ lock.gap = "GAP")
  /\ ~(req.gap = "GAP" /\ lock.gap = "REC_NOT_GAP")
  /\ ~lock.ins

\* Does `lock` have to wait for `ahead`, a lock in the same queue?  Record locks
\* meet on every heap number both have set; table locks on their modes.
has_to_wait_for(lock, ahead) ==
  /\ lock.on = ahead.on
  /\ lock.trx # ahead.trx
  /\ ~mode_compatible(lock.mode, ahead.mode)
  /\ \/ lock.type = "TABLE"
     \/ \E h \in lock.bits \cap ahead.bits : rec_blocks(ahead, lock.trx, lock, h)
=============================================================================
