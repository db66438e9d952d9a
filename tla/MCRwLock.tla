----------------------------- MODULE MCRwLock -----------------------------
(* Small instances of RwLock for TLC.                                      *)
EXTENDS RwLock, TLC

Symm == Permutations(Threads \ Handlers)
=============================================================================
