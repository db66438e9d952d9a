------------------------------ MODULE MCRedo ------------------------------
(* Instances of Redo for TLC: the pages are interchangeable. *)
EXTENDS Redo, TLC

CONSTANTS c1, p1, p2

RedoSymmetry == Permutations({p1, p2})
===========================================================================
