------------------------------- MODULE MCAio -------------------------------
(* Instances of Aio for TLC: the submitters are interchangeable. *)
EXTENDS Aio, TLC

CONSTANTS s1, s2

SubmitterSymmetry == Permutations({s1, s2})
=============================================================================
