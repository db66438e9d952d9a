------------------------------- MODULE MCMvcc -------------------------------
(* Instances of Mvcc for TLC: clients are interchangeable, ids are not. *)
EXTENDS Mvcc, TLC

CONSTANTS c1, c2, c3

MvccSymmetry == Permutations(Clients)
=============================================================================
