------------------------------- MODULE MCHitl -------------------------------
(* Finite instances of Hitl for TLC. *)
EXTENDS Hitl, TLC

\* Whatever the libraries accept, nothing (the code as it stands) included.
AnyAccepted == SUBSET Calls

\* Request identifiers are interchangeable: only safety runs use it.
Symmetry == Permutations(Requests)
=============================================================================
