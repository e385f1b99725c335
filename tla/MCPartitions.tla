---------------------------- MODULE MCPartitions ----------------------------
(* Finite instances of Partitions for TLC. *)
EXTENDS Partitions, TLC

\* Events are interchangeable: only safety runs use it.
Symmetry == Permutations(Events)

AnyAccepted == SUBSET Calls
=============================================================================
