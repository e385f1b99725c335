----------------------------- MODULE MCAuditLog -----------------------------
(* Finite instances of AuditLog for TLC. *)
EXTENDS AuditLog, TLC

\* Events are interchangeable: only safety runs use it.
Symmetry == Permutations(Events)
=============================================================================
