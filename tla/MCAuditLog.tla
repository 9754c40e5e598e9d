----------------------------- MODULE MCAuditLog -----------------------------
(* Constants for model checking AuditLog. *)
EXTENDS AuditLog, TLC

WriterSymmetry == Permutations(Writers)
=============================================================================
