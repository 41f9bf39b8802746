---------------------------- MODULE MCAuditChain ----------------------------
(* Instances of AuditChain for TLC. *)
EXTENDS AuditChain, TLC

\* Calls and bodies are interchangeable; tenants differ in what happens to them.
Symmetry == Permutations(Calls) \cup Permutations(Bodies)
=============================================================================
