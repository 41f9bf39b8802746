-------------------------- MODULE MCRequestPipeline --------------------------
(* Instances of RequestPipeline for TLC. *)
EXTENDS RequestPipeline, TLC

\* Requests are interchangeable.
Symmetry == Permutations(Requests)
=============================================================================
