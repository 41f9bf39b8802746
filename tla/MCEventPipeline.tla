-------------------------- MODULE MCEventPipeline --------------------------
(* An instance of EventPipeline for TLC. *)
EXTENDS EventPipeline

\* Each sink set, unset, or required and unset.
Deployments == [Sinks -> {"set", "unset", "required"}]
=============================================================================
