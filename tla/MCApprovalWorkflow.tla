------------------------- MODULE MCApprovalWorkflow -------------------------
(* Instances of ApprovalWorkflow for TLC. *)
EXTENDS ApprovalWorkflow, TLC

\* Processes, record objects, users and calls are interchangeable.
Symmetry == Permutations(Workers) \cup Permutations(Objects)
            \cup Permutations(Actors) \cup Permutations(Requests)

\* What an object held does not matter once nothing refers to it.
View == <<db, [o \in Objects |-> IF Fresh(o) THEN None ELSE heap[o]], cache, loop, req,
          reading, now, created, decisions, runs, rejected>>
=============================================================================
