-------------------------- MODULE VersionRegister --------------------------
(***************************************************************************)
(* What the versions of a policy promise: its history is a list of rules,  *)
(* numbered from one, to which an edit adds at the end and in which none   *)
(* is ever replaced; the policy is the last of them, under its number; and *)
(* it goes with all of them. The promise ends when the history is torn.    *)
(***************************************************************************)
EXTENDS Naturals, Sequences

CONSTANT Rules
VARIABLES history, current, torn

vars == <<history, current, torn>>

Init == history = <<>> /\ current = {} /\ torn = FALSE

Add(r) == /\ history' = Append(history, r)
          /\ current' = {[version |-> Len(history) + 1, rules |-> r]}

Remove == history' = <<>> /\ current' = {}

Next == \/ torn' = TRUE
        \/ UNCHANGED torn /\ (Remove \/ \E r \in Rules : Add(r))

Spec == Init /\ [][Next]_vars
=============================================================================
