--------------------------- MODULE ExecutionGrant ---------------------------
(***************************************************************************)
(* What the approval workflow promises to whoever runs the approved        *)
(* action, with no record, cache, row or request in it: actors decide with *)
(* a TOTP code, and an approval is spent at most once, by an actor who     *)
(* decided, with another code (docs/srs_traceability_matrix.md, FR-2.3).   *)
(***************************************************************************)
CONSTANTS Approvals, Actors, Codes

VARIABLES granted, spent

Init == granted = {} /\ spent = {}

Decide(a, x, c) ==
    /\ granted' = granted \cup {[a |-> a, x |-> x, code |-> c]}
    /\ UNCHANGED spent

Spend(a, x, c) ==
    /\ \A s \in spent : s.a # a
    /\ \E d \in granted : d.a = a /\ d.x = x /\ d.code # c
    /\ spent' = spent \cup {[a |-> a, x |-> x, code |-> c]}
    /\ UNCHANGED granted

Next == \E a \in Approvals, x \in Actors, c \in Codes : Decide(a, x, c) \/ Spend(a, x, c)

Spec == Init /\ [][Next]_<<granted, spent>>
=============================================================================
