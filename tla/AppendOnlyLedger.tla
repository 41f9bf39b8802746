-------------------------- MODULE AppendOnlyLedger --------------------------
(***************************************************************************)
(* What an audit trail promises: a log per tenant, to which entries are    *)
(* added at the end and from which nothing is ever taken or changed.       *)
(***************************************************************************)
EXTENDS Sequences

CONSTANTS Tenants, Bodies
VARIABLE log

Init == log = [t \in Tenants |-> <<>>]

Add(t, b) == log' = [log EXCEPT ![t] = Append(@, b)]

Next == \E t \in Tenants, b \in Bodies : Add(t, b)

Spec == Init /\ [][Next]_log
=============================================================================
