------------------------- MODULE MCTenantIsolation -------------------------
(* Requests with API keys and with session tokens on a shared connection,  *)
(* for the roles the policies bind and the one they do not.                *)
EXTENDS TenantIsolation, TLC

\* Requests and tenants are interchangeable.
Symmetry == Permutations(Requests) \union Permutations(Tenants)
=============================================================================
