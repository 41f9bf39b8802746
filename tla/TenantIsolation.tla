-------------------------- MODULE TenantIsolation --------------------------
(***************************************************************************)
(* How tenants are kept apart in the database: the context a thread        *)
(* carries (services/tenant_context.py), the settings each statement puts  *)
(* into its transaction (database/__init__.py), the pooled connections     *)
(* that carry them, and the row level security that reads them             *)
(* (database/migrations.py).                                               *)
(*                                                                         *)
(* Requests are threads behind tenant_database_context_middleware; what a  *)
(* handler does is left open: any statement on any table of each class of  *)
(* policies, in any of the contexts the code opens. The role owns the      *)
(* tables, to which security is FORCEd, or is a superuser, who bypasses it.*)
(* Tenant None is a row of no tenant, or no tenant in the context.         *)
(***************************************************************************)
EXTENDS FiniteSets

CONSTANTS Requests, Connections, Tenants, None

NoneAssumption == None \notin Requests

VARIABLES
    role,    \* the database role: "owner" or "superuser"
    pool,    \* the connections: their settings and who holds them
    request  \* where each request is, and its context

vars == <<role, pool, request>>

Tenant == Tenants \union {None}
Settings == [tenant : Tenant, lookup : BOOLEAN]
Cleared == [tenant |-> None, lookup |-> FALSE]

\* The tables, by the shape of their policies.
Classes == {"tenant", "lookup", "session", "shared", "system"}

\* A connection's settings: the session's, those it had when the transaction began, and
\* the transaction's own, if there are any.
Fresh == [session |-> Cleared, before |-> Cleared, local |-> {}, holder |-> None]
\* A request: as whom it has signed in, and its thread's context.
Outside == [pc |-> "new", tenant |-> None, context |-> Cleared, required |-> FALSE]

Init == /\ role \in {"owner", "superuser"}
        /\ pool = [k \in Connections |-> Fresh]
        /\ request = [r \in Requests |-> Outside]

At(r, pc) == request[r].pc = pc
Held(r) == {k \in Connections : pool[k].holder = r}
InEffect(k) == IF pool[k].local = {} THEN pool[k].session ELSE CHOOSE s \in pool[k].local : TRUE

-----------------------------------------------------------------------------
(***************************************************************************)
(* The policies of the tables.                                             *)
(***************************************************************************)

\* A mutant: an authentication lookup sees every table.
VisibleToLookup(class, row, s) ==
    \/ role = "superuser" \/ class = "system"
    \/ row # None /\ row = s.tenant
    \/ s.lookup
    \/ class = "shared" /\ row = None
\* rls_sql, USING: which rows there are for a statement.
Visible(class, row, s) ==
    \/ role = "superuser" \/ class = "system"
    \/ row # None /\ row = s.tenant
    \/ class \in {"lookup", "session"} /\ s.lookup
    \/ class = "shared" /\ row = None
\* rls_sql, WITH CHECK: which rows a statement may leave behind.
Admitted(class, row, s) ==
    \/ role = "superuser" \/ class = "system"
    \/ row # None /\ row = s.tenant
    \/ class = "session" /\ s.lookup
    \/ class = "shared" /\ row = None

-----------------------------------------------------------------------------
(***************************************************************************)
(* Connections.                                                            *)
(***************************************************************************)

\* _clear_tenant_context_on_checkout: in the transaction that begins with it.
Checkout(k, r) == [pool[k] EXCEPT !.session = Cleared, !.holder = r]

\* _apply_tenant_context: before each statement, for its transaction.
Apply(k, c) == [pool[k] EXCEPT !.local = {c}]

\* Given back to the pool: after a commit the session keeps its settings, after a
\* rollback it has those of before; the transaction's are gone.
Commit(k) == [pool[k] EXCEPT !.before = pool[k].session, !.local = {}, !.holder = None]
Rollback(k) == [pool[k] EXCEPT !.session = pool[k].before, !.local = {}, !.holder = None]

-----------------------------------------------------------------------------
(***************************************************************************)
(* Requests.                                                               *)
(***************************************************************************)

\* tenant_database_context_middleware: a session token names its tenant; a public path
\* and a request without credentials have none; an API key is looked up.
Enter(r) ==
    \/ \E t \in Tenants :
          request' = [request EXCEPT ![r] = [pc |-> "handler", tenant |-> t, required |-> TRUE,
                                             context |-> [tenant |-> t, lookup |-> FALSE]]]
    \/ request' = [request EXCEPT ![r].pc = "handler"]
    \/ \E t \in Tenants :
          request' = [request EXCEPT ![r] = [pc |-> "key", tenant |-> t, required |-> FALSE,
                                             context |-> [tenant |-> None, lookup |-> TRUE]]]
EnterRequest(r) == At(r, "new") /\ Enter(r) /\ UNCHANGED <<role, pool>>

\* A thread takes a connection.
Connect(r, k) ==
    /\ request[r].pc \in {"key", "handler"} /\ Held(r) = {} /\ pool[k].holder = None
    /\ pool' = [pool EXCEPT ![k] = Checkout(k, r)]
    /\ UNCHANGED <<role, request>>

\* The contexts handlers open around a connection: auth_lookup_context, tenant_context
\* for the tenant of the request or one that was looked up, and, in the threads of an
\* executor such as approval_node's, the empty one. None is changed while a connection is held.
Nest(r) ==
    /\ At(r, "handler") /\ Held(r) = {}
    /\ \/ request' = [request EXCEPT ![r].context.lookup = TRUE]
       \/ \E t \in Tenants :
             /\ request[r].tenant \in {t, None}
             /\ request' = [request EXCEPT ![r].context = [@ EXCEPT !.tenant = t],
                                           ![r].required = TRUE]
       \/ request' = [request EXCEPT ![r].context = Cleared, ![r].required = FALSE]
       \/ request' = [request EXCEPT ![r].context = Cleared, ![r].required = TRUE]
    /\ UNCHANGED <<role, pool>>

\* Where the context must name a tenant and does not, a statement is not executed.
Refused(r) == request[r].required /\ request[r].context.tenant = None

\* Any other puts the context into its transaction, in which it reaches the Visible rows. An
\* INSERT or UPDATE that leaves a row which is not Admitted fails.
Execute(r, k) ==
    /\ At(r, "handler") /\ k \in Held(r) /\ ~Refused(r)
    /\ pool' = [pool EXCEPT ![k] = Apply(k, request[r].context)]
    /\ UNCHANGED <<role, request>>
NotAdmitted(r, k) ==
    /\ At(r, "handler") /\ k \in Held(r) /\ ~Refused(r)
    /\ \E class \in Classes, row \in Tenant : ~Admitted(class, row, request[r].context)
    /\ pool' = [pool EXCEPT ![k] = Rollback(k)]
    /\ request' = [request EXCEPT ![r].pc = "failed"]
    /\ UNCHANGED role
Refuse(r, k) ==
    /\ At(r, "handler") /\ k \in Held(r) /\ Refused(r)
    /\ pool' = [pool EXCEPT ![k] = Rollback(k)]
    /\ request' = [request EXCEPT ![r].pc = "failed"]
    /\ UNCHANGED role

\* resolve_tenant: the SELECT that finds the key, and the UPDATE of its last_used_at, whose
\* new row is checked; what it raises ends the request.
ResolveKey(r, k) ==
    /\ At(r, "key") /\ k \in Held(r)
    /\ IF Admitted("lookup", request[r].tenant, request[r].context)
       THEN /\ pool' = [pool EXCEPT ![k] = Commit(k)]
            /\ request' = [request EXCEPT ![r].pc = "handler", ![r].required = TRUE,
                              ![r].context = [tenant |-> request[r].tenant, lookup |-> FALSE]]
       ELSE /\ pool' = [pool EXCEPT ![k] = Rollback(k)]
            /\ request' = [request EXCEPT ![r].pc = "rejected"]
    /\ UNCHANGED role

\* The connection is given back, and the request goes on or ends.
GiveBack(r, k) ==
    /\ At(r, "handler") /\ k \in Held(r)
    /\ \E after \in {Commit(k), Rollback(k)} : pool' = [pool EXCEPT ![k] = after]
    /\ \E pc \in {"handler", "done"} : request' = [request EXCEPT ![r].pc = pc]
    /\ UNCHANGED role

Next == \E r \in Requests :
            \/ EnterRequest(r) \/ Nest(r)
            \/ \E k \in Connections : \/ Connect(r, k) \/ Execute(r, k) \/ NotAdmitted(r, k) \/ Refuse(r, k)
                                      \/ ResolveKey(r, k) \/ GiveBack(r, k)

Spec == Init /\ [][Next]_vars

-----------------------------------------------------------------------------
Connection == [session : Settings, before : Settings, local : SUBSET Settings,
               holder : Requests \union {None}]
Request == [pc : {"new", "key", "handler", "rejected", "failed", "done"},
            tenant : Tenant, context : Settings, required : BOOLEAN]
TypeOK == /\ role \in {"owner", "superuser"}
          /\ pool \in [Connections -> Connection]
          /\ request \in [Requests -> Request]

(***************************************************************************)
(* Where security is forced, the statements of a thread reach, and leave   *)
(* behind, rows of the tenant of its context, of none in the tables that   *)
(* have such, and, for an authentication lookup, of any in the tables that *)
(* allow it: whatever the connection it was given carried before, was it   *)
(* committed or rolled back (database/__init__.py 24-57; migrations.py     *)
(* 1097-1441).                                                             *)
(***************************************************************************)
TenantsAreApart ==
    \A r \in Requests, class \in Classes \ {"system"}, row \in Tenant :
        \A k \in Held(r) :
            /\ role = "owner" /\ pool[k].local # {}
            /\ Visible(class, row, InEffect(k)) \/ Admitted(class, row, InEffect(k))
            => \/ row = request[r].context.tenant /\ row # None
               \/ row = None /\ class \in {"shared", "lookup", "session"}
               \/ request[r].context.lookup /\ class \in {"lookup", "session"}

(***************************************************************************)
(* A request with a good API key gets to its handler: gateway_phase1.md    *)
(* says that X-API-Key stays good for authentication.                      *)
(***************************************************************************)
KeysAuthenticate == \A r \in Requests : ~At(r, "rejected")
=============================================================================
