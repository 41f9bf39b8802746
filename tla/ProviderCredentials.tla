------------------------ MODULE ProviderCredentials ------------------------
(***************************************************************************)
(* A tenant's provider credentials (main.py, /providers) and the choice of *)
(* a provider for a request (services/provider_router.py). A credential is *)
(* in two stores: its secret in the secret backend, which keeps the last   *)
(* version under a name of the tenant and the provider                     *)
(* (services/secret_manager.py), and a row in tenant_credentials.          *)
(*                                                                         *)
(* A call is a thread; what it does between two accesses to a store is one *)
(* step. A version of a secret is named after the call that put it. The    *)
(* local backend keeps secrets in the process, so a restart loses them.    *)
(* The route, the environment and the process's configuration are inputs.  *)
(* Audit blocks and the encryption of the row's payload, which holds only  *)
(* the secret's name, are left out.                                        *)
(***************************************************************************)
EXTENDS FiniteSets

CONSTANTS Calls, Providers, None

VARIABLES
    backend, \* the secret backend
    store,   \* the secret backend: the version of each provider's secret, or None
    rows,    \* tenant_credentials: at most one row for a provider
    call,    \* where each call is
    before   \* history: <<c, d>>: c had ended when d began

vars == <<backend, store, rows, call, before>>

Row == [provider : Providers, version : Calls, revoked : BOOLEAN,
        health : {"good", "unhealthy", "revoked"}]
Idle == [op |-> "none", pc |-> "new", provider |-> None, version |-> None,
         seen |-> {}, source |-> "none", good |-> FALSE]

Init == /\ backend \in {"local", "aws", "vault"}
        /\ store = [p \in Providers |-> None]
        /\ rows = {} /\ before = {}
        /\ call = [c \in Calls |-> Idle]

At(c, pc) == call[c].pc = pc
Provider(c) == call[c].provider
Ended == {"new", "done", "failed", "dead"}
Running == {c \in Calls : call[c].pc \notin Ended}
Begin(c, op, p, pc, seen) ==
    /\ At(c, "new")
    /\ call' = [call EXCEPT ![c] = [Idle EXCEPT !.op = op, !.pc = pc, !.provider = p, !.seen = seen]]
    /\ before' = before \union {<<d, c>> : d \in {x \in Calls : call[x].pc \in Ended \ {"new"}}}
Goto(c, pc) == call' = [call EXCEPT ![c].pc = pc]

RowsOf(p) == {r \in rows : r.provider = p}
Live == {r \in rows : ~r.revoked}

-----------------------------------------------------------------------------
(***************************************************************************)
(* Connecting, rotating, testing and disconnecting.                        *)
(***************************************************************************)

\* connect_provider_credentials, rotate_provider_credentials: the connection is tested
\* first; one that fails changes nothing.
Connect(c, p) ==
    /\ Begin(c, "connect", p, "put", {})
    /\ UNCHANGED <<backend, store, rows>>
\* SecretManager.store_provider_payload: put_secret, which may fail, and the encryption
\* of the row's payload, which may fail after it.
Put(c) ==
    /\ At(c, "put")
    /\ \/ /\ store' = [store EXCEPT ![Provider(c)] = c]
          /\ Goto(c, "upsert") \/ Goto(c, "failed")
       \/ UNCHANGED store /\ Goto(c, "done")
    /\ UNCHANGED <<backend, rows, before>>
Upsert(c) ==
    /\ At(c, "upsert")
    /\ rows' = {r \in rows : r.provider # Provider(c)} \union
                  {[provider |-> Provider(c), version |-> c, revoked |-> FALSE,
                    health |-> "good"]}
    /\ Goto(c, "done")
    /\ UNCHANGED <<backend, store, before>>

\* disconnect_provider_credentials reads the row, revoked or not ...
Disconnect(c, p) ==
    /\ Begin(c, "disconnect", p,
             IF RowsOf(p) # {} /\ backend = "aws" THEN "delete" ELSE "revoke", RowsOf(p))
    /\ UNCHANGED <<backend, store, rows>>
\* ... deletes the secret of a row kept in AWS, if that can be done ...
DeleteSecret(c) ==
    /\ At(c, "delete")
    /\ store' = [store EXCEPT ![Provider(c)] = None] \/ UNCHANGED store
    /\ Goto(c, "revoke")
    /\ UNCHANGED <<backend, rows, before>>
\* ... and revokes the row there is by then.
RevokeRow(c) ==
    /\ At(c, "revoke")
    /\ rows' = {IF r.provider = Provider(c)
                THEN [r EXCEPT !.revoked = TRUE, !.health = "revoked"] ELSE r : r \in rows}
    /\ Goto(c, "done")
    /\ UNCHANGED <<backend, store, before>>

\* test_stored_provider_credentials reads a live row ...
TestStored(c, p) ==
    /\ Live \intersect RowsOf(p) # {}
    /\ Begin(c, "test", p, "try", RowsOf(p))
    /\ UNCHANGED <<backend, store, rows>>
\* ... tries the secret its name leads to ...
Try(c) ==
    /\ At(c, "try")
    /\ \E good \in BOOLEAN :
          /\ good => store[Provider(c)] # None
          /\ call' = [call EXCEPT ![c].pc = "record", ![c].good = good]
    /\ UNCHANGED <<backend, store, rows, before>>
\* ... and writes what came of it to the row there is by then, revoked or not.
Record(c) ==
    /\ At(c, "record")
    /\ rows' = {IF r.provider = Provider(c)
                THEN [r EXCEPT !.health = IF call[c].good THEN "good" ELSE "unhealthy"]
                ELSE r : r \in rows}
    /\ Goto(c, "done")
    /\ UNCHANGED <<backend, store, before>>

-----------------------------------------------------------------------------
(***************************************************************************)
(* ProviderRouter.select, for a request.                                   *)
(***************************************************************************)

Selected(c, source, p, version) ==
    call' = [call EXCEPT ![c].pc = "done", ![c].source = source, ![c].provider = p,
                         ![c].version = version]

\* A mutant: a revoked row is as good as any.
SelectAny(c) ==
    /\ \E route \in Providers \union {None} :
          Begin(c, "select", route, "resolve", {r \in rows : route \in {None, r.provider}})
    /\ UNCHANGED <<backend, store, rows>>
\* _lookup_route, and _lookup_credential for the route's provider, or for any.
Select(c) ==
    /\ \E route \in Providers \union {None} :
          Begin(c, "select", route, "resolve", {r \in Live : route \in {None, r.provider}})
    /\ UNCHANGED <<backend, store, rows>>
\* The live row's secret, in whatever version it is by now; a row whose secret is gone is
\* passed over. Of several rows the one updated last comes first, which is left open here.
Resolve(c) ==
    /\ At(c, "resolve")
    /\ LET found == {r \in call[c].seen : store[r.provider] # None}
       IN \/ \E r \in found : Selected(c, "tenant", r.provider, store[r.provider])
          \/ found = {} /\ Goto(c, IF Provider(c) = None THEN "environment" ELSE "any")
    /\ UNCHANGED <<backend, store, rows, before>>
\* No credential for the route: _lookup_credential again, for any provider.
ResolveAny(c) ==
    /\ At(c, "any")
    /\ call' = [call EXCEPT ![c].pc = "resolve", ![c].provider = None, ![c].seen = Live]
    /\ UNCHANGED <<backend, store, rows, before>>
\* _lookup_environment_credential, with any provider or none; else the local provider,
\* or the one of the process's configuration.
UseEnvironment(c) ==
    /\ At(c, "environment")
    /\ \/ \E p \in Providers : Selected(c, "environment", p, None)
       \/ \E source \in {"local", "legacy"} : Selected(c, source, None, None)
    /\ UNCHANGED <<backend, store, rows, before>>

\* The process is killed or restarted: its calls end, and the local backend is empty.
Restart ==
    /\ call' = [c \in Calls |-> IF c \in Running THEN [call[c] EXCEPT !.pc = "dead"] ELSE call[c]]
    /\ store' = IF backend = "local" THEN [p \in Providers |-> None] ELSE store
    /\ UNCHANGED <<backend, rows, before>>

Next == \/ \E c \in Calls : \/ \E p \in Providers : Connect(c, p) \/ Disconnect(c, p) \/ TestStored(c, p)
                            \/ Put(c) \/ Upsert(c) \/ DeleteSecret(c) \/ RevokeRow(c)
                            \/ Try(c) \/ Record(c)
                            \/ Select(c) \/ Resolve(c) \/ ResolveAny(c) \/ UseEnvironment(c)
        \/ Restart

Spec == Init /\ [][Next]_vars

-----------------------------------------------------------------------------
TypeOK == /\ store \in [Providers -> Calls \union {None}]
          /\ rows \subseteq Row
          /\ \A r, s \in rows : r.provider = s.provider => r = s

Beside(c, d) == <<c, d>> \notin before /\ <<d, c>> \notin before

(***************************************************************************)
(* A disconnected credential serves no later request: a secret connected   *)
(* before a disconnect is not used after it, unless another connect ran    *)
(* beside the disconnect (main.py 7088-7134, 7290-7311;                    *)
(* provider_router.py 124-158).                                            *)
(***************************************************************************)
DisconnectedIsUnused ==
    \A c, d \in Calls :
        (/\ call[c].op = "select" /\ call[c].source = "tenant"
         /\ call[d].op = "disconnect" /\ At(d, "done")
         /\ Provider(d) = Provider(c) /\ <<d, c>> \in before /\ <<call[c].version, d>> \in before)
        => \E x \in Calls : call[x].op = "connect" /\ Provider(x) = Provider(d) /\ Beside(x, d)
=============================================================================
