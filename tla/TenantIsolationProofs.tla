------------------------ MODULE TenantIsolationProofs ------------------------
(***************************************************************************)
(* Theorems about TenantIsolation, for every set of requests, connections  *)
(* and tenants.                                                            *)
(***************************************************************************)
EXTENDS TenantIsolation, TLAPS

\* A thread holds one connection at a time, and none before it has started.
Alone == /\ \A j, k \in Connections : pool[j].holder = pool[k].holder /\ pool[j].holder # None => j = k
         /\ \A k \in Connections, r \in Requests : At(r, "new") => pool[k].holder # r

\* A transaction's settings are the context of the thread that holds the connection.
Carried == \A k \in Connections : pool[k].local # {} =>
               /\ pool[k].holder \in Requests
               /\ pool[k].local = {request[pool[k].holder].context}

IInv == TypeOK /\ Alone /\ Carried

-----------------------------------------------------------------------------
\* Connections are new and no request has begun.
LEMMA InitIInv == ASSUME NoneAssumption, Init PROVE IInv
<1>1. Cleared \in Settings /\ Fresh \in Connection /\ Outside \in Request
  BY DEF Cleared, Settings, Tenant, Fresh, Connection, Outside, Request
<1>2. TypeOK
  BY <1>1 DEF Init, TypeOK
<1>3. \A k \in Connections : pool[k].local = {} /\ pool[k].holder = None
  BY DEF Init, Fresh
<1>4. Alone /\ Carried
  BY <1>3, NoneAssumption DEF NoneAssumption, Alone, Carried
<1> QED BY <1>2, <1>4 DEF IInv

\* What becomes of one connection: it is taken, used, given back.
LEMMA ConnectionTypes ==
    ASSUME TypeOK, NEW k \in Connections, NEW r \in Requests
    PROVE  /\ Checkout(k, r) \in Connection
           /\ Apply(k, request[r].context) \in Connection
           /\ Commit(k) \in Connection /\ Rollback(k) \in Connection
<1>1. pool[k] \in Connection /\ request[r].context \in Settings /\ Cleared \in Settings
  BY DEF TypeOK, Request, Cleared, Settings, Tenant
<1> QED BY <1>1 DEF Checkout, Apply, Commit, Rollback, Connection

\* A thread without a connection may change its place and its context: no transaction carries
\* the context that is left.
LEMMA FreeKeepsIInv ==
    ASSUME NoneAssumption, IInv, NEW r \in Requests, Held(r) = {}, NEW q \in Request, q.pc # "new",
           request' = [request EXCEPT ![r] = q], UNCHANGED <<role, pool>>
    PROVE  IInv'
<1>1. TypeOK'
  BY DEF IInv, TypeOK
<1>2. Alone'
  BY DEF IInv, TypeOK, Alone, At
<1>3. Carried'
  BY DEF IInv, TypeOK, Carried, Held
<1> QED BY <1>1, <1>2, <1>3 DEF IInv

\* A connection that is given back carries no transaction any more; its thread held no other.
LEMMA ReturnKeepsIInv ==
    ASSUME NoneAssumption, IInv, NEW r \in Requests, NEW k \in Held(r), NEW q \in Request, q.pc # "new",
           NEW c \in {Commit(k), Rollback(k)},
           pool' = [pool EXCEPT ![k] = c], request' = [request EXCEPT ![r] = q], UNCHANGED role
    PROVE  IInv'
<1>1. k \in Connections /\ pool[k].holder = r
  BY DEF Held
<1>2. c \in Connection /\ c.local = {} /\ c.holder = None
  BY <1>1, ConnectionTypes DEF IInv, TypeOK, Connection, Commit, Rollback
<1>3. TypeOK'
  BY <1>1, <1>2 DEF IInv, TypeOK
<1>4. r # None
  BY DEF NoneAssumption
<1>5. \A j \in Connections : j # k => pool'[j] = pool[j] /\ pool[j].holder # r
  BY <1>1, <1>4 DEF IInv, TypeOK, Alone
<1>6. pool'[k] = c
  BY <1>1 DEF IInv, TypeOK
<1>7. \A p \in Requests : p # r => request'[p] = request[p]
  BY DEF IInv, TypeOK
<1>8. request'[r] = q
  BY DEF IInv, TypeOK
<1>9. Alone'
  BY <1>2, <1>5, <1>6, <1>7, <1>8, NoneAssumption DEF IInv, Alone, At, NoneAssumption
<1>10. Carried'
  BY <1>2, <1>5, <1>6, <1>7 DEF IInv, Carried
<1> QED BY <1>3, <1>9, <1>10 DEF IInv

-----------------------------------------------------------------------------
\* Every step keeps a thread's connection its own and its settings the thread's.
LEMMA StepKeepsIInv == ASSUME NoneAssumption, IInv, [Next]_vars PROVE IInv'
<1>1. CASE UNCHANGED vars
  BY <1>1 DEF vars, IInv, TypeOK, Alone, Carried, At
<1>2. ASSUME NEW r \in Requests, EnterRequest(r) PROVE IInv'
  <2>1. Held(r) = {}
    BY <1>2 DEF EnterRequest, IInv, Alone, Held
  <2>2. request[r] \in Request
    BY DEF IInv, TypeOK
  <2>3. PICK q \in Request : q.pc # "new" /\ request' = [request EXCEPT ![r] = q]
    <3>1. CASE \E t \in Tenants :
                  request' = [request EXCEPT ![r] = [pc |-> "handler", tenant |-> t, required |-> TRUE,
                                                     context |-> [tenant |-> t, lookup |-> FALSE]]]
      BY <3>1 DEF Request, Settings, Tenant
    <3>2. CASE request' = [request EXCEPT ![r].pc = "handler"]
      <4>1. [request[r] EXCEPT !.pc = "handler"] \in Request
        BY <2>2 DEF Request
      <4>2. [request[r] EXCEPT !.pc = "handler"].pc # "new"
        BY <2>2 DEF Request
      <4> QED BY <3>2, <4>1, <4>2
    <3>3. CASE \E t \in Tenants :
                  request' = [request EXCEPT ![r] = [pc |-> "key", tenant |-> t, required |-> FALSE,
                                                     context |-> [tenant |-> None, lookup |-> TRUE]]]
      BY <3>3 DEF Request, Settings, Tenant
    <3> QED BY <1>2, <3>1, <3>2, <3>3 DEF EnterRequest, Enter
  <2> QED BY <1>2, <2>1, <2>3, FreeKeepsIInv DEF EnterRequest
<1>3. ASSUME NEW r \in Requests, Nest(r) PROVE IInv'
  <2>1. request[r] \in Request /\ request[r].context \in Settings /\ request[r].pc = "handler"
    BY <1>3 DEF IInv, TypeOK, Request, Nest, At
  <2>2. PICK q \in Request : q.pc # "new" /\ request' = [request EXCEPT ![r] = q]
    <3> DEFINE Sets(c, b) == [request[r] EXCEPT !.context = c, !.required = b]
    <3>1. \A c \in Settings, b \in BOOLEAN : Sets(c, b) \in Request /\ Sets(c, b).pc # "new"
      BY <2>1 DEF Request
    <3>2. PICK c \in Settings, b \in BOOLEAN : request' = [request EXCEPT ![r] = Sets(c, b)]
      <4>1. CASE request' = [request EXCEPT ![r].context.lookup = TRUE]
        <5>1. [request[r].context EXCEPT !.lookup = TRUE] \in Settings /\ request[r].required \in BOOLEAN
          BY <2>1 DEF Settings, Request
        <5>2. request' = [request EXCEPT ![r] =
                             Sets([request[r].context EXCEPT !.lookup = TRUE], request[r].required)]
          BY <4>1, <2>1 DEF IInv, TypeOK, Request
        <5> QED BY <5>1, <5>2
      <4>2. ASSUME NEW t \in Tenants,
                   request' = [request EXCEPT ![r].context = [@ EXCEPT !.tenant = t],
                                              ![r].required = TRUE]
            PROVE  \E c \in Settings, b \in BOOLEAN : request' = [request EXCEPT ![r] = Sets(c, b)]
        <5>1. [request[r].context EXCEPT !.tenant = t] \in Settings
          BY <2>1 DEF Settings, Tenant
        <5>2. request' = [request EXCEPT ![r] = Sets([request[r].context EXCEPT !.tenant = t], TRUE)]
          BY <4>2, <2>1 DEF IInv, TypeOK, Request
        <5> QED BY <5>1, <5>2
      <4>3. ASSUME NEW b \in BOOLEAN,
                   request' = [request EXCEPT ![r].context = Cleared, ![r].required = b]
            PROVE  request' = [request EXCEPT ![r] = Sets(Cleared, b)]
        BY <4>3, <2>1 DEF IInv, TypeOK, Request
      <4>4. Cleared \in Settings
        BY DEF Cleared, Settings, Tenant
      <4> QED BY <1>3, <4>1, <4>2, <4>3, <4>4 DEF Nest
    <3> QED BY <3>1, <3>2
  <2> QED BY <1>3, <2>2, FreeKeepsIInv DEF Nest
<1>4. ASSUME NEW r \in Requests, NEW k \in Connections, Connect(r, k) PROVE IInv'
  <2>1. pool' = [pool EXCEPT ![k] = Checkout(k, r)] /\ UNCHANGED <<role, request>>
    BY <1>4 DEF Connect
  <2>2. /\ Checkout(k, r) \in Connection
        /\ Checkout(k, r).holder = r /\ Checkout(k, r).local = pool[k].local
    BY ConnectionTypes DEF IInv, TypeOK, Connection, Checkout
  <2>3. pool'[k] = Checkout(k, r) /\ \A j \in Connections : j # k => pool'[j] = pool[j]
    BY <2>1 DEF IInv, TypeOK
  <2>4. pool[k].local = {} /\ ~At(r, "new") /\ \A j \in Connections : pool[j].holder # r
    BY <1>4, NoneAssumption DEF Connect, NoneAssumption, At, Held, IInv, Carried
  <2>5. TypeOK'
    BY <2>1, <2>2 DEF IInv, TypeOK
  <2>6. Alone'
    BY <2>1, <2>2, <2>3, <2>4 DEF IInv, Alone, At
  <2>7. Carried'
    BY <2>1, <2>2, <2>3, <2>4 DEF IInv, Carried
  <2> QED BY <2>5, <2>6, <2>7 DEF IInv
<1>5. ASSUME NEW r \in Requests, NEW k \in Connections, Execute(r, k) PROVE IInv'
  <2>1. /\ pool[k].holder = r
        /\ pool' = [pool EXCEPT ![k] = Apply(k, request[r].context)] /\ UNCHANGED <<role, request>>
    BY <1>5 DEF Execute, Held
  <2>2. /\ Apply(k, request[r].context) \in Connection
        /\ Apply(k, request[r].context).holder = r
        /\ Apply(k, request[r].context).local = {request[r].context}
    BY <2>1, ConnectionTypes DEF IInv, TypeOK, Connection, Apply
  <2>3. /\ pool'[k] = Apply(k, request[r].context)
        /\ \A j \in Connections : j # k => pool'[j] = pool[j]
    BY <2>1 DEF IInv, TypeOK
  <2>4. TypeOK'
    BY <2>1, <2>2 DEF IInv, TypeOK
  <2>5. \A j \in Connections : pool'[j].holder = pool[j].holder
    BY <2>1, <2>2, <2>3
  <2>6. Alone'
    BY <2>1, <2>5 DEF IInv, Alone, At
  <2>7. Carried'
    BY <2>1, <2>2, <2>3 DEF IInv, Carried
  <2> QED BY <2>4, <2>6, <2>7 DEF IInv
<1>6. ASSUME NEW r \in Requests, NEW k \in Connections, NotAdmitted(r, k) \/ Refuse(r, k) PROVE IInv'
  <2> DEFINE q == [request[r] EXCEPT !.pc = "failed"]
  <2>1. q \in Request /\ q.pc = "failed"
    BY DEF IInv, TypeOK, Request
  <2>2. /\ k \in Held(r) /\ UNCHANGED role
        /\ pool' = [pool EXCEPT ![k] = Rollback(k)] /\ request' = [request EXCEPT ![r] = q]
    BY <1>6 DEF NotAdmitted, Refuse
  <2> QED BY <2>1, <2>2, ReturnKeepsIInv
<1>7. ASSUME NEW r \in Requests, NEW k \in Connections, ResolveKey(r, k) PROVE IInv'
  <2>1. request[r] \in Request /\ request[r].tenant \in Tenant
    BY DEF IInv, TypeOK, Request
  <2>2. PICK q \in Request, c \in {Commit(k), Rollback(k)} :
            q.pc # "new" /\ pool' = [pool EXCEPT ![k] = c] /\ request' = [request EXCEPT ![r] = q]
    <3>1. CASE Admitted("lookup", request[r].tenant, request[r].context)
      <4> DEFINE q == [request[r] EXCEPT !.pc = "handler", !.required = TRUE,
                           !.context = [tenant |-> request[r].tenant, lookup |-> FALSE]]
      <4>1. q \in Request /\ q.pc = "handler"
        BY <2>1 DEF Request, Settings
      <4>2. pool' = [pool EXCEPT ![k] = Commit(k)] /\ request' = [request EXCEPT ![r] = q]
        BY <1>7, <3>1, <2>1 DEF ResolveKey, IInv, TypeOK, Request
      <4> QED BY <4>1, <4>2
    <3>2. CASE ~Admitted("lookup", request[r].tenant, request[r].context)
      <4> DEFINE q == [request[r] EXCEPT !.pc = "rejected"]
      <4>1. q \in Request /\ q.pc = "rejected"
        BY <2>1 DEF Request
      <4>2. pool' = [pool EXCEPT ![k] = Rollback(k)] /\ request' = [request EXCEPT ![r] = q]
        BY <1>7, <3>2 DEF ResolveKey
      <4> QED BY <4>1, <4>2
    <3> QED BY <3>1, <3>2
  <2>3. k \in Held(r) /\ UNCHANGED role
    BY <1>7 DEF ResolveKey
  <2> QED BY <2>2, <2>3, ReturnKeepsIInv
<1>8. ASSUME NEW r \in Requests, NEW k \in Connections, GiveBack(r, k) PROVE IInv'
  <2>1. /\ k \in Held(r) /\ UNCHANGED role
        /\ \E c \in {Commit(k), Rollback(k)} : pool' = [pool EXCEPT ![k] = c]
    BY <1>8 DEF GiveBack
  <2>2. PICK q \in Request : q.pc # "new" /\ request' = [request EXCEPT ![r] = q]
    <3>1. PICK pc \in {"handler", "done"} : request' = [request EXCEPT ![r].pc = pc]
      BY <1>8 DEF GiveBack
    <3> DEFINE q == [request[r] EXCEPT !.pc = pc]
    <3>2. q \in Request /\ q.pc = pc
      BY DEF IInv, TypeOK, Request
    <3>3. request' = [request EXCEPT ![r] = q]
      BY <3>1
    <3> QED BY <3>2, <3>3
  <2> QED BY <2>1, <2>2, ReturnKeepsIInv
<1> QED BY <1>1, <1>2, <1>3, <1>4, <1>5, <1>6, <1>7, <1>8 DEF Next

\* The settings in effect are those the statement's transaction was given.
LEMMA ApartFromIInv == ASSUME NoneAssumption, IInv PROVE TenantsAreApart
<1> SUFFICES ASSUME NEW r \in Requests, NEW class \in Classes \ {"system"}, NEW row \in Tenant,
                    NEW k \in Held(r), role = "owner", pool[k].local # {},
                    Visible(class, row, InEffect(k)) \/ Admitted(class, row, InEffect(k))
             PROVE  \/ row = request[r].context.tenant /\ row # None
                    \/ row = None /\ class \in {"shared", "lookup", "session"}
                    \/ request[r].context.lookup /\ class \in {"lookup", "session"}
  BY DEF TenantsAreApart
<1>1. pool[k].local = {request[r].context}
  BY DEF Held, IInv, Carried
<1>2. InEffect(k) = request[r].context
  BY <1>1 DEF InEffect
<1> QED BY <1>2 DEF Visible, Admitted

-----------------------------------------------------------------------------
\* Threads hold a connection each at most, and a transaction carries its thread's context,
\* whatever requests are served at once (database/__init__.py 24-57).
THEOREM SettingsAreCarried == ASSUME NoneAssumption PROVE Spec => []IInv
<1> QED BY NoneAssumption, InitIInv, StepKeepsIInv, PTL DEF Spec

\* Where security is forced, no statement reaches rows of another tenant than its thread's,
\* for any number of requests, connections and tenants (migrations.py 1097-1441).
THEOREM TenantsAreApartHolds == ASSUME NoneAssumption PROVE Spec => []TenantsAreApart
<1> QED BY NoneAssumption, SettingsAreCarried, ApartFromIInv, PTL
=============================================================================
