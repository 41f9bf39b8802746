----------------------------- MODULE Onboarding -----------------------------
(***************************************************************************)
(* How an organization becomes a tenant (main.py, /auth/register,          *)
(* /auth/verify-email, /auth/verify-domain): a registration is stored, its *)
(* e-mail address and its domain are verified, and it is activated: the    *)
(* tenant, its first user and its default policies are made.               *)
(*                                                                         *)
(* A call is a thread; a row is named after the call that made it. A call  *)
(* that sends mail or asks the DNS does so between reading and writing.    *)
(* What follows the UPDATE of a registration's row up to the commit is one *)
(* step: the row's lock keeps every other call on it out. Requests that    *)
(* are refused for their shape are left out.                               *)
(***************************************************************************)
EXTENDS Integers, FiniteSets

CONSTANTS Calls, Emails, Domains, Legacy, None

VARIABLES
    skipDomain,    \* SKIP_DOMAIN_VERIFICATION, outside production
    registrations, \* onboarding_registrations
    tenants,       \* tenants
    members,       \* tenant_users: e-mail addresses, which are unique, and their tenants
    policies,      \* the tenants that have their default policies
    call,          \* where each call is
    beside         \* history: the pairs of calls that ran at the same time

vars == <<skipDomain, registrations, tenants, members, policies, call, beside>>

\* database/migrations.py.
TenantId == Calls \union {Legacy}
RegistrationRow == [id : Calls, email : Emails, domain : Domains, emailVerified : BOOLEAN,
                    domainVerified : BOOLEAN, tenant : Calls \union {None}]
TenantRow == [id : TenantId, email : Emails, domain : Domains, by : Calls \union {None}]
MemberRow == [email : Emails, tenant : TenantId]

NoneAssumption == None \notin TenantId

Idle == [pc |-> "new", email |-> None, domain |-> None, row |-> None]

\* A tenant from before there were registrations has its password in its own row; users
\* may have come to it by its identity provider.
Init == /\ skipDomain \in BOOLEAN
        /\ registrations = {} /\ policies = {}
        /\ tenants \in {{}} \union {{[id |-> Legacy, email |-> e, domain |-> d, by |-> None]} :
                                       e \in Emails, d \in Domains}
        /\ members \in SUBSET [email : Emails, tenant : {t.id : t \in tenants}]
        /\ call = [c \in Calls |-> Idle]
        /\ beside = {}

At(c, pc) == call[c].pc = pc
Running == {c \in Calls : call[c].pc \notin {"new", "done"}}
Begin(c, record) ==
    /\ At(c, "new")
    /\ call' = [call EXCEPT ![c] = record]
    /\ beside' = beside \union {{c, d} : d \in Running}
Finish(c) == call' = [call EXCEPT ![c].pc = "done"]

-----------------------------------------------------------------------------
\* What auth_register looks for in tenants and registrations.
Taken(e, d) ==
    \/ \E t \in tenants : t.email = e \/ (t.domain = d /\ ~skipDomain)
    \/ \E r \in registrations : r.email = e \/ (r.domain = d /\ ~skipDomain)

\* auth_register looks ...
Register(c, e, d) ==
    /\ ~Taken(e, d)
    /\ Begin(c, [Idle EXCEPT !.pc = "mail", !.email = e, !.domain = d])
    /\ UNCHANGED <<skipDomain, registrations, tenants, members, policies>>
\* ... sends the mail, which may fail, and stores the row; the address is unique in it.
StoreRegistration(c) ==
    /\ At(c, "mail")
    /\ \/ UNCHANGED registrations
       \/ /\ ~\E r \in registrations : r.email = call[c].email
          /\ registrations' = registrations \union
                {[id |-> c, email |-> call[c].email, domain |-> call[c].domain,
                  emailVerified |-> FALSE, domainVerified |-> FALSE, tenant |-> None]}
    /\ Finish(c)
    /\ UNCHANGED <<skipDomain, tenants, members, policies, beside>>

\* ensure_default_tenant_policies.
EnsureDefaultPolicies(t) == policies' = policies \union {t}

\* A mutant: what came before the first user's INSERT stays when that fails.
ActivatePartly(c, row, verified) ==
    IF row.tenant # None
    THEN /\ registrations' = (registrations \ {r \in registrations : r.id = row.id}) \union {verified}
         /\ UNCHANGED <<tenants, members, policies>>
    ELSE LET unique == ~\E m \in members : m.email = row.email
         IN /\ tenants' = tenants \union
                  {[id |-> c, email |-> row.email, domain |-> row.domain, by |-> row.id]}
            /\ members' = members \union {[email |-> row.email, tenant |-> c] : x \in {unique} \ {FALSE}}
            /\ registrations' = (registrations \ {r \in registrations : r.id = row.id})
                                   \union {[verified EXCEPT !.tenant = c]}
            /\ EnsureDefaultPolicies(c)
(***************************************************************************)
(* activate_verified_registration: nothing for a registration that has its *)
(* tenant; else all of it, or, when the first user's address is another    *)
(* tenant's, nothing of the transaction.                                   *)
(***************************************************************************)
Activate(c, row, verified) ==
    IF row.tenant # None
    THEN /\ registrations' = (registrations \ {r \in registrations : r.id = row.id}) \union {verified}
         /\ UNCHANGED <<tenants, members, policies>>
    ELSE IF \E m \in members : m.email = row.email
    THEN UNCHANGED <<registrations, tenants, members, policies>>
    ELSE /\ tenants' = tenants \union
               {[id |-> c, email |-> row.email, domain |-> row.domain, by |-> row.id]}
         /\ members' = members \union {[email |-> row.email, tenant |-> c]}
         /\ registrations' = (registrations \ {r \in registrations : r.id = row.id})
                                \union {[verified EXCEPT !.tenant = c]}
         /\ EnsureDefaultPolicies(c)

\* auth_verify_email finds the row of a mailed token ...
VerifyEmail(c) ==
    \E r \in registrations :
        /\ Begin(c, [Idle EXCEPT !.pc = "email", !.row = r])
        /\ UNCHANGED <<skipDomain, registrations, tenants, members, policies>>
\* ... updates it and, where domains are not verified, reads it again and activates it.
MarkEmail(c) ==
    /\ At(c, "email")
    /\ \E r \in registrations :
          /\ r.id = call[c].row.id
          /\ IF skipDomain
             THEN Activate(c, r, [r EXCEPT !.emailVerified = TRUE, !.domainVerified = TRUE])
             ELSE /\ registrations' = (registrations \ {r}) \union {[r EXCEPT !.emailVerified = TRUE]}
                  /\ UNCHANGED <<tenants, members, policies>>
    /\ Finish(c)
    /\ UNCHANGED <<skipDomain, beside>>

\* auth_verify_domain finds a row of the domain, whose address must be verified ...
VerifyDomain(c) ==
    \E r \in registrations :
        /\ r.emailVerified
        /\ Begin(c, [Idle EXCEPT !.pc = "domain", !.row = r])
        /\ UNCHANGED <<skipDomain, registrations, tenants, members, policies>>
\* ... and, when the DNS has the row's token, updates it, reads it again and activates it.
MarkDomain(c) ==
    /\ At(c, "domain")
    /\ \E r \in registrations :
          /\ r.id = call[c].row.id
          /\ Activate(c, r, [r EXCEPT !.domainVerified = TRUE])
    /\ Finish(c)
    /\ UNCHANGED <<skipDomain, beside>>
NoRecord(c) ==
    /\ At(c, "domain")
    /\ Finish(c)
    /\ UNCHANGED <<skipDomain, registrations, tenants, members, policies, beside>>

\* run_startup_migrations: the tenants that hold a password become their own first users.
CopyTenants ==
    /\ Running = {}
    /\ members' = members \union
          {[email |-> t.email, tenant |-> t.id] :
              t \in {x \in tenants : x.by = None /\ ~\E m \in members : m.email = x.email}}
    /\ members' # members
    /\ UNCHANGED <<skipDomain, registrations, tenants, policies, call, beside>>

Next == \/ \E c \in Calls : \/ \E e \in Emails, d \in Domains : Register(c, e, d)
                            \/ StoreRegistration(c)
                            \/ VerifyEmail(c) \/ MarkEmail(c)
                            \/ VerifyDomain(c) \/ MarkDomain(c) \/ NoRecord(c)
        \/ CopyTenants

Spec == Init /\ [][Next]_vars

-----------------------------------------------------------------------------
CallRecord == [pc : {"new", "mail", "email", "domain", "done"}, email : Emails \union {None},
               domain : Domains \union {None}, row : RegistrationRow \union {None}]
TypeOK == /\ registrations \subseteq RegistrationRow
          /\ tenants \subseteq TenantRow
          /\ members \subseteq MemberRow
          /\ policies \subseteq TenantId
          /\ call \in [Calls -> CallRecord]

(***************************************************************************)
(* A registration becomes one whole tenant, whichever calls verify it at   *)
(* the same time: it is verified by mail and by the DNS and names the      *)
(* tenant, which has its first user and its policies (main.py 5873-5937,   *)
(* 6806-6815).                                                             *)
(***************************************************************************)
TenantIsWhole ==
    \A t \in tenants : t.by # None =>
        /\ t.id \in policies /\ [email |-> t.email, tenant |-> t.id] \in members
        /\ \E r \in registrations :
              r.id = t.by /\ r.emailVerified /\ r.domainVerified /\ r.tenant = t.id
=============================================================================
