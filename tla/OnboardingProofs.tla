--------------------------- MODULE OnboardingProofs ---------------------------
(***************************************************************************)
(* Theorems about Onboarding, for every set of calls, addresses and        *)
(* domains.                                                                *)
(***************************************************************************)
EXTENDS Onboarding, TLAPS

\* A registration has one row, and the call that stored it is over.
Stored == /\ \A r, s \in registrations : r.id = s.id => r = s
          /\ \A r \in registrations : At(r.id, "done")

\* What a call carries is what it was asked, and what it has read and is still so.
Seen == /\ \A c \in Calls : At(c, "mail") => call[c].email \in Emails /\ call[c].domain \in Domains
        /\ \A c \in Calls : At(c, "domain") =>
              \E r \in registrations : r.id = call[c].row.id /\ r.emailVerified

IInv == TypeOK /\ Stored /\ Seen /\ TenantIsWhole

-----------------------------------------------------------------------------
\* There are no registrations, and no tenant that came of one.
LEMMA InitIInv == Init => IInv
<1> SUFFICES ASSUME Init PROVE IInv
  OBVIOUS
<1>1. Idle \in CallRecord /\ Idle.pc = "new"
  BY DEF Idle, CallRecord
<1>2. tenants \subseteq TenantRow /\ \A t \in tenants : t.by = None /\ t.id \in TenantId
  BY DEF Init, TenantRow, TenantId
<1>3. members \subseteq MemberRow
  BY <1>2 DEF Init, MemberRow
<1>4. TypeOK
  BY <1>1, <1>2, <1>3 DEF Init, TypeOK
<1>5. Stored /\ Seen /\ TenantIsWhole
  BY <1>1, <1>2 DEF Init, Stored, Seen, TenantIsWhole, At
<1> QED BY <1>4, <1>5 DEF IInv

\* A call starts on a row it has found, if on any.
LEMMA BeginKeepsIInv ==
    ASSUME IInv, NEW c \in Calls, NEW q \in CallRecord, Begin(c, q), q.pc # "done",
           q.pc = "mail" => q.email \in Emails /\ q.domain \in Domains,
           q.pc = "domain" => q.row \in registrations /\ q.row.emailVerified,
           UNCHANGED <<registrations, tenants, members, policies>>
    PROVE  IInv'
<1>1. call' = [call EXCEPT ![c] = q] /\ At(c, "new")
  BY DEF Begin
<1>2. TypeOK'
  BY <1>1 DEF IInv, TypeOK
<1>3. Stored'
  BY <1>1 DEF IInv, TypeOK, Stored, At
<1>4. Seen'
  BY <1>1 DEF IInv, TypeOK, Seen, At
<1>5. TenantIsWhole'
  BY DEF IInv, TenantIsWhole
<1> QED BY <1>2, <1>3, <1>4, <1>5 DEF IInv

\* A call that ends.
LEMMA FinishFacts ==
    ASSUME TypeOK, NEW c \in Calls, Finish(c)
    PROVE  /\ call' \in [Calls -> CallRecord]
           /\ At(c, "done")'
           /\ \A d \in Calls : d # c => call'[d] = call[d]
<1>1. [call[c] EXCEPT !.pc = "done"] \in CallRecord /\ [call[c] EXCEPT !.pc = "done"].pc = "done"
  BY DEF TypeOK, CallRecord
<1> QED BY <1>1 DEF TypeOK, Finish, At

\* A row that is verified further keeps its registration's tenant, or is given its first.
LEMMA VerifiedFacts ==
    ASSUME NoneAssumption, IInv, NEW c \in Calls, Finish(c), NEW r \in registrations,
           NEW v \in RegistrationRow, v.id = r.id,
           r.tenant # None => v.tenant = r.tenant,
           r.emailVerified => v.emailVerified, r.domainVerified => v.domainVerified,
           registrations' = (registrations \ {r}) \union {v}
    PROVE  /\ registrations' \subseteq RegistrationRow /\ Stored' /\ Seen'
           /\ \A t \in tenants : t.by # None =>
                 \E s \in registrations' :
                    s.id = t.by /\ s.emailVerified /\ s.domainVerified /\ s.tenant = t.id
<1>1. registrations \subseteq RegistrationRow /\ registrations' \subseteq RegistrationRow
  BY DEF IInv, TypeOK
<1>2. /\ \A d \in Calls : At(d, "done") => At(d, "done")'
      /\ \A d \in Calls : d # c => call'[d] = call[d]
      /\ ~At(c, "mail")' /\ ~At(c, "domain")'
  BY FinishFacts DEF IInv, At
<1>3. \A s \in registrations : s.id \in Calls
  BY <1>1 DEF RegistrationRow
<1>4. Stored'
  <2>1. \A s, u \in registrations' : s.id = u.id => s = u
    BY DEF IInv, Stored
  <2>2. \A s \in registrations' : At(s.id, "done")'
    BY <1>2, <1>3 DEF IInv, Stored
  <2> QED BY <2>1, <2>2 DEF Stored, At
<1>5. Seen'
  <2> SUFFICES ASSUME NEW d \in Calls, At(d, "domain")'
               PROVE  \E s \in registrations' : s.id = call'[d].row.id /\ s.emailVerified
    BY <1>2 DEF IInv, Seen, At
  <2>1. At(d, "domain") /\ call'[d] = call[d]
    BY <1>2 DEF At
  <2>2. PICK s \in registrations : s.id = call[d].row.id /\ s.emailVerified
    BY <2>1 DEF IInv, Seen
  <2> QED BY <2>1, <2>2
<1>6. ASSUME NEW t \in tenants, t.by # None
      PROVE  \E s \in registrations' :
                s.id = t.by /\ s.emailVerified /\ s.domainVerified /\ s.tenant = t.id
  <2>1. PICK s \in registrations :
            s.id = t.by /\ s.emailVerified /\ s.domainVerified /\ s.tenant = t.id
    BY <1>6 DEF IInv, TenantIsWhole
  <2>2. t.id # None
    BY DEF IInv, TypeOK, TenantRow, NoneAssumption
  <2> QED BY <2>1, <2>2
<1> QED BY <1>1, <1>4, <1>5, <1>6

\* activate_verified_registration leaves whole tenants, whatever else has happened since the
\* row was read.
LEMMA ActivateKeepsIInv ==
    ASSUME NoneAssumption, IInv, NEW c \in Calls, Finish(c), NEW r \in registrations,
           NEW v \in RegistrationRow, v.id = r.id, v.tenant = r.tenant,
           v.emailVerified, v.domainVerified, Activate(c, r, v)
    PROVE  IInv'
<1>1. registrations \ {s \in registrations : s.id = r.id} = registrations \ {r}
  BY DEF IInv, Stored
<1>2. r.id \in Calls /\ r.email \in Emails /\ r.domain \in Domains /\ c \in TenantId
  BY DEF IInv, TypeOK, RegistrationRow, TenantId
<1>3. CASE r.tenant # None
  <2>1. registrations' = (registrations \ {r}) \union {v} /\ UNCHANGED <<tenants, members, policies>>
    BY <1>1, <1>3 DEF Activate
  <2> QED BY <1>3, <2>1, VerifiedFacts, FinishFacts DEF IInv, TypeOK, TenantIsWhole
<1>4. CASE r.tenant = None /\ \E m \in members : m.email = r.email
  <2>1. UNCHANGED <<registrations, tenants, members, policies>>
    BY <1>4 DEF Activate
  <2>2. r \in RegistrationRow /\ registrations' = (registrations \ {r}) \union {r}
    BY <2>1 DEF IInv, TypeOK
  <2> QED BY <2>1, <2>2, VerifiedFacts, FinishFacts DEF IInv, TypeOK, TenantIsWhole
<1>5. CASE r.tenant = None /\ ~\E m \in members : m.email = r.email
  <2> DEFINE w == [v EXCEPT !.tenant = c]
             t == [id |-> c, email |-> r.email, domain |-> r.domain, by |-> r.id]
             m == [email |-> r.email, tenant |-> c]
  <2>1. /\ registrations' = (registrations \ {r}) \union {w}
        /\ tenants' = tenants \union {t} /\ members' = members \union {m}
        /\ policies' = policies \union {c}
    BY <1>1, <1>5 DEF Activate, EnsureDefaultPolicies
  <2>2. /\ w \in RegistrationRow /\ w.id = r.id /\ w.tenant = c
        /\ w.emailVerified /\ w.domainVerified
    BY DEF RegistrationRow
  <2>3. t \in TenantRow /\ m \in MemberRow
    BY <1>2 DEF TenantRow, MemberRow
  <2>4. /\ registrations' \subseteq RegistrationRow /\ Stored' /\ Seen'
        /\ \A u \in tenants : u.by # None =>
              \E s \in registrations' :
                 s.id = u.by /\ s.emailVerified /\ s.domainVerified /\ s.tenant = u.id
    <3> HIDE DEF w
    <3> QED BY <1>5, <2>1, <2>2, VerifiedFacts
  <2>5. TypeOK'
    BY <1>2, <2>1, <2>3, <2>4, FinishFacts DEF IInv, TypeOK
  <2>6. TenantIsWhole'
    <3> SUFFICES ASSUME NEW u \in tenants', u.by # None
                 PROVE  /\ u.id \in policies' /\ [email |-> u.email, tenant |-> u.id] \in members'
                        /\ \E s \in registrations' :
                              s.id = u.by /\ s.emailVerified /\ s.domainVerified /\ s.tenant = u.id
      BY DEF TenantIsWhole
    <3>1. CASE u \in tenants
      BY <2>1, <2>4, <3>1 DEF IInv, TenantIsWhole
    <3>2. CASE u = t
      <4>1. u.id = c /\ u.email = r.email /\ u.by = r.id
        BY <3>2
      <4>2. w \in registrations'
        BY <2>1
      <4> HIDE DEF w
      <4> QED BY <2>1, <2>2, <4>1, <4>2
    <3> QED BY <2>1, <3>1, <3>2
  <2> QED BY <2>4, <2>5, <2>6 DEF IInv
<1> QED BY <1>3, <1>4, <1>5

-----------------------------------------------------------------------------
\* Every step, of whichever calls run at once, leaves whole tenants.
LEMMA StepKeepsIInv == ASSUME NoneAssumption, IInv, [Next]_vars PROVE IInv'
<1>1. CASE UNCHANGED vars
  BY <1>1 DEF vars, IInv, TypeOK, Stored, Seen, TenantIsWhole, At
<1>2. ASSUME NEW c \in Calls, NEW e \in Emails, NEW d \in Domains, Register(c, e, d) PROVE IInv'
  <2> DEFINE q == [Idle EXCEPT !.pc = "mail", !.email = e, !.domain = d]
  <2>1. q \in CallRecord /\ q.pc = "mail" /\ q.email = e /\ q.domain = d
    BY DEF Idle, CallRecord
  <2>2. Begin(c, q) /\ UNCHANGED <<registrations, tenants, members, policies>>
    BY <1>2 DEF Register
  <2> HIDE DEF q
  <2> QED BY <2>1, <2>2, BeginKeepsIInv
<1>3. ASSUME NEW c \in Calls, StoreRegistration(c) PROVE IInv'
  <2> DEFINE n == [id |-> c, email |-> call[c].email, domain |-> call[c].domain,
                   emailVerified |-> FALSE, domainVerified |-> FALSE, tenant |-> None]
  <2>1. Finish(c) /\ UNCHANGED <<tenants, members, policies>> /\ At(c, "mail")
    BY <1>3 DEF StoreRegistration
  <2>2. registrations' = registrations \/ registrations' = registrations \union {n}
    BY <1>3 DEF StoreRegistration
  <2>3. registrations' \subseteq RegistrationRow
    <3>1. call[c].email \in Emails /\ call[c].domain \in Domains
      BY <2>1 DEF IInv, Seen
    <3>2. n \in RegistrationRow
      BY <3>1 DEF RegistrationRow
    <3> HIDE DEF n
    <3> QED BY <2>2, <3>2 DEF IInv, TypeOK
  <2>4. \A r \in registrations : r.id \in Calls /\ r.id # c
    BY <2>1 DEF IInv, TypeOK, RegistrationRow, Stored, At
  <2>5. n.id = c
    OBVIOUS
  <2>6. Stored'
    <3>1. \A r \in registrations : At(r.id, "done")'
      BY <2>1, <2>4, FinishFacts DEF IInv, Stored, At
    <3>2. At(c, "done")'
      BY <2>1, FinishFacts DEF IInv
    <3> HIDE DEF n
    <3>3. \A r \in registrations' : At(r.id, "done")'
      BY <2>2, <2>5, <3>1, <3>2
    <3>4. \A r, s \in registrations' : r.id = s.id => r = s
      BY <2>2, <2>4, <2>5 DEF IInv, Stored
    <3> QED BY <3>3, <3>4 DEF Stored, At
  <2>7. Seen'
    <3> HIDE DEF n
    <3> QED BY <2>1, <2>2, FinishFacts DEF IInv, Seen, At
  <2>8. TypeOK' /\ TenantIsWhole'
    BY <2>1, <2>2, <2>3, FinishFacts DEF IInv, TypeOK, TenantIsWhole
  <2> QED BY <2>6, <2>7, <2>8 DEF IInv
<1>4. ASSUME NEW c \in Calls, VerifyEmail(c) \/ VerifyDomain(c) PROVE IInv'
  <2>1. PICK r \in registrations, pc \in {"email", "domain"} :
            /\ pc = "domain" => r.emailVerified
            /\ Begin(c, [Idle EXCEPT !.pc = pc, !.row = r])
            /\ UNCHANGED <<registrations, tenants, members, policies>>
    BY <1>4 DEF VerifyEmail, VerifyDomain
  <2> DEFINE q == [Idle EXCEPT !.pc = pc, !.row = r]
  <2>2. q \in CallRecord /\ q.pc = pc /\ q.row = r
    BY DEF Idle, CallRecord, IInv, TypeOK
  <2> HIDE DEF q
  <2>3. Begin(c, q)
    BY <2>1 DEF q
  <2> QED BY <2>1, <2>2, <2>3, BeginKeepsIInv
<1>5. ASSUME NEW c \in Calls, MarkEmail(c) PROVE IInv'
  <2>1. PICK r \in registrations :
            IF skipDomain
            THEN Activate(c, r, [r EXCEPT !.emailVerified = TRUE, !.domainVerified = TRUE])
            ELSE /\ registrations' = (registrations \ {r}) \union {[r EXCEPT !.emailVerified = TRUE]}
                 /\ UNCHANGED <<tenants, members, policies>>
    BY <1>5 DEF MarkEmail
  <2>2. Finish(c) /\ r \in RegistrationRow
    BY <1>5 DEF MarkEmail, IInv, TypeOK
  <2>3. CASE skipDomain
    <3> DEFINE v == [r EXCEPT !.emailVerified = TRUE, !.domainVerified = TRUE]
    <3>1. /\ v \in RegistrationRow /\ v.id = r.id /\ v.tenant = r.tenant
          /\ v.emailVerified /\ v.domainVerified
      BY <2>2 DEF RegistrationRow
    <3>2. Activate(c, r, v)
      BY <2>1, <2>3
    <3> HIDE DEF v
    <3> QED BY <2>2, <3>1, <3>2, ActivateKeepsIInv
  <2>4. CASE ~skipDomain
    <3> DEFINE v == [r EXCEPT !.emailVerified = TRUE]
    <3>1. /\ v \in RegistrationRow /\ v.id = r.id /\ v.tenant = r.tenant
          /\ v.emailVerified /\ v.domainVerified = r.domainVerified
      BY <2>2 DEF RegistrationRow
    <3>2. /\ registrations' = (registrations \ {r}) \union {v}
          /\ UNCHANGED <<tenants, members, policies>>
      BY <2>1, <2>4
    <3> HIDE DEF v
    <3> QED BY <2>2, <3>1, <3>2, VerifiedFacts, FinishFacts DEF IInv, TypeOK, TenantIsWhole
  <2> QED BY <2>3, <2>4
<1>6. ASSUME NEW c \in Calls, MarkDomain(c) PROVE IInv'
  <2>1. PICK r \in registrations :
            r.id = call[c].row.id /\ Activate(c, r, [r EXCEPT !.domainVerified = TRUE])
    BY <1>6 DEF MarkDomain
  <2>2. Finish(c) /\ r \in RegistrationRow /\ At(c, "domain")
    BY <1>6 DEF MarkDomain, IInv, TypeOK
  <2>3. r.emailVerified
    BY <2>1, <2>2 DEF IInv, Seen, Stored
  <2> DEFINE v == [r EXCEPT !.domainVerified = TRUE]
  <2>4. /\ v \in RegistrationRow /\ v.id = r.id /\ v.tenant = r.tenant
        /\ v.emailVerified /\ v.domainVerified
    BY <2>2, <2>3 DEF RegistrationRow
  <2>5. Activate(c, r, v)
    BY <2>1
  <2> HIDE DEF v
  <2> QED BY <2>2, <2>4, <2>5, ActivateKeepsIInv
<1>7. ASSUME NEW c \in Calls, NoRecord(c) PROVE IInv'
  <2>1. Finish(c) /\ UNCHANGED <<registrations, tenants, members, policies>>
    BY <1>7 DEF NoRecord
  <2>2. \A r \in registrations : r.id \in Calls
    BY DEF IInv, TypeOK, RegistrationRow
  <2>3. TypeOK' /\ TenantIsWhole'
    BY <2>1, FinishFacts DEF IInv, TypeOK, TenantIsWhole
  <2>4. Stored' /\ Seen'
    BY <2>1, <2>2, FinishFacts DEF IInv, Stored, Seen, At
  <2> QED BY <2>3, <2>4 DEF IInv
<1>8. ASSUME CopyTenants PROVE IInv'
  <2>1. /\ UNCHANGED <<registrations, tenants, policies, call>>
        /\ members' = members \union
              {[email |-> t.email, tenant |-> t.id] :
                  t \in {x \in tenants : x.by = None /\ ~\E m \in members : m.email = x.email}}
    BY <1>8 DEF CopyTenants
  <2>2. members' \subseteq MemberRow /\ members \subseteq members'
    BY <2>1 DEF IInv, TypeOK, MemberRow, TenantRow
  <2>3. TypeOK' /\ Stored' /\ Seen'
    BY <2>1, <2>2 DEF IInv, TypeOK, Stored, Seen, At
  <2>4. TenantIsWhole'
    BY <2>1, <2>2 DEF IInv, TenantIsWhole
  <2> QED BY <2>3, <2>4 DEF IInv
<1> QED BY <1>1, <1>2, <1>3, <1>4, <1>5, <1>6, <1>7, <1>8 DEF Next

\* A registration becomes one whole tenant with its user and its policies, for any number of
\* calls that verify it at once (main.py 5873-5937).
THEOREM TenantIsWholeHolds == ASSUME NoneAssumption PROVE Spec => []TenantIsWhole
<1>1. IInv => TenantIsWhole
  BY DEF IInv
<1> QED BY NoneAssumption, InitIInv, StepKeepsIInv, <1>1, PTL DEF Spec

LEMMA TypesHold == ASSUME NoneAssumption PROVE Spec => []TypeOK
<1>1. IInv => TypeOK
  BY DEF IInv
<1> QED BY NoneAssumption, InitIInv, StepKeepsIInv, <1>1, PTL DEF Spec
=============================================================================
