------------------------------ MODULE MCSignIn ------------------------------
(* Who gets in: sign-in, onboarding, and the keys of an identity provider. *)
(* They share no state of these models; as in MCGateway, Init chooses the  *)
(* part that moves and the others stay in one initial state.               *)
EXTENDS Integers, FiniteSets, TLC

CONSTANTS Calls, Users, SoftMail, Original,
          Emails, Domains, Legacy,
          Callbacks, home, away, MaxTime, FreshTime, StaleTime,
          None

VARIABLES part,
          users, sessions, tokens, resets, states, spent, call, uses, beside,
          skipDomain, registrations, tenants, members, policies, onboarding, together,
          provider, key, up, cache, now, lookup, known

\* One site of the provider changes its key once, the other never.
Sites == {home, away}
MaxKey == [s \in Sites |-> IF s = home THEN 2 ELSE 1]

Session == INSTANCE SignIn
Tenant == INSTANCE OnboardingProofs WITH call <- onboarding, beside <- together
Provider == INSTANCE ProviderKeys WITH Calls <- Callbacks

ASSUME PartsAssumption == /\ Session!NoneAssumption /\ Tenant!NoneAssumption
                          /\ Provider!ClockAssumption

sessionVars == <<users, sessions, tokens, resets, states, spent, call, uses, beside>>
tenantVars == <<skipDomain, registrations, tenants, members, policies, onboarding, together>>
providerVars == <<provider, key, up, cache, now, lookup, known>>
vars == <<part, sessionVars, tenantVars, providerVars>>

Init == /\ part \in {"session", "tenant", "provider"}
        /\ Session!Init
        /\ part # "session" =>
              users = [u \in Users |-> [password |-> Original, totp |-> None,
                                        mfa |-> FALSE, admitted |-> FALSE]]
        /\ Tenant!Init /\ (part # "tenant" => ~skipDomain /\ tenants = {} /\ members = {})
        /\ Provider!Init

SessionStep == part = "session" /\ Session!Next /\ UNCHANGED <<part, tenantVars, providerVars>>
TenantStep == part = "tenant" /\ Tenant!Next /\ UNCHANGED <<part, sessionVars, providerVars>>
ProviderStep == part = "provider" /\ Provider!Next /\ UNCHANGED <<part, sessionVars, tenantVars>>

Next == SessionStep \/ TenantStep \/ ProviderStep
Spec == Init /\ [][Next]_vars

\* The calls of sign-in and of onboarding are interchangeable.
Symmetry == Permutations(Calls)

-----------------------------------------------------------------------------
\* Each part's variables keep their types.
Typed == Session!TypeOK /\ Tenant!TypeOK /\ Provider!TypeOK

\* A session, reset token or login state serves one call (main.py 6194-6487).
UsedOnce == Session!UsedOnce
\* A reset ends the sessions signed in with the old password (main.py 6213-6240).
ResetSignsOut == Session!ResetSignsOut
\* A registration becomes one whole tenant (main.py 5873-5937, 6806-6815).
TenantIsWhole == Tenant!TenantIsWhole
\* A key that was withdrawn long ago is not accepted (enterprise_identity.py 449-531).
WithdrawnKeysEnd == Provider!WithdrawnKeysEnd
=============================================================================
