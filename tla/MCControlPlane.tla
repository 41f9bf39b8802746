--------------------------- MODULE MCControlPlane ---------------------------
(* What a tenant's administrators change beside the requests: API keys,    *)
(* provider credentials, policies and their bundles, documents; and what   *)
(* keeps tenants apart: row level security and the audit chain of each.    *)
(* The parts share no state of these models; as in MCGateway, Init chooses *)
(* the part that moves and the others stay in one initial state.           *)
(*                                                                         *)
(* Pair is two workers, providers, tenants, requests or passes, whichever  *)
(* the part has.                                                           *)
EXTENDS Integers, FiniteSets, TLC

CONSTANTS Calls, Pair, Original, None,
          Limit, MaxWindow,
          Connections,
          MaxVersion, MaxBundles,
          Sizes, Mock,
          quiet, busy, Bodies, MaxId, Legacy

VARIABLES part,
          setup, window, counts, token, keys, call, beside,
          backend, store, rows, using, before,
          role, pool, request,
          policy, versions, approvals, edit, created, stale,
          bundles, active, thread, promoted, disturbed,
          source, file, docs, pass, overlapped,
          blocks, nextId, writing, tampered, export

Keys == INSTANCE AccessKeys WITH Workers <- Pair
Credentials == INSTANCE ProviderCredentials WITH Providers <- Pair, call <- using
Isolation == INSTANCE TenantIsolationProofs WITH Requests <- Pair, Tenants <- Pair
\* One edit more than the other parts have calls: a policy is created before it is edited.
Policies == INSTANCE PolicyLifecycle WITH Edits <- Calls \union {Original}
Bundles == INSTANCE PolicyBundles WITH Threads <- Calls, Tenants <- Pair
Documents == INSTANCE Documents WITH Passes <- Pair
\* One tenant's blocks are made one after the other; the other's calls overlap and die, and
\* its rows are edited and deleted.
Chain == INSTANCE SignedExports WITH Tenants <- {quiet, busy},
                                     OneWriter <- {quiet}, Dying <- {busy}, Touched <- {busy},
                                     Exporting <- {quiet}, rows <- blocks, call <- writing

ASSUME PartsAssumption ==
    /\ Chain!TenantAssumption /\ Chain!IdAssumption /\ Chain!NoneAssumption
    /\ Isolation!NoneAssumption /\ Keys!NoneAssumption /\ Keys!CallsAssumption
    /\ Policies!VersionAssumption /\ Documents!PassesAssumption /\ quiet # busy

keyVars == <<setup, window, counts, token, keys, call, beside>>
credentialVars == <<backend, store, rows, using, before>>
isolationVars == <<role, pool, request>>
policyVars == <<policy, versions, approvals, edit, created, stale>>
bundleVars == <<bundles, active, thread, promoted, disturbed>>
documentVars == <<source, file, docs, pass, overlapped>>
chainVars == <<blocks, nextId, writing, tampered, export>>
vars == <<part, keyVars, credentialVars, isolationVars, policyVars, bundleVars, documentVars, chainVars>>

OneBody == CHOOSE b \in Bodies : TRUE

Init ==
    /\ part \in {"keys", "limits", "credentials", "isolation", "policies", "bundles", "documents", "chain", "exports"}
    /\ Keys!Init /\ (part # "limits" => setup = [strict |-> TRUE, url |-> TRUE])
    /\ Credentials!Init /\ (part # "credentials" => backend = "vault")
    /\ Isolation!Init /\ (part # "isolation" => role = "owner")
    /\ Policies!Init
    /\ Bundles!Init
    /\ Documents!Init /\ (part # "documents" => source = [kind |-> "watched", real |-> TRUE])
    /\ Chain!ExportInit
    /\ part # "chain" =>
          \A i \in 1..Legacy : blocks[i].tenant = quiet /\ blocks[i].body = OneBody

\* The limiter counts while no key changes, and keys change while Redis is away.
KeyStep == /\ Keys!Next
           /\ \/ part = "keys" /\ UNCHANGED <<window, token>>
              \/ part = "limits" /\ UNCHANGED keys
           /\ UNCHANGED <<part, credentialVars, isolationVars, policyVars, bundleVars, documentVars, chainVars>>
CredentialStep == /\ part = "credentials" /\ Credentials!Next
                  /\ UNCHANGED <<part, keyVars, isolationVars, policyVars, bundleVars, documentVars, chainVars>>
IsolationStep == /\ part = "isolation" /\ Isolation!Next
                 /\ UNCHANGED <<part, keyVars, credentialVars, policyVars, bundleVars, documentVars, chainVars>>
PolicyStep == /\ part = "policies" /\ Policies!Next
              /\ UNCHANGED <<part, keyVars, credentialVars, isolationVars, bundleVars, documentVars, chainVars>>
BundleStep == /\ part = "bundles" /\ Bundles!Next
              /\ UNCHANGED <<part, keyVars, credentialVars, isolationVars, policyVars, documentVars, chainVars>>
DocumentStep == /\ part = "documents" /\ Documents!Next
                /\ UNCHANGED <<part, keyVars, credentialVars, isolationVars, policyVars, bundleVars, chainVars>>
\* Exports are taken where one body is written and no row is touched.
Untouched == tampered' = {} /\ \A c \in Calls : writing'[c].body \in {None, OneBody}
ChainStep == /\ \/ part = "chain" /\ Chain!Next /\ UNCHANGED export
                \/ part = "exports" /\ Chain!ExportNext /\ Untouched
             /\ UNCHANGED <<part, keyVars, credentialVars, isolationVars, policyVars, bundleVars, documentVars>>

Next == \/ KeyStep \/ CredentialStep \/ IsolationStep \/ PolicyStep
        \/ BundleStep \/ DocumentStep \/ ChainStep
Spec == Init /\ [][Next]_vars

\* Calls are interchangeable in every part, and so are the two of Pair.
Symmetry == Permutations(Calls) \union Permutations(Pair)

-----------------------------------------------------------------------------
\* Each part's variables keep their types.
Typed == /\ Keys!TypeOK /\ Credentials!TypeOK /\ Isolation!TypeOK /\ Policies!TypeOK
         /\ Bundles!TypeOK /\ Documents!TypeOK /\ Chain!ExportTypeOK

\* A key has one good successor, but for rotations that overlap (main.py 6998-7033).
OneSuccessor == Keys!OneSuccessor
\* A counter lets Limit calls of a minute through, and refuses none before (main.py 232-262).
LimitHolds == Keys!LimitHolds
\* A disconnected credential serves no later request (main.py 7283-7311).
DisconnectedIsUnused == Credentials!DisconnectedIsUnused
\* A statement reaches its context's rows (database/__init__.py 24-57).
TenantsAreApart == Isolation!TenantsAreApart
\* Rules in force are validated or meant to be in force (main.py 2972-3364).
InForceIsChecked == Policies!InForceIsChecked
\* The rules of a version never change, but for edits that overlap (main.py 3054-3142).
VersionsStay == Policies!VersionsStay
\* The versions are a register that grows at its end, whose last one is the policy, with the
\* same exception (main.py 2509-2566, 2972-3364, 3522-3578).
RegisterSpec == Policies!RegisterSpec
\* One tenant's promotion leaves the others' alone (policy_bundle_manager.py 100-126).
PromotionsStand == Bundles!PromotionsStand
\* A verdict is on a content of the size its document records (monitoring.py 65-290).
VerdictsAreOfTheirSize == Documents!VerdictsAreOfTheirSize
\* The chain of a tenant with one writer verifies, and its signed exports hang together
\* (verify_audit.py 76-114, 506-649).
QuietChainVerifies == Chain!QuietChainVerifies /\ Chain!ExportsHold
\* The chain of a tenant with one writer is an append-only ledger.
LedgerSpec == Chain!LedgerSpec
=============================================================================
