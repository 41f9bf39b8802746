---------------------------- MODULE ProviderKeys ----------------------------
(***************************************************************************)
(* A tenant's identity provider and the cache of its signing keys          *)
(* (services/enterprise_identity.py). A callback reads the provider's row, *)
(* receives an ID token signed with the provider's key of the day, and     *)
(* looks for that key in oidc_jwks_cache: in a row that has not expired,   *)
(* else in what the provider publishes, else, when it cannot be reached,   *)
(* in a row that is not too old. A key that is not found is looked for     *)
(* once more in what the provider publishes.                               *)
(*                                                                         *)
(* A key is named <<site, n>>: the n-th key of the provider at a site; an  *)
(* administrator may point the row at another site, and the cache, kept by *)
(* the row's id, stays. A call's requests have timeouts of 10 to 15        *)
(* seconds: time, counted in longer units, stands still during a call.     *)
(***************************************************************************)
EXTENDS Integers

CONSTANTS
    Calls,
    Sites,
    MaxKey,    \* bound on each site's keys
    MaxTime,   \* bound on the clock
    FreshTime, \* JWKS_CACHE_TTL_SECONDS
    StaleTime, \* JWKS_STALE_TTL_SECONDS
    None

VARIABLES
    provider,  \* tenant_identity_providers: the site and enabled
    key,       \* external: the number of each site's key
    up,        \* external: the sites that answer
    cache,     \* oidc_jwks_cache: the key of the row, when it was refreshed, until when it is good
    now,
    lookup,    \* where each callback is
    known      \* history: when each key was last published by its site

vars == <<provider, key, up, cache, now, lookup, known>>

Keys == UNION {{s} \X (1..MaxKey[s]) : s \in Sites}
NoKeys == <<>>

\* database/migrations.py: an absent row is None; a row made by a failure has no keys.
CacheRow == [keys : Keys \union {NoKeys}, refreshed : 0..MaxTime, expires : 0..MaxTime + FreshTime]
ProviderRow == [site : Sites, enabled : BOOLEAN]

Lookup == [pc : {"idle", "token", "cache", "fetch", "store", "failed", "stale", "decided", "done"},
           site : Sites \union {None}, key : Keys \union {NoKeys}, got : Keys \union {NoKeys},
           again : BOOLEAN, ok : BOOLEAN, at : 0..MaxTime]
NoLookup == [pc |-> "idle", site |-> None, key |-> NoKeys, got |-> NoKeys,
             again |-> FALSE, ok |-> FALSE, at |-> 0]

\* A row is fresh for no longer than it may be stale (enterprise_identity.py 34-35: 3600 and
\* 86400 seconds where the environment does not say otherwise).
ClockAssumption ==
    /\ MaxTime \in Nat /\ FreshTime \in Nat /\ StaleTime \in Nat /\ FreshTime <= StaleTime
    /\ MaxKey \in [Sites -> Nat \ {0}]
    /\ None \notin CacheRow

Init == /\ provider = [site |-> CHOOSE s \in Sites : TRUE, enabled |-> TRUE]
        /\ key = [s \in Sites |-> 1] /\ up = Sites
        /\ cache = None /\ now = 0
        /\ lookup = [c \in Calls |-> NoLookup]
        /\ known = [k \in Keys |-> IF k[2] = 1 THEN 0 ELSE None]

At(c, pc) == lookup[c].pc = pc
InFlight == {c \in Calls : lookup[c].pc \notin {"idle", "decided", "done"}}

-----------------------------------------------------------------------------
\* get_provider_config: the row, when it is enabled.
LoadProvider(c) ==
    /\ At(c, "idle") /\ provider.enabled
    /\ lookup' = [lookup EXCEPT ![c] = [NoLookup EXCEPT !.pc = "token", !.site = provider.site]]
    /\ UNCHANGED <<provider, key, up, cache, now, known>>

\* exchange_authorization_code: the site answers with a token of its key, or of one
\* before where not all of the site has heard of the new one.
ReceiveToken(c) ==
    /\ At(c, "token") /\ lookup[c].site \in up
    /\ \E n \in 1..key[lookup[c].site] :
          lookup' = [lookup EXCEPT ![c].pc = "cache", ![c].key = <<lookup[c].site, n>>]
    /\ UNCHANGED <<provider, key, up, cache, now, known>>
NoToken(c) ==
    /\ At(c, "token") /\ lookup[c].site \notin up
    /\ lookup' = [lookup EXCEPT ![c] = [NoLookup EXCEPT !.pc = "done"]]
    /\ UNCHANGED <<provider, key, up, cache, now, known>>

\* The end of validate_id_token, as far as the key goes.
Decide(c, ok) ==
    lookup' = [lookup EXCEPT ![c] = [NoLookup EXCEPT !.pc = "decided", !.ok = ok, !.at = now,
                                         !.key = lookup[c].key]]

\* The key among those of a set of keys, or a second look at what the site publishes.
Match(c, keys) ==
    IF keys = lookup[c].key THEN Decide(c, TRUE)
    ELSE IF lookup[c].again THEN Decide(c, FALSE)
    ELSE lookup' = [lookup EXCEPT ![c].pc = "fetch", ![c].again = TRUE]

\* get_jwks, _load_cached_jwks: the row, until it expires.
LoadCached(c) ==
    /\ At(c, "cache")
    /\ IF cache # None /\ cache.keys # NoKeys /\ cache.expires > now
       THEN Match(c, cache.keys)
       ELSE lookup' = [lookup EXCEPT ![c].pc = "fetch"]
    /\ UNCHANGED <<provider, key, up, cache, now, known>>

\* refresh_jwks asks the site ...
Fetch(c) ==
    /\ At(c, "fetch")
    /\ lookup' = IF lookup[c].site \in up
                 THEN [lookup EXCEPT ![c].pc = "store",
                                     ![c].got = <<lookup[c].site, key[lookup[c].site]>>]
                 ELSE [lookup EXCEPT ![c].pc = "failed"]
    /\ UNCHANGED <<provider, key, up, cache, now, known>>
\* A mutant: the time of the refresh is that of the row's end.
StoreKeysAhead(c) ==
    /\ At(c, "store")
    /\ cache' = [keys |-> lookup[c].got, refreshed |-> now + FreshTime, expires |-> now + FreshTime]
    /\ Match(c, lookup[c].got)
    /\ UNCHANGED <<provider, key, up, now, known>>
\* ... and keeps what it says, for the time a row is fresh ...
StoreKeys(c) ==
    /\ At(c, "store")
    /\ cache' = [keys |-> lookup[c].got, refreshed |-> now, expires |-> now + FreshTime]
    /\ Match(c, lookup[c].got)
    /\ UNCHANGED <<provider, key, up, now, known>>
\* A mutant: the row is marked as refreshed by a failure, too.
StoreFailureAsRefresh(c) ==
    /\ At(c, "failed")
    /\ cache' = IF cache = None THEN [keys |-> NoKeys, refreshed |-> now, expires |-> now]
                ELSE [cache EXCEPT !.refreshed = now]
    /\ lookup' = [lookup EXCEPT ![c].pc = "stale"]
    /\ UNCHANGED <<provider, key, up, now, known>>
\* ... or notes the error in the row, without keys where there is no row yet ...
StoreFailure(c) ==
    /\ At(c, "failed")
    /\ cache' = IF cache = None THEN [keys |-> NoKeys, refreshed |-> now, expires |-> now] ELSE cache
    /\ lookup' = [lookup EXCEPT ![c].pc = "stale"]
    /\ UNCHANGED <<provider, key, up, now, known>>
\* ... and makes do with a row that was refreshed not too long ago.
LoadStale(c) ==
    /\ At(c, "stale")
    /\ IF cache.keys # NoKeys /\ cache.refreshed > now - StaleTime
       THEN Match(c, cache.keys)
       ELSE Decide(c, FALSE)
    /\ UNCHANGED <<provider, key, up, cache, now, known>>

-----------------------------------------------------------------------------
\* upsert_provider_config and set_provider_enabled: the row changes, the cache does not.
UpsertProvider ==
    /\ \E s \in Sites : provider' = [site |-> s, enabled |-> TRUE]
    /\ provider' # provider
    /\ UNCHANGED <<key, up, cache, now, lookup, known>>
SetProviderEnabled ==
    /\ provider' = [provider EXCEPT !.enabled = ~@]
    /\ UNCHANGED <<key, up, cache, now, lookup, known>>

\* External: a site changes its key, is out of reach, is back.
RotateKey(s) ==
    /\ key[s] < MaxKey[s]
    /\ key' = [key EXCEPT ![s] = @ + 1]
    /\ known' = [known EXCEPT ![<<s, key[s] + 1>>] = now]
    /\ UNCHANGED <<provider, up, cache, now, lookup>>
Outage(s) ==
    /\ up' = IF s \in up THEN up \ {s} ELSE up \union {s}
    /\ UNCHANGED <<provider, key, cache, now, lookup, known>>
Tick ==
    /\ now < MaxTime /\ InFlight = {}
    /\ now' = now + 1
    /\ known' = [k \in Keys |-> IF k[2] = key[k[1]] THEN now + 1 ELSE known[k]]
    /\ UNCHANGED <<provider, key, up, cache, lookup>>

Callback(c) == \/ LoadProvider(c) \/ ReceiveToken(c) \/ NoToken(c) \/ LoadCached(c)
               \/ Fetch(c) \/ StoreKeys(c) \/ StoreFailure(c) \/ LoadStale(c)
Next == \/ \E c \in Calls : Callback(c)
        \/ UpsertProvider \/ SetProviderEnabled
        \/ \E s \in Sites : RotateKey(s) \/ Outage(s)
        \/ Tick

Spec == Init /\ [][Next]_vars

-----------------------------------------------------------------------------
TypeOK ==
    /\ provider \in ProviderRow
    /\ key \in [Sites -> Nat] /\ (\A s \in Sites : key[s] \in 1..MaxKey[s])
    /\ up \subseteq Sites
    /\ cache \in CacheRow \union {None}
    /\ now \in 0..MaxTime
    /\ lookup \in [Calls -> Lookup]
    /\ known \in [Keys -> 0..MaxTime \union {None}]

(***************************************************************************)
(* A withdrawn key is forgotten: no callback accepts a token of a key its  *)
(* site has not published for the time a row may be stale, however often   *)
(* the site was out of reach and whichever of two refreshes was written    *)
(* last (enterprise_identity.py 449-531).                                  *)
(***************************************************************************)
WithdrawnKeysEnd ==
    \A c \in Calls : lookup[c].ok => lookup[c].at - known[lookup[c].key] <= StaleTime
=============================================================================
