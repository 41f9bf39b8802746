----------------------------- MODULE AccessKeys -----------------------------
(***************************************************************************)
(* The tenant's API keys (main.py, /keys) and the rate limiter in front of *)
(* the gateway's endpoints (enterprise_gateway_middleware).                *)
(*                                                                         *)
(* A call is a thread of one of the Workers, which are processes: each has *)
(* its own _rate_limit_memory, and all share Redis and PostgreSQL. A key   *)
(* is named after the call that made it. The requests are those of one     *)
(* tenant, whose tier gives Limit. The audit block that ends each change   *)
(* of a key is AuditChain's. A session token in place of a key is checked  *)
(* without any state and is left out.                                      *)
(***************************************************************************)
EXTENDS Integers, FiniteSets

CONSTANTS Calls, Workers, Limit, MaxWindow, Original, None

VARIABLES
    setup,   \* strict: production, or AUTHCLAW_REQUIRE_REDIS_RATE_LIMIT; url: REDIS_URL is set
    window,  \* the current minute
    counts,  \* the counters of each minute: Redis' and each worker's
    token,   \* the minute a call has read; history: what has counted it, which counter decided,
             \* whether it passed, and whether its minute was over by then
    keys,    \* tenant_api_keys
    call,    \* where each call is
    beside   \* history: the pairs of rotations that ran at the same time

vars == <<setup, window, counts, token, keys, call, beside>>

Counters == Workers \union {"redis"}
Windows == 0..MaxWindow
Token == [window : Windows, on : SUBSET Counters, by : Counters \union {None}, passed : BOOLEAN,
          late : BOOLEAN]
KeyRow == [id : Calls \union {Original}, of : Calls \union {Original, None}, revoked : BOOLEAN,
           expired : BOOLEAN]

NoneAssumption == None \notin Calls \union {Original} \union Counters /\ Original \notin Calls
CallsAssumption == IsFiniteSet(Calls) /\ MaxWindow \in Nat /\ Limit \in Nat /\ "redis" \notin Workers

Idle == [pc |-> "new", worker |-> None, key |-> None]

Init == /\ setup \in [strict : BOOLEAN, url : BOOLEAN]
        /\ window = 0
        /\ counts = [k \in Counters |-> [v \in Windows |-> 0]]
        /\ token = [c \in Calls |-> [window |-> 0, on |-> {}, by |-> None, passed |-> FALSE, late |-> FALSE]]
        /\ keys = {[id |-> Original, of |-> None, revoked |-> FALSE, expired |-> FALSE]}
        /\ call = [c \in Calls |-> Idle]
        /\ beside = {}

At(c, pc) == call[c].pc = pc
Begin(c, record) == At(c, "new") /\ call' = [call EXCEPT ![c] = record]
Goto(c, pc) == call' = [call EXCEPT ![c].pc = pc]

limiter == <<setup, window, counts, token>>

-----------------------------------------------------------------------------
Revoke(key) == {IF k.id = key THEN [k EXCEPT !.revoked = TRUE] ELSE k : k \in keys}

\* generate_tenant_api_key.
Generate(c) ==
    /\ Begin(c, [Idle EXCEPT !.pc = "done"])
    /\ keys' = keys \union {[id |-> c, of |-> None, revoked |-> FALSE, expired |-> FALSE]}
    /\ UNCHANGED <<limiter, beside>>

\* revoke_tenant_api_key, for any key, revoked or not.
RevokeKey(c) ==
    \E k \in keys :
        /\ Begin(c, [Idle EXCEPT !.pc = "done"])
        /\ keys' = Revoke(k.id)
        /\ UNCHANGED <<limiter, beside>>

Rotating == {c \in Calls : At(c, "replace")}

\* rotate_tenant_api_key finds the key unrevoked ...
Rotate(c) ==
    \E k \in keys :
        /\ ~k.revoked
        /\ Begin(c, [Idle EXCEPT !.pc = "replace", !.key = k.id])
        /\ beside' = beside \union {{c, d} : d \in Rotating}
        /\ UNCHANGED <<limiter, keys>>
\* A mutant: the key that is replaced stays good.
ReplaceBeside(c) ==
    /\ At(c, "replace")
    /\ keys' = keys \union {[id |-> c, of |-> call[c].key, revoked |-> FALSE, expired |-> FALSE]}
    /\ Goto(c, "done")
    /\ UNCHANGED <<limiter, beside>>
\* ... and revokes it, whatever it is by then, in the transaction that adds the new one.
Replace(c) ==
    /\ At(c, "replace")
    /\ keys' = Revoke(call[c].key) \union {[id |-> c, of |-> call[c].key, revoked |-> FALSE, expired |-> FALSE]}
    /\ Goto(c, "done")
    /\ UNCHANGED <<limiter, beside>>

\* A key's expires_at passes; rotate_tenant_api_key does not look at it.
Expire ==
    /\ \E k \in keys : keys' = (keys \ {k}) \union {[k EXCEPT !.expired = TRUE]}
    /\ UNCHANGED <<limiter, call, beside>>

-----------------------------------------------------------------------------
\* enterprise_gateway_middleware runs on its worker's event loop, and up to call_next blocks it.
Free(w) == \A c \in Calls : ~(At(c, "count") /\ call[c].worker = w)

\* resolve_tenant: a good key, and _consume_rate_limit_token reads the clock; or, when the
\* database fails, an exception, after which the limiter is bypassed. A bad key is refused.
Resolve(c) ==
    \E k \in keys, w \in Workers :
        /\ ~k.revoked /\ ~k.expired /\ Free(w)
        /\ \E pc \in {"count", "bypass"} : Begin(c, [Idle EXCEPT !.pc = pc, !.worker = w])
        /\ token' = [token EXCEPT ![c].window = window]
        /\ UNCHANGED <<setup, window, counts, keys, beside>>

\* The counters when those of S count a call of minute w; a worker drops its old ones.
Counted(S, w) ==
    [k \in Counters |->
        [v \in Windows |-> IF k \in S /\ v = w THEN counts[k][v] + 1
                           ELSE IF k \in S \ {"redis"} /\ v < w - 1 THEN 0 ELSE counts[k][v]]]

\* Those of S count the call, and k decides: it goes on, or is answered 429.
Decide(c, S, k) ==
    LET w == token[c].window
        passed == Counted(S, w)[k][w] <= Limit
    IN /\ counts' = Counted(S, w)
       /\ token' = [token EXCEPT ![c] = [window |-> w, on |-> S, by |-> k, passed |-> passed, late |-> window # w]]
       /\ Goto(c, IF passed THEN "handle" ELSE "done")

\* Redis fails the call, before or after it has counted it: the worker's own counter takes
\* over, or, where it must be Redis', the exception bypasses the limiter.
FallBack(c, S) ==
    IF setup.strict
    THEN /\ counts' = Counted(S, token[c].window)
         /\ token' = [token EXCEPT ![c].on = S]
         /\ Goto(c, "bypass")
    ELSE Decide(c, S \union {call[c].worker}, call[c].worker)

\* _consume_rate_limit_token.
Consume(c) ==
    /\ At(c, "count")
    /\ IF setup.url THEN \/ Decide(c, {"redis"}, "redis")
                         \/ \E S \in {{}, {"redis"}} : FallBack(c, S)
       ELSE Decide(c, {call[c].worker}, call[c].worker)
    /\ UNCHANGED <<setup, window, keys, beside>>

\* call_next: the handler, or, when it raises, the middleware's own except clause, which
\* takes it for a failure of the limiter and calls it again.
Handle(c) ==
    /\ At(c, "handle")
    /\ Goto(c, "done") \/ Goto(c, "bypass")
    /\ UNCHANGED <<limiter, keys, beside>>
Bypass(c) ==
    /\ At(c, "bypass")
    /\ Goto(c, "done")
    /\ UNCHANGED <<limiter, keys, beside>>

NextWindow ==
    /\ window < MaxWindow
    /\ window' = window + 1
    /\ UNCHANGED <<setup, counts, token, keys, call, beside>>

\* A mutant: the counter expires before its minute does.
ForgetEarly ==
    /\ \E v \in Windows : v <= window /\ counts' = [counts EXCEPT !["redis"] = [@ EXCEPT ![v] = 0]]
    /\ UNCHANGED <<setup, window, token, keys, call, beside>>
\* Redis' counter of a minute expires 90 seconds after its first call.
Forget ==
    /\ \E v \in Windows : v < window /\ counts' = [counts EXCEPT !["redis"] = [@ EXCEPT ![v] = 0]]
    /\ UNCHANGED <<setup, window, token, keys, call, beside>>

Next == \/ \E c \in Calls : \/ Generate(c) \/ RevokeKey(c) \/ Rotate(c) \/ Replace(c)
                            \/ Resolve(c) \/ Consume(c) \/ Handle(c) \/ Bypass(c)
        \/ Expire \/ NextWindow \/ Forget

Spec == Init /\ [][Next]_vars

-----------------------------------------------------------------------------
TypeOK == /\ window \in Windows
          /\ counts \in [Counters -> [Windows -> 0..Cardinality(Calls)]]
          /\ token \in [Calls -> Token]
          /\ keys \subseteq KeyRow

(***************************************************************************)
(* A key has one good successor, and none while it is good itself: two     *)
(* successors are those of rotations that both found the key unrevoked     *)
(* before either revoked it, since the UPDATE does not ask again (main.py  *)
(* 7006-7032).                                                             *)
(***************************************************************************)
OneSuccessor ==
    \A k \in keys : k.of # None =>
        /\ \A l \in keys : l.of = k.of /\ l # k => {k.id, l.id} \in beside
        /\ \A l \in keys : l.id = k.of => l.revoked

(***************************************************************************)
(* The limit, by each counter and minute: no more than Limit calls pass    *)
(* that it has let through, and none is refused before Limit others were   *)
(* counted, whichever calls Redis fails, before or after it counts them,   *)
(* and whenever counters are dropped (main.py 232-262). The exception is a *)
(* call for which Redis is so slow that its minute's counter has expired.  *)
(* Nothing limits the calls that bypass the limiter, or those that several *)
(* counters let through between them.                                      *)
(***************************************************************************)
Passed(v, k) == {c \in Calls : /\ token[c].window = v /\ token[c].by = k /\ token[c].passed
                               /\ k = "redis" => ~token[c].late}
CountedBy(v, k) == {c \in Calls : token[c].window = v /\ k \in token[c].on}
LimitHolds ==
    \A v \in Windows, k \in Counters :
        /\ Cardinality(Passed(v, k)) <= Limit
        /\ \A c \in Calls : token[c].window = v /\ token[c].by = k /\ ~token[c].passed =>
              Cardinality(CountedBy(v, k) \ {c}) >= Limit
=============================================================================
