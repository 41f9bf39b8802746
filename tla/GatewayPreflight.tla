-------------------------- MODULE GatewayPreflight --------------------------
(***************************************************************************)
(* The decision the Go gateway takes before it proxies a request: it asks  *)
(* OPA itself when it has its address (server.go evaluateOPA), else or on  *)
(* an error the backend (POST /internal/policy/evaluate), which asks OPA   *)
(* behind a circuit breaker (policy.py evaluate_opa_policy), falls back to *)
(* its own engine, and records the evaluation. Requests run concurrently:  *)
(* goroutines in the gateway, threads in the backend.                      *)
(*                                                                         *)
(* The text of a request is abstracted to what the policies say of it. To  *)
(* OPA they say it only in a query with the body of the request, as the    *)
(* gateway's is; one without, as the backend's, it answers with its        *)
(* default, ALLOW (PolicyDecision). OPA is external: it is up, refuses (no *)
(* answer, or an HTTP error), hangs, has no policy loaded, or answers with *)
(* an object without a decision (bare), or with no object at all (odd).    *)
(***************************************************************************)
EXTENDS Integers, FiniteSets

CONSTANTS
    Requests,
    Deployments, \* how the system may be set up
    BreakTime,   \* OPA_CIRCUIT_BREAK_SECONDS
    MaxTime      \* bound on the clock

OpaStates == {"up", "refuses", "hangs", "unloaded", "bare", "odd"}
Setup == [goOpa : BOOLEAN,         \* the gateway has AUTHCLAW_OPA_URL
          required : BOOLEAN,      \* opa_required(): production, or AUTHCLAW_OPA_REQUIRED
          opa : SUBSET OpaStates,  \* what OPA may do
          failing : BOOLEAN]       \* the backend and the gateway's 5 seconds may fail a request

ConfigAssumption ==
    /\ Deployments \subseteq Setup
    /\ BreakTime \in Nat /\ MaxTime \in Nat

Verdicts == {"ALLOW", "REDACT", "REQUIRE_APPROVAL", "BLOCK"}
Decision == [decision : Verdicts, allowed : BOOLEAN, by : {"opa", "local", "closed"}]
NoDecision == [decision |-> "none"]

VARIABLES
    deployment,  \* the set-up, which stays as it is
    verdict,     \* what the policies say of each request
    clashing,    \* those to be redacted as well: the gateway's query of OPA fails
    opa,
    now,
    brokenUntil, \* _opa_disabled_until
    gate,        \* where the gateway is with a request
    eval,        \* where the backend is with it
    judged,      \* what the backend's evaluation came to
    answer,      \* the decision the gateway has
    recorded     \* rows of policy_evaluation_audit, by request

vars == <<deployment, verdict, clashing, opa, now, brokenUntil, gate, eval, judged, answer, recorded>>

Init == /\ deployment \in Deployments
        /\ verdict \in [Requests -> Verdicts]
        /\ clashing \in SUBSET {r \in Requests : deployment.goOpa /\ verdict[r] \in {"BLOCK", "REQUIRE_APPROVAL"}}
        /\ opa \in deployment.opa
        /\ now = 0 /\ brokenUntil = 0
        /\ gate = [r \in Requests |-> "new"]
        /\ eval = [r \in Requests |-> "idle"]
        /\ judged = [r \in Requests |-> NoDecision]
        /\ answer = [r \in Requests |-> NoDecision]
        /\ recorded = [r \in Requests |-> NoDecision]

(***************************************************************************)
(* The rules of OPA and of the backend's engine: for OPA what requires     *)
(* approval is not allowed, for the engine only what is blocked is not.    *)
(***************************************************************************)
OpaDecision(r) == [decision |-> verdict[r],
                   allowed |-> verdict[r] \notin {"BLOCK", "REQUIRE_APPROVAL"},
                   by |-> "opa"]
LocalDecision(r) == [decision |-> verdict[r], allowed |-> verdict[r] # "BLOCK", by |-> "local"]
FailClosed == [decision |-> "BLOCK", allowed |-> FALSE, by |-> "closed"]
\* OPA's default, and what is made of an answer without a decision.
DefaultDecision == [decision |-> "ALLOW", allowed |-> TRUE, by |-> "opa"]

-----------------------------------------------------------------------------
(* The gateway. *)
Passed(r, stage) == /\ gate' = [gate EXCEPT ![r] = stage]
                    /\ UNCHANGED <<deployment, verdict, clashing, opa, now, brokenUntil>>

\* evaluatePolicy with OPA's address: an OPA that hangs uses up the 5 seconds
\* the fallback would have had.
GoAsksOpa(r) ==
    /\ gate[r] = "new" /\ deployment.goOpa
    /\ \/ /\ opa = "up" /\ r \notin clashing
          /\ answer' = [answer EXCEPT ![r] = OpaDecision(r)]
          /\ Passed(r, "decided")
       \/ /\ opa = "bare"
          /\ answer' = [answer EXCEPT ![r] = DefaultDecision]
          /\ Passed(r, "decided")
       \/ /\ opa \in {"refuses", "unloaded", "odd"} \/ (opa = "up" /\ r \in clashing)
          /\ Passed(r, "fallback")
          /\ UNCHANGED answer
       \/ /\ opa = "hangs"
          /\ Passed(r, "unavailable")
          /\ UNCHANGED answer
    /\ UNCHANGED <<eval, judged, recorded>>

\* evaluatePolicy without OPA's address.
GoSkipsOpa(r) ==
    /\ gate[r] = "new" /\ ~deployment.goOpa
    /\ Passed(r, "fallback")
    /\ UNCHANGED <<eval, judged, answer, recorded>>

\* The request to /internal/policy/evaluate is sent.
GoAsksBackend(r) ==
    /\ gate[r] = "fallback" /\ eval[r] = "idle"
    /\ eval' = [eval EXCEPT ![r] = "started"]
    /\ UNCHANGED <<deployment, verdict, clashing, opa, now, brokenUntil, gate, judged, answer, recorded>>

\* Its answer arrives: a decision, or an error.
GoHears(r) ==
    /\ gate[r] = "fallback"
    /\ \/ /\ eval[r] = "recorded"
          /\ answer' = [answer EXCEPT ![r] = judged[r]]
          /\ Passed(r, "decided")
       \/ /\ eval[r] = "failed"
          /\ Passed(r, "unavailable")
          /\ UNCHANGED answer
    /\ UNCHANGED <<eval, judged, recorded>>

\* The 5 seconds are over: the gateway gives up, the backend does not.
GoTimesOut(r) ==
    /\ deployment.failing
    /\ gate[r] = "fallback"
    /\ Passed(r, "unavailable")
    /\ UNCHANGED <<eval, judged, answer, recorded>>

\* proxyRequest with a decision: 403, or on to the backend.
GoProxies(r) ==
    /\ gate[r] = "decided"
    /\ Passed(r, IF answer[r].allowed THEN "proxied" ELSE "forbidden")
    /\ UNCHANGED <<eval, judged, answer, recorded>>

-----------------------------------------------------------------------------
(* The backend. *)
Judge(r, d) == /\ judged' = [judged EXCEPT ![r] = d]
               /\ eval' = [eval EXCEPT ![r] = "judged"]
\* A mutant: the local engine stands in for a required OPA, too.
WithoutRequiredOpa(r) == LocalDecision(r)

\* OPA is not there: required, it closes the gate; else the local engine decides.
WithoutOpa(r) == IF deployment.required THEN FailClosed ELSE LocalDecision(r)

\* The tenant is resolved and the breaker read.
BackendStarts(r) ==
    /\ eval[r] = "started"
    /\ IF now < brokenUntil
       THEN Judge(r, WithoutOpa(r))
       ELSE eval' = [eval EXCEPT ![r] = "asking"] /\ UNCHANGED judged
    /\ UNCHANGED <<deployment, verdict, clashing, opa, now, brokenUntil, gate, answer, recorded>>

\* A mutant: an outage closes the gate whether OPA is required or not.
BackendAsksOpaClosed(r) ==
    /\ eval[r] = "asking"
    /\ \/ opa = "up" /\ Judge(r, DefaultDecision) /\ UNCHANGED brokenUntil
       \/ /\ opa # "up"
          /\ Judge(r, FailClosed)
          /\ brokenUntil' = now + BreakTime
    /\ UNCHANGED <<deployment, verdict, clashing, opa, now, gate, answer, recorded>>

\* OPA is asked, for at most OPA_TIMEOUT_SECONDS.
BackendAsksOpa(r) ==
    /\ eval[r] = "asking"
    /\ \/ /\ opa \in {"up", "unloaded", "bare"}
          /\ Judge(r, DefaultDecision)
          /\ UNCHANGED brokenUntil
       \/ opa = "odd" /\ Judge(r, LocalDecision(r)) /\ UNCHANGED brokenUntil
       \/ /\ opa \in {"refuses", "hangs"}
          /\ Judge(r, WithoutOpa(r))
          /\ brokenUntil' = now + BreakTime
    /\ UNCHANGED <<deployment, verdict, clashing, opa, now, gate, answer, recorded>>

\* A mutant: the row is written with the decision of the rules.
BackendRecordsVerdict(r) ==
    /\ eval[r] = "judged"
    /\ eval' = [eval EXCEPT ![r] = "recorded"]
    /\ recorded' = [recorded EXCEPT ![r] = [judged[r] EXCEPT !.decision = "none"]]
    /\ UNCHANGED <<deployment, verdict, clashing, opa, now, brokenUntil, gate, judged, answer>>

\* The row of policy_evaluation_audit is committed, and the answer sent.
BackendRecords(r) ==
    /\ eval[r] = "judged"
    /\ eval' = [eval EXCEPT ![r] = "recorded"]
    /\ recorded' = [recorded EXCEPT ![r] = judged[r]]
    /\ UNCHANGED <<deployment, verdict, clashing, opa, now, brokenUntil, gate, judged, answer>>

\* No tenant, no database, or the process is gone.
BackendFails(r) ==
    /\ deployment.failing
    /\ eval[r] \in {"started", "asking", "judged"}
    /\ eval' = [eval EXCEPT ![r] = "failed"]
    /\ UNCHANGED <<deployment, verdict, clashing, opa, now, brokenUntil, gate, judged, answer, recorded>>

-----------------------------------------------------------------------------
OpaChanges == /\ opa' \in deployment.opa \ {opa}
              /\ UNCHANGED <<deployment, verdict, clashing, now, brokenUntil, gate, eval, judged, answer, recorded>>
Tick == /\ now < MaxTime
        /\ now' = now + 1
        /\ UNCHANGED <<deployment, verdict, clashing, opa, brokenUntil, gate, eval, judged, answer, recorded>>

Handle(r) == \/ GoAsksOpa(r) \/ GoSkipsOpa(r) \/ GoAsksBackend(r) \/ GoHears(r) \/ GoProxies(r)
             \/ BackendStarts(r) \/ BackendAsksOpa(r) \/ BackendRecords(r)
Next == \/ \E r \in Requests : Handle(r) \/ GoTimesOut(r) \/ BackendFails(r)
        \/ OpaChanges \/ Tick

Spec == Init /\ [][Next]_vars

\* A goroutine and a thread that can go on do.
FairSpec == Spec /\ \A r \in Requests : WF_vars(Handle(r))

-----------------------------------------------------------------------------
TypeOK ==
    /\ verdict \in [Requests -> Verdicts] /\ clashing \subseteq Requests
    /\ deployment \in Deployments
    /\ opa \in deployment.opa
    /\ now \in 0..MaxTime
    /\ brokenUntil \in 0..MaxTime + BreakTime
    /\ gate \in [Requests -> {"new", "fallback", "decided", "proxied", "forbidden", "unavailable"}]
    /\ eval \in [Requests -> {"idle", "started", "asking", "judged", "recorded", "failed"}]
    /\ judged \in [Requests -> Decision \union {NoDecision}]
    /\ answer \in [Requests -> Decision \union {NoDecision}]
    /\ recorded \in [Requests -> Decision \union {NoDecision}]

(***************************************************************************)
(* An outage of OPA does not keep from the runtime what the policies allow *)
(* where the local engine may stand in for OPA: OPA may refuse, but not    *)
(* hang before the gateway itself (server.go 141-152, policies/README.md:5,*)
(* docs/production_fallback_classification.md:34).                         *)
(***************************************************************************)
Bridged == /\ ~deployment.required /\ ~deployment.failing
           /\ deployment.opa \subseteq {"up", "refuses"}
OutageIsBridged ==
    \A r \in Requests :
        Bridged /\ verdict[r] \in {"ALLOW", "REDACT"} ~> gate[r] = "proxied"

(***************************************************************************)
(* What is proxied was judged by those whose word counts, while OPA comes  *)
(* and goes, calls time out and the breaker opens and closes between the   *)
(* steps of other requests: the gateway's own OPA, for a text it lets      *)
(* pass, or the backend, and then the very decision that let it pass is on *)
(* record (server.go 136-187, main.py 3651-3679); never the engine for     *)
(* what it blocks, and where OPA is required never the engine at all,      *)
(* unless what OPA says is no object (policy.py 339-381, docs/             *)
(* phase3_policy_opa_redaction.md:12).                                     *)
(***************************************************************************)
ProxiedIsJudged ==
    \A r \in Requests : gate[r] = "proxied" =>
        /\ \/ recorded[r] # NoDecision /\ recorded[r] = answer[r]
           \/ deployment.goOpa /\ answer[r] = OpaDecision(r)
           \/ deployment.goOpa /\ "bare" \in deployment.opa
        /\ answer[r].by = "local" =>
               /\ verdict[r] # "BLOCK"
               /\ deployment.required => "odd" \in deployment.opa

(***************************************************************************)
(* "... so OPA outages do not break current gateway enforcement"           *)
(* (policies/README.md:5): where the gateway asks OPA, whose policies are  *)
(* loaded, what they block is not proxied because OPA was away.            *)
(***************************************************************************)
OutageKeepsEnforcement ==
    \A r \in Requests :
        deployment.goOpa /\ deployment.opa \subseteq {"up", "refuses"} /\ r \notin clashing =>
            (gate[r] = "proxied" => verdict[r] # "BLOCK")
=============================================================================
