--------------------------- MODULE RequestPipeline ---------------------------
(***************************************************************************)
(* The request graph of graph.py and nodes/, run by GatewayService for a   *)
(* chat message or for an approved request that is executed.  A request    *)
(* passes the nodes in one thread; requests of different threads share the *)
(* approvals, the audit ledger and the gateway_requests table.             *)
(*                                                                         *)
(* What detectors, policies and the risk classifier say of a message is    *)
(* an input, chosen when the request arrives (an execution runs the stored *)
(* message again, perhaps under other policies).  An approval is named     *)
(* after the request that created it; its decisions are the subject of     *)
(* ApprovalWorkflow.                                                       *)
(***************************************************************************)
CONSTANTS
    Requests,   \* gateway requests
    Env,        \* what the environment does, a subset of EnvEvents
    None

EnvEvents == {"slow", "providerDown", "misconfigured", "auditDown",
              "registerDown", "crash"}

EnvAssumption == Env \subseteq EnvEvents

Scans == {"clean", "require_approval", "block"}   \* finding actions
GraphStatuses == {"APPROVED", "PENDING_APPROVAL"}
ApprovalStatuses == {"pending", "approved", "rejected", "executing", "executed", "execution_failed"}

NoneAssumption == /\ None \notin Requests /\ None \notin BOOLEAN
                  /\ None \notin Scans \cup GraphStatuses \cup ApprovalStatuses

VARIABLES
    req,         \* the requests
    creating,    \* requests whose create_approval thread is still running
    approvals,   \* status of the approval that a request created, or None
    granted,     \* history: approvals a human has approved
    calls,       \* history: requests whose prompt went to the model provider
    ledger,      \* the audit row of a request, or None
    registered   \* the status in its gateway_requests row, or None

vars == <<req, creating, approvals, granted, calls, ledger, registered>>

-----------------------------------------------------------------------------
(* The state of a graph run.                                               *)

\* Fields that the nodes set or read.
Fields == {"allowed", "risk_level", "approval_status", "decision", "response",
           "security_approved", "security_findings"}

\* Those of them that AuthState declares.
AuthState == {"allowed", "risk_level", "approval_status", "decision", "response"}

\* The graph keeps a channel per declared field: what a node returns under
\* another name is dropped before the next node runs.
Merge(s) == [k \in Fields |-> IF k \in AuthState THEN s[k] ELSE None]

\* state.get(k, default)
Get(s, k, default) == IF s[k] = None THEN default ELSE s[k]

Allowed(s) == Get(s, "allowed", TRUE)

Inputs == [scan : Scans,
           policy : {"ALLOW", "REQUIRE_APPROVAL", "BLOCK"},    \* final policy action
           risk : {"LOW", "HIGH"}]                             \* calculate_risk

NoInput == [scan |-> "clean", policy |-> "ALLOW", risk |-> "LOW"]

Nodes == {"redact", "policy", "risk", "decision", "approval", "approval_wait",
          "provider_router", "llm", "llm_wait", "response_checks", "audit"}

Answers == {"blocked", "approval_required", "response",
            "provider_unavailable", "provider_not_configured"}

Unset(S) == S \cup {None}

GraphState == [allowed : Unset(BOOLEAN),
               risk_level : Unset({"LOW", "HIGH"}),
               approval_status : Unset(GraphStatuses),
               decision : Unset({"ALLOW", "BLOCK", "REQUIRE_APPROVAL"}),
               response : Unset({"raw", "offline", "checked"}),
               security_approved : Unset(BOOLEAN),
               security_findings : Unset(Scans)]

Run == [pc : {"idle", "register", "done", "lost"} \cup Nodes,
        executes : Requests \cup {None},   \* the approval that is executed
        input : Inputs,
        s : GraphState,
        answer : Answers \cup {None}]

TypeOK ==
    /\ req \in [Requests -> Run]
    /\ creating \subseteq Requests
    /\ approvals \in [Requests -> Unset(ApprovalStatuses)]
    /\ granted \subseteq Requests
    /\ calls \subseteq Requests
    /\ ledger \in [Requests -> {None, "pending", "blocked", "APPROVED", "completed"}]
    /\ registered \in [Requests -> {None, "pending_approval", "allowed", "blocked",
                                    "provider_unavailable"}]

Init ==
    /\ req = [r \in Requests |->
                [pc |-> "idle", executes |-> None, input |-> NoInput,
                 s |-> [k \in Fields |-> None], answer |-> None]]
    /\ creating = {} /\ granted = {} /\ calls = {}
    /\ approvals = [r \in Requests |-> None]
    /\ ledger = [r \in Requests |-> None]
    /\ registered = [r \in Requests |-> None]

At(r, node) == req[r].pc = node

\* A node returns s and the graph goes on to node.
Return(r, s, node) == req' = [req EXCEPT ![r].s = Merge(s), ![r].pc = node]

\* The nodes before and after the approval change no table.
Quiet == UNCHANGED <<creating, approvals, granted, calls, ledger, registered>>

-----------------------------------------------------------------------------
(* Requests arrive.                                                        *)

\* GatewayService.execute_chat
ExecuteChat(r) ==
    /\ At(r, "idle")
    /\ \E i \in Inputs : req' = [req EXCEPT ![r].pc = "redact", ![r].input = i]
    /\ Quiet

\* /execute takes the grant and GatewayService.execute_approval starts the
\* graph with approval_status already set.
ExecuteApproval(r) ==
    /\ At(r, "idle")
    /\ \E a \in Requests, i \in Inputs :
         /\ approvals[a] = "approved"
         /\ approvals' = [approvals EXCEPT ![a] = "executing"]
         /\ req' = [req EXCEPT ![r].pc = "redact", ![r].executes = a, ![r].input = i,
                               ![r].s.approval_status = "APPROVED"]
    /\ UNCHANGED <<creating, granted, calls, ledger, registered>>

\* /approve and /reject
HumanDecides(a) ==
    /\ approvals[a] = "pending"
    /\ \/ approvals' = [approvals EXCEPT ![a] = "approved"] /\ granted' = granted \cup {a}
       \/ approvals' = [approvals EXCEPT ![a] = "rejected"] /\ UNCHANGED granted
    /\ UNCHANGED <<req, creating, calls, ledger, registered>>

-----------------------------------------------------------------------------
(* The nodes.                                                              *)

RedactNode(r) ==
    LET scan == req[r].input.scan
        s == [req[r].s EXCEPT
                !.security_approved = scan # "block",
                !.security_findings = scan,
                !.allowed = IF scan = "block" THEN FALSE ELSE @,
                !.risk_level = IF scan = "require_approval" THEN "HIGH" ELSE @]
    IN At(r, "redact") /\ Return(r, s, "policy") /\ Quiet

\* What policy_node leaves in the state for a policy action.
Evaluated(s, action) ==
    CASE s.security_approved = FALSE -> [s EXCEPT !.allowed = FALSE]
      [] s.security_approved # FALSE /\ action = "REQUIRE_APPROVAL" ->
           [s EXCEPT !.allowed = TRUE, !.risk_level = "HIGH",
                     !.approval_status = "PENDING_APPROVAL"]
      [] s.security_approved # FALSE /\ action # "REQUIRE_APPROVAL" ->
           [s EXCEPT !.allowed = action = "ALLOW"]

PolicyNode(r) ==
    LET s == Evaluated(req[r].s, req[r].input.policy)
    IN At(r, "policy") /\ Return(r, s, IF Allowed(s) THEN "risk" ELSE "audit") /\ Quiet

RiskNode(r) ==
    LET found == req[r].s.security_findings
        risk == IF found \in {"block", "require_approval"} THEN "HIGH" ELSE req[r].input.risk
    IN /\ At(r, "risk")
       /\ Return(r, [req[r].s EXCEPT !.risk_level = risk], "decision")
       /\ Quiet

\* DecisionEngine.evaluate
Decision(s) ==
    IF ~Allowed(s) THEN "BLOCK"
    ELSE IF s.approval_status = "APPROVED" THEN "ALLOW"
    ELSE IF s.approval_status = "PENDING_APPROVAL" \/ s.risk_level = "HIGH"
         THEN "REQUIRE_APPROVAL" ELSE "ALLOW"

DecisionNode(r) ==
    /\ At(r, "decision")
    /\ Return(r, [req[r].s EXCEPT !.decision = Decision(req[r].s)], "approval")
    /\ Quiet

\* Mutant: every request is approved automatically.
ApproveAll(r) ==
    /\ At(r, "approval")
    /\ Return(r, [req[r].s EXCEPT !.approval_status = "APPROVED"], "provider_router")
    /\ Quiet

\* approval_node: granted before, not needed, or a thread creates one.
ApprovalNode(r) ==
    LET s == req[r].s IN
    /\ At(r, "approval")
    /\ \/ /\ s.approval_status = "APPROVED" \/ s.risk_level # "HIGH"
          /\ Return(r, [s EXCEPT !.approval_status = "APPROVED"], "provider_router")
          /\ UNCHANGED creating
       \/ /\ s.approval_status # "APPROVED" /\ s.risk_level = "HIGH"
          /\ Return(r, s, "approval_wait")
          /\ creating' = creating \cup {r}
    /\ UNCHANGED <<approvals, granted, calls, ledger, registered>>

\* The thread ends, whether or not its request still waits.
CreateApproval(r) ==
    /\ r \in creating
    /\ creating' = creating \ {r}
    /\ approvals' = [approvals EXCEPT ![r] = "pending"]
    /\ UNCHANGED <<req, granted, calls, ledger, registered>>

\* Mutant: the request waits for the human.
WaitForHuman(r) ==
    /\ At(r, "approval_wait") /\ r \in granted
    /\ Return(r, [req[r].s EXCEPT !.approval_status = "PENDING_APPROVAL"], "audit")
    /\ Quiet

ApprovalIsPending(r) ==
    /\ At(r, "approval_wait") /\ r \notin creating
    /\ Return(r, [req[r].s EXCEPT !.approval_status = "PENDING_APPROVAL"], "audit")
    /\ Quiet

\* llm_node up to the provider's generate.
CallProvider(r) ==
    LET s == req[r].s IN
    /\ At(r, "llm")
    /\ IF s.approval_status # "PENDING_APPROVAL" /\ Allowed(s)
       THEN /\ Return(r, s, "llm_wait")
            /\ calls' = calls \cup {r}
       ELSE /\ Return(r, s, "response_checks")
            /\ UNCHANGED calls
    /\ UNCHANGED <<creating, approvals, granted, ledger, registered>>

\* The answer, or the offline text when the call fails or takes 30 seconds.
ProviderAnswers(r) ==
    /\ At(r, "llm_wait")
    /\ \/ Return(r, [req[r].s EXCEPT !.response = "raw"], "response_checks")
       \/ /\ "providerDown" \in Env
          /\ Return(r, [req[r].s EXCEPT !.response = "offline"], "response_checks")
    /\ Quiet

ResponseChecks(r) ==
    /\ At(r, "response_checks")
    /\ Return(r, [req[r].s EXCEPT !.response = "checked"], "audit")
    /\ Quiet

\* Mutant: the state's approval_status is written as it is.
AuditRawStatus(r) ==
    LET s == req[r].s IN
    /\ At(r, "audit")
    /\ ledger' = [ledger EXCEPT ![r] = IF Allowed(s) THEN s.approval_status ELSE "blocked"]
    /\ Return(r, s, "register")
    /\ UNCHANGED <<creating, approvals, granted, calls, registered>>

\* AuditAgent.record
AuditNode(r) ==
    LET s == req[r].s
        row == IF s.approval_status = "PENDING_APPROVAL" THEN "pending"
               ELSE IF Allowed(s) THEN Get(s, "approval_status", "completed") ELSE "blocked"
    IN /\ At(r, "audit")
       /\ ledger' = [ledger EXCEPT ![r] = row]
       /\ Return(r, s, "register")
       /\ UNCHANGED <<creating, approvals, granted, calls, registered>>

\* provider_router_node and rag_node
ProviderRouterNode(r) ==
    At(r, "provider_router") /\ Return(r, req[r].s, "llm") /\ Quiet

-----------------------------------------------------------------------------
(* How a request ends.                                                     *)

\* The outcome of an approval whose execution ends.
Settle(r, outcome) ==
    approvals' = IF req[r].executes = None THEN approvals
                 ELSE [approvals EXCEPT ![req[r].executes] = outcome]

\* record_gateway_request swallows its errors.
Record(r, status) ==
    \/ registered' = [registered EXCEPT ![r] = status]
    \/ "registerDown" \in Env /\ UNCHANGED registered

End(r, answer) == req' = [req EXCEPT ![r].pc = "done", ![r].answer = answer]

\* format_chat_response; /execute answers with the response.
Answer(r) ==
    LET s == req[r].s IN
    IF req[r].executes # None THEN "response"
    ELSE IF ~Allowed(s) THEN "blocked"
    ELSE IF s.approval_status = "PENDING_APPROVAL" THEN "approval_required"
    ELSE "response"

\* Mutant: execute_chat registers as execute_approval does.
StatusOfExecution(r) == IF Allowed(req[r].s) THEN "allowed" ELSE "blocked"

\* The status of a chat knows pending approvals, that of an execution does not.
RequestStatus(r) ==
    LET s == req[r].s IN
    IF req[r].executes = None /\ s.approval_status = "PENDING_APPROVAL"
    THEN "pending_approval"
    ELSE IF Allowed(s) THEN "allowed" ELSE "blocked"

Finish(r) ==
    /\ At(r, "register")
    /\ Record(r, RequestStatus(r))
    /\ Settle(r, "executed")
    /\ End(r, Answer(r))
    /\ UNCHANGED <<creating, granted, calls, ledger>>

\* A node raises: the risk classifier or create_approval takes more than 5
\* seconds, or the ledger cannot be written.
NodeRaises(r) ==
    \/ "slow" \in Env /\ At(r, "risk")
    \/ "slow" \in Env /\ At(r, "approval_wait") /\ r \in creating
    \/ "auditDown" \in Env /\ At(r, "audit")

Fail(r) ==
    /\ NodeRaises(r)
    /\ Record(r, "provider_unavailable")
    /\ Settle(r, "execution_failed")
    /\ End(r, "provider_unavailable")
    /\ UNCHANGED <<creating, granted, calls, ledger>>

\* provider_router_node raises ValueError.
Misconfigured(r) ==
    /\ "misconfigured" \in Env /\ At(r, "provider_router")
    /\ Settle(r, "execution_failed")
    /\ End(r, "provider_not_configured")
    /\ UNCHANGED <<creating, granted, calls, ledger, registered>>

\* The process dies with its threads.
Crash ==
    /\ "crash" \in Env
    /\ \E r \in Requests : req[r].pc \notin {"idle", "done", "lost"}
    /\ req' = [r \in Requests |-> IF req[r].pc \in {"idle", "done"} THEN req[r]
                                  ELSE [req[r] EXCEPT !.pc = "lost"]]
    /\ creating' = {}
    /\ UNCHANGED <<approvals, granted, calls, ledger, registered>>

-----------------------------------------------------------------------------
Step(r) ==
    \/ RedactNode(r) \/ PolicyNode(r) \/ RiskNode(r) \/ DecisionNode(r)
    \/ ApprovalNode(r) \/ ApprovalIsPending(r) \/ ProviderRouterNode(r)
    \/ CallProvider(r) \/ ProviderAnswers(r) \/ ResponseChecks(r)
    \/ AuditNode(r) \/ Finish(r) \/ Fail(r) \/ Misconfigured(r)

Next ==
    \/ \E r \in Requests : \/ ExecuteChat(r) \/ ExecuteApproval(r)
                           \/ Step(r) \/ CreateApproval(r) \/ HumanDecides(r)
    \/ Crash

Spec == Init /\ [][Next]_vars

\* Every thread goes on: nodes that wait have a time limit.  Nobody has to
\* send a request or decide an approval.
FairSpec == Spec /\ \A r \in Requests : WF_vars(Step(r)) /\ WF_vars(CreateApproval(r))

-----------------------------------------------------------------------------
(* Properties.                                                             *)

\* A prompt goes to the model only if no policy blocks it, and one that is
\* classified HIGH only when it executes an approval that a human granted.
CallsAreCleared ==
    \A r \in calls :
        /\ req[r].input.policy # "BLOCK"
        /\ req[r].input.risk = "HIGH" => req[r].executes \in granted

\* What the three records of a finished chat say of it agrees with what
\* happened: the client's answer, the ledger row and the gateway_requests row.
RecordsAgree ==
    \A r \in Requests : registered[r] # None /\ req[r].executes = None =>
        CASE registered[r] = "allowed" ->
                 /\ r \in calls /\ ledger[r] = "APPROVED"
                 /\ req[r].answer = "response" /\ req[r].s.response = "checked"
          [] registered[r] = "blocked" ->
                 r \notin calls /\ ledger[r] = "blocked" /\ req[r].answer = "blocked"
          [] registered[r] = "pending_approval" ->
                 /\ r \notin calls /\ ledger[r] = "pending" /\ approvals[r] # None
                 /\ req[r].answer = "approval_required"
          [] registered[r] = "provider_unavailable" ->
                 req[r].answer = "provider_unavailable"

\* A request that has arrived is answered, whatever the provider, the ledger
\* and create_approval do, unless its process dies.
EveryRequestEnds ==
    \A r \in Requests : At(r, "redact") ~> At(r, "done") \/ At(r, "lost")

\* Secret findings stop the request before the provider call.
SecurityBlockHolds ==
    \A r \in calls : req[r].input.scan # "block"
=============================================================================
