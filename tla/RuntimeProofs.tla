--------------------------- MODULE RuntimeProofs ---------------------------
(***************************************************************************)
(* Proofs about the parts that MCRuntime sets side by side: the request    *)
(* graph, remediation and the decision on a text. A step of the sum is a   *)
(* step of one part or leaves its variables alone (GraphMoves,             *)
(* FixingMoves, DecidingMoves), so what is inductive for a part holds in   *)
(* the sum. Every part has an invariant of its own:                        *)
(*   GraphInv   where a run is in the graph tells what its state, the      *)
(*              ledger and the approvals say of it;                        *)
(*   FixingInv  a call that executes has taken a granted approval, no two  *)
(*              calls have the same one, and the plan is the approval's;   *)
(*   Typing     the policies in force are a bounded list of inputs.        *)
(***************************************************************************)
EXTENDS MCRuntime, Sequences, FiniteSetTheorems, WellFoundedInduction, TLAPS

(***************************************************************************)
(* The request graph.                                                      *)
(***************************************************************************)

\* Where the run of a request is tells what its state says. At the approval node a request
\* passes for approved if it executes an approval, and only there does another one become
\* approved, when its risk is not high.
Cleared == {"risk", "decision", "approval", "approval_wait", "provider_router", "llm", "llm_wait",
            "response_checks"}
Sent == {"llm_wait", "response_checks"}
Staged(r) == LET q == req[r] IN
    /\ q.s.security_approved = None /\ q.s.security_findings = None
    /\ q.pc \in {"idle", "redact", "policy"} =>
          q.s.approval_status = IF q.executes = None THEN None ELSE "APPROVED"
    /\ q.pc \in Cleared => q.s.allowed = TRUE /\ q.input.policy # "BLOCK"
    /\ q.pc \in {"risk", "decision", "approval"} /\ q.s.approval_status = "APPROVED" => q.executes # None
    /\ q.pc \in {"decision", "approval", "approval_wait"} => q.s.risk_level = q.input.risk
    /\ q.pc = "approval_wait" => r \in creating \/ approvals[r] # None
    /\ q.pc \in {"provider_router", "llm"} \cup Sent =>
          q.s.approval_status = "APPROVED" /\ (q.input.risk = "HIGH" => q.executes # None)
    /\ q.pc \in Sent => r \in calls
    /\ q.pc \in {"idle", "redact", "policy"} \cup (Cleared \ Sent) => r \notin calls
    /\ q.executes = None \/ q.executes \in granted

\* A run that comes to the audit was blocked, waits for a human, or has an answer, and the
\* ledger's row is of the same kind.
Blocked(r) == /\ req[r].s.allowed = FALSE /\ req[r].s.approval_status # "PENDING_APPROVAL"
              /\ r \notin calls
Pending(r) == /\ req[r].s.allowed = TRUE /\ req[r].s.approval_status = "PENDING_APPROVAL"
              /\ r \notin calls /\ approvals[r] # None
Answered(r) == /\ req[r].s.allowed = TRUE /\ req[r].s.approval_status = "APPROVED"
               /\ r \in calls /\ req[r].s.response = "checked"
Audited(r) ==
    /\ req[r].pc = "audit" => Blocked(r) \/ Pending(r) \/ Answered(r)
    /\ req[r].pc = "register" => \/ Blocked(r) /\ ledger[r] = "blocked"
                                 \/ Pending(r) /\ ledger[r] = "pending"
                                 \/ Answered(r) /\ ledger[r] = "APPROVED"

\* What RecordsAgree and CallsAreCleared say of one request.
Agreed(r) ==
    /\ registered[r] # None => req[r].pc = "done"
    /\ registered[r] # None /\ req[r].executes = None =>
          \/ /\ registered[r] = "allowed" /\ r \in calls /\ ledger[r] = "APPROVED"
             /\ req[r].answer = "response" /\ req[r].s.response = "checked"
          \/ /\ registered[r] = "blocked" /\ r \notin calls /\ ledger[r] = "blocked"
             /\ req[r].answer = "blocked"
          \/ /\ registered[r] = "pending_approval" /\ r \notin calls /\ ledger[r] = "pending"
             /\ approvals[r] # None /\ req[r].answer = "approval_required"
          \/ registered[r] = "provider_unavailable" /\ req[r].answer = "provider_unavailable"
Called(r) == r \in calls => /\ req[r].input.policy # "BLOCK"
                            /\ req[r].input.risk = "HIGH" => req[r].executes # None

Own(r) == Staged(r) /\ Audited(r) /\ Agreed(r) /\ Called(r)
Granted == \A a \in Requests : approvals[a] = "approved" => a \in granted
GraphInv == Graph!TypeOK /\ Granted /\ \A r \in Requests : Own(r)

LEMMA GraphMoves == Spec => Graph!Spec
<1>1. Init => Graph!Init
  BY DEF Init
<1>2. [Next]_vars => [Graph!Next]_Graph!vars
  BY DEF Next, GraphStep, FixingStep, DecidingStep, vars, graphVars, Graph!vars
<1> QED BY <1>1, <1>2, PTL DEF Spec, Graph!Spec

LEMMA GraphNone ==
    /\ None \notin Requests /\ None # TRUE /\ None # FALSE
    /\ None # "block" /\ None # "require_approval" /\ None # "clean"
    /\ None # "APPROVED" /\ None # "PENDING_APPROVAL"
    /\ None # "pending" /\ None # "approved" /\ None # "rejected"
    /\ None # "executing" /\ None # "executed" /\ None # "execution_failed"
<1>1. None \notin Requests /\ None \notin Graph!Scans /\ None \notin Graph!GraphStatuses
      /\ None \notin Graph!ApprovalStatuses
  BY PartsAssumption DEF PartsAssumption, Graph!NoneAssumption
<1>2. None \notin BOOLEAN
  BY PartsAssumption DEF PartsAssumption, Graph!NoneAssumption
<1>3. TRUE \in BOOLEAN /\ FALSE \in BOOLEAN
  OBVIOUS
<1>4. None # TRUE /\ None # FALSE
  BY <1>2, <1>3, Zenon
<1> QED BY <1>1, <1>4 DEF Graph!Scans, Graph!GraphStatuses, Graph!ApprovalStatuses

\* What a node leaves in the graph's state: the fields that AuthState declares.
LEMMA MergeKeeps ==
    ASSUME NEW s \in Graph!GraphState
    PROVE  /\ Graph!Merge(s) \in Graph!GraphState
           /\ Graph!Merge(s) = [allowed |-> s.allowed, risk_level |-> s.risk_level,
                                approval_status |-> s.approval_status,
                                decision |-> s.decision, response |-> s.response,
                                security_approved |-> None, security_findings |-> None]
<1>1. Graph!Merge(s) = [allowed |-> s.allowed, risk_level |-> s.risk_level, approval_status |-> s.approval_status,
                        decision |-> s.decision, response |-> s.response,
                        security_approved |-> None, security_findings |-> None]
  BY DEF Graph!Merge, Graph!Fields, Graph!AuthState
<1> QED BY <1>1 DEF Graph!GraphState, Graph!Unset

LEMMA ReturnFacts ==
    ASSUME Graph!TypeOK, NEW r \in Requests, NEW s \in Graph!GraphState, NEW node \in Graph!Nodes \cup {"register"},
           Graph!Return(r, s, node)
    PROVE  \E q \in Graph!Run :
              /\ q.pc = node /\ q.executes = req[r].executes /\ q.input = req[r].input /\ q.answer = req[r].answer
              /\ q.s.allowed = s.allowed /\ q.s.risk_level = s.risk_level
              /\ q.s.approval_status = s.approval_status /\ q.s.response = s.response
              /\ q.s.security_approved = None /\ q.s.security_findings = None
              /\ req' = [req EXCEPT ![r] = q]
<1>1. PICK m : m = Graph!Merge(s)
  OBVIOUS
<1>2. /\ m \in Graph!GraphState
      /\ m.allowed = s.allowed /\ m.risk_level = s.risk_level /\ m.approval_status = s.approval_status
      /\ m.response = s.response /\ m.security_approved = None /\ m.security_findings = None
  BY <1>1, MergeKeeps
<1>3. PICK q : q = [req[r] EXCEPT !.s = m, !.pc = node]
  OBVIOUS
<1>4. req[r] \in Graph!Run
  BY DEF Graph!TypeOK
<1>5. q \in Graph!Run /\ q.pc = node /\ q.executes = req[r].executes /\ q.input = req[r].input
      /\ q.answer = req[r].answer /\ q.s = m
  BY <1>2, <1>3, <1>4 DEF Graph!Run
<1>6. req' = [req EXCEPT ![r] = q]
  BY <1>1, <1>3 DEF Graph!Return, Graph!TypeOK
<1> QED BY <1>2, <1>5, <1>6

\* A step of one request.
Alone(r, q) ==
    /\ req' = [req EXCEPT ![r] = q] /\ q \in Graph!Run
    /\ q.executes = None \/ q.executes \in granted'
    /\ granted \subseteq granted' /\ granted' \subseteq Requests
    /\ creating' \subseteq Requests /\ calls' \subseteq Requests
    /\ ledger' \in [Requests -> {None, "pending", "blocked", "APPROVED", "completed"}]
    /\ registered' \in [Requests -> {None, "pending_approval", "allowed", "blocked", "provider_unavailable"}]
    /\ approvals' \in [Requests -> Graph!Unset(Graph!ApprovalStatuses)]
    /\ \A d \in Requests : approvals[d] # None => approvals'[d] # None
    /\ \A d \in Requests : approvals'[d] = "approved" => approvals[d] = "approved" \/ d \in granted'
    /\ \A d \in Requests \ {r} : /\ ledger'[d] = ledger[d] /\ registered'[d] = registered[d]
                                 /\ d \in calls' <=> d \in calls
                                 /\ d \in creating => d \in creating' \/ approvals'[d] # None

LEMMA AloneKeepsInv ==
    ASSUME GraphInv, NEW r \in Requests, NEW q, Alone(r, q), Own(r)' PROVE GraphInv'
<1>1. /\ req' \in [Requests -> Graph!Run] /\ req'[r] = q /\ \A d \in Requests : d # r => req'[d] = req[d]
  BY DEF Alone, GraphInv, Graph!TypeOK
<1>2. Graph!TypeOK'
  BY <1>1 DEF Alone, Graph!TypeOK
<1>3. Granted'
  BY DEF Granted, GraphInv, Alone
<1>4. ASSUME NEW d \in Requests, d # r PROVE Own(d)'
  <2>1. /\ req'[d] = req[d] /\ ledger'[d] = ledger[d] /\ registered'[d] = registered[d]
        /\ d \in calls' <=> d \in calls
        /\ d \in creating => d \in creating' \/ approvals'[d] # None
        /\ approvals[d] # None => approvals'[d] # None
        /\ granted \subseteq granted'
    BY <1>1, <1>4 DEF Alone
  <2>2. Staged(d) /\ Audited(d) /\ Agreed(d) /\ Called(d)
    BY DEF GraphInv, Own
  <2>3. Staged(d)'
    BY <2>1, <2>2 DEF Staged
  <2>4. Audited(d)'
    BY <2>1, <2>2 DEF Audited, Blocked, Pending, Answered
  <2>5. Agreed(d)'
    BY <2>1, <2>2 DEF Agreed
  <2>6. Called(d)'
    BY <2>1, <2>2 DEF Called
  <2> QED BY <2>3, <2>4, <2>5, <2>6 DEF Own
<1> QED BY <1>2, <1>3, <1>4 DEF GraphInv

\* What the handler of a request is when a node has returned a state.
BackWith(q, r, s, node) ==
    /\ q.pc = node /\ q.executes = req[r].executes /\ q.input = req[r].input
    /\ q.s.allowed = s.allowed /\ q.s.risk_level = s.risk_level
    /\ q.s.approval_status = s.approval_status /\ q.s.response = s.response
    /\ q.s.security_approved = None /\ q.s.security_findings = None
    /\ req'[r] = q

\* A node that changes no table.
LEMMA NodeKeepsInv ==
    ASSUME GraphInv, NEW r \in Requests, NEW s \in Graph!GraphState, NEW node \in Graph!Nodes \cup {"register"},
           Graph!Return(r, s, node), Graph!Quiet,
           \A q \in Graph!Run : BackWith(q, r, s, node) => Staged(r)' /\ Audited(r)',
           req[r].pc \notin {"idle", "done", "lost"}
    PROVE  GraphInv'
<1>1. PICK q \in Graph!Run :
              /\ q.pc = node /\ q.executes = req[r].executes /\ q.input = req[r].input /\ q.answer = req[r].answer
              /\ q.s.allowed = s.allowed /\ q.s.risk_level = s.risk_level
              /\ q.s.approval_status = s.approval_status /\ q.s.response = s.response
              /\ q.s.security_approved = None /\ q.s.security_findings = None
              /\ req' = [req EXCEPT ![r] = q]
  BY ReturnFacts DEF GraphInv
<1>2. req'[r] = q
  BY <1>1 DEF GraphInv, Graph!TypeOK
<1>3. UNCHANGED <<creating, approvals, granted, calls, ledger, registered>>
  BY DEF Graph!Quiet
<1>4. Staged(r) /\ Audited(r) /\ Agreed(r) /\ Called(r)
  BY DEF GraphInv, Own
<1>5. Agreed(r)' /\ Called(r)'
  BY <1>1, <1>2, <1>3, <1>4 DEF Agreed, Called
<1>6. Alone(r, q)
  BY <1>1, <1>3, <1>4 DEF Alone, GraphInv, Graph!TypeOK, Granted, Staged
<1>7. Staged(r)' /\ Audited(r)'
  BY <1>1, <1>2 DEF BackWith
<1> QED BY <1>1, <1>2, <1>5, <1>6, <1>7, AloneKeepsInv DEF Own

LEMMA OwnState ==
    ASSUME GraphInv, NEW r \in Requests
    PROVE  /\ req[r] \in Graph!Run /\ req[r].s \in Graph!GraphState /\ req[r].input \in Graph!Inputs
           /\ req[r].s = [allowed |-> req[r].s.allowed, risk_level |-> req[r].s.risk_level,
                          approval_status |-> req[r].s.approval_status, decision |-> req[r].s.decision,
                          response |-> req[r].s.response, security_approved |-> req[r].s.security_approved,
                          security_findings |-> req[r].s.security_findings]
           /\ Staged(r) /\ Audited(r) /\ Agreed(r) /\ Called(r)
BY DEF GraphInv, Own, Graph!TypeOK, Graph!Run, Graph!GraphState

LEMMA EarlyNodesKeepInv ==
    ASSUME GraphInv, NEW r \in Requests,
           Graph!RedactNode(r) \/ Graph!PolicyNode(r) \/ Graph!RiskNode(r) \/ Graph!DecisionNode(r)
    PROVE  GraphInv'
<1> DEFINE st == req[r].s
<1>0. /\ req[r] \in Graph!Run /\ st \in Graph!GraphState /\ req[r].input \in Graph!Inputs
      /\ Staged(r) /\ Audited(r) /\ Agreed(r) /\ Called(r)
  BY OwnState
<1>1. CASE Graph!RedactNode(r)
  <2>1. PICK s : s = [st EXCEPT !.security_approved = req[r].input.scan # "block",
                                !.security_findings = req[r].input.scan,
                                !.allowed = IF req[r].input.scan = "block" THEN FALSE ELSE @,
                                !.risk_level = IF req[r].input.scan = "require_approval" THEN "HIGH" ELSE @]
    OBVIOUS
  <2>2. s \in Graph!GraphState /\ s.approval_status = st.approval_status
    <3>1. PICK a : a = (req[r].input.scan # "block")
      OBVIOUS
    <3>2. PICK b : b = IF req[r].input.scan = "block" THEN FALSE ELSE st.allowed
      OBVIOUS
    <3>3. PICK f, c : f = req[r].input.scan /\ c = IF req[r].input.scan = "require_approval" THEN "HIGH" ELSE st.risk_level
      OBVIOUS
    <3>4. s = [st EXCEPT !.security_approved = a, !.security_findings = f, !.allowed = b, !.risk_level = c]
      BY <2>1, <3>1, <3>2, <3>3
    <3>5. a \in Graph!Unset(BOOLEAN) /\ b \in Graph!Unset(BOOLEAN)
      BY <1>0, <3>1, <3>2 DEF Graph!GraphState, Graph!Unset
    <3>6. f \in Graph!Scans /\ c \in Graph!Unset({"LOW", "HIGH"})
      BY <1>0, <3>3 DEF Graph!GraphState, Graph!Unset, Graph!Inputs
    <3>7. PICK w \in Graph!GraphState : w = st
      BY <1>0
    <3>8. s = [w EXCEPT !.security_approved = a, !.security_findings = f, !.allowed = b, !.risk_level = c]
      BY <3>4, <3>7
    <3>9. s \in Graph!GraphState /\ s.approval_status = w.approval_status
      <4>1. PICK u : u = [w EXCEPT !.security_approved = a, !.security_findings = f]
        OBVIOUS
      <4>2. u \in Graph!GraphState /\ u.approval_status = w.approval_status
        BY <3>5, <3>6, <4>1 DEF Graph!GraphState, Graph!Unset
      <4>3. PICK t : t = [u EXCEPT !.allowed = b]
        OBVIOUS
      <4>4. t \in Graph!GraphState /\ t.approval_status = u.approval_status
        BY <3>5, <4>2, <4>3 DEF Graph!GraphState
      <4>5. s = [t EXCEPT !.risk_level = c]
        BY <3>8, <4>1, <4>3
      <4>6. s \in Graph!GraphState /\ s.approval_status = t.approval_status
        BY <3>6, <4>4, <4>5 DEF Graph!GraphState
      <4> QED BY <4>2, <4>4, <4>6
    <3> QED BY <3>7, <3>9
  <2>3. Graph!Return(r, s, "policy") /\ Graph!Quiet /\ req[r].pc = "redact"
    BY <1>1, <2>1 DEF Graph!RedactNode, Graph!At
  <2>4. ASSUME NEW q \in Graph!Run, q.pc = "policy", q.executes = req[r].executes, 
               q.s.approval_status = s.approval_status, q.s.security_approved = None, q.s.security_findings = None,
               req'[r] = q
        PROVE  Staged(r)' /\ Audited(r)'
    BY <1>0, <2>2, <2>3, <2>4 DEF Staged, Audited, Graph!Quiet, Cleared, Sent
  <2>8. \A q \in Graph!Run : BackWith(q, r, s, "policy") => Staged(r)' /\ Audited(r)'
    BY <2>4 DEF BackWith
  <2>9. req[r].pc \notin {"idle", "done", "lost"} /\ "policy" \in Graph!Nodes \cup {"register"}
    BY <2>2, <2>3, <2>4 DEF Graph!Nodes
  <2> QED BY <2>2, <2>3, <2>8, <2>9, NodeKeepsInv
<1>2. CASE Graph!PolicyNode(r)
  <2>1. PICK s : s = Graph!Evaluated(st, req[r].input.policy)
    OBVIOUS
  <2>2. /\ s \in Graph!GraphState /\ (s.allowed = TRUE \/ s.allowed = FALSE)
        /\ s.allowed = TRUE => req[r].input.policy # "BLOCK"
        /\ s.approval_status \in {st.approval_status, "PENDING_APPROVAL"}
        /\ s.allowed = FALSE => s.approval_status = st.approval_status
    <3>1. st.security_approved # FALSE /\ req[r].input.policy \in {"ALLOW", "REQUIRE_APPROVAL", "BLOCK"}
      BY <1>0, GraphNone DEF Staged, Graph!Inputs
    <3>2. CASE req[r].input.policy = "REQUIRE_APPROVAL"
      <4>1. s = [st EXCEPT !.allowed = TRUE, !.risk_level = "HIGH", !.approval_status = "PENDING_APPROVAL"]
        BY <2>1, <3>1, <3>2 DEF Graph!Evaluated
      <4> QED BY <1>0, <3>2, <4>1 DEF Graph!GraphState, Graph!GraphStatuses, Graph!Unset
    <3>3. CASE req[r].input.policy # "REQUIRE_APPROVAL"
      <4>1. s = [st EXCEPT !.allowed = (req[r].input.policy = "ALLOW")]
        BY <2>1, <3>1, <3>3 DEF Graph!Evaluated
      <4> QED BY <1>0, <3>3, <4>1 DEF Graph!GraphState, Graph!Unset
    <3> QED BY <3>2, <3>3
  <2>3. PICK node \in {"risk", "audit"} :
           /\ Graph!Return(r, s, node) /\ Graph!Quiet /\ req[r].pc = "policy"
           /\ node = IF Graph!Allowed(s) THEN "risk" ELSE "audit"
    BY <1>2, <2>1 DEF Graph!PolicyNode, Graph!At
  <2>4. Graph!Allowed(s) <=> s.allowed = TRUE
    BY <2>2, GraphNone DEF Graph!Allowed, Graph!Get
  <2>5. ASSUME NEW q \in Graph!Run, q.pc = node, q.executes = req[r].executes, q.input = req[r].input,
               q.s.allowed = s.allowed, q.s.approval_status = s.approval_status,
               q.s.security_approved = None, q.s.security_findings = None, req'[r] = q
        PROVE  Staged(r)' /\ Audited(r)'
    <3>1. r \notin calls' /\ UNCHANGED <<granted>>
      BY <1>0, <2>3 DEF Staged, Graph!Quiet
    <3>2. Staged(r)'
      BY <1>0, <2>2, <2>3, <2>4, <2>5, <3>1, GraphNone DEF Staged, Cleared, Sent
    <3>3. Audited(r)'
      BY <1>0, <2>2, <2>3, <2>4, <2>5, <3>1, GraphNone DEF Staged, Audited, Blocked
    <3> QED BY <3>2, <3>3
  <2>8. \A q \in Graph!Run : BackWith(q, r, s, node) => Staged(r)' /\ Audited(r)'
    BY <2>5 DEF BackWith
  <2>9. req[r].pc \notin {"idle", "done", "lost"} /\ node \in Graph!Nodes \cup {"register"}
    BY <2>2, <2>3, <2>5 DEF Graph!Nodes
  <2> QED BY <2>2, <2>3, <2>8, <2>9, NodeKeepsInv
<1>3. CASE Graph!RiskNode(r)
  <2>1. PICK s : s = [st EXCEPT !.risk_level = req[r].input.risk]
    OBVIOUS
  <2>2. s \in Graph!GraphState /\ s.approval_status = st.approval_status /\ s.allowed = st.allowed
        /\ s.risk_level = req[r].input.risk
    BY <1>0, <2>1 DEF Graph!GraphState, Graph!Unset, Graph!Inputs
  <2>3. Graph!Return(r, s, "decision") /\ Graph!Quiet /\ req[r].pc = "risk"
    <3>1. st.security_findings \notin {"block", "require_approval"}
      BY <1>0, GraphNone DEF Staged
    <3> QED BY <1>3, <2>1, <3>1 DEF Graph!RiskNode, Graph!At
  <2>4. ASSUME NEW q \in Graph!Run, q.pc = "decision", q.executes = req[r].executes, q.input = req[r].input,
               q.s.allowed = s.allowed, q.s.risk_level = s.risk_level, q.s.approval_status = s.approval_status,
               q.s.security_approved = None, q.s.security_findings = None, req'[r] = q
        PROVE  Staged(r)' /\ Audited(r)'
    BY <1>0, <2>2, <2>3, <2>4 DEF Staged, Audited, Graph!Quiet, Cleared, Sent
  <2>8. \A q \in Graph!Run : BackWith(q, r, s, "decision") => Staged(r)' /\ Audited(r)'
    BY <2>4 DEF BackWith
  <2>9. req[r].pc \notin {"idle", "done", "lost"} /\ "decision" \in Graph!Nodes \cup {"register"}
    BY <2>2, <2>3, <2>4 DEF Graph!Nodes
  <2> QED BY <2>2, <2>3, <2>8, <2>9, NodeKeepsInv
<1>4. CASE Graph!DecisionNode(r)
  <2>1. PICK s : s = [st EXCEPT !.decision = Graph!Decision(st)]
    OBVIOUS
  <2>2. s \in Graph!GraphState /\ s.approval_status = st.approval_status /\ s.allowed = st.allowed
        /\ s.risk_level = st.risk_level
    <3>1. Graph!Decision(st) \in {"ALLOW", "BLOCK", "REQUIRE_APPROVAL"}
      BY DEF Graph!Decision
    <3> QED BY <1>0, <2>1, <3>1 DEF Graph!GraphState, Graph!Unset
  <2>3. Graph!Return(r, s, "approval") /\ Graph!Quiet /\ req[r].pc = "decision"
    BY <1>4, <2>1 DEF Graph!DecisionNode, Graph!At
  <2>4. ASSUME NEW q \in Graph!Run, q.pc = "approval", q.executes = req[r].executes, q.input = req[r].input,
               q.s.allowed = s.allowed, q.s.risk_level = s.risk_level, q.s.approval_status = s.approval_status,
               q.s.security_approved = None, q.s.security_findings = None, req'[r] = q
        PROVE  Staged(r)' /\ Audited(r)'
    BY <1>0, <2>2, <2>3, <2>4 DEF Staged, Audited, Graph!Quiet, Cleared, Sent
  <2>8. \A q \in Graph!Run : BackWith(q, r, s, "approval") => Staged(r)' /\ Audited(r)'
    BY <2>4 DEF BackWith
  <2>9. req[r].pc \notin {"idle", "done", "lost"} /\ "approval" \in Graph!Nodes \cup {"register"}
    BY <2>2, <2>3, <2>4 DEF Graph!Nodes
  <2> QED BY <2>2, <2>3, <2>8, <2>9, NodeKeepsInv
<1> QED BY <1>1, <1>2, <1>3, <1>4

LEMMA LateNodesKeepInv ==
    ASSUME GraphInv, NEW r \in Requests,
           \/ Graph!ApprovalIsPending(r) \/ Graph!ProviderRouterNode(r)
           \/ Graph!ProviderAnswers(r) \/ Graph!ResponseChecks(r)
    PROVE  GraphInv'
<1> DEFINE st == req[r].s
<1>0. /\ req[r] \in Graph!Run /\ st \in Graph!GraphState
      /\ Staged(r) /\ Audited(r) /\ Agreed(r) /\ Called(r)
  BY OwnState
<1>1. CASE Graph!ApprovalIsPending(r)
  <2>1. PICK s : s = [st EXCEPT !.approval_status = "PENDING_APPROVAL"]
    OBVIOUS
  <2>2. s \in Graph!GraphState /\ s.approval_status = "PENDING_APPROVAL" /\ s.allowed = st.allowed
    BY <1>0, <2>1 DEF Graph!GraphState, Graph!GraphStatuses, Graph!Unset
  <2>3. Graph!Return(r, s, "audit") /\ Graph!Quiet /\ req[r].pc = "approval_wait" /\ r \notin creating
    BY <1>1, <2>1 DEF Graph!ApprovalIsPending, Graph!At
  <2>4. ASSUME NEW q \in Graph!Run, q.pc = "audit", q.executes = req[r].executes, q.input = req[r].input,
               q.s.allowed = s.allowed, q.s.approval_status = s.approval_status,
               q.s.security_approved = None, q.s.security_findings = None, req'[r] = q
        PROVE  Staged(r)' /\ Audited(r)'
    BY <1>0, <2>2, <2>3, <2>4 DEF Staged, Audited, Pending, Graph!Quiet, Cleared, Sent
  <2>8. \A q \in Graph!Run : BackWith(q, r, s, "audit") => Staged(r)' /\ Audited(r)'
    BY <2>4 DEF BackWith
  <2>9. req[r].pc \notin {"idle", "done", "lost"} /\ "audit" \in Graph!Nodes \cup {"register"}
    BY <2>2, <2>3, <2>4 DEF Graph!Nodes
  <2> QED BY <2>2, <2>3, <2>8, <2>9, NodeKeepsInv
<1>2. CASE Graph!ProviderRouterNode(r)
  <2>1. Graph!Return(r, st, "llm") /\ Graph!Quiet /\ req[r].pc = "provider_router"
    BY <1>2 DEF Graph!ProviderRouterNode, Graph!At
  <2>2. ASSUME NEW q \in Graph!Run, q.pc = "llm", q.executes = req[r].executes, q.input = req[r].input,
               q.s.allowed = st.allowed, q.s.approval_status = st.approval_status,
               q.s.security_approved = None, q.s.security_findings = None, req'[r] = q
        PROVE  Staged(r)' /\ Audited(r)'
    BY <1>0, <2>1, <2>2 DEF Staged, Audited, Graph!Quiet, Cleared, Sent
  <2>8. \A q \in Graph!Run : BackWith(q, r, st, "llm") => Staged(r)' /\ Audited(r)'
    BY <2>2 DEF BackWith
  <2>9. req[r].pc \notin {"idle", "done", "lost"} /\ "llm" \in Graph!Nodes \cup {"register"}
    BY <1>0, <2>1, <2>2 DEF Graph!Nodes
  <2> QED BY <1>0, <2>1, <2>8, <2>9, NodeKeepsInv
<1>3. CASE Graph!ProviderAnswers(r)
  <2>1. PICK a \in {"raw", "offline"} : Graph!Return(r, [st EXCEPT !.response = a], "response_checks")
    BY <1>3 DEF Graph!ProviderAnswers
  <2>2. PICK s : s = [st EXCEPT !.response = a]
    OBVIOUS
  <2>3. s \in Graph!GraphState /\ s.approval_status = st.approval_status /\ s.allowed = st.allowed
    BY <1>0, <2>2 DEF Graph!GraphState, Graph!Unset
  <2>4. Graph!Return(r, s, "response_checks") /\ Graph!Quiet /\ req[r].pc = "llm_wait"
    BY <1>3, <2>1, <2>2 DEF Graph!ProviderAnswers, Graph!At
  <2>5. ASSUME NEW q \in Graph!Run, q.pc = "response_checks", q.executes = req[r].executes, q.input = req[r].input,
               q.s.allowed = s.allowed, q.s.approval_status = s.approval_status,
               q.s.security_approved = None, q.s.security_findings = None, req'[r] = q
        PROVE  Staged(r)' /\ Audited(r)'
    BY <1>0, <2>3, <2>4, <2>5 DEF Staged, Audited, Graph!Quiet, Cleared, Sent
  <2>8. \A q \in Graph!Run : BackWith(q, r, s, "response_checks") => Staged(r)' /\ Audited(r)'
    BY <2>5 DEF BackWith
  <2>9. req[r].pc \notin {"idle", "done", "lost"} /\ "response_checks" \in Graph!Nodes \cup {"register"}
    BY <2>3, <2>4, <2>5 DEF Graph!Nodes
  <2> QED BY <2>3, <2>4, <2>8, <2>9, NodeKeepsInv
<1>4. CASE Graph!ResponseChecks(r)
  <2>1. PICK s : s = [st EXCEPT !.response = "checked"]
    OBVIOUS
  <2>2. s \in Graph!GraphState /\ s.approval_status = st.approval_status /\ s.allowed = st.allowed
        /\ s.response = "checked"
    BY <1>0, <2>1 DEF Graph!GraphState, Graph!Unset
  <2>3. Graph!Return(r, s, "audit") /\ Graph!Quiet /\ req[r].pc = "response_checks"
    BY <1>4, <2>1 DEF Graph!ResponseChecks, Graph!At
  <2>4. ASSUME NEW q \in Graph!Run, q.pc = "audit", q.executes = req[r].executes, q.input = req[r].input,
               q.s.allowed = s.allowed, q.s.approval_status = s.approval_status, q.s.response = s.response,
               q.s.security_approved = None, q.s.security_findings = None, req'[r] = q
        PROVE  Staged(r)' /\ Audited(r)'
    BY <1>0, <2>2, <2>3, <2>4 DEF Staged, Audited, Answered, Graph!Quiet, Cleared, Sent
  <2>8. \A q \in Graph!Run : BackWith(q, r, s, "audit") => Staged(r)' /\ Audited(r)'
    BY <2>4 DEF BackWith
  <2>9. req[r].pc \notin {"idle", "done", "lost"} /\ "audit" \in Graph!Nodes \cup {"register"}
    BY <2>2, <2>3, <2>4 DEF Graph!Nodes
  <2> QED BY <2>2, <2>3, <2>8, <2>9, NodeKeepsInv
<1> QED BY <1>1, <1>2, <1>3, <1>4

\* A node that changes what a table or the history says of its request.
LEMMA WriterKeepsInv ==
    ASSUME GraphInv, NEW r \in Requests, NEW q, Alone(r, q), req'[r] = q, Agreed(r), registered'[r] = registered[r],
           q.pc \notin {"done"}, req[r].pc # "done",
           Staged(r)', Audited(r)', Called(r)'
    PROVE  GraphInv'
<1>1. Agreed(r)'
  BY DEF Agreed
<1> QED BY <1>1, AloneKeepsInv DEF Own

LEMMA WritersKeepInv ==
    ASSUME GraphInv, NEW r \in Requests,
           Graph!ApprovalNode(r) \/ Graph!CallProvider(r) \/ Graph!AuditNode(r)
    PROVE  GraphInv'
<1> DEFINE st == req[r].s
<1>0. /\ req[r] \in Graph!Run /\ st \in Graph!GraphState /\ req[r].input \in Graph!Inputs
      /\ Staged(r) /\ Audited(r) /\ Agreed(r) /\ Called(r)
  BY OwnState
<1>a. /\ granted \subseteq Requests /\ creating \subseteq Requests /\ calls \subseteq Requests
      /\ ledger \in [Requests -> {None, "pending", "blocked", "APPROVED", "completed"}]
      /\ registered \in [Requests -> {None, "pending_approval", "allowed", "blocked", "provider_unavailable"}]
      /\ approvals \in [Requests -> Graph!Unset(Graph!ApprovalStatuses)]
      /\ Granted /\ req \in [Requests -> Graph!Run]
  BY DEF GraphInv, Graph!TypeOK
<1>1. CASE Graph!ApprovalNode(r)
  <2>1. req[r].pc = "approval" /\ UNCHANGED <<approvals, granted, calls, ledger, registered>>
    BY <1>1 DEF Graph!ApprovalNode, Graph!At
  <2>2. CASE /\ st.approval_status = "APPROVED" \/ st.risk_level # "HIGH"
             /\ Graph!Return(r, [st EXCEPT !.approval_status = "APPROVED"], "provider_router")
             /\ UNCHANGED creating
    <3>1. PICK s : s = [st EXCEPT !.approval_status = "APPROVED"]
      OBVIOUS
    <3>2. s \in Graph!GraphState /\ s.approval_status = "APPROVED" /\ s.allowed = st.allowed
      BY <1>0, <3>1 DEF Graph!GraphState, Graph!GraphStatuses, Graph!Unset
    <3>3. Graph!Return(r, s, "provider_router") /\ Graph!Quiet
      BY <2>1, <2>2, <3>1 DEF Graph!Quiet
    <3>4. ASSUME NEW q \in Graph!Run, q.pc = "provider_router", q.executes = req[r].executes, q.input = req[r].input,
                 q.s.allowed = s.allowed, q.s.approval_status = s.approval_status,
                 q.s.security_approved = None, q.s.security_findings = None, req'[r] = q
          PROVE  Staged(r)' /\ Audited(r)'
      BY <1>0, <2>1, <2>2, <3>2, <3>4 DEF Staged, Audited, Cleared, Sent
    <3>8. \A q \in Graph!Run : BackWith(q, r, s, "provider_router") => Staged(r)' /\ Audited(r)'
      BY <3>4 DEF BackWith
    <3>9. req[r].pc \notin {"idle", "done", "lost"} /\ "provider_router" \in Graph!Nodes \cup {"register"}
      BY <2>1, <3>2, <3>3, <3>4 DEF Graph!Nodes
    <3> QED BY <2>1, <3>2, <3>3, <3>8, <3>9, NodeKeepsInv
  <2>3. CASE Graph!Return(r, st, "approval_wait") /\ creating' = creating \cup {r}
    <3>1. PICK q \in Graph!Run :
              /\ q.pc = "approval_wait" /\ q.executes = req[r].executes /\ q.input = req[r].input
              /\ q.s.allowed = st.allowed /\ q.s.risk_level = st.risk_level
              /\ q.s.approval_status = st.approval_status
              /\ q.s.security_approved = None /\ q.s.security_findings = None
              /\ req' = [req EXCEPT ![r] = q]
      BY <1>0, <2>3, ReturnFacts DEF GraphInv, Graph!Nodes
    <3>2. req'[r] = q
      BY <1>a, <3>1
    <3>3. Staged(r)' /\ Audited(r)' /\ Called(r)'
      BY <1>0, <2>1, <2>3, <3>1, <3>2 DEF Staged, Audited, Called, Cleared, Sent
    <3>4. Alone(r, q)
      BY <1>0, <1>a, <2>1, <2>3, <3>1 DEF Alone, Granted, Staged
    <3> QED BY <1>0, <2>1, <3>1, <3>2, <3>3, <3>4, WriterKeepsInv
  <2> QED BY <1>1, <2>2, <2>3 DEF Graph!ApprovalNode
<1>2. CASE Graph!CallProvider(r)
  <2>1. req[r].pc = "llm" /\ UNCHANGED <<creating, approvals, granted, ledger, registered>>
    BY <1>2 DEF Graph!CallProvider, Graph!At
  <2>2. Graph!Return(r, st, "llm_wait") /\ calls' = calls \cup {r}
    <3>1. st.approval_status = "APPROVED" /\ st.allowed = TRUE
      BY <1>0, <2>1 DEF Staged, Cleared
    <3>2. Graph!Allowed(st)
      BY <3>1, GraphNone DEF Graph!Allowed, Graph!Get
    <3> QED BY <1>2, <3>1, <3>2 DEF Graph!CallProvider
  <2>3. PICK q \in Graph!Run :
              /\ q.pc = "llm_wait" /\ q.executes = req[r].executes /\ q.input = req[r].input
              /\ q.s.allowed = st.allowed /\ q.s.risk_level = st.risk_level
              /\ q.s.approval_status = st.approval_status
              /\ q.s.security_approved = None /\ q.s.security_findings = None
              /\ req' = [req EXCEPT ![r] = q]
    BY <1>0, <2>2, ReturnFacts DEF GraphInv, Graph!Nodes
  <2>4. req'[r] = q
    BY <1>a, <2>3
  <2>5. Staged(r)' /\ Audited(r)' /\ Called(r)'
    BY <1>0, <2>1, <2>2, <2>3, <2>4 DEF Staged, Audited, Called, Cleared, Sent
  <2>6. Alone(r, q)
    BY <1>0, <1>a, <2>1, <2>2, <2>3 DEF Alone, Granted, Staged
  <2> QED BY <1>0, <2>1, <2>3, <2>4, <2>5, <2>6, WriterKeepsInv
<1>3. CASE Graph!AuditNode(r)
  <2>1. PICK row : /\ ledger' = [ledger EXCEPT ![r] = row]
                   /\ row = IF st.approval_status = "PENDING_APPROVAL" THEN "pending"
                            ELSE IF Graph!Allowed(st) THEN Graph!Get(st, "approval_status", "completed")
                            ELSE "blocked"
    BY <1>3 DEF Graph!AuditNode
  <2>2. /\ req[r].pc = "audit" /\ UNCHANGED <<creating, approvals, granted, calls, registered>>
        /\ Graph!Return(r, st, "register")
    BY <1>3 DEF Graph!AuditNode, Graph!At
  <2>3. PICK q \in Graph!Run :
              /\ q.pc = "register" /\ q.executes = req[r].executes /\ q.input = req[r].input
              /\ q.s.allowed = st.allowed /\ q.s.response = st.response
              /\ q.s.approval_status = st.approval_status
              /\ q.s.security_approved = None /\ q.s.security_findings = None
              /\ req' = [req EXCEPT ![r] = q]
    BY <1>0, <2>2, ReturnFacts DEF GraphInv
  <2>4. req'[r] = q
    BY <1>a, <2>3
  <2>5. /\ st.allowed = TRUE \/ st.allowed = FALSE
        /\ st.approval_status # "PENDING_APPROVAL" /\ st.allowed = TRUE => st.approval_status = "APPROVED"
    BY <1>0, <2>2 DEF Audited, Blocked, Pending, Answered
  <2>6. row = IF st.approval_status = "PENDING_APPROVAL" THEN "pending"
              ELSE IF st.allowed = TRUE THEN "APPROVED" ELSE "blocked"
    BY <2>1, <2>5, GraphNone DEF Graph!Allowed, Graph!Get
  <2>7. ledger' \in [Requests -> {None, "pending", "blocked", "APPROVED", "completed"}] /\ ledger'[r] = row
        /\ \A d \in Requests : d # r => ledger'[d] = ledger[d]
    BY <1>a, <2>1, <2>6
  <2>8. Audited(r)'
    BY <1>0, <2>2, <2>3, <2>4, <2>6, <2>7 DEF Audited, Blocked, Pending, Answered
  <2>9. Staged(r)' /\ Called(r)'
    BY <1>0, <2>2, <2>3, <2>4 DEF Staged, Called, Cleared, Sent
  <2>10. Alone(r, q)
    BY <1>0, <1>a, <2>2, <2>3, <2>7 DEF Alone, Granted, Staged
  <2> QED BY <1>0, <2>2, <2>3, <2>4, <2>8, <2>9, <2>10, WriterKeepsInv
<1> QED BY <1>1, <1>2, <1>3

LEMMA EndingsKeepInv ==
    ASSUME GraphInv, NEW r \in Requests,
           Graph!Finish(r) \/ Graph!Fail(r) \/ Graph!Misconfigured(r)
    PROVE  GraphInv'
<1> DEFINE st == req[r].s
<1>0. /\ req[r] \in Graph!Run /\ st \in Graph!GraphState /\ req[r].input \in Graph!Inputs
      /\ Staged(r) /\ Audited(r) /\ Agreed(r) /\ Called(r)
  BY OwnState
<1>a. /\ granted \subseteq Requests /\ creating \subseteq Requests /\ calls \subseteq Requests
      /\ ledger \in [Requests -> {None, "pending", "blocked", "APPROVED", "completed"}]
      /\ registered \in [Requests -> {None, "pending_approval", "allowed", "blocked", "provider_unavailable"}]
      /\ approvals \in [Requests -> Graph!Unset(Graph!ApprovalStatuses)]
      /\ Granted /\ req \in [Requests -> Graph!Run]
  BY DEF GraphInv, Graph!TypeOK
<1>b. ASSUME NEW outcome \in {"executed", "execution_failed"}, Graph!Settle(r, outcome)
      PROVE  /\ approvals' \in [Requests -> Graph!Unset(Graph!ApprovalStatuses)]
             /\ \A d \in Requests : approvals[d] # None => approvals'[d] # None
             /\ \A d \in Requests : approvals'[d] = "approved" => approvals[d] = "approved"
  <2>1. CASE req[r].executes = None
    BY <1>a, <1>b, <2>1 DEF Graph!Settle
  <2>2. CASE req[r].executes # None
    <3>1. approvals' = [approvals EXCEPT ![req[r].executes] = outcome]
      BY <1>b, <2>2 DEF Graph!Settle
    <3>2. outcome # None /\ outcome # "approved" /\ outcome \in Graph!Unset(Graph!ApprovalStatuses)
      BY GraphNone DEF Graph!Unset, Graph!ApprovalStatuses
    <3> QED BY <1>a, <3>1, <3>2
  <2> QED BY <2>1, <2>2
<1>c. ASSUME NEW answer \in Graph!Answers, Graph!End(r, answer)
      PROVE  \E q \in Graph!Run : /\ q.pc = "done" /\ q.executes = req[r].executes /\ q.input = req[r].input
                                  /\ q.s = st /\ q.answer = answer
                                  /\ req' = [req EXCEPT ![r] = q] /\ req'[r] = q
  <2>1. PICK q : q = [req[r] EXCEPT !.pc = "done", !.answer = answer]
    OBVIOUS
  <2>2. q \in Graph!Run /\ q.pc = "done" /\ q.executes = req[r].executes /\ q.input = req[r].input
        /\ q.s = st /\ q.answer = answer
    BY <1>0, <1>c, <2>1 DEF Graph!Run
  <2>3. req' = [req EXCEPT ![r] = q] /\ req'[r] = q
    BY <1>a, <1>c, <2>1 DEF Graph!End
  <2> QED BY <2>2, <2>3
<1>d. ASSUME NEW q, Alone(r, q), req'[r] = q, q.pc = "done", q.executes = req[r].executes, q.input = req[r].input,
             q.s = st, UNCHANGED <<granted, calls>>, Agreed(r)'
      PROVE  GraphInv'
  <2>1. Staged(r)' /\ Audited(r)' /\ Called(r)'
    BY <1>0, <1>d DEF Staged, Audited, Called, Cleared, Sent
  <2> QED BY <1>d, <2>1, AloneKeepsInv DEF Own
<1>1. CASE Graph!Finish(r)
  <2>1. /\ req[r].pc = "register" /\ UNCHANGED <<creating, granted, calls, ledger>>
        /\ Graph!Record(r, Graph!RequestStatus(r)) /\ Graph!Settle(r, "executed") /\ Graph!End(r, Graph!Answer(r))
    BY <1>1 DEF Graph!Finish, Graph!At
  <2>2. PICK answer \in Graph!Answers : answer = Graph!Answer(r)
    BY DEF Graph!Answer, Graph!Answers
  <2>3. PICK q \in Graph!Run : /\ q.pc = "done" /\ q.executes = req[r].executes /\ q.input = req[r].input
                               /\ q.s = st /\ q.answer = answer
                               /\ req' = [req EXCEPT ![r] = q] /\ req'[r] = q
    BY <1>c, <2>1, <2>2
  <2>4. PICK status \in {"pending_approval", "allowed", "blocked"} : status = Graph!RequestStatus(r)
    BY DEF Graph!RequestStatus
  <2>5. /\ registered' \in [Requests -> {None, "pending_approval", "allowed", "blocked", "provider_unavailable"}]
        /\ registered'[r] \in {status, registered[r]}
        /\ \A d \in Requests : d # r => registered'[d] = registered[d]
    BY <1>a, <2>1, <2>4 DEF Graph!Record
  <2>6. /\ approvals' \in [Requests -> Graph!Unset(Graph!ApprovalStatuses)]
        /\ \A d \in Requests : approvals[d] # None => approvals'[d] # None
        /\ \A d \in Requests : approvals'[d] = "approved" => approvals[d] = "approved"
    BY <1>b, <2>1
  <2>7. Alone(r, q)
    BY <1>0, <1>a, <2>1, <2>3, <2>5, <2>6 DEF Alone, Staged
  <2>8. registered[r] = None
    BY <1>0, <2>1 DEF Agreed
  <2>9. ASSUME req[r].executes = None, st.allowed = TRUE \/ st.allowed = FALSE
        PROVE  /\ answer = IF st.allowed = FALSE THEN "blocked"
                           ELSE IF st.approval_status = "PENDING_APPROVAL" THEN "approval_required" ELSE "response"
               /\ status = IF st.approval_status = "PENDING_APPROVAL" THEN "pending_approval"
                           ELSE IF st.allowed = TRUE THEN "allowed" ELSE "blocked"
    BY <2>2, <2>4, <2>9, GraphNone DEF Graph!Answer, Graph!RequestStatus, Graph!Allowed, Graph!Get
  <2>10. Agreed(r)'
    <3>1. /\ req'[r].pc = "done" /\ req'[r].executes = req[r].executes /\ req'[r].answer = answer
          /\ req'[r].s = st /\ ledger' = ledger /\ calls' = calls /\ registered'[r] \in {status, None}
          /\ approvals[r] # None => approvals'[r] # None
      BY <2>1, <2>3, <2>5, <2>6, <2>8
    <3>2. CASE Blocked(r) /\ ledger[r] = "blocked"
      <4>1. ASSUME req[r].executes = None PROVE status = "blocked" /\ answer = "blocked"
        BY <2>9, <3>2, <4>1 DEF Blocked
      <4> QED BY <3>1, <3>2, <4>1 DEF Agreed, Blocked
    <3>3. CASE Pending(r) /\ ledger[r] = "pending"
      <4>1. ASSUME req[r].executes = None PROVE status = "pending_approval" /\ answer = "approval_required"
        BY <2>9, <3>3, <4>1 DEF Pending
      <4> QED BY <3>1, <3>3, <4>1 DEF Agreed, Pending
    <3>4. CASE Answered(r) /\ ledger[r] = "APPROVED"
      <4>1. ASSUME req[r].executes = None PROVE status = "allowed" /\ answer = "response"
        BY <2>9, <3>4, <4>1 DEF Answered
      <4> QED BY <3>1, <3>4, <4>1 DEF Agreed, Answered
    <3> QED BY <1>0, <2>1, <3>2, <3>3, <3>4 DEF Audited
  <2> QED BY <1>d, <2>1, <2>3, <2>7, <2>10
<1>2. CASE Graph!Fail(r)
  <2>1. /\ req[r].pc \in {"risk", "approval_wait", "audit"} /\ UNCHANGED <<creating, granted, calls, ledger>>
        /\ Graph!Record(r, "provider_unavailable") /\ Graph!Settle(r, "execution_failed")
        /\ Graph!End(r, "provider_unavailable")
    BY <1>2 DEF Graph!Fail, Graph!NodeRaises, Graph!At
  <2>2. PICK q \in Graph!Run : /\ q.pc = "done" /\ q.executes = req[r].executes /\ q.input = req[r].input
                               /\ q.s = st /\ q.answer = "provider_unavailable"
                               /\ req' = [req EXCEPT ![r] = q] /\ req'[r] = q
    BY <1>c, <2>1 DEF Graph!Answers
  <2>3. /\ registered' \in [Requests -> {None, "pending_approval", "allowed", "blocked", "provider_unavailable"}]
        /\ registered'[r] \in {"provider_unavailable", registered[r]}
        /\ \A d \in Requests : d # r => registered'[d] = registered[d]
    BY <1>a, <2>1 DEF Graph!Record
  <2>4. /\ approvals' \in [Requests -> Graph!Unset(Graph!ApprovalStatuses)]
        /\ \A d \in Requests : approvals[d] # None => approvals'[d] # None
        /\ \A d \in Requests : approvals'[d] = "approved" => approvals[d] = "approved"
    BY <1>b, <2>1
  <2>5. Alone(r, q)
    BY <1>0, <1>a, <2>1, <2>2, <2>3, <2>4 DEF Alone, Staged
  <2>6. Agreed(r)'
    BY <1>0, <2>1, <2>2, <2>3 DEF Agreed
  <2> QED BY <1>d, <2>1, <2>2, <2>5, <2>6
<1>3. CASE Graph!Misconfigured(r)
  <2>1. /\ req[r].pc = "provider_router" /\ UNCHANGED <<creating, granted, calls, ledger, registered>>
        /\ Graph!Settle(r, "execution_failed") /\ Graph!End(r, "provider_not_configured")
    BY <1>3 DEF Graph!Misconfigured, Graph!At
  <2>2. PICK q \in Graph!Run : /\ q.pc = "done" /\ q.executes = req[r].executes /\ q.input = req[r].input
                               /\ q.s = st /\ q.answer = "provider_not_configured"
                               /\ req' = [req EXCEPT ![r] = q] /\ req'[r] = q
    BY <1>c, <2>1 DEF Graph!Answers
  <2>3. /\ approvals' \in [Requests -> Graph!Unset(Graph!ApprovalStatuses)]
        /\ \A d \in Requests : approvals[d] # None => approvals'[d] # None
        /\ \A d \in Requests : approvals'[d] = "approved" => approvals[d] = "approved"
    BY <1>b, <2>1
  <2>4. Alone(r, q)
    BY <1>0, <1>a, <2>1, <2>2, <2>3 DEF Alone, Staged
  <2>5. Agreed(r)'
    BY <1>0, <2>1, <2>2 DEF Agreed
  <2> QED BY <1>d, <2>1, <2>2, <2>4, <2>5
<1> QED BY <1>1, <1>2, <1>3

LEMMA ArrivalsKeepInv ==
    ASSUME GraphInv, NEW r \in Requests, Graph!ExecuteChat(r) \/ Graph!ExecuteApproval(r)
    PROVE  GraphInv'
<1> DEFINE st == req[r].s
<1>0. /\ req[r] \in Graph!Run /\ st \in Graph!GraphState
      /\ Staged(r) /\ Audited(r) /\ Agreed(r) /\ Called(r)
  BY OwnState
<1>a. /\ granted \subseteq Requests /\ creating \subseteq Requests /\ calls \subseteq Requests
      /\ ledger \in [Requests -> {None, "pending", "blocked", "APPROVED", "completed"}]
      /\ registered \in [Requests -> {None, "pending_approval", "allowed", "blocked", "provider_unavailable"}]
      /\ approvals \in [Requests -> Graph!Unset(Graph!ApprovalStatuses)]
      /\ Granted /\ req \in [Requests -> Graph!Run]
  BY DEF GraphInv, Graph!TypeOK
<1>1. CASE Graph!ExecuteChat(r)
  <2>1. /\ req[r].pc = "idle" /\ UNCHANGED <<creating, approvals, granted, calls, ledger, registered>>
    BY <1>1 DEF Graph!ExecuteChat, Graph!At, Graph!Quiet
  <2>2. PICK i \in Graph!Inputs : req' = [req EXCEPT ![r].pc = "redact", ![r].input = i]
    BY <1>1 DEF Graph!ExecuteChat
  <2>3. PICK q : q = [req[r] EXCEPT !.pc = "redact", !.input = i]
    OBVIOUS
  <2>4. q \in Graph!Run /\ q.pc = "redact" /\ q.executes = req[r].executes /\ q.s = st
    BY <1>0, <2>3 DEF Graph!Run, Graph!Nodes
  <2>5. req' = [req EXCEPT ![r] = q] /\ req'[r] = q
    BY <1>a, <2>2, <2>3
  <2>6. Staged(r)' /\ Audited(r)' /\ Called(r)'
    BY <1>0, <2>1, <2>4, <2>5 DEF Staged, Audited, Called, Cleared, Sent
  <2>7. Alone(r, q)
    BY <1>0, <1>a, <2>1, <2>4, <2>5 DEF Alone, Granted, Staged
  <2> QED BY <1>0, <2>1, <2>4, <2>5, <2>6, <2>7, WriterKeepsInv
<1>2. CASE Graph!ExecuteApproval(r)
  <2>1. /\ req[r].pc = "idle" /\ UNCHANGED <<creating, granted, calls, ledger, registered>>
    BY <1>2 DEF Graph!ExecuteApproval, Graph!At
  <2>2. PICK a \in Requests, i \in Graph!Inputs :
           /\ approvals[a] = "approved"
           /\ approvals' = [approvals EXCEPT ![a] = "executing"]
           /\ req' = [req EXCEPT ![r].pc = "redact", ![r].executes = a, ![r].input = i,
                                 ![r].s.approval_status = "APPROVED"]
    BY <1>2 DEF Graph!ExecuteApproval
  <2>3. a \in granted /\ a # None
    BY <1>a, <2>2, GraphNone DEF Granted
  <2>4. PICK s : s = [st EXCEPT !.approval_status = "APPROVED"]
    OBVIOUS
  <2>5. s \in Graph!GraphState /\ s.approval_status = "APPROVED"
        /\ s.security_approved = st.security_approved /\ s.security_findings = st.security_findings
    BY <1>0, <2>4 DEF Graph!GraphState, Graph!GraphStatuses, Graph!Unset
  <2>6. PICK q : q = [req[r] EXCEPT !.pc = "redact", !.executes = a, !.input = i, !.s = s]
    OBVIOUS
  <2>7. q \in Graph!Run /\ q.pc = "redact" /\ q.executes = a /\ q.s = s
    BY <1>0, <2>5, <2>6 DEF Graph!Run, Graph!Nodes
  <2>8. req' = [req EXCEPT ![r] = q] /\ req'[r] = q
    <3>1. \A d \in Requests : d # r => req'[d] = req[d]
      BY <1>a, <2>2
    <3>2. req'[r] = q
      BY <1>a, <2>2, <2>4, <2>6
    <3>3. DOMAIN req = Requests
      BY <1>a
    <3>4. DOMAIN req' = DOMAIN req
      BY <2>2
    <3>5. PICK u : u = [req EXCEPT ![r].pc = "redact", ![r].executes = a]
      OBVIOUS
    <3>6. PICK v : v = [u EXCEPT ![r].input = i]
      OBVIOUS
    <3>7. req' = [v EXCEPT ![r].s.approval_status = "APPROVED"]
      BY <2>2, <3>5, <3>6
    <3>8. req' = [d \in DOMAIN req' |-> req'[d]]
      BY <3>7
    <3> QED BY <3>1, <3>2, <3>3, <3>4, <3>8
  <2>9. /\ approvals' \in [Requests -> Graph!Unset(Graph!ApprovalStatuses)]
        /\ \A d \in Requests : approvals[d] # None => approvals'[d] # None
        /\ \A d \in Requests : approvals'[d] = "approved" => approvals[d] = "approved"
    <3>1. "executing" # None /\ "executing" \in Graph!Unset(Graph!ApprovalStatuses)
      BY GraphNone DEF Graph!Unset, Graph!ApprovalStatuses
    <3> QED BY <1>a, <2>2, <3>1
  <2>10. Staged(r)' /\ Audited(r)' /\ Called(r)'
    BY <1>0, <2>1, <2>3, <2>5, <2>7, <2>8 DEF Staged, Audited, Called, Cleared, Sent
  <2>11. Alone(r, q)
    BY <1>0, <1>a, <2>1, <2>3, <2>7, <2>8, <2>9 DEF Alone
  <2> QED BY <1>0, <2>1, <2>7, <2>8, <2>10, <2>11, WriterKeepsInv
<1> QED BY <1>1, <1>2

LEMMA ApprovalsKeepInv ==
    ASSUME GraphInv, NEW r \in Requests, Graph!CreateApproval(r) \/ Graph!HumanDecides(r)
    PROVE  GraphInv'
<1>a. /\ granted \subseteq Requests /\ creating \subseteq Requests
      /\ approvals \in [Requests -> Graph!Unset(Graph!ApprovalStatuses)] /\ Granted
  BY DEF GraphInv, Graph!TypeOK
<1>1. /\ UNCHANGED <<req, calls, ledger, registered>>
      /\ approvals' \in [Requests -> Graph!Unset(Graph!ApprovalStatuses)]
      /\ granted \subseteq granted' /\ granted' \subseteq Requests /\ creating' \subseteq Requests
      /\ \A d \in Requests : approvals[d] # None => approvals'[d] # None
      /\ \A d \in Requests : d \in creating => d \in creating' \/ approvals'[d] # None
      /\ \A d \in Requests : approvals'[d] = "approved" => approvals[d] = "approved" \/ d \in granted'
  <2>0. /\ {"pending", "approved", "rejected"} \subseteq Graph!Unset(Graph!ApprovalStatuses)
        /\ None \notin {"pending", "approved", "rejected"}
    BY GraphNone DEF Graph!Unset, Graph!ApprovalStatuses
  <2>1. CASE Graph!CreateApproval(r)
    BY <1>a, <2>0, <2>1 DEF Graph!CreateApproval
  <2>2. CASE Graph!HumanDecides(r)
    BY <1>a, <2>0, <2>2 DEF Graph!HumanDecides
  <2> QED BY <2>1, <2>2
<1>2. Graph!TypeOK' /\ Granted'
  BY <1>1, <1>a DEF GraphInv, Graph!TypeOK, Granted
<1>3. ASSUME NEW d \in Requests PROVE Own(d)'
  <2>1. Staged(d) /\ Audited(d) /\ Agreed(d) /\ Called(d)
    BY DEF GraphInv, Own
  <2>2. Staged(d)'
    BY <1>1, <2>1 DEF Staged
  <2>3. Audited(d)' /\ Agreed(d)' /\ Called(d)'
    BY <1>1, <2>1 DEF Audited, Blocked, Pending, Answered, Agreed, Called
  <2> QED BY <2>2, <2>3 DEF Own
<1> QED BY <1>2, <1>3 DEF GraphInv

LEMMA CrashKeepsInv == ASSUME GraphInv, Graph!Crash PROVE GraphInv'
<1>1. /\ UNCHANGED <<approvals, granted, calls, ledger, registered>> /\ creating' = {}
      /\ req' = [r \in Requests |-> IF req[r].pc \in {"idle", "done"} THEN req[r] ELSE [req[r] EXCEPT !.pc = "lost"]]
  BY DEF Graph!Crash
<1>2. ASSUME NEW r \in Requests
      PROVE  /\ req'[r] \in Graph!Run /\ req'[r].executes = req[r].executes /\ req'[r].input = req[r].input
             /\ req'[r].s = req[r].s /\ req'[r].answer = req[r].answer
             /\ req'[r].pc = IF req[r].pc \in {"idle", "done"} THEN req[r].pc ELSE "lost"
  <2>1. req[r] \in Graph!Run
    BY OwnState
  <2>2. PICK q : q = [req[r] EXCEPT !.pc = "lost"]
    OBVIOUS
  <2>3. q \in Graph!Run /\ q.executes = req[r].executes /\ q.input = req[r].input /\ q.s = req[r].s
        /\ q.answer = req[r].answer /\ q.pc = "lost"
    BY <2>1, <2>2 DEF Graph!Run
  <2>4. req'[r] = IF req[r].pc \in {"idle", "done"} THEN req[r] ELSE q
    BY <1>1, <2>2
  <2> QED BY <2>1, <2>3, <2>4
<1>3. Graph!TypeOK' /\ Granted'
  <2>1. req' \in [Requests -> Graph!Run]
    BY <1>1, <1>2
  <2> QED BY <1>1, <2>1 DEF GraphInv, Graph!TypeOK, Granted
<1>4. ASSUME NEW r \in Requests PROVE Own(r)'
  <2>1. Staged(r) /\ Audited(r) /\ Agreed(r) /\ Called(r)
    BY OwnState
  <2>2. Staged(r)' /\ Audited(r)'
    BY <1>1, <1>2, <2>1 DEF Staged, Audited, Cleared, Sent
  <2>3. Agreed(r)' /\ Called(r)'
    BY <1>1, <1>2, <2>1 DEF Agreed, Called
  <2> QED BY <2>2, <2>3 DEF Own
<1> QED BY <1>3, <1>4 DEF GraphInv

LEMMA GraphInvHolds == Spec => []GraphInv
<1>1. Graph!Init => GraphInv
  <2> SUFFICES ASSUME Graph!Init PROVE GraphInv
    OBVIOUS
  <2>1. PICK s : s = [k \in Graph!Fields |-> None]
    OBVIOUS
  <2>2. s = [allowed |-> None, risk_level |-> None, approval_status |-> None, decision |-> None, response |-> None,
             security_approved |-> None, security_findings |-> None]
    BY <2>1 DEF Graph!Fields
  <2>3. PICK q : q = [pc |-> "idle", executes |-> None, input |-> Graph!NoInput, s |-> s, answer |-> None]
    OBVIOUS
  <2>4. /\ q \in Graph!Run /\ q.pc = "idle" /\ q.executes = None
        /\ q.s.security_approved = None /\ q.s.security_findings = None /\ q.s.approval_status = None
    BY <2>2, <2>3 DEF Graph!Run, Graph!GraphState, Graph!Unset, Graph!NoInput, Graph!Inputs, Graph!Scans
  <2>5. req = [r \in Requests |-> q]
    BY <2>1, <2>3 DEF Graph!Init
  <2>6. Graph!TypeOK /\ Granted
    BY <2>4, <2>5, GraphNone DEF Graph!Init, Graph!TypeOK, Graph!Unset, Granted
  <2>7. ASSUME NEW r \in Requests PROVE Own(r)
    BY <2>4, <2>5 DEF Graph!Init, Own, Staged, Audited, Agreed, Called, Cleared, Sent
  <2> QED BY <2>6, <2>7 DEF GraphInv
<1>2. GraphInv /\ [Graph!Next]_Graph!vars => GraphInv'
  <2> SUFFICES ASSUME GraphInv, [Graph!Next]_Graph!vars PROVE GraphInv'
    OBVIOUS
  <2>1. CASE UNCHANGED Graph!vars
    <3>1. /\ req' = req /\ creating' = creating /\ approvals' = approvals /\ granted' = granted
          /\ calls' = calls /\ ledger' = ledger /\ registered' = registered
      BY <2>1 DEF Graph!vars
    <3>2. ASSUME NEW r \in Requests, Own(r) PROVE Own(r)'
      <4>1. Staged(r)'
        BY <3>1, <3>2 DEF Own, Staged, Cleared, Sent
      <4>2. Audited(r)'
        BY <3>1, <3>2 DEF Own, Audited, Blocked, Pending, Answered
      <4>3. Agreed(r)' /\ Called(r)'
        BY <3>1, <3>2 DEF Own, Agreed, Called
      <4> QED BY <4>1, <4>2, <4>3 DEF Own
    <3>3. Graph!TypeOK' /\ Granted'
      BY <3>1 DEF GraphInv, Graph!TypeOK, Granted
    <3> QED BY <3>2, <3>3 DEF GraphInv
  <2>2. CASE Graph!Crash
    BY <2>2, CrashKeepsInv
  <2>3. ASSUME NEW r \in Requests, Graph!Step(r) PROVE GraphInv'
    BY <2>3, EarlyNodesKeepInv, LateNodesKeepInv, WritersKeepInv, EndingsKeepInv DEF Graph!Step
  <2> QED BY <2>1, <2>2, <2>3, ArrivalsKeepInv, ApprovalsKeepInv DEF Graph!Next
<1> QED BY <1>1, <1>2, GraphMoves, PTL DEF Graph!Spec

(***************************************************************************)
(* What goes to the model was cleared: no policy blocks it, and a message  *)
(* of high risk goes only for an approval that a human has granted, by     *)
(* whichever way through the graph (policy_node.py, approval_node.py 20-60,*)
(* llm_node.py 109-150).                                                   *)
(***************************************************************************)
THEOREM ClearanceHolds == Spec => []CallsAreCleared
<1>1. GraphInv => CallsAreCleared
  <2> SUFFICES ASSUME GraphInv, NEW r \in calls
               PROVE  /\ req[r].input.policy # "BLOCK"
                      /\ req[r].input.risk = "HIGH" => req[r].executes \in granted
    BY DEF CallsAreCleared, Graph!CallsAreCleared
  <2>1. r \in Requests
    BY DEF GraphInv, Graph!TypeOK
  <2> QED BY <2>1, OwnState DEF Called, Staged
<1> QED BY <1>1, GraphInvHolds, PTL

(***************************************************************************)
(* The client's answer, the ledger's row and the request's row tell the    *)
(* same story of a chat, whatever fails on the way and whatever other      *)
(* requests do to its approval (gateway_service.py 90-152).                *)
(***************************************************************************)
THEOREM AgreementHolds == Spec => []RecordsAgree
<1>1. GraphInv => RecordsAgree
  <2> SUFFICES ASSUME GraphInv, NEW r \in Requests, registered[r] # None, req[r].executes = None
               PROVE  CASE registered[r] = "allowed" ->
                               /\ r \in calls /\ ledger[r] = "APPROVED"
                               /\ req[r].answer = "response" /\ req[r].s.response = "checked"
                        [] registered[r] = "blocked" ->
                               r \notin calls /\ ledger[r] = "blocked" /\ req[r].answer = "blocked"
                        [] registered[r] = "pending_approval" ->
                               /\ r \notin calls /\ ledger[r] = "pending" /\ approvals[r] # None
                               /\ req[r].answer = "approval_required"
                        [] registered[r] = "provider_unavailable" ->
                               req[r].answer = "provider_unavailable"
    BY DEF RecordsAgree, Graph!RecordsAgree
  <2> QED BY OwnState DEF Agreed
<1> QED BY <1>1, GraphInvHolds, PTL

(***************************************************************************)
(* Remediation.                                                            *)
(***************************************************************************)

\* What an approval is in once an execution has taken it.
Used == {"executing", "executed", "execution_failed"}
Approved == {"execute_work", "execute_run", "execute_commit", "execute_mark"}
Executing == {"execute_check", "execute_plan"} \cup Approved

\* A call that executes has an approval that was granted and taken, and from the check of the
\* plan on its plan is the approval's; an approval's call does nothing else.
Tracked(c) ==
    /\ approval[c] # None => /\ call[c].pc \in {"request_bind", "done", "lost"}
                             /\ plan[approval[c].plan] # None
    /\ call[c].pc \in {"idle", "scan_work", "scan_run", "request_bind"} => call[c].approval = None
    /\ call[c].approval # None => /\ call[c].approval \in plansGranted
                                  /\ approval[call[c].approval] # None
                                  /\ approval[call[c].approval].status \in Used
    /\ call[c].pc \in Executing => call[c].approval # None
    /\ call[c].pc \in Approved => approval[call[c].approval].plan = call[c].plan
    /\ c \in applied => /\ call[c].pc \in {"execute_commit", "execute_mark", "done", "lost"}
                        /\ call[c].approval # None
                        /\ approval[call[c].approval].plan = call[c].plan
    /\ call[c].pc \in {"scan_run", "execute_run", "execute_commit"} => worker[c] \in Fixing!Worker
    /\ call[c].pc = "request_bind" => call[c].plan # None /\ plan[call[c].plan] # None

OneEach == \A c, d \in Calls : c # d /\ call[c].approval # None => call[c].approval # call[d].approval
ApprovedByHuman == \A a \in Calls : approval[a] # None /\ approval[a].status = "approved" => a \in plansGranted
FixingInv == Fixing!TypeOK /\ OneEach /\ ApprovedByHuman /\ \A c \in Calls : Tracked(c)

LEMMA FixingMoves == Spec => Fixing!Spec
<1>1. Init => Fixing!Init
  BY DEF Init
<1>2. [Next]_vars => [Fixing!Next]_Fixing!vars
  BY DEF Next, GraphStep, FixingStep, DecidingStep, vars, fixingVars, Fixing!vars
<1> QED BY <1>1, <1>2, PTL DEF Spec, Fixing!Spec

LEMMA FixingNone == /\ None \notin Calls /\ None \notin Plans /\ None \notin Findings
                    /\ None \notin Fixing!Plan /\ None \notin Fixing!Approval
BY PartsAssumption DEF PartsAssumption, Fixing!NoneAssumption

\* What a step leaves of the rows: none disappears, an approval keeps its plan, and one that
\* was taken stays taken.
RowsStay(c) ==
    /\ \A p \in Plans : plan[p] # None => plan'[p] # None
    /\ \A a \in Calls : worker[a] \in Fixing!Worker => worker'[a] \in Fixing!Worker
    /\ \A a \in Calls : approval[a] # None => /\ approval'[a] # None /\ approval'[a].plan = approval[a].plan
                                              /\ approval[a].status \in Used => approval'[a].status \in Used
    /\ \A a \in Calls : a # c /\ approval'[a] # None => approval[a] # None
    /\ plansGranted \subseteq plansGranted' /\ plansGranted' \subseteq Calls
    /\ \A a \in Calls : approval'[a] # None /\ approval'[a].status = "approved" =>
          a \in plansGranted' \/ (approval[a] # None /\ approval[a].status = "approved")
    /\ finding' \in [Findings -> {None, "open", "remediated"}]
    /\ plan' \in [Plans -> Fixing!Plan \cup {None}]
    /\ approval' \in [Calls -> Fixing!Approval \cup {None}]
    /\ worker' \in [Calls -> Fixing!Worker \cup {None}]

CallMoves(c, k) == /\ call' = [call EXCEPT ![c] = k] /\ k \in Fixing!Call
                   /\ applied' \subseteq applied \cup {c} /\ applied \subseteq applied'

LEMMA CallKeepsInv ==
    ASSUME FixingInv, NEW c \in Calls, NEW k, CallMoves(c, k), RowsStay(c), Tracked(c)',
           k.approval = call[c].approval \/ \A d \in Calls : call[d].approval # k.approval
    PROVE  FixingInv'
<1>0. /\ call \in [Calls -> Fixing!Call] /\ applied \subseteq Calls
      /\ approval \in [Calls -> Fixing!Approval \cup {None}]
  BY DEF FixingInv, Fixing!TypeOK
<1>1. /\ call' \in [Calls -> Fixing!Call] /\ call'[c] = k /\ \A d \in Calls : d # c => call'[d] = call[d]
  BY <1>0 DEF CallMoves
<1>2. Fixing!TypeOK'
  BY <1>0, <1>1 DEF Fixing!TypeOK, CallMoves, RowsStay
<1>3. OneEach'
  <2> SUFFICES ASSUME NEW d \in Calls, NEW e \in Calls, d # e, call'[d].approval # None
               PROVE  call'[d].approval # call'[e].approval
    BY DEF OneEach
  <2>1. \A f, g \in Calls : f # g /\ call[f].approval # None => call[f].approval # call[g].approval
    BY DEF FixingInv, OneEach
  <2> QED BY <1>1, <2>1
<1>4. ApprovedByHuman'
  BY DEF ApprovedByHuman, FixingInv, RowsStay
<1>5. ASSUME NEW d \in Calls, d # c PROVE Tracked(d)'
  <2>1. Tracked(d) /\ call'[d] = call[d] /\ (d \in applied' <=> d \in applied)
    BY <1>1, <1>5 DEF FixingInv, CallMoves
  <2>2. call[d].approval \in Calls \cup {None} /\ call[d].plan \in Plans \cup {None}
    BY <1>0 DEF Fixing!Call
  <2>3. approval[d] # None => approval[d].plan \in Plans
    BY <1>0 DEF Fixing!Approval
  <2>4. approval'[d] # None => approval[d] # None /\ approval'[d].plan = approval[d].plan
    BY <1>5 DEF RowsStay
  <2> QED
    <3>1. approval'[d] # None => /\ call[d].pc \in {"request_bind", "done", "lost"}
                                 /\ plan'[approval'[d].plan] # None
      BY <2>1, <2>3, <2>4 DEF Tracked, RowsStay
    <3>2. call[d].approval # None => /\ call[d].approval \in plansGranted'
                                     /\ approval'[call[d].approval] # None
                                     /\ approval'[call[d].approval].status \in Used
                                     /\ approval'[call[d].approval].plan = approval[call[d].approval].plan
      BY <2>1, <2>2 DEF Tracked, RowsStay
    <3>3. /\ call[d].pc \in {"scan_run", "execute_run", "execute_commit"} => worker'[d] \in Fixing!Worker
          /\ call[d].pc = "request_bind" => call[d].plan # None /\ plan'[call[d].plan] # None
      BY <2>1, <2>2 DEF Tracked, RowsStay
    <3> QED BY <2>1, <3>1, <3>2, <3>3 DEF Tracked, Approved, Executing
<1> QED BY <1>2, <1>3, <1>4, <1>5 DEF FixingInv

\* A step that no call takes.
LEMMA RowsKeepInv ==
    ASSUME FixingInv, NEW c, c \notin Calls, RowsStay(c), UNCHANGED <<call, applied>> PROVE FixingInv'
<1>0. /\ call \in [Calls -> Fixing!Call] /\ applied \subseteq Calls
      /\ approval \in [Calls -> Fixing!Approval \cup {None}]
  BY DEF FixingInv, Fixing!TypeOK
<1>1. Fixing!TypeOK' /\ OneEach' /\ ApprovedByHuman'
  BY <1>0 DEF Fixing!TypeOK, FixingInv, RowsStay, OneEach, ApprovedByHuman
<1>2. ASSUME NEW d \in Calls PROVE Tracked(d)'
  <2>1. Tracked(d)
    BY DEF FixingInv
  <2>2. call[d].approval \in Calls \cup {None} /\ call[d].plan \in Plans \cup {None}
    BY <1>0 DEF Fixing!Call
  <2>3. approval[d] # None => approval[d].plan \in Plans
    BY <1>0 DEF Fixing!Approval
  <2>4. approval'[d] # None => approval[d] # None /\ approval'[d].plan = approval[d].plan
    BY DEF RowsStay
  <2> QED
    <3>1. approval'[d] # None => /\ call[d].pc \in {"request_bind", "done", "lost"}
                                 /\ plan'[approval'[d].plan] # None
      BY <2>1, <2>3, <2>4 DEF Tracked, RowsStay
    <3>2. call[d].approval # None => /\ call[d].approval \in plansGranted'
                                     /\ approval'[call[d].approval] # None
                                     /\ approval'[call[d].approval].status \in Used
                                     /\ approval'[call[d].approval].plan = approval[call[d].approval].plan
      BY <2>1, <2>2 DEF Tracked, RowsStay
    <3>3. /\ call[d].pc \in {"scan_run", "execute_run", "execute_commit"} => worker'[d] \in Fixing!Worker
          /\ call[d].pc = "request_bind" => call[d].plan # None /\ plan'[call[d].plan] # None
      BY <2>1, <2>2 DEF Tracked, RowsStay
    <3> QED BY <2>1, <3>1, <3>2, <3>3 DEF Tracked, Approved, Executing
<1> QED BY <1>1, <1>2 DEF FixingInv

LEMMA CallState ==
    ASSUME FixingInv, NEW c \in Calls
    PROVE  /\ call[c] \in Fixing!Call /\ Tracked(c) /\ call \in [Calls -> Fixing!Call] /\ applied \subseteq Calls
           /\ approval \in [Calls -> Fixing!Approval \cup {None}]
           /\ plan \in [Plans -> Fixing!Plan \cup {None}]
           /\ finding \in [Findings -> {None, "open", "remediated"}]
           /\ worker \in [Calls -> Fixing!Worker \cup {None}]
           /\ plansGranted \subseteq Calls /\ ApprovedByHuman /\ OneEach
BY DEF FixingInv, Fixing!TypeOK

\* A call goes on, and at most its worker and the findings change.
LEMMA QuietCallKeepsInv ==
    ASSUME FixingInv, NEW c \in Calls, NEW pc \in {"scan_work", "scan_run", "execute_plan", "execute_run", "done"},
           Fixing!GoTo(c, pc), UNCHANGED <<plan, approval, plansGranted, applied>>,
           worker' \in [Calls -> Fixing!Worker \cup {None}], finding' \in [Findings -> {None, "open", "remediated"}],
           \A a \in Calls : worker[a] \in Fixing!Worker => worker'[a] \in Fixing!Worker,
           pc \in {"scan_run", "execute_run"} => worker'[c] \in Fixing!Worker,
           \/ pc \in {"scan_work", "scan_run"} /\ call[c].pc \in {"idle", "scan_work"}
           \/ pc = "execute_plan" /\ call[c].pc = "execute_check"
           \/ pc = "execute_run" /\ call[c].pc = "execute_work"
           \/ pc = "done" /\ call[c].pc \in {"idle", "scan_work", "scan_run"}
    PROVE  FixingInv'
<1>0. /\ call[c] \in Fixing!Call /\ Tracked(c) /\ call \in [Calls -> Fixing!Call] /\ applied \subseteq Calls
      /\ approval \in [Calls -> Fixing!Approval \cup {None}] /\ plan \in [Plans -> Fixing!Plan \cup {None}]
      /\ plansGranted \subseteq Calls
  BY CallState
<1>1. PICK k : k = [call[c] EXCEPT !.pc = pc]
  OBVIOUS
<1>2. k \in Fixing!Call /\ k.pc = pc /\ k.approval = call[c].approval /\ k.plan = call[c].plan
  BY <1>0, <1>1 DEF Fixing!Call
<1>3. call' = [call EXCEPT ![c] = k] /\ call'[c] = k
  BY <1>0, <1>1 DEF Fixing!GoTo
<1>4. CallMoves(c, k)
  BY <1>0, <1>2, <1>3 DEF CallMoves
<1>5. RowsStay(c)
  BY <1>0 DEF RowsStay
<1>6. Tracked(c)'
  BY <1>0, <1>2, <1>3 DEF Tracked, Approved, Executing
<1> QED BY <1>2, <1>4, <1>5, <1>6, CallKeepsInv

LEMMA ScansKeepInv ==
    ASSUME FixingInv, NEW c \in Calls, Fixing!ScanCheck(c) \/ Fixing!ScanWork(c) \/ Fixing!ScanRun(c)
    PROVE  FixingInv'
<1>0. /\ worker \in [Calls -> Fixing!Worker \cup {None}] /\ finding \in [Findings -> {None, "open", "remediated"}]
  BY CallState
<1>1. CASE Fixing!ScanCheck(c)
  BY <1>0, <1>1, QuietCallKeepsInv DEF Fixing!ScanCheck, Fixing!At
<1>2. CASE Fixing!ScanWork(c)
  <2>1. CASE Fixing!CreateWorker(c, "scan") /\ Fixing!GoTo(c, "scan_run")
    <3>1. /\ worker' \in [Calls -> Fixing!Worker \cup {None}] /\ worker'[c] \in Fixing!Worker
          /\ \A a \in Calls : worker[a] \in Fixing!Worker => worker'[a] \in Fixing!Worker
      BY <1>0, <2>1 DEF Fixing!CreateWorker, Fixing!Worker
    <3> QED BY <1>0, <1>2, <2>1, <3>1, QuietCallKeepsInv DEF Fixing!ScanWork, Fixing!At
  <2>2. CASE Fixing!GoTo(c, "done") /\ UNCHANGED worker
    BY <1>0, <1>2, <2>2, QuietCallKeepsInv DEF Fixing!ScanWork, Fixing!At
  <2> QED BY <1>2, <2>1, <2>2 DEF Fixing!ScanWork
<1>3. CASE Fixing!ScanRun(c)
  <2>1. /\ worker' \in [Calls -> Fixing!Worker \cup {None}] /\ finding' \in [Findings -> {None, "open", "remediated"}]
        /\ \A a \in Calls : worker[a] \in Fixing!Worker => worker'[a] \in Fixing!Worker
    <3>1. CASE UNCHANGED <<finding, worker>>
      BY <1>0, <3>1
    <3>2. CASE worker' = Fixing!Completed(c)
               /\ \E F \in SUBSET {f \in Findings : finding[f] = None} :
                     finding' = [f \in Findings |-> IF f \in F THEN "open" ELSE finding[f]]
      <4>1. finding' \in [Findings -> {None, "open", "remediated"}]
        BY <1>0, <3>2
      <4>2. worker[c] \in Fixing!Worker
        BY <1>3, CallState DEF Fixing!ScanRun, Fixing!At, Tracked
      <4>3. PICK w : w = [worker[c] EXCEPT !.status = "completed", !.revoked = TRUE]
        OBVIOUS
      <4>4. w \in Fixing!Worker
        BY <4>2, <4>3 DEF Fixing!Worker
      <4>5. worker' = [worker EXCEPT ![c] = w]
        BY <1>0, <3>2, <4>3 DEF Fixing!Completed
      <4> QED BY <1>0, <4>1, <4>4, <4>5
    <3> QED BY <1>3, <3>1, <3>2 DEF Fixing!ScanRun
  <2> QED BY <1>3, <2>1, QuietCallKeepsInv DEF Fixing!ScanRun, Fixing!At
<1> QED BY <1>1, <1>2, <1>3

LEMMA PlansKeepInv ==
    ASSUME FixingInv,
           \/ \E p \in Plans : Fixing!CreatePlan(p)
           \/ \E a \in Calls : Fixing!HumanDecides(a) \/ Fixing!Expire(a)
    PROVE  FixingInv'
<1>0. /\ approval \in [Calls -> Fixing!Approval \cup {None}] /\ plan \in [Plans -> Fixing!Plan \cup {None}]
      /\ worker \in [Calls -> Fixing!Worker \cup {None}] /\ finding \in [Findings -> {None, "open", "remediated"}]
      /\ plansGranted \subseteq Calls /\ ApprovedByHuman
  BY DEF FixingInv, Fixing!TypeOK
<1>1. ASSUME NEW p \in Plans, Fixing!CreatePlan(p) PROVE FixingInv'
  <2>1. PICK f \in Findings : plan' = [plan EXCEPT ![p] = [of |-> f, status |-> "planned", approval |-> None]]
    BY <1>1 DEF Fixing!CreatePlan
  <2>2. PICK n : n = [of |-> f, status |-> "planned", approval |-> None]
    OBVIOUS
  <2>3. n \in Fixing!Plan /\ n # None
    BY <2>2, FixingNone DEF Fixing!Plan
  <2>4. plan' \in [Plans -> Fixing!Plan \cup {None}] /\ \A q \in Plans : plan[q] # None => plan'[q] # None
    BY <1>0, <2>1, <2>2, <2>3
  <2>5. RowsStay(None)
    BY <1>0, <1>1, <2>4 DEF RowsStay, Fixing!CreatePlan
  <2> QED BY <1>1, <2>5, FixingNone, RowsKeepInv DEF Fixing!CreatePlan
<1>2. ASSUME NEW a \in Calls, Fixing!HumanDecides(a) PROVE FixingInv'
  <2>1. PICK status \in {"approved", "rejected"} : /\ approval' = [approval EXCEPT ![a].status = status]
                                                   /\ status = "approved" => a \in plansGranted'
                                                   /\ plansGranted' \in {plansGranted, plansGranted \cup {a}}
    BY <1>2 DEF Fixing!HumanDecides
  <2>2. approval[a] \in Fixing!Approval /\ approval[a].status = "pending"
    BY <1>0, <1>2 DEF Fixing!HumanDecides
  <2>3. PICK n : n = [approval[a] EXCEPT !.status = status]
    OBVIOUS
  <2>4. n \in Fixing!Approval /\ n # None /\ n.plan = approval[a].plan /\ n.status = status
    BY <2>2, <2>3, FixingNone DEF Fixing!Approval
  <2>5. approval' = [approval EXCEPT ![a] = n]
    BY <1>0, <2>1, <2>3
  <2>6. /\ approval' \in [Calls -> Fixing!Approval \cup {None}] /\ approval'[a] = n
        /\ \A b \in Calls : b # a => approval'[b] = approval[b]
    BY <1>0, <2>4, <2>5
  <2>7. RowsStay(None)
    BY <1>0, <1>2, <2>1, <2>2, <2>4, <2>6, FixingNone DEF RowsStay, Fixing!HumanDecides, Used
  <2> QED BY <1>2, <2>7, FixingNone, RowsKeepInv DEF Fixing!HumanDecides
<1>3. ASSUME NEW a \in Calls, Fixing!Expire(a) PROVE FixingInv'
  <2>1. worker[a] \in Fixing!Worker /\ worker' = [worker EXCEPT ![a].live = FALSE]
    BY <1>0, <1>3 DEF Fixing!Expire
  <2>2. PICK n : n = [worker[a] EXCEPT !.live = FALSE]
    OBVIOUS
  <2>3. n \in Fixing!Worker
    BY <2>1, <2>2 DEF Fixing!Worker
  <2>4. worker' = [worker EXCEPT ![a] = n]
    BY <1>0, <2>1, <2>2
  <2>5. RowsStay(None)
    <3>1. worker' \in [Calls -> Fixing!Worker \cup {None}]
      BY <1>0, <2>3, <2>4
    <3>2. \A b \in Calls : worker[b] \in Fixing!Worker => worker'[b] \in Fixing!Worker
      BY <1>0, <2>3, <2>4
    <3>3. /\ plan' = plan /\ approval' = approval /\ finding' = finding /\ plansGranted' = plansGranted
      BY <1>3 DEF Fixing!Expire
    <3> QED BY <1>0, <3>1, <3>2, <3>3 DEF RowsStay
  <2> QED BY <1>3, <2>5, FixingNone, RowsKeepInv DEF Fixing!Expire
<1> QED BY <1>1, <1>2, <1>3

LEMMA RequestsKeepInv ==
    ASSUME FixingInv, NEW c \in Calls, Fixing!RequestApproval(c) \/ Fixing!BindApproval(c)
    PROVE  FixingInv'
<1>0. /\ call[c] \in Fixing!Call /\ Tracked(c) /\ call \in [Calls -> Fixing!Call] /\ applied \subseteq Calls
      /\ approval \in [Calls -> Fixing!Approval \cup {None}] /\ plan \in [Plans -> Fixing!Plan \cup {None}]
      /\ worker \in [Calls -> Fixing!Worker \cup {None}] /\ finding \in [Findings -> {None, "open", "remediated"}]
      /\ plansGranted \subseteq Calls
  BY CallState
<1>1. CASE Fixing!RequestApproval(c)
  <2>1. PICK p \in Plans :
           /\ plan[p] # None
           /\ approval' = [approval EXCEPT ![c] = [plan |-> p, status |-> "pending"]]
           /\ call' = [call EXCEPT ![c].pc = "request_bind", ![c].plan = p]
    BY <1>1 DEF Fixing!RequestApproval
  <2>2. call[c].pc = "idle" /\ UNCHANGED <<finding, plan, worker, plansGranted, applied>>
    BY <1>1 DEF Fixing!RequestApproval, Fixing!At
  <2>3. PICK n : n = [plan |-> p, status |-> "pending"]
    OBVIOUS
  <2>4. n \in Fixing!Approval /\ n # None /\ n.plan = p /\ n.status = "pending"
    BY <2>3, FixingNone DEF Fixing!Approval
  <2>5. approval[c] = None
    BY <1>0, <2>2 DEF Tracked
  <2>6. /\ approval' \in [Calls -> Fixing!Approval \cup {None}] /\ approval'[c] = n
        /\ \A b \in Calls : b # c => approval'[b] = approval[b]
    BY <1>0, <2>1, <2>3, <2>4
  <2>7. PICK k : k = [call[c] EXCEPT !.pc = "request_bind", !.plan = p]
    OBVIOUS
  <2>8. k \in Fixing!Call /\ k.pc = "request_bind" /\ k.plan = p /\ k.approval = call[c].approval
    BY <1>0, <2>7 DEF Fixing!Call
  <2>9. call' = [call EXCEPT ![c] = k] /\ call'[c] = k
    BY <1>0, <2>1, <2>7
  <2>10. CallMoves(c, k)
    BY <1>0, <2>2, <2>8, <2>9 DEF CallMoves
  <2>11. RowsStay(c)
    BY <1>0, <2>2, <2>4, <2>5, <2>6 DEF RowsStay
  <2>12. k.approval = None /\ p # None
    BY <1>0, <2>2, <2>8, FixingNone DEF Tracked
  <2>13. Tracked(c)'
    BY <1>0, <2>1, <2>2, <2>4, <2>6, <2>8, <2>9, <2>12 DEF Tracked, Approved, Executing
  <2> QED BY <2>8, <2>10, <2>11, <2>13, CallKeepsInv
<1>2. CASE Fixing!BindApproval(c)
  <2>1. /\ call[c].pc = "request_bind" /\ UNCHANGED <<finding, approval, worker, plansGranted, applied>>
        /\ Fixing!GoTo(c, "done")
        /\ plan' = [plan EXCEPT ![call[c].plan].approval = c, ![call[c].plan].status = "pending_approval"]
    BY <1>2 DEF Fixing!BindApproval, Fixing!At
  <2>2. PICK p \in Plans : p = call[c].plan /\ plan[p] # None /\ plan[p] \in Fixing!Plan
    BY <1>0, <2>1 DEF Tracked, Fixing!Call
  <2>3. PICK n : n = [plan[p] EXCEPT !.approval = c, !.status = "pending_approval"]
    OBVIOUS
  <2>4. n \in Fixing!Plan /\ n # None
    BY <2>2, <2>3, FixingNone DEF Fixing!Plan
  <2>5. plan' = [plan EXCEPT ![p] = n]
    BY <1>0, <2>1, <2>2, <2>3
  <2>6. plan' \in [Plans -> Fixing!Plan \cup {None}] /\ \A q \in Plans : plan[q] # None => plan'[q] # None
    BY <1>0, <2>4, <2>5
  <2>7. PICK k : k = [call[c] EXCEPT !.pc = "done"]
    OBVIOUS
  <2>8. k \in Fixing!Call /\ k.pc = "done" /\ k.plan = call[c].plan /\ k.approval = call[c].approval
    BY <1>0, <2>7 DEF Fixing!Call
  <2>9. call' = [call EXCEPT ![c] = k] /\ call'[c] = k
    BY <1>0, <2>1, <2>7 DEF Fixing!GoTo
  <2>10. CallMoves(c, k)
    BY <1>0, <2>1, <2>8, <2>9 DEF CallMoves
  <2>11. RowsStay(c)
    BY <1>0, <2>1, <2>6 DEF RowsStay
  <2>12. approval[c] # None => approval[c].plan \in Plans
    BY <1>0 DEF Fixing!Approval
  <2>13. Tracked(c)'
    BY <1>0, <2>1, <2>6, <2>8, <2>9, <2>12 DEF Tracked, Approved, Executing
  <2> QED BY <2>8, <2>10, <2>11, <2>13, CallKeepsInv
<1> QED BY <1>1, <1>2

\* An approval that an execution holds moves on, with the execution.
LEMMA OutcomeKeepsInv ==
    ASSUME FixingInv, NEW c \in Calls, NEW pc \in {"execute_check", "done"},
           NEW a \in Calls, NEW status \in Used, NEW k \in Fixing!Call,
           approval[a] # None, approval' = [approval EXCEPT ![a].status = status],
           call' = [call EXCEPT ![c] = k], k.pc = pc, k.approval = a, k.plan = call[c].plan,
           UNCHANGED <<finding, plan, worker, plansGranted, applied>>,
           \/ pc = "done" /\ call[c].approval = a /\ call[c].pc \in Executing
           \/ pc = "execute_check" /\ call[c].pc = "idle" /\ approval[a].status = "approved"
    PROVE  FixingInv'
<1>0. /\ call[c] \in Fixing!Call /\ Tracked(c) /\ call \in [Calls -> Fixing!Call] /\ applied \subseteq Calls
      /\ approval \in [Calls -> Fixing!Approval \cup {None}] /\ plan \in [Plans -> Fixing!Plan \cup {None}]
      /\ worker \in [Calls -> Fixing!Worker \cup {None}] /\ finding \in [Findings -> {None, "open", "remediated"}]
      /\ plansGranted \subseteq Calls /\ ApprovedByHuman
  BY CallState
<1>1. PICK n : n = [approval[a] EXCEPT !.status = status]
  OBVIOUS
<1>2. n \in Fixing!Approval /\ n # None /\ n.plan = approval[a].plan /\ n.status = status
  BY <1>0, <1>1, FixingNone DEF Fixing!Approval, Used
<1>3. approval' = [approval EXCEPT ![a] = n]
  BY <1>0, <1>1
<1>4. /\ approval' \in [Calls -> Fixing!Approval \cup {None}] /\ approval'[a] = n
      /\ \A b \in Calls : b # a => approval'[b] = approval[b]
  BY <1>0, <1>2, <1>3
<1>5. CallMoves(c, k) /\ call'[c] = k
  BY <1>0 DEF CallMoves
<1>6. RowsStay(c)
  BY <1>0, <1>2, <1>4 DEF RowsStay, Used
<1>7. a \in plansGranted
  BY <1>0 DEF Tracked, ApprovedByHuman
<1>8. c # a \/ pc = "done"
  BY <1>0 DEF Tracked
<1>9. c \in applied => call[c].pc \in {"execute_commit", "execute_mark"} /\ approval[a].plan = call[c].plan
  BY <1>0 DEF Tracked, Executing, Approved
<1>10. approval'[c] # None => approval[c] # None /\ approval'[c].plan = approval[c].plan
  BY <1>2, <1>4
<1>11. Tracked(c)'
  <2>0. a # None /\ UNCHANGED <<plan, worker, applied, plansGranted>>
    BY FixingNone
  <2>1. CASE pc = "done"
    <3>1. call[c].pc \in Executing /\ call[c].approval = a
      BY <2>1
    <3>2. approval'[c] = None
      <4>1. approval[c] = None
        BY <1>0, <3>1 DEF Tracked, Executing, Approved
      <4> QED BY <1>10, <4>1
    <3> QED BY <1>2, <1>4, <1>5, <1>7, <1>9, <2>0, <2>1, <3>2 DEF Tracked, Approved, Executing
  <2>2. CASE pc = "execute_check"
    <3>1. call[c].pc = "idle" /\ c \notin applied /\ approval[c] = None
      BY <1>0, <2>2 DEF Tracked
    <3>2. approval'[c] = None
      BY <1>10, <3>1
    <3> QED BY <1>2, <1>4, <1>5, <1>7, <2>0, <2>2, <3>1, <3>2 DEF Tracked, Approved, Executing
  <2> QED BY <2>1, <2>2
<1>12. k.approval = call[c].approval \/ \A d \in Calls : call[d].approval # k.approval
  <2> SUFFICES ASSUME approval[a].status = "approved", NEW d \in Calls, call[d].approval = a PROVE FALSE
    OBVIOUS
  <2>1. Tracked(d) /\ a # None
    BY FixingNone DEF FixingInv
  <2> QED BY <2>1 DEF Tracked, Used
<1> QED BY <1>5, <1>6, <1>11, <1>12, CallKeepsInv

LEMMA ExecutionsKeepInv ==
    ASSUME FixingInv, NEW c \in Calls,
           \/ Fixing!Execute(c) \/ Fixing!ExecuteCheck(c) \/ Fixing!ReadPlan(c) \/ Fixing!ExecuteWork(c)
           \/ Fixing!ExecuteRun(c) \/ Fixing!ExecuteCommit(c) \/ Fixing!ExecuteMark(c)
    PROVE  FixingInv'
<1>0. /\ call[c] \in Fixing!Call /\ Tracked(c) /\ call \in [Calls -> Fixing!Call] /\ applied \subseteq Calls
      /\ approval \in [Calls -> Fixing!Approval \cup {None}] /\ plan \in [Plans -> Fixing!Plan \cup {None}]
      /\ worker \in [Calls -> Fixing!Worker \cup {None}] /\ finding \in [Findings -> {None, "open", "remediated"}]
      /\ plansGranted \subseteq Calls
  BY CallState
<1> DEFINE a == call[c].approval
<1>a. call[c].pc \in Executing => /\ a \in Calls /\ a \in plansGranted
                                  /\ approval[a] # None /\ approval[a] \in Fixing!Approval
                                  /\ approval[a].plan \in Plans
                                  /\ plan[approval[a].plan] # None /\ plan[approval[a].plan] \in Fixing!Plan
                                  /\ approval[c] = None
  <2> SUFFICES ASSUME call[c].pc \in Executing
               PROVE  /\ a \in Calls /\ a \in plansGranted
                      /\ approval[a] # None /\ approval[a] \in Fixing!Approval
                      /\ approval[a].plan \in Plans
                      /\ plan[approval[a].plan] # None /\ plan[approval[a].plan] \in Fixing!Plan
                      /\ approval[c] = None
    OBVIOUS
  <2>1. a # None /\ a \in Calls
    BY <1>0 DEF Tracked, Fixing!Call
  <2>2. a \in plansGranted /\ approval[a] # None /\ Tracked(a) /\ approval[c] = None
    BY <1>0, <2>1 DEF Tracked, FixingInv, Executing, Approved
  <2>3. approval[a] \in Fixing!Approval /\ approval[a].plan \in Plans
    BY <1>0, <2>1, <2>2 DEF Fixing!Approval
  <2>4. plan[approval[a].plan] # None
    BY <2>2 DEF Tracked
  <2> QED BY <1>0, <2>1, <2>2, <2>3, <2>4
<1>b. ASSUME call[c].pc \in Executing, Fixing!ExecutionFails(c),
             UNCHANGED <<finding, plan, worker, plansGranted, applied>>
      PROVE  FixingInv'
  <2>1. PICK k : k = [call[c] EXCEPT !.pc = "done"]
    OBVIOUS
  <2>2. k \in Fixing!Call /\ k.pc = "done" /\ k.approval = a /\ k.plan = call[c].plan
    BY <1>0, <2>1 DEF Fixing!Call
  <2>3. call' = [call EXCEPT ![c] = k]
    BY <1>0, <1>b, <2>1 DEF Fixing!ExecutionFails, Fixing!GoTo
  <2>4. approval' = [approval EXCEPT ![a].status = "execution_failed"]
    BY <1>b DEF Fixing!ExecutionFails
  <2>5. "execution_failed" \in Used
    BY DEF Used
  <2> QED BY <1>a, <1>b, <2>2, <2>3, <2>4, <2>5, OutcomeKeepsInv
<1>1. CASE Fixing!Execute(c)
  <2>1. PICK b \in Calls :
           /\ approval[b] # None /\ approval[b].status = "approved"
           /\ approval' = [approval EXCEPT ![b].status = "executing"]
           /\ call' = [call EXCEPT ![c].pc = "execute_check", ![c].approval = b]
    BY <1>1 DEF Fixing!Execute
  <2>2. call[c].pc = "idle" /\ UNCHANGED <<finding, plan, worker, plansGranted, applied>>
    BY <1>1 DEF Fixing!Execute, Fixing!At
  <2>3. PICK k : k = [call[c] EXCEPT !.pc = "execute_check", !.approval = b]
    OBVIOUS
  <2>4. k \in Fixing!Call /\ k.pc = "execute_check" /\ k.approval = b /\ k.plan = call[c].plan
    BY <1>0, <2>3 DEF Fixing!Call
  <2>5. call' = [call EXCEPT ![c] = k]
    BY <1>0, <2>1, <2>3
  <2>6. "executing" \in Used
    BY DEF Used
  <2> QED BY <2>1, <2>2, <2>4, <2>5, <2>6, OutcomeKeepsInv
<1>2. CASE Fixing!ExecuteCheck(c)
  <2>1. call[c].pc = "execute_check" /\ UNCHANGED <<finding, plan, worker, plansGranted, applied>>
    BY <1>2 DEF Fixing!ExecuteCheck, Fixing!At
  <2>2. CASE Fixing!ExecutionFails(c)
    BY <1>b, <2>1, <2>2 DEF Executing
  <2>3. CASE Fixing!GoTo(c, "execute_plan") /\ UNCHANGED approval
    BY <1>0, <2>1, <2>3, QuietCallKeepsInv
  <2> QED BY <1>2, <2>2, <2>3 DEF Fixing!ExecuteCheck
<1>3. CASE Fixing!ReadPlan(c)
  <2>1. call[c].pc = "execute_plan" /\ UNCHANGED <<finding, plan, worker, plansGranted, applied>>
    BY <1>3 DEF Fixing!ReadPlan, Fixing!At
  <2>2. CASE Fixing!ExecutionFails(c)
    BY <1>b, <2>1, <2>2 DEF Executing
  <2>3. CASE call' = [call EXCEPT ![c].pc = "execute_work", ![c].plan = approval[a].plan] /\ UNCHANGED approval
    <3>1. PICK k : k = [call[c] EXCEPT !.pc = "execute_work", !.plan = approval[a].plan]
      OBVIOUS
    <3>2. k \in Fixing!Call /\ k.pc = "execute_work" /\ k.approval = a /\ k.plan = approval[a].plan
      BY <1>0, <1>a, <2>1, <3>1 DEF Fixing!Call, Executing
    <3>3. call' = [call EXCEPT ![c] = k] /\ call'[c] = k
      BY <1>0, <2>3, <3>1
    <3>4. CallMoves(c, k) /\ RowsStay(c)
      BY <1>0, <2>1, <2>3, <3>2, <3>3 DEF CallMoves, RowsStay
    <3>5. Tracked(c)'
      BY <1>0, <1>a, <2>1, <2>3, <3>2, <3>3 DEF Tracked, Approved, Executing
    <3> QED BY <3>2, <3>4, <3>5, CallKeepsInv
  <2> QED BY <1>3, <2>2, <2>3 DEF Fixing!ReadPlan
<1>4. CASE Fixing!ExecuteWork(c)
  <2>1. call[c].pc = "execute_work" /\ UNCHANGED <<finding, plan, plansGranted, applied>>
    BY <1>4 DEF Fixing!ExecuteWork, Fixing!At
  <2>2. CASE Fixing!ExecutionFails(c) /\ UNCHANGED worker
    BY <1>b, <2>1, <2>2 DEF Executing, Approved
  <2>3. CASE Fixing!CreateWorker(c, "execution") /\ Fixing!GoTo(c, "execute_run") /\ UNCHANGED approval
    <3>1. /\ worker' \in [Calls -> Fixing!Worker \cup {None}] /\ worker'[c] \in Fixing!Worker
          /\ \A b \in Calls : worker[b] \in Fixing!Worker => worker'[b] \in Fixing!Worker
      BY <1>0, <2>3 DEF Fixing!CreateWorker, Fixing!Worker
    <3> QED BY <1>0, <2>1, <2>3, <3>1, QuietCallKeepsInv
  <2> QED BY <1>4, <2>2, <2>3 DEF Fixing!ExecuteWork
<1>5. CASE Fixing!ExecuteRun(c)
  <2>1. call[c].pc = "execute_run" /\ UNCHANGED <<finding, plan, worker, plansGranted>>
    BY <1>5 DEF Fixing!ExecuteRun, Fixing!At
  <2>2. CASE Fixing!ExecutionFails(c) /\ UNCHANGED applied
    BY <1>b, <2>1, <2>2 DEF Executing, Approved
  <2>3. CASE applied' = applied \cup {c} /\ Fixing!GoTo(c, "execute_commit") /\ UNCHANGED approval
    <3>1. PICK k : k = [call[c] EXCEPT !.pc = "execute_commit"]
      OBVIOUS
    <3>2. k \in Fixing!Call /\ k.pc = "execute_commit" /\ k.approval = a /\ k.plan = call[c].plan
      BY <1>0, <3>1 DEF Fixing!Call
    <3>3. call' = [call EXCEPT ![c] = k] /\ call'[c] = k
      BY <1>0, <2>3, <3>1 DEF Fixing!GoTo
    <3>4. CallMoves(c, k) /\ RowsStay(c)
      BY <1>0, <2>1, <2>3, <3>2, <3>3 DEF CallMoves, RowsStay
    <3>5. Tracked(c)'
      BY <1>0, <1>a, <2>1, <2>3, <3>2, <3>3 DEF Tracked, Approved, Executing
    <3> QED BY <3>2, <3>4, <3>5, CallKeepsInv
  <2> QED BY <1>5, <2>2, <2>3 DEF Fixing!ExecuteRun
<1>6. CASE Fixing!ExecuteCommit(c)
  <2>1. /\ call[c].pc = "execute_commit" /\ UNCHANGED <<approval, plansGranted, applied>>
        /\ worker' = Fixing!Completed(c) /\ Fixing!GoTo(c, "execute_mark")
        /\ plan' = [plan EXCEPT ![call[c].plan].status = "executed"]
        /\ finding' = [finding EXCEPT ![plan[call[c].plan].of] = "remediated"]
    BY <1>6 DEF Fixing!ExecuteCommit, Fixing!At
  <2>2. PICK p \in Plans : p = call[c].plan /\ p = approval[a].plan /\ plan[p] # None /\ plan[p] \in Fixing!Plan
    BY <1>0, <1>a, <2>1 DEF Tracked, Executing, Approved
  <2>3. PICK n : n = [plan[p] EXCEPT !.status = "executed"]
    OBVIOUS
  <2>4. n \in Fixing!Plan /\ n # None
    BY <2>2, <2>3, FixingNone DEF Fixing!Plan
  <2>5. plan' = [plan EXCEPT ![p] = n]
    BY <1>0, <2>1, <2>2, <2>3
  <2>6. plan' \in [Plans -> Fixing!Plan \cup {None}] /\ \A q \in Plans : plan[q] # None => plan'[q] # None
    BY <1>0, <2>4, <2>5
  <2>7. worker[c] \in Fixing!Worker
    BY <1>0, <2>1 DEF Tracked
  <2>8. PICK w : w = [worker[c] EXCEPT !.status = "completed", !.revoked = TRUE]
    OBVIOUS
  <2>9. w \in Fixing!Worker
    BY <2>7, <2>8 DEF Fixing!Worker
  <2>10. worker' = [worker EXCEPT ![c] = w]
    BY <1>0, <2>1, <2>8 DEF Fixing!Completed
  <2>11. finding' \in [Findings -> {None, "open", "remediated"}]
    BY <1>0, <2>1
  <2>12. PICK k : k = [call[c] EXCEPT !.pc = "execute_mark"]
    OBVIOUS
  <2>13. k \in Fixing!Call /\ k.pc = "execute_mark" /\ k.approval = a /\ k.plan = call[c].plan
    BY <1>0, <2>12 DEF Fixing!Call
  <2>14. call' = [call EXCEPT ![c] = k] /\ call'[c] = k
    BY <1>0, <2>1, <2>12 DEF Fixing!GoTo
  <2>15. RowsStay(c)
    <3>1. /\ \A p1 \in Plans : plan[p1] # None => plan'[p1] # None
          /\ plan' \in [Plans -> Fixing!Plan \cup {None}]
      BY <2>6
    <3>2. /\ \A b \in Calls : worker[b] \in Fixing!Worker => worker'[b] \in Fixing!Worker
          /\ worker' \in [Calls -> Fixing!Worker \cup {None}]
      BY <1>0, <2>9, <2>10
    <3>3. approval' = approval /\ plansGranted' = plansGranted
      BY <2>1
    <3> QED BY <1>0, <2>11, <3>1, <3>2, <3>3 DEF RowsStay
  <2>16. CallMoves(c, k)
    BY <1>0, <2>1, <2>13, <2>14 DEF CallMoves
  <2>17. Tracked(c)'
    BY <1>0, <1>a, <2>1, <2>13, <2>14 DEF Tracked, Approved, Executing
  <2> QED BY <2>13, <2>15, <2>16, <2>17, CallKeepsInv
<1>7. CASE Fixing!ExecuteMark(c)
  <2>1. /\ call[c].pc = "execute_mark" /\ UNCHANGED <<finding, plan, worker, plansGranted, applied>>
        /\ approval' = [approval EXCEPT ![a].status = "executed"] /\ Fixing!GoTo(c, "done")
    BY <1>7 DEF Fixing!ExecuteMark, Fixing!At
  <2>2. PICK k : k = [call[c] EXCEPT !.pc = "done"]
    OBVIOUS
  <2>3. k \in Fixing!Call /\ k.pc = "done" /\ k.approval = a /\ k.plan = call[c].plan
    BY <1>0, <2>2 DEF Fixing!Call
  <2>4. call' = [call EXCEPT ![c] = k]
    BY <1>0, <2>1, <2>2 DEF Fixing!GoTo
  <2>5. "executed" \in Used /\ call[c].pc \in Executing
    BY <2>1 DEF Used, Executing, Approved
  <2> QED BY <1>a, <2>1, <2>3, <2>4, <2>5, OutcomeKeepsInv
<1> QED BY <1>1, <1>2, <1>3, <1>4, <1>5, <1>6, <1>7

LEMMA FixingCrashKeepsInv == ASSUME FixingInv, Fixing!Crash PROVE FixingInv'
<1>1. /\ UNCHANGED <<finding, plan, approval, worker, plansGranted, applied>>
      /\ call' = [c \in Calls |-> IF call[c].pc \in Fixing!Ended THEN call[c] ELSE [call[c] EXCEPT !.pc = "lost"]]
  BY DEF Fixing!Crash
<1>2. ASSUME NEW c \in Calls
      PROVE  /\ call'[c] \in Fixing!Call /\ call'[c].approval = call[c].approval /\ call'[c].plan = call[c].plan
             /\ call'[c].pc = IF call[c].pc \in Fixing!Ended THEN call[c].pc ELSE "lost"
  <2>1. call[c] \in Fixing!Call
    BY CallState
  <2>2. PICK k : k = [call[c] EXCEPT !.pc = "lost"]
    OBVIOUS
  <2>3. k \in Fixing!Call /\ k.approval = call[c].approval /\ k.plan = call[c].plan /\ k.pc = "lost"
    BY <2>1, <2>2 DEF Fixing!Call
  <2>4. call'[c] = IF call[c].pc \in Fixing!Ended THEN call[c] ELSE k
    BY <1>1, <2>2
  <2> QED BY <2>1, <2>3, <2>4
<1>3. Fixing!TypeOK' /\ ApprovedByHuman' /\ OneEach'
  <2>1. call' \in [Calls -> Fixing!Call]
    BY <1>1, <1>2
  <2> QED BY <1>1, <1>2, <2>1 DEF FixingInv, Fixing!TypeOK, ApprovedByHuman, OneEach
<1>4. ASSUME NEW c \in Calls PROVE Tracked(c)'
  <2>1. Tracked(c)
    BY CallState
  <2> QED BY <1>1, <1>2, <2>1 DEF Tracked, Approved, Executing, Fixing!Ended
<1> QED BY <1>3, <1>4 DEF FixingInv

LEMMA FixingInvHolds == Spec => []FixingInv
<1>1. Fixing!Init => FixingInv
  <2> SUFFICES ASSUME Fixing!Init PROVE FixingInv
    OBVIOUS
  <2>1. PICK k : k = [pc |-> "idle", plan |-> None, approval |-> None]
    OBVIOUS
  <2>2. k \in Fixing!Call /\ k.pc = "idle" /\ k.approval = None
    BY <2>1 DEF Fixing!Call
  <2>3. call = [c \in Calls |-> k]
    BY <2>1 DEF Fixing!Init
  <2> QED BY <2>2, <2>3
          DEF Fixing!Init, FixingInv, Fixing!TypeOK, OneEach, ApprovedByHuman, Tracked, Approved, Executing
<1>2. FixingInv /\ [Fixing!Next]_Fixing!vars => FixingInv'
  <2> SUFFICES ASSUME FixingInv, [Fixing!Next]_Fixing!vars PROVE FixingInv'
    OBVIOUS
  <2>1. CASE UNCHANGED Fixing!vars
    BY <2>1 DEF Fixing!vars, FixingInv, Fixing!TypeOK, OneEach, ApprovedByHuman, Tracked
  <2>2. CASE Fixing!Crash
    BY <2>2, FixingCrashKeepsInv
  <2>3. ASSUME NEW c \in Calls, Fixing!Start(c) \/ Fixing!Step(c) PROVE FixingInv'
    BY <2>3, ScansKeepInv, RequestsKeepInv, ExecutionsKeepInv DEF Fixing!Start, Fixing!Step
  <2> QED BY <2>1, <2>2, <2>3, PlansKeepInv DEF Fixing!Next
<1> QED BY <1>1, <1>2, FixingMoves, PTL DEF Fixing!Spec

(***************************************************************************)
(* A resource is changed under an approval that a human granted for its    *)
(* plan, and once for each approval: /execute takes an approval before its *)
(* adapter runs, and none is taken twice (main.py 1596-1632;               *)
(* remediation_runtime.py 562-643).                                        *)
(***************************************************************************)
THEOREM ApplicationHolds == Spec => []AppliedIsGranted
<1>1. FixingInv => AppliedIsGranted
  <2> SUFFICES ASSUME FixingInv, NEW c \in applied
               PROVE  /\ call[c].approval \in plansGranted
                      /\ approval[call[c].approval].plan = call[c].plan
                      /\ \A d \in applied \ {c} : call[d].approval # call[c].approval
    BY DEF AppliedIsGranted, Fixing!AppliedIsGranted
  <2>1. applied \subseteq Calls
    BY DEF FixingInv, Fixing!TypeOK
  <2>2. Tracked(c) /\ OneEach
    BY <2>1, CallState
  <2> QED BY <2>1, <2>2 DEF Tracked, OneEach
<1> QED BY <1>1, FixingInvHolds, PTL

(***************************************************************************)
(* The decision on a text.                                                 *)
(***************************************************************************)

LEMMA Least ==
    ASSUME NEW S, S \subseteq Nat, S # {}
    PROVE  \E n \in S : \A m \in S : n <= m
<1>1. PICK n \in S : \A m \in S : ~ (<<m, n>> \in OpToRel(<, Nat))
  BY NatLessThanWellFounded, WFMin, Zenon
<1>2. \A m \in S : ~(m < n)
  BY <1>1 DEF OpToRel
<1> QED BY <1>2

Typing == policies \in Seq(Inputs) /\ Len(policies) <= MaxPolicies

LEMMA DecidingMoves == Spec => Deciding!Spec
<1>1. Init => Deciding!Init
  BY DEF Init
<1>2. [Next]_vars => [Deciding!Next]_policies
  BY DEF Next, GraphStep, FixingStep, DecidingStep, vars
<1> QED BY <1>1, <1>2, PTL DEF Spec, Deciding!Spec

LEMMA SubSeqLen ==
    ASSUME NEW s \in Seq(Inputs), NEW i \in DOMAIN s
    PROVE  Deciding!RemoveAt(s, i) \in Seq(Inputs) /\ Len(Deciding!RemoveAt(s, i)) <= Len(s)
BY DEF Deciding!RemoveAt

LEMMA DecidingStepKeepsType ==
    ASSUME Typing, [Deciding!Next]_policies PROVE Typing'
<1>1. CASE UNCHANGED policies
  BY <1>1 DEF Typing
<1>2. CASE Deciding!Add
  <2>1. PICK p \in Inputs : Len(policies) < MaxPolicies /\ policies' = Append(policies, p)
    BY <1>2 DEF Deciding!Add
  <2>2. MaxPolicies \in Nat /\ Len(policies) \in Nat
    BY PartsAssumption DEF PartsAssumption, Deciding!InputsAssumption, Typing
  <2>3. policies' \in Seq(Inputs) /\ Len(policies') = Len(policies) + 1
    BY <2>1 DEF Typing
  <2> QED BY <2>1, <2>2, <2>3 DEF Typing
<1>3. CASE Deciding!Withdraw
  <2>1. PICK i \in DOMAIN policies : policies' = Deciding!RemoveAt(policies, i)
    BY <1>3 DEF Deciding!Withdraw
  <2>2. policies' \in Seq(Inputs) /\ Len(policies') <= Len(policies)
    BY <2>1, SubSeqLen DEF Typing
  <2>3. Len(policies) \in Nat /\ Len(policies') \in Nat /\ MaxPolicies \in Nat
    BY <2>2, PartsAssumption DEF PartsAssumption, Deciding!InputsAssumption, Typing
  <2> QED BY <2>2, <2>3 DEF Typing
<1> QED BY <1>1, <1>2, <1>3 DEF Deciding!Next

LEMMA TypingBounds == Typing => Deciding!TypeOK
BY DEF Typing, Deciding!TypeOK, Deciding!BoundedSeq, Deciding!SeqOf

LEMMA DecidingInputs == /\ Inputs \subseteq Deciding!Policy /\ None \notin Deciding!Actions
BY PartsAssumption DEF PartsAssumption, Deciding!InputsAssumption

\* The policy that decides a category is the first of it ...
LEMMA MatchingIs ==
    ASSUME NEW ps \in Seq(Inputs), NEW c
    PROVE  \/ Deciding!Matching(c, ps) = 0 /\ Deciding!Governing(c, ps) = {}
           \/ /\ Deciding!Matching(c, ps) \in Deciding!Governing(c, ps)
              /\ Deciding!Matching(c, ps) \in DOMAIN ps /\ Deciding!Matching(c, ps) # 0
              /\ \A j \in Deciding!Governing(c, ps) : Deciding!Matching(c, ps) <= j
<1>1. PICK G : G = Deciding!Governing(c, ps)
  OBVIOUS
<1>2. G \subseteq DOMAIN ps /\ G \subseteq Nat /\ 0 \notin G
  BY <1>1 DEF Deciding!Governing
<1>3. Deciding!Matching(c, ps) = IF G = {} THEN 0 ELSE CHOOSE i \in G : \A j \in G : i <= j
  BY <1>1 DEF Deciding!Matching
<1>4. G # {} => \E i \in G : \A j \in G : i <= j
  BY <1>2, Least
<1> QED BY <1>1, <1>2, <1>3, <1>4

\* ... and goes on deciding it when one is added.
LEMMA MatchingStays ==
    ASSUME NEW ps \in Seq(Inputs), NEW p \in Inputs, NEW c, Deciding!Matching(c, ps) # 0
    PROVE  Deciding!Matching(c, Append(ps, p)) = Deciding!Matching(c, ps)
<1>1. PICK qs : qs = Append(ps, p)
  OBVIOUS
<1>a. qs \in Seq(Inputs)
  BY <1>1
<1>2. /\ DOMAIN ps = 1..Len(ps) /\ Len(ps) \in Nat /\ DOMAIN qs = 1..(Len(ps) + 1)
      /\ \A i \in DOMAIN ps : qs[i] = ps[i]
  BY <1>1
<1>3. PICK G, H : G = Deciding!Governing(c, ps) /\ H = Deciding!Governing(c, qs)
  OBVIOUS
<1>4. G \subseteq H /\ H \subseteq G \cup {Len(ps) + 1} /\ G \subseteq 1..Len(ps)
  BY <1>2, <1>3 DEF Deciding!Governing
<1>5. PICK m, n : m = Deciding!Matching(c, ps) /\ n = Deciding!Matching(c, qs)
  OBVIOUS
<1>6. m \in G /\ \A j \in G : m <= j
  BY <1>3, <1>5, MatchingIs
<1>7. n \in H /\ \A j \in H : n <= j
  BY <1>a, <1>3, <1>4, <1>5, <1>6, MatchingIs
<1>8. n <= m /\ m \in 1..Len(ps) /\ n \in 1..(Len(ps) + 1)
  BY <1>2, <1>4, <1>6, <1>7
<1>9. n \in G
  BY <1>2, <1>4, <1>7, <1>8
<1>10. m <= n
  BY <1>6, <1>9
<1> QED BY <1>1, <1>2, <1>5, <1>8, <1>10

LEMMA ActionsAreActions ==
    ASSUME NEW p \in Deciding!Policy, NEW c
    PROVE  /\ Deciding!ActionFor(c, p) \in Deciding!Actions \cup {None}
           /\ p.action \in Deciding!Actions \cup {None}
<1>1. PICK S \in SUBSET (Deciding!Detected \union Deciding!Topics) : p.actions \in [S -> Deciding!Actions \cup {None}]
  BY DEF Deciding!Policy
<1>2. p.action \in Deciding!Actions \cup {None}
  BY DEF Deciding!Policy
<1> QED BY <1>1, <1>2 DEF Deciding!ActionFor

LEMMA GivenIs == ASSUME NEW a \in Deciding!Actions \cup {None}, NEW b \in Deciding!Actions
                 PROVE  Deciding!Given(a, b) \in Deciding!Actions
BY DEF Deciding!Given

LEMMA FindingsAct ==
    ASSUME NEW ps \in Seq(Inputs), NEW t \in Deciding!Text, NEW f \in Deciding!AllFindings(t, ps)
    PROVE  f.action \in Deciding!Actions
<1>0. /\ {"ALLOW", "REDACT", "REQUIRE_APPROVAL", "BLOCK"} \subseteq Deciding!Actions
      /\ \A i \in DOMAIN ps : ps[i] \in Deciding!Policy
  BY DecidingInputs DEF Deciding!Actions
<1>1. CASE f \in Deciding!DetectorFindings(t, ps)
  <2>1. PICK c \in t.found : LET i == Deciding!Matching(c, ps)
                                 given == IF i = 0 THEN None ELSE Deciding!ActionFor(c, ps[i])
                             IN f = Deciding!Finding(i, c, Deciding!Given(given, IF c = "SECRETS" THEN "BLOCK" ELSE "REDACT"))
    BY <1>1 DEF Deciding!DetectorFindings
  <2>2. PICK i : i = Deciding!Matching(c, ps)
    OBVIOUS
  <2>3. PICK given : given = IF i = 0 THEN None ELSE Deciding!ActionFor(c, ps[i])
    OBVIOUS
  <2>4. given \in Deciding!Actions \cup {None}
    BY <1>0, <2>2, <2>3, MatchingIs, ActionsAreActions
  <2>5. f.action = Deciding!Given(given, IF c = "SECRETS" THEN "BLOCK" ELSE "REDACT")
    BY <2>1, <2>2, <2>3 DEF Deciding!Finding
  <2> QED BY <1>0, <2>4, <2>5, GivenIs
<1>2. CASE f \in Deciding!BaselineFindings(t)
  BY <1>0, <1>2 DEF Deciding!BaselineFindings, Deciding!Finding
<1>3. CASE f \in Deciding!TopicFindings(t, ps)
  <2>0. PICK i \in DOMAIN ps : \E d : f = Deciding!TopicFinding(i, d, ps)
    BY <1>3, MatchingIs DEF Deciding!TopicFindings
  <2>1. PICK c : f = Deciding!TopicFinding(i, c, ps)
    BY <2>0
  <2>2. ps[i] \in Deciding!Policy
    BY <1>0
  <2>3. f.action = Deciding!Given(Deciding!ActionFor(c, ps[i]), Deciding!Given(ps[i].action, "REQUIRE_APPROVAL"))
    BY <2>1 DEF Deciding!TopicFinding, Deciding!Finding
  <2>4. Deciding!Given(ps[i].action, "REQUIRE_APPROVAL") \in Deciding!Actions
    BY <1>0, <2>2, ActionsAreActions, GivenIs
  <2> QED BY <2>2, <2>3, <2>4, ActionsAreActions, GivenIs
<1>4. CASE f \in Deciding!KeywordFindings(t, ps)
  <2>1. PICK i \in DOMAIN ps : f = Deciding!Finding(i, "keyword", Deciding!Given(ps[i].action, "BLOCK"))
    BY <1>4 DEF Deciding!KeywordFindings
  <2>2. ps[i] \in Deciding!Policy /\ f.action = Deciding!Given(ps[i].action, "BLOCK")
    BY <1>0, <2>1 DEF Deciding!Finding
  <2> QED BY <1>0, <2>2, ActionsAreActions, GivenIs
<1> QED BY <1>1, <1>2, <1>3, <1>4 DEF Deciding!AllFindings

\* evaluate takes the strongest of the actions, which are four.
LEMMA Strongest ==
    ASSUME NEW F \in SUBSET Deciding!Actions, "ALLOW" \in F, NEW final,
           final = CHOOSE a \in F : \A b \in F : Deciding!Priority[b] <= Deciding!Priority[a]
    PROVE  final \in F /\ ("BLOCK" \in F => final = "BLOCK")
<1>1. /\ Deciding!Priority["ALLOW"] = 0 /\ Deciding!Priority["REDACT"] = 1
      /\ Deciding!Priority["REQUIRE_APPROVAL"] = 2 /\ Deciding!Priority["BLOCK"] = 3
  BY DEF Deciding!Priority, Deciding!Actions
<1>2. \A a \in F : a \in {"ALLOW", "REDACT", "REQUIRE_APPROVAL", "BLOCK"}
  BY DEF Deciding!Actions
<1>3. \E a \in F : \A b \in F : Deciding!Priority[b] <= Deciding!Priority[a]
  <2>1. CASE "BLOCK" \in F
    BY <1>1, <1>2, <2>1
  <2>2. CASE "BLOCK" \notin F /\ "REQUIRE_APPROVAL" \in F
    BY <1>1, <1>2, <2>2
  <2>3. CASE "BLOCK" \notin F /\ "REQUIRE_APPROVAL" \notin F /\ "REDACT" \in F
    BY <1>1, <1>2, <2>3
  <2>4. CASE F = {"ALLOW"}
    BY <1>1, <2>4
  <2> QED BY <1>2, <2>1, <2>2, <2>3, <2>4
<1>4. final \in F /\ \A b \in F : Deciding!Priority[b] <= Deciding!Priority[final]
  BY <1>3
<1>5. "BLOCK" \in F => 3 <= Deciding!Priority[final]
  BY <1>1, <1>4
<1> QED BY <1>1, <1>2, <1>4, <1>5

LEMMA EvaluateIs ==
    ASSUME NEW ps \in Seq(Inputs), NEW t \in Deciding!Text
    PROVE  /\ Deciding!Evaluate(t, ps) \in Deciding!Actions
           /\ t.phrase => Deciding!Evaluate(t, ps) = "BLOCK"
           /\ t.found # {} => Deciding!Evaluate(t, ps) # "ALLOW"
<1>1. PICK F : F = {"ALLOW"} \union {f.action : f \in Deciding!AllFindings(t, ps)}
  OBVIOUS
<1>2. F \in SUBSET Deciding!Actions /\ "ALLOW" \in F
  BY <1>1, FindingsAct DEF Deciding!Actions
<1>3. PICK final : final = CHOOSE a \in F : \A b \in F : Deciding!Priority[b] <= Deciding!Priority[a]
  OBVIOUS
<1>4. final \in F /\ ("BLOCK" \in F => final = "BLOCK")
  BY <1>2, <1>3, Strongest
<1>5. t.phrase => "BLOCK" \in F
  <2> SUFFICES ASSUME t.phrase PROVE "BLOCK" \in F
    OBVIOUS
  <2>1. Deciding!Finding(0, "PROMPT_INJECTION", "BLOCK") \in Deciding!AllFindings(t, ps)
    BY DEF Deciding!AllFindings, Deciding!BaselineFindings
  <2>2. Deciding!Finding(0, "PROMPT_INJECTION", "BLOCK").action = "BLOCK"
    BY DEF Deciding!Finding
  <2> QED BY <1>1, <2>1, <2>2
<1>6. Deciding!Evaluate(t, ps) = IF final = "ALLOW" /\ t.found # {} THEN "REDACT" ELSE final
  BY <1>1, <1>3 DEF Deciding!Evaluate
<1>7. "REDACT" \in Deciding!Actions
  BY DEF Deciding!Actions
<1> QED BY <1>2, <1>4, <1>5, <1>6, <1>7

\* A policy that is added is the last: the ones before it stay where they are.
LEMMA AppendKeeps ==
    ASSUME NEW ps \in Seq(Inputs), NEW p \in Inputs, NEW i \in DOMAIN ps
    PROVE  i \in DOMAIN Append(ps, p) /\ Append(ps, p)[i] = ps[i]
OBVIOUS

LEMMA DetectorFindingsStay ==
    ASSUME NEW ps \in Seq(Inputs), NEW p \in Inputs, NEW t,
           NEW f \in Deciding!DetectorFindings(t, ps), f.policy # 0
    PROVE  f \in Deciding!DetectorFindings(t, Append(ps, p))
<1>1. PICK qs : qs = Append(ps, p)
  OBVIOUS
<1>2. PICK c \in t.found : LET i == Deciding!Matching(c, ps)
                               given == IF i = 0 THEN None ELSE Deciding!ActionFor(c, ps[i])
                           IN f = Deciding!Finding(i, c, Deciding!Given(given, IF c = "SECRETS" THEN "BLOCK" ELSE "REDACT"))
  BY DEF Deciding!DetectorFindings
<1>3. PICK i : i = Deciding!Matching(c, ps)
  OBVIOUS
<1>4. f.policy = i
  BY <1>2, <1>3 DEF Deciding!Finding
<1>5. i # 0 /\ i \in DOMAIN ps
  BY <1>3, <1>4, MatchingIs
<1>6. Deciding!Matching(c, qs) = i /\ qs[i] = ps[i]
  BY <1>1, <1>3, <1>5, MatchingStays, AppendKeeps
<1>7. LET k == Deciding!Matching(c, qs)
          given == IF k = 0 THEN None ELSE Deciding!ActionFor(c, qs[k])
      IN f = Deciding!Finding(k, c, Deciding!Given(given, IF c = "SECRETS" THEN "BLOCK" ELSE "REDACT"))
  BY <1>2, <1>3, <1>6
<1>8. f \in Deciding!DetectorFindings(t, qs)
  BY <1>7 DEF Deciding!DetectorFindings
<1> QED BY <1>1, <1>8

LEMMA TopicFindingsStay ==
    ASSUME NEW ps \in Seq(Inputs), NEW p \in Inputs, NEW t,
           NEW f \in Deciding!TopicFindings(t, ps)
    PROVE  f \in Deciding!TopicFindings(t, Append(ps, p))
<1>1. PICK qs : qs = Append(ps, p)
  OBVIOUS
<1>2. ASSUME NEW i \in DOMAIN ps, NEW c
      PROVE  Deciding!TopicFinding(i, c, qs) = Deciding!TopicFinding(i, c, ps)
  BY <1>1, AppendKeeps DEF Deciding!TopicFinding
<1>3. CASE \E c \in {d \in t.topics : Deciding!Matching(d, ps) # 0} :
              f = Deciding!TopicFinding(Deciding!Matching(c, ps), c, ps)
  <2>1. PICK c \in t.topics : /\ Deciding!Matching(c, ps) # 0
                              /\ f = Deciding!TopicFinding(Deciding!Matching(c, ps), c, ps)
    BY <1>3
  <2>2. Deciding!Matching(c, qs) = Deciding!Matching(c, ps) /\ Deciding!Matching(c, ps) \in DOMAIN ps
    BY <1>1, <2>1, MatchingIs, MatchingStays
  <2>3. f = Deciding!TopicFinding(Deciding!Matching(c, qs), c, qs)
    BY <1>2, <2>1, <2>2
  <2> QED BY <1>1, <2>1, <2>2, <2>3 DEF Deciding!TopicFindings
<1>4. CASE \E i \in {j \in DOMAIN ps :
                       \/ ps[j].blocked \intersect t.words # {}
                       \/ ps[j].allowed # {} /\ ps[j].allowed \intersect t.words = {}} :
              f = Deciding!TopicFinding(i, Deciding!Custom, ps)
  <2>1. PICK i \in DOMAIN ps : /\ \/ ps[i].blocked \intersect t.words # {}
                                  \/ ps[i].allowed # {} /\ ps[i].allowed \intersect t.words = {}
                               /\ f = Deciding!TopicFinding(i, Deciding!Custom, ps)
    BY <1>4
  <2>2. i \in DOMAIN qs /\ qs[i] = ps[i] /\ f = Deciding!TopicFinding(i, Deciding!Custom, qs)
    BY <1>1, <1>2, <2>1, AppendKeeps
  <2> QED BY <1>1, <2>1, <2>2 DEF Deciding!TopicFindings
<1> QED BY <1>3, <1>4 DEF Deciding!TopicFindings

LEMMA KeywordFindingsStay ==
    ASSUME NEW ps \in Seq(Inputs), NEW p \in Inputs, NEW t,
           NEW f \in Deciding!KeywordFindings(t, ps)
    PROVE  f \in Deciding!KeywordFindings(t, Append(ps, p))
<1>1. PICK qs : qs = Append(ps, p)
  OBVIOUS
<1>2. PICK i \in DOMAIN ps : /\ ps[i].keywords \intersect t.words # {}
                             /\ f = Deciding!Finding(i, "keyword", Deciding!Given(ps[i].action, "BLOCK"))
  BY DEF Deciding!KeywordFindings
<1>3. i \in DOMAIN qs /\ qs[i] = ps[i]
  BY <1>1, AppendKeeps
<1>4. f \in Deciding!KeywordFindings(t, qs)
  BY <1>2, <1>3 DEF Deciding!KeywordFindings
<1> QED BY <1>1, <1>4

LEMMA OfPoliciesStay ==
    ASSUME NEW ps \in Seq(Inputs), NEW p \in Inputs, NEW t
    PROVE  Deciding!OfPolicies(t, ps) \subseteq Deciding!OfPolicies(t, Append(ps, p))
<1> SUFFICES ASSUME NEW f \in Deciding!AllFindings(t, ps), f.policy # 0
             PROVE  f \in Deciding!AllFindings(t, Append(ps, p))
  BY DEF Deciding!OfPolicies
<1> QED BY DetectorFindingsStay, TopicFindingsStay, KeywordFindingsStay DEF Deciding!AllFindings

\* What OPA answers, with the body of the request and without.
LEMMA QueryIs ==
    ASSUME NEW t \in Deciding!Text, NEW up \in BOOLEAN, NEW required \in BOOLEAN
    PROVE  /\ t.phrase => Deciding!Query(t, TRUE, up) \in {"BLOCK", None}
           /\ t.found # {} => Deciding!Query(t, TRUE, up) # "ALLOW"
           /\ ~up => Deciding!AskOpa(t, up, required) \in {"BLOCK", None}
<1>1. None \notin {"ALLOW", "REDACT", "REQUIRE_APPROVAL", "BLOCK"}
  BY DecidingInputs DEF Deciding!Actions
<1>2. t.found \subseteq {"SECRETS", "PII"}
  BY DEF Deciding!Text, Deciding!Detected
<1>3. t.phrase => Deciding!OpaDecides(t, TRUE) = "BLOCK"
  BY DEF Deciding!OpaDecides, Deciding!OpaBlocks
<1>4. t.found # {} => Deciding!OpaDecides(t, TRUE) # "ALLOW"
  BY <1>2 DEF Deciding!OpaDecides, Deciding!OpaBlocks, Deciding!OpaRedacts
<1>5. ~up => Deciding!AskOpa(t, up, required) \in {"BLOCK", None}
  BY DEF Deciding!AskOpa, Deciding!Query, Deciding!Given
<1> QED BY <1>1, <1>3, <1>4, <1>5 DEF Deciding!Query

\* Who decides does not matter to a built-in phrase, nor to a detected value, but for OPA's
\* answer to the backend.
LEMMA BuiltInsHold ==
    ASSUME NEW ps \in Seq(Inputs), NEW t \in Deciding!Text, NEW goUp \in BOOLEAN,
           NEW up \in BOOLEAN, NEW required \in BOOLEAN, NEW database \in BOOLEAN
    PROVE  /\ t.phrase => Deciding!Enforced(t, ps, up, required, database)
           /\ t.phrase /\ Deciding!Proxied(t, ps, goUp, up, required) =>
                  up /\ Deciding!Query(t, TRUE, goUp) = None
           /\ t.found # {} =>
                  /\ Deciding!Query(t, TRUE, goUp) # "ALLOW"
                  /\ ~up => Deciding!Judged(t, ps, up, required) # "ALLOW"
<1>1. PICK a : a = Deciding!AskOpa(t, up, required)
  OBVIOUS
<1>2. PICK e : e = Deciding!Evaluate(t, ps)
  OBVIOUS
<1>3. (t.phrase => e = "BLOCK") /\ (t.found # {} => e # "ALLOW")
  BY <1>2, EvaluateIs
<1>4. ~up => a \in {"BLOCK", None}
  BY <1>1, QueryIs
<1>5. None \notin {"ALLOW", "REDACT", "BLOCK"}
  BY DecidingInputs DEF Deciding!Actions
<1>6. t.phrase /\ ~up => ~Deciding!Passes(t, ps, up, required)
  BY <1>1, <1>2, <1>3, <1>4, <1>5 DEF Deciding!Passes
<1>7. t.phrase => Deciding!Enforced(t, ps, up, required, database)
  BY DEF Deciding!Enforced
<1>8. ASSUME t.phrase, Deciding!Proxied(t, ps, goUp, up, required)
      PROVE  up /\ Deciding!Query(t, TRUE, goUp) = None
  <2>1. PICK own : own = Deciding!Query(t, TRUE, goUp)
    OBVIOUS
  <2>2. own \in {"BLOCK", None}
    BY <1>8, <2>1, QueryIs
  <2>3. own \in {"ALLOW", "REDACT"} \/ (own = None /\ Deciding!Passes(t, ps, up, required))
    BY <1>8, <2>1 DEF Deciding!Proxied
  <2> QED BY <1>5, <1>6, <1>8, <2>1, <2>2, <2>3
<1>9. t.found # {} => Deciding!Query(t, TRUE, goUp) # "ALLOW"
  BY QueryIs
<1>10. t.found # {} /\ ~up => Deciding!Judged(t, ps, up, required) # "ALLOW"
  BY <1>1, <1>2, <1>3, <1>4 DEF Deciding!Judged, Deciding!Given
<1> QED BY <1>7, <1>8, <1>9, <1>10

LEMMA TypingHolds == Spec => []Typing
<1>1. Deciding!Init => Typing
  BY PartsAssumption DEF Deciding!Init, Typing, PartsAssumption, Deciding!InputsAssumption
<1>2. Typing /\ [Deciding!Next]_policies => Typing'
  BY DecidingStepKeepsType
<1> QED BY <1>1, <1>2, DecidingMoves, PTL DEF Deciding!Spec

\* No policy a tenant adds takes away what protects it: the policies made before it decide
\* what they decided; a built-in phrase stops the text, and a detected value never goes on as
\* it is, where the gateway's query of OPA, PolicyEngine or the closed door decides, and OPA's
\* answer to the backend is the only way round (policy_engine.py 230-246, 505-574; policy.py
\* 134-136, 339-380, 533-560; server.go 229-240).
THEOREM ProtectionHolds == Spec => NoPolicyWeakens
<1>1. Typing /\ [Deciding!Next]_policies =>
        [Len(policies') > Len(policies) =>
          \A t \in Deciding!Text :
             /\ Deciding!OfPolicies(t, policies) \subseteq Deciding!OfPolicies(t, policies')
             /\ \A goUp, up, required, database \in BOOLEAN :
                   /\ t.phrase => Deciding!Enforced(t, policies', up, required, database)
                   /\ t.phrase /\ Deciding!Proxied(t, policies', goUp, up, required) =>
                          up /\ Deciding!Query(t, TRUE, goUp) = None
                   /\ t.found # {} =>
                          /\ Deciding!Query(t, TRUE, goUp) # "ALLOW"
                          /\ ~up => Deciding!Judged(t, policies', up, required) # "ALLOW"]_policies
  <2> SUFFICES ASSUME Typing, Deciding!Next, Len(policies') > Len(policies), NEW t \in Deciding!Text
               PROVE  /\ Deciding!OfPolicies(t, policies) \subseteq Deciding!OfPolicies(t, policies')
                      /\ \A goUp, up, required, database \in BOOLEAN :
                            /\ t.phrase => Deciding!Enforced(t, policies', up, required, database)
                            /\ t.phrase /\ Deciding!Proxied(t, policies', goUp, up, required) =>
                                   up /\ Deciding!Query(t, TRUE, goUp) = None
                            /\ t.found # {} =>
                                   /\ Deciding!Query(t, TRUE, goUp) # "ALLOW"
                                   /\ ~up => Deciding!Judged(t, policies', up, required) # "ALLOW"
    OBVIOUS
  <2>1. policies' \in Seq(Inputs)
    BY DecidingStepKeepsType DEF Typing
  <2>2. ~Deciding!Withdraw
    <3> SUFFICES ASSUME Deciding!Withdraw PROVE FALSE
      OBVIOUS
    <3>1. PICK i \in DOMAIN policies : policies' = Deciding!RemoveAt(policies, i)
      BY DEF Deciding!Withdraw
    <3>2. Len(policies') <= Len(policies)
      BY <3>1, SubSeqLen DEF Typing
    <3>3. Len(policies) \in Nat /\ Len(policies') \in Nat
      BY <2>1 DEF Typing
    <3> QED BY <3>2, <3>3
  <2>3. PICK p \in Inputs : policies' = Append(policies, p)
    BY <2>2 DEF Deciding!Next, Deciding!Add
  <2>4. Deciding!OfPolicies(t, policies) \subseteq Deciding!OfPolicies(t, policies')
    BY <2>3, OfPoliciesStay DEF Typing
  <2> QED BY <2>1, <2>4, BuiltInsHold
<1> QED BY <1>1, TypingHolds, DecidingMoves, PTL DEF Deciding!Spec, NoPolicyWeakens, Deciding!NoPolicyWeakens

\* The variables of every part keep their types: the states of requests and approvals, of
\* workers and plans, and the list of the policies in force (state.py, worker_throttle.py 44-57,
\* policy_engine.py 310-339).
THEOREM TypesHold == Spec => []Typed
<1>1. GraphInv /\ FixingInv /\ Typing => Typed
  BY TypingBounds DEF GraphInv, FixingInv, Typed
<1> QED BY <1>1, GraphInvHolds, FixingInvHolds, TypingHolds, PTL
=============================================================================
