----------------------------- MODULE MCRuntime -----------------------------
(* The request graph, remediation, and the decision on a text. The first   *)
(* two meet only in the approvals that ApprovalWorkflow models, and the    *)
(* graph takes the decision as an input; as in MCGateway, Init chooses the *)
(* part that moves and the others stay in one initial state.               *)
EXTENDS Integers, FiniteSets

CONSTANTS Requests, RequestEnv,
          Calls, Findings, Plans, Workers, UseRedis, RemediationEnv,
          Words, MaxPolicies,
          None

VARIABLES part,
          req, creating, approvals, granted, calls, ledger, registered,
          finding, plan, approval, worker, call, plansGranted, applied,
          policies

Graph == INSTANCE RequestPipeline WITH Env <- RequestEnv
Fixing == INSTANCE Remediation WITH Env <- RemediationEnv, Limit <- Workers,
                                    granted <- plansGranted

\* Policies of one category or none, with or without an action, one for secrets, and one
\* list of words.
Inputs ==
    {[categories |-> c, action |-> a, actions |-> o, blocked |-> w[1], allowed |-> w[2], keywords |-> w[3]] :
        c \in {{}, {"SECRETS"}, {"MEDICAL_DATA"}}, a \in {None, "ALLOW"},
        o \in [{} -> {None}] \union [{"SECRETS"} -> {None, "ALLOW"}],
        w \in {<<{}, {}, {}>>, <<Words, {}, {}>>, <<{}, Words, {}>>, <<{}, {}, Words>>}}
Deciding == INSTANCE PolicyDecision

ASSUME PartsAssumption == /\ Graph!EnvAssumption /\ Graph!NoneAssumption
                          /\ Fixing!EnvAssumption /\ Fixing!LimitAssumption /\ Fixing!NoneAssumption
                          /\ Deciding!InputsAssumption

graphVars == <<req, creating, approvals, granted, calls, ledger, registered>>
fixingVars == <<finding, plan, approval, worker, call, plansGranted, applied>>
vars == <<part, graphVars, fixingVars, policies>>

Init == /\ part \in {"graph", "fixing", "deciding"} /\ Deciding!Init
        /\ Graph!Init
        /\ Fixing!Init /\ (part # "fixing" => finding = [f \in Findings |-> None])

GraphStep == part = "graph" /\ Graph!Next /\ UNCHANGED <<part, fixingVars, policies>>
FixingStep == part = "fixing" /\ Fixing!Next /\ UNCHANGED <<part, graphVars, policies>>
DecidingStep == part = "deciding" /\ Deciding!Next /\ UNCHANGED <<part, graphVars, fixingVars>>

Next == GraphStep \/ FixingStep \/ DecidingStep
Spec == Init /\ [][Next]_vars

\* The fairness of the parts, as they state it.
InGraph == part = "graph" /\ UNCHANGED <<part, fixingVars, policies>>
InFixing == part = "fixing" /\ UNCHANGED <<part, graphVars, policies>>
FairSpec ==
    /\ Spec
    /\ \A r \in Requests : /\ WF_vars(Graph!Step(r) /\ InGraph)
                           /\ WF_vars(Graph!CreateApproval(r) /\ InGraph)
    /\ \A c \in Calls : /\ WF_vars(Fixing!Step(c) /\ InFixing)
                        /\ WF_vars(Fixing!Expire(c) /\ InFixing)

-----------------------------------------------------------------------------
\* Each part's variables keep their types.
Typed == Graph!TypeOK /\ Fixing!TypeOK /\ Deciding!TypeOK

\* What goes to the model was cleared by policies, class or a human (llm_node.py 109-150).
CallsAreCleared == Graph!CallsAreCleared
\* Answer, ledger and request table tell the same story (gateway_service.py 90-152).
RecordsAgree == Graph!RecordsAgree
\* A request is answered unless its process dies (llm_node.py 151-187, approval_node.py 53).
EveryRequestEnds == Graph!EveryRequestEnds
\* What is applied was granted for its plan, once (remediation_runtime.py 562-643).
AppliedIsGranted == Fixing!AppliedIsGranted
\* Failed and killed runs do not close the throttle for good (worker_throttle.py 17-57).
ThrottleRecovers == part = "fixing" => Fixing!ThrottleRecovers
\* No policy a tenant adds takes away what protects it (policy_engine.py 230-574).
NoPolicyWeakens == Deciding!NoPolicyWeakens
=============================================================================
