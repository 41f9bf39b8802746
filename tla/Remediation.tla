----------------------------- MODULE Remediation -----------------------------
(***************************************************************************)
(* services/remediation_runtime.py and services/worker_throttle.py: scans  *)
(* find things to fix, a plan is made for a finding, an approval requested *)
(* for the plan, and /execute of main.py runs the approved plan in a       *)
(* worker with leased credentials.                                         *)
(*                                                                         *)
(* A call is one thread in the backend; what it creates (an approval, a    *)
(* worker run, a credential lease) is named after it.  /execute is a       *)
(* coroutine that runs to its end holding the event loop, the other        *)
(* endpoints run in threads beside it.                                     *)
(***************************************************************************)
EXTENDS FiniteSets, Naturals

CONSTANTS
    Calls,      \* scans, approval requests and executions; each is made once
    Findings,   \* rows of remediation_findings
    Plans,      \* rows of remediation_plans
    Limit,      \* AUTHCLAW_REMEDIATION_WORKER_LIMIT
    UseRedis,   \* REDIS_URL is set and Redis answers
    Env,        \* what the environment does, a subset of EnvEvents
    None

EnvEvents == {"adapterFails", "crash"}

EnvAssumption == Env \subseteq EnvEvents
LimitAssumption == Limit \in Nat \ {0} /\ UseRedis \in BOOLEAN

VARIABLES
    finding,    \* status of a finding, or None
    plan,       \* a plan, or None
    approval,   \* the approval that a call created, or None
    worker,     \* the worker run that a call created, or None
    call,       \* the calls
    granted,    \* history: approvals a human has approved
    applied     \* history: calls whose adapter has changed the resource

vars == <<finding, plan, approval, worker, call, granted, applied>>

Plan == [of : Findings, status : {"planned", "pending_approval", "executed"},
         approval : Calls \cup {None}]

Approval == [plan : Plans,
             status : {"pending", "approved", "rejected",
                       "executing", "executed", "execution_failed"}]

NoneAssumption == /\ None \notin Calls \cup Findings \cup Plans
                  /\ None \notin Plan /\ None \notin Approval

\* A worker run with its lease; live until expires_at.
Worker == [mode : {"scan", "execution"}, status : {"running", "completed"},
           live : BOOLEAN, revoked : BOOLEAN]

Call == [pc : {"idle", "scan_work", "scan_run", "request_bind", "execute_check", "execute_plan",
               "execute_work", "execute_run", "execute_commit", "execute_mark",
               "done", "lost"},
         plan : Plans \cup {None},
         approval : Calls \cup {None}]

TypeOK ==
    /\ finding \in [Findings -> {None, "open", "remediated"}]
    /\ plan \in [Plans -> Plan \cup {None}]
    /\ approval \in [Calls -> Approval \cup {None}]
    /\ worker \in [Calls -> Worker \cup {None}]
    /\ call \in [Calls -> Call]
    /\ granted \subseteq Calls
    /\ applied \subseteq Calls

\* Earlier scans may have found something.
Init ==
    /\ finding \in [Findings -> {None, "open"}]
    /\ plan = [p \in Plans |-> None]
    /\ approval = [c \in Calls |-> None]
    /\ worker = [c \in Calls |-> None]
    /\ call = [c \in Calls |-> [pc |-> "idle", plan |-> None, approval |-> None]]
    /\ granted = {} /\ applied = {}

At(c, pc) == call[c].pc = pc
GoTo(c, pc) == call' = [call EXCEPT ![c].pc = pc]
Ended == {"idle", "done", "lost"}

\* One event loop runs one execution at a time; the other calls are threads beside it.
LoopIsFree == \A d \in Calls : call[d].approval # None => call[d].pc \in Ended

-----------------------------------------------------------------------------
(* The throttle and the workers.                                           *)

\* Mutant: runs that have expired still count.
CountExpired == Cardinality({c \in Calls : worker[c] # None /\ worker[c].status = "running"})

\* _active_count of the table.
Running ==
    Cardinality({c \in Calls : worker[c] # None /\ worker[c].status = "running" /\ worker[c].live})

\* _active_count: with Redis the count is a key that nothing increments.
ActiveCount == IF UseRedis THEN 0 ELSE Running

Throttled == ActiveCount >= Limit

\* _lease_credentials and _create_worker
CreateWorker(c, mode) ==
    worker' = [worker EXCEPT ![c] =
                 [mode |-> mode, status |-> "running", live |-> TRUE, revoked |-> FALSE]]

\* The end of a run: completed, and its lease revoked.
Completed(c) == [worker EXCEPT ![c].status = "completed", ![c].revoked = TRUE]

\* expires_at passes.
Expire(c) ==
    /\ worker[c] # None /\ worker[c].live
    /\ worker' = [worker EXCEPT ![c].live = FALSE]
    /\ UNCHANGED <<finding, plan, approval, call, granted, applied>>

-----------------------------------------------------------------------------
(* Scans and plans.                                                        *)

ScanCheck(c) ==
    /\ At(c, "idle")
    /\ GoTo(c, IF Throttled THEN "done" ELSE "scan_work")
    /\ UNCHANGED <<finding, plan, approval, worker, granted, applied>>

ScanWork(c) ==
    /\ At(c, "scan_work")
    /\ \/ CreateWorker(c, "scan") /\ GoTo(c, "scan_run")
       \/ "adapterFails" \in Env /\ GoTo(c, "done") /\ UNCHANGED worker
    /\ UNCHANGED <<finding, plan, approval, granted, applied>>

\* The adapter reports, and one commit stores findings and ends the run.
ScanRun(c) ==
    /\ At(c, "scan_run")
    /\ GoTo(c, "done")
    /\ \/ \E F \in SUBSET {f \in Findings : finding[f] = None} :
            /\ finding' = [f \in Findings |-> IF f \in F THEN "open" ELSE finding[f]]
            /\ worker' = Completed(c)
       \/ "adapterFails" \in Env /\ UNCHANGED <<finding, worker>>
    /\ UNCHANGED <<plan, approval, granted, applied>>

CreatePlan(p) ==
    /\ plan[p] = None
    /\ \E f \in Findings :
         /\ finding[f] # None
         /\ plan' = [plan EXCEPT ![p] = [of |-> f, status |-> "planned", approval |-> None]]
    /\ UNCHANGED <<finding, approval, worker, call, granted, applied>>

\* request_plan_approval: create_approval, and later the binding.
RequestApproval(c) ==
    /\ At(c, "idle")
    /\ \E p \in Plans :
         /\ plan[p] # None
         /\ approval' = [approval EXCEPT ![c] = [plan |-> p, status |-> "pending"]]
         /\ call' = [call EXCEPT ![c].pc = "request_bind", ![c].plan = p]
    /\ UNCHANGED <<finding, plan, worker, granted, applied>>

BindApproval(c) ==
    /\ At(c, "request_bind")
    /\ plan' = [plan EXCEPT ![call[c].plan].approval = c,
                            ![call[c].plan].status = "pending_approval"]
    /\ GoTo(c, "done")
    /\ UNCHANGED <<finding, approval, worker, granted, applied>>

\* /approve and /reject
HumanDecides(a) ==
    /\ approval[a] # None /\ approval[a].status = "pending"
    /\ \/ /\ approval' = [approval EXCEPT ![a].status = "approved"]
          /\ granted' = granted \cup {a}
       \/ /\ approval' = [approval EXCEPT ![a].status = "rejected"]
          /\ UNCHANGED granted
    /\ UNCHANGED <<finding, plan, worker, call, applied>>

-----------------------------------------------------------------------------
(* Execution of an approved plan.                                          *)

\* Mutant: an approval can be used again.
ExecuteUsed(c) ==
    /\ At(c, "idle") /\ LoopIsFree
    /\ \E a \in Calls :
         /\ approval[a] # None /\ approval[a].status \in {"approved", "executed"}
         /\ approval' = [approval EXCEPT ![a].status = "executing"]
         /\ call' = [call EXCEPT ![c].pc = "execute_check", ![c].approval = a]
    /\ UNCHANGED <<finding, plan, worker, granted, applied>>

\* /execute takes the approval and calls execute_approved_plan.
Execute(c) ==
    /\ At(c, "idle") /\ LoopIsFree
    /\ \E a \in Calls :
         /\ approval[a] # None /\ approval[a].status = "approved"
         /\ approval' = [approval EXCEPT ![a].status = "executing"]
         /\ call' = [call EXCEPT ![c].pc = "execute_check", ![c].approval = a]
    /\ UNCHANGED <<finding, plan, worker, granted, applied>>

\* An exception ends the execution: the approval is marked, nothing else.
ExecutionFails(c) ==
    /\ approval' = [approval EXCEPT ![call[c].approval].status = "execution_failed"]
    /\ GoTo(c, "done")

ExecuteCheck(c) ==
    /\ At(c, "execute_check")
    /\ IF Throttled THEN ExecutionFails(c)
       ELSE GoTo(c, "execute_plan") /\ UNCHANGED approval
    /\ UNCHANGED <<finding, plan, worker, granted, applied>>

\* The plan that the approval's metadata name, if it is bound to the approval.
ReadPlan(c) ==
    LET a == call[c].approval
        p == approval[a].plan
    IN /\ At(c, "execute_plan")
       /\ IF plan[p].approval = a
          THEN /\ call' = [call EXCEPT ![c].pc = "execute_work", ![c].plan = p]
               /\ UNCHANGED approval
          ELSE ExecutionFails(c)
       /\ UNCHANGED <<finding, plan, worker, granted, applied>>

ExecuteWork(c) ==
    /\ At(c, "execute_work")
    /\ \/ CreateWorker(c, "execution") /\ GoTo(c, "execute_run") /\ UNCHANGED approval
       \/ "adapterFails" \in Env /\ ExecutionFails(c) /\ UNCHANGED worker
    /\ UNCHANGED <<finding, plan, granted, applied>>

\* adapter.execute_plan
ExecuteRun(c) ==
    /\ At(c, "execute_run")
    /\ \/ applied' = applied \cup {c} /\ GoTo(c, "execute_commit") /\ UNCHANGED approval
       \/ "adapterFails" \in Env /\ ExecutionFails(c) /\ UNCHANGED applied
    /\ UNCHANGED <<finding, plan, worker, granted>>

\* One commit for the worker, its lease, the plan and the finding.
ExecuteCommit(c) ==
    /\ At(c, "execute_commit")
    /\ worker' = Completed(c)
    /\ plan' = [plan EXCEPT ![call[c].plan].status = "executed"]
    /\ finding' = [finding EXCEPT ![plan[call[c].plan].of] = "remediated"]
    /\ GoTo(c, "execute_mark")
    /\ UNCHANGED <<approval, granted, applied>>

\* Back in /execute.
ExecuteMark(c) ==
    /\ At(c, "execute_mark")
    /\ approval' = [approval EXCEPT ![call[c].approval].status = "executed"]
    /\ GoTo(c, "done")
    /\ UNCHANGED <<finding, plan, worker, granted, applied>>

Crash ==
    /\ "crash" \in Env
    /\ \E c \in Calls : call[c].pc \notin Ended
    /\ call' = [c \in Calls |-> IF call[c].pc \in Ended THEN call[c]
                                ELSE [call[c] EXCEPT !.pc = "lost"]]
    /\ UNCHANGED <<finding, plan, approval, worker, granted, applied>>

-----------------------------------------------------------------------------
Start(c) == ScanCheck(c) \/ RequestApproval(c) \/ Execute(c)

Step(c) ==
    \/ ScanWork(c) \/ ScanRun(c) \/ BindApproval(c)
    \/ ExecuteCheck(c) \/ ReadPlan(c) \/ ExecuteWork(c) \/ ExecuteRun(c) \/ ExecuteCommit(c)
    \/ ExecuteMark(c)

Next ==
    \/ \E c \in Calls : Start(c) \/ Step(c) \/ HumanDecides(c) \/ Expire(c)
    \/ \E p \in Plans : CreatePlan(p)
    \/ Crash

Spec == Init /\ [][Next]_vars

\* Threads go on and time passes.
FairSpec == Spec /\ \A c \in Calls : WF_vars(Step(c)) /\ WF_vars(Expire(c))

-----------------------------------------------------------------------------
(* Properties.                                                             *)

\* A resource is changed only under an approval that a human granted for the
\* plan, and once per approval.
AppliedIsGranted ==
    \A c \in applied :
        /\ call[c].approval \in granted
        /\ approval[call[c].approval].plan = call[c].plan
        /\ \A d \in applied \ {c} : call[d].approval # call[c].approval

\* Runs that failed or died do not close the throttle for good.
ThrottleRecovers == []<>(~Throttled)
=============================================================================
