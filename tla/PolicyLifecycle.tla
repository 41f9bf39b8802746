--------------------------- MODULE PolicyLifecycle ---------------------------
(***************************************************************************)
(* The life of a guardrail policy (main.py, /policies): its row in         *)
(* policies, its policy_versions and its policy_change_approvals.          *)
(*                                                                         *)
(* An edit is one call of an endpoint, in a thread. It reads the row       *)
(* without a lock and writes in one transaction, which the row's lock      *)
(* keeps apart from the others'. Rules are named after the edit that       *)
(* brought them; whether validate_policy_rules_for_lifecycle accepts them  *)
(* is chosen with them. The tenant's policies do not touch each other, so  *)
(* there is one, which is enabled: a disabled one is not loaded. The rows  *)
(* of policy_audit_history, written in a transaction after the edit's, the *)
(* audit blocks and the simulations, which change no policy, are left out. *)
(***************************************************************************)
EXTENDS Integers

CONSTANTS Edits, MaxVersion, None

VARIABLES
    policy,    \* the row, while there is one
    versions,  \* policy_versions, of the policy there is
    approvals, \* policy_change_approvals: of which version, and its status
    edit,      \* where each edit is
    created,   \* the policy has been created
    stale     \* history: an edit has written over what it had not read

vars == <<policy, versions, approvals, edit, created, stale>>

Statuses == {"draft", "published", "active", "archived"}
Rules == [by : Edits, valid : BOOLEAN]
PolicyRow == [version : 1..MaxVersion, status : Statuses, rules : Rules]
VersionRow == [version : 1..MaxVersion, status : Statuses \union {"approved"}, rules : Rules]
ApprovalRow == [version : 1..MaxVersion \union {None}, status : {"pending", "approved", "rejected"}]

VersionAssumption == MaxVersion \in Nat \ {0}

Idle == [op |-> "none", seen |-> {}, target |-> {}, rules |-> None, status |-> None]

Init == /\ policy = {} /\ versions = {} /\ approvals = {} /\ created = FALSE /\ stale = FALSE
        /\ edit = [e \in Edits |-> Idle]

-----------------------------------------------------------------------------
(***************************************************************************)
(* What the endpoints share.                                               *)
(***************************************************************************)

\* The UPDATE of the row, if it is still there.
Store(row) == policy' = IF policy = {} THEN {} ELSE {row}

\* persist_policy_version: the version's row, whatever it held.
PersistVersion(v, status, rules) ==
    versions' = {w \in versions : w.version # v} \union
                   {[version |-> v, status |-> status, rules |-> rules]}

\* persist_policy_change_approval.
PersistApproval(v, status) == approvals' = approvals \union {[version |-> v, status |-> status]}

\* Each of the two refers to a policy: without one the transaction fails.
Fails == UNCHANGED <<policy, versions, approvals>>

\* An edit reads the row; without one it is answered 404.
Read(e, op, rules, status) ==
    /\ edit[e].op = "none" /\ policy # {}
    /\ edit' = [edit EXCEPT ![e] = [op |-> op, seen |-> policy, target |-> {},
                                    rules |-> rules, status |-> status]]
    /\ UNCHANGED <<policy, versions, approvals, created, stale>>
Ends(e) == /\ edit' = [edit EXCEPT ![e].op = "done"]
           /\ stale' = (stale \/ edit[e].seen # policy)
           /\ UNCHANGED created

Seen(e) == CHOOSE p \in edit[e].seen : TRUE

-----------------------------------------------------------------------------
(***************************************************************************)
(* The endpoints.                                                          *)
(***************************************************************************)

\* create_policy: a policy without a status is published; none is validated.
Create(e) ==
    \E valid \in BOOLEAN, status \in {"published", "draft", "active"} :
        LET rules == [by |-> e, valid |-> valid]
        IN /\ ~created /\ created' = TRUE
           /\ policy' = {[version |-> 1, status |-> status, rules |-> rules]}
           /\ PersistVersion(1, status, rules)
           /\ IF status = "published" THEN PersistApproval(1, "approved")
              ELSE IF status = "draft" THEN PersistApproval(1, "pending")
              ELSE UNCHANGED approvals
           /\ edit' = [edit EXCEPT ![e] = [Idle EXCEPT !.op = "done", !.rules = rules, !.status = status]]
           /\ UNCHANGED stale

\* update_policy: any rules, and the status it is given or else the one it has read.
Update(e) ==
    \E valid \in BOOLEAN, given \in {None, "published", "draft"} :
        Read(e, "update", [by |-> e, valid |-> valid], given)
NewStatus(e) == IF edit[e].status = None THEN Seen(e).status ELSE edit[e].status
\* A mutant: the version stays.
CommitUpdateInPlace(e) ==
    LET v == Seen(e).version  rules == edit[e].rules
    IN /\ edit[e].op = "update"
       /\ IF policy = {} THEN Fails
          ELSE /\ Store([version |-> v, status |-> NewStatus(e), rules |-> rules])
               /\ PersistVersion(v, NewStatus(e), rules)
               /\ PersistApproval(v, IF NewStatus(e) = "published" THEN "approved" ELSE "pending")
       /\ edit' = [edit EXCEPT ![e].op = "done", ![e].status = NewStatus(e)]
       /\ stale' = (stale \/ edit[e].seen # policy)
       /\ UNCHANGED created
CommitUpdate(e) ==
    LET v == Seen(e).version + 1  rules == edit[e].rules
    IN /\ edit[e].op = "update" /\ v <= MaxVersion
       /\ IF policy = {} THEN Fails
          ELSE /\ Store([version |-> v, status |-> NewStatus(e), rules |-> rules])
               /\ PersistVersion(v, NewStatus(e), rules)
               /\ PersistApproval(v, IF NewStatus(e) = "published" THEN "approved" ELSE "pending")
       /\ edit' = [edit EXCEPT ![e].op = "done", ![e].status = NewStatus(e)]
       /\ stale' = (stale \/ edit[e].seen # policy)
       /\ UNCHANGED created

\* A mutant: the rules are not validated.
PublishAny(e) == Read(e, "publish", None, None)
\* publish_policy: what it has read must be good rules.
Publish(e) == (\A p \in policy : p.rules.valid) /\ Read(e, "publish", None, None)
\* Published is what the row holds by then; the version row is of what was read.
CommitPublish(e) ==
    /\ edit[e].op = "publish"
    /\ IF policy = {} THEN Fails
       ELSE /\ policy' = {[p EXCEPT !.status = "published"] : p \in policy}
            /\ PersistVersion(Seen(e).version, "published", Seen(e).rules)
            /\ PersistApproval(Seen(e).version, "approved")
    /\ Ends(e)

\* approve_policy_change: the version it has read, with the rules it has read.
Approve(e) == Read(e, "approve", None, None)
CommitApprove(e) ==
    /\ edit[e].op = "approve"
    /\ IF policy = {} THEN Fails
       ELSE /\ PersistVersion(Seen(e).version, "approved", Seen(e).rules)
            /\ PersistApproval(Seen(e).version, "approved")
            /\ UNCHANGED policy
    /\ Ends(e)

\* reject_policy_change, which names no version and leaves the policy as it is.
Reject(e) == Read(e, "reject", None, None)
CommitReject(e) ==
    /\ edit[e].op = "reject"
    /\ IF policy = {} THEN UNCHANGED approvals ELSE PersistApproval(None, "rejected")
    /\ edit' = [edit EXCEPT ![e].op = "done"]
    /\ UNCHANGED <<policy, versions, created, stale>>

\* archive_policy.
Archive(e) == Read(e, "archive", None, None)
CommitArchive(e) ==
    /\ edit[e].op = "archive"
    /\ policy' = {[p EXCEPT !.status = "archived"] : p \in policy}
    /\ versions' = {IF w.version = Seen(e).version THEN [w EXCEPT !.status = "archived"] ELSE w : w \in versions}
    /\ UNCHANGED approvals
    /\ Ends(e)

\* rollback_policy reads the rules of a version, which must be good, and then the row.
Rollback(e) ==
    \E w \in versions :
        /\ w.rules.valid
        /\ edit[e].op = "none"
        /\ edit' = [edit EXCEPT ![e] = [Idle EXCEPT !.op = "target", !.target = {w}, !.rules = w.rules]]
        /\ UNCHANGED <<policy, versions, approvals, created, stale>>
ReadCurrent(e) ==
    /\ edit[e].op = "target"
    /\ edit' = [edit EXCEPT ![e].op = IF policy = {} THEN "done" ELSE "rollback", ![e].seen = policy]
    /\ UNCHANGED <<policy, versions, approvals, created, stale>>
CommitRollback(e) ==
    LET v == Seen(e).version + 1  rules == edit[e].rules
    IN /\ edit[e].op = "rollback" /\ v <= MaxVersion
       /\ IF policy = {} THEN Fails
          ELSE /\ Store([version |-> v, status |-> "published", rules |-> rules])
               /\ PersistVersion(v, "published", rules)
               /\ PersistApproval(v, "approved")
       /\ Ends(e)

\* delete_policy: the versions and approvals go with the row.
Delete(e) ==
    /\ edit[e].op = "none" /\ policy # {}
    /\ policy' = {} /\ versions' = {} /\ approvals' = {}
    /\ edit' = [edit EXCEPT ![e].op = "done"]
    /\ UNCHANGED <<created, stale>>

Next == \E e \in Edits : \/ Create(e) \/ Update(e) \/ CommitUpdate(e) \/ Publish(e) \/ CommitPublish(e)
                         \/ Approve(e) \/ CommitApprove(e) \/ Reject(e) \/ CommitReject(e)
                         \/ Archive(e) \/ CommitArchive(e)
                         \/ Rollback(e) \/ ReadCurrent(e) \/ CommitRollback(e) \/ Delete(e)

Spec == Init /\ [][Next]_vars

-----------------------------------------------------------------------------
TypeOK == /\ policy \subseteq PolicyRow /\ versions \subseteq VersionRow
          /\ approvals \subseteq ApprovalRow
          /\ \A v, w \in versions : v.version = w.version => v = w

\* load_policies takes the published and the active ones.
InForce == {p \in policy : p.status \in {"published", "active"}}

(***************************************************************************)
(* Rules in force have been validated, or the edit that wrote them put     *)
(* them in force itself, unless an edit has written over what it had not   *)
(* read: publish validates the rules it reads and publishes those there    *)
(* are when it writes (main.py 3054-3364, 3522-3578).                      *)
(***************************************************************************)
InForceIsChecked ==
    \A p \in InForce : \/ p.rules.valid \/ stale
                       \/ edit[p.rules.by].status \in {"published", "active"}

(***************************************************************************)
(* The rules of a version never change, with the same exception: two       *)
(* updates that read one version write the next one over each other, and   *)
(* the versions after it later (main.py 2509-2566, 3067-3110).             *)
(***************************************************************************)
VersionsStay ==
    [][\A v \in versions, w \in versions' : v.version = w.version => v.rules = w.rules \/ stale']_vars

\* The rules of the versions, by their numbers, and the row implement VersionRegister: the
\* next version is one more than the last, and rollback adds old rules as a new version.
Register == INSTANCE VersionRegister
    WITH history <- [n \in {w.version : w \in versions} |-> (CHOOSE w \in versions : w.version = n).rules],
         current <- {[version |-> p.version, rules |-> p.rules] : p \in policy},
         torn <- stale
RegisterSpec == Register!Spec
=============================================================================
