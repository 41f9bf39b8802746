-------------------------- MODULE ApprovalWorkflow --------------------------
(***************************************************************************)
(* Human-in-the-loop approvals: approval_store.py and the handlers         *)
(* /approve, /reject and /execute of main.py.                              *)
(*                                                                         *)
(* Each backend process (worker) keeps record objects in a dictionary      *)
(* (_approvals) and writes a record back to gateway_approvals, whole, on   *)
(* every item assignment.  A handler is a coroutine: it finds the record,  *)
(* waits for the request body, and then runs to its end holding the        *)
(* worker's event loop.  Plain "def" endpoints (the lists, GET by id, the  *)
(* test route) run in threads, between any two steps of a coroutine.       *)
(*                                                                         *)
(* Actors are users of the approval's tenant with a role that may decide:  *)
(* a call by anybody else is refused before it changes anything.           *)
(***************************************************************************)
EXTENDS Naturals

CONSTANTS
    Workers,          \* backend processes
    Approvals,        \* approval ids
    Actors,           \* users who decide and execute
    Requests,         \* HTTP calls of /approve, /reject, /execute; each is made once
    Objects,          \* identities of record objects in memory
    Codes,            \* TOTP counters an actor may present
    RequireMfa,       \* approval.require_mfa of the policy
    DecisionWindow,   \* approval.expiry_minutes
    ExecutionWindow,  \* approval.execution_expiry_minutes
    MaxNow,           \* bound of the clock
    Env,              \* what the environment does, a subset of EnvEvents
    None

EnvEvents == {"listing", "crash", "lostWrite", "testRoute"}

ASSUME EnvAssumption == Env \subseteq EnvEvents
ASSUME MfaAssumption == RequireMfa \in BOOLEAN
ASSUME WindowAssumption ==
    DecisionWindow \in Nat \ {0} /\ ExecutionWindow \in Nat \ {0} /\ MaxNow \in Nat
ASSUME NoneAssumption ==
    None \notin Approvals \cup Actors \cup Requests \cup Objects \cup Codes \cup Nat

VARIABLES
    db,         \* gateway_approvals: the row of an approval, or None
    heap,       \* the record objects of all workers
    cache,      \* _approvals: cache[w][a] is an object or None
    loop,       \* the handler that holds the worker's event loop, or None
    req,        \* the handlers
    reading,    \* a row a thread has read and not yet put in the dictionary
    now,        \* the clock
    created,    \* approvals that create_approval has returned
    decisions,  \* history: the /approve calls that set a record to approved
    runs,       \* history: the /execute calls whose UPDATE took the token
    rejected    \* history: approvals rejected while no /approve of them had begun

vars == <<db, heap, cache, loop, req, reading, now, created, decisions, runs, rejected>>

Status == {"pending", "approved", "rejected", "expired",
           "executing", "executed", "execution_failed"}

Record == [id : Approvals, status : Status,
           by : Actors \cup {None},        \* approved_by
           code : Codes \cup {None},       \* approval_mfa_counter
           execCode : Codes \cup {None},   \* execution_mfa_counter
           used : BOOLEAN,                 \* execution_token_used_at is set
           expires : Nat,                  \* expires_at
           window : Nat \cup {None}]       \* execution_expires_at

ASSUME NoRecordAssumption == None \notin Record

Waiting == {"approve_body", "reject_body", "execute_body"}
Entering == {"execute_mark", "execute_count", "execute_enter"}
Holding == {"approve_seal", "execute_run"} \cup Entering

Handler == [pc : {"idle", "done"} \cup Waiting \cup Holding,
            w : Workers \cup {None}, x : Actors \cup {None},
            obj : Objects \cup {None}, code : Codes \cup {None}]

Handle(pc, w, x, o, c) == [pc |-> pc, w |-> w, x |-> x, obj |-> o, code |-> c]
Gone == Handle("done", None, None, None, None)

TypeOK ==
    /\ db \in [Approvals -> Record \cup {None}]
    /\ heap \in [Objects -> Record \cup {None}]
    /\ cache \in [Workers -> [Approvals -> Objects \cup {None}]]
    /\ loop \in [Workers -> Requests \cup {None}]
    /\ req \in [Requests -> Handler]
    /\ reading \in [Workers -> [Approvals -> Record \cup {None}]]
    /\ now \in Nat
    /\ created \subseteq Approvals
    /\ decisions \subseteq [a : Approvals, x : Actors, code : Codes \cup {None}]
    /\ runs \subseteq [r : Requests, a : Approvals, x : Actors, code : Codes]
    /\ rejected \subseteq Approvals

Init ==
    /\ db = [a \in Approvals |-> None]
    /\ heap = [o \in Objects |-> None]
    /\ cache = [w \in Workers |-> [a \in Approvals |-> None]]
    /\ loop = [w \in Workers |-> None]
    /\ req = [r \in Requests |-> Handle("idle", None, None, None, None)]
    /\ reading = [w \in Workers |-> [a \in Approvals |-> None]]
    /\ now = 0
    /\ created = {} /\ decisions = {} /\ runs = {} /\ rejected = {}

-----------------------------------------------------------------------------
(* The store.                                                              *)

\* An object that no dictionary and no handler refers to.
Fresh(o) == /\ \A w \in Workers, a \in Approvals : cache[w][a] # o
            /\ \A r \in Requests : req[r].obj # o

\* _persist_record: the upsert of the whole record; its errors are swallowed.
Persist(rec) ==
    \/ db' = [db EXCEPT ![rec.id] = rec]
    \/ "lostWrite" \in Env /\ UNCHANGED db

\* An item assignment on a record object.
Save(o, rec) == heap' = [heap EXCEPT ![o] = rec] /\ Persist(rec)

\* _check_expiry
Lapsed(rec) == rec.status = "pending" /\ now >= rec.expires
Checked(rec) == IF Lapsed(rec) THEN [rec EXCEPT !.status = "expired"] ELSE rec

\* The object get_approval finds in the dictionary, or the one it makes of the row.
Finds(w, a, o) ==
    \/ cache[w][a] = o
    \/ cache[w][a] = None /\ db[a] # None /\ Fresh(o)
Found(w, a, o) == IF cache[w][a] = o THEN heap[o] ELSE db[a]

\* Puts a record object in the dictionary and checks its expiry.
Put(w, a, o, rec) ==
    /\ cache' = [cache EXCEPT ![w][a] = o]
    /\ heap' = [heap EXCEPT ![o] = Checked(rec)]
    /\ IF Lapsed(rec) THEN Persist(Checked(rec)) ELSE UNCHANGED db

\* get_approval
Get(w, a, o) == Finds(w, a, o) /\ Put(w, a, o, Found(w, a, o))

\* Mutants of Create: no expiry; approved from the start.
CreateUnbounded(w, a, o) ==
    /\ a \notin created /\ Fresh(o)
    /\ created' = created \cup {a}
    /\ cache' = [cache EXCEPT ![w][a] = o]
    /\ Save(o, [id |-> a, status |-> "pending", by |-> None, code |-> None,
                execCode |-> None, used |-> FALSE, expires |-> None, window |-> None])
    /\ UNCHANGED <<loop, req, reading, now, decisions, runs, rejected>>
CreateApproved(w, a, o) ==
    /\ a \notin created /\ Fresh(o)
    /\ created' = created \cup {a}
    /\ cache' = [cache EXCEPT ![w][a] = o]
    /\ Save(o, [id |-> a, status |-> "approved", by |-> None, code |-> None,
                execCode |-> None, used |-> FALSE,
                expires |-> now + DecisionWindow, window |-> None])
    /\ UNCHANGED <<loop, req, reading, now, decisions, runs, rejected>>

\* create_approval, under a new id
Create(w, a, o) ==
    /\ a \notin created /\ Fresh(o)
    /\ created' = created \cup {a}
    /\ cache' = [cache EXCEPT ![w][a] = o]
    /\ Save(o, [id |-> a, status |-> "pending", by |-> None, code |-> None,
                execCode |-> None, used |-> FALSE,
                expires |-> now + DecisionWindow, window |-> None])
    /\ UNCHANGED <<loop, req, reading, now, decisions, runs, rejected>>

-----------------------------------------------------------------------------
(* Handlers.  A handler is at a point where it may run when the loop of    *)
(* its worker is free or is held by the handler itself.                    *)

Rec(r) == heap[req[r].obj]
Runs(r, pc) == req[r].pc = pc /\ loop[req[r].w] \in {None, r}
Release(r) == loop' = [loop EXCEPT ![req[r].w] = None]
Hold(r) == loop' = [loop EXCEPT ![req[r].w] = r]
Finish(r) == req' = [req EXCEPT ![r] = Gone]

\* Mutant: /approve does not look at the status.
BeginAny(r, pc, w, a, x, o) ==
    /\ req[r].pc = "idle" /\ loop[w] = None
    /\ Get(w, a, o)
    /\ req' = [req EXCEPT ![r] = Handle(pc, w, x, o, None)]
    /\ UNCHANGED <<loop, reading, now, created, decisions, runs, rejected>>

\* A handler up to the wait for its body.  /approve looks at the status here and
\* nowhere else; /reject and /execute look at it when the body has come.
Begin(r, pc, w, a, x, o) ==
    /\ req[r].pc = "idle" /\ loop[w] = None
    /\ Get(w, a, o)
    /\ req' = [req EXCEPT ![r] =
                 IF pc = "approve_body"
                    /\ Checked(Found(w, a, o)).status \notin {"pending", "approved"}
                 THEN Gone ELSE Handle(pc, w, x, o, None)]
    /\ UNCHANGED <<loop, reading, now, created, decisions, runs, rejected>>

\* Every early return of a handler whose body has come: a malformed body, a
\* missing or wrong code, or a condition of the steps below that does not hold.
Refuse(r) ==
    /\ req[r].pc \in Waiting /\ Runs(r, req[r].pc)
    /\ Finish(r)
    /\ UNCHANGED <<db, heap, cache, loop, reading, now, created, decisions, runs, rejected>>

\* /approve once the code is verified: the first assignment, record["status"].
ApproveMark(r, c) ==
    /\ Runs(r, "approve_body")
    /\ IF RequireMfa THEN c \in Codes \ {Rec(r).code} ELSE c = None
    /\ Save(req[r].obj, [Rec(r) EXCEPT !.status = "approved"])
    /\ decisions' = decisions \cup {[a |-> Rec(r).id, x |-> req[r].x, code |-> c]}
    /\ req' = [req EXCEPT ![r].pc = "approve_seal", ![r].code = c]
    /\ Hold(r)
    /\ UNCHANGED <<cache, reading, now, created, runs, rejected>>

\* Mutant: a new approval comes with a new token.
ApproveSealRenewed(r) ==
    /\ Runs(r, "approve_seal")
    /\ Save(req[r].obj, [Rec(r) EXCEPT !.by = req[r].x, !.code = req[r].code,
                                       !.window = now + ExecutionWindow, !.used = FALSE])
    /\ Finish(r) /\ Release(r)
    /\ UNCHANGED <<cache, reading, now, created, decisions, runs, rejected>>

\* The assignments after it: approved_by, the MFA fields, execution_expires_at.
ApproveSeal(r) ==
    /\ Runs(r, "approve_seal")
    /\ Save(req[r].obj, [Rec(r) EXCEPT !.by = req[r].x, !.code = req[r].code,
                                       !.window = now + ExecutionWindow])
    /\ Finish(r) /\ Release(r)
    /\ UNCHANGED <<cache, reading, now, created, decisions, runs, rejected>>

BeingApproved(a) == \E r \in Requests : req[r].pc = "approve_body" /\ Rec(r).id = a

\* /reject refuses three states only.
RejectFinish(r) ==
    /\ Runs(r, "reject_body")
    /\ Rec(r).status \notin {"expired", "approved", "executed"}
    /\ Save(req[r].obj, [Rec(r) EXCEPT !.status = "rejected"])
    /\ rejected' = rejected \cup {a \in {Rec(r).id} : ~BeingApproved(a)}
    /\ Finish(r)
    /\ UNCHANGED <<cache, loop, reading, now, created, decisions, runs>>

\* What /execute asks of the record before anything else: approved, and by this actor.
MayExecute(r) ==
    /\ Runs(r, "execute_body")
    /\ Rec(r).status = "approved"
    /\ Rec(r).by \in {None, req[r].x}

TooLate(rec) == now >= rec.expires \/ (rec.window # None /\ now >= rec.window)

\* Mutant: a lapsed window is recorded as a failed execution.
ExecuteLapseAsFailure(r) ==
    /\ MayExecute(r) /\ TooLate(Rec(r))
    /\ Save(req[r].obj, [Rec(r) EXCEPT !.status = "execution_failed"])
    /\ Finish(r)
    /\ UNCHANGED <<cache, loop, reading, now, created, decisions, runs, rejected>>

\* /execute finds that the approval or its execution window has run out.
ExecuteLapse(r) ==
    /\ MayExecute(r) /\ TooLate(Rec(r))
    /\ Save(req[r].obj, [Rec(r) EXCEPT !.status = "expired"])
    /\ Finish(r)
    /\ UNCHANGED <<cache, loop, reading, now, created, decisions, runs, rejected>>

\* Mutant: the UPDATE has no condition on execution_token_used_at.
ExecuteLockAnyToken(r, c) ==
    LET a == Rec(r).id IN
    /\ MayExecute(r) /\ ~TooLate(Rec(r))
    /\ c \notin {Rec(r).code, Rec(r).execCode}
    /\ db[a] # None /\ db[a].status = "approved"
    /\ db' = [db EXCEPT ![a].status = "executing", ![a].used = TRUE, ![a].execCode = c]
    /\ runs' = runs \cup {[r |-> r, a |-> a, x |-> req[r].x, code |-> c]}
    /\ req' = [req EXCEPT ![r].pc = "execute_mark", ![r].code = c]
    /\ Hold(r)
    /\ UNCHANGED <<heap, cache, reading, now, created, decisions, rejected>>

\* The conditional UPDATE that takes the token in the row.
ExecuteLock(r, c) ==
    LET a == Rec(r).id IN
    /\ MayExecute(r) /\ ~TooLate(Rec(r))
    /\ c \notin {Rec(r).code, Rec(r).execCode}
    /\ db[a] # None /\ db[a].status = "approved" /\ ~db[a].used
    /\ db' = [db EXCEPT ![a].status = "executing", ![a].used = TRUE, ![a].execCode = c]
    /\ runs' = runs \cup {[r |-> r, a |-> a, x |-> req[r].x, code |-> c]}
    /\ req' = [req EXCEPT ![r].pc = "execute_mark", ![r].code = c]
    /\ Hold(r)
    /\ UNCHANGED <<heap, cache, reading, now, created, decisions, rejected>>

\* The same fields are then assigned on the object, whose token is still unspent: the
\* first assignments, status and executed_by, write the token back as unspent with it ...
ExecuteMark(r) ==
    /\ Runs(r, "execute_mark")
    /\ Save(req[r].obj, [Rec(r) EXCEPT !.status = "executing"])
    /\ req' = [req EXCEPT ![r].pc = "execute_count"]
    /\ UNCHANGED <<cache, loop, reading, now, created, decisions, runs, rejected>>

\* ... as do execution_mfa_counter and execution_token_hash ...
ExecuteCount(r) ==
    /\ Runs(r, "execute_count")
    /\ Save(req[r].obj, [Rec(r) EXCEPT !.execCode = req[r].code])
    /\ req' = [req EXCEPT ![r].pc = "execute_enter"]
    /\ UNCHANGED <<cache, loop, reading, now, created, decisions, runs, rejected>>

\* ... until execution_token_used_at itself is assigned.
ExecuteEnter(r) ==
    /\ Runs(r, "execute_enter")
    /\ Save(req[r].obj, [Rec(r) EXCEPT !.used = TRUE])
    /\ req' = [req EXCEPT ![r].pc = "execute_run"]
    /\ UNCHANGED <<cache, loop, reading, now, created, decisions, runs, rejected>>

\* Mutant: a failure leaves the record as it is.
ExecuteEndUnrecorded(r, outcome) ==
    /\ Runs(r, "execute_run")
    /\ outcome \in {"executed", "execution_failed"}
    /\ IF outcome = "executed" THEN Save(req[r].obj, [Rec(r) EXCEPT !.status = outcome])
                               ELSE UNCHANGED <<heap, db>>
    /\ Finish(r) /\ Release(r)
    /\ UNCHANGED <<cache, reading, now, created, decisions, runs, rejected>>

\* The gateway lifecycle or the remediation plan returns or raises.
ExecuteEnd(r, outcome) ==
    /\ Runs(r, "execute_run")
    /\ outcome \in {"executed", "execution_failed"}
    /\ Save(req[r].obj, [Rec(r) EXCEPT !.status = outcome])
    /\ Finish(r) /\ Release(r)
    /\ UNCHANGED <<cache, reading, now, created, decisions, runs, rejected>>

-----------------------------------------------------------------------------
(* Threads and the environment.                                            *)

\* GET /approvals/{id}: a thread looks the record up and checks its expiry.
Look(w, a, o) ==
    /\ Get(w, a, o)
    /\ UNCHANGED <<loop, req, reading, now, created, decisions, runs, rejected>>

\* _load_all_records, and _load_record in a thread, first read the row ...
ReadRow(w, a) ==
    /\ "listing" \in Env /\ db[a] # None /\ reading[w][a] = None
    /\ reading' = [reading EXCEPT ![w][a] = db[a]]
    /\ UNCHANGED <<db, heap, cache, loop, req, now, created, decisions, runs, rejected>>

\* ... and then put a new object in the dictionary, whatever is there by now.
InstallRow(w, a, o) ==
    /\ reading[w][a] # None /\ Fresh(o)
    /\ Put(w, a, o, reading[w][a])
    /\ reading' = [reading EXCEPT ![w][a] = None]
    /\ UNCHANGED <<loop, req, now, created, decisions, runs, rejected>>

\* /test/expire, a thread too: any record becomes pending and past its expiry.
ForceExpire(w, a, o) ==
    /\ "testRoute" \in Env
    /\ Finds(w, a, o)
    /\ cache' = [cache EXCEPT ![w][a] = o]
    /\ Save(o, [Found(w, a, o) EXCEPT !.expires = 0, !.status = "pending"])
    /\ UNCHANGED <<loop, req, reading, now, created, decisions, runs, rejected>>

\* The process dies, with its dictionary and its handlers, and starts again.
Crash(w) ==
    /\ "crash" \in Env
    /\ cache' = [cache EXCEPT ![w] = [a \in Approvals |-> None]]
    /\ reading' = [reading EXCEPT ![w] = [a \in Approvals |-> None]]
    /\ loop' = [loop EXCEPT ![w] = None]
    /\ req' = [r \in Requests |-> IF req[r].w = w THEN Gone ELSE req[r]]
    /\ UNCHANGED <<db, heap, now, created, decisions, runs, rejected>>

Tick ==
    /\ now < MaxNow
    /\ now' = now + 1
    /\ UNCHANGED <<db, heap, cache, loop, req, reading, created, decisions, runs, rejected>>

HandlerStep(r) ==
    \/ \E w \in Workers, a \in Approvals, x \in Actors, o \in Objects, pc \in Waiting :
         Begin(r, pc, w, a, x, o)
    \/ Refuse(r)
    \/ \E c \in Codes \cup {None} : ApproveMark(r, c)
    \/ ApproveSeal(r)
    \/ RejectFinish(r)
    \/ ExecuteLapse(r)
    \/ \E c \in Codes : ExecuteLock(r, c)
    \/ ExecuteMark(r)
    \/ ExecuteCount(r)
    \/ ExecuteEnter(r)
    \/ \E outcome \in {"executed", "execution_failed"} : ExecuteEnd(r, outcome)

ThreadStep(w, a, o) ==
    Create(w, a, o) \/ Look(w, a, o) \/ InstallRow(w, a, o) \/ ForceExpire(w, a, o)

Next ==
    \/ \E r \in Requests : HandlerStep(r)
    \/ \E w \in Workers, a \in Approvals, o \in Objects : ThreadStep(w, a, o)
    \/ \E w \in Workers, a \in Approvals : ReadRow(w, a)
    \/ \E w \in Workers : Crash(w)
    \/ Tick

Spec == Init /\ [][Next]_vars

\* A handler that holds the loop runs on: nothing else can take the loop from it,
\* and the calls it makes have timeouts of their own.
FairSpec ==
    /\ Spec
    /\ \A r \in Requests :
         WF_vars(ApproveSeal(r) \/ ExecuteMark(r) \/ ExecuteCount(r) \/ ExecuteEnter(r)
                 \/ \E outcome \in {"executed", "execution_failed"} : ExecuteEnd(r, outcome))
-----------------------------------------------------------------------------
(* What the workflow promises.                                             *)

\* "execution is single-use": the token of an approval is taken by one /execute
\* call at most, however approvals, retries and restarts interleave with it.
SingleUse == \A m, n \in runs : m.a = n.a => m.r = n.r

\* No execution, and no trace of one in the table, without a decision of /approve.
HumanDecision ==
    /\ \A m \in runs : \E d \in decisions : d.a = m.a
    /\ \A a \in Approvals :
         db[a] # None /\ db[a].status \in {"approved", "executing", "executed", "execution_failed"}
            => \E d \in decisions : d.a = a

\* A row says an execution started, failed or succeeded only if one has taken the token.
HonestStatus ==
    \A a \in Approvals :
        db[a] # None /\ db[a].status \in {"executing", "executed", "execution_failed"}
            => \E m \in runs : m.a = a

\* A spent token is given back by nobody but the call that took it, and by that one only
\* while it has yet to assign execution_token_used_at on its object.
TokenStaysSpent ==
    [][\A a \in Approvals :
         db[a] # None /\ db[a].used /\ ~db'[a].used
            => \E r \in Requests :
                 req[r].pc \in Entering /\ Rec(r).id = a /\ req'[r] # req[r]]_vars

\* tests/test_hitl_workflow.py: "Rejected approvals cannot execute".  They cannot unless
\* an /approve call had looked at the status before the rejection and came back after it.
RejectedNeverExecutes ==
    [][\A m \in runs' \ runs : m.a \notin rejected]_vars

\* The workflow implements ExecutionGrant.
Grant == INSTANCE ExecutionGrant
    WITH Codes <- Codes \cup {None},
         granted <- decisions,
         spent <- {[a |-> m.a, x |-> m.x, code |-> m.code] : m \in runs}
GrantSpec == Grant!Spec

\* An execution that has taken the token ends, and the row says how.
ExecutionSettles ==
    \A r \in Requests, a \in Approvals :
        (req[r].pc \in Entering /\ Rec(r).id = a)
            ~> (db[a] # None /\ db[a].status \in {"executed", "execution_failed"})
=============================================================================
