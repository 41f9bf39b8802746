# AuthClaw in TLA+

AuthClaw is a governance gateway for language models. A client's request enters the Go
gateway, which asks for a policy decision and proxies what may pass to the FastAPI backend;
the backend runs the request through a graph of nodes (redaction, policy, risk, decision,
approval, provider, response checks, audit), asks a human where a policy or the risk class
says so, calls the model provider, and records what happened in a hash-chained ledger, in
PostgreSQL tables and, by way of Kafka and ClickHouse, in analytics.

This directory models the parts of it whose correctness depends on the order of steps:
several handlers of one event loop, threads beside the loop, several processes, crashes
between two commits, lost writes, answers that come late or not at all. Paths below are
relative to the repository.

## 1. Inventory

### Components that are modelled

| component | state | operations | module |
|---|---|---|---|
| Approval workflow (`approval_store.py`, `main.py` 1219-1783) | rows of `gateway_approvals`; per process the dictionary `_approvals` of record objects, each assignment to which writes the whole row back | `create_approval`, `/approve`, `/reject`, `/execute`, look-ups with lazy expiry, listings, the test route | `ApprovalWorkflow` |
| Audit ledger (`verify_audit.py`) | rows of `audit_logs` with hash and previous hash | `create_audit_block` (two transactions), `verify_audit_chain` | `AuditChain` |
| Event delivery (`services/event_pipeline.py`) | `event_delivery_records`, `event_dead_letters`; Kafka and ClickHouse, each configured or not | `record_and_deliver`, `deliver_event`, `retry_dead_letters` (the numbers of `refresh_checkpoint` are for display and left out) | `EventPipeline` |
| Request graph (`graph.py`, `nodes/`, `services/gateway_service.py`) | the graph state of a request; approvals, ledger row and `gateway_requests` row it leaves | chat, execution of an approval, every node, time limits, failures | `RequestPipeline` |
| Remediation (`services/remediation_runtime.py`, `services/worker_throttle.py`) | findings, plans, approvals, worker runs with leases | scan, plan, request approval, execute, throttle, expiry | `Remediation` |
| Streaming redaction (`gateway-go/internal/gateway/redactor.go`, `redacting_body.go`) | carry, pending output, end of stream | `Read`, `Process`, failure, `Close` | `StreamRedaction` |
| Policy preflight (`gateway-go/internal/gateway/server.go`, `policy.py`, `main.py` 3583-3680) | the circuit breaker, `policy_evaluation_audit` | decision in the gateway, fallback to the backend, OPA with breaker, local engine | `GatewayPreflight` |
| Gateway audit producer (`gateway-go/internal/audit/producer.go`) | bounded queue, event in hand, topics | `Publish`, `run`, attempts, dead letters | `AuditProducer` |
| Decision on a text (`services/policy_engine.py`, `policy.py` 56-240, 530-682, `main.py` 3590-3635) | the policies in force, in the order of their ids | a policy comes into force or goes; evaluation by OPA's compiled module, for a query with the body of the request and for one without, by the engine, by `enforce_policy` | `PolicyDecision` |
| Sign-in (`main.py`, the `/auth` endpoints; `services/enterprise_identity.py`) | users, MFA sessions, refresh tokens, reset tokens, OIDC login states | sign-in, MFA set-up and verification, refresh, logout, reset request and confirmation, OIDC start and callback | `SignIn` |
| Onboarding (`main.py` 5873-5938, 6598-6821) | registrations, tenants, users, default policies | register, verify address, verify domain, activate, the copy of old tenants | `Onboarding` |
| Identity provider keys (`services/enterprise_identity.py` 430-560) | the provider's row, the row of the key cache | fetch, store, failure, stale use, second look-up | `ProviderKeys` |
| API keys and rate limits (`main.py` 232-308, 6998-7051) | `tenant_api_keys`; per minute, a counter in Redis and one in each process | generate, revoke, rotate, use; the limiter: count, fall back, bypass, drop old counters | `AccessKeys` |
| Provider credentials (`main.py` 7060-7311, `services/provider_router.py`, `services/secret_manager.py`) | the secret backend and `tenant_credentials` | connect, test, rotate, disconnect, the choice for a request | `ProviderCredentials` |
| Tenant isolation (`database/__init__.py`, `services/tenant_context.py`, `database/migrations.py` 1097-1441) | a thread's context; the settings of pooled connections; row level security | sign-in by key or token, statements, commit, rollback | `TenantIsolation` |
| Policy lifecycle (`main.py` 2509-2594, 2972-3581) | `policies`, `policy_versions`, `policy_change_approvals` | create, update, publish, approve, reject, archive, roll back, delete | `PolicyLifecycle` |
| Policy bundles (`services/policy_bundle_manager.py`) | manifests, the file of active bundles | build, promote, roll back | `PolicyBundles` |
| Document scans (`document_processing/monitoring.py`, `connectors.py`, `orchestrator.py`) | the file, `documents` | a pass: list, delete, register, fetch, judge | `Documents` |
| Signed exports (`verify_audit.py` 76-124, `main.py` 5060-5099) | the export in the making | list, verify twice, read the root, sign | `SignedExports` |

### How they interact

* Gateway to backend: HTTP. `GatewayPreflight` decides; a request it lets pass becomes a chat
  of `RequestPipeline`; the answer comes back through `StreamRedaction`; at its end the
  gateway publishes an event by `AuditProducer`.
* `RequestPipeline` creates approvals (a thread with a time limit), and `/execute` of
  `ApprovalWorkflow` runs the graph again with the approval granted. A remediation plan is
  executed by the same `/execute`, which calls `Remediation`.
* Every handler writes blocks with `create_audit_block` (`AuditChain`), which hands each block
  to the event pipeline (`EventPipeline`).
* What a policy decides of a text is an input of `RequestPipeline` and `GatewayPreflight`;
  `PolicyDecision` is what computes it, over the policies that `PolicyLifecycle` and, for OPA,
  `PolicyBundles` put in force. A provider's choice is an input likewise
  (`ProviderCredentials`).
* `SignIn` and `AccessKeys` say whose a request is; its thread then runs in the context that
  `TenantIsolation` is about. `Onboarding` makes tenants and their first users.
* Shared state: the PostgreSQL tables, used by threads and processes alike; the dictionary of
  approvals, one per process, used by the event loop (`async def` endpoints) and by threads
  (`def` endpoints); the OPA circuit breaker and the rate counters, one per process; the
  connection pool; the directory of bundles.

`/approve`, `/reject` and `/execute` are coroutines: they hold the event loop except where
they await the body of the request. The other endpoints run in threads and interleave with
them and with each other. The container starts one process (`Dockerfile`:34); the number of
containers is a variable (`deployment/terraform/variables.tf`:81).

### What is hard, and the property that speaks of it

The list with lines is `hazards` of `PROJECT.json`; in short:

* a record or status read before an await and used after it (`RejectedNeverExecutes`,
  `TokenStaysSpent`, `SingleUse`);
* a listing that puts an older row over a newer record (`SingleUse`);
* two transactions where one is meant (`QuietChainVerifies`, `FlagsOnlyTampering`,
  `UsedOnce`, `OneSuccessor`);
* a crash between recording an event and delivering it (`FailuresAreKept`);
* a time limit that fires while the work goes on (`CallsAreCleared`, `RecordsAgree`,
  `ProxiedIsJudged`);
* a value read and written back later by threads that overlap (`AppliedIsGranted`,
  `RegisterSpec`, `InForceIsChecked`, `PromotionsStand`, `VerdictsAreOfTheirSize`);
* a sensitive value cut by the end of a chunk (`NothingLeaks`, `TextIsKept`);
* answers lost after the work was done (`DeliveredIsThere`, `WaitingEnds`);
* two stores or tables that have to agree while one of them fails (`DisconnectedIsUnused`,
  `TenantIsWhole`);
* something withdrawn that is still cached, open or pooled (`ResetSignsOut`,
  `WithdrawnKeysEnd`, `TenantsAreApart`);
* two sources of one decision, of which either may not answer, or answers another question
  (`NoPolicyWeakens`, `ProxiedIsJudged`, `OutageIsBridged`, `OutageKeepsEnforcement`);
* a call that was counted and failed, or a counter that is dropped while it counts
  (`LimitHolds`).

### Components that are not modelled

| component | why |
|---|---|
| Text redaction and detection of the backend (`redaction.py`, `services/sensitive_data_detection.py`), risk classes, inspection of responses | regular expressions and models over text: the modules take what they find as an input |
| Chat memory (`memory.py`), RAG (`rag/`), observability, compliance evidence, plans, trust center, red team | reads, single upserts, recomputations that nothing else reads back |
| Start-up checks, static RBAC tables, report and export formats, connectors' wire formats, SDK, frontend, deployment files | I/O, static tables or configuration; what they set are constants of the modules |

Parts of modelled components that are left out are named in the module's header and in the
notes of `PROJECT.json`.

## 2. The modules

Every module that models code names in its header the files it is taken from, and `map` of
`PROJECT.json` gives the lines of every definition. Names of actions follow the functions of
the code, or say which part of one they are: an action is what runs between two points where
another actor may get in (an await, a commit, a call of a service).

**`ApprovalWorkflow`.** `db` is the table, `heap` and `cache` the record objects and the
dictionary of each worker process, `loop` who holds its event loop. `Save` is the write-back
that each assignment to a record performs; with `"lostWrite"` in `Env` it may fail silently as
the code lets it. `Begin` is a handler up to the wait for its body; the actions after it are
its groups of assignments, between which a crash may fall. `ApproveMark` assigns the status,
`ApproveSeal` the rest of `/approve` at once: its halves differ in no status, and no property
tells them apart. `/execute` takes the token by an `UPDATE` (`ExecuteLock`) and then assigns
eight fields of the object, each of which writes the whole row: until `execution_token_used_at`
is assigned (`ExecuteEnter`) the object does not know that the token is spent, so that
`ExecuteMark` (status, `executed_by`) and `ExecuteCount` (counter, token hash) write it back as
unspent; a crash there leaves it so. `ReadRow` and `InstallRow` are a listing in a thread;
`ForceExpire` the test route. `Lapsed` and `Checked` are the expiry that every look-up
performs. `decisions`, `runs` and `rejected` are histories.

**`ExecutionGrant`** says what the workflow promises, without processes or rows: an actor
grants with a code, and a grant is spent at most once, by the actor who gave it, with another
code. `ApprovalWorkflow` implements it (`GrantSpec`) in the deployment with one process, no
listing and no crash; the proof has it even if writes are lost.

**`AuditChain`.** A hash is the list of the blocks it depends on, so that two hashes are equal
exactly if all they are computed from is. `Insert`, `CommitInsert`, `FindPrevious` and `Link`
are the steps of `create_audit_block`; ids are given at `INSERT` and rows become visible at
commit. `Fault` and `Valid` are the check. The constants `OneWriter`, `Dying` and `Touched`
say of each tenant whether its calls overlap, die half way, and whether its rows are edited or
deleted by hand; so one instance holds a quiet tenant beside a troubled one.
**`AppendOnlyLedger`** is the abstract specification, implemented for the quiet tenants
(`LedgerSpec`).

**`EventPipeline`.** A task is a thread that delivers one event or retries dead letters.
`setting` says of each sink whether it has a URL, has none, or has none and is required: a sink
without a URL is passed over, or, where it is required, fails every attempt. With neither sink
configured an event is called delivered and nothing was sent; `DeliveredIsThere` speaks of the
sinks that are set or required. `died` is a history: the events whose task has died.

**`RequestPipeline`.** The graph's state is a record of the fields that nodes return; `Merge`
drops those that `AuthState` does not declare, as the graph does (external: LangGraph). What
the detectors, the policies and the risk classifier say of a message is an input. `Fail` is
every exception of a node, `Misconfigured` the `ValueError` that is raised again instead of
being recorded.

**`Remediation`.** A call is a thread; what it creates is named after it. `granted` and
`applied` are histories. `UseRedis` selects the branch of `_active_count`; the runs use the
table.

**`StreamRedaction`.** A text is a sequence of symbols (begin of a value, its continuation,
newline, other), and what is held and given out are sequences of positions of the text, so
that what happens to a place of the text can be said exactly. One pattern of fixed length
stands for the list of regular expressions.

**`GatewayPreflight`.** `deployment` is chosen at the start and stays: whether the gateway
itself asks OPA, whether OPA is required, what OPA may do, whether calls may fail. The gateway's
query of OPA has the body of the request, and OPA answers it by the policies; the backend's has
none, so that every rule is undefined and OPA answers with its default, ALLOW
(`DefaultDecision`; `policy.py`:134-136, `main.py`:3599). `verdict` is what the policies say of a
text, which OPA with a body and the engine apply; `clashing` are the texts to whose query OPA
answers with an error (below). OPA may be up, refuse, hang, have no policies (`"unloaded"`: no
result), answer with an object that has no decision (`"bare"`: the gateway and the backend
both make it ALLOW) or with something else (`"odd"`: the gateway asks the backend, the backend
its engine).

**`AuditProducer`.** The queue, the goroutine's event with its target and attempt, the topics
as sequences of records. The proxy may take an event and lose its answer.

**`PolicyDecision`.** Deciding changes nothing: `Evaluate` (the engine), `OpaDecides` (the
module compiled from `policies.yaml`), `Judged`, `Passes`, `Proxied` and `Enforced` are operators
of a text and the list of policies, and the steps are policies that come into force and go. A text
is what is found in it; a phrase or a value counts as found where OPA and the engine both look
for it, since their lists differ; `level` is the strongest keyword of `policies.yaml`, which only
OPA reads. The rules need `input.context.body`: `Query` of the gateway has it, that of the backend
has not and comes to ALLOW. The compiled module gives `risk_level` two values for a text
that is to be redacted and is also blocked or of high risk: OPA refuses such a query
(`OpaAnswers`), so that the backend is asked, and there OPA's default, the engine or the closed
door decides.

**`SignIn`, `Onboarding`, `AccessKeys`, `ProviderCredentials`, `PolicyLifecycle`,
`PolicyBundles`, `Documents`, `ProviderKeys`.** A call is a thread, an action what it does
between two commits or accesses to a store. Rows are sets of records, named after the call that
made them. `beside` and `before` are histories of which calls ran at the same time (in
`AccessKeys`: which rotations); `stale`, `disturbed` and `overlapped` of whether any did in the
way that matters. Threads die where the code can leave something half done. These modules take
the database role of the default `DATABASE_URL`, a superuser; **`TenantIsolation`** is about
the other kind, which the forced policies bind, and about what connections carry from one
request to the next. With that role the `UPDATE` that signing in with a key makes is refused
(below), and so would be other writes that come before a tenant is in the context.

The limiter of `AccessKeys`: a worker's event loop is blocked from the moment a call has read the
clock until it is counted (`Free`), so a worker has one such call at a time, though calls of
several workers meet in Redis. Redis may fail a call before or after it counted it; then the
worker's counter decides, or, where Redis is required, the exception bypasses the limiter. Old
counters go: a worker's when it counts, Redis' 90 seconds after a minute's first call (`Forget`).
A restart of Redis, and `_tenant_tier_limit` falling back to the default tier when the database fails
(`Limit` is a constant), are left out. `token` is a history of what counted a call and what
decided on it.

**`VersionRegister`** is what the versions of a policy promise: a list of rules to which an edit
adds at the end and in which nothing is replaced, and a policy that is the last of them.
`PolicyLifecycle` implements it (`RegisterSpec`): the list is read off the version rows, the
policy off its own row, and `torn` is `stale`, since two edits that overlap may write over each
other. Publish, approve and archive are stutters, though each writes a version's row again.

**`SignedExports`** extends `AuditChain` by an export, whose reads are transactions of their
own among the steps of the writers.

The `MC…` modules give TLC symmetry sets and instances. `MCRuntime`, `MCGateway`, `MCSignIn`
and `MCControlPlane` are sums: their parts share no state of these models, `Init` chooses the
part that moves, and the others stay in one initial state, so that a run explores the sum of
the parts' states and not the product. Each property of such a run is the part's own. Mutants
are small definitions beside the ones they replace, named in a comment. The `…Proofs` modules extend
what they prove about: a module by itself or a sum.

## 3. What the runs check

| run | states | what it shows |
|---|---|---|
| `approval_one_worker` | 468 k | one process: type, `SingleUse`, the refinement `GrantSpec`, `TokenStaysSpent`, `RejectedNeverExecutes`, and under fairness `ExecutionSettles` |
| `approval_workers` | 2.2 M | two processes, each with an object of its own of the one approval, or two objects in one after a listing; listings, the test route, crashes, lost writes: `HumanDecision`, `HonestStatus` |
| `approval_listing` | | a violation: with listings `SingleUse` fails |
| `audit_concurrent` | | a violation: with two writers of one tenant `FlagsOnlyTampering` fails |
| `event_delivery` | 757 k | two tasks, two events, nine configurations of the sinks, outages, time-outs, deaths: `DeliveredIsThere`, `FailuresAreKept`, `EveryEventSettles` |
| `request_and_remediation` | 401 k | two requests with every failure of their environment: `CallsAreCleared`, `RecordsAgree`, `EveryRequestEnds`; three remediation calls, a finding, two plans: `AppliedIsGranted`, `ThrottleRecovers`; up to two policies over every text: `NoPolicyWeakens` |
| `request_security_block` | | a violation: `SecurityBlockHolds` |
| `gateway` | 454 k | streams (every text of five symbols, every line pattern of seven, every cut): `NothingLeaks`, `TextIsKept`; preflight (two requests, four set-ups): `ProxiedIsJudged`, `OutageIsBridged`; producer (three events, a queue of two): `WaitingEnds` |
| `gateway_outage` | | a violation: when OPA is away for the gateway's query and back for the backend's, `OutageKeepsEnforcement` fails |
| `sign_in` | 1.7 M | four sign-in calls: `UsedOnce`, `ResetSignsOut`; four onboarding calls: `TenantIsWhole`; two callbacks over time: `WithdrawnKeysEnd` |
| `control_plane` | 1.1 M | `OneSuccessor`, `LimitHolds`, `DisconnectedIsUnused`, `TenantsAreApart`, `InForceIsChecked`, the refinement `RegisterSpec`, `PromotionsStand`, `VerdictsAreOfTheirSize`; the chains of two tenants, one quiet, one with overlapping and dying writers and hand-made changes: `QuietChainVerifies`, `LedgerSpec` |
| `api_key_login` | | a violation: for a role without superuser rights `KeysAuthenticate` fails |

`Typed` is the conjunction of the type invariants of a sum's parts.

Several properties hold only up to a point the code makes visible, and say so: after a thread has
died (`died`), for tenants whose writers do not overlap (`Quiet`), for an approval that nobody was
approving when it was rejected (`rejected`), but for the call that has taken a token and has yet to
assign it (`TokenStaysSpent`), for sinks that are set or required (`DeliveredIsThere`), but for what
OPA answers to a query without a body (`NoPolicyWeakens`) and for an answer without a decision
(`ProxiedIsJudged`), for calls that Redis counted within their minute (`late`), but for calls that
ran at the same time (`beside`, `stale`, `disturbed`, `overlapped`). The conditions are not
conveniences: dropping any of them makes TLC find a counterexample that the code has too.

### Bounds, and why they are enough

* Approvals: one (operations of different approvals share nothing but the event loop), four
  handlers, so that a grant, a second grant, an execution and a competing call meet; the clock
  stops at `MaxNow`, past both windows; two codes, so that one can be used twice. With two
  workers there are two objects, two handlers and no clock: both processes can hold the record
  and disagree, and a listing can put a second object over one that a handler works on. `View`
  leaves out what an object held that nothing refers to any more.
* Ledger: four ids, of which one is a row older than the hash columns, three calls, two
  tenants: enough for a fork between two calls, an unhashed row between hashed ones and a
  deletion in the middle. Exports are taken of the quiet tenant while one body is written and
  nobody edits rows: two blocks can be linked between an export's reads.
* Events: two tasks, two events, three attempts (the code's default), two dead letters per retry:
  two retriers can hold the same list while the state of one of its events changes.
* Requests: two, of which one may execute what the other asked approval for.
* Remediation: three calls over findings that may be there from the start: two requests and an
  execution, or two executions of one approval, or a scan beside them; `Limit` is one.
* Streams: a value has three symbols, the carry holds two, a read gives up to three: values
  straddle reads, the carry and the cut in every way. The seven-symbol texts of lines and
  plain text are more than three times the carry.
* Preflight: two requests, so that one opens the breaker under the other, and the clock passes
  the breaker's time; the set-ups are: the backend alone asks an OPA that may hang; the gateway
  asks one that may refuse, in production and out of it; one that never has an answer about the
  text (no policies, no decision, no object, hanging).
* Producer: the queue is shorter than the number of events; two attempts at each topic.
* Decisions: one built-in topic of the three, one word, policies of one category or none, with
  and without an action and an action of their own for secrets; two policies, since the order
  of two is what decides.
* Sign-in and onboarding: four calls of one user, two addresses and one domain: a thing made,
  used twice and something beside it. Provider keys: one site changes its key, one does not;
  the clock passes both windows.
* Control plane: three calls in each part (four edits of a policy, one of which creates it),
  two of what the part has several of (workers, providers, tenants, requests, passes), one
  pooled connection, which both requests get; document passes overlap once. Limits: three calls of two
  workers, a limit of one, and three minutes, so that a worker drops a counter of the last but one;
  keys and limits move in separate parts, since a key only admits the call.

`CHECK_DEADLOCK FALSE` stands where the instance really ends: all calls have been made, all
events have settled, the stream is closed, the bounds are reached. The approval runs check
deadlock: an idle handler can always be begun or the clock, the listing or a look-up go on.

### Fairness

* `ApprovalWorkflow`: a handler that has passed its await runs to its end, because it holds
  the event loop and the calls it makes have time limits of their own. Nobody has to call.
* `EventPipeline`, `AuditProducer`: a thread or goroutine goes on; every HTTP call has a
  time limit (2 s).
* `RequestPipeline`: a node that waits has a time limit (5 s, 30 s), so that each wait ends.
* `Remediation`: threads go on, and time passes (`Expire`).
* `GatewayPreflight`: a goroutine or a thread that can go on does.

The fairness of a part in a sum is the part's own, for as long as it is the part that moves.

Nowhere is an environment step (a human, a client, OPA coming back, a crash) assumed to happen.

### What the violations and the conditions show

1. `approval_listing`: `_load_all_records` puts a record made of an older row over the one in
   the dictionary. If an execution took the token in between, a later `/approve` writes the
   stale record back, token and all, and the approval executes twice.
2. `audit_concurrent`: the first commit of `create_audit_block` is before the read of the
   previous hash; two blocks of one tenant made at once are linked to the same block, and the
   untouched chain is reported as broken from then on.
3. `request_security_block`: `redact_node` returns `security_approved` and
   `security_findings`, which `AuthState` does not declare. The next node does not get them, and
   a message whose findings block it goes to the provider if the policies allow it.
4. `api_key_login`: `resolve_tenant` writes `last_used_at` in a context that names no tenant;
   for a role that is bound by the forced policies, as the one the set-up script makes, the
   statement is refused and no API key is accepted.
5. `gateway_outage`: OPA is away when the gateway asks it, so the backend is asked; OPA is back by
   then, the backend's query has no body (`main.py`:3599), and OPA answers it with ALLOW: a text
   that its policies block is proxied, though they and the engine would both have blocked it.

Seen while modelling, and recorded as the conditions of properties or in the hazards:

* `/approve` looks at the status before it awaits the body and not after: a rejection that
  completes in between is overwritten (`main.py`:1303, the condition in `rejected`).
* A crash between the assignments of `/approve` leaves an approved record that names no
  approver; any actor may execute it (`main.py`:1355; `GrantSpec`, which says that the
  grantor executes, is checked and proved without crashes).
* A call of `create_audit_block` that dies between its commits leaves a row without a hash,
  which the check reports for ever. `/metrics` checks the rows of all tenants as one chain,
  while blocks are linked per tenant (`main.py`:2253).
* `retry_dead_letters` reads dead letters only; an event whose thread dies while it is queued
  is never delivered (`services/event_pipeline.py`:150, the condition `died`).
* `risk_node` overwrites the risk level a policy set; a policy that requires approval with a
  LOW class is approved automatically (`nodes/approval_node.py`:67). `CallsAreCleared` speaks
  of the class for that reason. Executing an approval under such a policy asks for
  another approval while the old one is marked executed (`nodes/policy_node.py`:54). A
  provider configuration error leaves no `gateway_requests` row.
* With Redis the worker throttle reads a counter that nothing writes
  (`services/worker_throttle.py`:39).
* A streamed value of open length (a token, an assignment) whose first part is already a match
  is replaced too early and the rest of it flushed (`redactor.go`:172); the run uses a value of
  fixed length.
* What OPA answers the backend says nothing of the text, in an outage or not: where the gateway
  has no OPA of its own, an OPA that is up lets everything pass the preflight
  (`main.py`:3599-3603), and `evaluate_gateway_policy` records it as OPA's decision. So
  `ProxiedIsJudged` says who decided, that it is on record, and what the engine may not have
  done; not that OPA's word is about the text.
* An OPA that hangs uses up the time of the gateway's fallback (`server.go`:229). One without
  policies, or with a result that has no decision, is taken to allow (`server.go`:317-319); one
  that answers in another shape is followed by the local engine even where OPA is required
  (`policy.py`:303-336).
* A crash between `UPDATE` and `execution_token_used_at` leaves an executing row with its token
  unspent (`main.py`:1635-1641): `TokenStaysSpent` names that call, and
  single use rests on the status, which only the test route (`main.py`:1774) sets back to pending.
* With neither sink configured `deliver_event` records an event as delivered that was sent nowhere
  (`services/event_pipeline.py`:249, 269).
* Calls that bypass the limiter after a failure, and several workers' counters beside Redis', are
  limited by nothing in sum, and a strict Redis limiter is bypassed when Redis fails. A handler
  that raises is called a second time by the middleware's `except` clause (`main.py`:286-304).
* The mock and Drive listings give constant sizes, not those of the content, so every pass takes an
  unchanged document of theirs for a modified one (`document_processing/monitoring.py`:261-268,
  `connectors.py`:513, 581-603).
* One-time things (MFA sessions, reset tokens, login states, a key's rotation) are read in one
  transaction and marked in another, without a condition: two calls that overlap both succeed
  (the exceptions in `UsedOnce` and `OneSuccessor`). A reset ends refresh tokens but not open
  MFA sessions (`ResetSignsOut`).
* Two updates of a policy that read one version write the same next one; publishing validates
  the rules it read (`stale` in `RegisterSpec` and `InForceIsChecked`). Promotions of two
  tenants share one file without a lock (`disturbed`).
* A tenant's policy may allow what the built-in rules would block of the detected categories
  (`policy_engine.py` 366-389); `NoPolicyWeakens` says what it may not do: take away
  what an earlier policy decides, let a built-in phrase pass, or let a text with a detected
  value go on unredacted.
* A signed export that is made while a block is between its two commits says that the chain
  is not valid, and its root may cover more blocks than it says were checked.

## 4. What is proved

Every safety property of the passing runs, state or action, and the three refinements are theorems:
TLC checks them on the instances of section 3, the proof system for every value of the
constants. Eight modules hold the proofs:

| module | theorems | states |
|---|---|---|
| `ApprovalWorkflowProofs` | `TypeCorrect`, `HumanDecisionHolds`, `HonestStatusHolds` | `TypeOK`, `HumanDecision`, `HonestStatus` |
| | `SingleUseHolds`, `TokenStaysSpentHolds` (under `Deployment`) | `SingleUse`, `TokenStaysSpent` |
| | `GrantHolds`, `RejectedNeverExecutesHolds` (under `Steady`) | `GrantSpec`, `RejectedNeverExecutes` |
| `EventPipelineProofs` | `DeliveryHolds`, `FailuresAreKeptHolds` | `DeliveredIsThere`, `FailuresAreKept` |
| `RuntimeProofs` | `ClearanceHolds`, `AgreementHolds`, `ApplicationHolds`, `ProtectionHolds`, `TypesHold` | `CallsAreCleared`, `RecordsAgree`, `AppliedIsGranted`, `NoPolicyWeakens`, `Typed` |
| `GatewayProofs` | `TextIsKeptHolds`, `ProxiedIsJudgedHolds`, `TypesHold` | `TextIsKept`, `ProxiedIsJudged`, `Typed` |
| | `NothingLeaksHolds` (under `FixedLength`) | `NothingLeaks` |
| `SignInProofs` | `UsedOnceHolds`, `ResetSignsOutHolds`, `WholenessHolds`, `WithdrawalHolds`, `TypesHold` | `UsedOnce`, `ResetSignsOut`, `TenantIsWhole`, `WithdrawnKeysEnd`, `Typed` |
| `ControlPlaneProofs` | `SuccessionHolds`, `LimitIsKept`, `DisconnectionHolds`, `SeparationHolds`, `InForceHolds`, `RegisterHolds`, `VersionsHold`, `PromotionsHold`, `VerdictsHold`, `QuietChainHolds`, `LedgerHolds`, `TypesHold` | `OneSuccessor`, `LimitHolds`, `DisconnectedIsUnused`, `TenantsAreApart`, `InForceIsChecked`, `RegisterSpec`, `VersionsStay` (which no run checks: `RegisterSpec` says more), `PromotionsStand`, `VerdictsAreOfTheirSize`, `QuietChainVerifies`, `LedgerSpec`, `Typed` |
| `TenantIsolationProofs`, `OnboardingProofs` | `SettingsAreCarried`, `TenantsAreApartHolds`, `TenantIsWholeHolds` | what `SeparationHolds` and `WholenessHolds` rest on, of the modules by themselves |

### The argument of each

A property is seldom inductive; what is added to it is named and explained here, since it says
why the code works.

*Approvals.* That an approved status has a decision behind it must hold of every copy from which
a row can be written. `IInv` adds that to the types: the objects that dictionaries and
handlers refer to are records of the approval they are filed under (`Linked`), and each copy
(row, object, row read by a listing) whose status tells of a grant has a decision (`Decided`).
`Honest` is the same for executions: a copy tells of one only if a token was taken, and a handler
that runs one has taken it. Both hold in every environment. A step changes at most one object and
one row, by `Save`: `AssignKeepsIInv` and `HonestKept` say so once, and each handler's case shows
that the record it assigns is fit.

*Single use.* `SInv` says, under `Deployment` (one process, no listing, no test route; crashes and
lost writes allowed): between handlers the loop is free, and a record in memory never lags behind
the row in the field that counts: if the row's token is used, so is the object's, or the handler
between the `UPDATE` and the assignment of `execution_token_used_at` holds the loop (`Taking`). With
a listing this part fails, which is the run `approval_listing`. The row alone does not carry the
argument, since the assignments in between write the token back as unspent and a crash leaves it
so: but they write the status with it, so that a record on which an execution ran has a spent token
or a status that neither `/approve` nor `/execute` takes (`Sunk`), in the table and in memory. Lost
writes leave the row as the `UPDATE` wrote it. `TokenKept` is the same of a step: only the call that
took a token gives it back.

*Grants.* `GInv` says that an approved record in the dictionary names the decision it stands on,
or the handler that decided is about to write it (`Sealed`, `Sealing`); and that a rejected record
is no longer open, and nobody who saw it open is still to come. `OneSeals`: while one handler
runs, no other is between the two assignments of `/approve`. `Steady` is `Deployment` without
crashes; it is needed, since a crash between those assignments leaves an approved record without
an approver, and then an actor who did not grant may execute. Lost writes are allowed, so the
theorem covers more than the run.

*Events.* Where a task is tells what has been sent of its event (`Progress`); a dead letter's row
says so, and an event that is queued has a task or has lost it (`Kept`).

*Requests.* `GraphInv` is about one request at a time: `Staged` says what the state holds at
each node (past the policy node nothing blocked; past the approval node nothing of high risk that
no human granted; not called before the model's node, called after), `Audited` that a run at the
audit is blocked, waits or has an answer, and that the ledger's row is of that kind, `Agreed` and
`Called` that the records of a finished run agree. Requests meet in the approvals only (`Granted`).

*Remediation.* `FixingInv` follows a call with its approval (`Tracked`): the approval is taken
before the plan is looked for, its plan is the call's from then on, and no two calls have one
approval (`OneEach`), because an approval that was taken is never again only approved.

*Decisions.* `NoPolicyWeakens` compares a list of policies with the same list and one more. The
lemmas say that what is found under a list is still found under the longer one (`OfPoliciesStay`
and the three before it), that evaluation takes the strongest of the actions found (`Strongest`), and
that a built-in phrase or a detected value counts for the gateway's query, the engine and the closed
door (`BuiltInsHold`). OPA's answer to the backend is the exception the property states: there only
the list of phrases of `enforce_policy` is left.

*Streams.* `StreamInv` says that what the client has, what is pending and what is held are
three stretches of the text, one after the other, and that each plain symbol read so far is in one
of them. `HidingInv` adds that no part of a value is in the first two, and of a value whose
end is still to come the end of the carry is the part that was read (`Held`). What redaction
makes of a list is a recursive function; the facts about it are shown for every prefix by the
least prefix that would not have them. `FixedLength` (all values are of one length, which fits in the
carry) holds of an AWS key or a social security number (`redactor.go`:291-307) and a carry of
2048 bytes (`redactor.go`:12). It is needed: without either half TLC finds a text that leaks, and
the token and assignment patterns, which have no fixed length, do leak in this way (section 3).

*Preflight.* A decision in hand, or on record, that lets pass is one the set-up may give: `Good`
says by whom, `Stage` follows it from OPA or the engine through the backend's record to the proxy.
That OPA answers the backend with its default makes such a decision OPA's, not one about the text.

*Sign-in.* `OnceInv` says what made each row, that a use closes its row when it ends, and that two
calls under way at once are known to be (`Beside`). `ResetInv` says of a call about to issue a
token that the password it checked is still the user's or it ran beside the reset, and of
a reset about to commit that a token it has not seen was issued beside it.

*Provider keys.* A cached row was refreshed when its key was published (`RowInv`), and a callback
in the middle of its look-ups has seen a published key, for time stands still while it runs.

*Onboarding.* A registration has one row, and the call that stored it is over (`Stored`); what a
call on a domain has read of its row is still so when the DNS has answered (`Seen`).

*Keys.* A key that a call made is there only when the call is done; a rotation that found the
key good ran when no other had replaced it, or beside the one that did.

*Limits.* `LimitInv` says that a counter shows no less than the calls it let through (`Limited`,
`LimitedBy`) and no more than the calls it counted. The first fails for a counter that is dropped,
which only happens when its minute is over: then Redis' calls of that minute are late ones, and a
worker that has moved on has no call of that minute left to count, because its loop is blocked while
a call stands between clock and counter. Without that (`Free`) or without the exception for late
calls TLC finds more calls than the limit.

*Credentials.* `CredentialInv` follows a secret that was put before a disconnect through each
place it may be in, which are a row, the store, and what a request has read (`LateRows`, `LatePut`,
`LateSeen`): in none of them a request finds it that began after the disconnect.

*Tenants.* `TenantsAreApart` compares the settings of a connection with the context of the thread
that holds it. A thread holds one connection at most (`Alone`), and the settings of an
open transaction are the context of its holder (`Carried`). What a session kept from earlier
commits and rollbacks does not occur in it: each statement sets the settings of its own
transaction, which is the point of the theorem.

*Policies.* Unless an edit wrote over what it had not read, the row is of the newest version and has
its rules (`Newest`); an edit that will write rules has validated them or means them to be in force
(`Informed`, `Meant`). For the register, the versions are also numbered from one to the row's without
a gap (`Numbered`): an edit that has read the row there still is adds the next
(`AddedToRegister`), and one that writes the row's version again writes the rules it has
(`RewrittenIsSame`).

*Bundles, documents.* Undisturbed, one thread at a time is between its read and its write, and what
it has read is still so.

*The chain.* `QuietInv` says of the quiet tenant that a row without a hash is old or being made, and
that the hash of any other is the list of the tenant's blocks up to it (`Covers`), linked to the last
before it; a row that is being made comes after all the others (`RowInPlace`). From this follow that
the chain verifies between two calls, that exports hang together (`ExportInv`), and the refinement:
a block enters the ledger at its end. `Ranked`, that there is a k-th hashed row for each k up to their
number, makes the ledger a sequence. None of it depends on the other tenant, whose calls overlap, die
and are tampered with.

*Sums.* The theorems of `RuntimeProofs`, `GatewayProofs`, `SignInProofs` and `ControlPlaneProofs` are
about the sums that the runs check. For each part a lemma says that a behaviour of the sum is one
of the part (`GraphMoves`, `ChainMoves` and so on): a step of the sum is a step of the part or leaves
its variables alone. Everything else is about the part.

### Assumptions

Constants are arbitrary but for the named assumptions of the modules, which TLC evaluates on the
instances. Most say that `None` is not one of the values it stands beside, or that bounds are numbers.
The others are:

* `ClockAssumption`: the time a cached key is fresh is not longer than the time it may be used when
  stale; the defaults are 3600 and 86400 s (`enterprise_identity.py`:34-35).
* `CallsAssumption`, `PassesAssumption`: finitely many calls and passes, for what counts them, and
  that Redis is not one of the workers.
* `TextsAssumption`: texts are finite sequences over the four symbols.
* `WindowAssumption`, `AttemptsAssumption`, `SizesAssumption`, `VersionAssumption`, `LimitAssumption`:
  windows, attempts, queue and buffer sizes, versions and limits are natural numbers, and positive
  where zero would mean that there is no such thing.
* `PartsAssumption` of `MCControlPlane`: the quiet tenant and the busy one are two; the theorems on
  the chain are about one tenant of each kind.
* `Deployment`, `Steady`, `FixedLength`: hypotheses of the five theorems that the table names them
  with. TLC shows that listings, a crash within `/approve`, values of several lengths and a carry that
  is too short break `SingleUse`, `GrantSpec` and `NothingLeaks`.

### Only model-checked

* `ExecutionSettles`, `EveryEventSettles`, `EveryRequestEnds`, `ThrottleRecovers`, `OutageIsBridged`
  and `WaitingEnds`: liveness and `ENABLED` are beyond the proof system.
* The five violations, which are counterexamples and not theorems.

## 5. Plan

1. Modelled, checked and, but for liveness, proved: the components of the table above.
2. Composition: the gateway's three modules behind one another, and `RequestPipeline` over
   `ExecutionGrant` in place of its `HumanDecides`.
3. An abstract specification still to be stated, with its refinement to be proved as that of
   `ExecutionGrant` is: a one-time token for `SignIn`.
4. Proofs that would say more: the chain for any set of quiet tenants; streams of several patterns of
   different fixed lengths.
5. Smaller gaps: users that an OIDC callback creates, uploads of documents, gateway routes,
   chat sessions.
