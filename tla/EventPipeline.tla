--------------------------- MODULE EventPipeline ---------------------------
(***************************************************************************)
(* Delivery of audit and analytics events to Kafka and ClickHouse:         *)
(* services/event_pipeline.py, entered from mirror_audit_event_to_         *)
(* clickhouse (verify_audit.py) and from /observability/pipeline/retry.    *)
(*                                                                         *)
(* A task is a thread that records and delivers one event, or that runs    *)
(* retry_dead_letters.  The ids of events are new (a request's uuid, a     *)
(* record's id), so an event is recorded by one task only.                 *)
(***************************************************************************)
EXTENDS Naturals, FiniteSets

CONSTANTS
    Events,
    Tasks,
    MaxAttempts,   \* AUTHCLAW_EVENT_DELIVERY_ATTEMPTS
    Limit,         \* the limit of retry_dead_letters
    Settings,      \* how the sinks may be configured
    Env,           \* what else happens, a subset of EnvEvents
    None

EnvEvents == {"crash", "outage"}

\* A sink has a URL, or has none, or has none though a setting requires it
\* (AUTHCLAW_REQUIRE_KAFKA, AUTHCLAW_REQUIRE_CLICKHOUSE).
Sinks == {"kafka", "clickhouse"}
ASSUME SettingsAssumption == Settings \subseteq [Sinks -> {"set", "unset", "required"}]

ASSUME EnvAssumption == Env \subseteq EnvEvents
ASSUME AttemptsAssumption == MaxAttempts \in Nat /\ Limit \in Nat \ {0}

VARIABLES
    setting,     \* how the sinks are configured; it does not change
    record,      \* event_delivery_records by event: a row, or None
    letters,     \* event_dead_letters
    kafka,       \* events the Kafka topic has
    clickhouse,  \* events the ClickHouse table has
    task,        \* the tasks
    died         \* history: events whose task has died

vars == <<setting, record, letters, kafka, clickhouse, task, died>>

Rows == [status : {"queued", "delivered", "dead_letter"}, attempts : 0 .. MaxAttempts]
ASSUME NoneAssumption == None \notin Events /\ None \notin Rows

Delivering == {"load", "kafka", "clickhouse", "result"}
TaskType ==
    [pc : {"idle", "reset", "refresh"} \cup Delivering,
     event : Events \cup {None},
     todo : SUBSET Events,              \* what retry_dead_letters has yet to retry
     attempts : 0 .. MaxAttempts,
     delivered : BOOLEAN]

Idle == [pc |-> "idle", event |-> None, todo |-> {}, attempts |-> 0,
         delivered |-> FALSE]

Init ==
    /\ setting \in Settings
    /\ record = [e \in Events |-> None]
    /\ letters = {} /\ kafka = {} /\ clickhouse = {}
    /\ task = [t \in Tasks |-> Idle]
    /\ died = {}

-----------------------------------------------------------------------------

At(t, pc) == task[t].pc = pc
With(status) == {e \in Events : record[e] # None /\ record[e].status = status}

\* record_and_deliver: the event is committed as queued before anything is sent.
Record(t, e) ==
    /\ At(t, "idle") /\ record[e] = None
    /\ record' = [record EXCEPT ![e] = [status |-> "queued", attempts |-> 0]]
    /\ task' = [task EXCEPT ![t] = [Idle EXCEPT !.pc = "load", !.event = e]]
    /\ UNCHANGED <<letters, kafka, clickhouse>>

\* retry_dead_letters reads the ids it will retry, up to the limit.
ScanDeadLetters(t) ==
    /\ At(t, "idle")
    /\ \E S \in SUBSET With("dead_letter") :
         /\ S # {}
         /\ S = With("dead_letter") \/ Cardinality(S) = Limit
         /\ Cardinality(S) <= Limit
         /\ task' = [task EXCEPT ![t] = [Idle EXCEPT !.pc = "reset", !.todo = S]]
    /\ UNCHANGED <<record, letters, kafka, clickhouse>>

\* The next of them is queued again, whatever has become of it since.
ResetNext(t, e) ==
    /\ At(t, "reset") /\ e \in task[t].todo
    /\ record' = [record EXCEPT ![e] = [status |-> "queued", attempts |-> 0]]
    /\ task' = [task EXCEPT ![t].pc = "load", ![t].event = e, ![t].todo = @ \ {e}]
    /\ UNCHANGED <<letters, kafka, clickhouse>>

\* deliver_event reads the row; an event out of attempts is not sent.
Load(t) ==
    /\ At(t, "load")
    /\ task' = [task EXCEPT ![t].pc = IF record[task[t].event].attempts < MaxAttempts
                                      THEN "kafka" ELSE "result",
                            ![t].attempts = record[task[t].event].attempts,
                            ![t].delivered = FALSE]
    /\ UNCHANGED <<record, letters, kafka, clickhouse>>

\* An attempt fails: the next one, if there is one, starts over with Kafka.
AttemptFails(t) ==
    LET n == task[t].attempts + 1 IN
    task' = [task EXCEPT ![t].attempts = n,
                         ![t].pc = IF n < MaxAttempts THEN "kafka" ELSE "result"]

\* What a call adds to a sink: a sink without a URL is passed over.
Sent(sink, t) == IF setting[sink] = "set" THEN {task[t].event} ELSE {}
Accepts(sink) == setting[sink] # "required"
Fails(sink) == setting[sink] = "required" \/ (setting[sink] = "set" /\ "outage" \in Env)

\* _publish_kafka_rest.  A call that times out may have reached the topic.
PublishKafka(t) ==
    /\ At(t, "kafka")
    /\ \/ /\ Accepts("kafka")
          /\ kafka' = kafka \cup Sent("kafka", t)
          /\ task' = [task EXCEPT ![t].pc = "clickhouse"]
       \/ /\ Fails("kafka")
          /\ kafka' \in {kafka, kafka \cup Sent("kafka", t)}
          /\ AttemptFails(t)
    /\ UNCHANGED <<record, letters, clickhouse>>

\* Mutant: what ClickHouse answers is not looked at.
WriteClickhouseBlindly(t) ==
    /\ At(t, "clickhouse")
    /\ clickhouse' \in {clickhouse, clickhouse \cup Sent("clickhouse", t)}
    /\ task' = [task EXCEPT ![t].pc = "result", ![t].attempts = @ + 1, ![t].delivered = TRUE]
    /\ UNCHANGED <<record, letters, kafka>>

\* _write_clickhouse.  AUTHCLAW_CLICKHOUSE_ENABLED = false is a sink without a URL.
WriteClickhouse(t) ==
    /\ At(t, "clickhouse")
    /\ \/ /\ Accepts("clickhouse")
          /\ clickhouse' = clickhouse \cup Sent("clickhouse", t)
          /\ task' = [task EXCEPT ![t].pc = "result", ![t].attempts = @ + 1,
                                  ![t].delivered = TRUE]
       \/ /\ Fails("clickhouse")
          /\ clickhouse' \in {clickhouse, clickhouse \cup Sent("clickhouse", t)}
          /\ AttemptFails(t)
    /\ UNCHANGED <<record, letters, kafka>>

\* Mutant: a failed event stays queued.
RecordSuccessOnly(t) ==
    /\ At(t, "result")
    /\ record' = IF task[t].delivered
                 THEN [record EXCEPT ![task[t].event] =
                         [status |-> "delivered", attempts |-> task[t].attempts]]
                 ELSE record
    /\ task' = [task EXCEPT ![t].pc = "refresh"]
    /\ UNCHANGED <<letters, kafka, clickhouse>>

\* The outcome is committed, with the dead letter of a failure.
RecordResult(t) ==
    LET e == task[t].event
        status == IF task[t].delivered THEN "delivered" ELSE "dead_letter"
    IN
    /\ At(t, "result")
    /\ record' = [record EXCEPT ![e] = [status |-> status, attempts |-> task[t].attempts]]
    /\ letters' = IF task[t].delivered THEN letters ELSE letters \cup {e}
    /\ task' = [task EXCEPT ![t].pc = "refresh", ![t].attempts = 0, ![t].delivered = FALSE]
    /\ UNCHANGED <<kafka, clickhouse>>

\* refresh_checkpoint: the numbers it stores in event_consumer_checkpoints are for display
\* and left out.  Then the next event is retried, if any.
RefreshCheckpoint(t) ==
    /\ At(t, "refresh")
    /\ task' = [task EXCEPT ![t] = IF task[t].todo = {} THEN Idle
                                   ELSE [Idle EXCEPT !.pc = "reset", !.todo = task[t].todo]]
    /\ UNCHANGED <<record, letters, kafka, clickhouse>>

\* The process of a task dies.
Die(t) ==
    /\ "crash" \in Env /\ ~At(t, "idle")
    /\ died' = died \cup ({task[t].event} \ {None})
    /\ task' = [task EXCEPT ![t] = Idle]
    /\ UNCHANGED <<record, letters, kafka, clickhouse>>

Proceed(t) ==
    \/ \E e \in Events : ResetNext(t, e)
    \/ Load(t) \/ PublishKafka(t) \/ WriteClickhouse(t) \/ RecordResult(t)
    \/ RefreshCheckpoint(t)

Next == \E t \in Tasks :
    \/ /\ (\E e \in Events : Record(t, e)) \/ ScanDeadLetters(t) \/ Proceed(t)
       /\ UNCHANGED <<died, setting>>
    \/ Die(t) /\ UNCHANGED setting

Spec == Init /\ [][Next]_vars

\* A task that is running goes on: every call it makes has a timeout.
FairSpec == Spec /\ \A t \in Tasks : WF_vars(Proceed(t) /\ UNCHANGED <<died, setting>>)

-----------------------------------------------------------------------------

AtWork(e) == \E t \in Tasks : task[t].event = e /\ task[t].pc \in Delivering

\* The sinks an event is to be in once it is delivered have it.
Has(e) == /\ setting["kafka"] # "unset" => e \in kafka
          /\ setting["clickhouse"] # "unset" => e \in clickhouse

\* An event the table calls delivered is in every sink that has a URL, whatever retries,
\* timeouts and crashes went before, and none is called delivered where a sink is required
\* and has no URL.  A sink that is neither set nor required is passed over: with two of
\* them an event is delivered and nothing was sent.
DeliveredIsThere == \A e \in With("delivered") : Has(e)

\* "Delivery failures are retained for retry/dead-letter visibility": an event that nobody
\* is at work on has been delivered or is among the dead letters and will be retried; only
\* an event whose thread has died may be neither.
FailuresAreKept ==
    \A e \in Events \ died : record[e] # None /\ ~AtWork(e) =>
        e \in With("delivered") \/ (e \in With("dead_letter") /\ e \in letters)

\* A recorded event is delivered or becomes a dead letter in the end, unless its thread dies.
EveryEventSettles ==
    \A e \in Events :
        e \in With("queued") ~> e \in With("delivered") \cup With("dead_letter") \cup died
=============================================================================
