--------------------------- MODULE AuditProducer ---------------------------
(***************************************************************************)
(* The gateway's own audit events (gateway-go/internal/audit/producer.go): *)
(* every request publishes one into a bounded queue, without waiting, and  *)
(* one goroutine takes them to the Kafka REST proxy, three attempts each,  *)
(* then to the dead letter topic, three attempts again. The proxy is       *)
(* external: it takes an event and says so, refuses it, or takes it and    *)
(* its answer is lost. Brokers and the proxy's address are configured:     *)
(* without them an event is only logged.                                   *)
(***************************************************************************)
EXTENDS Integers, Sequences, SequencesExt

CONSTANTS
    Events,      \* how many requests the gateway handles: events 1..Events
    Capacity,    \* of the queue: 1024
    MaxAttempts, \* 3
    Crashing     \* the gateway may be killed

SizesAssumption == /\ Events \in Nat /\ Capacity \in Nat \ {0}
                   /\ MaxAttempts \in Nat \ {0}
                   /\ Crashing \in BOOLEAN

VARIABLES
    published, \* the requests that have published their event
    queue,     \* Producer.queue
    hand,      \* the event the goroutine has, with its target and attempts, or Idle
    topic,     \* the audit topic's records
    dlq,       \* the dead letter topic's records
    gone       \* history: events lost after all attempts, or killed with the process

vars == <<published, queue, hand, topic, dlq, gone>>

Idle == [event |-> 0]
Init == /\ published = {} /\ gone = {}
        /\ queue = <<>> /\ topic = <<>> /\ dlq = <<>>
        /\ hand = Idle

\* A mutant: a full queue makes room for the newest event.
PublishOverOldest(e) ==
    /\ e \notin published
    /\ published' = published \union {e}
    /\ queue' = IF Len(queue) < Capacity THEN Append(queue, e) ELSE Append(Tail(queue), e)
    /\ UNCHANGED <<hand, topic, dlq, gone>>

\* logRequest, Publish: a request finished. It never waits.
Publish(e) ==
    /\ e \notin published
    /\ published' = published \union {e}
    /\ queue' = IF Len(queue) < Capacity THEN Append(queue, e) ELSE queue
    /\ UNCHANGED <<hand, topic, dlq, gone>>

\* run: the next event, with its first attempt ahead.
Take ==
    /\ hand = Idle /\ queue # <<>>
    /\ queue' = Tail(queue)
    /\ hand' = [event |-> Head(queue), to |-> "topic", attempt |-> 1]
    /\ UNCHANGED <<published, topic, dlq, gone>>

Record == IF hand.to = "topic" THEN topic' = Append(topic, hand.event) /\ UNCHANGED dlq
          ELSE dlq' = Append(dlq, hand.event) /\ UNCHANGED topic

\* publishKafkaREST returns nil.
Delivered ==
    /\ hand # Idle
    /\ Record
    /\ hand' = Idle
    /\ UNCHANGED <<published, queue, gone>>

\* What follows a failed attempt: another, the dead letter topic, or nothing.
NextTry ==
    IF hand.attempt < MaxAttempts
    THEN hand' = [hand EXCEPT !.attempt = @ + 1] /\ UNCHANGED gone
    ELSE IF hand.to = "topic"
         THEN hand' = [hand EXCEPT !.to = "dlq", !.attempt = 1] /\ UNCHANGED gone
         ELSE hand' = Idle /\ gone' = gone \union {hand.event}

\* publishKafkaREST returns an error; the proxy may have the event all the same.
Fails ==
    /\ hand # Idle
    /\ Record \/ UNCHANGED <<topic, dlq>>
    /\ NextTry
    /\ UNCHANGED <<published, queue>>

\* The gateway is killed: what is queued or in hand is nowhere else. It starts again.
Crash ==
    /\ Crashing
    /\ gone' = gone \union Range(queue) \union ({hand.event} \ {0})
    /\ queue' = <<>>
    /\ hand' = Idle
    /\ UNCHANGED <<published, topic, dlq>>

Next == (\E e \in 1..Events : Publish(e)) \/ Take \/ Delivered \/ Fails \/ Crash

Spec == Init /\ [][Next]_vars

\* The goroutine goes on: its HTTP client has a timeout of 2 seconds.
FairSpec == Spec /\ WF_vars(Take) /\ WF_vars(Delivered \/ Fails)

-----------------------------------------------------------------------------
TypeOK ==
    /\ published \subseteq 1..Events
    /\ queue \in Seq(1..Events) /\ Len(queue) <= Capacity
    /\ hand \in {Idle} \union [event : 1..Events, to : {"topic", "dlq"}, attempt : 1..MaxAttempts]
    /\ topic \in Seq(1..Events) /\ dlq \in Seq(1..Events)
    /\ gone \subseteq 1..Events

Waiting == Range(queue) \union ({hand.event} \ {0})

(***************************************************************************)
(* An event that got into the queue ends in one of the topics or is known  *)
(* to be gone, whatever the proxy does: the goroutine is not held up for   *)
(* good, and no newer event takes the place of one that waits (producer.go *)
(* 40-86).                                                                 *)
(***************************************************************************)
WaitingEnds ==
    \A e \in 1..Events :
        e \in Waiting ~> e \notin Waiting /\ e \in Range(topic) \union Range(dlq) \union gone
=============================================================================
