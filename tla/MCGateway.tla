----------------------------- MODULE MCGateway -----------------------------
(* The Go gateway's three parts, which share no state: the redaction of a  *)
(* streamed answer, the decision before a request is passed on, and the    *)
(* audit producer. Init chooses the part that moves; the others stay in    *)
(* one initial state, so that one run explores the sum of the three and    *)
(* not their product.                                                      *)
(*                                                                         *)
(* Texts: every short text of all symbols, for values and the places where *)
(* a text is cut, and every longer one of newlines and plain text, for     *)
(* what is held. Deployments: the set-ups that differ: the backend alone   *)
(* asks OPA; the gateway asks it, in production and out of it; an OPA that *)
(* never has an answer about the text; and one in which only OPA may fail. *)
EXTENDS Integers, Sequences

CONSTANTS MinBody, MaxBody, CarryBytes, Buffer, Length, LongLength,
          Requests, BreakTime, MaxTime,
          Events, Capacity, MaxAttempts, Crashing

VARIABLES part,
          text, taken, source, carry, pending, done, ending, out,
          deployment, verdict, clashing, opa, now, brokenUntil, gate, eval, judged, answer, recorded,
          published, queue, hand, topic, dlq, gone

Texts == [1..Length -> {"k", "x", "n", "p"}] \union [1..LongLength -> {"n", "p"}]
Set(goOpa, required, opaStates, failing) ==
    [goOpa |-> goOpa, required |-> required, opa |-> opaStates, failing |-> failing]
Deployments ==
    {Set(FALSE, FALSE, {"up", "hangs"}, TRUE),
     Set(TRUE, TRUE, {"up", "refuses"}, TRUE),
     Set(TRUE, TRUE, {"unloaded", "bare", "odd", "hangs"}, FALSE),
     Set(TRUE, FALSE, {"up", "refuses"}, FALSE)}

Stream == INSTANCE StreamRedaction
Preflight == INSTANCE GatewayPreflight
Producer == INSTANCE AuditProducer

ASSUME PartsAssumption == /\ Stream!SizesAssumption /\ Stream!TextsAssumption
                          /\ Preflight!ConfigAssumption
                          /\ Producer!SizesAssumption

streamVars == <<text, taken, source, carry, pending, done, ending, out>>
preflightVars == <<deployment, verdict, clashing, opa, now, brokenUntil, gate, eval, judged, answer, recorded>>
producerVars == <<published, queue, hand, topic, dlq, gone>>
vars == <<part, streamVars, preflightVars, producerVars>>

StreamWaits == text = CHOOSE t \in Texts : TRUE
PreflightWaits == /\ deployment = CHOOSE d \in Deployments : TRUE
                  /\ verdict = [r \in Requests |-> "ALLOW"] /\ clashing = {}
                  /\ opa = CHOOSE o \in deployment.opa : TRUE

Init == /\ part \in {"stream", "preflight", "producer"}
        /\ Stream!Init /\ (part # "stream" => StreamWaits)
        /\ Preflight!Init /\ (part # "preflight" => PreflightWaits)
        /\ Producer!Init

StreamStep == /\ part = "stream" /\ Stream!Next
              /\ UNCHANGED <<part, preflightVars, producerVars>>
PreflightStep == /\ part = "preflight" /\ Preflight!Next
                 /\ UNCHANGED <<part, streamVars, producerVars>>
ProducerStep == /\ part = "producer" /\ Producer!Next
                /\ UNCHANGED <<part, streamVars, preflightVars>>

Next == StreamStep \/ PreflightStep \/ ProducerStep
Spec == Init /\ [][Next]_vars

\* The fairness of the parts, as they state it.
FairSpec ==
    /\ Spec
    /\ \A r \in Requests : WF_vars(/\ part = "preflight" /\ Preflight!Handle(r)
                                   /\ UNCHANGED <<part, streamVars, producerVars>>)
    /\ WF_vars(/\ part = "producer" /\ Producer!Take
               /\ UNCHANGED <<part, streamVars, preflightVars>>)
    /\ WF_vars(/\ part = "producer" /\ (Producer!Delivered \/ Producer!Fails)
               /\ UNCHANGED <<part, streamVars, preflightVars>>)

-----------------------------------------------------------------------------
\* Each part's variables keep their types.
Typed == Preflight!TypeOK /\ Producer!TypeOK

\* No part of a sensitive value reaches the client (redactor.go 145-174, 291-307).
NothingLeaks == Stream!NothingLeaks
\* Plain text is neither lost nor reordered (redacting_body.go 26-69).
TextIsKept == Stream!TextIsKept
\* What is proxied was judged by those whose word counts (server.go 136-187, main.py 3651-3679).
ProxiedIsJudged == Preflight!ProxiedIsJudged
\* "OPA outages do not break current gateway enforcement" (policies/README.md:5).
OutageKeepsEnforcement == Preflight!OutageKeepsEnforcement
\* An outage of OPA keeps nothing from the runtime where the engine may stand in.
OutageIsBridged == part = "preflight" => Preflight!OutageIsBridged
\* An event that waits ends in a topic or is known to be gone (producer.go 40-86).
WaitingEnds == Producer!WaitingEnds
=============================================================================
