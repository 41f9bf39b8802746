---------------------------- MODULE PolicyDecision ----------------------------
(***************************************************************************)
(* What is decided on a text: by OPA with the module compiled from         *)
(* policies.yaml (policy.py), or, when it does not answer, by PolicyEngine *)
(* with the tenant's policies (services/policy_engine.py).                 *)
(*                                                                         *)
(* Deciding changes no state. What changes is the list of the policies in  *)
(* force, in the order of their ids, which decides between two policies of *)
(* one category. A text is what its readers find in it: a phrase, a value  *)
(* or a word counts as found where OPA and the engine both look for it.    *)
(* An action that is not supported counts as none.                         *)
(***************************************************************************)
EXTENDS Naturals, Sequences, SequencesExt

CONSTANTS Words, Inputs, MaxPolicies, None

VARIABLE policies

Detected == {"SECRETS", "PII"}
Topics == {"MEDICAL_DATA"}
Custom == "CUSTOMER_DEFINED_TOPICS"
Actions == {"ALLOW", "REDACT", "REQUIRE_APPROVAL", "BLOCK"}

Policy == [categories : SUBSET (Detected \union Topics), action : Actions \union {None},
           actions : UNION {[S -> Actions \union {None}] : S \in SUBSET (Detected \union Topics)},
           blocked : SUBSET Words, allowed : SUBSET Words, keywords : SUBSET Words]
Text == [phrase : BOOLEAN,               \* a prompt injection, bypass or exfiltration phrase
         found : SUBSET Detected, topics : SUBSET Topics, words : SUBSET Words,
         level : {"plain", "medium", "high", "blocked"}]  \* the strongest of the YAML's keywords

InputsAssumption == (\A p \in Inputs : p \in Policy) /\ MaxPolicies \in Nat /\ None \notin Actions

Priority == [a \in Actions |-> CASE a = "ALLOW" -> 0 [] a = "REDACT" -> 1
                                 [] a = "REQUIRE_APPROVAL" -> 2 [] a = "BLOCK" -> 3]
Given(action, otherwise) == IF action = None THEN otherwise ELSE action

-----------------------------------------------------------------------------
(***************************************************************************)
(* PolicyEngine. Findings name the policy they are due to, or 0.           *)
(***************************************************************************)

Finding(i, category, action) == [policy |-> i, category |-> category, action |-> action]

CategoriesOf(p) == p.categories \union (IF p.blocked \union p.allowed = {} THEN {} ELSE {Custom})

Governing(category, ps) == {i \in DOMAIN ps : category \in CategoriesOf(ps[i])}
\* A mutant: the policy made last decides.
MatchingLast(category, ps) ==
    IF Governing(category, ps) = {} THEN 0
    ELSE CHOOSE i \in Governing(category, ps) : \A j \in Governing(category, ps) : j <= i
\* The first policy of the category, or 0.
Matching(category, ps) ==
    IF Governing(category, ps) = {} THEN 0
    ELSE CHOOSE i \in Governing(category, ps) : \A j \in Governing(category, ps) : i <= j

\* A category of its own in the policy's actions counts even when its action is none.
ActionFor(category, p) == IF category \in DOMAIN p.actions THEN p.actions[category] ELSE p.action

DetectorFindings(t, ps) ==
    {LET i == Matching(c, ps)
         given == IF i = 0 THEN None ELSE ActionFor(c, ps[i])
     IN Finding(i, c, Given(given, IF c = "SECRETS" THEN "BLOCK" ELSE "REDACT")) : c \in t.found}

BaselineFindings(t) == IF t.phrase THEN {Finding(0, "PROMPT_INJECTION", "BLOCK")} ELSE {}

TopicFinding(i, category, ps) ==
    Finding(i, category, Given(ActionFor(category, ps[i]), Given(ps[i].action, "REQUIRE_APPROVAL")))
\* A built-in topic counts where a policy governs it; a policy's own topics always.
TopicFindings(t, ps) ==
    {TopicFinding(Matching(c, ps), c, ps) : c \in {d \in t.topics : Matching(d, ps) # 0}}
    \union {TopicFinding(i, Custom, ps) : i \in {j \in DOMAIN ps :
               \/ ps[j].blocked \intersect t.words # {}
               \/ ps[j].allowed # {} /\ ps[j].allowed \intersect t.words = {}}}

\* A keyword's action is the policy's; its category only labels it.
KeywordFindings(t, ps) ==
    {Finding(i, "keyword", Given(ps[i].action, "BLOCK")) :
        i \in {j \in DOMAIN ps : ps[j].keywords \intersect t.words # {}}}

AllFindings(t, ps) == DetectorFindings(t, ps) \union BaselineFindings(t)
                   \union TopicFindings(t, ps) \union KeywordFindings(t, ps)

\* evaluate: the strongest action; a text with a detected value is redacted at least.
Evaluate(t, ps) ==
    LET actions == {"ALLOW"} \union {f.action : f \in AllFindings(t, ps)}
        final == CHOOSE a \in actions : \A b \in actions : Priority[b] <= Priority[a]
    IN IF final = "ALLOW" /\ t.found # {} THEN "REDACT" ELSE final

-----------------------------------------------------------------------------
(***************************************************************************)
(* OPA, with the compiled module. Its rules read one text put together of  *)
(* the query's text and body; in a query without a body that text has no   *)
(* value, so that no rule fires. The gateway's query has the body of the   *)
(* request, those of the backend have none: what OPA answers the backend   *)
(* is the default, ALLOW, whatever the text.                               *)
(***************************************************************************)

OpaBlocks(t, body) == body /\ (t.phrase \/ "SECRETS" \in t.found \/ t.level = "blocked")
OpaHolds(t, body) == body /\ t.level = "high"
OpaRedacts(t, body) == body /\ ("PII" \in t.found \/ "MEDICAL_DATA" \in t.topics)
\* risk_level has a rule for texts that are blocked or need an approval and one for those
\* to redact: where both apply it would have two values, and the query fails.
OpaAnswers(t, body) == ~(OpaRedacts(t, body) /\ (OpaBlocks(t, body) \/ OpaHolds(t, body)))
OpaDecides(t, body) ==
    IF OpaBlocks(t, body) THEN "BLOCK"
    ELSE IF OpaHolds(t, body) THEN "REQUIRE_APPROVAL"
    ELSE IF OpaRedacts(t, body) \/ (body /\ t.level = "medium") THEN "REDACT" ELSE "ALLOW"

\* OPA's decision, or none when it does not answer.
Query(t, body, up) == IF up /\ OpaAnswers(t, body) THEN OpaDecides(t, body) ELSE None

\* evaluate_opa_policy: what OPA says, or a block where it must answer and does not.
AskOpa(t, up, required) == Given(Query(t, FALSE, up), IF required THEN "BLOCK" ELSE None)

\* evaluate_gateway_policy. An approval the engine asks for does not stop the request
\* here, one OPA asks for does.
Judged(t, ps, up, required) == Given(AskOpa(t, up, required), Evaluate(t, ps))
Passes(t, ps, up, required) ==
    \/ AskOpa(t, up, required) \in {"ALLOW", "REDACT"}
    \/ AskOpa(t, up, required) = None /\ Evaluate(t, ps) # "BLOCK"

\* evaluatePolicy of the gateway: its own query of OPA, else the backend's judgement. OPA
\* may answer the one and not the other.
Proxied(t, ps, goUp, up, required) ==
    LET own == Query(t, TRUE, goUp)
    IN own \in {"ALLOW", "REDACT"} \/ (own = None /\ Passes(t, ps, up, required))

\* enforce_policy, which the red team harness asks: OPA, the engine when the database is
\* there, and a list of phrases of its own.
Enforced(t, ps, up, required, database) ==
    \/ AskOpa(t, up, required) \in {"BLOCK", "REQUIRE_APPROVAL"}
    \/ database /\ Evaluate(t, ps) = "BLOCK"
    \/ t.phrase

-----------------------------------------------------------------------------
Init == policies = <<>>

\* A policy comes into force with an id above the others', or goes out of force.
Add == \E p \in Inputs : Len(policies) < MaxPolicies /\ policies' = Append(policies, p)
Withdraw == \E i \in DOMAIN policies : policies' = RemoveAt(policies, i)

Next == Add \/ Withdraw
Spec == Init /\ [][Next]_policies

-----------------------------------------------------------------------------
TypeOK == policies \in BoundedSeq(Inputs, MaxPolicies)

OfPolicies(t, ps) == {f \in AllFindings(t, ps) : f.policy # 0}

(***************************************************************************)
(* No policy a tenant adds takes away what protects it: a policy made      *)
(* earlier goes on deciding what it decided; a built-in phrase stops the   *)
(* text and a detected value keeps it from going on as it is, whether the  *)
(* gateway's query of OPA decides, the engine, or the closed door. OPA's   *)
(* answer to the backend is the exception, as it says nothing of the text; *)
(* the list of enforce_policy holds even there (policy_engine.py 230-246,  *)
(* 505-574; policy.py 134-136, 339-380, 533-560; server.go 229-240).       *)
(***************************************************************************)
NoPolicyWeakens ==
    [][Len(policies') > Len(policies) =>
       \A t \in Text :
          /\ OfPolicies(t, policies) \subseteq OfPolicies(t, policies')
          /\ \A goUp, up, required, database \in BOOLEAN :
                /\ t.phrase => Enforced(t, policies', up, required, database)
                /\ t.phrase /\ Proxied(t, policies', goUp, up, required) =>
                       up /\ Query(t, TRUE, goUp) = None
                /\ t.found # {} =>
                       /\ Query(t, TRUE, goUp) # "ALLOW"
                       /\ ~up => Judged(t, policies', up, required) # "ALLOW"]_policies
=============================================================================
