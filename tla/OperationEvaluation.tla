------------------------- MODULE OperationEvaluation -------------------------
(***************************************************************************)
(* EvaluateAiOperation.execute as a function of a control pack, a context  *)
(* and a date, and what EnforceAiOperation makes of its transformations.   *)
(*                                                                         *)
(* A control pack holds policy sets, provider capability records and a     *)
(* tool catalog.  A context names one policy set, describes one operation  *)
(* by the scalars a rule can match, its data fields with their labels, its *)
(* tools, its provider with its fallbacks, and the conditions the          *)
(* organization asserts.  Identifiers are already normalized; a value that *)
(* may be absent is a set of at most one element, except where a name can  *)
(* stand for absence (None).                                               *)
(***************************************************************************)
EXTENDS Integers, Sequences, FiniteSets

None == "none"

DataClassification ==
  {"PUBLIC", "PERSONAL_DIRECT_IDENTIFIER", "BRAZIL_CPF", "AUTHENTICATION_SECRET"}
RiskClass       == {"read_only", "high_impact_state_change"}
CapabilityState == {"supported", "conditional", "unsupported", "unknown"}

\* Decisions in order of strength: strongest_outcome keeps the last that occurs.
DecisionOutcome ==
  <<"ALLOW", "ALLOW_WITH_TRANSFORMATION", "REQUIRE_APPROVAL", "DENY">>
Strength(d) == CHOOSE n \in DOMAIN DecisionOutcome : DecisionOutcome[n] = d
StrongestOutcome(outcomes) ==
  CHOOSE d \in outcomes \cup {"ALLOW"} :
    \A e \in outcomes : Strength(e) <= Strength(d)

TransformationType == {"REMOVE_FIELD", "MASK", "TOKENIZE", "PSEUDONYMIZE"}
ObligationType ==
  TransformationType \cup
  {"REQUIRE_HUMAN_APPROVAL", "REQUIRE_PROVIDER_CAPABILITY", "REQUIRE_EVIDENCE"}

(***************************************************************************)
(* Selection of rules                                                      *)
(***************************************************************************)
Labels(c) == UNION {item.labels : item \in c.items}

\* The dimensions of a provider target are matched like those of the context.
Scalar(c, dim) ==
  IF dim \in DOMAIN c.provider THEN c.provider[dim] ELSE c.scalars[dim]

Matches(match, c, tools) ==
  /\ \A dim \in DOMAIN match.scalars : match.scalars[dim] = Scalar(c, dim)
  /\ match.classes = {} \/ match.classes \cap Labels(c) # {}
  /\ match.risks = {} \/ match.risks \cap {t.risk : t \in tools} # {}

MatchedRules(set, c, tools) == {r \in set.rules : Matches(r.match, c, tools)}

RuleId(r)      == <<r.id, r.version>>
PolicySetId(s) == <<s.id, s.version>>
TargetId(t)    == <<t.provider, t.service, t.region>>

\* The requested tools are authorized together or the evaluation fails: the
\* catalog defines each, under one name, with no other risk than claimed.
ToolsUnauthorized(pack, c) ==
  \/ \E s, t \in c.tools : s # t /\ s.name = t.name
  \/ \E s \in c.tools :
       ~ \E t \in pack.tools :
           t.name = s.name /\ s.claimed \in {None, t.risk}

AuthorizedTools(pack, c) ==
  {t \in pack.tools : \E s \in c.tools : s.name = t.name}

(***************************************************************************)
(* Obligations                                                             *)
(***************************************************************************)
Obligation(type, target, reason, controls, parameters) ==
  [type |-> type, target |-> target, reason |-> reason, controls |-> controls,
   parameters |-> parameters]

\* Whom a template of a rule is directed at: fields by label, tools by risk.
ObligationTargets(template, match, c, tools) ==
  IF template.class # None
  THEN {item.field : item \in {i \in c.items : template.class \in i.labels}}
  ELSE IF template.target = "matched_tool"
  THEN {t.name : t \in {u \in tools : u.risk \in match.risks}}
  ELSE {template.target}

ExpandObligations(rules, c, tools) ==
  UNION {UNION {{Obligation(tpl.type, target, tpl.reason, r.controls, tpl.parameters) :
                   target \in ObligationTargets(tpl, r.match, c, tools)} :
                tpl \in r.obligations} :
         r \in rules}

(***************************************************************************)
(* Provider capabilities                                                   *)
(***************************************************************************)
ResolveCapability(pack, target, key) ==
  UNION {{f \in rec.facts : f.key = key} :
         rec \in {r \in pack.providers : r.target = target}}

\* Faulty variant: a fact is stale on the day it reaches its maximum age.
StaleAtLimit(fact, req, c, today) ==
  /\ Scalar(c, "assurance_level") = "high"
  /\ \E limit \in req.maxAge : today - fact.verified >= limit

\* At high assurance a fact serves up to and including its maximum age in days.
Stale(fact, req, c, today) ==
  /\ Scalar(c, "assurance_level") = "high"
  /\ \E limit \in req.maxAge : today - fact.verified > limit

\* Why a fact (at most one, as a set) does not meet a requirement; None if it does.
CapabilityFailure(facts, req, c, today) ==
  LET fact == CHOOSE f \in facts : TRUE
      conditions == fact.conditions \cup req.conditions
  IN IF facts = {} \/ \E f \in facts : f.state = "unknown"
     THEN "PROVIDER_CAPABILITY_UNKNOWN"
     ELSE IF fact.state = "unsupported" \/ fact.state \notin req.accepted
     THEN "PROVIDER_CAPABILITY_UNSUPPORTED"
     ELSE IF Stale(fact, req, c, today)
     THEN "PROVIDER_CAPABILITY_STALE"
     ELSE IF ~ conditions \subseteq fact.conditions \cap c.assertions
     THEN "PROVIDER_CAPABILITY_CONDITION_UNSATISFIED"
     ELSE None

Targets(c) == {c.provider} \cup c.fallbacks

Requirements(rules) == UNION {r.capabilities : r \in rules}

CapabilityFailures(pack, rules, c, today) ==
  {CapabilityFailure(ResolveCapability(pack, target, req.key), req, c, today) :
     target \in Targets(c), req \in Requirements(rules)} \ {None}

CapabilityObligations(rules) ==
  UNION {{Obligation("REQUIRE_PROVIDER_CAPABILITY", req.key,
                     "MANDATORY_PROVIDER_CAPABILITY", r.controls, {}) :
            req \in r.capabilities} :
         r \in rules}

\* The provenance of every fact consulted, which the output digest covers.
CapabilitySnapshots(pack, rules, c) ==
  UNION {{[target |-> target, fact |-> f] : f \in ResolveCapability(pack, target, req.key)} :
         target \in Targets(c), req \in Requirements(rules)}

(***************************************************************************)
(* The evaluation.  The digest of a payload is the payload; the order of   *)
(* the obligations in it is the business of EvaluationReplicas.            *)
(***************************************************************************)
FailedEvaluation(code) == [status |-> "FAILED_CLOSED", error |-> code]

Evaluate(pack, set, c, today) ==
  LET tools    == AuthorizedTools(pack, c)
      rules    == MatchedRules(set, c, tools)
      failures == CapabilityFailures(pack, rules, c, today)
  IN IF ToolsUnauthorized(pack, c) THEN FailedEvaluation("TOOL_NOT_AUTHORIZED")
     ELSE [status      |-> "EVALUATED",
           decision    |-> StrongestOutcome(
                             (UNION {r.decision : r \in rules}) \cup
                             (IF failures = {} THEN {} ELSE {"DENY"})),
           obligations |-> ExpandObligations(rules, c, tools)
                             \cup CapabilityObligations(rules)
                             \cup {Obligation("REQUIRE_EVIDENCE", None,
                                              "EVIDENCE_REQUIRED", {}, {})},
           reasons     |-> (UNION {r.reason : r \in rules}) \cup failures,
           matched     |-> {RuleId(r) : r \in rules},
           snapshots   |-> CapabilitySnapshots(pack, rules, c),
           set         |-> PolicySetId(set),
           registry    |-> {rec.registry : rec \in pack.providers},
           catalog     |-> pack.catalog,
           tools       |-> tools]

(***************************************************************************)
(* What enforcement makes of the transformation obligations of an          *)
(* evaluation that does not deny: one treatment per field, or a failure.   *)
(***************************************************************************)
Transformations(e) == {o \in e.obligations : o.type \in TransformationType}

\* Faulty variant: several transformations of one field are let through.
TransformationFailsIfUnfit(e, c) ==
  \/ \E o \in Transformations(e) : o.target = None
  \/ ~ {o.target : o \in Transformations(e)} \subseteq {item.field : item \in c.items}

TransformationFails(e, c) ==
  LET todo == Transformations(e)
  IN \/ \E o \in todo : o.target = None
     \/ \E o, p \in todo : o # p /\ o.target = p.target
     \/ e.decision = "ALLOW_WITH_TRANSFORMATION" /\ todo = {}
     \/ ~ {o.target : o \in todo} \subseteq {item.field : item \in c.items}

\* How a field leaves for the provider: untouched, or treated by the type of
\* the obligation that targets it.
Treatment(e, field) ==
  {o.type : o \in {p \in Transformations(e) : p.target = field}}
==============================================================================
