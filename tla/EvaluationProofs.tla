--------------------------- MODULE EvaluationProofs ---------------------------
(***************************************************************************)
(* What EvaluateAiOperation computes, for every well-formed control pack   *)
(* and every operation: more reason for caution never weakens a decision,  *)
(* and transformations that go through are those the rules ask for.        *)
(***************************************************************************)
EXTENDS ScenarioReplay, FiniteSetTheorems, TLAPS

Decisions == {"ALLOW", "ALLOW_WITH_TRANSFORMATION", "REQUIRE_APPROVAL", "DENY"}

(***************************************************************************)
(* The order of decisions                                                  *)
(***************************************************************************)
LEMMA StrengthOfDecisions ==
  /\ Strength("ALLOW") = 1
  /\ Strength("ALLOW_WITH_TRANSFORMATION") = 2
  /\ Strength("REQUIRE_APPROVAL") = 3
  /\ Strength("DENY") = 4
<1>1. DOMAIN DecisionOutcome = {1, 2, 3, 4}
  BY DEF DecisionOutcome
<1>2. /\ DecisionOutcome[1] = "ALLOW"
      /\ DecisionOutcome[2] = "ALLOW_WITH_TRANSFORMATION"
      /\ DecisionOutcome[3] = "REQUIRE_APPROVAL"
      /\ DecisionOutcome[4] = "DENY"
  BY DEF DecisionOutcome
<1> QED BY <1>1, <1>2 DEF Strength

LEMMA StrongestOutcomeIsStrongest ==
  ASSUME NEW outcomes \in SUBSET Decisions
  PROVE  /\ StrongestOutcome(outcomes) \in outcomes \cup {"ALLOW"}
         /\ \A e \in outcomes \cup {"ALLOW"} :
              Strength(e) <= Strength(StrongestOutcome(outcomes))
<1>1. \E d \in outcomes \cup {"ALLOW"} : \A e \in outcomes : Strength(e) <= Strength(d)
  <2>1. CASE "DENY" \in outcomes
    BY <2>1, StrengthOfDecisions DEF Decisions
  <2>2. CASE "DENY" \notin outcomes /\ "REQUIRE_APPROVAL" \in outcomes
    BY <2>2, StrengthOfDecisions DEF Decisions
  <2>3. CASE /\ "DENY" \notin outcomes /\ "REQUIRE_APPROVAL" \notin outcomes
             /\ "ALLOW_WITH_TRANSFORMATION" \in outcomes
    BY <2>3, StrengthOfDecisions DEF Decisions
  <2>4. CASE outcomes \subseteq {"ALLOW"}
    BY <2>4, StrengthOfDecisions
  <2> QED BY <2>1, <2>2, <2>3, <2>4 DEF Decisions
<1> DEFINE chosen == CHOOSE d \in outcomes \cup {"ALLOW"} :
                       \A e \in outcomes : Strength(e) <= Strength(d)
<1>2. chosen \in outcomes \cup {"ALLOW"} /\ \A e \in outcomes : Strength(e) <= Strength(chosen)
  BY <1>1, Zenon
<1>3. StrongestOutcome(outcomes) = chosen
  BY DEF StrongestOutcome
<1> HIDE DEF chosen
<1>4. Strength("ALLOW") <= Strength(chosen)
  BY <1>2, StrengthOfDecisions DEF Decisions
<1> QED BY <1>2, <1>3, <1>4


LEMMA MoreOutcomesAreStronger ==
  ASSUME NEW more \in SUBSET Decisions, NEW outcomes \in SUBSET more
  PROVE  Strength(StrongestOutcome(outcomes)) <= Strength(StrongestOutcome(more))
<1>1. StrongestOutcome(outcomes) \in outcomes \cup {"ALLOW"}
  BY StrongestOutcomeIsStrongest
<1> QED BY <1>1, StrongestOutcomeIsStrongest

LEMMA StrongestIsANumber ==
  ASSUME NEW outcomes \in SUBSET Decisions
  PROVE  Strength(StrongestOutcome(outcomes)) \in Int
<1>1. StrongestOutcome(outcomes) \in Decisions
  BY StrongestOutcomeIsStrongest DEF Decisions
<1> QED BY <1>1, StrengthOfDecisions DEF Decisions

\* No decision is stronger than a refusal.
LEMMA DenyIsStrongest ==
  ASSUME NEW outcomes \in SUBSET Decisions
  PROVE  Strength(StrongestOutcome(outcomes)) <= Strength("DENY")
<1> DEFINE d == StrongestOutcome(outcomes)
<1>1. d \in {"ALLOW", "ALLOW_WITH_TRANSFORMATION", "REQUIRE_APPROVAL", "DENY"}
  BY StrongestOutcomeIsStrongest DEF Decisions
<1> HIDE DEF d
<1>2. Strength(d) <= Strength("DENY")
  BY <1>1, StrengthOfDecisions
<1> QED BY <1>2 DEF d

(***************************************************************************)
(* Caution                                                                 *)
(***************************************************************************)
\* d is the operation c with at least as much to be careful about: further fallbacks,
\* labels and tools, fewer conditions that the organization asserts.
AtLeastAsCautious(c, d) ==
  /\ d.scalars = c.scalars /\ d.provider = c.provider
  /\ c.fallbacks \subseteq d.fallbacks /\ d.assertions \subseteq c.assertions
  /\ Labels(c) \subseteq Labels(d) /\ c.tools \subseteq d.tools

LEMMA MoreRulesMatch ==
  ASSUME NEW pack, NEW set, NEW c, NEW d, AtLeastAsCautious(c, d)
  PROVE  MatchedRules(set, c, AuthorizedTools(pack, c))
           \subseteq MatchedRules(set, d, AuthorizedTools(pack, d))
<1>1. AuthorizedTools(pack, c) \subseteq AuthorizedTools(pack, d)
  BY DEF AuthorizedTools, AtLeastAsCautious
<1>2. \A dim : Scalar(c, dim) = Scalar(d, dim)
  BY DEF Scalar, AtLeastAsCautious
<1>3. {t.risk : t \in AuthorizedTools(pack, c)} \subseteq {t.risk : t \in AuthorizedTools(pack, d)}
  BY <1>1
<1>4. ASSUME NEW r \in set.rules, Matches(r.match, c, AuthorizedTools(pack, c))
      PROVE  Matches(r.match, d, AuthorizedTools(pack, d))
  BY <1>2, <1>3, <1>4 DEF Matches, AtLeastAsCautious
<1> QED BY <1>4 DEF MatchedRules

\* The decisions and requirements of a well-formed set.
LEMMA RulesAreWellFormed ==
  ASSUME NEW pack, WellFormedPack(pack), NEW set \in pack.policies,
         NEW rules \in SUBSET set.rules
  PROVE  /\ UNION {r.decision : r \in rules} \subseteq Decisions
         /\ \A q \in Requirements(rules) : WellFormedRequirement(q)
<1>1. \A r \in rules : WellFormedRule(r)
  BY DEF WellFormedPack, WellFormedPolicySet
<1>2. {DecisionOutcome[n] : n \in DOMAIN DecisionOutcome} = Decisions
  <2>1. DOMAIN DecisionOutcome = {1, 2, 3, 4}
    BY DEF DecisionOutcome
  <2> QED BY <2>1 DEF DecisionOutcome, Decisions
<1>3. \A r \in rules : r.decision \subseteq Decisions
  BY <1>1, <1>2 DEF WellFormedRule
<1>4. \A q \in Requirements(rules) : WellFormedRequirement(q)
  BY <1>1 DEF Requirements, WellFormedRule
<1> QED BY <1>3, <1>4

LEMMA FactsAreDated ==
  ASSUME NEW pack, WellFormedPack(pack), NEW target, NEW key,
         NEW f \in ResolveCapability(pack, target, key)
  PROVE  f.verified \in Int
<1>1. PICK rec \in pack.providers : f \in rec.facts
  BY DEF ResolveCapability
<1>2. WellFormedRecord(rec)
  BY DEF WellFormedPack
<1>3. f["verified"] = rec["verified"]
  BY <1>1, <1>2 DEF WellFormedRecord
<1> QED BY <1>2, <1>3 DEF WellFormedRecord

\* A requirement that is not met is not met later, nor with fewer conditions asserted.
LEMMA FailuresRemain ==
  ASSUME NEW pack, WellFormedPack(pack), NEW target, NEW req, WellFormedRequirement(req),
         NEW c, NEW d, AtLeastAsCautious(c, d),
         NEW today \in Int, NEW later \in Int, today <= later,
         CapabilityFailure(ResolveCapability(pack, target, req.key), req, c, today) # None
  PROVE  CapabilityFailure(ResolveCapability(pack, target, req.key), req, d, later) # None
<1> DEFINE facts == ResolveCapability(pack, target, req.key)
           fact == CHOOSE f \in facts : TRUE
<1>1. CASE facts = {} \/ \E f \in facts : f.state = "unknown"
  BY <1>1 DEF CapabilityFailure, None
<1>2. CASE ~(facts = {} \/ \E f \in facts : f.state = "unknown")
  <2>1. fact.verified \in Int
    BY <1>2, FactsAreDated
  <2>2. req.maxAge \subseteq Nat
    BY DEF WellFormedRequirement
  <2>3. Scalar(d, "assurance_level") = Scalar(c, "assurance_level")
    BY DEF Scalar, AtLeastAsCautious
  <2>4. (\E limit \in req.maxAge : today - fact.verified > limit)
          => (\E limit \in req.maxAge : later - fact.verified > limit)
    <3> HIDE DEF fact
    <3> QED BY <2>1, <2>2
  <2>5. fact.conditions \cup req.conditions \subseteq fact.conditions \cap d.assertions
          => fact.conditions \cup req.conditions \subseteq fact.conditions \cap c.assertions
    BY DEF AtLeastAsCautious
  <2> HIDE DEF facts
  <2> QED BY <1>2, <2>3, <2>4, <2>5 DEF CapabilityFailure, Stale, None, facts
<1> QED BY <1>1, <1>2

\* The operations a pack evaluates at all, and their decisions.
LEMMA EvaluationUnfolds ==
  ASSUME NEW pack, NEW set, NEW c, NEW today
  PROVE  LET rules == MatchedRules(set, c, AuthorizedTools(pack, c))
             failures == CapabilityFailures(pack, rules, c, today)
             e == Evaluate(pack, set, c, today)
         IN /\ ToolsUnauthorized(pack, c) => e.status = "FAILED_CLOSED"
            /\ ~ToolsUnauthorized(pack, c) =>
                 /\ e.status = "EVALUATED"
                 /\ e.decision = StrongestOutcome(
                                   (UNION {r.decision : r \in rules}) \cup
                                   (IF failures = {} THEN {} ELSE {"DENY"}))
BY DEF Evaluate, FailedEvaluation

LEMMA UnauthorizedRemains ==
  ASSUME NEW pack, NEW c, NEW d, AtLeastAsCautious(c, d), ToolsUnauthorized(pack, c)
  PROVE  ToolsUnauthorized(pack, d)
BY DEF ToolsUnauthorized, AtLeastAsCautious

\* With more to be careful about, an evaluation on the same day or later is refused, or it
\* decides at least as strictly.
THEOREM EvaluationIsMonotone ==
  ASSUME NEW pack, WellFormedPack(pack), NEW set \in pack.policies,
         NEW c, NEW d, AtLeastAsCautious(c, d),
         NEW today \in Int, NEW later \in Int, today <= later,
         Evaluate(pack, set, d, later).status = "EVALUATED"
  PROVE  /\ Evaluate(pack, set, c, today).status = "EVALUATED"
         /\ Strength(Evaluate(pack, set, c, today).decision)
              <= Strength(Evaluate(pack, set, d, later).decision)
<1> DEFINE rules == MatchedRules(set, c, AuthorizedTools(pack, c))
           more == MatchedRules(set, d, AuthorizedTools(pack, d))
           failures == CapabilityFailures(pack, rules, c, today)
           further == CapabilityFailures(pack, more, d, later)
           decisions == (UNION {r.decision : r \in rules}) \cup
                          (IF failures = {} THEN {} ELSE {"DENY"})
           stricter == (UNION {r.decision : r \in more}) \cup
                         (IF further = {} THEN {} ELSE {"DENY"})
<1>1. ~ToolsUnauthorized(pack, d) /\ ~ToolsUnauthorized(pack, c)
  <2>1. ~ToolsUnauthorized(pack, d)
    BY EvaluationUnfolds
  <2> QED BY <2>1, UnauthorizedRemains
<1>2. /\ Evaluate(pack, set, c, today).status = "EVALUATED"
      /\ Evaluate(pack, set, c, today).decision = StrongestOutcome(decisions)
  BY <1>1, EvaluationUnfolds
<1>3. Evaluate(pack, set, d, later).decision = StrongestOutcome(stricter)
  BY <1>1, EvaluationUnfolds
<1>4. rules \subseteq more /\ more \subseteq set.rules
  BY MoreRulesMatch DEF MatchedRules
<1>5. failures # {} => further # {}
  <2> SUFFICES ASSUME failures # {} PROVE further # {}
    OBVIOUS
  <2>1. PICK target \in Targets(c), req \in Requirements(rules) :
          CapabilityFailure(ResolveCapability(pack, target, req.key), req, c, today) # None
    BY DEF CapabilityFailures
  <2>2. target \in Targets(d)
    BY DEF Targets, AtLeastAsCautious
  <2>3. req \in Requirements(more) /\ WellFormedRequirement(req)
    <3>1. req \in Requirements(more)
      BY <1>4 DEF Requirements
    <3> QED BY <1>4, <3>1, RulesAreWellFormed
  <2>4. CapabilityFailure(ResolveCapability(pack, target, req.key), req, d, later) # None
    BY <2>1, <2>3, FailuresRemain
  <2> QED BY <2>2, <2>3, <2>4 DEF CapabilityFailures
<1>6. decisions \subseteq stricter /\ stricter \subseteq Decisions
  <2> HIDE DEF failures, further, rules, more
  <2>1. UNION {r.decision : r \in rules} \subseteq UNION {r.decision : r \in more}
    BY <1>4
  <2>2. UNION {r.decision : r \in more} \subseteq Decisions
    BY <1>4, RulesAreWellFormed
  <2> QED BY <1>5, <2>1, <2>2 DEF Decisions
<1>7. Strength(StrongestOutcome(decisions)) <= Strength(StrongestOutcome(stricter))
  <2> HIDE DEF decisions, stricter
  <2> QED BY <1>6, MoreOutcomesAreStronger
<1> QED BY <1>2, <1>3, <1>7

LEMMA StrengthsAreNumbers ==
  ASSUME NEW pack, WellFormedPack(pack), NEW set \in pack.policies, NEW c, NEW today,
         Evaluate(pack, set, c, today).status = "EVALUATED"
  PROVE  Strength(Evaluate(pack, set, c, today).decision) \in Int
<1> DEFINE rules == MatchedRules(set, c, AuthorizedTools(pack, c))
           failures == CapabilityFailures(pack, rules, c, today)
           decisions == (UNION {r.decision : r \in rules}) \cup
                          (IF failures = {} THEN {} ELSE {"DENY"})
<1>1. Evaluate(pack, set, c, today).decision = StrongestOutcome(decisions)
  BY EvaluationUnfolds
<1>2. decisions \subseteq Decisions
  <2>1. rules \subseteq set.rules
    BY DEF MatchedRules
  <2> HIDE DEF failures, rules
  <2> QED BY <2>1, RulesAreWellFormed DEF Decisions
<1> HIDE DEF decisions
<1> QED BY <1>1, <1>2, StrongestIsANumber

\* What is decided is never stronger than a refusal.
LEMMA EvaluatedAtMostDenies ==
  ASSUME NEW pack, WellFormedPack(pack), NEW set \in pack.policies, NEW c, NEW today,
         Evaluate(pack, set, c, today).status = "EVALUATED"
  PROVE  Strength(Evaluate(pack, set, c, today).decision) <= Strength("DENY")
<1> DEFINE rules == MatchedRules(set, c, AuthorizedTools(pack, c))
           failures == CapabilityFailures(pack, rules, c, today)
           decisions == (UNION {r.decision : r \in rules}) \cup
                          (IF failures = {} THEN {} ELSE {"DENY"})
<1>1. Evaluate(pack, set, c, today).decision = StrongestOutcome(decisions)
  BY EvaluationUnfolds
<1>2. decisions \subseteq Decisions
  <2>1. rules \subseteq set.rules
    BY DEF MatchedRules
  <2> HIDE DEF failures, rules
  <2> QED BY <2>1, RulesAreWellFormed DEF Decisions
<1> HIDE DEF decisions
<1> QED BY <1>1, <1>2, DenyIsStrongest

(***************************************************************************)
(* Scenarios name a policy set by its logical id                           *)
(***************************************************************************)
\* A scenario that is evaluated found the one set of that name.
LEMMA OneSetIsEvaluated ==
  ASSUME NEW pack, WellFormedPack(pack), NEW c, NEW today,
         ReplayOutcome(pack, c, today).status = "EVALUATED"
  PROVE  \E set \in pack.policies :
           /\ SetsNamed(pack, c.set) = {set}
           /\ ReplayOutcome(pack, c, today) = Evaluate(pack, set, c, today)
<1> DEFINE sets == SetsNamed(pack, c.set)
           set == CHOOSE s \in sets : TRUE
<1>1. sets # {} /\ ~(Cardinality(sets) > 1)
  BY DEF ReplayOutcome, FailedEvaluation
<1>2. set \in sets
  BY <1>1
<1>3. IsFiniteSet(sets)
  BY FS_Subset DEF WellFormedPack, SetsNamed
<1>4. Cardinality(sets) \in Nat
  BY <1>3, FS_CardinalityType
<1>5. ASSUME NEW other \in sets PROVE other = set
  <2> SUFFICES ASSUME other # set PROVE FALSE
    OBVIOUS
  <2>1. Cardinality({set}) = 1 /\ IsFiniteSet({set}) /\ Cardinality({set} \cup {other}) = 2
    BY FS_Singleton, FS_AddElement
  <2>2. {set} \cup {other} \subseteq sets
    BY <1>2
  <2>3. Cardinality({set} \cup {other}) <= Cardinality(sets)
    BY <1>3, <2>2, FS_Subset
  <2> QED BY <1>1, <1>4, <2>1, <2>3
<1>6. sets = {set}
  BY <1>2, <1>5
<1>7. set \in pack.policies
  BY <1>2 DEF SetsNamed
<1>8. ReplayOutcome(pack, c, today) = Evaluate(pack, set, c, today)
  BY <1>1 DEF ReplayOutcome
<1> QED BY <1>6, <1>7, <1>8

\* Conversely, where one set has the name its evaluation is the outcome.
LEMMA OneSetDecides ==
  ASSUME NEW pack, NEW c, NEW today, NEW set, SetsNamed(pack, c.set) = {set}
  PROVE  ReplayOutcome(pack, c, today) = Evaluate(pack, set, c, today)
<1>1. Cardinality({set}) = 1
  BY FS_Singleton
<1>2. (CHOOSE s \in {set} : TRUE) = set
  OBVIOUS
<1> QED BY <1>1, <1>2 DEF ReplayOutcome

(***************************************************************************)
(* Transformations                                                         *)
(***************************************************************************)
\* The types of treatment that the rules which apply ask for a field.
AskedOf(pack, set, c, field) ==
  LET tools == AuthorizedTools(pack, c)
      Selects(r, o) == /\ o.type \in TransformationType
                       /\ field \in ObligationTargets(o, r.match, c, tools)
  IN UNION {{o.type : o \in {q \in r.obligations : Selects(r, q)}} :
            r \in MatchedRules(set, c, tools)}

\* The treatment of a field is what the rules ask for it, and there is one at most when
\* the transformations of the evaluation go through.
THEOREM TreatmentIsAsked ==
  ASSUME NEW pack, NEW set, NEW c, NEW today, NEW field,
         Evaluate(pack, set, c, today).status = "EVALUATED"
  PROVE  LET e == Evaluate(pack, set, c, today)
         IN /\ Treatment(e, field) = AskedOf(pack, set, c, field)
            /\ ~TransformationFails(e, c) => Cardinality(Treatment(e, field)) <= 1
<1> DEFINE e == Evaluate(pack, set, c, today)
           tools == AuthorizedTools(pack, c)
           rules == MatchedRules(set, c, tools)
<1>1. ~ToolsUnauthorized(pack, c)
  BY EvaluationUnfolds
<1>2. e.obligations = ExpandObligations(rules, c, tools) \cup CapabilityObligations(rules)
                        \cup {Obligation("REQUIRE_EVIDENCE", None, "EVIDENCE_REQUIRED", {}, {})}
  BY <1>1 DEF Evaluate
<1>3. \A o \in CapabilityObligations(rules) : o.type = "REQUIRE_PROVIDER_CAPABILITY"
  BY DEF CapabilityObligations, Obligation
<1>4. Transformations(e) = {o \in ExpandObligations(rules, c, tools) : o.type \in TransformationType}
  BY <1>2, <1>3 DEF Transformations, TransformationType, Obligation
<1> HIDE DEF e
<1>5. Treatment(e, field) = AskedOf(pack, set, c, field)
  <2>1. ASSUME NEW type \in Treatment(e, field) PROVE type \in AskedOf(pack, set, c, field)
    <3>1. PICK o \in Transformations(e) : o.target = field /\ o.type = type
      BY DEF Treatment
    <3>2. PICK r \in rules : \E tpl \in r.obligations :
            \E target \in ObligationTargets(tpl, r.match, c, tools) :
              o = Obligation(tpl.type, target, tpl.reason, r.controls, tpl.parameters)
      BY <1>4, <3>1 DEF ExpandObligations
    <3>3. PICK tpl \in r.obligations : \E target \in ObligationTargets(tpl, r.match, c, tools) :
              o = Obligation(tpl.type, target, tpl.reason, r.controls, tpl.parameters)
      BY <3>2
    <3>4. tpl.type = type /\ field \in ObligationTargets(tpl, r.match, c, tools)
      BY <3>1, <3>3 DEF Obligation
    <3>5. type \in TransformationType
      BY <1>4, <3>1
    <3> QED BY <3>4, <3>5 DEF AskedOf
  <2>2. ASSUME NEW type \in AskedOf(pack, set, c, field) PROVE type \in Treatment(e, field)
    <3>1. PICK r \in rules : \E tpl \in r.obligations :
            /\ tpl.type \in TransformationType /\ tpl.type = type
            /\ field \in ObligationTargets(tpl, r.match, c, tools)
      BY DEF AskedOf
    <3>2. PICK tpl \in r.obligations :
            /\ tpl.type \in TransformationType /\ tpl.type = type
            /\ field \in ObligationTargets(tpl, r.match, c, tools)
      BY <3>1
    <3> DEFINE o == Obligation(tpl.type, field, tpl.reason, r.controls, tpl.parameters)
    <3>3. o.type = type /\ o.target = field
      BY <3>2 DEF Obligation
    <3>4. o \in ExpandObligations(rules, c, tools)
      BY <3>2 DEF ExpandObligations
    <3> HIDE DEF o
    <3>5. o \in Transformations(e)
      BY <1>4, <3>2, <3>3, <3>4
    <3> QED BY <3>3, <3>5 DEF Treatment
  <2> QED BY <2>1, <2>2
<1>6. ASSUME ~TransformationFails(e, c) PROVE Cardinality(Treatment(e, field)) <= 1
  <2>1. \A x, y \in Treatment(e, field) : x = y
    BY <1>6 DEF TransformationFails, Treatment
  <2>2. CASE Treatment(e, field) = {}
    BY <2>2, FS_EmptySet
  <2>3. CASE Treatment(e, field) # {}
    <3>1. PICK x \in Treatment(e, field) : TRUE
      BY <2>3
    <3>2. Treatment(e, field) = {x}
      BY <2>1, <3>1
    <3>3. Cardinality(Treatment(e, field)) = 1
      BY <3>2, FS_Singleton
    <3> QED BY <3>3
  <2> QED BY <2>2, <2>3
<1> QED BY <1>5, <1>6 DEF e
=============================================================================
