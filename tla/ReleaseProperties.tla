-------------------------- MODULE ReleaseProperties --------------------------
(***************************************************************************)
(* What the release of a control pack guarantees, stated over what the     *)
(* tools print: the evidence bundle and the authorization.                 *)
(***************************************************************************)
EXTENDS ReleasePromotion

(***************************************************************************)
(* Reviews                                                                 *)
(***************************************************************************)
CandidateOf(b) == CHOOSE p \in Candidates : p.digest = b.candidate

SymmetricDifference(S, T) == (S \ T) \cup (T \ S)
RulesOf(pack, id) == UNION {s.rules : s \in SetsNamed(pack, id)}
FactsOf(pack, target) == UNION {rec.facts : rec \in {r \in pack.providers : r.target = target}}
Definitions(pack) == {[t EXCEPT !.catalog = None] : t \in pack.tools}

\* The reviewer of an attestation accepted this rule, capability or tool: in
\* the detailed review, or with the whole artifact if it comes or goes.
AcceptsRule(a, id) ==
  \/ a.type # "MODIFIED"
  \/ \E r \in a.review, i \in UNION {q.rules : q \in a.review} :
       i.rule = id /\ i.conclusion = IF i.support = {} THEN "NOT_APPLICABLE" ELSE "APPROVED"
AcceptsFact(a, key) ==
  \/ a.type # "MODIFIED"
  \/ LET sources == UNION {q.sources : q \in a.review}
     IN /\ \E s \in sources : key \in s.keys /\ s.conclusion = "CORROBORATED"
        /\ \A s \in sources : key \in s.keys => s.conclusion = "CORROBORATED"
AcceptsTool(a, name) ==
  \E i \in UNION {q.tools : q \in a.review} : i.tool = name /\ i.conclusion = "APPROVED"

\* An attestation in the bundle approves the subject, as it is in the
\* candidate or was in the base, by a key with the authority for it that was
\* valid when it signed.
Approves(b, kind, id, Accepts(_)) ==
  \E a \in b.evidence :
    /\ a.kind = kind /\ a.id = id /\ a.approves
    /\ a.base = Base.digest /\ a.candidate = b.candidate
    /\ a.content = ReviewedContent(Base, CandidateOf(b), a)
    /\ LET key == ReviewKeys[a.key]
       IN /\ ActiveAt(key, a.at)
          /\ a.role \in key.roles /\ kind \in key.kinds /\ a.type \in key.types
    /\ Accepts(a)

\* Whatever candidate and base do not share has been approved.
EveryChangeApproved(b) ==
  LET new == CandidateOf(b)
  IN /\ \A id \in {s.id : s \in Base.policies \cup new.policies} :
          \A r \in SymmetricDifference(RulesOf(Base, id), RulesOf(new, id)) :
            LET Accepts(a) == AcceptsRule(a, r.id)
            IN Approves(b, "POLICY_SET", <<id>>, Accepts)
     /\ \A target \in {rec.target : rec \in Base.providers \cup new.providers} :
          \A f \in SymmetricDifference(FactsOf(Base, target), FactsOf(new, target)) :
            LET Accepts(a) == AcceptsFact(a, f.key)
            IN Approves(b, "PROVIDER_TARGET", TargetId(target), Accepts)
     /\ \A t \in SymmetricDifference(Definitions(Base), Definitions(new)) :
          LET Accepts(a) == AcceptsTool(a, t.name)
          IN Approves(b, "TOOL_CATALOG", TheCatalog, Accepts)

\* An authorized promotion carries, for every rule, provider capability and
\* tool in which candidate and base differ, an authenticated approval of
\* exactly this content in this release pair, whatever was restaged, reviewed
\* again or re-signed in between, and whatever the reviews failed to cover.
EveryChangeReviewed == \A auth \in authorized : EveryChangeApproved(auth.bundle)

(***************************************************************************)
(* Promotion                                                               *)
(***************************************************************************)

\* An authorized promotion has, for every required role, the approval of a
\* promoter entitled to it, and as many different keys as the quorum asks
\* for, each given for this bundle under this policy and valid at the instant
\* of evaluation; no promoter whose statement was supplied rejects.
PromotedByQuorum ==
  \A auth \in authorized :
    LET Valid(a) == /\ a.bundle = auth.bundle /\ a.policy = auth.policy /\ a.approves
                    /\ a.issued <= auth.at /\ auth.at < a.expires
                    /\ a.role \in PromotionKeys[a.key].roles
                    /\ ActiveAt(PromotionKeys[a.key], a.issued)
        valid == {a \in auth.attestations : Valid(a)}
    IN /\ auth.policy.roles \subseteq {a.role : a \in valid}
       /\ Cardinality({a.key : a \in valid}) >= auth.policy.minimum
       /\ \A a \in auth.attestations : a.approves

(***************************************************************************)
(* Analysis: what the bundle reports                                       *)
(***************************************************************************)
WithoutControls(e) == {[o EXCEPT !.controls = {}] : o \in e.obligations}
OutcomeDiffers(e, f) ==
  \/ e.status # f.status
  \/ e.status = "EVALUATED" /\ (e.decision # f.decision \/ WithoutControls(e) # WithoutControls(f))

MatchedIn(pack, s) ==
  UNION {{PolicySetId(set) \o RuleId(r) :
            r \in MatchedRules(set, s, AuthorizedTools(pack, s))} :
         set \in SetsNamed(pack, s.set)}

\* A change of the report that says why a scenario may turn out differently:
\* of its policy set, of one of its tools, or of a provider it names, through
\* a rule that applies to it and is listed as dependent on the provider.
\* (Rules match on the primary provider only, but require of the fallbacks
\* too: the list is by design of the code not complete for those.)
Explains(c, d) ==
  CASE c.kind = "POLICY_SET"      -> c.id[1] = d.scenario.set
    [] c.kind = "POLICY_RULE"     -> c.id[1] = d.scenario.set
    [] c.kind = "TOOL_DEFINITION" -> \E t \in d.scenario.tools : <<t.name>> = c.id
    [] c.kind = "TOOL_CATALOG"    -> FALSE
    [] OTHER ->
         LET Concerns(target) == TargetId(target) = SubSeq(c.id, 1, 3)
         IN \/ \E target \in d.scenario.fallbacks : Concerns(target)
            \/ Concerns(d.scenario.provider) /\ d.matched \cap c.dependents # {}

\* The scenarios whose outcome a candidate changes, with the rules that apply
\* to them before or after.
DifferingOutcomes ==
  UNION {{[candidate |-> p.digest, scenario |-> s,
           matched |-> MatchedIn(Base, s) \cup MatchedIn(p, s)] :
            s \in {t \in Suite.scenarios :
                     OutcomeDiffers(ReplayOutcome(Base, t, Suite.today),
                                    ReplayOutcome(p, t, Suite.today))}} :
         p \in Candidates}

\* A scenario whose decision or treatment differs between base and candidate
\* is announced by the static report of the same bundle: a change of DECISION
\* impact that bears on that scenario.  (Obligations are compared without
\* their control objectives, whose change the report calls EVIDENCE and the
\* replay DECISION.)
DecisionChangesExplained ==
  \A b \in bundle, d \in DifferingOutcomes :
    d.candidate = b.candidate
      => \E c \in b.changes : c.impact = "DECISION" /\ Explains(c, d)

(***************************************************************************)
(* Evaluation under a staged pack                                          *)
(***************************************************************************)
Decided(pack, s, today) ==
  LET outcome == ReplayOutcome(pack, s, today)
  IN IF outcome.status = "EVALUATED" THEN Strength(outcome.decision)
     ELSE Strength("DENY")

\* The rules that apply to a scenario.
Applicable(pack, s) ==
  UNION {MatchedRules(set, s, AuthorizedTools(pack, s)) : set \in SetsNamed(pack, s.set)}

\* Contexts that call for at least as much caution: evidence that has aged, a
\* fallback more, an assertion fewer, sensitive data or a tool more.
MoreCautious(pack, s) ==
  {[s EXCEPT !.fallbacks = @ \cup {rec.target}] : rec \in pack.providers} \cup
  {[s EXCEPT !.assertions = @ \ {x}] : x \in s.assertions} \cup
  {[s EXCEPT !.items = @ \cup {i}] : i \in UNION {t.items : t \in Suite.scenarios}} \cup
  {[s EXCEPT !.tools = @ \cup {x}] : x \in UNION {t.tools : t \in Suite.scenarios}}

MonotoneUnder(pack) ==
  \A s \in Suite.scenarios, days \in {0, 1, 30, 31} :
    LET decided == Decided(pack, s, Suite.today)
    IN \A c \in {s} \cup MoreCautious(pack, s) :
         Decided(pack, c, Suite.today + days) >= decided

\* A fact that an applicable rule requires of one of the providers serves the
\* scenario on this day for the last time: it has reached its maximum age, and
\* the assurance asked for makes that count.
LastDay(pack, s, day) ==
  /\ Scalar(s, "assurance_level") = "high"
  /\ \E r \in Applicable(pack, s), target \in {s.provider} \cup s.fallbacks :
       \E q \in r.capabilities, f \in FactsOf(pack, target) :
         f.key = q.key /\ day - f.verified \in q.maxAge

LapsesUnder(pack) ==
  \A s \in Suite.scenarios, days \in -31..31 :
    LET day == Suite.today + days
    IN Decided(pack, s, day + 1) =
         IF LastDay(pack, s, day) THEN Strength("DENY") ELSE Decided(pack, s, day)

CautiousPacks ==
  {p.digest : p \in {q \in Candidates : MonotoneUnder(q) /\ LapsesUnder(q)}}

\* More to be careful about never leads to a weaker decision, whether a further
\* provider, an unmet condition, a label, a tool or the passing of time.  Time
\* alone changes a decision on one occasion only: where the assurance is high,
\* the day after a required fact reached its maximum age is refused, and not
\* that day itself.
CautionIsMonotone == staged.pack.digest \in CautiousPacks

\* An obligation of a rule is directed at a field: by a label of the data in
\* it, by its own name, or as the name of a tool of a risk the rule matches.
DirectedAt(pack, s, r, o, field) ==
  \/ o.class # None /\ \E i \in s.items : i.field = field /\ o.class \in i.labels
  \/ o.class = None /\ o.target # "matched_tool" /\ o.target = field
  \/ /\ o.class = None /\ o.target = "matched_tool"
     /\ \E t \in AuthorizedTools(pack, s) : t.name = field /\ t.risk \in r.match.risks

\* The types of treatment that the rules which apply ask for a field.
Asked(pack, s, field) ==
  {type \in TransformationType :
     \E r \in Applicable(pack, s) :
       \E o \in r.obligations : o.type = type /\ DirectedAt(pack, s, r, o, field)}

ExactUnder(pack) ==
  \A s \in Suite.scenarios :
    LET e == ReplayOutcome(pack, s, Suite.today)
    IN (e.status = "EVALUATED" /\ e.decision # "DENY" /\ ~ TransformationFails(e, s))
         => \A i \in s.items : /\ Treatment(e, i.field) = Asked(pack, s, i.field)
                               /\ Cardinality(Treatment(e, i.field)) <= 1
ExactPacks == {p.digest : p \in {q \in Candidates : ExactUnder(q)}}

\* When the transformations of an evaluation go through, every rule that
\* applies gets for every field exactly the treatment it asks for, and no
\* field is treated that no rule asks for: rules that disagree about a field
\* stop the operation instead.
TransformationsAreExact == staged.pack.digest \in ExactPacks
==============================================================================
