---------------------------- MODULE UpdateReviews ----------------------------
(***************************************************************************)
(* The detailed reviews of a changed artifact: ReviewPolicyUpdate,         *)
(* ReviewProviderCapabilityUpdate and ReviewToolCatalogUpdate.             *)
(*                                                                         *)
(* An artifact of a pack is a policy set, a provider record or the tool    *)
(* catalog; its content digest is the artifact itself.  A review record    *)
(* names the pack it starts from and the content it looked at, and is      *)
(* refused when it does not fit them; what it fails to cover or to accept  *)
(* is a finding, and a review without findings approves.                   *)
(***************************************************************************)
EXTENDS ScenarioReplay

RegulatoryReviewConclusion == {"APPROVED", "NEEDS_REVISION", "REJECTED", "NOT_APPLICABLE"}
ProviderReviewConclusion   == {"CORROBORATED", "INCONCLUSIVE", "CONTRADICTED"}
ToolReviewConclusion       == {"APPROVED", "NEEDS_REVISION", "REJECTED"}

RuleName(item)         == item.rule
ReviewedToolName(item) == item.tool

\* A review says one thing about each rule or tool, and each source says it of
\* some capabilities; two entries of one source may only differ in these.
WellFormedPolicyReview(review) ==
  /\ review.fields \subseteq {"version", "metadata"}
  /\ ~ IdentifiersClash(review.rules, RuleName)
  /\ \A i \in review.rules : i.conclusion \in RegulatoryReviewConclusion
WellFormedProviderReview(review) ==
  /\ review.sources # {}
  /\ \A s \in review.sources : s.keys # {} /\ s.conclusion \in ProviderReviewConclusion
  /\ \A s, t \in review.sources : s # t /\ s.url = t.url => s.keys \cap t.keys = {}
WellFormedToolReview(review) ==
  /\ ~ IdentifiersClash(review.tools, ReviewedToolName)
  /\ \A i \in review.tools : i.conclusion \in ToolReviewConclusion

\* Added, removed and modified items of a family indexed by Id.
ItemChanges(base, candidate, Id(_), Content(_)) ==
  LET old == {Id(i) : i \in base}
      new == {Id(i) : i \in candidate}
  IN {[id |-> id, type |-> "REMOVED"] : id \in old \ new} \cup
     {[id |-> id, type |-> "ADDED"] : id \in new \ old} \cup
     {[id |-> id, type |-> "MODIFIED"] :
        id \in {i \in old \cap new :
                  Content(Named(base, Id, i)) # Content(Named(candidate, Id, i))}}

SameContent(item) == item

(***************************************************************************)
(* Policy sets                                                             *)
(***************************************************************************)
PolicySetFields == {"version", "metadata"}
ChangedPolicySetFields(approved, candidate) ==
  {f \in PolicySetFields : approved[f] # candidate[f]}

RuleChanges(approved, candidate) ==
  ItemChanges(approved.rules, candidate.rules, LogicalId, SameContent)

\* The rule a review item is about: the removed one, or the candidate's.
ReviewedRule(approved, candidate, change) ==
  Named(IF change.type = "REMOVED" THEN approved.rules ELSE candidate.rules,
        LogicalId, change.id)

PolicyReviewRejected(base, candidate, review) ==
  LET matches  == SetsNamed(base, candidate.id)
      approved == CHOOSE s \in matches : TRUE
      changes  == RuleChanges(approved, candidate)
      Unfit(item) ==
        \/ ~ \E change \in changes : change = [id |-> item.rule, type |-> item.type]
        \/ LET rule == ReviewedRule(approved, candidate,
                                    [id |-> item.rule, type |-> item.type])
           IN item.controls # rule.controls \/ item.support # rule.support
  IN \/ review.base # base.digest
     \/ review.content # candidate
     \/ review.subject # <<candidate.id>>
     \/ Cardinality(matches) # 1
     \/ IdentifiersClash(approved.rules, LogicalId)
     \/ IdentifiersClash(candidate.rules, LogicalId)
     \/ ~ review.fields \subseteq ChangedPolicySetFields(approved, candidate)
     \/ \E item \in review.rules : Unfit(item)

RuleConclusionFinding(item) ==
  IF item.support = {}
  THEN IF item.conclusion = "NOT_APPLICABLE" THEN {}
       ELSE {<<"ENTERPRISE_RULE_CONCLUSION_INVALID", item.rule>>}
  ELSE IF item.conclusion = "APPROVED" THEN {}
       ELSE {<<item.conclusion, item.rule>>}

PolicyReviewFindings(base, candidate, review) ==
  LET approved == CHOOSE s \in SetsNamed(base, candidate.id) : TRUE
      changes  == RuleChanges(approved, candidate)
      covered  == {item.rule : item \in review.rules}
  IN (IF candidate.version = approved.version
      THEN {<<"POLICY_SET_VERSION_UNCHANGED", candidate.id>>} ELSE {})
     \cup {<<"POLICY_SET_FIELD_UNREVIEWED", f>> :
             f \in ChangedPolicySetFields(approved, candidate) \ review.fields}
     \cup (IF review.fields = {} \/ review.conclusion = "APPROVED" THEN {}
           ELSE {<<review.conclusion, candidate.id>>})
     \cup {<<"RULE_REVIEW_MISSING", c.id>> : c \in {d \in changes : d.id \notin covered}}
     \cup {<<"RULE_VERSION_UNCHANGED", c.id>> :
             c \in {d \in changes :
                      /\ d.type = "MODIFIED" /\ d.id \in covered
                      /\ Named(approved.rules, LogicalId, d.id).version
                           = Named(candidate.rules, LogicalId, d.id).version}}
     \cup {<<"CONTROL_OBJECTIVE_MISSING", c.id>> :
             c \in {d \in changes :
                      /\ d.type # "REMOVED" /\ d.id \in covered
                      /\ ReviewedRule(approved, candidate, d).controls = {}}}
     \cup UNION {RuleConclusionFinding(item) : item \in review.rules}

(***************************************************************************)
(* Provider capability records                                             *)
(***************************************************************************)
RequiredKeys(approved, candidate) == Keys(approved) \cup Keys(candidate)

ProviderReviewRejected(base, candidate, review) ==
  LET matches  == {rec \in base.providers : rec.target = candidate.target}
      approved == CHOOSE rec \in matches : TRUE
  IN \/ review.base # base.digest
     \/ review.content # candidate
     \/ review.subject # TargetId(candidate.target)
     \/ Cardinality(matches) # 1
     \/ RequiredKeys(approved, candidate) = {}
     \/ \E source \in review.sources :
          \/ source.url \notin approved.urls \cup candidate.urls
          \/ ~ source.keys \subseteq RequiredKeys(approved, candidate)

\* The gravest conclusion any source reaches about a capability.
CapabilityConclusion(sources, key) ==
  LET reached == {s.conclusion : s \in {t \in sources : key \in t.keys}}
  IN IF "CONTRADICTED" \in reached THEN "CAPABILITY_CONTRADICTED"
     ELSE IF "INCONCLUSIVE" \in reached THEN "CAPABILITY_INCONCLUSIVE"
     ELSE IF "CORROBORATED" \in reached THEN None
     ELSE "CAPABILITY_UNREVIEWED"

ProviderReviewFindings(base, candidate, review) ==
  LET approved == Named(base.providers, TargetOf, candidate.target)
      Conclusion(key) == CapabilityConclusion(review.sources, key)
      Finding(code, holds) == IF holds THEN {<<code, None>>} ELSE {}
  IN Finding("REGISTRY_VERSION_UNCHANGED", candidate.registry = approved.registry)
     \cup Finding("RECORD_VERSION_UNCHANGED", candidate.record = approved.record)
     \cup Finding("VERIFIED_AT_REGRESSION", candidate.verified < approved.verified)
     \cup Finding("VERIFIED_AT_REVIEW_MISMATCH", candidate.verified # review.at)
     \cup {<<"CANDIDATE_SOURCE_UNREVIEWED", u>> :
             u \in candidate.urls \ {s.url : s \in review.sources}}
     \cup {<<Conclusion(key), key>> :
             key \in {k \in RequiredKeys(approved, candidate) : Conclusion(k) # None}}

(***************************************************************************)
(* Tool catalogs                                                           *)
(***************************************************************************)
SemanticDefinition(t) == <<t.description, t.risk, t.schema, t.definition>>

CatalogChanges(base, candidate) ==
  ItemChanges(base.tools, candidate.tools, ToolName, SemanticDefinition)

ToolReviewRejected(base, candidate, review) ==
  \/ review.base # base.digest
  \/ review.content # candidate
  \/ base.catalog = {}
  \/ IdentifiersClash(base.tools, ToolName)
  \/ IdentifiersClash(candidate.tools, ToolName)
  \/ \E item \in review.tools :
       [id |-> item.tool, type |-> item.type] \notin CatalogChanges(base, candidate)

ToolReviewFindings(base, candidate, review) ==
  LET changes == CatalogChanges(base, candidate)
      covered == {item.tool : item \in review.tools}
      SchemaUnversioned(name) ==
        LET old == Named(base.tools, ToolName, name)
            new == Named(candidate.tools, ToolName, name)
        IN old.definition # new.definition /\ old.schema = new.schema
  IN (IF base.catalog = candidate.catalog
      THEN {<<"CATALOG_VERSION_UNCHANGED", None>>} ELSE {})
     \cup {<<"TOOL_REVIEW_MISSING", c.id>> : c \in {d \in changes : d.id \notin covered}}
     \cup {<<"TOOL_SCHEMA_VERSION_UNCHANGED", c.id>> :
             c \in {d \in changes : /\ d.type = "MODIFIED" /\ d.id \in covered
                                    /\ SchemaUnversioned(d.id)}}
     \cup {<<item.conclusion, item.tool>> :
             item \in {i \in review.tools : i.conclusion # "APPROVED"}}
==============================================================================
