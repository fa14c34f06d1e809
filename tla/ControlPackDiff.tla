--------------------------- MODULE ControlPackDiff ---------------------------
(***************************************************************************)
(* AnalyzeControlPackDiff: the semantic changes between two releases of    *)
(* one control pack, each with the impact it may have on decisions, and    *)
(* for provider changes the rules that depend on it.                       *)
(***************************************************************************)
EXTENDS ControlPacks

Change(kind, type, id, impact, dependents) ==
  [kind |-> kind, type |-> type, id |-> id, impact |-> impact, dependents |-> dependents]

\* The identifier of a change is the sequence of the names it is composed of.
\* Every change of a family of named items: one that only the base or only
\* the candidate names is removed or added; one that both name is compared.
Lifecycle(kind, base, candidate, Dependents(_)) ==
  {Change(kind, "REMOVED", id, "DECISION", Dependents(id)) : id \in base \ candidate} \cup
  {Change(kind, "ADDED", id, "DECISION", Dependents(id)) : id \in candidate \ base}

NoDependents(id) == {}

\* The impact of the changed fields of a record, the graver field deciding.
Impact(base, candidate, decision, evidence) ==
  IF \E f \in decision : base[f] # candidate[f] THEN "DECISION"
  ELSE IF \E f \in evidence : base[f] # candidate[f] THEN "EVIDENCE"
  ELSE "GOVERNANCE"

Differs(base, candidate, fields) == \E f \in fields : base[f] # candidate[f]

(***************************************************************************)
(* Policy sets and rules, by versioned identity                            *)
(***************************************************************************)
RuleDecisionFields   == {"match", "decision", "obligations", "capabilities"}
RuleEvidenceFields   == {"controls", "reason"}
RuleGovernanceFields == {"support"}

PolicyRuleImpact(base, candidate) ==
  Impact(base, candidate, RuleDecisionFields, RuleEvidenceFields)

OnePolicySetChanges(base, candidate) ==
  LET baseRules == {RuleId(r) : r \in base.rules}
      candidateRules == {RuleId(r) : r \in candidate.rules}
      Both(id) == <<Named(base.rules, RuleId, id), Named(candidate.rules, RuleId, id)>>
      changed == {id \in baseRules \cap candidateRules :
                    Differs(Both(id)[1], Both(id)[2],
                            RuleDecisionFields \cup RuleEvidenceFields
                              \cup RuleGovernanceFields)}
      Qualify(c) == [c EXCEPT !.id = PolicySetId(base) \o @]
  IN {Qualify(c) : c \in Lifecycle("POLICY_RULE", baseRules, candidateRules, NoDependents)}
     \cup {Change("POLICY_RULE", "MODIFIED", PolicySetId(base) \o id,
                  PolicyRuleImpact(Both(id)[1], Both(id)[2]), {}) : id \in changed}
     \cup (IF base.metadata = candidate.metadata THEN {}
           ELSE {Change("POLICY_SET", "MODIFIED", PolicySetId(base), "GOVERNANCE", {})})

PolicyChanges(base, candidate) ==
  LET baseIds == {PolicySetId(s) : s \in base}
      candidateIds == {PolicySetId(s) : s \in candidate}
  IN Lifecycle("POLICY_SET", baseIds, candidateIds, NoDependents)
     \cup UNION {OnePolicySetChanges(Named(base, PolicySetId, id),
                                     Named(candidate, PolicySetId, id)) :
                 id \in baseIds \cap candidateIds}

(***************************************************************************)
(* Provider targets and their capabilities                                 *)
(***************************************************************************)
RuleCanMatchTarget(r, target) ==
  \A dim \in DOMAIN target \cap DOMAIN r.match.scalars :
    r.match.scalars[dim] = target[dim]

DependentPolicyRules(policies, target, keys) ==
  UNION {{PolicySetId(s) \o RuleId(r) :
            r \in {q \in s.rules : /\ \E req \in q.capabilities : req.key \in keys
                                   /\ RuleCanMatchTarget(q, target)}} :
         s \in policies}

CapabilityDecisionFields   == {"state", "conditions", "verified"}
CapabilityEvidenceFields   == {"record", "registry", "urls"}
CapabilityGovernanceFields == {"notes"}

\* Faulty variant: the date of verification counts as provenance.
ProviderCapabilityImpactUndated(base, candidate) ==
  Impact(base, candidate, CapabilityDecisionFields \ {"verified"},
         CapabilityEvidenceFields \cup {"verified"})

ProviderCapabilityImpact(base, candidate) ==
  Impact(base, candidate, CapabilityDecisionFields, CapabilityEvidenceFields)

Keys(rec) == {f.key : f \in rec.facts}

OneProviderTargetChanges(base, candidate, policies) ==
  LET Dependents(key) == DependentPolicyRules(policies, base.target, {key})
      Both(key) == <<Named(base.facts, FactKey, key), Named(candidate.facts, FactKey, key)>>
      changed == {key \in Keys(base) \cap Keys(candidate) :
                    Differs(Both(key)[1], Both(key)[2],
                            CapabilityDecisionFields \cup CapabilityEvidenceFields
                              \cup CapabilityGovernanceFields)}
      Qualify(c) == [c EXCEPT !.id = TargetId(base.target) \o <<@>>]
  IN {Qualify(c) : c \in Lifecycle("PROVIDER_CAPABILITY", Keys(base), Keys(candidate),
                                   Dependents)}
     \cup {Change("PROVIDER_CAPABILITY", "MODIFIED", TargetId(base.target) \o <<key>>,
                  ProviderCapabilityImpact(Both(key)[1], Both(key)[2]), Dependents(key)) :
           key \in changed}

ProviderChanges(base, candidate, policies) ==
  LET baseTargets == {rec.target : rec \in base}
      candidateTargets == {rec.target : rec \in candidate}
      Dependents(target) ==
        DependentPolicyRules(policies, target,
          UNION {Keys(rec) : rec \in {r \in base \cup candidate : r.target = target}})
      Qualify(c) == [c EXCEPT !.id = TargetId(@)]
  IN {Qualify(c) : c \in Lifecycle("PROVIDER_TARGET", baseTargets, candidateTargets,
                                   Dependents)}
     \cup UNION {OneProviderTargetChanges(Named(base, TargetOf, target),
                                          Named(candidate, TargetOf, target), policies) :
                 target \in baseTargets \cap candidateTargets}

(***************************************************************************)
(* The tool catalog                                                        *)
(***************************************************************************)
ToolChanges(base, candidate) ==
  LET baseNames == {t.name : t \in base.tools}
      candidateNames == {t.name : t \in candidate.tools}
      Qualify(c) == [c EXCEPT !.id = <<@>>]
  IN {Qualify(c) : c \in Lifecycle("TOOL_DEFINITION", baseNames, candidateNames,
                                   NoDependents)}
     \cup {Change("TOOL_DEFINITION", "MODIFIED", <<name>>, "DECISION", {}) :
           name \in {n \in baseNames \cap candidateNames :
                       Differs(Named(base.tools, ToolName, n),
                               Named(candidate.tools, ToolName, n),
                               {"description", "risk", "schema", "definition"})}}
     \cup (IF base.catalog = candidate.catalog THEN {}
           ELSE {Change("TOOL_CATALOG", "MODIFIED", <<"trusted-tool-catalog">>, "EVIDENCE", {})})

(***************************************************************************)
(* The report                                                              *)
(***************************************************************************)
DiffRejects(base, candidate) ==
  \/ base.id # candidate.id
  \/ \E pack \in {base, candidate} :
       \/ IdentifiersClash(pack.policies, PolicySetId)
       \/ \E s \in pack.policies : IdentifiersClash(s.rules, RuleId)
       \/ IdentifiersClash(pack.providers, TargetOf)
       \/ \E rec \in pack.providers : IdentifiersClash(rec.facts, FactKey)
       \/ IdentifiersClash(pack.tools, ToolName)

Diff(base, candidate) ==
  PolicyChanges(base.policies, candidate.policies)
  \cup ProviderChanges(base.providers, candidate.providers,
                       base.policies \cup candidate.policies)
  \cup ToolChanges(base, candidate)
==============================================================================
