---------------------------- MODULE ControlPacks ----------------------------
(***************************************************************************)
(* What a control pack is once its files have been parsed: the shapes the  *)
(* YAML boundary admits for policy sets, provider capability records, the  *)
(* tool catalog and scenarios, and the composition a signed manifest must  *)
(* have.  Lengths, character sets and the syntax of YAML are left out.     *)
(***************************************************************************)
EXTENDS OperationEvaluation

Named(items, Id(_), id) == CHOOSE item \in items : Id(item) = id
IdentifiersClash(items, Id(_)) == \E i, j \in items : i # j /\ Id(i) = Id(j)
AtMostOne(S) == Cardinality(S) <= 1

LogicalId(item) == item.id
FactKey(f)      == f.key
TargetOf(rec)   == rec.target
ToolName(t)     == t.name

\* The dimensions of a provider target; a target without a region has None.
TargetDimensions == {"provider", "service", "region"}
MatchDimensions  ==
  TargetDimensions \cup
  {"jurisdiction", "sector", "purpose", "operation_kind", "assurance_level"}

WellFormedMatch(m) ==
  /\ DOMAIN m.scalars \subseteq MatchDimensions
  /\ m.classes \subseteq DataClassification
  /\ m.risks \subseteq RiskClass

\* A template names its target or selects fields by class, never both.
WellFormedTemplate(t) ==
  /\ t.type \in ObligationType
  /\ t.class \in DataClassification \cup {None}
  /\ None \in {t.target, t.class}

WellFormedRequirement(r) ==
  /\ r.accepted # {} /\ r.accepted \subseteq CapabilityState
  /\ r.maxAge \subseteq Nat /\ AtMostOne(r.maxAge)

\* Every rule contributes a decision, an obligation or a requirement.
WellFormedRule(r) ==
  /\ WellFormedMatch(r.match)
  /\ \A o \in r.obligations : WellFormedTemplate(o)
  /\ \A q \in r.capabilities : WellFormedRequirement(q)
  /\ r.decision \subseteq {DecisionOutcome[n] : n \in DOMAIN DecisionOutcome}
  /\ AtMostOne(r.decision) /\ AtMostOne(r.reason)
  /\ r.decision # {} \/ r.obligations # {} \/ r.capabilities # {}

WellFormedPolicySet(s) ==
  /\ s.rules # {}
  /\ ~ IdentifiersClash(s.rules, RuleId)
  /\ \A r \in s.rules : WellFormedRule(r)

\* The facts of a record repeat its provenance, which evaluation relies on.
WellFormedRecord(rec) ==
  /\ rec.urls # {} /\ rec.facts # {}
  /\ rec.target = [dim \in TargetDimensions |-> rec.target[dim]] /\ rec.verified \in Int
  /\ ~ IdentifiersClash(rec.facts, FactKey)
  /\ \A f \in rec.facts :
       /\ f.state \in CapabilityState
       /\ \A field \in {"target", "record", "registry", "verified", "urls"} :
            f[field] = rec[field]

\* The tools of a catalog carry its version; their names are its keys.
WellFormedCatalog(catalog, tools) ==
  /\ AtMostOne(catalog) /\ catalog # {} /\ tools # {}
  /\ ~ IdentifiersClash(tools, ToolName)
  /\ \A t \in tools : {t.catalog} = catalog /\ t.risk \in RiskClass
  /\ \A t \in tools : DOMAIN t = {"name", "description", "risk", "schema", "definition",
                                 "catalog"} /\ t = [field \in DOMAIN t |-> t[field]]

(***************************************************************************)
(* A signed pack holds policy sets, provider records and exactly one       *)
(* catalog; the repositories built over it want unambiguous identifiers    *)
(* and one version of the registry.                                        *)
(***************************************************************************)
WellFormedPack(pack) ==
  /\ pack.policies # {} /\ IsFiniteSet(pack.policies)
  /\ pack.providers # {} /\ IsFiniteSet(pack.providers)
  /\ \A s \in pack.policies : WellFormedPolicySet(s)
  /\ \A rec \in pack.providers : WellFormedRecord(rec)
  /\ WellFormedCatalog(pack.catalog, pack.tools)
  /\ ~ IdentifiersClash(pack.policies, PolicySetId)
  /\ ~ IdentifiersClash(pack.providers, TargetOf)
  /\ Cardinality({rec.registry : rec \in pack.providers}) = 1

ItemField(i) == i.field

\* A scenario names fields with labels and no values.
WellFormedScenario(s) ==
  /\ s = [id |-> s.id, set |-> s.set, items |-> s.items, tools |-> s.tools,
          provider |-> s.provider, fallbacks |-> s.fallbacks, assertions |-> s.assertions,
          scalars |-> s.scalars]
  /\ ~ IdentifiersClash(s.items, ItemField)
  /\ \A i \in s.items : i.labels # {} /\ i.labels \subseteq DataClassification
  /\ ~ IdentifiersClash(s.tools, ToolName)
  /\ MatchDimensions \subseteq DOMAIN s.scalars \cup DOMAIN s.provider

WellFormedSuite(suite) ==
  /\ suite.scenarios # {} /\ suite.today \in Int
  /\ ~ IdentifiersClash(suite.scenarios, LogicalId)
  /\ \A s \in suite.scenarios : WellFormedScenario(s)
==============================================================================
