--------------------------- MODULE ScenarioReplay ---------------------------
(***************************************************************************)
(* ReplayControlPackScenarios: one suite of scenarios evaluated against    *)
(* an approved base and a candidate, and what changed between the two.     *)
(*                                                                         *)
(* A scenario is a context that names a policy set by its logical id; the  *)
(* suite has one instant of evaluation for all of them.                    *)
(***************************************************************************)
EXTENDS ControlPackDiff

\* A release that cannot be composed into repositories is refused.
ReleaseInvalid(pack) ==
  \/ pack.policies = {} \/ IdentifiersClash(pack.policies, PolicySetId)
  \/ Cardinality({rec.registry : rec \in pack.providers}) # 1
  \/ IdentifiersClash(pack.providers, TargetOf)
  \/ (pack.catalog = {}) # (pack.tools = {})
  \/ \E t \in pack.tools : {t.catalog} # pack.catalog
  \/ IdentifiersClash(pack.tools, ToolName)

SetsNamed(pack, id) == {s \in pack.policies : s.id = id}

ReplayOutcome(pack, scenario, today) ==
  LET sets == SetsNamed(pack, scenario.set)
  IN IF sets = {} THEN FailedEvaluation("POLICY_SET_NOT_FOUND")
     ELSE IF Cardinality(sets) > 1 THEN FailedEvaluation("POLICY_SET_AMBIGUOUS")
     ELSE Evaluate(pack, CHOOSE s \in sets : TRUE, scenario, today)

\* Obligations count with their control objectives, as in the digest compared.
ReplayImpact(base, candidate) ==
  IF \/ base.status # candidate.status
     \/ base.status = "FAILED_CLOSED" /\ base.error # candidate.error
     \/ base.status = "EVALUATED" /\ (\/ base.decision # candidate.decision
                                      \/ base.obligations # candidate.obligations)
  THEN "DECISION"
  ELSE IF base # candidate THEN "EVIDENCE" ELSE None

ReplayRejects(base, candidate, suite) ==
  \/ base.id # candidate.id
  \/ suite.scenarios = {}
  \/ ReleaseInvalid(base) \/ ReleaseInvalid(candidate)
  \/ \E s \in suite.scenarios :
       ReplayOutcome(base, s, suite.today).status = "FAILED_CLOSED"

Replay(base, candidate, suite) ==
  {[scenario |-> s.id,
    impact |-> ReplayImpact(ReplayOutcome(base, s, suite.today),
                            ReplayOutcome(candidate, s, suite.today))] :
   s \in suite.scenarios}
==============================================================================
