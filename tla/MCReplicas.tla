------------------------------ MODULE MCReplicas ------------------------------
(***************************************************************************)
(* Two replicas; two rules that require one capability of the provider for *)
(* control objectives of their own.                                        *)
(***************************************************************************)
EXTENDS EvaluationReplicas

MCReplicas == {"p1", "p2"}

Provider == [provider |-> "acme", service |-> "chat", region |-> "br"]
Fact     == [key |-> "no_training", state |-> "supported", verified |-> 0,
             conditions |-> {}]
MCPack == [tools |-> {}, catalog |-> "1",
           providers |-> {[target |-> Provider, registry |-> "1", facts |-> {Fact}]}]

Requirement(controls) ==
  [id |-> controls, version |-> "1", controls |-> {controls}, decision |-> {"ALLOW"},
   reason |-> {controls}, obligations |-> {},
   match |-> [scalars |-> <<>>, classes |-> {}, risks |-> {}],
   capabilities |-> {[key |-> "no_training", accepted |-> {"supported"}, maxAge |-> {},
                      conditions |-> {}]}]
MCPolicies == [id |-> "base", version |-> "1",
               rules |-> {Requirement("lgpd"), Requirement("bacen")}]

MCContexts == {[scalars |-> [assurance_level |-> level], items |-> {}, tools |-> {},
                provider |-> Provider, fallbacks |-> {}, assertions |-> {}] :
                 level \in {"standard", "high"}}

Obligations == UNION {Evaluate(MCPack, MCPolicies, c, 0).obligations : c \in MCContexts}
MCSeeds == {s \in [Obligations -> 1..Cardinality(Obligations)] :
              \A o, q \in Obligations : s[o] = s[q] => o = q}
===============================================================================
