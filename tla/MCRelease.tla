------------------------------ MODULE MCRelease ------------------------------
(***************************************************************************)
(* One base pack after the shipped demo policy, candidates built from it   *)
(* by independent edits of its policy set, its provider records and its    *)
(* catalog, and the files, keys and policies of its release.               *)
(***************************************************************************)
EXTENDS ReleaseProperties, TLC

(* Targets and tools *)
Target(p, s) == [provider |-> p, service |-> s, region |-> None]
Primary == Target("openai", "responses")
Backup  == Target("azure", "chat")

Tool(name, risk, version) ==
  [name |-> name, risk |-> risk, schema |-> "1", definition |-> "d", description |-> "t",
   catalog |-> version]

(* Rules *)
Anything == [scalars |-> <<>>, classes |-> {}, risks |-> {}]
NoRule ==
  [id |-> None, version |-> "1", match |-> Anything, decision |-> {}, obligations |-> {},
   capabilities |-> {}, controls |-> {"objective"}, support |-> {"law"}, reason |-> {}]
Treat(type, class) ==
  [type |-> type, target |-> None, class |-> class, reason |-> "MINIMIZE", parameters |-> {}]

Minimize ==
  [NoRule EXCEPT !.id = "minimize", !.decision = {"ALLOW_WITH_TRANSFORMATION"},
                 !.match.classes = {"BRAZIL_CPF", "PERSONAL_DIRECT_IDENTIFIER"},
                 !.obligations = {Treat("TOKENIZE", "PERSONAL_DIRECT_IDENTIFIER")}]
Secrets ==
  [NoRule EXCEPT !.id = "secret", !.decision = {"DENY"}, !.reason = {"SECRET"},
                 !.match.classes = {"AUTHENTICATION_SECRET"}]
HighImpact ==
  [NoRule EXCEPT !.id = "approval", !.decision = {"REQUIRE_APPROVAL"}, !.support = {},
                 !.match.risks = {"high_impact_state_change"},
                 !.obligations = {[Treat("REQUIRE_HUMAN_APPROVAL", None)
                                     EXCEPT !.target = "matched_tool"]}]
Retention ==
  [NoRule EXCEPT !.id = "retention", !.support = {},
                 !.match.scalars = "provider" :> "openai" @@ "assurance_level" :> "high",
                 !.capabilities = {[key |-> "zdr", accepted |-> {"conditional", "supported"},
                                    conditions |-> {"eligible"}, maxAge |-> {30}]}]
Mask ==
  [NoRule EXCEPT !.id = "mask", !.match.classes = {"BRAZIL_CPF"}, !.version = "2",
                 !.obligations = {Treat("MASK", "BRAZIL_CPF")}]

(* The parts of a pack and their edits *)
Fin(version, rules) ==
  [id |-> "fin", version |-> version, metadata |-> "demo", rules |-> rules]
BaseRules == {Minimize, Secrets, HighImpact, Retention}
PolicyEdits ==
  <<Fin("1", BaseRules),
    Fin("2", BaseRules \cup {Mask}),
    Fin("2", (BaseRules \ {HighImpact}) \cup
             {[HighImpact EXCEPT !.match.scalars = "sector" :> "banking", !.version = "2"]}),
    Fin("1", (BaseRules \ {Minimize}) \cup {[Minimize EXCEPT !.controls = {"other"}]}),
    Fin("1", (BaseRules \ {Retention}) \cup
             {[Retention EXCEPT !.capabilities = {[q EXCEPT !.maxAge = {}] : q \in @}]}),
    Fin("1", (BaseRules \ {Retention}) \cup
             {[Retention EXCEPT !.match.scalars = "provider" :> "openai"]})>>

Record(target, version, verified, state, notes) ==
  LET fact == [key |-> "zdr", state |-> state, conditions |-> {"eligible"}, notes |-> notes,
               target |-> target, record |-> version, registry |-> version,
               verified |-> verified, urls |-> {"https://a"}]
  IN [target |-> target, record |-> version, registry |-> version, verified |-> verified,
      urls |-> {"https://a"}, facts |-> {fact}]
ProviderEdits ==
  <<{Record(Primary, "1", 80, "conditional", {}), Record(Backup, "1", 80, "conditional", {})},
    {Record(Primary, "2", 99, "unsupported", {}), Record(Backup, "2", 99, "conditional", {})},
    {Record(Primary, "1", 80, "conditional", {}), Record(Backup, "1", 60, "conditional", {})},
    {Record(Primary, "1", 80, "conditional", {"note"})}>>

ToolEdits ==
  <<[catalog |-> {"1"}, tools |-> {Tool("transfer", "high_impact_state_change", "1"),
                                   Tool("lookup", "read_only", "1")}],
    [catalog |-> {"2"}, tools |-> {Tool("transfer", "high_impact_state_change", "2"),
                                   Tool("lookup", "high_impact_state_change", "2")}],
    [catalog |-> {"1"}, tools |-> {Tool("lookup", "read_only", "1")}]>>

\* The pack of one edit of each part; the digest names them.
Pack(i, j, k) ==
  [id |-> "pack", version |-> "1", key |-> "author", digest |-> <<i, j, k>>,
   policies |-> {PolicyEdits[i]}, providers |-> ProviderEdits[j],
   catalog |-> ToolEdits[k].catalog, tools |-> ToolEdits[k].tools]

BaseSet == PolicyEdits[1]
MCBase  == Pack(1, 1, 1)

\* Packs with edits in at most two parts.
MCCandidates ==
  {Pack(e[1], e[2], e[3]) :
     e \in {f \in (1..6) \X (1..4) \X (1..3) :
              Cardinality({n \in 1..3 : f[n] # 1}) \in 1..2}}
\* Two revisions of one policy set, which keeps the subject of the review.
MCRevisions == {Pack(2, 1, 1), Pack(3, 1, 1)}

(* Scenarios, evaluated on day 100 *)
Scenario(id, assurance, items, tools, provider, fallbacks) ==
  [id |-> id, set |-> "fin", items |-> items, tools |-> tools, provider |-> provider,
   fallbacks |-> fallbacks, assertions |-> {"eligible"},
   scalars |-> [dim \in MatchDimensions \ TargetDimensions |->
                  IF dim = "assurance_level" THEN assurance ELSE "other"]]
Item(field, labels) == [field |-> field, labels |-> labels]
Customer == Item("customer", {"BRAZIL_CPF", "PERSONAL_DIRECT_IDENTIFIER"})
Ask(name, claimed) == [name |-> name, claimed |-> claimed]

MCSuite ==
  [today |-> 100,
   scenarios |->
     {Scenario("plain", "baseline", {Item("text", {"PUBLIC"})}, {}, Primary, {}),
      Scenario("minimized", "baseline", {Customer, Item("text", {"PUBLIC"})},
               {Ask("lookup", None)}, Backup, {}),
      Scenario("retained", "high", {Customer}, {}, Primary, {Backup}),
      Scenario("transfer", "high", {Item("text", {"PUBLIC"})},
               {Ask("transfer", "high_impact_state_change")}, Primary, {})}]

(* Reviews of what the revisions change, and of a catalog and a record *)
RuleItem(pack, change, conclusion) ==
  LET rule == ReviewedRule(BaseSet, Named(pack.policies, LogicalId, "fin"), change)
  IN [rule |-> change.id, type |-> change.type, controls |-> rule.controls,
      support |-> rule.support,
      conclusion |-> IF conclusion = "APPROVED" /\ rule.support = {} THEN "NOT_APPLICABLE"
                     ELSE conclusion]
PolicyReview(pack, conclusion) ==
  LET set == Named(pack.policies, LogicalId, "fin")
  IN [kind |-> "POLICY_SET", subject |-> <<"fin">>, base |-> MCBase.digest, content |-> set,
      role |-> "counsel", fields |-> ChangedPolicySetFields(BaseSet, set),
      conclusion |-> "APPROVED", review |-> conclusion,
      rules |-> {RuleItem(pack, c, conclusion) : c \in RuleChanges(BaseSet, set)}]
ToolReview(pack) ==
  [kind |-> "TOOL_CATALOG", subject |-> TheCatalog, base |-> MCBase.digest,
   content |-> Catalog(pack), role |-> "counsel", review |-> "t",
   tools |-> {[tool |-> c.id, type |-> c.type, conclusion |-> "APPROVED"] :
                c \in CatalogChanges(MCBase, pack)}]
ProviderReview(pack, target, conclusion) ==
  LET rec == Named(pack.providers, TargetOf, target)
  IN [kind |-> "PROVIDER_TARGET", subject |-> TargetId(target), base |-> MCBase.digest,
      content |-> rec, role |-> "counsel", review |-> "p", at |-> 99,
      sources |-> {[url |-> "https://a", keys |-> {"zdr"}, conclusion |-> conclusion]}]

MCReviewFiles ==
  UNION {{PolicyReview(p, v) : p \in MCRevisions, v \in {"APPROVED", "REJECTED"}},
         {ToolReview(Pack(1, 1, k)) : k \in 2..3},
         {ProviderReview(Pack(1, 2, 1), Primary, v) : v \in {"CORROBORATED", "CONTRADICTED"}},
         {ProviderReview(Pack(1, 2, 1), Backup, "CORROBORATED")}}

(* Keys and policies *)
MCPackKeys == "author" :> [status |-> "ACTIVE", from |-> 0, until |-> {}]
MCReviewKeys ==
  "counsel" :> [status |-> "ACTIVE", from |-> 0, until |-> {1}, roles |-> {"counsel"},
                kinds |-> {"POLICY_SET", "PROVIDER_TARGET"},
                types |-> {"ADDED", "MODIFIED"}]
MCPromotionKeys ==
  "owner" :> [status |-> "ACTIVE", from |-> 0, until |-> {}, roles |-> {"owner", "risk"}] @@
  "risk"  :> [status |-> "ACTIVE", from |-> 0, until |-> {}, roles |-> {"risk"}]
MCPolicies == {[roles |-> {"owner", "risk"}, minimum |-> 2]}

\* What is explored: the whole workflow for a revision, new provider records
\* and a catalog nobody may attest, restaging to another revision or the
\* withdrawal of keys on the way to one, and the analysis alone for the other
\* packs; once promoters have signed, what bears on a complete bundle.  An
\* authorization is final for the properties.
Explored ==
  /\ staged.pack \notin MCRevisions \cup {Pack(1, 2, 1), Pack(1, 1, 2)}
       => reviews \cup attestations \cup promotions = {} /\ edits = 0
  /\ withdrawn = {} \/ (edits = 0 /\ staged.pack = Pack(2, 1, 1))
  /\ authorized = {}
  /\ promotions # {} =>
       /\ \A b \in bundle : Complete(b)
       /\ \A a \in attestations : a.approves
       /\ \A r \in reviews : DetailedReviewFindings(Base, r) = {}
       /\ withdrawn \subseteq DOMAIN PromotionKeys
==============================================================================
