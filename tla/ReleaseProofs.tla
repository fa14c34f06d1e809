----------------------------- MODULE ReleaseProofs -----------------------------
(***************************************************************************)
(* The inductive invariant of ReleasePromotion holds, and with it what     *)
(* ReleaseProperties states of an authorized promotion and of evaluation   *)
(* under a staged pack, for every set of packs, reviews, keys and          *)
(* policies, and every suite of scenarios.                                 *)
(***************************************************************************)
EXTENDS ReleaseInvariant, EvaluationProofs, SequenceTheorems

(***************************************************************************)
(* Keys are only ever withdrawn: what verifies now verifies against the    *)
(* trust store as it was given.                                            *)
(***************************************************************************)
LEMMA ReviewKeysOnlyRetire ==
  ASSUME NEW a, AttestationVerifies(a, AsOfNow(ReviewKeys))
  PROVE  AttestationVerifies(a, ReviewKeys)
<1> DEFINE key == ReviewKeys[a.key]
           read == AsOfNow(ReviewKeys)[a.key]
<1>1. a.key \in DOMAIN ReviewKeys
  BY DEF AttestationVerifies, AsOfNow
<1>2. key \in [status : KeyStatus, from : Int, until : SUBSET Int,
               roles : SUBSET STRING, kinds : SUBSET ArtifactKind,
               types : SUBSET {"ADDED", "REMOVED", "MODIFIED"}]
  BY <1>1, KeyAssumption
<1>3. read = IF a.key \in withdrawn THEN [key EXCEPT !.status = "RETIRED"] ELSE key
  BY <1>1 DEF AsOfNow
<1>4. ActiveAt(read, a.at) /\ a.role \in read.roles /\ a.kind \in read.kinds
        /\ a.type \in read.types
  BY DEF AttestationVerifies
<1>5. a.key \notin withdrawn
  <2> SUFFICES ASSUME a.key \in withdrawn PROVE FALSE
    OBVIOUS
  <2>1. read.status = "RETIRED"
    BY <1>2, <1>3
  <2> QED BY <1>4, <2>1 DEF ActiveAt
<1>6. read = key
  BY <1>3, <1>5
<1> HIDE DEF read
<1> QED BY <1>1, <1>4, <1>6 DEF AttestationVerifies

LEMMA PromotionKeysOnlyRetire ==
  ASSUME NEW a, PromotionVerifies(a, AsOfNow(PromotionKeys))
  PROVE  PromotionVerifies(a, PromotionKeys)
<1> DEFINE key == PromotionKeys[a.key]
           read == AsOfNow(PromotionKeys)[a.key]
<1>1. a.key \in DOMAIN PromotionKeys
  BY DEF PromotionVerifies, AsOfNow
<1>2. key \in [status : KeyStatus, from : Int, until : SUBSET Int, roles : SUBSET STRING]
  BY <1>1, KeyAssumption
<1>3. read = IF a.key \in withdrawn THEN [key EXCEPT !.status = "RETIRED"] ELSE key
  BY <1>1 DEF AsOfNow
<1>4. ActiveAt(read, a.issued) /\ a.role \in read.roles
  BY DEF PromotionVerifies
<1>5. a.key \notin withdrawn
  <2> SUFFICES ASSUME a.key \in withdrawn PROVE FALSE
    OBVIOUS
  <2>1. read.status = "RETIRED"
    BY <1>2, <1>3
  <2> QED BY <1>4, <2>1 DEF ActiveAt
<1>6. read = key
  BY <1>3, <1>5
<1> HIDE DEF read
<1> QED BY <1>1, <1>4, <1>6 DEF PromotionVerifies

(***************************************************************************)
(* The inductive invariant                                                 *)
(***************************************************************************)
LEMMA InitIsInvariant == Init => IInv
<1> SUFFICES ASSUME Init PROVE IInv
  OBVIOUS
<1>1. FilesAreWellFormed
  BY FS_EmptySet DEF Init, FilesAreWellFormed
<1> QED BY <1>1 DEF Init, IInv, BundlesAreEvidenced, AuthorizationsWereDue

\* The evidence is assembled for what is staged, over the files at hand.
LEMMA AssembleStep ==
  ASSUME IInv, Assemble
  PROVE  IInv'
<1> DEFINE p == staged.pack
<1>1. PICK r \in CandidateReports :
        r.candidate = p.digest /\ bundle' = {Bundle(Base, p, r.report, attestations)}
  BY DEF Assemble
<1>2. /\ ~EvidenceRejected(Base, p, reviews, attestations, AsOfNow(ReviewKeys))
      /\ UNCHANGED <<staged, reviews, attestations, promotions, authorized, withdrawn, edits,
                     now>>
  BY DEF Assemble
<1>3. p \in Candidates /\ reviews \subseteq ReviewFiles
  BY DEF IInv, FilesAreWellFormed
<1>4. r.report \in Reports(Base, p, Suite)
  <2>1. PICK q \in Candidates : r.candidate = q.digest /\ r.report \in Reports(Base, q, Suite)
    BY DEF CandidateReports
  <2>2. q = p
    BY <1>1, <1>3, <2>1, PackAssumption
  <2> QED BY <2>1, <2>2
<1>5. ~EvidenceRejected(Base, p, reviews, attestations, ReviewKeys)
  BY <1>2, ReviewKeysOnlyRetire DEF EvidenceRejected
<1> DEFINE b == Bundle(Base, p, r.report, attestations)
<1>6. b.candidate = p.digest /\ b.evidence = attestations
  BY DEF Bundle
<1>7. b = Bundle(Base, p, r.report, b.evidence)
  BY <1>6
<1> HIDE DEF b, p
<1>8. BundleIsEvidenced(b)
  BY <1>3, <1>4, <1>5, <1>6, <1>7 DEF BundleIsEvidenced
<1>9. \A c \in bundle' : BundleIsEvidenced(c)
  BY <1>1, <1>8 DEF b
<1>10. BundlesAreEvidenced'
  BY <1>9 DEF BundlesAreEvidenced, BundleIsEvidenced
<1>11. FilesAreWellFormed' /\ AuthorizationsWereDue'
  BY <1>2 DEF IInv, FilesAreWellFormed, AuthorizationsWereDue, WasDue, BundleIsEvidenced
<1> QED BY <1>10, <1>11 DEF IInv

\* A promotion is authorized on statements that were supplied from those on file.
LEMMA AuthorizeStep ==
  ASSUME IInv, NEW policy \in Policies, NEW supplied \in SUBSET promotions, NEW at \in Time,
         Authorize(policy, supplied, at)
  PROVE  IInv'
<1>1. PICK b \in bundle :
        /\ ~PromotionRejected(b, policy, supplied)
        /\ PromotionFindings(policy, supplied, at) = {}
        /\ authorized' = {[bundle |-> b, policy |-> policy, attestations |-> supplied,
                           at |-> at]}
  BY DEF Authorize
<1>2. UNCHANGED <<staged, reviews, attestations, bundle, promotions, withdrawn, edits, now>>
  BY DEF Authorize
<1> DEFINE auth == [bundle |-> b, policy |-> policy, attestations |-> supplied, at |-> at]
<1>3. /\ auth.bundle = b /\ auth.policy = policy
      /\ auth.attestations = supplied /\ auth.at = at
  OBVIOUS
<1> HIDE DEF auth
<1>4. BundleIsEvidenced(b) /\ Complete(b)
  BY <1>1 DEF IInv, BundlesAreEvidenced, PromotionRejected
<1>5. IsFiniteSet(supplied)
  BY FS_Subset DEF IInv, FilesAreWellFormed
<1>6. \A a \in supplied : PromotionVerifies(a, PromotionKeys) /\ Binds(a, b, policy)
  BY <1>1, PromotionKeysOnlyRetire DEF PromotionRejected
<1>7. \A a, c \in supplied : a.key = c.key => a = c
  BY <1>1 DEF PromotionRejected
<1>8. WasDue(auth)
  BY <1>1, <1>3, <1>4, <1>5, <1>6, <1>7 DEF WasDue
<1>9. \A other \in authorized' : WasDue(other)
  BY <1>1, <1>8 DEF auth
<1>10. FilesAreWellFormed' /\ BundlesAreEvidenced'
  BY <1>2 DEF IInv, FilesAreWellFormed, BundlesAreEvidenced, BundleIsEvidenced
<1>11. AuthorizationsWereDue'
  BY <1>9 DEF AuthorizationsWereDue, WasDue, BundleIsEvidenced
<1> QED BY <1>10, <1>11 DEF IInv

\* What only edits files leaves bundles and authorizations as they are.
LEMMA FilesStep ==
  ASSUME IInv, FilesAreWellFormed', UNCHANGED <<bundle, authorized>>
  PROVE  IInv'
BY DEF IInv, BundlesAreEvidenced, AuthorizationsWereDue, WasDue, BundleIsEvidenced

LEMMA NextKeepsInvariant == IInv /\ [Next]_vars => IInv'
<1> SUFFICES ASSUME IInv, [Next]_vars PROVE IInv'
  OBVIOUS
<1> USE DEF FilesAreWellFormed
<1>1. ASSUME NEW pack \in Revisions, Stage(pack) PROVE IInv'
  <2>1. FilesAreWellFormed'
    BY <1>1, PackAssumption DEF Stage, IInv
  <2> QED BY <1>1, <2>1, FilesStep DEF Stage
<1>2. CASE SignPack
  <2>1. FilesAreWellFormed'
    <3>1. staged'.pack = staged.pack
      <4>1. staged' = [staged EXCEPT !.signed = TRUE]
        BY <1>2 DEF SignPack
      <4> QED BY <4>1
    <3> QED BY <1>2, <3>1 DEF SignPack, IInv
  <2> QED BY <1>2, <2>1, FilesStep DEF SignPack
<1>3. ASSUME NEW key \in Keyring, Withdraw(key) PROVE IInv'
  BY <1>3, FilesStep DEF Withdraw, IInv
<1>4. ASSUME NEW review \in ReviewFiles, WriteReview(review) PROVE IInv'
  BY <1>4, FilesStep DEF WriteReview, IInv
<1>5. ASSUME NEW change, NEW key, NEW role, NEW approves, AttestReview(change, key, role, approves)
      PROVE  IInv'
  BY <1>5, FilesStep DEF AttestReview, IInv
<1>6. CASE Assemble
  BY <1>6, AssembleStep
<1>7. ASSUME NEW key, NEW role, NEW approves, NEW policy,
             AttestPromotion(key, role, approves, policy)
      PROVE  IInv'
  <2>1. PICK a : promotions' = promotions \cup {a}
    BY <1>7 DEF AttestPromotion
  <2>2. IsFiniteSet(promotions')
    BY <2>1, FS_AddElement DEF IInv
  <2> QED BY <1>7, <2>2, FilesStep DEF AttestPromotion, IInv
<1>8. ASSUME NEW policy \in Policies, NEW supplied \in SUBSET promotions, NEW at \in Time,
             Authorize(policy, supplied, at)
      PROVE  IInv'
  BY <1>8, AuthorizeStep
<1>9. CASE Tick
  BY <1>9, FilesStep DEF Tick, IInv
<1>10. CASE UNCHANGED vars
  BY <1>10, FilesStep DEF vars, IInv
<1> QED BY <1>1, <1>2, <1>3, <1>4, <1>5, <1>6, <1>7, <1>8, <1>9, <1>10 DEF Next

\* The inductive invariant holds of every behaviour.
THEOREM ReleaseInvariantHolds == Spec => []IInv
BY InitIsInvariant, NextKeepsInvariant, PTL DEF Spec

(***************************************************************************)
(* Promotion                                                               *)
(***************************************************************************)
LEMMA AsManyKeysAsStatements ==
  ASSUME NEW supplied, IsFiniteSet(supplied), \A a, c \in supplied : a.key = c.key => a = c
  PROVE  /\ IsFiniteSet({a.key : a \in supplied})
         /\ Cardinality({a.key : a \in supplied}) = Cardinality(supplied)
<1> DEFINE keys == {a.key : a \in supplied}
           KeyOf == [a \in supplied |-> a.key]
<1>1. KeyOf \in Bijection(supplied, keys)
  BY DEF Bijection, Injection, Surjection, IsInjective
<1>2. ExistsBijection(supplied, keys)
  BY <1>1 DEF ExistsBijection
<1> QED BY <1>2, FS_Bijection

\* A promotion is authorized only with the approval of every required role and of as many
\* different promoters as the quorum asks for, all valid, and over nobody's rejection.
THEOREM PromotionsHaveQuorum == Spec => []PromotedByQuorum
<1>1. IInv => PromotedByQuorum
  <2> SUFFICES ASSUME IInv, NEW auth \in authorized
               PROVE  LET Valid(a) ==
                            /\ a.bundle = auth.bundle /\ a.policy = auth.policy /\ a.approves
                            /\ a.issued <= auth.at /\ auth.at < a.expires
                            /\ a.role \in PromotionKeys[a.key].roles
                            /\ ActiveAt(PromotionKeys[a.key], a.issued)
                          valid == {a \in auth.attestations : Valid(a)}
                      IN /\ auth.policy.roles \subseteq {a.role : a \in valid}
                         /\ Cardinality({a.key : a \in valid}) >= auth.policy.minimum
                         /\ \A a \in auth.attestations : a.approves
    BY DEF PromotedByQuorum
  <2> DEFINE supplied == auth.attestations
             Valid(a) == /\ a.bundle = auth.bundle /\ a.policy = auth.policy /\ a.approves
                         /\ a.issued <= auth.at /\ auth.at < a.expires
                         /\ a.role \in PromotionKeys[a.key].roles
                         /\ ActiveAt(PromotionKeys[a.key], a.issued)
             valid == {a \in supplied : Valid(a)}
             approving == Approving(supplied, auth.at)
  <2>1. WasDue(auth)
    BY DEF IInv, AuthorizationsWereDue
  <2>2. /\ supplied \ Standing(supplied, auth.at) = {}
        /\ Standing(supplied, auth.at) \ approving = {}
        /\ auth.policy.roles \ {a.role : a \in approving} = {}
        /\ ~(Cardinality(approving) < auth.policy.minimum)
    <3>1. PromotionFindings(auth.policy, supplied, auth.at) = {}
      BY <2>1 DEF WasDue
    <3> HIDE DEF approving, supplied
    <3> QED BY <3>1 DEF PromotionFindings, approving
  <2>3. approving = supplied
    BY <2>2 DEF Approving, Standing
  <2>4. ASSUME NEW a \in supplied PROVE Valid(a)
    <3>1. a.approves /\ a.issued <= auth.at /\ auth.at < a.expires
      BY <2>3 DEF Approving, Standing
    <3>2. PromotionVerifies(a, PromotionKeys) /\ Binds(a, auth.bundle, auth.policy)
      BY <2>1 DEF WasDue
    <3> QED BY <3>1, <3>2 DEF PromotionVerifies, Binds
  <2>5. valid = supplied
    BY <2>4
  <2>6. Cardinality({a.key : a \in supplied}) >= auth.policy.minimum
    <3>1. Cardinality({a.key : a \in supplied}) = Cardinality(supplied)
      BY <2>1, AsManyKeysAsStatements DEF WasDue
    <3>2. Cardinality(supplied) \in Nat
      BY <2>1, FS_CardinalityType DEF WasDue
    <3>3. auth.policy.minimum \in Nat
      BY <2>1, PolicyAssumption DEF WasDue
    <3>4. ~(Cardinality(supplied) < auth.policy.minimum)
      BY <2>2, <2>3
    <3> HIDE DEF supplied
    <3> QED BY <3>1, <3>2, <3>3, <3>4
  <2>7. auth.policy.roles \subseteq {a.role : a \in supplied}
    BY <2>2, <2>3
  <2>8. \A a \in supplied : a.approves
    BY <2>4
  <2> QED BY <2>5, <2>6, <2>7, <2>8
<1> QED BY <1>1, ReleaseInvariantHolds, PTL

(***************************************************************************)
(* Evaluation under a staged pack                                          *)
(***************************************************************************)
LEMMA StagedIsWellFormed ==
  ASSUME IInv
  PROVE  staged.pack \in Candidates /\ WellFormedPack(staged.pack)
BY PackAssumption DEF IInv, FilesAreWellFormed

\* An operation with another fallback, an assertion less, an item or a tool more.
LEMMA MoreCautiousIsAtLeastAsCautious ==
  ASSUME NEW pack, NEW s, WellFormedScenario(s), NEW c \in {s} \cup MoreCautious(pack, s)
  PROVE  c.set = s.set /\ AtLeastAsCautious(s, c)
<1>1. CASE c = s
  BY <1>1 DEF AtLeastAsCautious
<1>2. CASE \E rec \in pack.providers : c = [s EXCEPT !.fallbacks = @ \cup {rec.target}]
  BY <1>2 DEF AtLeastAsCautious, WellFormedScenario, Labels
<1>3. CASE \E x \in s.assertions : c = [s EXCEPT !.assertions = @ \ {x}]
  BY <1>3 DEF AtLeastAsCautious, WellFormedScenario, Labels
<1>4. CASE \E i : c = [s EXCEPT !.items = @ \cup {i}]
  BY <1>4 DEF AtLeastAsCautious, WellFormedScenario, Labels
<1>5. CASE \E x : c = [s EXCEPT !.tools = @ \cup {x}]
  BY <1>5 DEF AtLeastAsCautious, WellFormedScenario, Labels
<1> QED BY <1>1, <1>2, <1>3, <1>4, <1>5 DEF MoreCautious

\* What a pack decides, with a refusal for an evaluation that fails.
LEMMA DecidedMonotonically ==
  ASSUME NEW pack, WellFormedPack(pack), NEW c, NEW d, d.set = c.set, AtLeastAsCautious(c, d),
         NEW today \in Int, NEW later \in Int, today <= later
  PROVE  Decided(pack, d, later) >= Decided(pack, c, today)
<1> DEFINE before == ReplayOutcome(pack, c, today)
           after == ReplayOutcome(pack, d, later)
<1>1. CASE after.status = "EVALUATED"
  <2>1. PICK set \in pack.policies : /\ SetsNamed(pack, d.set) = {set}
                                     /\ after = Evaluate(pack, set, d, later)
    BY <1>1, OneSetIsEvaluated
  <2>2. before = Evaluate(pack, set, c, today)
    BY <2>1, OneSetDecides
  <2>3. before.status = "EVALUATED" /\ Strength(before.decision) <= Strength(after.decision)
    BY <1>1, <2>1, <2>2, EvaluationIsMonotone
  <2>4. Strength(after.decision) \in Int /\ Strength(before.decision) \in Int
    BY <1>1, <2>1, <2>2, <2>3, StrengthsAreNumbers
  <2> HIDE DEF before, after
  <2> QED BY <1>1, <2>3, <2>4 DEF Decided, before, after
<1>2. CASE after.status # "EVALUATED" /\ before.status = "EVALUATED"
  <2>1. PICK set \in pack.policies : before = Evaluate(pack, set, c, today)
    BY <1>2, OneSetIsEvaluated
  <2>2. Strength(before.decision) <= Strength("DENY") /\ Strength(before.decision) \in Int
    BY <1>2, <2>1, EvaluatedAtMostDenies, StrengthsAreNumbers
  <2> HIDE DEF before, after
  <2> QED BY <1>2, <2>2, StrengthOfDecisions DEF Decided, before, after
<1>3. CASE after.status # "EVALUATED" /\ before.status # "EVALUATED"
  BY <1>3, StrengthOfDecisions DEF Decided
<1> QED BY <1>1, <1>2, <1>3

\* What an obligation of a rule selects is what it is directed at.
LEMMA SelectionIsDirection ==
  ASSUME NEW pack, NEW s, NEW r, NEW o, NEW field
  PROVE  field \in ObligationTargets(o, r.match, s, AuthorizedTools(pack, s))
           <=> DirectedAt(pack, s, r, o, field)
<1>1. CASE o.class # None
  BY <1>1 DEF ObligationTargets, DirectedAt
<1>2. CASE o.class = None /\ o.target = "matched_tool"
  BY <1>2 DEF ObligationTargets, DirectedAt
<1>3. CASE o.class = None /\ o.target # "matched_tool"
  BY <1>3 DEF ObligationTargets, DirectedAt
<1> QED BY <1>1, <1>2, <1>3

LEMMA AskedInEitherWay ==
  ASSUME NEW pack, NEW s, NEW set, SetsNamed(pack, s.set) = {set}, NEW field
  PROVE  AskedOf(pack, set, s, field) = Asked(pack, s, field)
<1> DEFINE rules == MatchedRules(set, s, AuthorizedTools(pack, s))
<1>1. Applicable(pack, s) = rules
  BY DEF Applicable
<1>2. ASSUME NEW type
      PROVE  type \in AskedOf(pack, set, s, field) <=> type \in Asked(pack, s, field)
  <2> HIDE DEF rules
  <2>1. type \in Asked(pack, s, field)
          <=> /\ type \in TransformationType
              /\ \E r \in rules : \E o \in r.obligations :
                   o.type = type /\ DirectedAt(pack, s, r, o, field)
    BY <1>1 DEF Asked
  <2>2. type \in AskedOf(pack, set, s, field)
          <=> \E r \in rules : \E o \in r.obligations :
                /\ o.type = type /\ o.type \in TransformationType
                /\ field \in ObligationTargets(o, r.match, s, AuthorizedTools(pack, s))
    BY DEF AskedOf, rules
  <2> QED BY <2>1, <2>2, SelectionIsDirection
<1> QED BY <1>2

\* Under whatever pack is staged, transformations that go through are, field by field,
\* exactly those the rules that apply ask for.
THEOREM TransformationsAreAsAsked == Spec => []TransformationsAreExact
<1>1. IInv => TransformationsAreExact
  <2> SUFFICES ASSUME IInv PROVE ExactUnder(staged.pack)
    BY StagedIsWellFormed DEF TransformationsAreExact, ExactPacks
  <2> DEFINE pack == staged.pack
  <2> SUFFICES ASSUME NEW s \in Suite.scenarios,
                      ReplayOutcome(pack, s, Suite.today).status = "EVALUATED",
                      ~TransformationFails(ReplayOutcome(pack, s, Suite.today), s),
                      NEW i \in s.items
               PROVE  LET e == ReplayOutcome(pack, s, Suite.today)
                      IN /\ Treatment(e, i.field) = Asked(pack, s, i.field)
                         /\ Cardinality(Treatment(e, i.field)) <= 1
    BY DEF ExactUnder
  <2>1. PICK set \in pack.policies :
          /\ SetsNamed(pack, s.set) = {set}
          /\ ReplayOutcome(pack, s, Suite.today) = Evaluate(pack, set, s, Suite.today)
    BY StagedIsWellFormed, OneSetIsEvaluated
  <2>2. AskedOf(pack, set, s, i.field) = Asked(pack, s, i.field)
    <3> HIDE DEF pack
    <3> QED BY <2>1, AskedInEitherWay
  <2> HIDE DEF pack
  <2> QED BY <2>1, <2>2, TreatmentIsAsked
<1> QED BY <1>1, ReleaseInvariantHolds, PTL

(***************************************************************************)
(* Reviews: artifacts and their changes                                    *)
(***************************************************************************)
\* A subject of either pack whose content is not the same in both has changed.
LEMMA SubjectChanges ==
  ASSUME NEW base, NEW candidate, NEW kind \in ArtifactKind,
         NEW id \in SubjectIds(base, kind) \cup SubjectIds(candidate, kind),
         id \in SubjectIds(base, kind) \cap SubjectIds(candidate, kind)
           => Content(base, kind, id) # Content(candidate, kind, id)
  PROVE  \E change \in ArtifactChanges(base, candidate) : change.kind = kind /\ change.id = id
<1> DEFINE old == SubjectIds(base, kind)
           new == SubjectIds(candidate, kind)
           Changed(type, ids) == {[kind |-> kind, id |-> i, type |-> type] : i \in ids}
           of == Changed("REMOVED", old \ new) \cup Changed("ADDED", new \ old)
                 \cup Changed("MODIFIED", {i \in old \cap new :
                                Content(base, kind, i) # Content(candidate, kind, i)})
<1>1. of \subseteq ArtifactChanges(base, candidate)
  BY DEF ArtifactChanges
<1> DEFINE Of(type) == [kind |-> kind, id |-> id, type |-> type]
<1>2. \A type : Of(type).kind = kind /\ Of(type).id = id
  OBVIOUS
<1>3. CASE id \in old \ new
  <2>1. Of("REMOVED") \in of
    BY <1>3
  <2> HIDE DEF Of, of
  <2> QED BY <1>1, <1>2, <2>1
<1>4. CASE id \in new \ old
  <2>1. Of("ADDED") \in of
    BY <1>4
  <2> HIDE DEF Of, of
  <2> QED BY <1>1, <1>2, <2>1
<1>5. CASE id \in old \cap new
  <2>1. Of("MODIFIED") \in of
    BY <1>5
  <2> HIDE DEF Of, of
  <2> QED BY <1>1, <1>2, <2>1
<1> QED BY <1>3, <1>4, <1>5

\* A change is what its type says.
LEMMA ChangesMean ==
  ASSUME NEW base, NEW candidate, NEW change \in ArtifactChanges(base, candidate)
  PROVE  LET old == SubjectIds(base, change.kind)
             new == SubjectIds(candidate, change.kind)
         IN /\ change.kind \in ArtifactKind
            /\ \/ change.type = "REMOVED" /\ change.id \in old \ new
               \/ change.type = "ADDED" /\ change.id \in new \ old
               \/ change.type = "MODIFIED" /\ change.id \in old \cap new
<1>1. PICK kind \in ArtifactKind :
        \/ \E id \in SubjectIds(base, kind) \ SubjectIds(candidate, kind) :
             change = [kind |-> kind, id |-> id, type |-> "REMOVED"]
        \/ \E id \in SubjectIds(candidate, kind) \ SubjectIds(base, kind) :
             change = [kind |-> kind, id |-> id, type |-> "ADDED"]
        \/ \E id \in SubjectIds(base, kind) \cap SubjectIds(candidate, kind) :
             change = [kind |-> kind, id |-> id, type |-> "MODIFIED"]
  BY DEF ArtifactChanges
<1> QED BY <1>1

\* An attestation whose evidence was accepted and that approves: for a modification, its
\* detailed reviews fit the release pair and have no findings.
Accepted(p, files, a) ==
  /\ AttestationVerifies(a, ReviewKeys)
  /\ a.approves /\ a.base = Base.digest /\ a.candidate = p.digest
  /\ a.content = ReviewedContent(Base, p, a)
  /\ \E change \in ArtifactChanges(Base, p) : SubjectOf(change) = SubjectOf(a) /\ change.type = a.type
  /\ a.type = "MODIFIED" =>
       /\ a.review # {}
       /\ \A q \in a.review :
            /\ q \in files /\ q.kind = a.kind /\ q.subject = a.id
            /\ ~DetailedReviewRejected(Base, p, q) /\ DetailedReviewFindings(Base, q) = {}

\* Every change of a complete bundle has such an attestation.
LEMMA ChangesAreApproved ==
  ASSUME NEW p \in Candidates, NEW files, NEW evidence,
         ~EvidenceRejected(Base, p, files, evidence, ReviewKeys),
         EvidenceFindings(Base, p, evidence) = {},
         NEW change \in ArtifactChanges(Base, p)
  PROVE  \E a \in evidence : a.kind = change.kind /\ a.id = change.id /\ Accepted(p, files, a)
<1> DEFINE On == {a \in evidence : SubjectOf(a) = SubjectOf(change)}
<1>1. On # {} /\ \A a \in On : a.approves
  <2>1. {<<"REVIEW_MISSING", SubjectOf(c), c.type>> :
           c \in {d \in ArtifactChanges(Base, p) :
                    {a \in evidence : SubjectOf(a) = SubjectOf(d)} = {}}} = {}
    BY DEF EvidenceFindings
  <2>2. {<<"REVIEW_BLOCKED", SubjectOf(c), c.type>> :
           c \in {d \in ArtifactChanges(Base, p) :
                    \E a \in {x \in evidence : SubjectOf(x) = SubjectOf(d)} : ~a.approves}} = {}
    BY DEF EvidenceFindings
  <2>3. On # {}
    BY <2>1
  <2>4. \A a \in On : a.approves
    BY <2>2
  <2> QED BY <2>3, <2>4
<1>2. PICK a \in evidence : SubjectOf(a) = SubjectOf(change) /\ a.approves
  BY <1>1
<1>3. a.kind = change.kind /\ a.id = change.id
  BY <1>2 DEF SubjectOf
<1>4. /\ AttestationVerifies(a, ReviewKeys)
      /\ ~AttestationMismatch(Base, p, files, a) /\ ~EvidenceMismatch(Base, p, a)
      /\ \A q \in files : ~DetailedReviewRejected(Base, p, q)
  BY DEF EvidenceRejected
<1>5. a.type = "MODIFIED" => a.review # {} /\ a.review = DetailOf(a, files)
  BY <1>4 DEF AttestationVerifies, WellFormedAttestation, AttestationMismatch
<1>6. a.type = "MODIFIED" => \A q \in a.review : DetailedReviewFindings(Base, q) = {}
  BY <1>2, <1>4 DEF AttestationMismatch
<1>7. a.type = "MODIFIED" =>
       /\ a.review # {}
       /\ \A q \in a.review :
            /\ q \in files /\ q.kind = a.kind /\ q.subject = a.id
            /\ ~DetailedReviewRejected(Base, p, q) /\ DetailedReviewFindings(Base, q) = {}
  BY <1>4, <1>5, <1>6 DEF DetailOf
<1>8. a.base = Base.digest /\ a.candidate = p.digest
  BY <1>4 DEF AttestationMismatch
<1>9. /\ a.content = ReviewedContent(Base, p, a)
      /\ \E c \in ArtifactChanges(Base, p) : SubjectOf(c) = SubjectOf(a) /\ c.type = a.type
  BY <1>4 DEF EvidenceMismatch
<1>10. Accepted(p, files, a)
  BY <1>2, <1>4, <1>7, <1>8, <1>9 DEF Accepted
<1> QED BY <1>3, <1>10

(***************************************************************************)
(* Reviews: policy sets                                                    *)
(***************************************************************************)
\* Where logical ids are unambiguous, a policy set is the one of its name.
LEMMA PolicySetOfName ==
  ASSUME NEW pack, ~IdentifiersClash(pack.policies, LogicalId), NEW s \in pack.policies
  PROVE  /\ SetsNamed(pack, s.id) = {s}
         /\ <<s.id>> \in SubjectIds(pack, "POLICY_SET")
         /\ Content(pack, "POLICY_SET", <<s.id>>) = s
<1>1. \A t \in pack.policies : t.id = s.id => t = s
  BY DEF IdentifiersClash, LogicalId
<1>2. SetsNamed(pack, s.id) = {s}
  BY <1>1 DEF SetsNamed
<1>3. <<s.id>> \in SubjectIds(pack, "POLICY_SET")
  BY DEF SubjectIds
<1>4. Named(pack.policies, SetSubject, <<s.id>>) = s
  <2>1. \A t \in pack.policies : <<t.id>> = <<s.id>> <=> t = s
    BY <1>1
  <2> QED BY <2>1 DEF Named, SetSubject
<1> QED BY <1>2, <1>3, <1>4 DEF Content

LEMMA PolicySetNamed ==
  ASSUME NEW pack, NEW id, <<id>> \in SubjectIds(pack, "POLICY_SET")
  PROVE  \E s \in pack.policies : s.id = id
<1>1. PICK s \in pack.policies : <<id>> = <<s.id>>
  BY DEF SubjectIds
<1> QED BY <1>1

\* A rule in which two sets of one name differ is a change of the set.
LEMMA RulesThatDiffer ==
  ASSUME NEW old, NEW new,
         ~IdentifiersClash(old.rules, LogicalId), ~IdentifiersClash(new.rules, LogicalId),
         NEW r \in SymmetricDifference(old.rules, new.rules)
  PROVE  \E change \in RuleChanges(old, new) : change.id = r.id
<1>1. \A i, j \in old.rules : i.id = j.id => i = j
  BY DEF IdentifiersClash, LogicalId
<1>2. \A i, j \in new.rules : i.id = j.id => i = j
  BY DEF IdentifiersClash, LogicalId
<1>3. \A i \in old.rules : Named(old.rules, LogicalId, i.id) = i
  BY <1>1 DEF Named, LogicalId
<1>4. \A i \in new.rules : Named(new.rules, LogicalId, i.id) = i
  BY <1>2 DEF Named, LogicalId
<1> DEFINE before == {i.id : i \in old.rules}
           after == {i.id : i \in new.rules}
           Of(type) == [id |-> r.id, type |-> type]
<1>5. RuleChanges(old, new) =
        {[id |-> id, type |-> "REMOVED"] : id \in before \ after} \cup
        {[id |-> id, type |-> "ADDED"] : id \in after \ before} \cup
        {[id |-> id, type |-> "MODIFIED"] :
           id \in {i \in before \cap after :
                     Named(old.rules, LogicalId, i) # Named(new.rules, LogicalId, i)}}
  BY DEF RuleChanges, ItemChanges, LogicalId, SameContent
<1>6. r.id \in before \cup after
  BY DEF SymmetricDifference
<1>7. r.id \in before \cap after =>
        Named(old.rules, LogicalId, r.id) # Named(new.rules, LogicalId, r.id)
  <2> SUFFICES ASSUME NEW i \in old.rules, NEW j \in new.rules, i.id = r.id, j.id = r.id
               PROVE  Named(old.rules, LogicalId, r.id) # Named(new.rules, LogicalId, r.id)
    OBVIOUS
  <2>1. i # j
    BY <1>1, <1>2 DEF SymmetricDifference
  <2> QED BY <1>3, <1>4, <2>1
<1>8. \A type : Of(type).id = r.id
  OBVIOUS
<1>9. CASE r.id \in before \ after
  <2>1. Of("REMOVED") \in RuleChanges(old, new)
    BY <1>5, <1>9
  <2> HIDE DEF Of
  <2> QED BY <1>8, <2>1
<1>10. CASE r.id \in after \ before
  <2>1. Of("ADDED") \in RuleChanges(old, new)
    BY <1>5, <1>10
  <2> HIDE DEF Of
  <2> QED BY <1>8, <2>1
<1>11. CASE r.id \in before \cap after
  <2>1. Of("MODIFIED") \in RuleChanges(old, new)
    BY <1>5, <1>7, <1>11
  <2> HIDE DEF Of
  <2> QED BY <1>8, <2>1
<1> QED BY <1>6, <1>9, <1>10, <1>11

\* What a review has to say about a rule for it to be accepted.
RuleAccepted(q, id) ==
  \E i \in q.rules :
    i.rule = id /\ i.conclusion = IF i.support = {} THEN "NOT_APPLICABLE" ELSE "APPROVED"

\* A review without findings accepts every rule in which its set differs from the base's.
LEMMA PolicyReviewsAccept ==
  ASSUME NEW base, NEW old, NEW new, SetsNamed(base, new.id) = {old}, NEW q,
         ~PolicyReviewRejected(base, new, q), PolicyReviewFindings(base, new, q) = {},
         NEW r \in SymmetricDifference(old.rules, new.rules)
  PROVE  RuleAccepted(q, r.id)
<1>1. (CHOOSE s \in SetsNamed(base, new.id) : TRUE) = old
  OBVIOUS
<1>2. ~IdentifiersClash(old.rules, LogicalId) /\ ~IdentifiersClash(new.rules, LogicalId)
  BY <1>1 DEF PolicyReviewRejected
<1>3. PICK change \in RuleChanges(old, new) : change.id = r.id
  BY <1>2, RulesThatDiffer
<1>4. {<<"RULE_REVIEW_MISSING", c.id>> :
         c \in {d \in RuleChanges(old, new) : d.id \notin {item.rule : item \in q.rules}}} = {}
  BY <1>1 DEF PolicyReviewFindings
<1>5. PICK i \in q.rules : i.rule = r.id
  BY <1>3, <1>4
<1>6. (UNION {RuleConclusionFinding(item) : item \in q.rules}) = {}
  BY DEF PolicyReviewFindings
<1>7. RuleConclusionFinding(i) = {}
  BY <1>6
<1>8. i.conclusion = IF i.support = {} THEN "NOT_APPLICABLE" ELSE "APPROVED"
  BY <1>7 DEF RuleConclusionFinding
<1> QED BY <1>5, <1>8 DEF RuleAccepted

\* An accepted attestation approves this rule of the set of that name.
RuleApproved(p, files, evidence, id, r) ==
  \E a \in evidence :
    /\ a.kind = "POLICY_SET" /\ a.id = <<id>> /\ Accepted(p, files, a)
    /\ AcceptsRule(a, r.id)

\* So every rule that base and candidate do not share has been approved.
LEMMA RuleChangesReviewed ==
  ASSUME NEW p \in Candidates, NEW files, NEW evidence,
         ~EvidenceRejected(Base, p, files, evidence, ReviewKeys),
         EvidenceFindings(Base, p, evidence) = {},
         ~IdentifiersClash(Base.policies, LogicalId), ~IdentifiersClash(p.policies, LogicalId),
         NEW id, NEW r \in SymmetricDifference(RulesOf(Base, id), RulesOf(p, id))
  PROVE  RuleApproved(p, files, evidence, id, r)
<1>1. <<id>> \in SubjectIds(Base, "POLICY_SET") \cup SubjectIds(p, "POLICY_SET")
  <2>1. PICK s \in Base.policies \cup p.policies : s.id = id
    BY DEF SymmetricDifference, RulesOf, SetsNamed
  <2> QED BY <2>1, PolicySetOfName
<1>2. ASSUME NEW s \in Base.policies, NEW t \in p.policies, s.id = id, t.id = id
      PROVE  /\ Content(Base, "POLICY_SET", <<id>>) = s /\ Content(p, "POLICY_SET", <<id>>) = t
             /\ SetsNamed(Base, id) = {s} /\ SetsNamed(p, id) = {t}
             /\ r \in SymmetricDifference(s.rules, t.rules)
  <2>1. SetsNamed(Base, id) = {s} /\ SetsNamed(p, id) = {t}
    BY <1>2, PolicySetOfName
  <2>2. RulesOf(Base, id) = s.rules /\ RulesOf(p, id) = t.rules
    BY <2>1 DEF RulesOf
  <2> QED BY <1>2, <2>1, <2>2, PolicySetOfName
<1>3. <<id>> \in SubjectIds(Base, "POLICY_SET") \cap SubjectIds(p, "POLICY_SET")
        => Content(Base, "POLICY_SET", <<id>>) # Content(p, "POLICY_SET", <<id>>)
  <2> SUFFICES ASSUME <<id>> \in SubjectIds(Base, "POLICY_SET"), <<id>> \in SubjectIds(p, "POLICY_SET")
               PROVE  Content(Base, "POLICY_SET", <<id>>) # Content(p, "POLICY_SET", <<id>>)
    OBVIOUS
  <2>1. PICK s \in Base.policies : s.id = id
    BY PolicySetNamed
  <2>2. PICK t \in p.policies : t.id = id
    BY PolicySetNamed
  <2> QED BY <1>2, <2>1, <2>2 DEF SymmetricDifference
<1>4. PICK change \in ArtifactChanges(Base, p) : change.kind = "POLICY_SET" /\ change.id = <<id>>
  BY <1>1, <1>3, SubjectChanges DEF ArtifactKind
<1>5. PICK a \in evidence : a.kind = "POLICY_SET" /\ a.id = <<id>> /\ Accepted(p, files, a)
  BY <1>4, ChangesAreApproved
<1>6. AcceptsRule(a, r.id)
  <2>1. CASE a.type # "MODIFIED"
    BY <2>1 DEF AcceptsRule
  <2>2. CASE a.type = "MODIFIED"
    <3>1. PICK q \in a.review :
            /\ q.kind = "POLICY_SET" /\ q.subject = <<id>>
            /\ ~DetailedReviewRejected(Base, p, q) /\ DetailedReviewFindings(Base, q) = {}
      BY <1>5, <2>2 DEF Accepted
    <3>2. PICK c \in ArtifactChanges(Base, p) : SubjectOf(c) = SubjectOf(a) /\ c.type = "MODIFIED"
      BY <1>5, <2>2 DEF Accepted
    <3>3. c.kind = "POLICY_SET" /\ c.id = <<id>>
      BY <1>5, <3>2 DEF SubjectOf
    <3>4. <<id>> \in SubjectIds(Base, "POLICY_SET") /\ <<id>> \in SubjectIds(p, "POLICY_SET")
      BY <3>2, <3>3, ChangesMean
    <3>5. PICK s \in Base.policies : s.id = id
      BY <3>4, PolicySetNamed
    <3>6. PICK t \in p.policies : t.id = id
      BY <3>4, PolicySetNamed
    <3>7. /\ Content(p, "POLICY_SET", <<id>>) = t /\ SetsNamed(Base, id) = {s}
          /\ r \in SymmetricDifference(s.rules, t.rules)
      BY <1>2, <3>5, <3>6
    <3>8. ~PolicyReviewRejected(Base, t, q)
      BY <3>1, <3>7 DEF DetailedReviewRejected
    <3>9. q.content = t
      BY <3>8 DEF PolicyReviewRejected
    <3>10. PolicyReviewFindings(Base, t, q) = {}
      BY <3>1, <3>9 DEF DetailedReviewFindings
    <3>11. RuleAccepted(q, r.id)
      <4>1. SetsNamed(Base, t.id) = {s}
        BY <3>6, <3>7
      <4>2. r \in SymmetricDifference(s.rules, t.rules)
        BY <3>7
      <4> QED BY <3>8, <3>10, <4>1, <4>2, PolicyReviewsAccept
    <3> QED BY <3>1, <3>11 DEF AcceptsRule, RuleAccepted
  <2> QED BY <2>1, <2>2
<1> QED BY <1>5, <1>6 DEF RuleApproved

(***************************************************************************)
(* Reviews: provider capability records                                    *)
(***************************************************************************)
\* The identifier of a target names it, and a well-formed pack has one record of it.
LEMMA TargetsAreNamed ==
  ASSUME NEW t, NEW u, t = [dim \in TargetDimensions |-> t[dim]],
         u = [dim \in TargetDimensions |-> u[dim]], TargetId(t) = TargetId(u)
  PROVE  t = u
<1>1. t["provider"] = u["provider"] /\ t["service"] = u["service"] /\ t["region"] = u["region"]
  BY DEF TargetId
<1>2. \A dim \in TargetDimensions : t[dim] = u[dim]
  BY <1>1 DEF TargetDimensions
<1>3. [dim \in TargetDimensions |-> t[dim]] = [dim \in TargetDimensions |-> u[dim]]
  BY <1>2
<1> QED BY <1>3

LEMMA RecordOfTarget ==
  ASSUME NEW pack, WellFormedPack(pack), NEW rec \in pack.providers
  PROVE  /\ {r \in pack.providers : r.target = rec.target} = {rec}
         /\ Named(pack.providers, TargetOf, rec.target) = rec
         /\ TargetId(rec.target) \in SubjectIds(pack, "PROVIDER_TARGET")
         /\ Content(pack, "PROVIDER_TARGET", TargetId(rec.target)) = rec
<1>1. \A r \in pack.providers : r.target = rec.target => r = rec
  BY DEF WellFormedPack, IdentifiersClash, TargetOf
<1>2. \A r \in pack.providers : r.target = [dim \in TargetDimensions |-> r.target[dim]]
  BY DEF WellFormedPack, WellFormedRecord
<1>3. \A r \in pack.providers : TargetId(r.target) = TargetId(rec.target) => r = rec
  BY <1>1, <1>2, TargetsAreNamed
<1>4. Named(pack.providers, RecordSubject, TargetId(rec.target)) = rec
  <2>1. \A r \in pack.providers : RecordSubject(r) = TargetId(rec.target) <=> r = rec
    BY <1>3 DEF RecordSubject
  <2> QED BY <2>1 DEF Named
<1>5. Content(pack, "PROVIDER_TARGET", TargetId(rec.target)) = rec
  BY <1>4 DEF Content
<1>6. TargetId(rec.target) \in SubjectIds(pack, "PROVIDER_TARGET")
  BY DEF SubjectIds
<1>7. Named(pack.providers, TargetOf, rec.target) = rec
  <2>1. \A r \in pack.providers : TargetOf(r) = rec.target <=> r = rec
    BY <1>1 DEF TargetOf
  <2> QED BY <2>1 DEF Named
<1>8. {r \in pack.providers : r.target = rec.target} = {rec}
  BY <1>1
<1> QED BY <1>5, <1>6, <1>7, <1>8

LEMMA RecordNamed ==
  ASSUME NEW pack, WellFormedPack(pack),
         NEW target, target = [dim \in TargetDimensions |-> target[dim]],
         TargetId(target) \in SubjectIds(pack, "PROVIDER_TARGET")
  PROVE  \E rec \in pack.providers : rec.target = target
<1>1. PICK rec \in pack.providers : TargetId(rec.target) = TargetId(target)
  BY DEF SubjectIds
<1>2. rec.target = [dim \in TargetDimensions |-> rec.target[dim]]
  BY DEF WellFormedPack, WellFormedRecord
<1> QED BY <1>1, <1>2, TargetsAreNamed

\* A review without findings corroborates every capability either record has a fact of.
LEMMA ProviderReviewsAccept ==
  ASSUME NEW base, NEW old, NEW new, Named(base.providers, TargetOf, new.target) = old,
         NEW q, WellFormedProviderReview(q), ProviderReviewFindings(base, new, q) = {},
         NEW key \in RequiredKeys(old, new)
  PROVE  /\ \E s \in q.sources : key \in s.keys /\ s.conclusion = "CORROBORATED"
         /\ \A s \in q.sources : key \in s.keys => s.conclusion = "CORROBORATED"
<1> DEFINE reached == {s.conclusion : s \in {t \in q.sources : key \in t.keys}}
<1>1. {<<CapabilityConclusion(q.sources, k), k>> :
         k \in {l \in RequiredKeys(old, new) : CapabilityConclusion(q.sources, l) # None}} = {}
  BY DEF ProviderReviewFindings
<1>2. CapabilityConclusion(q.sources, key) = None
  BY <1>1
<1>3. /\ "CONTRADICTED" \notin reached /\ "INCONCLUSIVE" \notin reached
      /\ "CORROBORATED" \in reached
  <2>1. CapabilityConclusion(q.sources, key) =
          IF "CONTRADICTED" \in reached THEN "CAPABILITY_CONTRADICTED"
          ELSE IF "INCONCLUSIVE" \in reached THEN "CAPABILITY_INCONCLUSIVE"
          ELSE IF "CORROBORATED" \in reached THEN None
          ELSE "CAPABILITY_UNREVIEWED"
    BY DEF CapabilityConclusion
  <2> HIDE DEF reached
  <2> QED BY <1>2, <2>1 DEF None
<1>4. reached \subseteq ProviderReviewConclusion
  BY DEF WellFormedProviderReview
<1>5. reached = {"CORROBORATED"}
  <2> HIDE DEF reached
  <2> QED BY <1>3, <1>4 DEF ProviderReviewConclusion
<1> QED BY <1>5

\* An accepted attestation corroborates the capability of this fact.
FactApproved(p, files, evidence, target, f) ==
  \E a \in evidence :
    /\ a.kind = "PROVIDER_TARGET" /\ a.id = TargetId(target) /\ Accepted(p, files, a)
    /\ AcceptsFact(a, f.key)

\* So every capability on which base and candidate differ has been approved.
LEMMA FactChangesReviewed ==
  ASSUME NEW p \in Candidates, NEW files \in SUBSET ReviewFiles, NEW evidence,
         ~EvidenceRejected(Base, p, files, evidence, ReviewKeys),
         EvidenceFindings(Base, p, evidence) = {},
         NEW target, target \in {rec.target : rec \in Base.providers \cup p.providers},
         NEW f \in SymmetricDifference(FactsOf(Base, target), FactsOf(p, target))
  PROVE  FactApproved(p, files, evidence, target, f)
<1> DEFINE id == TargetId(target)
<1>1. WellFormedPack(Base) /\ WellFormedPack(p)
  BY PackAssumption
<1>2. target = [dim \in TargetDimensions |-> target[dim]]
  BY <1>1 DEF WellFormedPack, WellFormedRecord
<1>3. id \in SubjectIds(Base, "PROVIDER_TARGET") \cup SubjectIds(p, "PROVIDER_TARGET")
  BY DEF SubjectIds
<1>4. ASSUME NEW s \in Base.providers, NEW t \in p.providers, s.target = target, t.target = target
      PROVE  /\ Content(Base, "PROVIDER_TARGET", id) = s /\ Content(p, "PROVIDER_TARGET", id) = t
             /\ f \in SymmetricDifference(s.facts, t.facts)
             /\ Named(Base.providers, TargetOf, target) = s
  <2>1. /\ {r \in Base.providers : r.target = target} = {s}
        /\ {r \in p.providers : r.target = target} = {t}
    BY <1>1, <1>4, RecordOfTarget
  <2>2. FactsOf(Base, target) = s.facts /\ FactsOf(p, target) = t.facts
    BY <2>1 DEF FactsOf
  <2> QED BY <1>1, <1>4, <2>2, RecordOfTarget
<1>5. id \in SubjectIds(Base, "PROVIDER_TARGET") \cap SubjectIds(p, "PROVIDER_TARGET")
        => Content(Base, "PROVIDER_TARGET", id) # Content(p, "PROVIDER_TARGET", id)
  <2> SUFFICES ASSUME id \in SubjectIds(Base, "PROVIDER_TARGET"),
                      id \in SubjectIds(p, "PROVIDER_TARGET")
               PROVE  Content(Base, "PROVIDER_TARGET", id) # Content(p, "PROVIDER_TARGET", id)
    OBVIOUS
  <2>1. PICK s \in Base.providers : s.target = target
    BY <1>1, <1>2, RecordNamed
  <2>2. PICK t \in p.providers : t.target = target
    BY <1>1, <1>2, RecordNamed
  <2> QED BY <1>4, <2>1, <2>2 DEF SymmetricDifference
<1>6. PICK change \in ArtifactChanges(Base, p) : change.kind = "PROVIDER_TARGET" /\ change.id = id
  BY <1>3, <1>5, SubjectChanges DEF ArtifactKind
<1>7. PICK a \in evidence : a.kind = "PROVIDER_TARGET" /\ a.id = id /\ Accepted(p, files, a)
  BY <1>6, ChangesAreApproved
<1>8. AcceptsFact(a, f.key)
  <2>1. CASE a.type # "MODIFIED"
    BY <2>1 DEF AcceptsFact
  <2>2. CASE a.type = "MODIFIED"
    <3>1. PICK c \in ArtifactChanges(Base, p) : SubjectOf(c) = SubjectOf(a) /\ c.type = "MODIFIED"
      BY <1>7, <2>2 DEF Accepted
    <3>2. c.kind = "PROVIDER_TARGET" /\ c.id = id
      BY <1>7, <3>1 DEF SubjectOf
    <3>3. id \in SubjectIds(Base, "PROVIDER_TARGET") /\ id \in SubjectIds(p, "PROVIDER_TARGET")
      BY <3>1, <3>2, ChangesMean
    <3>4. PICK s \in Base.providers : s.target = target
      BY <1>1, <1>2, <3>3, RecordNamed
    <3>5. PICK t \in p.providers : t.target = target
      BY <1>1, <1>2, <3>3, RecordNamed
    <3>6. /\ Content(p, "PROVIDER_TARGET", id) = t
          /\ Named(Base.providers, TargetOf, t.target) = s
          /\ f \in SymmetricDifference(s.facts, t.facts)
      BY <1>4, <3>4, <3>5
    <3>7. f.key \in RequiredKeys(s, t)
      BY <3>6 DEF RequiredKeys, Keys, SymmetricDifference
    <3>8. ASSUME NEW q \in a.review
          PROVE  /\ \E x \in q.sources : f.key \in x.keys /\ x.conclusion = "CORROBORATED"
                 /\ \A x \in q.sources : f.key \in x.keys => x.conclusion = "CORROBORATED"
      <4>1. /\ q \in files /\ q.kind = "PROVIDER_TARGET" /\ q.subject = id
            /\ ~DetailedReviewRejected(Base, p, q) /\ DetailedReviewFindings(Base, q) = {}
        BY <1>7, <2>2 DEF Accepted
      <4>2. WellFormedProviderReview(q)
        BY <4>1, ReviewAssumption
      <4>3. ~ProviderReviewRejected(Base, t, q)
        BY <3>6, <4>1 DEF DetailedReviewRejected
      <4>4. q.content = t
        BY <4>3 DEF ProviderReviewRejected
      <4>5. ProviderReviewFindings(Base, t, q) = {}
        BY <4>1, <4>4 DEF DetailedReviewFindings
      <4>6. Named(Base.providers, TargetOf, t.target) = s
        BY <3>6
      <4> QED BY <3>7, <4>2, <4>5, <4>6, ProviderReviewsAccept
    <3>9. a.review # {}
      BY <1>7, <2>2 DEF Accepted
    <3>10. PICK q \in a.review : TRUE
      BY <3>9
    <3>11. /\ \E x \in (UNION {r.sources : r \in a.review}) :
                f.key \in x.keys /\ x.conclusion = "CORROBORATED"
           /\ \A x \in (UNION {r.sources : r \in a.review}) :
                f.key \in x.keys => x.conclusion = "CORROBORATED"
      BY <3>8, <3>10
    <3> QED BY <3>11 DEF AcceptsFact
  <2> QED BY <2>1, <2>2
<1> QED BY <1>7, <1>8 DEF FactApproved

(***************************************************************************)
(* Reviews: the tool catalog                                               *)
(***************************************************************************)
\* Tools of one name that say the same have the same definition.
LEMMA SameDefinition ==
  ASSUME NEW catalog, NEW tools, WellFormedCatalog(catalog, tools), NEW t \in tools,
         NEW others, NEW versions, WellFormedCatalog(versions, others), NEW u \in others,
         t.name = u.name, SemanticDefinition(t) = SemanticDefinition(u)
  PROVE  [t EXCEPT !.catalog = None] = [u EXCEPT !.catalog = None]
<1> DEFINE fields == {"name", "description", "risk", "schema", "definition", "catalog"}
<1>1. DOMAIN t = fields /\ t = [field \in fields |-> t[field]]
  BY DEF WellFormedCatalog
<1>2. DOMAIN u = fields /\ u = [field \in fields |-> u[field]]
  BY DEF WellFormedCatalog
<1>3. /\ t.description = u.description /\ t.risk = u.risk
      /\ t.schema = u.schema /\ t.definition = u.definition
  BY DEF SemanticDefinition
<1>4. [t EXCEPT !.catalog = None] = [field \in fields |-> IF field = "catalog" THEN None ELSE t[field]]
  BY <1>1
<1>5. [u EXCEPT !.catalog = None] = [field \in fields |-> IF field = "catalog" THEN None ELSE u[field]]
  BY <1>2
<1>6. \A field \in fields : (IF field = "catalog" THEN None ELSE t[field])
                              = (IF field = "catalog" THEN None ELSE u[field])
  BY <1>3
<1> HIDE DEF fields
<1> QED BY <1>4, <1>5, <1>6

\* Clearing the version of a tool leaves its name.
LEMMA DefinitionKeepsName ==
  ASSUME NEW catalog, NEW tools, WellFormedCatalog(catalog, tools), NEW t \in tools
  PROVE  [t EXCEPT !.catalog = None].name = t.name
<1>1. "name" \in DOMAIN t /\ t = [field \in DOMAIN t |-> t[field]]
  BY DEF WellFormedCatalog
<1> QED BY <1>1

\* A tool definition that two catalogs do not share is a change of the catalog.
LEMMA ToolsThatDiffer ==
  ASSUME NEW old, NEW new,
         WellFormedCatalog(old.catalog, old.tools), WellFormedCatalog(new.catalog, new.tools),
         NEW d \in SymmetricDifference(Definitions(old), Definitions(new))
  PROVE  \E change \in CatalogChanges(old, new) : change.id = d.name
<1> DEFINE before == {t.name : t \in old.tools}
           after == {t.name : t \in new.tools}
           Of(type) == [id |-> d.name, type |-> type]
<1>1. CatalogChanges(old, new) =
        {[id |-> id, type |-> "REMOVED"] : id \in before \ after} \cup
        {[id |-> id, type |-> "ADDED"] : id \in after \ before} \cup
        {[id |-> id, type |-> "MODIFIED"] :
           id \in {i \in before \cap after :
                     SemanticDefinition(Named(old.tools, ToolName, i))
                       # SemanticDefinition(Named(new.tools, ToolName, i))}}
  BY DEF CatalogChanges, ItemChanges, ToolName
<1>2. \A t, u \in old.tools : t.name = u.name => t = u
  BY DEF WellFormedCatalog, IdentifiersClash, ToolName
<1>3. \A t, u \in new.tools : t.name = u.name => t = u
  BY DEF WellFormedCatalog, IdentifiersClash, ToolName
<1>4. \A t \in old.tools : Named(old.tools, ToolName, t.name) = t
  BY <1>2 DEF Named, ToolName
<1>5. \A t \in new.tools : Named(new.tools, ToolName, t.name) = t
  BY <1>3 DEF Named, ToolName
<1>6. \/ \E t \in old.tools : d = [t EXCEPT !.catalog = None] /\ d \notin Definitions(new)
      \/ \E t \in new.tools : d = [t EXCEPT !.catalog = None] /\ d \notin Definitions(old)
  BY DEF SymmetricDifference, Definitions
<1>7. d.name \in before \cup after
  BY <1>6, DefinitionKeepsName
<1>8. d.name \in before \cap after =>
        SemanticDefinition(Named(old.tools, ToolName, d.name))
          # SemanticDefinition(Named(new.tools, ToolName, d.name))
  <2> SUFFICES ASSUME NEW t \in old.tools, NEW u \in new.tools, t.name = d.name, u.name = d.name,
                      SemanticDefinition(t) = SemanticDefinition(u)
               PROVE  FALSE
    BY <1>4, <1>5
  <2>1. [t EXCEPT !.catalog = None] = [u EXCEPT !.catalog = None]
    BY SameDefinition
  <2>2. \/ \E v \in old.tools : v.name = d.name /\ d = [v EXCEPT !.catalog = None] /\ d \notin Definitions(new)
        \/ \E v \in new.tools : v.name = d.name /\ d = [v EXCEPT !.catalog = None] /\ d \notin Definitions(old)
    BY <1>6, DefinitionKeepsName
  <2>3. \/ d = [t EXCEPT !.catalog = None] /\ d \notin Definitions(new)
        \/ d = [u EXCEPT !.catalog = None] /\ d \notin Definitions(old)
    BY <1>2, <1>3, <2>2
  <2>4. [t EXCEPT !.catalog = None] \in Definitions(old) /\ [u EXCEPT !.catalog = None] \in Definitions(new)
    BY DEF Definitions
  <2> QED BY <2>1, <2>3, <2>4
<1>9. \A type : Of(type).id = d.name
  OBVIOUS
<1> HIDE DEF before, after
<1>10. CASE d.name \in before \ after
  <2>1. Of("REMOVED") \in CatalogChanges(old, new)
    BY <1>1, <1>10
  <2> HIDE DEF Of
  <2> QED BY <1>9, <2>1
<1>11. CASE d.name \in after \ before
  <2>1. Of("ADDED") \in CatalogChanges(old, new)
    BY <1>1, <1>11
  <2> HIDE DEF Of
  <2> QED BY <1>9, <2>1
<1>12. CASE d.name \in before \cap after
  <2>1. Of("MODIFIED") \in CatalogChanges(old, new)
    BY <1>1, <1>8, <1>12
  <2> HIDE DEF Of
  <2> QED BY <1>9, <2>1
<1> QED BY <1>7, <1>10, <1>11, <1>12

\* A review without findings accepts every tool that the catalogs do not share.
LEMMA ToolReviewsAccept ==
  ASSUME NEW base, NEW catalog, NEW q, ToolReviewFindings(base, catalog, q) = {},
         NEW change \in CatalogChanges(base, catalog)
  PROVE  \E i \in q.tools : i.tool = change.id /\ i.conclusion = "APPROVED"
<1>1. {<<"TOOL_REVIEW_MISSING", c.id>> :
         c \in {d \in CatalogChanges(base, catalog) : d.id \notin {item.tool : item \in q.tools}}} = {}
  BY DEF ToolReviewFindings
<1>2. PICK i \in q.tools : i.tool = change.id
  BY <1>1
<1>3. {<<item.conclusion, item.tool>> : item \in {j \in q.tools : j.conclusion # "APPROVED"}} = {}
  BY DEF ToolReviewFindings
<1>4. i.conclusion = "APPROVED"
  BY <1>3
<1> QED BY <1>2, <1>4

\* So every tool definition that base and candidate do not share has been approved.
LEMMA ToolChangesReviewed ==
  ASSUME NEW p \in Candidates, NEW files, NEW evidence,
         ~EvidenceRejected(Base, p, files, evidence, ReviewKeys),
         EvidenceFindings(Base, p, evidence) = {},
         NEW d \in SymmetricDifference(Definitions(Base), Definitions(p))
  PROVE  \E a \in evidence :
           /\ a.kind = "TOOL_CATALOG" /\ a.id = TheCatalog /\ Accepted(p, files, a)
           /\ AcceptsTool(a, d.name)
<1>1. \A pack : /\ SubjectIds(pack, "TOOL_CATALOG") = {TheCatalog}
                /\ Content(pack, "TOOL_CATALOG", TheCatalog) = Catalog(pack)
  BY DEF SubjectIds, Content
<1>2. Catalog(Base) # Catalog(p)
  <2>1. Base.tools # p.tools
    BY DEF SymmetricDifference, Definitions
  <2>2. Catalog(Base).tools = Base.tools /\ Catalog(p).tools = p.tools
    BY DEF Catalog
  <2> QED BY <2>1, <2>2
<1>3. PICK change \in ArtifactChanges(Base, p) :
        change.kind = "TOOL_CATALOG" /\ change.id = TheCatalog
  BY <1>1, <1>2, SubjectChanges DEF ArtifactKind
<1>4. PICK a \in evidence : a.kind = "TOOL_CATALOG" /\ a.id = TheCatalog /\ Accepted(p, files, a)
  BY <1>3, ChangesAreApproved
<1>5. a.type = "MODIFIED"
  <2>1. PICK c \in ArtifactChanges(Base, p) : SubjectOf(c) = SubjectOf(a) /\ c.type = a.type
    BY <1>4 DEF Accepted
  <2>2. c.kind = "TOOL_CATALOG" /\ c.id = TheCatalog
    BY <1>4, <2>1 DEF SubjectOf
  <2> QED BY <1>1, <2>1, <2>2, ChangesMean
<1>6. PICK q \in a.review :
        /\ q.kind = "TOOL_CATALOG" /\ q.subject = TheCatalog
        /\ ~DetailedReviewRejected(Base, p, q) /\ DetailedReviewFindings(Base, q) = {}
  BY <1>4, <1>5 DEF Accepted
<1>7. q.content = Catalog(p)
  BY <1>1, <1>6 DEF DetailedReviewRejected, ToolReviewRejected
<1>8. ToolReviewFindings(Base, Catalog(p), q) = {}
  BY <1>6, <1>7 DEF DetailedReviewFindings
<1>9. CatalogChanges(Base, Catalog(p)) = CatalogChanges(Base, p)
  BY DEF CatalogChanges, Catalog
<1>10. PICK c \in CatalogChanges(Base, p) : c.id = d.name
  <2>1. /\ WellFormedCatalog(Base.catalog, Base.tools)
        /\ WellFormedCatalog(p.catalog, p.tools)
    BY PackAssumption DEF WellFormedPack
  <2> QED BY <2>1, ToolsThatDiffer
<1>11. \E i \in q.tools : i.tool = d.name /\ i.conclusion = "APPROVED"
  BY <1>8, <1>9, <1>10, ToolReviewsAccept
<1>12. AcceptsTool(a, d.name)
  BY <1>6, <1>11 DEF AcceptsTool
<1> QED BY <1>4, <1>12

(***************************************************************************)
(* Reviews: what an authorized promotion carries                           *)
(***************************************************************************)
\* The files a complete bundle was made from, and the pack it is the evidence of.
LEMMA CompleteBundles ==
  ASSUME NEW b, BundleIsEvidenced(b), Complete(b)
  PROVE  \E p \in Candidates : \E files \in SUBSET ReviewFiles :
           /\ CandidateOf(b) = p /\ b.candidate = p.digest
           /\ ~EvidenceRejected(Base, p, files, b.evidence, ReviewKeys)
           /\ EvidenceFindings(Base, p, b.evidence) = {}
           /\ ~IdentifiersClash(Base.policies, LogicalId)
           /\ ~IdentifiersClash(p.policies, LogicalId)
<1>1. PICK p \in Candidates :
        /\ b.candidate = p.digest
        /\ \E files \in SUBSET ReviewFiles : ~EvidenceRejected(Base, p, files, b.evidence, ReviewKeys)
        /\ \E report \in Reports(Base, p, Suite) : b = Bundle(Base, p, report, b.evidence)
  BY DEF BundleIsEvidenced
<1>2. PICK files \in SUBSET ReviewFiles : ~EvidenceRejected(Base, p, files, b.evidence, ReviewKeys)
  BY <1>1
<1>3. PICK report \in Reports(Base, p, Suite) : b = Bundle(Base, p, report, b.evidence)
  BY <1>1
<1>4. CandidateOf(b) = p
  <2>1. \A q \in Candidates : q.digest = b.candidate => q = p
    BY <1>1, PackAssumption
  <2> QED BY <1>1, <2>1 DEF CandidateOf
<1>5. EvidenceFindings(Base, p, b.evidence) = {}
  <2>1. b.findings = EvidenceFindings(Base, p, b.evidence)
    BY <1>3 DEF Bundle
  <2> QED BY <2>1 DEF Complete
<1>6. \A pack \in {Base, p} : ~IdentifiersClash(pack.policies, LogicalId)
  BY <1>3 DEF Reports
<1> QED BY <1>1, <1>2, <1>4, <1>5, <1>6

\* An accepted attestation was signed by a key entitled to it, for what the release pair holds.
LEMMA AcceptedIsAuthentic ==
  ASSUME NEW b, NEW p, CandidateOf(b) = p, b.candidate = p.digest,
         NEW files, NEW a, Accepted(p, files, a)
  PROVE  /\ a.approves /\ a.base = Base.digest /\ a.candidate = b.candidate
         /\ a.content = ReviewedContent(Base, CandidateOf(b), a)
         /\ LET key == ReviewKeys[a.key]
            IN /\ ActiveAt(key, a.at)
               /\ a.role \in key.roles /\ a.kind \in key.kinds /\ a.type \in key.types
BY DEF Accepted, AttestationVerifies

\* The approvals of a complete bundle, one kind of artifact after the other.
LEMMA CompleteBundlesApprove ==
  ASSUME NEW b, BundleIsEvidenced(b), Complete(b)
  PROVE  EveryChangeApproved(b)
<1> DEFINE new == CandidateOf(b)
<1>1. PICK files \in SUBSET ReviewFiles :
        /\ new \in Candidates /\ b.candidate = new.digest
        /\ ~EvidenceRejected(Base, new, files, b.evidence, ReviewKeys)
        /\ EvidenceFindings(Base, new, b.evidence) = {}
        /\ ~IdentifiersClash(Base.policies, LogicalId)
        /\ ~IdentifiersClash(new.policies, LogicalId)
  BY CompleteBundles
<1>2. ASSUME NEW a, Accepted(new, files, a)
      PROVE  /\ a.approves /\ a.base = Base.digest /\ a.candidate = b.candidate
             /\ a.content = ReviewedContent(Base, CandidateOf(b), a)
             /\ LET key == ReviewKeys[a.key]
                IN /\ ActiveAt(key, a.at)
                   /\ a.role \in key.roles /\ a.kind \in key.kinds /\ a.type \in key.types
  BY <1>1, <1>2, AcceptedIsAuthentic
<1> HIDE DEF new
<1>3. ASSUME NEW id \in {s.id : s \in Base.policies \cup new.policies},
             NEW r \in SymmetricDifference(RulesOf(Base, id), RulesOf(new, id))
      PROVE  LET Accepts(a) == AcceptsRule(a, r.id)
             IN Approves(b, "POLICY_SET", <<id>>, Accepts)
  <2>1. PICK a \in b.evidence :
          /\ a.kind = "POLICY_SET" /\ a.id = <<id>> /\ Accepted(new, files, a)
          /\ AcceptsRule(a, r.id)
    <3>1. RuleApproved(new, files, b.evidence, id, r)
      BY <1>1, RuleChangesReviewed
    <3> QED BY <3>1 DEF RuleApproved
  <2> QED BY <1>2, <2>1 DEF Approves
<1>4. ASSUME NEW target \in {rec.target : rec \in Base.providers \cup new.providers},
             NEW f \in SymmetricDifference(FactsOf(Base, target), FactsOf(new, target))
      PROVE  LET Accepts(a) == AcceptsFact(a, f.key)
             IN Approves(b, "PROVIDER_TARGET", TargetId(target), Accepts)
  <2>1. PICK a \in b.evidence :
          /\ a.kind = "PROVIDER_TARGET" /\ a.id = TargetId(target) /\ Accepted(new, files, a)
          /\ AcceptsFact(a, f.key)
    <3>1. FactApproved(new, files, b.evidence, target, f)
      BY <1>1, FactChangesReviewed
    <3> QED BY <3>1 DEF FactApproved
  <2> QED BY <1>2, <2>1 DEF Approves
<1>5. ASSUME NEW t \in SymmetricDifference(Definitions(Base), Definitions(new))
      PROVE  LET Accepts(a) == AcceptsTool(a, t.name)
             IN Approves(b, "TOOL_CATALOG", TheCatalog, Accepts)
  <2>1. PICK a \in b.evidence :
          /\ a.kind = "TOOL_CATALOG" /\ a.id = TheCatalog /\ Accepted(new, files, a)
          /\ AcceptsTool(a, t.name)
    BY <1>1, ToolChangesReviewed
  <2> QED BY <1>2, <2>1 DEF Approves
<1> QED BY <1>3, <1>4, <1>5 DEF new, EveryChangeApproved

\* Every rule, provider capability and tool that an authorized promotion changes was approved,
\* as it is in the release pair, in a review by a key entitled to it: what was restaged,
\* reviewed again or withdrawn since does not count.
THEOREM ChangesAreReviewed == Spec => []EveryChangeReviewed
<1>1. IInv => EveryChangeReviewed
  BY CompleteBundlesApprove DEF EveryChangeReviewed, IInv, AuthorizationsWereDue, WasDue
<1> QED BY <1>1, ReleaseInvariantHolds, PTL

(***************************************************************************)
(* Analysis: what bears on a decision                                      *)
(***************************************************************************)
RulesAlike(r, q) ==
  /\ RuleId(r) = RuleId(q) /\ r.match = q.match /\ r.decision = q.decision
  /\ r.obligations = q.obligations /\ r.capabilities = q.capabilities
FactsAlike(f, g) == f.state = g.state /\ f.conditions = g.conditions /\ f.verified = g.verified
ToolsAlike(t, u) == t.name = u.name /\ t.risk = u.risk

\* Each of one family has its like in the other.
Alike(S, T, Like(_, _)) ==
  /\ \A x \in S : \E y \in T : Like(x, y)
  /\ \A y \in T : \E x \in S : Like(x, y)

\* Rules match, and obligations are directed, by the risks and names of tools.
LEMMA AlikeToolsMatch ==
  ASSUME NEW tools, NEW others, Alike(tools, others, ToolsAlike), NEW c, NEW match, NEW template
  PROVE  /\ Matches(match, c, tools) <=> Matches(match, c, others)
         /\ ObligationTargets(template, match, c, tools)
              = ObligationTargets(template, match, c, others)
<1>1. {t.risk : t \in tools} = {t.risk : t \in others}
  BY DEF Alike, ToolsAlike
<1>2. {t.name : t \in {u \in tools : u.risk \in match.risks}}
        = {t.name : t \in {u \in others : u.risk \in match.risks}}
  BY DEF Alike, ToolsAlike
<1> QED BY <1>1, <1>2 DEF Matches, ObligationTargets

LEMMA AlikeRulesMatch ==
  ASSUME NEW set, NEW that, Alike(set.rules, that.rules, RulesAlike),
         NEW tools, NEW others, Alike(tools, others, ToolsAlike), NEW c
  PROVE  Alike(MatchedRules(set, c, tools), MatchedRules(that, c, others), RulesAlike)
<1>1. \A match : Matches(match, c, tools) <=> Matches(match, c, others)
  BY AlikeToolsMatch
<1>2. ASSUME NEW r \in MatchedRules(set, c, tools)
      PROVE  \E q \in MatchedRules(that, c, others) : RulesAlike(r, q)
  BY <1>1 DEF Alike, MatchedRules, RulesAlike
<1>3. ASSUME NEW q \in MatchedRules(that, c, others)
      PROVE  \E r \in MatchedRules(set, c, tools) : RulesAlike(r, q)
  BY <1>1 DEF Alike, MatchedRules, RulesAlike
<1> QED BY <1>2, <1>3 DEF Alike

\* Alike rules decide, require and, but for their control objectives, oblige the same.
LEMMA AlikeRulesAsk ==
  ASSUME NEW rules, NEW others, Alike(rules, others, RulesAlike)
  PROVE  /\ UNION {r.decision : r \in rules} = UNION {r.decision : r \in others}
         /\ Requirements(rules) = Requirements(others)
BY DEF Alike, RulesAlike, Requirements

Unsourced(obligations) == {[o EXCEPT !.controls = {}] : o \in obligations}

\* One way of the next lemma.
LEMMA ExpansionsCarryOver ==
  ASSUME NEW rules, NEW others, \A r \in rules : \E q \in others : RulesAlike(r, q), NEW c,
         NEW tools, NEW theirs, Alike(tools, theirs, ToolsAlike)
  PROVE  /\ Unsourced(ExpandObligations(rules, c, tools))
              \subseteq Unsourced(ExpandObligations(others, c, theirs))
         /\ Unsourced(CapabilityObligations(rules)) \subseteq Unsourced(CapabilityObligations(others))
<1>1. ASSUME NEW o \in ExpandObligations(rules, c, tools)
      PROVE  [o EXCEPT !.controls = {}] \in Unsourced(ExpandObligations(others, c, theirs))
  <2>1. PICK r \in rules : \E tpl \in r.obligations :
          \E target \in ObligationTargets(tpl, r.match, c, tools) :
            o = Obligation(tpl.type, target, tpl.reason, r.controls, tpl.parameters)
    BY DEF ExpandObligations
  <2>2. PICK tpl \in r.obligations :
          \E target \in ObligationTargets(tpl, r.match, c, tools) :
            o = Obligation(tpl.type, target, tpl.reason, r.controls, tpl.parameters)
    BY <2>1
  <2>3. PICK target \in ObligationTargets(tpl, r.match, c, tools) :
          o = Obligation(tpl.type, target, tpl.reason, r.controls, tpl.parameters)
    BY <2>2
  <2>4. PICK q \in others : RulesAlike(r, q)
    OBVIOUS
  <2>5. /\ tpl \in q.obligations
        /\ target \in ObligationTargets(tpl, q.match, c, theirs)
    BY <2>4, AlikeToolsMatch DEF RulesAlike
  <2> DEFINE p == Obligation(tpl.type, target, tpl.reason, q.controls, tpl.parameters)
             bare == Obligation(tpl.type, target, tpl.reason, {}, tpl.parameters)
  <2>6. p \in ExpandObligations(others, c, theirs)
    BY <2>5 DEF ExpandObligations
  <2>7. [o EXCEPT !.controls = {}] = bare
    BY <2>3 DEF Obligation
  <2>8. [p EXCEPT !.controls = {}] = bare
    BY DEF Obligation
  <2> HIDE DEF p, bare
  <2> QED BY <2>6, <2>7, <2>8 DEF Unsourced
<1>2. ASSUME NEW o \in CapabilityObligations(rules)
      PROVE  [o EXCEPT !.controls = {}] \in Unsourced(CapabilityObligations(others))
  <2>1. PICK r \in rules : \E req \in r.capabilities :
          o = Obligation("REQUIRE_PROVIDER_CAPABILITY", req.key,
                         "MANDATORY_PROVIDER_CAPABILITY", r.controls, {})
    BY DEF CapabilityObligations
  <2>2. PICK req \in r.capabilities :
          o = Obligation("REQUIRE_PROVIDER_CAPABILITY", req.key,
                         "MANDATORY_PROVIDER_CAPABILITY", r.controls, {})
    BY <2>1
  <2>3. PICK q \in others : RulesAlike(r, q)
    OBVIOUS
  <2> DEFINE p == Obligation("REQUIRE_PROVIDER_CAPABILITY", req.key,
                             "MANDATORY_PROVIDER_CAPABILITY", q.controls, {})
  <2>4. p \in CapabilityObligations(others)
    BY <2>2, <2>3 DEF CapabilityObligations, RulesAlike
  <2>5. [o EXCEPT !.controls = {}] = [p EXCEPT !.controls = {}]
    BY <2>2 DEF Obligation
  <2> HIDE DEF p
  <2> QED BY <2>4, <2>5 DEF Unsourced
<1> QED BY <1>1, <1>2 DEF Unsourced

LEMMA AlikeRulesOblige ==
  ASSUME NEW rules, NEW others, Alike(rules, others, RulesAlike), NEW c,
         NEW tools, NEW theirs, Alike(tools, theirs, ToolsAlike)
  PROVE  /\ Unsourced(ExpandObligations(rules, c, tools))
              = Unsourced(ExpandObligations(others, c, theirs))
         /\ Unsourced(CapabilityObligations(rules)) = Unsourced(CapabilityObligations(others))
<1>1. /\ \A r \in rules : \E q \in others : RulesAlike(r, q)
      /\ \A q \in others : \E r \in rules : RulesAlike(q, r)
      /\ Alike(theirs, tools, ToolsAlike)
  BY DEF Alike, RulesAlike, ToolsAlike
<1>2. /\ Unsourced(ExpandObligations(rules, c, tools))
           \subseteq Unsourced(ExpandObligations(others, c, theirs))
      /\ Unsourced(CapabilityObligations(rules)) \subseteq Unsourced(CapabilityObligations(others))
  BY <1>1, ExpansionsCarryOver
<1>3. /\ Unsourced(ExpandObligations(others, c, theirs))
           \subseteq Unsourced(ExpandObligations(rules, c, tools))
      /\ Unsourced(CapabilityObligations(others)) \subseteq Unsourced(CapabilityObligations(rules))
  BY <1>1, ExpansionsCarryOver
<1> QED BY <1>2, <1>3

\* A requirement fails of facts that are alike for the same reason.
LEMMA AlikeFactsFail ==
  ASSUME NEW facts, NEW others, Alike(facts, others, FactsAlike), NEW req, NEW c, NEW today,
         \A f, g \in facts : f = g, \A f, g \in others : f = g
  PROVE  CapabilityFailure(facts, req, c, today) = CapabilityFailure(others, req, c, today)
<1>1. CASE facts = {}
  <2>1. others = {}
    BY <1>1 DEF Alike
  <2> QED BY <1>1, <2>1
<1>2. CASE facts # {}
  <2>1. PICK f \in facts : TRUE
    BY <1>2
  <2>2. PICK g \in others : FactsAlike(f, g)
    BY <2>1 DEF Alike
  <2>3. facts = {f} /\ others = {g}
    BY <2>1, <2>2
  <2>4. (CHOOSE x \in facts : TRUE) = f /\ (CHOOSE x \in others : TRUE) = g
    BY <2>3
  <2> QED BY <2>2, <2>3, <2>4 DEF CapabilityFailure, Stale, FactsAlike
<1> QED BY <1>1, <1>2

\* A well-formed pack has one fact of a target and a capability, if any.
LEMMA OneFactResolves ==
  ASSUME NEW pack, WellFormedPack(pack), NEW target, NEW key,
         NEW f \in ResolveCapability(pack, target, key)
  PROVE  /\ ResolveCapability(pack, target, key) = {f}
         /\ \E rec \in pack.providers : /\ rec.target = target /\ f \in rec.facts
                                        /\ f.key = key /\ Named(rec.facts, FactKey, key) = f
<1>1. PICK rec \in pack.providers : rec.target = target /\ f \in rec.facts /\ f.key = key
  BY DEF ResolveCapability
<1>2. {r \in pack.providers : r.target = target} = {rec}
  BY <1>1, RecordOfTarget
<1>3. \A g \in rec.facts : g.key = key => g = f
  BY <1>1 DEF WellFormedPack, WellFormedRecord, IdentifiersClash, FactKey
<1>4. Named(rec.facts, FactKey, key) = f
  BY <1>1, <1>3 DEF Named, FactKey
<1> QED BY <1>1, <1>2, <1>3, <1>4 DEF ResolveCapability

(***************************************************************************)
(* Evidence that ages                                                      *)
(***************************************************************************)
\* From one day to the next a requirement comes to fail only where its fact reached its
\* maximum age, and then it does.
LEMMA FactsLapse ==
  ASSUME NEW pack, WellFormedPack(pack), NEW target, NEW req, WellFormedRequirement(req),
         NEW c, NEW day \in Int
  PROVE  LET facts == ResolveCapability(pack, target, req.key)
             lapses == /\ Scalar(c, "assurance_level") = "high"
                       /\ \E f \in facts : day - f.verified \in req.maxAge
         IN CapabilityFailure(facts, req, c, day + 1) # None
              <=> lapses \/ CapabilityFailure(facts, req, c, day) # None
<1> DEFINE facts == ResolveCapability(pack, target, req.key)
<1>1. CASE facts = {}
  BY <1>1 DEF CapabilityFailure, None
<1>2. CASE facts # {}
  <2>1. PICK f \in facts : TRUE
    BY <1>2
  <2>2. facts = {f} /\ f.verified \in Int
    BY <2>1, OneFactResolves, FactsAreDated
  <2>3. (CHOOSE x \in facts : TRUE) = f
    BY <2>2
  <2>4. req.maxAge \subseteq Nat
    BY DEF WellFormedRequirement
  <2> DEFINE high == Scalar(c, "assurance_level") = "high"
             Older(today) == \E limit \in req.maxAge : today - f.verified > limit
             reached == day - f.verified \in req.maxAge
  <2>5. Older(day + 1) <=> reached \/ Older(day)
    <3> DEFINE v == f.verified
    <3>1. v \in Int
      BY <2>2
    <3> HIDE DEF v, facts
    <3>2. \A limit \in Nat : (day + 1) - v > limit <=> day - v = limit \/ day - v > limit
      BY <3>1
    <3>3. (\E limit \in req.maxAge : (day + 1) - v > limit)
            <=> \/ day - v \in req.maxAge
                \/ \E limit \in req.maxAge : day - v > limit
      BY <2>4, <3>2
    <3> QED BY <3>3 DEF v
  <2>6. Stale(f, req, c, day + 1)
          <=> \/ Scalar(c, "assurance_level") = "high" /\ day - f.verified \in req.maxAge
              \/ Stale(f, req, c, day)
    <3>1. /\ Stale(f, req, c, day) <=> high /\ Older(day)
          /\ Stale(f, req, c, day + 1) <=> high /\ Older(day + 1)
      BY DEF Stale
    <3> HIDE DEF high, Older, reached
    <3>2. Stale(f, req, c, day + 1) <=> (high /\ reached) \/ Stale(f, req, c, day)
      BY <2>5, <3>1
    <3> QED BY <3>2 DEF high, reached
  <2> HIDE DEF facts
  <2>7. ASSUME NEW today
        PROVE  CapabilityFailure(facts, req, c, today) # None
                 <=> \/ f.state = "unknown" \/ f.state = "unsupported"
                     \/ f.state \notin req.accepted
                     \/ Stale(f, req, c, today)
                     \/ ~ (f.conditions \cup req.conditions
                             \subseteq f.conditions \cap c.assertions)
    BY <2>2, <2>3 DEF CapabilityFailure, None
  <2> QED BY <2>2, <2>6, <2>7 DEF facts
<1> QED BY <1>1, <1>2

\* What a rule set decides on the next day, in terms of what fails.
LEMMA FailuresDecide ==
  ASSUME NEW pack, WellFormedPack(pack), NEW set \in pack.policies, NEW c,
         NEW today, NEW tomorrow, ~ToolsUnauthorized(pack, c)
  PROVE  LET rules == MatchedRules(set, c, AuthorizedTools(pack, c))
             failures == CapabilityFailures(pack, rules, c, today)
             further == CapabilityFailures(pack, rules, c, tomorrow)
         IN /\ further # {}
                 => Strength(Evaluate(pack, set, c, tomorrow).decision) = Strength("DENY")
            /\ (further = {} <=> failures = {})
                 => Evaluate(pack, set, c, tomorrow).decision
                      = Evaluate(pack, set, c, today).decision
<1> DEFINE rules == MatchedRules(set, c, AuthorizedTools(pack, c))
           failures == CapabilityFailures(pack, rules, c, today)
           further == CapabilityFailures(pack, rules, c, tomorrow)
           decided == UNION {r.decision : r \in rules}
           Decisive(failing) == decided \cup (IF failing = {} THEN {} ELSE {"DENY"})
<1>1. /\ Evaluate(pack, set, c, tomorrow).decision = StrongestOutcome(Decisive(further))
      /\ Evaluate(pack, set, c, today).decision = StrongestOutcome(Decisive(failures))
  BY EvaluationUnfolds
<1>2. decided \subseteq Decisions
  <2>1. rules \subseteq set.rules
    BY DEF MatchedRules
  <2> HIDE DEF rules
  <2> QED BY <2>1, RulesAreWellFormed
<1> HIDE DEF failures, further, decided
<1>3. ASSUME further # {}
      PROVE  Strength(StrongestOutcome(Decisive(further))) = Strength("DENY")
  <2> DEFINE decisive == decided \cup {"DENY"}
  <2>1. decisive \in SUBSET Decisions
    BY <1>2 DEF Decisions
  <2>2. Decisive(further) = decisive
    BY <1>3
  <2>3. /\ Strength("DENY") <= Strength(StrongestOutcome(decisive))
        /\ Strength(StrongestOutcome(decisive)) <= Strength("DENY")
    <3> HIDE DEF decisive
    <3>1. "DENY" \in decisive
      BY DEF decisive
    <3> QED BY <2>1, <3>1, StrongestOutcomeIsStrongest, DenyIsStrongest
  <2>4. Strength(StrongestOutcome(decisive)) \in Int
    <3> HIDE DEF decisive
    <3> QED BY <2>1, StrongestIsANumber
  <2> HIDE DEF decisive
  <2> QED BY <2>2, <2>3, <2>4, StrengthOfDecisions
<1>4. (further = {} <=> failures = {}) => Decisive(further) = Decisive(failures)
  OBVIOUS
<1> HIDE DEF Decisive
<1> QED BY <1>1, <1>3, <1>4 DEF failures, further

\* Time alone changes what is decided on the day after a last day, and then to a refusal.
LEMMA DecisionsLapse ==
  ASSUME NEW pack, WellFormedPack(pack), NEW c, NEW day \in Int
  PROVE  Decided(pack, c, day + 1)
           = IF LastDay(pack, c, day) THEN Strength("DENY") ELSE Decided(pack, c, day)
<1> DEFINE before == ReplayOutcome(pack, c, day)
           after == ReplayOutcome(pack, c, day + 1)
<1>1. CASE \E set \in pack.policies : SetsNamed(pack, c.set) = {set} /\ ~ToolsUnauthorized(pack, c)
  <2>1. PICK set \in pack.policies : SetsNamed(pack, c.set) = {set} /\ ~ToolsUnauthorized(pack, c)
    BY <1>1
  <2> DEFINE rules == MatchedRules(set, c, AuthorizedTools(pack, c))
             failures == CapabilityFailures(pack, rules, c, day)
             further == CapabilityFailures(pack, rules, c, day + 1)
             Failing(target, req, today) ==
               CapabilityFailure(ResolveCapability(pack, target, req.key), req, c, today) # None
             Lapses(target, req) ==
               /\ Scalar(c, "assurance_level") = "high"
               /\ \E f \in ResolveCapability(pack, target, req.key) : day - f.verified \in req.maxAge
  <2>2. /\ before = Evaluate(pack, set, c, day) /\ after = Evaluate(pack, set, c, day + 1)
        /\ before.status = "EVALUATED" /\ after.status = "EVALUATED"
    <3>1. before = Evaluate(pack, set, c, day) /\ after = Evaluate(pack, set, c, day + 1)
      BY <2>1, OneSetDecides
    <3>2. /\ Evaluate(pack, set, c, day).status = "EVALUATED"
          /\ Evaluate(pack, set, c, day + 1).status = "EVALUATED"
      BY <2>1, EvaluationUnfolds
    <3> QED BY <3>1, <3>2
  <2>3. \A req \in Requirements(rules) : WellFormedRequirement(req)
    <3>1. rules \subseteq set.rules
      BY DEF MatchedRules
    <3> HIDE DEF rules
    <3> QED BY <3>1, RulesAreWellFormed
  <2>4. \A target \in Targets(c), req \in Requirements(rules) :
          Failing(target, req, day + 1) <=> Lapses(target, req) \/ Failing(target, req, day)
    <3> HIDE DEF rules
    <3> QED BY <2>3, FactsLapse
  <2>5. LastDay(pack, c, day)
          <=> \E target \in Targets(c), req \in Requirements(rules) : Lapses(target, req)
    <3>1. Applicable(pack, c) = rules
      BY <2>1 DEF Applicable
    <3>2. \A target, key : ResolveCapability(pack, target, key)
                             = {f \in FactsOf(pack, target) : f.key = key}
      BY DEF ResolveCapability, FactsOf
    <3> HIDE DEF rules
    <3> QED BY <3>1, <3>2 DEF LastDay, Targets, Requirements
  <2>6. /\ failures # {}
             <=> \E target \in Targets(c), req \in Requirements(rules) : Failing(target, req, day)
        /\ further # {}
             <=> \E target \in Targets(c), req \in Requirements(rules) : Failing(target, req, day + 1)
    <3> HIDE DEF rules
    <3> QED BY DEF CapabilityFailures
  <2>7. further # {} <=> LastDay(pack, c, day) \/ failures # {}
    <3> HIDE DEF failures, further, Failing, Lapses, rules
    <3> QED BY <2>4, <2>5, <2>6
  <2>8. /\ further # {} => Strength(after.decision) = Strength("DENY")
        /\ (further = {} <=> failures = {}) => after.decision = before.decision
    <3> HIDE DEF before, after
    <3> QED BY <2>1, <2>2, FailuresDecide
  <2>9. Decided(pack, c, day) = Strength(before.decision)
        /\ Decided(pack, c, day + 1) = Strength(after.decision)
    BY <2>2 DEF Decided
  <2> HIDE DEF before, after, failures, further
  <2> QED BY <2>7, <2>8, <2>9
<1>2. CASE ~ \E set \in pack.policies : SetsNamed(pack, c.set) = {set} /\ ~ToolsUnauthorized(pack, c)
  <2>1. ASSUME NEW today PROVE ReplayOutcome(pack, c, today).status # "EVALUATED"
    <3> SUFFICES ASSUME ReplayOutcome(pack, c, today).status = "EVALUATED" PROVE FALSE
      OBVIOUS
    <3>1. PICK set \in pack.policies :
            /\ SetsNamed(pack, c.set) = {set}
            /\ ReplayOutcome(pack, c, today) = Evaluate(pack, set, c, today)
      BY OneSetIsEvaluated
    <3>2. ~ToolsUnauthorized(pack, c)
      BY <3>1, EvaluationUnfolds
    <3> QED BY <1>2, <3>1, <3>2
  <2> QED BY <2>1 DEF Decided
<1> QED BY <1>1, <1>2

\* Under whatever pack is staged, time and more reasons for caution never weaken what it
\* decides, and time tells on one day only, the day after a required fact reached its
\* maximum age.
THEOREM CautionNeverWeakens == Spec => []CautionIsMonotone
<1>1. ASSUME IInv PROVE MonotoneUnder(staged.pack)
  <2> SUFFICES ASSUME NEW s \in Suite.scenarios, NEW days \in {0, 1, 30, 31},
                      NEW c \in {s} \cup MoreCautious(staged.pack, s)
               PROVE  Decided(staged.pack, c, Suite.today + days)
                        >= Decided(staged.pack, s, Suite.today)
    BY DEF MonotoneUnder
  <2>1. WellFormedScenario(s) /\ Suite.today \in Int
    BY PackAssumption DEF WellFormedSuite
  <2>2. Suite.today + days \in Int /\ Suite.today <= Suite.today + days
    BY <2>1
  <2>3. c.set = s.set /\ AtLeastAsCautious(s, c)
    BY <2>1, MoreCautiousIsAtLeastAsCautious
  <2> QED BY <1>1, <2>1, <2>2, <2>3, StagedIsWellFormed, DecidedMonotonically
<1>2. ASSUME IInv PROVE LapsesUnder(staged.pack)
  <2>1. Suite.today \in Int
    BY PackAssumption DEF WellFormedSuite
  <2>2. \A days \in -31..31 : Suite.today + days \in Int
    BY <2>1
  <2> QED BY <1>2, <2>2, StagedIsWellFormed, DecisionsLapse DEF LapsesUnder
<1>3. IInv => CautionIsMonotone
  BY <1>1, <1>2, StagedIsWellFormed DEF CautionIsMonotone, CautiousPacks
<1> QED BY <1>3, ReleaseInvariantHolds, PTL

\* Packs whose sets, authorized tools and facts are alike treat an operation alike.
LEMMA AlikeDecideAlike ==
  ASSUME NEW pack, WellFormedPack(pack), NEW that, WellFormedPack(that),
         NEW set, NEW other, NEW c, NEW today,
         Alike(set.rules, other.rules, RulesAlike),
         Alike(AuthorizedTools(pack, c), AuthorizedTools(that, c), ToolsAlike),
         \A target \in Targets(c) :
           \A req \in Requirements(MatchedRules(set, c, AuthorizedTools(pack, c))) :
             Alike(ResolveCapability(pack, target, req.key),
                   ResolveCapability(that, target, req.key), FactsAlike)
  PROVE  ~OutcomeDiffers(Evaluate(pack, set, c, today), Evaluate(that, other, c, today))
<1> DEFINE tools == AuthorizedTools(pack, c)
           theirs == AuthorizedTools(that, c)
           rules == MatchedRules(set, c, tools)
           others == MatchedRules(other, c, theirs)
           e == Evaluate(pack, set, c, today)
           f == Evaluate(that, other, c, today)
<1>1. ToolsUnauthorized(pack, c) <=> ToolsUnauthorized(that, c)
  <2>1. ASSUME NEW s \in c.tools
        PROVE  (\E t \in pack.tools : t.name = s.name /\ s.claimed \in {None, t.risk})
                 <=> (\E t \in that.tools : t.name = s.name /\ s.claimed \in {None, t.risk})
    BY DEF AuthorizedTools, Alike, ToolsAlike
  <2> QED BY <2>1 DEF ToolsUnauthorized
<1>2. Alike(rules, others, RulesAlike)
  BY AlikeRulesMatch
<1>3. /\ UNION {r.decision : r \in rules} = UNION {r.decision : r \in others}
      /\ Requirements(rules) = Requirements(others)
  BY <1>2, AlikeRulesAsk
<1>4. CapabilityFailures(pack, rules, c, today) = CapabilityFailures(that, others, c, today)
  <2>1. ASSUME NEW target \in Targets(c), NEW req \in Requirements(rules)
        PROVE  CapabilityFailure(ResolveCapability(pack, target, req.key), req, c, today)
                 = CapabilityFailure(ResolveCapability(that, target, req.key), req, c, today)
    <3>1. \A x, y \in ResolveCapability(pack, target, req.key) : x = y
      BY OneFactResolves
    <3>2. \A x, y \in ResolveCapability(that, target, req.key) : x = y
      BY OneFactResolves
    <3> QED BY <3>1, <3>2, AlikeFactsFail
  <2> QED BY <2>1, <1>3 DEF CapabilityFailures
<1>5. /\ Unsourced(ExpandObligations(rules, c, tools))
           = Unsourced(ExpandObligations(others, c, theirs))
      /\ Unsourced(CapabilityObligations(rules)) = Unsourced(CapabilityObligations(others))
  BY <1>2, AlikeRulesOblige
<1>6. CASE ToolsUnauthorized(pack, c)
  BY <1>1, <1>6 DEF Evaluate, FailedEvaluation, OutcomeDiffers
<1>7. CASE ~ToolsUnauthorized(pack, c)
  <2> DEFINE evidence == {Obligation("REQUIRE_EVIDENCE", None, "EVIDENCE_REQUIRED", {}, {})}
  <2>1. /\ e.status = "EVALUATED" /\ f.status = "EVALUATED"
        /\ e.decision = f.decision
    BY <1>1, <1>3, <1>4, <1>7 DEF Evaluate
  <2>2. /\ e.obligations = ExpandObligations(rules, c, tools) \cup CapabilityObligations(rules)
                             \cup evidence
        /\ f.obligations = ExpandObligations(others, c, theirs) \cup CapabilityObligations(others)
                             \cup evidence
    BY <1>1, <1>7 DEF Evaluate
  <2> HIDE DEF evidence, e, f, rules, others, tools, theirs
  <2> DEFINE S == ExpandObligations(rules, c, tools)
             T == ExpandObligations(others, c, theirs)
             U == CapabilityObligations(rules)
             V == CapabilityObligations(others)
  <2> HIDE DEF S, T, U, V
  <2>3. Unsourced(S \cup U \cup evidence) = Unsourced(T \cup V \cup evidence)
    <3>1. /\ Unsourced(S \cup U \cup evidence)
               = Unsourced(S) \cup Unsourced(U) \cup Unsourced(evidence)
          /\ Unsourced(T \cup V \cup evidence)
               = Unsourced(T) \cup Unsourced(V) \cup Unsourced(evidence)
      BY DEF Unsourced
    <3>2. Unsourced(S) = Unsourced(T) /\ Unsourced(U) = Unsourced(V)
      BY <1>5 DEF S, T, U, V
    <3> QED BY <3>1, <3>2
  <2>4. Unsourced(e.obligations) = Unsourced(f.obligations)
    BY <2>2, <2>3 DEF S, T, U, V
  <2>5. WithoutControls(e) = WithoutControls(f)
    BY <2>4 DEF WithoutControls, Unsourced
  <2> QED BY <2>1, <2>5 DEF OutcomeDiffers, e, f
<1> QED BY <1>6, <1>7

(***************************************************************************)
(* Analysis: what the report announces                                     *)
(***************************************************************************)
OnlyOneNames(base, candidate, id) ==
  id \in {PolicySetId(s) : s \in base} <=> id \notin {PolicySetId(s) : s \in candidate}

\* A set of policies that one release only has.
LEMMA SetsAnnounced ==
  ASSUME NEW base, NEW candidate, NEW id, OnlyOneNames(base, candidate, id)
  PROVE  \E c \in PolicyChanges(base, candidate) :
           c.kind = "POLICY_SET" /\ c.impact = "DECISION" /\ c.id = id
<1> DEFINE of == {PolicySetId(s) : s \in base}
           now_of == {PolicySetId(s) : s \in candidate}
           removed == Change("POLICY_SET", "REMOVED", id, "DECISION", {})
           added == Change("POLICY_SET", "ADDED", id, "DECISION", {})
<1>1. CASE id \in of
  <2>1. removed \in PolicyChanges(base, candidate)
    BY <1>1 DEF OnlyOneNames, PolicyChanges, Lifecycle, NoDependents
  <2> QED BY <2>1 DEF Change
<1>2. CASE id \notin of
  <2>1. added \in PolicyChanges(base, candidate)
    BY <1>2 DEF OnlyOneNames, PolicyChanges, Lifecycle, NoDependents
  <2> QED BY <2>1 DEF Change
<1> QED BY <1>1, <1>2

LEMMA QualifiedBy ==
  ASSUME NEW a, NEW b, NEW c, NEW d
  PROVE  (<<a, b>> \o <<c, d>>)[1] = a
OBVIOUS

LEMMA FirstThree ==
  ASSUME NEW s, NEW a, NEW b, NEW c, s[1] = a, s[2] = b, s[3] = c
  PROVE  SubSeq(s, 1, 3) = <<a, b, c>>
<1> DEFINE S == {a, b, c}
           part == SubSeq(s, 1, 3)
<1>1. \A i \in 1..3 : s[i] \in S
  OBVIOUS
<1>2. /\ part \in Seq(S) /\ Len(part) = 3
      /\ \A i \in 1..3 : part[i] = s[i]
  BY <1>1, SubSeqProperties
<1>3. <<a, b, c>> \in Seq(S) /\ Len(<<a, b, c>>) = 3
  OBVIOUS
<1> HIDE DEF S, part
<1>4. \A i \in 1..3 : part[i] = <<a, b, c>>[i]
  BY <1>2
<1>5. part = <<a, b, c>>
  BY <1>2, <1>3, <1>4, SeqEqual
<1> QED BY <1>5 DEF part

LEMMA QualifiedTarget ==
  ASSUME NEW a, NEW b, NEW c, NEW d
  PROVE  /\ SubSeq(<<a, b, c>> \o <<d>>, 1, 3) = <<a, b, c>>
         /\ SubSeq(<<a, b, c>>, 1, 3) = <<a, b, c>>
<1> DEFINE s == <<a, b, c>> \o <<d>>
<1>1. s[1] = a /\ s[2] = b /\ s[3] = c
  OBVIOUS
<1> HIDE DEF s
<1>2. SubSeq(s, 1, 3) = <<a, b, c>>
  BY <1>1, FirstThree
<1>3. SubSeq(<<a, b, c>>, 1, 3) = <<a, b, c>>
  BY FirstThree
<1> QED BY <1>2, <1>3 DEF s

\* A rule of a set that both have, to which no rule of the other set is alike.
LEMMA RulesAnnounced ==
  ASSUME NEW set, NEW other, WellFormedPolicySet(set), WellFormedPolicySet(other),
         ~Alike(set.rules, other.rules, RulesAlike)
  PROVE  \E c \in OnePolicySetChanges(set, other) :
           c.kind = "POLICY_RULE" /\ c.impact = "DECISION" /\ c.id[1] = set.id
<1> DEFINE ids == {RuleId(r) : r \in set.rules}
           others == {RuleId(r) : r \in other.rules}
           Old(id) == Named(set.rules, RuleId, id)
           New(id) == Named(other.rules, RuleId, id)
<1>1. \A r \in set.rules : Old(RuleId(r)) = r
  BY DEF WellFormedPolicySet, IdentifiersClash, Named
<1>2. \A r \in other.rules : New(RuleId(r)) = r
  BY DEF WellFormedPolicySet, IdentifiersClash, Named
<1>3. ASSUME NEW id, id \in ids <=> id \notin others
      PROVE  \E c \in OnePolicySetChanges(set, other) :
               /\ c.kind = "POLICY_RULE" /\ c.impact = "DECISION"
               /\ c.id = PolicySetId(set) \o id
  <2> DEFINE removed == Change("POLICY_RULE", "REMOVED", id, "DECISION", {})
             added == Change("POLICY_RULE", "ADDED", id, "DECISION", {})
  <2>1. removed \in Lifecycle("POLICY_RULE", ids, others, NoDependents)
          \/ added \in Lifecycle("POLICY_RULE", ids, others, NoDependents)
    BY <1>3 DEF Lifecycle, NoDependents
  <2>2. PICK c \in Lifecycle("POLICY_RULE", ids, others, NoDependents) :
          c = removed \/ c = added
    BY <2>1
  <2>3. [c EXCEPT !.id = PolicySetId(set) \o @] \in OnePolicySetChanges(set, other)
    BY <2>2 DEF OnePolicySetChanges
  <2> QED BY <2>2, <2>3 DEF Change
<1>4. ASSUME NEW id \in ids \cap others, ~RulesAlike(Old(id), New(id))
      PROVE  \E c \in OnePolicySetChanges(set, other) :
               /\ c.kind = "POLICY_RULE" /\ c.impact = "DECISION"
               /\ c.id = PolicySetId(set) \o id
  <2>1. RuleId(Old(id)) = RuleId(New(id))
    <3>1. PICK r \in set.rules : RuleId(r) = id
      OBVIOUS
    <3>2. PICK q \in other.rules : RuleId(q) = id
      OBVIOUS
    <3> QED BY <1>1, <1>2, <3>1, <3>2
  <2>2. \E f \in RuleDecisionFields : Old(id)[f] # New(id)[f]
    <3> SUFFICES ASSUME \A f \in RuleDecisionFields : Old(id)[f] = New(id)[f] PROVE FALSE
      OBVIOUS
    <3>1. /\ Old(id).match = New(id).match /\ Old(id).decision = New(id).decision
          /\ Old(id).obligations = New(id).obligations
          /\ Old(id).capabilities = New(id).capabilities
      BY DEF RuleDecisionFields
    <3> QED BY <1>4, <2>1, <3>1 DEF RulesAlike
  <2> DEFINE c == Change("POLICY_RULE", "MODIFIED", PolicySetId(set) \o id,
                         PolicyRuleImpact(Old(id), New(id)), {})
  <2>3. c \in OnePolicySetChanges(set, other)
    BY <2>2 DEF OnePolicySetChanges, Differs
  <2>4. PolicyRuleImpact(Old(id), New(id)) = "DECISION"
    BY <2>2 DEF PolicyRuleImpact, Impact
  <2> QED BY <2>3, <2>4 DEF Change
<1>5. \E r \in set.rules \cup other.rules :
        \/ RuleId(r) \in ids <=> RuleId(r) \notin others
        \/ RuleId(r) \in ids \cap others /\ ~RulesAlike(Old(RuleId(r)), New(RuleId(r)))
  <2> SUFFICES ASSUME \A r \in set.rules \cup other.rules :
                        /\ RuleId(r) \in ids \cap others
                        /\ RulesAlike(Old(RuleId(r)), New(RuleId(r)))
               PROVE  FALSE
    OBVIOUS
  <2>1. ASSUME NEW r \in set.rules PROVE \E q \in other.rules : RulesAlike(r, q)
    <3>1. RuleId(r) \in others /\ RulesAlike(Old(RuleId(r)), New(RuleId(r)))
      OBVIOUS
    <3>2. PICK q \in other.rules : RuleId(q) = RuleId(r)
      BY <3>1
    <3>3. Old(RuleId(r)) = r /\ New(RuleId(r)) = q
      BY <1>1, <1>2, <3>2
    <3> QED BY <3>1, <3>3
  <2>2. ASSUME NEW q \in other.rules PROVE \E r \in set.rules : RulesAlike(r, q)
    <3>1. RuleId(q) \in ids /\ RulesAlike(Old(RuleId(q)), New(RuleId(q)))
      OBVIOUS
    <3>2. PICK r \in set.rules : RuleId(r) = RuleId(q)
      BY <3>1
    <3>3. Old(RuleId(q)) = r /\ New(RuleId(q)) = q
      BY <1>1, <1>2, <3>2
    <3> QED BY <3>1, <3>3
  <2> QED BY <2>1, <2>2 DEF Alike
<1>6. PICK r \in set.rules \cup other.rules :
        \E c \in OnePolicySetChanges(set, other) :
          /\ c.kind = "POLICY_RULE" /\ c.impact = "DECISION"
          /\ c.id = PolicySetId(set) \o RuleId(r)
  BY <1>3, <1>4, <1>5
<1> QED BY <1>6, QualifiedBy DEF PolicySetId, RuleId

\* The facts of a target and a capability that bear on decisions: not alike, they are
\* announced with the rules that require the capability of the target.
Announces(c, policies, target, key) ==
  /\ c.kind \in {"PROVIDER_TARGET", "PROVIDER_CAPABILITY"} /\ c.impact = "DECISION"
  /\ SubSeq(c.id, 1, 3) = TargetId(target)
  /\ DependentPolicyRules(policies, target, {key}) \subseteq c.dependents

LEMMA MoreKeysMoreDependents ==
  ASSUME NEW policies, NEW target, NEW keys, NEW more, keys \subseteq more
  PROVE  DependentPolicyRules(policies, target, keys)
           \subseteq DependentPolicyRules(policies, target, more)
BY DEF DependentPolicyRules

\* A target that one release only has.
LEMMA TargetsAnnounced ==
  ASSUME NEW base, NEW candidate, NEW policies, NEW rec \in base \cup candidate,
         NEW key \in Keys(rec),
         rec.target \in {r.target : r \in base} <=> rec.target \notin {r.target : r \in candidate}
  PROVE  \E c \in ProviderChanges(base, candidate, policies) :
           Announces(c, policies, rec.target, key)
<1> DEFINE of == {r.target : r \in base}
           now_of == {r.target : r \in candidate}
           target == rec.target
           Dependents(t) ==
             DependentPolicyRules(policies, t,
               UNION {Keys(r) : r \in {q \in base \cup candidate : q.target = t}})
           removed == Change("PROVIDER_TARGET", "REMOVED", target, "DECISION", Dependents(target))
           added == Change("PROVIDER_TARGET", "ADDED", target, "DECISION", Dependents(target))
           changes == Lifecycle("PROVIDER_TARGET", of, now_of, Dependents)
<1>1. removed \in changes \/ added \in changes
  BY DEF Lifecycle
<1>2. PICK c \in changes : c = removed \/ c = added
  BY <1>1
<1> DEFINE qualified == [c EXCEPT !.id = TargetId(@)]
<1>3. qualified \in ProviderChanges(base, candidate, policies)
  BY <1>2 DEF ProviderChanges
<1>4. /\ qualified.kind = "PROVIDER_TARGET" /\ qualified.impact = "DECISION"
      /\ qualified.id = TargetId(target) /\ qualified.dependents = Dependents(target)
  BY <1>2 DEF Change
<1>5. DependentPolicyRules(policies, target, {key}) \subseteq Dependents(target)
  <2>1. {key} \subseteq UNION {Keys(r) : r \in {q \in base \cup candidate : q.target = target}}
    OBVIOUS
  <2> QED BY <2>1, MoreKeysMoreDependents
<1>6. SubSeq(TargetId(target), 1, 3) = TargetId(target)
  BY QualifiedTarget DEF TargetId
<1> HIDE DEF qualified, Dependents, changes
<1> QED BY <1>3, <1>4, <1>5, <1>6 DEF Announces

\* A capability of a target that both have.
LEMMA CapabilitiesAnnounced ==
  ASSUME NEW rec, NEW other, rec.target = other.target, NEW policies, NEW key,
         ~IdentifiersClash(rec.facts, FactKey), ~IdentifiersClash(other.facts, FactKey),
         ~Alike({f \in rec.facts : f.key = key}, {f \in other.facts : f.key = key}, FactsAlike)
  PROVE  \E c \in OneProviderTargetChanges(rec, other, policies) :
           Announces(c, policies, rec.target, key)
<1> DEFINE target == rec.target
           Dependents(k) == DependentPolicyRules(policies, target, {k})
           id == TargetId(target) \o <<key>>
           old == Named(rec.facts, FactKey, key)
           new == Named(other.facts, FactKey, key)
<1>1. \A f \in rec.facts : f.key = key => f = old
  BY DEF IdentifiersClash, Named, FactKey
<1>2. \A f \in other.facts : f.key = key => f = new
  BY DEF IdentifiersClash, Named, FactKey
<1>3. SubSeq(id, 1, 3) = TargetId(target)
  BY QualifiedTarget DEF TargetId
<1>4. CASE key \in Keys(rec) <=> key \notin Keys(other)
  <2> DEFINE removed == Change("PROVIDER_CAPABILITY", "REMOVED", key, "DECISION", Dependents(key))
             added == Change("PROVIDER_CAPABILITY", "ADDED", key, "DECISION", Dependents(key))
             changes == Lifecycle("PROVIDER_CAPABILITY", Keys(rec), Keys(other), Dependents)
  <2>1. removed \in changes \/ added \in changes
    BY <1>4 DEF Lifecycle
  <2>2. PICK c \in changes : c = removed \/ c = added
    BY <2>1
  <2> DEFINE qualified == [c EXCEPT !.id = TargetId(target) \o <<@>>]
  <2>3. qualified \in OneProviderTargetChanges(rec, other, policies)
    BY <2>2 DEF OneProviderTargetChanges
  <2>4. /\ qualified.kind = "PROVIDER_CAPABILITY" /\ qualified.impact = "DECISION"
        /\ qualified.id = id /\ qualified.dependents = Dependents(key)
    BY <2>2 DEF Change
  <2> HIDE DEF qualified, id, changes
  <2> QED BY <1>3, <2>3, <2>4 DEF Announces
<1>5. CASE key \in Keys(rec) \cap Keys(other)
  <2>1. {f \in rec.facts : f.key = key} = {old} /\ {f \in other.facts : f.key = key} = {new}
    BY <1>1, <1>2, <1>5 DEF Keys
  <2>2. ~FactsAlike(old, new)
    BY <2>1 DEF Alike
  <2>3. \E f \in CapabilityDecisionFields : old[f] # new[f]
    <3> SUFFICES ASSUME \A f \in CapabilityDecisionFields : old[f] = new[f] PROVE FALSE
      OBVIOUS
    <3>1. /\ old.state = new.state /\ old.conditions = new.conditions
          /\ old.verified = new.verified
      BY DEF CapabilityDecisionFields
    <3> QED BY <2>2, <3>1 DEF FactsAlike
  <2> DEFINE c == Change("PROVIDER_CAPABILITY", "MODIFIED", id,
                         ProviderCapabilityImpact(old, new), Dependents(key))
  <2>4. c \in OneProviderTargetChanges(rec, other, policies)
    BY <1>5, <2>3 DEF OneProviderTargetChanges, Differs
  <2>5. ProviderCapabilityImpact(old, new) = "DECISION"
    BY <2>3 DEF ProviderCapabilityImpact, Impact
  <2>6. /\ c.kind = "PROVIDER_CAPABILITY" /\ c.impact = "DECISION"
        /\ c.id = id /\ c.dependents = Dependents(key)
    BY <2>5 DEF Change
  <2> HIDE DEF c, id
  <2> QED BY <1>3, <2>4, <2>6 DEF Announces
<1>6. CASE key \notin Keys(rec) \cup Keys(other)
  BY <1>6 DEF Keys, Alike
<1> QED BY <1>4, <1>5, <1>6

LEMMA FactsAnnounced ==
  ASSUME NEW base, WellFormedPack(base), NEW candidate, WellFormedPack(candidate),
         NEW policies, NEW target, NEW key,
         ~Alike(ResolveCapability(base, target, key), ResolveCapability(candidate, target, key),
                FactsAlike)
  PROVE  \E c \in ProviderChanges(base.providers, candidate.providers, policies) :
           Announces(c, policies, target, key)
<1>1. PICK rec \in base.providers \cup candidate.providers :
        rec.target = target /\ key \in Keys(rec)
  BY DEF Alike, ResolveCapability, Keys
<1>2. CASE target \in {r.target : r \in base.providers}
             <=> target \notin {r.target : r \in candidate.providers}
  BY <1>1, <1>2, TargetsAnnounced
<1>3. CASE target \in {r.target : r \in base.providers} \cap {r.target : r \in candidate.providers}
  <2>1. PICK old \in base.providers : old.target = target
    BY <1>3
  <2>2. PICK new \in candidate.providers : new.target = target
    BY <1>3
  <2>3. /\ {r \in base.providers : r.target = target} = {old}
        /\ Named(base.providers, TargetOf, target) = old
    BY <2>1, RecordOfTarget
  <2>4. /\ {r \in candidate.providers : r.target = target} = {new}
        /\ Named(candidate.providers, TargetOf, target) = new
    BY <2>2, RecordOfTarget
  <2>5. ~IdentifiersClash(old.facts, FactKey) /\ ~IdentifiersClash(new.facts, FactKey)
    BY DEF WellFormedPack, WellFormedRecord
  <2>6. /\ ResolveCapability(base, target, key) = {f \in old.facts : f.key = key}
        /\ ResolveCapability(candidate, target, key) = {f \in new.facts : f.key = key}
    BY <2>3, <2>4 DEF ResolveCapability
  <2>7. PICK c \in OneProviderTargetChanges(old, new, policies) :
          Announces(c, policies, target, key)
    BY <2>1, <2>2, <2>5, <2>6, CapabilitiesAnnounced
  <2>8. c \in ProviderChanges(base.providers, candidate.providers, policies)
    BY <1>3, <2>3, <2>4, <2>7 DEF ProviderChanges
  <2> QED BY <2>7, <2>8
<1> QED BY <1>1, <1>2, <1>3

\* The definitions of the tools of an operation, in what its rules look at.
LEMMA ToolsAnnounced ==
  ASSUME NEW base, WellFormedPack(base), NEW candidate, WellFormedPack(candidate), NEW s,
         ~Alike(AuthorizedTools(base, s), AuthorizedTools(candidate, s), ToolsAlike)
  PROVE  \E c \in ToolChanges(base, candidate) :
           /\ c.kind = "TOOL_DEFINITION" /\ c.impact = "DECISION"
           /\ \E t \in s.tools : <<t.name>> = c.id
<1> DEFINE of == {t.name : t \in base.tools}
           now_of == {t.name : t \in candidate.tools}
           Old(name) == Named(base.tools, ToolName, name)
           New(name) == Named(candidate.tools, ToolName, name)
<1>1. \A t \in base.tools : Old(t.name) = t
  BY DEF WellFormedPack, WellFormedCatalog, IdentifiersClash, Named, ToolName
<1>2. \A t \in candidate.tools : New(t.name) = t
  BY DEF WellFormedPack, WellFormedCatalog, IdentifiersClash, Named, ToolName
<1>3. PICK asked \in s.tools :
        \/ asked.name \in of <=> asked.name \notin now_of
        \/ asked.name \in of \cap now_of /\ ~ToolsAlike(Old(asked.name), New(asked.name))
  <2> SUFFICES ASSUME \A q \in s.tools :
                        \/ q.name \notin of /\ q.name \notin now_of
                        \/ /\ q.name \in of \cap now_of
                           /\ ToolsAlike(Old(q.name), New(q.name))
               PROVE  FALSE
    OBVIOUS
  <2>1. ASSUME NEW t \in AuthorizedTools(base, s)
        PROVE  \E u \in AuthorizedTools(candidate, s) : ToolsAlike(t, u)
    <3>1. PICK q \in s.tools : q.name = t.name /\ t \in base.tools
      BY DEF AuthorizedTools
    <3>2. q.name \in now_of /\ ToolsAlike(Old(q.name), New(q.name))
      BY <3>1
    <3>3. PICK u \in candidate.tools : u.name = q.name
      BY <3>2
    <3>4. u \in AuthorizedTools(candidate, s)
      BY <3>3 DEF AuthorizedTools
    <3> QED BY <1>1, <1>2, <3>1, <3>2, <3>3, <3>4
  <2>2. ASSUME NEW u \in AuthorizedTools(candidate, s)
        PROVE  \E t \in AuthorizedTools(base, s) : ToolsAlike(t, u)
    <3>1. PICK q \in s.tools : q.name = u.name /\ u \in candidate.tools
      BY DEF AuthorizedTools
    <3>2. q.name \in of /\ ToolsAlike(Old(q.name), New(q.name))
      BY <3>1
    <3>3. PICK t \in base.tools : t.name = q.name
      BY <3>2
    <3>4. t \in AuthorizedTools(base, s)
      BY <3>3 DEF AuthorizedTools
    <3> QED BY <1>1, <1>2, <3>1, <3>2, <3>3, <3>4
  <2> QED BY <2>1, <2>2 DEF Alike
<1> DEFINE name == asked.name
<1>4. CASE name \in of <=> name \notin now_of
  <2> DEFINE removed == Change("TOOL_DEFINITION", "REMOVED", name, "DECISION", {})
             added == Change("TOOL_DEFINITION", "ADDED", name, "DECISION", {})
             changes == Lifecycle("TOOL_DEFINITION", of, now_of, NoDependents)
  <2>1. removed \in changes \/ added \in changes
    BY <1>4 DEF Lifecycle, NoDependents
  <2>2. PICK c \in changes : c = removed \/ c = added
    BY <2>1
  <2> DEFINE qualified == [c EXCEPT !.id = <<@>>]
  <2>3. qualified \in ToolChanges(base, candidate)
    BY <2>2 DEF ToolChanges
  <2>4. /\ qualified.kind = "TOOL_DEFINITION" /\ qualified.impact = "DECISION"
        /\ qualified.id = <<name>>
    BY <2>2 DEF Change
  <2> HIDE DEF qualified, changes
  <2> QED BY <2>3, <2>4
<1>5. CASE name \in of \cap now_of /\ ~ToolsAlike(Old(name), New(name))
  <2>1. Old(name).name = New(name).name
    <3>1. PICK t \in base.tools : t.name = name
      BY <1>5
    <3>2. PICK u \in candidate.tools : u.name = name
      BY <1>5
    <3> QED BY <1>1, <1>2, <3>1, <3>2
  <2>2. Old(name).risk # New(name).risk
    BY <1>5, <2>1 DEF ToolsAlike
  <2> DEFINE fields == {"description", "risk", "schema", "definition"}
             c == Change("TOOL_DEFINITION", "MODIFIED", <<name>>, "DECISION", {})
  <2>3. Differs(Old(name), New(name), fields)
    BY <2>2 DEF Differs
  <2>4. c \in ToolChanges(base, candidate)
    BY <1>5, <2>3 DEF ToolChanges
  <2> QED BY <2>4 DEF Change
<1> QED BY <1>3, <1>4, <1>5

(***************************************************************************)
(* Analysis: differences are announced                                     *)
(***************************************************************************)
\* A scenario whose outcome differs, as DifferingOutcomes describes it.
Outcome(base, candidate, s) ==
  [candidate |-> candidate.digest, scenario |-> s,
   matched |-> MatchedIn(base, s) \cup MatchedIn(candidate, s)]
Announced(base, candidate, s) ==
  \E c \in Diff(base, candidate) :
    c.impact = "DECISION" /\ Explains(c, Outcome(base, candidate, s))

\* A policy set that a scenario names, but for the rules in it.
LEMMA SetsOfScenario ==
  ASSUME NEW base, NEW candidate, NEW s,
         NEW id, OnlyOneNames(base.policies, candidate.policies, id), id[1] = s.set
  PROVE  Announced(base, candidate, s)
<1>1. PICK c \in PolicyChanges(base.policies, candidate.policies) :
        c.kind = "POLICY_SET" /\ c.impact = "DECISION" /\ c.id = id
  BY SetsAnnounced
<1>2. Explains(c, Outcome(base, candidate, s))
  BY <1>1 DEF Explains, Outcome
<1> QED BY <1>1, <1>2 DEF Announced, Diff

\* The rules of a policy set that a scenario names.
LEMMA RulesOfScenario ==
  ASSUME NEW base, WellFormedPack(base), NEW candidate, WellFormedPack(candidate), NEW s,
         NEW old \in base.policies, NEW new \in candidate.policies,
         PolicySetId(old) = PolicySetId(new), old.id = s.set,
         ~Alike(old.rules, new.rules, RulesAlike)
  PROVE  Announced(base, candidate, s)
<1>1. /\ WellFormedPolicySet(old) /\ WellFormedPolicySet(new)
      /\ Named(base.policies, PolicySetId, PolicySetId(old)) = old
      /\ Named(candidate.policies, PolicySetId, PolicySetId(old)) = new
  BY DEF WellFormedPack, IdentifiersClash, Named
<1>2. PICK c \in OnePolicySetChanges(old, new) :
        c.kind = "POLICY_RULE" /\ c.impact = "DECISION" /\ c.id[1] = old.id
  BY <1>1, RulesAnnounced
<1>3. PolicySetId(old) \in {PolicySetId(p) : p \in base.policies}
                           \cap {PolicySetId(p) : p \in candidate.policies}
  OBVIOUS
<1>4. c \in PolicyChanges(base.policies, candidate.policies)
  BY <1>1, <1>2, <1>3 DEF PolicyChanges
<1>5. Explains(c, Outcome(base, candidate, s))
  BY <1>2 DEF Explains, Outcome
<1> QED BY <1>2, <1>4, <1>5 DEF Announced, Diff

LEMMA ToolsOfScenario ==
  ASSUME NEW base, WellFormedPack(base), NEW candidate, WellFormedPack(candidate), NEW s,
         ~Alike(AuthorizedTools(base, s), AuthorizedTools(candidate, s), ToolsAlike)
  PROVE  Announced(base, candidate, s)
<1>1. PICK c \in ToolChanges(base, candidate) :
        /\ c.kind = "TOOL_DEFINITION" /\ c.impact = "DECISION"
        /\ \E t \in s.tools : <<t.name>> = c.id
  BY ToolsAnnounced
<1>2. Explains(c, Outcome(base, candidate, s))
  BY <1>1 DEF Explains, Outcome
<1> QED BY <1>1, <1>2 DEF Announced, Diff

\* The facts that a rule which applies requires of the provider or of a fallback.
LEMMA FactsOfScenario ==
  ASSUME NEW base, WellFormedPack(base), NEW candidate, WellFormedPack(candidate), NEW s,
         NEW set, SetsNamed(base, s.set) = {set}, NEW target \in Targets(s),
         NEW req \in Requirements(MatchedRules(set, s, AuthorizedTools(base, s))),
         ~Alike(ResolveCapability(base, target, req.key),
                ResolveCapability(candidate, target, req.key), FactsAlike)
  PROVE  Announced(base, candidate, s)
<1> DEFINE policies == base.policies \cup candidate.policies
           d == Outcome(base, candidate, s)
<1>1. PICK c \in ProviderChanges(base.providers, candidate.providers, policies) :
        Announces(c, policies, target, req.key)
  BY FactsAnnounced
<1>2. PICK r \in MatchedRules(set, s, AuthorizedTools(base, s)) : req \in r.capabilities
  BY DEF Requirements
<1> DEFINE rule == PolicySetId(set) \o RuleId(r)
<1>3. rule \in d.matched
  BY <1>2 DEF Outcome, MatchedIn
<1>4. CASE target = s.provider
  <2>1. RuleCanMatchTarget(r, target)
    BY <1>2, <1>4 DEF MatchedRules, Matches, Scalar, RuleCanMatchTarget
  <2>2. set \in policies /\ r \in set.rules
    BY <1>2 DEF SetsNamed, MatchedRules
  <2>3. rule \in DependentPolicyRules(policies, target, {req.key})
    BY <1>2, <2>1, <2>2 DEF DependentPolicyRules
  <2>4. rule \in c.dependents
    BY <1>1, <2>3 DEF Announces
  <2> HIDE DEF rule, policies
  <2>5. d.matched \cap c.dependents # {}
    BY <1>3, <2>4
  <2>6. d.scenario.provider = target
    BY <1>4 DEF Outcome
  <2> HIDE DEF d
  <2>7. Explains(c, d)
    BY <1>1, <2>5, <2>6 DEF Explains, Announces
  <2> QED BY <1>1, <2>7 DEF Announced, Announces, Diff, d, policies
<1>5. CASE target \in s.fallbacks
  <2>1. target \in d.scenario.fallbacks
    BY <1>5 DEF Outcome
  <2> HIDE DEF d, policies
  <2>2. Explains(c, d)
    BY <1>1, <2>1 DEF Explains, Announces
  <2> QED BY <1>1, <2>2 DEF Announced, Announces, Diff, d, policies
<1> QED BY <1>4, <1>5 DEF Targets

LEMMA DifferencesAnnounced ==
  ASSUME NEW base, WellFormedPack(base), ~IdentifiersClash(base.policies, LogicalId),
         NEW candidate, WellFormedPack(candidate),
         ~IdentifiersClash(candidate.policies, LogicalId), NEW s, NEW today,
         OutcomeDiffers(ReplayOutcome(base, s, today), ReplayOutcome(candidate, s, today))
  PROVE  Announced(base, candidate, s)
<1>1. \A p \in base.policies : SetsNamed(base, p.id) = {p}
  BY PolicySetOfName
<1>2. \A p \in candidate.policies : SetsNamed(candidate, p.id) = {p}
  BY PolicySetOfName
<1>3. \A p : PolicySetId(p)[1] = p.id
  BY DEF PolicySetId
<1>4. CASE SetsNamed(base, s.set) = {} /\ SetsNamed(candidate, s.set) = {}
  BY <1>4 DEF ReplayOutcome, OutcomeDiffers, FailedEvaluation
<1>5. CASE \E old \in base.policies : old.id = s.set /\ SetsNamed(candidate, s.set) = {}
  <2>1. PICK old \in base.policies : old.id = s.set /\ SetsNamed(candidate, s.set) = {}
    BY <1>5
  <2>2. PolicySetId(old) \notin {PolicySetId(p) : p \in candidate.policies}
    BY <1>3, <2>1 DEF SetsNamed
  <2> QED BY <1>3, <2>1, <2>2, SetsOfScenario DEF OnlyOneNames
<1>6. CASE \E new \in candidate.policies : new.id = s.set /\ SetsNamed(base, s.set) = {}
  <2>1. PICK new \in candidate.policies : new.id = s.set /\ SetsNamed(base, s.set) = {}
    BY <1>6
  <2>2. PolicySetId(new) \notin {PolicySetId(p) : p \in base.policies}
    BY <1>3, <2>1 DEF SetsNamed
  <2> QED BY <1>3, <2>1, <2>2, SetsOfScenario DEF OnlyOneNames
<1>7. ASSUME NEW old \in base.policies, NEW new \in candidate.policies,
             old.id = s.set, new.id = s.set
      PROVE  Announced(base, candidate, s)
  <2>1. SetsNamed(base, s.set) = {old} /\ SetsNamed(candidate, s.set) = {new}
    BY <1>1, <1>2, <1>7
  <2>2. CASE PolicySetId(old) # PolicySetId(new)
    <3>1. PolicySetId(old) \notin {PolicySetId(p) : p \in candidate.policies}
      BY <1>3, <1>7, <2>1, <2>2 DEF SetsNamed
    <3> QED BY <1>3, <1>7, <3>1, SetsOfScenario DEF OnlyOneNames
  <2>3. CASE PolicySetId(old) = PolicySetId(new) /\ ~Alike(old.rules, new.rules, RulesAlike)
    BY <1>7, <2>3, RulesOfScenario
  <2>4. CASE ~Alike(AuthorizedTools(base, s), AuthorizedTools(candidate, s), ToolsAlike)
    BY <2>4, ToolsOfScenario
  <2>5. CASE /\ Alike(old.rules, new.rules, RulesAlike)
             /\ Alike(AuthorizedTools(base, s), AuthorizedTools(candidate, s), ToolsAlike)
    <3>1. OutcomeDiffers(Evaluate(base, old, s, today), Evaluate(candidate, new, s, today))
      BY <2>1, OneSetDecides
    <3>2. PICK target \in Targets(s) :
            \E req \in Requirements(MatchedRules(old, s, AuthorizedTools(base, s))) :
              ~Alike(ResolveCapability(base, target, req.key),
                     ResolveCapability(candidate, target, req.key), FactsAlike)
      BY <2>5, <3>1, AlikeDecideAlike
    <3>3. PICK req \in Requirements(MatchedRules(old, s, AuthorizedTools(base, s))) :
            ~Alike(ResolveCapability(base, target, req.key),
                   ResolveCapability(candidate, target, req.key), FactsAlike)
      BY <3>2
    <3> QED BY <2>1, <3>3, FactsOfScenario
  <2> QED BY <2>2, <2>3, <2>4, <2>5
<1> QED BY <1>4, <1>5, <1>6, <1>7 DEF SetsNamed

\* A scenario that a candidate decides or treats otherwise than the base is announced, in the
\* report of every bundle for the candidate, by a change of DECISION impact that bears on it:
\* of its policy set or a rule of it, of one of its tools, of a fallback, or of what a rule
\* that applies requires of its provider.
THEOREM DecisionsAreExplained == Spec => []DecisionChangesExplained
<1>1. IInv => DecisionChangesExplained
  <2> SUFFICES ASSUME IInv, NEW b \in bundle, NEW d \in DifferingOutcomes,
                      d.candidate = b.candidate
               PROVE  \E c \in b.changes : c.impact = "DECISION" /\ Explains(c, d)
    BY DEF DecisionChangesExplained
  <2>1. BundleIsEvidenced(b)
    BY DEF IInv, BundlesAreEvidenced
  <2>2. PICK p \in Candidates :
          /\ b.candidate = p.digest
          /\ \E report \in Reports(Base, p, Suite) : b = Bundle(Base, p, report, b.evidence)
    BY <2>1 DEF BundleIsEvidenced
  <2>3. PICK report \in Reports(Base, p, Suite) : b = Bundle(Base, p, report, b.evidence)
    BY <2>2
  <2>4. /\ b.changes = Diff(Base, p)
        /\ \A pack \in {Base, p} : ~IdentifiersClash(pack.policies, LogicalId)
    BY <2>3 DEF Reports, Bundle
  <2>5. PICK q \in Candidates :
          \E s \in Suite.scenarios :
            /\ OutcomeDiffers(ReplayOutcome(Base, s, Suite.today), ReplayOutcome(q, s, Suite.today))
            /\ d = Outcome(Base, q, s)
    BY DEF DifferingOutcomes, Outcome
  <2>6. PICK s \in Suite.scenarios :
          /\ OutcomeDiffers(ReplayOutcome(Base, s, Suite.today), ReplayOutcome(q, s, Suite.today))
          /\ d = Outcome(Base, q, s)
    BY <2>5
  <2>7. p = q
    <3>1. d.candidate = q.digest
      BY <2>6 DEF Outcome
    <3> QED BY <2>2, <3>1, PackAssumption
  <2>8. WellFormedPack(Base) /\ WellFormedPack(p)
    BY PackAssumption
  <2>9. Announced(Base, p, s)
    BY <2>4, <2>6, <2>7, <2>8, DifferencesAnnounced
  <2> QED BY <2>4, <2>6, <2>7, <2>9 DEF Announced
<1> QED BY <1>1, ReleaseInvariantHolds, PTL
=============================================================================
