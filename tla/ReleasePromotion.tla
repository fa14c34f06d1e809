-------------------------- MODULE ReleasePromotion --------------------------
(***************************************************************************)
(* The release of a control pack, from a staged candidate to an authorized *)
(* promotion.  The program is a set of offline tools over files: authors   *)
(* stage and sign candidates, reviewers write reviews and sign             *)
(* attestations for what is staged at that time, evidence is assembled     *)
(* over whatever files are there, promoters sign for a bundle they were    *)
(* given, and a promotion is evaluated for a chosen instant.  Nothing      *)
(* orders these steps but what the tools check, and keys are withdrawn     *)
(* (retired or revoked, which active_at treats alike) in between.          *)
(***************************************************************************)
EXTENDS ReleaseEvidence

CONSTANTS
  Base,           \* the approved pack
  Candidates,     \* the packs authors may stage
  Revisions,      \* those that may replace a staged one
  Suite,          \* the scenario suite
  ReviewFiles,    \* the detailed reviews reviewers may write
  PackKeys,       \* trust store of pack signatures: key id -> validity
  ReviewKeys,     \* trust store of review attestations: key id -> validity and authority
  PromotionKeys,  \* trust store of promotion attestations: key id -> validity and roles
  Policies,       \* promotion policies: required roles and minimum number of approvals
  Lifetime,       \* how long a promotion attestation is valid
  MaxEdits,       \* bound on restaging
  MaxWithdrawals, \* bound on the keys withdrawn
  MaxAttestations,\* bound on the review attestations on file
  MaxPromotions,  \* bound on the promotion attestations on file
  MaxTime         \* bound on the clock

Time == 0..MaxTime
Keyring == DOMAIN PackKeys \cup DOMAIN ReviewKeys \cup DOMAIN PromotionKeys

ASSUME PackAssumption ==
  /\ WellFormedPack(Base) /\ \A p \in Candidates : WellFormedPack(p)
  /\ \A p, q \in Candidates \cup {Base} : p.digest = q.digest => p = q
  /\ Revisions \subseteq Candidates
  /\ WellFormedSuite(Suite)
ASSUME ReviewAssumption ==
  \A r \in ReviewFiles :
    CASE r.kind = "POLICY_SET"      -> WellFormedPolicyReview(r)
      [] r.kind = "PROVIDER_TARGET" -> WellFormedProviderReview(r)
      [] r.kind = "TOOL_CATALOG"    -> WellFormedToolReview(r)
ASSUME KeyAssumption ==
  /\ \A keys \in {PackKeys, ReviewKeys, PromotionKeys} :
       \A k \in DOMAIN keys : WellFormedKey(keys[k])
  /\ \A k \in DOMAIN ReviewKeys :
       /\ LET key == ReviewKeys[k] IN {} \notin {key.roles, key.kinds, key.types}
       /\ ReviewKeys[k] \in [status : KeyStatus, from : Int, until : SUBSET Int,
                             roles : SUBSET STRING, kinds : SUBSET ArtifactKind,
                             types : SUBSET {"ADDED", "REMOVED", "MODIFIED"}]
  /\ \A k \in DOMAIN PromotionKeys :
       /\ PromotionKeys[k].roles # {}
       /\ PromotionKeys[k] \in [status : KeyStatus, from : Int, until : SUBSET Int,
                                roles : SUBSET STRING]
\* The schema of a policy: a quorum able to cover its required roles.
ASSUME PolicyAssumption ==
  \A p \in Policies :
    /\ p.roles # {} /\ IsFiniteSet(p.roles)
    /\ p.minimum \in Nat /\ p.minimum >= Cardinality(p.roles)
ASSUME LifetimeAssumption == Lifetime \in Nat \ {0}

VARIABLES
  staged,       \* the candidate's files and whether the manifest is signed over them
  reviews,      \* detailed reviews on file, at most one per subject
  attestations, \* review attestations on file, at most one per subject
  bundle,       \* the evidence bundle last written, as a set of at most one
  promotions,   \* promotion attestations on file
  authorized,   \* the authorization last printed, as a set of at most one
  withdrawn,    \* keys retired or revoked
  edits,        \* candidates restaged so far
  now

vars == <<staged, reviews, attestations, bundle, promotions, authorized, withdrawn,
          edits, now>>

\* A trust store as a tool reads it now.
AsOfNow(keys) ==
  [k \in DOMAIN keys |->
     IF k \in withdrawn THEN [keys[k] EXCEPT !.status = "RETIRED"] ELSE keys[k]]

PackVerifies(pack, signed) ==
  /\ signed
  /\ pack.key \in DOMAIN PackKeys
  /\ ActiveAt(AsOfNow(PackKeys)[pack.key], now)

Init ==
  /\ staged \in [pack : Candidates, signed : {TRUE}]
  /\ reviews = {} /\ attestations = {} /\ bundle = {} /\ promotions = {}
  /\ authorized = {} /\ withdrawn = {} /\ edits = 0 /\ now = 0

(***************************************************************************)
(* Authors and key holders                                                 *)
(***************************************************************************)
Stage(pack) ==
  /\ edits < MaxEdits /\ pack # staged.pack
  /\ staged' = [pack |-> pack, signed |-> FALSE]
  /\ edits' = edits + 1
  /\ UNCHANGED <<reviews, attestations, bundle, promotions, authorized, withdrawn, now>>

\* The signature is verified before the manifest is replaced.
SignPack ==
  /\ ~ staged.signed /\ PackVerifies(staged.pack, TRUE)
  /\ staged' = [staged EXCEPT !.signed = TRUE]
  /\ UNCHANGED <<reviews, attestations, bundle, promotions, authorized, withdrawn, edits,
                 now>>

Withdraw(key) ==
  /\ key \notin withdrawn /\ Cardinality(withdrawn) < MaxWithdrawals
  /\ withdrawn' = withdrawn \cup {key}
  /\ UNCHANGED <<staged, reviews, attestations, bundle, promotions, authorized, edits, now>>

(***************************************************************************)
(* Reviewers write about, and sign for, what is staged                     *)
(***************************************************************************)
WriteReview(review) ==
  /\ ~ DetailedReviewRejected(Base, staged.pack, review)
  /\ review \notin reviews
  /\ reviews' = {r \in reviews : r.kind # review.kind \/ r.subject # review.subject}
                  \cup {review}
  /\ UNCHANGED <<staged, attestations, bundle, promotions, authorized, withdrawn, edits,
                 now>>

AttestReview(change, key, role, approves) ==
  LET detail == IF change.type = "MODIFIED" THEN DetailOf(change, reviews) ELSE {}
      a == [attestation |-> <<change.kind, change.id>>, kind |-> change.kind,
            id |-> change.id, type |-> change.type,
            base |-> Base.digest, candidate |-> staged.pack.digest,
            content |-> ReviewedContent(Base, staged.pack, change),
            review |-> detail, role |-> role, approves |-> approves, at |-> now,
            key |-> key]
      others == {b \in attestations : SubjectOf(b) # SubjectOf(a)}
  IN /\ WellFormedAttestation(a)
     /\ Cardinality(others) < MaxAttestations
     /\ attestations' = others \cup {a}
     /\ UNCHANGED <<staged, reviews, bundle, promotions, authorized, withdrawn, edits, now>>

(***************************************************************************)
(* The two tools.  A tool that refuses its input writes nothing.           *)
(***************************************************************************)
\* The reports are a function of the packs and the suite.
CandidateReports ==
  UNION {{[candidate |-> p.digest, report |-> report] : report \in Reports(Base, p, Suite)} :
         p \in Candidates}

Assemble ==
  /\ PackVerifies(Base, TRUE) /\ PackVerifies(staged.pack, staged.signed)
  /\ ~ EvidenceRejected(Base, staged.pack, reviews, attestations, AsOfNow(ReviewKeys))
  /\ \E r \in CandidateReports :
       /\ r.candidate = staged.pack.digest
       /\ bundle' = {Bundle(Base, staged.pack, r.report, attestations)}
  /\ UNCHANGED <<staged, reviews, attestations, promotions, authorized, withdrawn, edits,
                 now>>

\* A promoter decides on the bundle at hand.
AttestPromotion(key, role, approves, policy) ==
  \E b \in bundle :
    LET a == [id |-> Cardinality(promotions) + 1, bundle |-> b, candidate |-> b.candidate,
              policy |-> policy, approves |-> approves, role |-> role, key |-> key,
              issued |-> now, expires |-> now + Lifetime]
    IN /\ a.id <= MaxPromotions
       /\ promotions' = promotions \cup {a}
       /\ UNCHANGED <<staged, reviews, attestations, bundle, authorized, withdrawn, edits,
                      now>>

PromotionVerifies(a, keys) ==
  /\ a.key \in DOMAIN keys
  /\ ActiveAt(keys[a.key], a.issued)
  /\ a.role \in keys[a.key].roles

Binds(a, b, policy) ==
  /\ a.bundle = b
  /\ a.candidate = b.candidate
  /\ a.policy = policy
  /\ a.role \in policy.roles

\* Faulty variant: one key may sign for several roles.
PromotionRejectedById(b, policy, supplied) ==
  \/ ~ Complete(b)
  \/ \E a \in supplied :
       ~ PromotionVerifies(a, AsOfNow(PromotionKeys)) \/ ~ Binds(a, b, policy)
  \/ \E a, c \in supplied : a # c /\ a.id = c.id

PromotionRejected(b, policy, supplied) ==
  \/ ~ Complete(b)
  \/ \E a \in supplied :
       ~ PromotionVerifies(a, AsOfNow(PromotionKeys)) \/ ~ Binds(a, b, policy)
  \/ \E a, c \in supplied : a # c /\ (a.id = c.id \/ a.key = c.key)

Standing(supplied, at) == {a \in supplied : a.issued <= at /\ at < a.expires}
Approving(supplied, at) == {a \in Standing(supplied, at) : a.approves}

PromotionFindings(policy, supplied, at) ==
  LET approving == Approving(supplied, at)
  IN {<<"ATTESTATION_NOT_VALID", a.id>> : a \in supplied \ Standing(supplied, at)} \cup
     {<<"ACTIVE_REJECTION", a.id>> : a \in Standing(supplied, at) \ approving} \cup
     {<<"REQUIRED_ROLE_MISSING", role>> :
        role \in policy.roles \ {a.role : a \in approving}} \cup
     (IF Cardinality(approving) < policy.minimum
      THEN {<<"APPROVAL_QUORUM_NOT_MET", policy.minimum>>} ELSE {})

Authorize(policy, supplied, at) ==
  \E b \in bundle :
    /\ ~ PromotionRejected(b, policy, supplied)
    /\ PromotionFindings(policy, supplied, at) = {}
    /\ authorized' = {[bundle |-> b, policy |-> policy, attestations |-> supplied,
                       at |-> at]}
    /\ UNCHANGED <<staged, reviews, attestations, bundle, promotions, withdrawn, edits,
                   now>>

Tick ==
  /\ now < MaxTime
  /\ now' = now + 1
  /\ UNCHANGED <<staged, reviews, attestations, bundle, promotions, authorized, withdrawn,
                 edits>>

ReviewRoles    == UNION {ReviewKeys[k].roles : k \in DOMAIN ReviewKeys}
PromotionRoles == UNION {PromotionKeys[k].roles : k \in DOMAIN PromotionKeys}

Next ==
  \/ \E pack \in Revisions : Stage(pack)
  \/ SignPack
  \/ \E key \in Keyring : Withdraw(key)
  \/ \E review \in ReviewFiles : WriteReview(review)
  \/ \E change \in ArtifactChanges(Base, staged.pack), key \in DOMAIN ReviewKeys,
        role \in ReviewRoles, approves \in BOOLEAN :
       AttestReview(change, key, role, approves)
  \/ Assemble
  \/ \E key \in DOMAIN PromotionKeys, role \in PromotionRoles, approves \in BOOLEAN,
        policy \in Policies : AttestPromotion(key, role, approves, policy)
  \/ \E policy \in Policies, supplied \in SUBSET promotions, at \in Time :
       Authorize(policy, supplied, at)
  \/ Tick

Spec == Init /\ [][Next]_vars
==============================================================================
