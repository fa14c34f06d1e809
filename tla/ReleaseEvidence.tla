--------------------------- MODULE ReleaseEvidence ---------------------------
(***************************************************************************)
(* The evidence for the release of a candidate pack over an approved base: *)
(* scripts/assemble_release_evidence.py and the application service it     *)
(* calls.  Signed review attestations are authenticated against the        *)
(* detailed reviews they bind, and every changed artifact must have one    *)
(* that approves it.                                                       *)
(*                                                                         *)
(* A subject is an artifact of a pack: [kind, id], the id a sequence of    *)
(* names.  Trust keys are records of a trust store as it stands when it is *)
(* read.                                                                   *)
(***************************************************************************)
EXTENDS UpdateReviews, TrustKeys

ArtifactKind == {"POLICY_SET", "PROVIDER_TARGET", "TOOL_CATALOG"}
TheCatalog   == <<"trusted-tool-catalog">>

(***************************************************************************)
(* Artifacts and what changed                                              *)
(***************************************************************************)
SubjectIds(pack, kind) ==
  CASE kind = "POLICY_SET"      -> {<<s.id>> : s \in pack.policies}
    [] kind = "PROVIDER_TARGET" -> {TargetId(rec.target) : rec \in pack.providers}
    [] kind = "TOOL_CATALOG"    -> {TheCatalog}

SetSubject(s)   == <<s.id>>
RecordSubject(r) == TargetId(r.target)
Catalog(pack) == [catalog |-> pack.catalog, tools |-> pack.tools]

\* The content of an artifact, which stands for the digest of its file.
Content(pack, kind, id) ==
  CASE kind = "POLICY_SET"      -> Named(pack.policies, SetSubject, id)
    [] kind = "PROVIDER_TARGET" -> Named(pack.providers, RecordSubject, id)
    [] kind = "TOOL_CATALOG"    -> Catalog(pack)

ArtifactChanges(base, candidate) ==
  UNION {LET old == SubjectIds(base, kind)
             new == SubjectIds(candidate, kind)
             Changed(type, ids) == {[kind |-> kind, id |-> id, type |-> type] : id \in ids}
         IN Changed("REMOVED", old \ new) \cup Changed("ADDED", new \ old)
            \cup Changed("MODIFIED", {id \in old \cap new :
                                        Content(base, kind, id) # Content(candidate, kind, id)}) :
         kind \in ArtifactKind}

\* A removal is reviewed on what the base held, other changes on the candidate.
ReviewedContent(base, candidate, change) ==
  Content(IF change.type = "REMOVED" THEN base ELSE candidate, change.kind, change.id)

(***************************************************************************)
(* Detailed reviews of the three kinds                                     *)
(***************************************************************************)
DetailedReviewRejected(base, candidate, review) ==
  \/ review.subject \notin SubjectIds(candidate, review.kind)
  \/ LET draft == Content(candidate, review.kind, review.subject)
     IN CASE review.kind = "POLICY_SET"      -> PolicyReviewRejected(base, draft, review)
          [] review.kind = "PROVIDER_TARGET" -> ProviderReviewRejected(base, draft, review)
          [] review.kind = "TOOL_CATALOG"    -> ToolReviewRejected(base, draft, review)

DetailedReviewFindings(base, review) ==
  CASE review.kind = "POLICY_SET"      -> PolicyReviewFindings(base, review.content, review)
    [] review.kind = "PROVIDER_TARGET" -> ProviderReviewFindings(base, review.content, review)
    [] review.kind = "TOOL_CATALOG"    -> ToolReviewFindings(base, review.content, review)

(***************************************************************************)
(* Attestations                                                            *)
(***************************************************************************)

\* A modification binds a detailed review, an addition or removal does not.
\* The digest of the review stands beside its id: a record is its digest.
WellFormedAttestation(a) == (a.review = {}) # (a.type = "MODIFIED")

AttestationVerifies(a, keys) ==
  /\ WellFormedAttestation(a)
  /\ a.key \in DOMAIN keys
  /\ ActiveAt(keys[a.key], a.at)
  /\ a.role \in keys[a.key].roles
  /\ a.kind \in keys[a.key].kinds
  /\ a.type \in keys[a.key].types

SubjectOf(x) == [kind |-> x.kind, id |-> x.id]

\* The detailed review of the subject of an attestation, if one was supplied.
DetailOf(a, reviews) == {r \in reviews : r.kind = a.kind /\ r.subject = a.id}

\* Faulty variant: an approval is not held against the findings of its review.
AttestationMismatchUnlessBound(base, candidate, reviews, a) ==
  \/ a.base # base.digest
  \/ a.candidate # candidate.digest
  \/ a.type = "MODIFIED" /\ DetailOf(a, reviews) # a.review

AttestationMismatch(base, candidate, reviews, a) ==
  \/ a.base # base.digest
  \/ a.candidate # candidate.digest
  \/ /\ a.type = "MODIFIED"
     /\ \/ DetailOf(a, reviews) # a.review
        \/ \E r \in a.review :
             \/ a.role # r.role
             \/ a.content # r.content
             \/ a.approves /\ DetailedReviewFindings(base, r) # {}

\* The evidence of an attestation against the changes of the release pair.
EvidenceMismatch(base, candidate, a) ==
  \/ ~ \E change \in ArtifactChanges(base, candidate) :
         SubjectOf(change) = SubjectOf(a) /\ change.type = a.type
  \/ a.content # ReviewedContent(base, candidate, a)

\* The two reports of a release pair, or none if a pack cannot be analysed.
Reports(base, candidate, suite) ==
  IF \/ DiffRejects(base, candidate)
     \/ ReplayRejects(base, candidate, suite)
     \/ \E pack \in {base, candidate} : IdentifiersClash(pack.policies, LogicalId)
  THEN {}
  ELSE {[changes |-> Diff(base, candidate), replay |-> Replay(base, candidate, suite)]}

EvidenceRejected(base, candidate, reviews, attestations, keys) ==
  \/ \E r \in reviews : DetailedReviewRejected(base, candidate, r)
  \/ \E r, s \in reviews : r # s /\ r.kind = s.kind /\ r.subject = s.subject
  \/ \E a \in attestations :
       \/ ~ AttestationVerifies(a, keys)
       \/ AttestationMismatch(base, candidate, reviews, a)
       \/ EvidenceMismatch(base, candidate, a)
  \/ \E a, b \in attestations :
       a # b /\ (SubjectOf(a) = SubjectOf(b) \/ a.attestation = b.attestation)

EvidenceFindings(base, candidate, attestations) ==
  LET On(change) == {a \in attestations : SubjectOf(a) = SubjectOf(change)}
      changes == ArtifactChanges(base, candidate)
  IN {<<"REVIEW_MISSING", SubjectOf(c), c.type>> : c \in {d \in changes : On(d) = {}}} \cup
     {<<"REVIEW_BLOCKED", SubjectOf(c), c.type>> :
        c \in {d \in changes : \E a \in On(d) : ~ a.approves}}

\* The bundle; its digest is the bundle, the signed detail of the review
\* evidence included.
Bundle(base, candidate, report, attestations) ==
  [base      |-> base.digest,
   candidate |-> candidate.digest,
   changes   |-> report.changes,
   replay    |-> report.replay,
   evidence  |-> attestations,
   findings  |-> EvidenceFindings(base, candidate, attestations)]

Complete(bundle) == bundle.findings = {}
==============================================================================
