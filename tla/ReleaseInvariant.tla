--------------------------- MODULE ReleaseInvariant ---------------------------
(***************************************************************************)
(* The inductive invariant of ReleasePromotion.  Files change between the  *)
(* tools and keys are withdrawn; what a bundle and an authorization were   *)
(* made from is kept in them, and is stated here without the files.        *)
(***************************************************************************)
EXTENDS ReleaseProperties

FilesAreWellFormed ==
  /\ staged \in [pack : Candidates, signed : BOOLEAN]
  /\ reviews \subseteq ReviewFiles
  /\ IsFiniteSet(promotions)

\* A bundle is the evidence of a candidate: some files were accepted for it, with keys of
\* the trust store, and reports printed.
BundleIsEvidenced(b) ==
  \E p \in Candidates :
    /\ b.candidate = p.digest
    /\ \E files \in SUBSET ReviewFiles : ~EvidenceRejected(Base, p, files, b.evidence, ReviewKeys)
    /\ \E report \in Reports(Base, p, Suite) : b = Bundle(Base, p, report, b.evidence)
BundlesAreEvidenced == \A b \in bundle : BundleIsEvidenced(b)

\* An authorization was due: its statements are of different promoters, fit the bundle and
\* the policy, and left nothing to find.
WasDue(auth) ==
  /\ BundleIsEvidenced(auth.bundle) /\ Complete(auth.bundle)
  /\ auth.policy \in Policies /\ IsFiniteSet(auth.attestations)
  /\ \A a \in auth.attestations :
       PromotionVerifies(a, PromotionKeys) /\ Binds(a, auth.bundle, auth.policy)
  /\ \A a, c \in auth.attestations : a.key = c.key => a = c
  /\ PromotionFindings(auth.policy, auth.attestations, auth.at) = {}
AuthorizationsWereDue == \A auth \in authorized : WasDue(auth)

(* The inductive invariant. *)
IInv == FilesAreWellFormed /\ BundlesAreEvidenced /\ AuthorizationsWereDue
===============================================================================
