---------------------------- MODULE TrustInvariant ----------------------------
(***************************************************************************)
(* The inductive invariant of TrustDistribution: what a target, a process, *)
(* a receipt, a grant and the ledger each owe to an earlier step.          *)
(***************************************************************************)
EXTENDS TrustProperties

TimesAreTimes ==
  /\ now \in Time
  /\ \A c \in issued : c.sequence \in Nat /\ c.issued \in Time

\* A target has one checkpoint installed, the furthest it ever accepted.
InstalledIsFurthest ==
  /\ installed \in [Targets -> SUBSET issued] /\ accepted \subseteq Targets \X issued
  /\ \A t \in Targets : \A c, d \in installed[t] : c = d
  /\ \A t \in Targets : \A c \in installed[t] : <<t, c>> \in accepted
  /\ \A t \in Targets, d \in issued : <<t, d>> \in accepted =>
       installed[t] # {} /\ \A c \in installed[t] : d.sequence <= c.sequence

\* A target that never anchors at a mere sequence has followed one branch.
BranchesAreKept ==
  \A t \in Targets : "sequence" \notin Anchoring[t] => OneBranch(Accepted(t))

\* Only a process that may do without has loaded no keys of the issuer.
ProcessesAreConfigured ==
  /\ process = [t \in Targets |-> process[t]]
  /\ \A t \in Targets : \A p \in process[t] :
       ~IdentityFails(Deployment[t]) /\ (p.jwks = {} => Deployment[t].mode = "disabled")

\* Who signed a receipt with a host key had what the receipt says; the target it names is
\* his, or one of another host.
SignedBy(t, r) == t \in Targets /\ t \in Held[r.key] /\ (r.target = t \/ r.target \notin Held[r.key])
AcksFollowInstallation ==
  \A r \in acks : \E t \in Targets : SignedBy(t, r) /\ <<t, r.checkpoint>> \in accepted
AttestationsFollowLoading ==
  \A r \in attestations : r.at \in Time /\ \E t \in Targets :
    SignedBy(t, r) /\ <<t, r.loaded, r.at>> \in loaded

\* A consumed order was accepted inside its window.
InTime(a) == \E h \in grants : h.assertion = a /\ h.consumed /\ WithinWindow(a, h.at)
LedgerFollowsGrants == \A a \in ledger : InTime(a)

\* The circumstances of a grant.
GrantWasDue(g) ==
  /\ KeyFits(Documents[g.document], g.assertion, g.kind, g.at)
  /\ WithinWindow(g.assertion, g.at) \/ InTime(g.assertion)
  /\ Entitled(g.by, g.jwks, g.request, g.token, g.at)
GrantsWereDue == \A g \in grants : GrantWasDue(g)

(* The inductive invariant. *)
IInv ==
  /\ TimesAreTimes
  /\ InstalledIsFurthest /\ BranchesAreKept /\ ProcessesAreConfigured
  /\ AcksFollowInstallation /\ AttestationsFollowLoading
  /\ LedgerFollowsGrants /\ GrantsWereDue
===============================================================================
