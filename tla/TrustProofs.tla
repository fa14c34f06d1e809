------------------------------ MODULE TrustProofs ------------------------------
(***************************************************************************)
(* The inductive invariant of TrustDistribution holds, one lemma for each  *)
(* action, and with it what TrustProperties states, for every set of       *)
(* targets, stores, keys, documents, tokens and every bound.               *)
(***************************************************************************)
EXTENDS TrustInvariant, FiniteSetTheorems, TLAPS

(***************************************************************************)
(* Who is let in                                                           *)
(***************************************************************************)
\* The role a route asks for, path by path.
LEMMA RoleOfRoute ==
  ASSUME NEW request, request.method \in {"GET", "HEAD", "POST"},
         request.path \notin {"health", "stylesheet"}
  PROVE  RequiredApiRole(request) =
           IF request.method # "POST" THEN "regulaai.operator"
           ELSE IF request.path = "reconciliation" THEN "regulaai.reconciler"
           ELSE "regulaai.runtime"
<1>1. CASE request.method # "POST"
  BY <1>1 DEF RequiredApiRole
<1>2. CASE request.method = "POST" /\ request.path = "reconciliation"
  BY <1>2 DEF RequiredApiRole
<1>3. CASE request.method = "POST" /\ request.path # "reconciliation"
  BY <1>3 DEF RequiredApiRole
<1> QED BY <1>1, <1>2, <1>3

\* A token that authenticates now was issued at most its longest lifetime ago, and the
\* clock skew.
LEMMA AuthenticTokensAreRecent ==
  ASSUME NEW keys, NEW token, WellFormedToken(token), NEW at \in Int,
         Authenticates(keys, Identity, token, at)
  PROVE  /\ token.issued - Identity.skew <= at
         /\ at < token.issued + Identity.lifetime + Identity.skew
<1>1. Identity.lifetime \in Int /\ Identity.skew \in Int
  <2>1. WellFormedConfig(Identity)
    BY IdentityAssumption
  <2> QED BY <2>1 DEF WellFormedConfig
<1>2. token.issued \in Int /\ token.expires \in Int
  BY DEF WellFormedToken
<1>3. token.issued <= at + Identity.skew /\ at - Identity.skew < token.expires
  BY DEF Authenticates
<1>4. token.expires - token.issued <= Identity.lifetime
  BY DEF Authenticates
<1> QED BY <1>1, <1>2, <1>3, <1>4

\* What the middleware lets in is entitled, if only a process of a local deployment may
\* have no keys of the issuer.
LEMMA AdmittedAreEntitled ==
  ASSUME NEW t \in Targets, NEW jwks, NEW request, NEW presented \in Presented, NEW at \in Int,
         request.method \in {"GET", "HEAD", "POST"},
         jwks = {} => Deployment[t] = [environment |-> "local", mode |-> "disabled"],
         LetsIn(jwks, request, presented, at)
  PROVE  Entitled(t, jwks, request, presented, at)
<1>1. CASE request.path \in {"health", "stylesheet"}
  BY <1>1 DEF Entitled
<1>2. CASE jwks = {}
  BY <1>2 DEF Entitled
<1>3. CASE request.path \notin {"health", "stylesheet"} /\ jwks # {}
  <2>1. RequiredApiRole(request) # Public
    BY <1>3, RoleOfRoute DEF Public
  <2>2. {Jwks[n] : n \in jwks} # {}
    BY <1>3
  <2>3. PICK n \in jwks, token \in presented :
          /\ Authenticates(Jwks[n], Identity, token, at)
          /\ RequiredApiRole(request) \in token.roles
    BY <2>1, <2>2 DEF LetsIn, Admitted
  <2>4. WellFormedToken(token)
    BY IdentityAssumption DEF Presented
  <2>5. /\ token.issued - Identity.skew <= at
        /\ at < token.issued + Identity.lifetime + Identity.skew
    BY <2>3, <2>4, AuthenticTokensAreRecent
  <2>6. /\ token.key \in DOMAIN Jwks[n] /\ Jwks[n][token.key] = token.signer
        /\ token.type = "access"
        /\ token.issuer = Identity.issuer /\ Identity.audience \in token.audiences
    BY <2>3 DEF Authenticates
  <2>7. IF request.method # "POST" THEN "regulaai.operator" \in token.roles
        ELSE IF request.path = "reconciliation" THEN "regulaai.reconciler" \in token.roles
        ELSE "regulaai.runtime" \in token.roles
    BY <1>3, <2>3, RoleOfRoute
  <2> QED BY <2>5, <2>6, <2>7 DEF Entitled
<1> QED BY <1>1, <1>2, <1>3

\* A configured process without authentication is local.
LEMMA DisabledIsLocal ==
  ASSUME NEW t \in Targets, ~IdentityFails(Deployment[t]), Deployment[t].mode = "disabled"
  PROVE  Deployment[t] = [environment |-> "local", mode |-> "disabled"]
<1>1. Deployment[t] \in [environment : {"local", "production"},
                         mode : {"disabled", "oidc_jwt", "other"}]
  BY IdentityAssumption
<1>2. Deployment[t].environment = "local"
  BY <1>1 DEF IdentityFails
<1> QED BY <1>1, <1>2

\* So is the process that has loaded none of the issuer's keys.
LEMMA ProcessesAdmitTheEntitled ==
  ASSUME ProcessesAreConfigured, NEW t \in Targets, NEW p \in process[t],
         NEW request, NEW presented \in Presented, NEW at \in Int,
         request.method \in {"GET", "HEAD", "POST"},
         LetsIn(p.jwks, request, presented, at)
  PROVE  Entitled(t, p.jwks, request, presented, at)
<1>1. p.jwks = {} => Deployment[t] = [environment |-> "local", mode |-> "disabled"]
  BY DisabledIsLocal DEF ProcessesAreConfigured
<1> QED BY <1>1, AdmittedAreEntitled

(***************************************************************************)
(* The inductive invariant                                                 *)
(***************************************************************************)
LEMMA InitIsInvariant == Init => IInv
<1> SUFFICES ASSUME Init PROVE IInv
  OBVIOUS
<1>1. TimesAreTimes
  BY BoundAssumption DEF Init, TimesAreTimes, Time
<1>2. InstalledIsFurthest /\ BranchesAreKept
  BY DEF Init, InstalledIsFurthest, BranchesAreKept, OneBranch, Accepted
<1>3. ProcessesAreConfigured /\ AcksFollowInstallation /\ AttestationsFollowLoading
  BY DEF Init, ProcessesAreConfigured, AcksFollowInstallation, AttestationsFollowLoading
<1>4. LedgerFollowsGrants /\ GrantsWereDue
  BY DEF Init, LedgerFollowsGrants, GrantsWereDue
<1> QED BY <1>1, <1>2, <1>3, <1>4 DEF IInv

\* Grants are only ever added, so what they say of the ledger and of one another stays.
LEMMA GrantsStand ==
  ASSUME LedgerFollowsGrants, GrantsWereDue, UNCHANGED <<ledger, grants>>
  PROVE  LedgerFollowsGrants' /\ GrantsWereDue'
BY DEF LedgerFollowsGrants, GrantsWereDue, InTime, GrantWasDue

\* Whoever accepts nothing stays where it was.
LEMMA BranchesStand ==
  ASSUME InstalledIsFurthest, BranchesAreKept, issued \subseteq issued', UNCHANGED accepted
  PROVE  BranchesAreKept'
<1>1. \A t \in Targets : Accepted(t)' = Accepted(t)
  BY DEF InstalledIsFurthest, Accepted
<1>2. ASSUME NEW t \in Targets, "sequence" \notin Anchoring[t] PROVE OneBranch(Accepted(t)')
  <2>1. OneBranch(Accepted(t))
    BY <1>2 DEF BranchesAreKept
  <2> QED BY <1>1, <2>1
<1> QED BY <1>2 DEF BranchesAreKept, OneBranch

LEMMA ReceiptsStand ==
  ASSUME AcksFollowInstallation, AttestationsFollowLoading,
         UNCHANGED <<acks, attestations>>,
         accepted \subseteq accepted', loaded \subseteq loaded'
  PROVE  AcksFollowInstallation' /\ AttestationsFollowLoading'
<1>1. AcksFollowInstallation'
  BY DEF AcksFollowInstallation
<1>2. AttestationsFollowLoading'
  BY DEF AttestationsFollowLoading
<1> QED BY <1>1, <1>2

\* A checkpoint is signed: nobody has installed it, and it carries the time of now.
LEMMA CreateStep ==
  ASSUME IInv, NEW lineage \in Lineages, NEW sequence \in 1..MaxCheckpoints,
         NEW store \in Stores, NEW previous,
         CreateCheckpoint(lineage, sequence, store, previous)
  PROVE  IInv'
<1> DEFINE c == Checkpoint(lineage, sequence, now, store, previous, Root)
<1>1. issued' = issued \cup {c} /\ UNCHANGED <<installed, process, acks, attestations,
        published, ledger, grants, accepted, loaded, now>> /\ c \notin issued
  BY DEF CreateCheckpoint
<1>2. c.sequence = sequence /\ c.issued = now
  BY DEF Checkpoint
<1>3. TimesAreTimes'
  BY <1>1, <1>2 DEF IInv, TimesAreTimes
<1>4. InstalledIsFurthest'
  <2>1. \A t \in Targets, d \in issued' : <<t, d>> \in accepted' =>
          installed'[t] # {} /\ \A e \in installed'[t] : d.sequence <= e.sequence
    BY <1>1 DEF IInv, InstalledIsFurthest
  <2> QED BY <1>1, <2>1 DEF IInv, InstalledIsFurthest
<1>5. ProcessesAreConfigured' /\ BranchesAreKept'
  BY <1>1, BranchesStand DEF IInv, ProcessesAreConfigured
<1>6. AcksFollowInstallation' /\ AttestationsFollowLoading'
  BY <1>1, ReceiptsStand DEF IInv
<1>7. LedgerFollowsGrants' /\ GrantsWereDue'
  BY <1>1, GrantsStand DEF IInv
<1> QED BY <1>3, <1>4, <1>5, <1>6, <1>7 DEF IInv

\* What verifies against the anchor a target kept is at least as far as what it installed.
LEMMA AnchorsHoldBack ==
  ASSUME IInv, NEW t \in Targets, NEW c \in issued, NEW store, NEW anchor \in Anchors(t, c),
         ~CheckpointRejected(store, c, Root, anchor), NEW p \in installed[t]
  PROVE  p.sequence <= c.sequence
<1>1. p \in issued /\ p.sequence \in Nat /\ c.sequence \in Nat
  BY DEF IInv, InstalledIsFurthest, TimesAreTimes
<1>2. \/ anchor = Anchor({}, {q.sequence : q \in installed[t]}, {})
      \/ anchor = Anchor(installed[t], {}, {})
  BY AnchorAssumption DEF Anchors, AnchorAt
<1>3. CASE anchor = Anchor({}, {q.sequence : q \in installed[t]}, {})
  <2>1. p.sequence \in anchor.minimum
    BY <1>3 DEF Anchor
  <2> QED BY <1>1, <2>1 DEF CheckpointRejected
<1>4. CASE anchor = Anchor(installed[t], {}, {})
  <2>1. p \in anchor.previous
    BY <1>4 DEF Anchor
  <2>2. c.sequence = p.sequence + 1
    BY <2>1 DEF CheckpointRejected, Succeeds
  <2> QED BY <1>1, <2>2
<1> QED BY <1>2, <1>3, <1>4

\* Without a mere sequence to anchor at, it extends what the target installed.
LEMMA PredecessorsHold ==
  ASSUME IInv, NEW t \in Targets, "sequence" \notin Anchoring[t],
         NEW c \in issued, NEW store, NEW anchor \in Anchors(t, c),
         ~CheckpointRejected(store, c, Root, anchor), NEW p \in installed[t]
  PROVE  c.previous = {p} /\ c.sequence = p.sequence + 1
<1>1. anchor = Anchor(installed[t], {}, {})
  BY AnchorAssumption DEF Anchors, AnchorAt
<1>2. p \in anchor.previous
  BY <1>1 DEF Anchor
<1> QED BY <1>2 DEF CheckpointRejected, Succeeds

\* A target installs what is not behind what it had, and everything it ever accepted is
\* not ahead of that.
LEMMA InstallStep ==
  ASSUME IInv, NEW t \in Targets, NEW c \in issued, NEW store, Install(t, c, store)
  PROVE  IInv'
<1>1. PICK anchor \in Anchors(t, c) : ~CheckpointRejected(store, c, Root, anchor)
  BY DEF Install
<1>2. /\ installed' = [installed EXCEPT ![t] = {c}]
      /\ accepted' = accepted \cup {<<t, c>>}
      /\ UNCHANGED <<issued, process, acks, attestations, published, ledger, grants, loaded,
                     now>>
  BY DEF Install
<1>3. TimesAreTimes'
  BY <1>2 DEF IInv, TimesAreTimes
<1>4. InstalledIsFurthest'
  <2>1. installed' \in [Targets -> SUBSET issued'] /\ accepted' \subseteq Targets \X issued'
    BY <1>2 DEF IInv, InstalledIsFurthest
  <2>2. \A u \in Targets : installed'[u] = IF u = t THEN {c} ELSE installed[u]
    BY <1>2 DEF IInv, InstalledIsFurthest
  <2>3. \A u \in Targets : \A d, e \in installed'[u] : d = e
    BY <2>2 DEF IInv, InstalledIsFurthest
  <2>4. ASSUME NEW u \in Targets, NEW d \in installed'[u] PROVE <<u, d>> \in accepted'
    <3>1. CASE u = t
      BY <1>2, <2>2, <2>4, <3>1
    <3>2. CASE u # t
      BY <1>2, <2>2, <2>4, <3>2 DEF IInv, InstalledIsFurthest
    <3> QED BY <3>1, <3>2
  <2>5. ASSUME NEW u \in Targets, NEW d \in issued', <<u, d>> \in accepted'
        PROVE  installed'[u] # {} /\ \A e \in installed'[u] : d.sequence <= e.sequence
    <3>1. CASE u # t
      BY <1>2, <2>2, <2>5, <3>1 DEF IInv, InstalledIsFurthest
    <3>2. CASE u = t
      <4>1. d.sequence \in Nat /\ c.sequence \in Nat
        BY <1>2 DEF IInv, TimesAreTimes
      <4>2. CASE d = c
        BY <2>2, <3>2, <4>1, <4>2
      <4>3. CASE d # c
        <5>1. <<t, d>> \in accepted
          BY <1>2, <2>5, <3>2, <4>3
        <5>2. PICK p \in installed[t] : d.sequence <= p.sequence
          BY <1>2, <5>1 DEF IInv, InstalledIsFurthest
        <5>3. p.sequence <= c.sequence /\ p.sequence \in Nat
          BY <1>1, AnchorsHoldBack DEF IInv, InstalledIsFurthest, TimesAreTimes
        <5> QED BY <2>2, <3>2, <4>1, <5>2, <5>3
      <4> QED BY <4>2, <4>3
    <3> QED BY <3>1, <3>2
  <2> QED BY <2>1, <2>3, <2>4, <2>5 DEF InstalledIsFurthest
<1>5. ProcessesAreConfigured'
  BY <1>2 DEF IInv, ProcessesAreConfigured
<1>6. AcksFollowInstallation' /\ AttestationsFollowLoading'
  BY <1>2, ReceiptsStand DEF IInv
<1>7. LedgerFollowsGrants' /\ GrantsWereDue'
  BY <1>2, GrantsStand DEF IInv
<1>8. BranchesAreKept'
  <2> SUFFICES ASSUME NEW u \in Targets, "sequence" \notin Anchoring[u]
               PROVE  OneBranch(Accepted(u)')
    BY DEF BranchesAreKept, OneBranch
  <2>1. OneBranch(Accepted(u))
    BY DEF IInv, BranchesAreKept
  <2>2. CASE u # t
    <3>1. Accepted(u)' = Accepted(u)
      BY <1>2, <2>2 DEF Accepted
    <3> QED BY <2>1, <3>1
  <2>3. CASE u = t
    <3>1. Accepted(t)' = Accepted(t) \cup {c}
      BY <1>2 DEF Accepted
    <3>2. \A d \in Accepted(t) : d.sequence < c.sequence /\ \E p \in c.previous : p \in Accepted(t)
      <4> SUFFICES ASSUME NEW d \in Accepted(t)
                   PROVE  d.sequence < c.sequence /\ \E p \in c.previous : p \in Accepted(t)
        OBVIOUS
      <4>1. PICK p \in installed[t] : d.sequence <= p.sequence
        BY DEF IInv, InstalledIsFurthest, Accepted
      <4>2. p \in Accepted(t)
        BY DEF IInv, InstalledIsFurthest, Accepted
      <4>3. c.previous = {p} /\ c.sequence = p.sequence + 1
        BY <1>1, <2>3, PredecessorsHold
      <4>4. d.sequence \in Nat /\ p.sequence \in Nat
        BY <4>2 DEF IInv, TimesAreTimes, Accepted
      <4> QED BY <4>1, <4>2, <4>3, <4>4
    <3>3. \A d \in Accepted(t) : d.sequence \in Nat
      BY DEF IInv, TimesAreTimes, Accepted
    <3>4. c.sequence \in Nat
      BY DEF IInv, TimesAreTimes
    <3> QED BY <2>1, <2>3, <3>1, <3>2, <3>3, <3>4 DEF OneBranch
  <2> QED BY <2>2, <2>3
<1> QED BY <1>3, <1>4, <1>5, <1>6, <1>7, <1>8 DEF IInv

\* A process that starts has its identity configured, and loads keys unless it is disabled.
LEMMA StartStep ==
  ASSUME IInv, NEW t \in Targets, Start(t)
  PROVE  IInv'
<1>1. PICK c \in installed[t] :
        process' = [process EXCEPT ![t] =
                      {[store |-> c.store, document |-> published.document,
                        jwks |-> IF Deployment[t].mode = "disabled" THEN {}
                                 ELSE {published.jwks}]}]
  BY DEF Start
<1>2. ~IdentityFails(Deployment[t]) /\ UNCHANGED <<issued, installed, acks, attestations,
        published, ledger, grants, accepted, loaded, now>>
  BY DEF Start
<1>3. TimesAreTimes' /\ InstalledIsFurthest' /\ BranchesAreKept'
  BY <1>2, BranchesStand DEF IInv, TimesAreTimes, InstalledIsFurthest
<1>4. ProcessesAreConfigured'
  <2> DEFINE new == [store |-> c.store, document |-> published.document,
                     jwks |-> IF Deployment[t].mode = "disabled" THEN {}
                              ELSE {published.jwks}]
  <2>1. new.jwks = {} => Deployment[t].mode = "disabled"
    OBVIOUS
  <2> HIDE DEF new
  <2>2. process' = [process EXCEPT ![t] = {new}]
    BY <1>1 DEF new
  <2>3. \A u \in Targets : process'[u] = IF u = t THEN {new} ELSE process[u]
    BY <2>2 DEF IInv, ProcessesAreConfigured
  <2>4. process' = [u \in Targets |-> process'[u]]
    BY <2>2 DEF IInv, ProcessesAreConfigured
  <2> QED BY <1>2, <2>1, <2>3, <2>4 DEF IInv, ProcessesAreConfigured
<1>5. AcksFollowInstallation' /\ AttestationsFollowLoading'
  BY <1>2, ReceiptsStand DEF IInv
<1>6. LedgerFollowsGrants' /\ GrantsWereDue'
  BY <1>2, GrantsStand DEF IInv
<1> QED BY <1>3, <1>4, <1>5, <1>6 DEF IInv

\* A target acknowledges what it has installed.
LEMMA AcknowledgeStep ==
  ASSUME IInv, NEW t \in Targets, NEW key, NEW named, NEW policy,
         Acknowledge(t, key, named, policy)
  PROVE  IInv'
<1>1. PICK c \in installed[t] :
        MaySign(t, key, named) /\ acks' = acks \cup {Receipt(key, named, c, policy)}
  BY DEF Acknowledge
<1>2. UNCHANGED <<issued, installed, process, attestations, published, ledger, grants,
                  accepted, loaded, now>>
  BY DEF Acknowledge
<1>3. AcksFollowInstallation'
  <2> DEFINE r == Receipt(key, named, c, policy)
  <2>1. SignedBy(t, r) /\ r.checkpoint = c
    BY <1>1 DEF SignedBy, MaySign, Receipt
  <2>2. <<t, c>> \in accepted
    BY DEF IInv, InstalledIsFurthest
  <2> HIDE DEF r
  <2> QED BY <1>1, <1>2, <2>1, <2>2 DEF IInv, AcksFollowInstallation, r
<1>4. TimesAreTimes' /\ InstalledIsFurthest' /\ BranchesAreKept' /\ ProcessesAreConfigured'
  BY <1>2, BranchesStand DEF IInv, TimesAreTimes, InstalledIsFurthest, ProcessesAreConfigured
<1>5. AttestationsFollowLoading'
  BY <1>2 DEF IInv, AttestationsFollowLoading
<1>6. LedgerFollowsGrants' /\ GrantsWereDue'
  BY <1>2, GrantsStand DEF IInv
<1> QED BY <1>3, <1>4, <1>5, <1>6 DEF IInv

\* A target attests what its process has loaded.
LEMMA AttestStep ==
  ASSUME IInv, NEW t \in Targets, NEW key, NEW named, NEW policy,
         Attest(t, key, named, policy)
  PROVE  IInv'
<1>1. PICK c \in installed[t], p \in process[t] :
        /\ MaySign(t, key, named)
        /\ attestations' =
             attestations \cup {[id |-> r.id, key |-> key, target |-> named,
                                 checkpoint |-> c, policy |-> policy, at |-> now,
                                 loaded |-> p.store] : r \in {Receipt(key, named, c, policy)}}
        /\ loaded' = loaded \cup {<<t, p.store, now>>}
  BY DEF Attest
<1>2. UNCHANGED <<issued, installed, process, acks, published, ledger, grants, accepted,
                  now>>
  BY DEF Attest
<1>3. AttestationsFollowLoading'
  <2> DEFINE r == [id |-> Receipt(key, named, c, policy).id, key |-> key, target |-> named,
                   checkpoint |-> c, policy |-> policy, at |-> now, loaded |-> p.store]
  <2>1. SignedBy(t, r) /\ r.loaded = p.store /\ r.at = now
    BY <1>1 DEF SignedBy, MaySign
  <2>2. attestations' = attestations \cup {r}
    BY <1>1
  <2> HIDE DEF r
  <2>3. <<t, r.loaded, r.at>> \in loaded' /\ r.at \in Time
    BY <1>1, <2>1 DEF IInv, TimesAreTimes
  <2>4. \A s \in attestations : s.at \in Time /\ \E u \in Targets :
          SignedBy(u, s) /\ <<u, s.loaded, s.at>> \in loaded'
    BY <1>1 DEF IInv, AttestationsFollowLoading
  <2> QED BY <2>1, <2>2, <2>3, <2>4 DEF AttestationsFollowLoading
<1>4. TimesAreTimes' /\ InstalledIsFurthest' /\ BranchesAreKept' /\ ProcessesAreConfigured'
  BY <1>2, BranchesStand DEF IInv, TimesAreTimes, InstalledIsFurthest, ProcessesAreConfigured
<1>5. AcksFollowInstallation'
  BY <1>2 DEF IInv, AcksFollowInstallation
<1>6. LedgerFollowsGrants' /\ GrantsWereDue'
  BY <1>2, GrantsStand DEF IInv
<1> QED BY <1>3, <1>4, <1>5, <1>6 DEF IInv

\* What the verifier of a process accepts has a key that fits, and is in its window unless
\* the ledger holds it.
LEMMA InspectedIsDue ==
  ASSUME NEW document, NEW a, NEW kind, NEW subject, NEW at, NEW book,
         Inspects(document, a, kind, subject, at, MaxLifetime, book)
  PROVE  KeyFits(document, a, kind, at) /\ (WithinWindow(a, at) \/ a \in book)
<1>1. CASE kind = "reconciliation"
  BY <1>1 DEF Inspects, InspectsReconciliation, Recorded
<1>2. CASE kind # "reconciliation"
  BY <1>2 DEF Inspects, InspectsApproval
<1> QED BY <1>1, <1>2

\* An assertion is accepted; a reconciliation that is consumed for the first time is in its
\* window, and stays recorded as such.
LEMMA GrantStep ==
  ASSUME IInv, NEW t \in Targets, NEW a \in Assertions, NEW kind \in Authorities, NEW subject,
         NEW consumed \in BOOLEAN, NEW token \in Presented,
         Grant(t, a, kind, subject, consumed, token)
  PROVE  IInv'
<1>1. PICK p \in process[t] :
        /\ LetsIn(p.jwks, Route(kind), token, now)
        /\ Inspects(Documents[p.document], a, kind, subject, now, MaxLifetime, ledger)
        /\ grants' = grants \cup {[by |-> t, assertion |-> a, kind |-> kind,
                                   subject |-> subject, at |-> now, consumed |-> consumed,
                                   document |-> p.document, request |-> Route(kind),
                                   token |-> token, jwks |-> p.jwks]}
  BY DEF Grant
<1>2. /\ ledger' = IF consumed THEN ledger \cup {a} ELSE ledger
      /\ UNCHANGED <<issued, installed, process, acks, attestations, published,
                     accepted, loaded, now>>
  BY DEF Grant
<1> DEFINE new == [by |-> t, assertion |-> a, kind |-> kind,
                   subject |-> subject, at |-> now, consumed |-> consumed,
                   document |-> p.document, request |-> Route(kind),
                   token |-> token, jwks |-> p.jwks]
<1>3. /\ new.by = t /\ new.assertion = a /\ new.kind = kind /\ new.at = now
      /\ new.consumed = consumed /\ new.document = p.document
      /\ new.request = Route(kind) /\ new.token = token /\ new.jwks = p.jwks
  OBVIOUS
<1>4. grants' = grants \cup {new}
  BY <1>1
<1> HIDE DEF new
<1>5. KeyFits(Documents[p.document], a, kind, now) /\ (WithinWindow(a, now) \/ a \in ledger)
  BY <1>1, InspectedIsDue
<1>6. WithinWindow(a, now) \/ InTime(a)
  BY <1>5 DEF IInv, LedgerFollowsGrants
<1>7. Entitled(t, p.jwks, Route(kind), token, now)
  <2>1. Route(kind).method \in {"GET", "HEAD", "POST"}
    BY DEF Route
  <2>2. now \in Int
    BY BoundAssumption DEF IInv, TimesAreTimes, Time
  <2> QED BY <1>1, <2>1, <2>2, ProcessesAdmitTheEntitled DEF IInv
<1>8. \A b : InTime(b) => InTime(b)'
  BY <1>4 DEF InTime
<1>9. LedgerFollowsGrants'
  <2>1. consumed => InTime(a)'
    <3>1. CASE WithinWindow(a, now) /\ consumed
      BY <1>3, <1>4, <3>1 DEF InTime
    <3>2. CASE InTime(a)
      BY <1>8, <3>2
    <3> QED BY <1>6, <3>1, <3>2
  <2>2. \A b \in ledger' : b \in ledger \/ (consumed /\ b = a)
    BY <1>2
  <2> QED BY <1>8, <2>1, <2>2 DEF IInv, LedgerFollowsGrants
<1>10. GrantsWereDue'
  <2> SUFFICES ASSUME NEW g \in grants' PROVE GrantWasDue(g)'
    BY DEF GrantsWereDue
  <2>1. CASE g \in grants
    BY <1>8, <2>1 DEF IInv, GrantsWereDue, GrantWasDue
  <2>2. CASE g = new
    <3>1. InTime(a) => InTime(a)'
      BY <1>8
    <3> QED BY <1>3, <1>5, <1>6, <1>7, <2>2, <3>1 DEF GrantWasDue
  <2> QED BY <1>4, <2>1, <2>2
<1>11. TimesAreTimes' /\ InstalledIsFurthest' /\ BranchesAreKept' /\ ProcessesAreConfigured'
  BY <1>2, BranchesStand DEF IInv, TimesAreTimes, InstalledIsFurthest, ProcessesAreConfigured
<1>12. AcksFollowInstallation' /\ AttestationsFollowLoading'
  BY <1>2, ReceiptsStand DEF IInv
<1> QED BY <1>9, <1>10, <1>11, <1>12 DEF IInv

\* Publishing keys, and time, change nothing that is promised.
LEMMA OutsideStep ==
  ASSUME IInv, PublishDocument \/ PublishJwks \/ Tick
  PROVE  IInv'
<1>1. UNCHANGED <<issued, installed, process, acks, attestations, ledger, grants, accepted,
                  loaded>>
  BY DEF PublishDocument, PublishJwks, Tick
<1>2. now' \in Time
  BY BoundAssumption DEF IInv, TimesAreTimes, Time, PublishDocument, PublishJwks, Tick
<1>3. TimesAreTimes' /\ InstalledIsFurthest' /\ BranchesAreKept' /\ ProcessesAreConfigured'
  BY <1>1, <1>2, BranchesStand
  DEF IInv, TimesAreTimes, InstalledIsFurthest, ProcessesAreConfigured, Time
<1>4. AcksFollowInstallation' /\ AttestationsFollowLoading'
  BY <1>1, ReceiptsStand DEF IInv
<1>5. LedgerFollowsGrants' /\ GrantsWereDue'
  BY <1>1, GrantsStand DEF IInv
<1> QED BY <1>3, <1>4, <1>5 DEF IInv

LEMMA NextKeepsInvariant == IInv /\ [Next]_vars => IInv'
<1> SUFFICES ASSUME IInv, [Next]_vars PROVE IInv'
  OBVIOUS
<1>1. ASSUME NEW lineage \in Lineages, NEW sequence \in 1..MaxCheckpoints, NEW store \in Stores,
             NEW previous \in {{}} \cup {{c} : c \in issued},
             CreateCheckpoint(lineage, sequence, store, previous)
      PROVE  IInv'
  BY <1>1, CreateStep
<1>2. ASSUME NEW t \in Targets, NEW c \in issued, NEW store \in Stores, Install(t, c, store)
      PROVE  IInv'
  BY <1>2, InstallStep
<1>3. ASSUME NEW t \in Targets, Start(t) PROVE IInv'
  BY <1>3, StartStep
<1>4. ASSUME NEW t \in Targets, NEW named \in Targets, NEW key \in DOMAIN ReceiptKeys,
             NEW policy \in Policies,
             Acknowledge(t, key, named, policy) \/ Attest(t, key, named, policy)
      PROVE  IInv'
  BY <1>4, AcknowledgeStep, AttestStep
<1>5. ASSUME NEW t \in Targets, NEW a \in Assertions, NEW kind \in Authorities,
             NEW subject \in Subjects, NEW consumed \in BOOLEAN, NEW token \in Presented,
             Grant(t, a, kind, subject, consumed, token)
      PROVE  IInv'
  BY <1>5, GrantStep
<1>6. CASE PublishDocument \/ PublishJwks \/ Tick
  BY <1>6, OutsideStep
<1>7. CASE UNCHANGED vars
  <2>1. TimesAreTimes' /\ InstalledIsFurthest' /\ BranchesAreKept' /\ ProcessesAreConfigured'
    BY <1>7, BranchesStand
    DEF vars, IInv, TimesAreTimes, InstalledIsFurthest, ProcessesAreConfigured
  <2>2. AcksFollowInstallation' /\ AttestationsFollowLoading'
    BY <1>7, ReceiptsStand DEF vars, IInv
  <2>3. LedgerFollowsGrants' /\ GrantsWereDue'
    BY <1>7, GrantsStand DEF vars, IInv
  <2> QED BY <2>1, <2>2, <2>3 DEF IInv
<1> QED BY <1>1, <1>2, <1>3, <1>4, <1>5, <1>6, <1>7 DEF Next

\* The inductive invariant holds of every behaviour.
THEOREM TrustInvariantHolds == Spec => []IInv
BY InitIsInvariant, NextKeepsInvariant, PTL DEF Spec

(***************************************************************************)
(* What TrustProperties states                                             *)
(***************************************************************************)
\* Only a start changes what a process has loaded, and what it loads is installed.
LEMMA StartsLoadTheFurthest ==
  ASSUME IInv, Next, NEW t \in Targets, process'[t] # process[t], NEW p \in process'[t]
  PROVE  \E c \in Furthest(t) : p.store = c.store
<1>1. PICK u \in Targets : Start(u)
  BY DEF Next, CreateCheckpoint, Install, Acknowledge, Attest, PublishDocument, PublishJwks,
         Grant, Tick
<1>2. PICK c \in installed[u] :
        process' = [process EXCEPT ![u] =
                      {[store |-> c.store, document |-> published.document,
                        jwks |-> IF Deployment[u].mode = "disabled" THEN {}
                                 ELSE {published.jwks}]}]
  BY <1>1 DEF Start
<1>3. u = t /\ p.store = c.store
  BY <1>2 DEF IInv, ProcessesAreConfigured
<1>4. c \in Furthest(t)
  BY <1>3 DEF IInv, InstalledIsFurthest, Furthest, Accepted
<1> QED BY <1>3, <1>4

\* Whatever checkpoints of whatever fork arrive in whatever order, neither a target nor a
\* process that starts goes back behind one the target has accepted, and a target that
\* anchors at predecessors stays on one branch.
THEOREM TargetsNeverRollBack == Spec => NoRollback
<1> DEFINE Forward ==
      \A t \in Targets :
        /\ installed'[t] # installed[t] => installed'[t] \subseteq Furthest(t)'
        /\ process'[t] # process[t] =>
             \A p \in process'[t] : \E c \in Furthest(t) : p.store = c.store
        /\ "sequence" \notin Anchoring[t] => OneBranch(Accepted(t)')
<1>1. ASSUME IInv, IInv', Next PROVE Forward
  <2> SUFFICES ASSUME NEW t \in Targets
               PROVE  /\ installed'[t] \subseteq Furthest(t)'
                      /\ process'[t] # process[t] =>
                           \A p \in process'[t] : \E c \in Furthest(t) : p.store = c.store
                      /\ "sequence" \notin Anchoring[t] => OneBranch(Accepted(t)')
    OBVIOUS
  <2>1. installed'[t] \subseteq Furthest(t)'
    BY <1>1 DEF IInv, InstalledIsFurthest, Furthest, Accepted
  <2>2. process'[t] # process[t] =>
          \A p \in process'[t] : \E c \in Furthest(t) : p.store = c.store
    BY <1>1, StartsLoadTheFurthest
  <2>3. "sequence" \notin Anchoring[t] => OneBranch(Accepted(t)')
    BY <1>1 DEF IInv, BranchesAreKept, OneBranch
  <2> QED BY <2>1, <2>2, <2>3
<1>2. IInv /\ IInv' /\ [Next]_vars => [Forward]_vars
  BY <1>1
<1> QED BY <1>2, TrustInvariantHolds, PTL DEF Spec, NoRollback

\* An assertion is accepted only from a key of its actor that was active at issuance and at
\* use, and outside its window only to repeat an order that was accepted inside it.
THEOREM GrantsComeFromKeys == Spec => []GrantsFollowKeys
<1>1. IInv => GrantsFollowKeys
  BY DEF IInv, GrantsWereDue, GrantWasDue, GrantsFollowKeys, KeyFits, InTime
<1> QED BY <1>1, TrustInvariantHolds, PTL

\* Whoever is let in, to whatever a token may ask of a running process, is entitled to it.
THEOREM OnlyTheEntitledCall == Spec => []CallersAreEntitled
<1>1. IInv => CallersAreEntitled
  <2> SUFFICES ASSUME IInv PROVE CallersAreEntitled
    OBVIOUS
  <2>1. \A g \in grants : Entitled(g.by, g.jwks, g.request, g.token, g.at)
    BY DEF IInv, GrantsWereDue, GrantWasDue
  <2>2. ASSUME NEW t \in Targets, NEW p \in process[t], <<t, p.jwks, now>> \in Laxities
        PROVE  FALSE
    <3>1. PICK request \in Requests, presented \in Presented :
            LetsIn(p.jwks, request, presented, now) /\ ~Entitled(t, p.jwks, request, presented, now)
      BY <2>2 DEF Laxities
    <3>2. request.method \in {"GET", "HEAD", "POST"}
      BY IdentityAssumption
    <3>3. now \in Int
      BY BoundAssumption DEF IInv, TimesAreTimes, Time
    <3> QED BY <3>1, <3>2, <3>3, ProcessesAdmitTheEntitled DEF IInv
  <2> QED BY <2>1, <2>2 DEF CallersAreEntitled
<1> QED BY <1>1, TrustInvariantHolds, PTL

\* A host signs for its own targets, so the target a verified receipt names did sign it.
LEMMA ReceiptsNameTheirSigner ==
  ASSUME NEW r, NEW t, SignedBy(t, r), ReceiptVerifies(r, ReceiptKeys)
  PROVE  r.target = t
<1>1. r.key \in DOMAIN ReceiptKeys /\ r.target \in ReceiptKeys[r.key].targets
  BY DEF ReceiptVerifies
<1>2. ReceiptKeys[r.key].targets \subseteq Held[r.key]
  BY <1>1, ReceiptAssumption
<1> QED BY <1>1, <1>2 DEF SignedBy

LEMMA PoliciesAreCoverages ==
  ASSUME NEW policy \in Policies
  PROVE  /\ IsFiniteSet(policy.allowed)
         /\ policy.minimum \in Int
<1>1. PICK p \in Coverage : /\ policy.allowed = p.allowed /\ policy.required = p.required
                            /\ policy.minimum = p.minimum
  BY DEF Policies
<1>2. WellFormedCoverage(p)
  BY ReceiptAssumption DEF WellFormedRuntimePolicy
<1> QED
  <2>1. IsFiniteSet(p.allowed) /\ p.minimum \in 1..Cardinality(p.allowed)
    BY <1>2 DEF WellFormedCoverage
  <2>2. Cardinality(p.allowed) \in Nat
    BY <2>1, FS_CardinalityType
  <2> QED BY <1>1, <2>1, <2>2

\* Targets without a finding satisfy the policy, and so does any set of allowed targets
\* they are among.
LEMMA FindingsAreComplete ==
  ASSUME NEW policy \in Policies, NEW covered, NEW consumers,
         CoverageFindings(policy, covered) = {},
         covered \subseteq consumers, consumers \subseteq policy.allowed
  PROVE  /\ policy.required \subseteq consumers
         /\ Cardinality(consumers) >= policy.minimum
<1>1. policy.required \ covered = {}
  BY DEF CoverageFindings
<1>2. ~(Cardinality(covered) < policy.minimum)
  BY DEF CoverageFindings
<1>3. IsFiniteSet(consumers)
  BY PoliciesAreCoverages, FS_Subset
<1>4. IsFiniteSet(covered) /\ Cardinality(covered) <= Cardinality(consumers)
  BY <1>3, FS_Subset
<1>5. Cardinality(covered) \in Nat /\ Cardinality(consumers) \in Nat
  BY <1>3, <1>4, FS_CardinalityType
<1>6. policy.minimum \in Int
  BY PoliciesAreCoverages
<1> QED BY <1>1, <1>2, <1>4, <1>5, <1>6

\* A rollout that is reported complete was accepted by every required target and by the
\* minimum number of the allowed ones, whatever receipts the report was given.
THEOREM ReportedRolloutsAreAccepted == Spec => []RolloutIsAccepted
<1>1. IInv => RolloutIsAccepted
  <2> SUFFICES ASSUME IInv, NEW c \in issued, NEW policy \in Policies,
                      NEW supplied \in SUBSET acks, NEW at \in Time,
                      RolloutAcknowledged(c, policy, supplied, at)
               PROVE  LET consumers == {t \in policy.allowed : <<t, c>> \in accepted}
                      IN /\ policy.required \subseteq consumers
                         /\ Cardinality(consumers) >= policy.minimum
    BY DEF RolloutIsAccepted
  <2> DEFINE consumers == {t \in policy.allowed : <<t, c>> \in accepted}
  <2>1. ASSUME NEW r \in supplied PROVE r.target \in consumers
    <3>1. /\ ReceiptVerifies(r, ReceiptKeys)
          /\ r.checkpoint = c /\ r.target \in policy.allowed
      BY DEF RolloutAcknowledged, RolloutRejected, Unbound
    <3>2. PICK t \in Targets : SignedBy(t, r) /\ <<t, r.checkpoint>> \in accepted
      BY DEF IInv, AcksFollowInstallation
    <3>3. r.target = t
      BY <3>1, <3>2, ReceiptsNameTheirSigner
    <3> QED BY <3>1, <3>2, <3>3
  <2>2. TargetsOf(supplied) \subseteq consumers
    BY <2>1 DEF TargetsOf
  <2>3. CoverageFindings(policy, TargetsOf(supplied)) = {}
    BY DEF RolloutAcknowledged, RolloutFindings
  <2>4. consumers \subseteq policy.allowed
    OBVIOUS
  <2> HIDE DEF consumers
  <2>5. /\ policy.required \subseteq consumers
        /\ Cardinality(consumers) >= policy.minimum
    BY <2>2, <2>3, <2>4, FindingsAreComplete
  <2> QED BY <2>5 DEF consumers
<1> QED BY <1>1, TrustInvariantHolds, PTL

\* Runtime state that is reported current was the state of every required target, and of
\* the minimum number of the allowed ones, no longer ago than the policy admits.
THEOREM ReportedRuntimesAreLoaded == Spec => []RuntimeIsLoaded
<1>1. IInv => RuntimeIsLoaded
  <2> SUFFICES ASSUME IInv, NEW c \in issued, NEW policy \in Policies,
                      NEW supplied \in SUBSET attestations, NEW at \in Time,
                      RuntimeStateCurrent(c, policy, supplied, at)
               PROVE  LET running ==
                            {t \in policy.allowed :
                               \E x \in c.issued..at :
                                 <<t, c.store, x>> \in loaded /\ at - x <= policy.maxAge}
                      IN /\ policy.required \subseteq running
                         /\ Cardinality(running) >= policy.minimum
    BY DEF RuntimeIsLoaded
  <2> DEFINE running == {t \in policy.allowed :
                           \E x \in c.issued..at :
                             <<t, c.store, x>> \in loaded /\ at - x <= policy.maxAge}
             fresh == Fresh(policy, supplied, at)
  <2>1. ASSUME NEW r \in fresh PROVE r.target \in running
    <3>1. r \in supplied /\ at - r.at <= policy.maxAge
      BY DEF Fresh
    <3>2. /\ AttestationVerifies(r, ReceiptKeys) /\ ~Unbound(r, c, policy, at)
          /\ r.loaded = c.store /\ ~(r.at < c.issued)
      BY <3>1 DEF RuntimeStateCurrent, RuntimeRejected
    <3>3. ReceiptVerifies(r, ReceiptKeys) /\ r.target \in policy.allowed /\ ~(r.at > at)
      BY <3>2 DEF AttestationVerifies, Unbound
    <3>4. PICK t \in Targets : SignedBy(t, r) /\ <<t, r.loaded, r.at>> \in loaded
      BY <3>1 DEF IInv, AttestationsFollowLoading
    <3>5. r.target = t
      BY <3>3, <3>4, ReceiptsNameTheirSigner
    <3>6. r.at \in Int /\ c.issued \in Int /\ at \in Int
      BY <3>1, BoundAssumption DEF IInv, AttestationsFollowLoading, TimesAreTimes, Time
    <3>7. r.at \in c.issued..at
      BY <3>2, <3>3, <3>6
    <3>8. <<r.target, c.store, r.at>> \in loaded
      BY <3>2, <3>4, <3>5
    <3> HIDE DEF fresh
    <3> QED BY <3>1, <3>3, <3>7, <3>8
  <2>2. TargetsOf(fresh) \subseteq running
    BY <2>1 DEF TargetsOf
  <2>3. CoverageFindings(policy, TargetsOf(fresh)) = {}
    BY DEF RuntimeStateCurrent, RuntimeFindings
  <2>4. running \subseteq policy.allowed
    OBVIOUS
  <2> HIDE DEF running, fresh
  <2>5. /\ policy.required \subseteq running
        /\ Cardinality(running) >= policy.minimum
    BY <2>2, <2>3, <2>4, FindingsAreComplete
  <2> QED BY <2>5 DEF running
<1> QED BY <1>1, TrustInvariantHolds, PTL
=============================================================================
