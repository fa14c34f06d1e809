SPECIFICATION Spec
CONSTANTS
  r1 = r1
  r2 = r2
  r3 = r3
  q1 = q1
  q2 = q2
  q3 = q3
  p1 = p1
  p2 = p2
  k1 = k1
  k2 = k2
  a1 = a1
  a2 = a2
  a3 = a3
  j1 = j1
  j2 = j2
  j3 = j3
  None = None
  Requests <- MCRequests1
  Reconcilers <- MCReconcilers2
  Proposals <- MCProposals1
  Keys <- MCKeys1
  Approvals <- MCApprovals1
  Orders <- MCOrders2
  GrantedFor <- MCGrantedFor1
  Settles <- MCSettles2
  Verdict <- MCVerdict
  IssuedAt <- MCIssuedAt
  ExpiresAt <- MCExpiresAt
  ResultSchema <- MCResultSchema
  Returnable <- MCReturnable1
  Masked = "masked"
  MaxTime = 2
  AtomicAuthority = TRUE
PROPERTIES
  OtherOrdersConflict
