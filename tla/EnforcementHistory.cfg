SPECIFICATION Spec
CONSTANTS
  r1 = r1
  r2 = r2
  r3 = r3
  o1 = o1
  o2 = o2
  a1 = a1
  a2 = a2
  None = None
  Requests <- MCRequests3
  Evaluations <- MCEvaluation1
  Outputs <- MCOutputs1
  Approvals <- MCApprovals
  Outcome <- MCOutcome1
  GrantedFor <- MCGrantedFor
  IssuedAt <- MCIssuedAt
  ExpiresAt <- MCExpiresAt
  MaxTime = 2
  AtomicAuthority = FALSE
PROPERTY EveryTransitionRecorded
