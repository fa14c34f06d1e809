CONSTANTS
  Base          <- MCBase
  Candidates    <- MCCandidates
  Revisions     <- MCRevisions
  Suite         <- MCSuite
  ReviewFiles   <- MCReviewFiles
  PackKeys      <- MCPackKeys
  ReviewKeys    <- MCReviewKeys
  PromotionKeys <- MCPromotionKeys
  Policies      <- MCPolicies
  Lifetime      = 1
  MaxEdits      = 1
  MaxWithdrawals = 1
  MaxAttestations = 2
  MaxPromotions = 2
  MaxTime       = 1
SPECIFICATION Spec
CONSTRAINT Explored
INVARIANTS
  EveryChangeReviewed
  PromotedByQuorum
  DecisionChangesExplained
  CautionIsMonotone
  TransformationsAreExact
CHECK_DEADLOCK FALSE
