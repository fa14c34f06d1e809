SPECIFICATION Spec
CONSTANTS
  Targets <- MCTargets
  Stores <- MCStores
  Lineages <- MCLineages
  ReceiptKeys <- MCReceiptKeys
  Held <- MCHeld
  Anchoring <- MCAnchoring
  Coverage <- MCCoverage
  Documents <- MCDocuments
  Assertions <- MCAssertions
  Subjects = {"action", "other"}
  Jwks <- MCJwks
  Identity <- MCIdentity
  Deployment <- MCDeployment
  Tokens <- MCTokens
  Requests <- MCRequests
  MaxLifetime = 2
  MaxCheckpoints = 3
  MaxReceipts = 2
  MaxGrants = 2
  MaxTime = 2
CONSTRAINT Explored
CHECK_DEADLOCK FALSE
PROPERTY NoRollback
INVARIANT RolloutIsAccepted
INVARIANT RuntimeIsLoaded
INVARIANT GrantsFollowKeys
INVARIANT CallersAreEntitled
