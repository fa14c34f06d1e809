SPECIFICATION Spec
CONSTANTS
  Replicas <- MCReplicas
  Pack <- MCPack
  Policies <- MCPolicies
  Contexts <- MCContexts
  Today = 0
  Seeds <- MCSeeds
INVARIANT SameInputSameDigest
