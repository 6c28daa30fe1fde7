CONSTANTS
  Replicas = {r1, r2}
  Calls = {c1, c2}
  Tokens = {"t1", "t2", "t3", "t4"}
  Actions = {"transfer", "read", "opaque"}
  Encodable = {"transfer", "read"}
  Decisions <- MCDecisions
  Requests <- MCRequests
  Rewrites <- MCRewrites
  StoreKinds = {"file", "memory"}
  Shared = shared
  NoToken = "none"
  MaxTime = 1
  MaxCrashes = 1
SPECIFICATION Spec
INVARIANTS TypeOK AtMostOneEffect EffectIsAuthorized EffectIsAudited SpentOnlyPastGates RefusalIsFinal
PROPERTIES ImplementsOneTimeEffect
SYMMETRY MCSymmetry
CHECK_DEADLOCK FALSE
