CONSTANTS
  Calls = {c1, c2}
  Agents = {a1, a2}
  Identities = {i1, i2}
  Nonces = {n1, n2}
  Tools = {"deploy", "unknown"}
  SealedTools = {"deploy"}
  Policies = {"ALLOW", "DENY"}
  Opinions = {"ALLOW", "DEFER"}
  NoOne = none
  NoArm = noarm
  Foreign = foreign
  MaxTime = 1
  MaxRestarts = 1
SPECIFICATION Spec
INVARIANTS TypeOK ExecutedIsMediated AuditAgrees NoLooseArm ArmStolenOnlyInRace
PROPERTIES ImplementsOneTimeEffect
SYMMETRY MCSymmetry
CHECK_DEADLOCK FALSE
