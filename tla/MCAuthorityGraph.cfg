CONSTANTS
  Holders = {h1, h2}
  Tools = {t1, t2}
  Star = "*"
  Never = never
  MaxTime = 2
  MaxGrants = 2
  MaxDelegations = 3
SPECIFICATION Spec
INVARIANTS TypeOK BackedByParent HoldersCanDelegate
PROPERTIES DelegationNarrows OnlyGrantsExtend
SYMMETRY MCSymmetry
CHECK_DEADLOCK FALSE
