CONSTANTS
  Processes = {p1, p2}
  Anchored = {p1}
  Records = {e1, e2}
  Forged = forged
  MaxRestarts = 1
SPECIFICATION Spec
INVARIANTS TypeOK RecordedStays SerialLogVerifies AnchorIsTrue TamperEvident
SYMMETRY MCSymmetry
CHECK_DEADLOCK FALSE
