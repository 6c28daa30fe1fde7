CONSTANTS
  Workers = {w1, w2}
  Keys = {k1, k2, k3, k4}
  NoKey = nokey
  MaxFaults = 2
  Calls = {c1, c2}
  Rulings = {"ALLOW", "DENY"}
  Configs <- MCConfigs
SPECIFICATION FairSpec
INVARIANTS TypeOK AnsweredIsRecorded SignaturesOutliveRestarts
PROPERTIES EveryWorkerServes
CHECK_DEADLOCK FALSE
