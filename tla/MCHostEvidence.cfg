CONSTANTS
  Hosts = {h1, h2}
  Requests = {"deploy", "spoofed", "unsealed", "malformed", "ping"}
  Frame <- MCFrame
  Bound = "bot"
  Adapters = {"deploy_ranking"}
  NoRequest = none
  MaxSends = 3
  MaxSpawns = 2
SPECIFICATION Spec
INVARIANTS EvidenceTellsTruth
SYMMETRY MCSymmetry
CHECK_DEADLOCK FALSE
