------------------------------- MODULE MCService -------------------------------
(* Service on a small instance: two workers on one volume, two requests and  *)
(* two faults, with environments that are accepted and that are not.         *)
EXTENDS Service

Environment(pdp, policy) ==
  [pdp |-> pdp, complete |-> FALSE, timeouts |-> "positive", policy |-> policy]

MCConfigs == { Environment("builtin", "sound"), Environment("builtin", "misshapen"),
               Environment("builtin", "unreadable"), Environment("opa", "sound") }

ASSUME EnoughKeys == Cardinality(Keys) >= Cardinality(Workers) + MaxFaults

=============================================================================
