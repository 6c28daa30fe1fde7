-------------------------------- MODULE MCHost --------------------------------
(* Host on a small instance: two hosts on one spent-store, and requests that *)
(* are governed, that spoof another agent, that name an unknown tool, that   *)
(* are no Intent at all, and a ping.                                         *)
EXTENDS Host, TLC

Intent(agent, tool) == [kind |-> "intent", agent |-> agent, tool |-> tool]

MCFrame(r) ==
  CASE r = "deploy"    -> Intent("bot", "deploy_ranking")
    [] r = "spoofed"   -> Intent("other", "deploy_ranking")
    [] r = "unsealed"  -> Intent("bot", "unknown")
    [] r = "malformed" -> [Intent("bot", "deploy_ranking") EXCEPT !.kind = "malformed"]
    [] r = "ping"      -> [Intent("bot", "deploy_ranking") EXCEPT !.kind = "ping"]

MCSymmetry == Permutations(Hosts)

=============================================================================
