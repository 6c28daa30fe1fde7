-------------------------------- MODULE MCPep --------------------------------
(* Pep on a small instance: two calls on two replicas, so that a decision  *)
(* can be replayed, raced and retried after a crash.                       *)
EXTENDS Pep, TLC

Signed(verdict, action, token, minimized, sandboxed) ==
  [verdict |-> verdict, action |-> action, token |-> token, expires |-> 1,
   minimized |-> minimized, sandboxed |-> sandboxed]

Allow   == Signed("ALLOW",   "transfer", "t1", FALSE, FALSE)
Limit   == Signed("LIMIT",   "transfer", "t2", TRUE,  FALSE)
Veto    == Signed("LIMIT",   "transfer", "t3", FALSE, FALSE)
Contain == Signed("CONTAIN", "transfer", "t4", TRUE,  FALSE)
Deny    == Signed("DENY",    "transfer", NoToken, FALSE, FALSE)

(* No kernel signed this one: the first with another action written in.    *)
Forged  == Signed("ALLOW",   "read", "t1", FALSE, FALSE)

(* One decision for each gate: permitted, minimized, a LIMIT that carries  *)
(* nothing to discharge it with, contained, refused.                       *)
MCDecisions == {Allow, Limit, Veto, Contain, Deny}

Present(d) == [decision |-> d, authentic |-> d \in MCDecisions, formed |-> TRUE,
               action |-> d.action, tool |-> TRUE]

(* Each decision presented as it should be, and the permitting one with    *)
(* another action, with one that cannot be encoded and with no tool.       *)
MCRequests ==
  { Present(d) : d \in MCDecisions } \cup
  { [Present(Allow) EXCEPT !.action = "read"],
    [Present(Allow) EXCEPT !.action = "opaque"],
    [Present(Allow) EXCEPT !.tool = FALSE] }

(* The decision is forged, or broken, before it is looked at or after.     *)
MCRewrites == { Present(Forged), [Present(Forged) EXCEPT !.formed = FALSE] }

(* Replicas and calls are interchangeable: nothing chooses among them.     *)
MCSymmetry == Permutations(Replicas) \cup Permutations(Calls)

=============================================================================
