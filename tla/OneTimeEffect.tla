---------------------------- MODULE OneTimeEffect ----------------------------
(***************************************************************************)
(* What the enforcement point promises of a token, whatever the number of  *)
(* replicas, threads, crashes and retries: it is claimed once, recorded in *)
(* the audit log only after it was claimed, and its effect runs at most    *)
(* once and only after it was recorded.                                    *)
(***************************************************************************)
CONSTANTS Tokens, Calls

VARIABLES
  claimed,    (* tokens whose one use is taken                             *)
  recorded,   (* tokens the audit log shows as executed                    *)
  ranBy       (* the calls that ran the effect of each token               *)

vars == <<claimed, recorded, ranBy>>

Init ==
  /\ claimed = {}
  /\ recorded = {}
  /\ ranBy = [t \in Tokens |-> {}]

Claim(t) ==
  /\ t \notin claimed
  /\ claimed' = claimed \cup {t}
  /\ UNCHANGED <<recorded, ranBy>>

Record(t) ==
  /\ t \in claimed \ recorded
  /\ recorded' = recorded \cup {t}
  /\ UNCHANGED <<claimed, ranBy>>

Run(t, c) ==
  /\ t \in recorded
  /\ ranBy[t] = {}
  /\ ranBy' = [ranBy EXCEPT ![t] = {c}]
  /\ UNCHANGED <<claimed, recorded>>

Next == \E t \in Tokens : Claim(t) \/ Record(t) \/ \E c \in Calls : Run(t, c)

Spec == Init /\ [][Next]_vars

=============================================================================
