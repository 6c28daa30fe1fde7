------------------------------- MODULE MCSealed -------------------------------
(* Sealed on a small instance: two threads, two tickets, two agents that    *)
(* may be registered anew, and a restart.                                   *)
EXTENDS Sealed, TLC

MCSymmetry == Permutations(Calls) \cup Permutations(Agents) \cup Permutations(Identities) \cup Permutations(Nonces)

=============================================================================
