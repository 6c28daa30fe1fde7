--------------------------- MODULE MCAuthorityGraph ---------------------------
(* AuthorityGraph on a small instance: two holders, so that authority can   *)
(* travel on and come back, and two tools, so that a request can be covered *)
(* by two credentials of different expiry.                                  *)
EXTENDS AuthorityGraph, TLC

MCSymmetry == Permutations(Holders) \cup Permutations(Tools)

=============================================================================
