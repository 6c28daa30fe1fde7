------------------------------ MODULE MCHashLog ------------------------------
(* HashLog on a small instance: two record() calls, threads of one process *)
(* or of two that share the file, one process with an anchor.              *)
EXTENDS HashLog, TLC

(* The calls differ in nothing but their content.                          *)
MCSymmetry == Permutations(Records)

=============================================================================
