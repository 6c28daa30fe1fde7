------------------------------ MODULE Verdicts ------------------------------
(***************************************************************************)
(* The verdict lattice of decision_os_min/compose.py:                      *)
(*     ALLOW < LIMIT < CONTAIN < DEFER < DENY   (less to more restrictive) *)
(* A "verdict" handed to these operators is any value at all: evaluators   *)
(* and policy decision points are untrusted, and Normalize maps whatever   *)
(* is not a member of the lattice onto DENY.                               *)
(***************************************************************************)
EXTENDS Integers, Sequences

Seqs == INSTANCE SequencesExt

VERDICTS   == {"ALLOW", "LIMIT", "CONTAIN", "DEFER", "DENY"}
PERMITTING == {"ALLOW", "LIMIT", "CONTAIN"}

Rank == [v \in VERDICTS |-> CASE v = "ALLOW"   -> 0
                              [] v = "LIMIT"   -> 1
                              [] v = "CONTAIN" -> 2
                              [] v = "DEFER"   -> 3
                              [] v = "DENY"    -> 4]

Normalize(v) == IF v \in VERDICTS THEN v ELSE "DENY"

(* meet(): the more restrictive of two verdicts, the first one on a tie.   *)
Meet(a, b) ==
    IF Rank[Normalize(a)] >= Rank[Normalize(b)] THEN Normalize(a)
                                                ELSE Normalize(b)

(* compose(): Meet folded over any number of verdicts; ALLOW if there are  *)
(* none.                                                                   *)
Compose(verdicts) == Seqs!FoldLeft(Meet, "ALLOW", verdicts)

(* more_restrictive(): whichever decision record has the more restrictive  *)
(* verdict, adopted whole; a tie keeps the first.                          *)
MoreRestrictive(d1, d2) ==
    IF Rank[Normalize(d2.verdict)] > Rank[Normalize(d1.verdict)] THEN d2 ELSE d1

=============================================================================
