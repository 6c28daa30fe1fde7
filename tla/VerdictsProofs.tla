--------------------------- MODULE VerdictsProofs ---------------------------
(***************************************************************************)
(* The algebra the kernel's composition rests on, proved for arbitrary     *)
(* operands: nothing is assumed of a, b and c, so every lemma also covers  *)
(* the malformed output of an untrusted evaluator.                         *)
(***************************************************************************)
EXTENDS Verdicts, WellFoundedInduction, TLAPS

(* Whatever an evaluator returns, normalize() puts it inside the lattice.  *)
LEMMA NormalizeInLattice ==
  ASSUME NEW a
  PROVE  Normalize(a) \in VERDICTS
BY DEF Normalize, VERDICTS

(* Ranks are numbers, and two verdicts of equal rank are the same verdict: *)
(* the order is total and antisymmetric.                                   *)
LEMMA RankIsInjective ==
  ASSUME NEW v \in VERDICTS, NEW w \in VERDICTS
  PROVE  /\ Rank[v] \in 0..4
         /\ Rank[v] = Rank[w] => v = w
BY DEF Rank, VERDICTS

(* A verdict permits exactly when it ranks below DEFER.                    *)
LEMMA PermittingByRank ==
  ASSUME NEW v \in VERDICTS
  PROVE  v \in PERMITTING <=> Rank[v] < 3
BY DEF Rank, VERDICTS, PERMITTING

(* meet() is an upper bound of the restrictiveness of both operands, and   *)
(* it is one of them.                                                      *)
LEMMA MeetIsGreatest ==
  ASSUME NEW a, NEW b
  PROVE  /\ Meet(a, b) \in VERDICTS
         /\ Meet(a, b) \in {Normalize(a), Normalize(b)}
         /\ Rank[Meet(a, b)] >= Rank[Normalize(a)]
         /\ Rank[Meet(a, b)] >= Rank[Normalize(b)]
<1>1. /\ Normalize(a) \in VERDICTS
      /\ Normalize(b) \in VERDICTS
  BY NormalizeInLattice
<1>2. /\ Rank[Normalize(a)] \in 0..4
      /\ Rank[Normalize(b)] \in 0..4
  BY <1>1, RankIsInjective
<1>3. QED
  BY <1>1, <1>2 DEF Meet

(* compose.py:91-94 promises commutativity for arbitrary input, on and off *)
(* the lattice.                                                            *)
THEOREM MeetCommutes ==
  ASSUME NEW a, NEW b
  PROVE  Meet(a, b) = Meet(b, a)
<1>1. /\ Normalize(a) \in VERDICTS
      /\ Normalize(b) \in VERDICTS
  BY NormalizeInLattice
<1>2. /\ Rank[Normalize(a)] \in 0..4
      /\ Rank[Normalize(b)] \in 0..4
      /\ Rank[Normalize(a)] = Rank[Normalize(b)] => Normalize(a) = Normalize(b)
  BY <1>1, RankIsInjective
<1>3. QED
  BY <1>2 DEF Meet

(* A verdict that is in the lattice already is left alone.                 *)
LEMMA NormalizeIdempotent ==
  ASSUME NEW v \in VERDICTS
  PROVE  Normalize(v) = v
BY DEF Normalize

(* The fold over evaluators does not depend on how they are grouped.       *)
THEOREM MeetAssociates ==
  ASSUME NEW a, NEW b, NEW c
  PROVE  Meet(Meet(a, b), c) = Meet(a, Meet(b, c))
<1> DEFINE x == Normalize(a)
           y == Normalize(b)
           z == Normalize(c)
<1>1. /\ x \in VERDICTS
      /\ y \in VERDICTS
      /\ z \in VERDICTS
  BY NormalizeInLattice
<1>2. /\ Rank[x] \in 0..4
      /\ Rank[y] \in 0..4
      /\ Rank[z] \in 0..4
  BY <1>1, RankIsInjective
<1>3. /\ Normalize(Meet(a, b)) = Meet(a, b)
      /\ Normalize(Meet(b, c)) = Meet(b, c)
  BY MeetIsGreatest, NormalizeIdempotent
<1>4. /\ Meet(a, b) = IF Rank[x] >= Rank[y] THEN x ELSE y
      /\ Meet(b, c) = IF Rank[y] >= Rank[z] THEN y ELSE z
  BY DEF Meet
<1>5. /\ Meet(Meet(a, b), c) = IF Rank[Meet(a, b)] >= Rank[z] THEN Meet(a, b) ELSE z
      /\ Meet(a, Meet(b, c)) = IF Rank[x] >= Rank[Meet(b, c)] THEN x ELSE Meet(b, c)
  BY <1>3 DEF Meet
<1> HIDE DEF x, y, z
<1>6. QED
  BY <1>1, <1>2, <1>4, <1>5

(* ALLOW is the identity and DENY absorbs: an evaluator that allows        *)
(* changes nothing, and no verdict resurrects a denied action.             *)
THEOREM MeetIdentityAndZero ==
  ASSUME NEW a
  PROVE  /\ Meet("ALLOW", a) = Normalize(a)
         /\ Meet("DENY", a) = "DENY"
<1>1. Normalize(a) \in VERDICTS
  BY NormalizeInLattice
<1>2. /\ Normalize("ALLOW") = "ALLOW"
      /\ Normalize("DENY") = "DENY"
      /\ Rank["ALLOW"] = 0
      /\ Rank["DENY"] = 4
  BY DEF Normalize, VERDICTS, Rank
<1>3. /\ Rank[Normalize(a)] \in 0..4
      /\ Rank[Normalize(a)] = Rank["ALLOW"] => Normalize(a) = "ALLOW"
      /\ Rank[Normalize(a)] = Rank["DENY"] => Normalize(a) = "DENY"
  BY <1>1, RankIsInjective DEF VERDICTS
<1>4. QED
  BY <1>2, <1>3 DEF Meet

(* The composed verdict permits only if both sides do: a token needs the   *)
(* permission of every evaluator (kernel.py:531).                          *)
THEOREM MeetPermitsOnlyByConsensus ==
  ASSUME NEW a, NEW b
  PROVE  Meet(a, b) \in PERMITTING
           <=> Normalize(a) \in PERMITTING /\ Normalize(b) \in PERMITTING
<1>1. /\ Normalize(a) \in VERDICTS
      /\ Normalize(b) \in VERDICTS
      /\ Meet(a, b) \in VERDICTS
  BY NormalizeInLattice, MeetIsGreatest
<1>2. /\ Rank[Normalize(a)] \in 0..4
      /\ Rank[Normalize(b)] \in 0..4
  BY <1>1, RankIsInjective
<1>3. QED
  BY <1>1, <1>2, MeetIsGreatest, PermittingByRank

(* more_restrictive() on records computes the meet of their verdicts, so   *)
(* the kernel's loop over dictionaries is the fold of the lattice.         *)
THEOREM MoreRestrictiveMeets ==
  ASSUME NEW d1, NEW d2
  PROVE  /\ MoreRestrictive(d1, d2) \in {d1, d2}
         /\ Normalize(MoreRestrictive(d1, d2).verdict) = Meet(d1.verdict, d2.verdict)
<1>1. /\ Normalize(d1.verdict) \in VERDICTS
      /\ Normalize(d2.verdict) \in VERDICTS
  BY NormalizeInLattice
<1>2. /\ Rank[Normalize(d1.verdict)] \in 0..4
      /\ Rank[Normalize(d2.verdict)] \in 0..4
  BY <1>1, RankIsInjective
<1>3. QED
  BY <1>2 DEF MoreRestrictive, Meet

-----------------------------------------------------------------------------
(* Composition of any number of verdicts                                   *)

(* What a fold over the verdicts at the indices s should come to: one of   *)
(* them, or ALLOW, and at least as restrictive as each.                    *)
Governs(v, verdicts, s) ==
  /\ v \in VERDICTS
  /\ v = "ALLOW" \/ \E i \in s : Normalize(verdicts[i]) = v
  /\ \A i \in s : Rank[Normalize(verdicts[i])] <= Rank[v]

Governing(verdicts, s) == CHOOSE v : Governs(v, verdicts, s)

LEMMA GovernsOnce ==
  ASSUME NEW verdicts, NEW s, NEW v, NEW w, Governs(v, verdicts, s), Governs(w, verdicts, s)
  PROVE  v = w
<1>1. v \in VERDICTS /\ w \in VERDICTS
  BY DEF Governs
<1>2. Rank[v] \in 0..4 /\ Rank[w] \in 0..4 /\ (Rank[v] = Rank[w] => v = w)
  BY <1>1, RankIsInjective
<1>3. Rank["ALLOW"] = 0
  BY DEF Rank, VERDICTS
<1>4. Rank[v] <= Rank[w]
  BY <1>2, <1>3 DEF Governs
<1>5. Rank[w] <= Rank[v]
  BY <1>2, <1>3 DEF Governs
<1> QED
  BY <1>2, <1>4, <1>5

LEMMA GovernsExtends ==
  ASSUME NEW verdicts, NEW s, NEW v, NEW x, Governs(v, verdicts, s)
  PROVE  Governs(Meet(v, verdicts[x]), verdicts, s \cup {x})
<1> DEFINE m == Meet(v, verdicts[x])
<1>1. v \in VERDICTS /\ Normalize(v) = v
  BY NormalizeIdempotent DEF Governs
<1>2. /\ m \in VERDICTS /\ m \in {v, Normalize(verdicts[x])}
      /\ Rank[m] >= Rank[v] /\ Rank[m] >= Rank[Normalize(verdicts[x])]
  BY <1>1, MeetIsGreatest
<1> HIDE DEF m
<1>3. \A i \in s \cup {x} : Rank[Normalize(verdicts[i])] \in 0..4 /\ Rank[v] \in 0..4 /\ Rank[m] \in 0..4
  BY <1>1, <1>2, NormalizeInLattice, RankIsInjective
<1>4. \A i \in s \cup {x} : Rank[Normalize(verdicts[i])] <= Rank[m]
  BY <1>2, <1>3 DEF Governs
<1>5. m = "ALLOW" \/ \E i \in s \cup {x} : Normalize(verdicts[i]) = m
  BY <1>2 DEF Governs
<1>6. Governs(m, verdicts, s \cup {x})
  BY <1>2, <1>4, <1>5 DEF Governs
<1> QED
  BY <1>6 DEF m

(* Every set of verdicts has a most restrictive one.                       *)
LEMMA SomeGoverns ==
  ASSUME NEW verdicts, NEW s
  PROVE  \E v : Governs(v, verdicts, s)
<1> DEFINE Heard(v) == \E i \in s : Normalize(verdicts[i]) = v
<1>1. \A i \in s : Normalize(verdicts[i]) \in VERDICTS
  BY NormalizeInLattice
<1>2. /\ VERDICTS = {"ALLOW", "LIMIT", "CONTAIN", "DEFER", "DENY"}
      /\ Rank["ALLOW"] = 0 /\ Rank["LIMIT"] = 1 /\ Rank["CONTAIN"] = 2 /\ Rank["DEFER"] = 3 /\ Rank["DENY"] = 4
  BY DEF VERDICTS, Rank
<1>3. CASE Heard("DENY")
  <2>1. \A i \in s : Rank[Normalize(verdicts[i])] <= Rank["DENY"]
    BY <1>1, <1>2
  <2> QED
    BY <1>2, <1>3, <2>1 DEF Governs
<1>4. CASE ~Heard("DENY") /\ Heard("DEFER")
  <2>1. \A i \in s : Rank[Normalize(verdicts[i])] <= Rank["DEFER"]
    BY <1>1, <1>2, <1>4
  <2> QED
    BY <1>2, <1>4, <2>1 DEF Governs
<1>5. CASE ~Heard("DENY") /\ ~Heard("DEFER") /\ Heard("CONTAIN")
  <2>1. \A i \in s : Rank[Normalize(verdicts[i])] <= Rank["CONTAIN"]
    BY <1>1, <1>2, <1>5
  <2> QED
    BY <1>2, <1>5, <2>1 DEF Governs
<1>6. CASE ~Heard("DENY") /\ ~Heard("DEFER") /\ ~Heard("CONTAIN") /\ Heard("LIMIT")
  <2>1. \A i \in s : Rank[Normalize(verdicts[i])] <= Rank["LIMIT"]
    BY <1>1, <1>2, <1>6
  <2> QED
    BY <1>2, <1>6, <2>1 DEF Governs
<1>7. CASE ~Heard("DENY") /\ ~Heard("DEFER") /\ ~Heard("CONTAIN") /\ ~Heard("LIMIT")
  <2>1. \A i \in s : Rank[Normalize(verdicts[i])] <= Rank["ALLOW"]
    BY <1>1, <1>2, <1>7
  <2> QED
    BY <1>2, <2>1 DEF Governs
<1> QED
  BY <1>3, <1>4, <1>5, <1>6, <1>7

LEMMA GoverningGoverns ==
  ASSUME NEW verdicts, NEW s
  PROVE  Governs(Governing(verdicts, s), verdicts, s)
BY SomeGoverns, Zenon DEF Governing

(* A set of naturals has a least member ...                                *)
LEMMA Least ==
  ASSUME NEW S \in SUBSET Nat, S # {}
  PROVE  \E k \in S : \A m \in S : k <= m
<1> DEFINE Less == OpToRel(<, Nat)
<1>1. IsWellFoundedOn(Less, Nat)
  BY NatLessThanWellFounded, Zenon
<1> HIDE DEF Less
<1>2. PICK k \in S : \A m \in S : ~(<<m, k>> \in Less)
  BY <1>1, WFMin, Zenon
<1>3. \A m \in S : ~(m < k)
  BY <1>2 DEF Less, OpToRel
<1> QED
  BY <1>3

(* ... and a bounded one has a greatest, which is what FoldLeft takes out. *)
Top(s) == CHOOSE x \in s : \A y \in s : x >= y

LEMMA TopOnTop ==
  ASSUME NEW n \in Nat, NEW s \in SUBSET (1..n), s # {}
  PROVE  Top(s) \in s /\ \A y \in s : Top(s) >= y
<1> DEFINE T == {n - x : x \in s}
<1>1. T \in SUBSET Nat /\ T # {}
  <2>1. \A x \in s : x \in Int /\ x <= n
    OBVIOUS
  <2>2. \A x \in s : n - x \in Nat
    BY <2>1
  <2>3. PICK x \in s : TRUE
    OBVIOUS
  <2>4. n - x \in T
    BY <2>3
  <2> QED
    BY <2>2, <2>4
<1> HIDE DEF T
<1>2. PICK k \in T : \A m \in T : k <= m
  BY <1>1, Least
<1>3. PICK x \in s : k = n - x
  BY <1>2 DEF T
<1>4. \A y \in s : n - y \in T /\ y \in 1..n
  BY DEF T
<1>5. \A y \in s : x >= y
  BY <1>2, <1>3, <1>4
<1> QED
  BY <1>5, Zenon DEF Top

(* FoldLeft, as the function it chooses.                                   *)
Folded(verdicts, g) ==
  [s \in SUBSET DOMAIN verdicts |->
     IF s = {} THEN "ALLOW" ELSE Meet(g[s \ {Top(s)}], verdicts[Top(s)])]

LEMMA ComposeFolds ==
  ASSUME NEW verdicts
  PROVE  Compose(verdicts) = (CHOOSE g : g = Folded(verdicts, g))[DOMAIN verdicts]
BY Zenon DEF Compose, Seqs!FoldLeft, Seqs!MapThenFoldSet, Seqs!Max, Top, Folded

(* There is such a function: what governs each set of indices.             *)
LEMMA FoldExists ==
  ASSUME NEW S, NEW verdicts \in Seq(S)
  PROVE  \E g : g = Folded(verdicts, g)
<1> DEFINE g == [s \in SUBSET DOMAIN verdicts |-> Governing(verdicts, s)]
<1>1. ASSUME NEW s \in SUBSET DOMAIN verdicts
      PROVE  g[s] = Folded(verdicts, g)[s]
  <2>1. CASE s = {}
    <3>1. Governs("ALLOW", verdicts, {})
      BY DEF Governs, VERDICTS
    <3>2. Governing(verdicts, {}) = "ALLOW"
      BY <3>1, GoverningGoverns, GovernsOnce
    <3> QED
      BY <2>1, <3>2 DEF Folded
  <2>2. CASE s # {}
    <3>1. Top(s) \in s
      <4>1. DOMAIN verdicts = 1..Len(verdicts) /\ Len(verdicts) \in Nat
        OBVIOUS
      <4>2. s \in SUBSET (1..Len(verdicts))
        BY <4>1
      <4> QED
        BY <2>2, <4>1, <4>2, TopOnTop
    <3> DEFINE r == s \ {Top(s)}
    <3>2. r \in SUBSET DOMAIN verdicts /\ r \cup {Top(s)} = s
      BY <3>1
    <3>3. Governs(Meet(Governing(verdicts, r), verdicts[Top(s)]), verdicts, s)
      <4>1. Governs(Meet(Governing(verdicts, r), verdicts[Top(s)]), verdicts, r \cup {Top(s)})
        BY GoverningGoverns, GovernsExtends
      <4> QED
        BY <3>2, <4>1
    <3>4. Governing(verdicts, s) = Meet(Governing(verdicts, r), verdicts[Top(s)])
      BY <3>3, GoverningGoverns, GovernsOnce
    <3> QED
      BY <2>2, <3>2, <3>4 DEF Folded
  <2> QED
    BY <2>1, <2>2
<1>2. g = Folded(verdicts, g)
  <2>1. Folded(verdicts, g) = [s \in SUBSET DOMAIN verdicts |-> Folded(verdicts, g)[s]]
    BY DEF Folded
  <2> QED
    BY <1>1, <2>1
<1> QED
  BY <1>2

(* compose() returns the most restrictive of what it was given, ALLOW if   *)
(* that is nothing: the fold along the sequence has no other value.        *)
THEOREM ComposeIsStrictest ==
  ASSUME NEW S, NEW verdicts \in Seq(S)
  PROVE  Governs(Compose(verdicts), verdicts, DOMAIN verdicts)
<1> DEFINE g == CHOOSE f : f = Folded(verdicts, f)
           n == Len(verdicts)
<1>1. g = Folded(verdicts, g)
  BY FoldExists, Zenon
<1>2. DOMAIN verdicts = 1..n /\ n \in Nat
  OBVIOUS
<1>3. Compose(verdicts) = g[DOMAIN verdicts]
  BY ComposeFolds
<1> HIDE DEF g, n
<1>4. g[{}] = "ALLOW"
  BY <1>1 DEF Folded
<1>5. ASSUME NEW k \in 1..n
      PROVE  g[1..k] = Meet(g[1..(k - 1)], verdicts[k])
  <2>1. (1..k) \in SUBSET DOMAIN verdicts /\ (1..k) # {}
    BY <1>2
  <2>2. Top(1..k) = k
    <3>1. Top(1..k) \in 1..k /\ \A y \in 1..k : Top(1..k) >= y
      BY <1>2, <2>1, TopOnTop
    <3> QED
      BY <3>1
  <2>3. (1..k) \ {k} = 1..(k - 1)
    OBVIOUS
  <2>4. g[1..k] = Meet(g[(1..k) \ {Top(1..k)}], verdicts[Top(1..k)])
    BY <1>1, <2>1 DEF Folded
  <2> QED
    BY <2>2, <2>3, <2>4
<1> DEFINE Wrong == {k \in 0..n : ~Governs(g[1..k], verdicts, 1..k)}
<1>6. Wrong = {}
  <2> SUFFICES ASSUME Wrong # {} PROVE FALSE
    OBVIOUS
  <2>1. PICK k \in Wrong : \A m \in Wrong : k <= m
    <3>1. Wrong \in SUBSET Nat
      BY <1>2
    <3> HIDE DEF Wrong
    <3> QED
      BY <3>1, Least
  <2>2. CASE k = 0
    <3>1. 1..k = {}
      BY <2>2
    <3>2. Governs("ALLOW", verdicts, {})
      BY DEF Governs, VERDICTS
    <3> QED
      BY <1>4, <2>1, <3>1, <3>2
  <2>3. CASE k # 0
    <3>1. k \in 1..n /\ k - 1 \in 0..n /\ k - 1 \notin Wrong
      BY <1>2, <2>1, <2>3
    <3>2. Governs(g[1..(k - 1)], verdicts, 1..(k - 1))
      BY <3>1
    <3>3. Governs(Meet(g[1..(k - 1)], verdicts[k]), verdicts, (1..(k - 1)) \cup {k})
      BY <3>2, GovernsExtends
    <3>4. (1..(k - 1)) \cup {k} = 1..k
      BY <3>1
    <3>5. Governs(g[1..k], verdicts, 1..k)
      BY <1>5, <3>1, <3>3, <3>4
    <3> QED
      BY <2>1, <3>5
  <2> QED
    BY <2>2, <2>3
<1>7. Governs(g[1..n], verdicts, 1..n)
  BY <1>2, <1>6
<1> QED
  BY <1>2, <1>3, <1>7

(* It permits only by the consensus of all: a token needs the permission   *)
(* of every evaluator, and nothing that is no verdict permits.             *)
THEOREM ComposePermitsOnlyByConsensus ==
  ASSUME NEW S, NEW verdicts \in Seq(S)
  PROVE  Compose(verdicts) \in PERMITTING
           <=> \A i \in DOMAIN verdicts : Normalize(verdicts[i]) \in PERMITTING
<1> DEFINE m == Compose(verdicts)
<1>1. Governs(m, verdicts, DOMAIN verdicts)
  BY ComposeIsStrictest
<1> HIDE DEF m
<1>2. m \in VERDICTS /\ Rank[m] \in 0..4 /\ (m \in PERMITTING <=> Rank[m] < 3)
  BY <1>1, RankIsInjective, PermittingByRank DEF Governs
<1>3. \A i \in DOMAIN verdicts :
        LET v == Normalize(verdicts[i]) IN Rank[v] \in 0..4 /\ (v \in PERMITTING <=> Rank[v] < 3)
  BY NormalizeInLattice, RankIsInjective, PermittingByRank
<1>4. ASSUME m \in PERMITTING, NEW i \in DOMAIN verdicts PROVE Normalize(verdicts[i]) \in PERMITTING
  BY <1>1, <1>2, <1>3, <1>4 DEF Governs
<1>5. ASSUME \A i \in DOMAIN verdicts : Normalize(verdicts[i]) \in PERMITTING PROVE m \in PERMITTING
  <2>1. "ALLOW" \in PERMITTING
    BY DEF PERMITTING
  <2> QED
    BY <1>1, <1>5, <2>1 DEF Governs
<1> QED
  BY <1>4, <1>5 DEF m

(* compose.py promises that order does not matter; nor does repetition:    *)
(* what counts is which verdicts were given.                               *)
THEOREM ComposeIgnoresOrder ==
  ASSUME NEW S, NEW v \in Seq(S), NEW w \in Seq(S),
         \A i \in DOMAIN v : \E j \in DOMAIN w : Normalize(w[j]) = Normalize(v[i]),
         \A j \in DOMAIN w : \E i \in DOMAIN v : Normalize(v[i]) = Normalize(w[j])
  PROVE  Compose(v) = Compose(w)
<1>1. Governs(Compose(v), v, DOMAIN v) /\ Governs(Compose(w), w, DOMAIN w)
  BY ComposeIsStrictest
<1>2. Governs(Compose(w), v, DOMAIN v)
  BY <1>1 DEF Governs
<1> QED
  BY <1>1, <1>2, GovernsOnce

(* One more verdict is one more meet.                                      *)
THEOREM ComposeExtends ==
  ASSUME NEW S, NEW verdicts \in Seq(S), NEW v \in S
  PROVE  Compose(Append(verdicts, v)) = Meet(Compose(verdicts), v)
<1> DEFINE e == Append(verdicts, v)
           n == Len(verdicts)
           m == Meet(Compose(verdicts), v)
<1>1. e \in Seq(S) /\ DOMAIN e = (1..n) \cup {n + 1} /\ DOMAIN verdicts = 1..n
      /\ e[n + 1] = v /\ \A i \in 1..n : e[i] = verdicts[i]
  OBVIOUS
<1>2. Governs(Compose(e), e, DOMAIN e)
  BY <1>1, ComposeIsStrictest
<1>3. Governs(Compose(verdicts), verdicts, 1..n)
  BY <1>1, ComposeIsStrictest
<1> HIDE DEF e
<1>4. Governs(Compose(verdicts), e, 1..n)
  BY <1>1, <1>3 DEF Governs
<1>5. Governs(Meet(Compose(verdicts), e[n + 1]), e, (1..n) \cup {n + 1})
  BY <1>4, GovernsExtends
<1> QED
  BY <1>1, <1>2, <1>5, GovernsOnce DEF e

=============================================================================
