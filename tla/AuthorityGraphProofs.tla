------------------------- MODULE AuthorityGraphProofs -------------------------
(***************************************************************************)
(* Proofs about AuthorityGraph, for any holders and tools, any number of   *)
(* grants, revocations and delegations, and any horizon of time.           *)
(***************************************************************************)
EXTENDS AuthorityGraph, WellFoundedInduction, TLAPS

-----------------------------------------------------------------------------
(* Expiries                                                                *)

LEMMA Earliest ==
  ASSUME NEW S \in SUBSET Nat, S # {}
  PROVE  \E e \in S : \A f \in S : e <= f
<1> DEFINE Less == OpToRel(<, Nat)
<1>1. IsWellFoundedOn(Less, Nat)
  BY NatLessThanWellFounded, Zenon
<1> HIDE DEF Less
<1>2. PICK e \in S : \A f \in S : ~(<<f, e>> \in Less)
  BY <1>1, WFMin, Zenon
<1>3. \A f \in S : ~(f < e)
  BY <1>2 DEF Less, OpToRel
<1> QED
  BY <1>3

(* The child's expiry is the one asked for, or that of a credential that   *)
(* covers part of it, and none of those expires before it.                 *)
LEMMA ClampedIsCeiling ==
  ASSUME TypeOK, NEW p \in Holders, NEW tools \in SUBSET Tools, NEW asked \in Expiries
  PROVE  LET e == Clamped(p, tools, asked)
         IN  /\ e \in Expiries
             /\ e = asked \/ \E c \in Covering(p, tools) : e = c.expires
             /\ \A c \in Covering(p, tools), time \in Nat :
                  Until(e, time) => Until(c.expires, time)
<1> DEFINE ceilings == Ceilings(p, tools)
           ceiling  == CHOOSE e \in ceilings : \A f \in ceilings : e <= f
<1>1. /\ ceilings \subseteq Times
      /\ \A e \in ceilings : \E c \in Covering(p, tools) : e = c.expires
      /\ \A c \in Covering(p, tools) : c.expires = Never \/ c.expires \in ceilings
  BY DEF Ceilings, Covering, LiveAt, TypeOK, Credential, Expiries
<1>2. Times \subseteq Nat /\ Never \notin Nat
  BY GraphAssumption DEF Times
<1>3. ceilings # {} => ceiling \in ceilings /\ \A f \in ceilings : ceiling <= f
  BY <1>1, <1>2, Earliest
<1>4. Clamped(p, tools, asked) =
        IF ceilings = {} \/ (asked # Never /\ asked <= ceiling) THEN asked ELSE ceiling
  BY DEF Clamped
<1> HIDE DEF ceilings, ceiling
<1> DEFINE e == Clamped(p, tools, asked)
<1>5. asked = Never \/ asked \in Nat
  BY <1>2 DEF Expiries
<1>6. \/ e = asked /\ ceilings = {}
      \/ e = asked /\ asked \in Nat /\ ceilings # {} /\ asked <= ceiling
      \/ e = ceiling /\ ceilings # {}
  BY <1>4, <1>5
<1>7. ceilings # {} => ceiling \in Nat
  BY <1>1, <1>2, <1>3
<1> HIDE DEF e
<1>8. e \in Expiries /\ (e = asked \/ \E c \in Covering(p, tools) : e = c.expires)
  BY <1>1, <1>3, <1>6 DEF Expiries
<1>9. ASSUME NEW f \in ceilings PROVE e \in Nat /\ e <= f
  <2>1. ceiling <= f /\ f \in Nat
    BY <1>1, <1>2, <1>3, <1>9
  <2> QED
    BY <1>6, <1>7, <1>9, <2>1
<1>10. ASSUME NEW c \in Covering(p, tools), NEW time \in Nat, Until(e, time)
       PROVE  Until(c.expires, time)
  <2>1. CASE c.expires = Never
    BY <2>1 DEF Until
  <2>2. CASE c.expires \in ceilings
    <3>1. e \in Nat /\ e <= c.expires /\ c.expires \in Nat
      BY <1>1, <1>2, <1>9, <2>2
    <3> QED
      BY <1>2, <1>10, <3>1 DEF Until
  <2> QED
    BY <1>1, <2>1, <2>2
<1> QED
  BY <1>8, <1>10 DEF e

(* A delegation gives nothing its parent does not have, now or later.      *)
LEMMA DelegableNarrows ==
  ASSUME TypeOK, NEW p \in Holders, NEW requested \in SUBSET Tools, NEW asked \in Expiries,
         Delegable(p, requested, asked),
         NEW t \in Allowed(p, requested), NEW time \in Nat,
         time >= now, Until(Clamped(p, Allowed(p, requested), asked), time)
  PROVE  HoldsAt(p, t, time)
<1> DEFINE tools == Allowed(p, requested)
<1>1. tools \in SUBSET Tools
  BY DEF Allowed
<1>2. CASE Star \in root[p] \/ t \in root[p]
  BY <1>2 DEF HoldsAt
<1>3. CASE ~(Star \in root[p] \/ t \in root[p])
  <2>1. t \in Remainder(p, tools)
    BY <1>3 DEF Remainder
  <2>2. PICK c \in Covering(p, tools) : t \in c.tools
    BY <2>1 DEF Delegable
  <2>3. Until(c.expires, time)
    BY <1>1, <2>2, ClampedIsCeiling
  <2> QED
    BY <2>2, <2>3 DEF HoldsAt, Covering, LiveAt
<1> QED
  BY <1>2, <1>3

-----------------------------------------------------------------------------
(* Types                                                                   *)

LEMMA TypeStep == TypeOK /\ [Next]_vars => TypeOK'
<1> SUFFICES ASSUME TypeOK, [Next]_vars PROVE TypeOK'
  OBVIOUS
<1> USE DEF TypeOK
<1>1. ASSUME NEW h \in Holders, NEW cap \in Tools \cup {Star}, Grant(h, cap) PROVE TypeOK'
  BY <1>1 DEF Grant
<1>2. ASSUME NEW h \in Holders, NEW cap \in Tools \cup {Star}, Revoke(h, cap) PROVE TypeOK'
  BY <1>2 DEF Revoke
<1>3. ASSUME NEW p \in Holders, NEW h \in Holders, NEW requested \in SUBSET Tools,
             NEW asked \in Expiries, Delegate(p, h, requested, asked)
      PROVE  TypeOK'
  <2>1. Allowed(p, requested) \in SUBSET Tools
    BY DEF Allowed
  <2>2. Clamped(p, Allowed(p, requested), asked) \in Expiries
    BY <2>1, ClampedIsCeiling
  <2> QED
    BY <1>3, <2>1, <2>2 DEF Delegate, Credential
<1>4. CASE Tick
  BY <1>4, GraphAssumption DEF Tick, Times
<1>5. CASE UNCHANGED vars
  BY <1>5 DEF vars
<1> QED
  BY <1>1, <1>2, <1>3, <1>4, <1>5 DEF Next, Operate

(* Every variable keeps its type: a delegated expiry is a time or Never,   *)
(* and delegated tools are tools, even of a holder of the wildcard.        *)
THEOREM TypeCorrect == Spec => []TypeOK
<1>1. Init => TypeOK
  <2>1. 0 \in Times
    BY GraphAssumption DEF Times
  <2> QED
    BY <2>1 DEF Init, TypeOK
<1> QED
  BY <1>1, TypeStep, PTL DEF Spec

-----------------------------------------------------------------------------
(* Attenuation                                                             *)

(* What a step adds to the credentials: at most one, by a delegation.      *)
LEMMA NewCredential ==
  ASSUME TypeOK, [Next]_vars, NEW h \in Holders, NEW c \in held'[h], c \notin held[h]
  PROVE  /\ UNCHANGED <<now, root, revoked>> /\ c.by \in Holders
         /\ c.tools \subseteq Tools
         /\ \A t \in c.tools, time \in Nat :
              time >= now /\ Until(c.expires, time) => HoldsAt(c.by, t, time)
<1>1. PICK p \in Holders, requested \in SUBSET Tools, asked \in Expiries :
        Delegate(p, h, requested, asked)
  <2>1. held' # held
    OBVIOUS
  <2>2. PICK p \in Holders, to \in Holders, requested \in SUBSET Tools, asked \in Expiries :
          Delegate(p, to, requested, asked)
    BY <2>1 DEF Next, Operate, vars, Grant, Revoke, Tick
  <2>3. to = h
    BY <2>2 DEF Delegate, TypeOK
  <2> QED
    BY <2>2, <2>3
<1>2. c = [tools |-> Allowed(p, requested),
           expires |-> Clamped(p, Allowed(p, requested), asked), by |-> p]
  BY <1>1 DEF Delegate, TypeOK
<1>3. Delegable(p, requested, asked) /\ UNCHANGED <<now, root, revoked>>
  BY <1>1 DEF Delegate
<1> QED
  BY <1>2, <1>3, DelegableNarrows DEF Allowed

(* AE-4 and AE-5: no delegation gives what its parent does not have, at no *)
(* time, however the authority of the parent was put together.             *)
THEOREM DelegationsNarrow == Spec => DelegationNarrows
<1>1. TypeOK /\ [Next]_vars =>
        [\A h \in Holders : \A c \in held'[h] \ held[h] : \A t \in c.tools, time \in Times :
           time >= now /\ Until(c.expires, time) => HoldsAt(c.by, t, time)]_vars
  BY NewCredential, GraphAssumption DEF Times
<1> QED
  BY <1>1, TypeCorrect, PTL DEF Spec, DelegationNarrows

(* As long as no grant is revoked, whatever a credential allows until it   *)
(* expires, whoever delegated it holds until then.                         *)
Backed ==
  ~revoked => \A h \in Holders : \A c \in held[h] : \A t \in c.tools, time \in Nat :
                time >= now /\ Until(c.expires, time) => HoldsAt(c.by, t, time)

(* Without a revocation nobody loses anything but to time.                 *)
LEMMA HoldingsGrow ==
  ASSUME TypeOK, [Next]_vars, ~revoked'
  PROVE  /\ ~revoked /\ now' >= now
         /\ \A h \in Holders : root[h] \subseteq root'[h] /\ held[h] \subseteq held'[h]
<1> USE DEF TypeOK
<1> DEFINE Grow == /\ ~revoked /\ now' >= now
                   /\ \A h \in Holders : root[h] \subseteq root'[h] /\ held[h] \subseteq held'[h]
<1>0. now \in Int
  BY GraphAssumption DEF Times
<1>1. ASSUME NEW h \in Holders, NEW cap \in Tools \cup {Star}, Grant(h, cap) \/ Revoke(h, cap)
      PROVE  Grow
  BY <1>0, <1>1 DEF Grant, Revoke
<1>2. ASSUME NEW p \in Holders, NEW h \in Holders, NEW requested \in SUBSET Tools,
             NEW asked \in Expiries, Delegate(p, h, requested, asked)
      PROVE  Grow
  BY <1>0, <1>2 DEF Delegate
<1>3. ASSUME Tick \/ UNCHANGED vars PROVE Grow
  BY <1>0, <1>3 DEF Tick, vars
<1> HIDE DEF Grow
<1>4. Grow
  BY <1>1, <1>2, <1>3 DEF Next, Operate
<1> QED
  BY <1>4 DEF Grow

(* As long as no grant is revoked, what a live credential allows, whoever  *)
(* delegated it still holds.                                               *)
THEOREM ChildrenBacked == Spec => []BackedByParent
<1>1. Init => Backed
  BY DEF Init, Backed
<1>2. TypeOK /\ Backed /\ [Next]_vars => Backed'
  <2> SUFFICES ASSUME TypeOK, Backed, [Next]_vars, ~revoked',
                      NEW h \in Holders, NEW c \in held'[h], NEW t \in c.tools, NEW time \in Nat,
                      time >= now', Until(c.expires, time)
               PROVE  HoldsAt(c.by, t, time)'
    BY DEF Backed, Until
  <2>1. now \in Int /\ now' \in Int
    BY TypeStep, GraphAssumption DEF TypeOK, Times
  <2>2. time >= now
    BY <2>1, HoldingsGrow
  <2>3. c.by \in Holders /\ HoldsAt(c.by, t, time)
    <3>1. CASE c \in held[h]
      BY <2>2, <3>1, HoldingsGrow DEF Backed, TypeOK, Credential
    <3>2. CASE c \notin held[h]
      BY <2>2, <3>2, NewCredential
    <3> QED
      BY <3>1, <3>2
  <2> QED
    BY <2>3, HoldingsGrow DEF HoldsAt, LiveAt, Until
<1>3. TypeOK /\ Backed => BackedByParent
  BY GraphAssumption DEF Backed, BackedByParent, LiveAt, Holds, TypeOK, Times
<1> QED
  BY <1>1, <1>2, <1>3, TypeCorrect, PTL DEF Spec

-----------------------------------------------------------------------------
(* Delegation neither creates authority nor is it blocked                  *)

(* Unless a grant is made, nobody comes to reach a tool at a time when     *)
(* nobody would have, whatever circles they delegate in.                   *)
THEOREM GrantsExtend == Spec => OnlyGrantsExtend
<1>1. TypeOK /\ [Next]_vars =>
        [(\A h \in Holders : root'[h] \subseteq root[h]) =>
           \A t \in Tools, time \in Times :
             time >= now' /\ Reaches(t, time)' => Reaches(t, time)]_vars
  <2> SUFFICES ASSUME TypeOK, [Next]_vars, \A h \in Holders : root'[h] \subseteq root[h],
                      NEW t \in Tools, NEW time \in Times, time >= now', Reaches(t, time)'
               PROVE  Reaches(t, time)
    OBVIOUS
  <2>1. PICK h \in Holders : HoldsAt(h, t, time)'
    BY DEF Reaches
  <2>2. CASE Star \in root'[h] \/ t \in root'[h]
    BY <2>2 DEF Reaches, HoldsAt
  <2>3. ASSUME NEW c \in held'[h], Until(c.expires, time), t \in c.tools
        PROVE  Reaches(t, time)
    <3>1. CASE c \in held[h]
      BY <2>3, <3>1 DEF Reaches, HoldsAt, LiveAt
    <3>2. CASE c \notin held[h]
      <4>1. time \in Nat
        BY GraphAssumption DEF Times
      <4>2. c.by \in Holders /\ HoldsAt(c.by, t, time)
        BY <2>3, <3>2, <4>1, NewCredential
      <4> QED
        BY <4>2 DEF Reaches
    <3> QED
      BY <3>1, <3>2
  <2> QED
    BY <2>1, <2>2, <2>3 DEF HoldsAt, LiveAt, Until
<1> QED
  BY <1>1, TypeCorrect, PTL DEF Spec, OnlyGrantsExtend

(* Whoever holds a tool can delegate it on.                                *)
THEOREM HoldersDelegate == Spec => []HoldersCanDelegate
<1>1. TypeOK => HoldersCanDelegate
  <2> SUFFICES ASSUME TypeOK, NEW h \in Holders, NEW t \in Tools, Holds(h, t)
               PROVE  Delegable(h, {t}, Never)
    BY DEF HoldersCanDelegate
  <2>1. Allowed(h, {t}) = {t}
    BY DEF Allowed, ParentTools, Holds, HoldsAt
  <2>2. Remainder(h, {t}) \subseteq UNION {c.tools : c \in Covering(h, {t})}
    BY DEF Remainder, Covering, Holds, HoldsAt
  <2>3. now \in Nat /\ Never \in Expiries
    BY GraphAssumption DEF TypeOK, Times, Expiries
  <2>4. \/ Clamped(h, {t}, Never) = Never
        \/ \E c \in Covering(h, {t}) : Clamped(h, {t}, Never) = c.expires
    BY <2>3, ClampedIsCeiling
  <2>5. Until(Clamped(h, {t}, Never), now)
    BY <2>4 DEF Until, Covering, LiveAt
  <2> QED
    BY <2>1, <2>2, <2>5 DEF Delegable
<1> QED
  BY <1>1, TypeCorrect, PTL

=============================================================================
