---------------------------- MODULE AuthorityGraph ----------------------------
(***************************************************************************)
(* Root grants and attenuated delegations, decision_os_min/attenuation.py. *)
(* A credential is a macaroon as the graph stores it: bound to its holder, *)
(* with one allowlist caveat and at most one expiry; its HMAC chain, which *)
(* only the graph extends, is abstracted to the credential being in the    *)
(* graph.  grant(), revoke() and delegate() are each called by the         *)
(* operator of the policy and take effect at once.                         *)
(*   A tool's name is an identifier.  The caveat is the names joined with  *)
(* commas, and is read back by splitting at commas and stripping blanks,   *)
(* which is the identity on identifiers only: a name that holds a comma is *)
(* read back as several tools.  Capabilities are "tool:" and a name, or    *)
(* Star.                                                                   *)
(***************************************************************************)
EXTENDS Integers, FiniteSets

CONSTANTS
  Holders,
  Tools,           (* names without commas or blanks, see above            *)
  Star,            (* the capability "*"                                   *)
  Never,           (* no expiry                                            *)
  MaxTime,         (* bound on the clock and on the expiries asked for     *)
  MaxGrants,       (* bound on the root grants in force                    *)
  MaxDelegations   (* bound on the credentials                             *)

ASSUME GraphAssumption ==
  /\ Star \notin Tools
  /\ Never \notin Nat
  /\ MaxTime \in Nat /\ MaxGrants \in Nat /\ MaxDelegations \in Nat

Times      == 0..MaxTime
Expiries   == Times \cup {Never}
Credential == [tools: SUBSET Tools, expires: Expiries, by: Holders]

VARIABLES
  now,        (* the clock                                                 *)
  root,       (* _root_grants: the capabilities granted to each holder     *)
  held,       (* _macaroons: the credentials of each holder; "by" is       *)
              (* history, who delegated it                                 *)
  revoked     (* history: has a grant ever been revoked?                   *)

vars == <<now, root, held, revoked>>

-----------------------------------------------------------------------------
Until(expires, time) == expires # Never => time < expires

(* The credentials a holder could still use at some time.                  *)
LiveAt(h, time) == {c \in held[h] : Until(c.expires, time)}

(* holds()                                                                 *)
HoldsAt(h, t, time) ==
  \/ Star \in root[h] \/ t \in root[h]
  \/ \E c \in LiveAt(h, time) : t \in c.tools
Holds(h, t) == HoldsAt(h, t, now)

(* Bug: a holder with a root grant delegates from it alone (see            *)
(* HoldersCanDelegate).                                                    *)
RootsFirst(p) ==
  IF Star \in root[p] THEN Tools
  ELSE IF root[p] # {} THEN root[p] \cap Tools
  ELSE UNION {c.tools : c \in LiveAt(p, now)}

(* _parent_authority(): the union of the root grants and of every live     *)
(* credential, as holds() has it.                                          *)
ParentTools(p) ==
  IF Star \in root[p] THEN Tools
  ELSE (root[p] \cap Tools) \cup UNION {c.tools : c \in LiveAt(p, now)}

(* Bug: a root grant of anything lifts the ceiling from everything (see    *)
(* BackedByParent).                                                        *)
NoRemainder(p, tools) == IF root[p] # {} THEN {} ELSE tools

(* What no root grant covers must come from live credentials, and the      *)
(* earliest expiry among those that contribute is the child's ceiling.     *)
Remainder(p, tools) == IF Star \in root[p] THEN {} ELSE tools \ root[p]
Covering(p, tools)  == {c \in LiveAt(p, now) : c.tools \cap Remainder(p, tools) # {}}
Ceilings(p, tools)  == {c.expires : c \in Covering(p, tools)} \ {Never}

(* Bugs: the ceiling is only a default (see DelegationNarrows), or it is   *)
(* the latest of the parents' expiries (see OnlyGrantsExtend).             *)
Defaulted(p, tools, asked) ==
  IF Ceilings(p, tools) = {} \/ asked # Never THEN asked
  ELSE CHOOSE e \in Ceilings(p, tools) : \A f \in Ceilings(p, tools) : e <= f

ClampedLate(p, tools, asked) ==
  LET ceilings == Ceilings(p, tools)
      ceiling  == CHOOSE e \in ceilings : \A f \in ceilings : e >= f
  IN  IF ceilings = {} \/ (asked # Never /\ asked <= ceiling) THEN asked ELSE ceiling

Clamped(p, tools, asked) ==
  LET ceilings == Ceilings(p, tools)
      ceiling  == CHOOSE e \in ceilings : \A f \in ceilings : e <= f
  IN  IF ceilings = {} \/ (asked # Never /\ asked <= ceiling) THEN asked ELSE ceiling

(* Bug: the wildcard is handed down as it is (see TypeOK).                 *)
AllowedStar(p, requested) ==
  IF Star \in root[p] THEN requested \cup {Star} ELSE requested \cap ParentTools(p)

Allowed(p, requested) == requested \cap ParentTools(p)

(* delegate() raises AttenuationError when nothing is left of the request, *)
(* when no live credential covers a tool, or when the result has expired.  *)
Delegable(p, requested, asked) ==
  LET tools == Allowed(p, requested)
  IN  /\ tools # {}
      /\ Remainder(p, tools) \subseteq UNION {c.tools : c \in Covering(p, tools)}
      /\ Until(Clamped(p, tools, asked), now)

-----------------------------------------------------------------------------
Grants == UNION {{<<h, cap>> : cap \in root[h]} : h \in Holders}

Grant(h, cap) ==
  /\ cap \notin root[h]
  /\ Cardinality(Grants) < MaxGrants
  /\ root' = [root EXCEPT ![h] = @ \cup {cap}]
  /\ UNCHANGED <<now, held, revoked>>

(* The credentials delegated from the grant stay as they are.              *)
Revoke(h, cap) ==
  /\ cap \in root[h]
  /\ root' = [root EXCEPT ![h] = @ \ {cap}]
  /\ revoked' = TRUE
  /\ UNCHANGED <<now, held>>

Delegations == UNION {{<<h, c>> : c \in held[h]} : h \in Holders}

Delegate(p, h, requested, asked) ==
  /\ Delegable(p, requested, asked)
  /\ Cardinality(Delegations) < MaxDelegations
  /\ LET tools == Allowed(p, requested)
     IN  held' = [held EXCEPT ![h] = @ \cup
                    {[tools |-> tools, expires |-> Clamped(p, tools, asked), by |-> p]}]
  /\ UNCHANGED <<now, root, revoked>>

Tick ==
  /\ now < MaxTime
  /\ now' = now + 1
  /\ UNCHANGED <<root, held, revoked>>

Init ==
  /\ now = 0
  /\ root = [h \in Holders |-> {}]
  /\ held = [h \in Holders |-> {}]
  /\ revoked = FALSE

Operate ==
  \E h \in Holders :
    \/ \E cap \in Tools \cup {Star} : Grant(h, cap) \/ Revoke(h, cap)
    \/ \E p \in Holders, requested \in SUBSET Tools, asked \in Expiries :
         Delegate(p, h, requested, asked)

Next == Operate \/ Tick

Spec == Init /\ [][Next]_vars

-----------------------------------------------------------------------------
(* Every variable holds a value of its type.                               *)
TypeOK ==
  /\ now \in Times
  /\ root \in [Holders -> SUBSET (Tools \cup {Star})]
  /\ held \in [Holders -> SUBSET Credential]
  /\ revoked \in BOOLEAN

(* AE-4 and AE-5: a delegation gives nothing its parent does not have, at  *)
(* no time, now or later.                                                  *)
DelegationNarrows ==
  [][\A h \in Holders : \A c \in held'[h] \ held[h] : \A t \in c.tools, time \in Times :
       time >= now /\ Until(c.expires, time) => HoldsAt(c.by, t, time)]_vars

(* Nothing but a root grant lets anyone hold a tool at a time when nobody  *)
(* would have: holders that delegate to one another, in circles too, can   *)
(* neither widen what they have between them nor make it last longer.      *)
Reaches(t, time) == \E h \in Holders : HoldsAt(h, t, time)

OnlyGrantsExtend ==
  [][(\A h \in Holders : root'[h] \subseteq root[h]) =>
       \A t \in Tools, time \in Times :
         time >= now' /\ Reaches(t, time)' => Reaches(t, time)]_vars

(* As long as no grant is revoked, a child never outlives its parent: what *)
(* a live credential allows, whoever delegated it still holds.             *)
BackedByParent ==
  ~revoked => \A h \in Holders : \A c \in LiveAt(h, now) : \A t \in c.tools : Holds(c.by, t)

(* Honest delegation is not blocked: whoever holds a tool, by whichever of *)
(* their credentials, can delegate it on.                                  *)
HoldersCanDelegate ==
  \A h \in Holders : \A t \in Tools : Holds(h, t) => Delegable(h, {t}, Never)

=============================================================================
