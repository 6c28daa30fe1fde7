------------------------------- MODULE Kernel -------------------------------
(***************************************************************************)
(* The policy decision kernel, decision_os_min/kernel.py.  Any number of   *)
(* decide() calls run concurrently with the operator's grant() and         *)
(* revoke(), which mutate the builtin policy in three steps with no lock   *)
(* (authority_pdp.py).  All calls are about one actor and one capability,  *)
(* so the policy is: does the grants list hold it, does the authority      *)
(* graph hold it, and the revision counter.  Delegated credentials, which  *)
(* holds() also counts and the revision does not cover, are AuthorityGraph.*)
(*                                                                         *)
(* A decide() call is cut where it can interleave with a policy mutation:  *)
(*   Begin          context, deepcopy, advisor, shape check                *)
(*   Identify       first revision read                                    *)
(*   EvaluatePolicy the policy decision point rules                        *)
(*   Reread         second revision read begins                            *)
(*   Canonicalize   it ends; redaction, containment                        *)
(*   Consult        one evaluator's verdict folded in                      *)
(*   Issue          binding, digest, token, signature                      *)
(* A revision read is two steps: policy_revision puts the counter and the  *)
(* live grants into a dictionary, and json.dumps reads the grants later.   *)
(***************************************************************************)
EXTENDS Adapters

CONSTANTS
  Calls,           (* identities of decide() calls                         *)
  Actions,         (* the actions that may be submitted, see Action        *)
  Advices,         (* the advisors that may be passed                      *)
  Contexts,        (* what context plugins add: sets of sets of labels     *)
  AllowedLabels,   (* the data labels whose bindings admit the purpose     *)
  ContainClasses,  (* contain_threat_classes                               *)
  Answers(_),      (* what an external provider may do                     *)
  EvaluatorLists,  (* the evaluator lists a caller may pass, as sequences  *)
  WrapperOf(_),    (* the wrapper of evaluators.py around an evaluator     *)
  Opinions(_),     (* what is inside it may do                             *)
  SandboxAllowsTool, (* is the tool in _CONTAINMENT's allowlist?           *)
  MaxRevision      (* bound on the operator's policy mutations             *)

(* What the kernel looks at in an action: capability # tool; its labels; a *)
(* redaction rule matches; the payload can be fingerprinted; the actor is  *)
(* known to be bad; the threat class the caller gives.                     *)
Action(Labels, Threats) ==
  [ambiguous: BOOLEAN, labels: SUBSET Labels, redacts: BOOLEAN,
   encodable: BOOLEAN, knownBad: BOOLEAN, threat: Threats]

OpinionKinds == {"str", "dict", "answers", "malformed", "raises", "timeout"} \cup Uncaught

ASSUME KernelAssumption ==
  /\ SandboxAllowsTool \in BOOLEAN
  /\ MaxRevision \in Nat
  /\ "none" \notin ContainClasses
  /\ \A a \in Actions : {a.ambiguous, a.redacts, a.encodable} \subseteq BOOLEAN
  /\ \A list \in EvaluatorLists : list \in Seq({list[i] : i \in DOMAIN list})
  /\ \A list \in EvaluatorLists : \A i \in DOMAIN list :
       /\ WrapperOf(list[i]) \in Wrappers
       /\ \A o \in Opinions(list[i]) :
            /\ o.kind \in OpinionKinds
            /\ o.kind = "answers" <=> WrapperOf(list[i]) # "none" /\ o.kind \notin
                 {"raises", "timeout"} \cup Uncaught

VARIABLES
  provider,  (* the policy decision point, one of Providers                *)
  listed,    (* the capability is in the _grants list                      *)
  held,      (* AuthorityGraph.holds()                                     *)
  counter,   (* _revision_counter                                          *)
  operator,  (* the operator thread's place in grant() or revoke()         *)
  call,      (* the decide() calls                                         *)
  settled    (* history: the revisions published with no mutation in       *)
             (* progress                                                   *)

vars == <<provider, listed, held, counter, operator, call, settled>>
policy == <<provider, listed, held, counter, operator, settled>>

-----------------------------------------------------------------------------
(* Policy mutations                                                        *)

(* What BuiltinAuthorityPDP.policy_revision hashes when nothing moves.     *)
Revision == [listed |-> listed, counter |-> counter]

(* What a decision refused by the shape check names instead.               *)
ActionShape == [listed |-> FALSE, counter |-> -1]

Mutations == {"grant", "revoke"}
Idle      == [op |-> "none", next |-> "list"]
At(op, step) == [op |-> op, next |-> step]

(* Kernel.grant and Kernel.revoke: first the list.  An external provider   *)
(* raises AuthorityMutationUnsupported and nothing changes.                *)
MutateList(op) ==
  /\ provider = "builtin"
  /\ operator = Idle
  /\ counter < MaxRevision
  /\ listed' = (op = "grant")
  /\ operator' = At(op, "graph")
  /\ UNCHANGED <<provider, held, counter, call, settled>>

(* ... then the authority graph ...                                        *)
MutateGraph(op) ==
  /\ operator = At(op, "graph")
  /\ held' = (op = "grant")
  /\ operator' = At(op, "counter")
  /\ UNCHANGED <<provider, listed, counter, call, settled>>

(* Bug: the counter is forgotten (see RevisionReproducible).               *)
BumpForgotten(op) ==
  /\ operator = At(op, "counter")
  /\ operator' = Idle
  /\ UNCHANGED <<provider, listed, held, counter, call>>
  /\ settled' = settled \cup {Revision'}

(* ... and last the revision counter.                                      *)
BumpRevision(op) ==
  /\ operator = At(op, "counter")
  /\ counter' = counter + 1
  /\ operator' = Idle
  /\ UNCHANGED <<provider, listed, held, call>>
  /\ settled' = settled \cup {Revision'}

-----------------------------------------------------------------------------
(* decide()                                                                *)

NoCall == [pc |-> "idle"]

Ruling(verdict, by) ==
  [verdict |-> verdict, by |-> by, transformed |-> FALSE, containment |-> FALSE]

(* The action as the kernel rules on it: enriched with the labels of the   *)
(* context plugins, which the host applies before decide(), and with a     *)
(* threat class from the caller or an advisor.                             *)
Shape(action, advice, context) ==
  [ambiguous |-> action.ambiguous,
   purposeOk |-> Enriched(action.labels, context) \subseteq AllowedLabels,
   redacts   |-> action.redacts,
   contained |-> ThreatClass(action, advice) \in ContainClasses,
   encodable |-> action.encodable]

NoAnswer == [kind |-> "none", value |-> "none"]

(* The shape check refuses before any provider is asked; otherwise         *)
(* evaluate_authority() starts by reading the provider's identity, of      *)
(* which this step takes the counter.  An advisor that raises leaves       *)
(* decide().                                                               *)
Begin(c) ==
  /\ call[c].pc = "idle"
  /\ \E action \in Actions, advice \in Advices, context \in Contexts, list \in EvaluatorLists :
       call' = [call EXCEPT ![c] =
         [pc |-> IF action.ambiguous THEN "consult" ELSE "identify",
          shape |-> Shape(action, advice, context), list |-> list, opinions |-> <<>>,
          answer |-> NoAnswer, authority |-> "DENY", first |-> ActionShape,
          revision |-> ActionShape, reading |-> counter, moved |-> FALSE,
          base |-> Ruling("DENY", "kernel"), decision |-> Ruling("DENY", "kernel")]]
  /\ UNCHANGED policy

AdvisorRaises(c) ==
  /\ call[c].pc = "idle"
  /\ call' = [call EXCEPT ![c] = [pc |-> "raised"]]
  /\ UNCHANGED policy

(* json.dumps: the grants of now beside the counter of before.             *)
Dumped(c) == [listed |-> listed, counter |-> call[c].reading]

Identify(c) ==
  /\ call[c].pc = "identify"
  /\ call' = [call EXCEPT ![c].pc = "evaluate", ![c].first = Dumped(c), ![c].revision = Dumped(c)]
  /\ UNCHANGED policy

BuiltinVerdict(shape) == IF held /\ shape.purposeOk THEN "ALLOW" ELSE "DENY"

(* The provider answers.  A provider whose adapter raises or that outlasts *)
(* the timeout denies under the revision read at the start, with no second *)
(* read.  Only a host's own provider can leave decide(): by GeneratorExit, *)
(* or by an exception that str() raises on.                                *)
EvaluatePolicy(c) ==
  /\ call[c].pc = "evaluate"
  /\ \/ \E answer \in IF provider = "builtin"
                      THEN {[kind |-> "word", value |-> BuiltinVerdict(call[c].shape)]}
                      ELSE Answers(provider) :
          /\ ~Fails(provider, answer)
          /\ call' = [call EXCEPT ![c].pc = "reread", ![c].answer = answer,
                                  ![c].authority = Ruled(provider, answer)]
     \/ call' = [call EXCEPT ![c].pc = "consult",
                             ![c].base = Ruling("DENY", "authority"),
                             ![c].decision = Ruling("DENY", "authority")]
     \/ provider = "custom" /\ call' = [call EXCEPT ![c] = [pc |-> "raised"]]
  /\ UNCHANGED policy

(* Bug: minimization is demanded of payloads that no redaction rule hits   *)
(* (see VerdictHasCause).                                                  *)
RedactAlways(shape) == Ruling(IF shape.contained THEN "CONTAIN" ELSE "LIMIT", "host")

(* The kernel's own obligations: sandbox a contained threat, else minimize *)
(* a payload that a redaction rule hits.                                   *)
LocalRuling(shape) ==
  Ruling(IF shape.contained THEN "CONTAIN"
         ELSE IF shape.redacts THEN "LIMIT" ELSE "ALLOW", "host")

(* Bug: containment replaces minimization (see RedactionSurvives).         *)
ContainUnredacted(authority, shape) ==
  LET d == MoreRestrictive(Ruling(authority, "authority"), LocalRuling(shape))
  IN  CASE d.verdict = "LIMIT"   -> IF shape.redacts THEN [d EXCEPT !.transformed = TRUE]
                                                     ELSE Ruling("DENY", "kernel")
        [] d.verdict = "CONTAIN" -> [d EXCEPT !.containment = TRUE]
        [] OTHER                 -> d

(* Bug: a contained threat is sandboxed whatever the policy said (see      *)
(* ThreatOnlyTightens).                                                    *)
ObligedFirst(authority, shape) ==
  LET d == MoreRestrictive(Ruling(authority, "authority"), LocalRuling(shape))
  IN  CASE shape.contained /\ authority # "DENY" ->
             [Ruling("CONTAIN", "host") EXCEPT !.transformed = shape.redacts, !.containment = TRUE]
        [] OTHER -> IF d.verdict = "LIMIT" THEN [d EXCEPT !.transformed = TRUE] ELSE d

(* The rest of _evaluate(): obligations ride on LIMIT and CONTAIN, and a   *)
(* LIMIT the host cannot discharge is a denial.                            *)
Obliged(authority, shape) ==
  LET d == MoreRestrictive(Ruling(authority, "authority"), LocalRuling(shape))
  IN  CASE authority \in {"DENY", "DEFER"} -> Ruling(authority, "authority")
        [] authority \notin {"DENY", "DEFER"} /\ d.verdict = "LIMIT" ->
             IF shape.redacts THEN [d EXCEPT !.transformed = TRUE]
                              ELSE Ruling("DENY", "kernel")
        [] authority \notin {"DENY", "DEFER"} /\ d.verdict = "CONTAIN" ->
             [d EXCEPT !.transformed = shape.redacts, !.containment = TRUE]
        [] OTHER -> d

(* canonicalize_authority_output() reads the provider's revision again:    *)
(* the counter ...                                                         *)
Reread(c) ==
  /\ call[c].pc = "reread"
  /\ call' = [call EXCEPT ![c].pc = "canonicalize", ![c].reading = counter]
  /\ UNCHANGED policy

(* Bug: a revision that moved meanwhile makes the call start over, with    *)
(* the revision it began with (see DecideTerminates).                      *)
CanonicalizeAnew(c) ==
  /\ call[c].pc = "canonicalize"
  /\ call' = [call EXCEPT
       ![c].pc = IF Dumped(c) = call[c].first THEN "consult" ELSE "evaluate",
       ![c].revision = Dumped(c),
       ![c].base = Obliged(call[c].authority, call[c].shape),
       ![c].decision = Obliged(call[c].authority, call[c].shape)]
  /\ UNCHANGED policy

(* ... and the grants.  This second value is the one that is signed.       *)
(* History: moved, whether it was torn by a publication in between.        *)
Canonicalize(c) ==
  /\ call[c].pc = "canonicalize"
  /\ call' = [call EXCEPT ![c].pc = "consult",
                          ![c].revision = Dumped(c),
                          ![c].moved = (counter # call[c].reading),
                          ![c].base = Obliged(call[c].authority, call[c].shape),
                          ![c].decision = Obliged(call[c].authority, call[c].shape)]
  /\ UNCHANGED policy

(* Bug: a vocabulary of the evaluator's own passes as it is (see TypeOK).  *)
Verbatim(reply) == IF reply.kind \in {"str", "dict"} THEN reply.verdict ELSE "DENY"

(* as_decision() and the loop's except clauses: a bare string is a         *)
(* verdict, a dictionary holds one, anything else denies.                  *)
ReplyVerdict(reply) ==
  IF reply.kind \in {"str", "dict"} THEN Normalize(reply.verdict) ELSE "DENY"

(* sanitize(): an evaluator contributes a verdict and a reason; token,     *)
(* payload and sandbox fields are stripped.                                *)
Sanitized(reply, evaluator) == Ruling(ReplyVerdict(reply), evaluator)

Opining(c) == call[c].pc = "consult" /\ Len(call[c].opinions) < Len(call[c].list)
NextEvaluator(c) == call[c].list[Len(call[c].opinions) + 1]

(* What the kernel gets to see of the evaluators so far.                   *)
Replies(c) == [i \in DOMAIN call[c].opinions |->
                 Wrapped(WrapperOf(call[c].list[i]), call[c].opinions[i])]

(* Bug: the first evaluator that objects has the last word (see            *)
(* VerdictIgnoresOrder).                                                   *)
ConsultFirst(c) ==
  /\ Opining(c)
  /\ \E opinion \in Opinions(NextEvaluator(c)) :
       LET reply == Wrapped(WrapperOf(NextEvaluator(c)), opinion)
       IN  call' = [call EXCEPT
             ![c].opinions = Append(@, opinion),
             ![c].decision = IF @.verdict = "ALLOW" THEN Sanitized(reply, NextEvaluator(c)) ELSE @]
  /\ UNCHANGED policy

(* One turn of the evaluator loop.  GeneratorExit leaves decide(), and so  *)
(* does a reply that cannot be made a string, after the except clauses.    *)
Consult(c) ==
  /\ Opining(c)
  /\ \E opinion \in Opinions(NextEvaluator(c)) :
       LET reply == Wrapped(WrapperOf(NextEvaluator(c)), opinion)
       IN  IF reply.kind \in Uncaught
           THEN call' = [call EXCEPT ![c] = [pc |-> "raised"]]
           ELSE call' = [call EXCEPT
                  ![c].opinions = Append(@, opinion),
                  ![c].decision = MoreRestrictive(@, Sanitized(reply, NextEvaluator(c)))]
  /\ UNCHANGED policy

(* The digests of legitimacy evidence are accumulated in evaluator order   *)
(* and the last one is signed.                                             *)
Digests(replies) == SelectSeq(replies, LAMBDA r : r.kind = "dict" /\ r.digest # NoDigest)
LegitimacyDigest(replies) ==
  LET withDigest == Digests(replies)
  IN  IF withDigest = <<>> THEN NoDigest ELSE withDigest[Len(withDigest)].digest

Consulted(c) == call[c].pc = "consult" /\ Len(call[c].opinions) = Len(call[c].list)

(* All evaluators have ruled: bind the action, mint a token if the composed*)
(* verdict permits, and sign.  action_fingerprint() raises on a payload it *)
(* cannot encode, and then nothing is issued.                              *)
Issue(c) ==
  /\ Consulted(c)
  /\ IF call[c].shape.encodable
     THEN call' = [call EXCEPT
            ![c] = [pc |-> "issued", shape |-> @.shape, list |-> @.list,
                    opinions |-> @.opinions, answer |-> @.answer, authority |-> @.authority,
                    first |-> @.first, revision |-> @.revision, moved |-> @.moved,
                    base |-> @.base, decision |-> @.decision,
                    digest |-> LegitimacyDigest(Replies(c)),
                    token |-> @.decision.verdict \in PERMITTING]]
     ELSE call' = [call EXCEPT ![c] = [pc |-> "raised"]]
  /\ UNCHANGED policy

-----------------------------------------------------------------------------
(* The kernel starts with the graph loaded from the grants list.           *)
Init ==
  /\ provider \in Providers
  /\ listed \in BOOLEAN
  /\ held = listed
  /\ counter = 0
  /\ operator = Idle
  /\ call = [c \in Calls |-> NoCall]
  /\ settled = {Revision}

Decide(c) ==
  \/ Begin(c)
  \/ AdvisorRaises(c)
  \/ Identify(c)
  \/ EvaluatePolicy(c)
  \/ Reread(c)
  \/ Canonicalize(c)
  \/ Consult(c)
  \/ Issue(c)

Operate == \E op \in Mutations : MutateList(op) \/ MutateGraph(op) \/ BumpRevision(op)

Next == Operate \/ \E c \in Calls : Decide(c)

Spec == Init /\ [][Next]_vars

(* Each thread inside decide() keeps running; evaluators and providers are *)
(* bounded by their timeouts, so every turn ends.                          *)
FairSpec == Spec /\ \A c \in Calls :
                      WF_vars(\/ Identify(c)
                              \/ EvaluatePolicy(c)
                              \/ Reread(c)
                              \/ Canonicalize(c)
                              \/ Consult(c)
                              \/ Issue(c))

-----------------------------------------------------------------------------
Issued(c) == call[c].pc = "issued"
Running(c) == call[c].pc \in {"identify", "evaluate", "reread", "canonicalize", "consult"}

RulingType == [verdict: VERDICTS, by: {"kernel", "authority", "host"} \cup
                 UNION {{list[i] : i \in DOMAIN list} : list \in EvaluatorLists},
               transformed: BOOLEAN, containment: BOOLEAN]

(* Every variable holds a value of its type, and a decision under          *)
(* composition is always a member of the lattice.                          *)
TypeOK ==
  /\ provider \in Providers /\ listed \in BOOLEAN /\ held \in BOOLEAN
  /\ counter \in 0..MaxRevision
  /\ operator \in {Idle} \cup {At(op, step) : op \in Mutations, step \in {"graph", "counter"}}
  /\ \A c \in Calls :
       /\ call[c].pc \in {"idle", "identify", "evaluate", "reread", "canonicalize", "consult",
                         "issued", "raised"}
       /\ Running(c) \/ Issued(c) => /\ call[c].decision \in RulingType
                                     /\ call[c].authority \in VERDICTS
                                     /\ Len(call[c].opinions) <= Len(call[c].list)

(* A token needs consensus (kernel.py:410-417, "authority /\ legitimacy /\  *)
(* ... must all permit"): a decision with a token was permitted by what    *)
(* the provider itself answered and by what every evaluator of the         *)
(* caller's list, or the policy or engine inside its wrapper, itself said; *)
(* none was skipped, and nothing that failed counted as consent.           *)
TokenNeedsConsensus ==
  \A c \in Calls : Issued(c) /\ call[c].token =>
    /\ ProviderPermits(provider, call[c].answer)
    /\ Len(call[c].opinions) = Len(call[c].list)
    /\ \A i \in DOMAIN call[c].opinions :
         Consents(WrapperOf(call[c].list[i]), call[c].opinions[i])

(* Nothing is refused without cause either: the signed verdict is that of  *)
(* the policy, of an evaluator, or of one of the kernel's own obligations. *)
VerdictHasCause ==
  \A c \in Calls : Issued(c) =>
    \/ call[c].decision.verdict = call[c].authority
    \/ \E i \in DOMAIN Replies(c) : ReplyVerdict(Replies(c)[i]) = call[c].decision.verdict
    \/ call[c].decision.verdict = "CONTAIN" /\ call[c].shape.contained
    \/ call[c].decision.verdict = "LIMIT" /\ call[c].shape.redacts
    \/ call[c].decision.verdict = "DENY" /\ call[c].authority = "LIMIT"

(* What the enforcement point requires of a decision before it runs the    *)
(* tool (execute.py:199-227).                                              *)
Enforceable(d) ==
  /\ d.verdict \in PERMITTING
  /\ d.verdict = "LIMIT" => d.transformed
  /\ d.verdict = "CONTAIN" => d.containment /\ SandboxAllowsTool

(* Data minimization survives composition: when a redaction rule hits the  *)
(* payload, no decision that the enforcement point would run is without    *)
(* the minimized payload, whatever verdict ends up governing.              *)
RedactionSurvives ==
  \A c \in Calls : Issued(c) /\ Enforceable(call[c].decision) /\ call[c].shape.redacts =>
    call[c].decision.transformed

(* What a base ruling and the evaluators' replies, taken in the order p,   *)
(* compose to.                                                             *)
Composed(base, replies, p) ==
  Compose(<<base.verdict>> \o [i \in DOMAIN replies |-> ReplyVerdict(replies[p[i]])])

Orders(replies) == Seqs!Bijection(DOMAIN replies, DOMAIN replies)

(* The order in which the evaluators are passed does not change the        *)
(* verdict: every permutation of their replies composes to the signed one. *)
VerdictIgnoresOrder ==
  \A c \in Calls : Issued(c) =>
    \A p \in Orders(Replies(c)) :
      Composed(call[c].base, Replies(c), p) = call[c].decision.verdict

(* A threat class tightens or does nothing (plugins.py:10-12, "A plugin    *)
(* cannot loosen a DENY"): the signed verdict is at least as restrictive   *)
(* as that of the same answers without it - except where a LIMIT that the  *)
(* host cannot discharge, a denial, becomes a CONTAIN.                     *)
ThreatOnlyTightens ==
  \A c \in Calls : Issued(c) =>
    LET calm == [call[c].shape EXCEPT !.contained = FALSE]
        same == [i \in DOMAIN Replies(c) |-> i]
        dischargedByContainment == call[c].authority = "LIMIT" /\ ~calm.redacts
    IN  call[c].shape.ambiguous \/ dischargedByContainment
        \/ Rank[call[c].decision.verdict] >=
             Rank[Composed(Obliged(call[c].authority, calm), Replies(c), same)]

(* A permission can be reproduced from the policy revision it was made     *)
(* under: if both revision reads of a call agree on a published revision,  *)
(* an ALLOW of the builtin policy means that revision lists the grant -    *)
(* unless a revision was published in the middle of the second read, when  *)
(* what is signed is a counter with the grants of a later one.             *)
RevisionReproducible ==
  \A c \in Calls : Issued(c) /\ provider = "builtin" /\ call[c].authority = "ALLOW" /\ ~call[c].moved
                   /\ call[c].first = call[c].revision /\ call[c].revision \in settled
    => call[c].revision.listed

(* Every decide() call ends: it issues a signed decision or raises.        *)
DecideTerminates == \A c \in Calls : Running(c) ~> ~Running(c)

(* kernel.py:417-418 says "evaluator order carries no meaning - only       *)
(* latency": the signed evidence digest should not depend on it either.    *)
EvaluatorOrderCarriesNoMeaning ==
  \A c \in Calls : Issued(c) =>
    \A p \in Orders(Replies(c)) :
      LegitimacyDigest([i \in DOMAIN Replies(c) |-> Replies(c)[p[i]]]) = call[c].digest

=============================================================================
