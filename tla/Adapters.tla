------------------------------- MODULE Adapters -------------------------------
(***************************************************************************)
(* What stands between the kernel and the parties it asks: the policy      *)
(* decision points of decision_os_min/authority_pdp.py, the evaluator      *)
(* wrappers of evaluators.py, and the advisors and context plugins of      *)
(* plugins.py and advisors.py.  None of them keeps state; each turns what  *)
(* the party did, a record of a kind and a value, into what the kernel     *)
(* gets to see.                                                            *)
(***************************************************************************)
EXTENDS Verdicts, FiniteSets

CONSTANT NoDigest  (* no legitimacy digest                                 *)

-----------------------------------------------------------------------------
(* Policy decision points                                                  *)

Providers == {"builtin", "opa", "cedar", "custom"}

(* OPA cannot be reached, answers too much, or answers no JSON object with *)
(* a result of a known type: its adapter raises.                           *)
OPAFails(answer) == answer.kind \notin {"bool", "word", "object"}

(* OPA answers a Boolean, a word, or an object with a verdict.             *)
OPARules(answer) ==
  IF answer.kind = "bool" THEN IF answer.value = "true" THEN "ALLOW" ELSE "DENY"
                          ELSE Normalize(answer.value)

(* Cedar's CLI exits with 0 to permit and 2 to deny.  The adapter raises on*)
(* another status, a timeout, or an action that lacks an attribute.        *)
CedarFails(answer) == answer.kind # "exit" \/ answer.value \notin {"0", "2"}

CedarRules(answer) == IF answer.value = "0" THEN "ALLOW" ELSE "DENY"

(* Any other provider raises or says a word.                               *)
Fails(provider, answer) ==
  CASE provider = "opa"   -> OPAFails(answer)
    [] provider = "cedar" -> CedarFails(answer)
    [] OTHER              -> answer.kind = "raises"

Ruled(provider, answer) ==
  CASE provider = "opa"   -> OPARules(answer)
    [] provider = "cedar" -> CedarRules(answer)
    [] OTHER              -> Normalize(answer.value)

(* What the party itself says, before any adapter.                         *)
ProviderPermits(provider, answer) ==
  CASE provider = "opa"   -> \/ answer.kind = "bool" /\ answer.value = "true"
                             \/ answer.kind \in {"word", "object"} /\ answer.value \in PERMITTING
    [] provider = "cedar" -> answer.kind = "exit" /\ answer.value = "0"
    [] OTHER              -> answer.kind # "raises" /\ answer.value \in PERMITTING

-----------------------------------------------------------------------------
(* Evaluator wrappers                                                      *)

Wrappers == {"none", "legitimacy", "authority"}

Reply(kind, verdict, digest) == [kind |-> kind, verdict |-> verdict, digest |-> digest]

(* The wrappers answer with a verdict and a reason alone.                  *)
Says(verdict) == Reply("dict", verdict, NoDigest)

(* What no except clause stops: GeneratorExit, and a verdict whose reason  *)
(* is an object that str() raises on.                                      *)
Uncaught == {"generator_exit", "unprintable"}

(* A timeout strikes from outside the wrapper, and the uncaught goes       *)
(* through it.                                                             *)
PassesThrough(opinion) == opinion.kind \in {"timeout"} \cup Uncaught

(* Bug: a legitimacy policy that raises has no objection (see              *)
(* TokenNeedsConsensus).                                                   *)
LegitimacyOpen(opinion) ==
  IF PassesThrough(opinion) THEN opinion
  ELSE Says(IF opinion.kind = "answers" /\ opinion.verdict = "no" THEN "DENY" ELSE "ALLOW")

(* legitimacy(): the policy says yes or no, or raises, which is a no.      *)
Legitimacy(opinion) ==
  IF PassesThrough(opinion) THEN opinion
  ELSE Says(IF opinion.kind = "answers" /\ opinion.verdict = "yes" THEN "ALLOW" ELSE "DENY")

(* authority(): the engine's word must be in the lattice as it is.         *)
Authority(opinion) ==
  IF PassesThrough(opinion) THEN opinion
  ELSE Says(IF opinion.kind = "answers" /\ opinion.verdict \in VERDICTS
            THEN opinion.verdict ELSE "DENY")

(* What the kernel gets to see; a bare evaluator's output as it comes.     *)
Wrapped(wrapper, opinion) ==
  CASE wrapper = "none"       -> opinion
    [] wrapper = "legitimacy" -> Legitimacy(opinion)
    [] wrapper = "authority"  -> Authority(opinion)

(* What the policy, engine or evaluator itself says, before any wrapper.   *)
Consents(wrapper, opinion) ==
  CASE wrapper = "none"       -> opinion.kind \in {"str", "dict"} /\ opinion.verdict \in PERMITTING
    [] wrapper = "legitimacy" -> opinion.kind = "answers" /\ opinion.verdict = "yes"
    [] wrapper = "authority"  -> opinion.kind = "answers" /\ opinion.verdict \in PERMITTING

-----------------------------------------------------------------------------
(* Advice and context                                                      *)

(* Scores are in tenths; a plugin that raises has none.                    *)
ContainAt == 8
SuspectAt == 4

(* risk_advisor(): the worst score of the plugins decides.                 *)
RiskClass(scores) ==
  IF \E s \in scores : s >= ContainAt THEN "malicious"
  ELSE IF \E s \in scores : s >= SuspectAt THEN "suspicious" ELSE "none"

(* simple_threat_advisor(): known actors, and a capability that does not   *)
(* match the tool.                                                         *)
SimpleClass(action) ==
  IF action.knownBad THEN "malicious" ELSE IF action.ambiguous THEN "suspicious" ELSE "none"

(* The threat class of a call: an advisor's, whatever it is, if there is   *)
(* an advisor, else the one the caller gives.                              *)
ThreatClass(action, advice) ==
  CASE advice.by = "nobody" -> action.threat
    [] advice.by = "risk"   -> RiskClass(advice.scores)
    [] advice.by = "simple" -> SimpleClass(action)
    [] OTHER                -> advice.class

(* apply_context(): the labels of the plugins that did not raise are added.*)
Enriched(labels, plugins) == labels \cup UNION plugins

=============================================================================
