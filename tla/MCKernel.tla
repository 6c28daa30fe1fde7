------------------------------ MODULE MCKernel ------------------------------
(* Kernel on a small instance: one decide() call against an operator that  *)
(* grants and revokes, every kind of provider, and lists of up to two      *)
(* evaluators.                                                             *)
EXTENDS Kernel

Plain == [ambiguous |-> FALSE, labels |-> {}, redacts |-> FALSE,
          encodable |-> TRUE, knownBad |-> FALSE, threat |-> "none"]

MCActions == { Plain,
               [Plain EXCEPT !.ambiguous = TRUE],
               [Plain EXCEPT !.labels = {"hr"}],
               [Plain EXCEPT !.redacts = TRUE],
               [Plain EXCEPT !.threat = "malicious"],
               [Plain EXCEPT !.redacts = TRUE, !.knownBad = TRUE],
               [Plain EXCEPT !.encodable = FALSE] }

Advice(by, class, scores) == [by |-> by, class |-> class, scores |-> scores]

(* Nobody, the two advisors of the package, and one of the host's own.     *)
MCAdvices == { Advice("nobody", "none", {}), Advice("simple", "none", {}),
               Advice("risk", "none", {}), Advice("risk", "none", {3, 4}),
               Advice("risk", "none", {3, 8}), Advice("custom", "odd", {}) }

MCContexts == {{}, {{"ads"}}, {{"ads"}, {"pii"}}}

MCAnswers(p) ==
  LET Does(kind, value) == [kind |-> kind, value |-> value]
  IN  CASE p = "opa" -> { Does("bool", "true"), Does("bool", "false"), Does("word", "LIMIT"),
                          Does("word", "permit"), Does("object", "DEFER"), Does("object", "CONTAIN"),
                          Does("number", "1"), Does("unreachable", "ALLOW") }
        [] p = "cedar" -> { Does("exit", "0"), Does("exit", "2"), Does("exit", "1"),
                            Does("no_context", "0"), Does("timeout", "0") }
        [] p = "custom" -> {Does("word", v) : v \in VERDICTS \cup {"permit"}} \cup {Does("raises", "ALLOW")}

MCLists == {<<>>, <<"legitimacy">>, <<"legitimacy", "engine">>, <<"risk", "legitimacy">>,
            <<"evidence", "risk">>}

MCWrapperOf(e) ==
  CASE e = "legitimacy" -> "legitimacy" [] e = "engine" -> "authority" [] OTHER -> "none"

(* The legitimacy policy and the engine are wrapped; the bare evaluators   *)
(* answer with dictionaries that hold a digest, words of their own, or     *)
(* nothing that can be read.                                               *)
MCOpinions(e) ==
  CASE e = "legitimacy" ->
         { Reply("answers", "yes", NoDigest), Reply("answers", "no", NoDigest),
           Reply("raises", "yes", NoDigest), Reply("generator_exit", "yes", NoDigest) }
    [] e = "engine" ->
         { Reply("answers", "ALLOW", NoDigest), Reply("answers", "CONTAIN", NoDigest),
           Reply("answers", "transform", NoDigest), Reply("timeout", "ALLOW", NoDigest) }
    [] e = "evidence" -> { Reply("dict", "ALLOW", e), Reply("malformed", "ALLOW", NoDigest),
                          Reply("unprintable", "ALLOW", NoDigest) }
    [] e = "risk" ->
         { Reply("dict", "ALLOW", e), Reply("str", "LIMIT", NoDigest), Reply("dict", "CONTAIN", e),
           Reply("str", "DEFER", NoDigest), Reply("str", "deny", NoDigest), Reply("timeout", "ALLOW", NoDigest) }

=============================================================================
