------------------------------ MODULE KernelProofs ------------------------------
(***************************************************************************)
(* Proofs about Kernel, for any number of decide() calls, any actions,     *)
(* advisors, providers and lists of evaluators, whatever they answer, and  *)
(* any number of policy mutations.                                         *)
(***************************************************************************)
EXTENDS Kernel, VerdictsProofs, TLAPS

-----------------------------------------------------------------------------
(* Types                                                                   *)

Places == {"idle", "identify", "evaluate", "reread", "canonicalize", "consult", "issued", "raised"}

Evaluators == UNION {{list[i] : i \in DOMAIN list} : list \in EvaluatorLists}
AllOpinions == UNION {Opinions(e) : e \in Evaluators}
OwnAnswers == {NoAnswer} \cup {[kind |-> "word", value |-> v] : v \in VERDICTS}
ForeignAnswers == UNION {Answers(p) : p \in Providers}
AllAnswers == ForeignAnswers \cup OwnAnswers

ShapeType == [ambiguous: BOOLEAN, purposeOk: BOOLEAN, redacts: BOOLEAN,
              contained: BOOLEAN, encodable: BOOLEAN]
RevisionType == [listed: BOOLEAN, counter: Int]

RunningType ==
  [pc: {"identify", "evaluate", "reread", "canonicalize", "consult"}, shape: ShapeType,
   list: EvaluatorLists,
   opinions: Seq(AllOpinions), answer: AllAnswers, authority: VERDICTS,
   first: RevisionType, revision: RevisionType, reading: Int, moved: BOOLEAN,
   base: RulingType, decision: RulingType]

PolicyTypes ==
  /\ provider \in Providers /\ listed \in BOOLEAN /\ held \in BOOLEAN
  /\ counter \in 0..MaxRevision
  /\ operator \in {Idle} \cup {At(op, step) : op \in Mutations, step \in {"graph", "counter"}}
  /\ operator # Idle => counter < MaxRevision
  /\ settled \subseteq RevisionType

(* The fields of a call that is under way; an issued decision does not     *)
(* change any more.                                                        *)
TypeInv ==
  /\ PolicyTypes
  /\ call = [c \in Calls |-> call[c]]
  /\ \A c \in Calls :
       /\ call[c].pc \in Places
       /\ Running(c) => call[c] \in RunningType /\ Len(call[c].opinions) <= Len(call[c].list)
       /\ Issued(c) => /\ call[c].decision \in RulingType /\ call[c].authority \in VERDICTS
                       /\ Len(call[c].opinions) <= Len(call[c].list)

(* What a step of decide() leaves alone.                                   *)
LEMMA DecideFrame ==
  ASSUME TypeInv, NEW c \in Calls, Decide(c)
  PROVE  /\ UNCHANGED policy
         /\ call' = [d \in Calls |-> call'[d]]
         /\ \A d \in Calls : d # c => call'[d] = call[d]
  BY DEF Decide, Begin, AdvisorRaises, Identify, EvaluatePolicy, Reread, Canonicalize, Consult,
         Issue, TypeInv, policy

(* The operator leaves the calls alone.                                    *)
LEMMA OperateFrame ==
  ASSUME Operate
  PROVE  UNCHANGED <<provider, call>>
  BY DEF Operate, MutateList, MutateGraph, BumpRevision

(* Whatever the provider's ruling and the shape are, what the kernel makes *)
(* of them is a ruling.                                                    *)
LEMMA ObligedType ==
  ASSUME NEW authority \in VERDICTS, NEW shape \in ShapeType
  PROVE  Obliged(authority, shape) \in RulingType
  BY DEF Obliged, MoreRestrictive, LocalRuling, Ruling, RulingType, ShapeType, Rank, Normalize,
         VERDICTS

LEMMA AnswerTypes ==
  /\ NoAnswer \in AllAnswers
  /\ \A v \in VERDICTS : [kind |-> "word", value |-> v] \in AllAnswers
  /\ \A p \in Providers : Answers(p) \subseteq AllAnswers
<1>1. /\ NoAnswer \in OwnAnswers
      /\ \A v \in VERDICTS : [kind |-> "word", value |-> v] \in OwnAnswers
  BY DEF OwnAnswers
<1>2. \A p \in Providers : Answers(p) \subseteq ForeignAnswers
  BY DEF ForeignAnswers
<1> QED
  BY <1>1, <1>2 DEF AllAnswers

LEMMA RuledType ==
  ASSUME NEW p, NEW answer
  PROVE  Ruled(p, answer) \in VERDICTS
  BY DEF Ruled, OPARules, CedarRules, Normalize, VERDICTS

(* The next evaluator is one of the list, and its ruling a ruling.         *)
LEMMA NextEvaluatorType ==
  ASSUME TypeInv, NEW c \in Calls, Opining(c), NEW opinion \in Opinions(NextEvaluator(c)), NEW reply
  PROVE  /\ NextEvaluator(c) \in Evaluators /\ opinion \in AllOpinions
         /\ Len(call[c].opinions) + 1 \in DOMAIN call[c].list
         /\ Len(call[c].opinions) + 1 <= Len(call[c].list)
         /\ Sanitized(reply, NextEvaluator(c)) \in RulingType
<1>1. /\ call[c] \in RunningType /\ call[c].list \in EvaluatorLists
      /\ Len(call[c].opinions) < Len(call[c].list) /\ Len(call[c].opinions) \in Nat
  BY DEF TypeInv, Running, Opining, RunningType
<1>2. PICK S : call[c].list \in Seq(S)
  BY <1>1, KernelAssumption
<1>3. /\ Len(call[c].opinions) + 1 \in DOMAIN call[c].list
      /\ Len(call[c].opinions) + 1 <= Len(call[c].list)
  BY <1>1, <1>2
<1>4. NextEvaluator(c) \in Evaluators
  BY <1>1, <1>3 DEF NextEvaluator, Evaluators
<1>5. ReplyVerdict(reply) \in VERDICTS
  BY DEF ReplyVerdict, Normalize, VERDICTS
<1>6. Sanitized(reply, NextEvaluator(c)) \in RulingType
  BY <1>4, <1>5 DEF Sanitized, Ruling, RulingType, Evaluators
<1> QED
  BY <1>3, <1>4, <1>6 DEF AllOpinions

LEMMA DecideTypes ==
  ASSUME TypeInv, NEW c \in Calls, Decide(c)
  PROVE  /\ call'[c].pc \in Places
         /\ Running(c)' => call'[c] \in RunningType /\ Len(call'[c].opinions) <= Len(call'[c].list)
         /\ Issued(c)' => /\ call'[c].decision \in RulingType /\ call'[c].authority \in VERDICTS
                          /\ Len(call'[c].opinions) <= Len(call'[c].list)
<1> USE DEF Running, Issued, Places
<1>0. Running(c) => call[c] \in RunningType /\ Len(call[c].opinions) <= Len(call[c].list)
  BY DEF TypeInv
<1>1. CASE Begin(c)
  <2>1. PICK action \in Actions, advice \in Advices, context \in Contexts, list \in EvaluatorLists :
          call' = [call EXCEPT ![c] =
            [pc |-> IF action.ambiguous THEN "consult" ELSE "identify",
             shape |-> Shape(action, advice, context), list |-> list, opinions |-> <<>>,
             answer |-> NoAnswer, authority |-> "DENY", first |-> ActionShape,
             revision |-> ActionShape, reading |-> counter, moved |-> FALSE,
             base |-> Ruling("DENY", "kernel"), decision |-> Ruling("DENY", "kernel")]]
    BY <1>1 DEF Begin
  <2>2. Shape(action, advice, context) \in ShapeType
    BY KernelAssumption DEF Shape, ShapeType
  <2>3. ActionShape \in RevisionType /\ counter \in Int
    BY KernelAssumption DEF TypeInv, PolicyTypes, ActionShape, RevisionType
  <2>4. Ruling("DENY", "kernel") \in RulingType
    BY DEF Ruling, RulingType, VERDICTS
  <2>5. list \in Seq({list[i] : i \in DOMAIN list})
    BY KernelAssumption
  <2>6. Len(list) \in Nat /\ <<>> \in Seq(AllOpinions) /\ Len(<<>>) = 0
    BY <2>5
  <2>7. NoAnswer \in AllAnswers
    BY AnswerTypes
  <2> QED
    BY <2>1, <2>2, <2>3, <2>4, <2>6, <2>7 DEF TypeInv, RunningType, VERDICTS
<1>2. CASE AdvisorRaises(c)
  BY <1>2 DEF AdvisorRaises, TypeInv
<1>3. CASE EvaluatePolicy(c)
  <2>1. CASE call'[c].pc = "raised"
    BY <2>1
  <2>2. CASE call' = [call EXCEPT ![c].pc = "consult",
                                  ![c].base = Ruling("DENY", "authority"),
                                  ![c].decision = Ruling("DENY", "authority")]
    <3>1. Ruling("DENY", "authority") \in RulingType
      BY DEF Ruling, RulingType, VERDICTS
    <3> QED
      BY <1>0, <1>3, <2>2, <3>1 DEF EvaluatePolicy, TypeInv, RunningType
  <2>3. CASE \E answer \in AllAnswers :
               call' = [call EXCEPT ![c].pc = "reread", ![c].answer = answer,
                                    ![c].authority = Ruled(provider, answer)]
    <3>1. PICK answer \in AllAnswers, v \in VERDICTS :
            call' = [call EXCEPT ![c].pc = "reread", ![c].answer = answer, ![c].authority = v]
      BY <2>3, RuledType
    <3> QED
      BY <1>0, <1>3, <3>1 DEF EvaluatePolicy, TypeInv, RunningType
  <2>4. BuiltinVerdict(call[c].shape) \in VERDICTS
    BY DEF BuiltinVerdict, VERDICTS
  <2>5. /\ [kind |-> "word", value |-> BuiltinVerdict(call[c].shape)] \in AllAnswers
        /\ Answers(provider) \subseteq AllAnswers
    BY <2>4, AnswerTypes DEF TypeInv, PolicyTypes
  <2> QED
    <3>1. CASE call' = [call EXCEPT ![c] = [pc |-> "raised"]]
      BY <2>1, <3>1 DEF TypeInv
    <3> QED
      BY <1>3, <2>2, <2>3, <2>5, <3>1 DEF EvaluatePolicy
<1>4. CASE Canonicalize(c)
  <2>1. call[c] \in RunningType
    BY <1>0, <1>4 DEF Canonicalize
  <2>2. Obliged(call[c].authority, call[c].shape) \in RulingType
    BY <2>1, ObligedType DEF RunningType
  <2>3. Dumped(c) \in RevisionType /\ (counter # call[c].reading) \in BOOLEAN
    BY <2>1 DEF TypeInv, PolicyTypes, Dumped, RevisionType, RunningType
  <2>4. PICK revision \in RevisionType, moved \in BOOLEAN :
          call' = [call EXCEPT ![c].pc = "consult", ![c].revision = revision, ![c].moved = moved,
                               ![c].base = Obliged(call[c].authority, call[c].shape),
                               ![c].decision = Obliged(call[c].authority, call[c].shape)]
    BY <1>4, <2>3 DEF Canonicalize
  <2> DEFINE k == [call[c] EXCEPT !.pc = "consult", !.revision = revision, !.moved = moved,
                                  !.base = Obliged(call[c].authority, call[c].shape),
                                  !.decision = Obliged(call[c].authority, call[c].shape)]
  <2>5. /\ k \in RunningType /\ k.pc = "consult"
        /\ k.opinions = call[c].opinions /\ k.list = call[c].list
    BY <2>1, <2>2, <2>4 DEF RunningType
  <2>6. call'[c] = k
    BY <2>4 DEF TypeInv
  <2> HIDE DEF k
  <2> QED
    BY <1>0, <1>4, <2>5, <2>6 DEF Canonicalize
<1>5. CASE Consult(c)
  <2>1. PICK opinion \in Opinions(NextEvaluator(c)) :
          LET reply == Wrapped(WrapperOf(NextEvaluator(c)), opinion)
          IN  IF reply.kind \in Uncaught
              THEN call' = [call EXCEPT ![c] = [pc |-> "raised"]]
              ELSE call' = [call EXCEPT
                     ![c].opinions = Append(@, opinion),
                     ![c].decision = MoreRestrictive(@, Sanitized(reply, NextEvaluator(c)))]
    BY <1>5 DEF Consult
  <2> DEFINE reply == Wrapped(WrapperOf(NextEvaluator(c)), opinion)
             d == MoreRestrictive(call[c].decision, Sanitized(reply, NextEvaluator(c)))
  <2>2. /\ opinion \in AllOpinions /\ Len(call[c].opinions) + 1 <= Len(call[c].list)
        /\ Sanitized(reply, NextEvaluator(c)) \in RulingType
    BY <1>5, NextEvaluatorType DEF Consult
  <2>3. call[c] \in RunningType
    BY <1>0, <1>5 DEF Consult, Opining
  <2>4. d \in RulingType
    BY <2>2, <2>3 DEF MoreRestrictive, RunningType
  <2>5. /\ Append(call[c].opinions, opinion) \in Seq(AllOpinions)
        /\ Len(Append(call[c].opinions, opinion)) = Len(call[c].opinions) + 1
    BY <2>2, <2>3 DEF RunningType
  <2>6. CASE reply.kind \in Uncaught
    BY <2>1, <2>6 DEF TypeInv
  <2>7. CASE reply.kind \notin Uncaught
    <3>1. call' = [call EXCEPT ![c].opinions = Append(@, opinion), ![c].decision = d]
      BY <2>1, <2>7
    <3> HIDE DEF d, reply
    <3> QED
      BY <2>2, <2>3, <2>4, <2>5, <3>1 DEF TypeInv, RunningType
  <2> QED
    BY <2>6, <2>7
<1>6. CASE Issue(c)
  BY <1>0, <1>6 DEF Issue, Consulted, TypeInv, RunningType
<1>7. CASE Identify(c)
  <2>1. call[c] \in RunningType
    BY <1>0, <1>7 DEF Identify
  <2>2. Dumped(c) \in RevisionType
    BY <2>1 DEF Dumped, TypeInv, PolicyTypes, RevisionType, RunningType
  <2>3. PICK first \in RevisionType :
          call' = [call EXCEPT ![c].pc = "evaluate", ![c].first = first, ![c].revision = first]
    BY <1>7, <2>2 DEF Identify
  <2> QED
    BY <1>0, <1>7, <2>1, <2>3 DEF Identify, TypeInv, RunningType
<1>8. CASE Reread(c)
  <2>1. call[c] \in RunningType /\ counter \in Int
    BY <1>0, <1>8, KernelAssumption DEF Reread, TypeInv, PolicyTypes
  <2> QED
    BY <1>0, <1>8, <2>1 DEF Reread, TypeInv, RunningType
<1> QED
  BY <1>1, <1>2, <1>3, <1>4, <1>5, <1>6, <1>7, <1>8 DEF Decide

LEMMA InitTypes == Init => TypeInv
<1> SUFFICES ASSUME Init PROVE TypeInv
  OBVIOUS
<1>1. PolicyTypes
  BY KernelAssumption DEF Init, PolicyTypes, Revision, RevisionType
<1>2. call = [c \in Calls |-> call[c]] /\ \A c \in Calls : call[c].pc = "idle"
  BY DEF Init, NoCall
<1> QED
  BY <1>1, <1>2 DEF TypeInv, Running, Issued, Places

LEMMA OperateTypes ==
  ASSUME PolicyTypes, Operate
  PROVE  PolicyTypes'
<1>1. PICK op \in Mutations : MutateList(op) \/ MutateGraph(op) \/ BumpRevision(op)
  BY DEF Operate
<1>2. CASE MutateList(op)
  BY <1>1, <1>2, KernelAssumption DEF MutateList, PolicyTypes
<1>3. CASE MutateGraph(op)
  BY <1>1, <1>3 DEF MutateGraph, PolicyTypes, At, Idle, Mutations
<1>4. CASE BumpRevision(op)
  <2>1. counter < MaxRevision /\ counter' = counter + 1 /\ counter' \in 0..MaxRevision
    BY <1>1, <1>4, KernelAssumption DEF BumpRevision, PolicyTypes, At, Idle, Mutations
  <2>2. settled' \subseteq RevisionType
    BY <1>4, <2>1 DEF BumpRevision, PolicyTypes, Revision, RevisionType
  <2> QED
    BY <1>4, <2>1, <2>2 DEF BumpRevision, PolicyTypes
<1> QED
  BY <1>1, <1>2, <1>3, <1>4

LEMMA Types == Spec => []TypeInv
<1>1. TypeInv /\ [Next]_vars => TypeInv'
  <2> SUFFICES ASSUME TypeInv, [Next]_vars PROVE TypeInv'
    OBVIOUS
  <2>1. CASE Operate
    BY <2>1, OperateTypes, OperateFrame DEF TypeInv, Running, Issued
  <2>2. ASSUME NEW c \in Calls, Decide(c) PROVE TypeInv'
    BY <2>2, DecideFrame, DecideTypes DEF TypeInv, PolicyTypes, policy, Running, Issued
  <2>3. CASE UNCHANGED vars
    BY <2>3 DEF vars, TypeInv, PolicyTypes, Running, Issued
  <2> QED
    BY <2>1, <2>2, <2>3 DEF Next
<1> QED
  BY <1>1, InitTypes, PTL DEF Spec

(* Every variable of the kernel holds a value of its type, and a decision  *)
(* under composition is always a member of the lattice.                    *)
THEOREM TypeCorrect == Spec => []TypeOK
<1>1. TypeInv => TypeOK
  BY DEF TypeInv, PolicyTypes, TypeOK, Running, Issued, Places, RunningType
<1> QED
  BY <1>1, Types, PTL

-----------------------------------------------------------------------------
(* What the steps of decide() do to the fields of a call                   *)

Composing(c) == call[c].pc \in {"consult", "issued"}

(* The provider's answer is kept with what it comes to, or there is a      *)
(* denial, or decide() is left.                                            *)
Same(c, fields) == \A field \in fields : call'[c][field] = call[c][field]

Heard(c, answer) ==
  /\ ~Fails(provider, answer)
  /\ provider = "builtin" => answer.value = BuiltinVerdict(call[c].shape)
  /\ call'[c].pc = "reread" /\ call'[c].answer = answer
  /\ call'[c].authority = Ruled(provider, answer)
  /\ Same(c, {"shape", "list", "opinions", "first", "reading"})

Denied(c) ==
  /\ call'[c].pc = "consult" /\ call'[c].decision = Ruling("DENY", "authority")
  /\ call'[c].base = Ruling("DENY", "authority")
  /\ Same(c, {"shape", "list", "opinions", "first", "reading", "answer", "authority"})

LEMMA EvaluateFacts ==
  ASSUME TypeInv, NEW c \in Calls, EvaluatePolicy(c)
  PROVE  /\ call[c].pc = "evaluate" /\ call[c] \in RunningType
         /\ call'[c].pc = "raised" \/ Denied(c) \/ \E answer : Heard(c, answer)
<1>1. call[c].pc = "evaluate" /\ call[c] \in RunningType
  BY DEF EvaluatePolicy, TypeInv, Running
<1>2. CASE call' = [call EXCEPT ![c] = [pc |-> "raised"]]
  BY <1>1, <1>2 DEF TypeInv
<1>3. CASE call' = [call EXCEPT ![c].pc = "consult",
                                ![c].base = Ruling("DENY", "authority"),
                                ![c].decision = Ruling("DENY", "authority")]
  BY <1>1, <1>3 DEF TypeInv, RunningType, Denied, Same
<1>4. ASSUME NEW answer \in IF provider = "builtin"
                            THEN {[kind |-> "word", value |-> BuiltinVerdict(call[c].shape)]}
                            ELSE Answers(provider),
             ~Fails(provider, answer),
             call' = [call EXCEPT ![c].pc = "reread", ![c].answer = answer,
                                  ![c].authority = Ruled(provider, answer)]
      PROVE  Heard(c, answer)
  <2>1. provider = "builtin" => answer.value = BuiltinVerdict(call[c].shape)
    BY <1>4
  <2> QED
    BY <1>1, <1>4, <2>1 DEF TypeInv, RunningType, Heard, Same
<1> QED
  BY <1>1, <1>2, <1>3, <1>4 DEF EvaluatePolicy

(* No evaluator has been asked yet.                                        *)
Asking(c) == call[c].pc \in {"identify", "evaluate", "reread", "canonicalize"}

(* Reading a revision says nothing about the action.                       *)
LEMMA ReadFacts ==
  ASSUME TypeInv, NEW c \in Calls, Identify(c) \/ Reread(c)
  PROVE  /\ call[c] \in RunningType /\ Asking(c) /\ Asking(c)'
         /\ Same(c, {"shape", "list", "opinions", "answer", "authority", "base", "decision"})
         /\ Identify(c) => /\ call[c].pc = "identify" /\ call'[c].pc = "evaluate"
                           /\ call'[c].first = Dumped(c) /\ call'[c].reading = call[c].reading
         /\ Reread(c) => /\ call[c].pc = "reread" /\ call'[c].pc = "canonicalize"
                         /\ call'[c].first = call[c].first /\ call'[c].reading = counter
<1>1. call[c] \in RunningType
  BY DEF Identify, Reread, TypeInv, Running
<1>2. CASE Identify(c)
  BY <1>1, <1>2 DEF Identify, Reread, TypeInv, RunningType, Same, Asking
<1>3. CASE Reread(c)
  BY <1>1, <1>3 DEF Identify, Reread, TypeInv, RunningType, Same, Asking
<1> QED
  BY <1>1, <1>2, <1>3

(* A turn of the evaluator loop adds one opinion and composes its verdict. *)
Opined(c, opinion) ==
  LET n == Len(call[c].opinions)
      e == NextEvaluator(c)
      said == Sanitized(Wrapped(WrapperOf(e), opinion), e)
  IN  /\ n \in Nat /\ DOMAIN call[c].opinions = 1..n /\ DOMAIN call'[c].opinions = 1..(n + 1)
      /\ \A i \in 1..n : call'[c].opinions[i] = call[c].opinions[i]
      /\ call'[c].opinions[n + 1] = opinion /\ call[c].list[n + 1] = e
      /\ WrapperOf(e) \in Wrappers
      /\ call[c].decision \in RulingType /\ said \in RulingType
      /\ call'[c].decision = MoreRestrictive(call[c].decision, said)
      /\ call[c].pc = "consult" /\ call'[c].pc = "consult"
      /\ \A field \in {"shape", "list", "answer", "authority", "first", "reading", "revision", "moved",
                     "base"} :
           call'[c][field] = call[c][field]

LEMMA ConsultFacts ==
  ASSUME TypeInv, NEW c \in Calls, Consult(c), Composing(c)'
  PROVE  \E opinion \in AllOpinions : Opined(c, opinion)
<1>1. PICK opinion \in Opinions(NextEvaluator(c)) :
        LET reply == Wrapped(WrapperOf(NextEvaluator(c)), opinion)
        IN  IF reply.kind \in Uncaught
            THEN call' = [call EXCEPT ![c] = [pc |-> "raised"]]
            ELSE call' = [call EXCEPT
                   ![c].opinions = Append(@, opinion),
                   ![c].decision = MoreRestrictive(@, Sanitized(reply, NextEvaluator(c)))]
  BY DEF Consult
<1> DEFINE d == MoreRestrictive(call[c].decision,
                  Sanitized(Wrapped(WrapperOf(NextEvaluator(c)), opinion), NextEvaluator(c)))
<1>2. call[c] \in RunningType
  BY DEF Consult, Opining, TypeInv, Running
<1>3. call' = [call EXCEPT ![c].opinions = Append(@, opinion), ![c].decision = d]
  BY <1>1 DEF TypeInv, Composing
<1>4. /\ opinion \in AllOpinions /\ NextEvaluator(c) \in Evaluators
      /\ Sanitized(Wrapped(WrapperOf(NextEvaluator(c)), opinion), NextEvaluator(c)) \in RulingType
  BY NextEvaluatorType DEF Consult
<1>5. WrapperOf(NextEvaluator(c)) \in Wrappers
  BY <1>4, KernelAssumption DEF Evaluators
<1>6. call[c].opinions \in Seq(AllOpinions) /\ call[c].decision \in RulingType
  BY <1>2 DEF RunningType
<1>7. call'[c].opinions = Append(call[c].opinions, opinion) /\ call'[c].decision = d
  <2> HIDE DEF d
  <2> QED
    BY <1>2, <1>3 DEF TypeInv, RunningType
<1>8. \A field \in {"shape", "list", "answer", "authority", "first", "reading", "revision", "moved",
                     "base"} :
        call'[c][field] = call[c][field]
  <2> HIDE DEF d
  <2> QED
    BY <1>2, <1>3 DEF TypeInv, RunningType
<1>9. /\ Len(call[c].opinions) \in Nat /\ DOMAIN call[c].opinions = 1..Len(call[c].opinions)
      /\ DOMAIN call'[c].opinions = 1..(Len(call[c].opinions) + 1)
      /\ \A i \in 1..Len(call[c].opinions) : call'[c].opinions[i] = call[c].opinions[i]
      /\ call'[c].opinions[Len(call[c].opinions) + 1] = opinion
  BY <1>4, <1>6, <1>7
<1> QED
  <2>1. call[c].pc = "consult" /\ call'[c].pc = "consult"
    <3> HIDE DEF d
    <3> QED
      BY <1>2, <1>3 DEF Consult, Opining, TypeInv, RunningType
  <2>2. call[c].list[Len(call[c].opinions) + 1] = NextEvaluator(c)
    BY DEF NextEvaluator
  <2> QED
    BY <1>4, <1>5, <1>6, <1>7, <1>8, <1>9, <2>1, <2>2 DEF Opined

(* The other ways a step of decide() may end.                              *)
LEMMA DecideEnds ==
  ASSUME TypeInv, NEW c \in Calls
  PROVE  /\ AdvisorRaises(c) => call'[c].pc = "raised"
         /\ Consult(c) => call'[c].pc = "raised" \/ Composing(c)'
         /\ Issue(c) => call'[c].pc = "raised" \/ Composing(c)'
<1>1. ASSUME Consult(c)
      PROVE  call'[c].pc = "raised" \/ Composing(c)'
  <2>1. call[c] \in RunningType /\ call[c].pc = "consult"
    BY <1>1 DEF Consult, Opining, TypeInv, Running
  <2>2. \/ call' = [call EXCEPT ![c] = [pc |-> "raised"]]
        \/ \E opinion, d : call' = [call EXCEPT ![c].opinions = Append(@, opinion),
                                                ![c].decision = d]
    BY <1>1 DEF Consult
  <2>3. ASSUME NEW opinion, NEW d,
               call' = [call EXCEPT ![c].opinions = Append(@, opinion), ![c].decision = d]
        PROVE  call'[c].pc = "consult"
    BY <2>1, <2>3 DEF TypeInv, RunningType
  <2>4. CASE call' = [call EXCEPT ![c] = [pc |-> "raised"]]
    BY <2>4 DEF TypeInv
  <2> QED
    BY <2>2, <2>3, <2>4 DEF Composing
<1> QED
  BY <1>1 DEF AdvisorRaises, Issue, TypeInv, Composing

(* Issuing keeps what was composed.                                        *)
LEMMA IssueFacts ==
  ASSUME TypeInv, NEW c \in Calls, Issue(c), Composing(c)'
  PROVE  /\ call'[c].pc = "issued"
         /\ \A field \in {"shape", "list", "opinions", "answer", "authority", "first", "revision",
                          "moved", "base", "decision"} : call'[c][field] = call[c][field]
         /\ call'[c].token = (call[c].decision.verdict \in PERMITTING)
         /\ Len(call'[c].opinions) = Len(call'[c].list)
  BY DEF Issue, Consulted, TypeInv, Composing

-----------------------------------------------------------------------------
(* Consensus.  Each of the operators that pass a verdict on permits only   *)
(* what the party behind it permits.                                       *)

LEMMA RuledPermits ==
  ASSUME NEW p, NEW answer, ~Fails(p, answer), Ruled(p, answer) \in PERMITTING
  PROVE  ProviderPermits(p, answer)
  BY DEF Fails, Ruled, ProviderPermits, OPAFails, OPARules, CedarFails, CedarRules, Normalize,
         PERMITTING

LEMMA ObligedPermits ==
  ASSUME NEW authority \in VERDICTS, NEW shape, Obliged(authority, shape).verdict \in PERMITTING
  PROVE  authority \in PERMITTING
  BY DEF Obliged, Ruling, PERMITTING, VERDICTS

LEMMA WrappedConsents ==
  ASSUME NEW wrapper \in Wrappers, NEW opinion,
         ReplyVerdict(Wrapped(wrapper, opinion)) \in PERMITTING
  PROVE  Consents(wrapper, opinion)
<1>1. CASE wrapper = "none"
  BY <1>1 DEF Wrapped, Consents, ReplyVerdict, Normalize, PERMITTING
<1>2. CASE wrapper = "legitimacy"
  BY <1>2 DEF Wrapped, Legitimacy, PassesThrough, Uncaught, Says, Reply, Consents, ReplyVerdict,
              Normalize, PERMITTING
<1>3. CASE wrapper = "authority"
  BY <1>3 DEF Wrapped, Authority, PassesThrough, Uncaught, Says, Reply, Consents, ReplyVerdict,
              Normalize, PERMITTING
<1> QED
  BY <1>1, <1>2, <1>3 DEF Wrappers

LEMMA MoreRestrictivePermits ==
  ASSUME NEW d1 \in RulingType, NEW d2 \in RulingType,
         MoreRestrictive(d1, d2).verdict \in PERMITTING
  PROVE  d1.verdict \in PERMITTING /\ d2.verdict \in PERMITTING
  BY DEF MoreRestrictive, RulingType, Rank, Normalize, PERMITTING, VERDICTS

(* A call whose composition still permits has had nobody object so far.    *)
Consensus(c) ==
  /\ call[c].pc \in {"reread", "canonicalize"} /\ call[c].authority \in PERMITTING =>
       ProviderPermits(provider, call[c].answer)
  /\ Asking(c) => call[c].opinions = <<>>
  /\ Composing(c) /\ call[c].decision.verdict \in PERMITTING =>
       /\ ProviderPermits(provider, call[c].answer)
       /\ \A i \in DOMAIN call[c].opinions :
            Consents(WrapperOf(call[c].list[i]), call[c].opinions[i])
  /\ Issued(c) /\ call[c].token =>
       call[c].decision.verdict \in PERMITTING /\ Len(call[c].opinions) = Len(call[c].list)

LEMMA ConsensusStep ==
  ASSUME TypeInv, NEW c \in Calls, Consensus(c), Decide(c)
  PROVE  Consensus(c)'
<1> USE DEF Consensus, Composing, Issued, Asking
<1>0. provider' = provider
  BY DecideFrame DEF policy
<1>1. CASE Begin(c)
  BY <1>1 DEF Begin, TypeInv, Ruling, PERMITTING
<1>2. CASE call'[c].pc = "raised"
  BY <1>2
<1>3. CASE EvaluatePolicy(c)
  <2>1. CASE Denied(c)
    BY <2>1 DEF Denied, Ruling, PERMITTING
  <2>2. ASSUME NEW answer, Heard(c, answer)
        PROVE  Consensus(c)'
    <3>1. call[c].opinions = <<>>
      BY <1>3, EvaluateFacts
    <3> QED
      BY <1>0, <2>2, <3>1, RuledPermits DEF Heard, Same
  <2> QED
    BY <1>2, <1>3, <2>1, <2>2, EvaluateFacts
<1>4. CASE Canonicalize(c)
  <2>1. call[c] \in RunningType
    BY <1>4 DEF Canonicalize, TypeInv, Running
  <2>2. /\ call'[c].pc = "consult" /\ call'[c].answer = call[c].answer
        /\ call'[c].decision = Obliged(call[c].authority, call[c].shape)
        /\ call'[c].opinions = call[c].opinions
    BY <1>4, <2>1 DEF Canonicalize, TypeInv, RunningType
  <2>3. call'[c].decision.verdict \in PERMITTING => call[c].authority \in PERMITTING
    BY <2>1, <2>2, ObligedPermits DEF RunningType
  <2> QED
    <3>1. call[c].opinions = <<>> /\ DOMAIN call'[c].opinions = {}
      BY <1>4, <2>2 DEF Canonicalize
    <3> QED
      BY <1>0, <1>4, <2>2, <2>3, <3>1 DEF Canonicalize
<1>5. CASE Consult(c) /\ Composing(c)'
  <2>1. PICK opinion \in AllOpinions : Opined(c, opinion)
    BY <1>5, ConsultFacts
  <2> DEFINE e == NextEvaluator(c)
  <2>2. ASSUME call'[c].decision.verdict \in PERMITTING
        PROVE  call[c].decision.verdict \in PERMITTING /\ Consents(WrapperOf(e), opinion)
    <3>1. /\ call[c].decision.verdict \in PERMITTING
          /\ Sanitized(Wrapped(WrapperOf(e), opinion), e).verdict \in PERMITTING
      BY <2>1, <2>2, MoreRestrictivePermits DEF Opined
    <3> QED
      BY <2>1, <3>1, WrappedConsents DEF Opined, Sanitized, Ruling
  <2>3. call'[c].answer = call[c].answer /\ call'[c].list = call[c].list
    BY <2>1 DEF Opined
  <2> QED
    BY <1>0, <2>1, <2>2, <2>3 DEF Opined
<1>6. CASE Issue(c) /\ Composing(c)'
  BY <1>0, <1>6, IssueFacts DEF Issue, Consulted
<1>7. CASE Identify(c) \/ Reread(c)
  BY <1>0, <1>7, ReadFacts DEF Same
<1> QED
  BY <1>1, <1>2, <1>3, <1>4, <1>5, <1>6, <1>7, DecideEnds DEF Decide

(* A decision that carries a token was permitted by the provider itself    *)
(* and by every evaluator of the caller's list, whatever adapters and      *)
(* wrappers stand between them and the kernel.                             *)
THEOREM TokensNeedConsensus == Spec => []TokenNeedsConsensus
<1> DEFINE Inv == \A c \in Calls : Consensus(c)
<1>1. Init => Inv
  BY DEF Init, NoCall, Consensus, Composing, Issued, Asking
<1>2. TypeInv /\ Inv /\ [Next]_vars => Inv'
  <2> SUFFICES ASSUME TypeInv, Inv, [Next]_vars, NEW c \in Calls PROVE Consensus(c)'
    OBVIOUS
  <2>1. CASE Decide(c)
    BY <2>1, ConsensusStep
  <2>2. CASE UNCHANGED <<provider, call[c]>>
    BY <2>2 DEF Consensus, Composing, Issued, Asking
  <2> QED
    BY <2>1, <2>2, DecideFrame, OperateFrame DEF Next, vars, policy
<1>3. Inv => TokenNeedsConsensus
  BY DEF Consensus, Composing, Issued, TokenNeedsConsensus
<1> QED
  BY <1>1, <1>2, <1>3, Types, PTL DEF Spec

-----------------------------------------------------------------------------
(* Causes                                                                  *)

Cause(c, verdict) ==
  \/ verdict = call[c].authority
  \/ \E i \in DOMAIN call[c].opinions :
       ReplyVerdict(Wrapped(WrapperOf(call[c].list[i]), call[c].opinions[i])) = verdict
  \/ verdict = "CONTAIN" /\ call[c].shape.contained
  \/ verdict = "LIMIT" /\ call[c].shape.redacts
  \/ verdict = "DENY" /\ call[c].authority = "LIMIT"

Caused(c) ==
  /\ call[c].pc \in {"identify", "evaluate"} => call[c].authority = "DENY"
  /\ Composing(c) => Cause(c, call[c].decision.verdict)

LEMMA ObligedCause ==
  ASSUME NEW authority \in VERDICTS, NEW shape \in ShapeType
  PROVE  LET verdict == Obliged(authority, shape).verdict
         IN  \/ verdict = authority
             \/ verdict = "CONTAIN" /\ shape.contained
             \/ verdict = "LIMIT" /\ shape.redacts
             \/ verdict = "DENY" /\ authority = "LIMIT"
<1>1. CASE authority = "ALLOW"
  BY <1>1 DEF Obliged, MoreRestrictive, LocalRuling, Ruling, ShapeType, Rank, Normalize, VERDICTS
<1>2. CASE authority = "LIMIT"
  BY <1>2 DEF Obliged, MoreRestrictive, LocalRuling, Ruling, ShapeType, Rank, Normalize, VERDICTS
<1>3. CASE authority = "CONTAIN"
  BY <1>3 DEF Obliged, MoreRestrictive, LocalRuling, Ruling, ShapeType, Rank, Normalize, VERDICTS
<1>4. CASE authority \in {"DEFER", "DENY"}
  BY <1>4 DEF Obliged, MoreRestrictive, LocalRuling, Ruling, ShapeType, Rank, Normalize, VERDICTS
<1> QED
  BY <1>1, <1>2, <1>3, <1>4 DEF VERDICTS

LEMMA CausedStep ==
  ASSUME TypeInv, NEW c \in Calls, Caused(c), Decide(c)
  PROVE  Caused(c)'
<1> USE DEF Caused, Composing
<1>1. CASE Begin(c)
  BY <1>1 DEF Begin, TypeInv, Ruling, Cause
<1>2. CASE call'[c].pc = "raised"
  BY <1>2
<1>3. CASE EvaluatePolicy(c)
  <2>1. CASE Denied(c)
    <3>1. call'[c].authority = "DENY" /\ call'[c].decision.verdict = "DENY"
      BY <1>3, <2>1, EvaluateFacts DEF Denied, Same, Ruling
    <3> QED
      BY <2>1, <3>1 DEF Denied, Cause
  <2>2. ASSUME NEW answer, Heard(c, answer)
        PROVE  Caused(c)'
    BY <2>2 DEF Heard
  <2> QED
    BY <1>2, <1>3, <2>1, <2>2, EvaluateFacts
<1>4. CASE Canonicalize(c)
  <2>1. call[c] \in RunningType
    BY <1>4 DEF Canonicalize, TypeInv, Running
  <2>2. /\ call'[c].pc = "consult"
        /\ call'[c].decision = Obliged(call[c].authority, call[c].shape)
        /\ call'[c].authority = call[c].authority /\ call'[c].shape = call[c].shape
    BY <1>4, <2>1 DEF Canonicalize, TypeInv, RunningType
  <2> QED
    BY <2>1, <2>2, ObligedCause DEF RunningType, Cause
<1>5. CASE Consult(c) /\ Composing(c)'
  <2>1. PICK opinion \in AllOpinions : Opined(c, opinion)
    BY <1>5, ConsultFacts
  <2>2. /\ call'[c].authority = call[c].authority /\ call'[c].shape = call[c].shape
        /\ call'[c].list = call[c].list
    BY <2>1 DEF Opined
  <2>3. CASE call'[c].decision = call[c].decision
    BY <2>1, <2>2, <2>3 DEF Opined, Cause
  <2>4. CASE call'[c].decision = Sanitized(Wrapped(WrapperOf(NextEvaluator(c)), opinion), NextEvaluator(c))
    <3>1. Len(call[c].opinions) + 1 \in DOMAIN call'[c].opinions
      BY <2>1 DEF Opined
    <3>2. /\ call'[c].opinions[Len(call[c].opinions) + 1] = opinion
          /\ call'[c].list[Len(call[c].opinions) + 1] = NextEvaluator(c)
      BY <2>1, <2>2 DEF Opined
    <3>3. call'[c].decision.verdict = ReplyVerdict(Wrapped(WrapperOf(NextEvaluator(c)), opinion))
      BY <2>4 DEF Sanitized, Ruling
    <3>4. \E i \in DOMAIN call'[c].opinions :
            ReplyVerdict(Wrapped(WrapperOf(call'[c].list[i]), call'[c].opinions[i]))
              = call'[c].decision.verdict
      BY <3>1, <3>2, <3>3
    <3> QED
      BY <2>1, <3>4 DEF Opined, Cause
  <2> QED
    BY <2>1, <2>3, <2>4 DEF Opined, MoreRestrictive
<1>6. CASE Issue(c) /\ Composing(c)'
  <2>1. /\ call'[c].authority = call[c].authority /\ call'[c].shape = call[c].shape
        /\ call'[c].list = call[c].list /\ call'[c].opinions = call[c].opinions
        /\ call'[c].decision = call[c].decision
    BY <1>6, IssueFacts
  <2> QED
    BY <1>6, <2>1, IssueFacts DEF Issue, Consulted, Cause
<1>7. CASE Identify(c) \/ Reread(c)
  BY <1>7, ReadFacts DEF Same
<1> QED
  BY <1>1, <1>2, <1>3, <1>4, <1>5, <1>6, <1>7, DecideEnds DEF Decide

(* The signed verdict is that of the policy, of an evaluator or of one of  *)
(* the kernel's own obligations.                                           *)
THEOREM VerdictsHaveCauses == Spec => []VerdictHasCause
<1> DEFINE Inv == \A c \in Calls : Caused(c)
<1>1. Init => Inv
  BY DEF Init, NoCall, Caused, Composing
<1>2. TypeInv /\ Inv /\ [Next]_vars => Inv'
  <2> SUFFICES ASSUME TypeInv, Inv, [Next]_vars, NEW c \in Calls PROVE Caused(c)'
    OBVIOUS
  <2>1. CASE Decide(c)
    BY <2>1, CausedStep
  <2>2. CASE UNCHANGED call[c]
    BY <2>2 DEF Caused, Composing, Cause
  <2> QED
    BY <2>1, <2>2, DecideFrame, OperateFrame DEF Next, vars, policy
<1>3. Inv => VerdictHasCause
  BY DEF Caused, Cause, Composing, Issued, VerdictHasCause, Replies
<1> QED
  BY <1>1, <1>2, <1>3, Types, PTL DEF Spec

-----------------------------------------------------------------------------
(* Minimization.  An evaluator's ruling brings no obligations of its own,  *)
(* so what it leads to is not enforceable, or permits as it is.            *)

Minimized(c) ==
  Composing(c) /\ Enforceable(call[c].decision) /\ call[c].shape.redacts
    => call[c].decision.transformed

LEMMA ObligedMinimizes ==
  ASSUME NEW authority \in VERDICTS, NEW shape \in ShapeType,
         Enforceable(Obliged(authority, shape)), shape.redacts
  PROVE  Obliged(authority, shape).transformed
<1>1. CASE authority = "ALLOW"
  BY <1>1 DEF Obliged, Enforceable, MoreRestrictive, LocalRuling, Ruling, ShapeType,
              Rank, Normalize, PERMITTING, VERDICTS
<1>2. CASE authority = "LIMIT"
  BY <1>2 DEF Obliged, Enforceable, MoreRestrictive, LocalRuling, Ruling, ShapeType,
              Rank, Normalize, PERMITTING, VERDICTS
<1>3. CASE authority = "CONTAIN"
  BY <1>3 DEF Obliged, Enforceable, MoreRestrictive, LocalRuling, Ruling, ShapeType,
              Rank, Normalize, PERMITTING, VERDICTS
<1>4. CASE authority \in {"DEFER", "DENY"}
  BY <1>4 DEF Obliged, Enforceable, MoreRestrictive, LocalRuling, Ruling, ShapeType,
              Rank, Normalize, PERMITTING, VERDICTS
<1> QED
  BY <1>1, <1>2, <1>3, <1>4 DEF VERDICTS

LEMMA SanitizedReplaces ==
  ASSUME NEW d \in RulingType, NEW reply, NEW e,
         Enforceable(MoreRestrictive(d, Sanitized(reply, e)))
  PROVE  MoreRestrictive(d, Sanitized(reply, e)) = d
<1>1. ReplyVerdict(reply) \in VERDICTS
  BY DEF ReplyVerdict, Normalize, VERDICTS
<1> QED
  BY <1>1 DEF Enforceable, MoreRestrictive, Sanitized, Ruling, RulingType, Rank, Normalize,
              PERMITTING, VERDICTS

LEMMA MinimizedStep ==
  ASSUME TypeInv, NEW c \in Calls, Minimized(c), Decide(c)
  PROVE  Minimized(c)'
<1> USE DEF Minimized, Composing
<1>1. CASE Begin(c)
  BY <1>1 DEF Begin, TypeInv, Ruling, Enforceable, PERMITTING
<1>2. CASE call'[c].pc = "raised"
  BY <1>2
<1>3. CASE EvaluatePolicy(c)
  <2>1. CASE Denied(c)
    BY <2>1 DEF Denied, Ruling, Enforceable, PERMITTING
  <2>2. ASSUME NEW answer, Heard(c, answer)
        PROVE  Minimized(c)'
    BY <2>2 DEF Heard
  <2> QED
    BY <1>2, <1>3, <2>1, <2>2, EvaluateFacts
<1>4. CASE Canonicalize(c)
  <2>1. call[c] \in RunningType
    BY <1>4 DEF Canonicalize, TypeInv, Running
  <2>2. /\ call'[c].decision = Obliged(call[c].authority, call[c].shape)
        /\ call'[c].shape = call[c].shape
    BY <1>4, <2>1 DEF Canonicalize, TypeInv, RunningType
  <2> QED
    BY <2>1, <2>2, ObligedMinimizes DEF RunningType
<1>5. CASE Consult(c) /\ Composing(c)'
  <2>1. PICK opinion \in AllOpinions : Opined(c, opinion)
    BY <1>5, ConsultFacts
  <2>2. call'[c].shape = call[c].shape /\ call[c].pc = "consult"
    BY <2>1 DEF Opined
  <2>3. Enforceable(call'[c].decision) => call'[c].decision = call[c].decision
    BY <2>1, SanitizedReplaces DEF Opined
  <2> QED
    BY <2>2, <2>3 DEF Enforceable
<1>6. CASE Issue(c) /\ Composing(c)'
  <2>1. call'[c].shape = call[c].shape /\ call'[c].decision = call[c].decision
    BY <1>6, IssueFacts
  <2> QED
    BY <1>6, <2>1 DEF Issue, Consulted, Enforceable
<1>7. CASE Identify(c) \/ Reread(c)
  BY <1>7, ReadFacts
<1> QED
  BY <1>1, <1>2, <1>3, <1>4, <1>5, <1>6, <1>7, DecideEnds DEF Decide

(* Whatever the evaluators say, no decision that the enforcement point     *)
(* would run lacks the minimized payload when a redaction rule hits.       *)
THEOREM RedactionsSurvive == Spec => []RedactionSurvives
<1> DEFINE Inv == \A c \in Calls : Minimized(c)
<1>1. Init => Inv
  BY DEF Init, NoCall, Minimized, Composing
<1>2. TypeInv /\ Inv /\ [Next]_vars => Inv'
  <2> SUFFICES ASSUME TypeInv, Inv, [Next]_vars, NEW c \in Calls PROVE Minimized(c)'
    OBVIOUS
  <2>1. CASE Decide(c)
    BY <2>1, MinimizedStep
  <2>2. CASE UNCHANGED call[c]
    BY <2>2 DEF Minimized, Composing, Enforceable
  <2> QED
    BY <2>1, <2>2, DecideFrame, OperateFrame DEF Next, vars, policy
<1>3. Inv => RedactionSurvives
  BY DEF Minimized, Composing, Issued, RedactionSurvives
<1> QED
  BY <1>1, <1>2, <1>3, Types, PTL DEF Spec

-----------------------------------------------------------------------------
(* Composition.  The evaluator loop folds one record at a time; what it    *)
(* holds is the base ruling or the ruling of an evaluator heard, and none  *)
(* of those is more restrictive.                                           *)

Said(c, i) == ReplyVerdict(Wrapped(WrapperOf(call[c].list[i]), call[c].opinions[i]))

Strictest(c) ==
  LET verdict == call[c].decision.verdict
      base == call[c].base
      heard == DOMAIN call[c].opinions
  IN  /\ Asking(c) => call[c].opinions = <<>>
      /\ Composing(c) =>
           /\ call[c].shape \in ShapeType /\ call[c].authority \in VERDICTS
           /\ base.verdict \in VERDICTS /\ verdict \in VERDICTS
           /\ base.verdict = "DENY" \/ base = Obliged(call[c].authority, call[c].shape)
           /\ heard = 1..Len(call[c].opinions) /\ Len(call[c].opinions) \in Nat
           /\ verdict = base.verdict \/ \E i \in heard : Said(c, i) = verdict
           /\ Rank[base.verdict] <= Rank[verdict]
           /\ \A i \in heard : Rank[Said(c, i)] <= Rank[verdict]

(* The record that governs two rulings ranks as high as both.              *)
LEMMA MoreRestrictiveRanks ==
  ASSUME NEW d1 \in RulingType, NEW d2 \in RulingType
  PROVE  LET d == MoreRestrictive(d1, d2)
         IN  /\ d.verdict \in VERDICTS /\ d.verdict \in {d1.verdict, d2.verdict}
             /\ Rank[d1.verdict] <= Rank[d.verdict] /\ Rank[d2.verdict] <= Rank[d.verdict]
<1> DEFINE d == MoreRestrictive(d1, d2)
<1>1. d1.verdict \in VERDICTS /\ d2.verdict \in VERDICTS
  BY DEF RulingType
<1>2. Normalize(d1.verdict) = d1.verdict /\ Normalize(d2.verdict) = d2.verdict
  BY <1>1, NormalizeIdempotent
<1>3. Rank[d1.verdict] \in 0..4 /\ Rank[d2.verdict] \in 0..4
  BY <1>1, RankIsInjective
<1>4. CASE Rank[d2.verdict] > Rank[d1.verdict]
  BY <1>1, <1>2, <1>3, <1>4 DEF MoreRestrictive
<1>5. CASE ~(Rank[d2.verdict] > Rank[d1.verdict])
  BY <1>1, <1>2, <1>3, <1>5 DEF MoreRestrictive
<1> QED
  BY <1>4, <1>5

LEMMA SaidType ==
  ASSUME NEW reply
  PROVE  ReplyVerdict(reply) \in VERDICTS /\ Rank[ReplyVerdict(reply)] \in 0..4
<1>1. ReplyVerdict(reply) \in VERDICTS
  BY NormalizeInLattice DEF ReplyVerdict, VERDICTS
<1> QED
  BY <1>1, RankIsInjective

(* At the start of composition the base ruling governs alone.              *)
LEMMA StrictestStarts ==
  ASSUME NEW c \in Calls, call'[c].pc = "consult", call'[c].opinions = <<>>,
         call'[c].shape \in ShapeType, call'[c].authority \in VERDICTS,
         call'[c].base \in RulingType, call'[c].decision = call'[c].base,
         \/ call'[c].base.verdict = "DENY"
         \/ call'[c].base = Obliged(call'[c].authority, call'[c].shape)
  PROVE  Strictest(c)'
<1>1. call'[c].base.verdict \in VERDICTS /\ Rank[call'[c].base.verdict] \in 0..4
  BY RankIsInjective DEF RulingType
<1>2. DOMAIN call'[c].opinions = {} /\ Len(call'[c].opinions) = 0 /\ 1..0 = {}
  OBVIOUS
<1> QED
  BY <1>1, <1>2 DEF Strictest, Composing, Asking

LEMMA StrictestStep ==
  ASSUME TypeInv, NEW c \in Calls, Strictest(c), Decide(c)
  PROVE  Strictest(c)'
<1>1. CASE Begin(c)
  <2>1. PICK action \in Actions, advice \in Advices, context \in Contexts, list \in EvaluatorLists :
          call' = [call EXCEPT ![c] =
            [pc |-> IF action.ambiguous THEN "consult" ELSE "identify",
             shape |-> Shape(action, advice, context), list |-> list, opinions |-> <<>>,
             answer |-> NoAnswer, authority |-> "DENY", first |-> ActionShape,
             revision |-> ActionShape, reading |-> counter, moved |-> FALSE,
             base |-> Ruling("DENY", "kernel"), decision |-> Ruling("DENY", "kernel")]]
    BY <1>1 DEF Begin
  <2>2. Shape(action, advice, context) \in ShapeType
    BY KernelAssumption DEF Shape, ShapeType
  <2>3. Ruling("DENY", "kernel") \in RulingType /\ Ruling("DENY", "kernel").verdict = "DENY"
    BY DEF Ruling, RulingType, VERDICTS
  <2>4. /\ call'[c].opinions = <<>> /\ call'[c].shape \in ShapeType
        /\ call'[c].authority = "DENY" /\ "DENY" \in VERDICTS
        /\ call'[c].base = Ruling("DENY", "kernel") /\ call'[c].decision = call'[c].base
    BY <2>1, <2>2 DEF VERDICTS, TypeInv
  <2>5. call'[c].pc \in {"consult", "identify"}
    BY <2>1 DEF TypeInv
  <2>6. CASE call'[c].pc = "consult"
    BY <2>3, <2>4, <2>6, StrictestStarts
  <2>7. CASE call'[c].pc = "identify"
    BY <2>4, <2>7 DEF Strictest, Composing, Asking
  <2> QED
    BY <2>5, <2>6, <2>7
<1>2. CASE call'[c].pc = "raised"
  BY <1>2 DEF Strictest, Composing, Asking
<1>3. CASE EvaluatePolicy(c)
  <2>1. call[c].pc = "evaluate" /\ call[c] \in RunningType /\ call[c].opinions = <<>>
    BY <1>3, EvaluateFacts DEF Strictest, Asking
  <2>2. CASE Denied(c)
    <3>1. Ruling("DENY", "authority") \in RulingType /\ Ruling("DENY", "authority").verdict = "DENY"
      BY DEF Ruling, RulingType, VERDICTS
    <3>2. /\ call'[c].opinions = <<>> /\ call'[c].shape \in ShapeType
          /\ call'[c].authority \in VERDICTS
      BY <2>1, <2>2 DEF Denied, Same, RunningType
    <3> QED
      BY <2>2, <3>1, <3>2, StrictestStarts DEF Denied
  <2>3. ASSUME NEW answer, Heard(c, answer)
        PROVE  Strictest(c)'
    <3>1. call'[c].pc = "reread" /\ call'[c].opinions = <<>>
      BY <2>1, <2>3 DEF Heard, Same
    <3> QED
      BY <3>1 DEF Strictest, Composing, Asking
  <2> QED
    BY <1>2, <1>3, <2>2, <2>3, EvaluateFacts
<1>4. CASE Canonicalize(c)
  <2>1. call[c] \in RunningType /\ call[c].opinions = <<>>
    BY <1>4 DEF Canonicalize, TypeInv, Running, Strictest, Asking
  <2>2. /\ call'[c].pc = "consult" /\ call'[c].shape = call[c].shape
        /\ call'[c].authority = call[c].authority /\ call'[c].opinions = call[c].opinions
        /\ call'[c].base = Obliged(call[c].authority, call[c].shape)
        /\ call'[c].decision = Obliged(call[c].authority, call[c].shape)
    BY <1>4, <2>1 DEF Canonicalize, TypeInv, RunningType
  <2>3. call[c].shape \in ShapeType /\ call[c].authority \in VERDICTS
    BY <2>1 DEF RunningType
  <2>4. Obliged(call[c].authority, call[c].shape) \in RulingType
    BY <2>3, ObligedType
  <2> QED
    BY <2>1, <2>2, <2>3, <2>4, StrictestStarts
<1>5. CASE Consult(c) /\ Composing(c)'
  <2>1. PICK opinion \in AllOpinions : Opined(c, opinion)
    BY <1>5, ConsultFacts
  <2>0. PICK n \in Nat : n = Len(call[c].opinions)
    BY <2>1 DEF Opined
  <2> DEFINE e == NextEvaluator(c)
             said == Sanitized(Wrapped(WrapperOf(e), opinion), e)
             v == call[c].decision.verdict
             w == call'[c].decision.verdict
  <2>2. /\ call[c].pc = "consult" /\ call'[c].pc = "consult" /\ call'[c].list = call[c].list
        /\ call'[c].base = call[c].base /\ call'[c].shape = call[c].shape
        /\ call'[c].authority = call[c].authority
    BY <2>1 DEF Opined
  <2>3. /\ n \in Nat /\ DOMAIN call[c].opinions = 1..n /\ DOMAIN call'[c].opinions = (1..n) \cup {n + 1}
        /\ \A i \in 1..n : call'[c].opinions[i] = call[c].opinions[i]
        /\ call'[c].opinions[n + 1] = opinion /\ call[c].list[n + 1] = e
        /\ call[c].decision \in RulingType /\ said \in RulingType
        /\ call'[c].decision = MoreRestrictive(call[c].decision, said)
    <3>1. 1..(n + 1) = (1..n) \cup {n + 1}
      OBVIOUS
    <3> QED
      BY <2>0, <2>1, <3>1 DEF Opined
  <2>4. /\ \A i \in 1..n : Said(c, i)' = Said(c, i)
        /\ Said(c, n + 1)' = said.verdict
    <3>1. Said(c, n + 1)' = ReplyVerdict(Wrapped(WrapperOf(e), opinion))
      BY <2>2, <2>3 DEF Said
    <3>2. said.verdict = ReplyVerdict(Wrapped(WrapperOf(e), opinion))
      BY DEF Sanitized, Ruling
    <3>3. \A i \in 1..n : Said(c, i)' = Said(c, i)
      BY <2>2, <2>3 DEF Said
    <3> QED
      BY <3>1, <3>2, <3>3
  <2>5. /\ w \in VERDICTS /\ w \in {v, said.verdict}
        /\ Rank[v] <= Rank[w] /\ Rank[said.verdict] <= Rank[w]
    BY <2>3, MoreRestrictiveRanks
  <2>6. /\ Rank[v] \in 0..4 /\ Rank[w] \in 0..4 /\ Rank[call[c].base.verdict] \in 0..4
        /\ \A i \in 1..n : Rank[Said(c, i)] \in 0..4
    BY <2>2, <2>3, <2>5, RankIsInjective, SaidType DEF RulingType, Said, Strictest, Composing
  <2>7. /\ v = call[c].base.verdict \/ \E i \in 1..n : Said(c, i) = v
        /\ Rank[call[c].base.verdict] <= Rank[v]
        /\ \A i \in 1..n : Rank[Said(c, i)] <= Rank[v]
    BY <2>2, <2>3 DEF Strictest, Composing, Asking
  <2> HIDE DEF said, v, w, e
  <2>8. w = call[c].base.verdict \/ \E i \in DOMAIN call'[c].opinions : Said(c, i)' = w
    BY <2>3, <2>4, <2>5, <2>7
  <2>9. /\ Rank[call[c].base.verdict] <= Rank[w]
        /\ \A i \in DOMAIN call'[c].opinions : Rank[Said(c, i)'] <= Rank[w]
    <3>1. Rank[call[c].base.verdict] <= Rank[w]
      BY <2>5, <2>6, <2>7
    <3>2. ASSUME NEW i \in 1..n PROVE Rank[Said(c, i)] <= Rank[w]
      <4>1. Rank[Said(c, i)] \in 0..4 /\ Rank[Said(c, i)] <= Rank[v]
        BY <2>6, <2>7
      <4> HIDE <2>7
      <4> QED
        BY <2>5, <2>6, <4>1
    <3>3. Rank[Said(c, n + 1)'] <= Rank[w]
      BY <2>4, <2>5
    <3> QED
      BY <2>3, <2>4, <3>1, <3>2, <3>3
  <2>10. DOMAIN call'[c].opinions = 1..Len(call'[c].opinions) /\ Len(call'[c].opinions) \in Nat
    <3>1. call[c] \in RunningType
      BY <2>2 DEF TypeInv, Running
    <3>2. call'[c].opinions \in Seq(AllOpinions)
      BY <1>5, <2>2, DecideTypes DEF Decide, Running, RunningType
    <3> QED
      BY <3>2
  <2> QED
    BY <2>2, <2>5, <2>8, <2>9, <2>10 DEF Strictest, Composing, Asking, w
<1>6. CASE Issue(c) /\ Composing(c)'
  <2>1. /\ call'[c].pc = "issued" /\ call'[c].authority = call[c].authority
        /\ call'[c].shape = call[c].shape /\ call'[c].list = call[c].list
        /\ call'[c].opinions = call[c].opinions /\ call'[c].base = call[c].base
        /\ call'[c].decision = call[c].decision /\ call[c].pc = "consult"
    BY <1>6, IssueFacts DEF Issue, Consulted
  <2> QED
    BY <2>1 DEF Strictest, Composing, Asking, Said
<1>7. CASE Identify(c) \/ Reread(c)
  BY <1>7, ReadFacts DEF Strictest, Composing, Asking, Same
<1> QED
  BY <1>1, <1>2, <1>3, <1>4, <1>5, <1>6, <1>7, DecideEnds DEF Decide

LEMMA StrictestAlways == Spec => [](\A c \in Calls : Strictest(c))
<1> DEFINE Inv == \A c \in Calls : Strictest(c)
<1>1. Init => Inv
  BY DEF Init, NoCall, Strictest, Composing, Asking
<1>2. TypeInv /\ Inv /\ [Next]_vars => Inv'
  <2> SUFFICES ASSUME TypeInv, Inv, [Next]_vars, NEW c \in Calls PROVE Strictest(c)'
    OBVIOUS
  <2>1. CASE Decide(c)
    BY <2>1, StrictestStep
  <2>2. CASE UNCHANGED call[c]
    BY <2>2 DEF Strictest, Composing, Asking, Said
  <2> QED
    BY <2>1, <2>2, DecideFrame, OperateFrame DEF Next, vars, policy
<1> QED
  BY <1>1, <1>2, Types, PTL DEF Spec

(* What the replies compose to in an order p: it governs a sequence of the *)
(* base verdict and the verdicts of the replies.                           *)
InOrder(c, base, p) ==
  <<base.verdict>> \o [i \in 1..Len(call[c].opinions) |-> Said(c, p[i])]

LEMMA ComposedGoverns ==
  ASSUME NEW c \in Calls, NEW base, base.verdict \in VERDICTS,
         NEW p \in [DOMAIN call[c].opinions -> DOMAIN call[c].opinions],
         DOMAIN call[c].opinions = 1..Len(call[c].opinions), Len(call[c].opinions) \in Nat
  PROVE  /\ Governs(Composed(base, Replies(c), p), InOrder(c, base, p), 1..(Len(call[c].opinions) + 1))
         /\ InOrder(c, base, p)[1] = base.verdict
         /\ \A i \in 1..Len(call[c].opinions) : InOrder(c, base, p)[i + 1] = Said(c, p[i])
         /\ \A i \in 1..(Len(call[c].opinions) + 1) : InOrder(c, base, p)[i] \in VERDICTS
<1> DEFINE n == Len(call[c].opinions)
           tail == [i \in 1..n |-> Said(c, p[i])]
           v == <<base.verdict>> \o tail
<1>1. \A i \in 1..n : Said(c, p[i]) \in VERDICTS
  BY SaidType DEF Said
<1>2. tail \in Seq(VERDICTS) /\ Len(tail) = n
  <2> HIDE DEF n
  <2>1. n \in Nat
    BY DEF n
  <2> QED
    BY <1>1, <2>1
<1>3. /\ v \in Seq(VERDICTS) /\ Len(v) = n + 1 /\ v[1] = base.verdict
      /\ \A i \in 1..n : v[i + 1] = tail[i]
  <2> HIDE DEF tail, n
  <2>1. <<base.verdict>> \in Seq(VERDICTS) /\ Len(<<base.verdict>>) = 1
    OBVIOUS
  <2> QED
    BY <1>2, <2>1 DEF n
<1>4. DOMAIN v = 1..(n + 1)
  <2> HIDE DEF v, n
  <2> QED
    BY <1>3
<1>5. Composed(base, Replies(c), p) = Compose(v)
  <2>1. DOMAIN Replies(c) = 1..n
    BY DEF Replies
  <2>2. \A i \in 1..n : ReplyVerdict(Replies(c)[p[i]]) = Said(c, p[i])
    BY DEF Replies, Said
  <2>3. [i \in DOMAIN Replies(c) |-> ReplyVerdict(Replies(c)[p[i]])] = tail
    BY <2>1, <2>2
  <2> QED
    BY <2>3 DEF Composed
<1>6. Governs(Compose(v), v, DOMAIN v)
  <2> HIDE DEF v
  <2> QED
    BY <1>3, ComposeIsStrictest
<1>7. \A i \in 1..(n + 1) : v[i] \in VERDICTS
  <2> HIDE DEF v, n
  <2> QED
    BY <1>3, <1>4
<1> QED
  BY <1>3, <1>4, <1>5, <1>6, <1>7 DEF InOrder

(* The order in which the evaluators are passed does not change the        *)
(* verdict, however many there are: every permutation of their replies     *)
(* composes to the signed one.                                             *)
THEOREM VerdictsIgnoreOrder == Spec => []VerdictIgnoresOrder
<1>1. ASSUME NEW c \in Calls, Strictest(c), Issued(c), NEW p \in Orders(Replies(c))
      PROVE  Composed(call[c].base, Replies(c), p) = call[c].decision.verdict
  <2> DEFINE n == Len(call[c].opinions)
             base == call[c].base
             w == call[c].decision.verdict
             v == InOrder(c, base, p)
  <2>1. /\ base.verdict \in VERDICTS /\ w \in VERDICTS
        /\ DOMAIN call[c].opinions = 1..n /\ n \in Nat
        /\ w = base.verdict \/ \E i \in 1..n : Said(c, i) = w
        /\ Rank[base.verdict] <= Rank[w]
        /\ \A i \in 1..n : Rank[Said(c, i)] <= Rank[w]
    BY <1>1 DEF Strictest, Composing, Issued
  <2>2. p \in [1..n -> 1..n] /\ \A j \in 1..n : \E i \in 1..n : p[i] = j
    <3>1. DOMAIN Replies(c) = 1..n
      BY <2>1 DEF Replies
    <3> HIDE DEF n
    <3> QED
      BY <1>1, <3>1 DEF Orders, Seqs!Bijection, Seqs!Injection, Seqs!Surjection
  <2>3. /\ Governs(Composed(base, Replies(c), p), v, 1..(n + 1))
        /\ v[1] = base.verdict /\ \A i \in 1..n : v[i + 1] = Said(c, p[i])
        /\ \A i \in 1..(n + 1) : v[i] \in VERDICTS
    <3>1. p \in [DOMAIN call[c].opinions -> DOMAIN call[c].opinions]
      BY <2>1, <2>2
    <3> HIDE DEF base
    <3> QED
      BY <2>1, <3>1, ComposedGoverns
  <2> HIDE DEF v, w, base, n
  <2>4. \A i \in 1..(n + 1) : Normalize(v[i]) = v[i]
    BY <2>3, NormalizeIdempotent
  <2>5. \A i \in 1..(n + 1) : i = 1 \/ \E j \in 1..n : i = j + 1
    <3>1. \A i \in 1..(n + 1) : i # 1 => i - 1 \in 1..n /\ i = (i - 1) + 1
      BY <2>1
    <3> QED
      BY <3>1
  <2>6. \A i \in 1..n : p[i] \in 1..n /\ i + 1 \in 1..(n + 1)
    BY <2>1, <2>2
  <2>7. \A i \in 1..(n + 1) : Rank[v[i]] <= Rank[w]
    BY <2>1, <2>3, <2>5, <2>6
  <2>8. \E i \in 1..(n + 1) : v[i] = w
    <3>1. CASE w = base.verdict
      BY <2>1, <2>3, <3>1
    <3>2. ASSUME NEW j \in 1..n, Said(c, j) = w
          PROVE  \E i \in 1..(n + 1) : v[i] = w
      <4>1. PICK i \in 1..n : p[i] = j
        BY <2>2
      <4> QED
        BY <2>3, <2>6, <3>2, <4>1
    <3> QED
      BY <2>1, <3>1, <3>2
  <2>9. Governs(w, v, 1..(n + 1))
    BY <2>1, <2>4, <2>7, <2>8 DEF Governs
  <2> QED
    BY <2>3, <2>9, GovernsOnce DEF w, base
<1>2. (\A c \in Calls : Strictest(c)) => VerdictIgnoresOrder
  BY <1>1 DEF VerdictIgnoresOrder
<1> QED
  BY <1>2, StrictestAlways, PTL

(* Without the threat class, the kernel's own ruling is no stricter.       *)
LEMMA ObligedTightens ==
  ASSUME NEW authority \in VERDICTS, NEW shape \in ShapeType,
         ~(authority = "LIMIT" /\ ~shape.redacts)
  PROVE  LET calm == [shape EXCEPT !.contained = FALSE]
         IN  /\ calm \in ShapeType /\ Obliged(authority, calm).verdict \in VERDICTS
             /\ Rank[Obliged(authority, calm).verdict] <= Rank[Obliged(authority, shape).verdict]
<1> DEFINE calm == [shape EXCEPT !.contained = FALSE]
<1>1. calm \in ShapeType /\ calm.redacts = shape.redacts /\ calm.contained = FALSE
  BY DEF ShapeType
<1> HIDE DEF calm
<1>2. Obliged(authority, calm).verdict \in VERDICTS
  BY <1>1, ObligedType DEF RulingType
<1>3. ASSUME NEW s \in ShapeType
      PROVE  /\ authority \in {"DENY", "DEFER", "CONTAIN"} => Obliged(authority, s).verdict = authority
             /\ authority = "LIMIT" /\ s.contained => Obliged(authority, s).verdict = "CONTAIN"
             /\ authority = "LIMIT" /\ ~s.contained /\ s.redacts => Obliged(authority, s).verdict = "LIMIT"
             /\ authority = "ALLOW" /\ s.contained => Obliged(authority, s).verdict = "CONTAIN"
             /\ authority = "ALLOW" /\ ~s.contained /\ s.redacts => Obliged(authority, s).verdict = "LIMIT"
             /\ authority = "ALLOW" /\ ~s.contained /\ ~s.redacts => Obliged(authority, s).verdict = "ALLOW"
  <2>1. CASE authority \in {"DENY", "DEFER"}
    BY <2>1 DEF Obliged, Ruling
  <2> DEFINE mine == Ruling(authority, "authority")
             host == LocalRuling(s)
             d    == MoreRestrictive(mine, host)
  <2>2. CASE authority \in {"CONTAIN", "LIMIT", "ALLOW"}
    <3>1. /\ s.contained \in BOOLEAN /\ s.redacts \in BOOLEAN
          /\ mine.verdict = authority
          /\ host.verdict = IF s.contained THEN "CONTAIN" ELSE IF s.redacts THEN "LIMIT" ELSE "ALLOW"
      BY DEF ShapeType, LocalRuling, Ruling
    <3>2. d = IF Rank[host.verdict] > Rank[authority] THEN host ELSE mine
      BY <2>2, <3>1 DEF MoreRestrictive, Normalize, VERDICTS
    <3>3. /\ d.verdict = "LIMIT" /\ s.redacts => Obliged(authority, s) = [d EXCEPT !.transformed = TRUE]
          /\ d.verdict = "CONTAIN" =>
               Obliged(authority, s) = [d EXCEPT !.transformed = s.redacts, !.containment = TRUE]
          /\ d.verdict = "ALLOW" => Obliged(authority, s) = d
      <4> HIDE DEF d
      <4>1. Obliged(authority, s) =
              CASE authority \in {"DENY", "DEFER"} -> mine
                [] authority \notin {"DENY", "DEFER"} /\ d.verdict = "LIMIT" ->
                     IF s.redacts THEN [d EXCEPT !.transformed = TRUE] ELSE Ruling("DENY", "kernel")
                [] authority \notin {"DENY", "DEFER"} /\ d.verdict = "CONTAIN" ->
                     [d EXCEPT !.transformed = s.redacts, !.containment = TRUE]
                [] OTHER -> d
        BY DEF Obliged, d
      <4> QED
        BY <2>2, <4>1
    <3>4. d \in [verdict : VERDICTS, by : {"authority", "host"}, transformed : BOOLEAN, containment : BOOLEAN]
      <4>1. /\ mine \in [verdict : VERDICTS, by : {"authority"}, transformed : BOOLEAN, containment : BOOLEAN]
            /\ host \in [verdict : VERDICTS, by : {"host"}, transformed : BOOLEAN, containment : BOOLEAN]
        BY DEF Ruling, LocalRuling, VERDICTS
      <4> QED
        BY <3>2, <4>1
    <3>5. /\ d.verdict = "LIMIT" /\ s.redacts => Obliged(authority, s).verdict = "LIMIT"
          /\ d.verdict = "CONTAIN" => Obliged(authority, s).verdict = "CONTAIN"
          /\ d.verdict = "ALLOW" => Obliged(authority, s).verdict = "ALLOW"
      <4> HIDE DEF d
      <4> QED
        BY <3>3, <3>4
    <3>6. d.verdict = IF Rank[host.verdict] > Rank[authority] THEN host.verdict ELSE authority
      BY <3>1, <3>2
    <3>7. Rank["ALLOW"] = 0 /\ Rank["LIMIT"] = 1 /\ Rank["CONTAIN"] = 2
      BY DEF Rank, VERDICTS
    <3> HIDE DEF d, host
    <3>8. CASE authority = "CONTAIN"
      BY <3>1, <3>5, <3>6, <3>7, <3>8
    <3>9. CASE authority = "LIMIT"
      BY <3>1, <3>5, <3>6, <3>7, <3>9
    <3>10. CASE authority = "ALLOW"
      BY <3>1, <3>5, <3>6, <3>7, <3>10
    <3> QED
      BY <2>2, <3>8, <3>9, <3>10
  <2> QED
    BY <2>1, <2>2 DEF VERDICTS
<1>4. shape.contained \in BOOLEAN /\ shape.redacts \in BOOLEAN
  BY DEF ShapeType
<1>5. Rank[Obliged(authority, calm).verdict] <= Rank[Obliged(authority, shape).verdict]
  <2>1. CASE authority \in {"DENY", "DEFER", "CONTAIN"}
    BY <1>1, <1>3, <2>1 DEF Rank, VERDICTS
  <2>2. CASE authority = "LIMIT"
    BY <1>1, <1>3, <1>4, <2>2 DEF Rank, VERDICTS
  <2>3. CASE authority = "ALLOW"
    BY <1>1, <1>3, <1>4, <2>3 DEF Rank, VERDICTS
  <2> QED
    BY <2>1, <2>2, <2>3 DEF VERDICTS
<1> QED
  BY <1>1, <1>2, <1>5 DEF calm

(* A threat class, whoever names it, tightens a decision or does nothing:  *)
(* however many evaluators there are, the signed verdict is at least as    *)
(* restrictive as what the same answers come to without it.                *)
THEOREM ThreatsOnlyTighten == Spec => []ThreatOnlyTightens
<1>1. ASSUME NEW c \in Calls, Strictest(c), Issued(c), ~call[c].shape.ambiguous,
             ~(call[c].authority = "LIMIT" /\ ~[call[c].shape EXCEPT !.contained = FALSE].redacts)
      PROVE  Rank[call[c].decision.verdict] >=
               Rank[Composed(Obliged(call[c].authority, [call[c].shape EXCEPT !.contained = FALSE]),
                             Replies(c), [i \in DOMAIN Replies(c) |-> i])]
  <2> DEFINE n == Len(call[c].opinions)
             base == Obliged(call[c].authority, [call[c].shape EXCEPT !.contained = FALSE])
             w == call[c].decision.verdict
             p == [i \in DOMAIN Replies(c) |-> i]
             v == InOrder(c, base, p)
             m == Composed(base, Replies(c), p)
  <2>1. /\ call[c].shape \in ShapeType /\ call[c].authority \in VERDICTS
        /\ w \in VERDICTS /\ call[c].base.verdict \in VERDICTS
        /\ call[c].base.verdict = "DENY" \/ call[c].base = Obliged(call[c].authority, call[c].shape)
        /\ DOMAIN call[c].opinions = 1..n /\ n \in Nat
        /\ Rank[call[c].base.verdict] <= Rank[w]
        /\ \A i \in 1..n : Rank[Said(c, i)] <= Rank[w]
    BY <1>1 DEF Strictest, Composing, Issued
  <2>2. [call[c].shape EXCEPT !.contained = FALSE].redacts = call[c].shape.redacts
    BY <2>1 DEF ShapeType
  <2>3. /\ base.verdict \in VERDICTS
        /\ Rank[base.verdict] <= Rank[Obliged(call[c].authority, call[c].shape).verdict]
    BY <1>1, <2>1, <2>2, ObligedTightens
  <2>4. p \in [DOMAIN call[c].opinions -> DOMAIN call[c].opinions] /\ \A i \in 1..n : p[i] = i
    BY <2>1 DEF Replies
  <2> HIDE DEF base, p
  <2>5. /\ Governs(m, v, 1..(n + 1))
        /\ v[1] = base.verdict /\ \A i \in 1..n : v[i + 1] = Said(c, p[i])
        /\ \A i \in 1..(n + 1) : v[i] \in VERDICTS
    BY <2>1, <2>3, <2>4, ComposedGoverns
  <2> HIDE DEF v, w, n, m
  <2>6. /\ \A u \in VERDICTS : Rank[u] \in 0..4
        /\ Rank["ALLOW"] = 0 /\ Rank["DENY"] = 4 /\ m \in VERDICTS
    BY <2>5, RankIsInjective DEF Rank, VERDICTS, Governs
  <2>7. ASSUME call[c].base.verdict = "DENY" PROVE Rank[w] >= Rank[m]
    BY <2>1, <2>6, <2>7
  <2>8. ASSUME call[c].base = Obliged(call[c].authority, call[c].shape) PROVE Rank[w] >= Rank[m]
    <3>1. Rank[base.verdict] <= Rank[w]
      <4>1. Rank[base.verdict] \in 0..4 /\ Rank[w] \in 0..4 /\ Rank[call[c].base.verdict] \in 0..4
        BY <2>1, <2>3, <2>6
      <4> QED
        BY <2>1, <2>3, <2>8, <4>1
    <3>2. \A i \in 1..(n + 1) : i = 1 \/ (i - 1 \in 1..n /\ i = (i - 1) + 1)
      BY <2>1
    <3>3. \A i \in 1..(n + 1) : i # 1 => v[i] = Said(c, i - 1)
      BY <2>4, <2>5, <3>2
    <3>4. \A i \in 1..(n + 1) : Rank[v[i]] <= Rank[w]
      BY <2>1, <2>5, <3>1, <3>2, <3>3
    <3>5. \A i \in 1..(n + 1) : Normalize(v[i]) = v[i]
      BY <2>5, NormalizeIdempotent
    <3>6. m = "ALLOW" \/ \E i \in 1..(n + 1) : v[i] = m
      BY <2>5, <3>5 DEF Governs
    <3> QED
      BY <2>1, <2>6, <3>4, <3>6
  <2> QED
    BY <2>1, <2>7, <2>8 DEF w, m, base, p
<1>2. (\A c \in Calls : Strictest(c)) => ThreatOnlyTightens
  BY <1>1 DEF ThreatOnlyTightens
<1> QED
  BY <1>2, StrictestAlways, PTL

-----------------------------------------------------------------------------
(* Progress                                                                *)

(* The turns a call has left before it issues.                             *)
TurnsLeft(c) ==
  CASE call[c].pc = "identify"     -> Len(call[c].list) + 5
    [] call[c].pc = "evaluate"     -> Len(call[c].list) + 4
    [] call[c].pc = "reread"       -> Len(call[c].list) + 3
    [] call[c].pc = "canonicalize" -> Len(call[c].list) + 2
    [] call[c].pc = "consult"      -> Len(call[c].list) - Len(call[c].opinions) + 1
    [] OTHER                       -> 0

LEMMA TurnsAreNatural ==
  ASSUME TypeInv, NEW c \in Calls, Running(c)
  PROVE  /\ call[c] \in RunningType /\ Len(call[c].list) \in Nat /\ Len(call[c].opinions) \in Nat
         /\ TurnsLeft(c) \in Nat \ {0}
<1>1. call[c] \in RunningType /\ Len(call[c].opinions) <= Len(call[c].list)
  BY DEF TypeInv
<1>2. call[c].list \in EvaluatorLists /\ Len(call[c].opinions) \in Nat
  BY <1>1 DEF RunningType
<1>3. Len(call[c].list) \in Nat
  <2>1. PICK S : call[c].list \in Seq(S)
    BY <1>2, KernelAssumption
  <2> QED
    BY <2>1
<1> QED
  <2>1. CASE call[c].pc = "consult"
    BY <1>1, <1>2, <1>3, <2>1 DEF TurnsLeft
  <2>2. CASE call[c].pc \in {"identify", "evaluate", "reread", "canonicalize"}
    <3>1. PICK n \in Nat : n = Len(call[c].list)
      BY <1>3
    <3>2. TurnsLeft(c) \in {n + 5, n + 4, n + 3, n + 2}
      BY <2>2, <3>1 DEF TurnsLeft
    <3>3. TurnsLeft(c) \in Nat \ {0}
      BY <3>2
    <3> QED
      BY <1>1, <1>2, <1>3, <3>3
  <2> QED
    BY <2>1, <2>2 DEF Running

LEMMA TurnTaken ==
  ASSUME TypeInv, NEW c \in Calls, Running(c), Decide(c)
  PROVE  TurnsLeft(c)' < TurnsLeft(c)
<1>1. /\ call[c] \in RunningType /\ Len(call[c].list) \in Nat /\ Len(call[c].opinions) \in Nat
      /\ TurnsLeft(c) \in Nat \ {0}
  BY TurnsAreNatural
<1>2. PICK m \in Nat, n \in Nat : m = Len(call[c].list) /\ n = Len(call[c].opinions)
  BY <1>1
<1>3. CASE call'[c].pc \in {"raised", "issued"}
  <2>1. TurnsLeft(c)' = 0
    BY <1>3 DEF TurnsLeft
  <2> QED
    BY <1>1, <2>1
<1>4. CASE Begin(c) \/ AdvisorRaises(c)
  BY <1>4 DEF Begin, AdvisorRaises, Running
<1>5. CASE EvaluatePolicy(c)
  <2>1. call[c].pc = "evaluate"
    BY <1>5, EvaluateFacts
  <2>2. CASE call'[c].pc \in {"consult", "reread"} /\ Same(c, {"list", "opinions"})
    <3>1. call'[c].list = call[c].list /\ call'[c].opinions = call[c].opinions
      BY <2>2 DEF Same
    <3>2. TurnsLeft(c) = m + 4
      BY <1>2, <2>1 DEF TurnsLeft
    <3>3. CASE call'[c].pc = "reread"
      <4>1. TurnsLeft(c)' = m + 3
        BY <1>2, <3>1, <3>3 DEF TurnsLeft
      <4> QED
        BY <3>2, <4>1
    <3>4. CASE call'[c].pc = "consult"
      <4>1. TurnsLeft(c)' = m - n + 1
        BY <1>2, <3>1, <3>4 DEF TurnsLeft
      <4> QED
        BY <3>2, <4>1
    <3> QED
      BY <2>2, <3>3, <3>4
  <2> QED
    BY <1>3, <1>5, <2>2, EvaluateFacts DEF Denied, Heard, Same
<1>6. CASE Canonicalize(c)
  <2>1. /\ call'[c].pc = "consult" /\ call'[c].list = call[c].list
        /\ call'[c].opinions = call[c].opinions /\ call[c].pc = "canonicalize"
    BY <1>1, <1>6 DEF Canonicalize, TypeInv, RunningType
  <2>2. /\ TurnsLeft(c) = m + 2
        /\ TurnsLeft(c)' = m - n + 1
    BY <1>2, <2>1 DEF TurnsLeft
  <2> QED
    BY <2>2
<1>7. CASE Consult(c) /\ Composing(c)'
  <2>1. PICK opinion \in AllOpinions : Opined(c, opinion)
    BY <1>7, ConsultFacts
  <2>2. /\ call[c].pc = "consult" /\ call'[c].pc = "consult" /\ call'[c].list = call[c].list
        /\ DOMAIN call'[c].opinions = 1..(n + 1)
    BY <1>2, <2>1 DEF Opined
  <2>3. call'[c].opinions \in Seq(AllOpinions)
    BY <1>7, <2>2, DecideTypes DEF Decide, Running, RunningType
  <2>4. Len(call'[c].opinions) = n + 1
    BY <1>2, <2>2, <2>3
  <2>5. /\ TurnsLeft(c) = m - n + 1
        /\ TurnsLeft(c)' = m - (n + 1) + 1
    BY <1>2, <2>2, <2>4 DEF TurnsLeft
  <2> QED
    BY <2>5
<1>8. CASE Issue(c) /\ Composing(c)'
  BY <1>3, <1>8, IssueFacts
<1>9. CASE Identify(c) \/ Reread(c)
  <2>1. call'[c].list = call[c].list
    BY <1>9, ReadFacts DEF Same
  <2>2. CASE Identify(c)
    <3>1. TurnsLeft(c) = m + 5 /\ TurnsLeft(c)' = m + 4
      BY <1>2, <2>1, <2>2, ReadFacts DEF TurnsLeft
    <3> QED
      BY <3>1
  <2>3. CASE Reread(c)
    <3>1. TurnsLeft(c) = m + 3 /\ TurnsLeft(c)' = m + 2
      BY <1>2, <2>1, <2>3, ReadFacts DEF TurnsLeft
    <3> QED
      BY <3>1
  <2> QED
    BY <1>9, <2>2, <2>3
<1> QED
  BY <1>3, <1>4, <1>5, <1>6, <1>7, <1>8, <1>9, DecideEnds DEF Decide

(* A decide() call never starts over: whatever it waits for and however    *)
(* the policy changes under it, each of its turns is one fewer left, so it *)
(* ends within five turns and one for each evaluator.                      *)
THEOREM EveryTurnCounts ==
  Spec => [][\A c \in Calls : Running(c) /\ call'[c] # call[c] => TurnsLeft(c)' < TurnsLeft(c)]_vars
<1>1. ASSUME TypeInv, [Next]_vars, NEW c \in Calls, Running(c), call'[c] # call[c]
      PROVE  TurnsLeft(c)' < TurnsLeft(c)
  BY <1>1, TurnTaken, DecideFrame, OperateFrame DEF Next, vars
<1>2. TypeInv /\ [Next]_vars =>
        [\A c \in Calls : Running(c) /\ call'[c] # call[c] => TurnsLeft(c)' < TurnsLeft(c)]_vars
  BY <1>1
<1> QED
  BY <1>2, Types, PTL DEF Spec

-----------------------------------------------------------------------------
(* Revisions.  A revision that is published has a counter that no other    *)
(* published one has; between two publications the counter stands still,   *)
(* and the graph follows the list.                                         *)

PolicyInv ==
  /\ \A r \in settled : r.counter <= counter
  /\ \A r, s \in settled : r.counter = s.counter => r = s
  /\ operator.next \in {"list", "graph"} => [listed |-> held, counter |-> counter] \in settled
  /\ operator.next \in {"list", "counter"} => held = listed
  /\ operator.next # "list" => listed = (operator.op = "grant")

(* Where an ALLOW of the builtin policy comes from: a revision that lists  *)
(* the grant had been published with the counter the call began with, or   *)
(* the counter, or the list, has moved on since.  A reading never runs     *)
(* ahead of the counter, and a second one that was not torn is what the    *)
(* policy was at that moment.                                              *)
Backed(c) ==
  LET first == call[c].first.counter
      published == [listed |-> TRUE, counter |-> first] \in settled
      allowed == provider = "builtin" /\ call[c].authority = "ALLOW"
  IN  /\ Running(c) => first <= counter /\ call[c].reading <= counter
      /\ call[c].pc \in {"identify", "evaluate"} => call[c].authority = "DENY"
      /\ call[c].pc \in {"reread", "canonicalize"} /\ allowed =>
           counter > first \/ published \/ (operator.next = "counter" /\ listed)
      /\ Composing(c) /\ allowed /\ ~call[c].moved =>
           call[c].revision.counter > first \/ published \/ call[c].revision.listed

LEMMA PolicyStep ==
  ASSUME PolicyTypes, PolicyInv, Operate
  PROVE  /\ PolicyInv' /\ settled \subseteq settled' /\ counter <= counter'
         /\ operator.next = "counter" => counter' > counter
<1>0. counter \in Int /\ \A r \in settled : r.counter \in Int
  BY KernelAssumption DEF PolicyTypes, RevisionType
<1>1. PICK op \in Mutations : MutateList(op) \/ MutateGraph(op) \/ BumpRevision(op)
  BY DEF Operate
<1>2. CASE MutateList(op)
  BY <1>0, <1>2 DEF MutateList, PolicyInv, At, Idle
<1>3. CASE MutateGraph(op)
  BY <1>0, <1>3 DEF MutateGraph, PolicyInv, At
<1>4. CASE BumpRevision(op)
  <2>1. /\ operator.next = "counter" /\ held = listed /\ counter' = counter + 1
        /\ listed' = listed /\ held' = held /\ operator'.next = "list"
        /\ settled' = settled \cup {[listed |-> listed, counter |-> counter + 1]}
    BY <1>4 DEF BumpRevision, PolicyInv, At, Idle, Revision
  <2> QED
    BY <1>0, <2>1 DEF PolicyInv
<1> QED
  BY <1>1, <1>2, <1>3, <1>4

LEMMA BackedStep ==
  ASSUME TypeInv, PolicyInv, NEW c \in Calls, Backed(c), Decide(c)
  PROVE  Backed(c)'
<1> USE DEF Backed, Composing, Running
<1>0. UNCHANGED policy /\ counter \in Int
  BY DecideFrame, KernelAssumption DEF TypeInv, PolicyTypes
<1>1. CASE Begin(c)
  BY <1>0, <1>1, KernelAssumption DEF Begin, TypeInv, PolicyTypes, ActionShape, policy
<1>2. CASE call'[c].pc = "raised"
  BY <1>2
<1>3. CASE EvaluatePolicy(c)
  <2>1. /\ call[c].first.counter <= counter /\ call[c].first.counter \in Int
        /\ call[c].authority = "DENY" /\ call[c].reading <= counter
    BY <1>3, EvaluateFacts DEF RunningType, RevisionType
  <2>2. CASE Denied(c)
    <3>1. /\ call'[c].authority = "DENY" /\ call'[c].first = call[c].first
          /\ call'[c].pc = "consult" /\ call'[c].reading = call[c].reading
      BY <2>1, <2>2 DEF Denied, Same
    <3> QED
      BY <1>0, <2>1, <3>1 DEF policy
  <2>3. ASSUME NEW answer, Heard(c, answer)
        PROVE  Backed(c)'
    <3>1. /\ call'[c].pc = "reread" /\ call'[c].first = call[c].first
          /\ call'[c].reading = call[c].reading
          /\ call'[c].authority = Ruled(provider, answer)
      BY <2>3 DEF Heard, Same
    <3>2. provider = "builtin" /\ Ruled(provider, answer) = "ALLOW" => held = TRUE
      BY <2>3 DEF Heard, Ruled, Normalize, BuiltinVerdict, VERDICTS, TypeInv, PolicyTypes
    <3>3. operator.next \in {"list", "graph", "counter"}
      BY DEF TypeInv, PolicyTypes, Idle, At
    <3>4. held = TRUE => \/ [listed |-> TRUE, counter |-> counter] \in settled
                         \/ operator.next = "counter" /\ listed
      BY <3>3 DEF PolicyInv
    <3>5. call[c].first.counter = counter \/ counter > call[c].first.counter
      BY <1>0, <2>1
    <3>6. /\ provider' = provider /\ counter' = counter /\ settled' = settled
          /\ operator' = operator /\ listed' = listed
      BY <1>0 DEF policy
    <3>7. provider = "builtin" /\ call'[c].authority = "ALLOW" =>
            \/ counter > call[c].first.counter
            \/ [listed |-> TRUE, counter |-> call[c].first.counter] \in settled
            \/ operator.next = "counter" /\ listed
      BY <3>1, <3>2, <3>4, <3>5
    <3>8. ~Composing(c)' /\ call'[c].pc \notin {"identify", "evaluate"}
      BY <3>1
    <3> QED
      BY <2>1, <3>1, <3>6, <3>7, <3>8
  <2> QED
    BY <1>2, <1>3, <2>2, <2>3, EvaluateFacts
<1>4. CASE Canonicalize(c)
  <2>1. call[c] \in RunningType
    BY <1>4 DEF Canonicalize, TypeInv
  <2>2. /\ call'[c].pc = "consult" /\ call'[c].first = call[c].first
        /\ call'[c].authority = call[c].authority /\ call'[c].reading = call[c].reading
        /\ call'[c].revision = [listed |-> listed, counter |-> call[c].reading]
        /\ call'[c].moved = (counter # call[c].reading)
    BY <1>4, <2>1 DEF Canonicalize, TypeInv, RunningType, Dumped
  <2>3. /\ call[c].pc = "canonicalize" /\ call[c].first.counter <= counter
        /\ call[c].reading <= counter
        /\ provider' = provider /\ counter' = counter /\ settled' = settled
    BY <1>0, <1>4 DEF Canonicalize, policy
  <2>4. provider = "builtin" /\ call[c].authority = "ALLOW" =>
          \/ counter > call[c].first.counter
          \/ [listed |-> TRUE, counter |-> call[c].first.counter] \in settled
          \/ listed
    BY <2>3
  <2>5. ~call'[c].moved => call'[c].revision.counter = counter /\ call'[c].revision.listed = listed
    <3>1. call'[c].revision.listed = listed /\ call'[c].revision.counter = call[c].reading
      BY <2>2
    <3> QED
      BY <2>2, <3>1, Zenon
  <2>6. /\ call'[c].pc \notin {"identify", "evaluate", "reread", "canonicalize"}
        /\ call'[c].first.counter <= counter' /\ call'[c].reading <= counter'
    BY <2>2, <2>3
  <2> QED
    BY <2>2, <2>3, <2>4, <2>5, <2>6
<1>5. CASE Consult(c) /\ Composing(c)'
  <2>1. PICK opinion \in AllOpinions : Opined(c, opinion)
    BY <1>5, ConsultFacts
  <2>2. /\ call'[c].authority = call[c].authority /\ call'[c].first = call[c].first
        /\ call'[c].revision = call[c].revision /\ call'[c].moved = call[c].moved
        /\ call'[c].reading = call[c].reading
        /\ call[c].pc = "consult" /\ call'[c].pc = "consult"
    BY <2>1 DEF Opined
  <2> QED
    BY <1>0, <2>2 DEF policy
<1>6. CASE Issue(c) /\ Composing(c)'
  <2>1. /\ call'[c].authority = call[c].authority /\ call'[c].first = call[c].first
        /\ call'[c].revision = call[c].revision /\ call'[c].moved = call[c].moved
        /\ call'[c].pc = "issued"
    BY <1>6, IssueFacts
  <2> QED
    BY <1>0, <1>6, <2>1 DEF Issue, Consulted, policy
<1>7. CASE Identify(c) \/ Reread(c)
  <2>1. /\ call'[c].authority = call[c].authority /\ call[c].pc \in {"identify", "reread"}
        /\ call'[c].pc \in {"evaluate", "canonicalize"}
        /\ call[c].first.counter <= counter /\ call[c].reading <= counter
    BY <1>7, ReadFacts DEF Same
  <2>2. CASE Identify(c)
    <3>1. /\ call'[c].first.counter = call[c].reading /\ call'[c].reading = call[c].reading
          /\ call[c].pc = "identify" /\ call'[c].pc = "evaluate"
      <4>1. /\ call'[c].first = Dumped(c) /\ call'[c].reading = call[c].reading
            /\ call[c].pc = "identify" /\ call'[c].pc = "evaluate"
        BY <2>2, ReadFacts
      <4>2. Dumped(c).counter = call[c].reading
        BY DEF Dumped
      <4> QED
        BY <4>1, <4>2
    <3> QED
      BY <1>0, <2>1, <3>1 DEF policy
  <2>3. CASE Reread(c)
    <3>1. /\ call'[c].first = call[c].first /\ call'[c].reading = counter
          /\ call[c].pc = "reread" /\ call'[c].pc = "canonicalize"
      BY <2>3, ReadFacts
    <3> QED
      BY <1>0, <2>1, <3>1 DEF policy
  <2> QED
    BY <1>7, <2>2, <2>3
<1> QED
  BY <1>1, <1>2, <1>3, <1>4, <1>5, <1>6, <1>7, DecideEnds DEF Decide

LEMMA BackedOperate ==
  ASSUME TypeInv, PolicyInv, NEW c \in Calls, Backed(c), Operate
  PROVE  Backed(c)'
<1>0. counter \in Int /\ counter' \in Int
  BY Types, OperateTypes, KernelAssumption DEF TypeInv, PolicyTypes
<1>1. call' = call /\ provider' = provider
  BY OperateFrame
<1>2. /\ settled \subseteq settled' /\ counter <= counter'
      /\ operator.next = "counter" => counter' > counter
  BY PolicyStep DEF TypeInv
<1>3. Running(c) => call[c].first.counter \in Int /\ call[c].reading \in Int
  BY DEF TypeInv, RunningType, RevisionType
<1> QED
  BY <1>0, <1>1, <1>2, <1>3 DEF Backed, Running, Composing

(* If both revision reads of a call agree on a published revision, and no  *)
(* revision was published in the middle of the second, an ALLOW of the     *)
(* builtin policy means that revision lists the grant, however the         *)
(* operator's unlocked steps interleave with the call's, and wherever they *)
(* cut its reads in two.                                                   *)
THEOREM RevisionsReproduce == Spec => []RevisionReproducible
<1> DEFINE Inv == PolicyInv /\ \A c \in Calls : Backed(c)
<1>1. Init => Inv
  <2> SUFFICES ASSUME Init PROVE Inv
    OBVIOUS
  <2>1. settled = {[listed |-> held, counter |-> 0]} /\ counter = 0 /\ operator.next = "list"
    BY DEF Init, Revision, Idle
  <2>2. PolicyInv
    BY <2>1 DEF Init, PolicyInv
  <2> QED
    BY <2>2 DEF Init, NoCall, Backed, Running, Composing
<1>2. TypeInv /\ Inv /\ [Next]_vars => Inv'
  <2> SUFFICES ASSUME TypeInv, Inv, [Next]_vars PROVE Inv'
    OBVIOUS
  <2>1. CASE Operate
    BY <2>1, PolicyStep, BackedOperate DEF TypeInv
  <2>2. ASSUME NEW c \in Calls, Decide(c) PROVE Inv'
    <3>1. UNCHANGED policy /\ \A d \in Calls : d # c => call'[d] = call[d]
      BY <2>2, DecideFrame
    <3>2. PolicyInv'
      BY <3>1 DEF policy, PolicyInv
    <3>3. ASSUME NEW d \in Calls, d # c PROVE Backed(d)'
      BY <3>1, <3>3 DEF policy, Backed, Running, Composing
    <3> QED
      BY <2>2, <3>2, <3>3, BackedStep
  <2>3. CASE UNCHANGED vars
    BY <2>3 DEF vars, PolicyInv, Backed, Running, Composing
  <2> QED
    BY <2>1, <2>2, <2>3 DEF Next
<1>3. TypeInv /\ Inv => RevisionReproducible
  <2> SUFFICES ASSUME TypeInv, Inv, NEW c \in Calls, Issued(c), provider = "builtin",
                      call[c].authority = "ALLOW", ~call[c].moved,
                      call[c].first = call[c].revision,
                      call[c].revision \in settled
               PROVE  call[c].revision.listed
    BY DEF RevisionReproducible
  <2>1. call[c].revision.counter \in Int
    BY DEF TypeInv, PolicyTypes, RevisionType
  <2>2. [listed |-> TRUE, counter |-> call[c].revision.counter] \in settled \/ call[c].revision.listed
    BY <2>1 DEF Backed, Composing, Issued
  <2> QED
    BY <2>2 DEF PolicyInv
<1> QED
  BY <1>1, <1>2, <1>3, Types, PTL DEF Spec

=============================================================================
