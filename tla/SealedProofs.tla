----------------------------- MODULE SealedProofs -----------------------------
(***************************************************************************)
(* Proofs about Sealed, for any number of threads in invoke(), any agents, *)
(* tickets and tools, whatever the two authorities rule, any clock and any *)
(* number of restarts.                                                     *)
(***************************************************************************)
EXTENDS Sealed, VerdictsProofs

-----------------------------------------------------------------------------
(* What a step moves                                                       *)

(* What a step of invoke() leaves of its call: the call with what it was   *)
(* called with, or, when it leaves invoke() unexecuted, nothing.           *)
Holds(c) ==
  /\ call'[c] \in CallType
  /\ call'[c].ticket = call[c].ticket /\ call'[c].altered = call[c].altered
  /\ call'[c].agent = call[c].agent /\ call'[c].tool = call[c].tool
  /\ call[c].pc # "decide" =>
       call'[c].authority = call[c].authority /\ call'[c].legitimacy = call[c].legitimacy
  /\ call[c].pc # "consume" => call'[c].inTime = call[c].inTime
  /\ call[c].pc # "run" => call'[c].threw = call[c].threw
Vanishes(c) == \E pc \in Finished : call'[c] = Gone(pc)

(* A step of invoke() moves one call.                                      *)
LEMMA InvokeMoves ==
  ASSUME TypeOK, NEW c \in Calls, Invoke(c)
  PROVE  /\ call[c] \in CallType /\ call[c].pc \notin {"idle"} \cup Finished
         /\ call' = [call EXCEPT ![c] = call'[c]] /\ call'[c] \in NoCalls \cup CallType
         /\ \/ Holds(c)
            \/ Vanishes(c) /\ (Executed(c)' => call[c].pc \in {"consume", "decide"} /\ log' = log)
         /\ UNCHANGED world
<1>1. call[c] \in CallType /\ call[c].pc \notin {"idle"} \cup Finished
  <2>1. call[c].pc \notin {"idle"} \cup Finished
    BY DEF Invoke, Consume, ConsumeFails, Decide, DecideRaises, Arm, ReadArm, ClearArm,
           Enforce, EnforceRefuses, EnforceRaises, RunTool, ToolRaises, ToolRefuses, Emit,
           EmitRecord, EmitRaises, At, Finished
  <2> QED
    BY <2>1 DEF TypeOK, NoCalls, NoCall, Gone
<1>2. UNCHANGED world
  BY DEF Invoke, Consume, ConsumeFails, Decide, DecideRaises, Arm, ReadArm, ClearArm,
         Enforce, EnforceRefuses, EnforceRaises, RunTool, ToolRaises, ToolRefuses, Emit,
         EmitRecord, EmitRaises
<1>3. ASSUME NEW k, call' = [call EXCEPT ![c] = k]
      PROVE  call'[c] = k /\ call' = [call EXCEPT ![c] = call'[c]]
  BY <1>3 DEF TypeOK
<1>4. ASSUME NEW pc \in PCs, call' = [call EXCEPT ![c] = [call[c] EXCEPT !.pc = pc]]
      PROVE  call' = [call EXCEPT ![c] = call'[c]] /\ Holds(c)
  <2>1. call'[c] = [call[c] EXCEPT !.pc = pc] /\ call' = [call EXCEPT ![c] = call'[c]]
    BY <1>3, <1>4
  <2> QED
    BY <1>1, <2>1 DEF CallType, Holds
<1>5. ASSUME NEW pc \in Finished, call' = [call EXCEPT ![c] = Gone(pc)]
      PROVE  call' = [call EXCEPT ![c] = call'[c]] /\ Vanishes(c)
  BY <1>3, <1>5 DEF Vanishes
<1>6. CASE \E pc \in PCs : Goto(c, pc)
  <2>1. call' = [call EXCEPT ![c] = call'[c]] /\ Holds(c)
    BY <1>4, <1>6 DEF Goto
  <2> QED
    BY <1>1, <1>2, <2>1 DEF Holds
<1>7. CASE \E pc \in Finished : Leave(c, pc)
  <2>1. PICK pc \in Finished : Leave(c, pc)
    BY <1>7
  <2>2. CASE Executed(c)'
    <3>1. call' = [call EXCEPT ![c] = call'[c]] /\ Holds(c)
      BY <1>4, <2>1, <2>2 DEF Leave, Left, PCs
    <3> QED
      BY <1>1, <1>2, <3>1 DEF Holds
  <2>3. CASE ~Executed(c)'
    BY <1>1, <1>2, <1>5, <2>1, <2>3 DEF Leave, Left, Vanishes, NoCalls
  <2> QED
    BY <2>2, <2>3
<1>8. CASE ConsumeFails(c) \/ DecideRaises(c)
  BY <1>1, <1>2, <1>5, <1>8 DEF ConsumeFails, DecideRaises, Rejected, Vanishes, NoCalls, Finished, At
<1>9. CASE Consume(c)
  <2>1. PICK b \in BOOLEAN : call' = [call EXCEPT ![c].pc = "decide", ![c].inTime = b]
    BY <1>9 DEF Consume, InTime
  <2>2. call[c].pc = "consume"
    BY <1>9 DEF Consume, At
  <2>3. call' = [call EXCEPT ![c] = call'[c]]
    BY <2>1 DEF TypeOK
  <2>4. call'[c] = [call[c] EXCEPT !.pc = "decide", !.inTime = b]
    BY <2>1 DEF TypeOK
  <2>5. Holds(c)
    BY <1>1, <2>2, <2>4 DEF CallType, PCs, Holds
  <2> QED
    BY <1>1, <1>2, <2>3, <2>5 DEF Holds
<1>14. CASE ToolRefuses(c)
  BY <1>1, <1>2, <1>14 DEF ToolRefuses, At, TypeOK, CallType, PCs, Holds
<1>10. CASE Decide(c)
  <2>1. PICK v \in VERDICTS, w \in VERDICTS :
          call' = [call EXCEPT ![c].pc = "arm", ![c].authority = v, ![c].legitimacy = w]
    BY <1>10, SealedAssumption DEF Decide
  <2> QED
    BY <1>1, <1>2, <1>10, <2>1 DEF Decide, At, TypeOK, CallType, PCs, Holds
<1>11. CASE ReadArm(c) \/ ClearArm(c)
  <2>1. PICK pc \in PCs, armed \in Calls \cup {NoArm, Foreign} :
          call' = [call EXCEPT ![c].pc = pc, ![c].seen = armed]
    BY <1>11 DEF ReadArm, ClearArm, TypeOK, PCs
  <2>2. call[c].pc \in {"armed", "read"}
    BY <1>11 DEF ReadArm, ClearArm, At
  <2> QED
    BY <1>1, <1>2, <2>1, <2>2 DEF TypeOK, CallType, Holds
<1>12. CASE Arm(c) \/ Enforce(c) \/ EnforceRefuses(c) \/ RunTool(c) \/ ToolRaises(c) \/ Emit(c)
  BY <1>6, <1>12 DEF Arm, Enforce, EnforceRefuses, RunTool, ToolRaises, Emit, PCs, Finished
<1>13. CASE EnforceRaises(c) \/ EmitRecord(c) \/ EmitRaises(c)
  BY <1>7, <1>13 DEF EnforceRaises, EmitRecord, EmitRaises, Finished
<1> QED
  BY <1>8, <1>9, <1>10, <1>11, <1>12, <1>13, <1>14 DEF Invoke

(* Where a step that names its next program counter brings its call.       *)
LEMMA Arrives ==
  ASSUME TypeOK, NEW c \in Calls, Invoke(c), NEW pc, Goto(c, pc) \/ Leave(c, pc)
  PROVE  call'[c].pc = pc
<1>1. call[c] \in CallType /\ call \in [Calls -> NoCalls \cup CallType]
  BY InvokeMoves DEF TypeOK
<1>2. CASE Goto(c, pc)
  BY <1>1, <1>2 DEF Goto, CallType
<1>3. CASE Leave(c, pc)
  <2>1. call'[c] = Left(c, pc)
    BY <1>1, <1>3 DEF Leave
  <2> QED
    BY <1>1, <2>1 DEF Left, Gone, CallType
<1> QED
  BY <1>2, <1>3

LEMMA PresentMoves ==
  ASSUME TypeOK, NEW c \in Calls, Present(c)
  PROVE  /\ call[c].pc = "idle" /\ call' = [call EXCEPT ![c] = call'[c]]
         /\ \/ call'[c] = Gone("raised") /\ call'[c].pc = "raised"
            \/ /\ call'[c] \in CallType /\ call'[c].pc = "consume"
               /\ call'[c].tool \in SealedTools /\ ~call'[c].altered /\ ~call'[c].threw
               /\ call'[c].ticket \in issued /\ call'[c].ticket.agent = call'[c].agent
         /\ UNCHANGED <<world, spent, arm, log, evidence, effects, overlapped>>
<1>1. PICK a \in Agents, t \in issued, altered \in BOOLEAN, tool \in Tools :
        call' = [call EXCEPT ![c] =
          IF Admissible(a, t, altered, tool)
          THEN [pc |-> "consume", ticket |-> t, altered |-> altered, agent |-> a, tool |-> tool,
                authority |-> "DENY", legitimacy |-> "DENY", seen |-> NoArm,
                inTime |-> FALSE, threw |-> FALSE]
          ELSE Rejected]
  BY DEF Present
<1>2. call[c].pc = "idle" /\ UNCHANGED <<world, spent, arm, log, evidence, effects, overlapped>>
  BY DEF Present, At
<1>3. CASE Admissible(a, t, altered, tool)
  BY <1>1, <1>2, <1>3 DEF Admissible, Genuine, TypeOK, CallType, PCs, VERDICTS
<1>4. CASE ~Admissible(a, t, altered, tool)
  BY <1>1, <1>2, <1>4 DEF Rejected, Gone, TypeOK
<1> QED
  BY <1>3, <1>4

(* Every other step leaves a call, its log and its effect alone, or kills  *)
(* it; and nothing that was issued, spent or noted is forgotten.           *)
Same(c) == call'[c] = call[c] /\ log'[c] = log[c] /\ (c \in effects') = (c \in effects)

LEMMA OneMoves ==
  ASSUME TypeOK, NEW d \in Calls, Present(d) \/ Invoke(d), NEW c \in Calls
  PROVE  /\ d # c => Same(c)
         /\ effects' \subseteq effects \cup {d}
         /\ issued \subseteq issued' /\ spent \subseteq spent' /\ (overlapped => overlapped')
<1>1. CASE Present(d)
  <2>1. call' = [call EXCEPT ![d] = call'[d]]
    BY <1>1, PresentMoves
  <2>2. UNCHANGED <<world, spent, arm, log, evidence, effects, overlapped>>
    BY <1>1 DEF Present
  <2> QED
    BY <2>1, <2>2 DEF Same, world, TypeOK
<1>2. CASE Invoke(d)
  <2>1. call' = [call EXCEPT ![d] = call'[d]] /\ UNCHANGED world
    BY <1>2, InvokeMoves
  <2>2. effects' = effects \/ effects' = effects \cup {d}
    BY <1>2 DEF Invoke, Consume, ConsumeFails, Decide, DecideRaises, Arm, ReadArm, ClearArm,
         Enforce, EnforceRefuses, EnforceRaises, RunTool, ToolRaises, ToolRefuses, Emit,
         EmitRecord, EmitRaises
  <2>3. log' = log \/ \E entries : log' = [log EXCEPT ![d] = entries]
    BY <1>2 DEF Invoke, Consume, ConsumeFails, Decide, DecideRaises, Arm, ReadArm, ClearArm,
         Enforce, EnforceRefuses, EnforceRaises, RunTool, ToolRaises, ToolRefuses, Emit,
         EmitRecord, EmitRaises
  <2>4. /\ spent' = spent \/ spent' = spent \cup {call[d].ticket.nonce}
        /\ \/ overlapped' = overlapped
           \/ overlapped' = (overlapped \/ \E e \in Calls \ {d} : InArm(e))
    BY <1>2 DEF Invoke, Consume, ConsumeFails, Decide, DecideRaises, Arm, ReadArm, ClearArm,
         Enforce, EnforceRefuses, EnforceRaises, RunTool, ToolRaises, ToolRefuses, Emit,
         EmitRecord, EmitRaises
  <2> QED
    BY <2>1, <2>2, <2>3, <2>4 DEF Same, world, TypeOK
<1> QED
  BY <1>1, <1>2

(* A direct caller of the executor touches the arm, and the note that the  *)
(* window was shared.                                                      *)
LEMMA DirectMoves ==
  ASSUME DirectArm \/ DirectExecute
  PROVE  /\ UNCHANGED <<world, spent, call, log, evidence, effects>>
         /\ arm' \in {NoArm, Foreign} /\ arm' \notin Calls
         /\ overlapped' = (overlapped \/ \E c \in Calls : InArm(c))
BY SealedAssumption DEF DirectArm, DirectExecute, Intrudes

LEMMA Moves ==
  ASSUME TypeOK, [Next]_vars, NEW c \in Calls
  PROVE  /\ Present(c) \/ Invoke(c) \/ Restart \/ Same(c)
         /\ issued \subseteq issued' /\ spent \subseteq spent' /\ (overlapped => overlapped')
<1>1. ASSUME NEW d \in Calls, Present(d) \/ Invoke(d)
      PROVE  /\ d # c => Same(c)
             /\ issued \subseteq issued' /\ spent \subseteq spent' /\ (overlapped => overlapped')
  BY <1>1, OneMoves
<1>2. CASE \E a \in Agents : Admit(a) \/ \E who \in Identities : RegisterAgent(a, who)
  BY <1>2 DEF Admit, RegisterAgent, Same
<1>3. CASE Restart
  BY <1>3 DEF Restart
<1>4. CASE Tick \/ UNCHANGED vars
  BY <1>4 DEF Tick, vars, Same
<1>5. CASE DirectArm \/ DirectExecute
  BY <1>5, DirectMoves DEF Same, world
<1> QED
  BY <1>1, <1>2, <1>3, <1>4, <1>5 DEF Next

LEMMA RestartMoves ==
  ASSUME TypeOK, Restart, NEW c \in Calls
  PROVE  /\ \/ call'[c] = call[c] /\ call[c].pc \in {"idle"} \cup Finished
            \/ /\ Executed(c) /\ call[c] \in CallType /\ call'[c].pc = "killed"
               /\ call'[c] = [call[c] EXCEPT !.pc = "killed"] /\ call'[c] \in CallType
            \/ ~Executed(c) /\ call'[c] = Gone("killed") /\ call'[c].pc = "killed"
         /\ UNCHANGED <<issued, spent, log, effects, overlapped>> /\ evidence' = {} /\ arm' = NoArm
<1>1. UNCHANGED <<issued, spent, log, effects, overlapped>> /\ evidence' = {} /\ arm' = NoArm
  BY DEF Restart
<1>2. call'[c] = IF Busy(c) THEN Left(c, "killed") ELSE call[c]
  BY DEF Restart
<1>3. CASE ~Busy(c)
  BY <1>1, <1>2, <1>3 DEF Busy
<1>4. CASE Busy(c)
  <2>1. call[c] \in CallType
    BY <1>4 DEF Busy, TypeOK, NoCalls, NoCall, Gone
  <2>2. Executed(c)' <=> Executed(c)
    BY <1>1 DEF Executed
  <2> QED
    BY <1>1, <1>2, <1>4, <2>1, <2>2 DEF Left, Gone, CallType, PCs, Finished
<1> QED
  BY <1>3, <1>4

-----------------------------------------------------------------------------
(* Types                                                                   *)

LEMMA TypeStep == TypeOK /\ [Next]_vars => TypeOK'
<1> SUFFICES ASSUME TypeOK, [Next]_vars PROVE TypeOK'
  OBVIOUS
<1>1. ASSUME NEW c \in Calls, Present(c) PROVE TypeOK'
  <2>1. call'[c] \in NoCalls \cup CallType
    BY <1>1, PresentMoves DEF NoCalls, Finished
  <2> QED
    BY <1>1, <2>1, PresentMoves DEF TypeOK, world
<1>2. ASSUME NEW c \in Calls, Invoke(c) PROVE TypeOK'
  <2>1. call' \in [Calls -> NoCalls \cup CallType]
    BY <1>2, InvokeMoves DEF TypeOK
  <2>2. now' = now /\ key' = key /\ meta' = meta /\ issued' = issued
    BY <1>2, InvokeMoves DEF world
  <2>3. spent' \subseteq Nonces
    <3>1. call[c].ticket.nonce \in Nonces
      BY <1>2, InvokeMoves DEF CallType, Ticket
    <3>2. spent' = spent \/ spent' = spent \cup {call[c].ticket.nonce}
      BY <1>2 DEF Invoke, Consume, ConsumeFails, Decide, DecideRaises, Arm, ReadArm, ClearArm,
         Enforce, EnforceRefuses, EnforceRaises, RunTool, ToolRaises, ToolRefuses, Emit,
         EmitRecord, EmitRaises
    <3> QED
      BY <3>1, <3>2 DEF TypeOK
  <2>4. arm' \in Calls \cup {NoArm, Foreign} /\ effects' \subseteq Calls
    BY <1>2 DEF Invoke, Consume, ConsumeFails, Decide, DecideRaises, Arm, ReadArm, ClearArm, TypeOK,
         Enforce, EnforceRefuses, EnforceRaises, RunTool, ToolRaises, ToolRefuses, Emit,
         EmitRecord, EmitRaises
  <2>5. evidence' \subseteq [call: Calls, executed: BOOLEAN]
    <3>1. \/ evidence' = evidence
          \/ \E b \in BOOLEAN : evidence' = evidence \cup {[call |-> c, executed |-> b]}
      BY <1>2 DEF Invoke, Consume, ConsumeFails, Decide, DecideRaises, Arm, ReadArm, ClearArm,
           Enforce, EnforceRefuses, EnforceRaises, RunTool, ToolRaises, ToolRefuses, Emit,
           EmitRecord, EmitRaises, At
    <3> QED
      BY <3>1 DEF TypeOK
  <2>7. overlapped' \in BOOLEAN
    <3>1. CASE Arm(c)
      BY <3>1 DEF Arm
    <3>2. CASE ~Arm(c)
      BY <1>2, <3>2 DEF Invoke, Consume, ConsumeFails, Decide, DecideRaises, ReadArm, ClearArm, TypeOK,
           Enforce, EnforceRefuses, EnforceRaises, RunTool, ToolRaises, ToolRefuses, Emit,
           EmitRecord, EmitRaises
    <3> QED
      BY <3>1, <3>2
  <2>6. log' \in [Calls -> Seq(BOOLEAN)]
    <3>1. log' = log \/ \E entry \in {<<>>, <<TRUE>>, <<FALSE>>} : log' = [log EXCEPT ![c] = @ \o entry]
      <4>1. CASE Enforce(c) \/ EnforceRefuses(c) \/ EmitRecord(c)
        <5>1. PICK b \in BOOLEAN : log' = [log EXCEPT ![c] = Append(@, b)]
          BY <4>1 DEF Enforce, EnforceRefuses, EmitRecord, At
        <5>2. Append(log[c], b) = log[c] \o <<b>>
          BY DEF TypeOK
        <5> QED
          BY <5>1, <5>2
      <4>2. CASE EnforceRaises(c) \/ EmitRaises(c)
        BY <4>2 DEF EnforceRaises, EmitRaises, At
      <4> QED
        BY <1>2, <4>1, <4>2 DEF Invoke, Consume, ConsumeFails, Decide, DecideRaises, Arm, ReadArm,
             ClearArm, RunTool, ToolRaises, ToolRefuses, Emit
    <3>2. ASSUME NEW entry \in {<<>>, <<TRUE>>, <<FALSE>>} PROVE log[c] \o entry \in Seq(BOOLEAN)
      <4>1. log[c] \in Seq(BOOLEAN)
        BY <1>2 DEF TypeOK
      <4>2. <<>> \in Seq(BOOLEAN) /\ \A b \in BOOLEAN : <<b>> \in Seq(BOOLEAN)
        OBVIOUS
      <4>3. entry \in Seq(BOOLEAN)
        BY <4>2
      <4> QED
        BY <4>1, <4>3
    <3> QED
      BY <3>1, <3>2 DEF TypeOK
  <2> QED
    BY <2>1, <2>2, <2>3, <2>4, <2>5, <2>6, <2>7 DEF TypeOK
<1>3. ASSUME NEW a \in Agents, Admit(a) PROVE TypeOK'
  <2>1. PICK n \in Nonces : issued' = issued \cup {[agent |-> a, identity |-> meta[a],
                               expires |-> now + 1, nonce |-> n, key |-> key]}
    BY <1>3 DEF Admit
  <2> QED
    BY <1>3, <2>1 DEF Admit, TypeOK, Ticket
<1>4. ASSUME NEW a \in Agents, NEW who \in Identities, RegisterAgent(a, who) PROVE TypeOK'
  BY <1>4 DEF RegisterAgent, TypeOK
<1>5. CASE Restart
  <2>1. ASSUME NEW c \in Calls PROVE call'[c] \in NoCalls \cup CallType
    BY <1>5, RestartMoves DEF TypeOK, NoCalls, Finished
  <2>2. call' \in [Calls -> NoCalls \cup CallType]
    BY <1>5, <2>1 DEF Restart
  <2> QED
    BY <1>5, <2>2 DEF Restart, TypeOK
<1>7. CASE DirectArm \/ DirectExecute
  BY <1>7, DirectMoves DEF TypeOK, world
<1>6. CASE Tick \/ UNCHANGED vars
  BY <1>6 DEF Tick, vars, TypeOK
<1> QED
  BY <1>1, <1>2, <1>3, <1>4, <1>5, <1>6, <1>7 DEF Next

(* Every variable keeps its type, through every refusal and restart.       *)
THEOREM TypeCorrect == Spec => []TypeOK
<1>1. Init => TypeOK
  <2> SUFFICES ASSUME Init PROVE TypeOK
    OBVIOUS
  <2>1. log \in [Calls -> Seq(BOOLEAN)] /\ meta \in [Agents -> Identities \cup {NoOne}]
    BY DEF Init
  <2> QED
    BY <2>1 DEF Init, TypeOK, NoCalls
<1> QED
  BY <1>1, TypeStep, PTL DEF Spec

-----------------------------------------------------------------------------
(* The arm                                                                 *)

(* No call's arm is left but while some call is between arm and execute.    *)
THEOREM NeverLooseArm == Spec => []NoLooseArm
<1>1. Init => NoLooseArm
  BY SealedAssumption DEF Init, NoLooseArm
<1>2. TypeOK /\ NoLooseArm /\ [Next]_vars => NoLooseArm'
  <2> SUFFICES ASSUME TypeOK, NoLooseArm, [Next]_vars, arm' \in Calls
               PROVE  \E c \in Calls : InArm(c)'
    BY DEF NoLooseArm
  <2>1. ASSUME NEW c \in Calls, Invoke(c) PROVE \E d \in Calls : InArm(d)'
    <3>1. CASE Arm(c)
      <4>1. call'[c].pc = "armed"
        BY <2>1, <3>1, Arrives DEF Arm
      <4> QED
        BY <4>1 DEF InArm
    <3>2. CASE ReadArm(c)
      <4>1. call'[c].pc = "read"
        BY <2>1, <3>2, InvokeMoves DEF ReadArm, TypeOK, CallType
      <4> QED
        BY <4>1 DEF InArm
    <3>3. CASE ClearArm(c)
      BY <2>1, <3>3, SealedAssumption DEF ClearArm
    <3>4. CASE ~Arm(c) /\ ~ReadArm(c) /\ ~ClearArm(c)
      <4>1. arm' = arm /\ ~InArm(c)
        BY <2>1, <3>4 DEF Invoke, Consume, ConsumeFails, Decide, DecideRaises, Enforce, EnforceRefuses,
             EnforceRaises, RunTool, ToolRaises, ToolRefuses, Emit, EmitRecord, EmitRaises, At, InArm
      <4>2. PICK d \in Calls : InArm(d)
        BY <4>1 DEF NoLooseArm
      <4>3. call'[d] = call[d]
        BY <2>1, <4>1, <4>2, OneMoves DEF Same
      <4> QED
        BY <4>2, <4>3 DEF InArm
    <3> QED
      BY <3>1, <3>2, <3>3, <3>4
  <2>2. ASSUME NEW c \in Calls, Present(c) PROVE \E d \in Calls : InArm(d)'
    <3>1. PICK d \in Calls : InArm(d)
      BY <2>2, PresentMoves DEF NoLooseArm
    <3>2. d # c
      BY <2>2, <3>1, PresentMoves DEF InArm
    <3> QED
      BY <2>2, <3>1, <3>2, OneMoves DEF InArm, Same
  <2>3. CASE arm' = arm /\ call' = call
    BY <2>3 DEF NoLooseArm, InArm
  <2>4. ~DirectArm /\ ~DirectExecute
    BY DirectMoves
  <2>5. ~Restart
    BY SealedAssumption DEF Restart
  <2> QED
    BY <2>1, <2>2, <2>3, <2>4, <2>5 DEF Next, Admit, RegisterAgent, Tick, vars
<1> QED
  BY <1>1, <1>2, TypeCorrect, PTL DEF Spec

-----------------------------------------------------------------------------
(* Where a call stands                                                     *)

AllAre(s, b) == \A i \in DOMAIN s : s[i] = b

LEMMA AppendAll ==
  ASSUME NEW S, NEW b \in S, NEW s \in Seq(S), AllAre(s, b)
  PROVE  AllAre(Append(s, b), b) /\ Append(s, b) # <<>> /\ Append(s, b)[1] = b
<1>1. /\ Append(s, b) \in Seq(S) /\ Len(Append(s, b)) = Len(s) + 1 /\ Len(s) \in Nat
      /\ \A i \in 1..Len(s) : Append(s, b)[i] = s[i]
      /\ Append(s, b)[Len(s) + 1] = b
      /\ DOMAIN s = 1..Len(s) /\ DOMAIN Append(s, b) = 1..(Len(s) + 1)
  OBVIOUS
<1>2. \A i \in 1..(Len(s) + 1) : i \in 1..Len(s) \/ i = Len(s) + 1
  BY <1>1
<1>3. \A i \in 1..(Len(s) + 1) : Append(s, b)[i] = b
  BY <1>1, <1>2 DEF AllAre
<1>4. 1 \in 1..(Len(s) + 1) /\ Append(s, b) # <<>>
  BY <1>1
<1> QED
  BY <1>1, <1>3, <1>4 DEF AllAre

LEMMA AppendKeepsFirst ==
  ASSUME NEW S, NEW b \in S, NEW s \in Seq(S), s # <<>>
  PROVE  Append(s, b) # <<>> /\ Append(s, b)[1] = s[1]
<1>1. Len(s) \in Nat /\ Len(s) # 0 /\ Len(Append(s, b)) = Len(s) + 1
  OBVIOUS
<1>2. Len(Append(s, b)) # 0 /\ 1 \in 1..Len(s)
  BY <1>1
<1> QED
  BY <1>2

(* What a call has logged, and whether its tool ran, by where it stands.   *)
(* One that raised or was killed may have stood anywhere: its entries      *)
(* agree all the same, unless its tool raised ExecutionRefused.            *)
Place(c) ==
  /\ call[c].pc \in {"idle", "consume", "decide", "arm", "armed", "read", "enforce"} =>
       log[c] = <<>> /\ c \notin effects
  /\ call[c].pc = "run" => log[c] # <<>> /\ AllAre(log[c], TRUE) /\ c \notin effects
  /\ call[c].pc \in {"emit", "record"} => AllAre(log[c], TRUE) /\ c \in effects
  /\ call[c].pc \in {"emit_refusal", "record_refusal"} =>
       \/ AllAre(log[c], FALSE) /\ c \notin effects
       \/ Executed(c) /\ call[c].threw
  /\ \/ AllAre(log[c], TRUE)
     \/ AllAre(log[c], FALSE) /\ c \notin effects
     \/ Executed(c) /\ call[c].threw
  /\ c \in effects => Executed(c)
  /\ Executed(c) => call[c] \in CallType

(* The moves of a call: from where to where, and what it may log.          *)
Went(c, from, to) == call[c].pc \in from /\ call'[c].pc \in to
Kept(c) == log'[c] = log[c] /\ (c \in effects') = (c \in effects)
Logged(c, b) == log'[c] = Append(log[c], b) /\ (c \in effects') = (c \in effects)
Ran(c) == log'[c] = log[c] /\ c \in effects'

Before == {"consume", "decide", "arm", "armed", "read"}
After  == {"decide", "arm", "armed", "read", "enforce", "emit_refusal", "raised"}

LEMMA InvokeCases ==
  ASSUME TypeOK, NEW c \in Calls, Invoke(c)
  PROVE  \/ Went(c, Before, After) /\ Kept(c)
         \/ Went(c, {"enforce"}, {"run", "raised"}) /\ Logged(c, TRUE)
         \/ Went(c, {"enforce"}, {"emit_refusal", "raised"}) /\ Logged(c, FALSE)
         \/ Went(c, {"enforce", "run"}, {"raised"}) /\ Kept(c)
         \/ Went(c, {"run"}, {"emit", "raised"}) /\ Ran(c)
         \/ Went(c, {"run"}, {"emit_refusal"}) /\ call'[c].threw /\ (Kept(c) \/ Ran(c))
         \/ Went(c, {"emit"}, {"record"}) /\ Kept(c)
         \/ Went(c, {"emit_refusal"}, {"record_refusal"}) /\ Kept(c)
         \/ Went(c, {"record"}, {"returned", "raised"}) /\ Logged(c, TRUE)
         \/ Went(c, {"record_refusal"}, {"refused", "raised"}) /\ Logged(c, FALSE)
         \/ Went(c, {"record", "record_refusal"}, {"raised"}) /\ Kept(c)
<1>0. /\ call[c] \in CallType /\ log \in [Calls -> Seq(BOOLEAN)]
      /\ call \in [Calls -> NoCalls \cup CallType]
  BY InvokeMoves DEF TypeOK
<1>1. ASSUME NEW pc, Goto(c, pc) \/ Leave(c, pc) PROVE call'[c].pc = pc
  BY <1>1, Arrives
<1>2. ASSUME NEW b \in BOOLEAN,
             \/ log' = [log EXCEPT ![c] = Append(@, b)] \/ log' = [log EXCEPT ![c] = @ \o <<b>>]
      PROVE  log'[c] = Append(log[c], b)
  <2>1. Append(log[c], b) = log[c] \o <<b>>
    BY <1>0
  <2> QED
    BY <1>0, <1>2, <2>1
<1>3. ASSUME log' = [log EXCEPT ![c] = @ \o <<>>] PROVE log'[c] = log[c]
  <2>1. log[c] \o <<>> = log[c]
    BY <1>0
  <2> QED
    BY <1>0, <1>3, <2>1
<1> USE DEF Went, At
<1>4. CASE Arm(c)
  BY <1>1, <1>4 DEF Arm, Before, After, Kept
<1>5. CASE Decide(c)
  BY <1>0, <1>5 DEF Decide, CallType, Before, After, Kept
<1>19. CASE ReadArm(c)
  BY <1>0, <1>19 DEF ReadArm, CallType, Before, After, Kept
<1>20. CASE ClearArm(c)
  <2>1. call'[c].pc \in {"enforce", "emit_refusal"}
    BY <1>0, <1>20 DEF ClearArm, CallType
  <2> QED
    BY <1>20, <2>1 DEF ClearArm, Before, After, Kept
<1>18. CASE Consume(c)
  <2>1. call'[c].pc = "decide"
    BY <1>0, <1>18 DEF Consume, CallType
  <2> QED
    BY <1>18, <2>1 DEF Consume, Before, After, Kept
<1>6. CASE ConsumeFails(c) \/ DecideRaises(c)
  <2>1. call'[c] = [pc |-> "raised"]
    BY <1>0, <1>6 DEF ConsumeFails, DecideRaises, Rejected, Gone
  <2>2. call'[c].pc = "raised"
    BY <2>1
  <2>3. call[c].pc \in {"consume", "decide"} /\ log' = log /\ effects' = effects
    BY <1>6 DEF ConsumeFails, DecideRaises
  <2> QED
    BY <2>2, <2>3 DEF Before, After, Kept
<1>7. CASE Enforce(c)
  BY <1>1, <1>2, <1>7 DEF Enforce, Logged
<1>8. CASE EnforceRefuses(c)
  BY <1>1, <1>2, <1>8 DEF EnforceRefuses, Logged
<1>9. CASE EnforceRaises(c)
  BY <1>1, <1>2, <1>3, <1>9 DEF EnforceRaises, Logged, Kept
<1>10. CASE RunTool(c)
  BY <1>1, <1>10 DEF RunTool, Ran
<1>11. CASE ToolRaises(c)
  BY <1>1, <1>11 DEF ToolRaises, Kept, Ran
<1>17. CASE ToolRefuses(c)
  BY <1>0, <1>17 DEF ToolRefuses, CallType, Kept, Ran
<1>12. CASE Emit(c)
  BY <1>1, <1>12 DEF Emit, Kept
<1>13. CASE EmitRecord(c) /\ call[c].pc = "record"
  BY <1>1, <1>2, <1>13 DEF EmitRecord, Logged
<1>14. CASE EmitRecord(c) /\ call[c].pc = "record_refusal"
  BY <1>1, <1>2, <1>14 DEF EmitRecord, Logged
<1>15. CASE EmitRaises(c) /\ call[c].pc = "record"
  BY <1>1, <1>2, <1>3, <1>15 DEF EmitRaises, Logged, Kept
<1>16. CASE EmitRaises(c) /\ call[c].pc = "record_refusal"
  BY <1>1, <1>2, <1>3, <1>16 DEF EmitRaises, Logged, Kept
<1> QED
  BY <1>4, <1>5, <1>6, <1>7, <1>8, <1>9, <1>10, <1>11, <1>12, <1>13, <1>14, <1>15, <1>16, <1>17,
     <1>18, <1>19, <1>20 DEF Invoke, EmitRecord, EmitRaises

(* Only a call with no executed entry vanishes.                            *)
LEMMA ExecutedHolds ==
  ASSUME TypeOK, NEW c \in Calls, Invoke(c), Place(c), Executed(c)'
  PROVE  Holds(c)
BY InvokeMoves DEF Place, Executed

LEMMA PlaceStep ==
  ASSUME TypeOK, [Next]_vars, NEW c \in Calls, Place(c)
  PROVE  Place(c)'
<1>1. CASE Present(c)
  BY <1>1, PresentMoves DEF Place, AllAre, Executed
<1>2. CASE Restart
  <2>1. /\ \/ call'[c] = call[c]
           \/ call'[c].pc = "killed" /\ ~Executed(c)
           \/ call'[c].pc = "killed" /\ call'[c] \in CallType /\ call'[c].threw = call[c].threw
        /\ log' = log /\ effects' = effects
    BY <1>2, RestartMoves DEF CallType
  <2> QED
    BY <2>1 DEF Place, AllAre, Executed
<1>3. CASE Same(c)
  BY <1>3 DEF Place, Same, AllAre, Executed
<1>4. CASE Invoke(c)
  <2>1. log[c] \in Seq(BOOLEAN)
    BY DEF TypeOK
  <2>2. ASSUME NEW b \in BOOLEAN, Logged(c, b), AllAre(log[c], b)
        PROVE  AllAre(log'[c], b) /\ log'[c] # <<>> /\ log'[c][1] = b
    BY <2>1, <2>2, AppendAll DEF Logged
  <2>3. log[c] = <<>> => AllAre(log[c], TRUE) /\ AllAre(log[c], FALSE)
    BY DEF AllAre
  <2>4. log[c] # <<>> => (AllAre(log[c], TRUE) => Executed(c))
    BY <2>1 DEF AllAre, Executed
  <2>5. call[c].pc # "run" /\ call[c].threw /\ Executed(c)' => call'[c].threw
    BY <1>4, ExecutedHolds DEF Holds
  <2>6. Executed(c)' => call'[c] \in CallType
    BY <1>4, ExecutedHolds DEF Holds
  <2>7. CASE Went(c, Before, After) /\ Kept(c)
    BY <2>3, <2>6, <2>7 DEF Place, Went, Kept, Before, After, AllAre, Executed
  <2>8. CASE Kept(c) /\ Went(c, {"enforce", "run"}, {"raised"})
    BY <2>3, <2>6, <2>8 DEF Place, Went, Kept, AllAre, Executed
  <2>9. CASE /\ Kept(c)
             /\ \/ Went(c, {"emit"}, {"record"}) \/ Went(c, {"emit_refusal"}, {"record_refusal"})
                \/ Went(c, {"record", "record_refusal"}, {"raised"})
    BY <2>5, <2>6, <2>9 DEF Place, Went, Kept, AllAre, Executed
  <2>10. CASE Went(c, {"run"}, {"emit", "raised"}) /\ Ran(c)
    BY <2>4, <2>6, <2>10 DEF Place, Went, Ran, AllAre, Executed
  <2>11. CASE Went(c, {"run"}, {"emit_refusal"}) /\ call'[c].threw /\ (Kept(c) \/ Ran(c))
    BY <2>4, <2>6, <2>11 DEF Place, Went, Ran, Kept, Executed
  <2>12. CASE /\ Logged(c, TRUE)
              /\ Went(c, {"enforce"}, {"run", "raised"}) \/ Went(c, {"record"}, {"returned", "raised"})
    <3>1. AllAre(log[c], TRUE)
      BY <2>3, <2>12 DEF Place, Went
    <3>2. AllAre(log'[c], TRUE) /\ log'[c] # <<>> /\ log'[c][1] = TRUE
      BY <2>2, <2>12, <3>1
    <3> QED
      BY <2>6, <2>12, <3>2 DEF Place, Went, Logged, AllAre, Executed
  <2>13. CASE /\ Logged(c, FALSE)
              /\ \/ Went(c, {"enforce"}, {"emit_refusal", "raised"})
                 \/ Went(c, {"record_refusal"}, {"refused", "raised"})
    <3>1. CASE AllAre(log[c], FALSE) /\ c \notin effects
      <4>1. AllAre(log'[c], FALSE)
        BY <2>2, <2>13, <3>1
      <4> QED
        BY <2>6, <2>13, <3>1, <4>1 DEF Place, Went, Logged, AllAre, Executed
    <3>2. CASE call[c].pc = "record_refusal" /\ Executed(c) /\ call[c].threw
      <4>1. Executed(c)'
        <5>1. Append(log[c], FALSE) # <<>> /\ Append(log[c], FALSE)[1] = log[c][1]
          BY <2>1, <3>2, AppendKeepsFirst DEF Executed
        <5> QED
          BY <2>13, <3>2, <5>1 DEF Logged, Executed
      <4> QED
        BY <2>5, <2>6, <2>13, <3>2, <4>1 DEF Place, Went
    <3> QED
      BY <2>3, <2>13, <3>1, <3>2 DEF Place, Went
  <2> QED
    BY <1>4, <2>7, <2>8, <2>9, <2>10, <2>11, <2>12, <2>13, InvokeCases
<1> QED
  BY <1>1, <1>2, <1>3, <1>4, Moves

LEMMA Places == Spec => [](\A c \in Calls : Place(c))
<1> DEFINE Inv == \A c \in Calls : Place(c)
<1>1. Init => Inv
  <2> SUFFICES ASSUME Init, NEW c \in Calls PROVE Place(c)
    OBVIOUS
  <2>1. call[c].pc = "idle" /\ log[c] = <<>> /\ c \notin effects
    BY DEF Init, NoCall
  <2> QED
    BY <2>1 DEF Place, AllAre, Executed
<1>2. TypeOK /\ Inv /\ [Next]_vars => Inv'
  BY PlaceStep
<1> QED
  BY <1>1, <1>2, TypeCorrect, PTL DEF Spec

-----------------------------------------------------------------------------
(* The race for the arm                                                    *)

(* Without an overlap, the arm that a call finds is its own.               *)
Raced ==
  /\ \A c, d \in Calls : InArm(c) /\ InArm(d) /\ c # d => overlapped
  /\ \A c \in Calls : At(c, "armed") => arm = c \/ overlapped
  /\ \A c \in Calls : At(c, "read") => call[c].seen = c \/ overlapped

LEMMA RacedStep == TypeOK /\ Raced /\ [Next]_vars => Raced'
<1> SUFFICES ASSUME TypeOK, Raced, [Next]_vars PROVE Raced'
  OBVIOUS
<1> USE DEF Raced, InArm, At
<1>1. ASSUME NEW c \in Calls, Present(c) PROVE Raced'
  <2>1. call'[c].pc \notin {"armed", "read"} /\ \A d \in Calls : d # c => call'[d] = call[d]
    BY <1>1, PresentMoves DEF TypeOK
  <2> QED
    BY <1>1, <2>1, PresentMoves
<1>2. ASSUME NEW c \in Calls, Invoke(c) PROVE Raced'
  <2>1. \A d \in Calls : d # c => call'[d] = call[d]
    BY <1>2, InvokeMoves DEF TypeOK
  <2>2. call[c] \in CallType /\ call \in [Calls -> NoCalls \cup CallType]
    BY <1>2, InvokeMoves DEF TypeOK
  <2>3. CASE Arm(c)
    <3>1. call'[c].pc = "armed" /\ arm' = c
      BY <2>2, <2>3 DEF Arm, Goto, CallType
    <3>2. (overlapped \/ \E d \in Calls \ {c} : InArm(d)) => overlapped'
      BY <2>3 DEF Arm
    <3> QED
      BY <2>1, <3>1, <3>2
  <2>4. CASE ReadArm(c)
    <3>1. call[c].pc = "armed" /\ call'[c].pc = "read" /\ call'[c].seen = arm
      BY <2>2, <2>4 DEF ReadArm, CallType
    <3> QED
      BY <2>1, <2>4, <3>1 DEF ReadArm
  <2>5. CASE ClearArm(c)
    <3>1. call[c].pc = "read" /\ call'[c].pc \in {"enforce", "emit_refusal"}
      BY <2>2, <2>5 DEF ClearArm, CallType
    <3> QED
      BY <2>1, <2>5, <3>1 DEF ClearArm
  <2>6. CASE ~Arm(c) /\ ~ReadArm(c) /\ ~ClearArm(c)
    <3>1. arm' = arm /\ overlapped' = overlapped
      BY <1>2, <2>6 DEF Invoke, Consume, ConsumeFails, Decide, DecideRaises, Enforce, EnforceRefuses,
           EnforceRaises, RunTool, ToolRaises, ToolRefuses, Emit, EmitRecord, EmitRaises
    <3>2. call'[c].pc \notin {"armed", "read"}
      <4>1. CASE Decide(c)
        BY <2>2, <4>1 DEF Decide, CallType
      <4>5. CASE ToolRefuses(c)
        BY <2>2, <4>5 DEF ToolRefuses, CallType
      <4>4. CASE Consume(c)
        <5>1. call'[c].pc = "decide"
          BY <2>2, <4>4 DEF Consume, CallType
        <5> QED
          BY <5>1
      <4>2. CASE ConsumeFails(c) \/ DecideRaises(c)
        BY <2>2, <4>2 DEF ConsumeFails, DecideRaises, Rejected, Gone
      <4>3. CASE \E pc \in PCs \ {"armed", "read"} : Goto(c, pc) \/ Leave(c, pc)
        BY <1>2, <4>3, Arrives
      <4> QED
        BY <1>2, <2>6, <4>1, <4>2, <4>3, <4>4, <4>5 DEF Invoke, Enforce, EnforceRefuses,
             EnforceRaises, RunTool, ToolRaises, Emit, EmitRecord, EmitRaises, PCs, Finished
    <3> QED
      BY <2>1, <3>1, <3>2
  <2> QED
    BY <2>3, <2>4, <2>5, <2>6
<1>3. CASE Restart
  <2>1. \A c \in Calls : call'[c].pc \notin {"armed", "read"}
    BY <1>3, RestartMoves DEF Finished
  <2> QED
    BY <2>1
<1>4. CASE UNCHANGED <<arm, call, overlapped>>
  BY <1>4
<1>5. CASE DirectArm \/ DirectExecute
  <2>1. call' = call /\ (overlapped \/ (\E c \in Calls : InArm(c)) => overlapped')
    BY <1>5, DirectMoves
  <2> QED
    BY <2>1
<1> QED
  BY <1>1, <1>2, <1>3, <1>4, <1>5 DEF Next, Admit, RegisterAgent, Tick, vars

(* A call whose arm was not its own, before the enforcement point has      *)
(* logged anything, overlapped with another.                               *)
Stolen(c) == At(c, "emit_refusal") /\ log[c] = <<>> => overlapped

(* An admitted call is turned away for another's arm only when two calls,  *)
(* or a call and a direct caller of the executor, shared the window.       *)
THEOREM StolenOnlyInRace == Spec => []ArmStolenOnlyInRace
<1> DEFINE Inv == Raced /\ \A c \in Calls : Stolen(c)
           Placed == \A c \in Calls : Place(c)
<1>1. Init => Inv
  BY DEF Init, Raced, Stolen, NoCall, InArm, At
<1>2. TypeOK /\ Placed /\ Inv /\ [Next]_vars => Inv'
  <2> SUFFICES ASSUME TypeOK, Placed, Inv, [Next]_vars, NEW c \in Calls PROVE Stolen(c)'
    BY RacedStep
  <2>1. CASE Present(c)
    BY <2>1, PresentMoves DEF Stolen, At
  <2>2. CASE Restart
    <3>1. call'[c].pc # "emit_refusal"
      BY <2>2, RestartMoves DEF Finished
    <3> QED
      BY <3>1 DEF Stolen, At
  <2>3. CASE Same(c)
    BY <2>3, Moves DEF Stolen, Same, At
  <2>4. CASE Invoke(c)
    <3>0. call[c] \in CallType /\ call \in [Calls -> NoCalls \cup CallType]
      BY <2>4, InvokeMoves DEF TypeOK
    <3>1. CASE ClearArm(c)
      <4>1. call'[c].pc = "emit_refusal" => call[c].pc = "read" /\ call[c].seen # c
        BY <3>0, <3>1 DEF ClearArm, At, CallType
      <4> QED
        BY <3>1, <4>1 DEF ClearArm, Raced, Stolen, At
    <3>2. CASE EnforceRefuses(c)
      <4>1. log'[c] # <<>>
        <5>1. log'[c] = Append(log[c], FALSE) /\ log[c] \in Seq(BOOLEAN)
          BY <3>2 DEF EnforceRefuses, TypeOK
        <5>2. Len(log'[c]) = Len(log[c]) + 1 /\ Len(log[c]) \in Nat
          BY <5>1
        <5> QED
          BY <5>2
      <4> QED
        BY <4>1 DEF Stolen
    <3>3. CASE ToolRefuses(c)
      BY <3>3 DEF ToolRefuses, At, Place, Stolen
    <3>4. CASE ~ClearArm(c) /\ ~EnforceRefuses(c) /\ ~ToolRefuses(c)
      <4>1. CASE Consume(c) \/ Decide(c) \/ ReadArm(c)
        <5>1. CASE Consume(c)
          <6>1. call'[c].pc = "decide"
            BY <3>0, <5>1 DEF Consume, CallType
          <6> QED
            BY <6>1 DEF Stolen, At
        <5>2. CASE Decide(c)
          <6>1. call'[c].pc = "arm"
            BY <3>0, <5>2 DEF Decide, CallType
          <6> QED
            BY <6>1 DEF Stolen, At
        <5>3. CASE ReadArm(c)
          <6>1. call'[c].pc = "read"
            BY <3>0, <5>3 DEF ReadArm, CallType
          <6> QED
            BY <6>1 DEF Stolen, At
        <5> QED
          BY <4>1, <5>1, <5>2, <5>3
      <4>2. CASE ConsumeFails(c) \/ DecideRaises(c)
        BY <3>0, <4>2 DEF ConsumeFails, DecideRaises, Rejected, Gone, Stolen, At
      <4>3. CASE \E pc \in PCs \ {"emit_refusal"} : Goto(c, pc) \/ Leave(c, pc)
        BY <2>4, <4>3, Arrives DEF Stolen, At
      <4> QED
        BY <2>4, <3>4, <4>1, <4>2, <4>3 DEF Invoke, Arm, Enforce,
             EnforceRaises, RunTool, ToolRaises, Emit, EmitRecord, EmitRaises, PCs, Finished
    <3> QED
      BY <3>1, <3>2, <3>3, <3>4
  <2> QED
    BY <2>1, <2>2, <2>3, <2>4, Moves
<1>3. Inv => ArmStolenOnlyInRace
  BY DEF Stolen, ArmStolenOnlyInRace
<1>4. Spec => []Placed
  BY Places
<1> QED
  BY <1>1, <1>2, <1>3, <1>4, TypeCorrect, PTL DEF Spec

-----------------------------------------------------------------------------
(* What an effect rests on                                                 *)

(* Past the spend of the ticket: the calls that admission let in, as long  *)
(* as they run or when they are entered as executed.                       *)
Inside == {"decide", "arm", "armed", "read", "enforce", "run", "emit", "emit_refusal", "record",
           "record_refusal"}
Admitted(c) == call[c].pc \in Inside \/ Executed(c)

(* Two calls that are admitted do not hold the same nonce.                 *)
Owned ==
  /\ \A c \in Calls : Admitted(c) => call[c].ticket.nonce \in spent
  /\ \A c, d \in Calls : Admitted(c) /\ Admitted(d) /\ call[c].ticket.nonce = call[d].ticket.nonce
       => c = d

(* A call on its way to an effect has passed what comes before it.         *)
Screened(c) ==
  /\ call[c].pc = "consume" \/ Admitted(c) =>
       /\ call[c].tool \in SealedTools /\ ~call[c].altered
       /\ call[c].ticket \in issued /\ call[c].ticket.agent = call[c].agent
  /\ Admitted(c) => call[c].inTime
  /\ call[c].pc = "run" \/ c \in effects =>
       call[c].authority \in PERMITTING /\ call[c].legitimacy \in PERMITTING

(* Only the spend of its ticket admits a call.                             *)
LEMMA Admission ==
  ASSUME TypeOK, [Next]_vars, NEW c \in Calls, Place(c), Admitted(c)'
  PROVE  /\ \/ Admitted(c) /\ call'[c].inTime = call[c].inTime
            \/ /\ Consume(c) /\ call[c].ticket.nonce \notin spent
               /\ spent' = spent \cup {call[c].ticket.nonce} /\ call'[c].inTime
         /\ call'[c].ticket = call[c].ticket /\ call'[c].tool = call[c].tool
         /\ call'[c].altered = call[c].altered /\ call'[c].agent = call[c].agent
<1> USE DEF Admitted, Inside
<1>1. CASE Present(c)
  BY <1>1, PresentMoves DEF Place, Executed
<1>2. CASE Restart
  <2>1. log' = log /\ (Executed(c)' <=> Executed(c))
    BY <1>2, RestartMoves DEF Executed
  <2>2. CASE call'[c] = call[c]
    BY <2>1, <2>2
  <2>3. CASE Executed(c) /\ call[c] \in CallType /\ call'[c] = [call[c] EXCEPT !.pc = "killed"]
    BY <2>3 DEF CallType
  <2> QED
    BY <1>2, <2>1, <2>2, <2>3, RestartMoves
<1>3. CASE Same(c)
  BY <1>3 DEF Same, Executed
<1>4. CASE Consume(c)
  <2>1. call[c] \in CallType /\ call'[c] = [call[c] EXCEPT !.pc = "decide", !.inTime = InTime(call[c].ticket)]
    BY <1>4, InvokeMoves DEF Consume, Invoke, TypeOK
  <2>2. InTime(call[c].ticket)
    BY <1>4 DEF Consume, Genuine, InTime
  <2> QED
    <3>1. /\ call'[c].ticket = call[c].ticket /\ call'[c].tool = call[c].tool /\ call'[c].inTime
          /\ call'[c].altered = call[c].altered /\ call'[c].agent = call[c].agent
      BY <2>1, <2>2 DEF CallType
    <3> QED
      BY <1>4, <3>1 DEF Consume
<1>5. CASE Invoke(c) /\ ~Consume(c)
  <2>0. call[c].pc \notin Finished /\ call[c].pc # "idle" /\ call[c] \in CallType
    BY <1>5, InvokeMoves
  <2>1. call[c].pc # "consume"
    <3>1. call[c].pc = "consume" => ConsumeFails(c)
      BY <1>5 DEF Invoke, Decide, DecideRaises, Arm, ReadArm, ClearArm, Enforce, EnforceRefuses,
         EnforceRaises, RunTool, ToolRaises, ToolRefuses, Emit, EmitRecord, EmitRaises, At
    <3>2. ConsumeFails(c) => call'[c].pc = "raised" /\ log' = log
      BY DEF ConsumeFails, Rejected, Gone, TypeOK
    <3> QED
      BY <3>1, <3>2 DEF Place, Executed
  <2>2. Admitted(c)
    BY <2>0, <2>1 DEF CallType, PCs
  <2>3. Holds(c)
    <3>1. CASE Executed(c)'
      BY <1>5, <3>1, ExecutedHolds
    <3>2. CASE call'[c].pc \in Inside
      <4>1. ~Vanishes(c)
        BY <3>2 DEF Vanishes, Gone, Finished
      <4> QED
        BY <1>5, <4>1, InvokeMoves
    <3> QED
      BY <3>1, <3>2
  <2> QED
    BY <2>1, <2>2, <2>3 DEF Holds
<1> QED
  BY <1>1, <1>2, <1>3, <1>4, <1>5, Moves

LEMMA OwnedStep ==
  ASSUME TypeOK, [Next]_vars, \A c \in Calls : Place(c), Owned
  PROVE  Owned'
<1>1. ASSUME NEW c \in Calls, Admitted(c)' PROVE call'[c].ticket.nonce \in spent'
  BY <1>1, Admission, Moves DEF Owned
<1>2. ASSUME NEW c \in Calls, NEW d \in Calls, Admitted(c)', Admitted(d)', c # d,
             call'[c].ticket.nonce = call'[d].ticket.nonce
      PROVE  FALSE
  <2>1. call[c].ticket.nonce = call[d].ticket.nonce
    BY <1>2, Admission
  <2>2. CASE Admitted(c) /\ Admitted(d)
    BY <1>2, <2>1, <2>2 DEF Owned
  <2>3. CASE ~Admitted(c)
    <3>1. Consume(c) /\ call[c].ticket.nonce \notin spent
      BY <1>2, <2>3, Admission
    <3>2. ~Admitted(d)
      BY <2>1, <3>1 DEF Owned
    <3>3. Consume(d)
      BY <1>2, <3>2, Admission
    <3>4. call'[d] = call[d]
      BY <1>2, <3>1, InvokeMoves DEF TypeOK, Invoke
    <3>5. call'[d].pc = "decide" /\ call[d].pc = "consume"
      BY <3>3, InvokeMoves DEF Consume, At, TypeOK, CallType, Invoke
    <3> QED
      BY <3>4, <3>5
  <2>4. CASE ~Admitted(d)
    <3>1. Consume(d) /\ call[d].ticket.nonce \notin spent
      BY <1>2, <2>4, Admission
    <3>2. ~Admitted(c)
      BY <2>1, <3>1 DEF Owned
    <3> QED
      BY <2>3, <3>2
  <2> QED
    BY <2>2, <2>3, <2>4
<1> QED
  BY <1>1, <1>2 DEF Owned

LEMMA ScreenedStep ==
  ASSUME TypeOK, [Next]_vars, NEW c \in Calls, Place(c), Screened(c)
  PROVE  Screened(c)'
<1>1. ASSUME call'[c].pc = "consume" \/ Admitted(c)'
      PROVE  /\ call'[c].tool \in SealedTools /\ ~call'[c].altered
             /\ call'[c].ticket \in issued' /\ call'[c].ticket.agent = call'[c].agent
  <2>1. CASE Admitted(c)'
    BY <2>1, Admission, Moves DEF Screened, Consume, At
  <2>2. CASE call'[c].pc = "consume" /\ Present(c)
    BY <2>2, PresentMoves DEF world
  <2>3. CASE call'[c].pc = "consume" /\ ~Present(c)
    <3>1. call'[c] = call[c]
      <4>1. CASE Invoke(c)
        BY <2>3, <4>1, InvokeCases DEF Went, After
      <4>2. CASE Restart
        BY <2>3, <4>2, RestartMoves
      <4> QED
        BY <2>3, <4>1, <4>2, Moves DEF Same
    <3> QED
      BY <2>3, <3>1, Moves DEF Screened
  <2> QED
    BY <1>1, <2>1, <2>2, <2>3
<1>3. ASSUME Admitted(c)' PROVE call'[c].inTime
  BY <1>3, Admission DEF Screened
<1>2. ASSUME call'[c].pc = "run" \/ c \in effects'
      PROVE  call'[c].authority \in PERMITTING /\ call'[c].legitimacy \in PERMITTING
  <2>1. CASE Present(c)
    BY <1>2, <2>1, PresentMoves DEF Place
  <2>2. CASE Restart
    BY <1>2, <2>2, RestartMoves DEF Screened, CallType, Place
  <2>3. CASE Same(c)
    BY <1>2, <2>3 DEF Screened, Same
  <2>4. CASE Invoke(c)
    <3>0. Place(c)'
      BY PlaceStep
    <3>1. Holds(c)
      <4>1. CASE c \in effects'
        BY <2>4, <3>0, <4>1, ExecutedHolds DEF Place
      <4>2. CASE call'[c].pc = "run"
        <5>1. ~Vanishes(c)
          BY <4>2 DEF Vanishes, Gone, Finished
        <5> QED
          BY <2>4, <5>1, InvokeMoves
      <4> QED
        BY <1>2, <4>1, <4>2
    <3>2. CASE Enforce(c)
      <4>1. call[c] \in CallType /\ Meet(call[c].authority, call[c].legitimacy) \in PERMITTING
        BY <2>4, <3>2, InvokeMoves DEF Enforce, Verdict
      <4>2. call[c].authority \in PERMITTING /\ call[c].legitimacy \in PERMITTING
        BY <4>1, MeetPermitsOnlyByConsensus, NormalizeIdempotent DEF CallType
      <4> QED
        BY <3>1, <3>2, <4>2 DEF Enforce, At, Holds
    <3>3. CASE ~Enforce(c)
      <4>1. call[c].pc = "run" \/ c \in effects
        <5>1. CASE EnforceRaises(c) \/ EnforceRefuses(c)
          <6>1. call'[c].pc # "run" /\ effects' = effects
            BY <2>4, <5>1, Arrives DEF EnforceRaises, EnforceRefuses
          <6> QED
            BY <1>2, <6>1
        <5>2. CASE ~EnforceRaises(c) /\ ~EnforceRefuses(c)
          <6>1. call[c].pc # "enforce"
            BY <2>4, <3>3, <5>2 DEF Invoke, Consume, ConsumeFails, Decide, DecideRaises, Arm, ReadArm,
               ClearArm, RunTool, ToolRaises, ToolRefuses, Emit, EmitRecord, EmitRaises, At
          <6> QED
            BY <1>2, <2>4, <6>1, InvokeCases DEF Went, Kept, Logged, Ran, After
        <5> QED
          BY <5>1, <5>2
      <4>2. call[c].pc # "decide"
        BY <4>1, <2>4, InvokeCases, <1>2 DEF Went, Kept, Logged, Ran, Place
      <4> QED
        BY <3>1, <4>1, <4>2 DEF Screened, Holds
    <3> QED
      BY <3>2, <3>3
  <2> QED
    BY <2>1, <2>2, <2>3, <2>4, Moves
<1> QED
  BY <1>1, <1>2, <1>3 DEF Screened

LEMMA Mediation == Spec => [](Owned /\ \A c \in Calls : Place(c) /\ Screened(c))
<1> DEFINE Inv == Owned /\ \A c \in Calls : Screened(c)
           Placed == \A c \in Calls : Place(c)
<1>1. Init => Inv
  BY DEF Init, Owned, Screened, Admitted, Inside, NoCall, Executed
<1>2. TypeOK /\ Placed /\ Inv /\ [Next]_vars => Inv'
  BY OwnedStep, ScreenedStep
<1>3. Inv /\ Placed => Owned /\ \A c \in Calls : Place(c) /\ Screened(c)
  OBVIOUS
<1>4. Spec => []Placed
  BY Places
<1> QED
  BY <1>1, <1>2, <1>3, <1>4, TypeCorrect, PTL DEF Spec

(* Executed implies admitted, by a ticket spent in time and on the runtime *)
(* that had signed it, both authorities permitting, and the entry of the   *)
(* enforcement point, however threads and restarts interleave.             *)
THEOREM ExecutedMediated == Spec => []ExecutedIsMediated
<1>1. TypeOK /\ Owned /\ (\A c \in Calls : Place(c) /\ Screened(c)) => ExecutedIsMediated
  BY DEF TypeOK, Owned, Place, Screened, Admitted, ExecutedIsMediated
<1> QED
  BY <1>1, Mediation, TypeCorrect, PTL

(* A ticket admits once: no two effects rest on the same nonce.            *)
THEOREM TicketsAdmitOnce ==
  Spec => [](\A c, d \in effects : call[c].ticket.nonce = call[d].ticket.nonce => c = d)
<1>1. TypeOK /\ Owned /\ (\A c \in Calls : Place(c) /\ Screened(c)) =>
        \A c, d \in effects : call[c].ticket.nonce = call[d].ticket.nonce => c = d
  BY DEF TypeOK, Owned, Admitted, Place
<1> QED
  BY <1>1, Mediation, TypeCorrect, PTL

-----------------------------------------------------------------------------
(* The accounts of a call                                                  *)

(* An EvidenceRecord is of a call that is past _emit(), and agrees with    *)
(* the effect and with every entry of that call, unless its tool raised    *)
(* ExecutionRefused.                                                       *)
Agrees(e, c) ==
  /\ call[c].pc \in {"record", "record_refusal", "returned", "refused", "raised"}
  /\ \/ e.executed = TRUE /\ c \in effects /\ AllAre(log[c], TRUE) /\ call[c].pc # "record_refusal"
     \/ e.executed = FALSE /\ c \notin effects /\ AllAre(log[c], FALSE) /\ call[c].pc # "record"
     \/ e.executed = FALSE /\ Executed(c) /\ call[c].threw /\ call[c].pc # "record"

Evident == \A e \in evidence : Agrees(e, e.call)

LEMMA EvidentStep ==
  ASSUME TypeOK, [Next]_vars, \A c \in Calls : Place(c), Evident
  PROVE  Evident'
<1> SUFFICES ASSUME NEW e \in evidence' PROVE Agrees(e, e.call)'
  BY DEF Evident
<1>1. CASE e \in evidence
  <2> DEFINE c == e.call
  <2>1. c = e.call /\ c \in Calls /\ log[c] \in Seq(BOOLEAN) /\ Agrees(e, c) /\ Place(c)
    BY <1>1 DEF TypeOK, Evident
  <2> HIDE DEF c
  <2>2. CASE Same(c)
    BY <2>1, <2>2 DEF Agrees, Same, AllAre, Executed
  <2>3. CASE Invoke(c)
    <3>1. ASSUME NEW b \in BOOLEAN, Logged(c, b), AllAre(log[c], b) PROVE AllAre(log'[c], b)
      BY <2>1, <3>1, AppendAll DEF Logged
    <3>2. CASE Went(c, {"record"}, {"returned", "raised"}) /\ Logged(c, TRUE)
      <4>1. AllAre(log[c], TRUE) /\ c \in effects /\ e.executed = TRUE
        BY <2>1, <3>2 DEF Place, Went, Agrees
      <4>2. AllAre(log'[c], TRUE)
        BY <3>1, <3>2, <4>1
      <4>3. AllAre(log[c], TRUE)'
        BY <4>2 DEF AllAre
      <4> QED
        BY <2>1, <3>2, <4>1, <4>3 DEF Agrees, Went, Logged
    <3>3. CASE Went(c, {"record_refusal"}, {"refused", "raised"}) /\ Logged(c, FALSE)
      <4>1. CASE AllAre(log[c], FALSE) /\ c \notin effects /\ e.executed = FALSE
        <5>1. AllAre(log'[c], FALSE)
          BY <3>1, <3>3, <4>1
        <5>2. AllAre(log[c], FALSE)'
          BY <5>1 DEF AllAre
        <5> QED
          BY <2>1, <3>3, <4>1, <5>2 DEF Agrees, Went, Logged
      <4>2. CASE Executed(c) /\ call[c].threw /\ e.executed = FALSE
        <5>1. Executed(c)'
          BY <2>1, <3>3, <4>2, AppendKeepsFirst DEF Logged, Executed
        <5>2. call'[c].threw
          BY <2>1, <2>3, <3>3, <4>2, <5>1, ExecutedHolds DEF Holds, Went
        <5> QED
          BY <2>1, <3>3, <4>2, <5>1, <5>2 DEF Agrees, Went
      <4> QED
        BY <2>1, <3>3, <4>1, <4>2 DEF Agrees, Went
    <3>4. CASE Went(c, {"record", "record_refusal"}, {"raised"}) /\ Kept(c)
      <4>1. Executed(c) => Executed(c)' /\ (call[c].threw => call'[c].threw)
        BY <2>1, <2>3, <3>4, ExecutedHolds DEF Holds, Went, Kept, Executed
      <4> QED
        BY <2>1, <3>4, <4>1 DEF Agrees, Went, Kept, AllAre
    <3> QED
      BY <2>1, <2>3, <3>2, <3>3, <3>4, InvokeCases DEF Agrees, Went, Before
  <2>4. ~Present(c)
    BY <2>1, PresentMoves DEF Agrees
  <2>5. ~Restart
    BY DEF Restart
  <2> QED
    BY <2>1, <2>2, <2>3, <2>4, <2>5, Moves DEF c
<1>2. CASE e \notin evidence
  <2>1. PICK c \in Calls : Emit(c)
    BY <1>2 DEF Next, Present, Invoke, Consume, ConsumeFails, Decide, DecideRaises, Arm, ReadArm, ClearArm,
       Enforce, EnforceRefuses, EnforceRaises, RunTool, ToolRaises, ToolRefuses, EmitRecord,
       EmitRaises, Admit, RegisterAgent, DirectArm, DirectExecute, Restart, Tick, vars
  <2>2. e = [call |-> c, executed |-> At(c, "emit")]
    BY <1>2, <2>1 DEF Emit
  <2>3. log' = log /\ effects' = effects
    BY <2>1 DEF Emit
  <2>4. CASE call[c].pc = "emit"
    <3>1. call'[c].pc = "record"
      BY <2>1, <2>4, Arrives DEF Emit, At, Invoke
    <3>2. e.call = c /\ e.executed = TRUE
      BY <2>2, <2>4 DEF At
    <3> QED
      BY <2>3, <2>4, <3>1, <3>2 DEF Agrees, Place, AllAre
  <2>5. CASE call[c].pc = "emit_refusal"
    <3>1. call'[c].pc = "record_refusal"
      BY <2>1, <2>5, Arrives DEF Emit, At, Invoke
    <3>2. e.call = c /\ e.executed = FALSE
      BY <2>2, <2>5 DEF At
    <3>3. CASE AllAre(log[c], FALSE) /\ c \notin effects
      BY <2>3, <3>1, <3>2, <3>3 DEF Agrees, AllAre
    <3>4. CASE Executed(c) /\ call[c].threw
      <4>1. Executed(c)'
        BY <2>3, <3>4 DEF Executed
      <4>2. call'[c].threw
        BY <2>1, <2>5, <3>4, <4>1, ExecutedHolds DEF Holds, Invoke
      <4> QED
        BY <3>1, <3>2, <4>1, <4>2 DEF Agrees
    <3> QED
      BY <2>5, <3>3, <3>4 DEF Place
  <2> QED
    BY <2>1, <2>4, <2>5 DEF Emit
<1> QED
  BY <1>1, <1>2

(* The enforcement point's entry, that of _emit() and the EvidenceRecord   *)
(* never contradict each other or the effect, unless the tool itself       *)
(* raised ExecutionRefused, and then only as an executed entry followed by *)
(* a refusal.                                                              *)
THEOREM AccountsAgree == Spec => []AuditAgrees
<1> DEFINE Placed == \A c \in Calls : Place(c)
<1>1. Init => Evident
  BY DEF Init, Evident
<1>2. TypeOK /\ Placed /\ Evident /\ [Next]_vars => Evident'
  BY EvidentStep
<1>3. TypeOK /\ Placed /\ Evident => AuditAgrees
  <2> SUFFICES ASSUME TypeOK, Placed, Evident PROVE AuditAgrees
    OBVIOUS
  <2>1. ASSUME NEW c \in Calls, NEW i \in DOMAIN log[c]
        PROVE  (log[c][i] # log[c][1] => call[c].threw) /\ (~log[c][1] => c \notin effects)
    <3>1. log[c] \in Seq(BOOLEAN) /\ 1 \in DOMAIN log[c]
      BY <2>1 DEF TypeOK
    <3>2. CASE AllAre(log[c], TRUE)
      BY <2>1, <3>1, <3>2 DEF AllAre
    <3>3. CASE AllAre(log[c], FALSE) /\ c \notin effects
      BY <2>1, <3>1, <3>3 DEF AllAre
    <3>4. CASE Executed(c) /\ call[c].threw
      BY <3>4 DEF Executed
    <3> QED
      BY <3>2, <3>3, <3>4 DEF Place
  <2>2. ASSUME NEW e \in evidence
        PROVE  /\ e.executed => e.call \in effects
               /\ ~e.executed /\ e.call \in effects => call[e.call].threw
               /\ \A i \in DOMAIN log[e.call] : log[e.call][i] # e.executed => call[e.call].threw
    BY <2>2 DEF Evident, Agrees, AllAre
  <2> QED
    BY <2>1, <2>2 DEF AuditAgrees
<1>4. Spec => []Placed
  BY Places
<1> QED
  BY <1>1, <1>2, <1>3, <1>4, TypeCorrect, PTL DEF Spec

-----------------------------------------------------------------------------
(***************************************************************************)
(* invoke() implements OneTimeEffect: every step of Sealed claims a ticket *)
(* for a call, records that call, runs its tool, or changes none of the    *)
(* three things the abstract promise speaks of.                            *)
(***************************************************************************)

LEMMA RecordedBy ==
  ASSUME NEW n
  PROVE  n \in Recorded <=> \E c \in Calls : Executed(c) /\ call[c].ticket.nonce = n
BY DEF Recorded, Executed

(* The entries of a call say executed from the first or never do.          *)
LEMMA ExecutedPlaces ==
  ASSUME TypeOK, NEW c \in Calls, Place(c)
  PROVE  /\ log[c] = <<>> => ~Executed(c)
         /\ AllAre(log[c], FALSE) => ~Executed(c)
         /\ AllAre(log[c], TRUE) /\ log[c] # <<>> => Executed(c)
         /\ c \in effects => Executed(c)
<1>1. log[c] # <<>> => 1 \in DOMAIN log[c]
  BY DEF TypeOK
<1> QED
  BY <1>1 DEF Executed, AllAre, Place

(* A step that leaves this much of every call alone is a stutter of the    *)
(* promise, unless it claims a ticket.                                     *)
Keeps(c) ==
  /\ Executed(c)' <=> Executed(c)
  /\ c \in effects' <=> c \in effects
  /\ Executed(c) \/ c \in effects => call'[c].ticket.nonce = call[c].ticket.nonce

LEMMA KeepsAll ==
  ASSUME effects \subseteq Calls, effects' \subseteq Calls, \A c \in Calls : Keeps(c)
  PROVE  Recorded' = Recorded /\ RanBy' = RanBy
<1>1. Recorded' = Recorded
  <2>1. Recorded' = {call'[c].ticket.nonce : c \in {d \in Calls : Executed(d)'}}
    BY DEF Recorded, Executed
  <2>2. Recorded = {call[c].ticket.nonce : c \in {d \in Calls : Executed(d)}}
    BY DEF Recorded, Executed
  <2>3. {d \in Calls : Executed(d)'} = {d \in Calls : Executed(d)}
    BY DEF Keeps
  <2> QED
    BY <2>1, <2>2, <2>3 DEF Keeps
<1>2. effects' = effects
  BY DEF Keeps
<1>3. \A n \in Nonces : {c \in effects : call'[c].ticket.nonce = n} = {c \in effects : call[c].ticket.nonce = n}
  BY DEF Keeps
<1>4. RanBy' = [n \in Nonces |-> {c \in effects : call'[c].ticket.nonce = n}]
  BY <1>2 DEF RanBy
<1> QED
  BY <1>1, <1>3, <1>4 DEF RanBy

LEMMA OthersKeep ==
  ASSUME TypeOK, NEW c \in Calls, Present(c) \/ Invoke(c), NEW d \in Calls, d # c
  PROVE  Same(d) /\ Keeps(d)
<1>1. Same(d)
  BY OneMoves
<1> QED
  BY <1>1 DEF Same, Keeps, Executed

LEMMA PresentKeeps ==
  ASSUME TypeOK, NEW c \in Calls, Place(c), Present(c)
  PROVE  UNCHANGED <<spent, Recorded, RanBy>>
<1>1. spent' = spent /\ log' = log /\ effects' = effects /\ effects \subseteq Calls
  BY PresentMoves DEF TypeOK
<1>2. log[c] = <<>> /\ c \notin effects
  BY PresentMoves DEF Place
<1>3. Keeps(c)
  BY <1>1, <1>2 DEF Keeps, Executed
<1> QED
  BY <1>1, <1>3, OthersKeep, KeepsAll

LEMMA RestartKeeps ==
  ASSUME TypeOK, Restart, \A c \in Calls : Place(c)
  PROVE  UNCHANGED <<spent, Recorded, RanBy>>
<1>1. spent' = spent /\ log' = log /\ effects' = effects /\ effects \subseteq Calls
  BY DEF Restart, TypeOK
<1>2. ASSUME NEW c \in Calls PROVE Keeps(c)
  <2>1. Executed(c) => call'[c].ticket = call[c].ticket
    BY <1>2, RestartMoves DEF CallType
  <2>2. c \in effects => Executed(c)
    BY DEF Place
  <2> QED
    BY <1>1, <2>1, <2>2 DEF Keeps, Executed
<1> QED
  BY <1>1, <1>2, KeepsAll

(* Only the spend of a ticket claims it, whether invoke() is told of it or *)
(* the store fails once its marker is there.                               *)
LEMMA ConsumeClaims ==
  ASSUME TypeOK, NEW c \in Calls, Place(c), Consume(c) \/ ConsumeFails(c)
  PROVE  (\E n \in Nonces : OneTime!Claim(n)) \/ UNCHANGED <<spent, Recorded, RanBy>>
<1> DEFINE n == call[c].ticket.nonce
<1>1. Invoke(c) /\ call[c] \in CallType /\ call[c].pc = "consume"
  BY InvokeMoves DEF Invoke, Consume, ConsumeFails, At
<1>2. n \in Nonces /\ (spent' = spent \/ spent' = spent \cup {n})
  BY <1>1 DEF Consume, ConsumeFails, CallType, Ticket
<1>3. log' = log /\ effects' = effects /\ effects \subseteq Calls
  BY DEF Consume, ConsumeFails, TypeOK
<1>4. Keeps(c)
  BY <1>1, <1>3 DEF Keeps, Executed, Place
<1>5. Recorded' = Recorded /\ RanBy' = RanBy
  BY <1>1, <1>3, <1>4, OthersKeep, KeepsAll
<1> QED
  BY <1>2, <1>5 DEF OneTime!Claim

(* The first executed entry records a ticket that no other call recorded.  *)
LEMMA EntryRecords ==
  ASSUME TypeOK, Owned, NEW c \in Calls, Place(c), Invoke(c), spent' = spent,
         call[c].pc = "enforce", Logged(c, TRUE)
  PROVE  \E n \in Nonces : OneTime!Record(n)
<1> DEFINE n == call[c].ticket.nonce
<1>1. call[c] \in CallType /\ n \in Nonces
  BY InvokeMoves DEF CallType, Ticket
<1>2. log[c] = <<>> /\ c \notin effects /\ ~Executed(c)
  BY ExecutedPlaces DEF Place
<1>3. Executed(c)'
  <2>1. log'[c] = Append(log[c], TRUE) /\ AllAre(log[c], TRUE) /\ log[c] \in Seq(BOOLEAN)
    BY <1>2 DEF Logged, AllAre, TypeOK
  <2>2. log'[c] # <<>> /\ log'[c][1] = TRUE
    BY <2>1, AppendAll
  <2> QED
    BY <2>2 DEF Executed
<1>9. call'[c].ticket = call[c].ticket
  BY <1>3, ExecutedHolds DEF Holds
<1>4. n \in spent
  BY DEF Owned, Admitted, Inside
<1>5. n \notin Recorded
  <2>1. ASSUME NEW d \in Calls, Executed(d), call[d].ticket.nonce = n PROVE FALSE
    <3>1. Admitted(c) /\ Admitted(d)
      BY <2>1 DEF Admitted, Inside
    <3> QED
      BY <1>2, <2>1, <3>1 DEF Owned
  <2> QED
    BY <2>1, RecordedBy
<1>6. Recorded' = Recorded \cup {n}
  <2> DEFINE nonces(S) == {call[d].ticket.nonce : d \in S}
  <2>1. \A d \in Calls : call'[d].ticket.nonce = call[d].ticket.nonce
    BY <1>9, OthersKeep DEF Same
  <2>2. {d \in Calls : Executed(d)'} = {d \in Calls : Executed(d)} \cup {c}
    BY <1>3, OthersKeep DEF Keeps
  <2>3. Recorded' = {call'[d].ticket.nonce : d \in {e \in Calls : Executed(e)'}}
    BY DEF Recorded, Executed
  <2>4. Recorded = {call[d].ticket.nonce : d \in {e \in Calls : Executed(e)}}
    BY DEF Recorded, Executed
  <2> QED
    BY <2>1, <2>2, <2>3, <2>4
<1>7. RanBy' = RanBy
  <2>1. effects' = effects
    <3>1. effects \subseteq Calls /\ effects' \subseteq Calls
      BY OneMoves DEF TypeOK
    <3>2. ASSUME NEW d \in Calls PROVE d \in effects' <=> d \in effects
      BY OthersKeep DEF Keeps, Logged
    <3> QED
      BY <3>1, <3>2
  <2>2. \A d \in effects : call'[d].ticket.nonce = call[d].ticket.nonce
    BY <1>2, OthersKeep DEF Same, TypeOK
  <2> QED
    BY <2>1, <2>2 DEF RanBy
<1> QED
  BY <1>1, <1>4, <1>5, <1>6, <1>7 DEF OneTime!Record

(* The tool runs on a recorded ticket that has run nothing.                *)
LEMMA RunRuns ==
  ASSUME TypeOK, Owned, \A d \in Calls : Place(d), NEW c \in Calls, Invoke(c), spent' = spent,
         call[c].pc = "run", Ran(c)
  PROVE  \E n \in Nonces : OneTime!Run(n, c)
<1> DEFINE n == call[c].ticket.nonce
<1>2. Executed(c) /\ Executed(c)' /\ c \notin effects /\ c \in effects'
  BY ExecutedPlaces DEF Place, Ran, Executed
<1>1. call[c] \in CallType /\ call'[c].ticket = call[c].ticket /\ n \in Nonces
  BY <1>2, InvokeMoves, ExecutedHolds DEF CallType, Ticket, Holds
<1>3. n \in Recorded
  BY <1>2, RecordedBy
<1>4. \A d \in Calls : call'[d].ticket.nonce = call[d].ticket.nonce /\ (Executed(d)' <=> Executed(d))
  BY <1>1, <1>2, OthersKeep DEF Same, Keeps
<1>5. Recorded' = Recorded
  <2>1. {d \in Calls : Executed(d)'} = {d \in Calls : Executed(d)}
    BY <1>4
  <2>2. Recorded' = {call'[d].ticket.nonce : d \in {e \in Calls : Executed(e)'}}
    BY DEF Recorded, Executed
  <2>3. Recorded = {call[d].ticket.nonce : d \in {e \in Calls : Executed(e)}}
    BY DEF Recorded, Executed
  <2> QED
    BY <1>4, <2>1, <2>2, <2>3
<1>6. effects \subseteq Calls /\ effects' = effects \cup {c}
  <2>1. effects \subseteq Calls /\ effects' \subseteq effects \cup {c}
    BY OneMoves DEF TypeOK
  <2> QED
    BY <1>2, <2>1, OthersKeep DEF Keeps
<1>7. \A d \in effects : call[d].ticket.nonce # n
  <2>1. ASSUME NEW d \in effects, call[d].ticket.nonce = n PROVE FALSE
    <3>1. Admitted(c) /\ Admitted(d) /\ d \in Calls
      BY <1>2, <1>6, <2>1 DEF Admitted, Place
    <3> QED
      BY <1>2, <2>1, <3>1 DEF Owned
  <2> QED
    BY <2>1
<1>8. RanBy[n] = {}
  BY <1>1, <1>7 DEF RanBy
<1>9. RanBy' = [RanBy EXCEPT ![n] = {c}]
  <2>1. RanBy' = [m \in Nonces |-> {d \in effects' : call'[d].ticket.nonce = m}]
    BY DEF RanBy
  <2>2. \A m \in Nonces : {d \in effects' : call'[d].ticket.nonce = m}
                            = IF m = n THEN {c} ELSE {d \in effects : call[d].ticket.nonce = m}
    BY <1>4, <1>6, <1>7
  <2> QED
    BY <2>1, <2>2 DEF RanBy
<1> QED
  BY <1>1, <1>3, <1>5, <1>8, <1>9 DEF OneTime!Run

(* Every other step of invoke() leaves the promise alone.                  *)
LEMMA InvokeKeeps ==
  ASSUME TypeOK, NEW c \in Calls, Place(c), Invoke(c), spent' = spent,
         ~(call[c].pc = "enforce" /\ Logged(c, TRUE)), ~(call[c].pc = "run" /\ Ran(c))
  PROVE  Recorded' = Recorded /\ RanBy' = RanBy
<1>1. log[c] \in Seq(BOOLEAN)
  BY DEF TypeOK
<1>2. (c \in effects') = (c \in effects) /\ (Executed(c)' <=> Executed(c))
  <2>1. CASE Kept(c)
    BY <2>1 DEF Kept, Executed
  <2>2. CASE Went(c, {"record"}, {"returned", "raised"}) /\ Logged(c, TRUE)
    <3>1. c \in effects /\ Executed(c)
      BY <2>2 DEF Place, Went
    <3>2. Executed(c)'
      BY <1>1, <2>2, <3>1, AppendKeepsFirst DEF Logged, Executed
    <3> QED
      BY <2>2, <3>1, <3>2 DEF Logged
  <2>3. CASE /\ Logged(c, FALSE)
             /\ \/ Went(c, {"enforce"}, {"emit_refusal", "raised"})
                \/ Went(c, {"record_refusal"}, {"refused", "raised"})
    <3>1. CASE Executed(c)
      <4>1. Executed(c)'
        <5>1. Append(log[c], FALSE) # <<>> /\ Append(log[c], FALSE)[1] = log[c][1]
          BY <1>1, <3>1, AppendKeepsFirst DEF Executed
        <5> QED
          BY <2>3, <3>1, <5>1 DEF Logged, Executed
      <4> QED
        BY <2>3, <3>1, <4>1 DEF Logged
    <3>2. CASE ~Executed(c)
      <4>1. AllAre(log[c], FALSE)
        <5>1. CASE log[c] = <<>>
          <6>1. DOMAIN log[c] = {}
            BY <5>1
          <6> QED
            BY <6>1 DEF AllAre
        <5>2. CASE log[c] # <<>>
          BY <2>3, <3>2, <5>2 DEF Place, Went
        <5> QED
          BY <5>1, <5>2
      <4>2. log'[c][1] = FALSE
        BY <1>1, <2>3, <4>1, AppendAll DEF Logged
      <4> QED
        BY <2>3, <3>2, <4>2 DEF Logged, Executed
    <3> QED
      BY <3>1, <3>2
  <2> QED
    BY <2>1, <2>2, <2>3, InvokeCases DEF Went
<1>3. effects \subseteq Calls /\ effects' \subseteq Calls
  BY OneMoves DEF TypeOK
<1>4. Keeps(c)
  BY <1>2, ExecutedHolds DEF Keeps, Holds, Place
<1> QED
  BY <1>3, <1>4, OthersKeep, KeepsAll

LEMMA StepSimulation ==
  ASSUME TypeOK, [Next]_vars, Owned, \A c \in Calls : Place(c)
  PROVE  OneTime!Next \/ UNCHANGED <<spent, Recorded, RanBy>>
<1>1. ASSUME NEW c \in Calls, Invoke(c)
      PROVE  OneTime!Next \/ UNCHANGED <<spent, Recorded, RanBy>>
  <2>1. CASE Consume(c) \/ ConsumeFails(c)
    BY <2>1, ConsumeClaims DEF OneTime!Next
  <2>2. CASE ~Consume(c) /\ ~ConsumeFails(c)
    <3>1. spent' = spent
      BY <1>1, <2>2 DEF Invoke, Decide, DecideRaises, Arm, ReadArm, ClearArm, Enforce,
         EnforceRefuses, EnforceRaises, RunTool, ToolRaises, ToolRefuses, Emit, EmitRecord, EmitRaises
    <3>2. CASE call[c].pc = "enforce" /\ Logged(c, TRUE)
      BY <1>1, <3>1, <3>2, EntryRecords DEF OneTime!Next
    <3>3. CASE call[c].pc = "run" /\ Ran(c)
      <4>1. \E n \in Nonces : OneTime!Run(n, c)
        BY <1>1, <3>1, <3>3, RunRuns
      <4> QED
        BY <4>1 DEF OneTime!Next
    <3> QED
      BY <1>1, <3>1, <3>2, <3>3, InvokeKeeps
  <2> QED
    BY <2>1, <2>2
<1>2. ASSUME NEW c \in Calls, Present(c)
      PROVE  UNCHANGED <<spent, Recorded, RanBy>>
  BY <1>2, PresentKeeps
<1>3. CASE Restart
  BY <1>3, RestartKeeps
<1>4. CASE UNCHANGED <<spent, call, log, effects>>
  BY <1>4 DEF Recorded, RanBy, Executed
<1>5. CASE DirectArm \/ DirectExecute
  BY <1>4, <1>5, DirectMoves
<1> QED
  BY <1>1, <1>2, <1>3, <1>4, <1>5 DEF Next, Admit, RegisterAgent, Tick, vars

(* However threads, refusals and restarts interleave, an admission ticket  *)
(* is claimed once, recorded as executed only then, and admits at most one *)
(* effect, only after it was recorded.                                     *)
THEOREM Implements == Spec => ImplementsOneTimeEffect
<1> DEFINE Placed == \A c \in Calls : Place(c)
<1>1. Init => OneTime!Init
  BY DEF Init, OneTime!Init, Recorded, RanBy, Executed
<1>2. TypeOK /\ Owned /\ Placed /\ [Next]_vars => [OneTime!Next]_(OneTime!vars)
  BY StepSimulation DEF OneTime!vars
<1>3. Spec => [](Owned /\ Placed)
  <2>1. Owned /\ (\A c \in Calls : Place(c) /\ Screened(c)) => Owned /\ Placed
    OBVIOUS
  <2> QED
    BY <2>1, Mediation, PTL
<1> QED
  BY <1>1, <1>2, <1>3, TypeCorrect, PTL DEF Spec, ImplementsOneTimeEffect, OneTime!Spec

=============================================================================
