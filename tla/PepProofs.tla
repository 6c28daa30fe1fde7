------------------------------ MODULE PepProofs ------------------------------
(***************************************************************************)
(* The enforcement point's safety, proved for any number of replicas,      *)
(* calls, tokens, decisions, crashes and clock ticks and for every kind of *)
(* spent-store.  Only PepAssumption is assumed.                            *)
(***************************************************************************)
EXTENDS Pep, TLAPS

(* Every step of the specification is one of these.                        *)
LEMMA NextCases ==
  ASSUME Next
  PROVE  \/ \E c \in Calls :
              \/ Start(c) \/ CallerMutates(c) \/ Verify(c) \/ Freeze(c) \/ Check(c)
              \/ SpendFirst(c) \/ SpendReplay(c) \/ SpendUnavailable(c) \/ SpendBurnt(c)
              \/ Refuse(c) \/ Commit(c) \/ AuditFails(c) \/ Run(c) \/ ToolRaises(c)
         \/ \E r \in Replicas : Crash(r)
         \/ Tick
BY DEF Next, Execute, Spend, Finish

(* A call that is past "idle" has all its fields.                          *)
LEMMA CallFields ==
  ASSUME TypeOK, NEW c \in Calls, call[c].pc # "idle"
  PROVE  call[c] \in CallType
BY DEF TypeOK, NoCall

(* A call whose program counter, and perhaps another field, has moved is   *)
(* still a call.                                                           *)
LEMMA EndedIsCall ==
  ASSUME NEW k \in CallType, NEW pc \in Finished
  PROVE  Ended(k, pc) \in CallType
BY DEF Ended, CallType, PCs

LEMMA TypeStep ==
  ASSUME TypeOK, [Next]_vars
  PROVE  TypeOK'
<1> USE DEF TypeOK
<1>1. ASSUME NEW c \in Calls, Start(c)
      PROVE  TypeOK'
  <2>1. PICK r \in Replicas, q \in Requests :
          call' = [call EXCEPT ![c] =
            [pc |-> "verify", replica |-> r, decision |-> q.decision,
             authentic |-> q.authentic, formed |-> q.formed, steady |-> TRUE,
             action |-> q.action, live |-> q.action, tool |-> q.tool, started |-> now,
             won |-> FALSE, scope |-> Scope(r)]]
    BY <1>1 DEF Start
  <2>2. q \in Request
    BY PepAssumption
  <2>3. Scope(r) \in Scopes
    BY DEF Scope, Scopes
  <2>4. [pc |-> "verify", replica |-> r, decision |-> q.decision,
         authentic |-> q.authentic, formed |-> q.formed, steady |-> TRUE,
         action |-> q.action, live |-> q.action, tool |-> q.tool, started |-> now,
         won |-> FALSE, scope |-> Scope(r)] \in CallType
    BY <2>2, <2>3 DEF CallType, PCs, Request
  <2>5. QED
    BY <1>1, <2>1, <2>4 DEF Start
<1>2. ASSUME NEW c \in Calls, CallerMutates(c)
      PROVE  TypeOK'
  <2>1. call[c] \in CallType
    BY <1>2, CallFields DEF CallerMutates, ActionMutates, DecisionMutates, Active
  <2>2. \A q \in Rewrites :
          /\ [call[c] EXCEPT !.live = q.action] \in CallType
          /\ [call[c] EXCEPT !.decision = q.decision, !.authentic = q.authentic,
                             !.formed = q.formed, !.steady = call[c].pc = "verify"] \in CallType
    BY <2>1, PepAssumption DEF CallType, Request
  <2>3. \E k \in CallType : call' = [call EXCEPT ![c] = k]
    <3>1. CASE ActionMutates(c)
      BY <2>2, <3>1 DEF ActionMutates
    <3>2. CASE DecisionMutates(c)
      <4>1. PICK q \in Rewrites :
              call' = [call EXCEPT ![c] =
                [call[c] EXCEPT !.decision = q.decision, !.authentic = q.authentic,
                                !.formed = q.formed, !.steady = call[c].pc = "verify"]]
        BY <3>2 DEF DecisionMutates
      <4> QED
        BY <2>2, <4>1
    <3> QED
      BY <1>2, <3>1, <3>2 DEF CallerMutates
  <2>4. call' \in [Calls -> {NoCall} \cup CallType]
    BY <2>3
  <2>5. UNCHANGED <<kind, now, epoch, spent, log, effects>>
    BY <1>2 DEF CallerMutates, ActionMutates, DecisionMutates
  <2>6. QED
    BY <2>4, <2>5
<1>3. ASSUME NEW c \in Calls, Check(c)
      PROVE  TypeOK'
  <2>1. call[c] \in CallType
    BY <1>3, CallFields DEF Check
  <2>2. Ended(call[c], "raised") \in CallType
    BY <2>1, EndedIsCall DEF Finished
  <2>3. /\ [call[c] EXCEPT !.pc = "spend"] \in CallType
        /\ [call[c] EXCEPT !.pc = "refuse"] \in CallType
    BY <2>1 DEF CallType, PCs
  <2>4. QED
    BY <1>3, <2>2, <2>3 DEF Check
<1>14. ASSUME NEW c \in Calls, Verify(c) \/ Freeze(c)
       PROVE  TypeOK'
  <2>1. call[c] \in CallType
    BY <1>14, CallFields DEF Verify, Freeze
  <2>2. Ended(call[c], "raised") \in CallType
    BY <2>1, EndedIsCall DEF Finished
  <2>3. \A pc \in {"freeze", "check", "refuse"} : [call[c] EXCEPT !.pc = pc] \in CallType
    BY <2>1 DEF CallType, PCs
  <2>4. QED
    BY <1>14, <2>2, <2>3 DEF Verify, Freeze
<1>4. ASSUME NEW c \in Calls, SpendFirst(c) \/ SpendBurnt(c)
      PROVE  TypeOK'
  <2>1. call[c] \in CallType
    BY <1>4, CallFields DEF SpendFirst, SpendBurnt
  <2>2. <<call[c].scope, call[c].decision.token>> \in Scopes \X (Tokens \cup {NoToken})
    BY <2>1, PepAssumption DEF CallType, Decision
  <2>3. /\ [call[c] EXCEPT !.pc = "commit", !.won = TRUE] \in CallType
        /\ [call[c] EXCEPT !.pc = "refuse"] \in CallType
    BY <2>1 DEF CallType, PCs
  <2>4. spent' \subseteq Scopes \X (Tokens \cup {NoToken})
    BY <1>4, <2>2 DEF SpendFirst, SpendBurnt
  <2>5. QED
    BY <1>4, <2>3, <2>4 DEF SpendFirst, SpendBurnt
<1>5. ASSUME NEW c \in Calls, SpendReplay(c) \/ SpendUnavailable(c)
      PROVE  TypeOK'
  <2>1. call[c] \in CallType
    BY <1>5, CallFields DEF SpendReplay, SpendUnavailable
  <2>2. [call[c] EXCEPT !.pc = "refuse"] \in CallType
    BY <2>1 DEF CallType, PCs
  <2>3. QED
    BY <1>5, <2>2 DEF SpendReplay, SpendUnavailable
<1>6. ASSUME NEW c \in Calls, Refuse(c)
      PROVE  TypeOK'
  <2>1. Ended(call[c], "refused") \in CallType
    BY <1>6, CallFields, EndedIsCall DEF Refuse, Finished
  <2>2. QED
    BY <1>6, <2>1 DEF Refuse
<1>7. ASSUME NEW c \in Calls, Commit(c)
      PROVE  TypeOK'
  <2>1. call[c] \in CallType
    BY <1>7, CallFields DEF Commit
  <2>2. [call[c] EXCEPT !.pc = "run"] \in CallType
    BY <2>1 DEF CallType, PCs
  <2>3. QED
    BY <1>7, <2>2 DEF Commit
<1>8. ASSUME NEW c \in Calls, AuditFails(c)
      PROVE  TypeOK'
  <2>1. Ended(call[c], "sink_failed") \in CallType
    BY <1>8, CallFields, EndedIsCall DEF AuditFails, Finished
  <2>2. log' \in [Calls -> Seq({"executed", "refused"})]
    BY <1>8 DEF AuditFails
  <2>3. QED
    BY <1>8, <2>1, <2>2 DEF AuditFails
<1>9. ASSUME NEW c \in Calls, Run(c)
      PROVE  TypeOK'
  <2>1. call[c] \in CallType
    BY <1>9, CallFields DEF Run
  <2>2. Ended(call[c], "ran") \in CallType
    BY <2>1, EndedIsCall DEF Finished
  <2>3. [call |-> c, token |-> call[c].decision.token, action |-> call[c].action,
         minimized |-> call[c].decision.minimized, scope |-> call[c].scope] \in EffectType
    BY <2>1, PepAssumption DEF CallType, Decision, EffectType
  <2>4. QED
    BY <1>9, <2>2, <2>3 DEF Run
<1>10. ASSUME NEW c \in Calls, ToolRaises(c)
       PROVE  TypeOK'
  <2>1. Ended(call[c], "raised") \in CallType
    BY <1>10, CallFields, EndedIsCall DEF ToolRaises, Finished
  <2>2. QED
    BY <1>10, <2>1 DEF ToolRaises
<1>11. ASSUME NEW r \in Replicas, Crash(r)
       PROVE  TypeOK'
  <2>1. ASSUME NEW c \in Calls
        PROVE  call'[c] \in {NoCall} \cup CallType
    <3>1. CASE Active(c) /\ call[c].replica = r
      BY <1>11, <3>1, CallFields, EndedIsCall DEF Crash, Active, Finished
    <3>2. CASE ~(Active(c) /\ call[c].replica = r)
      BY <1>11, <3>2 DEF Crash
    <3>3. QED
      BY <3>1, <3>2
  <2>2. call' \in [Calls -> {NoCall} \cup CallType]
    BY <1>11, <2>1 DEF Crash
  <2>3. QED
    BY <1>11, <2>2 DEF Crash
<1>12. CASE Tick
  BY <1>12 DEF Tick
<1>13. CASE UNCHANGED vars
  BY <1>13 DEF vars
<1>15. QED
  BY NextCases, <1>1, <1>2, <1>3, <1>4, <1>5, <1>6, <1>7, <1>8, <1>9, <1>10, <1>11,
     <1>12, <1>13, <1>14

(* Type correctness.                                                       *)
THEOREM TypeCorrect == Spec => []TypeOK
<1>1. Init => TypeOK
  BY DEF Init, TypeOK
<1>2. TypeOK /\ [Next]_vars => TypeOK'
  BY TypeStep
<1>3. QED
  BY <1>1, <1>2, PTL DEF Spec

-----------------------------------------------------------------------------
(* What a step does to a call that has begun: what it was started with     *)
(* never changes, but for its decision until that is frozen; a won spend is*)
(* never lost, and it never becomes idle.                                  *)
Bound(k, l) ==
  /\ l.tool = k.tool /\ l.action = k.action /\ l.started = k.started /\ l.scope = k.scope

Kept(k, l) ==
  /\ Bound(k, l)
  /\ l.decision = k.decision /\ l.authentic = k.authentic
  /\ l.formed = k.formed /\ l.steady = k.steady

Rewritten(k, l) ==
  /\ Bound(k, l) /\ Genuine(l)
  /\ k.pc \in {"verify", "freeze"} /\ l.pc = k.pc /\ l.won = k.won
  /\ k.pc = "freeze" => ~l.steady

LEMMA EndedKeeps ==
  ASSUME NEW k \in CallType, NEW pc \in Finished
  PROVE  Ended(k, pc).pc = pc /\ Ended(k, pc).won = k.won /\ Kept(k, Ended(k, pc))
BY DEF Ended, CallType, Kept, Bound

(* The moves of one call's program counter, other than a crash.            *)
Moves == { <<"verify", "freeze">>, <<"verify", "refuse">>, <<"verify", "raised">>,
           <<"freeze", "check">>, <<"freeze", "refuse">>, <<"freeze", "raised">>,
           <<"check", "raised">>, <<"check", "spend">>, <<"check", "refuse">>,
           <<"spend", "commit">>, <<"spend", "refuse">>,
           <<"refuse", "refused">>, <<"refuse", "sink_failed">>,
           <<"commit", "run">>, <<"commit", "sink_failed">>,
           <<"run", "ran">>, <<"run", "raised">> }

(* A crash aside, a call moves along Moves, and it wins by spending.       *)
LEMMA CallMoves ==
  ASSUME TypeOK, Next, NEW d \in Calls, call[d].pc # "idle"
  PROVE  /\ Kept(call[d], call'[d]) \/ Rewritten(call[d], call'[d])
         /\ \/ call'[d].pc = call[d].pc
            \/ <<call[d].pc, call'[d].pc>> \in Moves
            \/ Active(d) /\ call'[d].pc = "crashed"
         /\ call'[d].won = IF call[d].pc = "spend" /\ call'[d].pc = "commit" THEN TRUE
                                                                          ELSE call[d].won
<1> DEFINE Goal == /\ Kept(call[d], call'[d]) \/ Rewritten(call[d], call'[d])
                   /\ \/ call'[d].pc = call[d].pc
                      \/ <<call[d].pc, call'[d].pc>> \in Moves
                      \/ Active(d) /\ call'[d].pc = "crashed"
                   /\ call'[d].won = IF call[d].pc = "spend" /\ call'[d].pc = "commit"
                                     THEN TRUE ELSE call[d].won
<1>1. call[d] \in CallType
  BY CallFields
<1>2. \A pc \in Finished : /\ Ended(call[d], pc).pc = pc
                            /\ Ended(call[d], pc).won = call[d].won
                            /\ Kept(call[d], Ended(call[d], pc))
  BY <1>1, EndedKeeps
<1>3. Kept(call[d], call[d])
  BY DEF Kept, Bound
<1>13. ASSUME NEW pc, <<call[d].pc, pc>> \in Moves,
              <<call[d].pc, pc>> # <<"spend", "commit">>,
              call'[d] = [call[d] EXCEPT !.pc = pc]
       PROVE  Goal
  <2>1. /\ Kept(call[d], call'[d])
        /\ call'[d].pc = pc /\ call'[d].won = call[d].won
    BY <1>1, <1>13 DEF CallType, Kept, Bound
  <2>2. QED
    BY <1>13, <2>1
<1>4. ASSUME NEW c \in Calls, Start(c)
      PROVE  Goal
  BY <1>3, <1>4 DEF Start, TypeOK
<1>5. ASSUME NEW c \in Calls, ActionMutates(c)
      PROVE  Goal
  <2>1. PICK q \in Rewrites : call' = [call EXCEPT ![c].live = q.action]
    BY <1>5 DEF ActionMutates
  <2>2. call'[d] = IF d = c THEN [call[d] EXCEPT !.live = q.action] ELSE call[d]
    BY <2>1 DEF TypeOK
  <2>3. QED
    BY <1>1, <1>3, <2>2 DEF CallType, Kept, Bound
<1>14. ASSUME NEW c \in Calls, DecisionMutates(c)
       PROVE  Goal
  <2>1. call[c].pc \in {"verify", "freeze"}
    BY <1>14 DEF DecisionMutates
  <2>2. PICK q \in Rewrites :
          call' = [call EXCEPT ![c].decision = q.decision, ![c].authentic = q.authentic,
                               ![c].formed = q.formed, ![c].steady = call[c].pc = "verify"]
    BY <1>14 DEF DecisionMutates
  <2>3. Genuine(q)
    BY PepAssumption
  <2>4. CASE c = d
    <3>1. call'[d] = [call[d] EXCEPT !.decision = q.decision, !.authentic = q.authentic,
                                     !.formed = q.formed, !.steady = call[d].pc = "verify"]
      BY <2>2, <2>4 DEF TypeOK
    <3>2. /\ Bound(call[d], call'[d])
          /\ call'[d].pc = call[d].pc /\ call'[d].won = call[d].won
          /\ call'[d].decision = q.decision /\ call'[d].authentic = q.authentic
          /\ call'[d].formed = q.formed /\ call'[d].steady = (call[d].pc = "verify")
      BY <1>1, <3>1 DEF CallType, Bound
    <3>3. QED
      BY <2>1, <2>3, <2>4, <3>2 DEF Rewritten, Genuine
  <2>5. CASE c # d
    BY <1>3, <2>2, <2>5 DEF TypeOK
  <2>6. QED
    BY <2>4, <2>5
<1>6. ASSUME NEW c \in Calls, Verify(c) \/ Freeze(c) \/ Check(c)
      PROVE  Goal
  <2>1. \/ call'[d] = call[d]
        \/ \E pc \in {"freeze", "check", "spend", "refuse"} :
             <<call[d].pc, pc>> \in Moves /\ call'[d] = [call[d] EXCEPT !.pc = pc]
        \/ <<call[d].pc, "raised">> \in Moves /\ call'[d] = Ended(call[d], "raised")
    BY <1>6 DEF Verify, Freeze, Check, TypeOK, Moves
  <2>2. CASE call'[d] = call[d]
    BY <1>3, <2>2
  <2>3. CASE \E pc \in {"freeze", "check", "spend", "refuse"} :
               <<call[d].pc, pc>> \in Moves /\ call'[d] = [call[d] EXCEPT !.pc = pc]
    <3>1. PICK pc \in {"freeze", "check", "spend", "refuse"} :
            <<call[d].pc, pc>> \in Moves /\ call'[d] = [call[d] EXCEPT !.pc = pc]
      BY <2>3
    <3> HIDE DEF Goal
    <3>2. QED
      BY <1>13, <3>1
  <2>4. CASE <<call[d].pc, "raised">> \in Moves /\ call'[d] = Ended(call[d], "raised")
    BY <1>2, <2>4 DEF Finished
  <2>5. QED
    BY <2>1, <2>2, <2>3, <2>4
<1>7. ASSUME NEW c \in Calls,
             SpendFirst(c) \/ SpendBurnt(c) \/ SpendReplay(c) \/ SpendUnavailable(c)
      PROVE  Goal
  <2>1. \/ call'[d] = call[d]
        \/ /\ call[d].pc = "spend"
           /\ \/ call'[d] = [call[d] EXCEPT !.pc = "commit", !.won = TRUE]
              \/ call'[d] = [call[d] EXCEPT !.pc = "refuse"]
    BY <1>7 DEF SpendFirst, SpendBurnt, SpendReplay, SpendUnavailable, TypeOK
  <2>2. CASE call'[d] = [call[d] EXCEPT !.pc = "commit", !.won = TRUE] /\ call[d].pc = "spend"
    BY <1>1, <2>2 DEF CallType, Kept, Bound, Moves
  <2>3. CASE call'[d] = [call[d] EXCEPT !.pc = "refuse"] /\ call[d].pc = "spend"
    BY <1>1, <2>3 DEF CallType, Kept, Bound, Moves
  <2>4. CASE call'[d] = call[d]
    BY <1>3, <2>4
  <2>5. QED
    BY <2>1, <2>2, <2>3, <2>4
<1>8. ASSUME NEW c \in Calls, Refuse(c) \/ AuditFails(c)
      PROVE  Goal
  BY <1>1, <1>2, <1>3, <1>8 DEF Refuse, AuditFails, TypeOK, Moves, Finished
<1>9. ASSUME NEW c \in Calls, Commit(c)
      PROVE  Goal
  BY <1>1, <1>3, <1>9 DEF Commit, TypeOK, CallType, Kept, Bound, Moves
<1>10. ASSUME NEW c \in Calls, Run(c) \/ ToolRaises(c)
       PROVE  Goal
  BY <1>1, <1>2, <1>3, <1>10 DEF Run, ToolRaises, TypeOK, Moves, Finished
<1>11. ASSUME NEW r \in Replicas, Crash(r)
       PROVE  Goal
  BY <1>2, <1>3, <1>11 DEF Crash, Finished
<1>12. ASSUME Tick
       PROVE  Goal
  BY <1>3, <1>12 DEF Tick
<1> HIDE DEF Goal
<1>15. Goal
  BY NextCases, <1>4, <1>5, <1>6, <1>7, <1>8, <1>9, <1>10, <1>11, <1>12, <1>14 DEF CallerMutates
<1>16. QED
  BY <1>15 DEF Goal

(* A step leaves what a call was started with, and its decision once that  *)
(* is frozen or whenever the call moves on.                                *)
LEMMA CallBound ==
  ASSUME TypeOK, Next, NEW d \in Calls, call[d].pc # "idle"
  PROVE  Bound(call[d], call'[d])
BY CallMoves DEF Kept, Rewritten

LEMMA CallKept ==
  ASSUME TypeOK, Next, NEW d \in Calls, call[d].pc # "idle",
         call[d].pc \notin Early \/ call'[d].pc # call[d].pc
  PROVE  Kept(call[d], call'[d])
BY CallMoves DEF Rewritten, Early

(* The caller's own steps move no call.                                    *)
LEMMA MutationMovesNone ==
  ASSUME TypeOK, NEW c \in Calls, CallerMutates(c), NEW d \in Calls
  PROVE  call'[d].pc = call[d].pc /\ call'[d].won = call[d].won
<1>1. call[c] \in CallType
  BY CallFields DEF CallerMutates, ActionMutates, DecisionMutates, Active
<1>2. CASE ActionMutates(c)
  BY <1>1, <1>2 DEF ActionMutates, TypeOK, CallType
<1>3. CASE DecisionMutates(c)
  <2>1. PICK q \in Rewrites :
          call' = [call EXCEPT ![c].decision = q.decision, ![c].authentic = q.authentic,
                               ![c].formed = q.formed, ![c].steady = call[c].pc = "verify"]
    BY <1>3 DEF DecisionMutates
  <2>2. \/ call'[d] = call[d]
        \/ /\ d = c
           /\ call'[d] = [call[d] EXCEPT !.decision = q.decision, !.authentic = q.authentic,
                                         !.formed = q.formed, !.steady = call[d].pc = "verify"]
    BY <2>1 DEF TypeOK
  <2>3. QED
    BY <1>1, <2>2 DEF CallType
<1>4. QED
  BY <1>2, <1>3 DEF CallerMutates

(* From verify() on a call is steady only if its decision is the verified  *)
(* one, and nothing but verify() lets it on.                               *)
LEMMA FrozenMoves ==
  ASSUME TypeOK, Next, NEW d \in Calls, call[d].pc = "verify", call'[d].pc = "freeze"
  PROVE  call[d].authentic
<1>1. call[d] \in CallType
  BY CallFields
<1>2. ASSUME NEW c \in Calls, c # d, CallerMutates(c) \/ Execute(c) \/ Start(c)
      PROVE  FALSE
  BY <1>2 DEF CallerMutates, ActionMutates, DecisionMutates, Execute, Spend, Finish, Start, Verify,
              Freeze, Check, SpendFirst, SpendReplay, SpendUnavailable, SpendBurnt, Refuse, Commit,
              AuditFails, Run, ToolRaises, TypeOK
<1>3. ~CallerMutates(d)
  BY MutationMovesNone
<1>4. ASSUME NEW r \in Replicas, Crash(r)
      PROVE  FALSE
  BY <1>1, <1>4, EndedKeeps DEF Crash, Finished
<1>5. ~Tick
  BY DEF Tick
<1>6. Execute(d) => Verify(d)
  BY DEF Execute, Spend, Finish, Freeze, Check, SpendFirst, SpendReplay, SpendUnavailable,
         SpendBurnt, Refuse, Commit, AuditFails, Run, ToolRaises
<1>7. Verify(d)
  BY <1>2, <1>3, <1>4, <1>5, <1>6 DEF Next, Start
<1>8. Ended(call[d], "raised").pc = "raised" /\ [call[d] EXCEPT !.pc = "refuse"].pc = "refuse"
  BY <1>1, EndedKeeps DEF Finished, CallType
<1>9. QED
  BY <1>7, <1>8 DEF Verify, TypeOK

(* A call that has not begun stays as it is or begins, and then it has not *)
(* won anything.                                                           *)
LEMMA IdleMoves ==
  ASSUME TypeOK, Next, NEW d \in Calls, call[d].pc = "idle"
  PROVE  \/ call'[d] = call[d]
         \/ call'[d].pc = "verify" /\ ~call'[d].won /\ call'[d].started = now
            /\ Genuine(call'[d])
<1>1. ASSUME NEW c \in Calls, Start(c)
      PROVE  \/ call'[d] = call[d]
             \/ call'[d].pc = "verify" /\ ~call'[d].won /\ call'[d].started = now
                /\ Genuine(call'[d])
  <2>1. PICK r \in Replicas, q \in Requests :
          call' = [call EXCEPT ![c] =
            [pc |-> "verify", replica |-> r, decision |-> q.decision,
             authentic |-> q.authentic, formed |-> q.formed, steady |-> TRUE,
             action |-> q.action, live |-> q.action, tool |-> q.tool, started |-> now,
             won |-> FALSE, scope |-> Scope(r)]]
    BY <1>1 DEF Start
  <2>2. Genuine(q)
    BY PepAssumption
  <2>3. CASE c = d
    BY <2>1, <2>2, <2>3 DEF TypeOK, Genuine
  <2>4. CASE c # d
    <3>1. call'[d] = call[d]
      BY <2>1, <2>4 DEF TypeOK
    <3>2. QED
      BY <3>1
  <2>5. QED
    BY <2>3, <2>4
<1>2. ASSUME NEW c \in Calls,
             \/ CallerMutates(c) \/ Verify(c) \/ Freeze(c) \/ Check(c)
             \/ SpendFirst(c) \/ SpendReplay(c) \/ SpendUnavailable(c) \/ SpendBurnt(c)
             \/ Refuse(c) \/ Commit(c) \/ AuditFails(c) \/ Run(c) \/ ToolRaises(c)
      PROVE  call'[d] = call[d]
  <2>1. c # d
    BY <1>2 DEF CallerMutates, ActionMutates, DecisionMutates, Active, Verify, Freeze, Check,
       SpendFirst, SpendReplay, SpendUnavailable, SpendBurnt, Refuse, Commit, AuditFails, Run,
       ToolRaises
  <2>2. QED
    BY <1>2, <2>1 DEF CallerMutates, ActionMutates, DecisionMutates, Verify, Freeze, Check,
       SpendFirst, SpendReplay, SpendUnavailable, SpendBurnt, Refuse, Commit, AuditFails, Run,
       ToolRaises, TypeOK
<1>3. ASSUME NEW r \in Replicas, Crash(r)
      PROVE  call'[d] = call[d]
  BY <1>3 DEF Crash, Active
<1>4. ASSUME Tick
      PROVE  call'[d] = call[d]
  BY <1>4 DEF Tick
<1>5. QED
  BY NextCases, <1>1, <1>2, <1>3, <1>4

(* Stores only grow, and whoever moves from "spend" to "commit" put its    *)
(* mark there in that very step, alone.                                    *)
LEMMA SpendIsAtomic ==
  ASSUME TypeOK, Next
  PROVE  /\ spent \subseteq spent'
         /\ \A d \in Calls : call[d].pc = "spend" /\ call'[d].pc = "commit" =>
              /\ Mark(d) \notin spent
              /\ Mark(d) \in spent'
              /\ \A c \in Calls \ {d} : call'[c] = call[c]
<1>1. ASSUME NEW c \in Calls, SpendFirst(c)
      PROVE  /\ spent \subseteq spent'
             /\ Mark(c) \notin spent /\ Mark(c) \in spent'
             /\ \A d \in Calls \ {c} : call'[d] = call[d]
  BY <1>1 DEF SpendFirst, Mark, TypeOK
<1>2. ASSUME NEW c \in Calls, SpendBurnt(c) \/ SpendReplay(c) \/ SpendUnavailable(c)
      PROVE  /\ spent \subseteq spent'
             /\ \A d \in Calls : call'[d] = call[d] \/ call'[d].pc = "refuse"
  <2>1. \A d \in Calls : call[d].pc = "spend" => call[d] \in CallType
    BY CallFields
  <2>2. QED
    BY <1>2, <2>1 DEF SpendBurnt, SpendReplay, SpendUnavailable, TypeOK, CallType
<1>3. ASSUME \/ \E c \in Calls : \/ Start(c) \/ CallerMutates(c) \/ Verify(c) \/ Freeze(c) \/ Check(c) \/ Refuse(c)
                               \/ Commit(c) \/ AuditFails(c) \/ Run(c) \/ ToolRaises(c)
             \/ \E r \in Replicas : Crash(r)
             \/ Tick
      PROVE  spent' = spent
  BY <1>3 DEF Start, CallerMutates, ActionMutates, DecisionMutates, Verify, Freeze, Check,
     Refuse, Commit, AuditFails, Run, ToolRaises, Crash, Tick
<1>4. ASSUME NEW d \in Calls, call[d].pc = "spend", call'[d].pc = "commit"
      PROVE  SpendFirst(d)
  <2>1. call[d] \in CallType
    BY <1>4, CallFields
  <2>2. ASSUME NEW c \in Calls,
               \/ Start(c) \/ CallerMutates(c) \/ Verify(c) \/ Freeze(c) \/ Check(c)
               \/ Refuse(c) \/ Commit(c) \/ AuditFails(c) \/ Run(c) \/ ToolRaises(c)
        PROVE  FALSE
    <3>1. c # d \/ CallerMutates(c)
      BY <1>4, <2>2 DEF Start, Verify, Freeze, Check, Refuse, Commit, AuditFails, Run, ToolRaises
    <3>2. CASE CallerMutates(c)
      BY <1>4, <3>2, MutationMovesNone
    <3>3. CASE c # d
      BY <1>4, <2>2, <3>3 DEF Start, CallerMutates, ActionMutates, DecisionMutates, Verify,
         Freeze, Check, Refuse, Commit, AuditFails, Run, ToolRaises, TypeOK
    <3>4. QED
      BY <3>1, <3>2, <3>3
  <2>3. ASSUME NEW r \in Replicas, Crash(r)
        PROVE  FALSE
    <3>1. Ended(call[d], "crashed").pc = "crashed"
      BY <2>1, EndedKeeps DEF Finished
    <3>2. QED
      BY <1>4, <2>3, <3>1 DEF Crash
  <2>4. ~Tick
    BY <1>4 DEF Tick
  <2>5. ASSUME NEW c \in Calls, SpendFirst(c)
        PROVE  c = d
    BY <1>4, <2>5 DEF SpendFirst, TypeOK
  <2>6. QED
    BY NextCases, <1>2, <1>4, <2>2, <2>3, <2>4, <2>5
<1>5. QED
  BY NextCases, <1>1, <1>2, <1>3, <1>4

LEMMA OwnershipStep ==
  ASSUME TypeOK, Ownership, Next
  PROVE  Ownership'
<1>1. ASSUME NEW c \in Calls, call'[c].won
      PROVE  /\ call'[c].pc \notin Early /\ Mark(c)' \in spent'
             /\ Mark(c)' = Mark(c)
             /\ call[c].won \/ (call[c].pc = "spend" /\ call'[c].pc = "commit")
  <2>1. call[c].pc # "idle"
    BY <1>1, IdleMoves DEF Ownership, Early
  <2>3. call[c].won \/ (call[c].pc = "spend" /\ call'[c].pc = "commit")
    BY <1>1, <2>1, CallMoves
  <2>6. call[c].pc \notin Early
    BY <2>3 DEF Ownership, Early
  <2>2. Mark(c)' = Mark(c)
    BY <2>1, <2>6, CallKept DEF Kept, Bound, Mark
  <2>4. call'[c].pc \notin Early
    BY <2>1, <2>6, CallMoves DEF Moves, Early
  <2>5. QED
    BY <2>2, <2>3, <2>4, SpendIsAtomic DEF Ownership
<1>2. ASSUME NEW c \in Calls, call'[c].pc \in {"commit", "run", "ran"}
      PROVE  call'[c].won
  <2>1. call[c].pc # "idle"
    BY <1>2, IdleMoves
  <2>2. QED
    BY <1>2, <2>1, CallMoves DEF Moves, Ownership
<1>3. ASSUME NEW c \in Calls, NEW d \in Calls,
             call'[c].won, call'[d].won, Mark(c)' = Mark(d)'
      PROVE  c = d
  <2>1. CASE call[c].won /\ call[d].won
    BY <1>1, <1>3, <2>1 DEF Ownership
  <2>2. CASE call[c].pc = "spend" /\ call'[c].pc = "commit"
    BY <1>1, <1>3, <2>2, SpendIsAtomic DEF Ownership
  <2>3. CASE call[d].pc = "spend" /\ call'[d].pc = "commit"
    BY <1>1, <1>3, <2>3, SpendIsAtomic DEF Ownership
  <2>4. QED
    BY <1>1, <1>3, <2>1, <2>2, <2>3
<1>4. QED
  BY <1>1, <1>2, <1>3 DEF Ownership

-----------------------------------------------------------------------------
(* What the clock, the log, the stores and the effects can do in one step. *)
LEMMA ClockMoves ==
  ASSUME TypeOK, Next
  PROVE  now' \in Nat /\ now <= now'
<1>1. ASSUME ~Tick
      PROVE  now' = now
  BY <1>1, NextCases DEF Start, CallerMutates, ActionMutates, DecisionMutates, Verify, Freeze,
     Check, SpendFirst, SpendReplay, SpendUnavailable, SpendBurnt, Refuse, Commit, AuditFails,
     Run, ToolRaises, Crash
<1>2. Tick => now' = now + 1
  BY DEF Tick
<1>3. QED
  BY <1>1, <1>2 DEF TypeOK

(* A call is let through to the spend only by Check(), past every gate.    *)
LEMMA CheckedByGates ==
  ASSUME TypeOK, Next, NEW d \in Calls, call[d].pc = "check", call'[d].pc = "spend"
  PROVE  Gates(call[d])
<1>1. call[d] \in CallType
  BY CallFields
<1>2. ASSUME NEW c \in Calls, Check(c)
      PROVE  Gates(call[d])
  <2>1. c = d
    BY <1>2 DEF Verify, Freeze, Check, TypeOK
  <2>2. Ended(call[d], "raised").pc = "raised"
    BY <1>1, EndedKeeps DEF Finished
  <2>3. [call[d] EXCEPT !.pc = "refuse"].pc = "refuse"
    BY <1>1 DEF CallType
  <2>4. QED
    BY <1>2, <2>1, <2>2, <2>3 DEF Verify, Freeze, Check, TypeOK
<1>3. ASSUME NEW c \in Calls, CallerMutates(c)
      PROVE  FALSE
  BY <1>3, MutationMovesNone
<1>4. ASSUME NEW c \in Calls,
             \/ Start(c) \/ Verify(c) \/ Freeze(c)
             \/ SpendFirst(c) \/ SpendReplay(c) \/ SpendUnavailable(c)
             \/ SpendBurnt(c) \/ Refuse(c) \/ Commit(c) \/ AuditFails(c) \/ Run(c)
             \/ ToolRaises(c)
      PROVE  FALSE
  <2>1. c # d
    BY <1>4 DEF Start, Verify, Freeze, SpendFirst, SpendReplay, SpendUnavailable, SpendBurnt,
                Refuse, Commit, AuditFails, Run, ToolRaises
  <2>2. QED
    BY <1>4, <2>1 DEF Start, Verify, Freeze, SpendFirst, SpendReplay, SpendUnavailable,
       SpendBurnt, Refuse, Commit, AuditFails, Run, ToolRaises, TypeOK
<1>5. ASSUME NEW r \in Replicas, Crash(r)
      PROVE  FALSE
  <2>1. Ended(call[d], "crashed").pc = "crashed"
    BY <1>1, EndedKeeps DEF Finished
  <2>2. QED
    BY <1>5, <2>1 DEF Crash
<1>6. ~Tick
  BY DEF Tick
<1>7. QED
  BY NextCases, <1>2, <1>3, <1>4, <1>5, <1>6

LEMMA GatesFirstStep ==
  ASSUME TypeOK, GatesFirst, Next
  PROVE  GatesFirst'
<1>1. ASSUME NEW c \in Calls, call'[c].pc # "idle"
      PROVE  call'[c].started <= now' /\ Genuine(call'[c])
  <2>1. CASE call[c].pc = "idle"
    BY <1>1, <2>1, IdleMoves, ClockMoves DEF TypeOK
  <2>2. CASE call[c].pc # "idle"
    <3>1. call'[c].started = call[c].started /\ call[c].started \in Nat
      BY <2>2, CallBound, CallFields DEF Bound, CallType
    <3>2. Genuine(call'[c])
      BY <2>2, CallMoves DEF GatesFirst, Kept, Rewritten, Genuine
    <3>3. QED
      BY <2>2, <3>1, <3>2, ClockMoves DEF GatesFirst, TypeOK
  <2>3. QED
    BY <2>1, <2>2
<1>2. ASSUME NEW c \in Calls, call'[c].pc \in {"freeze", "check"}, call'[c].steady
      PROVE  call'[c].authentic
  <2>1. call[c].pc # "idle"
    BY <1>2, IdleMoves
  <2>2. CASE Kept(call[c], call'[c])
    <3>1. \/ call[c].pc \in {"freeze", "check"}
          \/ call[c].pc = "verify" /\ call'[c].pc = "freeze"
      BY <1>2, <2>1, CallMoves DEF Moves
    <3>2. call[c].authentic
      BY <1>2, <2>1, <2>2, <3>1, FrozenMoves DEF GatesFirst, Kept
    <3>3. QED
      BY <2>2, <3>2 DEF Kept
  <2>3. CASE Rewritten(call[c], call'[c])
    BY <1>2, <2>3 DEF Rewritten
  <2>4. QED
    BY <2>1, <2>2, <2>3, CallMoves
<1>3. ASSUME NEW c \in Calls, call'[c].pc \in {"spend", "commit", "run", "ran"}
      PROVE  PassedGates(call'[c])
  <2>1. call[c].pc # "idle"
    BY <1>3, IdleMoves
  <2>2. \/ call[c].pc \in {"spend", "commit", "run", "ran"}
        \/ call[c].pc = "check" /\ call'[c].pc = "spend"
    BY <1>3, <2>1, CallMoves DEF Moves
  <2>3. Kept(call[c], call'[c])
    BY <2>1, <2>2, CallKept DEF Early
  <2>4. PassedGates(call[c])
    <3>1. CASE call[c].pc \in {"spend", "commit", "run", "ran"}
      BY <3>1 DEF GatesFirst
    <3>2. CASE call[c].pc = "check" /\ call'[c].pc = "spend"
      <4>1. Gates(call[c])
        BY <3>2, CheckedByGates
      <4>2. call[c].started \in Nat /\ call[c].decision.expires \in Nat
        BY <2>1, CallFields DEF CallType, Decision
      <4>3. call[c].started < call[c].decision.expires
        BY <2>1, <4>1, <4>2 DEF Gates, GatesFirst, TypeOK
      <4>4. call[c].steady => call[c].authentic
        BY <3>2 DEF GatesFirst
      <4>5. QED
        BY <4>1, <4>3, <4>4 DEF Gates, PassedGates
    <3>3. QED
      BY <2>2, <3>1, <3>2
  <2>5. QED
    BY <2>3, <2>4 DEF Kept, Bound, PassedGates
<1>4. QED
  BY <1>1, <1>2, <1>3 DEF GatesFirst

(* Only a record() writes to the log, and what it writes says which branch *)
(* of execute() the call took.                                             *)
LEMMA LogMoves ==
  ASSUME TypeOK, Next, NEW d \in Calls
  PROVE  \/ /\ log'[d] = log[d]
            /\ <<call[d].pc, call'[d].pc>> \notin {<<"refuse", "refused">>, <<"commit", "run">>}
         \/ /\ log'[d] = Append(log[d], "refused")
            /\ call[d].pc = "refuse" /\ call'[d].pc \in {"refused", "sink_failed"}
         \/ /\ log'[d] = Append(log[d], "executed")
            /\ call[d].pc = "commit" /\ call'[d].pc \in {"run", "sink_failed"}
<1> DEFINE Silent == /\ log'[d] = log[d]
                     /\ <<call[d].pc, call'[d].pc>>
                          \notin {<<"refuse", "refused">>, <<"commit", "run">>}
           Refused == /\ log'[d] = Append(log[d], "refused")
                      /\ call[d].pc = "refuse" /\ call'[d].pc \in {"refused", "sink_failed"}
           Executed == /\ log'[d] = Append(log[d], "executed")
                       /\ call[d].pc = "commit" /\ call'[d].pc \in {"run", "sink_failed"}
           Goal == Silent \/ Refused \/ Executed
<1>1. ASSUME call[d].pc # "idle", NEW pc \in Finished
      PROVE  Ended(call[d], pc).pc = pc
  BY <1>1, CallFields, EndedKeeps
<1>2. ASSUME NEW c \in Calls, Refuse(c)
      PROVE  Goal
  BY <1>1, <1>2 DEF Refuse, TypeOK, Finished
<1>3. ASSUME NEW c \in Calls, Commit(c)
      PROVE  Goal
  <2>1. call[c] \in CallType
    BY <1>3, CallFields DEF Commit
  <2>2. QED
    BY <1>3, <2>1 DEF Commit, TypeOK, CallType
<1>4. ASSUME NEW c \in Calls, AuditFails(c)
      PROVE  Goal
  <2>1. call'[d] = IF c = d THEN Ended(call[d], "sink_failed") ELSE call[d]
    BY <1>4 DEF AuditFails, TypeOK
  <2>2. c = d => call[d].pc \in {"refuse", "commit"} /\ call'[d].pc = "sink_failed"
    BY <1>1, <1>4, <2>1 DEF AuditFails, Finished
  <2>3. c # d => log'[d] = log[d] /\ call'[d].pc = call[d].pc
    BY <1>4, <2>1 DEF AuditFails, TypeOK
  <2>4. c = d => \/ log'[d] = log[d]
                 \/ log'[d] = Append(log[d], IF call[d].pc = "commit" THEN "executed"
                                                                   ELSE "refused")
    BY <1>4 DEF AuditFails, TypeOK
  <2>5. QED
    BY <2>2, <2>3, <2>4
<1>5. ASSUME NEW c \in Calls,
             \/ Start(c) \/ CallerMutates(c) \/ Verify(c) \/ Freeze(c) \/ Check(c)
             \/ SpendFirst(c) \/ SpendReplay(c) \/ SpendUnavailable(c) \/ SpendBurnt(c)
             \/ Run(c) \/ ToolRaises(c)
      PROVE  Goal
  <2>1. log' = log
    BY <1>5 DEF Start, CallerMutates, ActionMutates, DecisionMutates, Verify, Freeze, Check,
       SpendFirst, SpendReplay, SpendUnavailable, SpendBurnt, Run, ToolRaises
  <2>2. call[c].pc \in {"refuse", "commit"} => CallerMutates(c)
    BY <1>5 DEF Start, Verify, Freeze, Check, SpendFirst, SpendReplay, SpendUnavailable,
       SpendBurnt, Run, ToolRaises
  <2>3. c # d => call'[d] = call[d]
    BY <1>5 DEF Start, CallerMutates, ActionMutates, DecisionMutates, Verify, Freeze, Check,
       SpendFirst, SpendReplay, SpendUnavailable, SpendBurnt, Run, ToolRaises, TypeOK
  <2>4. CallerMutates(d) => call'[d].pc = call[d].pc
    BY MutationMovesNone
  <2>5. QED
    BY <2>1, <2>2, <2>3, <2>4
<1>6. ASSUME NEW r \in Replicas, Crash(r)
      PROVE  Goal
  BY <1>1, <1>6 DEF Crash, Active, Finished
<1>7. ASSUME Tick
      PROVE  Goal
  BY <1>7 DEF Tick
<1> HIDE DEF Goal
<1>8. Goal
  BY NextCases, <1>2, <1>3, <1>4, <1>5, <1>6, <1>7
<1>9. QED
  BY <1>8 DEF Goal

LEMMA LogFollowsStep ==
  ASSUME TypeOK, LogFollows, Next
  PROVE  LogFollows'
<1> SUFFICES ASSUME NEW c \in Calls
             PROVE  /\ call'[c].pc \in {"idle", "verify", "freeze", "check", "spend", "commit", "refuse"}
                         => log'[c] = <<>>
                    /\ call'[c].pc \in {"run", "ran"} => log'[c] = <<"executed">>
                    /\ call'[c].pc \in {"raised", "crashed"} => log'[c] \in {<<>>, <<"executed">>}
                    /\ call'[c].pc = "refused" => log'[c] = <<"refused">>
                    /\ log'[c] \in {<<>>, <<"executed">>, <<"refused">>}
  BY DEF LogFollows
<1>1. /\ call[c].pc \in {"idle", "verify", "freeze", "check", "spend", "commit", "refuse"}
           => log[c] = <<>>
      /\ call[c].pc \in {"run", "ran"} => log[c] = <<"executed">>
      /\ call[c].pc \in {"raised", "crashed"} => log[c] \in {<<>>, <<"executed">>}
      /\ call[c].pc = "refused" => log[c] = <<"refused">>
      /\ log[c] \in {<<>>, <<"executed">>, <<"refused">>}
  BY DEF LogFollows
<1>2. Append(<<>>, "refused") = <<"refused">> /\ Append(<<>>, "executed") = <<"executed">>
  OBVIOUS
<1>3. \/ call'[c].pc = call[c].pc
      \/ <<call[c].pc, call'[c].pc>> \in Moves
      \/ Active(c) /\ call'[c].pc = "crashed"
      \/ call[c].pc = "idle" /\ call'[c].pc = "verify"
  BY CallMoves, IdleMoves
<1>4. call[c].pc \in PCs
  BY DEF TypeOK, CallType, NoCall, PCs
<1>5. CASE log'[c] = log[c] /\ <<call[c].pc, call'[c].pc>>
                                  \notin {<<"refuse", "refused">>, <<"commit", "run">>}
  <2>1. CASE call'[c].pc = call[c].pc
    BY <1>1, <1>5, <2>1
  <2>2. CASE <<call[c].pc, call'[c].pc>> \in Moves
    BY <1>1, <1>5, <2>2 DEF Moves
  <2>3. CASE Active(c) /\ call'[c].pc = "crashed"
    BY <1>1, <1>4, <1>5, <2>3 DEF Active, PCs, Finished
  <2>4. CASE call[c].pc = "idle" /\ call'[c].pc = "verify"
    BY <1>1, <1>5, <2>4
  <2>5. QED
    BY <1>3, <2>1, <2>2, <2>3, <2>4
<1>6. CASE /\ log'[c] = Append(log[c], "refused")
           /\ call[c].pc = "refuse" /\ call'[c].pc \in {"refused", "sink_failed"}
  BY <1>1, <1>2, <1>6
<1>7. CASE /\ log'[c] = Append(log[c], "executed")
           /\ call[c].pc = "commit" /\ call'[c].pc \in {"run", "sink_failed"}
  BY <1>1, <1>2, <1>7
<1>8. QED
  BY LogMoves, <1>5, <1>6, <1>7

(* An effect is added only by the run of its call.                         *)
LEMMA EffectMoves ==
  ASSUME TypeOK, Next, NEW e \in effects' \ effects
  PROVE  \E c \in Calls :
           /\ e = [call |-> c, token |-> call[c].decision.token, action |-> call[c].action,
                   minimized |-> call[c].decision.minimized, scope |-> call[c].scope]
           /\ call[c].pc = "run" /\ call'[c].pc = "ran"
<1>1. ASSUME ~ \E c \in Calls : Run(c)
      PROVE  effects' = effects
  BY <1>1, NextCases DEF Start, CallerMutates, ActionMutates, DecisionMutates, Verify, Freeze,
     Check, SpendFirst, SpendReplay, SpendUnavailable, SpendBurnt, Refuse, Commit, AuditFails,
     ToolRaises, Crash, Tick
<1>2. PICK c \in Calls : Run(c)
  BY <1>1
<1>3. call[c] \in CallType
  BY <1>2, CallFields DEF Run
<1>4. call'[c].pc = "ran"
  BY <1>2, <1>3, EndedKeeps DEF Run, TypeOK, Finished
<1>5. QED
  BY <1>2, <1>4 DEF Run

LEMMA EffectsOwnedStep ==
  ASSUME TypeOK, EffectsOwned, Next
  PROVE  EffectsOwned'
<1> DEFINE Owned(e, k) == /\ k.pc = "ran"
                          /\ e.token = k.decision.token /\ e.scope = k.scope
                          /\ e.action = k.action /\ e.minimized = k.decision.minimized
<1>1. ASSUME NEW e \in effects
      PROVE  Owned(e, call'[e.call])
  <2>1. e.call \in Calls /\ Owned(e, call[e.call])
    BY DEF EffectsOwned, TypeOK, EffectType
  <2>2. Kept(call[e.call], call'[e.call]) /\ call'[e.call].pc = "ran"
    BY <2>1, CallMoves, CallKept DEF Moves, Active, Finished, Early
  <2>3. QED
    BY <2>1, <2>2 DEF Kept, Bound
<1>2. ASSUME NEW e \in effects' \ effects
      PROVE  Owned(e, call'[e.call])
  <2>1. PICK c \in Calls :
          /\ e = [call |-> c, token |-> call[c].decision.token, action |-> call[c].action,
                  minimized |-> call[c].decision.minimized, scope |-> call[c].scope]
          /\ call[c].pc = "run" /\ call'[c].pc = "ran"
    BY EffectMoves
  <2>2. Kept(call[c], call'[c])
    BY <2>1, CallKept
  <2>3. QED
    BY <2>1, <2>2 DEF Kept, Bound
<1>3. QED
  BY <1>1, <1>2 DEF EffectsOwned

(* A store only ever gains the mark of a call that is about to spend.      *)
LEMMA SpentMoves ==
  ASSUME TypeOK, Next, NEW s \in spent' \ spent
  PROVE  \E c \in Calls : call[c].pc = "spend" /\ s = Mark(c)
BY NextCases DEF Start, CallerMutates, ActionMutates, DecisionMutates, Verify, Freeze, Check,
   SpendFirst, SpendReplay, SpendUnavailable, SpendBurnt, Refuse, Commit, AuditFails, Run,
   ToolRaises, Crash, Tick, Mark

LEMMA SpentOnlyPastGatesStep ==
  ASSUME TypeOK, GatesFirst, SpentOnlyPastGates, Next
  PROVE  SpentOnlyPastGates'
<1> DEFINE Covers(k, s) ==
      /\ k.pc \notin Early
      /\ k.scope = s[1] /\ k.decision.token = s[2]
      /\ PassedGates(k)
<1>1. ASSUME NEW s \in spent'
      PROVE  \E c \in Calls : Covers(call[c], s)
  <2>1. CASE s \in spent
    BY <2>1 DEF SpentOnlyPastGates
  <2>2. CASE s \notin spent
    <3>1. PICK c \in Calls : call[c].pc = "spend" /\ s = Mark(c)
      BY <2>2, SpentMoves
    <3>2. PassedGates(call[c])
      BY <3>1 DEF GatesFirst
    <3>3. QED
      BY <3>1, <3>2 DEF Mark, Early
  <2>3. QED
    BY <2>1, <2>2
<1>2. ASSUME NEW s, NEW c \in Calls, Covers(call[c], s)
      PROVE  Covers(call'[c], s)
  <2>1. Kept(call[c], call'[c]) /\ call'[c].pc \notin Early
    BY <1>2, CallKept, CallMoves DEF Early, Moves
  <2>2. QED
    BY <1>2, <2>1 DEF Kept, Bound, PassedGates
<1>3. QED
  BY <1>1, <1>2 DEF SpentOnlyPastGates

(* The strengthened invariant holds of every reachable state.              *)
THEOREM Inductive == Spec => []IInv
<1>1. Init => IInv
  <2>1. ASSUME Init
        PROVE  IInv
    <3>1. TypeOK
      BY <2>1 DEF Init, TypeOK
    <3>2. \A c \in Calls : call[c].pc = "idle" /\ ~call[c].won /\ log[c] = <<>>
      BY <2>1 DEF Init, NoCall
    <3>3. QED
      BY <2>1, <3>1, <3>2 DEF Init, IInv, Ownership, GatesFirst, LogFollows, EffectsOwned,
                              SpentOnlyPastGates
  <2>2. QED
    BY <2>1
<1>2. IInv /\ [Next]_vars => IInv'
  <2>1. ASSUME IInv, Next
        PROVE  IInv'
    BY <2>1, TypeStep, OwnershipStep, GatesFirstStep, LogFollowsStep, EffectsOwnedStep,
       SpentOnlyPastGatesStep DEF IInv
  <2>2. ASSUME IInv, UNCHANGED vars
        PROVE  IInv'
    BY <2>2 DEF vars, IInv, TypeOK, Ownership, Mark, GatesFirst, LogFollows, EffectsOwned,
                SpentOnlyPastGates
  <2>3. QED
    BY <2>1, <2>2
<1>3. QED
  BY <1>1, <1>2, PTL DEF Spec

(* HB-1: no store lets two executions of one token through.                *)
THEOREM OneEffectPerToken == Spec => []AtMostOneEffect
<1>1. IInv => AtMostOneEffect
  <2>1. ASSUME IInv, NEW e \in effects, NEW f \in effects, e.token = f.token, e.scope = f.scope
        PROVE  e.call = f.call
    <3>1. e.call \in Calls /\ f.call \in Calls
      BY <2>1 DEF IInv, TypeOK, EffectType
    <3>2. /\ call[e.call].pc = "ran" /\ call[f.call].pc = "ran"
          /\ Mark(e.call) = Mark(f.call)
      BY <2>1 DEF IInv, EffectsOwned, Mark
    <3>3. call[e.call].won /\ call[f.call].won
      BY <2>1, <3>1, <3>2 DEF IInv, Ownership
    <3>4. QED
      BY <2>1, <3>1, <3>2, <3>3 DEF IInv, Ownership
  <2>2. QED
    BY <2>1 DEF AtMostOneEffect
<1>2. QED
  BY <1>1, Inductive, PTL

(* Every effect is within the decision that passed the gates, and that is  *)
(* one the kernel signed unless it changed between the verification and the*)
(* freezing.                                                               *)
THEOREM EffectsAuthorized == Spec => []EffectIsAuthorized
<1>1. IInv => EffectIsAuthorized
  <2> SUFFICES ASSUME IInv, NEW e \in effects
               PROVE  LET k == call[e.call]  d == k.decision IN
                      /\ d.token = e.token /\ d.token # NoToken
                      /\ d.verdict \in PERMITTING
                      /\ d.action = e.action
                      /\ d.minimized \/ d.verdict = "LIMIT" => e.minimized
                      /\ d.verdict = "CONTAIN" => d.sandboxed
                      /\ k.steady => d \in Decisions
    BY DEF EffectIsAuthorized
  <2>1. e.call \in Calls /\ call[e.call].pc = "ran"
    BY DEF IInv, TypeOK, EffectType, EffectsOwned
  <2>2. PassedGates(call[e.call]) /\ Genuine(call[e.call])
    BY <2>1 DEF IInv, GatesFirst
  <2>3. QED
    BY <2>2 DEF IInv, EffectsOwned, PassedGates, Permitted, Contained, Discharged, Genuine
<1>2. QED
  BY <1>1, Inductive, PTL

(* HB-3: no side effect without its one audit entry.                       *)
THEOREM EffectsAudited == Spec => []EffectIsAudited
<1>1. IInv => EffectIsAudited
  BY DEF IInv, TypeOK, EffectType, EffectsOwned, LogFollows, EffectIsAudited
<1>2. QED
  BY <1>1, Inductive, PTL

(* A token is spent only by a call that passed every other gate.           *)
THEOREM NothingBurntAtAGate == Spec => []SpentOnlyPastGates
<1>1. IInv => SpentOnlyPastGates
  BY DEF IInv
<1>2. QED
  BY <1>1, Inductive, PTL

(* A call whose refusal is in the log has no effect and no other entry.    *)
THEOREM RefusalsAreFinal == Spec => []RefusalIsFinal
<1>1. IInv => RefusalIsFinal
  <2>1. ASSUME IInv, NEW c \in Calls, NEW i \in DOMAIN log[c], log[c][i] = "refused"
        PROVE  log[c] = <<"refused">> /\ \A e \in effects : e.call # c
    <3>1. log[c] = <<"refused">>
      BY <2>1 DEF IInv, LogFollows
    <3>2. \A e \in effects : e.call \in Calls /\ log[e.call] = <<"executed">>
      BY <2>1 DEF IInv, TypeOK, EffectType, EffectsOwned, LogFollows
    <3>3. <<"refused">> # <<"executed">>
      OBVIOUS
    <3>4. QED
      BY <3>1, <3>2, <3>3
  <2>2. QED
    BY <2>1 DEF RefusalIsFinal
<1>2. QED
  BY <1>1, Inductive, PTL

-----------------------------------------------------------------------------
(* What the docstring says of the log, and what is true of it instead      *)

(* Only its tool's run or failure, its action or its decision ends a call  *)
(* like this.                                                              *)
LEMMA EndsOfATool ==
  ASSUME TypeOK, Next, NEW c \in Calls, call'[c].pc \in {"ran", "raised"}, call'[c].pc # call[c].pc
  PROVE  \/ call'[c].pc = "ran" /\ Run(c)
         \/ call'[c].pc = "raised" /\ (ToolRaises(c) \/ Verify(c) \/ Freeze(c) \/ Check(c))
<1>1. call[c].pc # "idle"
  BY IdleMoves
<1>2. <<call[c].pc, call'[c].pc>> \in
        {<<"verify", "raised">>, <<"freeze", "raised">>, <<"check", "raised">>,
         <<"run", "ran">>, <<"run", "raised">>}
  BY <1>1, CallMoves DEF Moves
<1>3. call[c] \in CallType
  BY <1>1, CallFields
<1>4. ASSUME NEW d \in Calls, d # c,
             \/ Start(d) \/ Verify(d) \/ Freeze(d) \/ Check(d)
             \/ SpendFirst(d) \/ SpendReplay(d) \/ SpendUnavailable(d) \/ SpendBurnt(d)
             \/ Refuse(d) \/ Commit(d) \/ AuditFails(d) \/ Run(d) \/ ToolRaises(d)
      PROVE  FALSE
  BY <1>4 DEF TypeOK, Start, Verify, Freeze, Check, SpendFirst, SpendReplay, SpendUnavailable,
     SpendBurnt, Refuse, Commit, AuditFails, Run, ToolRaises
<1>5. ~ \/ Start(c) \/ SpendFirst(c) \/ SpendReplay(c) \/ SpendUnavailable(c) \/ SpendBurnt(c)
        \/ Refuse(c) \/ Commit(c) \/ AuditFails(c)
  BY <1>2 DEF Start, SpendFirst, SpendReplay, SpendUnavailable, SpendBurnt, Refuse, Commit,
     AuditFails
<1>6. ~Tick /\ \A d \in Calls : ~CallerMutates(d)
  BY <1>2, MutationMovesNone DEF Tick
<1>7. ~ \E r \in Replicas : Crash(r)
  <2>1. Ended(call[c], "crashed").pc = "crashed"
    BY <1>3, EndedKeeps DEF Finished
  <2> QED
    BY <1>2, <2>1 DEF Crash
<1>8. Verify(c) \/ Freeze(c) \/ Check(c) \/ Run(c) \/ ToolRaises(c)
  BY <1>4, <1>5, <1>6, <1>7, NextCases
<1>9. /\ Verify(c) => call[c].pc = "verify"
      /\ Freeze(c) => call[c].pc = "freeze"
      /\ Check(c) => call[c].pc = "check"
      /\ Run(c) => call[c].pc = "run" /\ call'[c] = Ended(call[c], "ran")
      /\ ToolRaises(c) => call[c].pc = "run" /\ call'[c] = Ended(call[c], "raised")
  BY DEF Verify, Freeze, Check, Run, ToolRaises, TypeOK
<1>10. Ended(call[c], "ran").pc = "ran" /\ Ended(call[c], "raised").pc = "raised"
  BY <1>3, EndedKeeps DEF Finished
<1> QED
  BY <1>2, <1>8, <1>9, <1>10

(* A call that leaves the gates with an exception had a reason to.         *)
LEMMA RaisedAtTheGates ==
  ASSUME TypeOK, Next, NEW c \in Calls, call'[c].pc = "raised", Verify(c) \/ Freeze(c) \/ Check(c)
  PROVE  ~call[c].formed \/ call[c].action \notin Encodable
<1>1. call[c] \in CallType
  BY CallFields DEF Verify, Freeze, Check
<1>2. \A pc \in {"freeze", "check", "spend", "refuse"} :
        [call[c] EXCEPT !.pc = pc].pc # "raised"
  BY <1>1 DEF CallType
<1>3. QED
  BY <1>2 DEF Verify, Freeze, Check, TypeOK

(* A call that returned ran its tool; one that raised without an entry had *)
(* an action that cannot be fingerprinted or a malformed decision.         *)
Accounted ==
  \A c \in Calls :
    /\ call[c].pc = "ran" => \E e \in effects : e.call = c
    /\ call[c].pc = "raised" /\ log[c] = <<>> => ~call[c].formed \/ call[c].action \notin Encodable

LEMMA AccountedStep ==
  ASSUME TypeOK, LogFollows, Accounted, [Next]_vars
  PROVE  Accounted'
<1>1. CASE UNCHANGED vars
  BY <1>1 DEF vars, Accounted
<1>2. CASE Next
  <2> SUFFICES ASSUME NEW c \in Calls
               PROVE  /\ call'[c].pc = "ran" => \E e \in effects' : e.call = c
                      /\ call'[c].pc = "raised" /\ log'[c] = <<>>
                           => ~call'[c].formed \/ call'[c].action \notin Encodable
    BY DEF Accounted
  <2>1. effects \subseteq effects'
    BY <1>2, NextCases DEF Start, CallerMutates, ActionMutates, DecisionMutates, Verify, Freeze,
       Check, SpendFirst, SpendReplay, SpendUnavailable, SpendBurnt, Refuse, Commit, AuditFails,
       Run, ToolRaises, Crash, Tick
  <2>2. CASE call'[c].pc \in {"ran", "raised"} /\ call'[c].pc = call[c].pc
    <3>1. Kept(call[c], call'[c])
      BY <1>2, <2>2, CallKept DEF Early
    <3>2. log'[c] = log[c]
      BY <1>2, <2>2, LogMoves
    <3> QED
      BY <2>1, <2>2, <3>1, <3>2 DEF Accounted, Kept, Bound
  <2>3. CASE call'[c].pc = "ran" /\ Run(c)
    <3>1. PICK e : e.call = c /\ effects' = effects \cup {e}
      BY <2>3 DEF Run
    <3> QED
      BY <2>3, <3>1
  <2>4. CASE call'[c].pc = "raised" /\ ToolRaises(c)
    BY <2>4 DEF ToolRaises, LogFollows
  <2>5. CASE call'[c].pc = "raised" /\ (Verify(c) \/ Freeze(c) \/ Check(c))
    <3>1. call[c].pc \in {"verify", "freeze", "check"}
      BY <2>5 DEF Verify, Freeze, Check
    <3>2. Kept(call[c], call'[c])
      BY <1>2, <2>5, <3>1, CallKept
    <3>3. ~call[c].formed \/ call[c].action \notin Encodable
      BY <1>2, <2>5, RaisedAtTheGates
    <3> QED
      BY <2>5, <3>2, <3>3 DEF Kept, Bound
  <2> QED
    BY <1>2, <2>2, <2>3, <2>4, <2>5, EndsOfATool
<1> QED
  BY <1>1, <1>2

(* "EXACTLY ONE audit entry per execute() call" (execute.py:4-7) and       *)
(* "did the effect actually run?" (audit.py:86-87) are not true of every   *)
(* call.  They are of every call that returned or was refused: one that    *)
(* leaves with an exception and without its entry had a decision that is   *)
(* malformed or an action that cannot be fingerprinted, and an entry that  *)
(* says executed of no effect is of a call whose tool raised, whose sink   *)
(* failed or that crashed.                                                 *)
Excepted(c) ==
  /\ call[c].pc \in {"ran", "refused", "raised"} /\ Len(log[c]) # 1
       => /\ call[c].pc = "raised" /\ log[c] = <<>>
          /\ ~call[c].formed \/ call[c].action \notin Encodable
  /\ call[c].pc \in Finished /\ log[c] = <<"executed">> /\ (\A e \in effects : e.call # c)
       => call[c].pc \in {"raised", "crashed", "sink_failed"}

THEOREM ExceptionsToTheLog == Spec => [](\A c \in Calls : Excepted(c))
<1>1. Init => Accounted
  BY DEF Init, Accounted, NoCall
<1>2. IInv /\ Accounted /\ [Next]_vars => Accounted'
  BY AccountedStep DEF IInv
<1>3. IInv /\ Accounted => \A c \in Calls : Excepted(c)
  <2> SUFFICES ASSUME IInv, Accounted, NEW c \in Calls PROVE Excepted(c)
    OBVIOUS
  <2>1. Len(<<"executed">>) = 1 /\ Len(<<"refused">>) = 1 /\ <<"executed">> # <<"refused">>
    OBVIOUS
  <2>2. /\ call[c].pc = "ran" => log[c] = <<"executed">>
        /\ call[c].pc = "raised" => log[c] \in {<<>>, <<"executed">>}
        /\ call[c].pc = "refused" => log[c] = <<"refused">>
    BY DEF IInv, LogFollows
  <2> QED
    BY <2>1, <2>2 DEF Accounted, Finished, Excepted
<1> QED
  BY <1>1, <1>2, <1>3, Inductive, PTL DEF Spec

-----------------------------------------------------------------------------
(***************************************************************************)
(* The enforcement point over a durable store implements OneTimeEffect:    *)
(* every step of Pep claims a token, records it, runs it, or changes none  *)
(* of the three things the abstract promise speaks of.                     *)
(***************************************************************************)

(* What the mapping needs beyond IInv: with a durable store all calls spend*)
(* in the one shared scope, and whoever has logged executed has won the    *)
(* spend, even if it has crashed or raised since.                          *)
OneScope    == Durable => \A c \in Calls : call[c].pc # "idle" => call[c].scope = Shared
ExecutedWon == \A c \in Calls : log[c] = <<"executed">> => call[c].won

RInv == IInv /\ OneScope /\ ExecutedWon

(* A deployment keeps its kind of store.                                   *)
LEMMA KindStays ==
  ASSUME Next
  PROVE  kind' = kind
BY NextCases DEF Start, CallerMutates, ActionMutates, DecisionMutates, Verify, Freeze, Check,
   SpendFirst, SpendReplay, SpendUnavailable, SpendBurnt, Refuse, Commit, AuditFails, Run,
   ToolRaises, Crash, Tick

(* A call that begins takes the scope of its replica.                      *)
LEMMA BegunInScope ==
  ASSUME TypeOK, Next, NEW d \in Calls, call[d].pc = "idle", call'[d].pc # "idle"
  PROVE  \E r \in Replicas : call'[d].scope = Scope(r)
<1>1. ASSUME NEW c \in Calls, Start(c)
      PROVE  \E r \in Replicas : call'[d].scope = Scope(r)
  BY <1>1 DEF Start, TypeOK
<1>2. ASSUME NEW c \in Calls,
             \/ CallerMutates(c) \/ Verify(c) \/ Freeze(c) \/ Check(c)
             \/ SpendFirst(c) \/ SpendReplay(c) \/ SpendUnavailable(c) \/ SpendBurnt(c)
             \/ Refuse(c) \/ Commit(c) \/ AuditFails(c) \/ Run(c) \/ ToolRaises(c)
      PROVE  FALSE
  <2>1. c # d
    BY <1>2 DEF CallerMutates, ActionMutates, DecisionMutates, Active, Verify, Freeze, Check,
       SpendFirst, SpendReplay, SpendUnavailable, SpendBurnt, Refuse, Commit, AuditFails, Run,
       ToolRaises
  <2>2. QED
    BY <1>2, <2>1 DEF CallerMutates, ActionMutates, DecisionMutates, Verify, Freeze, Check,
       SpendFirst, SpendReplay, SpendUnavailable, SpendBurnt, Refuse, Commit, AuditFails, Run,
       ToolRaises, TypeOK
<1>3. ASSUME NEW r \in Replicas, Crash(r)
      PROVE  FALSE
  BY <1>3 DEF Crash, Active
<1>4. ~Tick
  BY DEF Tick
<1>5. QED
  BY NextCases, <1>1, <1>2, <1>3, <1>4

LEMMA OneScopeStep ==
  ASSUME TypeOK, OneScope, Next
  PROVE  OneScope'
<1> SUFFICES ASSUME Durable', NEW c \in Calls, call'[c].pc # "idle"
             PROVE  call'[c].scope = Shared
  BY DEF OneScope
<1>1. Durable
  BY KindStays DEF Durable
<1>2. CASE call[c].pc = "idle"
  BY <1>1, <1>2, BegunInScope DEF Durable, Scope
<1>3. CASE call[c].pc # "idle"
  BY <1>1, <1>3, CallBound DEF Bound, OneScope
<1>4. QED
  BY <1>2, <1>3

LEMMA ExecutedWonStep ==
  ASSUME TypeOK, Ownership, LogFollows, ExecutedWon, Next
  PROVE  ExecutedWon'
<1> SUFFICES ASSUME NEW c \in Calls, log'[c] = <<"executed">>
             PROVE  call'[c].won
  BY DEF ExecutedWon
<1>1. call[c].won => call'[c].won
  BY CallMoves DEF Ownership, Early
<1>2. CASE log'[c] = log[c]
  BY <1>1, <1>2 DEF ExecutedWon
<1>3. CASE log'[c] = Append(log[c], "refused") /\ call[c].pc = "refuse"
  <2>1. log[c] = <<>>
    BY <1>3 DEF LogFollows
  <2>2. Append(<<>>, "refused") # <<"executed">>
    OBVIOUS
  <2>3. QED
    BY <1>3, <2>1, <2>2
<1>4. CASE call[c].pc = "commit"
  BY <1>1, <1>4 DEF Ownership
<1>5. QED
  BY LogMoves, <1>2, <1>3, <1>4

THEOREM RefinementInvariant == Spec => []RInv
<1>1. Init => OneScope /\ ExecutedWon
  BY DEF Init, NoCall, OneScope, ExecutedWon
<1>2. IInv /\ OneScope /\ ExecutedWon /\ [Next]_vars => OneScope' /\ ExecutedWon'
  <2>1. ASSUME IInv, OneScope, ExecutedWon, Next
        PROVE  OneScope' /\ ExecutedWon'
    BY <2>1, OneScopeStep, ExecutedWonStep DEF IInv
  <2>2. ASSUME OneScope, ExecutedWon, UNCHANGED vars
        PROVE  OneScope' /\ ExecutedWon'
    BY <2>2 DEF vars, OneScope, ExecutedWon, Durable
  <2>3. QED
    BY <2>1, <2>2
<1>3. QED
  BY <1>1, <1>2, Inductive, PTL DEF Spec, RInv

-----------------------------------------------------------------------------
(* The mapping, member by member.                                          *)
LEMMA ClaimedMembers ==
  ASSUME Durable
  PROVE  \A t : t \in Claimed <=> \E s \in spent : s[2] = t
BY DEF Claimed

LEMMA RecordedMembers ==
  ASSUME Durable
  PROVE  \A t : t \in Recorded <=>
                  \E c \in Calls : log[c] = <<"executed">> /\ call[c].decision.token = t
BY DEF Recorded

(* With an in-memory store the promise is empty, and stays so.             *)
LEMMA NothingPromised ==
  ASSUME ~Durable, kind' = kind
  PROVE  UNCHANGED <<Claimed, Recorded, RanBy>>
BY DEF Durable, Claimed, Recorded, RanBy

(* As long as the same calls have logged executed, the same tokens are     *)
(* recorded: a call keeps its decision.                                    *)
LEMMA TokensKept ==
  ASSUME RInv, Next, NEW c \in Calls, log[c] = <<"executed">>
  PROVE  call'[c].decision.token = call[c].decision.token
<1>1. call[c].pc \notin Early
  BY DEF RInv, IInv, ExecutedWon, Ownership
<1>2. QED
  BY <1>1, CallKept DEF RInv, IInv, Kept, Early

LEMMA RecordedStaysSame ==
  ASSUME RInv, Next,
         \A c \in Calls : log'[c] = <<"executed">> <=> log[c] = <<"executed">>
  PROVE  Recorded' = Recorded
BY TokensKept, KindStays DEF Recorded, Durable

(* The token of a call past its gates is a token.                          *)
LEMMA RealToken ==
  ASSUME RInv, NEW c \in Calls, call[c].pc \in {"spend", "commit", "run", "ran"}
  PROVE  call[c].decision.token \in Tokens
<1>1. PassedGates(call[c])
  BY DEF RInv, IInv, GatesFirst
<1>2. call[c].decision.token \in Tokens \cup {NoToken}
  BY CallFields, PepAssumption DEF RInv, IInv, CallType, Decision
<1>3. QED
  BY <1>1, <1>2 DEF PassedGates, Permitted

-----------------------------------------------------------------------------
(* The three steps of the promise.                                         *)
LEMMA SpendClaims ==
  ASSUME RInv, Next, Durable, NEW c \in Calls, SpendFirst(c) \/ SpendBurnt(c)
  PROVE  OneTime!Claim(call[c].decision.token)
<1> DEFINE t == call[c].decision.token
<1>1. call[c].pc = "spend" /\ call[c].scope = Shared
  BY DEF SpendFirst, SpendBurnt, RInv, OneScope
<1>2. /\ <<Shared, t>> \notin spent
      /\ spent' = spent \cup {<<Shared, t>>}
      /\ log' = log /\ effects' = effects /\ kind' = kind
  BY <1>1 DEF SpendFirst, SpendBurnt
<1>3. t \notin Claimed
  <2>1. ASSUME NEW s \in spent, s[2] = t
        PROVE  FALSE
    <3>1. PICK d \in Calls : call[d].pc # "idle" /\ call[d].scope = s[1]
      BY DEF RInv, IInv, SpentOnlyPastGates, Early
    <3>2. s[1] = Shared
      BY <3>1 DEF RInv, OneScope
    <3>3. s = <<s[1], s[2]>>
      BY DEF RInv, IInv, TypeOK
    <3>4. QED
      BY <1>2, <2>1, <3>2, <3>3
  <2>2. QED
    BY <2>1, ClaimedMembers
<1>4. Claimed' = Claimed \cup {t}
  <2>1. Claimed = {s[2] : s \in spent} /\ Claimed' = {s[2] : s \in spent'}
    BY <1>2 DEF Claimed, Durable
  <2>2. QED
    BY <1>2, <2>1
<1>5. Recorded' = Recorded
  BY <1>2, RecordedStaysSame
<1>6. RanBy' = RanBy
  BY <1>2 DEF RanBy, Durable
<1>7. QED
  BY <1>3, <1>4, <1>5, <1>6 DEF OneTime!Claim

LEMMA LogRecords ==
  ASSUME RInv, Next, Durable, NEW c \in Calls, call[c].pc = "commit",
         log' = [log EXCEPT ![c] = Append(@, "executed")],
         spent' = spent, effects' = effects
  PROVE  OneTime!Record(call[c].decision.token)
<1> DEFINE t == call[c].decision.token
<1>1. log[c] = <<>> /\ call[c].won /\ Mark(c) \in spent
  BY DEF RInv, IInv, LogFollows, Ownership
<1>2. t \in Claimed
  BY <1>1, ClaimedMembers DEF Mark
<1>3. t \notin Recorded
  <2>1. ASSUME NEW d \in Calls, log[d] = <<"executed">>, call[d].decision.token = t
        PROVE  FALSE
    <3>1. call[d].won /\ call[d].pc # "idle"
      BY <2>1 DEF RInv, IInv, ExecutedWon, Ownership, Early
    <3>2. Mark(d) = Mark(c)
      BY <2>1, <3>1 DEF RInv, OneScope, Mark
    <3>3. c = d
      BY <1>1, <3>1, <3>2 DEF RInv, IInv, Ownership
    <3>4. <<>> # <<"executed">>
      OBVIOUS
    <3>5. QED
      BY <1>1, <2>1, <3>3, <3>4
  <2>2. QED
    BY <2>1, RecordedMembers
<1>4. \A d \in Calls : log'[d] = <<"executed">> <=> d = c \/ log[d] = <<"executed">>
  <2>1. log'[c] = <<"executed">>
    BY <1>1 DEF RInv, IInv, TypeOK
  <2>2. \A d \in Calls \ {c} : log'[d] = log[d]
    BY DEF RInv, IInv, TypeOK
  <2>3. QED
    BY <2>1, <2>2
<1>5. call'[c].decision.token = t
  BY CallKept DEF RInv, IInv, Kept, Early
<1>6. Recorded' = Recorded \cup {t}
  BY <1>4, <1>5, TokensKept, KindStays DEF Recorded, Durable
<1>7. Claimed' = Claimed /\ RanBy' = RanBy
  BY KindStays DEF Claimed, RanBy, Durable
<1>8. QED
  BY <1>2, <1>3, <1>6, <1>7 DEF OneTime!Record

LEMMA RunRuns ==
  ASSUME RInv, Next, Durable, NEW c \in Calls, Run(c)
  PROVE  OneTime!Run(call[c].decision.token, c)
<1> DEFINE t == call[c].decision.token
<1>1. /\ call[c].pc = "run" /\ log[c] = <<"executed">> /\ call[c].won
      /\ t \in Tokens
  BY RealToken DEF Run, RInv, IInv, LogFollows, Ownership
<1>2. t \in Recorded
  BY <1>1, RecordedMembers
<1>3. RanBy[t] = {}
  <2>1. ASSUME NEW e \in effects, e.token = t
        PROVE  FALSE
    <3>1. /\ e.call \in Calls
          /\ call[e.call].pc = "ran" /\ call[e.call].decision.token = t
      BY <2>1 DEF RInv, IInv, TypeOK, EffectType, EffectsOwned
    <3>2. Mark(e.call) = Mark(c)
      BY <1>1, <3>1 DEF RInv, OneScope, Mark
    <3>3. e.call = c
      BY <1>1, <3>1, <3>2 DEF RInv, IInv, Ownership
    <3>4. QED
      BY <1>1, <3>1, <3>3
  <2>2. QED
    BY <1>1, <2>1 DEF RanBy
<1>4. RanBy' = [RanBy EXCEPT ![t] = {c}]
  <2>1. PICK e \in EffectType :
          effects' = effects \cup {e} /\ e.call = c /\ e.token = t
    <3>1. call[c] \in CallType
      BY <1>1, CallFields DEF RInv, IInv
    <3>2. [call |-> c, token |-> t, action |-> call[c].action,
           minimized |-> call[c].decision.minimized, scope |-> call[c].scope] \in EffectType
      BY <1>1, <3>1, PepAssumption DEF CallType, Decision, EffectType
    <3>3. QED
      BY <3>2 DEF Run
  <2>2. \A u \in Tokens :
          RanBy'[u] = {f.call : f \in {g \in effects' : g.token = u}}
    BY KindStays DEF RanBy, Durable
  <2>3. \A u \in Tokens :
          RanBy[u] = {f.call : f \in {g \in effects : g.token = u}}
    BY DEF RanBy
  <2>4. ASSUME NEW u \in Tokens \ {t}
        PROVE  RanBy'[u] = RanBy[u]
    <3>1. {g \in effects' : g.token = u} = {g \in effects : g.token = u}
      BY <2>1
    <3>2. QED
      BY <2>2, <2>3, <3>1
  <2>5. RanBy'[t] = {c}
    <3>1. \A g \in effects : g.token # t
      BY <1>1, <1>3, <2>3
    <3>2. QED
      BY <1>1, <2>1, <2>2, <3>1
  <2>6. DOMAIN RanBy = Tokens /\ DOMAIN RanBy' = Tokens
    BY DEF RanBy
  <2>7. RanBy = [u \in Tokens |-> RanBy[u]] /\ RanBy' = [u \in Tokens |-> RanBy'[u]]
    BY DEF RanBy
  <2>8. QED
    BY <1>1, <2>4, <2>5, <2>6, <2>7
<1>5. Recorded' = Recorded
  BY RecordedStaysSame DEF Run
<1>6. Claimed' = Claimed
  BY DEF Run, Claimed, Durable
<1>7. QED
  BY <1>2, <1>3, <1>4, <1>5, <1>6 DEF OneTime!Run

(* All other steps are invisible.                                          *)
LEMMA OthersStutter ==
  ASSUME RInv, Next, spent' = spent, effects' = effects,
         \A c \in Calls : log'[c] = <<"executed">> <=> log[c] = <<"executed">>
  PROVE  UNCHANGED <<Claimed, Recorded, RanBy>>
BY RecordedStaysSame, KindStays DEF Claimed, RanBy, Durable

(* A refusal that is logged is not an execution.                           *)
LEMMA RefusedIsNotExecuted ==
  ASSUME RInv, NEW c \in Calls, call[c].pc = "refuse",
         log' = [log EXCEPT ![c] = Append(@, "refused")]
  PROVE  \A d \in Calls : log'[d] = <<"executed">> <=> log[d] = <<"executed">>
<1>1. log[c] = <<>>
  BY DEF RInv, IInv, LogFollows
<1>2. log'[c] = <<"refused">> /\ \A d \in Calls \ {c} : log'[d] = log[d]
  BY <1>1 DEF RInv, IInv, TypeOK
<1>3. <<"refused">> # <<"executed">> /\ <<>> # <<"executed">>
  OBVIOUS
<1>4. QED
  BY <1>1, <1>2, <1>3

LEMMA StepSimulation ==
  ASSUME RInv, Next
  PROVE  [OneTime!Next]_(OneTime!vars)
<1> DEFINE Same == UNCHANGED <<Claimed, Recorded, RanBy>>
           Step == \E t \in Tokens : \/ OneTime!Claim(t) \/ OneTime!Record(t)
                                     \/ \E c \in Calls : OneTime!Run(t, c)
           Goal == Same \/ Step
<1>1. ASSUME Durable, NEW c \in Calls, SpendFirst(c) \/ SpendBurnt(c)
      PROVE  Goal
  <2>1. call[c].decision.token \in Tokens
    BY <1>1, RealToken DEF SpendFirst, SpendBurnt
  <2>2. QED
    BY <1>1, <2>1, SpendClaims
<1>2. ASSUME Durable, NEW c \in Calls, Commit(c)
      PROVE  Goal
  <2>1. call[c].decision.token \in Tokens
    BY <1>2, RealToken DEF Commit
  <2>2. OneTime!Record(call[c].decision.token)
    BY <1>2, LogRecords DEF Commit
  <2>3. QED
    BY <2>1, <2>2
<1>3. ASSUME Durable, NEW c \in Calls, Refuse(c)
      PROVE  Goal
  BY <1>3, RefusedIsNotExecuted, OthersStutter DEF Refuse
<1>4. ASSUME Durable, NEW c \in Calls, AuditFails(c)
      PROVE  Goal
  <2>1. spent' = spent /\ effects' = effects
    BY <1>4 DEF AuditFails
  <2>2. CASE log' = log
    BY <2>1, <2>2, OthersStutter
  <2>3. CASE call[c].pc = "commit" /\ log' = [log EXCEPT ![c] = Append(@, "executed")]
    <3>1. call[c].decision.token \in Tokens
      BY <2>3, RealToken
    <3>2. OneTime!Record(call[c].decision.token)
      BY <1>4, <2>1, <2>3, LogRecords
    <3>3. QED
      BY <3>1, <3>2
  <2>4. CASE call[c].pc = "refuse" /\ log' = [log EXCEPT ![c] = Append(@, "refused")]
    BY <2>1, <2>4, RefusedIsNotExecuted, OthersStutter
  <2>5. QED
    BY <1>4, <2>2, <2>3, <2>4 DEF AuditFails, RInv, IInv, TypeOK
<1>5. ASSUME Durable, NEW c \in Calls, Run(c)
      PROVE  Goal
  <2>1. call[c].decision.token \in Tokens
    BY <1>5, RealToken DEF Run
  <2>2. QED
    BY <1>5, <2>1, RunRuns
<1>6. ASSUME \/ \E c \in Calls : \/ Start(c) \/ CallerMutates(c) \/ Verify(c) \/ Freeze(c) \/ Check(c)
                                 \/ SpendReplay(c) \/ SpendUnavailable(c) \/ ToolRaises(c)
             \/ \E r \in Replicas : Crash(r)
             \/ Tick
      PROVE  Goal
  <2>1. spent' = spent /\ effects' = effects /\ log' = log
    BY <1>6 DEF Start, CallerMutates, ActionMutates, DecisionMutates, Verify, Freeze, Check,
       SpendReplay, SpendUnavailable, ToolRaises, Crash, Tick
  <2>2. QED
    BY <2>1, OthersStutter
<1>7. ASSUME ~Durable
      PROVE  Goal
  BY <1>7, NothingPromised, KindStays
<1>8. Goal
  <2> HIDE DEF Goal
  <2>1. QED
    BY NextCases, <1>1, <1>2, <1>3, <1>4, <1>5, <1>6, <1>7
<1>9. QED
  BY <1>8 DEF OneTime!Next, OneTime!vars

(* HB-1, as a refinement: whatever replicas, threads, crashes and retries  *)
(* do, the enforcement point over a durable store claims a token once,     *)
(* records it only then, and runs its effect at most once and only after   *)
(* it was recorded.                                                        *)
THEOREM Implements == Spec => ImplementsOneTimeEffect
<1>1. Init => OneTime!Init
  BY DEF Init, OneTime!Init, Claimed, Recorded, RanBy
<1>2. RInv /\ [Next]_vars => [OneTime!Next]_(OneTime!vars)
  <2>1. ASSUME UNCHANGED vars
        PROVE  UNCHANGED <<Claimed, Recorded, RanBy>>
    BY <2>1 DEF vars, Claimed, Recorded, RanBy, Durable
  <2>2. QED
    BY <2>1, StepSimulation DEF OneTime!vars
<1>3. QED
  BY <1>1, <1>2, RefinementInvariant, PTL DEF Spec, ImplementsOneTimeEffect, OneTime!Spec

=============================================================================
