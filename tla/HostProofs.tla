------------------------------ MODULE HostProofs ------------------------------
(***************************************************************************)
(* Proofs about Host, for any number of hosts and requests, whatever is    *)
(* written to them and whenever they die, and any bounds.                  *)
(***************************************************************************)
EXTENDS Host, SequenceTheorems, TLAPS

-----------------------------------------------------------------------------
(* Types                                                                   *)

Errors == {"none", "invalid_frame", "channel_unbound", "channel_identity_mismatch",
           "request_store_unavailable", "request_replay", "exception"}
Lines == {Ready, Pong} \cup
         [type: {"result"}, request: Requests \cup {NoRequest}, ok: BOOLEAN, error: Errors]

(* A hand is free or holds a request; the pipe carries lines.              *)
TypeInv ==
  /\ TypeOK
  /\ \A h \in Hosts : hand[h] = FreeHand \/ (hand[h].pc # "free" /\ hand[h].request \in Requests)
  /\ records \in [Hosts -> Seq(RecordType)]
  /\ outbox \in [Hosts -> Seq(Lines)]
  /\ reply = [r \in Requests |-> reply[r]]

LEMMA LineTypes ==
  ASSUME NEW r \in Requests \cup {NoRequest}, NEW ok \in BOOLEAN, NEW error \in Errors
  PROVE  Result(r, ok, error) \in Lines
  BY DEF Result, Lines

LEMMA HandTypes ==
  ASSUME TypeInv, NEW h \in Hosts, NEW r \in Requests,
         NEW pc \in {"claim", "admit", "invoke", "emit", "ok", "fail"},
         Hand(h, pc, r) \/ Hand(h, "free", NoRequest)
  PROVE  /\ hand' \in [Hosts -> HandType]
         /\ \A g \in Hosts : hand'[g] = FreeHand \/ (hand'[g].pc # "free" /\ hand'[g].request \in Requests)
<1>1. [pc |-> pc, request |-> r] \in HandType /\ FreeHand \in HandType
  BY DEF HandType, FreeHand
<1>2. hand' = [hand EXCEPT ![h] = [pc |-> pc, request |-> r]] \/ hand' = [hand EXCEPT ![h] = FreeHand]
  BY DEF Hand, FreeHand
<1>3. hand \in [Hosts -> HandType]
  BY DEF TypeInv, TypeOK
<1>4. \A g \in Hosts : \/ hand'[g] = hand[g] \/ hand'[g] = FreeHand
                       \/ hand'[g] = [pc |-> pc, request |-> r]
  BY <1>2, <1>3
<1>5. hand' \in [Hosts -> HandType]
  BY <1>1, <1>2, <1>3
<1> QED
  <2>1. ASSUME NEW g \in Hosts
        PROVE  hand'[g] = FreeHand \/ (hand'[g].pc # "free" /\ hand'[g].request \in Requests)
    <3>1. CASE hand'[g] = hand[g]
      BY <3>1 DEF TypeInv
    <3>2. CASE hand'[g] = [pc |-> pc, request |-> r]
      BY <3>2
    <3> QED
      BY <1>4, <3>1, <3>2
  <2> QED
    BY <1>5, <2>1

LEMMA AnswerTypes ==
  ASSUME TypeInv, NEW h \in Hosts, NEW line \in Lines, Answer(h, line)
  PROVE  outbox' \in [Hosts -> Seq(Lines)]
  BY DEF TypeInv, Answer

LEMMA EmitTypes ==
  ASSUME TypeInv, NEW h \in Hosts, NEW executed \in BOOLEAN, NEW threw \in BOOLEAN,
         Emit(h, executed, threw), hand[h].request \in Requests
  PROVE  records' \in [Hosts -> Seq(RecordType)]
<1>1. [request |-> hand[h].request, executed |-> executed, threw |-> threw] \in RecordType
  BY DEF RecordType
<1> QED
  BY <1>1 DEF TypeInv, Emit

LEMMA KilledTypes ==
  ASSUME TypeInv, NEW h \in Hosts, Killed(h)
  PROVE  /\ up' \in [Hosts -> BOOLEAN] /\ inbox' \in [Hosts -> Seq(Requests)]
         /\ outbox' \in [Hosts -> Seq(Lines)]
         /\ hand' \in [Hosts -> HandType]
         /\ \A g \in Hosts : hand'[g] = FreeHand \/ (hand'[g].pc # "free" /\ hand'[g].request \in Requests)
         /\ records' \in [Hosts -> Seq(RecordType)]
<1>1. FreeHand \in HandType
  BY DEF FreeHand, HandType
<1> QED
  BY <1>1 DEF TypeInv, TypeOK, Killed

LEMMA HandleTypes ==
  ASSUME TypeInv, NEW h \in Hosts, Handle(h)
  PROVE  TypeInv'
<1> DEFINE Rest == UNCHANGED <<channel, runs>> => TypeInv'
<1>0. hand[h].pc # "free" => hand[h].request \in Requests
  BY DEF TypeInv, FreeHand
<1>1. CASE Receive(h)
  <2>1. inbox[h] \in Seq(Requests) /\ inbox[h] # <<>>
    BY <1>1 DEF Receive, TypeInv, TypeOK
  <2>2. inbox[h][1] \in Requests /\ Tail(inbox[h]) \in Seq(Requests)
    BY <2>1
  <2>3. inbox' \in [Hosts -> Seq(Requests)]
    BY <1>1, <2>2 DEF Receive, TypeInv, TypeOK
  <2>4. Pong \in Lines /\ Result(NoRequest, FALSE, "invalid_frame") \in Lines
        /\ Result(inbox[h][1], FALSE, "channel_unbound") \in Lines
        /\ Result(inbox[h][1], FALSE, "channel_identity_mismatch") \in Lines
    <3>1. Pong \in Lines
      BY DEF Lines
    <3>2. Result(NoRequest, FALSE, "invalid_frame") \in Lines
      BY LineTypes DEF Errors
    <3>3. Result(inbox[h][1], FALSE, "channel_unbound") \in Lines
      BY <2>2, LineTypes DEF Errors
    <3>4. Result(inbox[h][1], FALSE, "channel_identity_mismatch") \in Lines
      BY <2>2, LineTypes DEF Errors
    <3> QED
      BY <3>1, <3>2, <3>3, <3>4
  <2>5. outbox' \in [Hosts -> Seq(Lines)]
    BY <1>1, <2>4, AnswerTypes DEF Receive, Conclude, TypeInv
  <2>6. /\ hand' \in [Hosts -> HandType]
        /\ \A g \in Hosts : hand'[g] = FreeHand \/ (hand'[g].pc # "free" /\ hand'[g].request \in Requests)
    <3>1. hand' = hand \/ Hand(h, "claim", inbox[h][1]) \/ Hand(h, "free", NoRequest)
      BY <1>1 DEF Receive, Conclude
    <3>2. CASE hand' = hand
      BY <3>2 DEF TypeInv, TypeOK
    <3> QED
      BY <2>2, <3>1, <3>2, HandTypes
  <2> QED
    BY <1>1, <2>3, <2>5, <2>6 DEF Receive, TypeInv, TypeOK, channel
<1>2. CASE Claim(h)
  BY <1>0, <1>2, HandTypes DEF Claim, TypeInv, TypeOK, channel
<1>3. CASE ClaimFails(h)
  <2>1. PICK error \in {"request_store_unavailable", "request_replay"} :
          Conclude(h, hand[h].request, FALSE, error, <<>>)
    BY <1>3 DEF ClaimFails
  <2>2. Answer(h, Result(hand[h].request, FALSE, error)) /\ Hand(h, "free", NoRequest)
    BY <2>1 DEF Conclude
  <2>3. hand[h].request \in Requests
    BY <1>0, <1>3 DEF ClaimFails
  <2>4. outbox' \in [Hosts -> Seq(Lines)]
    <3>1. Result(hand[h].request, FALSE, error) \in Lines
      BY <2>3, LineTypes DEF Errors
    <3> QED
      BY <2>2, <3>1, AnswerTypes
  <2>5. claimed' \subseteq Requests
    BY <1>3, <2>3 DEF ClaimFails, TypeInv, TypeOK
  <2> QED
    BY <1>3, <2>2, <2>3, <2>4, <2>5, HandTypes DEF ClaimFails, TypeInv, TypeOK, channel
<1>4. CASE AdmitAgent(h)
  <2>1. hand[h].request \in Requests
    BY <1>0, <1>4 DEF AdmitAgent
  <2>2. outbox' \in [Hosts -> Seq(Lines)]
    <3>1. Result(NoRequest, FALSE, "invalid_frame") \in Lines
      BY LineTypes DEF Errors
    <3> QED
      BY <1>4, <3>1, AnswerTypes DEF AdmitAgent, TypeInv
  <2> QED
    BY <1>4, <2>1, <2>2, HandTypes DEF AdmitAgent, TypeInv, TypeOK, channel
<1>5. CASE InvokeRaises(h)
  BY <1>0, <1>5, HandTypes DEF InvokeRaises, TypeInv, TypeOK, channel
<1>6. CASE InvokeRefuses(h)
  <2>1. hand[h].request \in Requests /\ Hand(h, "fail", hand[h].request)
        /\ \E threw \in BOOLEAN : Emit(h, FALSE, threw)
    BY <1>0, <1>6 DEF InvokeRefuses
  <2>2. records' \in [Hosts -> Seq(RecordType)]
    BY <2>1, EmitTypes
  <2> QED
    BY <1>6, <2>1, <2>2, HandTypes DEF InvokeRefuses, TypeInv, TypeOK, channel
<1>7. CASE InvokeRuns(h)
  BY <1>0, <1>7, HandTypes DEF InvokeRuns, TypeInv, TypeOK, channel
<1>8. CASE InvokeEmits(h)
  BY <1>0, <1>8, HandTypes, EmitTypes DEF InvokeEmits, TypeInv, TypeOK, channel
<1>9. CASE Finish(h)
  <2>1. hand[h].request \in Requests
    BY <1>0, <1>9 DEF Finish
  <2>2. PICK ok \in BOOLEAN, error \in Errors :
          Answer(h, Result(hand[h].request, ok, error)) /\ Hand(h, "free", NoRequest)
    <3>1. /\ Answer(h, Result(hand[h].request, hand[h].pc = "ok",
                             IF hand[h].pc = "ok" THEN "none" ELSE "exception"))
          /\ Hand(h, "free", NoRequest)
      BY <1>9 DEF Finish, Conclude
    <3>2. (IF hand[h].pc = "ok" THEN "none" ELSE "exception") \in Errors
      BY DEF Errors
    <3>3. (hand[h].pc = "ok") \in BOOLEAN
      BY Zenon
    <3> QED
      BY <3>1, <3>2, <3>3, Zenon
  <2>3. outbox' \in [Hosts -> Seq(Lines)]
    BY <2>1, <2>2, LineTypes, AnswerTypes
  <2> QED
    BY <1>9, <2>1, <2>2, <2>3, HandTypes DEF Finish, TypeInv, TypeOK, channel
<1> QED
  BY <1>1, <1>2, <1>3, <1>4, <1>5, <1>6, <1>7, <1>8, <1>9 DEF Handle

LEMMA AgentTypes ==
  ASSUME TypeInv, NEW h \in Hosts,
         \/ Spawn(h) \/ Sync(h) \/ ReadReply(h) \/ Timeout(h) \/ Crash(h) \/ Close(h)
         \/ \E r \in Requests : Request(h, r) \/ Inject(h, r)
  PROVE  TypeInv'
<1> DEFINE ClientType == [synced: BOOLEAN, alone: BOOLEAN, waiting: Requests \cup {NoRequest}]
<1>0. /\ client[h] \in ClientType /\ client \in [Hosts -> ClientType]
      /\ spawns \in Int /\ sends \in Int /\ MaxSpawns \in Int /\ MaxSends \in Int
  BY HostAssumption DEF TypeInv, TypeOK
<1>1. /\ [client[h] EXCEPT !.waiting = NoRequest] \in ClientType
      /\ [client[h] EXCEPT !.synced = TRUE] \in ClientType
      /\ [client[h] EXCEPT !.alone = FALSE] \in ClientType
      /\ \A r \in Requests : [client[h] EXCEPT !.waiting = r] \in ClientType
  BY <1>0
<1>2. outbox[h] # <<>> => Tail(outbox[h]) \in Seq(Lines)
  BY DEF TypeInv
<1>3. CASE Spawn(h)
  <2>1. <<>> \in Seq(Requests) /\ <<Ready>> \in Seq(Lines)
    BY DEF Lines
  <2>2. [synced |-> FALSE, alone |-> TRUE, waiting |-> NoRequest] \in ClientType
    OBVIOUS
  <2>3. spawns' \in 0..MaxSpawns
    BY <1>0, <1>3 DEF Spawn, TypeInv, TypeOK
  <2>4. client' \in [Hosts -> ClientType]
    BY <1>0, <1>3, <2>2 DEF Spawn
  <2> QED
    BY <1>3, <2>1, <2>3, <2>4 DEF Spawn, TypeInv, TypeOK, host
<1>4. CASE Sync(h)
  BY <1>0, <1>1, <1>2, <1>4 DEF Sync, TypeInv, TypeOK, host
<1>5. CASE ReadReply(h)
  BY <1>0, <1>1, <1>2, <1>5 DEF ReadReply, TypeInv, TypeOK, host
<1>6. CASE Timeout(h)
  BY <1>0, <1>1, <1>6, KilledTypes DEF Timeout, TypeInv, TypeOK
<1>7. CASE Crash(h)
  BY <1>0, <1>1, <1>7, KilledTypes DEF Crash, TypeInv, TypeOK
<1>8. CASE Close(h)
  BY <1>8, KilledTypes DEF Close, TypeInv, TypeOK
<1>9. ASSUME NEW r \in Requests, Write(h, r) PROVE sends' \in 0..MaxSends /\ inbox' \in [Hosts -> Seq(Requests)]
  BY <1>0, <1>9 DEF Write, TypeInv, TypeOK
<1>10. ASSUME NEW r \in Requests, Request(h, r) PROVE TypeInv'
  BY <1>0, <1>1, <1>9, <1>10 DEF Request, TypeInv, TypeOK, host
<1>11. ASSUME NEW r \in Requests, Inject(h, r) PROVE TypeInv'
  BY <1>0, <1>1, <1>9, <1>11 DEF Inject, TypeInv, TypeOK, host
<1> QED
  BY <1>3, <1>4, <1>5, <1>6, <1>7, <1>8, <1>10, <1>11

LEMMA Types == Spec => []TypeInv
<1>1. Init => TypeInv
  <2> SUFFICES ASSUME Init PROVE TypeInv
    OBVIOUS
  <2>1. FreeHand \in HandType
    BY DEF FreeHand, HandType
  <2>2. /\ inbox \in [Hosts -> Seq(Requests)] /\ outbox \in [Hosts -> Seq(Lines)]
        /\ records \in [Hosts -> Seq(RecordType)]
    BY DEF Init
  <2>3. spawns \in 0..MaxSpawns /\ sends \in 0..MaxSends
    BY HostAssumption DEF Init
  <2> QED
    BY <2>1, <2>2, <2>3 DEF Init, TypeInv, TypeOK, Setups
<1>2. TypeInv /\ [Next]_vars => TypeInv'
  <2> SUFFICES ASSUME TypeInv, [Next]_vars PROVE TypeInv'
    OBVIOUS
  <2>1. CASE UNCHANGED vars
    BY <2>1 DEF vars, TypeInv, TypeOK
  <2> QED
    BY <2>1, HandleTypes, AgentTypes DEF Next
<1> QED
  BY <1>1, <1>2, PTL DEF Spec

(* Every variable keeps its type: records name the request they are of,    *)
(* whatever frames come in and however hosts die.                          *)
THEOREM TypeCorrect == Spec => []TypeOK
<1>1. TypeInv => TypeOK
  BY DEF TypeInv
<1> QED
  BY <1>1, Types, PTL

-----------------------------------------------------------------------------
(* Effects                                                                 *)

Governed(r) == Frame(r).kind = "intent" /\ Frame(r).agent = Bound
Claimant(h) == hand[h].pc \in {"admit", "invoke", "emit", "ok", "fail"}

(* A request is in the hand of one host at most once it is claimed, and    *)
(* its effect has not run before that hand has come to it.                 *)
Effects ==
  /\ \A h \in Hosts : hand[h].pc # "free" => Governed(hand[h].request)
  /\ \A h \in Hosts : Claimant(h) => hand[h].request \in claimed
  /\ \A g, h \in Hosts : Claimant(g) /\ Claimant(h) /\ hand[g].request = hand[h].request => g = h
  /\ \A h \in Hosts : hand[h].pc \in {"admit", "invoke"} => runs[hand[h].request] = 0
  /\ \A h \in Hosts : hand[h].pc \in {"emit", "ok"} => runs[hand[h].request] = 1
  /\ \A r \in Requests : runs[r] <= 1
  /\ \A r \in Requests : runs[r] > 0 => Governed(r) /\ Frame(r).tool \in Adapters /\ r \in claimed

(* The moves of a hand that neither run an effect nor claim an id for one. *)
Onward(from, to) ==
  \/ from = "admit" /\ to = "invoke"
  \/ from = "invoke" /\ to = "fail"
  \/ from = "emit" /\ to \in {"ok", "fail"}
Quiet(h) ==
  /\ claimed \subseteq claimed' /\ UNCHANGED runs
  /\ \A g \in Hosts \ {h} : hand'[g] = hand[g]
  /\ \/ hand'[h] \in {hand[h], FreeHand}
     \/ /\ hand[h].pc # "free" /\ hand'[h].request = hand[h].request
        /\ Onward(hand[h].pc, hand'[h].pc)
     \/ hand'[h].pc = "claim" /\ hand'[h].request \in Requests /\ Governed(hand'[h].request)

LEMMA HandMoves ==
  ASSUME TypeInv, [Next]_vars
  PROVE  \/ UNCHANGED <<claimed, runs, hand>>
         \/ \E h \in Hosts : Quiet(h) \/ Claim(h) \/ InvokeRuns(h)
<1>0. hand \in [Hosts -> HandType]
  BY DEF TypeInv, TypeOK
<1>1. ASSUME NEW h \in Hosts, NEW pc, NEW r, Hand(h, pc, r)
      PROVE  /\ hand'[h] = [pc |-> pc, request |-> r]
             /\ \A g \in Hosts \ {h} : hand'[g] = hand[g]
  BY <1>0, <1>1 DEF Hand
<1>2. ASSUME NEW h \in Hosts,
             \/ Spawn(h) \/ Sync(h) \/ ReadReply(h) \/ Timeout(h) \/ Crash(h) \/ Close(h)
             \/ \E r \in Requests : Request(h, r) \/ Inject(h, r)
      PROVE  Quiet(h)
  BY <1>0, <1>2 DEF Spawn, Sync, ReadReply, Timeout, Crash, Close, Killed, Request, Inject, host, Quiet
<1>3. ASSUME NEW h \in Hosts, Receive(h) PROVE Quiet(h)
  <2>1. inbox[h][1] \in Requests
    BY <1>3 DEF Receive, TypeInv, TypeOK
  <2>2. \/ hand' = hand \/ Hand(h, "free", NoRequest)
        \/ Hand(h, "claim", inbox[h][1]) /\ Governed(inbox[h][1])
    BY <1>3 DEF Receive, Conclude, Governed
  <2> QED
    <3>1. UNCHANGED <<claimed, runs>>
      BY <1>3 DEF Receive
    <3>2. CASE hand' = hand
      BY <3>1, <3>2 DEF Quiet
    <3>3. CASE Hand(h, "free", NoRequest)
      BY <1>1, <3>1, <3>3 DEF Quiet, FreeHand
    <3>4. CASE Hand(h, "claim", inbox[h][1]) /\ Governed(inbox[h][1])
      <4>1. /\ hand'[h] = [pc |-> "claim", request |-> inbox[h][1]]
            /\ \A g \in Hosts \ {h} : hand'[g] = hand[g]
        BY <1>1, <3>4
      <4>2. hand'[h].pc = "claim" /\ hand'[h].request = inbox[h][1]
        BY <4>1
      <4> QED
        BY <2>1, <3>1, <3>4, <4>1, <4>2 DEF Quiet
    <3> QED
      BY <2>2, <3>2, <3>3, <3>4
<1>4. ASSUME NEW h \in Hosts, ClaimFails(h) \/ Finish(h) PROVE Quiet(h)
  <2>1. Hand(h, "free", NoRequest) /\ claimed \subseteq claimed' /\ runs' = runs
    BY <1>4 DEF ClaimFails, Finish, Conclude
  <2> QED
    BY <1>1, <2>1 DEF Quiet, FreeHand
<1>5. ASSUME NEW h \in Hosts, AdmitAgent(h) PROVE Quiet(h)
  <2>1. CASE Hand(h, "free", NoRequest)
    BY <1>1, <1>5, <2>1 DEF AdmitAgent, Quiet, FreeHand
  <2>2. CASE Hand(h, "invoke", hand[h].request)
    <3>1. /\ hand'[h] = [pc |-> "invoke", request |-> hand[h].request]
          /\ \A g \in Hosts \ {h} : hand'[g] = hand[g]
      BY <1>1, <2>2
    <3> QED
      BY <1>5, <3>1 DEF AdmitAgent, Quiet, Onward
  <2> QED
    BY <1>5, <2>1, <2>2 DEF AdmitAgent
<1>6. ASSUME NEW h \in Hosts, InvokeRaises(h) \/ InvokeRefuses(h) PROVE Quiet(h)
  <2>1. /\ hand'[h] = [pc |-> "fail", request |-> hand[h].request]
        /\ \A g \in Hosts \ {h} : hand'[g] = hand[g]
    BY <1>1, <1>6 DEF InvokeRaises, InvokeRefuses
  <2> QED
    <3>1. UNCHANGED <<claimed, runs>> /\ hand[h].pc \in {"invoke", "emit"}
      BY <1>6 DEF InvokeRaises, InvokeRefuses
    <3>2. hand'[h].request = hand[h].request /\ hand'[h].pc = "fail"
      BY <2>1
    <3> QED
      BY <2>1, <3>1, <3>2 DEF Quiet, Onward
<1>7. ASSUME NEW h \in Hosts, InvokeEmits(h) PROVE Quiet(h)
  <2>1. PICK pc \in {"ok", "fail"} : Hand(h, pc, hand[h].request)
    BY <1>7 DEF InvokeEmits
  <2>2. /\ hand'[h] = [pc |-> pc, request |-> hand[h].request]
        /\ \A g \in Hosts \ {h} : hand'[g] = hand[g]
    BY <1>1, <2>1
  <2> QED
    BY <1>7, <2>2 DEF InvokeEmits, Quiet, Onward
<1> QED
  BY <1>2, <1>3, <1>4, <1>5, <1>6, <1>7 DEF Next, Handle, vars

LEMMA EffectsStep == TypeInv /\ Effects /\ [Next]_vars => Effects'
<1> SUFFICES ASSUME TypeInv, Effects, [Next]_vars PROVE Effects'
  OBVIOUS
<1>0. /\ hand \in [Hosts -> HandType] /\ runs \in [Requests -> Nat]
      /\ \A h \in Hosts : hand[h].pc # "free" => hand[h].request \in Requests
  BY DEF TypeInv, TypeOK, FreeHand
<1>1. CASE UNCHANGED <<claimed, runs, hand>>
  BY <1>1 DEF Effects, Claimant
<1>2. ASSUME NEW h \in Hosts, Quiet(h) PROVE Effects'
  <2>1. CASE hand'[h] \in {hand[h], FreeHand}
    BY <1>2, <2>1 DEF Quiet, Effects, Claimant, FreeHand
  <2>2. CASE /\ hand[h].pc # "free" /\ hand'[h].request = hand[h].request
             /\ Onward(hand[h].pc, hand'[h].pc)
    BY <1>2, <2>2 DEF Quiet, Effects, Claimant, Onward
  <2>3. CASE hand'[h].pc = "claim" /\ hand'[h].request \in Requests /\ Governed(hand'[h].request)
    BY <1>2, <2>3 DEF Quiet, Effects, Claimant
  <2> QED
    BY <1>2, <2>1, <2>2, <2>3 DEF Quiet
<1>3. ASSUME NEW h \in Hosts, Claim(h) PROVE Effects'
  <2> DEFINE r == hand[h].request
  <2>1. /\ hand[h].pc = "claim" /\ r \in Requests /\ r \notin claimed
        /\ claimed' = claimed \cup {r} /\ runs' = runs
        /\ hand'[h] = [pc |-> "admit", request |-> r] /\ \A g \in Hosts \ {h} : hand'[g] = hand[g]
    BY <1>0, <1>3 DEF Claim, Hand
  <2>2. runs[r] = 0
    BY <1>0, <2>1 DEF Effects
  <2> QED
    BY <2>1, <2>2 DEF Effects, Claimant
<1>4. ASSUME NEW h \in Hosts, InvokeRuns(h) PROVE Effects'
  <2> DEFINE r == hand[h].request
  <2>1. /\ hand[h].pc = "invoke" /\ r \in Requests /\ Frame(r).tool \in Adapters
        /\ claimed' = claimed /\ runs' = [runs EXCEPT ![r] = @ + 1]
        /\ hand'[h] = [pc |-> "emit", request |-> r] /\ \A g \in Hosts \ {h} : hand'[g] = hand[g]
    BY <1>0, <1>4 DEF InvokeRuns, Hand, Sealed
  <2>2. runs'[r] = 1 /\ \A q \in Requests \ {r} : runs'[q] = runs[q]
    BY <1>0, <2>1 DEF Effects
  <2>3. r \in claimed /\ Governed(r) /\ \A g \in Hosts \ {h} : Claimant(g) => hand[g].request # r
    BY <2>1 DEF Effects, Claimant
  <2> QED
    BY <1>0, <2>1, <2>2, <2>3 DEF Effects, Claimant
<1> QED
  BY <1>1, <1>2, <1>3, <1>4, HandMoves

LEMMA EffectsHold == Spec => []Effects
<1>1. Init => Effects
  BY DEF Init, Effects, Claimant, FreeHand
<1> QED
  BY <1>1, EffectsStep, Types, PTL DEF Spec

(* However often a frame is written, to whichever hosts, and whenever they *)
(* die, its effect runs at most once.                                      *)
THEOREM EffectsOnce == Spec => []OneEffectPerRequest
<1>1. Effects => OneEffectPerRequest
  BY DEF Effects, OneEffectPerRequest
<1> QED
  BY <1>1, EffectsHold, PTL

(* Only Intents of the bound agent, for a sealed tool, with a claimed id,  *)
(* have an effect.                                                         *)
THEOREM GovernedOnly == Spec => []OnlyGovernedRuns
<1>1. Effects => OnlyGovernedRuns
  BY DEF Effects, Governed, OnlyGovernedRuns
<1> QED
  BY <1>1, EffectsHold, PTL

-----------------------------------------------------------------------------
(* After a timeout                                                         *)

(* The frame of r is on its way to the effect at host h.                   *)
Near(h, r) == hand[h].request = r \/ \E i \in DOMAIN inbox[h] : inbox[h][i] = r

(* A caller that waits has no reply yet, and nobody else waits for the     *)
(* same; a host that is down has nothing in hand and nobody to answer; a   *)
(* frame that was written once is near only the host its caller waits for, *)
(* unless that caller has read some line as its answer.                    *)
Requested ==
  /\ \A h \in Hosts : client[h].waiting # NoRequest => up[h]
  /\ \A h \in Hosts, r \in Requests : Near(h, r) => up[h]
  /\ \A h \in Hosts : client[h].waiting # NoRequest => reply[client[h].waiting].type = "none"
  /\ \A g, h \in Hosts : client[g].waiting = client[h].waiting /\ client[g].waiting # NoRequest => g = h
  /\ \A h \in Hosts, r \in Requests : Near(h, r) /\ r \notin repeated =>
       client[h].waiting = r \/ reply[r].type = "line"

(* A host comes near a request only when its frame is written.             *)
LEMMA NearStep ==
  ASSUME TypeInv, [Next]_vars, NEW h \in Hosts, NEW r \in Requests, Near(h, r)'
  PROVE  /\ Near(h, r) \/ Request(h, r) \/ Inject(h, r)
         /\ ~Killed(h)
<1>0. /\ hand \in [Hosts -> HandType] /\ inbox \in [Hosts -> Seq(Requests)]
      /\ NoRequest \notin Requests /\ FreeHand.request = NoRequest
  BY HostAssumption DEF TypeInv, TypeOK, FreeHand
<1> DEFINE Nearer == Near(h, r) \/ Request(h, r) \/ Inject(h, r)
<1>1. ASSUME NEW g \in Hosts, Killed(g) PROVE g # h /\ Nearer
  <2>1. hand'[g] = FreeHand /\ inbox'[g] = <<>>
    BY <1>0, <1>1 DEF Killed
  <2>2. g # h
    BY <1>0, <2>1 DEF Near
  <2>3. hand'[h] = hand[h] /\ inbox'[h] = inbox[h]
    BY <1>0, <1>1, <2>2 DEF Killed
  <2> QED
    BY <2>2, <2>3 DEF Near
<1>2. ~Killed(h)
  BY <1>1
<1>3. ASSUME NEW g \in Hosts, NEW q \in Requests, Request(g, q) \/ Inject(g, q) PROVE Nearer
  <2>1. hand' = hand /\ inbox' = [inbox EXCEPT ![g] = Append(@, q)]
    BY <1>3 DEF Request, Inject, Write, host
  <2>2. CASE g = h /\ q = r
    BY <1>3, <2>2
  <2>3. CASE g # h
    BY <1>0, <2>1, <2>3 DEF Near
  <2>4. CASE g = h /\ q # r
    <3>1. inbox'[h] = Append(inbox[h], q) /\ inbox[h] \in Seq(Requests)
      BY <1>0, <2>1, <2>4
    <3>2. \A i \in DOMAIN inbox'[h] : inbox'[h][i] = r => i \in DOMAIN inbox[h] /\ inbox[h][i] = r
      BY <2>4, <3>1
    <3> QED
      BY <2>1, <3>2 DEF Near
  <2> QED
    BY <2>2, <2>3, <2>4
<1>4. ASSUME NEW g \in Hosts, Receive(g) PROVE Nearer
  <2>1. /\ inbox[g] # <<>> /\ inbox' = [inbox EXCEPT ![g] = Tail(@)]
        /\ \/ hand' = hand
           \/ hand' = [hand EXCEPT ![g] = FreeHand]
           \/ hand' = [hand EXCEPT ![g] = [pc |-> "claim", request |-> inbox[g][1]]]
    BY <1>4 DEF Receive, Conclude, Hand, FreeHand
  <2>2. CASE g # h
    BY <1>0, <2>1, <2>2 DEF Near
  <2>3. CASE g = h
    <3>1. inbox[h] \in Seq(Requests) /\ inbox[h] # <<>> /\ inbox'[h] = Tail(inbox[h])
      BY <1>0, <2>1, <2>3
    <3>2. \A i \in DOMAIN inbox'[h] : i + 1 \in DOMAIN inbox[h] /\ inbox'[h][i] = inbox[h][i + 1]
      BY <3>1
    <3>3. 1 \in DOMAIN inbox[h]
      BY <3>1
    <3>4. hand'[h].request \in {hand[h].request, NoRequest, inbox[h][1]}
      BY <1>0, <2>1, <2>3
    <3> QED
      BY <1>0, <3>2, <3>3, <3>4 DEF Near
  <2> QED
    BY <2>2, <2>3
<1>5. ASSUME NEW g \in Hosts,
             \/ Claim(g) \/ ClaimFails(g) \/ AdmitAgent(g) \/ InvokeRaises(g) \/ InvokeRefuses(g)
             \/ InvokeRuns(g) \/ InvokeEmits(g) \/ Finish(g)
      PROVE  Nearer
  <2>1. inbox' = inbox
    BY <1>5 DEF Claim, ClaimFails, AdmitAgent, InvokeRaises, InvokeRefuses, InvokeRuns, InvokeEmits, Finish
  <2>2. \E pc : Hand(g, pc, hand[g].request) \/ Hand(g, pc, NoRequest)
    BY <1>5 DEF Claim, ClaimFails, AdmitAgent, InvokeRaises, InvokeRefuses, InvokeRuns, InvokeEmits,
       Finish, Conclude
  <2>3. hand'[h].request \in {hand[h].request, NoRequest}
    BY <1>0, <2>2 DEF Hand
  <2> QED
    BY <1>0, <2>1, <2>3 DEF Near
<1>6. ASSUME NEW g \in Hosts, Spawn(g) PROVE Nearer
  <2>1. hand' = hand /\ inbox' = [inbox EXCEPT ![g] = <<>>]
    BY <1>6 DEF Spawn, host
  <2> QED
    BY <1>0, <2>1 DEF Near
<1>7. Nearer
  <2>1. ASSUME NEW g \in Hosts, Sync(g) \/ ReadReply(g) PROVE hand' = hand /\ inbox' = inbox
    BY <2>1 DEF Sync, ReadReply, host
  <2>2. ASSUME NEW g \in Hosts, Timeout(g) \/ Crash(g) \/ Close(g) PROVE Killed(g)
    BY <2>2 DEF Timeout, Crash, Close
  <2>3. UNCHANGED vars => hand' = hand /\ inbox' = inbox
    BY DEF vars
  <2>4. hand' = hand /\ inbox' = inbox => Nearer
    BY DEF Near
  <2> QED
    BY <1>1, <1>3, <1>4, <1>5, <1>6, <2>1, <2>2, <2>3, <2>4 DEF Next, Handle
<1> QED
  BY <1>2, <1>7

LEMMA RequestedStep == TypeInv /\ Requested /\ [Next]_vars => Requested'
<1> SUFFICES ASSUME TypeInv, Requested, [Next]_vars PROVE Requested'
  OBVIOUS
<1> DEFINE ClientType == [synced: BOOLEAN, alone: BOOLEAN, waiting: Requests \cup {NoRequest}]
<1>0. /\ client \in [Hosts -> ClientType] /\ up \in [Hosts -> BOOLEAN] /\ NoRequest \notin Requests
      /\ reply = [r \in Requests |-> reply[r]]
  BY HostAssumption DEF TypeInv, TypeOK
<1>1. \A h \in Hosts, r \in Requests : Near(h, r)' =>
        (Near(h, r) \/ Request(h, r) \/ Inject(h, r)) /\ ~Killed(h)
  BY NearStep
<1>2. ASSUME UNCHANGED <<up, client, reply, repeated>>, \A h \in Hosts, r \in Requests : Near(h, r)' => Near(h, r)
      PROVE  Requested'
  BY <1>2 DEF Requested
<1>3. ASSUME sends' = sends, NEW h \in Hosts, NEW r \in Requests, Near(h, r)'
      PROVE  Near(h, r) /\ ~Killed(h)
  <2>1. sends \in Int
    BY DEF TypeInv, TypeOK
  <2>2. ~Request(h, r) /\ ~Inject(h, r)
    BY <1>3, <2>1 DEF Request, Inject, Write
  <2> QED
    BY <1>1, <1>3, <2>2
<1>4. ASSUME NEW h \in Hosts, NEW r \in Requests, Request(h, r) PROVE Requested'
  <2>1. /\ up[h] /\ UNCHANGED <<up, reply, repeated>>
        /\ client[h].waiting = NoRequest
        /\ client' = [client EXCEPT ![h].waiting = r]
        /\ reply[r].type = "none" /\ \A g \in Hosts : client[g].waiting # r
    BY <1>4 DEF Request, Write, Written, NoReply
  <2>2. client'[h].waiting = r /\ \A g \in Hosts \ {h} : client'[g] = client[g]
    BY <1>0, <2>1
  <2>3. ASSUME NEW g \in Hosts, NEW q \in Requests, Near(g, q)' PROVE Near(g, q) \/ (g = h /\ q = r)
    <3>1. CASE Request(g, q)
      <4>1. client'[g].waiting = q /\ client[g].waiting = NoRequest
        BY <1>0, <3>1 DEF Request
      <4> QED
        BY <1>0, <2>2, <4>1
    <3>2. CASE Inject(g, q)
      <4>1. client'[h].waiting = client[h].waiting
        BY <1>0, <3>2 DEF Inject
      <4> QED
        BY <1>0, <2>1, <2>2, <4>1
    <3> QED
      BY <1>1, <2>3, <3>1, <3>2
  <2> QED
    BY <1>0, <2>1, <2>2, <2>3 DEF Requested
<1>5. ASSUME NEW h \in Hosts, NEW r \in Requests, Inject(h, r) PROVE Requested'
  <2>1. UNCHANGED <<up, reply>> /\ repeated' = repeated \cup {r}
    BY <1>5 DEF Inject
  <2>2. \A g \in Hosts : client'[g].waiting = client[g].waiting
    BY <1>0, <1>5 DEF Inject
  <2>3. ASSUME NEW g \in Hosts, NEW q \in Requests, Near(g, q)'
        PROVE  up[g] /\ (Near(g, q) \/ q \in repeated')
    <3>1. CASE Request(g, q)
      <4>1. client'[g].waiting = q /\ client[g].waiting = NoRequest
        BY <1>0, <3>1 DEF Request
      <4> QED
        BY <1>0, <2>2, <4>1
    <3>2. CASE Inject(g, q)
      BY <3>2 DEF Inject, Write
    <3>3. CASE Near(g, q)
      BY <3>3 DEF Requested
    <3> QED
      BY <1>1, <2>3, <3>1, <3>2, <3>3
  <2> QED
    BY <2>1, <2>2, <2>3 DEF Requested
<1>6. ASSUME NEW h \in Hosts, Spawn(h) PROVE Requested'
  <2>1. ~up[h] /\ up' = [up EXCEPT ![h] = TRUE] /\ UNCHANGED <<sends, reply, repeated>>
    BY <1>6 DEF Spawn
  <2>2. client'[h].waiting = NoRequest /\ \A g \in Hosts \ {h} : client'[g] = client[g]
    BY <1>0, <1>6 DEF Spawn
  <2>3. \A r \in Requests : ~Near(h, r)
    BY <2>1 DEF Requested
  <2> QED
    BY <1>0, <1>3, <2>1, <2>2, <2>3 DEF Requested
<1>7. ASSUME NEW h \in Hosts, Sync(h) PROVE Requested'
  <2>1. UNCHANGED <<up, sends, reply, repeated>>
    BY <1>7 DEF Sync
  <2>2. \A g \in Hosts : client'[g].waiting = client[g].waiting
    BY <1>0, <1>7 DEF Sync
  <2> QED
    BY <1>3, <2>1, <2>2 DEF Requested
<1>8. ASSUME NEW h \in Hosts, ReadReply(h) PROVE Requested'
  <2> DEFINE w == client[h].waiting
  <2>1. UNCHANGED <<up, sends, repeated>> /\ w \in Requests
    BY <1>0, <1>8 DEF ReadReply
  <2>2. client'[h].waiting = NoRequest /\ \A g \in Hosts \ {h} : client'[g] = client[g]
    BY <1>0, <1>8 DEF ReadReply
  <2>3. reply'[w].type = "line" /\ \A r \in Requests \ {w} : reply'[r] = reply[r]
    <3>1. reply' = [reply EXCEPT ![w] = [type |-> "line", line |-> outbox[h][1],
                      synced |-> client[h].synced /\ client[h].alone]]
      BY <1>8 DEF ReadReply
    <3>2. reply'[w] = [type |-> "line", line |-> outbox[h][1],
                       synced |-> client[h].synced /\ client[h].alone]
      BY <1>0, <2>1, <3>1
    <3> QED
      BY <1>0, <3>1, <3>2
  <2> QED
    BY <1>0, <1>3, <2>1, <2>2, <2>3 DEF Requested
<1>9. ASSUME NEW h \in Hosts, Timeout(h) \/ Crash(h) PROVE Requested'
  <2> DEFINE w == client[h].waiting
  <2>1. /\ UNCHANGED <<sends, repeated>> /\ up' = [up EXCEPT ![h] = FALSE]
        /\ Killed(h)
    BY <1>9 DEF Timeout, Crash, Killed
  <2>2. client'[h].waiting = NoRequest /\ \A g \in Hosts \ {h} : client'[g] = client[g]
    BY <1>0, <1>9 DEF Timeout, Crash
  <2>3. \A r \in Requests : r # w => reply'[r] = reply[r]
    BY <1>0, <1>9 DEF Timeout, Crash
  <2>4. ASSUME NEW g \in Hosts, NEW r \in Requests, Near(g, r)' PROVE Near(g, r) /\ g # h
    BY <1>3, <2>1, <2>4
  <2> QED
    BY <1>0, <2>1, <2>2, <2>3, <2>4 DEF Requested
<1>10. ASSUME NEW h \in Hosts, Close(h) PROVE Requested'
  <2>1. /\ UNCHANGED <<sends, client, reply, repeated>> /\ up' = [up EXCEPT ![h] = FALSE]
        /\ Killed(h) /\ client[h].waiting = NoRequest
    BY <1>10 DEF Close, Killed
  <2>2. ASSUME NEW g \in Hosts, NEW r \in Requests, Near(g, r)' PROVE Near(g, r) /\ g # h
    BY <1>3, <2>1, <2>2
  <2> QED
    BY <1>0, <2>1, <2>2 DEF Requested
<1>11. ASSUME NEW h \in Hosts, Handle(h) PROVE Requested'
  <2>1. UNCHANGED <<up, client, reply, repeated, sends>>
    BY <1>11 DEF Handle, Receive, Claim, ClaimFails, AdmitAgent, InvokeRaises, InvokeRefuses, InvokeRuns,
       InvokeEmits, Finish, channel
  <2> QED
    BY <1>2, <1>3, <2>1
<1>12. CASE UNCHANGED vars
  BY <1>12 DEF vars, Requested, Near
<1> QED
  BY <1>4, <1>5, <1>6, <1>7, <1>8, <1>9, <1>10, <1>11, <1>12 DEF Next

LEMMA RequestedHolds == Spec => []Requested
<1>1. Init => Requested
  BY HostAssumption DEF Init, Requested, Near, FreeHand
<1> QED
  BY <1>1, RequestedStep, Types, PTL DEF Spec

(* A timeout or a closed pipe is final: the effect of a request that was   *)
(* written once does not run after its caller was told either.             *)
THEOREM TimeoutsAreFinal == Spec => NoEffectAfterTimeout
<1> DEFINE Final == \A r \in Requests : reply[r] \in {TimedOut, Closed} /\ r \notin repeated
                      => runs'[r] = runs[r]
<1>1. ASSUME TypeInv, Requested, [Next]_vars PROVE Final
  <2> SUFFICES ASSUME NEW r \in Requests, reply[r] \in {TimedOut, Closed}, r \notin repeated
               PROVE  runs'[r] = runs[r]
    OBVIOUS
  <2>1. reply[r].type # "line" /\ reply[r].type # "none"
    BY DEF TimedOut, Closed
  <2>2. \A h \in Hosts : hand[h].request # r
    <3>1. \A h \in Hosts : client[h].waiting # r
      BY <1>1, <2>1, HostAssumption DEF Requested
    <3>2. \A h \in Hosts : ~Near(h, r)
      BY <1>1, <2>1, <3>1 DEF Requested
    <3> QED
      BY <3>2 DEF Near
  <2>3. ASSUME NEW h \in Hosts, InvokeRuns(h) PROVE runs'[r] = runs[r]
    BY <1>1, <2>2, <2>3 DEF InvokeRuns, TypeInv, TypeOK
  <2> QED
    <3>1. \A h \in Hosts : Quiet(h) \/ Claim(h) => runs' = runs
      BY DEF Quiet, Claim
    <3> QED
      BY <1>1, <2>3, <3>1, HandMoves
<1>2. TypeInv /\ Requested /\ [Next]_vars => [Final]_vars
  BY <1>1
<1> QED
  BY <1>2, RequestedHolds, Types, PTL DEF Spec, NoEffectAfterTimeout

-----------------------------------------------------------------------------
(* Replies                                                                 *)

(* The line answers r: it names r or nothing, and what it reports has run. *)
Own(line, r) ==
  /\ line.type = "result" /\ line.request \in {r, NoRequest}
  /\ line.ok => runs[r] = 1

Idle(h) == inbox[h] = <<>> /\ hand[h] = FreeHand

(* The request its caller waits for is the one thing in the pipe: it is on *)
(* its way in, in the host's hand, or answered.                            *)
Serving(h, w) ==
  \/ inbox[h] = <<w>> /\ hand[h] = FreeHand /\ outbox[h] = <<>>
  \/ inbox[h] = <<>> /\ hand[h].pc # "free" /\ hand[h].request = w /\ outbox[h] = <<>>
  \/ Idle(h) /\ Len(outbox[h]) = 1 /\ Own(outbox[h][1], w)

(* A caller that has read the ready line and is alone on the pipe is in    *)
(* turn with its host; one that has not is in turn as long as that line is *)
(* the next and it waits for nothing.                                      *)
InTurn(h) ==
  /\ client[h].waiting # NoRequest => Frame(client[h].waiting).kind # "ping"
  /\ \A i \in DOMAIN outbox[h] : outbox[h][i] = Ready => i = 1
  /\ client[h].alone /\ client[h].synced /\ client[h].waiting = NoRequest => Idle(h) /\ outbox[h] = <<>>
  /\ client[h].alone /\ client[h].synced /\ client[h].waiting # NoRequest => Serving(h, client[h].waiting)
  /\ client[h].alone /\ ~client[h].synced /\ client[h].waiting = NoRequest /\ 1 \in DOMAIN outbox[h]
     /\ outbox[h][1] = Ready => Idle(h) /\ Len(outbox[h]) = 1

Replies == (\A h \in Hosts : InTurn(h)) /\ ReplyIsOwn

(* An effect that has run has run for good.                                *)
LEMMA RunsStay ==
  ASSUME TypeInv, Effects, Effects', [Next]_vars, NEW r \in Requests, runs[r] = 1
  PROVE  runs'[r] = 1
<1>0. runs \in [Requests -> Nat] /\ runs'[r] <= 1
  BY DEF TypeInv, TypeOK, Effects
<1>1. \A h \in Hosts : Quiet(h) \/ Claim(h) => runs' = runs
  BY DEF Quiet, Claim
<1>2. ASSUME NEW h \in Hosts, InvokeRuns(h) PROVE runs'[r] = 1
  <2>1. hand[h].request \in Requests
    BY <1>2 DEF InvokeRuns, TypeInv, FreeHand
  <2>2. runs'[r] \in {1, 2}
    BY <1>0, <1>2, <2>1 DEF InvokeRuns
  <2> QED
    BY <1>0, <2>2
<1> QED
  BY <1>1, <1>2, HandMoves

LEMMA OwnStays ==
  ASSUME TypeInv, Effects, Effects', [Next]_vars, NEW r \in Requests, NEW line, Own(line, r)
  PROVE  Own(line, r)'
  BY RunsStay DEF Own

(* What a pipe and its ends look like decides whether they are in turn.    *)
LEMMA TurnStays ==
  ASSUME TypeInv, Effects, Effects', [Next]_vars, NEW h \in Hosts, InTurn(h),
         inbox'[h] = inbox[h], outbox'[h] = outbox[h], hand'[h] = hand[h], client'[h] = client[h]
  PROVE  InTurn(h)'
<1>1. client[h].waiting # NoRequest => client[h].waiting \in Requests
  BY DEF TypeInv, TypeOK
<1>2. client[h].waiting # NoRequest /\ Own(outbox[h][1], client[h].waiting)
        => Own(outbox[h][1], client[h].waiting)'
  BY <1>1, OwnStays DEF Own
<1> QED
  BY <1>2 DEF InTurn, Idle, Serving

(* Whoever handles a request leaves one line for it, or has it in hand.    *)
Says(h, r) == \E line \in Lines :
  /\ line.type # "ready" /\ (Frame(r).kind # "ping" => Own(line, r)')
  /\ outbox'[h] = Append(outbox[h], line) /\ hand'[h] = FreeHand
Keeps(h, r) == outbox'[h] = outbox[h] /\ hand'[h].pc # "free" /\ hand'[h].request = r
Takes(h) ==
  /\ hand[h] = FreeHand /\ inbox[h] # <<>> /\ inbox'[h] = Tail(inbox[h])
  /\ Says(h, inbox[h][1]) \/ Keeps(h, inbox[h][1])
Works(h) ==
  /\ hand[h].pc # "free" /\ inbox'[h] = inbox[h]
  /\ Says(h, hand[h].request) \/ Keeps(h, hand[h].request)
Apart(h) == \A g \in Hosts \ {h} :
  inbox'[g] = inbox[g] /\ outbox'[g] = outbox[g] /\ hand'[g] = hand[g] /\ client'[g] = client[g]

LEMMA Answers ==
  ASSUME TypeInv, NEW h \in Hosts, NEW r \in Requests, NEW q \in {r, NoRequest},
         NEW ok \in BOOLEAN, NEW error \in Errors, ok => runs'[r] = 1,
         Answer(h, Result(q, ok, error)), hand'[h] = FreeHand
  PROVE  Says(h, r)
<1> DEFINE line == Result(q, ok, error)
<1>1. line \in Lines
  BY LineTypes
<1>2. line.type = "result" /\ line.request = q /\ line.ok = ok
  BY DEF Result
<1>3. outbox'[h] = Append(outbox[h], line)
  BY DEF Answer, TypeInv
<1>4. Own(line, r)'
  BY <1>2 DEF Own
<1> QED
  BY <1>1, <1>2, <1>3, <1>4 DEF Says

LEMMA HandleMoves ==
  ASSUME TypeInv, Effects, NEW h \in Hosts, Handle(h)
  PROVE  UNCHANGED <<client, reply>> /\ Apart(h) /\ (Takes(h) \/ Works(h))
<1>0. /\ hand \in [Hosts -> HandType] /\ inbox \in [Hosts -> Seq(Requests)] /\ outbox \in [Hosts -> Seq(Lines)]
      /\ hand[h].pc # "free" => hand[h].request \in Requests
      /\ "invalid_frame" \in Errors /\ "channel_unbound" \in Errors
      /\ "channel_identity_mismatch" \in Errors /\ "none" \in Errors /\ "exception" \in Errors
      /\ "request_store_unavailable" \in Errors /\ "request_replay" \in Errors
      /\ FreeHand.pc = "free"
  BY DEF TypeInv, TypeOK, FreeHand, Errors
<1>1. UNCHANGED <<client, reply>>
  BY DEF Handle, Receive, Claim, ClaimFails, AdmitAgent, InvokeRaises, InvokeRefuses, InvokeRuns,
     InvokeEmits, Finish, channel
<1>2. ASSUME NEW pc, NEW r, Hand(h, pc, r)
      PROVE  /\ hand'[h] = [pc |-> pc, request |-> r] /\ hand'[h].pc = pc /\ hand'[h].request = r
             /\ \A g \in Hosts \ {h} : hand'[g] = hand[g]
  <2>1. hand'[h] = [pc |-> pc, request |-> r] /\ \A g \in Hosts \ {h} : hand'[g] = hand[g]
    BY <1>0, <1>2 DEF Hand
  <2> QED
    BY <2>1
<1>3. Hand(h, "free", NoRequest) => hand'[h] = FreeHand
  BY <1>2 DEF FreeHand
<1>4. ASSUME NEW line, Answer(h, line) PROVE \A g \in Hosts \ {h} : outbox'[g] = outbox[g]
  BY <1>0, <1>4 DEF Answer
<1>5. CASE Receive(h)
  <2> DEFINE r == inbox[h][1]
  <2>1. /\ hand[h] = FreeHand /\ inbox[h] # <<>> /\ inbox'[h] = Tail(inbox[h]) /\ r \in Requests
        /\ \A g \in Hosts \ {h} : inbox'[g] = inbox[g]
    BY <1>0, <1>5 DEF Receive
  <2>2. CASE Frame(r).kind = "ping" /\ Answer(h, Pong) /\ UNCHANGED <<hand, hosted>>
    <3>1. Pong \in Lines /\ Pong.type # "ready"
      BY DEF Lines, Pong
    <3>2. outbox'[h] = Append(outbox[h], Pong)
      BY <1>0, <2>2 DEF Answer
    <3>3. Says(h, r)
      BY <2>1, <2>2, <3>1, <3>2 DEF Says
    <3> QED
      BY <1>1, <1>4, <2>1, <2>2, <3>3 DEF Takes, Apart
  <2>3. ASSUME NEW q \in {r, NoRequest}, NEW error \in Errors, Answer(h, Result(q, FALSE, error)),
               hand' = hand \/ Hand(h, "free", NoRequest)
        PROVE  Apart(h) /\ Takes(h)
    <3>1. hand'[h] = FreeHand /\ \A g \in Hosts \ {h} : hand'[g] = hand[g]
      BY <1>2, <1>3, <2>1, <2>3
    <3>2. Says(h, r)
      BY <2>1, <2>3, <3>1, Answers
    <3> QED
      BY <1>1, <1>4, <2>1, <2>3, <3>1, <3>2 DEF Takes, Apart
  <2>4. CASE Hand(h, "claim", r) /\ UNCHANGED <<outbox, hosted>>
    <3>1. hand'[h].pc = "claim" /\ hand'[h].request = r /\ \A g \in Hosts \ {h} : hand'[g] = hand[g]
      BY <1>2, <2>4
    <3>2. Keeps(h, r)
      BY <2>4, <3>1 DEF Keeps
    <3> QED
      BY <1>1, <2>1, <2>4, <3>1, <3>2 DEF Takes, Apart
  <2> QED
    BY <1>0, <1>1, <1>5, <2>2, <2>3, <2>4 DEF Receive, Conclude
<1>6. ASSUME hand[h].pc # "free", inbox' = inbox, UNCHANGED outbox,
             \E pc : pc # "free" /\ Hand(h, pc, hand[h].request)
      PROVE  Apart(h) /\ Works(h)
  BY <1>1, <1>2, <1>6 DEF Works, Keeps, Apart
<1>7. ASSUME hand[h].pc # "free", inbox' = inbox, Hand(h, "free", NoRequest),
             NEW q \in {hand[h].request, NoRequest}, NEW ok \in BOOLEAN, NEW error \in Errors,
             ok => runs'[hand[h].request] = 1, Answer(h, Result(q, ok, error))
      PROVE  Apart(h) /\ Works(h)
  BY <1>0, <1>1, <1>2, <1>3, <1>4, <1>7, Answers DEF Works, Apart
<1>8. CASE Claim(h)
  BY <1>1, <1>6, <1>8 DEF Claim
<1>9. CASE ClaimFails(h)
  BY <1>0, <1>1, <1>7, <1>9 DEF ClaimFails, Conclude
<1>10. CASE AdmitAgent(h)
  BY <1>0, <1>1, <1>6, <1>7, <1>10 DEF AdmitAgent
<1>11. CASE InvokeRaises(h) \/ InvokeRefuses(h) \/ InvokeRuns(h)
  BY <1>1, <1>6, <1>11 DEF InvokeRaises, InvokeRefuses, InvokeRuns
<1>12. CASE InvokeEmits(h)
  BY <1>1, <1>6, <1>12 DEF InvokeEmits
<1>13. CASE Finish(h)
  <2>1. CASE hand[h].pc = "ok"
    <3>1. runs'[hand[h].request] = 1
      BY <1>13, <2>1 DEF Finish, Effects
    <3>2. Answer(h, Result(hand[h].request, TRUE, "none")) /\ Hand(h, "free", NoRequest) /\ inbox' = inbox
      BY <1>13, <2>1 DEF Finish, Conclude
    <3> QED
      BY <1>0, <1>1, <1>7, <2>1, <3>1, <3>2
  <2>2. CASE hand[h].pc = "fail"
    <3>1. Answer(h, Result(hand[h].request, FALSE, "exception")) /\ Hand(h, "free", NoRequest) /\ inbox' = inbox
      BY <1>13, <2>2 DEF Finish, Conclude
    <3> QED
      BY <1>0, <1>1, <1>7, <2>2, <3>1
  <2> QED
    BY <1>13, <2>1, <2>2 DEF Finish
<1> QED
  BY <1>5, <1>8, <1>9, <1>10, <1>11, <1>12, <1>13 DEF Handle

LEMMA TurnHandled ==
  ASSUME TypeInv, Effects, Effects', [Next]_vars, NEW h \in Hosts, InTurn(h), Handle(h)
  PROVE  InTurn(h)'
<1> DEFINE w == client[h].waiting
<1>0. /\ outbox[h] \in Seq(Lines) /\ inbox[h] \in Seq(Requests) /\ client[h].synced \in BOOLEAN
      /\ w \in Requests \cup {NoRequest} /\ NoRequest \notin Requests /\ FreeHand.pc = "free"
      /\ \A line : line = Ready => line.type = "ready"
  BY HostAssumption DEF TypeInv, TypeOK, FreeHand, Ready
<1>1. client' = client /\ (Takes(h) \/ Works(h))
  BY HandleMoves
<1>2. ~Idle(h)
  BY <1>0, <1>1 DEF Takes, Works, Idle
<1>3. \/ outbox'[h] = outbox[h]
      \/ \E line \in Lines : line.type # "ready" /\ outbox'[h] = Append(outbox[h], line)
  BY <1>1 DEF Takes, Works, Says, Keeps
<1>4. \A i \in DOMAIN outbox'[h] : outbox'[h][i] = Ready => i \in DOMAIN outbox[h] /\ outbox[h][i] = Ready
  BY <1>0, <1>3
<1>5. \A i \in DOMAIN outbox'[h] : outbox'[h][i] = Ready => i = 1
  BY <1>4 DEF InTurn
<1>6. ~(/\ client[h].alone /\ ~client[h].synced /\ w = NoRequest
        /\ 1 \in DOMAIN outbox'[h] /\ outbox'[h][1] = Ready)
  BY <1>2, <1>4 DEF InTurn
<1>7. ASSUME client[h].alone, client[h].synced, w # NoRequest PROVE Serving(h, w)'
  <2>1. Serving(h, w) /\ Frame(w).kind # "ping"
    BY <1>7 DEF InTurn
  <2>2. CASE inbox[h] = <<w>> /\ hand[h] = FreeHand /\ outbox[h] = <<>>
    <3>1. Takes(h) /\ inbox[h][1] = w /\ inbox'[h] = <<>>
      BY <1>0, <1>1, <2>2 DEF Takes, Works
    <3>2. CASE Says(h, w)
      BY <2>1, <2>2, <3>1, <3>2 DEF Says, Serving, Idle
    <3>3. CASE Keeps(h, w)
      BY <1>1, <2>2, <3>1, <3>3 DEF Keeps, Serving
    <3> QED
      BY <3>1, <3>2, <3>3 DEF Takes
  <2>3. CASE inbox[h] = <<>> /\ hand[h].pc # "free" /\ hand[h].request = w /\ outbox[h] = <<>>
    <3>1. Works(h) /\ inbox'[h] = <<>>
      BY <1>0, <1>1, <2>3 DEF Takes, Works
    <3>2. CASE Says(h, w)
      BY <2>1, <2>3, <3>1, <3>2 DEF Says, Serving, Idle
    <3>3. CASE Keeps(h, w)
      BY <1>1, <2>3, <3>1, <3>3 DEF Keeps, Serving
    <3> QED
      BY <2>3, <3>1, <3>2, <3>3 DEF Works
  <2> QED
    BY <1>2, <2>1, <2>2, <2>3 DEF Serving
<1>8. ~(client[h].alone /\ client[h].synced /\ w = NoRequest)
  BY <1>2 DEF InTurn
<1>9. w # NoRequest => Frame(w).kind # "ping"
  BY DEF InTurn
<1> QED
  BY <1>1, <1>5, <1>6, <1>7, <1>8, <1>9 DEF InTurn

LEMMA TurnKilled ==
  ASSUME TypeInv, NEW h \in Hosts, Killed(h), client'[h].waiting = NoRequest
  PROVE  InTurn(h)'
<1>1. inbox'[h] = <<>> /\ outbox'[h] = <<>> /\ hand'[h] = FreeHand
  BY DEF Killed, TypeInv, TypeOK
<1> QED
  BY <1>1 DEF InTurn, Idle

LEMMA LastLine ==
  ASSUME NEW S, NEW s \in Seq(S), Len(s) = 1
  PROVE  Tail(s) = <<>>
<1>1. Tail(s) \in Seq(S) /\ Len(Tail(s)) = 0
  OBVIOUS
<1> QED
  BY <1>1, EmptySeq

(* The steps of an agent's end leave the host's as InTurn has it.          *)
LEMMA TurnStep ==
  ASSUME TypeInv, Effects, Effects', Requested, [Next]_vars, \A h \in Hosts : InTurn(h)
  PROVE  \A h \in Hosts : InTurn(h)'
<1> DEFINE ClientType == [synced: BOOLEAN, alone: BOOLEAN, waiting: Requests \cup {NoRequest}]
<1>0. /\ client \in [Hosts -> ClientType] /\ NoRequest \notin Requests
      /\ hand \in [Hosts -> HandType] /\ inbox \in [Hosts -> Seq(Requests)] /\ outbox \in [Hosts -> Seq(Lines)]
  BY HostAssumption DEF TypeInv, TypeOK
<1>1. ASSUME NEW h \in Hosts, Apart(h), InTurn(h)' PROVE \A g \in Hosts : InTurn(g)'
  BY <1>1, TurnStays DEF Apart
<1>2. ASSUME NEW h \in Hosts, Handle(h) PROVE Apart(h) /\ InTurn(h)'
  BY <1>2, HandleMoves, TurnHandled
<1>3. ASSUME NEW h \in Hosts, Timeout(h) \/ Crash(h) \/ Close(h) PROVE Apart(h) /\ InTurn(h)'
  <2>1. Killed(h) /\ client'[h].waiting = NoRequest /\ \A g \in Hosts \ {h} : client'[g] = client[g]
    BY <1>0, <1>3 DEF Timeout, Crash, Close
  <2>2. Apart(h)
    BY <1>0, <2>1 DEF Killed, Apart
  <2> QED
    BY <2>1, <2>2, TurnKilled
<1>4. ASSUME NEW h \in Hosts, Spawn(h) PROVE Apart(h) /\ InTurn(h)'
  <2>1. /\ inbox'[h] = <<>> /\ outbox'[h] = <<Ready>> /\ hand' = hand /\ ~up[h]
        /\ client'[h] = [synced |-> FALSE, alone |-> TRUE, waiting |-> NoRequest]
    BY <1>0, <1>4 DEF Spawn, host
  <2>2. hand[h] = FreeHand
    BY <2>1 DEF Requested, Near, TypeInv
  <2>3. /\ client'[h].synced = FALSE /\ client'[h].waiting = NoRequest
        /\ DOMAIN outbox'[h] = {1} /\ Len(outbox'[h]) = 1
    BY <2>1
  <2>4. InTurn(h)'
    BY <2>1, <2>2, <2>3 DEF InTurn, Idle
  <2> QED
    BY <1>0, <1>4, <2>4 DEF Spawn, host, Apart
<1>5. ASSUME NEW h \in Hosts, Sync(h) PROVE Apart(h) /\ InTurn(h)'
  <2>1. /\ client[h].waiting = NoRequest /\ ~client[h].synced /\ outbox[h] # <<>> /\ outbox[h][1] = Ready
        /\ outbox'[h] = Tail(outbox[h]) /\ inbox' = inbox /\ hand' = hand
        /\ client'[h] = [client[h] EXCEPT !.synced = TRUE]
    BY <1>0, <1>5 DEF Sync, host
  <2>2. client'[h].waiting = NoRequest /\ client'[h].synced /\ client'[h].alone = client[h].alone
    BY <1>0, <2>1
  <2>3. client[h].alone => Idle(h) /\ outbox'[h] = <<>>
    <3>1. 1 \in DOMAIN outbox[h] /\ (Len(outbox[h]) = 1 => Tail(outbox[h]) = <<>>)
      BY <1>0, <2>1, LastLine
    <3> QED
      BY <2>1, <3>1 DEF InTurn
  <2>4. \A i \in DOMAIN outbox'[h] : outbox'[h][i] # Ready
    BY <1>0, <2>1 DEF InTurn
  <2> QED
    BY <1>0, <1>5, <2>1, <2>2, <2>3, <2>4 DEF Sync, host, Apart, InTurn, Idle
<1>6. ASSUME NEW h \in Hosts, ReadReply(h) PROVE Apart(h) /\ InTurn(h)'
  <2>1. /\ client[h].waiting # NoRequest /\ outbox[h] # <<>>
        /\ outbox'[h] = Tail(outbox[h]) /\ inbox' = inbox /\ hand' = hand
        /\ client'[h] = [client[h] EXCEPT !.waiting = NoRequest]
    BY <1>0, <1>6 DEF ReadReply, host
  <2>2. /\ client'[h].waiting = NoRequest /\ client'[h].alone = client[h].alone
        /\ client'[h].synced = client[h].synced
    BY <1>0, <2>1
  <2>3. client[h].alone /\ client[h].synced => Idle(h) /\ outbox'[h] = <<>>
    <3>1. Len(outbox[h]) = 1 => Tail(outbox[h]) = <<>>
      BY <1>0, LastLine
    <3> QED
      BY <2>1, <3>1 DEF InTurn, Serving
  <2>4. \A i \in DOMAIN outbox'[h] : outbox'[h][i] # Ready
    BY <1>0, <2>1 DEF InTurn
  <2> QED
    BY <1>0, <1>6, <2>1, <2>2, <2>3, <2>4 DEF ReadReply, host, Apart, InTurn, Idle
<1>7. ASSUME NEW h \in Hosts, NEW r \in Requests, Request(h, r) PROVE Apart(h) /\ InTurn(h)'
  <2>1. /\ client[h].waiting = NoRequest /\ Frame(r).kind # "ping"
        /\ outbox' = outbox /\ inbox'[h] = Append(inbox[h], r) /\ hand' = hand
        /\ client'[h] = [client[h] EXCEPT !.waiting = r]
    BY <1>0, <1>7 DEF Request, Write, host
  <2>2. /\ client'[h].waiting = r /\ client'[h].alone = client[h].alone
        /\ client'[h].synced = client[h].synced
    BY <1>0, <2>1
  <2>3. client[h].alone /\ client[h].synced => Idle(h) /\ outbox[h] = <<>>
    BY <2>1 DEF InTurn
  <2>4. Idle(h) => inbox'[h] = <<r>>
    BY <2>1 DEF Idle
  <2> QED
    BY <1>0, <1>7, <2>1, <2>2, <2>3, <2>4 DEF Request, Write, host, Apart, InTurn, Idle, Serving
<1>8. ASSUME NEW h \in Hosts, NEW r \in Requests, Inject(h, r) PROVE Apart(h) /\ InTurn(h)'
  <2>1. /\ outbox' = outbox /\ hand' = hand /\ client'[h] = [client[h] EXCEPT !.alone = FALSE]
    BY <1>0, <1>8 DEF Inject, host
  <2>2. client'[h].waiting = client[h].waiting /\ client'[h].alone = FALSE
    BY <1>0, <2>1
  <2>3. InTurn(h)'
    BY <2>1, <2>2 DEF InTurn
  <2> QED
    BY <1>0, <1>8, <2>3 DEF Inject, Write, host, Apart
<1>9. CASE UNCHANGED vars
  BY <1>9, TurnStays DEF vars
<1> QED
  BY <1>1, <1>2, <1>3, <1>4, <1>5, <1>6, <1>7, <1>8, <1>9 DEF Next

LEMMA RepliesStep ==
  TypeInv /\ Effects /\ Effects' /\ Requested /\ Replies /\ [Next]_vars => Replies'
<1> SUFFICES ASSUME TypeInv, Effects, Effects', Requested, Replies, [Next]_vars PROVE Replies'
  OBVIOUS
<1> DEFINE Answered(r) == reply[r].type = "line" /\ reply[r].synced
<1>0. /\ reply = [r \in Requests |-> reply[r]] /\ NoRequest \notin Requests
      /\ \A h \in Hosts : client[h].waiting \in Requests \cup {NoRequest}
  BY HostAssumption DEF TypeInv, TypeOK
<1>1. ASSUME NEW r \in Requests, Answered(r)' PROVE Own(reply[r].line, r)'
  <2>1. CASE reply'[r] = reply[r]
    <3>1. Own(reply[r].line, r)
      BY <1>1, <2>1 DEF Replies, ReplyIsOwn, Own
    <3> QED
      BY <2>1, <3>1, OwnStays DEF Own
  <2>2. ASSUME NEW h \in Hosts, ReadReply(h), reply'[r] # reply[r] PROVE Own(reply[r].line, r)'
    <3>1. /\ r = client[h].waiting /\ outbox[h] # <<>>
          /\ reply'[r] = [type |-> "line", line |-> outbox[h][1],
                          synced |-> client[h].synced /\ client[h].alone]
      BY <1>0, <2>2 DEF ReadReply
    <3>2. client[h].synced /\ client[h].alone /\ reply'[r].line = outbox[h][1]
      <4>1. /\ reply'[r].line = outbox[h][1]
            /\ reply'[r].synced = (client[h].synced /\ client[h].alone)
        BY <3>1
      <4> QED
        BY <1>1, <4>1
    <3>3. Own(outbox[h][1], r)
      BY <1>0, <3>1, <3>2 DEF Replies, InTurn, Serving
    <3> QED
      BY <3>2, <3>3, OwnStays DEF Own
  <2>3. ASSUME NEW h \in Hosts, Timeout(h) \/ Crash(h), reply'[r] # reply[r] PROVE FALSE
    <3>1. reply'[r] \in {TimedOut, Closed}
      BY <1>0, <2>3 DEF Timeout, Crash
    <3> QED
      BY <1>1, <3>1 DEF TimedOut, Closed
  <2>4. ASSUME NEW h \in Hosts, Spawn(h) \/ Sync(h) \/ Close(h) \/ Handle(h) PROVE reply' = reply
    BY <2>4, HandleMoves DEF Spawn, Sync, Close
  <2>5. ASSUME NEW h \in Hosts, NEW q \in Requests, Request(h, q) \/ Inject(h, q) PROVE reply' = reply
    BY <2>5 DEF Request, Inject
  <2>6. UNCHANGED vars => reply' = reply
    BY DEF vars
  <2> QED
    BY <2>1, <2>2, <2>3, <2>4, <2>5, <2>6 DEF Next
<1>2. ReplyIsOwn'
  BY <1>1 DEF ReplyIsOwn, Own
<1> QED
  BY <1>2, TurnStep DEF Replies

(* A caller that has read the ready line and is alone on its pipe gets the *)
(* answer to what it asked, and one that says ok is of an effect that ran. *)
THEOREM RepliesAreOwn == Spec => []ReplyIsOwn
<1>1. Init => Replies
  <2> SUFFICES ASSUME Init PROVE Replies
    OBVIOUS
  <2>1. \A r \in Requests : reply[r].type = "none"
    BY DEF Init, NoReply
  <2> QED
    BY <2>1 DEF Init, Replies, InTurn, Idle, ReplyIsOwn
<1>2. Replies => ReplyIsOwn
  BY DEF Replies
<1> QED
  BY <1>1, <1>2, RepliesStep, EffectsHold, RequestedHolds, Types, PTL DEF Spec

-----------------------------------------------------------------------------
(* What the evidence of a request says                                     *)

HostedType == [request: Requests, ok: BOOLEAN, sealed: Seq(RecordType)]

(* A record that says executed is of a request whose effect ran; one that  *)
(* says it was not is of one whose effect did not run, unless the tool     *)
(* itself raised ExecutionRefused.                                         *)
IsTrue(record, ran) ==
  /\ record.executed => ran[record.request] = 1
  /\ ~record.executed /\ ~record.threw => ran[record.request] = 0
Success(r) == [request |-> r, executed |-> TRUE, threw |-> FALSE]
Attested(e, ran) ==
  /\ \A j \in DOMAIN e.sealed : IsTrue(e.sealed[j], ran)
  /\ e.ok => e.sealed = <<Success(e.request)>>

(* The id of a request is claimed, and no host is on its way to the effect:*)
(* whether it has run is settled.                                          *)
Past(r, taken, hands) ==
  r \in taken /\ \A h \in Hosts : hands[h].pc \in {"admit", "invoke"} => hands[h].request # r
Settled(s, taken, hands) == \A j \in DOMAIN s : Past(s[j].request, taken, hands)

(* The last record is of the request in hand once that has ended well; all *)
(* of them are true of the requests they name, and will stay so.           *)
Evidence ==
  /\ hosted \in [Hosts -> Seq(HostedType)]
  /\ \A h \in Hosts : \A i \in DOMAIN records[h] : IsTrue(records[h][i], runs)
  /\ \A h \in Hosts : Settled(records[h], claimed, hand)
  /\ \A h \in Hosts : hand[h].pc = "ok" =>
       records[h] # <<>> /\ Last(records[h]) = Success(hand[h].request)
  /\ \A h \in Hosts : \A i \in DOMAIN hosted[h] : Attested(hosted[h][i], runs)
  /\ \A h \in Hosts : \A i \in DOMAIN hosted[h] : Settled(hosted[h][i].sealed, claimed, hand)

Spares(h) ==
  /\ records'[h] = records[h] /\ hosted'[h] = hosted[h]
  /\ hand'[h].pc = "ok" => hand'[h] = hand[h]
Forgets(h) == records'[h] = <<>> /\ hosted'[h] = <<>> /\ hand'[h] = FreeHand
Emits(h, executed, threw) ==
  /\ records'[h] = Append(records[h], [request |-> hand[h].request, executed |-> executed,
                                       threw |-> threw])
  /\ hosted'[h] = hosted[h]
  /\ hand[h].pc = IF executed \/ threw THEN "emit" ELSE "invoke"
  /\ hand'[h].pc \in {"ok", "fail"} /\ hand'[h].request = hand[h].request
  /\ hand'[h].pc = "ok" => executed /\ ~threw
Concludes(h, r, ok, sealed) ==
  /\ records'[h] = records[h]
  /\ hosted'[h] = Append(hosted[h], [request |-> r, ok |-> ok, sealed |-> sealed])
  /\ hand'[h] = FreeHand

(* What is settled stays so.                                               *)
LEMMA PastStays ==
  ASSUME TypeInv, Effects, [Next]_vars, NEW r \in Requests, Past(r, claimed, hand)
  PROVE  Past(r, claimed', hand') /\ runs'[r] = runs[r]
<1>0. /\ hand \in [Hosts -> HandType] /\ runs \in [Requests -> Nat]
      /\ \A h \in Hosts : hand[h].pc # "free" => hand[h].request \in Requests
  BY DEF TypeInv, TypeOK, FreeHand
<1>1. CASE UNCHANGED <<claimed, runs, hand>>
  BY <1>1 DEF Past
<1>2. ASSUME NEW h \in Hosts, Quiet(h) PROVE Past(r, claimed', hand') /\ runs'[r] = runs[r]
  <2>1. hand'[h].pc \in {"admit", "invoke"} => hand'[h].request # r
    BY <1>2 DEF Quiet, Onward, Past, FreeHand
  <2> QED
    BY <1>2, <2>1 DEF Quiet, Past
<1>3. ASSUME NEW h \in Hosts, Claim(h) PROVE Past(r, claimed', hand') /\ runs'[r] = runs[r]
  <2>1. /\ hand[h].request # r /\ claimed \subseteq claimed' /\ runs' = runs
        /\ hand'[h] = [pc |-> "admit", request |-> hand[h].request]
        /\ \A g \in Hosts \ {h} : hand'[g] = hand[g]
    BY <1>0, <1>3 DEF Claim, Hand, Past
  <2> QED
    BY <2>1 DEF Past
<1>4. ASSUME NEW h \in Hosts, InvokeRuns(h) PROVE Past(r, claimed', hand') /\ runs'[r] = runs[r]
  <2>1. /\ hand[h].request # r /\ claimed' = claimed
        /\ runs' = [runs EXCEPT ![hand[h].request] = @ + 1]
        /\ hand'[h] = [pc |-> "emit", request |-> hand[h].request]
        /\ \A g \in Hosts \ {h} : hand'[g] = hand[g]
    BY <1>0, <1>4 DEF InvokeRuns, Hand, Past
  <2> QED
    BY <1>0, <2>1 DEF Past
<1> QED
  BY <1>1, <1>2, <1>3, <1>4, HandMoves

LEMMA EvidenceMoves ==
  ASSUME TypeInv, hosted \in [Hosts -> Seq(HostedType)], [Next]_vars, NEW h \in Hosts
  PROVE  \/ Spares(h) \/ Forgets(h) \/ Emits(h, TRUE, FALSE)
         \/ \E threw \in BOOLEAN : Emits(h, FALSE, threw)
         \/ \E r \in Requests : Concludes(h, r, FALSE, <<>>)
         \/ Finish(h) /\ Concludes(h, hand[h].request, hand[h].pc = "ok", LastRecord(h))
<1>0. /\ hand \in [Hosts -> HandType] /\ records \in [Hosts -> Seq(RecordType)]
      /\ hand[h].pc # "free" => hand[h].request \in Requests
  BY DEF TypeInv, TypeOK, FreeHand
<1>1. ASSUME UNCHANGED <<hand, records, hosted>> PROVE Spares(h)
  BY <1>1 DEF Spares
<1>2. ASSUME NEW g \in Hosts, Killed(g) PROVE Spares(h) \/ Forgets(h)
  BY <1>0, <1>2 DEF Killed, Spares, Forgets
<1>3. ASSUME NEW g \in Hosts,
             \/ Spawn(g) \/ Sync(g) \/ ReadReply(g) \/ Timeout(g) \/ Crash(g) \/ Close(g)
             \/ \E r \in Requests : Request(g, r) \/ Inject(g, r)
      PROVE  Spares(h) \/ Forgets(h)
  BY <1>1, <1>2, <1>3 DEF Spawn, Sync, ReadReply, Timeout, Crash, Close, Request, Inject, host
<1>4. ASSUME NEW g \in Hosts, NEW pc, NEW r, Hand(g, pc, r)
      PROVE  /\ g # h => hand'[h] = hand[h]
             /\ g = h => hand'[h] = [pc |-> pc, request |-> r]
             /\ g = h => hand'[h].pc = pc /\ hand'[h].request = r
  <2>1. hand'[h] = IF g = h THEN [pc |-> pc, request |-> r] ELSE hand[h]
    BY <1>0, <1>4 DEF Hand
  <2>2. g = h => hand'[h].pc = pc /\ hand'[h].request = r
    BY <2>1
  <2> QED
    BY <2>1, <2>2
<1>5. ASSUME NEW g \in Hosts, NEW r, NEW ok, NEW error, NEW sealed, Conclude(g, r, ok, error, sealed),
             records' = records
      PROVE  IF g = h THEN Concludes(h, r, ok, sealed) ELSE Spares(h)
  BY <1>4, <1>5 DEF Conclude, Concludes, Spares, FreeHand
<1>6. ASSUME NEW g \in Hosts, Receive(g)
      PROVE  Spares(h) \/ \E r \in Requests : Concludes(h, r, FALSE, <<>>)
  <2>1. inbox[g][1] \in Requests /\ records' = records
    BY <1>6 DEF Receive, TypeInv, TypeOK
  <2>2. \/ UNCHANGED <<hand, hosted>>
        \/ Conclude(g, inbox[g][1], FALSE, "channel_identity_mismatch", <<>>)
        \/ Hand(g, "claim", inbox[g][1]) /\ hosted' = hosted
    BY <1>6 DEF Receive
  <2>3. CASE Hand(g, "claim", inbox[g][1]) /\ hosted' = hosted
    <3>1. hand'[h] = hand[h] \/ hand'[h].pc = "claim"
      BY <1>4, <2>3
    <3> QED
      BY <2>1, <2>3, <3>1 DEF Spares
  <2> QED
    BY <1>1, <1>5, <2>1, <2>2, <2>3
<1>7. ASSUME NEW g \in Hosts, Claim(g) \/ AdmitAgent(g) \/ InvokeRaises(g) \/ InvokeRuns(g)
      PROVE  Spares(h)
  <2>1. UNCHANGED <<records, hosted>>
    BY <1>7 DEF Claim, AdmitAgent, InvokeRaises, InvokeRuns
  <2>2. \E pc \in {"admit", "invoke", "free", "fail", "emit"}, r \in Requests \cup {NoRequest} : Hand(g, pc, r)
    <3>1. hand[g].request \in Requests \cup {NoRequest}
      BY <1>0 DEF HandType
    <3> QED
      BY <1>7, <3>1 DEF Claim, AdmitAgent, InvokeRaises, InvokeRuns
  <2>3. hand'[h] = hand[h] \/ hand'[h].pc # "ok"
    BY <1>4, <2>2
  <2> QED
    BY <2>1, <2>3 DEF Spares
<1>8. ASSUME NEW g \in Hosts, ClaimFails(g)
      PROVE  Spares(h) \/ \E r \in Requests : Concludes(h, r, FALSE, <<>>)
  <2>1. hand[g].request \in Requests /\ records' = records
    BY <1>8 DEF ClaimFails, TypeInv, FreeHand
  <2>2. \E error : Conclude(g, hand[g].request, FALSE, error, <<>>)
    BY <1>8 DEF ClaimFails
  <2> QED
    BY <1>5, <2>1, <2>2
<1>9. ASSUME NEW g \in Hosts, InvokeRefuses(g)
      PROVE  Spares(h) \/ \E threw \in BOOLEAN : Emits(h, FALSE, threw)
  <2>1. Hand(g, "fail", hand[g].request) /\ hosted' = hosted /\ hand[g].pc \in {"invoke", "emit"}
    BY <1>9 DEF InvokeRefuses
  <2>2. records'[h] = IF g = h THEN Append(records[h], [request |-> hand[h].request, executed |-> FALSE,
                                                        threw |-> hand[h].pc = "emit"])
                               ELSE records[h]
    BY <1>0, <1>9 DEF InvokeRefuses, Emit
  <2>3. CASE g # h
    BY <1>4, <2>1, <2>2, <2>3 DEF Spares
  <2>4. CASE g = h
    <3>1. hand'[h].pc = "fail" /\ hand'[h].request = hand[h].request
      BY <1>4, <2>1, <2>4
    <3>2. CASE hand[h].pc = "emit"
      <4>1. records'[h] = Append(records[h], [request |-> hand[h].request, executed |-> FALSE, threw |-> TRUE])
        BY <2>2, <2>4, <3>2
      <4>2. Emits(h, FALSE, TRUE)
        BY <2>1, <3>1, <3>2, <4>1 DEF Emits
      <4> QED
        BY <4>2
    <3>3. CASE hand[h].pc = "invoke"
      <4>1. records'[h] = Append(records[h], [request |-> hand[h].request, executed |-> FALSE, threw |-> FALSE])
        <5>1. (hand[h].pc = "emit") = FALSE
          BY <3>3
        <5> QED
          BY <2>2, <2>4, <5>1
      <4>2. Emits(h, FALSE, FALSE)
        BY <2>1, <3>1, <3>3, <4>1 DEF Emits
      <4> QED
        BY <4>2
    <3> QED
      BY <2>1, <2>4, <3>2, <3>3
  <2> QED
    BY <2>3, <2>4
<1>10. ASSUME NEW g \in Hosts, InvokeEmits(g) PROVE Spares(h) \/ Emits(h, TRUE, FALSE)
  <2>1. PICK pc \in {"ok", "fail"} : Hand(g, pc, hand[g].request)
    BY <1>10 DEF InvokeEmits
  <2>2. hosted' = hosted /\ hand[g].pc = "emit"
    BY <1>10 DEF InvokeEmits
  <2>3. records'[h] = IF g = h THEN Append(records[h], [request |-> hand[h].request, executed |-> TRUE,
                                                        threw |-> FALSE])
                               ELSE records[h]
    BY <1>0, <1>10 DEF InvokeEmits, Emit
  <2>4. CASE g # h
    BY <1>4, <2>1, <2>2, <2>3, <2>4 DEF Spares
  <2>5. CASE g = h
    <3>1. hand'[h].request = hand[h].request /\ hand'[h].pc \in {"ok", "fail"}
      BY <1>4, <2>1, <2>5
    <3> QED
      BY <2>2, <2>3, <2>5, <3>1 DEF Emits
  <2> QED
    BY <2>4, <2>5
<1>11. ASSUME NEW g \in Hosts, Finish(g)
       PROVE  Spares(h) \/ (g = h /\ Concludes(h, hand[h].request, hand[h].pc = "ok", LastRecord(h)))
  <2>1. records' = records
    BY <1>11 DEF Finish
  <2>2. \E error : Conclude(g, hand[g].request, hand[g].pc = "ok", error, LastRecord(g))
    BY <1>11 DEF Finish
  <2> QED
    BY <1>5, <2>1, <2>2
<1> QED
  <2>1. CASE UNCHANGED vars
    BY <1>1, <2>1 DEF vars
  <2>2. ASSUME NEW g \in Hosts, Handle(g)
        PROVE  \/ Spares(h) \/ Emits(h, TRUE, FALSE) \/ \E threw \in BOOLEAN : Emits(h, FALSE, threw)
               \/ \E r \in Requests : Concludes(h, r, FALSE, <<>>)
               \/ Finish(h) /\ Concludes(h, hand[h].request, hand[h].pc = "ok", LastRecord(h))
    BY <1>6, <1>7, <1>8, <1>9, <1>10, <1>11, <2>2 DEF Handle
  <2> QED
    BY <1>3, <2>1, <2>2 DEF Next

(* A longer sequence has its old elements and the new one.                 *)
LEMMA Appends ==
  ASSUME NEW S, NEW s \in Seq(S), NEW e \in S
  PROVE  LET t == Append(s, e)
         IN  /\ t \in Seq(S) /\ t # <<>> /\ Last(t) = e
             /\ \A i \in DOMAIN t : t[i] = e \/ \E j \in DOMAIN s : t[i] = s[j]
BY DEF Last

LEMMA EvidenceStep ==
  ASSUME TypeInv, Effects, Effects', Evidence, [Next]_vars
  PROVE  Evidence'
<1> DEFINE Kept(record) == IsTrue(record, runs') /\ Past(record.request, claimed', hand')
           Shown(e) == Attested(e, runs') /\ Settled(e.sealed, claimed', hand')
<1>0. records \in [Hosts -> Seq(RecordType)] /\ hosted \in [Hosts -> Seq(HostedType)]
  BY DEF TypeInv, Evidence
<1>1. ASSUME NEW e \in RecordType, IsTrue(e, runs), Past(e.request, claimed, hand)
      PROVE  IsTrue(e, runs') /\ Past(e.request, claimed', hand')
  <2>1. Past(e.request, claimed', hand') /\ runs'[e.request] = runs[e.request]
    BY <1>1, PastStays DEF RecordType
  <2> QED
    BY <1>1, <2>1 DEF IsTrue
<1>2. ASSUME NEW e \in HostedType, Attested(e, runs), Settled(e.sealed, claimed, hand)
      PROVE  Attested(e, runs') /\ Settled(e.sealed, claimed', hand')
  <2>1. ASSUME NEW j \in DOMAIN e.sealed PROVE IsTrue(e.sealed[j], runs') /\ Past(e.sealed[j].request, claimed', hand')
    <3>1. e.sealed[j] \in RecordType
      BY <1>2, <2>1 DEF HostedType
    <3> QED
      BY <1>1, <1>2, <2>1, <3>1 DEF Attested, Settled
  <2> QED
    BY <1>2, <2>1 DEF Attested, Settled, Past
<1>3. hosted' = [h \in Hosts |-> hosted'[h]]
  BY <1>0 DEF Next, Spawn, Sync, ReadReply, Timeout, Crash, Close, Killed, Request, Inject, host, vars,
     Handle, Receive, Claim, ClaimFails, AdmitAgent, InvokeRaises, InvokeRefuses, InvokeRuns,
     InvokeEmits, Finish, Conclude
<1>4. ASSUME NEW h \in Hosts
      PROVE  /\ hosted'[h] \in Seq(HostedType)
             /\ \A i \in DOMAIN records'[h] : Kept(records'[h][i])
             /\ hand'[h].pc = "ok" => records'[h] # <<>> /\ Last(records'[h]) = Success(hand'[h].request)
             /\ \A i \in DOMAIN hosted'[h] : Shown(hosted'[h][i])
  <2>0. /\ records[h] \in Seq(RecordType) /\ hosted[h] \in Seq(HostedType)
        /\ hand[h].pc # "free" => hand[h].request \in Requests
    BY <1>0 DEF TypeInv, FreeHand
  <2>1. \A i \in DOMAIN records[h] : Kept(records[h][i])
    <3>1. ASSUME NEW i \in DOMAIN records[h] PROVE Kept(records[h][i])
      <4>1. records[h][i] \in RecordType /\ IsTrue(records[h][i], runs) /\ Past(records[h][i].request, claimed, hand)
        BY <2>0, <3>1 DEF Evidence, Settled
      <4> QED
        BY <1>1, <4>1 DEF Kept
    <3> QED
      BY <3>1
  <2>2. \A i \in DOMAIN hosted[h] : Shown(hosted[h][i])
    <3>1. ASSUME NEW i \in DOMAIN hosted[h] PROVE Shown(hosted[h][i])
      <4>1. hosted[h][i] \in HostedType /\ Attested(hosted[h][i], runs) /\ Settled(hosted[h][i].sealed, claimed, hand)
        BY <2>0, <3>1 DEF Evidence
      <4> QED
        BY <1>2, <4>1 DEF Shown
    <3> QED
      BY <3>1
  <2>3. CASE Spares(h)
    <3>1. records'[h] = records[h] /\ hosted'[h] = hosted[h] /\ (hand'[h].pc = "ok" => hand'[h] = hand[h])
      BY <2>3 DEF Spares
    <3>2. hand[h].pc = "ok" => records[h] # <<>> /\ Last(records[h]) = Success(hand[h].request)
      BY DEF Evidence
    <3> QED
      BY <2>0, <2>1, <2>2, <3>1, <3>2
  <2>4. CASE Forgets(h)
    BY <2>4 DEF Forgets, FreeHand
  <2>5. ASSUME NEW executed \in BOOLEAN, NEW threw \in BOOLEAN, Emits(h, executed, threw), ~(executed /\ threw)
        PROVE  /\ hosted'[h] = hosted[h]
               /\ \A i \in DOMAIN records'[h] : Kept(records'[h][i])
               /\ hand'[h].pc = "ok" => records'[h] # <<>> /\ Last(records'[h]) = Success(hand'[h].request)
    <3> DEFINE r == hand[h].request
               e == [request |-> r, executed |-> executed, threw |-> threw]
    <3>1. r \in Requests /\ hand[h].pc \in {"invoke", "emit"} /\ e \in RecordType
      BY <2>0, <2>5 DEF Emits, RecordType
    <3>2. hand'[h].pc \in {"ok", "fail"} /\ hand'[h].request = r
      BY <2>5 DEF Emits
    <3>3. runs' = runs /\ claimed \subseteq claimed' /\ \A g \in Hosts \ {h} : hand'[g] = hand[g]
      <4>1. hand' # hand /\ hand'[h].pc # "emit" /\ hand'[h].pc # "admit"
        BY <3>1, <3>2
      <4>2. PICK g \in Hosts : Quiet(g) \/ Claim(g) \/ InvokeRuns(g)
        BY <4>1, HandMoves
      <4>3. CASE Quiet(g)
        BY <3>1, <3>2, <4>2, <4>3 DEF Quiet
      <4>4. CASE Claim(g)
        <5>1. hand' = [hand EXCEPT ![g] = [pc |-> "admit", request |-> hand[g].request]]
          BY <4>4 DEF Claim, Hand
        <5>2. hand'[h] = hand[h] \/ hand'[h].pc = "admit"
          BY <5>1 DEF TypeInv, TypeOK
        <5> QED
          BY <3>1, <3>2, <5>2
      <4>5. CASE InvokeRuns(g)
        <5>1. hand' = [hand EXCEPT ![g] = [pc |-> "emit", request |-> hand[g].request]]
          BY <4>5 DEF InvokeRuns, Hand
        <5>2. hand'[h] = hand[h] \/ hand'[h].pc = "emit"
          BY <5>1 DEF TypeInv, TypeOK
        <5> QED
          BY <3>1, <3>2, <5>2
      <4> QED
        BY <4>2, <4>3, <4>4, <4>5
    <3>4. r \in claimed /\ \A g \in Hosts \ {h} : hand[g].pc \in {"admit", "invoke"} => hand[g].request # r
      BY <3>1 DEF Effects, Claimant
    <3>5. Past(r, claimed', hand')
      BY <3>2, <3>3, <3>4 DEF Past
    <3>6. /\ executed => runs[r] = 1
          /\ ~executed /\ ~threw => runs[r] = 0
      BY <2>5 DEF Emits, Effects
    <3>7. IsTrue(e, runs')
      BY <3>3, <3>6 DEF IsTrue
    <3>8. Kept(e)
      BY <3>5, <3>7 DEF Kept
    <3>9. /\ hosted'[h] = hosted[h] /\ records'[h] = Append(records[h], e)
          /\ hand'[h].pc = "ok" => executed /\ ~threw
      BY <2>5 DEF Emits
    <3>10. hand'[h].pc = "ok" => e = Success(hand'[h].request)
      BY <3>2, <3>9 DEF Success
    <3> HIDE DEF e
    <3>11. /\ records'[h] # <<>> /\ Last(records'[h]) = e
           /\ \A i \in DOMAIN records'[h] : records'[h][i] = e \/ \E j \in DOMAIN records[h] : records'[h][i] = records[h][j]
      BY <2>0, <3>1, <3>9, Appends
    <3> QED
      BY <2>1, <3>8, <3>9, <3>10, <3>11
  <2>6. ASSUME NEW r \in Requests, NEW ok \in BOOLEAN, NEW sealed \in Seq(RecordType),
               Concludes(h, r, ok, sealed), \A j \in DOMAIN sealed : IsTrue(sealed[j], runs),
               Settled(sealed, claimed, hand), ok => sealed = <<Success(r)>>
        PROVE  /\ hosted'[h] \in Seq(HostedType) /\ records'[h] = records[h] /\ hand'[h] = FreeHand
               /\ \A i \in DOMAIN hosted'[h] : Shown(hosted'[h][i])
    <3> DEFINE e == [request |-> r, ok |-> ok, sealed |-> sealed]
    <3>1. e \in HostedType
      BY DEF HostedType
    <3>2. Attested(e, runs) /\ Settled(e.sealed, claimed, hand)
      BY <2>6 DEF Attested
    <3>3. Shown(e)
      BY <1>2, <3>1, <3>2 DEF Shown
    <3>4. records'[h] = records[h] /\ hand'[h] = FreeHand /\ hosted'[h] = Append(hosted[h], e)
      BY <2>6 DEF Concludes
    <3> HIDE DEF e
    <3>5. /\ hosted'[h] \in Seq(HostedType)
          /\ \A i \in DOMAIN hosted'[h] : hosted'[h][i] = e \/ \E j \in DOMAIN hosted[h] : hosted'[h][i] = hosted[h][j]
      BY <2>0, <3>1, <3>4, Appends
    <3> QED
      BY <2>2, <3>3, <3>4, <3>5
  <2>7. CASE \E r \in Requests : Concludes(h, r, FALSE, <<>>)
    <3>1. PICK r \in Requests : Concludes(h, r, FALSE, <<>>)
      BY <2>7
    <3>2. <<>> \in Seq(RecordType) /\ DOMAIN <<>> = {}
      OBVIOUS
    <3>3. Settled(<<>>, claimed, hand)
      BY <3>2 DEF Settled
    <3>4. /\ hosted'[h] \in Seq(HostedType) /\ records'[h] = records[h] /\ hand'[h] = FreeHand
          /\ \A i \in DOMAIN hosted'[h] : Shown(hosted'[h][i])
      BY <2>6, <3>1, <3>2, <3>3
    <3> QED
      BY <2>1, <3>4 DEF FreeHand
  <2>8. CASE Finish(h) /\ Concludes(h, hand[h].request, hand[h].pc = "ok", LastRecord(h))
    <3>1. hand[h].request \in Requests /\ (hand[h].pc = "ok") \in BOOLEAN
      BY <2>0, <2>8 DEF Finish
    <3>2. /\ LastRecord(h) \in Seq(RecordType)
          /\ \A j \in DOMAIN LastRecord(h) : IsTrue(LastRecord(h)[j], runs) /\ Past(LastRecord(h)[j].request, claimed, hand)
      <4>1. records[h] # <<>> => /\ Last(records[h]) \in RecordType /\ IsTrue(Last(records[h]), runs)
                                 /\ Past(Last(records[h]).request, claimed, hand)
        BY <2>0 DEF Last, Evidence, Settled
      <4> QED
        BY <4>1 DEF LastRecord
    <3>3. hand[h].pc = "ok" => LastRecord(h) = <<Success(hand[h].request)>>
      BY DEF Evidence, LastRecord
    <3>4. Settled(LastRecord(h), claimed, hand)
      BY <3>2 DEF Settled
    <3>5. /\ hosted'[h] \in Seq(HostedType) /\ records'[h] = records[h] /\ hand'[h] = FreeHand
          /\ \A i \in DOMAIN hosted'[h] : Shown(hosted'[h][i])
      BY <2>6, <2>8, <3>1, <3>2, <3>3, <3>4
    <3> QED
      BY <2>1, <3>5 DEF FreeHand
  <2> QED
    BY <1>0, <2>0, <2>1, <2>2, <2>3, <2>4, <2>5, <2>7, <2>8, EvidenceMoves
<1> QED
  BY <1>3, <1>4 DEF Evidence, Kept, Shown, Settled

(* FORBIDDEN_ACTIONS.md:17 forbids that an "Effect is reported without     *)
(* execution truth".  handle_intent() may attach the evidence of another   *)
(* request, but what a record says of the request it names is so, whether  *)
(* it says executed or not (unless the tool itself raised ExecutionRefused,*)
(* whose effect may be there when the record says not), and that of a      *)
(* request that succeeded is its own.                                      *)
THEOREM EvidenceIsTrueOfItsRequest ==
  Spec => [](\A h \in Hosts : \A i \in DOMAIN hosted[h] : Attested(hosted[h][i], runs))
<1>1. Init => Evidence
  BY DEF Init, Evidence, FreeHand, Settled
<1>2. Evidence => \A h \in Hosts : \A i \in DOMAIN hosted[h] : Attested(hosted[h][i], runs)
  BY DEF Evidence
<1> QED
  BY <1>1, <1>2, EvidenceStep, EffectsHold, Types, PTL DEF Spec

=============================================================================
