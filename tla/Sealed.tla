-------------------------------- MODULE Sealed --------------------------------
(***************************************************************************)
(* SealedRuntime and its AdmissionOffice, decision_os_min/sealed.py: the    *)
(* only way to a sealed tool is invoke(), which admits the caller by a     *)
(* single-use ticket, decides, and arms the executor for one execution.    *)
(* Any number of threads may be in invoke(); the one slot `_arm` is shared *)
(* by all of them, and by whoever calls the public executor directly.  The *)
(* enforcement point behind the arm is Pep's; here it refuses or runs, and *)
(* writes its entry before the tool does.                                  *)
(***************************************************************************)
EXTENDS Verdicts, FiniteSets

CONSTANTS
  Calls,         (* invoke() calls                                         *)
  Agents,
  Identities,    (* what an agent may be registered as: actor, stakeholder *)
  Nonces,        (* of admission tickets                                   *)
  Tools,         (* tool names callers use                                 *)
  SealedTools,   (* those that entered seal()                              *)
  Policies,      (* the verdicts the authority policy gives                *)
  Opinions,      (* the verdicts the legitimacy evaluator gives            *)
  NoOne, NoArm,
  Foreign,       (* an arm with a binding that is no call's                *)
  MaxTime,       (* bound on the clock, and the tickets' expiry            *)
  MaxRestarts    (* bound on the restarts of the runtime                   *)

Ticket == [agent: Agents, identity: Identities, expires: Nat, nonce: Nonces, key: Nat]

ASSUME SealedAssumption ==
  /\ SealedTools \subseteq Tools
  /\ Policies \subseteq VERDICTS /\ Opinions \subseteq VERDICTS
  /\ NoOne \notin Identities /\ {NoArm, Foreign} \cap Calls = {} /\ NoArm # Foreign
  /\ MaxTime \in Nat /\ MaxRestarts \in Nat

VARIABLES
  now,         (* the clock                                                *)
  key,         (* the admission key: each runtime draws its own            *)
  meta,        (* _agent_meta: who each agent is registered as             *)
  issued,      (* the tickets the office has signed                        *)
  spent,       (* "adm:" nonces in the durable spent-store                 *)
  arm,         (* _SealedExecutor._arm                                     *)
  call,        (* the invoke() calls                                       *)
  log,         (* audit entries of each call: was the effect executed?     *)
  evidence,    (* the runtime's EvidenceRecords                            *)
  effects,     (* history: the calls whose tool ran                        *)
  overlapped   (* history: two callers were between arm and execute at once*)

vars == <<now, key, meta, issued, spent, arm, call, log, evidence, effects, overlapped>>
world == <<now, key, meta, issued>>

NoCall   == [pc |-> "idle"]
Gone(pc) == [pc |-> pc]
Rejected == Gone("raised")
Finished == {"returned", "refused", "raised", "killed"}
Busy(c) == call[c].pc \notin {"idle"} \cup Finished

At(c, pc)   == call[c].pc = pc
Goto(c, pc) == call' = [call EXCEPT ![c].pc = pc]

(* The enforcement point has entered the call as executed.                 *)
Executed(c) == log[c] # <<>> /\ log[c][1]

(* What leaves invoke() with no such entry leaves nothing of itself.       *)
Left(c, pc)  == IF Executed(c)' THEN [call[c] EXCEPT !.pc = pc] ELSE Gone(pc)
Leave(c, pc) == call' = [call EXCEPT ![c] = Left(c, pc)]

-----------------------------------------------------------------------------
(* Agents and their tickets                                                *)

RegisterAgent(a, who) ==
  /\ meta[a] # who
  /\ meta' = [meta EXCEPT ![a] = who]
  /\ UNCHANGED <<now, key, issued, spent, arm, call, log, evidence, effects, overlapped>>

(* admit() and AdmissionOffice.issue(): a ticket for who the agent is now. *)
Admit(a) ==
  /\ meta[a] # NoOne
  /\ \E n \in Nonces \ {t.nonce : t \in issued} :
       issued' = issued \cup {[agent |-> a, identity |-> meta[a], expires |-> now + 1,
                               nonce |-> n, key |-> key]}
  /\ UNCHANGED <<now, key, meta, spent, arm, call, log, evidence, effects, overlapped>>

(* AdmissionOffice.verify(): signed by this runtime's key, not expired.    *)
Genuine(t, altered) == ~altered /\ t.key = key /\ now < t.expires

-----------------------------------------------------------------------------
(* invoke()                                                                *)

(* The caller names an agent and a tool and presents a ticket, perhaps     *)
(* altered.  Everything up to the spend of the ticket is checked here.     *)
Admissible(a, t, altered, tool) ==
  /\ meta[a] # NoOne
  /\ Genuine(t, altered)
  /\ t.agent = a
  /\ t.identity = meta[a]
  /\ tool \in SealedTools

(* History: inTime, whether the ticket was spent on the runtime that had   *)
(* signed it and before it expired; threw, whether the tool itself raised  *)
(* ExecutionRefused.                                                       *)
Present(c) ==
  /\ At(c, "idle")
  /\ \E a \in Agents, t \in issued, altered \in BOOLEAN, tool \in Tools :
       call' = [call EXCEPT ![c] =
         IF Admissible(a, t, altered, tool)
         THEN [pc |-> "consume", ticket |-> t, altered |-> altered, agent |-> a, tool |-> tool,
               authority |-> "DENY", legitimacy |-> "DENY", seen |-> NoArm,
               inTime |-> FALSE, threw |-> FALSE]
         ELSE Rejected]
  /\ UNCHANGED <<world, spent, arm, log, evidence, effects, overlapped>>

(* Bug: the ticket is verified and not looked up (see ImplementsOneTimeEffect). *)
ConsumeAgain(c) ==
  /\ At(c, "consume")
  /\ Genuine(call[c].ticket, call[c].altered)
  /\ spent' = spent \cup {call[c].ticket.nonce}
  /\ Goto(c, "decide")
  /\ UNCHANGED <<world, arm, log, evidence, effects, overlapped>>

InTime(t) == t.key = key /\ now < t.expires

(* AdmissionOffice.consume() verifies once more and spends the nonce.      *)
Consume(c) ==
  /\ At(c, "consume")
  /\ Genuine(call[c].ticket, call[c].altered)
  /\ call[c].ticket.nonce \notin spent
  /\ spent' = spent \cup {call[c].ticket.nonce}
  /\ call' = [call EXCEPT ![c].pc = "decide", ![c].inTime = InTime(call[c].ticket)]
  /\ UNCHANGED <<world, arm, log, evidence, effects, overlapped>>

(* A spent ticket, one that has expired meanwhile, or a store that cannot  *)
(* be reached, or that fails after its marker is there: AdmissionError.    *)
ConsumeFails(c) ==
  /\ At(c, "consume")
  /\ \/ spent' = spent
     \/ /\ Genuine(call[c].ticket, call[c].altered)
        /\ spent' = spent \cup {call[c].ticket.nonce}
  /\ call' = [call EXCEPT ![c] = Rejected]
  /\ UNCHANGED <<world, arm, log, evidence, effects, overlapped>>

(* Bug: legitimacy is asked and not composed (see ExecutedIsMediated).     *)
AuthorityAlone(c) == call[c].authority

Verdict(c) == Meet(call[c].authority, call[c].legitimacy)

(* Kernel.decide() with the legitimacy evaluator, and the M5 and signature *)
(* checks on what it returns, which the runtime's own kernel passes.       *)
Decide(c) ==
  /\ At(c, "decide")
  /\ \E v \in Policies, w \in Opinions :
       call' = [call EXCEPT ![c].pc = "arm", ![c].authority = v, ![c].legitimacy = w]
  /\ UNCHANGED <<world, spent, arm, log, evidence, effects, overlapped>>

(* A payload the kernel cannot bind raises out of decide().                *)
DecideRaises(c) ==
  /\ At(c, "decide")
  /\ call' = [call EXCEPT ![c] = Rejected]
  /\ UNCHANGED <<world, spent, arm, log, evidence, effects, overlapped>>

(* The arm names the action binding of this call.                          *)
InArm(c) == call[c].pc \in {"armed", "read"}
(* Bug: the arm names the tool, not the action's binding (see TypeOK).     *)
ArmTool(c) ==
  /\ At(c, "arm")
  /\ arm' = call[c].tool
  /\ Goto(c, "armed")
  /\ UNCHANGED <<world, spent, log, evidence, effects, overlapped>>

Arm(c) ==
  /\ At(c, "arm")
  /\ arm' = c
  /\ Goto(c, "armed")
  /\ overlapped' = (overlapped \/ \E d \in Calls \ {c} : InArm(d))
  /\ UNCHANGED <<world, spent, log, evidence, effects>>

(* execute() reads the arm ...                                             *)
ReadArm(c) ==
  /\ At(c, "armed")
  /\ call' = [call EXCEPT ![c].pc = "read", ![c].seen = arm]
  /\ UNCHANGED <<world, spent, arm, log, evidence, effects, overlapped>>

(* Bug: the arm stays for the next call (see NoLooseArm).                  *)
KeepArm(c) ==
  /\ At(c, "read")
  /\ Goto(c, IF call[c].seen = c THEN "enforce" ELSE "emit_refusal")
  /\ UNCHANGED <<world, spent, arm, log, evidence, effects, overlapped>>

(* ... and clears it; another call's arm, or none, refuses.                *)
ClearArm(c) ==
  /\ At(c, "read")
  /\ arm' = NoArm
  /\ call' = [call EXCEPT ![c].pc = IF call[c].seen = c THEN "enforce" ELSE "emit_refusal",
                          ![c].seen = NoArm]
  /\ UNCHANGED <<world, spent, log, evidence, effects, overlapped>>

(* Whoever holds rt.executor may arm it with a binding of its own, or call *)
(* its execute(), which clears whatever arm is there before it refuses: a  *)
(* caller that is not invoke() has no signed decision to show.             *)
Intrudes == overlapped' = (overlapped \/ \E c \in Calls : InArm(c))

DirectArm ==
  /\ arm' = Foreign
  /\ Intrudes
  /\ UNCHANGED <<world, spent, call, log, evidence, effects>>

DirectExecute ==
  /\ arm' = NoArm
  /\ Intrudes
  /\ UNCHANGED <<world, spent, call, log, evidence, effects>>

(* Executor._prepare() passed, and the entry is durable before the tool.   *)
Enforce(c) ==
  /\ At(c, "enforce")
  /\ Verdict(c) \in PERMITTING
  /\ log' = [log EXCEPT ![c] = Append(@, TRUE)]
  /\ Goto(c, "run")
  /\ UNCHANGED <<world, spent, arm, evidence, effects, overlapped>>

(* It refused: no token, an expiry, an obligation it cannot discharge.     *)
EnforceRefuses(c) ==
  /\ At(c, "enforce")
  /\ log' = [log EXCEPT ![c] = Append(@, FALSE)]
  /\ Goto(c, "emit_refusal")
  /\ UNCHANGED <<world, spent, arm, evidence, effects, overlapped>>

(* The audit sink of the enforcement point raises, before or after its     *)
(* entry is durable.                                                       *)
EnforceRaises(c) ==
  /\ At(c, "enforce")
  /\ \E entry \in {<<>>, <<FALSE>>} \cup {<<TRUE>> : v \in PERMITTING \cap {Verdict(c)}} :
       log' = [log EXCEPT ![c] = @ \o entry]
  /\ Leave(c, "raised")
  /\ UNCHANGED <<world, spent, arm, evidence, effects, overlapped>>

RunTool(c) ==
  /\ At(c, "run")
  /\ effects' = effects \cup {c}
  /\ Goto(c, "emit")
  /\ UNCHANGED <<world, spent, arm, log, evidence, overlapped>>

(* A tool that raises, before or after its effect, leaves invoke() with no *)
(* EvidenceRecord ...                                                      *)
ToolRaises(c) ==
  /\ At(c, "run")
  /\ effects' \in {effects, effects \cup {c}}
  /\ Goto(c, "raised")
  /\ UNCHANGED <<world, spent, arm, log, evidence, overlapped>>

(* ... unless it raises ExecutionRefused, which invoke() takes for a       *)
(* refusal of the enforcement point.                                       *)
ToolRefuses(c) ==
  /\ At(c, "run")
  /\ effects' \in {effects, effects \cup {c}}
  /\ call' = [call EXCEPT ![c].pc = "emit_refusal", ![c].threw = TRUE]
  /\ UNCHANGED <<world, spent, arm, log, evidence, overlapped>>

(* Bugs: the record repeats the verdict, not what happened (see            *)
(* AuditAgrees), or invoke() disarms on its way out (see                   *)
(* ArmStolenOnlyInRace).                                                   *)
EmitVerdict(c) ==
  /\ call[c].pc \in {"emit", "emit_refusal"}
  /\ evidence' = evidence \cup {[call |-> c, executed |-> Verdict(c) \in PERMITTING]}
  /\ Goto(c, IF At(c, "emit") THEN "record" ELSE "record_refusal")
  /\ UNCHANGED <<world, spent, arm, log, effects, overlapped>>

EmitDisarmed(c) ==
  /\ call[c].pc \in {"emit", "emit_refusal"}
  /\ evidence' = evidence \cup {[call |-> c, executed |-> At(c, "emit")]}
  /\ arm' = NoArm
  /\ Goto(c, IF At(c, "emit") THEN "record" ELSE "record_refusal")
  /\ UNCHANGED <<world, spent, log, effects, overlapped>>

(* _emit(): the EvidenceRecord first ...                                   *)
Emit(c) ==
  /\ call[c].pc \in {"emit", "emit_refusal"}
  /\ evidence' = evidence \cup {[call |-> c, executed |-> At(c, "emit")]}
  /\ Goto(c, IF At(c, "emit") THEN "record" ELSE "record_refusal")
  /\ UNCHANGED <<world, spent, arm, log, effects, overlapped>>

(* ... then its audit entry, which may raise.                              *)
EmitRecord(c) ==
  /\ call[c].pc \in {"record", "record_refusal"}
  /\ log' = [log EXCEPT ![c] = Append(@, At(c, "record"))]
  /\ Leave(c, IF At(c, "record") THEN "returned" ELSE "refused")
  /\ UNCHANGED <<world, spent, arm, evidence, effects, overlapped>>

EmitRaises(c) ==
  /\ call[c].pc \in {"record", "record_refusal"}
  /\ \E entry \in {<<>>, <<At(c, "record")>>} : log' = [log EXCEPT ![c] = @ \o entry]
  /\ Leave(c, "raised")
  /\ UNCHANGED <<world, spent, arm, evidence, effects, overlapped>>

-----------------------------------------------------------------------------
(* The process restarts: the arm, the evidence and the calls are gone, the *)
(* admission key is drawn anew; the spent-store and the log remain.        *)
Restart ==
  /\ key < MaxRestarts
  /\ key' = key + 1
  /\ arm' = NoArm
  /\ evidence' = {}
  /\ log' = log
  /\ call' = [c \in Calls |-> IF Busy(c) THEN Left(c, "killed") ELSE call[c]]
  /\ UNCHANGED <<now, meta, issued, spent, effects, overlapped>>

Tick ==
  /\ now < MaxTime
  /\ now' = now + 1
  /\ UNCHANGED <<key, meta, issued, spent, arm, call, log, evidence, effects, overlapped>>

Init ==
  /\ now = 0 /\ key = 0
  /\ meta = [a \in Agents |-> NoOne]
  /\ issued = {} /\ spent = {} /\ evidence = {} /\ effects = {}
  /\ arm = NoArm
  /\ call = [c \in Calls |-> NoCall]
  /\ log = [c \in Calls |-> <<>>]
  /\ overlapped = FALSE

Invoke(c) ==
  \/ Consume(c) \/ ConsumeFails(c) \/ Decide(c) \/ DecideRaises(c)
  \/ Arm(c) \/ ReadArm(c) \/ ClearArm(c)
  \/ Enforce(c) \/ EnforceRefuses(c) \/ EnforceRaises(c)
  \/ RunTool(c) \/ ToolRaises(c) \/ ToolRefuses(c)
  \/ Emit(c) \/ EmitRecord(c) \/ EmitRaises(c)

Next ==
  \/ \E c \in Calls : Present(c) \/ Invoke(c)
  \/ DirectArm \/ DirectExecute
  \/ \E a \in Agents : Admit(a) \/ \E who \in Identities : RegisterAgent(a, who)
  \/ Restart \/ Tick

Spec == Init /\ [][Next]_vars

-----------------------------------------------------------------------------
PCs == {"idle", "consume", "decide", "arm", "armed", "read", "enforce", "run", "emit",
        "emit_refusal", "record", "record_refusal"} \cup Finished
NoCalls == {NoCall} \cup {Gone(pc) : pc \in Finished}
CallType == [pc: PCs, ticket: Ticket, altered: BOOLEAN, agent: Agents, tool: Tools,
             authority: VERDICTS, legitimacy: VERDICTS, seen: Calls \cup {NoArm, Foreign},
             inTime: BOOLEAN, threw: BOOLEAN]

(* Every variable holds a value of its type.                               *)
TypeOK ==
  /\ now \in Nat /\ key \in Nat
  /\ meta \in [Agents -> Identities \cup {NoOne}]
  /\ issued \subseteq Ticket /\ spent \subseteq Nonces
  /\ arm \in Calls \cup {NoArm, Foreign}
  /\ call \in [Calls -> NoCalls \cup CallType]
  /\ log \in [Calls -> Seq(BOOLEAN)]
  /\ evidence \subseteq [call: Calls, executed: BOOLEAN]
  /\ effects \subseteq Calls
  /\ overlapped \in BOOLEAN

(* The claim of sealed.py:4-5, Executed(e) => PEP(e) /\ legitimacy_pass(e) *)
(* /\ authority_pass(e) /\ admitted(e): the tool that ran was sealed, its  *)
(* caller held a genuine ticket of that agent, spent while it was good and *)
(* on the runtime that had signed it, both authorities permitted, and the  *)
(* enforcement point had written its entry.                                *)
ExecutedIsMediated ==
  \A c \in effects :
    LET k == call[c] IN
    /\ k.tool \in SealedTools
    /\ ~k.altered /\ k.ticket \in issued /\ k.ticket.agent = k.agent
    /\ k.ticket.nonce \in spent
    /\ k.inTime
    /\ k.authority \in PERMITTING /\ k.legitimacy \in PERMITTING
    /\ Executed(c)

(* invoke() implements OneTimeEffect with the ticket as the token: it is   *)
(* claimed when the store holds its nonce, recorded when a call admitted by*)
(* it has an executed entry, and admits one effect, whatever threads race  *)
(* for it and however often the runtime restarts.                          *)
Recorded == {call[c].ticket.nonce : c \in {d \in Calls : Executed(d)}}
RanBy    == [n \in Nonces |-> {c \in effects : call[c].ticket.nonce = n}]

OneTime == INSTANCE OneTimeEffect
             WITH Tokens <- Nonces, claimed <- spent, recorded <- Recorded, ranBy <- RanBy

ImplementsOneTimeEffect == OneTime!Spec

(* The three accounts of a call, the entry of the enforcement point, that  *)
(* of _emit() and the EvidenceRecord: an execution on record is of a tool  *)
(* that ran, and a refusal on record of one that did not; the accounts     *)
(* never contradict each other - unless the tool itself raised             *)
(* ExecutionRefused, when an executed entry is followed by a refusal,      *)
(* whatever the tool had done by then.                                     *)
AuditAgrees ==
  /\ \A c \in Calls : \A i \in DOMAIN log[c] :
       /\ log[c][i] # log[c][1] => call[c].threw
       /\ ~log[c][1] => c \notin effects
  /\ \A e \in evidence :
       /\ e.executed => e.call \in effects
       /\ ~e.executed /\ e.call \in effects => call[e.call].threw
       /\ \A i \in DOMAIN log[e.call] : log[e.call][i] # e.executed => call[e.call].threw

(* No arm of a call is left behind: outside the window between arm() and   *)
(* execute() of some call, the executor is not armed with any binding that *)
(* a decision carries, so nothing else can run on it.                      *)
NoLooseArm == arm \in Calls => \E c \in Calls : InArm(c)

(* An admitted call is turned away for another's arm only if the two, or a *)
(* direct caller of the executor, were in that window at the same time.    *)
ArmStolenOnlyInRace ==
  \A c \in Calls : At(c, "emit_refusal") /\ log[c] = <<>> => overlapped

=============================================================================
