--------------------------------- MODULE Pep ---------------------------------
(***************************************************************************)
(* The policy enforcement point, decision_os_min/execute.py, over the      *)
(* spent-token stores of spentstore.py: replicas of an Executor that share *)
(* a store, each running execute() calls in any number of threads.         *)
(*                                                                         *)
(* A call is cut where another thread, another replica, the clock or a     *)
(* crash can come between two of its steps:                                *)
(*   Start     the action is deep-copied                                   *)
(*   Verify    the caller's decision is canonicalized and its signature    *)
(*             checked                                                     *)
(*   Freeze    it is canonicalized again, for the gates and the tool       *)
(*   Check     every gate of _prepare() before the spend                   *)
(*   Spend     try_spend() of the signed token                             *)
(*   Refuse, Commit   the audit record                                     *)
(*   Run       the tool                                                    *)
(* The audit log is what each call wrote to it; its chaining is HashLog's. *)
(***************************************************************************)
EXTENDS Integers, Sequences, FiniteSets

CONSTANTS
  Replicas,    (* executor processes                                       *)
  Calls,       (* identities of execute() calls                            *)
  Tokens,      (* the token ids the kernel has minted                      *)
  Actions,     (* the actions a caller may hold                            *)
  Encodable,   (* those action_fingerprint() can encode                    *)
  Decisions,   (* what the kernel has signed, see Decision                 *)
  Requests,    (* what callers may hand to execute(), see Request          *)
  Rewrites,    (* what they may write over it while the call runs          *)
  StoreKinds,  (* the spent-store implementations deployed                 *)
  Shared,      (* the one store of a durable deployment                    *)
  NoToken,
  MaxTime,     (* bound on the clock                                       *)
  MaxCrashes   (* bound on the crashes of one replica                      *)

Verdict    == {"ALLOW", "LIMIT", "CONTAIN", "DEFER", "DENY"}
PERMITTING == {"ALLOW", "LIMIT", "CONTAIN"}

(* The signed fields execute() reads: the action it is bound to, the       *)
(* folded-in token and its expiry, whether it carries a minimized payload, *)
(* and whether its containment allowlist names the tool.                   *)
Decision == [verdict: Verdict, action: Actions, token: Tokens \cup {NoToken},
             expires: Nat, minimized: BOOLEAN, sandboxed: BOOLEAN]

(* A caller presents a decision with an action and with a registry that    *)
(* has the tool or has not.  The decision is authentic, with the kernel's  *)
(* signature over what it says, or altered; and it is formed, a dictionary *)
(* with the fields execute() reads and a string for its signature, or not. *)
Request == [decision: Decision, authentic: BOOLEAN, formed: BOOLEAN,
            action: Actions, tool: BOOLEAN]

(* Only the kernel can sign, and it signs no malformed decision.           *)
Genuine(k) == k.authentic => k.formed /\ k.decision \in Decisions

ASSUME PepAssumption ==
  /\ Encodable \subseteq Actions
  /\ Decisions \subseteq Decision
  /\ Requests \subseteq Request /\ Rewrites \subseteq Request
  /\ \A q \in Requests \cup Rewrites : Genuine(q)
  /\ StoreKinds \subseteq {"file", "sqlite", "memory"}
  /\ NoToken \notin Tokens
  /\ MaxTime \in Nat /\ MaxCrashes \in Nat
  /\ Shared \notin Replicas \X Nat

VARIABLES
  kind,     (* which store this deployment uses                            *)
  now,      (* the clock                                                   *)
  epoch,    (* how often each replica has been restarted                   *)
  spent,    (* <<scope, token>>: what each store holds                     *)
  call,     (* the execute() calls                                         *)
  log,      (* the audit entries of each call, in order                    *)
  effects   (* history: the tool runs                                      *)

vars == <<kind, now, epoch, spent, call, log, effects>>

(* A durable store outlives every replica.  InMemorySpentStore belongs to  *)
(* one process and dies with it.                                           *)
Scopes   == {Shared} \cup (Replicas \X Nat)
Scope(r) == IF kind = "memory" THEN <<r, epoch[r]>> ELSE Shared

Finished == {"ran", "refused", "raised", "sink_failed", "crashed"}
PCs      == {"idle", "verify", "freeze", "check", "spend", "refuse", "commit", "run"}
              \cup Finished

(* decision, authentic and formed are of the caller's live object until it *)
(* is frozen, live is its action throughout.  steady is a history field:   *)
(* the decision was the same when it was verified and when it was frozen.  *)
CallType == [pc: PCs, replica: Replicas, decision: Decision, authentic: BOOLEAN,
             formed: BOOLEAN, steady: BOOLEAN, action: Actions, live: Actions,
             tool: BOOLEAN, started: Nat, won: BOOLEAN, scope: Scopes]
NoCall == [pc |-> "idle", won |-> FALSE]

(* The locals of a call that has ended are gone; what the properties speak *)
(* of is kept.                                                             *)
Ended(k, pc) == [k EXCEPT !.pc = pc, !.live = k.action]

(* Before its gates have been passed or failed.                            *)
Early == {"idle", "verify", "freeze", "check"}

Active(c) == call[c].pc \notin {"idle"} \cup Finished

-----------------------------------------------------------------------------
(* execute() begins with a deepcopy of the caller's action.                *)
Start(c) ==
  /\ call[c].pc = "idle"
  /\ \E r \in Replicas, q \in Requests :
       call' = [call EXCEPT ![c] =
         [pc |-> "verify", replica |-> r, decision |-> q.decision, authentic |-> q.authentic,
          formed |-> q.formed, steady |-> TRUE, action |-> q.action, live |-> q.action,
          tool |-> q.tool, started |-> now, won |-> FALSE, scope |-> Scope(r)]]
  /\ UNCHANGED <<kind, now, epoch, spent, log, effects>>

(* The caller's dictionaries are its own: they may change while the call   *)
(* runs.  A decision that holds objects whose str() differs from one call  *)
(* to the next changes the same way.                                       *)
ActionMutates(c) ==
  /\ Active(c)
  /\ \E q \in Rewrites : call' = [call EXCEPT ![c].live = q.action]
  /\ UNCHANGED <<kind, now, epoch, spent, log, effects>>

DecisionMutates(c) ==
  /\ call[c].pc \in {"verify", "freeze"}
  /\ \E q \in Rewrites :
       call' = [call EXCEPT ![c].decision = q.decision, ![c].authentic = q.authentic,
                            ![c].formed = q.formed, ![c].steady = call[c].pc = "verify"]
  /\ UNCHANGED <<kind, now, epoch, spent, log, effects>>

(* verify() of the decision.  A malformed one may raise something else than*)
(* InvalidSignature or ValueError, which execute() does not catch.         *)
Verify(c) ==
  /\ call[c].pc = "verify"
  /\ \/ call[c].authentic /\ call' = [call EXCEPT ![c].pc = "freeze"]
     \/ ~call[c].authentic /\ call' = [call EXCEPT ![c].pc = "refuse"]
     \/ ~call[c].formed /\ call' = [call EXCEPT ![c] = Ended(@, "raised")]
  /\ UNCHANGED <<kind, now, epoch, spent, log, effects>>

(* The decision as it is now becomes the one the gates and the tool see.   *)
Freeze(c) ==
  /\ call[c].pc = "freeze"
  /\ \/ call[c].formed /\ call' = [call EXCEPT ![c].pc = "check"]
     \/ ~call[c].formed /\ call' = [call EXCEPT ![c].pc = "refuse"]
     \/ ~call[c].formed /\ call' = [call EXCEPT ![c] = Ended(@, "raised")]
  /\ UNCHANGED <<kind, now, epoch, spent, log, effects>>

(* The gates of _prepare() that come before the spend.                     *)
Permitted(d)  == d.verdict \in PERMITTING /\ d.token # NoToken
Contained(d)  == d.verdict = "CONTAIN" => d.sandboxed
Discharged(d) == d.verdict = "LIMIT" => d.minimized

(* Bug: the expiry is not looked at (see SpentOnlyPastGates).              *)
GatesTimeless(k) ==
  /\ k.decision.action = k.action
  /\ Permitted(k.decision) /\ Contained(k.decision) /\ Discharged(k.decision)
  /\ k.tool

Gates(k) ==
  /\ k.decision.action = k.action
  /\ Permitted(k.decision)
  /\ now < k.decision.expires
  /\ Contained(k.decision)
  /\ k.tool
  /\ Discharged(k.decision)

(* An action that cannot be fingerprinted (a payload that raises           *)
(* UnfingerprintablePayload, labels that do not sort) raises, and execute()*)
(* does not catch it.                                                      *)
Check(c) ==
  /\ call[c].pc = "check"
  /\ LET k == call[c] IN
       call' = [call EXCEPT ![c] =
         IF k.action \notin Encodable THEN Ended(k, "raised")
         ELSE [k EXCEPT !.pc = IF Gates(k) THEN "spend" ELSE "refuse"]]
  /\ UNCHANGED <<kind, now, epoch, spent, log, effects>>

(* Bugs: the store is written without being read (see AtMostOneEffect), or *)
(* read without being written (see ImplementsOneTimeEffect).               *)
SpendUnread(c) ==
  /\ call[c].pc = "spend"
  /\ spent' = spent \cup {<<call[c].scope, call[c].decision.token>>}
  /\ call' = [call EXCEPT ![c].pc = "commit", ![c].won = TRUE]
  /\ UNCHANGED <<kind, now, epoch, log, effects>>

SpendUnmarked(c) ==
  /\ call[c].pc = "spend"
  /\ <<call[c].scope, call[c].decision.token>> \notin spent
  /\ call' = [call EXCEPT ![c].pc = "commit", ![c].won = TRUE]
  /\ UNCHANGED <<kind, now, epoch, spent, log, effects>>

(* try_spend() answers: this call is the first, or the token was spent.    *)
SpendFirst(c) ==
  /\ call[c].pc = "spend"
  /\ <<call[c].scope, call[c].decision.token>> \notin spent
  /\ spent' = spent \cup {<<call[c].scope, call[c].decision.token>>}
  /\ call' = [call EXCEPT ![c].pc = "commit", ![c].won = TRUE]
  /\ UNCHANGED <<kind, now, epoch, log, effects>>

SpendReplay(c) ==
  /\ call[c].pc = "spend"
  /\ <<call[c].scope, call[c].decision.token>> \in spent
  /\ call' = [call EXCEPT ![c].pc = "refuse"]
  /\ UNCHANGED <<kind, now, epoch, spent, log, effects>>

(* The store cannot be reached, or its lock is not granted in time.        *)
SpendUnavailable(c) ==
  /\ call[c].pc = "spend"
  /\ kind # "memory"
  /\ call' = [call EXCEPT ![c].pc = "refuse"]
  /\ UNCHANGED <<kind, now, epoch, spent, log, effects>>

(* FileSpentStore created the marker but could not write or sync it: the   *)
(* call is refused and the marker stays.                                   *)
SpendBurnt(c) ==
  /\ call[c].pc = "spend"
  /\ kind = "file"
  /\ <<call[c].scope, call[c].decision.token>> \notin spent
  /\ spent' = spent \cup {<<call[c].scope, call[c].decision.token>>}
  /\ call' = [call EXCEPT ![c].pc = "refuse"]
  /\ UNCHANGED <<kind, now, epoch, log, effects>>

(* Bugs: the refusal is not raised again (see RefusalIsFinal), or the      *)
(* verdict is logged where the outcome belongs (see TypeOK).               *)
RefuseAndGoOn(c) ==
  /\ call[c].pc = "refuse"
  /\ log' = [log EXCEPT ![c] = Append(@, "refused")]
  /\ call' = [call EXCEPT ![c].pc = "commit"]
  /\ UNCHANGED <<kind, now, epoch, spent, effects>>

RefuseByVerdict(c) ==
  /\ call[c].pc = "refuse"
  /\ log' = [log EXCEPT ![c] = Append(@, call[c].decision.verdict)]
  /\ call' = [call EXCEPT ![c] = Ended(@, "refused")]
  /\ UNCHANGED <<kind, now, epoch, spent, effects>>

(* record(executed=False), after which execute() re-raises the refusal.    *)
Refuse(c) ==
  /\ call[c].pc = "refuse"
  /\ log' = [log EXCEPT ![c] = Append(@, "refused")]
  /\ call' = [call EXCEPT ![c] = Ended(@, "refused")]
  /\ UNCHANGED <<kind, now, epoch, spent, effects>>

(* record(executed=True), before the tool runs.                            *)
Commit(c) ==
  /\ call[c].pc = "commit"
  /\ log' = [log EXCEPT ![c] = Append(@, "executed")]
  /\ call' = [call EXCEPT ![c].pc = "run"]
  /\ UNCHANGED <<kind, now, epoch, spent, effects>>

(* Bug: a sink that raises does not stop the call (see EffectIsAudited).   *)
AuditBestEffort(c) ==
  /\ call[c].pc = "commit"
  /\ call' = [call EXCEPT ![c].pc = "run"]
  /\ UNCHANGED <<kind, now, epoch, spent, log, effects>>

(* The audit sink raises, before its entry is durable or (an anchor that   *)
(* raises) after; execute() lets the exception out.                        *)
AuditFails(c) ==
  /\ call[c].pc \in {"refuse", "commit"}
  /\ \E durable \in BOOLEAN :
       log' = [log EXCEPT ![c] =
         IF ~durable THEN @
         ELSE Append(@, IF call[c].pc = "commit" THEN "executed" ELSE "refused")]
  /\ call' = [call EXCEPT ![c] = Ended(@, "sink_failed")]
  /\ UNCHANGED <<kind, now, epoch, spent, effects>>

(* Bug: the tool is given the caller's dictionary, not the copy that was   *)
(* checked (see EffectIsAuthorized).                                       *)
RunLive(c) ==
  /\ call[c].pc = "run"
  /\ effects' = effects \cup
       {[call |-> c, token |-> call[c].decision.token, action |-> call[c].live,
         minimized |-> call[c].decision.minimized, scope |-> call[c].scope]}
  /\ call' = [call EXCEPT ![c] = Ended(@, "ran")]
  /\ UNCHANGED <<kind, now, epoch, spent, log>>

(* fn(payload): the minimized payload if the decision carries one, else    *)
(* the copied action's.  A tool that raises after its effect is run, too.  *)
Run(c) ==
  /\ call[c].pc = "run"
  /\ effects' = effects \cup
       {[call |-> c, token |-> call[c].decision.token, action |-> call[c].action,
         minimized |-> call[c].decision.minimized, scope |-> call[c].scope]}
  /\ call' = [call EXCEPT ![c] = Ended(@, "ran")]
  /\ UNCHANGED <<kind, now, epoch, spent, log>>

(* The tool raises before it has any effect.                               *)
ToolRaises(c) ==
  /\ call[c].pc = "run"
  /\ call' = [call EXCEPT ![c] = Ended(@, "raised")]
  /\ UNCHANGED <<kind, now, epoch, spent, log, effects>>

(* A replica dies and is restarted: its calls are gone.                    *)
Crash(r) ==
  /\ epoch[r] < MaxCrashes
  /\ epoch' = [epoch EXCEPT ![r] = @ + 1]
  /\ call' = [c \in Calls |-> IF Active(c) /\ call[c].replica = r
                              THEN Ended(call[c], "crashed") ELSE call[c]]
  /\ UNCHANGED <<kind, now, spent, log, effects>>

Tick ==
  /\ now < MaxTime
  /\ now' = now + 1
  /\ UNCHANGED <<kind, epoch, spent, call, log, effects>>

-----------------------------------------------------------------------------
Init ==
  /\ kind \in StoreKinds
  /\ now = 0
  /\ epoch = [r \in Replicas |-> 0]
  /\ spent = {}
  /\ call = [c \in Calls |-> NoCall]
  /\ log = [c \in Calls |-> <<>>]
  /\ effects = {}

Spend(c)  == SpendFirst(c) \/ SpendReplay(c) \/ SpendUnavailable(c) \/ SpendBurnt(c)
Finish(c) == Refuse(c) \/ Commit(c) \/ AuditFails(c) \/ Run(c) \/ ToolRaises(c)
Execute(c) == Verify(c) \/ Freeze(c) \/ Check(c) \/ Spend(c) \/ Finish(c)

CallerMutates(c) == ActionMutates(c) \/ DecisionMutates(c)

Next ==
  \/ \E c \in Calls : Start(c) \/ CallerMutates(c) \/ Execute(c)
  \/ \E r \in Replicas : Crash(r)
  \/ Tick

Spec == Init /\ [][Next]_vars

-----------------------------------------------------------------------------
EffectType == [call: Calls, token: Tokens \cup {NoToken}, action: Actions,
               minimized: BOOLEAN, scope: Scopes]

(* Every variable holds a value of its type.                               *)
TypeOK ==
  /\ kind \in StoreKinds
  /\ now \in Nat
  /\ epoch \in [Replicas -> Nat]
  /\ spent \subseteq Scopes \X (Tokens \cup {NoToken})
  /\ call \in [Calls -> {NoCall} \cup CallType]
  /\ log \in [Calls -> Seq({"executed", "refused"})]
  /\ effects \subseteq EffectType

(* HB-1, "a one-time token is one-time across replicas/restarts": no store *)
(* ever lets two executions of one token through, whatever the replicas,   *)
(* crashes and races.  With a durable store that is one effect per token;  *)
(* with InMemorySpentStore it is one per token and process lifetime.       *)
AtMostOneEffect ==
  \A e, f \in effects : e.token = f.token /\ e.scope = f.scope => e.call = f.call

(* Every effect is what the decision that passed the gates permits: it is  *)
(* bound to its action however the caller's object changed meanwhile, it   *)
(* got the minimized payload whenever there is one, it is within the       *)
(* containment.  And the kernel signed that decision, unless it changed    *)
(* between verify() and the freezing (see FrozenIsVerified).               *)
EffectIsAuthorized ==
  \A e \in effects :
    LET k == call[e.call]  d == k.decision IN
    /\ d.token = e.token /\ d.token # NoToken
    /\ d.verdict \in PERMITTING
    /\ d.action = e.action
    /\ d.minimized \/ d.verdict = "LIMIT" => e.minimized
    /\ d.verdict = "CONTAIN" => d.sandboxed
    /\ k.steady => d \in Decisions

(* HB-3, no unaudited side effect: the call that had an effect wrote       *)
(* exactly one entry, which says executed, even if a crash followed.       *)
EffectIsAudited == \A e \in effects : log[e.call] = <<"executed">>

(* What a call past Check() has passed.                                    *)
PassedGates(k) ==
  /\ k.tool
  /\ k.decision.action = k.action
  /\ Permitted(k.decision) /\ Contained(k.decision) /\ Discharged(k.decision)
  /\ k.started < k.decision.expires
  /\ k.steady => k.authentic

(* A token is spent only for a call that passed every other gate: a missing*)
(* tool, an expired or altered decision, a mismatch, a tool outside the    *)
(* containment or a LIMIT without its payload burns nothing.               *)
SpentOnlyPastGates ==
  \A s \in spent : \E c \in Calls :
    LET k == call[c] IN
    /\ k.pc \notin Early
    /\ k.scope = s[1] /\ k.decision.token = s[2]
    /\ PassedGates(k)

(* A refusal is final: a call that logged one has no effect, and it logs   *)
(* nothing else.                                                           *)
RefusalIsFinal ==
  \A c \in Calls : "refused" \in {log[c][i] : i \in DOMAIN log[c]} =>
    log[c] = <<"refused">> /\ \A e \in effects : e.call # c

(* The enforcement point over a durable store implements OneTimeEffect:    *)
(* a token is claimed when the store holds it, recorded when a call of its *)
(* has logged executed.  InMemorySpentStore makes no such promise.         *)
Durable  == kind # "memory"
Claimed  == {s[2] : s \in {p \in spent : Durable}}
Recorded == {call[c].decision.token : c \in {d \in Calls : Durable /\ log[d] = <<"executed">>}}
RanBy    == [t \in Tokens |-> {e.call : e \in {f \in effects : Durable /\ f.token = t}}]

OneTime == INSTANCE OneTimeEffect WITH claimed <- Claimed, recorded <- Recorded, ranBy <- RanBy

ImplementsOneTimeEffect == OneTime!Spec

(* What makes the promises above inductive.  A call that won the spend      *)
(* keeps its mark in the store, and no two calls hold the same one.        *)
Mark(c) == <<call[c].scope, call[c].decision.token>>

Ownership ==
  /\ \A c \in Calls : call[c].won => call[c].pc \notin Early /\ Mark(c) \in spent
  /\ \A c \in Calls : call[c].pc \in {"commit", "run", "ran"} => call[c].won
  /\ \A c, d \in Calls : call[c].won /\ call[d].won /\ Mark(c) = Mark(d) => c = d

(* What is authentic is signed, what is frozen was verified or has changed *)
(* since, and a call past Check() has passed its gates.                    *)
GatesFirst ==
  \A c \in Calls :
    /\ call[c].pc # "idle" => call[c].started <= now /\ Genuine(call[c])
    /\ call[c].pc \in {"freeze", "check"} => (call[c].steady => call[c].authentic)
    /\ call[c].pc \in {"spend", "commit", "run", "ran"} => PassedGates(call[c])

(* What a call has logged is a function of how far it came.                *)
LogFollows ==
  \A c \in Calls :
    /\ call[c].pc \in {"idle", "verify", "freeze", "check", "spend", "commit", "refuse"}
         => log[c] = <<>>
    /\ call[c].pc \in {"run", "ran"} => log[c] = <<"executed">>
    /\ call[c].pc \in {"raised", "crashed"} => log[c] \in {<<>>, <<"executed">>}
    /\ call[c].pc = "refused" => log[c] = <<"refused">>
    /\ log[c] \in {<<>>, <<"executed">>, <<"refused">>}

(* An effect belongs to the call that ran it.                              *)
EffectsOwned ==
  \A e \in effects :
    LET k == call[e.call] IN
    /\ k.pc = "ran"
    /\ e.token = k.decision.token /\ e.scope = k.scope
    /\ e.action = k.action /\ e.minimized = k.decision.minimized

IInv == TypeOK /\ Ownership /\ GatesFirst /\ LogFollows /\ EffectsOwned /\ SpentOnlyPastGates

(* execute.py:4-7 says the enforcement point "writes EXACTLY ONE audit     *)
(* entry per execute() call - on the way out, whether the effect ran or was*)
(* refused": a call that returned or raised, and whose sink worked, has    *)
(* one.                                                                    *)
ExactlyOneEntry ==
  \A c \in Calls : call[c].pc \in {"ran", "refused", "raised"} => Len(log[c]) = 1

(* execute.py:168-169 says of the frozen decision that it is what "actually*)
(* verified", and that a live object "must not change spend/dispatch": the *)
(* decision a call spends and dispatches by is one the kernel signed.      *)
FrozenIsVerified ==
  \A c \in Calls : call[c].pc \in {"spend", "commit", "run", "ran"} => call[c].authentic

=============================================================================
