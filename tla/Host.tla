--------------------------------- MODULE Host ---------------------------------
(***************************************************************************)
(* The hosted plane, decision_os_min/host.py: AgentHost processes that own *)
(* the effect adapters, each at the far end of a pipe from an agent that   *)
(* can only write frames to it.  A request is a frame and its request_id.  *)
(* The hosts share the durable spent-store, in which they claim the ids of *)
(* requests.  handle_intent() holds a lock, so a host has one request in   *)
(* hand at a time; SealedRuntime.invoke() is cut into what it leaves       *)
(* behind: the effect, the EvidenceRecord, and how it ends.                *)
(***************************************************************************)
EXTENDS Integers, Sequences, FiniteSets

CONSTANTS
  Hosts,
  Requests,      (* request ids, each with its frame, see Frame            *)
  Frame(_),
  Bound,         (* the agent a channel is bound to, if it is              *)
  Adapters,      (* the tools that were sealed                             *)
  NoRequest,
  MaxSends,      (* bound on the frames written                            *)
  MaxSpawns      (* bound on the processes spawned                         *)

ASSUME HostAssumption ==
  /\ \A r \in Requests : Frame(r).kind \in {"intent", "ping", "malformed"}
  /\ NoRequest \notin Requests
  /\ MaxSends \in Nat /\ MaxSpawns \in Nat

VARIABLES
  up,          (* is the host process running?                             *)
  setup,       (* what the host's script has done, see Setups              *)
  spawns,      (* how many processes were spawned                          *)
  sends,       (* how many frames were written                             *)
  inbox,       (* the host's stdin                                         *)
  outbox,      (* the host's stdout                                        *)
  claimed,     (* "ipc:" keys in the spent-store                           *)
  hand,        (* the request in each host's hand and where it stands      *)
  records,     (* runtime.evidence, in memory                              *)
  hosted,      (* AgentHost.evidence, in memory                            *)
  client,      (* the AgentClient of each host                             *)
  reply,       (* history: what request() returned for each request        *)
  runs,        (* history: how often each request's effect has run         *)
  repeated     (* history: the requests whose frame was written again      *)

vars == <<up, setup, spawns, sends, inbox, outbox, claimed, hand, records, hosted, client,
          reply, runs, repeated>>
host    == <<claimed, hand, records, hosted, runs>>
channel == <<up, setup, spawns, sends, client, reply, repeated>>

(* A script binds the channel to an agent and registers it; one that       *)
(* forgets either still serves frames.                                     *)
Setups == {"complete", "unregistered", "unbound"}

Ready == [type |-> "ready"]
Pong  == [type |-> "pong"]
Result(r, ok, error) == [type |-> "result", request |-> r, ok |-> ok, error |-> error]

FreeHand == [pc |-> "free", request |-> NoRequest]
NoReply  == [type |-> "none"]

-----------------------------------------------------------------------------
(* The agent's end: spawn_host() and AgentClient                           *)

(* The new host writes a ready line before it serves.                      *)
Spawn(h) ==
  /\ ~up[h]
  /\ spawns < MaxSpawns
  /\ up' = [up EXCEPT ![h] = TRUE]
  /\ spawns' = spawns + 1
  /\ \E done \in Setups : setup' = [setup EXCEPT ![h] = done]
  /\ inbox' = [inbox EXCEPT ![h] = <<>>]
  /\ outbox' = [outbox EXCEPT ![h] = <<Ready>>]
  /\ client' = [client EXCEPT ![h] = [synced |-> FALSE, alone |-> TRUE, waiting |-> NoRequest]]
  /\ UNCHANGED <<sends, reply, repeated, host>>

(* The caller of spawn_host() may read that line, as the tests do.         *)
Sync(h) ==
  /\ up[h]
  /\ client[h].waiting = NoRequest /\ ~client[h].synced
  /\ outbox[h] # <<>> /\ outbox[h][1] = Ready
  /\ outbox' = [outbox EXCEPT ![h] = Tail(@)]
  /\ client' = [client EXCEPT ![h].synced = TRUE]
  /\ UNCHANGED <<up, setup, spawns, sends, inbox, reply, repeated, host>>

Write(h, r) ==
  /\ up[h]
  /\ sends < MaxSends
  /\ sends' = sends + 1
  /\ inbox' = [inbox EXCEPT ![h] = Append(@, r)]

Written(r) == reply[r] # NoReply \/ \E h \in Hosts : client[h].waiting = r

(* request() draws a fresh request_id and waits for one line.  What it     *)
(* writes is an Intent, which the host may still reject: empty, too long.  *)
Request(h, r) ==
  /\ Frame(r).kind # "ping"
  /\ Write(h, r)
  /\ client[h].waiting = NoRequest
  /\ ~Written(r)
  /\ client' = [client EXCEPT ![h].waiting = r]
  /\ UNCHANGED <<up, setup, spawns, outbox, reply, repeated, host>>

ReadReply(h) ==
  /\ client[h].waiting # NoRequest
  /\ outbox[h] # <<>>
  /\ outbox' = [outbox EXCEPT ![h] = Tail(@)]
  /\ reply' = [reply EXCEPT ![client[h].waiting] =
                 [type |-> "line", line |-> outbox[h][1],
                  synced |-> client[h].synced /\ client[h].alone]]
  /\ client' = [client EXCEPT ![h].waiting = NoRequest]
  /\ UNCHANGED <<up, setup, spawns, sends, inbox, repeated, host>>

(* Bug: the host is asked to terminate, and finishes what it has in hand   *)
(* (see NoEffectAfterTimeout).                                             *)
Terminated(h) ==
  /\ up' = [up EXCEPT ![h] = FALSE]
  /\ inbox' = [inbox EXCEPT ![h] = <<>>]
  /\ outbox' = [outbox EXCEPT ![h] = <<>>]
  /\ UNCHANGED <<hand, records, hosted>>

Killed(h) ==
  /\ up' = [up EXCEPT ![h] = FALSE]
  /\ inbox' = [inbox EXCEPT ![h] = <<>>]
  /\ outbox' = [outbox EXCEPT ![h] = <<>>]
  /\ hand' = [hand EXCEPT ![h] = FreeHand]
  /\ records' = [records EXCEPT ![h] = <<>>]
  /\ hosted' = [hosted EXCEPT ![h] = <<>>]

TimedOut == [type |-> "timeout"]

(* Bug: the client gives up and leaves the host alone (see ReplyIsOwn).    *)
GivesUp(h) ==
  /\ up[h]
  /\ client[h].waiting # NoRequest
  /\ reply' = [reply EXCEPT ![client[h].waiting] = TimedOut]
  /\ client' = [client EXCEPT ![h].waiting = NoRequest]
  /\ UNCHANGED <<up, setup, spawns, sends, inbox, outbox, repeated, host>>

(* The reply is late: the client kills the host, whatever it is at, and    *)
(* raises TimeoutError.                                                    *)
Timeout(h) ==
  /\ up[h]
  /\ client[h].waiting # NoRequest
  /\ Killed(h)
  /\ reply' = [reply EXCEPT ![client[h].waiting] = TimedOut]
  /\ client' = [client EXCEPT ![h].waiting = NoRequest]
  /\ UNCHANGED <<setup, spawns, sends, claimed, runs, repeated>>

(* The host dies by itself; request() finds the pipe closed and raises.    *)
Closed == [type |-> "closed"]
Crash(h) ==
  /\ up[h]
  /\ Killed(h)
  /\ reply' = [r \in Requests |-> IF client[h].waiting = r THEN Closed ELSE reply[r]]
  /\ client' = [client EXCEPT ![h].waiting = NoRequest]
  /\ UNCHANGED <<setup, spawns, sends, claimed, runs, repeated>>

(* close() terminates the host, which may have a frame in hand.            *)
Close(h) ==
  /\ up[h]
  /\ client[h].waiting = NoRequest
  /\ Killed(h)
  /\ UNCHANGED <<setup, spawns, sends, claimed, client, reply, runs, repeated>>

(* Whoever holds the other end of a pipe can ping, or write a known frame  *)
(* again; the client of that pipe is then not alone on it.                 *)
Inject(h, r) ==
  /\ Written(r) \/ Frame(r).kind = "ping"
  /\ Write(h, r)
  /\ repeated' = repeated \cup {r}
  /\ client' = [client EXCEPT ![h].alone = FALSE]
  /\ UNCHANGED <<up, setup, spawns, outbox, reply, host>>

-----------------------------------------------------------------------------
(* The host's end: serve_stdio(), handle_wire() and handle_intent()        *)

Last(s) == s[Len(s)]

Hand(h, pc, r) == hand' = [hand EXCEPT ![h] = [pc |-> pc, request |-> r]]
Answer(h, line) == outbox' = [outbox EXCEPT ![h] = Append(@, line)]

(* An Intent ends with a HostedEvidence and a result line.                 *)
Conclude(h, r, ok, error, sealed) ==
  /\ hosted' = [hosted EXCEPT ![h] = Append(@, [request |-> r, ok |-> ok, sealed |-> sealed])]
  /\ Answer(h, Result(r, ok, error))
  /\ Hand(h, "free", NoRequest)

(* handle_ipc_line() answers a ping, and a frame that is too long, no JSON *)
(* object or no Intent, by itself; handle_wire() answers whatever comes by *)
(* a channel that is not bound; an Intent of another agent is evidence,    *)
(* and goes no further.                                                    *)
Receive(h) ==
  /\ up[h] /\ hand[h] = FreeHand
  /\ inbox[h] # <<>>
  /\ inbox' = [inbox EXCEPT ![h] = Tail(@)]
  /\ LET r == inbox[h][1]
     IN  \/ /\ Frame(r).kind = "ping"
            /\ Answer(h, Pong)
            /\ UNCHANGED <<hand, hosted>>
         \/ /\ Frame(r).kind = "malformed"
            /\ Answer(h, Result(NoRequest, FALSE, "invalid_frame"))
            /\ UNCHANGED <<hand, hosted>>
         \/ /\ Frame(r).kind # "ping" /\ setup[h] = "unbound"
            /\ Answer(h, Result(r, FALSE, "channel_unbound"))
            /\ UNCHANGED <<hand, hosted>>
         \/ /\ Frame(r).kind = "intent" /\ setup[h] # "unbound"
            /\ Frame(r).agent # Bound
            /\ Conclude(h, r, FALSE, "channel_identity_mismatch", <<>>)
         \/ /\ Frame(r).kind = "intent" /\ setup[h] # "unbound"
            /\ Frame(r).agent = Bound
            /\ Hand(h, "claim", r)
            /\ UNCHANGED <<outbox, hosted>>
  /\ UNCHANGED <<channel, claimed, records, runs>>

(* Bug: an id that is taken is taken again (see OneEffectPerRequest).      *)
ClaimAgain(h) ==
  /\ hand[h].pc = "claim"
  /\ claimed' = claimed \cup {hand[h].request}
  /\ Hand(h, "admit", hand[h].request)
  /\ UNCHANGED <<channel, inbox, outbox, records, hosted, runs>>

(* try_spend() of the request id.                                          *)
Claim(h) ==
  /\ hand[h].pc = "claim"
  /\ hand[h].request \notin claimed
  /\ claimed' = claimed \cup {hand[h].request}
  /\ Hand(h, "admit", hand[h].request)
  /\ UNCHANGED <<channel, inbox, outbox, records, hosted, runs>>

(* The id is taken; or the store cannot be reached, or fails after its     *)
(* marker is there, which takes the id all the same.                       *)
ClaimFails(h) ==
  /\ hand[h].pc = "claim"
  /\ \/ /\ hand[h].request \in claimed
        /\ Conclude(h, hand[h].request, FALSE, "request_replay", <<>>)
        /\ UNCHANGED claimed
     \/ /\ claimed' \in {claimed, claimed \cup {hand[h].request}}
        /\ Conclude(h, hand[h].request, FALSE, "request_store_unavailable", <<>>)
  /\ UNCHANGED <<channel, inbox, records, runs>>

(* admit() of an agent that is not registered raises KeyError out of       *)
(* handle_intent(); handle_ipc_line() answers it like a bad frame.         *)
AdmitAgent(h) ==
  /\ hand[h].pc = "admit"
  /\ IF setup[h] = "complete"
     THEN Hand(h, "invoke", hand[h].request) /\ UNCHANGED outbox
     ELSE /\ Answer(h, Result(NoRequest, FALSE, "invalid_frame"))
          /\ Hand(h, "free", NoRequest)
  /\ UNCHANGED <<channel, inbox, claimed, records, hosted, runs>>

(* invoke() raises before it has emitted: a tool that was never sealed, an *)
(* admission that fails, a failing audit sink; or its tool has run, and    *)
(* raises anything but ExecutionRefused.                                   *)
InvokeRaises(h) ==
  /\ hand[h].pc \in {"invoke", "emit"}
  /\ Hand(h, "fail", hand[h].request)
  /\ UNCHANGED <<channel, inbox, outbox, claimed, records, hosted, runs>>

(* Bug: a tool that was never sealed is looked up elsewhere (see           *)
(* OnlyGovernedRuns).                                                      *)
AnyTool(h) == TRUE

Sealed(h) == Frame(hand[h].request).tool \in Adapters

(* Bug: the record does not name its request (see TypeOK).                 *)
EmitUnnamed(h, executed, threw) ==
  records' = [records EXCEPT ![h] = Append(@, [request |-> NoRequest, executed |-> executed,
                                               threw |-> threw])]

(* History: threw, whether the tool itself raised ExecutionRefused.        *)
Emit(h, executed, threw) ==
  records' = [records EXCEPT ![h] = Append(@, [request |-> hand[h].request, executed |-> executed,
                                               threw |-> threw])]

(* The enforcement point refuses: evidence, then SealedRefused.  A tool    *)
(* that has run and raises ExecutionRefused is taken for such a refusal.   *)
InvokeRefuses(h) ==
  /\ hand[h].pc \in {"invoke", "emit"} /\ Sealed(h)
  /\ Emit(h, FALSE, hand[h].pc = "emit")
  /\ Hand(h, "fail", hand[h].request)
  /\ UNCHANGED <<channel, inbox, outbox, claimed, hosted, runs>>

InvokeRuns(h) ==
  /\ hand[h].pc = "invoke" /\ Sealed(h)
  /\ runs' = [runs EXCEPT ![hand[h].request] = @ + 1]
  /\ Hand(h, "emit", hand[h].request)
  /\ UNCHANGED <<channel, inbox, outbox, claimed, records, hosted>>

(* The effect is done; its evidence is kept, and then its second audit     *)
(* entry may fail.                                                         *)
InvokeEmits(h) ==
  /\ hand[h].pc = "emit"
  /\ Emit(h, TRUE, FALSE)
  /\ \E recorded \in BOOLEAN : Hand(h, IF recorded THEN "ok" ELSE "fail", hand[h].request)
  /\ UNCHANGED <<channel, inbox, outbox, claimed, hosted, runs>>

(* The HostedEvidence carries the runtime's last EvidenceRecord.           *)
LastRecord(h) == IF records[h] = <<>> THEN <<>> ELSE <<Last(records[h])>>

Finish(h) ==
  /\ hand[h].pc \in {"ok", "fail"}
  /\ LET ok == hand[h].pc = "ok"
     IN  Conclude(h, hand[h].request, ok, IF ok THEN "none" ELSE "exception", LastRecord(h))
  /\ UNCHANGED <<channel, inbox, claimed, records, runs>>

-----------------------------------------------------------------------------
Init ==
  /\ up = [h \in Hosts |-> FALSE] /\ setup = [h \in Hosts |-> "complete"]
  /\ spawns = 0 /\ sends = 0
  /\ inbox = [h \in Hosts |-> <<>>] /\ outbox = [h \in Hosts |-> <<>>]
  /\ claimed = {}
  /\ hand = [h \in Hosts |-> FreeHand]
  /\ records = [h \in Hosts |-> <<>>] /\ hosted = [h \in Hosts |-> <<>>]
  /\ client = [h \in Hosts |-> [synced |-> FALSE, alone |-> TRUE, waiting |-> NoRequest]]
  /\ reply = [r \in Requests |-> NoReply]
  /\ runs = [r \in Requests |-> 0]
  /\ repeated = {}

Handle(h) ==
  \/ Receive(h) \/ Claim(h) \/ ClaimFails(h) \/ AdmitAgent(h)
  \/ InvokeRaises(h) \/ InvokeRefuses(h) \/ InvokeRuns(h) \/ InvokeEmits(h) \/ Finish(h)

Next ==
  \E h \in Hosts :
    \/ Spawn(h) \/ Sync(h) \/ ReadReply(h) \/ Timeout(h) \/ Crash(h) \/ Close(h)
    \/ \E r \in Requests : Request(h, r) \/ Inject(h, r)
    \/ Handle(h)

Spec == Init /\ [][Next]_vars

-----------------------------------------------------------------------------
HandType == [pc: {"free", "claim", "admit", "invoke", "emit", "ok", "fail"},
             request: Requests \cup {NoRequest}]
RecordType == [request: Requests, executed: BOOLEAN, threw: BOOLEAN]

(* Every variable holds a value of its type.                               *)
TypeOK ==
  /\ up \in [Hosts -> BOOLEAN] /\ setup \in [Hosts -> Setups]
  /\ spawns \in 0..MaxSpawns /\ sends \in 0..MaxSends
  /\ inbox \in [Hosts -> Seq(Requests)]
  /\ claimed \subseteq Requests
  /\ hand \in [Hosts -> HandType]
  /\ \A h \in Hosts : records[h] \in Seq(RecordType)
  /\ client \in [Hosts -> [synced: BOOLEAN, alone: BOOLEAN, waiting: Requests \cup {NoRequest}]]
  /\ runs \in [Requests -> Nat]
  /\ repeated \subseteq Requests

(* "Duplicate request IDs ... fail closed before an adapter executes"      *)
(* (HOSTED_AGENT_PLANE.md): however often a frame is written, to whichever *)
(* hosts, and whenever they crash, its effect runs at most once.           *)
OneEffectPerRequest == \A r \in Requests : runs[r] <= 1

(* Pings, malformed frames, spoofed agents and tools that were never sealed*)
(* have no effect, and what has an effect had claimed its request id.      *)
OnlyGovernedRuns ==
  \A r \in Requests : runs[r] > 0 =>
    /\ Frame(r).kind = "intent" /\ Frame(r).agent = Bound /\ Frame(r).tool \in Adapters
    /\ r \in claimed

(* Replies carry a request_id and request() does not compare it: a caller  *)
(* that has read the ready line, and is alone on the pipe, still gets the  *)
(* answer to the request it made, for a late answer dies with its host;    *)
(* and an answer that says ok is of an effect that ran.                    *)
ReplyIsOwn ==
  \A r \in Requests : reply[r].type = "line" /\ reply[r].synced =>
    /\ reply[r].line.type = "result"
    /\ reply[r].line.request \in {r, NoRequest}
    /\ reply[r].line.ok => runs[r] = 1

(* TimeoutError is final: the client has killed the host, so an effect     *)
(* that had not run when it was raised never does (unless the frame is     *)
(* written again), and the caller may ask anew without a late duplicate.   *)
NoEffectAfterTimeout ==
  [][\A r \in Requests : reply[r] \in {TimedOut, Closed} /\ r \notin repeated
       => runs'[r] = runs[r]]_vars

(* FORBIDDEN_ACTIONS.md:17 forbids that an "Effect is reported without     *)
(* execution truth": the sealed evidence of a request says executed only   *)
(* if that request's effect ran.                                           *)
EvidenceTellsTruth ==
  \A h \in Hosts : \A i \in DOMAIN hosted[h] :
    \A j \in DOMAIN hosted[h][i].sealed :
      hosted[h][i].sealed[j].executed => runs[hosted[h][i].request] > 0

=============================================================================
