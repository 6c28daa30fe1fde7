# TLA+ models of decision-os-min

`decision_os_min` decides whether an AI agent's action may happen, signs that
decision, lets one enforcement point execute it once, and keeps a hash-chained
log of both. These modules model that machinery as it is in
`decision_os_min/`: the order of its checks, where threads, processes and
crashes can come between them, and what each failure leaves behind. TLC checks
small instances; TLAPS proves every safety property they check for every instance.

Run in this directory: `tlc -workers 2 -config MCPep.cfg MCPep.tla` (likewise
for the other configurations), `tlapm PepProofs.tla` (likewise
for the other proof modules).

## The system

| component | source | state it keeps | operations | module |
|---|---|---|---|---|
| Verdict lattice | `compose.py` | none | `normalize`, `meet`, `compose`, `more_restrictive` | `Verdicts` |
| Decision kernel | `kernel.py` | policy of the builtin PDP, signing key | `decide`, `grant`, `revoke`, `delegate` | `Kernel` |
| Policy decision points | `authority_pdp.py` | grants list, revision counter; OPA and Cedar: none | `evaluate`, `policy_revision` | `Adapters`, `Kernel` |
| Evaluator wrappers, advisors, plugins | `evaluators.py`, `advisors.py`, `plugins.py` | none | `legitimacy`, `authority`, `risk_advisor`, `simple_threat_advisor`, `apply_context` | `Adapters` |
| Signing key on disk | `kernel.py` | the key file | `load_or_create_signing_key` | `SigningKey` |
| Delegated authority | `attenuation.py` | root grants, credentials | `grant`, `revoke`, `delegate`, `holds` | `AuthorityGraph` |
| Enforcement point | `execute.py` | none of its own; the spent-store and the audit sink | `execute` | `Pep`, `OneTimeEffect` |
| Spent-token stores | `spentstore.py` | the markers of spent tokens | `try_spend` | `Pep` |
| Audit log | `audit.py` | the file; `_seq` and `_last` of each process | `record`, `head`, `verify`, `verify_against_anchor` | `HashLog` |
| Sealed runtime | `sealed.py` | agents, admission key, arm, evidence | `register_agent`, `admit`, `invoke` | `Sealed` |
| Hosted agent plane | `host.py` | pipes, `ipc:` request ids, evidence | `serve_stdio`, `handle_wire`, `request`, `spawn_host` | `Host` |
| HTTP service | `service.py` | environment, metrics; the kernel and log it opens | `create_app`, `POST /v1/decide` | `Service` |
| Composed entry points | `__init__.py`, `paradigm.py` | none | `decide` then `execute` | not modelled |

How they meet: an entry point calls `Kernel.decide(action, evaluators)`. The
kernel asks the policy decision point, adds its own obligations (redaction,
containment), folds in each evaluator's verdict with the lattice, and mints and
signs a token if the result permits. `Executor.execute` takes the signed
decision with an action and a registry of tools, checks that they belong
together, spends the token in a store that replicas share, writes its audit
entry and only then runs the tool. The sealed runtime wraps the three behind
`invoke()`, for callers that hold a single-use admission ticket; the host wraps
the sealed runtime behind a pipe to an untrusted process. The service runs
`decide()` and `record()`, without execution, for HTTP clients; its workers share
one data volume with the key file and the log on it.

What is hard about it:

- `record()`, `grant()`, `revoke()` and the sealed arm take no lock, and the
  service runs its handlers in a thread pool;
- the one-time promise of a token has to survive replicas that race, crash and
  retry, stores that fail half way, and a clock that moves between the expiry
  check and the effect;
- every step has an error path, and some of them (`UnfingerprintablePayload`, a
  malformed decision, a raising audit sink, a raising anchor) leave by another way
  than the refusal;
- the caller's action and decision stay the caller's, and may change during a call;
- the policy revision is read in two steps, the counter first and the list later;
- the executor of a sealed runtime is public, so that others may touch its arm;
- a hash chain shows nothing by itself of entries cut off its end;
- the client of a host matches replies to requests by their order alone;
- workers that start together find, create and read the key file in steps that
  nothing serializes, and a worker can die between two of them;
- the service has signed a decision and minted its token before it knows
  whether the decision can be recorded.

What makes each component correct:

- *kernel*: a token only where everybody asked, inside whatever adapter or
  wrapper, permits; no refusal without a cause; advice never loosens a verdict;
  a redaction is never lost; every call ends;
- *authority*: a delegation never gives what its giver does not have, at no
  time, and does not refuse what its giver could give;
- *enforcement point*: at most one effect per token, of an action that was
  signed, with the entry durable before it, and nothing burnt at a gate;
- *audit log*: returned entries stay, serial use verifies, and a head kept out
  of band finds every later loss;
- *sealed runtime*: what ran was admitted, decided and enforced; the records
  say what happened;
- *host*: one effect per request id, none after the client gave up, no answer
  to another's request;
- *service*: what was answered or counted is on disk; signatures outlive
  restarts; workers that start end up serving.

## Modules

`Verdicts` is extended by `Adapters`, `Sealed` and `Service`, `Adapters` by
`Kernel`, `SigningKey` by `Service`; `Pep` and `Sealed` each instantiate
`OneTimeEffect` under a refinement mapping. `KernelProofs` extends
`VerdictsProofs`. Each `MC*` module gives one component its small instance. `Pep` states the verdict sets itself, so that its
proofs depend on nothing but it. Operators marked `Bug:` are mistaken
variants of the definition below them. No specification uses them: each
documents, and serves to test, which mistake the property it names rules out.

### Verdicts (`compose.py`)

`Rank`, `Normalize`, `Meet`, `Compose` and `MoreRestrictive` are the functions
of the same names; whatever is not a member of the lattice normalizes to DENY.

### Adapters (`authority_pdp.py`, `evaluators.py`, `advisors.py`, `plugins.py`)

What stands between the kernel and whom it asks, as operators: when the OPA and
Cedar adapters raise (`Fails`) and what they report (`Ruled`), what the
`legitimacy()` and `authority()` wrappers turn an answer, a failure or a timeout
into (`Wrapped`), which threat class an advisor assigns (`ThreatClass`), and which
labels context plugins add (`Enriched`). `ProviderPermits` and `Consents` say
what the party itself said, before any adapter, so that the kernel's promise
can be stated about the party and not about its adapter.

### Kernel (`kernel.py`, `authority_pdp.py`)

A call of `decide()` is a record with a place `pc`, cut where a policy mutation
can come between: `Begin` (context, copy, advisor, shape check, the counter of the
first revision), `Identify` (its list), `EvaluatePolicy`, `Reread` (the counter
again), `Canonicalize` (the list again, obligations), one `Consult` per evaluator,
`Issue`. `policy_revision()` puts the counter and a reference to the live grants into
one dictionary and serializes it afterwards, hence two steps a reading; `Dumped` is
what the second one sees. `MutateList`, `MutateGraph`
and `BumpRevision` are the three steps of `grant()` and `revoke()`. The action
is reduced to what `decide()` looks at; `Shape` derives from it, the advice and
the context the five facts that decide the rest of the call. `provider` is the
builtin policy, OPA, Cedar or one of the host's own; an evaluator is bare or
wrapped, and what is inside may answer anything, raise, outlast its timeout, raise
`GeneratorExit` or return what `str()` raises on; the last two leave `decide()`
(`Uncaught`). `opinions` keeps what it did and `Replies` derives what
the kernel got to see. `listed`, `held` and `counter` are the grants list, the
authority graph and the revision counter for the one capability at stake.

### AuthorityGraph (`attenuation.py`)

`root` and `held` are `_root_grants` and `_macaroons`. `Delegate` computes, as
`delegate()` does, the tools that are left of the request (`Allowed`), the live
credentials that cover what root grants do not (`Covering`) and the expiry
clamped to the earliest of theirs (`Clamped`). The HMAC chain is abstracted to
membership in the graph, since only the graph extends chains. The `tools:` caveat is
the tool names joined with commas, split and stripped again on the way back: here it
is the set of names. The module assumes that this is the identity, that names hold
neither commas nor blanks at their ends; the code does not check it, and with a name
like `read,wire` a delegation could widen.

### Pep and OneTimeEffect (`execute.py`, `spentstore.py`)

`Start` (the copy of the action), `Verify` and `Freeze` (the decision is
canonicalized once for its signature and once more for everything after), `Check`,
the four outcomes of `try_spend()` (`SpendFirst`, `SpendReplay`, `SpendUnavailable`,
`SpendBurnt`), `Refuse`, `Commit`, `AuditFails`, `Run`, `ToolRaises`; around them
`CallerMutates`, `Crash` and `Tick`. `DecisionMutates` writes over the decision until
it is frozen, as a caller may, or an object in it whose `str()` changes; `steady`
remembers that it was the same at `Verify` and at `Freeze`. A decision may also be
malformed (`formed`): then `execute()` refuses, or leaves with an exception of
another kind. `Gates` is `_prepare()` up to the spend, gate by gate. A store is a set
of `<<scope, token>>`: one scope for a durable store, one per replica and
lifetime for `InMemorySpentStore`. `OneTimeEffect` is the abstract promise:
a token is claimed once, recorded only after that, and run at most once and only
after it was recorded. `Pep` over a durable store is checked, and proved, to implement
it (`Claimed`, `Recorded` and `RanBy` are the mapping).

### HashLog (`audit.py`)

`record()` is cut into `ReadSeq`, `ReadLast`, `Write`, `AdvanceSeq`,
`AdvanceLast` and `Publish`, with `WriteFails`, `SyncFails` and `PublishFails`
as its error paths. The file is a sequence of lines, some of which do not parse
(`Garbled`), and `open` says that the last one has no newline. A hash is the
sequence of what it covers, so that hashes are equal exactly when what they
cover is. `Rewrite` is anyone with write access to the file: it truncates,
deletes, swaps or alters lines, and may chain the result anew. `Retain` is an
operator who keeps `head()` somewhere else.

### Sealed (`sealed.py`)

`Present` is the part of `invoke()` up to the spend of the ticket; then
`Consume`, `Decide`, `Arm`, `ReadArm` and `ClearArm` (the unlocked test and
reset of `_arm`), the enforcement point's outcomes, the tool, and `_emit()` in
its two steps. A tool may raise (`ToolRaises`), and if it raises `ExecutionRefused`
itself `invoke()` takes it for a refusal (`ToolRefuses`, remembered in `threw`). The
spend of a ticket may fail after its marker is there (`ConsumeFails`). `DirectArm` and
`DirectExecute` are callers of the public `rt.executor`, which set and clear the arm
past every call. `Restart` draws a new admission key and forgets what was only in
memory. `Sealed` too is checked, and proved, to implement `OneTimeEffect`: a
ticket's nonce is the token, the spent-store what is claimed, an entry that says
executed what is recorded.

### Host (`host.py`)

Both ends of the pipe: `Spawn`, `Sync`, `Request`, `ReadReply`, `Timeout` and
`Close` at the client; `Receive`, `Claim`, `AdmitAgent`, the outcomes of `invoke()`
and `Finish` at the host. A frame is an Intent, a ping, or something the host
answers itself, because it is too long, no JSON object or no Intent. `setup` says
whether the host's script bound the channel and registered the agent. A claim may fail
and take its id all the same (`ClaimFails`), and a tool that raises `ExecutionRefused`
after its effect is answered, and recorded, like a refusal (`InvokeRefuses`,
`threw`). `Inject`
is anyone else who writes to the pipe: a ping, or a known frame again, to the
same host or to another that shares the store. `Crash` may come at any point.

### SigningKey (`kernel.py`)

`load_or_create_signing_key()` as the workers of a service run it. `Look` is
`is_file()` and, if there is none, `generate()`; `ReadKey` parses the PEM;
`Truncate` and `WriteKey` are the two halves of `write_bytes()`. `Dies` ends a
worker at any of these points, and stands for a failing write as well. `displaced`
remembers that a worker truncated a file that had not been there when it
looked. Without `DECISION_OS_KEY_FILE` (`persistent` is false) every start draws a
key of its own.

### Service (`service.py`)

`Start`, the key and `OpenLog` make up `create_app()`; a refused environment, an
unreadable policy file among them, ends it before the key is touched (`Accepted`), a
policy file that parses to the wrong shape after it (`OpenLog`). A request is cut into `Decide` (the
signed ruling with its token, or 500), `Record` (or `RecordFails`: 503, with the
entry absent, torn or whole on disk), `Count` and `Answer`, the read and the write
of the counter in `metrics`. The kernel is reduced to the rulings it may come to,
the log to the entries it holds and whether all of it parses (`garbled`). A failing
write may `Cut` its line, which leaves it without an end (`open`); the next entry is
then glued to it and unreadable, though on disk (`glued`). `Crash` loses the requests
in a worker's hand, and may cut the line of one that was being recorded.

## What is checked

| run | instance | what it shows |
|---|---|---|
| `kernel` | 1 call, 4 providers, 5 lists of up to 2 evaluators, 7 actions, 6 advices, 3 contexts, 2 policy mutations | `TokenNeedsConsensus`, `VerdictHasCause`, `RedactionSurvives`, `VerdictIgnoresOrder`, `RevisionReproducible`, `ThreatOnlyTightens`, `DecideTerminates` |
| `pep` | 2 replicas, 2 calls, 4 tokens, a crash each, 2 instants, file or in-memory store, callers that rewrite action and decision | `AtMostOneEffect`, `EffectIsAuthorized`, `EffectIsAudited`, `SpentOnlyPastGates`, `RefusalIsFinal`; `ImplementsOneTimeEffect` |
| `hashlog` | 2 processes, 2 records, a restart each, one rewrite | `RecordedStays`, `SerialLogVerifies`, `AnchorIsTrue`, `TamperEvident` |
| `authority` | 2 holders, 2 tools, 2 grants, 3 delegations, 3 instants | `DelegationNarrows`, `OnlyGrantsExtend`, `BackedByParent`, `HoldersCanDelegate` |
| `sealed` | 2 calls, 2 agents, 2 identities, 2 tickets, a restart, direct callers of the executor | `ExecutedIsMediated`, `AuditAgrees`, `NoLooseArm`, `ArmStolenOnlyInRace`; `ImplementsOneTimeEffect` |
| `host` | 2 hosts, each set up in 3 ways, 5 kinds of request, 3 frames, 2 spawns | `OneEffectPerRequest`, `OnlyGovernedRuns`, `ReplyIsOwn`, `NoEffectAfterTimeout` |
| `service` | 2 workers, 2 requests, 4 keys, 2 faults, with and without a key file, 4 environments: a sound, a misshapen and an unreadable policy, an incomplete OPA setting | `AnsweredIsRecorded`, `SignaturesOutliveRestarts`, `EveryWorkerServes` |

Each run checks its module's `TypeOK` as well. The comments on the properties
state them in words.

Why the bounds are enough:

- *Two of each actor.* The races are all pairwise: for a token, for the arm, for
  the head of the log, for a request id, for the key file. A third actor repeats one of the
  outcomes of the second.
- *One `decide()` call.* Calls share nothing that a call writes; they are
  disturbed only by the operator, who runs along.
- *Two evaluators* are the fewest for which an order exists; the fold then
  repeats itself.
- *Three delegations* among two holders give chains, circles and requests
  covered by two credentials of different expiry.
- *Two records* let one be written before, during or after the other, on each
  side of a restart, a failure and a rewrite.
- *Three frames* are a request, its repetition and another request; *two
  spawns* are two hosts at once or one after a crash.
- *Four keys* are as many as two workers and two faults can use up (`EnoughKeys`),
  so that no start waits for one, unless the log is torn and starts fail anyway.
- *Two faults* are a crash in the middle of creating the key and another of the
  worker that finds what it left, or a crash and a sink that fails.

Deadlock is not checked: in all of these the calls, frames and mutations of an
instance are finite, and it stops when they are used up.

### Fairness

Two properties are liveness properties.

For `DecideTerminates`, `FairSpec` of `Kernel` assumes that each
thread inside `decide()` keeps running (weak fairness of the steps of one
call). The code justifies it by the timeouts: an evaluator or provider that
does not answer is abandoned after `evaluator_timeout_s` or `authority_timeout_s` (1 s by default), so that each turn ends. With
`None` for either the code calls it in line, and a call that hangs there hangs;
the property speaks of the default. A timeout in the evaluator loop is the reply
kind `timeout`, in the provider it is the second disjunct of `EvaluatePolicy`.
`Begin` and the operator are under no fairness.

For `EveryWorkerServes`, `FairSpec` of `Service` assumes that a worker that is
down is started again and that a start that is under way goes on (weak fairness
of `CreateApp` per worker): `docker-compose.yml:30` restarts the service `unless-stopped`.
Requests and faults are under no fairness. The property excludes what no restart
repairs (`Unusable`: a log line or a key file that a fault tore and that nobody is
writing), an environment that `create_app()` refuses, and a policy file of the wrong
shape.

## Where code and documents differ

Five runs check a sentence of the documentation and find a behaviour that
contradicts it.

| run | sentence | what happens |
|---|---|---|
| `pep_entries` | `execute.py:4-7`: exactly one audit entry per `execute()` call | an action that cannot be fingerprinted, or a malformed decision, raises what the handler of refusals does not catch: no entry |
| `pep_frozen` | `execute.py:168-169`: what is frozen is what verified, and a live object must not change the dispatch | the decision is canonicalized once for `verify()` and again to freeze it; what changes in between is executed without having been verified |
| `kernel_order` | `kernel.py:417-418`: evaluator order carries no meaning | the signed `legitimacy_digest` is the last one in evaluator order |
| `hashlog_seq` | `THREAT_MODEL.md:101`: `seq` is monotonic | two unserialized `record()` calls write the same `seq` |
| `host_evidence` | `FORBIDDEN_ACTIONS.md:17`: no effect reported without execution truth | a request that failed before any evidence was emitted carries the previous request's record |

The passing properties are stated with the qualifications the code needs, and
these are worth knowing:

- An entry that `record()` returned can be unreadable: if an earlier write left
  a line without its newline, the next line is glued to it (`glued` in
  `RecordedStays`).
- `head()` reads its two halves without a lock and can return a pair that no
  entry ever had (`contended` in `AnchorIsTrue`).
- With `InMemorySpentStore` the promise is one effect per token *and process
  lifetime* (`Scope` in `AtMostOneEffect`).
- The expiry is compared before the spend. An effect may run after it; what
  holds is that its call began before (`SpentOnlyPastGates`).
- What an effect is authorized by is the frozen decision. That it is one the kernel
  signed holds if it did not change between `verify()` and the freezing (`steady` in
  `EffectIsAuthorized` and `SpentOnlyPastGates`; `pep_frozen` shows the rest).
- An entry that says executed precedes the tool. After a tool that raises, a sink
  that raises with its entry on disk, or a crash, it is of an effect that may not have
  run (`ExceptionsToTheLog`); the effect without its entry does not exist.
- A sealed tool that raises `ExecutionRefused` itself has an executed entry followed by
  one that says it was not, and an EvidenceRecord that says it was not, whatever it
  did before it raised (`threw` in `AuditAgrees`).
- A direct call of `rt.executor.execute()` disarms the call of `invoke()` under way,
  which is then refused with its ticket spent (`overlapped` in `ArmStolenOnlyInRace`).
- The policy revision covers the grants list and a counter. A delegation bumps
  the counter but is not hashed, and a credential that expires changes the
  verdict with no new revision; `RevisionReproducible` speaks of listed grants
  and of calls whose two reads agree on a revision that was published when no
  mutation was under way. A reading takes the counter first and the list later: if a
  revision is published in the middle of the second one, a revocation among them,
  the pair it signs may agree with the first reading although the list has changed
  twice since (`moved`).
- `revoke()` does not cascade to credentials delegated before
  (`BackedByParent` holds until the first revocation).
- `spawn_host()` leaves its ready line for the caller to read; a caller that
  does not gets every answer one request late (`synced` in `ReplyIsOwn`).
- A host answers `ok: false` when the second audit entry fails, although the
  effect has run; and a client that retries draws a new request id, so its retry
  is a new effect. `ReplyIsOwn` promises only that `ok: true` is true.
- A claim that fails may have taken the id (`ClaimFails`): the client is told to try
  again, and may, since its retry draws another id.
- The request of an agent that is not registered spends its id and is answered
  like a malformed frame.
- A threat class can loosen in one case: the authority says LIMIT and nothing
  matches a redaction rule. That is a DENY, since the host cannot discharge it;
  with a class that is to be contained it is a CONTAIN, with a token
  (`dischargedByContainment` in `ThreatOnlyTightens`). `plugins.py:10-12` says a
  plugin cannot loosen a DENY.
- An advisor's class replaces the caller's, so an advisor without an opinion
  drops a caller's `malicious`. `ThreatOnlyTightens` compares with no class at all.
- Two workers that start together on an empty volume may each create a key; the
  one whose file is overwritten signs with a key nobody will verify with after a
  restart (`displaced` in `SignaturesOutliveRestarts`).
- `key_persisted` in `/readyz` says that a path was given, not that a key is there;
  `SignaturesOutliveRestarts` shows when the two agree. `/readyz` answers 200 even
  when it is not ready, so the healthcheck of `docker-compose.yml:25` cannot tell.
- A 503 does not undo the decision: its token is minted and its entry may be on
  disk. The client never sees the token, and its retry is another decision.
- A key file or a log line torn by a crash stops every later start (`Unusable`),
  until somebody repairs the volume.
- An entry that follows a torn line is on disk, glued to it, and no reader can parse
  it. `AnsweredIsRecorded` counts such entries and says that there are no more of them
  than faults.
- The counters in `/metrics` are read and written back without a lock: they may
  miss decisions, and `AnsweredIsRecorded` says that they never count one that
  is not on disk.
- The policy revision that the OPA and Cedar adapters report is a setting of the
  operator. It is signed as given, whether or not the policy has changed.

## What is proved

`PepProofs` proves about `Pep`, for any number of replicas, calls, tokens,
actions and decisions, any clock and any number of crashes, from
`PepAssumption` alone (the constants have their shapes, `NoToken` is no token,
the shared store is no replica's own):

| theorem | statement |
|---|---|
| `TypeCorrect` | `Spec => []TypeOK` |
| `Inductive` | `Spec => []IInv` |
| `OneEffectPerToken` | `Spec => []AtMostOneEffect` |
| `EffectsAuthorized` | `Spec => []EffectIsAuthorized` |
| `EffectsAudited` | `Spec => []EffectIsAudited` |
| `NothingBurntAtAGate` | `Spec => []SpentOnlyPastGates` |
| `RefusalsAreFinal` | `Spec => []RefusalIsFinal` |
| `ExceptionsToTheLog` | `Spec => [](\A c \in Calls : Excepted(c))` |
| `Implements` | `Spec => ImplementsOneTimeEffect` |

`AtMostOneEffect` is not inductive: nothing in it says that a call about to run
its tool is the only one with that token. `IInv` adds

- `Ownership`: a call that won the spend keeps its mark in the store, calls past
  the spend have won it, and no two winners hold the same mark;
- `GatesFirst`: a call past `Check` satisfies every gate (`PassedGates`), and goes on
  doing so since its copies of action and decision do not change; up to there a
  decision that says it is authentic is one that the kernel signed;
- `LogFollows`: what a call has logged is a function of how far it came;
- `EffectsOwned`: an effect has the fields of the call that ran it;
- `SpentOnlyPastGates` itself, with `TypeOK`.

Two effects of one token then belong to calls that both won the same mark, and
`Ownership` makes them one call. `NextCases`, `CallMoves`, `LogMoves`,
`EffectMoves` and `SpentMoves` say once what each action does to each variable,
and each conjunct of `IInv` has a lemma of its own (`...Step`).

`ExceptionsToTheLog` says what is true where two docstrings promise too much (see
above): a call that returned or was refused has one entry, which is right, one
that leaves with an exception and without its entry had a malformed decision or an
action that cannot be fingerprinted, and an executed entry of no effect is of a tool that raised, a sink that failed or a
crash. `Accounted` is what it needs beside `IInv`: how each such call came to its
end (`EndsOfATool`).

The refinement follows from `IInv` and two more invariants: with
a durable store all calls spend in the shared scope (`OneScope`), and a call
whose log says executed has won the spend, even if it crashed afterwards
(`ExecutedWon`). A successful or half-failed spend is then a `Claim`, a record
of execution a `Record`, a tool run a `Run`, and every other step leaves the
mapping unchanged.

`ServiceProofs` proves about `Service`, for any number of workers, keys, requests
and faults, from `SigningKeyAssumption` and `ServiceAssumption` (`NoKey` is no key,
rulings are verdicts, configurations have their shape):

| theorem | statement |
|---|---|
| `TypeCorrect` | `Spec => []TypeOK` |
| `SignaturesOutlive` | `Spec => []SignaturesOutliveRestarts` |
| `AnsweredRecorded` | `Spec => []AnsweredIsRecorded` |
| `StartsGoOn` | `Spec => [][\A w \in Workers : stage'[w] # stage[w] => GoesOn(w) \/ Begins(w) \/ Fails(w)]_vars` |
| `CreatorsDwindle` | `Spec => [][file.exists => file'.exists /\ Creators' \subseteq Creators /\ (file' # file => Creators # {})]_vars` |

`TypeInv` adds to `TypeOK` which fields a request has in each place, and that the
log and what is glued in it are finite. `SignaturesOutliveRestarts` speaks of serving workers and answered
requests; `OneKey` says the same of every worker that holds a key from the file
and of every signed request, and adds what makes that inductive: while a worker
writes the file it is empty, and it is the only one to write. A truncation
that displaces nothing then finds no file, so nobody holds a key yet.

`AnsweredIsRecorded` bounds a counter by the entries on disk. The bound is not
inductive, since `Answer` writes back a number read earlier. `CountsFollow` bounds
the counters, and what a request read of them, by the entries of *answered*
requests (`Sent`). These only grow, and the entry of the request about to be
counted is on disk (`EntriesFollow`) without being one of them, so one more fits
(`AnswerCounts`). Whether an entry is readable makes no difference to that argument,
which is about all that was appended (`Entries`); that few are not is `GluedCost`: an
entry is glued only to a line that a fault tore, and ends that line.

The last two are the safety half of `EveryWorkerServes`. A start only moves
forward (`StepsLeft`), and is ended by nothing but a fault, a garbled log, a misshapen
policy or an empty key file; and once the file exists, those who set out to create it become
fewer and nobody else changes it, so that the races end. `AtTheFile` is the
invariant they share: whoever reads the key file has seen one.

`KernelProofs` proves about `Kernel`, for any number of concurrent `decide()` calls,
any actions, advisors, providers and evaluator lists, whatever they answer, and any
number of policy mutations, from `KernelAssumption` (actions and lists have their
shape, a threat class of `none` is never contained, evaluators answer in their kinds):

| theorem | statement |
|---|---|
| `TypeCorrect` | `Spec => []TypeOK` |
| `TokensNeedConsensus` | `Spec => []TokenNeedsConsensus` |
| `VerdictsHaveCauses` | `Spec => []VerdictHasCause` |
| `RedactionsSurvive` | `Spec => []RedactionSurvives` |
| `RevisionsReproduce` | `Spec => []RevisionReproducible` |
| `VerdictsIgnoreOrder` | `Spec => []VerdictIgnoresOrder` |
| `ThreatsOnlyTighten` | `Spec => []ThreatOnlyTightens` |
| `EveryTurnCounts` | `Spec => [][\A c \in Calls : Running(c) /\ call'[c] # call[c] => TurnsLeft(c)' < TurnsLeft(c)]_vars` |

`TypeInv` adds to `TypeOK` the fields of a call under way, and that a mutation in
progress has room to count. `DecideFrame` and `OperateFrame` say that a step of
`decide()` moves one call and no policy, and a step of the operator the reverse;
`EvaluateFacts`, `ConsultFacts` and `IssueFacts` say once what each step does to the
call, so that every invariant below needs only its own argument.

- *Consensus.* The property speaks of issued tokens; `Consensus` says it of the call
  under composition, evaluator by evaluator: while the composed verdict still permits,
  the provider and everyone heard so far has permitted. Each operator on the way
  (`Ruled`, `Obliged`, `Wrapped`, `MoreRestrictive`) permits only what the party behind
  it permits, one lemma each.
- *Causes* and *minimization* are the same move: `Caused` and `Minimized` state them
  of the composition from the first step on. `SanitizedReplaces` is why minimization
  survives: an evaluator's ruling carries no obligations, so a ruling of its own
  that governs is either not enforceable or an ALLOW that never replaces.
- *Revisions.* The policy is mutated in three unlocked steps and read in two, so a call
  may read the graph of one revision, the counter of another and the list of a third.
  `PolicyInv` says that published
  revisions have distinct counters and how list, graph and counter are ahead of one
  another at each step of the operator. `Backed` follows an ALLOW through the call:
  a revision that lists the grant was published with the counter read first, or the
  counter has moved since, or the operator is about to move it and the list already
  holds the grant. Equal reads leave only the first and the last. The list of
  the second reading may be later than its counter; `moved` says that a revision was
  published in between, and only without that does the third case still hold of it.
- *Composition.* The properties speak of `Compose` over all orders of the answers,
  the kernel folds records one by one. `Strictest` says of the call under composition
  that its verdict is the base ruling's or one of those heard, and that none of them is
  more restrictive; with `ComposeIsStrictest` that determines the verdict
  (`ComposedGoverns`), and any order of the answers, or the ruling the same answers
  get without a threat class (`ObligedTightens`), is compared through it.
- *Turns.* `DecideTerminates` needs fairness and stays with TLC; `EveryTurnCounts` is
  the measure behind it. Every step of a call, whatever the operator does meanwhile,
  leaves it fewer turns: five and one for each evaluator at most.

`AuthorityGraphProofs` proves about `AuthorityGraph`, for any holders and tools, any
number of grants, revocations and delegations and any horizon of time, from
`GraphAssumption` (`Star` is no tool, `Never` is no time, the bounds are numbers):

| theorem | statement |
|---|---|
| `TypeCorrect` | `Spec => []TypeOK` |
| `DelegationsNarrow` | `Spec => DelegationNarrows` |
| `ChildrenBacked` | `Spec => []BackedByParent` |
| `GrantsExtend` | `Spec => OnlyGrantsExtend` |
| `HoldersDelegate` | `Spec => []HoldersCanDelegate` |

The first three rest on the clamp: `ClampedIsCeiling` says that a child expires no
later than any of the parent's credentials that cover part of it, with `Earliest` (a set
of times has a least one) for the minimum the code computes.
`BackedByParent` speaks of the present instant and is not inductive, since a
clock tick may outlive a parent; `Backed` says the same of *every* later instant at which the
child will be live, and `HoldingsGrow` that nobody loses one of those to anything
but a revocation.

`SealedProofs` proves about `Sealed`, for any number of threads in `invoke()`, any
agents, tickets and tools, whatever both authorities rule, and any number of
restarts, from `SealedAssumption` (sealed tools are tools, rulings are verdicts,
`NoOne` and `NoArm` are neither an identity nor a call):

| theorem | statement |
|---|---|
| `TypeCorrect` | `Spec => []TypeOK` |
| `NeverLooseArm` | `Spec => []NoLooseArm` |
| `StolenOnlyInRace` | `Spec => []ArmStolenOnlyInRace` |
| `ExecutedMediated` | `Spec => []ExecutedIsMediated` |
| `TicketsAdmitOnce` | `Spec => [](\A c, d \in effects : call[c].ticket.nonce = call[d].ticket.nonce => c = d)` |
| `AccountsAgree` | `Spec => []AuditAgrees` |
| `Implements` | `Spec => ImplementsOneTimeEffect` |

`InvokeMoves` and `InvokeCases` say once what a step of `invoke()` does to its own call,
and `Moves` that no other call is touched. `Place` is the invariant behind most of the
rest: what a call has logged, and whether its tool ran, by where it stands. To it
`Screened` adds what a call past each gate has passed (the authorities' rulings, and a
sealed tool), `Owned` that a call past admission owns its ticket and no other admitted call has the
same, `Evident` that each record agrees with the log of its call
unless its tool threw, and `Raced` that
an arm is another's, or gone, only if the history variable `overlapped` says so, which a
direct caller of the executor sets as another call does (`DirectMoves`). A restart
kills the calls and keeps the spent nonces, so `Owned` survives it.

For the refinement each action has a lemma that says what it is to the promise. The
spend of a ticket is a `Claim` (`ConsumeClaims`), the enforcement point's executed
entry a `Record`, the tool's run a `Run`; every other step, a restart among them,
keeps of each call what the mapping looks at (`Keeps`, `KeepsAll`). `Owned` makes
the call that records or runs the only one with its ticket; `Admitted` counts every
call with an entry, so that this includes those a restart has killed since.

`HostProofs` proves about `Host`, for any number of hosts and requests, whatever is
written to them and whenever they die, from `HostAssumption` (a frame is an Intent, a
ping or malformed, `NoRequest` is no request):

| theorem | statement |
|---|---|
| `TypeCorrect` | `Spec => []TypeOK` |
| `EffectsOnce` | `Spec => []OneEffectPerRequest` |
| `GovernedOnly` | `Spec => []OnlyGovernedRuns` |
| `TimeoutsAreFinal` | `Spec => NoEffectAfterTimeout` |
| `RepliesAreOwn` | `Spec => []ReplyIsOwn` |
| `EvidenceIsTrueOfItsRequest` | `Spec => [](\A h \in Hosts : \A i \in DOMAIN hosted[h] : Attested(hosted[h][i], runs))` |

- `Effects` makes the first two inductive: a claimed request is in one hand at most,
  and by where that hand stands its effect has not run or has run once.
- `Requested` is about what a host may still come to do: a frame that was written once is in
  the pipe or the hand (`Near`) of the one host its caller waits for, unless that
  caller has read some line. A timeout or a crash takes caller and host together, so
  no host is near the request afterwards, and only a host near it runs it.
- `InTurn` is about one pipe: with a caller that has read the ready line and is alone on it,
  the request it waits for is the only thing in flight, as a frame, in the
  hand or as its answer; a caller that has not read that line can only be in turn
  again by reading it first and with nothing asked. Answers stay true because an effect
  that ran has run for good (`RunsStay`).
- `Evidence` bounds what is wrong with the evidence of a failed request (see above): it may be
  another request's, but it is never false of the request it names. A record of an
  execution is of an effect, and a record of a refusal is of none, unless that
  request's tool raised `ExecutionRefused` itself (`threw`). The evidence of a request
  that succeeded is its own, since one hand at a time appends records.

`HashLogProofs` proves about `HashLog`, for any number of processes and `record()`
calls, wherever they overlap, tear, fail or die, and any rewrite of the file, from
`HashLogAssumption` (`Anchored` are processes, `Forged` is no entry's content):

| theorem | statement |
|---|---|
| `TypeCorrect` | `Spec => []TypeOK` |
| `RecordedStay` | `Spec => []RecordedStays` |
| `SerialVerifies` | `Spec => []SerialLogVerifies` |
| `AnchorsAreTrue` | `Spec => []AnchorIsTrue` |
| `TamperingShows` | `Spec => []TamperEvident` |
| `HeadsDetermineLogs` | two files that verify against one head are equal |

- A later write can only ruin a last line that lacks its newline. `Whole` says that such
  a line is torn or is that of a call that raised, so that no line `record()` has
  returned for is ever joined by another.
- `Serial` is what one writer at a time keeps: the file is a chain (`Linked`, which is
  `verify()` line by line), the one call under way is of the process that loaded last
  and stands where its line belongs (`Underway`), every process knows a head the file
  had (`Knows`), and so is the head that was kept (`Chain`).
- For `TamperEvident`, `Vouched` says that an entry is in the file, or that there was a
  chain with the kept head as one of its heads and the entry in its place. `SameChain`
  then does the work: two chains with the same hash at a line agree on it and on every
  line before, since a hash covers its predecessor's.

`VerdictsProofs` proves that the lattice is what composition needs, for arguments
that need not be verdicts and sequences of any length:

| theorem | statement |
|---|---|
| `MeetIsGreatest` | `Meet` is the more restrictive of the two, and no more |
| `MeetCommutes`, `MeetAssociates` | neither order nor grouping matters |
| `MeetIdentityAndZero` | ALLOW is its unit, DENY its zero |
| `MeetPermitsOnlyByConsensus` | it permits if and only if both do |
| `MoreRestrictiveMeets` | `MoreRestrictive` carries the verdict `Meet` would give |
| `ComposeIsStrictest` | `Compose` is the most restrictive of the sequence, or ALLOW |
| `ComposePermitsOnlyByConsensus` | it permits if and only if every element does |
| `ComposeIgnoresOrder` | sequences with the same verdicts compose to the same |
| `ComposeExtends` | appending a verdict composes by one more `Meet` |

`Compose` is a fold, so its recursive function is defined by a CHOOSE over
functions on sets of indices. The proof exhibits such a function (`FoldExists`) and
shows that any of them has, prefix by prefix, the verdict that `Governs` the prefix;
in place of induction it takes a shortest prefix for which it has not.

Only model-checked: the two liveness properties, `DecideTerminates` and
`EveryWorkerServes`, since fairness and ENABLED are out of the provers' reach. Their safety
halves, that no step of a call or of a start undoes another, are `EveryTurnCounts`,
`StartsGoOn` and `CreatorsDwindle`.

## What is not modelled

- *Cryptography.* Signatures, HMACs and SHA-256 are ideal: a record is authentic
  or it is not, and hashes do not collide.
- *Canonical encoding.* A payload can be fingerprinted or cannot
  (`encodable`, `Encodable`); equal actions have equal fingerprints.
- *Wire formats of OPA and Cedar.* An answer is a kind and a value; how it is
  read out of JSON or of an exit status is in `Fails` and `Ruled`, the request that
  is sent is not modelled. The health checks only read.
- *Composed entry points.* `DecisionOS.handle()` and
  `LegitimacyAuthorityPipeline.handle()` call `decide()` and then `execute()` in one
  thread and add no state and no branch.
- *The abandoned thread of a timed-out evaluator.* It cannot touch the decision
  any more; that such threads accumulate is a matter of resources.
- *OS sandbox, docker flags, seccomp.* Enforced by the operating system.
- *Decorator, receipts, wire contracts, benchmarks, examples.* No state to
  interleave.
- *The GET handlers of the service.* They only read; `/readyz` is `KeyPersisted`.
- *Sealing.* `seal()` precedes every `invoke()`.
- *Direct executions on an armed executor.* `DirectArm` and `DirectExecute` disturb the
  calls of `invoke()`. A direct caller that has a signed decision for the binding it
  arms is a user of `Executor`, which is `Pep`'s subject.
- *The text of an audit entry.* `execute()` takes actor, verdict and reason of its entry
  from the caller's live objects before it verifies them; the models keep what the
  entry says of the execution.
- *The payload a tool sees inside the call.* A tool that keeps or changes the payload
  it was given is beyond the call.

## Plan

Order of work, most important behaviour first: `Verdicts`, `Kernel` with
`Adapters`, `Pep` with `OneTimeEffect`, `HashLog`, `AuthorityGraph`, `Sealed`,
`Host`, `SigningKey` and `Service`, with the proofs of all of them, are done. What
would come next is `DecisionOS.handle()` as the composition of `Kernel` and `Pep`
in one specification, when it comes to hold more than the two calls.
