-------------------------------- MODULE Service --------------------------------
(***************************************************************************)
(* The HTTP service, decision_os_min/service.py: workers that obtain the   *)
(* signing key (SigningKey), open the audit log on the same volume and     *)
(* then answer POST /v1/decide in a thread pool, each call by              *)
(*   Decide     the kernel's signed ruling, with its token                 *)
(*   Record     one audit entry; 503 when the sink raises OSError          *)
(*   Count      metrics[verdict] is read ...                               *)
(*   Answer     ... and written back, one higher; the response             *)
(* The kernel is reduced to the rulings it may come to (Kernel), the log   *)
(* to the entries that were written whole, whether its last line is ended  *)
(* and whether every line of it parses (HashLog).                          *)
(* A supervisor restarts workers that end, whatever ended them.            *)
(***************************************************************************)
EXTENDS SigningKey, Verdicts, FiniteSets

CONSTANTS
  Calls,       (* POST /v1/decide requests; a client's retry is another    *)
  Rulings,     (* the verdicts the kernel may come to                      *)
  Configs      (* the environments the workers may be given, see Config    *)

(* DECISION_OS_AUTHORITY_PDP; are its required variables there, its files  *)
(* and its own timeout; is each timeout positive or off; and does the      *)
(* policy file load, and is what it holds shaped like a policy.            *)
Config == [pdp: STRING, complete: BOOLEAN, timeouts: {"positive", "off", "zero"},
           policy: {"sound", "misshapen", "unreadable"}]

ASSUME ServiceAssumption ==
  /\ Rulings \subseteq VERDICTS
  /\ Configs \subseteq Config

VARIABLES
  config,      (* the environment                                          *)
  log,         (* the audit entries that have a line of their own          *)
  glued,       (* the entries that were written behind an unended line     *)
  open,        (* does the last line lack its newline?                     *)
  garbled,     (* does the log hold a line that does not parse?            *)
  metrics,     (* the Counter of each worker                               *)
  call         (* the requests                                             *)

trail == <<log, glued, open, garbled>>
serviceVars == <<config, trail, metrics, call>>
vars == <<keyVars, serviceVars>>

NoCall == [pc |-> "idle"]
NoCounts == [v \in VERDICTS |-> 0]

Serving(w) == stage[w] = "serving"
InHand(c, w) == call[c].pc \in {"decided", "recorded", "counting"} /\ call[c].worker = w

-----------------------------------------------------------------------------
(* create_app()                                                            *)

(* A timeout that is not positive, an unknown decision point, one that     *)
(* lacks a setting or a policy file that is not there or not JSON raises   *)
(* before the key is touched.                                              *)
Accepted(c) ==
  /\ c.timeouts # "zero"
  /\ c.policy # "unreadable"
  /\ c.pdp \in {"builtin", "opa", "cedar"}
  /\ c.pdp # "builtin" => c.complete

Start(w) ==
  /\ stage[w] = "down"
  /\ Accepted(config)
  /\ Goes(w, "start")
  /\ UNCHANGED <<persistent, file, drawn, key, faults, displaced, serviceVars>>

(* With the key loaded, Kernel() reads the policy, and one that is no      *)
(* policy raises; then HashLog(audit_path) reads the whole file, and the   *)
(* metrics start anew.                                                     *)
OpenLog(w) ==
  /\ stage[w] = "loaded"
  /\ IF config.policy = "misshapen" \/ garbled THEN Ends(w)
                                              ELSE Goes(w, "serving") /\ UNCHANGED key
  /\ metrics' = [metrics EXCEPT ![w] = NoCounts]
  /\ UNCHANGED <<persistent, file, drawn, faults, displaced, config, trail, call>>

CreateApp(w) == Start(w) \/ (ObtainKey(w) /\ UNCHANGED serviceVars) \/ OpenLog(w)

-----------------------------------------------------------------------------
(* The audit log                                                           *)

EntryOf(c) == [call |-> c, worker |-> call[c].worker, verdict |-> call[c].verdict]

(* The file is opened for append: what is written joins a last line that   *)
(* has no newline, and then neither of the two can be read.                *)
Appends(entry) ==
  /\ IF open
     THEN glued' = glued \cup {entry} /\ garbled' = TRUE /\ UNCHANGED log
     ELSE log' = log \cup {entry} /\ UNCHANGED <<glued, garbled>>
  /\ open' = FALSE

(* A part of a line, which may be all of it but the newline.               *)
Cut ==
  /\ open' = TRUE
  /\ garbled' \in IF open THEN {TRUE} ELSE {garbled, TRUE}
  /\ UNCHANGED <<log, glued>>

(* The requests in its hand go unanswered, and what one was writing may be *)
(* cut short.                                                              *)
Crash(w) ==
  /\ Dies(w)
  /\ call' = [c \in Calls |-> IF InHand(c, w) THEN [pc |-> "lost"] ELSE call[c]]
  /\ \/ UNCHANGED trail
     \/ (\E c \in Calls : InHand(c, w) /\ call[c].pc = "decided") /\ Cut
  /\ UNCHANGED <<config, metrics>>

-----------------------------------------------------------------------------
(* decide()                                                                *)

Token(verdict) == verdict \in PERMITTING

(* The ruling is signed, and its token minted, before it is recorded.  A   *)
(* payload that cannot be fingerprinted raises: 500.                       *)
Decide(c, w) ==
  /\ call[c].pc = "idle"
  /\ Serving(w)
  /\ \/ \E verdict \in Rulings :
          call' = [call EXCEPT ![c] = [pc |-> "decided", worker |-> w, verdict |-> verdict,
                                       signer |-> key[w]]]
     \/ call' = [call EXCEPT ![c] = [pc |-> "failed", status |-> 500, token |-> FALSE]]
  /\ UNCHANGED <<keyVars, config, trail, metrics>>

Record(c) ==
  /\ call[c].pc = "decided"
  /\ Appends(EntryOf(c))
  /\ call' = [call EXCEPT ![c].pc = "recorded"]
  /\ UNCHANGED <<keyVars, config, metrics>>

(* Bug: a sink that fails is logged and forgotten (see AnsweredIsRecorded).*)
RecordAnyway(c) ==
  /\ call[c].pc = "decided"
  /\ faults < MaxFaults
  /\ faults' = faults + 1
  /\ call' = [call EXCEPT ![c].pc = "recorded"]
  /\ UNCHANGED <<persistent, file, drawn, stage, key, displaced, config, trail, metrics>>

(* open(), write() or fsync() raises: the line is not there, there in part *)
(* or all there.  The client gets 503 and no token.                        *)
RecordFails(c) ==
  /\ call[c].pc = "decided"
  /\ faults < MaxFaults
  /\ faults' = faults + 1
  /\ UNCHANGED trail \/ Cut \/ Appends(EntryOf(c))
  /\ call' = [call EXCEPT ![c] = [pc |-> "failed", status |-> 503, token |-> FALSE]]
  /\ UNCHANGED <<persistent, file, drawn, stage, key, displaced, config, metrics>>

Count(c) ==
  /\ call[c].pc = "recorded"
  /\ call' = [call EXCEPT ![c] = [pc |-> "counting", worker |-> @.worker, verdict |-> @.verdict,
                                  signer |-> @.signer,
                                  seen |-> metrics[@.worker][@.verdict]]]
  /\ UNCHANGED <<keyVars, config, trail, metrics>>

Answer(c) ==
  /\ call[c].pc = "counting"
  /\ metrics' = [metrics EXCEPT ![call[c].worker][call[c].verdict] = call[c].seen + 1]
  /\ call' = [call EXCEPT ![c] = [pc |-> "answered", status |-> 200, worker |-> @.worker,
                                  verdict |-> @.verdict, signer |-> @.signer,
                                  token |-> Token(@.verdict)]]
  /\ UNCHANGED <<keyVars, config, trail>>

-----------------------------------------------------------------------------
Init ==
  /\ KeyInit
  /\ config \in Configs
  /\ log = {} /\ glued = {}
  /\ open = FALSE /\ garbled = FALSE
  /\ metrics = [w \in Workers |-> NoCounts]
  /\ call = [c \in Calls |-> NoCall]

Handle(c) == (\E w \in Workers : Decide(c, w)) \/ Record(c) \/ RecordFails(c) \/ Count(c) \/ Answer(c)

Next == (\E w \in Workers : CreateApp(w) \/ Crash(w)) \/ (\E c \in Calls : Handle(c))

Spec == Init /\ [][Next]_vars

(* docker-compose.yml restarts the service "unless-stopped", and a start   *)
(* that is under way goes on.                                              *)
FairSpec == Spec /\ \A w \in Workers : WF_vars(CreateApp(w))

-----------------------------------------------------------------------------
(* Every variable holds a value of its type.                               *)
TypeOK ==
  /\ KeyTypeOK
  /\ config \in Configs
  /\ log \cup glued \subseteq [call: Calls, worker: Workers, verdict: Rulings]
  /\ open \in BOOLEAN /\ garbled \in BOOLEAN
  /\ metrics \in [Workers -> [VERDICTS -> Nat]]
  /\ \A c \in Calls :
       /\ call[c].pc \in {"idle", "decided", "recorded", "counting", "answered", "failed", "lost"}
       /\ call[c].pc \in {"decided", "recorded", "counting", "answered"} =>
            /\ call[c].worker \in Workers /\ call[c].verdict \in Rulings
            /\ call[c].signer \in drawn

Answered(c) == call[c].pc = "answered"

(* All that was written whole, readable or not.                            *)
Entries == log \cup glued
Counted(w, v) == Cardinality({e \in Entries : e.worker = w /\ e.verdict = v})

(* "Fail closed: never return a live signed token if the audit sink died"  *)
(* (service.py:213): whatever fails or crashes, an answer that reached the *)
(* client, and a decision that /metrics counts, has its entry on disk; it  *)
(* can be read there unless it was glued to a line that a fault had cut    *)
(* short, and every fault can cost one entry at most.                      *)
AnsweredIsRecorded ==
  /\ \A c \in Calls : Answered(c) => EntryOf(c) \in Entries
  /\ \A w \in Workers, v \in VERDICTS : metrics[w][v] <= Counted(w, v)
  /\ Cardinality(glued) <= faults

(* /readyz reports bool(key_path) as key_persisted.                        *)
KeyPersisted(w) == persistent

(* "persist the kernel signing key across restarts" (kernel.py:159): every *)
(* signature a client holds verifies with the public key of every worker   *)
(* that serves now, and where /readyz says key_persisted the key is on     *)
(* disk for those that start later; unless a worker displaced a file that  *)
(* another made after it had looked.                                       *)
SignaturesOutliveRestarts ==
  ~displaced =>
    \A w \in Workers : Serving(w) /\ KeyPersisted(w) =>
      /\ file = Holding(key[w])
      /\ \A c \in Calls : Answered(c) => call[c].signer = key[w]

(* A key file or a log that a fault left unreadable, and nobody is at.     *)
Unusable ==
  \/ garbled
  \/ persistent /\ file = Empty /\ \A w \in Workers : stage[w] # "write"

(* Starts that race for the key file, read it half written and fail do not *)
(* go on failing each other: unless a fault left the volume unusable for   *)
(* good, every worker whose environment is in order ends up serving.       *)
EveryWorkerServes ==
  Accepted(config) /\ config.policy = "sound" /\ []<>~Unusable => \A w \in Workers : <>[]Serving(w)

=============================================================================
