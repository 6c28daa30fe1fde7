------------------------------ MODULE ServiceProofs ------------------------------
(***************************************************************************)
(* Proofs about Service and the SigningKey it extends, for any number of   *)
(* workers, keys, requests and faults.                                     *)
(***************************************************************************)
EXTENDS Service, FiniteSetTheorems, TLAPS

Ruled   == [pc: {"decided", "recorded"}, worker: Workers, verdict: Rulings, signer: Keys]
Counting == [pc: {"counting"}, worker: Workers, verdict: Rulings, signer: Keys, seen: Nat]
Replied == [pc: {"answered"}, status: {200}, worker: Workers, verdict: Rulings, signer: Keys,
            token: BOOLEAN]
Failed  == [pc: {"failed"}, status: {500, 503}, token: BOOLEAN]
CallType == [pc: {"idle", "lost"}] \cup Ruled \cup Counting \cup Replied \cup Failed

Signed == {"decided", "recorded", "counting", "answered"}
Logged == {"recorded", "counting", "answered"}

(* TypeOK with what a request in each place is made of.                    *)
TypeInv ==
  /\ TypeOK
  /\ call \in [Calls -> CallType]
  /\ IsFiniteSet(log) /\ IsFiniteSet(glued)

EntryType == [call: Calls, worker: Workers, verdict: Rulings]

(* The part of TypeInv about the log.                                      *)
TrailOK ==
  /\ log \cup glued \subseteq EntryType
  /\ open \in BOOLEAN /\ garbled \in BOOLEAN
  /\ IsFiniteSet(log) /\ IsFiniteSet(glued)

-----------------------------------------------------------------------------
LEMMA InitTypes == Init => TypeInv
<1> SUFFICES ASSUME Init PROVE TypeInv
  OBVIOUS
<1>1. KeyTypeOK
  <2>1. persistent \in BOOLEAN /\ displaced \in BOOLEAN
    BY DEF Init, KeyInit
  <2>2. file = Missing /\ drawn = {} /\ faults \in 0..MaxFaults
    BY SigningKeyAssumption DEF Init, KeyInit
  <2>3. /\ stage \in [Workers -> Stages] /\ key \in [Workers -> drawn \cup {NoKey}]
        /\ \A w \in Workers : key[w] = NoKey /\ stage[w] = "down"
    BY DEF Init, KeyInit, Stages
  <2> QED
    BY <2>1, <2>2, <2>3 DEF KeyTypeOK
<1>2. metrics \in [Workers -> [VERDICTS -> Nat]]
  BY DEF Init, NoCounts
<1>3. call \in [Calls -> CallType] /\ \A c \in Calls : call[c].pc = "idle"
  BY DEF Init, NoCall, CallType
<1>4. log = {} /\ glued = {} /\ IsFiniteSet(log) /\ IsFiniteSet(glued)
  BY FS_EmptySet DEF Init
<1>5. open \in BOOLEAN /\ garbled \in BOOLEAN /\ config \in Configs
  BY DEF Init
<1> QED
  BY <1>1, <1>2, <1>3, <1>4, <1>5 DEF TypeInv, TypeOK

LEMMA KeyTypes ==
  ASSUME KeyTypeOK, \E w \in Workers : ObtainKey(w) \/ Dies(w)
  PROVE  KeyTypeOK' /\ drawn \subseteq drawn'
<1>1. PICK w \in Workers : ObtainKey(w) \/ Dies(w)
  OBVIOUS
<1>2. CASE Look(w)
  BY <1>2, SigningKeyAssumption DEF Look, Generate, Goes, KeyTypeOK, Stages, Holding
<1>3. CASE ReadKey(w)
  BY <1>3, SigningKeyAssumption DEF ReadKey, Ends, Goes, KeyTypeOK, Stages, Holding, Missing, Empty
<1>4. CASE Truncate(w)
  BY <1>4, SigningKeyAssumption DEF Truncate, Goes, KeyTypeOK, Stages
<1>5. CASE WriteKey(w)
  BY <1>5, SigningKeyAssumption DEF WriteKey, Goes, KeyTypeOK, Stages
<1>6. CASE Dies(w)
  BY <1>6, SigningKeyAssumption DEF Dies, Ends, Goes, KeyTypeOK, Stages
<1> QED
  BY <1>1, <1>2, <1>3, <1>4, <1>5, <1>6 DEF ObtainKey

-----------------------------------------------------------------------------
(* What is written to the log.                                             *)

LEMMA AppendTypes ==
  ASSUME TrailOK, NEW entry \in EntryType, Appends(entry)
  PROVE  TrailOK' /\ Entries' = Entries \cup {entry}
<1>1. IsFiniteSet(log \cup {entry}) /\ IsFiniteSet(glued \cup {entry})
  BY FS_AddElement DEF TrailOK
<1> QED
  BY <1>1 DEF Appends, TrailOK, Entries

LEMMA CutTypes ==
  ASSUME TrailOK, Cut \/ UNCHANGED trail
  PROVE  TrailOK' /\ Entries' = Entries
BY DEF Cut, trail, TrailOK, Entries

-----------------------------------------------------------------------------
(* One lemma for each thing a worker or a request does.                    *)

LEMMA StartTypes ==
  ASSUME TypeInv, \E w \in Workers : CreateApp(w) \/ Crash(w)
  PROVE  TypeInv'
<1>1. PICK w \in Workers : CreateApp(w) \/ Crash(w)
  OBVIOUS
<1> USE DEF TypeInv, TypeOK
<1>2. CASE Start(w)
  BY <1>2 DEF Start, Goes, serviceVars, trail, KeyTypeOK, Stages
<1>3. CASE ObtainKey(w) /\ UNCHANGED serviceVars
  BY <1>3, KeyTypes DEF serviceVars, trail
<1>4. CASE OpenLog(w)
  <2>1. KeyTypeOK'
    BY <1>4, SigningKeyAssumption DEF OpenLog, Ends, Goes, KeyTypeOK, Stages
  <2>2. metrics' \in [Workers -> [VERDICTS -> Nat]]
    BY <1>4 DEF OpenLog, NoCounts
  <2> QED
    BY <1>4, <2>1, <2>2 DEF OpenLog, trail
<1>5. CASE Crash(w)
  <2>1. KeyTypeOK' /\ drawn \subseteq drawn'
    BY <1>5, KeyTypes DEF Crash
  <2>2. call' \in [Calls -> CallType]
    BY <1>5 DEF Crash, CallType
  <2>3. \A c \in Calls : call'[c] = call[c] \/ call'[c].pc = "lost"
    BY <1>5 DEF Crash
  <2>4. TrailOK'
    BY <1>5, CutTypes DEF Crash, TrailOK, EntryType
  <2> QED
    BY <1>5, <2>1, <2>2, <2>3, <2>4 DEF Crash, TrailOK, EntryType
<1> QED
  BY <1>1, <1>2, <1>3, <1>4, <1>5 DEF CreateApp

(* A request moves on to a place of the right type.                        *)
LEMMA CallTypes ==
  ASSUME TypeInv, NEW c \in Calls, NEW r \in CallType, call' = [call EXCEPT ![c] = r],
         r.pc \in Signed => r.signer \in drawn, drawn' = drawn
  PROVE  /\ call' \in [Calls -> CallType]
         /\ \A d \in Calls :
              /\ call'[d].pc \in Signed \cup {"idle", "failed", "lost"}
              /\ call'[d].pc \in Signed =>
                   /\ call'[d].worker \in Workers /\ call'[d].verdict \in Rulings
                   /\ call'[d].signer \in drawn'
<1>1. /\ r.pc \in Signed \cup {"idle", "failed", "lost"}
      /\ r.pc \in Signed => r.worker \in Workers /\ r.verdict \in Rulings
  BY DEF CallType, Ruled, Counting, Replied, Failed, Signed
<1> QED
  BY <1>1 DEF TypeInv, TypeOK, Signed

(* What TypeInv says of a request that has a ruling.                       *)
LEMMA RuledTypes ==
  ASSUME TypeInv, NEW c \in Calls
  PROVE  /\ call[c].pc \in {"decided", "recorded"} => call[c] \in Ruled
         /\ call[c].pc = "counting" => call[c] \in Counting
         /\ call[c].pc \in Signed =>
              /\ EntryOf(c) \in EntryType
              /\ call[c].signer \in drawn
              /\ drawn \subseteq Keys
<1>1. call[c] \in CallType
  BY DEF TypeInv
<1> QED
  BY <1>1 DEF TypeInv, TypeOK, KeyTypeOK, CallType, Ruled, Counting, Replied, Failed, EntryOf,
     EntryType, Signed

LEMMA HandleTypes ==
  ASSUME TypeInv, \E c \in Calls : Handle(c)
  PROVE  TypeInv'
<1>1. PICK c \in Calls : Handle(c)
  OBVIOUS
<1> DEFINE r == call'[c]
<1>2. CASE \E w \in Workers : Decide(c, w)
  <2>1. PICK w \in Workers : Decide(c, w)
    BY <1>2
  <2>2. key[w] \in drawn /\ drawn \subseteq Keys
    BY <2>1 DEF Decide, Serving, TypeInv, TypeOK, KeyTypeOK
  <2>3. /\ r \in CallType /\ (r.pc \in Signed => r.signer \in drawn)
        /\ call' = [call EXCEPT ![c] = r] /\ drawn' = drawn
    <3>1. drawn' = drawn /\ call' = [call EXCEPT ![c] = r] /\ c \in DOMAIN call
      BY <2>1 DEF Decide, TypeInv, keyVars
    <3>2. CASE r = [pc |-> "failed", status |-> 500, token |-> FALSE]
      BY <3>1, <3>2 DEF CallType, Failed, Signed
    <3>3. CASE \E verdict \in Rulings :
                 r = [pc |-> "decided", worker |-> w, verdict |-> verdict, signer |-> key[w]]
      BY <2>2, <3>1, <3>3 DEF CallType, Ruled, Signed
    <3> QED
      BY <2>1, <3>1, <3>2, <3>3 DEF Decide, TypeInv
  <2> QED
    BY <2>1, <2>3, CallTypes DEF Decide, keyVars, trail, TypeInv, TypeOK, KeyTypeOK, Signed
<1>3. CASE Record(c)
  <2>1. TrailOK'
    BY <1>3, RuledTypes, AppendTypes DEF Record, Signed, TypeInv, TypeOK, TrailOK, EntryType
  <2>2. /\ r \in CallType /\ (r.pc \in Signed => r.signer \in drawn)
        /\ call' = [call EXCEPT ![c] = r] /\ drawn' = drawn
    BY <1>3, RuledTypes DEF Record, TypeInv, keyVars, CallType, Ruled, Signed
  <2> QED
    BY <1>3, <2>1, <2>2, CallTypes DEF Record, keyVars, TypeInv, TypeOK, TrailOK, EntryType,
       KeyTypeOK, Signed
<1>4. CASE RecordFails(c)
  <2>1. TrailOK'
    BY <1>4, RuledTypes, AppendTypes, CutTypes DEF RecordFails, Signed, TypeInv, TypeOK, TrailOK,
       EntryType
  <2>2. KeyTypeOK' /\ drawn' = drawn
    BY <1>4, SigningKeyAssumption DEF TypeInv, TypeOK, RecordFails, KeyTypeOK
  <2>3. /\ r \in CallType /\ r.pc \notin Signed /\ call' = [call EXCEPT ![c] = r]
    BY <1>4 DEF RecordFails, TypeInv, CallType, Failed, Signed
  <2>4. /\ call' \in [Calls -> CallType]
        /\ \A d \in Calls :
             /\ call'[d].pc \in Signed \cup {"idle", "failed", "lost"}
             /\ call'[d].pc \in Signed =>
                  /\ call'[d].worker \in Workers /\ call'[d].verdict \in Rulings
                  /\ call'[d].signer \in drawn
    BY <2>2, <2>3, CallTypes
  <2> QED
    BY <1>4, <2>1, <2>2, <2>4 DEF RecordFails, TypeInv, TypeOK, TrailOK, EntryType, Signed
<1>5. CASE Count(c)
  <2>1. metrics[call[c].worker][call[c].verdict] \in Nat
    BY <1>5, RuledTypes, ServiceAssumption DEF Count, TypeInv, TypeOK, Ruled
  <2>2. /\ r \in CallType /\ (r.pc \in Signed => r.signer \in drawn)
        /\ call' = [call EXCEPT ![c] = r] /\ drawn' = drawn
    BY <1>5, <2>1, RuledTypes DEF Count, TypeInv, keyVars, CallType, Ruled, Counting, Signed
  <2> QED
    BY <1>5, <2>2, CallTypes DEF Count, keyVars, trail, TypeInv, TypeOK, KeyTypeOK, Signed
<1>6. CASE Answer(c)
  <2>1. metrics' \in [Workers -> [VERDICTS -> Nat]]
    BY <1>6, RuledTypes, ServiceAssumption DEF Answer, TypeInv, TypeOK, Counting
  <2>2. /\ r \in CallType /\ (r.pc \in Signed => r.signer \in drawn)
        /\ call' = [call EXCEPT ![c] = r] /\ drawn' = drawn
    BY <1>6, RuledTypes DEF Answer, Token, TypeInv, keyVars, CallType, Counting, Replied, Signed
  <2> QED
    BY <1>6, <2>1, <2>2, CallTypes DEF Answer, keyVars, trail, TypeInv, TypeOK, KeyTypeOK, Signed
<1> QED
  BY <1>1, <1>2, <1>3, <1>4, <1>5, <1>6 DEF Handle

-----------------------------------------------------------------------------
LEMMA Types == Spec => []TypeInv
<1>1. TypeInv /\ [Next]_vars => TypeInv'
  <2> SUFFICES ASSUME TypeInv, [Next]_vars PROVE TypeInv'
    OBVIOUS
  <2>1. CASE Next
    BY <2>1, StartTypes, HandleTypes DEF Next
  <2>2. CASE UNCHANGED vars
    BY <2>2 DEF vars, keyVars, serviceVars, trail, TypeInv, TypeOK, KeyTypeOK
  <2> QED
    BY <2>1, <2>2
<1> QED
  BY <1>1, InitTypes, PTL DEF Spec

(* Every variable of the service holds a value of its type.                *)
THEOREM TypeCorrect == Spec => []TypeOK
<1>1. TypeInv => TypeOK
  BY DEF TypeInv
<1> QED
  BY <1>1, Types, PTL

-----------------------------------------------------------------------------
(* The key on disk.  As long as no worker displaced a file, the file, once *)
(* it has a key, keeps it, whoever loads a key loads that one, and one     *)
(* worker alone creates it.                                                *)

Undisturbed == persistent /\ ~displaced

OneKey ==
  /\ \A w \in Workers : stage[w] \in {"loaded", "serving"} => file = Holding(key[w])
  /\ \A w \in Workers : stage[w] = "write" => file = Empty
  /\ \A v, w \in Workers : stage[v] = "write" /\ stage[w] = "write" => v = w
  /\ \A c \in Calls : call[c].pc \in Signed => file = Holding(call[c].signer)

KeyOnDisk == Undisturbed => OneKey

LEMMA KeyOnDiskInit == Init => KeyOnDisk
  BY DEF Init, KeyInit, NoCall, KeyOnDisk, OneKey, Signed

LEMMA KeyOnDiskStart ==
  ASSUME TypeInv, KeyOnDisk, NEW w \in Workers, ObtainKey(w), UNCHANGED call
  PROVE  KeyOnDisk'
<1> SUFFICES ASSUME Undisturbed' PROVE OneKey'
  BY DEF KeyOnDisk
<1>0. Undisturbed
  BY DEF Undisturbed, ObtainKey, Look, ReadKey, Truncate, WriteKey, TypeInv, TypeOK, KeyTypeOK
<1> USE <1>0 DEF KeyOnDisk, OneKey, TypeInv, TypeOK, KeyTypeOK
<1>1. CASE Look(w)
  BY <1>1 DEF Look, Generate, Goes, Undisturbed
<1>2. CASE ReadKey(w)
  <2>1. file.pem # NoKey => file = Holding(file.pem)
    BY DEF Missing, Empty, Holding
  <2> QED
    BY <1>2, <2>1 DEF ReadKey, Ends, Goes
<1>3. CASE Truncate(w)
  <2>1. ~file.exists
    BY <1>3 DEF Truncate, Undisturbed
  <2>2. \A k : file # Holding(k)
    BY <2>1 DEF Holding
  <2>3. file # Empty
    BY <2>1 DEF Empty
  <2> QED
    BY <1>3, <2>2, <2>3 DEF Truncate, Goes
<1>4. CASE WriteKey(w)
  <2>1. file = Empty
    BY <1>4 DEF WriteKey
  <2>2. \A k \in Keys : file # Holding(k)
    BY <2>1, SigningKeyAssumption DEF Holding, Empty
  <2>3. \A v \in Workers : stage[v] \notin {"loaded", "serving"}
    BY <2>2, SigningKeyAssumption
  <2>4. \A c \in Calls : call[c].pc \notin Signed
    BY <2>2 DEF Signed
  <2> QED
    BY <1>4, <2>3, <2>4 DEF WriteKey, Goes
<1> QED
  BY <1>1, <1>2, <1>3, <1>4 DEF ObtainKey

LEMMA KeyOnDiskStep ==
  ASSUME TypeInv, KeyOnDisk, [Next]_vars
  PROVE  KeyOnDisk'
<1> USE DEF KeyOnDisk, OneKey, Undisturbed
<1>1. ASSUME NEW w \in Workers, Start(w) PROVE KeyOnDisk'
  BY <1>1 DEF Start, Goes, serviceVars, TypeInv, TypeOK, KeyTypeOK
<1>2. ASSUME NEW w \in Workers, ObtainKey(w), UNCHANGED serviceVars PROVE KeyOnDisk'
  BY <1>2, KeyOnDiskStart DEF serviceVars
<1>3. ASSUME NEW w \in Workers, OpenLog(w) PROVE KeyOnDisk'
  BY <1>3 DEF OpenLog, Ends, Goes, TypeInv, TypeOK, KeyTypeOK
<1>4. ASSUME NEW w \in Workers, Crash(w) PROVE KeyOnDisk'
  BY <1>4 DEF Crash, Dies, Ends, Goes, Signed, TypeInv, TypeOK, KeyTypeOK
<1>5. ASSUME NEW c \in Calls, Handle(c) PROVE KeyOnDisk'
  <2>1. UNCHANGED <<persistent, file, stage, key, displaced>>
    BY <1>5 DEF Handle, Decide, Record, RecordFails, Count, Answer, keyVars
  <2>2. \A d \in Calls : call'[d].pc \in Signed =>
          \/ call[d].pc \in Signed /\ call'[d].signer = call[d].signer
          \/ \E w \in Workers : Serving(w) /\ call'[d].signer = key[w]
    <3>1. CASE \E w \in Workers : Decide(c, w)
      BY <3>1 DEF Decide, TypeInv, Signed
    <3>2. CASE Record(c) \/ RecordFails(c) \/ Count(c) \/ Answer(c)
      BY <3>2, RuledTypes DEF Record, RecordFails, Count, Answer, TypeInv, Signed, Ruled, Counting
    <3> QED
      BY <1>5, <3>1, <3>2 DEF Handle
  <2> QED
    BY <2>1, <2>2 DEF Serving
<1>6. CASE UNCHANGED vars
  BY <1>6 DEF vars, keyVars, serviceVars
<1> QED
  BY <1>1, <1>2, <1>3, <1>4, <1>5, <1>6 DEF Next, CreateApp

(* Whatever starts, crashes and failing writes do, as long as no worker    *)
(* displaced a key file that another had made: a worker that serves has    *)
(* the key of the file, and every signature given out verifies with it.    *)
THEOREM SignaturesOutlive == Spec => []SignaturesOutliveRestarts
<1>1. TypeInv /\ KeyOnDisk => SignaturesOutliveRestarts
  BY DEF KeyOnDisk, OneKey, Undisturbed, SignaturesOutliveRestarts, Serving, KeyPersisted, Answered,
         Signed, Holding
<1>2. TypeInv /\ KeyOnDisk /\ [Next]_vars => KeyOnDisk'
  BY KeyOnDiskStep
<1> QED
  BY <1>1, <1>2, KeyOnDiskInit, Types, PTL DEF Spec

-----------------------------------------------------------------------------
(* The entry on disk.  What a worker has counted, or read to count one     *)
(* more, are entries of answered requests; the entry of the request that   *)
(* is about to be counted is on disk, and not among them.                  *)

Counts(w, v) == {e \in Entries : e.worker = w /\ e.verdict = v}
Sent(w, v) == {e \in Counts(w, v) : Answered(e.call)}

EntriesFollow == \A c \in Calls : call[c].pc \in Logged => EntryOf(c) \in Entries

(* An entry is glued to a line that a fault left without its newline, and  *)
(* ends that line.                                                         *)
GluedCost == Cardinality(glued) + (IF open THEN 1 ELSE 0) <= faults

LEMMA EntriesFinite ==
  ASSUME TypeInv
  PROVE  /\ IsFiniteSet(Entries)
         /\ \A e \in Entries : e.call \in Calls
BY FS_Union DEF TypeInv, TypeOK, Entries

CountsFollow ==
  /\ \A w \in Workers, v \in VERDICTS : metrics[w][v] <= Cardinality(Sent(w, v))
  /\ \A c \in Calls : call[c].pc = "counting" =>
                        call[c].seen <= Cardinality(Sent(call[c].worker, call[c].verdict))

LEMMA SentFinite ==
  ASSUME TypeInv, NEW w, NEW v
  PROVE  /\ IsFiniteSet(Sent(w, v)) /\ Cardinality(Sent(w, v)) \in Nat
         /\ Cardinality(Counts(w, v)) \in Nat
         /\ Cardinality(Sent(w, v)) <= Cardinality(Counts(w, v))
<1>1. IsFiniteSet(Entries) /\ Counts(w, v) \subseteq Entries /\ Sent(w, v) \subseteq Counts(w, v)
  BY EntriesFinite DEF Counts, Sent
<1>2. IsFiniteSet(Counts(w, v))
  BY <1>1, FS_Subset
<1>3. IsFiniteSet(Sent(w, v)) /\ Cardinality(Sent(w, v)) <= Cardinality(Counts(w, v))
  BY <1>1, <1>2, FS_Subset
<1> QED
  BY <1>2, <1>3, FS_CardinalityType

(* An entry stays, and so does an answer.                                  *)
LEMMA RecordWrites ==
  ASSUME TypeInv, NEW c \in Calls, Record(c)
  PROVE  Entries' = Entries \cup {EntryOf(c)}
<1>1. TrailOK /\ EntryOf(c) \in EntryType
  BY RuledTypes DEF Record, Signed, TypeInv, TypeOK, TrailOK, EntryType
<1> QED
  BY <1>1, AppendTypes DEF Record

LEMMA EntriesGrow ==
  ASSUME TypeInv, [Next]_vars
  PROVE  \/ Entries' = Entries
         \/ \E c \in Calls : /\ Record(c) \/ RecordFails(c)
                            /\ Entries' = Entries \cup {EntryOf(c)}
<1>1. TrailOK
  BY DEF TypeInv, TypeOK, TrailOK, EntryType
<1>2. ASSUME NEW w \in Workers, CreateApp(w) PROVE Entries' = Entries
  BY <1>2 DEF CreateApp, Start, OpenLog, serviceVars, trail, Entries
<1>3. ASSUME NEW w \in Workers, Crash(w) PROVE Entries' = Entries
  BY <1>1, <1>3, CutTypes DEF Crash
<1>4. ASSUME NEW c \in Calls, Record(c) \/ RecordFails(c)
      PROVE  Entries' = Entries \/ Entries' = Entries \cup {EntryOf(c)}
  <2>1. EntryOf(c) \in EntryType
    BY <1>4, RuledTypes DEF Record, RecordFails, Signed
  <2> QED
    BY <1>1, <1>4, <2>1, AppendTypes, CutTypes DEF Record, RecordFails
<1>5. ASSUME NEW c \in Calls, (\E w \in Workers : Decide(c, w)) \/ Count(c) \/ Answer(c)
      PROVE  Entries' = Entries
  BY <1>5 DEF Decide, Count, Answer, trail, Entries
<1>6. CASE UNCHANGED vars
  BY <1>6 DEF vars, serviceVars, trail, Entries
<1> QED
  BY <1>2, <1>3, <1>4, <1>5, <1>6 DEF Next, Handle

LEMMA SentGrows ==
  ASSUME TypeInv, [Next]_vars, NEW w, NEW v
  PROVE  /\ Entries \subseteq Entries'
         /\ \A c \in Calls : Answered(c) => call'[c] = call[c]
         /\ Sent(w, v) \subseteq Sent(w, v)'
<1>1. \A c \in Calls : Answered(c) => call'[c] = call[c]
  <2>1. ASSUME NEW u \in Workers, CreateApp(u) \/ Crash(u)
        PROVE \A c \in Calls : Answered(c) => call'[c] = call[c]
    <3>1. CASE CreateApp(u)
      BY <3>1 DEF CreateApp, Start, OpenLog, serviceVars
    <3>2. CASE Crash(u)
      BY <3>2 DEF Crash, InHand, Answered
    <3> QED
      BY <2>1, <3>1, <3>2
  <2>2. ASSUME NEW c \in Calls, Handle(c)
        PROVE \A d \in Calls : Answered(d) => call'[d] = call[d]
    BY <2>2 DEF Handle, Decide, Record, RecordFails, Count, Answer, Answered, TypeInv
  <2>3. CASE UNCHANGED vars
    BY <2>3 DEF vars, serviceVars
  <2> QED
    BY <2>1, <2>2, <2>3 DEF Next
<1>2. Entries \subseteq Entries'
  BY EntriesGrow
<1> QED
  BY <1>1, <1>2, EntriesFinite DEF Sent, Counts, Answered

LEMMA SentCounts ==
  ASSUME TypeInv, TypeInv', [Next]_vars, NEW w, NEW v
  PROVE  Cardinality(Sent(w, v)) <= Cardinality(Sent(w, v)')
<1>1. IsFiniteSet(Sent(w, v)') /\ Sent(w, v) \subseteq Sent(w, v)'
  <2>1. IsFiniteSet(Entries') /\ Sent(w, v)' \subseteq Entries'
    BY FS_Union DEF TypeInv, Entries, Sent, Counts
  <2> QED
    BY <2>1, SentGrows, FS_Subset
<1> QED
  BY <1>1, FS_Subset

LEMMA EntriesFollowStep ==
  ASSUME TypeInv, EntriesFollow, [Next]_vars
  PROVE  EntriesFollow'
<1>1. Entries \subseteq Entries'
  BY SentGrows
<1>2. ASSUME NEW c \in Calls, call'[c].pc \in Logged
      PROVE  EntryOf(c)' \in Entries'
  <2>1. CASE Record(c)
    <3>1. EntryOf(c)' = EntryOf(c)
      BY <2>1, RuledTypes DEF Record, EntryOf, TypeInv, Ruled
    <3> QED
      BY <2>1, <3>1, RecordWrites
  <2>2. CASE ~Record(c)
    <3>1. call[c].pc \in Logged /\ EntryOf(c)' = EntryOf(c)
      <4>1. ASSUME NEW w \in Workers, CreateApp(w) \/ Crash(w)
            PROVE  call'[c] = call[c]
        BY <1>2, <4>1 DEF CreateApp, Start, OpenLog, Crash, serviceVars, Logged
      <4>2. ASSUME NEW d \in Calls, Handle(d), d # c
            PROVE  call'[c] = call[c]
        BY <4>2 DEF Handle, Decide, Record, RecordFails, Count, Answer, TypeInv
      <4>3. ASSUME Handle(c)
            PROVE  call[c].pc \in Logged /\ EntryOf(c)' = EntryOf(c)
        <5>1. ~(\E w \in Workers : Decide(c, w)) /\ ~RecordFails(c)
          BY <1>2 DEF Decide, RecordFails, TypeInv, Logged
        <5>2. CASE Count(c)
          BY <5>2 DEF Count, EntryOf, TypeInv, Logged
        <5>3. CASE Answer(c)
          BY <5>3 DEF Answer, EntryOf, TypeInv, Logged
        <5> QED
          BY <2>2, <4>3, <5>1, <5>2, <5>3 DEF Handle
      <4>4. CASE UNCHANGED vars
        BY <1>2, <4>4 DEF vars, serviceVars, EntryOf
      <4> QED
        BY <1>2, <4>1, <4>2, <4>3, <4>4 DEF Next, EntryOf
    <3> QED
      BY <1>1, <3>1 DEF EntriesFollow
  <2> QED
    BY <2>1, <2>2
<1> QED
  BY <1>2 DEF EntriesFollow

LEMMA GluedCostStep ==
  ASSUME TypeInv, TypeInv', GluedCost, [Next]_vars
  PROVE  GluedCost'
<1>1. Cardinality(glued) \in Nat /\ faults \in Int /\ faults' \in Int
  BY FS_CardinalityType DEF TypeInv, TypeOK, KeyTypeOK
<1>2. CASE UNCHANGED trail /\ faults' >= faults
  BY <1>1, <1>2 DEF trail, GluedCost
<1>3. ASSUME NEW e, Appends(e), faults' >= faults
      PROVE  GluedCost'
  <2>1. open' = FALSE
    BY <1>3 DEF Appends
  <2>2. CASE ~open
    BY <1>1, <1>3, <2>1, <2>2 DEF Appends, GluedCost
  <2>3. CASE open
    <3>1. glued' = glued \cup {e} /\ IsFiniteSet(glued)
      BY <1>3, <2>3 DEF Appends, TypeInv
    <3>2. Cardinality(glued') \in {Cardinality(glued), Cardinality(glued) + 1}
      BY <3>1, FS_AddElement
    <3> QED
      BY <1>1, <1>3, <2>1, <2>3, <3>2 DEF GluedCost
  <2> QED
    BY <2>2, <2>3
<1>4. CASE Cut /\ faults' = faults + 1
  BY <1>1, <1>4 DEF Cut, GluedCost
<1>5. ASSUME NEW w \in Workers, CreateApp(w)
      PROVE  UNCHANGED trail /\ faults' = faults
  BY <1>5 DEF CreateApp, Start, ObtainKey, Look, ReadKey, Truncate, WriteKey, OpenLog, serviceVars
<1>6. ASSUME NEW w \in Workers, Crash(w)
      PROVE  (UNCHANGED trail \/ Cut) /\ faults' = faults + 1
  BY <1>6 DEF Crash, Dies
<1>7. ASSUME NEW c \in Calls, Handle(c)
      PROVE  \/ UNCHANGED trail /\ faults' >= faults
             \/ Appends(EntryOf(c)) /\ faults' >= faults
             \/ Cut /\ faults' = faults + 1
  BY <1>1, <1>7 DEF Handle, Decide, Record, RecordFails, Count, Answer, keyVars
<1>8. CASE UNCHANGED vars
  BY <1>1, <1>8 DEF vars, keyVars, serviceVars, trail, GluedCost
<1> QED
  BY <1>1, <1>2, <1>3, <1>4, <1>5, <1>6, <1>7, <1>8 DEF Next

(* Answering counts the request, whose own entry was not among those sent. *)
LEMMA AnswerCounts ==
  ASSUME TypeInv, TypeInv', EntriesFollow, CountsFollow, NEW c \in Calls, Answer(c)
  PROVE  CountsFollow'
<1>0. PICK w \in Workers, v \in VERDICTS : call[c].worker = w /\ call[c].verdict = v
  BY RuledTypes, ServiceAssumption DEF Answer, Counting
<1>1. call[c] \in Counting
  BY RuledTypes DEF Answer
<1>2. /\ Entries' = Entries /\ call'[c].pc = "answered"
      /\ \A d \in Calls : d # c => call'[d] = call[d]
      /\ metrics' = [metrics EXCEPT ![w][v] = call[c].seen + 1]
  BY <1>0 DEF Answer, TypeInv, trail, Entries
<1>3. [Next]_vars
  BY DEF Next, Handle
<1>4. Cardinality(Sent(w, v)) + 1 <= Cardinality(Sent(w, v)')
  <2>0. EntryOf(c) = [call |-> c, worker |-> w, verdict |-> v]
    BY <1>0 DEF EntryOf
  <2>1. EntryOf(c) \in Entries /\ EntryOf(c) \notin Sent(w, v)
    BY DEF EntriesFollow, Answer, Logged, EntryOf, Sent, Answered
  <2>2. Sent(w, v) \cup {EntryOf(c)} \subseteq Sent(w, v)'
    <3>1. Sent(w, v) \subseteq Sent(w, v)'
      BY <1>3, SentGrows
    <3>2. EntryOf(c) \in Sent(w, v)'
      BY <1>2, <2>0, <2>1 DEF Sent, Counts, Answered
    <3> QED
      BY <3>1, <3>2
  <2>3. IsFiniteSet(Sent(w, v)')
    <3>1. IsFiniteSet(Entries') /\ Sent(w, v)' \subseteq Entries'
      BY FS_Union DEF TypeInv, Entries, Sent, Counts
    <3> QED
      BY <3>1, FS_Subset
  <2>4. /\ IsFiniteSet(Sent(w, v))
        /\ Cardinality(Sent(w, v) \cup {EntryOf(c)}) = Cardinality(Sent(w, v)) + 1
    BY <2>1, SentFinite, FS_AddElement
  <2> QED
    BY <2>2, <2>3, <2>4, FS_Subset
<1>5. \A u, r : /\ Cardinality(Sent(u, r)) <= Cardinality(Sent(u, r)')
                /\ Cardinality(Sent(u, r)) \in Nat /\ Cardinality(Sent(u, r)') \in Nat
  <2> SUFFICES ASSUME NEW u, NEW r
               PROVE  /\ Cardinality(Sent(u, r)) <= Cardinality(Sent(u, r)')
                      /\ Cardinality(Sent(u, r)) \in Nat /\ Cardinality(Sent(u, r)') \in Nat
    OBVIOUS
  <2>1. IsFiniteSet(Entries') /\ Sent(u, r)' \subseteq Entries'
    BY FS_Union DEF TypeInv, Entries, Sent, Counts
  <2>2. IsFiniteSet(Sent(u, r)')
    BY <2>1, FS_Subset
  <2>3. Cardinality(Sent(u, r)) <= Cardinality(Sent(u, r)')
    BY <1>3, SentCounts
  <2> QED
    BY <2>2, <2>3, SentFinite, FS_CardinalityType
<1>6. ASSUME NEW u \in Workers, NEW r \in VERDICTS
      PROVE  metrics'[u][r] <= Cardinality(Sent(u, r)')
  <2>1. CASE u = w /\ r = v
    <3>1. metrics'[u][r] = call[c].seen + 1
      BY <1>1, <1>2, <2>1 DEF TypeInv, TypeOK
    <3>2. call[c].seen <= Cardinality(Sent(w, v)) /\ call[c].seen \in Nat
      BY <1>0, <1>1 DEF CountsFollow, Answer, Counting
    <3> QED
      BY <1>4, <1>5, <2>1, <3>1, <3>2
  <2>2. CASE ~(u = w /\ r = v)
    <3>1. metrics'[u][r] = metrics[u][r] /\ metrics[u][r] \in Nat
      BY <1>1, <1>2, <2>2 DEF TypeInv, TypeOK
    <3> QED
      BY <1>5, <3>1 DEF CountsFollow
  <2> QED
    BY <2>1, <2>2
<1>7. ASSUME NEW d \in Calls, call'[d].pc = "counting", NEW u, NEW r,
             u = call'[d].worker, r = call'[d].verdict
      PROVE  call'[d].seen <= Cardinality(Sent(u, r)')
  <2>1. d # c /\ call'[d] = call[d]
    BY <1>2, <1>7
  <2>2. call[d].seen \in Nat
    BY <1>7, <2>1, RuledTypes DEF Counting
  <2>3. call[d].seen <= Cardinality(Sent(u, r))
    BY <1>7, <2>1 DEF CountsFollow
  <2> QED
    BY <1>5, <2>1, <2>2, <2>3
<1> QED
  BY <1>6, <1>7 DEF CountsFollow

LEMMA CountsFollowStep ==
  ASSUME TypeInv, TypeInv', EntriesFollow, CountsFollow, [Next]_vars
  PROVE  CountsFollow'
<1>1. \A u, r : /\ Cardinality(Sent(u, r)) <= Cardinality(Sent(u, r)')
                /\ Cardinality(Sent(u, r)) \in Nat /\ Cardinality(Sent(u, r)') \in Nat
  <2> SUFFICES ASSUME NEW u, NEW r
               PROVE  /\ Cardinality(Sent(u, r)) <= Cardinality(Sent(u, r)')
                      /\ Cardinality(Sent(u, r)) \in Nat /\ Cardinality(Sent(u, r)') \in Nat
    OBVIOUS
  <2>1. IsFiniteSet(Entries') /\ Sent(u, r)' \subseteq Entries'
    BY FS_Union DEF TypeInv, Entries, Sent, Counts
  <2>2. IsFiniteSet(Sent(u, r)')
    BY <2>1, FS_Subset
  <2> QED
    BY <2>2, SentCounts, SentFinite, FS_CardinalityType
<1>2. CASE \E c \in Calls : Answer(c)
  BY <1>2, AnswerCounts
<1>3. CASE ~\E c \in Calls : Answer(c)
  <2>1. ASSUME NEW w \in Workers, NEW v \in VERDICTS
        PROVE  metrics'[w][v] = metrics[w][v] \/ metrics'[w][v] = 0
    <3>1. CASE \E u \in Workers : OpenLog(u)
      BY <2>1, <3>1 DEF OpenLog, NoCounts, TypeInv, TypeOK
    <3>2. ASSUME ~\E u \in Workers : OpenLog(u)
          PROVE  metrics' = metrics
      <4>1. ASSUME NEW u \in Workers, CreateApp(u) \/ Crash(u)
            PROVE  metrics' = metrics
        BY <3>2, <4>1 DEF CreateApp, Start, Crash, serviceVars
      <4>2. ASSUME NEW c \in Calls, Handle(c)
            PROVE  metrics' = metrics
        BY <1>3, <4>2 DEF Handle, Decide, Record, RecordFails, Count
      <4> QED
        BY <4>1, <4>2 DEF Next, vars, serviceVars
    <3> QED
      BY <3>1, <3>2
  <2>2. ASSUME NEW w \in Workers, NEW v \in VERDICTS
        PROVE  metrics'[w][v] <= Cardinality(Sent(w, v)')
    <3>1. metrics[w][v] \in Nat /\ metrics[w][v] <= Cardinality(Sent(w, v))
      BY DEF TypeInv, TypeOK, CountsFollow
    <3> QED
      BY <1>1, <2>1, <3>1
  <2>3. ASSUME NEW c \in Calls, call'[c].pc = "counting"
        PROVE  call'[c] = call[c] \/ Count(c)
    <3>1. ASSUME NEW w \in Workers, CreateApp(w) \/ Crash(w)
          PROVE  call'[c] = call[c]
      BY <2>3, <3>1 DEF CreateApp, Start, OpenLog, Crash, serviceVars
    <3>2. ASSUME NEW d \in Calls, Handle(d), d # c
          PROVE  call'[c] = call[c]
      BY <3>2 DEF Handle, Decide, Record, RecordFails, Count, Answer, TypeInv
    <3>3. ASSUME Handle(c)
          PROVE  Count(c)
      <4>1. ~Record(c)
        BY <2>3, RuledTypes DEF Record, Ruled, TypeInv
      <4> QED
        BY <1>3, <2>3, <3>3, <4>1 DEF Handle, Decide, RecordFails, TypeInv
    <3> QED
      BY <2>3, <3>1, <3>2, <3>3 DEF Next, vars, serviceVars
  <2>4. ASSUME NEW c \in Calls, call'[c].pc = "counting", NEW u, NEW r,
               u = call'[c].worker, r = call'[c].verdict
        PROVE  call'[c].seen <= Cardinality(Sent(u, r)')
    <3>1. call'[c].seen \in Nat /\ call'[c].seen <= Cardinality(Sent(u, r))
      <4>1. CASE call'[c] = call[c]
        BY <2>4, <4>1, RuledTypes DEF CountsFollow, Counting
      <4>2. CASE Count(c)
        <5>1. u = call[c].worker /\ r = call[c].verdict /\ call'[c].seen = metrics[u][r]
          BY <2>4, <4>2 DEF Count, TypeInv
        <5>2. u \in Workers /\ r \in VERDICTS
          BY <4>2, <5>1, RuledTypes, ServiceAssumption DEF Count, Ruled
        <5> QED
          BY <5>1, <5>2 DEF CountsFollow, TypeInv, TypeOK
      <4> QED
        BY <2>3, <2>4, <4>1, <4>2
    <3> QED
      BY <1>1, <3>1
  <2> QED
    BY <2>2, <2>4 DEF CountsFollow
<1> QED
  BY <1>2, <1>3

(* An answer that reached a client, and a decision that a worker counts,   *)
(* has its entry on disk, whatever fails or crashes; it is readable there  *)
(* but for one entry at most for each fault.                               *)
THEOREM AnsweredRecorded == Spec => []AnsweredIsRecorded
<1> DEFINE Inv == EntriesFollow /\ CountsFollow /\ GluedCost
<1>1. Init => Inv
  <2> SUFFICES ASSUME Init PROVE Inv
    OBVIOUS
  <2>1. \A c \in Calls : call[c].pc = "idle"
    BY DEF Init, NoCall
  <2>2. \A w \in Workers, v \in VERDICTS :
          metrics[w][v] = 0 /\ Cardinality(Sent(w, v)) \in Nat
    BY InitTypes, SentFinite DEF Init, NoCounts
  <2>3. GluedCost
    BY FS_EmptySet DEF Init, KeyInit, GluedCost
  <2> QED
    BY <2>1, <2>2, <2>3 DEF EntriesFollow, CountsFollow, Logged
<1>2. TypeInv /\ TypeInv' /\ Inv /\ [Next]_vars => Inv'
  BY EntriesFollowStep, CountsFollowStep, GluedCostStep
<1>3. TypeInv /\ Inv => AnsweredIsRecorded
  <2> SUFFICES ASSUME TypeInv, Inv PROVE AnsweredIsRecorded
    OBVIOUS
  <2>1. ASSUME NEW w \in Workers, NEW v \in VERDICTS
        PROVE  metrics[w][v] <= Counted(w, v)
    <3>1. Counted(w, v) = Cardinality(Counts(w, v))
      BY DEF Counted, Counts
    <3>2. metrics[w][v] \in Nat /\ metrics[w][v] <= Cardinality(Sent(w, v))
      BY DEF CountsFollow, TypeInv, TypeOK
    <3> QED
      BY <3>1, <3>2, SentFinite
  <2>2. Cardinality(glued) <= faults
    BY FS_CardinalityType DEF GluedCost, TypeInv, TypeOK, KeyTypeOK
  <2> QED
    BY <2>1, <2>2 DEF AnsweredIsRecorded, EntriesFollow, Answered, Logged
<1> QED
  BY <1>1, <1>2, <1>3, Types, PTL DEF Spec

-----------------------------------------------------------------------------
(* Starting.  That every worker serves in the end is TLC's to check; what  *)
(* no step may do on the way there is proved: starts never turn back, and  *)
(* those that race for the key file become fewer.                          *)

(* The steps that a start has left, at most.                               *)
StepsLeft(s) == CASE s = "start" -> 4 [] s = "create" -> 3 [] s = "write" -> 2
                  [] s = "read" -> 2 [] s = "loaded" -> 1 [] OTHER -> 0

Creators == {w \in Workers : stage[w] \in {"create", "write"}}

GoesOn(w) == stage[w] # "down" /\ stage'[w] # "down" /\ StepsLeft(stage'[w]) < StepsLeft(stage[w])
Begins(w) == stage[w] = "down" /\ stage'[w] = "start" /\ Accepted(config)
Fails(w)  ==
  /\ stage'[w] = "down"
  /\ \/ faults' = faults + 1
     \/ config.policy = "misshapen"
     \/ garbled
     \/ persistent /\ file = Empty

(* A worker at the key file was given its path, and one that reads or      *)
(* writes it has seen it or made it.                                       *)
AtTheFile ==
  \A w \in Workers :
    /\ stage[w] \in {"read", "create", "write"} => persistent
    /\ stage[w] \in {"read", "write"} => file.exists

(* One worker's stage moves at a time.                                     *)
LEMMA StageMoves ==
  ASSUME TypeInv, [Next]_vars
  PROVE  \/ UNCHANGED <<persistent, file, stage>>
         \/ \E w \in Workers :
              /\ Start(w) \/ OpenLog(w) \/ Look(w) \/ ReadKey(w) \/ Truncate(w) \/ WriteKey(w) \/ Dies(w)
              /\ \A v \in Workers \ {w} : stage'[v] = stage[v]
<1>1. ASSUME NEW w \in Workers, CreateApp(w) \/ Crash(w)
      PROVE  /\ Start(w) \/ OpenLog(w) \/ Look(w) \/ ReadKey(w) \/ Truncate(w) \/ WriteKey(w) \/ Dies(w)
             /\ \A v \in Workers \ {w} : stage'[v] = stage[v]
  BY <1>1 DEF TypeInv, TypeOK, KeyTypeOK, CreateApp, Crash, ObtainKey, Look, Generate, ReadKey, Truncate,
     WriteKey, OpenLog, Start, Dies, Ends, Goes
<1>2. ASSUME NEW c \in Calls, Handle(c) PROVE UNCHANGED <<persistent, file, stage>>
  BY <1>2 DEF Handle, Decide, Record, RecordFails, Count, Answer, keyVars
<1>3. CASE UNCHANGED vars
  BY <1>3 DEF vars, keyVars
<1> QED
  BY <1>1, <1>2, <1>3 DEF Next

LEMMA AtTheFileStep == TypeInv /\ AtTheFile /\ [Next]_vars => AtTheFile'
<1> SUFFICES ASSUME TypeInv, AtTheFile, [Next]_vars PROVE AtTheFile'
  OBVIOUS
<1>1. stage \in [Workers -> Stages]
  BY DEF TypeInv, TypeOK, KeyTypeOK
<1>2. CASE UNCHANGED <<persistent, file, stage>>
  BY <1>2 DEF AtTheFile
<1>3. ASSUME NEW w \in Workers, \A v \in Workers \ {w} : stage'[v] = stage[v]
      PROVE  /\ Start(w) \/ OpenLog(w) \/ Dies(w) => AtTheFile'
             /\ Look(w) => AtTheFile'
             /\ ReadKey(w) => AtTheFile'
             /\ Truncate(w) \/ WriteKey(w) => AtTheFile'
  <2>1. Start(w) \/ OpenLog(w) \/ Dies(w) => AtTheFile'
    BY <1>1, <1>3 DEF Start, OpenLog, Dies, Ends, Goes, AtTheFile
  <2>2. Look(w) => AtTheFile'
    BY <1>1, <1>3 DEF Look, Generate, Goes, AtTheFile
  <2>3. ReadKey(w) => AtTheFile'
    BY <1>1, <1>3 DEF ReadKey, Ends, Goes, AtTheFile
  <2>4. Truncate(w) \/ WriteKey(w) => AtTheFile'
    BY <1>1, <1>3 DEF Truncate, WriteKey, Empty, Holding, Goes, AtTheFile
  <2> QED
    BY <2>1, <2>2, <2>3, <2>4
<1> QED
  BY <1>2, <1>3, StageMoves

LEMMA AtTheFileHolds == Spec => []AtTheFile
<1>1. Init => AtTheFile
  BY DEF Init, KeyInit, AtTheFile
<1> QED
  BY <1>1, AtTheFileStep, Types, PTL DEF Spec

(* What one step of a worker does to its stage.                            *)
LEMMA StageSteps ==
  ASSUME TypeInv, AtTheFile, NEW w \in Workers
  PROVE  /\ Start(w) => Begins(w)
         /\ Dies(w) => Fails(w)
         /\ OpenLog(w) \/ ReadKey(w) => GoesOn(w) \/ Fails(w)
         /\ Look(w) \/ Truncate(w) \/ WriteKey(w) => GoesOn(w)
<1>1. /\ stage \in [Workers -> Stages]
      /\ file \in {Missing, Empty} \cup {Holding(k) : k \in drawn} /\ drawn \subseteq Keys
  BY DEF TypeInv, TypeOK, KeyTypeOK
<1>2. Start(w) => Begins(w)
  BY <1>1 DEF Start, Goes, Begins
<1>3. Dies(w) => Fails(w)
  BY <1>1 DEF Dies, Ends, Goes, Fails
<1>4. OpenLog(w) => GoesOn(w) \/ Fails(w)
  BY <1>1 DEF OpenLog, Ends, Goes, GoesOn, Fails, StepsLeft
<1>5. ReadKey(w) => GoesOn(w) \/ Fails(w)
  <2>1. stage[w] = "read" /\ file.pem = NoKey => persistent /\ file = Empty
    BY <1>1, SigningKeyAssumption DEF AtTheFile, Missing, Holding
  <2> QED
    BY <1>1, <2>1 DEF ReadKey, Ends, Goes, GoesOn, Fails, StepsLeft
<1>6. Look(w) => GoesOn(w)
  BY <1>1 DEF Look, Generate, Goes, GoesOn, StepsLeft
<1>7. Truncate(w) \/ WriteKey(w) => GoesOn(w)
  BY <1>1 DEF Truncate, WriteKey, Goes, GoesOn, StepsLeft
<1> QED
  BY <1>2, <1>3, <1>4, <1>5, <1>6, <1>7

(* A start that create_app() accepts goes on, step by step, until its      *)
(* worker serves; only a fault, a policy file that holds no policy, a log  *)
(* that does not parse or a key file that another start has truncated and  *)
(* not yet written ends it.                                                *)
THEOREM StartsGoOn ==
  Spec => [][\A w \in Workers : stage'[w] # stage[w] => GoesOn(w) \/ Begins(w) \/ Fails(w)]_vars
<1>1. ASSUME TypeInv, AtTheFile, [Next]_vars, NEW w \in Workers, stage'[w] # stage[w]
      PROVE  GoesOn(w) \/ Begins(w) \/ Fails(w)
  BY <1>1, StageMoves, StageSteps
<1>2. TypeInv /\ AtTheFile /\ [Next]_vars =>
        [\A w \in Workers : stage'[w] # stage[w] => GoesOn(w) \/ Begins(w) \/ Fails(w)]_vars
  BY <1>1
<1> QED
  BY <1>2, AtTheFileHolds, Types, PTL DEF Spec

(* Once there is a key file there always is, nobody sets out to create it  *)
(* any more, and it changes only under those who had set out before: when  *)
(* they are through, every start finds the same key.                       *)
THEOREM CreatorsDwindle ==
  Spec => [][file.exists => /\ file'.exists /\ Creators' \subseteq Creators
                            /\ file' # file => Creators # {}]_vars
<1>1. ASSUME TypeInv, [Next]_vars, file.exists
      PROVE  file'.exists /\ Creators' \subseteq Creators /\ (file' # file => Creators # {})
  <2>1. stage \in [Workers -> Stages]
    BY <1>1 DEF TypeInv, TypeOK, KeyTypeOK
  <2>2. CASE UNCHANGED <<persistent, file, stage>>
    BY <1>1, <2>2 DEF Creators
  <2>3. ASSUME NEW w \in Workers, \A v \in Workers \ {w} : stage'[v] = stage[v],
               Start(w) \/ OpenLog(w) \/ Look(w) \/ ReadKey(w) \/ Dies(w)
        PROVE  file' = file /\ Creators' \subseteq Creators
    <3>1. file' = file
      BY <2>3 DEF Start, OpenLog, Look, ReadKey, Dies
    <3>2. stage'[w] \notin {"create", "write"}
      BY <1>1, <2>1, <2>3 DEF Start, OpenLog, Look, Generate, ReadKey, Dies, Ends, Goes
    <3> QED
      BY <2>3, <3>1, <3>2 DEF Creators
  <2>4. ASSUME NEW w \in Workers, \A v \in Workers \ {w} : stage'[v] = stage[v],
               Truncate(w) \/ WriteKey(w)
        PROVE  file'.exists /\ w \in Creators /\ Creators' \subseteq Creators
    BY <2>4 DEF Truncate, WriteKey, Empty, Holding, Creators
  <2> QED
    BY <1>1, <2>2, <2>3, <2>4, StageMoves
<1>2. TypeInv /\ [Next]_vars =>
        [file.exists => /\ file'.exists /\ Creators' \subseteq Creators
                        /\ file' # file => Creators # {}]_vars
  BY <1>1
<1> QED
  BY <1>2, Types, PTL DEF Spec

=============================================================================
