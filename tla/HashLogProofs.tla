---------------------------- MODULE HashLogProofs ----------------------------
(***************************************************************************)
(* Proofs about HashLog, for any number of processes and record() calls    *)
(* in any interleaving, whatever tears, fails or crashes, and any rewrite. *)
(***************************************************************************)
EXTENDS HashLog, SequenceTheorems, WellFoundedInduction, TLAPS

-----------------------------------------------------------------------------
(* Types                                                                   *)

Line == [seq: Nat, body: Bodies, prev: Heads, hash: Heads]
Begun == [pc: PCs \ {"idle"}, proc: Processes, seq: Nat, prev: Heads, glued: BOOLEAN]

TypeInv ==
  /\ TypeOK
  /\ \A r \in Records : call[r] = NoCall \/ call[r] \in Begun
  /\ open => disk # <<>>

LEMMA Hashes ==
  ASSUME NEW seq \in Nat, NEW body \in Bodies, NEW prev \in Heads
  PROVE  Hash(seq, body, prev) \in Heads /\ Entry(seq, body, prev) \in Line
<1>1. Append(prev, <<seq, body>>) \in Heads
  BY DEF Heads
<1> QED
  BY <1>1 DEF Hash, Entry, Line

LEMMA GarbledIsNoLine == Garbled \notin Line
<1>1. DOMAIN Garbled = {"garbled"}
  BY DEF Garbled
<1>2. \A l \in Line : "seq" \in DOMAIN l
  BY DEF Line
<1> QED
  BY <1>1, <1>2

(* What is read from the end of a file that parses.                        *)
LEMMA HeadTypes ==
  ASSUME NEW d \in Seq(LineType), Parses(d)
  PROVE  /\ d \in Seq(Line)
         /\ HeadSeq(d) \in Int /\ HeadSeq(d) + 1 \in Nat /\ HeadHash(d) \in Heads
<1>1. \A i \in DOMAIN d : d[i] \in Line
  BY DEF Parses, LineType, Line
<1>2. d \in Seq(Line)
  BY <1>1
<1>3. d # <<>> => d[Len(d)] \in Line
  BY <1>2
<1>4. GENESIS \in Heads
  BY DEF GENESIS, Heads
<1> QED
  BY <1>2, <1>3, <1>4 DEF HeadSeq, HeadHash, Line

(* What is appended is lines again.                                        *)
LEMMA AppendTypes ==
  ASSUME TypeInv, NEW line \in LineType
  PROVE  Appended(line) \in Seq(LineType) /\ Appended(line) # <<>>
<1>1. Garbled \in LineType
  BY DEF LineType
<1>2. disk \in Seq(LineType)
  BY DEF TypeInv, TypeOK
<1>3. CASE open
  <2>1. Len(disk) \in DOMAIN disk
    BY <1>2, <1>3 DEF TypeInv
  <2>2. [disk EXCEPT ![Len(disk)] = Garbled] \in Seq(LineType)
    BY <1>1, <1>2, <2>1
  <2> QED
    BY <1>2, <1>3, <2>1, <2>2 DEF Appended
<1>4. CASE ~open
  <2>1. Append(disk, line) \in Seq(LineType) /\ Len(Append(disk, line)) = Len(disk) + 1 /\ Len(disk) \in Nat
    BY <1>2
  <2>2. Append(disk, line) # <<>>
    BY <2>1
  <2> QED
    BY <1>4, <2>1, <2>2 DEF Appended
<1> QED
  BY <1>3, <1>4

LEMMA EditTypes ==
  ASSUME NEW d \in Seq(Line), NEW e \in Edits(d)
  PROVE  e \in Seq(Line) /\ Chained(e) \in Seq(Line)
<1>1. e \in Seq(Line)
  <2>1. CASE \E n \in 0..Len(d) : e = SubSeq(d, 1, n)
    BY <2>1
  <2>2. CASE \E i \in DOMAIN d : e = SubSeq(d, 1, i - 1) \o SubSeq(d, i + 1, Len(d))
    BY <2>2
  <2>3. CASE \E i, j \in DOMAIN d : e = [d EXCEPT ![i] = d[j], ![j] = d[i]]
    BY <2>3
  <2>4. CASE \E i \in DOMAIN d : e = [d EXCEPT ![i].body = Forged]
    <3>1. PICK i \in DOMAIN d : e = [d EXCEPT ![i] = [d[i] EXCEPT !.body = Forged]]
      BY <2>4
    <3>2. d[i] \in Line
      BY <3>1
    <3>3. [d[i] EXCEPT !.body = Forged] \in Line
      BY <3>2 DEF Line, Bodies
    <3> QED
      BY <3>1, <3>3
  <2> DEFINE Shortened == {SubSeq(d, 1, n) : n \in 0..Len(d)}
             Cut     == {SubSeq(d, 1, i - 1) \o SubSeq(d, i + 1, Len(d)) : i \in DOMAIN d}
             Swapped == {[d EXCEPT ![i] = d[j], ![j] = d[i]] : i, j \in DOMAIN d}
             Altered == {[d EXCEPT ![i].body = Forged] : i \in DOMAIN d}
  <2>5. Edits(d) = Shortened \cup Cut \cup Swapped \cup Altered
    BY DEF Edits
  <2>6. e \in Shortened => \E n \in 0..Len(d) : e = SubSeq(d, 1, n)
    OBVIOUS
  <2>7. e \in Cut => \E i \in DOMAIN d : e = SubSeq(d, 1, i - 1) \o SubSeq(d, i + 1, Len(d))
    OBVIOUS
  <2>8. e \in Swapped => \E i, j \in DOMAIN d : e = [d EXCEPT ![i] = d[j], ![j] = d[i]]
    OBVIOUS
  <2>9. e \in Altered => \E i \in DOMAIN d : e = [d EXCEPT ![i].body = Forged]
    OBVIOUS
  <2> HIDE DEF Shortened, Cut, Swapped, Altered
  <2>10. e \in Shortened \/ e \in Cut \/ e \in Swapped \/ e \in Altered
    BY <2>5
  <2> QED
    BY <2>1, <2>2, <2>3, <2>4, <2>6, <2>7, <2>8, <2>9, <2>10
<1>2. \A i \in 1..Len(e) : e[i].body \in Bodies
  <2>1. \A i \in 1..Len(e) : e[i] \in Line
    BY <1>1
  <2> QED
    BY <2>1 DEF Line
<1>3. ASSUME NEW i \in 1..Len(e)
      PROVE  [j \in 1..(i - 1) |-> <<j - 1, e[j].body>>] \in Heads
  <2>1. \A j \in 1..(i - 1) : j - 1 \in Nat /\ j \in 1..Len(e)
    BY <1>1
  <2>2. \A j \in 1..(i - 1) : <<j - 1, e[j].body>> \in Nat \X Bodies
    BY <1>2, <2>1
  <2> DEFINE S == Nat \X Bodies
             f == [j \in 1..(i - 1) |-> <<j - 1, e[j].body>>]
  <2>3. i - 1 \in Nat /\ f \in [1..(i - 1) -> S]
    BY <2>2
  <2> HIDE DEF f, S
  <2>4. f \in Seq(S)
    BY <2>3
  <2> QED
    BY <2>4 DEF Heads, S, f
<1>4. \A i \in 1..Len(e) : Entry(i - 1, e[i].body, [j \in 1..(i - 1) |-> <<j - 1, e[j].body>>]) \in Line
  BY <1>1, <1>2, <1>3, Hashes
<1> DEFINE n    == Len(e)
           f    == Chained(e)
<1>5. n \in Nat /\ f \in [1..n -> Line]
  <2>1. f = [i \in 1..n |-> Entry(i - 1, e[i].body, [j \in 1..(i - 1) |-> <<j - 1, e[j].body>>])]
    BY DEF Chained
  <2>2. n \in Nat
    BY <1>1
  <2> HIDE DEF f
  <2> QED
    BY <1>4, <2>1, <2>2
<1> HIDE DEF n, f
<1>6. f \in Seq(Line)
  BY <1>5
<1> QED
  BY <1>1, <1>6 DEF f

LEMMA BuiltTypes ==
  ASSUME TypeInv, NEW r \in Records, call[r] # NoCall
  PROVE  Built(r) \in Line
  BY Hashes DEF TypeInv, Begun, Built, Bodies

LEMMA TypeStep == TypeInv /\ [Next]_vars => TypeInv'
<1> SUFFICES ASSUME TypeInv, [Next]_vars PROVE TypeInv'
  OBVIOUS
<1> DEFINE ProcType == [up: BOOLEAN, seq: Nat, last: Heads]
<1>0. /\ disk \in Seq(LineType) /\ open \in BOOLEAN /\ proc \in [Processes -> ProcType]
      /\ call \in [Records -> CallType]
      /\ \A r \in Records : call[r].pc # "idle" => call[r] \in Begun
      /\ \A r \in Records : call[r].pc = "idle" => call[r] = NoCall
      /\ Begun \subseteq CallType /\ GENESIS \in Heads
  BY DEF TypeInv, TypeOK, NoCall, Begun, CallType, PCs, GENESIS, Heads
<1>1. ASSUME NEW r \in Records, call[r] \in Begun, NEW pc \in PCs \ {"idle"}
      PROVE  [call[r] EXCEPT !.pc = pc] \in Begun
  BY <1>1 DEF Begun
<1>2. ASSUME NEW r \in Records, NEW c \in Begun, call' = [call EXCEPT ![r] = c]
      PROVE  call' \in [Records -> CallType] /\ \A q \in Records : call'[q] = NoCall \/ call'[q] \in Begun
  BY <1>0, <1>2 DEF TypeInv
<1>3. ASSUME NEW r \in Records, call[r] \in Begun, NEW pc \in PCs \ {"idle"}, call' = [call EXCEPT ![r].pc = pc]
      PROVE  call' \in [Records -> CallType] /\ \A q \in Records : call'[q] = NoCall \/ call'[q] \in Begun
  BY <1>1, <1>2, <1>3
<1>4. ASSUME NEW p \in Processes, Load(p) PROVE TypeInv'
  <2>1. [up |-> TRUE, seq |-> HeadSeq(disk) + 1, last |-> HeadHash(disk)] \in ProcType
    BY <1>0, <1>4, HeadTypes DEF Load
  <2>2. proc' \in [Processes -> ProcType]
    BY <1>0, <1>4, <2>1 DEF Load
  <2> QED
    BY <1>4, <2>2 DEF Load, TypeInv, TypeOK
<1>5. ASSUME NEW p \in Processes, Crash(p) PROVE TypeInv'
  <2>1. \A r \in Records : InFlight(r) => [call[r] EXCEPT !.pc = "killed"] \in Begun
    BY <1>0, <1>1 DEF InFlight, PCs
  <2>2. call' \in [Records -> CallType] /\ \A q \in Records : call'[q] = NoCall \/ call'[q] \in Begun
    BY <1>0, <1>5, <2>1 DEF Crash, TypeInv
  <2>3. restarts' \in [Processes -> 0..MaxRestarts]
    BY <1>5, HashLogAssumption DEF Crash, TypeInv, TypeOK
  <2> QED
    BY <1>5, <2>2, <2>3 DEF Crash, TypeInv, TypeOK, history
<1>6. ASSUME NEW r \in Records, NEW p \in Processes, ReadSeq(r, p) PROVE TypeInv'
  <2>1. [pc |-> "seq", proc |-> p, seq |-> proc[p].seq, prev |-> GENESIS, glued |-> FALSE] \in Begun
    BY <1>0 DEF Begun, PCs
  <2> QED
    BY <1>2, <1>6, <2>1 DEF ReadSeq, TypeInv, TypeOK
<1>7. ASSUME NEW r \in Records, ReadLast(r) PROVE TypeInv'
  <2>1. call[r] \in Begun /\ proc[call[r].proc].last \in Heads
    BY <1>0, <1>7 DEF ReadLast, Begun
  <2>2. [call[r] EXCEPT !.pc = "built", !.prev = proc[call[r].proc].last] \in Begun
    BY <2>1 DEF Begun, PCs
  <2>3. call' = [call EXCEPT ![r] = [call[r] EXCEPT !.pc = "built", !.prev = proc[call[r].proc].last]]
    BY <1>0, <1>7, <2>2 DEF ReadLast
  <2>4. call' \in [Records -> CallType] /\ \A q \in Records : call'[q] = NoCall \/ call'[q] \in Begun
    BY <1>2, <2>2, <2>3
  <2> QED
    BY <1>7, <2>4 DEF ReadLast, TypeInv, TypeOK, history
<1>8. ASSUME NEW r \in Records, Write(r) PROVE TypeInv'
  <2>1. call[r] \in Begun /\ Built(r) \in LineType
    BY <1>0, <1>8, BuiltTypes DEF Write, NoCall, LineType, Line
  <2>2. [call[r] EXCEPT !.pc = "written", !.glued = open] \in Begun
    BY <1>0, <2>1 DEF Begun, PCs
  <2> QED
    BY <1>0, <1>2, <1>8, <2>1, <2>2, AppendTypes DEF Write, TypeInv, TypeOK
<1>9. ASSUME NEW r \in Records, WriteFails(r) \/ SyncFails(r) PROVE TypeInv'
  <2>1. call[r] \in Begun /\ Built(r) \in LineType /\ Garbled \in LineType
    BY <1>0, <1>9, BuiltTypes DEF WriteFails, SyncFails, NoCall, LineType, Line
  <2>2. /\ call' \in [Records -> CallType] /\ \A q \in Records : call'[q] = NoCall \/ call'[q] \in Begun
        /\ failed' \in [Processes -> BOOLEAN]
    BY <1>3, <1>9, <2>1 DEF WriteFails, SyncFails, Raise, PCs, TypeInv, TypeOK
  <2>3. /\ disk' \in Seq(LineType) /\ (open' => disk' # <<>>)
        /\ open' \in BOOLEAN /\ damaged' \in BOOLEAN
    <3>1. CASE UNCHANGED <<disk, open, damaged>>
      BY <3>1 DEF TypeInv, TypeOK
    <3>2. ASSUME NEW part \in {Garbled, Built(r)}, disk' = Appended(part), open' = TRUE,
                 damaged' = (damaged \/ open \/ part = Garbled)
          PROVE  /\ disk' \in Seq(LineType) /\ (open' => disk' # <<>>)
                 /\ open' \in BOOLEAN /\ damaged' \in BOOLEAN
      <4>1. part \in LineType
        BY <2>1
      <4> QED
        BY <3>2, <4>1, AppendTypes
    <3> QED
      BY <1>9, <3>1, <3>2 DEF WriteFails, SyncFails
  <2> QED
    BY <1>9, <2>2, <2>3 DEF WriteFails, SyncFails, TypeInv, TypeOK
<1>10. ASSUME NEW r \in Records, AdvanceSeq(r) \/ AdvanceLast(r) PROVE TypeInv'
  <2>1. call[r] \in Begun /\ call[r].proc \in Processes /\ Built(r).hash \in Heads
    BY <1>0, <1>10, BuiltTypes DEF AdvanceSeq, AdvanceLast, NoCall, Line, Begun
  <2>2. PICK pc \in PCs \ {"idle"} : call' = [call EXCEPT ![r].pc = pc]
    BY <1>10 DEF AdvanceSeq, AdvanceLast, PCs
  <2>3. proc' \in [Processes -> ProcType]
    <3> DEFINE p == call[r].proc
    <3>1. \/ proc' = [proc EXCEPT ![p] = [proc[p] EXCEPT !.seq = proc[p].seq + 1]]
          \/ proc' = [proc EXCEPT ![p] = [proc[p] EXCEPT !.last = Built(r).hash]]
      BY <1>10 DEF AdvanceSeq, AdvanceLast
    <3>2. proc[p] \in ProcType
      BY <1>0, <2>1
    <3>3. /\ [proc[p] EXCEPT !.seq = proc[p].seq + 1] \in ProcType
          /\ [proc[p] EXCEPT !.last = Built(r).hash] \in ProcType
      BY <2>1, <3>2
    <3> QED
      BY <1>0, <3>1, <3>3
  <2>4. call' \in [Records -> CallType] /\ \A q \in Records : call'[q] = NoCall \/ call'[q] \in Begun
    BY <1>3, <2>1, <2>2
  <2> QED
    BY <1>10, <2>3, <2>4 DEF AdvanceSeq, AdvanceLast, TypeInv, TypeOK, history
<1>11. ASSUME NEW r \in Records, Publish(r) \/ PublishFails(r) PROVE TypeInv'
  <2>1. call[r] \in Begun /\ call[r].seq \in Int /\ Built(r).hash \in Heads
    BY <1>0, <1>11, BuiltTypes DEF Publish, PublishFails, NoCall, Line, Begun
  <2>2. /\ call' \in [Records -> CallType] /\ \A q \in Records : call'[q] = NoCall \/ call'[q] \in Begun
    BY <1>3, <1>11, <2>1 DEF Publish, PublishFails, PCs
  <2>3. anchor' \in [seq: Int, hash: Heads, late: BOOLEAN]
    BY <1>11, <2>1 DEF Publish, PublishFails, Kept, TypeInv, TypeOK
  <2> QED
    BY <1>11, <2>2, <2>3 DEF Publish, PublishFails, TypeInv, TypeOK, history
<1>12. ASSUME NEW p \in Processes, Retain(p) PROVE TypeInv'
  <2>1. anchor' \in [seq: Int, hash: Heads, late: BOOLEAN]
    BY <1>0, <1>12 DEF Retain, Kept, TypeInv, TypeOK
  <2> QED
    BY <1>12, <2>1 DEF Retain, TypeInv, TypeOK
<1>13. CASE Rewrite
  <2>1. disk \in Seq(Line)
    BY <1>0, <1>13, HeadTypes DEF Rewrite
  <2>2. disk' \in Seq(Line)
    BY <1>13, <2>1, EditTypes DEF Rewrite
  <2>3. disk' \in Seq(LineType)
    <3>1. Line \subseteq LineType
      BY DEF Line, LineType
    <3> QED
      BY <2>2, <3>1
  <2> QED
    BY <1>13, <2>3 DEF Rewrite, TypeInv, TypeOK
<1>14. CASE UNCHANGED vars
  BY <1>14 DEF vars, TypeInv, TypeOK
<1> QED
  BY <1>4, <1>5, <1>6, <1>7, <1>8, <1>9, <1>10, <1>11, <1>12, <1>13, <1>14 DEF Next, Record

LEMMA Types == Spec => []TypeInv
<1>1. Init => TypeInv
  <2>1. GENESIS \in Heads /\ <<>> \in Seq(LineType)
    BY DEF GENESIS, Heads
  <2> SUFFICES ASSUME Init PROVE TypeInv
    OBVIOUS
  <2>2. /\ proc \in [Processes -> [up: BOOLEAN, seq: Nat, last: Heads]]
        /\ restarts \in [Processes -> 0..MaxRestarts]
        /\ failed \in [Processes -> BOOLEAN]
    BY <2>1, HashLogAssumption DEF Init
  <2>3. call \in [Records -> CallType] /\ \A r \in Records : call[r] = NoCall
    BY DEF Init, CallType
  <2>4. anchor \in [seq: Int, hash: Heads, late: BOOLEAN]
    BY <2>1 DEF Init
  <2> QED
    BY <2>1, <2>2, <2>3, <2>4 DEF Init, TypeInv, TypeOK
<1> QED
  BY <1>1, TypeStep, PTL DEF Spec

(* Every variable keeps its type: what is written is lines or torn ones,   *)
(* whatever is rewritten, and a start counts on from a line that parses.   *)
THEOREM TypeCorrect == Spec => []TypeOK
<1>1. TypeInv => TypeOK
  BY DEF TypeInv
<1> QED
  BY <1>1, Types, PTL

-----------------------------------------------------------------------------
(* What a step moves                                                       *)

(* A call keeps its process and its seq, and once built its prev; it is    *)
(* glued or not when it writes.                                            *)
Onward(q) ==
  /\ call[q] \in Begun /\ call'[q] \in Begun
  /\ call'[q].proc = call[q].proc /\ call'[q].seq = call[q].seq
  /\ \/ ReadLast(q)
     \/ Write(q) /\ call'[q].pc = "written" /\ call'[q].glued = open /\ call'[q].prev = call[q].prev
     \/ /\ call'[q].prev = call[q].prev /\ call'[q].glued = call[q].glued
        /\ \/ InFlight(q) /\ call'[q].pc \in {"raised", "killed"}
           \/ call[q].pc = "written" /\ call'[q].pc = "counted"
           \/ call[q].pc = "counted" /\ call'[q].pc \in {"publish", "returned"}
           \/ call[q].pc = "publish" /\ call'[q].pc = "returned"

LEMMA CallMoves ==
  ASSUME TypeInv, [Next]_vars, NEW q \in Records
  PROVE  \/ call'[q] = call[q]
         \/ \E p \in Processes : ReadSeq(q, p)
         \/ Onward(q)
<1>0. call \in [Records -> CallType] /\ (call[q].pc # "idle" => call[q] \in Begun)
  BY DEF TypeInv, TypeOK, NoCall
<1> DEFINE Moved == call'[q] = call[q] \/ (\E p \in Processes : ReadSeq(q, p)) \/ Onward(q)
<1>1. ASSUME NEW r \in Records, r # q, NEW c, call' = [call EXCEPT ![r] = c] PROVE Moved
  BY <1>0, <1>1
<1>2. ASSUME NEW pc \in PCs \ {"idle"}, call[q].pc # "idle", call' = [call EXCEPT ![q].pc = pc]
      PROVE  /\ call[q] \in Begun /\ call'[q] \in Begun /\ call'[q].pc = pc
             /\ call'[q].proc = call[q].proc /\ call'[q].seq = call[q].seq
             /\ call'[q].prev = call[q].prev /\ call'[q].glued = call[q].glued
  <2>1. call[q] \in Begun /\ call'[q] = [call[q] EXCEPT !.pc = pc]
    BY <1>0, <1>2
  <2> QED
    BY <2>1 DEF Begun
<1>3. call'[q].pc # "idle" => call'[q] \in Begun
  BY TypeStep DEF TypeInv, NoCall
<1>4. ASSUME NEW r \in Records, NEW p \in Processes, ReadSeq(r, p) PROVE Moved
  BY <1>1, <1>4 DEF ReadSeq
<1>5. ASSUME ReadLast(q) PROVE Moved
  <2>1. /\ call[q] \in Begun
        /\ call'[q] = [call[q] EXCEPT !.pc = "built", !.prev = proc[call[q].proc].last]
    BY <1>0, <1>5 DEF ReadLast
  <2>2. call'[q] \in Begun
    BY <1>3, <2>1 DEF Begun
  <2> QED
    BY <1>5, <2>1, <2>2 DEF Onward, Begun
<1>6. ASSUME Write(q) PROVE Moved
  <2>1. call[q] \in Begun /\ call'[q] = [call[q] EXCEPT !.pc = "written", !.glued = open]
    BY <1>0, <1>6 DEF Write
  <2>2. /\ call'[q].pc = "written" /\ call'[q].glued = open /\ call'[q].prev = call[q].prev
        /\ call'[q].proc = call[q].proc /\ call'[q].seq = call[q].seq
    BY <2>1 DEF Begun
  <2>3. call'[q] \in Begun
    BY <1>3, <2>2
  <2> QED
    BY <1>6, <2>1, <2>2, <2>3 DEF Onward
<1>7. ASSUME WriteFails(q) \/ SyncFails(q) \/ PublishFails(q) PROVE Moved
  <2>1. InFlight(q) /\ call[q].pc # "idle" /\ call' = [call EXCEPT ![q].pc = "raised"]
    BY <1>7 DEF WriteFails, SyncFails, PublishFails, Raise, InFlight
  <2> QED
    BY <1>2, <2>1 DEF Onward, PCs
<1>8. ASSUME AdvanceSeq(q) \/ AdvanceLast(q) \/ Publish(q) PROVE Moved
  <2>1. PICK pc \in {"counted", "publish", "returned"} :
          /\ call' = [call EXCEPT ![q].pc = pc]
          /\ \/ call[q].pc = "written" /\ pc = "counted"
             \/ call[q].pc = "counted" /\ pc \in {"publish", "returned"}
             \/ call[q].pc = "publish" /\ pc = "returned"
    BY <1>8 DEF AdvanceSeq, AdvanceLast, Publish
  <2>2. pc \in PCs \ {"idle"} /\ call[q].pc # "idle"
    BY <2>1 DEF PCs
  <2> QED
    BY <1>2, <2>1, <2>2 DEF Onward
<1>9. ASSUME NEW r \in Records, r # q, Record(r) PROVE Moved
  BY <1>0, <1>4, <1>9 DEF Record, ReadSeq, ReadLast, Write, WriteFails, SyncFails, Raise,
     AdvanceSeq, AdvanceLast, Publish, PublishFails
<1>10. ASSUME NEW p \in Processes, Crash(p) PROVE Moved
  <2>1. CASE InFlight(q) /\ call[q].proc = p
    <3>1. call[q] \in Begun /\ call'[q] = [call[q] EXCEPT !.pc = "killed"]
      BY <1>0, <1>10, <2>1 DEF Crash, InFlight
    <3>2. /\ call'[q].pc = "killed"
          /\ call'[q].proc = call[q].proc /\ call'[q].seq = call[q].seq
          /\ call'[q].prev = call[q].prev /\ call'[q].glued = call[q].glued
      BY <3>1 DEF Begun
    <3>3. call'[q] \in Begun
      BY <3>2, TypeStep DEF TypeInv, NoCall
    <3> QED
      BY <2>1, <3>1, <3>2, <3>3 DEF Onward
  <2>2. CASE ~(InFlight(q) /\ call[q].proc = p)
    BY <1>10, <2>2 DEF Crash
  <2> QED
    BY <2>1, <2>2
<1>11. ASSUME Rewrite \/ UNCHANGED vars PROVE Moved
  BY <1>11 DEF Rewrite, vars
<1>12. ASSUME NEW p \in Processes, Load(p) \/ Retain(p) PROVE Moved
  BY <1>12 DEF Load, Retain
<1>13. Record(q) => Moved
  BY <1>4, <1>5, <1>6, <1>7, <1>8 DEF Record
<1> QED
  BY <1>9, <1>10, <1>11, <1>12, <1>13 DEF Next

(* Trouble once is trouble for good.                                       *)
LEMMA TroubleStays ==
  ASSUME [Next]_vars
  PROVE  /\ contended => contended'
         /\ damaged => damaged'
         /\ rewritten => rewritten'
<1> USE DEF Next, Record, ReadSeq, ReadLast, Write, WriteFails, SyncFails, AdvanceSeq, AdvanceLast, Publish,
   PublishFails, Load, Crash, Retain, Rewrite, vars, history
<1>1. contended => contended'
  OBVIOUS
<1>2. damaged => damaged'
  OBVIOUS
<1>3. rewritten => rewritten'
  OBVIOUS
<1> QED
  BY <1>1, <1>2, <1>3

(* The file grows by what one record() writes, or is rewritten.            *)
LEMMA DiskMoves ==
  ASSUME [Next]_vars
  PROVE  \/ disk' = disk /\ open' = open
         \/ \E r \in Records : Write(r)
         \/ \E r \in Records : WriteFails(r)
         \/ Rewrite
BY DEF Next, Record, ReadSeq, ReadLast, SyncFails, AdvanceSeq, AdvanceLast, Publish, PublishFails,
   Load, Crash, Retain, vars

-----------------------------------------------------------------------------
(* What record() has written stays                                         *)

Later(r) == call[r].pc \in {"written", "counted", "publish", "returned"}

(* The line of a record() that has not failed is in the file unless it was *)
(* glued; a last line without its newline is torn, or of one that raised.  *)
Whole ==
  /\ ~damaged => \A r \in Records : Later(r) => ~call[r].glued
  /\ ~rewritten =>
       /\ \A r \in Records : Later(r) /\ ~call[r].glued => OnDisk(Built(r))
       /\ open => \/ disk[Len(disk)] = Garbled
                  \/ \E q \in Records : call[q].pc = "raised" /\ disk[Len(disk)].body = q

LEMMA BuiltLine ==
  ASSUME TypeInv, NEW r \in Records
  PROVE  Built(r).body = r /\ Built(r) # Garbled
<1>1. Built(r).body = r /\ DOMAIN Built(r) = {"seq", "body", "prev", "hash"}
  BY DEF Built, Entry
<1>2. DOMAIN Garbled = {"garbled"}
  BY DEF Garbled
<1> QED
  BY <1>1, <1>2

(* What is appended leaves alone every line but a torn one.                *)
LEMMA AppendKeeps ==
  ASSUME TypeInv, NEW line \in LineType, NEW i \in DOMAIN disk, ~open \/ i # Len(disk)
  PROVE  i \in DOMAIN Appended(line) /\ Appended(line)[i] = disk[i]
<1>1. disk \in Seq(LineType)
  BY DEF TypeInv, TypeOK
<1>2. CASE open
  BY <1>1, <1>2 DEF Appended
<1>3. CASE ~open
  BY <1>1, <1>3 DEF Appended
<1> QED
  BY <1>2, <1>3

LEMMA AppendEnds ==
  ASSUME TypeInv, NEW line \in LineType
  PROVE  LET d == Appended(line)
         IN  /\ Len(d) \in DOMAIN d
             /\ d[Len(d)] = IF open THEN Garbled ELSE line
<1>1. disk \in Seq(LineType)
  BY DEF TypeInv, TypeOK
<1>2. CASE open
  <2>1. Len(disk) \in DOMAIN disk
    BY <1>1, <1>2 DEF TypeInv
  <2> QED
    BY <1>1, <1>2, <2>1 DEF Appended
<1>3. CASE ~open
  BY <1>1, <1>3 DEF Appended
<1> QED
  BY <1>2, <1>3

(* A line is written by its own record(), and then is what it was.         *)
LEMMA LaterMoves ==
  ASSUME TypeInv, [Next]_vars, NEW q \in Records, Later(q)'
  PROVE  \/ /\ Later(q) /\ Built(q)' = Built(q)
            /\ call'[q].glued = call[q].glued /\ call'[q].seq = call[q].seq
         \/ Write(q) /\ call'[q].glued = open /\ Built(q)' = Built(q)
<1>1. CASE call'[q] = call[q]
  BY <1>1 DEF Later, Built
<1>2. CASE \E p \in Processes : ReadSeq(q, p)
  <2>1. call'[q].pc = "seq"
    BY <1>2 DEF ReadSeq, TypeInv, TypeOK
  <2> QED
    BY <2>1 DEF Later
<1>3. CASE Onward(q)
  <2>1. CASE ReadLast(q)
    <3>1. call'[q].pc = "built"
      BY <2>1 DEF ReadLast, TypeInv, TypeOK, CallType, NoCall
    <3> QED
      BY <3>1 DEF Later
  <2> QED
    BY <1>3, <2>1 DEF Onward, Later, Built
<1> QED
  BY <1>1, <1>2, <1>3, CallMoves

LEMMA WholeStep == TypeInv /\ Whole /\ [Next]_vars => Whole'
<1> SUFFICES ASSUME TypeInv, Whole, [Next]_vars PROVE Whole'
  OBVIOUS
<1>1. ASSUME NEW q \in Records, Later(q)'
      PROVE  \/ Later(q) /\ Built(q)' = Built(q) /\ call'[q].glued = call[q].glued
             \/ Write(q) /\ call'[q].glued = open /\ Built(q)' = Built(q)
  BY <1>1, LaterMoves
<1>2. damaged => damaged'
  BY TroubleStays
<1>3. rewritten => rewritten'
  BY TroubleStays
<1>4. ASSUME ~damaged', NEW q \in Records, Later(q)' PROVE ~call'[q].glued
  BY <1>1, <1>2, <1>4 DEF Whole, Write
<1>5. \A q \in Records : call[q].pc = "raised" => call'[q].pc = "raised"
  BY CallMoves DEF Onward, InFlight, ReadSeq, ReadLast, Write
<1>6. ASSUME ~rewritten' PROVE \/ disk' = disk /\ open' = open
                              \/ \E r \in Records : Write(r) \/ WriteFails(r)
  BY <1>6, DiskMoves DEF Rewrite
<1>7. ASSUME ~rewritten', NEW line \in LineType, disk' = Appended(line),
             NEW q \in Records, Later(q), ~call[q].glued
      PROVE  \E i \in DOMAIN disk' : disk'[i] = Built(q)
  <2>1. PICK i \in DOMAIN disk : disk[i] = Built(q)
    BY <1>3, <1>7 DEF Whole, OnDisk
  <2>2. ~open \/ i # Len(disk)
    BY <1>3, <1>7, <2>1, BuiltLine DEF Whole, Later
  <2> QED
    BY <1>7, <2>1, <2>2, AppendKeeps
<1>8. ASSUME NEW r \in Records, Write(r)
      PROVE  Built(r) \in LineType /\ disk' = Appended(Built(r)) /\ ~open'
  BY <1>8, BuiltTypes DEF Write, NoCall, LineType, Line
<1>9. ASSUME NEW r \in Records, WriteFails(r), ~(disk' = disk /\ open' = open)
      PROVE  /\ call'[r].pc = "raised"
             /\ \E line \in LineType : line \in {Garbled, Built(r)} /\ disk' = Appended(line)
  <2>1. Built(r) \in LineType /\ Garbled \in LineType /\ call[r] \in Begun
    BY <1>9, BuiltTypes DEF WriteFails, NoCall, LineType, Line, TypeInv
  <2>2. call'[r].pc = "raised"
    BY <1>9, <2>1 DEF WriteFails, Raise, TypeInv, TypeOK, Begun
  <2> QED
    BY <1>9, <2>1, <2>2 DEF WriteFails
<1>10. ASSUME ~rewritten', NEW q \in Records, Later(q)', ~call'[q].glued PROVE OnDisk(Built(q))'
  <2>1. CASE Write(q) /\ call'[q].glued = open /\ Built(q)' = Built(q)
    BY <1>8, <1>10, <2>1, AppendEnds DEF OnDisk
  <2>2. CASE Later(q) /\ Built(q)' = Built(q) /\ call'[q].glued = call[q].glued
    <3>1. CASE disk' = disk
      BY <1>3, <1>10, <2>2, <3>1 DEF Whole, OnDisk
    <3>2. ASSUME NEW line \in LineType, disk' = Appended(line) PROVE OnDisk(Built(q))'
      BY <1>7, <1>10, <2>2, <3>2 DEF OnDisk
    <3> QED
      BY <1>6, <1>8, <1>9, <1>10, <3>1, <3>2
  <2> QED
    BY <1>1, <1>10, <2>1, <2>2
<1>11. ASSUME ~rewritten', open'
       PROVE  \/ disk'[Len(disk')] = Garbled
              \/ \E q \in Records : call'[q].pc = "raised" /\ disk'[Len(disk')].body = q
  <2>1. CASE disk' = disk /\ open' = open
    BY <1>3, <1>5, <1>11, <2>1 DEF Whole
  <2>2. ASSUME NEW r \in Records, WriteFails(r), ~(disk' = disk /\ open' = open)
        PROVE  \/ disk'[Len(disk')] = Garbled
               \/ call'[r].pc = "raised" /\ disk'[Len(disk')].body = r
    BY <1>9, <2>2, AppendEnds, BuiltLine
  <2> QED
    BY <1>6, <1>8, <1>11, <2>1, <2>2
<1> QED
  BY <1>4, <1>10, <1>11 DEF Whole

LEMMA WholeHolds == Spec => []Whole
<1>1. Init => Whole
  BY DEF Init, Whole, Later, NoCall
<1> QED
  BY <1>1, WholeStep, Types, PTL DEF Spec

(* Whatever threads, processes, torn writes and crashes do, a line that    *)
(* record() has returned for stays in the file until it is rewritten.      *)
THEOREM RecordedStay == Spec => []RecordedStays
<1>1. Whole => RecordedStays
  BY DEF Whole, RecordedStays, Recorded, Later
<1> QED
  BY <1>1, WholeHolds, PTL

-----------------------------------------------------------------------------
(* A chain with one writer                                                 *)

Prior(d, n) == IF n = 0 THEN GENESIS ELSE d[n].hash

(* verify(), line by line.                                                 *)
Linked(d) == \A i \in 1..Len(d) :
  d[i].seq = i - 1 /\ d[i].prev = Prior(d, i - 1) /\ d[i].hash = Hash(d[i].seq, d[i].body, d[i].prev)

OnTop(r) == call[r].seq + 1 = Len(disk) /\ disk[Len(disk)] = Built(r)

(* Where the one record() under way stands, and what its process knows.    *)
Underway(r) ==
  /\ call[r].proc = owner /\ proc[owner].up /\ ~failed[owner]
  /\ \A q \in Records : InFlight(q) => q = r
  /\ call[r].pc \in {"seq", "built"} => call[r].seq = Len(disk) /\ proc[owner].seq = Len(disk)
  /\ call[r].pc = "built" => call[r].prev = Prior(disk, Len(disk))
  /\ call[r].pc = "written" => OnTop(r) /\ proc[owner].seq + 1 = Len(disk)
  /\ call[r].pc \in {"counted", "publish"} => OnTop(r) /\ proc[owner].seq = Len(disk)

(* The file is a chain, and the head that was kept is one it had.          *)
Chain ==
  /\ Parses(disk) /\ Linked(disk)
  /\ anchor.seq + 1 \in 0..Len(disk) /\ anchor.hash = Prior(disk, anchor.seq + 1)

(* A process may be behind the file, but what it knows is a head the file  *)
(* had, unless it is between the two halves of moving on.                  *)
Knows(p) ==
  /\ proc[p].seq <= Len(disk)
  /\ proc[p].last = Prior(disk, proc[p].seq) \/ \E r \in Records : call[r].pc = "counted" /\ call[r].proc = p

Serial ==
  /\ Chain
  /\ \A r \in Records : InFlight(r) => Underway(r)
  /\ \A p \in Processes : proc[p].up => Knows(p)
  /\ proc[owner].up /\ ~failed[owner] /\ (\A r \in Records : ~InFlight(r)) => proc[owner].seq = Len(disk)

(* The head of what precedes a line is what its predecessor says.          *)
LEMMA HeadOfPrefix ==
  ASSUME NEW d \in Seq(Line), NEW n \in 0..Len(d)
  PROVE  /\ SubSeq(d, 1, n) \in Seq(Line) /\ Len(SubSeq(d, 1, n)) = n
         /\ \A i \in 1..n : SubSeq(d, 1, n)[i] = d[i]
         /\ HeadHash(SubSeq(d, 1, n)) = Prior(d, n)
         /\ HeadSeq(SubSeq(d, 1, n)) = IF n = 0 THEN -1 ELSE d[n].seq
<1> DEFINE e == SubSeq(d, 1, n)
<1>1. e \in Seq(Line) /\ Len(e) = n /\ \A i \in 1..n : e[i] = d[i]
  OBVIOUS
<1> HIDE DEF e
<1>2. CASE n = 0
  <2>1. e = <<>>
    BY <1>1, <1>2, EmptySeq
  <2> QED
    BY <1>1, <1>2, <2>1 DEF HeadHash, HeadSeq, Prior, e
<1>3. CASE n # 0
  <2>1. e # <<>> /\ n \in 1..n
    BY <1>1, <1>3
  <2> QED
    BY <1>1, <1>3, <2>1 DEF HeadHash, HeadSeq, Prior, e
<1> QED
  BY <1>2, <1>3

LEMMA VerifiesLineByLine ==
  ASSUME NEW d \in Seq(LineType)
  PROVE  Verifies(d) <=> Parses(d) /\ Linked(d)
<1>1. CASE ~Parses(d)
  BY <1>1 DEF Verifies
<1>2. CASE Parses(d)
  <2>1. d \in Seq(Line) /\ DOMAIN d = 1..Len(d)
    BY <1>2, HeadTypes
  <2>2. \A i \in 1..Len(d) : HeadHash(SubSeq(d, 1, i - 1)) = Prior(d, i - 1)
    BY <2>1, HeadOfPrefix
  <2> QED
    BY <1>2, <2>1, <2>2 DEF Verifies, Linked
<1> QED
  BY <1>1, <1>2

LEMMA PrefixLinked ==
  ASSUME NEW d \in Seq(Line), Linked(d), NEW n \in 0..Len(d)
  PROVE  Linked(SubSeq(d, 1, n))
<1>1. /\ Len(SubSeq(d, 1, n)) = n
      /\ \A i \in 1..n : SubSeq(d, 1, n)[i] = d[i]
  BY HeadOfPrefix
<1>2. \A i \in 1..n : Prior(SubSeq(d, 1, n), i - 1) = Prior(d, i - 1)
  BY <1>1 DEF Prior
<1> QED
  BY <1>1, <1>2 DEF Linked

LEMMA ParsesLines ==
  ASSUME NEW d \in Seq(Line)
  PROVE  Parses(d) /\ d \in Seq(LineType)
<1>1. Line \subseteq LineType
  BY DEF Line, LineType
<1> QED
  BY <1>1, GarbledIsNoLine DEF Parses

(* A line built on the head extends the chain.                             *)
LEMMA Extended ==
  ASSUME NEW d \in Seq(Line), Linked(d), NEW body \in Bodies
  PROVE  LET line == Entry(Len(d), body, Prior(d, Len(d)))
             e    == Append(d, line)
         IN  /\ e \in Seq(Line) /\ Linked(e) /\ Len(e) = Len(d) + 1
             /\ e[Len(e)] = line
             /\ \A n \in 0..Len(d) : Prior(e, n) = Prior(d, n)
<1> DEFINE line == Entry(Len(d), body, Prior(d, Len(d)))
           e    == Append(d, line)
<1>1. line \in Line
  <2>1. Prior(d, Len(d)) \in Heads
    <3>1. Len(d) # 0 => d[Len(d)] \in Line
      OBVIOUS
    <3> QED
      BY <3>1 DEF Prior, Line, GENESIS, Heads
  <2> QED
    BY <2>1, Hashes
<1>2. /\ line.seq = Len(d) /\ line.prev = Prior(d, Len(d))
      /\ line.hash = Hash(line.seq, line.body, line.prev)
  BY DEF Entry
<1> HIDE DEF line
<1>3. /\ e \in Seq(Line) /\ Len(e) = Len(d) + 1 /\ e[Len(e)] = line
      /\ \A i \in 1..Len(d) : e[i] = d[i]
  BY <1>1
<1> HIDE DEF e
<1>4. \A n \in 0..Len(d) : Prior(e, n) = Prior(d, n)
  BY <1>3 DEF Prior
<1>5. Linked(e)
  BY <1>2, <1>3, <1>4 DEF Linked
<1> QED
  BY <1>3, <1>4, <1>5 DEF e, line

(* A record() that writes, all of it or all but the newline.               *)
LEMMA SerialWrites ==
  ASSUME TypeInv, Serial, NEW r \in Records, call[r].pc = "built", ~open, disk' = Appended(Built(r)),
         anchor' = anchor
  PROVE  /\ disk' \in Seq(Line) /\ Chain' /\ Len(disk') = Len(disk) + 1 /\ disk'[Len(disk')] = Built(r)
         /\ call[r].seq = Len(disk)
         /\ \A n \in 0..Len(disk) : Prior(disk', n) = Prior(disk, n)
<1>1. Underway(r) /\ disk \in Seq(Line) /\ Linked(disk)
  BY HeadTypes DEF Serial, Chain, InFlight, TypeInv, TypeOK
<1>2. Built(r) = Entry(Len(disk), r, Prior(disk, Len(disk))) /\ disk' = Append(disk, Built(r))
  BY <1>1 DEF Underway, Built, Appended
<1>3. /\ disk' \in Seq(Line) /\ Linked(disk') /\ Len(disk') = Len(disk) + 1
      /\ disk'[Len(disk')] = Built(r)
      /\ \A n \in 0..Len(disk) : Prior(disk', n) = Prior(disk, n)
  <2>1. r \in Bodies
    BY DEF Bodies
  <2> DEFINE e == Append(disk, Entry(Len(disk), r, Prior(disk, Len(disk))))
  <2>2. /\ e \in Seq(Line) /\ Linked(e) /\ Len(e) = Len(disk) + 1
        /\ e[Len(e)] = Entry(Len(disk), r, Prior(disk, Len(disk)))
        /\ \A n \in 0..Len(disk) : Prior(e, n) = Prior(disk, n)
    BY <1>1, <2>1, Extended
  <2>3. disk' = e
    BY <1>2
  <2> HIDE DEF e
  <2> QED
    BY <1>2, <2>2, <2>3
<1>4. Parses(disk')
  BY <1>3, ParsesLines
<1>5. anchor.seq + 1 \in 0..Len(disk') /\ anchor.hash = Prior(disk', anchor.seq + 1)
  BY <1>1, <1>3 DEF Serial, Chain
<1>6. Chain'
  BY <1>3, <1>4, <1>5 DEF Chain
<1> QED
  BY <1>1, <1>3, <1>6 DEF Underway

(* A call that is not under way, and whose step does not put it there.     *)
LEMMA Settles ==
  ASSUME TypeInv, Serial, NEW r \in Records, InFlight(r), NEW pc \in PCs \ {"idle"},
         call' = [call EXCEPT ![r].pc = pc]
  PROVE  /\ call[r] \in Begun /\ call'[r] \in Begun /\ call'[r].pc = pc
         /\ call'[r].proc = call[r].proc /\ call'[r].seq = call[r].seq
         /\ call'[r].prev = call[r].prev /\ Built(r)' = Built(r)
         /\ \A q \in Records \ {r} : call'[q] = call[q] /\ ~InFlight(q) /\ ~InFlight(q)'
<1>1. call[r] \in Begun /\ call \in [Records -> CallType]
  BY DEF TypeInv, TypeOK, InFlight, NoCall
<1>2. call'[r] = [call[r] EXCEPT !.pc = pc] /\ \A q \in Records \ {r} : call'[q] = call[q]
  BY <1>1
<1>3. /\ call'[r] \in Begun /\ call'[r].pc = pc
      /\ call'[r].proc = call[r].proc /\ call'[r].seq = call[r].seq /\ call'[r].prev = call[r].prev
  BY <1>1, <1>2 DEF Begun
<1>4. \A q \in Records \ {r} : ~InFlight(q)
  BY DEF Serial, Underway
<1> QED
  BY <1>1, <1>2, <1>3, <1>4 DEF InFlight, Built

LEMMA SerialStep == TypeInv /\ (Undisturbed => Serial) /\ [Next]_vars => (Undisturbed => Serial)'
<1> SUFFICES ASSUME TypeInv, Undisturbed => Serial, [Next]_vars, Undisturbed'
             PROVE  Serial'
  OBVIOUS
<1> DEFINE ProcType == [up: BOOLEAN, seq: Nat, last: Heads]
<1>0. Undisturbed /\ Serial
  BY TroubleStays DEF Undisturbed
<1>1. /\ disk \in Seq(Line) /\ Len(disk) \in Nat
      /\ proc \in [Processes -> ProcType] /\ call \in [Records -> CallType] /\ owner \in Processes
      /\ failed \in [Processes -> BOOLEAN]
      /\ \A r \in Records : InFlight(r) => call[r] \in Begun
  BY <1>0, HeadTypes DEF TypeInv, TypeOK, Serial, Chain, InFlight, NoCall
<1>2. ASSUME NEW r \in Records, InFlight(r)
      PROVE  call[r].proc = owner /\ proc[owner].up /\ ~failed[owner] /\ \A q \in Records \ {r} : ~InFlight(q)
  BY <1>0, <1>2 DEF Serial, Underway
<1>3. ASSUME NEW r \in Records, Write(r) PROVE Serial'
  <2>1. call[r].pc = "built" /\ InFlight(r) /\ ~open /\ disk' = Appended(Built(r))
        /\ UNCHANGED <<anchor, proc, owner, failed>>
    BY <1>3 DEF Write, InFlight, Undisturbed
  <2>2. /\ Chain' /\ Len(disk') = Len(disk) + 1 /\ disk'[Len(disk')] = Built(r) /\ call[r].seq = Len(disk)
        /\ \A n \in 0..Len(disk) : Prior(disk', n) = Prior(disk, n)
    BY <1>0, <2>1, SerialWrites
  <2>3. /\ call[r] \in Begun /\ call'[r] = [call[r] EXCEPT !.pc = "written", !.glued = open]
        /\ \A q \in Records \ {r} : call'[q] = call[q]
    BY <1>1, <1>3, <2>1 DEF Write
  <2>4. /\ call'[r].pc = "written" /\ call'[r].proc = call[r].proc /\ call'[r].seq = call[r].seq
        /\ call'[r].prev = call[r].prev
    BY <2>3 DEF Begun
  <2>5. Built(r)' = Built(r) /\ \A q \in Records \ {r} : ~InFlight(q)'
    BY <1>2, <2>1, <2>3, <2>4 DEF Built, InFlight
  <2>6. Underway(r)'
    <3>1. proc[owner].seq = Len(disk) /\ call[r].proc = owner /\ proc[owner].up /\ ~failed[owner]
      BY <1>0, <2>1 DEF Serial, Underway
    <3> QED
      BY <1>1, <2>1, <2>2, <2>4, <2>5, <3>1 DEF Underway, OnTop
  <2>7. ASSUME NEW p \in Processes, proc[p].up PROVE Knows(p)'
    <3>1. ~\E q \in Records : call[q].pc = "counted"
      BY <1>2, <2>1 DEF InFlight
    <3>2. proc[p].seq \in 0..Len(disk) /\ proc[p].last = Prior(disk, proc[p].seq)
      BY <1>0, <1>1, <2>7, <3>1 DEF Serial, Knows
    <3> QED
      BY <1>1, <2>1, <2>2, <3>2 DEF Knows
  <2>8. InFlight(r)'
    BY <2>4 DEF InFlight
  <2> QED
    BY <2>1, <2>2, <2>5, <2>6, <2>7, <2>8 DEF Serial
<1>4. ASSUME NEW r \in Records, WriteFails(r) PROVE Serial'
  <2>1. call[r].pc = "built" /\ InFlight(r) /\ Raise(r) /\ UNCHANGED <<anchor, proc, owner>>
    BY <1>4 DEF WriteFails, InFlight
  <2>2. \A q \in Records : ~InFlight(q)'
    BY <1>0, <2>1, Settles DEF Raise, InFlight, PCs
  <2>3. failed'[owner]
    BY <1>1, <1>2, <2>1 DEF Raise
  <2>4. ~\E q \in Records : call[q].pc = "counted"
    BY <1>2, <2>1 DEF InFlight
  <2>5. \A p \in Processes : proc[p].up => proc[p].seq \in 0..Len(disk) /\ proc[p].last = Prior(disk, proc[p].seq)
    BY <1>0, <1>1, <2>4 DEF Serial, Knows
  <2>6. CASE disk' = disk
    <3>1. Chain'
      BY <1>0, <2>1, <2>6 DEF Serial, Chain
    <3>2. \A p \in Processes : proc[p].up => Knows(p)'
      BY <1>1, <2>1, <2>5, <2>6 DEF Knows
    <3> QED
      BY <2>1, <2>2, <2>3, <3>1, <3>2 DEF Serial
  <2>7. CASE ~open /\ disk' = Appended(Built(r))
    <3>1. Chain' /\ Len(disk') = Len(disk) + 1 /\ \A n \in 0..Len(disk) : Prior(disk', n) = Prior(disk, n)
      BY <1>0, <2>1, <2>7, SerialWrites
    <3>2. \A p \in Processes : proc[p].up => Knows(p)'
      BY <1>1, <2>1, <2>5, <3>1 DEF Knows
    <3> QED
      BY <2>1, <2>2, <2>3, <3>1, <3>2 DEF Serial
  <2> QED
    BY <1>4, <2>6, <2>7 DEF WriteFails, Undisturbed
<1>5. ASSUME NEW r \in Records, SyncFails(r) PROVE Serial'
  <2>1. call[r].pc = "written" /\ InFlight(r) /\ Raise(r) /\ UNCHANGED <<disk, anchor, proc, owner>>
    BY <1>5 DEF SyncFails, InFlight
  <2>2. \A q \in Records : ~InFlight(q)'
    BY <1>0, <2>1, Settles DEF Raise, InFlight, PCs
  <2>3. failed'[owner]
    BY <1>1, <1>2, <2>1 DEF Raise
  <2>4. ~\E q \in Records : call[q].pc = "counted"
    BY <1>2, <2>1 DEF InFlight
  <2> QED
    BY <1>0, <2>1, <2>2, <2>3, <2>4 DEF Serial, Chain, Knows
<1>6. ASSUME NEW r \in Records, AdvanceSeq(r) PROVE Serial'
  <2> DEFINE p == call[r].proc
  <2>1. /\ call[r].pc = "written" /\ InFlight(r) /\ call' = [call EXCEPT ![r].pc = "counted"]
        /\ proc' = [proc EXCEPT ![p] = [proc[p] EXCEPT !.seq = proc[p].seq + 1]]
        /\ UNCHANGED <<disk, anchor, owner, failed>>
    BY <1>6 DEF AdvanceSeq, InFlight, history
  <2>2. /\ call'[r].pc = "counted" /\ call'[r].proc = p /\ call'[r].seq = call[r].seq /\ Built(r)' = Built(r)
        /\ \A q \in Records \ {r} : ~InFlight(q)'
    BY <1>0, <2>1, Settles DEF PCs
  <2>3. /\ p = owner /\ proc[owner].up /\ ~failed[owner] /\ OnTop(r) /\ proc[owner].seq + 1 = Len(disk)
    BY <1>0, <2>1 DEF Serial, Underway
  <2>4. /\ proc'[owner].up /\ proc'[owner].seq = Len(disk)
        /\ \A g \in Processes \ {owner} : proc'[g] = proc[g]
    BY <1>1, <2>1, <2>3
  <2>5. Underway(r)'
    BY <2>1, <2>2, <2>3, <2>4 DEF Underway, OnTop
  <2>6. ASSUME NEW g \in Processes, proc'[g].up PROVE Knows(g)'
    <3>1. CASE g = owner
      BY <1>1, <2>1, <2>2, <2>3, <2>4, <3>1 DEF Knows
    <3>2. CASE g # owner
      <4>1. ~\E q \in Records : call[q].pc = "counted" /\ call[q].proc = g
        BY <1>2, <2>1, <2>3, <3>2 DEF InFlight
      <4>2. proc'[g] = proc[g] /\ Knows(g)
        BY <1>0, <2>4, <2>6, <3>2 DEF Serial
      <4> QED
        BY <2>1, <4>1, <4>2 DEF Knows
    <3> QED
      BY <3>1, <3>2
  <2>7. InFlight(r)'
    BY <2>2 DEF InFlight
  <2> QED
    BY <1>0, <2>1, <2>2, <2>5, <2>6, <2>7 DEF Serial, Chain
<1>7. ASSUME NEW r \in Records, AdvanceLast(r) PROVE Serial'
  <2> DEFINE p == call[r].proc
  <2>1. /\ call[r].pc = "counted" /\ InFlight(r)
        /\ proc' = [proc EXCEPT ![p] = [proc[p] EXCEPT !.last = Built(r).hash]]
        /\ UNCHANGED <<disk, anchor, owner, failed>>
    BY <1>7 DEF AdvanceLast, InFlight, history
  <2>2. PICK pc \in {"publish", "returned"} : call' = [call EXCEPT ![r].pc = pc]
    BY <1>7 DEF AdvanceLast
  <2>3. /\ call'[r].pc = pc /\ call'[r].proc = p /\ call'[r].seq = call[r].seq /\ Built(r)' = Built(r)
        /\ \A q \in Records \ {r} : ~InFlight(q)'
    BY <1>0, <2>1, <2>2, Settles DEF PCs
  <2>4. /\ p = owner /\ proc[owner].up /\ ~failed[owner] /\ OnTop(r) /\ proc[owner].seq = Len(disk)
    BY <1>0, <2>1 DEF Serial, Underway
  <2>5. /\ proc'[owner].up /\ proc'[owner].seq = Len(disk) /\ proc'[owner].last = Built(r).hash
        /\ \A g \in Processes \ {owner} : proc'[g] = proc[g]
    BY <1>1, <2>1, <2>4
  <2>6. Underway(r)'
    BY <2>1, <2>2, <2>3, <2>4, <2>5 DEF Underway, OnTop
  <2>7. Prior(disk, Len(disk)) = Built(r).hash
    BY <1>1, <2>1, <2>4 DEF OnTop, Prior, Begun
  <2>8. ASSUME NEW g \in Processes, proc'[g].up PROVE Knows(g)'
    <3>1. CASE g = owner
      BY <1>1, <2>1, <2>5, <2>7, <3>1 DEF Knows
    <3>2. CASE g # owner
      <4>1. ~\E q \in Records : call[q].pc = "counted" /\ call[q].proc = g
        BY <1>2, <2>1, <2>4, <3>2 DEF InFlight
      <4> QED
        BY <1>0, <2>1, <2>5, <2>8, <3>2, <4>1 DEF Serial, Knows
    <3> QED
      BY <3>1, <3>2
  <2> QED
    BY <1>0, <2>1, <2>3, <2>5, <2>6, <2>8 DEF Serial, Chain
<1>8. ASSUME NEW r \in Records, Publish(r) \/ PublishFails(r) PROVE Serial'
  <2>1. call[r].pc = "publish" /\ InFlight(r) /\ UNCHANGED <<disk, proc, owner, failed>>
    BY <1>8 DEF Publish, PublishFails, InFlight, history
  <2>2. PICK pc \in {"returned", "raised"} : call' = [call EXCEPT ![r].pc = pc]
    BY <1>8 DEF Publish, PublishFails
  <2>3. \A q \in Records : ~InFlight(q)'
    BY <1>0, <2>1, <2>2, Settles DEF PCs, InFlight
  <2>4. OnTop(r) /\ proc[owner].seq = Len(disk)
    BY <1>0, <2>1 DEF Serial, Underway
  <2>5. Prior(disk, Len(disk)) = Built(r).hash
    BY <1>1, <2>1, <2>4 DEF OnTop, Prior, Begun
  <2>6. anchor' = anchor \/ (anchor'.seq + 1 = Len(disk) /\ anchor'.hash = Built(r).hash)
    BY <1>8, <2>4 DEF Publish, PublishFails, Kept, OnTop
  <2>7. ~\E q \in Records : call[q].pc = "counted"
    BY <1>2, <2>1 DEF InFlight
  <2>8. Chain'
    BY <1>0, <1>1, <2>1, <2>5, <2>6 DEF Serial, Chain
  <2> QED
    BY <1>0, <2>1, <2>3, <2>4, <2>7, <2>8 DEF Serial, Knows
<1>9. ASSUME NEW p \in Processes, Load(p) PROVE Serial'
  <2>1. /\ \A r \in Records : ~InFlight(r)
        /\ UNCHANGED <<disk, call, anchor>> /\ owner' = p
        /\ proc' = [proc EXCEPT ![p] = [up |-> TRUE, seq |-> HeadSeq(disk) + 1, last |-> HeadHash(disk)]]
    BY <1>9 DEF Load, Undisturbed
  <2>2. HeadSeq(disk) + 1 = Len(disk) /\ HeadHash(disk) = Prior(disk, Len(disk))
    BY <1>0, <1>1 DEF Serial, Chain, Linked, HeadSeq, HeadHash, Prior
  <2>3. /\ proc'[p].seq = Len(disk) /\ proc'[p].last = Prior(disk, Len(disk))
        /\ \A g \in Processes \ {p} : proc'[g] = proc[g]
    BY <1>1, <2>1, <2>2
  <2>4. \A g \in Processes : proc'[g].up => Knows(g)'
    BY <1>0, <1>1, <2>1, <2>3 DEF Serial, Knows
  <2>5. \A r \in Records : ~InFlight(r)'
    BY <2>1 DEF InFlight
  <2> QED
    BY <1>0, <2>1, <2>3, <2>4, <2>5 DEF Serial, Chain
<1>10. ASSUME NEW p \in Processes, Crash(p) PROVE Serial'
  <2>1. /\ UNCHANGED <<disk, anchor, owner, failed>>
        /\ proc' = [proc EXCEPT ![p].up = FALSE]
        /\ call' = [r \in Records |-> IF InFlight(r) /\ call[r].proc = p
                                      THEN [call[r] EXCEPT !.pc = "killed"] ELSE call[r]]
    BY <1>10 DEF Crash, history
  <2>2. ~proc'[p].up /\ \A g \in Processes \ {p} : proc'[g] = proc[g]
    BY <1>1, <2>1
  <2>3. ASSUME NEW r \in Records, InFlight(r)'
        PROVE  InFlight(r) /\ call'[r] = call[r] /\ owner # p
    <3>1. CASE InFlight(r) /\ call[r].proc = p
      <4>1. call'[r].pc = "killed"
        BY <1>1, <2>1, <3>1 DEF Begun
      <4> QED
        BY <2>3, <4>1 DEF InFlight
    <3>2. CASE ~(InFlight(r) /\ call[r].proc = p)
      <4>1. call'[r] = call[r]
        BY <2>1, <3>2
      <4> QED
        BY <1>2, <2>3, <3>2, <4>1 DEF InFlight
    <3> QED
      BY <3>1, <3>2
  <2>4. ASSUME NEW r \in Records, InFlight(r)' PROVE Underway(r)'
    <3>1. Underway(r) /\ call'[r] = call[r] /\ Built(r)' = Built(r) /\ proc'[owner] = proc[owner]
      BY <1>0, <1>1, <2>2, <2>3, <2>4 DEF Serial, Built
    <3> QED
      BY <2>1, <2>3, <3>1 DEF Underway, OnTop
  <2>5. ASSUME NEW g \in Processes, proc'[g].up PROVE Knows(g)'
    <3>1. g # p /\ proc'[g] = proc[g] /\ Knows(g)
      BY <1>0, <2>2, <2>5 DEF Serial
    <3>2. \A r \in Records : call[r].pc = "counted" /\ call[r].proc = g => call'[r] = call[r]
      BY <2>1, <3>1
    <3> QED
      BY <2>1, <3>1, <3>2 DEF Knows
  <2>6. ASSUME proc'[owner].up, ~failed[owner], \A r \in Records : ~InFlight(r)' PROVE proc'[owner].seq = Len(disk)
    <3>1. owner # p /\ proc'[owner] = proc[owner]
      BY <1>1, <2>2, <2>6
    <3>2. \A r \in Records : InFlight(r) => call'[r] = call[r]
      BY <1>2, <2>1, <3>1
    <3>3. \A r \in Records : ~InFlight(r)
      BY <2>6, <3>2 DEF InFlight
    <3> QED
      BY <1>0, <2>6, <3>1, <3>3 DEF Serial
  <2> QED
    BY <1>0, <2>1, <2>4, <2>5, <2>6 DEF Serial, Chain
<1>11. ASSUME NEW r \in Records, NEW p \in Processes, ReadSeq(r, p) PROVE Serial'
  <2>1. /\ UNCHANGED <<disk, anchor, proc, owner, failed>> /\ call[r].pc = "idle"
        /\ call' = [call EXCEPT ![r] =
             [pc |-> "seq", proc |-> p, seq |-> proc[p].seq, prev |-> GENESIS, glued |-> FALSE]]
        /\ p = owner /\ (\A q \in Records : ~InFlight(q)) /\ ~failed[owner] /\ proc[p].up
    BY <1>11 DEF ReadSeq, Undisturbed
  <2>2. /\ call'[r].pc = "seq" /\ call'[r].proc = owner /\ call'[r].seq = proc[owner].seq
        /\ \A q \in Records \ {r} : call'[q] = call[q]
    BY <1>1, <2>1
  <2>3. proc[owner].seq = Len(disk)
    BY <1>0, <2>1 DEF Serial
  <2>4. InFlight(r)' /\ \A q \in Records \ {r} : ~InFlight(q)'
    BY <2>1, <2>2 DEF InFlight
  <2>5. Underway(r)'
    BY <2>1, <2>2, <2>3, <2>4 DEF Underway
  <2>6. ~\E q \in Records : call[q].pc = "counted"
    BY <2>1 DEF InFlight
  <2> QED
    BY <1>0, <2>1, <2>4, <2>5, <2>6 DEF Serial, Chain, Knows
<1>12. ASSUME NEW r \in Records, ReadLast(r) PROVE Serial'
  <2>1. /\ UNCHANGED <<disk, anchor, proc, owner, failed>> /\ call[r].pc = "seq" /\ InFlight(r)
        /\ call' = [call EXCEPT ![r] = [call[r] EXCEPT !.pc = "built", !.prev = proc[call[r].proc].last]]
    BY <1>12 DEF ReadLast, InFlight, history
  <2>2. call[r] \in Begun /\ Underway(r)
    BY <1>0, <1>1, <2>1 DEF Serial
  <2>3. /\ call'[r].pc = "built" /\ call'[r].prev = proc[owner].last
        /\ call'[r].proc = call[r].proc /\ call'[r].seq = call[r].seq
        /\ \A q \in Records \ {r} : call'[q] = call[q]
    BY <1>1, <2>1, <2>2 DEF Begun, Underway
  <2>4. ~\E q \in Records : call[q].pc = "counted"
    BY <1>2, <2>1 DEF InFlight
  <2>5. proc[owner].last = Prior(disk, Len(disk))
    BY <1>0, <1>1, <2>1, <2>2, <2>4 DEF Serial, Knows, Underway
  <2>6. InFlight(r)' /\ \A q \in Records \ {r} : ~InFlight(q)'
    BY <1>2, <2>1, <2>3 DEF InFlight
  <2>7. Underway(r)'
    BY <2>1, <2>2, <2>3, <2>5, <2>6 DEF Underway
  <2> QED
    BY <1>0, <2>1, <2>4, <2>6, <2>7 DEF Serial, Chain, Knows
<1>13. ASSUME NEW p \in Processes, Retain(p) PROVE Serial'
  <2>1. /\ UNCHANGED <<disk, proc, call, owner, failed>> /\ proc[p].up
        /\ anchor' = Kept(proc[p].seq - 1, proc[p].last)
        /\ ~\E r \in Records : InFlight(r) /\ call[r].proc = p
    BY <1>13 DEF Retain, Undisturbed
  <2>2. proc[p].seq \in 0..Len(disk) /\ proc[p].last = Prior(disk, proc[p].seq)
    BY <1>0, <1>1, <2>1 DEF Serial, Knows, InFlight
  <2>3. anchor'.seq + 1 = proc[p].seq /\ anchor'.hash = proc[p].last
    BY <1>1, <2>1 DEF Kept
  <2>4. Chain'
    BY <1>0, <2>1, <2>2, <2>3 DEF Serial, Chain
  <2> QED
    BY <1>0, <2>1, <2>4 DEF Serial, Knows, Underway, InFlight, OnTop, Built
<1>14. CASE UNCHANGED vars
  BY <1>0, <1>14 DEF vars, Serial, Chain, Knows, Underway, InFlight, OnTop, Built
<1>15. ~Rewrite
  BY DEF Rewrite, Undisturbed
<1> QED
  BY <1>3, <1>4, <1>5, <1>6, <1>7, <1>8, <1>9, <1>10, <1>11, <1>12, <1>13, <1>14, <1>15 DEF Next, Record

LEMMA SerialHolds == Spec => [](Undisturbed => Serial)
<1>1. Init => Serial
  BY DEF Init, Serial, Chain, Parses, Linked, Prior, InFlight, NoCall
<1>2. Init => (Undisturbed => Serial)
  BY <1>1
<1> QED
  BY <1>2, SerialStep, Types, PTL DEF Spec

(* One writer at a time, and a restart after a failed write, keep a file   *)
(* that verifies, through crashes and failed fsyncs.                       *)
THEOREM SerialVerifies == Spec => []SerialLogVerifies
<1>1. TypeInv /\ (Undisturbed => Serial) => SerialLogVerifies
  BY VerifiesLineByLine DEF TypeInv, TypeOK, Serial, Chain, SerialLogVerifies
<1> QED
  BY <1>1, SerialHolds, Types, PTL

(* ... and then a head that was kept is the head the file had.             *)
THEOREM AnchorsAreTrue == Spec => []AnchorIsTrue
<1>1. TypeInv /\ (Undisturbed => Serial) => AnchorIsTrue
  <2> SUFFICES ASSUME TypeInv, Serial
               PROVE  anchor.seq < Len(disk) /\ VerifiesAgainst(SubSeq(disk, 1, anchor.seq + 1), anchor)
    BY DEF AnchorIsTrue
  <2> DEFINE n == anchor.seq + 1
             d == SubSeq(disk, 1, n)
  <2>1. disk \in Seq(Line) /\ Linked(disk) /\ n \in 0..Len(disk) /\ anchor.hash = Prior(disk, n)
        /\ anchor.seq \in Int
    BY HeadTypes DEF TypeInv, TypeOK, Serial, Chain
  <2>2. d \in Seq(Line) /\ Linked(d)
    BY <2>1, HeadOfPrefix, PrefixLinked
  <2>3. Verifies(d)
    BY <2>2, ParsesLines, VerifiesLineByLine
  <2>4. HeadHash(d) = anchor.hash /\ HeadSeq(d) = IF n = 0 THEN -1 ELSE disk[n].seq
    BY <2>1, HeadOfPrefix
  <2>5. HeadSeq(d) = anchor.seq
    BY <2>1, <2>4 DEF Linked
  <2> QED
    BY <2>1, <2>3, <2>4, <2>5 DEF VerifiesAgainst
<1> QED
  BY <1>1, SerialHolds, Types, PTL

-----------------------------------------------------------------------------
(* A file that was rewritten                                               *)

LEMMA Least ==
  ASSUME NEW S \in SUBSET Nat, S # {}
  PROVE  \E k \in S : \A m \in S : k <= m
<1> DEFINE Less == OpToRel(<, Nat)
<1>1. IsWellFoundedOn(Less, Nat)
  BY NatLessThanWellFounded, Zenon
<1> HIDE DEF Less
<1>2. PICK k \in S : \A m \in S : ~(<<m, k>> \in Less)
  BY <1>1, WFMin, Zenon
<1>3. \A m \in S : ~(m < k)
  BY <1>2 DEF Less, OpToRel
<1> QED
  BY <1>3

LEMMA AppendsTell ==
  ASSUME NEW S, NEW p \in Seq(S), NEW q \in Seq(S), NEW x \in S, NEW y \in S, Append(p, x) = Append(q, y)
  PROVE  x = y /\ p = q
BY AppendInjective

LEMMA HashesTell ==
  ASSUME NEW d \in Line, NEW e \in Line, d.hash = e.hash,
         d.hash = Hash(d.seq, d.body, d.prev), e.hash = Hash(e.seq, e.body, e.prev)
  PROVE  d = e
<1>1. d.prev \in Heads /\ e.prev \in Heads
  BY DEF Line
<1> DEFINE x == <<d.seq, d.body>>
           y == <<e.seq, e.body>>
<1>2. x \in Nat \X Bodies /\ y \in Nat \X Bodies
  BY DEF Line
<1>3. Append(d.prev, x) = Append(e.prev, y)
  BY DEF Hash
<1>4. d.prev \in Seq(Nat \X Bodies) /\ e.prev \in Seq(Nat \X Bodies)
  BY <1>1 DEF Heads
<1>5. x = y /\ d.prev = e.prev
  <2> HIDE DEF x, y
  <2> DEFINE S == Nat \X Bodies
  <2>1. x \in S /\ y \in S /\ d.prev \in Seq(S) /\ e.prev \in Seq(S)
    BY <1>2, <1>4
  <2> HIDE DEF S
  <2> QED
    BY <1>3, <2>1, AppendsTell
<1>6. d.seq = e.seq /\ d.body = e.body
  BY <1>5
<1> QED
  BY <1>5, <1>6 DEF Line

(* Two chains with the same head, so far on, are the same so far.          *)
LEMMA SameChain ==
  ASSUME NEW d \in Seq(Line), NEW e \in Seq(Line), Linked(d), Linked(e),
         NEW n \in 0..Len(d), n \in 0..Len(e), Prior(d, n) = Prior(e, n)
  PROVE  \A i \in 1..n : d[i] = e[i]
<1>1. ASSUME NEW m \in 1..n, Prior(d, m) = Prior(e, m)
      PROVE  d[m] = e[m] /\ Prior(d, m - 1) = Prior(e, m - 1)
  <2>1. d[m] \in Line /\ e[m] \in Line /\ d[m].hash = e[m].hash
    BY <1>1 DEF Prior
  <2>2. /\ d[m].hash = Hash(d[m].seq, d[m].body, d[m].prev) /\ d[m].prev = Prior(d, m - 1)
        /\ e[m].hash = Hash(e[m].seq, e[m].body, e[m].prev) /\ e[m].prev = Prior(e, m - 1)
    BY <1>1 DEF Linked
  <2>3. d[m] = e[m]
    BY <2>1, <2>2, HashesTell
  <2> QED
    BY <2>2, <2>3
<1> DEFINE Apart == {k \in 0..n : Prior(d, n - k) # Prior(e, n - k)}
<1>2. Apart = {}
  <2> SUFFICES ASSUME Apart # {} PROVE FALSE
    OBVIOUS
  <2>1. PICK k \in Apart : \A m \in Apart : k <= m
    <3>1. Apart \in SUBSET Nat
      OBVIOUS
    <3> HIDE DEF Apart
    <3> QED
      BY <3>1, Least
  <2>2. k # 0
    BY <2>1
  <2>3. k - 1 \in 0..n /\ k - 1 \notin Apart
    BY <2>1, <2>2
  <2>4. Prior(d, n - k + 1) = Prior(e, n - k + 1) /\ n - k + 1 \in 1..n
    BY <2>1, <2>2, <2>3
  <2>5. Prior(d, (n - k + 1) - 1) = Prior(e, (n - k + 1) - 1)
    BY <1>1, <2>4
  <2>6. (n - k + 1) - 1 = n - k
    BY <2>1
  <2> QED
    BY <2>1, <2>5, <2>6
<1>3. ASSUME NEW m \in 1..n PROVE Prior(d, m) = Prior(e, m)
  <2>1. n - m \in 0..n /\ n - (n - m) = m
    OBVIOUS
  <2> QED
    BY <1>2, <2>1
<1> QED
  BY <1>1, <1>3

(* verify(expected_head=...) pins the whole file down: two files that both *)
(* verify against one head are the same, line for line, so that no edit of *)
(* a log goes unnoticed by who has kept its head.                          *)
THEOREM HeadsDetermineLogs ==
  ASSUME NEW d \in Seq(LineType), NEW e \in Seq(LineType), NEW expected,
         VerifiesAgainst(d, expected), VerifiesAgainst(e, expected)
  PROVE  d = e
<1>1. /\ d \in Seq(Line) /\ Linked(d)
      /\ e \in Seq(Line) /\ Linked(e)
  BY VerifiesLineByLine, HeadTypes DEF VerifiesAgainst, Verifies
<1>2. PICK n \in Nat : n = Len(d)
  BY <1>1
<1>3. PICK m \in Nat : m = Len(e)
  BY <1>1
<1>4. HeadSeq(d) = n - 1 /\ HeadHash(d) = Prior(d, n)
  BY <1>1, <1>2 DEF Linked, HeadSeq, HeadHash, Prior
<1>5. HeadSeq(e) = m - 1 /\ HeadHash(e) = Prior(e, m)
  BY <1>1, <1>3 DEF Linked, HeadSeq, HeadHash, Prior
<1>6. n = m /\ Prior(d, n) = Prior(e, n)
  BY <1>4, <1>5 DEF VerifiesAgainst
<1>7. n \in 0..Len(d) /\ n \in 0..Len(e)
  BY <1>2, <1>3, <1>6
<1>8. \A i \in 1..n : d[i] = e[i]
  <2> HIDE <1>2, <1>3
  <2> QED
    BY <1>1, <1>6, <1>7, SameChain
<1>9. /\ d = [i \in DOMAIN d |-> d[i]] /\ DOMAIN d = 1..Len(d)
      /\ e = [i \in DOMAIN e |-> e[i]] /\ DOMAIN e = 1..Len(e)
  BY <1>1
<1>10. d = [i \in 1..n |-> d[i]] /\ e = [i \in 1..n |-> e[i]]
  BY <1>2, <1>3, <1>6, <1>9
<1> QED
  BY <1>8, <1>10

(* There was a chain that the kept head is a head of, and that had the     *)
(* line of r if r is no later than that head.                              *)
Before(r) == \E f \in Seq(Line) :
  /\ Linked(f)
  /\ anchor.seq + 1 \in 0..Len(f) /\ anchor.hash = Prior(f, anchor.seq + 1)
  /\ call[r].seq <= anchor.seq => f[call[r].seq + 1] = Built(r)

(* A line that record() has returned for is in the file, or was when the   *)
(* head was kept.                                                          *)
Vouched == rewritten /\ ~contended /\ ~damaged /\ ~anchor.late =>
  \A r \in Records : Later(r) => OnDisk(Built(r)) \/ Before(r)

LEMMA VouchedStep ==
  TypeInv /\ Whole /\ (Undisturbed => Serial) /\ Vouched /\ [Next]_vars => Vouched'
<1> SUFFICES ASSUME TypeInv, Whole, Undisturbed => Serial, Vouched, [Next]_vars,
                    rewritten', ~contended', ~damaged', ~anchor'.late,
                    NEW r \in Records, Later(r)'
             PROVE  (OnDisk(Built(r)) \/ Before(r))'
  BY DEF Vouched
<1>1. ~contended /\ ~damaged
  BY TroubleStays
<1>2. CASE Rewrite
  <2>1. ~rewritten /\ UNCHANGED <<call, anchor>>
    BY <1>2 DEF Rewrite
  <2>2. Later(r) /\ Built(r)' = Built(r) /\ call[r] \in Begun
    BY <2>1 DEF Later, Built, TypeInv, NoCall
  <2>3. Serial /\ disk \in Seq(Line)
    BY <1>1, <2>1, HeadTypes DEF Undisturbed, Serial, Chain, TypeInv, TypeOK
  <2>4. PICK i \in DOMAIN disk : disk[i] = Built(r)
    BY <1>1, <2>1, <2>2 DEF Whole, OnDisk
  <2>5. Built(r).seq = call[r].seq /\ call[r].seq \in Int
    BY <2>2 DEF Built, Entry, Begun
  <2>6. disk[i].seq = i - 1 /\ i \in 1..Len(disk)
    BY <2>3, <2>4 DEF Serial, Chain, Linked
  <2>7. i = call[r].seq + 1
    BY <2>4, <2>5, <2>6
  <2> QED
    BY <2>1, <2>2, <2>3, <2>4, <2>7 DEF Before, Serial, Chain
<1>3. ASSUME NEW q \in Records, Write(q)
      PROVE  ~open /\ disk' = Appended(Built(q)) /\ Built(q) \in LineType
  <2>1. Built(q) \in LineType
    BY <1>3, BuiltTypes DEF Write, NoCall, LineType, Line
  <2>2. ~open
    BY <1>3 DEF Write
  <2> QED
    BY <1>3, <2>1, <2>2 DEF Write
<1>4. ASSUME NEW q \in Records, WriteFails(q), disk' # disk
      PROVE  ~open /\ disk' = Appended(Built(q)) /\ Built(q) \in LineType
  <2>1. Built(q) \in LineType
    BY <1>4, BuiltTypes DEF WriteFails, NoCall, LineType, Line
  <2>2. PICK part \in {Garbled, Built(q)} : disk' = Appended(part) /\ damaged' = (damaged \/ open \/ part = Garbled)
    BY <1>4 DEF WriteFails
  <2> QED
    BY <2>1, <2>2
<1>5. CASE ~Rewrite
  <2>1. rewritten /\ anchor' = anchor
    <3>1. rewritten' = rewritten
      BY <1>5 DEF Next, Record, ReadSeq, ReadLast, Write, WriteFails, SyncFails, AdvanceSeq, AdvanceLast,
         Publish, PublishFails, Load, Crash, Retain, vars, history
    <3>2. anchor' = anchor \/ \E seq, hash : anchor' = Kept(seq, hash)
      BY <1>5 DEF Next, Record, ReadSeq, ReadLast, Write, WriteFails, SyncFails, AdvanceSeq, AdvanceLast,
         Publish, PublishFails, Load, Crash, Retain, vars
    <3>3. ~\E seq, hash : anchor' = Kept(seq, hash)
      BY <3>1 DEF Kept
    <3> QED
      BY <3>1, <3>2, <3>3
  <2>2. \/ Later(r) /\ Built(r)' = Built(r) /\ call'[r].seq = call[r].seq
        \/ Write(r) /\ Built(r)' = Built(r)
    BY LaterMoves
  <2>3. CASE Write(r) /\ Built(r)' = Built(r)
    <3>1. ~open /\ disk' = Appended(Built(r)) /\ Built(r) \in LineType
      BY <1>3, <2>3
    <3> QED
      BY <2>3, <3>1, AppendEnds DEF OnDisk
  <2>4. CASE Later(r) /\ Built(r)' = Built(r) /\ call'[r].seq = call[r].seq
    <3>1. CASE Before(r)
      BY <2>1, <2>4, <3>1 DEF Before
    <3>2. CASE OnDisk(Built(r))
      <4>1. CASE disk' = disk
        BY <2>4, <3>2, <4>1 DEF OnDisk
      <4>2. ASSUME ~open, NEW line \in LineType, disk' = Appended(line) PROVE OnDisk(Built(r))'
        BY <2>4, <3>2, <4>2, AppendKeeps DEF OnDisk
      <4>3. ASSUME NEW q \in Records, Write(q) PROVE OnDisk(Built(r))'
        <5>1. ~open /\ disk' = Appended(Built(q)) /\ Built(q) \in LineType
          BY <1>3, <4>3
        <5> QED
          BY <4>2, <5>1
      <4>4. ASSUME NEW q \in Records, WriteFails(q), disk' # disk PROVE OnDisk(Built(r))'
        <5>1. ~open /\ disk' = Appended(Built(q)) /\ Built(q) \in LineType
          BY <1>4, <4>4
        <5> QED
          BY <4>2, <5>1
      <4> QED
        BY <1>5, <4>1, <4>3, <4>4, DiskMoves
    <3> QED
      BY <1>1, <2>1, <2>4, <3>1, <3>2 DEF Vouched
  <2> QED
    BY <2>2, <2>3, <2>4
<1> QED
  BY <1>2, <1>5

(* HB-2: a file that verifies against a head kept before it was rewritten  *)
(* holds every line recorded up to that head, whatever was done to it.     *)
THEOREM TamperingShows == Spec => []TamperEvident
<1>1. Init => Vouched
  BY DEF Init, Vouched
<1>2. ASSUME TypeInv, Whole, Vouched PROVE TamperEvident
  <2> SUFFICES ASSUME ~contended, ~damaged, ~anchor.late, VerifiesAgainst(disk, anchor),
                      NEW r \in Records, Recorded(r), call[r].seq <= anchor.seq
               PROVE  OnDisk(Built(r))
    BY DEF TamperEvident
  <2>1. Later(r) /\ call[r] \in Begun
    BY <1>2 DEF Recorded, Later, TypeInv, NoCall
  <2>2. CASE ~rewritten
    BY <1>2, <2>1, <2>2 DEF Whole
  <2>3. CASE rewritten /\ ~OnDisk(Built(r))
    <3> DEFINE n == anchor.seq + 1
    <3>1. PICK f \in Seq(Line) :
            Linked(f) /\ n \in 0..Len(f) /\ anchor.hash = Prior(f, n) /\ f[call[r].seq + 1] = Built(r)
      BY <1>2, <2>1, <2>3 DEF Vouched, Before
    <3>2. disk \in Seq(LineType) /\ anchor.seq \in Int /\ call[r].seq \in Nat
      BY <1>2, <2>1 DEF TypeInv, TypeOK, Begun
    <3>3. Parses(disk) /\ Linked(disk) /\ HeadHash(disk) = anchor.hash /\ HeadSeq(disk) = anchor.seq
      BY <3>2, VerifiesLineByLine DEF VerifiesAgainst
    <3>4. disk \in Seq(Line)
      BY <3>2, <3>3, HeadTypes
    <3>5. disk # <<>> /\ Len(disk) = n /\ Prior(disk, n) = anchor.hash
      BY <3>2, <3>3, <3>4 DEF HeadSeq, HeadHash, Prior, Linked
    <3>6. \A i \in 1..n : disk[i] = f[i]
      BY <3>1, <3>3, <3>4, <3>5, SameChain
    <3>7. call[r].seq + 1 \in 1..n /\ call[r].seq + 1 \in DOMAIN disk
      BY <3>2, <3>4, <3>5
    <3> QED
      BY <3>1, <3>6, <3>7 DEF OnDisk
  <2> QED
    BY <2>2, <2>3
<1>3. TypeInv /\ Whole /\ Vouched => TamperEvident
  BY <1>2
<1> QED
  BY <1>1, <1>3, VouchedStep, SerialHolds, WholeHolds, Types, PTL DEF Spec

=============================================================================
