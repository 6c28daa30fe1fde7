------------------------------- MODULE HashLog -------------------------------
(***************************************************************************)
(* The audit log, decision_os_min/audit.py: a file of hash-chained lines,  *)
(* written by processes that each keep the head of the chain in memory.    *)
(* The threads of a process share its HashLog object; record() takes no    *)
(* lock, so it is cut wherever another thread or process can come between: *)
(*   ReadSeq, ReadLast     the entry is built from _seq and _last          *)
(*   Write                 its line is appended                            *)
(*   AdvanceSeq, AdvanceLast   the head in memory moves on                 *)
(*   Publish               the external anchor is told                     *)
(* A write can fail half way, an fsync or an anchor can raise, a process   *)
(* can die, and whoever holds the file can rewrite it.                     *)
(***************************************************************************)
EXTENDS Integers, Sequences, FiniteSets

CONSTANTS
  Processes,   (* processes that open the log                              *)
  Anchored,    (* those that were given an anchor sink                     *)
  Records,     (* record() calls; a call stands for the entry's content    *)
  Forged,      (* content that no record() call wrote                      *)
  MaxRestarts  (* bound on the restarts of one process                     *)

ASSUME HashLogAssumption ==
  /\ Anchored \subseteq Processes
  /\ Forged \notin Records
  /\ MaxRestarts \in Nat

Bodies == Records \cup {Forged}

(* entry_hash covers the entry's seq, its content and prev_hash.  A hash   *)
(* without collisions is as good as what it covers, all the way down.      *)
GENESIS == <<>>
Hash(seq, body, prev) == Append(prev, <<seq, body>>)

Entry(seq, body, prev) ==
  [seq |-> seq, body |-> body, prev |-> prev, hash |-> Hash(seq, body, prev)]

(* A line json.loads() cannot parse.                                       *)
Garbled == [garbled |-> TRUE]

VARIABLES
  disk,        (* the lines of the file                                    *)
  open,        (* does the last line lack its newline?                     *)
  proc,        (* each process: is it up, its _seq and its _last           *)
  restarts,    (* how often each process has been started again            *)
  call,        (* the record() calls                                       *)
  anchor,      (* the head last kept out of band: published, or a head()   *)
  owner,       (* history: the process that last loaded the file           *)
  contended,   (* history: a record() overlapped another, a head() or a    *)
               (* load, or its process was not the last to load the file   *)
  failed,      (* history: a record() of this process raised since it      *)
               (* loaded the file                                          *)
  damaged,     (* history: a line was torn, or a record() followed a       *)
               (* failed one in the same process                           *)
  rewritten    (* history: the file was rewritten                          *)

vars == <<disk, open, proc, restarts, call, anchor, owner, contended, failed, damaged, rewritten>>
history == <<owner, contended, failed, damaged, rewritten>>

-----------------------------------------------------------------------------
(* verify(), and the head the file has now                                 *)

Parses(d) == \A i \in DOMAIN d : d[i] # Garbled

HeadSeq(d)  == IF d = <<>> THEN -1 ELSE d[Len(d)].seq
HeadHash(d) == IF d = <<>> THEN GENESIS ELSE d[Len(d)].hash

Verifies(d) ==
  /\ Parses(d)
  /\ \A i \in DOMAIN d :
       /\ d[i].seq = i - 1
       /\ d[i].prev = HeadHash(SubSeq(d, 1, i - 1))
       /\ d[i].hash = Hash(d[i].seq, d[i].body, d[i].prev)

(* Bug: only the length is compared with the anchor (see TamperEvident).   *)
VerifiesLength(d, expected) == Verifies(d) /\ HeadSeq(d) = expected.seq

VerifiesAgainst(d, expected) ==
  /\ Verifies(d)
  /\ HeadHash(d) = expected.hash
  /\ HeadSeq(d) = expected.seq

-----------------------------------------------------------------------------
(* Processes                                                               *)

InFlight(r) == call[r].pc \notin {"idle", "returned", "raised", "killed"}

(* Bug: the last line's seq is not counted up (see TypeOK).                *)
LoadSameSeq(p) ==
  /\ ~proc[p].up
  /\ Parses(disk)
  /\ proc' = [proc EXCEPT ![p] = [up |-> TRUE, seq |-> HeadSeq(disk), last |-> HeadHash(disk)]]
  /\ owner' = p
  /\ failed' = [failed EXCEPT ![p] = FALSE]
  /\ UNCHANGED <<disk, open, restarts, call, anchor, contended, damaged, rewritten>>

(* HashLog(path): the head is the last line's, and a file that does not    *)
(* parse keeps the process from starting.                                  *)
Load(p) ==
  /\ ~proc[p].up
  /\ Parses(disk)
  /\ proc' = [proc EXCEPT ![p] = [up |-> TRUE, seq |-> HeadSeq(disk) + 1, last |-> HeadHash(disk)]]
  /\ owner' = p
  /\ failed' = [failed EXCEPT ![p] = FALSE]
  /\ contended' = (contended \/ \E r \in Records : InFlight(r))
  /\ UNCHANGED <<disk, open, restarts, call, anchor, damaged, rewritten>>

Crash(p) ==
  /\ proc[p].up
  /\ restarts[p] < MaxRestarts
  /\ proc' = [proc EXCEPT ![p].up = FALSE]
  /\ restarts' = [restarts EXCEPT ![p] = @ + 1]
  /\ call' = [r \in Records |-> IF InFlight(r) /\ call[r].proc = p
                                THEN [call[r] EXCEPT !.pc = "killed"] ELSE call[r]]
  /\ UNCHANGED <<disk, open, anchor, history>>

-----------------------------------------------------------------------------
(* record()                                                                *)

NoCall == [pc |-> "idle"]

ReadSeq(r, p) ==
  /\ call[r].pc = "idle"
  /\ proc[p].up
  /\ call' = [call EXCEPT ![r] = 
       [pc |-> "seq", proc |-> p, seq |-> proc[p].seq, prev |-> GENESIS, glued |-> FALSE]]
  /\ contended' = (contended \/ owner # p \/ \E q \in Records : InFlight(q))
  /\ damaged' = (damaged \/ failed[p])
  /\ UNCHANGED <<disk, open, proc, restarts, anchor, owner, failed, rewritten>>

ReadLast(r) ==
  /\ call[r].pc = "seq"
  /\ call' = [call EXCEPT ![r].pc = "built", ![r].prev = proc[call[r].proc].last]
  /\ UNCHANGED <<disk, open, proc, restarts, anchor, history>>

Built(r) == Entry(call[r].seq, r, call[r].prev)

(* Bug: the file is opened with mode "w" (see RecordedStays).              *)
Overwritten(line) == <<line>>

(* The file is opened for append: what is written joins a last line that   *)
(* has no newline.                                                         *)
Appended(line) ==
  IF open THEN [disk EXCEPT ![Len(disk)] = Garbled] ELSE Append(disk, line)

Write(r) ==
  /\ call[r].pc = "built"
  /\ disk' = Appended(Built(r))
  /\ open' = FALSE
  /\ damaged' = (damaged \/ open)
  /\ call' = [call EXCEPT ![r].pc = "written", ![r].glued = open]
  /\ UNCHANGED <<proc, restarts, anchor, owner, contended, failed, rewritten>>

Raise(r) ==
  /\ call' = [call EXCEPT ![r].pc = "raised"]
  /\ failed' = [failed EXCEPT ![call[r].proc] = TRUE]

(* The disk is full: nothing lands, or a part of the line, which may be    *)
(* all of it but the newline.                                              *)
WriteFails(r) ==
  /\ call[r].pc = "built"
  /\ Raise(r)
  /\ \/ UNCHANGED <<disk, open, damaged>>
     \/ \E part \in {Garbled, Built(r)} :
          /\ disk' = Appended(part)
          /\ open' = TRUE
          /\ damaged' = (damaged \/ open \/ part = Garbled)
  /\ UNCHANGED <<proc, restarts, anchor, owner, contended, rewritten>>

(* flush() handed the line to the file, and then fsync() raises.           *)
SyncFails(r) ==
  /\ call[r].pc = "written"
  /\ Raise(r)
  /\ UNCHANGED <<disk, open, proc, restarts, anchor, owner, contended, damaged, rewritten>>

AdvanceSeq(r) ==
  /\ call[r].pc = "written"
  /\ proc' = [proc EXCEPT ![call[r].proc].seq = @ + 1]
  /\ call' = [call EXCEPT ![r].pc = "counted"]
  /\ UNCHANGED <<disk, open, restarts, anchor, history>>

(* Bug: the hash in memory is not moved on (see SerialLogVerifies).        *)
AdvanceNothing(r) ==
  /\ call[r].pc = "counted"
  /\ call' = [call EXCEPT ![r].pc = IF call[r].proc \in Anchored THEN "publish" ELSE "returned"]
  /\ UNCHANGED <<disk, open, proc, restarts, anchor, history>>

AdvanceLast(r) ==
  /\ call[r].pc = "counted"
  /\ proc' = [proc EXCEPT ![call[r].proc].last = Built(r).hash]
  /\ call' = [call EXCEPT ![r].pc = IF call[r].proc \in Anchored THEN "publish" ELSE "returned"]
  /\ UNCHANGED <<disk, open, restarts, anchor, history>>

(* A head kept out of band, and whether the file was rewritten before.     *)
Kept(seq, hash) == [seq |-> seq, hash |-> hash, late |-> rewritten]

(* Bug: the anchor is told the seq of the next entry (see AnchorIsTrue).   *)
PublishNext(r) ==
  /\ call[r].pc = "publish"
  /\ anchor' = Kept(proc[call[r].proc].seq, Built(r).hash)
  /\ call' = [call EXCEPT ![r].pc = "returned"]
  /\ UNCHANGED <<disk, open, proc, restarts, history>>

Publish(r) ==
  /\ call[r].pc = "publish"
  /\ anchor' = Kept(call[r].seq, Built(r).hash)
  /\ call' = [call EXCEPT ![r].pc = "returned"]
  /\ UNCHANGED <<disk, open, proc, restarts, history>>

(* A fail-closed anchor raises: the entry is durable and the head in       *)
(* memory has moved all the same.                                          *)
PublishFails(r) ==
  /\ call[r].pc = "publish"
  /\ call' = [call EXCEPT ![r].pc = "raised"]
  /\ UNCHANGED <<disk, open, proc, restarts, anchor, history>>

-----------------------------------------------------------------------------
(* The operator keeps head() out of band.  Between AdvanceSeq and          *)
(* AdvanceLast of another thread, its two halves are of different entries. *)
Retain(p) ==
  /\ proc[p].up
  /\ anchor' = Kept(proc[p].seq - 1, proc[p].last)
  /\ contended' = (contended \/ \E r \in Records : InFlight(r) /\ call[r].proc = p)
  /\ UNCHANGED <<disk, open, proc, restarts, call, owner, failed, damaged, rewritten>>

(* Whoever holds the file can drop its tail, a line, two lines' order or a *)
(* line's content, and can leave the hashes or chain the result anew.      *)
Edits(d) ==
  {SubSeq(d, 1, n) : n \in 0..Len(d)} \cup
  {SubSeq(d, 1, i - 1) \o SubSeq(d, i + 1, Len(d)) : i \in DOMAIN d} \cup
  {[d EXCEPT ![i] = d[j], ![j] = d[i]] : i, j \in DOMAIN d} \cup
  {[d EXCEPT ![i].body = Forged] : i \in DOMAIN d}

Chained(d) ==
  LET hash(i) == [j \in 1..i |-> <<j - 1, d[j].body>>]
  IN  [i \in 1..Len(d) |-> Entry(i - 1, d[i].body, hash(i - 1))]

Rewrite ==
  /\ ~rewritten
  /\ Parses(disk) /\ ~open
  /\ \E d \in Edits(disk) : disk' \in {d, Chained(d)} \ {disk}
  /\ rewritten' = TRUE
  /\ UNCHANGED <<open, proc, restarts, call, anchor, owner, contended, failed, damaged>>

-----------------------------------------------------------------------------
Init ==
  /\ disk = <<>> /\ open = FALSE
  /\ proc = [p \in Processes |-> [up |-> FALSE, seq |-> 0, last |-> GENESIS]]
  /\ restarts = [p \in Processes |-> 0]
  /\ call = [r \in Records |-> NoCall]
  /\ anchor = [seq |-> -1, hash |-> GENESIS, late |-> FALSE]
  /\ owner \in Processes
  /\ contended = FALSE /\ damaged = FALSE /\ rewritten = FALSE
  /\ failed = [p \in Processes |-> FALSE]

Record(r) ==
  \/ \E p \in Processes : ReadSeq(r, p)
  \/ ReadLast(r) \/ Write(r) \/ WriteFails(r) \/ SyncFails(r)
  \/ AdvanceSeq(r) \/ AdvanceLast(r) \/ Publish(r) \/ PublishFails(r)

Next ==
  \/ \E r \in Records : Record(r)
  \/ \E p \in Processes : Load(p) \/ Crash(p) \/ Retain(p)
  \/ Rewrite

Spec == Init /\ [][Next]_vars

-----------------------------------------------------------------------------
PCs == {"idle", "seq", "built", "written", "counted", "publish", "returned", "raised", "killed"}
Heads == Seq(Nat \X Bodies)
LineType == [seq: Nat, body: Bodies, prev: Heads, hash: Heads] \cup {Garbled}
CallType == [pc: PCs, proc: Processes, seq: Nat, prev: Heads, glued: BOOLEAN]
            \cup {NoCall}

(* Every variable holds a value of its type.                               *)
TypeOK ==
  /\ disk \in Seq(LineType) /\ open \in BOOLEAN
  /\ proc \in [Processes -> [up: BOOLEAN, seq: Nat, last: Heads]]
  /\ restarts \in [Processes -> 0..MaxRestarts]
  /\ call \in [Records -> CallType]
  /\ anchor \in [seq: Int, hash: Heads, late: BOOLEAN]
  /\ owner \in Processes
  /\ contended \in BOOLEAN /\ damaged \in BOOLEAN /\ rewritten \in BOOLEAN
  /\ failed \in [Processes -> BOOLEAN]

OnDisk(line) == \E i \in DOMAIN disk : disk[i] = line
Recorded(r) == call[r].pc \in {"counted", "publish", "returned"}

(* "The durable log is the source of truth" (audit.py:107-108): whatever   *)
(* threads, processes, torn writes and crashes do, an entry record() has   *)
(* returned stays in the file, whole, until someone rewrites the file; the *)
(* one exception is an entry that was glued to a torn line.                *)
RecordedStays ==
  ~rewritten => \A r \in Records : Recorded(r) /\ ~call[r].glued => OnDisk(Built(r))

(* One writer at a time keeps the chain: if no two record() calls overlap, *)
(* every process loads the file before it takes over, and a failed write   *)
(* is followed by a restart, then the file verifies at every moment,       *)
(* crashes and failed fsyncs included.                                     *)
Undisturbed == ~contended /\ ~damaged /\ ~rewritten
SerialLogVerifies == Undisturbed => Verifies(disk)

(* ... and the head kept out of band is the head the file had at that      *)
(* entry, so that an anchor never accuses a log that nobody touched.       *)
AnchorIsTrue ==
  Undisturbed =>
    anchor.seq < Len(disk) /\ VerifiesAgainst(SubSeq(disk, 1, anchor.seq + 1), anchor)

(* HB-2: a file that verifies against a head kept before it was rewritten  *)
(* holds every entry recorded up to that head, whatever was done to it;    *)
(* verify() alone would not notice that the last entries are gone.         *)
TamperEvident ==
  ~contended /\ ~damaged /\ ~anchor.late /\ VerifiesAgainst(disk, anchor) =>
    \A r \in Records : Recorded(r) /\ call[r].seq <= anchor.seq => OnDisk(Built(r))

(* THREAT_MODEL.md:101, "seq is monotonic": in a file that nothing failed  *)
(* on and nobody rewrote, each line's seq is above the one before.         *)
SeqIsMonotonic ==
  ~damaged /\ ~rewritten /\ (\A p \in Processes : ~failed[p]) =>
    \A i, j \in DOMAIN disk : i < j => disk[i].seq < disk[j].seq

=============================================================================
