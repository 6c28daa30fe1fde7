------------------------------ MODULE SigningKey ------------------------------
(***************************************************************************)
(* The kernel's signing key and the file it is kept in,                    *)
(* load_or_create_signing_key() in decision_os_min/kernel.py, as the       *)
(* workers of a service run it when they start.  Nothing serializes them:  *)
(* is_file(), the truncation that opens the file for writing and the write *)
(* of its content are three steps of one worker, between which any other   *)
(* may look, read or write, and the worker may die.                        *)
(*   start -> create -> write -> loaded     a new key                      *)
(*   start -> read -> loaded                the key of the file            *)
(* Whoever composes this module decides what a loaded worker does next.    *)
(***************************************************************************)
EXTENDS Integers

CONSTANTS
  Workers,     (* service processes on one data volume                     *)
  Keys,        (* the private keys that generate() may draw                *)
  NoKey,       (* no key                                                   *)
  MaxFaults    (* bound on crashes and failing writes                      *)

ASSUME SigningKeyAssumption ==
  /\ NoKey \notin Keys
  /\ MaxFaults \in Nat

VARIABLES
  persistent,  (* was DECISION_OS_KEY_FILE given?                          *)
  file,        (* the key file                                             *)
  drawn,       (* the keys generated so far                                *)
  stage,       (* how far each worker's start has come                     *)
  key,         (* Kernel._key of each worker                               *)
  faults,      (* how many crashes and failing writes there were           *)
  displaced    (* history: a worker truncated a key file that was not      *)
               (* there when it looked                                     *)

keyVars == <<persistent, file, drawn, stage, key, faults, displaced>>

(* A file opened for writing is empty; a start that finds it so raises.    *)
Missing == [exists |-> FALSE, pem |-> NoKey]
Empty   == [exists |-> TRUE, pem |-> NoKey]
Holding(k) == [exists |-> TRUE, pem |-> k]

Stages == {"down", "start", "read", "create", "write", "loaded", "serving"}

Goes(w, next) == stage' = [stage EXCEPT ![w] = next]

(* The process ends, and with it the key in its memory.                    *)
Ends(w) ==
  /\ Goes(w, "down")
  /\ key' = [key EXCEPT ![w] = NoKey]

Generate(w, next) ==
  /\ \E k \in Keys \ drawn :
       /\ drawn' = drawn \cup {k}
       /\ key' = [key EXCEPT ![w] = k]
  /\ Goes(w, next)

(* Bug: a key is generated whatever the file holds (see                    *)
(* SignaturesOutliveRestarts).                                             *)
LookAway(w) ==
  /\ stage[w] = "start"
  /\ Generate(w, "loaded")
  /\ UNCHANGED <<persistent, file, faults, displaced>>

(* Bug: the file is to be created anew by every start (see                 *)
(* EveryWorkerServes).                                                     *)
LookExclusively(w) ==
  /\ stage[w] = "start"
  /\ IF persistent /\ file.exists THEN Ends(w) /\ UNCHANGED drawn
                                  ELSE Generate(w, IF persistent THEN "create" ELSE "loaded")
  /\ UNCHANGED <<persistent, file, faults, displaced>>

(* Without a path every start has a key of its own; with one, is_file()    *)
(* decides between reading and creating.                                   *)
Look(w) ==
  /\ stage[w] = "start"
  /\ \/ /\ persistent /\ file.exists
        /\ Goes(w, "read")
        /\ UNCHANGED <<key, drawn>>
     \/ /\ persistent /\ ~file.exists
        /\ Generate(w, "create")
     \/ /\ ~persistent
        /\ Generate(w, "loaded")
  /\ UNCHANGED <<persistent, file, faults, displaced>>

(* Bug: a PEM that does not parse is passed over (see TypeOK).             *)
ReadBlank(w) ==
  /\ stage[w] = "read"
  /\ Goes(w, "loaded")
  /\ key' = [key EXCEPT ![w] = file.pem]
  /\ UNCHANGED <<persistent, file, drawn, faults, displaced>>

(* An empty or half written PEM raises out of create_app().                *)
ReadKey(w) ==
  /\ stage[w] = "read"
  /\ IF file.pem = NoKey
     THEN Ends(w)
     ELSE Goes(w, "loaded") /\ key' = [key EXCEPT ![w] = file.pem]
  /\ UNCHANGED <<persistent, file, drawn, faults, displaced>>

(* write_bytes() opens the file: what another worker wrote is gone.        *)
Truncate(w) ==
  /\ stage[w] = "create"
  /\ file' = Empty
  /\ displaced' = (displaced \/ file.exists)
  /\ Goes(w, "write")
  /\ UNCHANGED <<persistent, drawn, key, faults>>

(* ... and writes it.  PEMs have one length, so of two writers the last    *)
(* one's key stays; a chmod() that fails is ignored.                       *)
WriteKey(w) ==
  /\ stage[w] = "write"
  /\ file' = Holding(key[w])
  /\ Goes(w, "loaded")
  /\ UNCHANGED <<persistent, drawn, key, faults, displaced>>

(* The worker dies, or a write of its start raises, which ends it as well. *)
Dies(w) ==
  /\ stage[w] # "down"
  /\ faults < MaxFaults
  /\ faults' = faults + 1
  /\ Ends(w)
  /\ UNCHANGED <<persistent, file, drawn, displaced>>

ObtainKey(w) == Look(w) \/ ReadKey(w) \/ Truncate(w) \/ WriteKey(w)

KeyInit ==
  /\ persistent \in BOOLEAN
  /\ file = Missing
  /\ drawn = {}
  /\ stage = [w \in Workers |-> "down"]
  /\ key = [w \in Workers |-> NoKey]
  /\ faults = 0
  /\ displaced = FALSE

KeyTypeOK ==
  /\ persistent \in BOOLEAN
  /\ file \in {Missing, Empty} \cup {Holding(k) : k \in drawn}
  /\ drawn \subseteq Keys
  /\ stage \in [Workers -> Stages]
  /\ key \in [Workers -> drawn \cup {NoKey}]
  /\ \A w \in Workers : key[w] # NoKey <=> stage[w] \in {"create", "write", "loaded", "serving"}
  /\ faults \in 0..MaxFaults
  /\ displaced \in BOOLEAN

=============================================================================
