----------------------------- MODULE FileStore -----------------------------
(***************************************************************************)
(* The file repository (storage/filecase): one snapshot file and one audit *)
(* log per case, and one idempotency file for all of them, whose content   *)
(* is also kept in memory.  Save replaces the snapshot by a rename, then   *)
(* truncates and rewrites the idempotency file, then appends to the audit  *)
(* log, all under the store's mutex; a crash may fall between any two of   *)
(* these steps, and each of them may fail.                                 *)
(*                                                                         *)
(* A case is the sequence of the requests applied to it: the first created *)
(* it, each mutation adds one, and the version of the case is the length   *)
(* (CommissioningCase!touch).  The temporary file is never read and is     *)
(* left out.  A crash is one of the process: what it wrote stays written.  *)
(***************************************************************************)
EXTENDS Integers, Sequences

CONSTANTS
  Nil,
  Torn,       \* the content of a file cut short: it is no JSON document
  Cases,      \* case identifiers
  StoreKeys,  \* the idempotency keys that results are stored under
  Handlers,   \* goroutines that serve a request
  MaxFaults   \* bound: file operations that fail

VARIABLES
  snapshot,   \* the snapshot file of each case, or Nil
  audit,      \* the versions in the audit log of each case
  idemFile,   \* the idempotency file, or Torn
  idem,       \* Store.idem, the idempotency results in memory
  mu,         \* Store.mu: the handler that writes, or Nil
  faults      \* file operations that have failed

storeVars == <<snapshot, audit, idemFile, idem, mu, faults>>

TornLine == 0        \* an audit line cut short: it has no version
NoResults == [k \in StoreKeys |-> Nil]

fault == faults < MaxFaults /\ faults' = faults + 1

(* GetIdempotency, Get and the writers wait for the mutex; a reader holds  *)
(* it for one step only.                                                   *)
CanRead == mu = Nil

-----------------------------------------------------------------------------
(* SaveWithFingerprint, step by step. *)

SaveSnapshot(h, c, log) ==
  /\ mu = Nil
  /\ mu' = h
  /\ snapshot' = [snapshot EXCEPT ![c] = log]
  /\ UNCHANGED <<audit, idemFile, idem, faults>>

(* The temporary file cannot be written or renamed. *)
SaveSnapshotFails ==
  /\ mu = Nil
  /\ fault
  /\ UNCHANGED <<snapshot, audit, idemFile, idem, mu>>

(* os.WriteFile truncates the file that it is about to write, or cannot    *)
(* open it and leaves the old one.                                         *)
Remember(h, key, result) ==
  /\ mu = h
  /\ idem' = [idem EXCEPT ![key] = result]
  /\ idemFile' = Torn
  /\ UNCHANGED <<snapshot, audit, mu, faults>>

RememberUnwritten(h, key, result) ==
  /\ mu = h
  /\ idem' = [idem EXCEPT ![key] = result]
  /\ fault
  /\ UNCHANGED <<snapshot, audit, idemFile, mu>>

(* An error, here or there, is ignored. *)
WriteIdempotency(h) ==
  /\ mu = h
  /\ \/ idemFile' = idem /\ UNCHANGED faults
     \/ idemFile' = Torn /\ fault
  /\ UNCHANGED <<snapshot, audit, idem, mu>>

appendAudit(h, c) ==
  /\ mu = h
  /\ mu' = Nil
  /\ audit' = [audit EXCEPT ![c] = Append(@, Len(snapshot[c]))]
  /\ UNCHANGED <<snapshot, idemFile, idem, faults>>

appendAuditFails(h, c) ==
  /\ mu = h
  /\ mu' = Nil
  /\ fault
  /\ \/ UNCHANGED audit
     \/ audit' = [audit EXCEPT ![c] = Append(@, TornLine)]
  /\ UNCHANGED <<snapshot, idemFile, idem>>

-----------------------------------------------------------------------------
(* A crash and New, the start of the store on the files as they are. *)

StoreCrash ==
  /\ idem' = NoResults
  /\ mu' = Nil
  /\ UNCHANGED <<snapshot, audit, idemFile, faults>>

ValidateAudit(c) ==
  \A i \in DOMAIN audit[c] :
    audit[c][i] > (IF i = 1 THEN 0 ELSE audit[c][i - 1])

CanOpen == \A c \in Cases : ValidateAudit(c)

(* Mutant: a torn file is taken as it is. *)
MutantOpenStore ==
  /\ CanOpen
  /\ idem' = idemFile
  /\ UNCHANGED <<snapshot, audit, idemFile, mu, faults>>

OpenStore ==
  /\ CanOpen
  /\ idem' = IF idemFile = Torn THEN NoResults ELSE idemFile
  /\ UNCHANGED <<snapshot, audit, idemFile, mu, faults>>
=============================================================================
