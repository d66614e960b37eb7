------------------------------ MODULE CaseLife ------------------------------
(***************************************************************************)
(* A case as a file shows it from outside: its state, its version and its  *)
(* permit.  Every mutation makes it one version later; an activated case   *)
(* is mutated no more.  CommissioningCase keeps to it (CaseReads), and     *)
(* CaseDirectory relies on it.                                             *)
(***************************************************************************)
EXTENDS Naturals

CONSTANTS
  Nil,
  PermitYear   \* how long a permit is valid

States == {"Draft", "BaselineLocked", "TrialReady", "TrialRunning",
           "NeedsRemediation", "AwaitingReview", "Approved", "Activated"}

(* Mutant: an activated case is mutated. *)
MutantMoves(state) ==
  CASE state = "Activated" -> {"Activated", "NeedsRemediation"}
    [] state = "Approved" -> {"Activated"}
    [] OTHER -> {state}

(* The states after a mutation. *)
Moves(state) ==
  CASE state = "Draft" -> {"Draft", "BaselineLocked"}
    [] state = "BaselineLocked" -> {"Draft", "TrialReady"}
    [] state = "TrialReady" -> {"TrialReady", "TrialRunning"}
    [] state \in {"TrialRunning", "NeedsRemediation"} ->
         {"TrialRunning", "NeedsRemediation", "AwaitingReview"}
    [] state = "AwaitingReview" -> {"Approved", "NeedsRemediation"}
    [] state = "Approved" -> {"Activated"}
    [] state = "Activated" -> {}

PermitAt(version, at) ==
  [activatedVersion |-> version, issuedAt |-> at, effectiveUntil |-> at + PermitYear]

(* What a case may be after a mutation at a time. *)
Mutated(case, at) ==
  {[state |-> s, version |-> case.version + 1,
    permit |-> IF s = "Activated" THEN PermitAt(case.version + 1, at) ELSE case.permit] :
     s \in Moves(case.state)}
=============================================================================
