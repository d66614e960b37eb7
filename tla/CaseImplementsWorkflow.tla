----------------------- MODULE CaseImplementsWorkflow -----------------------
(***************************************************************************)
(* CommissioningCase implements CaseWorkflow.  The dossier is the content  *)
(* of the review package, its version apart; what was approved is read off *)
(* the fingerprint in the last review, not off the case.                   *)
(***************************************************************************)
EXTENDS CommissioningCase

Phase ==
  CASE state \in {"Draft", "BaselineLocked", "TrialReady"} -> "prepare"
    [] state \in {"TrialRunning", "NeedsRemediation"} -> "trial"
    [] state = "AwaitingReview" -> "review"
    [] state = "Approved" -> "approved"
    [] state = "Activated" -> "active"

DossierOf(package) == [package EXCEPT !.version = 0]

ApprovedDossier ==
  IF state \in {"Approved", "Activated"}
  THEN [dossier |-> DossierOf(LastReview.fingerprint), by |-> LastReview.reviewer]
  ELSE [dossier |-> Nil, by |-> Nil]

Workflow ==
  INSTANCE CaseWorkflow WITH
    Dossiers <- ReviewPackage, Faults <- RuleCodes \X Nat,
    Persons <- People, Nobody <- Nil,
    phase <- Phase, dossier <- DossierOf(BuildReviewPackage),
    author <- LatestSubmitter,
    open <- {<<d.rule, d.obs>> : d \in OpenDeviations},
    approved <- ApprovedDossier

(* Every behaviour of the code's case is one of the promised workflow.     *)
WorkflowSpec == Workflow!Spec
=============================================================================
