-------------------- MODULE CaseImplementsWorkflow_proofs --------------------
(***************************************************************************)
(* The case of the code implements CaseWorkflow, step by step: everything  *)
(* before the trial prepares the dossier, batches and remediations try it, *)
(* a review approves it or sends it back, and the activation is of what    *)
(* was approved.                                                           *)
(***************************************************************************)
EXTENDS CaseImplementsWorkflow, CaseDossier_proofs

Dossier == DossierOf(BuildReviewPackage)
Open == {<<d.rule, d.obs>> : d \in OpenDeviations}
Nothing == [dossier |-> Nil, by |-> Nil]

LEMMA DossierType ==
  ASSUME TypeOK, RevisionsCount
  PROVE  Dossier \in ReviewPackage
<1>1. BuildReviewPackage \in ReviewPackage
  BY PackageType
<1> QED
  BY <1>1 DEF Dossier, DossierOf, ReviewPackage

LEMMA SubmitterType ==
  ASSUME TypeOK
  PROVE  /\ LatestSubmitter \in People \cup {Nil}
         /\ planHistory # <<>> => LatestSubmitter \in People
<1>1. ASSUME planHistory # <<>>
      PROVE  LatestSubmitter \in People
  <2>1. planHistory \in Seq(PlanRevision)
    BY DEF TypeOK
  <2>2. planHistory[Len(planHistory)] \in PlanRevision
    BY <1>1, <2>1, LastOfSeq
  <2> QED
    BY <1>1, <2>2 DEF LatestSubmitter, PlanRevision, ControlPlan
<1>2. ASSUME planHistory = <<>>
      PROVE  LatestSubmitter \in People \cup {Nil}
  BY <1>2 DEF LatestSubmitter, TypeOK, ControlPlan
<1> QED
  BY <1>1, <1>2

LEMMA OpenType ==
  ASSUME TypeOK
  PROVE  Open \in SUBSET (RuleCodes \X Nat)
BY DEF Open, OpenDeviations, TypeOK, Deviation

(* The dossier is what it is, whatever version it has.                     *)
LEMMA DossierStays ==
  ASSUME UNCHANGED <<baseline, planHistory, trialVars>>
  PROVE  Dossier' = Dossier
<1>1. BuildReviewPackage' = [BuildReviewPackage EXCEPT !.version = version']
  BY PackageStays
<1>2. DossierOf(BuildReviewPackage') = DossierOf(BuildReviewPackage)
  BY <1>1 DEF DossierOf, BuildReviewPackage
<1> QED
  BY <1>2 DEF Dossier, DossierOf

(* A step on the way to a trial.                                           *)
LEMMA Prepares ==
  ASSUME DossierInv, [Next]_vars, UNCHANGED <<trialVars, reviews>>,
         state \in {"Draft", "BaselineLocked", "TrialReady"},
         state' \in {"Draft", "BaselineLocked", "TrialReady", "TrialRunning"}
  PROVE  Workflow!Prepare
<1>1. DossierInv'
  BY DossierStep
<1>2. TypeOK' /\ RevisionsCount' /\ InForce'
  BY <1>1 DEF DossierInv, CaseInv
<1>3. Dossier' \in ReviewPackage
  <2>1. (TypeOK /\ RevisionsCount => Dossier \in ReviewPackage)'
    BY DossierType, PTL
  <2> QED
    BY <1>2, <2>1
<1>4. /\ LatestSubmitter' \in People \cup {Nil}
      /\ planHistory' # <<>> => LatestSubmitter' \in People
  <2>1. (TypeOK => /\ LatestSubmitter \in People \cup {Nil}
                   /\ planHistory # <<>> => LatestSubmitter \in People)'
    BY SubmitterType, PTL
  <2> QED
    BY <1>2, <2>1
<1>5. state' = "TrialRunning" => planHistory' # <<>>
  BY <1>2 DEF InForce
<1>6. Open' = Open
  BY DEF Open, OpenDeviations, trialVars
<1>7. ApprovedDossier' = ApprovedDossier
  BY DEF ApprovedDossier
<1>8. /\ Phase = "prepare"
      /\ Phase' \in {"prepare", "trial"}
      /\ Phase' = "trial" => state' = "TrialRunning"
  BY DEF Phase
<1>9. Phase' = "trial" => LatestSubmitter' # Nil
  BY <1>4, <1>5, <1>8, NilAssumption
<1> QED
  BY <1>3, <1>4, <1>6, <1>7, <1>8, <1>9 DEF Workflow!Prepare, Dossier, Open

(* Evidence comes in: the review starts only when nothing is open.         *)
LEMMA Tries ==
  ASSUME DossierInv, [Next]_vars, state \in {"TrialRunning", "NeedsRemediation"},
         state' = evaluate(observations', deviations'), UNCHANGED planVars
  PROVE  Workflow!Try
<1>1. TypeOK' /\ RevisionsCount'
  BY DossierStep DEF DossierInv, CaseInv
<1>2. Dossier' \in ReviewPackage
  <2>1. (TypeOK /\ RevisionsCount => Dossier \in ReviewPackage)'
    BY DossierType, PTL
  <2> QED
    BY <1>1, <2>1
<1>3. Open' \in SUBSET (RuleCodes \X Nat)
  <2>1. (TypeOK => Open \in SUBSET (RuleCodes \X Nat))'
    BY OpenType, PTL
  <2> QED
    BY <1>1, <2>1
<1>4. /\ state' \in {"TrialRunning", "NeedsRemediation", "AwaitingReview"}
      /\ Open' # {} => state' = "NeedsRemediation"
  BY EvaluateSound DEF Open, OpenDeviations
<1>5. LatestSubmitter' = LatestSubmitter
  BY DEF LatestSubmitter, planVars
<1>6. ApprovedDossier' = ApprovedDossier
  BY <1>4 DEF ApprovedDossier
<1>7. /\ Phase = "trial"
      /\ Phase' \in IF Open' = {} THEN {"trial", "review"} ELSE {"trial"}
  BY <1>4 DEF Phase
<1> QED
  BY <1>2, <1>3, <1>5, <1>6, <1>7 DEF Workflow!Try, Dossier, Open

LEMMA Reviews ==
  ASSUME DossierInv, NEW r \in People, NEW d \in {"approve", "return"}, Review(r, d)
  PROVE  Workflow!Approve(r) \/ Workflow!SendBack
<1> DEFINE item == [reviewer |-> r, decision |-> d,
                    reviewedVersion |-> held.version, fingerprint |-> held]
           n == Len(reviews)
<1>1. /\ state = "AwaitingReview" /\ r # LatestSubmitter /\ held # Nil
      /\ held = BuildReviewPackage /\ reviews' = Append(reviews, item)
      /\ UNCHANGED <<baseline, plan, planHistory, trialVars>>
      /\ d = "approve" => OpenDeviations = {}
      /\ state' = IF d = "approve" THEN "Approved" ELSE "NeedsRemediation"
  BY DEF Review, PackageCurrent, baselineVars, planVars
<1>2. Dossier' = Dossier
  BY <1>1, DossierStays
<1>3. LatestSubmitter' = LatestSubmitter /\ Open' = Open
  BY <1>1 DEF LatestSubmitter, Open, OpenDeviations, trialVars
<1>4. CASE d = "return"
  <2>1. ApprovedDossier' = ApprovedDossier /\ Phase = "review" /\ Phase' = "trial"
    BY <1>1, <1>4 DEF ApprovedDossier, Phase
  <2> QED
    BY <1>2, <1>3, <2>1 DEF Workflow!SendBack, Dossier, Open
<1>5. CASE d = "approve"
  <2>1. reviews \in Seq(ReviewDecision) /\ item \in ReviewDecision
    <3>1. TypeOK
      BY DEF DossierInv, CaseInv
    <3>2. held \in ReviewPackage /\ held.version \in Nat
      BY <1>1, <3>1 DEF TypeOK, ReviewPackage
    <3> QED
      BY <3>1, <3>2 DEF TypeOK, ReviewDecision
  <2>2. item.fingerprint = BuildReviewPackage /\ item.reviewer = r
    BY <1>1
  <2> HIDE DEF item
  <2>3. LastReview' = item
    <3>1. n \in Nat /\ Len(reviews') = n + 1 /\ reviews'[n + 1] = item
      BY <1>1, <2>1, AppendIsSeq
    <3> QED
      BY <3>1 DEF LastReview
  <2>4. DossierOf(LastReview.fingerprint)' = Dossier /\ LastReview.reviewer' = r
    BY <2>2, <2>3 DEF DossierOf, Dossier
  <2>5. ApprovedDossier' = [dossier |-> Dossier, by |-> r]
    BY <1>1, <1>5, <2>4 DEF ApprovedDossier
  <2>6. Phase = "review" /\ Phase' = "approved" /\ Open = {}
    BY <1>1, <1>5 DEF Phase, Open
  <2> QED
    BY <1>1, <1>2, <1>3, <2>5, <2>6 DEF Workflow!Approve, Dossier, Open
<1> QED
  BY <1>4, <1>5

LEMMA Activates ==
  ASSUME DossierInv, Activate
  PROVE  Workflow!Activate
<1>1. /\ state = "Approved" /\ state' = "Activated"
      /\ UNCHANGED <<baseline, plan, planHistory, trialVars, reviews>>
  BY DEF Activate, baselineVars, planVars
<1>2. LastReview.fingerprint =
        [BuildReviewPackage EXCEPT !.version = LastReview.reviewedVersion]
  BY <1>1 DEF DossierInv, ApprovalStands, ApprovalBindsData
<1>3. ApprovedDossier.dossier = Dossier
  BY <1>1, <1>2 DEF ApprovedDossier, Dossier, DossierOf, BuildReviewPackage
<1>4. ApprovedDossier' = ApprovedDossier
  BY <1>1 DEF ApprovedDossier, LastReview, DossierOf
<1>5. Dossier' = Dossier
  BY <1>1, DossierStays
<1>6. LatestSubmitter' = LatestSubmitter /\ Open' = Open
  BY <1>1 DEF LatestSubmitter, Open, OpenDeviations, trialVars
<1>7. Phase = "approved" /\ Phase' = "active"
  BY <1>1 DEF Phase
<1> QED
  BY <1>3, <1>4, <1>5, <1>6, <1>7 DEF Workflow!Activate, Dossier, Open

LEMMA CaseStutters ==
  ASSUME UNCHANGED <<state, baselineVars, planVars, trialVars, reviewVars>>
  PROVE  UNCHANGED Workflow!vars
<1>1. Dossier' = Dossier
  BY DossierStays DEF baselineVars, planVars
<1>2. LatestSubmitter' = LatestSubmitter /\ Open' = Open
  BY DEF LatestSubmitter, Open, OpenDeviations, planVars, trialVars
<1>3. ApprovedDossier' = ApprovedDossier /\ Phase' = Phase
  BY DEF ApprovedDossier, LastReview, DossierOf, Phase, reviewVars
<1> QED
  BY <1>1, <1>2, <1>3 DEF Workflow!vars, Dossier, Open

LEMMA CaseStepImplements ==
  ASSUME DossierInv, [Next]_vars
  PROVE  [Workflow!Next]_(Workflow!vars)
<1> USE DEF Workflow!Next
<1>1. ASSUME NEW id \in Identities, ReviseIdentity(id)
      PROVE  Workflow!Next
  BY <1>1, Prepares DEF ReviseIdentity, reviewVars
<1>2. ASSUME NEW b \in BaselineInputs, SetBaseline(b)
      PROVE  Workflow!Next
  BY <1>2, Prepares DEF SetBaseline, reviewVars
<1>3. CASE RevokeBaseline
  BY <1>3, Prepares DEF RevokeBaseline, reviewVars
<1>4. ASSUME NEW p \in PlanInputs, SubmitPlan(p) \/ RevisePlan(p)
      PROVE  Workflow!Next
  BY <1>4, Prepares DEF SubmitPlan, RevisePlan, reviewVars
<1>5. CASE StartTrial
  BY <1>5, Prepares DEF StartTrial, reviewVars
<1>6. ASSUME NEW batch \in Requests({0}), AddObservations(batch)
      PROVE  Workflow!Next
  BY <1>6, Tries DEF AddObservations
<1>7. ASSUME NEW targets \in RemediationTargets,
             NEW retests \in Requests({d.obs : d \in targets}),
             RemediateDeviations(targets, retests)
      PROVE  Workflow!Next
  BY <1>7, Tries DEF RemediateDeviations
<1>8. CASE FetchPackage \/ Tick
  BY <1>8, CaseStutters DEF FetchPackage, Tick
<1>9. ASSUME NEW r \in People, NEW d \in {"approve", "return"}, Review(r, d)
      PROVE  Workflow!Next
  BY <1>9, Reviews
<1>10. CASE Activate
  BY <1>10, Activates
<1>11. CASE UNCHANGED vars
  BY <1>11, CaseStutters DEF vars
<1> QED
  BY <1>1, <1>2, <1>3, <1>4, <1>5, <1>6, <1>7, <1>8, <1>9, <1>10, <1>11 DEF Next

LEMMA CaseInitImplements == Init => Workflow!Init
<1> SUFFICES ASSUME Init PROVE Workflow!Init
  OBVIOUS
<1>1. TypeOK /\ RevisionsCount
  BY CaseInvInit DEF CaseInv
<1>2. Dossier \in ReviewPackage
  BY <1>1, DossierType
<1>3. /\ Phase = "prepare" /\ LatestSubmitter = Nil /\ Open = {}
      /\ ApprovedDossier = Nothing
  BY DEF Init, Phase, LatestSubmitter, Open, OpenDeviations, ApprovedDossier, Nothing
<1> QED
  BY <1>2, <1>3 DEF Workflow!Init, Workflow!None, Dossier, Open, Nothing

(* Every behaviour of a case is one of the workflow that those who rely on *)
(* its permit are promised.                                                *)
THEOREM CaseImplements == Spec => WorkflowSpec
<1>1. DossierInv /\ [Next]_vars => [Workflow!Next]_(Workflow!vars)
  BY CaseStepImplements
<1> QED
  BY <1>1, CaseInitImplements, DossierKeepsInv, PTL DEF Spec, WorkflowSpec, Workflow!Spec
=============================================================================
