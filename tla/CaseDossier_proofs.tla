-------------------------- MODULE CaseDossier_proofs --------------------------
(***************************************************************************)
(* Proofs about what a case has on record and what its reviews bind, for   *)
(* every value of the constants of CommissioningCase: DossierInv is        *)
(* inductive part by part, each part with the help of the others.          *)
(***************************************************************************)
EXTENDS CommissioningCase_proofs, FiniteSetTheorems, WellFoundedInduction

(* A log that is not empty has a last entry.                               *)
LEMMA LastOfSeq ==
  ASSUME NEW S, NEW s \in Seq(S), s # <<>>
  PROVE  Len(s) \in Nat \ {0} /\ DOMAIN s = 1 .. Len(s) /\ s[Len(s)] \in S
<1>1. Len(s) \in Nat \ {0} /\ DOMAIN s = 1 .. Len(s)
  BY EmptySeq, LenProperties
<1>2. \A i \in 1 .. Len(s) : s[i] \in S
  BY ElementOfSeq
<1> QED
  BY <1>1, <1>2

-----------------------------------------------------------------------------
(* What is in force. *)

(* Steps that leave baselines, plans and observations as they are.         *)
LEMMA InForceStays ==
  ASSUME InForce, UNCHANGED <<baselineVars, planVars, observations>>,
         state' \in {"Draft", "BaselineLocked"} <=> state \in {"Draft", "BaselineLocked"},
         state' \in UnderReview => state \in UnderReview
  PROVE  InForce'
BY DEF InForce, baselineVars, planVars, UnderReview

(* The baseline in force has the number of the last one on record.         *)
LEMMA RevisionInForce ==
  ASSUME TypeOK, RevisionsCount, InForce, baseline # Nil
  PROVE  /\ baseline \in BaselineProfile
         /\ Len(baselineHistory) \in Nat \ {0} /\ baseline.revision = Len(baselineHistory)
<1>1. /\ baselineHistory \in Seq(BaselineProfile) /\ baselineHistory # <<>>
      /\ baseline = baselineHistory[Len(baselineHistory)]
  BY DEF TypeOK, InForce
<1>2. Len(baselineHistory) \in Nat \ {0} /\ Len(baselineHistory) \in DOMAIN baselineHistory
  BY <1>1, LastOfSeq
<1> QED
  BY <1>1, <1>2 DEF TypeOK, RevisionsCount

(* The plan that is recorded suits the baseline.                           *)
LEMMA RecordedPlan ==
  ASSUME TypeOK, RevisionsCount, NEW p \in PlanInputs, RecordPlan(p), baseline' = baseline
  PROVE  /\ plan' \in ControlPlan /\ plan' # Nil /\ planHistory' # <<>>
         /\ plan' = planHistory'[Len(planHistory')].plan
         /\ ValidatePlan(plan', baseline)
         /\ p.hours = plan'.hours
<1>1. planHistory \in Seq(PlanRevision)
  BY DEF TypeOK
<1>2. plan' \in ControlPlan /\ planHistory' \in Seq(PlanRevision)
  BY RecordPlanType
<1> DEFINE revision == NextRevision(planHistory)
           item == [revision |-> revision, plan |-> plan']
<1>3. /\ plan' = [p EXCEPT !.planId = revision] /\ ValidatePlan(p, baseline)
      /\ planHistory' = Append(planHistory, item)
  BY DEF RecordPlan
<1>4. Len(planHistory') = Len(planHistory) + 1 /\ planHistory'[Len(planHistory) + 1] = item
      /\ planHistory' # <<>>
  <2>1. Len(planHistory) \in Nat /\ revision = Len(planHistory) + 1
    BY <1>1, LenProperties, NextRevisionIsNext DEF RevisionsCount
  <2>2. item \in PlanRevision
    BY <1>2, <2>1 DEF PlanRevision
  <2> HIDE DEF item
  <2> QED
    BY <1>1, <1>3, <2>2, AppendIsSeq
<1>5. p \in ControlPlan
  BY InputAssumption
<1>6. /\ plan'.hours = p.hours /\ plan'.setTemp = p.setTemp /\ plan'.setHum = p.setHum
  BY <1>3, <1>5 DEF ControlPlan
<1>7. ValidatePlan(plan', baseline)
  BY <1>3, <1>6 DEF ValidatePlan, LegacyTwoSampleProfile
<1>8. plan' # Nil
  BY <1>2, NilAssumption
<1> QED
  BY <1>2, <1>4, <1>6, <1>7, <1>8

LEMMA InForceStep ==
  ASSUME CaseInv, InForce, Next
  PROVE  InForce'
<1>0. TypeOK /\ RevisionsCount /\ TypeOK' /\ RevisionsCount' /\ RecordOfState /\ RecordOfState'
  BY CaseInvStep DEF CaseInv
<1> USE DEF baselineVars, planVars, trialVars, reviewVars
<1>1. ASSUME NEW id \in Identities, ReviseIdentity(id)
      PROVE  InForce'
  BY <1>1, InForceStays DEF ReviseIdentity
<1>2. ASSUME NEW b \in BaselineInputs, SetBaseline(b)
      PROVE  InForce'
  <2> DEFINE n == Len(baselineHistory)
  <2>1. /\ state = "Draft" /\ state' = "BaselineLocked"
        /\ UNCHANGED <<planVars, revocations>>
        /\ baselineHistory' = Append(baselineHistory, baseline')
    BY <1>2 DEF SetBaseline
  <2>2. baseline' # Nil /\ baseline' \in BaselineProfile
    BY <1>0, <2>1 DEF RecordOfState, TypeOK
  <2>3. /\ baselineHistory' # <<>> /\ Len(baselineHistory') = n + 1 /\ n \in Nat
        /\ baselineHistory'[n + 1] = baseline'
    <3>1. baselineHistory \in Seq(BaselineProfile)
      BY <1>0 DEF TypeOK
    <3> QED
      BY <2>1, <2>2, <3>1, AppendIsSeq
  <2>6. ValidateBaseline(baseline')
    <3>1. /\ ValidateBaseline(b) /\ b \in BaselineProfile
          /\ baseline' = [b EXCEPT !.revision = NextRevision(baselineHistory)]
      BY <1>2, InputAssumption DEF SetBaseline
    <3>2. /\ baseline'.tempMin = b.tempMin /\ baseline'.tempMax = b.tempMax
          /\ baseline'.humMin = b.humMin /\ baseline'.humMax = b.humMax
          /\ baseline'.interval = b.interval /\ baseline'.minCount = b.minCount
      BY <3>1 DEF BaselineProfile
    <3> QED
      BY <3>1, <3>2 DEF ValidateBaseline
  <2>4. \A i \in DOMAIN revocations : revocations[i] \in Nat /\ revocations[i] <= n
    BY <1>0, LenProperties, ElementOfSeq DEF TypeOK, InForce
  <2> HIDE DEF n
  <2>5. \A i \in DOMAIN revocations' : revocations'[i] < Len(baselineHistory')
                                      /\ revocations'[i] <= Len(baselineHistory')
    BY <2>1, <2>3, <2>4
  <2> QED
    BY <2>1, <2>2, <2>3, <2>5, <2>6 DEF InForce, UnderReview
<1>3. ASSUME RevokeBaseline
      PROVE  InForce'
  <2> DEFINE m == Len(revocations)
  <2>1. /\ state' = "Draft" /\ state = "BaselineLocked" /\ baseline # Nil /\ baseline' = Nil
        /\ UNCHANGED <<planVars, baselineHistory>>
        /\ revocations' = Append(revocations, baseline.revision)
    BY <1>3 DEF RevokeBaseline
  <2>2. baseline.revision \in Nat /\ baseline.revision = Len(baselineHistory)
    BY <1>0, <2>1, RevisionInForce
  <2>3. /\ DOMAIN revocations' = 1 .. m + 1 /\ DOMAIN revocations = 1 .. m /\ m \in Nat
        /\ revocations'[m + 1] = baseline.revision
        /\ \A i \in 1 .. m : revocations'[i] = revocations[i]
    BY <1>0, <2>1, <2>2, AppendIsSeq DEF TypeOK
  <2>4. \A i \in DOMAIN revocations' : revocations'[i] <= Len(baselineHistory)
    BY <2>2, <2>3 DEF InForce
  <2> QED
    BY <2>1, <2>4 DEF InForce, UnderReview
<1>4. ASSUME NEW p \in PlanInputs, SubmitPlan(p) \/ RevisePlan(p)
      PROVE  InForce'
  <2>1. /\ RecordPlan(p) /\ UNCHANGED baselineVars /\ state' = "TrialReady"
    BY <1>4 DEF SubmitPlan, RevisePlan
  <2>2. /\ plan' # Nil /\ planHistory' # <<>> /\ plan' = planHistory'[Len(planHistory')].plan
        /\ ValidatePlan(plan', baseline') /\ p.hours = plan'.hours
    BY <1>0, <2>1, RecordedPlan
  <2> QED
    BY <2>1, <2>2 DEF InForce, UnderReview
<1>5. CASE StartTrial
  BY <1>5, InForceStays DEF StartTrial, UnderReview
<1>6. ASSUME state \in {"TrialRunning", "NeedsRemediation"},
             UNCHANGED <<baselineVars, planVars>>,
             state' = evaluate(observations', deviations')
      PROVE  InForce'
  <2>1. state' \in {"TrialRunning", "NeedsRemediation", "AwaitingReview"}
    BY <1>6 DEF evaluate
  <2>2. state' = "AwaitingReview" => TrialWindowSatisfied(observations', plan, baseline)
    BY <1>6 DEF evaluate
  <2> QED
    BY <1>6, <2>1, <2>2 DEF InForce, UnderReview
<1>7. ASSUME NEW batch \in Requests({0}), AddObservations(batch)
      PROVE  InForce'
  BY <1>6, <1>7 DEF AddObservations
<1>8. ASSUME NEW targets \in RemediationTargets,
             NEW retests \in Requests({d.obs : d \in targets}),
             RemediateDeviations(targets, retests)
      PROVE  InForce'
  BY <1>6, <1>8 DEF RemediateDeviations
<1>9. CASE FetchPackage \/ Tick
  BY <1>9, InForceStays DEF FetchPackage, Tick
<1>10. ASSUME NEW r \in People, NEW d \in {"approve", "return"}, Review(r, d)
       PROVE  InForce'
  BY <1>10, InForceStays DEF Review, UnderReview
<1>11. CASE Activate
  BY <1>11, InForceStays DEF Activate, UnderReview
<1> QED
  BY <1>1, <1>2, <1>3, <1>4, <1>5, <1>7, <1>8, <1>9, <1>10, <1>11 DEF Next

-----------------------------------------------------------------------------
(* The review package and the reviews of it. *)

(* The package depends on nothing but its contents.                        *)
LEMMA PackageStays ==
  ASSUME UNCHANGED <<baseline, planHistory, trialVars>>
  PROVE  BuildReviewPackage' = [BuildReviewPackage EXCEPT !.version = version']
<1>1. LatestPlan' = LatestPlan
  BY DEF LatestPlan
<1>2. EffectiveObservations(observations)' = EffectiveObservations(observations)
  BY DEF EffectiveObservations, IsObservationSuperseded, trialVars
<1> DEFINE shown == {observations[i] : i \in EffectiveObservations(observations)}
           replaced == {<<i, observations[i].supersedes>> :
                          i \in {j \in DOMAIN observations : observations[j].supersedes # 0}}
<1>3. shown' = shown /\ replaced' = replaced
  BY <1>2 DEF trialVars
<1>4. BuildReviewPackage =
        [version |-> version, baseline |-> baseline, latestPlan |-> LatestPlan,
         effective |-> shown, replacements |-> replaced, deviations |-> deviations]
  BY DEF BuildReviewPackage
<1>5. BuildReviewPackage' =
        [version |-> version', baseline |-> baseline', latestPlan |-> LatestPlan',
         effective |-> shown', replacements |-> replaced', deviations |-> deviations']
  BY DEF BuildReviewPackage
<1> HIDE DEF shown, replaced
<1> QED
  BY <1>1, <1>3, <1>4, <1>5 DEF trialVars

(* A mutation that is no review leaves the reviews in the past, and makes  *)
(* every package that is held one of the past.                             *)
LEMMA ReviewsPastStays ==
  ASSUME TypeOK, ReviewsPast, touch, held' = held, reviews' = reviews
  PROVE  ReviewsPast'
<1>1. /\ version \in Nat /\ version' = version + 1
      /\ held # Nil => held.version \in Nat
  BY DEF TypeOK, touch, ReviewPackage
<1>2. VersionIdentifiesPackage'
  BY <1>1 DEF ReviewsPast, VersionIdentifiesPackage
<1> QED
  BY <1>1, <1>2 DEF ReviewsPast

LEMMA ReviewsPastStep ==
  ASSUME CaseInv, ReviewsPast, Next
  PROVE  ReviewsPast'
<1>0. TypeOK /\ RevisionsCount
  BY DEF CaseInv
<1>1. CASE FetchPackage
  <2>1. /\ held' = BuildReviewPackage /\ UNCHANGED <<version, reviews>>
        /\ UNCHANGED <<baseline, planHistory, trialVars>>
    BY <1>1 DEF FetchPackage, baselineVars, planVars, reviewVars
  <2>2. BuildReviewPackage' = BuildReviewPackage /\ BuildReviewPackage.version = version
    BY <2>1, PackageStays DEF BuildReviewPackage
  <2>3. version \in Nat
    BY <1>0 DEF TypeOK
  <2>4. VersionIdentifiesPackage'
    BY <2>1, <2>2 DEF VersionIdentifiesPackage
  <2> QED
    BY <2>1, <2>2, <2>3, <2>4 DEF ReviewsPast
<1>2. CASE Tick
  <2>1. UNCHANGED <<version, reviews, held, baseline, planHistory, trialVars>>
    BY <1>2 DEF Tick, baselineVars, planVars, reviewVars
  <2>2. BuildReviewPackage' = BuildReviewPackage
    BY <2>1, PackageStays DEF BuildReviewPackage
  <2>3. VersionIdentifiesPackage'
    BY <2>1, <2>2 DEF VersionIdentifiesPackage, ReviewsPast
  <2> QED
    BY <2>1, <2>3 DEF ReviewsPast
<1>3. ASSUME NEW r \in People, NEW d \in {"approve", "return"}, Review(r, d)
      PROVE  ReviewsPast'
  <2> DEFINE n == Len(reviews)
             item == [reviewer |-> r, decision |-> d,
                      reviewedVersion |-> held.version, fingerprint |-> held]
  <2>1. /\ reviews' = Append(reviews, item) /\ held' = held
        /\ version' = version + 1 /\ held.version = version /\ held # Nil
    BY <1>3 DEF Review, PackageCurrent, touch
  <2>2. reviews \in Seq(ReviewDecision) /\ version \in Nat \ {0} /\ held \in ReviewPackage
    BY <1>0, <2>1 DEF TypeOK
  <2>3. item \in ReviewDecision /\ item.reviewedVersion = version
    BY <1>3, <2>1, <2>2 DEF ReviewDecision, ReviewPackage
  <2> HIDE DEF item
  <2>4. /\ DOMAIN reviews' = 1 .. n + 1 /\ DOMAIN reviews = 1 .. n /\ n \in Nat
        /\ reviews'[n + 1] = item /\ \A i \in 1 .. n : reviews'[i] = reviews[i]
    BY <2>1, <2>2, <2>3, AppendIsSeq
  <2> HIDE DEF n
  <2>5. \A i \in 1 .. n : reviews[i].reviewedVersion \in 1 .. version - 1
    BY <2>4 DEF ReviewsPast
  <2>6. \A i \in DOMAIN reviews' : reviews'[i].reviewedVersion \in 1 .. version' - 1
    BY <2>1, <2>2, <2>3, <2>4, <2>5
  <2>7. \A i, j \in DOMAIN reviews' :
          i < j => reviews'[i].reviewedVersion < reviews'[j].reviewedVersion
    <3> SUFFICES ASSUME NEW i \in 1 .. n + 1, NEW j \in 1 .. n + 1, i < j
                 PROVE  reviews'[i].reviewedVersion < reviews'[j].reviewedVersion
      BY <2>4
    <3>1. CASE j = n + 1
      BY <2>2, <2>3, <2>4, <2>5, <3>1
    <3>2. CASE j # n + 1
      BY <2>4, <3>2 DEF ReviewsPast
    <3> QED
      BY <3>1, <3>2
  <2>8. VersionIdentifiesPackage'
    BY <2>1, <2>2 DEF VersionIdentifiesPackage
  <2>9. held'.version <= version'
    BY <2>1, <2>2
  <2> QED
    BY <2>6, <2>7, <2>8, <2>9 DEF ReviewsPast
<1>4. ASSUME touch, held' = held, reviews' = reviews
      PROVE  ReviewsPast'
  BY <1>0, <1>4, ReviewsPastStays
<1>5. ASSUME NEW id \in Identities, ReviseIdentity(id)
      PROVE  ReviewsPast'
  BY <1>4, <1>5 DEF ReviseIdentity, reviewVars
<1>6. ASSUME NEW b \in BaselineInputs, SetBaseline(b)
      PROVE  ReviewsPast'
  BY <1>4, <1>6 DEF SetBaseline, reviewVars
<1>7. CASE RevokeBaseline
  BY <1>4, <1>7 DEF RevokeBaseline, reviewVars
<1>8. ASSUME NEW p \in PlanInputs, SubmitPlan(p) \/ RevisePlan(p)
      PROVE  ReviewsPast'
  BY <1>4, <1>8 DEF SubmitPlan, RevisePlan, reviewVars
<1>9. CASE StartTrial
  BY <1>4, <1>9 DEF StartTrial, reviewVars
<1>10. ASSUME NEW batch \in Requests({0}), AddObservations(batch)
       PROVE  ReviewsPast'
  BY <1>4, <1>10 DEF AddObservations, reviewVars
<1>11. ASSUME NEW targets \in RemediationTargets,
              NEW retests \in Requests({d.obs : d \in targets}),
              RemediateDeviations(targets, retests)
       PROVE  ReviewsPast'
  BY <1>4, <1>11 DEF RemediateDeviations, reviewVars
<1>12. CASE Activate
  BY <1>4, <1>12 DEF Activate
<1> QED
  BY <1>1, <1>2, <1>3, <1>5, <1>6, <1>7, <1>8, <1>9, <1>10, <1>11, <1>12 DEF Next

-----------------------------------------------------------------------------
(* What an approval binds. *)

(* Steps that neither approve nor activate, and steps of an approved case  *)
(* that leave what it rests on alone.                                      *)
LEMMA ApprovalStays ==
  ASSUME ApprovalStands, permit' = permit, state # "Activated",
         state' \notin {"Approved", "Activated"}
  PROVE  ApprovalStands'
BY DEF ApprovalStands, ApprovalBindsData, ApprovalIndependent

LEMMA ApprovalUntouched ==
  ASSUME TypeOK, RevisionsCount, ApprovalStands,
         UNCHANGED <<state, version, baselineVars, planVars, trialVars, reviewVars>>
  PROVE  ApprovalStands'
<1>1. BuildReviewPackage' = BuildReviewPackage
  BY PackageStays DEF baselineVars, planVars, BuildReviewPackage
<1>2. ApprovalBindsData' /\ ApprovalIndependent'
  BY <1>1 DEF ApprovalStands, ApprovalBindsData, ApprovalIndependent, LastReview,
              planVars, reviewVars
<1> QED
  BY <1>2 DEF ApprovalStands, reviewVars

(* The approval is of the package of the moment, by another person than    *)
(* the one who submitted the plan in force.                                *)
LEMMA ApprovalMade ==
  ASSUME CaseInv, InForce, ApprovalStands,
         NEW r \in People, NEW d \in {"approve", "return"}, Review(r, d)
  PROVE  ApprovalStands'
<1> DEFINE item == [reviewer |-> r, decision |-> d,
                    reviewedVersion |-> held.version, fingerprint |-> held]
           n == Len(reviews)
<1>0. TypeOK /\ RevisionsCount
  BY DEF CaseInv
<1>1. /\ state = "AwaitingReview" /\ r # LatestSubmitter /\ permit' = permit
      /\ held # Nil /\ held.version = version /\ held = BuildReviewPackage
      /\ reviews' = Append(reviews, item) /\ version' = version + 1
      /\ UNCHANGED <<baselineVars, planVars, trialVars>>
      /\ state' = IF d = "approve" THEN "Approved" ELSE "NeedsRemediation"
  BY DEF Review, PackageCurrent, touch
<1>2. CASE d = "return"
  BY <1>1, <1>2, ApprovalStays
<1>3. CASE d = "approve"
  <2>1. reviews \in Seq(ReviewDecision) /\ item \in ReviewDecision
    <3>1. held \in ReviewPackage /\ held.version \in Nat
      BY <1>0, <1>1 DEF TypeOK, ReviewPackage
    <3> QED
      BY <1>0, <3>1 DEF TypeOK, ReviewDecision
  <2>2. item.decision = "approve" /\ item.reviewer = r
        /\ item.reviewedVersion = version /\ item.fingerprint = BuildReviewPackage
    BY <1>1, <1>3
  <2> HIDE DEF item
  <2>3. LastReview' = item /\ reviews' # <<>>
    <3>1. /\ n \in Nat /\ Len(reviews') = n + 1 /\ reviews'[n + 1] = item
          /\ reviews' # <<>>
      BY <1>1, <2>1, AppendIsSeq
    <3> QED
      BY <3>1 DEF LastReview
  <2>4. permit = Nil /\ permit' = Nil
    BY <1>1 DEF ApprovalStands
  <2>5. BuildReviewPackage = [BuildReviewPackage' EXCEPT !.version = version]
    <3>1. BuildReviewPackage' = [BuildReviewPackage EXCEPT !.version = version']
      BY <1>1, PackageStays DEF baselineVars, planVars
    <3> QED
      BY <3>1 DEF BuildReviewPackage
  <2>6. ApprovalBindsData'
    BY <1>1, <2>2, <2>3, <2>4, <2>5 DEF ApprovalBindsData
  <2>7. LatestSubmitter = plan.submittedBy
    BY <1>1 DEF InForce, LatestSubmitter
  <2>8. ApprovalIndependent'
    BY <1>1, <2>2, <2>3, <2>7 DEF ApprovalIndependent, planVars
  <2> QED
    BY <1>1, <1>3, <2>4, <2>6, <2>8 DEF ApprovalStands
<1> QED
  BY <1>2, <1>3

LEMMA ApprovalActivated ==
  ASSUME CaseInv, ApprovalStands, Activate
  PROVE  ApprovalStands'
<1>0. version \in Nat /\ now \in Nat /\ permit \in ActivationPermit \cup {Nil}
  BY DEF CaseInv, TypeOK
<1>1. /\ state = "Approved" /\ state' = "Activated" /\ version' = version + 1
      /\ permit' = [activatedVersion |-> version + 1, issuedAt |-> now,
                    effectiveUntil |-> now + PermitYear]
      /\ UNCHANGED <<baseline, plan, planHistory, trialVars, reviews>>
  BY DEF Activate, touch, baselineVars, planVars
<1>2. permit = Nil
  BY <1>1 DEF ApprovalStands
<1>3. permit' # Nil
  <2>1. permit' \in ActivationPermit
    BY <1>0, <1>1, BoundAssumption DEF ActivationPermit
  <2> QED
    BY <2>1, NilAssumption
<1>4. LastReview' = LastReview
  BY <1>1 DEF LastReview
<1>5. LastReview.reviewedVersion \in Nat
  <2>1. reviews # <<>> /\ reviews \in Seq(ReviewDecision)
    BY <1>1 DEF ApprovalStands, ApprovalBindsData, CaseInv, TypeOK
  <2>2. LastReview \in ReviewDecision
    BY <2>1, LastOfSeq DEF LastReview
  <2> QED
    BY <2>2 DEF ReviewDecision
<1>6. LastReview.fingerprint =
        [BuildReviewPackage' EXCEPT !.version = LastReview.reviewedVersion]
  <2>1. BuildReviewPackage' = [BuildReviewPackage EXCEPT !.version = version']
    BY <1>1, PackageStays
  <2>2. LastReview.fingerprint =
          [BuildReviewPackage EXCEPT !.version = LastReview.reviewedVersion]
    BY <1>1 DEF ApprovalStands, ApprovalBindsData
  <2> QED
    BY <2>1, <2>2 DEF BuildReviewPackage
<1>7. version' = LastReview.reviewedVersion + 2
  BY <1>1, <1>2, <1>5 DEF ApprovalStands, ApprovalBindsData
<1>8. ApprovalBindsData'
  BY <1>1, <1>3, <1>4, <1>6, <1>7 DEF ApprovalStands, ApprovalBindsData
<1>9. ApprovalIndependent'
  BY <1>1, <1>4 DEF ApprovalStands, ApprovalIndependent
<1> QED
  BY <1>1, <1>3, <1>8, <1>9 DEF ApprovalStands

LEMMA ApprovalStandsStep ==
  ASSUME CaseInv, InForce, ApprovalStands, Next
  PROVE  ApprovalStands'
<1>0. TypeOK /\ RevisionsCount
  BY DEF CaseInv
<1>1. ASSUME NEW id \in Identities, ReviseIdentity(id)
      PROVE  ApprovalStands'
  BY <1>1, ApprovalStays DEF ReviseIdentity, reviewVars
<1>2. ASSUME NEW b \in BaselineInputs, SetBaseline(b)
      PROVE  ApprovalStands'
  BY <1>2, ApprovalStays DEF SetBaseline, reviewVars
<1>3. CASE RevokeBaseline
  BY <1>3, ApprovalStays DEF RevokeBaseline, reviewVars
<1>4. ASSUME NEW p \in PlanInputs, SubmitPlan(p) \/ RevisePlan(p)
      PROVE  ApprovalStands'
  BY <1>4, ApprovalStays DEF SubmitPlan, RevisePlan, reviewVars
<1>5. CASE StartTrial
  BY <1>5, ApprovalStays DEF StartTrial, reviewVars
<1>6. ASSUME NEW batch \in Requests({0}), AddObservations(batch)
      PROVE  ApprovalStands'
  BY <1>6, ApprovalStays DEF AddObservations, reviewVars, evaluate
<1>7. ASSUME NEW targets \in RemediationTargets,
             NEW retests \in Requests({d.obs : d \in targets}),
             RemediateDeviations(targets, retests)
      PROVE  ApprovalStands'
  BY <1>7, ApprovalStays DEF RemediateDeviations, reviewVars, evaluate
<1>8. CASE FetchPackage \/ Tick
  BY <1>0, <1>8, ApprovalUntouched DEF FetchPackage, Tick
<1>9. ASSUME NEW r \in People, NEW d \in {"approve", "return"}, Review(r, d)
      PROVE  ApprovalStands'
  BY <1>9, ApprovalMade
<1>10. CASE Activate
  BY <1>10, ApprovalActivated
<1> QED
  BY <1>1, <1>2, <1>3, <1>4, <1>5, <1>6, <1>7, <1>8, <1>9, <1>10 DEF Next

-----------------------------------------------------------------------------
(* The log. *)

(* Numbers have a least one.                                               *)
LEMMA LeastNumber ==
  ASSUME NEW S \in SUBSET Nat, S # {}
  PROVE  \E m \in S : \A x \in S : m <= x
<1> DEFINE R == OpToRel(<, Nat)
<1>1. \A x, y \in Nat : x < y => <<x, y>> \in R
  BY DEF OpToRel
<1> HIDE DEF R
<1>2. IsWellFoundedOn(R, Nat)
  BY NatLessThanWellFounded DEF R
<1>3. PICK m \in S : \A y \in S : ~ (<<y, m>> \in R)
  BY <1>2, WFMin
<1>4. \A x \in S : ~ (x < m)
  BY <1>1, <1>3
<1> QED
  BY <1>4

LEMMA GreatestNumber ==
  ASSUME NEW n \in Nat, NEW S \in SUBSET (1 .. n), S # {}
  PROVE  \E m \in S : \A x \in S : x <= m
<1> DEFINE T == {n - x : x \in S}
<1>1. T \in SUBSET Nat /\ T # {}
  <2>1. \A x \in S : n - x \in Nat
    OBVIOUS
  <2> QED
    BY <2>1
<1>2. PICK t \in T : \A y \in T : t <= y
  BY <1>1, LeastNumber
<1>3. PICK m \in S : t = n - m
  BY <1>2
<1>4. \A x \in S : n - m <= n - x
  BY <1>2, <1>3
<1> QED
  BY <1>4

(* The first and the last of some entries are among them (Span).           *)
LEMMA FirstAndLast ==
  ASSUME NEW n \in Nat, NEW S \in SUBSET (1 .. n), S # {}
  PROVE  Max(S) \in S /\ Min(S) \in S
<1>1. \E m \in S : \A x \in S : m >= x
  BY GreatestNumber
<1>2. \E m \in S : \A x \in S : m <= x
  BY LeastNumber
<1>3. Max(S) \in S
  BY <1>1 DEF Max
<1> QED
  BY <1>2, <1>3 DEF Min

(* Entries each later than the one before are each later than all before.  *)
LEMMA OrderExtends ==
  ASSUME NEW log, NEW n \in Nat, NEW m \in Nat, n <= m,
         \A i \in 1 .. m : log[i].at \in Nat,
         \A i, j \in 1 .. n : i < j => log[i].at < log[j].at,
         \A k \in n + 1 .. m : k > 1 => log[k].at > log[k - 1].at
  PROVE  \A i, j \in 1 .. m : i < j => log[i].at < log[j].at
<1> DEFINE late == {j \in 1 .. m : \E i \in 1 .. m : i < j /\ ~ (log[i].at < log[j].at)}
<1> SUFFICES ASSUME late # {} PROVE FALSE
  OBVIOUS
<1>1. late \in SUBSET Nat
  OBVIOUS
<1>2. PICK j \in late : \A x \in late : j <= x
  BY <1>1, LeastNumber
<1>3. PICK i \in 1 .. m : i < j /\ ~ (log[i].at < log[j].at)
  BY <1>2
<1>4. j \in n + 1 .. m /\ j > 1
  BY <1>2, <1>3
<1>5. log[j].at > log[j - 1].at
  BY <1>4
<1>6. i < j - 1
  BY <1>3, <1>4, <1>5
<1>7. j - 1 \notin late /\ j - 1 \in 1 .. m
  BY <1>2, <1>4
<1>8. log[i].at < log[j - 1].at
  BY <1>3, <1>6, <1>7
<1> QED
  BY <1>3, <1>4, <1>5, <1>7, <1>8

(* What a request leaves of the log, when it replaces nothing or open      *)
(* observations, each once (prepareObservation).                           *)
LEMMA RequestInOrder ==
  ASSUME CaseInv, LogInOrder, NEW S \in SUBSET Nat, NEW batch \in Requests(S),
         \A s \in S : s = 0 \/ (s \in DOMAIN observations
                                /\ ~ IsObservationSuperseded(observations, s)),
         \A k \in DOMAIN batch : \A j \in 1 .. k - 1 :
           batch[j].supersedes = batch[k].supersedes => batch[k].supersedes = 0,
         \A k \in DOMAIN batch : batch[k].supersedes \in S,
         Acceptable(LogWith(batch)),
         observations' = LogWith(batch), now' = now,
         \A d \in deviations' : d.obs \in DOMAIN observations',
         \A d, e \in deviations' : d.rule = e.rule /\ d.obs = e.obs => d = e
  PROVE  LogInOrder'
<1> DEFINE n == Len(observations)
           m == Len(observations) + Len(batch)
           log == LogWith(batch)
<1>0. TypeOK /\ now \in Nat \ {0} /\ observations \in Seq(Observation)
      /\ FutureTolerance \in Nat
  BY BoundAssumption DEF CaseInv, TypeOK
<1>1. /\ log \in Seq(Observation) /\ Len(log) = m /\ n \in Nat /\ Len(batch) \in Nat
      /\ \A i \in 1 .. n : log[i] = observations[i]
      /\ \A i \in 1 .. Len(batch) :
           log[n + i] = Prepared(batch[i]) /\ Prepared(batch[i]).supersedes = batch[i].supersedes
  BY <1>0, LogWithExtends
<1>2. m \in Nat /\ n <= m /\ DOMAIN log = 1 .. m /\ DOMAIN observations = 1 .. n
  BY <1>0, <1>1, LenProperties
<1>3. /\ \A k \in n + 1 .. m : /\ log[k].at <= now + FutureTolerance
                               /\ k > 1 => log[k].at > log[k - 1].at
  BY <1>1 DEF Acceptable, NewIn
<1>4. \A k \in n + 1 .. m : k - n \in 1 .. Len(batch) /\ k = n + (k - n)
  BY <1>1
<1>5. \A k \in 1 .. m : log[k] \in Observation
  BY <1>1, <1>2, ElementOfSeq
<1>6. DOMAIN batch = 1 .. Len(batch)
  <2> DEFINE Item == [at : Times, reading : Readings, supersedes : S]
  <2>1. PICK l \in 1 .. MaxBatch : batch \in [1 .. l -> Item]
    BY DEF Requests
  <2> HIDE DEF Item
  <2>2. l \in Nat
    BY <2>1, BoundAssumption
  <2>3. batch \in Seq(Item)
    BY <2>1, <2>2, SeqDef
  <2> QED
    BY <2>3, LenProperties
<1>7. \A k \in n + 1 .. m : log[k].at # 0
  <2> SUFFICES ASSUME NEW k \in n + 1 .. m PROVE log[k].at # 0
    OBVIOUS
  <2>1. log[k] = Prepared(batch[k - n])
    BY <1>1, <1>4
  <2>2. log[k].at \in Nat /\ log[k].at # 0
    <3>1. PICK l \in 1 .. MaxBatch :
            batch \in [1 .. l -> [at : Times, reading : Readings, supersedes : S]]
      BY DEF Requests
    <3>2. k - n \in DOMAIN batch
      BY <1>4, <1>6
    <3>3. batch[k - n] \in [at : Times, reading : Readings, supersedes : S]
      BY <3>1, <3>2
    <3>4. log[k].at = IF batch[k - n].at = 0 THEN now ELSE batch[k - n].at
      BY <2>1, <3>3 DEF Prepared
    <3>5. log[k] \in Observation
      BY <1>1, <1>5
    <3> QED
      BY <1>0, <3>4, <3>5 DEF Observation
  <2> QED
    BY <2>2
<1>8. \A k \in n + 1 .. m : log[k].supersedes = batch[k - n].supersedes
                            /\ k - n \in DOMAIN batch /\ log[k].supersedes \in S
  <2> SUFFICES ASSUME NEW k \in n + 1 .. m
               PROVE  log[k].supersedes = batch[k - n].supersedes
                      /\ k - n \in DOMAIN batch /\ log[k].supersedes \in S
    OBVIOUS
  <2>1. k - n \in DOMAIN batch /\ k - n \in 1 .. Len(batch) /\ n + (k - n) = k
    BY <1>4, <1>6
  <2>2. log[k] = Prepared(batch[k - n])
        /\ Prepared(batch[k - n]).supersedes = batch[k - n].supersedes
    BY <1>1, <2>1
  <2>3. batch[k - n].supersedes \in S
    BY <2>1
  <2> QED
    BY <2>1, <2>2, <2>3
<1> HIDE DEF log, n, m
<1>9. \A i \in 1 .. n : /\ observations[i].at # 0 /\ observations[i].at <= now + FutureTolerance
                        /\ observations[i].supersedes < i
  BY <1>2 DEF LogInOrder
<1>10. \A i \in 1 .. m : /\ log[i].at # 0 /\ log[i].at <= now + FutureTolerance
                         /\ log[i].supersedes < i
  <2>1. ASSUME NEW i \in n + 1 .. m
        PROVE  log[i].supersedes < i
    <3>1. log[i].supersedes = 0 \/ log[i].supersedes \in 1 .. n
      BY <1>2, <1>8
    <3> QED
      BY <1>1, <1>2, <3>1
  <2>2. \A i \in 1 .. m : i \in 1 .. n \/ i \in n + 1 .. m
    BY <1>1, <1>2
  <2> QED
    BY <1>1, <1>3, <1>7, <1>9, <2>1, <2>2
<1>11. \A i, j \in 1 .. m : i < j => log[i].at < log[j].at
  <2>1. \A i, j \in 1 .. n : i < j => log[i].at < log[j].at
    BY <1>1, <1>2 DEF LogInOrder
  <2>2. \A i \in 1 .. m : log[i].at \in Nat
    BY <1>5 DEF Observation
  <2>3. n \in Nat
    BY <1>1
  <2> QED
    BY <1>2, <1>3, <2>1, <2>2, <2>3, OrderExtends
<1>12. \A i, j \in 1 .. m :
         log[i].supersedes = log[j].supersedes => i = j \/ log[i].supersedes = 0
  <2>1. ASSUME NEW i \in 1 .. m, NEW j \in 1 .. m, i < j,
               log[i].supersedes = log[j].supersedes, log[i].supersedes # 0
        PROVE  FALSE
    <3>1. CASE j <= n
      <4>1. i \in 1 .. n /\ j \in 1 .. n
        BY <1>1, <2>1, <3>1
      <4> QED
        BY <1>1, <1>2, <2>1, <4>1 DEF LogInOrder
    <3>2. CASE i <= n /\ j > n
      <4>1. i \in 1 .. n /\ j \in n + 1 .. m
        BY <1>1, <2>1, <3>2
      <4>2. ~ IsObservationSuperseded(observations, log[j].supersedes)
        BY <1>8, <2>1, <4>1
      <4> QED
        BY <1>1, <1>2, <2>1, <4>1, <4>2 DEF IsObservationSuperseded
    <3>3. CASE i > n
      <4>1. i \in n + 1 .. m /\ j \in n + 1 .. m
        BY <1>1, <2>1, <3>3
      <4>2. i - n \in 1 .. (j - n) - 1 /\ j - n \in DOMAIN batch
        BY <1>1, <1>8, <2>1, <4>1
      <4> QED
        BY <1>8, <2>1, <4>1, <4>2
    <3> QED
      BY <1>1, <2>1, <3>1, <3>2, <3>3
  <2>2. \A i, j \in 1 .. m : i < j \/ i = j \/ j < i
    BY <1>2
  <2> QED
    BY <2>1, <2>2
<1>13. observations' = log
  BY DEF log
<1> QED
  BY <1>2, <1>10, <1>11, <1>12, <1>13 DEF LogInOrder

(* A rule and an observation have one deviation (ensureDeviation).         *)
LEMMA OneDeviation ==
  ASSUME CaseInv, LogInOrder, NEW log
  PROVE  \A d, e \in DeviationsWith(log) : d.rule = e.rule /\ d.obs = e.obs => d = e
<1>1. Len(observations) \in Nat /\ DOMAIN observations = 1 .. Len(observations)
  BY LenProperties DEF CaseInv, TypeOK
<1>2. \A d \in deviations : d.obs \notin NewIn(log)
  BY <1>1 DEF LogInOrder, NewIn
<1> SUFFICES ASSUME NEW d \in DeviationsWith(log), NEW e \in DeviationsWith(log),
                    d.rule = e.rule, d.obs = e.obs
             PROVE  d = e
  OBVIOUS
<1> DEFINE new(f) == \E k \in NewIn(log) : \E r \in NewRules(log, k) :
                       f = [rule |-> r, obs |-> k, status |-> "open", resolvedAt |-> 0]
<1>3. (d \in deviations \/ new(d)) /\ (e \in deviations \/ new(e))
  BY DEF DeviationsWith
<1>4. new(d) => d.obs \in NewIn(log)
         /\ d = [rule |-> d.rule, obs |-> d.obs, status |-> "open", resolvedAt |-> 0]
  OBVIOUS
<1>5. new(e) => e.obs \in NewIn(log)
         /\ e = [rule |-> e.rule, obs |-> e.obs, status |-> "open", resolvedAt |-> 0]
  OBVIOUS
<1> HIDE DEF new
<1>6. CASE d \in deviations /\ e \in deviations
  BY <1>6 DEF LogInOrder
<1>7. CASE new(d) /\ new(e)
  BY <1>4, <1>5, <1>7
<1> QED
  BY <1>2, <1>3, <1>4, <1>5, <1>6, <1>7

LEMMA OneResolved ==
  ASSUME NEW devs \in SUBSET Deviation, NEW passed \in SUBSET devs,
         \A d, e \in devs : d.rule = e.rule /\ d.obs = e.obs => d = e
  PROVE  \A d, e \in Resolve(devs, passed) : d.rule = e.rule /\ d.obs = e.obs => d = e
<1> DEFINE cure(d) == [d EXCEPT !.status = "resolved", !.resolvedAt = now]
<1>1. \A d \in devs : cure(d).rule = d.rule /\ cure(d).obs = d.obs
  BY DEF Deviation
<1>2. Resolve(devs, passed) = (devs \ passed) \cup {cure(d) : d \in passed}
  BY DEF Resolve
<1> HIDE DEF cure
<1> QED
  BY <1>1, <1>2

(* What an accepted batch, or the retests of a remediation, leaves.        *)
LEMMA BatchInOrder ==
  ASSUME CaseInv, LogInOrder, NEW batch \in Requests({0}), AddObservations(batch)
  PROVE  LogInOrder'
<1> DEFINE log == LogWith(batch)
<1>1. /\ Acceptable(log) /\ observations' = log /\ deviations' = DeviationsWith(log)
      /\ now' = now /\ \A k \in DOMAIN batch : batch[k].supersedes = 0
  BY DEF AddObservations
<1>2. /\ Len(observations) \in Nat /\ Len(log) \in Nat /\ Len(observations) <= Len(log)
      /\ DOMAIN log = 1 .. Len(log) /\ DOMAIN observations = 1 .. Len(observations)
  BY LogWithExtends, LenProperties DEF CaseInv, TypeOK
<1> HIDE DEF log
<1>3. \A d \in DeviationsWith(log) : d.obs \in DOMAIN log
  BY <1>2 DEF DeviationsWith, NewIn, LogInOrder
<1>4. \A d, e \in DeviationsWith(log) : d.rule = e.rule /\ d.obs = e.obs => d = e
  BY OneDeviation
<1> QED
  BY <1>1, <1>3, <1>4, RequestInOrder DEF log

LEMMA RemediationInOrder ==
  ASSUME CaseInv, LogInOrder, NEW targets \in RemediationTargets,
         NEW retests \in Requests({d.obs : d \in targets}),
         RemediateDeviations(targets, retests)
  PROVE  LogInOrder'
<1> DEFINE log == LogWith(retests)
           devs == DeviationsWith(log)
           passed == Passed(targets, log, devs)
           S == {d.obs : d \in targets}
<1>1. /\ Acceptable(log) /\ observations' = log /\ deviations' = Resolve(devs, passed)
      /\ now' = now /\ \A d \in targets : CanRemediate(d)
      /\ \A k \in DOMAIN retests :
           /\ \E d \in targets : d.obs = retests[k].supersedes
           /\ \A j \in 1 .. k - 1 : retests[j].supersedes # retests[k].supersedes
  BY DEF RemediateDeviations
<1>2. targets \in SUBSET Deviation /\ S \in SUBSET Nat /\ targets \subseteq deviations
  BY <1>1, TargetsType DEF CaseInv, CanRemediate, OpenDeviations
<1>3. /\ Len(observations) \in Nat /\ Len(log) \in Nat /\ Len(observations) <= Len(log)
      /\ DOMAIN log = 1 .. Len(log) /\ DOMAIN observations = 1 .. Len(observations)
  <2>1. observations \in Seq(Observation)
    BY DEF CaseInv, TypeOK
  <2>2. /\ log \in Seq(Observation) /\ Len(log) = Len(observations) + Len(retests)
        /\ Len(observations) \in Nat /\ Len(retests) \in Nat
    BY <1>2, LogWithExtends DEF CaseInv
  <2> HIDE DEF log
  <2> QED
    BY <2>1, <2>2, LenProperties
<1>4. \A s \in S : s \in DOMAIN observations /\ ~ IsObservationSuperseded(observations, s)
  BY <1>1, <1>2 DEF CanRemediate, LogInOrder
<1> HIDE DEF log
<1>5. \A d \in devs : d.obs \in DOMAIN log
  BY <1>3 DEF DeviationsWith, NewIn, LogInOrder
<1>6. \A d \in passed : [d EXCEPT !.status = "resolved", !.resolvedAt = now].obs = d.obs
                        /\ d.obs \in DOMAIN log
  BY <1>2, <1>3 DEF Passed, Deviation, LogInOrder
<1>7. \A d \in Resolve(devs, passed) : d.obs \in DOMAIN log
  BY <1>5, <1>6 DEF Resolve
<1>8. \A d, e \in devs : d.rule = e.rule /\ d.obs = e.obs => d = e
  BY OneDeviation
<1>9. devs \in SUBSET Deviation /\ passed \in SUBSET devs
  <2>1. passed \in SUBSET devs
    BY <1>2 DEF Passed, DeviationsWith
  <2>2. TypeOK /\ log \in Seq(Observation)
    BY <1>2, LogWithExtends DEF CaseInv, log
  <2> QED
    BY <2>1, <2>2, DeviationsWithType
<1> HIDE DEF devs, passed
<1>10. \A d, e \in Resolve(devs, passed) : d.rule = e.rule /\ d.obs = e.obs => d = e
  BY <1>8, <1>9, OneResolved
<1>11. \A d, e \in deviations' : d.rule = e.rule /\ d.obs = e.obs => d = e
  BY <1>1, <1>10
<1>12. \A d \in deviations' : d.obs \in DOMAIN observations'
  BY <1>1, <1>7
<1>13. \A k \in DOMAIN retests : retests[k].supersedes \in S
  BY <1>1
<1>14. \A k \in DOMAIN retests : \A j \in 1 .. k - 1 :
         retests[j].supersedes = retests[k].supersedes => retests[k].supersedes = 0
  BY <1>1
<1> HIDE DEF S
<1> QED
  BY <1>1, <1>2, <1>4, <1>11, <1>12, <1>13, <1>14, RequestInOrder DEF log, S

LEMMA LogInOrderStep ==
  ASSUME CaseInv, LogInOrder, Next
  PROVE  LogInOrder'
<1>1. ASSUME UNCHANGED <<trialVars, now>>
      PROVE  LogInOrder'
  BY <1>1 DEF LogInOrder, trialVars
<1>2. CASE Tick
  <2>1. /\ now' = now + 1 /\ now \in Nat /\ FutureTolerance \in Nat
        /\ observations' = observations /\ deviations' = deviations
    BY <1>2, BoundAssumption DEF Tick, trialVars, CaseInv, TypeOK
  <2>2. \A i \in DOMAIN observations : observations[i].at \in Nat
    <3>1. observations \in Seq(Observation)
      BY DEF CaseInv, TypeOK
    <3>2. DOMAIN observations = 1 .. Len(observations)
      BY <3>1, LenProperties
    <3>3. \A i \in DOMAIN observations : observations[i] \in Observation
      BY <3>1, <3>2, ElementOfSeq
    <3> QED
      BY <3>3 DEF Observation
  <2> QED
    BY <2>1, <2>2 DEF LogInOrder
<1>3. ASSUME NEW id \in Identities, ReviseIdentity(id)
      PROVE  LogInOrder'
  BY <1>1, <1>3 DEF ReviseIdentity
<1>4. ASSUME NEW b \in BaselineInputs, SetBaseline(b)
      PROVE  LogInOrder'
  BY <1>1, <1>4 DEF SetBaseline
<1>5. CASE RevokeBaseline
  BY <1>1, <1>5 DEF RevokeBaseline
<1>6. ASSUME NEW p \in PlanInputs, SubmitPlan(p) \/ RevisePlan(p)
      PROVE  LogInOrder'
  BY <1>1, <1>6 DEF SubmitPlan, RevisePlan
<1>7. CASE StartTrial
  BY <1>1, <1>7 DEF StartTrial
<1>8. ASSUME NEW batch \in Requests({0}), AddObservations(batch)
      PROVE  LogInOrder'
  BY <1>8, BatchInOrder
<1>9. ASSUME NEW targets \in RemediationTargets,
             NEW retests \in Requests({d.obs : d \in targets}),
             RemediateDeviations(targets, retests)
      PROVE  LogInOrder'
  BY <1>9, RemediationInOrder
<1>10. CASE FetchPackage
  BY <1>1, <1>10 DEF FetchPackage
<1>11. ASSUME NEW r \in People, NEW d \in {"approve", "return"}, Review(r, d)
       PROVE  LogInOrder'
  BY <1>1, <1>11 DEF Review
<1>12. CASE Activate
  BY <1>1, <1>12 DEF Activate
<1> QED
  BY <1>2, <1>3, <1>4, <1>5, <1>6, <1>7, <1>8, <1>9, <1>10, <1>11, <1>12 DEF Next

-----------------------------------------------------------------------------
(* Resolved deviations. *)

(* A deviation of a new observation is a new one: open, and of a rule that *)
(* the observation breaks.                                                 *)
LEMMA NewDeviations ==
  ASSUME CaseInv, LogInOrder, NEW log, NEW d \in DeviationsWith(log),
         d.obs \in NewIn(log)
  PROVE  d.status = "open" /\ d.rule \in BrokenRules(log, d.obs, baseline)
<1>1. Len(observations) \in Nat /\ DOMAIN observations = 1 .. Len(observations)
  BY LenProperties DEF CaseInv, TypeOK
<1>2. d \notin deviations
  BY <1>1 DEF LogInOrder, NewIn
<1>3. PICK k \in NewIn(log) : \E r \in NewRules(log, k) :
        d = [rule |-> r, obs |-> k, status |-> "open", resolvedAt |-> 0]
  BY <1>2 DEF DeviationsWith
<1> QED
  BY <1>3 DEF NewRules

(* An observation that passes a rule (observationPassesRule) does not      *)
(* break it and has no deviation of it.                                    *)
LEMMA PassedIsClear ==
  ASSUME CaseInv, LogInOrder, NEW log \in Seq(Observation), NEW k \in NewIn(log),
         NEW r \in RuleCodes, baseline # Nil,
         ObservationPassesRule(log, DeviationsWith(log), k, r)
  PROVE  /\ r \notin EvaluateObservation(log[k], baseline)
         /\ \A d \in DeviationsWith(log) : ~ (d.rule = r /\ d.obs = k)
<1>1. CASE r = "SAMPLE_GAP"
  <2>1. r \notin EvaluateObservation(log[k], baseline)
    BY <1>1 DEF EvaluateObservation, MeasuredRules
  <2>2. \A d \in DeviationsWith(log) : ~ (d.rule = r /\ d.obs = k)
    BY <1>1, NewDeviations DEF ObservationPassesRule
  <2> QED
    BY <2>1, <2>2
<1>2. CASE r # "SAMPLE_GAP"
  <2>1. log[k] \in Observation
    <3>1. /\ Len(observations) \in Nat /\ Len(log) \in Nat
      BY LenProperties DEF CaseInv, TypeOK
    <3>2. k \in 1 .. Len(log)
      BY <3>1 DEF NewIn
    <3> QED
      BY <3>2, ElementOfSeq
  <2>2. /\ log[k].reading.temp \in Int /\ log[k].reading.hum \in Int
        /\ baseline.tempMin \in Int /\ baseline.tempMax \in Int
        /\ baseline.humMin \in Int /\ baseline.humMax \in Int
    BY <2>1 DEF Observation, Reading, BaselineProfile, CaseInv, TypeOK
  <2>3. r \in {"TEMP_RANGE", "HUMIDITY_RANGE", "DEVICE_STATUS"}
    BY <1>2 DEF RuleCodes, MeasuredRules
  <2>4. r \notin EvaluateObservation(log[k], baseline)
    <3>1. CASE r = "TEMP_RANGE"
      BY <2>2, <3>1 DEF ObservationPassesRule, EvaluateObservation
    <3>2. CASE r = "HUMIDITY_RANGE"
      BY <2>2, <3>2 DEF ObservationPassesRule, EvaluateObservation
    <3>3. CASE r = "DEVICE_STATUS"
      BY <3>3 DEF ObservationPassesRule, EvaluateObservation
    <3> QED
      BY <2>3, <3>1, <3>2, <3>3
  <2>5. r \notin BrokenRules(log, k, baseline)
    BY <1>2, <2>4 DEF BrokenRules
  <2> QED
    BY <2>4, <2>5, NewDeviations
<1> QED
  BY <1>1, <1>2

(* What was resolved stays resolved by its retest, as a deviation of the   *)
(* old log has its retest in the longer log and no new deviation is about  *)
(* an old observation.                                                     *)
LEMMA RetestStays ==
  ASSUME CaseInv, LogInOrder, ResolvedByRetest, NEW S \in SUBSET Nat,
         NEW batch \in Requests(S),
         NEW d \in deviations, d.status = "resolved"
  PROVE  \E k \in DOMAIN LogWith(batch) :
           /\ LogWith(batch)[k].supersedes = d.obs
           /\ d.rule \notin EvaluateObservation(LogWith(batch)[k], baseline)
           /\ \A e \in DeviationsWith(LogWith(batch)) : ~ (e.rule = d.rule /\ e.obs = k)
<1> DEFINE log == LogWith(batch)
<1>1. PICK k \in DOMAIN observations :
        /\ observations[k].supersedes = d.obs
        /\ d.rule \notin EvaluateObservation(observations[k], baseline)
        /\ ~ \E e \in deviations : e.rule = d.rule /\ e.obs = k
  BY DEF ResolvedByRetest
<1>2. /\ log \in Seq(Observation) /\ Len(log) = Len(observations) + Len(batch)
      /\ Len(observations) \in Nat /\ Len(batch) \in Nat
      /\ \A i \in 1 .. Len(observations) : log[i] = observations[i]
  BY LogWithExtends DEF CaseInv
<1>3. observations \in Seq(Observation)
  BY DEF CaseInv, TypeOK
<1> HIDE DEF log
<1>4. DOMAIN log = 1 .. Len(log) /\ DOMAIN observations = 1 .. Len(observations)
  BY <1>2, <1>3, LenProperties
<1>5. k \in DOMAIN log /\ log[k] = observations[k] /\ k \notin NewIn(log)
  BY <1>1, <1>2, <1>4 DEF NewIn
<1>6. \A e \in DeviationsWith(log) : e \in deviations \/ e.obs \in NewIn(log)
  BY DEF DeviationsWith
<1>7. \A e \in DeviationsWith(log) : ~ (e.rule = d.rule /\ e.obs = k)
  BY <1>1, <1>5, <1>6
<1> QED
  BY <1>1, <1>5, <1>7 DEF log

LEMMA BatchResolved ==
  ASSUME CaseInv, LogInOrder, ResolvedByRetest,
         NEW batch \in Requests({0}), AddObservations(batch)
  PROVE  ResolvedByRetest'
<1> DEFINE log == LogWith(batch)
           devs == DeviationsWith(log)
<1>1. observations' = log /\ deviations' = devs /\ baseline' = baseline
  BY DEF AddObservations, baselineVars
<1>2. \A d \in devs : d.status = "resolved" => d \in deviations
  BY DEF DeviationsWith
<1>3. \A d \in deviations : d.status = "resolved" =>
        \E k \in DOMAIN log :
           /\ log[k].supersedes = d.obs
           /\ d.rule \notin EvaluateObservation(log[k], baseline)
           /\ \A e \in devs : ~ (e.rule = d.rule /\ e.obs = k)
  BY RetestStays
<1> HIDE DEF log, devs
<1> QED
  BY <1>1, <1>2, <1>3 DEF ResolvedByRetest

LEMMA RemediationResolved ==
  ASSUME CaseInv, LogInOrder, ResolvedByRetest, NEW targets \in RemediationTargets,
         NEW retests \in Requests({d.obs : d \in targets}),
         RemediateDeviations(targets, retests)
  PROVE  ResolvedByRetest'
<1> DEFINE log == LogWith(retests)
           devs == DeviationsWith(log)
           passed == Passed(targets, log, devs)
           retested(d, ds) == \E k \in DOMAIN log :
             /\ log[k].supersedes = d.obs
             /\ d.rule \notin EvaluateObservation(log[k], baseline)
             /\ \A e \in ds : ~ (e.rule = d.rule /\ e.obs = k)
<1>1. /\ observations' = log /\ deviations' = Resolve(devs, passed)
      /\ baseline' = baseline /\ baseline # Nil /\ \A d \in targets : CanRemediate(d)
  BY DEF RemediateDeviations, baselineVars
<1>2. /\ targets \in SUBSET Deviation /\ {d.obs : d \in targets} \in SUBSET Nat
      /\ targets \subseteq deviations
  BY <1>1, TargetsType DEF CaseInv, CanRemediate, OpenDeviations
<1>3. log \in Seq(Observation) /\ NewIn(log) \subseteq DOMAIN log
  <2>1. log \in Seq(Observation) /\ Len(observations) \in Nat
    BY <1>2, LogWithExtends DEF CaseInv
  <2> HIDE DEF log
  <2> QED
    BY <2>1, LenProperties DEF NewIn
<1>4. \A d \in deviations : d.status = "resolved" => retested(d, devs)
  BY <1>2, RetestStays
<1>5. \A d \in devs : d.status = "resolved" => d \in deviations
  BY DEF DeviationsWith
<1>6. \A d \in passed : d \in devs
  BY <1>2 DEF Passed, DeviationsWith
<1> HIDE DEF log
<1>7. \A d \in passed : retested(d, devs)
  <2> SUFFICES ASSUME NEW d \in targets, NEW k \in NewIn(log), log[k].supersedes = d.obs,
                      ObservationPassesRule(log, devs, k, d.rule)
               PROVE  retested(d, devs)
    BY DEF Passed
  <2>1. d.rule \in RuleCodes
    BY <1>2 DEF Deviation
  <2>2. /\ d.rule \notin EvaluateObservation(log[k], baseline)
        /\ \A e \in devs : ~ (e.rule = d.rule /\ e.obs = k)
    BY <1>1, <1>3, <2>1, PassedIsClear
  <2> HIDE DEF devs
  <2> QED
    BY <1>3, <2>2
<1> HIDE DEF devs
<1>8. \A d \in passed :
        LET e == [d EXCEPT !.status = "resolved", !.resolvedAt = now]
        IN  e.rule = d.rule /\ e.obs = d.obs
  BY <1>2 DEF Passed, Deviation
<1> HIDE DEF passed
<1>9. \A e \in Resolve(devs, passed) :
        \E d \in devs : /\ e.rule = d.rule /\ e.obs = d.obs
                        /\ e.status = "resolved" => d.status = "resolved" \/ d \in passed
  BY <1>6, <1>8 DEF Resolve
<1>10. ASSUME NEW e \in Resolve(devs, passed), e.status = "resolved"
       PROVE  retested(e, Resolve(devs, passed))
  <2>1. PICK d \in devs : /\ e.rule = d.rule /\ e.obs = d.obs
                          /\ d.status = "resolved" \/ d \in passed
    BY <1>9, <1>10
  <2>2. retested(d, devs)
    BY <1>4, <1>5, <1>7, <2>1
  <2>3. PICK k \in DOMAIN log :
             /\ log[k].supersedes = d.obs
             /\ d.rule \notin EvaluateObservation(log[k], baseline)
             /\ \A f \in devs : ~ (f.rule = d.rule /\ f.obs = k)
    BY <2>2
  <2>4. \A f \in Resolve(devs, passed) : ~ (f.rule = d.rule /\ f.obs = k)
    BY <1>9, <2>3
  <2> QED
    BY <2>1, <2>3, <2>4
<1> DEFINE cured == Resolve(devs, passed)
<1>11. \A e \in cured : e.status = "resolved" => retested(e, cured)
  BY <1>10
<1>12. deviations' = cured
  BY <1>1
<1> HIDE DEF cured
<1> QED
  BY <1>1, <1>11, <1>12 DEF ResolvedByRetest

LEMMA ResolvedByRetestStep ==
  ASSUME CaseInv, LogInOrder, ResolvedByRetest, Next
  PROVE  ResolvedByRetest'
<1>1. ASSUME UNCHANGED <<trialVars, baseline>>
      PROVE  ResolvedByRetest'
  BY <1>1 DEF ResolvedByRetest, trialVars
<1>2. ASSUME deviations' = {}
      PROVE  ResolvedByRetest'
  BY <1>2 DEF ResolvedByRetest
<1>3. ASSUME NEW id \in Identities, ReviseIdentity(id)
      PROVE  ResolvedByRetest'
  BY <1>1, <1>3 DEF ReviseIdentity, baselineVars
<1>4. ASSUME NEW b \in BaselineInputs, SetBaseline(b)
      PROVE  ResolvedByRetest'
  BY <1>2, <1>4 DEF SetBaseline, trialVars, CaseInv, RecordOfState
<1>5. CASE RevokeBaseline
  BY <1>2, <1>5 DEF RevokeBaseline, trialVars, CaseInv, RecordOfState
<1>6. ASSUME NEW p \in PlanInputs, SubmitPlan(p) \/ RevisePlan(p)
      PROVE  ResolvedByRetest'
  BY <1>1, <1>6 DEF SubmitPlan, RevisePlan, baselineVars
<1>7. CASE StartTrial
  BY <1>1, <1>7 DEF StartTrial, baselineVars
<1>8. ASSUME NEW batch \in Requests({0}), AddObservations(batch)
      PROVE  ResolvedByRetest'
  BY <1>8, BatchResolved
<1>9. ASSUME NEW targets \in RemediationTargets,
             NEW retests \in Requests({d.obs : d \in targets}),
             RemediateDeviations(targets, retests)
      PROVE  ResolvedByRetest'
  BY <1>9, RemediationResolved
<1>10. CASE FetchPackage
  BY <1>1, <1>10 DEF FetchPackage, baselineVars
<1>11. ASSUME NEW r \in People, NEW d \in {"approve", "return"}, Review(r, d)
       PROVE  ResolvedByRetest'
  BY <1>1, <1>11 DEF Review, baselineVars
<1>12. CASE Activate
  BY <1>1, <1>12 DEF Activate, baselineVars
<1>13. CASE Tick
  BY <1>1, <1>13 DEF Tick, baselineVars
<1> QED
  BY <1>3, <1>4, <1>5, <1>6, <1>7, <1>8, <1>9, <1>10, <1>11, <1>12, <1>13 DEF Next

-----------------------------------------------------------------------------
(* What the state was computed from. *)

(* The last review is of an earlier version than the one before this one,  *)
(* unless it is the last thing that happened.                              *)
LEMMA NotSentBack ==
  ASSUME CaseInv, ReviewsPast, touch, reviews' = reviews
  PROVE  ~ SentBack'
<1> SUFFICES ASSUME reviews # <<>>, LastReview'.reviewedVersion = version' - 1
             PROVE  FALSE
  BY DEF SentBack
<1>1. LastReview' = LastReview /\ version' = version + 1 /\ version \in Nat
  BY DEF LastReview, touch, CaseInv, TypeOK
<1>2. Len(reviews) \in DOMAIN reviews
  <2>1. reviews \in Seq(ReviewDecision)
    BY DEF CaseInv, TypeOK
  <2> QED
    BY <2>1, LastOfSeq
<1>3. LastReview.reviewedVersion \in 1 .. version - 1
  BY <1>2 DEF ReviewsPast, LastReview
<1> QED
  BY <1>1, <1>3

LEMMA TrialJudgedStep ==
  ASSUME CaseInv, InForce, ReviewsPast, TrialJudged, Next
  PROVE  TrialJudged'
<1>1. ASSUME state' \notin {"TrialRunning", "NeedsRemediation"}
      PROVE  TrialJudged'
  BY <1>1 DEF TrialJudged
<1>2. ASSUME state' = evaluate(observations', deviations'), touch,
             reviews' = reviews, UNCHANGED <<plan, baseline>>
      PROVE  TrialJudged'
  <2>1. ~ SentBack'
    BY <1>2, NotSentBack
  <2>2. state' = "NeedsRemediation" => OpenDeviations' # {}
    BY <1>2 DEF evaluate, OpenDeviations
  <2>3. state' = "TrialRunning" => ~ TrialWindowSatisfied(observations', plan', baseline')
    BY <1>2 DEF evaluate
  <2> QED
    BY <2>1, <2>2, <2>3 DEF TrialJudged
<1>3. ASSUME UNCHANGED <<state, version, reviews, baseline, plan, trialVars>>
      PROVE  TrialJudged'
  BY <1>3 DEF TrialJudged, SentBack, LastReview, OpenDeviations, trialVars
<1>4. ASSUME NEW id \in Identities, ReviseIdentity(id)
      PROVE  TrialJudged'
  BY <1>1, <1>4 DEF ReviseIdentity
<1>5. ASSUME NEW b \in BaselineInputs, SetBaseline(b)
      PROVE  TrialJudged'
  BY <1>1, <1>5 DEF SetBaseline
<1>6. CASE RevokeBaseline
  BY <1>1, <1>6 DEF RevokeBaseline
<1>7. ASSUME NEW p \in PlanInputs, SubmitPlan(p) \/ RevisePlan(p)
      PROVE  TrialJudged'
  BY <1>1, <1>7 DEF SubmitPlan, RevisePlan
<1>8. CASE StartTrial
  <2>1. /\ state = "TrialReady" /\ state' = "TrialRunning"
        /\ UNCHANGED <<plan, baseline, observations>>
    BY <1>8 DEF StartTrial, baselineVars, planVars, trialVars
  <2>2. observations = <<>> /\ baseline # Nil
    BY <2>1 DEF CaseInv, RecordOfState
  <2>3. EffectiveObservations(observations) = {}
    BY <2>2 DEF EffectiveObservations
  <2>4. baseline.minCount \in Nat /\ 1 <= baseline.minCount
    BY <2>2 DEF InForce, ValidateBaseline, CaseInv, TypeOK, BaselineProfile
  <2>5. ~ TrialWindowSatisfied(observations, plan, baseline)
    BY <2>3, <2>4, FS_EmptySet DEF TrialWindowSatisfied
  <2> QED
    BY <2>1, <2>5 DEF TrialJudged
<1>9. ASSUME NEW batch \in Requests({0}), AddObservations(batch)
      PROVE  TrialJudged'
  BY <1>2, <1>9 DEF AddObservations, baselineVars, planVars, reviewVars
<1>10. ASSUME NEW targets \in RemediationTargets,
              NEW retests \in Requests({d.obs : d \in targets}),
              RemediateDeviations(targets, retests)
       PROVE  TrialJudged'
  BY <1>2, <1>10 DEF RemediateDeviations, baselineVars, planVars, reviewVars
<1>11. CASE FetchPackage \/ Tick
  BY <1>3, <1>11 DEF FetchPackage, Tick, baselineVars, planVars, reviewVars
<1>12. ASSUME NEW r \in People, NEW d \in {"approve", "return"}, Review(r, d)
       PROVE  TrialJudged'
  <2> DEFINE item == [reviewer |-> r, decision |-> d,
                      reviewedVersion |-> held.version, fingerprint |-> held]
             n == Len(reviews)
  <2>1. /\ state = "AwaitingReview" /\ held # Nil /\ held.version = version
        /\ reviews' = Append(reviews, item) /\ version' = version + 1
        /\ UNCHANGED <<plan, baseline, trialVars>>
        /\ state' \in {"Approved", "NeedsRemediation"}
    BY <1>12 DEF Review, PackageCurrent, touch, baselineVars, planVars
  <2>2. OpenDeviations = {} /\ TrialWindowSatisfied(observations, plan, baseline)
    BY <2>1 DEF InForce, UnderReview, CaseInv, OpenOnlyInRemediation
  <2>3. reviews \in Seq(ReviewDecision) /\ held \in ReviewPackage /\ version \in Nat
    BY <2>1 DEF CaseInv, TypeOK
  <2>4. item \in ReviewDecision /\ item.reviewedVersion = version
    BY <2>1, <2>3 DEF ReviewDecision, ReviewPackage
  <2> HIDE DEF item
  <2>5. n \in Nat /\ Len(reviews') = n + 1 /\ reviews'[n + 1] = item /\ reviews' # <<>>
    BY <2>1, <2>3, <2>4, AppendIsSeq
  <2>6. LastReview'.reviewedVersion = version' - 1
    BY <2>1, <2>3, <2>4, <2>5 DEF LastReview
  <2>7. OpenDeviations' = {} /\ TrialWindowSatisfied(observations', plan', baseline')
    BY <2>1, <2>2 DEF OpenDeviations, trialVars
  <2> QED
    BY <2>1, <2>5, <2>6, <2>7 DEF TrialJudged, SentBack
<1>13. CASE Activate
  BY <1>1, <1>13 DEF Activate
<1> QED
  BY <1>4, <1>5, <1>6, <1>7, <1>8, <1>9, <1>10, <1>11, <1>12, <1>13 DEF Next

-----------------------------------------------------------------------------
(* The inductive invariant. *)

LEMMA DossierInit == Init => DossierInv
<1> SUFFICES ASSUME Init PROVE DossierInv
  OBVIOUS
<1>1. CaseInv
  BY CaseInvInit
<1>2. /\ state = "Draft" /\ version = 1 /\ baseline = Nil /\ baselineHistory = <<>>
      /\ revocations = <<>> /\ plan = Nil /\ planHistory = <<>> /\ observations = <<>>
      /\ deviations = {} /\ reviews = <<>> /\ permit = Nil /\ held = Nil
  BY DEF Init
<1>3. DOMAIN <<>> = {}
  OBVIOUS
<1>4. InForce
  BY <1>2, <1>3 DEF InForce, UnderReview
<1>5. ReviewsPast
  BY <1>2, <1>3 DEF ReviewsPast, VersionIdentifiesPackage
<1>6. ApprovalStands
  BY <1>2 DEF ApprovalStands, ApprovalBindsData, ApprovalIndependent
<1>7. LogInOrder /\ ResolvedByRetest
  BY <1>2, <1>3 DEF LogInOrder, ResolvedByRetest
<1>8. TrialJudged
  BY <1>2 DEF TrialJudged
<1> QED
  BY <1>1, <1>4, <1>5, <1>6, <1>7, <1>8 DEF DossierInv

LEMMA DossierStep == DossierInv /\ [Next]_vars => DossierInv'
<1> SUFFICES ASSUME DossierInv, [Next]_vars PROVE DossierInv'
  OBVIOUS
<1>1. CASE Next
  BY <1>1, CaseInvStep, InForceStep, ReviewsPastStep, ApprovalStandsStep, LogInOrderStep,
     ResolvedByRetestStep, TrialJudgedStep DEF DossierInv
<1>2. CASE UNCHANGED vars
  <2>1. CaseInv'
    BY <1>2, CaseInvStep DEF DossierInv
  <2>2. InForce'
    BY <1>2, InForceStays DEF vars, trialVars, DossierInv
  <2>3. BuildReviewPackage' = BuildReviewPackage
    BY <1>2, PackageStays DEF vars, baselineVars, planVars, BuildReviewPackage
  <2>4. ReviewsPast'
    BY <1>2, <2>3 DEF vars, reviewVars, DossierInv, ReviewsPast, VersionIdentifiesPackage
  <2>5. ApprovalStands'
    BY <1>2, ApprovalUntouched DEF vars, DossierInv, CaseInv
  <2>6. LogInOrder' /\ ResolvedByRetest'
    BY <1>2 DEF vars, baselineVars, trialVars, DossierInv, LogInOrder, ResolvedByRetest
  <2>7. TrialJudged'
    BY <1>2 DEF vars, baselineVars, planVars, trialVars, reviewVars, DossierInv,
      TrialJudged, SentBack, LastReview, OpenDeviations
  <2> QED
    BY <2>1, <2>2, <2>4, <2>5, <2>6, <2>7 DEF DossierInv
<1> QED
  BY <1>1, <1>2

(* What every reachable case has on record, and what its reviews and its   *)
(* permit are of.                                                          *)
THEOREM DossierKeepsInv == Spec => []DossierInv
BY DossierInit, DossierStep, PTL DEF Spec

-----------------------------------------------------------------------------
(* What follows from it. *)

LEMMA DossierCurrent == DossierInv => CurrentIsLatest
<1> SUFFICES ASSUME DossierInv PROVE CurrentIsLatest
  OBVIOUS
<1>1. TypeOK /\ RevisionsCount /\ InForce
  BY DEF DossierInv, CaseInv
<1>2. \A i, j \in DOMAIN baselineHistory :
        i < j => baselineHistory[i].revision < baselineHistory[j].revision
  BY <1>1 DEF RevisionsCount
<1>3. \A i, j \in DOMAIN planHistory :
        i < j => planHistory[i].revision < planHistory[j].revision
  BY <1>1 DEF RevisionsCount
<1>4. ASSUME baseline # Nil
      PROVE  /\ baseline = baselineHistory[Len(baselineHistory)]
             /\ \A i \in DOMAIN revocations : revocations[i] # baseline.revision
  <2>1. baseline.revision = Len(baselineHistory) /\ Len(baselineHistory) \in Nat
    BY <1>1, <1>4, RevisionInForce
  <2>2. \A i \in DOMAIN revocations : revocations[i] \in Nat
    <3>1. revocations \in Seq(Nat)
      BY <1>1 DEF TypeOK
    <3> QED
      BY <3>1, LenProperties, ElementOfSeq
  <2> QED
    BY <1>1, <1>4, <2>1, <2>2 DEF InForce
<1>5. ASSUME plan # Nil
      PROVE  /\ plan = planHistory[Len(planHistory)].plan
             /\ LatestPlan = planHistory[Len(planHistory)]
  BY <1>1, <1>5, LatestPlanIsLast DEF InForce
<1> QED
  BY <1>2, <1>3, <1>4, <1>5 DEF CurrentIsLatest

(* The locked baseline and the submitted plan are the latest on record,    *)
(* and no revoked baseline is in force.                                    *)
THEOREM LatestInForce == Spec => []CurrentIsLatest
BY DossierKeepsInv, DossierCurrent, PTL

(* A package of the current version is the package of the moment, however  *)
(* long a reviewer has held it.                                            *)
THEOREM PackageIdentified == Spec => []VersionIdentifiesPackage
<1>1. DossierInv => VersionIdentifiesPackage
  BY DEF DossierInv, ReviewsPast
<1> QED
  BY DossierKeepsInv, <1>1, PTL

(* What was approved is what the case rests on until and after its         *)
(* activation.                                                             *)
THEOREM ApprovalOfTheData == Spec => []ApprovalBindsData
<1>1. DossierInv => ApprovalBindsData
  BY DEF DossierInv, ApprovalStands
<1> QED
  BY DossierKeepsInv, <1>1, PTL

(* Nobody approves a plan of their own.                                    *)
THEOREM ApprovalByAnother == Spec => []ApprovalIndependent
<1>1. DossierInv => ApprovalIndependent
  BY DEF DossierInv, ApprovalStands
<1> QED
  BY DossierKeepsInv, <1>1, PTL

(* A deviation is resolved by a retest of its own observation that is      *)
(* clear of its rule.                                                      *)
THEOREM ResolvedByItsRetest == Spec => []ResolvedByRetest
<1>1. DossierInv => ResolvedByRetest
  BY DEF DossierInv
<1> QED
  BY DossierKeepsInv, <1>1, PTL

-----------------------------------------------------------------------------
(* The trial window. *)

(* No plan is so long that its duration in nanoseconds overflows: one that *)
(* is makes a trial end early (WindowFilled) or never.                     *)
PlansFit == \A p \in PlanInputs : p.hours * Hour < DurationLimit

LEMMA DurationOfFittingPlan ==
  ASSUME NEW x \in Nat, NEW n \in Nat, x < n
  PROVE  ((x + n) % (2 * n)) - n = x
<1>1. x + n \in 0 .. 2 * n - 1
  OBVIOUS
<1>2. 2 * n \in Nat \ {0}
  OBVIOUS
<1>3. \A a \in Nat, m \in Nat \ {0} : a < m => a % m = a
  OBVIOUS
<1>4. (x + n) % (2 * n) = x + n
  BY <1>1, <1>2, <1>3
<1> QED
  BY <1>4

LEMMA FittingPlan ==
  ASSUME PlansFit, DossierInv, plan # Nil
  PROVE  TrialDuration(plan) = plan.hours * Hour
<1>1. PICK p \in PlanInputs : p.hours = plan.hours
  BY DEF DossierInv, InForce
<1>2. plan.hours * Hour \in Nat /\ plan.hours * Hour < DurationLimit
  <2>1. p.hours \in Nat /\ Hour \in Nat
    BY InputAssumption, HourAssumption DEF ControlPlan
  <2> QED
    BY <1>1, <2>1 DEF PlansFit
<1>3. DurationLimit \in Nat
  BY DurationLimitAssumption
<1> QED
  BY <1>2, <1>3, DurationOfFittingPlan DEF TrialDuration

LEMMA DossierWindow ==
  ASSUME PlansFit, DossierInv, state \in UnderReview
  PROVE  /\ Cardinality(EffectiveObservations(observations)) >= baseline.minCount
         /\ Span(observations, EffectiveObservations(observations)) >= plan.hours * Hour
         /\ ValidatePlan(plan, baseline)
<1>1. plan # Nil
  BY DEF DossierInv, InForce, UnderReview
<1>2. TrialDuration(plan) = plan.hours * Hour
  BY <1>1, FittingPlan
<1> QED
  BY <1>1, <1>2 DEF DossierInv, InForce, TrialWindowSatisfied

(* As long as no plan overflows, a case under review has the samples its   *)
(* baseline asks for, spread over the hours of its plan.                   *)
THEOREM ReviewedWindowFilled == PlansFit => (Spec => []WindowFilled)
<1> SUFFICES ASSUME PlansFit PROVE Spec => []WindowFilled
  OBVIOUS
<1>1. DossierInv => WindowFilled
  BY DossierWindow DEF WindowFilled
<1> QED
  BY DossierKeepsInv, <1>1, PTL

LEMMA DossierIntervals ==
  ASSUME PlansFit, DossierInv
  PROVE  IntervalsCovered
<1> SUFFICES ASSUME state \in UnderReview, ~ LegacyTwoSampleProfile(plan, baseline)
             PROVE  Span(observations, EffectiveObservations(observations))
                      >= (baseline.minCount - 1) * baseline.interval
  BY DEF IntervalsCovered
<1> DEFINE span == Span(observations, EffectiveObservations(observations))
           need == (baseline.minCount - 1) * baseline.interval
           hours == plan.hours * Hour
<1>1. span >= hours /\ hours >= need
  BY DossierWindow DEF ValidatePlan
<1>2. TypeOK /\ plan # Nil /\ baseline # Nil
  BY DEF DossierInv, CaseInv, InForce, RecordOfState, UnderReview
<1>3. hours \in Int
  <2>1. plan.hours \in Int /\ Hour \in Int
    BY <1>2, HourAssumption DEF TypeOK, ControlPlan
  <2> QED
    BY <2>1
<1>4. need \in Int
  <2>1. baseline.minCount \in Int /\ baseline.interval \in Int
    BY <1>2 DEF TypeOK, BaselineProfile
  <2> QED
    BY <2>1
<1>5. span \in Int
  <2> DEFINE effective == EffectiveObservations(observations)
  <2>1. observations \in Seq(Observation)
    BY <1>2 DEF TypeOK
  <2>2. DOMAIN observations = 1 .. Len(observations)
    BY <2>1, LenProperties
  <2>3. \A i \in DOMAIN observations : observations[i].at \in Int
    <3>1. \A i \in DOMAIN observations : observations[i] \in Observation
      BY <2>1, <2>2, ElementOfSeq
    <3> QED
      BY <3>1 DEF Observation
  <2>4. effective # {}
    <3>1. Cardinality(effective) >= baseline.minCount
      BY DossierWindow
    <3>2. ValidateBaseline(baseline)
      BY <1>2 DEF DossierInv, InForce
    <3>3. baseline.minCount \in Nat /\ 1 <= baseline.minCount
      BY <1>2, <3>2 DEF ValidateBaseline, TypeOK, BaselineProfile
    <3>4. Cardinality({}) = 0
      BY FS_EmptySet
    <3> HIDE DEF effective
    <3>5. CASE effective = {}
      BY <3>1, <3>3, <3>4, <3>5
    <3> QED
      BY <3>5
  <2>5. effective \in SUBSET (1 .. Len(observations)) /\ Len(observations) \in Nat
    BY <2>1, <2>2, LenProperties DEF EffectiveObservations
  <2> HIDE DEF effective
  <2>6. Max(effective) \in DOMAIN observations /\ Min(effective) \in DOMAIN observations
    BY <2>2, <2>4, <2>5, FirstAndLast
  <2> QED
    BY <2>3, <2>6 DEF Span, effective
<1> HIDE DEF span, need, hours
<1> QED
  BY <1>1, <1>3, <1>4, <1>5 DEF span, need

(* As long as no plan overflows, its effective samples span all sampling   *)
(* intervals that the baseline asks for, the legacy profile apart.         *)
THEOREM ReviewedIntervalsCovered == PlansFit => (Spec => []IntervalsCovered)
<1> SUFFICES ASSUME PlansFit PROVE Spec => []IntervalsCovered
  OBVIOUS
<1>1. DossierInv => IntervalsCovered
  BY DossierIntervals
<1> QED
  BY DossierKeepsInv, <1>1, PTL

-----------------------------------------------------------------------------
(* The record. *)

LEMMA ExtendsByPositions ==
  ASSUME NEW S, NEW old \in Seq(S), NEW new \in Seq(S), Len(old) <= Len(new),
         \A i \in 1 .. Len(old) : new[i] = old[i]
  PROVE  Extends(old, new)
<1> DEFINE front == SubSeq(new, 1, Len(old))
<1>1. Len(old) \in Nat /\ Len(new) \in Nat /\ 1 .. Len(old) \subseteq 1 .. Len(new)
  BY LenProperties
<1>2. /\ front \in Seq(S) /\ Len(front) = Len(old)
      /\ \A i \in 1 .. Len(old) : front[i] = new[i]
  BY <1>1, SubSeqProperties
<1> HIDE DEF front
<1>3. front = old
  BY <1>2, SeqEqual
<1> QED
  BY <1>3 DEF Extends, front

LEMMA ExtendsItself ==
  ASSUME NEW S, NEW s \in Seq(S)
  PROVE  Extends(s, s)
BY ExtendsByPositions, LenProperties

LEMMA ExtendsByOne ==
  ASSUME NEW S, NEW s \in Seq(S), NEW e \in S
  PROVE  Extends(s, Append(s, e))
<1>1. /\ Append(s, e) \in Seq(S) /\ Len(Append(s, e)) = Len(s) + 1 /\ Len(s) \in Nat
      /\ \A i \in 1 .. Len(s) : Append(s, e)[i] = s[i]
  BY AppendIsSeq
<1> DEFINE new == Append(s, e)
<1>2. /\ new \in Seq(S) /\ Len(s) <= Len(new)
      /\ \A i \in 1 .. Len(s) : new[i] = s[i]
  BY <1>1
<1> HIDE DEF new
<1>3. Extends(s, new)
  BY <1>2, ExtendsByPositions
<1> QED
  BY <1>3 DEF new

LEMMA RecordExtendsItself ==
  ASSUME TypeOK
  PROVE  /\ Extends(baselineHistory, baselineHistory) /\ Extends(revocations, revocations)
         /\ Extends(planHistory, planHistory) /\ Extends(observations, observations)
         /\ Extends(reviews, reviews)
<1>1. /\ baselineHistory \in Seq(BaselineProfile) /\ revocations \in Seq(Nat)
      /\ planHistory \in Seq(PlanRevision) /\ observations \in Seq(Observation)
      /\ reviews \in Seq(ReviewDecision)
  BY DEF TypeOK
<1>2. Extends(baselineHistory, baselineHistory) /\ Extends(revocations, revocations)
  BY <1>1, ExtendsItself
<1>3. Extends(planHistory, planHistory) /\ Extends(observations, observations)
  BY <1>1, ExtendsItself
<1>4. Extends(reviews, reviews)
  BY <1>1, ExtendsItself
<1> QED
  BY <1>2, <1>3, <1>4

(* A request adds to the log.                                              *)
LEMMA LogExtends ==
  ASSUME TypeOK, NEW S \in SUBSET Nat, NEW batch \in Requests(S)
  PROVE  Extends(observations, LogWith(batch))
<1> DEFINE log == LogWith(batch)
<1>1. /\ log \in Seq(Observation) /\ Len(log) = Len(observations) + Len(batch)
      /\ Len(observations) \in Nat /\ Len(batch) \in Nat
      /\ \A i \in 1 .. Len(observations) : log[i] = observations[i]
  BY LogWithExtends
<1>2. observations \in Seq(Observation)
  BY DEF TypeOK
<1> HIDE DEF log
<1>3. Extends(observations, log)
  BY <1>1, <1>2, ExtendsByPositions
<1> QED
  BY <1>3 DEF log

LEMMA RecordGrowsStep ==
  ASSUME DossierInv, Next
  PROVE  RecordGrows
<1>0. CaseInv /\ TypeOK /\ RevisionsCount
  BY DEF DossierInv, CaseInv
<1>00. /\ Extends(baselineHistory, baselineHistory) /\ Extends(revocations, revocations)
       /\ Extends(planHistory, planHistory) /\ Extends(observations, observations)
       /\ Extends(reviews, reviews)
  BY <1>0, RecordExtendsItself
<1> USE DEF baselineVars, planVars, trialVars, reviewVars, RecordGrows
<1>1. ASSUME deviations' = deviations PROVE DeviationsStay
  BY <1>1 DEF DeviationsStay
<1>2. ASSUME NEW id \in Identities, ReviseIdentity(id)
      PROVE  RecordGrows
  BY <1>00, <1>1, <1>2 DEF ReviseIdentity
<1>3. ASSUME NEW b \in BaselineInputs, SetBaseline(b)
      PROVE  RecordGrows
  <2>1. /\ baselineHistory' = Append(baselineHistory, baseline')
        /\ state' = "BaselineLocked"
    BY <1>3 DEF SetBaseline
  <2>2. baseline' \in BaselineProfile /\ baselineHistory \in Seq(BaselineProfile)
    <3>1. TypeOK' /\ RecordOfState'
      BY <1>0, CaseInvStep DEF CaseInv
    <3> QED
      BY <1>0, <2>1, <3>1 DEF TypeOK, RecordOfState
  <2>3. Extends(baselineHistory, baselineHistory')
    BY <2>1, <2>2, ExtendsByOne
  <2> QED
    BY <1>00, <1>1, <1>3, <2>3 DEF SetBaseline
<1>4. CASE RevokeBaseline
  <2>1. /\ revocations' = Append(revocations, baseline.revision) /\ baseline # Nil
    BY <1>4 DEF RevokeBaseline
  <2>2. baseline.revision \in Nat /\ revocations \in Seq(Nat)
    BY <1>0, <2>1 DEF TypeOK, BaselineProfile
  <2>3. Extends(revocations, revocations')
    BY <2>1, <2>2, ExtendsByOne
  <2> QED
    BY <1>00, <1>1, <1>4, <2>3 DEF RevokeBaseline
<1>5. ASSUME NEW p \in PlanInputs, SubmitPlan(p) \/ RevisePlan(p)
      PROVE  RecordGrows
  <2> DEFINE item == [revision |-> NextRevision(planHistory), plan |-> plan']
  <2>1. RecordPlan(p) /\ planHistory' = Append(planHistory, item)
    BY <1>5 DEF SubmitPlan, RevisePlan, RecordPlan
  <2>2. planHistory \in Seq(PlanRevision) /\ item \in PlanRevision
    <3>1. planHistory \in Seq(PlanRevision) /\ plan' \in ControlPlan
      BY <1>0, <2>1, RecordPlanType DEF TypeOK
    <3>2. NextRevision(planHistory) \in Nat
      BY <1>0, <3>1, NextRevisionIsNext, LenProperties DEF RevisionsCount
    <3> QED
      BY <3>1, <3>2 DEF PlanRevision
  <2> HIDE DEF item
  <2>3. Extends(planHistory, planHistory')
    BY <2>1, <2>2, ExtendsByOne
  <2> QED
    BY <1>00, <1>1, <1>5, <2>3 DEF SubmitPlan, RevisePlan
<1>6. CASE StartTrial
  BY <1>00, <1>1, <1>6 DEF StartTrial
<1>7. ASSUME NEW batch \in Requests({0}), AddObservations(batch)
      PROVE  RecordGrows
  <2>1. Extends(observations, LogWith(batch))
    BY <1>0, LogExtends
  <2>2. DeviationsStay
    BY <1>7 DEF AddObservations, DeviationsWith, DeviationsStay
  <2>3. /\ observations' = LogWith(batch)
        /\ UNCHANGED <<baselineHistory, revocations, planHistory, reviews, permit>>
    BY <1>7 DEF AddObservations
  <2> QED
    BY <1>00, <2>1, <2>2, <2>3
<1>8. ASSUME NEW targets \in RemediationTargets,
             NEW retests \in Requests({d.obs : d \in targets}),
             RemediateDeviations(targets, retests)
      PROVE  RecordGrows
  <2> DEFINE log == LogWith(retests)
             devs == DeviationsWith(log)
             passed == Passed(targets, log, devs)
  <2>1. Extends(observations, log)
    BY <1>0, TargetsType, LogExtends
  <2>2. /\ observations' = log /\ deviations' = Resolve(devs, passed)
        /\ UNCHANGED <<baselineHistory, revocations, planHistory, reviews, permit>>
        /\ \A d \in targets : CanRemediate(d)
    BY <1>8 DEF RemediateDeviations
  <2>3. deviations \subseteq devs /\ \A d \in passed : d.status = "open"
    BY <2>2 DEF DeviationsWith, Passed, CanRemediate, OpenDeviations
  <2> HIDE DEF log, devs, passed
  <2>4. DeviationsStay
    BY <2>2, <2>3 DEF DeviationsStay, Resolve
  <2> QED
    BY <1>00, <2>1, <2>2, <2>4
<1>9. CASE FetchPackage
  BY <1>00, <1>1, <1>9 DEF FetchPackage
<1>10. ASSUME NEW r \in People, NEW d \in {"approve", "return"}, Review(r, d)
       PROVE  RecordGrows
  <2> DEFINE item == [reviewer |-> r, decision |-> d,
                      reviewedVersion |-> held.version, fingerprint |-> held]
  <2>1. reviews' = Append(reviews, item) /\ held # Nil
    BY <1>10 DEF Review, PackageCurrent
  <2>2. reviews \in Seq(ReviewDecision) /\ item \in ReviewDecision
    BY <1>0, <1>10, <2>1 DEF TypeOK, ReviewDecision, ReviewPackage
  <2> HIDE DEF item
  <2>3. Extends(reviews, reviews')
    BY <2>1, <2>2, ExtendsByOne
  <2> QED
    BY <1>00, <1>1, <1>10, <2>3 DEF Review
<1>11. CASE Activate
  <2>1. permit = Nil
    BY <1>11 DEF Activate, DossierInv, ApprovalStands
  <2> QED
    BY <1>00, <1>1, <1>11, <2>1 DEF Activate
<1>12. CASE Tick
  BY <1>00, <1>1, <1>12 DEF Tick
<1> QED
  BY <1>2, <1>3, <1>4, <1>5, <1>6, <1>7, <1>8, <1>9, <1>10, <1>11, <1>12 DEF Next

(* Nothing on record is rewritten, reopened or replaced.                   *)
THEOREM RecordKept == Spec => RecordOnlyGrows
<1>1. DossierInv /\ [Next]_vars => [RecordGrows]_vars
  BY RecordGrowsStep
<1> QED
  BY DossierKeepsInv, <1>1, PTL DEF Spec, RecordOnlyGrows
=============================================================================
