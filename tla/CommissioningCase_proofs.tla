---------------------- MODULE CommissioningCase_proofs ----------------------
(***************************************************************************)
(* Proofs about CommissioningCase for every value of its constants.        *)
(***************************************************************************)
EXTENDS CommissioningCase, SequenceTheorems, TLAPS

LEMMA MaxIsGreatest ==
  ASSUME NEW S \in SUBSET Int, NEW m \in S, \A y \in S : m >= y
  PROVE  Max(S) = m
<1>1. Max(S) \in S /\ \A y \in S : Max(S) >= y
  BY DEF Max
<1>2. Max(S) >= m /\ m >= Max(S) /\ Max(S) \in Int
  BY <1>1
<1> QED
  BY <1>2

(* When revisions are positions, the greatest is the length. *)
LEMMA MaxOfPositions ==
  ASSUME NEW S, NEW history \in Seq(S), history # <<>>,
         \A i \in DOMAIN history : history[i].revision = i
  PROVE  Max({history[i].revision : i \in DOMAIN history}) = Len(history)
<1>1. Len(history) \in Nat \ {0} /\ DOMAIN history = 1 .. Len(history)
  OBVIOUS
<1>2. {history[i].revision : i \in DOMAIN history} = 1 .. Len(history)
  BY <1>1
<1>3. Max(1 .. Len(history)) = Len(history)
  <2>1. /\ 1 .. Len(history) \in SUBSET Int
        /\ Len(history) \in 1 .. Len(history)
        /\ \A y \in 1 .. Len(history) : Len(history) >= y
    BY <1>1
  <2> QED
    BY <2>1, MaxIsGreatest
<1> QED
  BY <1>2, <1>3

(* The next revision is the next position (nextBaselineRevision and        *)
(* nextPlanRevision).                                                      *)
LEMMA NextRevisionIsNext ==
  ASSUME NEW S, NEW history \in Seq(S),
         \A i \in DOMAIN history : history[i].revision = i
  PROVE  NextRevision(history) = Len(history) + 1
<1>1. CASE history = <<>>
  BY <1>1 DEF NextRevision
<1>2. CASE history # <<>>
  <2>1. Max({history[i].revision : i \in DOMAIN history}) = Len(history)
    BY <1>2, MaxOfPositions
  <2>2. Len(history) \in Nat
    OBVIOUS
  <2> QED
    BY <1>2, <2>1, <2>2 DEF NextRevision
<1> QED
  BY <1>1, <1>2

(* The package shows the plan submitted last (BuildReviewPackage).         *)
LEMMA LatestPlanIsLast ==
  ASSUME TypeOK, RevisionsCount, planHistory # <<>>
  PROVE  LatestPlan = planHistory[Len(planHistory)]
<1>1. planHistory \in Seq(PlanRevision)
  BY DEF TypeOK
<1>2. \A i \in DOMAIN planHistory : planHistory[i].revision = i
  BY DEF RevisionsCount
<1>3. Max({planHistory[i].revision : i \in DOMAIN planHistory}) = Len(planHistory)
  BY <1>1, <1>2, MaxOfPositions
<1>4. Len(planHistory) \in DOMAIN planHistory
  BY <1>1
<1>5. \A i \in DOMAIN planHistory :
        planHistory[i].revision = Len(planHistory) <=> i = Len(planHistory)
  BY <1>2
<1>6. (CHOOSE i \in DOMAIN planHistory : planHistory[i].revision = Len(planHistory))
        = Len(planHistory)
  BY <1>4, <1>5
<1> QED
  BY <1>3, <1>6 DEF LatestPlan

(* What a request does to the log (appendObservation): the old part stays, *)
(* the new part is the request with its times filled in.                   *)
LEMMA LogWithExtends ==
  ASSUME TypeOK, NEW S \in SUBSET Nat, NEW batch \in Requests(S)
  PROVE  /\ LogWith(batch) \in Seq(Observation)
         /\ Len(LogWith(batch)) = Len(observations) + Len(batch)
         /\ Len(observations) \in Nat /\ Len(batch) \in Nat
         /\ \A i \in 1 .. Len(observations) : LogWith(batch)[i] = observations[i]
         /\ \A i \in 1 .. Len(batch) :
              /\ LogWith(batch)[Len(observations) + i] = Prepared(batch[i])
              /\ Prepared(batch[i]).supersedes = batch[i].supersedes
<1>1. observations \in Seq(Observation) /\ Len(observations) \in Nat
  BY LenProperties DEF TypeOK
<1>2. Times \in SUBSET Nat
  <2>1. ASSUME observations # <<>>
        PROVE  observations[Len(observations)].at \in Nat
    <3>1. Len(observations) \in 1 .. Len(observations)
      BY <1>1, <2>1, EmptySeq
    <3>2. observations[Len(observations)] \in Observation
      BY <1>1, <3>1, ElementOfSeq
    <3> QED
      BY <3>2 DEF Observation
  <2>2. now \in Nat /\ FutureTolerance \in Nat
    BY BoundAssumption DEF TypeOK
  <2> QED
    BY <2>1, <2>2 DEF Times
<1> DEFINE Item == [at : Times, reading : Readings, supersedes : S]
<1>3. PICK n \in 1 .. MaxBatch : batch \in [1 .. n -> Item]
  BY DEF Requests
<1>4. n \in Nat
  BY <1>3, BoundAssumption
<1>5. batch \in Seq(Item) /\ Len(batch) = n
  <2> HIDE DEF Item
  <2>1. batch \in Seq(Item)
    BY <1>3, <1>4, SeqDef
  <2>2. DOMAIN batch = 1 .. Len(batch) /\ Len(batch) \in Nat
    BY <2>1, LenProperties
  <2> QED
    BY <1>3, <1>4, <2>1, <2>2
<1>6. ASSUME NEW i \in 1 .. n
      PROVE  Prepared(batch[i]) \in Observation
             /\ Prepared(batch[i]).supersedes = batch[i].supersedes
  <2>1. batch[i] \in Item
    BY <1>3
  <2>2. now \in Nat /\ Readings \subseteq Reading
    BY InputAssumption DEF TypeOK
  <2> QED
    BY <1>2, <2>1, <2>2 DEF Prepared, Observation
<1> DEFINE new == [i \in 1 .. Len(batch) |-> Prepared(batch[i])]
<1>7. new \in Seq(Observation) /\ Len(new) = n
  <2>1. new \in [1 .. n -> Observation]
    BY <1>5, <1>6
  <2>2. new \in Seq(Observation)
    BY <1>4, <2>1, SeqDef
  <2> HIDE DEF new
  <2> QED
    BY <1>4, <2>1, <2>2, LenProperties
<1>8. LogWith(batch) = observations \o new
  BY DEF LogWith
<1>9. \A i \in 1 .. n : new[i] = Prepared(batch[i])
  BY <1>5
<1> HIDE DEF new
<1>10. /\ LogWith(batch) \in Seq(Observation)
       /\ Len(LogWith(batch)) = Len(observations) + n
       /\ \A i \in 1 .. Len(observations) + n :
            LogWith(batch)[i] = IF i <= Len(observations) THEN observations[i]
                                ELSE new[i - Len(observations)]
  <2>1. /\ observations \o new \in Seq(Observation)
        /\ Len(observations \o new) = Len(observations) + Len(new)
        /\ \A i \in 1 .. Len(observations) + Len(new) :
             (observations \o new)[i] =
               IF i <= Len(observations) THEN observations[i]
               ELSE new[i - Len(observations)]
    BY <1>1, <1>7, ConcatProperties, Zenon
  <2> QED
    BY <1>7, <1>8, <2>1
<1>11. \A i \in 1 .. Len(observations) : LogWith(batch)[i] = observations[i]
  BY <1>1, <1>4, <1>10
<1>12. \A i \in 1 .. n : LogWith(batch)[Len(observations) + i] = Prepared(batch[i])
  BY <1>1, <1>4, <1>9, <1>10
<1> QED
  BY <1>1, <1>4, <1>5, <1>6, <1>10, <1>11, <1>12

-----------------------------------------------------------------------------
(* The types. *)

(* A log that grows by one item is a log. *)
LEMMA AppendIsSeq ==
  ASSUME NEW S, NEW s \in Seq(S), NEW e \in S
  PROVE  /\ Append(s, e) \in Seq(S) /\ Len(Append(s, e)) = Len(s) + 1
         /\ Append(s, e)[Len(s) + 1] = e
         /\ \A i \in 1 .. Len(s) : Append(s, e)[i] = s[i]
         /\ Append(s, e) # <<>> /\ Len(s) \in Nat
         /\ DOMAIN Append(s, e) = 1 .. Len(s) + 1 /\ DOMAIN s = 1 .. Len(s)
  BY AppendProperties, LenProperties, EmptySeq

(* New deviations are deviations, about observations of the log.           *)
LEMMA DeviationsWithType ==
  ASSUME TypeOK, NEW log \in Seq(Observation)
  PROVE  DeviationsWith(log) \in SUBSET Deviation
<1>1. \A k \in NewIn(log) : k \in Nat
  BY LenProperties DEF NewIn, TypeOK
<1>2. \A k \in NewIn(log) : NewRules(log, k) \subseteq RuleCodes
  BY DEF NewRules, BrokenRules, EvaluateObservation, RuleCodes
<1>3. \A k \in NewIn(log) : \A r \in NewRules(log, k) :
        [rule |-> r, obs |-> k, status |-> "open", resolvedAt |-> 0] \in Deviation
  BY <1>1, <1>2 DEF Deviation
<1> QED
  BY <1>3 DEF DeviationsWith, TypeOK

LEMMA ResolveType ==
  ASSUME TypeOK, NEW devs \in SUBSET Deviation, NEW passed \in SUBSET Deviation
  PROVE  Resolve(devs, passed) \in SUBSET Deviation
<1>1. \A d \in passed :
        [d EXCEPT !.status = "resolved", !.resolvedAt = now] \in Deviation
  BY DEF Deviation, TypeOK
<1> QED
  BY <1>1 DEF Resolve

LEMMA PackageType ==
  ASSUME TypeOK, RevisionsCount
  PROVE  BuildReviewPackage \in ReviewPackage
<1>1. LatestPlan \in PlanRevision \cup {Nil}
  <2>1. CASE planHistory = <<>>
    BY <2>1 DEF LatestPlan
  <2>2. CASE planHistory # <<>>
    <3>1. Len(planHistory) \in 1 .. Len(planHistory)
      BY <2>2, EmptySeq DEF TypeOK
    <3>2. planHistory[Len(planHistory)] \in PlanRevision
      BY <3>1, ElementOfSeq DEF TypeOK
    <3> QED
      BY <2>2, <3>2, LatestPlanIsLast
  <2> QED
    BY <2>1, <2>2
<1>2. \A i \in DOMAIN observations : /\ i \in Nat /\ observations[i] \in Observation
                                    /\ observations[i].supersedes \in Nat
  <2>1. DOMAIN observations = 1 .. Len(observations) /\ Len(observations) \in Nat
    BY LenProperties DEF TypeOK
  <2>2. \A i \in DOMAIN observations : observations[i] \in Observation
    BY <2>1, ElementOfSeq DEF TypeOK
  <2> QED
    BY <2>1, <2>2 DEF Observation
<1>3. {observations[i] : i \in EffectiveObservations(observations)} \in SUBSET Observation
  BY <1>2 DEF EffectiveObservations
<1>4. {<<i, observations[i].supersedes>> :
          i \in {j \in DOMAIN observations : observations[j].supersedes # 0}}
        \in SUBSET (Nat \X Nat)
  BY <1>2
<1> QED
  BY <1>1, <1>3, <1>4 DEF BuildReviewPackage, ReviewPackage, TypeOK

(* What the requests of Next carry. *)
LEMMA TargetsType ==
  ASSUME TypeOK, NEW targets \in RemediationTargets
  PROVE  targets \in SUBSET Deviation /\ {d.obs : d \in targets} \in SUBSET Nat
BY DEF RemediationTargets, OpenDeviations, TypeOK, Deviation

TypeInv == TypeOK /\ RevisionsCount

LEMMA TypeInit == Init => TypeInv
BY EmptySeq DEF Init, TypeInv, TypeOK, RevisionsCount, States

(* Both plan operations keep the types and the count of the plans.         *)
LEMMA RecordPlanType ==
  ASSUME TypeOK, RevisionsCount, NEW p \in PlanInputs, RecordPlan(p)
  PROVE  /\ plan' \in ControlPlan
         /\ planHistory' \in Seq(PlanRevision)
         /\ \A i \in DOMAIN planHistory' : planHistory'[i].revision = i
<1> DEFINE n == Len(planHistory) + 1
           item == [revision |-> n, plan |-> plan']
<1>1. planHistory \in Seq(PlanRevision) /\ Len(planHistory) \in Nat
  BY LenProperties DEF TypeOK
<1>2. NextRevision(planHistory) = n
  BY <1>1, NextRevisionIsNext DEF RevisionsCount
<1>3. plan' = [p EXCEPT !.planId = n] /\ planHistory' = Append(planHistory, item)
  BY <1>2 DEF RecordPlan
<1>4. plan' \in ControlPlan
  BY <1>1, <1>3, InputAssumption DEF ControlPlan
<1>5. item \in PlanRevision
  BY <1>1, <1>4 DEF PlanRevision
<1>6. item.revision = n
  OBVIOUS
<1> HIDE DEF item
<1>7. planHistory' \in Seq(PlanRevision)
      /\ DOMAIN planHistory' = 1 .. n /\ planHistory'[n] = item
      /\ \A i \in 1 .. Len(planHistory) : planHistory'[i] = planHistory[i]
      /\ DOMAIN planHistory = 1 .. Len(planHistory)
  BY <1>1, <1>3, <1>5, AppendIsSeq
<1> QED
  BY <1>1, <1>4, <1>6, <1>7 DEF RevisionsCount

LEMMA TypeStep ==
  ASSUME TypeOK, RevisionsCount, [Next]_vars
  PROVE  TypeOK' /\ RevisionsCount'
<1> USE DEF touch, baselineVars, planVars, trialVars, reviewVars
<1>1. ASSUME NEW id \in Identities, ReviseIdentity(id)
      PROVE  TypeOK' /\ RevisionsCount'
  BY <1>1 DEF ReviseIdentity, TypeOK, RevisionsCount
<1>2. ASSUME NEW b \in BaselineInputs, SetBaseline(b)
      PROVE  TypeOK' /\ RevisionsCount'
  <2> DEFINE n == Len(baselineHistory) + 1
  <2>1. baselineHistory \in Seq(BaselineProfile) /\ Len(baselineHistory) \in Nat
    BY LenProperties DEF TypeOK
  <2>2. NextRevision(baselineHistory) = n
    BY <2>1, NextRevisionIsNext DEF RevisionsCount
  <2>3. baseline' = [b EXCEPT !.revision = n] /\ baselineHistory' = Append(baselineHistory, baseline')
    BY <1>2, <2>2 DEF SetBaseline
  <2>4. baseline' \in BaselineProfile /\ baseline'.revision = n
    <3>1. b \in BaselineProfile /\ n \in Nat
      BY <2>1, InputAssumption
    <3> HIDE DEF n
    <3> QED
      BY <2>3, <3>1 DEF BaselineProfile
  <2>5. baselineHistory' \in Seq(BaselineProfile)
        /\ DOMAIN baselineHistory' = 1 .. n /\ baselineHistory'[n] = baseline'
        /\ \A i \in 1 .. Len(baselineHistory) : baselineHistory'[i] = baselineHistory[i]
        /\ DOMAIN baselineHistory = 1 .. Len(baselineHistory)
    BY <2>1, <2>3, <2>4, AppendIsSeq
  <2>6. RevisionsCount'
    BY <1>2, <2>1, <2>4, <2>5 DEF RevisionsCount, SetBaseline
  <2>7. TypeOK'
    BY <1>2, <2>4, <2>5 DEF TypeOK, SetBaseline, States
  <2> QED
    BY <2>6, <2>7
<1>3. ASSUME RevokeBaseline
      PROVE  TypeOK' /\ RevisionsCount'
  <2>1. baseline.revision \in Nat
    BY <1>3 DEF RevokeBaseline, TypeOK, BaselineProfile
  <2>2. revocations' \in Seq(Nat)
    BY <1>3, <2>1, AppendIsSeq DEF RevokeBaseline, TypeOK
  <2> QED
    BY <1>3, <2>2 DEF RevokeBaseline, TypeOK, RevisionsCount, States
<1>4. ASSUME NEW p \in PlanInputs, SubmitPlan(p) \/ RevisePlan(p)
      PROVE  TypeOK' /\ RevisionsCount'
  <2>1. RecordPlan(p)
    BY <1>4 DEF SubmitPlan, RevisePlan
  <2>2. plan' \in ControlPlan /\ planHistory' \in Seq(PlanRevision)
        /\ \A i \in DOMAIN planHistory' : planHistory'[i].revision = i
    BY <2>1, RecordPlanType
  <2> QED
    BY <1>4, <2>2 DEF SubmitPlan, RevisePlan, TypeOK, RevisionsCount, States
<1>5. ASSUME StartTrial
      PROVE  TypeOK' /\ RevisionsCount'
  BY <1>5 DEF StartTrial, TypeOK, RevisionsCount, States
<1>6. ASSUME NEW batch \in Requests({0}), AddObservations(batch)
      PROVE  TypeOK' /\ RevisionsCount'
  <2>1. LogWith(batch) \in Seq(Observation)
    BY LogWithExtends
  <2>2. DeviationsWith(LogWith(batch)) \in SUBSET Deviation
    BY <2>1, DeviationsWithType
  <2>3. state' \in States
    BY <1>6 DEF AddObservations, evaluate, States
  <2> QED
    BY <1>6, <2>1, <2>2, <2>3 DEF AddObservations, TypeOK, RevisionsCount
<1>7. ASSUME NEW targets \in RemediationTargets,
             NEW retests \in Requests({d.obs : d \in targets}),
             RemediateDeviations(targets, retests)
      PROVE  TypeOK' /\ RevisionsCount'
  <2> DEFINE log == LogWith(retests)
             devs == DeviationsWith(log)
             passed == Passed(targets, log, devs)
  <2>1. targets \in SUBSET Deviation /\ {d.obs : d \in targets} \in SUBSET Nat
    BY TargetsType
  <2>2. log \in Seq(Observation)
    BY <2>1, LogWithExtends
  <2>3. devs \in SUBSET Deviation
    BY <2>2, DeviationsWithType
  <2>4. passed \in SUBSET Deviation
    BY <2>1 DEF Passed
  <2>5. Resolve(devs, passed) \in SUBSET Deviation
    BY <2>3, <2>4, ResolveType
  <2>6. state' \in States
    BY <1>7 DEF RemediateDeviations, evaluate, States
  <2> QED
    BY <1>7, <2>2, <2>5, <2>6 DEF RemediateDeviations, TypeOK, RevisionsCount
<1>8. ASSUME FetchPackage
      PROVE  TypeOK' /\ RevisionsCount'
  BY <1>8, PackageType DEF FetchPackage, TypeOK, RevisionsCount
<1>9. ASSUME NEW r \in People, NEW d \in {"approve", "return"}, Review(r, d)
      PROVE  TypeOK' /\ RevisionsCount'
  <2> DEFINE item == [reviewer |-> r, decision |-> d,
                      reviewedVersion |-> held.version, fingerprint |-> held]
  <2>1. held \in ReviewPackage /\ held.version \in Nat
    BY <1>9 DEF Review, PackageCurrent, TypeOK, ReviewPackage
  <2>2. item \in ReviewDecision
    BY <2>1 DEF ReviewDecision
  <2>3. reviews' \in Seq(ReviewDecision)
    BY <1>9, <2>2, AppendIsSeq DEF Review, TypeOK
  <2> QED
    BY <1>9, <2>3 DEF Review, TypeOK, RevisionsCount, States
<1>10. ASSUME Activate
       PROVE  TypeOK' /\ RevisionsCount'
  <2>1. permit' \in ActivationPermit
    BY <1>10, BoundAssumption DEF Activate, TypeOK, ActivationPermit
  <2> QED
    BY <1>10, <2>1 DEF Activate, TypeOK, RevisionsCount, States
<1>11. ASSUME Tick
       PROVE  TypeOK' /\ RevisionsCount'
  BY <1>11 DEF Tick, TypeOK, RevisionsCount
<1>12. ASSUME UNCHANGED vars
       PROVE  TypeOK' /\ RevisionsCount'
  BY <1>12 DEF vars, TypeOK, RevisionsCount
<1> QED
  BY <1>1, <1>2, <1>3, <1>4, <1>5, <1>6, <1>7, <1>8, <1>9, <1>10, <1>11, <1>12
  DEF Next

(* Every case the code can reach is well-formed, and its revision counters *)
(* never skip or repeat a number.                                          *)
THEOREM TypeCorrect == Spec => [](TypeOK /\ RevisionsCount)
<1>1. TypeInv /\ [Next]_vars => TypeInv'
  BY TypeStep DEF TypeInv
<1>2. TypeInv => TypeOK /\ RevisionsCount
  BY DEF TypeInv
<1> QED
  BY TypeInit, <1>1, <1>2, PTL DEF Spec

-----------------------------------------------------------------------------
(* The safety of the evidence.                                             *)

(* What a request leaves of the record, before anything is resolved:       *)
(* every fault of the longer log has its deviation, and what was replaced  *)
(* is still replaced (appendObservation).                                  *)
LEMMA EvidenceRecorded ==
  ASSUME CaseInv, NEW S \in SUBSET Nat, NEW batch \in Requests(S)
  PROVE  LET log == LogWith(batch)
             devs == DeviationsWith(log)
         IN  /\ \A i \in DOMAIN log : \A r \in EvaluateObservation(log[i], baseline) :
                  \E d \in devs : d.rule = r /\ d.obs = i
             /\ \A d \in devs :
                  d.status = "resolved" => IsObservationSuperseded(log, d.obs)
<1> DEFINE log == LogWith(batch)
           devs == DeviationsWith(log)
           old == 1 .. Len(observations)
<1>1. /\ log \in Seq(Observation) /\ Len(log) \in Nat
      /\ Len(observations) \in Nat /\ Len(log) >= Len(observations)
      /\ \A i \in old : log[i] = observations[i]
  BY LogWithExtends DEF CaseInv
<1>2. DOMAIN log = 1 .. Len(log) /\ DOMAIN observations = old
  BY <1>1, LenProperties DEF CaseInv, TypeOK
<1>3. deviations \subseteq devs
  BY DEF DeviationsWith
<1> HIDE DEF log
<1>4. ASSUME NEW i \in DOMAIN log, NEW r \in EvaluateObservation(log[i], baseline)
      PROVE  \E d \in devs : d.rule = r /\ d.obs = i
  <2>1. CASE i \in old
    <3>1. \E d \in deviations : d.rule = r /\ d.obs = i
      BY <1>1, <1>2, <1>4, <2>1 DEF CaseInv, FaultsRecorded
    <3> QED
      BY <1>3, <3>1
  <2>2. CASE i \notin old
    <3>1. i \in NewIn(log)
      BY <1>1, <1>2, <1>4, <2>2 DEF NewIn
    <3>2. r \in BrokenRules(log, i, baseline)
      BY <1>4 DEF BrokenRules
    <3>3. CASE \E d \in deviations : d.rule = r /\ d.obs = i
      BY <1>3, <3>3
    <3>4. CASE ~ \E d \in deviations : d.rule = r /\ d.obs = i
      <4>1. r \in NewRules(log, i)
        BY <3>2, <3>4 DEF NewRules
      <4> DEFINE e == [rule |-> r, obs |-> i, status |-> "open", resolvedAt |-> 0]
      <4>2. e \in devs
        BY <3>1, <4>1 DEF DeviationsWith
      <4>3. e.rule = r /\ e.obs = i
        OBVIOUS
      <4> QED
        BY <4>2, <4>3
    <3> QED
      BY <3>3, <3>4
  <2> QED
    BY <2>1, <2>2
<1>5. ASSUME NEW d \in devs, d.status = "resolved"
      PROVE  IsObservationSuperseded(log, d.obs)
  <2>1. d \in deviations
    BY <1>5 DEF DeviationsWith
  <2>2. PICK j \in DOMAIN observations : observations[j].supersedes = d.obs
    BY <1>5, <2>1 DEF CaseInv, ResolvedReplaced, IsObservationSuperseded
  <2>3. j \in DOMAIN log /\ log[j] = observations[j]
    BY <1>1, <1>2
  <2> QED
    BY <2>2, <2>3 DEF IsObservationSuperseded
<1> QED
  BY <1>4, <1>5 DEF log

(* The state is computed from the deviations as they are now (evaluate).   *)
LEMMA EvaluateSound ==
  ASSUME NEW log, NEW devs
  PROVE  /\ (\E d \in devs : d.status = "open") => evaluate(log, devs) = "NeedsRemediation"
         /\ evaluate(log, devs) \in {"NeedsRemediation", "AwaitingReview", "TrialRunning"}
BY DEF evaluate

CaseProgress == OpenOnlyInRemediation /\ RecordOfState /\ FaultsRecorded /\ ResolvedReplaced

LEMMA AddObservationsSafe ==
  ASSUME CaseInv, NEW batch \in Requests({0}), AddObservations(batch)
  PROVE  CaseProgress'
<1> DEFINE log == LogWith(batch)
           devs == DeviationsWith(log)
<1>1. /\ observations' = log /\ deviations' = devs
      /\ state' = evaluate(log, devs) /\ baseline' = baseline /\ baseline # Nil
  BY DEF AddObservations, baselineVars
<1>2. /\ \A i \in DOMAIN log : \A r \in EvaluateObservation(log[i], baseline) :
           \E d \in devs : d.rule = r /\ d.obs = i
      /\ \A d \in devs :
           d.status = "resolved" => IsObservationSuperseded(log, d.obs)
  BY EvidenceRecorded
<1>3. /\ (\E d \in devs : d.status = "open") => state' = "NeedsRemediation"
      /\ state' \in {"NeedsRemediation", "AwaitingReview", "TrialRunning"}
  BY <1>1, EvaluateSound
<1> HIDE DEF log, devs
<1>4. OpenOnlyInRemediation'
  BY <1>1, <1>3 DEF OpenOnlyInRemediation, OpenDeviations
<1>5. RecordOfState'
  BY <1>1, <1>3 DEF RecordOfState
<1>6. FaultsRecorded' /\ ResolvedReplaced'
  BY <1>1, <1>2 DEF FaultsRecorded, ResolvedReplaced
<1> QED
  BY <1>4, <1>5, <1>6 DEF CaseProgress

(* A remediation resolves only deviations whose observation it replaces,   *)
(* and keeps the deviation with its rule and its observation.              *)
LEMMA RemediationSafe ==
  ASSUME CaseInv, NEW targets \in RemediationTargets,
         NEW retests \in Requests({d.obs : d \in targets}),
         RemediateDeviations(targets, retests)
  PROVE  CaseProgress'
<1> DEFINE log == LogWith(retests)
           devs == DeviationsWith(log)
           passed == Passed(targets, log, devs)
           resolved == Resolve(devs, passed)
<1>1. /\ observations' = log /\ deviations' = resolved
      /\ state' = evaluate(log, resolved) /\ baseline' = baseline /\ baseline # Nil
  BY DEF RemediateDeviations, baselineVars
<1>2. targets \in SUBSET Deviation /\ {d.obs : d \in targets} \in SUBSET Nat
  BY TargetsType DEF CaseInv
<1>3. /\ \A i \in DOMAIN log : \A r \in EvaluateObservation(log[i], baseline) :
           \E d \in devs : d.rule = r /\ d.obs = i
      /\ \A d \in devs :
           d.status = "resolved" => IsObservationSuperseded(log, d.obs)
  BY <1>2, EvidenceRecorded
<1>4. /\ (\E d \in resolved : d.status = "open") => state' = "NeedsRemediation"
      /\ state' \in {"NeedsRemediation", "AwaitingReview", "TrialRunning"}
  BY <1>1, EvaluateSound
<1>5. passed \in SUBSET Deviation
      /\ \A d \in passed : IsObservationSuperseded(log, d.obs)
  <2>1. log \in Seq(Observation) /\ Len(observations) \in Nat
    BY <1>2, LogWithExtends DEF CaseInv
  <2>2. NewIn(log) \subseteq DOMAIN log
    BY <2>1, LenProperties DEF NewIn
  <2> QED
    BY <1>2, <2>2 DEF Passed, IsObservationSuperseded
<1>6. \A d \in passed :
        LET e == [d EXCEPT !.status = "resolved", !.resolvedAt = now]
        IN  e.rule = d.rule /\ e.obs = d.obs /\ e.status = "resolved"
  BY <1>5 DEF Deviation
<1> HIDE DEF log, devs, passed
<1>7. \A d \in devs : \E e \in resolved : e.rule = d.rule /\ e.obs = d.obs
  BY <1>6 DEF Resolve
<1>8. \A e \in resolved : \/ e \in devs
                          \/ \E d \in passed : e.obs = d.obs
  BY <1>6 DEF Resolve
<1> HIDE DEF resolved
<1>9. OpenOnlyInRemediation'
  BY <1>1, <1>4 DEF OpenOnlyInRemediation, OpenDeviations
<1>10. RecordOfState'
  BY <1>1, <1>4 DEF RecordOfState
<1>11. FaultsRecorded'
  <2>1. \A i \in DOMAIN log : \A r \in EvaluateObservation(log[i], baseline) :
           \E e \in resolved : e.rule = r /\ e.obs = i
    BY <1>3, <1>7
  <2> QED
    BY <1>1, <2>1 DEF FaultsRecorded
<1>12. ResolvedReplaced'
  <2>1. \A e \in resolved :
          e.status = "resolved" => IsObservationSuperseded(log, e.obs)
    BY <1>3, <1>5, <1>8
  <2> QED
    BY <1>1, <2>1 DEF ResolvedReplaced
<1> QED
  BY <1>9, <1>10, <1>11, <1>12 DEF CaseProgress

(* Steps that leave the evidence alone, and those before there is any.     *)
LEMMA OtherStepsSafe ==
  ASSUME CaseInv, [Next]_vars,
         \A batch \in Requests({0}) : ~ AddObservations(batch),
         \A targets \in RemediationTargets :
           \A retests \in Requests({d.obs : d \in targets}) :
             ~ RemediateDeviations(targets, retests)
  PROVE  CaseProgress'
<1> USE DEF touch, baselineVars, planVars, trialVars, reviewVars, CaseInv,
            CaseProgress, OpenOnlyInRemediation, OpenDeviations, RecordOfState,
            FaultsRecorded, ResolvedReplaced
<1>1. ASSUME NEW id \in Identities, ReviseIdentity(id)
      PROVE  CaseProgress'
  BY <1>1 DEF ReviseIdentity
<1>2. ASSUME NEW b \in BaselineInputs, SetBaseline(b)
      PROVE  CaseProgress'
  <2>1. [b EXCEPT !.revision = NextRevision(baselineHistory)] # Nil
    <3>1. baselineHistory \in Seq(BaselineProfile)
      BY DEF TypeOK
    <3>2. Len(baselineHistory) \in Nat
      BY <3>1, LenProperties
    <3>3. NextRevision(baselineHistory) = Len(baselineHistory) + 1
      BY <3>1, NextRevisionIsNext DEF RevisionsCount
    <3>4. NextRevision(baselineHistory) \in Nat
      BY <3>2, <3>3
    <3>5. [b EXCEPT !.revision = NextRevision(baselineHistory)] \in BaselineProfile
      BY <3>4, InputAssumption DEF BaselineProfile
    <3> QED
      BY <3>5, NilAssumption
  <2>2. observations' = <<>> /\ deviations' = {}
    BY <1>2 DEF SetBaseline
  <2> QED
    BY <1>2, <2>1, <2>2 DEF SetBaseline
<1>3. ASSUME RevokeBaseline
      PROVE  CaseProgress'
  <2>1. observations' = <<>> /\ deviations' = {}
    BY <1>3 DEF RevokeBaseline
  <2> QED
    BY <1>3, <2>1 DEF RevokeBaseline
<1>4. ASSUME NEW p \in PlanInputs, SubmitPlan(p) \/ RevisePlan(p)
      PROVE  CaseProgress'
  BY <1>4 DEF SubmitPlan, RevisePlan
<1>5. ASSUME StartTrial
      PROVE  CaseProgress'
  BY <1>5 DEF StartTrial
<1>6. ASSUME FetchPackage
      PROVE  CaseProgress'
  BY <1>6 DEF FetchPackage
<1>7. ASSUME NEW r \in People, NEW d \in {"approve", "return"}, Review(r, d)
      PROVE  CaseProgress'
  BY <1>7 DEF Review
<1>8. ASSUME Activate
      PROVE  CaseProgress'
  BY <1>8 DEF Activate
<1>9. ASSUME Tick
      PROVE  CaseProgress'
  BY <1>9 DEF Tick
<1>10. ASSUME UNCHANGED vars
       PROVE  CaseProgress'
  BY <1>10 DEF vars
<1> QED
  BY <1>1, <1>2, <1>3, <1>4, <1>5, <1>6, <1>7, <1>8, <1>9, <1>10 DEF Next

LEMMA CaseInvInit == Init => CaseInv
<1> SUFFICES ASSUME Init PROVE CaseInv
  OBVIOUS
<1>1. TypeOK /\ RevisionsCount
  BY TypeInit DEF TypeInv
<1>2. RecordOfState /\ OpenOnlyInRemediation /\ FaultsRecorded /\ ResolvedReplaced
  BY DEF Init, RecordOfState, OpenOnlyInRemediation, OpenDeviations,
         FaultsRecorded, ResolvedReplaced
<1> QED
  BY <1>1, <1>2 DEF CaseInv

LEMMA CaseInvStep == CaseInv /\ [Next]_vars => CaseInv'
<1> SUFFICES ASSUME CaseInv, [Next]_vars PROVE CaseInv'
  OBVIOUS
<1>1. TypeOK' /\ RevisionsCount'
  BY TypeStep DEF CaseInv
<1>2. CaseProgress'
  BY AddObservationsSafe, RemediationSafe, OtherStepsSafe
<1> QED
  BY <1>1, <1>2 DEF CaseInv, CaseProgress

(* The strengthened invariant holds of every reachable case.               *)
THEOREM CaseInvariant == Spec => []CaseInv
BY CaseInvInit, CaseInvStep, PTL DEF Spec

(* The invariant is strong enough: an effective observation outside the    *)
(* baseline has a deviation, which is open as the observation is not       *)
(* replaced, and so the case is in remediation.                            *)
LEMMA CaseInvSafe == CaseInv => EffectiveWithinBaseline
<1> SUFFICES ASSUME CaseInv, state \in UnderReview,
                    NEW i \in EffectiveObservations(observations),
                    NEW r \in EvaluateObservation(observations[i], baseline)
             PROVE  FALSE
  BY DEF EffectiveWithinBaseline
<1>1. i \in DOMAIN observations /\ ~ IsObservationSuperseded(observations, i)
  BY DEF EffectiveObservations
<1>2. PICK d \in deviations : d.rule = r /\ d.obs = i
  BY <1>1 DEF CaseInv, FaultsRecorded
<1>3. d.status # "resolved"
  BY <1>1, <1>2 DEF CaseInv, ResolvedReplaced
<1>4. d.status = "open"
  BY <1>2, <1>3 DEF CaseInv, TypeOK, Deviation
<1>5. state = "NeedsRemediation"
  BY <1>2, <1>4 DEF CaseInv, OpenOnlyInRemediation, OpenDeviations
<1> QED
  BY <1>5 DEF UnderReview

(* No case is reviewed, approved or activated with an effective            *)
(* observation outside its locked baseline.                                *)
THEOREM ReviewedWithinBaseline == Spec => []EffectiveWithinBaseline
BY CaseInvariant, CaseInvSafe, PTL

(* No case goes on with its trial, its review or its activation over an    *)
(* open deviation.                                                         *)
THEOREM OpenDeviationsBlock == Spec => []OpenOnlyInRemediation
<1>1. CaseInv => OpenOnlyInRemediation
  BY DEF CaseInv
<1> QED
  BY CaseInvariant, <1>1, PTL

(* Once its observation is replaced, an open deviation is never resolved,  *)
(* and the case never leaves remediation.                                  *)
THEOREM StrandedDeviationsStay == Spec => StrandedForever
<1> DEFINE A == \A d \in OpenDeviations :
                  IsObservationSuperseded(observations, d.obs) =>
                    d \in deviations' /\ state' = "NeedsRemediation"
<1>1. ASSUME CaseInv, [Next]_vars
      PROVE  [A]_vars
  <2> SUFFICES ASSUME Next, NEW d \in OpenDeviations,
                      IsObservationSuperseded(observations, d.obs)
               PROVE  d \in deviations' /\ state' = "NeedsRemediation"
    BY <1>1
  <2>1. d \in deviations /\ d.status = "open" /\ state = "NeedsRemediation"
    BY <1>1 DEF OpenDeviations, CaseInv, OpenOnlyInRemediation
  <2>2. ASSUME NEW batch \in Requests({0}), AddObservations(batch)
        PROVE  d \in deviations'
    BY <2>1, <2>2 DEF AddObservations, DeviationsWith
  <2>3. ASSUME NEW targets \in RemediationTargets,
               NEW retests \in Requests({e.obs : e \in targets}),
               RemediateDeviations(targets, retests)
        PROVE  d \in deviations'
    <3>1. d \notin targets
      BY <2>3 DEF RemediateDeviations, CanRemediate
    <3>2. d \in DeviationsWith(LogWith(retests))
      BY <2>1 DEF DeviationsWith
    <3>3. d \notin Passed(targets, LogWith(retests), DeviationsWith(LogWith(retests)))
      BY <3>1 DEF Passed
    <3>4. d \in Resolve(DeviationsWith(LogWith(retests)),
                       Passed(targets, LogWith(retests), DeviationsWith(LogWith(retests))))
      BY <3>2, <3>3 DEF Resolve
    <3> QED
      BY <2>3, <3>4 DEF RemediateDeviations
  <2>4. ASSUME \A batch \in Requests({0}) : ~ AddObservations(batch),
               \A targets \in RemediationTargets :
                 \A retests \in Requests({e.obs : e \in targets}) :
                   ~ RemediateDeviations(targets, retests)
        PROVE  d \in deviations'
    BY <2>1, <2>4 DEF Next, ReviseIdentity, SetBaseline, RevokeBaseline, SubmitPlan,
      RevisePlan, StartTrial, FetchPackage, Review, Activate, Tick, trialVars
  <2>5. d \in deviations'
    BY <2>2, <2>3, <2>4
  <2>6. OpenOnlyInRemediation'
    BY <1>1, CaseInvStep DEF CaseInv
  <2> QED
    BY <2>1, <2>5, <2>6 DEF OpenOnlyInRemediation, OpenDeviations
<1>2. [][Next]_vars /\ []CaseInv => [][A]_vars
  BY <1>1, PTL
<1> QED
  BY <1>2, CaseInvariant, PTL DEF Spec, StrandedForever
=============================================================================
