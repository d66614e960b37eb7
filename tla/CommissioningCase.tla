------------------------- MODULE CommissioningCase -------------------------
(***************************************************************************)
(* One commissioning case, from the draft to the activation permit: the    *)
(* aggregate of internal/domain/commissioning.  An action is one call of a *)
(* method of CommissioningCase that returns no error; a call that returns  *)
(* an error leaves the case as it was, a stuttering step.  Calls on one    *)
(* case never overlap: the service holds the case's lock around them.      *)
(***************************************************************************)
EXTENDS TrialRules

CONSTANTS
  Nil,              \* Go's nil pointer
  People,           \* names of submitters and reviewers
  Identities,       \* zone, category and owner, normalized and within bounds
  BaselineInputs,   \* baselines a client may ask for, valid or not
  PlanInputs,       \* plans a client may submit, valid or not
  Readings,         \* what an instrument may report
  FutureTolerance,  \* observationFutureTolerance, in ticks
  PermitYear,       \* ticks a permit stays in force
  FetchAt,          \* bound: the states in which reviewers read the package
  MaxVersion,       \* bound: mutations of the case
  MaxTime,          \* bound: the clock
  MaxBatch,         \* bound: observations of one request
  MaxObservations,  \* bound: observations of the case
  MaxRevisions      \* bound: baselines locked, and plans submitted

VARIABLES
  state, version, identity,
  baseline, baselineHistory, revocations,
  plan, planHistory,
  observations, deviations,
  reviews, permit,
  now,              \* the wall clock, which does not run backwards
  held              \* the review package the reviewers hold, or Nil

baselineVars == <<baseline, baselineHistory, revocations>>
planVars == <<plan, planHistory>>
trialVars == <<observations, deviations>>
reviewVars == <<reviews, permit>>
vars == <<state, version, identity, baselineVars, planVars, trialVars,
          reviewVars, now, held>>

States == {"Draft", "BaselineLocked", "TrialReady", "TrialRunning",
           "NeedsRemediation", "AwaitingReview", "Approved", "Activated"}

BaselineProfile ==
  [tempMin : Int, tempMax : Int, humMin : Int, humMax : Int,
   interval : Nat, minCount : Nat, revision : Nat]
ControlPlan ==
  [setTemp : Int, setHum : Int, hours : Nat, submittedBy : People, planId : Nat]
PlanRevision == [revision : Nat, plan : ControlPlan]
Deviation ==
  [rule : RuleCodes, obs : Nat, status : {"open", "resolved"}, resolvedAt : Nat]
ReviewPackage ==
  [version : Nat, baseline : BaselineProfile \cup {Nil},
   latestPlan : PlanRevision \cup {Nil}, effective : SUBSET Observation,
   replacements : SUBSET (Nat \X Nat), deviations : SUBSET Deviation]
ReviewDecision ==
  [reviewer : People, decision : {"approve", "return"},
   reviewedVersion : Nat, fingerprint : ReviewPackage]
ActivationPermit ==
  [activatedVersion : Nat, issuedAt : Nat, effectiveUntil : Nat]

ASSUME NilAssumption ==
  Nil \notin BaselineProfile \cup ControlPlan \cup PlanRevision
             \cup ReviewPackage \cup ActivationPermit \cup People
ASSUME InputAssumption ==
  /\ BaselineInputs \subseteq BaselineProfile
  /\ PlanInputs \subseteq ControlPlan
  /\ Readings \subseteq Reading
ASSUME BoundAssumption ==
  /\ FutureTolerance \in Nat /\ PermitYear \in Nat \ {0}
  /\ MaxVersion \in Nat /\ MaxTime \in Nat /\ MaxBatch \in Nat
  /\ MaxObservations \in Nat /\ MaxRevisions \in Nat

TypeOK ==
  /\ state \in States
  /\ version \in Nat \ {0}
  /\ identity \in Identities
  /\ baseline \in BaselineProfile \cup {Nil}
  /\ baselineHistory \in Seq(BaselineProfile)
  /\ revocations \in Seq(Nat)
  /\ plan \in ControlPlan \cup {Nil}
  /\ planHistory \in Seq(PlanRevision)
  /\ observations \in Seq(Observation)
  /\ deviations \in SUBSET Deviation
  /\ reviews \in Seq(ReviewDecision)
  /\ permit \in ActivationPermit \cup {Nil}
  /\ now \in Nat \ {0}
  /\ held \in ReviewPackage \cup {Nil}

Init ==
  /\ state = "Draft" /\ version = 1 /\ identity \in Identities
  /\ baseline = Nil /\ baselineHistory = <<>> /\ revocations = <<>>
  /\ plan = Nil /\ planHistory = <<>>
  /\ observations = <<>> /\ deviations = {}
  /\ reviews = <<>> /\ permit = Nil
  /\ now = 1 /\ held = Nil

(* Mutant: the version is not counted up. *)
MutantTouch == version < MaxVersion /\ UNCHANGED version

touch == version < MaxVersion /\ version' = version + 1

-----------------------------------------------------------------------------
(* Before the trial. *)

ReviseIdentity(id) ==
  /\ state = "Draft"
  /\ identity' = id
  /\ touch
  /\ UNCHANGED <<state, baselineVars, planVars, trialVars, reviewVars, now, held>>

SetBaseline(b) ==
  /\ state = "Draft"
  /\ ValidateBaseline(b)
  /\ Len(baselineHistory) < MaxRevisions
  /\ baseline' = [b EXCEPT !.revision = NextRevision(baselineHistory)]
  /\ baselineHistory' = Append(baselineHistory, baseline')
  /\ state' = "BaselineLocked"
  /\ touch
  /\ UNCHANGED <<identity, revocations, planVars, trialVars, reviewVars, now, held>>

(* Mutant: a plan that was submitted does not keep the baseline. *)
MutantRevokeBaseline ==
  /\ state \in {"BaselineLocked", "TrialReady"} /\ baseline # Nil
  /\ revocations' = Append(revocations, baseline.revision)
  /\ baseline' = Nil
  /\ state' = "Draft"
  /\ touch
  /\ UNCHANGED <<identity, baselineHistory, planVars, trialVars, reviewVars, now, held>>

RevokeBaseline ==
  /\ state = "BaselineLocked" /\ plan = Nil /\ baseline # Nil
  /\ revocations' = Append(revocations, baseline.revision)
  /\ baseline' = Nil
  /\ state' = "Draft"
  /\ touch
  /\ UNCHANGED <<identity, baselineHistory, planVars, trialVars, reviewVars, now, held>>

(* Both plan operations stamp the plan with its identifier and record it. *)
RecordPlan(p) ==
  LET revision == NextRevision(planHistory)
  IN  /\ Len(planHistory) < MaxRevisions
      /\ ValidatePlan(p, baseline)
      /\ plan' = [p EXCEPT !.planId = revision]
      /\ planHistory' = Append(planHistory, [revision |-> revision, plan |-> plan'])

SubmitPlan(p) ==
  /\ state = "BaselineLocked" /\ baseline # Nil
  /\ RecordPlan(p)
  /\ state' = "TrialReady"
  /\ touch
  /\ UNCHANGED <<identity, baselineVars, trialVars, reviewVars, now, held>>

(* Mutant: no touch. *)
MutantRevisePlan(p) ==
  /\ state = "TrialReady" /\ baseline # Nil /\ plan # Nil
  /\ RecordPlan(p)
  /\ UNCHANGED <<state, version, identity, baselineVars, trialVars, reviewVars, now, held>>

RevisePlan(p) ==
  /\ state = "TrialReady" /\ baseline # Nil /\ plan # Nil
  /\ RecordPlan(p)
  /\ touch
  /\ UNCHANGED <<state, identity, baselineVars, trialVars, reviewVars, now, held>>

StartTrial ==
  /\ state = "TrialReady"
  /\ state' = "TrialRunning"
  /\ touch
  /\ UNCHANGED <<identity, baselineVars, planVars, trialVars, reviewVars, now, held>>

-----------------------------------------------------------------------------
(* The trial. *)

OpenDeviations == {d \in deviations : d.status = "open"}

(* The log after a request, with the time of arrival for a missing time. *)
Prepared(o) == [o EXCEPT !.at = IF @ = 0 THEN now ELSE @]
LogWith(batch) == observations \o [k \in 1 .. Len(batch) |-> Prepared(batch[k])]
NewIn(log) == Len(observations) + 1 .. Len(log)

(* Mutant: the observations of a request are not compared with each other. *)
MutantAcceptable(log) ==
  /\ Len(log) <= MaxObservations
  /\ \A k \in NewIn(log) :
       /\ log[k].at <= now + FutureTolerance
       /\ observations # <<>> => log[k].at > observations[Len(observations)].at

(* prepareObservation accepts every new observation of the log. *)
Acceptable(log) ==
  /\ Len(log) <= MaxObservations
  /\ \A k \in NewIn(log) :
       /\ log[k].at <= now + FutureTolerance
       /\ k > 1 => log[k].at > log[k - 1].at

(* Mutant: a rule that has a deviation gets no second one. *)
MutantNewRules(log, k) ==
  {r \in BrokenRules(log, k, baseline) : \A d \in deviations : d.rule # r}

(* ensureDeviation, for every rule that a new observation breaks. *)
NewRules(log, k) ==
  {r \in BrokenRules(log, k, baseline) :
     \A d \in deviations : ~ (d.rule = r /\ d.obs = k)}

DeviationsWith(log) ==
  deviations \cup
    UNION {{[rule |-> r, obs |-> k, status |-> "open", resolvedAt |-> 0] :
              r \in NewRules(log, k)} : k \in NewIn(log)}

(* Mutants: the deviations of the request come too late, and a filled      *)
(* window is enough.                                                       *)
MutantEvaluateEarly(log, devs) ==
  CASE OpenDeviations # {} -> "NeedsRemediation"
    [] OTHER -> IF TrialWindowSatisfied(log, plan, baseline)
                THEN "AwaitingReview" ELSE "TrialRunning"
MutantEvaluateWindow(log, devs) ==
  CASE TrialWindowSatisfied(log, plan, baseline) -> "AwaitingReview"
    [] OTHER -> IF \E d \in devs : d.status = "open"
                THEN "NeedsRemediation" ELSE "TrialRunning"

evaluate(log, devs) ==
  CASE \E d \in devs : d.status = "open" -> "NeedsRemediation"
    [] OTHER -> IF TrialWindowSatisfied(log, plan, baseline)
                THEN "AwaitingReview" ELSE "TrialRunning"

AddObservations(batch) ==
  LET log == LogWith(batch)
  IN  /\ state \in {"TrialRunning", "NeedsRemediation"}
      /\ baseline # Nil /\ plan # Nil
      /\ batch # <<>>
      /\ \A k \in DOMAIN batch : batch[k].supersedes = 0
      /\ Acceptable(log)
      /\ observations' = log
      /\ deviations' = DeviationsWith(log)
      /\ state' = evaluate(log, deviations')
      /\ touch
      /\ UNCHANGED <<identity, baselineVars, planVars, reviewVars, now, held>>

(* Mutant: a replaced observation may be replaced again. *)
MutantCanRemediate(d) == d \in OpenDeviations

(* Open deviations that a remediation may name. *)
CanRemediate(d) ==
  d \in OpenDeviations /\ ~ IsObservationSuperseded(observations, d.obs)

ObservationPassesRule(log, devs, k, r) ==
  IF r = "SAMPLE_GAP"
  THEN \A d \in devs : ~ (d.rule = r /\ d.obs = k /\ d.status = "open")
  ELSE LET o == log[k].reading
       IN  CASE r = "TEMP_RANGE" -> o.temp \in baseline.tempMin .. baseline.tempMax
             [] r = "HUMIDITY_RANGE" -> o.hum \in baseline.humMin .. baseline.humMax
             [] r = "DEVICE_STATUS" -> o.device = "normal"

(* Mutant: a retest of another observation counts. *)
MutantPassedAny(targets, log, devs) ==
  {d \in targets : \E k \in NewIn(log) : ObservationPassesRule(log, devs, k, d.rule)}

(* The targets that some retest of their own observation passes. *)
Passed(targets, log, devs) ==
  {d \in targets : \E k \in NewIn(log) :
     log[k].supersedes = d.obs /\ ObservationPassesRule(log, devs, k, d.rule)}

(* Mutants: resolved deviations are removed, or not stamped with the time. *)
MutantResolveRemoves(devs, passed) == devs \ passed
MutantResolveUnstamped(devs, passed) ==
  (devs \ passed)
    \cup {[d EXCEPT !.status = "resolved", !.resolvedAt = Nil] : d \in passed}

Resolve(devs, passed) ==
  (devs \ passed)
    \cup {[d EXCEPT !.status = "resolved", !.resolvedAt = now] : d \in passed}

RemediateDeviations(targets, retests) ==
  LET log == LogWith(retests)
      devs == DeviationsWith(log)
  IN  /\ state = "NeedsRemediation" /\ baseline # Nil /\ plan # Nil
      /\ targets # {} /\ \A d \in targets : CanRemediate(d)
      /\ Cardinality(targets) = Len(retests)
      /\ \A k \in DOMAIN retests :
           /\ \E d \in targets : d.obs = retests[k].supersedes
           /\ \A j \in 1 .. k - 1 : retests[j].supersedes # retests[k].supersedes
      /\ Acceptable(log)
      /\ observations' = log
      /\ deviations' = Resolve(devs, Passed(targets, log, devs))
      /\ state' = evaluate(log, deviations')
      /\ touch
      /\ UNCHANGED <<identity, baselineVars, planVars, reviewVars, now, held>>

-----------------------------------------------------------------------------
(* Review and activation. *)

LatestPlan ==
  LET latest == Max({planHistory[i].revision : i \in DOMAIN planHistory})
  IN  IF planHistory = <<>> THEN Nil
      ELSE planHistory[CHOOSE i \in DOMAIN planHistory : planHistory[i].revision = latest]

(* The content of the package.  SHA-256 is taken to be injective, so that  *)
(* the content also stands for its fingerprint.                            *)
BuildReviewPackage ==
  [version |-> version, baseline |-> baseline, latestPlan |-> LatestPlan,
   effective |-> {observations[i] : i \in EffectiveObservations(observations)},
   replacements |-> {<<i, observations[i].supersedes>> :
                       i \in {j \in DOMAIN observations : observations[j].supersedes # 0}},
   deviations |-> deviations]

(* GET review-package: a reviewer reads the package of the moment. *)
FetchPackage ==
  /\ state \in FetchAt
  /\ held' = BuildReviewPackage
  /\ UNCHANGED <<state, version, identity, baselineVars, planVars, trialVars,
                 reviewVars, now>>

(* Mutant: the first submitter. *)
MutantLatestSubmitter ==
  IF planHistory # <<>> THEN planHistory[1].plan.submittedBy ELSE Nil

LatestSubmitter ==
  IF planHistory # <<>> THEN planHistory[Len(planHistory)].plan.submittedBy
  ELSE IF plan # Nil THEN plan.submittedBy ELSE Nil

(* Mutant: any package will do. *)
MutantPackageCurrent == held # Nil

(* The version and the fingerprint, which come from the package that the   *)
(* reviewer holds, are those of the case.                                  *)
PackageCurrent ==
  /\ held # Nil
  /\ held.version = version
  /\ held = BuildReviewPackage

Review(reviewer, decision) ==
  /\ state = "AwaitingReview"
  /\ reviewer # LatestSubmitter
  /\ PackageCurrent
  /\ decision = "approve" => OpenDeviations = {}
  /\ reviews' = Append(reviews,
       [reviewer |-> reviewer, decision |-> decision,
        reviewedVersion |-> held.version, fingerprint |-> held])
  /\ state' = IF decision = "approve" THEN "Approved" ELSE "NeedsRemediation"
  /\ touch
  /\ UNCHANGED <<identity, baselineVars, planVars, trialVars, permit, now, held>>

(* Mutant: the permit names the version before the activation. *)
MutantActivate ==
  /\ state = "Approved"
  /\ reviews # <<>>
  /\ permit' = [activatedVersion |-> version, issuedAt |-> now,
                effectiveUntil |-> now + PermitYear]
  /\ state' = "Activated"
  /\ touch
  /\ UNCHANGED <<identity, baselineVars, planVars, trialVars, reviews, now, held>>

Activate ==
  /\ state = "Approved"
  /\ reviews # <<>>
  /\ permit' = [activatedVersion |-> version + 1, issuedAt |-> now,
                effectiveUntil |-> now + PermitYear]
  /\ state' = "Activated"
  /\ touch
  /\ UNCHANGED <<identity, baselineVars, planVars, trialVars, reviews, now, held>>

Tick ==
  /\ now < MaxTime
  /\ now' = now + 1
  /\ UNCHANGED <<state, version, identity, baselineVars, planVars, trialVars,
                 reviewVars, held>>

-----------------------------------------------------------------------------
(* The times a request may carry: none, or from the last observation's to   *)
(* one tick beyond the tolerance.  Any other time is refused as these two   *)
(* boundary values are.                                                     *)
Times ==
  LET last == IF observations = <<>> THEN 1 ELSE observations[Len(observations)].at
  IN  {0} \cup last .. now + FutureTolerance + 1

Requests(superseded) ==
  UNION {[1 .. n -> [at : Times, reading : Readings, supersedes : superseded]] :
           n \in 1 .. MaxBatch}

(* A remediation that names any other target is refused. *)
RemediationTargets ==
  {targets \in SUBSET {d \in OpenDeviations : CanRemediate(d)} :
     Cardinality(targets) \in 1 .. MaxBatch}

Next ==
  \/ \E id \in Identities : ReviseIdentity(id)
  \/ \E b \in BaselineInputs : SetBaseline(b)
  \/ RevokeBaseline
  \/ \E p \in PlanInputs : SubmitPlan(p) \/ RevisePlan(p)
  \/ StartTrial
  \/ \E batch \in Requests({0}) : AddObservations(batch)
  \/ \E targets \in RemediationTargets :
       \E retests \in Requests({d.obs : d \in targets}) :
         RemediateDeviations(targets, retests)
  \/ FetchPackage
  \/ \E r \in People, d \in {"approve", "return"} : Review(r, d)
  \/ Activate
  \/ Tick

Spec == Init /\ [][Next]_vars

-----------------------------------------------------------------------------
(* Properties of one case. *)

UnderReview == {"AwaitingReview", "Approved", "Activated"}

(* What a reviewer is asked to approve, and what an approved case rests on, *)
(* holds no effective observation outside the locked baseline: a faulty     *)
(* observation (appendObservation) is out of the trial or keeps the case    *)
(* out of the review (evaluate), whatever was resolved in between.          *)
EffectiveWithinBaseline ==
  state \in UnderReview =>
    \A i \in EffectiveObservations(observations) :
      EvaluateObservation(observations[i], baseline) = {}

(* A deviation is resolved only by a retest that replaced its own          *)
(* observation and is clear of the deviation's rule, SAMPLE_GAP included.  *)
ResolvedByRetest ==
  \A d \in deviations :
    d.status = "resolved" =>
      \E k \in DOMAIN observations :
        /\ observations[k].supersedes = d.obs
        /\ d.rule \notin EvaluateObservation(observations[k], baseline)
        /\ ~ \E e \in deviations : e.rule = d.rule /\ e.obs = k

(* While a deviation is open the case stays in remediation: neither the    *)
(* trial nor the review goes on over it.                                   *)
OpenOnlyInRemediation ==
  OpenDeviations # {} => state = "NeedsRemediation"

(* Between the first and the last sample of a trial that reaches the review *)
(* there is time for every sampling interval that the baseline asks for,    *)
(* the legacy profile apart (comment at validation.go:61); where in that    *)
(* time the others lie is the matter of the rule SAMPLE_GAP.                *)
IntervalsCovered ==
  state \in UnderReview =>
    LegacyTwoSampleProfile(plan, baseline)
      \/ Span(observations, EffectiveObservations(observations))
           >= (baseline.minCount - 1) * baseline.interval

(* It has the samples the baseline asks for, spread over the hours of the  *)
(* plan; replaced samples do not count (TrialWindowSatisfied).             *)
WindowFilled ==
  state \in UnderReview =>
    LET effective == EffectiveObservations(observations)
    IN  /\ Cardinality(effective) >= baseline.minCount
        /\ Span(observations, effective) >= plan.hours * Hour

(* The locked baseline and the submitted plan are the latest of their      *)
(* histories, revisions are never given twice, and no revoked baseline is  *)
(* in force.                                                               *)
CurrentIsLatest ==
  /\ \A i, j \in DOMAIN baselineHistory :
       i < j => baselineHistory[i].revision < baselineHistory[j].revision
  /\ \A i, j \in DOMAIN planHistory :
       i < j => planHistory[i].revision < planHistory[j].revision
  /\ baseline # Nil =>
       /\ baseline = baselineHistory[Len(baselineHistory)]
       /\ \A i \in DOMAIN revocations : revocations[i] # baseline.revision
  /\ plan # Nil => /\ plan = planHistory[Len(planHistory)].plan
                   /\ LatestPlan = planHistory[Len(planHistory)]

(* The version identifies the content of the review package: a package of  *)
(* the current version, however old, is the package of the moment.         *)
VersionIdentifiesPackage ==
  held # Nil /\ held.version = version => held = BuildReviewPackage

LastReview == reviews[Len(reviews)]

(* The last step that counted was a review that sent the case back. *)
SentBack ==
  /\ state = "NeedsRemediation" /\ reviews # <<>>
  /\ LastReview.reviewedVersion = version - 1

(* An approval is of the very data that the case rests on from then on:    *)
(* nothing slips in between the package the reviewer read, the approval    *)
(* and the activation.                                                     *)
ApprovalBindsData ==
  state \in {"Approved", "Activated"} =>
    /\ reviews # <<>> /\ LastReview.decision = "approve"
    /\ LastReview.fingerprint =
         [BuildReviewPackage EXCEPT !.version = LastReview.reviewedVersion]
    /\ version = LastReview.reviewedVersion + (IF permit = Nil THEN 1 ELSE 2)

(* Whoever approved did not submit the plan that is approved, whichever    *)
(* revision of the plan that is.                                           *)
ApprovalIndependent ==
  state \in {"Approved", "Activated"} => LastReview.reviewer # plan.submittedBy

Extends(old, new) == Len(old) <= Len(new) /\ SubSeq(new, 1, Len(old)) = old

DeviationsStay ==
  \A d \in deviations :
    \/ d \in deviations'
    \/ /\ d.status = "open"
       /\ \E e \in deviations' : e = [d EXCEPT !.status = "resolved", !.resolvedAt = now]

RecordGrows ==
  /\ Extends(baselineHistory, baselineHistory')
  /\ Extends(revocations, revocations')
  /\ Extends(planHistory, planHistory')
  /\ Extends(observations, observations')
  /\ Extends(reviews, reviews')
  /\ permit # Nil => permit' = permit
  /\ DeviationsStay

(* Nothing on record is rewritten: histories, reviews and observations     *)
(* only grow, deviations are neither dropped nor reopened, and a permit is *)
(* never replaced.                                                         *)
RecordOnlyGrows == [][RecordGrows]_vars

(* A deviation that is still open when its observation has been replaced   *)
(* (a failed retest, or a retest for one of several deviations) is open    *)
(* for good, and the case is in remediation for good (CanRemediate and     *)
(* observation.go:66).                                                     *)
StrandedForever ==
  [][\A d \in OpenDeviations :
       IsObservationSuperseded(observations, d.obs) =>
         d \in deviations' /\ state' = "NeedsRemediation"]_vars

-----------------------------------------------------------------------------
(* The inductive invariant that EffectiveWithinBaseline rests on. *)

(* Revisions are the positions in the history: nothing ever leaves it. *)
RevisionsCount ==
  /\ \A i \in DOMAIN baselineHistory : baselineHistory[i].revision = i
  /\ \A i \in DOMAIN planHistory : planHistory[i].revision = i

(* What a case has by the state it is in. *)
RecordOfState ==
  /\ state = "Draft" <=> baseline = Nil
  /\ state \in {"Draft", "BaselineLocked", "TrialReady"} =>
       observations = <<>> /\ deviations = {}

(* Every measured fault of every observation has its deviation, which is   *)
(* resolved only when the observation has been replaced.                   *)
FaultsRecorded ==
  \A i \in DOMAIN observations :
    \A r \in EvaluateObservation(observations[i], baseline) :
      \E d \in deviations : d.rule = r /\ d.obs = i
ResolvedReplaced ==
  \A d \in deviations :
    d.status = "resolved" => IsObservationSuperseded(observations, d.obs)

(* From any state that satisfies it, reachable or not, every step of the   *)
(* code leads to one that does; it implies EffectiveWithinBaseline.        *)
CaseInv ==
  /\ TypeOK /\ RevisionsCount /\ RecordOfState
  /\ OpenOnlyInRemediation /\ FaultsRecorded /\ ResolvedReplaced

-----------------------------------------------------------------------------
(* The inductive invariant that the other properties rest on. *)

(* What is in force is what was recorded last, and a plan in force, which  *)
(* a client submitted, suits the baseline in force.                        *)
InForce ==
  /\ baseline # Nil =>
       /\ baselineHistory # <<>> /\ baseline = baselineHistory[Len(baselineHistory)]
       /\ ValidateBaseline(baseline)
       /\ \A i \in DOMAIN revocations : revocations[i] < Len(baselineHistory)
  /\ \A i \in DOMAIN revocations : revocations[i] <= Len(baselineHistory)
  /\ plan = Nil <=> state \in {"Draft", "BaselineLocked"}
  /\ plan = Nil <=> planHistory = <<>>
  /\ plan # Nil => /\ plan = planHistory[Len(planHistory)].plan
                   /\ ValidatePlan(plan, baseline)
                   /\ \E p \in PlanInputs : p.hours = plan.hours
  /\ state \in UnderReview => TrialWindowSatisfied(observations, plan, baseline)

(* Reviews are of versions that are past, each of a later one, and the     *)
(* package that is held may be of this one.                                *)
ReviewsPast ==
  /\ held # Nil => held.version <= version
  /\ VersionIdentifiesPackage
  /\ \A i \in DOMAIN reviews : reviews[i].reviewedVersion \in 1 .. version - 1
  /\ \A i, j \in DOMAIN reviews :
       i < j => reviews[i].reviewedVersion < reviews[j].reviewedVersion

(* An approval stands, and the permit is of the version that it made.      *)
ApprovalStands ==
  /\ permit # Nil <=> state = "Activated"
  /\ permit # Nil => /\ permit.activatedVersion = version
                     /\ permit.effectiveUntil = permit.issuedAt + PermitYear
  /\ ApprovalBindsData /\ ApprovalIndependent

(* The log is in order, no observation replaces a later one, or one that   *)
(* another replaces, and every deviation is about one of them, the only    *)
(* one of its rule.                                                        *)
LogInOrder ==
  /\ \A i \in DOMAIN observations :
       observations[i].at # 0 /\ observations[i].at <= now + FutureTolerance
  /\ \A i, j \in DOMAIN observations : i < j => observations[i].at < observations[j].at
  /\ \A i \in DOMAIN observations : observations[i].supersedes < i
  /\ \A i, j \in DOMAIN observations :
       observations[i].supersedes = observations[j].supersedes =>
         i = j \/ observations[i].supersedes = 0
  /\ \A d \in deviations : d.obs \in DOMAIN observations
  /\ \A d, e \in deviations : d.rule = e.rule /\ d.obs = e.obs => d = e

(* The state was computed from the evidence there is (evaluate): a trial   *)
(* goes on because its window is not filled, a remediation because         *)
(* something is open, or the reviewer has just sent the case back.         *)
TrialJudged ==
  /\ state = "TrialRunning" => ~ TrialWindowSatisfied(observations, plan, baseline)
  /\ state = "NeedsRemediation" =>
       IF SentBack
       THEN OpenDeviations = {} /\ TrialWindowSatisfied(observations, plan, baseline)
       ELSE OpenDeviations # {}

DossierInv ==
  /\ CaseInv /\ InForce /\ ReviewsPast /\ ApprovalStands
  /\ LogInOrder /\ ResolvedByRetest /\ TrialJudged

-----------------------------------------------------------------------------
(* Expectations that the code does not meet. *)

(* Where adjacent effective observations lie further apart than the locked *)
(* interval, a SAMPLE_GAP deviation says so.                               *)
EffectiveGapsReported ==
  LET effective == EffectiveObservations(observations)
  IN  \A i, j \in effective :
        /\ i < j /\ \A k \in effective : ~ (i < k /\ k < j)
        /\ observations[j].at - observations[i].at > baseline.interval
        => \E d \in OpenDeviations : d.rule = "SAMPLE_GAP" /\ d.obs = j
=============================================================================
