----------------------------- MODULE CaseReads -----------------------------
(***************************************************************************)
(* What the read operations make of a case: the deviation ledger           *)
(* (deviation_ledger.go), the review history (review.go) and the           *)
(* validation of a permit (permit_validation.go) each check the case they  *)
(* read and answer with a corruption error when the check fails; the       *)
(* observation summary (summary.go) judges the trial a second time.  A     *)
(* read changes nothing, so it is an operator on the state of a case, and  *)
(* the question is what legal mutations can make it answer.                *)
(***************************************************************************)
EXTENDS CommissioningCase

Life == INSTANCE CaseLife

(* validateDeviationReferences: the log is in order, every replacement     *)
(* names an earlier observation that nothing else replaces, and no chain   *)
(* of replacements comes back to its start.                                *)
ReplacedBy(log, i) == {j \in DOMAIN log : log[j].supersedes = i}

ReferencesValid(log) ==
  /\ \A i \in DOMAIN log :
       /\ log[i].at # 0
       /\ i > 1 => log[i].at > log[i - 1].at
  /\ \A j \in DOMAIN log :
       log[j].supersedes # 0 =>
         /\ log[j].supersedes \in DOMAIN log \ {j}
         /\ log[j].at > log[log[j].supersedes].at
         /\ ReplacedBy(log, log[j].supersedes) = {j}
  /\ ~ \E chain \in SUBSET DOMAIN log :
       /\ chain # {}
       /\ \A i \in chain : ReplacedBy(log, i) \cap chain # {}

ValidResolution(d, observedAt) ==
  IF d.status = "open" THEN d.resolvedAt = 0
  ELSE d.resolvedAt # 0 /\ d.resolvedAt >= observedAt

DeviationLedger ==
  IF /\ ReferencesValid(observations)
     /\ \A d \in deviations :
          /\ d.obs \in DOMAIN observations
          /\ ValidResolution(d, observations[d.obs].at)
  THEN "ok" ELSE "corrupt"

(* The sort of the ledger: the items before that of a rule and an          *)
(* observation.  Those of one observation come by their identifiers, which *)
(* number the deviations as they are raised (appendObservation); that as   *)
(* strings "10" comes before "9" is left out.                              *)
LedgerOrder == <<"SAMPLE_GAP", "TEMP_RANGE", "HUMIDITY_RANGE", "DEVICE_STATUS">>

(* Mutant: the newest observation first. *)
MutantItemsBefore(rule, obs) ==
  {d \in deviations :
     \/ observations[d.obs].at > observations[obs].at
     \/ d.obs = obs /\ \E i, j \in DOMAIN LedgerOrder :
                        i < j /\ LedgerOrder[i] = d.rule /\ LedgerOrder[j] = rule}

ItemsBefore(rule, obs) ==
  {d \in deviations :
     \/ observations[d.obs].at < observations[obs].at
     \/ d.obs = obs /\ \E i, j \in DOMAIN LedgerOrder :
                        i < j /\ LedgerOrder[i] = d.rule /\ LedgerOrder[j] = rule}

LedgerPlaces == {<<d.rule, d.obs, Cardinality(ItemsBefore(d.rule, d.obs))>> : d \in deviations}

(* Mutant: replaced observations count. *)
MutantInWindow(from, to) ==
  {i \in DOMAIN observations :
     /\ from # 0 => observations[i].at >= from
     /\ to # 0 => observations[i].at <= to}

(* SummarizeObservations: the evidence of a window of time, 0 for no bound, *)
(* against what baseline and plan ask for.  The durations are in minutes.   *)
InWindow(from, to) ==
  {i \in EffectiveObservations(observations) :
     /\ from # 0 => observations[i].at >= from
     /\ to # 0 => observations[i].at <= to}

SummarizeObservations(from, to) ==
  LET filtered == InWindow(from, to)
  IN  [count |-> Cardinality(filtered),
       required |-> IF baseline = Nil THEN 0 ELSE baseline.minCount,
       minutes |-> IF filtered = {} THEN 0
                   ELSE (Span(observations, filtered) * 60) \div Hour,
       minutesRequired |-> IF baseline = Nil \/ plan = Nil THEN 0 ELSE plan.hours * 60,
       open |-> {d.rule : d \in OpenDeviations}]

(* Both completions of the summary have come to one. *)
Completed(summary) ==
  /\ summary.required > 0 /\ summary.count >= summary.required
  /\ summary.minutesRequired > 0 /\ summary.minutes >= summary.minutesRequired

ReviewHistory ==
  IF /\ \A i \in DOMAIN reviews :
          /\ reviews[i].reviewedVersion \in 1 .. version
          /\ i > 1 => reviews[i].reviewedVersion >= reviews[i - 1].reviewedVersion
     /\ state \in {"Approved", "Activated"} => reviews # <<>>
  THEN "ok" ELSE "corrupt"

IsCurrentVersion(review) == review.reviewedVersion = version

PlanRevisionInForce ==
  IF plan # Nil /\ planHistory # <<>>
       /\ planHistory[Len(planHistory)].plan.planId = plan.planId
  THEN planHistory[Len(planHistory)].revision ELSE 0

ValidatePermit ==
  IF permit = Nil THEN "not_found"
  ELSE IF \/ state # "Activated"
          \/ permit.activatedVersion # version
          \/ permit.effectiveUntil <= permit.issuedAt
          \/ baseline = Nil \/ baseline.revision = 0
          \/ PlanRevisionInForce = 0
          \/ \A i \in DOMAIN reviews : reviews[i].decision # "approve"
       THEN "corrupt"
  ELSE IF now < permit.effectiveUntil THEN "active" ELSE "expired"

-----------------------------------------------------------------------------
(* Whatever batches and remediations went before, the ledger finds the     *)
(* observations in order and every replacement sound, and every deviation  *)
(* on record about an observation of the log.                              *)
LedgerReferencesSound ==
  /\ ReferencesValid(observations)
  /\ \A d \in deviations : d.obs \in DOMAIN observations

(* Deviations join the ledger at its end, whatever is measured or retested *)
(* later: a client that reads it page by page, without a filter, while     *)
(* observations come in meets every deviation once.                        *)
LedgerPagesStable ==
  [][LedgerPlaces \subseteq LedgerPlaces']_vars

(* The summary, which computes the progress of the trial on its own, and   *)
(* the evaluation of each observation agree: the trial is shown complete   *)
(* and without open deviations exactly when the case is under review, or   *)
(* was just sent back from it.  No window shows more than the whole.       *)
SummaryForecastsReview ==
  LET whole == SummarizeObservations(0, 0)
  IN  /\ Completed(whole) /\ whole.open = {} <=> state \in UnderReview \/ SentBack
      /\ \A from, to \in 0 .. MaxTime + FutureTolerance :
           Completed(SummarizeObservations(from, to)) => Completed(whole)

(* Seen from outside, a case goes through its states one version at a time *)
(* as CaseLife has it, gets its permit with its activation, and never      *)
(* changes after it: readers of the whole directory rely on that.          *)
CaseFile == [state |-> state, version |-> version, permit |-> permit]
CaseFileMoves ==
  [][CaseFile' # CaseFile => CaseFile' \in Life!Mutated(CaseFile, now)]_vars

(* The review history of a case can always be read, and its reviews are    *)
(* all of earlier versions: the review itself makes a new version, so no   *)
(* answer ever marks a review as one of the current version.               *)
ReviewHistoryReadable ==
  /\ ReviewHistory = "ok"
  /\ \A i \in DOMAIN reviews : ~ IsCurrentVersion(reviews[i])

(* The permit of an activated case is valid from the activation until it   *)
(* expires, and a case that is not activated has none.                     *)
PermitChecksOut ==
  IF state = "Activated"
  THEN ValidatePermit = IF now < permit.effectiveUntil THEN "active" ELSE "expired"
  ELSE ValidatePermit = "not_found"

(* Expected of the ledger, and not met: a case that only went through      *)
(* legal calls can be read.                                                *)
LedgerReadable == DeviationLedger = "ok"
=============================================================================
