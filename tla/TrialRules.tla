----------------------------- MODULE TrialRules -----------------------------
(***************************************************************************)
(* The rules a commissioning trial is judged by, as constant operators:    *)
(* what a baseline and a plan must satisfy, which rules an observation     *)
(* breaks, which observations of a log are effective, and when the trial   *)
(* window is filled (rules.go, validation.go and the helpers of            *)
(* observation.go and case.go).                                            *)
(*                                                                         *)
(* Abstractions.  Temperatures and humidities are whole degrees and        *)
(* percents, times are ticks of one clock with Hour ticks to the hour, and *)
(* 0 is Go's zero time.  An observation is known by its position in the    *)
(* log: its sequence number is that position, and its identifier, which    *)
(* prepareObservation keeps unique, is one to one with it.  Texts that are *)
(* only trimmed, measured or stored are left out.                          *)
(***************************************************************************)
EXTENDS Integers, Sequences, FiniteSetsExt

CONSTANTS
  Hour,           \* ticks in an hour
  DurationLimit   \* ticks at which a signed 64-bit time.Duration overflows

ASSUME HourAssumption == Hour \in Nat \ {0}
ASSUME DurationLimitAssumption == DurationLimit \in Nat \ {0}

Reading == [temp : Int, hum : Int, device : {"normal", "abnormal"}]
Observation == [at : Nat, reading : Reading, supersedes : Nat]

MeasuredRules == {"TEMP_RANGE", "HUMIDITY_RANGE", "DEVICE_STATUS"}
RuleCodes == MeasuredRules \cup {"SAMPLE_GAP"}

-----------------------------------------------------------------------------
(* Baselines and plans. *)

ValidateBaseline(b) ==
  /\ -50 <= b.tempMin /\ b.tempMin < b.tempMax /\ b.tempMax <= 100
  /\ 0 <= b.humMin /\ b.humMin < b.humMax /\ b.humMax <= 100
  /\ b.interval \in 1 .. 7 * 24 * Hour
  /\ 1 <= b.minCount /\ b.minCount <= 100000

LegacyTwoSampleProfile(p, b) ==
  b.minCount = 2 /\ b.interval = 3 * Hour /\ p.hours = 1

(* Mutant: the intervals between the samples are counted one short. *)
MutantValidatePlan(p, b) ==
  /\ p.hours > 0
  /\ p.setTemp \in b.tempMin .. b.tempMax
  /\ p.setHum \in b.humMin .. b.humMax
  /\ \/ LegacyTwoSampleProfile(p, b)
     \/ p.hours * Hour >= (b.minCount - 2) * b.interval

ValidatePlan(p, b) ==
  /\ p.hours > 0
  /\ p.setTemp \in b.tempMin .. b.tempMax
  /\ p.setHum \in b.humMin .. b.humMax
  /\ \/ LegacyTwoSampleProfile(p, b)
     \/ p.hours * Hour >= (b.minCount - 1) * b.interval

(* Mutant: the largest revision is given again. *)
MutantNextRevision(history) ==
  IF history = <<>> THEN 1 ELSE Max({history[i].revision : i \in DOMAIN history})

(* Both revision counters: one more than the largest revision on record. *)
NextRevision(history) ==
  IF history = <<>> THEN 1
  ELSE 1 + Max({history[i].revision : i \in DOMAIN history})

-----------------------------------------------------------------------------
(* Observation logs. *)

(* The rules that one observation breaks against the locked baseline. *)
EvaluateObservation(o, b) ==
  {r \in MeasuredRules :
     \/ r = "TEMP_RANGE" /\ (o.reading.temp < b.tempMin \/ o.reading.temp > b.tempMax)
     \/ r = "HUMIDITY_RANGE" /\ (o.reading.hum < b.humMin \/ o.reading.hum > b.humMax)
     \/ r = "DEVICE_STATUS" /\ o.reading.device = "abnormal"}

IsObservationSuperseded(log, i) == \E j \in DOMAIN log : log[j].supersedes = i

EffectiveObservations(log) ==
  {i \in DOMAIN log : ~ IsObservationSuperseded(log, i)}

(* Observation k came too long after the last one effective before it. *)
SampleGap(log, k, b) ==
  LET before == EffectiveObservations(SubSeq(log, 1, k - 1))
  IN  /\ before # {}
      /\ log[k].at - log[Max(before)].at > b.interval

(* Mutant: a late observation is not measured. *)
MutantBrokenRules(log, k, b) ==
  IF SampleGap(log, k, b) THEN {"SAMPLE_GAP"} ELSE EvaluateObservation(log[k], b)

BrokenRules(log, k, b) ==
  EvaluateObservation(log[k], b)
    \cup (IF SampleGap(log, k, b) THEN {"SAMPLE_GAP"} ELSE {})

(* time.Duration(hours) * time.Hour, a product of signed 64-bit integers. *)
TrialDuration(p) ==
  ((p.hours * Hour + DurationLimit) % (2 * DurationLimit)) - DurationLimit

Span(log, indices) == log[Max(indices)].at - log[Min(indices)].at

(* Mutant: replaced observations count. *)
MutantTrialWindow(log, p, b) ==
  /\ Len(log) >= b.minCount
  /\ Span(log, DOMAIN log) >= TrialDuration(p)

TrialWindowSatisfied(log, p, b) ==
  LET effective == EffectiveObservations(log)
  IN  /\ Cardinality(effective) >= b.minCount
      /\ Span(log, effective) >= TrialDuration(p)
=============================================================================
