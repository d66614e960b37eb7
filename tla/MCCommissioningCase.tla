------------------------ MODULE MCCommissioningCase ------------------------
(* Small instances of CommissioningCase and CaseReads for TLC. *)
EXTENDS CaseReads, CaseImplementsWorkflow

(* Two samples two ticks apart, and a single sample. *)
MCTwoSamples ==
  [tempMin |-> 10, tempMax |-> 20, humMin |-> 40, humMax |-> 60,
   interval |-> 2, minCount |-> 2, revision |-> 0]
MCOneSample == [MCTwoSamples EXCEPT !.tempMax = 30, !.minCount = 1]
MCSparse == [MCTwoSamples EXCEPT !.interval = 3]
(* The profile that ValidatePlan excepts: two samples, three hours apart. *)
MCLegacy == [MCTwoSamples EXCEPT !.interval = 6]
MCUpsideDown == [MCTwoSamples EXCEPT !.tempMin = 20, !.tempMax = 10]

MCPlan == [setTemp |-> 15, setHum |-> 50, hours |-> 1, submittedBy |-> "ann", planId |-> 0]
MCPlanByBob == [MCPlan EXCEPT !.submittedBy = "bob", !.setTemp = 20]
MCPlanOutside == [MCPlan EXCEPT !.setTemp = 25]

MCLongPlan == [MCPlan EXCEPT !.hours = 4]
MCLongPlans == {MCLongPlan}
MCTwoApart == {MCTwoSamples}

MCGood == [temp |-> 15, hum |-> 50, device |-> "normal"]
MCHot == [MCGood EXCEPT !.temp = 21]
MCHotAndOff == [MCHot EXCEPT !.device = "abnormal"]

MCWorkflowBaselines == {MCTwoSamples, MCOneSample, MCSparse, MCLegacy, MCUpsideDown}
MCWorkflowPlans == {MCPlan, MCPlanByBob, MCPlanOutside}
MCWorkflowReadings == {MCGood}
MCWorkflowIdentities == {"zone1", "zone2"}

(* Samples at every tick, so that a gap and its retest fit in. *)
MCTrialBaselines == {[MCTwoSamples EXCEPT !.interval = 1]}
MCTrialPlans == {MCPlan}
MCGoodAndHot == {MCGood, MCHot}
MCTrialReadings == {MCGood, MCHot, MCHotAndOff}
MCOneIdentity == {"zone1"}
MCPeople == {"ann", "bob"}
=============================================================================
