---------------------------- MODULE MCTargeting ----------------------------
(* Demands and target plans share no state: one run checks both, each      *)
(* behaviour moving one of them.                                           *)
EXTENDS TLC, Demands, TargetPlans

VARIABLE part

vars == <<demandVars, planVars, part>>

Init ==
  /\ DemandInit /\ PlanInit
  /\ part \in {"demand", "plan"}
  /\ part = "demand" => fit = Reviewing    \* what does not move starts once

Next ==
  \/ part = "demand" /\ DemandNext /\ UNCHANGED <<planVars, part>>
  \/ part = "plan" /\ PlanNext /\ UNCHANGED <<demandVars, part>>

Spec == Init /\ [][Next]_vars

TypeOK == DemandTypeOK /\ PlanTypeOK

(* Verdicts are earned: a demand is qualified on its checklist and a plan  *)
(* rests on a recorded PURSUE, through every reopening, conflict and stop  *)
(* (demand_lifecycle, fit_lifecycle); the two provenance questions agree   *)
(* (demand_evidence).                                                      *)
VerdictsAreEarned == QualifiedStoodTheChecklist /\ PlanVerdictOnRecord /\ StaleIsNotComplete

TargetingSymmetry == Permutations(Editors) \cup Permutations(Seats)
=============================================================================
