----------------------------- MODULE MCOutreach -----------------------------
(* Outreach, engagement and learning share no state: one run checks the    *)
(* three, each behaviour moving one of them.                               *)
EXTENDS TLC, Outreach, Engagement, Learning

VARIABLE part

vars == <<outreachVars, engagementVars, learningVars, part>>

Init ==
  /\ OutreachInit /\ EngagementInit /\ LearningInit
  /\ part \in {"outreach", "engagement", "learning"}
  /\ part # "outreach" => sequence = "active" /\ channel = "email"    \* what does not move starts once

Next ==
  \/ part = "outreach" /\ OutreachNext /\ UNCHANGED <<engagementVars, learningVars, part>>
  \/ part = "engagement" /\ EngagementNext /\ UNCHANGED <<outreachVars, learningVars, part>>
  \/ part = "learning" /\ LearningNext /\ UNCHANGED <<outreachVars, engagementVars, part>>

Spec == Init /\ [][Next]_vars

TypeOK == OutreachTypeOK /\ EngagementTypeOK /\ LearningTypeOK

(* What a check before an unversioned put lets through when calls overlap  *)
(* or are cut, and only then: sends above the quota (by at most the others *)
(* sending), an inbound event recorded twice, a closed opportunity moved   *)
(* on, a proposal both accepted and rejected or in a status no event       *)
(* explains (reach_execution, engagement_ingestion, opportunity_policy,    *)
(* learning_proposals).                                                    *)
ExcessOnlyByOverlap ==
  /\ QuotaOverrunBounded /\ OneEventPerSource /\ ClosedStaysClosed
  /\ OneVerdict /\ StatusIsExplained

PeopleSymmetry == Permutations(Reps)
=============================================================================
