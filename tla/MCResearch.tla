----------------------------- MODULE MCResearch -----------------------------
(* Signals, cases and passes are three machines that share no state: one   *)
(* run checks all three, each behaviour moving one of them.                *)
EXTENDS TLC, SignalInbox, ResearchCases, ResearchPass

VARIABLE part

vars == <<signalVars, caseVars, passVars, part>>

Init == SignalInit /\ CaseInit /\ PassInit /\ part \in {"signals", "cases", "pass"}

Next ==
  \/ part = "signals" /\ SignalNext /\ UNCHANGED <<caseVars, passVars, part>>
  \/ part = "cases" /\ CaseNext /\ UNCHANGED <<signalVars, passVars, part>>
  \/ part = "pass" /\ PassNext /\ UNCHANGED <<signalVars, caseVars, part>>

Spec == Init /\ [][Next]_vars

TypeOK == SignalTypeOK /\ CaseTypeOK /\ PassTypeOK

(* What the signal store answers: pages that miss and repeat nothing, and  *)
(* smart lists stale by later puts only (signal_store, signal_lists).      *)
PagesAndListsHold == PagesAreComplete /\ SmartListStaleOnlyByPuts

(* An accepted case has its acceptance in the journal and no blocker that  *)
(* was raised and not resolved (research_review, research_queue).          *)
AcceptedCasesHold == AcceptedOnRecord /\ RaisedBlockersHold

(* Passes resumed again and again: the overspend has a bound, and steps    *)
(* run again only after a call that raised (research_orchestration).       *)
PassesAreBounded == OverspendBoundedByCalls /\ RerunsOnlyAfterRaises

TwoSearches == {[kind |-> "any", status |-> "any"], [kind |-> "any", status |-> "reviewed"]}
FactAndHearsay == {Fact, Hearsay}
PeopleSymmetry == Permutations(People)
=============================================================================
