---------------------------- MODULE Qualification ----------------------------
(***************************************************************************)
(* One study from its product fit to its pilot: the cockpit that derives   *)
(* the stage and the steps of a study (qualification.py), contact          *)
(* targeting and reach hypotheses (scripts/target_study_contacts.py,       *)
(* scripts/build_reach_hypotheses.py, scripts/qualification_common.py) and *)
(* the reach strategy (reach.py).  Each artifact is a file its own tool    *)
(* writes whole; skills and people edit the fit and the profile at any     *)
(* time between.                                                           *)
(***************************************************************************)
EXTENDS Naturals, FiniteSets, Sequences, FiniteSetsExt

CONSTANTS
  Offers,         \* numbers, in the order the fit lists its matches
  MaxChanges      \* bound on the artifacts written

(* What a contact is to the targeting: a role known to be current, a title *)
(* and relations that score, the lanes those cover.                        *)
Contacts == {[current |-> TRUE, strong |-> TRUE, lanes |-> {"promoter", "prescriber", "terrain_user"}],
             [current |-> TRUE, strong |-> FALSE, lanes |-> {"promoter"}],
             [current |-> FALSE, strong |-> TRUE, lanes |-> {"prescriber"}]}
RequiredLanes == {"promoter", "prescriber", "terrain_user"}

VARIABLES
  profile,     \* 05: "blank", "typed" or "usable"
  snapshot,    \* the offers the manifest holds a snapshot of
  fit,         \* 06: the decision, the recommended offer, the matches
  targets,     \* 06b: the set of contacts, and what they were chosen for
  reach,       \* 06c
  hypotheses,  \* 07b
  engagement,  \* 07: is it complete
  chain        \* history, see QualificationInit

qualificationVars == <<profile, snapshot, fit, targets, reach, hypotheses, engagement, chain>>

Decisions == {"pursue", "validate", "nurture"}
Positive == {"pursue", "validate"}
Gates == {"PASS", "OPEN", "FAIL"}     \* the worst of the blocking gates
Nowhere == 0
Undecided == "none"
NoMatch == [decision |-> Undecided, gate |-> "PASS", score |-> 0]
Matches == {NoMatch} \cup [decision : Positive, gate : Gates, score : {1}]
           \cup {[decision |-> "pursue", gate |-> "PASS", score |-> 2],
                 [decision |-> "nurture", gate |-> "PASS", score |-> 1]}
NoTargets == [offer |-> Nowhere, decision |-> Undecided, score |-> 0, who |-> {}]
NoReach == [offer |-> Nowhere, decision |-> Undecided, blocked |-> FALSE, ready |-> FALSE]
NoHypotheses == [offer |-> Nowhere, score |-> 0, ready |-> 0]

QualificationTypeOK ==
  /\ profile \in {"blank", "typed", "usable"}
  /\ snapshot \subseteq Offers
  /\ fit.decision \in Decisions \cup {Undecided} /\ fit.offer \in Offers \cup {Nowhere}
  /\ fit.matches \in [Offers -> Matches]
  /\ targets.who \subseteq Contacts /\ reach.ready \in BOOLEAN /\ hypotheses.ready \in 0..3
  /\ engagement \in BOOLEAN

(* A study as init_study and the skills before the fit have left it.       *)
QualificationInit ==
  /\ \/ profile = "blank" /\ snapshot = {}       \* as init_study.py left it,
     \/ profile = "usable" /\ snapshot = Offers  \* or worked on by the skills
  /\ fit = [decision |-> Undecided, offer |-> Nowhere, matches |-> [o \in Offers |-> NoMatch]]
  /\ targets = NoTargets /\ reach = NoReach /\ hypotheses = NoHypotheses
  /\ engagement \in BOOLEAN
  /\ chain = [changes |-> 0,
              lag |-> {}]    \* the artifacts older than what they rest on

Change(older) ==
  /\ chain.changes < MaxChanges
  /\ chain' = [changes |-> chain.changes + 1, lag |-> older]

(***************************************************************************)
(* What the skills write                                                   *)
(***************************************************************************)
WriteProfile(p) ==
  /\ profile # p /\ profile' = p
  /\ Change(chain.lag)
  /\ UNCHANGED <<snapshot, fit, targets, reach, hypotheses, engagement>>

AddSnapshot(o) ==
  /\ o \notin snapshot /\ snapshot' = snapshot \cup {o}
  /\ Change(chain.lag)
  /\ UNCHANGED <<profile, fit, targets, reach, hypotheses, engagement>>

WriteFit(d, o, m) ==
  /\ fit' = [decision |-> d, offer |-> o, matches |-> [fit.matches EXCEPT ![o] = m]]
  /\ fit' # fit
  /\ Change({"targets", "reach", "hypotheses"})
  /\ UNCHANGED <<profile, snapshot, targets, reach, hypotheses, engagement>>

WriteEngagement ==
  /\ engagement' = ~engagement
  /\ Change(chain.lag)
  /\ UNCHANGED <<profile, snapshot, fit, targets, reach, hypotheses>>

(***************************************************************************)
(* The selected match: qualification.py takes what it can find, ...        *)
(***************************************************************************)
Matched(f) == {o \in Offers : f.matches[o] # NoMatch}
SelectedMatch(f) ==
  LET agreeing == {o \in Matched(f) : f.matches[o].decision = f.decision}
  IN CASE f.offer \in Matched(f) -> {f.offer}
       [] f.offer \notin Matched(f) /\ agreeing # {} -> {Min(agreeing)}
       [] OTHER -> IF Cardinality(Matched(f)) = 1 THEN Matched(f) ELSE {}

FitViolation(f) ==
  /\ f.decision \in Positive
  /\ \A o \in SelectedMatch(f) : \/ f.matches[o].decision # f.decision
                                 \/ f.matches[o].gate = "FAIL"
                                 \/ f.matches[o].gate = "OPEN" /\ f.decision = "pursue"

(* ... the scripts the recommended offer or nothing.                       *)
GateErrors(m) == \/ m.decision = "pursue" /\ m.gate # "PASS"
                 \/ m.decision = "validate" /\ m.gate = "FAIL"
CommonMatch(f) ==
  {o \in Matched(f) : o = f.offer /\ f.matches[o].decision = f.decision /\ ~GateErrors(f.matches[o])}

(***************************************************************************)
(* Targets, hypotheses and the reach strategy                              *)
(***************************************************************************)
TargetStudyContacts(who) ==
  /\ fit.decision \in Positive /\ CommonMatch(fit) # {} /\ fit.offer \in snapshot
  /\ targets' = [offer |-> fit.offer, decision |-> fit.decision, score |-> fit.matches[fit.offer].score, who |-> who]
  /\ Change((chain.lag \ {"targets"}) \cup {"reach", "hypotheses"})
  /\ UNCHANGED <<profile, snapshot, fit, reach, hypotheses, engagement>>

TargetsAreFresh ==
  /\ targets.offer = fit.offer /\ targets.decision = fit.decision
  /\ targets.score = fit.matches[fit.offer].score

BuildReachHypotheses ==
  /\ fit.decision \in Positive /\ CommonMatch(fit) # {} /\ fit.offer \in snapshot
  /\ TargetsAreFresh
  /\ hypotheses' = [offer |-> fit.offer, score |-> fit.matches[fit.offer].score,
                    ready |-> IF profile = "usable" THEN Cardinality({t \in targets.who : t.current}) ELSE 0]
  /\ Change(chain.lag \ {"hypotheses"})
  /\ UNCHANGED <<profile, snapshot, fit, targets, reach, engagement>>

(* preview: the first wave is current and strong; a contact whose role is  *)
(* not current, a lane nobody covers and an open gate each block.          *)
Wave(t) == IF ~t.current THEN "validation_only" ELSE IF t.strong THEN "first" ELSE "second"
RoleCoverage(who) == UNION {t.lanes : t \in {u \in who : Wave(u) # "validation_only"}}
Blocked ==
  \/ \E t \in targets.who : ~t.current
  \/ RequiredLanes \ RoleCoverage(targets.who) # {}
  \/ \E o \in SelectedMatch(fit) : fit.matches[o].gate = "OPEN"
Inconsistent == targets # NoTargets /\ targets.offer # fit.offer

(* prepare_request: preview, then the strategy is written.                 *)
PrepareReach ==
  /\ fit.decision \in Positive /\ ~FitViolation(fit) /\ fit.offer \in snapshot
  /\ ~Inconsistent
  /\ reach' = [offer |-> fit.offer, decision |-> fit.decision, blocked |-> Blocked,
               ready |-> \E t \in targets.who : Wave(t) = "first"]
  /\ Change(chain.lag \ {"reach"})
  /\ UNCHANGED <<profile, snapshot, fit, targets, hypotheses, engagement>>

(***************************************************************************)
(* The cockpit: the stage and the steps, derived side by side              *)
(***************************************************************************)
DemandReady == profile = "usable"
SnapshotsReady == snapshot # {}
MatchingReady == Matched(fit) # {} /\ fit.decision # Undecided
Violated == MatchingReady /\ FitViolation(fit)
ProgressionAllowed == MatchingReady /\ ~Violated /\ fit.decision \in Positive
ContactsConsistent == targets # NoTargets /\ (fit.offer # Nowhere => targets.offer = fit.offer)
ContactsReady == targets.who # {} /\ ProgressionAllowed /\ ContactsConsistent
ReachReady == reach # NoReach /\ ~reach.blocked /\ reach.ready

CockpitStage ==
  IF ~DemandReady THEN "demand"
  ELSE IF ~SnapshotsReady THEN "product_snapshot"
  ELSE IF ~MatchingReady \/ Violated THEN "matching"
  ELSE IF fit.decision = "nurture" THEN "stopped"
  ELSE IF ~ContactsReady THEN "contact_targeting"
  ELSE IF ~ReachReady THEN "reach"
  ELSE IF ~engagement THEN "pilot" ELSE "completed"

StepOrder == <<"demand", "snapshots", "matching", "contacts", "reach", "pilot">>
Status(done, open) == IF done THEN "completed" ELSE IF open THEN "blocked" ELSE "locked"
Steps == [demand |-> Status(DemandReady, TRUE),
          snapshots |-> Status(SnapshotsReady, DemandReady),
          matching |-> IF Violated THEN "review" ELSE Status(MatchingReady, DemandReady /\ SnapshotsReady),
          contacts |-> Status(ContactsReady, ProgressionAllowed),
          reach |-> Status(ReachReady, ContactsReady),
          pilot |-> Status(engagement /\ ReachReady, ReachReady)]

(* list_ready, for the studies whose decision is positive.                 *)
Readiness == IF reach # NoReach THEN "completed" ELSE IF targets.who # {} THEN "ready" ELSE "blocked"

QualificationNext ==
  \/ \E p \in {"typed", "usable"} : WriteProfile(p)
  \/ \E o \in Offers : AddSnapshot(o)
  \/ \E d \in Decisions, o \in Offers, m \in Matches : WriteFit(d, o, m)
  \/ WriteEngagement
  \/ \E who \in SUBSET Contacts : TargetStudyContacts(who)
  \/ BuildReachHypotheses \/ PrepareReach

(***************************************************************************)
(* Properties                                                              *)
(***************************************************************************)
(* The two derivations of list_studies agree: the stage of a study is its  *)
(* first step that is not completed, and it is completed when every step   *)
(* is; a stopped study is one whose contacts are locked by the decision.   *)
StageIsTheFirstOpenStep ==
  LET open == {i \in DOMAIN StepOrder : Steps[StepOrder[i]] # "completed"}
      stages == <<"demand", "product_snapshot", "matching", "contact_targeting", "reach", "pilot">>
  IN IF open = {} THEN CockpitStage = "completed"
     ELSE \E i \in open : /\ \A j \in open : i <= j
                          /\ CockpitStage = stages[i] \/ (CockpitStage = "stopped" /\ i = 4 /\ Steps.contacts = "locked")

(* What list_ready says of the reach of a study agrees with its stage: past *)
(* the reach there is a strategy, at the reach there are contacts.         *)
ListsAgree ==
  /\ CockpitStage \in {"pilot", "completed"} => Readiness = "completed"
  /\ CockpitStage = "reach" => Readiness \in {"ready", "completed"}

(* A strategy, the targets and the hypotheses speak of the selected offer, *)
(* the decision and the score of the fit unless the fit or the targets     *)
(* were written after them (preview, target_study_contacts,                *)
(* build_reach_hypotheses): nothing later compares a strategy with the fit.*)
StaleOnlyByLaterEdits ==
  /\ reach # NoReach /\ "reach" \notin chain.lag =>
       /\ reach.offer = fit.offer /\ reach.decision = fit.decision
       /\ targets # NoTargets => targets.offer = reach.offer
       /\ reach.ready => targets.who # {}
  /\ hypotheses # NoHypotheses /\ "hypotheses" \notin chain.lag =>
       /\ hypotheses.offer = targets.offer /\ hypotheses.score = targets.score
       /\ hypotheses.score = fit.matches[fit.offer].score

(* Targets the scripts made for the fit as it stands are never refused by  *)
(* the cockpit, which reads the same fit by rules of its own: what         *)
(* selected_match accepts, _fit_violation does not complain of.            *)
ScriptsAndCockpitAgree == CommonMatch(fit) # {} => ~FitViolation(fit)
=============================================================================
