---------------------------- MODULE TargetPlans ----------------------------
(***************************************************************************)
(* From a fit assessment to its target plan and the gate of outreach:      *)
(* fit_gates, fit_lifecycle, fit_targeting_gate, target_plan_policy,       *)
(* target_currentness, target_plan_workflow, reach_gate, over fit_store    *)
(* (saves are refused on a stale version) and target_plan_store (put_plan  *)
(* and put_stakeholder write whole records and compare nothing).  People   *)
(* compute on what they read and save later.                               *)
(***************************************************************************)
EXTENDS Naturals, FiniteSets, EventJournal

CONSTANTS
  Sellers,       \* people at work
  Seats,         \* stakeholder_role_id of the committee
  MaxDay,        \* bound on the clock
  MaxSaves       \* bound on the saves of fit, plan and committee together

ASSUME PlanAssumption == MaxDay \in Nat /\ MaxSaves \in Nat

VARIABLES
  fit, plan,
  committee,     \* committee[s]: a stakeholder record
  hand,          \* hand[p]: what p computed and has not saved
  today,
  verdicts,      \* the FitDecided events of the journal
  past           \* history, see PlanInit

planVars == <<fit, plan, committee, hand, today, verdicts, past>>

Verdicts == {"PURSUE", "REJECT", "HOLD"}
FitTransitions == {<<"draft", "in_review">>, <<"in_review", "decided">>,
                   <<"decided", "stale">>, <<"stale", "in_review">>}
FitStatuses == {move[1] : move \in FitTransitions}
PlanStatuses == {"none", "draft", "active", "stale"}
AuthorityRoles == {"sponsor", "champion"}     \* and the singular ones
Roles == AuthorityRoles \cup {"user"}         \* user: any of the other five

Never == MaxDay + 1    \* the expiry of a verdict that is no override
Fit == [status : FitStatuses, verdict : Verdicts \cup {"none"}, expiry : 0..Never,
        version : Nat]
Stakeholder == [role : Roles, status : {"absent", "active", "superseded"}]

(* read: what the store held when the copy was computed.                   *)
Hands == [doc : {"none"}]
         \cup [doc : {"fit"}, body : Fit]
         \cup [doc : {"plan"}, body : PlanStatuses, read : PlanStatuses]
         \cup [doc : {"seat"}, seat : Seats, body : Stakeholder, read : [Seats -> Stakeholder]]

PlanTypeOK ==
  /\ fit \in Fit
  /\ plan \in PlanStatuses
  /\ committee \in [Seats -> Stakeholder]
  /\ \A p \in Sellers : hand[p] \in Hands
  /\ today \in 0..MaxDay
  /\ \A i \in DOMAIN verdicts : verdicts[i].type \in Verdicts

(* The work begins with a fit to review, or with a draft plan on a         *)
(* recorded PURSUE and a champion in the first seat.                       *)
Reviewing == [status |-> "in_review", verdict |-> "none", expiry |-> Never, version |-> 1]
Pursued == [Reviewing EXCEPT !.status = "decided", !.verdict = "PURSUE", !.version = 2]
Vacant == [role |-> "user", status |-> "absent"]
FitDecided(verdict) == [type |-> verdict, key |-> "fit-decided", splits |-> FALSE]

PlanInit ==
  /\ \/ /\ fit \in {Reviewing, [Reviewing EXCEPT !.status = "draft"]}
        /\ plan = "none"
        /\ committee = [s \in Seats |-> Vacant]
        /\ verdicts = <<>>
     \/ /\ fit = Pursued
        /\ plan = "draft"
        /\ \E first \in Seats :
             committee = [[s \in Seats |-> Vacant] EXCEPT ![first] = [role |-> "champion", status |-> "active"]]
        /\ verdicts = <<FitDecided("PURSUE")>>
  /\ hand = [p \in Sellers |-> [doc |-> "none"]]
  /\ today = 0
  /\ past = [saves |-> 0,
             decisions |-> Len(verdicts),   \* calls of decide_fit that returned
             patched |-> FALSE,     \* the PATCH route wrote a verdict
             raced |-> {},          \* documents put over one not read
             staled |-> FALSE,      \* the plan was marked stale since its creation
             reached |-> FALSE]     \* the gate let outreach through

(***************************************************************************)
(* Gates                                                                   *)
(***************************************************************************)
(* A hard gate of the product snapshot with no check counts as failed.     *)
GatesPassed(gates, checks) ==
  \A gate \in gates : gate \in DOMAIN checks /\ checks[gate]

CanComputeScore(gates, checks, blockers) == blockers = 0 /\ GatesPassed(gates, checks)

(* Below the threshold a PURSUE needs a reason and an expiry, which may    *)
(* already be past; the expiry of a verdict above it is dropped.           *)
MayPursue(gates, checks, blockers, aboveThreshold, expiry) ==
  /\ CanComputeScore(gates, checks, blockers)
  /\ ~aboveThreshold => expiry # Never

OverrideExpired(f) == f.expiry # Never /\ today > f.expiry

CanCreateTargetPlan(f) ==
  /\ f.status = "decided"
  /\ f.verdict = "PURSUE"
  /\ ~OverrideExpired(f)

(* Readiness from the currentness and the confidence a caller supplies.    *)
Ready(role, current, review, evidenced) ==
  /\ ~review /\ current
  /\ role \in AuthorityRoles => evidenced

ActiveSeats == {s \in Seats : committee[s].status = "active"}

CanActivatePlan(readySeats) ==
  \E s \in ActiveSeats \cap readySeats : committee[s].role \in AuthorityRoles

(* The plan is not looked at.                                              *)
CanInitiateAnyway(status, s, readySeats) ==
  /\ committee[s].status = "active"
  /\ s \in readySeats

CanInitiateReach(status, s, readySeats) ==
  /\ status = "active"
  /\ committee[s].status = "active"
  /\ s \in readySeats

(***************************************************************************)
(* The fit                                                                 *)
(***************************************************************************)
Hold(p, copy) ==
  /\ hand' = [hand EXCEPT ![p] = copy]
  /\ UNCHANGED <<fit, plan, committee, today>>

HoldFit(p, f) == Hold(p, [doc |-> "fit", body |-> f])

MoveFit(p, status) ==
  /\ status # "decided"
  /\ <<fit.status, status>> \in FitTransitions
  /\ HoldFit(p, [fit EXCEPT !.status = status])
  /\ UNCHANGED <<verdicts, past>>

(* decide_fit journals before its caller saves, under one key for every    *)
(* verdict of this fit: the journal keeps the first.  gates is what the    *)
(* caller evaluated, in the one case that can pass.                        *)
Decide(p, verdict, aboveThreshold, expiry) ==
  /\ <<fit.status, "decided">> \in FitTransitions
  /\ verdict = "PURSUE" =>
       \E checks \in [{"gate"} -> BOOLEAN] : MayPursue({"gate"}, checks, 0, aboveThreshold, expiry)
  /\ past.decisions < 2
  /\ verdicts' = Appended(verdicts, FitDecided(verdict))
  /\ past' = [past EXCEPT !.decisions = @ + 1]
  /\ HoldFit(p, [fit EXCEPT !.status = "decided", !.verdict = verdict,
                            !.expiry = IF verdict = "PURSUE" /\ ~aboveThreshold THEN expiry ELSE Never])

CanSave == past.saves < MaxSaves

(* PATCH writes any status and verdict under the version the client read.  *)
PatchFit(status, verdict) ==
  /\ CanSave
  /\ fit' = [fit EXCEPT !.status = status, !.verdict = verdict, !.expiry = Never, !.version = @ + 1]
  /\ past' = [past EXCEPT !.saves = @ + 1, !.patched = TRUE]
  /\ UNCHANGED <<plan, committee, hand, today, verdicts>>

Drop(p) == hand' = [hand EXCEPT ![p] = [doc |-> "none"]]

SaveFit(p) ==
  /\ hand[p].doc = "fit"
  /\ \/ /\ CanSave
        /\ hand[p].body.version = fit.version
        /\ fit' = [hand[p].body EXCEPT !.version = @ + 1]
        /\ past' = [past EXCEPT !.saves = @ + 1]
     \/ /\ hand[p].body.version # fit.version    \* FitConflict
        /\ UNCHANGED <<fit, past>>
  /\ Drop(p)
  /\ UNCHANGED <<plan, committee, today, verdicts>>

(***************************************************************************)
(* The plan and its committee                                              *)
(***************************************************************************)
HoldPlan(p, status) ==
  /\ Hold(p, [doc |-> "plan", body |-> status, read |-> plan])
  /\ UNCHANGED <<verdicts, past>>

(* The same identifier may be created over a plan already there.           *)
CreatePlan(p) == CanCreateTargetPlan(fit) /\ HoldPlan(p, "draft")

ActivatePlan(p, readySeats) ==
  /\ plan = "draft"
  /\ CanActivatePlan(readySeats)
  /\ HoldPlan(p, "active")

MarkPlanStale(p) == plan # "none" /\ HoldPlan(p, "stale")

Raced(document, read, stored) ==
  IF read = stored THEN past.raced ELSE past.raced \cup {document}

PutPlan(p) ==
  /\ CanSave
  /\ hand[p].doc = "plan"
  /\ plan' = hand[p].body
  /\ past' = [past EXCEPT !.saves = @ + 1,
                          !.raced = Raced("plan", hand[p].read, plan),
                          !.staled = (plan' = "stale") \/ (@ /\ plan' # "draft")]
  /\ Drop(p)
  /\ UNCHANGED <<fit, committee, today, verdicts>>

RoleFree(role) ==
  role \in AuthorityRoles => \A s \in ActiveSeats : committee[s].role # role

HoldSeat(p, s, stakeholder) ==
  /\ Hold(p, [doc |-> "seat", seat |-> s, body |-> stakeholder, read |-> committee])
  /\ UNCHANGED <<verdicts, past>>

(* A seat given without asking whether the role is taken.                  *)
AssignAnyway(p, s, role) ==
  /\ committee[s].status = "absent"
  /\ HoldSeat(p, s, [role |-> role, status |-> "active"])

Assign(p, s, role) ==
  /\ committee[s].status = "absent"
  /\ RoleFree(role)
  /\ HoldSeat(p, s, [role |-> role, status |-> "active"])

(* A status no view knows.                                                 *)
Remove(p, s) ==
  /\ committee[s].status # "absent"
  /\ HoldSeat(p, s, [committee[s] EXCEPT !.status = "removed"])

Supersede(p, s) ==
  /\ committee[s].status # "absent"
  /\ HoldSeat(p, s, [committee[s] EXCEPT !.status = "superseded"])

PutStakeholder(p) ==
  /\ CanSave
  /\ hand[p].doc = "seat"
  /\ committee' = [committee EXCEPT ![hand[p].seat] = hand[p].body]
  /\ past' = [past EXCEPT !.saves = @ + 1,
                          !.raced = Raced("committee", hand[p].read, committee)]
  /\ Drop(p)
  /\ UNCHANGED <<fit, plan, today, verdicts>>

(* The gate asked at outreach time with readiness evaluated then.          *)
InitiateReach(s, readySeats) ==
  /\ CanInitiateReach(plan, s, readySeats)
  /\ ~past.reached
  /\ past' = [past EXCEPT !.reached = TRUE]
  /\ UNCHANGED <<fit, plan, committee, hand, today, verdicts>>

DayPasses ==
  /\ today < MaxDay
  /\ today' = today + 1
  /\ UNCHANGED <<fit, plan, committee, hand, verdicts, past>>

(* The seats that are ready with one set of findings about the people.     *)
ReadySeats(evidenced) ==
  {s \in Seats : Ready(committee[s].role, TRUE, FALSE, evidenced)}

PlanNext ==
  \/ \E p \in Sellers :
       \/ \E status \in FitStatuses : MoveFit(p, status)
       \/ \E verdict \in Verdicts : Decide(p, verdict, TRUE, Never)
       \/ \E verdict \in Verdicts, expiry \in 0..Never : Decide(p, verdict, FALSE, expiry)
       \/ SaveFit(p)
       \/ CreatePlan(p)
       \/ \E evidenced \in BOOLEAN : ActivatePlan(p, ReadySeats(evidenced))
       \/ MarkPlanStale(p)
       \/ PutPlan(p)
       \/ \E s \in Seats : Supersede(p, s) \/ \E role \in Roles : Assign(p, s, role)
       \/ PutStakeholder(p)
  \/ \E status \in {"decided", "in_review"}, verdict \in {"PURSUE", "REJECT"} : PatchFit(status, verdict)
  \/ \E s \in Seats, evidenced \in BOOLEAN : InitiateReach(s, ReadySeats(evidenced))
  \/ DayPasses

(***************************************************************************)
(* Properties                                                              *)
(***************************************************************************)
(* A plan is the consequence of a recorded verdict: the journal has the    *)
(* PURSUE it rests on, whoever crashed between journalling and saving,     *)
(* unless the fit was decided more than once (one key for all its          *)
(* verdicts) or a PATCH wrote the verdict.                                 *)
PlanVerdictOnRecord ==
  plan # "none" =>
    \/ \E i \in DOMAIN verdicts : verdicts[i].type = "PURSUE"
    \/ past.decisions > 1
    \/ past.patched

(* sponsor and champion are singular: two of them active on a plan are     *)
(* only there when two assignments overlapped between check and put.       *)
OneOfEachAuthority ==
  "committee" \in past.raced \/
    \A s, t \in ActiveSeats :
      s # t /\ committee[s].role = committee[t].role => committee[s].role \notin AuthorityRoles

(* Marking a plan stale ends outreach for good: nobody is reached through  *)
(* a plan marked stale and not created again, unless an older copy of the  *)
(* plan was put over the mark.                                             *)
StalePlansReachNobody ==
  [][past'.reached /\ ~past.reached => ~past.staled \/ "plan" \in past.raced]_planVars
=============================================================================
