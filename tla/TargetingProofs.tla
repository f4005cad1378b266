--------------------------- MODULE TargetingProofs ---------------------------
(***************************************************************************)
(* MCTargeting, for every set of people, seats and claims and every bound: *)
(* a demand and the target plan of a fit.  They share no variable, so each *)
(* has its own inductive invariant.                                        *)
(***************************************************************************)
EXTENDS MCTargeting, SequenceTheorems, TLAPS

(***************************************************************************)
(* Demands                                                                 *)
(***************************************************************************)
(* A qualified record, stored or in a draft, knows what the checklist      *)
(* names, unless somebody wrote one by hand.                               *)
Checked(d) == d.status = "qualified" /\ ~byHand => d.known = Dimensions

DemandInv ==
  /\ DemandTypeOK
  /\ Checked(demand)
  /\ \A e \in Editors : draft[e].open => Checked(draft[e].body)

LEMMA DemandInitInv == DemandInit => DemandInv
<1> SUFFICES ASSUME DemandInit PROVE DemandInv
  OBVIOUS
<1>1. NoDemand \in Demand
  BY DemandAssumption DEF NoDemand, Demand, DemandStatuses, DemandTransitions
<1>2. DemandTypeOK
  BY <1>1 DEF DemandInit, DemandTypeOK, NoDraft
<1> QED
  BY <1>2 DEF DemandInit, DemandInv, NoDraft, NoDemand, Checked

(* A draft made of the record just read.                                   *)
LEMMA PreparedInv ==
  ASSUME DemandInv, NEW e \in Editors, NEW body \in Demand,
         Prepared(e, body), Checked(body)
  PROVE  DemandInv'
<1>1. draft \in [Editors -> [open : BOOLEAN, body : Demand]]
  BY DEF DemandInv, DemandTypeOK
<1>2. /\ draft' = [draft EXCEPT ![e] = [open |-> TRUE, body |-> body]]
      /\ UNCHANGED <<demand, retired, byHand>>
  BY DEF Prepared
<1>3. draft' \in [Editors -> [open : BOOLEAN, body : Demand]]
  BY <1>1, <1>2
<1>4. DemandTypeOK'
  BY <1>2, <1>3 DEF DemandInv, DemandTypeOK
<1>5. ASSUME NEW a \in Editors, draft'[a].open PROVE Checked(draft[a].body)'
  <2>1. CASE a = e
    <3>1. draft'[a].body = body
      BY <2>1, <1>1, <1>2
    <3> QED
      BY <3>1, <1>2 DEF Checked
  <2>2. CASE a # e
    <3>1. draft'[a] = draft[a]
      BY <2>2, <1>1, <1>2
    <3> QED
      BY <3>1, <1>2, <1>5 DEF DemandInv, Checked
  <2> QED
    BY <2>1, <2>2
<1> QED
  BY <1>2, <1>4, <1>5 DEF DemandInv, Checked

LEMMA DemandStepInv == DemandInv /\ (DemandNext \/ UNCHANGED demandVars) => DemandInv'
<1> SUFFICES ASSUME DemandInv, DemandNext \/ UNCHANGED demandVars
    PROVE  DemandInv'
  OBVIOUS
<1> USE DemandAssumption
<1>t. /\ DemandTypeOK /\ demand \in Demand /\ Checked(demand)
      /\ draft \in [Editors -> [open : BOOLEAN, body : Demand]]
  BY DEF DemandInv, DemandTypeOK
<1>1. ASSUME NEW status \in DemandStatuses, NEW known \in SUBSET Dimensions,
             PostDemand(status, known)
      PROVE  DemandInv'
  <2>1. /\ demand' = [status |-> status, known |-> known, claims |-> {}, version |-> 1]
        /\ byHand' = (byHand \/ status = "qualified")
        /\ UNCHANGED <<draft, retired>>
    BY <1>1 DEF PostDemand, NoDemand
  <2>2. demand' \in Demand
    BY <2>1 DEF Demand
  <2>3. DemandTypeOK'
    BY <1>t, <2>1, <2>2 DEF DemandTypeOK
  <2> QED
    BY <2>1, <2>3 DEF DemandInv, Checked
<1>2. ASSUME NEW status \in DemandStatuses, NEW known \in SUBSET Dimensions,
             PatchDemand(status, known)
      PROVE  DemandInv'
  <2>1. /\ demand' = [demand EXCEPT !.status = status, !.known = known, !.version = @ + 1]
        /\ demand.version < MaxDemandSaves
        /\ byHand' = (byHand \/ (status = "qualified" /\ <<status, known>> # <<demand.status, demand.known>>))
        /\ UNCHANGED <<draft, retired>>
    BY <1>2, <1>t DEF PatchDemand, Saved, Demand
  <2>2. demand.version + 1 \in 0..MaxDemandSaves
    BY <2>1, <1>t DEF Demand
  <2>3. demand' \in Demand /\ demand'.status = status /\ demand'.known = known
    BY <1>t, <2>1, <2>2 DEF Demand
  <2>4. DemandTypeOK'
    BY <1>t, <2>1, <2>3 DEF DemandTypeOK
  <2>5. Checked(demand)'
    BY <1>t, <2>1, <2>3 DEF Checked
  <2> QED
    BY <2>1, <2>4, <2>5 DEF DemandInv, Checked
<1>3. ASSUME NEW e \in Editors, NEW status \in DemandStatuses, Move(e, status)
      PROVE  DemandInv'
  <2> DEFINE body == [demand EXCEPT !.status = status]
  <2>1. body \in Demand /\ Checked(body)
    BY <1>t, <1>3 DEF Move, MayMove, ChecklistPasses, Demand, Checked
  <2> QED
    BY <1>3, <2>1, PreparedInv DEF Move
<1>4. ASSUME NEW e \in Editors, NEW c \in ClaimIds, Link(e, c) \/ Unlink(e, c)
      PROVE  DemandInv'
  <2>1. /\ LinkClaim(demand, c) \in Demand /\ Checked(LinkClaim(demand, c))
        /\ UnlinkClaim(demand, c) \in Demand /\ Checked(UnlinkClaim(demand, c))
    BY <1>t DEF LinkClaim, UnlinkClaim, Demand, Checked
  <2> QED
    BY <1>4, <2>1, PreparedInv DEF Link, Unlink
<1>5. ASSUME NEW e \in Editors, SaveDraft(e)
      PROVE  DemandInv'
  <2> DEFINE body == draft[e].body
  <2>1. /\ draft' = [draft EXCEPT ![e] = NoDraft]
        /\ UNCHANGED <<retired, byHand>>
        /\ body \in Demand /\ Checked(body)
    BY <1>5, <1>t DEF SaveDraft, DemandInv
  <2>2. NoDraft \in [open : BOOLEAN, body : Demand] /\ ~NoDraft.open
    BY DEF NoDraft, NoDemand, Demand, DemandStatuses, DemandTransitions
  <2>3. draft' \in [Editors -> [open : BOOLEAN, body : Demand]]
    BY <1>t, <2>1, <2>2
  <2>4. \A a \in Editors : draft'[a].open => draft'[a] = draft[a]
    BY <1>t, <2>1, <2>2
  <2>5. demand' \in Demand /\ Checked(demand)'
    <3>1. CASE Saved(body)
      <4>1. demand' = [body EXCEPT !.version = @ + 1] /\ body.version < MaxDemandSaves
        BY <3>1 DEF Saved
      <4>2. body.version + 1 \in 0..MaxDemandSaves
        BY <4>1, <2>1 DEF Demand
      <4>3. demand' \in Demand /\ demand'.status = body.status /\ demand'.known = body.known
        BY <2>1, <4>1, <4>2 DEF Demand
      <4> QED
        BY <2>1, <4>3 DEF Checked
    <3>2. CASE UNCHANGED demand
      BY <3>2, <1>t, <2>1 DEF Checked
    <3> QED
      BY <1>5, <3>1, <3>2 DEF SaveDraft
  <2>6. DemandTypeOK'
    BY <1>t, <2>1, <2>3, <2>5 DEF DemandTypeOK
  <2> QED
    BY <2>1, <2>4, <2>5, <2>6 DEF DemandInv, Checked
<1>6. ASSUME NEW c \in ClaimIds, RetireClaim(c)
      PROVE  DemandInv'
  BY <1>6 DEF RetireClaim, DemandInv, DemandTypeOK, Checked
<1>7. CASE UNCHANGED demandVars
  BY <1>7 DEF demandVars, DemandInv, DemandTypeOK, Checked
<1> QED
  BY <1>1, <1>2, <1>3, <1>4, <1>5, <1>6, <1>7 DEF DemandNext

(***************************************************************************)
(* Target plans                                                            *)
(***************************************************************************)
Decisions == [type : Verdicts, key : {"fit-decided"}, splits : BOOLEAN]

Pasts == [saves : Nat, decisions : Nat, patched : BOOLEAN,
          raced : SUBSET {"plan", "committee"}, staled : BOOLEAN, reached : BOOLEAN]

(* What a plan may rest on: once true of the history, always true.         *)
Earned ==
  \/ \E i \in DOMAIN verdicts : verdicts[i].type = "PURSUE"
  \/ past.decisions > 1
  \/ past.patched

(* The active seats of a committee hold each authority role once.          *)
Singular(seats) ==
  \A s, t \in Seats :
    /\ s # t /\ seats[s].role = seats[t].role
    /\ seats[s].status = "active" /\ seats[t].status = "active"
    => seats[s].role \notin AuthorityRoles

(* A copy not yet saved: a PURSUE and a plan have been earned when it is   *)
(* computed, a plan becomes active from a draft only, and a seat respects  *)
(* the committee that was read.                                            *)
HandOK(h) ==
  /\ h.doc = "fit" /\ h.body.verdict = "PURSUE" => Earned
  /\ h.doc = "plan" =>
       /\ Earned
       /\ h.body \in {"draft", "active", "stale"}
       /\ h.body = "active" => h.read = "draft"
  /\ h.doc = "seat" /\ Singular(h.read) => Singular([h.read EXCEPT ![h.seat] = h.body])

PlanInv ==
  /\ PlanTypeOK
  /\ hand \in [Sellers -> Hands]
  /\ verdicts \in Seq(Decisions)
  /\ past \in Pasts
  /\ Len(verdicts) <= past.decisions
  /\ fit.verdict = "PURSUE" \/ plan # "none" => Earned
  /\ \A p \in Sellers : HandOK(hand[p])
  /\ "committee" \notin past.raced => Singular(committee)
  /\ past.staled /\ "plan" \notin past.raced => plan = "stale"

LEMMA PlanInitInv == PlanInit => PlanInv
<1> SUFFICES ASSUME PlanInit PROVE PlanInv
  OBVIOUS
<1> USE PlanAssumption
<1>1. fit \in Fit /\ plan \in {"none", "draft"} /\ today = 0
  <2>1. FitStatuses = {"draft", "in_review", "decided", "stale"} /\ Never \in 0..Never
    BY DEF FitStatuses, FitTransitions, Never
  <2>2. Reviewing \in Fit /\ Pursued \in Fit
    BY <2>1 DEF Reviewing, Pursued, Fit, Verdicts
  <2>3. [Reviewing EXCEPT !.status = "draft"] \in Fit
    BY <2>1, <2>2 DEF Fit
  <2> QED
    BY <2>2, <2>3 DEF PlanInit
<1>2. /\ verdicts \in Seq(Decisions) /\ Len(verdicts) \in {0, 1}
      /\ \A i \in DOMAIN verdicts : verdicts[i].type \in Verdicts
  <2>1. FitDecided("PURSUE") \in Decisions
    BY DEF FitDecided, Decisions, Verdicts
  <2>2. verdicts \in Seq(Decisions) /\ Len(verdicts) \in {0, 1}
    <3>1. CASE verdicts = <<>>
      BY <3>1
    <3>2. CASE verdicts = <<FitDecided("PURSUE")>>
      BY <2>1, <3>2
    <3> QED
      BY <3>1, <3>2 DEF PlanInit
  <2>3. \A i \in DOMAIN verdicts : verdicts[i] \in Decisions
    BY <2>2
  <2> QED
    BY <2>2, <2>3 DEF Decisions
<1>3. committee \in [Seats -> Stakeholder] /\ Singular(committee)
  <2>1. CASE committee = [s \in Seats |-> Vacant]
    BY <2>1 DEF Vacant, Stakeholder, Roles, AuthorityRoles, Singular
  <2>2. ASSUME NEW first \in Seats,
               committee = [[s \in Seats |-> Vacant] EXCEPT ![first] = [role |-> "champion", status |-> "active"]]
        PROVE  committee \in [Seats -> Stakeholder] /\ Singular(committee)
    <3>1. committee \in [Seats -> Stakeholder]
      BY <2>2 DEF Vacant, Stakeholder, Roles, AuthorityRoles
    <3>2. \A s \in Seats : committee[s].status = "active" => s = first
      BY <2>2 DEF Vacant
    <3> QED
      BY <3>1, <3>2 DEF Singular
  <2> QED
    BY <2>1, <2>2 DEF PlanInit
<1>4. hand \in [Sellers -> Hands] /\ \A p \in Sellers : hand[p].doc = "none"
  BY DEF PlanInit, Hands
<1>5. /\ past = [saves |-> 0, decisions |-> Len(verdicts), patched |-> FALSE,
                 raced |-> {}, staled |-> FALSE, reached |-> FALSE]
      /\ past \in Pasts
  BY <1>2 DEF PlanInit, Pasts
<1>6. PlanTypeOK
  BY <1>1, <1>2, <1>3, <1>4 DEF PlanTypeOK, PlanStatuses
<1>7. fit.verdict = "PURSUE" \/ plan # "none" => Earned
  <2>1. CASE verdicts = <<FitDecided("PURSUE")>>
    BY <2>1 DEF Earned, FitDecided
  <2>2. CASE fit.verdict = "none" /\ plan = "none"
    BY <2>2
  <2> QED
    BY <2>1, <2>2 DEF PlanInit, Reviewing
<1>8. Len(verdicts) <= past.decisions
  BY <1>2, <1>5
<1> QED
  BY <1>2, <1>3, <1>4, <1>5, <1>6, <1>7, <1>8 DEF PlanInv, HandOK

(* Nothing is found in an empty journal, and a verdict once in it stays.   *)
LEMMA DecisionsGrow ==
  ASSUME NEW j \in Seq(Decisions), NEW e \in Decisions
  PROVE  /\ Appended(j, e) \in Seq(Decisions)
         /\ Len(Appended(j, e)) <= Len(j) + 1
         /\ (\E i \in DOMAIN j : j[i].type = "PURSUE")
              => \E i \in DOMAIN Appended(j, e) : Appended(j, e)[i].type = "PURSUE"
         /\ Len(j) = 0 /\ e.type = "PURSUE"
              => \E i \in DOMAIN Appended(j, e) : Appended(j, e)[i].type = "PURSUE"
<1> DEFINE k == Append(j, e)
<1>l. PICK len \in Nat : len = Len(j) /\ DOMAIN j = 1..len
  OBVIOUS
<1>1. /\ k \in Seq(Decisions) /\ Len(k) = len + 1
      /\ k[len + 1] = e /\ \A i \in 1..len : k[i] = j[i]
  BY <1>l, AppendProperties
<1> HIDE DEF k
<1>2. DOMAIN k = 1..len + 1
  BY <1>1
<1>3. (\E i \in DOMAIN j : j[i].type = "PURSUE") => \E i \in DOMAIN k : k[i].type = "PURSUE"
  <2> SUFFICES ASSUME NEW i \in 1..len, j[i].type = "PURSUE"
      PROVE  i \in DOMAIN k /\ k[i].type = "PURSUE"
    BY <1>l
  <2> QED
    BY <1>1, <1>2
<1>4. ASSUME Len(j) = 0 PROVE ~Found(j, e.key)
  <2>1. FirstBroken(j) = 1
    <3> DEFINE Stops(n) == /\ n <= Len(j) => j[n].splits
                           /\ \A i \in 1..n - 1 : ~j[i].splits
    <3>1. Stops(1) /\ 1 \in 1..Len(j) + 1
      BY <1>4
    <3>2. FirstBroken(j) = CHOOSE n \in 1..Len(j) + 1 : Stops(n)
      BY DEF FirstBroken
    <3> HIDE DEF Stops
    <3>3. FirstBroken(j) \in 1..Len(j) + 1
      BY <3>1, <3>2
    <3> QED
      BY <3>3, <1>4
  <2>2. Replayed(j) = <<>>
    BY <2>1, SubSeqEmpty DEF Replayed
  <2> QED
    BY <2>2 DEF Found
<1>5. len + 1 \in DOMAIN k
  BY <1>2
<1>6. Appended(j, e) = IF Found(j, e.key) THEN j ELSE k
  BY DEF Appended, k
<1>7. CASE Found(j, e.key)
  BY <1>l, <1>4, <1>6, <1>7
<1>8. CASE ~Found(j, e.key)
  BY <1>l, <1>1, <1>3, <1>5, <1>6, <1>8
<1> QED
  BY <1>7, <1>8

(* The copies people hold stay good while what was earned stays so.        *)
LEMMA HandsKept ==
  ASSUME PlanInv, NEW p \in Sellers, NEW h \in Hands,
         hand' = [hand EXCEPT ![p] = h], HandOK(h)', Earned => Earned'
  PROVE  hand' \in [Sellers -> Hands] /\ \A q \in Sellers : HandOK(hand[q])'
<1>1. hand \in [Sellers -> Hands]
  BY DEF PlanInv
<1>2. ASSUME NEW q \in Sellers PROVE HandOK(hand[q])'
  <2>1. CASE q = p
    <3>1. hand'[q] = h
      BY <2>1, <1>1
    <3> QED
      BY <3>1 DEF HandOK
  <2>2. CASE q # p
    <3>1. hand'[q] = hand[q]
      BY <2>2, <1>1
    <3>2. HandOK(hand[q])
      BY DEF PlanInv
    <3> QED
      BY <3>1, <3>2 DEF HandOK
  <2> QED
    BY <2>1, <2>2
<1> QED
  BY <1>1, <1>2

(* A function of the policy modules: p holds a copy, nothing is saved.     *)
LEMMA HoldInv ==
  ASSUME PlanInv, NEW p \in Sellers, NEW h \in Hands,
         Hold(p, h), UNCHANGED <<verdicts, past>>, HandOK(h)
  PROVE  PlanInv'
<1>1. /\ hand' = [hand EXCEPT ![p] = h]
      /\ UNCHANGED <<fit, plan, committee, today, verdicts, past>>
  BY DEF Hold
<1>2. Earned' <=> Earned
  BY <1>1 DEF Earned
<1>3. HandOK(h)'
  BY <1>2 DEF HandOK
<1>4. hand' \in [Sellers -> Hands] /\ \A q \in Sellers : HandOK(hand[q])'
  BY <1>1, <1>2, <1>3, HandsKept
<1>5. PlanTypeOK'
  BY <1>1, <1>4 DEF PlanInv, PlanTypeOK
<1> QED
  BY <1>1, <1>2, <1>4, <1>5 DEF PlanInv, Singular

(* decide_fit: the journal first, the copy after.  The first verdict is in *)
(* the journal; a later one makes more decisions than one.                 *)
LEMMA DecideInv ==
  ASSUME PlanInv, NEW p \in Sellers, NEW verdict \in Verdicts, NEW above \in BOOLEAN,
         NEW expiry \in 0..Never, Decide(p, verdict, above, expiry)
  PROVE  PlanInv'
<1> USE PlanAssumption
<1> DEFINE e == FitDecided(verdict)
           f == [fit EXCEPT !.status = "decided", !.verdict = verdict,
                            !.expiry = IF verdict = "PURSUE" /\ ~above THEN expiry ELSE Never]
<1>t. /\ PlanTypeOK /\ fit \in Fit /\ hand \in [Sellers -> Hands]
      /\ verdicts \in Seq(Decisions) /\ past \in Pasts
  BY DEF PlanInv, PlanTypeOK
<1>1. /\ verdicts' = Appended(verdicts, e)
      /\ past' = [past EXCEPT !.decisions = @ + 1]
      /\ hand' = [hand EXCEPT ![p] = [doc |-> "fit", body |-> f]]
      /\ UNCHANGED <<fit, plan, committee, today>>
  BY DEF Decide, HoldFit, Hold
<1>2. e \in Decisions /\ e.type = verdict
  BY DEF FitDecided, Decisions
<1>3. PICK h \in Hands : h = [doc |-> "fit", body |-> f]
  <2>1. Never \in 0..Never /\ "decided" \in FitStatuses
    BY DEF Never, FitStatuses, FitTransitions
  <2>2. f \in Fit
    BY <1>t, <2>1 DEF Fit
  <2> HIDE DEF f
  <2> QED
    BY <2>2 DEF Hands
<1>4. PICK len \in Nat, made \in Nat :
        len = Len(verdicts) /\ made = past.decisions /\ len <= made
  BY <1>t DEF PlanInv, Pasts
<1>5. /\ past' \in Pasts /\ past'.decisions = made + 1 /\ past'.patched = past.patched
      /\ past'.raced = past.raced /\ past'.staled = past.staled
  BY <1>t, <1>1, <1>4 DEF Pasts
<1>6. /\ verdicts' \in Seq(Decisions) /\ Len(verdicts') <= len + 1
      /\ (\E i \in DOMAIN verdicts : verdicts[i].type = "PURSUE")
           => \E i \in DOMAIN verdicts' : verdicts'[i].type = "PURSUE"
      /\ len = 0 /\ verdict = "PURSUE" => \E i \in DOMAIN verdicts' : verdicts'[i].type = "PURSUE"
  BY <1>t, <1>1, <1>2, <1>4, DecisionsGrow
<1>7. Earned => Earned'
  <2>1. made > 1 => made + 1 > 1
    OBVIOUS
  <2> QED
    BY <1>4, <1>5, <1>6, <2>1 DEF Earned
<1>8. verdict = "PURSUE" => Earned'
  <2>1. CASE len = 0
    BY <2>1, <1>6 DEF Earned
  <2>2. CASE len # 0
    <3>1. made + 1 > 1
      BY <2>2, <1>4
    <3> QED
      BY <3>1, <1>5 DEF Earned
  <2> QED
    BY <2>1, <2>2
<1>9. HandOK(h)'
  <2>1. h.doc = "fit" /\ h.body = f
    BY <1>3
  <2>2. f.verdict = verdict
    BY <1>t DEF Fit
  <2> HIDE DEF f
  <2> QED
    BY <1>8, <2>1, <2>2 DEF HandOK
<1>10. hand' \in [Sellers -> Hands] /\ \A q \in Sellers : HandOK(hand[q])'
  <2>1. hand' = [hand EXCEPT ![p] = h]
    BY <1>1, <1>3
  <2> QED
    BY <2>1, <1>7, <1>9, HandsKept
<1>11. Len(verdicts') <= past'.decisions
  <2>1. PICK n \in Nat : n = Len(verdicts')
    BY <1>6
  <2> QED
    BY <2>1, <1>4, <1>5, <1>6
<1>12. PlanTypeOK'
  <2>1. \A i \in DOMAIN verdicts' : verdicts'[i] \in Decisions
    BY <1>6
  <2>2. \A i \in DOMAIN verdicts' : verdicts'[i].type \in Verdicts
    BY <2>1 DEF Decisions
  <2> QED
    BY <1>t, <1>1, <1>10, <2>2 DEF PlanTypeOK
<1> QED
  BY <1>1, <1>5, <1>6, <1>7, <1>10, <1>11, <1>12 DEF PlanInv, Singular

(* A save, a patch, the gate or the clock: the journal stays and what was  *)
(* earned stays earned.                                                    *)
LEMMA SavedInv ==
  ASSUME PlanInv, past' \in Pasts, UNCHANGED verdicts,
         past'.decisions = past.decisions, past.patched => past'.patched,
         fit' \in Fit, plan' \in PlanStatuses, committee' \in [Seats -> Stakeholder],
         today' \in 0..MaxDay,
         hand' = hand \/ \E p \in Sellers : Drop(p),
         fit'.verdict = "PURSUE" => Earned',
         plan' # "none" => Earned',
         "committee" \notin past'.raced => Singular(committee'),
         past'.staled /\ "plan" \notin past'.raced => plan' = "stale"
  PROVE  PlanInv'
<1>1. Earned => Earned'
  BY DEF Earned
<1>2. hand' \in [Sellers -> Hands] /\ \A q \in Sellers : HandOK(hand[q])'
  <2>1. CASE hand' = hand
    BY <2>1, <1>1 DEF PlanInv, HandOK
  <2>2. ASSUME NEW p \in Sellers, Drop(p)
        PROVE  hand' \in [Sellers -> Hands] /\ \A q \in Sellers : HandOK(hand[q])'
    <3> DEFINE h == [doc |-> "none"]
    <3>1. h \in Hands /\ hand' = [hand EXCEPT ![p] = h] /\ HandOK(h)'
      BY <2>2 DEF Hands, Drop, HandOK
    <3> HIDE DEF h
    <3> QED
      BY <3>1, <1>1, HandsKept
  <2> QED
    BY <2>1, <2>2
<1>3. PlanTypeOK'
  BY <1>2 DEF PlanInv, PlanTypeOK
<1> QED
  BY <1>2, <1>3 DEF PlanInv, Singular

(* One more save, and what the documents became.                           *)
LEMMA CountedSave ==
  ASSUME past \in Pasts, NEW raced \in SUBSET {"plan", "committee"}, NEW staled \in BOOLEAN,
         NEW patched \in BOOLEAN,
         past' = [past EXCEPT !.saves = @ + 1, !.patched = patched, !.raced = raced, !.staled = staled]
  PROVE  /\ past' \in Pasts
         /\ past'.decisions = past.decisions /\ past'.patched = patched
         /\ past'.raced = raced /\ past'.staled = staled
<1>1. PICK n \in Nat : n = past.saves
  BY DEF Pasts
<1>2. past' = [past EXCEPT !.saves = n + 1, !.patched = patched, !.raced = raced, !.staled = staled]
  BY <1>1
<1>3. n + 1 \in Nat
  OBVIOUS
<1> QED
  BY <1>2, <1>3 DEF Pasts

(* What the invariant says of a copy in hand.                              *)
LEMMA InHand ==
  ASSUME PlanInv, NEW p \in Sellers
  PROVE  /\ hand[p] \in Hands /\ HandOK(hand[p])
         /\ hand[p].doc = "fit" => hand[p].body \in Fit
         /\ hand[p].doc = "plan" => hand[p].body \in PlanStatuses /\ hand[p].read \in PlanStatuses
         /\ hand[p].doc = "seat" => /\ hand[p].seat \in Seats /\ hand[p].body \in Stakeholder
                                    /\ hand[p].read \in [Seats -> Stakeholder]
<1>1. hand[p] \in Hands /\ HandOK(hand[p])
  BY DEF PlanInv
<1>2. PICK h \in Hands : h = hand[p]
  BY <1>1
<1>3. /\ h.doc = "fit" => h.body \in Fit
      /\ h.doc = "plan" => h.body \in PlanStatuses /\ h.read \in PlanStatuses
      /\ h.doc = "seat" => /\ h.seat \in Seats /\ h.body \in Stakeholder
                           /\ h.read \in [Seats -> Stakeholder]
  <2>1. CASE h \in [doc : {"none"}]
    BY <2>1
  <2>2. CASE h \in [doc : {"fit"}, body : Fit]
    BY <2>2
  <2>3. CASE h \in [doc : {"plan"}, body : PlanStatuses, read : PlanStatuses]
    BY <2>3
  <2>4. CASE h \in [doc : {"seat"}, seat : Seats, body : Stakeholder, read : [Seats -> Stakeholder]]
    BY <2>4
  <2> QED
    BY <2>1, <2>2, <2>3, <2>4 DEF Hands
<1> QED
  BY <1>1, <1>2, <1>3

(* HoldPlan and HoldSeat: what they hold is good when the plan was earned, *)
(* and when the committee with the seat filled respects the one read.      *)
LEMMA HoldPlanInv ==
  ASSUME PlanInv, NEW p \in Sellers, NEW status \in {"draft", "active", "stale"},
         HoldPlan(p, status), Earned, status = "active" => plan = "draft"
  PROVE  PlanInv'
<1>1. plan \in PlanStatuses /\ status \in PlanStatuses
  BY DEF PlanInv, PlanTypeOK, PlanStatuses
<1>2. PICK h \in Hands : h = [doc |-> "plan", body |-> status, read |-> plan]
  BY <1>1 DEF Hands
<1>3. h.doc = "plan" /\ h.body = status /\ h.read = plan
  BY <1>2
<1>4. HandOK(h)
  BY <1>3 DEF HandOK
<1> QED
  BY <1>2, <1>4, HoldInv DEF HoldPlan

LEMMA HoldSeatInv ==
  ASSUME PlanInv, NEW p \in Sellers, NEW s \in Seats, NEW stakeholder \in Stakeholder,
         HoldSeat(p, s, stakeholder),
         Singular(committee) => Singular([committee EXCEPT ![s] = stakeholder])
  PROVE  PlanInv'
<1>1. committee \in [Seats -> Stakeholder]
  BY DEF PlanInv, PlanTypeOK
<1>2. PICK h \in Hands : h = [doc |-> "seat", seat |-> s, body |-> stakeholder, read |-> committee]
  BY <1>1 DEF Hands
<1>3. h.doc = "seat" /\ h.seat = s /\ h.body = stakeholder /\ h.read = committee
  BY <1>2
<1>4. HandOK(h)
  BY <1>3 DEF HandOK
<1> QED
  BY <1>2, <1>4, HoldInv DEF HoldSeat

LEMMA PlanStepInv == PlanInv /\ (PlanNext \/ UNCHANGED planVars) => PlanInv'
<1> SUFFICES ASSUME PlanInv, PlanNext \/ UNCHANGED planVars
    PROVE  PlanInv'
  OBVIOUS
<1> USE PlanAssumption
<1>t. /\ fit \in Fit /\ plan \in PlanStatuses /\ committee \in [Seats -> Stakeholder]
      /\ today \in 0..MaxDay /\ past \in Pasts
      /\ fit.verdict = "PURSUE" \/ plan # "none" => Earned
      /\ "committee" \notin past.raced => Singular(committee)
      /\ past.staled /\ "plan" \notin past.raced => plan = "stale"
  BY DEF PlanInv, PlanTypeOK
<1>p. /\ past.patched \in BOOLEAN /\ past.staled \in BOOLEAN
      /\ past.raced \in SUBSET {"plan", "committee"}
  BY <1>t DEF Pasts
<1>v. PICK version \in Nat : version = fit.version
  BY <1>t DEF Fit
<1>1. ASSUME NEW p \in Sellers, NEW status \in FitStatuses, MoveFit(p, status)
      PROVE  PlanInv'
  <2> DEFINE f == [fit EXCEPT !.status = status]
  <2>1. f \in Fit /\ f.verdict = fit.verdict
    BY <1>t DEF Fit
  <2>2. HoldFit(p, f) /\ UNCHANGED <<verdicts, past>>
    BY <1>1 DEF MoveFit
  <2> HIDE DEF f
  <2>3. PICK h \in Hands : h = [doc |-> "fit", body |-> f]
    BY <2>1 DEF Hands
  <2>4. HandOK(h)
    <3>1. h.doc = "fit" /\ h.body = f
      BY <2>3
    <3> QED
      BY <3>1, <2>1, <1>t DEF HandOK
  <2> QED
    BY <2>2, <2>3, <2>4, HoldInv DEF HoldFit
<1>2. ASSUME NEW p \in Sellers, NEW verdict \in Verdicts, NEW above \in BOOLEAN,
             NEW expiry \in 0..Never, Decide(p, verdict, above, expiry)
      PROVE  PlanInv'
  BY <1>2, DecideInv
<1>3. ASSUME NEW p \in Sellers, SaveFit(p)
      PROVE  PlanInv'
  <2>1. Drop(p) /\ hand[p].doc = "fit" /\ UNCHANGED <<plan, committee, today, verdicts>>
    BY <1>3 DEF SaveFit
  <2>2. PICK body \in Fit : body = hand[p].body
    BY <2>1, InHand
  <2>3. body.verdict = "PURSUE" => Earned
    BY <2>1, <2>2, InHand DEF HandOK
  <2>4. CASE /\ fit' = [hand[p].body EXCEPT !.version = @ + 1]
             /\ body.version = version
             /\ past' = [past EXCEPT !.saves = @ + 1]
    <3>1. /\ past' \in Pasts /\ past'.decisions = past.decisions
          /\ past'.patched = past.patched /\ past'.raced = past.raced /\ past'.staled = past.staled
      <4>1. past' = [past EXCEPT !.saves = @ + 1, !.patched = past.patched,
                                 !.raced = past.raced, !.staled = past.staled]
        BY <1>t, <2>4 DEF Pasts
      <4> QED
        BY <4>1, <1>t, <1>p, CountedSave
    <3>2. fit' = [body EXCEPT !.version = version + 1] /\ version + 1 \in Nat
      BY <2>2, <2>4
    <3>3. fit' \in Fit /\ fit'.verdict = body.verdict
      BY <3>2 DEF Fit
    <3>4. Earned => Earned'
      BY <2>1, <3>1 DEF Earned
    <3> QED
      BY <1>t, <2>1, <2>3, <3>1, <3>3, <3>4, SavedInv
  <2>5. CASE UNCHANGED <<fit, past>>
    <3>1. Earned => Earned'
      BY <2>1, <2>5 DEF Earned
    <3> QED
      BY <1>t, <2>1, <2>5, <3>1, SavedInv
  <2> QED
    BY <1>3, <1>v, <2>2, <2>4, <2>5 DEF SaveFit
<1>4. ASSUME NEW p \in Sellers, CreatePlan(p)
      PROVE  PlanInv'
  BY <1>4, <1>t, HoldPlanInv DEF CreatePlan, CanCreateTargetPlan
<1>5. ASSUME NEW p \in Sellers, NEW readySeats, ActivatePlan(p, readySeats)
      PROVE  PlanInv'
  BY <1>5, <1>t, HoldPlanInv DEF ActivatePlan
<1>6. ASSUME NEW p \in Sellers, MarkPlanStale(p)
      PROVE  PlanInv'
  BY <1>6, <1>t, HoldPlanInv DEF MarkPlanStale
<1>7. ASSUME NEW p \in Sellers, PutPlan(p)
      PROVE  PlanInv'
  <2> DEFINE raced == Raced("plan", hand[p].read, plan)
             staled == (hand[p].body = "stale") \/ (past.staled /\ hand[p].body # "draft")
  <2>1. /\ Drop(p) /\ hand[p].doc = "plan" /\ plan' = hand[p].body
        /\ UNCHANGED <<fit, committee, today, verdicts>>
    BY <1>7 DEF PutPlan
  <2>2. /\ Earned /\ plan' \in PlanStatuses /\ plan' \in {"draft", "active", "stale"}
        /\ plan' = "active" => hand[p].read = "draft"
    BY <2>1, InHand DEF HandOK
  <2>3. raced \in SUBSET {"plan", "committee"} /\ staled \in BOOLEAN
    BY <1>p DEF Raced
  <2>4. /\ past' \in Pasts /\ past'.decisions = past.decisions
        /\ past'.patched = past.patched /\ past'.raced = raced /\ past'.staled = staled
    <3>1. past' = [past EXCEPT !.saves = @ + 1, !.patched = past.patched,
                               !.raced = raced, !.staled = staled]
      BY <1>7, <1>t DEF PutPlan, Pasts
    <3> HIDE DEF raced, staled
    <3> QED
      BY <3>1, <1>t, <1>p, <2>3, CountedSave
  <2>5. Earned'
    BY <2>1, <2>2, <2>4 DEF Earned
  <2>6. staled /\ "plan" \notin raced => plan' = "stale"
    BY <1>t, <2>1, <2>2 DEF Raced
  <2>7. "committee" \notin raced => Singular(committee)
    BY <1>t DEF Raced
  <2> QED
    BY <1>t, <2>1, <2>2, <2>4, <2>5, <2>6, <2>7, SavedInv
<1>8. ASSUME NEW p \in Sellers, NEW s \in Seats, Supersede(p, s)
      PROVE  PlanInv'
  <2> DEFINE seat == [committee[s] EXCEPT !.status = "superseded"]
  <2>1. seat \in Stakeholder /\ seat.status = "superseded"
    BY <1>t DEF Stakeholder
  <2>2. HoldSeat(p, s, seat)
    BY <1>8 DEF Supersede
  <2> HIDE DEF seat
  <2>3. Singular(committee) => Singular([committee EXCEPT ![s] = seat])
    BY <1>t, <2>1 DEF Singular
  <2> QED
    BY <2>1, <2>2, <2>3, HoldSeatInv
<1>9. ASSUME NEW p \in Sellers, NEW s \in Seats, NEW role \in Roles, Assign(p, s, role)
      PROVE  PlanInv'
  <2> DEFINE seat == [role |-> role, status |-> "active"]
             filled == [committee EXCEPT ![s] = seat]
  <2>1. seat \in Stakeholder /\ seat.role = role /\ seat.status = "active"
    BY DEF Stakeholder
  <2>2. HoldSeat(p, s, seat)
    BY <1>9 DEF Assign
  <2>3. \A t \in Seats : committee[t].status = "active" /\ committee[t].role = role
          => role \notin AuthorityRoles
    BY <1>9 DEF Assign, RoleFree, ActiveSeats
  <2> HIDE DEF seat
  <2>4. filled[s] = seat /\ \A t \in Seats : t # s => filled[t] = committee[t]
    BY <1>t
  <2> HIDE DEF filled
  <2>5. Singular(committee) => Singular(filled)
    BY <2>1, <2>3, <2>4 DEF Singular
  <2> QED
    BY <2>1, <2>2, <2>5, HoldSeatInv DEF filled
<1>10. ASSUME NEW p \in Sellers, PutStakeholder(p)
       PROVE  PlanInv'
  <2> DEFINE raced == Raced("committee", hand[p].read, committee)
  <2>1. /\ Drop(p) /\ hand[p].doc = "seat"
        /\ committee' = [committee EXCEPT ![hand[p].seat] = hand[p].body]
        /\ UNCHANGED <<fit, plan, today, verdicts>>
    BY <1>10 DEF PutStakeholder
  <2>2. committee' \in [Seats -> Stakeholder]
    BY <1>t, <2>1, InHand
  <2>3. raced \in SUBSET {"plan", "committee"}
    BY <1>p DEF Raced
  <2>4. /\ past' \in Pasts /\ past'.decisions = past.decisions
        /\ past'.patched = past.patched /\ past'.raced = raced /\ past'.staled = past.staled
    <3>1. past' = [past EXCEPT !.saves = @ + 1, !.patched = past.patched,
                               !.raced = raced, !.staled = past.staled]
      BY <1>10, <1>t DEF PutStakeholder, Pasts
    <3> HIDE DEF raced
    <3> QED
      BY <3>1, <1>t, <1>p, <2>3, CountedSave
  <2>5. "committee" \notin raced => Singular(committee')
    BY <1>t, <2>1, InHand DEF Raced, HandOK
  <2>6. Earned => Earned'
    BY <2>1, <2>4 DEF Earned
  <2>7. "plan" \notin raced => "plan" \notin past.raced
    BY DEF Raced
  <2> QED
    BY <1>t, <2>1, <2>2, <2>4, <2>5, <2>6, <2>7, SavedInv
<1>11. ASSUME NEW status \in {"decided", "in_review"}, NEW verdict \in {"PURSUE", "REJECT"},
              PatchFit(status, verdict)
       PROVE  PlanInv'
  <2>1. UNCHANGED <<plan, committee, hand, today, verdicts>>
    BY <1>11 DEF PatchFit
  <2>2. fit' \in Fit
    <3>1. /\ status \in FitStatuses /\ verdict \in Verdicts \cup {"none"}
          /\ Never \in 0..Never /\ version + 1 \in Nat
      BY DEF FitStatuses, FitTransitions, Verdicts, Never
    <3>2. fit' = [fit EXCEPT !.status = status, !.verdict = verdict,
                             !.expiry = Never, !.version = version + 1]
      BY <1>11, <1>v DEF PatchFit
    <3> QED
      BY <1>t, <3>1, <3>2 DEF Fit
  <2>3. /\ past' \in Pasts /\ past'.decisions = past.decisions /\ past'.patched = TRUE
        /\ past'.raced = past.raced /\ past'.staled = past.staled
    <3>1. past' = [past EXCEPT !.saves = @ + 1, !.patched = TRUE,
                               !.raced = past.raced, !.staled = past.staled]
      BY <1>11, <1>t DEF PatchFit, Pasts
    <3> QED
      BY <3>1, <1>t, <1>p, CountedSave
  <2>4. Earned'
    BY <2>3 DEF Earned
  <2> QED
    BY <1>t, <2>1, <2>2, <2>3, <2>4, SavedInv
<1>12. ASSUME NEW s \in Seats, NEW readySeats, InitiateReach(s, readySeats)
       PROVE  PlanInv'
  <2>1. /\ past' = [past EXCEPT !.reached = TRUE]
        /\ UNCHANGED <<fit, plan, committee, hand, today, verdicts>>
    BY <1>12 DEF InitiateReach
  <2>2. /\ past' \in Pasts /\ past'.decisions = past.decisions /\ past'.patched = past.patched
        /\ past'.raced = past.raced /\ past'.staled = past.staled
    BY <1>t, <2>1 DEF Pasts
  <2>3. Earned => Earned'
    BY <2>1, <2>2 DEF Earned
  <2> QED
    BY <1>t, <2>1, <2>2, <2>3, SavedInv
<1>13. CASE DayPasses
  <2>1. /\ today' = today + 1 /\ today < MaxDay
        /\ UNCHANGED <<fit, plan, committee, hand, verdicts, past>>
    BY <1>13 DEF DayPasses
  <2>2. today' \in 0..MaxDay
    BY <1>t, <2>1
  <2>3. Earned => Earned'
    BY <2>1 DEF Earned
  <2> QED
    BY <1>t, <2>1, <2>2, <2>3, SavedInv
<1>14. CASE UNCHANGED planVars
  BY <1>14 DEF planVars, PlanInv, PlanTypeOK, Earned, HandOK, Singular
<1>15. Never \in 0..Never
  BY DEF Never
<1> QED
  BY <1>1, <1>2, <1>3, <1>4, <1>5, <1>6, <1>7, <1>8, <1>9, <1>10, <1>11, <1>12, <1>13,
     <1>14, <1>15 DEF PlanNext

(***************************************************************************)
(* Both                                                                    *)
(***************************************************************************)
IInv == DemandInv /\ PlanInv

LEMMA Invariance == Spec => []IInv
<1>1. Init => IInv
  BY DemandInitInv, PlanInitInv DEF Init, IInv
<1>2. IInv /\ [Next]_vars => IInv'
  <2> SUFFICES ASSUME IInv, [Next]_vars PROVE IInv'
    OBVIOUS
  <2>1. /\ DemandNext \/ UNCHANGED demandVars
        /\ PlanNext \/ UNCHANGED planVars
    BY DEF Next, vars
  <2> QED
    BY <2>1, DemandStepInv, PlanStepInv DEF IInv
<1> QED
  BY <1>1, <1>2, PTL DEF Spec

(* Every state is well typed: demands and drafts, the fit, its plan, the   *)
(* committee, the copies people hold and the journal (demand_store,        *)
(* fit_store, target_plan_store).                                          *)
THEOREM TypeCorrect == Spec => []TypeOK
<1>1. IInv => TypeOK
  BY DEF IInv, DemandInv, PlanInv, TypeOK
<1> QED
  BY <1>1, Invariance, PTL

(* A demand is qualified on its checklist and a plan rests on a recorded   *)
(* PURSUE, whatever interleaving of copies, conflicts and patches          *)
(* (demand_lifecycle, fit_lifecycle, target_plan_policy).                  *)
THEOREM VerdictsEarned == Spec => []VerdictsAreEarned
<1>1. IInv => QualifiedStoodTheChecklist
  BY DEF IInv, DemandInv, Checked, QualifiedStoodTheChecklist, Missing
<1>2. IInv => PlanVerdictOnRecord
  BY DEF IInv, PlanInv, Earned, PlanVerdictOnRecord
<1>3. IInv => StaleIsNotComplete
  BY DEF StaleIsNotComplete, StaleProvenance, CompleteProvenance
<1> QED
  BY <1>1, <1>2, <1>3, Invariance, PTL DEF VerdictsAreEarned

(* An authority role is held by one active seat, unless two saves of seats *)
(* overlapped (target_plan_policy.assign_stakeholder).                     *)
THEOREM AuthoritySingular == Spec => []OneOfEachAuthority
<1>1. IInv => OneOfEachAuthority
  BY DEF IInv, PlanInv, Singular, OneOfEachAuthority, ActiveSeats
<1> QED
  BY <1>1, Invariance, PTL

(* Nobody is reached through a plan marked stale and not created again,    *)
(* unless an older copy was put over the mark (reach_gate).                *)
THEOREM StaleMeansStopped == Spec => StalePlansReachNobody
<1>1. IInv /\ [Next]_vars
        => [past'.reached /\ ~past.reached => ~past.staled \/ "plan" \in past.raced]_planVars
  <2> SUFFICES ASSUME IInv, [Next]_vars, past'.reached, ~past.reached, past.staled,
                      "plan" \notin past.raced
      PROVE  UNCHANGED planVars
    OBVIOUS
  <2>1. plan = "stale"
    BY DEF IInv, PlanInv
  <2>2. ASSUME NEW s \in Seats, NEW readySeats, InitiateReach(s, readySeats)
        PROVE  FALSE
    BY <2>1, <2>2 DEF InitiateReach, CanInitiateReach
  <2>3. past \in Pasts
    BY DEF IInv, PlanInv
  <2>4. ASSUME NEW p \in Sellers
        PROVE  /\ \A status : MoveFit(p, status) => past' = past
               /\ \A verdict, above, expiry :
                    Decide(p, verdict, above, expiry) => past'.reached = past.reached
               /\ SaveFit(p) => past'.reached = past.reached
    BY <2>3 DEF Pasts, MoveFit, Decide, SaveFit
  <2>5. ASSUME NEW p \in Sellers
        PROVE  /\ CreatePlan(p) \/ MarkPlanStale(p) => past' = past
               /\ \A readySeats : ActivatePlan(p, readySeats) => past' = past
               /\ PutPlan(p) \/ PutStakeholder(p) => past'.reached = past.reached
               /\ \A s, role : Supersede(p, s) \/ Assign(p, s, role) => past' = past
    BY <2>3 DEF Pasts, CreatePlan, MarkPlanStale, ActivatePlan, HoldPlan, PutPlan,
                PutStakeholder, HoldSeat, Supersede, Assign
  <2>6. ASSUME NEW status, NEW verdict, PatchFit(status, verdict)
        PROVE  past'.reached = past.reached
    BY <2>3, <2>6 DEF PatchFit, Pasts
  <2>7. DayPasses \/ UNCHANGED planVars => past' = past
    BY DEF DayPasses, planVars
  <2>8. PlanNext \/ UNCHANGED planVars
    BY DEF Next, vars
  <2> QED
    BY <2>2, <2>4, <2>5, <2>6, <2>7, <2>8 DEF PlanNext
<1> QED
  BY <1>1, Invariance, PTL DEF Spec, StalePlansReachNobody
=============================================================================
