---------------------------- MODULE PlatformProofs ----------------------------
(***************************************************************************)
(* MCPlatform, for every value of its constants.  Its components share no  *)
(* variable and a step moves one of them, so each has an inductive         *)
(* invariant of its own, preserved by its steps and by the steps that      *)
(* leave it alone; what the run asks of a component follows from it.       *)
(***************************************************************************)
EXTENDS MCPlatform, Sequences, FiniteSetTheorems, WellFoundedInduction, TLAPS

(* A set of naturals has a least element.                                  *)

LEMMA LeastOf ==
  ASSUME NEW S \in SUBSET Nat, S # {}
  PROVE  \E x \in S : \A y \in S : x <= y
<1> DEFINE R == OpToRel(<, Nat)
<1>1. PICK x \in S : \A y \in S : ~(<<y, x>> \in R)
  BY NatLessThanWellFounded, WFMin
<1>2. ASSUME NEW y \in S PROVE x <= y
  <2>1. x \in Nat /\ y \in Nat
    OBVIOUS
  <2>2. y < x => <<y, x>> \in R
    BY <2>1 DEF OpToRel
  <2> HIDE DEF R
  <2> QED
    BY <1>1, <2>1, <2>2
<1> QED
  BY <1>2

(***************************************************************************)
(* Authentication and workspaces                                           *)
(***************************************************************************)
Callers == [pc : {"idle", "session", "member", "handler"}, token : Tokens \cup {NoOne}, user : Users \cup {NoOne},
            admin : BOOLEAN, member : Member]
Sightings == [live : BOOLEAN, admin : BOOLEAN, member : SUBSET Member]
Acts == {"none", "login", "read", "create_workspace", "set_membership", "qualification_override", "resolve_override"}
Doings == [what : Acts, space : Spaces \cup {"any", "none"}, seen : Sightings]
Histories == [calls : 0..MaxCalls, seen : [Requests -> Sightings], done : Doings, cut : BOOLEAN]
Logins == [user : Users \cup {NoOne}, state : {"none", "live", "dead"}]
Entries == [actor : Users, action : Acts]
Rulings == [space : Spaces, by : Users, resolved : Users \cup {NoOne}]

SessionsAreOfUsers == \A t \in Tokens : session[t].state # "none" => session[t].user \in Users

(* What a request has read of its caller has held since it came.           *)
CallFollows(r) ==
  /\ call[r].pc # "idle" => call[r].token \in Tokens /\ session[call[r].token].state # "none"
  /\ call[r].pc \in {"member", "handler"} =>
       /\ call[r].user \in Users /\ call[r].user = session[call[r].token].user
       /\ since.seen[r].live
       /\ call[r].admin => since.seen[r].admin
  /\ call[r].pc = "handler" => call[r].member \in since.seen[r].member

(* Nothing has resolved the first override before it is resolved.          *)
FirstIsOpen == Len(overrides) = 0 \/ overrides[1].resolved = NoOne => \A j \in DOMAIN audit : ~ResolvedAt(1, j)

AccessInv ==
  /\ admins \subseteq Users /\ known \subseteq Users /\ spaces \subseteq Spaces
  /\ member \in [Users -> Member]
  /\ session \in [Tokens -> Logins]
  /\ call \in [Requests -> Callers]
  /\ overrides \in Seq(Rulings)
  /\ audit \in Seq(Entries) /\ Len(audit) <= MaxEvents
  /\ since \in Histories
  /\ SessionsAreOfUsers
  /\ \A r \in Requests : CallFollows(r)
  /\ ActsWereEntitled
  /\ TheTrailIsWhole
  /\ since.cut \/ FirstIsOpen

LEMMA NothingIsTyped ==
  /\ NeverSo \in Sightings /\ NoMembership \in Member
  /\ NoCall \in Callers /\ NoCall.pc = "idle"
  /\ NothingDone \in Doings /\ NothingDone.what = "none"
<1>1. NeverSo \in Sightings
  BY DEF NeverSo, Sightings
<1>2. NoMembership \in Member
  BY DEF Member
<1>3. NoCall \in Callers /\ NoCall.pc = "idle"
  BY <1>2 DEF NoCall, Callers
<1>4. NothingDone \in Doings /\ NothingDone.what = "none"
  BY <1>1 DEF NothingDone, Doings, Acts
<1> QED
  BY <1>1, <1>2, <1>3, <1>4

LEMMA NoneMade == Made(0) = 0
<1>1. {j \in 1..0 : audit[j].action = "qualification_override"} = {}
  OBVIOUS
<1> QED
  BY <1>1, FS_EmptySet DEF Made

(* An event counts itself and leaves the counts before it alone.           *)
LEMMA Counting ==
  ASSUME NEW u \in Users, NEW what \in Acts, audit \in Seq(Entries), RecordAudit(u, what),
         NEW n \in Nat, n = Len(audit)
  PROVE  /\ audit' \in Seq(Entries) /\ Len(audit') = n + 1 /\ n + 1 <= MaxEvents
         /\ audit'[n + 1].actor = u /\ audit'[n + 1].action = what
         /\ \A k \in 1..n : audit'[k] = audit[k] /\ Made(k)' = Made(k)
         /\ Made(n) \in Nat
         /\ what = "qualification_override" => Made(n + 1)' = Made(n) + 1
         /\ what # "qualification_override" => Made(n + 1)' = Made(n)
<1> DEFINE e == [actor |-> u, action |-> what]
<1>1. /\ audit' = Append(audit, e) /\ Len(audit) < MaxEvents
      /\ e \in Entries /\ e.actor = u /\ e.action = what
  BY DEF RecordAudit, Entries
<1> HIDE DEF e
<1>2. /\ audit' \in Seq(Entries) /\ Len(audit') = n + 1 /\ audit'[n + 1] = e
      /\ \A k \in 1..n : audit'[k] = audit[k]
  BY <1>1
<1>3. ASSUME NEW k \in 1..n PROVE Made(k)' = Made(k)
  <2>1. {j \in 1..k : audit'[j].action = "qualification_override"} = {j \in 1..k : audit[j].action = "qualification_override"}
    BY <1>2
  <2> QED
    BY <2>1 DEF Made
<1>4. /\ IsFiniteSet({j \in 1..n : audit[j].action = "qualification_override"})
      /\ Made(n) \in Nat
  <2>1. IsFiniteSet(1..n)
    BY FS_Interval
  <2>2. IsFiniteSet({j \in 1..n : audit[j].action = "qualification_override"})
    BY <2>1, FS_Subset
  <2> QED
    BY <2>2, FS_CardinalityType DEF Made
<1>5. ASSUME what = "qualification_override" PROVE Made(n + 1)' = Made(n) + 1
  <2>1. {j \in 1..(n + 1) : audit'[j].action = "qualification_override"}
        = {j \in 1..n : audit[j].action = "qualification_override"} \cup {n + 1}
    <3>1. \A j \in 1..(n + 1) : j \in 1..n \/ j = n + 1
      OBVIOUS
    <3>2. audit'[n + 1].action = "qualification_override"
      BY <1>1, <1>2, <1>5
    <3> QED
      BY <1>2, <3>1, <3>2
  <2>2. n + 1 \notin {j \in 1..n : audit[j].action = "qualification_override"}
    OBVIOUS
  <2>3. Cardinality({j \in 1..n : audit[j].action = "qualification_override"} \cup {n + 1})
        = Cardinality({j \in 1..n : audit[j].action = "qualification_override"}) + 1
    BY <1>4, <2>2, FS_AddElement
  <2> QED
    BY <2>1, <2>3 DEF Made
<1>6. ASSUME what # "qualification_override" PROVE Made(n + 1)' = Made(n)
  <2>1. {j \in 1..(n + 1) : audit'[j].action = "qualification_override"}
        = {j \in 1..n : audit[j].action = "qualification_override"}
    <3>1. \A j \in 1..(n + 1) : j \in 1..n \/ j = n + 1
      OBVIOUS
    <3>2. audit'[n + 1].action # "qualification_override"
      BY <1>1, <1>2, <1>6
    <3> QED
      BY <1>2, <3>1, <3>2
  <2> QED
    BY <2>1 DEF Made
<1>7. n + 1 <= MaxEvents
  BY <1>1, AccessAssumption
<1>8. audit'[n + 1].actor = u /\ audit'[n + 1].action = what
  BY <1>1, <1>2
<1>9. what = "qualification_override" => Made(n + 1)' = Made(n) + 1
  BY <1>5
<1>10. what # "qualification_override" => Made(n + 1)' = Made(n)
  BY <1>6
<1> QED
  BY <1>2, <1>3, <1>4, <1>7, <1>8, <1>9, <1>10

(* Events that neither make nor resolve an override leave the trail whole. *)
LEMMA OtherEvent ==
  ASSUME AccessInv, NEW u \in Users, NEW what \in Acts \ {"qualification_override", "resolve_override"},
         RecordAudit(u, what), overrides' = overrides, since'.cut = since.cut
  PROVE  TheTrailIsWhole' /\ (since'.cut \/ FirstIsOpen')
<1>t. audit \in Seq(Entries) /\ overrides \in Seq(Rulings) /\ TheTrailIsWhole /\ (since.cut \/ FirstIsOpen)
  BY DEF AccessInv
<1> SUFFICES ASSUME ~since.cut PROVE TheTrailIsWhole' /\ FirstIsOpen'
  BY DEF TheTrailIsWhole
<1>0. PICK n \in Nat : n = Len(audit)
  BY <1>t
<1>1. /\ audit' \in Seq(Entries) /\ Len(audit') = n + 1 /\ audit'[n + 1].action = what
      /\ \A k \in 1..n : audit'[k] = audit[k] /\ Made(k)' = Made(k)
      /\ Made(n + 1)' = Made(n)
  BY <1>t, <1>0, Counting
<1>2. DOMAIN audit = 1..n /\ DOMAIN audit' = 1..(n + 1)
  BY <1>t, <1>0, <1>1
<1>3. \A i : \A k \in 1..n : (MadeAt(i, k)' <=> MadeAt(i, k)) /\ (ResolvedAt(i, k)' <=> ResolvedAt(i, k))
  BY <1>1 DEF MadeAt, ResolvedAt
<1>4. \A i : ~ResolvedAt(i, n + 1)'
  BY <1>1 DEF ResolvedAt
<1>5. Made(Len(audit))' = Len(overrides)
  <2>1. Made(n) = Len(overrides)
    BY <1>t, <1>0 DEF TheTrailIsWhole
  <2>2. Made(Len(audit))' = Made(n + 1)'
    BY <1>1 DEF Made
  <2> QED
    BY <1>1, <2>1, <2>2
<1>6. ASSUME NEW i \in DOMAIN overrides
      PROVE  \E k \in DOMAIN audit' : MadeAt(i, k)' /\ audit'[k].actor = overrides[i].by
  <2>1. PICK k \in DOMAIN audit : MadeAt(i, k) /\ audit[k].actor = overrides[i].by
    BY <1>t DEF TheTrailIsWhole
  <2> QED
    BY <1>1, <1>2, <1>3, <2>1
<1>7. ASSUME 1 \in DOMAIN overrides, overrides[1].resolved # NoOne
      PROVE  \E k \in DOMAIN audit' : /\ ResolvedAt(1, k)' /\ audit'[k].actor = overrides[1].resolved
                                      /\ \A j \in 1..(k - 1) : ~ResolvedAt(1, j)'
  <2>1. PICK k \in DOMAIN audit : /\ ResolvedAt(1, k) /\ audit[k].actor = overrides[1].resolved
                                  /\ \A j \in 1..(k - 1) : ~ResolvedAt(1, j)
    BY <1>t, <1>7 DEF TheTrailIsWhole
  <2>2. \A j \in 1..(k - 1) : j \in 1..n
    BY <1>2
  <2> QED
    BY <1>1, <1>2, <1>3, <2>1, <2>2
<1>8. TheTrailIsWhole'
  BY <1>5, <1>6, <1>7 DEF TheTrailIsWhole
<1>9. FirstIsOpen'
  <2>1. \A j \in 1..(n + 1) : j \in 1..n \/ j = n + 1
    OBVIOUS
  <2> QED
    BY <1>t, <1>2, <1>3, <1>4, <2>1 DEF FirstIsOpen
<1> QED
  BY <1>8, <1>9

(* An override and its event come together.                                *)
LEMMA OverrideEvent ==
  ASSUME AccessInv, NEW u \in Users, NEW w \in Spaces, RecordAudit(u, "qualification_override"),
         overrides' = Append(overrides, [space |-> w, by |-> u, resolved |-> NoOne]), since'.cut = since.cut
  PROVE  TheTrailIsWhole' /\ (since'.cut \/ FirstIsOpen')
<1>t. audit \in Seq(Entries) /\ overrides \in Seq(Rulings) /\ TheTrailIsWhole /\ (since.cut \/ FirstIsOpen)
  BY DEF AccessInv
<1> SUFFICES ASSUME ~since.cut PROVE TheTrailIsWhole' /\ FirstIsOpen'
  BY DEF TheTrailIsWhole
<1>0. PICK n \in Nat : n = Len(audit)
  BY <1>t
<1>1. /\ audit' \in Seq(Entries) /\ Len(audit') = n + 1
      /\ audit'[n + 1].action = "qualification_override" /\ audit'[n + 1].actor = u
      /\ \A k \in 1..n : audit'[k] = audit[k] /\ Made(k)' = Made(k)
      /\ Made(n + 1)' = Made(n) + 1
  <2>1. "qualification_override" \in Acts
    BY DEF Acts
  <2> QED
    BY <1>t, <1>0, <2>1, Counting
<1>2. DOMAIN audit = 1..n /\ DOMAIN audit' = 1..(n + 1)
  BY <1>t, <1>0, <1>1
<1>3. \A i : \A k \in 1..n : (MadeAt(i, k)' <=> MadeAt(i, k)) /\ (ResolvedAt(i, k)' <=> ResolvedAt(i, k))
  BY <1>1 DEF MadeAt, ResolvedAt
<1>4. \A i : ~ResolvedAt(i, n + 1)'
  BY <1>1 DEF ResolvedAt
<1>5. PICK m \in Nat : m = Len(overrides)
  BY <1>t
<1>6. Made(n) = m
  BY <1>t, <1>0, <1>5 DEF TheTrailIsWhole
<1>7. /\ Len(overrides') = m + 1 /\ DOMAIN overrides = 1..m /\ DOMAIN overrides' = 1..(m + 1)
      /\ overrides'[m + 1].by = u /\ overrides'[m + 1].resolved = NoOne
      /\ \A i \in 1..m : overrides'[i] = overrides[i]
  BY <1>t, <1>5
<1>8. Made(Len(audit))' = Len(overrides')
  <2>1. Made(Len(audit))' = Made(n + 1)'
    BY <1>1 DEF Made
  <2> QED
    BY <1>1, <1>6, <1>7, <2>1
<1>9. ASSUME NEW i \in DOMAIN overrides'
      PROVE  \E k \in DOMAIN audit' : MadeAt(i, k)' /\ audit'[k].actor = overrides'[i].by
  <2>1. CASE i = m + 1
    <3>1. MadeAt(i, n + 1)'
      BY <1>1, <1>6, <2>1 DEF MadeAt
    <3>2. n + 1 \in DOMAIN audit' /\ audit'[n + 1].actor = overrides'[i].by
      BY <1>1, <1>2, <1>7, <2>1
    <3> QED
      BY <3>1, <3>2
  <2>2. CASE i # m + 1
    <3>1. i \in DOMAIN overrides /\ overrides'[i] = overrides[i]
      BY <1>7, <2>2
    <3>2. PICK k \in DOMAIN audit : MadeAt(i, k) /\ audit[k].actor = overrides[i].by
      BY <1>t, <3>1 DEF TheTrailIsWhole
    <3> QED
      BY <1>1, <1>2, <1>3, <3>1, <3>2
  <2> QED
    BY <2>1, <2>2
<1>10. ASSUME 1 \in DOMAIN overrides', overrides'[1].resolved # NoOne
       PROVE  \E k \in DOMAIN audit' : /\ ResolvedAt(1, k)' /\ audit'[k].actor = overrides'[1].resolved
                                       /\ \A j \in 1..(k - 1) : ~ResolvedAt(1, j)'
  <2>0. 1 \in DOMAIN overrides /\ overrides'[1] = overrides[1]
    BY <1>7, <1>10
  <2>1. PICK k \in DOMAIN audit : /\ ResolvedAt(1, k) /\ audit[k].actor = overrides[1].resolved
                                  /\ \A j \in 1..(k - 1) : ~ResolvedAt(1, j)
    BY <1>t, <1>10, <2>0 DEF TheTrailIsWhole
  <2>2. \A j \in 1..(k - 1) : j \in 1..n
    BY <1>2
  <2> QED
    BY <1>1, <1>2, <1>3, <2>0, <2>1, <2>2
<1>11. TheTrailIsWhole'
  BY <1>8, <1>9, <1>10 DEF TheTrailIsWhole
<1>12. FirstIsOpen'
  <2>1. \A j \in 1..(n + 1) : j \in 1..n \/ j = n + 1
    OBVIOUS
  <2>2. Len(overrides') = 0 \/ overrides'[1].resolved = NoOne => Len(overrides) = 0 \/ overrides[1].resolved = NoOne
    BY <1>5, <1>7
  <2> QED
    BY <1>t, <1>2, <1>3, <1>4, <2>1, <2>2 DEF FirstIsOpen
<1> QED
  BY <1>11, <1>12

(* The first resolution of the first override stays the one on file.       *)
LEMMA ResolveEvent ==
  ASSUME AccessInv, NEW u \in Users, RecordAudit(u, "resolve_override"), since'.cut = since.cut,
         overrides' = IF 1 \in DOMAIN overrides THEN [overrides EXCEPT ![1] = Resolved(@, u)] ELSE overrides
  PROVE  TheTrailIsWhole' /\ (since'.cut \/ FirstIsOpen')
<1>t. audit \in Seq(Entries) /\ overrides \in Seq(Rulings) /\ TheTrailIsWhole /\ (since.cut \/ FirstIsOpen)
  BY DEF AccessInv
<1> SUFFICES ASSUME ~since.cut PROVE TheTrailIsWhole' /\ FirstIsOpen'
  BY DEF TheTrailIsWhole
<1>0. PICK n \in Nat : n = Len(audit)
  BY <1>t
<1>1. /\ audit' \in Seq(Entries) /\ Len(audit') = n + 1
      /\ audit'[n + 1].action = "resolve_override" /\ audit'[n + 1].actor = u
      /\ \A k \in 1..n : audit'[k] = audit[k] /\ Made(k)' = Made(k)
      /\ Made(n + 1)' = Made(n)
  <2>1. "resolve_override" \in Acts
    BY DEF Acts
  <2> QED
    BY <1>t, <1>0, <2>1, Counting
<1>2. DOMAIN audit = 1..n /\ DOMAIN audit' = 1..(n + 1)
  BY <1>t, <1>0, <1>1
<1>3. \A i : \A k \in 1..n : (MadeAt(i, k)' <=> MadeAt(i, k)) /\ (ResolvedAt(i, k)' <=> ResolvedAt(i, k))
  BY <1>1 DEF MadeAt, ResolvedAt
<1>5. PICK m \in Nat : m = Len(overrides)
  BY <1>t
<1>6. Made(n) = m
  BY <1>t, <1>0, <1>5 DEF TheTrailIsWhole
<1>7. /\ Len(overrides') = m /\ DOMAIN overrides = 1..m /\ DOMAIN overrides' = 1..m
      /\ \A i \in 1..m : i # 1 => overrides'[i] = overrides[i]
      /\ m # 0 => overrides'[1] = Resolved(overrides[1], u) /\ overrides[1] \in Rulings
  BY <1>t, <1>5
<1>r. /\ m # 0 => overrides'[1].by = overrides[1].by
      /\ m # 0 /\ overrides[1].resolved # NoOne => overrides'[1].resolved = overrides[1].resolved
      /\ m # 0 /\ overrides[1].resolved = NoOne => overrides'[1].resolved = u
  BY <1>7 DEF Resolved, Rulings
<1>8. Made(Len(audit))' = Len(overrides')
  <2>1. Made(Len(audit))' = Made(n + 1)'
    BY <1>1 DEF Made
  <2> QED
    BY <1>1, <1>6, <1>7, <2>1
<1>9. ASSUME NEW i \in DOMAIN overrides'
      PROVE  \E k \in DOMAIN audit' : MadeAt(i, k)' /\ audit'[k].actor = overrides'[i].by
  <2>1. i \in DOMAIN overrides /\ overrides'[i].by = overrides[i].by
    BY <1>7, <1>r
  <2>2. PICK k \in DOMAIN audit : MadeAt(i, k) /\ audit[k].actor = overrides[i].by
    BY <1>t, <2>1 DEF TheTrailIsWhole
  <2> QED
    BY <1>1, <1>2, <1>3, <2>1, <2>2
<1>10. ASSUME 1 \in DOMAIN overrides'
       PROVE  \E k \in DOMAIN audit' : /\ ResolvedAt(1, k)' /\ audit'[k].actor = overrides'[1].resolved
                                       /\ \A j \in 1..(k - 1) : ~ResolvedAt(1, j)'
  <2>0. m # 0 /\ 1 \in DOMAIN overrides
    BY <1>7, <1>10
  <2>1. CASE overrides[1].resolved # NoOne
    <3>1. PICK k \in DOMAIN audit : /\ ResolvedAt(1, k) /\ audit[k].actor = overrides[1].resolved
                                    /\ \A j \in 1..(k - 1) : ~ResolvedAt(1, j)
      BY <1>t, <2>0, <2>1 DEF TheTrailIsWhole
    <3>2. \A j \in 1..(k - 1) : j \in 1..n
      BY <1>2
    <3>3. k \in 1..n /\ k \in DOMAIN audit' /\ audit'[k] = audit[k]
      BY <1>1, <1>2, <3>1
    <3>4. ResolvedAt(1, k)' /\ audit'[k].actor = overrides'[1].resolved
      BY <1>3, <1>r, <2>0, <2>1, <3>1, <3>3
    <3>5. \A j \in 1..(k - 1) : ~ResolvedAt(1, j)'
      BY <1>3, <3>1, <3>2
    <3> QED
      BY <3>3, <3>4, <3>5
  <2>2. CASE overrides[1].resolved = NoOne
    <3>1. \A j \in 1..n : ~ResolvedAt(1, j)'
      BY <1>t, <1>2, <1>3, <2>2 DEF FirstIsOpen
    <3>2. ResolvedAt(1, n + 1)'
      BY <1>1, <1>6, <2>0 DEF ResolvedAt
    <3>3. n + 1 \in DOMAIN audit' /\ audit'[n + 1].actor = overrides'[1].resolved /\ (n + 1) - 1 = n
      BY <1>1, <1>2, <1>r, <2>0, <2>2
    <3>4. PICK at \in DOMAIN audit' : at = n + 1
      BY <3>3
    <3>5. ResolvedAt(1, at)' /\ audit'[at].actor = overrides'[1].resolved
      BY <3>2, <3>3, <3>4
    <3>6. \A j \in 1..(at - 1) : ~ResolvedAt(1, j)'
      BY <3>1, <3>3, <3>4
    <3> QED
      BY <3>5, <3>6
  <2> QED
    BY <2>1, <2>2
<1>11. TheTrailIsWhole'
  BY <1>8, <1>9, <1>10 DEF TheTrailIsWhole
<1>12. FirstIsOpen'
  <2> SUFFICES ASSUME Len(overrides') = 0 \/ overrides'[1].resolved = NoOne, NEW j \in 1..(n + 1)
      PROVE  ~ResolvedAt(1, j)'
    BY <1>2 DEF FirstIsOpen
  <2>1. u # NoOne
    BY AccessAssumption
  <2>2. m = 0
    BY <1>7, <1>r, <2>1
  <2>3. CASE j = n + 1
    BY <1>1, <1>6, <2>2, <2>3 DEF ResolvedAt
  <2>4. CASE j # n + 1
    <3>1. j \in DOMAIN audit
      BY <1>2, <2>4
    <3> QED
      BY <1>t, <1>2, <1>3, <1>5, <2>2, <3>1 DEF FirstIsOpen
  <2> QED
    BY <2>3, <2>4
<1> QED
  BY <1>11, <1>12

(* What has held of a caller is never forgotten while the request lasts.   *)
LEMMA Witnessed ==
  ASSUME AccessInv
  PROVE  /\ Witness \in [Requests -> Sightings]
         /\ \A r \in Requests : call[r].pc # "idle" =>
              /\ since.seen[r].live => Witness[r].live
              /\ since.seen[r].admin => Witness[r].admin
              /\ since.seen[r].member \subseteq Witness[r].member
              /\ session[call[r].token].state = "live" => Witness[r].live
              /\ session[call[r].token].user \in admins => Witness[r].admin
              /\ member[session[call[r].token].user] \in Witness[r].member
<1>t. /\ member \in [Users -> Member] /\ call \in [Requests -> Callers] /\ session \in [Tokens -> Logins]
      /\ since \in Histories /\ SessionsAreOfUsers /\ \A r \in Requests : CallFollows(r)
  BY DEF AccessInv
<1>0. since.seen \in [Requests -> Sightings]
  BY <1>t DEF Histories
<1> SUFFICES ASSUME NEW r \in Requests
    PROVE  /\ Witness[r] \in Sightings
           /\ call[r].pc # "idle" =>
                /\ since.seen[r].live => Witness[r].live
                /\ since.seen[r].admin => Witness[r].admin
                /\ since.seen[r].member \subseteq Witness[r].member
                /\ session[call[r].token].state = "live" => Witness[r].live
                /\ session[call[r].token].user \in admins => Witness[r].admin
                /\ member[session[call[r].token].user] \in Witness[r].member
  BY DEF Witness
<1>1. CASE call[r].pc = "idle"
  <2>1. Witness[r] = NeverSo
    BY <1>1 DEF Witness
  <2> QED
    BY <1>1, <2>1, NothingIsTyped
<1>2. CASE call[r].pc # "idle"
  <2>1. /\ call[r].token \in Tokens /\ session[call[r].token].state # "none"
        /\ session[call[r].token].user \in Users
    BY <1>t, <1>2 DEF CallFollows, SessionsAreOfUsers
  <2>2. PICK live \in BOOLEAN : live <=> since.seen[r].live \/ session[call[r].token].state = "live"
    OBVIOUS
  <2>3. PICK admin \in BOOLEAN : admin <=> since.seen[r].admin \/ session[call[r].token].user \in admins
    OBVIOUS
  <2>4. PICK rows \in SUBSET Member : rows = since.seen[r].member \cup {member[session[call[r].token].user]}
    <3>1. since.seen[r].member \in SUBSET Member /\ member[session[call[r].token].user] \in Member
      BY <1>t, <1>0, <2>1 DEF Sightings
    <3> QED
      BY <3>1
  <2>5. /\ Witness[r].live <=> live
        /\ Witness[r].admin <=> admin
        /\ Witness[r].member = rows
        /\ Witness[r] \in Sightings
    <3>1. Witness[r] = [live |-> since.seen[r].live \/ session[call[r].token].state = "live",
                        admin |-> since.seen[r].admin \/ session[call[r].token].user \in admins,
                        member |-> since.seen[r].member \cup {member[session[call[r].token].user]}]
      BY <1>2 DEF Witness
    <3> QED
      BY <2>2, <2>3, <2>4, <3>1 DEF Sightings
  <2> QED
    BY <1>2, <2>2, <2>3, <2>4, <2>5
<1> QED
  BY <1>1, <1>2

(* A request that waits keeps what it has read, whoever logs in or out.    *)
LEMMA CallKept ==
  ASSUME AccessInv, NEW r \in Requests, call'[r] = call[r], since'.seen[r] = Witness[r],
         \A t \in Tokens : session[t].state # "none" =>
           session'[t].state # "none" /\ session'[t].user = session[t].user
  PROVE  CallFollows(r)'
<1>1. CallFollows(r) /\ call[r] \in Callers
  BY DEF AccessInv
<1>2. call[r].pc # "idle" =>
        /\ since.seen[r].live => Witness[r].live
        /\ since.seen[r].admin => Witness[r].admin
        /\ since.seen[r].member \subseteq Witness[r].member
  BY Witnessed
<1>3. call[r].pc # "idle" => /\ session'[call[r].token].state # "none"
                            /\ session'[call[r].token].user = session[call[r].token].user
  BY <1>1 DEF CallFollows
<1> QED
  BY <1>1, <1>2, <1>3 DEF CallFollows, Callers

(* The history of a step that answers nobody.                              *)
LEMMA Watched ==
  ASSUME AccessInv, Watch \/ Counts
  PROVE  since' \in Histories /\ since'.seen = Witness /\ since'.cut = since.cut /\ ActsWereEntitled'
<1>t. since \in Histories /\ Witness \in [Requests -> Sightings]
  BY Witnessed DEF AccessInv
<1>1. /\ since' \in Histories /\ since'.seen = Witness /\ since'.cut = since.cut /\ since'.done = NothingDone
  <2>1. CASE Watch
    BY <1>t, <2>1, NothingIsTyped DEF Watch, Histories
  <2>2. CASE Counts
    <3>1. since.calls + 1 \in 0..MaxCalls
      BY <1>t, <2>2, AccessAssumption DEF Counts, Histories
    <3> QED
      BY <1>t, <2>2, <3>1, NothingIsTyped DEF Counts, Histories
  <2> QED
    BY <2>1, <2>2
<1> QED
  BY <1>1, NothingIsTyped DEF ActsWereEntitled

(* The right a handler acts by, in the context it was given.               *)
Entitled(c, what, w) ==
  \/ what = "none" \/ c.admin
  \/ what = "read" /\ (w = "any" \/ c.member.space = w)
  \/ what = "qualification_override" /\ c.member = [space |-> w, role |-> "product_owner"]

(* A handler that answers leaves an act that was entitled.                 *)
LEMMA Answered ==
  ASSUME AccessInv, NEW r \in Requests, NEW what \in Acts, NEW w \in Spaces \cup {"any", "none"},
         call[r].pc = "handler", Replies(r, what, w), Entitled(call[r], what, w), session' = session
  PROVE  /\ call' \in [Requests -> Callers] /\ since' \in Histories /\ since'.cut = since.cut
         /\ \A q \in Requests : CallFollows(q)'
         /\ ActsWereEntitled'
<1>t. /\ call \in [Requests -> Callers] /\ since \in Histories /\ Witness \in [Requests -> Sightings]
      /\ CallFollows(r)
  BY Witnessed DEF AccessInv
<1>1. /\ call' = [call EXCEPT ![r] = NoCall]
      /\ since' = [since EXCEPT !.seen = [Witness EXCEPT ![r] = NeverSo],
                                !.done = [what |-> what, space |-> w, seen |-> Witness[r]]]
  BY DEF Replies
<1>2. call' \in [Requests -> Callers] /\ call'[r] = NoCall /\ \A q \in Requests : q # r => call'[q] = call[q]
  BY <1>t, <1>1, NothingIsTyped
<1>3. PICK seen \in [Requests -> Sightings] : /\ seen = [Witness EXCEPT ![r] = NeverSo]
                                              /\ \A q \in Requests : q # r => seen[q] = Witness[q]
  BY <1>t, NothingIsTyped
<1>4. PICK done \in Doings : /\ done = [what |-> what, space |-> w, seen |-> Witness[r]]
                             /\ done.what = what /\ done.space = w /\ done.seen = Witness[r]
  <2>1. Witness[r] \in Sightings
    BY <1>t
  <2>2. [what |-> what, space |-> w, seen |-> Witness[r]] \in Doings
    BY <2>1 DEF Doings
  <2> QED
    BY <2>2
<1>5. since' \in Histories /\ since'.cut = since.cut /\ since'.seen = seen /\ since'.done = done
  <2>1. since' = [since EXCEPT !.seen = seen, !.done = done]
    BY <1>1, <1>3, <1>4
  <2> QED
    BY <1>t, <2>1 DEF Histories
<1>6. ASSUME NEW q \in Requests PROVE CallFollows(q)'
  <2>1. CASE q = r
    BY <1>2, <2>1, NothingIsTyped DEF CallFollows
  <2>2. CASE q # r
    BY <1>2, <1>3, <1>5, <2>2, CallKept
  <2> QED
    BY <2>1, <2>2
<1>7. ActsWereEntitled'
  <2>1. /\ Witness[r].live
        /\ call[r].admin => Witness[r].admin
        /\ call[r].member \in Witness[r].member
    BY <1>t, Witnessed DEF CallFollows
  <2> SUFFICES ASSUME what # "none"
      PROVE  /\ Witness[r].live
             /\ \/ Witness[r].admin
                \/ what = "read" /\ (w = "any" \/ \E m \in Witness[r].member : m.space = w)
                \/ what = "qualification_override" /\ [space |-> w, role |-> "product_owner"] \in Witness[r].member
    BY <1>4, <1>5 DEF ActsWereEntitled
  <2> QED
    BY <2>1 DEF Entitled
<1> QED
  BY <1>2, <1>5, <1>6, <1>7

(* So does one that may stop before its audit event.                       *)
LEMMA Handled ==
  ASSUME AccessInv, NEW r \in Requests, NEW what \in Acts, NEW w \in Spaces \cup {"any", "none"},
         NEW stops \in BOOLEAN, call[r].pc = "handler", Audited(r, what, w, stops),
         Entitled(call[r], what, w), session' = session
  PROVE  /\ call' \in [Requests -> Callers] /\ since' \in Histories
         /\ \A q \in Requests : CallFollows(q)'
         /\ ActsWereEntitled'
         /\ audit' \in Seq(Entries) /\ Len(audit') <= MaxEvents
         /\ \/ since'.cut
            \/ since'.cut = since.cut /\ call[r].user \in Users /\ RecordAudit(call[r].user, what)
<1>t. /\ call \in [Requests -> Callers] /\ since \in Histories /\ CallFollows(r)
      /\ audit \in Seq(Entries) /\ Len(audit) <= MaxEvents
  BY DEF AccessInv
<1>0. call[r].user \in Users
  BY <1>t DEF CallFollows
<1>1. CASE ~stops
  <2>1. RecordAudit(call[r].user, what) /\ Replies(r, what, w)
    BY <1>1 DEF Audited
  <2>2. PICK n \in Nat : n = Len(audit)
    BY <1>t
  <2>3. audit' \in Seq(Entries) /\ Len(audit') <= MaxEvents
    BY <1>0, <1>t, <2>1, <2>2, Counting
  <2> QED
    BY <1>0, <2>1, <2>3, Answered
<1>2. CASE stops
  <2>1. /\ call' = [q \in Requests |-> NoCall] /\ audit' = audit
        /\ since' = [since EXCEPT !.seen = [q \in Requests |-> NeverSo], !.done = NothingDone, !.cut = TRUE]
    BY <1>2 DEF Audited
  <2>2. call' \in [Requests -> Callers] /\ \A q \in Requests : call'[q] = NoCall
    BY <2>1, NothingIsTyped
  <2>3. [q \in Requests |-> NeverSo] \in [Requests -> Sightings]
    BY NothingIsTyped
  <2>4. since' \in Histories /\ since'.cut /\ since'.done = NothingDone
    BY <1>t, <2>1, <2>3, NothingIsTyped DEF Histories
  <2>5. \A q \in Requests : CallFollows(q)'
    BY <2>2, NothingIsTyped DEF CallFollows
  <2>6. ActsWereEntitled'
    BY <2>4, NothingIsTyped DEF ActsWereEntitled
  <2> QED
    BY <1>t, <2>1, <2>2, <2>4, <2>5, <2>6
<1> QED
  BY <1>1, <1>2

LEMMA AccessInitInv == AccessInit => AccessInv
<1> SUFFICES ASSUME AccessInit PROVE AccessInv
  OBVIOUS
<1>1. /\ known = Users /\ admins \in SUBSET Users \ {{}} /\ spaces = {"default"}
      /\ member = [u \in Users |-> NoMembership]
      /\ session \in [Tokens -> {[user |-> NoOne, state |-> "none"]} \cup [user : known, state : {"live"}]]
      /\ call = [r \in Requests |-> NoCall] /\ overrides = <<>> /\ audit = <<>>
      /\ since = [calls |-> 0, seen |-> [r \in Requests |-> NeverSo], done |-> NothingDone, cut |-> FALSE]
  BY DEF AccessInit
<1>2. admins \subseteq Users /\ known \subseteq Users /\ spaces \subseteq Spaces /\ member \in [Users -> Member]
  BY <1>1, NothingIsTyped, SpacesAssumption
<1>3. session \in [Tokens -> Logins] /\ SessionsAreOfUsers
  <2>1. ASSUME NEW t \in Tokens
        PROVE  session[t] \in Logins /\ (session[t].state # "none" => session[t].user \in Users)
    <3>1. session[t] \in {[user |-> NoOne, state |-> "none"]} \cup [user : Users, state : {"live"}]
      BY <1>1
    <3>2. CASE session[t] = [user |-> NoOne, state |-> "none"]
      BY <3>2 DEF Logins
    <3>3. CASE session[t] \in [user : Users, state : {"live"}]
      BY <3>3 DEF Logins
    <3> QED
      BY <3>1, <3>2, <3>3
  <2> QED
    BY <1>1, <2>1 DEF SessionsAreOfUsers
<1>4. call \in [Requests -> Callers] /\ \A r \in Requests : CallFollows(r)
  BY <1>1, NothingIsTyped DEF CallFollows
<1>5. overrides \in Seq(Rulings) /\ Len(overrides) = 0 /\ audit \in Seq(Entries) /\ Len(audit) = 0 /\ Len(audit) <= MaxEvents
  BY <1>1, AccessAssumption
<1>6. since \in Histories /\ since.done = NothingDone
  <2>1. [r \in Requests |-> NeverSo] \in [Requests -> Sightings] /\ 0 \in 0..MaxCalls
    BY NothingIsTyped, AccessAssumption
  <2> QED
    BY <1>1, <2>1, NothingIsTyped DEF Histories
<1>7. ActsWereEntitled
  BY <1>6, NothingIsTyped DEF ActsWereEntitled
<1>8. DOMAIN overrides = {} /\ DOMAIN audit = {}
  BY <1>1
<1>9. TheTrailIsWhole
  BY <1>5, <1>8, NoneMade DEF TheTrailIsWhole
<1>10. FirstIsOpen
  BY <1>8 DEF FirstIsOpen
<1> QED
  BY <1>2, <1>3, <1>4, <1>5, <1>6, <1>7, <1>9, <1>10 DEF AccessInv

LEMMA AccessStepInv == AccessInv /\ (AccessNext \/ UNCHANGED accessVars) => AccessInv'
<1> SUFFICES ASSUME AccessInv, AccessNext \/ UNCHANGED accessVars
    PROVE  AccessInv'
  OBVIOUS
<1>t. /\ admins \subseteq Users /\ known \subseteq Users /\ spaces \subseteq Spaces /\ member \in [Users -> Member]
      /\ session \in [Tokens -> Logins] /\ call \in [Requests -> Callers] /\ overrides \in Seq(Rulings)
      /\ audit \in Seq(Entries) /\ Len(audit) <= MaxEvents /\ since \in Histories
      /\ SessionsAreOfUsers /\ TheTrailIsWhole /\ (since.cut \/ FirstIsOpen) /\ ActsWereEntitled
  BY DEF AccessInv
<1>f. \A r \in Requests : CallFollows(r)
  BY DEF AccessInv
<1>a. {"login", "create_workspace", "set_membership"} \subseteq Acts \ {"qualification_override", "resolve_override"}
      /\ {"none", "read", "login", "create_workspace", "set_membership", "qualification_override", "resolve_override"} = Acts
  BY DEF Acts
<1>r. UNCHANGED <<overrides, audit>> /\ since'.cut = since.cut => TheTrailIsWhole' /\ (since'.cut \/ FirstIsOpen')
  <2> SUFFICES ASSUME UNCHANGED <<overrides, audit>>, since'.cut = since.cut
      PROVE  TheTrailIsWhole' /\ (since'.cut \/ FirstIsOpen')
    OBVIOUS
  <2>1. Made(Len(audit))' = Made(Len(audit))
    BY DEF Made
  <2>2. \A k : Made(k)' = Made(k)
    BY DEF Made
  <2>3. \A i, k : (MadeAt(i, k)' <=> MadeAt(i, k)) /\ (ResolvedAt(i, k)' <=> ResolvedAt(i, k))
    BY <2>2 DEF MadeAt, ResolvedAt
  <2>4. TheTrailIsWhole'
    BY <1>t, <2>1, <2>3 DEF TheTrailIsWhole
  <2>5. since'.cut \/ FirstIsOpen'
    BY <1>t, <2>3 DEF FirstIsOpen
  <2> QED
    BY <2>4, <2>5
<1>u. CASE UNCHANGED accessVars
  <2>1. UNCHANGED <<admins, known, spaces, member, session, call, overrides, audit, since>>
    BY <1>u DEF accessVars
  <2>2. \A r \in Requests : CallFollows(r)'
    BY <1>f, <2>1 DEF CallFollows
  <2>3. SessionsAreOfUsers' /\ ActsWereEntitled'
    BY <1>t, <2>1 DEF SessionsAreOfUsers, ActsWereEntitled
  <2> QED
    BY <1>t, <1>r, <2>1, <2>2, <2>3 DEF AccessInv
<1>1. ASSUME NEW u \in Users, NEW t \in Tokens, Callback(u, t) PROVE AccessInv'
  <2>1. /\ known' = known \cup {u} /\ session[t].state = "none"
        /\ session' = [session EXCEPT ![t] = [user |-> u, state |-> "live"]]
        /\ RecordAudit(u, "login") /\ Watch
        /\ UNCHANGED <<admins, spaces, member, call, overrides>>
    BY <1>1 DEF Callback, GetOrCreateUser, CreateSession
  <2>2. [user |-> u, state |-> "live"] \in Logins
    BY DEF Logins
  <2>3. /\ session' \in [Tokens -> Logins] /\ session'[t].user = u
        /\ \A s \in Tokens : s # t => session'[s] = session[s]
    BY <1>t, <2>1, <2>2
  <2>4. since' \in Histories /\ since'.seen = Witness /\ since'.cut = since.cut /\ ActsWereEntitled'
    BY <2>1, Watched
  <2>5. SessionsAreOfUsers'
    BY <1>t, <2>3 DEF SessionsAreOfUsers
  <2>6. \A s \in Tokens : session[s].state # "none" => session'[s].state # "none" /\ session'[s].user = session[s].user
    BY <2>1, <2>3
  <2>7. \A r \in Requests : CallFollows(r)'
    BY <2>1, <2>4, <2>6, CallKept
  <2>8. PICK n \in Nat : n = Len(audit)
    BY <1>t
  <2>9. audit' \in Seq(Entries) /\ Len(audit') <= MaxEvents
    BY <1>a, <1>t, <2>1, <2>8, Counting
  <2>10. TheTrailIsWhole' /\ (since'.cut \/ FirstIsOpen')
    BY <1>a, <2>1, <2>4, OtherEvent
  <2> QED
    BY <1>t, <2>1, <2>3, <2>4, <2>5, <2>7, <2>9, <2>10 DEF AccessInv
<1>2. ASSUME NEW u \in Users, NEW yes \in BOOLEAN, SetAdmin(u, yes) PROVE AccessInv'
  <2>1. /\ admins' = (IF yes THEN admins \cup {u} ELSE admins \ {u}) /\ Counts
        /\ UNCHANGED <<known, spaces, member, session, call, overrides, audit>>
    BY <1>2 DEF SetAdmin
  <2>2. admins' \subseteq Users
    BY <1>t, <2>1
  <2>3. since' \in Histories /\ since'.seen = Witness /\ since'.cut = since.cut /\ ActsWereEntitled'
    BY <2>1, Watched
  <2>4. \A r \in Requests : CallFollows(r)'
    BY <2>1, <2>3, CallKept
  <2>5. SessionsAreOfUsers'
    BY <1>t, <2>1 DEF SessionsAreOfUsers
  <2> QED
    BY <1>t, <1>r, <2>1, <2>2, <2>3, <2>4, <2>5 DEF AccessInv
<1>3. ASSUME NEW t \in Tokens, EndSession(t) PROVE AccessInv'
  <2>1. /\ session[t].state = "live" /\ session' = [session EXCEPT ![t].state = "dead"] /\ Watch
        /\ UNCHANGED <<admins, known, spaces, member, call, overrides, audit>>
    BY <1>3 DEF EndSession
  <2>2. PICK was \in Logins : was = session[t]
    BY <1>t
  <2>3. PICK now \in Logins : now = [was EXCEPT !.state = "dead"] /\ now.state = "dead" /\ now.user = was.user
    <3>1. [was EXCEPT !.state = "dead"] \in Logins
      BY DEF Logins
    <3> QED
      BY <3>1 DEF Logins
  <2>4. /\ session' \in [Tokens -> Logins] /\ session'[t] = now
        /\ \A s \in Tokens : s # t => session'[s] = session[s]
    BY <1>t, <2>1, <2>2, <2>3
  <2>5. since' \in Histories /\ since'.seen = Witness /\ since'.cut = since.cut /\ ActsWereEntitled'
    BY <2>1, Watched
  <2>6. \A s \in Tokens : session[s].state # "none" => session'[s].state # "none" /\ session'[s].user = session[s].user
    BY <2>2, <2>3, <2>4
  <2>7. \A r \in Requests : CallFollows(r)'
    BY <2>1, <2>5, <2>6, CallKept
  <2>8. SessionsAreOfUsers'
    BY <1>t, <2>1, <2>2, <2>3, <2>4 DEF SessionsAreOfUsers
  <2> QED
    BY <1>t, <1>r, <2>1, <2>4, <2>5, <2>7, <2>8 DEF AccessInv
<1>4. ASSUME NEW r \in Requests, NEW t \in Tokens, Arrive(r, t) PROVE AccessInv'
  <2>1. /\ session[t].state # "none" /\ call' = [call EXCEPT ![r] = [NoCall EXCEPT !.pc = "session", !.token = t]] /\ Counts
        /\ UNCHANGED <<admins, known, spaces, member, session, overrides, audit>>
    BY <1>4 DEF Arrive
  <2>2. PICK c \in Callers : c = [NoCall EXCEPT !.pc = "session", !.token = t] /\ c.pc = "session" /\ c.token = t
    <3>1. [NoCall EXCEPT !.pc = "session", !.token = t] \in Callers
      BY NothingIsTyped DEF Callers
    <3> QED
      BY <3>1, NothingIsTyped DEF Callers
  <2>3. call' \in [Requests -> Callers] /\ call'[r] = c /\ \A q \in Requests : q # r => call'[q] = call[q]
    BY <1>t, <2>1, <2>2
  <2>4. since' \in Histories /\ since'.seen = Witness /\ since'.cut = since.cut /\ ActsWereEntitled'
    BY <2>1, Watched
  <2>5. CallFollows(r)'
    BY <2>1, <2>2, <2>3 DEF CallFollows
  <2>6. ASSUME NEW q \in Requests, q # r PROVE CallFollows(q)'
    BY <2>1, <2>3, <2>4, <2>6, CallKept
  <2>7. SessionsAreOfUsers'
    BY <1>t, <2>1 DEF SessionsAreOfUsers
  <2> QED
    BY <1>t, <1>r, <2>1, <2>3, <2>4, <2>5, <2>6, <2>7 DEF AccessInv
<1>5. ASSUME NEW r \in Requests, GetSessionUser(r) PROVE AccessInv'
  <2>0. PICK c \in Callers : c = call[r]
    BY <1>t
  <2>1. /\ c.pc = "session" /\ Watch
        /\ call' = [call EXCEPT ![r] = IF session[c.token].state # "live" THEN NoCall
                                       ELSE [c EXCEPT !.pc = "member", !.user = session[c.token].user,
                                                      !.admin = session[c.token].user \in admins]]
        /\ UNCHANGED <<admins, known, spaces, member, session, overrides, audit>>
    BY <1>5, <2>0 DEF GetSessionUser, SessionValid
  <2>2. c.token \in Tokens /\ session[c.token].state # "none" /\ session[c.token].user \in Users
    BY <1>f, <1>t, <2>0, <2>1 DEF CallFollows, SessionsAreOfUsers
  <2>3. PICK admin \in BOOLEAN : admin = (session[c.token].user \in admins)
    <3>1. (session[c.token].user \in admins) \in BOOLEAN
      OBVIOUS
    <3> QED
      BY <3>1
  <2>4. PICK d \in Callers : /\ d = [c EXCEPT !.pc = "member", !.user = session[c.token].user, !.admin = admin]
                             /\ d.pc = "member" /\ d.user = session[c.token].user /\ d.token = c.token
                             /\ d.admin = admin
    <3>1. [c EXCEPT !.pc = "member", !.user = session[c.token].user, !.admin = admin] \in Callers
      BY <2>2 DEF Callers
    <3> QED
      BY <3>1 DEF Callers
  <2>5. /\ call' = [call EXCEPT ![r] = IF session[c.token].state # "live" THEN NoCall ELSE d]
        /\ call' \in [Requests -> Callers] /\ \A q \in Requests : q # r => call'[q] = call[q]
        /\ call'[r] = NoCall \/ (call'[r] = d /\ session[c.token].state = "live")
    BY <1>t, <2>1, <2>3, <2>4, NothingIsTyped
  <2>6. since' \in Histories /\ since'.seen = Witness /\ since'.cut = since.cut /\ ActsWereEntitled'
    BY <2>1, Watched
  <2>7. CallFollows(r)'
    <3>1. /\ session[c.token].state = "live" => Witness[r].live
          /\ session[c.token].user \in admins => Witness[r].admin
      BY <2>0, <2>1, Witnessed
    <3>2. CASE call'[r] = NoCall
      BY <3>2, NothingIsTyped DEF CallFollows
    <3>3. CASE call'[r] = d /\ session[c.token].state = "live"
      BY <2>1, <2>2, <2>3, <2>4, <2>6, <3>1, <3>3 DEF CallFollows
    <3> QED
      BY <2>5, <3>2, <3>3
  <2>8. ASSUME NEW q \in Requests, q # r PROVE CallFollows(q)'
    BY <2>1, <2>5, <2>6, <2>8, CallKept
  <2>9. SessionsAreOfUsers'
    BY <1>t, <2>1 DEF SessionsAreOfUsers
  <2> QED
    BY <1>t, <1>r, <2>1, <2>5, <2>6, <2>7, <2>8, <2>9 DEF AccessInv
<1>6. ASSUME NEW r \in Requests, GetMembership(r) PROVE AccessInv'
  <2>0. PICK c \in Callers : c = call[r]
    BY <1>t
  <2>1. /\ c.pc = "member" /\ Watch
        /\ call' = [call EXCEPT ![r].pc = "handler", ![r].member = member[c.user]]
        /\ UNCHANGED <<admins, known, spaces, member, session, overrides, audit>>
    BY <1>6, <2>0 DEF GetMembership
  <2>2. /\ c.user \in Users /\ c.user = session[c.token].user /\ c.token \in Tokens
        /\ session[c.token].state # "none" /\ since.seen[r].live
        /\ c.admin => since.seen[r].admin
    BY <1>f, <2>0, <2>1 DEF CallFollows
  <2>4. PICK d \in Callers : /\ d = [c EXCEPT !.pc = "handler", !.member = member[c.user]]
                             /\ d.pc = "handler" /\ d.user = c.user /\ d.admin = c.admin /\ d.token = c.token
                             /\ d.member = member[c.user]
    <3>1. [c EXCEPT !.pc = "handler", !.member = member[c.user]] \in Callers
      BY <1>t, <2>2 DEF Callers
    <3> QED
      BY <3>1 DEF Callers
  <2>5. /\ call' \in [Requests -> Callers] /\ \A q \in Requests : q # r => call'[q] = call[q]
        /\ call'[r] = d
    <3>1. call' = [call EXCEPT ![r] = d]
      BY <1>t, <2>0, <2>1, <2>4
    <3> QED
      BY <1>t, <3>1
  <2>6. since' \in Histories /\ since'.seen = Witness /\ since'.cut = since.cut /\ ActsWereEntitled'
    BY <2>1, Watched
  <2>7. CallFollows(r)'
    <3>1. /\ Witness[r].live
          /\ since.seen[r].admin => Witness[r].admin
          /\ member[c.user] \in Witness[r].member
      BY <2>0, <2>1, <2>2, Witnessed
    <3>2. d.token \in Tokens /\ session'[d.token].state # "none" /\ d.user \in Users /\ d.user = session'[d.token].user
      BY <2>1, <2>2, <2>4
    <3>3. d.admin => Witness[r].admin
      BY <2>2, <2>4, <3>1
    <3>4. Witness[r].live /\ d.member \in Witness[r].member
      BY <2>4, <3>1
    <3>5. call'[r] = d /\ since'.seen[r] = Witness[r]
      BY <2>5, <2>6
    <3> QED
      BY <3>2, <3>3, <3>4, <3>5 DEF CallFollows
  <2>8. ASSUME NEW q \in Requests, q # r PROVE CallFollows(q)'
    BY <2>1, <2>5, <2>6, <2>8, CallKept
  <2>9. SessionsAreOfUsers'
    BY <1>t, <2>1 DEF SessionsAreOfUsers
  <2> QED
    BY <1>t, <1>r, <2>1, <2>5, <2>6, <2>7, <2>8, <2>9 DEF AccessInv
<1>7. ASSUME NEW r \in Requests, Refuse(r) PROVE AccessInv'
  <2>1. /\ call[r].pc = "handler" /\ Replies(r, "none", "none")
        /\ UNCHANGED <<admins, known, spaces, member, session, overrides, audit>>
    BY <1>7 DEF Refuse
  <2>2. Entitled(call[r], "none", "none")
    BY DEF Entitled
  <2>3. /\ call' \in [Requests -> Callers] /\ since' \in Histories /\ since'.cut = since.cut
        /\ (\A q \in Requests : CallFollows(q)') /\ ActsWereEntitled'
    BY <1>a, <2>1, <2>2, Answered
  <2>4. SessionsAreOfUsers'
    BY <1>t, <2>1 DEF SessionsAreOfUsers
  <2> QED
    BY <1>t, <1>r, <2>1, <2>3, <2>4 DEF AccessInv
<1>8. ASSUME NEW r \in Requests, NEW asked \in Spaces \cup {"none"}, Read(r, asked) PROVE AccessInv'
  <2>0. PICK w : w = EffectiveWorkspace(call[r], asked)
    OBVIOUS
  <2>1. /\ call[r].pc = "handler" /\ Replies(r, "read", w)
        /\ asked # "none" => call[r].admin \/ call[r].member.space = asked
        /\ UNCHANGED <<admins, known, spaces, member, session, overrides, audit>>
    BY <1>8, <2>0 DEF Read, CanAccessWorkspace
  <2>2. w \in Spaces \cup {"any", "none"} /\ Entitled(call[r], "read", w)
    <3>1. call[r].member \in Member
      BY <1>t DEF Callers
    <3>2. call[r].member # NoMembership => call[r].member.space \in Spaces
      BY <3>1 DEF Member
    <3> QED
      BY <2>0, <2>1, <3>2 DEF EffectiveWorkspace, Entitled
  <2>3. /\ call' \in [Requests -> Callers] /\ since' \in Histories /\ since'.cut = since.cut
        /\ (\A q \in Requests : CallFollows(q)') /\ ActsWereEntitled'
    BY <1>a, <2>1, <2>2, Answered
  <2>4. SessionsAreOfUsers'
    BY <1>t, <2>1 DEF SessionsAreOfUsers
  <2> QED
    BY <1>t, <1>r, <2>1, <2>3, <2>4 DEF AccessInv
<1>9. ASSUME NEW r \in Requests, NEW w \in Spaces, NEW stops \in BOOLEAN, CreateWorkspace(r, w, stops) PROVE AccessInv'
  <2>1. /\ call[r].pc = "handler" /\ call[r].admin /\ spaces' = spaces \cup {w}
        /\ Audited(r, "create_workspace", w, stops)
        /\ UNCHANGED <<admins, known, member, session, overrides>>
    BY <1>9 DEF CreateWorkspace, RequireRole
  <2>2. Entitled(call[r], "create_workspace", w)
    BY <2>1 DEF Entitled
  <2>3. /\ call' \in [Requests -> Callers] /\ since' \in Histories
        /\ (\A q \in Requests : CallFollows(q)') /\ ActsWereEntitled'
        /\ audit' \in Seq(Entries) /\ Len(audit') <= MaxEvents
        /\ \/ since'.cut
           \/ since'.cut = since.cut /\ call[r].user \in Users /\ RecordAudit(call[r].user, "create_workspace")
    BY <1>a, <2>1, <2>2, Handled
  <2>4. TheTrailIsWhole' /\ (since'.cut \/ FirstIsOpen')
    <3>1. CASE since'.cut
      BY <3>1 DEF TheTrailIsWhole
    <3>2. CASE ~since'.cut
      BY <1>a, <2>1, <2>3, <3>2, OtherEvent
    <3> QED
      BY <3>1, <3>2
  <2>5. SessionsAreOfUsers'
    BY <1>t, <2>1 DEF SessionsAreOfUsers
  <2> QED
    BY <1>t, <2>1, <2>3, <2>4, <2>5 DEF AccessInv
<1>10. ASSUME NEW r \in Requests, NEW u \in Users, NEW w \in Spaces, NEW role \in Roles, NEW stops \in BOOLEAN,
              SetMembership(r, u, w, role, stops)
       PROVE  AccessInv'
  <2>1. /\ call[r].pc = "handler" /\ call[r].admin
        /\ member' = [member EXCEPT ![u] = [space |-> w, role |-> role]]
        /\ Audited(r, "set_membership", w, stops)
        /\ UNCHANGED <<admins, known, spaces, session, overrides>>
    BY <1>10 DEF SetMembership, RequireRole
  <2>2. Entitled(call[r], "set_membership", w)
    BY <2>1 DEF Entitled
  <2>3. /\ call' \in [Requests -> Callers] /\ since' \in Histories
        /\ (\A q \in Requests : CallFollows(q)') /\ ActsWereEntitled'
        /\ audit' \in Seq(Entries) /\ Len(audit') <= MaxEvents
        /\ \/ since'.cut
           \/ since'.cut = since.cut /\ call[r].user \in Users /\ RecordAudit(call[r].user, "set_membership")
    BY <1>a, <2>1, <2>2, Handled
  <2>4. TheTrailIsWhole' /\ (since'.cut \/ FirstIsOpen')
    <3>1. CASE since'.cut
      BY <3>1 DEF TheTrailIsWhole
    <3>2. CASE ~since'.cut
      BY <1>a, <2>1, <2>3, <3>2, OtherEvent
    <3> QED
      BY <3>1, <3>2
  <2>5. SessionsAreOfUsers'
    BY <1>t, <2>1 DEF SessionsAreOfUsers
  <2>6. member' \in [Users -> Member]
    <3>1. [space |-> w, role |-> role] \in Member
      BY DEF Member
    <3> QED
      BY <1>t, <2>1, <3>1
  <2> QED
    BY <1>t, <2>1, <2>3, <2>4, <2>5, <2>6 DEF AccessInv
<1>11. ASSUME NEW r \in Requests, NEW w \in Spaces, NEW stops \in BOOLEAN, Override(r, w, stops) PROVE AccessInv'
  <2>1. /\ call[r].pc = "handler" /\ MayOverride(call[r], w)
        /\ overrides' = Append(overrides, [space |-> w, by |-> call[r].user, resolved |-> NoOne])
        /\ Audited(r, "qualification_override", w, stops)
        /\ UNCHANGED <<admins, known, spaces, member, session>>
    BY <1>11 DEF Override
  <2>2. Entitled(call[r], "qualification_override", w)
    <3> SUFFICES ASSUME ~call[r].admin PROVE call[r].member = [space |-> w, role |-> "product_owner"]
      BY DEF Entitled
    <3>1. call[r].member \in Member
      BY <1>t DEF Callers
    <3>2. call[r].member.space = w /\ call[r].member.role = "product_owner"
      BY <2>1 DEF MayOverride, CanAccessWorkspace
    <3>3. call[r].member # NoMembership
      BY <3>2 DEF NoMembership
    <3> QED
      BY <3>1, <3>2, <3>3 DEF Member
  <2>3. /\ call' \in [Requests -> Callers] /\ since' \in Histories
        /\ (\A q \in Requests : CallFollows(q)') /\ ActsWereEntitled'
        /\ audit' \in Seq(Entries) /\ Len(audit') <= MaxEvents
        /\ \/ since'.cut
           \/ since'.cut = since.cut /\ call[r].user \in Users /\ RecordAudit(call[r].user, "qualification_override")
    BY <1>a, <2>1, <2>2, Handled
  <2>4. TheTrailIsWhole' /\ (since'.cut \/ FirstIsOpen')
    <3>1. CASE since'.cut
      BY <3>1 DEF TheTrailIsWhole
    <3>2. CASE ~since'.cut
      BY <2>1, <2>3, <3>2, OverrideEvent
    <3> QED
      BY <3>1, <3>2
  <2>5. SessionsAreOfUsers'
    BY <1>t, <2>1 DEF SessionsAreOfUsers
  <2>6. overrides' \in Seq(Rulings)
    <3>1. call[r].user \in Users
      BY <1>f, <2>1 DEF CallFollows
    <3>2. [space |-> w, by |-> call[r].user, resolved |-> NoOne] \in Rulings
      BY <3>1 DEF Rulings
    <3> QED
      BY <1>t, <2>1, <3>2
  <2> QED
    BY <1>t, <2>1, <2>3, <2>4, <2>5, <2>6 DEF AccessInv
<1>12. ASSUME NEW r \in Requests, NEW stops \in BOOLEAN, ResolveOverride(r, 1, stops) PROVE AccessInv'
  <2>1. /\ call[r].pc = "handler" /\ call[r].admin
        /\ overrides' = IF 1 \in DOMAIN overrides THEN [overrides EXCEPT ![1] = Resolved(@, call[r].user)] ELSE overrides
        /\ Audited(r, "resolve_override", "any", stops)
        /\ UNCHANGED <<admins, known, spaces, member, session>>
    BY <1>12 DEF ResolveOverride, RequireRole
  <2>2. Entitled(call[r], "resolve_override", "any")
    BY <2>1 DEF Entitled
  <2>3. /\ call' \in [Requests -> Callers] /\ since' \in Histories
        /\ (\A q \in Requests : CallFollows(q)') /\ ActsWereEntitled'
        /\ audit' \in Seq(Entries) /\ Len(audit') <= MaxEvents
        /\ \/ since'.cut
           \/ since'.cut = since.cut /\ call[r].user \in Users /\ RecordAudit(call[r].user, "resolve_override")
    BY <1>a, <2>1, <2>2, Handled
  <2>4. TheTrailIsWhole' /\ (since'.cut \/ FirstIsOpen')
    <3>1. CASE since'.cut
      BY <3>1 DEF TheTrailIsWhole
    <3>2. CASE ~since'.cut
      BY <2>1, <2>3, <3>2, ResolveEvent
    <3> QED
      BY <3>1, <3>2
  <2>5. SessionsAreOfUsers'
    BY <1>t, <2>1 DEF SessionsAreOfUsers
  <2>6. overrides' \in Seq(Rulings)
    <3>1. call[r].user \in Users
      BY <1>f, <2>1 DEF CallFollows
    <3>2. \A row \in Rulings : Resolved(row, call[r].user) \in Rulings
      BY <3>1 DEF Rulings, Resolved
    <3> QED
      BY <1>t, <2>1, <3>2
  <2> QED
    BY <1>t, <2>1, <2>3, <2>4, <2>5, <2>6 DEF AccessInv
<1> QED
  BY <1>u, <1>1, <1>2, <1>3, <1>4, <1>5, <1>6, <1>7, <1>8, <1>9, <1>10, <1>11, <1>12 DEF AccessNext

LEMMA AccessHolds ==
  ASSUME AccessInv
  PROVE  AccessTypeOK /\ ActsWereEntitled /\ TheTrailIsWhole
<1>1. AccessTypeOK
  <2>1. \A r \in Requests : call[r].pc \in {"idle", "session", "member", "handler"}
    BY DEF AccessInv, Callers
  <2>2. \A i \in DOMAIN overrides : overrides[i].space \in Spaces
    <3>1. \A i \in DOMAIN overrides : overrides[i] \in Rulings
      BY DEF AccessInv
    <3> QED
      BY <3>1 DEF Rulings
  <2>3. since.cut \in BOOLEAN /\ since.calls \in 0..MaxCalls
    BY DEF AccessInv, Histories
  <2> QED
    BY <2>1, <2>2, <2>3 DEF AccessInv, AccessTypeOK, Logins
<1> QED
  BY <1>1 DEF AccessInv

(***************************************************************************)
(* Network                                                                 *)
(***************************************************************************)
Rows == [people : SUBSET Persons, firms : [Firms -> Places], ties : SUBSET Persons]
Jobs == [pc : {"idle", "write", "people", "firms", "ties", "manifest", "scan", "drop", "create", "fill"},
         read : Rows, rows : SUBSET Persons, firm : Firms \cup {"none"}, tenant : Places,
         kind : {"none", "firm", "person", "reassign"}, batch : Batches \cup {"none"}]
Trails == [jobs : 0..MaxJobs, kept : Rows, overwrote : BOOLEAN, behind : BOOLEAN, cut : BOOLEAN]

Rebuilding == {"scan", "drop", "create", "fill"}

(* The server writes for a route, the tool imports; a person about to be   *)
(* written has the employer the route has found.                           *)
JobsFollow ==
  /\ job["tool"].pc # "write"
  /\ job["tool"].pc \in {"people", "firms", "ties", "manifest"} => job["tool"].batch \in Batches
  /\ job["server"].pc \notin {"people", "firms", "ties", "manifest"}
  /\ job["server"].pc = "write" =>
       /\ job["server"].kind # "person" =>
            job["server"].firm \in Firms /\ job["server"].tenant # Unlisted /\ job["server"].rows = {}
       /\ job["server"].kind = "person" =>
            trail.overwrote \/ \A p \in job["server"].rows : Known(p[2], files.firms)

(* The index is the files, or known to be behind, or somebody is at it.    *)
IndexFollows == tables.rows = files \/ trail.behind \/ \E a \in Actors : job[a].pc \in Rebuilding

(* Whose employer is not on file is of the import between its two files.   *)
EmployersFollow ==
  \/ trail.cut \/ trail.overwrote
  \/ \A p \in files.people :
       Known(p[2], files.firms) \/ (job["tool"].pc = "firms" /\ p \in job["tool"].rows)

NetworkInv ==
  /\ files \in Rows
  /\ tables \in [made : BOOLEAN, rows : Rows]
  /\ job \in [Actors -> Jobs]
  /\ batch \in [Batches -> {"none", "dir", "done"}]
  /\ dismissed \subseteq SUBSET Persons
  /\ trail \in Trails
  /\ JobsFollow
  /\ IndexFollows
  /\ CreatedStaysOnFile
  /\ EmployersFollow

LEMMA IdleIsTyped ==
  /\ NoRows \in Rows /\ (\A f \in Firms : NoRows.firms[f] = Unlisted) /\ NoRows.people = {}
  /\ Idle \in Jobs /\ Idle.pc = "idle" /\ Idle.rows = {}
<1>1. NoRows \in Rows /\ (\A f \in Firms : NoRows.firms[f] = Unlisted) /\ NoRows.people = {}
  BY DEF NoRows, Rows, Places
<1>2. NoTenant \in Places
  BY DEF Places
<1> QED
  BY <1>1, <1>2 DEF Idle, Jobs

LEMMA NetworkInitInv == NetworkInit => NetworkInv
<1> SUFFICES ASSUME NetworkInit PROVE NetworkInv
  OBVIOUS
<1>1. /\ files = NoRows /\ tables = [made |-> FALSE, rows |-> NoRows] /\ job = [a \in Actors |-> Idle]
      /\ batch = [b \in Batches |-> "none"] /\ dismissed = {}
      /\ trail = [jobs |-> 0, kept |-> NoRows, overwrote |-> FALSE, behind |-> FALSE, cut |-> FALSE]
  BY DEF NetworkInit
<1>2. files \in Rows /\ tables \in [made : BOOLEAN, rows : Rows] /\ job \in [Actors -> Jobs]
      /\ batch \in [Batches -> {"none", "dir", "done"}] /\ dismissed \subseteq SUBSET Persons
  BY <1>1, IdleIsTyped
<1>3. trail \in Trails /\ trail.kept = NoRows
  BY <1>1, IdleIsTyped, NetworkAssumption DEF Trails
<1>4. \A a \in Actors : job[a].pc = "idle"
  BY <1>1, IdleIsTyped
<1>5. "server" \in Actors /\ "tool" \in Actors
  BY DEF Actors
<1>6. JobsFollow /\ IndexFollows
  BY <1>1, <1>4, <1>5 DEF JobsFollow, IndexFollows
<1>7. CreatedStaysOnFile /\ EmployersFollow
  BY <1>1, <1>3, IdleIsTyped DEF CreatedStaysOnFile, EmployersFollow, Known
<1> QED
  BY <1>2, <1>3, <1>6, <1>7 DEF NetworkInv

(* A job begun: nothing is written yet.                                    *)
LEMMA Begun ==
  ASSUME NetworkInv, NEW a \in Actors, NEW j \in Jobs, Start(a, j),
         UNCHANGED <<files, tables, dismissed>>, batch' \in [Batches -> {"none", "dir", "done"}],
         a = "tool" => j.pc # "write" /\ j.batch \in Batches,
         a = "server" => j.pc \notin {"people", "firms", "ties", "manifest"},
         a = "server" /\ j.pc = "write" =>
           /\ j.kind # "person" => j.firm \in Firms /\ j.tenant # Unlisted /\ j.rows = {}
           /\ j.kind = "person" => \A p \in j.rows : Known(p[2], files.firms)
  PROVE  NetworkInv'
<1>t. /\ files \in Rows /\ job \in [Actors -> Jobs] /\ trail \in Trails
      /\ JobsFollow /\ IndexFollows /\ CreatedStaysOnFile /\ EmployersFollow
  BY DEF NetworkInv
<1>1. /\ job[a] = Idle /\ job' = [job EXCEPT ![a] = j]
      /\ trail' = [trail EXCEPT !.jobs = @ + 1] /\ trail.jobs < MaxJobs
  BY DEF Start, MayBegin
<1>2. /\ job' \in [Actors -> Jobs] /\ job'[a] = j /\ \A b \in Actors : b # a => job'[b] = job[b]
      /\ job[a].pc = "idle"
  BY <1>t, <1>1, IdleIsTyped
<1>3. /\ trail' \in Trails /\ trail'.kept = trail.kept /\ trail'.overwrote = trail.overwrote
      /\ trail'.behind = trail.behind /\ trail'.cut = trail.cut
  <2>1. trail.jobs + 1 \in 0..MaxJobs
    BY <1>t, <1>1, NetworkAssumption DEF Trails
  <2> QED
    BY <1>t, <1>1, <2>1 DEF Trails
<1>4. "server" \in Actors /\ "tool" \in Actors /\ "server" # "tool" /\ a \in {"server", "tool"}
  BY DEF Actors
<1>5. JobsFollow'
  <2>1. CASE a = "server"
    <3>1. job'["server"] = j /\ job'["tool"] = job["tool"]
      BY <1>2, <1>4, <2>1
    <3> QED
      BY <1>t, <2>1, <3>1 DEF JobsFollow
  <2>2. CASE a = "tool"
    <3>1. job'["tool"] = j /\ job'["server"] = job["server"]
      BY <1>2, <1>4, <2>2
    <3> QED
      BY <1>t, <1>3, <2>2, <3>1 DEF JobsFollow
  <2> QED
    BY <1>4, <2>1, <2>2
<1>6. IndexFollows'
  BY <1>t, <1>2, <1>3 DEF IndexFollows, Rebuilding
<1>7. CreatedStaysOnFile'
  BY <1>t, <1>3 DEF CreatedStaysOnFile
<1>8. EmployersFollow'
  BY <1>t, <1>2, <1>3, <1>4 DEF EmployersFollow
<1> QED
  BY <1>2, <1>3, <1>5, <1>6, <1>7, <1>8 DEF NetworkInv

(* A step that neither writes the files nor ends a rebuild without saying  *)
(* so.                                                                     *)
LEMMA FilesRest ==
  ASSUME NetworkInv, NEW a \in Actors, NEW j \in Jobs, job' = [job EXCEPT ![a] = j],
         UNCHANGED <<files, dismissed>>, batch' \in [Batches -> {"none", "dir", "done"}],
         tables' \in [made : BOOLEAN, rows : Rows], trail' \in Trails,
         trail'.kept = trail.kept, trail'.overwrote = trail.overwrote, trail.cut => trail'.cut,
         j.pc \in Rebuilding \cup {"idle"}, IndexFollows',
         a = "tool" /\ job[a].pc = "firms" => trail'.cut
  PROVE  NetworkInv'
<1>t. /\ files \in Rows /\ job \in [Actors -> Jobs]
      /\ JobsFollow /\ CreatedStaysOnFile /\ EmployersFollow
  BY DEF NetworkInv
<1>1. job' \in [Actors -> Jobs] /\ job'[a] = j /\ \A b \in Actors : b # a => job'[b] = job[b]
  BY <1>t
<1>2. "server" \in Actors /\ "tool" \in Actors /\ "server" # "tool" /\ a \in {"server", "tool"}
  BY DEF Actors
<1>3. JobsFollow'
  <2>1. CASE a = "server"
    <3>1. job'["server"] = j /\ job'["tool"] = job["tool"]
      BY <1>1, <1>2, <2>1
    <3> QED
      BY <1>t, <2>1, <3>1 DEF JobsFollow, Rebuilding
  <2>2. CASE a = "tool"
    <3>1. job'["tool"] = j /\ job'["server"] = job["server"]
      BY <1>1, <1>2, <2>2
    <3> QED
      BY <1>t, <2>2, <3>1 DEF JobsFollow, Rebuilding
  <2> QED
    BY <1>2, <2>1, <2>2
<1>4. CreatedStaysOnFile'
  BY <1>t DEF CreatedStaysOnFile
<1>5. EmployersFollow'
  <2>1. CASE a = "tool" /\ job[a].pc = "firms"
    BY <2>1 DEF EmployersFollow
  <2>2. CASE ~(a = "tool" /\ job[a].pc = "firms")
    BY <1>t, <1>1, <1>2, <2>2 DEF EmployersFollow
  <2> QED
    BY <2>1, <2>2
<1> QED
  BY <1>1, <1>3, <1>4, <1>5 DEF NetworkInv

LEMMA NetworkStepInv == NetworkInv /\ (NetworkNext \/ UNCHANGED networkVars) => NetworkInv'
<1> SUFFICES ASSUME NetworkInv, NetworkNext \/ UNCHANGED networkVars
    PROVE  NetworkInv'
  OBVIOUS
<1>t. /\ files \in Rows /\ tables \in [made : BOOLEAN, rows : Rows] /\ job \in [Actors -> Jobs]
      /\ batch \in [Batches -> {"none", "dir", "done"}] /\ dismissed \subseteq SUBSET Persons
      /\ trail \in Trails
      /\ JobsFollow /\ IndexFollows /\ CreatedStaysOnFile /\ EmployersFollow
  BY DEF NetworkInv
<1>s. "server" \in Actors /\ "tool" \in Actors /\ "server" # "tool" /\ \A a \in Actors : a \in {"server", "tool"}
  BY DEF Actors
<1>u. CASE UNCHANGED networkVars
  BY <1>t, <1>u DEF networkVars, NetworkInv, JobsFollow, IndexFollows, CreatedStaysOnFile, EmployersFollow
<1>1. ASSUME NEW f \in Firms, NEW t \in Tenants \cup {NoTenant}, BeginCreateCompany(f, t) PROVE NetworkInv'
  <2> DEFINE j == [Idle EXCEPT !.pc = "write", !.read = files, !.kind = "firm", !.firm = f, !.tenant = t]
  <2>1. t \in Places /\ t # Unlisted
    BY NetworkAssumption DEF Places, NoTenant, Unlisted
  <2>2. j \in Jobs /\ j.pc = "write" /\ j.kind = "firm" /\ j.firm = f /\ j.tenant = t /\ j.rows = {}
    BY <1>t, <2>1, IdleIsTyped DEF Idle, Jobs
  <2>3. Start("server", j) /\ UNCHANGED <<files, tables, batch, dismissed>>
    BY <1>1 DEF BeginCreateCompany
  <2> HIDE DEF j
  <2> QED
    BY <1>t, <1>s, <2>1, <2>2, <2>3, Begun
<1>2. ASSUME NEW f \in Firms, NEW t \in Tenants, BeginReassign(f, t) PROVE NetworkInv'
  <2> DEFINE j == [Idle EXCEPT !.pc = "write", !.read = files, !.kind = "reassign", !.firm = f, !.tenant = t]
  <2>1. t \in Places /\ t # Unlisted
    BY NetworkAssumption DEF Places, NoTenant, Unlisted
  <2>2. j \in Jobs /\ j.pc = "write" /\ j.kind = "reassign" /\ j.firm = f /\ j.tenant = t /\ j.rows = {}
    BY <1>t, <2>1, IdleIsTyped DEF Idle, Jobs
  <2>3. Start("server", j) /\ UNCHANGED <<files, tables, batch, dismissed>>
    BY <1>2 DEF BeginReassign
  <2> HIDE DEF j
  <2> QED
    BY <1>t, <1>s, <2>1, <2>2, <2>3, Begun
<1>3. ASSUME NEW p \in Persons, BeginCreatePerson(p) PROVE NetworkInv'
  <2> DEFINE j == [Idle EXCEPT !.pc = "write", !.read = files, !.kind = "person", !.rows = {p}]
  <2>1. j \in Jobs /\ j.pc = "write" /\ j.kind = "person" /\ j.rows = {p}
    BY <1>t, IdleIsTyped DEF Idle, Jobs
  <2>2. Start("server", j) /\ UNCHANGED <<files, tables, batch, dismissed>> /\ Known(p[2], files.firms)
    BY <1>3 DEF BeginCreatePerson
  <2> HIDE DEF j
  <2> QED
    BY <1>t, <1>s, <2>1, <2>2, Begun
<1>4. ASSUME NEW b \in Batches, NEW rows \in SUBSET Persons, BeginImport(b, rows) PROVE NetworkInv'
  <2> DEFINE j == [Idle EXCEPT !.pc = "people", !.read = files, !.rows = rows, !.batch = b]
  <2>1. j \in Jobs /\ j.pc = "people" /\ j.batch = b
    BY <1>t, IdleIsTyped DEF Idle, Jobs
  <2>2. Start("tool", j) /\ UNCHANGED <<files, tables, dismissed>> /\ batch' = [batch EXCEPT ![b] = "dir"]
    BY <1>4 DEF BeginImport
  <2>3. batch' \in [Batches -> {"none", "dir", "done"}]
    BY <1>t, <2>2
  <2> HIDE DEF j
  <2> QED
    BY <1>s, <2>1, <2>2, <2>3, Begun
<1>5. CASE WriteBack
  <2>0. PICK j : j = job["server"]
    OBVIOUS
  <2>j. j \in Jobs
    BY <1>t, <1>s, <2>0
  <2>1. /\ j.pc = "write" /\ tables' = tables /\ batch' = batch /\ dismissed' = dismissed
        /\ files' = IF j.kind = "person" THEN [files EXCEPT !.people = j.read.people \cup j.rows]
                    ELSE [files EXCEPT !.firms = Placed(j.read.firms, j.firm, j.tenant)]
        /\ IF j.kind = "reassign" THEN Ends("server") ELSE Goes("server", "scan")
    BY <1>5, <2>0 DEF WriteBack, ThenRebuild
  <2>2. trail' = [trail EXCEPT !.overwrote = @ \/ Overwriting(j), !.behind = @ \/ j.kind = "reassign",
                               !.kept = AnsweredFor(j, files'.firms)]
    <3>1. LET after == IF j.kind = "person" THEN [files EXCEPT !.people = j.read.people \cup j.rows]
                       ELSE [files EXCEPT !.firms = Placed(j.read.firms, j.firm, j.tenant)]
          IN  /\ files' = after
              /\ trail' = [trail EXCEPT !.overwrote = @ \/ Overwriting(j), !.behind = @ \/ j.kind = "reassign",
                                        !.kept = AnsweredFor(j, after.firms)]
      BY <1>5, <2>0 DEF WriteBack
    <3> QED
      BY <3>1
  <2>3. /\ j.kind # "person" => j.firm \in Firms /\ j.tenant # Unlisted /\ j.rows = {}
        /\ j.kind = "person" => trail.overwrote \/ \A p \in j.rows : Known(p[2], files.firms)
    BY <1>t, <2>0, <2>1 DEF JobsFollow
  <2>4. PICK k \in Jobs : /\ job' = [job EXCEPT !["server"] = k]
                          /\ j.kind = "reassign" => k.pc = "idle"
                          /\ j.kind # "reassign" => k.pc = "scan"
    <3>1. CASE j.kind = "reassign"
      BY <2>1, <3>1, IdleIsTyped DEF Ends
    <3>2. CASE j.kind # "reassign"
      <4>1. [j EXCEPT !.pc = "scan"] \in Jobs /\ [j EXCEPT !.pc = "scan"].pc = "scan"
        BY <2>j DEF Jobs
      <4>2. job' = [job EXCEPT !["server"] = [j EXCEPT !.pc = "scan"]]
        BY <2>0, <2>1, <3>2 DEF Goes
      <4> QED
        BY <3>2, <4>1, <4>2
    <3> QED
      BY <3>1, <3>2
  <2>5. /\ job' \in [Actors -> Jobs] /\ job'["server"] = k /\ job'["tool"] = job["tool"]
    BY <1>t, <1>s, <2>4
  <2>6. /\ files' \in Rows /\ files'.ties = files.ties
        /\ j.kind = "person" => files'.people = j.read.people \cup j.rows /\ files'.firms = files.firms
        /\ j.kind # "person" => files'.people = files.people /\ files'.firms = Placed(j.read.firms, j.firm, j.tenant)
    <3>1. j.read.people \cup j.rows \in SUBSET Persons /\ j.read.firms \in [Firms -> Places] /\ j.tenant \in Places
      BY <2>j DEF Jobs, Rows
    <3>2. Placed(j.read.firms, j.firm, j.tenant) \in [Firms -> Places]
      BY <3>1 DEF Placed
    <3>3. CASE j.kind = "person"
      BY <1>t, <2>1, <3>1, <3>3 DEF Rows
    <3>4. CASE j.kind # "person"
      BY <1>t, <2>1, <3>2, <3>4 DEF Rows
    <3> QED
      BY <3>3, <3>4
  <2>7. /\ trail' \in Trails /\ trail'.cut = trail.cut
        /\ trail'.overwrote = (trail.overwrote \/ (IF j.kind = "person" THEN j.read.people # files.people
                                                   ELSE j.read.firms # files.firms))
        /\ trail'.behind = (trail.behind \/ j.kind = "reassign")
        /\ trail'.kept.people = trail.kept.people \cup j.rows
        /\ j.kind = "person" => trail'.kept.firms = trail.kept.firms
        /\ j.kind # "person" => trail'.kept.firms = [trail.kept.firms EXCEPT ![j.firm] = files'.firms[j.firm]]
    <3>1. AnsweredFor(j, files'.firms) \in Rows
      <4>1. trail.kept \in Rows /\ files'.firms \in [Firms -> Places]
        BY <1>t, <2>6 DEF Rows, Trails
      <4>2. trail.kept.people \cup j.rows \in SUBSET Persons /\ trail.kept.ties \in SUBSET Persons
        BY <2>j, <4>1 DEF Rows, Jobs
      <4>3. (IF j.kind = "person" THEN trail.kept.firms
             ELSE [trail.kept.firms EXCEPT ![j.firm] = files'.firms[j.firm]]) \in [Firms -> Places]
        BY <2>3, <4>1 DEF Rows
      <4> QED
        BY <4>2, <4>3 DEF AnsweredFor, Rows
    <3>2. PICK kept \in Rows : kept = AnsweredFor(j, files'.firms)
      BY <3>1
    <3>3. PICK overwrote \in BOOLEAN : overwrote = (trail.overwrote \/ Overwriting(j))
      OBVIOUS
    <3>4. PICK behind \in BOOLEAN : behind = (trail.behind \/ j.kind = "reassign")
      OBVIOUS
    <3>5. trail' = [trail EXCEPT !.overwrote = overwrote, !.behind = behind, !.kept = kept]
      BY <2>2, <3>2, <3>3, <3>4
    <3>6. /\ trail' \in Trails /\ trail'.cut = trail.cut /\ trail'.overwrote = overwrote
          /\ trail'.behind = behind /\ trail'.kept = kept
      BY <1>t, <3>5 DEF Trails
    <3>7. trail'.overwrote = (trail.overwrote \/ (IF j.kind = "person" THEN j.read.people # files.people
                                                  ELSE j.read.firms # files.firms))
      BY <3>3, <3>6 DEF Overwriting
    <3>8. /\ kept.people = trail.kept.people \cup j.rows
          /\ j.kind = "person" => kept.firms = trail.kept.firms
          /\ j.kind # "person" => kept.firms = [trail.kept.firms EXCEPT ![j.firm] = files'.firms[j.firm]]
      BY <3>2 DEF AnsweredFor
    <3> QED
      BY <3>4, <3>6, <3>7, <3>8
  <2>8. JobsFollow'
    BY <1>t, <2>4, <2>5 DEF JobsFollow
  <2>9. IndexFollows'
    BY <1>s, <2>4, <2>5, <2>7 DEF IndexFollows, Rebuilding
  <2>p. \A p \in Persons : p[2] \in Firms
    BY DEF Persons
  <2>k. trail'.overwrote \/
          /\ ~trail.overwrote
          /\ j.kind = "person" => j.read.people = files.people
          /\ j.kind # "person" => j.read.firms = files.firms
    BY <2>7
  <2>f. j.kind # "person" =>
          \A f \in Firms : files'.firms[f] = IF f = j.firm
                             THEN IF j.tenant = NoTenant /\ j.read.firms[f] # Unlisted
                                  THEN j.read.firms[f] ELSE j.tenant
                             ELSE j.read.firms[f]
    <3>1. j.read.firms \in [Firms -> Places]
      BY <2>j DEF Jobs, Rows
    <3> QED
      BY <2>3, <2>6, <3>1 DEF Placed
  <2>10. CreatedStaysOnFile'
    <3> SUFFICES ASSUME ~trail'.overwrote PROVE CreatedStaysOnFile'
      BY DEF CreatedStaysOnFile
    <3>0. trail.kept.firms \in [Firms -> Places]
      BY <1>t DEF Trails, Rows
    <3>1. CASE j.kind = "person"
      <4>1. trail'.kept.people \subseteq files'.people /\ trail'.kept.firms = trail.kept.firms /\ files'.firms = files.firms
        BY <1>t, <2>6, <2>7, <2>k, <3>1 DEF CreatedStaysOnFile
      <4> QED
        BY <1>t, <2>k, <4>1 DEF CreatedStaysOnFile
    <3>2. CASE j.kind # "person"
      <4>1. trail'.kept.people = trail.kept.people /\ files'.people = files.people
        BY <2>3, <2>6, <2>7, <3>2
      <4>2. ASSUME NEW f \in Firms, Known(f, trail'.kept.firms) PROVE files'.firms[f] = trail'.kept.firms[f]
        <5>1. CASE f = j.firm
          BY <2>7, <3>0, <3>2, <5>1
        <5>2. CASE f # j.firm
          <6>1. trail'.kept.firms[f] = trail.kept.firms[f] /\ files'.firms[f] = files.firms[f]
            BY <2>3, <2>7, <2>k, <2>f, <3>0, <3>2, <5>2
          <6> QED
            BY <1>t, <2>k, <4>2, <6>1 DEF CreatedStaysOnFile, Known
        <5> QED
          BY <5>1, <5>2
      <4> QED
        BY <1>t, <2>k, <4>1, <4>2 DEF CreatedStaysOnFile
    <3> QED
      BY <3>1, <3>2
  <2>11. EmployersFollow'
    <3> SUFFICES ASSUME ~trail'.overwrote, ~trail.cut, NEW p \in files'.people
        PROVE  Known(p[2], files'.firms) \/ (job["tool"].pc = "firms" /\ p \in job["tool"].rows)
      BY <2>5, <2>7 DEF EmployersFollow
    <3>1. p \in Persons /\ p[2] \in Firms
      BY <2>6, <2>p DEF Rows
    <3>2. CASE j.kind = "person"
      <4>1. p \in files.people \/ p \in j.rows
        BY <2>6, <2>k, <3>2
      <4> QED
        BY <1>t, <2>3, <2>6, <2>k, <3>2, <4>1 DEF EmployersFollow
    <3>3. CASE j.kind # "person"
      <4>1. Known(p[2], files.firms) => Known(p[2], files'.firms)
        BY <2>3, <2>k, <2>f, <3>1, <3>3 DEF Known
      <4> QED
        BY <1>t, <2>6, <2>k, <3>3, <4>1 DEF EmployersFollow
    <3> QED
      BY <3>2, <3>3
  <2> QED
    BY <1>t, <2>1, <2>5, <2>6, <2>7, <2>8, <2>9, <2>10, <2>11 DEF NetworkInv
<1>6. CASE ImportPeople
  <2>0. PICK j : j = job["tool"]
    OBVIOUS
  <2>j. j \in Jobs
    BY <1>t, <1>s, <2>0
  <2>1. /\ j.pc = "people" /\ Goes("tool", "firms")
        /\ files' = [files EXCEPT !.people = j.read.people \cup j.rows]
        /\ trail' = [trail EXCEPT !.behind = TRUE, !.overwrote = @ \/ j.read.people # files.people]
        /\ tables' = tables /\ batch' = batch /\ dismissed' = dismissed
    BY <1>6, <2>0 DEF ImportPeople
  <2>2. /\ files' \in Rows /\ files'.people = j.read.people \cup j.rows /\ files'.firms = files.firms
    BY <1>t, <2>j, <2>1 DEF Rows, Jobs
  <2>3. /\ trail' \in Trails /\ trail'.behind /\ trail'.cut = trail.cut /\ trail'.kept = trail.kept
        /\ trail'.overwrote = (trail.overwrote \/ j.read.people # files.people)
    BY <1>t, <2>1 DEF Trails
  <2>4. /\ job' \in [Actors -> Jobs] /\ job'["tool"].pc = "firms" /\ job'["tool"].rows = j.rows
        /\ job'["tool"].batch = j.batch /\ job'["server"] = job["server"]
    BY <1>t, <1>s, <2>0, <2>1 DEF Goes, Jobs
  <2>5. JobsFollow'
    BY <1>t, <2>0, <2>1, <2>2, <2>3, <2>4 DEF JobsFollow
  <2>6. IndexFollows'
    BY <2>3 DEF IndexFollows
  <2>7. CreatedStaysOnFile'
    BY <1>t, <2>2, <2>3 DEF CreatedStaysOnFile
  <2>8. EmployersFollow'
    BY <1>t, <2>0, <2>1, <2>2, <2>3, <2>4 DEF EmployersFollow
  <2> QED
    BY <1>t, <2>1, <2>2, <2>3, <2>4, <2>5, <2>6, <2>7, <2>8 DEF NetworkInv
<1>7. CASE ImportCompanies
  <2>0. PICK j : j = job["tool"]
    OBVIOUS
  <2>j. j \in Jobs
    BY <1>t, <1>s, <2>0
  <2> DEFINE firms == [f \in Firms |-> IF j.read.firms[f] = Unlisted /\ \E p \in j.rows : p[2] = f
                                       THEN NoTenant ELSE j.read.firms[f]]
  <2>1. /\ j.pc = "firms" /\ Goes("tool", "ties")
        /\ files' = [files EXCEPT !.firms = firms]
        /\ trail' = [trail EXCEPT !.behind = TRUE, !.overwrote = @ \/ j.read.firms # files.firms]
        /\ tables' = tables /\ batch' = batch /\ dismissed' = dismissed
    BY <1>7, <2>0 DEF ImportCompanies
  <2>2. /\ firms \in [Firms -> Places]
        /\ \A f \in Firms : firms[f] = IF j.read.firms[f] = Unlisted /\ \E p \in j.rows : p[2] = f
                                       THEN NoTenant ELSE j.read.firms[f]
    <3>1. j.read.firms \in [Firms -> Places] /\ NoTenant \in Places
      BY <2>j DEF Jobs, Rows, Places
    <3> QED
      BY <3>1
  <2> HIDE DEF firms
  <2>3. files' \in Rows /\ files'.people = files.people /\ files'.firms = firms
    BY <1>t, <2>1, <2>2 DEF Rows
  <2>4. /\ trail' \in Trails /\ trail'.behind /\ trail'.cut = trail.cut /\ trail'.kept = trail.kept
        /\ trail'.overwrote = (trail.overwrote \/ j.read.firms # files.firms)
    BY <1>t, <2>1 DEF Trails
  <2>5. /\ job' \in [Actors -> Jobs] /\ job'["tool"].pc = "ties" /\ job'["tool"].batch = j.batch
        /\ job'["server"] = job["server"]
    BY <1>t, <1>s, <2>0, <2>1 DEF Goes, Jobs
  <2>6. \/ trail'.overwrote
        \/ /\ ~trail.overwrote
           /\ \A f \in Firms : /\ Known(f, files.firms) => files'.firms[f] = files.firms[f]
                               /\ Known(f, files.firms) => Known(f, files'.firms)
                               /\ (\E p \in j.rows : p[2] = f) => Known(f, files'.firms)
    BY <2>2, <2>3, <2>4 DEF Known, NoTenant, Unlisted
  <2>p. /\ \A p \in job["server"].rows : p[2] \in Firms
        /\ \A p \in files.people : p[2] \in Firms
    <3>1. job["server"].rows \subseteq Persons /\ files.people \subseteq Persons
      BY <1>t, <1>s DEF Jobs, Rows
    <3> QED
      BY <3>1 DEF Persons
  <2>7. JobsFollow'
    <3>1. job["server"].pc = "write" /\ job["server"].kind = "person" =>
            trail'.overwrote \/ \A p \in job["server"].rows : Known(p[2], files'.firms)
      BY <1>t, <2>6, <2>p DEF JobsFollow
    <3> QED
      BY <1>t, <2>0, <2>1, <2>5, <3>1 DEF JobsFollow
  <2>8. IndexFollows'
    BY <2>4 DEF IndexFollows
  <2>9. CreatedStaysOnFile'
    BY <1>t, <2>3, <2>4, <2>6 DEF CreatedStaysOnFile, Known
  <2>10. EmployersFollow'
    BY <1>t, <2>0, <2>1, <2>3, <2>4, <2>6, <2>p DEF EmployersFollow
  <2> QED
    BY <1>t, <2>1, <2>3, <2>4, <2>5, <2>7, <2>8, <2>9, <2>10 DEF NetworkInv
<1>8. CASE ImportRelationships
  <2>0. PICK j : j = job["tool"]
    OBVIOUS
  <2>j. j \in Jobs
    BY <1>t, <1>s, <2>0
  <2>1. /\ j.pc = "ties" /\ Goes("tool", "manifest")
        /\ files' = [files EXCEPT !.ties = j.read.ties \cup j.rows]
        /\ trail' = [trail EXCEPT !.behind = TRUE]
        /\ tables' = tables /\ batch' = batch /\ dismissed' = dismissed
    BY <1>8, <2>0 DEF ImportRelationships
  <2>2. files' \in Rows /\ files'.people = files.people /\ files'.firms = files.firms
    BY <1>t, <2>j, <2>1 DEF Rows, Jobs
  <2>3. /\ trail' \in Trails /\ trail'.behind /\ trail'.cut = trail.cut /\ trail'.kept = trail.kept
        /\ trail'.overwrote = trail.overwrote
    BY <1>t, <2>1 DEF Trails
  <2>4. /\ job' \in [Actors -> Jobs] /\ job'["tool"].pc = "manifest" /\ job'["tool"].batch = j.batch
        /\ job'["server"] = job["server"]
    BY <1>t, <1>s, <2>0, <2>1 DEF Goes, Jobs
  <2>5. JobsFollow'
    BY <1>t, <2>0, <2>1, <2>2, <2>3, <2>4 DEF JobsFollow
  <2>6. IndexFollows'
    BY <2>3 DEF IndexFollows
  <2>7. CreatedStaysOnFile'
    BY <1>t, <2>2, <2>3 DEF CreatedStaysOnFile
  <2>8. EmployersFollow'
    BY <1>t, <2>0, <2>1, <2>2, <2>3 DEF EmployersFollow
  <2> QED
    BY <1>t, <2>1, <2>2, <2>3, <2>4, <2>5, <2>6, <2>7, <2>8 DEF NetworkInv
<1>9. CASE ImportManifest
  <2>1. /\ job["tool"].pc = "manifest" /\ job' = [job EXCEPT !["tool"] = Idle]
        /\ batch' = [batch EXCEPT ![job["tool"].batch] = "done"]
        /\ UNCHANGED <<files, tables, dismissed, trail>>
    BY <1>9 DEF ImportManifest, Ends
  <2>2. batch' \in [Batches -> {"none", "dir", "done"}]
    BY <1>t, <2>1
  <2>3. job'["tool"].pc = "idle" /\ job'["server"] = job["server"]
    BY <1>t, <1>s, <2>1, IdleIsTyped
  <2>4. IndexFollows'
    BY <1>t, <1>s, <2>1, <2>3 DEF IndexFollows, Rebuilding
  <2> QED
    BY <1>t, <1>s, <2>1, <2>2, <2>4, IdleIsTyped, FilesRest
<1>10. ASSUME NEW a \in Actors, BeginRebuild(a) PROVE NetworkInv'
  <2> DEFINE j == [Idle EXCEPT !.pc = "scan"]
  <2>1. j \in Jobs /\ j.pc = "scan"
    BY IdleIsTyped DEF Jobs
  <2>2. Start(a, j) /\ UNCHANGED <<files, tables, batch, dismissed>>
    BY <1>10 DEF BeginRebuild
  <2> HIDE DEF j
  <2>3. /\ job' = [job EXCEPT ![a] = j] /\ trail' = [trail EXCEPT !.jobs = @ + 1]
        /\ job[a] = Idle /\ trail.jobs < MaxJobs
    BY <2>2 DEF Start, MayBegin
  <2>4. /\ trail' \in Trails /\ trail'.kept = trail.kept /\ trail'.overwrote = trail.overwrote
        /\ trail'.cut = trail.cut
    <3>1. trail.jobs + 1 \in 0..MaxJobs
      BY <1>t, <2>3, NetworkAssumption DEF Trails
    <3> QED
      BY <1>t, <2>3, <3>1 DEF Trails
  <2>5. job'[a] = j
    BY <1>t, <2>3
  <2>6. IndexFollows'
    BY <2>1, <2>5 DEF IndexFollows, Rebuilding
  <2> QED
    BY <1>t, <2>1, <2>2, <2>3, <2>4, <2>6, IdleIsTyped, FilesRest DEF Rebuilding
<1>11. ASSUME NEW a \in Actors, ReadFiles(a) \/ DropTables(a) PROVE NetworkInv'
  <2>0. PICK was \in Jobs : was = job[a]
    BY <1>t
  <2>1. PICK j \in Jobs : job' = [job EXCEPT ![a] = j] /\ j.pc \in Rebuilding
    <3>1. CASE ReadFiles(a)
      <4>1. job' = [job EXCEPT ![a] = [was EXCEPT !.pc = "drop", !.read = files]]
        BY <1>t, <2>0, <3>1 DEF ReadFiles
      <4>2. /\ [was EXCEPT !.pc = "drop", !.read = files] \in Jobs
            /\ [was EXCEPT !.pc = "drop", !.read = files].pc = "drop"
        BY <1>t, <2>0 DEF Jobs
      <4> QED
        BY <4>1, <4>2 DEF Rebuilding
    <3>2. CASE DropTables(a)
      <4>1. job' = [job EXCEPT ![a] = [was EXCEPT !.pc = "create"]]
        BY <2>0, <3>2 DEF DropTables, Goes
      <4>2. [was EXCEPT !.pc = "create"] \in Jobs /\ [was EXCEPT !.pc = "create"].pc = "create"
        BY <2>0 DEF Jobs
      <4> QED
        BY <4>1, <4>2 DEF Rebuilding
    <3> QED
      BY <1>11, <3>1, <3>2
  <2>2. tables' \in [made : BOOLEAN, rows : Rows] /\ UNCHANGED <<files, batch, dismissed, trail>>
        /\ job[a].pc \in Rebuilding
    <3>1. CASE ReadFiles(a)
      BY <1>t, <3>1 DEF ReadFiles, Rebuilding
    <3>2. CASE DropTables(a)
      <4>1. tables' = [made |-> FALSE, rows |-> NoRows] /\ UNCHANGED <<files, batch, dismissed, trail>>
            /\ job[a].pc = "drop"
        BY <3>2 DEF DropTables
      <4> QED
        BY <4>1, IdleIsTyped DEF Rebuilding
    <3> QED
      BY <1>11, <3>1, <3>2
  <2>3. job'[a] = j
    BY <1>t, <2>1
  <2>4. IndexFollows'
    BY <2>1, <2>3 DEF IndexFollows
  <2> QED
    BY <1>t, <2>1, <2>2, <2>4, FilesRest DEF Rebuilding
<1>12. ASSUME NEW a \in Actors, CreateTables(a) \/ Fill(a) PROVE NetworkInv'
  <2>0. UNCHANGED <<files, batch, dismissed>> /\ job[a].pc \in Rebuilding
    BY <1>12 DEF CreateTables, Fill, Rebuilding
  <2>1. CASE Ends(a) /\ Behind /\ UNCHANGED tables
    <3>1. job' = [job EXCEPT ![a] = Idle] /\ trail' = [trail EXCEPT !.behind = TRUE] /\ tables' = tables
      BY <2>1 DEF Ends, Behind
    <3>2. /\ trail' \in Trails /\ trail'.behind /\ trail'.kept = trail.kept
          /\ trail'.overwrote = trail.overwrote /\ trail'.cut = trail.cut
      BY <1>t, <3>1 DEF Trails
    <3>3. IndexFollows'
      BY <3>2 DEF IndexFollows
    <3> QED
      BY <1>t, <2>0, <3>1, <3>2, <3>3, IdleIsTyped, FilesRest DEF Rebuilding
  <2>2. CASE Goes(a, "fill") /\ tables' = [tables EXCEPT !.made = TRUE] /\ UNCHANGED trail
    <3>0. PICK was \in Jobs : was = job[a]
      BY <1>t
    <3>1. job' = [job EXCEPT ![a] = [was EXCEPT !.pc = "fill"]]
      BY <2>2, <3>0 DEF Goes
    <3>2. PICK j \in Jobs : j = [was EXCEPT !.pc = "fill"] /\ j.pc = "fill"
      <4>1. [was EXCEPT !.pc = "fill"] \in Jobs /\ [was EXCEPT !.pc = "fill"].pc = "fill"
        BY <3>0 DEF Jobs
      <4> QED
        BY <4>1
    <3>3. tables' \in [made : BOOLEAN, rows : Rows]
      BY <1>t, <2>2
    <3>4. job'[a] = j
      BY <1>t, <3>1, <3>2
    <3>5. IndexFollows'
      BY <3>2, <3>4 DEF IndexFollows, Rebuilding
    <3>6. job' = [job EXCEPT ![a] = j]
      BY <3>1, <3>2
    <3> QED
      BY <1>t, <2>0, <2>2, <3>2, <3>3, <3>5, <3>6, FilesRest DEF Rebuilding
  <2>3. CASE /\ Ends(a) /\ tables' = [tables EXCEPT !.rows = Both(@, job[a].read)]
             /\ trail' = [trail EXCEPT !.behind = Both(tables.rows, job[a].read) # files]
    <3>0. PICK both : both = Both(tables.rows, job[a].read)
      OBVIOUS
    <3>1. both \in Rows
      <4>1. PICK r \in Rows, s \in Rows : r = tables.rows /\ s = job[a].read
        BY <1>t DEF Jobs
      <4>2. both = [people |-> r.people \cup s.people, ties |-> r.ties \cup s.ties,
                    firms |-> [f \in Firms |-> IF Known(f, r.firms) THEN r.firms[f] ELSE s.firms[f]]]
        BY <3>0, <4>1 DEF Both
      <4>3. r.people \cup s.people \in SUBSET Persons /\ r.ties \cup s.ties \in SUBSET Persons
        BY <4>1 DEF Rows
      <4>4. [f \in Firms |-> IF Known(f, r.firms) THEN r.firms[f] ELSE s.firms[f]] \in [Firms -> Places]
        BY <4>1 DEF Rows
      <4> QED
        BY <4>2, <4>3, <4>4 DEF Rows
    <3>2. tables' \in [made : BOOLEAN, rows : Rows] /\ tables'.rows = both
      BY <1>t, <2>3, <3>0, <3>1
    <3>3. PICK behind \in BOOLEAN : behind = (both # files)
      OBVIOUS
    <3>4. /\ trail' \in Trails /\ trail'.behind = behind /\ trail'.kept = trail.kept
          /\ trail'.overwrote = trail.overwrote /\ trail'.cut = trail.cut
      <4>1. trail' = [trail EXCEPT !.behind = behind]
        BY <2>3, <3>0, <3>3
      <4> QED
        BY <1>t, <4>1 DEF Trails
    <3>5. IndexFollows'
      BY <2>0, <3>2, <3>3, <3>4 DEF IndexFollows
    <3>6. job' = [job EXCEPT ![a] = Idle]
      BY <2>3 DEF Ends
    <3> QED
      BY <1>t, <2>0, <3>2, <3>4, <3>5, <3>6, IdleIsTyped, FilesRest DEF Rebuilding
  <2>4. CreateTables(a) => (Ends(a) /\ Behind /\ UNCHANGED tables)
                           \/ (Goes(a, "fill") /\ tables' = [tables EXCEPT !.made = TRUE] /\ UNCHANGED trail)
    BY DEF CreateTables
  <2>5. Fill(a) => (Ends(a) /\ Behind /\ UNCHANGED tables)
                   \/ (/\ Ends(a) /\ tables' = [tables EXCEPT !.rows = Both(@, job[a].read)]
                       /\ trail' = [trail EXCEPT !.behind = Both(tables.rows, job[a].read) # files])
    BY DEF Fill
  <2> QED
    BY <1>12, <2>1, <2>2, <2>3, <2>4, <2>5
<1>13. ASSUME NEW a \in Actors, Stops(a) PROVE NetworkInv'
  <2>1. /\ job' = [job EXCEPT ![a] = Idle]
        /\ trail' = [trail EXCEPT !.behind = @ \/ job[a].pc \in {"scan", "drop", "create", "fill"},
                                  !.cut = @ \/ job[a].pc \in {"firms", "ties"}]
        /\ UNCHANGED <<files, tables, batch, dismissed>>
    BY <1>13 DEF Stops, Ends
  <2>2. /\ trail' \in Trails /\ trail'.kept = trail.kept /\ trail'.overwrote = trail.overwrote
        /\ trail'.behind = (trail.behind \/ job[a].pc \in {"scan", "drop", "create", "fill"})
        /\ trail'.cut = (trail.cut \/ job[a].pc \in {"firms", "ties"})
    BY <1>t, <2>1 DEF Trails
  <2>3. \A b \in Actors : b # a => job'[b] = job[b]
    BY <1>t, <2>1
  <2>4. IndexFollows'
    BY <1>t, <2>1, <2>2, <2>3 DEF IndexFollows, Rebuilding
  <2> QED
    BY <1>t, <2>1, <2>2, <2>4, IdleIsTyped, FilesRest
<1>14. ASSUME NEW t \in Tenants, NEW g \in SUBSET Persons, DismissDuplicateGroup(t, g) PROVE NetworkInv'
  <2>1. dismissed' = dismissed \cup {g} /\ UNCHANGED <<files, tables, job, batch, trail>>
    BY <1>14 DEF DismissDuplicateGroup
  <2> QED
    BY <1>t, <2>1 DEF NetworkInv, JobsFollow, IndexFollows, CreatedStaysOnFile, EmployersFollow
<1> QED
  BY <1>u, <1>1, <1>2, <1>3, <1>4, <1>5, <1>6, <1>7, <1>8, <1>9, <1>10, <1>11, <1>12, <1>13, <1>14
     DEF NetworkNext

LEMMA NetworksHold ==
  ASSUME NetworkInv
  PROVE  NetworkTypeOK /\ IndexShowsTheFiles /\ CreatedStaysOnFile /\ PeopleHaveEmployers
<1>1. NetworkTypeOK
  BY DEF NetworkInv, NetworkTypeOK, Rows, Jobs, Trails
<1>2. IndexShowsTheFiles
  BY IdleIsTyped DEF NetworkInv, IndexShowsTheFiles, IndexFollows, Rebuilding
<1>3. PeopleHaveEmployers
  BY DEF NetworkInv, EmployersFollow, PeopleHaveEmployers
<1> QED
  BY <1>1, <1>2, <1>3 DEF NetworkInv

(***************************************************************************)
(* Products                                                                *)
(***************************************************************************)
Versionings == UNION {[S -> VersionStatuses] : S \in SUBSET Numbers}
Shelves == UNION {[S -> Nat] : S \in SUBSET Numbers}

Publications == [pc : {"idle", "keep", "read", "write"}, n : Numbers \cup {None},
                 previous : Numbers \cup {None}, at : Nat, knew : SUBSET Numbers, read : Shelves]

Accounts == [moves : Nat, clock : Nat, kept : SUBSET Numbers, overlapped : BOOLEAN, cut : BOOLEAN]

(* The publications on file or on their way to the file, with their times. *)
Pending == {p \in Publishers : publisher[p].pc \in {"read", "write"}}
Recorded == {<<n, snapshots[n]>> : n \in DOMAIN snapshots}
            \cup {<<publisher[p].n, publisher[p].at>> : p \in Pending}

(* Each publication has a version of its own, journaled before the first   *)
(* of its records is kept and published when it is.                        *)
PublisherFollows ==
  /\ \A p \in Publishers : publisher[p].pc # "idle" =>
       /\ publisher[p].n \in published
       /\ publisher[p].n \in DOMAIN version
       /\ publisher[p].at <= shelf.clock
  /\ \A p \in Publishers : publisher[p].knew \subseteq published
  /\ \A p \in Publishers : publisher[p].pc = "keep" =>
       /\ publisher[p].n \notin Current /\ publisher[p].n # publisher[p].previous
       /\ \A q \in Publishers : publisher[p].n \notin publisher[q].knew
  /\ \A p, q \in Publishers :
       p # q /\ publisher[p].pc # "idle" /\ publisher[q].pc # "idle" => publisher[p].n # publisher[q].n

(* While nobody has kept records over ones not read, one version is        *)
(* published, the last publication on record is its own, and whoever is    *)
(* about to keep over it what is published came after all on record.       *)
PublishedLast ==
  /\ \A i, j \in Current : i = j
  /\ \A p \in Publishers : publisher[p].pc = "keep" =>
       \/ publisher[p].previous \in publisher[p].knew
       \/ publisher[p].knew = {}
  /\ \A p \in Publishers : publisher[p].pc # "idle" => publisher[p].n \notin DOMAIN snapshots
  /\ \A e \in Recorded : e[2] <= shelf.clock
  /\ \A p \in Publishers : publisher[p].pc = "keep" /\ publisher[p].knew = Current =>
       \A e \in Recorded : e[2] < publisher[p].at
  /\ shelf.kept \subseteq DOMAIN snapshots
  /\ DOMAIN snapshots \subseteq published
  /\ ~shelf.cut =>
       \A e \in Recorded :
         e[1] \in Current \/ \E d \in Recorded : d[1] \in Current /\ e[2] < d[2]

ProductInv ==
  /\ version \in Versionings
  /\ snapshots \in Shelves
  /\ publisher \in [Publishers -> Publications]
  /\ shelf \in Accounts
  /\ published \subseteq Numbers
  /\ IsFiniteSet(published) /\ shelf.clock = Cardinality(published)
  /\ Current \subseteq published
  /\ PublisherFollows
  /\ shelf.overlapped \/ PublishedLast

LEMMA NoneIsTyped ==
  /\ <<>> \in Shelves /\ <<>> \in Versionings
  /\ Unoccupied \in Publications
<1>1. <<>> \in [{} -> Nat] /\ <<>> \in [{} -> VersionStatuses]
  OBVIOUS
<1>2. <<>> \in Shelves /\ <<>> \in Versionings
  BY <1>1 DEF Shelves, Versionings
<1> QED
  BY <1>2 DEF Unoccupied, Publications, None

TakenUp(n, previous, at, knew) ==
  [Unoccupied EXCEPT !.pc = "keep", !.n = n, !.previous = previous, !.at = at, !.knew = knew]

LEMMA TakesUp ==
  ASSUME NEW n \in Numbers, NEW previous \in Numbers \cup {None}, NEW at \in Nat, NEW knew \in SUBSET Numbers
  PROVE  LET work == TakenUp(n, previous, at, knew)
         IN /\ work \in Publications /\ work.pc = "keep" /\ work.n = n /\ work.previous = previous
            /\ work.at = at /\ work.knew = knew
BY NoneIsTyped DEF TakenUp, Unoccupied, Publications

LEMMA ProductInitInv == ProductInit => ProductInv
<1> SUFFICES ASSUME ProductInit PROVE ProductInv
  OBVIOUS
<1>1. version \in Versionings /\ snapshots \in Shelves
  BY NoneIsTyped DEF ProductInit
<1>2. DOMAIN version = {} /\ DOMAIN snapshots = {} /\ published = {}
  BY DEF ProductInit
<1>4. publisher \in [Publishers -> Publications] /\ \A p \in Publishers : publisher[p] = Unoccupied
  BY NoneIsTyped DEF ProductInit
<1>5. \A p \in Publishers : publisher[p].pc = "idle" /\ publisher[p].knew = {}
  BY <1>4 DEF Unoccupied
<1>6. shelf \in Accounts /\ shelf.clock = 0 /\ shelf.kept = {}
  BY DEF ProductInit, Accounts
<1>7. Current = {} /\ Recorded = {} /\ IsFiniteSet({}) /\ Cardinality({}) = 0
  BY <1>2, <1>5, FS_EmptySet DEF Current, Recorded, Pending
<1>8. PublisherFollows
  BY <1>5 DEF PublisherFollows
<1>9. PublishedLast
  BY <1>2, <1>5, <1>6, <1>7 DEF PublishedLast
<1> QED
  BY <1>1, <1>2, <1>4, <1>6, <1>7, <1>8, <1>9 DEF ProductInv

(* Steps that publish nothing, whatever they do to other statuses.         *)
LEMMA QuietVersions ==
  ASSUME ProductInv, version' \in Versionings, Current' = Current,
         DOMAIN version \subseteq DOMAIN version',
         UNCHANGED <<snapshots, publisher, published>>, shelf' \in Accounts,
         shelf'.clock = shelf.clock, shelf'.kept = shelf.kept,
         shelf'.overlapped = shelf.overlapped, shelf'.cut = shelf.cut
  PROVE  ProductInv'
<1>1. Recorded' = Recorded
  BY DEF Recorded, Pending
<1>2. PublisherFollows'
  BY DEF ProductInv, PublisherFollows
<1>3. PublishedLast => PublishedLast'
  BY <1>1 DEF PublishedLast
<1> QED
  BY <1>2, <1>3 DEF ProductInv

LEMMA ProductStepInv == ProductInv /\ (ProductNext \/ UNCHANGED productVars) => ProductInv'
<1> SUFFICES ASSUME ProductInv, ProductNext \/ UNCHANGED productVars
    PROVE  ProductInv'
  OBVIOUS
<1> USE ProductAssumption
<1>t. /\ version \in Versionings /\ snapshots \in Shelves
      /\ publisher \in [Publishers -> Publications] /\ shelf \in Accounts
      /\ IsFiniteSet(published) /\ shelf.clock = Cardinality(published) /\ shelf.clock \in Nat
      /\ PublisherFollows /\ (shelf.overlapped \/ PublishedLast)
      /\ Current \subseteq published /\ published \subseteq Numbers
  BY DEF ProductInv, Accounts
<1>v. DOMAIN version \subseteq Numbers /\ version \in [DOMAIN version -> VersionStatuses]
  BY <1>t DEF Versionings
<1>s. DOMAIN snapshots \subseteq Numbers /\ snapshots \in [DOMAIN snapshots -> Nat]
  BY <1>t DEF Shelves
<1>1. CASE CreateDraft
  <2>1. /\ version' \in [DOMAIN version \cup {NextVersionNumber} -> VersionStatuses]
        /\ DOMAIN version' = DOMAIN version \cup {NextVersionNumber}
        /\ NextVersionNumber \in Numbers
    BY <1>1, <1>v DEF CreateDraft, VersionStatuses
  <2>2. version' \in Versionings
    BY <1>v, <2>1 DEF Versionings
  <2>3. Current' = Current
    BY <1>1, <1>v, <2>1 DEF CreateDraft, Current
  <2> QED
    BY <1>1, <1>t, <2>1, <2>2, <2>3, QuietVersions DEF CreateDraft
<1>2. ASSUME NEW n \in DOMAIN version, NEW status \in VersionStatuses, MoveVersion(n, status)
      PROVE  ProductInv'
  <2>1. version' = [version EXCEPT ![n] = status] /\ version[n] # "published" /\ status # "published"
    BY <1>2 DEF MoveVersion, CanTransitionVersion, VersionMoves
  <2>2. version' \in [DOMAIN version -> VersionStatuses] /\ DOMAIN version' = DOMAIN version
    BY <1>v, <2>1
  <2>3. version' \in Versionings
    BY <1>v, <2>2 DEF Versionings
  <2>4. Current' = Current
    BY <1>v, <2>1, <2>2 DEF Current
  <2>5. shelf' \in Accounts /\ shelf'.clock = shelf.clock /\ shelf'.kept = shelf.kept
        /\ shelf'.overlapped = shelf.overlapped /\ shelf'.cut = shelf.cut
    BY <1>2, <1>t DEF MoveVersion, Accounts
  <2> QED
    BY <1>2, <2>2, <2>3, <2>4, <2>5, QuietVersions DEF MoveVersion
<1>3. ASSUME NEW p \in Publishers, NEW n \in DOMAIN version, NEW role,
             NEW previous \in IF Current = {} THEN {None} ELSE Current,
             PublishVersion(p, n, previous, role)
      PROVE  ProductInv'
  <2> DEFINE work == TakenUp(n, previous, shelf.clock + 1, Current)
  <2>1. /\ publisher[p] = Unoccupied /\ n \notin published /\ published' = published \cup {n}
        /\ publisher' = [publisher EXCEPT ![p] = work]
        /\ shelf' = [shelf EXCEPT !.clock = @ + 1]
        /\ version' = version /\ snapshots' = snapshots
    BY <1>3 DEF PublishVersion, TakenUp
  <2>2. Current \subseteq Numbers /\ previous \in Numbers \cup {None} /\ n \in Numbers
    BY <1>t, <1>v, <1>3
  <2>3. /\ work \in Publications /\ work.pc = "keep" /\ work.n = n /\ work.at = shelf.clock + 1
        /\ work.knew = Current /\ work.previous = previous
    <3>1. shelf.clock + 1 \in Nat
      BY <1>t
    <3> QED
      BY <2>2, <3>1, TakesUp
  <2> HIDE DEF work
  <2>4. publisher'[p] = work /\ \A q \in Publishers : q # p => publisher'[q] = publisher[q]
    BY <1>t, <2>1
  <2>5. publisher' \in [Publishers -> Publications]
    BY <1>t, <2>1, <2>3
  <2>6. publisher[p].pc = "idle"
    BY <2>1 DEF Unoccupied
  <2>7. Recorded' = Recorded
    <3>1. Pending' = Pending /\ p \notin Pending
      BY <2>3, <2>4, <2>6 DEF Pending
    <3>2. \A q \in Pending : publisher'[q] = publisher[q]
      BY <2>4, <3>1 DEF Pending
    <3> QED
      BY <2>1, <3>1, <3>2 DEF Recorded
  <2>8. shelf' \in Accounts /\ shelf'.clock = shelf.clock + 1 /\ shelf'.kept = shelf.kept
        /\ shelf'.overlapped = shelf.overlapped /\ shelf'.cut = shelf.cut
    BY <1>t, <2>1 DEF Accounts
  <2>9. IsFiniteSet(published') /\ Cardinality(published') = shelf.clock + 1
    BY <1>t, <2>1, FS_AddElement
  <2>10. Current' = Current
    BY <2>1 DEF Current
  <2>11. PublisherFollows'
    <3>1. \A q \in Publishers : publisher'[q].pc # "idle" =>
            /\ publisher'[q].n \in published' /\ publisher'[q].n \in DOMAIN version'
            /\ publisher'[q].at <= shelf'.clock
      <4> SUFFICES ASSUME NEW q \in Publishers, publisher'[q].pc # "idle"
          PROVE  /\ publisher'[q].n \in published' /\ publisher'[q].n \in DOMAIN version'
                 /\ publisher'[q].at <= shelf'.clock
        OBVIOUS
      <4>1. CASE q = p
        BY <4>1, <1>t, <2>1, <2>3, <2>4, <2>8
      <4>2. CASE q # p
        <5>1. publisher'[q] = publisher[q] /\ publisher[q].at \in Nat /\ publisher[q].at <= shelf.clock
          BY <4>2, <1>t, <2>4 DEF PublisherFollows, Publications
        <5> QED
          BY <5>1, <1>t, <2>1, <2>8 DEF PublisherFollows
      <4> QED
        BY <4>1, <4>2
    <3>2. \A r \in Publishers : publisher'[r].knew \subseteq published
      BY <1>t, <2>3, <2>4 DEF PublisherFollows
    <3>3. \A q \in Publishers : publisher'[q].pc = "keep" =>
            /\ publisher'[q].n \notin Current' /\ publisher'[q].n # publisher'[q].previous
            /\ \A r \in Publishers : publisher'[q].n \notin publisher'[r].knew
      <4> SUFFICES ASSUME NEW q \in Publishers, publisher'[q].pc = "keep"
          PROVE  /\ publisher'[q].n \notin Current /\ publisher'[q].n # publisher'[q].previous
                 /\ \A r \in Publishers : publisher'[q].n \notin publisher'[r].knew
        BY <2>10
      <4>0. n # previous
        BY <1>t, <1>v, <1>3, <2>1 DEF None, Numbers
      <4>1. CASE q = p
        BY <4>0, <4>1, <1>t, <2>1, <2>3, <2>4, <3>2
      <4>2. CASE q # p
        BY <4>2, <1>t, <2>3, <2>4 DEF PublisherFollows
      <4> QED
        BY <4>1, <4>2
    <3>4. \A q, r \in Publishers :
            q # r /\ publisher'[q].pc # "idle" /\ publisher'[r].pc # "idle" => publisher'[q].n # publisher'[r].n
      BY <1>t, <2>1, <2>3, <2>4 DEF PublisherFollows
    <3>5. \A q \in Publishers : publisher'[q].knew \subseteq published'
      BY <2>1, <3>2
    <3> QED
      BY <3>1, <3>3, <3>4, <3>5 DEF PublisherFollows
  <2>12. PublishedLast => PublishedLast'
    <3> SUFFICES ASSUME PublishedLast PROVE PublishedLast'
      OBVIOUS
    <3>1. \A i, j \in Current' : i = j
      BY <2>10 DEF PublishedLast
    <3>2. \A q \in Publishers : publisher'[q].pc = "keep" =>
            publisher'[q].previous \in publisher'[q].knew \/ publisher'[q].knew = {}
      BY <1>3, <2>3, <2>4 DEF PublishedLast
    <3>3. \A q \in Publishers : publisher'[q].pc # "idle" => publisher'[q].n \notin DOMAIN snapshots'
      BY <2>1, <2>3, <2>4 DEF PublishedLast
    <3>4. \A e \in Recorded : e[2] \in Nat /\ e[2] <= shelf.clock
      BY <1>t, <1>s DEF PublishedLast, Recorded, Pending, Publications
    <3>5. \A q \in Publishers : publisher'[q].pc = "keep" /\ publisher'[q].knew = Current' =>
            \A e \in Recorded' : e[2] < publisher'[q].at
      BY <1>t, <2>3, <2>4, <2>7, <2>10, <3>4 DEF PublishedLast
    <3>6. \A e \in Recorded' : e[2] <= shelf'.clock
      BY <1>t, <2>7, <2>8, <3>4
    <3> QED
      BY <2>1, <2>7, <2>8, <2>10, <3>1, <3>2, <3>3, <3>5, <3>6 DEF PublishedLast
  <2> QED
    BY <1>t, <2>1, <2>2, <2>5, <2>8, <2>9, <2>10, <2>11, <2>12 DEF ProductInv
<1>4. ASSUME NEW p \in Publishers, KeepVersions(p) PROVE ProductInv'
  <2> DEFINE n == publisher[p].n
             late == version[n] # "in_review" \/ Current # publisher[p].knew
  <2>1. /\ publisher[p].pc = "keep"
        /\ version' = PublishedOver(n, publisher[p].previous)
        /\ publisher' = [publisher EXCEPT ![p].pc = "read"]
        /\ shelf' = [shelf EXCEPT !.overlapped = @ \/ late]
        /\ snapshots' = snapshots /\ published' = published
    BY <1>4 DEF KeepVersions
  <2>2. publisher[p] \in Publications /\ n \in DOMAIN version /\ n \in published /\ n \notin Current
        /\ publisher[p].at <= shelf.clock /\ n # publisher[p].previous
    BY <1>t, <2>1 DEF PublisherFollows
  <2>3. /\ version' \in [DOMAIN version -> VersionStatuses] /\ DOMAIN version' = DOMAIN version
        /\ version'[n] = "published"
        /\ \A i \in DOMAIN version : version'[i] = "published" => i = n \/ version[i] = "published"
        /\ version' \in Versionings
    <3>1. /\ version' \in [DOMAIN version -> VersionStatuses] /\ DOMAIN version' = DOMAIN version
          /\ version'[n] = "published"
          /\ \A i \in DOMAIN version : version'[i] = "published" => i = n \/ version[i] = "published"
      <4> DEFINE m == publisher[p].previous
      <4>1. version' = [i \in DOMAIN version |->
               CASE i = n -> "published" [] i = m -> "superseded" [] OTHER -> version[i]]
        BY <2>1 DEF PublishedOver
      <4> HIDE DEF n, m
      <4>2. DOMAIN version' = DOMAIN version
            /\ \A i \in DOMAIN version : version'[i] =
                 CASE i = n -> "published" [] i = m -> "superseded" [] OTHER -> version[i]
        BY <4>1
      <4>3. \A i \in DOMAIN version : version'[i] \in VersionStatuses
        BY <1>v, <4>2 DEF VersionStatuses
      <4>4. version' \in [DOMAIN version -> VersionStatuses]
        BY <4>1, <4>2, <4>3
      <4>5. version'[n] = "published"
        BY <2>2, <4>2 DEF m
      <4>6. ASSUME NEW i \in DOMAIN version, i # n, version[i] # "published"
            PROVE  version'[i] # "published"
        <5>1. version'[i] = IF i = m THEN "superseded" ELSE version[i]
          BY <4>2, <4>6
        <5> QED
          BY <4>6, <5>1
      <4> QED
        BY <4>2, <4>4, <4>5, <4>6
    <3> QED
      BY <1>v, <3>1 DEF Versionings
  <2>4. n \in Current' /\ Current' \subseteq Current \cup {n}
    BY <2>2, <2>3 DEF Current
  <2>5. /\ publisher' \in [Publishers -> Publications]
        /\ publisher'[p].pc = "read" /\ publisher'[p].n = n /\ publisher'[p].at = publisher[p].at
        /\ publisher'[p].knew = publisher[p].knew
        /\ \A q \in Publishers : q # p => publisher'[q] = publisher[q]
    BY <1>t, <2>1, <2>2 DEF Publications
  <2>6. Recorded' = Recorded \cup {<<n, publisher[p].at>>}
    <3>1. Pending' = Pending \cup {p} /\ p \notin Pending
      BY <2>1, <2>5 DEF Pending
    <3>2. \A q \in Pending : publisher'[q] = publisher[q]
      BY <2>5, <3>1 DEF Pending
    <3> QED
      BY <2>1, <2>5, <3>1, <3>2 DEF Recorded
  <2>7. shelf' \in Accounts /\ shelf'.clock = shelf.clock /\ shelf'.kept = shelf.kept
        /\ shelf'.overlapped = (shelf.overlapped \/ late) /\ shelf'.cut = shelf.cut
    BY <1>t, <2>1 DEF Accounts
  <2>8. PublisherFollows'
    <3>1. \A q \in Publishers : publisher'[q].pc # "idle" => publisher[q].pc # "idle"
      BY <2>1, <2>5
    <3>2. \A q \in Publishers : publisher'[q].n = publisher[q].n /\ publisher'[q].at = publisher[q].at
                                 /\ publisher'[q].knew = publisher[q].knew
      BY <2>5
    <3>3. \A q \in Publishers : publisher'[q].pc = "keep" =>
            publisher[q].pc = "keep" /\ publisher[q].n # n
      BY <1>t, <2>1, <2>5 DEF PublisherFollows
    <3> QED
      BY <1>t, <2>1, <2>3, <2>4, <2>7, <3>1, <3>2, <3>3 DEF PublisherFollows
  <2>9. shelf'.overlapped \/ PublishedLast'
    <3> SUFFICES ASSUME ~shelf.overlapped, ~late PROVE PublishedLast'
      BY <2>7
    <3>1. PublishedLast /\ Current = publisher[p].knew /\ version[n] = "in_review"
      BY <1>t
    <3>2. Current' = {n}
      <4>1. ASSUME NEW i \in Current, i # n PROVE i \notin Current'
        <5>1. publisher[p].previous \in Current
          BY <2>1, <3>1, <4>1 DEF PublishedLast
        <5>2. i = publisher[p].previous /\ i \in DOMAIN version
          BY <3>1, <4>1, <5>1 DEF PublishedLast, Current
        <5>3. version'[i] = "superseded"
          BY <2>1, <4>1, <5>2 DEF PublishedOver
        <5> QED
          BY <5>3 DEF Current
      <4> QED
        BY <2>4, <4>1
    <3>3. \A e \in Recorded : e[2] < publisher[p].at
      BY <2>1, <3>1 DEF PublishedLast
    <3>4. \A e \in Recorded' : e[2] <= shelf'.clock
      BY <2>2, <2>6, <2>7, <3>1 DEF PublishedLast
    <3>5. \A q \in Publishers : publisher'[q].pc = "keep" =>
            /\ publisher'[q].previous \in publisher'[q].knew \/ publisher'[q].knew = {}
            /\ n \notin publisher'[q].knew
      BY <1>t, <2>1, <2>5, <3>1 DEF PublisherFollows, PublishedLast
    <3>6. \A e \in Recorded' : e[1] \in Current' \/ \E d \in Recorded' : d[1] \in Current' /\ e[2] < d[2]
      <4> DEFINE d == <<n, publisher[p].at>>
      <4>1. d \in Recorded' /\ d[1] = n /\ d[2] = publisher[p].at
        BY <2>6
      <4>2. \A e \in Recorded' : e = d \/ e[2] < d[2]
        BY <2>6, <3>3, <4>1
      <4> HIDE DEF d, n
      <4> QED
        BY <3>2, <4>1, <4>2
    <3>7. \A q \in Publishers : publisher'[q].pc # "idle" => publisher'[q].n \notin DOMAIN snapshots'
      BY <2>1, <2>5, <3>1 DEF PublishedLast
    <3> QED
      BY <2>1, <2>7, <3>1, <3>2, <3>4, <3>5, <3>6, <3>7 DEF PublishedLast
  <2>10. Current' \subseteq published'
    BY <1>t, <2>1, <2>2, <2>4
  <2> QED
    BY <1>t, <2>1, <2>3, <2>5, <2>7, <2>8, <2>9, <2>10 DEF ProductInv
<1>5. ASSUME NEW p \in Publishers, ReadSnapshots(p) PROVE ProductInv'
  <2>1. /\ publisher[p].pc = "read"
        /\ publisher' = [publisher EXCEPT ![p].pc = "write", ![p].read = snapshots]
        /\ version' = version /\ snapshots' = snapshots /\ published' = published /\ shelf' = shelf
    BY <1>5 DEF ReadSnapshots
  <2>2. /\ publisher' \in [Publishers -> Publications]
        /\ publisher'[p].pc = "write" /\ publisher'[p].n = publisher[p].n /\ publisher'[p].at = publisher[p].at
        /\ publisher'[p].knew = publisher[p].knew
        /\ \A q \in Publishers : q # p => publisher'[q] = publisher[q]
    BY ZenonT(60), <1>t, <2>1 DEF Publications
  <2>3. Current' = Current
    BY <2>1 DEF Current
  <2>4. Recorded' = Recorded
    <3>1. Pending' = Pending
      BY <2>1, <2>2 DEF Pending
    <3>2. \A q \in Pending : publisher'[q].n = publisher[q].n /\ publisher'[q].at = publisher[q].at
      BY <2>2 DEF Pending
    <3> QED
      BY <2>1, <3>1, <3>2 DEF Recorded
  <2>5. \A q \in Publishers :
          /\ publisher'[q].n = publisher[q].n /\ publisher'[q].at = publisher[q].at
          /\ publisher'[q].knew = publisher[q].knew
          /\ publisher'[q].pc # "idle" => publisher[q].pc # "idle"
          /\ publisher'[q].pc = "keep" => publisher'[q] = publisher[q]
    BY <2>1, <2>2
  <2>6. PublisherFollows'
    BY <1>t, <2>1, <2>3, <2>5 DEF PublisherFollows
  <2>7. PublishedLast => PublishedLast'
    BY <2>1, <2>3, <2>4, <2>5 DEF PublishedLast
  <2> QED
    BY <1>t, <2>1, <2>2, <2>3, <2>6, <2>7 DEF ProductInv
<1>6. ASSUME NEW p \in Publishers, WriteSnapshots(p) PROVE ProductInv'
  <2> DEFINE n == publisher[p].n
             late == publisher[p].read # snapshots
  <2>1. /\ publisher[p].pc = "write"
        /\ snapshots' = WithSnapshot(publisher[p].read, n, publisher[p].at)
        /\ publisher' = [publisher EXCEPT ![p] = Unoccupied]
        /\ shelf' = [shelf EXCEPT !.kept = @ \cup {n}, !.overlapped = @ \/ late]
        /\ version' = version /\ published' = published
    BY <1>6 DEF WriteSnapshots
  <2>2. publisher[p] \in Publications /\ n \in published /\ n \in Numbers /\ publisher[p].at \in Nat
        /\ publisher[p].read \in Shelves
    BY <1>t, <2>1 DEF PublisherFollows, Publications
  <2>3. snapshots' \in Shelves
    <3>1. PICK S \in SUBSET Numbers : publisher[p].read \in [S -> Nat]
      BY <2>2 DEF Shelves
    <3>2. snapshots' \in [S \cup {n} -> Nat]
      BY <2>1, <2>2, <3>1 DEF WithSnapshot
    <3> QED
      BY <2>2, <3>2 DEF Shelves
  <2>4. /\ publisher' \in [Publishers -> Publications]
        /\ publisher'[p].pc = "idle" /\ publisher'[p].knew = {}
        /\ \A q \in Publishers : q # p => publisher'[q] = publisher[q]
    BY <1>t, <2>1, NoneIsTyped DEF Unoccupied
  <2>5. shelf' \in Accounts /\ shelf'.clock = shelf.clock /\ shelf'.kept = shelf.kept \cup {n}
        /\ shelf'.overlapped = (shelf.overlapped \/ late) /\ shelf'.cut = shelf.cut
    BY <1>t, <2>1, <2>2 DEF Accounts
  <2>6. Current' = Current
    BY <2>1 DEF Current
  <2>7. PublisherFollows'
    BY <1>t, <2>1, <2>4, <2>5, <2>6 DEF PublisherFollows
  <2>8. shelf'.overlapped \/ PublishedLast'
    <3> SUFFICES ASSUME ~shelf.overlapped, ~late PROVE PublishedLast'
      BY <2>5
    <3>1. PublishedLast /\ n \notin DOMAIN snapshots
      BY <1>t, <2>1 DEF PublishedLast
    <3>2. /\ DOMAIN snapshots' = DOMAIN snapshots \cup {n}
          /\ snapshots'[n] = publisher[p].at
          /\ \A i \in DOMAIN snapshots : snapshots'[i] = snapshots[i]
      BY <2>1, <3>1 DEF WithSnapshot
    <3>3. Recorded' = Recorded
      <4>1. Pending = Pending' \cup {p} /\ p \notin Pending'
        BY <2>1, <2>4 DEF Pending
      <4>2. \A q \in Pending' : publisher'[q] = publisher[q]
        BY <2>4, <4>1 DEF Pending
      <4> QED
        BY <3>2, <4>1, <4>2 DEF Recorded
    <3>4. \A q \in Publishers : publisher'[q].pc # "idle" =>
            publisher'[q] = publisher[q] /\ publisher[q].n # n
      BY <1>t, <2>1, <2>4 DEF PublisherFollows
    <3>5. \A q \in Publishers : publisher'[q].pc # "idle" => publisher'[q].n \notin DOMAIN snapshots'
      BY <3>1, <3>2, <3>4 DEF PublishedLast
    <3> QED
      BY <2>1, <2>2, <2>5, <2>6, <3>1, <3>2, <3>3, <3>4, <3>5 DEF PublishedLast
  <2> QED
    BY <1>t, <2>1, <2>3, <2>4, <2>5, <2>6, <2>7, <2>8 DEF ProductInv
<1>7. ASSUME NEW p \in Publishers, PublisherStops(p) PROVE ProductInv'
  <2>1. /\ publisher[p].pc # "idle"
        /\ publisher' = [publisher EXCEPT ![p] = Unoccupied]
        /\ shelf' = [shelf EXCEPT !.cut = TRUE]
        /\ version' = version /\ snapshots' = snapshots /\ published' = published
    BY <1>7 DEF PublisherStops
  <2>2. /\ publisher' \in [Publishers -> Publications]
        /\ publisher'[p].pc = "idle" /\ publisher'[p].knew = {}
        /\ \A q \in Publishers : q # p => publisher'[q] = publisher[q]
    BY <1>t, <2>1, NoneIsTyped DEF Unoccupied
  <2>3. shelf' \in Accounts /\ shelf'.clock = shelf.clock /\ shelf'.kept = shelf.kept
        /\ shelf'.overlapped = shelf.overlapped /\ shelf'.cut = TRUE
    BY <1>t, <2>1 DEF Accounts
  <2>4. Current' = Current
    BY <2>1 DEF Current
  <2>5. PublisherFollows'
    BY <1>t, <2>1, <2>2, <2>3, <2>4 DEF PublisherFollows
  <2>6. Recorded' \subseteq Recorded
    <3>1. Pending' \subseteq Pending /\ \A q \in Pending' : publisher'[q] = publisher[q]
      BY <2>2 DEF Pending
    <3> QED
      BY <2>1, <3>1 DEF Recorded
  <2>7. PublishedLast => PublishedLast'
    BY <2>1, <2>2, <2>3, <2>4, <2>6 DEF PublishedLast
  <2> QED
    BY <1>t, <2>1, <2>2, <2>3, <2>4, <2>5, <2>7 DEF ProductInv
<1>8. CASE UNCHANGED productVars
  BY <1>8, <1>t, QuietVersions DEF productVars, Current
<1> QED
  BY <1>1, <1>2, <1>3, <1>4, <1>5, <1>6, <1>7, <1>8 DEF ProductNext

LEMMA ProductsHold ==
  ASSUME ProductInv
  PROVE  ProductTypeOK /\ OnePublishedVersion /\ FreshSnapshotIsCurrent /\ PublishedIsJournaled
<1> USE ProductAssumption
<1>t. /\ version \in Versionings /\ snapshots \in Shelves
      /\ publisher \in [Publishers -> Publications] /\ shelf \in Accounts
      /\ IsFiniteSet(published) /\ shelf.clock = Cardinality(published)
      /\ shelf.overlapped \/ PublishedLast
      /\ Current \subseteq published /\ published \subseteq Numbers
  BY DEF ProductInv
<1>1. shelf.clock \in 0..2 * MaxVersion
  <2>1. IsFiniteSet(Numbers) /\ Cardinality(Numbers) = MaxVersion
    BY FS_Interval DEF Numbers
  <2>2. Cardinality(published) <= MaxVersion /\ Cardinality(published) \in Nat
    BY <1>t, <2>1, FS_Subset, FS_CardinalityType
  <2> QED
    BY <1>t, <2>2
<1>2. ProductTypeOK
  <2>1. DOMAIN version \subseteq Numbers /\ \A n \in DOMAIN version : version[n] \in VersionStatuses
    BY <1>t DEF Versionings
  <2>2. DOMAIN snapshots \subseteq Numbers
    BY <1>t DEF Shelves
  <2> QED
    BY <1>t, <1>1, <2>1, <2>2 DEF ProductTypeOK, Publications
<1>3. OnePublishedVersion
  <2> SUFFICES ASSUME \A i, j \in Current : i = j PROVE Cardinality(Current) <= 1
    BY <1>t DEF OnePublishedVersion, PublishedLast
  <2>1. CASE Current = {}
    BY <2>1, FS_EmptySet
  <2>2. CASE Current # {}
    <3>1. PICK i \in Current : Current = {i}
      BY <2>2
    <3>2. Cardinality(Current) = 1
      BY <3>1, FS_Singleton
    <3> QED
      BY <3>2
  <2> QED
    BY <2>1, <2>2
<1>4. FreshSnapshotIsCurrent
  <2> SUFFICES ASSUME ~shelf.overlapped, ~shelf.cut, \A p \in Publishers : publisher[p] = Unoccupied
      PROVE  /\ \A n \in DOMAIN snapshots : ~Stale(n) => version[n] = "published"
             /\ shelf.kept \subseteq DOMAIN snapshots
    BY DEF FreshSnapshotIsCurrent
  <2>1. Pending = {}
    BY DEF Pending, Unoccupied
  <2>2. \A e : e \in Recorded <=> \E n \in DOMAIN snapshots : e = <<n, snapshots[n]>>
    BY <2>1 DEF Recorded
  <2>3. ASSUME NEW n \in DOMAIN snapshots, ~Stale(n) PROVE version[n] = "published"
    <3>1. CASE n \in Current
      BY <3>1 DEF Current
    <3>2. CASE n \notin Current
      <4> DEFINE e == <<n, snapshots[n]>>
      <4>0. e \in Recorded /\ e[1] = n /\ e[2] = snapshots[n]
        BY <2>2
      <4>1. PICK d \in Recorded : snapshots[n] < d[2]
        BY <1>t, <3>2, <4>0 DEF PublishedLast
      <4>2. PICK m \in DOMAIN snapshots : d = <<m, snapshots[m]>>
        BY <2>2
      <4>3. snapshots[n] \in Nat /\ snapshots[m] \in Nat /\ snapshots[n] < snapshots[m]
        BY <1>t, <4>1, <4>2 DEF Shelves
      <4> QED
        BY <2>3, <4>3 DEF Stale
    <3> QED
      BY <3>1, <3>2
  <2> QED
    BY <1>t, <2>3 DEF PublishedLast
<1> QED
  BY <1>t, <1>2, <1>3, <1>4 DEF PublishedIsJournaled

(***************************************************************************)
(* Promotion                                                               *)
(***************************************************************************)
Sheets == [exists : BOOLEAN, epistemic : {"unknown", "vendor_claim", "hypothesis"}, edited : BOOLEAN]
Clerks == [pc : {"idle", "sheet", "index"}, offer : OfferIds \cup {"none"}, sourced : BOOLEAN]
Registers == [calls : 0..MaxPromotions, overwrote : BOOLEAN, cut : BOOLEAN]

(* The offer of a call is not in the index before the call has put it      *)
(* there; before that, the call has put the sheet.                         *)
ClerkFollows ==
  /\ clerk.pc # "idle" => clerk.offer \in OfferIds /\ ~Indexed(clerk.offer)
  /\ clerk.pc = "index" => sheet[clerk.offer].exists

(* Up to a stop, a sheet outside the index is the one in the clerk's hand: *)
(* so the clerk finds none where it is about to write.                     *)
SheetsFollow ==
  /\ IndexedOffersHaveSheets
  /\ \A i, j \in DOMAIN index : index[i] = index[j] => i = j
  /\ ~register.cut =>
       \A o \in OfferIds : sheet[o].exists => Indexed(o) \/ (clerk.pc = "index" /\ clerk.offer = o)
  /\ PromotionOverwritesNothing

PromotionInv ==
  /\ staged \subseteq BOOLEAN
  /\ sheet \in [OfferIds -> Sheets]
  /\ index \in Seq(OfferIds)
  /\ clerk \in Clerks
  /\ register \in Registers
  /\ ClerkFollows
  /\ SheetsFollow

LEMMA PromotionInitInv == PromotionInit => PromotionInv
<1> SUFFICES ASSUME PromotionInit PROVE PromotionInv
  OBVIOUS
<1>1. /\ staged \subseteq BOOLEAN /\ sheet \in [OfferIds -> Sheets] /\ index \in Seq(OfferIds)
      /\ clerk \in Clerks /\ register \in Registers
  BY PromotionAssumption DEF PromotionInit, NoSheet, Sheets, AtRest, Clerks, Registers
<1>2. /\ \A o \in OfferIds : ~sheet[o].exists
      /\ DOMAIN index = {} /\ clerk.pc = "idle" /\ ~register.overwrote
  BY DEF PromotionInit, NoSheet, AtRest
<1>3. ClerkFollows
  BY <1>2 DEF ClerkFollows
<1>4. SheetsFollow
  BY <1>2 DEF SheetsFollow, IndexedOffersHaveSheets, Indexed, PromotionOverwritesNothing
<1> QED
  BY <1>1, <1>3, <1>4 DEF PromotionInv

LEMMA Staging ==
  ASSUME PromotionInv, NEW items \in SUBSET Items, NEW shelfKnown, NEW persist \in BOOLEAN,
         Stage(items, shelfKnown, persist)
  PROVE  PromotionInv'
<1>1. staged' \subseteq BOOLEAN
  BY DEF PromotionInv, Stage, Items
<1>2. UNCHANGED <<sheet, index, clerk, register>>
  BY DEF Stage
<1> QED
  BY <1>1, <1>2 DEF PromotionInv, ClerkFollows, SheetsFollow, IndexedOffersHaveSheets, Indexed,
                    PromotionOverwritesNothing

LEMMA PromotionStepInv == PromotionInv /\ (PromotionNext \/ UNCHANGED promotionVars) => PromotionInv'
<1> SUFFICES ASSUME PromotionInv, PromotionNext \/ UNCHANGED promotionVars
    PROVE  PromotionInv'
  OBVIOUS
<1>t. /\ staged \subseteq BOOLEAN /\ sheet \in [OfferIds -> Sheets] /\ index \in Seq(OfferIds)
      /\ clerk \in Clerks /\ register \in Registers /\ ClerkFollows /\ SheetsFollow
  BY DEF PromotionInv
<1>u. CASE UNCHANGED promotionVars
  BY <1>t, <1>u DEF promotionVars, PromotionInv, ClerkFollows, SheetsFollow,
                    IndexedOffersHaveSheets, Indexed, PromotionOverwritesNothing
<1>1. ASSUME NEW items \in SUBSET Items, NEW shelfKnown \in BOOLEAN, NEW persist \in BOOLEAN,
             Stage(items, shelfKnown, persist)
      PROVE  PromotionInv'
  BY <1>1, Staging
<1>2. ASSUME NEW hits \in {{}, {"hit"}}, NEW shelfKnown \in BOOLEAN, NEW persist \in BOOLEAN,
             DiscoverPublic(hits, shelfKnown, persist)
      PROVE  PromotionInv'
  <2> DEFINE items == {[wellformed |-> TRUE, sourced |-> TRUE] : hit \in hits}
  <2>1. items \in SUBSET Items
    <3>1. [wellformed |-> TRUE, sourced |-> TRUE] \in Items
      BY DEF Items
    <3> QED
      BY <3>1
  <2>2. UNCHANGED promotionVars \/ Stage(items, shelfKnown, persist)
    BY <1>2 DEF DiscoverPublic
  <2> HIDE DEF items
  <2> QED
    BY <1>u, <2>1, <2>2, Staging
<1>3. ASSUME NEW o \in OfferIds, NEW sourced \in BOOLEAN, BeginPromotion(sourced, o)
      PROVE  PromotionInv'
  <2>1. /\ clerk' = [AtRest EXCEPT !.pc = "sheet", !.offer = o, !.sourced = sourced]
        /\ register' = [register EXCEPT !.calls = @ + 1] /\ register.calls < MaxPromotions
        /\ ~Indexed(o) /\ clerk = AtRest
        /\ staged' = staged /\ sheet' = sheet /\ index' = index
    BY <1>3 DEF BeginPromotion, OfferIdFree, Calling, Counted
  <2>2. clerk' \in Clerks /\ clerk'.pc = "sheet" /\ clerk'.offer = o /\ clerk.pc = "idle"
    BY <2>1 DEF AtRest, Clerks
  <2>3. register' \in Registers /\ register'.cut = register.cut /\ register'.overwrote = register.overwrote
    BY <1>t, <2>1, PromotionAssumption DEF Registers
  <2>4. ClerkFollows'
    BY <2>1, <2>2 DEF ClerkFollows, Indexed
  <2>5. SheetsFollow'
    BY <1>t, <2>1, <2>2, <2>3 DEF SheetsFollow, IndexedOffersHaveSheets, Indexed, PromotionOverwritesNothing
  <2> QED
    BY <1>t, <2>1, <2>2, <2>3, <2>4, <2>5 DEF PromotionInv
<1>4. ASSUME NEW o \in OfferIds, NEW fields, UpdateOfferSheet(o, fields)
      PROVE  PromotionInv'
  <2>1. /\ sheet' = [sheet EXCEPT ![o].edited = TRUE]
        /\ register' = [register EXCEPT !.calls = @ + 1] /\ register.calls < MaxPromotions
        /\ staged' = staged /\ index' = index /\ clerk' = clerk
    BY <1>4 DEF UpdateOfferSheet, Calling, Counted
  <2>2. sheet' \in [OfferIds -> Sheets]
    BY <1>t, <2>1 DEF Sheets
  <2>3. \A q \in OfferIds : sheet'[q].exists = sheet[q].exists
    BY <1>t, <2>1 DEF Sheets
  <2>4. register' \in Registers /\ register'.cut = register.cut /\ register'.overwrote = register.overwrote
    BY <1>t, <2>1, PromotionAssumption DEF Registers
  <2>5. ClerkFollows'
    BY <1>t, <2>1, <2>3 DEF ClerkFollows, Indexed
  <2>6. SheetsFollow'
    BY <1>t, <2>1, <2>3, <2>4 DEF SheetsFollow, IndexedOffersHaveSheets, Indexed, PromotionOverwritesNothing
  <2> QED
    BY <1>t, <2>1, <2>2, <2>4, <2>5, <2>6 DEF PromotionInv
<1>5. CASE WriteSheet
  <2> DEFINE o == clerk.offer
             made == [exists |-> TRUE, edited |-> FALSE, epistemic |-> EpistemicStatus(clerk.sourced)]
  <2>1. /\ clerk.pc = "sheet"
        /\ sheet' = [sheet EXCEPT ![o] = made]
        /\ clerk' = [clerk EXCEPT !.pc = "index"]
        /\ register' = [register EXCEPT !.overwrote = @ \/ sheet[o].exists]
        /\ staged' = staged /\ index' = index
    BY <1>5 DEF WriteSheet
  <2>2. o \in OfferIds /\ ~Indexed(o)
    BY <1>t, <2>1 DEF ClerkFollows
  <2>3. made \in Sheets /\ made.exists
    BY DEF Sheets, EpistemicStatus
  <2>4. sheet[o].exists => register.cut
    BY <1>t, <2>1, <2>2 DEF SheetsFollow
  <2>5. sheet[o].exists \in BOOLEAN
    BY <1>t, <2>2 DEF Sheets
  <2> HIDE DEF o, made
  <2>6. /\ sheet' \in [OfferIds -> Sheets] /\ sheet'[o] = made
        /\ \A q \in OfferIds : q # o => sheet'[q] = sheet[q]
    BY <1>t, <2>1, <2>2, <2>3
  <2>7. clerk' \in Clerks /\ clerk'.pc = "index" /\ clerk'.offer = o
    BY <1>t, <2>1 DEF Clerks, o
  <2>8. /\ register' \in Registers /\ register'.cut = register.cut
        /\ register'.overwrote = (register.overwrote \/ sheet[o].exists)
    BY <1>t, <2>1, <2>5 DEF Registers
  <2>9. ClerkFollows'
    BY <2>1, <2>2, <2>3, <2>6, <2>7 DEF ClerkFollows, Indexed
  <2>10. SheetsFollow'
    <3>1. IndexedOffersHaveSheets'
      BY <1>t, <2>1, <2>3, <2>6 DEF SheetsFollow, IndexedOffersHaveSheets, Indexed
    <3>2. PromotionOverwritesNothing'
      BY <1>t, <2>4, <2>8 DEF SheetsFollow, PromotionOverwritesNothing
    <3>3. ~register'.cut => \A q \in OfferIds : sheet'[q].exists =>
            Indexed(q)' \/ (clerk'.pc = "index" /\ clerk'.offer = q)
      BY <1>t, <2>1, <2>6, <2>7, <2>8 DEF SheetsFollow, Indexed
    <3> QED
      BY <1>t, <2>1, <3>1, <3>2, <3>3 DEF SheetsFollow
  <2> QED
    BY <1>t, <2>1, <2>6, <2>7, <2>8, <2>9, <2>10 DEF PromotionInv
<1>6. CASE WriteIndex
  <2>1. /\ clerk.pc = "index" /\ index' = Append(index, clerk.offer) /\ clerk' = AtRest
        /\ staged' = staged /\ sheet' = sheet /\ register' = register
    BY <1>6 DEF WriteIndex
  <2>2. clerk.offer \in OfferIds /\ ~Indexed(clerk.offer) /\ sheet[clerk.offer].exists
    BY <1>t, <2>1 DEF ClerkFollows
  <2>3. clerk' \in Clerks /\ clerk'.pc = "idle"
    BY <2>1 DEF AtRest, Clerks
  <2>4. /\ index' \in Seq(OfferIds) /\ DOMAIN index' = 1..Len(index) + 1 /\ DOMAIN index = 1..Len(index)
        /\ Len(index) \in Nat
        /\ index'[Len(index) + 1] = clerk.offer /\ \A i \in DOMAIN index : index'[i] = index[i]
    BY <1>t, <2>1, <2>2
  <2>5. \A o : Indexed(o)' <=> Indexed(o) \/ o = clerk.offer
    BY <2>4 DEF Indexed
  <2>6. \A i, j \in DOMAIN index' : index'[i] = index'[j] => i = j
    <3>1. \A i \in DOMAIN index' : i \in DOMAIN index \/ i = Len(index) + 1
      BY <2>4
    <3>2. \A i \in DOMAIN index : index'[i] = index[i] /\ index[i] # clerk.offer
      BY <2>2, <2>4 DEF Indexed
    <3> QED
      BY <1>t, <2>4, <3>1, <3>2 DEF SheetsFollow
  <2>7. SheetsFollow'
    BY <1>t, <2>1, <2>2, <2>5, <2>6 DEF SheetsFollow, IndexedOffersHaveSheets, PromotionOverwritesNothing
  <2> QED
    BY <1>t, <2>1, <2>3, <2>4, <2>7 DEF PromotionInv, ClerkFollows
<1>7. CASE ClerkStops
  <2>1. /\ register' = [register EXCEPT !.cut = @ \/ clerk.pc = "index"] /\ clerk' = AtRest
        /\ staged' = staged /\ sheet' = sheet /\ index' = index
    BY <1>7 DEF ClerkStops
  <2>2. clerk' \in Clerks /\ clerk'.pc = "idle"
    BY <2>1 DEF AtRest, Clerks
  <2>3. /\ register' \in Registers /\ register'.overwrote = register.overwrote
        /\ register'.cut = (register.cut \/ clerk.pc = "index")
    BY <1>t, <2>1 DEF Registers
  <2>4. SheetsFollow'
    BY <1>t, <2>1, <2>3 DEF SheetsFollow, IndexedOffersHaveSheets, Indexed, PromotionOverwritesNothing
  <2> QED
    BY <1>t, <2>1, <2>2, <2>3, <2>4 DEF PromotionInv, ClerkFollows
<1> QED
  BY <1>u, <1>1, <1>2, <1>3, <1>4, <1>5, <1>6, <1>7 DEF PromotionNext

LEMMA PromotionsHold ==
  ASSUME PromotionInv
  PROVE  PromotionTypeOK /\ IndexedOffersHaveSheets /\ SheetsAreIndexedOnce /\ PromotionOverwritesNothing
<1>t. /\ staged \subseteq BOOLEAN /\ sheet \in [OfferIds -> Sheets] /\ index \in Seq(OfferIds)
      /\ clerk \in Clerks /\ register \in Registers /\ SheetsFollow
  BY DEF PromotionInv
<1>1. PromotionTypeOK
  <2>1. \A i \in DOMAIN index : index[i] \in OfferIds
    BY <1>t
  <2> QED
    BY <1>t, <2>1 DEF PromotionTypeOK, Sheets, Clerks, Registers
<1>2. SheetsAreIndexedOnce
  <2> SUFFICES ASSUME ~register.cut, clerk = AtRest, NEW o \in OfferIds, sheet[o].exists
      PROVE  Cardinality({i \in DOMAIN index : index[i] = o}) = 1
    BY DEF SheetsAreIndexedOnce
  <2>1. Indexed(o)
    BY <1>t DEF SheetsFollow, AtRest
  <2>2. PICK i \in DOMAIN index : index[i] = o
    BY <2>1 DEF Indexed
  <2>3. {j \in DOMAIN index : index[j] = o} = {i}
    BY <1>t, <2>2 DEF SheetsFollow
  <2> QED
    BY <2>3, FS_Singleton
<1> QED
  BY <1>t, <1>1, <1>2 DEF SheetsFollow

(***************************************************************************)
(* Record migrations                                                       *)
(***************************************************************************)
LEMMA NextItemOf ==
  ASSUME NEW ids \in SUBSET Legacy, ids # {}
  PROVE  NextItem(ids) \in ids
BY LeastOf, MigrationAssumption DEF NextItem

(* The files of a migrator, and those a legacy record goes to.             *)
LEMMA DocsAre ==
  ASSUME target \in DOMAIN Docs
  PROVE  /\ target \in {"products", "demands", "network"}
         /\ target = "products" => Docs[target] = <<"products", "snapshots">>
         /\ target = "demands" => Docs[target] = <<"demands">>
         /\ target = "network" => Docs[target] = <<"people", "relationships">>
         /\ \A n \in DOMAIN Docs[target] :
              /\ n \in {1, 2} /\ Docs[target][n] \in AllDocs
              /\ target = "products" => Docs[target][n] = IF n = 1 THEN "products" ELSE "snapshots"
              /\ target # "products" => Docs[target][n] \notin {"products", "snapshots"}
         /\ 1 \in DOMAIN Docs[target]
         /\ Cardinality(DOMAIN Docs[target]) = IF target = "demands" THEN 1 ELSE 2
         /\ DOMAIN Docs[target] = IF target = "demands" THEN {1} ELSE {1, 2}
<1>1. target \in {"products", "demands", "network"}
  BY DEF Docs
<1>2. /\ target = "products" => Docs[target] = <<"products", "snapshots">>
      /\ target = "demands" => Docs[target] = <<"demands">>
      /\ target = "network" => Docs[target] = <<"people", "relationships">>
  BY DEF Docs
<1>3. DOMAIN Docs[target] = IF target = "demands" THEN {1} ELSE {1, 2}
  BY <1>1, <1>2
<1>4. Cardinality(DOMAIN Docs[target]) = IF target = "demands" THEN 1 ELSE 2
  <2>1. Cardinality({1}) = 1
    BY FS_Singleton
  <2>2. Cardinality({1, 2}) = 2
    <3>1. IsFiniteSet({1})
      BY FS_Singleton
    <3>2. 2 \notin {1} /\ {1, 2} = {1} \cup {2} /\ 1 + 1 = 2
      OBVIOUS
    <3> QED
      BY <2>1, <3>1, <3>2, FS_AddElement
  <2> QED
    BY <1>3, <2>1, <2>2
<1>5. \A n \in DOMAIN Docs[target] :
        /\ n \in {1, 2} /\ Docs[target][n] \in AllDocs
        /\ target = "products" => Docs[target][n] = IF n = 1 THEN "products" ELSE "snapshots"
        /\ target # "products" => Docs[target][n] \notin {"products", "snapshots"}
  BY <1>1, <1>2, <1>3 DEF AllDocs
<1> QED
  BY <1>1, <1>2, <1>3, <1>4, <1>5

LEMMA RecordsAre ==
  ASSUME target \in DOMAIN Docs, NEW id
  PROVE  /\ target = "products" => /\ RecordsOf(id)[1] = "products" /\ RecordsOf(id)[2] = "snapshots"
                                   /\ Cardinality(DOMAIN RecordsOf(id)) = 2
         /\ target # "products" => /\ RecordsOf(id)[1] \in AllDocs \ {"products", "snapshots"}
                                   /\ Cardinality(DOMAIN RecordsOf(id)) = 1
<1>1. target \in {"products", "demands", "network"}
  BY DocsAre
<1>2. Cardinality({1}) = 1 /\ Cardinality({1, 2}) = 2
  <2>1. Cardinality({1}) = 1
    BY FS_Singleton
  <2>2. IsFiniteSet({1})
    BY FS_Singleton
  <2>3. 2 \notin {1} /\ {1, 2} = {1} \cup {2} /\ 1 + 1 = 2
    OBVIOUS
  <2> QED
    BY <2>1, <2>2, <2>3, FS_AddElement
<1>3. CASE target = "products"
  <2>1. RecordsOf(id) = <<"products", "snapshots">>
    BY <1>3 DEF RecordsOf
  <2>2. DOMAIN RecordsOf(id) = {1, 2}
    BY <2>1
  <2> QED
    BY <1>2, <1>3, <2>1, <2>2
<1>4. CASE target = "demands"
  <2>1. RecordsOf(id) = <<"demands">>
    BY <1>4 DEF RecordsOf
  <2>2. DOMAIN RecordsOf(id) = {1}
    BY <2>1
  <2> QED
    BY <1>2, <1>4, <2>1, <2>2 DEF AllDocs
<1>5. CASE target = "network"
  <2>1. RecordsOf(id) = IF id = 1 THEN <<"people">> ELSE <<"relationships">>
    BY <1>5 DEF RecordsOf
  <2>2. DOMAIN RecordsOf(id) = {1}
    BY <2>1
  <2> QED
    BY <1>2, <1>5, <2>1, <2>2 DEF AllDocs
<1> QED
  BY <1>1, <1>3, <1>4, <1>5

Migrators == [pc : {"idle", "apply", "read", "write"}, left : SUBSET Legacy, doc : {1, 2},
              text : 0..MaxEditions, done : Lists, read : {<<>>} \cup Files]
Marks == [runs : 0..MaxRuns, cut : BOOLEAN, saved : SUBSET AllDocs, raced : SUBSET AllDocs]

IsListed(doc, id) == \E manifest \in manifests : <<doc, id>> \in manifest
HalfPut(id) == migrator.pc = "apply" /\ migrator.doc = 2 /\ id = NextItem(migrator.left)
HalfTaken(id) == migrator.pc \in {"read", "write"} /\ migrator.doc = 2 /\ <<"products", id>> \in migrator.done

(* A call of apply holds the item whose second record it is about to put;  *)
(* a rollback goes by a stored manifest.                                   *)
MigratorFollows ==
  /\ migrator.pc = "apply" =>
       /\ migrator.text # 0
       /\ migrator.doc = 2 => target = "products" /\ migrator.left # {}
  /\ migrator.pc \in {"read", "write"} =>
       migrator.done \in manifests /\ migrator.doc \in DOMAIN Docs[target]
  /\ migrator.pc = "write" => migrator.read \in Files

(* Up to a stop, what is put is in a manifest, or on its way to one; what  *)
(* a rollback has read of a file, and writes back, is.                     *)
ListsFollow ==
  ~marks.cut =>
    /\ \A doc \in AllDocs, id \in Legacy :
         records[doc][id] # Absent =>
           IsListed(doc, id) \/ (migrator.pc = "apply" /\ <<doc, id>> \in migrator.done)
    /\ migrator.pc = "write" =>
         \A id \in Legacy : migrator.read[id] # Absent => IsListed(Docs[target][migrator.doc], id)

(* A list names both records of an offer, or neither, but for the item in  *)
(* hand.                                                                   *)
ListsAreWhole ==
  /\ \A manifest \in manifests, id \in Legacy :
       <<"products", id>> \in manifest <=> <<"snapshots", id>> \in manifest
  /\ migrator.pc = "apply" =>
       \A id \in Legacy :
         /\ HalfPut(id) => <<"products", id>> \in migrator.done
         /\ ~HalfPut(id) => (<<"products", id>> \in migrator.done <=> <<"snapshots", id>> \in migrator.done)

(* The offers likewise, up to a stop or a file written back over one not   *)
(* read: one half is there in the middle of a put, one is gone in the      *)
(* middle of a rollback.                                                   *)
OffersFollow ==
  /\ target # "products" =>
       \A id \in Legacy : records["products"][id] = Absent /\ records["snapshots"][id] = Absent
  /\ ~marks.cut /\ marks.raced = {} =>
       \A id \in Legacy :
         /\ HalfPut(id) => records["products"][id] # Absent
         /\ HalfTaken(id) => records["products"][id] = Absent
         /\ ~HalfPut(id) /\ ~HalfTaken(id) =>
              (records["products"][id] = Absent <=> records["snapshots"][id] = Absent)

MigrationInv ==
  /\ target \in DOMAIN Docs
  /\ edition \in 1..MaxEditions
  /\ records \in [AllDocs -> Files]
  /\ migrator \in Migrators
  /\ manifests \subseteq Lists
  /\ marks \in Marks
  /\ MigratorFollows
  /\ ListsFollow
  /\ ListsAreWhole
  /\ OffersFollow
  /\ OwnRecordsStay

LEMMA RestIsTyped ==
  /\ NotRunning \in Migrators /\ NotRunning.pc = "idle" /\ NotRunning.doc = 1
<1>1. {} \in Lists /\ {} \in SUBSET Legacy /\ 0 \in 0..MaxEditions
  BY MigrationAssumption DEF Lists
<1> QED
  BY <1>1 DEF NotRunning, Migrators

LEMMA MigrationInitInv == MigrationInit => MigrationInv
<1> SUFFICES ASSUME MigrationInit PROVE MigrationInv
  OBVIOUS
<1>1. /\ target \in DOMAIN Docs /\ edition = 1 /\ manifests = {} /\ migrator = NotRunning
      /\ records = [d \in AllDocs |-> [id \in Legacy \cup {Own} |-> Absent]]
      /\ ~marks.cut /\ marks.saved = {} /\ marks.raced = {}
  BY DEF MigrationInit
<1>2. edition \in 1..MaxEditions /\ Absent \in Contents /\ marks \in Marks
  BY <1>1, MigrationAssumption DEF MigrationInit, Absent, Contents, Edited, Marks
<1>3. records \in [AllDocs -> Files] /\ \A d \in AllDocs, id \in Legacy : records[d][id] = Absent
  BY <1>1, <1>2 DEF Files
<1>4. migrator \in Migrators /\ migrator.pc = "idle"
  BY <1>1, RestIsTyped
<1>5. MigratorFollows /\ ListsFollow /\ ListsAreWhole /\ OffersFollow /\ OwnRecordsStay
  BY <1>1, <1>3, <1>4 DEF MigratorFollows, ListsFollow, ListsAreWhole, OffersFollow, HalfPut, HalfTaken,
     OwnRecordsStay, AllDocs
<1> QED
  BY <1>1, <1>2, <1>3, <1>4, <1>5 DEF MigrationInv

LEMMA MigrationStepInv == MigrationInv /\ (MigrationNext \/ UNCHANGED migrationVars) => MigrationInv'
<1> SUFFICES ASSUME MigrationInv, MigrationNext \/ UNCHANGED migrationVars
    PROVE  MigrationInv'
  OBVIOUS
<1>t. /\ target \in DOMAIN Docs /\ edition \in 1..MaxEditions /\ records \in [AllDocs -> Files]
      /\ migrator \in Migrators /\ manifests \subseteq Lists /\ marks \in Marks
      /\ MigratorFollows /\ ListsFollow /\ ListsAreWhole /\ OffersFollow /\ OwnRecordsStay
  BY DEF MigrationInv
<1>u. CASE UNCHANGED migrationVars
  BY <1>t, <1>u DEF migrationVars, MigrationInv, MigratorFollows, ListsFollow, IsListed, ListsAreWhole,
                    OffersFollow, HalfPut, HalfTaken, OwnRecordsStay
<1>l. \A items \in SUBSET Legacy : items \in SUBSET Nat
  BY MigrationAssumption
<1>1. ASSUME NEW items \in SUBSET Legacy, Begin(items) PROVE MigrationInv'
  <2>1. /\ migrator.pc = "idle" /\ marks.runs < MaxRuns
        /\ migrator' = [NotRunning EXCEPT !.pc = "apply", !.left = items, !.text = edition]
        /\ marks' = [marks EXCEPT !.runs = @ + 1]
        /\ target' = target /\ edition' = edition /\ records' = records /\ manifests' = manifests
    BY <1>1 DEF Begin, Keep
  <2>2. /\ migrator' \in Migrators /\ migrator'.pc = "apply" /\ migrator'.doc = 1
        /\ migrator'.text = edition /\ migrator'.done = {}
    <3>1. {} \in Lists /\ edition \in 0..MaxEditions
      BY <1>t, MigrationAssumption DEF Lists
    <3> QED
      BY <2>1, <3>1 DEF NotRunning, Migrators
  <2>3. marks' \in Marks /\ marks'.cut = marks.cut /\ marks'.saved = marks.saved /\ marks'.raced = marks.raced
    <3>1. marks.runs + 1 \in 0..MaxRuns
      BY <1>t, <2>1, MigrationAssumption DEF Marks
    <3> QED
      BY <1>t, <2>1, <3>1 DEF Marks
  <2>4. edition # 0
    BY <1>t, MigrationAssumption
  <2>5. MigratorFollows'
    BY <2>2, <2>4 DEF MigratorFollows
  <2>6. ListsFollow'
    BY <1>t, <2>1, <2>2, <2>3 DEF ListsFollow, IsListed
  <2>7. ListsAreWhole'
    BY <1>t, <2>1, <2>2 DEF ListsAreWhole, HalfPut
  <2>8. OffersFollow'
    BY <1>t, <2>1, <2>2, <2>3 DEF OffersFollow, HalfPut, HalfTaken
  <2>9. OwnRecordsStay'
    BY <1>t, <2>1, <2>3 DEF OwnRecordsStay
  <2> QED
    BY <1>t, <2>1, <2>2, <2>3, <2>5, <2>6, <2>7, <2>8, <2>9 DEF MigrationInv
<1>2. CASE Skip
  <2>1. /\ migrator.pc = "apply" /\ migrator.doc = 1
        /\ migrator' = [migrator EXCEPT !.left = @ \ {NextItem(migrator.left)}]
        /\ target' = target /\ edition' = edition /\ records' = records /\ manifests' = manifests
        /\ marks' = marks
    BY <1>2 DEF Skip, Keep
  <2>2. /\ migrator' \in Migrators /\ migrator'.pc = "apply" /\ migrator'.doc = 1
        /\ migrator'.text = migrator.text /\ migrator'.done = migrator.done
    BY <1>t, <2>1 DEF Migrators
  <2>3. MigratorFollows'
    BY <1>t, <2>1, <2>2 DEF MigratorFollows
  <2>4. ListsFollow'
    BY <1>t, <2>1, <2>2 DEF ListsFollow, IsListed
  <2>5. ListsAreWhole'
    BY <1>t, <2>1, <2>2 DEF ListsAreWhole, HalfPut
  <2>6. OffersFollow'
    BY <1>t, <2>1, <2>2 DEF OffersFollow, HalfPut, HalfTaken
  <2> QED
    BY <1>t, <2>1, <2>2, <2>3, <2>4, <2>5, <2>6 DEF MigrationInv, OwnRecordsStay
<1>3. CASE PutRecord
  <2>0. PICK id, doc : id = NextItem(migrator.left) /\ doc = RecordsOf(id)[migrator.doc]
    OBVIOUS
  <2> DEFINE last == migrator.doc = Cardinality(DOMAIN RecordsOf(id))
  <2>1. /\ migrator.pc = "apply" /\ migrator.left # {}
        /\ migrator.doc = 1 => ~AlreadyMigrated(id)
        /\ records' = [records EXCEPT ![doc][id] = migrator.text]
        /\ migrator' = [migrator EXCEPT !.doc = IF last THEN 1 ELSE @ + 1,
                                        !.left = IF last THEN @ \ {id} ELSE @,
                                        !.done = @ \cup {<<doc, id>>}]
        /\ target' = target /\ edition' = edition /\ manifests' = manifests /\ marks' = marks
    BY <1>3, <2>0 DEF PutRecord, Keep
  <2>2. id \in Legacy /\ migrator.left \in SUBSET Legacy /\ migrator.doc \in {1, 2}
    BY <1>t, <2>0, <2>1, NextItemOf DEF Migrators
  <2>3. /\ target = "products" => doc = IF migrator.doc = 1 THEN "products" ELSE "snapshots"
        /\ target # "products" => doc \in AllDocs \ {"products", "snapshots"} /\ migrator.doc = 1
        /\ last <=> target # "products" \/ migrator.doc = 2
        /\ doc \in AllDocs
    BY <1>t, <2>0, <2>1, <2>2, RecordsAre DEF MigratorFollows, AllDocs
  <2> HIDE DEF last
  <2>4. /\ migrator' \in Migrators /\ migrator'.pc = "apply" /\ migrator'.text = migrator.text
        /\ migrator'.doc = (IF last THEN 1 ELSE 2)
        /\ migrator'.left = (IF last THEN migrator.left \ {id} ELSE migrator.left)
        /\ migrator'.done = migrator.done \cup {<<doc, id>>}
    <3>1. migrator.done \cup {<<doc, id>>} \in Lists
      BY <1>t, <2>2, <2>3 DEF Migrators, Lists
    <3>2. PICK next \in {1, 2}, left \in SUBSET Legacy :
            /\ next = (IF last THEN 1 ELSE 2) /\ next = (IF last THEN 1 ELSE migrator.doc + 1)
            /\ left = IF last THEN migrator.left \ {id} ELSE migrator.left
      <4>1. CASE last
        BY <2>2, <4>1
      <4>2. CASE ~last
        <5>1. migrator.doc + 1 = 2
          BY <2>2, <2>3, <4>2
        <5> QED
          BY <2>2, <4>2, <5>1
      <4> QED
        BY <4>1, <4>2
    <3>3. migrator' = [migrator EXCEPT !.doc = next, !.left = left,
                                       !.done = migrator.done \cup {<<doc, id>>}]
      BY <2>1, <3>2
    <3>4. /\ migrator' \in Migrators /\ migrator'.pc = migrator.pc /\ migrator'.text = migrator.text
          /\ migrator'.doc = next /\ migrator'.left = left
          /\ migrator'.done = migrator.done \cup {<<doc, id>>}
      BY <1>t, <3>1, <3>3 DEF Migrators
    <3> QED
      BY <2>1, <3>2, <3>4
  <2>5. /\ records' \in [AllDocs -> Files] /\ migrator.text # Absent
        /\ \A d \in AllDocs, i \in Legacy \cup {Own} :
             records'[d][i] = IF d = doc /\ i = id THEN migrator.text ELSE records[d][i]
    <3>1. migrator.text \in Contents /\ migrator.text # Absent
      BY <1>t, <2>1, MigrationAssumption DEF Migrators, Contents, Edited, Absent, MigratorFollows
    <3> QED
      BY <1>t, <2>1, <2>2, <2>3, <3>1 DEF Files
  <2>6. MigratorFollows'
    BY <1>t, <2>1, <2>3, <2>4 DEF MigratorFollows
  <2>7. ListsFollow'
    <3> SUFFICES ASSUME ~marks.cut, NEW d \in AllDocs, NEW i \in Legacy, records'[d][i] # Absent,
                        ~IsListed(d, i)
        PROVE  <<d, i>> \in migrator'.done
      BY <2>1, <2>4 DEF ListsFollow, IsListed
    <3>1. CASE d = doc /\ i = id
      BY <2>4, <3>1
    <3>2. CASE ~(d = doc /\ i = id)
      <4>1. records[d][i] # Absent
        BY <2>5, <3>2
      <4> QED
        BY <1>t, <2>4, <4>1 DEF ListsFollow
    <3> QED
      BY <3>1, <3>2
  <2>8. \A i : HalfPut(i) <=> migrator.doc = 2 /\ i = id
    BY <2>0, <2>1 DEF HalfPut
  <2>9. \A i : HalfPut(i)' <=> ~last /\ i = id
    BY <2>0, <2>4 DEF HalfPut
  <2>10. ListsAreWhole'
    <3> SUFFICES ASSUME NEW i \in Legacy
        PROVE  /\ ~last /\ i = id => <<"products", i>> \in migrator'.done
               /\ ~(~last /\ i = id) => (<<"products", i>> \in migrator'.done <=> <<"snapshots", i>> \in migrator'.done)
      BY <1>t, <2>1, <2>9 DEF ListsAreWhole
    <3>1. CASE i # id
      <4>1. <<"products", i>> \in migrator'.done <=> <<"products", i>> \in migrator.done
        BY <2>4, <3>1
      <4>2. <<"snapshots", i>> \in migrator'.done <=> <<"snapshots", i>> \in migrator.done
        BY <2>4, <3>1
      <4> QED
        BY <1>t, <2>1, <2>8, <3>1, <4>1, <4>2 DEF ListsAreWhole
    <3>2. CASE i = id
      <4>1. <<doc, id>> \in migrator'.done /\ migrator.done \subseteq migrator'.done
        BY <2>4
      <4>2. CASE target = "products" /\ migrator.doc = 1
        BY <2>3, <3>2, <4>1, <4>2
      <4>3. CASE target = "products" /\ migrator.doc = 2
        <5>1. <<"products", id>> \in migrator.done
          BY <1>t, <2>1, <2>2, <2>8, <4>3 DEF ListsAreWhole
        <5> QED
          BY <2>3, <3>2, <4>1, <4>3, <5>1
      <4>4. CASE target # "products"
        <5>1. doc # "products" /\ doc # "snapshots" /\ last /\ migrator.doc = 1
          BY <2>3, <4>4
        <5>2. <<"products", id>> \in migrator'.done <=> <<"products", id>> \in migrator.done
          BY <2>4, <5>1
        <5>3. <<"snapshots", id>> \in migrator'.done <=> <<"snapshots", id>> \in migrator.done
          BY <2>4, <5>1
        <5> QED
          BY <1>t, <2>1, <2>2, <2>8, <3>2, <5>1, <5>2, <5>3 DEF ListsAreWhole
      <4> QED
        BY <2>2, <4>2, <4>3, <4>4
    <3> QED
      BY <3>1, <3>2
  <2>11. OffersFollow'
    <3>1. "products" \in AllDocs /\ "snapshots" \in AllDocs
      BY DEF AllDocs
    <3>2. \A i : ~HalfTaken(i) /\ ~HalfTaken(i)'
      BY <2>1, <2>4 DEF HalfTaken
    <3>3. CASE target # "products"
      <4>1. \A i \in Legacy : /\ records'["products"][i] = records["products"][i]
                              /\ records'["snapshots"][i] = records["snapshots"][i]
        BY <2>3, <2>5, <3>1, <3>3
      <4> QED
        BY <1>t, <2>1, <2>3, <2>9, <3>3, <4>1 DEF OffersFollow
    <3>4. CASE target = "products"
      <4> SUFFICES ASSUME ~marks.cut, marks.raced = {}, NEW i \in Legacy
          PROVE  /\ ~last /\ i = id => records'["products"][i] # Absent
                 /\ ~(~last /\ i = id) => (records'["products"][i] = Absent <=> records'["snapshots"][i] = Absent)
        BY <2>1, <2>9, <3>2, <3>4 DEF OffersFollow
      <4>1. CASE i # id
        <5>1. /\ records'["products"][i] = records["products"][i]
              /\ records'["snapshots"][i] = records["snapshots"][i]
          BY <2>5, <3>1, <4>1
        <5> QED
          BY <1>t, <2>8, <3>2, <4>1, <5>1 DEF OffersFollow
      <4>2. CASE i = id /\ migrator.doc = 1
        BY <2>3, <2>5, <3>1, <3>4, <4>2
      <4>3. CASE i = id /\ migrator.doc = 2
        <5>1. records["products"][i] # Absent
          BY <1>t, <2>8, <4>3 DEF OffersFollow
        <5>2. doc = "snapshots" /\ last
          BY <2>3, <3>4, <4>3
        <5>3. records'["snapshots"][i] = migrator.text /\ records'["products"][i] = records["products"][i]
          BY <2>5, <3>1, <4>3, <5>2
        <5> QED
          BY <2>5, <5>1, <5>2, <5>3
      <4> QED
        BY <2>2, <4>1, <4>2, <4>3
    <3> QED
      BY <3>3, <3>4
  <2>12. OwnRecordsStay'
    <3>1. id # Own /\ \A d \in AllDocs : records'[d][Own] = records[d][Own]
      BY <2>2, <2>5, MigrationAssumption DEF Own
    <3>2. marks.saved \subseteq AllDocs
      BY <1>t DEF Marks
    <3> QED
      BY <1>t, <2>1, <3>1, <3>2 DEF OwnRecordsStay
  <2> QED
    BY <1>t, <2>1, <2>4, <2>5, <2>6, <2>7, <2>10, <2>11, <2>12 DEF MigrationInv
<1>4. CASE WriteManifest
  <2>1. /\ migrator.pc = "apply" /\ migrator.left = {}
        /\ manifests' = manifests \cup {migrator.done} /\ migrator' = NotRunning
        /\ target' = target /\ edition' = edition /\ records' = records /\ marks' = marks
    BY <1>4 DEF WriteManifest, Listed
  <2>2. migrator' \in Migrators /\ migrator'.pc = "idle"
    BY <2>1, RestIsTyped
  <2>3. manifests' \subseteq Lists
    BY <1>t, <2>1 DEF Migrators
  <2>4. migrator.doc # 2
    BY <1>t, <2>1 DEF MigratorFollows
  <2>5. ListsFollow'
    BY <1>t, <2>1, <2>2 DEF ListsFollow, IsListed
  <2>6. ListsAreWhole'
    BY <1>t, <2>1, <2>2, <2>4 DEF ListsAreWhole, HalfPut
  <2>7. OffersFollow'
    BY <1>t, <2>1, <2>2, <2>4 DEF OffersFollow, HalfPut, HalfTaken
  <2> QED
    BY <1>t, <2>1, <2>2, <2>3, <2>5, <2>6, <2>7 DEF MigrationInv, MigratorFollows, OwnRecordsStay
<1>5. CASE Stop
  <2>1. /\ migrator' = NotRunning /\ marks' = [marks EXCEPT !.cut = TRUE]
        /\ target' = target /\ edition' = edition /\ records' = records /\ manifests' = manifests
    BY <1>5 DEF Stop, Keep
  <2>2. migrator' \in Migrators /\ migrator'.pc = "idle"
    BY <2>1, RestIsTyped
  <2>3. marks' \in Marks /\ marks'.cut /\ marks'.saved = marks.saved /\ marks'.raced = marks.raced
    BY <1>t, <2>1 DEF Marks
  <2>4. MigratorFollows' /\ ListsFollow' /\ OwnRecordsStay'
    BY <1>t, <2>1, <2>2, <2>3 DEF MigratorFollows, ListsFollow, OwnRecordsStay
  <2>5. ListsAreWhole'
    BY <1>t, <2>1, <2>2 DEF ListsAreWhole
  <2>6. OffersFollow'
    BY <1>t, <2>1, <2>3 DEF OffersFollow
  <2> QED
    BY <1>t, <2>1, <2>2, <2>3, <2>4, <2>5, <2>6 DEF MigrationInv
<1>6. ASSUME NEW manifest \in manifests, Rollback(manifest) PROVE MigrationInv'
  <2>1. /\ migrator.pc = "idle" /\ marks.runs < MaxRuns
        /\ migrator' = [NotRunning EXCEPT !.pc = "read", !.done = manifest]
        /\ marks' = [marks EXCEPT !.runs = @ + 1]
        /\ target' = target /\ edition' = edition /\ records' = records /\ manifests' = manifests
    BY <1>6 DEF Rollback, Keep
  <2>2. migrator' \in Migrators /\ migrator'.pc = "read" /\ migrator'.doc = 1 /\ migrator'.done = manifest
    BY <1>t, <2>1, RestIsTyped DEF NotRunning, Migrators
  <2>3. marks' \in Marks /\ marks'.cut = marks.cut /\ marks'.saved = marks.saved /\ marks'.raced = marks.raced
    <3>1. marks.runs + 1 \in 0..MaxRuns
      BY <1>t, <2>1, MigrationAssumption DEF Marks
    <3> QED
      BY <1>t, <2>1, <3>1 DEF Marks
  <2>4. 1 \in DOMAIN Docs[target]
    BY <1>t, DocsAre
  <2>5. MigratorFollows'
    BY <2>1, <2>2, <2>4 DEF MigratorFollows
  <2>6. ListsFollow' /\ ListsAreWhole'
    BY <1>t, <2>1, <2>2, <2>3 DEF ListsFollow, IsListed, ListsAreWhole
  <2>7. OffersFollow'
    BY <1>t, <2>1, <2>2, <2>3 DEF OffersFollow, HalfPut, HalfTaken
  <2> QED
    BY <1>t, <2>1, <2>2, <2>3, <2>5, <2>6, <2>7 DEF MigrationInv, OwnRecordsStay
<1>7. CASE ReadFile
  <2>0. PICK doc : doc = Docs[target][migrator.doc]
    OBVIOUS
  <2>1. /\ migrator.pc = "read"
        /\ migrator' = [migrator EXCEPT !.pc = "write", !.read = records[doc]]
        /\ target' = target /\ edition' = edition /\ records' = records /\ manifests' = manifests
        /\ marks' = marks
    BY <1>7, <2>0 DEF ReadFile, Keep
  <2>2. doc \in AllDocs /\ records[doc] \in Files
    <3>1. doc \in AllDocs
      BY <1>t, <2>0, <2>1, DocsAre DEF MigratorFollows
    <3> QED
      BY <1>t, <3>1
  <2>3. /\ migrator' \in Migrators /\ migrator'.pc = "write" /\ migrator'.doc = migrator.doc
        /\ migrator'.done = migrator.done /\ migrator'.read = records[doc]
    BY <1>t, <2>1, <2>2 DEF Migrators
  <2>4. MigratorFollows'
    BY <1>t, <2>1, <2>2, <2>3 DEF MigratorFollows
  <2>5. ListsFollow'
    BY <1>t, <2>0, <2>1, <2>2, <2>3 DEF ListsFollow, IsListed
  <2>6. ListsAreWhole' /\ OffersFollow'
    BY <1>t, <2>1, <2>3 DEF ListsAreWhole, OffersFollow, HalfPut, HalfTaken
  <2> QED
    BY <1>t, <2>1, <2>3, <2>4, <2>5, <2>6 DEF MigrationInv, OwnRecordsStay
<1>8. CASE WriteBackDoc
  <2>0. PICK doc, back :
          doc = Docs[target][migrator.doc] /\ back = Kept(migrator.read, doc, migrator.done)
    OBVIOUS
  <2>1. /\ migrator.pc = "write"
        /\ records' = [records EXCEPT ![doc] = back]
        /\ migrator' = IF migrator.doc = Cardinality(DOMAIN Docs[target]) THEN NotRunning
                       ELSE [migrator EXCEPT !.pc = "read", !.doc = @ + 1]
        /\ marks' = [marks EXCEPT !.raced = IF migrator.read = records[doc] THEN @ ELSE @ \cup {doc}]
        /\ target' = target /\ edition' = edition /\ manifests' = manifests
    BY <1>8, <2>0 DEF WriteBackDoc, Keep
  <2>2. /\ doc \in AllDocs /\ migrator.done \in manifests /\ migrator.done \in Lists
        /\ migrator.doc \in DOMAIN Docs[target] /\ migrator.doc \in {1, 2} /\ migrator.read \in Files
        /\ target = "products" => doc = IF migrator.doc = 1 THEN "products" ELSE "snapshots"
        /\ target # "products" => doc \notin {"products", "snapshots"}
    BY <1>t, <2>0, <2>1, DocsAre DEF MigratorFollows
  <2>3. /\ back \in Files
        /\ \A i \in Legacy \cup {Own} : back[i] = IF <<doc, i>> \in migrator.done THEN Absent ELSE migrator.read[i]
    <3>1. DOMAIN migrator.read = Legacy \cup {Own} /\ Absent \in Contents
          /\ \A i \in Legacy \cup {Own} : migrator.read[i] \in Contents
      BY <2>2, MigrationAssumption DEF Files, Contents, Absent, Edited
    <3>2. back = [i \in Legacy \cup {Own} |-> IF <<doc, i>> \in migrator.done THEN Absent ELSE migrator.read[i]]
      BY <2>0, <3>1 DEF Kept
    <3> QED
      BY <3>1, <3>2 DEF Files
  <2>4. /\ records' \in [AllDocs -> Files] /\ records'[doc] = back
        /\ \A d \in AllDocs : d # doc => records'[d] = records[d]
    BY <1>t, <2>1, <2>2, <2>3
  <2>5. /\ marks' \in Marks /\ marks'.cut = marks.cut /\ marks'.saved = marks.saved
        /\ marks'.raced = IF migrator.read = records[doc] THEN marks.raced ELSE marks.raced \cup {doc}
    <3>1. (IF migrator.read = records[doc] THEN marks.raced ELSE marks.raced \cup {doc}) \in SUBSET AllDocs
      BY <1>t, <2>2 DEF Marks
    <3> QED
      BY <1>t, <2>1, <3>1 DEF Marks
  <2>6. /\ migrator' \in Migrators
        /\ \/ migrator' = NotRunning /\ migrator'.pc = "idle" /\ (target = "products" => migrator.doc = 2)
           \/ /\ migrator'.pc = "read" /\ migrator'.doc = 2 /\ migrator.doc = 1 /\ migrator'.done = migrator.done
              /\ 2 \in DOMAIN Docs[target]
    <3>1. Cardinality(DOMAIN Docs[target]) = IF target = "demands" THEN 1 ELSE 2
      BY <1>t, DocsAre
    <3>2. DOMAIN Docs[target] = IF target = "demands" THEN {1} ELSE {1, 2}
      BY <1>t, DocsAre
    <3>3. CASE migrator.doc = Cardinality(DOMAIN Docs[target])
      BY <2>1, <3>1, <3>3, RestIsTyped
    <3>4. CASE migrator.doc # Cardinality(DOMAIN Docs[target])
      <4>1. migrator.doc = 1 /\ 2 \in DOMAIN Docs[target]
        BY <2>2, <3>1, <3>2, <3>4
      <4>2. migrator' = [migrator EXCEPT !.pc = "read", !.doc = 2]
        BY <2>1, <3>4, <4>1
      <4> QED
        BY <1>t, <4>1, <4>2 DEF Migrators
    <3> QED
      BY <3>3, <3>4
  <2>7. MigratorFollows'
    BY <2>1, <2>2, <2>6 DEF MigratorFollows
  <2>8. ListsFollow'
    <3> SUFFICES ASSUME ~marks.cut, NEW d \in AllDocs, NEW i \in Legacy, records'[d][i] # Absent
        PROVE  IsListed(d, i)
      BY <2>1, <2>5, <2>6 DEF ListsFollow, IsListed
    <3>1. CASE d = doc
      <4>1. migrator.read[i] # Absent
        BY <2>3, <2>4, <3>1
      <4> QED
        BY <1>t, <2>0, <2>1, <3>1, <4>1 DEF ListsFollow
    <3>2. CASE d # doc
      <4>1. records[d][i] # Absent
        BY <2>4, <3>2
      <4> QED
        BY <1>t, <2>1, <4>1 DEF ListsFollow
    <3> QED
      BY <3>1, <3>2
  <2>9. ListsAreWhole'
    BY <1>t, <2>1, <2>6 DEF ListsAreWhole
  <2>10. OffersFollow'
    <3>1. "products" \in AllDocs /\ "snapshots" \in AllDocs
      BY DEF AllDocs
    <3>2. \A i : ~HalfPut(i) /\ ~HalfPut(i)'
      BY <2>1, <2>6 DEF HalfPut
    <3>3. CASE target # "products"
      <4>1. records'["products"] = records["products"] /\ records'["snapshots"] = records["snapshots"]
        BY <2>2, <2>4, <3>1, <3>3
      <4> QED
        BY <1>t, <2>1, <3>2, <3>3, <4>1 DEF OffersFollow
    <3>4. CASE target = "products"
      <4> SUFFICES ASSUME ~marks'.cut, marks'.raced = {}, NEW i \in Legacy
          PROVE  /\ HalfTaken(i)' => records'["products"][i] = Absent
                 /\ ~HalfTaken(i)' => (records'["products"][i] = Absent <=> records'["snapshots"][i] = Absent)
        BY <2>1, <3>2, <3>4 DEF OffersFollow
      <4>1. ~marks.cut /\ marks.raced = {} /\ migrator.read = records[doc]
        BY <2>5
      <4>2. /\ records'[doc][i] = IF <<doc, i>> \in migrator.done THEN Absent ELSE records[doc][i]
            /\ \A d \in AllDocs : d # doc => records'[d][i] = records[d][i]
        BY <2>3, <2>4, <4>1
      <4>3. CASE migrator.doc = 1
        <5>1. doc = "products" /\ ~HalfTaken(i)
          BY <2>2, <3>4, <4>3 DEF HalfTaken
        <5>2. HalfTaken(i)' <=> <<"products", i>> \in migrator.done
          BY <2>6, <3>4, <4>3 DEF HalfTaken
        <5>3. records["products"][i] = Absent <=> records["snapshots"][i] = Absent
          BY <1>t, <3>2, <4>1, <5>1 DEF OffersFollow
        <5>4. records'["snapshots"][i] = records["snapshots"][i]
          BY <3>1, <4>2, <5>1
        <5> QED
          BY <4>2, <5>1, <5>2, <5>3, <5>4
      <4>4. CASE migrator.doc = 2
        <5>1. doc = "snapshots" /\ (HalfTaken(i) <=> <<"products", i>> \in migrator.done)
          BY <2>1, <2>2, <3>4, <4>4 DEF HalfTaken
        <5>2. ~HalfTaken(i)'
          BY <2>6, <4>4 DEF HalfTaken
        <5>3. <<"products", i>> \in migrator.done <=> <<"snapshots", i>> \in migrator.done
          BY <1>t, <2>2 DEF ListsAreWhole
        <5>4. /\ HalfTaken(i) => records["products"][i] = Absent
              /\ ~HalfTaken(i) => (records["products"][i] = Absent <=> records["snapshots"][i] = Absent)
          BY <1>t, <3>2, <4>1 DEF OffersFollow
        <5>5. records'["products"][i] = records["products"][i]
          BY <3>1, <4>2, <5>1
        <5> QED
          BY <4>2, <5>1, <5>2, <5>3, <5>4, <5>5
      <4> QED
        BY <2>2, <4>3, <4>4
    <3> QED
      BY <3>3, <3>4
  <2>11. OwnRecordsStay'
    <3> SUFFICES ASSUME NEW d \in marks.saved, d \notin marks'.raced
        PROVE  records'[d][Own] # Absent
      BY <2>5 DEF OwnRecordsStay
    <3>1. d \in AllDocs /\ d \notin marks.raced /\ (d = doc => migrator.read = records[doc])
      BY <1>t, <2>5 DEF Marks
    <3>2. records[d][Own] # Absent
      BY <1>t, <3>1 DEF OwnRecordsStay
    <3>3. <<doc, Own>> \notin migrator.done
      BY <2>2, MigrationAssumption DEF Lists, Own
    <3> QED
      BY <2>3, <2>4, <3>1, <3>2, <3>3
  <2> QED
    BY <1>t, <2>1, <2>4, <2>5, <2>6, <2>7, <2>8, <2>9, <2>10, <2>11 DEF MigrationInv
<1>9. ASSUME NEW n \in DOMAIN Docs[target], NEW id \in Legacy \cup {Own}, SaveRecord(Docs[target][n], id)
      PROVE  MigrationInv'
  <2>0. PICK doc : doc = Docs[target][n]
    OBVIOUS
  <2>1. /\ id = Own \/ (records[doc][id] # Absent /\ doc # "snapshots")
        /\ records' = [records EXCEPT ![doc][id] = Edited]
        /\ marks' = [marks EXCEPT !.saved = @ \cup (IF id = Own THEN {doc} ELSE {})]
        /\ target' = target /\ edition' = edition /\ manifests' = manifests /\ migrator' = migrator
    BY <1>9, <2>0 DEF SaveRecord, Keep
  <2>2. doc \in AllDocs
    BY <1>t, <2>0, DocsAre
  <2>3. /\ records' \in [AllDocs -> Files] /\ Edited # Absent
        /\ \A d \in AllDocs, i \in Legacy \cup {Own} :
             records'[d][i] = IF d = doc /\ i = id THEN Edited ELSE records[d][i]
    <3>1. Edited \in Contents /\ Edited # Absent
      BY MigrationAssumption DEF Contents, Edited, Absent
    <3> QED
      BY <1>t, <2>1, <2>2, <3>1 DEF Files
  <2>4. /\ marks' \in Marks /\ marks'.cut = marks.cut /\ marks'.raced = marks.raced
        /\ marks'.saved = marks.saved \cup (IF id = Own THEN {doc} ELSE {})
    <3>1. marks.saved \cup (IF id = Own THEN {doc} ELSE {}) \in SUBSET AllDocs
      BY <1>t, <2>2 DEF Marks
    <3> QED
      BY <1>t, <2>1, <3>1 DEF Marks
  <2>5. \A d \in AllDocs, i \in Legacy : records'[d][i] = Absent <=> records[d][i] = Absent
    BY <2>1, <2>3, MigrationAssumption DEF Own
  <2>6. MigratorFollows' /\ ListsAreWhole'
    BY <1>t, <2>1 DEF MigratorFollows, ListsAreWhole, HalfPut
  <2>7. ListsFollow'
    BY <1>t, <2>1, <2>4, <2>5 DEF ListsFollow, IsListed
  <2>8. OffersFollow'
    <3>1. "products" \in AllDocs /\ "snapshots" \in AllDocs
      BY DEF AllDocs
    <3> QED
      BY <1>t, <2>1, <2>4, <2>5, <3>1 DEF OffersFollow, HalfPut, HalfTaken
  <2>9. OwnRecordsStay'
    <3>1. marks.saved \subseteq AllDocs
      BY <1>t DEF Marks
    <3> QED
      BY <1>t, <2>2, <2>3, <2>4, <3>1 DEF OwnRecordsStay
  <2> QED
    BY <1>t, <2>1, <2>3, <2>4, <2>6, <2>7, <2>8, <2>9 DEF MigrationInv
<1>10. CASE EditLegacy
  <2>1. /\ edition' \in 1..MaxEditions
        /\ target' = target /\ records' = records /\ migrator' = migrator /\ manifests' = manifests
        /\ marks' = marks
    BY <1>t, <1>10, MigrationAssumption DEF EditLegacy
  <2> QED
    BY <1>t, <2>1 DEF MigrationInv, MigratorFollows, ListsFollow, IsListed, ListsAreWhole,
                      OffersFollow, HalfPut, HalfTaken, OwnRecordsStay
<1> QED
  BY <1>u, <1>1, <1>2, <1>3, <1>4, <1>5, <1>6, <1>7, <1>8, <1>9, <1>10
     DEF MigrationNext, PlanProducts, PlanDemands, PlanNetwork

LEMMA MigrationsHold ==
  ASSUME MigrationInv
  PROVE  MigrationTypeOK /\ WhatIsPutIsListed /\ OffersAreWhole /\ OwnRecordsStay
<1>1. MigrationTypeOK
  BY DEF MigrationInv, MigrationTypeOK, Migrators, Marks
<1>2. WhatIsPutIsListed
  BY DEF MigrationInv, WhatIsPutIsListed, ListsFollow, IsListed
<1>3. OffersAreWhole
  BY DEF MigrationInv, OffersAreWhole, OffersFollow, HalfPut, HalfTaken
<1> QED
  BY <1>1, <1>2, <1>3 DEF MigrationInv

(***************************************************************************)
(* Workspace migration                                                     *)
(***************************************************************************)
(* The first and the last of the files left are among them.                *)
LEMMA EndsOf ==
  ASSUME NEW S \in SUBSET Paths, S # {}
  PROVE  Min(S) \in S /\ Max(S) \in S
<1> DEFINE n == Cardinality(Paths)
<1>1. n \in Nat /\ S \subseteq 1..n
  BY FS_CardinalityType, WorkspaceAssumption
<1> HIDE DEF n
<1>2. PICK x \in S : \A y \in S : x <= y
  BY <1>1, LeastOf
<1>3. PICK last \in S : \A y \in S : last >= y
  <2> DEFINE T == {n - z : z \in S}
  <2>1. T \in SUBSET Nat /\ T # {}
    BY <1>1
  <2>2. PICK t \in T : \A u \in T : t <= u
    BY <2>1, LeastOf
  <2>3. PICK most \in S : t = n - most
    BY <2>2
  <2>4. ASSUME NEW y \in S PROVE most >= y
    <3>1. n - most <= n - y
      BY <2>2, <2>3, <2>4
    <3>2. most \in 1..n /\ y \in 1..n
      BY <1>1, <2>4
    <3> QED
      BY <1>1, <3>1, <3>2
  <2> QED
    BY <2>4
<1> QED
  BY <1>2, <1>3 DEF Min, Max

Blueprints == [hash : [Paths -> Texts \cup {NoFile}],
               action : [Paths -> {"copy", "skip_same", "conflict", "none"}]]
Ledgers == [mode : {"none", "applying", "applied"}, applied : SUBSET Paths]
Copiers == [pc : {"idle", "copy", "mark", "finish", "rollback"}, left : SUBSET Paths]
Diaries == [edits : Nat, before : [Paths -> Texts \cup {NoFile}], touched : SUBSET Paths,
            moved : SUBSET Paths, cut : SUBSET Paths, undone : BOOLEAN, restored : BOOLEAN]

(* What the plan saw: where it says copy there was nothing, where it says  *)
(* skip there was the same.                                                *)
PlanFollows ==
  /\ ledger.mode = "none" =>
       ledger.applied = {} /\ copier.pc = "idle" /\ diary.cut = {} /\ ~diary.undone
  /\ blueprint = NoPlan => ledger.mode = "none"
  /\ ledger.mode # "none" =>
       \A f \in Paths : blueprint.action[f] \in {"copy", "skip_same"}
  /\ blueprint # NoPlan =>
       \A f \in Paths :
         /\ blueprint.action[f] # "none"
         /\ blueprint.action[f] = "copy" => diary.before[f] = NoFile
         /\ blueprint.action[f] = "skip_same" => destination[f] = blueprint.hash[f] \/ f \in diary.touched
         /\ source[f] = blueprint.hash[f] \/ f \in diary.moved

(* The files to copy are applied or left, in the order of the calls.       *)
CopierFollows ==
  /\ ledger.applied \subseteq ToCopy
  /\ copier.pc \in {"copy", "mark"} =>
       copier.left # {} /\ copier.left = ToCopy \ ledger.applied
  /\ copier.pc = "finish" => ledger.applied = ToCopy
  /\ copier.pc \in {"copy", "mark", "finish"} => ledger.mode = "applying" /\ ~diary.undone
  /\ copier.pc = "rollback" => copier.left \subseteq ledger.applied /\ diary.undone
  /\ ledger.mode = "applied" => ledger.applied = ToCopy
  /\ diary.restored => diary.undone

InHand(f) == copier.pc = "mark" /\ f = Min(copier.left)
AsBefore(f) == destination[f] = diary.before[f] \/ f \in diary.touched \/ f \in diary.cut

(* A file that is not as it was is marked, or in the copier's hand; those  *)
(* a rollback has passed are as they were, all of them when it has ended.  *)
DestinationFollows ==
  /\ \A f \in Paths : AsBefore(f) \/ f \in ledger.applied \/ InHand(f)
  /\ copier.pc = "rollback" => \A f \in ledger.applied \ copier.left : AsBefore(f)
  /\ diary.restored => \A f \in Paths : AsBefore(f)
  /\ ~diary.undone =>
       \A f \in Paths : f \in ledger.applied \/ InHand(f) =>
         destination[f] = blueprint.hash[f] \/ f \in diary.touched \cup diary.moved

WorkspaceInv ==
  /\ source \in [Paths -> Texts]
  /\ destination \in [Paths -> Texts \cup {NoFile}]
  /\ blueprint \in Blueprints
  /\ ledger \in Ledgers
  /\ copier \in Copiers
  /\ diary \in Diaries
  /\ PlanFollows
  /\ CopierFollows
  /\ DestinationFollows

LEMMA WorkspaceInitInv == WorkspaceInit => WorkspaceInv
<1> SUFFICES ASSUME WorkspaceInit PROVE WorkspaceInv
  OBVIOUS
<1>1. /\ source \in [Paths -> Texts] /\ destination \in [Paths -> Texts \cup {NoFile}]
      /\ blueprint = NoPlan /\ ledger = [mode |-> "none", applied |-> {}]
      /\ copier.pc = "idle" /\ diary.cut = {} /\ ~diary.undone /\ ~diary.restored
      /\ diary.before = destination
  BY DEF WorkspaceInit, Quiet
<1>2. blueprint \in Blueprints /\ ledger \in Ledgers /\ copier \in Copiers /\ diary \in Diaries
  BY DEF WorkspaceInit, NoPlan, Quiet, Blueprints, Ledgers, Copiers, Diaries
<1>3. PlanFollows
  BY <1>1 DEF PlanFollows
<1>4. CopierFollows
  BY <1>1 DEF CopierFollows
<1>5. DestinationFollows
  BY <1>1 DEF DestinationFollows, AsBefore, InHand
<1> QED
  BY <1>1, <1>2, <1>3, <1>4, <1>5 DEF WorkspaceInv

LEMMA WorkspaceStepInv == WorkspaceInv /\ (WorkspaceNext \/ UNCHANGED workspaceVars) => WorkspaceInv'
<1> SUFFICES ASSUME WorkspaceInv, WorkspaceNext \/ UNCHANGED workspaceVars
    PROVE  WorkspaceInv'
  OBVIOUS
<1>t. /\ source \in [Paths -> Texts] /\ destination \in [Paths -> Texts \cup {NoFile}]
      /\ blueprint \in Blueprints /\ ledger \in Ledgers /\ copier \in Copiers /\ diary \in Diaries
      /\ PlanFollows /\ CopierFollows /\ DestinationFollows
  BY DEF WorkspaceInv
<1>c. ToCopy \subseteq Paths
  BY DEF ToCopy
<1>u. CASE UNCHANGED workspaceVars
  BY <1>t, <1>u DEF workspaceVars, WorkspaceInv, PlanFollows, CopierFollows, DestinationFollows,
                    AsBefore, InHand, ToCopy
<1>1. CASE Plan
  <2>1. /\ ledger.mode = "none" /\ blueprint = NoPlan
        /\ blueprint' = [hash |-> source, action |-> [f \in Paths |-> ActionFor(f)]]
        /\ diary' = [diary EXCEPT !.before = destination, !.touched = {}, !.moved = {}]
        /\ source' = source /\ destination' = destination /\ ledger' = ledger /\ copier' = copier
    BY <1>1 DEF Plan, Untouched
  <2>2. \A f \in Paths : ActionFor(f) \in {"copy", "skip_same", "conflict"}
    BY DEF ActionFor
  <2>3. /\ blueprint' \in Blueprints /\ blueprint'.hash = source
        /\ \A f \in Paths : blueprint'.action[f] = ActionFor(f)
    BY <1>t, <2>1, <2>2 DEF Blueprints
  <2>4. /\ diary' \in Diaries /\ diary'.before = destination /\ diary'.touched = {} /\ diary'.moved = {}
        /\ diary'.cut = diary.cut /\ diary'.undone = diary.undone /\ diary'.restored = diary.restored
    BY <1>t, <2>1 DEF Diaries
  <2>5. ledger.applied = {} /\ copier.pc = "idle" /\ diary.cut = {} /\ ~diary.undone /\ ~diary.restored
    BY <1>t, <2>1 DEF PlanFollows, CopierFollows
  <2>6. PlanFollows'
    <3>1. \A f \in Paths : /\ ActionFor(f) # "none"
                           /\ ActionFor(f) = "copy" => destination[f] = NoFile
                           /\ ActionFor(f) = "skip_same" => destination[f] = source[f]
      BY DEF ActionFor
    <3> QED
      BY <2>1, <2>3, <2>4, <2>5, <3>1 DEF PlanFollows
  <2>7. CopierFollows'
    BY <2>1, <2>4, <2>5 DEF CopierFollows
  <2>8. DestinationFollows'
    BY <2>1, <2>4, <2>5 DEF DestinationFollows, AsBefore, InHand
  <2> QED
    BY <1>t, <2>1, <2>3, <2>4, <2>6, <2>7, <2>8 DEF WorkspaceInv
<1>2. CASE BeginApply
  <2>1. /\ ledger.mode = "none" /\ blueprint # NoPlan /\ Preflight
        /\ ledger' = [mode |-> "applying", applied |-> {}]
        /\ copier' = [pc |-> IF ToCopy = {} THEN "finish" ELSE "copy", left |-> ToCopy]
        /\ source' = source /\ destination' = destination /\ blueprint' = blueprint /\ diary' = diary
    BY <1>2 DEF BeginApply, Untouched
  <2>2. ledger.applied = {} /\ diary.cut = {} /\ ~diary.undone /\ copier.pc = "idle" /\ ~diary.restored
    BY <1>t, <2>1 DEF PlanFollows, CopierFollows
  <2>3. /\ ledger' \in Ledgers /\ ledger'.mode = "applying" /\ ledger'.applied = {}
        /\ copier' \in Copiers /\ copier'.left = ToCopy
        /\ copier'.pc = IF ToCopy = {} THEN "finish" ELSE "copy"
        /\ ToCopy' = ToCopy
    BY <1>c, <2>1 DEF Ledgers, Copiers, ToCopy
  <2>4. \A f \in Paths : blueprint.action[f] \in {"copy", "skip_same"}
    BY <1>t, <2>1 DEF Preflight, PlanFollows, Blueprints
  <2>5. PlanFollows'
    BY <1>t, <2>1, <2>3, <2>4 DEF PlanFollows
  <2>6. CopierFollows'
    BY <1>c, <2>1, <2>2, <2>3 DEF CopierFollows
  <2>7. DestinationFollows'
    BY <1>t, <2>1, <2>2, <2>3 DEF DestinationFollows, AsBefore, InHand
  <2> QED
    BY <1>t, <2>1, <2>3, <2>5, <2>6, <2>7 DEF WorkspaceInv
<1>3. CASE CopyFile
  <2> DEFINE f == Min(copier.left)
  <2>1. /\ copier.pc = "copy" /\ destination' = [destination EXCEPT ![f] = source[f]]
        /\ copier' = [copier EXCEPT !.pc = "mark"]
        /\ source' = source /\ blueprint' = blueprint /\ ledger' = ledger /\ diary' = diary
    BY <1>3 DEF CopyFile
  <2>2. f \in copier.left /\ f \in Paths /\ f \in ToCopy /\ f \notin ledger.applied
    <3>1. copier.left # {} /\ copier.left = ToCopy \ ledger.applied
      BY <1>t, <2>1 DEF CopierFollows
    <3>2. f \in copier.left
      BY <1>c, <3>1, EndsOf
    <3> QED
      BY <1>c, <3>1, <3>2
  <2>3. /\ copier' \in Copiers /\ copier'.pc = "mark" /\ copier'.left = copier.left /\ ToCopy' = ToCopy
    BY <1>t, <2>1 DEF Copiers, ToCopy
  <2>3a. Min(copier'.left) = f
    BY <2>3
  <2> HIDE DEF f
  <2>4. /\ destination' \in [Paths -> Texts \cup {NoFile}] /\ destination'[f] = source[f]
        /\ \A g \in Paths : g # f => destination'[g] = destination[g]
    BY <1>t, <2>1, <2>2
  <2>5. ledger.mode # "none" /\ blueprint # NoPlan /\ ~diary.undone
    BY <1>t, <2>1 DEF PlanFollows, CopierFollows
  <2>6. PlanFollows'
    <3>1. blueprint.action[f] = "copy"
      BY <2>2 DEF ToCopy
    <3> QED
      BY <1>t, <2>1, <2>3, <2>4, <2>5, <3>1 DEF PlanFollows
  <2>7. CopierFollows'
    BY <1>t, <2>1, <2>3 DEF CopierFollows
  <2>8. DestinationFollows'
    <3>1. source[f] = blueprint.hash[f] \/ f \in diary.moved
      BY <1>t, <2>2, <2>5 DEF PlanFollows
    <3>2. \A g \in Paths : InHand(g)' <=> g = f
      BY <2>3, <2>3a DEF InHand
    <3>3. \A g \in Paths : ~InHand(g) /\ (g # f => (AsBefore(g)' <=> AsBefore(g)))
      BY <2>1, <2>4 DEF InHand, AsBefore
    <3>4. ~diary.restored
      BY <1>t, <2>5 DEF CopierFollows
    <3> QED
      BY <1>t, <2>1, <2>3, <2>4, <3>1, <3>2, <3>3, <3>4 DEF DestinationFollows
  <2> QED
    BY <1>t, <2>1, <2>3, <2>4, <2>6, <2>7, <2>8 DEF WorkspaceInv
<1>4. CASE MarkApplied
  <2> DEFINE f == Min(copier.left)
             left == copier.left \ {f}
  <2>1. /\ copier.pc = "mark" /\ ledger' = [ledger EXCEPT !.applied = ledger.applied \cup {f}]
        /\ copier' = [pc |-> IF left = {} THEN "finish" ELSE "copy", left |-> left]
        /\ source' = source /\ destination' = destination /\ blueprint' = blueprint /\ diary' = diary
    BY <1>4 DEF MarkApplied, MarkedWith, Untouched
  <2>2. f \in copier.left /\ f \in Paths /\ f \in ToCopy /\ f \notin ledger.applied
        /\ copier.left = ToCopy \ ledger.applied
    <3>1. copier.left # {} /\ copier.left = ToCopy \ ledger.applied
      BY <1>t, <2>1 DEF CopierFollows
    <3>2. f \in copier.left
      BY <1>c, <3>1, EndsOf
    <3> QED
      BY <1>c, <3>1, <3>2
  <2>3. \A g \in Paths : InHand(g) <=> g = f
    BY <2>1 DEF InHand
  <2> HIDE DEF f
  <2>4. /\ copier' \in Copiers /\ copier'.left = left
        /\ copier'.pc = IF left = {} THEN "finish" ELSE "copy"
        /\ ToCopy' = ToCopy
    BY <1>t, <2>1 DEF Copiers, ToCopy
  <2>5. ledger' \in Ledgers /\ ledger'.mode = ledger.mode /\ ledger'.applied = ledger.applied \cup {f}
    BY <1>t, <2>1, <2>2 DEF Ledgers
  <2>6. ledger.mode = "applying" /\ ~diary.undone
    BY <1>t, <2>1 DEF CopierFollows
  <2>7. PlanFollows'
    BY <1>t, <2>1, <2>4, <2>5, <2>6 DEF PlanFollows
  <2>8. CopierFollows'
    BY <1>t, <1>c, <2>1, <2>2, <2>4, <2>5, <2>6 DEF CopierFollows
  <2>9. DestinationFollows'
    <3>1. \A g \in Paths : ~InHand(g)' /\ (AsBefore(g)' <=> AsBefore(g))
      BY <2>1, <2>4 DEF InHand, AsBefore
    <3> QED
      BY <1>t, <2>1, <2>3, <2>4, <2>5, <3>1 DEF DestinationFollows
  <2> QED
    BY <1>t, <2>1, <2>4, <2>5, <2>7, <2>8, <2>9 DEF WorkspaceInv
<1>5. CASE FinishApply
  <2>1. /\ copier.pc = "finish" /\ ledger' = [ledger EXCEPT !.mode = "applied"] /\ copier' = Quiet
        /\ source' = source /\ destination' = destination /\ blueprint' = blueprint /\ diary' = diary
    BY <1>5 DEF FinishApply, Untouched
  <2>2. copier' \in Copiers /\ copier'.pc = "idle" /\ ToCopy' = ToCopy
    BY <2>1 DEF Quiet, Copiers, ToCopy
  <2>3. ledger' \in Ledgers /\ ledger'.mode = "applied" /\ ledger'.applied = ledger.applied
    BY <1>t, <2>1 DEF Ledgers
  <2>4. PlanFollows' /\ CopierFollows'
    BY <1>t, <2>1, <2>2, <2>3 DEF PlanFollows, CopierFollows
  <2>5. DestinationFollows'
    BY <1>t, <2>1, <2>2, <2>3 DEF DestinationFollows, AsBefore, InHand
  <2> QED
    BY <1>t, <2>1, <2>2, <2>3, <2>4, <2>5 DEF WorkspaceInv
<1>6. CASE CopierStops
  <2> DEFINE cut == IF copier.pc = "mark" THEN diary.cut \cup {Min(copier.left)} ELSE diary.cut
  <2>1. /\ copier.pc # "idle" /\ diary' = [diary EXCEPT !.cut = cut] /\ copier' = Quiet
        /\ source' = source /\ destination' = destination /\ blueprint' = blueprint /\ ledger' = ledger
    BY <1>6 DEF CopierStops, Untouched
  <2>2. cut \subseteq Paths
    BY <1>t, <1>c, EndsOf DEF CopierFollows, Diaries
  <2>3. \A g \in Paths : InHand(g) => g \in cut
    BY DEF InHand
  <2>3a. diary.cut \subseteq cut
    OBVIOUS
  <2> HIDE DEF cut
  <2>4. copier' \in Copiers /\ copier'.pc = "idle" /\ ToCopy' = ToCopy
    BY <2>1 DEF Quiet, Copiers, ToCopy
  <2>5. /\ diary' \in Diaries /\ diary'.cut = cut /\ diary'.before = diary.before
        /\ diary'.touched = diary.touched /\ diary'.moved = diary.moved
        /\ diary'.undone = diary.undone /\ diary'.restored = diary.restored
    BY <1>t, <2>1, <2>2 DEF Diaries
  <2>6. ledger.mode # "none"
    BY <1>t, <2>1 DEF PlanFollows
  <2>7. PlanFollows'
    BY <1>t, <2>1, <2>5, <2>6 DEF PlanFollows
  <2>8. CopierFollows'
    BY <1>t, <2>1, <2>4, <2>5 DEF CopierFollows
  <2>9. DestinationFollows'
    <3>1. \A g \in Paths : ~InHand(g)' /\ (AsBefore(g) => AsBefore(g)') /\ (InHand(g) => AsBefore(g)')
      BY <2>1, <2>3, <2>3a, <2>4, <2>5 DEF InHand, AsBefore
    <3> QED
      BY <1>t, <2>1, <2>4, <2>5, <3>1 DEF DestinationFollows
  <2> QED
    BY <1>t, <2>1, <2>4, <2>5, <2>7, <2>8, <2>9 DEF WorkspaceInv
<1>7. CASE BeginRollback
  <2>1. /\ copier.pc = "idle" /\ ledger.mode \in {"applying", "applied"}
        /\ copier' = [pc |-> "rollback", left |-> ledger.applied]
        /\ diary' = [diary EXCEPT !.undone = TRUE]
        /\ source' = source /\ destination' = destination /\ blueprint' = blueprint /\ ledger' = ledger
    BY <1>7 DEF BeginRollback, Untouched
  <2>2. /\ copier' \in Copiers /\ copier'.pc = "rollback" /\ copier'.left = ledger.applied
        /\ ToCopy' = ToCopy
    BY <1>t, <2>1 DEF Copiers, Ledgers, ToCopy
  <2>3. /\ diary' \in Diaries /\ diary'.cut = diary.cut /\ diary'.before = diary.before
        /\ diary'.touched = diary.touched /\ diary'.moved = diary.moved
        /\ diary'.undone /\ diary'.restored = diary.restored
    BY <1>t, <2>1 DEF Diaries
  <2>4. PlanFollows'
    BY <1>t, <2>1, <2>3 DEF PlanFollows
  <2>5. CopierFollows'
    BY <1>t, <2>1, <2>2, <2>3 DEF CopierFollows
  <2>6. DestinationFollows'
    <3>1. \A g \in Paths : ~InHand(g) /\ (AsBefore(g)' <=> AsBefore(g))
      BY <2>1, <2>3 DEF InHand, AsBefore
    <3> QED
      BY <1>t, <2>1, <2>2, <2>3, <3>1 DEF DestinationFollows
  <2> QED
    BY <1>t, <2>1, <2>2, <2>3, <2>4, <2>5, <2>6 DEF WorkspaceInv
<1>8. CASE RemoveFile
  <2>0. PICK f : f = Max(copier.left)
    OBVIOUS
  <2>1. /\ copier.pc = "rollback" /\ copier.left # {}
        /\ source' = source /\ blueprint' = blueprint /\ ledger' = ledger /\ diary' = diary
        /\ \/ /\ destination' = [destination EXCEPT ![f] = NoFile]
              /\ copier' = [copier EXCEPT !.left = copier.left \ {f}]
           \/ /\ copier' = Quiet
              /\ destination' = destination
    BY <1>8, <2>0 DEF RemoveFile
  <2>2. /\ f \in copier.left /\ f \in Paths /\ f \in ToCopy
        /\ diary.undone /\ ledger.mode # "none" /\ blueprint # NoPlan
    <3>1. copier.left \subseteq ledger.applied /\ ledger.applied \subseteq ToCopy
      BY <1>t, <2>1 DEF CopierFollows
    <3>2. f \in copier.left
      BY <1>c, <2>0, <2>1, <3>1, EndsOf
    <3> QED
      BY <1>t, <1>c, <2>1, <3>1, <3>2 DEF CopierFollows, PlanFollows
  <2>3. diary.before[f] = NoFile /\ blueprint.action[f] = "copy"
    BY <1>t, <2>2 DEF PlanFollows, ToCopy
  <2>4. ToCopy' = ToCopy
    BY <2>1 DEF ToCopy
  <2>5. CASE /\ destination' = [destination EXCEPT ![f] = NoFile]
             /\ copier' = [copier EXCEPT !.left = copier.left \ {f}]
    <3>1. /\ destination' \in [Paths -> Texts \cup {NoFile}] /\ destination'[f] = NoFile
          /\ \A g \in Paths : g # f => destination'[g] = destination[g]
      BY <1>t, <2>2, <2>5
    <3>2. copier' \in Copiers /\ copier'.pc = "rollback" /\ copier'.left = copier.left \ {f}
      BY <1>t, <2>1, <2>5 DEF Copiers
    <3>3. PlanFollows'
      BY <1>t, <2>1, <2>2, <2>3, <3>1 DEF PlanFollows
    <3>4. CopierFollows'
      BY <1>t, <2>1, <2>4, <3>2 DEF CopierFollows
    <3>5. DestinationFollows'
      <4>1. \A g \in Paths : ~InHand(g) /\ ~InHand(g)' /\ (AsBefore(g) => AsBefore(g)')
        BY <2>1, <2>3, <3>1, <3>2 DEF InHand, AsBefore
      <4>2. AsBefore(f)'
        BY <2>1, <2>3, <3>1 DEF AsBefore
      <4>3. ledger.applied \subseteq Paths
        BY <1>t DEF Ledgers
      <4> QED
        BY <1>t, <2>1, <2>2, <3>2, <4>1, <4>2, <4>3 DEF DestinationFollows
    <3> QED
      BY <1>t, <2>1, <3>1, <3>2, <3>3, <3>4, <3>5 DEF WorkspaceInv
  <2>6. CASE copier' = Quiet /\ destination' = destination
    <3>1. copier' \in Copiers /\ copier'.pc = "idle"
      BY <2>6 DEF Quiet, Copiers
    <3>2. PlanFollows' /\ CopierFollows'
      BY <1>t, <2>1, <2>2, <2>4, <2>6, <3>1 DEF PlanFollows, CopierFollows
    <3>3. DestinationFollows'
      BY <1>t, <2>1, <2>2, <2>6, <3>1 DEF DestinationFollows, AsBefore, InHand
    <3> QED
      BY <1>t, <2>1, <2>6, <3>1, <3>2, <3>3 DEF WorkspaceInv
  <2> QED
    BY <2>1, <2>5, <2>6
<1>9. CASE FinishRollback
  <2>1. /\ copier.pc = "rollback" /\ copier.left = {} /\ copier' = Quiet
        /\ diary' = [diary EXCEPT !.restored = TRUE]
        /\ source' = source /\ destination' = destination /\ blueprint' = blueprint /\ ledger' = ledger
    BY <1>9 DEF FinishRollback, Untouched
  <2>2. copier' \in Copiers /\ copier'.pc = "idle" /\ ToCopy' = ToCopy
    BY <2>1 DEF Quiet, Copiers, ToCopy
  <2>3. /\ diary' \in Diaries /\ diary'.cut = diary.cut /\ diary'.before = diary.before
        /\ diary'.touched = diary.touched /\ diary'.moved = diary.moved
        /\ diary'.undone = diary.undone /\ diary'.restored
    BY <1>t, <2>1 DEF Diaries
  <2>4. ledger.mode # "none" /\ diary.undone
    BY <1>t, <2>1 DEF PlanFollows, CopierFollows
  <2>5. PlanFollows' /\ CopierFollows'
    BY <1>t, <2>1, <2>2, <2>3, <2>4 DEF PlanFollows, CopierFollows
  <2>6. DestinationFollows'
    <3>1. \A g \in Paths : ~InHand(g) /\ ~InHand(g)' /\ (AsBefore(g)' <=> AsBefore(g))
      BY <2>1, <2>2, <2>3 DEF InHand, AsBefore
    <3> QED
      BY <1>t, <2>1, <2>2, <2>3, <2>4, <3>1 DEF DestinationFollows
  <2> QED
    BY <1>t, <2>1, <2>2, <2>3, <2>5, <2>6 DEF WorkspaceInv
<1>10. ASSUME NEW f \in Paths, NEW text \in Texts, PersonWrites(f, text) PROVE WorkspaceInv'
  <2>1. /\ diary' = [diary EXCEPT !.edits = @ + 1, !.touched = @ \cup {f}, !.restored = FALSE]
        /\ destination' = [destination EXCEPT ![f] = text]
        /\ source' = source /\ blueprint' = blueprint /\ ledger' = ledger /\ copier' = copier
    BY <1>10 DEF PersonWrites
  <2>2. /\ destination' \in [Paths -> Texts \cup {NoFile}]
        /\ \A g \in Paths : g # f => destination'[g] = destination[g]
    BY <1>t, <2>1
  <2>3. /\ diary' \in Diaries /\ diary'.cut = diary.cut /\ diary'.before = diary.before
        /\ diary'.touched = diary.touched \cup {f} /\ diary'.moved = diary.moved
        /\ diary'.undone = diary.undone /\ ~diary'.restored
    <3>1. diary.edits + 1 \in Nat
      BY <1>t DEF Diaries
    <3> QED
      BY <1>t, <2>1, <3>1 DEF Diaries
  <2>4. ToCopy' = ToCopy
    BY <2>1 DEF ToCopy
  <2>5. PlanFollows'
    BY <1>t, <2>1, <2>2, <2>3 DEF PlanFollows
  <2>6. CopierFollows'
    BY <1>t, <2>1, <2>3, <2>4 DEF CopierFollows
  <2>7. DestinationFollows'
    <3>1. \A g \in Paths : (InHand(g)' <=> InHand(g)) /\ (AsBefore(g) => AsBefore(g)') /\ AsBefore(f)'
      BY <2>1, <2>2, <2>3 DEF InHand, AsBefore
    <3>2. ledger.applied \subseteq Paths
      BY <1>t DEF Ledgers
    <3> QED
      BY <1>t, <2>1, <2>2, <2>3, <3>1, <3>2 DEF DestinationFollows
  <2> QED
    BY <1>t, <2>1, <2>2, <2>3, <2>5, <2>6, <2>7 DEF WorkspaceInv
<1>11. ASSUME NEW f \in Paths, NEW text \in Texts, PersonEditsSource(f, text) PROVE WorkspaceInv'
  <2>1. /\ diary' = [diary EXCEPT !.edits = @ + 1, !.moved = @ \cup {f}]
        /\ source' = [source EXCEPT ![f] = text]
        /\ destination' = destination /\ blueprint' = blueprint /\ ledger' = ledger /\ copier' = copier
    BY <1>11 DEF PersonEditsSource
  <2>2. source' \in [Paths -> Texts] /\ \A g \in Paths : g # f => source'[g] = source[g]
    BY <1>t, <2>1
  <2>3. /\ diary' \in Diaries /\ diary'.cut = diary.cut /\ diary'.before = diary.before
        /\ diary'.touched = diary.touched /\ diary'.moved = diary.moved \cup {f}
        /\ diary'.undone = diary.undone /\ diary'.restored = diary.restored
    <3>1. diary.edits + 1 \in Nat
      BY <1>t DEF Diaries
    <3> QED
      BY <1>t, <2>1, <3>1 DEF Diaries
  <2>4. ToCopy' = ToCopy
    BY <2>1 DEF ToCopy
  <2>5. PlanFollows'
    BY <1>t, <2>1, <2>2, <2>3 DEF PlanFollows
  <2>6. CopierFollows'
    BY <1>t, <2>1, <2>3, <2>4 DEF CopierFollows
  <2>7. DestinationFollows'
    BY <1>t, <2>1, <2>2, <2>3 DEF DestinationFollows, AsBefore, InHand
  <2> QED
    BY <1>t, <2>1, <2>2, <2>3, <2>5, <2>6, <2>7 DEF WorkspaceInv
<1> QED
  BY <1>u, <1>1, <1>2, <1>3, <1>4, <1>5, <1>6, <1>7, <1>8, <1>9, <1>10, <1>11 DEF WorkspaceNext

LEMMA WorkspacesHold ==
  ASSUME WorkspaceInv
  PROVE  WorkspaceTypeOK /\ RollbackRestores /\ AppliedIsComplete
<1>t. /\ source \in [Paths -> Texts] /\ destination \in [Paths -> Texts \cup {NoFile}]
      /\ blueprint \in Blueprints /\ ledger \in Ledgers /\ copier \in Copiers /\ diary \in Diaries
      /\ PlanFollows /\ CopierFollows /\ DestinationFollows
  BY DEF WorkspaceInv
<1>1. WorkspaceTypeOK
  BY <1>t DEF WorkspaceTypeOK, Blueprints, Ledgers, Copiers
<1>2. RollbackRestores
  BY <1>t DEF RollbackRestores, DestinationFollows, AsBefore
<1>3. AppliedIsComplete
  <2> SUFFICES ASSUME ledger.mode = "applied", ~diary.undone, NEW f \in Paths
      PROVE  destination[f] = blueprint.hash[f] \/ f \in diary.touched \cup diary.moved
    BY DEF AppliedIsComplete
  <2>1. blueprint # NoPlan /\ blueprint.action[f] \in {"copy", "skip_same"} /\ ledger.applied = ToCopy
    BY <1>t DEF PlanFollows, CopierFollows
  <2> QED
    BY <1>t, <2>1 DEF PlanFollows, DestinationFollows, ToCopy
<1> QED
  BY <1>1, <1>2, <1>3

(***************************************************************************)
(* Company studies                                                         *)
(***************************************************************************)
Books == [mapping : {"pending", "candidate"}, tier : {"high", "low"}, updated : 0..LastDay, study : 0..LastDay]
Folders == [no : 1..MaxDirs, company : Companies, day : 1..LastDay, kind : {"live", "kept", "stage"},
            updated : 1..LastDay, profile : {"none", "blank", "typed", "usable"}]
Installers == [pc : {"idle", "staged", "cleared"}, company : Companies \cup {"none"}, day : 0..LastDay, force : BOOLEAN]
Syncs == [pc : {"idle", "apply", "wait"}, read : [Companies -> Books] \cup {{}}, todo : SUBSET Companies,
          done : SUBSET Companies, day : 0..LastDay]
Pasts == [dirs : 0..MaxDirs, owed : SUBSET (1..MaxDirs), writes : 0..MaxWrites, cut : BOOLEAN, settled : 0..LastDay]

(* A directory has a number of its own, and nobody finishes a stage.       *)
LibraryFollows ==
  /\ IsFiniteSet(library)
  /\ \A d \in library : /\ d.no <= past.dirs /\ d.updated <= today
                        /\ d.kind = "stage" => d.updated = d.day /\ d.profile # "usable"
  /\ \A d, e \in library : d.no = e.no => d = e

(* The installation under way is of the last directory made.               *)
InstallerFollows ==
  installer.pc # "idle" =>
    /\ installer.company \in Companies /\ installer.day \in 1..today
    /\ \E d \in Staged : d.company = installer.company /\ d.day = installer.day

SyncFollows ==
  /\ sync.pc # "idle" => sync.read \in [Companies -> Books] /\ sync.day \in 1..today
  /\ sync.pc = "apply" => installer.pc = "idle"
  /\ sync.pc = "wait" => installer.pc # "idle" /\ installer.day = sync.day

(* Nobody is told of later than today.                                     *)
BooksFollow ==
  /\ \A c \in Companies : accounts[c].updated <= today
  /\ sync.pc # "idle" => \A c \in Companies : sync.read[c].updated <= today

(* A study is there, or an installation is between its two renames.        *)
Backed(c, day) ==
  \/ Live(c, day) # {} \/ past.cut
  \/ installer.pc = "cleared" /\ c = installer.company /\ day = installer.day
StudiesFollow ==
  /\ \A c \in Companies : accounts[c].study # 0 => Backed(c, accounts[c].study)
  /\ sync.pc # "idle" =>
       /\ \A c \in Companies : sync.read[c].study # 0 => Backed(c, sync.read[c].study)
       /\ \A c \in sync.done : Backed(c, sync.day)

(* What the queue would find without the stage of the installation under   *)
(* way: it may yet be refused.                                             *)
Others == IF installer.pc = "idle" THEN library ELSE library \ Staged
SettledFor(books, c) ==
  \/ \E d \in Others : d.company = c /\ d.updated >= books[c].updated /\ today - d.updated <= Horizon
  \/ books[c].tier # "high" /\ \A d \in Others : d.company # c

SettlingFollows ==
  /\ past.settled <= today
  /\ past.settled = today =>
       /\ \A c \in Companies : SettledFor(accounts, c)
       /\ sync.pc # "idle" => sync.day = today
       /\ installer.pc # "idle" => installer.day = today
  /\ sync.pc # "idle" /\ sync.day = today =>
       \A c \in Companies : c \in sync.todo \/ (sync.pc = "wait" /\ c = installer.company) \/ SettledFor(sync.read, c)

StudiesInv ==
  /\ today \in 1..LastDay
  /\ accounts \in [Companies -> Books]
  /\ library \subseteq Folders
  /\ installer \in Installers
  /\ sync \in Syncs
  /\ rollup \subseteq 1..MaxDirs
  /\ past \in Pasts
  /\ LibraryFollows
  /\ InstallerFollows
  /\ SyncFollows
  /\ BooksFollow
  /\ StudiesFollow
  /\ SettlingFollows
  /\ FinishedWorkIsKept

LEMMA NobodyAtWork ==
  /\ NoInstall \in Installers /\ NoInstall.pc = "idle"
  /\ NoSync \in Syncs /\ NoSync.pc = "idle" /\ NoSync.done = {}
<1>1. 0 \in 0..LastDay
  BY StudiesAssumption
<1> QED
  BY <1>1 DEF NoInstall, NoSync, Installers, Syncs

LEMMA StudiesInitInv == StudiesInit => StudiesInv
<1> SUFFICES ASSUME StudiesInit PROVE StudiesInv
  OBVIOUS
<1>1. /\ today = 1 /\ library = {} /\ installer = NoInstall /\ sync = NoSync /\ rollup = {}
      /\ accounts = [c \in Companies |-> [mapping |-> "pending", tier |-> "low", updated |-> 0, study |-> 0]]
      /\ past = [dirs |-> 0, owed |-> {}, writes |-> 0, cut |-> FALSE, settled |-> 0]
  BY DEF StudiesInit
<1>2. 0 \in 0..LastDay /\ 1 \in 1..LastDay /\ 0 \in 0..MaxDirs /\ 0 \in 0..MaxWrites
  BY StudiesAssumption
<1>3. /\ accounts \in [Companies -> Books]
      /\ \A c \in Companies : accounts[c].updated = 0 /\ accounts[c].study = 0 /\ accounts[c].tier = "low"
  BY <1>1, <1>2 DEF Books
<1>4. past \in Pasts /\ past.settled = 0 /\ past.owed = {}
  BY <1>1, <1>2 DEF Pasts
<1>5. installer \in Installers /\ installer.pc = "idle" /\ sync \in Syncs /\ sync.pc = "idle"
  BY <1>1, NobodyAtWork
<1>6. LibraryFollows
  BY <1>1, FS_EmptySet DEF LibraryFollows
<1>7. InstallerFollows /\ SyncFollows /\ BooksFollow /\ StudiesFollow
  BY <1>1, <1>3, <1>5 DEF InstallerFollows, SyncFollows, BooksFollow, StudiesFollow
<1>8. SettlingFollows
  BY <1>1, <1>4, <1>5 DEF SettlingFollows
<1>9. FinishedWorkIsKept
  BY <1>4 DEF FinishedWorkIsKept
<1> QED
  BY <1>1, <1>2, <1>3, <1>4, <1>5, <1>6, <1>7, <1>8, <1>9 DEF StudiesInv

(* The stage of the installation under way is one directory.               *)
LEMMA StagedIs ==
  ASSUME StudiesInv, installer.pc # "idle"
  PROVE  \E s \in library : /\ Staged = {s} /\ s.kind = "stage" /\ s.no = past.dirs /\ s.profile # "usable"
                            /\ s.company = installer.company /\ s.day = installer.day /\ s.updated = installer.day
<1>1. PICK s \in Staged : s.company = installer.company /\ s.day = installer.day
  BY DEF StudiesInv, InstallerFollows
<1>2. s \in library /\ s.kind = "stage" /\ s.no = past.dirs
  BY DEF Staged
<1>3. s.updated = s.day /\ s.profile # "usable"
  BY <1>2 DEF StudiesInv, LibraryFollows
<1>4. \A d \in Staged : d = s
  BY <1>2 DEF StudiesInv, LibraryFollows, Staged
<1>5. Staged = {s}
  BY <1>4
<1> QED
  BY <1>1, <1>2, <1>3, <1>5

(* What is settled stays so while the others keep their directories, or    *)
(* newer ones, and a company new to the library is of today.               *)
KeepsUp == \A d \in Others : \E e \in Others' : e.company = d.company /\ e.updated >= d.updated
NewIsOfToday == \A e \in Others' : (\E d \in Others : d.company = e.company) \/ e.updated = today

LEMMA OthersAreTyped ==
  ASSUME StudiesInv
  PROVE  \A d \in Others : d \in Folders /\ d.updated \in 1..today
<1>1. \A d \in Others : d \in library
  BY DEF Others
<1>2. \A d \in library : d \in Folders /\ d.updated <= today
  BY DEF StudiesInv, LibraryFollows
<1>3. \A d \in Folders : d.updated \in 1..LastDay
  BY DEF Folders
<1>4. today \in 1..LastDay
  BY DEF StudiesInv
<1> QED
  BY <1>1, <1>2, <1>3, <1>4, StudiesAssumption

LEMMA StillSettled ==
  ASSUME StudiesInv, today' = today, KeepsUp, NewIsOfToday, \A e \in Others' : e.updated \in Nat,
         NEW books \in [Companies -> Books], NEW c \in Companies, books[c].updated <= today,
         SettledFor(books, c)
  PROVE  SettledFor(books, c)'
<1>0. today \in Nat /\ Horizon \in Nat /\ books[c].updated \in Nat
  BY StudiesAssumption DEF StudiesInv, Books
<1>1. CASE \E d \in Others : d.company = c /\ d.updated >= books[c].updated /\ today - d.updated <= Horizon
  <2>1. PICK d \in Others : d.company = c /\ d.updated >= books[c].updated /\ today - d.updated <= Horizon
    BY <1>1
  <2>2. PICK e \in Others' : e.company = d.company /\ e.updated >= d.updated
    BY DEF KeepsUp
  <2>3. d.updated \in Nat /\ e.updated \in Nat
    BY OthersAreTyped
  <2>4. e.updated >= books[c].updated /\ today - e.updated <= Horizon
    BY <1>0, <2>1, <2>2, <2>3
  <2> QED
    BY <2>1, <2>2, <2>4 DEF SettledFor
<1>2. CASE books[c].tier # "high" /\ \A d \in Others : d.company # c
  <2>1. CASE \E e \in Others' : e.company = c
    <3>1. PICK e \in Others' : e.company = c
      BY <2>1
    <3>2. e.updated = today
      BY <1>2, <3>1 DEF NewIsOfToday
    <3>3. e.updated >= books[c].updated /\ today - e.updated <= Horizon
      BY <1>0, <3>2
    <3> QED
      BY <3>1, <3>3 DEF SettledFor
  <2>2. CASE ~\E e \in Others' : e.company = c
    BY <1>2, <2>2 DEF SettledFor
  <2> QED
    BY <2>1, <2>2
<1> QED
  BY <1>1, <1>2 DEF SettledFor

(* Relabelled directories are the same directories but for their kind.     *)
LEMMA Relabelled ==
  ASSUME NEW S \in SUBSET Folders, IsFiniteSet(S), NEW kind \in {"live", "kept", "stage"}
  PROVE  /\ As(S, kind) \subseteq Folders /\ IsFiniteSet(As(S, kind))
         /\ \A e \in As(S, kind) : e.kind = kind /\ \E d \in S : /\ e.no = d.no /\ e.company = d.company /\ e.day = d.day
                                                               /\ e.updated = d.updated /\ e.profile = d.profile
         /\ \A d \in S : \E e \in As(S, kind) : /\ e.no = d.no /\ e.company = d.company /\ e.day = d.day
                                                /\ e.updated = d.updated /\ e.profile = d.profile
<1> DEFINE f == [d \in S |-> [d EXCEPT !.kind = kind]]
<1>1. ASSUME NEW d \in S
      PROVE  /\ [d EXCEPT !.kind = kind] \in Folders
             /\ [d EXCEPT !.kind = kind].kind = kind
             /\ [d EXCEPT !.kind = kind].no = d.no
             /\ [d EXCEPT !.kind = kind].company = d.company
             /\ [d EXCEPT !.kind = kind].day = d.day
             /\ [d EXCEPT !.kind = kind].updated = d.updated
             /\ [d EXCEPT !.kind = kind].profile = d.profile
  <2>1. d \in Folders
    OBVIOUS
  <2> QED
    BY <2>1 DEF Folders
<1>2. As(S, kind) = {[d EXCEPT !.kind = kind] : d \in S}
  BY DEF As
<1>3. f \in Surjection(S, As(S, kind))
  BY <1>2 DEF Surjection
<1>4. IsFiniteSet(As(S, kind))
  <2> HIDE DEF f
  <2> QED
    BY <1>3, FS_Surjection
<1>5. \A e \in As(S, kind) : \E d \in S : e = [d EXCEPT !.kind = kind]
  BY <1>2
<1>6. \A d \in S : [d EXCEPT !.kind = kind] \in As(S, kind)
  BY <1>2
<1> HIDE DEF f
<1>7. As(S, kind) \subseteq Folders
  BY <1>1, <1>5
<1>8. ASSUME NEW e \in As(S, kind)
      PROVE  e.kind = kind /\ \E d \in S : /\ e.no = d.no /\ e.company = d.company /\ e.day = d.day
                                          /\ e.updated = d.updated /\ e.profile = d.profile
  <2>1. PICK d \in S : e = [d EXCEPT !.kind = kind]
    BY <1>5
  <2> QED
    BY <1>1, <2>1
<1>9. ASSUME NEW d \in S
      PROVE  \E e \in As(S, kind) : /\ e.no = d.no /\ e.company = d.company /\ e.day = d.day
                                   /\ e.updated = d.updated /\ e.profile = d.profile
  BY <1>1, <1>6
<1> QED
  BY <1>4, <1>7, <1>8, <1>9

LEMMA SettlingKept ==
  ASSUME StudiesInv, today' = today, KeepsUp, \A e \in Others' : e.updated \in Nat,
         past'.settled \in {0, past.settled},
         past'.settled = past.settled => accounts' = accounts,
         past.settled = today \/ (sync'.pc # "idle" /\ sync.day = today) => NewIsOfToday,
         installer'.pc # "idle" /\ past.settled = today => installer'.day = today,
         sync'.pc # "idle" => sync.pc # "idle" /\ sync'.day = sync.day /\ sync'.read = sync.read,
         sync'.pc # "idle" /\ sync.day = today =>
           \A c \in Companies : c \in sync.todo \/ (sync.pc = "wait" /\ c = installer.company) =>
             c \in sync'.todo \/ (sync'.pc = "wait" /\ c = installer'.company)
             \/ \E e \in Others' : e.company = c /\ e.updated = today
  PROVE  SettlingFollows'
<1>0. /\ today \in 1..LastDay /\ accounts \in [Companies -> Books] /\ SettlingFollows /\ BooksFollow
      /\ past.settled \in 0..LastDay /\ LastDay \in Nat /\ Horizon \in Nat
  BY StudiesAssumption DEF StudiesInv, Pasts
<1>1. past'.settled <= today'
  BY <1>0 DEF SettlingFollows
<1>2. ASSUME past'.settled = today'
      PROVE  /\ \A c \in Companies : SettledFor(accounts, c)'
             /\ sync'.pc # "idle" => sync'.day = today'
             /\ installer'.pc # "idle" => installer'.day = today'
  <2>1. past.settled = today /\ accounts' = accounts /\ NewIsOfToday
    BY <1>0, <1>2
  <2>2. /\ \A c \in Companies : SettledFor(accounts, c)
        /\ sync.pc # "idle" => sync.day = today
    BY <1>0, <2>1 DEF SettlingFollows
  <2>3. PICK books \in [Companies -> Books] : books = accounts
    BY <1>0
  <2>4. ASSUME NEW c \in Companies PROVE SettledFor(accounts, c)'
    <3>1. books[c].updated <= today /\ SettledFor(books, c)
      BY <1>0, <2>2, <2>3 DEF BooksFollow, SettledFor
    <3>2. SettledFor(books, c)'
      BY <2>1, <3>1, StillSettled
    <3> QED
      BY <2>1, <2>3, <3>2 DEF SettledFor
  <2> QED
    BY <2>1, <2>2, <2>4
<1>3. ASSUME sync'.pc # "idle", sync'.day = today', NEW c \in Companies
      PROVE  c \in sync'.todo \/ (sync'.pc = "wait" /\ c = installer'.company) \/ SettledFor(sync.read, c)'
  <2>1. sync.pc # "idle" /\ sync.day = today /\ sync'.read = sync.read /\ NewIsOfToday
    BY <1>3
  <2>2. sync.read \in [Companies -> Books]
    BY <2>1 DEF StudiesInv, SyncFollows
  <2>3. PICK books \in [Companies -> Books] : books = sync.read
    BY <2>2
  <2>4. books[c].updated <= today /\ books[c].updated \in Nat
    BY <1>0, <2>1, <2>3 DEF BooksFollow, Books
  <2>5. CASE \E e \in Others' : e.company = c /\ e.updated = today
    <3>1. PICK e \in Others' : e.company = c /\ e.updated = today
      BY <2>5
    <3>2. e.updated >= books[c].updated /\ today - e.updated <= Horizon
      BY <1>0, <2>4, <3>1
    <3>3. SettledFor(books, c)'
      BY <3>1, <3>2 DEF SettledFor
    <3> QED
      BY <2>1, <2>3, <3>3 DEF SettledFor
  <2>6. CASE SettledFor(sync.read, c)
    <3>1. SettledFor(books, c)
      BY <2>3, <2>6 DEF SettledFor
    <3>2. SettledFor(books, c)'
      BY <2>1, <2>4, <3>1, StillSettled
    <3> QED
      BY <2>1, <2>3, <3>2 DEF SettledFor
  <2>7. c \in sync.todo \/ (sync.pc = "wait" /\ c = installer.company) \/ SettledFor(sync.read, c)
    BY <1>0, <2>1 DEF SettlingFollows
  <2> QED
    BY <1>3, <2>1, <2>5, <2>6, <2>7
<1> QED
  BY <1>1, <1>2, <1>3 DEF SettlingFollows

LEMMA StillBacked ==
  ASSUME StudiesInv, accounts' = accounts,
         \A c \in Companies, day \in 1..LastDay : Backed(c, day) => Backed(c, day)',
         sync'.pc # "idle" => sync.pc # "idle" /\ sync'.day = sync.day /\ sync'.read = sync.read,
         sync'.pc # "idle" => \A c \in sync'.done : c \in sync.done \/ (c \in Companies /\ Live(c, sync.day)' # {})
  PROVE  StudiesFollow'
<1>0. /\ accounts \in [Companies -> Books] /\ sync \in Syncs /\ StudiesFollow
      /\ today \in 1..LastDay /\ LastDay \in Nat
  BY StudiesAssumption DEF StudiesInv
<1>1. ASSUME NEW c \in Companies, accounts[c].study # 0 PROVE Backed(c, accounts[c].study)'
  <2>1. accounts[c].study \in 1..LastDay
    BY <1>0, <1>1 DEF Books
  <2>2. PICK day \in 1..LastDay : day = accounts[c].study
    BY <2>1
  <2>3. Backed(c, day)
    BY <1>0, <1>1, <2>2 DEF StudiesFollow, Backed
  <2>4. Backed(c, day)'
    BY <2>3
  <2> QED
    BY <2>2, <2>4 DEF Backed
<1>2. ASSUME sync'.pc # "idle", NEW c \in Companies, sync.read[c].study # 0 PROVE Backed(c, sync.read[c].study)'
  <2>1. sync.pc # "idle" /\ sync.read \in [Companies -> Books] /\ sync'.read = sync.read
    BY <1>2 DEF StudiesInv, SyncFollows
  <2>2. sync.read[c].study \in 1..LastDay
    BY <1>0, <1>2, <2>1 DEF Books
  <2>3. PICK day \in 1..LastDay : day = sync.read[c].study
    BY <2>2
  <2>4. Backed(c, day)
    BY <1>0, <1>2, <2>1, <2>3 DEF StudiesFollow, Backed
  <2>5. Backed(c, day)'
    BY <2>4
  <2> QED
    BY <2>1, <2>3, <2>5 DEF Backed
<1>3. ASSUME sync'.pc # "idle", NEW c \in sync'.done PROVE Backed(c, sync.day)'
  <2>1. sync.pc # "idle" /\ sync'.day = sync.day /\ sync.day \in 1..today
    BY <1>3 DEF StudiesInv, SyncFollows
  <2>2. PICK day \in 1..LastDay : day = sync.day
    BY <1>0, <2>1
  <2>3. CASE c \in sync.done
    <3>1. c \in Companies /\ Backed(c, day)
      BY <1>0, <2>1, <2>2, <2>3 DEF StudiesFollow, Backed, Syncs
    <3>2. Backed(c, day)'
      BY <3>1
    <3> QED
      BY <2>1, <2>2, <3>2 DEF Backed
  <2>4. CASE c \notin sync.done
    <3>1. Live(c, sync.day)' # {}
      BY <1>3, <2>4
    <3> QED
      BY <3>1 DEF Backed
  <2> QED
    BY <2>3, <2>4
<1>4. sync'.pc # "idle" => sync'.read = sync.read
  OBVIOUS
<1> QED
  BY <1>1, <1>2, <1>3, <1>4 DEF StudiesFollow

LEMMA Fields ==
  ASSUME StudiesInv
  PROVE  /\ past.dirs \in 0..MaxDirs /\ past.owed \subseteq 1..MaxDirs /\ past.writes \in 0..MaxWrites
         /\ past.cut \in BOOLEAN /\ past.settled \in 0..LastDay
         /\ today \in 1..LastDay /\ today \in Nat /\ LastDay \in Nat /\ MaxDirs \in Nat /\ MaxWrites \in Nat
         /\ Horizon \in Nat /\ IsFiniteSet(library)
         /\ \A d \in library : /\ d \in Folders /\ d.no \in 1..past.dirs /\ d.updated \in 1..today
                              /\ d.company \in Companies /\ d.day \in 1..LastDay
         /\ sync.pc \in {"idle", "apply", "wait"} /\ installer.pc \in {"idle", "staged", "cleared"}
<1>1. past \in Pasts /\ today \in 1..LastDay /\ LibraryFollows /\ library \subseteq Folders /\ sync \in Syncs
      /\ installer \in Installers
  BY DEF StudiesInv
<1>2. LastDay \in Nat /\ MaxDirs \in Nat /\ MaxWrites \in Nat /\ Horizon \in Nat
  BY StudiesAssumption
<1>3. /\ past.dirs \in 0..MaxDirs /\ past.owed \subseteq 1..MaxDirs /\ past.writes \in 0..MaxWrites
      /\ past.cut \in BOOLEAN /\ past.settled \in 0..LastDay
  BY <1>1 DEF Pasts
<1>4. \A d \in library : d \in Folders /\ d.no <= past.dirs /\ d.updated <= today
  BY <1>1 DEF LibraryFollows
<1>5. \A d \in Folders : d.no \in 1..MaxDirs /\ d.updated \in 1..LastDay /\ d.company \in Companies /\ d.day \in 1..LastDay
  BY DEF Folders
<1>6. ASSUME NEW d \in library PROVE d.no \in 1..past.dirs /\ d.updated \in 1..today
  BY <1>1, <1>2, <1>3, <1>4, <1>5
<1>7. IsFiniteSet(library)
  BY <1>1 DEF LibraryFollows
<1>8. sync.pc \in {"idle", "apply", "wait"} /\ installer.pc \in {"idle", "staged", "cleared"}
  BY <1>1 DEF Syncs, Installers
<1> QED
  BY <1>1, <1>2, <1>3, <1>4, <1>5, <1>6, <1>7, <1>8

(* A stage is new, and what else was there is as it was.                   *)
LEMMA Built ==
  ASSUME StudiesInv, NEW c \in Companies, NEW day \in 1..today, NEW force \in BOOLEAN,
         BuildStudy(c, day, force), today' = today
  PROVE  /\ installer.pc = "idle" /\ library' \subseteq Folders /\ installer' \in Installers /\ past' \in Pasts
         /\ installer'.pc = "staged" /\ installer'.day = day /\ installer'.company = c
         /\ past'.settled = past.settled /\ LibraryFollows' /\ InstallerFollows' /\ FinishedWorkIsKept'
         /\ KeepsUp /\ NewIsOfToday /\ \A e \in Others' : e.updated \in Nat
         /\ \A b \in Companies, at \in 1..LastDay : Backed(b, at) => Backed(b, at)'
<1>0. /\ installer = NoInstall /\ past.dirs < MaxDirs
      /\ library' = library \cup {Blank(c, day, "stage")}
      /\ installer' = [pc |-> "staged", company |-> c, day |-> day, force |-> force]
      /\ past' = [past EXCEPT !.dirs = @ + 1]
  BY DEF BuildStudy
<1>t. /\ past.dirs \in 0..MaxDirs /\ today \in 1..LastDay /\ LastDay \in Nat /\ MaxDirs \in Nat
      /\ day \in 1..LastDay
  BY Fields
<1>1. installer.pc = "idle"
  BY <1>0, NobodyAtWork
<1>2. PICK n \in 1..MaxDirs : n = past.dirs + 1
  BY <1>0, <1>t
<1>3. PICK s \in Folders : /\ s = Blank(c, day, "stage")
                           /\ s.no = n /\ s.company = c /\ s.day = day /\ s.kind = "stage"
                           /\ s.updated = day /\ s.profile = "blank"
  <2>1. Blank(c, day, "stage") =
        [no |-> n, company |-> c, day |-> day, kind |-> "stage", updated |-> day, profile |-> "blank"]
    BY <1>2 DEF Blank
  <2>2. Blank(c, day, "stage") \in Folders
    BY <1>t, <2>1 DEF Folders
  <2> QED
    BY <2>1, <2>2
<1>4. library' = library \cup {s}
  BY <1>0, <1>3
<1>5. past \in Pasts /\ past' = [past EXCEPT !.dirs = n]
  BY <1>0, <1>2 DEF StudiesInv
<1>6. /\ past' \in Pasts /\ past'.dirs = n /\ past'.owed = past.owed /\ past'.cut = past.cut
      /\ past'.settled = past.settled
  <2>1. n \in 0..MaxDirs
    BY <1>t
  <2> QED
    BY <1>5, <2>1 DEF Pasts
<1>7. library' \subseteq Folders
  BY <1>3, <1>4 DEF StudiesInv
<1>8. day \in 0..LastDay
  BY <1>t
<1>9. /\ installer' \in Installers /\ installer'.pc = "staged" /\ installer'.day = day /\ installer'.company = c
  BY <1>0, <1>8 DEF Installers
<1>10. \A d \in library : d.no \in 1..past.dirs /\ d.no # n
  <2>1. \A d \in library : d.no \in 1..past.dirs
    BY Fields
  <2> QED
    BY <1>2, <1>t, <2>1
<1>11. Staged' = {s} /\ s \notin library
  BY <1>3, <1>4, <1>6, <1>10 DEF Staged
<1>12. Others' = library /\ Others = library
  BY <1>1, <1>4, <1>9, <1>11 DEF Others
<1>13. LibraryFollows'
  <2>1. IsFiniteSet(library')
    BY <1>4, Fields, FS_AddElement
  <2>2. \A d \in library : d.no <= n /\ d.updated <= today
    BY Fields, <1>2, <1>t
  <2>3. \A d \in library : d.kind = "stage" => d.updated = d.day /\ d.profile # "usable"
    BY DEF StudiesInv, LibraryFollows
  <2>4. s.no <= n /\ s.updated <= today
    BY <1>3, <1>t
  <2>5. \A d \in library' : /\ d.no <= past'.dirs /\ d.updated <= today'
                            /\ d.kind = "stage" => d.updated = d.day /\ d.profile # "usable"
    BY <1>3, <1>4, <1>6, <2>2, <2>3, <2>4
  <2>6. \A d, e \in library : d.no = e.no => d = e
    BY DEF StudiesInv, LibraryFollows
  <2>7. \A d, e \in library' : d.no = e.no => d = e
    BY <1>3, <1>4, <1>10, <2>6
  <2> QED
    BY <2>1, <2>5, <2>7 DEF LibraryFollows
<1>14. InstallerFollows'
  <2>1. s \in Staged' /\ s.company = c /\ s.day = day
    BY <1>3, <1>11
  <2> QED
    BY <1>9, <2>1 DEF InstallerFollows
<1>15. FinishedWorkIsKept'
  BY <1>4, <1>6 DEF StudiesInv, FinishedWorkIsKept
<1>16. KeepsUp /\ NewIsOfToday
  <2>1. \A d \in library : d.updated >= d.updated
    BY Fields
  <2> QED
    BY <1>12, <2>1 DEF KeepsUp, NewIsOfToday
<1>17. \A e \in Others' : e.updated \in Nat
  BY <1>12, Fields
<1>18. \A b \in Companies, at \in 1..LastDay : Backed(b, at) => Backed(b, at)'
  <2>1. \A b \in Companies, at \in 1..LastDay : Live(b, at) # {} => Live(b, at)' # {}
    BY <1>4 DEF Live
  <2> QED
    BY <1>1, <1>6, <2>1 DEF Backed
<1> QED
  BY <1>1, <1>6, <1>7, <1>9, <1>13, <1>14, <1>15, <1>16, <1>17, <1>18

LEMMA InitStudyKeeps ==
  ASSUME StudiesInv, NEW c \in Companies, NEW force \in BOOLEAN, InitStudy(c, force)
  PROVE  StudiesInv'
<1>0. /\ sync = NoSync /\ BuildStudy(c, today, force)
      /\ today' = today /\ accounts' = accounts /\ sync' = sync /\ rollup' = rollup
  BY DEF InitStudy
<1>1. today \in 1..today
  BY Fields
<1>2. /\ installer.pc = "idle" /\ library' \subseteq Folders /\ installer' \in Installers /\ past' \in Pasts
      /\ installer'.pc = "staged" /\ installer'.day = today /\ installer'.company = c
      /\ past'.settled = past.settled /\ LibraryFollows' /\ InstallerFollows' /\ FinishedWorkIsKept'
      /\ KeepsUp /\ NewIsOfToday /\ \A e \in Others' : e.updated \in Nat
      /\ \A b \in Companies, at \in 1..LastDay : Backed(b, at) => Backed(b, at)'
  BY <1>0, <1>1, Built
<1>3. sync.pc = "idle"
  BY <1>0, NobodyAtWork
<1>4. SettlingFollows'
  BY <1>0, <1>2, <1>3, SettlingKept
<1>5. StudiesFollow'
  BY <1>0, <1>2, <1>3, StillBacked
<1>6. SyncFollows' /\ BooksFollow'
  BY <1>0, <1>3 DEF StudiesInv, SyncFollows, BooksFollow
<1> QED
  BY <1>0, <1>2, <1>4, <1>5, <1>6 DEF StudiesInv

LEMMA SyncApplyKeeps ==
  ASSUME StudiesInv, NEW c \in Companies, SyncApply(c)
  PROVE  StudiesInv'
<1>0. /\ sync.pc = "apply" /\ c \in sync.todo
      /\ BuildStudy(c, sync.day, Live(c, sync.day) # {})
      /\ sync' = [sync EXCEPT !.pc = "wait", !.todo = @ \ {c}]
      /\ today' = today /\ accounts' = accounts /\ rollup' = rollup
  BY DEF SyncApply
<1>1. sync.day \in 1..today /\ sync.read \in [Companies -> Books] /\ sync \in Syncs
  BY <1>0 DEF StudiesInv, SyncFollows
<1>2. PICK day \in 1..today, force \in BOOLEAN : day = sync.day /\ force = (Live(c, sync.day) # {})
  BY <1>1
<1>3. BuildStudy(c, day, force)
  BY <1>0, <1>2
<1>4. /\ installer.pc = "idle" /\ library' \subseteq Folders /\ installer' \in Installers /\ past' \in Pasts
      /\ installer'.pc = "staged" /\ installer'.day = day /\ installer'.company = c
      /\ past'.settled = past.settled /\ LibraryFollows' /\ InstallerFollows' /\ FinishedWorkIsKept'
      /\ KeepsUp /\ NewIsOfToday /\ \A e \in Others' : e.updated \in Nat
      /\ \A b \in Companies, at \in 1..LastDay : Backed(b, at) => Backed(b, at)'
  BY <1>0, <1>3, Built
<1>5. PICK left \in SUBSET Companies : left = sync.todo \ {c}
  BY <1>1 DEF Syncs
<1>6. sync' = [sync EXCEPT !.pc = "wait", !.todo = left]
  BY <1>0, <1>5
<1>7. /\ sync' \in Syncs /\ sync'.pc = "wait" /\ sync'.todo = left /\ sync'.read = sync.read
      /\ sync'.done = sync.done /\ sync'.day = sync.day
  BY <1>1, <1>6 DEF Syncs
<1>8. past.settled = today => sync.day = today
  BY <1>0 DEF StudiesInv, SettlingFollows
<1>9. \A b \in Companies : b \in sync.todo => b \in sync'.todo \/ b = installer'.company
  BY <1>4, <1>5, <1>7
<1>10. SettlingFollows'
  BY <1>0, <1>2, <1>4, <1>7, <1>8, <1>9, SettlingKept
<1>11. StudiesFollow'
  BY <1>0, <1>4, <1>7, StillBacked
<1>12. SyncFollows' /\ BooksFollow'
  BY <1>0, <1>1, <1>2, <1>4, <1>7 DEF StudiesInv, SyncFollows, BooksFollow
<1> QED
  BY <1>0, <1>4, <1>7, <1>10, <1>11, <1>12 DEF StudiesInv

LEMMA RefuseStageKeeps ==
  ASSUME StudiesInv, RefuseStage
  PROVE  StudiesInv'
<1>0. /\ installer.pc = "staged" /\ library' = library \ Staged /\ installer' = NoInstall /\ sync' = NoSync
      /\ today' = today /\ accounts' = accounts /\ rollup' = rollup /\ past' = past
  BY DEF RefuseStage
<1>1. /\ installer' \in Installers /\ installer'.pc = "idle" /\ sync' \in Syncs /\ sync'.pc = "idle"
  BY <1>0, NobodyAtWork
<1>2. Others' = library \ Staged /\ Others = library \ Staged
  BY <1>0, <1>1 DEF Others
<1>3. LibraryFollows'
  <2>1. IsFiniteSet(library')
    BY <1>0, Fields, FS_Subset
  <2> QED
    BY <1>0, <2>1 DEF StudiesInv, LibraryFollows
<1>4. FinishedWorkIsKept'
  <2>1. \A d \in Staged : d.profile # "usable"
    BY DEF StudiesInv, LibraryFollows, Staged
  <2> QED
    BY <1>0, <2>1 DEF StudiesInv, FinishedWorkIsKept
<1>5. KeepsUp /\ NewIsOfToday /\ \A e \in Others' : e.updated \in Nat
  <2>1. \A d \in library : d.updated >= d.updated /\ d.updated \in Nat
    BY Fields
  <2> QED
    BY <1>2, <2>1 DEF KeepsUp, NewIsOfToday
<1>6. \A b \in Companies, at \in 1..LastDay : Backed(b, at) => Backed(b, at)'
  <2>1. \A b \in Companies, at \in 1..LastDay : Live(b, at)' = Live(b, at)
    BY <1>0 DEF Live, Staged
  <2> QED
    BY <1>0, <2>1 DEF Backed
<1>7. SettlingFollows'
  BY <1>0, <1>1, <1>5, SettlingKept
<1>8. StudiesFollow'
  BY <1>0, <1>1, <1>6, StillBacked
<1>9. SyncFollows' /\ BooksFollow' /\ InstallerFollows'
  BY <1>0, <1>1 DEF StudiesInv, SyncFollows, BooksFollow, InstallerFollows
<1> QED
  BY <1>0, <1>1, <1>3, <1>4, <1>7, <1>8, <1>9 DEF StudiesInv

LEMMA InstallerKilledKeeps ==
  ASSUME StudiesInv, InstallerKilled
  PROVE  StudiesInv'
<1>0. /\ installer' = NoInstall /\ sync' = NoSync /\ past' = [past EXCEPT !.cut = TRUE]
      /\ today' = today /\ accounts' = accounts /\ library' = library /\ rollup' = rollup
  BY DEF InstallerKilled
<1>1. /\ installer' \in Installers /\ installer'.pc = "idle" /\ sync' \in Syncs /\ sync'.pc = "idle"
  BY <1>0, NobodyAtWork
<1>2. /\ past' \in Pasts /\ past'.cut = TRUE /\ past'.dirs = past.dirs /\ past'.owed = past.owed
      /\ past'.settled = past.settled
  BY <1>0 DEF StudiesInv, Pasts
<1>3. Others' = library
  BY <1>0, <1>1 DEF Others
<1>4. LibraryFollows' /\ FinishedWorkIsKept'
  BY <1>0, <1>2 DEF StudiesInv, LibraryFollows, FinishedWorkIsKept
<1>5. KeepsUp /\ \A e \in Others' : e.updated \in Nat
  <2>1. \A d \in library : d.updated >= d.updated /\ d.updated \in Nat
    BY Fields
  <2> QED
    BY <1>3, <2>1 DEF KeepsUp, Others
<1>6. ASSUME past.settled = today PROVE NewIsOfToday
  <2>1. CASE installer.pc = "idle"
    BY <1>3, <2>1 DEF NewIsOfToday, Others
  <2>2. CASE installer.pc # "idle"
    <3>1. installer.day = today
      BY <1>6, <2>2 DEF StudiesInv, SettlingFollows
    <3>2. PICK s \in library : Staged = {s} /\ s.updated = installer.day
      BY <2>2, StagedIs
    <3>3. Others = library \ {s}
      BY <2>2, <3>2 DEF Others
    <3> QED
      BY <1>3, <3>1, <3>2, <3>3 DEF NewIsOfToday
  <2> QED
    BY <2>1, <2>2
<1>7. SettlingFollows'
  BY <1>0, <1>1, <1>2, <1>5, <1>6, SettlingKept
<1>8. StudiesFollow'
  <2>1. \A b \in Companies, at \in 1..LastDay : Backed(b, at)'
    BY <1>2 DEF Backed
  <2> QED
    BY <1>0, <1>1, <2>1, StillBacked
<1>9. SyncFollows' /\ BooksFollow' /\ InstallerFollows'
  BY <1>0, <1>1 DEF StudiesInv, SyncFollows, BooksFollow, InstallerFollows
<1> QED
  BY <1>0, <1>1, <1>2, <1>4, <1>7, <1>8, <1>9 DEF StudiesInv

LEMMA KeepBackupKeeps ==
  ASSUME StudiesInv, KeepBackup
  PROVE  StudiesInv'
<1> DEFINE old == Live(installer.company, installer.day)
<1>0. /\ installer.pc = "staged" /\ library' = (library \ old) \cup As(old, "kept")
      /\ installer' = [installer EXCEPT !.pc = "cleared"]
      /\ today' = today /\ accounts' = accounts /\ sync' = sync /\ rollup' = rollup /\ past' = past
  BY DEF KeepBackup, Replaced
<1>1. old \in SUBSET Folders /\ IsFiniteSet(old) /\ old \subseteq library
  BY Fields, FS_Subset DEF Live
<1>2. PICK kept \in SUBSET Folders : kept = As(old, "kept")
  BY <1>1, Relabelled
<1>3. /\ IsFiniteSet(kept)
      /\ \A e \in kept : e.kind = "kept" /\ \E d \in old : /\ e.no = d.no /\ e.company = d.company /\ e.day = d.day
                                                       /\ e.updated = d.updated /\ e.profile = d.profile
      /\ \A d \in old : \E e \in kept : /\ e.no = d.no /\ e.company = d.company /\ e.day = d.day
                                      /\ e.updated = d.updated /\ e.profile = d.profile
  <2> HIDE DEF old
  <2> QED
    BY <1>1, <1>2, Relabelled
<1>4. PICK was \in SUBSET library : was = old
  BY <1>1
<1>5. /\ \A d \in was : d.kind = "live" /\ d.company = installer.company /\ d.day = installer.day
      /\ \A d \in library : d.kind = "live" /\ d.company = installer.company /\ d.day = installer.day => d \in was
  BY <1>4 DEF Live
<1>6. library' = (library \ was) \cup kept
  BY <1>0, <1>2, <1>4
<1>7. /\ IsFiniteSet(kept)
      /\ \A e \in kept : e.kind = "kept" /\ \E d \in was : /\ e.no = d.no /\ e.company = d.company /\ e.day = d.day
                                                       /\ e.updated = d.updated /\ e.profile = d.profile
      /\ \A d \in was : \E e \in kept : /\ e.no = d.no /\ e.company = d.company /\ e.day = d.day
                                      /\ e.updated = d.updated /\ e.profile = d.profile
  BY <1>3, <1>4
<1> HIDE DEF old
<1>8. /\ installer' \in Installers /\ installer'.pc = "cleared" /\ installer'.company = installer.company
      /\ installer'.day = installer.day
  BY <1>0 DEF StudiesInv, Installers
<1>9. library' \subseteq Folders
  BY <1>6, Fields
<1>10. \A e \in kept, f \in kept : e.no = f.no => e = f
  <2>1. ASSUME NEW e \in kept, NEW f \in kept, e.no = f.no PROVE e = f
    <3>1. PICK d \in was : /\ e.no = d.no /\ e.company = d.company /\ e.day = d.day
                           /\ e.updated = d.updated /\ e.profile = d.profile
      BY <1>7
    <3>2. PICK c \in was : /\ f.no = c.no /\ f.company = c.company /\ f.day = c.day
                           /\ f.updated = c.updated /\ f.profile = c.profile
      BY <1>7
    <3>3. c = d
      BY <2>1, <3>1, <3>2 DEF StudiesInv, LibraryFollows
    <3>4. e.kind = f.kind
      BY <1>7
    <3> QED
      BY <3>1, <3>2, <3>3, <3>4 DEF Folders
  <2> QED
    BY <2>1
<1>11. LibraryFollows'
  <2>1. IsFiniteSet(library')
    BY <1>6, <1>7, Fields, FS_Subset, FS_Union
  <2>2. \A d \in library : /\ d.no <= past.dirs /\ d.updated <= today
                           /\ d.kind = "stage" => d.updated = d.day /\ d.profile # "usable"
    BY DEF StudiesInv, LibraryFollows
  <2>3. \A d \in kept : d.no <= past.dirs /\ d.updated <= today /\ d.kind # "stage"
    BY <1>7, <2>2
  <2>4. \A d \in library' : /\ d.no <= past'.dirs /\ d.updated <= today'
                            /\ d.kind = "stage" => d.updated = d.day /\ d.profile # "usable"
    BY <1>0, <1>6, <2>2, <2>3
  <2>5. \A d, e \in library : d.no = e.no => d = e
    BY DEF StudiesInv, LibraryFollows
  <2>6. \A d \in library \ was, e \in kept : d.no # e.no
    BY <1>7, <2>5
  <2>7. \A d, e \in library' : d.no = e.no => d = e
    BY <1>6, <1>10, <2>5, <2>6
  <2> QED
    BY <2>1, <2>4, <2>7 DEF LibraryFollows
<1>12. Staged' = Staged
  <2>1. \A d \in was : d.kind # "stage"
    BY <1>5
  <2>2. \A d \in kept : d.kind # "stage"
    BY <1>7
  <2> QED
    BY <1>0, <1>6, <2>1, <2>2 DEF Staged
<1>13. InstallerFollows'
  BY <1>0, <1>8, <1>12 DEF StudiesInv, InstallerFollows
<1>14. Others' = library' \ Staged /\ Others = library \ Staged
  BY <1>0, <1>8, <1>12 DEF Others
<1>15. \A d \in was : d \notin Staged
  BY <1>5 DEF Staged
<1>16. \A d \in kept : d \notin Staged
  BY <1>7 DEF Staged
<1>17. \A e \in library' : e.updated \in Nat
  BY <1>9 DEF Folders
<1>18. KeepsUp
  <2>1. ASSUME NEW d \in Others PROVE \E e \in Others' : e.company = d.company /\ e.updated >= d.updated
    <3>1. d \in library /\ d \notin Staged /\ d.updated >= d.updated
      BY <1>14, Fields
    <3>2. CASE d \in was
      <4>1. PICK e \in kept : e.company = d.company /\ e.updated = d.updated
        BY <1>7, <3>2
      <4>2. e \in Others'
        BY <1>6, <1>14, <1>16
      <4> QED
        BY <3>1, <4>1, <4>2
    <3>3. CASE d \notin was
      BY <1>6, <1>14, <3>1, <3>3
    <3> QED
      BY <3>2, <3>3
  <2> QED
    BY <2>1 DEF KeepsUp
<1>19. NewIsOfToday
  <2>1. \A e \in Others' : \E d \in Others : d.company = e.company
    BY <1>6, <1>7, <1>14, <1>15
  <2> QED
    BY <2>1 DEF NewIsOfToday
<1>20. \A e \in Others' : e.updated \in Nat
  BY <1>14, <1>17
<1>21. SettlingFollows'
  <2>1. past.settled = today => installer.day = today
    BY <1>0 DEF StudiesInv, SettlingFollows
  <2> QED
    BY <1>0, <1>8, <1>18, <1>19, <1>20, <2>1, SettlingKept
<1>22. \A b \in Companies, at \in 1..LastDay : Backed(b, at) => Backed(b, at)'
  <2>1. ASSUME NEW b \in Companies, NEW at \in 1..LastDay, Backed(b, at) PROVE Backed(b, at)'
    <3>1. CASE b = installer.company /\ at = installer.day
      BY <1>8, <3>1 DEF Backed
    <3>2. CASE ~(b = installer.company /\ at = installer.day)
      <4>1. \A d \in Live(b, at) : d \notin was
        BY <1>5, <3>2 DEF Live
      <4>2. Live(b, at) \subseteq Live(b, at)'
        BY <1>6, <4>1 DEF Live
      <4> QED
        BY <1>0, <2>1, <4>2 DEF Backed
    <3> QED
      BY <3>1, <3>2
  <2> QED
    BY <2>1
<1>23. StudiesFollow'
  BY <1>0, <1>22, StillBacked
<1>24. SyncFollows' /\ BooksFollow'
  BY <1>0, <1>8 DEF StudiesInv, SyncFollows, BooksFollow
<1>25. FinishedWorkIsKept'
  <2>1. \A n \in past.owed : \E d \in library : d.no = n /\ d.profile = "usable"
    BY DEF StudiesInv, FinishedWorkIsKept
  <2>2. \A n \in past.owed : \E d \in library' : d.no = n /\ d.profile = "usable"
    BY <1>6, <1>7, <2>1
  <2> QED
    BY <1>0, <2>2 DEF FinishedWorkIsKept
<1> QED
  BY <1>0, <1>8, <1>9, <1>11, <1>13, <1>21, <1>23, <1>24, <1>25 DEF StudiesInv

LEMMA InstallStageKeeps ==
  ASSUME StudiesInv, InstallStage
  PROVE  StudiesInv'
<1>0. /\ installer.pc # "idle" /\ library' = (library \ Staged) \cup As(Staged, "live")
      /\ Live(installer.company, installer.day) = {}
      /\ sync' = IF sync.pc = "wait" THEN [sync EXCEPT !.pc = "apply", !.done = @ \cup {installer.company}] ELSE sync
      /\ installer' = NoInstall
      /\ today' = today /\ accounts' = accounts /\ rollup' = rollup /\ past' = past
  BY DEF InstallStage
<1>1. PICK s \in library : /\ Staged = {s} /\ s.kind = "stage" /\ s.no = past.dirs /\ s.profile # "usable"
                           /\ s.company = installer.company /\ s.day = installer.day /\ s.updated = installer.day
  BY <1>0, StagedIs
<1>2. /\ s \in Folders /\ {s} \in SUBSET Folders /\ IsFiniteSet({s})
      /\ s.no \in 1..past.dirs /\ s.updated \in 1..today /\ s.company \in Companies /\ s.day \in 1..LastDay
  BY Fields, FS_Singleton
<1>3. PICK live \in SUBSET Folders : live = As({s}, "live")
  BY <1>2, Relabelled
<1>4. /\ IsFiniteSet(live)
      /\ \A e \in live : /\ e.kind = "live" /\ e.no = s.no /\ e.company = s.company /\ e.day = s.day
                         /\ e.updated = s.updated /\ e.profile = s.profile
      /\ \E e \in live : e.no = s.no
  <2>1. /\ IsFiniteSet(As({s}, "live"))
        /\ \A e \in As({s}, "live") :
             e.kind = "live" /\ \E d \in {s} : /\ e.no = d.no /\ e.company = d.company /\ e.day = d.day
                                              /\ e.updated = d.updated /\ e.profile = d.profile
        /\ \A d \in {s} : \E e \in As({s}, "live") :
             /\ e.no = d.no /\ e.company = d.company /\ e.day = d.day
             /\ e.updated = d.updated /\ e.profile = d.profile
    BY <1>2, Relabelled
  <2> QED
    BY <1>3, <2>1
<1>5. library' = (library \ {s}) \cup live
  BY <1>0, <1>1, <1>3
<1>6. PICK new \in live : new \in library'
  BY <1>4, <1>5
<1>7. /\ installer' \in Installers /\ installer'.pc = "idle"
  BY <1>0, NobodyAtWork
<1>8. /\ sync.pc # "idle" => /\ sync.pc = "wait" /\ installer.day = sync.day /\ sync.day \in 1..today
                             /\ sync.read \in [Companies -> Books]
      /\ sync \in Syncs
  BY <1>0, Fields DEF StudiesInv, SyncFollows
<1>11. /\ sync' \in Syncs /\ sync'.pc \in {"idle", "apply"}
       /\ sync'.pc # "idle" => /\ sync.pc = "wait" /\ sync'.read = sync.read /\ sync'.day = sync.day
                               /\ sync'.todo = sync.todo /\ sync'.done = sync.done \cup {installer.company}
  <2>1. CASE sync.pc = "idle"
    BY <1>0, <1>8, <2>1
  <2>2. CASE sync.pc = "wait"
    <3>1. PICK done \in SUBSET Companies : done = sync.done \cup {installer.company}
      BY <1>1, <1>2, <1>8 DEF Syncs
    <3>2. sync' = [sync EXCEPT !.pc = "apply", !.done = done]
      BY <1>0, <2>2, <3>1
    <3>3. /\ sync' \in Syncs /\ sync'.pc = "apply" /\ sync'.read = sync.read /\ sync'.day = sync.day
          /\ sync'.todo = sync.todo /\ sync'.done = done
      BY <1>8, <3>2 DEF Syncs
    <3> QED
      BY <2>2, <3>1, <3>3
  <2> QED
    BY <1>8, <2>1, <2>2
<1>12. LibraryFollows'
  <2>1. IsFiniteSet(library')
    BY <1>4, <1>5, Fields, FS_Subset, FS_Union
  <2>2. \A d \in library : /\ d.no <= past.dirs /\ d.updated <= today
                           /\ d.kind = "stage" => d.updated = d.day /\ d.profile # "usable"
    BY DEF StudiesInv, LibraryFollows
  <2>3. \A d \in live : d.no <= past.dirs /\ d.updated <= today /\ d.kind # "stage"
    BY <1>4, <2>2
  <2>4. \A d \in library' : /\ d.no <= past'.dirs /\ d.updated <= today'
                            /\ d.kind = "stage" => d.updated = d.day /\ d.profile # "usable"
    BY <1>0, <1>5, <2>2, <2>3
  <2>5. \A d, e \in library : d.no = e.no => d = e
    BY DEF StudiesInv, LibraryFollows
  <2>6. \A d \in library \ {s}, e \in live : d.no # e.no
    BY <1>4, <2>5
  <2>7. \A d, e \in live : d = e
    BY <1>4 DEF Folders
  <2>8. \A d, e \in library' : d.no = e.no => d = e
    BY <1>5, <2>5, <2>6, <2>7
  <2> QED
    BY <2>1, <2>4, <2>8 DEF LibraryFollows
<1>13. Others' = library' /\ Others = library \ {s}
  BY <1>0, <1>1, <1>7 DEF Others
<1>14. KeepsUp /\ \A e \in Others' : e.updated \in Nat
  <2>1. \A d \in library : d.updated >= d.updated /\ d.updated \in Nat
    BY Fields
  <2>2. s.updated \in Nat
    BY <1>2
  <2> QED
    BY <1>4, <1>5, <1>13, <2>1, <2>2 DEF KeepsUp
<1>15. past.settled = today => installer.day = today
  BY <1>0 DEF StudiesInv, SettlingFollows
<1>16. past.settled = today \/ (sync'.pc # "idle" /\ sync.day = today) => s.updated = today
  BY <1>1, <1>8, <1>11, <1>15
<1>17. past.settled = today \/ (sync'.pc # "idle" /\ sync.day = today) => NewIsOfToday
  BY <1>4, <1>5, <1>13, <1>16 DEF NewIsOfToday
<1>18. SettlingFollows'
  <2>1. ASSUME sync'.pc # "idle", sync.day = today, NEW c \in Companies, c \in sync.todo \/ c = installer.company
        PROVE  c \in sync'.todo \/ \E e \in Others' : e.company = c /\ e.updated = today
    <3>1. new.company = installer.company /\ new.updated = today
      BY <1>1, <1>4, <1>16, <2>1
    <3> QED
      BY <1>6, <1>11, <1>13, <2>1, <3>1
  <2> QED
    BY <1>0, <1>7, <1>11, <1>14, <1>17, <2>1, SettlingKept
<1>20. \A b \in Companies, at \in 1..LastDay : b = installer.company /\ at = installer.day => Live(b, at)' # {}
  BY <1>1, <1>4, <1>6 DEF Live
<1>21. \A b \in Companies, at \in 1..LastDay : Backed(b, at) => Backed(b, at)'
  <2>1. \A b \in Companies, at \in 1..LastDay : Live(b, at) \subseteq Live(b, at)'
    BY <1>1, <1>5 DEF Live
  <2> QED
    BY <1>0, <1>20, <2>1 DEF Backed
<1>22. StudiesFollow'
  <2>1. ASSUME sync'.pc # "idle", NEW c \in sync'.done, c \notin sync.done
        PROVE  c \in Companies /\ Live(c, sync.day)' # {}
    <3>1. c = installer.company /\ c \in Companies /\ sync.day = installer.day /\ sync'.day = sync.day
      BY <1>1, <1>2, <1>8, <1>11, <2>1
    <3>2. PICK at \in 1..LastDay : at = installer.day
      BY <1>1, <1>2
    <3>3. Live(c, at)' # {}
      BY <1>20, <3>1, <3>2
    <3> QED
      BY <3>1, <3>2, <3>3 DEF Live
  <2> QED
    BY <1>0, <1>11, <1>21, <2>1, StillBacked
<1>23. SyncFollows' /\ BooksFollow' /\ InstallerFollows'
  BY <1>0, <1>7, <1>8, <1>11 DEF StudiesInv, SyncFollows, BooksFollow, InstallerFollows
<1>24. FinishedWorkIsKept'
  BY <1>0, <1>1, <1>5 DEF StudiesInv, FinishedWorkIsKept
<1>25. library' \subseteq Folders
  BY <1>5, Fields
<1> QED
  BY <1>0, <1>7, <1>11, <1>12, <1>18, <1>22, <1>23, <1>24, <1>25 DEF StudiesInv

(* A profile written again leaves the directory where it was.              *)
LEMMA RewriteKeeps ==
  ASSUME StudiesInv, NEW d \in library, NEW e \in Folders, NEW owed \in SUBSET (1..MaxDirs), NEW writes \in 0..MaxWrites,
         e.no = d.no, e.company = d.company, e.day = d.day, e.kind = d.kind, e.updated \in {d.updated, today},
         d.kind = "stage" => e.updated = d.updated /\ e.profile # "usable",
         library' = (library \ {d}) \cup {e},
         past' = [past EXCEPT !.owed = owed, !.writes = writes],
         d.no \in owed => e.profile = "usable", owed \subseteq past.owed \cup {d.no},
         UNCHANGED <<today, accounts, installer, sync, rollup>>
  PROVE  StudiesInv'
<1>0. today' = today /\ accounts' = accounts /\ installer' = installer /\ sync' = sync /\ rollup' = rollup
  OBVIOUS
<1>1. /\ past' \in Pasts /\ past'.dirs = past.dirs /\ past'.owed = owed /\ past'.cut = past.cut
      /\ past'.settled = past.settled
  BY DEF StudiesInv, Pasts
<1>2. /\ d.updated \in 1..today /\ today \in Nat /\ e.updated \in 1..today /\ e.updated >= d.updated /\ e.updated \in Nat
  <2>1. d.updated \in 1..today /\ today \in 1..LastDay
    BY Fields
  <2>2. CASE e.updated = d.updated
    BY <2>1, <2>2
  <2>3. CASE e.updated = today
    BY <2>1, <2>3
  <2> QED
    BY <2>2, <2>3
<1>3. library' \subseteq Folders
  BY Fields
<1>4. LibraryFollows'
  <2>1. IsFiniteSet(library')
    BY Fields, FS_Subset, FS_AddElement
  <2>2. \A c \in library : /\ c.no <= past.dirs /\ c.updated <= today
                           /\ c.kind = "stage" => c.updated = c.day /\ c.profile # "usable"
    BY DEF StudiesInv, LibraryFollows
  <2>3. e.no <= past.dirs /\ e.updated <= today
    BY <1>2, <2>2
  <2>4. e.kind = "stage" => e.updated = e.day /\ e.profile # "usable"
    BY <2>2
  <2>5. \A c \in library' : /\ c.no <= past'.dirs /\ c.updated <= today'
                            /\ c.kind = "stage" => c.updated = c.day /\ c.profile # "usable"
    BY <1>0, <1>1, <2>2, <2>3, <2>4
  <2>6. \A b, c \in library : b.no = c.no => b = c
    BY DEF StudiesInv, LibraryFollows
  <2>7. \A b, c \in library' : b.no = c.no => b = c
    BY <2>6
  <2> QED
    BY <2>1, <2>5, <2>7 DEF LibraryFollows
<1>5. d \in Staged <=> e \in Staged'
  BY <1>1 DEF Staged
<1>7. \A c \in library : c # d => (c \in Staged <=> c \in Staged')
  BY <1>1 DEF Staged
<1>8. e \in library' /\ \A c \in library' : c = e \/ (c \in library /\ c # d)
  OBVIOUS
<1>9. InstallerFollows'
  <2>1. ASSUME installer.pc # "idle"
        PROVE  \E s \in Staged' : s.company = installer.company /\ s.day = installer.day
    <3>1. PICK s \in Staged : s.company = installer.company /\ s.day = installer.day
      BY <2>1 DEF StudiesInv, InstallerFollows
    <3>2. s \in library
      BY DEF Staged
    <3>3. CASE s = d
      BY <1>5, <3>1, <3>3
    <3>4. CASE s # d
      BY <1>7, <3>1, <3>2, <3>4
    <3> QED
      BY <3>3, <3>4
  <2> QED
    BY <1>0, <2>1 DEF StudiesInv, InstallerFollows
<1>10. /\ d \in Others <=> e \in Others'
       /\ \A c \in library : c # d => (c \in Others <=> c \in Others')
  BY <1>0, <1>5, <1>7, <1>8 DEF Others
<1>11. \A c \in Others : c \in library
  BY DEF Others
<1>12. \A c \in Others' : c \in library'
  BY DEF Others
<1>13. KeepsUp
  <2>1. ASSUME NEW c \in Others PROVE \E b \in Others' : b.company = c.company /\ b.updated >= c.updated
    <3>1. c \in library /\ c.updated >= c.updated
      BY <1>11, Fields
    <3>2. CASE c = d
      BY <1>2, <1>10, <3>2
    <3>3. CASE c # d
      BY <1>10, <3>1, <3>3
    <3> QED
      BY <3>2, <3>3
  <2> QED
    BY <2>1 DEF KeepsUp
<1>14. NewIsOfToday
  <2>1. ASSUME NEW b \in Others' PROVE \E c \in Others : c.company = b.company
    <3>1. b = e \/ (b \in library /\ b # d)
      BY <1>8, <1>12
    <3> QED
      BY <1>10, <3>1
  <2> QED
    BY <2>1 DEF NewIsOfToday
<1>15. \A b \in Others' : b.updated \in Nat
  BY <1>3, <1>12 DEF Folders
<1>16. SettlingFollows'
  <2>1. past.settled = today /\ installer.pc # "idle" => installer.day = today
    BY DEF StudiesInv, SettlingFollows
  <2> QED
    BY <1>0, <1>1, <1>13, <1>14, <1>15, <2>1, SettlingKept
<1>17. StudiesFollow'
  <2>1. \A b \in Companies, at \in 1..LastDay : Live(b, at) # {} => Live(b, at)' # {}
    BY DEF Live
  <2>2. \A b \in Companies, at \in 1..LastDay : Backed(b, at) => Backed(b, at)'
    BY <1>0, <1>1, <2>1 DEF Backed
  <2> QED
    BY <1>0, <2>2, StillBacked
<1>18. SyncFollows' /\ BooksFollow'
  BY <1>0 DEF StudiesInv, SyncFollows, BooksFollow
<1>19. FinishedWorkIsKept'
  <2>1. \A n \in past.owed : \E c \in library : c.no = n /\ c.profile = "usable"
    BY DEF StudiesInv, FinishedWorkIsKept
  <2>2. \A n \in owed : \E c \in library' : c.no = n /\ c.profile = "usable"
    BY <2>1
  <2> QED
    BY <1>1, <2>2 DEF FinishedWorkIsKept
<1> QED
  BY <1>0, <1>1, <1>3, <1>4, <1>9, <1>16, <1>17, <1>18, <1>19 DEF StudiesInv

LEMMA ProfilesRewritten ==
  ASSUME StudiesInv, NEW d \in library, OverwriteDemandProfile(d) \/ FinishProfile(d)
  PROVE  StudiesInv'
<1>t. /\ d \in Folders /\ d.no \in 1..MaxDirs /\ past.owed \subseteq 1..MaxDirs /\ past.writes \in 0..MaxWrites
      /\ MaxWrites \in Nat /\ today \in 1..LastDay
  BY Fields DEF Folders
<1>1. ASSUME past.writes < MaxWrites PROVE past.writes + 1 \in 0..MaxWrites
  BY <1>1, <1>t
<1>2. CASE OverwriteDemandProfile(d)
  <2>0. /\ past.writes < MaxWrites /\ library' = (library \ {d}) \cup {[d EXCEPT !.profile = "typed"]}
        /\ past' = [past EXCEPT !.owed = @ \ {d.no}, !.writes = @ + 1]
        /\ UNCHANGED <<today, accounts, installer, sync, rollup>>
    BY <1>2 DEF OverwriteDemandProfile, Rewritten
  <2>1. PICK e \in Folders : /\ e = [d EXCEPT !.profile = "typed"]
                             /\ e.no = d.no /\ e.company = d.company /\ e.day = d.day /\ e.kind = d.kind
                             /\ e.updated = d.updated /\ e.profile = "typed"
    <3>1. [d EXCEPT !.profile = "typed"] \in Folders
      BY <1>t DEF Folders
    <3>2. /\ [d EXCEPT !.profile = "typed"].no = d.no
          /\ [d EXCEPT !.profile = "typed"].company = d.company
          /\ [d EXCEPT !.profile = "typed"].day = d.day
          /\ [d EXCEPT !.profile = "typed"].kind = d.kind
          /\ [d EXCEPT !.profile = "typed"].updated = d.updated
          /\ [d EXCEPT !.profile = "typed"].profile = "typed"
      BY <1>t DEF Folders
    <3> QED
      BY <3>1, <3>2
  <2>2. PICK owed \in SUBSET (1..MaxDirs) : owed = past.owed \ {d.no}
    BY <1>t
  <2>3. PICK writes \in 0..MaxWrites : writes = past.writes + 1
    BY <1>1, <2>0
  <2>4. past' = [past EXCEPT !.owed = owed, !.writes = writes] /\ library' = (library \ {d}) \cup {e}
    BY <2>0, <2>1, <2>2, <2>3
  <2>5. d.no \notin owed /\ owed \subseteq past.owed \cup {d.no}
    BY <2>2
  <2> QED
    BY <2>0, <2>1, <2>4, <2>5, RewriteKeeps
<1>3. CASE FinishProfile(d)
  <2>0. /\ past.writes < MaxWrites /\ library' = (library \ {d}) \cup {[d EXCEPT !.profile = "usable", !.updated = today]}
        /\ past' = [past EXCEPT !.owed = @ \cup {d.no}, !.writes = @ + 1] /\ d.kind = "live"
        /\ UNCHANGED <<today, accounts, installer, sync, rollup>>
    BY <1>3 DEF FinishProfile, Rewritten
  <2>1. PICK e \in Folders : /\ e = [d EXCEPT !.profile = "usable", !.updated = today]
                             /\ e.no = d.no /\ e.company = d.company /\ e.day = d.day /\ e.kind = d.kind
                             /\ e.updated = today /\ e.profile = "usable"
    <3>1. [d EXCEPT !.profile = "usable", !.updated = today] \in Folders
      BY <1>t DEF Folders
    <3>2. /\ [d EXCEPT !.profile = "usable", !.updated = today].no = d.no
          /\ [d EXCEPT !.profile = "usable", !.updated = today].company = d.company
          /\ [d EXCEPT !.profile = "usable", !.updated = today].day = d.day
          /\ [d EXCEPT !.profile = "usable", !.updated = today].kind = d.kind
          /\ [d EXCEPT !.profile = "usable", !.updated = today].updated = today
          /\ [d EXCEPT !.profile = "usable", !.updated = today].profile = "usable"
      BY <1>t DEF Folders
    <3> QED
      BY <3>1, <3>2
  <2>2. PICK owed \in SUBSET (1..MaxDirs) : owed = past.owed \cup {d.no}
    BY <1>t
  <2>3. PICK writes \in 0..MaxWrites : writes = past.writes + 1
    BY <1>1, <2>0
  <2>4. past' = [past EXCEPT !.owed = owed, !.writes = writes] /\ library' = (library \ {d}) \cup {e}
    BY <2>0, <2>1, <2>2, <2>3
  <2>5. d.kind # "stage" /\ owed \subseteq past.owed \cup {d.no}
    BY <2>0, <2>2
  <2> QED
    BY ZenonT(60), <2>0, <2>1, <2>4, <2>5, RewriteKeeps
<1> QED
  BY <1>2, <1>3

LEMMA CreateDemandProfileKeeps ==
  ASSUME StudiesInv, NEW c \in Companies, NEW cut \in BOOLEAN, CreateDemandProfile(c, cut)
  PROVE  StudiesInv'
<1>0. /\ installer = NoInstall /\ past.dirs < MaxDirs
      /\ library' = library \cup {[Blank(c, today, "live") EXCEPT !.profile = IF cut THEN "none" ELSE "typed"]}
      /\ past' = [past EXCEPT !.dirs = @ + 1]
      /\ today' = today /\ accounts' = accounts /\ installer' = installer /\ sync' = sync /\ rollup' = rollup
  BY DEF CreateDemandProfile
<1>t. /\ past.dirs \in 0..MaxDirs /\ today \in 1..LastDay /\ LastDay \in Nat /\ MaxDirs \in Nat
  BY Fields
<1>1. installer.pc = "idle"
  BY <1>0, NobodyAtWork
<1>2. PICK n \in 1..MaxDirs : n = past.dirs + 1
  BY <1>0, <1>t
<1>3. PICK s \in Folders : /\ s = [Blank(c, today, "live") EXCEPT !.profile = IF cut THEN "none" ELSE "typed"]
                           /\ s.no = n /\ s.company = c /\ s.kind = "live" /\ s.updated = today
  <2>1. Blank(c, today, "live") =
        [no |-> n, company |-> c, day |-> today, kind |-> "live", updated |-> today, profile |-> "blank"]
    BY <1>2 DEF Blank
  <2>2. PICK b \in Folders : /\ b = Blank(c, today, "live")
                             /\ b.no = n /\ b.company = c /\ b.kind = "live" /\ b.updated = today
    BY <1>t, <2>1 DEF Folders
  <2>3. PICK written \in {"none", "blank", "typed", "usable"} : written = IF cut THEN "none" ELSE "typed"
    OBVIOUS
  <2>4. PICK s \in Folders : /\ s = [b EXCEPT !.profile = written]
                             /\ s.no = b.no /\ s.company = b.company /\ s.kind = b.kind /\ s.updated = b.updated
    <3>1. [b EXCEPT !.profile = written] \in Folders
      BY DEF Folders
    <3>2. /\ [b EXCEPT !.profile = written].no = b.no
          /\ [b EXCEPT !.profile = written].company = b.company
          /\ [b EXCEPT !.profile = written].kind = b.kind
          /\ [b EXCEPT !.profile = written].updated = b.updated
      BY DEF Folders
    <3> QED
      BY <3>1, <3>2
  <2> QED
    BY <2>2, <2>3, <2>4
<1>4. library' = library \cup {s}
  BY <1>0, <1>3
<1>5. past \in Pasts /\ past' = [past EXCEPT !.dirs = n]
  BY <1>0, <1>2 DEF StudiesInv
<1>6. /\ past' \in Pasts /\ past'.dirs = n /\ past'.owed = past.owed /\ past'.cut = past.cut
      /\ past'.settled = past.settled
  <2>1. n \in 0..MaxDirs
    BY <1>t
  <2> QED
    BY <1>5, <2>1 DEF Pasts
<1>7. library' \subseteq Folders
  BY <1>3, <1>4 DEF StudiesInv
<1>8. \A d \in library : d.no \in 1..past.dirs /\ d.no # n
  <2>1. \A d \in library : d.no \in 1..past.dirs
    BY Fields
  <2> QED
    BY <1>2, <1>t, <2>1
<1>9. Others' = library' /\ Others = library
  BY <1>0, <1>1 DEF Others
<1>10. LibraryFollows'
  <2>1. IsFiniteSet(library')
    BY <1>4, Fields, FS_AddElement
  <2>2. \A d \in library : d.no <= n /\ d.updated <= today
    BY Fields, <1>2, <1>t
  <2>3. \A d \in library : d.kind = "stage" => d.updated = d.day /\ d.profile # "usable"
    BY DEF StudiesInv, LibraryFollows
  <2>4. s.no <= n /\ s.updated <= today
    BY <1>3, <1>t
  <2>5. \A d \in library' : /\ d.no <= past'.dirs /\ d.updated <= today'
                            /\ d.kind = "stage" => d.updated = d.day /\ d.profile # "usable"
    BY <1>0, <1>3, <1>4, <1>6, <2>2, <2>3, <2>4
  <2>6. \A d, e \in library : d.no = e.no => d = e
    BY DEF StudiesInv, LibraryFollows
  <2>7. \A d, e \in library' : d.no = e.no => d = e
    BY <1>3, <1>4, <1>8, <2>6
  <2> QED
    BY <2>1, <2>5, <2>7 DEF LibraryFollows
<1>11. FinishedWorkIsKept'
  BY <1>4, <1>6 DEF StudiesInv, FinishedWorkIsKept
<1>12. KeepsUp /\ NewIsOfToday /\ \A e \in Others' : e.updated \in Nat
  <2>1. \A d \in library : d.updated >= d.updated /\ d.updated \in Nat
    BY Fields
  <2>2. s.updated = today /\ today \in Nat
    BY <1>3, <1>t
  <2> QED
    BY <1>4, <1>9, <2>1, <2>2 DEF KeepsUp, NewIsOfToday
<1>13. \A b \in Companies, at \in 1..LastDay : Backed(b, at) => Backed(b, at)'
  <2>1. \A b \in Companies, at \in 1..LastDay : Live(b, at) # {} => Live(b, at)' # {}
    BY <1>4 DEF Live
  <2> QED
    BY <1>0, <1>6, <2>1 DEF Backed
<1>14. SettlingFollows'
  BY <1>0, <1>1, <1>6, <1>12, SettlingKept
<1>15. StudiesFollow'
  BY <1>0, <1>13, StillBacked
<1>16. SyncFollows' /\ BooksFollow' /\ InstallerFollows'
  BY <1>0, <1>1 DEF StudiesInv, SyncFollows, BooksFollow, InstallerFollows
<1> QED
  BY <1>0, <1>6, <1>7, <1>10, <1>11, <1>14, <1>15, <1>16 DEF StudiesInv

(* The last date of a company's directories is the date of one of them.    *)
LEMMA DiscoveredIs ==
  ASSUME StudiesInv, NEW c \in Companies, Of(c) # {}
  PROVE  /\ \E d \in Of(c) : d.updated = Discovered(c)
         /\ \A d \in Of(c) : d.updated <= Discovered(c)
         /\ Discovered(c) \in 1..today
<1> DEFINE days == {d.updated : d \in Of(c)}
           back == {LastDay - x : x \in days}
<1>1. \A d \in Of(c) : d.updated \in 1..today
  BY Fields DEF Of
<1>2. today \in 1..LastDay /\ LastDay \in Nat
  BY Fields
<1>3. days \subseteq 1..today /\ days # {}
  BY <1>1
<1>4. back \in SUBSET Nat /\ back # {}
  BY <1>2, <1>3
<1>5. PICK least \in back : \A y \in back : least <= y
  <2> HIDE DEF back
  <2> QED
    BY <1>4, LeastOf
<1>6. PICK most \in days : least = LastDay - most
  OBVIOUS
<1>7. ASSUME NEW y \in days PROVE most >= y
  <2>1. LastDay - y \in back
    OBVIOUS
  <2>2. least <= LastDay - y
    BY <1>5, <2>1
  <2> HIDE DEF days, back
  <2> QED
    BY <1>2, <1>3, <1>6, <2>2
<1>8. Max(days) \in days /\ \A y \in days : Max(days) >= y
  <2> HIDE DEF days
  <2> QED
    BY <1>6, <1>7 DEF Max
<1>9. Discovered(c) = Max(days)
  BY DEF Discovered
<1>10. Discovered(c) \in days /\ \A y \in days : Discovered(c) >= y
  BY <1>8, <1>9
<1>11. \E d \in Of(c) : d.updated = Discovered(c)
  BY <1>10
<1>12. Discovered(c) \in 1..today
  BY <1>3, <1>10
<1>13. ASSUME NEW d \in Of(c) PROVE d.updated <= Discovered(c)
  <2>1. Discovered(c) >= d.updated /\ d.updated \in 1..today
    BY <1>1, <1>10
  <2> QED
    BY <1>2, <1>12, <2>1
<1> QED
  BY <1>11, <1>12, <1>13

LEMMA QueueActs ==
  ASSUME StudiesInv, installer.pc = "idle", NEW c \in Companies
  PROVE  QueueAction(c) \in {"ready", "hold"} <=> SettledFor(accounts, c)
<1>t. /\ today \in 1..LastDay /\ LastDay \in Nat /\ Horizon \in Nat /\ accounts[c].updated \in 0..LastDay
  BY Fields DEF StudiesInv, Books
<1>1. Others = library
  BY DEF Others
<1>2. CASE Of(c) = {}
  <2>1. \A d \in Others : d.company # c
    BY <1>1, <1>2 DEF Of
  <2>2. SettledFor(accounts, c) <=> accounts[c].tier # "high"
    BY <2>1 DEF SettledFor
  <2>3. QueueAction(c) = IF accounts[c].tier = "high" THEN "create" ELSE "hold"
    BY <1>2 DEF QueueAction
  <2> QED
    BY <2>2, <2>3
<1>3. CASE Of(c) # {}
  <2>1. PICK at \in 1..today : at = Discovered(c)
    BY <1>3, DiscoveredIs
  <2>2. PICK d \in Of(c) : d.updated = at
    BY <1>3, <2>1, DiscoveredIs
  <2>3. \A e \in Of(c) : e.updated <= at /\ e.updated \in 1..today
    BY <1>3, <2>1, DiscoveredIs, Fields DEF Of
  <2>4. d \in Others /\ d.company = c
    BY <1>1 DEF Of
  <2>5. \A e \in Others : e.company = c => e \in Of(c)
    BY <1>1 DEF Of
  <2>6. SettledFor(accounts, c) <=> accounts[c].updated <= at /\ today - at <= Horizon
    <3>1. ASSUME accounts[c].updated <= at, today - at <= Horizon PROVE SettledFor(accounts, c)
      <4>1. d.updated >= accounts[c].updated /\ today - d.updated <= Horizon
        BY <1>t, <2>2, <3>1
      <4> QED
        BY <2>4, <4>1 DEF SettledFor
    <3>2. ASSUME SettledFor(accounts, c) PROVE accounts[c].updated <= at /\ today - at <= Horizon
      <4>1. PICK e \in Others : e.company = c /\ e.updated >= accounts[c].updated /\ today - e.updated <= Horizon
        BY <2>4, <3>2 DEF SettledFor
      <4>2. e.updated <= at /\ e.updated \in 1..today
        BY <2>3, <2>5, <4>1
      <4> QED
        BY <1>t, <4>1, <4>2
    <3> QED
      BY <3>1, <3>2
  <2>7. QueueAction(c) = CASE Of(c) # {} /\ (accounts[c].updated > at \/ today - at > Horizon) -> "refresh"
                           [] Of(c) # {} /\ accounts[c].updated <= at /\ today - at <= Horizon -> "ready"
                           [] Of(c) = {} -> IF accounts[c].tier = "high" THEN "create" ELSE "hold"
    BY <2>1 DEF QueueAction
  <2>8. CASE accounts[c].updated <= at /\ today - at <= Horizon
    <3>1. ~(accounts[c].updated > at \/ today - at > Horizon)
      BY <1>t, <2>8
    <3>2. QueueAction(c) = "ready"
      BY <1>3, <2>7, <2>8, <3>1
    <3> QED
      BY <2>6, <2>8, <3>2
  <2>9. CASE ~(accounts[c].updated <= at /\ today - at <= Horizon)
    <3>1. accounts[c].updated > at \/ today - at > Horizon
      BY <1>t, <2>9
    <3>2. QueueAction(c) = "refresh"
      BY <1>3, <2>7, <2>9, <3>1
    <3> QED
      BY <2>6, <2>9, <3>2
  <2> QED
    BY <2>8, <2>9
<1> QED
  BY <1>2, <1>3

LEMMA SyncBeginKeeps ==
  ASSUME StudiesInv, SyncBegin
  PROVE  StudiesInv'
<1> DEFINE wanted == {c \in Companies : QueueAction(c) \in {"refresh", "create"}}
<1>0. /\ sync = NoSync /\ installer = NoInstall
      /\ sync' = [pc |-> "apply", read |-> accounts, todo |-> wanted, done |-> {}, day |-> today]
      /\ today' = today /\ accounts' = accounts /\ library' = library /\ installer' = installer /\ rollup' = rollup
      /\ past' = past
  BY DEF SyncBegin
<1>1. sync.pc = "idle" /\ installer.pc = "idle"
  BY <1>0, NobodyAtWork
<1>t. /\ today \in 1..LastDay /\ LastDay \in Nat /\ accounts \in [Companies -> Books]
  BY Fields DEF StudiesInv
<1>2. PICK todo \in SUBSET Companies : todo = wanted
  OBVIOUS
<1>3. today \in 0..LastDay /\ today \in 1..today
  BY <1>t
<1>4. /\ sync' \in Syncs /\ sync'.pc = "apply" /\ sync'.read = accounts /\ sync'.todo = todo /\ sync'.done = {}
      /\ sync'.day = today
  <2>1. sync' = [pc |-> "apply", read |-> accounts, todo |-> todo, done |-> {}, day |-> today]
    BY <1>0, <1>2
  <2> QED
    BY <1>t, <1>3, <2>1 DEF Syncs
<1>5. ASSUME NEW c \in Companies, c \notin todo PROVE SettledFor(accounts, c)
  <2>1. QueueAction(c) \notin {"refresh", "create"}
    BY <1>2, <1>5
  <2>2. QueueAction(c) \in {"refresh", "create", "ready", "hold"}
    <3>1. CASE Of(c) = {}
      BY <3>1 DEF QueueAction
    <3>2. CASE Of(c) # {}
      <4>1. PICK at \in 1..today : at = Discovered(c)
        BY <3>2, DiscoveredIs
      <4>2. accounts[c].updated \in 0..LastDay /\ Horizon \in Nat
        BY <1>t, Fields DEF Books
      <4>3. \/ accounts[c].updated > at \/ today - at > Horizon
            \/ accounts[c].updated <= at /\ today - at <= Horizon
        BY <1>t, <4>2
      <4> QED
        BY <3>2, <4>1, <4>3 DEF QueueAction
    <3> QED
      BY <3>1, <3>2
  <2>3. QueueAction(c) \in {"ready", "hold"}
    BY <2>1, <2>2
  <2> QED
    BY <1>1, <2>3, QueueActs
<1>6. Others' = Others
  BY <1>0 DEF Others, Staged
<1>7. \A c \in Companies : SettledFor(accounts, c) => SettledFor(accounts, c)'
  BY <1>0, <1>6 DEF SettledFor
<1>8. SettlingFollows'
  <2>1. \A c \in Companies : SettledFor(accounts, c)' => SettledFor(sync.read, c)'
    BY <1>0, <1>4 DEF SettledFor
  <2>2. past'.settled <= today' /\ (past'.settled = today' => \A c \in Companies : SettledFor(accounts, c)')
    BY <1>0, <1>7 DEF StudiesInv, SettlingFollows
  <2>3. \A c \in Companies : c \in sync'.todo \/ SettledFor(sync.read, c)'
    BY <1>4, <1>5, <1>7, <2>1
  <2>4. sync'.day = today' /\ installer'.pc = "idle"
    BY <1>0, <1>1, <1>4
  <2> QED
    BY <2>2, <2>3, <2>4 DEF SettlingFollows
<1>9. StudiesFollow'
  <2>1. \A c \in Companies : accounts[c].study # 0 => Backed(c, accounts[c].study)
    BY DEF StudiesInv, StudiesFollow
  <2>2. \A c \in Companies : accounts'[c].study # 0 => Backed(c, accounts[c].study)'
    BY <1>0, <2>1 DEF Backed, Live
  <2>3. \A c \in Companies : sync'.read[c].study # 0 => Backed(c, sync.read[c].study)'
    BY <1>0, <1>4, <2>1 DEF Backed, Live
  <2> QED
    BY <1>4, <2>2, <2>3 DEF StudiesFollow
<1>10. SyncFollows' /\ BooksFollow' /\ InstallerFollows' /\ LibraryFollows' /\ FinishedWorkIsKept'
  BY <1>0, <1>1, <1>t, <1>3, <1>4
     DEF StudiesInv, SyncFollows, BooksFollow, InstallerFollows, LibraryFollows, FinishedWorkIsKept, Staged
<1> QED
  BY <1>0, <1>4, <1>8, <1>9, <1>10 DEF StudiesInv

LEMMA SyncEndKeeps ==
  ASSUME StudiesInv, SyncEnd
  PROVE  StudiesInv'
<1> DEFINE told == [c \in Companies |-> [sync.read[c] EXCEPT !.mapping = accounts[c].mapping,
                                   !.study = IF c \in sync.done THEN sync.day ELSE sync.read[c].study]]
<1>0. /\ sync.pc = "apply" /\ sync.todo = {}
      /\ accounts' = IF sync.done = {} THEN accounts ELSE told
      /\ past' = [past EXCEPT !.settled = IF accounts = sync.read THEN sync.day ELSE 0]
      /\ sync' = NoSync
      /\ today' = today /\ library' = library /\ installer' = installer /\ rollup' = rollup
  BY DEF SyncEnd
<1>1. sync'.pc = "idle" /\ sync' \in Syncs
  BY <1>0, NobodyAtWork
<1>t. /\ today \in 1..LastDay /\ LastDay \in Nat /\ accounts \in [Companies -> Books] /\ past \in Pasts
      /\ sync.read \in [Companies -> Books] /\ sync.day \in 1..today /\ installer.pc = "idle"
  BY <1>0, Fields DEF StudiesInv, SyncFollows
<1>2. PICK read \in [Companies -> Books], day \in 1..today, done \in {sync.done} : read = sync.read /\ day = sync.day /\ done = sync.done
  BY <1>t
<1>3. ASSUME NEW c \in Companies
      PROVE  /\ told[c] \in Books /\ told[c].updated = read[c].updated /\ told[c].tier = read[c].tier
             /\ told[c].study = IF c \in done THEN day ELSE read[c].study
  <2>1. PICK b \in Books : b = read[c]
    OBVIOUS
  <2>2. PICK m \in {"pending", "candidate"} : m = accounts[c].mapping
    BY <1>t DEF Books
  <2>3. b.study \in 0..LastDay
    BY DEF Books
  <2>4. PICK st \in 0..LastDay : st = IF c \in done THEN day ELSE b.study
    BY <1>t, <2>3
  <2>5. told[c] = [b EXCEPT !.mapping = m, !.study = st]
    BY <1>2, <2>1, <2>2, <2>4
  <2>6. [b EXCEPT !.mapping = m, !.study = st] \in Books
    BY DEF Books
  <2>7. /\ [b EXCEPT !.mapping = m, !.study = st].updated = b.updated
        /\ [b EXCEPT !.mapping = m, !.study = st].tier = b.tier
        /\ [b EXCEPT !.mapping = m, !.study = st].study = st
    BY DEF Books
  <2> HIDE DEF told
  <2> QED
    BY <2>1, <2>4, <2>5, <2>6, <2>7
<1>4. told \in [Companies -> Books]
  BY <1>3
<1>5. PICK new \in [Companies -> Books] : new = told
  BY <1>4
<1>6. \A c \in Companies : /\ new[c].updated = read[c].updated /\ new[c].tier = read[c].tier
                           /\ new[c].study = IF c \in done THEN day ELSE read[c].study
  <2> HIDE DEF told
  <2> QED
    BY <1>3, <1>5
<1>7. accounts' = accounts \/ accounts' = new
  BY <1>0, <1>5
<1> HIDE DEF told
<1>8. accounts' \in [Companies -> Books]
  BY <1>t, <1>7
<1>9. PICK settled \in 0..LastDay : settled = IF accounts = read THEN day ELSE 0
  BY <1>t
<1>10. /\ past' \in Pasts /\ past'.settled = settled /\ past'.dirs = past.dirs /\ past'.owed = past.owed
       /\ past'.cut = past.cut
  <2>1. past' = [past EXCEPT !.settled = settled]
    BY <1>0, <1>2, <1>9
  <2> QED
    BY <1>t, <2>1 DEF Pasts
<1>11. Others' = Others
  BY <1>0, <1>10 DEF Others, Staged
<1>12. SettlingFollows'
  <2>1. settled <= today
    BY <1>t, <1>9
  <2>2. ASSUME settled = today, NEW c \in Companies PROVE SettledFor(accounts, c)'
    <3>1. accounts = read /\ day = today
      BY <1>t, <1>9, <2>2
    <3>2. SettledFor(sync.read, c)
      BY <1>0, <1>2, <3>1 DEF StudiesInv, SettlingFollows
    <3>3. SettledFor(read, c)
      BY <1>2, <3>2 DEF SettledFor
    <3>4. accounts'[c].updated = read[c].updated /\ accounts'[c].tier = read[c].tier
      BY <1>6, <1>7, <3>1
    <3> QED
      BY <1>0, <1>11, <3>3, <3>4 DEF SettledFor
  <2> QED
    BY <1>0, <1>1, <1>t, <1>10, <2>1, <2>2 DEF SettlingFollows
<1>13. \A b \in Companies, at \in Nat : Backed(b, at) => Backed(b, at)'
  BY <1>0, <1>10 DEF Backed, Live
<1>14. StudiesFollow'
  <2>1. ASSUME NEW c \in Companies, accounts'[c].study # 0 PROVE Backed(c, accounts[c].study)'
    <3>1. PICK at \in Nat : at = accounts'[c].study
      BY <1>t, <1>8 DEF Books
    <3>2. Backed(c, at)
      <4>1. CASE accounts' = accounts
        BY <2>1, <3>1, <4>1 DEF StudiesInv, StudiesFollow, Backed
      <4>2. CASE accounts' = new /\ c \in done
        <5>1. at = sync.day /\ c \in sync.done
          BY <1>2, <1>6, <3>1, <4>2
        <5> QED
          BY <1>0, <5>1 DEF StudiesInv, StudiesFollow, Backed
      <4>3. CASE accounts' = new /\ c \notin done
        <5>1. at = sync.read[c].study
          BY <1>2, <1>6, <3>1, <4>3
        <5> QED
          BY <1>0, <2>1, <3>1, <5>1 DEF StudiesInv, StudiesFollow, Backed
      <4> QED
        BY <1>7, <4>1, <4>2, <4>3
    <3>3. Backed(c, at)'
      BY <1>13, <3>2
    <3> QED
      BY <3>1, <3>3 DEF Backed
  <2> QED
    BY <1>1, <2>1 DEF StudiesFollow
<1>15. BooksFollow'
  <2>1. \A c \in Companies : accounts[c].updated <= today /\ read[c].updated <= today
    BY <1>0, <1>2 DEF StudiesInv, BooksFollow
  <2> QED
    BY <1>0, <1>1, <1>6, <1>7, <2>1 DEF BooksFollow
<1>16. SyncFollows' /\ InstallerFollows' /\ LibraryFollows' /\ FinishedWorkIsKept'
  BY <1>0, <1>1, <1>t, <1>10
     DEF StudiesInv, SyncFollows, InstallerFollows, LibraryFollows, FinishedWorkIsKept
<1> QED
  BY <1>0, <1>1, <1>8, <1>10, <1>12, <1>14, <1>15, <1>16 DEF StudiesInv

(* What changes the accounts unsettles them, and keeps who has a study.    *)
LEMMA NotedKeeps ==
  ASSUME StudiesInv, NEW f \in [Companies -> Books], Noted(f), UNCHANGED <<today, library, installer, sync, rollup>>,
         \A c \in Companies : f[c].study = accounts[c].study /\ f[c].updated \in {accounts[c].updated, today}
  PROVE  StudiesInv'
<1>0. /\ past.writes < MaxWrites /\ accounts' = f
      /\ past' = [past EXCEPT !.settled = 0, !.writes = @ + 1]
      /\ today' = today /\ library' = library /\ installer' = installer /\ sync' = sync /\ rollup' = rollup
  BY DEF Noted
<1>t. /\ today \in 1..LastDay /\ LastDay \in Nat /\ past \in Pasts /\ past.writes \in 0..MaxWrites /\ MaxWrites \in Nat
  BY Fields DEF StudiesInv
<1>1. PICK writes \in 0..MaxWrites : writes = past.writes + 1
  BY <1>0, <1>t
<1>2. /\ past' \in Pasts /\ past'.settled = 0 /\ past'.dirs = past.dirs /\ past'.owed = past.owed
      /\ past'.cut = past.cut
  <2>1. past' = [past EXCEPT !.settled = 0, !.writes = writes] /\ 0 \in 0..LastDay
    BY <1>0, <1>1, <1>t
  <2> QED
    BY <1>t, <2>1 DEF Pasts
<1>3. BooksFollow'
  <2>1. \A c \in Companies : accounts[c].updated <= today
    BY DEF StudiesInv, BooksFollow
  <2>2. \A c \in Companies : f[c].updated <= today
    BY <1>t, <2>1
  <2> QED
    BY <1>0, <2>2 DEF StudiesInv, BooksFollow
<1>4. StudiesFollow'
  <2>1. \A c \in Companies : accounts'[c].study = accounts[c].study
    BY <1>0
  <2> QED
    BY <1>0, <1>2, <2>1 DEF StudiesInv, StudiesFollow, Backed, Live
<1>5. SettlingFollows'
  <2>1. Others' = Others
    BY <1>0, <1>2 DEF Others, Staged
  <2>2. \A c \in Companies : SettledFor(sync.read, c) => SettledFor(sync.read, c)'
    BY <1>0, <2>1 DEF SettledFor
  <2>3. 0 <= today /\ today # 0
    BY <1>t
  <2> QED
    BY <1>0, <1>2, <2>2, <2>3 DEF StudiesInv, SettlingFollows
<1>6. SyncFollows' /\ InstallerFollows' /\ LibraryFollows' /\ FinishedWorkIsKept'
  BY <1>0, <1>2 DEF StudiesInv, SyncFollows, InstallerFollows, LibraryFollows, FinishedWorkIsKept, Staged
<1> QED
  BY <1>0, <1>2, <1>3, <1>4, <1>5, <1>6 DEF StudiesInv

LEMMA AccountsNoted ==
  ASSUME StudiesInv,
         \/ \E c \in Companies : Import(c)
         \/ \E cs \in SUBSET Companies : MapCompanies(cs) \/ ScreenAccounts(cs)
  PROVE  StudiesInv'
<1>t. today \in 0..LastDay /\ accounts \in [Companies -> Books]
  BY Fields DEF StudiesInv
<1>1. ASSUME NEW c \in Companies, Import(c) PROVE StudiesInv'
  <2>1. PICK b \in Books : b = accounts[c]
    BY <1>t
  <2>2. PICK n \in Books : n = [b EXCEPT !.updated = today] /\ n.updated = today /\ n.study = b.study
    <3>1. [b EXCEPT !.updated = today] \in Books
      BY <1>t DEF Books
    <3>2. [b EXCEPT !.updated = today].updated = today /\ [b EXCEPT !.updated = today].study = b.study
      BY DEF Books
    <3> QED
      BY <3>1, <3>2
  <2>3. PICK f \in [Companies -> Books] : f = [accounts EXCEPT ![c] = n]
    BY <1>t
  <2>4. [accounts EXCEPT ![c].updated = today] = f
    BY <1>t, <2>1, <2>2, <2>3
  <2>5. Noted(f)
    BY <1>1, <2>4 DEF Import
  <2>6. \A d \in Companies : f[d].study = accounts[d].study /\ f[d].updated \in {accounts[d].updated, today}
    BY <1>t, <2>1, <2>2, <2>3
  <2> QED
    BY <1>1, <2>5, <2>6, NotedKeeps DEF Import
<1>2. ASSUME NEW b \in Books, NEW m \in {"pending", "candidate"}
      PROVE  /\ [b EXCEPT !.mapping = m] \in Books /\ [b EXCEPT !.mapping = m].study = b.study
             /\ [b EXCEPT !.mapping = m].updated = b.updated
  BY DEF Books
<1>3. ASSUME NEW b \in Books, NEW m \in {"high", "low"}
      PROVE  /\ [b EXCEPT !.tier = m] \in Books /\ [b EXCEPT !.tier = m].study = b.study
             /\ [b EXCEPT !.tier = m].updated = b.updated
  BY DEF Books
<1>4. ASSUME NEW cs \in SUBSET Companies, MapCompanies(cs) PROVE StudiesInv'
  <2> DEFINE f == [c \in Companies |-> [accounts[c] EXCEPT !.mapping = IF c \in cs THEN "candidate" ELSE "pending"]]
  <2>1. \A c \in Companies : f[c] \in Books /\ f[c].study = accounts[c].study /\ f[c].updated = accounts[c].updated
    BY <1>t, <1>2
  <2>2. Noted(f) /\ UNCHANGED <<today, library, installer, sync, rollup>>
    BY <1>4 DEF MapCompanies
  <2>3. f \in [Companies -> Books]
    BY <2>1
  <2>4. PICK g \in [Companies -> Books] : g = f
    BY <2>3
  <2>5. Noted(g)
    BY <2>2, <2>4
  <2>6. \A c \in Companies : g[c].study = accounts[c].study /\ g[c].updated \in {accounts[c].updated, today}
    <3> HIDE DEF f
    <3> QED
      BY <2>1, <2>4
  <2> HIDE DEF f
  <2> QED
    BY <2>2, <2>5, <2>6, NotedKeeps
<1>5. ASSUME NEW cs \in SUBSET Companies, ScreenAccounts(cs) PROVE StudiesInv'
  <2> DEFINE f == [c \in Companies |-> [accounts[c] EXCEPT !.tier = IF c \in cs THEN "high" ELSE "low"]]
  <2>1. \A c \in Companies : f[c] \in Books /\ f[c].study = accounts[c].study /\ f[c].updated = accounts[c].updated
    BY <1>t, <1>3
  <2>2. Noted(f) /\ UNCHANGED <<today, library, installer, sync, rollup>>
    BY <1>5 DEF ScreenAccounts
  <2>3. f \in [Companies -> Books]
    BY <2>1
  <2>4. PICK g \in [Companies -> Books] : g = f
    BY <2>3
  <2>5. Noted(g)
    BY <2>2, <2>4
  <2>6. \A c \in Companies : g[c].study = accounts[c].study /\ g[c].updated \in {accounts[c].updated, today}
    <3> HIDE DEF f
    <3> QED
      BY <2>1, <2>4
  <2> HIDE DEF f
  <2> QED
    BY <2>2, <2>5, <2>6, NotedKeeps
<1> QED
  BY <1>1, <1>4, <1>5

LEMMA TimePasses ==
  ASSUME StudiesInv, DayPasses \/ BuildRollups \/ UNCHANGED studiesVars
  PROVE  StudiesInv'
<1>1. CASE DayPasses
  <2>0. /\ today < LastDay /\ today' = today + 1
        /\ UNCHANGED <<accounts, library, installer, sync, rollup, past>>
    BY <1>1 DEF DayPasses
  <2>1. /\ today' \in 1..LastDay /\ today < today' /\ 1..today \subseteq 1..today'
        /\ \A n \in Nat : n <= today => n <= today' /\ n # today'
    BY <2>0, Fields
  <2>2. LibraryFollows'
    <3>1. \A d \in library : d.updated <= today'
      BY <2>1, Fields DEF StudiesInv, LibraryFollows
    <3> QED
      BY <2>0, <3>1 DEF StudiesInv, LibraryFollows
  <2>3. InstallerFollows'
    BY <2>0, <2>1 DEF StudiesInv, InstallerFollows, Staged
  <2>4. SyncFollows'
    BY <2>0, <2>1 DEF StudiesInv, SyncFollows
  <2>5. BooksFollow'
    <3>1. LastDay \in Nat /\ accounts \in [Companies -> Books]
      BY Fields DEF StudiesInv
    <3>2. \A b \in Books : b.updated \in Nat
      BY <3>1 DEF Books
    <3>3. \A c \in Companies : accounts[c].updated <= today'
      BY <2>1, <3>1, <3>2 DEF StudiesInv, BooksFollow
    <3>4. sync.pc # "idle" => \A c \in Companies : sync.read[c].updated <= today'
      BY <2>1, <3>2 DEF StudiesInv, BooksFollow, SyncFollows
    <3> QED
      BY <2>0, <3>3, <3>4 DEF BooksFollow
  <2>6. StudiesFollow'
    BY <2>0 DEF StudiesInv, StudiesFollow, Backed, Live
  <2>7. SettlingFollows'
    <3>1. past.settled <= today /\ past.settled \in Nat
      BY Fields DEF StudiesInv, SettlingFollows
    <3>2. sync.pc # "idle" => sync.day <= today /\ sync.day \in Nat
      BY Fields DEF StudiesInv, SyncFollows
    <3>3. past'.settled <= today' /\ past'.settled # today'
      BY <2>0, <2>1, <3>1
    <3>4. sync'.pc # "idle" => sync'.day # today'
      BY <2>0, <2>1, <3>2
    <3> QED
      BY <3>3, <3>4 DEF SettlingFollows
  <2>8. FinishedWorkIsKept'
    BY <2>0 DEF StudiesInv, FinishedWorkIsKept
  <2> QED
    BY <2>0, <2>1, <2>2, <2>3, <2>4, <2>5, <2>6, <2>7, <2>8 DEF StudiesInv
<1>2. ASSUME UNCHANGED <<today, accounts, library, installer, sync, past>>, rollup' \subseteq 1..MaxDirs PROVE StudiesInv'
  BY <1>2 DEF StudiesInv, LibraryFollows, InstallerFollows, SyncFollows, BooksFollow, StudiesFollow, SettlingFollows,
              FinishedWorkIsKept, Staged, Backed, Live, SettledFor, Others
<1>3. CASE BuildRollups
  <2>1. \A d \in library : d.no \in 1..MaxDirs
    BY DEF StudiesInv, Folders
  <2>2. rollup' \subseteq 1..MaxDirs
    BY <1>3, <2>1 DEF BuildRollups, RollupEligible
  <2> QED
    BY <1>2, <1>3, <2>2 DEF BuildRollups
<1>4. CASE UNCHANGED studiesVars
  BY <1>2, <1>4 DEF studiesVars, StudiesInv
<1> QED
  BY <1>1, <1>3, <1>4

LEMMA StudiesStepInv == StudiesInv /\ (StudiesNext \/ UNCHANGED studiesVars) => StudiesInv'
BY InitStudyKeeps, RefuseStageKeeps, KeepBackupKeeps, InstallStageKeeps, InstallerKilledKeeps, SyncBeginKeeps,
   SyncApplyKeeps, SyncEndKeeps, AccountsNoted, CreateDemandProfileKeeps, ProfilesRewritten, TimePasses
   DEF StudiesNext

(* The companies of the view's benchmark each have a study that counts.    *)
LEMMA ViewFollowsRollups == StudiesInv => ViewNeverAheadOfRollups
<1> SUFFICES ASSUME StudiesInv PROVE ViewNeverAheadOfRollups
  OBVIOUS
<1> DEFINE counted == {d \in RollupEligible : d.company \in BenchmarkCompanies}
           owner == [d \in counted |-> d.company]
<1>1. IsFiniteSet(RollupEligible)
  BY Fields, FS_Subset DEF RollupEligible
<1>2. IsFiniteSet(counted) /\ Cardinality(counted) <= Cardinality(RollupEligible)
  BY <1>1, FS_Subset
<1>3. \A c \in BenchmarkCompanies : \E d \in counted : d.company = c
  <2>1. ASSUME NEW c \in BenchmarkCompanies PROVE \E d \in counted : d.company = c
    <3>1. InSector(c) /\ \E d \in LatestStudies(c) : IsCurrent(d) /\ Complete(d)
      BY DEF BenchmarkCompanies
    <3>2. PICK d \in LatestStudies(c) : IsCurrent(d) /\ Complete(d)
      BY <3>1
    <3>3. d \in library /\ d.company = c
      BY DEF LatestStudies, Of
    <3>4. d \in RollupEligible
      BY <3>1, <3>2, <3>3 DEF RollupEligible
    <3> QED
      BY <3>3, <3>4
  <2> QED
    BY <2>1
<1>4. owner \in Surjection(counted, BenchmarkCompanies)
  BY <1>3 DEF Surjection
<1>5. IsFiniteSet(BenchmarkCompanies) /\ Cardinality(BenchmarkCompanies) <= Cardinality(counted)
  <2> HIDE DEF owner, counted
  <2> QED
    BY <1>2, <1>4, FS_Surjection
<1>6. /\ Cardinality(BenchmarkCompanies) \in Nat /\ Cardinality(counted) \in Nat
      /\ Cardinality(RollupEligible) \in Nat /\ Threshold \in Nat
  BY <1>1, <1>2, <1>5, FS_CardinalityType, StudiesAssumption
<1> HIDE DEF counted, owner
<1> QED
  BY <1>2, <1>5, <1>6 DEF ViewNeverAheadOfRollups, BenchmarkEnabled

LEMMA StudiesStand ==
  ASSUME StudiesInv
  PROVE  StudiesTypeOK /\ FinishedWorkIsKept /\ RegisteredStudiesExist /\ SyncSettles /\ ViewNeverAheadOfRollups
<1>1. StudiesTypeOK
  BY DEF StudiesInv, StudiesTypeOK, Books, Folders, Installers, Syncs
<1>2. RegisteredStudiesExist
  BY DEF StudiesInv, StudiesFollow, Backed, RegisteredStudiesExist
<1>3. SyncSettles
  <2>1. ASSUME past.settled = today, installer = NoInstall, NEW c \in Companies
        PROVE  QueueAction(c) \in {"ready", "hold"}
    <3>1. installer.pc = "idle"
      BY <2>1, NobodyAtWork
    <3>2. SettledFor(accounts, c)
      BY <2>1 DEF StudiesInv, SettlingFollows
    <3> QED
      BY <3>1, <3>2, QueueActs
  <2> QED
    BY <2>1 DEF SyncSettles
<1> QED
  BY <1>1, <1>2, <1>3, ViewFollowsRollups DEF StudiesInv

(***************************************************************************)
(* Qualification and reach strategy                                        *)
(***************************************************************************)
Fits == [decision : Decisions \cup {Undecided}, offer : Offers \cup {Nowhere}, matches : [Offers -> Matches]]
Chosen == [offer : Offers \cup {Nowhere}, decision : Decisions \cup {Undecided}, score : 0..2, who : SUBSET Contacts]
Strategies == [offer : Offers \cup {Nowhere}, decision : Decisions \cup {Undecided}, blocked : BOOLEAN, ready : BOOLEAN]
Hypotheses == [offer : Offers \cup {Nowhere}, score : 0..2, ready : 0..3]

QualificationInv ==
  /\ profile \in {"blank", "typed", "usable"}
  /\ snapshot \subseteq Offers
  /\ fit \in Fits
  /\ targets \in Chosen
  /\ reach \in Strategies
  /\ hypotheses \in Hypotheses
  /\ engagement \in BOOLEAN
  /\ StaleOnlyByLaterEdits

LEMMA MatchesAre == NoMatch \in Matches /\ \A m \in Matches : m.score \in 0..2
<1>1. NoMatch \in Matches /\ NoMatch.score = 0
  BY DEF Matches, NoMatch
<1>2. ASSUME NEW m \in Matches PROVE m.score \in 0..2
  <2>1. CASE m = NoMatch
    BY <1>1, <2>1
  <2>2. CASE m \in [decision : Positive, gate : Gates, score : {1}]
    BY <2>2
  <2>3. CASE m = [decision |-> "pursue", gate |-> "PASS", score |-> 2]
    BY <2>3
  <2>4. CASE m = [decision |-> "nurture", gate |-> "PASS", score |-> 1]
    BY <2>4
  <2> QED
    BY <2>1, <2>2, <2>3, <2>4 DEF Matches
<1> QED
  BY <1>1, <1>2

(* At most three contacts are ready.                                       *)
LEMMA FewContacts == ASSUME NEW who \in SUBSET Contacts PROVE Cardinality(who) \in 0..3
<1>1. PICK a, b, c : Contacts = {a, b, c}
  BY DEF Contacts
<1>2. IsFiniteSet({a}) /\ Cardinality({a}) = 1
  BY FS_Singleton
<1>3. IsFiniteSet({a} \cup {b}) /\ Cardinality({a} \cup {b}) \in {1, 2}
  BY <1>2, FS_AddElement
<1>4. IsFiniteSet({a} \cup {b} \cup {c}) /\ Cardinality({a} \cup {b} \cup {c}) \in {1, 2, 3}
  BY <1>3, FS_AddElement
<1>5. {a} \cup {b} \cup {c} = {a, b, c}
  OBVIOUS
<1>6. who \subseteq {a} \cup {b} \cup {c}
  BY <1>1, <1>5
<1>7. IsFiniteSet(who) /\ Cardinality(who) <= Cardinality({a} \cup {b} \cup {c})
  BY <1>4, <1>6, FS_Subset
<1>8. Cardinality(who) \in Nat
  BY <1>7, FS_CardinalityType
<1> QED
  BY <1>4, <1>7, <1>8

LEMMA QualificationInitInv == QualificationInit => QualificationInv
<1> SUFFICES ASSUME QualificationInit PROVE QualificationInv
  OBVIOUS
<1>1. profile \in {"blank", "usable"} /\ snapshot \subseteq Offers /\ engagement \in BOOLEAN
  BY DEF QualificationInit
<1>2. fit \in Fits
  <2>1. [o \in Offers |-> NoMatch] \in [Offers -> Matches]
    BY MatchesAre
  <2> QED
    BY <2>1 DEF QualificationInit, Fits, Undecided, Nowhere
<1>3. targets = NoTargets /\ reach = NoReach /\ hypotheses = NoHypotheses
  BY DEF QualificationInit
<1>4. targets \in Chosen /\ reach \in Strategies /\ hypotheses \in Hypotheses
  BY <1>3 DEF NoTargets, NoReach, NoHypotheses, Chosen, Strategies, Hypotheses
<1>5. StaleOnlyByLaterEdits
  BY <1>3 DEF StaleOnlyByLaterEdits
<1> QED
  BY <1>1, <1>2, <1>4, <1>5 DEF QualificationInv

LEMMA QualificationStepInv == QualificationInv /\ (QualificationNext \/ UNCHANGED qualificationVars) => QualificationInv'
<1> SUFFICES ASSUME QualificationInv, QualificationNext \/ UNCHANGED qualificationVars
    PROVE  QualificationInv'
  OBVIOUS
<1>t. /\ profile \in {"blank", "typed", "usable"} /\ snapshot \subseteq Offers /\ fit \in Fits
      /\ targets \in Chosen /\ reach \in Strategies /\ hypotheses \in Hypotheses /\ engagement \in BOOLEAN
      /\ StaleOnlyByLaterEdits
  BY DEF QualificationInv
<1>k. chain'.lag = chain.lag /\ UNCHANGED <<fit, targets, reach, hypotheses>> => StaleOnlyByLaterEdits'
  BY <1>t DEF StaleOnlyByLaterEdits
<1>u. CASE UNCHANGED qualificationVars
  BY <1>t, <1>k, <1>u DEF qualificationVars, QualificationInv
<1>1. ASSUME NEW p \in {"typed", "usable"}, WriteProfile(p) PROVE QualificationInv'
  BY <1>t, <1>k, <1>1 DEF WriteProfile, Change, QualificationInv
<1>2. ASSUME NEW o \in Offers, AddSnapshot(o) PROVE QualificationInv'
  BY <1>t, <1>k, <1>2 DEF AddSnapshot, Change, QualificationInv
<1>3. ASSUME NEW d \in Decisions, NEW o \in Offers, NEW m \in Matches, WriteFit(d, o, m) PROVE QualificationInv'
  <2>1. /\ fit' = [decision |-> d, offer |-> o, matches |-> [fit.matches EXCEPT ![o] = m]]
        /\ chain'.lag = {"targets", "reach", "hypotheses"}
        /\ UNCHANGED <<profile, snapshot, targets, reach, hypotheses, engagement>>
    BY <1>3 DEF WriteFit, Change
  <2>2. [fit.matches EXCEPT ![o] = m] \in [Offers -> Matches]
    BY <1>t DEF Fits
  <2>3. fit' \in Fits
    BY <2>1, <2>2 DEF Fits
  <2>4. StaleOnlyByLaterEdits'
    BY <2>1 DEF StaleOnlyByLaterEdits
  <2> QED
    BY <1>t, <2>1, <2>3, <2>4 DEF QualificationInv
<1>4. CASE WriteEngagement
  <2>1. engagement' \in BOOLEAN /\ chain'.lag = chain.lag /\ UNCHANGED <<profile, snapshot, fit, targets, reach, hypotheses>>
    BY <1>4 DEF WriteEngagement, Change
  <2> QED
    BY <1>t, <1>k, <2>1 DEF QualificationInv
<1>5. ASSUME NEW who \in SUBSET Contacts, TargetStudyContacts(who) PROVE QualificationInv'
  <2>1. /\ fit.decision \in Positive /\ CommonMatch(fit) # {}
        /\ targets' = [offer |-> fit.offer, decision |-> fit.decision, score |-> fit.matches[fit.offer].score, who |-> who]
        /\ chain'.lag = (chain.lag \ {"targets"}) \cup {"reach", "hypotheses"}
        /\ UNCHANGED <<profile, snapshot, fit, reach, hypotheses, engagement>>
    BY <1>5 DEF TargetStudyContacts, Change
  <2>2. fit.offer \in Offers
    BY <2>1 DEF CommonMatch, Matched
  <2>3. fit.matches[fit.offer].score \in 0..2 /\ fit.decision \in Decisions
    <3>1. fit.matches[fit.offer] \in Matches
      BY <1>t, <2>2 DEF Fits
    <3> QED
      BY <2>1, <3>1, MatchesAre DEF Positive, Decisions
  <2>4. targets' \in Chosen
    BY <2>1, <2>2, <2>3 DEF Chosen
  <2>5. StaleOnlyByLaterEdits'
    BY <2>1 DEF StaleOnlyByLaterEdits
  <2> QED
    BY <1>t, <2>1, <2>4, <2>5 DEF QualificationInv
<1>6. CASE BuildReachHypotheses
  <2>0. PICK ready : ready = IF profile = "usable" THEN Cardinality({t \in targets.who : t.current}) ELSE 0
    OBVIOUS
  <2>1. /\ CommonMatch(fit) # {} /\ TargetsAreFresh
        /\ hypotheses' = [offer |-> fit.offer, score |-> fit.matches[fit.offer].score, ready |-> ready]
        /\ chain'.lag = chain.lag \ {"hypotheses"}
        /\ UNCHANGED <<profile, snapshot, fit, targets, reach, engagement>>
    BY <1>6, <2>0 DEF BuildReachHypotheses, Change
  <2>2. fit.offer \in Offers
    BY <2>1 DEF CommonMatch, Matched
  <2>3. fit.matches[fit.offer].score \in 0..2
    <3>1. fit.matches[fit.offer] \in Matches
      BY <1>t, <2>2 DEF Fits
    <3> QED
      BY <3>1, MatchesAre
  <2>4. ready \in 0..3
    <3>1. {t \in targets.who : t.current} \in SUBSET Contacts
      BY <1>t DEF Chosen
    <3>2. Cardinality({t \in targets.who : t.current}) \in 0..3
      BY <3>1, FewContacts
    <3> QED
      BY <2>0, <3>2
  <2>5. hypotheses' \in Hypotheses
    BY <2>1, <2>2, <2>3, <2>4 DEF Hypotheses
  <2>6. StaleOnlyByLaterEdits'
    <3>1. targets.offer = fit.offer /\ targets.score = fit.matches[fit.offer].score
      BY <2>1 DEF TargetsAreFresh
    <3>2. hypotheses'.offer = fit.offer /\ hypotheses'.score = fit.matches[fit.offer].score
      BY <2>1
    <3>3. reach' = reach /\ fit' = fit /\ targets' = targets /\ ("reach" \in chain'.lag <=> "reach" \in chain.lag)
      BY <2>1
    <3> QED
      BY <1>t, <3>1, <3>2, <3>3 DEF StaleOnlyByLaterEdits
  <2> QED
    BY <1>t, <2>1, <2>5, <2>6 DEF QualificationInv
<1>7. CASE PrepareReach
  <2>0. PICK blocked \in BOOLEAN, ready \in BOOLEAN :
          blocked = Blocked /\ ready = (\E t \in targets.who : Wave(t) = "first")
    <3>1. Blocked \in BOOLEAN /\ (\E t \in targets.who : Wave(t) = "first") \in BOOLEAN
      BY DEF Blocked
    <3> QED
      BY <3>1
  <2>1. /\ fit.decision \in Positive /\ fit.offer \in snapshot /\ ~Inconsistent
        /\ reach' = [offer |-> fit.offer, decision |-> fit.decision, blocked |-> blocked, ready |-> ready]
        /\ chain'.lag = chain.lag \ {"reach"}
        /\ UNCHANGED <<profile, snapshot, fit, targets, hypotheses, engagement>>
    BY <1>7, <2>0 DEF PrepareReach, Change
  <2>2. fit.offer \in Offers /\ fit.decision \in Decisions
    BY <1>t, <2>1 DEF Positive, Decisions
  <2>3. reach' \in Strategies
    BY <2>1, <2>2 DEF Strategies
  <2>4. StaleOnlyByLaterEdits'
    <3>1. /\ targets # NoTargets => targets.offer = fit.offer
          /\ ready => targets.who # {}
      BY <2>0, <2>1 DEF Inconsistent
    <3>2. reach'.offer = fit.offer /\ reach'.decision = fit.decision /\ reach'.ready = ready
      BY <2>1
    <3>3. hypotheses' = hypotheses /\ fit' = fit /\ targets' = targets
          /\ ("hypotheses" \in chain'.lag <=> "hypotheses" \in chain.lag)
      BY <2>1
    <3> QED
      BY <1>t, <3>1, <3>2, <3>3 DEF StaleOnlyByLaterEdits
  <2> QED
    BY <1>t, <2>1, <2>3, <2>4 DEF QualificationInv
<1> QED
  BY <1>u, <1>1, <1>2, <1>3, <1>4, <1>5, <1>6, <1>7 DEF QualificationNext

(* The stage and the steps are two readings of the same four facts: which  *)
(* of them holds first decides both.                                       *)
LEMMA StageFollowsSteps == StageIsTheFirstOpenStep
<1> DEFINE open == {i \in DOMAIN StepOrder : Steps[StepOrder[i]] # "completed"}
           stages == <<"demand", "product_snapshot", "matching", "contact_targeting", "reach", "pilot">>
<1>1. DOMAIN StepOrder = 1..6 /\ StepOrder[1] = "demand" /\ StepOrder[2] = "snapshots" /\ StepOrder[3] = "matching"
      /\ StepOrder[4] = "contacts" /\ StepOrder[5] = "reach" /\ StepOrder[6] = "pilot"
  BY DEF StepOrder
<1>2. /\ 1 \in open <=> Steps.demand # "completed"
      /\ 2 \in open <=> Steps.snapshots # "completed"
      /\ 3 \in open <=> Steps.matching # "completed"
      /\ 4 \in open <=> Steps.contacts # "completed"
      /\ 5 \in open <=> Steps.reach # "completed"
      /\ 6 \in open <=> Steps.pilot # "completed"
  BY <1>1
<1>3. /\ Steps.demand = "completed" <=> DemandReady
      /\ Steps.snapshots = "completed" <=> SnapshotsReady
      /\ Steps.matching = "completed" <=> MatchingReady /\ ~Violated
      /\ Steps.contacts = "completed" <=> ContactsReady
      /\ Steps.reach = "completed" <=> ReachReady
      /\ Steps.pilot = "completed" <=> engagement /\ ReachReady
      /\ ~ContactsReady /\ ~ProgressionAllowed => Steps.contacts = "locked"
  BY DEF Steps, Status
<1>4. /\ ContactsReady => ProgressionAllowed
      /\ fit.decision = "nurture" => ~ProgressionAllowed
  BY DEF ContactsReady, ProgressionAllowed, Positive
<1>5. open \subseteq 1..6
  BY <1>1
<1>6. /\ stages[1] = "demand" /\ stages[2] = "product_snapshot" /\ stages[3] = "matching"
      /\ stages[4] = "contact_targeting" /\ stages[5] = "reach" /\ stages[6] = "pilot"
  OBVIOUS
<1> HIDE DEF open, stages
<1>7. IF open = {} THEN CockpitStage = "completed"
      ELSE \E i \in open : /\ \A j \in open : i <= j
                           /\ CockpitStage = stages[i] \/ (CockpitStage = "stopped" /\ i = 4 /\ Steps.contacts = "locked")
  <2>1. CASE ~DemandReady
    BY <1>2, <1>3, <1>5, <1>6, <2>1 DEF CockpitStage
  <2>2. CASE DemandReady /\ ~SnapshotsReady
    <3>1. 2 \in open /\ \A j \in open : 2 <= j
      BY <1>2, <1>3, <1>5, <2>2
    <3> QED
      BY <1>6, <2>2, <3>1 DEF CockpitStage
  <2>3. CASE DemandReady /\ SnapshotsReady /\ (~MatchingReady \/ Violated)
    <3>1. 3 \in open /\ \A j \in open : 3 <= j
      BY <1>2, <1>3, <1>5, <2>3
    <3> QED
      BY <1>6, <2>3, <3>1 DEF CockpitStage
  <2>4. CASE DemandReady /\ SnapshotsReady /\ MatchingReady /\ ~Violated /\ ~ContactsReady
    <3>1. 4 \in open /\ \A j \in open : 4 <= j
      BY <1>2, <1>3, <1>5, <2>4
    <3>2. CASE fit.decision = "nurture"
      BY <1>3, <1>4, <2>4, <3>1, <3>2 DEF CockpitStage
    <3>3. CASE fit.decision # "nurture"
      BY <1>6, <2>4, <3>1, <3>3 DEF CockpitStage
    <3> QED
      BY <3>2, <3>3
  <2>5. CASE DemandReady /\ SnapshotsReady /\ MatchingReady /\ ~Violated /\ ContactsReady
    <3>1. fit.decision # "nurture"
      BY <1>4, <2>5
    <3>2. CASE ~ReachReady
      <4>1. 5 \in open /\ \A j \in open : 5 <= j
        BY <1>2, <1>3, <1>5, <2>5, <3>2
      <4> QED
        BY <1>6, <2>5, <3>1, <3>2, <4>1 DEF CockpitStage
    <3>3. CASE ReachReady /\ ~engagement
      <4>1. 6 \in open /\ \A j \in open : 6 <= j
        BY <1>2, <1>3, <1>5, <2>5, <3>3
      <4> QED
        BY <1>6, <2>5, <3>1, <3>3, <4>1 DEF CockpitStage
    <3>4. CASE ReachReady /\ engagement
      <4>1. open = {}
        BY <1>2, <1>3, <1>5, <2>5, <3>4
      <4> QED
        BY <2>5, <3>1, <3>4, <4>1 DEF CockpitStage
    <3> QED
      BY <3>2, <3>3, <3>4
  <2> QED
    BY <2>1, <2>2, <2>3, <2>4, <2>5
<1> QED
  BY <1>7 DEF StageIsTheFirstOpenStep, open, stages

LEMMA QualificationHolds ==
  ASSUME QualificationInv
  PROVE  /\ QualificationTypeOK /\ StageIsTheFirstOpenStep /\ ListsAgree
         /\ StaleOnlyByLaterEdits /\ ScriptsAndCockpitAgree
<1>1. QualificationTypeOK
  BY DEF QualificationInv, QualificationTypeOK, Fits, Chosen, Strategies, Hypotheses
<1>2. ListsAgree
  BY DEF ListsAgree, CockpitStage, Readiness, ReachReady, ContactsReady
<1>3. ScriptsAndCockpitAgree
  <2> SUFFICES ASSUME NEW o \in CommonMatch(fit) PROVE ~FitViolation(fit)
    BY DEF ScriptsAndCockpitAgree
  <2>1. o \in Matched(fit) /\ o = fit.offer /\ fit.matches[o].decision = fit.decision /\ ~GateErrors(fit.matches[o])
    BY DEF CommonMatch
  <2>2. SelectedMatch(fit) = {o}
    BY <2>1 DEF SelectedMatch
  <2> SUFFICES ASSUME fit.decision \in Positive
      PROVE  /\ fit.matches[o].gate # "FAIL"
             /\ fit.matches[o].gate = "OPEN" => fit.decision # "pursue"
    BY <2>1, <2>2 DEF FitViolation
  <2> QED
    BY <2>1 DEF GateErrors, Positive
<1> QED
  BY <1>1, <1>2, <1>3, StageFollowsSteps DEF QualificationInv

(***************************************************************************)
(* Nudges and campaigns                                                    *)
(***************************************************************************)
Inventories == [repeatable : SUBSET UseCases, family : SUBSET UseCases, told : SUBSET UseCases,
                edges : SUBSET (UseCases \X UseCases)]
Records == [status : {"hypothesis", "accepted", "rejected"}, by : People \cup {"nobody"}, acknowledged : BOOLEAN]
Launches == [status : {"draft", "sent", "recorded"}, by : People, at : 1..LastSecond]
(* A launch is named by what is launched and by its second.                *)
NamedByItsSecond(id) == \E what \in Campaigns, t \in 1..LastSecond : id = <<what, t>> /\ campaigns[id].at = t
LaunchesAreNamed == \A id \in DOMAIN campaigns : campaigns[id].status # "recorded" => NamedByItsSecond(id)
SentWereLaunched == \A id \in story.sent : campaigns[id].status # "recorded"

NudgesInv ==
  /\ inventory \in Inventories
  /\ nudges \in [DOMAIN nudges -> Records]
  /\ campaigns \in [DOMAIN campaigns -> Launches]
  /\ clock \in 1..LastSecond
  /\ story = [steps |-> story.steps, decided |-> story.decided, read |-> story.read, redone |-> story.redone,
               sent |-> story.sent, relaunched |-> story.relaunched]
  /\ story.decided = [n \in DOMAIN story.decided |-> story.decided[n]]
  /\ DOMAIN story.decided \subseteq {n \in DOMAIN nudges : Decided(nudges[n])}
  /\ story.read \subseteq DOMAIN nudges
  /\ story.sent \subseteq DOMAIN campaigns
  /\ LaunchesAreNamed
  /\ SentWereLaunched
  /\ FirstDecisionStands
  /\ AcknowledgedUntilRegenerated
  /\ SentUnlessRelaunched

LEMMA NudgesInitInv == NudgesInit => NudgesInv
<1> SUFFICES ASSUME NudgesInit PROVE NudgesInv
  OBVIOUS
<1>1. /\ nudges = <<>> /\ campaigns = <<>> /\ clock = 1
      /\ story = [steps |-> 0, decided |-> <<>>, read |-> {}, redone |-> {}, sent |-> {}, relaunched |-> {}]
  BY DEF NudgesInit
<1>2. inventory \in Inventories
  BY DEF NudgesInit, Inventories
<1>3. DOMAIN nudges = {} /\ DOMAIN campaigns = {} /\ DOMAIN story.decided = {}
  BY <1>1
<1>4. nudges \in [DOMAIN nudges -> Records] /\ campaigns \in [DOMAIN campaigns -> Launches]
  BY <1>1
<1>5. clock \in 1..LastSecond
  BY <1>1, NudgesAssumption
<1>6. /\ story = [steps |-> story.steps, decided |-> story.decided, read |-> story.read, redone |-> story.redone,
                   sent |-> story.sent, relaunched |-> story.relaunched]
      /\ story.decided = [n \in DOMAIN story.decided |-> story.decided[n]]
      /\ DOMAIN story.decided \subseteq {n \in DOMAIN nudges : Decided(nudges[n])}
      /\ story.read \subseteq DOMAIN nudges /\ story.sent \subseteq DOMAIN campaigns
  BY <1>1
<1>7. LaunchesAreNamed /\ SentWereLaunched /\ FirstDecisionStands /\ AcknowledgedUntilRegenerated
      /\ SentUnlessRelaunched
  BY <1>1, <1>3 DEF LaunchesAreNamed, SentWereLaunched, FirstDecisionStands,
                    AcknowledgedUntilRegenerated, SentUnlessRelaunched
<1> QED
  BY <1>2, <1>4, <1>5, <1>6, <1>7 DEF NudgesInv

(* What a generation leaves of the nudges on file.                         *)
LEMMA Merged ==
  ASSUME NudgesInv, NEW fresh, nudges' = MergePersisted(nudges, fresh)
  PROVE  /\ nudges' \in [DOMAIN nudges' -> Records]
         /\ DOMAIN nudges \subseteq DOMAIN nudges'
         /\ \A n \in DOMAIN nudges : n \notin fresh \/ Decided(nudges[n]) => nudges'[n] = nudges[n]
<1>1. nudges \in [DOMAIN nudges -> Records]
  BY DEF NudgesInv
<1>2. Fresh \in Records
  BY DEF Fresh, Records
<1> QED
  BY <1>1, <1>2 DEF MergePersisted

(* So the decisions stand, and so do the acknowledgements of what was not  *)
(* generated again while open.                                             *)
LEMMA GeneratedNudges ==
  ASSUME NudgesInv, NEW fresh, nudges' = MergePersisted(nudges, fresh),
         story' = [Step EXCEPT !.redone = @ \cup Redone(fresh)]
  PROVE  /\ story' = [steps |-> story'.steps, decided |-> story'.decided, read |-> story'.read, redone |-> story'.redone,
                      sent |-> story'.sent, relaunched |-> story'.relaunched]
         /\ story'.decided = story.decided /\ story'.read = story.read
         /\ story'.sent = story.sent /\ story'.relaunched = story.relaunched
         /\ DOMAIN story'.decided \subseteq {n \in DOMAIN nudges' : Decided(nudges'[n])}
         /\ story'.read \subseteq DOMAIN nudges'
         /\ FirstDecisionStands'
         /\ AcknowledgedUntilRegenerated'
<1>t. /\ story = [steps |-> story.steps, decided |-> story.decided, read |-> story.read, redone |-> story.redone,
                  sent |-> story.sent, relaunched |-> story.relaunched]
      /\ DOMAIN story.decided \subseteq {n \in DOMAIN nudges : Decided(nudges[n])}
      /\ story.read \subseteq DOMAIN nudges
      /\ FirstDecisionStands /\ AcknowledgedUntilRegenerated
  BY DEF NudgesInv
<1>1. /\ story' = [steps |-> story'.steps, decided |-> story'.decided, read |-> story'.read, redone |-> story'.redone,
                   sent |-> story'.sent, relaunched |-> story'.relaunched]
      /\ story'.decided = story.decided /\ story'.read = story.read
      /\ story'.sent = story.sent /\ story'.relaunched = story.relaunched
      /\ story'.redone = story.redone \cup Redone(fresh)
  BY <1>t DEF Step
<1>2. /\ DOMAIN story'.decided \subseteq {n \in DOMAIN nudges' : Decided(nudges'[n])}
      /\ story'.read \subseteq DOMAIN nudges'
  BY <1>t, <1>1, Merged
<1>3. FirstDecisionStands'
  <2> SUFFICES ASSUME NEW n \in DOMAIN story.decided
      PROVE  n \in DOMAIN nudges' /\ <<nudges'[n].status, nudges'[n].by>> = story.decided[n]
    BY <1>1 DEF FirstDecisionStands
  <2>1. n \in DOMAIN nudges /\ Decided(nudges[n]) /\ <<nudges[n].status, nudges[n].by>> = story.decided[n]
    BY <1>t DEF FirstDecisionStands
  <2> QED
    BY <2>1, Merged
<1>4. AcknowledgedUntilRegenerated'
  <2> SUFFICES ASSUME NEW n \in story.read, n \notin story.redone, n \notin Redone(fresh)
      PROVE  n \in DOMAIN nudges' /\ nudges'[n].acknowledged
    BY <1>1 DEF AcknowledgedUntilRegenerated
  <2>1. n \in DOMAIN nudges /\ nudges[n].acknowledged
    BY <1>t DEF AcknowledgedUntilRegenerated
  <2>2. n \notin fresh \/ Decided(nudges[n])
    BY <2>1 DEF Redone
  <2> QED
    BY <2>1, <2>2, Merged
<1> QED
  BY <1>1, <1>2, <1>3, <1>4

LEMMA NudgesStepInv == NudgesInv /\ (NudgesNext \/ UNCHANGED nudgesVars) => NudgesInv'
<1> SUFFICES ASSUME NudgesInv, NudgesNext \/ UNCHANGED nudgesVars
    PROVE  NudgesInv'
  OBVIOUS
<1>t. /\ inventory \in Inventories /\ nudges \in [DOMAIN nudges -> Records]
      /\ campaigns \in [DOMAIN campaigns -> Launches] /\ clock \in 1..LastSecond
      /\ story = [steps |-> story.steps, decided |-> story.decided, read |-> story.read, redone |-> story.redone,
                  sent |-> story.sent, relaunched |-> story.relaunched]
      /\ story.decided = [n \in DOMAIN story.decided |-> story.decided[n]]
      /\ DOMAIN story.decided \subseteq {n \in DOMAIN nudges : Decided(nudges[n])}
      /\ story.read \subseteq DOMAIN nudges /\ story.sent \subseteq DOMAIN campaigns
      /\ LaunchesAreNamed /\ SentWereLaunched
      /\ FirstDecisionStands /\ AcknowledgedUntilRegenerated /\ SentUnlessRelaunched
  BY DEF NudgesInv
<1>u. CASE UNCHANGED nudgesVars
  BY <1>t, <1>u DEF nudgesVars, NudgesInv, LaunchesAreNamed, NamedByItsSecond, SentWereLaunched,
                    FirstDecisionStands, AcknowledgedUntilRegenerated, SentUnlessRelaunched
<1>1. ASSUME NEW field \in {"repeatable", "family", "told"}, NEW v \in SUBSET UseCases, EditInventory(field, v)
      PROVE  NudgesInv'
  <2>1. inventory' = [inventory EXCEPT ![field] = v] /\ UNCHANGED <<nudges, campaigns, clock>> /\ story' = Step
    BY <1>1 DEF EditInventory
  <2>2. inventory' \in Inventories
    BY <1>t, <2>1 DEF Inventories
  <2> QED
    BY <1>t, <2>1, <2>2 DEF Step, NudgesInv, LaunchesAreNamed, NamedByItsSecond, SentWereLaunched,
                    FirstDecisionStands, AcknowledgedUntilRegenerated, SentUnlessRelaunched
<1>2. ASSUME NEW v \in SUBSET (UseCases \X UseCases), EditInventory("edges", v) PROVE NudgesInv'
  <2>1. inventory' = [inventory EXCEPT !.edges = v] /\ UNCHANGED <<nudges, campaigns, clock>> /\ story' = Step
    BY <1>2 DEF EditInventory
  <2>2. inventory' \in Inventories
    BY <1>t, <2>1 DEF Inventories
  <2> QED
    BY <1>t, <2>1, <2>2 DEF Step, NudgesInv, LaunchesAreNamed, NamedByItsSecond, SentWereLaunched,
                    FirstDecisionStands, AcknowledgedUntilRegenerated, SentUnlessRelaunched
<1>3. ASSUME NEW mode, Generate(mode) PROVE NudgesInv'
  <2>1. /\ nudges' = MergePersisted(nudges, Generated(mode))
        /\ story' = [Step EXCEPT !.redone = @ \cup Redone(Generated(mode))]
        /\ UNCHANGED <<inventory, campaigns, clock>>
    BY <1>3 DEF Generate
  <2>2. /\ story' = [steps |-> story'.steps, decided |-> story'.decided, read |-> story'.read, redone |-> story'.redone,
                     sent |-> story'.sent, relaunched |-> story'.relaunched]
        /\ story'.decided = story.decided
        /\ story'.sent = story.sent /\ story'.relaunched = story.relaunched
        /\ DOMAIN story'.decided \subseteq {n \in DOMAIN nudges' : Decided(nudges'[n])}
        /\ story'.read \subseteq DOMAIN nudges'
        /\ FirstDecisionStands' /\ AcknowledgedUntilRegenerated'
        /\ nudges' \in [DOMAIN nudges' -> Records]
    BY <2>1, GeneratedNudges, Merged
  <2>3. LaunchesAreNamed' /\ SentWereLaunched' /\ SentUnlessRelaunched'
    BY <1>t, <2>1, <2>2 DEF LaunchesAreNamed, NamedByItsSecond, SentWereLaunched, SentUnlessRelaunched
  <2> QED
    BY <1>t, <2>1, <2>2, <2>3 DEF NudgesInv
<1>4. ASSUME NEW n \in DOMAIN nudges, NEW decision \in {"accepted", "rejected"}, NEW p \in People, Decide(n, decision, p)
      PROVE  NudgesInv'
  <2>1. /\ ~Decided(nudges[n]) /\ UNCHANGED <<inventory, campaigns, clock>>
        /\ nudges' = [nudges EXCEPT ![n].status = decision, ![n].by = p]
        /\ story' = [Step EXCEPT !.decided = [m \in DOMAIN @ \cup {n} |-> IF m \in DOMAIN @ THEN @[m] ELSE <<decision, p>>]]
    BY <1>4 DEF Decide
  <2>2. PICK was \in Records : was = nudges[n]
    BY <1>t
  <2>3. PICK now \in Records : /\ now = [was EXCEPT !.status = decision, !.by = p]
                               /\ now.status = decision /\ now.by = p /\ now.acknowledged = was.acknowledged
    <3>1. [was EXCEPT !.status = decision, !.by = p] \in Records
      BY DEF Records
    <3> QED
      BY <3>1 DEF Records
  <2>4. nudges' = [nudges EXCEPT ![n] = now]
    BY <1>t, <2>1, <2>2, <2>3
  <2>5. /\ nudges' \in [DOMAIN nudges' -> Records] /\ DOMAIN nudges' = DOMAIN nudges
        /\ nudges'[n] = now /\ \A m \in DOMAIN nudges : m # n => nudges'[m] = nudges[m]
    BY <1>t, <2>4
  <2>6. PICK decided : decided = [m \in DOMAIN story.decided \cup {n} |->
                                    IF m \in DOMAIN story.decided THEN story.decided[m] ELSE <<decision, p>>]
    OBVIOUS
  <2>7. /\ story' = [steps |-> story'.steps, decided |-> story'.decided, read |-> story'.read, redone |-> story'.redone,
                     sent |-> story'.sent, relaunched |-> story'.relaunched]
        /\ story'.decided = decided /\ story'.read = story.read /\ story'.redone = story.redone
        /\ story'.sent = story.sent /\ story'.relaunched = story.relaunched
    BY <1>t, <2>1, <2>6 DEF Step
  <2>8. n \notin DOMAIN story.decided
    BY <1>t, <2>1
  <2>9. /\ DOMAIN decided = DOMAIN story.decided \cup {n} /\ decided[n] = <<decision, p>>
        /\ \A m \in DOMAIN story.decided : decided[m] = story.decided[m]
        /\ decided = [m \in DOMAIN decided |-> decided[m]]
    BY <2>6, <2>8
  <2>10. FirstDecisionStands'
    <3>1. n \in DOMAIN nudges' /\ <<nudges'[n].status, nudges'[n].by>> = decided[n]
      BY <2>3, <2>5, <2>9
    <3>2. ASSUME NEW m \in DOMAIN story.decided
          PROVE  m \in DOMAIN nudges' /\ <<nudges'[m].status, nudges'[m].by>> = decided[m]
      BY <1>t, <2>5, <2>8, <2>9 DEF FirstDecisionStands
    <3> QED
      BY <2>7, <2>9, <3>1, <3>2 DEF FirstDecisionStands
  <2>11. AcknowledgedUntilRegenerated'
    <3> SUFFICES ASSUME NEW m \in story.read, m \notin story.redone
        PROVE  m \in DOMAIN nudges' /\ nudges'[m].acknowledged
      BY <2>7 DEF AcknowledgedUntilRegenerated
    <3>1. m \in DOMAIN nudges /\ nudges[m].acknowledged
      BY <1>t DEF AcknowledgedUntilRegenerated
    <3> QED
      BY <2>2, <2>3, <2>5, <3>1
  <2>12. LaunchesAreNamed' /\ SentWereLaunched' /\ SentUnlessRelaunched'
    BY <1>t, <2>1, <2>7 DEF LaunchesAreNamed, NamedByItsSecond, SentWereLaunched, SentUnlessRelaunched
  <2>13. DOMAIN decided \subseteq {m \in DOMAIN nudges' : Decided(nudges'[m])}
    BY <1>t, <2>3, <2>5, <2>8, <2>9 DEF Decided
  <2>14. /\ story'.decided = [m \in DOMAIN story'.decided |-> story'.decided[m]]
         /\ DOMAIN story'.decided \subseteq {m \in DOMAIN nudges' : Decided(nudges'[m])}
         /\ story'.read \subseteq DOMAIN nudges' /\ story'.sent \subseteq DOMAIN campaigns'
    <3>1. story'.decided = decided
      BY <2>7
    <3>2. story'.read \subseteq DOMAIN nudges' /\ story'.sent \subseteq DOMAIN campaigns'
      BY <1>t, <2>1, <2>5, <2>7
    <3>3. decided = [m \in DOMAIN decided |-> decided[m]]
      BY <2>9
    <3> QED
      BY <2>13, <3>1, <3>2, <3>3
  <2>15. campaigns' \in [DOMAIN campaigns' -> Launches] /\ inventory' \in Inventories /\ clock' \in 1..LastSecond
         /\ nudges' \in [DOMAIN nudges' -> Records]
    BY <1>t, <2>1, <2>5
  <2> QED
    BY <2>7, <2>10, <2>11, <2>12, <2>14, <2>15 DEF NudgesInv
<1>5. ASSUME NEW n \in DOMAIN nudges, AcknowledgeFalsifier(n) PROVE NudgesInv'
  <2>1. /\ nudges' = [nudges EXCEPT ![n].acknowledged = TRUE] /\ UNCHANGED <<inventory, campaigns, clock>>
        /\ story' = [Step EXCEPT !.read = @ \cup {n}, !.redone = @ \ {n}]
    BY <1>5 DEF AcknowledgeFalsifier
  <2>2. PICK was \in Records : was = nudges[n]
    BY <1>t
  <2>3. PICK now \in Records : /\ now = [was EXCEPT !.acknowledged = TRUE]
                               /\ now.status = was.status /\ now.by = was.by /\ now.acknowledged
    <3>1. [was EXCEPT !.acknowledged = TRUE] \in Records
      BY DEF Records
    <3> QED
      BY <3>1 DEF Records
  <2>4. nudges' = [nudges EXCEPT ![n] = now]
    BY <1>t, <2>1, <2>2, <2>3
  <2>5. /\ nudges' \in [DOMAIN nudges' -> Records] /\ DOMAIN nudges' = DOMAIN nudges
        /\ nudges'[n] = now /\ \A m \in DOMAIN nudges : m # n => nudges'[m] = nudges[m]
    BY <1>t, <2>4
  <2>6. /\ story' = [steps |-> story'.steps, decided |-> story'.decided, read |-> story'.read, redone |-> story'.redone,
                     sent |-> story'.sent, relaunched |-> story'.relaunched]
        /\ story'.decided = story.decided /\ story'.read = story.read \cup {n} /\ story'.redone = story.redone \ {n}
        /\ story'.sent = story.sent /\ story'.relaunched = story.relaunched
    BY <1>t, <2>1 DEF Step
  <2>7. \A m \in DOMAIN nudges : nudges'[m].status = nudges[m].status /\ nudges'[m].by = nudges[m].by
    BY <2>2, <2>3, <2>5
  <2>8. FirstDecisionStands' /\ DOMAIN story.decided \subseteq {m \in DOMAIN nudges' : Decided(nudges'[m])}
    BY <1>t, <2>5, <2>6, <2>7 DEF FirstDecisionStands, Decided
  <2>9. AcknowledgedUntilRegenerated'
    <3> SUFFICES ASSUME NEW m \in story.read \cup {n}, m = n \/ m \notin story.redone
        PROVE  m \in DOMAIN nudges' /\ nudges'[m].acknowledged
      BY <2>6 DEF AcknowledgedUntilRegenerated
    <3>1. CASE m = n
      BY <2>3, <2>5, <3>1
    <3>2. CASE m # n
      BY <1>t, <2>5, <3>2 DEF AcknowledgedUntilRegenerated
    <3> QED
      BY <3>1, <3>2
  <2>10. LaunchesAreNamed' /\ SentWereLaunched' /\ SentUnlessRelaunched'
    BY <1>t, <2>1, <2>6 DEF LaunchesAreNamed, NamedByItsSecond, SentWereLaunched, SentUnlessRelaunched
  <2> QED
    BY ZenonT(60), <1>t, <2>1, <2>5, <2>6, <2>8, <2>9, <2>10 DEF NudgesInv
<1>6. ASSUME NEW what \in Campaigns, NEW p \in People, LaunchProspecting(what, p) PROVE NudgesInv'
  <2>0. PICK id : id = <<what, clock>>
    OBVIOUS
  <2>1. /\ campaigns' = [i \in DOMAIN campaigns \cup {id} |-> IF i = id THEN [status |-> "draft", by |-> p, at |-> clock]
                                                             ELSE campaigns[i]]
        /\ story' = [Step EXCEPT !.relaunched = @ \cup {i \in story.sent : i = id /\ campaigns[i].at = clock}]
        /\ UNCHANGED <<inventory, nudges, clock>>
    BY <1>6, <2>0 DEF LaunchProspecting, CampaignId, SaveCampaign
  <2>2. [status |-> "draft", by |-> p, at |-> clock] \in Launches
    BY <1>t DEF Launches
  <2>3. /\ campaigns' \in [DOMAIN campaigns' -> Launches] /\ DOMAIN campaigns' = DOMAIN campaigns \cup {id}
        /\ campaigns'[id].status = "draft" /\ campaigns'[id].at = clock
        /\ \A i \in DOMAIN campaigns : i # id => campaigns'[i] = campaigns[i]
    BY <1>t, <2>1, <2>2
  <2>4. /\ story' = [steps |-> story'.steps, decided |-> story'.decided, read |-> story'.read, redone |-> story'.redone,
                     sent |-> story'.sent, relaunched |-> story'.relaunched]
        /\ story'.decided = story.decided /\ story'.read = story.read /\ story'.redone = story.redone
        /\ story'.sent = story.sent
        /\ story'.relaunched = story.relaunched \cup {i \in story.sent : i = id /\ campaigns[i].at = clock}
    BY <1>t, <2>1 DEF Step
  <2>5. FirstDecisionStands' /\ AcknowledgedUntilRegenerated'
    BY <1>t, <2>1, <2>4 DEF FirstDecisionStands, AcknowledgedUntilRegenerated
  <2>6. LaunchesAreNamed'
    <3> SUFFICES ASSUME NEW i \in DOMAIN campaigns', campaigns'[i].status # "recorded"
        PROVE  \E w \in Campaigns, t \in 1..LastSecond : i = <<w, t>> /\ campaigns'[i].at = t
      BY DEF LaunchesAreNamed, NamedByItsSecond
    <3>1. CASE i = id
      BY <1>t, <2>0, <2>3, <3>1
    <3>2. CASE i # id
      BY <1>t, <2>3, <3>2 DEF LaunchesAreNamed, NamedByItsSecond
    <3> QED
      BY <3>1, <3>2
  <2>7. SentWereLaunched'
    BY <1>t, <2>3, <2>4 DEF SentWereLaunched
  <2>8. SentUnlessRelaunched'
    <3> SUFFICES ASSUME NEW i \in story.sent, i \notin story'.relaunched
        PROVE  i \in DOMAIN campaigns' /\ campaigns'[i].status = "sent"
      BY <2>4 DEF SentUnlessRelaunched
    <3>1. i \in DOMAIN campaigns /\ campaigns[i].status = "sent"
      BY <1>t, <2>4 DEF SentUnlessRelaunched
    <3>2. PICK w \in Campaigns, t \in 1..LastSecond : i = <<w, t>> /\ campaigns[i].at = t
      BY <1>t, <3>1 DEF LaunchesAreNamed, NamedByItsSecond
    <3>3. i # id
      BY <2>0, <2>4, <3>2
    <3> QED
      BY <2>3, <3>1, <3>3
  <2> QED
    BY <1>t, <2>1, <2>3, <2>4, <2>5, <2>6, <2>7, <2>8 DEF NudgesInv
<1>7. ASSUME NEW id \in DOMAIN campaigns, NEW p \in People, MarkCampaignSent(id, p) PROVE NudgesInv'
  <2>1. /\ campaigns[id].status = "draft" /\ UNCHANGED <<inventory, nudges, clock>>
        /\ campaigns' = [i \in DOMAIN campaigns \cup {id} |->
                           IF i = id THEN [campaigns[id] EXCEPT !.status = "sent", !.by = p] ELSE campaigns[i]]
        /\ story' = [Step EXCEPT !.sent = @ \cup {id}, !.relaunched = @ \ {id}]
    BY <1>7 DEF MarkCampaignSent, SaveCampaign
  <2>2. PICK was \in Launches : was = campaigns[id]
    BY <1>t
  <2>3. PICK now \in Launches : /\ now = [was EXCEPT !.status = "sent", !.by = p]
                                /\ now.status = "sent" /\ now.at = was.at
    <3>1. [was EXCEPT !.status = "sent", !.by = p] \in Launches
      BY DEF Launches
    <3> QED
      BY <3>1 DEF Launches
  <2>4. /\ campaigns' \in [DOMAIN campaigns' -> Launches] /\ DOMAIN campaigns' = DOMAIN campaigns
        /\ campaigns'[id] = now /\ \A i \in DOMAIN campaigns : i # id => campaigns'[i] = campaigns[i]
    <3>1. campaigns' = [i \in DOMAIN campaigns \cup {id} |-> IF i = id THEN now ELSE campaigns[i]]
      BY <2>1, <2>2, <2>3
    <3> QED
      BY <1>t, <3>1
  <2>5. /\ story' = [steps |-> story'.steps, decided |-> story'.decided, read |-> story'.read, redone |-> story'.redone,
                     sent |-> story'.sent, relaunched |-> story'.relaunched]
        /\ story'.decided = story.decided /\ story'.read = story.read /\ story'.redone = story.redone
        /\ story'.sent = story.sent \cup {id} /\ story'.relaunched = story.relaunched \ {id}
    BY <1>t, <2>1 DEF Step
  <2>6. FirstDecisionStands' /\ AcknowledgedUntilRegenerated'
    BY <1>t, <2>1, <2>5 DEF FirstDecisionStands, AcknowledgedUntilRegenerated
  <2>7. LaunchesAreNamed'
    <3> SUFFICES ASSUME NEW i \in DOMAIN campaigns, campaigns'[i].status # "recorded"
        PROVE  \E w \in Campaigns, t \in 1..LastSecond : i = <<w, t>> /\ campaigns'[i].at = t
      BY <2>4 DEF LaunchesAreNamed, NamedByItsSecond
    <3>1. campaigns[i].status # "recorded" /\ campaigns'[i].at = campaigns[i].at
      BY <2>1, <2>2, <2>3, <2>4
    <3> QED
      BY <1>t, <3>1 DEF LaunchesAreNamed, NamedByItsSecond
  <2>8. SentWereLaunched'
    BY <1>t, <2>3, <2>4, <2>5 DEF SentWereLaunched
  <2>9. SentUnlessRelaunched'
    BY <1>t, <2>3, <2>4, <2>5 DEF SentUnlessRelaunched
  <2> QED
    BY <1>t, <2>1, <2>4, <2>5, <2>6, <2>7, <2>8, <2>9 DEF NudgesInv
<1>8. ASSUME NEW p \in People, PrepareCrossSell(p) PROVE NudgesInv'
  <2>0. PICK id : id = <<"cross_sell", p, clock>>
    OBVIOUS
  <2>1. /\ nudges' = MergePersisted(nudges, Generated("cross_sell_package"))
        /\ story' = [Step EXCEPT !.redone = @ \cup Redone(Generated("cross_sell_package"))]
        /\ campaigns' = [i \in DOMAIN campaigns \cup {id} |-> IF i = id THEN [status |-> "recorded", by |-> p, at |-> clock]
                                                             ELSE campaigns[i]]
        /\ UNCHANGED <<inventory, clock>>
    BY <1>8, <2>0 DEF PrepareCrossSell, SaveCampaign
  <2>2. /\ story' = [steps |-> story'.steps, decided |-> story'.decided, read |-> story'.read, redone |-> story'.redone,
                     sent |-> story'.sent, relaunched |-> story'.relaunched]
        /\ story'.decided = story.decided
        /\ story'.sent = story.sent /\ story'.relaunched = story.relaunched
        /\ DOMAIN story'.decided \subseteq {n \in DOMAIN nudges' : Decided(nudges'[n])}
        /\ story'.read \subseteq DOMAIN nudges'
        /\ FirstDecisionStands' /\ AcknowledgedUntilRegenerated'
        /\ nudges' \in [DOMAIN nudges' -> Records]
    BY <2>1, GeneratedNudges, Merged
  <2>3. [status |-> "recorded", by |-> p, at |-> clock] \in Launches
    BY <1>t DEF Launches
  <2>4. /\ campaigns' \in [DOMAIN campaigns' -> Launches] /\ DOMAIN campaigns' = DOMAIN campaigns \cup {id}
        /\ campaigns'[id].status = "recorded"
        /\ \A i \in DOMAIN campaigns : i # id => campaigns'[i] = campaigns[i]
    BY <1>t, <2>1, <2>3
  <2>5. id \notin story.sent
    <3> SUFFICES ASSUME id \in story.sent PROVE FALSE
      OBVIOUS
    <3>1. PICK w \in Campaigns, t \in 1..LastSecond : id = <<w, t>>
      BY <1>t DEF LaunchesAreNamed, NamedByItsSecond, SentWereLaunched
    <3>2. Len(<<w, t>>) = 2 /\ Len(<<"cross_sell", p, clock>>) = 3
      OBVIOUS
    <3> QED
      BY <2>0, <3>1, <3>2
  <2>6. LaunchesAreNamed'
    <3> SUFFICES ASSUME NEW i \in DOMAIN campaigns', campaigns'[i].status # "recorded"
        PROVE  \E w \in Campaigns, t \in 1..LastSecond : i = <<w, t>> /\ campaigns'[i].at = t
      BY DEF LaunchesAreNamed, NamedByItsSecond
    <3> QED
      BY <1>t, <2>4 DEF LaunchesAreNamed, NamedByItsSecond
  <2>7. SentWereLaunched' /\ SentUnlessRelaunched'
    BY <1>t, <2>2, <2>4, <2>5 DEF SentWereLaunched, SentUnlessRelaunched
  <2> QED
    BY <1>t, <2>1, <2>2, <2>4, <2>6, <2>7 DEF NudgesInv
<1>9. CASE SecondPasses
  <2>1. clock < LastSecond /\ clock' = clock + 1 /\ UNCHANGED <<inventory, nudges, campaigns, story>>
    BY <1>9 DEF SecondPasses
  <2>2. clock' \in 1..LastSecond
    BY <1>t, <2>1, NudgesAssumption
  <2> QED
    BY <1>t, <2>1, <2>2 DEF NudgesInv, LaunchesAreNamed, NamedByItsSecond, SentWereLaunched,
                    FirstDecisionStands, AcknowledgedUntilRegenerated, SentUnlessRelaunched
<1>10. CASE BuildBoard
  BY <1>3, <1>10 DEF BuildBoard
<1> QED
  BY <1>u, <1>1, <1>2, <1>3, <1>4, <1>5, <1>6, <1>7, <1>8, <1>9, <1>10 DEF NudgesNext

LEMMA NudgesHold ==
  ASSUME NudgesInv
  PROVE  NudgesTypeOK /\ FirstDecisionStands /\ AcknowledgedUntilRegenerated /\ SentUnlessRelaunched
BY DEF NudgesInv, NudgesTypeOK, Inventories, Records, Launches

(***************************************************************************)
(* The platform                                                            *)
(***************************************************************************)
IInv ==
  /\ part \in Parts
  /\ AccessInv /\ NetworkInv /\ ProductInv /\ PromotionInv /\ MigrationInv
  /\ WorkspaceInv /\ StudiesInv /\ QualificationInv /\ NudgesInv

LEMMA PlatformInit == Init => IInv
BY AccessInitInv, NetworkInitInv, ProductInitInv, PromotionInitInv, MigrationInitInv,
   WorkspaceInitInv, StudiesInitInv, QualificationInitInv, NudgesInitInv
   DEF Init, IInv

LEMMA PlatformStep == IInv /\ [Next]_vars => IInv'
<1> SUFFICES ASSUME IInv, [Next]_vars PROVE IInv'
  OBVIOUS
<1>1. part' = part
  BY DEF Next, Only, vars
<1>2. AccessNext \/ UNCHANGED accessVars
  BY DEF Next, Only, vars
<1>3. NetworkNext \/ UNCHANGED networkVars
  BY DEF Next, Only, vars
<1>4. ProductNext \/ UNCHANGED productVars
  BY DEF Next, Only, vars
<1>5. PromotionNext \/ UNCHANGED promotionVars
  BY DEF Next, Only, vars
<1>6. MigrationNext \/ UNCHANGED migrationVars
  BY DEF Next, Only, vars
<1>7. WorkspaceNext \/ UNCHANGED workspaceVars
  BY DEF Next, Only, vars
<1>8. StudiesNext \/ UNCHANGED studiesVars
  BY DEF Next, Only, vars
<1>9. QualificationNext \/ UNCHANGED qualificationVars
  BY DEF Next, Only, vars
<1>10. NudgesNext \/ UNCHANGED nudgesVars
  BY DEF Next, Only, vars
<1> QED
  BY <1>1, <1>2, <1>3, <1>4, <1>5, <1>6, <1>7, <1>8, <1>9, <1>10,
     AccessStepInv, NetworkStepInv, ProductStepInv, PromotionStepInv, MigrationStepInv,
     WorkspaceStepInv, StudiesStepInv, QualificationStepInv, NudgesStepInv
     DEF IInv

LEMMA Invariance == Spec => []IInv
BY PlatformInit, PlatformStep, PTL DEF Spec

(* Every component keeps its records within their types, whichever is at   *)
(* work.                                                                   *)
THEOREM TypeCorrect == Spec => []TypeOK
<1>1. IInv => TypeOK
  <2> SUFFICES ASSUME IInv PROVE TypeOK
    OBVIOUS
  <2>1. /\ AccessTypeOK /\ NetworkTypeOK /\ ProductTypeOK /\ PromotionTypeOK /\ MigrationTypeOK
        /\ WorkspaceTypeOK /\ StudiesTypeOK /\ QualificationTypeOK /\ NudgesTypeOK
    BY AccessHolds, NetworksHold, ProductsHold, PromotionsHold, MigrationsHold, WorkspacesHold,
       StudiesStand, QualificationHolds, NudgesHold DEF IInv
  <2>2. part \in Parts
    BY DEF IInv
  <2> QED
    BY <2>1, <2>2 DEF TypeOK, Parts
<1> QED
  BY <1>1, Invariance, PTL

(* A migration can be taken back.  What the record migration put and was   *)
(* not stopped over is on a manifest, whole, and the records of people     *)
(* stay where they were (app/migrations); a workspace migration that was   *)
(* applied is complete, and after its rollback the destination is as it    *)
(* was (scripts/migrate_workspace.py).                                     *)
THEOREM MigrationsComeBack == Spec => []MigrationsAreReversible
<1>1. IInv => MigrationsAreReversible
  BY MigrationsHold, WorkspacesHold DEF IInv, MigrationsAreReversible
<1> QED
  BY <1>1, Invariance, PTL

(* However many publishers overlap and wherever one stops, a product has   *)
(* one published version, with its snapshot and its event, unless the      *)
(* history says which overlap or stop cost it; a promoted offer has a      *)
(* sheet, is indexed once, and no sheet of a person is overwritten         *)
(* (publish_product_version, promote_offer).                               *)
THEOREM CatalogCoherent == Spec => []CatalogHolds
<1>1. IInv => CatalogHolds
  BY ProductsHold, PromotionsHold DEF IInv, CatalogHolds
<1> QED
  BY <1>1, Invariance, PTL

(* The network's files and their index agree and what a route answered for *)
(* is on file; every act of a route rested on a session, a membership and  *)
(* a right its caller had during the call, and the trail of overrides      *)
(* misses none (network routes, authruntime).                              *)
THEOREM NetworkAndAccessSound == Spec => []NetworkAndAccessHold
<1>1. IInv => NetworkAndAccessHold
  BY NetworksHold, AccessHolds DEF IInv, NetworkAndAccessHold
<1> QED
  BY <1>1, Invariance, PTL

(* A finished profile outlives the replacing of its study, a study a       *)
(* record points at is there, a second sync has nothing to do and the view *)
(* promises no benchmark the script cannot build; the stages the board and *)
(* the cockpit show agree; a nudge decided, read or sent stays so until    *)
(* the tools regenerate it (init_study, sync_study_queue, demand, nudges). *)
THEOREM StudiesStay == Spec => []StudiesHold
<1>1. IInv => StudiesHold
  BY StudiesStand, QualificationHolds, NudgesHold DEF IInv, StudiesHold
<1> QED
  BY <1>1, Invariance, PTL
=============================================================================
