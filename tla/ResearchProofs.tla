---------------------------- MODULE ResearchProofs ----------------------------
(***************************************************************************)
(* MCResearch, for every value of its constants: signals, research cases   *)
(* and passes.  The three share no variable and a step moves one of them,  *)
(* so each has an inductive invariant of its own, preserved by its steps   *)
(* and by the steps that leave it alone.                                   *)
(***************************************************************************)
EXTENDS MCResearch, FiniteSetTheorems, SequenceTheorems, TLAPS

(***************************************************************************)
(* Least and greatest elements                                             *)
(***************************************************************************)
LEMMA LeastOf ==
  ASSUME NEW S \in SUBSET Nat, S # {}
  PROVE  \E x \in S : \A y \in S : x <= y
<1> DEFINE R == OpToRel(<, Nat)
<1>1. PICK x \in S : \A y \in S : ~(<<y, x>> \in R)
  BY NatLessThanWellFounded, WFMin
<1>2. ASSUME NEW y \in S PROVE x <= y
  <2>1. x \in Nat /\ y \in Nat
    OBVIOUS
  <2>2. y < x => <<y, x>> \in R
    BY <2>1 DEF OpToRel
  <2> HIDE DEF R
  <2> QED
    BY <1>1, <2>1, <2>2
<1> QED
  BY <1>2

(* The numbers of a set below one of them: more of them the greater it is. *)
Below(ids, i) == {j \in ids : j < i}

LEMMA BelowGrows ==
  ASSUME NEW ids \in SUBSET Nat, IsFiniteSet(ids), NEW i \in ids
  PROVE  /\ IsFiniteSet(Below(ids, i))
         /\ Cardinality(Below(ids, i)) \in Nat
         /\ Cardinality(Below(ids, i)) < Cardinality(ids)
         /\ \A j \in ids : j < i => Cardinality(Below(ids, j)) < Cardinality(Below(ids, i))
         /\ \A j \in ids : j <= i => Cardinality(Below(ids, j)) <= Cardinality(Below(ids, i))
<1>1. \A j \in ids : /\ IsFiniteSet(Below(ids, j))
                     /\ Cardinality(Below(ids, j)) \in Nat
  <2> SUFFICES ASSUME NEW j \in ids
      PROVE IsFiniteSet(Below(ids, j)) /\ Cardinality(Below(ids, j)) \in Nat
    OBVIOUS
  <2>1. Below(ids, j) \in SUBSET ids
    BY DEF Below
  <2> QED
    BY <2>1, FS_Subset, FS_CardinalityType
<1>2. Cardinality(ids) \in Nat
  BY FS_CardinalityType
<1>3. Cardinality(Below(ids, i)) < Cardinality(ids)
  <2>1. Below(ids, i) \in SUBSET ids /\ Below(ids, i) # ids
    BY DEF Below
  <2> QED
    BY <2>1, <1>1, <1>2, FS_Subset
<1>4. ASSUME NEW j \in ids, j < i
      PROVE  Cardinality(Below(ids, j)) < Cardinality(Below(ids, i))
  <2>1. ASSUME NEW k \in Below(ids, j) PROVE k \in Below(ids, i)
    <3>1. k \in ids /\ k < j
      BY DEF Below
    <3>2. k \in Nat /\ j \in Nat /\ i \in Nat
      BY <3>1
    <3>3. k < i
      BY <3>1, <3>2, <1>4
    <3> QED
      BY <3>1, <3>3 DEF Below
  <2>2. j \in Below(ids, i) /\ j \notin Below(ids, j)
    BY <1>4 DEF Below
  <2>3. /\ Cardinality(Below(ids, j)) <= Cardinality(Below(ids, i))
        /\ Cardinality(Below(ids, j)) # Cardinality(Below(ids, i))
    BY <2>1, <2>2, <1>1, FS_Subset
  <2> QED
    BY <2>3, <1>1
<1>5. ASSUME NEW j \in ids, j <= i
      PROVE  Cardinality(Below(ids, j)) <= Cardinality(Below(ids, i))
  <2>1. CASE j = i
    BY <2>1, <1>1
  <2>2. CASE j < i
    BY <2>2, <1>1, <1>4
  <2> QED
    BY <1>5, <2>1, <2>2
<1> QED
  BY <1>1, <1>3, <1>4, <1>5

(***************************************************************************)
(* Signals                                                                 *)
(***************************************************************************)
(* A page is all of a short rest, or the part of a long one up to its      *)
(* greatest member: the members are those with fewer than Limit below.     *)
LEMMA PageCuts ==
  ASSUME NEW rest \in SUBSET SignalIds
  PROVE  /\ Page(rest) \subseteq rest
         /\ Cardinality(rest) \in Nat
         /\ ~(Cardinality(rest) > Limit) => Page(rest) = rest
         /\ Cardinality(rest) > Limit =>
              /\ Max(Page(rest)) \in Page(rest)
              /\ \A i \in rest : i \in Page(rest) <=> i <= Max(Page(rest))
<1> USE SignalAssumption
<1>1. /\ rest \in SUBSET Nat /\ IsFiniteSet(rest)
      /\ Cardinality(rest) \in Nat
  BY FS_Subset, FS_CardinalityType
<1>2. Page(rest) = {i \in rest : Cardinality(Below(rest, i)) < Limit}
  BY DEF Page, Below
<1>3. ASSUME ~(Cardinality(rest) > Limit) PROVE Page(rest) = rest
  <2>1. ASSUME NEW i \in rest PROVE i \in Page(rest)
    <3>1. PICK n \in Nat : n = Cardinality(Below(rest, i)) /\ n < Cardinality(rest)
      BY <1>1, BelowGrows
    <3> QED
      BY <3>1, <1>1, <1>2, <1>3
  <2> QED
    BY <2>1, <1>2
<1>4. ASSUME Cardinality(rest) > Limit
      PROVE  /\ Max(Page(rest)) \in Page(rest)
             /\ \A i \in rest : i \in Page(rest) <=> i <= Max(Page(rest))
  <2>1. rest # {}
    BY <1>1, <1>4, FS_EmptySet
  <2>2. PICK first \in rest : \A i \in rest : first <= i
    BY <1>1, <2>1, LeastOf
  <2>3. Below(rest, first) = {}
    <3>1. ASSUME NEW i \in rest PROVE ~(i < first)
      <4>1. i \in Nat /\ first \in Nat /\ first <= i
        BY <2>2, <1>1
      <4> QED
        BY <4>1
    <3> QED
      BY <3>1 DEF Below
  <2>4. first \in Page(rest)
    BY <2>3, <1>2, FS_EmptySet
  <2> DEFINE left(i) == Limit - Cardinality(Below(rest, i))
             Left == {left(i) : i \in Page(rest)}
  <2>5. Left \in SUBSET Nat
    <3>1. ASSUME NEW i \in Page(rest) PROVE left(i) \in Nat
      <4>1. PICK n \in Nat : n = Cardinality(Below(rest, i)) /\ n < Limit
        BY <1>1, <1>2, BelowGrows
      <4> QED
        BY <4>1
    <3> QED
      BY <3>1
  <2>6. PICK last \in Page(rest) : \A i \in Page(rest) : left(last) <= left(i)
    <3>1. Left # {}
      BY <2>4
    <3>2. \E x \in Left : \A y \in Left : x <= y
      BY <3>1, <2>5, LeastOf
    <3> QED
      BY <3>2
  <2>7. last \in rest /\ last \in Nat /\ Cardinality(Below(rest, last)) < Limit
    BY <1>1, <1>2
  <2>8. ASSUME NEW i \in Page(rest) PROVE i <= last
    <3>1. i \in rest /\ i \in Nat
      BY <1>1, <1>2
    <3>2. PICK n \in Nat, m \in Nat :
            n = Cardinality(Below(rest, i)) /\ m = Cardinality(Below(rest, last))
      BY <1>1, <2>7, <3>1, BelowGrows
    <3>3. Limit - m <= Limit - n
      BY <2>6, <3>2
    <3>4. last < i => m < n
      BY <1>1, <2>7, <3>1, <3>2, BelowGrows
    <3> QED
      BY <2>7, <3>1, <3>2, <3>3, <3>4
  <2>9. Max(Page(rest)) \in Page(rest) /\ \A i \in Page(rest) : Max(Page(rest)) >= i
    <3>1. \A i \in Page(rest) : last >= i
      BY <2>7, <2>8, <1>1, <1>2
    <3> QED
      BY <3>1 DEF Max
  <2>10. ASSUME NEW i \in rest, i <= Max(Page(rest)) PROVE i \in Page(rest)
    <3>1. Max(Page(rest)) \in rest /\ Cardinality(Below(rest, Max(Page(rest)))) < Limit
      BY <2>9, <1>2
    <3>2. PICK n \in Nat, m \in Nat : /\ n = Cardinality(Below(rest, i))
                                      /\ m = Cardinality(Below(rest, Max(Page(rest))))
                                      /\ n <= m
      BY <1>1, <2>10, <3>1, BelowGrows
    <3> QED
      BY <1>2, <3>1, <3>2
  <2> QED
    BY <2>9, <2>10, <1>1, <1>2
<1> QED
  BY <1>1, <1>2, <1>3, <1>4

(* The list and the walk are records, which the type invariant leaves to   *)
(* their fields.                                                           *)
Lists == [kind : {"none", "list", "smart_list", "watchlist"}, version : Nat,
          members : SUBSET SignalIds, criteria : Criteria, touched : SUBSET SignalIds]
Walks == [state : {"none", "on", "done"}, cursor : Nat, seen : [SignalIds -> Nat],
          steady : SUBSET SignalIds, criteria : Criteria]

(* A smart list is its search, but for what was put since.                 *)
ListInv ==
  list.kind = "smart_list" =>
    \A i \in SignalIds \ list.touched :
      i \in list.members <=> i \in Search(signals, list.criteria)

(* A walk has seen nothing twice and nothing beyond its cursor; what       *)
(* answers its search all along it has seen up to the cursor, and to the   *)
(* end when it is done.                                                    *)
WalkInv ==
  /\ walk.steady \subseteq Search(signals, walk.criteria)
  /\ \A i \in SignalIds : walk.seen[i] <= 1
  /\ walk.state = "on" =>
       /\ \A i \in SignalIds : i > walk.cursor => walk.seen[i] = 0
       /\ \A i \in walk.steady : i <= walk.cursor => walk.seen[i] = 1
  /\ walk.state = "done" => \A i \in walk.steady : walk.seen[i] = 1

SignalInv == SignalTypeOK /\ list \in Lists /\ walk \in Walks /\ ListInv /\ WalkInv

LEMMA SignalInitInv == SignalInit => SignalInv
<1> SUFFICES ASSUME SignalInit PROVE SignalInv
  OBVIOUS
<1> USE SignalAssumption
<1>1. [kind |-> "any", status |-> "any"] \in Criteria
  BY DEF Criteria
<1>2. list \in Lists /\ walk \in Walks
  BY <1>1 DEF SignalInit, NoList, NoWalk, Lists, Walks
<1>3. DOMAIN signals = {} /\ puts = 0
  BY DEF SignalInit
<1>4. SignalTypeOK
  BY <1>1, <1>2, <1>3 DEF SignalInit, SignalTypeOK, NoList, NoWalk
<1>5. ListInv /\ WalkInv
  BY DEF SignalInit, NoList, NoWalk, ListInv, WalkInv
<1> QED
  BY <1>2, <1>4, <1>5 DEF SignalInv

(* What a put may write: any records, under any identifiers.               *)
LEMMA PutInv ==
  ASSUME SignalInv, NEW new, DOMAIN new \subseteq SignalIds,
         \A i \in DOMAIN new : new[i] \in Signal,
         Put(new)
  PROVE  SignalInv'
<1> USE SignalAssumption
<1> DEFINE store == [i \in DOMAIN signals \cup DOMAIN new |->
                       IF i \in DOMAIN new THEN new[i] ELSE signals[i]]
           old == Search(signals, walk.criteria)
<1>1. /\ signals' = store
      /\ list' = [list EXCEPT !.touched = @ \cup DOMAIN new]
      /\ walk' = [walk EXCEPT !.steady = @ \cap Search(store, walk.criteria)]
      /\ puts' = puts + 1 /\ puts < MaxPuts
  BY DEF Put
<1>2. SignalTypeOK /\ list \in Lists /\ walk \in Walks
  BY DEF SignalInv
<1>3. list' \in Lists /\ walk' \in Walks
  BY <1>1, <1>2 DEF Lists, Walks
<1>4. /\ list'.kind = list.kind /\ list'.version = list.version
      /\ list'.members = list.members /\ list'.criteria = list.criteria
      /\ list'.touched = list.touched \cup DOMAIN new
  BY <1>1, <1>2 DEF Lists
<1>5. /\ walk'.state = walk.state /\ walk'.cursor = walk.cursor /\ walk'.seen = walk.seen
      /\ walk'.criteria = walk.criteria
      /\ walk'.steady = walk.steady \cap Search(store, walk.criteria)
  BY <1>1, <1>2 DEF Walks
<1>6. DOMAIN store = DOMAIN signals \cup DOMAIN new
  OBVIOUS
<1>7. SignalTypeOK'
  <2>1. DOMAIN signals' \subseteq SignalIds /\ \A i \in DOMAIN signals' : signals'[i] \in Signal
    BY <1>1, <1>2, <1>6 DEF SignalTypeOK
  <2>2. puts' \in 0..MaxPuts
    BY <1>1, <1>2 DEF SignalTypeOK
  <2>3. list'.members \cup list'.touched \cup walk'.steady \subseteq SignalIds
    BY <1>3 DEF Lists, Walks
  <2> QED
    BY <2>1, <2>2, <2>3, <1>2, <1>4, <1>5 DEF SignalTypeOK
<1>8. ListInv'
  <2> SUFFICES ASSUME list'.kind = "smart_list", NEW i \in SignalIds \ list'.touched
      PROVE  i \in list'.members <=> i \in Search(signals', list'.criteria)
    BY DEF ListInv
  <2>1. i \in SignalIds \ list.touched /\ i \notin DOMAIN new
    BY <1>4
  <2>2. i \in Search(signals, list.criteria) <=> i \in Search(store, list.criteria)
    BY <2>1, <1>6 DEF Search
  <2>3. i \in list.members <=> i \in Search(signals, list.criteria)
    BY <2>1, <1>4 DEF SignalInv, ListInv
  <2> QED
    BY <2>2, <2>3, <1>1, <1>4
<1>9. WalkInv'
  BY <1>1, <1>5 DEF SignalInv, WalkInv
<1> QED
  BY <1>3, <1>7, <1>8, <1>9 DEF SignalInv

LEMMA VersionInv ==
  ASSUME SignalInv, NEW kind \in {"list", "smart_list", "watchlist"},
         NEW members \in SUBSET SignalIds, NEW criteria \in Criteria,
         kind = "smart_list" => members = Search(signals, criteria),
         NewVersion(kind, members, criteria)
  PROVE  SignalInv'
<1>1. /\ list' = [kind |-> kind, version |-> list.version + 1, members |-> members,
                  criteria |-> criteria, touched |-> {}]
      /\ UNCHANGED <<signals, walk, puts>>
  BY DEF NewVersion
<1>2. SignalTypeOK /\ list \in Lists /\ walk \in Walks
  BY DEF SignalInv
<1>3. list' \in Lists
  BY <1>1, <1>2 DEF Lists
<1>4. SignalTypeOK'
  BY <1>1, <1>2, <1>3 DEF SignalTypeOK, Lists
<1>5. ListInv'
  BY <1>1 DEF ListInv
<1>6. WalkInv'
  BY <1>1 DEF SignalInv, WalkInv
<1> QED
  BY <1>1, <1>2, <1>3, <1>4, <1>5, <1>6 DEF SignalInv

LEMMA NextPageInv == SignalInv /\ NextPage => SignalInv'
<1> SUFFICES ASSUME SignalInv, NextPage PROVE SignalInv'
  OBVIOUS
<1> USE SignalAssumption
<1> DEFINE rest == After(Search(signals, walk.criteria), walk.cursor)
           page == Page(rest)
<1>1. SignalTypeOK /\ list \in Lists /\ walk \in Walks
  BY DEF SignalInv
<1>2. rest \in SUBSET SignalIds
  BY <1>1 DEF After, Search, SignalTypeOK
<1>3. /\ walk.state = "on"
      /\ walk'.seen = [i \in SignalIds |-> walk.seen[i] + IF i \in page THEN 1 ELSE 0]
      /\ walk'.state = IF Cardinality(rest) > Limit THEN "on" ELSE "done"
      /\ walk'.cursor = IF Cardinality(rest) > Limit THEN Max(page) ELSE 0
      /\ walk'.steady = walk.steady /\ walk'.criteria = walk.criteria
      /\ UNCHANGED <<signals, list, puts>>
  BY <1>1 DEF NextPage, Walks
<1>4. /\ page \subseteq rest
      /\ ~(Cardinality(rest) > Limit) => page = rest
      /\ Cardinality(rest) > Limit =>
           Max(page) \in page /\ \A i \in rest : i \in page <=> i <= Max(page)
  BY <1>2, PageCuts
<1>5. \A i \in SignalIds : i \in Nat /\ walk.seen[i] \in Nat
  BY <1>1 DEF Walks
<1>6. walk.cursor \in Nat
  BY <1>1 DEF Walks
<1> HIDE DEF page
<1>7. ASSUME NEW i \in rest PROVE walk.seen[i] = 0
  BY <1>2, <1>3 DEF SignalInv, WalkInv, After
<1>8. ASSUME NEW i \in walk.steady
      PROVE  i \in SignalIds /\ (i \in rest \/ (i <= walk.cursor /\ walk.seen[i] = 1))
  <2>1. i \in Search(signals, walk.criteria) /\ i \in SignalIds /\ i \in Nat
    BY <1>1 DEF SignalInv, WalkInv, Walks
  <2>2. CASE i > walk.cursor
    BY <2>1, <2>2 DEF After
  <2>3. CASE ~(i > walk.cursor)
    BY <2>1, <2>3, <1>3, <1>6 DEF SignalInv, WalkInv
  <2> QED
    BY <2>1, <2>2, <2>3
<1>9. \A i \in page : walk'.seen[i] = 1
  BY <1>2, <1>3, <1>4, <1>7
<1>10. \A i \in SignalIds \ page : walk'.seen[i] = walk.seen[i]
  BY <1>3, <1>5
<1>11. \A i \in SignalIds : walk'.seen[i] <= 1 /\ walk'.seen[i] \in Nat
  BY <1>5, <1>9, <1>10 DEF SignalInv, WalkInv
<1>12. walk' \in Walks /\ walk'.cursor \in SignalIds \cup {0}
  <2>1. walk'.seen \in [SignalIds -> Nat]
    BY <1>3, <1>11
  <2>2. walk'.cursor \in SignalIds \cup {0}
    BY <1>2, <1>3, <1>4
  <2>3. walk'.state \in {"none", "on", "done"}
    BY <1>3
  <2>4. walk' = [state |-> walk'.state, cursor |-> walk'.cursor, seen |-> walk'.seen,
                 steady |-> walk'.steady, criteria |-> walk'.criteria]
    BY <1>1 DEF NextPage, Walks
  <2>5. walk'.steady \in SUBSET SignalIds /\ walk'.criteria \in Criteria
    BY <1>1, <1>3 DEF Walks
  <2>6. walk'.cursor \in Nat
    <3>1. SignalIds \cup {0} \subseteq Nat
      OBVIOUS
    <3> QED
      BY <2>2, <3>1, Zenon
  <2>7. walk' \in Walks
    BY <2>1, <2>3, <2>4, <2>5, <2>6 DEF Walks
  <2> QED
    BY <2>2, <2>7
<1>13. SignalTypeOK'
  BY <1>1, <1>3, <1>12 DEF SignalTypeOK, Walks
<1>14. ListInv'
  BY <1>3 DEF SignalInv, ListInv
<1>15. WalkInv'
  <2>1. walk'.steady \subseteq Search(signals', walk'.criteria)
    BY <1>3 DEF SignalInv, WalkInv
  <2>2. CASE Cardinality(rest) > Limit
    <3>1. walk'.cursor = Max(page) /\ Max(page) \in rest /\ Max(page) \in Nat /\ walk'.state = "on"
      BY <2>2, <1>2, <1>3, <1>4
    <3>2. ASSUME NEW i \in SignalIds, i > walk'.cursor PROVE walk'.seen[i] = 0
      <4>1. i > walk.cursor
        <5>1. Max(page) > walk.cursor
          BY <3>1 DEF After
        <5>2. PICK greatest \in Nat, n \in Nat, cursor \in Nat :
                greatest = Max(page) /\ n = i /\ cursor = walk.cursor
          BY <3>1, <1>5, <1>6
        <5>3. n > greatest /\ greatest > cursor
          BY <5>1, <5>2, <3>1, <3>2
        <5> QED
          BY <5>2, <5>3
      <4>2. i \notin page
        <5>1. ~(i <= Max(page))
          BY <3>1, <3>2, <1>5
        <5> QED
          BY <5>1, <2>2, <1>4
      <4> QED
        BY <4>1, <4>2, <1>3, <1>10 DEF SignalInv, WalkInv
    <3>3. ASSUME NEW i \in walk'.steady, i <= walk'.cursor PROVE walk'.seen[i] = 1
      <4>1. CASE i \in page
        BY <4>1, <1>9
      <4>2. CASE i \notin page
        BY <4>2, <3>1, <3>3, <2>2, <1>3, <1>4, <1>8, <1>10
      <4> QED
        BY <4>1, <4>2
    <3> QED
      BY <2>1, <3>1, <3>2, <3>3, <1>11 DEF WalkInv
  <2>3. CASE ~(Cardinality(rest) > Limit)
    <3>1. walk'.state = "done" /\ page = rest
      BY <2>3, <1>3, <1>4
    <3>2. \A i \in walk'.steady : walk'.seen[i] = 1
      BY <3>1, <1>3, <1>8, <1>9, <1>10
    <3> QED
      BY <2>1, <3>1, <3>2, <1>11 DEF WalkInv
  <2> QED
    BY <2>2, <2>3
<1> QED
  BY <1>3, <1>1, <1>12, <1>13, <1>14, <1>15 DEF SignalInv

LEMMA SignalStepInv == SignalInv /\ (SignalNext \/ UNCHANGED signalVars) => SignalInv'
<1> SUFFICES ASSUME SignalInv, SignalNext \/ UNCHANGED signalVars
    PROVE  SignalInv'
  OBVIOUS
<1> USE SignalAssumption
<1>t. SignalTypeOK /\ list \in Lists /\ walk \in Walks
  BY DEF SignalInv
<1>1. ASSUME NEW kind \in Kinds \ {"import"}, Ingest(kind)
      PROVE  SignalInv'
  <2>1. PICK i \in Fresh : Put([x \in {i} |-> [kind |-> kind, status |-> "new"]])
    BY <1>1 DEF Ingest
  <2> DEFINE new == [x \in {i} |-> [kind |-> kind, status |-> "new"]]
  <2>2. DOMAIN new \subseteq SignalIds /\ \A x \in DOMAIN new : new[x] \in Signal
    BY DEF Fresh, Signal, Statuses
  <2> HIDE DEF new
  <2> QED
    BY <2>1, <2>2, PutInv DEF new
<1>2. ASSUME NEW rows \in [1..2 -> {"wellformed", "malformed"}], IngestImport(rows)
      PROVE  SignalInv'
  <2>1. PICK ids \in SUBSET Fresh : Put([i \in ids |-> [kind |-> "import", status |-> "new"]])
    BY <1>2 DEF IngestImport, kSubset
  <2> DEFINE new == [i \in ids |-> [kind |-> "import", status |-> "new"]]
  <2>2. DOMAIN new \subseteq SignalIds /\ \A x \in DOMAIN new : new[x] \in Signal
    BY <1>2 DEF Fresh, Signal, Statuses, IngestImport
  <2> HIDE DEF new
  <2> QED
    BY <2>1, <2>2, PutInv DEF new
<1>3. ASSUME NEW i \in DOMAIN signals, NEW status \in Statuses, Move(i, status)
      PROVE  SignalInv'
  <2> DEFINE new == [x \in {i} |-> [signals[i] EXCEPT !.status = status]]
  <2>1. Put(new)
    BY <1>3 DEF Move
  <2>2. DOMAIN new \subseteq SignalIds /\ \A x \in DOMAIN new : new[x] \in Signal
    BY <1>t DEF SignalTypeOK, Signal
  <2> HIDE DEF new
  <2> QED
    BY <2>1, <2>2, PutInv
<1>4. ASSUME NEW kind \in {"list", "watchlist"}, NEW members \in SUBSET DOMAIN signals,
             Create(kind, members)
      PROVE  SignalInv'
  <2>1. NoList.criteria \in Criteria /\ members \in SUBSET SignalIds
    BY <1>t DEF NoList, Criteria, SignalTypeOK
  <2> QED
    BY <1>4, <2>1, VersionInv DEF Create
<1>5. ASSUME NEW members \in SUBSET DOMAIN signals, UpdateMembers(members)
      PROVE  SignalInv'
  <2>1. list.criteria \in Criteria /\ members \in SUBSET SignalIds
    BY <1>t DEF Lists, SignalTypeOK
  <2> QED
    BY <1>5, <2>1, VersionInv DEF UpdateMembers
<1>6. ASSUME NEW criteria \in Searches, Materialize(criteria)
      PROVE  SignalInv'
  <2>1. criteria \in Criteria /\ Search(signals, criteria) \in SUBSET SignalIds
    BY <1>t, SearchAssumption DEF Search, SignalTypeOK
  <2> QED
    BY <1>6, <2>1, VersionInv DEF Materialize
<1>7. ASSUME NEW criteria \in Searches, BeginWalk(criteria)
      PROVE  SignalInv'
  <2>1. criteria \in Criteria /\ Search(signals, criteria) \in SUBSET SignalIds
    BY <1>t, SearchAssumption DEF Search, SignalTypeOK
  <2>2. /\ walk' = [state |-> "on", cursor |-> 0, seen |-> [i \in SignalIds |-> 0],
                    steady |-> Search(signals, criteria), criteria |-> criteria]
        /\ UNCHANGED <<signals, list, puts>>
    BY <1>7 DEF BeginWalk, NoWalk
  <2>3. walk' \in Walks
    BY <2>1, <2>2 DEF Walks
  <2>4. SignalTypeOK'
    BY <1>t, <2>2, <2>3 DEF SignalTypeOK, Walks
  <2>5. ListInv'
    BY <2>2 DEF SignalInv, ListInv
  <2>6. WalkInv'
    <3>1. ASSUME NEW i \in walk'.steady PROVE ~(i <= walk'.cursor)
      <4>1. i \in Nat /\ i # 0 /\ walk'.cursor = 0
        BY <2>1, <2>2
      <4> QED
        BY <4>1
    <3> QED
      BY <2>2, <3>1 DEF WalkInv
  <2> QED
    BY <1>t, <2>2, <2>3, <2>4, <2>5, <2>6 DEF SignalInv
<1>8. CASE NextPage
  BY <1>8, NextPageInv
<1>9. CASE UNCHANGED signalVars
  BY <1>9 DEF signalVars, SignalInv, SignalTypeOK, ListInv, WalkInv
<1> QED
  BY <1>1, <1>2, <1>3, <1>4, <1>5, <1>6, <1>7, <1>8, <1>9 DEF SignalNext

(***************************************************************************)
(* The journal of a research case                                          *)
(***************************************************************************)
CaseEvents == [type : {"ResearchCaseAccepted", "ResearchCaseReopened",
                       "ResearchCaseMarkedStale", "ResearchQueued"},
               key : {NoKey, "research-case-accepted", "research-queued"},
               splits : BOOLEAN]

(* A replay stops at the first event that splits, if there is one.         *)
LEMMA ReplayStops ==
  ASSUME NEW j \in Seq(CaseEvents)
  PROVE  /\ FirstBroken(j) \in 1..Len(j) + 1
         /\ FirstBroken(j) <= Len(j) => j[FirstBroken(j)].splits
         /\ \A i \in 1..FirstBroken(j) - 1 : ~j[i].splits
         /\ DOMAIN Replayed(j) = 1..FirstBroken(j) - 1
<1> DEFINE Stops(n) == /\ n <= Len(j) => j[n].splits
                       /\ \A i \in 1..n - 1 : ~j[i].splits
<1>1. Len(j) \in Nat /\ \A i \in 1..Len(j) : j[i] \in CaseEvents
  OBVIOUS
<1>2. \E n \in 1..Len(j) + 1 : Stops(n)
  <2> DEFINE Split == {n \in 1..Len(j) : j[n].splits}
  <2>1. CASE Split = {}
    <3>1. Stops(Len(j) + 1)
      BY <1>1, <2>1
    <3> QED
      BY <1>1, <3>1
  <2>2. CASE Split # {}
    <3>1. Split \in SUBSET Nat
      BY <1>1
    <3>2. PICK n \in Split : \A i \in Split : n <= i
      BY <2>2, <3>1, LeastOf
    <3>3. ASSUME NEW i \in 1..n - 1 PROVE ~j[i].splits
      <4>1. PICK k \in 1..Len(j) : k = n
        BY <3>2
      <4>2. i \in 1..Len(j) /\ i < k
        BY <1>1, <4>1
      <4> QED
        BY <3>2, <4>1, <4>2
    <3>4. Stops(n)
      BY <3>2, <3>3
    <3> QED
      BY <1>1, <3>4
  <2> QED
    BY <2>1, <2>2
<1>3. FirstBroken(j) \in 1..Len(j) + 1 /\ Stops(FirstBroken(j))
  <2>1. FirstBroken(j) = CHOOSE n \in 1..Len(j) + 1 : Stops(n)
    BY DEF FirstBroken
  <2> HIDE DEF Stops
  <2> QED
    BY <1>2, <2>1
<1>4. DOMAIN Replayed(j) = 1..FirstBroken(j) - 1
  <2>1. PICK n \in Nat : n = FirstBroken(j) - 1 /\ n <= Len(j)
    BY <1>1, <1>3
  <2>2. \A i \in 1..n : j[i] \in CaseEvents
    BY <1>1, <2>1
  <2>3. /\ SubSeq(j, 1, n) \in Seq(CaseEvents)
        /\ Len(SubSeq(j, 1, n)) = n
    BY <2>2, SubSeqProperties
  <2> QED
    BY <2>1, <2>3 DEF Replayed
<1> QED
  BY <1>3, <1>4

(* An append follows a journal that replays whole, and the event it adds   *)
(* replays unless it splits.                                               *)
LEMMA AppendReplays ==
  ASSUME NEW j \in Seq(CaseEvents), NEW e \in CaseEvents, Readable(j)
  PROVE  /\ Append(j, e) \in Seq(CaseEvents)
         /\ Len(Append(j, e)) = Len(j) + 1
         /\ Append(j, e)[Len(j) + 1] = e
         /\ \A i \in 1..Len(j) : Append(j, e)[i] = j[i]
         /\ FirstBroken(j) = Len(j) + 1
         /\ FirstBroken(Append(j, e)) = IF e.splits THEN Len(j) + 1 ELSE Len(j) + 2
<1> DEFINE k == Append(j, e)
<1>1. /\ k \in Seq(CaseEvents) /\ Len(k) = Len(j) + 1
      /\ k[Len(j) + 1] = e /\ \A i \in 1..Len(j) : k[i] = j[i]
  BY AppendProperties
<1> HIDE DEF k
<1>l. PICK len \in Nat : len = Len(j)
  OBVIOUS
<1>2. PICK n \in 1..len + 1, m \in 1..len + 2 : n = FirstBroken(j) /\ m = FirstBroken(k)
  <2>1. FirstBroken(j) \in 1..len + 1
    BY <1>l, ReplayStops
  <2>2. FirstBroken(k) \in 1..(len + 1) + 1
    BY <1>l, <1>1, ReplayStops
  <2>3. FirstBroken(k) \in 1..len + 2
    BY <2>2
  <2> QED
    BY <2>1, <2>3
<1>3. n = len + 1 /\ \A i \in 1..len : ~j[i].splits
  <2>1. n = len + 1
    BY <1>l, <1>2 DEF Readable
  <2>2. \A i \in 1..n - 1 : ~j[i].splits
    BY <1>l, <1>2, ReplayStops
  <2> QED
    BY <2>1, <2>2
<1>4. /\ m <= len + 1 => k[m].splits
      /\ \A i \in 1..m - 1 : ~k[i].splits
  BY <1>1, <1>l, <1>2, ReplayStops
<1>5. m \notin 1..len
  <2> SUFFICES ASSUME m \in 1..len PROVE FALSE
    OBVIOUS
  <2>1. k[m] = j[m] /\ ~j[m].splits
    BY <1>1, <1>l, <1>2, <1>3
  <2>2. m <= len + 1
    OBVIOUS
  <2> QED
    BY <2>1, <2>2, <1>4
<1>6. m = len + 1 => e.splits
  BY <1>1, <1>l, <1>2, <1>4
<1>7. m = len + 2 => ~e.splits
  <2> SUFFICES ASSUME m = len + 2 PROVE ~k[len + 1].splits
    BY <1>1, <1>l, <1>2
  <2>1. len + 1 \in 1..m - 1
    OBVIOUS
  <2> QED
    BY <2>1, <1>4
<1>8. m = IF e.splits THEN len + 1 ELSE len + 2
  <2>1. m = len + 1 \/ m = len + 2
    BY <1>5
  <2> QED
    BY <2>1, <1>6, <1>7
<1> QED
  BY <1>1, <1>l, <1>2, <1>3, <1>8 DEF k

(***************************************************************************)
(* Research cases                                                          *)
(***************************************************************************)
Histories == [puts : 0..MaxWrites, owners : SUBSET People, released : BOOLEAN,
              raised : SUBSET Reasons, overlapped : BOOLEAN]

OnRecord(j) == \E i \in 1..FirstBroken(j) - 1 : j[i].type = "ResearchCaseAccepted"

(* The key of an acceptance finds nothing but one.                         *)
AcceptancesKeyed(j) ==
  \A i \in 1..Len(j) :
    j[i].key = "research-case-accepted" => j[i].type = "ResearchCaseAccepted"

(* An accepted record, stored or about to be, has no open blocker and its  *)
(* acceptance is in the journal already.                                   *)
Sound(case) == case.status = "accepted" => OpenBlockers(case) = {} /\ OnRecord(journal)

(* What one function makes of a record: only somebody else accepts, and    *)
(* the owner changes where nobody was or to nobody.                        *)
MadeOf(p, base, case) ==
  /\ case.status = "accepted" /\ base.status # "accepted" => case.by = p /\ p # base.owner
  /\ base.owner # case.owner => base.owner = NoOne \/ case.owner = NoOne

CaseInv ==
  /\ CaseTypeOK
  /\ history \in Histories
  /\ journal \in Seq(CaseEvents)
  /\ AcceptancesKeyed(journal)
  /\ Sound(stored)
  /\ \A p \in People : /\ Sound(copy[p].case)
                       /\ MadeOf(p, copy[p].base, copy[p].case)
  /\ ~history.overlapped => history.raised = OpenBlockers(stored)
  /\ ~history.overlapped /\ ~history.released => history.owners \subseteq {stored.owner}

LEMMA CaseInitInv == CaseInit => CaseInv
<1> SUFFICES ASSUME CaseInit PROVE CaseInv
  OBVIOUS
<1> USE CaseAssumption
<1>1. NewCase \in Cases /\ stored \in Cases
  BY DEF CaseInit, NewCase, Cases, CaseStatuses
<1>2. journal \in Seq(CaseEvents) /\ Len(journal) = 0 /\ DOMAIN journal = {}
  BY DEF CaseInit
<1>3. OpenBlockers(stored) = {}
  BY DEF CaseInit, NewCase, OpenBlockers
<1>4. CaseTypeOK /\ history \in Histories
  BY <1>1, <1>2 DEF CaseInit, CaseTypeOK, Histories, NoCopy
<1>5. stored.status # "accepted" /\ NewCase.status # "accepted"
  BY DEF CaseInit, NewCase
<1>6. \A p \in People : Sound(copy[p].case) /\ MadeOf(p, copy[p].base, copy[p].case)
  BY <1>5 DEF CaseInit, NoCopy, Sound, MadeOf
<1> QED
  BY <1>2, <1>3, <1>4, <1>5, <1>6 DEF CaseInit, CaseInv, AcceptancesKeyed, Sound

(* What append leaves in the journal, found or appended.                   *)
LEMMA AppendedGrows ==
  ASSUME NEW j \in Seq(CaseEvents), AcceptancesKeyed(j),
         NEW e \in CaseEvents, CanAppend(j, e.key),
         e.key = "research-case-accepted" => e.type = "ResearchCaseAccepted"
  PROVE  /\ Appended(j, e) \in Seq(CaseEvents)
         /\ AcceptancesKeyed(Appended(j, e))
         /\ OnRecord(j) => OnRecord(Appended(j, e))
         /\ e.key = "research-case-accepted" /\ ~e.splits => OnRecord(Appended(j, e))
<1> DEFINE k == Appended(j, e)
<1>l. PICK len \in Nat : len = Len(j)
  OBVIOUS
<1>1. CASE Found(j, e.key)
  <2>1. k = j
    BY <1>1 DEF Appended
  <2>2. e.key = "research-case-accepted" => OnRecord(j)
    <3> SUFFICES ASSUME e.key = "research-case-accepted" PROVE OnRecord(j)
      OBVIOUS
    <3>1. PICK i \in 1..FirstBroken(j) - 1 : j[i].key = e.key
      BY <1>1, ReplayStops DEF Found
    <3>2. PICK n \in 1..len + 1 : n = FirstBroken(j)
      BY <1>l, ReplayStops
    <3>3. i \in 1..len
      BY <3>1, <3>2
    <3> QED
      BY <1>l, <3>1, <3>3 DEF OnRecord, AcceptancesKeyed
  <2> QED
    BY <2>1, <2>2
<1>2. CASE ~Found(j, e.key)
  <2>1. k = Append(j, e) /\ Readable(j)
    BY <1>2 DEF Appended, CanAppend
  <2>2. /\ k \in Seq(CaseEvents) /\ Len(k) = len + 1
        /\ k[len + 1] = e /\ \A i \in 1..len : k[i] = j[i]
        /\ FirstBroken(j) = len + 1
        /\ FirstBroken(k) = IF e.splits THEN len + 1 ELSE len + 2
    BY <1>l, <2>1, AppendReplays
  <2> HIDE DEF k
  <2>3. AcceptancesKeyed(k)
    <3> SUFFICES ASSUME NEW i \in 1..len + 1, k[i].key = "research-case-accepted"
        PROVE  k[i].type = "ResearchCaseAccepted"
      BY <2>2 DEF AcceptancesKeyed
    <3>1. CASE i = len + 1
      BY <3>1, <2>2
    <3>2. CASE i \in 1..len
      BY <3>2, <1>l, <2>2 DEF AcceptancesKeyed
    <3> QED
      BY <3>1, <3>2
  <2>4. OnRecord(j) => OnRecord(k)
    <3> SUFFICES ASSUME NEW i \in 1..len, j[i].type = "ResearchCaseAccepted"
        PROVE  OnRecord(k)
      BY <2>2 DEF OnRecord
    <3>1. i \in 1..FirstBroken(k) - 1
      BY <2>2
    <3> QED
      BY <2>2, <3>1 DEF OnRecord
  <2>5. e.key = "research-case-accepted" /\ ~e.splits => OnRecord(k)
    <3> SUFFICES ASSUME e.key = "research-case-accepted", ~e.splits PROVE OnRecord(k)
      OBVIOUS
    <3>1. len + 1 \in 1..FirstBroken(k) - 1
      BY <2>2
    <3> QED
      BY <2>2, <3>1 DEF OnRecord
  <2> QED
    BY <2>2, <2>3, <2>4, <2>5 DEF k
<1> QED
  BY <1>1, <1>2

(* One function of research_queue.py or research_review.py: p holds a copy,*)
(* and the journal may have grown.                                         *)
LEMMA ChangeInv ==
  ASSUME CaseInv, NEW p \in People, NEW case \in Cases,
         Change(p, case), MadeOf(p, stored, case),
         journal' \in Seq(CaseEvents), AcceptancesKeyed(journal'),
         OnRecord(journal) => OnRecord(journal'),
         case.status = "accepted" => OpenBlockers(case) = {} /\ OnRecord(journal')
  PROVE  CaseInv'
<1> USE CaseAssumption
<1>1. /\ CaseTypeOK /\ history \in Histories
      /\ copy \in [People -> [changed : BOOLEAN, base : Cases, case : Cases]]
  BY DEF CaseInv, CaseTypeOK
<1>2. /\ copy' = [copy EXCEPT ![p] = [changed |-> TRUE, base |-> stored, case |-> case]]
      /\ UNCHANGED <<stored, claims, history>>
  BY DEF Change
<1>3. CaseTypeOK'
  <2>1. copy' \in [People -> [changed : BOOLEAN, base : Cases, case : Cases]]
    BY <1>1, <1>2 DEF CaseTypeOK
  <2>2. \A i \in DOMAIN journal' : journal'[i].splits \in BOOLEAN
    <3>1. \A i \in DOMAIN journal' : journal'[i] \in CaseEvents
      OBVIOUS
    <3> QED
      BY <3>1 DEF CaseEvents
  <2> QED
    BY <1>1, <1>2, <2>1, <2>2 DEF CaseTypeOK
<1>4. Sound(stored)'
  BY <1>2 DEF CaseInv, Sound
<1>5. ASSUME NEW q \in People
      PROVE  Sound(copy[q].case)' /\ MadeOf(q, copy[q].base, copy[q].case)'
  <2>1. CASE q = p
    <3>1. copy'[q].case = case /\ copy'[q].base = stored
      BY <2>1, <1>1, <1>2
    <3> QED
      BY <2>1, <3>1 DEF Sound, MadeOf
  <2>2. CASE q # p
    <3>1. copy'[q] = copy[q]
      BY <2>2, <1>1, <1>2
    <3> QED
      BY <3>1 DEF CaseInv, Sound, MadeOf
  <2> QED
    BY <2>1, <2>2
<1> QED
  BY <1>1, <1>2, <1>3, <1>4, <1>5 DEF CaseInv

(* The same, where the journal stays as it is.                             *)
LEMMA QuietInv ==
  ASSUME CaseInv, NEW p \in People, NEW case \in Cases,
         ChangeQuietly(p, case), MadeOf(p, stored, case),
         case.status = "accepted" =>
           stored.status = "accepted" /\ OpenBlockers(case) \subseteq OpenBlockers(stored)
  PROVE  CaseInv'
<1>1. Change(p, case) /\ journal' = journal
  BY DEF ChangeQuietly
<1>2. journal \in Seq(CaseEvents) /\ AcceptancesKeyed(journal) /\ Sound(stored)
  BY DEF CaseInv
<1>3. case.status = "accepted" => OpenBlockers(case) = {} /\ OnRecord(journal')
  BY <1>1, <1>2 DEF Sound
<1> QED
  BY <1>1, <1>2, <1>3, ChangeInv

LEMMA WorkInv ==
  ASSUME CaseInv, NEW p \in People, Work(p)
  PROVE  CaseInv'
<1> USE CaseAssumption
<1>t. /\ stored \in Cases /\ Sound(stored)
      /\ journal \in Seq(CaseEvents) /\ AcceptancesKeyed(journal)
  BY DEF CaseInv, CaseTypeOK
<1>1. CASE ClaimOwnership(p, stored)
  <2> DEFINE case == [stored EXCEPT !.owner = p]
  <2>1. case \in Cases /\ MadeOf(p, stored, case) /\ case.status = stored.status
        /\ OpenBlockers(case) = OpenBlockers(stored)
    BY <1>t, <1>1 DEF ClaimOwnership, Cases, MadeOf, OpenBlockers
  <2> HIDE DEF case
  <2> QED
    BY <1>1, <2>1, QuietInv DEF ClaimOwnership, case
<1>2. CASE ReleaseOwnership(p, stored)
  <2> DEFINE case == [stored EXCEPT !.owner = NoOne]
  <2>1. case \in Cases /\ MadeOf(p, stored, case) /\ case.status = stored.status
        /\ OpenBlockers(case) = OpenBlockers(stored)
    BY <1>t DEF Cases, MadeOf, OpenBlockers
  <2> HIDE DEF case
  <2> QED
    BY <1>2, <2>1, QuietInv DEF ReleaseOwnership, case
<1>3. ASSUME NEW r \in Reasons, AddBlocker(p, stored, r)
      PROVE  CaseInv'
  <2> DEFINE case == WithBlocker(stored, r)
  <2>1. case \in Cases
    <3>1. stored.open \in [Reasons -> 0..MaxBlockers]
      BY <1>t DEF Cases
    <3>2. stored.open[r] + 1 \in 0..MaxBlockers
      <4>1. PICK n \in 0..MaxBlockers : n = stored.open[r]
        BY <3>1
      <4> QED
        BY <4>1, <1>3 DEF AddBlocker
    <3>3. [stored.open EXCEPT ![r] = @ + 1] \in [Reasons -> 0..MaxBlockers]
      BY <3>1, <3>2
    <3> QED
      BY <1>t, <3>3 DEF WithBlocker, Cases, CaseStatuses
  <2>2. case.status = "blocked" /\ MadeOf(p, stored, case)
    BY <1>t DEF WithBlocker, Cases, MadeOf
  <2> HIDE DEF case
  <2> QED
    BY <1>3, <2>1, <2>2, QuietInv DEF AddBlocker, case
<1>4. ASSUME NEW r \in Reasons, ResolveBlocker(p, stored, r)
      PROVE  CaseInv'
  <2> DEFINE case == [stored EXCEPT !.open[r] = IF @ > 0 THEN @ - 1 ELSE @]
  <2>1. stored.open \in [Reasons -> 0..MaxBlockers]
    BY <1>t DEF Cases
  <2>2. PICK n \in 0..MaxBlockers : n = stored.open[r]
    BY <2>1
  <2>3. PICK m \in 0..MaxBlockers : m = (IF n > 0 THEN n - 1 ELSE n) /\ m <= n
    <3>1. CASE n > 0
      BY <3>1
    <3>2. CASE ~(n > 0)
      BY <3>2
    <3> QED
      BY <3>1, <3>2
  <2>4. case.open = [stored.open EXCEPT ![r] = m] /\ case = [stored EXCEPT !.open = case.open]
    BY <1>t, <2>2, <2>3 DEF Cases
  <2>5. case.open \in [Reasons -> 0..MaxBlockers]
    BY <2>1, <2>4
  <2>6. /\ case \in Cases /\ MadeOf(p, stored, case) /\ case.status = stored.status
    BY <1>t, <2>4, <2>5 DEF Cases, MadeOf
  <2>7. OpenBlockers(case) \subseteq OpenBlockers(stored)
    <3> SUFFICES ASSUME NEW q \in Reasons, case.open[q] > 0 PROVE stored.open[q] > 0
      BY DEF OpenBlockers
    <3>1. CASE q = r
      BY <3>1, <2>1, <2>2, <2>3, <2>4
    <3>2. CASE q # r
      BY <3>2, <2>1, <2>4
    <3> QED
      BY <3>1, <3>2
  <2> HIDE DEF case
  <2> QED
    BY <1>4, <2>6, <2>7, QuietInv DEF ResolveBlocker, case
<1>5. CASE ResumeCase(p, stored)
  <2> DEFINE case == [stored EXCEPT !.status = "in_progress"]
  <2>1. case \in Cases /\ MadeOf(p, stored, case) /\ case.status # "accepted"
    BY <1>t DEF Cases, CaseStatuses, MadeOf
  <2> HIDE DEF case
  <2> QED
    BY <1>5, <2>1, QuietInv DEF ResumeCase, case
<1>6. ASSUME NEW status \in CaseStatuses, Advance(p, stored, status)
      PROVE  CaseInv'
  <2> DEFINE case == [stored EXCEPT !.status = status]
  <2>1. case \in Cases /\ MadeOf(p, stored, case) /\ case.status # "accepted"
    BY <1>t, <1>6 DEF Cases, CaseStatuses, MadeOf, Advance
  <2> HIDE DEF case
  <2> QED
    BY <1>6, <2>1, QuietInv DEF Advance, case
<1>7. CASE Accept(p, stored)
  <2> DEFINE case == [stored EXCEPT !.status = "accepted", !.by = p]
             e == [type |-> "ResearchCaseAccepted", key |-> "research-case-accepted", splits |-> FALSE]
  <2>1. /\ p # stored.owner /\ OpenBlockers(stored) = {}
        /\ CanAppend(journal, e.key) /\ journal' = Appended(journal, e) /\ Change(p, case)
    BY <1>7 DEF Accept, CanTransition, Journaled
  <2>2. /\ case \in Cases /\ MadeOf(p, stored, case) /\ OpenBlockers(case) = OpenBlockers(stored)
    BY <1>t, <2>1 DEF Cases, CaseStatuses, MadeOf, OpenBlockers
  <2>3. e \in CaseEvents
    BY DEF CaseEvents
  <2>4. /\ journal' \in Seq(CaseEvents) /\ AcceptancesKeyed(journal')
        /\ OnRecord(journal')
    BY <1>t, <2>1, <2>3, AppendedGrows
  <2> HIDE DEF case
  <2> QED
    BY <2>1, <2>2, <2>4, ChangeInv
<1>8. ASSUME NEW splits \in BOOLEAN, Reopen(p, stored, splits)
      PROVE  CaseInv'
  <2> DEFINE case == [stored EXCEPT !.status = "reopened"]
             e == [type |-> "ResearchCaseReopened", key |-> NoKey, splits |-> splits]
  <2>1. CanAppend(journal, e.key) /\ journal' = Appended(journal, e) /\ Change(p, case)
    BY <1>8 DEF Reopen, Journaled
  <2>2. case \in Cases /\ MadeOf(p, stored, case) /\ case.status # "accepted"
    BY <1>t DEF Cases, CaseStatuses, MadeOf
  <2>3. e \in CaseEvents /\ e.key # "research-case-accepted"
    BY DEF CaseEvents, NoKey
  <2>4. /\ journal' \in Seq(CaseEvents) /\ AcceptancesKeyed(journal')
        /\ OnRecord(journal) => OnRecord(journal')
    BY <1>t, <2>1, <2>3, AppendedGrows
  <2> HIDE DEF case
  <2> QED
    BY <2>1, <2>2, <2>4, ChangeInv
<1>9. ASSUME NEW splits \in BOOLEAN, MarkStale(p, stored, splits)
      PROVE  CaseInv'
  <2> DEFINE case == [stored EXCEPT !.status = "stale"]
             e == [type |-> "ResearchCaseMarkedStale", key |-> NoKey, splits |-> splits]
  <2>1. CanAppend(journal, e.key) /\ journal' = Appended(journal, e) /\ Change(p, case)
    BY <1>9 DEF MarkStale, Journaled
  <2>2. case \in Cases /\ MadeOf(p, stored, case) /\ case.status # "accepted"
    BY <1>t DEF Cases, CaseStatuses, MadeOf
  <2>3. e \in CaseEvents /\ e.key # "research-case-accepted"
    BY DEF CaseEvents, NoKey
  <2>4. /\ journal' \in Seq(CaseEvents) /\ AcceptancesKeyed(journal')
        /\ OnRecord(journal) => OnRecord(journal')
    BY <1>t, <2>1, <2>3, AppendedGrows
  <2> HIDE DEF case
  <2> QED
    BY <2>1, <2>2, <2>4, ChangeInv
<1> QED
  BY <1>1, <1>2, <1>3, <1>4, <1>5, <1>6, <1>7, <1>8, <1>9 DEF Work

LEMMA CaseStepInv == CaseInv /\ (CaseNext \/ UNCHANGED caseVars) => CaseInv'
<1> SUFFICES ASSUME CaseInv, CaseNext \/ UNCHANGED caseVars
    PROVE  CaseInv'
  OBVIOUS
<1> USE CaseAssumption
<1>t. /\ CaseTypeOK /\ history \in Histories
      /\ copy \in [People -> [changed : BOOLEAN, base : Cases, case : Cases]]
      /\ journal \in Seq(CaseEvents) /\ AcceptancesKeyed(journal)
  BY DEF CaseInv, CaseTypeOK
<1>1. ASSUME NEW p \in People, PutCase(p)
      PROVE  CaseInv'
  <2> DEFINE base == copy[p].base
             case == copy[p].case
  <2>1. /\ base \in Cases /\ case \in Cases /\ stored \in Cases
        /\ Sound(case) /\ MadeOf(p, base, case)
    BY <1>t DEF CaseInv, CaseTypeOK
  <2>2. /\ stored' = case
        /\ history' = HistoryAfter(base, case)
        /\ copy' = [copy EXCEPT ![p] = NoCopy]
        /\ UNCHANGED <<claims, journal>>
    BY <1>1 DEF PutCase
  <2>3. NewCase \in Cases /\ NewCase.status # "accepted"
    BY DEF NewCase, Cases, CaseStatuses
  <2>4. copy' \in [People -> [changed : BOOLEAN, base : Cases, case : Cases]]
    BY <1>t, <2>2, <2>3 DEF NoCopy
  <2>5. /\ history'.puts = history.puts + 1
        /\ history'.owners = history.owners \cup ({case.owner} \ {NoOne})
        /\ history'.released = (history.released \/ (base.owner # NoOne /\ case.owner = NoOne))
        /\ history'.raised = (history.raised \cup OpenBlockers(case)) \ (OpenBlockers(base) \ OpenBlockers(case))
        /\ history'.overlapped = (history.overlapped \/ stored # base)
    BY <2>2 DEF HistoryAfter
  <2>6. history' \in Histories
    <3>1. history.puts + 1 \in 0..MaxWrites
      <4>1. PICK n \in 0..MaxWrites : n = history.puts
        BY <1>t DEF Histories
      <4>2. n < MaxWrites
        BY <1>1, <4>1 DEF PutCase
      <4> QED
        BY <4>1, <4>2
    <3>2. history.owners \cup ({case.owner} \ {NoOne}) \in SUBSET People
      BY <1>t, <2>1 DEF Histories, Cases
    <3>3. (history.raised \cup OpenBlockers(case)) \ (OpenBlockers(base) \ OpenBlockers(case)) \in SUBSET Reasons
      BY <1>t DEF Histories, OpenBlockers
    <3> HIDE DEF base, case
    <3> QED
      BY <2>2, <3>1, <3>2, <3>3 DEF HistoryAfter, Histories
  <2>7. CaseTypeOK'
    BY <1>t, <2>1, <2>2, <2>4, <2>6 DEF CaseTypeOK, Histories
  <2>8. Sound(stored)'
    BY <2>1, <2>2 DEF Sound
  <2>9. ASSUME NEW q \in People
        PROVE  Sound(copy[q].case)' /\ MadeOf(q, copy[q].base, copy[q].case)'
    <3>1. CASE q = p
      <4>1. copy'[q] = NoCopy
        BY <3>1, <1>t, <2>2
      <4> QED
        BY <4>1, <2>3 DEF NoCopy, Sound, MadeOf
    <3>2. CASE q # p
      <4>1. copy'[q] = copy[q]
        BY <3>2, <1>t, <2>2
      <4> QED
        BY <4>1, <2>2 DEF CaseInv, Sound, MadeOf
    <3> QED
      BY <3>1, <3>2
  <2>10. ASSUME ~history'.overlapped
         PROVE  ~history.overlapped /\ base = stored
    BY <2>5, <2>10
  <2>11. ASSUME ~history'.overlapped
         PROVE  history'.raised = OpenBlockers(stored')
    <3>1. history.raised = OpenBlockers(base)
      BY <2>10, <2>11 DEF CaseInv
    <3> HIDE DEF base, case
    <3> QED
      BY <2>2, <2>5, <3>1
  <2>12. ASSUME ~history'.overlapped, ~history'.released
         PROVE  history'.owners \subseteq {stored'.owner}
    <3>1. /\ history.owners \subseteq {base.owner}
          /\ history.owners \subseteq People
      BY <1>t, <2>5, <2>10, <2>12 DEF CaseInv, Histories
    <3>2. base.owner # NoOne => case.owner # NoOne
      BY <2>5, <2>12
    <3>3. base.owner # NoOne => case.owner = base.owner
      BY <3>2, <2>1 DEF MadeOf
    <3>4. history.owners \subseteq {case.owner}
      BY <3>1, <3>3
    <3> QED
      BY <2>2, <2>5, <3>4
  <2> QED
    BY <1>t, <2>2, <2>6, <2>7, <2>8, <2>9, <2>11, <2>12 DEF CaseInv
<1>2. ASSUME NEW p \in People, Work(p)
      PROVE  CaseInv'
  BY <1>2, WorkInv
<1>3. CASE QueueResearch
  <2> DEFINE e == [type |-> "ResearchQueued", key |-> "research-queued", splits |-> FALSE]
  <2>1. CanAppend(journal, e.key) /\ journal' = Appended(journal, e)
    BY <1>3 DEF QueueResearch
  <2>2. e \in CaseEvents /\ e.key # "research-case-accepted"
    BY DEF CaseEvents
  <2>3. /\ journal' \in Seq(CaseEvents) /\ AcceptancesKeyed(journal')
        /\ OnRecord(journal) => OnRecord(journal')
    BY <1>t, <2>1, <2>2, AppendedGrows
  <2>4. \A i \in DOMAIN journal' : journal'[i].splits \in BOOLEAN
    <3>1. \A i \in DOMAIN journal' : journal'[i] \in CaseEvents
      BY <2>3
    <3> QED
      BY <3>1 DEF CaseEvents
  <2>5. CaseTypeOK'
    BY <1>3, <1>t, <2>4 DEF QueueResearch, CaseTypeOK
  <2> QED
    BY <1>3, <1>t, <2>3, <2>5 DEF QueueResearch, CaseInv, Sound, MadeOf
<1>4. ASSUME NEW claim \in ClaimPool, RecordClaim(claim)
      PROVE  CaseInv'
  <2>1. CaseTypeOK'
    BY <1>4, <1>t, ClaimAssumption DEF RecordClaim, CaseTypeOK
  <2> QED
    BY <1>4, <2>1 DEF RecordClaim, CaseInv, Sound, MadeOf
<1>5. ASSUME NEW claim \in ClaimPool, RetireClaim(claim)
      PROVE  CaseInv'
  BY <1>5, <1>t DEF RetireClaim, CaseInv, CaseTypeOK, Sound, MadeOf
<1>6. CASE UNCHANGED caseVars
  BY <1>6 DEF caseVars, CaseInv, CaseTypeOK, Sound, MadeOf
<1> QED
  BY <1>1, <1>2, <1>3, <1>4, <1>5, <1>6 DEF CaseNext

(***************************************************************************)
(* Passes                                                                  *)
(***************************************************************************)
(* A call goes on from its checkpoint: the steps before it are counted, and*)
(* so is what they cost.  While it runs on after its first step there is   *)
(* budget left.                                                            *)
CallInv ==
  pass.on =>
    /\ pass.index < Steps
    /\ pass.index = checkpoint.next + pass.steps
    /\ pass.steps < MaxSteps
    /\ IF pass.steps = 0 THEN pass.spent = checkpoint.spent ELSE pass.spent < MaxCost

(* A step the call under way has not reached ran only in calls that raised;*)
(* one that it has run ran once more.                                      *)
RanInv ==
  /\ \A i \in 0..Steps - 1 : ran[i] <= 1 + raises
  /\ \A i \in 0..Steps - 1 :
       i >= (IF pass.on THEN pass.index ELSE checkpoint.next) => ran[i] <= raises

PassInv == PassTypeOK /\ OverspendBoundedByCalls /\ CallInv /\ RanInv

LEMMA OneMoreCall ==
  ASSUME NEW n \in Nat
  PROVE  n * StepCost \in Nat /\ (n + 1) * StepCost = n * StepCost + StepCost
BY PassAssumption

LEMMA PassInitInv == PassInit => PassInv
<1> USE PassAssumption
<1>1. 0 * StepCost = 0
  OBVIOUS
<1> QED
  BY <1>1 DEF PassInit, PassInv, PassTypeOK, OverspendBoundedByCalls, CallInv, RanInv, Idle

LEMMA PassStepInv == PassInv /\ (PassNext \/ UNCHANGED passVars) => PassInv'
<1> SUFFICES ASSUME PassInv, PassNext \/ UNCHANGED passVars
    PROVE  PassInv'
  OBVIOUS
<1> USE PassAssumption
<1>t. PassTypeOK
  BY DEF PassInv
<1>n. /\ calls * StepCost \in Nat
      /\ (calls + 1) * StepCost = calls * StepCost + StepCost
  BY <1>t, OneMoreCall DEF PassTypeOK
<1>1. CASE Begin
  BY <1>1 DEF Begin, PassInv, PassTypeOK, OverspendBoundedByCalls, CallInv, RanInv
<1>2. ASSUME NEW cost \in 0..StepCost, RunStep(cost)
      PROVE  PassInv'
  <2>1. PICK at \in Nat, before \in Nat, done \in Nat :
          pass = [on |-> TRUE, index |-> at, spent |-> before, steps |-> done]
    BY <1>2, <1>t DEF RunStep, PassTypeOK
  <2>2. PICK from \in Nat, owed \in Nat : checkpoint = [next |-> from, spent |-> owed]
    BY <1>t DEF PassTypeOK
  <2>3. /\ at < Steps /\ at = from + done /\ done < MaxSteps
        /\ done = 0 => before = owed
        /\ done # 0 => before < MaxCost
    BY <2>1, <2>2 DEF PassInv, CallInv
  <2>4. /\ ran \in [0..Steps - 1 -> Nat] /\ raises \in 0..MaxRaises /\ calls \in Nat
        /\ ran' = [ran EXCEPT ![at] = @ + 1]
        /\ raises' = raises
    BY <1>2, <1>t, <2>1 DEF RunStep, PassTypeOK
  <2>5. /\ ran' \in [0..Steps - 1 -> Nat]
        /\ \A i \in 0..Steps - 1 : ran'[i] = IF i = at THEN ran[i] + 1 ELSE ran[i]
    BY <2>3, <2>4
  <2>6. ASSUME NEW i \in 0..Steps - 1
        PROVE  ran'[i] <= 1 + raises /\ (i >= at + 1 => ran'[i] <= raises)
    <3>1. PICK n \in Nat : n = ran[i]
      BY <2>4
    <3>2. n <= 1 + raises /\ (i >= at => n <= raises)
      BY <2>1, <3>1 DEF PassInv, RanInv
    <3>3. ran'[i] = IF i = at THEN n + 1 ELSE n
      BY <2>5, <3>1
    <3> QED
      BY <2>4, <3>2, <3>3
  <2>7. CASE at + 1 = Steps \/ Exhausted(done + 1, before + cost)
    <3>1. /\ checkpoint' = [next |-> at + 1, spent |-> before + cost]
          /\ pass' = Idle
          /\ calls' = calls + 1
      BY <1>2, <2>1, <2>7 DEF RunStep, NextIndex
    <3>2. PassTypeOK'
      BY <3>1, <2>3, <2>4, <2>5 DEF PassTypeOK, Idle
    <3>3. OverspendBoundedByCalls'
      <4>1. owed < MaxCost + calls * StepCost + 1
        BY <2>2 DEF PassInv, OverspendBoundedByCalls
      <4>2. before + cost < MaxCost + (calls * StepCost + StepCost) + 1
        BY <4>1, <2>3, <1>n
      <4> QED
        BY <3>1, <4>2, <1>n DEF OverspendBoundedByCalls
    <3>4. CallInv' /\ RanInv'
      BY <3>1, <2>4, <2>6 DEF CallInv, RanInv, Idle
    <3> QED
      BY <3>2, <3>3, <3>4 DEF PassInv
  <2>8. CASE ~(at + 1 = Steps \/ Exhausted(done + 1, before + cost))
    <3>1. /\ pass' = [on |-> TRUE, index |-> at + 1, spent |-> before + cost, steps |-> done + 1]
          /\ UNCHANGED <<checkpoint, calls>>
      BY <1>2, <2>1, <2>8 DEF RunStep
    <3>2. done + 1 < MaxSteps /\ before + cost < MaxCost /\ at + 1 < Steps
      BY <2>3, <2>8 DEF Exhausted
    <3>3. PassTypeOK'
      BY SMTT(20), <3>1, <3>2, <2>4, <2>5, <1>t DEF PassTypeOK
    <3>4. OverspendBoundedByCalls'
      BY <3>1 DEF PassInv, OverspendBoundedByCalls
    <3>5. CallInv'
      BY <3>1, <3>2, <2>2, <2>3 DEF CallInv
    <3>6. RanInv'
      BY <3>1, <2>4, <2>6 DEF RanInv
    <3> QED
      BY <3>3, <3>4, <3>5, <3>6 DEF PassInv
  <2> QED
    BY <2>7, <2>8
<1>3. CASE StepRaises
  BY <1>3 DEF StepRaises, Idle, PassInv, PassTypeOK, OverspendBoundedByCalls, CallInv, RanInv
<1>4. CASE UNCHANGED passVars
  BY <1>4 DEF passVars, PassInv, PassTypeOK, OverspendBoundedByCalls, CallInv, RanInv
<1> QED
  BY <1>1, <1>2, <1>3, <1>4 DEF PassNext

(***************************************************************************)
(* The three together                                                      *)
(***************************************************************************)
IInv == SignalInv /\ CaseInv /\ PassInv

LEMMA Invariance == Spec => []IInv
<1>1. Init => IInv
  BY SignalInitInv, CaseInitInv, PassInitInv DEF Init, IInv
<1>2. IInv /\ [Next]_vars => IInv'
  <2> SUFFICES ASSUME IInv, [Next]_vars PROVE IInv'
    OBVIOUS
  <2>1. SignalNext \/ UNCHANGED signalVars
    BY DEF Next, vars
  <2>2. CaseNext \/ UNCHANGED caseVars
    BY DEF Next, vars
  <2>3. PassNext \/ UNCHANGED passVars
    BY DEF Next, vars
  <2> QED
    BY <2>1, <2>2, <2>3, SignalStepInv, CaseStepInv, PassStepInv DEF IInv
<1> QED
  BY <1>1, <1>2, PTL DEF Spec

(* Every record, copy, list, walk and checkpoint has its type.             *)
THEOREM TypeCorrect == Spec => []TypeOK
<1>1. IInv => TypeOK
  BY DEF IInv, SignalInv, CaseInv, PassInv, TypeOK
<1> QED
  BY <1>1, Invariance, PTL

(* A client that follows next_cursor to the end (list_signals) is given    *)
(* every signal that matched all along once and none twice, and a smart    *)
(* list differs from its search on signals put since it was materialized   *)
(* only.                                                                   *)
THEOREM PagesAndLists == Spec => []PagesAndListsHold
<1>1. IInv => PagesAreComplete
  BY DEF IInv, SignalInv, WalkInv, PagesAreComplete
<1>2. IInv => SmartListStaleOnlyByPuts
  <2> SUFFICES ASSUME IInv, list.kind = "smart_list", NEW i \in SignalIds, i \notin list.touched
      PROVE  i \in list.members <=> i \in Search(signals, list.criteria)
    BY DEF SmartListStaleOnlyByPuts, Search, Matches
  <2> QED
    BY DEF IInv, SignalInv, ListInv
<1> QED
  BY <1>1, <1>2, Invariance, PTL DEF PagesAndListsHold

(* An accepted case has its acceptance in the part of the journal that     *)
(* replays, and no blocker that was raised and not resolved, unless a copy *)
(* was put over a record its writer had not read (accept_research_case,    *)
(* put_case).                                                              *)
THEOREM AcceptedCases == Spec => []AcceptedCasesHold
<1>1. IInv => AcceptedOnRecord
  <2> SUFFICES ASSUME IInv, stored.status = "accepted"
      PROVE  \E i \in DOMAIN Replayed(journal) : journal[i].type = "ResearchCaseAccepted"
    BY DEF AcceptedOnRecord
  <2>1. journal \in Seq(CaseEvents) /\ OnRecord(journal)
    BY DEF IInv, CaseInv, Sound
  <2> QED
    BY <2>1, ReplayStops DEF OnRecord
<1>2. IInv => RaisedBlockersHold
  BY DEF IInv, CaseInv, Sound, RaisedBlockersHold
<1> QED
  BY <1>1, <1>2, Invariance, PTL DEF AcceptedCasesHold

(* Who ever owned a case does not accept it, unless an ownership was       *)
(* released or a copy put over a record nobody had read: only a put stores *)
(* an acceptance, made by somebody else than the owner of the record read, *)
(* and without a release or an overlap that owner is the only one there    *)
(* was.                                                                    *)
THEOREM DutiesSeparated == Spec => OwnersDoNotAccept
<1> DEFINE Separated ==
      stored'.status = "accepted" /\ stored.status # "accepted" =>
        \/ stored'.by \notin history.owners
        \/ history'.released
        \/ history'.overlapped
<1>1. IInv /\ [Next]_vars => [Separated]_caseVars
  <2> SUFFICES ASSUME IInv, [Next]_vars,
                      stored'.status = "accepted", stored.status # "accepted",
                      ~history'.released, ~history'.overlapped
               PROVE  stored'.by \notin history.owners
    OBVIOUS
  <2>1. PICK p \in People : PutCase(p)
    BY DEF Next, vars, signalVars, caseVars, passVars, CaseNext, Work, QueueResearch, RecordClaim,
           RetireClaim, ClaimOwnership, ReleaseOwnership, AddBlocker, ResolveBlocker, ResumeCase,
           Advance, Accept, Reopen, MarkStale, Journaled, ChangeQuietly, Change
  <2>2. /\ stored' = copy[p].case
        /\ ~history.released /\ ~history.overlapped /\ copy[p].base = stored
    BY <2>1 DEF PutCase, HistoryAfter
  <2>3. stored'.by = p /\ p # stored.owner
    BY <2>2 DEF IInv, CaseInv, MadeOf
  <2>4. history.owners \subseteq {stored.owner}
    BY <2>2 DEF IInv, CaseInv
  <2> QED
    BY <2>3, <2>4
<1> QED
  BY <1>1, Invariance, PTL DEF Spec, OwnersDoNotAccept

(* run_pass resumed again and again: the cost answered passes max_cost by  *)
(* less than a step for every call that answered, and a step runs again    *)
(* only after a call that a step cut short.                                *)
THEOREM PassesBounded == Spec => []PassesAreBounded
<1>1. IInv => OverspendBoundedByCalls /\ RerunsOnlyAfterRaises
  BY DEF IInv, PassInv, RanInv, RerunsOnlyAfterRaises
<1> QED
  BY <1>1, Invariance, PTL DEF PassesAreBounded
=============================================================================
