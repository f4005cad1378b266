------------------------- MODULE VersionedStoreProofs -------------------------
(***************************************************************************)
(* VersionedStore, for every set of callers and records and every bound on *)
(* calls and faults: the versions count the edits, and an acknowledged     *)
(* edit is lost only to a call that overlapped it.                         *)
(***************************************************************************)
EXTENDS VersionedStore, FiniteSetTheorems, TLAPS

(* What holds of any file read or about to be written: its edits are those *)
(* of calls already made, and its versions count them.                     *)
Consistent(f) ==
  \A i \in Ids :
    /\ f[i].edits \subseteq 1..calls
    /\ f[i].version = Cardinality(f[i].edits)

(* The file f holds every acknowledged edit up to write n, but for those   *)
(* an overlapping call has lost.                                           *)
HoldsUpTo(f, n) ==
  \A c \in acks :
    c.wrote <= n => c.number \in f[c.id].edits \/ \E d \in acks : Overwrites(d, c)

(* A call about to write holds a consistent file with its own edit and     *)
(* with what had been written when it read.                                *)
PendingInv ==
  \A a \in Callers : At(a, "write") =>
    /\ Consistent(call[a].body)
    /\ HoldsUpTo(call[a].body, call[a].read)
    /\ call[a].number \in 1..calls
    /\ call[a].number \in call[a].body[call[a].id].edits
    /\ call[a].read <= writes

IInv ==
  /\ TypeOK
  /\ Consistent(file)
  /\ HoldsUpTo(file, writes)
  /\ PendingInv
  /\ \A c \in acks : c.wrote <= writes

LEMMA Counting ==
  ASSUME NEW n \in Nat, NEW S \in SUBSET (1..n)
  PROVE  /\ IsFiniteSet(S)
         /\ Cardinality(S) \in 0..n
         /\ Cardinality(S) = 0 => S = {}
         /\ Cardinality(S \cup {n + 1}) = Cardinality(S) + 1
<1>1. IsFiniteSet(1..n) /\ Cardinality(1..n) = n
  BY FS_Interval
<1>2. IsFiniteSet(S) /\ Cardinality(S) <= n
  BY <1>1, FS_Subset
<1>3. Cardinality(S) \in Nat
  BY <1>2, FS_CardinalityType
<1>4. Cardinality(S) = 0 => S = {}
  BY <1>2, FS_EmptySet
<1>5. n + 1 \notin S
  OBVIOUS
<1>6. Cardinality(S \cup {n + 1}) = Cardinality(S) + 1
  BY <1>2, <1>5, FS_AddElement
<1> QED
  BY <1>2, <1>3, <1>4, <1>6

(* The file a create or an update would write, when its check passes.      *)
LEMMA NewBody ==
  ASSUME IInv, calls < MaxCalls, NEW i \in Ids, NEW r,
         \/ ~Exists(i) /\ r = [version |-> 1, edits |-> {calls + 1}]
         \/ r = Updated(file[i], calls + 1)
  PROVE  LET body == [file EXCEPT ![i] = r] IN
         /\ body \in [Ids -> Records]
         /\ calls + 1 \in body[i].edits
         /\ \A j \in Ids : /\ body[j].edits \subseteq 1..(calls + 1)
                           /\ body[j].version = Cardinality(body[j].edits)
                           /\ file[j].edits \subseteq body[j].edits
<1> DEFINE body == [file EXCEPT ![i] = r]
<1> USE ConstantsAssumption
<1>1. /\ calls \in Nat /\ calls + 1 \in 1..MaxCalls
      /\ \A j \in Ids : file[j] \in Records
      /\ file \in [Ids -> Records]
  BY DEF IInv, TypeOK
<1>2. \A j \in Ids : /\ file[j].edits \subseteq 1..calls
                     /\ file[j].version = Cardinality(file[j].edits)
  BY DEF IInv, Consistent
<1> DEFINE old == file[i].edits
<1>3. /\ Cardinality(old) \in 0..calls
      /\ Cardinality(old) = 0 => old = {}
      /\ Cardinality(old \cup {calls + 1}) = Cardinality(old) + 1
  BY <1>1, <1>2, Counting
<1>4. r = [version |-> Cardinality(old) + 1, edits |-> old \cup {calls + 1}]
  <2>1. CASE ~Exists(i) /\ r = [version |-> 1, edits |-> {calls + 1}]
    <3>1. Cardinality(old) = 0 /\ old = {}
      BY <2>1, <1>2, <1>3 DEF Exists
    <3> QED
      BY <2>1, <3>1
  <2>2. CASE r = Updated(file[i], calls + 1)
    BY <2>2, <1>2 DEF Updated, NewVersion
  <2> QED
    BY <2>1, <2>2
<1>5. r \in Records
  <2>1. Cardinality(old) + 1 \in 0..MaxCalls
    BY <1>1, <1>3
  <2>2. old \cup {calls + 1} \in SUBSET Numbers
    BY <1>1, <1>2 DEF Numbers
  <2> QED
    BY <1>4, <2>1, <2>2 DEF Records
<1>6. body \in [Ids -> Records]
  BY <1>1, <1>5
<1>7. ASSUME NEW j \in Ids
      PROVE  /\ body[j].edits \subseteq 1..(calls + 1)
             /\ body[j].version = Cardinality(body[j].edits)
             /\ file[j].edits \subseteq body[j].edits
  <2>1. CASE j = i
    <3>1. body[j] = r
      BY <2>1, <1>1
    <3>2. r.edits = old \cup {calls + 1} /\ r.version = Cardinality(old \cup {calls + 1})
      BY <1>3, <1>4
    <3>3. old \subseteq 1..calls /\ old \cup {calls + 1} \subseteq 1..(calls + 1)
      BY <1>1, <1>2
    <3> QED
      BY <2>1, <3>1, <3>2, <3>3
  <2>2. CASE j # i
    BY <2>2, <1>1, <1>2
  <2> QED
    BY <2>1, <2>2
<1> QED
  BY <1>1, <1>4, <1>6, <1>7

(* An accepted create or update of the caller a.                           *)
LEMMA AcceptStep ==
  ASSUME IInv, NEW a \in Callers, NEW i \in Ids, NEW r,
         Begin(a), Accept(a, i, r), UNCHANGED <<file, acks, writes, faults>>,
         \/ ~Exists(i) /\ r = [version |-> 1, edits |-> {calls + 1}]
         \/ r = Updated(file[i], calls + 1)
  PROVE  IInv'
<1> DEFINE body == [file EXCEPT ![i] = r]
           new == [pc |-> "write", id |-> i, number |-> calls + 1,
                   body |-> body, read |-> writes]
<1> USE ConstantsAssumption
<1>1. /\ calls \in Nat /\ writes \in Nat /\ calls < MaxCalls
      /\ calls' = calls + 1 /\ calls + 1 \in 0..MaxCalls
      /\ call \in [Callers -> Calls]
      /\ call' = [call EXCEPT ![a] = new]
      /\ file' = file /\ acks' = acks /\ writes' = writes /\ faults' = faults
  BY DEF IInv, TypeOK, Begin, Accept
<1>2. /\ body \in [Ids -> Records]
      /\ calls + 1 \in body[i].edits
      /\ \A j \in Ids : /\ body[j].edits \subseteq 1..(calls + 1)
                        /\ body[j].version = Cardinality(body[j].edits)
                        /\ file[j].edits \subseteq body[j].edits
  BY <1>1, NewBody
<1> HIDE DEF body
<1>3. new \in Calls
  BY <1>1, <1>2 DEF Calls
<1>4. /\ call'[a] = new
      /\ \A b \in Callers : b # a => call'[b] = call[b]
  BY <1>1
<1>5. TypeOK'
  BY <1>1, <1>3 DEF IInv, TypeOK
<1>6. \A n \in 1..calls : n \in 1..(calls + 1)
  BY <1>1
<1>7. Consistent(file)'
  BY <1>1, <1>6 DEF IInv, Consistent
<1>8. HoldsUpTo(file, writes)' /\ (\A c \in acks : c.wrote <= writes)'
  BY <1>1 DEF IInv, HoldsUpTo
<1>9. ASSUME NEW b \in Callers, At(b, "write")'
      PROVE  /\ Consistent(call[b].body)'
             /\ HoldsUpTo(call[b].body, call[b].read)'
             /\ (call[b].number \in 1..calls)'
             /\ (call[b].number \in call[b].body[call[b].id].edits)'
             /\ (call[b].read <= writes)'
  <2>1. CASE b = a
    <3>1. /\ call'[b].body = body /\ call'[b].read = writes
          /\ call'[b].number = calls + 1 /\ call'[b].id = i
      BY <2>1, <1>4
    <3>2. Consistent(call[b].body)'
      BY <3>1, <1>1, <1>2 DEF Consistent
    <3>3. \A c \in acks : c.id \in Ids
      BY DEF IInv, TypeOK, Acks
    <3>4. HoldsUpTo(body, writes)
      BY <3>3, <1>2 DEF IInv, HoldsUpTo
    <3>5. HoldsUpTo(call[b].body, call[b].read)'
      BY <3>1, <3>4, <1>1 DEF HoldsUpTo
    <3> QED
      BY <3>1, <3>2, <3>5, <1>1, <1>2
  <2>2. CASE b # a
    <3>1. call'[b] = call[b] /\ At(b, "write")
      BY <2>2, <1>4, <1>9 DEF At
    <3>2. /\ Consistent(call[b].body)
          /\ HoldsUpTo(call[b].body, call[b].read)
          /\ call[b].number \in 1..calls
          /\ call[b].number \in call[b].body[call[b].id].edits
          /\ call[b].read <= writes
      BY <3>1 DEF IInv, PendingInv
    <3>3. Consistent(call[b].body)'
      BY <3>1, <3>2, <1>1, <1>6 DEF Consistent
    <3>4. HoldsUpTo(call[b].body, call[b].read)'
      BY <3>1, <3>2, <1>1 DEF HoldsUpTo
    <3> QED
      BY <3>1, <3>2, <3>3, <3>4, <1>1, <1>6
  <2> QED
    BY <2>1, <2>2
<1>10. PendingInv'
  BY <1>9 DEF PendingInv
<1> QED
  BY <1>5, <1>7, <1>8, <1>10 DEF IInv

(* A step that leaves what is stored and acknowledged alone and starts no  *)
(* call: a refusal, or a call cut short.                                   *)
LEMMA QuietStep ==
  ASSUME IInv, TypeOK', UNCHANGED <<file, acks, writes>>,
         calls' \in Nat, calls <= calls',
         \A b \in Callers : At(b, "write")' => call'[b] = call[b]
  PROVE  IInv'
<1>1. calls \in Nat /\ \A n \in 1..calls : n \in 1..calls'
  BY DEF IInv, TypeOK
<1>2. Consistent(file)' /\ HoldsUpTo(file, writes)' /\ (\A c \in acks : c.wrote <= writes)'
  BY <1>1 DEF IInv, Consistent, HoldsUpTo
<1>3. ASSUME NEW b \in Callers, At(b, "write")'
      PROVE  /\ Consistent(call[b].body)'
             /\ HoldsUpTo(call[b].body, call[b].read)'
             /\ (call[b].number \in 1..calls)'
             /\ (call[b].number \in call[b].body[call[b].id].edits)'
             /\ (call[b].read <= writes)'
  <2>1. call'[b] = call[b] /\ At(b, "write")
    BY <1>3 DEF At
  <2>2. /\ Consistent(call[b].body)
        /\ HoldsUpTo(call[b].body, call[b].read)
        /\ call[b].number \in 1..calls
        /\ call[b].number \in call[b].body[call[b].id].edits
        /\ call[b].read <= writes
    BY <2>1 DEF IInv, PendingInv
  <2>3. Consistent(call[b].body)'
    BY <2>1, <2>2, <1>1 DEF Consistent
  <2>4. HoldsUpTo(call[b].body, call[b].read)'
    BY <2>1, <2>2 DEF HoldsUpTo
  <2> QED
    BY <2>1, <2>2, <2>3, <2>4, <1>1
<1>4. PendingInv'
  BY <1>3 DEF PendingInv
<1> QED
  BY <1>2, <1>4 DEF IInv

(* The write: what it loses, it loses by having overlapped it.             *)
LEMMA WriteStep ==
  ASSUME IInv, NEW a \in Callers, WriteAll(a)
  PROVE  IInv'
<1> DEFINE c0 == call[a]
           new == [number |-> c0.number, id |-> c0.id, read |-> c0.read,
                   wrote |-> writes + 1]
<1> USE ConstantsAssumption
<1>1. /\ At(a, "write") /\ file' = c0.body /\ writes' = writes + 1
      /\ acks' = acks \cup {new} /\ calls' = calls /\ faults' = faults
      /\ call' = [call EXCEPT ![a] = Idle]
  BY DEF WriteAll
<1>2. /\ Consistent(c0.body)
      /\ HoldsUpTo(c0.body, c0.read)
      /\ c0.number \in 1..calls
      /\ c0.number \in c0.body[c0.id].edits
      /\ c0.read <= writes
  BY <1>1 DEF IInv, PendingInv
<1>3. /\ c0 \in Calls /\ writes \in Nat /\ calls \in 0..MaxCalls
      /\ call \in [Callers -> Calls] /\ acks \subseteq Acks
      /\ \A c \in acks : c.wrote <= writes /\ c.wrote \in Nat
  BY DEF IInv, TypeOK, Acks
<1>4. new \in Acks /\ new.wrote = writes + 1 /\ new.read = c0.read
      /\ new.number = c0.number /\ new.id = c0.id
  BY <1>2, <1>3 DEF Acks, Calls, Numbers
<1>5. c0.read \in Nat /\ c0.body \in [Ids -> Records] /\ c0.id \in Ids
  BY <1>3 DEF Calls
<1> HIDE DEF new
<1>6. Absent \in Records
  BY DEF Absent, Records
<1>7. Idle \in Calls
  BY <1>5, <1>6 DEF Idle, Calls
<1>8. TypeOK'
  BY <1>1, <1>3, <1>4, <1>5, <1>7 DEF IInv, TypeOK
<1>9. Consistent(file)'
  BY <1>1, <1>2 DEF Consistent
<1>10. ASSUME NEW c \in acks'
       PROVE  /\ (c.wrote <= writes)'
              /\ c.number \in file'[c.id].edits \/ \E d \in acks' : Overwrites(d, c)
  <2>1. CASE c = new
    BY <2>1, <1>1, <1>2, <1>3, <1>4
  <2>2. CASE c \in acks /\ c.wrote <= c0.read
    BY <2>2, <1>1, <1>2, <1>3 DEF HoldsUpTo
  <2>3. CASE c \in acks /\ ~(c.wrote <= c0.read)
    <3>1. Overwrites(new, c)
      BY <2>3, <1>3, <1>4, <1>5 DEF Overwrites
    <3> QED
      BY <2>3, <3>1, <1>1, <1>3
  <2> QED
    BY <1>1, <1>10, <2>1, <2>2, <2>3
<1>11. HoldsUpTo(file, writes)' /\ (\A c \in acks : c.wrote <= writes)'
  BY <1>10 DEF HoldsUpTo, Overwrites
<1>12. ASSUME NEW b \in Callers, At(b, "write")'
       PROVE  /\ Consistent(call[b].body)'
              /\ HoldsUpTo(call[b].body, call[b].read)'
              /\ (call[b].number \in 1..calls)'
              /\ (call[b].number \in call[b].body[call[b].id].edits)'
              /\ (call[b].read <= writes)'
  <2>1. b # a /\ call'[b] = call[b] /\ At(b, "write")
    BY <1>1, <1>3, <1>12 DEF At, Idle
  <2>2. /\ Consistent(call[b].body)
        /\ HoldsUpTo(call[b].body, call[b].read)
        /\ call[b].number \in 1..calls
        /\ call[b].number \in call[b].body[call[b].id].edits
        /\ call[b].read <= writes
        /\ call[b].read \in Nat
    BY <2>1, <1>3 DEF IInv, PendingInv, Calls
  <2>3. Consistent(call[b].body)'
    BY <2>1, <2>2, <1>1 DEF Consistent
  <2>4. ~(new.wrote <= call[b].read)
    BY <2>2, <1>3, <1>4
  <2>5. HoldsUpTo(call[b].body, call[b].read)'
    BY <2>1, <2>2, <2>4, <1>1 DEF HoldsUpTo, Overwrites
  <2> QED
    BY <2>1, <2>2, <2>3, <2>5, <1>1, <1>3
<1>13. PendingInv'
  BY <1>12 DEF PendingInv
<1> QED
  BY <1>8, <1>9, <1>11, <1>13 DEF IInv

LEMMA InitIInv == Init => IInv
<1> SUFFICES ASSUME Init PROVE IInv
  OBVIOUS
<1> USE ConstantsAssumption DEF Init
<1>1. Absent \in Records /\ Absent.edits = {} /\ Absent.version = 0
  BY DEF Absent, Records
<1>2. ASSUME NEW a \in Callers PROVE call[a] \in Calls
  <2>1. call[a] = Idle
    OBVIOUS
  <2>2. (CHOOSE i \in Ids : TRUE) \in Ids
    OBVIOUS
  <2> QED
    BY <2>1, <2>2, <1>1 DEF Idle, Calls
<1>3. TypeOK
  BY <1>1, <1>2 DEF TypeOK
<1>4. Consistent(file)
  BY <1>1, FS_EmptySet DEF Consistent
<1>5. PendingInv
  BY DEF PendingInv, At, Idle
<1> QED
  BY <1>3, <1>4, <1>5 DEF IInv, HoldsUpTo

LEMMA NextIInv == IInv /\ [Next]_vars => IInv'
<1> SUFFICES ASSUME IInv, [Next]_vars PROVE IInv'
  OBVIOUS
<1> USE ConstantsAssumption
<1>1. calls \in Nat
  BY DEF IInv, TypeOK
<1>2. ASSUME NEW a \in Callers, NEW i \in Ids, Create(a, i) PROVE IInv'
  <2>1. CASE Exists(i)
    <3>1. TypeOK'
      BY <1>2, <2>1 DEF Create, Begin, Refuse, IInv, TypeOK
    <3> QED
      BY <1>1, <1>2, <2>1, <3>1, QuietStep DEF Create, Begin, Refuse
  <2>2. CASE ~Exists(i)
    BY <1>2, <2>2, AcceptStep DEF Create
  <2> QED
    BY <2>1, <2>2
<1>3. ASSUME NEW a \in Callers, NEW i \in Ids, NEW expected \in Numbers,
             Update(a, i, expected)
      PROVE  IInv'
  <2>1. CASE ~Exists(i) \/ file[i].version # expected
    <3>1. TypeOK'
      BY <1>3, <2>1 DEF Update, Begin, Refuse, IInv, TypeOK
    <3> QED
      BY <1>1, <1>3, <2>1, <3>1, QuietStep DEF Update, Begin, Refuse
  <2>2. CASE ~(~Exists(i) \/ file[i].version # expected)
    BY <1>3, <2>2, AcceptStep DEF Update
  <2> QED
    BY <2>1, <2>2
<1>4. ASSUME NEW a \in Callers, WriteAll(a) PROVE IInv'
  BY <1>4, WriteStep
<1>5. ASSUME NEW a \in Callers, CutShort(a) PROVE IInv'
  <2>1. call \in [Callers -> Calls]
    BY DEF IInv, TypeOK
  <2>2. call[a] \in Calls
    BY <2>1
  <2>3. Absent \in Records
    BY DEF Absent, Records
  <2>4. Idle \in Calls
    BY <2>2, <2>3 DEF Idle, Calls
  <2>5. TypeOK'
    BY <1>5, <2>4 DEF CutShort, IInv, TypeOK
  <2>6. \A b \in Callers : At(b, "write")' => call'[b] = call[b]
    BY <1>5, <2>1 DEF CutShort, At, Idle
  <2> QED
    BY <1>1, <1>5, <2>5, <2>6, QuietStep DEF CutShort
<1>6. CASE UNCHANGED vars
  <2>1. TypeOK'
    BY <1>6 DEF vars, IInv, TypeOK
  <2> QED
    BY <1>1, <1>6, <2>1, QuietStep DEF vars
<1> QED
  BY <1>2, <1>3, <1>4, <1>5, <1>6 DEF Next, Done

LEMMA Invariance == Spec => []IInv
BY InitIInv, NextIInv, PTL DEF Spec

(* Every stored record, call under way and acknowledgement has its type.   *)
THEOREM TypeCorrect == Spec => []TypeOK
<1>1. IInv => TypeOK
  BY DEF IInv
<1> QED
  BY <1>1, Invariance, PTL

(* A record's version, the counter demand_store.py and fit_store.py check  *)
(* an edit against, counts the edits the record holds.                     *)
THEOREM VersionsCount == Spec => []VersionsCountEdits
<1>1. IInv => VersionsCountEdits
  BY DEF IInv, Consistent, VersionsCountEdits
<1> QED
  BY <1>1, Invariance, PTL

(* An acknowledged edit is lost only to an acknowledged call that had read *)
(* the file before it was written and wrote it back afterwards.            *)
THEOREM LossNeedsOverlap == Spec => []LostOnlyToOverlap
<1>1. IInv => LostOnlyToOverlap
  BY DEF IInv, HoldsUpTo, LostOnlyToOverlap, Survives
<1> QED
  BY <1>1, Invariance, PTL
=============================================================================
