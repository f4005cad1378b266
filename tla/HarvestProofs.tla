---------------------------- MODULE HarvestProofs ----------------------------
(***************************************************************************)
(* HarvestOrchestration, for any set of harvests, any budget and any       *)
(* number of sources, attempts and faults; and Acquisition, the routes     *)
(* that store what a harvest found, for any threads, hits and bounds.      *)
(***************************************************************************)
EXTENDS HarvestOrchestration, MCAcquisition, FiniteSetTheorems, SequenceTheorems, TLAPS

Verdicts == {"completed", "blocked", "failed"}

(* Where the call of h is, against the status of its run.                  *)
StatusFollows(h) ==
  /\ At(h, "idle") => status[h] = "absent"
  /\ At(h, "prepared") => status[h] = "prepared"
  /\ job[h].pc \in {"charge", "call", "checkpoint", "raised"} => status[h] = "started"
  /\ At(h, "settle") => status[h] \in {"started", "checkpointed"}
  /\ At(h, "lost") => status[h] \in {"prepared", "started", "checkpointed"}
  /\ ~At(h, "refused")
  /\ At(h, "returned") =>
       status[h] = IF job[h].blocked THEN "blocked"
                   ELSE IF AllErrors(job[h].runs) THEN "failed" ELSE "completed"

(* Out of budget means out of it for good, with a source to go; otherwise  *)
(* a harvest leaves the loop when every source is done.                    *)
SourcesFollow(h) ==
  /\ job[h].pc \in {"idle", "prepared"} => job[h].runs = <<>>
  /\ ~At(h, "idle") => job[h].sources # 0
  /\ job[h].blocked =>
       /\ used = MaxCalls /\ MoreSources(h)
       /\ job[h].pc \in {"checkpoint", "settle", "returned", "lost"}
  /\ job[h].pc \in {"checkpoint", "settle", "returned"} /\ ~job[h].blocked => ~MoreSources(h)
  /\ At(h, "call") => MoreSources(h) /\ job[h].attempt < MaxAttempts

(* The one checkpoint is written past the loop, with every result.         *)
TokenFollows(h) ==
  /\ job[h].pc \in {"settle", "returned"} => token[h] = job[h].runs
  /\ job[h].pc \notin {"settle", "returned", "lost"} => token[h] = <<>>

HarvestOK(h) == StatusFollows(h) /\ SourcesFollow(h) /\ TokenFollows(h)

Charged == IsFiniteSet(Tried) /\ Cardinality(Tried) <= used

IInv ==
  /\ TypeOK
  /\ used <= MaxCalls
  /\ Charged
  /\ \A h \in Harvests : HarvestOK(h)

LEMMA InitInv == Init => IInv
<1> SUFFICES ASSUME Init PROVE IInv
  OBVIOUS
<1> USE ConstantsAssumption
<1> DEFINE j == [pc |-> "idle", sources |-> 0, attempt |-> 0, blocked |-> FALSE, runs |-> <<>>]
<1>1. j \in Jobs /\ Len(j.runs) = 0 /\ j.sources = 0
  BY DEF Jobs, PCs
<1>2. \A h \in Harvests : job[h] = j /\ status[h] = "absent" /\ token[h] = <<>>
  BY DEF Init
<1>3. TypeOK
  <2>1. job = [h \in Harvests |-> j] /\ token = [h \in Harvests |-> <<>>]
        /\ status = [h \in Harvests |-> "absent"]
    BY DEF Init
  <2> HIDE DEF j
  <2>2. \A h \in Harvests : Len(job[h].runs) <= job[h].sources
    BY <1>1, <1>2
  <2>3. status \in [Harvests -> Lifecycle!RunStates \cup {"absent"}]
    BY <2>1
  <2>4. token \in [Harvests -> Seq(SourceRuns)]
    BY <2>1
  <2>5. job \in [Harvests -> Jobs]
    BY <1>1, <2>1
  <2>6. used \in Nat /\ faults \in 0..MaxFaults
    BY DEF Init
  <2> QED
    BY <2>2, <2>3, <2>4, <2>5, <2>6 DEF TypeOK
<1>4. \A h \in Harvests : HarvestOK(h)
  BY <1>2 DEF HarvestOK, StatusFollows, SourcesFollow, TokenFollows, At
<1>5. Charged
  <2>1. Tried = {}
    <3> SUFFICES ASSUME NEW h \in Harvests, NEW i \in 1..MaxSources,
                        i <= Len(job[h].runs) + (IF At(h, "call") THEN 1 ELSE 0)
        PROVE  FALSE
      BY DEF Tried
    <3>1. Len(job[h].runs) = 0 /\ ~At(h, "call")
      BY <1>2 DEF At
    <3> QED
      BY <3>1
  <2> QED
    BY <2>1, FS_EmptySet DEF Charged, Init
<1> QED
  BY <1>3, <1>4, <1>5 DEF Init, IInv

(* Only the program counter moves.                                         *)
LEMMA JobMoved ==
  ASSUME TypeOK, NEW h \in Harvests, NEW pc \in PCs, Goto(h, pc)
  PROVE  \E j \in Jobs :
           /\ job' = [job EXCEPT ![h] = j] /\ job'[h] = j
           /\ j.pc = pc /\ j.sources = job[h].sources /\ j.attempt = job[h].attempt
           /\ j.blocked = job[h].blocked /\ j.runs = job[h].runs
           /\ Len(j.runs) <= j.sources
<1> DEFINE j == [job[h] EXCEPT !.pc = pc]
<1>1. /\ job \in [Harvests -> Jobs] /\ job[h] \in Jobs
      /\ Len(job[h].runs) <= job[h].sources
  BY DEF TypeOK
<1>2. /\ j \in Jobs
      /\ j.pc = pc /\ j.sources = job[h].sources /\ j.attempt = job[h].attempt
      /\ j.blocked = job[h].blocked /\ j.runs = job[h].runs
  BY <1>1 DEF Jobs
<1>3. job' = [job EXCEPT ![h] = j]
  BY DEF Goto
<1> HIDE DEF j
<1>4. job'[h] = j /\ Len(j.runs) <= j.sources
  BY <1>1, <1>2, <1>3
<1> QED
  BY <1>2, <1>3, <1>4

(* Nothing is tried that was not, and nothing is given back.               *)
LEMMA ChargedKept ==
  ASSUME Charged, used \in Nat, used' = used, Tried' \subseteq Tried
  PROVE  Charged'
<1>1. /\ IsFiniteSet(Tried') /\ Cardinality(Tried') <= Cardinality(Tried)
      /\ Cardinality(Tried') \in Nat /\ Cardinality(Tried) \in Nat
  BY FS_Subset, FS_CardinalityType DEF Charged
<1> QED
  BY <1>1 DEF Charged

(* A step of h other than a charge: it tries what it tried, or ends a try. *)
LEMMA TriedKept ==
  ASSUME TypeOK, NEW h \in Harvests, NEW j \in Jobs, job' = [job EXCEPT ![h] = j],
         \/ j.runs = job[h].runs /\ (j.pc = "call" => At(h, "call"))
         \/ /\ At(h, "call") /\ j.pc # "call"
            /\ Len(j.runs) = Len(job[h].runs) + 1
  PROVE  Tried' \subseteq Tried
<1> SUFFICES ASSUME NEW g \in Harvests, NEW i \in 1..MaxSources,
                    i <= Len(job'[g].runs) + (IF job'[g].pc = "call" THEN 1 ELSE 0)
    PROVE  i <= Len(job[g].runs) + (IF At(g, "call") THEN 1 ELSE 0)
  BY DEF Tried, At
<1>1. job \in [Harvests -> Jobs]
  BY DEF TypeOK
<1>2. CASE g # h
  <2>1. job'[g] = job[g]
    BY <1>1, <1>2
  <2> QED
    BY <2>1 DEF At
<1>3. CASE g = h
  <2>1. job'[g] = j
    BY <1>1, <1>3
  <2>2. job[h].runs \in Seq(SourceRuns) /\ j.runs \in Seq(SourceRuns)
    BY <1>1 DEF Jobs
  <2>3. PICK m \in Nat, n \in Nat : m = Len(job[h].runs) /\ n = Len(j.runs)
    BY <2>2
  <2>4. i <= n + (IF j.pc = "call" THEN 1 ELSE 0)
    BY <2>1, <2>3
  <2>5. \/ n = m /\ (j.pc = "call" => At(h, "call"))
        \/ At(h, "call") /\ j.pc # "call" /\ n = m + 1
    BY <2>3
  <2>6. i <= m + (IF At(h, "call") THEN 1 ELSE 0)
    BY <2>4, <2>5, ConstantsAssumption
  <2> QED
    BY <1>3, <2>3, <2>6
<1> QED
  BY <1>2, <1>3

(* A step of h touches h and the ledger only.                              *)
LEMMA LocalStep ==
  ASSUME IInv, NEW h \in Harvests, NEW j \in Jobs,
         NEW s \in Lifecycle!RunStates \cup {"absent"}, NEW t \in Seq(SourceRuns),
         job' = [job EXCEPT ![h] = j], status' = [status EXCEPT ![h] = s],
         token' = [token EXCEPT ![h] = t],
         used' \in Nat, used' <= MaxCalls, used' = used \/ used < MaxCalls,
         faults' \in 0..MaxFaults,
         Len(j.runs) <= j.sources, HarvestOK(h)', Charged'
  PROVE  IInv'
<1>1. /\ job \in [Harvests -> Jobs] /\ token \in [Harvests -> Seq(SourceRuns)]
      /\ status \in [Harvests -> Lifecycle!RunStates \cup {"absent"}]
      /\ \A g \in Harvests : Len(job[g].runs) <= job[g].sources
  BY DEF IInv, TypeOK
<1>2. /\ job' \in [Harvests -> Jobs] /\ token' \in [Harvests -> Seq(SourceRuns)]
      /\ status' \in [Harvests -> Lifecycle!RunStates \cup {"absent"}]
  BY <1>1
<1>3. \A g \in Harvests :
        g # h => job'[g] = job[g] /\ token'[g] = token[g] /\ status'[g] = status[g]
  BY <1>1
<1>4. job'[h] = j
  BY <1>1
<1>5. \A g \in Harvests : Len(job'[g].runs) <= job'[g].sources
  BY <1>1, <1>3, <1>4
<1>6. TypeOK'
  BY <1>2, <1>5 DEF TypeOK
<1>7. ASSUME NEW g \in Harvests PROVE HarvestOK(g)'
  <2>1. CASE g = h
    BY <2>1
  <2>2. CASE g # h
    <3>1. used = MaxCalls => used' = MaxCalls
      BY ConstantsAssumption
    <3>2. HarvestOK(g)
      BY DEF IInv
    <3> QED
      BY <1>3, <2>2, <3>1, <3>2
         DEF HarvestOK, StatusFollows, SourcesFollow, TokenFollows, At, MoreSources
  <2> QED
    BY <2>1, <2>2
<1> QED
  BY <1>6, <1>7 DEF IInv

(* Nor does it charge or try: it moves on.                                 *)
LEMMA QuietStep ==
  ASSUME IInv, NEW h \in Harvests, NEW j \in Jobs,
         NEW s \in Lifecycle!RunStates \cup {"absent"}, NEW t \in Seq(SourceRuns),
         job' = [job EXCEPT ![h] = j], status' = [status EXCEPT ![h] = s],
         token' = [token EXCEPT ![h] = t],
         used' = used, faults' \in 0..MaxFaults,
         j.runs = job[h].runs, Len(j.runs) <= j.sources,
         j.pc = "call" => At(h, "call"), HarvestOK(h)'
  PROVE  IInv'
<1>1. TypeOK /\ Charged /\ used \in Nat /\ used <= MaxCalls
  BY DEF IInv, TypeOK
<1>2. Tried' \subseteq Tried
  BY <1>1, TriedKept
<1>3. Charged'
  BY <1>1, <1>2, ChargedKept
<1> QED
  BY <1>1, <1>3, LocalStep

(***************************************************************************)
(* The steps                                                               *)
(***************************************************************************)
LEMMA StepInv == IInv /\ [Next]_vars => IInv'
<1> SUFFICES ASSUME IInv, [Next]_vars PROVE IInv'
  OBVIOUS
<1> USE ConstantsAssumption
<1> DEFINE Statuses == Lifecycle!RunStates \cup {"absent"}
<1>t. /\ TypeOK /\ Charged /\ used \in Nat /\ used <= MaxCalls /\ faults \in 0..MaxFaults
      /\ job \in [Harvests -> Jobs] /\ token \in [Harvests -> Seq(SourceRuns)]
      /\ status \in [Harvests -> Statuses]
      /\ \A h \in Harvests : Len(job[h].runs) <= job[h].sources
  BY DEF IInv, TypeOK
<1>s. {"absent", "prepared", "started", "checkpointed", "completed", "blocked", "failed"} \subseteq Statuses
  BY DEF Lifecycle!RunStates
<1>k. \A h \in Harvests :
        /\ status[h] \in Statuses /\ (status' = status => status' = [status EXCEPT ![h] = status[h]])
        /\ token[h] \in Seq(SourceRuns) /\ (token' = token => token' = [token EXCEPT ![h] = token[h]])
  BY <1>t
<1>j. \A h \in Harvests :
        /\ job[h] \in Jobs /\ job[h].runs \in Seq(SourceRuns)
        /\ job[h].sources \in 0..MaxSources /\ job[h].blocked \in BOOLEAN
        /\ job[h].attempt \in 0..MaxAttempts
  BY <1>t DEF Jobs
<1>i. \A h \in Harvests : StatusFollows(h) /\ SourcesFollow(h) /\ TokenFollows(h)
  BY DEF IInv, HarvestOK
<1>a. /\ "prepared" \in Lifecycle!Allowed("start")
      /\ Lifecycle!Allowed("checkpoint") = {"started"}
      /\ \A op \in {"complete", "block", "fail_retryable"} :
           Lifecycle!Allowed(op) = {"started", "checkpointed"}
      /\ Lifecycle!StatusAfter("start") = "started"
      /\ Lifecycle!StatusAfter("checkpoint") = "checkpointed"
      /\ Lifecycle!StatusAfter("complete") = "completed"
      /\ Lifecycle!StatusAfter("block") = "blocked"
      /\ Lifecycle!StatusAfter("fail_retryable") = "failed"
  BY DEF Lifecycle!Allowed, Lifecycle!StatusAfter
<1> HIDE DEF Statuses
<1>1. ASSUME NEW h \in Harvests, NEW n \in 1..MaxSources, Prepare(h, n) PROVE IInv'
  <2>1. /\ At(h, "idle") /\ UNCHANGED <<used, token, faults>>
        /\ status' = [status EXCEPT ![h] = "prepared"]
        /\ job' = [job EXCEPT ![h].pc = "prepared", ![h].sources = n]
    BY <1>1 DEF Prepare
  <2>2. PICK j \in Jobs :
          /\ job' = [job EXCEPT ![h] = j]
          /\ j.pc = "prepared" /\ j.sources = n /\ j.runs = job[h].runs /\ j.blocked = job[h].blocked
    <3> DEFINE j == [job[h] EXCEPT !.pc = "prepared", !.sources = n]
    <3>1. /\ j \in Jobs /\ j.pc = "prepared" /\ j.sources = n /\ j.runs = job[h].runs
          /\ j.blocked = job[h].blocked
      <4>1. n \in 0..MaxSources
        OBVIOUS
      <4> QED
        BY <1>j, <4>1 DEF Jobs, PCs
    <3>2. job' = [job EXCEPT ![h] = j]
      BY <2>1
    <3> HIDE DEF j
    <3> QED
      BY <3>1, <3>2
  <2>3. job'[h] = j /\ status'[h] = "prepared" /\ token' = token
    BY <1>t, <2>1, <2>2
  <2>4. j.runs = <<>> /\ token[h] = <<>> /\ ~j.blocked
    BY <1>i, <2>1, <2>2 DEF SourcesFollow, TokenFollows, At
  <2>5. Len(j.runs) <= j.sources
    BY <2>2, <2>4
  <2>6. HarvestOK(h)'
    BY <2>2, <2>3, <2>4 DEF HarvestOK, StatusFollows, SourcesFollow, TokenFollows, At
  <2> QED
    BY <1>k, <1>t, <1>s, <2>1, <2>2, <2>5, <2>6, QuietStep DEF Statuses
<1>2. ASSUME NEW h \in Harvests, Start(h) PROVE IInv'
  <2>1. At(h, "prepared") /\ UNCHANGED <<used, token, faults>> /\ status[h] = "prepared"
    BY <1>2, <1>i DEF Start, StatusFollows
  <2>2. Goto(h, "charge") /\ status' = [status EXCEPT ![h] = "started"]
    BY <1>2, <1>a, <2>1 DEF Start, Transition
  <2>3. PICK j \in Jobs :
          /\ job' = [job EXCEPT ![h] = j] /\ job'[h] = j
          /\ j.pc = "charge" /\ j.sources = job[h].sources /\ j.attempt = job[h].attempt
          /\ j.blocked = job[h].blocked /\ j.runs = job[h].runs
          /\ Len(j.runs) <= j.sources
    BY <1>t, JobMoved, <2>2 DEF PCs
  <2>4. status'[h] = "started"
    BY <1>t, <2>2
  <2>5. HarvestOK(h)'
    BY <1>i, <2>1, <2>3, <2>4
       DEF HarvestOK, StatusFollows, SourcesFollow, TokenFollows, At, MoreSources
  <2> QED
    BY <1>k, <1>t, <1>s, <2>1, <2>2, <2>3, <2>5, QuietStep DEF Statuses
<1>3. ASSUME NEW h \in Harvests, Consume(h) PROVE IInv'
  <2>1. /\ At(h, "charge") /\ MoreSources(h) /\ used + 1 <= MaxCalls /\ used' = used + 1
        /\ job' = [job EXCEPT ![h].pc = "call", ![h].attempt = 0]
        /\ UNCHANGED <<status, token, faults>>
    BY <1>3 DEF Consume, WithinBudget
  <2>2. PICK j \in Jobs :
          /\ job' = [job EXCEPT ![h] = j]
          /\ j.pc = "call" /\ j.attempt = 0 /\ j.runs = job[h].runs
          /\ j.sources = job[h].sources /\ j.blocked = job[h].blocked
    <3> DEFINE j == [job[h] EXCEPT !.pc = "call", !.attempt = 0]
    <3>1. /\ j \in Jobs /\ j.pc = "call" /\ j.attempt = 0 /\ j.runs = job[h].runs
          /\ j.sources = job[h].sources /\ j.blocked = job[h].blocked
      <4>1. 0 \in 0..MaxAttempts
        OBVIOUS
      <4> QED
        BY <1>j, <4>1 DEF Jobs, PCs
    <3>2. job' = [job EXCEPT ![h] = j]
      BY <2>1
    <3> HIDE DEF j
    <3> QED
      BY <3>1, <3>2
  <2>3. job'[h] = j /\ Len(j.runs) <= j.sources
    BY <1>t, <2>2
  <2>4. 0 < MaxAttempts
    OBVIOUS
  <2>5. HarvestOK(h)'
    <3>1. j.attempt < MaxAttempts
      BY <2>2, <2>4
    <3>2. ~j.blocked /\ status[h] = "started" /\ token[h] = <<>> /\ j.sources # 0
      BY <1>i, <2>1, <2>2 DEF StatusFollows, SourcesFollow, TokenFollows, At
    <3> QED
      BY <2>1, <2>2, <2>3, <3>1, <3>2
         DEF HarvestOK, StatusFollows, SourcesFollow, TokenFollows, At, MoreSources
  <2>6. Charged'
    <3>1. PICK len \in Nat : len = Len(job[h].runs)
      BY <1>j
    <3> DEFINE new == <<h, len + 1>>
    <3>2. Tried' \subseteq Tried \cup {new}
      <4> SUFFICES ASSUME NEW try \in Tried', try # new PROVE try \in Tried
        OBVIOUS
      <4>t. PICK g \in Harvests, i \in 1..MaxSources :
              /\ try = <<g, i>>
              /\ i <= Len(job'[g].runs) + (IF job'[g].pc = "call" THEN 1 ELSE 0)
        <5>1. /\ try \in Harvests \X (1..MaxSources)
              /\ try[2] <= Len(job'[try[1]].runs) + (IF job'[try[1]].pc = "call" THEN 1 ELSE 0)
          BY DEF Tried, At
        <5>2. try[1] \in Harvests /\ try[2] \in 1..MaxSources /\ try = <<try[1], try[2]>>
          BY <5>1
        <5> QED
          BY <5>1, <5>2
      <4> SUFFICES i <= Len(job[g].runs) + (IF At(g, "call") THEN 1 ELSE 0)
        BY <4>t DEF Tried
      <4>1. CASE g # h
        <5>1. job'[g] = job[g]
          BY <1>t, <2>2, <4>1
        <5> QED
          BY <4>t, <5>1 DEF At
      <4>2. CASE g = h
        <5>1. i <= len + 1 /\ i # len + 1 /\ ~At(h, "call")
          BY <2>1, <2>2, <2>3, <3>1, <4>2, <4>t DEF At
        <5>2. i <= len + 0
          BY <5>1
        <5> QED
          BY <3>1, <4>2, <5>1, <5>2
      <4> QED
        BY <4>1, <4>2
    <3>3. /\ IsFiniteSet(Tried) /\ Cardinality(Tried) \in Nat /\ Cardinality(Tried) <= used
      BY <1>t, FS_CardinalityType DEF Charged
    <3> HIDE DEF new
    <3>4. /\ IsFiniteSet(Tried \cup {new})
          /\ Cardinality(Tried \cup {new}) <= Cardinality(Tried) + 1
          /\ Cardinality(Tried \cup {new}) \in Nat
      <4>1. /\ IsFiniteSet(Tried \cup {new})
            /\ Cardinality(Tried \cup {new}) \in {Cardinality(Tried), Cardinality(Tried) + 1}
        BY <3>3, FS_AddElement
      <4> QED
        BY <3>3, <4>1
    <3>5. /\ IsFiniteSet(Tried') /\ Cardinality(Tried') <= Cardinality(Tried \cup {new})
          /\ Cardinality(Tried') \in Nat
      BY <3>2, <3>4, FS_Subset, FS_CardinalityType
    <3>6. Cardinality(Tried') <= used + 1
      BY <1>t, <3>3, <3>4, <3>5
    <3> QED
      BY <2>1, <3>5, <3>6 DEF Charged
  <2>7. used' \in Nat /\ used' <= MaxCalls /\ used < MaxCalls
    BY <1>t, <2>1
  <2> QED
    BY ZenonT(60), <1>k, <1>t, <2>1, <2>2, <2>3, <2>5, <2>6, <2>7, LocalStep DEF Statuses
<1>4. ASSUME NEW h \in Harvests, BudgetExceeded(h) PROVE IInv'
  <2>1. /\ At(h, "charge") /\ MoreSources(h) /\ ~(used + 1 <= MaxCalls)
        /\ job' = [job EXCEPT ![h].pc = "checkpoint", ![h].blocked = TRUE]
        /\ UNCHANGED <<used, status, token, faults>>
    BY <1>4 DEF BudgetExceeded, WithinBudget
  <2>2. PICK j \in Jobs :
          /\ job' = [job EXCEPT ![h] = j]
          /\ j.pc = "checkpoint" /\ j.blocked = TRUE /\ j.runs = job[h].runs
          /\ j.sources = job[h].sources
    <3> DEFINE j == [job[h] EXCEPT !.pc = "checkpoint", !.blocked = TRUE]
    <3>1. /\ j \in Jobs /\ j.pc = "checkpoint" /\ j.blocked = TRUE /\ j.runs = job[h].runs
          /\ j.sources = job[h].sources
      BY <1>j DEF Jobs, PCs
    <3>2. job' = [job EXCEPT ![h] = j]
      BY <2>1
    <3> HIDE DEF j
    <3> QED
      BY <3>1, <3>2
  <2>3. job'[h] = j /\ Len(j.runs) <= j.sources
    BY <1>t, <2>2
  <2>4. used = MaxCalls
    BY <1>t, <2>1
  <2>5. HarvestOK(h)'
    <3>1. status[h] = "started" /\ token[h] = <<>> /\ j.sources # 0
      BY <1>i, <2>1, <2>2 DEF StatusFollows, SourcesFollow, TokenFollows, At
    <3> QED
      BY <2>1, <2>2, <2>3, <2>4, <3>1
         DEF HarvestOK, StatusFollows, SourcesFollow, TokenFollows, At, MoreSources
  <2> QED
    BY <1>k, <1>t, <2>1, <2>2, <2>3, <2>5, QuietStep DEF Statuses
<1>5. ASSUME NEW h \in Harvests, NEW outcome \in Outcomes, RunSource(h, outcome) PROVE IInv'
  <2>1. At(h, "call") /\ UNCHANGED <<used, status, token, faults>>
    BY <1>5 DEF RunSource
  <2>2. PICK attempt \in 0..MaxAttempts :
          attempt = job[h].attempt /\ attempt + 1 \in 1..MaxAttempts
    <3>1. PICK attempt \in 0..MaxAttempts : attempt = job[h].attempt
      BY <1>j
    <3>2. attempt < MaxAttempts
      BY <1>i, <2>1, <3>1 DEF SourcesFollow
    <3> QED
      BY <3>1, <3>2
  <2>3. /\ ~job[h].blocked /\ status[h] = "started" /\ token[h] = <<>> /\ job[h].sources # 0
        /\ MoreSources(h)
    BY <1>i, <2>1 DEF StatusFollows, SourcesFollow, TokenFollows, At
  <2>4. CASE Retry(outcome, attempt + 1)
    <3>1. job' = [job EXCEPT ![h].attempt = attempt + 1] /\ attempt + 1 < MaxAttempts
      BY <1>5, <2>2, <2>4 DEF RunSource, Retry
    <3>2. PICK j \in Jobs :
            /\ job' = [job EXCEPT ![h] = j]
            /\ j.pc = "call" /\ j.attempt = attempt + 1 /\ j.runs = job[h].runs
            /\ j.sources = job[h].sources /\ j.blocked = job[h].blocked
      <4> DEFINE j == [job[h] EXCEPT !.attempt = attempt + 1]
      <4>1. /\ j \in Jobs /\ j.pc = "call" /\ j.attempt = attempt + 1 /\ j.runs = job[h].runs
            /\ j.sources = job[h].sources /\ j.blocked = job[h].blocked
        BY <1>j, <2>1, <2>2 DEF Jobs, At
      <4>2. job' = [job EXCEPT ![h] = j]
        BY <3>1
      <4> HIDE DEF j
      <4> QED
        BY <4>1, <4>2
    <3>3. job'[h] = j /\ Len(j.runs) <= j.sources
      BY <1>t, <3>2
    <3>4. j.attempt < MaxAttempts
      BY <3>1, <3>2
    <3>5. HarvestOK(h)'
      BY <2>1, <2>3, <3>2, <3>3, <3>4
         DEF HarvestOK, StatusFollows, SourcesFollow, TokenFollows, At, MoreSources
    <3> QED
      BY <1>k, <1>t, <2>1, <3>2, <3>3, <3>5, QuietStep DEF Statuses
  <2>5. CASE ~Retry(outcome, attempt + 1)
    <3> DEFINE run == [outcome |-> outcome, attempts |-> attempt + 1]
               more == Append(job[h].runs, run)
    <3>1. run \in SourceRuns
      BY <2>2 DEF SourceRuns
    <3>2. PICK len \in Nat, sources \in 0..MaxSources :
            /\ len = Len(job[h].runs) /\ sources = job[h].sources
            /\ more \in Seq(SourceRuns) /\ Len(more) = len + 1 /\ len < sources
      <4>1. PICK runs \in Seq(SourceRuns) : runs = job[h].runs
        BY <1>j
      <4>2. PICK len \in Nat, sources \in 0..MaxSources : len = Len(runs) /\ sources = job[h].sources
        BY <1>j
      <4>3. len < sources
        BY <2>3, <4>1, <4>2 DEF MoreSources
      <4> HIDE DEF run
      <4>4. Append(runs, run) \in Seq(SourceRuns) /\ Len(Append(runs, run)) = Len(runs) + 1
        BY <3>1, AppendProperties
      <4> QED
        BY <4>1, <4>2, <4>3, <4>4
    <3>3. job' = [job EXCEPT ![h].pc = "charge", ![h].attempt = 0, ![h].runs = more]
      BY <1>5, <2>2, <2>5 DEF RunSource
    <3> HIDE DEF more
    <3>4. PICK j \in Jobs :
            /\ job' = [job EXCEPT ![h] = j]
            /\ j.pc = "charge" /\ j.runs = more
            /\ j.sources = job[h].sources /\ j.blocked = job[h].blocked
      <4> DEFINE j == [job[h] EXCEPT !.pc = "charge", !.attempt = 0, !.runs = more]
      <4>1. /\ j \in Jobs /\ j.pc = "charge" /\ j.runs = more
            /\ j.sources = job[h].sources /\ j.blocked = job[h].blocked
        <5>1. 0 \in 0..MaxAttempts
          OBVIOUS
        <5> QED
          BY <1>j, <3>2, <5>1 DEF Jobs, PCs
      <4>2. job' = [job EXCEPT ![h] = j]
        BY <3>3
      <4> HIDE DEF j
      <4> QED
        BY <4>1, <4>2
    <3>5. job'[h] = j
      BY <1>t, <3>4
    <3>6. Len(j.runs) <= j.sources /\ Len(j.runs) = Len(job[h].runs) + 1
      BY <3>2, <3>4
    <3>7. HarvestOK(h)'
      BY <2>1, <2>3, <3>4, <3>5 DEF HarvestOK, StatusFollows, SourcesFollow, TokenFollows, At
    <3>8. Charged'
      <4>1. Tried' \subseteq Tried
        BY <1>t, <2>1, <3>4, <3>6, TriedKept
      <4> QED
        BY <1>t, <2>1, <4>1, ChargedKept
    <3> QED
      BY <1>k, <1>t, <2>1, <3>4, <3>6, <3>7, <3>8, LocalStep DEF Statuses
  <2> QED
    BY <2>4, <2>5
<1>6. ASSUME NEW h \in Harvests, MappingFails(h) PROVE IInv'
  <2>1. At(h, "call") /\ Goto(h, "raised") /\ UNCHANGED <<used, status, token, faults>>
    BY <1>6 DEF MappingFails
  <2>2. PICK j \in Jobs :
          /\ job' = [job EXCEPT ![h] = j] /\ job'[h] = j
          /\ j.pc = "raised" /\ j.sources = job[h].sources /\ j.attempt = job[h].attempt
          /\ j.blocked = job[h].blocked /\ j.runs = job[h].runs
          /\ Len(j.runs) <= j.sources
    BY <1>t, JobMoved, <2>1 DEF PCs
  <2>3. HarvestOK(h)'
    BY <1>i, <2>1, <2>2
       DEF HarvestOK, StatusFollows, SourcesFollow, TokenFollows, At, MoreSources
  <2> QED
    BY <1>k, <1>t, <2>1, <2>2, <2>3, QuietStep DEF Statuses
<1>7. ASSUME NEW h \in Harvests, NoMoreSources(h) PROVE IInv'
  <2>1. /\ At(h, "charge") /\ ~MoreSources(h) /\ Goto(h, "checkpoint")
        /\ UNCHANGED <<used, status, token, faults>>
    BY <1>7 DEF NoMoreSources
  <2>2. PICK j \in Jobs :
          /\ job' = [job EXCEPT ![h] = j] /\ job'[h] = j
          /\ j.pc = "checkpoint" /\ j.sources = job[h].sources /\ j.attempt = job[h].attempt
          /\ j.blocked = job[h].blocked /\ j.runs = job[h].runs
          /\ Len(j.runs) <= j.sources
    BY <1>t, JobMoved, <2>1 DEF PCs
  <2>3. HarvestOK(h)'
    BY <1>i, <2>1, <2>2
       DEF HarvestOK, StatusFollows, SourcesFollow, TokenFollows, At, MoreSources
  <2> QED
    BY <1>k, <1>t, <2>1, <2>2, <2>3, QuietStep DEF Statuses
<1>8. ASSUME NEW h \in Harvests, Checkpoint(h) PROVE IInv'
  <2>1. At(h, "checkpoint") /\ UNCHANGED <<used, faults>> /\ status[h] = "started" /\ token[h] = <<>>
    BY <1>8, <1>i DEF Checkpoint, StatusFollows, TokenFollows, At
  <2>2. Goto(h, "settle")
    BY <1>8, <1>a, <2>1 DEF Checkpoint, Transition
  <2>3. PICK s \in {"started", "checkpointed"} : status' = [status EXCEPT ![h] = s]
    BY <1>8, <1>a, <1>k, <2>1 DEF Checkpoint, Transition
  <2>4. token' = [token EXCEPT ![h] = job[h].runs]
    BY <1>8, <1>a, <1>k, <2>1 DEF Checkpoint, CheckpointPayload
  <2>5. PICK j \in Jobs :
          /\ job' = [job EXCEPT ![h] = j] /\ job'[h] = j
          /\ j.pc = "settle" /\ j.sources = job[h].sources /\ j.attempt = job[h].attempt
          /\ j.blocked = job[h].blocked /\ j.runs = job[h].runs
          /\ Len(j.runs) <= j.sources
    BY <1>t, JobMoved, <2>2 DEF PCs
  <2>6. status'[h] = s /\ token'[h] = job[h].runs
    BY <1>t, <2>3, <2>4
  <2>7. HarvestOK(h)'
    BY <1>i, <2>1, <2>5, <2>6
       DEF HarvestOK, StatusFollows, SourcesFollow, TokenFollows, At, MoreSources
  <2>8. s \in Statuses
    BY <1>s
  <2> QED
    BY <1>j, <1>t, <2>1, <2>3, <2>4, <2>5, <2>7, <2>8, QuietStep DEF Statuses
<1>9. ASSUME NEW h \in Harvests, Settle(h) PROVE IInv'
  <2> DEFINE s == IF job[h].blocked THEN "blocked"
                  ELSE IF AllErrors(job[h].runs) THEN "failed" ELSE "completed"
  <2>1. /\ At(h, "settle") /\ UNCHANGED <<used, token, faults>>
        /\ status[h] \in {"started", "checkpointed"}
    BY <1>9, <1>i DEF Settle, StatusFollows
  <2>2. Verdict(h) \in {"complete", "block", "fail_retryable"} /\ Lifecycle!StatusAfter(Verdict(h)) = s
    BY <1>a DEF Verdict
  <2>3. Goto(h, "returned") /\ status' = [status EXCEPT ![h] = s]
    BY <1>9, <1>a, <2>1, <2>2 DEF Settle, Transition
  <2>4. PICK j \in Jobs :
          /\ job' = [job EXCEPT ![h] = j] /\ job'[h] = j
          /\ j.pc = "returned" /\ j.sources = job[h].sources /\ j.attempt = job[h].attempt
          /\ j.blocked = job[h].blocked /\ j.runs = job[h].runs
          /\ Len(j.runs) <= j.sources
    BY <1>t, JobMoved, <2>3 DEF PCs
  <2>5. status'[h] = s /\ s \in Statuses
    BY <1>t, <1>s, <2>3
  <2>6. HarvestOK(h)'
    BY <1>i, <2>1, <2>4, <2>5
       DEF HarvestOK, StatusFollows, SourcesFollow, TokenFollows, At, MoreSources
  <2> HIDE DEF s
  <2> QED
    BY <1>k, <1>t, <2>1, <2>3, <2>4, <2>5, <2>6, QuietStep DEF Statuses
<1>10. ASSUME NEW h \in Harvests, CutShort(h) PROVE IInv'
  <2>1. /\ job[h].pc \notin Over \cup {"idle"} /\ Goto(h, "lost")
        /\ faults' \in 0..MaxFaults /\ UNCHANGED <<used, status, token>>
    BY <1>10, <1>t DEF CutShort
  <2>2. PICK j \in Jobs :
          /\ job' = [job EXCEPT ![h] = j] /\ job'[h] = j
          /\ j.pc = "lost" /\ j.sources = job[h].sources /\ j.attempt = job[h].attempt
          /\ j.blocked = job[h].blocked /\ j.runs = job[h].runs
          /\ Len(j.runs) <= j.sources
    BY <1>t, JobMoved, <2>1 DEF PCs
  <2>3. job[h].pc \in {"prepared", "charge", "call", "checkpoint", "settle"}
    BY <1>j, <2>1 DEF Jobs, PCs, Over
  <2>4. status[h] \in {"prepared", "started", "checkpointed"}
    BY <1>i, <2>3 DEF StatusFollows, At
  <2>5. HarvestOK(h)'
    BY <1>i, <2>1, <2>2, <2>3, <2>4
       DEF HarvestOK, StatusFollows, SourcesFollow, TokenFollows, At, MoreSources
  <2> QED
    BY <1>k, <1>t, <2>1, <2>2, <2>5, QuietStep DEF Statuses
<1>11. CASE UNCHANGED vars
  BY <1>11 DEF vars, IInv, TypeOK, Charged, Tried, HarvestOK, StatusFollows, SourcesFollow,
               TokenFollows, At, MoreSources
<1> QED
  BY <1>1, <1>2, <1>3, <1>4, <1>5, <1>6, <1>7, <1>8, <1>9, <1>10, <1>11 DEF Next, Proceed, Done

LEMMA Invariance == Spec => []IInv
BY InitInv, StepInv, PTL DEF Spec

(* Every state of the harvests of a workspace, their ledger and their runs *)
(* is well typed (run_harvest).                                            *)
THEOREM TypeCorrect == Spec => []TypeOK
<1>1. IInv => TypeOK
  BY DEF IInv
<1> QED
  BY <1>1, Invariance, PTL

(* Sources are charged before they run and the ledger keeps its limit;     *)
(* blocked means spent; a settled run has every result in its checkpoint   *)
(* and a verdict on the whole request; no transition is refused: however   *)
(* harvests interleave and wherever they are cut short (run_harvest).      *)
THEOREM VerdictsAccounted == Spec => []VerdictsAreAccounted
<1>1. IInv => SourcesAreCharged
  BY DEF IInv, Charged, SourcesAreCharged
<1>2. IInv => /\ BlockedOnlyWhenSpent /\ SettledRunsAreAccounted
              /\ VerdictsCoverTheRequest /\ NeverRefused
  <2> SUFFICES ASSUME IInv, NEW h \in Harvests
               PROVE  /\ status[h] = "blocked" => used = MaxCalls /\ MoreSources(h)
                      /\ status[h] \in Verdicts => token[h] = job[h].runs
                      /\ status[h] \in {"completed", "failed"} => ~MoreSources(h)
                      /\ status[h] = "failed" => \A i \in DOMAIN job[h].runs : job[h].runs[i].outcome = "error"
                      /\ status[h] = "completed" => \E i \in DOMAIN job[h].runs : job[h].runs[i].outcome # "error"
                      /\ ~At(h, "refused")
    BY DEF BlockedOnlyWhenSpent, SettledRunsAreAccounted, VerdictsCoverTheRequest, NeverRefused, Verdicts
  <2>2. job[h] \in Jobs /\ StatusFollows(h) /\ SourcesFollow(h) /\ TokenFollows(h)
    BY DEF IInv, TypeOK, HarvestOK
  <2>3. job[h].pc \in PCs /\ job[h].runs \in Seq(SourceRuns) /\ job[h].sources \in 0..MaxSources
    BY <2>2 DEF Jobs
  <2>4. status[h] \in Verdicts => At(h, "returned")
    BY <2>2, <2>3 DEF StatusFollows, At, Verdicts, PCs
  <2>5. At(h, "returned") =>
          /\ token[h] = job[h].runs
          /\ job[h].blocked => used = MaxCalls /\ MoreSources(h)
          /\ ~job[h].blocked => ~MoreSources(h)
          /\ job[h].sources # 0
    BY <2>2 DEF SourcesFollow, TokenFollows, At
  <2>6. At(h, "returned") /\ ~job[h].blocked => job[h].runs # <<>>
    <3> SUFFICES ASSUME ~MoreSources(h), job[h].sources # 0, job[h].runs = <<>>
        PROVE  FALSE
      BY <2>5
    <3>1. PICK sources \in Nat : sources = job[h].sources
      BY <2>3, ConstantsAssumption
    <3>2. Len(job[h].runs) = 0
      OBVIOUS
    <3> QED
      BY <3>1, <3>2 DEF MoreSources
  <2>7. At(h, "returned") =>
          status[h] = IF job[h].blocked THEN "blocked"
                      ELSE IF AllErrors(job[h].runs) THEN "failed" ELSE "completed"
    BY <2>2 DEF StatusFollows
  <2>8. ~At(h, "refused")
    BY <2>2 DEF StatusFollows
  <2> QED
    BY <2>4, <2>5, <2>6, <2>7, <2>8 DEF Verdicts, AllErrors
<1> QED
  BY <1>1, <1>2, Invariance, PTL DEF VerdictsAreAccounted

(* run_harvest implements the life of a run: whatever the interleaving,    *)
(* the status of each run only makes the moves run_manager.py allows.      *)
THEOREM HarvestsKeepTheLifecycle == Spec => Lifecycle!Spec
<1>1. Init => Lifecycle!Init
  BY DEF Init, Lifecycle!Init
<1>2. IInv /\ [Next]_vars => [Lifecycle!Next]_status
  <2> SUFFICES ASSUME IInv, Next PROVE [Lifecycle!Next]_status
    BY DEF vars
  <2>a. ASSUME NEW h \in Harvests, NEW s \in Lifecycle!RunStates,
               <<status[h], s>> \in Lifecycle!LegalMoves, status' = [status EXCEPT ![h] = s]
        PROVE  Lifecycle!Next
    BY <2>a DEF Lifecycle!Next, Lifecycle!Move
  <2>s. {"prepared", "started", "checkpointed", "completed", "blocked", "failed"} \subseteq Lifecycle!RunStates
    BY DEF Lifecycle!RunStates
  <2>i. \A h \in Harvests : StatusFollows(h)
    BY DEF IInv, HarvestOK
  <2>1. ASSUME NEW h \in Harvests, NEW n, Prepare(h, n) PROVE Lifecycle!Next
    BY <2>1, <2>a, <2>s, <2>i DEF Prepare, StatusFollows, Lifecycle!LegalMoves
  <2>2. ASSUME NEW h \in Harvests, Start(h) PROVE [Lifecycle!Next]_status
    <3>1. status[h] = "prepared"
      BY <2>2, <2>i DEF Start, StatusFollows
    <3>2. status' = status \/ status' = [status EXCEPT ![h] = "started"]
      BY <2>2 DEF Start, Transition, Lifecycle!StatusAfter
    <3> QED
      BY <2>a, <2>s, <3>1, <3>2 DEF Lifecycle!LegalMoves
  <2>3. ASSUME NEW h \in Harvests, Checkpoint(h) PROVE [Lifecycle!Next]_status
    <3>1. status[h] = "started"
      BY <2>3, <2>i DEF Checkpoint, StatusFollows, At
    <3>2. status' = status \/ status' = [status EXCEPT ![h] = "checkpointed"]
      BY <2>3 DEF Checkpoint, Transition, Lifecycle!StatusAfter
    <3> QED
      BY <2>a, <2>s, <3>1, <3>2 DEF Lifecycle!LegalMoves
  <2>4. ASSUME NEW h \in Harvests, Settle(h) PROVE [Lifecycle!Next]_status
    <3>1. status[h] \in {"started", "checkpointed"}
      BY <2>4, <2>i DEF Settle, StatusFollows
    <3>2. Lifecycle!StatusAfter(Verdict(h)) \in {"completed", "blocked", "failed"}
      BY DEF Verdict, Lifecycle!StatusAfter
    <3>3. \/ status' = status
          \/ \E s \in {"completed", "blocked", "failed"} : status' = [status EXCEPT ![h] = s]
      BY <2>4, <3>2 DEF Settle, Transition
    <3>4. \A s \in {"completed", "blocked", "failed"} : <<status[h], s>> \in Lifecycle!LegalMoves
      BY <3>1 DEF Lifecycle!LegalMoves
    <3> QED
      BY <2>a, <2>s, <3>3, <3>4
  <2>5. ASSUME NEW h \in Harvests, NEW outcome, RunSource(h, outcome) PROVE UNCHANGED status
    BY <2>5 DEF RunSource
  <2>6. ASSUME NEW h \in Harvests,
               \/ Consume(h) \/ BudgetExceeded(h) \/ MappingFails(h)
               \/ NoMoreSources(h) \/ CutShort(h)
        PROVE  UNCHANGED status
    BY <2>6 DEF Consume, BudgetExceeded, MappingFails, NoMoreSources, CutShort
  <2>7. CASE Done
    BY <2>7 DEF Done, vars
  <2> QED
    BY <2>1, <2>2, <2>3, <2>4, <2>5, <2>6, <2>7 DEF Next, Proceed
<1> QED
  BY <1>1, <1>2, Invariance, PTL DEF Spec, Lifecycle!Spec

(***************************************************************************)
(* Acquisition: what the requests in progress are about to write           *)
(***************************************************************************)
RequestRecords ==
  [pc : Steps, kind : {"discover", "acquire", "identify"},
   entity : Entities \cup {Idle.entity}, hit : Hits \cup {Idle.hit},
   seen : SUBSET Hits, evidence : Nat, left : 0..MaxHits]

KindFollows(q) ==
  /\ AtStep(q, "put_signal") => Kind(q) = "discover"
  /\ AtStep(q, "put_evidence") => Kind(q) \in {"acquire", "identify"}
  /\ AtStep(q, "put_mapping") => Kind(q) = "identify"

(* The requests that looked for a copy, found none and will write one.     *)
SignalWriters(hit) == {q \in Requests : AtStep(q, "put_signal") /\ Hit(q) = hit}
MappingWriters(hit) ==
  {q \in Requests : /\ request[q].pc \in {"put_evidence", "put_mapping"}
                    /\ Kind(q) = "identify" /\ Hit(q).locator = hit.locator}
AcquiredWriters(hit) ==
  {q \in Requests : /\ AtStep(q, "put_evidence")
                    /\ Kind(q) = "acquire" /\ Hit(q).excerpt = hit.excerpt}

(* The copies there are and the copies to come are no more than threads.   *)
Room(copies, writers) ==
  /\ IsFiniteSet(copies)
  /\ Cardinality(copies) + Cardinality(writers) <= Cardinality(Requests)

CopiesHaveRoom(hit) ==
  /\ Room(SameSignal(hit), SignalWriters(hit))
  /\ Room(SameMapping(hit), MappingWriters(hit))
  /\ Room(SameAcquired(hit), AcquiredWriters(hit))

(* Between its two writes a request has one orphan of its own in hand.     *)
Between == {q \in Requests : AtStep(q, "put_mapping")}

InHand(q) ==
  LET i == request[q].evidence IN
  q \in Between => i \in Orphans /\ evidence[i].hit = Hit(q) /\ evidence[i].entity = request[q].entity

InHandOnce == \A p, q \in Between : p # q => request[p].evidence # request[q].evidence

OrphansOwed == IsFiniteSet(Orphans) /\ Cardinality(Orphans) <= cuts + Cardinality(Between)

AcquisitionInv ==
  /\ AcquisitionTypeOK
  /\ request \in [Requests -> RequestRecords]
  /\ \A q \in Requests : KindFollows(q) /\ InHand(q)
  /\ InHandOnce
  /\ \A hit \in Hits : CopiesHaveRoom(hit)
  /\ MappingsRestOnEvidence
  /\ OrphansOwed

LEMMA RoomFor ==
  ASSUME NEW copies, NEW writers \in SUBSET Requests, NEW next \in SUBSET Requests,
         Room(copies, writers),
         next \subseteq writers \/ copies = {}
  PROVE  Room(copies, next)
<1> USE AcquisitionAssumption
<1>1. /\ IsFiniteSet(writers) /\ IsFiniteSet(next) /\ IsFiniteSet(copies)
      /\ Cardinality(writers) \in Nat /\ Cardinality(next) \in Nat /\ Cardinality(copies) \in Nat
      /\ Cardinality(Requests) \in Nat /\ Cardinality(next) <= Cardinality(Requests)
  BY FS_Subset, FS_CardinalityType DEF Room
<1>2. next \subseteq writers => Cardinality(next) <= Cardinality(writers)
  BY <1>1, FS_Subset
<1>3. copies = {} => Cardinality(copies) = 0
  BY FS_EmptySet
<1> QED
  BY <1>1, <1>2, <1>3 DEF Room

LEMMA RoomTaken ==
  ASSUME NEW copies, NEW writers \in SUBSET Requests, Room(copies, writers),
         NEW q \in writers, NEW new
  PROVE  Room(copies \cup {new}, writers \ {q})
<1> USE AcquisitionAssumption
<1>1. /\ IsFiniteSet(writers) /\ IsFiniteSet(copies)
      /\ Cardinality(writers) \in Nat /\ Cardinality(copies) \in Nat
      /\ Cardinality(Requests) \in Nat
  BY FS_Subset, FS_CardinalityType DEF Room
<1>2. Cardinality(writers \ {q}) = Cardinality(writers) - 1
  BY <1>1, FS_RemoveElement
<1>3. /\ IsFiniteSet(copies \cup {new})
      /\ Cardinality(copies \cup {new}) \in {Cardinality(copies), Cardinality(copies) + 1}
  BY <1>1, FS_AddElement
<1> QED
  BY <1>1, <1>2, <1>3 DEF Room

LEMMA AcquisitionStarts == AcquisitionInit => AcquisitionInv
<1> SUFFICES ASSUME AcquisitionInit PROVE AcquisitionInv
  OBVIOUS
<1> USE AcquisitionAssumption
<1>1. \A q \in Requests : request[q] = Idle
  BY DEF AcquisitionInit
<1>2. Idle.pc = "idle" /\ Idle.seen = {} /\ Idle.left = 0 /\ Idle \in RequestRecords
  <2>1. 0 \in 0..MaxHits
    OBVIOUS
  <2> QED
    BY <2>1 DEF Idle, RequestRecords, Steps
<1>3. AcquisitionTypeOK
  <2>1. signals = <<>> /\ evidence = <<>> /\ mappings = <<>> /\ requests = 0 /\ cuts = 0
    BY DEF AcquisitionInit
  <2>2. signals \in Seq(Hits) /\ evidence \in Seq(Evidence) /\ mappings \in Seq(Mappings)
    BY <2>1
  <2>3. requests \in 0..MaxRequests /\ cuts \in 0..MaxCuts /\ 0 \in 0..MaxHits
    BY <2>1
  <2>4. \A q \in Requests : request[q].pc = "idle" /\ request[q].seen = {} /\ request[q].left = 0
    BY <1>1, <1>2
  <2> QED
    BY <2>2, <2>3, <2>4 DEF AcquisitionTypeOK, Steps
<1>4. request \in [Requests -> RequestRecords]
  BY <1>2 DEF AcquisitionInit
<1>5. Between = {}
  BY <1>1, <1>2 DEF Between, AtStep
<1>6. \A q \in Requests : KindFollows(q) /\ InHand(q)
  BY <1>1, <1>2, <1>5 DEF KindFollows, InHand, AtStep
<1>7. MappingsRestOnEvidence
  BY DEF MappingsRestOnEvidence, AcquisitionInit
<1>8. Orphans = {}
  BY DEF Orphans, AcquisitionInit
<1>9. OrphansOwed
  BY <1>5, <1>8, FS_EmptySet DEF OrphansOwed, AcquisitionInit
<1>10. ASSUME NEW hit \in Hits PROVE CopiesHaveRoom(hit)
  <2>1. SameSignal(hit) = {} /\ SameMapping(hit) = {} /\ SameAcquired(hit) = {}
    BY DEF SameSignal, SameMapping, SameAcquired, AcquisitionInit
  <2>2. SignalWriters(hit) = {} /\ MappingWriters(hit) = {} /\ AcquiredWriters(hit) = {}
    BY <1>1, <1>2 DEF SignalWriters, MappingWriters, AcquiredWriters, AtStep
  <2> QED
    BY <2>1, <2>2, FS_EmptySet, FS_CardinalityType DEF CopiesHaveRoom, Room
<1> QED
  BY <1>3, <1>4, <1>5, <1>6, <1>7, <1>9, <1>10 DEF AcquisitionInv, InHandOnce

(* What holds of a thread in every state, as one formula.                  *)
Thread(q, r) ==
  /\ r \in RequestRecords
  /\ r.pc # "idle" => r.kind \in Kinds /\ r.entity \in Entities
  /\ r.pc \in Steps \ {"idle", "next"} => r.hit \in Hits
  /\ r.pc = "put_signal" => r.kind = "discover"
  /\ r.pc = "put_evidence" => r.kind \in {"acquire", "identify"}
  /\ r.pc = "put_mapping" => r.kind = "identify"

LEMMA ThreadsAre ==
  ASSUME AcquisitionInv, NEW q \in Requests
  PROVE  Thread(q, request[q])
BY DEF Thread, AcquisitionInv, AcquisitionTypeOK, KindFollows, AtStep, Kind

(* Only the program counter of a thread moves.                             *)
LEMMA ThreadMoved ==
  ASSUME AcquisitionInv, NEW q \in Requests, NEW pc \in Steps, GoOn(q, pc),
         ~AtStep(q, "idle"), pc \notin {"idle", "next"} => ~AtStep(q, "next"),
         pc = "put_signal" => Kind(q) = "discover",
         pc = "put_evidence" => Kind(q) \in {"acquire", "identify"},
         pc = "put_mapping" => Kind(q) = "identify"
  PROVE  \E r \in RequestRecords :
           /\ request' = [request EXCEPT ![q] = r] /\ Thread(q, r) /\ r.pc = pc
           /\ r.kind = Kind(q) /\ r.hit = Hit(q) /\ r.entity = request[q].entity
<1> DEFINE r == [request[q] EXCEPT !.pc = pc]
<1>1. Thread(q, request[q]) /\ request[q] \in RequestRecords
  BY ThreadsAre DEF Thread
<1>2. /\ r \in RequestRecords /\ r.pc = pc
      /\ r.kind = Kind(q) /\ r.hit = Hit(q) /\ r.entity = request[q].entity
  BY <1>1 DEF RequestRecords, Kind, Hit
<1>3. request' = [request EXCEPT ![q] = r]
  BY DEF GoOn
<1> HIDE DEF r
<1>4. request[q].pc \in Steps \ {"idle"}
  BY <1>1 DEF AtStep, RequestRecords
<1>5. Thread(q, r)
  BY <1>1, <1>2, <1>4 DEF Thread, AtStep, Kind, Hit
<1> QED
  BY <1>2, <1>3, <1>5

(* One thread moves: the others are as they were.                          *)
LEMMA OneMoves ==
  ASSUME AcquisitionInv, NEW q \in Requests, NEW r, Thread(q, r),
         request' = [request EXCEPT ![q] = r]
  PROVE  /\ request' \in [Requests -> RequestRecords] /\ request'[q] = r
         /\ \A p \in Requests : p # q => request'[p] = request[p]
         /\ \A p \in Requests : Thread(p, request'[p]) /\ KindFollows(p)'
<1>1. request \in [Requests -> RequestRecords] /\ r \in RequestRecords
  BY DEF AcquisitionInv, Thread
<1>2. request' \in [Requests -> RequestRecords] /\ request'[q] = r
  BY <1>1
<1>3. \A p \in Requests : p # q => request'[p] = request[p]
  BY <1>1
<1>4. \A p \in Requests : Thread(p, request[p])
  BY ThreadsAre
<1>5. \A p \in Requests : Thread(p, request'[p])
  BY <1>2, <1>3, <1>4 DEF Thread
<1>6. \A p \in Requests : KindFollows(p)'
  BY <1>5 DEF Thread, KindFollows, AtStep, Kind
<1> QED
  BY <1>2, <1>3, <1>5, <1>6

(* The types, once the stores have theirs.                                 *)
LEMMA TypesKept ==
  ASSUME signals' \in Seq(Hits), evidence' \in Seq(Evidence), mappings' \in Seq(Mappings),
         requests' \in 0..MaxRequests, cuts' \in 0..MaxCuts,
         \A q \in Requests : Thread(q, request'[q]) /\ InHand(q)'
  PROVE  AcquisitionTypeOK'
<1> SUFFICES ASSUME NEW q \in Requests
    PROVE LET r == request'[q] IN
          /\ r.pc \in Steps
          /\ r.pc # "idle" => r.kind \in Kinds /\ r.entity \in Entities
          /\ r.pc \in Steps \ {"idle", "next"} => r.hit \in Hits
          /\ r.pc = "put_mapping" => r.evidence \in DOMAIN evidence'
          /\ r.left \in 0..MaxHits
          /\ r.seen \in SUBSET Hits
  BY DEF AcquisitionTypeOK
<1>1. Thread(q, request'[q]) /\ request'[q] \in RequestRecords
  BY DEF Thread
<1>2. request'[q].pc = "put_mapping" => request'[q].evidence \in DOMAIN evidence'
  BY DEF InHand, Between, AtStep, Orphans
<1> QED
  BY <1>1, <1>2 DEF Thread, RequestRecords

(* A step that writes nothing.  It may end a request between its writes,   *)
(* which is then owed for, or find that there is no copy.                  *)
LEMMA SilentStep ==
  ASSUME AcquisitionInv, NEW q \in Requests, NEW r, Thread(q, r),
         request' = [request EXCEPT ![q] = r], UNCHANGED stores,
         requests' \in 0..MaxRequests, cuts' \in 0..MaxCuts,
         r.pc # "put_mapping", cuts' = cuts \/ cuts' = cuts + 1,
         q \in Between => cuts' = cuts + 1,
         r.pc \in {"put_signal", "put_evidence"} =>
           Existing(q) = {} /\ r.kind = Kind(q) /\ r.hit = Hit(q)
  PROVE  AcquisitionInv'
<1> USE AcquisitionAssumption
<1>1. /\ request' \in [Requests -> RequestRecords] /\ request'[q] = r
      /\ \A p \in Requests : p # q => request'[p] = request[p]
      /\ \A p \in Requests : Thread(p, request'[p]) /\ KindFollows(p)'
  BY OneMoves
<1>2. signals' = signals /\ evidence' = evidence /\ mappings' = mappings
  BY DEF stores
<1>3. Between' = Between \ {q}
  BY <1>1 DEF Between, AtStep
<1>4. Orphans' = Orphans
  BY <1>2 DEF Orphans
<1>5. \A p \in Requests : InHand(p)'
  <2> SUFFICES ASSUME NEW p \in Requests, p \in Between' PROVE InHand(p)'
    BY DEF InHand
  <2>1. p # q /\ p \in Between /\ InHand(p) /\ request'[p] = request[p]
    BY <1>1, <1>3 DEF AcquisitionInv
  <2> QED
    BY <2>1, <1>2, <1>4 DEF InHand, Hit
<1>6. InHandOnce'
  <2>1. \A p \in Between' : p \in Between /\ request'[p] = request[p]
    BY <1>1, <1>3 DEF Between
  <2> QED
    BY <2>1 DEF AcquisitionInv, InHandOnce
<1>7. OrphansOwed'
  <2>1. IsFiniteSet(Between) /\ Cardinality(Between) \in Nat
    BY FS_Subset, FS_CardinalityType DEF Between
  <2>2. Cardinality(Between') = Cardinality(Between) - (IF q \in Between THEN 1 ELSE 0)
    <3>1. CASE q \in Between
      BY <1>3, <2>1, <3>1, FS_RemoveElement
    <3>2. CASE q \notin Between
      <4>1. Between' = Between
        BY <1>3, <3>2
      <4> QED
        BY <2>1, <3>2, <4>1
    <3> QED
      BY <3>1, <3>2
  <2>3. IsFiniteSet(Orphans) /\ Cardinality(Orphans) \in Nat
        /\ Cardinality(Orphans) <= cuts + Cardinality(Between)
    BY FS_CardinalityType DEF AcquisitionInv, OrphansOwed
  <2>4. cuts \in Nat
    BY DEF AcquisitionInv, AcquisitionTypeOK
  <2>5. Cardinality(Orphans) <= cuts' + Cardinality(Between')
    BY <2>1, <2>2, <2>3, <2>4
  <2> QED
    BY <1>4, <2>3, <2>5 DEF OrphansOwed
<1>8. MappingsRestOnEvidence'
  BY <1>2 DEF AcquisitionInv, MappingsRestOnEvidence
<1>9. AcquisitionTypeOK'
  BY <1>1, <1>2, <1>5, TypesKept DEF AcquisitionInv, AcquisitionTypeOK
<1>10. ASSUME NEW hit \in Hits PROVE CopiesHaveRoom(hit)'
  <2>1. /\ SameSignal(hit)' = SameSignal(hit) /\ SameMapping(hit)' = SameMapping(hit)
        /\ SameAcquired(hit)' = SameAcquired(hit)
    BY <1>2 DEF SameSignal, SameMapping, SameAcquired
  <2>2. CopiesHaveRoom(hit)
    BY DEF AcquisitionInv
  <2>3. /\ SignalWriters(hit) \in SUBSET Requests /\ SignalWriters(hit)' \in SUBSET Requests
        /\ MappingWriters(hit) \in SUBSET Requests /\ MappingWriters(hit)' \in SUBSET Requests
        /\ AcquiredWriters(hit) \in SUBSET Requests /\ AcquiredWriters(hit)' \in SUBSET Requests
    BY DEF SignalWriters, MappingWriters, AcquiredWriters
  <2>4. SignalWriters(hit)' \subseteq SignalWriters(hit) \/ SameSignal(hit) = {}
    <3>1. CASE r.pc = "put_signal" /\ r.hit = hit
      <4>1. Existing(q) = FindByDedupKey(hit)
        BY <3>1 DEF Existing, Thread
      <4> QED
        BY <3>1, <4>1 DEF FindByDedupKey, SameSignal
    <3>2. CASE ~(r.pc = "put_signal" /\ r.hit = hit)
      BY <1>1, <3>2 DEF SignalWriters, AtStep, Hit
    <3> QED
      BY <3>1, <3>2
  <2>5. MappingWriters(hit)' \subseteq MappingWriters(hit) \/ SameMapping(hit) = {}
    <3>1. CASE r.pc = "put_evidence" /\ r.kind = "identify" /\ r.hit.locator = hit.locator
      <4>1. Existing(q) = FindByExternalSubjectRef(r.hit)
        BY <3>1 DEF Existing
      <4> QED
        BY <3>1, <4>1 DEF FindByExternalSubjectRef, SameMapping
    <3>2. CASE ~(r.pc = "put_evidence" /\ r.kind = "identify" /\ r.hit.locator = hit.locator)
      BY <1>1, <3>2 DEF MappingWriters, Kind, Hit
    <3> QED
      BY <3>1, <3>2
  <2>6. AcquiredWriters(hit)' \subseteq AcquiredWriters(hit) \/ SameAcquired(hit) = {}
    <3>1. CASE r.pc = "put_evidence" /\ r.kind = "acquire" /\ r.hit.excerpt = hit.excerpt
      <4>1. Existing(q) = FindByHash(r.hit)
        BY <3>1 DEF Existing
      <4> QED
        BY <3>1, <4>1 DEF FindByHash, SameAcquired
    <3>2. CASE ~(r.pc = "put_evidence" /\ r.kind = "acquire" /\ r.hit.excerpt = hit.excerpt)
      BY <1>1, <3>2 DEF AcquiredWriters, AtStep, Kind, Hit
    <3> QED
      BY <3>1, <3>2
  <2>7. Room(SameSignal(hit), SignalWriters(hit)')
    BY <2>2, <2>3, <2>4, RoomFor DEF CopiesHaveRoom
  <2>8. Room(SameMapping(hit), MappingWriters(hit)')
    BY <2>2, <2>3, <2>5, RoomFor DEF CopiesHaveRoom
  <2>9. Room(SameAcquired(hit), AcquiredWriters(hit)')
    BY <2>2, <2>3, <2>6, RoomFor DEF CopiesHaveRoom
  <2> QED
    BY <2>1, <2>7, <2>8, <2>9 DEF CopiesHaveRoom, Room
<1> QED
  BY <1>1, <1>5, <1>6, <1>7, <1>8, <1>9, <1>10 DEF AcquisitionInv

LEMMA AppendIs ==
  ASSUME NEW S, NEW seq \in Seq(S), NEW e \in S, NEW new, new = Append(seq, e)
  PROVE  \E n \in Nat : /\ n = Len(seq) + 1 /\ new \in Seq(S)
                         /\ DOMAIN new = DOMAIN seq \cup {n} /\ n \notin DOMAIN seq
                         /\ new[n] = e /\ \A i \in DOMAIN seq : new[i] = seq[i]
<1> DEFINE n == Len(seq) + 1
<1>1. n \in Nat /\ Len(new) = n /\ DOMAIN seq = 1..Len(seq) /\ DOMAIN new = 1..n
  OBVIOUS
<1>2. DOMAIN new = DOMAIN seq \cup {n} /\ n \notin DOMAIN seq
  BY <1>1
<1>3. new \in Seq(S) /\ new[n] = e /\ \A i \in DOMAIN seq : new[i] = seq[i]
  OBVIOUS
<1> HIDE DEF n
<1> QED
  BY <1>1, <1>2, <1>3 DEF n

(* A write takes one of the places its request held.                       *)
LEMMA AcquisitionSteps == AcquisitionInv /\ [AcquisitionNext]_acquisitionVars => AcquisitionInv'
<1> SUFFICES ASSUME AcquisitionInv, [AcquisitionNext]_acquisitionVars PROVE AcquisitionInv'
  OBVIOUS
<1> USE AcquisitionAssumption
<1>t. /\ request \in [Requests -> RequestRecords]
      /\ signals \in Seq(Hits) /\ evidence \in Seq(Evidence) /\ mappings \in Seq(Mappings)
      /\ requests \in 0..MaxRequests /\ cuts \in 0..MaxCuts
  BY DEF AcquisitionInv, AcquisitionTypeOK
<1>h. \A q \in Requests : Thread(q, request[q])
  BY ThreadsAre
<1>i. \A q \in Requests : InHand(q)
  BY DEF AcquisitionInv
<1>e. MappingsRestOnEvidence /\ InHandOnce /\ OrphansOwed /\ \A hit \in Hits : CopiesHaveRoom(hit)
  BY DEF AcquisitionInv
<1>w. \A hit : /\ SignalWriters(hit) \in SUBSET Requests /\ SignalWriters(hit)' \in SUBSET Requests
               /\ MappingWriters(hit) \in SUBSET Requests /\ MappingWriters(hit)' \in SUBSET Requests
               /\ AcquiredWriters(hit) \in SUBSET Requests /\ AcquiredWriters(hit)' \in SUBSET Requests
  BY DEF SignalWriters, MappingWriters, AcquiredWriters
<1>d. Idle \in RequestRecords /\ Idle.pc = "idle"
  <2>1. 0 \in 0..MaxHits
    OBVIOUS
  <2> QED
    BY <2>1 DEF Idle, RequestRecords, Steps
<1>1. ASSUME NEW q \in Requests, NEW kind \in Kinds, NEW entity \in Entities, Begin(q, kind, entity)
      PROVE  AcquisitionInv'
  <2>1. PICK r \in RequestRecords :
          /\ request' = [request EXCEPT ![q] = r]
          /\ r.pc = "next" /\ r.kind = kind /\ r.entity = entity
    <3> DEFINE r == [Idle EXCEPT !.pc = "next", !.kind = kind, !.entity = entity, !.left = MaxHits]
    <3>1. request' = [request EXCEPT ![q] = r]
      BY <1>1 DEF Begin
    <3>2. MaxHits \in 0..MaxHits /\ kind \in {"discover", "acquire", "identify"}
      OBVIOUS
    <3>3. r \in RequestRecords /\ r.pc = "next" /\ r.kind = kind /\ r.entity = entity
      BY <1>d, <3>2 DEF RequestRecords, Steps
    <3> HIDE DEF r
    <3> QED
      BY <3>1, <3>3
  <2>2. Thread(q, r)
    BY <2>1 DEF Thread
  <2>3. UNCHANGED stores /\ cuts' = cuts /\ requests' = requests + 1 /\ requests < MaxRequests
        /\ q \notin Between
    BY <1>1 DEF Begin, Between, AtStep
  <2>4. requests' \in 0..MaxRequests /\ cuts' \in 0..MaxCuts
    BY <1>t, <2>3
  <2> QED
    BY <2>1, <2>2, <2>3, <2>4, SilentStep
<1>2. ASSUME NEW q \in Requests, NEW hit \in Hits, NextCandidate(q, hit) PROVE AcquisitionInv'
  <2>1. AtStep(q, "next") /\ UNCHANGED <<stores, requests, cuts>> /\ q \notin Between
    BY <1>2 DEF NextCandidate, Between, AtStep
  <2>2. PICK left \in Nat : left = request[q].left /\ left > 0 /\ left <= MaxHits
    BY <1>2, <1>t DEF NextCandidate, RequestRecords
  <2>3. left - 1 \in 0..MaxHits
    BY <2>2
  <2> DEFINE seen == IF Kind(q) = "discover" THEN request[q].seen \cup {hit} ELSE request[q].seen
             pc == IF hit \in request[q].seen THEN "next" ELSE "find"
             r == [request[q] EXCEPT !.left = left - 1, !.hit = hit, !.seen = seen, !.pc = pc]
  <2>4. request' = [request EXCEPT ![q] = r]
    BY <1>2, <2>2 DEF NextCandidate
  <2>5. request[q] \in RequestRecords /\ seen \in SUBSET Hits /\ pc \in {"next", "find"}
    BY <1>t DEF RequestRecords
  <2> HIDE DEF seen, pc
  <2>6. r \in RequestRecords /\ r.pc \in {"next", "find"} /\ r.hit = hit /\ r.kind = Kind(q)
        /\ r.entity = request[q].entity
    BY <2>3, <2>5 DEF RequestRecords, Steps, Kind
  <2> HIDE DEF r
  <2>7. Thread(q, r)
    BY <1>h, <2>1, <2>6 DEF Thread, AtStep, Kind
  <2> QED
    BY <1>t, <2>1, <2>4, <2>6, <2>7, SilentStep
<1>3. ASSUME NEW q \in Requests, Return(q) \/ Interrupted(q) PROVE AcquisitionInv'
  <2>1. PICK r \in RequestRecords : r.pc = "idle" /\ request' = [request EXCEPT ![q] = r]
    BY <1>3, <1>d DEF Return, Interrupted
  <2>2. Thread(q, r)
    BY <2>1 DEF Thread
  <2>3. /\ UNCHANGED <<stores, requests>> /\ cuts' \in 0..MaxCuts
        /\ cuts' = cuts \/ cuts' = cuts + 1
        /\ q \in Between => cuts' = cuts + 1
    BY <1>3, <1>t DEF Return, Interrupted, Between, AtStep
  <2> QED
    BY <1>t, <2>1, <2>2, <2>3, SilentStep
<1>4. ASSUME NEW q \in Requests, Found(q) PROVE AcquisitionInv'
  <2>1. AtStep(q, "find") /\ GoOn(q, "next") /\ UNCHANGED <<stores, requests, cuts>> /\ q \notin Between
    BY <1>4 DEF Found, Between, AtStep
  <2>2. PICK r \in RequestRecords :
          request' = [request EXCEPT ![q] = r] /\ Thread(q, r) /\ r.pc = "next"
    BY <2>1, ThreadMoved DEF AtStep, Steps
  <2> QED
    BY <1>t, <2>1, <2>2, SilentStep
<1>5. ASSUME NEW q \in Requests, NotFound(q) PROVE AcquisitionInv'
  <2>1. /\ AtStep(q, "find") /\ GoOn(q, FirstWrite(q)) /\ Existing(q) = {}
        /\ UNCHANGED <<stores, requests, cuts>> /\ q \notin Between
    BY <1>5 DEF NotFound, Between, AtStep
  <2>2. /\ Kind(q) \in {"discover", "acquire", "identify"} /\ FirstWrite(q) \in {"put_signal", "put_evidence"}
        /\ FirstWrite(q) = "put_signal" => Kind(q) = "discover"
        /\ FirstWrite(q) = "put_evidence" => Kind(q) \in {"acquire", "identify"}
    BY <1>t DEF FirstWrite, Kind, RequestRecords
  <2>3. PICK r \in RequestRecords :
          /\ request' = [request EXCEPT ![q] = r] /\ Thread(q, r) /\ r.pc = FirstWrite(q)
          /\ r.kind = Kind(q) /\ r.hit = Hit(q)
    BY <2>1, <2>2, ThreadMoved DEF AtStep, Steps
  <2> QED
    BY <1>t, <2>1, <2>2, <2>3, SilentStep
<1>6. ASSUME NEW q \in Requests, PutSignal(q) PROVE AcquisitionInv'
  <2>1. /\ AtStep(q, "put_signal") /\ signals' = Append(signals, Hit(q)) /\ GoOn(q, "next")
        /\ UNCHANGED <<evidence, mappings, requests, cuts>>
    BY <1>6 DEF PutSignal
  <2>2. PICK r \in RequestRecords :
          request' = [request EXCEPT ![q] = r] /\ Thread(q, r) /\ r.pc = "next"
    BY <2>1, ThreadMoved DEF AtStep, Steps
  <2>3. /\ request' \in [Requests -> RequestRecords] /\ request'[q] = r
        /\ \A p \in Requests : p # q => request'[p] = request[p]
        /\ \A p \in Requests : Thread(p, request'[p]) /\ KindFollows(p)'
    BY <2>2, OneMoves
  <2>4. Kind(q) = "discover" /\ Hit(q) \in Hits
    BY <1>h, <2>1 DEF Thread, AtStep, Kind, Hit, Steps
  <2>5. PICK n \in Nat : /\ signals' \in Seq(Hits) /\ DOMAIN signals' = DOMAIN signals \cup {n}
                         /\ n \notin DOMAIN signals /\ signals'[n] = Hit(q)
                         /\ \A i \in DOMAIN signals : signals'[i] = signals[i]
    BY <1>t, <2>1, <2>4, AppendIs
  <2>6. Between' = Between /\ Orphans' = Orphans
    BY <2>1, <2>2, <2>3 DEF Between, Orphans, AtStep
  <2>7. \A p \in Between : request'[p] = request[p]
    BY <2>1, <2>3 DEF Between, AtStep
  <2>8. \A p \in Requests : InHand(p)'
    BY <1>i, <2>1, <2>6, <2>7 DEF InHand, Hit
  <2>9. InHandOnce' /\ OrphansOwed' /\ MappingsRestOnEvidence'
    BY <1>e, <2>1, <2>6, <2>7 DEF InHandOnce, OrphansOwed, MappingsRestOnEvidence
  <2>10. AcquisitionTypeOK'
    BY <1>t, <2>1, <2>3, <2>5, <2>8, TypesKept
  <2>11. ASSUME NEW hit \in Hits PROVE CopiesHaveRoom(hit)'
    <3>1. CopiesHaveRoom(hit)
      BY <1>e
    <3>2. SameMapping(hit)' = SameMapping(hit) /\ SameAcquired(hit)' = SameAcquired(hit)
      BY <2>1 DEF SameMapping, SameAcquired
    <3>3. MappingWriters(hit)' \subseteq MappingWriters(hit) /\ AcquiredWriters(hit)' \subseteq AcquiredWriters(hit)
      BY <2>2, <2>3 DEF MappingWriters, AcquiredWriters, AtStep, Kind, Hit
    <3>4. Room(SameMapping(hit), MappingWriters(hit)') /\ Room(SameAcquired(hit), AcquiredWriters(hit)')
      BY <1>w, <3>1, <3>3, RoomFor DEF CopiesHaveRoom
    <3>5. SignalWriters(hit)' = SignalWriters(hit) \ {q}
      BY <2>2, <2>3 DEF SignalWriters, AtStep, Hit
    <3>6. Room(SameSignal(hit)', SignalWriters(hit)')
      <4>1. CASE Hit(q) = hit
        <5>1. q \in SignalWriters(hit)
          BY <2>1, <4>1 DEF SignalWriters
        <5>2. SameSignal(hit)' = SameSignal(hit) \cup {n}
          BY <2>5, <4>1 DEF SameSignal
        <5>3. Room(SameSignal(hit) \cup {n}, SignalWriters(hit) \ {q})
          BY <1>w, <3>1, <5>1, RoomTaken DEF CopiesHaveRoom
        <5> QED
          BY <3>5, <5>2, <5>3
      <4>2. CASE Hit(q) # hit
        <5>1. SameSignal(hit)' = SameSignal(hit)
          BY <2>5, <4>2 DEF SameSignal
        <5> QED
          BY <1>w, <3>1, <3>5, <5>1, RoomFor DEF CopiesHaveRoom
      <4> QED
        BY <4>1, <4>2
    <3> QED
      BY <3>2, <3>4, <3>6 DEF CopiesHaveRoom, Room
  <2> QED
    BY <2>3, <2>8, <2>9, <2>10, <2>11 DEF AcquisitionInv
<1>7. ASSUME NEW q \in Requests, PutEvidence(q) PROVE AcquisitionInv'
  <2> DEFINE e == [hit |-> Hit(q), entity |-> request[q].entity, origin |-> Kind(q)]
  <2>1. /\ AtStep(q, "put_evidence") /\ evidence' = Append(evidence, e)
        /\ UNCHANGED <<signals, mappings, requests, cuts>> /\ q \notin Between
    BY <1>7 DEF PutEvidence, Between, AtStep
  <2>2. Kind(q) \in {"acquire", "identify"} /\ Hit(q) \in Hits /\ request[q].entity \in Entities
    BY <1>h, <2>1 DEF Thread, AtStep, Kind, Hit, Steps
  <2>3. e \in Evidence /\ e.hit = Hit(q) /\ e.entity = request[q].entity /\ e.origin = Kind(q)
    BY <2>2 DEF Evidence
  <2> HIDE DEF e
  <2>4. PICK n \in Nat : /\ n = Len(evidence) + 1
                         /\ evidence' \in Seq(Evidence) /\ DOMAIN evidence' = DOMAIN evidence \cup {n}
                         /\ n \notin DOMAIN evidence /\ evidence'[n] = e
                         /\ \A i \in DOMAIN evidence : evidence'[i] = evidence[i]
    BY <1>t, <2>1, <2>3, AppendIs
  <2>5. MappingsRestOnEvidence'
    BY <1>e, <2>1, <2>4 DEF MappingsRestOnEvidence
  <2>6. \A j \in DOMAIN mappings : mappings[j].evidence # n
    BY <1>e, <2>4 DEF MappingsRestOnEvidence
  <2>7. PICK r \in RequestRecords :
          /\ request' = [request EXCEPT ![q] = r] /\ Thread(q, r)
          /\ r.hit = Hit(q) /\ r.entity = request[q].entity /\ r.kind = Kind(q)
          /\ r.pc = IF Kind(q) = "acquire" THEN "next" ELSE "put_mapping"
          /\ Kind(q) = "identify" => r.evidence = n
    <3>1. CASE Kind(q) = "acquire"
      <4>1. GoOn(q, "next")
        BY <1>7, <3>1 DEF PutEvidence
      <4> QED
        BY <2>1, <3>1, <4>1, ThreadMoved DEF AtStep, Steps
    <3>2. CASE Kind(q) = "identify"
      <4> DEFINE r == [request[q] EXCEPT !.pc = "put_mapping", !.evidence = n]
      <4>1. request' = [request EXCEPT ![q] = r]
        BY <1>7, <2>4, <3>2 DEF PutEvidence
      <4>2. /\ r \in RequestRecords /\ r.pc = "put_mapping" /\ r.evidence = n
            /\ r.kind = Kind(q) /\ r.hit = Hit(q) /\ r.entity = request[q].entity
        <5>1. request[q] \in RequestRecords
          BY <1>t
        <5> QED
          BY <5>1 DEF RequestRecords, Steps, Kind, Hit
      <4> HIDE DEF r
      <4>3. Kind(q) \in Kinds
        BY <1>h, <2>1 DEF Thread, AtStep, Kind
      <4>4. Thread(q, r)
        BY <2>2, <3>2, <4>2, <4>3 DEF Thread
      <4> QED
        BY <3>2, <4>1, <4>2, <4>4
    <3> QED
      BY <2>2, <3>1, <3>2
  <2>8. /\ request' \in [Requests -> RequestRecords] /\ request'[q] = r
        /\ \A p \in Requests : p # q => request'[p] = request[p]
        /\ \A p \in Requests : Thread(p, request'[p]) /\ KindFollows(p)'
    BY <2>7, OneMoves
  <2>9. \A p \in Between : request'[p] = request[p] /\ p \in Requests
    BY <2>1, <2>8 DEF Between
  <2>10. /\ Kind(q) = "acquire" => Between' = Between /\ Orphans' = Orphans
         /\ Kind(q) = "identify" => Between' = Between \cup {q} /\ Orphans' = Orphans \cup {n}
    <3>1. /\ Kind(q) = "acquire" => Between' = Between
          /\ Kind(q) = "identify" => Between' = Between \cup {q}
      BY <2>1, <2>7, <2>8 DEF Between, AtStep
    <3>2. /\ Kind(q) = "acquire" => Orphans' = Orphans
          /\ Kind(q) = "identify" => Orphans' = Orphans \cup {n}
      BY <2>1, <2>3, <2>4, <2>6 DEF Orphans
    <3> QED
      BY <3>1, <3>2
  <2>11. \A p \in Requests : InHand(p)'
    <3> SUFFICES ASSUME NEW p \in Between'
        PROVE  LET i == request'[p].evidence IN
               i \in Orphans' /\ evidence'[i].hit = request'[p].hit /\ evidence'[i].entity = request'[p].entity
      BY DEF InHand, Hit
    <3>1. CASE p \in Between
      <4>1. InHand(p) /\ request'[p] = request[p]
        BY <1>i, <2>9, <3>1
      <4> QED
        BY <2>2, <2>4, <2>10, <3>1, <4>1 DEF InHand, Hit, Orphans
    <3>2. CASE p \notin Between
      <4>1. p = q /\ Kind(q) = "identify"
        BY <2>2, <2>10, <3>2
      <4> QED
        BY <2>3, <2>4, <2>7, <2>8, <2>10, <4>1
    <3> QED
      BY <3>1, <3>2
  <2>12. InHandOnce'
    <3>1. \A p \in Between : request'[p].evidence # n
      BY <1>i, <2>4, <2>9 DEF InHand, Orphans
    <3>2. \A p, s \in Between : p # s => request'[p].evidence # request'[s].evidence
      BY <1>e, <2>9 DEF InHandOnce
    <3> QED
      BY <2>2, <2>7, <2>8, <2>10, <3>1, <3>2 DEF InHandOnce
  <2>13. OrphansOwed'
    <3>1. IsFiniteSet(Between) /\ Cardinality(Between) \in Nat
      BY FS_Subset, FS_CardinalityType DEF Between
    <3>2. /\ IsFiniteSet(Orphans) /\ Cardinality(Orphans) \in Nat
          /\ Cardinality(Orphans) <= cuts + Cardinality(Between)
      BY <1>e, FS_CardinalityType DEF OrphansOwed
    <3>3. n \notin Orphans
      BY <2>4 DEF Orphans
    <3>4. /\ IsFiniteSet(Orphans \cup {n}) /\ Cardinality(Orphans \cup {n}) = Cardinality(Orphans) + 1
          /\ Cardinality(Between \cup {q}) = Cardinality(Between) + 1
      BY <2>1, <3>1, <3>2, <3>3, FS_AddElement
    <3>5. cuts \in Nat
      BY <1>t
    <3>6. Cardinality(Orphans \cup {n}) <= cuts + Cardinality(Between \cup {q})
      BY <3>1, <3>2, <3>4, <3>5
    <3> QED
      BY <2>1, <2>2, <2>10, <3>2, <3>4, <3>6 DEF OrphansOwed
  <2>14. AcquisitionTypeOK'
    BY <1>t, <2>1, <2>4, <2>8, <2>11, TypesKept
  <2>15. ASSUME NEW hit \in Hits PROVE CopiesHaveRoom(hit)'
    <3>1. CopiesHaveRoom(hit)
      BY <1>e
    <3>2. SameMapping(hit)' = SameMapping(hit) /\ SameSignal(hit)' = SameSignal(hit)
      BY <2>1 DEF SameMapping, SameSignal
    <3>3. MappingWriters(hit)' \subseteq MappingWriters(hit) /\ SignalWriters(hit)' \subseteq SignalWriters(hit)
      BY <2>1, <2>7, <2>8 DEF MappingWriters, SignalWriters, AtStep, Kind, Hit
    <3>4. Room(SameMapping(hit), MappingWriters(hit)') /\ Room(SameSignal(hit), SignalWriters(hit)')
      BY <1>w, <3>1, <3>3, RoomFor DEF CopiesHaveRoom
    <3>5. AcquiredWriters(hit)' = AcquiredWriters(hit) \ {q}
      BY <2>1, <2>7, <2>8 DEF AcquiredWriters, AtStep, Kind, Hit
    <3>6. Room(SameAcquired(hit)', AcquiredWriters(hit)')
      <4>1. CASE Kind(q) = "acquire" /\ Hit(q).excerpt = hit.excerpt
        <5>1. q \in AcquiredWriters(hit)
          BY <2>1, <4>1 DEF AcquiredWriters
        <5>2. SameAcquired(hit)' = SameAcquired(hit) \cup {n}
          BY <2>3, <2>4, <4>1 DEF SameAcquired
        <5>3. AcquiredWriters(hit) \in SUBSET Requests /\ Room(SameAcquired(hit), AcquiredWriters(hit))
          BY <1>w, <3>1 DEF CopiesHaveRoom
        <5>4. Room(SameAcquired(hit) \cup {n}, AcquiredWriters(hit) \ {q})
          BY <5>1, <5>3, RoomTaken
        <5> QED
          BY <3>5, <5>2, <5>4
      <4>2. CASE ~(Kind(q) = "acquire" /\ Hit(q).excerpt = hit.excerpt)
        <5>1. SameAcquired(hit)' = SameAcquired(hit)
          BY <2>3, <2>4, <4>2 DEF SameAcquired
        <5> QED
          BY <1>w, <3>1, <3>5, <5>1, RoomFor DEF CopiesHaveRoom
      <4> QED
        BY <4>1, <4>2
    <3> QED
      BY <3>2, <3>4, <3>6 DEF CopiesHaveRoom, Room
  <2> QED
    BY <2>5, <2>8, <2>11, <2>12, <2>13, <2>14, <2>15 DEF AcquisitionInv
<1>8. ASSUME NEW q \in Requests, PutMapping(q) PROVE AcquisitionInv'
  <2> DEFINE m == [ref |-> Hit(q).locator, entity |-> request[q].entity, evidence |-> request[q].evidence]
  <2>1. /\ AtStep(q, "put_mapping") /\ mappings' = Append(mappings, m) /\ GoOn(q, "next")
        /\ UNCHANGED <<signals, evidence, requests, cuts>> /\ q \in Between
    BY <1>8 DEF PutMapping, Between
  <2>2. PICK r \in RequestRecords :
          request' = [request EXCEPT ![q] = r] /\ Thread(q, r) /\ r.pc = "next"
    BY <2>1, ThreadMoved DEF AtStep, Steps
  <2>3. /\ request' \in [Requests -> RequestRecords] /\ request'[q] = r
        /\ \A p \in Requests : p # q => request'[p] = request[p]
        /\ \A p \in Requests : Thread(p, request'[p]) /\ KindFollows(p)'
    BY <2>2, OneMoves
  <2>4. PICK i \in Nat \ {0} : /\ i = request[q].evidence /\ i \in Orphans /\ i \in DOMAIN evidence
                               /\ evidence[i].hit = Hit(q) /\ evidence[i].entity = request[q].entity
    <3>1. request[q].evidence \in Orphans /\ DOMAIN evidence = 1..Len(evidence)
      BY <1>i, <1>t, <2>1 DEF InHand
    <3>2. \A i \in Orphans : i \in DOMAIN evidence
      BY DEF Orphans
    <3> QED
      BY <1>i, <2>1, <3>1, <3>2 DEF InHand
  <2>5. Kind(q) = "identify" /\ Hit(q) \in Hits /\ request[q].entity \in Entities
    BY <1>h, <2>1 DEF Thread, AtStep, Kind, Hit, Steps
  <2>6. m \in Mappings /\ m.ref = Hit(q).locator /\ m.entity = request[q].entity /\ m.evidence = i
    BY <2>4, <2>5 DEF Mappings, Hits
  <2> HIDE DEF m
  <2>7. PICK n \in Nat : /\ mappings' \in Seq(Mappings) /\ DOMAIN mappings' = DOMAIN mappings \cup {n}
                         /\ n \notin DOMAIN mappings /\ mappings'[n] = m
                         /\ \A j \in DOMAIN mappings : mappings'[j] = mappings[j]
    <3>1. mappings \in Seq(Mappings) /\ m \in Mappings /\ mappings' = Append(mappings, m)
      BY <1>t, <2>1, <2>6
    <3> QED
      BY <3>1, AppendIs
  <2>8. Between' = Between \ {q}
    BY <2>2, <2>3 DEF Between, AtStep
  <2>9. \A p \in Between' : request'[p] = request[p] /\ p \in Requests /\ p \in Between
    BY <2>3, <2>8 DEF Between
  <2>10. Orphans' = Orphans \ {i}
    BY <2>1, <2>6, <2>7 DEF Orphans
  <2>11. \A p \in Requests : InHand(p)'
    <3> SUFFICES ASSUME NEW p \in Between'
        PROVE  LET k == request'[p].evidence IN
               k \in Orphans' /\ evidence'[k].hit = request'[p].hit /\ evidence'[k].entity = request'[p].entity
      BY DEF InHand, Hit
    <3>1. InHand(p) /\ request'[p] = request[p] /\ p \in Between /\ p # q
      BY <1>i, <2>8, <2>9
    <3>2. request[p].evidence # i
      BY <1>e, <2>1, <2>4, <3>1 DEF InHandOnce
    <3> QED
      BY <2>1, <2>10, <3>1, <3>2 DEF InHand, Hit
  <2>12. InHandOnce'
    BY <1>e, <2>9 DEF InHandOnce
  <2>13. OrphansOwed'
    <3>1. IsFiniteSet(Between) /\ Cardinality(Between) \in Nat
      BY FS_Subset, FS_CardinalityType DEF Between
    <3>2. /\ IsFiniteSet(Orphans) /\ Cardinality(Orphans) \in Nat
          /\ Cardinality(Orphans) <= cuts + Cardinality(Between)
      BY <1>e, FS_CardinalityType DEF OrphansOwed
    <3>3. /\ IsFiniteSet(Orphans \ {i}) /\ Cardinality(Orphans \ {i}) = Cardinality(Orphans) - 1
          /\ Cardinality(Between \ {q}) = Cardinality(Between) - 1
      <4>1. IsFiniteSet(Orphans \ {i}) /\ Cardinality(Orphans \ {i}) = Cardinality(Orphans) - 1
        BY <2>4, <3>2, FS_RemoveElement
      <4>2. Cardinality(Between \ {q}) = Cardinality(Between) - 1
        BY <2>1, <3>1, FS_RemoveElement
      <4> QED
        BY <4>1, <4>2
    <3>4. cuts \in Nat
      BY <1>t
    <3>5. Cardinality(Orphans \ {i}) <= cuts + Cardinality(Between \ {q})
      BY <3>1, <3>2, <3>3, <3>4
    <3> QED
      BY <2>1, <2>8, <2>10, <3>3, <3>5 DEF OrphansOwed
  <2>14. MappingsRestOnEvidence'
    BY <1>e, <2>1, <2>4, <2>6, <2>7 DEF MappingsRestOnEvidence
  <2>15. AcquisitionTypeOK'
    BY <1>t, <2>1, <2>3, <2>7, <2>11, TypesKept
  <2>16. ASSUME NEW hit \in Hits PROVE CopiesHaveRoom(hit)'
    <3>1. CopiesHaveRoom(hit)
      BY <1>e
    <3>2. SameSignal(hit)' = SameSignal(hit) /\ SameAcquired(hit)' = SameAcquired(hit)
      BY <2>1 DEF SameSignal, SameAcquired
    <3>3. SignalWriters(hit)' \subseteq SignalWriters(hit) /\ AcquiredWriters(hit)' \subseteq AcquiredWriters(hit)
      BY <2>2, <2>3 DEF SignalWriters, AcquiredWriters, AtStep, Kind, Hit
    <3>4. Room(SameSignal(hit), SignalWriters(hit)') /\ Room(SameAcquired(hit), AcquiredWriters(hit)')
      BY <1>w, <3>1, <3>3, RoomFor DEF CopiesHaveRoom
    <3>5. MappingWriters(hit)' = MappingWriters(hit) \ {q}
      BY <2>2, <2>3 DEF MappingWriters, Kind, Hit
    <3>6. Room(SameMapping(hit)', MappingWriters(hit)')
      <4>1. CASE Hit(q).locator = hit.locator
        <5>1. q \in MappingWriters(hit)
          BY <2>1, <2>5, <4>1 DEF MappingWriters, AtStep
        <5>2. SameMapping(hit)' = SameMapping(hit) \cup {n}
          BY <2>6, <2>7, <4>1 DEF SameMapping
        <5>3. Room(SameMapping(hit) \cup {n}, MappingWriters(hit) \ {q})
          BY <1>w, <3>1, <5>1, RoomTaken DEF CopiesHaveRoom
        <5> QED
          BY <3>5, <5>2, <5>3
      <4>2. CASE Hit(q).locator # hit.locator
        <5>1. SameMapping(hit)' = SameMapping(hit)
          BY <2>6, <2>7, <4>2 DEF SameMapping
        <5> QED
          BY <1>w, <3>1, <3>5, <5>1, RoomFor DEF CopiesHaveRoom
      <4> QED
        BY <4>1, <4>2
    <3> QED
      BY <3>2, <3>4, <3>6 DEF CopiesHaveRoom, Room
  <2> QED
    BY <2>3, <2>11, <2>12, <2>13, <2>14, <2>15, <2>16 DEF AcquisitionInv
<1>9. CASE UNCHANGED acquisitionVars
  <2>1. UNCHANGED <<stores, request, requests, cuts>>
    BY <1>9 DEF acquisitionVars, stores
  <2>2. \A q \in Requests : KindFollows(q)' /\ InHand(q)'
    BY <2>1 DEF stores, AcquisitionInv, KindFollows, InHand, Between, Orphans, AtStep, Kind, Hit
  <2>3. InHandOnce' /\ MappingsRestOnEvidence' /\ OrphansOwed' /\ AcquisitionTypeOK'
    BY <2>1 DEF stores, AcquisitionInv, InHandOnce, MappingsRestOnEvidence, OrphansOwed, AcquisitionTypeOK,
                Between, Orphans, AtStep
  <2>4. \A hit \in Hits : CopiesHaveRoom(hit)'
    BY <2>1 DEF stores, AcquisitionInv, CopiesHaveRoom, Room, SameSignal, SameMapping, SameAcquired,
                SignalWriters, MappingWriters, AcquiredWriters, AtStep, Kind, Hit
  <2> QED
    BY <1>t, <2>1, <2>2, <2>3, <2>4 DEF AcquisitionInv
<1> QED
  BY <1>1, <1>2, <1>3, <1>4, <1>5, <1>6, <1>7, <1>8, <1>9 DEF AcquisitionNext, AllAnswered

LEMMA AcquisitionInvariance == AcquisitionSpec => []AcquisitionInv
BY AcquisitionStarts, AcquisitionSteps, PTL DEF AcquisitionSpec

(* The three stores and every request in progress are well typed           *)
(* (discover_search_route, acquire_evidence_route, acquire_linkedin_route).*)
THEOREM AcquisitionTypeCorrect == AcquisitionSpec => []AcquisitionTypeOK
<1>1. AcquisitionInv => AcquisitionTypeOK
  BY DEF AcquisitionInv
<1> QED
  BY <1>1, AcquisitionInvariance, PTL

(* However many requests are made, interrupted and made again, a record    *)
(* has no more copies than there are threads: each look-up before a write  *)
(* saw every copy but those of the requests at work with it.               *)
THEOREM CopiesBounded == AcquisitionSpec => []CopiesBoundedByConcurrency
<1>1. AcquisitionInv => CopiesBoundedByConcurrency
  <2> SUFFICES ASSUME AcquisitionInv, NEW hit \in Hits
      PROVE  /\ Cardinality(SameSignal(hit)) <= Cardinality(Requests)
             /\ Cardinality(SameMapping(hit)) <= Cardinality(Requests)
             /\ Cardinality(SameAcquired(hit)) <= Cardinality(Requests)
    BY DEF CopiesBoundedByConcurrency
  <2>1. ASSUME NEW copies, NEW writers \in SUBSET Requests, Room(copies, writers)
        PROVE  Cardinality(copies) <= Cardinality(Requests)
    BY <2>1, AcquisitionAssumption, FS_Subset, FS_CardinalityType DEF Room
  <2>2. /\ SignalWriters(hit) \in SUBSET Requests /\ MappingWriters(hit) \in SUBSET Requests
        /\ AcquiredWriters(hit) \in SUBSET Requests
    BY DEF SignalWriters, MappingWriters, AcquiredWriters
  <2> QED
    BY <2>1, <2>2 DEF AcquisitionInv, CopiesHaveRoom
<1> QED
  BY <1>1, AcquisitionInvariance, PTL

(* A mapping names stored evidence of its own profile and person, and      *)
(* evidence is left without a mapping by nothing but a request cut short   *)
(* between the two writes of acquire_linkedin_route.                       *)
THEOREM MappingsSupported == AcquisitionSpec => []EvidenceAndMappingsAgree
<1>1. AcquisitionInv => EvidenceAndMappingsAgree
  BY DEF AcquisitionInv, EvidenceAndMappingsAgree, OrphansOwed, OnlyFaultsOrphanEvidence, Between
<1> QED
  BY <1>1, AcquisitionInvariance, PTL
=============================================================================
