--------------------------- MODULE RunManagerProofs ---------------------------
(***************************************************************************)
(* RunManager for any number of actors, runs, calls and faults.  What a    *)
(* call carries between its steps is pinned down by CallInv: a call about  *)
(* to write has a document whose status allows its operation.  The version *)
(* check makes that document the stored one at the moment of the write, so *)
(* the move is legal then, whatever happened in between.                   *)
(***************************************************************************)
EXTENDS MCRunManager, FiniteSetTheorems, TLAPS

CallInv ==
  \A a \in Actors :
    /\ call[a].pc \in {"get", "write", "append"} => call[a].op \in Lifecycle!TransitionOps
    /\ call[a].pc \in {"check_resume", "peek"} => call[a].op = "start"
    /\ At(a, "write") => call[a].doc.status \in Lifecycle!Allowed(call[a].op)
    /\ At(a, "append_new") => Exists(call[a].run)
    /\ At(a, "append") => /\ Exists(call[a].run)
                          /\ call[a].doc.status \in Lifecycle!RunStates

IInv == TypeOK /\ CallInv /\ KeyEventUnique /\ JournaledRunExists

(* The table of moves is what the operations' guards and effects make.     *)
LEMMA OpsMakeLegalMoves ==
  ASSUME NEW op \in Lifecycle!TransitionOps, NEW s \in Lifecycle!Allowed(op)
  PROVE  /\ <<s, Lifecycle!StatusAfter(op)>> \in Lifecycle!LegalMoves
         /\ Lifecycle!StatusAfter(op) \in Lifecycle!RunStates
         /\ s \in Lifecycle!RunStates
<1> USE DEF Lifecycle!TransitionOps, Lifecycle!Allowed, Lifecycle!StatusAfter,
        Lifecycle!LegalMoves, Lifecycle!RunStates, Lifecycle!TerminalStates
<1>1. CASE op = "start"
  BY <1>1
<1>2. CASE op = "checkpoint"
  BY <1>2
<1>3. CASE op = "complete"
  BY <1>3
<1>4. CASE op = "block"
  BY <1>4
<1>5. CASE op \in {"fail_retryable", "fail_fatal"}
  BY <1>5
<1>6. CASE op = "cancel"
  BY <1>6
<1> QED
  BY <1>1, <1>2, <1>3, <1>4, <1>5, <1>6

LEMMA ChangedDocument ==
  ASSUME NEW c \in Calls, c.op \in Lifecycle!TransitionOps,
         c.doc.status \in Lifecycle!Allowed(c.op)
  PROVE  /\ Changed(c) \in Documents
         /\ Changed(c).status = Lifecycle!StatusAfter(c.op)
         /\ Changed(c).status \in Lifecycle!RunStates
<1>1. Lifecycle!StatusAfter(c.op) \in Lifecycle!RunStates
  BY OpsMakeLegalMoves
<1> DEFINE err == CASE c.op = "start" -> "none"
                    [] c.op \in {"block", "cancel"} -> "reason"
                    [] c.op = "fail_retryable" -> "retryable"
                    [] c.op = "fail_fatal" -> "fatal"
                    [] OTHER -> c.doc.error
           att == IF c.op = "start" THEN c.attempt + 1 ELSE c.doc.attempt
<1>2. err \in Errors
  BY DEF Calls, Documents, Errors, Lifecycle!TransitionOps
<1>3. att \in Nat /\ c.doc.rev + 1 \in Nat
  BY DEF Calls, Documents
<1> QED
  BY <1>1, <1>2, <1>3 DEF Changed, NextAttempt, Calls, Documents, Statuses

LEMMA IdleIsCall == Idle \in Calls /\ Absent \in Documents
  BY ConstantsAssumption
     DEF Idle, Calls, Absent, Documents, Statuses, Errors, PCs, Ops

(* The part of TypeOK about calls, for a step that replaces one.           *)
CallsTyped ==
  /\ call \in [Actors -> Calls]
  /\ \A a \in Actors : call[a].pc \notin {"idle", "write_new"} => call[a].run \in Runs

LEMMA CallTyping ==
  ASSUME CallsTyped, NEW a \in Actors, NEW c \in Calls,
         c.pc \notin {"idle", "write_new"} => c.run \in Runs,
         call' = [call EXCEPT ![a] = c]
  PROVE  CallsTyped'
  BY DEF CallsTyped

LEMMA LeaveTyping ==
  ASSUME CallsTyped, NEW a \in Actors, Leave(a)
  PROVE  CallsTyped'
  BY IdleIsCall, CallTyping DEF Leave, Idle

LEMMA TwoFields ==
  ASSUME NEW f \in [Actors -> Calls], NEW a \in Actors, NEW pc, NEW r
  PROVE  [f EXCEPT ![a].pc = pc, ![a].run = r] =
           [f EXCEPT ![a] = [f[a] EXCEPT !.pc = pc, !.run = r]]
  BY DEF Calls

LEMMA RunAssigned ==
  ASSUME NEW c \in Calls, NEW pc \in PCs, NEW r \in Runs
  PROVE  [c EXCEPT !.pc = pc, !.run = r] \in Calls
  BY DEF Calls

LEMMA WriteNewCall ==
  ASSUME call \in [Actors -> Calls], NEW a \in Actors, NEW r \in Runs, WriteNew(a, r)
  PROVE  call' = [call EXCEPT ![a] = [call[a] EXCEPT !.pc = "append_new", !.run = r]]
  BY TwoFields DEF WriteNew

LEMMA TypeStep ==
  ASSUME TypeOK, CallInv, [Next]_vars
  PROVE  TypeOK'
<1> USE ConstantsAssumption DEF TypeOK, At, Goto, CountCall, counters, PCs, Ops
<1>0. Idle \in Calls /\ Absent \in Documents
  BY IdleIsCall
<1>1. ASSUME NEW a \in Actors, NEW key \in Keys \cup {NoKey}, PrepareFound(a, key)
      PROVE TypeOK'
  <2>1. key \in Keys /\ FindByKey(key).run \in Runs
    <3>1. PICK i \in DOMAIN journal : journal[i].key = key
      BY <1>1 DEF PrepareFound, Journaled
    <3>2. FindByKey(key) \in Events
      BY <3>1 DEF FindByKey
    <3> QED
      BY <1>1, <3>2 DEF PrepareFound, Journaled, Events
  <2> QED
    BY <1>1, <2>1 DEF PrepareFound
<1>2. ASSUME NEW a \in Actors, NEW key \in Keys \cup {NoKey}, Prepare(a, key)
      PROVE TypeOK'
  <2>1. [Idle EXCEPT !.pc = "write_new", !.key = key] \in Calls
    BY <1>0 DEF Calls
  <2>2. [Idle EXCEPT !.pc = "write_new", !.key = key].pc = "write_new"
    BY DEF Idle
  <2> QED
    BY <1>2, <2>1, <2>2 DEF Prepare
<1>3. ASSUME NEW a \in Actors, NEW r \in Runs, WriteNew(a, r)
      PROVE TypeOK'
  <2>1. [Absent EXCEPT !.status = "prepared"] \in Documents
    BY DEF Absent, Documents, Statuses, Errors, Lifecycle!RunStates
  <2>2. [call[a] EXCEPT !.pc = "append_new", !.run = r] \in Calls
    <3>1. call[a] \in Calls /\ "append_new" \in PCs
      OBVIOUS
    <3> QED
      BY <3>1, RunAssigned
  <2>3. call' = [call EXCEPT ![a] = [call[a] EXCEPT !.pc = "append_new", !.run = r]]
    BY <1>3, WriteNewCall
  <2> QED
    BY <1>3, <2>1, <2>2, <2>3 DEF WriteNew, Calls
<1>4. ASSUME NEW a \in Actors, AppendNew(a) PROVE TypeOK'
  <2>1. call[a].run \in Runs /\ call[a].key \in Keys \cup {NoKey}
    BY <1>4 DEF AppendNew, Calls
  <2> DEFINE ev == [type |-> "prepared", run |-> call[a].run, key |-> call[a].key,
                    attempt |-> 0]
  <2>2. ev \in Events
    BY <2>1 DEF Events, Lifecycle!RunStates
  <2>3. journal' \in Seq(Events)
    BY <1>4, <2>2 DEF AppendNew, AppendEvent
  <2>4. answers' \in SUBSET (Keys \X Runs)
    BY <1>4, <2>1 DEF AppendNew
  <2> QED
    BY <1>0, <1>4, <2>1, <2>3, <2>4 DEF AppendNew, Idle, Leave
<1>5. ASSUME NEW a \in Actors, NEW r \in Runs, NEW op \in Ops \ {"prepare"},
             Call(a, op, r)
      PROVE TypeOK'
  <2>1. [Idle EXCEPT !.pc = FirstStep(op), !.via = op, !.run = r,
                     !.op = IF op = "resume" THEN "start" ELSE op] \in Calls
    BY <1>0 DEF FirstStep, Calls, Lifecycle!TransitionOps
  <2>2. [Idle EXCEPT !.pc = FirstStep(op), !.via = op, !.run = r,
                     !.op = IF op = "resume" THEN "start" ELSE op].run = r
    BY DEF Idle
  <2> QED
    BY <1>5, <2>1, <2>2 DEF Call
<1>6. ASSUME NEW a \in Actors, CheckResume(a) PROVE TypeOK'
  <2>1. [call[a] EXCEPT !.pc = "peek"] \in Calls
    BY DEF Calls
  <2>2. [call[a] EXCEPT !.pc = "peek"].run \in Runs
    BY <1>6 DEF CheckResume, Calls
  <2>3. CASE call' = [call EXCEPT ![a].pc = "peek"]
    <3>1. call' = [call EXCEPT ![a] = [call[a] EXCEPT !.pc = "peek"]]
      BY <2>3 DEF Calls
    <3> QED
      BY <1>6, <2>1, <2>2, <3>1, CallTyping DEF CheckResume, CallsTyped
  <2>4. CASE Leave(a)
    BY <1>6, <2>4, LeaveTyping DEF CheckResume, CallsTyped
  <2> QED
    BY <1>6, <2>3, <2>4 DEF CheckResume
<1>7. ASSUME NEW a \in Actors, Peek(a) PROVE TypeOK'
  <2> DEFINE c == [call[a] EXCEPT !.pc = "get", !.attempt = run[call[a].run].attempt]
  <2>1. call[a].run \in Runs
    BY <1>7 DEF Peek
  <2>2. run[call[a].run].attempt \in Nat
    BY <2>1 DEF Documents
  <2>3. c \in Calls /\ c.run \in Runs
    BY ZenonT(60), <2>1, <2>2 DEF Calls
  <2>4. call' = [call EXCEPT ![a] = c]
    BY <1>7 DEF Peek, Calls
  <2> QED
    BY <1>7, <2>3, <2>4 DEF Peek
<1>8. ASSUME NEW a \in Actors, Get(a) PROVE TypeOK'
  <2> DEFINE c == [call[a] EXCEPT !.pc = "write", !.doc = run[call[a].run]]
  <2>1. call[a].run \in Runs
    BY <1>8 DEF Get
  <2>2. c \in Calls /\ c.run \in Runs
    BY ZenonT(60), <2>1 DEF Calls
  <2>3. call' = [call EXCEPT ![a] = c] \/ Leave(a)
    BY <1>8 DEF Get, Calls
  <2>4. CallsTyped'
    BY <2>2, <2>3, CallTyping, LeaveTyping DEF CallsTyped
  <2> QED
    BY <1>8, <2>4 DEF Get, CallsTyped
<1>9. ASSUME NEW a \in Actors, Write(a) PROVE TypeOK'
  <2> DEFINE c == [call[a] EXCEPT !.pc = "append", !.doc = Changed(call[a])]
  <2>1. call[a].run \in Runs
    BY <1>9 DEF Write, ExpectedVersion
  <2>2. Changed(call[a]) \in Documents
    BY <1>9, ChangedDocument DEF Write, ExpectedVersion, CallInv
  <2>3. c \in Calls /\ c.run \in Runs
    BY ZenonT(60), <2>1, <2>2 DEF Calls
  <2>4. call' = [call EXCEPT ![a] = c] \/ Leave(a)
    BY <1>9 DEF Write, ExpectedVersion, Calls
  <2>5. run' \in [Runs -> Documents]
    BY <1>9, <2>1, <2>2 DEF Write, ExpectedVersion
  <2>6. CallsTyped'
    BY <2>3, <2>4, CallTyping, LeaveTyping DEF CallsTyped
  <2> QED
    BY <1>9, <2>5, <2>6 DEF Write, ExpectedVersion, CallsTyped
<1>10. ASSUME NEW a \in Actors, AppendTransition(a) PROVE TypeOK'
  <2> DEFINE ev == [type |-> call[a].doc.status, run |-> call[a].run, key |-> NoKey,
                    attempt |-> call[a].doc.attempt]
  <2>1. call[a].doc \in Documents /\ call[a].doc.status \in Lifecycle!RunStates
        /\ call[a].run \in Runs
    BY <1>10 DEF AppendTransition, CallInv, Calls
  <2>2. ev \in Events
    BY <2>1 DEF Events, Documents
  <2>3. journal' \in Seq(Events)
    BY <1>10, <2>2 DEF AppendTransition, AppendEvent
  <2> QED
    BY <1>0, <1>10, <2>3 DEF AppendTransition, Idle, Leave
<1>11. ASSUME NEW a \in Actors, CutShort(a) PROVE TypeOK'
  <2>1. faults' \in 0..MaxFaults
    BY <1>11 DEF CutShort
  <2> QED
    BY <1>0, <1>11, <2>1 DEF CutShort, Idle, Leave
<1>12. CASE UNCHANGED vars
  BY <1>12 DEF vars
<1> QED
  BY <1>1, <1>2, <1>3, <1>4, <1>5, <1>6, <1>7, <1>8, <1>9, <1>10, <1>11, <1>12
     DEF Next, Done

(* The two steps that store a run, and what they do to its status.         *)
LEMMA StoredStatus ==
  ASSUME TypeOK, CallInv, [Next]_vars
  PROVE  \/ run' = run
         \/ \E r \in Runs, d \in Documents :
              /\ run' = [run EXCEPT ![r] = d]
              /\ d.status \in Lifecycle!RunStates
              /\ <<run[r].status, d.status>> \in Lifecycle!LegalMoves
<1>1. ASSUME NEW a \in Actors, NEW r \in Runs, WriteNew(a, r)
      PROVE \E d \in Documents :
              /\ run' = [run EXCEPT ![r] = d]
              /\ d.status \in Lifecycle!RunStates
              /\ <<run[r].status, d.status>> \in Lifecycle!LegalMoves
  <2> DEFINE d == [Absent EXCEPT !.status = "prepared"]
  <2>1. d \in Documents /\ d.status = "prepared"
    BY DEF Absent, Documents, Statuses, Errors, Lifecycle!RunStates
  <2>2. run[r].status = "absent" /\ run' = [run EXCEPT ![r] = d]
    BY <1>1 DEF WriteNew, Exists
  <2>3. "prepared" \in Lifecycle!RunStates
    BY DEF Lifecycle!RunStates
  <2>4. <<"absent", "prepared">> \in Lifecycle!LegalMoves
    BY DEF Lifecycle!LegalMoves
  <2> HIDE DEF d
  <2> QED
    BY <2>1, <2>2, <2>3, <2>4
<1>2. ASSUME NEW a \in Actors, Write(a), run' # run
      PROVE \E r \in Runs, d \in Documents :
              /\ run' = [run EXCEPT ![r] = d]
              /\ d.status \in Lifecycle!RunStates
              /\ <<run[r].status, d.status>> \in Lifecycle!LegalMoves
  <2> DEFINE c == call[a]
             d == Changed(c)
  <2>1. /\ run[c.run] = c.doc
        /\ run' = [run EXCEPT ![c.run] = d]
    BY <1>2 DEF Write, ExpectedVersion
  <2>2. c \in Calls /\ c.run \in Runs /\ c.op \in Lifecycle!TransitionOps
        /\ c.doc.status \in Lifecycle!Allowed(c.op)
    BY <1>2 DEF Write, ExpectedVersion, TypeOK, CallInv, At
  <2>3. d \in Documents /\ d.status = Lifecycle!StatusAfter(c.op)
    BY <2>2, ChangedDocument
  <2>4. /\ <<c.doc.status, Lifecycle!StatusAfter(c.op)>> \in Lifecycle!LegalMoves
        /\ Lifecycle!StatusAfter(c.op) \in Lifecycle!RunStates
    BY <2>2, OpsMakeLegalMoves
  <2> HIDE DEF c, d
  <2> QED
    BY <2>1, <2>2, <2>3, <2>4
<1>3. ASSUME ~ \E a \in Actors : Write(a) \/ \E r \in Runs : WriteNew(a, r)
      PROVE run' = run
  BY <1>3 DEF Next, Done, vars, PrepareFound, Prepare, AppendNew, Call, CheckResume,
              Peek, Get, AppendTransition, CutShort
<1> QED
  BY <1>1, <1>2, <1>3

LEMMA ExistsPersists ==
  ASSUME TypeOK, CallInv, [Next]_vars, NEW r \in Runs, Exists(r)
  PROVE  Exists(r)'
<1>1. "absent" \notin Lifecycle!RunStates
  BY DEF Lifecycle!RunStates
<1> QED
  BY <1>1, StoredStatus DEF Exists, TypeOK

LEMMA CallInvStep ==
  ASSUME TypeOK, CallInv, [Next]_vars
  PROVE  CallInv'
<1> SUFFICES ASSUME NEW b \in Actors
             PROVE  /\ call'[b].pc \in {"get", "write", "append"}
                          => call'[b].op \in Lifecycle!TransitionOps
                    /\ call'[b].pc \in {"check_resume", "peek"} => call'[b].op = "start"
                    /\ call'[b].pc = "write"
                          => call'[b].doc.status \in Lifecycle!Allowed(call'[b].op)
                    /\ call'[b].pc = "append_new" => run'[call'[b].run].status # "absent"
                    /\ call'[b].pc = "append"
                          => /\ run'[call'[b].run].status # "absent"
                             /\ call'[b].doc.status \in Lifecycle!RunStates
  BY DEF CallInv, At, Exists
<1>1. CASE call'[b] = call[b]
  <2>1. call[b].pc \in {"append_new", "append"} => run'[call[b].run].status # "absent"
    BY ExistsPersists DEF CallInv, At, TypeOK, Exists
  <2> QED
    BY <1>1, <2>1 DEF CallInv, At, Exists
<1>2. CASE call'[b] = Idle
  BY <1>2 DEF Idle
<1> DEFINE Goal ==  /\ call'[b].pc \in {"get", "write", "append"}
                          => call'[b].op \in Lifecycle!TransitionOps
                    /\ call'[b].pc \in {"check_resume", "peek"} => call'[b].op = "start"
                    /\ call'[b].pc = "write"
                          => call'[b].doc.status \in Lifecycle!Allowed(call'[b].op)
                    /\ call'[b].pc = "append_new" => run'[call'[b].run].status # "absent"
                    /\ call'[b].pc = "append"
                          => /\ run'[call'[b].run].status # "absent"
                             /\ call'[b].doc.status \in Lifecycle!RunStates
<1>3. ASSUME NEW key \in Keys \cup {NoKey}, Prepare(b, key) PROVE Goal
  <2>1. call'[b].pc = "write_new"
    BY <1>3 DEF Prepare, Idle, TypeOK
  <2> QED
    BY <2>1
<1>4. ASSUME NEW r \in Runs, WriteNew(b, r) PROVE Goal
  <2>1. call'[b].pc = "append_new" /\ call'[b].run = r
    BY <1>4 DEF WriteNew, TypeOK, Calls
  <2>2. run'[r].status = "prepared"
    BY <1>4 DEF WriteNew, TypeOK, Absent
  <2> QED
    BY <2>1, <2>2
<1>5. ASSUME NEW r \in Runs, NEW op \in Ops \ {"prepare"}, Call(b, op, r) PROVE Goal
  <2>1. call'[b].pc = FirstStep(op)
        /\ call'[b].op = IF op = "resume" THEN "start" ELSE op
    BY <1>5 DEF Call, TypeOK, Idle
  <2>2. FirstStep(op) \in {"check_resume", "peek", "get"}
        /\ (FirstStep(op) \in {"check_resume", "peek"} => op \in {"resume", "start"})
        /\ (FirstStep(op) = "get" => op \in Lifecycle!TransitionOps)
    BY DEF FirstStep, Ops
  <2> QED
    BY <2>1, <2>2 DEF Lifecycle!TransitionOps
<1>6. ASSUME CheckResume(b), call'[b] # Idle PROVE Goal
  <2>1. call'[b].pc = "peek" /\ call'[b].op = call[b].op
    BY <1>6 DEF CheckResume, Goto, Leave, TypeOK, Calls
  <2> QED
    BY <1>6, <2>1 DEF CheckResume, CallInv, At
<1>7. ASSUME Peek(b) PROVE Goal
  <2>1. call'[b].pc = "get" /\ call'[b].op = call[b].op
    BY <1>7 DEF Peek, TypeOK, Calls
  <2>2. call[b].op = "start"
    BY <1>7 DEF Peek, CallInv, At
  <2> QED
    BY <2>1, <2>2 DEF Lifecycle!TransitionOps
<1>8. ASSUME Get(b), call'[b] # Idle PROVE Goal
  <2>1. /\ call'[b].pc = "write" /\ call'[b].op = call[b].op
        /\ call'[b].doc = run[call[b].run]
        /\ run[call[b].run].status \in Lifecycle!Allowed(call[b].op)
    BY <1>8 DEF Get, Leave, TypeOK, Calls
  <2> QED
    BY <1>8, <2>1 DEF Get, CallInv, At
<1>9. ASSUME Write(b), call'[b] # Idle PROVE Goal
  <2>1. /\ call'[b].pc = "append" /\ call'[b].op = call[b].op
        /\ call'[b].run = call[b].run /\ call'[b].doc = Changed(call[b])
        /\ run' = [run EXCEPT ![call[b].run] = Changed(call[b])]
    BY <1>9 DEF Write, ExpectedVersion, Leave, TypeOK, Calls
  <2>2. call[b].op \in Lifecycle!TransitionOps /\ call[b].run \in Runs
    BY <1>9 DEF Write, ExpectedVersion, CallInv, At, TypeOK
  <2>3. Changed(call[b]).status \in Lifecycle!RunStates
    BY <1>9, ChangedDocument DEF Write, ExpectedVersion, CallInv, At, TypeOK
  <2>4. "absent" \notin Lifecycle!RunStates
    BY DEF Lifecycle!RunStates
  <2> QED
    BY <2>1, <2>2, <2>3, <2>4 DEF Exists, TypeOK
<1> QED
  <2>1. CASE UNCHANGED vars
    BY <1>1, <2>1 DEF vars
  <2>3. ASSUME NEW a \in Actors,
               \/ \E key \in Keys \cup {NoKey} : PrepareFound(a, key) \/ Prepare(a, key)
               \/ \E r \in Runs : WriteNew(a, r)
               \/ \E r \in Runs, op \in Ops \ {"prepare"} : Call(a, op, r)
               \/ AppendNew(a) \/ CheckResume(a) \/ Peek(a) \/ Get(a) \/ Write(a)
               \/ AppendTransition(a) \/ CutShort(a)
        PROVE Goal
    <3>1. CASE a # b
      <4>1. call'[b] = call[b]
        BY <2>3, <3>1 DEF PrepareFound, Prepare, WriteNew, Call, AppendNew, CheckResume,
             Peek, Get, Write, AppendTransition, CutShort, Goto, Leave, TypeOK
      <4> QED
        BY <1>1, <4>1
    <3>2. CASE a = b
      <4>1. \/ call'[b] = call[b] \/ call'[b] = Idle
            \/ \E key \in Keys \cup {NoKey} : Prepare(b, key)
            \/ \E r \in Runs : WriteNew(b, r)
            \/ \E r \in Runs, op \in Ops \ {"prepare"} : Call(b, op, r)
            \/ CheckResume(b) \/ Peek(b) \/ Get(b) \/ Write(b)
        BY <2>3, <3>2 DEF PrepareFound, AppendNew, AppendTransition, CutShort, Leave,
             TypeOK
      <4> QED
        BY <4>1, <1>1, <1>2, <1>3, <1>4, <1>5, <1>6, <1>7, <1>8, <1>9
    <3> QED
      BY <3>1, <3>2
  <2> QED
    BY <2>1, <2>3 DEF Next, Done

(* The journal only grows at its end, by an event of an existing run whose *)
(* key was not there.                                                      *)
LEMMA JournalStep ==
  ASSUME TypeOK, CallInv, [Next]_vars
  PROVE  \/ journal' = journal
         \/ \E ev \in Events : /\ journal' = Append(journal, ev)
                               /\ ~Journaled(ev.key)
                               /\ Exists(ev.run)
<1>1. ASSUME NEW a \in Actors, AppendNew(a), journal' # journal
      PROVE \E ev \in Events : /\ journal' = Append(journal, ev)
                               /\ ~Journaled(ev.key)
                               /\ Exists(ev.run)
  <2> DEFINE ev == [type |-> "prepared", run |-> call[a].run, key |-> call[a].key,
                    attempt |-> 0]
  <2>1. ev \in Events
    BY <1>1 DEF AppendNew, TypeOK, At, Calls, Events, Lifecycle!RunStates
  <2>2. journal' = Append(journal, ev) /\ ~Journaled(ev.key)
    BY <1>1 DEF AppendNew, AppendEvent
  <2>3. Exists(ev.run)
    BY <1>1 DEF AppendNew, CallInv
  <2> QED
    BY <2>1, <2>2, <2>3
<1>2. ASSUME NEW a \in Actors, AppendTransition(a), journal' # journal
      PROVE \E ev \in Events : /\ journal' = Append(journal, ev)
                               /\ ~Journaled(ev.key)
                               /\ Exists(ev.run)
  <2> DEFINE ev == [type |-> call[a].doc.status, run |-> call[a].run, key |-> NoKey,
                    attempt |-> call[a].doc.attempt]
  <2>1. ev \in Events
    BY <1>2 DEF AppendTransition, CallInv, TypeOK, At, Calls, Documents, Events
  <2>2. journal' = Append(journal, ev) /\ ~Journaled(ev.key)
    BY <1>2 DEF AppendTransition, AppendEvent
  <2>3. Exists(ev.run)
    BY <1>2 DEF AppendTransition, CallInv
  <2> QED
    BY <2>1, <2>2, <2>3
<1>3. ASSUME ~ \E a \in Actors : AppendNew(a) \/ AppendTransition(a)
      PROVE journal' = journal
  BY <1>3 DEF Next, Done, vars, PrepareFound, Prepare, WriteNew, Call, CheckResume,
              Peek, Get, Write, CutShort
<1> QED
  BY <1>1, <1>2, <1>3

LEMMA JournalInvStep ==
  ASSUME IInv, [Next]_vars
  PROVE  KeyEventUnique' /\ JournaledRunExists'
<1> USE DEF IInv
<1>1. CASE journal' = journal
  <2>1. \A i \in DOMAIN journal : journal[i].run \in Runs
    <3>1. \A i \in DOMAIN journal : journal[i] \in Events
      BY DEF TypeOK
    <3> QED
      BY <3>1 DEF Events
  <2>2. JournaledRunExists'
    BY <1>1, <2>1, ExistsPersists DEF JournaledRunExists
  <2> QED
    BY <1>1, <2>2 DEF KeyEventUnique
<1>2. ASSUME NEW ev \in Events, journal' = Append(journal, ev), ~Journaled(ev.key),
             Exists(ev.run)
      PROVE KeyEventUnique' /\ JournaledRunExists'
  <2>1. /\ DOMAIN journal' = 1..(Len(journal) + 1)
        /\ DOMAIN journal = 1..Len(journal) /\ Len(journal) \in Nat
        /\ \A i \in DOMAIN journal : journal'[i] = journal[i] /\ journal[i] \in Events
        /\ journal'[Len(journal) + 1] = ev
    BY <1>2 DEF TypeOK
  <2>2. KeyEventUnique'
    <3> SUFFICES ASSUME NEW i \in DOMAIN journal', NEW j \in DOMAIN journal',
                        journal'[i].key # NoKey, journal'[i].key = journal'[j].key
                 PROVE  i = j
      BY DEF KeyEventUnique
    <3>1. CASE i \in DOMAIN journal /\ j \in DOMAIN journal
      BY <2>1, <3>1 DEF KeyEventUnique
    <3>2. CASE i = Len(journal) + 1 /\ j = Len(journal) + 1
      BY <3>2
    <3>3. CASE i \in DOMAIN journal /\ j = Len(journal) + 1
      BY <1>2, <2>1, <3>3 DEF Journaled
    <3>4. CASE i = Len(journal) + 1 /\ j \in DOMAIN journal
      BY <1>2, <2>1, <3>4 DEF Journaled
    <3> QED
      BY <2>1, <3>1, <3>2, <3>3, <3>4
  <2>3. JournaledRunExists'
    <3> SUFFICES ASSUME NEW i \in DOMAIN journal' PROVE run'[journal'[i].run].status # "absent"
      BY DEF JournaledRunExists, Exists
    <3>1. journal'[i] \in Events /\ Exists(journal'[i].run)
      BY <1>2, <2>1 DEF JournaledRunExists
    <3> QED
      <4>1. PICK r \in Runs : r = journal'[i].run
        BY <3>1 DEF Events
      <4>2. Exists(r)
        BY <3>1, <4>1
      <4> QED
        BY <4>1, <4>2, ExistsPersists DEF Exists
  <2> QED
    BY <2>2, <2>3
<1> QED
  BY <1>1, <1>2, JournalStep

LEMMA InitIInv == ASSUME Init PROVE IInv
<1>1. TypeOK
  BY ConstantsAssumption, IdleIsCall DEF Init, TypeOK, Idle
<1> QED
  BY <1>1 DEF Init, IInv, CallInv, At, Idle, KeyEventUnique, JournaledRunExists

LEMMA IInvariant == Spec => []IInv
<1>1. Init => IInv
  BY InitIInv
<1>2. IInv /\ [Next]_vars => IInv'
  BY TypeStep, CallInvStep, JournalInvStep DEF IInv
<1> QED
  BY <1>1, <1>2, PTL DEF Spec

(* The variables always have their types: what a call read and carries is  *)
(* a run document, and every event is about a run (run_manager.py).        *)
THEOREM TypeCorrect == Spec => []TypeOK
<1>1. IInv => TypeOK
  BY DEF IInv
<1> QED
  BY <1>1, IInvariant, PTL

(* The idempotency look-up inside append keeps keyed events unique under   *)
(* any interleaving of prepares (EventJournal.append).                     *)
THEOREM KeysUnique == Spec => []KeyEventUnique
<1>1. IInv => KeyEventUnique
  BY DEF IInv
<1> QED
  BY <1>1, IInvariant, PTL

(* An event names a run whose document is stored, across crashes: prepare  *)
(* writes the document first, and no operation removes one.                *)
THEOREM EventsNameRuns == Spec => []JournaledRunExists
<1>1. IInv => JournaledRunExists
  BY DEF IInv
<1> QED
  BY <1>1, IInvariant, PTL

(* RunManager implements RunLifecycle: whatever calls interleave, crash or *)
(* lose the race for a version, each stored status follows the previous    *)
(* one by a legal move, so completed and cancelled runs never move again   *)
(* (_transition).                                                          *)
THEOREM Refinement == Spec => ImplementsLifecycle
<1>1. Init => Lifecycle!Init
  BY DEF Init, Absent, Lifecycle!Init
<1>2. IInv /\ [Next]_vars => [Lifecycle!Next]_([r \in Runs |-> run[r].status])
  <2> SUFFICES ASSUME IInv, [Next]_vars, run' # run
               PROVE  Lifecycle!Next
    OBVIOUS
  <2>1. PICK r \in Runs, d \in Documents :
              /\ run' = [run EXCEPT ![r] = d]
              /\ d.status \in Lifecycle!RunStates
              /\ <<run[r].status, d.status>> \in Lifecycle!LegalMoves
    BY StoredStatus DEF IInv
  <2>2. [x \in Runs |-> run'[x].status]
          = [[x \in Runs |-> run[x].status] EXCEPT ![r] = d.status]
    BY <2>1 DEF IInv, TypeOK
  <2> QED
    BY <2>1, <2>2 DEF Lifecycle!Next, Lifecycle!Move
<1> QED
  BY <1>1, <1>2, IInvariant, PTL DEF Spec, ImplementsLifecycle, Lifecycle!Spec

(***************************************************************************)
(* The journal against the documents                                       *)
(***************************************************************************)
(* Every write of a run but its first is a transition, owed an event.      *)
LossInv ==
  /\ \A r \in Runs : ~Exists(r) => run[r].rev = 0
  /\ \A a \in Actors : At(a, "append") => call[a].doc.status # "prepared"
  /\ IsFiniteSet(LostEvents)
  /\ OnlyFaultsLoseEvents

LEMMA CountsTyped ==
  ASSUME TypeOK, NEW r \in Runs
  PROVE  /\ IsFiniteSet(TransitionEvents(r)) /\ IsFiniteSet(Unfinished(r))
         /\ Cardinality(TransitionEvents(r)) \in Nat /\ Cardinality(Unfinished(r)) \in Nat
         /\ AccountedFor(r) \in Nat /\ run[r].rev \in Nat
<1>1. IsFiniteSet(DOMAIN journal)
  <2>1. DOMAIN journal = 1..Len(journal) /\ Len(journal) \in Nat
    BY DEF TypeOK
  <2> QED
    BY <2>1, FS_Interval
<1>2. IsFiniteSet(TransitionEvents(r)) /\ IsFiniteSet(Unfinished(r))
  BY <1>1, ConstantsAssumption, FS_Subset DEF TransitionEvents, Unfinished
<1>3. Cardinality(TransitionEvents(r)) \in Nat /\ Cardinality(Unfinished(r)) \in Nat
  BY <1>2, FS_CardinalityType
<1>4. AccountedFor(r) \in Nat
  BY <1>3 DEF AccountedFor
<1>5. run[r].rev \in Nat
  BY DEF TypeOK, Documents
<1> QED
  BY <1>2, <1>3, <1>4, <1>5

(* A run whose writes and events both count one more has lost no more.     *)
LEMMA LossesSame ==
  ASSUME TypeOK, LossInv, faults' \in Nat, faults <= faults',
         \A r \in Runs : \E d \in {0, 1} : /\ run'[r].rev = run[r].rev + d
                                         /\ AccountedFor(r)' = AccountedFor(r) + d
  PROVE  OnlyFaultsLoseEvents' /\ IsFiniteSet(LostEvents')
<1>1. ASSUME NEW r \in Runs
      PROVE  /\ run'[r].rev - AccountedFor(r)' = run[r].rev - AccountedFor(r)
             /\ AccountedFor(r)' <= run'[r].rev
  <2>1. PICK d \in {0, 1} : run'[r].rev = run[r].rev + d /\ AccountedFor(r)' = AccountedFor(r) + d
    OBVIOUS
  <2>2. PICK n \in Nat, k \in Nat : n = run[r].rev /\ k = AccountedFor(r)
    BY CountsTyped
  <2>3. k <= n
    BY <2>2 DEF LossInv, OnlyFaultsLoseEvents
  <2> QED
    BY <2>1, <2>2, <2>3
<1>2. LostEvents' = LostEvents
  BY <1>1 DEF LostEvents
<1>3. Cardinality(LostEvents) \in Nat /\ faults \in Nat
  BY FS_CardinalityType DEF LossInv, TypeOK
<1> QED
  BY <1>1, <1>2, <1>3 DEF LossInv, OnlyFaultsLoseEvents

LEMMA UnfinishedMoves ==
  ASSUME TypeOK, NEW a \in Actors, NEW c, call' = [call EXCEPT ![a] = c], NEW r \in Runs
  PROVE  /\ c.pc = "append" /\ c.run = r => Unfinished(r)' = Unfinished(r) \cup {a}
         /\ ~(c.pc = "append" /\ c.run = r) => Unfinished(r)' = Unfinished(r) \ {a}
<1>1. call'[a] = c /\ \A b \in Actors : b # a => call'[b] = call[b]
  BY DEF TypeOK
<1> QED
  BY <1>1 DEF Unfinished, At

(* Steps that neither store nor journal a transition.                      *)
LEMMA QuietLosses ==
  ASSUME TypeOK, LossInv,
         \A b \in Actors : call'[b] = call[b] \/ (~At(b, "append") /\ call'[b].pc # "append"),
         \A r \in Runs : run'[r].rev = run[r].rev /\ (~Exists(r)' => ~Exists(r)),
         \A r \in Runs : TransitionEvents(r)' = TransitionEvents(r),
         faults' \in Nat, faults <= faults'
  PROVE  LossInv'
<1>1. ASSUME NEW r \in Runs
      PROVE run'[r].rev = run[r].rev + 0 /\ AccountedFor(r)' = AccountedFor(r) + 0
  <2>1. Unfinished(r)' = Unfinished(r)
    BY DEF Unfinished, At
  <2>2. AccountedFor(r)' = AccountedFor(r)
    BY <2>1 DEF AccountedFor
  <2> QED
    BY <2>2, CountsTyped
<1>2. OnlyFaultsLoseEvents' /\ IsFiniteSet(LostEvents')
  BY <1>1, LossesSame
<1>3. \A r \in Runs : ~Exists(r)' => run'[r].rev = 0
  BY DEF LossInv
<1>4. \A b \in Actors : At(b, "append")' => call'[b].doc.status # "prepared"
  BY DEF LossInv, At
<1> QED
  BY <1>2, <1>3, <1>4 DEF LossInv

LEMMA LossStep ==
  ASSUME IInv, LossInv, [Next]_vars
  PROVE  LossInv'
<1>t. /\ TypeOK /\ CallInv /\ call \in [Actors -> Calls] /\ run \in [Runs -> Documents]
      /\ journal \in Seq(Events) /\ faults \in Nat /\ (faults' = faults => faults' \in Nat /\ faults <= faults')
  BY DEF IInv, TypeOK
<1>s. /\ run' = run => \A r \in Runs : run'[r].rev = run[r].rev /\ (~Exists(r)' => ~Exists(r))
      /\ journal' = journal => \A r \in Runs : TransitionEvents(r)' = TransitionEvents(r)
  BY DEF Exists, TransitionEvents
<1>c. \A a \in Actors : Leave(a) /\ ~At(a, "append") =>
        \A b \in Actors : call'[b] = call[b] \/ (~At(b, "append") /\ call'[b].pc # "append")
  BY <1>t DEF Leave, Idle
<1>1. ASSUME NEW a \in Actors, NEW key \in Keys \cup {NoKey}, PrepareFound(a, key)
      PROVE  LossInv'
  BY <1>1, <1>t, <1>s, QuietLosses DEF PrepareFound, CountCall
<1>2. ASSUME NEW a \in Actors, NEW key \in Keys \cup {NoKey}, Prepare(a, key)
      PROVE  LossInv'
  <2>1. \A b \in Actors : call'[b] = call[b] \/ (~At(b, "append") /\ call'[b].pc # "append")
    BY <1>2, <1>t DEF Prepare, At, Idle
  <2> QED
    BY <1>2, <2>1, <1>t, <1>s, QuietLosses DEF Prepare, CountCall
<1>3. ASSUME NEW a \in Actors, NEW r \in Runs, WriteNew(a, r) PROVE LossInv'
  <2>1. \A b \in Actors : call'[b] = call[b] \/ (~At(b, "append") /\ call'[b].pc # "append")
    BY <1>3, <1>t DEF WriteNew, At, Calls
  <2>2. run' = [run EXCEPT ![r] = [Absent EXCEPT !.status = "prepared"]] /\ ~Exists(r)
        /\ journal' = journal /\ faults' = faults
    BY <1>3 DEF WriteNew, counters
  <2>3. run'[r].rev = 0 /\ run'[r].status = "prepared" /\ run[r].rev = 0
    BY <2>2, <1>t DEF Absent, LossInv
  <2>4. \A s \in Runs : run'[s].rev = run[s].rev /\ (~Exists(s)' => ~Exists(s))
    BY <2>2, <2>3, <1>t DEF Exists
  <2> QED
    BY <2>1, <2>2, <2>4, <1>t, <1>s, QuietLosses
<1>4. ASSUME NEW a \in Actors, NEW r \in Runs, NEW op \in Ops \ {"prepare"}, Call(a, op, r)
      PROVE  LossInv'
  <2>1. FirstStep(op) # "append"
    BY DEF FirstStep
  <2>2. \A b \in Actors : call'[b] = call[b] \/ (~At(b, "append") /\ call'[b].pc # "append")
    BY <1>4, <1>t, <2>1 DEF Call, At, Idle
  <2> QED
    BY <1>4, <2>2, <1>t, <1>s, QuietLosses DEF Call, CountCall
<1>5. ASSUME NEW a \in Actors, AppendNew(a) PROVE LossInv'
  <2> DEFINE ev == [type |-> "prepared", run |-> call[a].run, key |-> call[a].key, attempt |-> 0]
  <2>1. At(a, "append_new") /\ AppendEvent(ev) /\ Leave(a) /\ run' = run /\ faults' = faults
    BY <1>5 DEF AppendNew, counters
  <2>2. \A r \in Runs : TransitionEvents(r)' = TransitionEvents(r)
    <3>1. CASE journal' = journal
      BY <3>1, <1>s
    <3>2. CASE journal' = Append(journal, ev)
      <4>1. ev.type = "prepared"
        OBVIOUS
      <4> HIDE DEF ev
      <4>2. /\ DOMAIN journal = 1..Len(journal) /\ Len(journal) \in Nat
            /\ DOMAIN journal' = 1..(Len(journal) + 1)
            /\ journal'[Len(journal) + 1] = ev /\ \A i \in DOMAIN journal : journal'[i] = journal[i]
        BY <1>t, <3>2
      <4>3. DOMAIN journal' = DOMAIN journal \cup {Len(journal) + 1}
        BY <4>2
      <4> QED
        BY <4>1, <4>2, <4>3 DEF TransitionEvents
    <3> QED
      BY <2>1, <3>1, <3>2 DEF AppendEvent
  <2>3. \A b \in Actors : call'[b] = call[b] \/ (~At(b, "append") /\ call'[b].pc # "append")
    BY <2>1, <1>c DEF At
  <2> QED
    BY <2>1, <2>2, <2>3, <1>t, <1>s, QuietLosses
<1>6. ASSUME NEW a \in Actors, CheckResume(a) \/ Peek(a) \/ Get(a) PROVE LossInv'
  <2>1. \A b \in Actors : call'[b] = call[b] \/ (~At(b, "append") /\ call'[b].pc # "append")
    <3>1. ASSUME CheckResume(a) PROVE ~At(a, "append") /\ (Goto(a, "peek") \/ Leave(a))
      BY <3>1 DEF CheckResume, At
    <3>2. Goto(a, "peek") => call' = [call EXCEPT ![a] = call'[a]] /\ call'[a].pc = "peek"
      BY <1>t DEF Goto, Calls
    <3>3. ASSUME Peek(a) PROVE ~At(a, "append") /\ call' = [call EXCEPT ![a] = call'[a]] /\ call'[a].pc = "get"
      BY <3>3, <1>t DEF Peek, At, Calls
    <3>4. ASSUME Get(a), ~Leave(a)
          PROVE ~At(a, "append") /\ call' = [call EXCEPT ![a] = call'[a]] /\ call'[a].pc = "write"
      BY <3>4, <1>t DEF Get, At, Calls
    <3>5. Get(a) => ~At(a, "append")
      BY DEF Get, At
    <3>6. CASE Leave(a)
      BY <1>6, <1>c, <3>1, <3>3, <3>5, <3>6
    <3>7. CASE ~Leave(a)
      <4>1. ~At(a, "append") /\ call' = [call EXCEPT ![a] = call'[a]] /\ call'[a].pc # "append"
        BY <1>6, <3>1, <3>2, <3>3, <3>4, <3>7
      <4> QED
        BY <4>1, <1>t
    <3> QED
      BY <3>6, <3>7
  <2>2. run' = run /\ journal' = journal /\ faults' = faults
    BY <1>6 DEF CheckResume, Peek, Get, counters
  <2> QED
    BY <2>1, <2>2, <1>t, <1>s, QuietLosses
<1>7. ASSUME NEW a \in Actors, Write(a), ~Leave(a) PROVE LossInv'
  <2> DEFINE c == call[a]
  <2>1. /\ At(a, "write") /\ run[c.run] = c.doc /\ run' = [run EXCEPT ![c.run] = Changed(c)]
        /\ call' = [call EXCEPT ![a].pc = "append", ![a].doc = Changed(c)]
        /\ journal' = journal /\ faults' = faults
    BY <1>7 DEF Write, ExpectedVersion, counters
  <2>2. c \in Calls /\ c.run \in Runs /\ c.op \in Lifecycle!TransitionOps
        /\ c.doc.status \in Lifecycle!Allowed(c.op)
    BY <1>t, <2>1 DEF TypeOK, CallInv, At
  <2>3. Changed(c) \in Documents /\ Changed(c).status = Lifecycle!StatusAfter(c.op)
        /\ Changed(c).status \in Lifecycle!RunStates
    BY <2>2, ChangedDocument
  <2>4. Changed(c).rev = c.doc.rev + 1
    BY <2>2 DEF Changed, Calls, Documents
  <2>5. Changed(c).status \notin {"prepared", "absent"}
    BY <2>3 DEF Lifecycle!StatusAfter
  <2> DEFINE n == [c EXCEPT !.pc = "append", !.doc = Changed(c)]
  <2>6. call' = [call EXCEPT ![a] = n]
    BY <2>1
  <2>7. n.pc = "append" /\ n.run = c.run /\ n.doc = Changed(c)
    BY <2>2 DEF Calls
  <2> HIDE DEF n, c
  <2>8. call'[a] = n /\ \A b \in Actors : b # a => call'[b] = call[b]
    BY <1>t, <2>6
  <2>9. ASSUME NEW r \in Runs
        PROVE \E d \in {0, 1} : run'[r].rev = run[r].rev + d /\ AccountedFor(r)' = AccountedFor(r) + d
    <3>1. TransitionEvents(r)' = TransitionEvents(r)
      BY <1>s, <2>1
    <3>2. CASE r = c.run
      <4>1. Unfinished(r)' = Unfinished(r) \cup {a} /\ a \notin Unfinished(r)
        <5>1. a \notin Unfinished(r)
          BY <2>1 DEF Unfinished, At
        <5>2. Unfinished(r)' = Unfinished(r) \cup {a}
          BY <2>7, <2>8, <3>2 DEF Unfinished, At
        <5> QED
          BY <5>1, <5>2
      <4>2. Cardinality(Unfinished(r)') = Cardinality(Unfinished(r)) + 1
        BY <1>t, <4>1, CountsTyped, FS_AddElement
      <4>3. AccountedFor(r)' = AccountedFor(r) + 1
        BY <1>t, <3>1, <4>2, CountsTyped DEF AccountedFor
      <4>4. run'[r].rev = run[r].rev + 1
        BY <1>t, <2>1, <2>2, <2>4, <3>2
      <4> QED
        BY <4>3, <4>4
    <3>3. CASE r # c.run
      <4>1. Unfinished(r)' = Unfinished(r)
        BY <2>1, <2>7, <2>8, <3>3 DEF Unfinished, At
      <4>2. AccountedFor(r)' = AccountedFor(r) + 0
        BY <1>t, <3>1, <4>1, CountsTyped DEF AccountedFor
      <4>3. run'[r].rev = run[r].rev + 0
        BY <1>t, <2>1, <3>3, CountsTyped
      <4> QED
        BY <4>2, <4>3
    <3> QED
      BY <3>2, <3>3
  <2>10. OnlyFaultsLoseEvents' /\ IsFiniteSet(LostEvents')
    BY <1>t, <2>1, <2>9, LossesSame
  <2>11. \A b \in Actors : At(b, "append")' => call'[b].doc.status # "prepared"
    BY <2>5, <2>7, <2>8 DEF LossInv, At
  <2>12. \A r \in Runs : ~Exists(r)' => run'[r].rev = 0
    BY <1>t, <2>1, <2>2, <2>5 DEF LossInv, Exists
  <2> QED
    BY <2>10, <2>11, <2>12 DEF LossInv
<1>8. ASSUME NEW a \in Actors, Write(a), Leave(a) PROVE LossInv'
  <2>1. At(a, "write") /\ journal' = journal /\ faults' = faults
    BY <1>8 DEF Write, counters
  <2>2. call'[a].pc = "idle"
    BY <1>8, <1>t DEF Leave, Idle
  <2>3. run' = run
    <3>1. CASE call' = [call EXCEPT ![a].pc = "append", ![a].doc = Changed(call[a])]
      <4>1. call'[a].pc = "append"
        BY <3>1, <1>t DEF Calls
      <4> QED
        BY <4>1, <2>2
    <3> QED
      BY <1>8, <3>1 DEF Write
  <2> QED
    BY <1>8, <1>c, <1>t, <1>s, <2>1, <2>3, QuietLosses DEF At
<1>9. ASSUME NEW a \in Actors, AppendTransition(a) PROVE LossInv'
  <2> DEFINE c == call[a]
             ev == [type |-> c.doc.status, run |-> c.run, key |-> NoKey, attempt |-> c.doc.attempt]
  <2>1. At(a, "append") /\ journal' = Append(journal, ev) /\ Leave(a) /\ run' = run /\ faults' = faults
    BY <1>9 DEF AppendTransition, AppendEvent, Journaled, counters
  <2>2. ev.type = c.doc.status /\ ev.run = c.run /\ c.doc.status # "prepared" /\ c.run \in Runs
    BY <1>t, <2>1 DEF LossInv, At, TypeOK
  <2> HIDE DEF ev, c
  <2>3. PICK n \in Nat :
          /\ n = Len(journal) + 1 /\ DOMAIN journal = 1..Len(journal) /\ Len(journal) \in Nat
          /\ DOMAIN journal' = 1..n
          /\ journal'[n] = ev /\ \A i \in DOMAIN journal : journal'[i] = journal[i]
    BY <1>t, <2>1
  <2>4. DOMAIN journal' = DOMAIN journal \cup {n} /\ n \notin DOMAIN journal
    BY <2>3
  <2>5. call'[a].pc = "idle" /\ \A b \in Actors : b # a => call'[b] = call[b]
    BY <1>t, <2>1 DEF Leave, Idle
  <2>6. ASSUME NEW r \in Runs
        PROVE run'[r].rev = run[r].rev + 0 /\ AccountedFor(r)' = AccountedFor(r) + 0
    <3>1. CASE r = c.run
      <4>1. TransitionEvents(r)' = TransitionEvents(r) \cup {n} /\ n \notin TransitionEvents(r)
        BY <2>2, <2>3, <2>4, <3>1 DEF TransitionEvents
      <4>2. Unfinished(r)' = Unfinished(r) \ {a} /\ a \in Unfinished(r)
        BY <2>1, <2>5, <3>1 DEF Unfinished, At, c
      <4>3. Cardinality(TransitionEvents(r)') = Cardinality(TransitionEvents(r)) + 1
        BY <1>t, <4>1, CountsTyped, FS_AddElement
      <4>4. Cardinality(Unfinished(r)') = Cardinality(Unfinished(r)) - 1
        BY <1>t, <4>2, CountsTyped, FS_RemoveElement
      <4>5. AccountedFor(r)' = AccountedFor(r) + 0
        BY <1>t, <4>3, <4>4, CountsTyped DEF AccountedFor
      <4> QED
        BY <1>t, <2>1, <4>5, CountsTyped
    <3>2. CASE r # c.run
      <4>1. TransitionEvents(r)' = TransitionEvents(r)
        BY <2>2, <2>3, <2>4, <3>2 DEF TransitionEvents
      <4>2. Unfinished(r)' = Unfinished(r)
        BY <2>1, <2>5, <3>2 DEF Unfinished, At, c
      <4>3. AccountedFor(r)' = AccountedFor(r) + 0
        BY <1>t, <4>1, <4>2, CountsTyped DEF AccountedFor
      <4> QED
        BY <1>t, <2>1, <4>3, CountsTyped
    <3> QED
      BY <3>1, <3>2
  <2>7. OnlyFaultsLoseEvents' /\ IsFiniteSet(LostEvents')
    BY <1>t, <2>1, <2>6, LossesSame
  <2> QED
    BY <2>1, <2>5, <2>7 DEF LossInv, At, Exists
<1>10. ASSUME NEW a \in Actors, CutShort(a), ~At(a, "append") PROVE LossInv'
  BY <1>10, <1>c, <1>t, <1>s, QuietLosses DEF CutShort
<1>11. ASSUME NEW a \in Actors, CutShort(a), At(a, "append") PROVE LossInv'
  <2>1. PICK s \in Runs : /\ s = call[a].run
                          /\ faults' = faults + 1 /\ Leave(a) /\ run' = run /\ journal' = journal
    BY <1>11, <1>t DEF CutShort, TypeOK, At
  <2>2. call'[a].pc = "idle" /\ \A b \in Actors : b # a => call'[b] = call[b]
    BY <1>t, <2>1 DEF Leave, Idle
  <2>3. Unfinished(s)' = Unfinished(s) \ {a} /\ a \in Unfinished(s)
    <3>1. a \in Unfinished(s)
      BY <1>11, <2>1 DEF Unfinished
    <3>2. \A b \in Actors : b \in Unfinished(s)' <=> b # a /\ b \in Unfinished(s)
      BY <2>2 DEF Unfinished, At
    <3>3. Unfinished(s) \subseteq Actors /\ Unfinished(s)' \subseteq Actors
      BY DEF Unfinished
    <3> QED
      BY <3>1, <3>2, <3>3
  <2>4. \A r \in Runs : r # s => Unfinished(r)' = Unfinished(r)
    BY <1>11, <2>1, <2>2 DEF Unfinished, At
  <2>5. \A r \in Runs : TransitionEvents(r)' = TransitionEvents(r) /\ run'[r].rev = run[r].rev
    BY <1>s, <2>1
  <2>6. \A r \in Runs : r # s => AccountedFor(r)' = AccountedFor(r)
    BY <2>4, <2>5 DEF AccountedFor
  <2>7. PICK k \in Nat, n \in Nat : k = AccountedFor(s) /\ n = run[s].rev /\ k <= n /\ k >= 1 /\ AccountedFor(s)' = k - 1
    <3>1. Cardinality(Unfinished(s)') = Cardinality(Unfinished(s)) - 1
      <4>1. IsFiniteSet(Unfinished(s))
        BY <1>t, CountsTyped
      <4>2. Cardinality(Unfinished(s) \ {a}) = Cardinality(Unfinished(s)) - 1
        BY <2>3, <4>1, FS_RemoveElement
      <4> QED
        BY <2>3, <4>2
    <3>2. IsFiniteSet(Unfinished(s)') /\ Cardinality(Unfinished(s)') \in Nat
      BY <1>t, <2>1, <2>3, CountsTyped, FS_RemoveElement, FS_CardinalityType
    <3>3. AccountedFor(s)' = AccountedFor(s) - 1 /\ AccountedFor(s) >= 1
      <4>1. PICK u \in Nat, e \in Nat :
              /\ u = Cardinality(Unfinished(s)) /\ e = Cardinality(TransitionEvents(s))
        BY <1>t, <2>1, CountsTyped
      <4>2. AccountedFor(s) = e + u /\ AccountedFor(s)' = e + (u - 1) /\ u - 1 \in Nat
        BY <2>1, <2>5, <3>1, <3>2, <4>1 DEF AccountedFor
      <4> QED
        BY <4>2
    <3> QED
      BY <1>t, <2>1, <3>3, CountsTyped DEF LossInv, OnlyFaultsLoseEvents
  <2> DEFINE lost == <<s, n - k + 1>>
  <2>8. LostEvents' = LostEvents \cup {lost}
    <3>1. 1..(run'[s].rev - AccountedFor(s)') = (1..(run[s].rev - AccountedFor(s))) \cup {n - k + 1}
      BY <2>1, <2>5, <2>7
    <3>2. \A r \in Runs : r # s => 1..(run'[r].rev - AccountedFor(r)') = 1..(run[r].rev - AccountedFor(r))
      BY <2>5, <2>6
    <3>3. \A r \in Runs : {r} \X (1..(run'[r].rev - AccountedFor(r)')) =
             ({r} \X (1..(run[r].rev - AccountedFor(r)))) \cup (IF r = s THEN {lost} ELSE {})
      <4>1. ASSUME NEW r \in Runs, r # s
            PROVE {r} \X (1..(run'[r].rev - AccountedFor(r)')) = {r} \X (1..(run[r].rev - AccountedFor(r)))
        BY <3>2, <4>1
      <4>2. {s} \X (1..(run'[s].rev - AccountedFor(s)'))
              = ({s} \X (1..(run[s].rev - AccountedFor(s)))) \cup {lost}
        <5> DEFINE old == 1..(run[s].rev - AccountedFor(s))
        <5> HIDE DEF old
        <5>1. {s} \X (old \cup {n - k + 1}) = ({s} \X old) \cup {<<s, n - k + 1>>}
          OBVIOUS
        <5> QED
          BY <3>1, <5>1 DEF old
      <4> QED
        BY <4>1, <4>2
    <3> HIDE DEF lost
    <3> QED
      BY <2>1, <3>3 DEF LostEvents
  <2>9. /\ IsFiniteSet(LostEvents') /\ Cardinality(LostEvents') <= Cardinality(LostEvents) + 1
        /\ Cardinality(LostEvents) \in Nat /\ Cardinality(LostEvents') \in Nat
    <3>1. IsFiniteSet(LostEvents) /\ Cardinality(LostEvents) \in Nat
      BY FS_CardinalityType DEF LossInv
    <3> HIDE DEF lost
    <3>2. /\ IsFiniteSet(LostEvents \cup {lost})
          /\ Cardinality(LostEvents \cup {lost}) \in {Cardinality(LostEvents), Cardinality(LostEvents) + 1}
      BY <3>1, FS_AddElement
    <3> QED
      BY <2>8, <3>1, <3>2
  <2>10. \A r \in Runs : AccountedFor(r)' <= run'[r].rev
    <3>1. AccountedFor(s)' <= run'[s].rev
      BY <2>1, <2>5, <2>7
    <3>2. ASSUME NEW r \in Runs, r # s PROVE AccountedFor(r)' <= run'[r].rev
      <4>1. AccountedFor(r) <= run[r].rev
        BY DEF LossInv, OnlyFaultsLoseEvents
      <4> QED
        BY <2>5, <2>6, <3>2, <4>1
    <3> QED
      BY <3>1, <3>2
  <2>11. Cardinality(LostEvents') <= faults'
    BY <1>t, <2>1, <2>9 DEF LossInv, OnlyFaultsLoseEvents
  <2>12. OnlyFaultsLoseEvents'
    BY <2>10, <2>11 DEF OnlyFaultsLoseEvents
  <2> QED
    BY <2>1, <2>2, <2>9, <2>12 DEF LossInv, At, Exists
<1>12. CASE UNCHANGED vars
  BY <1>12, <1>t, <1>s, QuietLosses DEF vars
<1> QED
  BY <1>1, <1>2, <1>3, <1>4, <1>5, <1>6, <1>7, <1>8, <1>9, <1>10, <1>11, <1>12 DEF Next, Done

LEMMA LossInvariant == Spec => []LossInv
<1>1. Init => LossInv
  <2> SUFFICES ASSUME Init PROVE LossInv
    OBVIOUS
  <2>1. \A r \in Runs : run[r].rev = 0 /\ ~Exists(r)
    BY DEF Init, Absent, Exists
  <2>2. \A a \in Actors : ~At(a, "append")
    BY DEF Init, Idle, At
  <2>3. \A r \in Runs : TransitionEvents(r) = {} /\ Unfinished(r) = {}
    BY <2>2 DEF TransitionEvents, Unfinished, Init
  <2>4. Cardinality({}) = 0 /\ IsFiniteSet({})
    BY FS_EmptySet
  <2>5. \A r \in Runs : AccountedFor(r) = 0
    BY <2>3, <2>4 DEF AccountedFor
  <2>6. LostEvents = {}
    BY <2>1, <2>5 DEF LostEvents
  <2> QED
    BY <2>1, <2>2, <2>4, <2>5, <2>6 DEF LossInv, OnlyFaultsLoseEvents, Init
<1>2. IInv /\ LossInv /\ [Next]_vars => LossInv'
  BY LossStep
<1> QED
  BY <1>1, <1>2, IInvariant, PTL DEF Spec

(* A stored transition without its event is owed to a call in progress or  *)
(* to a fault, and no run has more events than transitions (write_yaml,    *)
(* then append).                                                           *)
THEOREM OnlyFaultsLose == Spec => []OnlyFaultsLoseEvents
<1>1. LossInv => OnlyFaultsLoseEvents
  BY DEF LossInv
<1> QED
  BY <1>1, LossInvariant, PTL

(***************************************************************************)
(* One caller at a time                                                    *)
(***************************************************************************)
OneCaller == \A a, b \in Actors : a = b

(* What the caller read is what is stored, and a fatal failure stays one.  *)
ReadsAreFresh ==
  /\ \A r \in Runs : run[r].error = "fatal" => run[r].status = "failed"
  /\ \A a \in Actors :
       LET c == call[a] IN
       /\ c.pc \in {"get", "write"} /\ c.op = "start" => c.attempt = run[c.run].attempt
       /\ At(a, "write") => c.doc = run[c.run]
       /\ c.pc \in {"peek", "get", "write"} /\ c.via = "resume" => run[c.run].error # "fatal"

(* An answer is on the journal; a key being prepared is not.               *)
AnswersAreJournaled ==
  /\ \A a \in Actors : call[a].pc \in {"write_new", "append_new"} => ~Journaled(call[a].key)
  /\ \A x \in answers : \E i \in DOMAIN journal : journal[i].key = x[1] /\ journal[i].run = x[2]

HasEvent(r) == \E i \in DOMAIN journal : journal[i].run = r
IsLast(r, i) ==
  /\ i \in DOMAIN journal /\ journal[i].run = r
  /\ \A j \in DOMAIN journal : journal[j].run = r => j <= i

(* The journal lags behind the documents by the call in progress.          *)
JournalFollows ==
  /\ \A a \in Actors :
       LET c == call[a] IN
       /\ At(a, "append_new") => run[c.run].status = "prepared" /\ ~HasEvent(c.run)
       /\ At(a, "append") => c.doc.status = run[c.run].status
  /\ \A r \in Runs : HasEvent(r) =>
       \/ \E i \in DOMAIN journal : IsLast(r, i) /\ journal[i].type = run[r].status
       \/ \E a \in Actors : At(a, "append") /\ call[a].run = r

(* What each operation makes of the call it belongs to.                    *)
LEMMA CallerMoves ==
  ASSUME TypeOK, CallInv, NEW a \in Actors
  PROVE  /\ Leave(a) => call'[a].pc = "idle"
         /\ \A key \in Keys \cup {NoKey} : Prepare(a, key) =>
              call'[a].pc = "write_new" /\ call'[a].key = key
         /\ \A r \in Runs : WriteNew(a, r) =>
              /\ call'[a].pc = "append_new" /\ call'[a].run = r /\ call'[a].key = call[a].key
              /\ run'[r].status = "prepared" /\ run'[r].error = "none"
              /\ \A s \in Runs : s # r => run'[s] = run[s]
         /\ \A r \in Runs, op \in Ops \ {"prepare"} : Call(a, op, r) =>
              /\ call'[a].pc \in {"check_resume", "peek", "get"} /\ call'[a].via = op
              /\ call'[a].pc = "get" => call'[a].op # "start"
              /\ call'[a].pc # "check_resume" => op # "resume"
         /\ CheckResume(a) =>
              \/ call'[a].pc = "idle"
              \/ call'[a].pc = "peek" /\ call'[a].run = call[a].run /\ Resumable(run[call[a].run])
         /\ Peek(a) => /\ call'[a].pc = "get" /\ call'[a].run = call[a].run /\ call'[a].via = call[a].via
                       /\ call'[a].attempt = run[call[a].run].attempt
         /\ Get(a) =>
              \/ call'[a].pc = "idle"
              \/ /\ call'[a].pc = "write" /\ call'[a].run = call[a].run /\ call'[a].via = call[a].via
                 /\ call'[a].op = call[a].op /\ call'[a].attempt = call[a].attempt
                 /\ call'[a].doc = run[call[a].run]
         /\ Write(a) =>
              \/ call'[a].pc = "idle" /\ run' = run
              \/ /\ call'[a].pc = "append" /\ call'[a].run = call[a].run
                 /\ call'[a].doc = Changed(call[a]) /\ call[a].doc = run[call[a].run]
                 /\ run'[call[a].run] = Changed(call[a])
                 /\ \A s \in Runs : s # call[a].run => run'[s] = run[s]
<1>t. call \in [Actors -> Calls] /\ run \in [Runs -> Documents] /\ call[a] \in Calls
  BY DEF TypeOK
<1>1. Leave(a) => call'[a].pc = "idle"
  BY <1>t DEF Leave, Idle
<1>2. ASSUME NEW key \in Keys \cup {NoKey}, Prepare(a, key)
      PROVE  call'[a].pc = "write_new" /\ call'[a].key = key
  BY <1>t, <1>2 DEF Prepare, Idle
<1>3. ASSUME NEW r \in Runs, WriteNew(a, r)
      PROVE  /\ call'[a].pc = "append_new" /\ call'[a].run = r /\ call'[a].key = call[a].key
             /\ run'[r].status = "prepared" /\ run'[r].error = "none"
             /\ \A s \in Runs : s # r => run'[s] = run[s]
  <2>1. call'[a].pc = "append_new" /\ call'[a].run = r /\ call'[a].key = call[a].key
    BY <1>t, <1>3 DEF WriteNew, Calls
  <2>2. run' = [run EXCEPT ![r] = [Absent EXCEPT !.status = "prepared"]]
    BY <1>3 DEF WriteNew
  <2> QED
    BY <1>t, <2>1, <2>2 DEF Absent
<1>4. ASSUME NEW r \in Runs, NEW op \in Ops \ {"prepare"}, Call(a, op, r)
      PROVE  /\ call'[a].pc \in {"check_resume", "peek", "get"} /\ call'[a].via = op
             /\ call'[a].pc = "get" => call'[a].op # "start"
             /\ call'[a].pc # "check_resume" => op # "resume"
  <2>1. /\ call'[a].pc = FirstStep(op) /\ call'[a].via = op
        /\ call'[a].op = IF op = "resume" THEN "start" ELSE op
    BY <1>t, <1>4 DEF Call, Idle
  <2> QED
    BY <2>1 DEF FirstStep
<1>5. ASSUME CheckResume(a)
      PROVE  \/ call'[a].pc = "idle"
             \/ call'[a].pc = "peek" /\ call'[a].run = call[a].run /\ Resumable(run[call[a].run])
  BY <1>t, <1>1, <1>5 DEF CheckResume, Goto, Calls
<1>6. ASSUME Peek(a)
      PROVE  /\ call'[a].pc = "get" /\ call'[a].run = call[a].run /\ call'[a].via = call[a].via
             /\ call'[a].attempt = run[call[a].run].attempt
  BY <1>t, <1>6 DEF Peek, Calls
<1>7. ASSUME Get(a)
      PROVE  \/ call'[a].pc = "idle"
             \/ /\ call'[a].pc = "write" /\ call'[a].run = call[a].run /\ call'[a].via = call[a].via
                /\ call'[a].op = call[a].op /\ call'[a].attempt = call[a].attempt
                /\ call'[a].doc = run[call[a].run]
  BY <1>t, <1>1, <1>7 DEF Get, Calls
<1>8. ASSUME Write(a)
      PROVE  \/ call'[a].pc = "idle" /\ run' = run
             \/ /\ call'[a].pc = "append" /\ call'[a].run = call[a].run
                /\ call'[a].doc = Changed(call[a]) /\ call[a].doc = run[call[a].run]
                /\ run'[call[a].run] = Changed(call[a])
                /\ \A s \in Runs : s # call[a].run => run'[s] = run[s]
  <2>1. CASE Leave(a) /\ run' = run
    BY <1>1, <2>1
  <2>2. CASE ExpectedVersion(call[a]) /\ run' = [run EXCEPT ![call[a].run] = Changed(call[a])]
             /\ call' = [call EXCEPT ![a].pc = "append", ![a].doc = Changed(call[a])]
    <3>1. call[a].run \in Runs
      BY <1>8 DEF Write, At, TypeOK
    <3> HIDE DEF Changed
    <3> QED
      BY <1>t, <2>2, <3>1 DEF ExpectedVersion, Calls
  <2> QED
    BY <1>8, <2>1, <2>2 DEF Write
<1> QED
  BY <1>1, <1>2, <1>3, <1>4, <1>5, <1>6, <1>7, <1>8

LEMMA FreshStep ==
  ASSUME OneCaller, TypeOK, CallInv, ReadsAreFresh, [Next]_vars
  PROVE  ReadsAreFresh'
<1>0. ASSUME run' = run,
             \A a \in Actors :
               LET c == call'[a] IN
               /\ c.pc \in {"get", "write"} /\ c.op = "start" => c.attempt = run[c.run].attempt
               /\ c.pc = "write" => c.doc = run[c.run]
               /\ c.pc \in {"peek", "get", "write"} /\ c.via = "resume" => run[c.run].error # "fatal"
      PROVE  ReadsAreFresh'
  BY <1>0 DEF ReadsAreFresh, At
<1>q. ASSUME NEW a \in Actors, run' = run, call'[a].pc \notin {"peek", "get", "write"}
      PROVE  ReadsAreFresh'
  BY <1>0, <1>q DEF OneCaller
<1>1. ASSUME NEW a \in Actors, NEW key \in Keys \cup {NoKey}, Prepare(a, key) PROVE ReadsAreFresh'
  <2>1. call'[a].pc = "write_new"
    BY <1>1, CallerMoves
  <2>2. run' = run
    BY <1>1 DEF Prepare
  <2> QED
    BY <1>q, <2>1, <2>2
<1>2. ASSUME NEW a \in Actors, NEW r \in Runs, WriteNew(a, r) PROVE ReadsAreFresh'
  <2>1. /\ call'[a].pc = "append_new"
        /\ run'[r].error = "none" /\ \A s \in Runs : s # r => run'[s] = run[s]
    BY <1>2, CallerMoves
  <2> QED
    BY <2>1 DEF OneCaller, ReadsAreFresh, At
<1>3. ASSUME NEW a \in Actors, NEW r \in Runs, NEW op \in Ops \ {"prepare"}, Call(a, op, r)
      PROVE ReadsAreFresh'
  <2>1. /\ call'[a].pc \in {"check_resume", "peek", "get"} /\ call'[a].via = op
        /\ call'[a].pc = "get" => call'[a].op # "start"
        /\ call'[a].pc # "check_resume" => op # "resume"
    BY <1>3, CallerMoves
  <2>2. run' = run
    BY <1>3 DEF Call
  <2> QED
    BY <2>1, <2>2, <1>0 DEF OneCaller
<1>4. ASSUME NEW a \in Actors, Leave(a), run' = run PROVE ReadsAreFresh'
  BY <1>4, <1>q, CallerMoves
<1>5. ASSUME NEW a \in Actors, CheckResume(a) PROVE ReadsAreFresh'
  <2>1. run' = run
    BY <1>5 DEF CheckResume
  <2>2. CASE call'[a].pc = "idle"
    BY <1>q, <2>1, <2>2
  <2>3. CASE call'[a].pc = "peek" /\ call'[a].run = call[a].run /\ Resumable(run[call[a].run])
    <3>1. call[a].run \in Runs
      BY <1>5 DEF CheckResume, At, TypeOK
    <3>2. run[call[a].run].error # "fatal"
      BY <2>3, <3>1 DEF Resumable, ReadsAreFresh
    <3> QED
      BY <1>0, <2>1, <2>3, <3>2 DEF OneCaller
  <2> QED
    BY <1>5, <2>2, <2>3, CallerMoves
<1>6. ASSUME NEW a \in Actors, Peek(a) PROVE ReadsAreFresh'
  <2>1. /\ call'[a].pc = "get" /\ call'[a].run = call[a].run /\ call'[a].via = call[a].via
        /\ call'[a].attempt = run[call[a].run].attempt
    BY <1>6, CallerMoves
  <2>2. run' = run /\ At(a, "peek")
    BY <1>6 DEF Peek
  <2> QED
    BY <1>0, <2>1, <2>2 DEF OneCaller, ReadsAreFresh, At
<1>7. ASSUME NEW a \in Actors, Get(a) PROVE ReadsAreFresh'
  <2>1. run' = run /\ At(a, "get")
    BY <1>7 DEF Get
  <2>2. CASE call'[a].pc = "idle"
    BY <1>q, <2>1, <2>2
  <2>3. CASE /\ call'[a].pc = "write" /\ call'[a].run = call[a].run /\ call'[a].via = call[a].via
             /\ call'[a].op = call[a].op /\ call'[a].attempt = call[a].attempt
             /\ call'[a].doc = run[call[a].run]
    BY <1>0, <2>1, <2>3 DEF OneCaller, ReadsAreFresh, At
  <2> QED
    BY <1>7, <2>2, <2>3, CallerMoves
<1>8. ASSUME NEW a \in Actors, Write(a) PROVE ReadsAreFresh'
  <2>1. CASE call'[a].pc = "idle" /\ run' = run
    BY <1>q, <2>1
  <2>2. CASE /\ call'[a].pc = "append" /\ call[a].doc = run[call[a].run]
             /\ run'[call[a].run] = Changed(call[a])
             /\ \A s \in Runs : s # call[a].run => run'[s] = run[s]
    <3>1. /\ call[a] \in Calls /\ call[a].run \in Runs /\ call[a].op \in Lifecycle!TransitionOps
          /\ call[a].doc.status \in Lifecycle!Allowed(call[a].op)
      BY <1>8 DEF Write, TypeOK, CallInv, At
    <3>2. Changed(call[a]).error = "fatal" => Changed(call[a]).status = "failed"
      <4>1. Changed(call[a]).status = Lifecycle!StatusAfter(call[a].op)
        BY <3>1, ChangedDocument
      <4>2. call[a].doc \in Documents
        BY <3>1 DEF Calls
      <4>3. Changed(call[a]).error =
              CASE call[a].op = "start" -> "none"
                [] call[a].op \in {"block", "cancel"} -> "reason"
                [] call[a].op = "fail_retryable" -> "retryable"
                [] call[a].op = "fail_fatal" -> "fatal"
                [] OTHER -> call[a].doc.error
        BY <4>2 DEF Changed, Documents
      <4>4. CASE call[a].op \in {"checkpoint", "complete"}
        <5>1. call[a].doc.status # "failed"
          BY <3>1, <4>4 DEF Lifecycle!Allowed
        <5>2. call[a].doc.error # "fatal"
          BY <2>2, <3>1, <5>1 DEF ReadsAreFresh
        <5> QED
          BY <4>3, <4>4, <5>2
      <4>5. CASE call[a].op \notin {"checkpoint", "complete"}
        BY <3>1, <4>1, <4>3, <4>5 DEF Lifecycle!StatusAfter, Lifecycle!TransitionOps
      <4> QED
        BY <4>4, <4>5
    <3>3. \A r \in Runs : run'[r].error = "fatal" => run'[r].status = "failed"
      BY <2>2, <3>1, <3>2 DEF ReadsAreFresh
    <3> QED
      BY <2>2, <3>3 DEF OneCaller, ReadsAreFresh, At
  <2> QED
    BY <1>8, <2>1, <2>2, CallerMoves
<1>9. CASE UNCHANGED <<run, call>>
  BY <1>9 DEF ReadsAreFresh, At
<1> QED
  BY <1>1, <1>2, <1>3, <1>4, <1>5, <1>6, <1>7, <1>8, <1>9
     DEF Next, Done, vars, PrepareFound, AppendNew, AppendTransition, CutShort

(* An event added at the end of the journal.                               *)
LEMMA EventAdded ==
  ASSUME TypeOK, NEW ev \in Events, journal' = Append(journal, ev)
  PROVE  \E n \in Nat : /\ DOMAIN journal' = DOMAIN journal \cup {n} /\ journal'[n] = ev
                        /\ \A i \in DOMAIN journal : i \in Nat /\ i < n /\ journal'[i] = journal[i]
<1>1. journal \in Seq(Events) /\ Len(journal) \in Nat /\ DOMAIN journal = 1..Len(journal)
  BY DEF TypeOK
<1>2. PICK n \in Nat : n = Len(journal) + 1
  BY <1>1
<1>3. DOMAIN journal' = 1..n /\ journal'[n] = ev /\ \A i \in DOMAIN journal : journal'[i] = journal[i]
  BY <1>1, <1>2
<1> QED
  BY <1>1, <1>2, <1>3

LEMMA AnswersStep ==
  ASSUME OneCaller, TypeOK, CallInv, AnswersAreJournaled, [Next]_vars
  PROVE  AnswersAreJournaled'
<1>k. ASSUME journal' = journal, answers' = answers,
             \A a \in Actors : call'[a].pc \in {"write_new", "append_new"} => ~Journaled(call'[a].key)
      PROVE  AnswersAreJournaled'
  BY <1>k DEF AnswersAreJournaled, Journaled
<1>q. ASSUME NEW a \in Actors, journal' = journal, answers' = answers,
             call'[a].pc \notin {"write_new", "append_new"}
      PROVE  AnswersAreJournaled'
  BY <1>k, <1>q DEF OneCaller
<1>1. ASSUME NEW a \in Actors, NEW key \in Keys \cup {NoKey}, PrepareFound(a, key) PROVE AnswersAreJournaled'
  <2>1. /\ Journaled(key) /\ answers' = answers \cup {<<key, FindByKey(key).run>>}
        /\ journal' = journal /\ call' = call
    BY <1>1 DEF PrepareFound
  <2>2. PICK i \in DOMAIN journal : FindByKey(key) = journal[i] /\ journal[i].key = key
    BY <2>1 DEF Journaled, FindByKey
  <2> QED
    BY <2>1, <2>2 DEF AnswersAreJournaled, Journaled
<1>2. ASSUME NEW a \in Actors, NEW key \in Keys \cup {NoKey}, Prepare(a, key) PROVE AnswersAreJournaled'
  <2>1. call'[a].key = key
    BY <1>2, CallerMoves
  <2>2. journal' = journal /\ answers' = answers /\ ~Journaled(key)
    BY <1>2 DEF Prepare
  <2> QED
    BY <1>k, <2>1, <2>2 DEF OneCaller
<1>3. ASSUME NEW a \in Actors, NEW r \in Runs, WriteNew(a, r) PROVE AnswersAreJournaled'
  <2>1. call'[a].key = call[a].key
    BY <1>3, CallerMoves
  <2>2. journal' = journal /\ answers' = answers /\ call[a].pc = "write_new"
    BY <1>3 DEF WriteNew, At
  <2>3. ~Journaled(call[a].key)
    BY <2>2 DEF AnswersAreJournaled
  <2> QED
    BY <1>k, <2>1, <2>2, <2>3 DEF OneCaller
<1>4. ASSUME NEW a \in Actors, NEW r \in Runs, NEW op \in Ops \ {"prepare"}, Call(a, op, r)
      PROVE AnswersAreJournaled'
  <2>1. call'[a].pc \in {"check_resume", "peek", "get"}
    BY <1>4, CallerMoves
  <2>2. journal' = journal /\ answers' = answers
    BY <1>4 DEF Call
  <2> QED
    BY <1>q, <2>1, <2>2
<1>5. ASSUME NEW a \in Actors, AppendNew(a) PROVE AnswersAreJournaled'
  <2> DEFINE c == call[a]
             ev == [type |-> "prepared", run |-> c.run, key |-> c.key, attempt |-> 0]
  <2>1. /\ At(a, "append_new") /\ AppendEvent(ev) /\ Leave(a)
        /\ answers' = IF c.key = NoKey THEN answers ELSE answers \cup {<<c.key, c.run>>}
    BY <1>5 DEF AppendNew
  <2>2. ~Journaled(c.key)
    BY <2>1 DEF AnswersAreJournaled, At
  <2>3. journal' = Append(journal, ev)
    BY <2>1, <2>2 DEF AppendEvent
  <2>4. c \in Calls /\ c.run \in Runs
    BY <2>1 DEF TypeOK, At
  <2>5. ev \in Events /\ ev.run = c.run /\ ev.key = c.key
    BY <2>4 DEF Events, Calls, Lifecycle!RunStates
  <2> HIDE DEF ev, c
  <2>6. PICK n \in Nat : /\ DOMAIN journal' = DOMAIN journal \cup {n} /\ journal'[n] = ev
                         /\ \A i \in DOMAIN journal : i \in Nat /\ i < n /\ journal'[i] = journal[i]
    BY <2>3, <2>5, EventAdded
  <2>7. call'[a].pc = "idle"
    BY <2>1, CallerMoves
  <2>8. ASSUME NEW x \in answers'
        PROVE  \E i \in DOMAIN journal' : journal'[i].key = x[1] /\ journal'[i].run = x[2]
    <3>1. CASE x \in answers
      <4>1. PICK i \in DOMAIN journal : journal[i].key = x[1] /\ journal[i].run = x[2]
        BY <3>1 DEF AnswersAreJournaled
      <4> QED
        BY <2>6, <4>1
    <3>2. CASE x = <<c.key, c.run>>
      BY <2>5, <2>6, <3>2
    <3> QED
      BY <2>1, <3>1, <3>2
  <2> QED
    BY <2>7, <2>8 DEF AnswersAreJournaled, OneCaller
<1>6. ASSUME NEW a \in Actors, AppendTransition(a) PROVE AnswersAreJournaled'
  <2> DEFINE c == call[a]
             ev == [type |-> c.doc.status, run |-> c.run, key |-> NoKey, attempt |-> c.doc.attempt]
  <2>1. At(a, "append") /\ journal' = Append(journal, ev) /\ Leave(a) /\ answers' = answers
    BY <1>6 DEF AppendTransition, AppendEvent, Journaled
  <2>2. ev \in Events
    <3>1. c \in Calls /\ c.run \in Runs /\ c.doc.status \in Lifecycle!RunStates
      BY <2>1 DEF TypeOK, At, CallInv
    <3> QED
      BY <3>1 DEF Events, Calls, Documents
  <2> HIDE DEF ev, c
  <2>3. PICK n \in Nat : /\ DOMAIN journal' = DOMAIN journal \cup {n} /\ journal'[n] = ev
                         /\ \A i \in DOMAIN journal : i \in Nat /\ i < n /\ journal'[i] = journal[i]
    BY <2>1, <2>2, EventAdded
  <2>4. call'[a].pc = "idle"
    BY <2>1, CallerMoves
  <2>5. ASSUME NEW x \in answers'
        PROVE  \E i \in DOMAIN journal' : journal'[i].key = x[1] /\ journal'[i].run = x[2]
    <3>1. PICK i \in DOMAIN journal : journal[i].key = x[1] /\ journal[i].run = x[2]
      BY <2>1 DEF AnswersAreJournaled
    <3> QED
      BY <2>3, <3>1
  <2> QED
    BY <2>4, <2>5 DEF AnswersAreJournaled, OneCaller
<1>7. ASSUME NEW a \in Actors, CheckResume(a) \/ Peek(a) \/ Get(a) \/ Write(a) \/ CutShort(a)
      PROVE  AnswersAreJournaled'
  <2>1. call'[a].pc \in {"idle", "peek", "get", "write", "append"}
    BY <1>7, CallerMoves DEF CutShort
  <2>2. journal' = journal /\ answers' = answers
    BY <1>7 DEF CheckResume, Peek, Get, Write, CutShort
  <2> QED
    BY <1>q, <2>1, <2>2
<1>8. CASE UNCHANGED vars
  BY <1>8 DEF vars, AnswersAreJournaled, Journaled
<1> QED
  BY <1>1, <1>2, <1>3, <1>4, <1>5, <1>6, <1>7, <1>8 DEF Next, Done

LEMMA FollowsStep ==
  ASSUME OneCaller, MaxFaults = 0, IInv, AnswersAreJournaled, ReadsAreFresh, JournalFollows, [Next]_vars
  PROVE  JournalFollows'
<1>t. TypeOK /\ CallInv /\ JournaledRunExists
  BY DEF IInv
<1>0. ASSUME journal' = journal, \A r \in Runs : HasEvent(r) => run'[r].status = run[r].status,
             NEW a \in Actors, ~At(a, "append"),
             call'[a].pc = "append_new" => /\ run'[call'[a].run].status = "prepared"
                                           /\ ~HasEvent(call'[a].run),
             call'[a].pc # "append"
      PROVE  JournalFollows'
  BY <1>0 DEF OneCaller, JournalFollows, HasEvent, IsLast, At
<1>q. ASSUME journal' = journal, run' = run, NEW a \in Actors, ~At(a, "append"),
             call'[a].pc \notin {"append_new", "append"}
      PROVE  JournalFollows'
  BY <1>0, <1>q
<1>1. CASE UNCHANGED <<run, call, journal>>
  BY <1>1 DEF JournalFollows, HasEvent, IsLast, At
<1>2. ASSUME NEW a \in Actors, NEW key \in Keys \cup {NoKey}, Prepare(a, key) PROVE JournalFollows'
  <2>1. call'[a].pc = "write_new"
    BY <1>t, <1>2, CallerMoves
  <2>2. journal' = journal /\ run' = run /\ ~At(a, "append")
    BY <1>2 DEF Prepare, At
  <2> QED
    BY <1>q, <2>1, <2>2
<1>3. ASSUME NEW a \in Actors, NEW r \in Runs, WriteNew(a, r) PROVE JournalFollows'
  <2>1. /\ call'[a].pc = "append_new" /\ call'[a].run = r /\ run'[r].status = "prepared"
        /\ \A s \in Runs : s # r => run'[s] = run[s]
    BY <1>t, <1>3, CallerMoves
  <2>2. journal' = journal /\ ~Exists(r) /\ ~At(a, "append")
    BY <1>3 DEF WriteNew, At
  <2>3. ~HasEvent(r)
    BY <1>t, <2>2 DEF JournaledRunExists, HasEvent
  <2>4. \A s \in Runs : HasEvent(s) => run'[s].status = run[s].status
    BY <2>1, <2>3
  <2> QED
    BY <1>0, <2>1, <2>2, <2>3, <2>4
<1>4. ASSUME NEW a \in Actors, NEW r \in Runs, NEW op \in Ops \ {"prepare"}, Call(a, op, r)
      PROVE JournalFollows'
  <2>1. call'[a].pc \in {"check_resume", "peek", "get"}
    BY <1>t, <1>4, CallerMoves
  <2>2. journal' = journal /\ run' = run /\ ~At(a, "append")
    BY <1>4 DEF Call, At
  <2> QED
    BY <1>q, <2>1, <2>2
<1>5. ASSUME NEW a \in Actors, CheckResume(a) \/ Peek(a) \/ Get(a) PROVE JournalFollows'
  <2>1. call'[a].pc \in {"idle", "peek", "get", "write"}
    BY <1>t, <1>5, CallerMoves
  <2>2. journal' = journal /\ run' = run /\ ~At(a, "append")
    BY <1>5 DEF CheckResume, Peek, Get, At
  <2> QED
    BY <1>q, <2>1, <2>2
<1>6. ASSUME NEW a \in Actors, Write(a) PROVE JournalFollows'
  <2>1. journal' = journal /\ At(a, "write") /\ ~At(a, "append")
    BY <1>6 DEF Write, At
  <2>2. CASE call'[a].pc = "idle" /\ run' = run
    BY <1>q, <2>1, <2>2
  <2>3. CASE /\ call'[a].pc = "append" /\ call'[a].run = call[a].run
             /\ call'[a].doc = Changed(call[a])
             /\ run'[call[a].run] = Changed(call[a])
             /\ \A s \in Runs : s # call[a].run => run'[s] = run[s]
    <3>1. ASSUME NEW s \in Runs, HasEvent(s)'
          PROVE  \/ \E i \in DOMAIN journal : IsLast(s, i)' /\ journal'[i].type = run'[s].status
                 \/ \E b \in Actors : At(b, "append")' /\ call'[b].run = s
      <4>1. CASE s = call[a].run
        BY <2>3, <4>1 DEF At
      <4>2. CASE s # call[a].run
        <5>1. PICK i \in DOMAIN journal : IsLast(s, i) /\ journal[i].type = run[s].status
          <6>1. HasEvent(s)
            BY <2>1, <3>1 DEF HasEvent
          <6> QED
            BY <2>1, <6>1 DEF JournalFollows, OneCaller
        <5> QED
          BY <2>1, <2>3, <4>2, <5>1 DEF IsLast
      <4> QED
        BY <4>1, <4>2
    <3> HIDE DEF Changed
    <3> QED
      BY <2>1, <2>3, <3>1 DEF JournalFollows, OneCaller, At
  <2> QED
    BY <1>t, <1>6, <2>2, <2>3, CallerMoves
<1>7. ASSUME NEW a \in Actors, NEW ev \in Events, journal' = Append(journal, ev), run' = run,
             ev.run = call[a].run, ev.type = run[ev.run].status,
             \A r \in Runs : HasEvent(r) /\ r # ev.run =>
               \E i \in DOMAIN journal : IsLast(r, i) /\ journal[i].type = run[r].status,
             call'[a].pc = "idle"
      PROVE  JournalFollows'
  <2>1. PICK n \in Nat : /\ DOMAIN journal' = DOMAIN journal \cup {n} /\ journal'[n] = ev
                         /\ \A i \in DOMAIN journal : i \in Nat /\ i < n /\ journal'[i] = journal[i]
    BY <1>t, <1>7, EventAdded
  <2>2. ASSUME NEW r \in Runs, HasEvent(r)'
        PROVE  \E i \in DOMAIN journal' : IsLast(r, i)' /\ journal'[i].type = run'[r].status
    <3>1. CASE r = ev.run
      <4>1. IsLast(r, n)'
        <5>1. \A j \in DOMAIN journal' : j <= n
          BY <2>1
        <5> QED
          BY <2>1, <3>1, <5>1 DEF IsLast
      <4> QED
        BY <1>7, <2>1, <3>1, <4>1
    <3>2. CASE r # ev.run
      <4>1. HasEvent(r)
        BY <2>1, <2>2, <3>2 DEF HasEvent
      <4>2. PICK i \in DOMAIN journal : IsLast(r, i) /\ journal[i].type = run[r].status
        BY <1>7, <3>2, <4>1
      <4>3. IsLast(r, i)'
        BY <2>1, <3>2, <4>2 DEF IsLast
      <4> QED
        BY <1>7, <2>1, <4>2, <4>3
    <3> QED
      BY <3>1, <3>2
  <2> QED
    BY <1>7, <2>2 DEF JournalFollows, OneCaller, At
<1>8. ASSUME NEW a \in Actors, AppendNew(a) PROVE JournalFollows'
  <2> DEFINE c == call[a]
             ev == [type |-> "prepared", run |-> c.run, key |-> c.key, attempt |-> 0]
  <2>1. At(a, "append_new") /\ AppendEvent(ev) /\ Leave(a) /\ run' = run /\ call'[a].pc = "idle"
    BY <1>t, <1>8, CallerMoves DEF AppendNew
  <2>2. ~Journaled(c.key) /\ run[c.run].status = "prepared"
    BY <2>1 DEF AnswersAreJournaled, JournalFollows, At
  <2>3. journal' = Append(journal, ev)
    BY <2>1, <2>2 DEF AppendEvent
  <2>4. c \in Calls /\ c.run \in Runs
    BY <1>t, <2>1 DEF TypeOK, At
  <2>5. ev \in Events /\ ev.run = c.run /\ ev.type = "prepared"
    BY <2>4 DEF Events, Calls, Lifecycle!RunStates
  <2> HIDE DEF ev
  <2>6. \A b \in Actors : ~At(b, "append")
    BY <2>1 DEF OneCaller, At
  <2>7. \A r \in Runs : HasEvent(r) /\ r # ev.run =>
          \E i \in DOMAIN journal : IsLast(r, i) /\ journal[i].type = run[r].status
    BY <2>6 DEF JournalFollows
  <2> QED
    BY <1>7, <2>1, <2>2, <2>3, <2>5, <2>7
<1>9. ASSUME NEW a \in Actors, AppendTransition(a) PROVE JournalFollows'
  <2> DEFINE c == call[a]
             ev == [type |-> c.doc.status, run |-> c.run, key |-> NoKey, attempt |-> c.doc.attempt]
  <2>1. At(a, "append") /\ journal' = Append(journal, ev) /\ Leave(a) /\ run' = run /\ call'[a].pc = "idle"
    BY <1>t, <1>9, CallerMoves DEF AppendTransition, AppendEvent, Journaled
  <2>2. ev \in Events /\ ev.run = c.run /\ ev.type = c.doc.status
    <3>1. c \in Calls /\ c.run \in Runs /\ c.doc.status \in Lifecycle!RunStates
      BY <1>t, <2>1 DEF TypeOK, At, CallInv
    <3> QED
      BY <3>1 DEF Events, Calls, Documents
  <2> HIDE DEF ev
  <2>3. c.doc.status = run[c.run].status
    BY <2>1 DEF JournalFollows
  <2>4. \A r \in Runs : r # c.run => ~ \E b \in Actors : At(b, "append") /\ call[b].run = r
    BY DEF OneCaller
  <2>5. \A r \in Runs : HasEvent(r) /\ r # ev.run =>
          \E i \in DOMAIN journal : IsLast(r, i) /\ journal[i].type = run[r].status
    BY <2>2, <2>4 DEF JournalFollows
  <2> QED
    BY <1>7, <2>1, <2>2, <2>3, <2>5
<1>10. ASSUME NEW a \in Actors, CutShort(a) PROVE FALSE
  BY <1>t, <1>10 DEF CutShort, TypeOK
<1> QED
  BY <1>1, <1>2, <1>3, <1>4, <1>5, <1>6, <1>8, <1>9, <1>10
     DEF Next, Done, vars, PrepareFound

LEMMA OneCallerStarts ==
  Init => ReadsAreFresh /\ AnswersAreJournaled /\ JournalFollows
BY DEF Init, ReadsAreFresh, AnswersAreJournaled, JournalFollows, HasEvent, Absent, Idle, At

(* One caller at a time: a start is one attempt more than the one stored   *)
(* before it, and resume never starts a run that failed for good (start,   *)
(* resume), wherever calls are cut short.                                  *)
THEOREM AloneStartsAreNewAttempts ==
  ASSUME OneCaller
  PROVE  Spec => StartsAreNewAttempts
<1>1. Init => ReadsAreFresh
  BY OneCallerStarts
<1>2. IInv /\ ReadsAreFresh /\ [Next]_vars => ReadsAreFresh'
  BY FreshStep DEF IInv
<1> DEFINE NewAttempts == \A a \in Actors : Starts(a) =>
             LET r == call[a].run
             IN /\ run'[r].attempt = run[r].attempt + 1
                /\ call[a].via = "resume" => run[r].error # "fatal"
<1>3. IInv /\ ReadsAreFresh /\ [Next]_vars => [NewAttempts]_vars
  <2> SUFFICES ASSUME IInv, ReadsAreFresh, Next, NEW a \in Actors, Starts(a)
      PROVE  LET r == call[a].run
             IN /\ run'[r].attempt = run[r].attempt + 1
                /\ call[a].via = "resume" => run[r].error # "fatal"
    OBVIOUS
  <2>1. TypeOK /\ CallInv /\ At(a, "write") /\ call[a].op = "start" /\ call'[a].pc = "append"
    BY DEF Starts, IInv
  <2>2. Write(a)
    <3>1. \A b \in Actors : b = a
      BY DEF OneCaller
    <3>2. ~CutShort(a)
      BY <2>1, CallerMoves DEF CutShort
    <3>3. ~Done
      BY <2>1 DEF Done, At
    <3>4. ~AppendNew(a) /\ ~CheckResume(a) /\ ~Peek(a) /\ ~Get(a) /\ ~AppendTransition(a)
      BY <2>1 DEF AppendNew, CheckResume, Peek, Get, AppendTransition, At
    <3>5. \A key \in Keys \cup {NoKey} : ~PrepareFound(a, key) /\ ~Prepare(a, key)
      BY <2>1 DEF PrepareFound, Prepare, At
    <3>6. \A r \in Runs : ~WriteNew(a, r)
      BY <2>1 DEF WriteNew, At
    <3>7. \A op, r : ~Call(a, op, r)
      BY <2>1 DEF Call, At
    <3> QED
      BY <3>1, <3>2, <3>3, <3>4, <3>5, <3>6, <3>7 DEF Next
  <2>3. run'[call[a].run] = Changed(call[a])
    BY <2>1, <2>2, CallerMoves
  <2>4. call[a].attempt = run[call[a].run].attempt /\ call[a].doc \in Documents
    BY <2>1 DEF ReadsAreFresh, At, TypeOK, Calls
  <2>5. Changed(call[a]).attempt = call[a].attempt + 1
    BY <2>1, <2>4 DEF Changed, NextAttempt, Documents
  <2>6. call[a].via = "resume" => run[call[a].run].error # "fatal"
    BY <2>1 DEF ReadsAreFresh, At
  <2> QED
    BY <2>3, <2>4, <2>5, <2>6
<1> QED
  BY <1>1, <1>2, <1>3, IInvariant, PTL DEF Spec, StartsAreNewAttempts

(* One caller at a time, none cut short: a key is answered with one run,   *)
(* and the last event of a run is its status (prepare, _transition).       *)
THEOREM AloneAnswersAndJournalAgree ==
  ASSUME OneCaller, MaxFaults = 0
  PROVE  Spec => []AnswersAndJournalAgree
<1> DEFINE Alone == ReadsAreFresh /\ AnswersAreJournaled /\ JournalFollows
<1>1. Init => Alone
  BY OneCallerStarts
<1>2. IInv /\ Alone /\ [Next]_vars => Alone'
  BY FreshStep, AnswersStep, FollowsStep DEF IInv
<1>3. IInv /\ Alone => AnswersAndJournalAgree
  <2> SUFFICES ASSUME IInv, Alone PROVE SameRunForKey /\ JournalEndsInStatus
    BY DEF AnswersAndJournalAgree
  <2>1. SameRunForKey
    <3> SUFFICES ASSUME NEW x \in answers, NEW y \in answers, x[1] = y[1] PROVE x[2] = y[2]
      BY DEF SameRunForKey
    <3>1. PICK i \in DOMAIN journal : journal[i].key = x[1] /\ journal[i].run = x[2]
      BY DEF AnswersAreJournaled
    <3>2. PICK j \in DOMAIN journal : journal[j].key = y[1] /\ journal[j].run = y[2]
      BY DEF AnswersAreJournaled
    <3>3. x[1] # NoKey
      <4>1. x[1] \in Keys
        BY DEF IInv, TypeOK
      <4> QED
        BY <4>1, ConstantsAssumption
    <3> QED
      BY <3>1, <3>2, <3>3 DEF IInv, KeyEventUnique
  <2>2. JournalEndsInStatus
    <3> SUFFICES ASSUME \A a \in Actors : At(a, "idle"), NEW r \in Runs, HasEvent(r)
                 PROVE  LastEvent(r).type = run[r].status
      BY DEF JournalEndsInStatus, HasEvent
    <3>1. PICK i \in DOMAIN journal : IsLast(r, i) /\ journal[i].type = run[r].status
      BY DEF JournalFollows, At
    <3> DEFINE mine == {k \in DOMAIN journal : journal[k].run = r}
               last == CHOOSE k \in mine : \A j \in mine : j <= k
    <3>2. i \in mine /\ \A j \in mine : j <= i
      BY <3>1 DEF IsLast
    <3>3. last \in mine /\ \A j \in mine : j <= last
      BY <3>2
    <3>4. \A k \in mine : k \in Nat
      BY DEF IInv, TypeOK
    <3>5. last = i
      <4> HIDE DEF last, mine
      <4> QED
        BY <3>2, <3>3, <3>4
    <3> QED
      BY <3>1, <3>5 DEF LastEvent
  <2> QED
    BY <2>1, <2>2
<1> QED
  BY <1>1, <1>2, <1>3, IInvariant, PTL DEF Spec
=============================================================================
