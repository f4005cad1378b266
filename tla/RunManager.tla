------------------------------ MODULE RunManager ------------------------------
(***************************************************************************)
(* app/run_manager.py and the part of app/event_journal.py it uses.  A run *)
(* is a YAML file; an operation reads it, checks its status, writes it     *)
(* back with expected_version and only then appends an event to the shared *)
(* journal.  Each file operation is one step here (ArtifactStore shows     *)
(* when it is), and the operations of several callers interleave between   *)
(* them.                                                                   *)
(***************************************************************************)
EXTENDS Naturals, FiniteSets, Sequences

CONSTANTS
  Actors,     \* threads of the server and command-line processes
  Runs,       \* identifiers uuid4 may produce
  Keys,       \* idempotency keys of callers
  NoKey,      \* prepare without an idempotency key
  NoRun,      \* no run chosen yet
  MaxCalls,   \* bound on the calls made
  MaxFaults   \* bound on calls cut short by a crash or a store error

ASSUME ConstantsAssumption ==
  /\ IsFiniteSet(Actors)
  /\ NoKey \notin Keys
  /\ NoRun \notin Runs
  /\ MaxCalls \in Nat
  /\ MaxFaults \in Nat

VARIABLES
  run,        \* run[r]: the stored document
  journal,    \* events/platform.jsonl
  call,       \* call[a]: the operation a is in the middle of
  disclosed,  \* runs whose raw resume token a caller received
  answers,    \* history: <<key, run>> pairs prepare has returned
  calls, faults  \* counters bounded by MaxCalls and MaxFaults

vars == <<run, journal, call, disclosed, answers, calls, faults>>

Lifecycle == INSTANCE RunLifecycle WITH status <- [r \in Runs |-> run[r].status]

Statuses == Lifecycle!RunStates \cup {"absent"}
Errors == {"none", "reason", "retryable", "fatal"}

(* rev stands for updated_at: it makes every stored document, hence every  *)
(* version digest, distinct.                                               *)
Documents ==
  [status : Statuses, attempt : Nat, error : Errors, rev : Nat]
Absent == [status |-> "absent", attempt |-> 0, error |-> "none", rev |-> 0]

Events == [type : Lifecycle!RunStates, run : Runs, key : Keys \cup {NoKey},
           attempt : Nat]

PCs == {"idle", "write_new", "append_new", "check_resume", "peek", "get", "write", "append"}
Ops == Lifecycle!TransitionOps \cup {"prepare", "resume"}

(* op and via name the transition and the method called: resume goes on to *)
(* start.  attempt and doc are what the call read.                         *)
Calls == [pc : PCs, op : Ops, via : Ops, run : Runs \cup {NoRun}, key : Keys \cup {NoKey},
          attempt : Nat, doc : Documents]
Idle == [pc |-> "idle", op |-> "prepare", via |-> "prepare", run |-> NoRun,
         key |-> NoKey, attempt |-> 0, doc |-> Absent]

TypeOK ==
  /\ run \in [Runs -> Documents]
  /\ journal \in Seq(Events)
  /\ call \in [Actors -> Calls]
  /\ \A a \in Actors : call[a].pc \notin {"idle", "write_new"} => call[a].run \in Runs
  /\ disclosed \in SUBSET Runs
  /\ answers \in SUBSET (Keys \X Runs)
  /\ calls \in 0..MaxCalls
  /\ faults \in 0..MaxFaults

Init ==
  /\ run = [r \in Runs |-> Absent]
  /\ journal = <<>>
  /\ call = [a \in Actors |-> Idle]
  /\ disclosed = {}
  /\ answers = {}
  /\ calls = 0
  /\ faults = 0

Exists(r) == run[r].status # "absent"
At(a, pc) == call[a].pc = pc
Goto(a, pc) == call' = [call EXCEPT ![a].pc = pc]
(* The call returns or raises.                                             *)
Leave(a) == call' = [call EXCEPT ![a] = Idle]

CountCall ==
  /\ calls < MaxCalls
  /\ calls' = calls + 1
  /\ UNCHANGED faults

counters == <<calls, faults>>

(***************************************************************************)
(* The journal.  append() reads, verifies and extends the file in one      *)
(* locked update; an event whose idempotency key is there already is not   *)
(* added again.                                                            *)
(***************************************************************************)
Journaled(key) == key # NoKey /\ \E i \in DOMAIN journal : journal[i].key = key

FindByKey(key) == journal[CHOOSE i \in DOMAIN journal : journal[i].key = key]

(* No look-up of the key; one event per run and type; newest first.        *)
AppendAlways(event) == journal' = Append(journal, event)
AppendOncePerType(event) ==
  journal' = IF \E i \in DOMAIN journal : journal[i].run = event.run /\ journal[i].type = event.type
             THEN journal ELSE Append(journal, event)
Prepend(event) == journal' = <<event>> \o journal

AppendEvent(event) ==
  journal' = IF Journaled(event.key) THEN journal ELSE Append(journal, event)

(***************************************************************************)
(* prepare                                                                 *)
(***************************************************************************)
(* The key is journaled: the run of its event is returned, without token.  *)
PrepareFound(a, key) ==
  /\ At(a, "idle")
  /\ CountCall
  /\ Journaled(key)
  /\ Exists(FindByKey(key).run)
  /\ answers' = answers \cup {<<key, FindByKey(key).run>>}
  /\ UNCHANGED <<run, journal, call, disclosed>>

(* Runs bounds the identifiers uuid4 can draw: no call starts that could   *)
(* find none left.                                                         *)
FreeIds == Cardinality({r \in Runs : ~Exists(r)})

Prepare(a, key) ==
  /\ At(a, "idle")
  /\ CountCall
  /\ ~Journaled(key)
  /\ FreeIds > Cardinality({b \in Actors : At(b, "write_new")})
  /\ call' = [call EXCEPT ![a] = [Idle EXCEPT !.pc = "write_new", !.key = key]]
  /\ UNCHANGED <<run, journal, disclosed, answers>>

(* The run's own write left out.                                           *)
AnnounceOnly(a, r) ==
  /\ At(a, "write_new")
  /\ ~Exists(r)
  /\ call' = [call EXCEPT ![a].pc = "append_new", ![a].run = r]
  /\ UNCHANGED <<run, journal, disclosed, answers, counters>>

WriteNew(a, r) ==
  /\ At(a, "write_new")
  /\ ~Exists(r)
  /\ run' = [run EXCEPT ![r] = [Absent EXCEPT !.status = "prepared"]]
  /\ call' = [call EXCEPT ![a].pc = "append_new", ![a].run = r]
  /\ UNCHANGED <<journal, disclosed, answers, counters>>

(* The event append returns is ignored: whatever it found, the run just    *)
(* written and its token are returned.                                     *)
AppendNew(a) ==
  LET c == call[a] IN
  /\ At(a, "append_new")
  /\ AppendEvent([type |-> "prepared", run |-> c.run, key |-> c.key, attempt |-> 0])
  /\ disclosed' = disclosed \cup {c.run}
  /\ answers' = IF c.key = NoKey THEN answers ELSE answers \cup {<<c.key, c.run>>}
  /\ Leave(a)
  /\ UNCHANGED <<run, counters>>

(***************************************************************************)
(* start, checkpoint, complete, block, fail, cancel and resume             *)
(***************************************************************************)
FirstStep(op) ==
  CASE op = "resume" -> "check_resume" [] op = "start" -> "peek" [] OTHER -> "get"

Call(a, op, r) ==
  /\ At(a, "idle")
  /\ CountCall
  /\ Exists(r)
  /\ call' = [call EXCEPT ![a] =
                [Idle EXCEPT !.pc = FirstStep(op), !.via = op, !.run = r,
                             !.op = IF op = "resume" THEN "start" ELSE op]]
  /\ UNCHANGED <<run, journal, disclosed, answers>>

(* The test of error.retryable left out.                                   *)
ResumableFailure(d) == d.status \in {"checkpointed", "blocked", "failed"}

Resumable(d) ==
  /\ d.status \in {"checkpointed", "blocked", "failed"}
  /\ d.status = "failed" => d.error = "retryable"

(* resume reads the run, checks token and status, and calls start.         *)
CheckResume(a) ==
  LET r == call[a].run IN
  /\ At(a, "check_resume")
  /\ IF r \in disclosed /\ Resumable(run[r]) THEN Goto(a, "peek") ELSE Leave(a)
  /\ UNCHANGED <<run, journal, disclosed, answers, counters>>

(* start reads the run for its attempt number only.                        *)
Peek(a) ==
  /\ At(a, "peek")
  /\ call' = [call EXCEPT ![a].pc = "get", ![a].attempt = run[call[a].run].attempt]
  /\ UNCHANGED <<run, journal, disclosed, answers, counters>>

(* _transition reads the run again and checks its status.                  *)
Get(a) ==
  LET d == run[call[a].run] IN
  /\ At(a, "get")
  /\ IF d.status \in Lifecycle!Allowed(call[a].op)
     THEN call' = [call EXCEPT ![a].pc = "write", ![a].doc = d]
     ELSE Leave(a)
  /\ UNCHANGED <<run, journal, disclosed, answers, counters>>

NextAttempt(c) == c.attempt + 1

Changed(c) ==
  [c.doc EXCEPT
     !.status  = Lifecycle!StatusAfter(c.op),
     !.attempt = IF c.op = "start" THEN NextAttempt(c) ELSE @,
     !.error   = CASE c.op = "start" -> "none"
                   [] c.op \in {"block", "cancel"} -> "reason"
                   [] c.op = "fail_retryable" -> "retryable"
                   [] c.op = "fail_fatal" -> "fatal"
                   [] OTHER -> @,
     !.rev     = @ + 1]

(* expected_version left out, and passed.                                  *)
AnyVersion(c) == TRUE
ExpectedVersion(c) == run[c.run] = c.doc

(* write_yaml with the version that was read, or "concurrent update".      *)
Write(a) ==
  LET c == call[a] IN
  /\ At(a, "write")
  /\ \/ /\ ExpectedVersion(c)
        /\ run' = [run EXCEPT ![c.run] = Changed(c)]
        /\ call' = [call EXCEPT ![a].pc = "append", ![a].doc = Changed(c)]
     \/ /\ ~ExpectedVersion(c)
        /\ Leave(a)
        /\ UNCHANGED run
  /\ UNCHANGED <<journal, disclosed, answers, counters>>

AppendTransition(a) ==
  LET c == call[a] IN
  /\ At(a, "append")
  /\ AppendEvent([type |-> c.doc.status, run |-> c.run, key |-> NoKey,
                  attempt |-> c.doc.attempt])
  /\ Leave(a)
  /\ UNCHANGED <<run, disclosed, answers, counters>>

(* The process dies, or a store operation raises (a lock timeout, a full   *)
(* disk): the rest of the call does not happen and a token is lost.        *)
CutShort(a) ==
  /\ ~At(a, "idle")
  /\ faults < MaxFaults
  /\ faults' = faults + 1
  /\ Leave(a)
  /\ UNCHANGED <<run, journal, disclosed, answers, calls>>

Done ==
  /\ calls = MaxCalls
  /\ \A a \in Actors : At(a, "idle")
  /\ UNCHANGED vars

Next ==
  \/ \E a \in Actors :
       \/ \E key \in Keys \cup {NoKey} : PrepareFound(a, key) \/ Prepare(a, key)
       \/ \E r \in Runs : WriteNew(a, r)
       \/ \E r \in Runs, op \in Ops \ {"prepare"} : Call(a, op, r)
       \/ AppendNew(a) \/ CheckResume(a) \/ Peek(a) \/ Get(a) \/ Write(a)
       \/ AppendTransition(a) \/ CutShort(a)
  \/ Done

Spec == Init /\ [][Next]_vars
-----------------------------------------------------------------------------
(* Every run lives the life of RunLifecycle, whatever the interleaving:    *)
(* the status is checked on one read and written after another, and only   *)
(* the version check between them keeps a completed or cancelled run from  *)
(* moving (_transition).                                                   *)
ImplementsLifecycle == Lifecycle!Spec

(* At most one event carries an idempotency key, and the run it names has  *)
(* a stored document, so that a repeated prepare can always answer         *)
(* (prepare writes the run before its event; append looks the key up       *)
(* under the lock).                                                        *)
KeyEventUnique ==
  \A i, j \in DOMAIN journal :
    journal[i].key # NoKey /\ journal[i].key = journal[j].key => i = j
JournaledRunExists == \A i \in DOMAIN journal : Exists(journal[i].run)

(* Every stored transition is journaled once its call is over, and nothing *)
(* else is: the only transitions without an event are those of calls in    *)
(* progress and of calls a fault cut short (write_yaml, then append).      *)
TransitionEvents(r) == {i \in DOMAIN journal : journal[i].run = r /\ journal[i].type # "prepared"}
Unfinished(r) == {a \in Actors : At(a, "append") /\ call[a].run = r}
AccountedFor(r) == Cardinality(TransitionEvents(r)) + Cardinality(Unfinished(r))
LostEvents == UNION {{r} \X (1..(run[r].rev - AccountedFor(r))) : r \in Runs}
OnlyFaultsLoseEvents ==
  /\ \A r \in Runs : AccountedFor(r) <= run[r].rev
  /\ Cardinality(LostEvents) <= faults

(* The step that stores "started" for the call of actor a.                 *)
Starts(a) == At(a, "write") /\ call[a].op = "start" /\ call'[a].pc = "append"

(* Each start is one attempt more than the one before, and resume never    *)
(* starts a run that has failed for good: "non-retryable failed run cannot *)
(* resume" (test_checkpoint_and_resume_increment_attempt,                  *)
(* test_non_retryable_failure_cannot_resume).                              *)
StartsAreNewAttempts ==
  [][\A a \in Actors : Starts(a) =>
       LET r == call[a].run
       IN /\ run'[r].attempt = run[r].attempt + 1
          /\ call[a].via = "resume" => run[r].error # "fatal"]_vars

(* "A repeated idempotent prepare retrieves the same run"                  *)
(* (test_prepare_idempotency_does_not_duplicate_run).                      *)
SameRunForKey == \A x, y \in answers : x[1] = y[1] => x[2] = y[2]

(* The journal tells the transitions of a run in the order they happened:  *)
(* the last one it holds is the run's present status.                      *)
LastEvent(r) ==
  LET mine == {i \in DOMAIN journal : journal[i].run = r}
  IN journal[CHOOSE i \in mine : \A j \in mine : j <= i]
JournalEndsInStatus ==
  (\A a \in Actors : At(a, "idle")) =>
    \A r \in Runs : (\E i \in DOMAIN journal : journal[i].run = r)
                      => LastEvent(r).type = run[r].status
=============================================================================
