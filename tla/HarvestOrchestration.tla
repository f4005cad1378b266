------------------------ MODULE HarvestOrchestration ------------------------
(***************************************************************************)
(* app/harvest_orchestration.py: run_harvest, with run_source of           *)
(* harvest_runner.py and the BudgetLedger and RetryPolicy of               *)
(* execution_policy.py.  Several harvests of one workspace share its       *)
(* ledger.  A ledger charge is one update_bytes, hence one step            *)
(* (ArtifactStore), and nobody else touches a harvest's run, so each       *)
(* RunManager call is one step too (RunLifecycle).                         *)
(***************************************************************************)
EXTENDS Naturals, FiniteSets, Sequences

CONSTANTS
  Harvests,         \* calls of run_harvest, each with the run it prepares
  MaxSources,       \* bound on the length of request.sources
  MaxAttempts,      \* RetryPolicy.max_attempts
  MaxCalls,         \* BudgetEnvelope.max_calls
  MappingMayFail,   \* an adapter may return a row that maps to no candidate
  MaxFaults         \* bound on harvests cut short by a crash or a store error

ASSUME ConstantsAssumption ==
  /\ MaxSources \in Nat \ {0}
  /\ MaxAttempts \in Nat \ {0}
  /\ MaxCalls \in Nat
  /\ MappingMayFail \in BOOLEAN
  /\ MaxFaults \in Nat

VARIABLES
  used,     \* calls charged in runtime/budgets/<workspace>.yaml
  status,   \* status[h]: the status of h's run
  token,    \* token[h]: the source results in the last checkpoint
  job,      \* job[h]: the local state of run_harvest
  faults

vars == <<used, status, token, job, faults>>

Lifecycle == INSTANCE RunLifecycle WITH Runs <- Harvests

Outcomes == {"ok", "empty", "error", "timeout"}   \* SOURCE_RUN_STATUSES

(* attempts counts the adapter calls made for the source: the code does    *)
(* not keep it.                                                            *)
SourceRuns == [outcome : Outcomes, attempts : 1..MaxAttempts]

PCs == {"idle", "prepared", "charge", "call", "checkpoint", "settle",
        "returned", "raised", "refused", "lost"}

Jobs == [pc : PCs, sources : 0..MaxSources, attempt : 0..MaxAttempts,
         blocked : BOOLEAN, runs : Seq(SourceRuns)]

TypeOK ==
  /\ used \in Nat
  /\ status \in [Harvests -> Lifecycle!RunStates \cup {"absent"}]
  /\ token \in [Harvests -> Seq(SourceRuns)]
  /\ job \in [Harvests -> Jobs]
  /\ \A h \in Harvests : Len(job[h].runs) <= job[h].sources
  /\ faults \in 0..MaxFaults

Init ==
  /\ used = 0
  /\ status = [h \in Harvests |-> "absent"]
  /\ token = [h \in Harvests |-> <<>>]
  /\ job = [h \in Harvests |->
              [pc |-> "idle", sources |-> 0, attempt |-> 0, blocked |-> FALSE, runs |-> <<>>]]
  /\ faults = 0

At(h, pc) == job[h].pc = pc
Goto(h, pc) == job' = [job EXCEPT ![h].pc = pc]

(* A RunManager call: a status that does not allow it raises RunError.     *)
Transition(h, op, next) ==
  IF status[h] \in Lifecycle!Allowed(op)
  THEN /\ status' = [status EXCEPT ![h] = Lifecycle!StatusAfter(op)]
       /\ Goto(h, next)
  ELSE /\ Goto(h, "refused")
       /\ UNCHANGED status

(***************************************************************************)
(* run_harvest, until its sources                                          *)
(***************************************************************************)
Prepare(h, n) ==
  /\ At(h, "idle")
  /\ status' = [status EXCEPT ![h] = "prepared"]
  /\ job' = [job EXCEPT ![h].pc = "prepared", ![h].sources = n]
  /\ UNCHANGED <<used, token, faults>>

Start(h) ==
  /\ At(h, "prepared")
  /\ Transition(h, "start", "charge")
  /\ UNCHANGED <<used, token, faults>>

(***************************************************************************)
(* One source: BudgetLedger.consume, then run_source until it gives a      *)
(* result that is not retried                                              *)
(***************************************************************************)
MoreSources(h) == Len(job[h].runs) < job[h].sources

(* BudgetLedger._check for Usage(calls=1), on the content the lock sees.   *)
WithinBudget == used + 1 <= MaxCalls

Consume(h) ==
  /\ At(h, "charge")
  /\ MoreSources(h)
  /\ WithinBudget
  /\ used' = used + 1
  /\ job' = [job EXCEPT ![h].pc = "call", ![h].attempt = 0]
  /\ UNCHANGED <<status, token, faults>>

(* Trying again until the budget allows the call.                          *)
WaitForBudget(h) ==
  /\ At(h, "charge")
  /\ MoreSources(h)
  /\ ~WithinBudget
  /\ UNCHANGED vars

BudgetExceeded(h) ==
  /\ At(h, "charge")
  /\ MoreSources(h)
  /\ ~WithinBudget
  /\ job' = [job EXCEPT ![h].pc = "checkpoint", ![h].blocked = TRUE]
  /\ UNCHANGED <<used, status, token, faults>>

(* A retry without the attempt limit.                                      *)
RetryAnyTimeout(outcome, attempt) == outcome = "timeout"

(* RetryPolicy.decide, for a result that is neither "ok" nor "empty": only *)
(* a timeout is retryable.                                                 *)
Retry(outcome, attempt) == outcome = "timeout" /\ attempt < MaxAttempts

(* run_source ends within its timeout, with one of the outcomes.  A thread *)
(* it abandons runs on, but nothing reads its result.                      *)
RunSource(h, outcome) ==
  LET attempt == job[h].attempt + 1 IN
  /\ At(h, "call")
  /\ job' = IF Retry(outcome, attempt)
            THEN [job EXCEPT ![h].attempt = attempt]
            ELSE [job EXCEPT ![h].pc = "charge",
                             ![h].attempt = 0,
                             ![h].runs = Append(@, [outcome |-> outcome, attempts |-> attempt])]
  /\ UNCHANGED <<used, status, token, faults>>

(* The results are mapped after the try block of run_source: a row without *)
(* a locator, or with neither title nor snippet, raises out of run_harvest.*)
MappingFails(h) ==
  /\ MappingMayFail
  /\ At(h, "call")
  /\ Goto(h, "raised")
  /\ UNCHANGED <<used, status, token, faults>>

NoMoreSources(h) ==
  /\ At(h, "charge")
  /\ ~MoreSources(h)
  /\ Goto(h, "checkpoint")
  /\ UNCHANGED <<used, status, token, faults>>

(***************************************************************************)
(* After the sources                                                       *)
(***************************************************************************)

CheckpointPayload(h) == job[h].runs

(* checkpoint stores the source results; with none there is no call.       *)
Checkpoint(h) ==
  /\ At(h, "checkpoint")
  /\ IF job[h].runs = <<>>
     THEN /\ Goto(h, "settle")
          /\ UNCHANGED <<status, token>>
     ELSE /\ Transition(h, "checkpoint", "settle")
          /\ token' = IF status[h] \in Lifecycle!Allowed("checkpoint")
                      THEN [token EXCEPT ![h] = CheckpointPayload(h)]
                      ELSE token
  /\ UNCHANGED <<used, faults>>

(* any() for all().                                                        *)
AnyError(runs) == runs # <<>> /\ \E i \in DOMAIN runs : runs[i].outcome = "error"

AllErrors(runs) == runs # <<>> /\ \A i \in DOMAIN runs : runs[i].outcome = "error"

Verdict(h) ==
  IF job[h].blocked THEN "block"
  ELSE IF AllErrors(job[h].runs) THEN "fail_retryable"
  ELSE "complete"

Settle(h) ==
  /\ At(h, "settle")
  /\ Transition(h, Verdict(h), "returned")
  /\ UNCHANGED <<used, token, faults>>

(***************************************************************************)
(* The process dies, or a store call raises (lock timeout, disk error):    *)
(* run_harvest has no handler for either.                                  *)
(***************************************************************************)
Over == {"returned", "raised", "refused", "lost"}

CutShort(h) ==
  /\ job[h].pc \notin Over \cup {"idle"}
  /\ faults < MaxFaults
  /\ faults' = faults + 1
  /\ Goto(h, "lost")
  /\ UNCHANGED <<used, status, token>>

Done ==
  /\ \A h \in Harvests : job[h].pc \in Over
  /\ UNCHANGED vars

Proceed(h) ==
  \/ Start(h)
  \/ Consume(h)
  \/ BudgetExceeded(h)
  \/ \E outcome \in Outcomes : RunSource(h, outcome)
  \/ MappingFails(h)
  \/ NoMoreSources(h)
  \/ Checkpoint(h)
  \/ Settle(h)

Next ==
  \/ \E h \in Harvests :
       \/ \E n \in 1..MaxSources : Prepare(h, n)
       \/ Proceed(h)
       \/ CutShort(h)
  \/ Done

Spec == Init /\ [][Next]_vars

(* run_source returns within its timeout and nothing else waits.           *)
FairSpec == Spec /\ \A h \in Harvests : WF_vars(Proceed(h))

(***************************************************************************)
(* Properties                                                              *)
(***************************************************************************)
(* The (harvest, source) pairs that ran or are running.                    *)
Tried ==
  {try \in Harvests \X (1..MaxSources) :
     try[2] <= Len(job[try[1]].runs) + (IF At(try[1], "call") THEN 1 ELSE 0)}

(* Each source a harvest runs was charged first, so that all the harvests  *)
(* of a workspace together run at most max_calls sources, through crashes  *)
(* and with any interleaving of their charges.                             *)
SourcesAreCharged ==
  /\ Cardinality(Tried) <= used
  /\ used <= MaxCalls

(* A harvest is blocked only when the workspace really has no call left    *)
(* for a source the request still names, and it stays so: the ledger never *)
(* gives a charge back.                                                    *)
BlockedOnlyWhenSpent ==
  \A h \in Harvests :
    status[h] = "blocked" => used = MaxCalls /\ MoreSources(h)

(* A run that reached a verdict keeps, in its checkpoint, the result of    *)
(* every source it tried, in order.                                        *)
SettledRunsAreAccounted ==
  \A h \in Harvests :
    status[h] \in {"completed", "blocked", "failed"} => token[h] = job[h].runs

(* "completed" and "failed" are verdicts on the whole request: every       *)
(* source was tried, and "failed" is kept for a run where all errored.     *)
VerdictsCoverTheRequest ==
  \A h \in Harvests :
    /\ status[h] \in {"completed", "failed"} => ~MoreSources(h)
    /\ status[h] = "failed"    => \A i \in DOMAIN job[h].runs : job[h].runs[i].outcome = "error"
    /\ status[h] = "completed" => \E i \in DOMAIN job[h].runs : job[h].runs[i].outcome # "error"

(* run_harvest never makes a transition RunManager refuses: it checkpoints *)
(* once, whatever the number of sources (module docstring).                *)
NeverRefused == \A h \in Harvests : ~At(h, "refused")

(* A verdict is earned and accounted for: charges, the ledger's limit, the *)
(* checkpoint and the status of every harvest of the workspace agree,      *)
(* whatever their interleaving and wherever one is cut short               *)
(* (run_harvest).                                                          *)
VerdictsAreAccounted ==
  /\ SourcesAreCharged /\ BlockedOnlyWhenSpent /\ SettledRunsAreAccounted
  /\ VerdictsCoverTheRequest /\ NeverRefused

(* A harvest that is prepared ends, and its run does not stay "started"    *)
(* but where the harvest was cut short or a row could not be mapped.       *)
EveryHarvestSettles ==
  \A h \in Harvests :
    status[h] = "prepared" ~>
      (status[h] \in {"completed", "blocked", "failed"} \/ job[h].pc \in {"raised", "lost"})

(* As run_source's docstring has it: a source-side failure is a result,    *)
(* never an exception.                                                     *)
SourceFailuresAreResults == \A h \in Harvests : ~At(h, "raised")
=============================================================================
