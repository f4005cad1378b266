--------------------------- MODULE ResearchCases ---------------------------
(***************************************************************************)
(* One research case of a workspace: research_queue.py, research_review.py *)
(* and research_policy.py applied by people who each read the case         *)
(* (get_case), compute on their copy and later put the whole record back   *)
(* (put_case, which compares no version), with the claims the case rests   *)
(* on and the journal.  Reading and computing are one step, in which the   *)
(* call may journal; putting is another, and a person, or the process, may *)
(* stop between the two.  A call that raises changes nothing: it is a step *)
(* that cannot be taken.                                                   *)
(***************************************************************************)
EXTENDS Naturals, FiniteSets, EventJournal

CONSTANTS
  People,       \* owners and reviewers
  NoOne,        \* no owner
  Reasons,      \* the reasons blockers are opened for
  ClaimPool,    \* the claims research may come up with
  MaxBlockers,  \* bound on the open blockers of a case for one reason
  MaxWrites,    \* bound on the calls of put_case
  MaxEvents     \* bound on the events of the journal

ASSUME CaseAssumption ==
  /\ NoOne \notin People
  /\ MaxBlockers \in Nat
  /\ MaxWrites \in Nat
  /\ MaxEvents \in Nat

VARIABLES
  stored,   \* the record in cases.jsonl
  copy,     \* copy[p]: what p read and what p made of it, until put back
  claims,   \* the active claims of the case
  journal,
  history   \* what the code does not keep: see HistoryAfter

caseVars == <<stored, copy, claims, journal, history>>

CaseStatuses == {"open", "in_progress", "blocked", "in_review", "accepted", "reopened", "stale"}

CaseTransitions ==
  {<<"open", "in_progress">>, <<"open", "blocked">>,
   <<"in_progress", "blocked">>, <<"in_progress", "in_review">>,
   <<"blocked", "in_progress">>,
   <<"in_review", "accepted">>, <<"in_review", "reopened">>, <<"in_review", "in_progress">>,
   <<"accepted", "stale">>, <<"reopened", "in_progress">>, <<"reopened", "blocked">>,
   <<"stale", "reopened">>}

(* by: the reviewer of the last acceptance, which the code keeps in the    *)
(* journal only.                                                           *)
Cases == [status : CaseStatuses, owner : People \cup {NoOne},
          open : [Reasons -> 0..MaxBlockers], by : People \cup {NoOne}]

OpenBlockers(case) == {r \in Reasons : case.open[r] > 0}

CanTransition(case, status) ==
  /\ status = "accepted" => OpenBlockers(case) = {}
  /\ <<case.status, status>> \in CaseTransitions

(***************************************************************************)
(* Claims                                                                  *)
(***************************************************************************)
Claims == [type : {"fact", "inference", "hypothesis"},
           grades : SUBSET {"N0", "graded"},    \* of its evidence
           derived : BOOLEAN,                   \* from another claim
           planned : BOOLEAN]                   \* with hypothesis owner and due date

ASSUME ClaimAssumption == ClaimPool \subseteq Claims

ValidLineage(claim) ==
  \/ claim.type = "fact" /\ "graded" \in claim.grades
  \/ claim.type = "inference" /\ (claim.grades # {} \/ claim.derived)
  \/ claim.type = "hypothesis" /\ claim.planned

Complete(active) == \E claim \in active : claim.type = "fact"

(* One claim of each type is enough for what the case asks of its claims.  *)
Fact == [type |-> "fact", grades |-> {"graded"}, derived |-> FALSE, planned |-> FALSE]
Hearsay == [Fact EXCEPT !.grades = {"N0"}]
Hypothesis == [type |-> "hypothesis", grades |-> {}, derived |-> TRUE, planned |-> TRUE]

CaseTypeOK ==
  /\ stored \in Cases
  /\ copy \in [People -> [changed : BOOLEAN, base : Cases, case : Cases]]
  /\ claims \subseteq Claims
  /\ \A i \in DOMAIN journal : journal[i].splits \in BOOLEAN
  /\ history.puts \in 0..MaxWrites
  /\ history.owners \subseteq People
  /\ history.raised \subseteq Reasons

(* A case just opened, or one that others brought to review.               *)
NewCase == [status |-> "open", owner |-> NoOne, open |-> [r \in Reasons |-> 0], by |-> NoOne]
NoCopy == [changed |-> FALSE, base |-> NewCase, case |-> NewCase]

CaseInit ==
  /\ stored \in {[NewCase EXCEPT !.status = status] : status \in {"open", "in_review"}}
  /\ copy = [p \in People |-> NoCopy]
  /\ claims = {}
  /\ journal = <<>>
  /\ history = [puts |-> 0, owners |-> {}, released |-> FALSE, raised |-> {}, overlapped |-> FALSE]

(***************************************************************************)
(* Reading and writing the record                                          *)
(***************************************************************************)
(* What was asked of the case so far: who owned it, whether it was         *)
(* released, which blockers were raised and not resolved, and whether a    *)
(* record was written over one its writer had not read.                    *)
HistoryAfter(base, case) ==
  [puts |-> history.puts + 1,
   owners |-> history.owners \cup ({case.owner} \ {NoOne}),
   released |-> history.released \/ (base.owner # NoOne /\ case.owner = NoOne),
   raised |-> (history.raised \cup OpenBlockers(case)) \ (OpenBlockers(base) \ OpenBlockers(case)),
   overlapped |-> history.overlapped \/ stored # base]

PutCase(p) ==
  /\ copy[p].changed
  /\ history.puts < MaxWrites
  /\ stored' = copy[p].case
  /\ history' = HistoryAfter(copy[p].base, copy[p].case)
  /\ copy' = [copy EXCEPT ![p] = NoCopy]
  /\ UNCHANGED <<claims, journal>>

(* get_case, and what a function made of the record: another call of p     *)
(* forgets a copy that was not put.                                        *)
Change(p, case) ==
  /\ copy' = [copy EXCEPT ![p] = [changed |-> TRUE, base |-> stored, case |-> case]]
  /\ UNCHANGED <<stored, claims, history>>

ChangeQuietly(p, case) == Change(p, case) /\ UNCHANGED journal

(***************************************************************************)
(* research_queue.py                                                       *)
(***************************************************************************)
ClaimOwnership(p, case) ==
  /\ case.owner \in {NoOne, p}
  /\ ChangeQuietly(p, [case EXCEPT !.owner = p])

ReleaseOwnership(p, case) == ChangeQuietly(p, [case EXCEPT !.owner = NoOne])

(* A status no other function knows.                                       *)
WithMisspeltBlocker(case, r) == [case EXCEPT !.open[r] = @ + 1, !.status = "Blocked"]

(* The status becomes blocked whatever it was: no transition is asked for. *)
WithBlocker(case, r) == [case EXCEPT !.open[r] = @ + 1, !.status = "blocked"]

AddBlocker(p, case, r) ==
  /\ case.open[r] < MaxBlockers
  /\ ChangeQuietly(p, WithBlocker(case, r))

ResolveBlocker(p, case, r) ==
  ChangeQuietly(p, [case EXCEPT !.open[r] = IF @ > 0 THEN @ - 1 ELSE @])

ResumeCase(p, case) ==
  /\ case.status = "blocked"
  /\ OpenBlockers(case) = {}
  /\ ChangeQuietly(p, [case EXCEPT !.status = "in_progress"])

(* No function of the code moves a case into progress or into review: a    *)
(* caller asks can_transition_case and writes the status itself.           *)
Advance(p, case, status) ==
  /\ status \in {"in_progress", "in_review"}
  /\ CanTransition(case, status)
  /\ ChangeQuietly(p, [case EXCEPT !.status = status])

(***************************************************************************)
(* research_review.py: each journals first and returns the changed case    *)
(***************************************************************************)
Room == Len(journal) < MaxEvents

Journaled(p, case, type, key, splits) ==
  /\ CanAppend(journal, key)
  /\ Room \/ Found(journal, key)
  /\ journal' = Appended(journal, [type |-> type, key |-> key, splits |-> splits])
  /\ Change(p, case)

(* Returning the accepted case with nothing appended.                      *)
AcceptInSilence(p, case) ==
  /\ p # case.owner
  /\ CanTransition(case, "accepted")
  /\ Complete(claims)
  /\ ChangeQuietly(p, [case EXCEPT !.status = "accepted", !.by = p])

(* The owner signing off on their own research.                            *)
AcceptOwn(p, case) ==
  /\ CanTransition(case, "accepted")
  /\ Complete(claims)
  /\ Journaled(p, [case EXCEPT !.status = "accepted", !.by = p],
               "ResearchCaseAccepted", "research-case-accepted", FALSE)

(* The event carries identifiers and the reviewer only.                    *)
Accept(p, case) ==
  /\ p # case.owner
  /\ CanTransition(case, "accepted")
  /\ Complete(claims)
  /\ Journaled(p, [case EXCEPT !.status = "accepted", !.by = p],
               "ResearchCaseAccepted", "research-case-accepted", FALSE)

(* The reason is free text, copied into the event.                         *)
Reopen(p, case, splits) ==
  /\ CanTransition(case, "reopened")
  /\ Journaled(p, [case EXCEPT !.status = "reopened"], "ResearchCaseReopened", NoKey, splits)

MarkStale(p, case, splits) ==
  /\ CanTransition(case, "stale")
  /\ Journaled(p, [case EXCEPT !.status = "stale"], "ResearchCaseMarkedStale", NoKey, splits)

(***************************************************************************)
(* Around the case                                                         *)
(***************************************************************************)
(* signal_handoff.queue_research, on the linked signal the case comes      *)
(* from: the second call appends nothing.                                  *)
QueueResearch ==
  /\ CanAppend(journal, "research-queued")
  /\ Room \/ Found(journal, "research-queued")
  /\ journal' = Appended(journal, [type |-> "ResearchQueued",
                                   key |-> "research-queued", splits |-> FALSE])
  /\ UNCHANGED <<stored, copy, claims, history>>

RecordClaim(claim) ==
  /\ ValidLineage(claim)
  /\ claims' = claims \cup {claim}
  /\ UNCHANGED <<stored, copy, journal, history>>

RetireClaim(claim) ==
  /\ claims' = claims \ {claim}
  /\ UNCHANGED <<stored, copy, journal, history>>

Work(p) ==
  LET case == stored
  IN \/ ClaimOwnership(p, case)
     \/ ReleaseOwnership(p, case)
     \/ \E r \in Reasons : AddBlocker(p, case, r)
     \/ \E r \in Reasons : ResolveBlocker(p, case, r)
     \/ ResumeCase(p, case)
     \/ \E status \in CaseStatuses : Advance(p, case, status)
     \/ Accept(p, case)
     \/ \E splits \in BOOLEAN : Reopen(p, case, splits)
     \/ \E splits \in BOOLEAN : MarkStale(p, case, splits)

CaseNext ==
  \/ \E p \in People : PutCase(p)
  \/ \E p \in People : Work(p)
  \/ QueueResearch
  \/ \E claim \in ClaimPool : RecordClaim(claim)
  \/ \E claim \in ClaimPool : RetireClaim(claim)

CaseSpec == CaseInit /\ [][CaseNext]_caseVars

(***************************************************************************)
(* Properties                                                              *)
(***************************************************************************)
(* An accepted case is an audited one: whoever replays the journal finds   *)
(* its acceptance, whichever of journal and store a crash left behind and  *)
(* whatever text was written into the journal.                             *)
AcceptedOnRecord ==
  stored.status = "accepted" =>
    \E i \in DOMAIN Replayed(journal) : journal[i].type = "ResearchCaseAccepted"

(* Separation of duties over the life of a case, not only on the copy the  *)
(* reviewer holds: someone who ever owned it may accept it only after an   *)
(* ownership was released, or where a copy was put over a record nobody    *)
(* had read.                                                               *)
OwnersDoNotAccept ==
  [][stored'.status = "accepted" /\ stored.status # "accepted"
       => \/ stored'.by \notin history.owners
          \/ history'.released
          \/ history'.overlapped]_caseVars

(* A blocker somebody raised and nobody resolved keeps the case from being *)
(* accepted, unless a copy was put over the record that held it.           *)
RaisedBlockersHold ==
  stored.status = "accepted" => history.raised = {} \/ history.overlapped
=============================================================================
