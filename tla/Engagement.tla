----------------------------- MODULE Engagement -----------------------------
(***************************************************************************)
(* From an inbound event to the pipeline: engagement_policy, _ingestion,   *)
(* _classification, _inbox and _opportunity, then opportunity_policy,      *)
(* opportunity_notes and opportunity_store.  The constructors and moves    *)
(* are pure: people compute them on what they read and put the records     *)
(* later, whole and without a version.                                     *)
(***************************************************************************)
EXTENDS Naturals, FiniteSets

CONSTANTS
  Agents,        \* people at work
  SourceRefs,    \* what identifies an inbound event at its source
  Meetings,      \* those of kind meeting_booked
  EventIds,      \* engagement_event_id, given by the caller of ingestion
  MaxPuts        \* bound on the records put

NoRef == "none"

ASSUME EngagementAssumption ==
  /\ Meetings \subseteq SourceRefs
  /\ NoRef \notin SourceRefs
  /\ MaxPuts \in Nat

VARIABLES
  inbox,         \* inbox[e]: the source_ref of stored event e
  conversation,  \* its status
  objection,     \* the objection drawn from an event of the conversation
  lead,          \* status of the lead
  stage,         \* status of its opportunity
  work,          \* work[a]: what a read and made of it, not put yet
  trail          \* history, see EngagementInit

engagementVars == <<inbox, conversation, objection, lead, stage, work, trail>>

InboundKinds == {"replied", "meeting_booked", "opted_out", "bounced"}
Moves ==
  {<<"draft", "discovery">>, <<"discovery", "proof">>, <<"proof", "proposal">>,
   <<"proposal", "closed_won">>, <<"proposal", "closed_lost">>}
Stages == {move[1] : move \in Moves} \cup {move[2] : move \in Moves}
Closed == {"closed_won", "closed_lost"}

ExitCriteria(next) ==
  CASE next = "discovery" -> {"lead_converted"}
    [] next = "proof" -> {"discovery_recorded", "stakeholders_confirmed"}
    [] next = "proposal" -> {"proof_completed", "success_criteria_met"}
    [] next = "closed_won" -> {"commercial_decision_recorded", "customer_acceptance_recorded"}
    [] next = "closed_lost" -> {"commercial_decision_recorded", "loss_reason_recorded"}

Inboxes == [EventIds -> SourceRefs \cup {NoRef}]
Objections == [status : {"none", "draft", "reviewed"}, confident : BOOLEAN]
LeadStatuses == {"new", "qualified", "converted"}
Resting == [doc |-> "none"]

EngagementTypeOK ==
  /\ inbox \in Inboxes
  /\ conversation \in {"open", "closed"}
  /\ objection \in Objections
  /\ lead \in LeadStatuses
  /\ stage \in Stages \cup {"none"}
  /\ \A a \in Agents : work[a] = Resting \/ work[a].doc \in {"inbox", "stage"}
  /\ trail.puts \in 0..MaxPuts

EngagementInit ==
  /\ inbox = [e \in EventIds |-> NoRef]
  /\ conversation = "open"
  /\ objection = [status |-> "none", confident |-> FALSE]
  /\ lead = "new"
  /\ stage = "none"
  /\ work = [a \in Agents |-> Resting]
  /\ trail = [puts |-> 0,
              twice |-> FALSE,      \* events were put over an inbox not read
              overlapped |-> FALSE, \* a stage was put over one not read
              reversed |-> FALSE]   \* a closed opportunity changed its stage

Spend == trail.puts < MaxPuts

(***************************************************************************)
(* Events                                                                  *)
(***************************************************************************)
Inbound(kind) == kind \in InboundKinds

Known(events, ref) == \E e \in EventIds : events[e] = ref

(* Every record of the batch, the same source or not.                      *)
IngestedAgain(events, ref, e) == [events EXCEPT ![e] = ref]

(* A source already among the existing events is returned as it is.        *)
Ingested(events, ref, e) ==
  IF Known(events, ref) THEN events ELSE [events EXCEPT ![e] = ref]

ReadInbox(a) ==
  /\ work[a] = Resting
  /\ work' = [work EXCEPT ![a] = [doc |-> "inbox", read |-> inbox]]
  /\ UNCHANGED <<inbox, conversation, objection, lead, stage, trail>>

(* ingest_batch of two records, each looked up in the events read and in   *)
(* those the batch created; the created ones are put.  A send is no event. *)
IngestBatch(a, first, second) ==
  /\ work[a].doc = "inbox"
  /\ Spend
  /\ \A ref \in {first, second} :
       Inbound(IF ref \in Meetings THEN "meeting_booked" ELSE "replied")
  /\ \E d, e \in EventIds :
       /\ d # e /\ inbox[d] = NoRef /\ inbox[e] = NoRef
       /\ LET events == Ingested(Ingested(work[a].read, first, d), second, e)
          IN inbox' = [i \in EventIds |->
                         IF events[i] # work[a].read[i] THEN events[i] ELSE inbox[i]]
  /\ trail' = [trail EXCEPT !.puts = @ + 1, !.twice = @ \/ work[a].read # inbox]
  /\ work' = [work EXCEPT ![a] = Resting]
  /\ UNCHANGED <<conversation, objection, lead, stage>>

(***************************************************************************)
(* Conversations and objections                                            *)
(***************************************************************************)
CloseConversation ==
  /\ conversation = "open"
  /\ conversation' = "closed"
  /\ UNCHANGED <<inbox, objection, lead, stage, work, trail>>

(* Always a draft, whatever the confidence.                                *)
ClassifyObjection(ref, confident) ==
  /\ Known(inbox, ref)
  /\ objection.status = "none"
  /\ objection' = [status |-> "draft", confident |-> confident]
  /\ UNCHANGED <<inbox, conversation, lead, stage, work, trail>>

ReviewObjection ==
  /\ objection.status = "draft"
  /\ objection' = [objection EXCEPT !.status = "reviewed"]
  /\ UNCHANGED <<inbox, conversation, lead, stage, work, trail>>

NeedsHumanReview(o) == o.status = "draft" /\ ~o.confident
CanActOn(o) == o.status = "reviewed" \/ o.confident
InInbox == conversation = "open" /\ NeedsHumanReview(objection)

(***************************************************************************)
(* Leads and opportunities                                                 *)
(***************************************************************************)
(* Asks for nothing but a fit and an active plan.                          *)
QualifyLeadEarly(fitVerdict, planStatus, ref) ==
  /\ fitVerdict = "PURSUE"
  /\ planStatus = "active"
  /\ lead' = "qualified"
  /\ UNCHANGED <<inbox, conversation, objection, stage, work, trail>>

(* The status of the lead is not asked: a converted lead may be qualified  *)
(* again.                                                                  *)
QualifyLead(fitVerdict, planStatus, ref) ==
  /\ fitVerdict = "PURSUE"
  /\ planStatus = "active"
  /\ ref \in Meetings /\ Known(inbox, ref)
  /\ lead' = "qualified"
  /\ UNCHANGED <<inbox, conversation, objection, stage, work, trail>>

ConvertLead ==
  /\ lead = "qualified"
  /\ lead' = "converted"
  /\ UNCHANGED <<inbox, conversation, objection, stage, work, trail>>

(* validate_opportunity_links: of a lead already converted it raises.      *)
LinksValid(leadStatus, sameWorkspace, sameLineage) ==
  leadStatus = "qualified" /\ sameWorkspace /\ sameLineage

CreateOpportunity(sameWorkspace, sameLineage) ==
  /\ stage = "none"
  /\ LinksValid(lead, sameWorkspace, sameLineage)
  /\ stage' = "draft"
  /\ UNCHANGED <<inbox, conversation, objection, lead, work, trail>>

(* transition_opportunity on the record read; criteria are the caller's,   *)
(* with those of the decisions recorded in the notes.                      *)
Advance(a, next, criteria) ==
  /\ work[a] = Resting
  /\ <<stage, next>> \in Moves
  /\ ExitCriteria(next) \subseteq criteria
  /\ work' = [work EXCEPT ![a] = [doc |-> "stage", read |-> stage, next |-> next]]
  /\ UNCHANGED <<inbox, conversation, objection, lead, stage, trail>>

PutOpportunity(a) ==
  /\ work[a].doc = "stage"
  /\ Spend
  /\ stage' = work[a].next
  /\ trail' = [trail EXCEPT !.puts = @ + 1,
                            !.overlapped = @ \/ work[a].read # stage,
                            !.reversed = @ \/ (stage \in Closed /\ stage' # stage)]
  /\ work' = [work EXCEPT ![a] = Resting]
  /\ UNCHANGED <<inbox, conversation, objection, lead>>

CriteriaSets == {{}} \cup {ExitCriteria(move[2]) : move \in Moves}

EngagementNext ==
  \/ CloseConversation
  \/ \E ref \in SourceRefs, confident \in BOOLEAN : ClassifyObjection(ref, confident)
  \/ ReviewObjection
  \/ \E verdict \in {"PURSUE", "HOLD"}, plan \in {"draft", "active"}, ref \in SourceRefs :
       QualifyLead(verdict, plan, ref)
  \/ ConvertLead
  \/ \E sameWorkspace, sameLineage \in BOOLEAN : CreateOpportunity(sameWorkspace, sameLineage)
  \/ \E a \in Agents :
       \/ ReadInbox(a)
       \/ \E first, second \in SourceRefs : IngestBatch(a, first, second)
       \/ \E next \in Stages, criteria \in CriteriaSets : Advance(a, next, criteria)
       \/ PutOpportunity(a)

(***************************************************************************)
(* Properties                                                              *)
(***************************************************************************)
(* Re-importing a file, or a file that repeats itself, records each        *)
(* inbound event once, unless two imports read the inbox at the same time. *)
OneEventPerSource ==
  \A d, e \in EventIds : d # e /\ inbox[d] = inbox[e] => inbox[d] = NoRef \/ trail.twice

(* A meeting alone never creates a pipeline record, and nothing else does  *)
(* without one: whatever order people ingest, qualify and create in, an    *)
(* opportunity has a booked meeting among the stored events.               *)
PipelineRestsOnAMeeting ==
  stage # "none" => \E ref \in Meetings : Known(inbox, ref)

(* Won or lost is final, unless two people moved the same opportunity on.  *)
ClosedStaysClosed == trail.reversed => trail.overlapped
=============================================================================
