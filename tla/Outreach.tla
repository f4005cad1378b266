------------------------------ MODULE Outreach ------------------------------
(***************************************************************************)
(* One sequence of reach with its task and step, the touchpoints made for  *)
(* the step, and what an inbound event does to it: reach_queue,            *)
(* reach_execution, reach_scheduler, reach_channel_policy and _adapter,    *)
(* reach_message_policy and engagement_inbox over reach_store, whose put_* *)
(* write whole records and compare no version.  People read, compute, and  *)
(* put later; a cancelled sequence, its tasks and its steps are put one by *)
(* one.                                                                    *)
(***************************************************************************)
EXTENDS Naturals, FiniteSets

CONSTANTS
  Reps,           \* people at work
  MaxTouchpoints, \* bound on the touchpoints made
  Quota,          \* daily_quota of the channel
  MaxPicks        \* bound on the tasks taken from a day's queue

ASSUME OutreachAssumption ==
  /\ IsFiniteSet(Reps) /\ Reps # {}
  /\ MaxTouchpoints \in Nat
  /\ Quota \in Nat

VARIABLES
  sequence, task, step,   \* statuses of the stored records
  channel,                \* of the step
  touch,                  \* how many touchpoints are prepared, how many sent
  message,                \* status of the message of the step
  rep,                    \* rep[r]: what r has in hand
  desk,                   \* desk[r]: changes to the sequence r has not put yet
  tally                   \* history, see OutreachInit

outreachVars == <<sequence, task, step, channel, touch, message, rep, desk, tally>>
reachVars == <<touch, message, rep, channel>>
records == <<sequence, task, step>>

Kinds == {"replied", "meeting_booked", "opted_out", "bounced"}
SequenceStatuses == {"draft", "active", "paused", "cancelled", "completed"}
TerminalTask == {"done", "skipped"}
TerminalStep == {"sent", "skipped", "cancelled"}
Channels == {"email", "phone", "manual", "linkedin"}

Records == [sequence : SequenceStatuses, task : TerminalTask \cup {"open"},
            step : TerminalStep \cup {"pending"}]
Idle == [picked |-> FALSE, late |-> FALSE, cleared |-> FALSE]

OutreachTypeOK ==
  /\ [sequence |-> sequence, task |-> task, step |-> step] \in Records
  /\ channel \in Channels
  /\ touch \in [prepared : 0..MaxTouchpoints, sent : 0..MaxTouchpoints]
  /\ message \in {"draft", "approved"}
  /\ rep \in [Reps -> [picked : BOOLEAN, late : BOOLEAN, cleared : BOOLEAN]]
  /\ desk \in [Reps -> [todo : SUBSET DOMAIN [sequence |-> 0, task |-> 0, step |-> 0],
                        new : Records, base : Records]]

Stored == [sequence |-> sequence, task |-> task, step |-> step]
NoChange(r) == [todo |-> {}, new |-> r, base |-> r]

OutreachInit ==
  /\ sequence \in {"draft", "active", "completed"}
  /\ task = IF sequence = "completed" THEN "done" ELSE "open"
  /\ step = "pending"
  /\ channel \in {"email", "linkedin"}
  /\ touch = [prepared |-> 0, sent |-> 0]
  /\ message = "draft"
  /\ rep = [r \in Reps |-> Idle]
  /\ desk = [r \in Reps |-> NoChange(Stored)]
  /\ tally = [picks |-> 0,
              cancelled |-> FALSE,   \* a cancellation was put
              lateSend |-> FALSE,    \* a send by one who took the task after that
              raced |-> FALSE,       \* the sequence was put over one not read
              twice |-> FALSE]       \* an event was put over an inbox not read

(***************************************************************************)
(* Messages and touchpoints                                                *)
(***************************************************************************)
(* Every citation must quote a claim active at approval; a claim retired   *)
(* later does not take the approval back.                                  *)
ApproveMessage(citations, activeClaims) ==
  /\ message = "draft"
  /\ citations \subseteq activeClaims
  /\ message' = "approved"
  /\ UNCHANGED <<records, channel, touch, rep, desk, tally>>

(* A day's queue that keeps the tasks of stopped sequences.                *)
MyDayOfAll == task \notin TerminalTask

(* build_my_day: open tasks of sequences active or paused.                 *)
MyDay == task \notin TerminalTask /\ sequence \in {"active", "paused"}

Pick(r) ==
  /\ MyDay
  /\ ~rep[r].picked /\ tally.picks < MaxPicks
  /\ rep' = [rep EXCEPT ![r] = [Idle EXCEPT !.picked = TRUE, !.late = tally.cancelled]]
  /\ tally' = [tally EXCEPT !.picks = @ + 1]
  /\ UNCHANGED <<records, channel, touch, message, desk>>

(* A touchpoint is created prepared, whatever became of step and sequence. *)
PrepareTouchpoint(r) ==
  /\ rep[r].picked
  /\ message = "approved"
  /\ touch.prepared + touch.sent < MaxTouchpoints
  /\ touch' = [touch EXCEPT !.prepared = @ + 1]
  /\ UNCHANGED <<records, channel, message, rep, desk, tally>>

(* count_sent_today, within one day.                                       *)
WithinQuota == touch.sent < Quota

(* evaluate_schedule answers on the events it is given; the send that      *)
(* follows is another step.                                                *)
EvaluateSchedule(r, inWindow) ==
  /\ rep[r].picked
  /\ inWindow /\ WithinQuota
  /\ rep' = [rep EXCEPT ![r].cleared = TRUE]
  /\ UNCHANGED <<records, channel, touch, message, desk, tally>>

CanSendVia(c) == c # "linkedin"

SendTouchpoint(r) ==
  /\ rep[r].cleared
  /\ touch.prepared > 0
  /\ CanSendVia(channel)
  /\ touch' = [prepared |-> touch.prepared - 1, sent |-> touch.sent + 1]
  /\ tally' = [tally EXCEPT !.lateSend = @ \/ rep[r].late]
  /\ rep' = [rep EXCEPT ![r] = Idle]
  /\ UNCHANGED <<records, channel, message, desk>>

(***************************************************************************)
(* The sequence                                                            *)
(***************************************************************************)
(* A status the queues do not know.                                        *)
Held(s) == [s EXCEPT !.sequence = "held"]

Paused(s) == [s EXCEPT !.sequence = "paused"]
Resumed(s) == [s EXCEPT !.sequence = "active"]

(* What is terminal stays as it is.                                        *)
Cancelled(s) ==
  [sequence |-> "cancelled",
   task |-> IF s.task \in TerminalTask THEN s.task ELSE "skipped",
   step |-> IF s.step \in TerminalStep THEN s.step ELSE "cancelled"]

Compute(r, new) ==
  /\ desk[r].todo = {}
  /\ new # Stored
  /\ desk' = [desk EXCEPT ![r] = [todo |-> {f \in DOMAIN new : new[f] # Stored[f]},
                                  new |-> new, base |-> Stored]]
  /\ UNCHANGED <<records, reachVars, tally>>

Resume(r) == sequence = "paused" /\ Compute(r, Resumed(Stored))

CancellationPossible == sequence \in {"draft", "active", "paused"}

(* apply_engagement_to_sequence: an opt-out cancels, and raises on a       *)
(* completed sequence; the other kinds pause, do nothing on a stopped      *)
(* sequence, and raise on a draft.                                         *)
ApplyEvent(r, kind) ==
  \/ kind = "opted_out" /\ CancellationPossible /\ Compute(r, Cancelled(Stored))
  \/ kind # "opted_out" /\ sequence = "active" /\ Compute(r, Paused(Stored))

(* One put_sequence, put_task or put_step of what was computed.            *)
Put(r, field) ==
  /\ field \in desk[r].todo
  /\ desk' = [desk EXCEPT ![r].todo = @ \ {field}]
  /\ LET value == desk[r].new[field]
     IN /\ sequence' = IF field = "sequence" THEN value ELSE sequence
        /\ task' = IF field = "task" THEN value ELSE task
        /\ step' = IF field = "step" THEN value ELSE step
  /\ tally' = [tally EXCEPT !.cancelled = @ \/ sequence' = "cancelled",
                            !.raced = @ \/ (field = "sequence" /\ sequence # desk[r].base.sequence)]
  /\ UNCHANGED <<reachVars>>

OutreachNext ==
  \/ \E activeClaims \in SUBSET {"claim"} : ApproveMessage({"claim"}, activeClaims)
  \/ \E r \in Reps :
       \/ Pick(r)
       \/ PrepareTouchpoint(r)
       \/ SendTouchpoint(r)
       \/ \E inWindow \in BOOLEAN : EvaluateSchedule(r, inWindow)
       \/ Resume(r)
       \/ \E kind \in Kinds : ApplyEvent(r, kind)
       \/ \E field \in DOMAIN Stored : Put(r, field)

(***************************************************************************)
(* Properties                                                              *)
(***************************************************************************)
(* send_touchpoint asks neither the step nor the sequence, so what was in  *)
(* hand when somebody opted out may still go; but nobody who opened their  *)
(* day after the cancellation writes to a person who opted out, unless a   *)
(* pause or a resume was put over the cancellation.                        *)
OnlyWorkInHandOutlivesOptOut == tally.lateSend => tally.raced

(* The quota is asked before each send and not at it: a day's sends exceed *)
(* it by the other people sending at most.                                 *)
QuotaOverrunBounded == touch.sent <= Quota + Cardinality(Reps) - 1

=============================================================================
