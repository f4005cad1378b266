--------------------------- MODULE OutreachProofs ---------------------------
(***************************************************************************)
(* MCOutreach, for any number of people, quota and journal: outreach,      *)
(* engagement and learning share no variable, so each has its own          *)
(* inductive invariant.                                                    *)
(***************************************************************************)
EXTENDS MCOutreach, FiniteSetTheorems, SequenceTheorems, TLAPS

(***************************************************************************)
(* Outreach                                                                *)
(***************************************************************************)
Tallies == [picks : Nat, cancelled : BOOLEAN, lateSend : BOOLEAN,
            raced : BOOLEAN, twice : BOOLEAN]

Cleared == {r \in Reps : rep[r].cleared}

Quoted == touch.sent + Cardinality(Cleared) <= Quota + Cardinality(Reps) - 1

(* A cancelled sequence stays so and nobody computes a change of one,      *)
(* hence whoever took a task late took it from a sequence put over the     *)
(* cancellation.  Every clearance counts as a send: it was given below the *)
(* quota.                                                                  *)
OutreachInv ==
  /\ OutreachTypeOK
  /\ tally \in Tallies
  /\ tally.cancelled => tally.raced \/ sequence = "cancelled"
  /\ \A r \in Reps : "sequence" \in desk[r].todo => desk[r].base.sequence # "cancelled"
  /\ \A r \in Reps : rep[r].late => tally.raced
  /\ tally.lateSend => tally.raced
  /\ touch.prepared + touch.sent <= MaxTouchpoints
  /\ Quoted

(***************************************************************************)
(* Engagement                                                              *)
(***************************************************************************)
Works == [doc : {"none"}] \cup [doc : {"inbox"}, read : Inboxes]
         \cup [doc : {"stage"}, read : Stages \cup {"none"}, next : Stages]

Trails == [puts : 0..MaxPuts, twice : BOOLEAN, overlapped : BOOLEAN, reversed : BOOLEAN]

MeetingKnown == \E ref \in Meetings : Known(inbox, ref)

Distinct(events) ==
  \A d, e \in EventIds : d # e /\ events[d] = events[e] => events[d] = NoRef

(* A qualified lead, an opportunity and a move of one in hand all came     *)
(* after a meeting was recorded; what is in hand is a move of the diagram. *)
EngagementInv ==
  /\ EngagementTypeOK
  /\ trail \in Trails
  /\ work \in [Agents -> Works]
  /\ \A a \in Agents :
       work[a].doc = "stage" => MeetingKnown /\ <<work[a].read, work[a].next>> \in Moves
  /\ lead # "new" => MeetingKnown
  /\ stage # "none" => MeetingKnown
  /\ trail.twice \/ Distinct(inbox)
  /\ trail.reversed => trail.overlapped

(***************************************************************************)
(* Learning                                                                *)
(***************************************************************************)
Entries == [type : ProposalStatuses, key : {NoKey}, splits : BOOLEAN]

LearningRecords == [begun : 0..MaxMoves, overlapped : BOOLEAN, cut : BOOLEAN]

(* What the file has been, when it moved along the diagram.                *)
Passed(status) ==
  CASE status = "absent" -> {}
    [] status = "draft" -> {"draft"}
    [] status = "in_review" -> {"draft", "in_review"}
    [] status \in {"accepted", "rejected"} -> {"draft", "in_review", status}
    [] status = "testing" -> {"draft", "in_review", "accepted", "testing"}
    [] OTHER -> {"draft", "in_review", "accepted", "testing", "measured"}

(* Calls move the file they read along the diagram; a status is in the     *)
(* journal, or is about to be, only once the file had it; and the status   *)
(* of the file is there or is about to be.                                 *)
LearningInv ==
  /\ LearningTypeOK
  /\ minutes \in Seq(Entries)
  /\ record \in LearningRecords
  /\ \A c \in Curators :
       curating[c].pc # "idle" =>
         <<curating[c].read.status, curating[c].new.status>>
           \in ProposalMoves \cup {<<"absent", "draft">>}
  /\ ~record.overlapped =>
       /\ \A i \in DOMAIN minutes : minutes[i].type \in Passed(proposal.status)
       /\ \A c \in Curators :
            curating[c].pc = "append" => curating[c].new.status \in Passed(proposal.status)
  /\ proposal.status # "absent" =>
       \/ record.cut
       \/ Journaled(proposal.status)
       \/ \E c \in Curators :
            curating[c].pc = "append" /\ curating[c].new.status = proposal.status

LEMMA OutreachInitInv == OutreachInit => OutreachInv
<1> SUFFICES ASSUME OutreachInit PROVE OutreachInv
  OBVIOUS
<1> USE OutreachAssumption
<1>1. Stored \in Records
  BY DEF OutreachInit, Stored, Records, SequenceStatuses, TerminalTask, TerminalStep
<1>2. rep \in [Reps -> [picked : BOOLEAN, late : BOOLEAN, cleared : BOOLEAN]]
  BY DEF OutreachInit, Idle
<1>3. desk \in [Reps -> [todo : SUBSET DOMAIN [sequence |-> 0, task |-> 0, step |-> 0],
                         new : Records, base : Records]]
  <2> DEFINE r == Stored
  <2> HIDE DEF r
  <2>1. desk = [a \in Reps |-> [todo |-> {}, new |-> r, base |-> r]]
    BY DEF OutreachInit, NoChange, r
  <2> QED
    BY <1>1, <2>1 DEF r
<1>4. OutreachTypeOK
  BY <1>1, <1>2, <1>3 DEF OutreachInit, OutreachTypeOK, Stored, Channels
<1>5. Quoted
  <2>1. Cleared = {}
    BY DEF OutreachInit, Cleared, Idle
  <2>2. PICK people \in Nat : people = Cardinality(Reps) /\ people # 0
    BY FS_CardinalityType, FS_EmptySet
  <2>3. touch.sent = 0 /\ Cardinality(Cleared) = 0
    BY <2>1, FS_EmptySet DEF OutreachInit
  <2> QED
    BY <2>2, <2>3 DEF Quoted
<1> QED
  BY <1>4, <1>5 DEF OutreachInit, OutreachInv, Tallies, NoChange, Idle

(* Nobody is cleared and nothing is sent.                                  *)
LEMMA QuotedKept ==
  ASSUME OutreachInv, touch'.sent = touch.sent, Cleared' \subseteq Cleared
  PROVE  Quoted'
<1>1. PICK sent \in Nat : sent = touch.sent
  BY OutreachAssumption DEF OutreachInv, OutreachTypeOK
<1>2. IsFiniteSet(Cleared)
  BY OutreachAssumption, FS_Subset DEF Cleared
<1>3. PICK n \in Nat, m \in Nat, people \in Nat :
        /\ n = Cardinality(Cleared) /\ m = Cardinality(Cleared') /\ m <= n
        /\ people = Cardinality(Reps)
  BY <1>2, OutreachAssumption, FS_Subset, FS_CardinalityType
<1>4. sent + n <= Quota + people - 1
  BY <1>1, <1>3 DEF OutreachInv, Quoted
<1>5. sent + m <= Quota + people - 1
  BY <1>3, <1>4, OutreachAssumption
<1> QED
  BY <1>1, <1>3, <1>5 DEF Quoted

LEMMA OutreachStepInv == OutreachInv /\ (OutreachNext \/ UNCHANGED outreachVars) => OutreachInv'
<1> SUFFICES ASSUME OutreachInv, OutreachNext \/ UNCHANGED outreachVars
    PROVE  OutreachInv'
  OBVIOUS
<1> USE OutreachAssumption
<1> DEFINE Fields == DOMAIN [sequence |-> 0, task |-> 0, step |-> 0]
           Hands == [picked : BOOLEAN, late : BOOLEAN, cleared : BOOLEAN]
           Desks == [todo : SUBSET Fields, new : Records, base : Records]
<1>t. /\ Stored \in Records /\ channel \in Channels /\ message \in {"draft", "approved"}
      /\ touch \in [prepared : 0..MaxTouchpoints, sent : 0..MaxTouchpoints]
      /\ rep \in [Reps -> Hands] /\ desk \in [Reps -> Desks] /\ tally \in Tallies
  BY DEF OutreachInv, OutreachTypeOK, Stored
<1>f. Fields = {"sequence", "task", "step"}
  OBVIOUS
<1>n. PICK prepared \in 0..MaxTouchpoints, sent \in 0..MaxTouchpoints, picks \in Nat :
        /\ prepared = touch.prepared /\ sent = touch.sent /\ picks = tally.picks
        /\ prepared + sent <= MaxTouchpoints
  BY <1>t DEF OutreachInv, Tallies
<1> HIDE DEF Fields, Hands, Desks
<1>1. ASSUME NEW citations, NEW activeClaims, ApproveMessage(citations, activeClaims)
      PROVE  OutreachInv'
  BY <1>1, <1>t DEF ApproveMessage, OutreachInv, OutreachTypeOK, records, Quoted, Cleared
<1>2. ASSUME NEW r \in Reps, Pick(r)
      PROVE  OutreachInv'
  <2>1. /\ tally' = [tally EXCEPT !.picks = picks + 1]
        /\ sequence # "cancelled"
        /\ UNCHANGED <<sequence, task, step, channel, touch, message, desk>>
    BY <1>2, <1>n DEF Pick, MyDay, records
  <2>h. PICK taken \in Hands :
          /\ taken.late = tally.cancelled /\ taken.cleared = FALSE
          /\ rep' = [rep EXCEPT ![r] = taken]
    <3> DEFINE taken == [Idle EXCEPT !.picked = TRUE, !.late = tally.cancelled]
    <3>1. Idle \in Hands /\ Idle.cleared = FALSE /\ tally.cancelled \in BOOLEAN
      BY <1>t DEF Idle, Hands, Tallies
    <3>2. taken \in Hands /\ taken.late = tally.cancelled /\ taken.cleared = FALSE
      BY <3>1 DEF Hands
    <3>3. rep' = [rep EXCEPT ![r] = taken]
      BY <1>2 DEF Pick
    <3> HIDE DEF taken
    <3> QED
      BY <3>2, <3>3
  <2>2. /\ tally' \in Tallies /\ tally'.cancelled = tally.cancelled
        /\ tally'.raced = tally.raced /\ tally'.lateSend = tally.lateSend
    BY <1>t, <2>1 DEF Tallies
  <2>3. rep' \in [Reps -> Hands]
    BY <1>t, <2>h
  <2>4. \A q \in Reps : rep'[q].late => tally'.raced
    BY <1>t, <2>1, <2>2, <2>h DEF OutreachInv
  <2>5. Cleared' \subseteq Cleared
    BY <1>t, <2>h DEF Cleared
  <2>6. Quoted'
    BY <2>1, <2>5, QuotedKept
  <2>7. OutreachTypeOK'
    BY <2>1, <2>3 DEF OutreachInv, OutreachTypeOK, Hands
  <2> QED
    BY <2>1, <2>2, <2>4, <2>6, <2>7 DEF OutreachInv
<1>3. ASSUME NEW r \in Reps, PrepareTouchpoint(r)
      PROVE  OutreachInv'
  <2>1. /\ touch' = [touch EXCEPT !.prepared = prepared + 1]
        /\ prepared + sent < MaxTouchpoints
        /\ UNCHANGED <<sequence, task, step, channel, message, rep, desk, tally>>
    BY <1>3, <1>n DEF PrepareTouchpoint, records
  <2>2. prepared + 1 \in 0..MaxTouchpoints /\ prepared + 1 + sent <= MaxTouchpoints
    BY <2>1
  <2>3. /\ touch' \in [prepared : 0..MaxTouchpoints, sent : 0..MaxTouchpoints]
        /\ touch'.prepared = prepared + 1 /\ touch'.sent = sent /\ touch'.sent = touch.sent
    BY <1>t, <1>n, <2>1, <2>2
  <2>4. Cleared' \subseteq Cleared
    BY <2>1 DEF Cleared
  <2>5. Quoted'
    BY <2>3, <2>4, QuotedKept
  <2>6. OutreachTypeOK'
    BY <2>1, <2>3 DEF OutreachInv, OutreachTypeOK
  <2> QED
    BY <2>1, <2>2, <2>3, <2>5, <2>6 DEF OutreachInv
<1>4. ASSUME NEW r \in Reps, NEW inWindow, EvaluateSchedule(r, inWindow)
      PROVE  OutreachInv'
  <2>1. /\ rep' = [rep EXCEPT ![r].cleared = TRUE]
        /\ sent < Quota
        /\ UNCHANGED <<sequence, task, step, channel, touch, message, desk, tally>>
    BY <1>4, <1>n DEF EvaluateSchedule, WithinQuota, records
  <2>2. rep' \in [Reps -> Hands] /\ \A q \in Reps : rep'[q].late = rep[q].late
    BY <1>t, <2>1 DEF Hands
  <2>3. Quoted'
    <3>1. PICK n \in Nat, people \in Nat :
            n = Cardinality(Cleared') /\ people = Cardinality(Reps) /\ n <= people
      <4>1. Cleared' \subseteq Reps
        BY DEF Cleared
      <4> HIDE DEF Cleared
      <4> QED
        BY <4>1, FS_Subset, FS_CardinalityType
    <3>2. sent + n <= Quota + people - 1
      BY <2>1, <3>1
    <3> QED
      BY <1>n, <2>1, <3>1, <3>2 DEF Quoted
  <2>4. OutreachTypeOK'
    BY <2>1, <2>2 DEF OutreachInv, OutreachTypeOK, Hands
  <2> QED
    BY <2>1, <2>2, <2>3, <2>4 DEF OutreachInv
<1>5. ASSUME NEW r \in Reps, SendTouchpoint(r)
      PROVE  OutreachInv'
  <2>1. /\ rep[r].cleared /\ prepared > 0
        /\ touch' = [prepared |-> prepared - 1, sent |-> sent + 1]
        /\ tally' = [tally EXCEPT !.lateSend = @ \/ rep[r].late]
        /\ rep' = [rep EXCEPT ![r] = Idle]
        /\ UNCHANGED <<sequence, task, step, channel, message, desk>>
    BY <1>5, <1>n DEF SendTouchpoint, records
  <2>2. /\ prepared - 1 \in 0..MaxTouchpoints /\ sent + 1 \in 0..MaxTouchpoints
        /\ (prepared - 1) + (sent + 1) <= MaxTouchpoints
    BY <1>n, <2>1
  <2>3. touch' \in [prepared : 0..MaxTouchpoints, sent : 0..MaxTouchpoints]
    BY <2>1, <2>2
  <2>4. rep' \in [Reps -> Hands]
    BY <1>t, <2>1 DEF Hands, Idle
  <2>5. \A q \in Reps : rep'[q].late => rep[q].late
    BY <1>t, <2>1 DEF Idle
  <2>6. /\ tally' \in Tallies /\ tally'.cancelled = tally.cancelled
        /\ tally'.raced = tally.raced /\ tally'.lateSend = (tally.lateSend \/ rep[r].late)
    BY <1>t, <2>1 DEF Tallies, Hands
  <2>7. Quoted'
    <3>1. Cleared' = Cleared \ {r} /\ r \in Cleared
      BY <1>t, <2>1 DEF Cleared, Idle
    <3>2. IsFiniteSet(Cleared)
      BY FS_Subset DEF Cleared
    <3>3. PICK n \in Nat, m \in Nat, people \in Nat :
            n = Cardinality(Cleared) /\ m = Cardinality(Cleared') /\ m = n - 1 /\ people = Cardinality(Reps)
      <4> HIDE DEF Cleared
      <4> QED
        BY <3>1, <3>2, FS_RemoveElement, FS_CardinalityType
    <3>4. sent + n <= Quota + people - 1
      BY <1>n, <3>3 DEF OutreachInv, Quoted
    <3>5. (sent + 1) + m <= Quota + people - 1
      BY <3>3, <3>4
    <3>6. touch'.sent = sent + 1
      BY <2>1
    <3> QED
      BY <3>3, <3>5, <3>6 DEF Quoted
  <2>8. OutreachTypeOK'
    BY <2>1, <2>3, <2>4 DEF OutreachInv, OutreachTypeOK, Hands
  <2>9. touch'.prepared + touch'.sent <= MaxTouchpoints
    BY <2>1, <2>2
  <2> QED
    BY <2>1, <2>5, <2>6, <2>7, <2>8, <2>9 DEF OutreachInv
<1>6. ASSUME NEW r \in Reps, NEW new \in Records, sequence # "cancelled", Compute(r, new)
      PROVE  OutreachInv'
  <2> DEFINE changes == {f \in DOMAIN new : new[f] # Stored[f]}
  <2>1. /\ desk' = [desk EXCEPT ![r] = [todo |-> changes, new |-> new, base |-> Stored]]
        /\ UNCHANGED <<sequence, task, step, channel, touch, message, rep, tally>>
    BY <1>6 DEF Compute, records, reachVars
  <2>2. changes \subseteq Fields
    BY <1>f DEF Records
  <2> HIDE DEF changes
  <2>3. Stored.sequence = sequence
    BY DEF Stored
  <2>4. /\ desk' \in [Reps -> Desks]
        /\ \A q \in Reps : desk'[q] = desk[q] \/ desk'[q].base.sequence # "cancelled"
    <3>1. [todo |-> changes, new |-> new, base |-> Stored] \in Desks
      BY <1>t, <2>2 DEF Desks
    <3>2. [todo |-> changes, new |-> new, base |-> Stored].base.sequence # "cancelled"
      BY <1>6, <2>3
    <3> QED
      BY <1>t, <2>1, <3>1, <3>2
  <2>5. OutreachTypeOK'
    BY <2>1, <2>4 DEF OutreachInv, OutreachTypeOK, Desks, Fields
  <2> QED
    BY <2>1, <2>4, <2>5 DEF OutreachInv, Quoted, Cleared
<1>7. Paused(Stored) \in Records /\ Resumed(Stored) \in Records /\ Cancelled(Stored) \in Records
  BY <1>t DEF Paused, Resumed, Cancelled, Records, SequenceStatuses, TerminalTask, TerminalStep
<1>8. ASSUME NEW r \in Reps, Resume(r) PROVE OutreachInv'
  BY <1>6, <1>7, <1>8 DEF Resume
<1>9. ASSUME NEW r \in Reps, NEW kind, ApplyEvent(r, kind) PROVE OutreachInv'
  BY <1>6, <1>7, <1>9 DEF ApplyEvent, CancellationPossible
<1>10. ASSUME NEW r \in Reps, NEW field \in Fields, Put(r, field)
       PROVE  OutreachInv'
  <2>1. /\ field \in desk[r].todo
        /\ desk' = [desk EXCEPT ![r].todo = @ \ {field}]
        /\ sequence' = IF field = "sequence" THEN desk[r].new.sequence ELSE sequence
        /\ task' = IF field = "task" THEN desk[r].new.task ELSE task
        /\ step' = IF field = "step" THEN desk[r].new.step ELSE step
        /\ tally' = [tally EXCEPT !.cancelled = @ \/ sequence' = "cancelled",
                                  !.raced = @ \/ (field = "sequence" /\ sequence # desk[r].base.sequence)]
        /\ UNCHANGED <<touch, message, rep, channel>>
    BY <1>10 DEF Put, reachVars
  <2>2. /\ desk' \in [Reps -> Desks]
        /\ \A q \in Reps : desk'[q].todo \subseteq desk[q].todo /\ desk'[q].base = desk[q].base
    BY <1>t, <2>1 DEF Desks
  <2>3. [sequence |-> sequence', task |-> task', step |-> step'] \in Records
    <3>1. desk[r].new \in Records
      BY <1>t DEF Desks
    <3> QED
      BY <1>t, <2>1, <3>1 DEF Records, Stored
  <2>4. /\ tally' \in Tallies
        /\ tally'.cancelled = (tally.cancelled \/ sequence' = "cancelled")
        /\ tally'.raced = (tally.raced \/ (field = "sequence" /\ sequence # desk[r].base.sequence))
        /\ tally'.lateSend = tally.lateSend
    BY <1>t, <2>1 DEF Tallies
  <2>5. tally'.cancelled => tally'.raced \/ sequence' = "cancelled"
    BY <2>1, <2>4 DEF OutreachInv
  <2>6. OutreachTypeOK'
    BY <2>1, <2>2, <2>3 DEF OutreachInv, OutreachTypeOK, Desks, Fields
  <2> QED
    BY <2>1, <2>2, <2>4, <2>5, <2>6 DEF OutreachInv, Quoted, Cleared
<1>11. CASE UNCHANGED outreachVars
  BY <1>11 DEF outreachVars, OutreachInv, OutreachTypeOK, Quoted, Cleared
<1>12. DOMAIN Stored = Fields
  BY <1>f DEF Stored
<1> QED
  BY <1>1, <1>2, <1>3, <1>4, <1>5, <1>8, <1>9, <1>10, <1>11, <1>12 DEF OutreachNext

(***************************************************************************)
(* Engagement                                                              *)
(***************************************************************************)
LEMMA EngagementInitInv == EngagementInit => EngagementInv
<1> SUFFICES ASSUME EngagementInit PROVE EngagementInv
  OBVIOUS
<1> USE EngagementAssumption
<1>1. inbox \in Inboxes /\ \A e \in EventIds : inbox[e] = NoRef
  BY DEF EngagementInit, Inboxes
<1>2. work \in [Agents -> Works] /\ \A a \in Agents : work[a] = Resting /\ work[a].doc = "none"
  BY DEF EngagementInit, Works, Resting
<1>3. EngagementTypeOK /\ trail \in Trails
  BY <1>1, <1>2 DEF EngagementInit, EngagementTypeOK, Objections, LeadStatuses, Trails
<1> QED
  BY <1>1, <1>2, <1>3 DEF EngagementInit, EngagementInv, Distinct

(* A copy in hand.                                                         *)
LEMMA WorkShapes ==
  ASSUME NEW w \in Works
  PROVE  /\ w = Resting \/ w.doc \in {"inbox", "stage"}
         /\ w.doc = "inbox" => w.read \in Inboxes
         /\ w.doc = "stage" => w.read \in Stages \cup {"none"} /\ w.next \in Stages
<1>1. CASE w \in [doc : {"none"}]
  BY <1>1 DEF Resting
<1>2. CASE w \in [doc : {"inbox"}, read : Inboxes]
  BY <1>2
<1>3. CASE w \in [doc : {"stage"}, read : Stages \cup {"none"}, next : Stages]
  BY <1>3
<1> QED
  BY <1>1, <1>2, <1>3 DEF Works

(* A step that puts no event and takes nothing in hand.                    *)
LEMMA PipelineMoved ==
  ASSUME EngagementInv, UNCHANGED <<inbox, work, trail>>,
         conversation' \in {"open", "closed"}, objection' \in Objections,
         lead' \in LeadStatuses, stage' \in Stages \cup {"none"},
         lead' # "new" => MeetingKnown, stage' # "none" => MeetingKnown
  PROVE  EngagementInv'
BY DEF EngagementInv, EngagementTypeOK, MeetingKnown, Known, Distinct

(* A step of one person's hand: nothing else, or a put, which takes events *)
(* and the stage with it.                                                  *)
LEMMA HandMoved ==
  ASSUME EngagementInv, NEW a \in Agents, NEW w \in Works,
         work' = [work EXCEPT ![a] = w],
         w.doc = "stage" => MeetingKnown /\ <<w.read, w.next>> \in Moves,
         UNCHANGED <<conversation, objection, lead>>,
         inbox' \in Inboxes, \A e \in EventIds : inbox[e] # NoRef => inbox'[e] = inbox[e],
         stage' \in Stages \cup {"none"}, stage' # "none" => MeetingKnown,
         trail' \in Trails, trail'.twice \/ Distinct(inbox'),
         trail'.reversed => trail'.overlapped
  PROVE  EngagementInv'
<1>1. MeetingKnown => MeetingKnown'
  BY EngagementAssumption DEF MeetingKnown, Known
<1>2. work \in [Agents -> Works]
  BY DEF EngagementInv
<1>3. work' \in [Agents -> Works]
  BY <1>2
<1>4. \A b \in Agents : work'[b] = Resting \/ work'[b].doc \in {"inbox", "stage"}
  BY <1>3, WorkShapes
<1>5. EngagementTypeOK'
  <2>1. trail'.puts \in 0..MaxPuts
    BY DEF Trails
  <2> QED
    BY <1>4, <2>1 DEF EngagementInv, EngagementTypeOK
<1>6. ASSUME NEW b \in Agents, work'[b].doc = "stage"
      PROVE  MeetingKnown' /\ <<work'[b].read, work'[b].next>> \in Moves
  <2>1. CASE b = a
    <3>1. work'[b] = w
      BY <1>2, <2>1
    <3> QED
      BY <1>1, <1>6, <3>1
  <2>2. CASE b # a
    <3>1. work'[b] = work[b]
      BY <1>2, <2>2
    <3> QED
      BY <1>1, <1>6, <3>1 DEF EngagementInv
  <2> QED
    BY <2>1, <2>2
<1> QED
  BY <1>1, <1>3, <1>5, <1>6 DEF EngagementInv, Distinct

(* A source is looked up before it is recorded.                            *)
LEMMA IngestedKeeps ==
  ASSUME NEW events \in Inboxes, NEW ref \in SourceRefs, NEW e \in EventIds
  PROVE  /\ Ingested(events, ref, e) \in Inboxes
         /\ \A i \in EventIds : i # e => Ingested(events, ref, e)[i] = events[i]
         /\ Distinct(events) => Distinct(Ingested(events, ref, e))
<1> DEFINE more == [events EXCEPT ![e] = ref]
<1>1. more \in Inboxes /\ more[e] = ref /\ \A i \in EventIds : i # e => more[i] = events[i]
  BY DEF Inboxes
<1> HIDE DEF more
<1>2. Ingested(events, ref, e) = IF Known(events, ref) THEN events ELSE more
  BY DEF Ingested, more
<1>3. ~Known(events, ref) /\ Distinct(events) => Distinct(more)
  BY <1>1 DEF Known, Distinct
<1> QED
  BY <1>1, <1>2, <1>3

LEMMA EngagementStepInv == EngagementInv /\ (EngagementNext \/ UNCHANGED engagementVars) => EngagementInv'
<1> SUFFICES ASSUME EngagementInv, EngagementNext \/ UNCHANGED engagementVars
    PROVE  EngagementInv'
  OBVIOUS
<1> USE EngagementAssumption
<1>t. /\ inbox \in Inboxes /\ objection \in Objections /\ lead \in LeadStatuses
      /\ stage \in Stages \cup {"none"} /\ work \in [Agents -> Works] /\ trail \in Trails
      /\ conversation \in {"open", "closed"}
      /\ lead # "new" => MeetingKnown
      /\ stage # "none" => MeetingKnown
      /\ trail.twice \/ Distinct(inbox)
      /\ trail.reversed => trail.overlapped
  BY DEF EngagementInv, EngagementTypeOK
<1>w. \A a \in Agents : work[a] \in Works
  BY <1>t
<1>p. PICK puts \in 0..MaxPuts : puts = trail.puts
  BY <1>t DEF Trails
<1>s. /\ "draft" \in Stages /\ Resting \in Works /\ Resting.doc = "none"
      /\ \A from, to : <<from, to>> \in Moves => from \in Stages /\ from \notin Closed /\ to \in Stages
  BY DEF Stages, Moves, Closed, Works, Resting
<1>1. CASE CloseConversation
  BY <1>1, <1>t, PipelineMoved DEF CloseConversation
<1>2. ASSUME NEW ref \in SourceRefs, NEW confident \in BOOLEAN, ClassifyObjection(ref, confident)
      PROVE  EngagementInv'
  <2>1. objection' \in Objections
    BY <1>2 DEF ClassifyObjection, Objections
  <2> QED
    BY <1>2, <1>t, <2>1, PipelineMoved DEF ClassifyObjection
<1>3. CASE ReviewObjection
  <2>1. objection' \in Objections
    BY <1>3, <1>t DEF ReviewObjection, Objections
  <2> QED
    BY <1>3, <1>t, <2>1, PipelineMoved DEF ReviewObjection
<1>4. ASSUME NEW verdict, NEW plan, NEW ref, QualifyLead(verdict, plan, ref)
      PROVE  EngagementInv'
  <2>1. MeetingKnown /\ lead' \in LeadStatuses
    BY <1>4 DEF QualifyLead, MeetingKnown, LeadStatuses
  <2> QED
    BY <1>4, <1>t, <2>1, PipelineMoved DEF QualifyLead
<1>5. CASE ConvertLead
  <2>1. MeetingKnown /\ lead' \in LeadStatuses
    BY <1>5, <1>t DEF ConvertLead, LeadStatuses
  <2> QED
    BY <1>5, <1>t, <2>1, PipelineMoved DEF ConvertLead
<1>6. ASSUME NEW sameWorkspace, NEW sameLineage, CreateOpportunity(sameWorkspace, sameLineage)
      PROVE  EngagementInv'
  <2>1. MeetingKnown
    BY <1>6, <1>t DEF CreateOpportunity, LinksValid
  <2> QED
    BY <1>6, <1>t, <1>s, <2>1, PipelineMoved DEF CreateOpportunity
<1>7. ASSUME NEW a \in Agents, ReadInbox(a)
      PROVE  EngagementInv'
  <2>1. PICK w \in Works : w = [doc |-> "inbox", read |-> inbox]
    BY <1>t DEF Works
  <2>2. w.doc = "inbox"
    BY <2>1
  <2> QED
    BY <1>7, <1>t, <2>1, <2>2, HandMoved DEF ReadInbox
<1>8. ASSUME NEW a \in Agents, NEW first \in SourceRefs, NEW second \in SourceRefs,
             IngestBatch(a, first, second)
      PROVE  EngagementInv'
  <2>1. /\ work[a].doc = "inbox" /\ puts < MaxPuts
        /\ work' = [work EXCEPT ![a] = Resting]
        /\ UNCHANGED <<conversation, objection, lead, stage>>
    BY <1>8, <1>p DEF IngestBatch, Spend
  <2>2. PICK read \in Inboxes : read = work[a].read
    BY <1>w, <2>1, WorkShapes
  <2>3. PICK d \in EventIds, e \in EventIds :
          /\ d # e /\ inbox[d] = NoRef /\ inbox[e] = NoRef
          /\ inbox' = [i \in EventIds |->
                         IF Ingested(Ingested(read, first, d), second, e)[i] # read[i]
                         THEN Ingested(Ingested(read, first, d), second, e)[i] ELSE inbox[i]]
    BY <1>8, <2>2 DEF IngestBatch
  <2>4. PICK once \in Inboxes :
          /\ once = Ingested(read, first, d)
          /\ \A i \in EventIds : i # d => once[i] = read[i]
          /\ Distinct(read) => Distinct(once)
    BY IngestedKeeps
  <2>5. PICK events \in Inboxes :
          /\ events = Ingested(once, second, e)
          /\ \A i \in EventIds : i # e => events[i] = once[i]
          /\ Distinct(once) => Distinct(events)
    BY IngestedKeeps
  <2>6. /\ \A i \in EventIds : i # d /\ i # e => events[i] = read[i]
        /\ Distinct(read) => Distinct(events)
    BY <2>4, <2>5
  <2>7. inbox' = [i \in EventIds |-> IF events[i] # read[i] THEN events[i] ELSE inbox[i]]
    BY <2>3, <2>4, <2>5
  <2>8. /\ inbox' \in Inboxes
        /\ \A i \in EventIds : inbox[i] # NoRef => inbox'[i] = inbox[i]
        /\ read = inbox => inbox' = events
    BY <1>t, <2>3, <2>6, <2>7 DEF Inboxes
  <2>9. /\ trail' \in Trails /\ trail'.twice = (trail.twice \/ read # inbox)
        /\ trail'.overlapped = trail.overlapped /\ trail'.reversed = trail.reversed
    <3>1. trail' = [trail EXCEPT !.puts = puts + 1, !.twice = (trail.twice \/ read # inbox)]
      BY <1>8, <1>t, <1>p, <2>2 DEF IngestBatch, Trails
    <3>2. puts + 1 \in 0..MaxPuts
      BY <2>1
    <3> QED
      BY <1>t, <3>1, <3>2 DEF Trails
  <2>10. trail'.twice \/ Distinct(inbox')
    BY <1>t, <2>6, <2>8, <2>9
  <2> QED
    BY <1>t, <1>s, <2>1, <2>8, <2>9, <2>10, HandMoved
<1>9. ASSUME NEW a \in Agents, NEW next, NEW criteria, Advance(a, next, criteria)
      PROVE  EngagementInv'
  <2>1. <<stage, next>> \in Moves /\ stage # "none" /\ next \in Stages
    BY <1>9, <1>s DEF Advance, Stages, Moves
  <2>2. PICK w \in Works : w = [doc |-> "stage", read |-> stage, next |-> next]
    BY <1>t, <2>1 DEF Works
  <2>3. w.read = stage /\ w.next = next
    BY <2>2
  <2> QED
    BY <1>9, <1>t, <2>1, <2>2, <2>3, HandMoved DEF Advance
<1>10. ASSUME NEW a \in Agents, PutOpportunity(a)
       PROVE  EngagementInv'
  <2>1. /\ work[a].doc = "stage" /\ puts < MaxPuts
        /\ stage' = work[a].next
        /\ work' = [work EXCEPT ![a] = Resting]
        /\ UNCHANGED <<inbox, conversation, objection, lead>>
    BY <1>10, <1>p DEF PutOpportunity, Spend
  <2>2. /\ stage' \in Stages /\ MeetingKnown
        /\ <<work[a].read, stage'>> \in Moves /\ work[a].read \notin Closed
    BY <1>w, <1>s, <2>1, WorkShapes DEF EngagementInv
  <2>3. /\ trail' \in Trails /\ trail'.twice = trail.twice
        /\ trail'.overlapped = (trail.overlapped \/ work[a].read # stage)
        /\ trail'.reversed = (trail.reversed \/ (stage \in Closed /\ stage' # stage))
    <3>1. trail' = [trail EXCEPT !.puts = puts + 1,
                                 !.overlapped = (trail.overlapped \/ work[a].read # stage),
                                 !.reversed = (trail.reversed \/ (stage \in Closed /\ stage' # stage))]
      BY <1>10, <1>t, <1>p DEF PutOpportunity, Trails
    <3>2. puts + 1 \in 0..MaxPuts
      BY <2>1
    <3> QED
      BY <1>t, <3>1, <3>2 DEF Trails
  <2>4. trail'.reversed => trail'.overlapped
    BY <1>t, <2>2, <2>3
  <2> QED
    BY <1>t, <1>s, <2>1, <2>2, <2>3, <2>4, HandMoved
<1>11. CASE UNCHANGED engagementVars
  BY <1>11 DEF engagementVars, EngagementInv, EngagementTypeOK, MeetingKnown, Known, Distinct
<1> QED
  BY <1>1, <1>2, <1>3, <1>4, <1>5, <1>6, <1>7, <1>8, <1>9, <1>10, <1>11 DEF EngagementNext

(***************************************************************************)
(* Learning                                                                *)
(***************************************************************************)
LEMMA LearningInitInv == LearningInit => LearningInv
<1> SUFFICES ASSUME LearningInit PROVE LearningInv
  OBVIOUS
<1> USE LearningAssumption
<1>1. NoFile \in Proposals
  BY DEF NoFile, Proposals
<1>2. curating \in [Curators -> [pc : {"idle", "write", "append"}, read : Proposals, new : Proposals]]
  BY <1>1 DEF LearningInit, NoCall
<1>3. \A c \in Curators : curating[c].pc = "idle"
  BY DEF LearningInit, NoCall
<1>4. minutes \in Seq(Entries) /\ DOMAIN minutes = {}
  BY DEF LearningInit
<1>5. record \in LearningRecords
  BY DEF LearningInit, LearningRecords
<1>6. proposal = NoFile /\ NoFile.status = "absent"
  BY DEF LearningInit, NoFile
<1>7. LearningTypeOK
  <2>1. record.begun \in 0..MaxMoves
    BY DEF LearningInit
  <2> QED
    BY <1>1, <1>2, <1>4, <1>6, <2>1 DEF LearningTypeOK
<1> QED
  BY <1>3, <1>4, <1>5, <1>6, <1>7 DEF LearningInv

(* A move along the diagram adds to what the file has been, and a file was *)
(* never both accepted and rejected.                                       *)
LEMMA PassedGrows ==
  /\ \A from, to : <<from, to>> \in ProposalMoves \cup {<<"absent", "draft">>} =>
       /\ to \in ProposalStatuses
       /\ Passed(from) \subseteq Passed(to) /\ to \in Passed(to)
  /\ \A status : "accepted" \in Passed(status) => "rejected" \notin Passed(status)
<1>p. /\ Passed("absent") = {} /\ Passed("draft") = {"draft"}
      /\ Passed("in_review") = {"draft", "in_review"}
      /\ Passed("accepted") = {"draft", "in_review", "accepted"}
      /\ Passed("rejected") = {"draft", "in_review", "rejected"}
      /\ Passed("testing") = {"draft", "in_review", "accepted", "testing"}
      /\ Passed("measured") = {"draft", "in_review", "accepted", "testing", "measured"}
  BY DEF Passed
<1>1. ASSUME NEW from, NEW to, <<from, to>> \in ProposalMoves \cup {<<"absent", "draft">>}
      PROVE  Passed(from) \subseteq Passed(to) /\ to \in Passed(to)
  <2>1. \/ from = "absent" /\ to = "draft"
        \/ from = "draft" /\ to = "in_review"
        \/ from = "in_review" /\ to \in {"accepted", "rejected"}
        \/ from = "accepted" /\ to = "testing"
        \/ from = "testing" /\ to = "measured"
    BY <1>1 DEF ProposalMoves
  <2>2. CASE from = "absent" /\ to = "draft"
    BY <2>2, <1>p
  <2>3. CASE from = "draft" /\ to = "in_review"
    BY <2>3, <1>p
  <2>4. CASE from = "in_review" /\ to \in {"accepted", "rejected"}
    BY <2>4, <1>p
  <2>5. CASE from = "accepted" /\ to = "testing"
    BY <2>5, <1>p
  <2>6. CASE from = "testing" /\ to = "measured"
    BY <2>6, <1>p
  <2> QED
    BY <2>1, <2>2, <2>3, <2>4, <2>5, <2>6
<1>2. ASSUME NEW from, NEW to, <<from, to>> \in ProposalMoves \cup {<<"absent", "draft">>}
      PROVE  to \in ProposalStatuses
  BY <1>2 DEF ProposalMoves, ProposalStatuses
<1>3. ASSUME NEW status, "accepted" \in Passed(status), "rejected" \in Passed(status)
      PROVE  FALSE
  BY <1>3 DEF Passed
<1> QED
  BY <1>1, <1>2, <1>3

(* An entry without a key is added whatever the journal holds.             *)
LEMMA EntryAdded ==
  ASSUME NEW journal \in Seq(Entries), NEW e \in Entries
  PROVE  /\ Appended(journal, e) \in Seq(Entries)
         /\ \A i \in DOMAIN Appended(journal, e) :
              \/ Appended(journal, e)[i].type = e.type
              \/ i \in DOMAIN journal /\ Appended(journal, e)[i] = journal[i]
         /\ \A i \in DOMAIN journal :
              i \in DOMAIN Appended(journal, e) /\ Appended(journal, e)[i] = journal[i]
         /\ \E i \in DOMAIN Appended(journal, e) : Appended(journal, e)[i].type = e.type
<1>1. Appended(journal, e) = Append(journal, e)
  BY DEF Appended, Found, Entries
<1>2. PICK len \in Nat : len = Len(journal) /\ DOMAIN journal = 1..len
  OBVIOUS
<1>3. PICK k \in Seq(Entries) :
        /\ k = Appended(journal, e) /\ DOMAIN k = 1..len + 1
        /\ k[len + 1] = e /\ \A i \in 1..len : k[i] = journal[i]
  BY <1>1, <1>2, AppendProperties
<1>4. \A i \in 1..len + 1 : i = len + 1 \/ i \in 1..len
  OBVIOUS
<1>5. len + 1 \in 1..len + 1 /\ \A i \in 1..len : i \in 1..len + 1
  OBVIOUS
<1> QED
  BY <1>2, <1>3, <1>4, <1>5

(* A call begins, or ends before it wrote: the file and the journal stay.  *)
LEMMA CallMoved ==
  ASSUME LearningInv, NEW c \in Curators, curating[c].pc # "append",
         NEW call \in [pc : {"idle", "write", "append"}, read : Proposals, new : Proposals],
         curating' = [curating EXCEPT ![c] = call],
         call.pc # "append",
         call.pc # "idle" => <<call.read.status, call.new.status>>
                               \in ProposalMoves \cup {<<"absent", "draft">>},
         UNCHANGED <<proposal, minutes>>,
         record' \in LearningRecords, record.cut => record'.cut,
         record'.overlapped = record.overlapped
  PROVE  LearningInv'
<1>1. curating \in [Curators -> [pc : {"idle", "write", "append"}, read : Proposals, new : Proposals]]
  BY DEF LearningInv, LearningTypeOK
<1>2. /\ curating' \in [Curators -> [pc : {"idle", "write", "append"}, read : Proposals, new : Proposals]]
      /\ curating'[c] = call /\ \A d \in Curators : d # c => curating'[d] = curating[d]
  BY <1>1
<1>3. LearningTypeOK'
  BY <1>2 DEF LearningInv, LearningTypeOK, LearningRecords
<1>4. \A d \in Curators : curating'[d].pc # "idle" =>
         <<curating'[d].read.status, curating'[d].new.status>>
           \in ProposalMoves \cup {<<"absent", "draft">>}
  BY <1>2 DEF LearningInv
<1>5. \A d \in Curators : curating[d].pc = "append" => curating'[d] = curating[d]
  BY <1>2
<1>6. \A d \in Curators : curating'[d].pc = "append" => curating'[d] = curating[d]
  BY <1>2
<1> QED
  BY <1>3, <1>4, <1>5, <1>6 DEF LearningInv, Journaled

LEMMA LearningStepInv == LearningInv /\ (LearningNext \/ UNCHANGED learningVars) => LearningInv'
<1> SUFFICES ASSUME LearningInv, LearningNext \/ UNCHANGED learningVars
    PROVE  LearningInv'
  OBVIOUS
<1> USE LearningAssumption
<1> DEFINE Calls == [pc : {"idle", "write", "append"}, read : Proposals, new : Proposals]
           Steps == ProposalMoves \cup {<<"absent", "draft">>}
<1>t. /\ proposal \in Proposals /\ curating \in [Curators -> Calls]
      /\ minutes \in Seq(Entries) /\ record \in LearningRecords
      /\ \A c \in Curators :
           curating[c].pc # "idle" => <<curating[c].read.status, curating[c].new.status>> \in Steps
  BY DEF LearningInv, LearningTypeOK
<1>n. PICK begun \in 0..MaxMoves : begun = record.begun
  BY <1>t DEF LearningRecords
<1>c. NoCall \in Calls /\ NoCall.pc = "idle"
  BY DEF NoCall, NoFile, Proposals
<1>1. ASSUME NEW c \in Curators, NEW new \in Proposals, Begin(c, new),
             <<proposal.status, new.status>> \in Steps
      PROVE  LearningInv'
  <2>1. /\ curating[c].pc = "idle" /\ begun < MaxMoves
        /\ curating' = [curating EXCEPT ![c] = [pc |-> "write", read |-> proposal, new |-> new]]
        /\ record' = [record EXCEPT !.begun = begun + 1]
        /\ UNCHANGED <<proposal, minutes>>
    BY <1>1, <1>n DEF Begin
  <2>2. PICK call \in Calls :
          /\ call = [pc |-> "write", read |-> proposal, new |-> new]
          /\ call.pc = "write" /\ call.read = proposal /\ call.new = new
    <3> DEFINE w == [pc |-> "write", read |-> proposal, new |-> new]
    <3>1. w \in Calls
      BY <1>t
    <3>2. w.pc = "write" /\ w.read = proposal /\ w.new = new
      OBVIOUS
    <3> HIDE DEF w, Calls
    <3> QED
      BY <3>1, <3>2 DEF w
  <2>3. /\ record' \in LearningRecords
        /\ record'.cut = record.cut /\ record'.overlapped = record.overlapped
    <3>1. begun + 1 \in 0..MaxMoves
      BY <2>1
    <3> QED
      BY <1>t, <2>1, <3>1 DEF LearningRecords
  <2> QED
    BY <1>1, <2>1, <2>2, <2>3, CallMoved
<1>2. ASSUME NEW c \in Curators, CreateProposal(c) PROVE LearningInv'
  <2> DEFINE new == [status |-> "draft", experiment |-> FALSE]
  <2>1. new \in Proposals /\ new.status = "draft"
    BY DEF Proposals, ProposalStatuses, ProposalMoves
  <2> QED
    BY <1>1, <1>2, <2>1 DEF CreateProposal
<1>3. ASSUME NEW c \in Curators, NEW status \in ProposalStatuses, NEW experiment \in BOOLEAN,
             NEW result \in BOOLEAN, Transition(c, status, experiment, result)
      PROVE  LearningInv'
  <2> DEFINE new == [status |-> status, experiment |-> proposal.experiment \/ experiment]
  <2>1. new \in Proposals /\ new.status = status
    BY <1>t DEF Proposals
  <2>2. Begin(c, new) /\ <<proposal.status, status>> \in Steps
    BY <1>3 DEF Transition
  <2> HIDE DEF new
  <2> QED
    BY <1>1, <2>1, <2>2
<1>4. ASSUME NEW c \in Curators, WriteProposal(c) PROVE LearningInv'
  <2>1. /\ curating[c].pc = "write"
        /\ proposal' = curating[c].new
        /\ curating' = [curating EXCEPT ![c].pc = "append"]
        /\ record' = [record EXCEPT !.overlapped = @ \/ proposal # curating[c].read]
        /\ UNCHANGED minutes
    BY <1>4 DEF WriteProposal
  <2>2. /\ curating' \in [Curators -> Calls]
        /\ curating'[c].pc = "append" /\ curating'[c].new = curating[c].new
        /\ curating'[c].read = curating[c].read
        /\ \A d \in Curators : d # c => curating'[d] = curating[d]
        /\ proposal' \in Proposals
    BY <1>t, <2>1
  <2>3. /\ record' \in LearningRecords /\ record'.cut = record.cut
        /\ record'.overlapped = (record.overlapped \/ proposal # curating[c].read)
    BY <1>t, <2>1 DEF LearningRecords
  <2>4. LearningTypeOK'
    BY <2>1, <2>2, <2>3 DEF LearningInv, LearningTypeOK, LearningRecords
  <2>5. \A d \in Curators : curating'[d].pc # "idle" =>
           <<curating'[d].read.status, curating'[d].new.status>> \in Steps
    BY <1>t, <2>1, <2>2
  <2>6. ASSUME ~record'.overlapped
        PROVE  /\ Passed(proposal.status) \subseteq Passed(proposal'.status)
               /\ proposal'.status \in Passed(proposal'.status)
               /\ ~record.overlapped
    <3>1. ~record.overlapped /\ proposal = curating[c].read
      BY <2>3, <2>6
    <3>2. <<proposal.status, proposal'.status>> \in Steps
      BY <1>t, <2>1, <3>1
    <3> QED
      BY <3>1, <3>2, PassedGrows
  <2>7. ~record'.overlapped =>
          /\ \A i \in DOMAIN minutes' : minutes'[i].type \in Passed(proposal'.status)
          /\ \A d \in Curators :
               curating'[d].pc = "append" => curating'[d].new.status \in Passed(proposal'.status)
    BY <2>1, <2>2, <2>6 DEF LearningInv
  <2>8. curating'[c].pc = "append" /\ curating'[c].new.status = proposal'.status
    BY <2>1, <2>2
  <2> QED
    BY <1>t, <2>1, <2>3, <2>4, <2>5, <2>7, <2>8 DEF LearningInv
<1>5. ASSUME NEW c \in Curators, NEW splits \in BOOLEAN, AppendMinutes(c, splits)
      PROVE  LearningInv'
  <2> DEFINE event == [type |-> curating[c].new.status, key |-> NoKey, splits |-> splits]
             Ends == curating' = [curating EXCEPT ![c] = NoCall] /\ UNCHANGED proposal
  <2>1. Ends /\ curating[c].pc = "append"
    BY <1>5 DEF AppendMinutes
  <2>2. event \in Entries /\ event.type = curating[c].new.status
    <3>1. curating[c].new.status \in ProposalStatuses
      BY <1>t, <2>1, PassedGrows
    <3> QED
      BY <3>1 DEF Entries
  <2>3. /\ curating' \in [Curators -> Calls] /\ curating'[c].pc = "idle"
        /\ \A d \in Curators : d # c => curating'[d] = curating[d]
    BY <1>t, <1>c, <2>1
  <2>4. CASE minutes' = Appended(minutes, event) /\ UNCHANGED record
    <3>e. PICK e \in Entries : e = event /\ e.type = curating[c].new.status
      BY <2>2
    <3>1. /\ minutes' \in Seq(Entries)
          /\ \A i \in DOMAIN minutes' :
               minutes'[i].type = e.type \/ (i \in DOMAIN minutes /\ minutes'[i] = minutes[i])
          /\ \A i \in DOMAIN minutes : i \in DOMAIN minutes' /\ minutes'[i] = minutes[i]
          /\ \E i \in DOMAIN minutes' : minutes'[i].type = e.type
      <4>1. minutes' = Appended(minutes, e)
        BY <2>4, <3>e
      <4>2. PICK journal \in Seq(Entries) : journal = minutes
        BY <1>t
      <4> HIDE DEF event, Calls, Steps
      <4> QED
        BY <4>1, <4>2, EntryAdded
    <3> HIDE DEF event
    <3>2. LearningTypeOK'
      <4>1. \A i \in DOMAIN minutes' : minutes'[i].type \in ProposalStatuses
        BY <3>e, <3>1 DEF LearningInv, LearningTypeOK, Entries
      <4> QED
        BY <2>1, <2>3, <2>4, <4>1 DEF LearningInv, LearningTypeOK
    <3>3. \A d \in Curators : curating'[d].pc # "idle" =>
             <<curating'[d].read.status, curating'[d].new.status>> \in Steps
      BY <1>t, <2>3
    <3>4. ~record'.overlapped =>
            /\ \A i \in DOMAIN minutes' : minutes'[i].type \in Passed(proposal'.status)
            /\ \A d \in Curators :
                 curating'[d].pc = "append" => curating'[d].new.status \in Passed(proposal'.status)
      BY <2>1, <2>3, <2>4, <3>e, <3>1 DEF LearningInv
    <3>5. proposal'.status # "absent" =>
            \/ record'.cut
            \/ \E i \in DOMAIN minutes' : minutes'[i].type = proposal'.status
            \/ \E d \in Curators :
                 curating'[d].pc = "append" /\ curating'[d].new.status = proposal'.status
      BY <2>1, <2>3, <2>4, <3>e, <3>1 DEF LearningInv, Journaled
    <3> QED
      BY <2>4, <3>1, <3>2, <3>3, <3>4, <3>5 DEF LearningInv, Journaled
  <2>5. CASE record' = [record EXCEPT !.cut = TRUE] /\ UNCHANGED minutes
    <3>1. record' \in LearningRecords /\ record'.cut = TRUE /\ record'.overlapped = record.overlapped
      BY <1>t, <2>5 DEF LearningRecords
    <3>2. LearningTypeOK'
      BY <2>1, <2>3, <2>5, <3>1 DEF LearningInv, LearningTypeOK, LearningRecords
    <3> QED
      BY <1>t, <2>1, <2>3, <2>5, <3>1, <3>2 DEF LearningInv
  <2> QED
    BY <1>5, <2>4, <2>5 DEF AppendMinutes
<1>6. ASSUME NEW c \in Curators, Dies(c) PROVE LearningInv'
  <2>1. /\ curating' = [curating EXCEPT ![c] = NoCall]
        /\ record' = [record EXCEPT !.cut = @ \/ curating[c].pc = "append"]
        /\ UNCHANGED <<proposal, minutes>>
    BY <1>6 DEF Dies
  <2>2. /\ record' \in LearningRecords /\ record'.overlapped = record.overlapped
        /\ record'.cut = (record.cut \/ curating[c].pc = "append")
    BY <1>t, <2>1 DEF LearningRecords
  <2>3. CASE curating[c].pc # "append"
    BY <1>c, <2>1, <2>2, <2>3, CallMoved
  <2>4. CASE curating[c].pc = "append"
    <3>1. /\ curating' \in [Curators -> Calls] /\ curating'[c].pc = "idle"
          /\ \A d \in Curators : d # c => curating'[d] = curating[d]
      BY <1>t, <1>c, <2>1
    <3>2. LearningTypeOK'
      BY <2>1, <2>2, <3>1 DEF LearningInv, LearningTypeOK, LearningRecords
    <3> QED
      BY <1>t, <2>1, <2>2, <2>4, <3>1, <3>2 DEF LearningInv
  <2> QED
    BY <2>3, <2>4
<1>7. CASE UNCHANGED learningVars
  BY <1>7 DEF learningVars, LearningInv, LearningTypeOK, Journaled
<1> QED
  BY <1>2, <1>3, <1>4, <1>5, <1>6, <1>7 DEF LearningNext

(***************************************************************************)
(* The three together                                                      *)
(***************************************************************************)
IInv == OutreachInv /\ EngagementInv /\ LearningInv

LEMMA Invariance == Spec => []IInv
<1>1. Init => IInv
  BY OutreachInitInv, EngagementInitInv, LearningInitInv DEF Init, IInv
<1>2. IInv /\ [Next]_vars => IInv'
  <2> SUFFICES ASSUME IInv, [Next]_vars PROVE IInv'
    OBVIOUS
  <2>1. /\ OutreachNext \/ UNCHANGED outreachVars
        /\ EngagementNext \/ UNCHANGED engagementVars
        /\ LearningNext \/ UNCHANGED learningVars
    BY DEF Next, vars
  <2> QED
    BY <2>1, OutreachStepInv, EngagementStepInv, LearningStepInv DEF IInv
<1> QED
  BY <1>1, <1>2, PTL DEF Spec

(* Every state is well typed: sequences with their tasks and touchpoints,  *)
(* the inbox with leads and opportunities, proposals and their journal     *)
(* (reach_store, opportunity_store, learning_proposals).                   *)
THEOREM TypeCorrect == Spec => []TypeOK
<1>1. IInv => TypeOK
  BY DEF IInv, OutreachInv, EngagementInv, LearningInv, TypeOK
<1> QED
  BY <1>1, Invariance, PTL

(* Nobody who opened their day after a cancellation sends to the person    *)
(* who opted out, unless a pause or a resume was put over it (reach_queue, *)
(* reach_execution).                                                       *)
THEOREM OptOutRespected == Spec => []OnlyWorkInHandOutlivesOptOut
<1>1. IInv => OnlyWorkInHandOutlivesOptOut
  BY DEF IInv, OutreachInv, OnlyWorkInHandOutlivesOptOut
<1> QED
  BY <1>1, Invariance, PTL

(* There is no opportunity without a booked meeting among the events       *)
(* (engagement_opportunity).                                               *)
THEOREM MeetingFirst == Spec => []PipelineRestsOnAMeeting
<1>1. IInv => PipelineRestsOnAMeeting
  BY DEF IInv, EngagementInv, PipelineRestsOnAMeeting, MeetingKnown
<1> QED
  BY <1>1, Invariance, PTL

(* Sends above the quota by the other people at most, one event per        *)
(* source, a closed opportunity closed, one verdict on a proposal and a    *)
(* status its journal explains: each fails only by an overlap or a cut     *)
(* (reach_execution, engagement_ingestion, opportunity_policy,             *)
(* learning_proposals).                                                    *)
THEOREM ExcessExplained == Spec => []ExcessOnlyByOverlap
<1>1. IInv => QuotaOverrunBounded
  <2> SUFFICES ASSUME IInv PROVE QuotaOverrunBounded
    OBVIOUS
  <2>1. PICK sent \in Nat : sent = touch.sent
    BY OutreachAssumption DEF IInv, OutreachInv, OutreachTypeOK
  <2>2. IsFiniteSet(Cleared)
    BY OutreachAssumption, FS_Subset DEF Cleared
  <2>3. PICK n \in Nat, people \in Nat : n = Cardinality(Cleared) /\ people = Cardinality(Reps)
    BY <2>2, OutreachAssumption, FS_CardinalityType
  <2>4. sent + n <= Quota + people - 1
    BY <2>1, <2>3 DEF IInv, OutreachInv, Quoted
  <2>5. sent <= Quota + people - 1
    BY <2>4, OutreachAssumption
  <2> QED
    BY <2>1, <2>3, <2>5 DEF QuotaOverrunBounded
<1>2. IInv => OneEventPerSource /\ ClosedStaysClosed
  BY DEF IInv, EngagementInv, Distinct, OneEventPerSource, ClosedStaysClosed
<1>3. IInv => OneVerdict
  BY PassedGrows DEF IInv, LearningInv, OneVerdict, Journaled
<1>4. IInv => StatusIsExplained
  BY DEF IInv, LearningInv, StatusIsExplained
<1> QED
  BY <1>1, <1>2, <1>3, <1>4, Invariance, PTL DEF ExcessOnlyByOverlap
=============================================================================
