------------------------------ MODULE Learning ------------------------------
(***************************************************************************)
(* learning_proposals.py: one proposal, its file and the journal of the    *)
(* workspace.  create and transition read (or look for) the file, write it *)
(* whole with no expected version, then append an event with no            *)
(* idempotency key and a rationale in free text: three steps, between      *)
(* which other calls run and the process may stop.                         *)
(***************************************************************************)
EXTENDS Naturals, FiniteSets, EventJournal

CONSTANTS
  Curators,     \* people at work
  MaxMoves      \* bound on the calls begun

ASSUME LearningAssumption == MaxMoves \in Nat

VARIABLES
  proposal,     \* [status, experiment]: the stored file
  curating,     \* curating[c]: where the call of c is
  minutes,      \* the journal of the workspace
  record        \* history: calls begun, whether one wrote over a file it
                \* had not read, whether one ended between write and append

learningVars == <<proposal, curating, minutes, record>>

ProposalMoves ==
  {<<"draft", "in_review">>, <<"in_review", "accepted">>, <<"in_review", "rejected">>,
   <<"accepted", "testing">>, <<"testing", "measured">>}
ProposalStatuses == {move[1] : move \in ProposalMoves} \cup {move[2] : move \in ProposalMoves}

Proposals == [status : ProposalStatuses \cup {"absent"}, experiment : BOOLEAN]
NoFile == [status |-> "absent", experiment |-> FALSE]
NoCall == [pc |-> "idle", read |-> NoFile, new |-> NoFile]

LearningTypeOK ==
  /\ proposal \in Proposals
  /\ curating \in [Curators -> [pc : {"idle", "write", "append"}, read : Proposals, new : Proposals]]
  /\ \A i \in DOMAIN minutes : minutes[i].type \in ProposalStatuses
  /\ record.begun \in 0..MaxMoves

LearningInit ==
  /\ proposal = NoFile
  /\ curating = [c \in Curators |-> NoCall]
  /\ minutes = <<>>
  /\ record = [begun |-> 0, overlapped |-> FALSE, cut |-> FALSE]

Begin(c, new) ==
  /\ curating[c].pc = "idle"
  /\ record.begun < MaxMoves
  /\ curating' = [curating EXCEPT ![c] = [pc |-> "write", read |-> proposal, new |-> new]]
  /\ record' = [record EXCEPT !.begun = @ + 1]
  /\ UNCHANGED <<proposal, minutes>>

CreateProposal(c) ==
  /\ proposal.status = "absent"
  /\ Begin(c, [status |-> "draft", experiment |-> FALSE])

Transition(c, status, experimentGiven, resultGiven) ==
  /\ <<proposal.status, status>> \in ProposalMoves
  /\ status = "testing" => experimentGiven
  /\ status = "measured" => resultGiven /\ proposal.experiment
  /\ Begin(c, [status |-> status, experiment |-> proposal.experiment \/ experimentGiven])

WriteProposal(c) ==
  /\ curating[c].pc = "write"
  /\ proposal' = curating[c].new
  /\ curating' = [curating EXCEPT ![c].pc = "append"]
  /\ record' = [record EXCEPT !.overlapped = @ \/ proposal # curating[c].read]
  /\ UNCHANGED minutes

(* The append raises once a line of the journal does not parse: the file   *)
(* has changed all the same.                                               *)
AppendMinutes(c, splits) ==
  /\ curating[c].pc = "append"
  /\ LET event == [type |-> curating[c].new.status, key |-> NoKey, splits |-> splits]
     IN \/ /\ CanAppend(minutes, NoKey)
           /\ minutes' = Appended(minutes, event)
           /\ UNCHANGED record
        \/ /\ ~CanAppend(minutes, NoKey)
           /\ record' = [record EXCEPT !.cut = TRUE]
           /\ UNCHANGED minutes
  /\ curating' = [curating EXCEPT ![c] = NoCall]
  /\ UNCHANGED proposal

Dies(c) ==
  /\ curating[c].pc # "idle"
  /\ record' = [record EXCEPT !.cut = @ \/ curating[c].pc = "append"]
  /\ curating' = [curating EXCEPT ![c] = NoCall]
  /\ UNCHANGED <<proposal, minutes>>

LearningNext ==
  \E c \in Curators :
    \/ CreateProposal(c)
    \/ \E status \in ProposalStatuses, experiment, result \in BOOLEAN :
         Transition(c, status, experiment, result)
    \/ WriteProposal(c)
    \/ \E splits \in BOOLEAN : AppendMinutes(c, splits)
    \/ Dies(c)

(***************************************************************************)
(* Properties                                                              *)
(***************************************************************************)
Journaled(status) == \E i \in DOMAIN minutes : minutes[i].type = status

(* One verdict: no proposal is both accepted and rejected in the journal,  *)
(* unless two reviewers read it in review at the same time.                *)
OneVerdict ==
  Journaled("accepted") /\ Journaled("rejected") => record.overlapped

(* A change is explained: with no call under way, the status of the file   *)
(* is one the journal tells of, unless a call was cut, by a crash or by a  *)
(* journal it could not read, between its write and its append.            *)
StatusIsExplained ==
  /\ \A c \in Curators : curating[c].pc = "idle"
  /\ proposal.status # "absent"
  => Journaled(proposal.status) \/ record.cut
=============================================================================
