------------------------- MODULE WorkspaceMigration -------------------------
(***************************************************************************)
(* workspace_migrator.py: the files of the legacy root copied under a      *)
(* workspace.  plan compares hashes and decides per file; apply checks     *)
(* every source again, then copies file by file and writes the manifest    *)
(* before the first and after each copy; rollback takes the files marked   *)
(* applied away, in reverse, and refuses one whose content has changed.    *)
(* People write sources and destinations in between, and the process may   *)
(* stop at any step.  A content is a number.                               *)
(***************************************************************************)
EXTENDS Naturals, FiniteSets, FiniteSetsExt

CONSTANTS
  Paths,          \* the files, numbers in the order of the plan
  Texts,          \* contents, numbers from 1
  MaxEdits        \* bound on what people write

ASSUME WorkspaceAssumption ==
  /\ IsFiniteSet(Paths) /\ Paths = 1..Cardinality(Paths)
  /\ Texts \subseteq Nat \ {0}
  /\ MaxEdits \in Nat

VARIABLES
  source, destination,     \* contents; 0 when there is no file
  blueprint,               \* the plan handed to apply
  ledger,                  \* the stored manifest: mode and the files applied
  copier,                  \* the call under way
  diary                    \* history, see WorkspaceInit

workspaceVars == <<source, destination, blueprint, ledger, copier, diary>>

NoFile == 0
NoPlan == [hash |-> [f \in Paths |-> NoFile], action |-> [f \in Paths |-> "none"]]
Quiet == [pc |-> "idle", left |-> {}]

WorkspaceTypeOK ==
  /\ source \in [Paths -> Texts]
  /\ destination \in [Paths -> Texts \cup {NoFile}]
  /\ blueprint.hash \in [Paths -> Texts \cup {NoFile}]
  /\ blueprint.action \in [Paths -> {"copy", "skip_same", "conflict", "none"}]
  /\ ledger.mode \in {"none", "applying", "applied"}
  /\ ledger.applied \subseteq Paths
  /\ copier.pc \in {"idle", "copy", "mark", "finish", "rollback"}
  /\ copier.left \subseteq Paths

WorkspaceInit ==
  /\ source \in [Paths -> Texts]
  /\ destination \in [Paths -> Texts \cup {NoFile}]
  /\ blueprint = NoPlan
  /\ ledger = [mode |-> "none", applied |-> {}]
  /\ copier = Quiet
  /\ diary = [edits |-> 0,
              before |-> destination,  \* what was there when the plan was made
              touched |-> {},          \* destinations people wrote since
              moved |-> {},            \* sources people wrote since
              cut |-> {},              \* copied, and the process stopped before the mark
              undone |-> FALSE,        \* a rollback began
              restored |-> FALSE]      \* and one came to its end

Untouched == UNCHANGED <<source, destination>>

(* plan: skip_same or conflict where there is a file.                      *)
ActionFor(f) ==
  IF destination[f] = NoFile THEN "copy"
  ELSE IF destination[f] = source[f] THEN "skip_same" ELSE "conflict"

Plan ==
  /\ ledger.mode = "none"
  /\ blueprint = NoPlan
  /\ blueprint' = [hash |-> source, action |-> [f \in Paths |-> ActionFor(f)]]
  /\ diary' = [diary EXCEPT !.before = destination, !.touched = {}, !.moved = {}]
  /\ Untouched
  /\ UNCHANGED <<ledger, copier>>

(* Conflicts and changed sources are refused before anything is written;   *)
(* the destinations are not looked at again.                               *)
Preflight ==
  /\ \A f \in Paths : blueprint.action[f] # "conflict"
  /\ \A f \in Paths : source[f] = blueprint.hash[f]

ToCopy == {f \in Paths : blueprint.action[f] = "copy"}

BeginApply ==
  /\ ledger.mode = "none"
  /\ blueprint # NoPlan
  /\ Preflight
  /\ ledger' = [mode |-> "applying", applied |-> {}]
  /\ copier' = [pc |-> IF ToCopy = {} THEN "finish" ELSE "copy", left |-> ToCopy]
  /\ Untouched
  /\ UNCHANGED <<blueprint, diary>>

(* The bytes are those of the source now.                                  *)
CopyFile ==
  LET f == Min(copier.left)
  IN /\ copier.pc = "copy"
     /\ destination' = [destination EXCEPT ![f] = source[f]]
     /\ copier' = [copier EXCEPT !.pc = "mark"]
     /\ UNCHANGED <<source, blueprint, ledger, diary>>

MarkedWith(f) == ledger.applied \cup {f}

MarkApplied ==
  LET f == Min(copier.left)
      left == copier.left \ {f}
  IN /\ copier.pc = "mark"
     /\ ledger' = [ledger EXCEPT !.applied = MarkedWith(f)]
     /\ copier' = [pc |-> IF left = {} THEN "finish" ELSE "copy", left |-> left]
     /\ Untouched
     /\ UNCHANGED <<blueprint, diary>>

FinishApply ==
  /\ copier.pc = "finish"
  /\ ledger' = [ledger EXCEPT !.mode = "applied"]
  /\ copier' = Quiet
  /\ Untouched
  /\ UNCHANGED <<blueprint, diary>>

CopierStops ==
  /\ copier.pc # "idle"
  /\ diary' = [diary EXCEPT !.cut = IF copier.pc = "mark" THEN @ \cup {Min(copier.left)} ELSE @]
  /\ copier' = Quiet
  /\ Untouched
  /\ UNCHANGED <<blueprint, ledger>>

BeginRollback ==
  /\ copier.pc = "idle"
  /\ ledger.mode \in {"applying", "applied"}
  /\ copier' = [pc |-> "rollback", left |-> ledger.applied]
  /\ diary' = [diary EXCEPT !.undone = TRUE]
  /\ Untouched
  /\ UNCHANGED <<blueprint, ledger>>

(* The last file first; a file that is gone is passed over, a changed one  *)
(* raises and leaves the rollback where it is.                             *)
RemoveFile ==
  LET f == Max(copier.left)
  IN /\ copier.pc = "rollback" /\ copier.left # {}
     /\ \/ /\ destination[f] \in {NoFile, blueprint.hash[f]}
           /\ destination' = [destination EXCEPT ![f] = NoFile]
           /\ copier' = [copier EXCEPT !.left = @ \ {f}]
        \/ /\ destination[f] \notin {NoFile, blueprint.hash[f]}
           /\ copier' = Quiet
           /\ UNCHANGED destination
     /\ UNCHANGED <<source, blueprint, ledger, diary>>

FinishRollback ==
  /\ copier.pc = "rollback" /\ copier.left = {}
  /\ copier' = Quiet
  /\ diary' = [diary EXCEPT !.restored = TRUE]
  /\ Untouched
  /\ UNCHANGED <<blueprint, ledger>>

PersonWrites(f, text) ==
  /\ diary.edits < MaxEdits
  /\ diary' = [diary EXCEPT !.edits = @ + 1, !.touched = @ \cup {f}, !.restored = FALSE]
  /\ destination' = [destination EXCEPT ![f] = text]
  /\ UNCHANGED <<source, blueprint, ledger, copier>>

PersonEditsSource(f, text) ==
  /\ diary.edits < MaxEdits
  /\ diary' = [diary EXCEPT !.edits = @ + 1, !.moved = @ \cup {f}]
  /\ source' = [source EXCEPT ![f] = text]
  /\ UNCHANGED <<destination, blueprint, ledger, copier>>

WorkspaceNext ==
  \/ Plan \/ BeginApply \/ CopyFile \/ MarkApplied \/ FinishApply \/ CopierStops
  \/ BeginRollback \/ RemoveFile \/ FinishRollback
  \/ \E f \in Paths, text \in Texts : PersonWrites(f, text) \/ PersonEditsSource(f, text)

(***************************************************************************)
(* Properties                                                              *)
(***************************************************************************)
(* A rollback that came to its end, of however broken an apply, leaves the *)
(* workspace as the plan found it, the files that were already the same    *)
(* included; but for what people wrote, and for a file copied just before  *)
(* the process stopped, which no manifest marks.                           *)
RollbackRestores ==
  diary.restored /\ copier.pc = "idle" =>
    \A f \in Paths :
      destination[f] = diary.before[f] \/ f \in diary.touched \/ f \in diary.cut

(* While nobody writes sources or destinations, an applied migration has   *)
(* every file of the plan where it belongs.                                *)
AppliedIsComplete ==
  ledger.mode = "applied" /\ copier.pc = "idle" /\ ~diary.undone =>
    \A f \in Paths :
      destination[f] = blueprint.hash[f] \/ f \in diary.touched \cup diary.moved
=============================================================================
