--------------------------- MODULE AtomicArtifact ---------------------------
(***************************************************************************)
(* What ArtifactStore promises its callers about one artifact, with no     *)
(* lock, temporary file or intermediate state: a call commits in a single  *)
(* step from the document it finds, or has no effect at all.               *)
(*                                                                         *)
(* A document is abstracted to the set of calls whose contribution it      *)
(* holds.  Two documents have the same version iff they are equal.         *)
(***************************************************************************)

CONSTANTS Procs,    \* calls on the artifact, one per element
          Methods   \* the store operations a call may be

VARIABLES content,  \* the document in the file
          method,   \* method[p]: the operation p is
          doc,      \* doc[p]: the document p's caller had read before calling
          result    \* result[p]: what the call returned or raised, "none" before

vars == <<content, method, doc, result>>

AllMethods == {"update", "checked_update", "checked_write", "blind_write"}
Results == {"none", "ok", "conflict", "failed", "timeout", "crashed"}

(* update_bytes hands the content it finds to an updater.  write_bytes     *)
(* carries a whole document, built from what its caller read beforehand.   *)
Derives(p) == method[p] \in {"update", "checked_update"}

(* write_bytes without the comparison.                                     *)
CheckedUpdatesOnly(p) == method[p] = "checked_update"

(* The call carries expected_version.  The file exists throughout: None,   *)
(* the version of a missing file, would mean no check.                     *)
Checked(p) == method[p] \in {"checked_update", "checked_write"}

(* The document p installs when it finds `found` in the file.              *)
NewDocument(p, found) == (IF Derives(p) THEN found ELSE doc[p]) \cup {p}

TypeOK ==
  /\ content \in SUBSET Procs
  /\ method \in [Procs -> Methods]
  /\ doc \in [Procs -> SUBSET Procs]
  /\ result \in [Procs -> Results]

Init ==
  /\ content = {}
  /\ method \in [Procs -> Methods]
  /\ doc = [p \in Procs |-> {}]
  /\ result = [p \in Procs |-> "none"]

Read(p) ==
  /\ result[p] = "none"
  /\ doc' = [doc EXCEPT ![p] = content]
  /\ UNCHANGED <<content, method, result>>

Commit(p) ==
  /\ result[p] = "none"
  /\ Checked(p) => doc[p] = content
  /\ content' = NewDocument(p, content)
  /\ result' = [result EXCEPT ![p] = "ok"]
  /\ UNCHANGED <<method, doc>>

Conflict(p) ==
  /\ result[p] = "none"
  /\ Checked(p)
  /\ doc[p] # content
  /\ result' = [result EXCEPT ![p] = "conflict"]
  /\ UNCHANGED <<content, method, doc>>

GiveUp(p) ==
  /\ result[p] = "none"
  /\ result' \in {[result EXCEPT ![p] = r] : r \in {"failed", "timeout", "crashed"}}
  /\ UNCHANGED <<content, method, doc>>

Next == \E p \in Procs : Read(p) \/ Commit(p) \/ Conflict(p) \/ GiveUp(p)

Spec == Init /\ [][Next]_vars
=============================================================================
