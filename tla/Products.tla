------------------------------ MODULE Products ------------------------------
(***************************************************************************)
(* Publishing a product: product_policy, product_workflow and              *)
(* product_snapshot_store, for one product.  There is no store of          *)
(* versions in the code: publish_version computes on the version and the   *)
(* previous one its caller hands in, journals, and returns three records   *)
(* for the caller to keep, the snapshot with put_snapshot, which reads the *)
(* file and writes the list it read back.  People publish at the same time *)
(* and may stop anywhere.                                                  *)
(***************************************************************************)
EXTENDS Naturals, FiniteSets, FiniteSetsExt

CONSTANTS
  Publishers,     \* people with the role product_owner
  MaxVersion,     \* bound on the versions of the product
  MaxMoves        \* bound on submissions, returns, archivings

ASSUME ProductAssumption == MaxVersion \in Nat /\ MaxMoves \in Nat

VARIABLES
  version,     \* version[n]: its status, for n = version_number
  snapshots,   \* the version numbers whose snapshot is stored, and when
               \* it was published: [n -> published_at]
  publisher,   \* publisher[p]: what p computed and has not stored
  published,   \* the snapshots whose ProductPublished event is journaled
  shelf        \* history, see ProductInit

productVars == <<version, snapshots, publisher, published, shelf>>

VersionMoves ==
  {<<"draft", "in_review">>, <<"draft", "archived">>, <<"in_review", "published">>,
   <<"in_review", "draft">>, <<"published", "superseded">>}
VersionStatuses == {"draft", "in_review", "published", "superseded", "archived"}
CanTransitionVersion(from, to) == <<from, to>> \in VersionMoves

Numbers == 1..MaxVersion
None == 0
Unoccupied == [pc |-> "idle", n |-> None, previous |-> None, at |-> 0, knew |-> {}, read |-> <<>>]

ProductTypeOK ==
  /\ DOMAIN version \subseteq Numbers
  /\ \A n \in DOMAIN version : version[n] \in VersionStatuses
  /\ DOMAIN snapshots \subseteq Numbers
  /\ published \subseteq Numbers
  /\ \A p \in Publishers :
       /\ publisher[p].pc \in {"idle", "keep", "read", "write"}
       /\ {publisher[p].n, publisher[p].previous} \subseteq Numbers \cup {None}
  /\ shelf.clock \in 0..2 * MaxVersion

ProductInit ==
  /\ version = <<>>
  /\ snapshots = <<>>
  /\ publisher = [p \in Publishers |-> Unoccupied]
  /\ published = {}
  /\ shelf = [moves |-> 0,
              clock |-> 0,          \* published_at of the last publication
              kept |-> {},          \* snapshots put_snapshot returned for
              overlapped |-> FALSE, \* records kept over ones not read
              cut |-> FALSE]        \* a publisher stopped half-way

(***************************************************************************)
(* Versions                                                                *)
(***************************************************************************)
(* Never reused, archived versions included.                               *)
NextVersionNumber == IF DOMAIN version = {} THEN 1 ELSE Max(DOMAIN version) + 1

CreateDraft ==
  /\ NextVersionNumber \in Numbers
  /\ version' = [n \in DOMAIN version \cup {NextVersionNumber} |->
                   IF n \in DOMAIN version THEN version[n] ELSE "draft"]
  /\ UNCHANGED <<snapshots, publisher, published, shelf>>

(* submit_for_review; the ways back to draft or to the archive have no     *)
(* function, only the transition table.                                    *)
MoveVersion(n, status) ==
  /\ status \in {"in_review", "draft", "archived"}
  /\ CanTransitionVersion(version[n], status)
  /\ shelf.moves < MaxMoves
  /\ version' = [version EXCEPT ![n] = status]
  /\ shelf' = [shelf EXCEPT !.moves = @ + 1]
  /\ UNCHANGED <<snapshots, publisher, published>>

(***************************************************************************)
(* Publication                                                             *)
(***************************************************************************)
(* The version the caller knows as published, if it knows one.             *)
Current == {n \in DOMAIN version : version[n] = "published"}

Supersedes(previous) ==
  previous \in DOMAIN version => CanTransitionVersion(version[previous], "superseded")

(* publish_version: role, both statuses, the event, and nothing stored.    *)
PublishVersion(p, n, previous, role) ==
  /\ publisher[p] = Unoccupied
  /\ role = "product_owner"
  /\ CanTransitionVersion(version[n], "published")
  /\ Supersedes(previous)
  /\ n \notin published    \* a new snapshot_id for each publication
  /\ publisher' = [publisher EXCEPT ![p] = [Unoccupied EXCEPT
                     !.pc = "keep", !.n = n, !.previous = previous, !.at = shelf.clock + 1, !.knew = Current]]
  /\ published' = published \cup {n}
  /\ shelf' = [shelf EXCEPT !.clock = @ + 1]
  /\ UNCHANGED <<version, snapshots>>

PublishedOver(n, previous) ==
  [i \in DOMAIN version |->
     CASE i = n -> "published" [] i = previous -> "superseded" [] OTHER -> version[i]]

(* The caller keeps the two versions it was returned.                      *)
KeepVersions(p) ==
  LET work == publisher[p]
  IN /\ work.pc = "keep"
     /\ version' = PublishedOver(work.n, work.previous)
     /\ publisher' = [publisher EXCEPT ![p].pc = "read"]
     /\ shelf' = [shelf EXCEPT !.overlapped =
                    @ \/ version[work.n] # "in_review" \/ Current # work.knew]
     /\ UNCHANGED <<snapshots, published>>

ReadSnapshots(p) ==
  /\ publisher[p].pc = "read"
  /\ publisher' = [publisher EXCEPT ![p].pc = "write", ![p].read = snapshots]
  /\ UNCHANGED <<version, snapshots, published, shelf>>

WithSnapshot(read, n, at) ==
  [i \in DOMAIN read \cup {n} |-> IF i = n THEN at ELSE read[i]]

(* The updater ignores what it finds.                                      *)
WriteSnapshots(p) ==
  LET work == publisher[p]
  IN /\ work.pc = "write"
     /\ snapshots' = WithSnapshot(work.read, work.n, work.at)
     /\ publisher' = [publisher EXCEPT ![p] = Unoccupied]
     /\ shelf' = [shelf EXCEPT !.kept = @ \cup {work.n},
                               !.overlapped = @ \/ work.read # snapshots]
     /\ UNCHANGED <<version, published>>

PublisherStops(p) ==
  /\ publisher[p].pc # "idle"
  /\ publisher' = [publisher EXCEPT ![p] = Unoccupied]
  /\ shelf' = [shelf EXCEPT !.cut = TRUE]
  /\ UNCHANGED <<version, snapshots, published>>

ProductNext ==
  \/ CreateDraft
  \/ \E n \in DOMAIN version, status \in VersionStatuses : MoveVersion(n, status)
  \/ \E p \in Publishers, n \in DOMAIN version, role \in {"product_owner", "researcher"},
        previous \in IF Current = {} THEN {None} ELSE Current :
       PublishVersion(p, n, previous, role)
  \/ \E p \in Publishers : KeepVersions(p) \/ ReadSnapshots(p) \/ WriteSnapshots(p) \/ PublisherStops(p)

(***************************************************************************)
(* Properties                                                              *)
(***************************************************************************)
(* is_snapshot_stale: not the last published_at of the stored snapshots.   *)
Stale(n) == \E other \in DOMAIN snapshots : snapshots[other] > snapshots[n]

(* "Never a window where two versions are both published": true unless     *)
(* two publications overlapped, each superseding the version it knew.      *)
OnePublishedVersion == Cardinality(Current) <= 1 \/ shelf.overlapped

(* Between publications, the one snapshot a fit may rest on is the         *)
(* snapshot of the published version, unless publications overlapped or    *)
(* stopped half-way; and a stored snapshot is lost to overlap only.        *)
FreshSnapshotIsCurrent ==
  \/ shelf.overlapped \/ shelf.cut
  \/ \E p \in Publishers : publisher[p] # Unoccupied
  \/ /\ \A n \in DOMAIN snapshots : ~Stale(n) => version[n] = "published"
     /\ shelf.kept \subseteq DOMAIN snapshots

(* Whatever is published is journaled, whoever stopped where.              *)
PublishedIsJournaled == Current \subseteq published
=============================================================================
