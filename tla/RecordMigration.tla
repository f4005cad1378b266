-------------------------- MODULE RecordMigration --------------------------
(***************************************************************************)
(* The three migrators of legacy records to the v1 stores:                 *)
(* product_migrator (offers to products and their first snapshots),        *)
(* demand_migrator (study profiles to demands) and network_v1_migrator     *)
(* (people, companies, relationships).  They share a protocol: plan reads  *)
(* the legacy files, apply puts record after record and writes the         *)
(* manifest at the end, rollback reads and writes back each file without   *)
(* the records the manifest lists, comparing no version.  Migrations run   *)
(* one at a time, beside people who use the stores.                        *)
(*                                                                         *)
(* Identifiers derive from the legacy ones, so a record keeps its          *)
(* identifier over migrations.  A record is abstracted to where its        *)
(* content comes from: an edition of the legacy text, or a person.         *)
(***************************************************************************)
EXTENDS Naturals, FiniteSets

CONSTANTS
  Legacy,         \* the legacy records, numbers
  MaxEditions,    \* bound on the editions of the legacy text
  MaxRuns         \* bound on the calls of apply and of rollback

ASSUME MigrationAssumption ==
  /\ Legacy \subseteq Nat \ {0}
  /\ MaxEditions \in Nat \ {0} /\ MaxRuns \in Nat

VARIABLES
  target,      \* which migrator
  edition,     \* the current text of the legacy files
  records,     \* records[doc][id]: a line of the file doc
  migrator,    \* the call under way
  manifests,   \* the lists written by apply: sets of <<doc, id>>
  marks        \* history, see MigrationInit

migrationVars == <<target, edition, records, migrator, manifests, marks>>

(* The files each migrator writes, in its order.                           *)
Docs == [products |-> <<"products", "snapshots">>,
         demands |-> <<"demands">>,
         network |-> <<"people", "relationships">>]   \* companies are as people
AllDocs == {"products", "snapshots", "demands", "people", "relationships"}

Own == 0    \* a record a person made, under no legacy identifier
Absent == 0
Edited == MaxEditions + 1    \* by a person
Contents == Absent..Edited
Files == [Legacy \cup {Own} -> Contents]
Lists == SUBSET (AllDocs \X Legacy)
NotRunning == [pc |-> "idle", left |-> {}, doc |-> 1, text |-> 0, done |-> {}, read |-> <<>>]

(* What one legacy record becomes: an offer a product and a snapshot, a    *)
(* profile a demand, a network record an entity of its kind (the first is  *)
(* a person).                                                              *)
RecordsOf(id) ==
  CASE target = "products" -> <<"products", "snapshots">>
    [] target = "demands" -> <<"demands">>
    [] target = "network" -> IF id = 1 THEN <<"people">> ELSE <<"relationships">>

MigrationTypeOK ==
  /\ target \in DOMAIN Docs
  /\ edition \in 1..MaxEditions
  /\ records \in [AllDocs -> Files]
  /\ migrator.pc \in {"idle", "apply", "read", "write"}
  /\ migrator.left \subseteq Legacy
  /\ migrator.done \in Lists
  /\ manifests \subseteq Lists
  /\ marks.runs \in 0..MaxRuns

MigrationInit ==
  /\ target \in DOMAIN Docs
  /\ edition = 1
  /\ records = [d \in AllDocs |-> [id \in Legacy \cup {Own} |-> Absent]]
  /\ migrator = NotRunning
  /\ manifests = {}
  /\ marks = [runs |-> 0,
              cut |-> FALSE,     \* a call stopped before its end
              saved |-> {},      \* the files that hold a record of people
              raced |-> {}]      \* files written back over one not read

Keep == UNCHANGED <<target, edition, manifests>>

(***************************************************************************)
(* plan and apply                                                          *)
(***************************************************************************)
(* What plan takes of the legacy files, kept until apply is called with    *)
(* it: only then does apply look at the stores.                            *)
Begin(items) ==
  /\ migrator.pc = "idle"
  /\ marks.runs < MaxRuns
  /\ migrator' = [NotRunning EXCEPT !.pc = "apply", !.left = items, !.text = edition]
  /\ marks' = [marks EXCEPT !.runs = @ + 1]
  /\ UNCHANGED records
  /\ Keep

(* An offer file counts when it is not the index and names an offer.       *)
PlanProducts(wellformed) == target = "products" /\ Begin(wellformed)

(* A study counts when it has both its manifest and its profile.           *)
PlanDemands(complete) == target = "demands" /\ Begin(complete)

(* Records of the workspace; a relationship needs both its ends in scope.  *)
PlanNetwork(inScope) ==
  /\ target = "network"
  /\ 1 \in inScope \/ inScope = {}
  /\ Begin(inScope)

NextItem(ids) == CHOOSE id \in ids : \A other \in ids : id <= other

(* get_product, or the refusal of create_demand; put_entity asks nothing.  *)
AlreadyMigrated(id) ==
  target # "network" /\ records[Docs[target][1]][id] # Absent

Skip ==
  /\ migrator.pc = "apply" /\ migrator.left # {}
  /\ migrator.doc = 1 /\ AlreadyMigrated(NextItem(migrator.left))
  /\ migrator' = [migrator EXCEPT !.left = @ \ {NextItem(migrator.left)}]
  /\ UNCHANGED <<records, marks>>
  /\ Keep

(* A snapshot stored under the same identifier with another content makes  *)
(* put_snapshot raise.                                                     *)
Immutable(doc, id) ==
  doc = "snapshots" /\ records[doc][id] \notin {Absent, migrator.text}

PutRecord ==
  LET id == NextItem(migrator.left)
      doc == RecordsOf(id)[migrator.doc]
      last == migrator.doc = Cardinality(DOMAIN RecordsOf(id))
  IN /\ migrator.pc = "apply" /\ migrator.left # {}
     /\ migrator.doc = 1 => ~AlreadyMigrated(id)
     /\ ~Immutable(doc, id)
     /\ records' = [records EXCEPT ![doc][id] = migrator.text]
     /\ migrator' = [migrator EXCEPT !.doc = IF last THEN 1 ELSE @ + 1,
                                     !.left = IF last THEN @ \ {id} ELSE @,
                                     !.done = @ \cup {<<doc, id>>}]
     /\ UNCHANGED marks
     /\ Keep

(* A manifest of what was put by the last item alone.                      *)
LastListed(done) == {entry \in done : \A other \in done : entry[2] >= other[2]}

Listed(done) == done

WriteManifest ==
  /\ migrator.pc = "apply" /\ migrator.left = {}
  /\ manifests' = manifests \cup {Listed(migrator.done)}
  /\ migrator' = NotRunning
  /\ UNCHANGED <<target, edition, records, marks>>

(* A crash or a store error, or the refusal of put_snapshot.               *)
Stop ==
  /\ migrator.pc # "idle"
  /\ migrator' = NotRunning
  /\ marks' = [marks EXCEPT !.cut = TRUE]
  /\ UNCHANGED records
  /\ Keep

(***************************************************************************)
(* rollback                                                                *)
(***************************************************************************)
(* The manifest stays as it was: it may be rolled back again.              *)
Rollback(manifest) ==
  /\ migrator.pc = "idle"
  /\ marks.runs < MaxRuns
  /\ migrator' = [NotRunning EXCEPT !.pc = "read", !.done = manifest]
  /\ marks' = [marks EXCEPT !.runs = @ + 1]
  /\ UNCHANGED records
  /\ Keep

ReadFile ==
  /\ migrator.pc = "read"
  /\ migrator' = [migrator EXCEPT !.pc = "write", !.read = records[Docs[target][migrator.doc]]]
  /\ UNCHANGED <<records, marks>>
  /\ Keep

(* An edited record goes as well as one left as it was put.                *)
Kept(file, doc, manifest) ==
  [id \in DOMAIN file |-> IF <<doc, id>> \in manifest THEN Absent ELSE file[id]]

WriteBackDoc ==
  LET doc == Docs[target][migrator.doc]
  IN /\ migrator.pc = "write"
     /\ records' = [records EXCEPT ![doc] = Kept(migrator.read, doc, migrator.done)]
     /\ migrator' = IF migrator.doc = Cardinality(DOMAIN Docs[target]) THEN NotRunning
                    ELSE [migrator EXCEPT !.pc = "read", !.doc = @ + 1]
     /\ marks' = [marks EXCEPT !.raced = IF migrator.read = records[doc] THEN @ ELSE @ \cup {doc}]
     /\ Keep

(***************************************************************************)
(* People                                                                  *)
(***************************************************************************)
(* put_product, update_demand, put_entity: a record made or edited.  A     *)
(* snapshot is not edited.                                                 *)
SaveRecord(doc, id) ==
  /\ id = Own \/ (records[doc][id] # Absent /\ doc # "snapshots")
  /\ records[doc][id] # Edited
  /\ records' = [records EXCEPT ![doc][id] = Edited]
  /\ marks' = [marks EXCEPT !.saved = @ \cup (IF id = Own THEN {doc} ELSE {})]
  /\ UNCHANGED migrator
  /\ Keep

EditLegacy ==
  /\ edition < MaxEditions
  /\ edition' = edition + 1
  /\ UNCHANGED <<target, records, migrator, manifests, marks>>

MigrationNext ==
  \/ \E items \in SUBSET Legacy : PlanProducts(items) \/ PlanDemands(items) \/ PlanNetwork(items)
  \/ Skip
  \/ PutRecord
  \/ WriteManifest
  \/ Stop
  \/ \E manifest \in manifests : Rollback(manifest)
  \/ ReadFile
  \/ WriteBackDoc
  \/ \E n \in DOMAIN Docs[target], id \in Legacy \cup {Own} : SaveRecord(Docs[target][n], id)
  \/ EditLegacy

(***************************************************************************)
(* Properties                                                              *)
(***************************************************************************)
(* "Fully, exactly reversible": between calls, what a migration put is     *)
(* listed in a manifest, so that a rollback can take it out, unless a      *)
(* call was cut short (the manifest comes last, and the next apply skips   *)
(* what it finds).                                                         *)
WhatIsPutIsListed ==
  migrator.pc = "idle" /\ ~marks.cut =>
    \A doc \in AllDocs, id \in Legacy :
      records[doc][id] # Absent => \E manifest \in manifests : <<doc, id>> \in manifest

(* A migrated offer has its product and its snapshot or neither, unless a  *)
(* call was cut short or a file was written back over one not read.        *)
OffersAreWhole ==
  migrator.pc = "idle" =>
    \/ marks.cut \/ marks.raced # {}
    \/ \A id \in Legacy : (records["products"][id] = Absent) = (records["snapshots"][id] = Absent)

(* The record of a person stays through every migration and rollback,      *)
(* unless it was saved between the reading and the writing of its file.    *)
OwnRecordsStay ==
  \A doc \in marks.saved : records[doc][Own] # Absent \/ doc \in marks.raced
=============================================================================
