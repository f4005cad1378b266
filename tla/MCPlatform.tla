----------------------------- MODULE MCPlatform -----------------------------
(* The components that share no state, each explored from its own initial  *)
(* states: part says which one a behaviour is about, the others stay where *)
(* they start.                                                             *)
EXTENDS Access, Network, Products, Promotion, RecordMigration, WorkspaceMigration,
        Studies, Qualification, Nudges

VARIABLE part

vars == <<accessVars, networkVars, productVars, promotionVars, migrationVars,
          workspaceVars, studiesVars, qualificationVars, nudgesVars, part>>

Parts == {"access", "network", "products", "promotion", "records", "workspace",
          "studies", "qualification", "nudges"}

(* Where a component starts when the behaviour is about another.           *)
RecordsStart == part = "records" \/ target = "demands"
WorkspaceStart == part = "workspace" \/ \A f \in Paths : source[f] = 1 /\ destination[f] = NoFile
QualificationStart == part = "qualification" \/ (profile = "blank" /\ snapshot = {} /\ engagement)
AccessStart == part = "access" \/ (admins = Users /\ \A t \in Tokens : session[t].state = "none")
NudgesStart == part = "nudges" \/ (inventory.repeatable = {} /\ inventory.told = {} /\ inventory.edges = {})

Init ==
  /\ part \in Parts
  /\ NetworkInit /\ ProductInit /\ PromotionInit /\ StudiesInit
  /\ AccessInit /\ AccessStart
  /\ MigrationInit /\ RecordsStart
  /\ WorkspaceInit /\ WorkspaceStart
  /\ QualificationInit /\ QualificationStart
  /\ NudgesInit /\ NudgesStart

Only(name, rest) == part = name /\ UNCHANGED part /\ UNCHANGED rest

Next ==
  \/ Only("access", <<networkVars, productVars, promotionVars, migrationVars, workspaceVars, studiesVars, qualificationVars, nudgesVars>>) /\ AccessNext
  \/ Only("network", <<accessVars, productVars, promotionVars, migrationVars, workspaceVars, studiesVars, qualificationVars, nudgesVars>>) /\ NetworkNext
  \/ Only("products", <<accessVars, networkVars, promotionVars, migrationVars, workspaceVars, studiesVars, qualificationVars, nudgesVars>>) /\ ProductNext
  \/ Only("promotion", <<accessVars, networkVars, productVars, migrationVars, workspaceVars, studiesVars, qualificationVars, nudgesVars>>) /\ PromotionNext
  \/ Only("records", <<accessVars, networkVars, productVars, promotionVars, workspaceVars, studiesVars, qualificationVars, nudgesVars>>) /\ MigrationNext
  \/ Only("workspace", <<accessVars, networkVars, productVars, promotionVars, migrationVars, studiesVars, qualificationVars, nudgesVars>>) /\ WorkspaceNext
  \/ Only("studies", <<accessVars, networkVars, productVars, promotionVars, migrationVars, workspaceVars, qualificationVars, nudgesVars>>) /\ StudiesNext
  \/ Only("qualification", <<accessVars, networkVars, productVars, promotionVars, migrationVars, workspaceVars, studiesVars, nudgesVars>>) /\ QualificationNext
  \/ Only("nudges", <<accessVars, networkVars, productVars, promotionVars, migrationVars, workspaceVars, studiesVars, qualificationVars>>) /\ NudgesNext

Spec == Init /\ [][Next]_vars

(***************************************************************************)
(* The properties of each component, asked where it is the part at work    *)
(***************************************************************************)
(* Every component keeps its records within their types.                   *)
TypeOK ==
  CASE part = "access" -> AccessTypeOK
    [] part = "network" -> NetworkTypeOK
    [] part = "products" -> ProductTypeOK
    [] part = "promotion" -> PromotionTypeOK
    [] part = "records" -> MigrationTypeOK
    [] part = "workspace" -> WorkspaceTypeOK
    [] part = "studies" -> StudiesTypeOK
    [] part = "qualification" -> QualificationTypeOK
    [] part = "nudges" -> NudgesTypeOK

(* A migration can be taken back: what it put is listed, whole, and gone   *)
(* after a rollback, with the records of people where they were            *)
(* (app/migrations, scripts/migrate_workspace.py).                         *)
MigrationsAreReversible ==
  /\ part = "records" => WhatIsPutIsListed /\ OffersAreWhole /\ OwnRecordsStay
  /\ part = "workspace" => RollbackRestores /\ AppliedIsComplete

(* The catalog stays coherent over several publishers and stops: one       *)
(* published version with its snapshot and event, every sheet indexed once.*)
CatalogHolds ==
  /\ part = "products" => OnePublishedVersion /\ FreshSnapshotIsCurrent /\ PublishedIsJournaled
  /\ part = "promotion" => IndexedOffersHaveSheets /\ SheetsAreIndexedOnce /\ PromotionOverwritesNothing

(* The network files and their index agree, what a route answered for is   *)
(* on file, and every act rested on a session and a right of its own.      *)
NetworkAndAccessHold ==
  /\ part = "network" => IndexShowsTheFiles /\ CreatedStaysOnFile /\ PeopleHaveEmployers
  /\ part = "access" => ActsWereEntitled /\ TheTrailIsWhole

(* Studies, their stages and the decisions people take on them survive     *)
(* what the tools regenerate around them.                                  *)
StudiesHold ==
  /\ part = "studies" => FinishedWorkIsKept /\ RegisteredStudiesExist /\ SyncSettles /\ ViewNeverAheadOfRollups
  /\ part = "qualification" => StageIsTheFirstOpenStep /\ ListsAgree /\ StaleOnlyByLaterEdits /\ ScriptsAndCockpitAgree
  /\ part = "nudges" => FirstDecisionStands /\ AcknowledgedUntilRegenerated /\ SentUnlessRelaunched
=============================================================================
