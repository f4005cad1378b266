------------------------------ MODULE Network ------------------------------
(***************************************************************************)
(* The legacy network: people.jsonl, companies.jsonl, relationships.jsonl, *)
(* written whole by the server's routes (network_writer.py) and by the     *)
(* offline import (scripts/import_contacts.py), and the SQLite index       *)
(* rebuilt from them (network_index.py), by a route or by a script.  The   *)
(* server runs one request at a time on its event loop, so its requests    *)
(* interleave with the tool's process only; either may stop at any step.   *)
(***************************************************************************)
EXTENDS Naturals, FiniteSets

CONSTANTS
  Names, Firms,   \* normalized names of people and of companies
  Tenants,        \* workspaces
  Batches,        \* import batches
  MaxJobs         \* bound on the jobs begun

Unlisted == "unlisted"    \* no such company
NoTenant == "no tenant"   \* a company without workspace_id
DefaultTenant == "default"

ASSUME NetworkAssumption == Unlisted \notin Tenants /\ MaxJobs \in Nat

(* stable_id: the name and the employer make the person.                   *)
Persons == Names \X Firms
Actors == {"server", "tool"}

VARIABLES
  files,       \* files.people, files.firms[f], files.ties: the JSONL files
  tables,      \* the index: do its tables exist, and their rows
  job,         \* job[a]: what the actor is doing
  batch,       \* batch[b]: "none", "dir" without a manifest, or "done"
  dismissed,   \* the groups of duplicates a human has dismissed
  trail        \* history, see NetworkInit

networkVars == <<files, tables, job, batch, dismissed, trail>>

NoRows == [people |-> {}, firms |-> [f \in Firms |-> Unlisted], ties |-> {}]
Idle == [pc |-> "idle", read |-> NoRows, rows |-> {}, firm |-> "none", tenant |-> NoTenant,
         kind |-> "none", batch |-> "none"]

Places == Tenants \cup {NoTenant, Unlisted}

NetworkTypeOK ==
  /\ files \in [people : SUBSET Persons, firms : [Firms -> Places], ties : SUBSET Persons]
  /\ tables.made \in BOOLEAN /\ tables.rows.firms \in [Firms -> Places]
  /\ \A a \in Actors : job[a].pc \in {"idle", "write", "people", "firms", "ties", "manifest",
                                      "scan", "drop", "create", "fill"}
  /\ batch \in [Batches -> {"none", "dir", "done"}]
  /\ dismissed \subseteq SUBSET Persons
  /\ trail.jobs \in 0..MaxJobs

NetworkInit ==
  /\ files = NoRows
  /\ tables = [made |-> FALSE, rows |-> NoRows]
  /\ job = [a \in Actors |-> Idle]
  /\ batch = [b \in Batches |-> "none"]
  /\ dismissed = {}
  /\ trail = [jobs |-> 0,
              kept |-> NoRows,       \* what the routes have answered for
              overwrote |-> FALSE,   \* a file was written over one not read
              behind |-> FALSE,      \* the index is known to be behind
              cut |-> FALSE]         \* an import stopped half-way

MayBegin(a) == job[a] = Idle /\ trail.jobs < MaxJobs
Start(a, j) ==
  /\ MayBegin(a)
  /\ job' = [job EXCEPT ![a] = j]
  /\ trail' = [trail EXCEPT !.jobs = @ + 1]
Goes(a, pc) == job' = [job EXCEPT ![a].pc = pc]
Ends(a) == job' = [job EXCEPT ![a] = Idle]
Known(f, firms) == firms[f] # Unlisted

(***************************************************************************)
(* network_writer.py, behind the server's routes                           *)
(***************************************************************************)
BeginCreateCompany(f, t) ==
  /\ Start("server", [Idle EXCEPT !.pc = "write", !.read = files, !.kind = "firm", !.firm = f, !.tenant = t])
  /\ UNCHANGED <<files, tables, batch, dismissed>>

(* A person is entered against a company already on file.                  *)
BeginCreatePerson(p) ==
  /\ Known(p[2], files.firms)
  /\ Start("server", [Idle EXCEPT !.pc = "write", !.read = files, !.kind = "person", !.rows = {p}])
  /\ UNCHANGED <<files, tables, batch, dismissed>>

BeginReassign(f, t) ==
  /\ Known(f, files.firms)
  /\ Start("server", [Idle EXCEPT !.pc = "write", !.read = files, !.kind = "reassign", !.firm = f, !.tenant = t])
  /\ UNCHANGED <<files, tables, batch, dismissed>>

(* A blank workspace is a workspace.                                       *)
PlacedBlank(firms, f, t) == [firms EXCEPT ![f] = IF t = NoTenant THEN "" ELSE t]

(* The record of the same key is updated, never doubled; an entry without  *)
(* a workspace keeps the company's.                                        *)
Placed(firms, f, t) ==
  [firms EXCEPT ![f] = IF t = NoTenant /\ @ # Unlisted THEN @ ELSE t]

(* The routes that create go on to rebuild the index, reassign does not.   *)
NeverRebuild(kind) == Ends("server")
ThenRebuild(kind) == IF kind = "reassign" THEN Ends("server") ELSE Goes("server", "scan")

(* For the history: another has written since; what the route answers for. *)
Overwriting(j) == IF j.kind = "person" THEN j.read.people # files.people ELSE j.read.firms # files.firms
AnsweredFor(j, firms) ==
  [people |-> trail.kept.people \cup j.rows,
   firms |-> IF j.kind = "person" THEN trail.kept.firms ELSE [trail.kept.firms EXCEPT ![j.firm] = firms[j.firm]],
   ties |-> trail.kept.ties]

(* Each file is written back as it was read, with the one change.          *)
WriteBack ==
  LET j == job["server"]
      after == IF j.kind = "person" THEN [files EXCEPT !.people = j.read.people \cup j.rows]
               ELSE [files EXCEPT !.firms = Placed(j.read.firms, j.firm, j.tenant)]
  IN /\ j.pc = "write"
     /\ files' = after
     /\ trail' = [trail EXCEPT !.overwrote = @ \/ Overwriting(j), !.behind = @ \/ j.kind = "reassign",
                               !.kept = AnsweredFor(j, after.firms)]
     /\ ThenRebuild(j.kind)
     /\ UNCHANGED <<tables, batch, dismissed>>

(***************************************************************************)
(* scripts/import_contacts.py                                              *)
(***************************************************************************)
(* A batch with a manifest is done; one whose directory alone exists is    *)
(* refused by mkdir, a directory left by an import that stopped included.  *)
BeginImport(b, rows) ==
  /\ batch[b] = "none"
  /\ batch' = [batch EXCEPT ![b] = "dir"]
  /\ Start("tool", [Idle EXCEPT !.pc = "people", !.read = files, !.rows = rows, !.batch = b])
  /\ UNCHANGED <<files, tables, dismissed>>

ImportPeople ==
  LET j == job["tool"]
  IN /\ j.pc = "people" /\ Goes("tool", "firms")
     /\ files' = [files EXCEPT !.people = j.read.people \cup j.rows]
     /\ trail' = [trail EXCEPT !.behind = TRUE, !.overwrote = @ \/ j.read.people # files.people]
     /\ UNCHANGED <<tables, batch, dismissed>>

ImportCompanies ==
  LET j == job["tool"]
  IN /\ j.pc = "firms" /\ Goes("tool", "ties")
     /\ files' = [files EXCEPT !.firms =
          [f \in Firms |-> IF j.read.firms[f] = Unlisted /\ \E p \in j.rows : p[2] = f
                           THEN NoTenant ELSE j.read.firms[f]]]
     /\ trail' = [trail EXCEPT !.behind = TRUE, !.overwrote = @ \/ j.read.firms # files.firms]
     /\ UNCHANGED <<tables, batch, dismissed>>

ImportRelationships ==
  LET j == job["tool"]
  IN /\ j.pc = "ties" /\ Goes("tool", "manifest")
     /\ files' = [files EXCEPT !.ties = j.read.ties \cup j.rows]
     /\ trail' = [trail EXCEPT !.behind = TRUE]
     /\ UNCHANGED <<tables, batch, dismissed>>

ImportManifest ==
  /\ job["tool"].pc = "manifest" /\ Ends("tool")
  /\ batch' = [batch EXCEPT ![job["tool"].batch] = "done"]
  /\ UNCHANGED <<files, tables, dismissed, trail>>

(***************************************************************************)
(* rebuild: read, drop, create, fill.  The two scripts commit as they run, *)
(* the rows are one transaction.                                           *)
(***************************************************************************)
BeginRebuild(a) ==
  /\ Start(a, [Idle EXCEPT !.pc = "scan"])
  /\ UNCHANGED <<files, tables, batch, dismissed>>

ReadFiles(a) ==
  /\ job[a].pc = "scan"
  /\ job' = [job EXCEPT ![a].pc = "drop", ![a].read = files]
  /\ UNCHANGED <<files, tables, batch, dismissed, trail>>

DropTables(a) ==
  /\ job[a].pc = "drop" /\ Goes(a, "create")
  /\ tables' = [made |-> FALSE, rows |-> NoRows]
  /\ UNCHANGED <<files, batch, dismissed, trail>>

Behind == trail' = [trail EXCEPT !.behind = TRUE]

(* CREATE TABLE raises when the other rebuild has made it meanwhile.       *)
CreateTables(a) ==
  /\ job[a].pc = "create"
  /\ IF tables.made THEN Ends(a) /\ Behind /\ UNCHANGED tables
     ELSE Goes(a, "fill") /\ tables' = [tables EXCEPT !.made = TRUE] /\ UNCHANGED trail
  /\ UNCHANGED <<files, batch, dismissed>>

Clash(r, s) == \/ r.people \cap s.people # {} \/ r.ties \cap s.ties # {}
               \/ \E f \in Firms : Known(f, r.firms) /\ Known(f, s.firms)
Both(r, s) == [people |-> r.people \cup s.people, ties |-> r.ties \cup s.ties,
               firms |-> [f \in Firms |-> IF Known(f, r.firms) THEN r.firms[f] ELSE s.firms[f]]]

(* INSERT raises on a table dropped, or on a key the other rebuild put in. *)
Fill(a) ==
  /\ job[a].pc = "fill" /\ Ends(a)
  /\ IF ~tables.made \/ Clash(tables.rows, job[a].read)
     THEN Behind /\ UNCHANGED tables
     ELSE /\ tables' = [tables EXCEPT !.rows = Both(@, job[a].read)]
          /\ trail' = [trail EXCEPT !.behind = Both(tables.rows, job[a].read) # files]
  /\ UNCHANGED <<files, batch, dismissed>>

Stops(a) ==
  /\ job[a] # Idle /\ Ends(a)
  /\ trail' = [trail EXCEPT
       !.behind = @ \/ job[a].pc \in {"scan", "drop", "create", "fill"},
       !.cut = @ \/ job[a].pc \in {"firms", "ties"}]
  /\ UNCHANGED <<files, tables, batch, dismissed>>

(***************************************************************************)
(* Reading the index                                                       *)
(***************************************************************************)
(* COALESCE: a company without workspace, or not indexed, is the default's. *)
TenantOf(f) == LET t == tables.rows.firms[f]
               IN IF t \in {NoTenant, Unlisted} THEN DefaultTenant ELSE t

SearchPeople(t) == {p \in tables.rows.people : TenantOf(p[2]) = t}
SearchCompanies(t) == {f \in Firms : Known(f, tables.rows.firms) /\ TenantOf(f) = t}

(* One name, several employers, and not dismissed as that very group.      *)
FindPotentialDuplicates(t) ==
  {g \in {{p \in SearchPeople(t) : p[1] = n} : n \in Names} :
     Cardinality({p[2] : p \in g}) >= 2 /\ g \notin dismissed}

(* The route lets a member name the people of the member's own workspace   *)
(* and people the index does not know.                                     *)
DismissDuplicateGroup(t, g) ==
  /\ job["server"] = Idle /\ tables.made
  /\ Cardinality(g) >= 2
  /\ \A p \in g \cap tables.rows.people : tables.rows.firms[p[2]] = t
  /\ dismissed' = dismissed \cup {g}
  /\ UNCHANGED <<files, tables, job, batch, trail>>

NetworkNext ==
  \/ \E f \in Firms, t \in Tenants \cup {NoTenant} : BeginCreateCompany(f, t)
  \/ \E f \in Firms, t \in Tenants : BeginReassign(f, t)
  \/ \E p \in Persons : BeginCreatePerson(p)
  \/ \E b \in Batches, rows \in SUBSET Persons : rows # {} /\ BeginImport(b, rows)
  \/ WriteBack \/ ImportPeople \/ ImportCompanies \/ ImportRelationships \/ ImportManifest
  \/ \E a \in Actors : \/ BeginRebuild(a) \/ ReadFiles(a) \/ DropTables(a)
                       \/ CreateTables(a) \/ Fill(a) \/ Stops(a)
  \/ \E t \in Tenants, g \in SUBSET Persons : DismissDuplicateGroup(t, g)

(***************************************************************************)
(* Properties                                                              *)
(***************************************************************************)
(* What a route has created is searchable as soon as it has answered       *)
(* (network_writer.py:24-30): with nobody at work the index shows the      *)
(* files, unless the last write was one that leaves the rebuild to its     *)
(* caller, or a rebuild failed, stopped, or met another writer.            *)
IndexShowsTheFiles ==
  (\A a \in Actors : job[a] = Idle) /\ ~trail.behind =>
    tables.rows = files

(* What a route has answered for is lost only to an import, or a request,  *)
(* that wrote back files it had read before.                               *)
CreatedStaysOnFile ==
  trail.overwrote \/ (/\ trail.kept.people \subseteq files.people
                      /\ \A f \in Firms : Known(f, trail.kept.firms) => files.firms[f] = trail.kept.firms[f])

(* Nobody is on file without an employer on file, except while an import   *)
(* is between its two files, or after one stopped there.                   *)
PeopleHaveEmployers ==
  \/ trail.cut \/ trail.overwrote \/ job["tool"].pc = "firms"
  \/ \A p \in files.people : Known(p[2], files.firms)
=============================================================================
