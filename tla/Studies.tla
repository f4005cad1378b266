------------------------------- MODULE Studies -------------------------------
(***************************************************************************)
(* The company studies as directories: init_study.py stages one and        *)
(* installs it, keeping the one it replaces; sync_study_queue.py decides   *)
(* which companies need one; the intake form of demand.py types a demand   *)
(* into one; build_sector_rollups.py and the sector view of demand.py      *)
(* count those that are current and complete.  Every reader globs          *)
(* studies/*/00_manifest.yaml, so a stage and a kept copy are studies too. *)
(* One sector; a script may be killed at any step.                         *)
(***************************************************************************)
EXTENDS Naturals, FiniteSets, FiniteSetsExt

CONSTANTS
  Companies,
  LastDay,     \* bound on the calendar, days from 1
  Horizon,     \* days a study stays current
  Threshold,   \* studies a rollup needs
  MaxDirs,     \* bound on the study directories made
  MaxWrites    \* bound on the profiles written and the tools run

ASSUME StudiesAssumption ==
  LastDay \in Nat \ {0} /\ {Horizon, Threshold, MaxDirs, MaxWrites} \subseteq Nat

VARIABLES
  today,
  accounts,    \* accounts[c]: its lines of companies.jsonl and of the mapping
  library,     \* the study directories, see Blank
  installer,   \* the init_study.py under way
  sync,        \* the sync_study_queue.py under way
  rollup,      \* the directories covered by the sector's rollup file
  past         \* history, see StudiesInit

studiesVars == <<today, accounts, library, installer, sync, rollup, past>>

NoInstall == [pc |-> "idle", company |-> "none", day |-> 0, force |-> FALSE]
NoSync == [pc |-> "idle", read |-> {}, todo |-> {}, done |-> {}, day |-> 0]

StudiesTypeOK ==
  /\ today \in 1..LastDay
  /\ \A c \in Companies : /\ accounts[c].mapping \in {"pending", "candidate"}
                          /\ accounts[c].tier \in {"high", "low"}
                          /\ accounts[c].updated \in 0..LastDay /\ accounts[c].study \in 0..LastDay
  /\ \A d \in library : /\ d.kind \in {"live", "kept", "stage"}
                      /\ d.profile \in {"none", "blank", "typed", "usable"}
  /\ installer.pc \in {"idle", "staged", "cleared"}
  /\ sync.pc \in {"idle", "apply", "wait"}
  /\ rollup \subseteq 1..MaxDirs

StudiesInit ==
  /\ today = 1
  /\ accounts = [c \in Companies |-> [mapping |-> "pending", tier |-> "low", updated |-> 0, study |-> 0]]
  /\ library = {} /\ installer = NoInstall /\ sync = NoSync /\ rollup = {}
  /\ past = [dirs |-> 0,        \* directories made
             owed |-> {},       \* directories whose profile a skill finished
                                \* and the form has not typed over since
             writes |-> 0,     \* profiles written and tools run
             cut |-> FALSE,     \* an installation was killed
             settled |-> 0]     \* the day of the last sync that applied all,
                                \* 0 once the accounts have changed

(***************************************************************************)
(* init_study.py                                                           *)
(***************************************************************************)
Blank(c, day, kind) ==
  [no |-> past.dirs + 1, company |-> c, day |-> day, kind |-> kind, updated |-> day, profile |-> "blank"]
Live(c, day) == {d \in library : d.kind = "live" /\ d.company = c /\ d.day = day}
Staged == {d \in library : d.kind = "stage" /\ d.no = past.dirs}

BuildStudy(c, day, force) ==
  /\ installer = NoInstall
  /\ past.dirs < MaxDirs
  /\ library' = library \cup {Blank(c, day, "stage")}
  /\ installer' = [pc |-> "staged", company |-> c, day |-> day, force |-> force]
  /\ past' = [past EXCEPT !.dirs = @ + 1]

As(dirs, kind) == {[d EXCEPT !.kind = kind] : d \in dirs}

(* Without --force the replacement is refused and the stage removed; a     *)
(* sync that called it gives up.                                           *)
RefuseStage ==
  /\ installer.pc = "staged" /\ ~installer.force
  /\ Live(installer.company, installer.day) # {}
  /\ library' = library \ Staged
  /\ installer' = NoInstall /\ sync' = NoSync
  /\ UNCHANGED <<today, accounts, rollup, past>>

ReplacedForgotten(dirs) == {}
Replaced(dirs) == As(dirs, "kept")

(* The study of that name is renamed away first, ...                       *)
KeepBackup ==
  LET old == Live(installer.company, installer.day)
  IN /\ installer.pc = "staged" /\ installer.force /\ old # {}
     /\ library' = (library \ old) \cup Replaced(old)
     /\ installer' = [installer EXCEPT !.pc = "cleared"]
     /\ UNCHANGED <<today, accounts, sync, rollup, past>>

(* ... then the stage takes its name.                                      *)
InstallStage ==
  /\ installer.pc \in {"staged", "cleared"}
  /\ Live(installer.company, installer.day) = {}
  /\ library' = (library \ Staged) \cup As(Staged, "live")
  /\ sync' = IF sync.pc = "wait" THEN [sync EXCEPT !.pc = "apply", !.done = @ \cup {installer.company}] ELSE sync
  /\ installer' = NoInstall
  /\ UNCHANGED <<today, accounts, rollup, past>>

InstallerKilled ==
  /\ installer # NoInstall
  /\ installer' = NoInstall /\ sync' = NoSync
  /\ past' = [past EXCEPT !.cut = TRUE]
  /\ UNCHANGED <<today, accounts, library, rollup>>

InitStudy(c, force) ==
  /\ sync = NoSync
  /\ BuildStudy(c, today, force)
  /\ UNCHANGED <<today, accounts, sync, rollup>>

(***************************************************************************)
(* sync_study_queue.py                                                     *)
(***************************************************************************)
Of(c) == {d \in library : d.company = c}
Discovered(c) == IF Of(c) = {} THEN 0 ELSE Max({d.updated : d \in Of(c)})

QueueAction(c) ==
  CASE Of(c) # {} /\ (accounts[c].updated > Discovered(c) \/ today - Discovered(c) > Horizon) -> "refresh"
    [] Of(c) # {} /\ accounts[c].updated <= Discovered(c) /\ today - Discovered(c) <= Horizon -> "ready"
    [] Of(c) = {} -> IF accounts[c].tier = "high" THEN "create" ELSE "hold"

SyncBegin ==
  LET todo == {c \in Companies : QueueAction(c) \in {"refresh", "create"}}
  IN /\ sync = NoSync /\ installer = NoInstall
     /\ sync' = [pc |-> "apply", read |-> accounts, todo |-> todo, done |-> {}, day |-> today]
     /\ UNCHANGED <<today, accounts, library, installer, rollup, past>>

(* Refreshes come before creations.                                        *)
SyncApply(c) ==
  /\ sync.pc = "apply" /\ c \in sync.todo
  /\ Of(c) = {} => \A e \in sync.todo : Of(e) = {}
  /\ BuildStudy(c, sync.day, Live(c, sync.day) # {})
  /\ sync' = [sync EXCEPT !.pc = "wait", !.todo = @ \ {c}]
  /\ UNCHANGED <<today, accounts, rollup>>

(* The companies are written back as they were read, with their studies.   *)
SyncEnd ==
  /\ sync.pc = "apply" /\ sync.todo = {}
  /\ accounts' = IF sync.done = {} THEN accounts
                 ELSE [c \in Companies |-> [sync.read[c] EXCEPT !.mapping = accounts[c].mapping,
                                            !.study = IF c \in sync.done THEN sync.day ELSE sync.read[c].study]]
  /\ past' = [past EXCEPT !.settled = IF accounts = sync.read THEN sync.day ELSE 0]
  /\ sync' = NoSync
  /\ UNCHANGED <<today, library, installer, rollup>>

(***************************************************************************)
(* The network tools that feed it                                          *)
(***************************************************************************)
Noted(f) ==
  /\ past.writes < MaxWrites /\ f # accounts
  /\ accounts' = f
  /\ past' = [past EXCEPT !.settled = 0, !.writes = @ + 1]

Import(c) ==
  /\ Noted([accounts EXCEPT ![c].updated = today])
  /\ UNCHANGED <<today, library, installer, sync, rollup>>

(* Every mapping is computed again from the names and the rules.           *)
MapCompanies(matched) ==
  /\ Noted([c \in Companies |-> [accounts[c] EXCEPT !.mapping = IF c \in matched THEN "candidate" ELSE "pending"]])
  /\ UNCHANGED <<today, library, installer, sync, rollup>>

ScreenAccounts(high) ==
  /\ Noted([c \in Companies |-> [accounts[c] EXCEPT !.tier = IF c \in high THEN "high" ELSE "low"]])
  /\ UNCHANGED <<today, library, installer, sync, rollup>>

(***************************************************************************)
(* demand.py: the intake form, and the work of the skills                  *)
(***************************************************************************)
Rewritten(d, e) == past.writes < MaxWrites /\ library' = (library \ {d}) \cup {e}

(* A new study: its manifest, then its profile; the server may stop in     *)
(* between, and the form then refuses the name.                            *)
CreateDemandProfile(c, cut) ==
  /\ installer = NoInstall /\ past.dirs < MaxDirs
  /\ Live(c, today) = {}
  /\ library' = library \cup {[Blank(c, today, "live") EXCEPT !.profile = IF cut THEN "none" ELSE "typed"]}
  /\ past' = [past EXCEPT !.dirs = @ + 1]
  /\ UNCHANGED <<today, accounts, installer, sync, rollup>>

(* A study named by its id: the first directory whose manifest says so,    *)
(* in the order the file system lists them.                                *)
OverwriteDemandProfile(d) ==
  /\ d \in library
  /\ Rewritten(d, [d EXCEPT !.profile = "typed"])
  /\ past' = [past EXCEPT !.owed = @ \ {d.no}, !.writes = @ + 1]
  /\ UNCHANGED <<today, accounts, installer, sync, rollup>>

FinishProfile(d) ==
  /\ d \in library /\ d.kind = "live" /\ d.profile # "usable"
  /\ Rewritten(d, [d EXCEPT !.profile = "usable", !.updated = today])
  /\ past' = [past EXCEPT !.owed = @ \cup {d.no}, !.writes = @ + 1]
  /\ UNCHANGED <<today, accounts, installer, sync, rollup>>

DayPasses ==
  /\ today < LastDay
  /\ today' = today + 1
  /\ UNCHANGED <<accounts, library, installer, sync, rollup, past>>

(***************************************************************************)
(* The sector: the rollups and the view                                    *)
(***************************************************************************)
Complete(d) == d.profile = "usable"
IsCurrent(d) == d.updated <= today /\ today - d.updated <= Horizon
InSector(c) == accounts[c].mapping = "candidate"

(* build_sector_rollups counts the studies, ...                            *)
RollupEligible == {d \in library : InSector(d.company) /\ IsCurrent(d) /\ Complete(d)}
BuildRollups ==
  /\ Cardinality(RollupEligible) >= Threshold
  /\ rollup' = {d.no : d \in RollupEligible}
  /\ UNCHANGED <<today, accounts, library, installer, sync, past>>

(* ... the view the latest study of each company, one of them when several *)
(* have its date.                                                          *)
LatestStudies(c) == {d \in Of(c) : d.updated = Discovered(c)}
BenchmarkCompanies == {c \in Companies : InSector(c) /\ \E d \in LatestStudies(c) : IsCurrent(d) /\ Complete(d)}
BenchmarkEnabled == Cardinality(BenchmarkCompanies) >= Threshold

StudiesNext ==
  \/ \E c \in Companies, force \in BOOLEAN : InitStudy(c, force)
  \/ RefuseStage \/ KeepBackup \/ InstallStage \/ InstallerKilled
  \/ SyncBegin \/ \E c \in Companies : SyncApply(c)
  \/ SyncEnd
  \/ \E c \in Companies : Import(c)
  \/ \E cs \in SUBSET Companies : MapCompanies(cs)
  \/ \E cs \in SUBSET Companies : ScreenAccounts(cs)
  \/ \E c \in Companies, cut \in BOOLEAN : CreateDemandProfile(c, cut)
  \/ \E d \in library : OverwriteDemandProfile(d)
  \/ \E d \in library : FinishProfile(d)
  \/ DayPasses \/ BuildRollups

(***************************************************************************)
(* Properties                                                              *)
(***************************************************************************)
(* Replacing a study never costs a finished profile: it is in the study or *)
(* in a kept copy, unless the form was typed over it (install_stage,       *)
(* create_demand_profile).                                                 *)
FinishedWorkIsKept ==
  \A n \in past.owed : \E d \in library : d.no = n /\ d.profile = "usable"

(* The study a company's record points at is there, except inside an       *)
(* installation or after one that was killed (sync_study_queue).           *)
RegisteredStudiesExist ==
  \A c \in Companies : accounts[c].study # 0 =>
    Live(c, accounts[c].study) # {} \/ past.cut \/ installer.pc = "cleared"

(* A second sync on the same day, the accounts unchanged, has nothing to   *)
(* do: what it created or refreshed is found again (discover_studies).     *)
SyncSettles ==
  past.settled = today /\ sync = NoSync /\ installer = NoInstall =>
    \A c \in Companies : QueueAction(c) \in {"ready", "hold"}

(* Where the view offers a sector's benchmark, the rollup script finds     *)
(* enough studies to build it (DemandCatalog.snapshot, build_sector_rollups).*)
ViewNeverAheadOfRollups == BenchmarkEnabled => Cardinality(RollupEligible) >= Threshold

(* As routing-table.md:19 has it, a rollup consolidates that many accounts;*)
(* the script counts studies, so two of one company and a kept copy count. *)
RollupsCoverAccounts ==
  rollup # {} => Cardinality({d.company : d \in {e \in library : e.no \in rollup}}) >= Threshold
=============================================================================
