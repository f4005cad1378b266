# TLA+ models of the AI maturity diagnostic

The application is a FastAPI server, with command-line scripts beside it, that
keeps everything it knows in files: YAML and JSONL documents under one
repository root, most of them written through `app/artifact_store.py`. SQLite
holds the accounts and a search index, nothing else. Most promises of the sprint notes
and docstrings (idempotent runs, safe mutations, an audit journal without holes,
no acceptance by the author, an opt-out that holds, reversible migrations) rest on how
a few reads and writes of whole files are ordered. These modules say which of
those promises hold, under which conditions, and what breaks the others.

## 1. Inventory

Three kinds of concurrency, each taken from the code:

- The v1 routes (`*_routes.py`) are plain functions: FastAPI runs them in its
  thread pool, so any two of them interleave between two store calls.
- The routes of `server.py` and `authruntime/app.py` are `async def` without an
  `await` inside: they run one at a time on the event loop. Their dependencies
  (`get_current_user`) are plain functions and run in the thread pool before them.
- Scripts are processes of their own, which may be killed anywhere.

And a fourth that no thread makes: the functions of the policy modules
(`research_review`, `fit_lifecycle`, `target_plan_policy`, `reach_queue`,
`opportunity_policy`...) compute on a record their caller read earlier and
return a record the caller stores later. Most stores compare no version when it comes back.

| Component | State | Operations | Talks to | What is hard | What makes it correct |
|---|---|---|---|---|---|
| Artifact store (`artifact_store.py`) | files, lock files, temporary files | `read_bytes`, `write_bytes`, `update_bytes` | file system | stale locks, crash inside the lock, failed rename | one writer at a time, atomic replace, nothing reported is lost |
| Event journal (`event_journal.py`) | `events/platform.jsonl` | `append`, `replay`, `find_by_idempotency_key` | store | a line its own reader cuts | one event per key, replayable |
| Run manager (`run_manager.py`) | `runtime/runs/*.yaml` | prepare to resume | store, journal | two writes per transition, check on one read and act on another | legal moves, journal agrees with runs |
| Execution policy, harvest (`execution_policy.py`, `harvest_*.py`) | a run, the ledger | `consume`, `decide`, `run_harvest`, `run_source` | runs, adapters | time-outs, retries, partial failure, a shared budget | the verdict tells what happened; it settles |
| Acquisition (`discover_`, `research_`, `target_plan_routes.py`) | signals, evidence, mappings | three POST routes | harvest | look-up, then write; two writes in a row | duplicates bounded, mappings rest on evidence |
| Demand and fit stores | one JSONL file per workspace | `create`, `update` | store | whole-file read, check, blind write | an acknowledged edit stays |
| Signals (`signal_*.py`) | signals, lists | ingest, move, lists, pages | research | paging while records move | pages complete, lists explained |
| Research (`research_*.py`) | a case, its claims, a pass | queue, own, block, review, reopen; `run_pass` | journal | old copies put back; resumed passes | no self-acceptance, every acceptance audited, budget bounded |
| Demand lifecycle (`demand_*.py`) | a demand, its claims | moves, links, PATCH | demand store | PATCH beside the lifecycle | qualified means the checklist |
| Fit and target plans (`fit_*.py`, `target_*.py`, `reach_gate.py`) | fit, plan, committee | submit, decide, activate, assign, gate | journal | staleness, overrides that expire, singular roles | a plan rests on a recorded verdict; stale reaches nobody |
| Reach (`reach_*.py`) | sequence, task, step, touchpoints | queue, schedule, send, pause, cancel | engagement | opt-out against work in hand, quota | nothing new goes to who opted out |
| Engagement, opportunities | events, leads, opportunities | ingest, classify, qualify, convert, advance | reach | a file imported twice, old copies | pipeline rests on a meeting, closed is closed |
| Learning (`learning_proposals.py`) | proposals | create, transition | journal | write, then journal | one verdict, explained |
| Products (`product_*.py`) | versions, snapshots | draft, move, publish | journal | three records in three writes | one published version with its snapshot |
| Catalog (`catalog*.py`) | sheets, index | stage, promote, edit | - | sheet, then index | each sheet indexed once |
| Migrations (`*_migrator.py`) | manifests, stores | plan, apply, rollback | every store | stops, repetition, people in between | reversible |
| Network (`network_*.py`, `import_contacts.py`) | three JSONL files, a SQLite index | create, import, rebuild, dismiss | - | server and tool write the same files | index shows the files |
| Authentication (`authruntime/`) | users, sessions, memberships, audit | callback, context, handlers | SQLite | a context older than what it allows | acts are entitled and audited |
| Studies (`init_study.py`, `sync_study_queue.py`, `demand.py`...) | directories, queue, rollups | stage, install, sync, intake, roll up | network files | two renames, globs that see stages | finished work is kept |
| Qualification, reach strategy (`qualification.py`, `reach.py`, scripts) | files of a study | each tool writes its own | - | two derivations of one stage, stale inputs | they agree |
| Nudges, campaigns, kanban | `06e_nudges.jsonl`, `campaigns.jsonl` | generate, decide, launch, send | network index | a read that writes | decisions stand |
| Server, views, scores, validators, adapters, frontend | none of their own | routing, projections | all | - | - |

`PROJECT.json` lists each of them with its status, and under `hazards` the lines
where this code is hard to test.

## 2. Modules

| Module | Models | State and actions |
|---|---|---|
| `AtomicArtifact` | what callers of the store assume: a call commits in one step or does nothing | `content`, `method`, `doc`, `result`; `Commit`, `Conflict`, `GiveUp` |
| `ArtifactStore` | `lock`, `write_bytes`, `update_bytes` on one artifact | the lock file and its age, the temporary files, the program counter of each call; one action per file operation |
| `RunLifecycle` | the life of a run | `status` and its legal moves |
| `RunManager` | `run_manager.py` and the journal it writes | the stored runs, the journal, the call each actor is in; one action per store operation |
| `HarvestOrchestration` | `run_harvest`, `run_source`, ledger, retries | the ledger, status and checkpoint of each run, the local state of each harvest |
| `Acquisition` | the loops of the three acquisition routes | the stores, the local state of each request |
| `VersionedStore` | `demand_store.py` and `fit_store.py`, the same code | the file, the body each call is about to write, the acknowledged calls |
| `EventJournal` | `append`, `replay`, `find_by_idempotency_key` as operators on a sequence of events | none; `ResearchCases`, `TargetPlans` and `Learning` keep a journal by them |
| `SignalInbox` | ingestion, lifecycle, lists, saved searches, the pages of a search | the signals, one list, one client walking through the pages |
| `ResearchCases` | queue, ownership, blockers, review, reopening, staleness, claims | the stored case, the copy each person holds, the claims, the journal |
| `ResearchPass` | `run_pass` and its checkpoint | the caller's checkpoint, the call under way |
| `Demands` | lifecycle, links, POST and PATCH, checklist | the stored demand, each person's draft, the retired claims |
| `TargetPlans` | fit lifecycle and overrides, targeting gate, plan, committee, gate of outreach | fit, plan, committee, what each person has computed and not saved, the day, the verdicts |
| `Outreach` | a sequence from the day's queue to a send, inbound events | sequence, task, step, message, touchpoints, each person's work in hand |
| `Engagement` | inbound events to opportunity | inbox, conversation, objection, lead, opportunity, each person's copy |
| `Learning` | `create`, `transition` of a proposal | the file, the journal, the call each reviewer is in |
| `RecordMigration` | product, demand and network migrators | five stores, manifests, the call under way |
| `WorkspaceMigration` | `workspace_migrator.py` | sources, destinations, manifest, the file being copied |
| `Products` | publication of versions with snapshots | versions, snapshots, what each publisher has left to store |
| `Promotion` | candidates, sheets, index | harvest documents, sheets, index, the promotion under way |
| `Network` | JSONL files, index, import | the files, the tables, the server's job and the tool's |
| `Access` | sessions, contexts, handlers, audit | the tables of the control store, the requests in flight |
| `Studies` | study directories, queue, intake, rollups, sector view | the directories, the companies' records, the scripts under way |
| `Qualification` | the cockpit's stage and steps, targeting, hypotheses, strategy | the files of one study |
| `Nudges` | nudges, campaigns, board | the two files, the clock |
| `MCResearch`, `MCTargeting`, `MCOutreach`, `MCPlatform` | the composition of components, section 3 | `part` |
| other `MC*` | symmetry sets and small definitions for TLC | |
| `*Proofs` | theorems, section 6 | the inductive invariants of the modules they extend |

They stack. `ArtifactStore` takes a call apart into file operations and shows
when it is atomic; every module above it uses one step per store call and takes
the operation above apart. `HarvestOrchestration` uses one step per `RunManager` call,
which is sound because a run is known only to the harvest that prepared it; `Demands`
and `TargetPlans` save a fit or a demand in one step, whose inside is `VersionedStore`'s.
`ArtifactStore` refines `AtomicArtifact` (`AtomicWhileHeld`), `RunManager` refines
`RunLifecycle` (`ImplementsLifecycle`), and `HarvestOrchestration` takes the guards
and effects of its transitions from `RunLifecycle`. What a stolen lock would do
to the upper modules is not modelled in them: it is the condition under which
each of them is to be read.

What the data has become:

- In `ArtifactStore` a document is the set of calls whose contribution it holds.
  A digest (the version) is the document itself: equal digests mean equal documents.
- In `RunManager`, `updated_at` is a counter `rev`: it makes each stored run
  distinct, as a microsecond time stamp does. `utc_now` of the campaigns has seconds, and
  `Nudges` keeps a clock for it.
- The age of a lock and the deadline of a wait are Booleans that turn true in
  steps of their own. An orphaned lock may age at any moment; a held one only
  `MaxStalls` times.
- `os.replace` is atomic, a written file survives a crash of its process, and
  `O_CREAT | O_EXCL` succeeds for one process: what POSIX promises and the code
  assumes. The directory `fsync`, whose errors the code ignores, has no effect.
- In `ArtifactStore` the artifact exists from the start. `expected_version=None`
  means both "no check" and "no file", but the only caller that passes a version,
  `run_manager.py:140`, has read it from a file.
- A source ends as `ok`, `empty`, `error` or `timeout`, or its rows cannot be
  mapped. A hit is a locator and an excerpt: `dedup_key` distinguishes both, the
  evidence hash only the excerpt, `external_subject_ref` only the locator.
- A text is whether it holds a character `splitlines` cuts at; a score is above
  or below its threshold; a claim is whether it is a fact, sourced and active;
  a study is its company, its date, its profile and whether it is a stage, the
  study or a kept copy. A person's identity is a name and an employer, as `stable_id` has it.
- The journal's hash chain is the order of its sequence: no code rewrites a line.

Faults are a process that dies, or a store operation that raises, at any step
(`Crash`, `StampFails`, `CutShort`, `Stops`, `PublisherStops`, `ClerkStops`, `CopierStops`, `InstallerKilled`,
`Dies`, `Stop`, `StepRaises`, the `stops` of `Access`); in the modules where people
hold a copy, one who never puts it. There is no recovery code to model but the
migrators' rollbacks and the run of a script once more: what a restart finds is
what the files hold.

## 3. Runs

| Run | Instance | Shows |
|---|---|---|
| `artifact_store_safety` | 3 calls of any of 4 methods, 1 fault, 1 stall | exclusion, no lost or phantom write, atomicity |
| `artifact_store_returns` | 3 calls, 1 fault, 1 stall, fairness | every call returns |
| `run_manager_concurrent` | 2 actors, 2 runs, 1 key, 5 calls, 1 fault | lifecycle refinement, unique keys, journal agrees with runs up to faults |
| `run_manager_sequential` | 1 actor, 2 runs, 6 calls | what the tests claim, for one caller |
| `harvest` | 2 harvests, up to 2 sources, 2 attempts, 3 charges, 1 fault, fairness | charges, verdicts, checkpoints, settlement |
| `acquisition` | 2 threads, 3 requests of 3 kinds, 2 hits, 1 fault | bounded duplicates, mappings, orphans |
| `versioned_store` | 3 callers, 2 records, 5 calls, 1 fault | versions, loss only to overlap |
| `research` | 3 signals, pages of 1, 4 puts, 2 versions of a list; 2 people, 3 writes of a case, 2 events; 3 steps, 2 a call, 1 raise | pages, lists, acceptances, blockers, duties, budgets |
| `targeting` | 2 people, 3 saves of a demand; 2 people, 2 seats, 2 days, 3 saves | checklist, recorded verdicts, singular roles, stale plans |
| `outreach` | 2 people, 3 touchpoints, quota 1; 3 inbound events of 2 sources, 6 puts; 6 calls on a proposal | opt-outs, pipeline, every excess owed to an overlap or a cut |
| `platform` | nine components, each with the bounds of `platform.cfg` | section 3.2 |
| `artifact_store_lost_update` | 3 calls, 1 fault, no stall | finding 1 |

### 3.1 Composition

The parts of `MCResearch` share no state, nor do those of the other three: signals,
cases and passes are different files, and a case is handed a signal, not the
store of signals. Interleaving them would multiply their states and show
nothing, so a variable `part`, chosen once, says which of them a behaviour moves;
the others stay in an initial state. Each part is explored to the end of its bounds,
from every initial state of its own. Components that do interact are one module: the fit,
the plan, the committee and the gate in `TargetPlans`; sequence, task, step and inbound
event in `Outreach`; files, index and import in `Network`.

### 3.2 What the composed properties say

Most stores compare no version, so that "this never happens" is
false of nearly everything here, and the properties say instead what it takes: each
keeps a history (`overlapped`, `raced`, `cut`, `touched`...) that is set only by the step that
causes trouble, and holds that without such a step the promise is kept. The history is never set by a guard of the
property itself, and in every run there are states with the history unset in which the promise is at stake:
the mutants, which break the promise without the history, are the evidence.

- `PagesAndListsHold`: a client following the cursors gets what answered all along
  exactly once, whatever is put between pages; a smart list differs from its search only on signals put since.
- `AcceptedCasesHold`: an accepted case has its event in what the journal replays,
  and no blocker raised and unresolved, unless a copy was put over a record nobody had read.
- `OwnersDoNotAccept`: who ever owned a case accepts it only after a release.
- `PassesAreBounded`: a pass overspends by at most one step a call, and repeats a step
  only after a call that raised.
- `VerdictsAreEarned`: qualified means the checklist, but for a POST or PATCH; a plan
  has its PURSUE in the journal, but for a fit decided twice or patched; the two provenance questions agree.
- `OneOfEachAuthority`, `StalePlansReachNobody`: singular roles, and a stale plan that
  opens no outreach, unless an older copy was put over them.
- `OnlyWorkInHandOutlivesOptOut`: `send_touchpoint` asks neither step nor sequence,
  so what was in hand may go; nobody who opened their day after the cancellation writes.
- `PipelineRestsOnAMeeting`: no order of ingesting, qualifying, converting and creating
  makes an opportunity without a stored meeting.
- `ExcessOnlyByOverlap`: sends exceed the quota by the other people sending at most; an event recorded twice, a closed
  opportunity moved on, two verdicts of a proposal, a status without event each need an overlap or a cut.
- `MigrationsAreReversible`: what a record migration put is in a manifest, an offer has
  both its halves, people's records stay; a rolled back workspace is as it was
  but for what people wrote and the file in the copier's hand; an applied one is complete.
- `CatalogHolds`: one published version, its snapshot the one not stale, its event in the journal; every
  sheet indexed once, no sheet overwritten by a promotion, each up to overlaps and stops.
- `NetworkAndAccessHold`: with nobody at work the index shows the files, what a route answered for is on file,
  people have employers; every act rested on a session and a right that held
  at some moment of the request, and every override has its audit row.
- `StudiesHold`: a finished profile survives replacement; a company's study exists; a second
  sync has nothing to do; the view offers no benchmark the script would not build; the two derivations of a study's
  stage agree, and with the list of ready ones; a strategy speaks of the fit unless the
  fit was written later; the scripts and the cockpit read one fit alike; first decisions stand, acknowledgements until regeneration, sent campaigns until a relaunch.

Of the older runs: `AnswersAndJournalAgree` is that a repeated key is answered with
the same run and that the journal ends in the status of the run; `StartsAreNewAttempts`
that attempts increase and a run failed for good is not started again; `VerdictsAreAccounted`
that charges, refusals, checkpoints and verdicts of a harvest agree with what its sources did;
`EvidenceAndMappingsAgree` that a mapping rests on stored evidence and only a fault
leaves evidence without one. `RetainedWhileHeld` excludes callers that write a whole
document without `expected_version`. `OnlyFaultsLoseEvents` counts: transitions stored
exceed those journaled by one for each fault and call in progress at most. `CopiesBoundedByConcurrency`:
look-up-then-write makes no more copies than there are threads.

### 3.3 Bounds

Every bound is a constant of the configuration, named in a guard.

- Three calls are what a stolen lock needs: a crashed or stalled holder and two that
  reclaim. One fault and one stall suffice, each property being conditional on
  their consequence, not on their number.
- Five run-manager calls allow prepare, start, fail, resume and a competitor of any of them; six, one caller's
  prepare, repeated prepare, start, fail, resume and complete.
- Three charges for two harvests of two sources run out inside one, between two, or not at all.
- Three writes of a case are the shortest way to accept it, make it stale and lose a blocker in a stale copy;
  two people are an author and a reviewer. Three pages of one signal have a middle.
- Three saves of a plan are create, activate and one competitor; two days let an override expire.
- Three puts in outreach's hands, two people and a quota of one make the overrun and the race with an opt-out.
- The rollup threshold is 1 where the code has 3 (`build_sector_rollups.py`): two directories reach it
  and fall below it, which is all its properties compare. `Horizon = 0` lets a study
  grow old in a day. Two files, two legacy records, three versions and two offers give each loop a first, a last and one already done.

Deadlock is checked in the runs of single components, whose modules have an explicit step for "all calls are
over". The four composed runs switch it off: there the bounds stop the system.

### 3.4 Fairness

`FairSpec` of `ArtifactStore` has weak fairness of each call's own steps (a
runnable thread runs) and of the passing of its deadline (time passes). It does
not need the ageing of locks, the crashes or the stamp failure to be fair: a wait ends
by its deadline. `FairSpec` of `HarvestOrchestration` has weak fairness of each
harvest's next step: `run_source` returns within its time-out by
`future.result(timeout=...)`, ledger and run calls return by the run
`artifact_store_returns`. Crashes are never fair. The other modules state no
liveness: their next step is a person's, and nothing in the code obliges anybody to take it.

## 4. Findings

Each is in `PROJECT.json` with the sentence it contradicts; the run
`artifact_store_lost_update` keeps the first. The others are what the models showed
on the way, and the reason for the histories of section 3.2.

1. `artifact_store.py:135`: two waiters that both saw a stale lock; the second unlinks the lock the first has just taken, and an append is lost.
2. `run_manager.py:89`: concurrent prepares with one idempotency key return two runs.
3. `harvest_runner.py:130`: a row that cannot be mapped raises out of `run_harvest`; the run stays `started`.
4. `research_routes.py:109`: a case is answered with another company's evidence.
5. `demand_store.py:60`, `fit_store.py:53`: overlapping calls overwrite each other, even on different records.
6. `event_journal.py:90`: a text with U+0085, U+2028 or U+2029 makes every later `append` and `replay` raise.
7. `signal_lists.py:90`: a watchlist has no second version, though said to be a list with the same update path.
8. `research_orchestration.py:83`: a step that raises loses the results of those before it.
9. `research_review.py:65`, `fit_lifecycle.py:113`: one event key for all acceptances of a case, for all verdicts of a fit.
10. `demand_routes.py:73`: PATCH and POST make a demand qualified without the lifecycle.
11. `opportunity_policy.py:105`: a converted lead fails the whole-chain check; a converted lead can be qualified again.
12. `product_workflow.py:93`: overlapping publications leave two versions published.
13. `product_migrator.py:157`: a stop before the manifest leaves records that no rollback removes.
14. `catalog_promotion.py:243`: a sheet whose promotion stopped is overwritten by the next.
15. `import_contacts.py:94`: an import that stopped can never be run again.
16. `build_sector_rollups.py:129`: copies and stages of one company count as accounts.
17. `kanban.py:123`: the board, documented as read-only, regenerates nudges and drops acknowledgements.
18. `campaigns.py:124`: a campaign relaunched within its second replaces the one already sent.

Properties that are stated in the modules and refuted by TLC, kept beside their
conditional form for who repairs the code: `NoLostUpdate` (`ArtifactStore`, the
violation run), `SourceFailuresAreResults` (`HarvestOrchestration`), `AcquiredForTheCompany` (`Acquisition`),
`AcknowledgedEditsSurvive` (`VersionedStore`), `RollupsCoverAccounts` (`Studies`).

Also: with a `runtime/locks` directory that cannot be written (`LockDirWritable =
FALSE`) `EveryCallReturns` fails, `lock()` retrying without sleeping or looking at
its deadline; with two callers both parts of `StartsAreNewAttempts` and of `AnswersAndJournalAgree` fail; a harvest
whose sources all time out is `completed`; retries are not charged, and the ledger never resets.

## 5. Assumptions on constants

Each `ASSUME` is named, stands in the module that declares its constants and says no more than:

- the bounds are naturals (a calendar or a clock has a day 1 or a second 1, a store at least
  one document, a record one edition);
- what stands for "none" is none of the values (`NoLock \notin Procs`, `NoKey \notin Keys`, `NoRun \notin Runs`,
  `NoOne \notin People`, `NoOne \notin Users`, `NoRef \notin SourceRefs`, `Unlisted \notin Tenants`), and `Ids` and `Reps` are not empty;
- the sets people and files are drawn from are finite where something is counted over them (`Actors`,
  `Requests`, `Reps`, `SignalIds`, `Paths`);
- names are numbers where the code goes by their order: signals in the order of their identifiers, the files of a
  workspace as `Paths = 1..n` in the order the migrator walks them, legacy records and texts from 1, 0 being none;
- subsets are subsets (`Meetings \subseteq SourceRefs`, `Searches \subseteq Criteria`, `ClaimPool \subseteq Claims`), and there is a
  workspace `default`.

TLC evaluates them in every run. No theorem fixes a number of calls, actors, people,
records, files, companies or faults. Where a theorem needs more (one caller at a time, no fault), the
hypothesis is in its `ASSUME ... PROVE` and not among these.

## 6. Theorems

Every invariant and action property of a passing run is also a theorem, for every value of the constants.
Each proof has the same shape: an invariant `IInv` that the initial states have and every step keeps,
one lemma or step per action, and the property from it. What is worth reading is what had to be
added to the property to make it inductive.

### 6.1 The store and the runs

`ArtifactStoreProofs`. The inductive invariant `IInv` follows the argument of
`lock()`: while no lock was removed under its holder, the lock file is the one
its holder created (`LockOwned`); so nobody else renames, and what a call read is
still the content when it renames (`SeenIsCurrent`). `MutualExclusion` alone is
not inductive: it does not say that the lock file exists while someone works.
`NoResultYet` and `CopiesWritten` carry the no-phantom argument through blind
writers, whose documents are built from copies. From it: `TypeCorrect`,
`Exclusion`, `NothingLost`, `NoPhantoms`, `Atomicity`; and, when `MaxFaults` and
`MaxStalls` are 0, `NothingLostWithoutFaults` and `Refinement` to
`AtomicArtifact`. Those two show that finding 1 needs a crash or a stall, and
nothing else goes wrong without one.

`RunManagerProofs`. `CallInv` pins what a call carries between its steps: a call
about to write holds a document whose status allows its operation. The version
check makes it the stored document at the moment of the write, hence the move is
legal then: `Refinement` to `RunLifecycle`. `KeysUnique` and `EventsNameRuns` are
inductive with it; `TypeCorrect` comes with the same steps.

- `OnlyFaultsLose` counts. `LossInv` adds that every write of a run but its first is a transition,
  owed an event, and that an append under way is of one. The transitions of a run neither journaled nor in the hand of a call
  are a set of pairs (`LostEvents`), not a sum over the runs, so that a write, an append or a crash changes it by one
  element at most and the bound by the faults is kept by the cardinality of finite sets.
- `AloneStartsAreNewAttempts` and `AloneAnswersAndJournalAgree` assume `OneCaller` (any two actors are the
  same one), which is the premise of the repository's tests; the second also assumes `MaxFaults = 0`, a stop between
  document and event being a journal that lags for good. With two callers TLC refutes both,
  so the hypotheses are needed. `ReadsAreFresh` says that what the caller read is what is stored, `AnswersAreJournaled`
  that a key being prepared is on no event, `JournalFollows` that the journal lags behind a run by the call in progress.

`VersionedStoreProofs`. `HoldsUpTo(f, n)` says a file holds each edit acknowledged
up to write `n` unless an overlapping call lost it; the file on disk holds up to
now, the body a call is about to write up to its read (`PendingInv`). A write then
loses only what was written since its read, which is what overlapping means:
`LossNeedsOverlap`. `VersionsCount` and `TypeCorrect` come with it.

### 6.2 Harvests and acquisition

`HarvestProofs`. `VerdictsAccounted` needs to know, at each step of `run_harvest`, which status
the run has (`StatusFollows`), how many sources are behind (`SourcesFollow`), that the checkpoint is written once and past the loop
(`TokenFollows`) and that the sources tried, of all harvests, are no more than the charges of the shared ledger (`Charged`). From
`StatusFollows` each transition asked for is one `RunLifecycle` allows: `HarvestsKeepTheLifecycle`
is that refinement for every harvest at once.
For the routes, `CopiesBounded` is not inductive: copies alone may be one less than the threads while
two threads have looked and found none. `Room(copies, writers)` counts those about to write as well. `MappingsSupported` likewise
counts the orphans that are in the hand of a request between its two writes, one each (`InHandOnce`), beside those a fault has left (`OrphansOwed`).

### 6.3 Research, targeting, outreach

`ResearchProofs`. `PagesAndLists`: a walk has seen nothing twice and nothing beyond its cursor, and what has answered its
search all along it has seen up to the cursor (`WalkInv`). `AcceptedCases` and `DutiesSeparated` are about copies
people hold: `Sound` is asked of every copy as of the stored case, and `MadeOf` compares a copy with the record it was made from (`base`), so
that a put without an overlap, for which `base` is what is stored, inherits it. `PassesBounded`: a call goes on from its checkpoint
(`CallInv`) and a step beyond it ran at most once for each call that raised (`RanInv`).

`TargetingProofs`. `Checked` is asked of drafts as of the stored demand; `Earned` is stable, hence it can be established when a
plan is computed and used when it is saved; `Singular` is a property of a committee that a change computed
from a fresh copy keeps (`HandOK`). `StaleMeansStopped` is an action property: no step opens outreach through a plan
that was stale once, unless a copy was put over it.

`OutreachProofs`. The bound of `ExcessExplained` holds by `Quoted`: sends and clearances not yet used
are together at most the quota and the other people. `OptOutRespected` needs that nobody computes a
change of a cancelled sequence; `MeetingFirst` that everything past a qualified lead, also in hand, came after a
recorded meeting; the proposals' part that the journal's statuses are those the file has had (`Passed`).

### 6.4 The platform

`PlatformProofs`. The nine components of `MCPlatform` share no variable, so `IInv` is a
conjunction of nine invariants and each step keeps one by its own lemma and the others because nothing of theirs changes.

- `TypeCorrect`: all of them.
- `MigrationsComeBack`. A record put is in a stored manifest *or in the list the call under way will store*
  (`ListsFollow`); both halves of an offer are there *but for the item in hand* (`OffersFollow`), in a put and in a rollback. For a workspace, what the plan saw
  is what was there (`PlanFollows`), a file that differs from before is marked applied or in the
  copier's hand (`DestinationFollows`), and the files are taken in order (`CopierFollows`).
- `CatalogCoherent`. The version published last is the current one: each publication has a version and a
  place in the order of its own, and whoever is about to keep its records over what is published came after all on record (`PublisherFollows`, `PublishedLast`). For the catalog, a sheet
  outside the index is the one in the clerk's hand, so a promotion finds none where it writes (`SheetsFollow`).
- `NetworkAndAccessSound`. The index is the files, or known to be behind, or being rebuilt (`IndexFollows`); a person
  without an employer is of the import between two of its files (`EmployersFollow`). A request's context has held at
  some moment since the request came (`CallFollows`), which is all the code promises and all an act rests on. The trail is compared with the overrides by
  positions: the *i*-th override has the *i*-th event of its kind.
- `StudiesStay`. `Backed`: a study somebody's record, or a sync's copy of it, points at is there or between the two renames
  of its installation. `SettledFor`: what the queue would answer if the stage under way were refused, since until its installation
  it may be; a sync that has gone through a company has settled it, and nothing on the same day
  unsettles it. That the view never promises a benchmark the script would refuse is an injection of its companies into the script's studies. The two derivations of a stage are equal by definition of their
  steps, in every state; the nudges' three properties are inductive with what their histories say.

### 6.5 Only model-checked

- Liveness (`EveryCallReturns`, `EveryHarvestSettles`): the prover does not reason about fairness or `ENABLED`.
- That the refuted properties of section 4 are refuted.
- Whether the histories that excuse a property (section 3.2) are set only when they must be: a theorem holds
  also of a history set too often, the mutants of the runs do not.

## 7. Plan

The runs cover every component with state that two steps share, and the theorems every safety property of the runs. Left:

1. `HarvestOrchestration` composed with `Acquisition`: a completed run's `output_refs` name stored
   records, but for a crash. It needs smaller instances of both to finish in time.
2. What a stolen lock does above the store: the modules that use one step per store call assume that no lock is; `NothingLost` says
   for which callers that is all they need.

## 8. Not modelled

- Pure functions of records handed in: fit and screening scores, red-team and eval checks, `identity_resolution`, `network_temporal`,
  `product_diff`, `product_visibility`, `evaluate_experiment`, `cache_key`. They keep nothing, and their tests reach each branch;
  a module that depends on one chooses its outcome freely.
- Projections: dashboard, insights, account, person, company, committee and value-chain views, `catalog_search`.
- `retry_step`, whose answer no caller stores, and the completion of a sequence, which no function does; `put_claim`, one blind write; the
  blocker action log, which nothing reads back; meeting and decision notes, proofs and outcomes, which are validated and kept.
- HTTP routing, response shapes, request validation, path handling (`workspace_paths`, `_path`), formatting and wording.
- The network clients under `scripts/social_search`, the OIDC exchange and the browser code: somebody else's code or another program's state;
  they are modelled by their outcomes.
- Validators and report builders under `scripts/` and `skills/`: offline, each reads files and prints, or writes one report nobody else writes.
- The dimensions of a budget other than calls, which nobody charges.
- In `Studies`, the files a study holds beside its manifest and profile, and the ICB rules (an arbitrary choice of the tool).

## 9. Running

    tlc -config platform.cfg MCPlatform.tla
    tlapm ArtifactStoreProofs.tla

and likewise for the other rows of section 3 and the other proof modules. The
longest run, `platform`, takes about two and a half minutes with two workers; the others less than two.
The longest proof, `PlatformProofs`, takes about ten minutes from nothing; the others less than two.
