---------------------------- MODULE SignalInbox ----------------------------
(***************************************************************************)
(* Signals: the adapters of signal_ingestion.py, the lifecycle of          *)
(* signal_policy.py, the store and its pages (signal_store.py), saved      *)
(* searches and lists (signal_lists.py).  put_signal replaces one record   *)
(* under the lock of update_bytes: one step.  Signal identifiers are       *)
(* random, so a new signal sorts anywhere: they are numbers taken in any   *)
(* order.  The pages of list_cases, list_fits, list_demands, list_plans    *)
(* and list_touchpoints are cut by the same code.                          *)
(***************************************************************************)
EXTENDS Naturals, FiniteSets, FiniteSetsExt

CONSTANTS
  SignalIds,     \* the identifiers uuid4 may give, by their sort order
  Kinds,         \* source kinds
  Limit,         \* the page size
  Searches,      \* the criteria clients search by
  MaxPuts,       \* bound on the calls that write the store
  MaxVersions    \* bound on the versions of a list

ASSUME SignalAssumption ==
  /\ SignalIds \subseteq Nat \ {0}
  /\ IsFiniteSet(SignalIds)
  /\ Kinds \subseteq {"public", "manual", "import"}
  /\ Limit \in Nat \ {0}
  /\ MaxPuts \in Nat
  /\ MaxVersions \in Nat

VARIABLES
  signals,   \* the store: identifier -> record
  list,      \* the last version of one list, and the signals put since
  walk,      \* a client that follows next_cursor from page to page
  puts

signalVars == <<signals, list, walk, puts>>

Statuses == {"new", "reviewed", "linked", "dismissed", "expired"}
Signal == [kind : Kinds, status : Statuses]
Criteria == [kind : Kinds \cup {"any"}, status : Statuses \cup {"any"}]

ASSUME SearchAssumption == Searches \subseteq Criteria

Transitions == {<<"new", "reviewed">>, <<"new", "expired">>,
                <<"reviewed", "linked">>, <<"reviewed", "dismissed">>,
                <<"reviewed", "expired">>, <<"linked", "expired">>}

Matches(s, criteria) ==
  /\ criteria.kind \in {"any", s.kind}
  /\ criteria.status \in {"any", s.status}

Search(store, criteria) == {i \in DOMAIN store : Matches(store[i], criteria)}

NoList == [kind |-> "none", version |-> 0, members |-> {},
           criteria |-> [kind |-> "any", status |-> "any"], touched |-> {}]
NoWalk == [state |-> "none", cursor |-> 0, seen |-> [i \in SignalIds |-> 0],
           steady |-> {}, criteria |-> [kind |-> "any", status |-> "any"]]

SignalTypeOK ==
  /\ DOMAIN signals \subseteq SignalIds
  /\ \A i \in DOMAIN signals : signals[i] \in Signal
  /\ list.kind \in {"none", "list", "smart_list", "watchlist"}
  /\ list.version \in Nat
  /\ list.members \cup list.touched \cup walk.steady \subseteq SignalIds
  /\ {list.criteria, walk.criteria} \subseteq Criteria
  /\ walk.state \in {"none", "on", "done"}
  /\ walk.cursor \in SignalIds \cup {0}
  /\ walk.seen \in [SignalIds -> Nat]
  /\ puts \in 0..MaxPuts

SignalInit ==
  /\ signals = <<>>
  /\ list = NoList
  /\ walk = NoWalk
  /\ puts = 0

(* put_signal for the records of `new`, with the histories the properties  *)
(* speak of: the signals put since the list was made, and those that       *)
(* answered the search of the walk all along.                              *)
Put(new) ==
  LET store == [i \in DOMAIN signals \cup DOMAIN new |->
                  IF i \in DOMAIN new THEN new[i] ELSE signals[i]]
  IN /\ puts < MaxPuts
     /\ signals' = store
     /\ list' = [list EXCEPT !.touched = @ \cup DOMAIN new]
     /\ walk' = [walk EXCEPT !.steady = @ \cap Search(store, walk.criteria)]
     /\ puts' = puts + 1

(***************************************************************************)
(* Ingestion and lifecycle                                                 *)
(***************************************************************************)
Fresh == SignalIds \ DOMAIN signals

(* ingest_public and ingest_manual: one signal, status "new".              *)
Ingest(kind) ==
  \E i \in Fresh : Put([x \in {i} |-> [kind |-> kind, status |-> "new"]])

(* ingest_import: a batch with a malformed row gives nothing at all.       *)
IngestImport(rows) ==
  /\ "import" \in Kinds
  /\ \A n \in DOMAIN rows : rows[n] = "wellformed"
  /\ \E ids \in kSubset(Cardinality(DOMAIN rows), Fresh) :
       Put([i \in ids |-> [kind |-> "import", status |-> "new"]])

Move(i, status) ==
  /\ <<signals[i].status, status>> \in Transitions
  /\ Put([x \in {i} |-> [signals[i] EXCEPT !.status = status]])

(***************************************************************************)
(* Lists                                                                   *)
(***************************************************************************)
NewVersion(kind, members, criteria) ==
  /\ list.version < MaxVersions
  /\ list' = [kind |-> kind, version |-> list.version + 1, members |-> members,
              criteria |-> criteria, touched |-> {}]
  /\ UNCHANGED <<signals, walk, puts>>

Create(kind, members) ==
  /\ list = NoList
  /\ NewVersion(kind, members, NoList.criteria)

(* update_list_members refuses a watchlist and a smart list.               *)
UpdateMembers(members) ==
  /\ list.kind = "list"
  /\ NewVersion("list", members, list.criteria)

Materialize(criteria) ==
  /\ list.kind \in {"none", "smart_list"}
  /\ NewVersion("smart_list", Search(signals, criteria), criteria)

(***************************************************************************)
(* Pages: list_signals, called again with the next_cursor of its answer    *)
(***************************************************************************)
(* A cursor that is the first record of the next page.                     *)
FromCursor(ids, cursor) == {i \in ids : i >= cursor}

After(ids, cursor) == {i \in ids : i > cursor}

Page(ids) == {i \in ids : Cardinality({j \in ids : j < i}) < Limit}

BeginWalk(criteria) ==
  /\ walk.state = "none"
  /\ walk' = [NoWalk EXCEPT !.state = "on", !.criteria = criteria,
                            !.steady = Search(signals, criteria)]
  /\ UNCHANGED <<signals, list, puts>>

(* The answer without a next_cursor ends the walk.                         *)
NextPage ==
  LET rest == After(Search(signals, walk.criteria), walk.cursor)
      page == Page(rest)
  IN /\ walk.state = "on"
     /\ walk' = [walk EXCEPT
                   !.seen = [i \in SignalIds |-> @[i] + IF i \in page THEN 1 ELSE 0],
                   !.state = IF Cardinality(rest) > Limit THEN "on" ELSE "done",
                   !.cursor = IF Cardinality(rest) > Limit THEN Max(page) ELSE 0]
     /\ UNCHANGED <<signals, list, puts>>

SignalNext ==
  \/ \E kind \in Kinds \ {"import"} : Ingest(kind)
  \/ \E rows \in [1..2 -> {"wellformed", "malformed"}] : IngestImport(rows)
  \/ \E i \in DOMAIN signals, status \in Statuses : Move(i, status)
  \/ \E kind \in {"list", "watchlist"}, members \in SUBSET DOMAIN signals : Create(kind, members)
  \/ \E members \in SUBSET DOMAIN signals : UpdateMembers(members)
  \/ \E criteria \in Searches : Materialize(criteria)
  \/ \E criteria \in Searches : BeginWalk(criteria)
  \/ NextPage

(***************************************************************************)
(* Properties                                                              *)
(***************************************************************************)
(* A client that follows the cursors to the end is given every signal      *)
(* that answered its search all along exactly once, and no signal twice,   *)
(* whatever is put between two pages (the cursor is an identifier, not a   *)
(* position).                                                              *)
PagesAreComplete ==
  /\ \A i \in SignalIds : walk.seen[i] <= 1
  /\ walk.state = "done" => \A i \in walk.steady : walk.seen[i] = 1

(* A smart list and the answer its search would give now differ only on    *)
(* signals put since it was materialized: it is a snapshot, stale for no   *)
(* other reason.                                                           *)
SmartListStaleOnlyByPuts ==
  list.kind = "smart_list" =>
    \A i \in SignalIds :
      (i \in list.members) # (i \in DOMAIN signals /\ list.criteria.kind \in {"any", signals[i].kind}
                              /\ list.criteria.status \in {"any", signals[i].status})
        => i \in list.touched
=============================================================================
