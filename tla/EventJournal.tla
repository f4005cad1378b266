---------------------------- MODULE EventJournal ----------------------------
(***************************************************************************)
(* app/event_journal.py: what replay, find_by_idempotency_key and append   *)
(* compute from the journal they read.  append runs inside update_bytes,   *)
(* so a whole call is one step (ArtifactStore).  The hash chain is         *)
(* abstracted to the order of the sequence: an event follows the one       *)
(* before it and no code rewrites a line.                                  *)
(*                                                                         *)
(* An event is a record [type, key, splits].  It is one line of JSON       *)
(* written with ensure_ascii=False and read back with splitlines, which    *)
(* also cuts at U+0085, U+2028 and U+2029: `splits` says that a text of    *)
(* the event has one of those characters, so its line does not parse.      *)
(***************************************************************************)
EXTENDS Naturals, Sequences

NoKey == "no key"

(* The first line a reader cannot parse, or the one after the last.        *)
FirstBroken(journal) ==
  CHOOSE n \in 1..Len(journal) + 1 :
    /\ n <= Len(journal) => journal[n].splits
    /\ \A i \in 1..n - 1 : ~journal[i].splits

Readable(journal) == FirstBroken(journal) > Len(journal)

(* replay yields the events before the line it raises at.                  *)
Replayed(journal) == SubSeq(journal, 1, FirstBroken(journal) - 1)

Found(journal, key) ==
  /\ key # NoKey
  /\ \E i \in DOMAIN Replayed(journal) : journal[i].key = key

(* append stops at a line it cannot parse, unless the key is found first.  *)
CanAppend(journal, key) == Readable(journal) \/ Found(journal, key)

Appended(journal, event) ==
  IF Found(journal, event.key) THEN journal ELSE Append(journal, event)
=============================================================================
