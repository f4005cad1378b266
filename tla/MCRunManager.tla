---------------------------- MODULE MCRunManager ----------------------------
(* Small instances of RunManager for TLC.                                  *)
EXTENDS RunManager, TLC

(* With one caller at a time: a key is answered with one run, and the last *)
(* event of a run is its status (test_prepare_idempotency_does_not_        *)
(* duplicate_run, RunManager._transition).                                 *)
AnswersAndJournalAgree == SameRunForKey /\ JournalEndsInStatus

Symmetry == Permutations(Actors) \cup Permutations(Runs)
=============================================================================
