------------------------- MODULE ArtifactStoreProofs -------------------------
(***************************************************************************)
(* ArtifactStore for any number of calls, crashes and stalls.  The chain:  *)
(* the lock file belongs to whoever works under it (LockOwned); therefore  *)
(* what a call read is still the file's content when it renames            *)
(* (SeenIsCurrent); therefore nothing reported is lost, and a rename is an *)
(* atomic commit.                                                          *)
(***************************************************************************)
EXTENDS ArtifactStore, TLAPS

(* The lock file is the one its holder created.                            *)
LockOwned == ~stolen => \A p \in Procs : Holds(p) => lock = p

(* Between its read and its rename a call's copy is the file's content,    *)
(* and the version check it passed still stands.                           *)
SeenIsCurrent ==
  ~stolen => \A p \in Procs : pc[p] \in {"temp", "replace"} =>
                /\ seen[p] = content
                /\ Atomic!Checked(p) => doc[p] = content

(* A call has no result before its rename.                                 *)
NoResultYet ==
  \A p \in Procs : pc[p] \in {"idle", "read", "temp", "replace"} \cup Waiting
                     => result[p] = "none"

(* The copies that later documents are built from hold only contributions  *)
(* that reached the file.                                                  *)
CopiesWritten ==
  \A p \in Procs : \A q \in doc[p] \cup seen[p] : result[q] = "ok"

IInv == /\ TypeOK /\ LockOwned /\ SeenIsCurrent
        /\ NoResultYet /\ NoPhantomWrite /\ CopiesWritten

USE DEF Atomic!Results

(* The variables always have their types, for every set of calls and every *)
(* bound on faults and stalls (the type invariant of artifact_store.py).   *)
THEOREM TypeCorrect == Spec => []TypeOK
<1>1. Init => TypeOK
  <2> SUFFICES ASSUME Init PROVE TypeOK
    OBVIOUS
  <2>1. 0 \in 0..MaxFaults /\ 0 \in 0..MaxStalls
    BY ConstantsAssumption
  <2> QED
    BY <2>1 DEF Init, TypeOK, PCs
<1>2. TypeOK /\ [Next]_vars => TypeOK'
  <2> SUFFICES ASSUME TypeOK, [Next]_vars PROVE TypeOK'
    OBVIOUS
  <2> USE ConstantsAssumption DEF TypeOK, PCs, Waiting, Holding, Stopped, Goto, Outcome,
          files, calls, history, RemoveLock
  <2>1. ASSUME NEW p \in Procs, Call(p) PROVE TypeOK'
    BY <2>1 DEF Call
  <2>2. ASSUME NEW p \in Procs, Acquire(p) PROVE TypeOK'
    BY <2>2 DEF Acquire, LockFree
  <2>3. ASSUME NEW p \in Procs, OpenRefused(p) PROVE TypeOK'
    BY <2>3 DEF OpenRefused, LockFree
  <2>4. ASSUME NEW p \in Procs, Stat(p) PROVE TypeOK'
    BY <2>4 DEF Stat, TimedOut
  <2>5. ASSUME NEW p \in Procs, Reclaim(p) PROVE TypeOK'
    BY <2>5 DEF Reclaim
  <2>6. ASSUME NEW p \in Procs, ReadUnderLock(p) PROVE TypeOK'
    BY <2>6 DEF ReadUnderLock, LatestLocked
  <2>7. ASSUME NEW p \in Procs, WriteTemp(p) PROVE TypeOK'
    BY <2>7 DEF WriteTemp
  <2>8. ASSUME NEW p \in Procs, Replace(p) PROVE TypeOK'
    BY <2>8 DEF Replace, Atomic!NewDocument
  <2>9. ASSUME NEW p \in Procs, Cleanup(p) PROVE TypeOK'
    BY <2>9 DEF Cleanup
  <2>10. ASSUME NEW p \in Procs, Unlock(p) PROVE TypeOK'
    BY <2>10 DEF Unlock
  <2>11. ASSUME NEW p \in Procs, StampFails(p) PROVE TypeOK'
    <3>1. faults' \in 0..MaxFaults
      BY <2>11 DEF StampFails, LockFree
    <3> QED
      BY <2>11, <3>1 DEF StampFails, LockFree
  <2>12. ASSUME NEW p \in Procs, Crash(p) PROVE TypeOK'
    BY <2>12 DEF Crash
  <2>13. ASSUME NEW p \in Procs, DeadlinePasses(p) PROVE TypeOK'
    BY <2>13 DEF DeadlinePasses
  <2>14. CASE LockAges
    BY <2>14 DEF LockAges
  <2>15. CASE UNCHANGED vars
    BY <2>15 DEF vars
  <2> QED
    BY <2>1, <2>2, <2>3, <2>4, <2>5, <2>6, <2>7, <2>8, <2>9, <2>10, <2>11,
       <2>12, <2>13, <2>14, <2>15 DEF Next, Step, Finished
<1> QED
  BY <1>1, <1>2, PTL DEF Spec

(* Who owns the lock file after a step: the one fact each action must      *)
(* re-establish for the holders it leaves under the lock.                  *)
LEMMA LockOwnedStep ==
  ASSUME IInv, [Next]_vars
  PROVE  LockOwned'
<1> SUFFICES ASSUME ~stolen', NEW q \in Procs, Holds(q)'
             PROVE  lock' = q
  BY DEF LockOwned
<1> USE ConstantsAssumption DEF IInv, TypeOK, LockOwned, Holds, PCs, Waiting, Holding,
        Stopped, Goto, Outcome, files, calls, history, RemoveLock
<1>1. ASSUME NEW p \in Procs, Call(p) PROVE lock' = q
  BY <1>1 DEF Call
<1>2. ASSUME NEW p \in Procs, Acquire(p) PROVE lock' = q
  BY <1>2 DEF Acquire, LockFree
<1>3. ASSUME NEW p \in Procs, OpenRefused(p) PROVE lock' = q
  BY <1>3 DEF OpenRefused, LockFree
<1>4. ASSUME NEW p \in Procs, Stat(p) PROVE lock' = q
  BY <1>4 DEF Stat, TimedOut
<1>5. ASSUME NEW p \in Procs, Reclaim(p) PROVE lock' = q
  BY <1>5 DEF Reclaim
<1>6. ASSUME NEW p \in Procs, ReadUnderLock(p) PROVE lock' = q
  BY <1>6 DEF ReadUnderLock, LatestLocked
<1>7. ASSUME NEW p \in Procs, WriteTemp(p) PROVE lock' = q
  BY <1>7 DEF WriteTemp
<1>8. ASSUME NEW p \in Procs, Replace(p) PROVE lock' = q
  BY <1>8 DEF Replace
<1>9. ASSUME NEW p \in Procs, Cleanup(p) PROVE lock' = q
  BY <1>9 DEF Cleanup
<1>10. ASSUME NEW p \in Procs, Unlock(p) PROVE lock' = q
  BY <1>10 DEF Unlock
<1>11. ASSUME NEW p \in Procs, StampFails(p) PROVE lock' = q
  BY <1>11 DEF StampFails, LockFree
<1>12. ASSUME NEW p \in Procs, Crash(p) PROVE lock' = q
  BY <1>12 DEF Crash
<1>13. ASSUME NEW p \in Procs, DeadlinePasses(p) PROVE lock' = q
  BY <1>13 DEF DeadlinePasses
<1>14. CASE LockAges
  BY <1>14 DEF LockAges
<1>15. CASE UNCHANGED vars
  BY <1>15 DEF vars
<1> QED
  BY <1>1, <1>2, <1>3, <1>4, <1>5, <1>6, <1>7, <1>8, <1>9, <1>10, <1>11,
     <1>12, <1>13, <1>14, <1>15 DEF Next, Step, Finished

(* Only a rename changes the file, and only its own call is then under     *)
(* the lock.                                                               *)
LEMMA SeenIsCurrentStep ==
  ASSUME IInv, [Next]_vars
  PROVE  SeenIsCurrent'
<1> SUFFICES ASSUME ~stolen', NEW q \in Procs, pc'[q] \in {"temp", "replace"}
             PROVE  /\ seen'[q] = content'
                    /\ Atomic!Checked(q)' => doc'[q] = content'
  BY DEF SeenIsCurrent
<1> DEFINE Goal == /\ seen'[q] = content'
                   /\ Atomic!Checked(q)' => doc'[q] = content'
<1> USE DEF IInv, TypeOK, SeenIsCurrent, PCs, Waiting, Holding, Stopped, Goto,
        Outcome, files, calls, history, Atomic!Checked
<1>1. ASSUME NEW p \in Procs, Call(p) PROVE Goal
  BY <1>1 DEF Call
<1>2. ASSUME NEW p \in Procs, Acquire(p) PROVE Goal
  BY <1>2 DEF Acquire, LockFree
<1>3. ASSUME NEW p \in Procs, OpenRefused(p) PROVE Goal
  BY <1>3 DEF OpenRefused, LockFree
<1>4. ASSUME NEW p \in Procs, Stat(p) PROVE Goal
  BY <1>4 DEF Stat, TimedOut
<1>5. ASSUME NEW p \in Procs, Reclaim(p) PROVE Goal
  BY <1>5 DEF Reclaim
<1>6. ASSUME NEW p \in Procs, ReadUnderLock(p) PROVE Goal
  BY <1>6 DEF ReadUnderLock, LatestLocked
<1>7. ASSUME NEW p \in Procs, WriteTemp(p) PROVE Goal
  BY <1>7 DEF WriteTemp
<1>8. ASSUME NEW p \in Procs, Replace(p) PROVE Goal
  <2>1. p # q
    BY <1>8 DEF Replace
  <2>2. Holds(p) /\ Holds(q) /\ ~stolen
    BY <1>8, <2>1 DEF Replace, Holds
  <2> QED
    BY <2>1, <2>2 DEF LockOwned
<1>9. ASSUME NEW p \in Procs, Cleanup(p) PROVE Goal
  BY <1>9 DEF Cleanup
<1>10. ASSUME NEW p \in Procs, Unlock(p) PROVE Goal
  BY <1>10 DEF Unlock
<1>11. ASSUME NEW p \in Procs, StampFails(p) PROVE Goal
  BY <1>11 DEF StampFails, LockFree
<1>12. ASSUME NEW p \in Procs, Crash(p) PROVE Goal
  BY <1>12 DEF Crash
<1>13. ASSUME NEW p \in Procs, DeadlinePasses(p) PROVE Goal
  BY <1>13 DEF DeadlinePasses
<1>14. CASE LockAges
  BY <1>14 DEF LockAges
<1>15. CASE UNCHANGED vars
  BY <1>15 DEF vars
<1> QED
  BY <1>1, <1>2, <1>3, <1>4, <1>5, <1>6, <1>7, <1>8, <1>9, <1>10, <1>11,
     <1>12, <1>13, <1>14, <1>15 DEF Next, Step, Finished

(* Results appear no earlier than the rename, and what is in the file, or  *)
(* was copied from it, was put there by calls whose result is "ok".        *)
LEMMA ResultStep ==
  ASSUME IInv, [Next]_vars
  PROVE  NoResultYet' /\ NoPhantomWrite' /\ CopiesWritten'
<1> USE DEF IInv, TypeOK, NoResultYet, NoPhantomWrite, CopiesWritten, PCs,
        Waiting, Holding, Stopped, Goto, Outcome, files, calls, history
<1> DEFINE Goal == NoResultYet' /\ NoPhantomWrite' /\ CopiesWritten'
<1>1. ASSUME NEW p \in Procs, Call(p) PROVE Goal
  BY <1>1 DEF Call
<1>2. ASSUME NEW p \in Procs, Acquire(p) PROVE Goal
  BY <1>2 DEF Acquire, LockFree
<1>3. ASSUME NEW p \in Procs, OpenRefused(p) PROVE Goal
  BY <1>3 DEF OpenRefused, LockFree
<1>4. ASSUME NEW p \in Procs, Stat(p) PROVE Goal
  BY <1>4 DEF Stat, TimedOut
<1>5. ASSUME NEW p \in Procs, Reclaim(p) PROVE Goal
  BY <1>5 DEF Reclaim
<1>6. ASSUME NEW p \in Procs, ReadUnderLock(p) PROVE Goal
  BY <1>6 DEF ReadUnderLock, LatestLocked
<1>7. ASSUME NEW p \in Procs, WriteTemp(p) PROVE Goal
  BY <1>7 DEF WriteTemp
<1>8. ASSUME NEW p \in Procs, Replace(p) PROVE Goal
  BY <1>8 DEF Replace, Atomic!NewDocument
<1>9. ASSUME NEW p \in Procs, Cleanup(p) PROVE Goal
  BY <1>9 DEF Cleanup
<1>10. ASSUME NEW p \in Procs, Unlock(p) PROVE Goal
  BY <1>10 DEF Unlock
<1>11. ASSUME NEW p \in Procs, StampFails(p) PROVE Goal
  BY <1>11 DEF StampFails, LockFree
<1>12. ASSUME NEW p \in Procs, Crash(p) PROVE Goal
  BY <1>12 DEF Crash
<1>13. ASSUME NEW p \in Procs, DeadlinePasses(p) PROVE Goal
  BY <1>13 DEF DeadlinePasses
<1>14. CASE LockAges
  BY <1>14 DEF LockAges
<1>15. CASE UNCHANGED vars
  BY <1>15 DEF vars
<1> QED
  BY <1>1, <1>2, <1>3, <1>4, <1>5, <1>6, <1>7, <1>8, <1>9, <1>10, <1>11,
     <1>12, <1>13, <1>14, <1>15 DEF Next, Step, Finished

LEMMA InitIInv == ASSUME Init PROVE IInv
<1>1. TypeOK
  <2>1. 0 \in 0..MaxFaults /\ 0 \in 0..MaxStalls
    BY ConstantsAssumption
  <2> QED
    BY <2>1 DEF Init, TypeOK, PCs
<1> QED
  BY <1>1 DEF Init, IInv, LockOwned, SeenIsCurrent, NoResultYet, NoPhantomWrite,
              CopiesWritten, Holds, Holding

LEMMA IInvariant == Spec => []IInv
<1>1. IInv /\ [Next]_vars => LockOwned' /\ SeenIsCurrent' /\ NoResultYet'
                              /\ NoPhantomWrite' /\ CopiesWritten'
  BY LockOwnedStep, SeenIsCurrentStep, ResultStep
<1>2. Init => IInv
  BY InitIInv
<1>3. IInv <=> /\ TypeOK /\ LockOwned /\ SeenIsCurrent
               /\ NoResultYet /\ NoPhantomWrite /\ CopiesWritten
  BY DEF IInv
<1> QED
  BY <1>1, <1>2, <1>3, TypeCorrect, PTL DEF Spec

(* Mutual exclusion under the lock holds as long as no lock file is        *)
(* removed under a holder still at work (lock() in artifact_store.py).     *)
THEOREM Exclusion == Spec => []MutualExclusion
<1>1. IInv => MutualExclusion
  BY DEF IInv, LockOwned, MutualExclusion
<1> QED
  BY <1>1, IInvariant, PTL

(* Only a rename changes the file, and it keeps what was there.            *)
LEMMA RetainedStep ==
  ASSUME IInv, IInv', RetainedWhileHeld, [Next]_vars
  PROVE  RetainedWhileHeld'
<1> SUFFICES ASSUME ~stolen', Disciplined', NEW q \in Procs, result'[q] = "ok"
             PROVE  q \in content'
  BY DEF RetainedWhileHeld, Retained
<1>1. method' = method /\ Disciplined
  BY DEF Next, Step, Finished, vars, Call, Acquire, LockFree, OpenRefused, Stat, TimedOut, Reclaim,
         ReadUnderLock, WriteTemp, Replace, Cleanup, Unlock, StampFails, Crash,
         DeadlinePasses, LockAges, calls, Disciplined
<1>2. ~stolen
  BY DEF Next, Step, Finished, vars, Call, Acquire, LockFree, OpenRefused, Stat, TimedOut, Reclaim,
         ReadUnderLock, WriteTemp, Replace, Cleanup, Unlock, StampFails, Crash,
         DeadlinePasses, LockAges, history
<1>3. CASE \E p \in Procs : Replace(p)
  <2>1. PICK p \in Procs : Replace(p)
    BY <1>3
  <2>2. seen[p] = content /\ (Atomic!Checked(p) => doc[p] = content)
    BY <1>2, <2>1 DEF IInv, SeenIsCurrent, Replace, Goto
  <2>3. Atomic!NewDocument(p, seen[p]) = content \cup {p}
    <3>1. method[p] \in {"update", "checked_update", "checked_write"}
      BY <1>1, ConstantsAssumption DEF Disciplined, IInv, TypeOK, Atomic!AllMethods
    <3> QED
      BY <2>2, <3>1 DEF Atomic!NewDocument, Atomic!Derives, Atomic!Checked
  <2>4. content' = content \/ content' = content \cup {p}
    BY <2>1, <2>3 DEF Replace
  <2>5. CASE q = p
    BY <2>1, <2>3, <2>5 DEF Replace, Outcome, IInv, TypeOK
  <2>6. CASE q # p
    <3>1. result[q] = "ok"
      BY <2>1, <2>6 DEF Replace, Outcome, IInv, TypeOK
    <3> QED
      BY <3>1, <2>4, <1>1, <1>2 DEF RetainedWhileHeld, Retained
  <2> QED
    BY <2>5, <2>6
<1>4. CASE ~ \E p \in Procs : Replace(p)
  <2>1. content' = content
    BY <1>4 DEF Next, Step, Finished, vars, Call, Acquire, LockFree, OpenRefused, Stat, TimedOut, Reclaim,
         ReadUnderLock, WriteTemp, Cleanup, Unlock, StampFails, Crash, DeadlinePasses,
         LockAges, files
  <2>2. result[q] = "ok"
    BY <1>4 DEF Next, Step, Finished, vars, Call, Acquire, LockFree, OpenRefused, Stat, TimedOut, Reclaim,
         ReadUnderLock, WriteTemp, Cleanup, Unlock, StampFails, Crash, DeadlinePasses,
         LockAges, Outcome, IInv, TypeOK
  <2> QED
    BY <1>1, <1>2, <2>1, <2>2 DEF RetainedWhileHeld, Retained
<1> QED
  BY <1>3, <1>4

(* Under that condition and without blind writers, what was reported as    *)
(* written stays in the file (update_bytes and write_bytes with            *)
(* expected_version).                                                      *)
THEOREM NothingLost == Spec => []RetainedWhileHeld
<1>1. Init => RetainedWhileHeld
  BY DEF Init, RetainedWhileHeld, Retained
<1>2. IInv /\ IInv' /\ RetainedWhileHeld /\ [Next]_vars => RetainedWhileHeld'
  BY RetainedStep
<1> QED
  BY <1>1, <1>2, IInvariant, PTL DEF Spec

(* A call that reported anything but success has put nothing in the file,  *)
(* even when locks were stolen (the finally blocks of write_bytes and      *)
(* update_bytes).                                                          *)
THEOREM NoPhantoms == Spec => []NoPhantomWrite
<1>1. IInv => NoPhantomWrite
  BY DEF IInv
<1> QED
  BY <1>1, IInvariant, PTL

(* Each step of the store is one step of AtomicArtifact or changes nothing *)
(* the abstract artifact shows, while no lock is stolen: a rename commits, *)
(* a refused version check is a conflict, every other return gives up.     *)
LEMMA StepIsAtomic ==
  ASSUME IInv, [Next]_vars, ~stolen'
  PROVE  [Atomic!Next]_(Atomic!vars)
<1> DEFINE Goal == [Atomic!Next]_(Atomic!vars)
<1> USE DEF Goto, Outcome, files, calls, history
<1>1. ASSUME NEW p \in Procs, Call(p) PROVE Goal
  <2>1. result[p] = "none"
    BY <1>1 DEF Call, IInv, NoResultYet
  <2>2. Atomic!Read(p)
    BY <1>1, <2>1 DEF Call, Atomic!Read
  <2> QED
    BY <2>2 DEF Atomic!Next
<1>2. ASSUME NEW p \in Procs,
             \/ Acquire(p) \/ OpenRefused(p) \/ Reclaim(p) \/ Cleanup(p)
             \/ Unlock(p) \/ DeadlinePasses(p)
      PROVE Goal
  BY <1>2 DEF Acquire, LockFree, OpenRefused, Reclaim, Cleanup, Unlock, DeadlinePasses, Atomic!vars
<1>3. ASSUME NEW p \in Procs, result[p] = "none", UNCHANGED <<content, method, doc>>,
             NEW r \in {"failed", "timeout", "crashed"},
             result' = [result EXCEPT ![p] = r]
      PROVE Goal
  BY <1>3 DEF Atomic!GiveUp, Atomic!Next
<1>4. ASSUME NEW p \in Procs, Stat(p) PROVE Goal
  <2>1. CASE UNCHANGED result
    BY <1>4, <2>1 DEF Stat, TimedOut, Atomic!vars
  <2>2. CASE result' = [result EXCEPT ![p] = "timeout"]
    BY <1>3, <1>4, <2>2 DEF Stat, TimedOut, IInv, NoResultYet, Waiting
  <2> QED
    BY <1>4, <2>1, <2>2 DEF Stat, TimedOut
<1>5. ASSUME NEW p \in Procs, ReadUnderLock(p) PROVE Goal
  <2>1. result[p] = "none"
    BY <1>5 DEF ReadUnderLock, LatestLocked, IInv, NoResultYet
  <2>2. CASE UNCHANGED result
    BY <1>5, <2>2 DEF ReadUnderLock, LatestLocked, Atomic!vars
  <2>3. CASE result' = [result EXCEPT ![p] = "failed"]
    BY <1>3, <1>5, <2>1, <2>3 DEF ReadUnderLock, LatestLocked
  <2>4. CASE Atomic!Checked(p) /\ content # doc[p]
             /\ result' = [result EXCEPT ![p] = "conflict"]
    <3>1. Atomic!Conflict(p)
      BY <1>5, <2>1, <2>4 DEF ReadUnderLock, LatestLocked, Atomic!Conflict
    <3> QED
      BY <3>1 DEF Atomic!Next
  <2> QED
    BY <1>5, <2>2, <2>3, <2>4 DEF ReadUnderLock, LatestLocked
<1>6. ASSUME NEW p \in Procs, WriteTemp(p) PROVE Goal
  <2>1. result[p] = "none"
    BY <1>6 DEF WriteTemp, IInv, NoResultYet
  <2>2. CASE UNCHANGED result
    BY <1>6, <2>2 DEF WriteTemp, Atomic!vars
  <2>3. CASE result' = [result EXCEPT ![p] = "failed"]
    BY <1>3, <1>6, <2>1, <2>3 DEF WriteTemp
  <2> QED
    BY <1>6, <2>2, <2>3 DEF WriteTemp
<1>7. ASSUME NEW p \in Procs, Replace(p) PROVE Goal
  <2>1. result[p] = "none"
    BY <1>7 DEF Replace, IInv, NoResultYet
  <2>2. CASE content' = content /\ result' = [result EXCEPT ![p] = "failed"]
    BY <1>3, <1>7, <2>1, <2>2 DEF Replace
  <2>3. CASE content' = Atomic!NewDocument(p, seen[p])
             /\ result' = [result EXCEPT ![p] = "ok"]
    <3>1. seen[p] = content /\ (Atomic!Checked(p) => doc[p] = content)
      BY <1>7 DEF Replace, IInv, SeenIsCurrent
    <3>2. Atomic!Commit(p)
      BY <1>7, <2>1, <2>3, <3>1 DEF Replace, Atomic!Commit
    <3> QED
      BY <3>2 DEF Atomic!Next
  <2> QED
    BY <1>7, <2>2, <2>3 DEF Replace
<1>8. ASSUME NEW p \in Procs, StampFails(p) PROVE Goal
  BY <1>3, <1>8 DEF StampFails, LockFree, IInv, NoResultYet, Waiting
<1>9. ASSUME NEW p \in Procs, Crash(p) PROVE Goal
  <2>1. CASE result[p] = "none"
    BY <1>3, <1>9, <2>1 DEF Crash
  <2>2. CASE result[p] # "none"
    BY <1>9, <2>2 DEF Crash, IInv, TypeOK, Atomic!vars
  <2> QED
    BY <2>1, <2>2
<1>10. CASE LockAges \/ UNCHANGED vars
  BY <1>10 DEF LockAges, vars, Atomic!vars
<1> QED
  BY <1>1, <1>2, <1>4, <1>5, <1>6, <1>7, <1>8, <1>9, <1>10 DEF Next, Step, Finished

(* ArtifactStore implements AtomicArtifact as long as no lock file is      *)
(* removed under its holder.                                               *)
THEOREM Atomicity == Spec => AtomicWhileHeld
<1>1. IInv /\ [Next]_vars => [~stolen' => [Atomic!Next]_(Atomic!vars)]_vars
  BY StepIsAtomic
<1> QED
  BY <1>1, IInvariant, PTL DEF Spec, AtomicWhileHeld

(* Where nobody crashes, no lock file is left unstamped and no holder      *)
(* outlasts stale_lock_seconds, no lock is ever reclaimed, so the promises *)
(* hold without a condition.                                               *)
NoFaults == MaxFaults = 0 /\ MaxStalls = 0

(* The lock file never looks stale, and always has a holder.               *)
NeverStale ==
  /\ ~old /\ ~stolen
  /\ lock # NoLock => Holds(lock)
  /\ \A p \in Procs : pc[p] # "reclaim"

LEMMA NeverStaleStep ==
  ASSUME NoFaults, IInv, NeverStale, [Next]_vars
  PROVE  NeverStale'
<1> USE ConstantsAssumption DEF NoFaults, NeverStale, IInv, TypeOK, LockOwned, Holds,
        PCs, Waiting, Holding, Stopped, Goto, Outcome, files, calls, history, RemoveLock
<1>1. ASSUME NEW p \in Procs, Call(p) PROVE NeverStale'
  BY <1>1 DEF Call
<1>2. ASSUME NEW p \in Procs, Acquire(p) PROVE NeverStale'
  BY <1>2 DEF Acquire, LockFree
<1>3. ASSUME NEW p \in Procs, OpenRefused(p) PROVE NeverStale'
  BY <1>3 DEF OpenRefused, LockFree
<1>4. ASSUME NEW p \in Procs, Stat(p) PROVE NeverStale'
  BY <1>4 DEF Stat, TimedOut
<1>5. ASSUME NEW p \in Procs, Reclaim(p) PROVE NeverStale'
  BY <1>5 DEF Reclaim
<1>6. ASSUME NEW p \in Procs, ReadUnderLock(p) PROVE NeverStale'
  BY <1>6 DEF ReadUnderLock, LatestLocked
<1>7. ASSUME NEW p \in Procs, WriteTemp(p) PROVE NeverStale'
  BY <1>7 DEF WriteTemp
<1>8. ASSUME NEW p \in Procs, Replace(p) PROVE NeverStale'
  BY <1>8 DEF Replace
<1>9. ASSUME NEW p \in Procs, Cleanup(p) PROVE NeverStale'
  BY <1>9 DEF Cleanup
<1>10. ASSUME NEW p \in Procs, Unlock(p) PROVE NeverStale'
  BY <1>10 DEF Unlock
<1>11. ASSUME NEW p \in Procs, StampFails(p) \/ Crash(p) PROVE NeverStale'
  BY <1>11 DEF StampFails, LockFree, Crash
<1>12. ASSUME NEW p \in Procs, DeadlinePasses(p) PROVE NeverStale'
  BY <1>12 DEF DeadlinePasses
<1>13. CASE LockAges
  BY <1>13 DEF LockAges
<1>14. CASE UNCHANGED vars
  BY <1>14 DEF vars
<1> QED
  BY <1>1, <1>2, <1>3, <1>4, <1>5, <1>6, <1>7, <1>8, <1>9, <1>10, <1>11,
     <1>12, <1>13, <1>14 DEF Next, Step, Finished

(* With no fault and no stall, no reported write is ever lost: the claim   *)
(* of test_concurrent_jsonl_appends_do_not_lose_records, for any number of *)
(* calls, exactly where it is true.                                        *)
THEOREM NothingLostWithoutFaults ==
  ASSUME NoFaults
  PROVE  Spec => []NoLostUpdate
<1>1. Init => NeverStale
  BY DEF Init, NeverStale
<1>2. IInv /\ NeverStale /\ [Next]_vars => NeverStale'
  BY NoFaults, NeverStaleStep
<1>3. NeverStale /\ RetainedWhileHeld => NoLostUpdate
  BY DEF NeverStale, RetainedWhileHeld, NoLostUpdate
<1> QED
  BY <1>1, <1>2, <1>3, IInvariant, NothingLost, PTL DEF Spec

(* With no fault and no stall the store is AtomicArtifact: each call takes *)
(* effect in one step or not at all (artifact_store.py against what its    *)
(* callers assume).                                                        *)
THEOREM Refinement ==
  ASSUME NoFaults
  PROVE  Spec => ImplementsAtomic
<1>1. Init => NeverStale /\ Atomic!Init
  BY DEF Init, NeverStale, Atomic!Init
<1>2. IInv /\ NeverStale /\ [Next]_vars => NeverStale' /\ [Atomic!Next]_(Atomic!vars)
  <2>1. IInv /\ NeverStale /\ [Next]_vars => NeverStale'
    BY NoFaults, NeverStaleStep
  <2>2. NeverStale' => ~stolen'
    BY DEF NeverStale
  <2> QED
    BY <2>1, <2>2, StepIsAtomic
<1> QED
  BY <1>1, <1>2, IInvariant, PTL DEF Spec, ImplementsAtomic, Atomic!Spec
=============================================================================
