---------------------------- MODULE ArtifactStore ----------------------------
(***************************************************************************)
(* app/artifact_store.py on one artifact: the lock file taken with         *)
(* O_CREAT | O_EXCL, reclaimed when its mtime is older than                *)
(* stale_lock_seconds, and released by an unconditional unlink; under it   *)
(* the read, the version check, the temporary file and the rename.         *)
(*                                                                         *)
(* The processes are calls from threads of the server or from scripts that *)
(* share the file system.  Time is not counted: a lock ages past           *)
(* stale_lock_seconds and a wait passes lock_timeout_seconds in steps of   *)
(* their own.                                                              *)
(***************************************************************************)
EXTENDS Naturals

CONSTANTS
  Procs,           \* calls on the artifact
  Methods,         \* the operations a call may be (see AtomicArtifact)
  NoLock,          \* the lock file does not exist
  LockDirWritable, \* FALSE: every open of the lock file raises PermissionError
  MaxFaults,       \* bound on crashes and on lock files that cannot be stamped
  MaxStalls        \* bound on live holders that outlast stale_lock_seconds

VARIABLES
  content,  \* the document in the file: the calls whose contribution it holds
  method,   \* method[p]: the operation p is
  doc,      \* doc[p]: the document p's caller read before calling
  seen,     \* seen[p]: the document p found under the lock
  pc,       \* pc[p]: where p is
  result,   \* result[p]: what the call returned or raised, "none" before
  lock,     \* the process that created the existing lock file, or NoLock
  old,      \* the lock file's mtime is older than stale_lock_seconds
  late,     \* late[p]: p waits, and has for lock_timeout_seconds
  temps,    \* calls whose temporary file exists
  faults, stalls,  \* counters bounded by MaxFaults and MaxStalls
  stolen    \* history: a lock file was removed under a holder still at work

vars == <<content, method, doc, seen, pc, result, lock, old, late, temps,
          faults, stalls, stolen>>

Atomic == INSTANCE AtomicArtifact

Waiting == {"open", "stat", "reclaim"}
Holding == {"read", "temp", "replace", "cleanup", "unlock"}
Stopped == {"returned", "crashed"}
PCs == {"idle"} \cup Waiting \cup Holding \cup Stopped

ASSUME ConstantsAssumption ==
  /\ Methods \subseteq Atomic!AllMethods
  /\ NoLock \notin Procs
  /\ LockDirWritable \in BOOLEAN
  /\ MaxFaults \in Nat
  /\ MaxStalls \in Nat

(* p believes it is inside `with self.lock(target)`.                       *)
Holds(p) == pc[p] \in Holding

TypeOK ==
  /\ content \in SUBSET Procs
  /\ method \in [Procs -> Methods]
  /\ doc \in [Procs -> SUBSET Procs]
  /\ seen \in [Procs -> SUBSET Procs]
  /\ pc \in [Procs -> PCs]
  /\ result \in [Procs -> Atomic!Results]
  /\ lock \in Procs \cup {NoLock}
  /\ old \in BOOLEAN
  /\ lock = NoLock => ~old
  /\ late \in [Procs -> BOOLEAN]
  /\ temps \in SUBSET Procs
  /\ faults \in 0..MaxFaults
  /\ stalls \in 0..MaxStalls
  /\ stolen \in BOOLEAN

Init ==
  /\ content = {}
  /\ method \in [Procs -> Methods]
  /\ doc = [p \in Procs |-> {}]
  /\ seen = [p \in Procs |-> {}]
  /\ pc = [p \in Procs |-> "idle"]
  /\ result = [p \in Procs |-> "none"]
  /\ lock = NoLock
  /\ old = FALSE
  /\ late = [p \in Procs |-> FALSE]
  /\ temps = {}
  /\ faults = 0
  /\ stalls = 0
  /\ stolen = FALSE

Goto(p, from, to) == pc[p] = from /\ pc' = [pc EXCEPT ![p] = to]
Outcome(p, r) == result' = [result EXCEPT ![p] = r]

files == <<content, lock, old, temps>>
calls == <<method, doc, seen, late>>
history == <<faults, stalls, stolen>>

(* The caller reads the document (read_bytes, no lock) and calls.          *)
Call(p) ==
  /\ Goto(p, "idle", "open")
  /\ doc' = [doc EXCEPT ![p] = content]
  /\ UNCHANGED <<content, method, seen, result, lock, old, late, temps, history>>

(* O_CREAT without O_EXCL, and with it.                                    *)
OpenAlways == TRUE
LockFree == lock = NoLock

(* os.open(O_CREAT | O_EXCL) succeeds and the file is stamped.             *)
Acquire(p) ==
  /\ Goto(p, "open", "read")
  /\ LockDirWritable
  /\ LockFree
  /\ lock' = p
  /\ old' = FALSE
  /\ late' = [late EXCEPT ![p] = FALSE]
  /\ UNCHANGED <<content, temps, method, doc, seen, result, history>>

(* The lock file is created but writing its stamp fails: the OSError       *)
(* leaves lock() before its try/finally, and the file stays.               *)
StampFails(p) ==
  /\ Goto(p, "open", "returned")
  /\ LockDirWritable
  /\ LockFree
  /\ faults < MaxFaults
  /\ lock' = p
  /\ old' = FALSE
  /\ Outcome(p, "failed")
  /\ faults' = faults + 1
  /\ UNCHANGED <<content, temps, calls, stalls, stolen>>

(* FileExistsError or PermissionError.                                     *)
OpenRefused(p) ==
  /\ Goto(p, "open", "stat")
  /\ ~LockFree \/ ~LockDirWritable
  /\ UNCHANGED <<files, calls, result, history>>

(* The deadline, left out and tested.                                      *)
NeverTimedOut(p) == FALSE
TimedOut(p) == late[p]

(* lock_path.stat() and the two decisions after it.  A missing lock file   *)
(* retries without looking at the deadline.                                *)
Stat(p) ==
  /\ \/ /\ lock = NoLock
        /\ Goto(p, "stat", "open")
        /\ UNCHANGED result
     \/ /\ lock # NoLock /\ old
        /\ Goto(p, "stat", "reclaim")
        /\ UNCHANGED result
     \/ /\ lock # NoLock /\ ~old /\ TimedOut(p)
        /\ Goto(p, "stat", "returned")
        /\ Outcome(p, "timeout")
     \/ /\ lock # NoLock /\ ~old /\ ~TimedOut(p)
        /\ Goto(p, "stat", "open")
        /\ UNCHANGED result
  /\ UNCHANGED <<files, calls, history>>

(* The lock file reused, with the mtime it had.                            *)
RemoveLockOnly == lock' = NoLock /\ UNCHANGED old

(* unlink(missing_ok=True) removes whichever lock file is there now.       *)
RemoveLock == lock' = NoLock /\ old' = FALSE

Reclaim(p) ==
  /\ Goto(p, "reclaim", "open")
  /\ RemoveLock
  /\ stolen' = (stolen \/ \E q \in Procs : lock = q /\ Holds(q))
  /\ UNCHANGED <<content, temps, calls, result, faults, stalls>>

(* The document read before taking the lock, and after.                    *)
ReadBefore(p) == doc[p]
LatestLocked(p) == content

(* previous = version(target), the expected_version check, and for         *)
(* update_bytes the updater, which may raise.                              *)
ReadUnderLock(p) ==
  /\ seen' = [seen EXCEPT ![p] = LatestLocked(p)]
  /\ \/ /\ Atomic!Checked(p) /\ content # doc[p]
        /\ Goto(p, "read", "unlock")
        /\ Outcome(p, "conflict")
     \/ /\ Atomic!Checked(p) => content = doc[p]
        /\ Goto(p, "read", "temp")
        /\ UNCHANGED result
     \/ /\ Atomic!Checked(p) => content = doc[p]
        /\ Atomic!Derives(p)
        /\ Goto(p, "read", "unlock")
        /\ Outcome(p, "failed")
  /\ UNCHANGED <<files, method, doc, late, history>>

(* mkstemp, then write, flush and fsync; any of them may raise OSError.    *)
WriteTemp(p) ==
  /\ \/ /\ Goto(p, "temp", "replace")
        /\ temps' = temps \cup {p}
        /\ UNCHANGED result
     \/ /\ Goto(p, "temp", "unlock")
        /\ Outcome(p, "failed")
        /\ UNCHANGED temps
     \/ /\ Goto(p, "temp", "cleanup")
        /\ temps' = temps \cup {p}
        /\ Outcome(p, "failed")
  /\ UNCHANGED <<content, lock, old, calls, history>>

(* An error after the rename (fsync of the directory) let through.         *)
ReplaceThenFail(p) ==
  /\ Goto(p, "replace", "cleanup")
  /\ content' = Atomic!NewDocument(p, seen[p])
  /\ temps' = temps \ {p}
  /\ result' \in {[result EXCEPT ![p] = r] : r \in {"ok", "failed"}}
  /\ UNCHANGED <<lock, old, calls, history>>

(* os.replace installs the temporary file whole, or raises.                *)
Replace(p) ==
  /\ Goto(p, "replace", "cleanup")
  /\ \/ /\ content' = Atomic!NewDocument(p, seen[p])
        /\ temps' = temps \ {p}
        /\ Outcome(p, "ok")
     \/ /\ UNCHANGED <<content, temps>>
        /\ Outcome(p, "failed")
  /\ UNCHANGED <<lock, old, calls, history>>

(* finally: temporary.unlink(missing_ok=True)                              *)
Cleanup(p) ==
  /\ Goto(p, "cleanup", "unlock")
  /\ temps' = temps \ {p}
  /\ UNCHANGED <<content, lock, old, calls, result, history>>

(* finally: lock_path.unlink(missing_ok=True), whoever created the file.   *)
Unlock(p) ==
  /\ Goto(p, "unlock", "returned")
  /\ RemoveLock
  /\ stolen' = (stolen \/ \E q \in Procs \ {p} : lock = q /\ Holds(q))
  /\ UNCHANGED <<content, temps, calls, result, faults, stalls>>

(* The process dies: no finally clause runs.                               *)
Crash(p) ==
  /\ pc[p] \in Waiting \cup Holding
  /\ faults < MaxFaults
  /\ faults' = faults + 1
  /\ pc' = [pc EXCEPT ![p] = "crashed"]
  /\ result' = [result EXCEPT ![p] = IF @ = "none" THEN "crashed" ELSE @]
  /\ UNCHANGED <<files, calls, stalls, stolen>>

(* The deadline of p's wait passes.                                        *)
DeadlinePasses(p) ==
  /\ pc[p] \in Waiting
  /\ ~late[p]
  /\ late' = [late EXCEPT ![p] = TRUE]
  /\ UNCHANGED <<files, method, doc, seen, pc, result, history>>

(* The lock file becomes older than stale_lock_seconds.  Without a holder  *)
(* this is only a matter of time; a holder at work must have stalled.      *)
LockAges ==
  /\ lock # NoLock
  /\ ~old
  /\ old' = TRUE
  /\ IF Holds(lock) THEN stalls < MaxStalls /\ stalls' = stalls + 1
                    ELSE UNCHANGED stalls
  /\ UNCHANGED <<content, lock, temps, calls, pc, result, faults, stolen>>

Finished ==
  /\ \A p \in Procs : pc[p] \in Stopped
  /\ UNCHANGED vars

(* The steps p's own thread takes once it has called.                      *)
Step(p) ==
  \/ Acquire(p) \/ OpenRefused(p) \/ Stat(p) \/ Reclaim(p)
  \/ ReadUnderLock(p) \/ WriteTemp(p) \/ Replace(p) \/ Cleanup(p) \/ Unlock(p)

Next ==
  \/ \E p \in Procs : \/ Call(p) \/ Step(p) \/ StampFails(p)
                      \/ Crash(p) \/ DeadlinePasses(p)
  \/ LockAges
  \/ Finished

Spec == Init /\ [][Next]_vars

(* A thread that can run does, and time passes.                            *)
Fairness == \A p \in Procs : WF_vars(Step(p)) /\ WF_vars(DeadlinePasses(p))
FairSpec == Spec /\ Fairness
-----------------------------------------------------------------------------
(* At most one call works under the lock, as long as no lock file was      *)
(* removed under a holder still at work (lock(), the only exclusion the    *)
(* store has between threads and processes).                               *)
MutualExclusion ==
  ~stolen => \A p, q \in Procs : Holds(p) /\ Holds(q) => p = q

(* update_bytes: "Atomically derive new bytes from the latest locked       *)
(* content."  A contribution that was reported as written is still in the  *)
(* file, whatever calls came later, unless some caller writes a whole      *)
(* document without expected_version.                                      *)
Retained(p) == result[p] = "ok" => p \in content
Disciplined == \A p \in Procs : method[p] # "blind_write"
RetainedWhileHeld == ~stolen /\ Disciplined => \A p \in Procs : Retained(p)

(* Nothing reaches the file from a call that reported a failure, a         *)
(* conflict or a timeout, even when locks were stolen and writers blind.   *)
NoPhantomWrite == \A p \in content : result[p] = "ok"

(* Every step is a step of AtomicArtifact, or invisible, while no lock was *)
(* removed under its holder.                                               *)
AtomicWhileHeld == [][~stolen' => [Atomic!Next]_(Atomic!vars)]_vars

(* The same promise without a condition, for calls nothing disturbs.       *)
ImplementsAtomic == Atomic!Spec

(* Every call that was made returns, raises or dies with its process: the  *)
(* retry loop of lock() has no infinite run.                               *)
EveryCallReturns ==
  \A p \in Procs : (pc[p] = "open") ~> (pc[p] \in Stopped)

(* The claim test_concurrent_jsonl_appends_do_not_lose_records makes, with *)
(* no condition on locks: no reported write is lost.                       *)
NoLostUpdate == Disciplined => \A p \in Procs : Retained(p)
=============================================================================
