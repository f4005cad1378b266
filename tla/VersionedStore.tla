---------------------------- MODULE VersionedStore ----------------------------
(***************************************************************************)
(* app/demand_store.py, and app/fit_store.py, which has the same code: all *)
(* records of a workspace in one JSONL file, each with a _version counter. *)
(* create and update read the whole file, check, and write the whole file  *)
(* back through an updater that ignores what it finds.  The read and the   *)
(* write are one step each (ArtifactStore); calls from the threads of the  *)
(* server interleave between them.                                         *)
(***************************************************************************)
EXTENDS Naturals, FiniteSets

CONSTANTS
  Callers,    \* threads of the server, and the migrator
  Ids,        \* demand_id or fit_assessment_id
  MaxCalls,   \* bound on the calls made
  MaxFaults   \* bound on calls cut short by a crash or a store error

ASSUME ConstantsAssumption ==
  /\ Ids # {}
  /\ MaxCalls \in Nat
  /\ MaxFaults \in Nat

VARIABLES
  file,      \* file[i]: the stored record i
  call,      \* call[a]: the call a is in the middle of
  acks,      \* history: the calls acknowledged, with when they read and wrote
  calls, writes, faults

vars == <<file, call, acks, calls, writes, faults>>

Numbers == 1..MaxCalls   \* calls, in the order they are made

(* A record, by its version and the calls whose change it holds.           *)
Records == [version : 0..MaxCalls, edits : SUBSET Numbers]
Absent == [version |-> 0, edits |-> {}]

(* body is the file a call is about to write, read the number of writes    *)
(* there had been when it read the file.                                   *)
Calls == [pc : {"idle", "write"}, id : Ids, number : 0..MaxCalls,
          body : [Ids -> Records], read : Nat]
Acks == [number : Numbers, id : Ids, read : Nat, wrote : Nat]

TypeOK ==
  /\ file \in [Ids -> Records]
  /\ call \in [Callers -> Calls]
  /\ acks \subseteq Acks
  /\ calls \in 0..MaxCalls
  /\ writes \in Nat
  /\ faults \in 0..MaxFaults

Idle == [pc |-> "idle", id |-> CHOOSE i \in Ids : TRUE, number |-> 0,
         body |-> [i \in Ids |-> Absent], read |-> 0]

Init ==
  /\ file = [i \in Ids |-> Absent]
  /\ call = [a \in Callers |-> Idle]
  /\ acks = {}
  /\ calls = 0 /\ writes = 0 /\ faults = 0

At(a, pc) == call[a].pc = pc
Exists(i) == file[i].version > 0

(***************************************************************************)
(* _read_all, the check, and the new list of records                       *)
(***************************************************************************)
Begin(a) ==
  /\ At(a, "idle")
  /\ calls < MaxCalls
  /\ calls' = calls + 1

Accept(a, i, record) ==
  call' = [call EXCEPT ![a] =
    [pc |-> "write", id |-> i, number |-> calls + 1,
     body |-> [file EXCEPT ![i] = record], read |-> writes]]

(* AlreadyExists, NotFound or Conflict is raised.                          *)
Refuse == UNCHANGED call

Create(a, i) ==
  /\ Begin(a)
  /\ IF Exists(i) THEN Refuse
     ELSE Accept(a, i, [version |-> 1, edits |-> {calls + 1}])
  /\ UNCHANGED <<file, acks, writes, faults>>

SameVersion(record) == record.version
VersionTwice(record) == record.version + 2
NewVersion(record) == record.version + 1

(* The mutator returning the changes alone, and {**current, **changes}.    *)
ChangesOnly(record, n) == [version |-> NewVersion(record), edits |-> {n}]
Updated(record, n) == [version |-> NewVersion(record), edits |-> record.edits \cup {n}]

Update(a, i, expected) ==
  /\ Begin(a)
  /\ IF ~Exists(i) \/ file[i].version # expected THEN Refuse
     ELSE Accept(a, i, Updated(file[i], calls + 1))
  /\ UNCHANGED <<file, acks, writes, faults>>

(***************************************************************************)
(* _write_all: the updater returns the body, whatever the file holds now.  *)
(***************************************************************************)
WriteAll(a) ==
  LET c == call[a] IN
  /\ At(a, "write")
  /\ file' = c.body
  /\ writes' = writes + 1
  /\ acks' = acks \cup {[number |-> c.number, id |-> c.id, read |-> c.read,
                         wrote |-> writes + 1]}
  /\ call' = [call EXCEPT ![a] = Idle]
  /\ UNCHANGED <<calls, faults>>

(* The process dies, or the store raises.                                  *)
CutShort(a) ==
  /\ At(a, "write")
  /\ faults < MaxFaults
  /\ faults' = faults + 1
  /\ call' = [call EXCEPT ![a] = Idle]
  /\ UNCHANGED <<file, acks, calls, writes>>

Done ==
  /\ calls = MaxCalls
  /\ \A a \in Callers : At(a, "idle")
  /\ UNCHANGED vars

Next ==
  \/ \E a \in Callers :
       \/ \E i \in Ids : Create(a, i)
       \/ \E i \in Ids, expected \in Numbers : Update(a, i, expected)
       \/ WriteAll(a)
       \/ CutShort(a)
  \/ Done

Spec == Init /\ [][Next]_vars
-----------------------------------------------------------------------------
(* A record's version counts the changes it holds, so that two callers who *)
(* know the same version of what one file held know the same record.       *)
VersionsCountEdits == \A i \in Ids : file[i].version = Cardinality(file[i].edits)

(* d read the file before c wrote it, and wrote it after.                  *)
Overwrites(d, c) == d.read < c.wrote /\ c.wrote < d.wrote

Survives(c) == c.number \in file[c.id].edits

(* An acknowledged create or update is lost only to another acknowledged   *)
(* call that was under way while it wrote: never by a crash, a conflict, a *)
(* later call or calls one at a time (_read_all, then _write_all).         *)
LostOnlyToOverlap ==
  \A c \in acks : Survives(c) \/ \E d \in acks : Overwrites(d, c)

(* As the docstring of demand_store.py has it: no concurrent edit is       *)
(* silently overwritten and no existing record replaced.                   *)
AcknowledgedEditsSurvive == \A c \in acks : Survives(c)
=============================================================================
