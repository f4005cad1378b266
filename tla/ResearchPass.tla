---------------------------- MODULE ResearchPass ----------------------------
(***************************************************************************)
(* research_orchestration.py: run_pass over one list of steps, called      *)
(* again with the checkpoint of its last answer until it completes.  The   *)
(* cost of a step is known when it has run.  A step that raises ends the   *)
(* call with no answer: its caller is left with the checkpoint it had.     *)
(***************************************************************************)
EXTENDS Naturals

CONSTANTS
  Steps,        \* len(steps)
  MaxSteps,     \* PassBudget.max_steps, per call
  MaxCost,      \* PassBudget.max_cost, over all calls
  StepCost,     \* bound on the cost of a step
  MaxRaises     \* bound on the calls cut short by a step

ASSUME PassAssumption ==
  /\ Steps \in Nat \ {0}
  /\ MaxSteps \in Nat \ {0}
  /\ MaxCost \in Nat \ {0}
  /\ StepCost \in Nat
  /\ MaxRaises \in Nat

VARIABLES
  checkpoint,  \* the caller's: next_index and cost_spent
  pass,        \* the call under way: its index, its cost, the steps it ran
  ran,         \* ran[i]: the times step i ran
  calls,       \* calls that answered
  raises

passVars == <<checkpoint, pass, ran, calls, raises>>

Idle == [on |-> FALSE, index |-> 0, spent |-> 0, steps |-> 0]

PassTypeOK ==
  /\ checkpoint \in [next : 0..Steps, spent : Nat]
  /\ pass \in [on : BOOLEAN, index : 0..Steps, spent : Nat, steps : 0..MaxSteps]
  /\ ran \in [0..Steps - 1 -> Nat]
  /\ calls \in Nat
  /\ raises \in 0..MaxRaises

PassInit ==
  /\ checkpoint = [next |-> 0, spent |-> 0]
  /\ pass = Idle
  /\ ran = [i \in 0..Steps - 1 |-> 0]
  /\ calls = 0
  /\ raises = 0

Begin ==
  /\ ~pass.on
  /\ checkpoint.next < Steps
  /\ pass' = [on |-> TRUE, index |-> checkpoint.next, spent |-> checkpoint.spent, steps |-> 0]
  /\ UNCHANGED <<checkpoint, ran, calls, raises>>

Exhausted(steps, spent) == steps >= MaxSteps \/ spent >= MaxCost

(* The index of the step that has just run.                                *)
SameIndex(index) == index

NextIndex(index) == index + 1

(* A step, and the answer when the budget is spent or no step is left.     *)
RunStep(cost) ==
  LET spent == pass.spent + cost
      steps == pass.steps + 1
      last == pass.index + 1 = Steps
  IN /\ pass.on
     /\ ran' = [ran EXCEPT ![pass.index] = @ + 1]
     /\ IF last \/ Exhausted(steps, spent)
        THEN /\ checkpoint' = [next |-> IF last THEN Steps ELSE NextIndex(pass.index), spent |-> spent]
             /\ pass' = Idle
             /\ calls' = calls + 1
        ELSE /\ pass' = [on |-> TRUE, index |-> pass.index + 1, spent |-> spent, steps |-> steps]
             /\ UNCHANGED <<checkpoint, calls>>
     /\ UNCHANGED raises

StepRaises ==
  /\ pass.on
  /\ raises < MaxRaises
  /\ raises' = raises + 1
  /\ pass' = Idle
  /\ UNCHANGED <<checkpoint, ran, calls>>

PassNext == Begin \/ (\E cost \in 0..StepCost : RunStep(cost)) \/ StepRaises

(***************************************************************************)
(* Properties                                                              *)
(***************************************************************************)
(* The budget is compared after a step: the cost answered so far passes    *)
(* max_cost by at most one step for every call that answered.  (A call     *)
(* resumed on a spent budget still runs one step.)                         *)
OverspendBoundedByCalls == checkpoint.spent < MaxCost + calls * StepCost + 1

(* A step runs again only where an earlier call was cut short by a step    *)
(* that raised: its results went with it.                                  *)
RerunsOnlyAfterRaises == \A i \in 0..Steps - 1 : ran[i] <= 1 + raises
=============================================================================
