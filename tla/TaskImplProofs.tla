---------------------------- MODULE TaskImplProofs ----------------------------
(***************************************************************************)
(* Proofs about TaskImpl, for any number of wake-ups.  What makes the      *)
(* invariants inductive is the discipline of the only caller: it wakes a   *)
(* task only after it saw started clear, and nobody else sets it.          *)
(***************************************************************************)
EXTENDS TaskImpl, TLAPS

\* Who may see started set or clear at which point.
Discipline ==
  /\ mpc = "fill" => ~started /\ wakes < MaxWakes
  /\ wpc \in {"run", "ran"} => started
  /\ interrupted => mpc = "gone"
  /\ wpc = "done" => interrupted
  /\ wpc = "spawn" => runs = 0 /\ lost = 0

Inv == TypeOK /\ Discipline /\ NoMissedNotify /\ WakesAccounted

\* TypeOK in three parts, each within reach of one prover.
FlagTypes == started \in BOOLEAN /\ notified \in BOOLEAN /\ interrupted \in BOOLEAN
ControlTypes == /\ wpc \in {"spawn", "wait", "run", "ran", "done"}
                /\ mpc \in {"look", "fill", "gone"}
                /\ spc \in {"running", "join", "stopped"}
CountTypes == wakes \in 0 .. MaxWakes /\ runs \in Nat /\ lost \in Nat

\* The three parts make up TypeOK.
LEMMA TypeParts == TypeOK <=> FlagTypes /\ ControlTypes /\ CountTypes
  BY DEF TypeOK, FlagTypes, ControlTypes, CountTypes

\* Spec implies the inductive invariant.
LEMMA InvAlways == Spec => []Inv
<1>1. ASSUME Init PROVE Inv
  <2>1. TypeOK
    <3>1. FlagTypes
      BY <1>1 DEF Init, FlagTypes
    <3>2. ControlTypes
      BY <1>1 DEF Init, ControlTypes
    <3>3. CountTypes
      BY <1>1, WakesAssumption DEF Init, CountTypes
    <3> QED BY <3>1, <3>2, <3>3, TypeParts
  <2>2. Discipline /\ NoMissedNotify
    BY <1>1 DEF Init, Discipline, NoMissedNotify
  <2>3. WakesAccounted
    BY <1>1 DEF Init, WakesAccounted, Pending
  <2> QED BY <2>1, <2>2, <2>3 DEF Inv
<1>2. ASSUME Inv, [Next]_vars PROVE Inv'
  <2> USE <1>2, WakesAssumption DEF Inv, workerVars
  <2>1. CASE TaskSleep
    <3>1. TypeOK'
      <4>1. FlagTypes'
        BY <2>1, TypeParts DEF TaskSleep, FlagTypes
      <4>2. ControlTypes'
        BY <2>1, TypeParts DEF TaskSleep, ControlTypes
      <4>3. CountTypes'
        BY <2>1, TypeParts DEF TaskSleep, CountTypes
      <4> QED BY <4>1, <4>2, <4>3 DEF TypeOK, FlagTypes, ControlTypes, CountTypes
    <3>2. Discipline' /\ NoMissedNotify'
      BY <2>1 DEF TaskSleep, Discipline, NoMissedNotify
    <3>3. WakesAccounted'
      BY <2>1 DEF TaskSleep, TypeOK, Discipline, WakesAccounted, Pending
    <3> QED BY <3>1, <3>2, <3>3
  <2>2. CASE TaskWakes
    <3>1. TypeOK'
      <4>1. FlagTypes'
        BY <2>2, TypeParts DEF TaskWakes, FlagTypes
      <4>2. ControlTypes'
        BY <2>2, TypeParts DEF TaskWakes, ControlTypes
      <4>3. CountTypes'
        BY <2>2, TypeParts DEF TaskWakes, CountTypes
      <4> QED BY <4>1, <4>2, <4>3 DEF TypeOK, FlagTypes, ControlTypes, CountTypes
    <3>2. Discipline' /\ NoMissedNotify'
      BY <2>2 DEF TaskWakes, Discipline, NoMissedNotify
    <3>3. WakesAccounted'
      BY <2>2 DEF TaskWakes, TypeOK, WakesAccounted, Pending
    <3> QED BY <3>1, <3>2, <3>3
  <2>3. CASE TaskReturns \/ TaskInterrupted
    <3>1. TypeOK' /\ Discipline' /\ NoMissedNotify'
      BY <2>3 DEF TaskReturns, TaskInterrupted, TypeOK, Discipline, NoMissedNotify
    <3>2. WakesAccounted'
      BY <2>3 DEF TaskReturns, TaskInterrupted, TypeOK, WakesAccounted, Pending
    <3> QED BY <3>1, <3>2
  <2>4. CASE wake_up_thread
    <3>1. TypeOK' /\ wpc \in {"spawn", "wait"} /\ ~started
      <4>1. wpc \in {"spawn", "wait"} /\ ~started
        BY <2>4 DEF wake_up_thread, TypeOK, Discipline
      <4>2. wakes < MaxWakes
        BY <2>4 DEF wake_up_thread, Discipline
      <4> QED BY <2>4, <4>1, <4>2 DEF wake_up_thread, TypeOK
    <3>2. Discipline' /\ NoMissedNotify'
      BY <2>4, <3>1 DEF wake_up_thread, Discipline, NoMissedNotify
    <3>3. WakesAccounted'
      BY <2>4, <3>1 DEF wake_up_thread, TypeOK, Discipline, WakesAccounted, Pending
    <3> QED BY <3>1, <3>2, <3>3
  <2>5. CASE ChooseTask \/ ManagerEnds \/ Interrupt \/ Join \/ UNCHANGED vars
    <3>1. UNCHANGED <<started, notified, wpc, runs, lost, wakes>>
      BY <2>5 DEF ChooseTask, ManagerEnds, Interrupt, Join, vars
    <3>2. TypeOK'
      <4>1. FlagTypes'
        BY <2>5, TypeParts DEF ChooseTask, ManagerEnds, Interrupt, Join, vars, FlagTypes
      <4>2. ControlTypes'
        BY <2>5, TypeParts DEF ChooseTask, ManagerEnds, Interrupt, Join, vars, ControlTypes
      <4>3. CountTypes'
        BY <2>5, TypeParts DEF ChooseTask, ManagerEnds, Interrupt, Join, vars, CountTypes
      <4> QED BY <4>1, <4>2, <4>3 DEF TypeOK, FlagTypes, ControlTypes, CountTypes
    <3>3. Discipline'
      BY <2>5 DEF ChooseTask, ManagerEnds, Interrupt, Join, vars, Discipline
    <3>4. NoMissedNotify' /\ WakesAccounted'
      BY <3>1 DEF NoMissedNotify, WakesAccounted, Pending
    <3> QED BY <3>2, <3>3, <3>4
  <2> QED BY <2>1, <2>2, <2>3, <2>4, <2>5 DEF Next, Worker
<1> QED BY <1>1, <1>2, PTL DEF Spec

\* The variables keep their types (task.h, the members of task_impl).
THEOREM TypeCorrect == Spec => []TypeOK
<1>1. Inv => TypeOK
  BY DEF Inv
<1> QED BY <1>1, InvAlways, PTL

\* While the manager fills in a task's slot the task is not running, and a
\* task that runs is seen as running (is_running() in task.cpp).
THEOREM SlotsNotShared == Spec => []SlotNotShared
<1>1. Inv => SlotNotShared
  BY DEF Inv, Discipline, SlotNotShared
<1> QED BY <1>1, InvAlways, PTL

\* No wake-up but the first can be lost, and that one only before the worker's
\* first wait; every other runs task_fcn once or is pending.
THEOREM Accounted == Spec => []WakesAccounted
<1>1. Inv => WakesAccounted
  BY DEF Inv
<1> QED BY <1>1, InvAlways, PTL

\* A sleeping worker with a pending wake-up has been notified.
THEOREM NotifyNotMissed == Spec => []NoMissedNotify
<1>1. Inv => NoMissedNotify
  BY DEF Inv
<1> QED BY <1>1, InvAlways, PTL
=============================================================================
