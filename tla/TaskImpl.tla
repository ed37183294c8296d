------------------------------ MODULE TaskImpl -------------------------------
(***************************************************************************)
(* task_impl (lib/task.cpp): a worker thread that sleeps on a condition    *)
(* variable, runs task_fcn once when it is woken, and sleeps again; and    *)
(* the two threads that use it in complex_manager: the manager, which      *)
(* looks for a task that is not running, fills in its slot and wakes it,   *)
(* and the owner, which stops it once the manager's thread has ended.      *)
(*                                                                         *)
(* The worker holds mtx from the moment it wakes until task_fcn returns,   *)
(* and from taking it again until the wait releases it.  The second        *)
(* section is one step here, so mtx is held exactly while wpc = "run".     *)
(* is_running() takes no lock.  The member running is never cleared: the   *)
(* loop ends only by the interruption.                                     *)
(***************************************************************************)
EXTENDS Naturals

CONSTANT MaxWakes      \* bound on the calls of wake_up_thread()

ASSUME WakesAssumption == MaxWakes \in Nat

VARIABLES
  started,             \* set by wake_up_thread, cleared by the worker
  notified,            \* the condition variable was notified
  interrupted,         \* my_thread->interrupt() was called
  wpc,                 \* the worker's thread
  mpc,                 \* the manager: looking, filling the slot, gone
  spc,                 \* the owner's call of stop_thread()
  wakes,               \* history: calls of wake_up_thread()
  runs,                \* history: calls of task_fcn
  lost                 \* history: wake-ups cleared before task_fcn ran

workerVars == <<wpc, runs, lost>>
vars == <<started, notified, interrupted, workerVars, mpc, spc, wakes>>

Init ==
  /\ started = FALSE
  /\ notified = FALSE
  /\ interrupted = FALSE
  /\ wpc = "spawn"
  /\ mpc = "look"
  /\ spc = "running"
  /\ wakes = 0 /\ runs = 0 /\ lost = 0

-----------------------------------------------------------------------------
(* The worker: task_loop().                                                *)

\* Mutant of TaskSleep: started is not cleared.
TaskSleepUncleared ==
  /\ wpc \in {"spawn", "ran"}
  /\ notified' = FALSE
  /\ wpc' = "wait"
  /\ UNCHANGED <<started, interrupted, runs, lost, mpc, spc, wakes>>

\* Lock mtx, clear started and wait on the condition variable.  A wake-up
\* that came before the thread first got here is cleared with the rest.
TaskSleep ==
  /\ wpc \in {"spawn", "ran"}
  /\ started' = FALSE
  /\ notified' = FALSE
  /\ wpc' = "wait"
  /\ lost' = IF wpc = "spawn" /\ started THEN lost + 1 ELSE lost
  /\ UNCHANGED <<interrupted, runs, mpc, spc, wakes>>

\* The wait returns with mtx locked and started set; after a spurious
\* return with started clear it just waits again.
TaskWakes ==
  /\ wpc = "wait"
  /\ notified
  /\ started
  /\ ~interrupted
  /\ wpc' = "run"
  /\ runs' = runs + 1
  /\ notified' = FALSE
  /\ UNCHANGED <<started, interrupted, lost, mpc, spc, wakes>>

\* task_fcn returns and mtx is released; started is still set.
TaskReturns ==
  /\ wpc = "run"
  /\ wpc' = "ran"
  /\ UNCHANGED <<started, notified, interrupted, runs, lost, mpc, spc, wakes>>

\* The wait is an interruption point, task_fcn has none.
TaskInterrupted ==
  /\ wpc = "wait"
  /\ interrupted
  /\ wpc' = "done"
  /\ UNCHANGED <<started, notified, interrupted, runs, lost, mpc, spc, wakes>>

Worker == TaskSleep \/ TaskWakes \/ TaskReturns \/ TaskInterrupted

-----------------------------------------------------------------------------
(* The manager's thread: complex_manager::operator().                      *)

\* Mutant of ChooseTask: is_running() is not asked.
ChooseTaskUnchecked ==
  /\ mpc = "look"
  /\ wakes < MaxWakes
  /\ mpc' = "fill"
  /\ UNCHANGED <<started, notified, interrupted, workerVars, spc, wakes>>

\* is_running() said no: the task is chosen and its slot is written.
ChooseTask ==
  /\ mpc = "look"
  /\ wakes < MaxWakes
  /\ ~started
  /\ mpc' = "fill"
  /\ UNCHANGED <<started, notified, interrupted, workerVars, spc, wakes>>

\* Mutant of wake_up_thread: the condition variable is not notified.
WakeWithoutNotify ==
  /\ mpc = "fill"
  /\ wpc # "run"
  /\ started' = TRUE
  /\ wakes' = wakes + 1
  /\ mpc' = "look"
  /\ UNCHANGED <<notified, interrupted, workerVars, spc>>

wake_up_thread ==
  /\ mpc = "fill"
  /\ wpc # "run"
  /\ started' = TRUE
  /\ notified' = (wpc = "wait")
  /\ wakes' = wakes + 1
  /\ mpc' = "look"
  /\ UNCHANGED <<interrupted, workerVars, spc>>

ManagerEnds ==
  /\ mpc = "look"
  /\ mpc' = "gone"
  /\ UNCHANGED <<started, notified, interrupted, workerVars, spc, wakes>>

-----------------------------------------------------------------------------
(* The owner: stop_thread(), after the manager's thread was joined.        *)

\* Mutant of Interrupt: the thread is joined without being interrupted.
JoinWithoutInterrupt ==
  /\ spc = "running"
  /\ mpc = "gone"
  /\ spc' = "join"
  /\ UNCHANGED <<started, notified, interrupted, workerVars, mpc, wakes>>

Interrupt ==
  /\ spc = "running"
  /\ mpc = "gone"
  /\ interrupted' = TRUE
  /\ spc' = "join"
  /\ UNCHANGED <<started, notified, workerVars, mpc, wakes>>

Join ==
  /\ spc = "join"
  /\ wpc = "done"
  /\ spc' = "stopped"
  /\ UNCHANGED <<started, notified, interrupted, workerVars, mpc, wakes>>

Next == \/ Worker
        \/ ChooseTask \/ wake_up_thread \/ ManagerEnds
        \/ Interrupt \/ Join

Spec == Init /\ [][Next]_vars

\* The worker's thread and the joining thread are scheduled, and a manager
\* that has chosen a task wakes it.
FairSpec == /\ Spec
            /\ WF_vars(Worker)
            /\ WF_vars(wake_up_thread)
            /\ WF_vars(Join)

-----------------------------------------------------------------------------
(* Properties.                                                             *)

\* The values each variable may take.
TypeOK ==
  /\ started \in BOOLEAN /\ notified \in BOOLEAN /\ interrupted \in BOOLEAN
  /\ wpc \in {"spawn", "wait", "run", "ran", "done"}
  /\ mpc \in {"look", "fill", "gone"}
  /\ spc \in {"running", "join", "stopped"}
  /\ wakes \in 0 .. MaxWakes /\ runs \in Nat /\ lost \in Nat

\* is_running() is what threads_active() and the search for a free task
\* rely on, without a lock: while the manager writes the slot of a task, the
\* task is not reading it, and a task that runs is always seen as running.
SlotNotShared ==
  wpc = "run" => started /\ mpc # "fill"

\* A wake-up that has been given and not yet honoured.
Pending == IF started /\ wpc \in {"spawn", "wait", "done"} THEN 1 ELSE 0

\* task.h:66-67: a wake-up wakes the thread so that task_fcn is called one time:
\* each has made it run, or still waits to.  This does not hold.
EachWakeRuns == wakes = runs + Pending

\* All that is wrong with it: one wake-up can be lost, the very first, when it
\* comes before the worker's thread has reached its first wait.  From that wait
\* on each wake-up makes task_fcn run once or is still pending, and never is
\* task_fcn run without one.
WakesAccounted ==
  /\ wakes = runs + Pending + lost
  /\ lost <= 1
  /\ wpc = "spawn" => wakes <= 1

\* A pending wake-up has its notification: the worker cannot sleep over it.
NoMissedNotify == wpc = "wait" /\ started => notified

\* A woken task stops being active, unless it has been interrupted:
\* threads_active() does not stay true for ever.
TaskQuiesces == started ~> (~started \/ wpc = "done")

\* stop_thread() returns.
StopReturns == spc = "join" ~> spc = "stopped"
=============================================================================
