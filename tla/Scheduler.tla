------------------------------ MODULE Scheduler ------------------------------
(***************************************************************************)
(* The preemptive round-robin scheduler of apps/kernel/scheduler.c with    *)
(* the tick handler of ctx_switch_68000.S.  The tasks that may run are     *)
(* chained through tcb->next into a circular list; ready_head is the one   *)
(* the next tick dispatches.  Each C function is one action here, as when  *)
(* no tick comes inside it; SchedulerSteps.tla runs the same functions     *)
(* statement by statement, with the tick in between.                       *)
(***************************************************************************)
EXTENDS Integers

CONSTANT OS_MAX_TASKS   \* the size of task_pool

ASSUME PoolAssumption == OS_MAX_TASKS \in Nat \ {0}

NULL  == 0                  \* the null pointer
Tasks == 1..OS_MAX_TASKS    \* &task_pool[0] .. &task_pool[OS_MAX_TASKS - 1]

TaskStates == {"unused", "ready", "running", "blocked"}

VARIABLES
  task_count,    \* slots of task_pool given out so far
  state,         \* tcb->state
  next,          \* tcb->next
  ready_head,    \* the task the next tick dispatches, or NULL
  current_task   \* the task on the CPU, NULL until OS_Start

vars == <<task_count, state, next, ready_head, current_task>>

(* OS_Init: the pool is zeroed (TASK_UNUSED is 0) and nothing is queued. *)
OS_Init ==
  /\ task_count = 0
  /\ state = [t \in Tasks |-> "unused"]
  /\ next = [t \in Tasks |-> NULL]
  /\ ready_head = NULL
  /\ current_task = NULL

-----------------------------------------------------------------------------
(* The circular list.                                                      *)

Linked == {t \in Tasks : next[t] # NULL}

(* Where both walks stop: the task whose next is t.  ListIsOneCycle says    *)
(* that the walk from ready_head finds it exactly when t is linked.        *)
Pred(t) == CHOOSE p \in Tasks : next[p] = t

\* Mutant: the newcomer is linked right after the head, in front of the others.
ready_insert_front(t) ==
  IF ready_head = NULL
  THEN /\ ready_head' = t
       /\ next' = [next EXCEPT ![t] = t]
  ELSE /\ next' = [next EXCEPT ![ready_head] = t, ![t] = next[ready_head]]
       /\ UNCHANGED ready_head

(* Appends t: behind the task that precedes the head. *)
ready_insert(t) ==
  IF ready_head = NULL
  THEN /\ ready_head' = t
       /\ next' = [next EXCEPT ![t] = t]
  ELSE /\ next' = [next EXCEPT ![Pred(ready_head)] = t, ![t] = ready_head]
       /\ UNCHANGED ready_head

(* Takes t out, and the head with it when t was the head; nothing when the *)
(* list is empty or the walk comes round without meeting t.                *)
ready_remove(t) ==
  IF t \notin Linked
  THEN UNCHANGED <<next, ready_head>>
  ELSE IF next[t] = t
  THEN /\ next' = [next EXCEPT ![t] = NULL]
       /\ ready_head' = IF ready_head = t THEN NULL ELSE ready_head
  ELSE /\ next' = [next EXCEPT ![Pred(t)] = next[t], ![t] = NULL]
       /\ ready_head' = IF ready_head = t THEN next[t] ELSE ready_head

-----------------------------------------------------------------------------
(* The operations.                                                         *)

Started == current_task # NULL

Created(t) == t \in 1..task_count

(* A slot is taken once and never given back, not even by OS_TaskExit.  A   *)
(* full pool or a NULL entry or stack returns NULL and changes nothing.    *)
OS_TaskCreate ==
  /\ task_count < OS_MAX_TASKS
  /\ task_count' = task_count + 1
  /\ state' = [state EXCEPT ![task_count + 1] = "ready"]
  /\ ready_insert(task_count + 1)
  /\ UNCHANGED current_task

(* The head gets the CPU and the head pointer moves on. *)
Dispatch(oldState) ==
  /\ current_task' = ready_head
  /\ ready_head' = next[ready_head]
  /\ state' = [oldState EXCEPT ![ready_head] = "running"]
  /\ UNCHANGED <<next, task_count>>

(* Entered once, by the boot code; never returns. *)
OS_Start ==
  /\ ~Started
  /\ ready_head # NULL
  /\ Dispatch(state)

Preempted ==
  IF state[current_task] = "running"
  THEN [state EXCEPT ![current_task] = "ready"]
  ELSE state

\* Mutant: the task that loses the CPU is marked ready whatever it was.
PreemptedAlways == [state EXCEPT ![current_task] = "ready"]

\* Mutant: a task that blocked itself is made ready again by the tick.
OS_Schedule_revive ==
  \/ ready_head = NULL /\ UNCHANGED vars
  \/ ready_head # NULL /\ Dispatch(PreemptedAlways)

\* Mutant: the head pointer is left on the task that was dispatched.
OS_Schedule_stuck ==
  IF ready_head = NULL THEN UNCHANGED vars
  ELSE /\ current_task' = ready_head
       /\ state' = [Preempted EXCEPT ![ready_head] = "running"]
       /\ UNCHANGED <<ready_head, next, task_count>>

(* With nothing ready the interrupted task keeps the CPU, even blocked or  *)
(* finished.                                                               *)
OS_Schedule ==
  \/ ready_head = NULL /\ UNCHANGED vars
  \/ ready_head # NULL /\ Dispatch(Preempted)

(* The tick interrupt: save the context, OS_Schedule, load the chosen one. *)
OS_TickISR == Started /\ OS_Schedule

(* Called by the running task; it then spins, so it calls nothing again.   *)
OS_TaskExit ==
  /\ Started
  /\ state[current_task] # "unused"
  /\ ready_remove(current_task)
  /\ state' = [state EXCEPT ![current_task] = "unused"]
  /\ UNCHANGED <<task_count, current_task>>

OS_TaskBlock(t) ==
  /\ state[t] \in {"ready", "running"}
  /\ ready_remove(t)
  /\ state' = [state EXCEPT ![t] = "blocked"]
  /\ UNCHANGED <<task_count, current_task>>

\* Mutant: the check that the task is blocked is dropped.
OS_TaskWake_any(t) ==
  /\ state' = [state EXCEPT ![t] = "ready"]
  /\ ready_insert(t)
  /\ UNCHANGED <<task_count, current_task>>

\* Mutant: a finished task is taken for a blocked one.
OS_TaskWake_finished(t) ==
  /\ state[t] \in {"blocked", "unused"}
  /\ state' = [state EXCEPT ![t] = "ready"]
  /\ ready_insert(t)
  /\ UNCHANGED <<task_count, current_task>>

OS_TaskWake(t) ==
  /\ state[t] = "blocked"
  /\ state' = [state EXCEPT ![t] = "ready"]
  /\ ready_insert(t)
  /\ UNCHANGED <<task_count, current_task>>

(* Block and wake are called with any task's handle: by the task itself,   *)
(* by another one or by a driver's interrupt handler.                      *)
Next ==
  \/ OS_TaskCreate
  \/ OS_Start
  \/ OS_TickISR
  \/ OS_TaskExit
  \/ \E t \in 1..task_count : OS_TaskBlock(t) \/ OS_TaskWake(t)

Spec == OS_Init /\ [][Next]_vars

(* The timer interrupt keeps coming. *)
FairSpec == Spec /\ WF_vars(OS_TickISR)

-----------------------------------------------------------------------------
(* Properties.                                                             *)

TypeOK ==
  /\ task_count \in 0..OS_MAX_TASKS
  /\ state \in [Tasks -> TaskStates]
  /\ next \in [Tasks -> Tasks \cup {NULL}]
  /\ ready_head \in Tasks \cup {NULL}
  /\ current_task \in Tasks \cup {NULL}

(* scheduler.c:15-20: exactly the TASK_READY and TASK_RUNNING tasks are    *)
(* chained through next, blocked and finished ones are off the list, and   *)
(* ready_head is on it unless it is empty.                                 *)
QueueHoldsTheRunnable ==
  /\ \A t \in Tasks : t \in Linked <=> state[t] \in {"ready", "running"}
  /\ IF Linked = {} THEN ready_head = NULL ELSE ready_head \in Linked

(* The list is never torn: next leads from a linked task to a linked task,  *)
(* every linked task has exactly one predecessor, and there is one cycle    *)
(* only (no part of the list is closed under next), so that the walks from  *)
(* ready_head and the rotation by the tick reach every linked task.         *)
ListIsOneCycle ==
  /\ \A t \in Linked : next[t] \in Linked
  /\ \A t \in Linked : \E p \in Linked : next[p] = t
  /\ \A t, u \in Linked : next[t] = next[u] => t = u
  /\ \A S \in SUBSET Linked :
       S # {} /\ (\A t \in S : next[t] \in S) => S = Linked

(* There is one CPU: a task marked TASK_RUNNING is the one on it, and once *)
(* started the kernel always has a created task there.                     *)
OnlyCurrentRuns ==
  /\ \A t \in Tasks : state[t] = "running" => t = current_task
  /\ Started => Created(current_task)
  /\ \A t \in Tasks : ~Created(t) => state[t] = "unused"

(* The CPU only goes to a task that was ready (or keeps running): the tick  *)
(* never resumes a blocked or finished one, and a finished task never comes *)
(* back to life (scheduler.c:155, "esta nunca mais volta").                 *)
OnlyReadyTasksGetTheCpu ==
  [][/\ current_task' # current_task => state[current_task'] = "ready"
     /\ \A t \in Tasks : Created(t) /\ state[t] = "unused" => state'[t] = "unused"]_vars

(* Round robin starves no one: a ready task gets the CPU unless someone    *)
(* blocks it first.                                                        *)
ReadyTasksGetTheCpu ==
  \A t \in Tasks :
    (Started /\ state[t] = "ready") ~> (current_task = t \/ state[t] = "blocked")
=============================================================================
