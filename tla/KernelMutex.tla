----------------------------- MODULE KernelMutex -----------------------------
(***************************************************************************)
(* mutex.c and os_yield.s on the kernel's own scheduler.  mutex.c's header *)
(* says it is meant for "o modelo de scheduler que voce ja tem", whose TCB *)
(* has the state and next fields it needs.  scheduler.c, however, keeps    *)
(* the running task on the circular ready list, and OS_Schedule dispatches *)
(* ready_head without a look at its state.  Scheduler_AddReady, which no   *)
(* file defines, is taken to be ready_insert.                              *)
(***************************************************************************)
EXTENDS Scheduler

VARIABLES locked, owner, wait_head, wait_tail, pc   \* as in Mutex

mutex == <<locked, owner, wait_head, wait_tail>>
all   == <<vars, mutex, pc>>

Init ==
  /\ OS_Init
  /\ locked = FALSE
  /\ owner = NULL
  /\ wait_head = NULL
  /\ wait_tail = NULL
  /\ pc = [t \in Tasks |-> "out"]

At(place) == Started /\ pc[current_task] = place

Mutex_Lock_free ==
  /\ At("out")
  /\ ~locked
  /\ locked' = TRUE
  /\ owner' = current_task
  /\ pc' = [pc EXCEPT ![current_task] = "cs"]
  /\ UNCHANGED <<vars, wait_head, wait_tail>>

(* me->next = NULL cuts the ready list me is still on. *)
Mutex_Lock_taken ==
  /\ At("out")
  /\ locked
  /\ next' = IF wait_tail # NULL
             THEN [next EXCEPT ![current_task] = NULL, ![wait_tail] = current_task]
             ELSE [next EXCEPT ![current_task] = NULL]
  /\ wait_head' = IF wait_tail # NULL THEN wait_head ELSE current_task
  /\ wait_tail' = current_task
  /\ state' = [state EXCEPT ![current_task] = "blocked"]
  /\ pc' = [pc EXCEPT ![current_task] = "yield"]
  /\ UNCHANGED <<locked, owner, task_count, ready_head, current_task>>

OS_Yield ==
  /\ At("yield")
  /\ pc' = [pc EXCEPT ![current_task] = "trapped"]
  /\ OS_Schedule
  /\ UNCHANGED mutex

Mutex_Lock_return ==
  /\ At("trapped")
  /\ pc' = [pc EXCEPT ![current_task] = "cs"]
  /\ UNCHANGED <<vars, mutex>>

Release ==
  /\ At("cs")
  /\ wait_head = NULL
  /\ locked' = FALSE
  /\ owner' = NULL
  /\ pc' = [pc EXCEPT ![current_task] = "out"]
  /\ UNCHANGED <<vars, wait_head, wait_tail>>

(* On a list that is cut ready_insert's walk runs off its end, with all     *)
(* interrupts masked: the machine goes no further, and neither does this.   *)
HandOver ==
  /\ At("cs")
  /\ wait_head # NULL
  /\ ListIsOneCycle
  /\ wait_head' = next[wait_head]
  /\ wait_tail' = IF next[wait_head] = NULL THEN NULL ELSE wait_tail
  /\ owner' = wait_head
  /\ state' = [state EXCEPT ![wait_head] = "ready"]
  /\ ready_insert(wait_head)
  /\ pc' = [pc EXCEPT ![current_task] = "out"]
  /\ UNCHANGED <<locked, task_count, current_task>>

Kernel ==
  /\ OS_TaskCreate \/ OS_Start \/ OS_TickISR
  /\ UNCHANGED <<mutex, pc>>

MutexNext ==
  \/ Kernel
  \/ Mutex_Lock_free
  \/ Mutex_Lock_taken
  \/ OS_Yield
  \/ Mutex_Lock_return
  \/ Release
  \/ HandOver

MutexSpec == Init /\ [][MutexNext]_all

-----------------------------------------------------------------------------
(* mutex.c:109-112: a task that wakes up in Mutex_Lock was chosen because   *)
(* Mutex_Unlock gave it the mutex, "ao acordar daqui, ela ja e' a dona".    *)
WokenTaskOwnsTheMutex == \A t \in Tasks : pc[t] = "cs" => owner = t
=============================================================================
