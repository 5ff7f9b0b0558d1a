-------------------------------- MODULE Mutex --------------------------------
(***************************************************************************)
(* The mutex of apps/kernel/mutex.c with the OS_Yield of os_yield.s, under *)
(* the premises its header states: the scheduler is external, it runs only *)
(* tasks that are ready, the tick may preempt at any moment, and the       *)
(* sections between Lock_CriticalEnter and Lock_CriticalExit (mask 7) are  *)
(* not interrupted.  The next field is shared: while a task is not on the  *)
(* mutex's wait list the scheduler uses the field as it likes.             *)
(* KernelMutex.tla puts the same code on the kernel's real scheduler.      *)
(***************************************************************************)
CONSTANTS Tasks, NULL

ASSUME MutexAssumption == NULL \notin Tasks

VARIABLES
  locked, owner, wait_head, wait_tail,   \* the Mutex
  next, state,                           \* the fields of the TCBs
  current_task,
  pc   \* where each task is: outside, "yield" (queued, before the trap of
       \* OS_Yield), "trapped" (inside the trap), or "cs" (Mutex_Lock returned)

mutex == <<locked, owner, wait_head, wait_tail>>
vars  == <<locked, owner, wait_head, wait_tail, next, state, current_task, pc>>

Pointers == Tasks \cup {NULL}

Mutex_Init ==
  /\ locked = FALSE
  /\ owner = NULL
  /\ wait_head = NULL
  /\ wait_tail = NULL

(* The mutex is set up at boot; some task is running, the others are ready. *)
Init ==
  /\ Mutex_Init
  /\ next \in [Tasks -> Pointers]
  /\ current_task \in Tasks
  /\ state = [t \in Tasks |-> IF t = current_task THEN "running" ELSE "ready"]
  /\ pc = [t \in Tasks |-> "out"]

-----------------------------------------------------------------------------
(* The scheduler: OS_Schedule of scheduler.c:158-169 marks the running task *)
(* ready and runs the one at ready_head.  Here that may be any ready task,  *)
(* which is all that premise 3 of mutex.c asks for, and which the head of a *)
(* sound ready list is.  That a waiter is off that list is the premise; the *)
(* code does not see to it (KernelMutex.tla).                               *)

(* The link fields of the tasks that do not wait belong to the ready queue. *)
SchedulerMayRelink ==
  \E links \in [Tasks -> Pointers] :
    next' = [t \in Tasks |-> IF state'[t] = "blocked" THEN next[t] ELSE links[t]]

Preempted ==
  IF state[current_task] = "running"
  THEN [state EXCEPT ![current_task] = "ready"] ELSE state

OS_Schedule ==
  \E t \in Tasks :
    /\ Preempted[t] = "ready"
    /\ current_task' = t
    /\ state' = [Preempted EXCEPT ![t] = "running"]
    /\ SchedulerMayRelink

(* What Mutex_Unlock leaves in the handle it puts on the ready queue. *)
Scheduler_AddReady(t) ==
  \E p \in Pointers : next' = [next EXCEPT ![t] = p]

-----------------------------------------------------------------------------
(* The mutex.                                                              *)

(* Mutex_Lock when the mutex is free. *)
Mutex_Lock_free ==
  /\ pc[current_task] = "out"
  /\ ~locked
  /\ locked' = TRUE
  /\ owner' = current_task
  /\ pc' = [pc EXCEPT ![current_task] = "cs"]
  /\ UNCHANGED <<wait_head, wait_tail, next, state, current_task>>

\* Mutant: the newcomer goes to the front of the queue.
Enqueue_front(me) ==
  /\ next' = [next EXCEPT ![me] = wait_head]
  /\ wait_head' = me
  /\ wait_tail' = IF wait_tail # NULL THEN wait_tail ELSE me

(* me goes to the end of the wait list. *)
Enqueue(me) ==
  /\ IF wait_tail # NULL
     THEN /\ next' = [next EXCEPT ![me] = NULL, ![wait_tail] = me]
          /\ UNCHANGED wait_head
     ELSE /\ next' = [next EXCEPT ![me] = NULL]
          /\ wait_head' = me
  /\ wait_tail' = me

(* Mutex_Lock when it is taken, up to the end of its critical section.  A  *)
(* task that holds the mutex and locks it again is in its own wait list:   *)
(* mutex.c's callers (the driver of its example) do not nest.              *)
Mutex_Lock_taken ==
  /\ pc[current_task] = "out"
  /\ locked
  /\ Enqueue(current_task)
  /\ state' = [state EXCEPT ![current_task] = "blocked"]
  /\ pc' = [pc EXCEPT ![current_task] = "yield"]
  /\ UNCHANGED <<locked, owner, current_task>>

(* The trap of OS_Yield.  A task that lost the CPU to the tick before it    *)
(* got here takes the trap when it is back, although it has the mutex.      *)
OS_Yield ==
  /\ pc[current_task] = "yield"
  /\ pc' = [pc EXCEPT ![current_task] = "trapped"]
  /\ OS_Schedule
  /\ UNCHANGED mutex

(* The task is on the CPU again: Mutex_Lock returns without a further test. *)
Mutex_Lock_return ==
  /\ pc[current_task] = "trapped"
  /\ pc' = [pc EXCEPT ![current_task] = "cs"]
  /\ UNCHANGED <<mutex, next, state, current_task>>

\* Mutant: the tail is not reset when the last waiter leaves the list.
HandOver_stale_tail ==
  /\ wait_head # NULL
  /\ wait_head' = next[wait_head]
  /\ owner' = wait_head
  /\ state' = [state EXCEPT ![wait_head] = "ready"]
  /\ Scheduler_AddReady(wait_head)
  /\ UNCHANGED <<locked, wait_tail>>

\* Mutant: the lock is open until the waiter runs.
HandOver_open ==
  /\ wait_head # NULL
  /\ locked' = FALSE
  /\ wait_head' = next[wait_head]
  /\ wait_tail' = IF next[wait_head] = NULL THEN NULL ELSE wait_tail
  /\ owner' = wait_head
  /\ state' = [state EXCEPT ![wait_head] = "ready"]
  /\ Scheduler_AddReady(wait_head)

\* Mutant: the waiter that came last is served first.
HandOver_last ==
  /\ wait_head # NULL
  /\ IF wait_head = wait_tail
     THEN wait_head' = NULL /\ wait_tail' = NULL
     ELSE /\ UNCHANGED wait_head
          /\ wait_tail' = CHOOSE t \in Tasks : state[t] = "blocked" /\ next[t] = wait_tail
  /\ owner' = wait_tail
  /\ state' = [state EXCEPT ![wait_tail] = "ready"]
  /\ next' = [next EXCEPT ![wait_tail'] = NULL]
  /\ UNCHANGED locked

(* The first waiter becomes the owner; the mutex is never free in between. *)
HandOver ==
  /\ wait_head # NULL
  /\ wait_head' = next[wait_head]
  /\ wait_tail' = IF next[wait_head] = NULL THEN NULL ELSE wait_tail
  /\ owner' = wait_head
  /\ state' = [state EXCEPT ![wait_head] = "ready"]
  /\ Scheduler_AddReady(wait_head)
  /\ UNCHANGED locked

Release ==
  /\ wait_head = NULL
  /\ locked' = FALSE
  /\ owner' = NULL
  /\ UNCHANGED <<wait_head, wait_tail, state, next>>

\* Mutant: a mutex without waiters stays with its last owner.
Mutex_Unlock_keeps_owner ==
  /\ pc[current_task] = "cs"
  /\ HandOver \/ UNCHANGED <<mutex, state, next>>
  /\ pc' = [pc EXCEPT ![current_task] = "out"]
  /\ UNCHANGED current_task

Mutex_Unlock ==
  /\ pc[current_task] = "cs"
  /\ HandOver \/ Release
  /\ pc' = [pc EXCEPT ![current_task] = "out"]
  /\ UNCHANGED current_task

(* The tick preempts whatever runs outside the critical sections. *)
OS_TickISR == OS_Schedule /\ UNCHANGED <<mutex, pc>>

Next ==
  \/ Mutex_Lock_free
  \/ Mutex_Lock_taken
  \/ OS_Yield
  \/ Mutex_Lock_return
  \/ Mutex_Unlock
  \/ OS_TickISR

Spec == Init /\ [][Next]_vars

(* A task on the CPU gets on with its code (out of the critical section it  *)
(* entered too), and round robin gives every ready task its turn.           *)
Progress(t) == current_task = t /\ (OS_Yield \/ Mutex_Lock_return \/ Mutex_Unlock)
Turn(t)     == current_task' = t /\ OS_TickISR

FairSpec == Spec /\ \A t \in Tasks : SF_vars(Progress(t)) /\ SF_vars(Turn(t))

-----------------------------------------------------------------------------
(* Properties.                                                             *)

Places == {"out", "yield", "trapped", "cs"}

TypeOK ==
  /\ locked \in BOOLEAN
  /\ owner \in Pointers
  /\ wait_head \in Pointers
  /\ wait_tail \in Pointers
  /\ next \in [Tasks -> Pointers]
  /\ state \in [Tasks -> {"ready", "running", "blocked"}]
  /\ current_task \in Tasks
  /\ pc \in [Tasks -> Places]

(* A task that Mutex_Lock let in owns the mutex, hence there is one at a    *)
(* time; mutex.c:109-112: "ao acordar daqui, ela ja e' a dona do mutex".    *)
MutualExclusion == \A t \in Tasks : pc[t] = "cs" => locked /\ owner = t

Waiters == {t \in Tasks : state[t] = "blocked"}

(* The wait list holds the blocked tasks and nobody else: it starts at      *)
(* wait_head, ends at wait_tail with a NULL link, no two waiters share a    *)
(* successor, and what hangs together with the head is all of it.           *)
WaitListIsWhole ==
  /\ wait_head = NULL <=> Waiters = {}
  /\ wait_tail = NULL <=> Waiters = {}
  /\ Waiters # {} => /\ wait_head \in Waiters
                     /\ wait_tail \in Waiters
                     /\ next[wait_tail] = NULL
  /\ \A t \in Waiters \ {wait_tail} : next[t] \in Waiters \ {wait_head}
  /\ \A t, u \in Waiters \ {wait_tail} : next[t] = next[u] => t = u
  /\ \A S \in SUBSET Waiters :
       wait_head \in S /\ (\A t \in S \ {wait_tail} : next[t] \in S) => S = Waiters

(* Someone can always run: the owner of a taken mutex is never one of the   *)
(* blocked, so a task that blocks does not keep the CPU for lack of another. *)
OwnerCanRun ==
  /\ locked <=> owner # NULL
  /\ locked => state[owner] # "blocked"
  /\ ~locked => Waiters = {}

(* What a task's place in the code says of it: the blocked ones are those    *)
(* between Mutex_Lock's two halves, one that is there and not blocked was   *)
(* handed the mutex, the owner is somewhere between the start of Mutex_Lock *)
(* and Mutex_Unlock, and a blocked task on the CPU has its trap before it.  *)
PlacesAgree ==
  /\ \A t \in Waiters : pc[t] \in {"yield", "trapped"}
  /\ \A t \in Tasks \ Waiters : pc[t] \in {"yield", "trapped"} => owner = t
  /\ \A t \in Tasks : owner = t => pc[t] # "out"
  /\ \A t \in Tasks : state[t] = "running" => t = current_task
  /\ state[current_task] = "blocked" => pc[current_task] = "yield"

(* Nobody waits for ever. *)
EveryWaiterGetsIn == \A t \in Tasks : pc[t] = "yield" ~> pc[t] = "cs"
=============================================================================
