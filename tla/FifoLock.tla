------------------------------ MODULE FifoLock ------------------------------
(***************************************************************************)
(* What mutex.c promises: a lock with one holder at a time, handed to the  *)
(* tasks that wait for it in the order in which they asked, so that nobody *)
(* overtakes the queue.  Mutex.tla is shown to implement this.             *)
(***************************************************************************)
EXTENDS Naturals, Sequences

CONSTANT Tasks, NoTask

VARIABLES
  holder,   \* the task that has the lock, or NoTask
  queue,    \* the tasks that asked and wait, in that order
  inside    \* the tasks whose Lock call returned and that did not Unlock yet

vars == <<holder, queue, inside>>

Init == holder = NoTask /\ queue = <<>> /\ inside = {}

Waiting(t) == \E i \in 1..Len(queue) : queue[i] = t

Take(t) ==
  /\ holder = NoTask
  /\ holder' = t
  /\ inside' = inside \cup {t}
  /\ UNCHANGED queue

Wait(t) ==
  /\ holder \notin {NoTask, t}
  /\ ~Waiting(t)
  /\ queue' = Append(queue, t)
  /\ UNCHANGED <<holder, inside>>

(* A task that was handed the lock finds out. *)
WakeUp(t) ==
  /\ holder = t
  /\ inside' = inside \cup {t}
  /\ UNCHANGED <<holder, queue>>

Leave(t) ==
  /\ holder = t
  /\ t \in inside
  /\ inside' = inside \ {t}
  /\ IF queue = <<>>
     THEN holder' = NoTask /\ UNCHANGED queue
     ELSE holder' = Head(queue) /\ queue' = Tail(queue)

Next == \E t \in Tasks : Take(t) \/ Wait(t) \/ WakeUp(t) \/ Leave(t)

Spec == Init /\ [][Next]_vars
=============================================================================
