----------------------------- MODULE RoundRobin -----------------------------
(***************************************************************************)
(* What the kernel's scheduler promises, without its linked list: the      *)
(* runnable tasks form one FIFO queue, the tick hands the CPU to the head  *)
(* and sends it to the back, and a blocked or finished task is not in the  *)
(* queue.  Scheduler.tla is shown to implement this.                       *)
(***************************************************************************)
EXTENDS Integers, Sequences

CONSTANT Tasks, NoTask

VARIABLES
  queue,    \* the runnable tasks, next to run first; the running one is in it
  state,    \* what each task is doing
  current   \* the task on the CPU, NoTask before the scheduler starts

vars == <<queue, state, current>>

Init ==
  /\ queue = <<>>
  /\ state = [t \in Tasks |-> "unused"]
  /\ current = NoTask

Runnable(t) == state[t] \in {"ready", "running"}

(* A task enters the queue at the back: created, or woken after a block. *)
Arrive(t) ==
  /\ state[t] \in {"unused", "blocked"}
  /\ queue' = Append(queue, t)
  /\ state' = [state EXCEPT ![t] = "ready"]
  /\ UNCHANGED current

Place(t) == {i \in 1..Len(queue) : queue[i] = t}

(* Those behind t move up; a task that is not queued leaves nobody behind. *)
Drop(t) ==
  \/ Place(t) = {} /\ UNCHANGED queue
  \/ \E i \in Place(t) :
       queue' = [k \in 1..(Len(queue) - 1) |-> IF k < i THEN queue[k] ELSE queue[k+1]]

(* A task leaves the queue: blocked, or finished. *)
Leave(t, why) ==
  /\ Drop(t)
  /\ state' = [state EXCEPT ![t] = why]
  /\ UNCHANGED current

Block(t) == Runnable(t) /\ Leave(t, "blocked")

Finish == current # NoTask /\ Leave(current, "unused")

(* The CPU goes to the head of the queue, which moves to the back. *)
Dispatch ==
  /\ queue # <<>>
  /\ current' = Head(queue)
  /\ queue' = Append(Tail(queue), Head(queue))
  /\ state' = [t \in Tasks |->
                 IF t = Head(queue) THEN "running"
                 ELSE IF state[t] = "running" THEN "ready" ELSE state[t]]

Next ==
  \/ \E t \in Tasks : Arrive(t) \/ Block(t)
  \/ Finish
  \/ Dispatch

Spec == Init /\ [][Next]_vars
=============================================================================
