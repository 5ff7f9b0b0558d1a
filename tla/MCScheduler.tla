----------------------------- MODULE MCScheduler -----------------------------
(* Scheduler.tla for TLC: the list read off the pointers, and the           *)
(* refinement of RoundRobin.                                                *)
EXTENDS Scheduler, Sequences, FiniteSets

(* The tasks met by following next from ready_head, for one lap. *)
ReadyQueue[i \in 1..Cardinality(Linked)] ==
  IF i = 1 THEN ready_head ELSE next[ReadyQueue[i-1]]

RR == INSTANCE RoundRobin
        WITH NoTask <- NULL, queue <- ReadyQueue, current <- current_task

(* The pointer manipulation implements a FIFO rotation: each operation     *)
(* appends to, removes from or rotates the queue of runnable tasks.        *)
ImplementsRoundRobin == RR!Spec
=============================================================================
