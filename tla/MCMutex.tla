------------------------------- MODULE MCMutex -------------------------------
(* Mutex.tla for TLC: the wait list read off the pointers, and the          *)
(* refinement of FifoLock.                                                  *)
EXTENDS Mutex, Integers, Sequences, FiniteSets

(* The tasks met from wait_head on. *)
WaitList[i \in 1..Cardinality(Waiters)] ==
  IF i = 1 THEN wait_head ELSE next[WaitList[i-1]]

Lock == INSTANCE FifoLock
          WITH NoTask <- NULL, holder <- owner, queue <- WaitList,
               inside <- {t \in Tasks : pc[t] = "cs"}

(* First come, first served: mutex.c:120-123, nobody gets past the queue. *)
ImplementsFifoLock == Lock!Spec
=============================================================================
