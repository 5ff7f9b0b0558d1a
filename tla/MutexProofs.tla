----------------------------- MODULE MutexProofs -----------------------------
(***************************************************************************)
(* MutualExclusion and the shape of the wait list, for any set of tasks.   *)
(* MutualExclusion alone is not inductive: a task leaves OS_Yield and goes *)
(* straight into its critical section without a test, so the invariant has *)
(* to say who can be there (PlacesAgree), that a task taken off the wait   *)
(* list is one that waits (WaitListIsWhole) and that a taken mutex has an  *)
(* owner that runs (OwnerCanRun).                                          *)
(* The last part shows that the mutex implements FifoLock: the wait list   *)
(* read off the pointers is a queue of the waiting tasks (IsLine).         *)
(***************************************************************************)
EXTENDS MCMutex, SequenceTheorems, FiniteSetTheorems, TLAPS

IInv == TypeOK /\ MutualExclusion /\ WaitListIsWhole /\ OwnerCanRun /\ PlacesAgree

USE MutexAssumption

LEMMA InitEstablishes == Init => IInv
BY DEF Init, Mutex_Init, IInv, TypeOK, Pointers, Places, MutualExclusion, WaitListIsWhole,
       OwnerCanRun, PlacesAgree, Waiters

(* WaitListIsWhole reads the mutex and the blocked tasks' links only.       *)
LEMMA WaitListFrame ==
  ASSUME TypeOK, WaitListIsWhole,
         UNCHANGED <<wait_head, wait_tail>>,
         Waiters' = Waiters,
         \A t \in Waiters : next'[t] = next[t]
  PROVE  WaitListIsWhole'
<1>1. wait_head' = wait_head /\ wait_tail' = wait_tail
  OBVIOUS
<1>2. Waiters # {} => wait_tail \in Waiters
  BY DEF WaitListIsWhole
<1>3. \A S \in SUBSET Waiters :
        wait_head \in S /\ (\A t \in S \ {wait_tail} : next'[t] \in S) => S = Waiters
  <2> SUFFICES ASSUME NEW S \in SUBSET Waiters, wait_head \in S,
                      \A t \in S \ {wait_tail} : next'[t] \in S
               PROVE  S = Waiters
    OBVIOUS
  <2>1. \A t \in S \ {wait_tail} : next[t] \in S
    OBVIOUS
  <2> QED BY <2>1 DEF WaitListIsWhole
<1>4. QED BY <1>1, <1>2, <1>3 DEF WaitListIsWhole

(* OS_Schedule keeps the mutex, the blocked tasks and their links. *)
LEMMA ScheduleKeeps ==
  ASSUME IInv, OS_Schedule, UNCHANGED mutex
  PROVE  /\ next' \in [Tasks -> Pointers]
         /\ state' \in [Tasks -> {"ready", "running", "blocked"}]
         /\ current_task' \in Tasks
         /\ Waiters' = Waiters
         /\ state'[current_task'] = "running"
         /\ \A t \in Tasks : state'[t] = "running" => t = current_task'
         /\ WaitListIsWhole' /\ OwnerCanRun'
<1>1. PICK t \in Tasks : /\ Preempted[t] = "ready"
                         /\ current_task' = t
                         /\ state' = [Preempted EXCEPT ![t] = "running"]
                         /\ SchedulerMayRelink
  BY DEF OS_Schedule
<1>2. /\ Preempted \in [Tasks -> {"ready", "running", "blocked"}]
      /\ \A u \in Tasks : Preempted[u] # "running"
      /\ \A u \in Tasks : Preempted[u] = "blocked" <=> state[u] = "blocked"
  BY DEF Preempted, IInv, TypeOK, PlacesAgree
<1>3. /\ state' \in [Tasks -> {"ready", "running", "blocked"}]
      /\ \A u \in Tasks : state'[u] = "blocked" <=> state[u] = "blocked"
      /\ \A u \in Tasks : state'[u] = "running" <=> u = t
  BY <1>1, <1>2
<1>4. Waiters' = Waiters
  BY <1>3 DEF Waiters
<1>5. /\ next' \in [Tasks -> Pointers]
      /\ \A u \in Waiters : next'[u] = next[u]
  BY <1>1, <1>3 DEF SchedulerMayRelink, Waiters, IInv, TypeOK
<1>6. WaitListIsWhole'
  BY <1>4, <1>5, WaitListFrame DEF IInv, mutex
<1>7. OwnerCanRun'
  BY <1>3, <1>4 DEF OwnerCanRun, IInv, TypeOK, Pointers, mutex
<1>8. QED BY <1>1, <1>3, <1>4, <1>5, <1>6, <1>7

LEMMA TickPreserves == IInv /\ OS_TickISR => IInv'
<1> SUFFICES ASSUME IInv, OS_TickISR PROVE IInv'
  OBVIOUS
<1>1. OS_Schedule /\ UNCHANGED mutex /\ pc' = pc
  BY DEF OS_TickISR
<1>2. PlacesAgree'
  BY <1>1, ScheduleKeeps DEF PlacesAgree, IInv, Waiters, mutex
<1>3. TypeOK' /\ MutualExclusion'
  BY <1>1, ScheduleKeeps DEF TypeOK, MutualExclusion, IInv, mutex
<1>4. QED BY <1>1, <1>2, <1>3, ScheduleKeeps DEF IInv

LEMMA YieldPreserves == IInv /\ OS_Yield => IInv'
<1> SUFFICES ASSUME IInv, OS_Yield PROVE IInv'
  OBVIOUS
<1>1. /\ OS_Schedule /\ UNCHANGED mutex
      /\ pc[current_task] = "yield"
      /\ pc' = [pc EXCEPT ![current_task] = "trapped"]
  BY DEF OS_Yield
<1>2. pc' \in [Tasks -> Places]
  BY <1>1 DEF IInv, TypeOK, Places
<1>3. PlacesAgree'
  BY <1>1, ScheduleKeeps DEF PlacesAgree, IInv, TypeOK, Waiters, mutex
<1>4. TypeOK' /\ MutualExclusion'
  BY <1>1, <1>2, ScheduleKeeps DEF TypeOK, MutualExclusion, IInv, mutex
<1>5. QED BY <1>1, <1>3, <1>4, ScheduleKeeps DEF IInv

LEMMA LockFreePreserves == IInv /\ Mutex_Lock_free => IInv'
<1> SUFFICES ASSUME IInv, Mutex_Lock_free PROVE IInv'
  OBVIOUS
<1> USE DEF Mutex_Lock_free
<1>1. TypeOK'
  BY DEF IInv, TypeOK, Pointers, Places
<1>2. Waiters' = Waiters /\ Waiters = {}
  BY DEF Waiters, IInv, OwnerCanRun
<1>3. WaitListIsWhole'
  BY <1>2, WaitListFrame DEF IInv
<1>4. OwnerCanRun'
  BY <1>2 DEF IInv, TypeOK, OwnerCanRun, Waiters
<1>5. MutualExclusion'
  BY DEF IInv, TypeOK, MutualExclusion
<1>6. PlacesAgree'
  BY <1>2 DEF IInv, TypeOK, PlacesAgree, Waiters, OwnerCanRun
<1>7. QED BY <1>1, <1>3, <1>4, <1>5, <1>6 DEF IInv

LEMMA LockReturnPreserves == IInv /\ Mutex_Lock_return => IInv'
<1> SUFFICES ASSUME IInv, Mutex_Lock_return PROVE IInv'
  OBVIOUS
<1> USE DEF Mutex_Lock_return, mutex
<1>1. TypeOK'
  BY DEF IInv, TypeOK, Places
<1>2. Waiters' = Waiters
  BY DEF Waiters
<1>3. WaitListIsWhole' /\ OwnerCanRun'
  BY <1>2, WaitListFrame DEF IInv, OwnerCanRun
<1>4. current_task \in Tasks \ Waiters
  BY DEF IInv, TypeOK, PlacesAgree, Waiters
<1>5. owner = current_task /\ locked
  BY <1>4 DEF IInv, TypeOK, PlacesAgree, OwnerCanRun
<1>6. MutualExclusion'
  BY <1>5 DEF IInv, TypeOK, MutualExclusion
<1>7. PlacesAgree'
  BY <1>2, <1>4 DEF IInv, TypeOK, PlacesAgree
<1>8. QED BY <1>1, <1>3, <1>6, <1>7 DEF IInv

(* A task that asks for a taken mutex is appended to the list. *)
LEMMA LockTakenPreserves == IInv /\ Mutex_Lock_taken => IInv'
<1> SUFFICES ASSUME IInv, Mutex_Lock_taken PROVE IInv'
  OBVIOUS
<1> DEFINE me == current_task
<1>0. /\ pc[me] = "out"
      /\ locked
      /\ state' = [state EXCEPT ![me] = "blocked"]
      /\ pc' = [pc EXCEPT ![me] = "yield"]
      /\ UNCHANGED <<locked, owner, current_task>>
      /\ wait_tail' = me
      /\ Enqueue(me)
  BY DEF Mutex_Lock_taken, Enqueue
<1>1. /\ me \in Tasks /\ me \notin Waiters
      /\ owner \in Tasks /\ owner # me
  BY <1>0 DEF IInv, TypeOK, PlacesAgree, OwnerCanRun, Waiters, Pointers
<1>2. Waiters' = Waiters \cup {me}
  BY <1>0, <1>1 DEF Waiters, IInv, TypeOK
<1>3. next' \in [Tasks -> Pointers] /\ wait_head' \in Pointers
  BY <1>0, <1>1 DEF Enqueue, IInv, TypeOK, Pointers
<1>4. TypeOK'
  BY <1>0, <1>1, <1>3 DEF IInv, TypeOK, Pointers, Places
<1>5. OwnerCanRun'
  BY <1>0, <1>1 DEF IInv, TypeOK, OwnerCanRun
<1>6. MutualExclusion'
  BY <1>0, <1>1 DEF IInv, TypeOK, MutualExclusion
<1>7. PlacesAgree'
  BY <1>0, <1>1, <1>2 DEF IInv, TypeOK, PlacesAgree, Waiters
<1>8. WaitListIsWhole'
  <2>1. CASE wait_tail = NULL
    <3>1. Waiters = {} /\ wait_head' = me /\ next'[me] = NULL
      BY <1>0, <1>1, <2>1 DEF Enqueue, IInv, TypeOK, WaitListIsWhole
    <3>2. QED BY <1>0, <1>1, <1>2, <3>1 DEF WaitListIsWhole
  <2>2. CASE wait_tail # NULL
    <3>1. /\ wait_head \in Waiters /\ wait_tail \in Waiters /\ wait_head' = wait_head
          /\ Waiters \subseteq Tasks
      BY <1>0, <2>2 DEF Enqueue, IInv, WaitListIsWhole, Waiters
    <3>2. /\ next'[me] = NULL
          /\ next'[wait_tail] = me
          /\ \A t \in Waiters \ {wait_tail} : next'[t] = next[t]
      BY <1>0, <1>1, <2>2, <3>1 DEF Enqueue, IInv, TypeOK
    <3>3. \A t \in Waiters \ {wait_tail} : next'[t] \in Waiters \ {wait_head}
      BY <3>2 DEF IInv, WaitListIsWhole
    <3>4. \A t \in Waiters : next'[t] \in Waiters' \ {wait_head'}
      BY <1>1, <1>2, <3>1, <3>2, <3>3
    <3>5. \A t, u \in Waiters : next'[t] = next'[u] => t = u
      BY <1>1, <3>1, <3>2, <3>3 DEF IInv, WaitListIsWhole
    <3>6. ASSUME NEW S \in SUBSET Waiters', wait_head \in S,
                 \A t \in S \ {me} : next'[t] \in S
          PROVE  S = Waiters'
      <4>1. \A t \in (S \ {me}) \ {wait_tail} : next[t] \in S \ {me}
        BY <1>1, <1>2, <3>2, <3>3, <3>6
      <4>2. S \ {me} \in SUBSET Waiters /\ wait_head \in S \ {me}
        BY <1>1, <1>2, <3>1, <3>6
      <4>3. S \ {me} = Waiters
        BY <4>1, <4>2 DEF IInv, WaitListIsWhole
      <4>4. wait_tail \in S \ {me}
        BY <3>1, <4>3
      <4>5. me \in S
        BY <3>2, <3>6, <4>4
      <4> QED BY <1>2, <4>3, <4>5
    <3>7. QED
      BY <1>0, <1>1, <1>2, <3>1, <3>2, <3>4, <3>5, <3>6 DEF WaitListIsWhole
  <2>3. QED BY <2>1, <2>2
<1>9. QED BY <1>4, <1>5, <1>6, <1>7, <1>8 DEF IInv

(* The mutex goes to the head of the list, or is free when there is none. *)
LEMMA UnlockPreserves == IInv /\ Mutex_Unlock => IInv'
<1> SUFFICES ASSUME IInv, Mutex_Unlock PROVE IInv'
  OBVIOUS
<1> DEFINE me == current_task
           w  == wait_head
<1>0. /\ me \in Tasks /\ pc[me] = "cs" /\ owner = me /\ locked
      /\ pc' = [pc EXCEPT ![me] = "out"]
      /\ current_task' = current_task
      /\ me \notin Waiters
  BY DEF Mutex_Unlock, IInv, TypeOK, MutualExclusion, PlacesAgree
<1>1. CASE Release
  <2>1. Waiters' = Waiters /\ Waiters = {}
    BY <1>1 DEF Release, Waiters, IInv, WaitListIsWhole
  <2>2. WaitListIsWhole'
    BY <1>1, <2>1, WaitListFrame DEF Release, IInv
  <2>3. TypeOK'
    BY <1>0, <1>1 DEF Release, IInv, TypeOK, Pointers, Places
  <2>4. MutualExclusion'
    BY <1>0, <1>1 DEF Release, IInv, TypeOK, MutualExclusion
  <2>5. OwnerCanRun'
    BY <1>1, <2>1 DEF Release, OwnerCanRun
  <2>6. PlacesAgree'
    BY <1>0, <1>1, <2>1 DEF Release, IInv, TypeOK, PlacesAgree
  <2>7. QED BY <2>2, <2>3, <2>4, <2>5, <2>6 DEF IInv
<1>2. CASE HandOver
  <2>0. /\ w # NULL
        /\ wait_head' = next[w]
        /\ wait_tail' = IF next[w] = NULL THEN NULL ELSE wait_tail
        /\ owner' = w
        /\ state' = [state EXCEPT ![w] = "ready"]
        /\ locked' = locked
        /\ \E p \in Pointers : next' = [next EXCEPT ![w] = p]
    BY <1>2 DEF HandOver, Scheduler_AddReady
  <2>1. /\ Waiters # {} /\ Waiters \subseteq Tasks
        /\ w \in Waiters /\ wait_tail \in Waiters /\ w # me
    BY <1>0, <2>0 DEF IInv, WaitListIsWhole, Waiters
  <2>2. Waiters' = Waiters \ {w}
    BY <2>0, <2>1 DEF IInv, TypeOK, Waiters
  <2>3. /\ next' \in [Tasks -> Pointers]
        /\ \A t \in Waiters \ {w} : next'[t] = next[t]
    BY <2>0, <2>1 DEF IInv, TypeOK
  <2>4. TypeOK'
    BY <1>0, <2>0, <2>1, <2>3 DEF IInv, TypeOK, Pointers, Places
  <2>5. MutualExclusion'
    BY <1>0, <2>0, <2>1 DEF IInv, TypeOK, MutualExclusion
  <2>6. OwnerCanRun'
    BY <1>0, <2>0, <2>1 DEF IInv, TypeOK, OwnerCanRun
  <2>7. PlacesAgree'
    <3>1. pc[w] \in {"yield", "trapped"}
      BY <2>1 DEF IInv, PlacesAgree
    <3>2. /\ \A t \in Tasks : t # me => pc'[t] = pc[t]
          /\ pc'[me] = "out"
      BY <1>0 DEF IInv, TypeOK
    <3>3. \A t \in Tasks \ Waiters' : pc'[t] \in {"yield", "trapped"} => owner' = t
      BY <1>0, <2>0, <2>1, <2>2, <3>2 DEF IInv, PlacesAgree
    <3>4. \A t \in Waiters' : pc'[t] \in {"yield", "trapped"}
      BY <1>0, <2>1, <2>2, <3>2 DEF IInv, PlacesAgree
    <3>5. \A t \in Tasks : owner' = t => pc'[t] # "out"
      BY <2>0, <2>1, <3>1, <3>2
    <3>6. /\ \A t \in Tasks : state'[t] = "running" => t = current_task'
          /\ state'[current_task'] # "blocked"
      BY <1>0, <2>0, <2>1 DEF IInv, TypeOK, PlacesAgree, Waiters
    <3>7. QED BY <3>3, <3>4, <3>5, <3>6 DEF PlacesAgree
  <2>8. WaitListIsWhole'
    <3>1. CASE next[w] = NULL
      <4>1. w = wait_tail
        BY <2>1, <3>1 DEF IInv, WaitListIsWhole
      <4>2. {w} = Waiters
        BY <2>1, <4>1 DEF IInv, WaitListIsWhole
      <4>3. QED BY <2>0, <2>2, <3>1, <4>2 DEF WaitListIsWhole
    <3>2. CASE next[w] # NULL
      <4>1. w # wait_tail
        BY <2>1, <3>2 DEF IInv, WaitListIsWhole
      <4>2. wait_head' \in Waiters' /\ wait_tail' = wait_tail /\ wait_tail \in Waiters'
        BY <2>0, <2>1, <2>2, <3>2, <4>1 DEF IInv, WaitListIsWhole
      <4>3. next'[wait_tail'] = NULL
        BY <2>1, <2>3, <4>1, <4>2 DEF IInv, WaitListIsWhole
      <4>4. \A t \in Waiters' \ {wait_tail} : next'[t] \in Waiters' \ {wait_head'}
        BY <2>0, <2>1, <2>2, <2>3, <4>1 DEF IInv, WaitListIsWhole
      <4>5. \A t, u \in Waiters' \ {wait_tail} : next'[t] = next'[u] => t = u
        BY <2>2, <2>3 DEF IInv, WaitListIsWhole
      <4>6. ASSUME NEW S \in SUBSET Waiters', wait_head' \in S,
                   \A t \in S \ {wait_tail} : next'[t] \in S
            PROVE  S = Waiters'
        <5>1. \A t \in (S \cup {w}) \ {wait_tail} : next[t] \in S \cup {w}
          BY <2>0, <2>2, <2>3, <4>6
        <5>2. S \cup {w} \in SUBSET Waiters
          BY <2>1, <2>2, <4>6
        <5>3. S \cup {w} = Waiters
          BY <5>1, <5>2 DEF IInv, WaitListIsWhole
        <5>4. w \notin S
          BY <2>2
        <5>5. QED BY <2>2, <5>3, <5>4
      <4>7. /\ Waiters' # {} /\ wait_head' # NULL /\ wait_tail' # NULL
        BY <2>1, <2>2, <4>2
      <4>8. QED BY <4>2, <4>3, <4>4, <4>5, <4>6, <4>7 DEF WaitListIsWhole
    <3>3. QED BY <3>1, <3>2
  <2>9. QED BY <2>4, <2>5, <2>6, <2>7, <2>8 DEF IInv
<1>3. QED BY <1>1, <1>2 DEF Mutex_Unlock

LEMMA NextPreserves == ASSUME IInv, [Next]_vars PROVE IInv'
<1>1. CASE UNCHANGED vars
  <2>1. Waiters' = Waiters
    BY <1>1 DEF vars, Waiters
  <2>2. WaitListIsWhole'
    BY <1>1, <2>1, WaitListFrame DEF vars, IInv
  <2>3. TypeOK' /\ MutualExclusion' /\ OwnerCanRun' /\ PlacesAgree'
    BY <1>1, <2>1 DEF vars, IInv, TypeOK, MutualExclusion, OwnerCanRun, PlacesAgree
  <2>4. QED BY <2>2, <2>3 DEF IInv
<1>2. CASE Next
  BY <1>2, LockFreePreserves, LockTakenPreserves, YieldPreserves, LockReturnPreserves,
     UnlockPreserves, TickPreserves DEF Next
<1>3. QED BY <1>1, <1>2

-----------------------------------------------------------------------------
(* The inductive invariant. *)
THEOREM MutexInvariant == Spec => []IInv
<1>1. IInv /\ [Next]_vars => IInv'
  BY NextPreserves
<1>2. QED BY <1>1, InitEstablishes, PTL DEF Spec

(* A task that got through Mutex_Lock owns the mutex, whatever the number   *)
(* of tasks and wherever the tick strikes: mutual exclusion.                *)
THEOREM MutexExcludes == Spec => []MutualExclusion
<1>1. IInv => MutualExclusion
  BY DEF IInv
<1>2. QED BY <1>1, MutexInvariant, PTL

(* Mutex_Lock's append and Mutex_Unlock's removal keep the wait list a      *)
(* single chain of exactly the blocked tasks.                               *)
THEOREM WaitListStaysWhole == Spec => []WaitListIsWhole
<1>1. IInv => WaitListIsWhole
  BY DEF IInv
<1>2. QED BY <1>1, MutexInvariant, PTL

(* The owner of a taken mutex is never blocked on it. *)
THEOREM OwnerStaysRunnable == Spec => []OwnerCanRun
<1>1. IInv => OwnerCanRun
  BY DEF IInv
<1>2. QED BY <1>1, MutexInvariant, PTL

(* The place of every task in Mutex_Lock agrees with its TCB and with the   *)
(* mutex: one that came back from its yield unblocked is the owner, which is *)
(* why Mutex_Lock may return without a test.                                *)
THEOREM PlacesStayRight == Spec => []PlacesAgree
<1>1. IInv => PlacesAgree
  BY DEF IInv
<1>2. QED BY <1>1, MutexInvariant, PTL

(* The variables of mutex.c keep their types, for any set of tasks. *)
THEOREM MutexTypes == Spec => []TypeOK
<1>1. IInv => TypeOK
  BY DEF IInv
<1>2. QED BY <1>1, MutexInvariant, PTL

-----------------------------------------------------------------------------
(* The wait list as a queue: q holds every waiter once, from wait_head to  *)
(* wait_tail.                                                              *)

IsLine(q, W, n, h, l) ==
  /\ q \in Seq(Tasks)
  /\ \A i \in 1..Len(q) : q[i] \in W
  /\ \A t \in W : \E i \in 1..Len(q) : q[i] = t
  /\ \A i, j \in 1..Len(q) : q[i] = q[j] => i = j
  /\ Len(q) > 0 => q[1] = h /\ q[Len(q)] = l
  /\ \A i \in 1..(Len(q) - 1) : n[q[i]] = q[i+1]

(* What WaitListIsWhole says of the walk from h. *)
OneLine(W, n, h, l) ==
  \A S \in SUBSET W : h \in S /\ (\A t \in S \ {l} : n[t] \in S) => S = W

Walk(N, n, h, f) == f = [i \in 1..N |-> IF i = 1 THEN h ELSE n[f[i-1]]]

LEMMA LineCounts ==
  ASSUME NEW q, NEW W, NEW n, NEW h, NEW l, IsLine(q, W, n, h, l)
  PROVE  Cardinality(W) = Len(q)
<1>1. Len(q) \in Nat /\ q \in [1..Len(q) -> Tasks]
  BY LenProperties DEF IsLine
<1>2. q \in [1..Len(q) -> W]
  BY <1>1 DEF IsLine
<1>3. q \in Bijection(1..Len(q), W)
  BY <1>2 DEF IsLine, Bijection, Injection, Surjection, IsInjective
<1>4. ExistsBijection(1..Len(q), W)
  BY <1>3 DEF ExistsBijection
<1> QED BY <1>1, <1>4, FS_CountingElements

(* There is one line: the waiters that two walks from the head meet at the *)
(* same step are all there are.                                            *)
LEMMA LineIsWalk ==
  ASSUME NEW W, NEW n, NEW h, NEW l, OneLine(W, n, h, l), NEW q, IsLine(q, W, n, h, l)
  PROVE  /\ Walk(Len(q), n, h, q)
         /\ \A f : Walk(Len(q), n, h, f) => f = q
<1>0. PICK N \in Nat : N = Len(q)
  BY LenProperties DEF IsLine
<1>1. /\ q \in [1..N -> Tasks]
      /\ \A i \in 1..N : q[i] \in W
      /\ \A i, j \in 1..N : q[i] = q[j] => i = j
      /\ N > 0 => q[1] = h /\ q[N] = l
      /\ \A i \in 1..(N - 1) : n[q[i]] = q[i+1]
  BY <1>0, LenProperties DEF IsLine
<1>2. Walk(N, n, h, q)
  <2> DEFINE g == [i \in 1..N |-> IF i = 1 THEN h ELSE n[q[i-1]]]
  <2>1. ASSUME NEW i \in 1..N PROVE q[i] = g[i]
    <3>1. CASE i = 1
      BY <1>1, <3>1
    <3>2. CASE i # 1
      <4>1. i - 1 \in 1..(N - 1) /\ (i - 1) + 1 = i
        BY <1>1, <3>2
      <4>2. n[q[i-1]] = q[i]
        BY <1>1, <4>1
      <4> QED BY <3>2, <4>2
    <3> QED BY <3>1, <3>2
  <2>2. q = g
    BY <1>1, <2>1
  <2> QED BY <2>2 DEF Walk
<1>3. ASSUME NEW f, Walk(N, n, h, f) PROVE f = q
  <2>1. /\ DOMAIN f = 1..N /\ f = [i \in DOMAIN f |-> f[i]]
        /\ \A i \in 1..N : f[i] = IF i = 1 THEN h ELSE n[f[i-1]]
    BY <1>3 DEF Walk
  <2> DEFINE S == {t \in W : \E i \in 1..N : q[i] = t /\ f[i] = t}
  <2>2. CASE N = 0
    BY <1>1, <2>1, <2>2
  <2>3. CASE N # 0
    <3>0. 1 \in 1..N /\ N > 0
      BY <2>3
    <3>1. f[1] = h /\ q[1] = h /\ h \in W
      <4>1. f[1] = IF 1 = 1 THEN h ELSE n[f[1-1]]
        BY <2>1, <3>0, Zenon
      <4>2. q[1] = h /\ q[1] \in W
        BY <1>1, <3>0, Zenon
      <4> QED BY <4>1, <4>2
    <3>2. h \in S
      BY <3>0, <3>1
    <3>3. ASSUME NEW t \in S \ {l} PROVE n[t] \in S
      <4>1. PICK i \in 1..N : q[i] = t /\ f[i] = t
        OBVIOUS
      <4>2. i # N
        BY <1>1, <3>0, <4>1
      <4>3. i \in 1..(N - 1) /\ i + 1 \in 1..N /\ i + 1 # 1 /\ (i + 1) - 1 = i
        BY <4>2
      <4>4. n[t] = q[i+1] /\ n[t] = f[i+1]
        BY <1>1, <2>1, <4>1, <4>3
      <4> QED BY <1>1, <4>3, <4>4
    <3> HIDE DEF S
    <3>4. S = W
      <4>1. S \in SUBSET W
        BY DEF S
      <4> QED BY <3>2, <3>3, <4>1 DEF OneLine
    <3>5. ASSUME NEW j \in 1..N PROVE f[j] = q[j]
      <4>1. q[j] \in S
        BY <1>1, <3>4
      <4>2. PICK i \in 1..N : q[i] = q[j] /\ f[i] = q[j]
        BY <4>1 DEF S
      <4> QED BY <1>1, <4>2
    <3> QED BY <1>1, <2>1, <3>5
  <2> QED BY <2>2, <2>3
<1> QED BY <1>0, <1>2, <1>3

LEMMA ListIsLine ==
  ASSUME WaitListIsWhole, NEW q, IsLine(q, Waiters, next, wait_head, wait_tail)
  PROVE  WaitList = q
<1>1. Cardinality(Waiters) = Len(q) /\ OneLine(Waiters, next, wait_head, wait_tail)
  BY LineCounts DEF WaitListIsWhole, OneLine
<1>2. WaitList = CHOOSE f : Walk(Len(q), next, wait_head, f)
  BY <1>1 DEF WaitList, Walk
<1> QED BY <1>1, <1>2, LineIsWalk

LEMMA ListIsLineAfter ==
  ASSUME WaitListIsWhole', NEW q, IsLine(q, Waiters', next', wait_head', wait_tail')
  PROVE  WaitList' = q
<1>1. Cardinality(Waiters') = Len(q) /\ OneLine(Waiters', next', wait_head', wait_tail')
  BY LineCounts DEF WaitListIsWhole, OneLine
<1>2. WaitList' = CHOOSE f : Walk(Len(q), next', wait_head', f)
  BY <1>1 DEF WaitList, Walk
<1> QED BY <1>1, <1>2, LineIsWalk

(* Mutex_Lock appends the caller me. *)
LEMMA LineGrows ==
  ASSUME NEW q, NEW W, NEW n, NEW h, NEW l, IsLine(q, W, n, h, l), NEW me \in Tasks \ W,
         NEW m, NEW g, Len(q) = 0 => g = me, Len(q) > 0 => g = h /\ m[l] = me,
         \A t \in W \ {l} : m[t] = n[t]
  PROVE  IsLine(Append(q, me), W \cup {me}, m, g, me)
<1> DEFINE r == Append(q, me)
<1>0. PICK N \in Nat : N = Len(q)
  BY LenProperties DEF IsLine
<1>1. /\ q \in [1..N -> Tasks]
      /\ \A i \in 1..N : q[i] \in W
      /\ \A u \in W : \E i \in 1..N : q[i] = u
      /\ \A i, j \in 1..N : q[i] = q[j] => i = j
      /\ N > 0 => q[1] = h /\ q[N] = l
      /\ \A i \in 1..(N - 1) : n[q[i]] = q[i+1]
  BY <1>0, LenProperties DEF IsLine
<1>2. /\ r \in Seq(Tasks) /\ Len(r) = N + 1 /\ r[N+1] = me
      /\ \A i \in 1..N : r[i] = q[i]
  BY <1>0, AppendProperties DEF IsLine
<1> HIDE DEF r
<1>3. \A i \in 1..(N + 1) : i \in 1..N \/ i = N + 1
  OBVIOUS
<1>4. /\ \A i \in 1..(N + 1) : r[i] \in W \cup {me}
      /\ \A u \in W \cup {me} : \E i \in 1..(N + 1) : r[i] = u
  <2>1. N + 1 \in 1..(N + 1) /\ \A i \in 1..N : i \in 1..(N + 1)
    OBVIOUS
  <2> QED BY <1>1, <1>2, <1>3, <2>1
<1>5. \A i, j \in 1..(N + 1) : r[i] = r[j] => i = j
  BY <1>1, <1>2, <1>3
<1>6. r[1] = g
  <2>1. CASE N = 0
    BY <1>0, <1>2, <2>1
  <2>2. CASE N # 0
    <3>1. N > 0 /\ 1 \in 1..N
      BY <2>2
    <3> QED BY <1>0, <1>1, <1>2, <3>1
  <2> QED BY <2>1, <2>2
<1>7. ASSUME NEW i \in 1..N PROVE m[r[i]] = r[i+1]
  <2>0. N > 0 /\ N \in 1..N
    OBVIOUS
  <2>1. CASE i = N
    BY <1>0, <1>1, <1>2, <2>0, <2>1
  <2>2. CASE i # N
    <3>1. i \in 1..(N - 1) /\ i + 1 \in 1..N
      BY <2>2
    <3>2. q[i] # l /\ q[i] \in W
      BY <1>1, <2>0, <2>2
    <3> QED BY <1>1, <1>2, <3>1, <3>2
  <2> QED BY <2>1, <2>2
<1>8. (N + 1) - 1 = N
  OBVIOUS
<1>9. IsLine(r, W \cup {me}, m, g, me)
  BY <1>2, <1>4, <1>5, <1>6, <1>7, <1>8 DEF IsLine
<1> QED BY <1>9 DEF r

(* Mutex_Unlock takes the first: the head moves to the one behind it. *)
FirstIsTaken(W, n, h, l, m, g, k) ==
  /\ h \in W
  /\ \A t \in W \ {h} : m[t] = n[t]
  /\ h # l => g = n[h] /\ k = l

LEMMA LineAdvances ==
  ASSUME NEW q, NEW W, NEW n, NEW h, NEW l, IsLine(q, W, n, h, l), NEW m, NEW g, NEW k,
         FirstIsTaken(W, n, h, l, m, g, k)
  PROVE  /\ q # <<>> /\ Head(q) = h
         /\ IsLine(Tail(q), W \ {h}, m, g, k)
<1> USE DEF FirstIsTaken
<1>0. PICK N \in Nat : N = Len(q)
  BY LenProperties DEF IsLine
<1>1. /\ q \in Seq(Tasks) /\ q \in [1..N -> Tasks]
      /\ \A i \in 1..N : q[i] \in W
      /\ \A u \in W : \E i \in 1..N : q[i] = u
      /\ \A i, j \in 1..N : q[i] = q[j] => i = j
      /\ N > 0 => q[1] = h /\ q[N] = l
      /\ \A i \in 1..(N - 1) : n[q[i]] = q[i+1]
  BY <1>0, LenProperties DEF IsLine
<1>2. N > 0 /\ N \in 1..N /\ 1 \in 1..N
  <2>1. N # 0
    BY <1>1
  <2> QED BY <2>1
<1>3. q # <<>>
  BY <1>0, <1>2, EmptySeq
<1>4. Head(q) = h
  BY <1>1, <1>2
<1>5. /\ Tail(q) \in Seq(Tasks) /\ Len(Tail(q)) = N - 1
      /\ \A i \in 1..(N - 1) : Tail(q)[i] = q[i+1]
  BY <1>0, <1>1, <1>3, HeadTailProperties
<1> DEFINE r == Tail(q)
<1>6. r \in Seq(Tasks) /\ Len(r) = N - 1 /\ \A i \in 1..(N - 1) : r[i] = q[i+1]
  BY <1>5
<1> HIDE DEF r
<1>7. \A i \in 1..(N - 1) : i + 1 \in 1..N /\ i + 1 # 1
  OBVIOUS
<1>8. \A i \in 1..(N - 1) : r[i] \in W \ {h}
  BY <1>1, <1>2, <1>6, <1>7
<1>9. ASSUME NEW u \in W \ {h} PROVE \E i \in 1..(N - 1) : r[i] = u
  <2>1. PICK i \in 1..N : q[i] = u
    BY <1>1
  <2>2. i # 1
    BY <1>1, <1>2, <2>1
  <2>3. i - 1 \in 1..(N - 1) /\ (i - 1) + 1 = i
    BY <2>2
  <2> QED BY <1>6, <2>1, <2>3
<1>10. ASSUME NEW i \in 1..(N - 1), NEW j \in 1..(N - 1), r[i] = r[j] PROVE i = j
  <2>1. i + 1 = j + 1
    BY <1>1, <1>6, <1>7, <1>10
  <2> QED BY <2>1
<1>11. ASSUME N - 1 > 0 PROVE r[1] = g /\ r[N-1] = k
  <2>1. 1 \in 1..(N - 1) /\ N - 1 \in 1..(N - 1) /\ (N - 1) + 1 = N /\ N # 1
    BY <1>11
  <2>2. h # l
    BY <1>1, <1>2, <2>1
  <2>3. r[1] = q[1+1] /\ n[q[1]] = q[1+1] /\ r[N-1] = q[N]
    BY <1>1, <1>6, <2>1
  <2> QED BY <1>1, <1>2, <2>2, <2>3
<1>12. ASSUME NEW i \in 1..((N - 1) - 1) PROVE m[r[i]] = r[i+1]
  <2>1. i \in 1..(N - 1) /\ i + 1 \in 1..(N - 1)
    OBVIOUS
  <2>2. r[i] = q[i+1] /\ r[i+1] = q[(i+1)+1] /\ n[q[i+1]] = q[(i+1)+1]
    BY <1>1, <1>6, <2>1
  <2> QED BY <1>8, <2>1, <2>2
<1>13. IsLine(r, W \ {h}, m, g, k)
  BY <1>6, <1>8, <1>9, <1>10, <1>11, <1>12 DEF IsLine
<1> QED BY <1>3, <1>4, <1>13 DEF r

-----------------------------------------------------------------------------
(* Mutex.tla implements FifoLock.tla.                                      *)

LineInv == IInv /\ IsLine(WaitList, Waiters, next, wait_head, wait_tail)

LEMMA LineBegins == ASSUME Init PROVE LineInv /\ Lock!Init
<1>1. IInv /\ Waiters = {}
  BY InitEstablishes DEF Init, Waiters
<1>2. <<>> \in Seq(Tasks) /\ Len(<<>>) = 0 /\ 1..0 = {} /\ 1..(0 - 1) = {}
  BY EmptySeq
<1>3. IsLine(<<>>, Waiters, next, wait_head, wait_tail)
  BY <1>1, <1>2 DEF IsLine
<1>4. WaitList = <<>>
  BY <1>1, <1>3, ListIsLine DEF IInv
<1>5. {t \in Tasks : pc[t] = "cs"} = {}
  BY DEF Init
<1> QED BY <1>1, <1>3, <1>4, <1>5 DEF LineInv, Lock!Init, Init, Mutex_Init

(* A step that leaves the waiters and their links alone. *)
LEMMA LineStays ==
  ASSUME LineInv, IInv', UNCHANGED <<wait_head, wait_tail>>, Waiters' = Waiters,
         \A t \in Waiters : next'[t] = next[t]
  PROVE  LineInv' /\ WaitList' = WaitList
<1>1. IsLine(WaitList, Waiters', next', wait_head', wait_tail')
  <2>1. WaitList \in Seq(Tasks) /\ Len(WaitList) \in Nat
    BY LenProperties DEF LineInv, IsLine
  <2>2. \A i \in 1..(Len(WaitList) - 1) : i \in 1..Len(WaitList)
    BY <2>1
  <2> QED BY <2>1, <2>2 DEF LineInv, IsLine
<1>2. WaitList' = WaitList
  BY <1>1, ListIsLineAfter DEF IInv
<1> QED BY <1>1, <1>2 DEF LineInv

LEMMA LineStep ==
  ASSUME LineInv, [Next]_vars
  PROVE  LineInv' /\ [Lock!Next]_Lock!vars
<1>0. PICK me \in Tasks : me = current_task
  BY DEF LineInv, IInv, TypeOK
<1> USE <1>0
<1>1. IInv /\ IInv' /\ TypeOK /\ me \in Tasks
  BY NextPreserves DEF LineInv, IInv, TypeOK
<1>2. CASE Mutex_Lock_free
  <2>1. LineInv' /\ WaitList' = WaitList
    BY <1>1, <1>2, LineStays DEF Mutex_Lock_free, Waiters
  <2>2. owner = NULL /\ owner' = me
    BY <1>1, <1>2 DEF Mutex_Lock_free, IInv, OwnerCanRun
  <2>3. {t \in Tasks : pc'[t] = "cs"} = {t \in Tasks : pc[t] = "cs"} \cup {me}
    BY <1>1, <1>2 DEF Mutex_Lock_free, TypeOK
  <2>4. Lock!Take(me)
    BY <2>1, <2>2, <2>3 DEF Lock!Take
  <2>5. Lock!Next
    BY <1>1, <2>4 DEF Lock!Next
  <2> QED BY <2>1, <2>5
<1>3. CASE Mutex_Lock_taken
  <2>1. /\ pc[me] = "out" /\ locked /\ state' = [state EXCEPT ![me] = "blocked"]
        /\ pc' = [pc EXCEPT ![me] = "yield"] /\ UNCHANGED owner
        /\ wait_tail' = me /\ Enqueue(me)
    BY <1>3 DEF Mutex_Lock_taken, Enqueue
  <2>2. me \notin Waiters /\ owner # me /\ owner # NULL
    BY <1>1, <2>1 DEF IInv, PlacesAgree, OwnerCanRun
  <2>3. Waiters' = Waiters \cup {me}
    BY <1>1, <2>1 DEF Waiters, TypeOK
  <2>4. /\ Len(WaitList) = 0 => wait_head' = me
        /\ Len(WaitList) > 0 => wait_head' = wait_head /\ next'[wait_tail] = me
        /\ \A t \in Waiters \ {wait_tail} : next'[t] = next[t]
    <3>1. Len(WaitList) \in Nat
      BY LenProperties DEF LineInv, IsLine
    <3>2. Len(WaitList) = 0 => Waiters = {}
      BY DEF LineInv, IsLine
    <3>3. Len(WaitList) > 0 => Waiters # {}
      <4>1. Len(WaitList) > 0 => 1 \in 1..Len(WaitList)
        BY <3>1
      <4> QED BY <4>1 DEF LineInv, IsLine
    <3>4. Waiters \subseteq Tasks /\ (Waiters # {} <=> wait_tail # NULL)
      BY <1>1 DEF IInv, WaitListIsWhole, Waiters
    <3>5. CASE wait_tail = NULL
      <4>1. Waiters = {} /\ wait_head' = me
        BY <2>1, <3>4, <3>5 DEF Enqueue
      <4> QED BY <3>3, <4>1
    <3>6. CASE wait_tail # NULL
      <4>1. wait_tail \in Waiters /\ wait_tail # me
        BY <1>1, <2>2, <3>4, <3>6 DEF IInv, WaitListIsWhole
      <4>2. wait_head' = wait_head /\ next' = [next EXCEPT ![me] = NULL, ![wait_tail] = me]
        BY <2>1, <3>6 DEF Enqueue
      <4>3. next'[wait_tail] = me /\ \A t \in Waiters \ {wait_tail} : next'[t] = next[t]
        BY <1>1, <2>2, <3>4, <4>1, <4>2 DEF TypeOK
      <4> QED BY <3>2, <4>1, <4>2, <4>3
    <3> QED BY <3>5, <3>6
  <2>5. IsLine(Append(WaitList, me), Waiters', next', wait_head', wait_tail')
    BY <1>1, <2>1, <2>2, <2>3, <2>4, LineGrows DEF LineInv
  <2>6. WaitList' = Append(WaitList, me)
    BY <1>1, <2>5, ListIsLineAfter DEF IInv
  <2>7. ~Lock!Waiting(me)
    BY <2>2 DEF Lock!Waiting, LineInv, IsLine
  <2>8. {t \in Tasks : pc'[t] = "cs"} = {t \in Tasks : pc[t] = "cs"}
    BY <1>1, <2>1 DEF TypeOK
  <2>9. Lock!Wait(me)
    BY <2>1, <2>2, <2>6, <2>7, <2>8 DEF Lock!Wait
  <2>10. Lock!Next
    BY <1>1, <2>9 DEF Lock!Next
  <2> QED BY <1>1, <2>5, <2>6, <2>10 DEF LineInv
<1>4. CASE OS_Yield \/ OS_TickISR
  <2>1. OS_Schedule /\ UNCHANGED mutex
    BY <1>4 DEF OS_Yield, OS_TickISR
  <2>2. Waiters' = Waiters
    BY <1>1, <2>1, ScheduleKeeps
  <2>3. \A t \in Waiters : next'[t] = next[t]
    <3>1. SchedulerMayRelink
      BY <2>1 DEF OS_Schedule
    <3>2. \A t \in Waiters : t \in Tasks /\ state'[t] = "blocked"
      BY <2>2 DEF Waiters
    <3> QED BY <3>1, <3>2 DEF SchedulerMayRelink
  <2>4. LineInv' /\ WaitList' = WaitList
    BY <1>1, <2>1, <2>2, <2>3, LineStays DEF mutex
  <2>5. {t \in Tasks : pc'[t] = "cs"} = {t \in Tasks : pc[t] = "cs"}
    BY <1>1, <1>4 DEF TypeOK, OS_Yield, OS_TickISR
  <2> QED BY <2>1, <2>4, <2>5 DEF Lock!vars, mutex
<1>5. CASE Mutex_Lock_return
  <2>1. LineInv' /\ WaitList' = WaitList
    BY <1>1, <1>5, LineStays DEF Mutex_Lock_return, mutex, Waiters
  <2>2. owner = me
    BY <1>1, <1>5 DEF Mutex_Lock_return, IInv, PlacesAgree, Waiters
  <2>3. {t \in Tasks : pc'[t] = "cs"} = {t \in Tasks : pc[t] = "cs"} \cup {me}
    BY <1>1, <1>5 DEF Mutex_Lock_return, TypeOK
  <2>4. Lock!WakeUp(me)
    BY <1>5, <2>1, <2>2, <2>3 DEF Lock!WakeUp, Mutex_Lock_return, mutex
  <2>5. Lock!Next
    BY <1>1, <2>4 DEF Lock!Next
  <2> QED BY <2>1, <2>5
<1>6. CASE Mutex_Unlock
  <2>1. pc[me] = "cs" /\ owner = me /\ pc' = [pc EXCEPT ![me] = "out"]
    BY <1>1, <1>6 DEF Mutex_Unlock, IInv, MutualExclusion
  <2>2. /\ me \in {t \in Tasks : pc[t] = "cs"}
        /\ {t \in Tasks : pc'[t] = "cs"} = {t \in Tasks : pc[t] = "cs"} \ {me}
    BY <1>1, <2>1 DEF TypeOK
  <2>3. CASE Release
    <3>1. LineInv' /\ WaitList' = WaitList /\ Waiters = {} /\ owner' = NULL
      BY <1>1, <2>3, LineStays DEF Release, Waiters, IInv, WaitListIsWhole
    <3>2. WaitList = <<>>
      <4>1. WaitList \in Seq(Tasks) /\ Len(WaitList) \in Nat
        BY LenProperties DEF LineInv, IsLine
      <4>2. Len(WaitList) > 0 => 1 \in 1..Len(WaitList)
        BY <4>1
      <4>3. ~(Len(WaitList) > 0)
        BY <3>1, <4>2 DEF LineInv, IsLine
      <4> QED BY <4>1, <4>3, EmptySeq
    <3>3. Lock!Leave(me)
      BY <2>1, <2>2, <3>1, <3>2 DEF Lock!Leave
    <3>4. Lock!Next
      BY <1>1, <3>3 DEF Lock!Next
    <3> QED BY <3>1, <3>4
  <2>4. CASE HandOver
    <3>1. /\ wait_head # NULL /\ wait_head' = next[wait_head]
          /\ wait_tail' = IF next[wait_head] = NULL THEN NULL ELSE wait_tail
          /\ owner' = wait_head /\ state' = [state EXCEPT ![wait_head] = "ready"]
          /\ \E p \in Pointers : next' = [next EXCEPT ![wait_head] = p]
      BY <2>4 DEF HandOver, Scheduler_AddReady
    <3>2. wait_head \in Waiters /\ Waiters \subseteq Tasks
      BY <1>1, <3>1 DEF IInv, WaitListIsWhole, Waiters
    <3>3. Waiters' = Waiters \ {wait_head}
      BY <1>1, <3>1, <3>2 DEF TypeOK, Waiters
    <3>4. \A t \in Waiters \ {wait_head} : next'[t] = next[t]
      BY <1>1, <3>1, <3>2 DEF TypeOK
    <3>5. wait_head # wait_tail => wait_tail' = wait_tail
      <4>1. wait_head # wait_tail => next[wait_head] \in Waiters
        BY <1>1, <3>2 DEF IInv, WaitListIsWhole
      <4> QED BY <3>1, <3>2, <4>1
    <3>6. /\ WaitList # <<>> /\ Head(WaitList) = wait_head
          /\ IsLine(Tail(WaitList), Waiters', next', wait_head', wait_tail')
      <4>1. IsLine(WaitList, Waiters, next, wait_head, wait_tail)
        BY DEF LineInv
      <4>2. wait_head # wait_tail => wait_head' = next[wait_head] /\ wait_tail' = wait_tail
        BY <3>1, <3>5
      <4>3. FirstIsTaken(Waiters, next, wait_head, wait_tail, next', wait_head', wait_tail')
        BY <3>2, <3>4, <4>2 DEF FirstIsTaken
      <4>4. /\ WaitList # <<>> /\ Head(WaitList) = wait_head
            /\ IsLine(Tail(WaitList), Waiters \ {wait_head}, next', wait_head', wait_tail')
        BY <4>1, <4>3, LineAdvances
      <4> QED BY <3>3, <4>4
    <3>7. WaitList' = Tail(WaitList)
      BY <1>1, <3>6, ListIsLineAfter DEF IInv
    <3>8. Lock!Leave(me)
      BY <2>1, <2>2, <3>1, <3>6, <3>7 DEF Lock!Leave
    <3>9. Lock!Next
      BY <1>1, <3>8 DEF Lock!Next
    <3> QED BY <1>1, <3>6, <3>7, <3>9 DEF LineInv
  <2> QED BY <1>6, <2>3, <2>4 DEF Mutex_Unlock
<1>7. CASE UNCHANGED vars
  <2>1. LineInv' /\ WaitList' = WaitList
    BY <1>1, <1>7, LineStays DEF vars, Waiters
  <2> QED BY <1>7, <2>1 DEF Lock!vars, vars
<1> QED BY <1>2, <1>3, <1>4, <1>5, <1>6, <1>7 DEF Next

(* mutex.c:120-123 for any set of tasks: first come, first served.  The     *)
(* mutex goes to the task that has waited longest, and nobody gets past.    *)
THEOREM MutexImplementsFifoLock == Spec => ImplementsFifoLock
<1>1. LineInv /\ [Next]_vars => LineInv' /\ [Lock!Next]_Lock!vars
  BY LineStep
<1>2. Init => LineInv /\ Lock!Init
  BY LineBegins
<1> QED BY <1>1, <1>2, PTL DEF Spec, ImplementsFifoLock, Lock!Spec
=============================================================================
