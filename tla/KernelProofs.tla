---------------------------- MODULE KernelProofs ----------------------------
(***************************************************************************)
(* Proofs about the kernel, for a pool of any size: the ready list and the *)
(* states of the tasks (Scheduler.tla), the functions of scheduler.c       *)
(* statement by statement (SchedulerSteps.tla), and the context switch     *)
(* (ContextSwitch.tla), for stacks of any depth.                           *)
(***************************************************************************)
EXTENDS ContextSwitch, SchedulerSteps, MCScheduler, SequenceTheorems, FiniteSetTheorems, TLAPS

USE PoolAssumption

-----------------------------------------------------------------------------
(* The circular list, for any pointers n.  SchedulerSteps reads it off the *)
(* pointers that a call under way will leave, not only off next.           *)

Links == [Tasks -> Tasks \cup {NULL}]

Chain(n) == {t \in Tasks : n[t] # NULL}

OneCycle(n) ==
  /\ \A t \in Chain(n) : n[t] \in Chain(n)
  /\ \A t \in Chain(n) : \E p \in Chain(n) : n[p] = t
  /\ \A t, u \in Chain(n) : n[t] = n[u] => t = u
  /\ \A S \in SUBSET Chain(n) : S # {} /\ (\A t \in S : n[t] \in S) => S = Chain(n)

HeadIsOn(n, h) == IF Chain(n) = {} THEN h = NULL ELSE h \in Chain(n)

(* m is n with t linked behind p, or taken out from behind p. *)
LinkedBehind(m, n, p, t) ==
  m[p] = t /\ m[t] = n[p] /\ \A u \in Tasks \ {p, t} : m[u] = n[u]

TakenFromBehind(m, n, p, t) ==
  m[t] = NULL /\ m[p] = n[t] /\ \A u \in Tasks \ {p, t} : m[u] = n[u]

(* A task that is off the list, linked behind p, is on it. *)
LEMMA InsertedBehind ==
  ASSUME NEW n \in Links, OneCycle(n), NEW p \in Chain(n), NEW t \in Tasks \ Chain(n),
         NEW m \in Links, LinkedBehind(m, n, p, t)
  PROVE  Chain(m) = Chain(n) \cup {t} /\ OneCycle(m)
<1> DEFINE h == n[p]
<1>0. n[p] = h
  OBVIOUS
<1>1. h \in Chain(n) /\ h \in Tasks /\ h # t /\ p \in Tasks /\ p # t
  BY DEF OneCycle, Chain
<1>2. \A q \in Chain(n) : n[q] = h => q = p
  BY DEF OneCycle
<1>3. m[p] = t /\ m[t] = h /\ \A u \in Tasks \ {p, t} : m[u] = n[u]
  BY DEF LinkedBehind
<1> HIDE DEF h
<1>4. Chain(m) = Chain(n) \cup {t}
  BY <1>1, <1>3 DEF Chain, Tasks, NULL
<1>5. \A u \in Chain(m) : m[u] \in Chain(m)
  BY <1>1, <1>3, <1>4 DEF OneCycle, Chain
<1>6. ASSUME NEW u \in Chain(m) PROVE \E q \in Chain(m) : m[q] = u
  <2>1. CASE u = t
    BY <2>1, <1>3, <1>4
  <2>2. CASE u = h
    BY <2>2, <1>3, <1>4
  <2>3. CASE u # t /\ u # h
    <3>1. PICK q \in Chain(n) : n[q] = u
      BY <2>3, <1>4 DEF OneCycle
    <3>2. q \in Tasks \ {p, t}
      BY <1>0, <3>1, <2>3 DEF Chain
    <3> QED BY <3>1, <3>2, <1>3, <1>4
  <2> QED BY <2>1, <2>2, <2>3
<1>7. \A u, v \in Chain(m) : m[u] = m[v] => u = v
  <2>1. \A u \in Chain(n) \ {p} : m[u] = n[u] /\ n[u] # t /\ n[u] # h
    BY <1>2, <1>3 DEF OneCycle, Chain
  <2> QED BY <2>1, <1>1, <1>3, <1>4 DEF OneCycle
<1>8. ASSUME NEW S \in SUBSET Chain(m), S # {}, \A u \in S : m[u] \in S
      PROVE  S = Chain(m)
  <2>1. h \in S \ {t} \/ t \notin S
    BY <1>1, <1>3, <1>8
  <2>2. S \ {t} # {} /\ S \ {t} \in SUBSET Chain(n)
    BY <2>1, <1>4, <1>8
  <2>3. \A u \in S \ {t} : n[u] \in S \ {t}
    <3> TAKE u \in S \ {t}
    <3>1. u \in Chain(n) /\ u \in Tasks
      BY <2>2 DEF Chain
    <3>2. CASE u = p
      BY <3>2, <1>0, <1>1, <1>3, <1>8, <2>1
    <3>3. CASE u # p
      BY <3>1, <3>3, <1>3, <1>8 DEF OneCycle
    <3> QED BY <3>2, <3>3
  <2>4. S \ {t} = Chain(n)
    BY <2>2, <2>3 DEF OneCycle
  <2>5. t \in S
    BY <2>4, <1>3, <1>8
  <2> QED BY <2>4, <2>5, <1>4
<1> QED BY <1>3, <1>4, <1>5, <1>6, <1>7, <1>8 DEF OneCycle

(* The first task of the list is linked to itself. *)
LEMMA InsertedAlone ==
  ASSUME NEW n \in Links, Chain(n) = {}, NEW t \in Tasks, NEW m, m = [n EXCEPT ![t] = t]
  PROVE  m \in Links /\ Chain(m) = {t} /\ OneCycle(m)
<1>1. m \in Links /\ m[t] = t /\ \A u \in Tasks \ {t} : m[u] = NULL
  BY DEF Links, Chain
<1>2. Chain(m) = {t}
  BY <1>1 DEF Chain, Tasks, NULL
<1> QED BY <1>1, <1>2 DEF OneCycle

(* The task behind p is taken out of a list of several. *)
LEMMA RemovedBehind ==
  ASSUME NEW n \in Links, OneCycle(n), NEW p \in Chain(n), NEW t, t = n[p], n[t] # t,
         NEW m \in Links, TakenFromBehind(m, n, p, t)
  PROVE  /\ Chain(m) = Chain(n) \ {t} /\ OneCycle(m)
         /\ p \in Chain(m) /\ n[t] \in Chain(m)
<1>1. t \in Chain(n) /\ \A q \in Chain(n) : n[q] = t => q = p
  BY DEF OneCycle
<1>2. t \in Tasks /\ p \in Tasks /\ p # t /\ n[t] \in Chain(n) /\ n[t] \in Tasks
  BY <1>1 DEF OneCycle, Chain
<1>3. m[t] = NULL /\ m[p] = n[t] /\ \A u \in Tasks \ {t, p} : m[u] = n[u]
  BY DEF TakenFromBehind
<1>4. Chain(m) = Chain(n) \ {t}
  BY <1>2, <1>3 DEF Chain, Tasks, NULL
<1>5. \A u \in Chain(m) : m[u] \in Chain(m)
  BY <1>1, <1>2, <1>3, <1>4 DEF OneCycle, Chain
<1>6. ASSUME NEW u \in Chain(m) PROVE \E q \in Chain(m) : m[q] = u
  <2>1. CASE u = n[t]
    BY <2>1, <1>2, <1>3, <1>4
  <2>2. CASE u # n[t]
    <3>1. PICK q \in Chain(n) : n[q] = u
      BY <1>4 DEF OneCycle
    <3>2. q \in Tasks \ {t, p}
      BY <3>1, <2>2, <1>4 DEF Chain
    <3> QED BY <3>1, <3>2, <1>3, <1>4
  <2> QED BY <2>1, <2>2
<1>7. \A u, v \in Chain(m) : m[u] = m[v] => u = v
  <2>1. \A u \in Chain(m) \ {p} : m[u] = n[u] /\ n[u] # n[t]
    BY <1>1, <1>3, <1>4 DEF OneCycle, Chain
  <2> QED BY <2>1, <1>3, <1>4 DEF OneCycle
<1>8. ASSUME NEW S \in SUBSET Chain(m), S # {}, \A u \in S : m[u] \in S
      PROVE  S = Chain(m)
  <2> DEFINE R == IF p \in S THEN S \cup {t} ELSE S
  <2>1. R # {} /\ R \in SUBSET Chain(n)
    BY <1>1, <1>4, <1>8
  <2>2. \A u \in R : n[u] \in R
    <3> TAKE u \in R
    <3>1. u \in Chain(n) /\ u \in Tasks
      BY <2>1 DEF Chain
    <3>2. CASE u = p
      BY <3>2, <1>2
    <3>3. CASE u = t
      BY <3>3, <1>2, <1>3, <1>4, <1>8
    <3>4. CASE u # p /\ u # t
      BY <3>1, <3>4, <1>3, <1>8
    <3> QED BY <3>2, <3>3, <3>4
  <2>3. R = Chain(n)
    BY <2>1, <2>2 DEF OneCycle
  <2> QED BY <2>3, <1>1, <1>4, <1>8
<1> QED BY <1>2, <1>3, <1>4, <1>5, <1>6, <1>7, <1>8 DEF OneCycle

(* A task that is its own successor is alone on the list. *)
LEMMA RemovedAlone ==
  ASSUME NEW n \in Links, OneCycle(n), NEW t \in Chain(n), n[t] = t,
         NEW m, m = [n EXCEPT ![t] = NULL]
  PROVE  Chain(n) = {t} /\ m \in Links /\ Chain(m) = {} /\ OneCycle(m)
<1>1. {t} \in SUBSET Chain(n) /\ {t} # {} /\ \A u \in {t} : n[u] \in {t}
  OBVIOUS
<1>2. Chain(n) = {t} /\ t \in Tasks
  BY <1>1 DEF OneCycle, Chain
<1>3. m \in Links /\ m[t] = NULL /\ \A u \in Tasks \ {t} : m[u] = n[u]
  BY <1>2 DEF Links
<1>4. Chain(m) = {}
  BY <1>2, <1>3 DEF Chain
<1> QED BY <1>2, <1>3, <1>4 DEF OneCycle

-----------------------------------------------------------------------------
(* The list and the states together, for any values of the variables.      *)

RightlyQueued(s, n, h) ==
  /\ \A t \in Tasks : t \in Chain(n) <=> s[t] \in {"ready", "running"}
  /\ HeadIsOn(n, h)
  /\ OneCycle(n)

RightlyMarked(s, k, c) ==
  /\ \A t \in Tasks : s[t] = "running" => t = c
  /\ c # NULL => c \in 1..k
  /\ \A t \in Tasks : t \notin 1..k => s[t] = "unused"

Sound(k, s, n, h, c) ==
  /\ k \in 0..OS_MAX_TASKS /\ s \in [Tasks -> TaskStates] /\ n \in Links
  /\ h \in Tasks \cup {NULL} /\ c \in Tasks \cup {NULL}
  /\ RightlyQueued(s, n, h)
  /\ RightlyMarked(s, k, c)

(* What ready_insert and ready_remove make of the pointers n and the head h; *)
(* p is where their walk stops.                                              *)
Inserted(n, h, t, p, m, g) ==
  IF h = NULL THEN g = t /\ m = [n EXCEPT ![t] = t]
  ELSE g = h /\ p \in Chain(n) /\ n[p] = h /\ m = [n EXCEPT ![p] = t, ![t] = h]

Taken(n, h, t, p, m, g) ==
  \/ t \notin Chain(n) /\ m = n /\ g = h
  \/ t \in Chain(n) /\ n[t] = t /\ m = [n EXCEPT ![t] = NULL] /\ g = IF h = t THEN NULL ELSE h
  \/ /\ t \in Chain(n) /\ n[t] # t /\ p \in Chain(n) /\ n[p] = t
     /\ m = [n EXCEPT ![p] = n[t], ![t] = NULL]
     /\ g = IF h = t THEN n[t] ELSE h

(* A task that becomes ready: created, or woken. *)
LEMMA InsertionIsSound ==
  ASSUME NEW k, NEW s, NEW n, NEW h, NEW c, Sound(k, s, n, h, c),
         NEW t \in Tasks \ Chain(n), NEW p, NEW m, NEW g, Inserted(n, h, t, p, m, g),
         NEW l \in 0..OS_MAX_TASKS, k <= l, t \in 1..l, \A u \in 1..l : u \in 1..k \/ u = t
  PROVE  Sound(l, [s EXCEPT ![t] = "ready"], m, g, c)
<1> DEFINE r == [s EXCEPT ![t] = "ready"]
<1>1. n \in Links /\ OneCycle(n) /\ HeadIsOn(n, h) /\ s \in [Tasks -> TaskStates]
  BY DEF Sound, RightlyQueued
<1>2. m \in Links /\ Chain(m) = Chain(n) \cup {t} /\ OneCycle(m) /\ g \in Chain(m)
  <2>1. CASE h = NULL
    <3>1. Chain(n) = {}
      BY <1>1, <2>1 DEF HeadIsOn, Chain, Tasks, NULL
    <3> QED BY <1>1, <2>1, <3>1, InsertedAlone DEF Inserted
  <2>2. CASE h # NULL
    <3>1. h \in Chain(n)
      BY <1>1, <2>2 DEF HeadIsOn
    <3>2. g = h /\ p \in Chain(n) /\ n[p] = h /\ m = [n EXCEPT ![p] = t, ![t] = h]
      BY <2>2 DEF Inserted
    <3>3. p \in Tasks /\ p # t /\ h \in Tasks
      BY <3>1, <3>2 DEF Chain
    <3>4. m \in Links /\ LinkedBehind(m, n, p, t)
      BY <1>1, <3>2, <3>3 DEF Links, LinkedBehind
    <3>5. Chain(m) = Chain(n) \cup {t} /\ OneCycle(m)
      BY <1>1, <3>2, <3>4, InsertedBehind
    <3> QED BY <3>1, <3>2, <3>4, <3>5
  <2> QED BY <2>1, <2>2
<1>3. r \in [Tasks -> TaskStates] /\ r[t] = "ready" /\ \A u \in Tasks \ {t} : r[u] = s[u]
  BY <1>1 DEF TaskStates
<1> HIDE DEF r
<1>4. RightlyQueued(r, m, g)
  BY <1>2, <1>3 DEF Sound, RightlyQueued, HeadIsOn
<1>5. RightlyMarked(r, l, c)
  <2>1. \A u \in Tasks : r[u] = "running" => u = c
    BY <1>3 DEF Sound, RightlyMarked
  <2>2. \A u \in Tasks : u \notin 1..l => r[u] = "unused"
    <3> SUFFICES ASSUME NEW u \in Tasks, u \notin 1..l PROVE r[u] = "unused"
      OBVIOUS
    <3>1. u # t /\ u \notin 1..k
      BY DEF Sound
    <3> QED BY <1>3, <3>1 DEF Sound, RightlyMarked
  <2>3. c # NULL => c \in 1..l
    BY DEF Sound, RightlyMarked
  <2> QED BY <2>1, <2>2, <2>3 DEF RightlyMarked
<1>6. g \in Tasks \cup {NULL} /\ c \in Tasks \cup {NULL}
  BY <1>2 DEF Chain, Sound
<1>7. Sound(l, r, m, g, c)
  BY <1>2, <1>3, <1>4, <1>5, <1>6 DEF Sound
<1> QED BY <1>7 DEF r

(* A task that is blocked or finishes. *)
LEMMA RemovalIsSound ==
  ASSUME NEW k, NEW s, NEW n, NEW h, NEW c, Sound(k, s, n, h, c),
         NEW t \in Tasks, NEW p, NEW m, NEW g, Taken(n, h, t, p, m, g),
         NEW e \in {"blocked", "unused"}, t \in 1..k \/ e = "unused"
  PROVE  Sound(k, [s EXCEPT ![t] = e], m, g, c)
<1> DEFINE r == [s EXCEPT ![t] = e]
<1>1. n \in Links /\ OneCycle(n) /\ HeadIsOn(n, h) /\ s \in [Tasks -> TaskStates]
  BY DEF Sound, RightlyQueued
<1>2. m \in Links /\ Chain(m) = Chain(n) \ {t} /\ OneCycle(m) /\ HeadIsOn(m, g)
  <2>1. CASE t \notin Chain(n) /\ m = n /\ g = h
    BY <1>1, <2>1
  <2>2. CASE t \in Chain(n) /\ n[t] = t /\ m = [n EXCEPT ![t] = NULL]
             /\ g = IF h = t THEN NULL ELSE h
    <3>1. Chain(n) = {t} /\ m \in Links /\ Chain(m) = {} /\ OneCycle(m)
      BY <1>1, <2>2, RemovedAlone
    <3> QED BY <1>1, <2>2, <3>1 DEF HeadIsOn
  <2>3. CASE /\ t \in Chain(n) /\ n[t] # t /\ p \in Chain(n) /\ n[p] = t
             /\ m = [n EXCEPT ![p] = n[t], ![t] = NULL]
             /\ g = IF h = t THEN n[t] ELSE h
    <3>1. p \in Tasks /\ p # t /\ n[t] \in Tasks
      BY <1>1, <2>3 DEF Chain, OneCycle
    <3>2. m \in Links /\ TakenFromBehind(m, n, p, t)
      BY <1>1, <2>3, <3>1 DEF Links, TakenFromBehind
    <3>3. Chain(m) = Chain(n) \ {t} /\ OneCycle(m) /\ n[t] \in Chain(m)
      BY <1>1, <2>3, <3>2, RemovedBehind
    <3>4. HeadIsOn(m, g)
      BY <1>1, <2>3, <3>3 DEF HeadIsOn
    <3> QED BY <3>2, <3>3, <3>4
  <2> QED BY <2>1, <2>2, <2>3 DEF Taken
<1>3. r \in [Tasks -> TaskStates] /\ r[t] = e /\ \A u \in Tasks \ {t} : r[u] = s[u]
  BY <1>1 DEF TaskStates
<1> HIDE DEF r
<1>4. RightlyQueued(r, m, g)
  BY <1>2, <1>3 DEF Sound, RightlyQueued
<1>5. RightlyMarked(r, k, c)
  BY <1>3 DEF Sound, RightlyMarked
<1>6. g \in Tasks \cup {NULL}
  BY <1>2 DEF HeadIsOn, Chain
<1>7. Sound(k, r, m, g, c)
  BY <1>2, <1>3, <1>4, <1>5, <1>6 DEF Sound
<1> QED BY <1>7 DEF r

-----------------------------------------------------------------------------
(* The list as a queue: q holds every linked task once, from the head on.  *)

IsLap(q, n, h) ==
  /\ q \in Seq(Tasks)
  /\ \A i \in 1..Len(q) : q[i] \in Chain(n)
  /\ \A t \in Chain(n) : \E i \in 1..Len(q) : q[i] = t
  /\ \A i, j \in 1..Len(q) : q[i] = q[j] => i = j
  /\ Len(q) > 0 => q[1] = h /\ n[q[Len(q)]] = h
  /\ \A i \in 1..(Len(q) - 1) : n[q[i]] = q[i+1]

LEMMA LapIsSeq ==
  ASSUME NEW q \in Seq(Tasks)
  PROVE  /\ Len(q) \in Nat /\ DOMAIN q = 1..Len(q) /\ q \in [1..Len(q) -> Tasks]
         /\ \A i \in 1..Len(q) : q[i] \in Tasks
<1>1. Len(q) \in Nat /\ q \in [1..Len(q) -> Tasks]
  BY LenProperties
<1> QED BY <1>1

LEMMA LapAssembled ==
  ASSUME NEW q \in Seq(Tasks), NEW N, Len(q) = N, NEW n, NEW h,
         \A i \in 1..N : q[i] \in Chain(n),
         \A t \in Chain(n) : \E i \in 1..N : q[i] = t,
         \A i, j \in 1..N : q[i] = q[j] => i = j,
         q[1] = h, n[q[N]] = h,
         \A i \in 1..(N - 1) : n[q[i]] = q[i+1]
  PROVE  IsLap(q, n, h)
BY DEF IsLap

LEMMA LapCounts ==
  ASSUME NEW q, NEW n, NEW h, IsLap(q, n, h)
  PROVE  Cardinality(Chain(n)) = Len(q)
<1>1. Len(q) \in Nat /\ q \in [1..Len(q) -> Tasks]
  BY LapIsSeq DEF IsLap
<1>2. q \in [1..Len(q) -> Chain(n)]
  BY <1>1 DEF IsLap
<1>3. q \in Bijection(1..Len(q), Chain(n))
  BY <1>2 DEF IsLap, Bijection, Injection, Surjection, IsInjective
<1>4. ExistsBijection(1..Len(q), Chain(n))
  BY <1>3 DEF ExistsBijection
<1> QED BY <1>1, <1>4, FS_CountingElements

(* There is one lap: two walks that start at the head meet the same tasks, *)
(* because the tasks that both meet at the same step are all there are.    *)
Walk(N, n, h, f) == f = [i \in 1..N |-> IF i = 1 THEN h ELSE n[f[i-1]]]

LEMMA LapIsWalk ==
  ASSUME NEW n, OneCycle(n), NEW h, NEW q, IsLap(q, n, h)
  PROVE  /\ Walk(Len(q), n, h, q)
         /\ \A f : Walk(Len(q), n, h, f) => f = q
<1>0. PICK N \in Nat : N = Len(q)
  BY LapIsSeq DEF IsLap
<1>1. /\ q \in [1..N -> Tasks]
      /\ \A i \in 1..N : q[i] \in Chain(n)
      /\ \A i, j \in 1..N : q[i] = q[j] => i = j
      /\ N > 0 => q[1] = h /\ n[q[N]] = h
      /\ \A i \in 1..(N - 1) : n[q[i]] = q[i+1]
  BY <1>0, LapIsSeq DEF IsLap
<1>2. Walk(N, n, h, q)
  <2> DEFINE g == [i \in 1..N |-> IF i = 1 THEN h ELSE n[q[i-1]]]
  <2>1. ASSUME NEW i \in 1..N PROVE q[i] = g[i]
    <3>1. CASE i = 1
      BY <1>1, <3>1
    <3>2. CASE i # 1
      <4>1. i - 1 \in 1..(N - 1) /\ (i - 1) + 1 = i
        BY <1>1, <3>2
      <4>2. n[q[i-1]] = q[i]
        BY <1>1, <4>1
      <4> QED BY <3>2, <4>2
    <3> QED BY <3>1, <3>2
  <2>2. q = g
    BY <1>1, <2>1
  <2> QED BY <2>2 DEF Walk
<1>3. ASSUME NEW f, Walk(N, n, h, f) PROVE f = q
  <2>1. /\ DOMAIN f = 1..N /\ f = [i \in DOMAIN f |-> f[i]]
        /\ \A i \in 1..N : f[i] = IF i = 1 THEN h ELSE n[f[i-1]]
    BY <1>3 DEF Walk
  <2> DEFINE S == {t \in Chain(n) : \E i \in 1..N : q[i] = t /\ f[i] = t}
  <2>2. CASE N = 0
    BY <1>1, <2>1, <2>2
  <2>3. CASE N # 0
    <3>0. 1 \in 1..N /\ N > 0
      BY <2>3
    <3>1. f[1] = h /\ q[1] = h /\ h \in Chain(n)
      <4>1. f[1] = IF 1 = 1 THEN h ELSE n[f[1-1]]
        BY <2>1, <3>0, Zenon
      <4>2. q[1] = h /\ q[1] \in Chain(n)
        BY <1>1, <3>0, Zenon
      <4> QED BY <4>1, <4>2
    <3>2. h \in S
      BY <3>0, <3>1
    <3>3. ASSUME NEW t \in S PROVE n[t] \in S
      <4>1. PICK i \in 1..N : q[i] = t /\ f[i] = t
        OBVIOUS
      <4>2. CASE i = N
        BY <1>1, <2>3, <3>2, <4>1, <4>2
      <4>3. CASE i # N
        <5>1. i \in 1..(N - 1) /\ i + 1 \in 1..N /\ i + 1 # 1 /\ (i + 1) - 1 = i
          BY <1>1, <4>3
        <5>2. n[t] = q[i+1] /\ n[t] = f[i+1]
          BY <1>1, <2>1, <4>1, <5>1
        <5> QED BY <1>1, <5>1, <5>2
      <4> QED BY <4>2, <4>3
    <3> HIDE DEF S
    <3>4. S = Chain(n)
      <4>1. S \in SUBSET Chain(n)
        BY DEF S
      <4> QED BY <3>2, <3>3, <4>1 DEF OneCycle
    <3>5. ASSUME NEW j \in 1..N PROVE f[j] = q[j]
      <4>1. q[j] \in S
        BY <1>1, <3>4
      <4>2. PICK i \in 1..N : q[i] = q[j] /\ f[i] = q[j]
        BY <4>1 DEF S
      <4> QED BY <1>1, <4>2
    <3> QED BY <1>1, <2>1, <3>5
  <2> QED BY <2>2, <2>3
<1> QED BY <1>0, <1>2, <1>3

LEMMA QueueIsLap ==
  ASSUME OneCycle(next), NEW q, IsLap(q, next, ready_head)
  PROVE  ReadyQueue = q
<1>1. Cardinality(Linked) = Len(q)
  BY LapCounts DEF Linked, Chain
<1>2. ReadyQueue = CHOOSE f : Walk(Len(q), next, ready_head, f)
  BY <1>1 DEF ReadyQueue, Walk
<1> QED BY <1>2, LapIsWalk

LEMMA QueueIsLapAfter ==
  ASSUME OneCycle(next'), NEW q, IsLap(q, next', ready_head')
  PROVE  ReadyQueue' = q
<1>1. Cardinality(Linked') = Len(q)
  BY LapCounts DEF Linked, Chain
<1>2. ReadyQueue' = CHOOSE f : Walk(Len(q), next', ready_head', f)
  BY <1>1 DEF ReadyQueue, Walk
<1> QED BY <1>2, LapIsWalk

LEMMA LapOfNothing ==
  ASSUME NEW n, Chain(n) = {}, NEW h
  PROVE  IsLap(<<>>, n, h)
<1>1. <<>> \in Seq(Tasks) /\ Len(<<>>) = 0 /\ 1..0 = {} /\ 1..(0 - 1) = {}
  BY EmptySeq
<1> QED BY <1>1 DEF IsLap

(* ready_insert appends. *)
LEMMA LapInserted ==
  ASSUME NEW n \in Links, OneCycle(n), NEW h, HeadIsOn(n, h), NEW q, IsLap(q, n, h),
         NEW t \in Tasks \ Chain(n), NEW p, NEW m \in Links, NEW g, Inserted(n, h, t, p, m, g),
         Chain(m) = Chain(n) \cup {t}
  PROVE  IsLap(Append(q, t), m, g)
<1> DEFINE r == Append(q, t)
<1>0. PICK N \in Nat : N = Len(q)
  BY LapIsSeq DEF IsLap
<1>1. /\ q \in [1..N -> Tasks]
      /\ \A i \in 1..N : q[i] \in Chain(n)
      /\ \A u \in Chain(n) : \E i \in 1..N : q[i] = u
      /\ \A i, j \in 1..N : q[i] = q[j] => i = j
      /\ N > 0 => q[1] = h /\ n[q[N]] = h
      /\ \A i \in 1..(N - 1) : n[q[i]] = q[i+1]
  BY <1>0, LapIsSeq DEF IsLap
<1>2. /\ r \in Seq(Tasks) /\ Len(r) = N + 1 /\ r[N+1] = t
      /\ \A i \in 1..N : r[i] = q[i]
  BY <1>0, AppendProperties DEF IsLap
<1> HIDE DEF r
<1>3. \A i \in 1..(N + 1) : i \in 1..N \/ i = N + 1
  OBVIOUS
<1>4. /\ \A i \in 1..(N + 1) : r[i] \in Chain(m)
      /\ \A u \in Chain(m) : \E i \in 1..(N + 1) : r[i] = u
  <2>1. N + 1 \in 1..(N + 1) /\ \A i \in 1..N : i \in 1..(N + 1)
    OBVIOUS
  <2> QED BY <1>1, <1>2, <1>3, <2>1
<1>5. \A i, j \in 1..(N + 1) : r[i] = r[j] => i = j
  BY <1>1, <1>2, <1>3
<1>6. CASE h = NULL
  <2>1. Chain(n) = {}
    BY <1>6 DEF HeadIsOn, Chain, Tasks, NULL
  <2>2. N = 0
    <3>1. N # 0 => 1 \in 1..N
      OBVIOUS
    <3> QED BY <1>1, <2>1, <3>1
  <2>3. g = t /\ m[t] = t
    BY <1>6 DEF Inserted, Links
  <2>4. r[1] = t /\ 1..0 = {}
    BY <1>2, <2>2
  <2> QED BY <1>2, <1>4, <1>5, <2>2, <2>3, <2>4 DEF IsLap, r
<1>7. CASE h # NULL
  <2>1. g = h /\ p \in Chain(n) /\ n[p] = h /\ m = [n EXCEPT ![p] = t, ![t] = h] /\ h \in Chain(n)
    BY <1>7 DEF Inserted, HeadIsOn
  <2>2. N > 0 /\ N \in 1..N /\ 1 \in 1..N
    <3>1. N # 0
      BY <1>1, <2>1
    <3> QED BY <3>1
  <2>3. p = q[N]
    BY <1>1, <2>1, <2>2 DEF OneCycle
  <2>4. m[p] = t /\ m[t] = h /\ \A u \in Tasks \ {p, t} : m[u] = n[u]
    BY <2>1 DEF Links, Chain
  <2>5. ASSUME NEW i \in 1..N PROVE m[r[i]] = r[i+1]
    <3>1. CASE i = N
      BY <1>2, <2>2, <2>3, <2>4, <3>1
    <3>2. CASE i # N
      <4>1. i \in 1..(N - 1) /\ i + 1 \in 1..N
        BY <3>2
      <4>2. q[i] # p /\ q[i] # t /\ q[i] \in Tasks
        BY <1>1, <2>2, <2>3, <3>2
      <4> QED BY <1>1, <1>2, <2>4, <4>1, <4>2
    <3> QED BY <3>1, <3>2
  <2>6. r[1] = g /\ m[r[N+1]] = g
    BY <1>1, <1>2, <2>1, <2>2, <2>4
  <2>7. (N + 1) - 1 = N
    OBVIOUS
  <2> QED BY <1>2, <1>4, <1>5, <2>5, <2>6, <2>7 DEF IsLap, r
<1> QED BY <1>6, <1>7

(* The tick rotates. *)
LEMMA LapRotated ==
  ASSUME NEW n, OneCycle(n), NEW h \in Chain(n), NEW q, IsLap(q, n, h)
  PROVE  /\ q # <<>> /\ Head(q) = h
         /\ IsLap(Append(Tail(q), Head(q)), n, n[h])
<1> DEFINE r == Append(Tail(q), Head(q))
<1>0. PICK N \in Nat : N = Len(q)
  BY LapIsSeq DEF IsLap
<1>1. /\ q \in Seq(Tasks) /\ q \in [1..N -> Tasks]
      /\ \A i \in 1..N : q[i] \in Chain(n)
      /\ \A u \in Chain(n) : \E i \in 1..N : q[i] = u
      /\ \A i, j \in 1..N : q[i] = q[j] => i = j
      /\ N > 0 => q[1] = h /\ n[q[N]] = h
      /\ \A i \in 1..(N - 1) : n[q[i]] = q[i+1]
  BY <1>0, LapIsSeq DEF IsLap
<1>2. N > 0 /\ N \in 1..N /\ 1 \in 1..N
  <2>1. N # 0
    BY <1>1
  <2> QED BY <2>1
<1>3. q # <<>>
  BY <1>0, <1>2, EmptySeq
<1>4. Head(q) = h
  BY <1>1, <1>2
<1>5. /\ Tail(q) \in Seq(Tasks) /\ Len(Tail(q)) = N - 1
      /\ \A i \in 1..(N - 1) : Tail(q)[i] = q[i+1]
  BY <1>0, <1>1, <1>3, HeadTailProperties
<1>6. h \in Tasks
  BY DEF Chain
<1>7. /\ r \in Seq(Tasks) /\ Len(r) = N /\ r[N] = h
      /\ \A i \in 1..(N - 1) : r[i] = q[i+1]
  <2>1. Len(Tail(q)) + 1 = N
    BY <1>5
  <2> QED BY <1>4, <1>5, <1>6, <2>1, AppendProperties
<1> HIDE DEF r
<1>8. \A i \in 1..N : i = N \/ (i \in 1..(N - 1) /\ i + 1 \in 1..N /\ i + 1 # 1)
  OBVIOUS
<1>9. \A i \in 1..N : r[i] \in Chain(n)
  BY <1>1, <1>7, <1>8
<1>10. ASSUME NEW u \in Chain(n) PROVE \E i \in 1..N : r[i] = u
  <2>1. PICK i \in 1..N : q[i] = u
    BY <1>1
  <2>2. CASE i = 1
    BY <1>1, <1>2, <1>7, <2>1, <2>2
  <2>3. CASE i # 1
    <3>1. i - 1 \in 1..(N - 1) /\ (i - 1) + 1 = i /\ i - 1 \in 1..N
      BY <2>3
    <3> QED BY <1>7, <2>1, <3>1
  <2> QED BY <2>2, <2>3
<1>11. ASSUME NEW i \in 1..N, NEW j \in 1..N, r[i] = r[j] PROVE i = j
  <2>1. r[i] = IF i = N THEN q[1] ELSE q[i+1]
    BY <1>1, <1>2, <1>7, <1>8
  <2>2. r[j] = IF j = N THEN q[1] ELSE q[j+1]
    BY <1>1, <1>2, <1>7, <1>8
  <2>3. CASE i = N
    BY <1>1, <1>2, <1>8, <1>11, <2>1, <2>2, <2>3
  <2>4. CASE i # N /\ j = N
    BY <1>1, <1>2, <1>8, <1>11, <2>1, <2>2, <2>4
  <2>5. CASE i # N /\ j # N
    <3>1. i + 1 \in 1..N /\ j + 1 \in 1..N
      BY <1>8, <2>5
    <3>2. q[i+1] = q[j+1]
      BY <1>11, <2>1, <2>2, <2>5
    <3>3. i + 1 = j + 1
      BY <1>1, <3>1, <3>2, Zenon
    <3> QED BY <3>3
  <2> QED BY <2>3, <2>4, <2>5
<1>12. ASSUME NEW i \in 1..(N - 1) PROVE n[r[i]] = r[i+1]
  <2>1. i + 1 \in 1..N /\ r[i] = q[i+1]
    BY <1>7
  <2>2. CASE i + 1 = N
    BY <1>1, <1>2, <1>7, <2>1, <2>2
  <2>3. CASE i + 1 # N
    <3>1. i + 1 \in 1..(N - 1)
      BY <2>3
    <3> QED BY <1>1, <1>7, <2>1, <3>1
  <2> QED BY <2>2, <2>3
<1>13. r[1] = n[h] /\ n[r[N]] = n[h]
  <2>1. CASE N = 1
    BY <1>1, <1>2, <1>7, <2>1
  <2>2. CASE N # 1
    <3>1. 1 \in 1..(N - 1)
      BY <1>2, <2>2
    <3> QED BY <1>1, <1>2, <1>7, <3>1
  <2> QED BY <2>1, <2>2
<1> QED BY <1>3, <1>4, <1>7, <1>9, <1>10, <1>11, <1>12, <1>13 DEF IsLap, r

(* The queue q without its j-th task. *)
Cut(q, j) == [k \in 1..(Len(q) - 1) |-> IF k < j THEN q[k] ELSE q[k+1]]

(* ready_remove takes t out and leaves the others in their order. *)
LEMMA LapCut ==
  ASSUME NEW n \in Links, OneCycle(n), NEW h, NEW q, IsLap(q, n, h), NEW t \in Chain(n),
         NEW p, NEW m \in Links, NEW g, Taken(n, h, t, p, m, g), Chain(m) = Chain(n) \ {t}
  PROVE  \E j \in 1..Len(q) : q[j] = t /\ IsLap(Cut(q, j), m, g)
<1>0. PICK N \in Nat : N = Len(q)
  BY LapIsSeq DEF IsLap
<1>1. /\ q \in [1..N -> Tasks]
      /\ \A i \in 1..N : q[i] \in Chain(n)
      /\ \A u \in Chain(n) : \E i \in 1..N : q[i] = u
      /\ \A i, k \in 1..N : q[i] = q[k] => i = k
      /\ N > 0 => q[1] = h /\ n[q[N]] = h
      /\ \A i \in 1..(N - 1) : n[q[i]] = q[i+1]
  BY <1>0, LapIsSeq DEF IsLap
<1>2. PICK j \in 1..N : q[j] = t
  BY <1>1
<1> DEFINE r == Cut(q, j)
<1>3. /\ r \in [1..(N - 1) -> Tasks]
      /\ \A k \in 1..(N - 1) : r[k] = IF k < j THEN q[k] ELSE q[k+1]
  <2>1. r = [k \in 1..(N - 1) |-> IF k < j THEN q[k] ELSE q[k+1]]
    BY <1>0 DEF Cut
  <2>2. \A k \in 1..(N - 1) : k \in 1..N /\ k + 1 \in 1..N
    OBVIOUS
  <2> QED BY <1>1, <2>1, <2>2
<1> HIDE DEF r
<1>4. N > 0 /\ N - 1 \in Nat /\ 1 \in 1..N /\ N \in 1..N
  BY <1>2
<1>5. r \in Seq(Tasks) /\ Len(r) = N - 1
  BY <1>3, <1>4
<1>6. ASSUME NEW k \in 1..(N - 1)
      PROVE  /\ k < j => r[k] = q[k] /\ k \in 1..N
             /\ k >= j => r[k] = q[k+1] /\ k + 1 \in 1..N
             /\ k \in 1..N /\ k + 1 \in 1..N
  <2>1. k \in 1..N /\ k + 1 \in 1..N /\ (k >= j => ~(k < j))
    OBVIOUS
  <2> QED BY <1>3, <2>1
<1>7. ASSUME NEW k \in 1..(N - 1) PROVE r[k] \in Chain(m)
  <2>1. CASE k < j
    <3>1. k # j
      BY <2>1
    <3>2. r[k] = q[k] /\ k \in 1..N
      BY <1>6, <2>1
    <3> QED BY <1>1, <1>2, <3>1, <3>2
  <2>2. CASE k >= j
    <3>1. k + 1 # j
      BY <2>2
    <3>2. r[k] = q[k+1] /\ k + 1 \in 1..N
      BY <1>6, <2>2
    <3> QED BY <1>1, <1>2, <3>1, <3>2
  <2> QED BY <2>1, <2>2
<1>8. ASSUME NEW u \in Chain(m) PROVE \E k \in 1..(N - 1) : r[k] = u
  <2>1. PICK i \in 1..N : q[i] = u
    BY <1>1
  <2>2. i # j
    BY <1>2, <2>1
  <2>3. CASE i < j
    <3>1. i \in 1..(N - 1)
      BY <2>3
    <3> QED BY <1>6, <2>1, <2>3, <3>1
  <2>4. CASE i > j
    <3>1. i - 1 \in 1..(N - 1) /\ i - 1 >= j /\ (i - 1) + 1 = i
      BY <2>4
    <3> QED BY <1>6, <2>1, <3>1
  <2> QED BY <2>2, <2>3, <2>4
<1>9. ASSUME NEW i \in 1..(N - 1), NEW k \in 1..(N - 1), r[i] = r[k] PROVE i = k
  <2>1. CASE i < j /\ k < j
    BY <1>1, <1>6, <1>9, <2>1
  <2>2. CASE i < j /\ k >= j
    <3>1. i # k + 1
      BY <2>2
    <3> QED BY <1>1, <1>6, <1>9, <2>2, <3>1
  <2>3. CASE i >= j /\ k < j
    <3>1. i + 1 # k
      BY <2>3
    <3> QED BY <1>1, <1>6, <1>9, <2>3, <3>1
  <2>4. CASE i >= j /\ k >= j
    <3>1. i + 1 = k + 1
      BY <1>1, <1>6, <1>9, <2>4
    <3> QED BY <3>1
  <2> QED BY <2>1, <2>2, <2>3, <2>4
<1>10. CASE n[t] = t
  <2>1. N = 1
    <3>1. {t} \in SUBSET Chain(n) /\ {t} # {} /\ \A u \in {t} : n[u] \in {t}
      BY <1>10
    <3>2. Chain(n) = {t}
      BY <3>1 DEF OneCycle
    <3> QED BY <1>1, <1>4, <3>2
  <2>2. N - 1 = 0 /\ (N - 1) - 1 = -1 /\ 1..(-1) = {} /\ ~(0 > 0)
    BY <2>1
  <2> QED BY <1>0, <1>2, <1>5, <1>7, <1>8, <1>9, <2>2 DEF IsLap, r
<1>11. CASE n[t] # t
  <2>1. /\ p \in Chain(n) /\ n[p] = t /\ m = [n EXCEPT ![p] = n[t], ![t] = NULL]
        /\ g = IF h = t THEN n[t] ELSE h
    BY <1>11 DEF Taken
  <2>2. p # t /\ m[p] = n[t] /\ \A u \in Tasks \ {p, t} : m[u] = n[u]
    BY <1>11, <2>1 DEF Links, Chain
  <2>3. N > 1
    <3>1. N # 1
      BY <1>1, <1>2, <1>4, <1>11
    <3> QED BY <1>4, <3>1
  <2>4. 1 \in 1..(N - 1) /\ N - 1 \in 1..(N - 1)
    BY <2>3
  <2>5. CASE j = 1
    <3>1. p = q[N] /\ t = h /\ n[t] = q[2]
      <4>1. t = h /\ n[q[N]] = h /\ q[N] \in Chain(n)
        BY <1>1, <1>2, <1>4, <2>5
      <4>2. n[q[1]] = q[1+1]
        BY <1>1, <2>4
      <4> QED BY <1>2, <2>1, <2>5, <4>1, <4>2 DEF OneCycle
    <3>2. \A k \in 1..(N - 1) : r[k] = q[k+1] /\ k + 1 \in 1..N
      BY <1>6, <2>5
    <3>3. r[1] = g /\ m[r[N-1]] = g
      <4>1. (N - 1) + 1 = N /\ 1 + 1 = 2
        OBVIOUS
      <4> QED BY <2>1, <2>2, <2>4, <3>1, <3>2, <4>1
    <3>4. ASSUME NEW k \in 1..((N - 1) - 1) PROVE m[r[k]] = r[k+1]
      <4>1. k \in 1..(N - 1) /\ k + 1 \in 1..(N - 1) /\ k + 1 # N /\ k + 1 # 1 /\ k + 1 \in 1..N
        OBVIOUS
      <4>2. q[k+1] # p /\ q[k+1] # t /\ q[k+1] \in Tasks
        BY <1>1, <1>2, <1>4, <2>5, <3>1, <4>1
      <4>3. n[q[k+1]] = q[(k+1)+1] /\ r[k+1] = q[(k+1)+1] /\ r[k] = q[k+1]
        BY <1>1, <3>2, <4>1
      <4> QED BY <2>2, <4>2, <4>3
    <3>5. IsLap(r, m, g)
      BY <1>5, <1>7, <1>8, <1>9, <3>3, <3>4, LapAssembled
    <3> QED BY <1>0, <1>2, <3>5 DEF r
  <2>6. CASE j # 1
    <3>1. j - 1 \in 1..(N - 1) /\ (j - 1) + 1 = j /\ j - 1 \in 1..N /\ j - 1 < j
      BY <2>6
    <3>2. p = q[j-1]
      <4>1. n[q[j-1]] = t /\ q[j-1] \in Chain(n)
        BY <1>1, <1>2, <3>1
      <4> QED BY <2>1, <4>1 DEF OneCycle
    <3>3. h # t /\ g = h
      <4>1. q[1] = h
        BY <1>1, <1>4
      <4> QED BY <1>1, <1>2, <1>4, <2>1, <2>6, <4>1
    <3>4. r[1] = g
      <4>1. 1 < j
        BY <2>6
      <4> QED BY <1>1, <1>4, <1>6, <2>4, <3>3, <4>1
    <3>5. m[r[N-1]] = g
      <4>1. CASE j = N
        <5>1. r[N-1] = q[N-1] /\ n[t] = h
          BY <1>1, <1>2, <1>4, <1>6, <2>4, <3>1, <4>1
        <5> QED BY <2>2, <3>2, <3>3, <4>1, <5>1
      <4>2. CASE j # N
        <5>1. N - 1 >= j /\ (N - 1) + 1 = N /\ N # j - 1
          BY <4>2
        <5>2. r[N-1] = q[N]
          BY <1>6, <2>4, <5>1
        <5>3. q[N] # p /\ q[N] # t /\ q[N] \in Tasks
          BY <1>1, <1>2, <1>4, <3>1, <3>2, <4>2, <5>1
        <5> QED BY <1>1, <1>4, <2>2, <3>3, <5>2, <5>3
      <4> QED BY <4>1, <4>2
    <3>6. ASSUME NEW k \in 1..((N - 1) - 1) PROVE m[r[k]] = r[k+1]
      <4>1. /\ k \in 1..(N - 1) /\ k + 1 \in 1..(N - 1) /\ (k + 1) + 1 \in 1..N
            /\ k \in 1..N /\ k + 1 \in 1..N
        OBVIOUS
      <4>2. CASE k + 1 < j
        <5>1. r[k] = q[k] /\ r[k+1] = q[k+1] /\ k # j /\ k # j - 1
          BY <1>6, <4>1, <4>2
        <5>2. q[k] # p /\ q[k] # t /\ q[k] \in Tasks
          BY <1>1, <1>2, <3>1, <3>2, <4>1, <5>1
        <5> QED BY <1>1, <2>2, <4>1, <5>1, <5>2
      <4>3. CASE k + 1 = j
        <5>1. k < j /\ k + 1 >= j /\ k = j - 1
          BY <4>3
        <5>2. r[k] = q[k] /\ r[k+1] = q[(k+1)+1]
          BY <1>6, <4>1, <5>1
        <5>3. n[t] = q[(k+1)+1]
          BY <1>1, <1>2, <4>1, <4>3
        <5> QED BY <2>2, <3>2, <5>1, <5>2, <5>3
      <4>4. CASE k + 1 > j
        <5>1. k >= j /\ k + 1 >= j /\ k + 1 # j /\ k + 1 # j - 1
          BY <4>4
        <5>2. r[k] = q[k+1] /\ r[k+1] = q[(k+1)+1]
          BY <1>6, <4>1, <5>1
        <5>3. q[k+1] # p /\ q[k+1] # t /\ q[k+1] \in Tasks
          BY <1>1, <1>2, <3>1, <3>2, <4>1, <5>1
        <5> QED BY <1>1, <2>2, <4>1, <5>2, <5>3
      <4> QED BY <4>2, <4>3, <4>4
    <3>7. IsLap(r, m, g)
      BY <1>5, <1>7, <1>8, <1>9, <3>4, <3>5, <3>6, LapAssembled
    <3> QED BY <1>0, <1>2, <3>7 DEF r
  <2> QED BY <2>5, <2>6
<1> QED BY <1>10, <1>11

-----------------------------------------------------------------------------
(* Scheduler.tla: every function is one step.                              *)

(* The inductive invariant: no part of it is preserved alone.  A removal    *)
(* keeps the list whole only because the removed task has one predecessor,  *)
(* and a task has one only if it is linked, which its state tells.          *)
IInv == TypeOK /\ QueueHoldsTheRunnable /\ ListIsOneCycle /\ OnlyCurrentRuns

LEMMA IInvIsSound == IInv <=> Sound(task_count, state, next, ready_head, current_task)
<1>1. Linked = Chain(next)
  BY DEF Linked, Chain
<1>2. /\ QueueHoldsTheRunnable /\ ListIsOneCycle <=> RightlyQueued(state, next, ready_head)
      /\ OnlyCurrentRuns <=> RightlyMarked(state, task_count, current_task)
  BY <1>1 DEF QueueHoldsTheRunnable, ListIsOneCycle, OnlyCurrentRuns, Started, Created,
              RightlyQueued, RightlyMarked, HeadIsOn, OneCycle
<1> QED BY <1>2 DEF IInv, TypeOK, Sound, Links

LEMMA IInvIsSoundAfter ==
  Sound(task_count', state', next', ready_head', current_task') <=> IInv'
<1>1. Linked' = Chain(next')
  BY DEF Linked, Chain
<1>2. /\ RightlyQueued(state', next', ready_head') <=> QueueHoldsTheRunnable' /\ ListIsOneCycle'
      /\ RightlyMarked(state', task_count', current_task') <=> OnlyCurrentRuns'
  BY <1>1 DEF QueueHoldsTheRunnable, ListIsOneCycle, OnlyCurrentRuns, Started, Created,
              RightlyQueued, RightlyMarked, HeadIsOn, OneCycle
<1> QED BY <1>2 DEF IInv, TypeOK, Sound, Links

(* The one predecessor of a linked task, which Pred names. *)
PredOf(n, t) == CHOOSE p \in Tasks : n[p] = t

LEMMA PredIsPredecessor ==
  ASSUME NEW n, OneCycle(n), NEW t \in Chain(n)
  PROVE  /\ PredOf(n, t) \in Chain(n)
         /\ n[PredOf(n, t)] = t
         /\ \A p \in Chain(n) : n[p] = t => p = PredOf(n, t)
<1>1. PICK p \in Chain(n) : n[p] = t
  BY DEF OneCycle
<1>2. p \in Tasks
  BY <1>1 DEF Chain
<1>3. PredOf(n, t) \in Tasks /\ n[PredOf(n, t)] = t
  BY <1>1, <1>2 DEF PredOf
<1>4. t # NULL
  BY DEF Chain, Tasks, NULL
<1>5. PredOf(n, t) \in Chain(n)
  BY <1>3, <1>4 DEF Chain
<1> QED BY <1>3, <1>5 DEF OneCycle

LEMMA PredIsPredOf == ASSUME NEW t PROVE Pred(t) = PredOf(next, t)
BY DEF Pred, PredOf

LEMMA InsertInserts ==
  ASSUME IInv, NEW t, ready_insert(t)
  PROVE  Inserted(next, ready_head, t, Pred(ready_head), next', ready_head')
<1>1. OneCycle(next) /\ HeadIsOn(next, ready_head)
  BY IInvIsSound DEF Sound, RightlyQueued
<1>2. CASE ready_head = NULL
  BY <1>2 DEF ready_insert, Inserted
<1>3. CASE ready_head # NULL
  <2>1. ready_head \in Chain(next)
    BY <1>1, <1>3 DEF HeadIsOn
  <2> QED BY <1>1, <1>3, <2>1, PredIsPredecessor, PredIsPredOf DEF ready_insert, Inserted
<1> QED BY <1>2, <1>3

LEMMA RemoveTakes ==
  ASSUME IInv, NEW t, ready_remove(t)
  PROVE  Taken(next, ready_head, t, Pred(t), next', ready_head')
<1>1. OneCycle(next) /\ Linked = Chain(next)
  BY IInvIsSound DEF Sound, RightlyQueued, Linked, Chain
<1>2. CASE t \notin Linked
  BY <1>1, <1>2 DEF ready_remove, Taken
<1>3. CASE t \in Linked /\ next[t] = t
  BY <1>1, <1>3 DEF ready_remove, Taken
<1>4. CASE t \in Linked /\ next[t] # t
  BY <1>1, <1>4, PredIsPredecessor, PredIsPredOf DEF ready_remove, Taken
<1> QED BY <1>2, <1>3, <1>4

LEMMA InitEstablishes == OS_Init => IInv
<1> SUFFICES ASSUME OS_Init PROVE IInv
  OBVIOUS
<1>1. TypeOK /\ Linked = {}
  BY DEF OS_Init, TypeOK, TaskStates, Linked, Tasks, NULL
<1> QED
  BY <1>1 DEF OS_Init, IInv, QueueHoldsTheRunnable, ListIsOneCycle, OnlyCurrentRuns,
              Created, Started, Tasks, NULL

(* A slot that is free, or a task that is blocked, is off the list. *)
LEMMA OffTheList ==
  ASSUME IInv, NEW t \in Tasks, state[t] \notin {"ready", "running"}
  PROVE  t \in Tasks \ Chain(next)
BY IInvIsSound DEF Sound, RightlyQueued

LEMMA CreatePreserves == IInv /\ OS_TaskCreate => IInv'
<1> SUFFICES ASSUME IInv, OS_TaskCreate PROVE IInv'
  OBVIOUS
<1> DEFINE t == task_count + 1
<1>1. t \in Tasks /\ ~Created(t) /\ task_count \in Nat /\ t \in 0..OS_MAX_TASKS
  BY DEF IInv, TypeOK, OS_TaskCreate, Created, Tasks
<1>2. t \in Tasks \ Chain(next)
  BY <1>1, OffTheList DEF IInv, OnlyCurrentRuns
<1>3. Inserted(next, ready_head, t, Pred(ready_head), next', ready_head')
  BY InsertInserts DEF OS_TaskCreate
<1>4. /\ state' = [state EXCEPT ![t] = "ready"]
      /\ task_count' = t
      /\ current_task' = current_task
  BY DEF OS_TaskCreate
<1>5. task_count <= t /\ t \in 1..t /\ \A u \in 1..t : u \in 1..task_count \/ u = t
  BY <1>1
<1> HIDE DEF t
<1>6. Sound(t, [state EXCEPT ![t] = "ready"], next', ready_head', current_task)
  BY <1>1, <1>2, <1>3, <1>5, IInvIsSound, InsertionIsSound
<1> QED BY <1>4, <1>6, IInvIsSoundAfter

(* The head is handed the CPU; oldState marks at most it as running. *)
LEMMA DispatchPreserves ==
  ASSUME IInv, ready_head # NULL, NEW oldState \in [Tasks -> TaskStates], Dispatch(oldState),
         \A t \in Tasks : oldState[t] # "running",
         \A t \in Tasks : oldState[t] = "ready" <=> state[t] \in {"ready", "running"},
         \A t \in Tasks : state[t] = "unused" => oldState[t] = "unused"
  PROVE  IInv'
<1>1. ready_head \in Linked /\ ready_head \in Tasks
  BY DEF IInv, QueueHoldsTheRunnable, Linked
<1>2. /\ current_task' = ready_head
      /\ ready_head' = next[ready_head]
      /\ state' = [oldState EXCEPT ![ready_head] = "running"]
      /\ next' = next
      /\ task_count' = task_count
  BY DEF Dispatch
<1>3. next[ready_head] \in Linked /\ next[ready_head] \in Tasks
  BY <1>1 DEF IInv, ListIsOneCycle, Linked
<1>4. TypeOK'
  BY <1>1, <1>2, <1>3 DEF IInv, TypeOK, TaskStates
<1>5. Linked' = Linked
  BY <1>2 DEF Linked
<1>6. ListIsOneCycle'
  BY <1>2, <1>5 DEF IInv, ListIsOneCycle
<1>7. QueueHoldsTheRunnable'
  BY <1>1, <1>2, <1>3, <1>5 DEF IInv, QueueHoldsTheRunnable
<1>8. OnlyCurrentRuns'
  <2>1. state[ready_head] # "unused"
    BY <1>1 DEF IInv, QueueHoldsTheRunnable
  <2>2. Created(ready_head)
    BY <1>1, <2>1 DEF IInv, OnlyCurrentRuns
  <2> QED
    BY <1>1, <1>2, <2>2 DEF IInv, OnlyCurrentRuns, Created, Started
<1> QED
  BY <1>4, <1>6, <1>7, <1>8 DEF IInv

LEMMA StartPreserves == IInv /\ OS_Start => IInv'
<1> SUFFICES ASSUME IInv, OS_Start PROVE IInv'
  OBVIOUS
<1>1. \A t \in Tasks : state[t] # "running"
  BY DEF IInv, OnlyCurrentRuns, OS_Start, Started, Tasks, NULL
<1> QED
  BY <1>1, DispatchPreserves DEF IInv, TypeOK, OS_Start

LEMMA TickPreserves == IInv /\ OS_TickISR => IInv'
<1> SUFFICES ASSUME IInv, OS_TickISR PROVE IInv'
  OBVIOUS
<1>1. CASE UNCHANGED vars
  BY <1>1 DEF vars, IInv, TypeOK, QueueHoldsTheRunnable, ListIsOneCycle, OnlyCurrentRuns,
              Linked, Created, Started
<1>2. CASE ready_head # NULL /\ Dispatch(Preempted)
  <2>1. current_task \in Tasks
    BY DEF IInv, TypeOK, OS_TickISR, Started
  <2>2. /\ Preempted \in [Tasks -> TaskStates]
        /\ \A t \in Tasks : Preempted[t] = IF t = current_task /\ state[t] = "running"
                                            THEN "ready" ELSE state[t]
    BY <2>1 DEF Preempted, IInv, TypeOK, TaskStates
  <2>3. \A t \in Tasks : Preempted[t] # "running"
    BY <2>2 DEF IInv, OnlyCurrentRuns
  <2> QED
    BY <1>2, <2>2, <2>3, DispatchPreserves
<1> QED
  BY <1>1, <1>2 DEF OS_TickISR, OS_Schedule

(* A task leaves the list and is marked blocked or unused. *)
LEMMA LeavePreserves ==
  ASSUME IInv, NEW t \in Tasks, NEW s \in {"blocked", "unused"}, ready_remove(t),
         Created(t) \/ s = "unused",
         state' = [state EXCEPT ![t] = s], UNCHANGED <<task_count, current_task>>
  PROVE  IInv'
<1>1. Taken(next, ready_head, t, Pred(t), next', ready_head')
  BY RemoveTakes
<1>2. Sound(task_count, [state EXCEPT ![t] = s], next', ready_head', current_task)
  BY <1>1, IInvIsSound, RemovalIsSound DEF Created
<1> QED BY <1>2, IInvIsSoundAfter

LEMMA ExitPreserves == IInv /\ OS_TaskExit => IInv'
<1> SUFFICES ASSUME IInv, OS_TaskExit PROVE IInv'
  OBVIOUS
<1>1. current_task \in Tasks
  BY DEF IInv, TypeOK, OS_TaskExit, Started
<1> QED
  BY <1>1, LeavePreserves DEF OS_TaskExit

LEMMA BlockPreserves == ASSUME IInv, NEW t \in 1..task_count, OS_TaskBlock(t) PROVE IInv'
<1>1. t \in Tasks /\ Created(t)
  BY DEF IInv, TypeOK, Tasks, Created
<1> QED
  BY <1>1, LeavePreserves DEF OS_TaskBlock

LEMMA WakePreserves == ASSUME IInv, NEW t \in 1..task_count, OS_TaskWake(t) PROVE IInv'
<1>1. t \in Tasks /\ task_count \in 0..OS_MAX_TASKS /\ task_count <= task_count
  BY DEF IInv, TypeOK, Tasks
<1>2. t \in Tasks \ Chain(next)
  BY <1>1, OffTheList DEF OS_TaskWake
<1>3. Inserted(next, ready_head, t, Pred(ready_head), next', ready_head')
  BY InsertInserts DEF OS_TaskWake
<1>4. Sound(task_count, [state EXCEPT ![t] = "ready"], next', ready_head', current_task)
  BY <1>1, <1>2, <1>3, IInvIsSound, InsertionIsSound
<1> QED BY <1>4, IInvIsSoundAfter DEF OS_TaskWake

LEMMA NextPreserves == ASSUME IInv, [Next]_vars PROVE IInv'
<1>1. CASE OS_TaskCreate
  BY <1>1, CreatePreserves
<1>2. CASE OS_Start
  BY <1>2, StartPreserves
<1>3. CASE OS_TickISR
  BY <1>3, TickPreserves
<1>4. CASE OS_TaskExit
  BY <1>4, ExitPreserves
<1>5. CASE \E t \in 1..task_count : OS_TaskBlock(t) \/ OS_TaskWake(t)
  BY <1>5, BlockPreserves, WakePreserves
<1>6. CASE UNCHANGED vars
  BY <1>6 DEF vars, IInv, TypeOK, QueueHoldsTheRunnable, ListIsOneCycle, OnlyCurrentRuns,
              Linked, Created, Started
<1> QED
  BY <1>1, <1>2, <1>3, <1>4, <1>5, <1>6 DEF Next

(* The inductive invariant holds in every reachable state: the list is one *)
(* cycle, holds exactly the runnable tasks, and only the task on the CPU    *)
(* is marked running.                                                       *)
THEOREM SchedulerInvariant == Spec => []IInv
<1>1. IInv /\ [Next]_vars => IInv'
  BY NextPreserves
<1> QED
  BY InitEstablishes, <1>1, PTL DEF Spec

(* Type correctness of the scheduler's variables (scheduler.c:10-21). *)
THEOREM TypeCorrect == Spec => []TypeOK
<1>1. IInv => TypeOK
  BY DEF IInv
<1> QED
  BY <1>1, SchedulerInvariant, PTL

(* scheduler.c:15-20 for every pool size: the list holds exactly the ready  *)
(* and running tasks.                                                       *)
THEOREM QueueIsRight == Spec => []QueueHoldsTheRunnable
<1>1. IInv => QueueHoldsTheRunnable
  BY DEF IInv
<1> QED
  BY <1>1, SchedulerInvariant, PTL

(* The walks of ready_insert and ready_remove and the rotation by the tick  *)
(* meet one whole cycle.                                                    *)
THEOREM ListIsWhole == Spec => []ListIsOneCycle
<1>1. IInv => ListIsOneCycle
  BY DEF IInv
<1> QED
  BY <1>1, SchedulerInvariant, PTL

(* Only the task on the CPU is marked running, and it was created. *)
THEOREM OneTaskRuns == Spec => []OnlyCurrentRuns
<1>1. IInv => OnlyCurrentRuns
  BY DEF IInv
<1> QED
  BY <1>1, SchedulerInvariant, PTL

(* The tick gives the CPU to ready tasks only, and a finished task stays    *)
(* finished.                                                                *)
THEOREM DispatchIsSafe == Spec => OnlyReadyTasksGetTheCpu
<1> DEFINE Safe ==
      /\ current_task' # current_task => state[current_task'] = "ready"
      /\ \A t \in Tasks : Created(t) /\ state[t] = "unused" => state'[t] = "unused"
<1>1. ASSUME IInv, [Next]_vars PROVE [Safe]_vars
  <2>1. CASE OS_TaskCreate
    BY <1>1, <2>1 DEF OS_TaskCreate, IInv, TypeOK, Created, Tasks
  <2>2. CASE OS_Start \/ OS_TickISR
    <3>1. CASE UNCHANGED vars
      BY <3>1
    <3>2. ASSUME NEW s, ready_head # NULL, Dispatch(s), s \in [Tasks -> TaskStates],
                 \A t \in Tasks : state[t] = "unused" => s[t] = "unused"
          PROVE  Safe
      <4>1. ready_head \in Tasks /\ state[ready_head] \in {"ready", "running"}
        BY <1>1, <3>2 DEF IInv, QueueHoldsTheRunnable, Linked
      <4>2. current_task' # current_task => state[ready_head] = "ready"
        BY <1>1, <3>2, <4>1 DEF IInv, OnlyCurrentRuns, Dispatch
      <4> QED
        BY <3>2, <4>1, <4>2 DEF Dispatch
    <3>3. /\ Preempted \in [Tasks -> TaskStates]
          /\ \A t \in Tasks : state[t] = "unused" => Preempted[t] = "unused"
      BY <1>1 DEF Preempted, IInv, TypeOK, TaskStates
    <3> QED
      BY <1>1, <2>2, <3>1, <3>2, <3>3 DEF OS_Start, OS_TickISR, OS_Schedule, IInv, TypeOK
  <2>3. CASE OS_TaskExit
    BY <1>1, <2>3 DEF OS_TaskExit, IInv, TypeOK
  <2>4. CASE \E t \in 1..task_count : OS_TaskBlock(t) \/ OS_TaskWake(t)
    BY <1>1, <2>4 DEF OS_TaskBlock, OS_TaskWake, IInv, TypeOK
  <2>5. CASE UNCHANGED vars
    BY <2>5
  <2> QED
    BY <1>1, <2>1, <2>2, <2>3, <2>4, <2>5 DEF Next
<1> QED
  BY <1>1, SchedulerInvariant, PTL DEF Spec, OnlyReadyTasksGetTheCpu

-----------------------------------------------------------------------------
(* Scheduler.tla implements RoundRobin.tla.                                *)

QueueInv == IInv /\ IsLap(ReadyQueue, next, ready_head)

LEMMA ChainIsRunnable ==
  ASSUME IInv
  PROVE  /\ Chain(next) = {u \in Tasks : state[u] \in {"ready", "running"}}
         /\ next \in Links /\ OneCycle(next) /\ HeadIsOn(next, ready_head)
BY IInvIsSound DEF Sound, RightlyQueued, Chain

LEMMA ChainIsRunnableAfter ==
  ASSUME IInv'
  PROVE  /\ Chain(next') = {u \in Tasks : state'[u] \in {"ready", "running"}}
         /\ next' \in Links /\ OneCycle(next') /\ HeadIsOn(next', ready_head')
BY IInvIsSoundAfter DEF Sound, RightlyQueued, Chain

LEMMA QueueBegins == ASSUME OS_Init PROVE QueueInv /\ RR!Init
<1>1. IInv /\ Chain(next) = {}
  BY InitEstablishes DEF OS_Init, Chain
<1>2. OneCycle(next)
  BY <1>1, ChainIsRunnable
<1>3. IsLap(<<>>, next, ready_head) /\ ReadyQueue = <<>>
  BY <1>1, <1>2, LapOfNothing, QueueIsLap
<1> QED BY <1>1, <1>3 DEF QueueInv, RR!Init, OS_Init

LEMMA QueueStays ==
  ASSUME QueueInv, UNCHANGED <<next, ready_head>>
  PROVE  IsLap(ReadyQueue', next', ready_head') /\ ReadyQueue' = ReadyQueue
<1>1. OneCycle(next') /\ IsLap(ReadyQueue, next', ready_head')
  BY ChainIsRunnable DEF QueueInv
<1>2. ReadyQueue' = ReadyQueue
  BY <1>1, QueueIsLapAfter
<1> QED BY <1>1, <1>2

(* Created or woken. *)
LEMMA ArrivalStep ==
  ASSUME QueueInv, IInv', NEW t \in Tasks, state[t] \in {"unused", "blocked"}, ready_insert(t),
         state' = [state EXCEPT ![t] = "ready"], UNCHANGED current_task
  PROVE  QueueInv' /\ RR!Arrive(t)
<1>1. state \in [Tasks -> TaskStates]
  BY DEF QueueInv, IInv, TypeOK
<1>2. Chain(next') = Chain(next) \cup {t} /\ t \in Tasks \ Chain(next)
  BY <1>1, ChainIsRunnable, ChainIsRunnableAfter DEF QueueInv
<1>3. Inserted(next, ready_head, t, Pred(ready_head), next', ready_head')
  BY InsertInserts DEF QueueInv
<1>4. IsLap(Append(ReadyQueue, t), next', ready_head')
  BY <1>2, <1>3, ChainIsRunnable, ChainIsRunnableAfter, LapInserted DEF QueueInv
<1>5. ReadyQueue' = Append(ReadyQueue, t)
  BY <1>4, ChainIsRunnableAfter, QueueIsLapAfter
<1> QED BY <1>4, <1>5 DEF QueueInv, RR!Arrive

(* Blocked or finished. *)
LEMMA DepartureStep ==
  ASSUME QueueInv, IInv', NEW t \in Tasks, NEW why \in {"blocked", "unused"}, ready_remove(t),
         state' = [state EXCEPT ![t] = why], UNCHANGED current_task
  PROVE  QueueInv' /\ RR!Leave(t, why)
<1>1. state \in [Tasks -> TaskStates]
  BY DEF QueueInv, IInv, TypeOK
<1>2. Chain(next') = Chain(next) \ {t}
  BY <1>1, ChainIsRunnable, ChainIsRunnableAfter DEF QueueInv
<1>3. Taken(next, ready_head, t, Pred(t), next', ready_head')
  BY RemoveTakes DEF QueueInv
<1>4. CASE t \notin Chain(next)
  <2>1. UNCHANGED <<next, ready_head>>
    BY <1>3, <1>4 DEF Taken
  <2>2. RR!Place(t) = {}
    BY <1>4 DEF RR!Place, QueueInv, IsLap
  <2> QED BY <2>1, <2>2, QueueStays DEF QueueInv, RR!Leave, RR!Drop
<1>5. CASE t \in Chain(next)
  <2>1. PICK j \in 1..Len(ReadyQueue) :
          ReadyQueue[j] = t /\ IsLap(Cut(ReadyQueue, j), next', ready_head')
    BY <1>2, <1>3, <1>5, ChainIsRunnable, ChainIsRunnableAfter, LapCut DEF QueueInv
  <2>2. ReadyQueue' = Cut(ReadyQueue, j)
    BY <2>1, ChainIsRunnableAfter, QueueIsLapAfter
  <2>3. j \in RR!Place(t)
    BY <2>1 DEF RR!Place
  <2>4. RR!Drop(t)
    BY <2>2, <2>3 DEF RR!Drop, Cut
  <2> QED BY <2>1, <2>2, <2>4 DEF QueueInv, RR!Leave
<1> QED BY <1>4, <1>5

(* The CPU changes hands; old is what is left of the states before. *)
LEMMA DispatchStep ==
  ASSUME QueueInv, IInv', ready_head # NULL, NEW old, Dispatch(old), old \in [Tasks -> TaskStates],
         \A t \in Tasks : old[t] = IF state[t] = "running" THEN "ready" ELSE state[t]
  PROVE  QueueInv' /\ RR!Dispatch
<1>1. ready_head \in Chain(next) /\ ready_head \in Tasks /\ OneCycle(next)
  BY ChainIsRunnable DEF QueueInv, HeadIsOn, Chain
<1>2. /\ ReadyQueue # <<>> /\ Head(ReadyQueue) = ready_head
      /\ IsLap(Append(Tail(ReadyQueue), Head(ReadyQueue)), next, next[ready_head])
  BY <1>1, LapRotated DEF QueueInv
<1>3. /\ current_task' = ready_head /\ ready_head' = next[ready_head] /\ next' = next
      /\ state' = [old EXCEPT ![ready_head] = "running"]
  BY DEF Dispatch
<1>4. ReadyQueue' = Append(Tail(ReadyQueue), Head(ReadyQueue))
  BY <1>2, <1>3, ChainIsRunnableAfter, QueueIsLapAfter
<1>5. state' = [t \in Tasks |-> IF t = ready_head THEN "running"
                                ELSE IF state[t] = "running" THEN "ready" ELSE state[t]]
  BY <1>1, <1>3
<1> QED BY <1>2, <1>3, <1>4, <1>5 DEF QueueInv, RR!Dispatch

LEMMA QueueStep ==
  ASSUME QueueInv, [Next]_vars
  PROVE  QueueInv' /\ [RR!Next]_RR!vars
<1>1. IInv' /\ state \in [Tasks -> TaskStates] /\ task_count \in 0..OS_MAX_TASKS
  BY NextPreserves DEF QueueInv, IInv, TypeOK
<1>2. CASE OS_TaskCreate
  <2> DEFINE t == task_count + 1
  <2>1. t \in Tasks /\ state[t] = "unused"
    BY <1>1, <1>2 DEF OS_TaskCreate, Tasks, QueueInv, IInv, OnlyCurrentRuns, Created
  <2>2. QueueInv' /\ RR!Arrive(t)
    BY <1>1, <1>2, <2>1, ArrivalStep DEF OS_TaskCreate
  <2> QED BY <2>1, <2>2 DEF RR!Next
<1>3. ASSUME NEW t \in 1..task_count, OS_TaskWake(t) PROVE QueueInv' /\ RR!Next
  <2>1. t \in Tasks
    BY <1>1 DEF Tasks
  <2>2. QueueInv' /\ RR!Arrive(t)
    BY <1>1, <1>3, <2>1, ArrivalStep DEF OS_TaskWake
  <2> QED BY <2>1, <2>2 DEF RR!Next
<1>4. ASSUME NEW t \in 1..task_count, OS_TaskBlock(t) PROVE QueueInv' /\ RR!Next
  <2>1. t \in Tasks
    BY <1>1 DEF Tasks
  <2>2. QueueInv' /\ RR!Leave(t, "blocked")
    BY <1>1, <1>4, <2>1, DepartureStep DEF OS_TaskBlock
  <2>3. RR!Block(t)
    BY <1>4, <2>2 DEF RR!Block, RR!Runnable, OS_TaskBlock
  <2> QED BY <2>1, <2>2, <2>3 DEF RR!Next
<1>5. CASE OS_TaskExit
  <2>1. current_task \in Tasks /\ current_task # NULL
    BY <1>5 DEF OS_TaskExit, Started, QueueInv, IInv, TypeOK
  <2>2. QueueInv' /\ RR!Leave(current_task, "unused")
    BY <1>1, <1>5, <2>1, DepartureStep DEF OS_TaskExit
  <2> QED BY <2>1, <2>2 DEF RR!Next, RR!Finish
<1>6. CASE OS_Start
  <2>1. \A t \in Tasks : state[t] # "running"
    BY <1>6 DEF OS_Start, Started, QueueInv, IInv, OnlyCurrentRuns, Tasks, NULL
  <2> QED BY <1>1, <1>6, <2>1, DispatchStep DEF OS_Start, RR!Next
<1>7. CASE OS_TickISR /\ ready_head # NULL
  <2>1. current_task \in Tasks
    BY <1>7 DEF OS_TickISR, Started, QueueInv, IInv, TypeOK
  <2>2. /\ Preempted \in [Tasks -> TaskStates]
        /\ \A t \in Tasks : Preempted[t] = IF state[t] = "running" THEN "ready" ELSE state[t]
    BY <1>1, <2>1 DEF Preempted, TaskStates, QueueInv, IInv, OnlyCurrentRuns
  <2> QED BY <1>1, <1>7, <2>2, DispatchStep DEF OS_TickISR, OS_Schedule, RR!Next
<1>8. CASE UNCHANGED vars
  BY <1>1, <1>8, QueueStays DEF vars, QueueInv, RR!vars
<1> QED
  BY <1>2, <1>3, <1>4, <1>5, <1>6, <1>7, <1>8 DEF Next, OS_TickISR, OS_Schedule

(* scheduler.c:26-208 for every pool size: the pointer manipulation is a    *)
(* FIFO rotation.  Each function appends to, removes from or rotates the    *)
(* queue of runnable tasks, and nobody is overtaken.                        *)
THEOREM SchedulerImplementsRoundRobin == Spec => ImplementsRoundRobin
<1>1. QueueInv /\ [Next]_vars => QueueInv' /\ [RR!Next]_RR!vars
  BY QueueStep
<1>2. OS_Init => QueueInv /\ RR!Init
  BY QueueBegins
<1> QED BY <1>1, <1>2, PTL DEF Spec, ImplementsRoundRobin, RR!Spec

-----------------------------------------------------------------------------
(* SchedulerSteps.tla, until a tick comes in the middle of a call.          *)

(* What the call under way works on, while the list is as it was. *)
Removing == frame.pc \in {"remove", "unlink_only", "find_prev", "lap", "unlink"}
Entering == frame.pc \in {"set_ready", "insert", "find_tail", "link_tail"}
Leaving  == Removing \/ frame.pc \in {"move_head", "clear", "set_gone"}

RemovalIsDue ==
  /\ frame.t \in 1..task_count
  /\ frame.op = "block" => state[frame.t] \in {"ready", "running"}
  /\ frame.op = "exit" => frame.t = current_task /\ state[frame.t] # "unused"

InsertionIsDue ==
  /\ frame.t \in 1..task_count /\ frame.t \notin Chain(next)
  /\ frame.pc = "set_ready" => state[frame.t] = IF frame.op = "create" THEN "unused" ELSE "blocked"
  /\ frame.pc # "set_ready" => state[frame.t] = "ready"
  /\ OneCycle(next) /\ HeadIsOn(next, ready_head)

(* The walk of ready_remove: none of the tasks V that it has passed has     *)
(* frame.t behind it, and each is followed by one of V or by the task the   *)
(* walk is at.  When it is at the head again, V is closed under next, and   *)
(* so it is the whole list.                                                 *)
Passed(V) ==
  /\ frame.ptr \in Chain(next)
  /\ \A v \in V : next[v] \in V \cup {frame.ptr} /\ next[v] # frame.t
  /\ ready_head \in IF frame.pc = "lap" THEN V ELSE V \cup {frame.ptr}

WalkIsRight ==
  /\ frame.pc = "find_tail" => frame.ptr \in Chain(next) /\ ready_head # NULL
  /\ frame.pc = "link_tail" => frame.ptr \in Chain(next) /\ next[frame.ptr] = ready_head
  /\ frame.pc \in {"find_prev", "lap"} => next[frame.t] # frame.t /\ \E V \in SUBSET Chain(next) : Passed(V)
  /\ frame.pc = "unlink_only" => next[frame.t] = frame.t
  /\ frame.pc = "unlink" => /\ next[frame.t] # frame.t
                            /\ frame.ptr \in Chain(next) /\ next[frame.ptr] = frame.t

CallIsRight ==
  /\ frame.pc \in {"take", "bump"} => frame.op = "create"
  /\ frame.pc = "bump" => frame.t = task_count + 1 /\ frame.t \in Tasks
  /\ Entering => frame.op \in {"create", "wake"} /\ InsertionIsDue
  /\ frame.pc \in {"link_self", "link_t"} => frame.op \in {"create", "wake"} /\ frame.t \in Tasks
  /\ Leaving => frame.op \in {"block", "exit"} /\ frame.t \in Tasks
  /\ Removing => RemovalIsDue
  /\ WalkIsRight

(* The others are in no call, and only who called OS_TaskExit finishes. *)
OthersAreOut ==
  /\ \A c \in Callers \ {current_task} : ~InCall(c)
  /\ \A c \in Callers : call[c].pc = "idle" => call[c].op = "none"
  /\ \A c \in 1..task_count : call[c].op # "exit" => absState[c] # "unused"

StepsInv ==
  /\ StepsTypeOK
  /\ Sound(task_count, absState, absNext, absHead, current_task)
  /\ CallIsRight
  /\ OthersAreOut

(* Where a statement leaves the caller: only its own frame changes. *)
Frames == [op : {"none", "create", "block", "wake", "exit"},
           pc : Labels, t : Callers, ptr : Callers]

FrameBecomes(o, l, t, p) ==
  /\ call' \in [Callers -> Frames]
  /\ \A c \in Callers \ {current_task} : call'[c] = call[c]
  /\ frame' = call'[current_task]
  /\ frame'.op = o /\ frame'.pc = l /\ frame'.t = t /\ frame'.ptr = p

LEMMA FramesAreTyped ==
  ASSUME StepsTypeOK
  PROVE  /\ call \in [Callers -> Frames] /\ current_task \in Callers /\ frame \in Frames
         /\ NULL \in Callers
BY DEF StepsTypeOK, TypeOK, Frames, frame, Callers

LEMMA FrameChanges ==
  ASSUME StepsTypeOK, UNCHANGED current_task, NEW v \in Frames,
         call' = [call EXCEPT ![current_task] = v]
  PROVE  FrameBecomes(v.op, v.pc, v.t, v.ptr)
<1>1. call \in [Callers -> Frames] /\ current_task \in Callers
  BY FramesAreTyped
<1>2. call' \in [Callers -> Frames] /\ call'[current_task] = v
      /\ \A c \in Callers \ {current_task} : call'[c] = call[c]
  BY <1>1
<1>3. frame' = v
  BY <1>2 DEF frame
<1> QED BY <1>2, <1>3 DEF FrameBecomes

LEMMA GotoWithMoves ==
  ASSUME StepsTypeOK, UNCHANGED current_task, NEW l \in Labels, NEW p \in Callers, GotoWith(l, p)
  PROVE  FrameBecomes(frame.op, l, frame.t, p)
<1> DEFINE v == [frame EXCEPT !.pc = l, !.ptr = p]
<1>1. frame \in Frames /\ call \in [Callers -> Frames] /\ current_task \in Callers
  BY FramesAreTyped
<1>2. v \in Frames /\ v.op = frame.op /\ v.pc = l /\ v.t = frame.t /\ v.ptr = p
  BY <1>1 DEF Frames
<1>3. call' = [call EXCEPT ![current_task] = v]
  BY <1>1 DEF GotoWith, frame
<1> HIDE DEF v
<1>4. FrameBecomes(v.op, v.pc, v.t, v.ptr)
  BY <1>2, <1>3, FrameChanges
<1> QED BY <1>2, <1>4

LEMMA GotoMoves ==
  ASSUME StepsTypeOK, UNCHANGED current_task, NEW l \in Labels, Goto(l)
  PROVE  FrameBecomes(frame.op, l, frame.t, frame.ptr)
<1> DEFINE v == [frame EXCEPT !.pc = l]
<1>1. frame \in Frames /\ call \in [Callers -> Frames] /\ current_task \in Callers
  BY FramesAreTyped
<1>2. v \in Frames /\ v.op = frame.op /\ v.pc = l /\ v.t = frame.t /\ v.ptr = frame.ptr
  BY <1>1 DEF Frames
<1>3. call' = [call EXCEPT ![current_task] = v]
  BY <1>1 DEF Goto, frame
<1> HIDE DEF v
<1>4. FrameBecomes(v.op, v.pc, v.t, v.ptr)
  BY <1>2, <1>3, FrameChanges
<1> QED BY <1>2, <1>4

LEMMA ReturnMoves ==
  ASSUME StepsTypeOK, UNCHANGED current_task, ReturnFromCall
  PROVE  FrameBecomes("none", "idle", NULL, NULL)
<1>1. /\ NoCall \in Frames
      /\ NoCall.op = "none" /\ NoCall.pc = "idle" /\ NoCall.t = NULL /\ NoCall.ptr = NULL
  BY FramesAreTyped DEF NoCall, Frames, Labels
<1>2. call' = [call EXCEPT ![current_task] = NoCall]
  BY DEF ReturnFromCall
<1>3. FrameBecomes(NoCall.op, NoCall.pc, NoCall.t, NoCall.ptr)
  BY <1>1, <1>2, FrameChanges
<1> QED BY <1>1, <1>3

(* The names of Atomic are those of this module. *)
LEMMA AtomicNames ==
  /\ Atomic!Tasks = Tasks /\ Atomic!NULL = NULL
  /\ Atomic!Linked = Chain(absNext)
  /\ \A t : Atomic!Pred(t) = PredOf(absNext, t)
  /\ Atomic!vars = <<task_count, absState, absNext, absHead, current_task>>
BY DEF Atomic!Tasks, Tasks, Atomic!NULL, NULL, Atomic!Linked, Chain, Atomic!Pred, PredOf, Atomic!vars

(* The callers other than the CPU's keep out, whatever it does. *)
LEMMA OthersStayOut ==
  ASSUME StepsInv, UNCHANGED current_task, NEW o, NEW l, NEW t, NEW p, FrameBecomes(o, l, t, p),
         l = "idle" => o = "none",
         \A c \in 1..task_count' :
           c # current_task =>
             absState'[c] # "unused" \/ (c \in 1..task_count /\ absState'[c] = absState[c]),
         o # "exit" /\ current_task \in 1..task_count' => absState'[current_task] # "unused",
         task_count' \in 0..OS_MAX_TASKS
  PROVE  OthersAreOut'
<1>1. \A c \in Callers \ {current_task} : call'[c] = call[c]
  BY DEF FrameBecomes
<1>2. call'[current_task].op = o /\ call'[current_task].pc = l
  BY DEF FrameBecomes
<1>3. \A c \in Callers \ {current_task'} : ~InCall(c)'
  BY <1>1 DEF StepsInv, OthersAreOut, InCall
<1>4. \A c \in Callers : call'[c].pc = "idle" => call'[c].op = "none"
  BY <1>1, <1>2 DEF StepsInv, OthersAreOut
<1>5. ASSUME NEW c \in 1..task_count', call'[c].op # "exit" PROVE absState'[c] # "unused"
  <2>1. c \in Callers
    BY DEF Callers, Tasks
  <2>2. CASE c = current_task
    BY <1>2, <1>5, <2>2
  <2>3. CASE c # current_task
    <3>1. call'[c] = call[c]
      BY <1>1, <2>1, <2>3
    <3> QED BY <1>5, <2>3, <3>1 DEF StepsInv, OthersAreOut
  <2> QED BY <2>2, <2>3
<1> QED BY <1>3, <1>4, <1>5 DEF OthersAreOut

(* A statement that changes nothing of what the call will leave. *)
LEMMA SilentStep ==
  ASSUME StepsInv, UNCHANGED current_task, ran' = TRUE,
         NEW o, NEW l, NEW t, NEW p, FrameBecomes(o, l, t, p),
         l = "idle" => o = "none", o # "exit" => frame.op # "exit",
         TypeOK', UNCHANGED <<task_count, absState, absNext, absHead>>, CallIsRight'
  PROVE  StepsInv' /\ UNCHANGED Atomic!vars
<1>1. StepsTypeOK'
  BY DEF StepsTypeOK, FrameBecomes, Frames
<1>2. task_count \in 0..OS_MAX_TASKS /\ task_count' = task_count /\ absState' = absState
  BY DEF StepsInv, Sound
<1>3. o # "exit" /\ current_task \in 1..task_count => absState[current_task] # "unused"
  BY DEF StepsInv, OthersAreOut, frame
<1>4. OthersAreOut'
  BY <1>2, <1>3, OthersStayOut
<1>5. Sound(task_count', absState', absNext', absHead', current_task')
  BY DEF StepsInv
<1>6. StepsInv'
  BY <1>1, <1>4, <1>5 DEF StepsInv
<1> QED BY <1>6, AtomicNames DEF Atomic!vars

(* Before a call has taken effect, and outside calls, what it will leave is *)
(* what there is.                                                           *)
Untouched ==
  /\ frame.pc \in {"idle", "spin", "take", "bump", "set_ready"} \/ Removing
  /\ ~(frame.pc = "set_ready" /\ frame.op = "create")

LEMMA FutureIsPresent ==
  ASSUME Untouched
  PROVE  absState = state /\ absNext = next /\ absHead = ready_head
BY DEF Untouched, Removing, absState, absNext, absHead, Inserting, Removed, At

LEMMA FutureIsPresentAfter ==
  ASSUME Untouched'
  PROVE  absState' = state' /\ absNext' = next' /\ absHead' = ready_head'
BY DEF Untouched, Removing, absState, absNext, absHead, Inserting, Removed, At

(* A statement that writes nothing, before the call takes effect. *)
LEMMA QuietStep ==
  ASSUME StepsInv, UNCHANGED current_task, ran' = TRUE, UNCHANGED shared,
         NEW o, NEW l, NEW t, NEW p, FrameBecomes(o, l, t, p),
         Untouched, Untouched', l # "idle", o # "exit" => frame.op # "exit", CallIsRight'
  PROVE  StepsInv' /\ UNCHANGED Atomic!vars
<1>1. UNCHANGED <<task_count, absState, absNext, absHead>>
  BY FutureIsPresent, FutureIsPresentAfter DEF shared
<1>2. TypeOK'
  BY DEF StepsInv, StepsTypeOK, TypeOK, shared
<1> QED BY <1>1, <1>2, SilentStep

LEMMA EnterMoves ==
  ASSUME StepsInv, NEW o \in {"create", "block", "wake", "exit"}, NEW t \in Callers,
         NEW l \in {"take", "remove", "set_ready"}, Enter(o, t, l)
  PROVE  /\ FrameBecomes(o, l, t, NULL) /\ frame.op # "exit" /\ frame.pc = "idle"
         /\ UNCHANGED <<current_task, task_count, state, next, ready_head>> /\ ran' = TRUE
<1> DEFINE v == [op |-> o, pc |-> l, t |-> t, ptr |-> NULL]
<1>1. UNCHANGED <<current_task, task_count, state, next, ready_head>> /\ ran' = TRUE
      /\ frame.pc = "idle" /\ call' = [call EXCEPT ![current_task] = v]
  BY DEF Enter, shared
<1>2. frame.op # "exit"
  BY <1>1, FramesAreTyped DEF StepsInv, OthersAreOut, frame
<1>3. v \in Frames /\ v.op = o /\ v.pc = l /\ v.t = t /\ v.ptr = NULL
  BY FramesAreTyped DEF Frames, StepsInv, Labels
<1> HIDE DEF v
<1>4. FrameBecomes(v.op, v.pc, v.t, v.ptr)
  BY <1>1, <1>3, FrameChanges DEF StepsInv
<1> QED BY <1>1, <1>2, <1>3, <1>4

LEMMA CreateIsEntered == ASSUME StepsInv, CallCreate PROVE StepsInv' /\ UNCHANGED Atomic!vars
<1>1. Enter("create", NULL, "take")
  BY DEF CallCreate
<1>2. /\ FrameBecomes("create", "take", NULL, NULL) /\ frame.op # "exit" /\ frame.pc = "idle"
      /\ UNCHANGED <<current_task, task_count, state, next, ready_head>> /\ ran' = TRUE
  BY <1>1, EnterMoves DEF Callers
<1>3. frame'.op = "create" /\ frame'.pc = "take"
  BY <1>2 DEF FrameBecomes
<1>4. Untouched /\ Untouched'
  BY <1>2, <1>3 DEF Untouched
<1>5. CallIsRight'
  BY <1>3 DEF CallIsRight, Entering, Leaving, Removing, WalkIsRight
<1> QED BY <1>2, <1>4, <1>5, QuietStep DEF shared

LEMMA WakeIsEntered ==
  ASSUME StepsInv, NEW t \in 1..task_count, CallWake(t)
  PROVE  StepsInv' /\ UNCHANGED Atomic!vars
<1>1. Enter("wake", t, "set_ready") /\ state[t] = "blocked" /\ t \in Tasks
  BY DEF CallWake, StepsInv, StepsTypeOK, TypeOK, Tasks
<1>2. /\ FrameBecomes("wake", "set_ready", t, NULL) /\ frame.op # "exit" /\ frame.pc = "idle"
      /\ UNCHANGED <<current_task, task_count, state, next, ready_head>> /\ ran' = TRUE
  BY <1>1, EnterMoves DEF Callers
<1>3. frame'.op = "wake" /\ frame'.pc = "set_ready" /\ frame'.t = t
  BY <1>2 DEF FrameBecomes
<1>4. Untouched /\ Untouched'
  BY <1>2, <1>3 DEF Untouched
<1>5. RightlyQueued(state, next, ready_head)
  BY <1>4, FutureIsPresent DEF StepsInv, Sound
<1>6. InsertionIsDue'
  BY <1>1, <1>2, <1>3, <1>5 DEF InsertionIsDue, RightlyQueued
<1>7. CallIsRight'
  BY <1>3, <1>6 DEF CallIsRight, Entering, Leaving, Removing, WalkIsRight
<1> QED BY <1>2, <1>4, <1>7, QuietStep DEF shared

LEMMA RemovalIsEntered ==
  ASSUME StepsInv, NEW o \in {"block", "exit"}, NEW t \in 1..task_count, Enter(o, t, "remove"),
         o = "block" => state[t] \in {"ready", "running"},
         o = "exit" => t = current_task /\ state[t] # "unused"
  PROVE  StepsInv' /\ UNCHANGED Atomic!vars
<1>1. t \in Tasks
  BY DEF StepsInv, StepsTypeOK, TypeOK, Tasks
<1>2. /\ FrameBecomes(o, "remove", t, NULL) /\ frame.op # "exit" /\ frame.pc = "idle"
      /\ UNCHANGED <<current_task, task_count, state, next, ready_head>> /\ ran' = TRUE
  BY <1>1, EnterMoves DEF Callers
<1>3. frame'.op = o /\ frame'.pc = "remove" /\ frame'.t = t
  BY <1>2 DEF FrameBecomes
<1>4. Untouched /\ Untouched'
  BY <1>2, <1>3 DEF Untouched, Removing
<1>5. RemovalIsDue'
  BY <1>2, <1>3 DEF RemovalIsDue
<1>6. CallIsRight'
  BY <1>1, <1>3, <1>5 DEF CallIsRight, Entering, Leaving, Removing, WalkIsRight
<1> QED BY <1>2, <1>4, <1>6, QuietStep DEF shared

LEMMA ExitIsEntered == ASSUME StepsInv, CallExit PROVE StepsInv' /\ UNCHANGED Atomic!vars
<1>1. Enter("exit", current_task, "remove") /\ current_task # NULL
  BY DEF CallExit
<1>2. current_task \in 1..task_count
  BY <1>1 DEF StepsInv, Sound, RightlyMarked
<1>3. frame.pc = "idle" /\ current_task \in Callers
  BY <1>1, FramesAreTyped DEF Enter, StepsInv
<1>4. absState[current_task] # "unused"
  BY <1>2, <1>3 DEF StepsInv, OthersAreOut, frame
<1>5. absState = state
  BY <1>3, FutureIsPresent DEF Untouched
<1> QED BY <1>1, <1>2, <1>4, <1>5, RemovalIsEntered

(* The walk of ready_insert needs the predecessor of the head only. *)
LEMMA PredAfter ==
  ASSUME UNCHANGED <<next, ready_head>>
  PROVE  Pred(ready_head)' = PredOf(next, ready_head)
<1>1. Pred(ready_head)' = PredOf(next', ready_head')
  BY DEF Pred, PredOf
<1> QED BY <1>1

(* The statement by which an insertion takes effect: the rest of the call   *)
(* will link t behind the predecessor of the head.                          *)
LEMMA InsertionTakesEffect ==
  ASSUME StepsInv, Untouched, NEW t \in Tasks \ Chain(next), ran' = TRUE,
         UNCHANGED <<next, ready_head, current_task>>,
         state' = state \/ state' = [state EXCEPT ![t] = "ready"],
         NEW o \in {"create", "wake"}, NEW l, NEW p, FrameBecomes(o, l, t, p), l # "idle",
         Inserting', frame.op # "exit",
         task_count' \in 0..OS_MAX_TASKS, task_count <= task_count', t \in 1..task_count',
         \A u \in 1..task_count' : u \in 1..task_count \/ u = t,
         CallIsRight'
  PROVE  /\ StepsInv'
         /\ Atomic!ready_insert(t)
         /\ absState' = [absState EXCEPT ![t] = "ready"]
<1> DEFINE q == PredOf(next, ready_head)
<1>1. absState = state /\ absNext = next /\ absHead = ready_head
  BY FutureIsPresent
<1>2. Sound(task_count, state, next, ready_head, current_task)
  BY <1>1 DEF StepsInv
<1>3. frame'.t = t /\ frame'.pc = l /\ frame'.op = o
  BY DEF FrameBecomes
<1>4. state \in [Tasks -> TaskStates] /\ state' \in [Tasks -> TaskStates]
  BY <1>2 DEF Sound, TaskStates
<1>5. absState' = [state EXCEPT ![t] = "ready"]
  <2>1. absState' = [state' EXCEPT ![t] = "ready"]
    BY <1>3 DEF absState
  <2> QED BY <1>4, <2>1
<1>6. Pred(ready_head)' = q
  BY PredAfter
<1> HIDE DEF q
<1>7. /\ absHead' = IF ready_head = NULL THEN t ELSE ready_head
      /\ absNext' = IF ready_head = NULL THEN [next EXCEPT ![t] = t]
                    ELSE [next EXCEPT ![q] = t, ![t] = ready_head]
  <2>1. absHead' = IF ready_head = NULL THEN t ELSE ready_head
    <3>1. CASE ready_head = NULL
      BY <1>3, <3>1 DEF absHead
    <3>2. CASE ready_head # NULL
      BY <3>2 DEF absHead, Inserting, At
    <3> QED BY <3>1, <3>2
  <2>2. absNext' = IF ready_head = NULL THEN [next EXCEPT ![t] = t]
                   ELSE [next EXCEPT ![q] = t, ![t] = ready_head]
    BY <1>3, <1>6 DEF absNext
  <2> QED BY <2>1, <2>2
<1>8. Inserted(next, ready_head, t, q, absNext', absHead')
  <2>1. CASE ready_head = NULL
    BY <1>7, <2>1 DEF Inserted
  <2>2. CASE ready_head # NULL
    <3>1. ready_head \in Chain(next) /\ OneCycle(next)
      BY <1>2, <2>2 DEF Sound, RightlyQueued, HeadIsOn
    <3>2. q \in Chain(next) /\ next[q] = ready_head
      BY <3>1, PredIsPredecessor DEF q
    <3> QED BY <1>7, <2>2, <3>2 DEF Inserted
  <2> QED BY <2>1, <2>2
<1>9. Sound(task_count', absState', absNext', absHead', current_task')
  BY <1>2, <1>5, <1>8, InsertionIsSound
<1>10. Atomic!ready_insert(t)
  <2>1. Atomic!Pred(ready_head) = q /\ Atomic!NULL = NULL
    BY <1>1, AtomicNames DEF q
  <2> QED BY <1>1, <1>7, <2>1 DEF Atomic!ready_insert
<1>11. OthersAreOut'
  <2>1. absState'[t] = "ready" /\ \A u \in Tasks \ {t} : absState'[u] = absState[u]
    BY <1>1, <1>4, <1>5
  <2>2. \A c \in 1..task_count' : c \in Tasks /\ c \in Callers
    BY DEF Tasks, Callers
  <2>3. \A c \in 1..task_count' :
          absState'[c] # "unused" \/ (c \in 1..task_count /\ absState'[c] = absState[c])
    BY <2>1, <2>2
  <2>4. current_task \in 1..task_count' => absState'[current_task] # "unused"
    BY <2>1, <2>2 DEF StepsInv, OthersAreOut, frame
  <2> QED BY <2>3, <2>4, OthersStayOut
<1>12. StepsTypeOK'
  <2>1. TypeOK'
    BY <1>4 DEF StepsInv, StepsTypeOK, TypeOK
  <2> QED BY <2>1 DEF StepsTypeOK, FrameBecomes, Frames
<1> QED BY <1>1, <1>5, <1>9, <1>10, <1>11, <1>12 DEF StepsInv

LEMMA CreateTakesEffect ==
  ASSUME StepsInv, BumpCount, UNCHANGED current_task, ran' = TRUE
  PROVE  StepsInv' /\ Atomic!OS_TaskCreate
<1> DEFINE t == frame.t
<1>1. frame.pc = "bump" /\ frame.op = "create" /\ t = task_count + 1 /\ t \in Tasks
  BY DEF StepsInv, CallIsRight, BumpCount, At
<1>2. Untouched
  BY <1>1 DEF Untouched
<1>3. absState = state /\ absNext = next /\ absHead = ready_head
  BY <1>2, FutureIsPresent
<1>4. Sound(task_count, state, next, ready_head, current_task)
  BY <1>3 DEF StepsInv
<1>5. task_count \in 0..OS_MAX_TASKS /\ t \notin 1..task_count /\ t \in 0..OS_MAX_TASKS
  BY <1>1, <1>4 DEF Sound, Tasks
<1>6. state[t] = "unused" /\ t \notin Chain(next)
  BY <1>1, <1>4, <1>5 DEF Sound, RightlyMarked, RightlyQueued
<1>7. task_count' = t /\ UNCHANGED <<state, ready_head>> /\ next' = [next EXCEPT ![t] = NULL]
      /\ Goto("set_ready")
  BY DEF BumpCount
<1>8. next' = next
  BY <1>1, <1>4, <1>6, <1>7 DEF Sound, Links, Chain
<1>9. FrameBecomes("create", "set_ready", t, frame.ptr)
  BY <1>1, <1>7, GotoMoves DEF StepsInv, Labels
<1>10. frame'.op = "create" /\ frame'.pc = "set_ready" /\ frame'.t = t
  BY <1>9 DEF FrameBecomes
<1> HIDE DEF t
<1>11. Inserting'
  BY <1>10 DEF Inserting
<1>12. InsertionIsDue'
  <2>1. OneCycle(next) /\ HeadIsOn(next, ready_head)
    BY <1>4 DEF Sound, RightlyQueued
  <2>2. t \in 1..t
    BY <1>1, <1>5
  <2> QED BY <1>6, <1>7, <1>8, <1>10, <2>1, <2>2 DEF InsertionIsDue
<1>13. CallIsRight'
  BY <1>10, <1>12 DEF CallIsRight, Entering, Leaving, Removing, WalkIsRight
<1>14. task_count <= t /\ t \in 1..t /\ \A u \in 1..t : u \in 1..task_count \/ u = t
  BY <1>1, <1>5
<1>15. StepsInv' /\ Atomic!ready_insert(t) /\ absState' = [absState EXCEPT ![t] = "ready"]
  BY <1>1, <1>2, <1>5, <1>6, <1>7, <1>8, <1>9, <1>11, <1>13, <1>14, InsertionTakesEffect
<1> QED BY <1>1, <1>5, <1>7, <1>15 DEF Atomic!OS_TaskCreate

LEMMA SetReadyStep ==
  ASSUME StepsInv, SetReady, UNCHANGED current_task, ran' = TRUE
  PROVE  /\ StepsInv'
         /\ UNCHANGED Atomic!vars \/ \E t \in 1..task_count : Atomic!OS_TaskWake(t)
<1> DEFINE t == frame.t
<1>1. /\ frame.pc = "set_ready" /\ frame.op \in {"create", "wake"} /\ InsertionIsDue
      /\ state' = [state EXCEPT ![t] = "ready"] /\ Goto("insert")
      /\ UNCHANGED <<task_count, next, ready_head>>
  BY DEF StepsInv, CallIsRight, Entering, SetReady, At
<1>2. /\ t \in 1..task_count /\ t \notin Chain(next) /\ t \in Tasks
      /\ OneCycle(next) /\ HeadIsOn(next, ready_head)
      /\ state \in [Tasks -> TaskStates] /\ task_count \in 0..OS_MAX_TASKS
  BY <1>1 DEF InsertionIsDue, StepsInv, StepsTypeOK, TypeOK, Tasks
<1>3. FrameBecomes(frame.op, "insert", t, frame.ptr)
  BY <1>1, GotoMoves DEF StepsInv, Labels
<1>4. frame'.op = frame.op /\ frame'.pc = "insert" /\ frame'.t = t
  BY <1>3 DEF FrameBecomes
<1> HIDE DEF t
<1>5. Inserting'
  BY <1>4 DEF Inserting
<1>6. InsertionIsDue'
  BY <1>1, <1>2, <1>4 DEF InsertionIsDue
<1>7. CallIsRight'
  BY <1>1, <1>4, <1>6 DEF CallIsRight, Entering, Leaving, Removing, WalkIsRight
<1>8. CASE frame.op = "wake"
  <2>1. Untouched
    BY <1>1, <1>8 DEF Untouched
  <2>2. state[t] = "blocked"
    BY <1>1, <1>8 DEF InsertionIsDue, t
  <2>3. task_count <= task_count /\ \A u \in 1..task_count : u \in 1..task_count \/ u = t
    BY <1>2
  <2>4. StepsInv' /\ Atomic!ready_insert(t) /\ absState' = [absState EXCEPT ![t] = "ready"]
    BY <1>1, <1>2, <1>3, <1>5, <1>7, <1>8, <2>1, <2>3, InsertionTakesEffect
  <2>5. Atomic!OS_TaskWake(t)
    BY <1>1, <2>1, <2>2, <2>4, FutureIsPresent DEF Atomic!OS_TaskWake
  <2> QED BY <1>2, <2>4, <2>5
<1>9. CASE frame.op = "create"
  <2>1. Inserting
    BY <1>1, <1>9 DEF Inserting
  <2>2. Pred(ready_head)' = Pred(ready_head)
    BY <1>1, PredAfter, PredIsPredOf
  <2>3. absNext' = absNext
    BY <1>1, <1>4, <1>5, <2>1, <2>2 DEF absNext, t
  <2>4. absHead' = absHead
    BY <1>1, <1>4, <1>5, <1>9, <2>1 DEF absHead, At, t
  <2>5. absState' = absState
    <3>1. absState = [state EXCEPT ![t] = "ready"] /\ absState' = [state' EXCEPT ![t] = "ready"]
      BY <1>4, <1>5, <2>1 DEF absState, t
    <3> QED BY <1>1, <1>2, <3>1
  <2>6. TypeOK'
    BY <1>1, <1>2 DEF StepsInv, StepsTypeOK, TypeOK, TaskStates
  <2> QED BY <1>1, <1>3, <1>7, <1>9, <2>3, <2>4, <2>5, <2>6, SilentStep
<1> QED BY <1>1, <1>8, <1>9

LEMMA TakeSlotStep ==
  ASSUME StepsInv, TakeSlot, UNCHANGED current_task, ran' = TRUE
  PROVE  StepsInv' /\ UNCHANGED Atomic!vars
<1> DEFINE v == [frame EXCEPT !.pc = "bump", !.t = task_count + 1]
<1>1. frame.pc = "take" /\ frame.op = "create" /\ task_count < OS_MAX_TASKS /\ UNCHANGED shared
  BY DEF TakeSlot, At, StepsInv, CallIsRight
<1>2. task_count + 1 \in Tasks /\ task_count + 1 \in Callers
  BY <1>1 DEF StepsInv, StepsTypeOK, TypeOK, Tasks, Callers
<1>3. frame \in Frames /\ call \in [Callers -> Frames] /\ current_task \in Callers
  BY FramesAreTyped DEF StepsInv
<1>4. /\ v \in Frames
      /\ v.op = "create" /\ v.pc = "bump" /\ v.t = task_count + 1 /\ v.ptr = frame.ptr
  BY <1>1, <1>2, <1>3 DEF Frames, Labels
<1>5. call' = [call EXCEPT ![current_task] = v]
  BY <1>3 DEF TakeSlot, frame
<1> HIDE DEF v
<1>6. FrameBecomes(v.op, v.pc, v.t, v.ptr)
  BY <1>4, <1>5, FrameChanges DEF StepsInv
<1>7. frame'.op = "create" /\ frame'.pc = "bump" /\ frame'.t = task_count + 1
  BY <1>4, <1>6 DEF FrameBecomes
<1>8. Untouched /\ Untouched'
  BY <1>1, <1>7 DEF Untouched
<1>9. CallIsRight'
  BY <1>1, <1>2, <1>7 DEF CallIsRight, Entering, Leaving, Removing, WalkIsRight, shared
<1> QED BY <1>1, <1>4, <1>6, <1>8, <1>9, QuietStep

(* What holds while a task is inserted, at every place of ready_insert. *)
LEMMA WhileInserting ==
  ASSUME StepsInv, frame.pc \in {"insert", "find_tail", "link_tail"}
  PROVE  /\ Inserting /\ absState = state /\ state[frame.t] = "ready"
         /\ frame.op \in {"create", "wake"} /\ frame.t \in Tasks \ Chain(next)
         /\ InsertionIsDue /\ OneCycle(next) /\ HeadIsOn(next, ready_head) /\ next \in Links
<1>1. InsertionIsDue /\ frame.op \in {"create", "wake"} /\ state[frame.t] = "ready" /\ Inserting
  BY DEF StepsInv, CallIsRight, Entering, InsertionIsDue, Inserting
<1>2. frame.t \in Tasks /\ state \in [Tasks -> TaskStates] /\ next \in Links
  BY <1>1 DEF InsertionIsDue, StepsInv, StepsTypeOK, TypeOK, Tasks, Links
<1>3. absState = [state EXCEPT ![frame.t] = "ready"]
  BY <1>1 DEF absState
<1>4. absState = state
  BY <1>1, <1>2, <1>3
<1> QED BY <1>1, <1>2, <1>4 DEF InsertionIsDue

LEMMA InsertBeginStep ==
  ASSUME StepsInv, InsertBegin, UNCHANGED current_task, ran' = TRUE
  PROVE  StepsInv' /\ UNCHANGED Atomic!vars
<1>1. frame.pc = "insert" /\ UNCHANGED <<task_count, state, next>>
  BY DEF InsertBegin, At
<1>2. /\ Inserting /\ absState = state /\ state[frame.t] = "ready"
      /\ frame.op \in {"create", "wake"} /\ frame.t \in Tasks \ Chain(next)
      /\ InsertionIsDue /\ OneCycle(next) /\ HeadIsOn(next, ready_head) /\ next \in Links
  BY <1>1, WhileInserting
<1>3. CASE ready_head = NULL
  <2>1. ready_head' = frame.t /\ Goto("link_self")
    BY <1>3 DEF InsertBegin
  <2>2. FrameBecomes(frame.op, "link_self", frame.t, frame.ptr)
    BY <2>1, GotoMoves DEF StepsInv, Labels
  <2>3. frame'.op = frame.op /\ frame'.pc = "link_self" /\ frame'.t = frame.t
    BY <2>2 DEF FrameBecomes
  <2>4. absState' = absState
    BY <1>1, <1>2, <2>3 DEF absState, Inserting, Removed, At
  <2>5. absNext' = absNext
    BY <1>1, <1>2, <1>3, <2>3 DEF absNext, Inserting, At
  <2>6. absHead' = absHead
    BY <1>2, <1>3, <2>1, <2>3 DEF absHead, Inserting, At
  <2>7. TypeOK'
    BY <1>1, <1>2, <2>1 DEF StepsInv, StepsTypeOK, TypeOK
  <2>8. CallIsRight'
    BY <1>2, <2>3 DEF CallIsRight, Entering, Leaving, Removing, WalkIsRight
  <2> QED BY <1>1, <1>2, <2>2, <2>4, <2>5, <2>6, <2>7, <2>8, SilentStep
<1>4. CASE ready_head # NULL
  <2>1. GotoWith("find_tail", ready_head) /\ UNCHANGED ready_head
    BY <1>4 DEF InsertBegin
  <2>2. ready_head \in Chain(next) /\ ready_head \in Callers
    BY <1>2, <1>4 DEF HeadIsOn, Chain, Callers
  <2>3. FrameBecomes(frame.op, "find_tail", frame.t, ready_head)
    BY <2>1, <2>2, GotoWithMoves DEF StepsInv, Labels
  <2>4. frame'.op = frame.op /\ frame'.pc = "find_tail" /\ frame'.t = frame.t
        /\ frame'.ptr = ready_head
    BY <2>3 DEF FrameBecomes
  <2>5. Inserting' /\ Pred(ready_head)' = Pred(ready_head)
    BY <1>1, <2>1, <2>4, PredAfter, PredIsPredOf DEF Inserting
  <2>6. UNCHANGED <<absState, absNext, absHead>>
    <3>1. absState' = absState
      BY <1>1, <1>2, <2>4, <2>5 DEF absState
    <3>2. absNext' = absNext
      BY <1>1, <1>2, <2>1, <2>4, <2>5 DEF absNext
    <3>3. absHead' = absHead
      BY <1>4, <1>1, <2>1, <2>4 DEF absHead, At
    <3> QED BY <3>1, <3>2, <3>3
  <2>7. TypeOK'
    BY <1>1, <2>1 DEF StepsInv, StepsTypeOK, TypeOK
  <2>8. InsertionIsDue'
    BY <1>1, <1>2, <2>1, <2>4 DEF InsertionIsDue
  <2>9. CallIsRight'
    BY <1>1, <1>2, <1>4, <2>1, <2>2, <2>4, <2>8
       DEF CallIsRight, Entering, Leaving, Removing, WalkIsRight
  <2> QED BY <1>1, <1>2, <2>3, <2>6, <2>7, <2>9, SilentStep
<1> QED BY <1>3, <1>4

(* The last statement of an insertion: what was promised is there. *)
LEMMA LinkStep ==
  ASSUME StepsInv, LinkSelf \/ LinkTask, UNCHANGED current_task, ran' = TRUE
  PROVE  StepsInv' /\ UNCHANGED Atomic!vars
<1>1. /\ frame.pc \in {"link_self", "link_t"} /\ ReturnFromCall
      /\ UNCHANGED <<task_count, state, ready_head>>
  BY DEF LinkSelf, LinkTask, At
<1>2. frame.op \in {"create", "wake"} /\ frame.t \in Tasks
  BY <1>1 DEF StepsInv, CallIsRight
<1>3. FrameBecomes("none", "idle", NULL, NULL)
  BY <1>1, ReturnMoves DEF StepsInv
<1>4. frame'.op = "none" /\ frame'.pc = "idle"
  BY <1>3 DEF FrameBecomes
<1>5. absNext = next'
  BY DEF LinkSelf, LinkTask, absNext, Inserting, At
<1>6. absState = state /\ absHead = ready_head
  BY <1>1 DEF absState, absHead, Inserting, Removed, At
<1>7. absState' = state' /\ absNext' = next' /\ absHead' = ready_head'
  BY <1>4, FutureIsPresentAfter DEF Untouched
<1>8. UNCHANGED <<task_count, absState, absNext, absHead>>
  BY <1>1, <1>5, <1>6, <1>7
<1>9. TypeOK'
  BY <1>1, <1>5 DEF StepsInv, StepsTypeOK, TypeOK, Sound, Links
<1>10. CallIsRight'
  BY <1>4 DEF CallIsRight, Entering, Leaving, Removing, WalkIsRight
<1> QED BY <1>2, <1>3, <1>8, <1>9, <1>10, SilentStep

LEMMA FindTailStep ==
  ASSUME StepsInv, FindTail, UNCHANGED current_task, ran' = TRUE
  PROVE  StepsInv' /\ UNCHANGED Atomic!vars
<1>1. frame.pc = "find_tail" /\ UNCHANGED <<task_count, state, next, ready_head>>
  BY DEF FindTail, At, shared
<1>2. /\ Inserting /\ absState = state /\ state[frame.t] = "ready"
      /\ frame.op \in {"create", "wake"} /\ frame.t \in Tasks \ Chain(next)
      /\ InsertionIsDue /\ OneCycle(next) /\ HeadIsOn(next, ready_head) /\ next \in Links
  BY <1>1, WhileInserting
<1>3. frame.ptr \in Chain(next) /\ ready_head # NULL
  BY <1>1 DEF StepsInv, CallIsRight, WalkIsRight
<1>4. next[frame.ptr] \in Chain(next) /\ next[frame.ptr] \in Callers
  BY <1>2, <1>3 DEF OneCycle, Chain, Callers
<1>5. PICK l \in {"find_tail", "link_tail"}, p \in Chain(next) :
        /\ FrameBecomes(frame.op, l, frame.t, p)
        /\ (l = "link_tail" => next[p] = ready_head)
  <2>1. CASE next[frame.ptr] # ready_head
    <3>1. FrameBecomes(frame.op, "find_tail", frame.t, next[frame.ptr])
      BY <1>4, <2>1, GotoWithMoves DEF FindTail, StepsInv, Labels
    <3> QED BY <1>4, <3>1
  <2>2. CASE next[frame.ptr] = ready_head
    <3>1. FrameBecomes(frame.op, "link_tail", frame.t, frame.ptr)
      BY <2>2, GotoMoves DEF FindTail, StepsInv, Labels
    <3> QED BY <1>3, <2>2, <3>1
  <2> QED BY <2>1, <2>2
<1>6. frame'.op = frame.op /\ frame'.pc = l /\ frame'.t = frame.t /\ frame'.ptr = p
  BY <1>5 DEF FrameBecomes
<1>7. Inserting' /\ Pred(ready_head)' = Pred(ready_head)
  BY <1>1, <1>6, PredAfter, PredIsPredOf DEF Inserting
<1>8. UNCHANGED <<absState, absNext, absHead>>
  <2>1. absState' = absState
    BY <1>1, <1>2, <1>6, <1>7 DEF absState
  <2>2. absNext' = absNext
    BY <1>1, <1>2, <1>6, <1>7 DEF absNext
  <2>3. absHead' = absHead
    BY <1>1, <1>3, <1>6 DEF absHead, At
  <2> QED BY <2>1, <2>2, <2>3
<1>9. TypeOK'
  BY <1>1 DEF StepsInv, StepsTypeOK, TypeOK
<1>10. InsertionIsDue'
  BY <1>1, <1>2, <1>6 DEF InsertionIsDue
<1>11. CallIsRight'
  BY <1>1, <1>2, <1>3, <1>5, <1>6, <1>10 DEF CallIsRight, Entering, Leaving, Removing, WalkIsRight
<1> QED BY <1>1, <1>2, <1>5, <1>8, <1>9, <1>11, SilentStep

LEMMA LinkTailStep ==
  ASSUME StepsInv, LinkTail, UNCHANGED current_task, ran' = TRUE
  PROVE  StepsInv' /\ UNCHANGED Atomic!vars
<1>1. /\ frame.pc = "link_tail" /\ UNCHANGED <<task_count, state, ready_head>> /\ Goto("link_t")
      /\ next' = [next EXCEPT ![frame.ptr] = frame.t]
  BY DEF LinkTail, At
<1>2. /\ Inserting /\ absState = state /\ state[frame.t] = "ready"
      /\ frame.op \in {"create", "wake"} /\ frame.t \in Tasks \ Chain(next)
      /\ InsertionIsDue /\ OneCycle(next) /\ HeadIsOn(next, ready_head) /\ next \in Links
  BY <1>1, WhileInserting
<1>3. frame.ptr \in Chain(next) /\ next[frame.ptr] = ready_head
  BY <1>1 DEF StepsInv, CallIsRight, WalkIsRight
<1>4. ready_head \in Chain(next) /\ ready_head # NULL
  BY <1>2, <1>3 DEF OneCycle, Chain, Tasks, NULL
<1>5. Pred(ready_head) = frame.ptr
  BY <1>2, <1>3, <1>4, PredIsPredecessor, PredIsPredOf
<1>6. FrameBecomes(frame.op, "link_t", frame.t, frame.ptr)
  BY <1>1, GotoMoves DEF StepsInv, Labels
<1>7. frame'.op = frame.op /\ frame'.pc = "link_t" /\ frame'.t = frame.t
  BY <1>6 DEF FrameBecomes
<1>8. absNext' = absNext
  <2>1. absNext = [next EXCEPT ![frame.ptr] = frame.t, ![frame.t] = ready_head]
    BY <1>2, <1>4, <1>5 DEF absNext
  <2>2. absNext' = [next' EXCEPT ![frame.t] = ready_head]
    BY <1>1, <1>7 DEF absNext, Inserting, At
  <2> QED BY <1>1, <2>1, <2>2
<1>9. absState' = absState /\ absHead' = absHead
  BY <1>1, <1>2, <1>4, <1>7 DEF absState, absHead, Inserting, Removed, At
<1>10. TypeOK'
  BY <1>1, <1>2 DEF StepsInv, StepsTypeOK, TypeOK, Links
<1>11. CallIsRight'
  BY <1>2, <1>7 DEF CallIsRight, Entering, Leaving, Removing, WalkIsRight
<1> QED BY <1>1, <1>2, <1>6, <1>8, <1>9, <1>10, <1>11, SilentStep

(* What holds while ready_remove looks for the task. *)
LEMMA WhileRemoving ==
  ASSUME StepsInv, Removing
  PROVE  /\ Untouched /\ absState = state /\ absNext = next /\ absHead = ready_head
         /\ Sound(task_count, state, next, ready_head, current_task)
         /\ OneCycle(next) /\ HeadIsOn(next, ready_head) /\ next \in Links
         /\ RemovalIsDue /\ frame.op \in {"block", "exit"} /\ frame.t \in Tasks
<1>1. Untouched
  BY DEF Untouched, Removing
<1>2. absState = state /\ absNext = next /\ absHead = ready_head
  BY <1>1, FutureIsPresent
<1>3. Sound(task_count, state, next, ready_head, current_task)
  BY <1>2 DEF StepsInv
<1>4. RemovalIsDue /\ frame.op \in {"block", "exit"} /\ frame.t \in Tasks
  BY DEF StepsInv, CallIsRight, Leaving
<1> QED BY <1>1, <1>2, <1>3, <1>4 DEF Sound, RightlyQueued

(* The statement by which a removal takes effect. *)
LEMMA RemovalTakesEffect ==
  ASSUME StepsInv, Removing, ran' = TRUE, UNCHANGED <<task_count, state, current_task>>,
         next' \in Links, ready_head' \in Tasks \cup {NULL},
         NEW l \in {"move_head", "clear", "set_gone"},
         FrameBecomes(frame.op, l, frame.t, frame.ptr),
         NEW q, Taken(next, ready_head, frame.t, q, absNext', absHead')
  PROVE  /\ StepsInv'
         /\ Atomic!OS_TaskExit \/ \E t \in 1..task_count : Atomic!OS_TaskBlock(t)
<1> DEFINE t == frame.t
           e == IF frame.op = "exit" THEN "unused" ELSE "blocked"
<1>1. /\ Untouched /\ absState = state /\ absNext = next /\ absHead = ready_head
      /\ Sound(task_count, state, next, ready_head, current_task)
      /\ OneCycle(next) /\ HeadIsOn(next, ready_head) /\ next \in Links
      /\ RemovalIsDue /\ frame.op \in {"block", "exit"} /\ t \in Tasks
  BY WhileRemoving
<1>2. frame'.op = frame.op /\ frame'.pc = l /\ frame'.t = t
  BY DEF FrameBecomes
<1>3. absState' = [state EXCEPT ![t] = e]
  BY <1>2 DEF absState, Inserting, Removed, At
<1>4. t \in 1..task_count /\ e \in {"blocked", "unused"}
  BY <1>1 DEF RemovalIsDue
<1>5. Sound(task_count', absState', absNext', absHead', current_task')
  BY <1>1, <1>3, <1>4, RemovalIsSound
<1>6. Atomic!ready_remove(t)
  <2>1. Atomic!NULL = NULL /\ Atomic!Linked = Chain(next) /\ Atomic!Pred(t) = PredOf(next, t)
    BY <1>1, AtomicNames
  <2>2. CASE t \notin Chain(next)
    BY <1>1, <2>1, <2>2 DEF Atomic!ready_remove, Taken
  <2>3. CASE t \in Chain(next) /\ next[t] = t
    BY <1>1, <2>1, <2>3 DEF Atomic!ready_remove, Taken
  <2>4. CASE t \in Chain(next) /\ next[t] # t
    <3>1. q \in Chain(next) /\ next[q] = t
      BY <2>4 DEF Taken
    <3>2. PredOf(next, t) = q
      BY <1>1, <2>4, <3>1, PredIsPredecessor
    <3> QED BY <1>1, <2>1, <2>4, <3>2 DEF Atomic!ready_remove, Taken
  <2> QED BY <2>2, <2>3, <2>4
<1>7. CASE frame.op = "exit"
  <2>1. t = current_task /\ state[t] # "unused" /\ current_task # NULL
    BY <1>1, <1>7 DEF RemovalIsDue, Tasks, NULL
  <2>2. Atomic!Started
    BY <2>1, AtomicNames DEF Atomic!Started
  <2>3. Atomic!OS_TaskExit
    BY <1>1, <1>3, <1>6, <1>7, <2>1, <2>2 DEF Atomic!OS_TaskExit
  <2>4. OthersAreOut'
    <3>1. \A c \in 1..task_count : c \in Tasks
      BY <1>1 DEF Sound, Tasks
    <3>2. \A c \in 1..task_count : c # current_task => absState'[c] = absState[c]
      BY <1>1, <1>3, <2>1, <3>1 DEF Sound
    <3> QED BY <1>1, <1>7, <3>2, OthersStayOut DEF Sound
  <2> QED BY <1>1, <1>2, <1>5, <2>3, <2>4
          DEF StepsInv, StepsTypeOK, TypeOK, Links, FrameBecomes, Frames, CallIsRight, Entering,
              Leaving, Removing, WalkIsRight
<1>8. CASE frame.op = "block"
  <2>1. state[t] \in {"ready", "running"}
    BY <1>1, <1>8 DEF RemovalIsDue
  <2>2. Atomic!OS_TaskBlock(t)
    BY <1>1, <1>3, <1>6, <1>8, <2>1 DEF Atomic!OS_TaskBlock
  <2>3. OthersAreOut'
    <3>1. \A c \in 1..task_count : c \in Tasks
      BY <1>1 DEF Sound, Tasks
    <3>2. \A c \in 1..task_count : absState'[c] = absState[c] \/ absState'[c] = "blocked"
      BY <1>1, <1>3, <1>8, <3>1 DEF Sound
    <3>3. current_task \in 1..task_count => absState[current_task] # "unused"
      BY <1>8 DEF StepsInv, OthersAreOut, frame
    <3> QED BY <1>1, <1>8, <3>2, <3>3, OthersStayOut DEF Sound
  <2> QED BY <1>1, <1>2, <1>4, <1>5, <2>2, <2>3
          DEF StepsInv, StepsTypeOK, TypeOK, Links, FrameBecomes, Frames, CallIsRight, Entering,
              Leaving, Removing, WalkIsRight
<1> QED BY <1>1, <1>7, <1>8

(* The walk came round, or there is no list: the task is not on it. *)
LEMMA NothingToRemove ==
  ASSUME StepsInv, Removing, ran' = TRUE, UNCHANGED <<shared, current_task>>,
         Goto("set_gone"), frame.t \notin Chain(next)
  PROVE  /\ StepsInv'
         /\ Atomic!OS_TaskExit \/ \E t \in 1..task_count : Atomic!OS_TaskBlock(t)
<1>1. FrameBecomes(frame.op, "set_gone", frame.t, frame.ptr)
  BY GotoMoves DEF StepsInv, Labels
<1>2. frame'.pc = "set_gone"
  BY <1>1 DEF FrameBecomes
<1>3. absNext' = next /\ absHead' = ready_head
  BY <1>2 DEF absNext, absHead, Inserting, Removed, At, shared
<1>4. Taken(next, ready_head, frame.t, NULL, absNext', absHead')
  BY <1>3 DEF Taken
<1>5. next' \in Links /\ ready_head' \in Tasks \cup {NULL} /\ UNCHANGED <<task_count, state>>
  BY DEF StepsInv, StepsTypeOK, TypeOK, Links, shared
<1> QED BY <1>1, <1>4, <1>5, RemovalTakesEffect

LEMMA RemoveBeginStep ==
  ASSUME StepsInv, RemoveBegin, UNCHANGED current_task, ran' = TRUE
  PROVE  /\ StepsInv'
         /\ \/ UNCHANGED Atomic!vars
            \/ Atomic!OS_TaskExit \/ \E t \in 1..task_count : Atomic!OS_TaskBlock(t)
<1>1. frame.pc = "remove" /\ UNCHANGED shared /\ Removing
  BY DEF RemoveBegin, At, Removing
<1>2. /\ Untouched /\ absState = state /\ absNext = next /\ absHead = ready_head
      /\ Sound(task_count, state, next, ready_head, current_task)
      /\ OneCycle(next) /\ HeadIsOn(next, ready_head) /\ next \in Links
      /\ RemovalIsDue /\ frame.op \in {"block", "exit"} /\ frame.t \in Tasks
  BY <1>1, WhileRemoving
<1>3. CASE ready_head = NULL
  <2>1. frame.t \notin Chain(next)
    BY <1>2, <1>3 DEF HeadIsOn, Chain, Tasks, NULL
  <2> QED BY <1>1, <1>3, <2>1, NothingToRemove DEF RemoveBegin
<1>4. CASE ready_head # NULL /\ next[frame.t] = frame.t
  <2>1. FrameBecomes(frame.op, "unlink_only", frame.t, frame.ptr)
    BY <1>4, GotoMoves DEF RemoveBegin, StepsInv, Labels
  <2>2. frame'.op = frame.op /\ frame'.pc = "unlink_only" /\ frame'.t = frame.t
    BY <2>1 DEF FrameBecomes
  <2>3. Untouched'
    BY <2>2 DEF Untouched, Removing
  <2>4. CallIsRight'
    BY <1>1, <1>2, <1>4, <2>2
       DEF CallIsRight, Entering, Leaving, Removing, RemovalIsDue, WalkIsRight, shared
  <2> QED BY <1>1, <1>2, <2>1, <2>3, <2>4, QuietStep
<1>5. CASE ready_head # NULL /\ next[frame.t] # frame.t
  <2>1. ready_head \in Chain(next) /\ ready_head \in Callers
    BY <1>2, <1>5 DEF HeadIsOn, Chain, Callers
  <2>2. FrameBecomes(frame.op, "find_prev", frame.t, ready_head)
    BY <1>5, <2>1, GotoWithMoves DEF RemoveBegin, StepsInv, Labels
  <2>3. frame'.op = frame.op /\ frame'.pc = "find_prev" /\ frame'.t = frame.t
        /\ frame'.ptr = ready_head
    BY <2>2 DEF FrameBecomes
  <2>4. Untouched'
    BY <2>3 DEF Untouched, Removing
  <2>5. Passed({})'
    BY <1>1, <2>1, <2>3 DEF Passed, shared
  <2>6. WalkIsRight'
    <3>1. {} \in SUBSET Chain(next')
      OBVIOUS
    <3>2. next'[frame'.t] # frame'.t
      BY <1>1, <1>5, <2>3 DEF shared
    <3>3. (\E V \in SUBSET Chain(next) : Passed(V))'
      BY <2>5, <3>1
    <3> QED BY <2>3, <3>2, <3>3 DEF WalkIsRight
  <2>7. CallIsRight'
    BY <1>1, <1>2, <2>3, <2>6 DEF CallIsRight, Entering, Leaving, Removing, RemovalIsDue, shared
  <2> QED BY <1>1, <1>2, <2>2, <2>4, <2>7, QuietStep
<1> QED BY <1>3, <1>4, <1>5

LEMMA UnlinkOnlyStep ==
  ASSUME StepsInv, UnlinkOnly, UNCHANGED current_task, ran' = TRUE
  PROVE  /\ StepsInv'
         /\ Atomic!OS_TaskExit \/ \E t \in 1..task_count : Atomic!OS_TaskBlock(t)
<1>1. /\ frame.pc = "unlink_only" /\ UNCHANGED <<task_count, state, next>> /\ Removing
      /\ Goto("clear") /\ ready_head' = IF ready_head = frame.t THEN NULL ELSE ready_head
  BY DEF UnlinkOnly, At, Removing
<1>2. next \in Links /\ frame.t \in Tasks
  BY <1>1, WhileRemoving
<1>3. frame.t \in Chain(next) /\ next[frame.t] = frame.t
  BY <1>1, <1>2 DEF StepsInv, CallIsRight, WalkIsRight, Chain, Tasks, NULL
<1>4. FrameBecomes(frame.op, "clear", frame.t, frame.ptr)
  BY <1>1, GotoMoves DEF StepsInv, Labels
<1>5. frame'.pc = "clear" /\ frame'.t = frame.t
  BY <1>4 DEF FrameBecomes
<1>6. absNext' = [next EXCEPT ![frame.t] = NULL] /\ absHead' = ready_head'
  BY <1>1, <1>5 DEF absNext, absHead, Inserting, Removed, At
<1>7. Taken(next, ready_head, frame.t, NULL, absNext', absHead')
  BY <1>1, <1>3, <1>6 DEF Taken
<1>8. ready_head' \in Tasks \cup {NULL}
  BY <1>1 DEF StepsInv, StepsTypeOK, TypeOK
<1> QED BY <1>1, <1>2, <1>4, <1>7, <1>8, RemovalTakesEffect

LEMMA FindPrevStep ==
  ASSUME StepsInv, FindPrev, UNCHANGED current_task, ran' = TRUE
  PROVE  StepsInv' /\ UNCHANGED Atomic!vars
<1>1. frame.pc = "find_prev" /\ UNCHANGED shared /\ Removing
  BY DEF FindPrev, At, Removing
<1>2. /\ Untouched /\ absState = state /\ absNext = next /\ absHead = ready_head
      /\ Sound(task_count, state, next, ready_head, current_task)
      /\ OneCycle(next) /\ HeadIsOn(next, ready_head) /\ next \in Links
      /\ RemovalIsDue /\ frame.op \in {"block", "exit"} /\ frame.t \in Tasks
  BY <1>1, WhileRemoving
<1>3. next[frame.t] # frame.t /\ \E V \in SUBSET Chain(next) : Passed(V)
  BY <1>1 DEF StepsInv, CallIsRight, WalkIsRight
<1>4. PICK V \in SUBSET Chain(next) : Passed(V)
  BY <1>3
<1>5. frame.ptr \in Chain(next)
  BY <1>4 DEF Passed
<1>6. CASE next[frame.ptr] = frame.t
  <2>1. FrameBecomes(frame.op, "unlink", frame.t, frame.ptr)
    BY <1>6, GotoMoves DEF FindPrev, StepsInv, Labels
  <2>2. frame'.op = frame.op /\ frame'.pc = "unlink" /\ frame'.t = frame.t
        /\ frame'.ptr = frame.ptr
    BY <2>1 DEF FrameBecomes
  <2>3. Untouched'
    BY <2>2 DEF Untouched, Removing
  <2>4. CallIsRight'
    BY <1>1, <1>2, <1>3, <1>5, <1>6, <2>2
       DEF CallIsRight, Entering, Leaving, Removing, RemovalIsDue, WalkIsRight, shared
  <2> QED BY <1>1, <1>2, <2>1, <2>3, <2>4, QuietStep
<1>7. CASE next[frame.ptr] # frame.t
  <2>1. next[frame.ptr] \in Chain(next) /\ next[frame.ptr] \in Callers
    BY <1>2, <1>5 DEF OneCycle, Chain, Callers
  <2>2. FrameBecomes(frame.op, "lap", frame.t, next[frame.ptr])
    BY <1>7, <2>1, GotoWithMoves DEF FindPrev, StepsInv, Labels
  <2>3. frame'.op = frame.op /\ frame'.pc = "lap" /\ frame'.t = frame.t
        /\ frame'.ptr = next[frame.ptr]
    BY <2>2 DEF FrameBecomes
  <2>4. Untouched'
    BY <2>3 DEF Untouched, Removing
  <2>5. WalkIsRight'
    <3> DEFINE W == V \cup {frame.ptr}
    <3>1. W \in SUBSET Chain(next')
      BY <1>1, <1>5 DEF shared
    <3>2. ready_head' \in W
      BY <1>1, <1>4 DEF Passed, shared
    <3>3. \A v \in W : next'[v] \in W \cup {frame'.ptr} /\ next'[v] # frame'.t
      BY <1>1, <1>4, <1>7, <2>3 DEF Passed, shared
    <3>4. frame'.ptr \in Chain(next') /\ next'[frame'.t] # frame'.t
      BY <1>1, <1>3, <2>1, <2>3 DEF shared
    <3> HIDE DEF W
    <3>5. (\E U \in SUBSET Chain(next) : Passed(U))'
      BY <2>3, <3>1, <3>2, <3>3, <3>4 DEF Passed
    <3> QED BY <2>3, <3>4, <3>5 DEF WalkIsRight
  <2>6. CallIsRight'
    BY <1>1, <1>2, <2>3, <2>5 DEF CallIsRight, Entering, Leaving, Removing, RemovalIsDue, shared
  <2> QED BY <1>1, <1>2, <2>2, <2>4, <2>6, QuietStep
<1> QED BY <1>6, <1>7

LEMMA LapDoneStep ==
  ASSUME StepsInv, LapDone, UNCHANGED current_task, ran' = TRUE
  PROVE  /\ StepsInv'
         /\ \/ UNCHANGED Atomic!vars
            \/ Atomic!OS_TaskExit \/ \E t \in 1..task_count : Atomic!OS_TaskBlock(t)
<1>1. frame.pc = "lap" /\ UNCHANGED shared /\ Removing
  BY DEF LapDone, At, Removing
<1>2. /\ Untouched /\ absState = state /\ absNext = next /\ absHead = ready_head
      /\ Sound(task_count, state, next, ready_head, current_task)
      /\ OneCycle(next) /\ HeadIsOn(next, ready_head) /\ next \in Links
      /\ RemovalIsDue /\ frame.op \in {"block", "exit"} /\ frame.t \in Tasks
  BY <1>1, WhileRemoving
<1>3. next[frame.t] # frame.t /\ \E V \in SUBSET Chain(next) : Passed(V)
  BY <1>1 DEF StepsInv, CallIsRight, WalkIsRight
<1>4. PICK V \in SUBSET Chain(next) : Passed(V)
  BY <1>3
<1>5. CASE frame.ptr = ready_head
  <2>1. V # {} /\ \A v \in V : next[v] \in V
    BY <1>1, <1>4, <1>5 DEF Passed
  <2>2. V = Chain(next)
    BY <1>2, <2>1 DEF OneCycle
  <2>3. frame.t \notin Chain(next)
    BY <1>2, <1>4, <2>2 DEF OneCycle, Passed
  <2> QED BY <1>1, <1>5, <2>3, NothingToRemove DEF LapDone
<1>6. CASE frame.ptr # ready_head
  <2>1. FrameBecomes(frame.op, "find_prev", frame.t, frame.ptr)
    BY <1>6, GotoMoves DEF LapDone, StepsInv, Labels
  <2>2. frame'.op = frame.op /\ frame'.pc = "find_prev" /\ frame'.t = frame.t
        /\ frame'.ptr = frame.ptr
    BY <2>1 DEF FrameBecomes
  <2>3. Untouched'
    BY <2>2 DEF Untouched, Removing
  <2>4. WalkIsRight'
    <3>1. V \in SUBSET Chain(next')
      BY <1>1 DEF shared
    <3>2. next'[frame'.t] # frame'.t
      BY <1>1, <1>3, <2>2 DEF shared
    <3>3. Passed(V)'
      BY <1>1, <1>4, <2>2 DEF Passed, shared
    <3>4. (\E U \in SUBSET Chain(next) : Passed(U))'
      BY <3>1, <3>3
    <3> QED BY <2>2, <3>2, <3>4 DEF WalkIsRight
  <2>5. CallIsRight'
    BY <1>1, <1>2, <2>2, <2>4 DEF CallIsRight, Entering, Leaving, Removing, RemovalIsDue, shared
  <2> QED BY <1>1, <1>2, <2>1, <2>3, <2>5, QuietStep
<1> QED BY <1>5, <1>6

LEMMA UnlinkStep ==
  ASSUME StepsInv, Unlink, UNCHANGED current_task, ran' = TRUE
  PROVE  /\ StepsInv'
         /\ Atomic!OS_TaskExit \/ \E t \in 1..task_count : Atomic!OS_TaskBlock(t)
<1>1. /\ frame.pc = "unlink" /\ UNCHANGED <<task_count, state, ready_head>> /\ Removing
      /\ Goto("move_head") /\ next' = [next EXCEPT ![frame.ptr] = next[frame.t]]
  BY DEF Unlink, At, Removing
<1>2. OneCycle(next) /\ next \in Links /\ frame.t \in Tasks
  BY <1>1, WhileRemoving
<1>3. frame.ptr \in Chain(next) /\ next[frame.ptr] = frame.t /\ next[frame.t] # frame.t
  BY <1>1 DEF StepsInv, CallIsRight, WalkIsRight
<1>4. frame.t \in Chain(next) /\ next[frame.t] \in Tasks /\ frame.ptr \in Tasks
  BY <1>2, <1>3 DEF OneCycle, Chain
<1>5. FrameBecomes(frame.op, "move_head", frame.t, frame.ptr)
  BY <1>1, GotoMoves DEF StepsInv, Labels
<1>6. frame'.pc = "move_head" /\ frame'.t = frame.t
  BY <1>5 DEF FrameBecomes
<1>7. next' \in Links /\ next'[frame.t] = next[frame.t]
  BY <1>1, <1>2, <1>3, <1>4 DEF Links
<1>8. absNext' = [next EXCEPT ![frame.ptr] = next[frame.t], ![frame.t] = NULL]
  <2>1. absNext' = [next' EXCEPT ![frame.t] = NULL]
    BY <1>6 DEF absNext, Inserting, Removed, At
  <2> QED BY <1>1, <2>1
<1>9. absHead' = IF ready_head = frame.t THEN next[frame.t] ELSE ready_head
  BY <1>1, <1>6, <1>7 DEF absHead, Inserting, At
<1>10. Taken(next, ready_head, frame.t, frame.ptr, absNext', absHead')
  BY <1>3, <1>4, <1>8, <1>9 DEF Taken
<1>11. ready_head' \in Tasks \cup {NULL}
  BY <1>1 DEF StepsInv, StepsTypeOK, TypeOK
<1> QED BY <1>1, <1>5, <1>7, <1>10, <1>11, RemovalTakesEffect

LEMMA MoveHeadStep ==
  ASSUME StepsInv, MoveHead, UNCHANGED current_task, ran' = TRUE
  PROVE  StepsInv' /\ UNCHANGED Atomic!vars
<1>1. /\ frame.pc = "move_head" /\ UNCHANGED <<task_count, state, next>> /\ Goto("clear")
      /\ ready_head' = IF ready_head = frame.t THEN next[frame.t] ELSE ready_head
  BY DEF MoveHead, At
<1>2. frame.op \in {"block", "exit"} /\ frame.t \in Tasks
  BY <1>1 DEF StepsInv, CallIsRight, Leaving
<1>3. FrameBecomes(frame.op, "clear", frame.t, frame.ptr)
  BY <1>1, GotoMoves DEF StepsInv, Labels
<1>4. frame'.op = frame.op /\ frame'.pc = "clear" /\ frame'.t = frame.t
  BY <1>3 DEF FrameBecomes
<1>5. UNCHANGED <<task_count, absState, absNext, absHead>> /\ absHead = ready_head'
  BY <1>1, <1>4 DEF absState, absNext, absHead, Inserting, Removed, At
<1>6. TypeOK'
  BY <1>1, <1>5 DEF StepsInv, StepsTypeOK, TypeOK, Sound
<1>7. CallIsRight'
  BY <1>2, <1>4 DEF CallIsRight, Entering, Leaving, Removing, WalkIsRight
<1> QED BY <1>2, <1>3, <1>5, <1>6, <1>7, SilentStep

LEMMA ClearNextStep ==
  ASSUME StepsInv, ClearNext, UNCHANGED current_task, ran' = TRUE
  PROVE  StepsInv' /\ UNCHANGED Atomic!vars
<1>1. /\ frame.pc = "clear" /\ UNCHANGED <<task_count, state, ready_head>> /\ Goto("set_gone")
      /\ next' = [next EXCEPT ![frame.t] = NULL]
  BY DEF ClearNext, At
<1>2. frame.op \in {"block", "exit"} /\ frame.t \in Tasks
  BY <1>1 DEF StepsInv, CallIsRight, Leaving
<1>3. FrameBecomes(frame.op, "set_gone", frame.t, frame.ptr)
  BY <1>1, GotoMoves DEF StepsInv, Labels
<1>4. frame'.op = frame.op /\ frame'.pc = "set_gone" /\ frame'.t = frame.t
  BY <1>3 DEF FrameBecomes
<1>5. UNCHANGED <<task_count, absState, absNext, absHead>> /\ absNext = next'
  BY <1>1, <1>4 DEF absState, absNext, absHead, Inserting, Removed, At
<1>6. TypeOK'
  BY <1>1, <1>5 DEF StepsInv, StepsTypeOK, TypeOK, Sound, Links
<1>7. CallIsRight'
  BY <1>2, <1>4 DEF CallIsRight, Entering, Leaving, Removing, WalkIsRight
<1> QED BY <1>2, <1>3, <1>5, <1>6, <1>7, SilentStep

LEMMA SetGoneStep ==
  ASSUME StepsInv, SetGone, UNCHANGED current_task, ran' = TRUE
  PROVE  StepsInv' /\ UNCHANGED Atomic!vars
<1>1. /\ frame.pc = "set_gone" /\ UNCHANGED <<task_count, next, ready_head>>
      /\ state' = [state EXCEPT ![frame.t] = IF frame.op = "exit" THEN "unused" ELSE "blocked"]
  BY DEF SetGone, At
<1>2. absState = state' /\ absNext = next /\ absHead = ready_head
  BY <1>1 DEF absState, absNext, absHead, Inserting, Removed, At
<1>3. TypeOK'
  BY <1>1, <1>2 DEF StepsInv, StepsTypeOK, TypeOK, Sound
<1>4. ASSUME NEW o, NEW l, NEW t, NEW p, FrameBecomes(o, l, t, p), l \in {"idle", "spin"},
             l = "idle" => o = "none", o # "exit" => frame.op # "exit"
      PROVE  StepsInv' /\ UNCHANGED Atomic!vars
  <2>1. frame'.pc \in {"idle", "spin"}
    BY <1>4 DEF FrameBecomes
  <2>2. UNCHANGED <<task_count, absState, absNext, absHead>>
    BY <1>1, <1>2, <2>1, FutureIsPresentAfter DEF Untouched
  <2>3. CallIsRight'
    BY <2>1 DEF CallIsRight, Entering, Leaving, Removing, WalkIsRight
  <2> QED BY <1>3, <1>4, <2>2, <2>3, SilentStep
<1>5. CASE frame.op = "exit"
  <2>1. FrameBecomes(frame.op, "spin", frame.t, frame.ptr)
    BY <1>5, GotoMoves DEF SetGone, StepsInv, Labels
  <2> QED BY <1>4, <1>5, <2>1
<1>6. CASE frame.op # "exit"
  <2>1. FrameBecomes("none", "idle", NULL, NULL)
    BY <1>6, ReturnMoves DEF SetGone, StepsInv
  <2> QED BY <1>4, <1>6, <2>1
<1> QED BY <1>5, <1>6

(* The CPU changes hands when nobody is in a call. *)
LEMMA SwitchStep ==
  ASSUME StepsInv, ~InCall(current_task), ran' = FALSE, UNCHANGED <<call, task_count>>,
         IInv => IInv', \A c \in Tasks : state[c] # "unused" => state'[c] # "unused"
  PROVE  /\ StepsInv'
         /\ absState = state /\ absNext = next /\ absHead = ready_head
         /\ absState' = state' /\ absNext' = next' /\ absHead' = ready_head'
<1>1. \A c \in Callers : ~InCall(c)
  BY DEF StepsInv, OthersAreOut
<1>2. frame.pc \in {"idle", "spin"}
  BY DEF InCall, frame
<1>3. absState = state /\ absNext = next /\ absHead = ready_head
  BY <1>2, FutureIsPresent DEF Untouched
<1>4. IInv
  BY <1>3, IInvIsSound DEF StepsInv
<1>5. IInv' /\ TypeOK'
  BY <1>4 DEF IInv
<1>6. frame'.pc \in {"idle", "spin"}
  BY <1>1, <1>5 DEF TypeOK, Callers, InCall, frame
<1>7. absState' = state' /\ absNext' = next' /\ absHead' = ready_head'
  BY <1>6, FutureIsPresentAfter DEF Untouched
<1>8. Sound(task_count', absState', absNext', absHead', current_task')
  BY <1>5, <1>7, IInvIsSoundAfter
<1>9. StepsTypeOK'
  BY <1>5 DEF StepsInv, StepsTypeOK
<1>10. CallIsRight'
  BY <1>6 DEF CallIsRight, Entering, Leaving, Removing, WalkIsRight
<1>11. OthersAreOut'
  <2>1. \A c \in Callers \ {current_task'} : ~InCall(c)'
    BY <1>1 DEF InCall
  <2>2. \A c \in Callers : call'[c].pc = "idle" => call'[c].op = "none"
    BY DEF StepsInv, OthersAreOut
  <2>3. \A c \in 1..task_count' : call'[c].op # "exit" => absState'[c] # "unused"
    <3>1. \A c \in 1..task_count : c \in Tasks
      BY DEF StepsInv, StepsTypeOK, TypeOK, Tasks
    <3> QED BY <1>3, <1>7, <3>1 DEF StepsInv, OthersAreOut
  <2> QED BY <2>1, <2>2, <2>3 DEF OthersAreOut
<1> QED BY <1>3, <1>7, <1>8, <1>9, <1>10, <1>11 DEF StepsInv

LEMMA StartStep == ASSUME StepsInv, StartFirst PROVE StepsInv' /\ Atomic!OS_Start
<1>1. ~InCall(current_task) /\ OS_Start /\ ran' = FALSE /\ UNCHANGED <<call, task_count>>
  BY DEF StartFirst, At, frame, InCall, OS_Start, Dispatch
<1>2. \A c \in Tasks : state[c] # "unused" => state'[c] # "unused"
  BY <1>1 DEF OS_Start, Dispatch, StepsInv, StepsTypeOK, TypeOK
<1>3. /\ StepsInv'
      /\ absState = state /\ absNext = next /\ absHead = ready_head
      /\ absState' = state' /\ absNext' = next' /\ absHead' = ready_head'
  BY <1>1, <1>2, StartPreserves, SwitchStep
<1>4. Atomic!OS_Start
  BY <1>1, <1>3, AtomicNames
     DEF OS_Start, Dispatch, Started, Atomic!OS_Start, Atomic!Dispatch, Atomic!Started
<1> QED BY <1>3, <1>4

LEMMA TickStep ==
  ASSUME StepsInv, TickBetween, ~halfway' PROVE StepsInv' /\ Atomic!OS_TickISR
<1>1. ~InCall(current_task) /\ OS_TickISR /\ ran' = FALSE /\ UNCHANGED <<call, task_count>>
  BY DEF TickBetween, OS_TickISR, OS_Schedule, Dispatch, vars
<1>2. \A c \in Tasks : state[c] # "unused" => state'[c] # "unused"
  <2>1. CASE ready_head = NULL
    BY <1>1, <2>1 DEF OS_TickISR, OS_Schedule, vars
  <2>2. CASE ready_head # NULL
    BY <1>1, <2>2 DEF OS_TickISR, OS_Schedule, Dispatch, Preempted, StepsInv, StepsTypeOK, TypeOK,
                      TaskStates
  <2> QED BY <2>1, <2>2
<1>3. /\ StepsInv'
      /\ absState = state /\ absNext = next /\ absHead = ready_head
      /\ absState' = state' /\ absNext' = next' /\ absHead' = ready_head'
  BY <1>1, <1>2, TickPreserves, SwitchStep
<1>4. Atomic!OS_TickISR
  <2>1. CASE ready_head = NULL
    BY <1>1, <1>3, <2>1, AtomicNames
       DEF OS_TickISR, OS_Schedule, vars, Started, Atomic!OS_TickISR, Atomic!OS_Schedule,
           Atomic!vars, Atomic!Started
  <2>2. CASE ready_head # NULL
    BY <1>1, <1>3, <2>2, AtomicNames
       DEF OS_TickISR, OS_Schedule, Dispatch, Preempted, Started, Atomic!OS_TickISR,
           Atomic!OS_Schedule, Atomic!Dispatch, Atomic!Preempted, Atomic!Started
  <2> QED BY <2>1, <2>2
<1> QED BY <1>3, <1>4

LEMMA NothingChanges ==
  ASSUME StepsInv, UNCHANGED stepsVars
  PROVE  StepsInv' /\ UNCHANGED Atomic!vars
<1>1. UNCHANGED <<task_count, state, next, ready_head, current_task, call, ran>>
  BY DEF stepsVars, vars
<1>2. frame' = frame
  BY <1>1 DEF frame
<1>3. UNCHANGED <<Inserting, Removed, Removing, Entering, Leaving>>
  BY <1>2 DEF Inserting, Removed, Removing, Entering, Leaving
<1>4. UNCHANGED <<absState, absNext, absHead>>
  <2>1. Pred(ready_head)' = Pred(ready_head)
    BY <1>1 DEF Pred
  <2> QED BY <1>1, <1>2, <1>3, <2>1 DEF absState, absNext, absHead, At
<1>5. CallIsRight'
  <2>1. WalkIsRight'
    BY <1>1, <1>2 DEF StepsInv, CallIsRight, WalkIsRight, Passed
  <2> QED
    BY <1>1, <1>2, <1>3, <2>1 DEF StepsInv, CallIsRight, InsertionIsDue, RemovalIsDue
<1>6. OthersAreOut' /\ StepsTypeOK'
  BY <1>1, <1>4 DEF StepsInv, OthersAreOut, InCall, StepsTypeOK, TypeOK
<1> QED BY <1>1, <1>4, <1>5, <1>6, AtomicNames DEF StepsInv, Atomic!vars

LEMMA StatementStep == ASSUME StepsInv, Statement PROVE StepsInv' /\ [Atomic!Next]_Atomic!vars
<1>1. UNCHANGED current_task /\ ran' = TRUE
  BY DEF Statement
<1>2. CASE TakeSlot
  BY <1>1, <1>2, TakeSlotStep
<1>3. CASE BumpCount
  BY <1>1, <1>3, CreateTakesEffect DEF Atomic!Next
<1>4. CASE SetReady
  BY <1>1, <1>4, SetReadyStep DEF Atomic!Next
<1>5. CASE InsertBegin
  BY <1>1, <1>5, InsertBeginStep
<1>6. CASE LinkSelf \/ LinkTask
  BY <1>1, <1>6, LinkStep
<1>7. CASE FindTail
  BY <1>1, <1>7, FindTailStep
<1>8. CASE LinkTail
  BY <1>1, <1>8, LinkTailStep
<1>9. CASE RemoveBegin
  BY <1>1, <1>9, RemoveBeginStep DEF Atomic!Next
<1>10. CASE UnlinkOnly
  BY <1>1, <1>10, UnlinkOnlyStep DEF Atomic!Next
<1>11. CASE FindPrev
  BY <1>1, <1>11, FindPrevStep
<1>12. CASE LapDone
  BY <1>1, <1>12, LapDoneStep DEF Atomic!Next
<1>13. CASE Unlink
  BY <1>1, <1>13, UnlinkStep DEF Atomic!Next
<1>14. CASE MoveHead
  BY <1>1, <1>14, MoveHeadStep
<1>15. CASE ClearNext
  BY <1>1, <1>15, ClearNextStep
<1>16. CASE SetGone
  BY <1>1, <1>16, SetGoneStep
<1> QED
  BY <1>2, <1>3, <1>4, <1>5, <1>6, <1>7, <1>8, <1>9, <1>10, <1>11, <1>12, <1>13, <1>14, <1>15,
     <1>16 DEF Statement

LEMMA StepsPreserve ==
  ASSUME StepsInv, [StepsNext]_stepsVars, ~halfway'
  PROVE  StepsInv' /\ [Atomic!Next]_Atomic!vars
<1>1. CASE CallCreate
  BY <1>1, CreateIsEntered
<1>2. ASSUME NEW t \in 1..task_count, CallBlock(t) PROVE StepsInv' /\ UNCHANGED Atomic!vars
  BY <1>2, RemovalIsEntered DEF CallBlock
<1>3. ASSUME NEW t \in 1..task_count, CallWake(t) PROVE StepsInv' /\ UNCHANGED Atomic!vars
  BY <1>3, WakeIsEntered
<1>4. CASE CallExit
  BY <1>4, ExitIsEntered
<1>5. CASE Statement
  BY <1>5, StatementStep
<1>6. CASE StartFirst
  BY <1>6, StartStep DEF Atomic!Next
<1>7. CASE TickBetween
  BY <1>7, TickStep DEF Atomic!Next
<1>8. CASE UNCHANGED stepsVars
  BY <1>8, NothingChanges
<1> QED
  BY <1>1, <1>2, <1>3, <1>4, <1>5, <1>6, <1>7, <1>8 DEF StepsNext

LEMMA StepsBegin == ASSUME StepsInit PROVE StepsInv /\ Atomic!OS_Init
<1>1. OS_Init /\ call = [c \in Callers |-> NoCall] /\ ran = FALSE
  BY DEF StepsInit
<1>2. IInv
  BY <1>1, InitEstablishes
<1>3. \A c \in Callers : call[c] = NoCall
  BY <1>1
<1>4. frame = NoCall /\ frame.pc = "idle"
  BY <1>1, <1>3 DEF frame, OS_Init, Callers, NoCall
<1>5. absState = state /\ absNext = next /\ absHead = ready_head
  BY <1>4, FutureIsPresent DEF Untouched
<1>6. StepsTypeOK
  BY <1>1, <1>2 DEF IInv, StepsTypeOK, NoCall, Labels, Callers
<1>7. CallIsRight
  BY <1>4 DEF CallIsRight, Entering, Leaving, Removing, WalkIsRight
<1>8. OthersAreOut
  BY <1>1, <1>3 DEF OthersAreOut, InCall, NoCall, OS_Init
<1>9. Atomic!OS_Init
  BY <1>1, <1>5, AtomicNames DEF OS_Init, Atomic!OS_Init
<1> QED BY <1>2, <1>5, <1>6, <1>7, <1>8, <1>9, IInvIsSound DEF StepsInv

(* A task that lost the CPU in the middle of a call is not forgotten, and   *)
(* it takes a tick to take it away: before OS_Start there is none.          *)
LEMMA HalfwayStays ==
  ASSUME [StepsNext]_stepsVars
  PROVE  /\ halfway => halfway'
         /\ halfway' # halfway => Started
         /\ Started => Started'
<1>1. CASE TickBetween
  <2>1. halfway' = (halfway \/ InCall(current_task)) /\ OS_TickISR
    BY <1>1 DEF TickBetween
  <2>2. Started /\ Started'
    BY <2>1 DEF OS_TickISR, OS_Schedule, Dispatch, Started, vars
  <2> QED BY <2>1, <2>2
<1>2. CASE StartFirst
  BY <1>2 DEF StartFirst, OS_Start, Dispatch, Started
<1>3. CASE CallCreate \/ CallExit \/ \E t \in 1..task_count : CallBlock(t) \/ CallWake(t)
  BY <1>3 DEF CallCreate, CallExit, CallBlock, CallWake, Enter, Started
<1>4. CASE Statement
  BY <1>4 DEF Statement, Started
<1>5. CASE UNCHANGED stepsVars
  BY <1>5 DEF stepsVars, vars, Started
<1> QED BY <1>1, <1>2, <1>3, <1>4, <1>5 DEF StepsNext

UntilHalfway == (halfway => Started) /\ (~halfway => StepsInv)

(* Until a task loses the CPU in the middle of a call, what the call under  *)
(* way will leave is a sound list and sound states, statement after         *)
(* statement.                                                               *)
THEOREM StepsInvariant == StepsSpec => []UntilHalfway
<1>1. UntilHalfway /\ [StepsNext]_stepsVars => UntilHalfway'
  BY StepsPreserve, HalfwayStays DEF UntilHalfway
<1>2. StepsInit => UntilHalfway
  BY StepsBegin DEF StepsInit, UntilHalfway
<1> QED BY <1>1, <1>2, PTL DEF StepsSpec

(* scheduler.c:15-20: as long as no tick has come in the middle of a call,  *)
(* no task that is marked ready is off the list that the tick follows from  *)
(* ready_head.  The run of NoTaskStranded shows that one such tick is       *)
(* enough to put one off it.                                                *)
THEOREM NobodyIsStranded == StepsSpec => [](~halfway => NoTaskStranded)
<1>1. ASSUME StepsInv PROVE NoTaskStranded
  <2> SUFFICES ASSUME NEW t \in Tasks \ {current_task}, state[t] \in {"ready", "running"},
                      \A c \in Callers \ {t} : ~InCall(c),
                      NEW S \in SUBSET Callers, ready_head \in S,
                      \A u \in S \ {NULL} : next[u] \in S
               PROVE  t \in S
    BY DEF NoTaskStranded, OnRing
  <2>1. frame.pc \in {"idle", "spin"}
    BY <1>1, FramesAreTyped DEF StepsInv, InCall, frame
  <2>2. RightlyQueued(state, next, ready_head)
    BY <1>1, <2>1, FutureIsPresent DEF Untouched, StepsInv, Sound
  <2>3. t \in Chain(next) /\ ready_head \in Chain(next)
    BY <2>2 DEF RightlyQueued, HeadIsOn
  <2> DEFINE R == S \cap Chain(next)
  <2>4. R \in SUBSET Chain(next) /\ R # {}
    BY <2>3
  <2>5. \A u \in R : next[u] \in R
    BY <2>2 DEF RightlyQueued, OneCycle, Chain, Tasks, NULL
  <2>6. R = Chain(next)
    BY <2>2, <2>4, <2>5 DEF RightlyQueued, OneCycle
  <2> QED BY <2>3, <2>6
<1>2. UntilHalfway => (~halfway => NoTaskStranded)
  BY <1>1 DEF UntilHalfway
<1> QED BY <1>2, StepsInvariant, PTL

(* OS_TaskCreate as the boot code calls it, before OS_Start arms the first  *)
(* tick: whatever happens later, it leaves one cycle of exactly the tasks   *)
(* that are ready.                                                          *)
THEOREM BootBuildsTheList ==
  StepsSpec => [](~Started /\ ~InCall(current_task) => QueueHoldsTheRunnable /\ ListIsOneCycle)
<1>1. ASSUME UntilHalfway, ~Started, ~InCall(current_task)
      PROVE  QueueHoldsTheRunnable /\ ListIsOneCycle
  <2>1. StepsInv /\ frame.pc \in {"idle", "spin"}
    BY <1>1 DEF UntilHalfway, InCall, frame
  <2>2. IInv
    BY <2>1, FutureIsPresent, IInvIsSound DEF Untouched, StepsInv
  <2> QED BY <2>2 DEF IInv
<1> QED BY <1>1, StepsInvariant, PTL

(* The loops, early returns and pointer writes of scheduler.c:26-208, taken *)
(* together, do what the one-step functions of Scheduler.tla say, up to the *)
(* first tick in the middle of a call; every theorem about those holds of   *)
(* the statements until then.                                               *)
THEOREM StepsImplementScheduler == StepsSpec => ImplementsSchedulerUntilHalfway
<1>1. UntilHalfway /\ [StepsNext]_stepsVars
        => [halfway' \/ Atomic!Next \/ UNCHANGED Atomic!vars]_stepsVars
  BY StepsPreserve, HalfwayStays DEF UntilHalfway
<1>2. StepsInit => Atomic!OS_Init
  BY StepsBegin
<1> QED BY <1>1, <1>2, StepsInvariant, PTL DEF StepsSpec, ImplementsSchedulerUntilHalfway

-----------------------------------------------------------------------------
(* SchedulerSteps.tla with ticks anywhere: whatever they do to the list,    *)
(* every call that was interrupted still holds pointers into the pool.      *)

HoldsTasks(f) ==
  /\ f.pc \notin {"idle", "take"} => f.t \in Tasks
  /\ f.pc \in {"link_tail", "unlink"} => f.ptr \in Tasks

PointersAreGood == StepsTypeOK /\ \A c \in Callers : HoldsTasks(call[c])

LEMMA PointersStayGood ==
  ASSUME PointersAreGood, UNCHANGED current_task, ran' \in BOOLEAN, TypeOK',
         NEW o, NEW l, NEW t, NEW p, FrameBecomes(o, l, t, p),
         l \notin {"idle", "take"} => t \in Tasks,
         l \in {"link_tail", "unlink"} => p \in Tasks
  PROVE  PointersAreGood'
<1>1. StepsTypeOK'
  BY DEF StepsTypeOK, FrameBecomes, Frames
<1>2. ASSUME NEW c \in Callers PROVE HoldsTasks(call'[c])
  <2>1. CASE c = current_task
    BY <2>1 DEF FrameBecomes, HoldsTasks
  <2>2. CASE c # current_task
    BY <2>2 DEF FrameBecomes, PointersAreGood
  <2> QED BY <2>1, <2>2
<1> QED BY <1>1, <1>2 DEF PointersAreGood

LEMMA CallEntersWell ==
  ASSUME PointersAreGood, NEW o \in {"create", "block", "wake", "exit"}, NEW t \in Callers,
         NEW l \in {"take", "remove", "set_ready"}, Enter(o, t, l), l # "take" => t \in Tasks
  PROVE  PointersAreGood'
<1> DEFINE v == [op |-> o, pc |-> l, t |-> t, ptr |-> NULL]
<1>1. UNCHANGED <<current_task, task_count, state, next, ready_head>> /\ ran' = TRUE
      /\ call' = [call EXCEPT ![current_task] = v]
  BY DEF Enter, shared
<1>2. v \in Frames /\ v.op = o /\ v.pc = l /\ v.t = t /\ v.ptr = NULL
  BY FramesAreTyped DEF Frames, PointersAreGood, Labels
<1> HIDE DEF v
<1>3. FrameBecomes(o, l, t, NULL)
  BY <1>1, <1>2, FrameChanges DEF PointersAreGood
<1>4. TypeOK'
  BY <1>1 DEF PointersAreGood, StepsTypeOK, TypeOK
<1> QED BY <1>1, <1>3, <1>4, PointersStayGood

LEMMA StatementIsTyped == ASSUME PointersAreGood, Statement PROVE PointersAreGood'
<1>1. UNCHANGED current_task /\ ran' \in BOOLEAN
  BY DEF Statement
<1>2. StepsTypeOK /\ frame \in Frames /\ NULL \in Callers /\ HoldsTasks(frame)
  BY FramesAreTyped DEF PointersAreGood, frame
<1>3. /\ task_count \in 0..OS_MAX_TASKS /\ state \in [Tasks -> TaskStates]
      /\ next \in [Tasks -> Callers] /\ ready_head \in Callers /\ current_task \in Callers
      /\ frame.t \in Callers /\ frame.ptr \in Callers
  BY <1>2 DEF StepsTypeOK, TypeOK, Callers, Frames
<1>4. ASSUME NEW o, NEW l, NEW t, NEW p, FrameBecomes(o, l, t, p),
             task_count' \in 0..OS_MAX_TASKS, state' \in [Tasks -> TaskStates],
             next' \in [Tasks -> Callers], ready_head' \in Callers,
             l \notin {"idle", "take"} => t \in Tasks, l \in {"link_tail", "unlink"} => p \in Tasks
      PROVE  PointersAreGood'
  <2>1. TypeOK'
    BY <1>1, <1>3, <1>4 DEF TypeOK, Callers
  <2> QED BY <1>1, <1>4, <2>1, PointersStayGood
<1>5. CASE TakeSlot
  <2> DEFINE v == [frame EXCEPT !.pc = "bump", !.t = task_count + 1]
  <2>1. task_count + 1 \in Tasks /\ task_count + 1 \in Callers
    BY <1>3, <1>5 DEF TakeSlot, Tasks, Callers
  <2>2. v \in Frames /\ v.pc = "bump" /\ v.t = task_count + 1
    BY <1>2, <2>1 DEF Frames, Labels
  <2>3. call' = [call EXCEPT ![current_task] = v]
    BY <1>2, <1>5, FramesAreTyped DEF TakeSlot, frame
  <2> HIDE DEF v
  <2>4. FrameBecomes(v.op, v.pc, v.t, v.ptr)
    BY <1>1, <1>2, <2>2, <2>3, FrameChanges
  <2> QED BY <1>3, <1>4, <1>5, <2>1, <2>2, <2>4 DEF TakeSlot, shared
<1>6. CASE BumpCount
  <2>1. FrameBecomes(frame.op, "set_ready", frame.t, frame.ptr)
    BY <1>1, <1>2, <1>6, GotoMoves DEF BumpCount, Labels
  <2>2. frame.t \in Tasks /\ frame.t \in 0..OS_MAX_TASKS
    BY <1>2, <1>6 DEF BumpCount, At, HoldsTasks, Tasks
  <2> QED BY <1>3, <1>4, <1>6, <2>1, <2>2, FramesAreTyped DEF BumpCount, Callers
<1>7. CASE SetReady
  <2>1. FrameBecomes(frame.op, "insert", frame.t, frame.ptr)
    BY <1>1, <1>2, <1>7, GotoMoves DEF SetReady, Labels
  <2> QED BY <1>2, <1>3, <1>4, <1>7, <2>1 DEF SetReady, At, HoldsTasks, TaskStates
<1>8. CASE InsertBegin
  <2>1. frame.t \in Tasks
    BY <1>2, <1>8 DEF InsertBegin, At, HoldsTasks
  <2>2. CASE ready_head = NULL
    <3>1. FrameBecomes(frame.op, "link_self", frame.t, frame.ptr)
      BY <1>1, <1>2, <1>8, <2>2, GotoMoves DEF InsertBegin, Labels
    <3> QED BY <1>3, <1>4, <1>8, <2>1, <2>2, <3>1 DEF InsertBegin
  <2>3. CASE ready_head # NULL
    <3>1. FrameBecomes(frame.op, "find_tail", frame.t, ready_head)
      BY <1>1, <1>2, <1>3, <1>8, <2>3, GotoWithMoves DEF InsertBegin, Labels
    <3> QED BY <1>3, <1>4, <1>8, <2>1, <2>3, <3>1 DEF InsertBegin
  <2> QED BY <2>2, <2>3
<1>9. CASE LinkSelf \/ LinkTask
  <2>1. FrameBecomes("none", "idle", NULL, NULL)
    BY <1>1, <1>2, <1>9, ReturnMoves DEF LinkSelf, LinkTask
  <2>2. next' \in [Tasks -> Callers]
    BY <1>3, <1>9 DEF LinkSelf, LinkTask
  <2> QED BY <1>3, <1>4, <1>9, <2>1, <2>2 DEF LinkSelf, LinkTask
<1>10. CASE FindTail
  <2>1. frame.t \in Tasks /\ frame.ptr \in Tasks /\ next[frame.ptr] \in Callers
    BY <1>2, <1>3, <1>10 DEF FindTail, At, HoldsTasks, Callers
  <2>2. \/ FrameBecomes(frame.op, "find_tail", frame.t, next[frame.ptr])
        \/ FrameBecomes(frame.op, "link_tail", frame.t, frame.ptr)
    BY <1>1, <1>2, <1>10, <2>1, GotoMoves, GotoWithMoves DEF FindTail, Labels
  <2> QED BY <1>3, <1>4, <1>10, <2>1, <2>2 DEF FindTail, shared
<1>11. CASE LinkTail
  <2>1. FrameBecomes(frame.op, "link_t", frame.t, frame.ptr)
    BY <1>1, <1>2, <1>11, GotoMoves DEF LinkTail, Labels
  <2> QED BY <1>2, <1>3, <1>4, <1>11, <2>1 DEF LinkTail, At, HoldsTasks
<1>12. CASE RemoveBegin
  <2>1. frame.t \in Tasks
    BY <1>2, <1>12 DEF RemoveBegin, At, HoldsTasks
  <2>2. \/ FrameBecomes(frame.op, "set_gone", frame.t, frame.ptr)
        \/ FrameBecomes(frame.op, "unlink_only", frame.t, frame.ptr)
        \/ FrameBecomes(frame.op, "find_prev", frame.t, ready_head)
    BY <1>1, <1>2, <1>3, <1>12, GotoMoves, GotoWithMoves DEF RemoveBegin, Labels
  <2> QED BY <1>3, <1>4, <1>12, <2>1, <2>2 DEF RemoveBegin, shared
<1>13. CASE UnlinkOnly
  <2>1. FrameBecomes(frame.op, "clear", frame.t, frame.ptr)
    BY <1>1, <1>2, <1>13, GotoMoves DEF UnlinkOnly, Labels
  <2> QED BY <1>2, <1>3, <1>4, <1>13, <2>1 DEF UnlinkOnly, At, HoldsTasks
<1>14. CASE FindPrev
  <2>1. frame.t \in Tasks /\ frame.ptr \in Tasks /\ next[frame.ptr] \in Callers
    BY <1>2, <1>3, <1>14 DEF FindPrev, At, HoldsTasks, Callers
  <2>2. \/ FrameBecomes(frame.op, "lap", frame.t, next[frame.ptr])
        \/ FrameBecomes(frame.op, "unlink", frame.t, frame.ptr)
    BY <1>1, <1>2, <1>14, <2>1, GotoMoves, GotoWithMoves DEF FindPrev, Labels
  <2> QED BY <1>3, <1>4, <1>14, <2>1, <2>2 DEF FindPrev, shared
<1>15. CASE LapDone
  <2>1. \/ FrameBecomes(frame.op, "set_gone", frame.t, frame.ptr)
        \/ FrameBecomes(frame.op, "find_prev", frame.t, frame.ptr)
    BY <1>1, <1>2, <1>15, GotoMoves DEF LapDone, Labels
  <2> QED BY <1>2, <1>3, <1>4, <1>15, <2>1 DEF LapDone, At, HoldsTasks, shared
<1>16. CASE Unlink
  <2>1. FrameBecomes(frame.op, "move_head", frame.t, frame.ptr)
    BY <1>1, <1>2, <1>16, GotoMoves DEF Unlink, Labels
  <2> QED BY <1>2, <1>3, <1>4, <1>16, <2>1 DEF Unlink, At, HoldsTasks
<1>17. CASE MoveHead
  <2>1. FrameBecomes(frame.op, "clear", frame.t, frame.ptr)
    BY <1>1, <1>2, <1>17, GotoMoves DEF MoveHead, Labels
  <2> QED BY <1>2, <1>3, <1>4, <1>17, <2>1 DEF MoveHead, At, HoldsTasks
<1>18. CASE ClearNext
  <2>1. FrameBecomes(frame.op, "set_gone", frame.t, frame.ptr)
    BY <1>1, <1>2, <1>18, GotoMoves DEF ClearNext, Labels
  <2> QED BY <1>2, <1>3, <1>4, <1>18, <2>1 DEF ClearNext, At, HoldsTasks
<1>19. CASE SetGone
  <2>1. frame.t \in Tasks
    BY <1>2, <1>19 DEF SetGone, At, HoldsTasks
  <2>2. \/ FrameBecomes(frame.op, "spin", frame.t, frame.ptr)
        \/ FrameBecomes("none", "idle", NULL, NULL)
    BY <1>1, <1>2, <1>19, GotoMoves, ReturnMoves DEF SetGone, Labels
  <2>3. state' \in [Tasks -> TaskStates]
    BY <1>3, <1>19 DEF SetGone, TaskStates
  <2> QED BY <1>3, <1>4, <1>19, <2>1, <2>2, <2>3 DEF SetGone
<1> QED
  BY <1>5, <1>6, <1>7, <1>8, <1>9, <1>10, <1>11, <1>12, <1>13, <1>14, <1>15, <1>16, <1>17, <1>18,
     <1>19 DEF Statement

LEMMA SwitchIsTyped ==
  ASSUME PointersAreGood, StartFirst \/ TickBetween PROVE PointersAreGood'
<1>1. call' = call /\ ran' = FALSE
  BY DEF StartFirst, TickBetween
<1>2. TypeOK
  BY DEF PointersAreGood, StepsTypeOK
<1>3. UNCHANGED vars \/ (ready_head # NULL /\ (Dispatch(state) \/ (Started /\ Dispatch(Preempted))))
  BY DEF StartFirst, TickBetween, OS_Start, OS_TickISR, OS_Schedule
<1>4. Started => Preempted \in [Tasks -> TaskStates]
  BY <1>2 DEF TypeOK, Preempted, TaskStates, Started
<1>5. TypeOK'
  BY <1>2, <1>3, <1>4 DEF TypeOK, Dispatch, TaskStates, vars
<1> QED BY <1>1, <1>5 DEF PointersAreGood, StepsTypeOK

(* Type correctness of the statements, with ticks anywhere: a call that was *)
(* interrupted and comes back to a list that others have changed still      *)
(* reads and writes TCBs of the pool only.  The model stops at the NULL at  *)
(* which a walk of ready_insert or ready_remove falls off a cut list        *)
(* (scheduler.c:26-66), and before the TCB behind the pool that a second    *)
(* interrupted OS_TaskCreate may take (scheduler.c:119-122).                *)
THEOREM StepsTypeCorrect == StepsSpec => []PointersAreGood
<1>1. StepsInit => PointersAreGood
  <2> SUFFICES ASSUME StepsInit PROVE PointersAreGood
    OBVIOUS
  <2>1. StepsTypeOK
    BY StepsBegin DEF StepsInv
  <2>2. \A c \in Callers : call[c] = NoCall
    BY DEF StepsInit
  <2> QED BY <2>1, <2>2 DEF PointersAreGood, HoldsTasks, NoCall
<1>2. PointersAreGood /\ [StepsNext]_stepsVars => PointersAreGood'
  <2> SUFFICES ASSUME PointersAreGood, [StepsNext]_stepsVars PROVE PointersAreGood'
    OBVIOUS
  <2>1. NULL \in Callers /\ current_task \in Callers /\ task_count \in 0..OS_MAX_TASKS
    BY FramesAreTyped DEF PointersAreGood, StepsTypeOK, TypeOK
  <2>2. CASE CallCreate
    BY <2>1, <2>2, CallEntersWell DEF CallCreate
  <2>3. ASSUME NEW t \in 1..task_count, CallBlock(t) \/ CallWake(t) PROVE PointersAreGood'
    <3>1. t \in Tasks /\ t \in Callers
      BY <2>1 DEF Tasks, Callers
    <3> QED BY <2>3, <3>1, CallEntersWell DEF CallBlock, CallWake
  <2>4. CASE CallExit
    <3>1. current_task \in Tasks
      BY <2>1, <2>4 DEF CallExit, Callers
    <3> QED BY <2>1, <2>4, <3>1, CallEntersWell DEF CallExit
  <2>5. CASE Statement
    BY <2>5, StatementIsTyped
  <2>6. CASE StartFirst \/ TickBetween
    BY <2>6, SwitchIsTyped
  <2>7. CASE UNCHANGED stepsVars
    BY <2>7 DEF stepsVars, vars, PointersAreGood, StepsTypeOK, TypeOK, HoldsTasks
  <2> QED BY <2>2, <2>3, <2>4, <2>5, <2>6, <2>7 DEF StepsNext
<1> QED BY <1>1, <1>2, PTL DEF StepsSpec

-----------------------------------------------------------------------------
(* ContextSwitch.tla.                                                       *)

(* What makes the properties inductive.  A handler has its own task's stack *)
(* under it, with the way back on it, wherever a tick can come without      *)
(* tearing it; once it has stored A7 the TCB points there, and from the     *)
(* choice of a task until the load of A7 every TCB does.                    *)
HandlerIsRight ==
  /\ cpu.pc \in {"save", "schedule", "return"} =>
       a7.of = current_task /\ LeadsBack(current_task, a7.n)
  /\ cpu.pc = "schedule" => sp[current_task] = a7
  /\ cpu.pc = "load" => Saved(current_task)

TasksHaveRoom ==
  \A t \in 1..task_count :
    left[t].a7.of = t /\ left[t].a7.n + 1 \in 1..Depth /\ left[t].ctx.pc = "user"

OthersAreSaved == \A t \in 1..task_count \ {current_task} : Saved(t)

Whole ==
  /\ Depth \in Nat \ {0}
  /\ SwitchTypeOK /\ TasksHaveRoom
  /\ HandlerIsRight /\ ResumesWhereItLeft /\ OthersAreSaved

HandlersComeLater == cpu.pc # "user" => Started

SwitchInv == IInv /\ HandlersComeLater /\ (~torn => Whole)

(* The switch leaves the scheduler's own state to the scheduler. *)
LEMMA StepsAreSchedulerSteps ==
  ASSUME HandlersComeLater, [SwitchNext]_switchVars PROVE [Next]_vars
<1>1. CASE Create
  BY <1>1 DEF Create, Next
<1>2. CASE Start
  BY <1>2 DEF Start, Next
<1>3. CASE Exit
  BY <1>3 DEF Exit, Next
<1>4. CASE \E t \in 1..task_count : BlockOrWake(t)
  BY <1>4 DEF BlockOrWake, Next
<1>5. CASE Schedule
  BY <1>5 DEF Schedule, Next, OS_TickISR, HandlersComeLater
<1>6. CASE CallFunction \/ LeaveFunction \/ Mask(MASKED) \/ Mask(OPEN) \/ OS_Yield \/ Tick
           \/ Save \/ Load \/ Return \/ UNCHANGED switchVars
  BY <1>6 DEF CallFunction, LeaveFunction, Mask, OS_Yield, Tick, Push, Save, Load, Return,
              switchVars
<1> QED
  BY <1>1, <1>2, <1>3, <1>4, <1>5, <1>6 DEF SwitchNext, Handler

LEMMA SchedulerPartIsKept ==
  ASSUME IInv, HandlersComeLater, [SwitchNext]_switchVars PROVE IInv'
<1>1. [Next]_vars
  BY StepsAreSchedulerSteps
<1> QED
  BY <1>1, NextPreserves

-----------------------------------------------------------------------------
(* One lemma for each kind of step: nothing but the switch moves the stack  *)
(* pointer from one stack to another.                                       *)

LEMMA CurrentIsCreated ==
  ASSUME IInv, Started PROVE current_task \in 1..task_count /\ current_task \in Tasks
BY DEF IInv, TypeOK, OnlyCurrentRuns, Created, Started, Tasks, NULL

LEMMA OffCpu ==
  ASSUME IInv, OthersAreSaved, NEW t \in 1..task_count \ {current_task}
  PROVE  t \in Tasks /\ Saved(t)
<1>1. t \in Tasks
  <2>1. t \in 1..task_count /\ task_count \in 0..OS_MAX_TASKS
    BY DEF IInv, TypeOK
  <2> QED
    BY <2>1 DEF Tasks
<1>2. Saved(t)
  BY DEF OthersAreSaved
<1> QED
  BY <1>1, <1>2

LEMMA StackWrite ==
  ASSUME NEW m \in [Tasks -> [1..Depth -> Contexts]],
         NEW t \in Tasks, NEW i \in 1..Depth, NEW x \in Contexts
  PROVE  /\ [m EXCEPT ![t][i] = x] \in [Tasks -> [1..Depth -> Contexts]]
         /\ [m EXCEPT ![t][i] = x][t][i] = x
         /\ \A u \in Tasks \ {t} : [m EXCEPT ![t][i] = x][u] = m[u]
OBVIOUS

LEMMA FirstContexts == Boot \in Contexts /\ \A t \in Tasks : Fresh(t) \in Contexts
BY DEF Boot, Fresh, Contexts, Places

(* The way back of a task depends on its own stack and on where it left.    *)
LEMMA SavedStays ==
  ASSUME NEW t, Saved(t), left'[t] = left[t], stack'[t] = stack[t], sp'[t] = sp[t]
  PROVE  Saved(t)'
BY DEF Saved, LeadsBack

LEMMA OthersStaySaved ==
  ASSUME IInv, Whole, NEW c \in Tasks, c = current_task, UNCHANGED <<current_task, task_count>>,
         \A t \in Tasks \ {c} : left'[t] = left[t] /\ stack'[t] = stack[t] /\ sp'[t] = sp[t]
  PROVE  OthersAreSaved'
<1> SUFFICES ASSUME NEW t \in 1..task_count \ {c} PROVE Saved(t)'
  BY DEF OthersAreSaved
<1>1. t \in Tasks /\ Saved(t)
  BY OffCpu DEF Whole
<1> QED
  BY <1>1, SavedStays

LEMMA TaskStepPreserves ==
  ASSUME IInv, Whole, CallFunction \/ LeaveFunction \/ Mask(MASKED) \/ Mask(OPEN)
  PROVE  Whole'
<1> DEFINE c == current_task
<1>1. InTask
  BY DEF CallFunction, LeaveFunction, Mask
<1>2. c \in 1..task_count /\ c \in Tasks /\ Started /\ cpu.pc = "user"
  BY <1>1, CurrentIsCreated DEF InTask
<1>3. /\ left[c] = [ctx |-> cpu, a7 |-> a7] /\ a7.of = c
      /\ a7 \in Pointers /\ cpu \in Contexts /\ Depth \in Nat \ {0}
  BY <1>2 DEF Whole, ResumesWhereItLeft, SwitchTypeOK
<1>4. a7.n \in 0..Depth - 1
  BY <1>2, <1>3 DEF Whole, TasksHaveRoom, Pointers
<1>5. /\ cpu' \in Contexts /\ cpu'.pc = "user"
      /\ a7' \in Pointers /\ a7'.of = c /\ a7'.n \in 0..Depth - 1
      /\ left' = [left EXCEPT ![c] = [ctx |-> cpu', a7 |-> a7']]
      /\ UNCHANGED <<vars, sp>>
  BY <1>4, <1>3, <1>2 DEF CallFunction, LeaveFunction, Mask, Becomes, Moved, Contexts, Pointers, Places
<1>6. /\ stack' \in [Tasks -> [1..Depth -> Contexts]]
      /\ \A t \in Tasks \ {c} : stack'[t] = stack[t]
  <2>1. CASE CallFunction
    <3>1. stack' = [stack EXCEPT ![c][a7.n + 1] = Boot] /\ a7.n + 1 \in 1..Depth
      BY <1>3, <1>4, <2>1 DEF CallFunction
    <3> QED
      BY <1>2, <3>1, StackWrite, FirstContexts DEF Whole, SwitchTypeOK
  <2>2. CASE ~CallFunction
    BY <2>2 DEF LeaveFunction, Mask, Whole, SwitchTypeOK
  <2> QED
    BY <2>1, <2>2
<1>7. Started' /\ c' = c /\ task_count' = task_count
  BY <1>2, <1>5 DEF vars, Started
<1>8. SwitchTypeOK'
  BY <1>4, <1>3, <1>2, <1>5, <1>6 DEF Whole, SwitchTypeOK
<1>9. TasksHaveRoom'
  BY <1>4, <1>3, <1>2, <1>5, <1>7 DEF Whole, SwitchTypeOK, TasksHaveRoom, IInv, TypeOK, Tasks
<1>10. HandlerIsRight' /\ ResumesWhereItLeft'
  BY <1>4, <1>3, <1>2, <1>5, <1>7 DEF Whole, SwitchTypeOK, HandlerIsRight, ResumesWhereItLeft
<1>11. OthersAreSaved'
  <2>1. \A t \in Tasks \ {c} : left'[t] = left[t] /\ stack'[t] = stack[t] /\ sp'[t] = sp[t]
    BY <1>2, <1>5, <1>6 DEF Whole, SwitchTypeOK
  <2> QED
    BY <1>2, <1>7, <2>1, OthersStaySaved
<1> QED
  BY <1>3, <1>8, <1>9, <1>10, <1>11 DEF Whole

(* An exception: from the task's own code it puts the context where the way *)
(* back ends; inside a handler it puts the handler's on top of it.          *)
LEMMA PushPreserves ==
  ASSUME IInv, HandlersComeLater, Whole, Tick \/ OS_Yield, ~torn' PROVE Whole'
<1>1. PICK level \in {OPEN, MASKED} : Started /\ Push(level) /\ cpu.pc \in {"user", "save", "return"}
  <2>1. CASE Tick
    <3>1. cpu.pc \in Places /\ ~(cpu.pc \in {"schedule", "load"})
      BY <2>1 DEF Tick, Whole, SwitchTypeOK, Contexts
    <3> QED
      BY <2>1, <3>1 DEF Tick, Places
  <2>2. CASE OS_Yield
    BY <2>2 DEF OS_Yield, InTask, Whole, SwitchTypeOK, Contexts
  <2> QED
    BY <2>1, <2>2
<1>2. PICK c \in Tasks : c = current_task /\ c \in 1..task_count
  BY <1>1, CurrentIsCreated
<1>3. a7.of = c /\ a7 \in Pointers /\ cpu \in Contexts /\ Depth \in Nat \ {0}
  BY <1>1, <1>2 DEF Whole, ResumesWhereItLeft, HandlerIsRight, SwitchTypeOK
<1>4. PICK m \in 1..Depth : a7.n \in Nat /\ m = a7.n + 1
  BY <1>1, <1>3 DEF Push, Pointers
<1>5. stack' = [stack EXCEPT ![c][m] = cpu]
  BY <1>1, <1>3, <1>4 DEF Push
<1>6. /\ stack' \in [Tasks -> [1..Depth -> Contexts]]
      /\ stack'[c][m] = cpu
      /\ \A t \in Tasks \ {c} : stack'[t] = stack[t]
  BY <1>2, <1>3, <1>4, <1>5, StackWrite DEF Whole, SwitchTypeOK
<1>7. \A i \in 1..Depth : i # m => stack'[c][i] = stack[c][i]
  BY <1>2, <1>5 DEF Whole, SwitchTypeOK
<1>8. cpu' \in Contexts /\ cpu'.pc = "save"
  BY <1>1, <1>3 DEF Push, Contexts, Places
<1>9. a7' = [of |-> c, n |-> m] /\ a7' \in Pointers /\ a7'.n = m /\ a7'.of = c
  <2>1. a7' = [of |-> c, n |-> m]
    BY <1>1, <1>3, <1>4 DEF Push, Moved, Pointers
  <2> QED
    BY <1>2, <1>4, <2>1 DEF Pointers
<1>10. /\ left' = left /\ sp' = sp /\ current_task' = c /\ task_count' = task_count
       /\ Started'
  BY <1>1, <1>2 DEF Push, vars, Started
<1>11. SwitchTypeOK' /\ TasksHaveRoom' /\ ResumesWhereItLeft'
  BY <1>2, <1>6, <1>8, <1>9, <1>10 DEF Whole, SwitchTypeOK, TasksHaveRoom, ResumesWhereItLeft
<1>12. LeadsBack(c, m)'
  <2>0. PICK k \in 1..Depth : k = left[c].a7.n + 1 /\ left[c].a7.n \in Nat
    BY <1>2 DEF Whole, TasksHaveRoom, SwitchTypeOK, Pointers
  <2>1. CASE cpu.pc = "user"
    <3>1. left[c] = [ctx |-> cpu, a7 |-> a7]
      BY <1>1, <1>2, <2>1 DEF Whole, ResumesWhereItLeft
    <3>2. k = m
      BY <1>4, <2>0, <3>1
    <3>3. left'[c].a7.n + 1 = m /\ left'[c].ctx = cpu
      BY <1>10, <2>0, <3>1, <3>2
    <3> QED
      BY <1>4, <1>6, <3>3 DEF LeadsBack
  <2>2. CASE cpu.pc \in {"save", "return"}
    <3>1. LeadsBack(c, a7.n)
      BY <1>2, <2>2 DEF Whole, HandlerIsRight
    <3>2. a7.n >= k /\ stack[c][k] = left[c].ctx
          /\ \A i \in (k + 1)..a7.n : stack[c][i].pc \in {"save", "return"}
      BY <2>0, <3>1 DEF LeadsBack
    <3>3. m >= k /\ stack'[c][k] = left[c].ctx
      BY <1>3, <1>4, <1>7, <3>2
    <3>4. ASSUME NEW i \in (k + 1)..m PROVE stack'[c][i].pc \in {"save", "return"}
      <4>1. CASE i = m
        BY <1>6, <2>2, <4>1
      <4>2. CASE i # m
        <5>1. i \in (k + 1)..a7.n /\ i \in 1..Depth
          BY <1>3, <1>4, <3>2, <4>2
        <5> QED
          BY <1>7, <3>2, <4>2, <5>1
      <4> QED
        BY <4>1, <4>2
    <3> QED
      BY <1>10, <2>0, <3>3, <3>4 DEF LeadsBack
  <2> QED
    BY <1>1, <2>1, <2>2
<1>13. HandlerIsRight'
  BY <1>8, <1>9, <1>10, <1>12 DEF HandlerIsRight
<1>14. OthersAreSaved'
  BY <1>2, <1>6, <1>10, OthersStaySaved
<1> QED
  BY <1>3, <1>11, <1>13, <1>14 DEF Whole

LEMMA SavePreserves == ASSUME IInv, HandlersComeLater, Whole, Save PROVE Whole'
<1> DEFINE c == current_task
<1>1. Started /\ cpu.pc = "save"
  BY DEF Save, HandlersComeLater
<1>2. c \in 1..task_count /\ c \in Tasks
  BY <1>1, CurrentIsCreated
<1>3. /\ cpu' \in Contexts /\ cpu'.pc = "schedule"
      /\ a7' = a7 /\ stack' = stack /\ left' = left /\ current_task' = c
      /\ task_count' = task_count /\ Started'
  BY <1>1 DEF Save, vars, Started, Whole, SwitchTypeOK, Contexts, Places
<1>4. /\ sp' \in [Tasks -> Pointers] /\ sp'[c] = a7
      /\ \A t \in Tasks \ {c} : sp'[t] = sp[t]
  BY <1>2 DEF Save, Whole, SwitchTypeOK
<1>5. SwitchTypeOK' /\ TasksHaveRoom' /\ ResumesWhereItLeft'
  BY <1>3, <1>4 DEF Whole, SwitchTypeOK, TasksHaveRoom, ResumesWhereItLeft
<1>6. HandlerIsRight'
  BY <1>1, <1>3, <1>4 DEF Whole, HandlerIsRight, LeadsBack
<1>7. OthersAreSaved'
  BY <1>2, <1>3, <1>4, OthersStaySaved
<1> QED
  BY <1>5, <1>6, <1>7 DEF Whole

LEMMA SchedulePreserves == ASSUME IInv, HandlersComeLater, Whole, Schedule, IInv' PROVE Whole'
<1>1. Started /\ cpu.pc = "schedule"
  BY DEF Schedule, HandlersComeLater
<1>2. current_task \in 1..task_count
  BY <1>1, CurrentIsCreated
<1>3. /\ cpu' \in Contexts /\ cpu'.pc = "load"
      /\ a7' = a7 /\ stack' = stack /\ left' = left /\ sp' = sp
  BY <1>1 DEF Schedule, Whole, SwitchTypeOK, Contexts, Places
<1>4. task_count' = task_count /\ Started'
  <2>1. CASE UNCHANGED vars
    BY <1>1, <2>1 DEF vars, Started
  <2>2. CASE ready_head # NULL /\ Dispatch(Preempted)
    BY <2>2 DEF Dispatch, Started
  <2> QED
    BY <2>1, <2>2 DEF Schedule, OS_Schedule
<1>5. current_task' \in 1..task_count
  BY <1>4 DEF IInv, OnlyCurrentRuns, Created
<1>6. \A t \in 1..task_count : Saved(t)
  <2>1. Saved(current_task)
    BY <1>1 DEF Whole, HandlerIsRight, Saved
  <2> QED
    BY <2>1 DEF Whole, OthersAreSaved
<1>7. \A t \in 1..task_count : Saved(t)'
  BY <1>3, <1>6, SavedStays
<1>8. SwitchTypeOK' /\ TasksHaveRoom' /\ ResumesWhereItLeft'
  BY <1>3, <1>4 DEF Whole, SwitchTypeOK, TasksHaveRoom, ResumesWhereItLeft
<1>9. HandlerIsRight' /\ OthersAreSaved'
  BY <1>3, <1>4, <1>5, <1>7 DEF HandlerIsRight, OthersAreSaved
<1> QED
  BY <1>8, <1>9 DEF Whole

LEMMA LoadPreserves == ASSUME IInv, HandlersComeLater, Whole, Load PROVE Whole'
<1>1. Started /\ cpu.pc = "load" /\ Saved(current_task)
  BY DEF Load, HandlersComeLater, Whole, HandlerIsRight
<1>2. current_task \in Tasks
  BY <1>1, CurrentIsCreated
<1>3. /\ cpu' \in Contexts /\ cpu'.pc = "return"
      /\ a7' \in Pointers /\ a7' = sp[current_task]
      /\ stack' = stack /\ left' = left /\ sp' = sp
      /\ current_task' = current_task /\ task_count' = task_count /\ Started'
  BY <1>1, <1>2 DEF Load, vars, Started, Whole, SwitchTypeOK, Contexts, Places
<1>4. SwitchTypeOK' /\ TasksHaveRoom' /\ ResumesWhereItLeft'
  BY <1>3 DEF Whole, SwitchTypeOK, TasksHaveRoom, ResumesWhereItLeft
<1>5. HandlerIsRight'
  BY <1>1, <1>3 DEF HandlerIsRight, Saved, LeadsBack
<1>6. OthersAreSaved'
  BY <1>2, <1>3, OthersStaySaved
<1> QED
  BY <1>4, <1>5, <1>6 DEF Whole

(* rte takes the topmost context: the task's own, or that of a handler that *)
(* goes on with the rest of the way back under it.                          *)
LEMMA ReturnPreserves == ASSUME IInv, HandlersComeLater, Whole, Return PROVE Whole'
<1> DEFINE c == current_task
           k == left[c].a7.n + 1
<1>1. Started /\ cpu.pc = "return" /\ a7.of = c /\ LeadsBack(c, a7.n)
  BY DEF Return, HandlersComeLater, Whole, HandlerIsRight
<1>2. c \in 1..task_count /\ c \in Tasks
  BY <1>1, CurrentIsCreated
<1>3. /\ left[c].ctx \in Contexts /\ left[c].ctx.pc = "user"
      /\ left[c].a7 \in Pointers /\ left[c].a7.of = c /\ left[c].a7.n \in Nat
      /\ left[c] = [ctx |-> left[c].ctx, a7 |-> left[c].a7]
      /\ k \in 1..Depth
  BY <1>2 DEF Whole, SwitchTypeOK, TasksHaveRoom, Pointers
<1>4. /\ a7 \in Pointers /\ a7.n \in 1..Depth /\ a7.n >= k
      /\ stack[c][k] = left[c].ctx
      /\ \A i \in (k + 1)..a7.n : stack[c][i].pc \in {"save", "return"}
  BY <1>1, <1>3 DEF Whole, SwitchTypeOK, Pointers, LeadsBack
<1>5. cpu' = stack[c][a7.n] /\ cpu' \in Contexts
  BY <1>1, <1>2, <1>4 DEF Return, Whole, SwitchTypeOK
<1>6. a7' = [of |-> c, n |-> a7.n - 1] /\ a7' \in Pointers
  <2>1. a7' = [a7 EXCEPT !.n = @ + (-1)]
    BY DEF Return, Moved
  <2>2. a7' = [of |-> c, n |-> a7.n - 1]
    BY <1>1, <1>4, <2>1 DEF Pointers
  <2>3. c \in Tasks \cup {NULL} /\ a7.n - 1 \in 0..Depth
    BY <1>2, <1>4 DEF Whole
  <2> QED
    BY <2>2, <2>3 DEF Pointers
<1>7. /\ stack' = stack /\ left' = left /\ sp' = sp
      /\ current_task' = c /\ task_count' = task_count /\ Started'
  BY <1>1 DEF Return, vars, Started
<1>8. SwitchTypeOK' /\ TasksHaveRoom'
  BY <1>5, <1>6, <1>7 DEF Whole, SwitchTypeOK, TasksHaveRoom
<1>9. OthersAreSaved'
  BY <1>2, <1>7, OthersStaySaved
<1>10. ResumesWhereItLeft' /\ HandlerIsRight'
  <2>1. CASE a7.n = k
    <3>1. cpu' = left[c].ctx
      BY <1>4, <1>5, <2>1
    <3>2. a7' = left[c].a7
      BY <1>3, <1>6, <2>1 DEF Pointers
    <3> QED
      BY <1>3, <1>7, <3>1, <3>2 DEF ResumesWhereItLeft, HandlerIsRight
  <2>2. CASE a7.n # k
    <3>1. cpu'.pc \in {"save", "return"}
      BY <1>3, <1>4, <1>5, <2>2
    <3>2. LeadsBack(c, a7.n - 1)
      BY <1>3, <1>4, <2>2 DEF LeadsBack
    <3>3. a7'.of = c /\ a7'.n = a7.n - 1
      BY <1>6
    <3> QED
      BY <1>7, <3>1, <3>2, <3>3 DEF ResumesWhereItLeft, HandlerIsRight, LeadsBack
  <2> QED
    BY <2>1, <2>2
<1> QED
  BY <1>8, <1>9, <1>10 DEF Whole

LEMMA CallPreserves ==
  ASSUME IInv, Whole, Exit \/ \E t \in 1..task_count : BlockOrWake(t) PROVE Whole'
<1>1. /\ UNCHANGED machine /\ Started /\ cpu.pc = "user"
      /\ current_task' = current_task /\ task_count' = task_count
  BY DEF Exit, BlockOrWake, InTask, OS_TaskExit, OS_TaskBlock, OS_TaskWake
<1>2. /\ cpu' = cpu /\ a7' = a7 /\ sp' = sp /\ stack' = stack /\ left' = left /\ Started'
  BY <1>1 DEF machine, Started
<1>3. current_task \in Tasks
  BY <1>1, CurrentIsCreated
<1>4. OthersAreSaved'
  BY <1>1, <1>2, <1>3, OthersStaySaved
<1> QED
  BY <1>1, <1>2, <1>4 DEF Whole, SwitchTypeOK, TasksHaveRoom, HandlerIsRight, ResumesWhereItLeft

LEMMA SwitchCreatePreserves == ASSUME IInv, Whole, Create PROVE Whole'
<1>0. PICK k \in Tasks : k = task_count' /\ k = task_count + 1
  BY DEF Create, OS_TaskCreate, IInv, TypeOK, Tasks
<1> DEFINE first == [of |-> k, n |-> 1]
           view == [ctx |-> Fresh(k), a7 |-> [of |-> k, n |-> 0]]
<1>1. /\ task_count' = k /\ k = task_count + 1 /\ task_count \in Nat /\ Depth \in Nat \ {0}
      /\ current_task' = current_task /\ cpu' = cpu /\ a7' = a7
  BY <1>0 DEF Create, OS_TaskCreate, IInv, TypeOK, Whole
<1>2. cpu.pc = "user" /\ (Started => current_task \in 1..task_count) /\ Started' = Started
  BY <1>1, CurrentIsCreated DEF Create, InTask, Boot, Started
<1>3. first \in Pointers /\ view \in [ctx : Contexts, a7 : Pointers]
  BY <1>1, FirstContexts DEF Pointers
<1>4. sp' = [sp EXCEPT ![k] = first] /\ left' = [left EXCEPT ![k] = view]
      /\ stack' = [stack EXCEPT ![k][1] = Fresh(k)]
  BY <1>0 DEF Create
<1>5. /\ sp' \in [Tasks -> Pointers] /\ left' \in [Tasks -> [ctx : Contexts, a7 : Pointers]]
      /\ sp'[k] = first /\ left'[k] = view
      /\ \A t \in Tasks \ {k} : sp'[t] = sp[t] /\ left'[t] = left[t]
  BY <1>1, <1>3, <1>4 DEF Whole, SwitchTypeOK
<1>6. /\ stack' \in [Tasks -> [1..Depth -> Contexts]] /\ stack'[k][1] = Fresh(k)
      /\ \A t \in Tasks \ {k} : stack'[t] = stack[t]
  BY <1>1, <1>4, FirstContexts, StackWrite DEF Whole, SwitchTypeOK
<1>7. \A t \in 1..task_count : t \in Tasks \ {k}
  BY <1>1 DEF Tasks
<1>8. \A t \in 1..k : t = k \/ t \in 1..task_count
  BY <1>1
<1>9. SwitchTypeOK'
  BY <1>1, <1>5, <1>6 DEF Whole, SwitchTypeOK
<1>10. TasksHaveRoom'
  <2>1. left'[k].a7.of = k /\ left'[k].a7.n + 1 \in 1..Depth /\ left'[k].ctx.pc = "user"
    BY <1>1, <1>5 DEF Fresh
  <2> QED
    BY <1>1, <1>5, <1>7, <1>8, <2>1 DEF Whole, TasksHaveRoom
<1>11. HandlerIsRight'
  BY <1>1, <1>2 DEF HandlerIsRight
<1>12. ResumesWhereItLeft'
  BY <1>1, <1>2, <1>5, <1>7 DEF Whole, ResumesWhereItLeft
<1>13. OthersAreSaved'
  <2>1. Saved(k)'
    <3>1. sp'[k].of = k /\ sp'[k].n = 1 /\ left'[k].a7.n = 0 /\ left'[k].ctx = Fresh(k)
      BY <1>5
    <3> QED
      BY <1>6, <3>1 DEF Saved, LeadsBack
  <2>2. ASSUME NEW t \in 1..task_count, t # current_task PROVE Saved(t)'
    BY <1>5, <1>6, <1>7, <2>2, SavedStays DEF Whole, OthersAreSaved
  <2> QED
    BY <1>1, <1>8, <2>1, <2>2 DEF OthersAreSaved
<1> QED
  BY <1>1, <1>9, <1>10, <1>11, <1>12, <1>13 DEF Whole

LEMMA SwitchStartPreserves == ASSUME IInv, Whole, Start, IInv' PROVE Whole'
<1>1. /\ ~Started /\ current_task = NULL /\ task_count' = task_count /\ Started'
      /\ a7' = a7 /\ sp' = sp /\ stack' = stack /\ left' = left
  BY DEF Start, OS_Start, Dispatch, Started
<1>2. cpu' \in Contexts /\ cpu'.pc = "load"
  BY <1>1 DEF Start, Whole, SwitchTypeOK, Contexts, Places
<1>3. \A t \in 1..task_count : Saved(t)'
  <2>1. \A t \in 1..task_count : Saved(t)
    BY <1>1 DEF Whole, OthersAreSaved, NULL
  <2> QED
    BY <1>1, <2>1, SavedStays
<1>4. current_task' \in 1..task_count
  BY <1>1, CurrentIsCreated DEF IInv, OnlyCurrentRuns, Created
<1>5. SwitchTypeOK' /\ TasksHaveRoom' /\ ResumesWhereItLeft'
  BY <1>1, <1>2 DEF Whole, SwitchTypeOK, TasksHaveRoom, ResumesWhereItLeft
<1>6. HandlerIsRight' /\ OthersAreSaved'
  BY <1>1, <1>2, <1>3, <1>4 DEF HandlerIsRight, OthersAreSaved
<1> QED
  BY <1>5, <1>6 DEF Whole

(* No handler runs before OS_Start, and a tear is for good. *)
LEMMA StartedStays ==
  ASSUME HandlersComeLater, [SwitchNext]_switchVars
  PROVE  HandlersComeLater' /\ (~torn' => ~torn)
<1>1. CASE Create
  BY <1>1 DEF Create, OS_TaskCreate, HandlersComeLater, Started
<1>2. CASE Start
  BY <1>2 DEF Start, OS_Start, Dispatch, HandlersComeLater, Started
<1>3. CASE Exit \/ \E t \in 1..task_count : BlockOrWake(t)
  BY <1>3 DEF Exit, BlockOrWake, OS_TaskExit, OS_TaskBlock, OS_TaskWake, InTask, machine,
              HandlersComeLater, Started
<1>4. CASE Schedule
  BY <1>4 DEF Schedule, OS_Schedule, Dispatch, vars, HandlersComeLater, Started
<1>5. CASE Tick
  BY <1>5 DEF Tick, Push, vars, HandlersComeLater, Started
<1>6. CASE CallFunction \/ LeaveFunction \/ Mask(MASKED) \/ Mask(OPEN) \/ OS_Yield
           \/ Save \/ Load \/ Return \/ UNCHANGED switchVars
  BY <1>6 DEF CallFunction, LeaveFunction, Mask, InTask, OS_Yield, Push, Save, Load, Return,
              switchVars, machine, vars, HandlersComeLater, Started
<1> QED
  BY <1>1, <1>2, <1>3, <1>4, <1>5, <1>6 DEF SwitchNext, Handler

LEMMA WholeIsKept ==
  ASSUME IInv, HandlersComeLater, Whole, [SwitchNext]_switchVars, ~torn', IInv' PROVE Whole'
<1>1. CASE UNCHANGED switchVars
  BY <1>1 DEF switchVars, machine, vars, Whole, SwitchTypeOK, TasksHaveRoom, HandlerIsRight,
              ResumesWhereItLeft, OthersAreSaved, Saved, LeadsBack, Started
<1>2. CASE SwitchNext
  BY <1>2, SwitchCreatePreserves, SwitchStartPreserves, TaskStepPreserves, CallPreserves,
     PushPreserves, SavePreserves, SchedulePreserves, LoadPreserves, ReturnPreserves
     DEF SwitchNext, Handler
<1> QED
  BY <1>1, <1>2

LEMMA SwitchInitEstablishes == ASSUME Depth \in Nat \ {0}, SwitchInit PROVE SwitchInv
<1>1. IInv
  BY InitEstablishes DEF SwitchInit
<1>2. SwitchTypeOK
  BY FirstContexts DEF SwitchInit, SwitchTypeOK, Pointers
<1>3. HandlersComeLater /\ Whole
  BY <1>2 DEF SwitchInit, OS_Init, Whole, HandlersComeLater, TasksHaveRoom, HandlerIsRight,
              ResumesWhereItLeft, OthersAreSaved, Boot, Started, NULL
<1> QED
  BY <1>1, <1>3 DEF SwitchInv

-----------------------------------------------------------------------------
(* The inductive invariant of the switch: the handlers of os_yield.s:42-53   *)
(* and ctx_switch_68000.S:25-35 keep the way back of every task on its own   *)
(* stack, until a tick tears one.                                            *)
THEOREM SwitchInvariant == ASSUME Depth \in Nat \ {0} PROVE SwitchSpec => []SwitchInv
<1>1. SwitchInv /\ [SwitchNext]_switchVars => SwitchInv'
  BY SchedulerPartIsKept, StartedStays, WholeIsKept DEF SwitchInv
<1>2. SwitchInit => SwitchInv
  BY SwitchInitEstablishes
<1> QED
  BY <1>1, <1>2, PTL DEF SwitchSpec

(* OS_TickISR and OS_YieldTrap, masked or not, resume a task with the        *)
(* context, the mask and the stack it was interrupted with, for any number   *)
(* of tasks, any depth of their stacks and any mixture of ticks, yields and  *)
(* scheduler calls, handlers interrupted by ticks included, until a tick     *)
(* comes between OS_YieldTrap's store of A7 and its load (os_yield.s:45-50). *)
THEOREM TasksResume == ASSUME Depth \in Nat \ {0} PROVE SwitchSpec => []UntornTasksResume
<1>1. SwitchInv => UntornTasksResume
  BY DEF SwitchInv, Whole, UntornTasksResume
<1> QED
  BY <1>1, SwitchInvariant, PTL

(* A task that is off the CPU has its way back on its own stack and its TCB  *)
(* pointing there: OS_TaskCreate and the two handlers agree on the frame,    *)
(* until a tick tears OS_YieldTrap.                                          *)
THEOREM OffCpuTasksStaySaved == ASSUME Depth \in Nat \ {0} PROVE SwitchSpec => []OffCpuTasksAreSaved
<1>1. SwitchInv => OffCpuTasksAreSaved
  BY DEF SwitchInv, Whole, OthersAreSaved, OffCpuTasksAreSaved
<1> QED
  BY <1>1, SwitchInvariant, PTL

(* The machine level implements the scheduler, torn or not: what             *)
(* ctx_switch_68000.S and os_yield.s add to OS_Schedule never changes the    *)
(* scheduler's own state.                                                    *)
THEOREM SwitchImplementsScheduler == SwitchSpec => Spec
<1>1. HandlersComeLater /\ [SwitchNext]_switchVars => HandlersComeLater'
  BY StartedStays
<1>2. HandlersComeLater /\ [SwitchNext]_switchVars => [Next]_vars
  BY StepsAreSchedulerSteps
<1>3. SwitchInit => OS_Init /\ HandlersComeLater
  BY DEF SwitchInit, HandlersComeLater, Boot
<1> QED
  BY <1>1, <1>2, <1>3, PTL DEF SwitchSpec, Spec
=============================================================================
