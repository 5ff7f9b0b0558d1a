--------------------------- MODULE SchedulerSteps ---------------------------
(***************************************************************************)
(* scheduler.c statement by statement (the kernel is built with -O0, so     *)
(* every statement reads and writes memory in source order), with the tick  *)
(* interrupt of ctx_switch_68000.S between any two of them.  Tasks run with *)
(* SR = 0x2000, all interrupts enabled, and no function of scheduler.c      *)
(* or of its callers masks them: a task can lose the CPU half way through a *)
(* list operation.                                                          *)
(***************************************************************************)
EXTENDS Scheduler

VARIABLES
  call,   \* per context: the call it is in, where, on which task, with which
          \* local pointer (tail or prev)
  ran,    \* the task on the CPU has executed a statement since it got it
  halfway \* a task has lost the CPU in the middle of a call

shared    == <<task_count, state, next, ready_head>>
stepsVars == <<vars, call, ran, halfway>>

Callers == Tasks \cup {NULL}   \* NULL: the boot code, before OS_Start
frame   == call[current_task]  \* whose statements are executed

InCall(c) == call[c].pc \notin {"idle", "spin"}

NoCall == [op |-> "none", pc |-> "idle", t |-> NULL, ptr |-> NULL]

StepsInit ==
  /\ OS_Init
  /\ call = [c \in Callers |-> NoCall]
  /\ ran = FALSE
  /\ halfway = FALSE

-----------------------------------------------------------------------------
(* Entering a call.  The first test of each function is its guard; a call   *)
(* that fails it returns at once and changes nothing.                       *)

Enter(op, t, pc) ==
  /\ frame.pc = "idle"
  /\ current_task = NULL => op = "create"   \* the boot code has no TCB to block
  /\ call' = [call EXCEPT ![current_task] = [op |-> op, pc |-> pc, t |-> t, ptr |-> NULL]]
  /\ ran' = TRUE
  /\ UNCHANGED <<shared, current_task, halfway>>

CallCreate == task_count < OS_MAX_TASKS /\ Enter("create", NULL, "take")

CallBlock(t) == state[t] \in {"ready", "running"} /\ Enter("block", t, "remove")

CallWake(t) == state[t] = "blocked" /\ Enter("wake", t, "set_ready")

CallExit == current_task # NULL /\ Enter("exit", current_task, "remove")

-----------------------------------------------------------------------------
(* One statement of the call the CPU is in.                                *)

At(pc) == frame.pc = pc

Goto(pc)         == call' = [call EXCEPT ![current_task].pc = pc]
GotoWith(pc, p)  == call' = [call EXCEPT ![current_task].pc = pc, ![current_task].ptr = p]
ReturnFromCall   == call' = [call EXCEPT ![current_task] = NoCall]

(* tcb = &task_pool[task_count++]: read the counter, then write it back. *)
TakeSlot ==
  /\ At("take")
  /\ task_count < OS_MAX_TASKS    \* beyond it the write is outside the pool
  /\ call' = [call EXCEPT ![current_task].pc = "bump", ![current_task].t = task_count + 1]
  /\ UNCHANGED shared

BumpCount ==
  /\ At("bump")
  /\ task_count' = frame.t
  /\ next' = [next EXCEPT ![frame.t] = NULL]
  /\ Goto("set_ready")
  /\ UNCHANGED <<state, ready_head>>

SetReady ==
  /\ At("set_ready")
  /\ state' = [state EXCEPT ![frame.t] = "ready"]
  /\ Goto("insert")
  /\ UNCHANGED <<task_count, next, ready_head>>

(* ready_insert *)
InsertBegin ==
  /\ At("insert")
  /\ IF ready_head = NULL
     THEN ready_head' = frame.t /\ Goto("link_self")
     ELSE GotoWith("find_tail", ready_head) /\ UNCHANGED ready_head
  /\ UNCHANGED <<task_count, state, next>>

LinkSelf ==
  /\ At("link_self")
  /\ next' = [next EXCEPT ![frame.t] = frame.t]
  /\ ReturnFromCall
  /\ UNCHANGED <<task_count, state, ready_head>>

FindTail ==
  /\ At("find_tail")
  /\ frame.ptr # NULL             \* a walk that fell off the list goes no further
  /\ IF next[frame.ptr] # ready_head
     THEN GotoWith("find_tail", next[frame.ptr])
     ELSE Goto("link_tail")
  /\ UNCHANGED shared

LinkTail ==
  /\ At("link_tail")
  /\ next' = [next EXCEPT ![frame.ptr] = frame.t]
  /\ Goto("link_t")
  /\ UNCHANGED <<task_count, state, ready_head>>

LinkTask ==
  /\ At("link_t")
  /\ next' = [next EXCEPT ![frame.t] = ready_head]
  /\ ReturnFromCall
  /\ UNCHANGED <<task_count, state, ready_head>>

(* ready_remove *)
RemoveBegin ==
  /\ At("remove")
  /\ IF ready_head = NULL THEN Goto("set_gone")
     ELSE IF next[frame.t] = frame.t THEN Goto("unlink_only")
     ELSE GotoWith("find_prev", ready_head)
  /\ UNCHANGED shared

UnlinkOnly ==
  /\ At("unlink_only")
  /\ ready_head' = IF ready_head = frame.t THEN NULL ELSE ready_head
  /\ Goto("clear")
  /\ UNCHANGED <<task_count, state, next>>

FindPrev ==
  /\ At("find_prev")
  /\ frame.ptr # NULL
  /\ IF next[frame.ptr] # frame.t THEN GotoWith("lap", next[frame.ptr]) ELSE Goto("unlink")
  /\ UNCHANGED shared

LapDone ==
  /\ At("lap")
  /\ Goto(IF frame.ptr = ready_head THEN "set_gone" ELSE "find_prev")
  /\ UNCHANGED shared

Unlink ==
  /\ At("unlink")
  /\ next' = [next EXCEPT ![frame.ptr] = next[frame.t]]
  /\ Goto("move_head")
  /\ UNCHANGED <<task_count, state, ready_head>>

MoveHead ==
  /\ At("move_head")
  /\ ready_head' = IF ready_head = frame.t THEN next[frame.t] ELSE ready_head
  /\ Goto("clear")
  /\ UNCHANGED <<task_count, state, next>>

ClearNext ==
  /\ At("clear")
  /\ next' = [next EXCEPT ![frame.t] = NULL]
  /\ Goto("set_gone")
  /\ UNCHANGED <<task_count, state, ready_head>>

(* The last statement of OS_TaskBlock, and of OS_TaskExit, which then spins. *)
SetGone ==
  /\ At("set_gone")
  /\ state' = [state EXCEPT ![frame.t] = IF frame.op = "exit" THEN "unused" ELSE "blocked"]
  /\ IF frame.op = "exit" THEN Goto("spin") ELSE ReturnFromCall
  /\ UNCHANGED <<task_count, next, ready_head>>

Statement ==
  /\ \/ TakeSlot \/ BumpCount \/ SetReady
     \/ InsertBegin \/ LinkSelf \/ FindTail \/ LinkTail \/ LinkTask
     \/ RemoveBegin \/ UnlinkOnly \/ FindPrev \/ LapDone
     \/ Unlink \/ MoveHead \/ ClearNext \/ SetGone
  /\ ran' = TRUE
  /\ UNCHANGED <<current_task, halfway>>

-----------------------------------------------------------------------------
(* The boot code enters the first task; no timer is armed before. *)
StartFirst ==
  /\ At("idle")
  /\ OS_Start
  /\ ran' = FALSE
  /\ UNCHANGED <<call, halfway>>

(* The tick.  The handler runs with the mask raised, so it is one step.  A  *)
(* time slice is far longer than a statement: a task that was dispatched in *)
(* the middle of a call executes at least one before it can lose the CPU.   *)
TickPossible == InCall(current_task) => ran

TickBetween ==
  /\ TickPossible
  /\ OS_TickISR
  /\ ran' = FALSE
  /\ halfway' = (halfway \/ InCall(current_task))
  /\ UNCHANGED call

StepsNext ==
  \/ CallCreate
  \/ \E t \in 1..task_count : CallBlock(t) \/ CallWake(t)
  \/ CallExit
  \/ Statement
  \/ StartFirst
  \/ TickBetween

StepsSpec == StepsInit /\ [][StepsNext]_stepsVars

-----------------------------------------------------------------------------
(* Properties.                                                             *)

Labels == {"idle", "take", "bump", "set_ready", "insert", "link_self", "find_tail",
           "link_tail", "link_t", "remove", "unlink_only", "find_prev", "lap",
           "unlink", "move_head", "clear", "set_gone", "spin"}

StepsTypeOK ==
  /\ TypeOK
  /\ call \in [Callers -> [op : {"none", "create", "block", "wake", "exit"},
                            pc : Labels, t : Callers, ptr : Callers]]
  /\ ran \in BOOLEAN

(* What the tick meets from ready_head on, following next: what every set  *)
(* holds that has ready_head and is closed under next.                     *)
OnRing ==
  {t \in Tasks :
     \A S \in SUBSET Callers :
       ready_head \in S /\ (\A u \in S \ {NULL} : next[u] \in S) => t \in S}

(* scheduler.c:15-20: a task marked ready is on the list the tick follows   *)
(* from ready_head, so that it will run again.  The CPU's own task and a    *)
(* task that another context's call is still working on are left out.       *)
NoTaskStranded ==
  \A t \in Tasks \ {current_task} :
    state[t] \in {"ready", "running"} /\ (\A c \in Callers \ {t} : ~InCall(c))
      => t \in OnRing

-----------------------------------------------------------------------------
(* Until a task loses the CPU in the middle of a call, the statements       *)
(* implement the one-step functions of Scheduler.  A call takes effect at   *)
(* its first write to the shared state: from there on the variables are     *)
(* mapped to what the call will leave.                                      *)

Inserting == \/ frame.pc \in {"insert", "find_tail", "link_tail"}
             \/ frame.pc = "set_ready" /\ frame.op = "create"
Removed   == frame.pc \in {"move_head", "clear"}

absState ==
  IF Inserting THEN [state EXCEPT ![frame.t] = "ready"]
  ELSE IF Removed \/ At("set_gone")
  THEN [state EXCEPT ![frame.t] = IF frame.op = "exit" THEN "unused" ELSE "blocked"]
  ELSE state

absNext ==
  IF Inserting
  THEN IF ready_head = NULL THEN [next EXCEPT ![frame.t] = frame.t]
       ELSE [next EXCEPT ![Pred(ready_head)] = frame.t, ![frame.t] = ready_head]
  ELSE IF At("link_self") THEN [next EXCEPT ![frame.t] = frame.t]
  ELSE IF At("link_t") THEN [next EXCEPT ![frame.t] = ready_head]
  ELSE IF Removed THEN [next EXCEPT ![frame.t] = NULL]
  ELSE next

absHead ==
  IF Inserting /\ ready_head = NULL THEN frame.t
  ELSE IF At("move_head") /\ ready_head = frame.t THEN next[frame.t]
  ELSE ready_head

Atomic == INSTANCE Scheduler
            WITH state <- absState, next <- absNext, ready_head <- absHead

(* The loops, early returns and pointer writes of scheduler.c, taken        *)
(* together, do what Scheduler's one-step functions say, up to the step by  *)
(* which a task loses the CPU in the middle of a call.                      *)
ImplementsSchedulerUntilHalfway ==
  /\ Atomic!OS_Init
  /\ [][halfway' \/ Atomic!Next \/ UNCHANGED Atomic!vars]_stepsVars
=============================================================================
