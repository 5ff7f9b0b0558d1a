--------------------------- MODULE ContextSwitch ---------------------------
(***************************************************************************)
(* The context switch of the kernel, over Scheduler.tla: OS_StartHighRdy   *)
(* and OS_TickISR of ctx_switch_68000.S, OS_YieldTrap of os_yield.s and    *)
(* the first frame that OS_TaskCreate builds.  A context stands for the    *)
(* registers, PC and SR: whose code it is, at which place, and whether     *)
(* interrupts are masked.  The processor pushes it on the stack A7 points  *)
(* to, and rte takes it from there; a stack keeps what was popped until it *)
(* is overwritten.  The tick is masked while its handler runs (interrupts  *)
(* raise the level), the trap is not: its handler runs with the mask of    *)
(* the task that called OS_Yield, and mutex.c:107-113, its only caller,    *)
(* leaves the critical section first.  So the tick comes inside it too.    *)
(***************************************************************************)
EXTENDS Scheduler

CONSTANT Depth   \* bound: entries a stack holds, a context or a call of the task

VARIABLES
  cpu,     \* the context the CPU is in
  a7,      \* the stack pointer: whose stack, how many contexts on it
  sp,      \* tcb->sp
  stack,   \* the memory of the stacks
  left,    \* per task, the context and the stack pointer it had when it last
           \* executed its own code
  torn     \* a tick has come inside a trap handler, after it stored A7 and
           \* before it loaded A7 again

machine    == <<cpu, a7, sp, stack, left, torn>>
switchVars == <<vars, machine>>

OPEN   == 0    \* the interrupt level in SR,
MASKED == 7    \* and any that keeps the tick out

Places   == {"user", "save", "schedule", "load", "return"}
Contexts == [of : Tasks \cup {NULL}, pc : Places, ipl : {OPEN, MASKED}]
Pointers == [of : Tasks \cup {NULL}, n : 0..Depth]

(* SR = 0x2000: a new task starts with interrupts enabled.  The boot code  *)
(* runs before the timer is armed.                                         *)
Fresh(t) == [of |-> t, pc |-> "user", ipl |-> OPEN]
Boot     == [of |-> NULL, pc |-> "user", ipl |-> MASKED]

SwitchInit ==
  /\ OS_Init
  /\ cpu = Boot
  /\ a7 = [of |-> NULL, n |-> 0]
  /\ sp = [t \in Tasks |-> [of |-> NULL, n |-> 0]]
  /\ stack = [t \in Tasks |-> [i \in 1..Depth |-> Boot]]
  /\ left = [t \in Tasks |-> [ctx |-> Boot, a7 |-> [of |-> NULL, n |-> 0]]]
  /\ torn = FALSE

-----------------------------------------------------------------------------
(* What a task does between two switches.  OS_TaskExit spins for ever      *)
(* behind it; it is called with interrupts enabled.                        *)

InTask == cpu.pc = "user" /\ Started /\ state[current_task] # "unused"

Becomes(c, p) ==
  /\ cpu' = c
  /\ a7' = p
  /\ left' = [left EXCEPT ![current_task] = [ctx |-> c, a7 |-> p]]

Moved(k) == [a7 EXCEPT !.n = @ + k]

(* A call and the return from it, by which a task uses its stack. *)
CallFunction ==
  /\ InTask
  /\ a7.n + 1 < Depth
  /\ Becomes(cpu, Moved(1))
  /\ stack' = [stack EXCEPT ![a7.of][a7.n + 1] = Boot]
  /\ UNCHANGED <<vars, sp, torn>>

LeaveFunction ==
  /\ InTask
  /\ a7.n > 0
  /\ Becomes(cpu, Moved(-1))
  /\ UNCHANGED <<vars, sp, stack, torn>>

(* Lock_CriticalEnter and Lock_CriticalExit of mutex.c. *)
Mask(level) ==
  /\ InTask
  /\ cpu.ipl # level
  /\ Becomes([cpu EXCEPT !.ipl = level], a7)
  /\ UNCHANGED <<vars, sp, stack, torn>>

Exit == InTask /\ cpu.ipl = OPEN /\ OS_TaskExit /\ UNCHANGED machine

BlockOrWake(t) == InTask /\ (OS_TaskBlock(t) \/ OS_TaskWake(t)) /\ UNCHANGED machine

(* The stack of a new task looks as if OS_TickISR had interrupted it. *)
Create ==
  /\ InTask \/ cpu = Boot
  /\ OS_TaskCreate
  /\ stack' = [stack EXCEPT ![task_count'][1] = Fresh(task_count')]
  /\ sp' = [sp EXCEPT ![task_count'] = [of |-> task_count', n |-> 1]]
  /\ left' = [left EXCEPT ![task_count'] =
              [ctx |-> Fresh(task_count'), a7 |-> [of |-> task_count', n |-> 0]]]
  /\ UNCHANGED <<cpu, a7, torn>>

(* OS_Start, then OS_StartHighRdy, which is the second half of a switch. *)
Start ==
  /\ OS_Start
  /\ cpu.pc = "user"
  /\ cpu' = [cpu EXCEPT !.pc = "load"]
  /\ UNCHANGED <<a7, sp, stack, left, torn>>

-----------------------------------------------------------------------------
(* The switch.                                                             *)

(* The exception: the context goes to the stack A7 points to. *)
Push(level) ==
  /\ a7.n < Depth
  /\ stack' = [stack EXCEPT ![a7.of][a7.n + 1] = cpu]
  /\ a7' = Moved(1)
  /\ cpu' = [cpu EXCEPT !.pc = "save", !.ipl = level]
  /\ UNCHANGED <<vars, sp, left>>

Tick ==
  /\ Started
  /\ cpu.ipl = OPEN
  /\ Push(MASKED)
  /\ torn' = (torn \/ cpu.pc \in {"schedule", "load"})

OS_Yield == InTask /\ Push(cpu.ipl) /\ UNCHANGED torn

Save ==
  /\ cpu.pc = "save"
  /\ sp' = [sp EXCEPT ![current_task] = a7]
  /\ cpu' = [cpu EXCEPT !.pc = "schedule"]
  /\ UNCHANGED <<vars, a7, stack, left, torn>>

Schedule ==
  /\ cpu.pc = "schedule"
  /\ OS_Schedule
  /\ cpu' = [cpu EXCEPT !.pc = "load"]
  /\ UNCHANGED <<a7, sp, stack, left, torn>>

Load ==
  /\ cpu.pc = "load"
  /\ a7' = sp[current_task]
  /\ cpu' = [cpu EXCEPT !.pc = "return"]
  /\ UNCHANGED <<vars, sp, stack, left, torn>>

(* movem.l (A7)+ and rte.  What lies below a stack is not modelled. *)
Return ==
  /\ cpu.pc = "return"
  /\ a7.n > 0
  /\ cpu' = stack[a7.of][a7.n]
  /\ a7' = Moved(-1)
  /\ UNCHANGED <<vars, sp, stack, left, torn>>

Handler == Save \/ Schedule \/ Load \/ Return

SwitchNext ==
  \/ Create \/ Start
  \/ CallFunction \/ LeaveFunction \/ Mask(MASKED) \/ Mask(OPEN) \/ Exit \/ OS_Yield
  \/ \E t \in 1..task_count : BlockOrWake(t)
  \/ Tick \/ Handler

SwitchSpec == SwitchInit /\ [][SwitchNext]_switchVars

-----------------------------------------------------------------------------
(* Properties.                                                             *)

SwitchTypeOK ==
  /\ cpu \in Contexts
  /\ a7 \in Pointers
  /\ sp \in [Tasks -> Pointers]
  /\ stack \in [Tasks -> [1..Depth -> Contexts]]
  /\ left \in [Tasks -> [ctx : Contexts, a7 : Pointers]]

(* os_yield.s:29-32: "a execucao volta a partir do 'rts' abaixo, como se    *)
(* nada tivesse acontecido".  A task that executes its own code again has   *)
(* the registers, the place and the interrupt mask it had when it lost the  *)
(* CPU, and its own stack, at the height it had.                            *)
ResumesWhereItLeft ==
  Started /\ cpu.pc = "user" =>
    left[current_task] = [ctx |-> cpu, a7 |-> a7] /\ a7.of = current_task

(* Where OS_YieldTrap is vulnerable: as long as no tick has come between    *)
(* its store and its load of A7, every task resumes where it left, whatever *)
(* switches, creations and calls happen in between, and wherever else in    *)
(* the handler ticks come, one handler on top of another.                   *)
UntornTasksResume == ~torn => ResumesWhereItLeft

(* The first n entries of t's stack lead back to its own code: its context  *)
(* and above it those of handlers that a tick interrupted, which only have  *)
(* to be run to their end or from their start.                              *)
LeadsBack(t, n) ==
  LET k == left[t].a7.n + 1 IN
  /\ n >= k
  /\ stack[t][k] = left[t].ctx
  /\ \A i \in (k + 1)..n : stack[t][i].pc \in {"save", "return"}

Saved(t) == sp[t].of = t /\ LeadsBack(t, sp[t].n)

(* A task that is off the CPU can be resumed at any time: its TCB points to *)
(* its own stack (ctx_switch_68000.S:27-28), from where it gets back to     *)
(* where it left, although other tasks' handlers may have left contexts     *)
(* there too.                                                               *)
OffCpuTasksAreSaved == ~torn => \A t \in 1..task_count \ {current_task} : Saved(t)
=============================================================================
