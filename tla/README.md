# Orion68: a TLA+ model of the kernel, the console, the Pico 2 W and DHCP

Orion68 is a home-built 68000 computer. Its software is a BIOS with a shell
(`src/src/env_68k/apps/bios`), a small preemptive kernel
(`src/src/env_68k/apps/kernel`), and the firmware of a Pico 2 W that gives the
68000 a keyboard, an SD card and files received over Wi-Fi
(`src/src/pico2W`). This directory holds TLA+ modules for the parts in which
interrupts, tasks, processors and networks meet, the TLC configurations that
check them and the TLAPS proofs about them. Paths below leave out the common
prefixes.

## 1. Inventory

| Component | State | Operations | Interacts through |
|---|---|---|---|
| Scheduler (`kernel/scheduler.c`) | `task_pool`, `task_count`, circular ready list (`next`, `ready_head`), `current_task` | `OS_Init`, `OS_TaskCreate`, `OS_Start`, `OS_Schedule`, `OS_TaskBlock`, `OS_TaskWake`, `OS_TaskExit` | called by tasks and by the tick |
| Context switch (`ctx_switch_68000.S`, `os_yield.s`) | A7, SR, the stacks, `tcb->sp` | `OS_StartHighRdy`, `OS_TickISR`, `OS_YieldTrap` | interrupt and trap, both call `OS_Schedule` |
| Mutex (`kernel/mutex.c`) | `locked`, `owner`, `wait_head`, `wait_tail`, the TCBs' `state` and `next` | `Mutex_Init`, `Mutex_Lock`, `Mutex_Unlock` | masks interrupts, yields, shares TCBs with the scheduler |
| Keyboard buffer (`bios/kbd/ringbuffer.c`) | `buffer`, `head`, `tail` | `ring_buf_init`, `ring_buf_put`, `ring_buf_get`, `ring_buf_get_char` | interrupts put, the shell gets |
| Line editor (`bios/shell/shell_history.c`) and tokenizer (`execute_cmd` of `decodecmd.c`) | line, `history`, `hist_count`, `hist_cursor`, `argv` | `readline_with_history`, `history_add`, `execute_cmd` | reads the keyboard buffer |
| Interrupt handlers (`bios/sys/vectors/vectors_asm.S`) | `tick_count` | `Int2Handler` (timer, polls the Pico), `Int3Handler` (key) | put into the buffer; `Int2Handler` runs `do_save2` |
| TCP receiver (`pico2W/pds200_1.c`) | per connection `estado`, `bytes_recebidos`, `pfh` | `tcp_server_accept`, `tcp_server_recv` | lwIP calls it; it publishes the file |
| File transfer (`pds200_1.c`, `orion_bus.c`, `bios/shell/picow.c`, `do_save2` of `commands.c`) | the published file: `arquivo_buffer`, `_tamanho`, `_crc32`, `_pronto`, `ponteiro_leitura` | publish (core 1), register accesses (core 0), `do_save2` (68000) | five unprotected globals and the bus registers |
| Pico bus and keyboard (`orion_bus.c`, `orion_bus.pio`, `ps2_keyboard.c`, `pds200_1.c:307-318`) | PIO FIFOs, PIRQ, `bkd_int` | key put by core 1, answers put by core 0, DTACK by the state machine | one FIFO that both cores write |
| DHCP client (`bios/sys/ethernet/dhcp_client.c`) | the socket and the address registers of the W5100 | `w5100_dhcp_request` | DISCOVER, OFFER, REQUEST, ACK over UDP |
| Task loader (`task_create.c`, `elf_task_integration.c`) | stacks, `g_elf_args` | `load_elf_as_task` | creates tasks |
| Disk, RTC, UARTs, VGA, VFS, BASIC, burner, GALs | | | see section 7 |

What is hard here:

* **The kernel's list operations run with interrupts open.** Tasks start with
  SR = 0x2000 and no function of `scheduler.c` masks the tick, which walks and
  moves the same list.
* **One field, two lists.** The mutex queues tasks through `next`, which the
  ready list uses too.
* **Two ways to switch.** The tick's handler runs masked, the trap's with the
  mask of its caller, which is open: `mutex.c:107` leaves the critical section
  before it yields at line 113. Each resumes what the other has saved.
* **The timer interrupt is a whole program**: every 800 ticks it polls the
  Pico, reads a file, checks its CRC, writes it to the disk and puts two bytes
  into the keyboard buffer.
* **Three processors share a file without a lock**: core 1 replaces it, core 0
  serves it, the 68000 reads it. Keys and answers go through the same FIFO.
* **Networks**: TCP cuts the stream of a sender anywhere and drops it at any
  point; DHCP replies are lost, repeated, late or meant for somebody else.
* **Small integers at their limits**: `uint8_t` indices, 8-bit size registers,
  circular histories.

`PROJECT.json` lists each hazard at its line with the properties about it.

## 2. Modules

| Module | Models | Remarks |
|---|---|---|
| `RoundRobin` | what a round-robin scheduler promises | a queue of runnable tasks that rotates |
| `Scheduler` | `scheduler.c`, one action per function | pointers `next`, `ready_head` as in the C |
| `MCScheduler` | | refinement of `RoundRobin`: the queue is the list read off the pointers |
| `SchedulerSteps` | `scheduler.c`, one action per statement | extends `Scheduler` with the place and the local pointer of every caller; a tick between any two statements; refines `Scheduler` until a task loses the CPU inside a call |
| `ContextSwitch` | `OS_StartHighRdy`, `OS_TickISR`, `OS_YieldTrap`, the frame of `OS_TaskCreate` | extends `Scheduler` with A7, SR, stacks and `tcb->sp`; each handler is five steps: push, save, schedule, load, return; ticks come inside the trap |
| `FifoLock` | what a fair lock promises | |
| `Mutex`, `MCMutex` | `mutex.c` under the premises written at its top | the scheduler is arbitrary: any ready task, and `next` of a task on no wait list may change at any time; refines `FifoLock` |
| `KernelMutex` | `mutex.c` on the real `scheduler.c` | composes `Scheduler` with the lock: one `next`, one `state` |
| `BoundedFifo` | a queue that drops the newest | |
| `RingBuffer` | `ringbuffer.c` with both interrupt handlers | the reader is three steps: test, fetch, increment |
| `LineEditor` | `readline_with_history`, `history_add`, the shell loop, `execute_cmd` | one action per key; Enter adds the line to the history and then cuts it; the tokenizer as a recursive function against a definition of words |
| `Console` | keyboard interrupt, buffer, `do_save2`'s bytes, editor | extends `LineEditor`, buffer abstracted to the FIFO that `RingBuffer` implements |
| `PicoReceiver`, `MCPicoReceiver` | `tcp_server_accept`, `tcp_server_recv` and the heap they use | several connections; one callback is one step, as lwIP calls them one by one |
| `PicoTransfer`, `MCPicoTransfer` | publication, register accesses, `do_save2` | every write of core 1 to a shared variable is a step |
| `PicoBus` | the PIO state machine with its FIFOs, core 0, core 1's keys, PIRQ, `Int3Handler` | below `PicoTransfer`: there one access is served at a time, here that is the question |
| `DhcpClient` | `w5100_dhcp_request` with servers, network and other hosts | the client looks at the type of a reply only, as the code does |
| `KernelProofs`, `MutexProofs`, `RingBufferProofs`, `LineEditorProofs`, `PicoReceiverProofs`, `PicoTransferProofs`, `PicoBusProofs`, `DhcpClientProofs` | | section 5 |

State and actions keep the names of the C variables and functions; the map in
`PROJECT.json` gives the lines of every definition. Operators that end in a
description of a defect (`ready_insert_front`, `Withdraw_not`) are mutants, used
to see that a property can fail.

### What is abstracted

* A task is its TCB: in `Scheduler` registers and stacks are left out, in
  `ContextSwitch` a context (registers, PC, SR) is whose code it is, at which
  place, and the interrupt level. A task that returns from its entry is not
  modelled (no return address is put on its first stack), nor is `OS_TaskArg`.
* In `Scheduler` a call is one step. `SchedulerSteps` shows how far that is
  right: up to the first tick that falls inside a call, and not beyond (section 4).
* In `ContextSwitch` `OS_Schedule` is one step inside a handler, and so are the
  calls of a task. A tick inside them is the business of `SchedulerSteps`; what
  `ContextSwitch` adds are ticks before and behind them.
* In `Mutex`, `Lock_CriticalEnter`/`Exit` make the code between them one step
  (that is what masking the tick does on one CPU). `Scheduler_AddReady` is
  external. `OS_Schedule` is the one of `scheduler.c` generalised to premise 3 of
  `mutex.c:8-33`: it runs any ready task. The code's runs `ready_head` whatever
  its state, which is what `KernelMutex` has.
* The bytes of a line and of a file are members of small sets. The CRC is ideal:
  it matches only the bytes it was computed from. It does not cover its own
  field, in the model as in the code. A file is its `crc32` field (`Field`), the
  rest of the header (`Header`) and its content. A CRC over a size that reads as
  less than the field does not end (`CrcEnds`); on its way through the address
  space it also reads the Pico's registers, which is left out, as nothing is
  saved after it.
* A disk entry is a name, what was written and whether `do_save2` got to its end:
  `f_open` creates or empties the file, and a write or a close that fails leaves
  any beginning of the content behind.
* `PicoTransfer` takes whole files from the receiver and one access at a time
  from the bus. Core 0's `ponteiro_leitura = 0; arquivo_pronto = 0` is one step:
  a write of core 1 that falls between them has the same effect as one before.
* `PicoReceiver` assumes that the header comes in one piece, as `sender.c`
  writes it with one call, and that a sender sends as many bytes as it
  announces. When `malloc` fails, `pds200_1.c:132-138` frees the state of the
  connection, leaves `tcp_arg` pointing at it and returns `ERR_MEM`, so that lwIP
  keeps the packet and delivers it again (`Redeliver`). What the callback then
  does with freed memory is undefined, and the model follows it no further.
* In `PicoBus` the content of a register is left out: a byte on the bus is a
  numbered key or the answer to a numbered access. A packet that finds the
  receive FIFO full is dropped (`push noblock`), and the access goes on.
* The W5100, the network and the servers of `DhcpClient` are external. Whether
  the receive buffer survives OPEN is left open.

Three modules have a variable for their surroundings (`paced`, `around`,
`lan`), chosen in the initial state and never changed. One run so covers the
worst surroundings, in which only some properties hold, and the quiet ones, in
which the stronger ones do; each property says which it needs.

## 3. Runs

| Run | Expected | Question |
|---|---|---|
| `scheduler` | pass | Under any order of calls and ticks, is the list one cycle of exactly the runnable tasks, does it rotate fairly, does the CPU go only to ready tasks? |
| `scheduler_steps` | violation | With a tick between any two statements of `scheduler.c`: is every ready task on the list the tick follows? |
| `context_switch` | violation | With a tick anywhere outside the tick's own handler: does a task resume with the context, the mask and the stack it left? |
| `mutex` | pass | Mutual exclusion, sound wait list, FIFO hand-over, nobody waits for ever |
| `kernel_mutex` | violation | The same mutex on the real scheduler |
| `keyboard_buffer` | pass | Is the ring buffer a bounded FIFO with interrupts at every point of its reader? |
| `line_editor` | pass | Do the arrows recall the n-th last line after the ring has wrapped, whatever keys came before and although executing a line cuts it? Are the arguments of a command the words of the line? |
| `console` | violation | Does only Enter execute a line? |
| `receiver` | pass | With segments cut anywhere, chained packets, dropped connections and failing allocation, up to the use of a freed block that the last leads to: is what is published what was sent, is no block freed that is held, what leaks? |
| `transfer` | pass | With files, sector reads and disk errors at any moment: is everything on the disk content of the file of that name, and does the Pico become idle? With one file at a time: is every file that fits saved, once, in order? |
| `bus` | pass | Does an answer belong to its question, does every access end, does every key arrive, once and in order? |
| `dhcp` | pass | Is the chip's address always a leased one, does every call end, and does it succeed on a calm network? |

The runs leave out what a theorem of section 5 settles and what is of interest
only as a part of an inductive invariant: the types of the modules with proofs,
`OnlyCurrentRuns` and `OwnerCanRun`. `UntornTasksResume` and
`OffCpuTasksAreSaved` are theorems and no run has them.

### Bounds

* `scheduler`: 4 TCBs, so that head, tail and two inner places of the list are
  different; with 3 the predecessor of the head is next to every task.
  `scheduler_steps`: 3, two on the list and one that is being created.
* `context_switch`: 2 tasks, stacks of 3 entries: the context of a task, that of
  the trap handler a tick interrupts, and a call below them.
* `mutex`: 3 tasks: an owner, a head waiter and a tail waiter. `kernel_mutex`: 2
  are enough for the counterexample.
* `keyboard_buffer`: `Size = 4` instead of 256; index arithmetic is modulo
  `Size`, and runs wrap many times. The theorems cover every size.
* `line_editor`: history of 2 lines (16 in the code), 4 commands: the ring wraps
  twice. A line of two words is cut by its execution, so that the order of
  `history_add` and `execute_cmd` matters. Lines of up to 3 characters and the terminator, blank or not, which
  includes leading, trailing, repeated and only blanks; `MAXARGS = 2`, and
  `ArgumentsAreTheWords` asks for every smaller limit too, so that lines have
  fewer, exactly as many and more words than the limit.
* `receiver`: 3 connections at a time with files of 3, 0 and 2 bytes, header of
  2: an empty file, one that is cut in every way, two publications that follow.
* `transfer`: a byte has 3 values, so that the two size registers hold up to 8;
  the CRC field has 2 bytes and the header 3. The sizes 4, 4, 10, 9 give two
  files of equal size, which the CRC alone can tell apart, one that reads as 1,
  less than the CRC field, and one that reads as 0.
* `bus`: 3 keys, 5 accesses, FIFOs of 2 entries (4 in the PIO): enough for a
  full FIFO, for a key before, during and after an access, and for an answer
  that is one access late.
* `dhcp`: 2 servers, 2 addresses, 2 calls, 2 datagrams in the buffer: a reply of
  the first call meets the second.

`CHECK_DEADLOCK FALSE` is set where the system ends: all senders are through or
a freed block is used (`receiver`), the 68000 stops for good (`transfer`), it
waits for DTACK that never comes or the bounds are used up (`bus`), the calls are
over (`dhcp`), where a walk runs off a list that is cut (`kernel_mutex`,
`scheduler_steps`), and where a stack underflows (`context_switch`).

### Fairness

* `Scheduler`: the tick keeps coming (a hardware timer). Nothing is assumed of
  the tasks.
* `Mutex`: a task dispatched again and again makes progress and leaves its
  critical section; the scheduler does not starve a ready task, which is what
  `scheduler` checks (`ReadyTasksGetTheCpu`). Nobody has to ask for the lock.
* `RingBuffer`: the shell reads on between the interrupts.
* `PicoTransfer`: each processor goes on with what it has begun; strong fairness
  of the timer interrupt, whose request stays pending while a command keeps it
  out. Nobody has to send.
* `PicoReceiver`: TCP delivers what was sent on a connection that stays open;
  nothing makes it stay open.
* `PicoBus`: both cores and the state machine go on, a pending interrupt is
  taken. Nobody has to type.
* `DhcpClient`: the client's polling loop ends in a reply or a timeout; servers
  and network act unless a message is lost. Losing is always possible except
  on a calm network.

## 4. What the runs show

### The four violations

1. **`scheduler_steps`** (`scheduler.c:36`): a task creates another, and the tick
   falls between `tail->next = t` and `t->next = ready_head`. `OS_Schedule`
   moves `ready_head` on to the new task, which is dispatched and preempted; when
   its creator goes on, it links the new task to itself. Whoever was on the list
   is marked ready and will never run again. The same happens when a tick in
   `OS_TaskBlock` after `ready_remove` and before `state = TASK_BLOCKED`
   (`scheduler.c:190`) marks the unlinked task ready. Nothing in `scheduler.c`
   or in its callers masks the tick.
2. **`context_switch`** (`os_yield.s:49`): a tick after `OS_Schedule` returned to
   `OS_YieldTrap` and before A7 is loaded stores the old task's stack in the new
   task's TCB. The new task then continues in the old one's code. `mutex.c:113`,
   the only call of `OS_Yield`, is made with interrupts open.
3. **`kernel_mutex`** (`mutex.c:98`): a task that waits is still on the ready
   list and is dispatched like any other; it returns from `Mutex_Lock` without
   the mutex. `scheduler.c` is not the scheduler that `mutex.c:8-33` asks for.
4. **`console`** (`commands.c:786`): LF and CR put into the keyboard buffer by
   the timer interrupt execute the line that the user is typing. This fits the
   symptom that `src/problemas.txt` describes.

Of the first two, section 5 proves the other half for every number of tasks:
as long as no tick falls inside a call (`halfway`), or between the store and the
load of A7 in a trap (`torn`), all is well.

### What the passing runs rest on

Each of these is an assumption that the module or its surroundings state, and
the model shows what is lost without it.

* **Calls into the scheduler are not interrupted** (`scheduler`): the functions
  are one step each. The first violation is what happens otherwise.
* **The premises of `mutex.c`** (`mutex`): the scheduler runs ready tasks only.
  The third violation is what happens on `scheduler.c`.
* **One file at a time** (`paced`). Otherwise the next file frees the buffer that
  the 68000 is reading (`pds200_1.c:178`), or core 1's reset of the read
  pointer falls between core 0's load and store of it (`orion_bus.c:51`) and the
  file just published is withdrawn unread. The CRC keeps mixtures off the disk
  (`DiskHoldsItsFiles` holds in all surroundings, of files that a failing disk
  cut short too), but files are lost, and no property says otherwise. A file
  whose size is a multiple of 64 KB reads as empty and never leaves the Pico;
  one whose size reads as 1 to 3 stops the 68000 in its timer interrupt, in a
  CRC over 4 GB (`picow.c:126`). Both are exceptions of `PicoBecomesIdle`.
* **Quiet surroundings of the bus** (`around`). A key typed during an access is
  taken for its answer and shifts those that follow, by one access at most while
  core 0 is prompt (`AtMostOneBehind`). The sector registers leave the 68000
  without DTACK until somebody types (`orion_bus.c:98`). `AnswersMatch` and
  `EveryKeyArrives` say nothing of these races, nor `EveryAccessEnds` of the
  sector registers.
* **A sender keeps to what it announces** (`PicoReceiver`). The code does not
  test that the bytes copied stay in the block (`pds200_1.c:156`).
* **`malloc` succeeds** (`PicoReceiver`), as far as `HeldBlocksStay` goes: a
  connection whose `malloc` failed is called back with its freed state.
* **The header in one piece** (`PicoReceiver`). A first segment shorter than the
  header is dropped and the next one is taken for it. Chained packets and
  dropped connections need no assumption: such a file is never published, and
  only a dropped connection leaves its blocks behind (no `tcp_err`).
* **One server, no other client** (`lan`). The chip gets only an address that a
  server has leased, but on a shared network perhaps to another host, as nobody
  looks at whom an ACK is for; and a second server's OFFER read in place of
  the ACK makes the call fail.

## 5. Proofs

Each theorem holds for every value of the constants that the named assumptions
allow. All are proved by an inductive invariant `IInv` and three facts:
`Init => IInv`, every action preserves it, and it implies the property.

* **`KernelProofs`**, for a pool of any size (`PoolAssumption`), in three parts.

  *The functions as one step* (`Scheduler`).
  `IInv == TypeOK /\ QueueHoldsTheRunnable /\ ListIsOneCycle /\ OnlyCurrentRuns`.
  None of these is inductive alone: unlinking a task keeps the cycle only because
  the task has exactly one predecessor, which it has because it is linked, which
  only its state tells. *One cycle* is stated without recursion: every linked
  task has exactly one predecessor, and no proper part of the list is
  closed under `next`. The lemmas about insertion and removal are stated for any
  pointers, so that the statement level can use them for the pointers a call
  *will* leave; every action is then one of insertion, removal or
  rotation. `DispatchIsSafe` is the action property.
  `SchedulerImplementsRoundRobin` is the refinement of `RoundRobin`. The queue
  `ReadyQueue` is a recursive function along the pointers, and no induction
  over its length is needed: a queue that holds each linked task once, from the
  head on (`IsLap`), satisfies the recursion, and two functions that do so agree
  because the tasks that both meet at the same place are closed under `next`,
  hence the whole list. Insertion appends to such a queue, removal
  closes the gap, and moving the head on rotates it.

  *Statement by statement* (`SchedulerSteps`), with ticks between any two
  statements. Two things hold whatever the ticks do. `StepsTypeCorrect`: in every
  call, however long ago it was interrupted, the task it works on and the pointer
  it is about to write through are in the pool. That is as far as the model
  follows a call: it stops where a walk reads NULL off a cut list, and where two
  interrupted calls of `OS_TaskCreate` have both passed the test of line 119 and
  the second would take a slot beyond the pool (line 122).
  `BootBuildsTheList`: what the boot code leaves to `OS_Start` is one cycle of the
  tasks it created. The rest
  holds until a task loses the CPU inside a call, which the history variable
  `halfway` records, and the run shows that it does not hold longer.
  `StepsInv` says that what the call under way will leave
  (`absState`, `absNext`, `absHead`) is a sound list in the sense of `IInv`, that
  the local variables of the call fit its place (`CallIsRight`), and that nobody
  else is inside a call (`OthersAreOut`). The hard part is the walk of
  `ready_remove`, which gives up after a lap: there is a set of tasks it has
  passed, none of which precedes the task sought (`Passed`); back at the head the
  set is closed under `next`, hence the whole list, hence the task is not on
  it. `StepsImplementScheduler` shows that every statement is a step of
  `Scheduler` or a stutter, `NobodyIsStranded` that a ready task is on the list
  the tick follows.

  *The context switch* (`ContextSwitch`), for any number of tasks and stacks of
  any depth (at least 1, an assumption of the theorems), with `OS_Yield` called
  open or masked. The scheduler's invariant is taken over
  (`SwitchImplementsScheduler`: a switch in steps implements the tick in one
  step, torn or not). `TasksResume` and `OffCpuTasksStaySaved` hold until a tick
  falls between the store and the load of A7 in a trap (`torn`), and in spite of
  ticks elsewhere in it: a trap handler that is interrupted before its store, or
  behind its load, leaves a context of its own above that of its task.
  `LeadsBack` is what makes the two inductive: above the context of a task that
  is off the CPU there are only such contexts, and running them, from where they
  were interrupted, gets back to it.
* **`MutexProofs`**, for any set of tasks and an arbitrary scheduler.
  `IInv == TypeOK /\ MutualExclusion /\ WaitListIsWhole /\ OwnerCanRun /\ PlacesAgree`.
  `PlacesAgree` ties a task's place in `Mutex_Lock` to its state and to
  `owner`: a task that is past its yield and not blocked owns the mutex. That is
  why `Mutex_Lock` may return without testing anything.
  `MutexImplementsFifoLock` is the refinement of `FifoLock`, by the argument of
  `ReadyQueue` for a list with two ends: `Enqueue` appends to the line of
  waiters and `Mutex_Unlock` hands over to its head.
* **`RingBufferProofs`**, for any size of at least 2 and any set of bytes.
  `IInv == TypeOK /\ ReaderIsSafe`; `RingBufferIsAFifo` proves the refinement of
  `BoundedFifo`: an accepted byte is appended (`PutAccepts`), a refused one
  leaves the queue alone, and the reader's increment takes the head
  (`GetTakesTheHead`).
* **`LineEditorProofs`**, for any history size, line length and number of
  commands. `HistoryIsTheLastLines` is inductive with the types: of any
  `HIST_SIZE` consecutive numbers, no two have the same place in the ring
  (`PlacesDiffer`), so a new line overwrites the oldest and no other
  (`AddKeepsTheOrder`). `ArrowsAreRight` is the action property.
  `WordsAreGiven` is about the tokenizer, for lines and limits of any length:
  `execute_cmd` returns the words of the line (`IsCut`). The place of the loop
  after `n` words is a recursive function (`ptr`); that it exists and that it
  stands before the start with `n` starts before it (`AfterWords`) goes by
  induction on `n`, in the form that a set of naturals with 0 and the successors
  of its elements holds them all (`SetInduction`).
* **`PicoReceiverProofs`**, for any senders, sizes and header. The invariant
  counts: what a connection has stored never exceeds what lwIP has delivered
  (`Counts`), and when the two agree every byte is in its place (`InPlace`). A
  complete file has stored all that could be delivered, so they agree.
* **`PicoTransferProofs`**, for any number and size of files and any width of a
  byte. `DiskStaysRight` and `FilesAreSavedOnceInOrder` need to know where core 0
  and `do_save2` can be at the same time (`ControlAgrees`), that paced
  surroundings leave one file between publication and withdrawal
  (`OneFileAtATime`), that what was read so far is a prefix of it
  (`ReadsOneFile`), and that a saved file does not come back (`SavedIsDone`).
* **`PicoBusProofs`**, for any number of keys and accesses and any depth of the
  FIFOs. Three layers, each resting on the one above it: whatever the
  surroundings, keys are in order in the keyboard buffer, in the FIFO and from
  one to the other (`KeysAreInOrder`); with a prompt core 0 there is one packet
  at a time and the answers in the FIFO are those to the last access or, until
  the FIFO is cleared, to the one before (`OnePacket`, `AnswersAreRecent`); in
  quiet surroundings one thing is under way, and `OneThingAtATime` lists where
  the three processors can be meanwhile.
* **`DhcpClientProofs`**, for any servers, addresses and number of calls.
  `AcksAreLeases`: every ACK, on the network or in the receive buffer, stands
  for a lease, and leases are not taken back in the model.

### Only model-checked

* Liveness, which needs fairness and ENABLED: `ReadyTasksGetTheCpu`,
  `EveryWaiterGetsIn`, `OldestByteIsRead`,
  `FilesArePublished`, `EveryFileIsSaved`, `PicoBecomesIdle`, `EveryAccessEnds`,
  `EveryKeyArrives`, `EveryCallEnds`, `CalmCallSucceeds`.

Every other property of a passing run is a theorem.

## 6. How to run

    tlc -config MCScheduler.cfg MCScheduler
    tlapm KernelProofs.tla

and likewise for the module and configuration of every run in `PROJECT.json`.

## 7. Not modelled, and why

* Third-party code (lwIP, FatFs, the FatFs_SPI driver, CP/M sources, BASIC, the
  C library) and retired or test programs (`0_retired`, `TESTES`, `docs`): most
  of the lines of the repository. It is modelled only as far as the
  project's own code depends on it.
* Device drivers that only move bytes between registers and memory (ATA, UART,
  DUART, RTC, the W5100's registers, VGA), the VGA firmware (pixels and fonts),
  hardware equations (GAL).
* Parsing of ELF files and the layout of stack frames. The task loader's
  `g_elf_args` is one record for all tasks: a second load before the first task
  has run changes that task's arguments. That is one assignment and one read,
  and a model would only restate it.
* `do_save2` inside the timer interrupt while a command is inside FatFs: a
  model without FatFs' window and file objects would only say that they are
  shared.
* The dispatch of commands (a table of strings); `cmd_repeat.c`, which is not
  called.
* The foreground diagnostic that reads a file with `receber_arquivo_do_pico`
  (`commands.c:910`): it can itself be interrupted by `do_save2`, which then
  reads the same registers.
* The PS/2 interrupt handler on the Pico does what core 1 does with a key, while
  core 0 stands still: its interleavings are among those of core 1. Decoding of
  scan codes is a table.

## 8. Status

The modules were written in this order, the most shared state first: the
scheduler and its statements, the mutex and its composition with the scheduler,
the keyboard buffer, the line editor, the console, the file transfer; then the
context switch, the receiver, the bus, the DHCP client, the tokenizer, and the
proofs about them. What could follow:

1. `PicoReceiver` and `PicoTransfer` in one specification: the publication of
   one is the input of the other, with `arquivo_buffer` shared.
2. The task loader's argument record on top of `Scheduler`.
