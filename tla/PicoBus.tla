------------------------------- MODULE PicoBus -------------------------------
(***************************************************************************)
(* The bus between the 68000 and the Pico 2 W: the PIO state machine of    *)
(* orion_bus.pio with its two FIFOs, core 0 that serves it (orion_bus.c),  *)
(* and core 1 that puts typed keys in the same transmit FIFO and pulls the *)
(* interrupt line PIRQ (pds200_1.c, ps2_keyboard.c).  The interrupt        *)
(* handler of the PS/2 keyboard does what core 1 does, while core 0 stands *)
(* still: its interleavings are among those of core 1.                     *)
(* A byte that crosses the bus is a key, numbered as typed, or the answer  *)
(* to an access, numbered as made; what the registers answer is in         *)
(* PicoTransfer.tla.                                                       *)
(***************************************************************************)
EXTENDS Integers, Sequences

CONSTANTS
  Keys,         \* bound on the keys typed
  Accesses,     \* bound on the accesses of the 68000
  FIFO          \* entries of a PIO FIFO (4)

ASSUME BusAssumption == Keys \in Nat /\ Accesses \in Nat /\ FIFO \in Nat \ {0}

VARIABLES
  rx, tx,           \* the FIFOs: packets to core 0, bytes to the 68000
  pirq, bkd_int,    \* PIRQ is pulled low; what the Pico remembers of it
  core0, packet,    \* core 0: its place, the packet it serves
  core1, typed,     \* core 1: its place, how many keys were typed
  m68k,             \* "run", or "wait" for DTACK
  saving,           \* in do_save2, with the interrupts masked
  access, reg,      \* the number of the last access, and its register
  answer,           \* the byte read last
  ring,             \* what Int3Handler has put in the keyboard buffer
  around            \* the surroundings, fixed at the start: see Prompt and Quiet

pico == <<core0, packet, core1, typed, pirq, bkd_int>>
cpu  == <<m68k, saving, access, reg, answer, ring>>
vars == <<rx, tx, pirq, bkd_int, core0, packet, core1, typed, m68k, saving, access, reg,
          answer, ring, around>>

NONE     == <<"none", 0>>
Key(k)   == <<"key", k>>
Reply(n) == <<"reply", n>>

(* The registers, by what gerenciar_barramento_m68k does with them: 0x09,   *)
(* the key; 0x0A to 0x0C, the sector commands; all the others.              *)
Registers == {"key", "sector", "file"}

Init ==
  /\ rx = <<>> /\ tx = <<>>
  /\ pirq = FALSE /\ bkd_int = FALSE
  /\ core0 = "poll" /\ packet = <<"file", 0>>
  /\ core1 = "poll" /\ typed = 0
  /\ m68k = "run" /\ saving = FALSE /\ access = 0 /\ reg = "file" /\ answer = NONE
  /\ ring = <<>>
  /\ around \in {"any", "prompt", "quiet"}

(* Prompt surroundings: core 0 has finished with one access before the 68000 *)
(* makes the next.  Quiet ones: core 1 has finished with its key too, no key *)
(* is typed while a file is saved or another key is on its way, and no      *)
(* sector command is given.                                                 *)
Prompt == around # "any" => rx = <<>> /\ core0 = "poll"
Quiet  == around = "quiet" => core1 = "poll"

-----------------------------------------------------------------------------
(* The state machine pulls a byte from the transmit FIFO: DTACK ends the    *)
(* cycle.  Int3Handler puts what it read in the keyboard buffer.            *)
Pull(r) ==
  /\ tx # <<>>
  /\ answer' = Head(tx)
  /\ tx' = Tail(tx)
  /\ ring' = IF r = "key" THEN Append(ring, Head(tx)) ELSE ring
  /\ m68k' = "run"

(* push noblock: a packet that finds the FIFO full is dropped, and the      *)
(* access goes on.                                                          *)
Push(p) == rx' = IF Len(rx) < FIFO THEN Append(rx, p) ELSE rx

(* The 68000 begins a bus cycle: the state machine pushes the packet and    *)
(* pulls in the next clock cycle, before core 0 has moved; if the FIFO is   *)
(* empty it blocks.                                                         *)
Access(r) ==
  /\ m68k = "run"
  /\ access < Accesses
  /\ Prompt /\ Quiet
  /\ access' = access + 1
  /\ reg' = r
  /\ Push(<<r, access + 1>>)
  /\ \/ Pull(r)
     \/ tx = <<>> /\ m68k' = "wait" /\ UNCHANGED <<tx, answer, ring>>
  /\ UNCHANGED <<pico, saving, around>>

Dtack ==
  /\ m68k = "wait"
  /\ Pull(reg)
  /\ UNCHANGED <<rx, pico, saving, access, reg, around>>

(* do_save2 and the shell commands read a file; PIRQ comes first unless it  *)
(* is masked.                                                               *)
Open == saving \/ ~pirq

ReadFile      == Open /\ Access("file")
SectorCommand == Open /\ ~saving /\ around # "quiet" /\ Access("sector")
Int3Handler   == pirq /\ ~saving /\ Access("key")

(* Int2Handler masks the interrupts around do_save2. *)
Save ==
  /\ m68k = "run"
  /\ Open
  /\ Quiet
  /\ saving' = ~saving
  /\ UNCHANGED <<rx, tx, pico, m68k, access, reg, answer, ring, around>>

-----------------------------------------------------------------------------
(* Core 0, gerenciar_barramento_m68k: kbd_int_off in two statements. *)
PirqHigh ==
  /\ core0 = "poll"
  /\ rx # <<>>
  /\ pirq' = FALSE
  /\ core0' = "off"
  /\ UNCHANGED <<rx, tx, bkd_int, packet, core1, typed, cpu, around>>

IntOff ==
  /\ core0 = "off"
  /\ bkd_int' = FALSE
  /\ core0' = "get"
  /\ UNCHANGED <<rx, tx, pirq, packet, core1, typed, cpu, around>>

Get ==
  /\ core0 = "get"
  /\ packet' = Head(rx)
  /\ rx' = Tail(rx)
  /\ core0' = "clear"
  /\ UNCHANGED <<tx, pirq, bkd_int, core1, typed, cpu, around>>

\* Mutant: only the receive FIFO is cleared.
Clear_rx ==
  /\ core0 = "clear"
  /\ rx' = <<>>
  /\ core0' = "answer"
  /\ UNCHANGED <<tx, pirq, bkd_int, packet, core1, typed, cpu, around>>

(* pio_sm_clear_fifos: both. *)
Clear ==
  /\ core0 = "clear"
  /\ rx' = <<>> /\ tx' = <<>>
  /\ core0' = "answer"
  /\ UNCHANGED <<pirq, bkd_int, packet, core1, typed, cpu, around>>

\* Mutant: no bound.
Put_always(b) == tx' = Append(tx, b)

(* pio_sm_put does nothing when the FIFO is full. *)
Put(b) == tx' = IF Len(tx) < FIFO THEN Append(tx, b) ELSE tx

\* Mutants: the key register is answered too; no register is.
Answers_all(r) == TRUE
Answers_none(r) == FALSE

(* The cases that end in return, not in break, answer nothing. *)
Answers(r) == r \notin {"key", "sector"}

Serve ==
  /\ core0 = "answer"
  /\ IF Answers(packet[1]) THEN Put(Reply(packet[2])) ELSE UNCHANGED tx
  /\ core0' = "poll"
  /\ UNCHANGED <<rx, pirq, bkd_int, packet, core1, typed, cpu, around>>

-----------------------------------------------------------------------------
(* Someone types, and the surroundings allow it. *)
Types ==
  /\ core1 = "poll"
  /\ typed < Keys
  /\ around = "quiet" => rx = <<>> /\ core0 = "poll" /\ m68k = "run" /\ ~saving /\ ~pirq
  /\ typed' = typed + 1
  /\ UNCHANGED <<rx, pirq, bkd_int, core0, packet, cpu, around>>

\* Mutants: the key is put in the FIFO twice, or not at all.
Type_twice ==
  /\ Types
  /\ tx' = IF Len(tx) < FIFO - 1 THEN tx \o <<Key(typed + 1), Key(typed + 1)>> ELSE tx
  /\ core1' = "test"

Type_lost == Types /\ UNCHANGED <<tx, core1>>

(* Core 1: the key goes to the FIFO, then kbd_int_on in its statements. *)
Type ==
  /\ Types
  /\ Put(Key(typed + 1))
  /\ core1' = "test"

Test ==
  /\ core1 = "test"
  /\ core1' = IF bkd_int THEN "poll" ELSE "pirq"
  /\ UNCHANGED <<rx, tx, pirq, bkd_int, core0, packet, typed, cpu, around>>

PirqLow ==
  /\ core1 = "pirq"
  /\ pirq' = TRUE
  /\ core1' = "on"
  /\ UNCHANGED <<rx, tx, bkd_int, core0, packet, typed, cpu, around>>

IntOn ==
  /\ core1 = "on"
  /\ bkd_int' = TRUE
  /\ core1' = "poll"
  /\ UNCHANGED <<rx, tx, pirq, core0, packet, typed, cpu, around>>

Core0 == PirqHigh \/ IntOff \/ Get \/ Clear \/ Serve
Core1 == Test \/ PirqLow \/ IntOn

Next == ReadFile \/ SectorCommand \/ Int3Handler \/ Dtack \/ Save \/ Core0 \/ Type \/ Core1

Spec == Init /\ [][Next]_vars

(* Both cores and the state machine run, and an interrupt that stays        *)
(* requested is taken.                                                      *)
FairSpec ==
  /\ Spec
  /\ WF_vars(Core0)
  /\ WF_vars(Core1)
  /\ WF_vars(Dtack)
  /\ WF_vars(Int3Handler)

-----------------------------------------------------------------------------
(* Properties.                                                             *)

Bytes == {Key(k) : k \in 1..Keys} \cup {Reply(n) : n \in 1..Accesses}

(* No FIFO holds more than its entries, and only keys and answers cross    *)
(* the bus.                                                                *)
TypeOK ==
  /\ rx \in Seq(Registers \X (1..Accesses)) /\ Len(rx) <= FIFO
  /\ tx \in Seq(Bytes) /\ Len(tx) <= FIFO
  /\ pirq \in BOOLEAN /\ bkd_int \in BOOLEAN /\ saving \in BOOLEAN /\ around \in {"any", "prompt", "quiet"}
  /\ core0 \in {"poll", "off", "get", "clear", "answer"}
  /\ packet \in Registers \X (0..Accesses)
  /\ core1 \in {"poll", "test", "pirq", "on"} /\ typed \in 0..Keys
  /\ m68k \in {"run", "wait"} /\ access \in 0..Accesses /\ reg \in Registers
  /\ answer \in Bytes \cup {NONE}
  /\ ring \in Seq(Bytes)

(* In quiet surroundings a register read is answered by core 0, for that    *)
(* access, and never by a key (orion_bus.c:130, pds200_1.c:314); and the    *)
(* keyboard buffer gets the typed keys, each once and in their order.       *)
AnswersMatch ==
  around = "quiet" =>
    /\ m68k = "run" /\ access > 0 /\ reg = "file" => answer = Reply(access)
    /\ \A i \in 1..Len(ring) : ring[i] = Key(i)

(* If core 0 is prompt, keys typed at any moment shift the answers by one   *)
(* access at most: a shift never grows (pio_sm_clear_fifos, orion_bus.c:38).*)
AtMostOneBehind ==
  around # "any" /\ m68k = "run" /\ answer[1] = "reply" => answer[2] \in access - 1..access

(* Whatever the surroundings, no key is put in the keyboard buffer twice or *)
(* after one that was typed later.                                          *)
KeysNeverRepeat ==
  \A i, j \in 1..Len(ring) :
    i < j /\ ring[i][1] = "key" /\ ring[j][1] = "key" => ring[i][2] < ring[j][2]

(* The 68000 is not left without DTACK: never in quiet surroundings, and,   *)
(* if core 0 is prompt, never when it reads a file, whatever is typed       *)
(* meanwhile.                                                               *)
EveryAccessEnds ==
  m68k = "wait" /\ (around = "quiet" \/ (around = "prompt" /\ reg = "file")) ~> m68k = "run"

(* In quiet surroundings every key that is typed reaches the keyboard       *)
(* buffer (as long as the bound leaves an access for it).                   *)
EveryKeyArrives ==
  \A k \in 1..Keys :
    around = "quiet" /\ typed = k ~> access = Accesses \/ \E i \in 1..Len(ring) : ring[i] = Key(k)
=============================================================================
