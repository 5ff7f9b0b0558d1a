---------------------------- MODULE PicoTransfer ----------------------------
(***************************************************************************)
(* How a file gets from the Pico 2 W to the disk of the 68000.  Three      *)
(* processors share five variables of the Pico without a lock: core 1      *)
(* publishes a file it has received (pds200_1.c, tcp_server_recv), core 0  *)
(* answers the 68000's register accesses (orion_bus.c), and the 68000, in  *)
(* its timer interrupt and with all others masked, reads the file byte by  *)
(* byte, checks its CRC and saves it (do_save2, picow.c).                  *)
(* Each statement of core 1 that writes a shared variable is a step.  The  *)
(* CRC is ideal: only the bytes it was computed from match it.  The TCP    *)
(* side is reduced to whole files, the bus to one access at a time.        *)
(***************************************************************************)
EXTENDS Integers, Sequences

CONSTANTS
  Files,        \* how many files the senders send, one after the other
  Size,         \* Size[f]: bytes of file f with its header, arquivo_tamanho
  Byte,         \* values of a byte (256): a size register holds one
  Field,        \* bytes of the crc32 field a file begins with (4)
  Header        \* bytes before its content: crc32, tamanho_total, name (21)

ASSUME TransferAssumption ==
  /\ Files \in Nat
  /\ Field \in Nat \ {0} /\ Header \in Nat /\ Header > Field
  /\ Size \in [1..Files -> Nat] /\ \A f \in 1..Files : Size[f] >= Header
  /\ Byte \in Nat \ {0}

NULL   == 0    \* no file
SECTOR == -1   \* the CRC of an SD sector
MIXED  == -2   \* a CRC put together from two

VARIABLES
  arquivo_buffer, arquivo_tamanho, arquivo_crc32,   \* the published file
  ponteiro_leitura, arquivo_pronto,
  core1, file,           \* core 1: its place, the file it received last
  core0, loaded,         \* core 0: its place in an access, its copy of the pointer
  m68k,                  \* the access do_save2 is in, "idle" outside it
  high, tamanho, dest,   \* its locals: size read so far, bytes read
  crc, crcs,             \* the CRC read and how many of its registers
  disk,                  \* what do_save2 put on the disk, in order: under which
                         \* name, what, and whether it got to its end
  paced                  \* the surroundings, fixed at the start: whether a file is
                         \* only sent once the one before is through, no SD sector
                         \* is read meanwhile, and f_open, f_write, f_close succeed

pico == <<arquivo_buffer, arquivo_tamanho, arquivo_crc32, ponteiro_leitura, arquivo_pronto>>
c1   == <<core1, file, paced>>
locals == <<high, tamanho, dest, crc, crcs>>
save == <<m68k, high, tamanho, dest, crc, crcs, disk>>
vars == <<arquivo_buffer, arquivo_tamanho, arquivo_crc32, ponteiro_leitura, arquivo_pronto,
          core1, file, core0, loaded, m68k, high, tamanho, dest, crc, crcs, disk, paced>>

Whole(f)   == [i \in 1..Size[f] |-> <<f, i - 1>>]
Content(f) == SubSeq(Whole(f), Header + 1, Size[f])

Init ==
  /\ arquivo_buffer = NULL /\ arquivo_tamanho = 0 /\ arquivo_crc32 = NULL
  /\ ponteiro_leitura = 0 /\ arquivo_pronto = FALSE
  /\ core1 = "poll" /\ file = 0
  /\ core0 = "wait" /\ loaded = 0
  /\ m68k = "idle" /\ high = 0 /\ tamanho = 0 /\ dest = <<>> /\ crc = NULL /\ crcs = 0
  /\ disk = <<>> /\ paced \in BOOLEAN

-----------------------------------------------------------------------------
(* Core 1.  The last packet of a file is in: it is published in this order. *)

FreeOld ==
  /\ core1 = "poll"
  /\ file < Files
  /\ paced => ~arquivo_pronto /\ m68k = "idle"
  /\ file' = file + 1
  /\ arquivo_buffer' = NULL
  /\ core1' = "buffer"
  /\ UNCHANGED <<arquivo_tamanho, arquivo_crc32, ponteiro_leitura, arquivo_pronto,
                 paced, core0, loaded, save>>

SetBuffer ==
  /\ core1 = "buffer"
  /\ arquivo_buffer' = file
  /\ core1' = "size"
  /\ UNCHANGED <<arquivo_tamanho, arquivo_crc32, ponteiro_leitura, arquivo_pronto,
                 file, paced, core0, loaded, save>>

SetSize ==
  /\ core1 = "size"
  /\ arquivo_tamanho' = Size[file]
  /\ core1' = "crc"
  /\ UNCHANGED <<arquivo_buffer, arquivo_crc32, ponteiro_leitura, arquivo_pronto,
                 file, paced, core0, loaded, save>>

\* Mutant: the CRC of the file before is left in place.
SetCrc_stale ==
  /\ core1 = "crc"
  /\ core1' = "pointer"
  /\ UNCHANGED <<pico, file, paced, core0, loaded, save>>

SetCrc ==
  /\ core1 = "crc"
  /\ arquivo_crc32' = file
  /\ core1' = "pointer"
  /\ UNCHANGED <<arquivo_buffer, arquivo_tamanho, ponteiro_leitura, arquivo_pronto,
                 file, paced, core0, loaded, save>>

ResetPointer ==
  /\ core1 = "pointer"
  /\ ponteiro_leitura' = 0
  /\ core1' = "release"
  /\ UNCHANGED <<arquivo_buffer, arquivo_tamanho, arquivo_crc32, arquivo_pronto,
                 file, paced, core0, loaded, save>>

Publish ==
  /\ core1 = "release"
  /\ arquivo_pronto' = TRUE
  /\ core1' = "poll"
  /\ UNCHANGED <<arquivo_buffer, arquivo_tamanho, arquivo_crc32, ponteiro_leitura,
                 file, paced, core0, loaded, save>>

-----------------------------------------------------------------------------
(* Core 0, gerenciar_barramento_m68k, on every access: first a file that    *)
(* was read to its end is withdrawn.  (The two assignments are one step:    *)
(* what core 1 writes between them might as well come before the first.)    *)

Check ==
  /\ core0 = "check"
  /\ core0' = IF arquivo_pronto /\ ponteiro_leitura >= arquivo_tamanho
              THEN "withdraw" ELSE "serve"
  /\ UNCHANGED <<pico, c1, loaded, save>>

\* Mutant: the file is offered again.
Withdraw_not ==
  /\ core0 = "withdraw"
  /\ ponteiro_leitura' = 0
  /\ core0' = "serve"
  /\ UNCHANGED <<arquivo_buffer, arquivo_tamanho, arquivo_crc32, arquivo_pronto, c1, loaded, save>>

Withdraw ==
  /\ core0 = "withdraw"
  /\ ponteiro_leitura' = 0
  /\ arquivo_pronto' = FALSE
  /\ core0' = "serve"
  /\ UNCHANGED <<arquivo_buffer, arquivo_tamanho, arquivo_crc32, c1, loaded, save>>

(* do_save2 goes on: to the next access, or back from the interrupt, where  *)
(* its locals end.                                                          *)
Access(reg) == m68k' = reg /\ core0' = "check"

Leave ==
  /\ m68k' = "idle" /\ core0' = "wait"
  /\ high' = 0 /\ tamanho' = 0 /\ dest' = <<>> /\ crc' = NULL /\ crcs' = 0

Serve(reg) == core0 = "serve" /\ m68k = reg

(* Reg 0x01, PICO_STATUS_REG: do_save2 returns unless a file is there. *)
Status ==
  /\ Serve("status")
  /\ IF arquivo_pronto THEN Access("high1") /\ UNCHANGED locals ELSE Leave
  /\ UNCHANGED <<pico, c1, loaded, disk>>

HighByte == (arquivo_tamanho \div Byte) % Byte

(* Regs 0x02 and 0x03, PICO_SIZE_HIGH and PICO_SIZE_LOW, each read twice;   *)
(* the second answer counts.  A size of 0 is taken for a CRC error.         *)
SizeHigh ==
  \/ /\ Serve("high1")
     /\ Access("high2")
     /\ UNCHANGED <<pico, c1, loaded, locals, disk>>
  \/ /\ Serve("high2")
     /\ high' = HighByte
     /\ Access("low1")
     /\ UNCHANGED <<pico, c1, loaded, tamanho, dest, crc, crcs, disk>>

SizeLow ==
  \/ /\ Serve("low1")
     /\ Access("low2")
     /\ UNCHANGED <<pico, c1, loaded, locals, disk>>
  \/ /\ Serve("low2")
     /\ LET size == high * Byte + (arquivo_tamanho % Byte)
        IN  IF size = 0 THEN Leave
            ELSE Access("data") /\ tamanho' = size /\ UNCHANGED <<high, dest, crc, crcs>>
     /\ UNCHANGED <<pico, c1, loaded, disk>>

(* Reg 0x00: no test that a file is there or that the pointer is inside it. *)
(* ponteiro_leitura++ loads the pointer here and stores it in Advance.      *)
Fetch ==
  /\ Serve("data")
  /\ dest' = Append(dest, <<IF ponteiro_leitura < arquivo_tamanho
                            THEN arquivo_buffer ELSE NULL, ponteiro_leitura>>)
  /\ loaded' = ponteiro_leitura
  /\ core0' = "advance"
  /\ UNCHANGED <<pico, c1, m68k, high, tamanho, crc, crcs, disk>>

\* Mutant: the pointer is not advanced.
Advance_stuck ==
  /\ core0 = "advance"
  /\ Access(IF Len(dest) < tamanho THEN "data" ELSE "crc")
  /\ loaded' = 0
  /\ UNCHANGED <<pico, c1, locals, disk>>

Advance ==
  /\ core0 = "advance"
  /\ ponteiro_leitura' = loaded + 1
  /\ Access(IF Len(dest) < tamanho THEN "data" ELSE "crc")
  /\ loaded' = 0
  /\ UNCHANGED <<arquivo_buffer, arquivo_tamanho, arquivo_crc32, arquivo_pronto, c1, locals, disk>>

(* Regs 0x04 to 0x07; then the CRC of the bytes is computed and compared. *)
Crc ==
  /\ Serve("crc")
  /\ crcs' = crcs + 1
  /\ crc' = IF crcs = 0 \/ crc = arquivo_crc32 THEN arquivo_crc32 ELSE MIXED
  /\ IF crcs' < 4 THEN Access("crc") ELSE m68k' = "compare" /\ core0' = "wait"
  /\ UNCHANGED <<pico, c1, loaded, high, tamanho, dest, disk>>

\* Mutant: the comparison is left out.
CrcMatches_always == TRUE

(* The crc32 field itself is not among the bytes the CRC is computed from. *)
CrcMatches == /\ crc \in 1..Files
              /\ Len(dest) = Size[crc]
              /\ \A i \in Field + 1..Len(dest) : dest[i] = Whole(crc)[i]

(* There are tamanho_arquivo - 4 of them, computed without a sign: a size   *)
(* below 4, which one modulo 64 KB may be, makes the CRC run over 4 GB, the  *)
(* registers of the Pico among them.  The 68000 does not come back from it. *)
CrcEnds == tamanho >= Field

Entry(f, data, saved) == [name |-> f, data |-> data, saved |-> saved]

(* The name is read from the header, the content from behind it.  A file    *)
(* without content is refused, and so is one that cannot be opened.  f_open *)
(* creates or empties the file; if f_write then writes less than it was     *)
(* given or f_close fails, what was written stays there.  There is no       *)
(* second attempt.                                                          *)
SaveFile ==
  /\ m68k = "compare"
  /\ CrcEnds
  /\ Leave
  /\ LET name == dest[Header][1]
         data == SubSeq(dest, Header + 1, Len(dest))
     IN \/ /\ CrcMatches /\ tamanho > Header
           /\ \/ disk' = Append(disk, Entry(name, data, TRUE))
              \/ /\ ~paced
                 /\ \E n \in 0..Len(data) :
                      disk' = Append(disk, Entry(name, SubSeq(data, 1, n), FALSE))
              \/ ~paced /\ UNCHANGED disk
        \/ ~(CrcMatches /\ tamanho > Header) /\ UNCHANGED disk
  /\ UNCHANGED <<pico, c1, loaded>>

(* The timer interrupt calls do_save2. *)
Int2Handler ==
  /\ m68k = "idle"
  /\ Access("status")
  /\ UNCHANGED <<pico, c1, loaded, locals, disk>>

(* A shell command reads an SD sector.  Reg 0x0C: the sector's CRC goes     *)
(* where the file's is.                                                     *)
SectorCommand ==
  /\ ~paced
  /\ m68k = "idle"
  /\ Access("sector")
  /\ UNCHANGED <<pico, c1, loaded, locals, disk>>

LoadSector ==
  /\ Serve("sector")
  /\ arquivo_crc32' = SECTOR
  /\ core0' = "wait"
  /\ UNCHANGED <<arquivo_buffer, arquivo_tamanho, ponteiro_leitura, arquivo_pronto,
                 c1, loaded, m68k, locals, disk>>

(* Core 0 does not answer regs 0x0A to 0x0C: the 68000 waits for DTACK until *)
(* a key is typed (PicoBus.tla), if one is.                                 *)
KeyTyped ==
  /\ m68k = "sector" /\ core0 = "wait"
  /\ Leave
  /\ UNCHANGED <<pico, c1, loaded, disk>>

Core1  == SetBuffer \/ SetSize \/ SetCrc \/ ResetPointer \/ Publish
Core0  == Check \/ Withdraw \/ Status \/ SizeHigh \/ SizeLow \/ Fetch \/ Advance \/ Crc
          \/ LoadSector
M68k   == Int2Handler \/ SaveFile

Next == FreeOld \/ Core1 \/ Core0 \/ M68k \/ SectorCommand \/ KeyTyped

Spec == Init /\ [][Next]_vars

(* The three processors run; senders send, users type and commands run when *)
(* they like.                                                               *)
(* A timer interrupt that finds a command busy stays pending: strong        *)
(* fairness.                                                                *)
FairSpec ==
  /\ Spec
  /\ WF_vars(Core1)
  /\ WF_vars(Core0)
  /\ WF_vars(M68k)
  /\ SF_vars(Int2Handler)

-----------------------------------------------------------------------------
(* Properties.                                                             *)

Registers == {"idle", "status", "high1", "high2", "low1", "low2", "data", "crc",
              "compare", "sector"}

TypeOK ==
  /\ arquivo_buffer \in 0..Files
  /\ arquivo_tamanho \in {0} \cup {Size[f] : f \in 1..Files}
  /\ arquivo_crc32 \in SECTOR..Files
  /\ ponteiro_leitura \in Nat
  /\ arquivo_pronto \in BOOLEAN
  /\ core1 \in {"poll", "buffer", "size", "crc", "pointer", "release"} /\ file \in 0..Files
  /\ core0 \in {"wait", "check", "withdraw", "serve", "advance"}
  /\ m68k \in Registers
  /\ tamanho \in 0..(Byte * Byte - 1)
  /\ m68k \in {"data", "crc", "compare"} => Len(dest) <= tamanho
  /\ crcs \in 0..4

(* Whatever the three do to one another, and whatever the disk refuses,     *)
(* what is on it under a name is the content of the file sent under that    *)
(* name: all of it if do_save2 got to its end, a beginning of it if a write *)
(* failed, and never a mixture of two files or the bytes behind the end     *)
(* (do_save2 returns unless the CRC is right).                              *)
DiskHoldsItsFiles ==
  \A i \in 1..Len(disk) :
    LET e == disk[i]
    IN  /\ e.name \in 1..Files
        /\ e.data = SubSeq(Content(e.name), 1, Len(e.data))
        /\ e.saved => e.data = Content(e.name)

(* A file is withdrawn once it was read: in paced surroundings none is      *)
(* saved twice, and they are saved in the order in which they came.         *)
SavedOnceInOrder ==
  paced => \A i, j \in 1..Len(disk) : i < j => disk[i].name < disk[j].name

(* In paced surroundings every file that has content and whose size fits    *)
(* the two registers gets to the disk whole (tcp_server_recv, the register  *)
(* handlers and do_save2 together).                                         *)
EveryFileIsSaved ==
  \A f \in 1..Files :
    paced /\ file = f /\ Size[f] \in Header + 1..Byte * Byte - 1
      ~> \E i \in 1..Len(disk) : disk[i] = Entry(f, Content(f), TRUE)

(* In any surroundings the Pico is idle again once a published file was     *)
(* read, whether or not it could be saved.  There are three exceptions: a   *)
(* file whose size, a multiple of 64 KB, reads as 0 in the two registers is *)
(* offered until another takes its place; and the 68000 may stop for good,  *)
(* in a sector command or in the CRC of a size that reads as 1 to 3.        *)
PicoBecomesIdle ==
  arquivo_pronto ~> \/ ~arquivo_pronto
                    \/ arquivo_tamanho % (Byte * Byte) = 0
                    \/ [](m68k = "sector")
                    \/ [](m68k = "compare" /\ ~CrcEnds)
=============================================================================
