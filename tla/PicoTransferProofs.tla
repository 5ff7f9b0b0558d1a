------------------------- MODULE PicoTransferProofs -------------------------
(***************************************************************************)
(* Proofs about PicoTransfer.tla, for any number of files of any size and  *)
(* any width of a byte: what reaches the disk is a file as it was sent, or *)
(* a beginning of one, and in paced surroundings none is saved twice or    *)
(* out of order.                                                           *)
(***************************************************************************)
EXTENDS PicoTransfer, SequenceTheorems, TLAPS

(* What the variables hold that TypeOK does not need to say. *)
Cells == (0..Files) \X Nat

LocalTypes ==
  /\ loaded \in Nat /\ high \in 0..(Byte - 1)
  /\ dest \in Seq(Cells)
  /\ disk \in Seq([name : 1..Files, data : Seq(Cells), saved : BOOLEAN])
  /\ crc \in MIXED..Files /\ paced \in BOOLEAN

(* Where core 0 can be in an access of the 68000, and what do_save2 has     *)
(* read at each place.                                                      *)
ControlAgrees ==
  /\ core1 # "poll" => file >= 1
  /\ m68k \in {"idle", "compare"} => core0 = "wait"
  /\ core0 = "wait" => m68k \in {"idle", "compare", "sector"}
  /\ core0 = "advance" => m68k = "data" /\ Len(dest) > 0 /\ loaded = dest[Len(dest)][2]
  /\ m68k \notin {"data", "crc", "compare"} => dest = <<>> /\ crcs = 0
  /\ m68k = "data" => crcs = 0 /\ (core0 # "advance" => Len(dest) < tamanho)
  /\ m68k = "crc" => crcs < 4

Reading == {"high1", "high2", "low1", "low2", "data", "crc", "compare"}

(* In paced surroundings core 1 only writes while nothing is published and  *)
(* nothing is read ...                                                      *)
Published == arquivo_buffer = file /\ arquivo_tamanho = Size[file] /\ file >= 1

OneFileAtATime ==
  paced =>
    /\ m68k # "sector"
    /\ core1 \in {"size", "crc", "pointer", "release"} => arquivo_buffer = file
    /\ core1 \in {"crc", "pointer", "release"} => arquivo_tamanho = Size[file]
    /\ arquivo_pronto \/ m68k \in Reading => core1 = "poll" /\ Published

(* ... so that all bytes read come from the one file, and the read pointer  *)
(* is just behind the last of them until the file is withdrawn.             *)
ReadsOneFile ==
  paced /\ m68k \in Reading =>
    /\ \A i \in 1..Len(dest) : dest[i][1] \in {NULL, file}
    /\ arquivo_pronto /\ core0 # "advance" /\ Len(dest) > 0 =>
         ponteiro_leitura = dest[Len(dest)][2] + 1

Source(i) == disk[i].name

(* A saved file was read to its end: core 0 withdraws it before it answers  *)
(* the next question whether there is one.                                  *)
SavedIsDone ==
  paced =>
    /\ \A i \in 1..Len(disk) : Source(i) <= file
    /\ (\E i \in 1..Len(disk) : Source(i) = file) =>
         /\ core1 = "poll"
         /\ m68k \notin Reading
         /\ arquivo_pronto => ponteiro_leitura >= arquivo_tamanho /\ core0 # "serve"

IInv ==
  /\ TypeOK /\ LocalTypes /\ ControlAgrees
  /\ OneFileAtATime /\ ReadsOneFile /\ SavedIsDone
  /\ DiskHoldsItsFiles /\ SavedOnceInOrder

-----------------------------------------------------------------------------
(* Sequences.                                                               *)

LEMMA SliceOf ==
  ASSUME NEW S, NEW s \in Seq(S), NEW h \in Nat, h <= Len(s)
  PROVE  /\ SubSeq(s, h + 1, Len(s)) \in Seq(S)
         /\ Len(SubSeq(s, h + 1, Len(s))) = Len(s) - h
         /\ \A i \in 1..(Len(s) - h) : SubSeq(s, h + 1, Len(s))[i] = s[h + i]
<1>1. Len(s) \in Nat /\ h + 1 \in Int /\ Len(s) \in Int
  OBVIOUS
<1>2. \A i \in (h + 1)..Len(s) : s[i] \in S
  BY <1>1
<1>3. /\ SubSeq(s, h + 1, Len(s)) \in Seq(S)
      /\ Len(SubSeq(s, h + 1, Len(s))) = IF h + 1 <= Len(s) THEN Len(s) - (h + 1) + 1 ELSE 0
      /\ \A i \in 1..(Len(s) - (h + 1) + 1) : SubSeq(s, h + 1, Len(s))[i] = s[(h + 1) + i - 1]
  BY <1>1, <1>2, SubSeqProperties
<1>4. Len(s) - (h + 1) + 1 = Len(s) - h /\ \A i \in Nat : (h + 1) + i - 1 = h + i
  BY <1>1
<1>5. (IF h + 1 <= Len(s) THEN Len(s) - (h + 1) + 1 ELSE 0) = Len(s) - h
  BY <1>1
<1>6. \A i \in 1..(Len(s) - h) : SubSeq(s, h + 1, Len(s))[i] = s[h + i]
  BY <1>1, <1>3, <1>4
<1> QED BY <1>3, <1>5, <1>6

-----------------------------------------------------------------------------
(* Every step keeps the invariant.                                          *)

(* The bytes of a file, and those behind its header. *)
LEMMA WholeIsASeq ==
  ASSUME NEW f \in 1..Files
  PROVE  /\ Whole(f) \in Seq(Cells) /\ Len(Whole(f)) = Size[f]
         /\ Size[f] \in Nat /\ Size[f] >= Header
         /\ \A i \in 1..Size[f] : Whole(f)[i] = <<f, i - 1>>
         /\ Content(f) \in Seq(Cells) /\ Len(Content(f)) = Size[f] - Header
         /\ \A i \in 1..(Size[f] - Header) : Content(f)[i] = <<f, i + Header - 1>>
<1>1. Files \in Nat /\ Size[f] \in Nat /\ Size[f] >= Header /\ Header \in Nat
  BY TransferAssumption
<1>2. \A i \in 1..Size[f] : <<f, i - 1>> \in Cells
  BY <1>1 DEF Cells
<1>3. Whole(f) \in Seq(Cells) /\ Len(Whole(f)) = Size[f]
  BY <1>1, <1>2 DEF Whole
<1>4. \A i \in 1..Size[f] : Whole(f)[i] = <<f, i - 1>>
  BY DEF Whole
<1> HIDE DEF Whole
<1>5. /\ Content(f) \in Seq(Cells) /\ Len(Content(f)) = Size[f] - Header
      /\ \A i \in 1..(Size[f] - Header) : Content(f)[i] = Whole(f)[Header + i]
  BY <1>1, <1>3, SliceOf DEF Content
<1>6. \A i \in 1..(Size[f] - Header) : Header + i \in 1..Size[f] /\ (Header + i) - 1 = i + Header - 1
  BY <1>1
<1>7. QED BY <1>1, <1>3, <1>4, <1>5, <1>6

(* Every entry of the disk has the name of a file. *)
LEMMA SourceIsAFile ==
  ASSUME LocalTypes, NEW i \in 1..Len(disk)
  PROVE  Source(i) \in 1..Files
<1> DEFINE Entries == [name : 1..Files, data : Seq(Cells), saved : BOOLEAN]
<1>1. disk \in Seq(Entries)
  BY DEF LocalTypes
<1> HIDE DEF Entries
<1>2. disk[i] \in Entries
  BY <1>1
<1> QED BY <1>2 DEF Entries, Source

(* Two registers of Byte values hold less than Byte * Byte. *)
LEMMA RegistersHold ==
  ASSUME NEW x \in Nat, NEW h \in 0..(Byte - 1)
  PROVE  /\ (x \div Byte) % Byte \in 0..(Byte - 1)
         /\ h * Byte + (x % Byte) \in 0..(Byte * Byte - 1)
<1>1. Byte \in Nat \ {0}
  BY TransferAssumption
<1>2. x \div Byte \in Nat /\ x % Byte \in 0..(Byte - 1)
  BY <1>1
<1>3. (x \div Byte) % Byte \in 0..(Byte - 1)
  BY <1>1, <1>2
<1>4. h * Byte \in Nat /\ h * Byte <= (Byte - 1) * Byte
  BY <1>1
<1>5. (Byte - 1) * Byte = Byte * Byte - Byte
  BY <1>1
<1>6. QED BY <1>1, <1>2, <1>3, <1>4, <1>5

(* Steps that save nothing. *)
LEMMA DiskFrame ==
  ASSUME IInv, UNCHANGED <<disk, paced>>
  PROVE  DiskHoldsItsFiles' /\ SavedOnceInOrder'
BY DEF IInv, DiskHoldsItsFiles, SavedOnceInOrder, Content, Whole

LEMMA FreeOldInv == ASSUME IInv, FreeOld PROVE IInv'
<1> USE TransferAssumption DEF IInv, pico, c1, save, NULL, SECTOR, MIXED, locals
<1>1. TypeOK' /\ LocalTypes'
  BY DEF FreeOld, TypeOK, LocalTypes, ControlAgrees, Registers, Cells
<1>2. ControlAgrees'
  BY DEF FreeOld, TypeOK, LocalTypes, ControlAgrees
<1>3. OneFileAtATime'
  BY DEF FreeOld, TypeOK, LocalTypes, ControlAgrees, OneFileAtATime, Reading, Published
<1>4. ReadsOneFile'
  BY DEF FreeOld, TypeOK, LocalTypes, ControlAgrees, OneFileAtATime, ReadsOneFile, Reading, Published, Cells
<1>5. SavedIsDone'
  <2>1. \A i \in 1..Len(disk) : Source(i) \in 1..Files
    BY SourceIsAFile
  <2>2. /\ \A i \in 1..Len(disk) : Source(i)' = Source(i)
        /\ disk' = disk /\ paced' = paced /\ file' = file + 1
    BY DEF FreeOld, Source
  <2>3. paced => \A i \in 1..Len(disk) : Source(i) < file + 1
    BY <2>1 DEF TypeOK, SavedIsDone
  <2>4. paced' => \A i \in 1..Len(disk') : Source(i)' < file'
    BY <2>2, <2>3
  <2>5. \A i \in 1..Len(disk') : Source(i)' \in Int
    BY <2>1, <2>2
  <2>6. file' \in Int
    BY <2>2 DEF TypeOK
  <2>7. QED BY <2>4, <2>5, <2>6 DEF SavedIsDone
<1>6. DiskHoldsItsFiles' /\ SavedOnceInOrder'
  BY DiskFrame DEF FreeOld
<1>7. QED BY <1>1, <1>2, <1>3, <1>4, <1>5, <1>6

LEMMA SetBufferInv == ASSUME IInv, SetBuffer PROVE IInv'
<1> USE TransferAssumption DEF IInv, pico, c1, save, NULL, SECTOR, MIXED, locals
<1>1. TypeOK' /\ LocalTypes'
  BY DEF SetBuffer, TypeOK, LocalTypes, ControlAgrees, Registers, Cells
<1>2. ControlAgrees'
  BY DEF SetBuffer, TypeOK, LocalTypes, ControlAgrees
<1>3. OneFileAtATime'
  BY DEF SetBuffer, TypeOK, LocalTypes, ControlAgrees, OneFileAtATime, Reading, Published
<1>4. ReadsOneFile'
  BY DEF SetBuffer, TypeOK, LocalTypes, ControlAgrees, OneFileAtATime, ReadsOneFile, Reading, Published, Cells
<1>5. SavedIsDone'
  BY DEF SetBuffer, TypeOK, LocalTypes, ControlAgrees, OneFileAtATime, SavedIsDone, Source, Reading, Published
<1>6. DiskHoldsItsFiles' /\ SavedOnceInOrder'
  BY DiskFrame DEF SetBuffer
<1>7. QED BY <1>1, <1>2, <1>3, <1>4, <1>5, <1>6

LEMMA SetSizeInv == ASSUME IInv, SetSize PROVE IInv'
<1> USE TransferAssumption DEF IInv, pico, c1, save, NULL, SECTOR, MIXED, locals
<1>1. TypeOK' /\ LocalTypes'
  BY DEF SetSize, TypeOK, LocalTypes, ControlAgrees, Registers, Cells
<1>2. ControlAgrees'
  BY DEF SetSize, TypeOK, LocalTypes, ControlAgrees
<1>3. OneFileAtATime'
  BY DEF SetSize, TypeOK, LocalTypes, ControlAgrees, OneFileAtATime, Reading, Published
<1>4. ReadsOneFile'
  BY DEF SetSize, TypeOK, LocalTypes, ControlAgrees, OneFileAtATime, ReadsOneFile, Reading, Published, Cells
<1>5. SavedIsDone'
  BY DEF SetSize, TypeOK, LocalTypes, ControlAgrees, OneFileAtATime, SavedIsDone, Source, Reading, Published
<1>6. DiskHoldsItsFiles' /\ SavedOnceInOrder'
  BY DiskFrame DEF SetSize
<1>7. QED BY <1>1, <1>2, <1>3, <1>4, <1>5, <1>6

LEMMA SetCrcInv == ASSUME IInv, SetCrc PROVE IInv'
<1> USE TransferAssumption DEF IInv, pico, c1, save, NULL, SECTOR, MIXED, locals
<1>1. TypeOK' /\ LocalTypes'
  BY DEF SetCrc, TypeOK, LocalTypes, ControlAgrees, Registers, Cells
<1>2. ControlAgrees'
  BY DEF SetCrc, TypeOK, LocalTypes, ControlAgrees
<1>3. OneFileAtATime'
  BY DEF SetCrc, TypeOK, LocalTypes, ControlAgrees, OneFileAtATime, Reading, Published
<1>4. ReadsOneFile'
  BY DEF SetCrc, TypeOK, LocalTypes, ControlAgrees, OneFileAtATime, ReadsOneFile, Reading, Published, Cells
<1>5. SavedIsDone'
  BY DEF SetCrc, TypeOK, LocalTypes, ControlAgrees, OneFileAtATime, SavedIsDone, Source, Reading, Published
<1>6. DiskHoldsItsFiles' /\ SavedOnceInOrder'
  BY DiskFrame DEF SetCrc
<1>7. QED BY <1>1, <1>2, <1>3, <1>4, <1>5, <1>6

LEMMA ResetPointerInv == ASSUME IInv, ResetPointer PROVE IInv'
<1> USE TransferAssumption DEF IInv, pico, c1, save, NULL, SECTOR, MIXED, locals
<1>1. TypeOK' /\ LocalTypes'
  BY DEF ResetPointer, TypeOK, LocalTypes, ControlAgrees, Registers, Cells
<1>2. ControlAgrees'
  BY DEF ResetPointer, TypeOK, LocalTypes, ControlAgrees
<1>3. OneFileAtATime'
  BY DEF ResetPointer, TypeOK, LocalTypes, ControlAgrees, OneFileAtATime, Reading, Published
<1>4. ReadsOneFile'
  BY DEF ResetPointer, TypeOK, LocalTypes, ControlAgrees, OneFileAtATime, ReadsOneFile, Reading, Published, Cells
<1>5. SavedIsDone'
  BY DEF ResetPointer, TypeOK, LocalTypes, ControlAgrees, OneFileAtATime, SavedIsDone, Source, Reading, Published
<1>6. DiskHoldsItsFiles' /\ SavedOnceInOrder'
  BY DiskFrame DEF ResetPointer
<1>7. QED BY <1>1, <1>2, <1>3, <1>4, <1>5, <1>6

LEMMA PublishInv == ASSUME IInv, Publish PROVE IInv'
<1> USE TransferAssumption DEF IInv, pico, c1, save, NULL, SECTOR, MIXED, locals
<1>1. TypeOK' /\ LocalTypes'
  BY DEF Publish, TypeOK, LocalTypes, ControlAgrees, Registers, Cells
<1>2. ControlAgrees'
  BY DEF Publish, TypeOK, LocalTypes, ControlAgrees
<1>3. OneFileAtATime'
  BY DEF Publish, TypeOK, LocalTypes, ControlAgrees, OneFileAtATime, Reading, Published
<1>4. ReadsOneFile'
  BY DEF Publish, TypeOK, LocalTypes, ControlAgrees, OneFileAtATime, ReadsOneFile, Reading, Published, Cells
<1>5. SavedIsDone'
  BY DEF Publish, TypeOK, LocalTypes, ControlAgrees, OneFileAtATime, SavedIsDone, Source, Reading, Published
<1>6. DiskHoldsItsFiles' /\ SavedOnceInOrder'
  BY DiskFrame DEF Publish
<1>7. QED BY <1>1, <1>2, <1>3, <1>4, <1>5, <1>6

LEMMA CheckInv == ASSUME IInv, Check PROVE IInv'
<1> USE TransferAssumption DEF IInv, pico, c1, save, NULL, SECTOR, MIXED, locals
<1>1. TypeOK' /\ LocalTypes'
  BY DEF Check, TypeOK, LocalTypes, ControlAgrees, Registers, Cells
<1>2. ControlAgrees'
  BY DEF Check, TypeOK, LocalTypes, ControlAgrees
<1>3. OneFileAtATime'
  BY DEF Check, TypeOK, LocalTypes, ControlAgrees, OneFileAtATime, Reading, Published
<1>4. ReadsOneFile'
  BY DEF Check, TypeOK, LocalTypes, ControlAgrees, OneFileAtATime, ReadsOneFile, Reading, Published, Cells
<1>5. SavedIsDone'
  BY DEF Check, TypeOK, LocalTypes, ControlAgrees, OneFileAtATime, SavedIsDone, Source, Reading, Published
<1>6. DiskHoldsItsFiles' /\ SavedOnceInOrder'
  BY DiskFrame DEF Check
<1>7. QED BY <1>1, <1>2, <1>3, <1>4, <1>5, <1>6

LEMMA WithdrawInv == ASSUME IInv, Withdraw PROVE IInv'
<1> USE TransferAssumption DEF IInv, pico, c1, save, NULL, SECTOR, MIXED, locals
<1>1. TypeOK' /\ LocalTypes'
  BY DEF Withdraw, TypeOK, LocalTypes, ControlAgrees, Registers, Cells
<1>2. ControlAgrees'
  BY DEF Withdraw, TypeOK, LocalTypes, ControlAgrees
<1>3. OneFileAtATime'
  BY DEF Withdraw, TypeOK, LocalTypes, ControlAgrees, OneFileAtATime, Reading, Published
<1>4. ReadsOneFile'
  BY DEF Withdraw, TypeOK, LocalTypes, ControlAgrees, OneFileAtATime, ReadsOneFile, Reading, Published, Cells
<1>5. SavedIsDone'
  BY DEF Withdraw, TypeOK, LocalTypes, ControlAgrees, OneFileAtATime, SavedIsDone, Source, Reading, Published
<1>6. DiskHoldsItsFiles' /\ SavedOnceInOrder'
  BY DiskFrame DEF Withdraw
<1>7. QED BY <1>1, <1>2, <1>3, <1>4, <1>5, <1>6

LEMMA StatusInv == ASSUME IInv, Status PROVE IInv'
<1> USE TransferAssumption DEF IInv, pico, c1, save, NULL, SECTOR, MIXED, locals
<1>1. TypeOK' /\ LocalTypes'
  <2>1. 0 \in 0..(Byte * Byte - 1) /\ 0 \in 0..(Byte - 1) /\ 0 \in MIXED..Files
    BY RegistersHold
  <2>2. /\ UNCHANGED <<pico, c1, loaded, disk>> /\ m68k' \in {"idle", "high1"}
        /\ core0' \in {"wait", "check"}
        /\ \/ UNCHANGED locals
           \/ high' = 0 /\ tamanho' = 0 /\ dest' = <<>> /\ crc' = 0 /\ crcs' = 0
    BY DEF Status, Access, Leave
  <2>3. CASE UNCHANGED locals
    BY <2>2, <2>3 DEF TypeOK, LocalTypes, Registers
  <2>4. CASE high' = 0 /\ tamanho' = 0 /\ dest' = <<>> /\ crc' = 0 /\ crcs' = 0
    <3>1. TypeOK'
      BY <2>1, <2>2, <2>4 DEF TypeOK, Registers
    <3>2. dest' \in Seq(Cells)
      BY <2>4
    <3>3. LocalTypes'
      BY <2>1, <2>2, <2>4, <3>2 DEF LocalTypes
    <3> QED BY <3>1, <3>3
  <2> QED BY <2>2, <2>3, <2>4
<1>2. ControlAgrees'
  BY DEF Status, Serve, Access, Leave, TypeOK, LocalTypes, ControlAgrees
<1>3. OneFileAtATime'
  BY DEF Status, Serve, Access, Leave, TypeOK, LocalTypes, ControlAgrees, OneFileAtATime, Reading, Published
<1>4. ReadsOneFile'
  BY DEF Status, Serve, Access, Leave, TypeOK, LocalTypes, ControlAgrees, OneFileAtATime, ReadsOneFile, Reading, Published, Cells
<1>5. SavedIsDone'
  BY DEF Status, Serve, Access, Leave, TypeOK, LocalTypes, ControlAgrees, OneFileAtATime, SavedIsDone, Source, Reading, Published
<1>6. DiskHoldsItsFiles' /\ SavedOnceInOrder'
  BY DiskFrame DEF Status
<1>7. QED BY <1>1, <1>2, <1>3, <1>4, <1>5, <1>6

LEMMA SizeHighInv == ASSUME IInv, SizeHigh PROVE IInv'
<1> USE TransferAssumption DEF IInv, pico, c1, save, NULL, SECTOR, MIXED, locals
<1>1. TypeOK' /\ LocalTypes'
  <2>1. HighByte \in 0..(Byte - 1)
    BY RegistersHold DEF HighByte, TypeOK
  <2>2. QED BY <2>1 DEF SizeHigh, Serve, Access, TypeOK, LocalTypes, ControlAgrees, Registers, Cells
<1>2. ControlAgrees'
  BY DEF SizeHigh, Serve, Access, TypeOK, LocalTypes, ControlAgrees
<1>3. OneFileAtATime'
  BY DEF SizeHigh, Serve, Access, TypeOK, LocalTypes, ControlAgrees, OneFileAtATime, Reading, Published
<1>4. ReadsOneFile'
  BY DEF SizeHigh, Serve, Access, TypeOK, LocalTypes, ControlAgrees, OneFileAtATime, ReadsOneFile, Reading, Published, Cells
<1>5. SavedIsDone'
  BY DEF SizeHigh, Serve, Access, TypeOK, LocalTypes, ControlAgrees, OneFileAtATime, SavedIsDone, Source, Reading, Published
<1>6. DiskHoldsItsFiles' /\ SavedOnceInOrder'
  BY DiskFrame DEF SizeHigh
<1>7. QED BY <1>1, <1>2, <1>3, <1>4, <1>5, <1>6

LEMMA SizeLowInv == ASSUME IInv, SizeLow PROVE IInv'
<1> USE TransferAssumption DEF IInv, pico, c1, save, NULL, SECTOR, MIXED, locals
<1>1. TypeOK' /\ LocalTypes'
  <2>1. high * Byte + (arquivo_tamanho % Byte) \in 0..(Byte * Byte - 1)
    BY RegistersHold DEF TypeOK, LocalTypes
  <2>2. 0 \in 0..(Byte * Byte - 1) /\ 0 \in 0..(Byte - 1) /\ 0 \in MIXED..Files
    BY <2>1
  <2>3. /\ UNCHANGED <<pico, c1, loaded, disk>>
        /\ core0' \in {"check", "wait"} /\ m68k' \in {"low2", "idle", "data"}
        /\ dest = <<>> /\ dest' = <<>>
        /\ \/ UNCHANGED locals
           \/ high' = 0 /\ tamanho' = 0 /\ crc' = 0 /\ crcs' = 0
           \/ /\ tamanho' = high * Byte + (arquivo_tamanho % Byte)
              /\ UNCHANGED <<high, crc, crcs>>
    BY DEF SizeLow, Serve, Access, Leave, ControlAgrees
  <2>4. TypeOK'
    BY <2>1, <2>2, <2>3 DEF TypeOK, Registers
  <2>5. QED BY <2>2, <2>3, <2>4 DEF LocalTypes
<1>2. ControlAgrees'
  <2>1. tamanho' \in Nat
    BY <1>1 DEF TypeOK
  <2>2. Len(<<>>) = 0
    OBVIOUS
  <2>3. CASE Serve("low1") /\ Access("low2") /\ UNCHANGED <<tamanho, dest, crcs, file, core1>>
    BY <2>3 DEF Serve, Access, TypeOK, ControlAgrees
  <2>4. CASE Serve("low2") /\ Leave /\ UNCHANGED <<file, core1>>
    BY <2>4 DEF Serve, Leave, TypeOK, ControlAgrees
  <2>5. CASE /\ Serve("low2") /\ UNCHANGED <<dest, crcs, file, core1>>
             /\ tamanho' # 0 /\ Access("data")
    BY <2>1, <2>2, <2>5 DEF Serve, Access, TypeOK, ControlAgrees
  <2>6. QED BY <2>3, <2>4, <2>5 DEF SizeLow
<1>3. OneFileAtATime'
  BY DEF SizeLow, Serve, Access, Leave, TypeOK, LocalTypes, ControlAgrees, OneFileAtATime, Reading, Published
<1>4. ReadsOneFile'
  BY DEF SizeLow, Serve, Access, Leave, TypeOK, LocalTypes, ControlAgrees, OneFileAtATime, ReadsOneFile, Reading, Published, Cells
<1>5. SavedIsDone'
  BY DEF SizeLow, Serve, Access, Leave, TypeOK, LocalTypes, ControlAgrees, OneFileAtATime, SavedIsDone, Source, Reading, Published
<1>6. DiskHoldsItsFiles' /\ SavedOnceInOrder'
  BY DiskFrame DEF SizeLow
<1>7. QED BY <1>1, <1>2, <1>3, <1>4, <1>5, <1>6

LEMMA FetchInv == ASSUME IInv, Fetch PROVE IInv'
<1> USE TransferAssumption DEF IInv, pico, c1, save, NULL, SECTOR, MIXED, locals
<1>1. TypeOK' /\ LocalTypes'
  BY DEF Fetch, Serve, TypeOK, LocalTypes, ControlAgrees, Registers, Cells
<1>2. ControlAgrees'
  BY DEF Fetch, Serve, TypeOK, LocalTypes, ControlAgrees
<1>3. OneFileAtATime'
  BY DEF Fetch, Serve, TypeOK, LocalTypes, ControlAgrees, OneFileAtATime, Reading, Published
<1>4. ReadsOneFile'
  BY DEF Fetch, Serve, TypeOK, LocalTypes, ControlAgrees, OneFileAtATime, ReadsOneFile, Reading, Published, Cells
<1>5. SavedIsDone'
  BY DEF Fetch, Serve, TypeOK, LocalTypes, ControlAgrees, OneFileAtATime, SavedIsDone, Source, Reading, Published
<1>6. DiskHoldsItsFiles' /\ SavedOnceInOrder'
  BY DiskFrame DEF Fetch
<1>7. QED BY <1>1, <1>2, <1>3, <1>4, <1>5, <1>6

LEMMA AdvanceInv == ASSUME IInv, Advance PROVE IInv'
<1> USE TransferAssumption DEF IInv, pico, c1, save, NULL, SECTOR, MIXED, locals
<1>1. TypeOK' /\ LocalTypes'
  BY DEF Advance, Access, TypeOK, LocalTypes, ControlAgrees, Registers, Cells
<1>2. ControlAgrees'
  BY DEF Advance, Access, TypeOK, LocalTypes, ControlAgrees
<1>3. OneFileAtATime'
  BY DEF Advance, Access, TypeOK, LocalTypes, ControlAgrees, OneFileAtATime, Reading, Published
<1>4. ReadsOneFile'
  BY DEF Advance, Access, TypeOK, LocalTypes, ControlAgrees, OneFileAtATime, ReadsOneFile, Reading, Published, Cells
<1>5. SavedIsDone'
  BY DEF Advance, Access, TypeOK, LocalTypes, ControlAgrees, OneFileAtATime, SavedIsDone, Source, Reading, Published
<1>6. DiskHoldsItsFiles' /\ SavedOnceInOrder'
  BY DiskFrame DEF Advance
<1>7. QED BY <1>1, <1>2, <1>3, <1>4, <1>5, <1>6

LEMMA CrcInv == ASSUME IInv, Crc PROVE IInv'
<1> USE TransferAssumption DEF IInv, pico, c1, save, NULL, SECTOR, MIXED, locals
<1>1. TypeOK' /\ LocalTypes'
  BY DEF Crc, Serve, Access, TypeOK, LocalTypes, ControlAgrees, Registers, Cells
<1>2. ControlAgrees'
  BY DEF Crc, Serve, Access, TypeOK, LocalTypes, ControlAgrees
<1>3. OneFileAtATime'
  BY DEF Crc, Serve, Access, TypeOK, LocalTypes, ControlAgrees, OneFileAtATime, Reading, Published
<1>4. ReadsOneFile'
  BY DEF Crc, Serve, Access, TypeOK, LocalTypes, ControlAgrees, OneFileAtATime, ReadsOneFile, Reading, Published, Cells
<1>5. SavedIsDone'
  BY DEF Crc, Serve, Access, TypeOK, LocalTypes, ControlAgrees, OneFileAtATime, SavedIsDone, Source, Reading, Published
<1>6. DiskHoldsItsFiles' /\ SavedOnceInOrder'
  BY DiskFrame DEF Crc
<1>7. QED BY <1>1, <1>2, <1>3, <1>4, <1>5, <1>6

(* What is written when the CRC matches; and in paced surroundings the file  *)
(* that matches is the one published, and it was read to its end.           *)
LEMMA MatchIsThePublishedFile ==
  ASSUME IInv, m68k = "compare", CrcMatches
  PROVE  /\ crc \in 1..Files /\ dest[Header][1] = crc
         /\ SubSeq(dest, Header + 1, Len(dest)) = Content(crc)
         /\ paced => crc = file /\ (arquivo_pronto => ponteiro_leitura = arquivo_tamanho)
<1>1. /\ crc \in 1..Files /\ Len(dest) = Size[crc] /\ dest \in Seq(Cells) /\ core0 = "wait"
      /\ \A i \in (Field + 1)..Len(dest) : dest[i] = Whole(crc)[i]
  BY DEF CrcMatches, IInv, LocalTypes, ControlAgrees
<1>2. /\ Field \in Nat \ {0} /\ Header \in Nat /\ Header > Field
      /\ Size[crc] \in Nat /\ Size[crc] >= Header
  BY <1>1, WholeIsASeq, TransferAssumption
<1>3. \A i \in (Field + 1)..Size[crc] : dest[i] = <<crc, i - 1>>
  <2>1. \A i \in (Field + 1)..Size[crc] : i \in 1..Size[crc]
    BY <1>2
  <2> QED BY <1>1, <2>1, WholeIsASeq
<1>4. dest[Header] = <<crc, Header - 1>> /\ dest[Size[crc]] = <<crc, Size[crc] - 1>>
  BY <1>2, <1>3
<1>5. dest[Header][1] = crc /\ dest[Len(dest)][2] = Size[crc] - 1
  <2>1. <<crc, Header - 1>>[1] = crc /\ <<crc, Size[crc] - 1>>[2] = Size[crc] - 1
    OBVIOUS
  <2>2. dest[Header][1] = crc
    BY <1>4, <2>1, Zenon
  <2>3. dest[Len(dest)][2] = Size[crc] - 1
    BY <1>1, <1>4, <2>1, Zenon
  <2> QED BY <2>2, <2>3
<1>6. SubSeq(dest, Header + 1, Len(dest)) = Content(crc)
  <2> DEFINE d == SubSeq(dest, Header + 1, Len(dest))
  <2>1. /\ d \in Seq(Cells) /\ Len(d) = Size[crc] - Header
        /\ \A i \in 1..(Size[crc] - Header) : d[i] = dest[Header + i]
    BY <1>1, <1>2, SliceOf
  <2>2. /\ Content(crc) \in Seq(Cells) /\ Len(Content(crc)) = Size[crc] - Header
        /\ \A i \in 1..(Size[crc] - Header) : Content(crc)[i] = <<crc, i + Header - 1>>
    BY <1>1, WholeIsASeq
  <2> HIDE DEF d
  <2>3. \A i \in 1..(Size[crc] - Header) :
          Header + i \in (Field + 1)..Size[crc] /\ (Header + i) - 1 = i + Header - 1
    BY <1>2
  <2>4. \A i \in 1..(Size[crc] - Header) : d[i] = Content(crc)[i]
    BY <1>3, <2>1, <2>2, <2>3
  <2>5. d = Content(crc)
    BY <1>2, <2>1, <2>2, <2>4, SeqEqual
  <2> QED BY <2>5 DEF d
<1>7. ASSUME paced PROVE crc = file /\ (arquivo_pronto => ponteiro_leitura = arquivo_tamanho)
  <2>0. Header \in 1..Len(dest) /\ Len(dest) > 0
    BY <1>1, <1>2
  <2>1. dest[Header][1] \in {NULL, file} /\ Published
    BY <1>7, <2>0 DEF IInv, ReadsOneFile, OneFileAtATime, Reading
  <2>2. crc = file
    BY <1>1, <1>5, <2>1 DEF NULL
  <2>3. arquivo_pronto => ponteiro_leitura = dest[Len(dest)][2] + 1
    BY <1>1, <1>7, <2>0 DEF IInv, ReadsOneFile, Reading
  <2>4. QED BY <1>2, <1>5, <2>1, <2>2, <2>3 DEF Published
<1> QED BY <1>1, <1>5, <1>6, <1>7

(* The three ways in which do_save2 puts the file on the disk or does not. *)
LEMMA SaveFileWrites ==
  ASSUME IInv, SaveFile
  PROVE  \/ UNCHANGED disk
         \/ /\ CrcMatches
            /\ \E d \in Seq(Cells), b \in BOOLEAN :
                 /\ disk' = Append(disk, Entry(crc, d, b))
                 /\ d = SubSeq(Content(crc), 1, Len(d)) /\ (b => d = Content(crc))
<1> SUFFICES ASSUME disk' # disk
             PROVE  /\ CrcMatches
                    /\ \E d \in Seq(Cells), b \in BOOLEAN :
                         /\ disk' = Append(disk, Entry(crc, d, b))
                         /\ d = SubSeq(Content(crc), 1, Len(d)) /\ (b => d = Content(crc))
  OBVIOUS
<1> DEFINE data == SubSeq(dest, Header + 1, Len(dest))
<1>1. /\ m68k = "compare" /\ CrcMatches
      /\ \/ disk' = Append(disk, Entry(dest[Header][1], data, TRUE))
         \/ \E n \in 0..Len(data) :
              disk' = Append(disk, Entry(dest[Header][1], SubSeq(data, 1, n), FALSE))
  BY DEF SaveFile
<1>2. crc \in 1..Files /\ dest[Header][1] = crc /\ data = Content(crc)
  BY <1>1, MatchIsThePublishedFile
<1>3. Content(crc) \in Seq(Cells)
  BY <1>2, WholeIsASeq
<1> HIDE DEF data
<1>4. CASE disk' = Append(disk, Entry(dest[Header][1], data, TRUE))
  <2>1. SubSeq(Content(crc), 1, Len(Content(crc))) = Content(crc)
    BY <1>3
  <2>2. disk' = Append(disk, Entry(crc, Content(crc), TRUE))
    BY <1>2, <1>4
  <2> QED BY <1>1, <1>3, <2>1, <2>2
<1>5. ASSUME NEW n \in 0..Len(data),
             disk' = Append(disk, Entry(dest[Header][1], SubSeq(data, 1, n), FALSE))
      PROVE  /\ CrcMatches
             /\ \E d \in Seq(Cells), b \in BOOLEAN :
                  /\ disk' = Append(disk, Entry(crc, d, b))
                  /\ d = SubSeq(Content(crc), 1, Len(d)) /\ (b => d = Content(crc))
  <2>1. n \in Nat /\ n <= Len(Content(crc))
    BY <1>2, <1>3
  <2>2. SubSeq(Content(crc), 1, n) \in Seq(Cells) /\ Len(SubSeq(Content(crc), 1, n)) = n
    BY <1>3, <2>1
  <2>3. disk' = Append(disk, Entry(crc, SubSeq(Content(crc), 1, n), FALSE))
    BY <1>2, <1>5
  <2> QED BY <1>1, <2>2, <2>3
<1> QED BY <1>1, <1>4, <1>5

LEMMA SaveFileInv == ASSUME IInv, SaveFile PROVE IInv'
<1> USE TransferAssumption DEF IInv, pico, c1, save, NULL, SECTOR, MIXED, locals
<1>0. /\ m68k = "compare" /\ m68k' = "idle" /\ core0' = "wait"
      /\ high' = 0 /\ tamanho' = 0 /\ dest' = <<>> /\ crc' = NULL /\ crcs' = 0
      /\ UNCHANGED <<arquivo_buffer, arquivo_tamanho, arquivo_crc32, ponteiro_leitura,
                     arquivo_pronto, core1, file, paced, loaded>>
  BY DEF SaveFile, Leave
<1>t. TypeOK' /\ ControlAgrees' /\ OneFileAtATime' /\ ReadsOneFile'
  <2>1. TypeOK'
    <3>1. tamanho' \in 0..(Byte * Byte - 1)
      BY <1>0, RegistersHold DEF TypeOK
    <3> QED BY <1>0, <3>1 DEF TypeOK, Registers
  <2>2. ControlAgrees'
    BY <1>0 DEF ControlAgrees
  <2>3. OneFileAtATime' /\ ReadsOneFile'
    BY <1>0 DEF OneFileAtATime, ReadsOneFile, Reading, Published
  <2> QED BY <2>1, <2>2, <2>3
<1>l. /\ loaded' \in Nat /\ high' \in 0..(Byte - 1) /\ dest' \in Seq(Cells)
      /\ crc' \in MIXED..Files /\ paced' \in BOOLEAN
  BY <1>0 DEF LocalTypes
<1>1. CASE UNCHANGED disk
  <2>1. LocalTypes'
    BY <1>1, <1>l DEF LocalTypes
  <2>3. SavedIsDone'
    BY <1>0, <1>1 DEF TypeOK, OneFileAtATime, SavedIsDone, Source, Reading
  <2>4. DiskHoldsItsFiles' /\ SavedOnceInOrder'
    BY <1>0, <1>1, DiskFrame
  <2>5. QED BY <1>t, <2>1, <2>3, <2>4
<1>2. CASE /\ CrcMatches
           /\ \E d \in Seq(Cells), b \in BOOLEAN :
                /\ disk' = Append(disk, Entry(crc, d, b))
                /\ d = SubSeq(Content(crc), 1, Len(d)) /\ (b => d = Content(crc))
  <2> DEFINE n == Len(disk)
  <2>1. PICK d \in Seq(Cells), b \in BOOLEAN :
          /\ disk' = Append(disk, Entry(crc, d, b))
          /\ d = SubSeq(Content(crc), 1, Len(d)) /\ (b => d = Content(crc))
    BY <1>2
  <2>2. /\ crc \in 1..Files
        /\ paced => crc = file /\ (arquivo_pronto => ponteiro_leitura = arquivo_tamanho)
    BY <1>0, <1>2, MatchIsThePublishedFile
  <2>e. /\ Entry(crc, d, b) \in [name : 1..Files, data : Seq(Cells), saved : BOOLEAN]
        /\ Entry(crc, d, b).name = crc /\ Entry(crc, d, b).data = d /\ Entry(crc, d, b).saved = b
    BY <2>2 DEF Entry
  <2>3. /\ disk' \in Seq([name : 1..Files, data : Seq(Cells), saved : BOOLEAN]) /\ n \in Nat
        /\ Len(disk') = n + 1 /\ disk'[n + 1] = Entry(crc, d, b)
        /\ \A i \in 1..n : disk'[i] = disk[i]
    BY <2>1, <2>e DEF LocalTypes
  <2>4. \A i \in 1..n : Source(i) \in 1..Files
    BY SourceIsAFile
  <2>5. disk'[n + 1].name = crc /\ \A i \in 1..n : disk'[i].name = Source(i)
    BY <2>3, <2>e DEF Source
  <2> HIDE DEF n
  <2>0. \A i \in 1..(n + 1) : i \in 1..n \/ i = n + 1
    BY <2>3
  <2>6. paced => \A i \in 1..n : Source(i) < crc
    BY <1>0, <2>2, <2>4 DEF SavedIsDone, Reading, n, TypeOK
  <2>7. LocalTypes'
    BY <1>l, <2>3 DEF LocalTypes
  <2>9. SavedIsDone'
    <3>1. paced => \A i \in 1..(n + 1) : disk'[i].name <= file
      <4>1. ASSUME paced, NEW i \in 1..n PROVE disk'[i].name <= file
        BY <2>2, <2>4, <2>5, <2>6, <4>1
      <4>2. paced => disk'[n + 1].name <= file
        BY <2>2, <2>5
      <4>3. QED BY <2>0, <4>1, <4>2
    <3>2. paced => core1 = "poll" /\ arquivo_tamanho \in Nat
      BY <1>0 DEF OneFileAtATime, Reading, TypeOK
    <3>3. QED BY <1>0, <2>2, <2>3, <3>1, <3>2 DEF SavedIsDone, Source, Reading, TypeOK
  <2>10. DiskHoldsItsFiles'
    <3> DEFINE Right(e) == /\ e.name \in 1..Files
                           /\ e.data = SubSeq(Content(e.name), 1, Len(e.data))
                           /\ e.saved => e.data = Content(e.name)
    <3>1. \A i \in 1..n : Right(disk'[i])
      BY <2>3 DEF DiskHoldsItsFiles, n
    <3>2. Right(Entry(crc, d, b))
      BY <2>1, <2>2, <2>e
    <3>3. Right(disk'[n + 1])
      BY <2>3, <3>2, Zenon
    <3> HIDE DEF Right
    <3>4. \A i \in 1..(n + 1) : Right(disk'[i])
      BY <2>0, <3>1, <3>3
    <3>5. QED BY <2>3, <3>4 DEF DiskHoldsItsFiles, Right, Content, Whole
  <2>11. SavedOnceInOrder'
    <3>1. paced => \A i, j \in 1..(n + 1) : i < j => disk'[i].name < disk'[j].name
      <4>1. ASSUME paced, NEW i \in 1..n, NEW j \in 1..n, i < j
            PROVE  disk'[i].name < disk'[j].name
        <5>1. Source(i) < Source(j)
          BY <4>1 DEF SavedOnceInOrder, Source, n
        <5>2. QED BY <2>5, <5>1
      <4>2. ASSUME paced, NEW i \in 1..n PROVE disk'[i].name < disk'[n + 1].name
        BY <2>5, <2>6, <4>2
      <4>3. n \in Nat /\ \A i, j \in 1..(n + 1) : i < j => i \in 1..n
        BY <2>3
      <4>4. QED BY <2>0, <4>1, <4>2, <4>3
    <3>2. QED BY <1>0, <2>3, <3>1 DEF SavedOnceInOrder
  <2>12. QED BY <1>t, <2>7, <2>9, <2>10, <2>11
<1>3. QED BY <1>1, <1>2, SaveFileWrites

LEMMA Int2HandlerInv == ASSUME IInv, Int2Handler PROVE IInv'
<1> USE TransferAssumption DEF IInv, pico, c1, save, NULL, SECTOR, MIXED, locals
<1>1. TypeOK' /\ LocalTypes'
  BY DEF Int2Handler, Access, TypeOK, LocalTypes, ControlAgrees, Registers, Cells
<1>2. ControlAgrees'
  BY DEF Int2Handler, Access, TypeOK, LocalTypes, ControlAgrees
<1>3. OneFileAtATime'
  BY DEF Int2Handler, Access, TypeOK, LocalTypes, ControlAgrees, OneFileAtATime, Reading, Published
<1>4. ReadsOneFile'
  BY DEF Int2Handler, Access, TypeOK, LocalTypes, ControlAgrees, OneFileAtATime, ReadsOneFile, Reading, Published, Cells
<1>5. SavedIsDone'
  BY DEF Int2Handler, Access, TypeOK, LocalTypes, ControlAgrees, OneFileAtATime, SavedIsDone, Source, Reading, Published
<1>6. DiskHoldsItsFiles' /\ SavedOnceInOrder'
  BY DiskFrame DEF Int2Handler
<1>7. QED BY <1>1, <1>2, <1>3, <1>4, <1>5, <1>6

LEMMA SectorCommandInv == ASSUME IInv, SectorCommand PROVE IInv'
<1> USE TransferAssumption DEF IInv, pico, c1, save, NULL, SECTOR, MIXED, locals
<1>1. TypeOK' /\ LocalTypes'
  BY DEF SectorCommand, Access, TypeOK, LocalTypes, ControlAgrees, Registers, Cells
<1>2. ControlAgrees'
  BY DEF SectorCommand, Access, TypeOK, LocalTypes, ControlAgrees
<1>3. OneFileAtATime'
  BY DEF SectorCommand, Access, TypeOK, LocalTypes, ControlAgrees, OneFileAtATime, Reading, Published
<1>4. ReadsOneFile'
  BY DEF SectorCommand, Access, TypeOK, LocalTypes, ControlAgrees, OneFileAtATime, ReadsOneFile, Reading, Published, Cells
<1>5. SavedIsDone'
  BY DEF SectorCommand, Access, TypeOK, LocalTypes, ControlAgrees, OneFileAtATime, SavedIsDone, Source, Reading, Published
<1>6. DiskHoldsItsFiles' /\ SavedOnceInOrder'
  BY DiskFrame DEF SectorCommand
<1>7. QED BY <1>1, <1>2, <1>3, <1>4, <1>5, <1>6

LEMMA LoadSectorInv == ASSUME IInv, LoadSector PROVE IInv'
<1> USE TransferAssumption DEF IInv, pico, c1, save, NULL, SECTOR, MIXED, locals
<1>1. TypeOK' /\ LocalTypes'
  BY DEF LoadSector, Serve, TypeOK, LocalTypes, ControlAgrees, Registers, Cells
<1>2. ControlAgrees'
  BY DEF LoadSector, Serve, TypeOK, LocalTypes, ControlAgrees
<1>3. OneFileAtATime'
  BY DEF LoadSector, Serve, TypeOK, LocalTypes, ControlAgrees, OneFileAtATime, Reading, Published
<1>4. ReadsOneFile'
  BY DEF LoadSector, Serve, TypeOK, LocalTypes, ControlAgrees, OneFileAtATime, ReadsOneFile, Reading, Published, Cells
<1>5. SavedIsDone'
  BY DEF LoadSector, Serve, TypeOK, LocalTypes, ControlAgrees, OneFileAtATime, SavedIsDone, Source, Reading, Published
<1>6. DiskHoldsItsFiles' /\ SavedOnceInOrder'
  BY DiskFrame DEF LoadSector
<1>7. QED BY <1>1, <1>2, <1>3, <1>4, <1>5, <1>6

LEMMA KeyTypedInv == ASSUME IInv, KeyTyped PROVE IInv'
<1> USE TransferAssumption DEF IInv, pico, c1, save, NULL, SECTOR, MIXED, locals
<1>1. TypeOK' /\ LocalTypes'
  BY DEF KeyTyped, Leave, TypeOK, LocalTypes, ControlAgrees, Registers, Cells
<1>2. ControlAgrees'
  BY DEF KeyTyped, Leave, TypeOK, LocalTypes, ControlAgrees
<1>3. OneFileAtATime'
  BY DEF KeyTyped, Leave, TypeOK, LocalTypes, ControlAgrees, OneFileAtATime, Reading, Published
<1>4. ReadsOneFile'
  BY DEF KeyTyped, Leave, TypeOK, LocalTypes, ControlAgrees, OneFileAtATime, ReadsOneFile, Reading, Published, Cells
<1>5. SavedIsDone'
  BY DEF KeyTyped, Leave, TypeOK, LocalTypes, ControlAgrees, OneFileAtATime, SavedIsDone, Source, Reading, Published
<1>6. DiskHoldsItsFiles' /\ SavedOnceInOrder'
  BY DiskFrame DEF KeyTyped
<1>7. QED BY <1>1, <1>2, <1>3, <1>4, <1>5, <1>6

LEMMA InitInv == Init => IInv
<1> SUFFICES ASSUME Init PROVE IInv
  OBVIOUS
<1> USE TransferAssumption DEF Init, NULL, SECTOR, MIXED
<1>1. TypeOK
  <2>1. tamanho \in 0..(Byte * Byte - 1)
    <3>1. Byte * Byte - 1 \in Nat
      OBVIOUS
    <3>2. QED BY <3>1
  <2>2. arquivo_buffer \in 0..Files /\ file \in 0..Files /\ arquivo_crc32 \in SECTOR..Files
    OBVIOUS
  <2>3. Len(dest) <= tamanho
    OBVIOUS
  <2>4. arquivo_tamanho \in {0} \cup {Size[f] : f \in 1..Files} /\ arquivo_pronto \in BOOLEAN
    OBVIOUS
  <2>5. ponteiro_leitura \in Nat /\ crcs \in 0..4
    OBVIOUS
  <2>6. core1 = "poll" /\ core0 = "wait" /\ m68k = "idle"
    OBVIOUS
  <2> HIDE DEF Init
  <2>7. QED BY <2>1, <2>2, <2>3, <2>4, <2>5, <2>6 DEF TypeOK, Registers
<1>2. LocalTypes /\ ControlAgrees
  BY DEF LocalTypes, ControlAgrees
<1>3. OneFileAtATime /\ ReadsOneFile /\ SavedIsDone
  BY DEF OneFileAtATime, ReadsOneFile, SavedIsDone, Reading
<1>4. DiskHoldsItsFiles /\ SavedOnceInOrder
  BY DEF DiskHoldsItsFiles, SavedOnceInOrder
<1>5. QED BY <1>1, <1>2, <1>3, <1>4 DEF IInv

LEMMA StutterInv == ASSUME IInv, UNCHANGED vars PROVE IInv'
<1> USE DEF IInv, vars
<1>1. TypeOK' /\ LocalTypes' /\ ControlAgrees'
  BY DEF TypeOK, LocalTypes, ControlAgrees
<1>2. OneFileAtATime' /\ ReadsOneFile' /\ SavedIsDone'
  BY DEF OneFileAtATime, ReadsOneFile, SavedIsDone, Source, Published
<1>3. DiskHoldsItsFiles' /\ SavedOnceInOrder'
  BY DiskFrame
<1>4. QED BY <1>1, <1>2, <1>3

-----------------------------------------------------------------------------
(* The invariant holds, however the two cores and the 68000 interleave. *)
THEOREM TransferInvariant == Spec => []IInv
<1>1. IInv /\ [Next]_vars => IInv'
  <2> SUFFICES ASSUME IInv, [Next]_vars PROVE IInv'
    OBVIOUS
  <2>1. CASE FreeOld \/ Core1
    BY <2>1, FreeOldInv, SetBufferInv, SetSizeInv, SetCrcInv, ResetPointerInv, PublishInv DEF Core1
  <2>2. CASE Core0
    BY <2>2, CheckInv, WithdrawInv, StatusInv, SizeHighInv, SizeLowInv, FetchInv, AdvanceInv,
       CrcInv, LoadSectorInv DEF Core0
  <2>3. CASE M68k \/ SectorCommand \/ KeyTyped
    BY <2>3, Int2HandlerInv, SaveFileInv, SectorCommandInv, KeyTypedInv DEF M68k
  <2>4. CASE UNCHANGED vars
    BY <2>4, StutterInv
  <2>5. QED BY <2>1, <2>2, <2>3, <2>4 DEF Next
<1>2. QED BY <1>1, InitInv, PTL DEF Spec

(* Paced files are saved in the order in which they came, none twice: core 0 *)
(* withdraws a file that was read to its end before do_save2 can see it     *)
(* again (orion_bus.c:43-46).                                               *)
THEOREM FilesAreSavedOnceInOrder == Spec => []SavedOnceInOrder
<1>1. IInv => SavedOnceInOrder
  BY DEF IInv
<1>2. QED BY <1>1, TransferInvariant, PTL

(* Whatever core 1 does to the buffer while it is read and whatever f_open, *)
(* f_write and f_close answer, what do_save2 leaves on the disk under a     *)
(* name is the content sent under that name, whole if it got to its end and *)
(* else a beginning of it.                                                  *)
THEOREM DiskStaysRight == Spec => []DiskHoldsItsFiles
<1>1. IInv => DiskHoldsItsFiles
  BY DEF IInv
<1>2. QED BY <1>1, TransferInvariant, PTL

(* The size read through two registers fits them, and do_save2 never reads  *)
(* more bytes than it announced room for.                                   *)
THEOREM TransferTypes == Spec => []TypeOK
<1>1. IInv => TypeOK
  BY DEF IInv
<1>2. QED BY <1>1, TransferInvariant, PTL
=============================================================================
