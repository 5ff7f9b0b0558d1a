---------------------------- MODULE PicoBusProofs ----------------------------
(***************************************************************************)
(* Proofs about PicoBus.tla, for any number of keys and accesses and any   *)
(* length of the FIFOs: what the shared transmit FIFO holds at every place *)
(* of core 0, of core 1 and of the 68000.                                  *)
(***************************************************************************)
EXTENDS PicoBus, TLAPS

USE BusAssumption

(* A packet waits until core 0 has fetched it, and the one core 0 serves   *)
(* is an access of the 68000.                                              *)
PacketsAreAccesses ==
  /\ core0 \in {"off", "get"} => rx # <<>>
  /\ core0 \in {"clear", "answer"} => packet[2] \in 1..Accesses

IsKey(b) == b[1] = "key"

(* Keys are in their order in the keyboard buffer, in the FIFO, and from    *)
(* one to the other.                                                        *)
KeysAreInOrder ==
  /\ \A i \in 1..Len(tx) : IsKey(tx[i]) => tx[i][2] <= typed
  /\ \A i \in 1..Len(ring) : IsKey(ring[i]) => ring[i][2] <= typed
  /\ \A i, j \in 1..Len(tx) : i < j /\ IsKey(tx[i]) /\ IsKey(tx[j]) => tx[i][2] < tx[j][2]
  /\ \A i \in 1..Len(ring), j \in 1..Len(tx) :
       IsKey(ring[i]) /\ IsKey(tx[j]) => ring[i][2] < tx[j][2]

(* With a prompt core 0 there is one packet at a time, that of the last     *)
(* access; the answers in the FIFO are those to it, or, until core 0 clears *)
(* the FIFO, those to the one before.                                       *)
OnePacket ==
  around # "any" =>
    /\ Len(rx) <= 1
    /\ \A i \in 1..Len(rx) : rx[i][2] = access
    /\ core0 \in {"clear", "answer"} => rx = <<>> /\ packet[2] = access

Pending == rx # <<>> \/ core0 = "clear"

AnswersAreRecent ==
  around # "any" =>
    \A i \in 1..Len(tx) : tx[i][1] = "reply" =>
      /\ core0 # "answer"
      /\ tx[i][2] = IF Pending THEN access - 1 ELSE access

(* In quiet surroundings there is one thing under way.  Core 0 at the packet *)
(* of the last access: *)
Serving(r) ==
  \/ core0 = "poll" /\ rx = <<<<r, access>>>>
  \/ core0 = "off" /\ rx = <<<<r, access>>>> /\ ~pirq
  \/ core0 = "get" /\ rx = <<<<r, access>>>> /\ ~pirq /\ ~bkd_int
  \/ core0 \in {"clear", "answer"} /\ rx = <<>> /\ packet = <<r, access>> /\ ~pirq /\ ~bkd_int

Waiting0 == core0 = "poll" /\ rx = <<>>

NothingUp ==
  /\ Waiting0 /\ core1 = "poll" /\ ~pirq /\ ~bkd_int
  /\ tx = <<>> /\ m68k = "run" /\ Len(ring) = typed

KeyTyped ==
  /\ Waiting0 /\ m68k = "run" /\ ~saving
  /\ tx = <<Key(typed)>> /\ Len(ring) + 1 = typed
  /\ \/ core1 \in {"test", "pirq"} /\ ~pirq /\ ~bkd_int
     \/ core1 = "on" /\ pirq /\ ~bkd_int
     \/ core1 = "poll" /\ pirq /\ bkd_int

KeyFetched ==
  /\ Serving("key") /\ core1 = "poll"
  /\ tx = <<>> /\ m68k = "run" /\ reg = "key" /\ Len(ring) = typed

FileAsked ==
  /\ Serving("file") /\ core1 = "poll" /\ ~pirq /\ ~bkd_int
  /\ tx = <<>> /\ m68k = "wait" /\ reg = "file" /\ Len(ring) = typed

FileAnswered ==
  /\ Waiting0 /\ core1 = "poll" /\ ~pirq /\ ~bkd_int
  /\ tx = <<Reply(access)>> /\ m68k = "wait" /\ reg = "file" /\ Len(ring) = typed

OneThingAtATime ==
  around = "quiet" => NothingUp \/ KeyTyped \/ KeyFetched \/ FileAsked \/ FileAnswered

IInv ==
  /\ TypeOK /\ PacketsAreAccesses /\ KeysAreInOrder /\ KeysNeverRepeat
  /\ OnePacket /\ AnswersAreRecent /\ AtMostOneBehind
  /\ OneThingAtATime /\ AnswersMatch

-----------------------------------------------------------------------------
(* What the queues do.                                                     *)

LEMMA TailOf ==
  ASSUME NEW S, NEW s \in Seq(S), s # <<>>
  PROVE  /\ Len(s) \in Nat /\ Len(s) >= 1
         /\ Head(s) \in S /\ Head(s) = s[1]
         /\ Tail(s) \in Seq(S) /\ Len(Tail(s)) = Len(s) - 1
         /\ \A i \in 1..(Len(s) - 1) : Tail(s)[i] = s[i + 1]
OBVIOUS

LEMMA AppendTo ==
  ASSUME NEW S, NEW s \in Seq(S), NEW e \in S
  PROVE  /\ Append(s, e) \in Seq(S) /\ Len(Append(s, e)) = Len(s) + 1
         /\ \A i \in 1..Len(s) : Append(s, e)[i] = s[i]
         /\ Append(s, e)[Len(s) + 1] = e
         /\ Len(s) \in Nat
OBVIOUS

LEMMA NoneIsEmpty == ASSUME NEW S, NEW s \in Seq(S), Len(s) = 0 PROVE s = <<>>
OBVIOUS

LEMMA AccessesAreBytes ==
  /\ \A n \in 1..Accesses : Reply(n) \in Bytes
  /\ \A k \in 1..Keys : Key(k) \in Bytes
BY DEF Bytes

(* What a pull does to the FIFO and to the keyboard buffer. *)
LEMMA PullTakesTheHead ==
  ASSUME TypeOK, NEW r \in Registers, Pull(r)
  PROVE  /\ tx # <<>> /\ answer' = Head(tx) /\ tx' = Tail(tx) /\ m68k' = "run"
         /\ tx' \in Seq(Bytes) /\ Len(tx') = Len(tx) - 1 /\ Len(tx) \in Nat
         /\ answer' \in Bytes /\ answer' = tx[1]
         /\ \A i \in 1..Len(tx') : tx'[i] = tx[i + 1] /\ i + 1 \in 1..Len(tx)
         /\ ring' = ring \/ ring' = Append(ring, tx[1])
         /\ ring' \in Seq(Bytes)
<1>1. tx \in Seq(Bytes) /\ tx # <<>> /\ ring \in Seq(Bytes)
  BY DEF Pull, TypeOK
<1>2. /\ Len(tx) \in Nat /\ Len(tx) >= 1
      /\ Head(tx) \in Bytes /\ Head(tx) = tx[1]
      /\ Tail(tx) \in Seq(Bytes) /\ Len(Tail(tx)) = Len(tx) - 1
      /\ \A i \in 1..(Len(tx) - 1) : Tail(tx)[i] = tx[i + 1]
  BY <1>1, TailOf
<1>3. Append(ring, Head(tx)) \in Seq(Bytes)
  BY <1>1, <1>2, AppendTo
<1>4. answer' = Head(tx) /\ tx' = Tail(tx) /\ m68k' = "run"
  BY DEF Pull
<1>5. ring' = ring \/ ring' = Append(ring, Head(tx))
  BY DEF Pull
<1>6. \A i \in 1..Len(tx') : tx'[i] = tx[i + 1] /\ i + 1 \in 1..Len(tx)
  BY <1>2, <1>4
<1>7. ring' \in Seq(Bytes)
  BY <1>1, <1>3, <1>5
<1> QED BY <1>1, <1>2, <1>4, <1>5, <1>6, <1>7

-----------------------------------------------------------------------------
(* The types, and where packets are.                                        *)

Typed == TypeOK /\ PacketsAreAccesses

LEMMA InitTyped == Init => Typed
<1> SUFFICES ASSUME Init PROVE Typed
  OBVIOUS
<1>1. rx \in Seq(Registers \X (1..Accesses)) /\ tx \in Seq(Bytes) /\ ring \in Seq(Bytes)
  BY DEF Init
<1>2. Len(rx) = 0 /\ Len(tx) = 0 /\ packet \in Registers \X (0..Accesses)
  BY DEF Init, Registers
<1>3. pirq \in BOOLEAN /\ bkd_int \in BOOLEAN /\ saving \in BOOLEAN
  BY Zenon DEF Init
<1>4. /\ around \in {"any", "prompt", "quiet"} /\ core0 = "poll" /\ core1 = "poll"
      /\ m68k = "run" /\ reg \in Registers /\ answer = NONE
  BY DEF Init, Registers
<1>5. typed \in 0..Keys /\ access \in 0..Accesses /\ 0 <= FIFO
  BY DEF Init
<1>6. TypeOK
  BY <1>1, <1>2, <1>3, <1>4, <1>5 DEF TypeOK
<1> QED BY <1>4, <1>6 DEF Typed, PacketsAreAccesses

LEMMA PushIntoEmpty ==
  ASSUME NEW p, rx = <<>>, Push(p)
  PROVE  rx' = Append(rx, p)
<1>1. Len(rx) = 0
  OBVIOUS
<1> QED BY <1>1, BusAssumption DEF Push

LEMMA AccessTyped ==
  ASSUME Typed, NEW r \in Registers, Access(r)
  PROVE  Typed'
<1>1. access + 1 \in 1..Accesses /\ <<r, access + 1>> \in Registers \X (1..Accesses)
  BY DEF Access, Typed, TypeOK
<1>2. /\ rx \in Seq(Registers \X (1..Accesses)) /\ Len(rx) <= FIFO
      /\ rx' = IF Len(rx) < FIFO THEN Append(rx, <<r, access + 1>>) ELSE rx
  BY DEF Access, Push, Typed, TypeOK
<1>3. /\ Append(rx, <<r, access + 1>>) \in Seq(Registers \X (1..Accesses))
      /\ Len(Append(rx, <<r, access + 1>>)) = Len(rx) + 1 /\ Len(rx) \in Nat
  BY <1>1, <1>2, AppendTo
<1>4. /\ rx' # <<>> /\ Len(rx') <= FIFO /\ rx' \in Seq(Registers \X (1..Accesses))
  <2>1. CASE Len(rx) < FIFO
    BY <1>2, <1>3, <2>1, BusAssumption
  <2>2. CASE ~(Len(rx) < FIFO)
    BY <1>2, <1>3, <2>2, BusAssumption
  <2> QED BY <2>1, <2>2
<1>5. /\ tx' \in Seq(Bytes) /\ Len(tx') <= FIFO /\ ring' \in Seq(Bytes)
      /\ answer' \in Bytes \cup {NONE} /\ m68k' \in {"run", "wait"}
  <2>1. CASE Pull(r)
    BY <2>1, PullTakesTheHead DEF Typed, TypeOK
  <2>2. CASE m68k' = "wait" /\ UNCHANGED <<tx, answer, ring>>
    BY <2>2 DEF Typed, TypeOK
  <2> QED BY <2>1, <2>2 DEF Access
<1>6. /\ access' = access + 1 /\ reg' = r
      /\ UNCHANGED <<core0, packet, core1, typed, pirq, bkd_int, saving, around>>
  BY DEF Access, pico
<1> QED BY <1>1, <1>3, <1>4, <1>5, <1>6 DEF Typed, TypeOK, PacketsAreAccesses

LEMMA PutTyped ==
  ASSUME TypeOK, NEW b \in Bytes, Put(b)
  PROVE  tx' \in Seq(Bytes) /\ Len(tx') <= FIFO
<1>1. tx \in Seq(Bytes)
  BY DEF TypeOK
<1>2. Append(tx, b) \in Seq(Bytes) /\ Len(Append(tx, b)) = Len(tx) + 1 /\ Len(tx) \in Nat
  BY <1>1, AppendTo
<1> QED BY <1>1, <1>2 DEF Put, TypeOK

LEMMA NextTyped == Typed /\ [Next]_vars => Typed'
<1> SUFFICES ASSUME Typed, [Next]_vars PROVE Typed'
  OBVIOUS
<1>1. CASE ReadFile \/ SectorCommand \/ Int3Handler
  BY <1>1, AccessTyped DEF ReadFile, SectorCommand, Int3Handler, Registers
<1>2. CASE Dtack
  <2>1. reg \in Registers /\ Pull(reg) /\ TypeOK
    BY <1>2 DEF Dtack, Typed, TypeOK
  <2>2. tx' \in Seq(Bytes) /\ Len(tx') <= FIFO /\ ring' \in Seq(Bytes) /\ answer' \in Bytes
        /\ m68k' = "run"
    BY <2>1, PullTakesTheHead DEF TypeOK
  <2> QED BY <1>2, <2>2 DEF Dtack, pico, Typed, TypeOK, PacketsAreAccesses
<1>3. CASE Save
  BY <1>3 DEF Save, pico, Typed, TypeOK, PacketsAreAccesses
<1>4. CASE PirqHigh
  BY <1>4 DEF PirqHigh, cpu, Typed, TypeOK, PacketsAreAccesses
<1>5. CASE IntOff
  BY <1>5 DEF IntOff, cpu, Typed, TypeOK, PacketsAreAccesses
<1>6. CASE Get
  <2>1. rx \in Seq(Registers \X (1..Accesses)) /\ rx # <<>> /\ Len(rx) <= FIFO
    BY <1>6 DEF Get, Typed, TypeOK, PacketsAreAccesses
  <2>2. /\ Head(rx) \in Registers \X (1..Accesses) /\ Tail(rx) \in Seq(Registers \X (1..Accesses))
        /\ Len(Tail(rx)) = Len(rx) - 1 /\ Len(rx) \in Nat
    BY <2>1, TailOf
  <2>3. packet' \in Registers \X (0..Accesses) /\ packet'[2] \in 1..Accesses
    BY <1>6, <2>2 DEF Get
  <2> QED BY <1>6, <2>1, <2>2, <2>3 DEF Get, cpu, Typed, TypeOK, PacketsAreAccesses
<1>7. CASE Clear
  <2>1. /\ rx' \in Seq(Registers \X (1..Accesses)) /\ tx' \in Seq(Bytes)
        /\ Len(rx') = 0 /\ Len(tx') = 0
    BY <1>7 DEF Clear
  <2> QED BY <1>7, <2>1 DEF Clear, cpu, Typed, TypeOK, PacketsAreAccesses
<1>8. CASE Serve
  <2>1. Reply(packet[2]) \in Bytes
    BY <1>8, AccessesAreBytes DEF Serve, Typed, PacketsAreAccesses
  <2>2. tx' \in Seq(Bytes) /\ Len(tx') <= FIFO
    BY <1>8, <2>1, PutTyped DEF Serve, Typed, TypeOK
  <2> QED BY <1>8, <2>2 DEF Serve, cpu, Typed, TypeOK, PacketsAreAccesses
<1>9. CASE Type
  <2>1. typed + 1 \in 1..Keys
    BY <1>9 DEF Type, Types, Typed, TypeOK
  <2>2. tx' \in Seq(Bytes) /\ Len(tx') <= FIFO
    BY <1>9, <2>1, AccessesAreBytes, PutTyped DEF Type, Typed
  <2> QED BY <1>9, <2>1, <2>2 DEF Type, Types, cpu, Typed, TypeOK, PacketsAreAccesses
<1>10. CASE Core1
  BY <1>10 DEF Core1, Test, PirqLow, IntOn, cpu, Typed, TypeOK, PacketsAreAccesses
<1>11. CASE UNCHANGED vars
  BY <1>11 DEF vars, Typed, TypeOK, PacketsAreAccesses
<1> QED BY <1>1, <1>2, <1>3, <1>4, <1>5, <1>6, <1>7, <1>8, <1>9, <1>10, <1>11 DEF Next, Core0

-----------------------------------------------------------------------------
(* The order of the keys: a pull moves the head of the FIFO to the end of  *)
(* the keyboard buffer, and a new key is larger than all that were typed.   *)

KeysInv == KeysAreInOrder /\ KeysNeverRepeat

LEMMA BytesHaveNumbers ==
  ASSUME NEW b \in Bytes
  PROVE  b[2] \in Nat /\ b[1] \in {"key", "reply"}
BY DEF Bytes, Key, Reply

LEMMA PullKeepsKeys ==
  ASSUME Typed, KeysInv, NEW r \in Registers, Pull(r), typed' = typed
  PROVE  KeysInv'
<1>1. /\ tx \in Seq(Bytes) /\ ring \in Seq(Bytes) /\ typed \in Nat
      /\ Len(tx) \in Nat /\ Len(tx') \in Nat /\ Len(tx') = Len(tx) - 1 /\ Len(ring) \in Nat
      /\ tx[1] \in Bytes /\ 1 \in 1..Len(tx)
      /\ \A i \in 1..Len(tx') : tx'[i] = tx[i + 1] /\ i + 1 \in 1..Len(tx)
      /\ ring' = ring \/ ring' = Append(ring, tx[1])
  <2>1. TypeOK
    BY DEF Typed
  <2>2. /\ tx # <<>> /\ tx' \in Seq(Bytes) /\ Len(tx') = Len(tx) - 1 /\ Len(tx) \in Nat
        /\ answer' \in Bytes /\ answer' = tx[1]
        /\ \A i \in 1..Len(tx') : tx'[i] = tx[i + 1] /\ i + 1 \in 1..Len(tx)
        /\ ring' = ring \/ ring' = Append(ring, tx[1])
    BY <2>1, PullTakesTheHead
  <2>3. tx \in Seq(Bytes) /\ ring \in Seq(Bytes) /\ typed \in Nat
    BY <2>1 DEF TypeOK
  <2>4. Len(ring) \in Nat /\ Len(tx') \in Nat
    BY <2>2, <2>3
  <2> QED BY <2>2, <2>3, <2>4
<1>2. /\ \A i \in 1..Len(tx) : tx[i] \in Bytes /\ tx[i][2] \in Nat
      /\ \A i \in 1..Len(ring) : ring[i] \in Bytes /\ ring[i][2] \in Nat
  BY <1>1, BytesHaveNumbers
<1>3. /\ \A i \in 1..Len(tx') : IsKey(tx'[i]) => tx'[i][2] <= typed'
      /\ \A i, j \in 1..Len(tx') : i < j /\ IsKey(tx'[i]) /\ IsKey(tx'[j]) => tx'[i][2] < tx'[j][2]
  <2>1. ASSUME NEW i \in 1..Len(tx'), IsKey(tx'[i]) PROVE tx'[i][2] <= typed'
    BY <1>1, <2>1 DEF KeysInv, KeysAreInOrder
  <2>2. ASSUME NEW i \in 1..Len(tx'), NEW j \in 1..Len(tx'), i < j, IsKey(tx'[i]), IsKey(tx'[j])
        PROVE  tx'[i][2] < tx'[j][2]
    <3>1. /\ tx'[i] = tx[i + 1] /\ i + 1 \in 1..Len(tx)
          /\ tx'[j] = tx[j + 1] /\ j + 1 \in 1..Len(tx) /\ i + 1 < j + 1
      BY <1>1, <2>2
    <3> QED BY <2>2, <3>1 DEF KeysInv, KeysAreInOrder
  <2> QED BY <2>1, <2>2
<1>4. CASE ring' = ring
  BY <1>1, <1>2, <1>3, <1>4 DEF KeysInv, KeysAreInOrder, KeysNeverRepeat
<1>5. CASE ring' = Append(ring, tx[1])
  <2>1. /\ Len(ring') = Len(ring) + 1
        /\ \A i \in 1..Len(ring) : ring'[i] = ring[i]
        /\ ring'[Len(ring) + 1] = tx[1]
    BY <1>1, <1>5, AppendTo
  <2>2. \A i \in 1..Len(ring') : i \in 1..Len(ring) \/ i = Len(ring) + 1
    BY <1>1, <2>1
  <2>3. \A i \in 1..Len(ring') : IsKey(ring'[i]) => ring'[i][2] <= typed'
    BY <1>1, <1>2, <2>1, <2>2 DEF KeysInv, KeysAreInOrder
  <2>4. \A i \in 1..Len(ring'), j \in 1..Len(tx') :
          IsKey(ring'[i]) /\ IsKey(tx'[j]) => ring'[i][2] < tx'[j][2]
    <3> SUFFICES ASSUME NEW i \in 1..Len(ring'), NEW j \in 1..Len(tx'),
                        IsKey(ring'[i]), IsKey(tx'[j])
                 PROVE  ring'[i][2] < tx'[j][2]
      OBVIOUS
    <3>1. tx'[j] = tx[j + 1] /\ j + 1 \in 1..Len(tx) /\ 1 < j + 1
      BY <1>1
    <3>2. CASE i \in 1..Len(ring)
      BY <2>1, <3>1, <3>2 DEF KeysInv, KeysAreInOrder
    <3>3. CASE i = Len(ring) + 1
      BY <1>1, <2>1, <3>1, <3>3 DEF KeysInv, KeysAreInOrder
    <3> QED BY <2>2, <3>2, <3>3
  <2>5. \A i, j \in 1..Len(ring') :
          i < j /\ IsKey(ring'[i]) /\ IsKey(ring'[j]) => ring'[i][2] < ring'[j][2]
    <3> SUFFICES ASSUME NEW i \in 1..Len(ring'), NEW j \in 1..Len(ring'), i < j,
                        IsKey(ring'[i]), IsKey(ring'[j])
                 PROVE  ring'[i][2] < ring'[j][2]
      OBVIOUS
    <3>1. i \in 1..Len(ring)
      BY <1>1, <2>1
    <3>2. CASE j \in 1..Len(ring)
      BY <2>1, <3>1, <3>2 DEF KeysInv, KeysNeverRepeat, IsKey
    <3>3. CASE j = Len(ring) + 1
      BY <1>1, <2>1, <3>1, <3>3 DEF KeysInv, KeysAreInOrder
    <3> QED BY <2>2, <3>2, <3>3
  <2> QED BY <1>3, <2>3, <2>4, <2>5 DEF KeysInv, KeysAreInOrder, KeysNeverRepeat, IsKey
<1> QED BY <1>1, <1>4, <1>5

(* What is put in the FIFO is no key, or the one just typed. *)
LEMMA PutKeepsKeys ==
  ASSUME Typed, KeysInv, NEW b \in Bytes, Put(b), UNCHANGED ring, typed' \in Nat,
         typed <= typed', IsKey(b) => b[2] = typed' /\ typed < typed'
  PROVE  KeysInv'
<1>1. tx \in Seq(Bytes) /\ ring \in Seq(Bytes) /\ typed \in Nat /\ Len(tx) \in Nat
  BY DEF Typed, TypeOK
<1>2. /\ \A i \in 1..Len(tx) : tx[i] \in Bytes /\ tx[i][2] \in Nat
      /\ \A i \in 1..Len(ring) : ring[i] \in Bytes /\ ring[i][2] \in Nat
  BY <1>1, BytesHaveNumbers
<1>3. CASE tx' = tx
  BY <1>1, <1>2, <1>3 DEF KeysInv, KeysAreInOrder, KeysNeverRepeat
<1>4. CASE tx' = Append(tx, b)
  <2>1. /\ Len(tx') = Len(tx) + 1
        /\ \A i \in 1..Len(tx) : tx'[i] = tx[i]
        /\ tx'[Len(tx) + 1] = b
    BY <1>1, <1>4, AppendTo
  <2>2. \A i \in 1..Len(tx') : i \in 1..Len(tx) \/ i = Len(tx) + 1
    BY <1>1, <2>1
  <2>3. /\ \A i \in 1..Len(tx') : IsKey(tx'[i]) => tx'[i][2] <= typed'
        /\ \A i \in 1..Len(ring') : IsKey(ring'[i]) => ring'[i][2] <= typed'
    <3>1. ASSUME NEW i \in 1..Len(tx), IsKey(tx'[i]) PROVE tx'[i][2] <= typed'
      BY <1>1, <1>2, <2>1, <3>1 DEF KeysInv, KeysAreInOrder
    <3>2. IsKey(tx'[Len(tx) + 1]) => tx'[Len(tx) + 1][2] <= typed'
      BY <2>1
    <3>3. ASSUME NEW i \in 1..Len(ring'), IsKey(ring'[i]) PROVE ring'[i][2] <= typed'
      BY <1>1, <1>2, <3>3 DEF KeysInv, KeysAreInOrder
    <3> QED BY <2>2, <3>1, <3>2, <3>3
  <2>4. \A i, j \in 1..Len(tx') :
          i < j /\ IsKey(tx'[i]) /\ IsKey(tx'[j]) => tx'[i][2] < tx'[j][2]
    <3> SUFFICES ASSUME NEW i \in 1..Len(tx'), NEW j \in 1..Len(tx'), i < j,
                        IsKey(tx'[i]), IsKey(tx'[j])
                 PROVE  tx'[i][2] < tx'[j][2]
      OBVIOUS
    <3>1. i \in 1..Len(tx)
      BY <1>1, <2>1
    <3>2. CASE j \in 1..Len(tx)
      BY <2>1, <3>1, <3>2 DEF KeysInv, KeysAreInOrder
    <3>3. CASE j = Len(tx) + 1
      BY <1>1, <1>2, <2>1, <3>1, <3>3 DEF KeysInv, KeysAreInOrder
    <3> QED BY <2>2, <3>2, <3>3
  <2>5. \A i \in 1..Len(ring'), j \in 1..Len(tx') :
          IsKey(ring'[i]) /\ IsKey(tx'[j]) => ring'[i][2] < tx'[j][2]
    BY <1>1, <1>2, <2>1, <2>2 DEF KeysInv, KeysAreInOrder
  <2> QED BY <2>3, <2>4, <2>5 DEF KeysInv, KeysAreInOrder, KeysNeverRepeat
<1> QED BY <1>3, <1>4 DEF Put

LEMMA NextKeepsKeys == Typed /\ KeysInv /\ [Next]_vars => KeysInv'
<1> SUFFICES ASSUME Typed, KeysInv, [Next]_vars PROVE KeysInv'
  OBVIOUS
<1>1. ASSUME NEW r \in Registers, Access(r) PROVE KeysInv'
  <2>1. typed' = typed
    BY <1>1 DEF Access, pico
  <2>2. CASE Pull(r)
    BY <2>1, <2>2, PullKeepsKeys
  <2>3. CASE UNCHANGED <<tx, answer, ring>>
    BY <2>1, <2>3 DEF KeysInv, KeysAreInOrder, KeysNeverRepeat
  <2> QED BY <1>1, <2>2, <2>3 DEF Access
<1>2. CASE ReadFile \/ SectorCommand \/ Int3Handler
  BY <1>1, <1>2 DEF ReadFile, SectorCommand, Int3Handler, Registers
<1>3. CASE Dtack
  <2>1. reg \in Registers /\ Pull(reg) /\ typed' = typed
    BY <1>3 DEF Dtack, pico, Typed, TypeOK
  <2> QED BY <2>1, PullKeepsKeys
<1>4. CASE Clear
  <2>1. Len(tx') = 0 /\ UNCHANGED <<ring, typed>>
    BY <1>4 DEF Clear, cpu
  <2> QED BY <2>1 DEF KeysInv, KeysAreInOrder, KeysNeverRepeat
<1>5. CASE Serve
  <2>1. UNCHANGED <<ring, typed>> /\ typed \in Nat
    BY <1>5 DEF Serve, cpu, Typed, TypeOK
  <2>2. Reply(packet[2]) \in Bytes /\ ~IsKey(Reply(packet[2]))
    BY <1>5, AccessesAreBytes DEF Serve, Typed, PacketsAreAccesses, IsKey, Reply
  <2>3. CASE Put(Reply(packet[2]))
    BY <2>1, <2>2, <2>3, PutKeepsKeys
  <2>4. CASE UNCHANGED tx
    BY <2>1, <2>4 DEF KeysInv, KeysAreInOrder, KeysNeverRepeat
  <2> QED BY <1>5, <2>3, <2>4 DEF Serve
<1>6. CASE Type
  <2>1. typed + 1 \in 1..Keys /\ typed \in Nat /\ typed' = typed + 1 /\ UNCHANGED ring
    BY <1>6 DEF Type, Types, cpu, Typed, TypeOK
  <2>2. Key(typed + 1) \in Bytes /\ Key(typed + 1)[2] = typed'
    BY <2>1, AccessesAreBytes DEF Key
  <2>3. Put(Key(typed + 1))
    BY <1>6 DEF Type
  <2> QED BY <2>1, <2>2, <2>3, PutKeepsKeys
<1>7. CASE Save \/ PirqHigh \/ IntOff \/ Get \/ Core1 \/ UNCHANGED vars
  <2>1. UNCHANGED <<tx, ring, typed>>
    BY <1>7 DEF Save, PirqHigh, IntOff, Get, Core1, Test, PirqLow, IntOn, pico, cpu, vars
  <2> QED BY <2>1 DEF KeysInv, KeysAreInOrder, KeysNeverRepeat
<1> QED BY <1>2, <1>3, <1>4, <1>5, <1>6, <1>7 DEF Next, Core0

-----------------------------------------------------------------------------
(* One packet at a time, and answers that are never more than one behind.  *)

PromptInv == OnePacket /\ AnswersAreRecent /\ AtMostOneBehind

(* A pull only shortens what the FIFO holds. *)
LEMMA PullKeepsTheRest ==
  ASSUME Typed, NEW r \in Registers, Pull(r)
  PROVE  /\ \A i \in 1..Len(tx') : \E j \in 1..Len(tx) : tx'[i] = tx[j]
         /\ \E j \in 1..Len(tx) : answer' = tx[j]
<1>1. /\ tx # <<>> /\ Len(tx') = Len(tx) - 1 /\ Len(tx) \in Nat
      /\ tx' \in Seq(Bytes) /\ answer' = tx[1]
      /\ \A i \in 1..Len(tx') : tx'[i] = tx[i + 1] /\ i + 1 \in 1..Len(tx)
  BY PullTakesTheHead DEF Typed
<1>2. Len(tx') \in Nat
  BY <1>1
<1>3. 1 \in 1..Len(tx)
  BY <1>1, <1>2
<1> QED BY <1>1, <1>3

LEMMA AccessKeepsPrompt ==
  ASSUME Typed, PromptInv, NEW r \in Registers, Access(r), around # "any"
  PROVE  PromptInv'
<1>1. /\ rx = <<>> /\ core0 = "poll" /\ core0' = core0 /\ m68k = "run"
      /\ access \in Nat /\ access' = access + 1
      /\ rx' = Append(rx, <<r, access + 1>>)
  BY PushIntoEmpty DEF Access, Prompt, pico, Typed, TypeOK
<1>2. Len(rx') = 1 /\ rx'[1] = <<r, access'>>
  BY <1>1
<1>3. OnePacket'
  BY <1>1, <1>2 DEF OnePacket
<1>4. \A i \in 1..Len(tx) : tx[i][1] = "reply" => tx[i][2] = access
  BY <1>1 DEF PromptInv, AnswersAreRecent, Pending
<1>5. rx' # <<>> /\ Pending'
  BY <1>2 DEF Pending
<1>6. /\ \A i \in 1..Len(tx') : tx'[i][1] = "reply" => tx'[i][2] = access
      /\ m68k' = "run" /\ answer'[1] = "reply" => answer'[2] = access
  <2>1. CASE Pull(r)
    BY <1>4, <2>1, PullKeepsTheRest
  <2>2. CASE m68k' = "wait" /\ UNCHANGED <<tx, answer, ring>>
    BY <1>4, <2>2
  <2> QED BY <2>1, <2>2 DEF Access
<1>7. AnswersAreRecent'
  BY <1>1, <1>5, <1>6 DEF AnswersAreRecent
<1>8. AtMostOneBehind'
  BY <1>1, <1>6 DEF AtMostOneBehind
<1> QED BY <1>3, <1>7, <1>8 DEF PromptInv

LEMMA DtackKeepsPrompt ==
  ASSUME Typed, PromptInv, Dtack, around # "any"
  PROVE  PromptInv'
<1>1. /\ reg \in Registers /\ Pull(reg) /\ access \in Nat
      /\ UNCHANGED <<rx, core0, packet, access, around>>
  BY DEF Dtack, pico, Typed, TypeOK
<1>2. OnePacket'
  BY <1>1 DEF PromptInv, OnePacket
<1>3. /\ \A i \in 1..Len(tx') : \E j \in 1..Len(tx) : tx'[i] = tx[j]
      /\ \E j \in 1..Len(tx) : answer' = tx[j]
  BY <1>1, PullKeepsTheRest
<1>4. Pending' = Pending
  BY <1>1 DEF Pending
<1>5. AnswersAreRecent'
  BY <1>1, <1>3, <1>4 DEF PromptInv, AnswersAreRecent
<1>6. AtMostOneBehind'
  BY <1>1, <1>3 DEF PromptInv, AnswersAreRecent, AtMostOneBehind
<1> QED BY <1>2, <1>5, <1>6 DEF PromptInv

LEMMA GetKeepsPrompt ==
  ASSUME Typed, PromptInv, Get, around # "any"
  PROVE  PromptInv'
<1>1. /\ rx \in Seq(Registers \X (1..Accesses)) /\ rx # <<>> /\ Len(rx) <= 1
      /\ packet' = Head(rx) /\ rx' = Tail(rx) /\ core0 = "get" /\ core0' = "clear"
      /\ UNCHANGED <<tx, access, answer, m68k, around>>
  BY DEF Get, cpu, Typed, TypeOK, PacketsAreAccesses, PromptInv, OnePacket
<1>2. Len(rx) = 1 /\ Head(rx) = rx[1] /\ rx' = <<>>
  <2>1. /\ Len(rx) \in Nat /\ Len(rx) >= 1 /\ Head(rx) = rx[1]
        /\ Tail(rx) \in Seq(Registers \X (1..Accesses)) /\ Len(Tail(rx)) = Len(rx) - 1
    BY <1>1, TailOf
  <2>2. Len(rx) = 1 /\ Len(Tail(rx)) = 0
    BY <1>1, <2>1
  <2>3. Tail(rx) = <<>>
    BY <2>1, <2>2, NoneIsEmpty
  <2> QED BY <1>1, <2>1, <2>2, <2>3
<1>3. rx[1][2] = access
  BY <1>2 DEF PromptInv, OnePacket
<1>4. Len(rx') = 0 /\ packet'[2] = access'
  BY <1>1, <1>2, <1>3
<1>5. OnePacket'
  BY <1>1, <1>2, <1>4 DEF OnePacket
<1>6. Pending /\ Pending'
  BY <1>1 DEF Pending
<1>7. AnswersAreRecent'
  BY <1>1, <1>6 DEF PromptInv, AnswersAreRecent
<1>8. AtMostOneBehind'
  BY <1>1 DEF PromptInv, AtMostOneBehind
<1> QED BY <1>5, <1>7, <1>8 DEF PromptInv

LEMMA ServeKeepsPrompt ==
  ASSUME Typed, PromptInv, Serve, around # "any"
  PROVE  PromptInv'
<1>1. /\ tx \in Seq(Bytes) /\ core0 = "answer" /\ core0' = "poll" /\ rx = <<>> /\ packet[2] = access
      /\ Reply(access) \in Bytes
      /\ UNCHANGED <<rx, packet, access, answer, m68k, around>>
  BY AccessesAreBytes DEF Serve, cpu, Typed, TypeOK, PacketsAreAccesses, PromptInv, OnePacket
<1>2. \A i \in 1..Len(tx) : tx[i][1] # "reply"
  BY <1>1 DEF PromptInv, AnswersAreRecent
<1>3. tx' = tx \/ tx' = Append(tx, Reply(access))
  BY <1>1 DEF Serve, Put
<1>4. \A i \in 1..Len(tx') : tx'[i][1] = "reply" => tx'[i][2] = access
  <2>1. CASE tx' = tx
    BY <1>2, <2>1
  <2>2. CASE tx' = Append(tx, Reply(access))
    <3>1. /\ Len(tx') = Len(tx) + 1 /\ Len(tx) \in Nat
          /\ \A i \in 1..Len(tx) : tx'[i] = tx[i]
          /\ tx'[Len(tx) + 1] = Reply(access)
      BY <1>1, <2>2, AppendTo
    <3>2. \A i \in 1..Len(tx') : i \in 1..Len(tx) \/ i = Len(tx) + 1
      BY <3>1
    <3>3. Reply(access)[2] = access
      BY DEF Reply
    <3> QED BY <1>2, <3>1, <3>2, <3>3
  <2> QED BY <1>3, <2>1, <2>2
<1>5. ~Pending'
  BY <1>1 DEF Pending
<1>6. AnswersAreRecent'
  BY <1>1, <1>4, <1>5 DEF AnswersAreRecent
<1>7. OnePacket'
  BY <1>1 DEF PromptInv, OnePacket
<1>8. AtMostOneBehind'
  BY <1>1 DEF PromptInv, AtMostOneBehind
<1> QED BY <1>6, <1>7, <1>8 DEF PromptInv

LEMMA TypeKeepsPrompt ==
  ASSUME Typed, PromptInv, Type, around # "any"
  PROVE  PromptInv'
<1>1. /\ tx \in Seq(Bytes) /\ typed + 1 \in 1..Keys
      /\ UNCHANGED <<rx, core0, packet, access, answer, m68k, around>>
  BY DEF Type, Types, cpu, Typed, TypeOK
<1>2. tx' = tx \/ tx' = Append(tx, Key(typed + 1))
  BY DEF Type, Put
<1>3. Pending' = Pending
  BY <1>1 DEF Pending
<1>4. AnswersAreRecent'
  <2>1. CASE tx' = tx
    BY <1>1, <1>3, <2>1 DEF PromptInv, AnswersAreRecent
  <2>2. CASE tx' = Append(tx, Key(typed + 1))
    <3>1. /\ Len(tx') = Len(tx) + 1 /\ Len(tx) \in Nat
          /\ \A i \in 1..Len(tx) : tx'[i] = tx[i]
          /\ tx'[Len(tx) + 1] = Key(typed + 1)
      BY <1>1, <2>2, AccessesAreBytes, AppendTo
    <3>2. \A i \in 1..Len(tx') : i \in 1..Len(tx) \/ i = Len(tx) + 1
      BY <3>1
    <3>3. Key(typed + 1)[1] # "reply"
      BY DEF Key
    <3> QED BY <1>1, <1>3, <3>1, <3>2, <3>3 DEF PromptInv, AnswersAreRecent
  <2> QED BY <1>2, <2>1, <2>2
<1>5. OnePacket'
  BY <1>1 DEF PromptInv, OnePacket
<1>6. AtMostOneBehind'
  BY <1>1 DEF PromptInv, AtMostOneBehind
<1> QED BY <1>4, <1>5, <1>6 DEF PromptInv

LEMMA NextKeepsPrompt == Typed /\ PromptInv /\ [Next]_vars => PromptInv'
<1> SUFFICES ASSUME Typed, PromptInv, [Next]_vars PROVE PromptInv'
  OBVIOUS
<1>0. around' = around
  BY DEF Next, ReadFile, SectorCommand, Int3Handler, Access, Dtack, Save, Core0, PirqHigh, IntOff,
         Get, Clear, Serve, Type, Types, Core1, Test, PirqLow, IntOn, vars
<1>1. CASE around = "any"
  BY <1>0, <1>1 DEF PromptInv, OnePacket, AnswersAreRecent, AtMostOneBehind
<1>2. CASE around # "any"
  <2>1. CASE ReadFile \/ SectorCommand \/ Int3Handler
    BY <1>2, <2>1, AccessKeepsPrompt DEF ReadFile, SectorCommand, Int3Handler, Registers
  <2>2. CASE Dtack
    BY <1>2, <2>2, DtackKeepsPrompt
  <2>3. CASE Get
    BY <1>2, <2>3, GetKeepsPrompt
  <2>4. CASE Clear
    <3>1. /\ rx' = <<>> /\ Len(rx') = 0 /\ Len(tx') = 0 /\ core0 = "clear" /\ core0' = "answer"
          /\ UNCHANGED <<packet, access, answer, m68k, around>>
      BY <2>4 DEF Clear, cpu
    <3> QED BY <3>1 DEF PromptInv, OnePacket, AnswersAreRecent, AtMostOneBehind
  <2>5. CASE Serve
    BY <1>2, <2>5, ServeKeepsPrompt
  <2>6. CASE Type
    BY <1>2, <2>6, TypeKeepsPrompt
  <2>7. CASE PirqHigh \/ IntOff
    <3>1. /\ core0 \in {"poll", "off"} /\ core0' \in {"off", "get"}
          /\ UNCHANGED <<rx, tx, packet, access, answer, m68k>>
      BY <2>7 DEF PirqHigh, IntOff, cpu
    <3> QED BY <1>0, <3>1 DEF PromptInv, OnePacket, AnswersAreRecent, AtMostOneBehind, Pending
  <2>8. CASE Save \/ Core1 \/ UNCHANGED vars
    <3>1. UNCHANGED <<rx, tx, core0, packet, access, answer, m68k>>
      BY <2>8 DEF Save, Core1, Test, PirqLow, IntOn, pico, cpu, vars
    <3> QED BY <1>0, <3>1 DEF PromptInv, OnePacket, AnswersAreRecent, AtMostOneBehind, Pending
  <2> QED BY <2>1, <2>2, <2>3, <2>4, <2>5, <2>6, <2>7, <2>8 DEF Next, Core0
<1> QED BY <1>1, <1>2

-----------------------------------------------------------------------------
(* In quiet surroundings: from nothing under way to a key that is typed and *)
(* fetched, or to a file register that is asked and answered, and back.     *)

QuietInv == OneThingAtATime /\ AnswersMatch

KeysAreTheTyped == \A i \in 1..Len(ring) : ring[i] = Key(i)

LEMMA SingletonQueue ==
  ASSUME NEW e
  PROVE  /\ Append(<<>>, e) = <<e>> /\ <<e>> # <<>>
         /\ Head(<<e>>) = e /\ Tail(<<e>>) = <<>> /\ Len(<<>>) = 0
OBVIOUS

LEMMA ReadFileIsAsked ==
  ASSUME Typed, QuietInv, around = "quiet", ReadFile
  PROVE  QuietInv'
<1>1. /\ core0 = "poll" /\ rx = <<>> /\ core1 = "poll" /\ m68k = "run" /\ (saving \/ ~pirq)
      /\ access' = access + 1 /\ reg' = "file" /\ rx' = Append(rx, <<"file", access + 1>>)
      /\ UNCHANGED <<core0, core1, typed, pirq, bkd_int, around>>
  BY PushIntoEmpty DEF ReadFile, Open, Access, Prompt, Quiet, pico
<1>2. NothingUp
  BY <1>1 DEF QuietInv, OneThingAtATime, NothingUp, KeyTyped, KeyFetched, FileAsked, FileAnswered,
              Serving
<1>3. m68k' = "wait" /\ UNCHANGED <<tx, answer, ring>>
  BY <1>2 DEF ReadFile, Access, Pull, NothingUp
<1>4. rx' = <<<<"file", access'>>>>
  BY <1>1, SingletonQueue
<1>5. FileAsked'
  BY <1>1, <1>2, <1>3, <1>4 DEF NothingUp, FileAsked, Serving
<1>6. AnswersMatch'
  BY <1>1, <1>3 DEF QuietInv, AnswersMatch
<1> QED BY <1>5, <1>6 DEF QuietInv, OneThingAtATime

LEMMA KeyIsFetched ==
  ASSUME Typed, QuietInv, around = "quiet", Int3Handler
  PROVE  QuietInv'
<1>1. /\ core0 = "poll" /\ rx = <<>> /\ core1 = "poll" /\ m68k = "run" /\ pirq
      /\ access' = access + 1 /\ reg' = "key" /\ rx' = Append(rx, <<"key", access + 1>>)
      /\ UNCHANGED <<core0, core1, typed, pirq, bkd_int, around>>
  BY PushIntoEmpty DEF Int3Handler, Access, Prompt, Quiet, pico
<1>2. KeyTyped
  BY <1>1 DEF QuietInv, OneThingAtATime, NothingUp, KeyTyped, KeyFetched, FileAsked, FileAnswered,
              Serving
<1>3. tx = <<Key(typed)>> /\ tx # <<>> /\ Len(ring) + 1 = typed
  BY <1>2 DEF KeyTyped
<1>4. Pull("key")
  BY <1>3 DEF Int3Handler, Access
<1>5. m68k' = "run" /\ tx' = Tail(tx) /\ ring' = Append(ring, Head(tx))
  BY <1>4 DEF Pull
<1>6. tx' = <<>> /\ ring' = Append(ring, Key(typed))
  BY <1>3, <1>5, SingletonQueue
<1>7. rx' = <<<<"key", access'>>>>
  BY <1>1, SingletonQueue
<1>8. ring \in Seq(Bytes) /\ Key(typed) \in Bytes /\ typed \in Nat
  <2>1. ring \in Seq(Bytes) /\ typed \in 0..Keys
    BY DEF Typed, TypeOK
  <2>2. typed \in 1..Keys
    BY <1>3, <2>1
  <2> QED BY <2>1, <2>2, AccessesAreBytes
<1>9. /\ Len(ring') = typed /\ ring'[typed] = Key(typed) /\ Len(ring) \in Nat
      /\ \A i \in 1..Len(ring) : ring'[i] = ring[i]
  BY <1>3, <1>6, <1>8, AppendTo
<1>10. KeysAreTheTyped'
  <2>1. \A i \in 1..Len(ring') : i \in 1..Len(ring) \/ i = typed
    BY <1>3, <1>8, <1>9
  <2> QED BY <1>9, <2>1 DEF QuietInv, AnswersMatch, KeysAreTheTyped
<1>11. KeyFetched'
  BY <1>1, <1>5, <1>6, <1>7, <1>9 DEF KeyFetched, Serving
<1>12. AnswersMatch'
  BY <1>1, <1>10 DEF AnswersMatch, KeysAreTheTyped
<1> QED BY <1>11, <1>12 DEF QuietInv, OneThingAtATime

LEMMA DtackEndsTheRead ==
  ASSUME Typed, QuietInv, around = "quiet", Dtack
  PROVE  QuietInv'
<1>1. /\ m68k = "wait" /\ Pull(reg)
      /\ UNCHANGED <<rx, core0, core1, typed, pirq, bkd_int, access, reg, around>>
  BY DEF Dtack, pico
<1>2. FileAnswered
  BY <1>1 DEF Pull, QuietInv, OneThingAtATime, NothingUp, KeyTyped, KeyFetched, FileAsked
<1>3. tx = <<Reply(access)>> /\ reg = "file"
  BY <1>2 DEF FileAnswered
<1>4. answer' = Head(tx) /\ tx' = Tail(tx) /\ m68k' = "run" /\ ring' = ring
  BY <1>1, <1>3 DEF Pull
<1>5. answer' = Reply(access') /\ tx' = <<>>
  BY <1>1, <1>3, <1>4, SingletonQueue
<1>6. NothingUp'
  BY <1>1, <1>2, <1>4, <1>5 DEF FileAnswered, NothingUp, Waiting0
<1>7. AnswersMatch'
  BY <1>1, <1>4, <1>5 DEF QuietInv, AnswersMatch
<1> QED BY <1>6, <1>7 DEF QuietInv, OneThingAtATime

(* What core 0 does is done for the packet of the last access. *)
LEMMA CoreZeroServes ==
  ASSUME Typed, QuietInv, around = "quiet", PirqHigh \/ IntOff \/ Get \/ Clear
  PROVE  QuietInv'
<1>1. UNCHANGED <<core1, typed, m68k, access, reg, answer, ring, around>>
  BY DEF PirqHigh, IntOff, Get, Clear, cpu
<1>2. KeyFetched \/ FileAsked
  BY DEF PirqHigh, IntOff, Get, Clear, QuietInv, OneThingAtATime, NothingUp, KeyTyped, FileAnswered,
         Waiting0
<1>3. tx = <<>> /\ tx' = <<>>
  BY <1>2 DEF KeyFetched, FileAsked, PirqHigh, IntOff, Get, Clear
<1>4. ASSUME NEW r, Serving(r) PROVE Serving(r)' /\ (~pirq => ~pirq') /\ (~bkd_int => ~bkd_int')
  <2>1. CASE PirqHigh
    BY <1>1, <1>4, <2>1 DEF PirqHigh, Serving
  <2>2. CASE IntOff
    BY <1>1, <1>4, <2>2 DEF IntOff, Serving
  <2>3. CASE Get
    <3>1. core0 = "get" /\ rx = <<<<r, access>>>> /\ ~pirq /\ ~bkd_int
      BY <1>4, <2>3 DEF Get, Serving
    <3>2. packet' = <<r, access>> /\ rx' = <<>>
      BY <2>3, <3>1, SingletonQueue DEF Get
    <3> QED BY <1>1, <2>3, <3>1, <3>2 DEF Get, Serving
  <2>4. CASE Clear
    BY <1>1, <1>4, <2>4 DEF Clear, Serving
  <2> QED BY <2>1, <2>2, <2>3, <2>4
<1>5. KeyFetched' \/ FileAsked'
  BY <1>1, <1>2, <1>3, <1>4 DEF KeyFetched, FileAsked
<1>6. AnswersMatch'
  BY <1>1 DEF QuietInv, AnswersMatch
<1> QED BY <1>5, <1>6 DEF QuietInv, OneThingAtATime

LEMMA FileIsAnswered ==
  ASSUME Typed, QuietInv, around = "quiet", Serve
  PROVE  QuietInv'
<1>1. /\ core0 = "answer" /\ core0' = "poll"
      /\ UNCHANGED <<rx, pirq, bkd_int, core1, typed, m68k, access, reg, answer, ring, around>>
  BY DEF Serve, cpu
<1>2. AnswersMatch'
  BY <1>1 DEF QuietInv, AnswersMatch
<1>3. CASE KeyFetched
  <2>1. packet[1] = "key" /\ rx = <<>> /\ ~pirq /\ ~bkd_int
    BY <1>1, <1>3 DEF KeyFetched, Serving
  <2>2. UNCHANGED tx
    BY <2>1 DEF Serve, Answers
  <2>3. NothingUp'
    BY <1>1, <1>3, <2>1, <2>2 DEF KeyFetched, NothingUp, Waiting0
  <2> QED BY <1>2, <2>3 DEF QuietInv, OneThingAtATime
<1>4. CASE FileAsked
  <2>1. packet = <<"file", access>> /\ rx = <<>>
    BY <1>1, <1>4 DEF FileAsked, Serving
  <2>2. Put(Reply(access))
    BY <2>1 DEF Serve, Answers
  <2>3. tx = <<>> /\ Len(tx) < FIFO
    BY <1>4, SingletonQueue DEF FileAsked
  <2>4. tx' = <<Reply(access')>>
    BY <1>1, <2>2, <2>3, SingletonQueue DEF Put
  <2>5. FileAnswered'
    BY <1>1, <1>4, <2>1, <2>4 DEF FileAsked, FileAnswered, Waiting0
  <2> QED BY <1>2, <2>5 DEF QuietInv, OneThingAtATime
<1> QED BY <1>1, <1>3, <1>4 DEF QuietInv, OneThingAtATime, NothingUp, KeyTyped, FileAnswered,
                                Waiting0

LEMMA KeyIsTyped ==
  ASSUME Typed, QuietInv, around = "quiet", Type
  PROVE  QuietInv'
<1>1. /\ rx = <<>> /\ core0 = "poll" /\ m68k = "run" /\ ~saving /\ ~pirq /\ core1 = "poll"
      /\ typed' = typed + 1 /\ core1' = "test" /\ Put(Key(typed + 1))
      /\ UNCHANGED <<rx, pirq, bkd_int, core0, m68k, saving, access, reg, answer, ring, around>>
  BY DEF Type, Types, cpu
<1>2. NothingUp
  BY <1>1 DEF QuietInv, OneThingAtATime, NothingUp, KeyTyped, KeyFetched, FileAsked, FileAnswered,
              Serving
<1>3. tx = <<>> /\ Len(tx) < FIFO
  BY <1>2, SingletonQueue DEF NothingUp
<1>4. tx' = <<Key(typed')>>
  BY <1>1, <1>3, SingletonQueue DEF Put
<1>5. KeyTyped'
  BY <1>1, <1>2, <1>4 DEF NothingUp, KeyTyped, Waiting0
<1>6. AnswersMatch'
  BY <1>1 DEF QuietInv, AnswersMatch
<1> QED BY <1>5, <1>6 DEF QuietInv, OneThingAtATime

LEMMA CoreOneRings ==
  ASSUME Typed, QuietInv, around = "quiet", Core1
  PROVE  QuietInv'
<1>1. /\ core1 # "poll"
      /\ UNCHANGED <<rx, tx, core0, typed, m68k, saving, access, reg, answer, ring, around>>
  BY DEF Core1, Test, PirqLow, IntOn, cpu
<1>2. KeyTyped
  BY <1>1 DEF QuietInv, OneThingAtATime, NothingUp, KeyFetched, FileAsked, FileAnswered
<1>3. \/ core1' = "pirq" /\ ~pirq' /\ ~bkd_int'
      \/ core1' = "on" /\ pirq' /\ ~bkd_int'
      \/ core1' = "poll" /\ pirq' /\ bkd_int'
  BY <1>2 DEF KeyTyped, Core1, Test, PirqLow, IntOn
<1>4. KeyTyped'
  BY <1>1, <1>2, <1>3 DEF KeyTyped, Waiting0
<1>5. AnswersMatch'
  BY <1>1 DEF QuietInv, AnswersMatch
<1> QED BY <1>4, <1>5 DEF QuietInv, OneThingAtATime

LEMMA SaveChangesNothing ==
  ASSUME Typed, QuietInv, around = "quiet", Save
  PROVE  QuietInv'
<1>1. /\ m68k = "run" /\ (saving \/ ~pirq) /\ core1 = "poll"
      /\ UNCHANGED <<rx, tx, core0, packet, core1, typed, pirq, bkd_int, m68k, access, reg, answer,
                     ring, around>>
  BY DEF Save, Open, Quiet, pico
<1>2. NothingUp \/ KeyFetched
  BY <1>1 DEF QuietInv, OneThingAtATime, KeyTyped, FileAsked, FileAnswered
<1>3. NothingUp' \/ KeyFetched'
  BY <1>1, <1>2 DEF NothingUp, KeyFetched, Waiting0, Serving
<1>4. AnswersMatch'
  BY <1>1 DEF QuietInv, AnswersMatch
<1> QED BY <1>3, <1>4 DEF QuietInv, OneThingAtATime

LEMMA NextKeepsQuiet == Typed /\ QuietInv /\ [Next]_vars => QuietInv'
<1> SUFFICES ASSUME Typed, QuietInv, [Next]_vars PROVE QuietInv'
  OBVIOUS
<1>1. CASE around # "quiet"
  <2>1. around' = around
    BY DEF Next, ReadFile, SectorCommand, Int3Handler, Access, Dtack, Save, Core0, PirqHigh, IntOff,
           Get, Clear, Serve, Type, Types, Core1, Test, PirqLow, IntOn, vars
  <2> QED BY <1>1, <2>1 DEF QuietInv, OneThingAtATime, AnswersMatch
<1>2. CASE around = "quiet"
  <2>1. CASE UNCHANGED vars
    BY <2>1 DEF vars, QuietInv, OneThingAtATime, NothingUp, KeyTyped, KeyFetched, FileAsked,
                FileAnswered, Waiting0, Serving, AnswersMatch
  <2>2. CASE SectorCommand
    BY <1>2, <2>2 DEF SectorCommand
  <2> QED
    BY <1>2, <2>1, <2>2, ReadFileIsAsked, KeyIsFetched, DtackEndsTheRead, CoreZeroServes,
       FileIsAnswered, KeyIsTyped, CoreOneRings, SaveChangesNothing DEF Next, Core0
<1> QED BY <1>1, <1>2

-----------------------------------------------------------------------------

LEMMA InitBus == Init => IInv
<1> SUFFICES ASSUME Init PROVE IInv
  OBVIOUS
<1>1. Typed
  BY InitTyped
<1>2. Len(rx) = 0 /\ Len(tx) = 0 /\ Len(ring) = 0
  BY SingletonQueue DEF Init
<1>3. KeysAreInOrder /\ KeysNeverRepeat
  BY <1>2 DEF KeysAreInOrder, KeysNeverRepeat
<1>4. OnePacket /\ AnswersAreRecent
  BY <1>2 DEF Init, OnePacket, AnswersAreRecent
<1>5. AtMostOneBehind
  BY DEF Init, AtMostOneBehind, NONE
<1>6. NothingUp
  BY <1>2 DEF Init, NothingUp, Waiting0
<1>7. AnswersMatch
  BY <1>2 DEF Init, AnswersMatch
<1> QED BY <1>1, <1>3, <1>4, <1>5, <1>6, <1>7 DEF IInv, Typed, OneThingAtATime

(* What the bus keeps: the order of the keys always; one packet and answers *)
(* that are at most one behind when core 0 is prompt; and one thing under   *)
(* way, answered right, in quiet surroundings.                              *)
THEOREM BusInvariant == Spec => []IInv
<1>1. IInv /\ [Next]_vars => IInv'
  BY NextTyped, NextKeepsKeys, NextKeepsPrompt, NextKeepsQuiet
     DEF IInv, Typed, KeysInv, PromptInv, QuietInv
<1> QED BY <1>1, InitBus, PTL DEF Spec

(* No FIFO overflows, for any number of entries, and only keys and answers  *)
(* cross the bus (pio_sm_put in orion_bus.c and ps2_keyboard.c).            *)
THEOREM BusTypes == Spec => []TypeOK
<1>1. IInv => TypeOK
  BY DEF IInv
<1> QED BY <1>1, BusInvariant, PTL

(* Whatever the surroundings, and however many keys are typed and lost, no  *)
(* key is put in the keyboard buffer twice or after a later one.            *)
THEOREM KeysStayInOrder == Spec => []KeysNeverRepeat
<1>1. IInv => KeysNeverRepeat
  BY DEF IInv
<1> QED BY <1>1, BusInvariant, PTL

(* If core 0 is prompt, pio_sm_clear_fifos keeps the shift that a key put   *)
(* between a packet and its answer causes to one access.                    *)
THEOREM ShiftNeverGrows == Spec => []AtMostOneBehind
<1>1. IInv => AtMostOneBehind
  BY DEF IInv
<1> QED BY <1>1, BusInvariant, PTL

(* In quiet surroundings a register is answered for the access that read it *)
(* and the keyboard buffer holds exactly the keys that were typed.          *)
THEOREM AnswersAreRight == Spec => []AnswersMatch
<1>1. IInv => AnswersMatch
  BY DEF IInv
<1> QED BY <1>1, BusInvariant, PTL
=============================================================================
