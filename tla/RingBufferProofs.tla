-------------------------- MODULE RingBufferProofs --------------------------
(***************************************************************************)
(* The keyboard buffer is a bounded FIFO queue, for every size and every   *)
(* alphabet: the arithmetic of the wrapping indices is done once, in       *)
(* PutAccepts and GetTakesTheHead.                                         *)
(***************************************************************************)
EXTENDS RingBuffer, SequenceTheorems, TLAPS

USE RingAssumption

IInv == TypeOK /\ ReaderIsSafe

(* The slots between tail and head are a sequence of bytes. *)
LEMMA BetweenIsASeq ==
  ASSUME NEW b \in [Indices -> Bytes], NEW h \in Indices, NEW t \in Indices
  PROVE  /\ Used(h, t) \in 0..(Size - 1)
         /\ \A n \in 0..(Size - 1) : Slot(t, n) \in Indices
         /\ Between(b, h, t) \in Seq(Bytes)
         /\ Len(Between(b, h, t)) = Used(h, t)
         /\ \A n \in 1..Used(h, t) : Between(b, h, t)[n] = b[Slot(t, n - 1)]
<1>1. Used(h, t) \in 0..(Size - 1)
  BY DEF Used, Indices
<1>2. \A n \in 0..(Size - 1) : Slot(t, n) \in Indices
  BY DEF Slot, Indices
<1>3. \A n \in 1..Used(h, t) : b[Slot(t, n - 1)] \in Bytes
  BY <1>1, <1>2
<1>4. Between(b, h, t) \in [1..Used(h, t) -> Bytes]
  BY <1>3 DEF Between
<1>5. Between(b, h, t) \in Seq(Bytes) /\ Len(Between(b, h, t)) = Used(h, t)
  BY <1>1, <1>4
<1>6. QED BY <1>1, <1>2, <1>5 DEF Between

(* A put appends unless the queue is full; it never touches a used slot. *)
LEMMA PutAccepts ==
  ASSUME NEW b \in [Indices -> Bytes], NEW h \in Indices, NEW c \in Bytes,
         tail \in Indices, booted
  PROVE  /\ Stored(b, h, c) \in [Indices -> Bytes]
         /\ Moved(h) \in Indices
         /\ Between(Stored(b, h, c), Moved(h), tail) = Fifo!Accept(Between(b, h, tail), c)
<1> DEFINE q  == Between(b, h, tail)
           b2 == Stored(b, h, c)
           h2 == Moved(h)
           q2 == Between(b2, h2, tail)
<1>1. b2 \in [Indices -> Bytes] /\ h2 \in Indices /\ Succ(h) \in Indices
  BY DEF Stored, Moved, Succ, Indices
<1>2. /\ q \in Seq(Bytes) /\ Len(q) = Used(h, tail) /\ Used(h, tail) \in 0..(Size - 1)
      /\ \A n \in 1..Used(h, tail) : q[n] = b[Slot(tail, n - 1)]
  BY BetweenIsASeq
<1>3. /\ q2 \in Seq(Bytes) /\ Len(q2) = Used(h2, tail)
      /\ \A n \in 1..Used(h2, tail) : q2[n] = b2[Slot(tail, n - 1)]
  BY <1>1, BetweenIsASeq
<1>4. CASE Succ(h) = tail
  <2>1. b2 = b /\ h2 = h
    BY <1>4 DEF Stored, Moved
  <2>2. Used(h, tail) = Size - 1
    BY <1>4 DEF Used, Succ, Indices
  <2>3. Fifo!Accept(q, c) = q
    BY <1>2, <2>2 DEF Fifo!Accept
  <2>4. QED BY <1>1, <2>1, <2>3
<1>5. CASE Succ(h) # tail
  <2>1. b2 = [b EXCEPT ![h] = c] /\ h2 = Succ(h)
    BY <1>5 DEF Stored, Moved
  <2>2. Used(h2, tail) = Used(h, tail) + 1 /\ Used(h, tail) < Size - 1
    BY <1>5, <2>1 DEF Used, Succ, Indices
  <2>3. /\ Slot(tail, Used(h, tail)) = h
        /\ \A n \in 1..Used(h, tail) : Slot(tail, n - 1) # h /\ Slot(tail, n - 1) \in Indices
    BY <1>5 DEF Used, Slot, Indices
  <2>4. Fifo!Accept(q, c) = Append(q, c)
    BY <1>2, <2>2 DEF Fifo!Accept
  <2>5. /\ Append(q, c) \in Seq(Bytes) /\ Len(Append(q, c)) = Used(h, tail) + 1
        /\ \A n \in 1..Used(h, tail) : Append(q, c)[n] = b[Slot(tail, n - 1)]
        /\ Append(q, c)[Used(h, tail) + 1] = c
    BY <1>2, AppendProperties
  <2>6. \A n \in 1..Used(h, tail) : b2[Slot(tail, n - 1)] = b[Slot(tail, n - 1)]
    BY <2>1, <2>3
  <2>7. b2[Slot(tail, Used(h, tail))] = c
    BY <2>1, <2>3
  <2>8. \A n \in 1..Len(q2) : q2[n] = Append(q, c)[n]
    <3> SUFFICES ASSUME NEW n \in 1..(Used(h, tail) + 1)
                 PROVE  q2[n] = Append(q, c)[n]
      BY <1>2, <1>3, <2>2
    <3>1. q2[n] = b2[Slot(tail, n - 1)]
      BY <1>3, <2>2
    <3>2. CASE n = Used(h, tail) + 1
      <4>1. n - 1 = Used(h, tail)
        BY <1>2, <3>2
      <4>2. QED BY <2>5, <2>7, <3>1, <3>2, <4>1
    <3>3. CASE n \in 1..Used(h, tail)
      BY <2>5, <2>6, <3>1, <3>3
    <3>4. QED BY <1>2, <3>2, <3>3
  <2>9. q2 = Append(q, c)
    BY <1>2, <1>3, <2>2, <2>5, <2>8, SeqEqual
  <2>10. QED BY <1>1, <2>4, <2>9
<1>6. QED BY <1>4, <1>5

(* Moving tail on takes the first byte of the queue, and only it. *)
LEMMA GetTakesTheHead ==
  ASSUME NEW b \in [Indices -> Bytes], NEW h \in Indices, NEW t \in Indices, h # t
  PROVE  /\ Between(b, h, t) # <<>>
         /\ Head(Between(b, h, t)) = b[t]
         /\ Between(b, h, Succ(t)) = Tail(Between(b, h, t))
<1> DEFINE q  == Between(b, h, t)
           q2 == Between(b, h, Succ(t))
<1>1. Succ(t) \in Indices
  BY DEF Succ, Indices
<1>2. /\ q \in Seq(Bytes) /\ Len(q) = Used(h, t) /\ Used(h, t) \in 1..(Size - 1)
      /\ \A n \in 1..Used(h, t) : q[n] = b[Slot(t, n - 1)]
  <2>1. Used(h, t) \in 1..(Size - 1)
    BY DEF Used, Indices
  <2>2. QED BY <2>1, BetweenIsASeq
<1>3. /\ q2 \in Seq(Bytes) /\ Len(q2) = Used(h, Succ(t))
      /\ \A n \in 1..Used(h, Succ(t)) : q2[n] = b[Slot(Succ(t), n - 1)]
  BY <1>1, BetweenIsASeq
<1>4. Used(h, Succ(t)) = Used(h, t) - 1
  BY DEF Used, Succ, Indices
<1>5. \A n \in 1..(Used(h, t) - 1) : Slot(Succ(t), n - 1) = Slot(t, n)
  BY <1>2 DEF Used, Slot, Succ, Indices
<1>6. q # <<>> /\ Head(q) = q[1]
  BY <1>2
<1>7. Slot(t, 0) = t
  BY DEF Slot, Indices
<1>8. Head(q) = b[t]
  BY <1>2, <1>6, <1>7
<1>9. /\ Tail(q) \in Seq(Bytes) /\ Len(Tail(q)) = Used(h, t) - 1
      /\ \A n \in 1..(Used(h, t) - 1) : Tail(q)[n] = q[n + 1]
  BY <1>2, <1>6, HeadTailProperties
<1>10. \A n \in 1..Len(q2) : q2[n] = Tail(q)[n]
  <2> SUFFICES ASSUME NEW n \in 1..(Used(h, t) - 1) PROVE q2[n] = Tail(q)[n]
    BY <1>3, <1>4
  <2>1. q2[n] = b[Slot(t, n)]
    BY <1>3, <1>4, <1>5
  <2>2. n + 1 \in 1..Used(h, t) /\ (n + 1) - 1 = n
    BY <1>2
  <2>3. q[n + 1] = b[Slot(t, n)]
    BY <1>2, <2>2
  <2>4. QED BY <1>9, <2>1, <2>3
<1>11. q2 = Tail(q)
  BY <1>3, <1>4, <1>9, <1>10, SeqEqual
<1>12. QED BY <1>6, <1>8, <1>11

-----------------------------------------------------------------------------
LEMMA PutKeepsTheReader ==
  ASSUME IInv, NEW b \in [Indices -> Bytes], NEW h \in Indices, NEW c \in Bytes
  PROVE  /\ Stored(b, h, c) \in [Indices -> Bytes]
         /\ Moved(h) \in Indices
         /\ h # tail => Moved(h) # tail /\ Stored(b, h, c)[tail] = b[tail]
BY DEF Stored, Moved, Succ, Indices, IInv, TypeOK

LEMMA Inductive == IInv /\ [Next]_vars => IInv'
<1> SUFFICES ASSUME IInv, [Next]_vars PROVE IInv'
  OBVIOUS
<1> USE DEF IInv
<1>1. CASE ring_buf_init
  BY <1>1 DEF ring_buf_init, TypeOK, ReaderIsSafe, Indices
<1>2. CASE Int3Handler
  <2>1. PICK c \in Bytes : ring_buf_put(c)
    BY <1>2 DEF Int3Handler
  <2>2. TypeOK'
    BY <2>1, PutKeepsTheReader DEF ring_buf_put, TypeOK
  <2>3. ReaderIsSafe'
    BY <2>1, PutKeepsTheReader DEF ring_buf_put, ReaderIsSafe, TypeOK
  <2>4. QED BY <2>2, <2>3
<1>3. CASE do_save2
  <2> DEFINE b1 == Stored(buffer, head, LF)
             h1 == Moved(head)
  <2>1. /\ b1 \in [Indices -> Bytes] /\ h1 \in Indices
        /\ head # tail => h1 # tail /\ b1[tail] = buffer[tail]
    BY PutKeepsTheReader DEF TypeOK
  <2>2. /\ buffer' = Stored(b1, h1, CR) /\ head' = Moved(h1)
        /\ UNCHANGED <<tail, booted, fg, ret, last>>
    BY <1>3 DEF do_save2
  <2> HIDE DEF b1, h1
  <2>3. /\ buffer' \in [Indices -> Bytes] /\ head' \in Indices
        /\ h1 # tail => head' # tail /\ buffer'[tail] = b1[tail]
    BY <2>1, <2>2, PutKeepsTheReader
  <2>4. TypeOK' /\ ReaderIsSafe'
    BY <2>1, <2>2, <2>3 DEF TypeOK, ReaderIsSafe
  <2>5. QED BY <2>4
<1>4. CASE Poll
  BY <1>4 DEF Poll, ring_buf_is_empty, TypeOK, ReaderIsSafe
<1>5. CASE Fetch
  BY <1>5 DEF Fetch, TypeOK, ReaderIsSafe
<1>6. CASE Bump
  <2>1. booted' = booted /\ booted /\ fg' = "poll"
    BY <1>6 DEF Bump, ReaderIsSafe
  <2>2. tail' \in Indices
    BY <1>6 DEF Bump, TypeOK, Succ, Indices
  <2>3. TypeOK'
    BY <1>6, <2>2 DEF Bump, TypeOK
  <2>4. ReaderIsSafe'
    BY <2>1 DEF ReaderIsSafe
  <2>5. QED BY <2>3, <2>4
<1>7. CASE UNCHANGED vars
  BY <1>7 DEF vars, TypeOK, ReaderIsSafe
<1>8. QED BY <1>1, <1>2, <1>3, <1>4, <1>5, <1>6, <1>7 DEF Next, ring_buf_get_char

(* The invariant holds with an interrupt between any two steps of the       *)
(* reader (ringbuffer.c).                                                   *)
THEOREM RingInvariant == Spec => []IInv
<1>1. Init => IInv
  <2>1. 0 \in Indices
    BY DEF Indices
  <2>2. Init => TypeOK
    BY <2>1 DEF Init, TypeOK
  <2>3. Init => ReaderIsSafe
    BY DEF Init, ReaderIsSafe
  <2>4. QED BY <2>2, <2>3 DEF IInv
<1>2. QED BY <1>1, Inductive, PTL DEF Spec

(* No put, in whatever order the interrupts come, overwrites or takes away  *)
(* the byte that ring_buf_get is reading.                                   *)
THEOREM ReaderStaysSafe == Spec => []ReaderIsSafe
<1>1. IInv => ReaderIsSafe
  BY DEF IInv
<1>2. QED BY <1>1, RingInvariant, PTL

(* The indices of ringbuffer.c never leave the buffer, for any size. *)
THEOREM RingTypes == Spec => []TypeOK
<1>1. IInv => TypeOK
  BY DEF IInv
<1>2. QED BY <1>1, RingInvariant, PTL

(* Every step of the buffer is a step of the bounded FIFO, or leaves the    *)
(* queue and what was read as they are.                                     *)
LEMMA StepSimulates == IInv /\ [Next]_vars => [Fifo!Next]_<<Content, last>>
<1> SUFFICES ASSUME IInv, [Next]_vars PROVE [Fifo!Next]_<<Content, last>>
  OBVIOUS
<1> USE DEF IInv
<1>1. CASE ring_buf_init
  <2>1. Content = <<>> /\ booted' /\ head' = 0 /\ tail' = 0 /\ last' = last
    BY <1>1 DEF ring_buf_init, Content
  <2>2. Content' = <<>>
    BY <2>1 DEF Content, Between, Used
  <2>3. QED BY <2>1, <2>2
<1>2. CASE Int3Handler
  <2>1. PICK c \in Bytes : ring_buf_put(c)
    BY <1>2 DEF Int3Handler
  <2>2. CASE ~booted
    BY <2>1, <2>2 DEF ring_buf_put, Content
  <2>3. CASE booted
    <3>1. Content' = Fifo!Accept(Content, c)
      BY <2>1, <2>3, PutAccepts DEF ring_buf_put, Content, TypeOK
    <3>2. Fifo!Put(c)
      BY <2>1, <3>1 DEF ring_buf_put, Fifo!Put
    <3>3. QED BY <3>2 DEF Fifo!Next
  <2>4. QED BY <2>2, <2>3
<1>3. CASE do_save2
  <2> DEFINE b1 == Stored(buffer, head, LF)
             h1 == Moved(head)
  <2>1. /\ buffer' = Stored(b1, h1, CR) /\ head' = Moved(h1)
        /\ UNCHANGED <<tail, booted, last>>
    BY <1>3 DEF do_save2
  <2>2. CASE ~booted
    BY <2>1, <2>2 DEF Content
  <2>3. CASE booted
    <3>1. /\ b1 \in [Indices -> Bytes] /\ h1 \in Indices
          /\ Between(b1, h1, tail) = Fifo!Accept(Content, LF)
      BY <2>3, PutAccepts DEF Content, TypeOK
    <3> HIDE DEF b1, h1
    <3>2. Between(Stored(b1, h1, CR), Moved(h1), tail) = Fifo!Accept(Between(b1, h1, tail), CR)
      BY <2>3, <3>1, PutAccepts DEF TypeOK
    <3>3. Content' = Fifo!Accept(Fifo!Accept(Content, LF), CR)
      BY <2>1, <2>3, <3>1, <3>2 DEF Content
    <3>4. Fifo!PutLine
      BY <2>1, <3>3 DEF Fifo!PutLine
    <3>5. QED BY <3>4 DEF Fifo!Next
  <2>4. QED BY <2>2, <2>3
<1>4. CASE Poll \/ Fetch
  BY <1>4 DEF Poll, Fetch, Content
<1>5. CASE Bump
  <2>1. /\ booted /\ head # tail /\ ret = buffer[tail]
        /\ tail' = Succ(tail) /\ last' = ret
        /\ UNCHANGED <<buffer, head, booted>>
    BY <1>5 DEF Bump, ReaderIsSafe, TypeOK
  <2>2. /\ Content # <<>> /\ Head(Content) = buffer[tail]
        /\ Content' = Tail(Content)
    BY <2>1, GetTakesTheHead DEF Content, TypeOK
  <2>3. Fifo!Get
    BY <2>1, <2>2 DEF Fifo!Get
  <2>4. QED BY <2>3 DEF Fifo!Next
<1>6. CASE UNCHANGED vars
  BY <1>6 DEF vars, Content
<1>7. QED BY <1>1, <1>2, <1>3, <1>4, <1>5, <1>6 DEF Next, ring_buf_get_char

(* ringbuffer.c is a FIFO queue of Size - 1 bytes: what the shell reads is   *)
(* what the interrupts stored, in that order, each byte once, and a byte is *)
(* lost only when the queue is full.                                        *)
THEOREM RingBufferIsAFifo == Spec => ImplementsFifo
<1>1. Init => Fifo!Init
  BY DEF Init, Fifo!Init, Content
<1>2. QED BY <1>1, RingInvariant, StepSimulates, PTL DEF Spec, ImplementsFifo, Fifo!Spec
=============================================================================
