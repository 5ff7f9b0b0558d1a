----------------------------- MODULE RingBuffer -----------------------------
(***************************************************************************)
(* The keyboard buffer of apps/bios/kbd/ringbuffer.c: filled by the        *)
(* keyboard interrupt (Int3Handler) and by do_save2 at the end of a file   *)
(* transfer (Int2Handler), both at mask 0x2700, and read by the shell      *)
(* through ring_buf_get_char with interrupts open, so that a put may come  *)
(* between any two of its statements.  head and tail are uint8_t and wrap  *)
(* by themselves: Size is 256 in the code.                                 *)
(***************************************************************************)
EXTENDS Integers, Sequences

CONSTANTS
  Size,      \* RING_BUFFER_SIZE, and the number of values of head and tail
  Bytes,     \* what the keyboard sends
  LF, CR,    \* 0x0A, 0x0D
  NoByte     \* no character read yet

ASSUME RingAssumption ==
  /\ Size \in Nat /\ Size >= 2
  /\ LF \in Bytes /\ CR \in Bytes /\ NoByte \notin Bytes

VARIABLES
  buffer, head, tail,   \* *rb
  booted,               \* ring_buf_init has run, rb->buffer is set
  fg,                   \* where the foreground is in ring_buf_get_char
  ret,                  \* its local: the byte fetched
  last                  \* what ring_buf_get_char returned last

vars == <<buffer, head, tail, booted, fg, ret, last>>

Indices == 0..(Size - 1)

(* uint8_t arithmetic. *)
Succ(i) == IF i + 1 = Size THEN 0 ELSE i + 1

(* Interrupts are enabled long before main calls ring_buf_init.  What the    *)
(* slots hold before the first put does not matter.                         *)
Init ==
  /\ buffer \in [Indices -> Bytes]
  /\ head = 0
  /\ tail = 0
  /\ booted = FALSE
  /\ fg = "poll"
  /\ ret = NoByte
  /\ last = NoByte

(* Until rb->buffer is set a put writes to low addresses, which are ROM,    *)
(* and moves head: what was typed is gone.                                  *)
ring_buf_init ==
  /\ ~booted
  /\ booted' = TRUE
  /\ head' = 0
  /\ tail' = 0
  /\ UNCHANGED <<buffer, fg, ret, last>>

-----------------------------------------------------------------------------
(* The producers: what ring_buf_put(c) leaves in the buffer and in head.   *)

\* Mutant: no test for a full buffer.
MovedAlways(h) == Succ(h)

\* Mutant: the slot after head is written.
StoredAhead(b, h, c) ==
  IF Succ(h) = tail \/ ~booted THEN b ELSE [b EXCEPT ![Succ(h)] = c]

Stored(b, h, c) == IF Succ(h) = tail \/ ~booted THEN b ELSE [b EXCEPT ![h] = c]

Moved(h) == IF Succ(h) = tail THEN h ELSE Succ(h)

ring_buf_put(c) ==
  /\ buffer' = Stored(buffer, head, c)
  /\ head' = Moved(head)
  /\ UNCHANGED <<tail, booted, fg, ret, last>>

(* A key: the handler reads the code and puts it. *)
Int3Handler == \E c \in Bytes : ring_buf_put(c)

(* do_save2 saved a file: two puts in one masked section. *)
do_save2 ==
  /\ buffer' = Stored(Stored(buffer, head, LF), Moved(head), CR)
  /\ head' = Moved(Moved(head))
  /\ UNCHANGED <<tail, booted, fg, ret, last>>

-----------------------------------------------------------------------------
(* The reader: ring_buf_get_char with ring_buf_get in it.                  *)

ring_buf_is_empty == head = tail

(* while( ring_buf_is_empty() ); *)
Poll ==
  /\ booted
  /\ fg = "poll"
  /\ ~ring_buf_is_empty
  /\ fg' = "fetch"
  /\ UNCHANGED <<buffer, head, tail, booted, ret, last>>

(* ret = rb->buffer[rb->tail]; *)
Fetch ==
  /\ fg = "fetch"
  /\ ret' = buffer[tail]
  /\ fg' = "bump"
  /\ UNCHANGED <<buffer, head, tail, booted, last>>

\* Mutant: tail is not moved.
BumpNot ==
  /\ fg = "bump"
  /\ last' = ret
  /\ fg' = "poll"
  /\ UNCHANGED <<buffer, head, tail, booted, ret>>

(* rb->tail++; return ret; *)
Bump ==
  /\ fg = "bump"
  /\ tail' = Succ(tail)
  /\ last' = ret
  /\ fg' = "poll"
  /\ UNCHANGED <<buffer, head, booted, ret>>

ring_buf_get_char == Poll \/ Fetch \/ Bump

Next ==
  \/ ring_buf_init
  \/ Int3Handler
  \/ do_save2
  \/ ring_buf_get_char

Spec == Init /\ [][Next]_vars

(* The shell reads on, between the interrupts. *)
FairSpec == Spec /\ WF_vars(ring_buf_init) /\ WF_vars(ring_buf_get_char)

-----------------------------------------------------------------------------
(* Properties.                                                             *)

TypeOK ==
  /\ buffer \in [Indices -> Bytes]
  /\ head \in Indices
  /\ tail \in Indices
  /\ booted \in BOOLEAN
  /\ fg \in {"poll", "fetch", "bump"}
  /\ ret \in Bytes \cup {NoByte}
  /\ last \in Bytes \cup {NoByte}

(* The byte a reader is taking is not pulled away under it: from the test   *)
(* for emptiness to the return the slot at tail is occupied, and what was   *)
(* fetched from it is what is still there (ringbuffer.c:28, "nao            *)
(* sobrescreve").                                                           *)
ReaderIsSafe ==
  /\ ~booted => tail = 0 /\ fg = "poll"
  /\ fg \in {"fetch", "bump"} => head # tail
  /\ fg = "bump" => ret = buffer[tail]

(* The bytes between a tail and a head, oldest first. *)
Used(h, t) == IF h >= t THEN h - t ELSE h - t + Size
Slot(t, n) == IF t + n >= Size THEN t + n - Size ELSE t + n
Between(b, h, t) ==
  [n \in 1..Used(h, t) |-> b[Slot(t, n - 1)]]

Content == IF booted THEN Between(buffer, head, tail) ELSE <<>>

Fifo == INSTANCE BoundedFifo WITH Capacity <- Size - 1, queue <- Content

(* The buffer is a FIFO queue of Size - 1 bytes that drops the newest.      *)
ImplementsFifo == Fifo!Spec

(* A byte in the buffer is read: the buffer drains whenever the producers   *)
(* pause, and the oldest byte does not stay for ever even if they do not.   *)
OldestByteIsRead == \A i \in Indices : (booted /\ tail = i /\ head # i) ~> tail # i
=============================================================================
