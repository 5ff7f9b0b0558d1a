----------------------------- MODULE BoundedFifo -----------------------------
(***************************************************************************)
(* What the keyboard buffer promises: bytes come out in the order in which *)
(* they went in, each once, and a byte that finds the queue full is the    *)
(* one that is dropped.  RingBuffer.tla is shown to implement this.        *)
(***************************************************************************)
EXTENDS Integers, Sequences

CONSTANTS Capacity, Bytes, LF, CR, NoByte

VARIABLES
  queue,   \* the bytes accepted and not yet read
  last     \* the byte the reader got last, NoByte at first

Init == queue = <<>> /\ last = NoByte

Accept(q, c) == IF Len(q) < Capacity THEN Append(q, c) ELSE q

Put(c) == queue' = Accept(queue, c) /\ UNCHANGED last

(* An end of line that no key produced. *)
PutLine == queue' = Accept(Accept(queue, LF), CR) /\ UNCHANGED last

Get ==
  /\ queue # <<>>
  /\ last' = Head(queue)
  /\ queue' = Tail(queue)

Next == (\E c \in Bytes : Put(c)) \/ PutLine \/ Get

Spec == Init /\ [][Next]_<<queue, last>>
=============================================================================
