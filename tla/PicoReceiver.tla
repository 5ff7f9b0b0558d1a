---------------------------- MODULE PicoReceiver ----------------------------
(***************************************************************************)
(* The TCP server on core 1 of the Pico 2 W (pds200_1.c): the callbacks    *)
(* tcp_server_accept and tcp_server_recv, with several senders connected   *)
(* at a time, and the two blocks each connection allocates: es, its state, *)
(* and pfh, the file, which becomes arquivo_buffer when it is complete.    *)
(* A callback is one step: lwIP calls one after the other.  sender.c sends *)
(* the header and as many bytes as it announces.  lwIP cuts that stream    *)
(* into segments as it likes, but the header comes in one piece (the       *)
(* sender writes it with one send); of a chain of pbufs, which lwIP hands  *)
(* over after it has put segments in order, the code reads the first and   *)
(* acknowledges all.  How core 0 reads the published file meanwhile is in  *)
(* PicoTransfer.tla.                                                       *)
(***************************************************************************)
EXTENDS Integers

CONSTANTS
  Conns,                \* the connections, 1..n
  Size,                 \* Size[c]: bytes of the file that connection c sends
  TAMANHO_CABECALHO     \* bytes of the header (16)

ASSUME ReceiverAssumption ==
  /\ Conns \subseteq Nat \ {0}
  /\ Size \in [Conns -> Nat]
  /\ TAMANHO_CABECALHO \in Nat \ {0}

NULL == 0

VARIABLES
  pcb,                  \* the connection: "none", "open", "closed", "refused"
                        \* (lwIP keeps its packet), "undefined" (see Redeliver)
  estado,               \* es->estado
  bytes_recebidos,      \* es->bytes_recebidos
  conteudo,             \* pfh->conteudo: which byte of the content is where
  heap,                 \* the allocated blocks
  arquivo_buffer,       \* the connection whose pfh is published, or NULL
  delivered,            \* bytes of the stream that lwIP has delivered
  chained, dropped      \* connections with a chained pbuf, and those that
                        \* ended in a reset or a timeout of TCP

network == <<delivered, chained, dropped>>
vars == <<pcb, estado, bytes_recebidos, conteudo, heap, arquivo_buffer, delivered, chained, dropped>>

Blocks == {"es", "pfh"} \X Conns

Init ==
  /\ pcb = [c \in Conns |-> "none"]
  /\ estado = [c \in Conns |-> "espera_cabecalho"]
  /\ bytes_recebidos = [c \in Conns |-> 0]
  /\ conteudo = [c \in Conns |-> [i \in {} |-> 0]]
  /\ heap = {}
  /\ arquivo_buffer = NULL
  /\ delivered = [c \in Conns |-> 0]
  /\ chained = {} /\ dropped = {}

-----------------------------------------------------------------------------
(* tcp_server_accept.  When calloc fails, lwIP aborts the connection. *)
Accept(c) ==
  /\ pcb[c] = "none"
  /\ \/ /\ pcb' = [pcb EXCEPT ![c] = "open"]
        /\ heap' = heap \cup {<<"es", c>>}
     \/ /\ pcb' = [pcb EXCEPT ![c] = "closed"]
        /\ UNCHANGED heap
  /\ UNCHANGED <<estado, bytes_recebidos, conteudo, arquivo_buffer, network>>

(* Bytes of the first pbuf that belong to the content. *)
DataIn(c, len) ==
  IF estado[c] = "espera_cabecalho" THEN len - TAMANHO_CABECALHO ELSE len

\* Mutants: the file is complete only with the byte after the last, or
\* already with the one before it.
Complete_late(c, n) == n > Size[c]
Complete_early(c, n) == n + 1 >= Size[c]

Complete(c, n) == n >= Size[c]

\* Mutant: the file before is not freed.
Freed_not == {}

(* What is freed when a file is published: the one before. *)
Freed == IF arquivo_buffer = NULL THEN {} ELSE {<<"pfh", arquivo_buffer>>}

(* tcp_server_recv with a packet of tot_len bytes, len of them in the first *)
(* pbuf.  After the end of the file nothing more is copied (and sender.c    *)
(* sends nothing more).                                                     *)
Recv(c, len, tot_len) ==
  LET n == bytes_recebidos[c] + DataIn(c, len) IN
  /\ pcb[c] = "open"
  /\ delivered[c] + tot_len <= TAMANHO_CABECALHO + Size[c]
  /\ delivered[c] = 0 => len >= TAMANHO_CABECALHO
  /\ estado[c] # "concluido"
  /\ delivered' = [delivered EXCEPT ![c] = @ + tot_len]
  /\ chained' = IF len < tot_len THEN chained \cup {c} ELSE chained
  /\ bytes_recebidos' = [bytes_recebidos EXCEPT ![c] = n]
  /\ conteudo' = [conteudo EXCEPT ![c] = [i \in 1..n |->
                    IF i <= bytes_recebidos[c] THEN conteudo[c][i]
                    ELSE delivered[c] + len - TAMANHO_CABECALHO - n + i]]
  /\ IF Complete(c, n)
     THEN /\ estado' = [estado EXCEPT ![c] = "concluido"]
          /\ heap' = (heap \ Freed) \cup {<<"pfh", c>>}
          /\ arquivo_buffer' = c
     ELSE /\ estado' = [estado EXCEPT ![c] = "espera_dados"]
          /\ heap' = heap \cup {<<"pfh", c>>}
          /\ UNCHANGED arquivo_buffer
  /\ UNCHANGED <<pcb, dropped>>

(* The same, with the header, when malloc(pfh) fails.  tcp_close only sends *)
(* a FIN (the packet has been acknowledged, so lwIP does not reset), es is  *)
(* freed, but tcp_arg still names it, and ERR_MEM makes lwIP keep the       *)
(* packet.                                                                  *)
NoMemory(c) ==
  /\ pcb[c] = "open"
  /\ estado[c] = "espera_cabecalho"
  /\ pcb' = [pcb EXCEPT ![c] = "refused"]
  /\ heap' = heap \ {<<"es", c>>}
  /\ UNCHANGED <<estado, bytes_recebidos, conteudo, arquivo_buffer, network>>

(* lwIP delivers the kept packet again and tcp_server_recv works with the   *)
(* freed es: what it reads there, where it copies to and what it frees is   *)
(* undefined.  Anything may follow, so the model follows it no further.     *)
Redeliver(c) ==
  /\ pcb[c] = "refused"
  /\ pcb' = [pcb EXCEPT ![c] = "undefined"]
  /\ UNCHANGED <<estado, bytes_recebidos, conteudo, heap, arquivo_buffer, network>>

Defined == \A c \in Conns : pcb[c] # "undefined"

\* Mutant: the file is freed with its connection.
PartOf_all(c) == {<<"es", c>>, <<"pfh", c>>}

(* What goes with a connection: its state, and a file that is not complete. *)
PartOf(c) == {<<"es", c>>} \cup (IF estado[c] = "concluido" THEN {} ELSE {<<"pfh", c>>})

(* tcp_server_recv with p = NULL: the sender has closed the connection. *)
Disconnect(c) ==
  /\ pcb[c] = "open"
  /\ heap' = heap \ PartOf(c)
  /\ pcb' = [pcb EXCEPT ![c] = "closed"]
  /\ UNCHANGED <<estado, bytes_recebidos, conteudo, arquivo_buffer, network>>

(* lwIP drops the connection.  No callback was given to tcp_err: nothing    *)
(* of the program runs.                                                     *)
Reset(c) ==
  /\ pcb[c] = "open"
  /\ pcb' = [pcb EXCEPT ![c] = "closed"]
  /\ dropped' = dropped \cup {c}
  /\ UNCHANGED <<estado, bytes_recebidos, conteudo, heap, arquivo_buffer, delivered, chained>>

Segment(c) ==
  /\ Defined
  /\ \E tot_len \in 1..(TAMANHO_CABECALHO + Size[c]) :
       \E len \in 1..tot_len : Recv(c, len, tot_len)

Next ==
  /\ Defined
  /\ \E c \in Conns : \/ Accept(c) \/ Segment(c) \/ NoMemory(c) \/ Redeliver(c)
                     \/ Disconnect(c) \/ Reset(c)

Spec == Init /\ [][Next]_vars

(* TCP delivers what was sent while the connection stands. *)
FairSpec == Spec /\ \A c \in Conns : WF_vars(Segment(c))

-----------------------------------------------------------------------------
(* Properties.                                                             *)

Pcbs == {"none", "open", "closed", "refused", "undefined"}
Estados == {"espera_cabecalho", "espera_dados", "concluido"}

TypeOK ==
  /\ pcb \in [Conns -> Pcbs]
  /\ estado \in [Conns -> Estados]
  /\ bytes_recebidos \in [Conns -> Nat]
  /\ heap \subseteq Blocks
  /\ arquivo_buffer \in Conns \cup {NULL}
  /\ delivered \in [Conns -> Nat]
  /\ chained \subseteq Conns /\ dropped \subseteq Conns
  /\ DOMAIN conteudo = Conns
  /\ \A c \in Conns : conteudo[c] \in [1..bytes_recebidos[c] -> 1..Size[c]]

(* However the streams are cut, mixed with one another and broken off, the  *)
(* file that is published is the one its connection sent, every byte in its *)
(* place: one whose packets came chained lacks bytes, so its end is never   *)
(* reached (pds200_1.c:170).                                                *)
PublishedAsSent ==
  arquivo_buffer # NULL =>
    conteudo[arquivo_buffer] = [i \in 1..Size[arquivo_buffer] |-> i]

(* pds200_1.c:97-101, 208-212: until a malloc fails, a block is there as    *)
(* long as someone holds it: es for the next callback, pfh while it is      *)
(* filled and while it is published, whoever disconnects and whichever file *)
(* replaces which.  A connection whose malloc failed is not spared: its es  *)
(* is gone while lwIP still delivers to it (NoMemory, Redeliver).           *)
HeldBlocksStay ==
  /\ \A c \in Conns : pcb[c] = "open" =>
       /\ <<"es", c>> \in heap
       /\ estado[c] = "espera_dados" => <<"pfh", c>> \in heap
  /\ arquivo_buffer # NULL => <<"pfh", arquivo_buffer>> \in heap

(* pds200_1.c:163-169, "vazamento de memoria": whatever is allocated is held*)
(* by an open connection or is the published file.  Only a connection that  *)
(* TCP drops leaves its blocks behind.                                      *)
OnlyDroppedConnectionsLeak ==
  \A b \in heap :
    \/ b[2] \in dropped
    \/ b[1] = "pfh" /\ arquivo_buffer = b[2]
    \/ pcb[b[2]] = "open" /\ (b[1] = "pfh" => estado[b[2]] = "espera_dados")

(* A file whose packets come in order is published, if the connection       *)
(* stands and no refused packet has come again; then the sender gets its    *)
(* confirmation (sender.c:158).                                             *)
FilesArePublished ==
  \A c \in Conns :
    pcb[c] = "open" ~> \/ estado[c] = "concluido" \/ c \in chained
                       \/ pcb[c] \in {"closed", "refused"} \/ ~Defined
=============================================================================
