------------------------- MODULE PicoReceiverProofs -------------------------
(***************************************************************************)
(* Proofs about PicoReceiver, for every number of senders, every file size *)
(* and every header length.  The invariant counts: what a connection has   *)
(* stored never exceeds what lwIP has delivered, and when the two agree    *)
(* every byte is in its place.  A complete file has stored all there was   *)
(* to deliver, so they agree.                                              *)
(***************************************************************************)
EXTENDS PicoReceiver, TLAPS

HEAD == TAMANHO_CABECALHO

(* A connection that is not accepted or has no header yet stored nothing;   *)
(* later it stored at most what came after the header.                      *)
Counts ==
  \A c \in Conns :
    /\ delivered[c] <= HEAD + Size[c]
    /\ pcb[c] = "none" => estado[c] = "espera_cabecalho"
    /\ estado[c] = "espera_cabecalho" => delivered[c] = 0 /\ bytes_recebidos[c] = 0
    /\ estado[c] # "espera_cabecalho" => HEAD + bytes_recebidos[c] <= delivered[c]
    /\ estado[c] = "concluido" => bytes_recebidos[c] >= Size[c]

(* As long as nothing delivered was left out, every byte is in its place. *)
InPlace ==
  \A c \in Conns :
    estado[c] # "espera_cabecalho" /\ delivered[c] = HEAD + bytes_recebidos[c]
      => \A i \in 1..bytes_recebidos[c] : conteudo[c][i] = i

PublishedIsComplete == arquivo_buffer # NULL => estado[arquivo_buffer] = "concluido"

IInv == TypeOK /\ Counts /\ InPlace /\ PublishedIsComplete /\ HeldBlocksStay
        /\ OnlyDroppedConnectionsLeak

-----------------------------------------------------------------------------

(* A block belongs to a connection.                                         *)
LEMMA BlockParts ==
  ASSUME NEW b \in Blocks
  PROVE  \E k \in {"es", "pfh"} : \E d \in Conns : b = <<k, d>>
BY DEF Blocks

(* The invariant holds before the first connection (the globals of          *)
(* pds200_1.c).                                                             *)
LEMMA InitInv == Init => IInv
<1> SUFFICES ASSUME Init PROVE IInv
  OBVIOUS
<1> USE ReceiverAssumption DEF Init
<1>1. TypeOK
  <2>1. \A c \in Conns : conteudo[c] \in [1..bytes_recebidos[c] -> 1..Size[c]]
    <3> SUFFICES ASSUME NEW c \in Conns
                 PROVE  conteudo[c] \in [1..bytes_recebidos[c] -> 1..Size[c]]
      OBVIOUS
    <3>1. conteudo[c] = [i \in {} |-> 0] /\ bytes_recebidos[c] = 0 /\ 1..0 = {}
      OBVIOUS
    <3> QED BY <3>1
  <2> QED BY <2>1 DEF TypeOK, Estados, Pcbs
<1>2. Counts /\ InPlace
  BY DEF Counts, InPlace, HEAD
<1>3. PublishedIsComplete /\ HeldBlocksStay /\ OnlyDroppedConnectionsLeak
  BY DEF PublishedIsComplete, HeldBlocksStay, OnlyDroppedConnectionsLeak, NULL
<1> QED BY <1>1, <1>2, <1>3 DEF IInv

(* What one packet does to the counters of its connection.                  *)
LEMMA RecvCounts ==
  ASSUME IInv, NEW c \in Conns, NEW tot_len \in Nat \ {0}, NEW len \in 1..tot_len,
         Recv(c, len, tot_len),
         NEW n, n = bytes_recebidos[c] + DataIn(c, len)
  PROVE  /\ n \in Nat
         /\ n >= bytes_recebidos[c]
         /\ HEAD + n <= delivered[c] + tot_len
         /\ n <= Size[c]
         /\ \A i \in 1..n : i > bytes_recebidos[c] =>
              /\ delivered[c] + len - HEAD - n + i \in 1..Size[c]
              /\ HEAD + n = delivered[c] + tot_len => delivered[c] + len - HEAD - n + i = i
<1> USE ReceiverAssumption
<1>1. /\ bytes_recebidos[c] \in Nat /\ delivered[c] \in Nat /\ Size[c] \in Nat
      /\ HEAD \in Nat \ {0} /\ len \in Nat /\ len <= tot_len
      /\ estado[c] \in Estados
  BY DEF IInv, TypeOK, HEAD
<1>2. delivered[c] + tot_len <= HEAD + Size[c]
  BY DEF Recv, HEAD
<1>3. CASE estado[c] = "espera_cabecalho"
  <2>1. delivered[c] = 0 /\ bytes_recebidos[c] = 0 /\ len >= HEAD /\ n = len - HEAD
    BY <1>1, <1>3 DEF IInv, Counts, Recv, DataIn, HEAD
  <2> QED BY <2>1, <1>1, <1>2
<1>4. CASE estado[c] # "espera_cabecalho"
  <2>1. HEAD + bytes_recebidos[c] <= delivered[c] /\ n = bytes_recebidos[c] + len
    BY <1>1, <1>4 DEF IInv, Counts, DataIn
  <2> QED BY <2>1, <1>1, <1>2
<1> QED BY <1>3, <1>4

(* tcp_server_recv with a packet keeps the invariant.                       *)
LEMMA RecvInv ==
  ASSUME IInv, NEW c \in Conns, NEW tot_len \in Nat \ {0}, NEW len \in 1..tot_len,
         Recv(c, len, tot_len)
  PROVE  IInv'
<1> USE ReceiverAssumption
<1> DEFINE n == bytes_recebidos[c] + DataIn(c, len)
           byte(i) == IF i <= bytes_recebidos[c] THEN conteudo[c][i]
                      ELSE delivered[c] + len - HEAD - n + i
<1>1. /\ n \in Nat
      /\ n >= bytes_recebidos[c]
      /\ HEAD + n <= delivered[c] + tot_len
      /\ n <= Size[c]
      /\ \A i \in 1..n : i > bytes_recebidos[c] =>
           /\ delivered[c] + len - HEAD - n + i \in 1..Size[c]
           /\ HEAD + n = delivered[c] + tot_len => delivered[c] + len - HEAD - n + i = i
  BY RecvCounts
<1>2. /\ bytes_recebidos' = [bytes_recebidos EXCEPT ![c] = n]
      /\ delivered' = [delivered EXCEPT ![c] = @ + tot_len]
      /\ conteudo' = [conteudo EXCEPT ![c] = [i \in 1..n |-> byte(i)]]
      /\ chained' = (IF len < tot_len THEN chained \cup {c} ELSE chained)
      /\ UNCHANGED <<pcb, dropped>>
      /\ pcb[c] = "open" /\ estado[c] # "concluido"
      /\ delivered[c] + tot_len <= HEAD + Size[c]
  BY DEF Recv, HEAD
<1>3. \/ /\ n >= Size[c]
         /\ estado' = [estado EXCEPT ![c] = "concluido"]
         /\ heap' = (heap \ Freed) \cup {<<"pfh", c>>}
         /\ arquivo_buffer' = c
      \/ /\ ~ (n >= Size[c])
         /\ estado' = [estado EXCEPT ![c] = "espera_dados"]
         /\ heap' = heap \cup {<<"pfh", c>>}
         /\ arquivo_buffer' = arquivo_buffer
  BY DEF Recv, Complete
<1>4. /\ bytes_recebidos \in [Conns -> Nat] /\ delivered \in [Conns -> Nat]
      /\ estado \in [Conns -> Estados] /\ HEAD \in Nat \ {0} /\ heap \subseteq Blocks
      /\ arquivo_buffer \in Conns \cup {NULL} /\ NULL \notin Conns
      /\ pcb \in [Conns -> Pcbs]
      /\ chained \subseteq Conns /\ dropped \subseteq Conns
      /\ \A d \in Conns : conteudo[d] \in [1..bytes_recebidos[d] -> 1..Size[d]]
      /\ Size \in [Conns -> Nat]
  BY DEF IInv, TypeOK, HEAD, NULL
<1> HIDE DEF n
<1>5. \A d \in Conns : d # c => conteudo'[d] = conteudo[d]
  BY <1>2
<1>6. ASSUME c \in DOMAIN conteudo
      PROVE  conteudo'[c] = [i \in 1..n |-> byte(i)]
  BY <1>2, <1>6
<1>7. c \in DOMAIN conteudo
  BY DEF IInv, TypeOK
<1>8. TypeOK'
  <2>1. [i \in 1..n |-> byte(i)] \in [1..n -> 1..Size[c]]
    <3>1. ASSUME NEW i \in 1..n PROVE byte(i) \in 1..Size[c]
      <4>1. n \in Nat /\ i \in Nat /\ i >= 1 /\ bytes_recebidos[c] \in Nat
        BY <1>1, <1>4
      <4>2. CASE i <= bytes_recebidos[c]
        <5>1. i \in 1..bytes_recebidos[c]
          BY <4>1, <4>2
        <5>2. conteudo[c] \in [1..bytes_recebidos[c] -> 1..Size[c]]
          BY <1>4
        <5>3. conteudo[c][i] \in 1..Size[c]
          BY <5>1, <5>2
        <5> QED BY <4>2, <5>3
      <4>3. CASE i > bytes_recebidos[c]
        <5>1. delivered[c] + len - HEAD - n + i \in 1..Size[c]
          BY <1>1, <4>3
        <5>2. ~(i <= bytes_recebidos[c])
          BY <4>1, <4>3
        <5> QED BY <5>1, <5>2
      <4> QED BY <4>1, <4>2, <4>3
    <3> QED BY <3>1
  <2>2. \A d \in Conns : conteudo'[d] \in [1..bytes_recebidos'[d] -> 1..Size[d]]
    BY <1>2, <1>4, <1>5, <1>6, <1>7, <2>1
  <2>3. heap' \subseteq Blocks
    BY <1>3, <1>4 DEF Blocks
  <2>4. estado' \in [Conns -> Estados] /\ arquivo_buffer' \in Conns \cup {NULL}
    BY <1>3, <1>4 DEF Estados
  <2>5. bytes_recebidos' \in [Conns -> Nat] /\ delivered' \in [Conns -> Nat]
    BY <1>1, <1>2, <1>4
  <2>6. DOMAIN conteudo' = Conns
    BY <1>2 DEF IInv, TypeOK
  <2> QED BY <1>2, <1>4, <2>2, <2>3, <2>4, <2>5, <2>6 DEF TypeOK
<1>9. Counts'
  BY <1>1, <1>2, <1>3, <1>4 DEF IInv, Counts
<1>10. InPlace'
  <2> SUFFICES ASSUME NEW d \in Conns, estado'[d] # "espera_cabecalho",
                      delivered'[d] = HEAD + bytes_recebidos'[d],
                      NEW i \in 1..bytes_recebidos'[d]
               PROVE  conteudo'[d][i] = i
    BY DEF InPlace, HEAD
  <2>1. CASE d # c
    BY <2>1, <1>2, <1>3, <1>4, <1>5 DEF IInv, InPlace
  <2>2. CASE d = c
    <3>1. delivered[c] + tot_len = HEAD + n /\ i \in 1..n
      BY <2>2, <1>2, <1>4
    <3>2. conteudo'[c][i] = byte(i)
      BY <3>1, <1>6, <1>7
    <3>3. CASE i > bytes_recebidos[c]
      BY <2>2, <3>1, <3>2, <3>3, <1>1, <1>4
    <3>4. CASE i <= bytes_recebidos[c]
      <4>1. estado[c] # "espera_cabecalho"
        BY <3>1, <3>4, <1>4 DEF IInv, Counts
      <4>2. n = bytes_recebidos[c] + len
        BY <4>1 DEF n, DataIn
      <4> HEAD + bytes_recebidos[c] <= delivered[c]
        BY <4>1 DEF IInv, Counts
      <4> /\ bytes_recebidos[c] \in Nat /\ delivered[c] \in Nat /\ HEAD \in Nat
          /\ len \in Nat /\ len <= tot_len
        BY <1>4
      <4>3. delivered[c] = HEAD + bytes_recebidos[c]
        BY <3>1, <4>2
      <4>4. conteudo[c][i] = i
        BY <4>1, <4>3, <3>4, <3>1, <1>4 DEF IInv, InPlace
      <4> QED BY <4>4, <2>2, <3>2, <3>4
    <3> QED BY <3>1, <3>3, <3>4, <1>4
  <2> QED BY <2>1, <2>2
<1>11. PublishedIsComplete'
  <2>1. CASE arquivo_buffer' = c
    BY <2>1, <1>1, <1>2, <1>3, <1>4 DEF IInv, PublishedIsComplete
  <2>2. CASE arquivo_buffer' # c
    BY <2>2, <1>3, <1>4 DEF IInv, PublishedIsComplete, NULL
  <2> QED BY <2>1, <2>2
<1>12. HeldBlocksStay'
  <2>2. arquivo_buffer' # NULL => <<"pfh", arquivo_buffer'>> \in heap'
    BY <1>3, <1>4 DEF IInv, HeldBlocksStay
  <2>3. ASSUME NEW d \in Conns, pcb'[d] = "open"
        PROVE  /\ <<"es", d>> \in heap'
               /\ estado'[d] = "espera_dados" => <<"pfh", d>> \in heap'
    <3>1. <<"es", d>> \in heap /\ (estado[d] = "espera_dados" => <<"pfh", d>> \in heap)
      BY <2>3, <1>2 DEF IInv, HeldBlocksStay
    <3>2. <<"es", d>> \notin Freed
      BY DEF Freed
    <3>3. estado[d] = "espera_dados" => <<"pfh", d>> \notin Freed
      BY DEF Freed, IInv, PublishedIsComplete
    <3> QED BY <3>1, <3>2, <3>3, <1>3, <1>4
  <2> QED BY <2>2, <2>3 DEF HeldBlocksStay
<1>13. OnlyDroppedConnectionsLeak'
  <2> SUFFICES ASSUME NEW b \in heap'
               PROVE  \/ b[2] \in dropped'
                      \/ b[1] = "pfh" /\ arquivo_buffer' = b[2]
                      \/ pcb'[b[2]] = "open" /\ (b[1] = "pfh" => estado'[b[2]] = "espera_dados")
    BY DEF OnlyDroppedConnectionsLeak
  <2>1. b \in heap \/ b = <<"pfh", c>>
    BY <1>3
  <2>2. CASE b = <<"pfh", c>>
    BY <2>2, <1>2, <1>3, <1>4
  <2>3. CASE b \in heap /\ b # <<"pfh", c>>
    <3>1. PICK k \in {"es", "pfh"}, d \in Conns : b = <<k, d>>
      BY <2>3, <1>4, BlockParts
    <3>2. \/ d \in dropped
          \/ k = "pfh" /\ arquivo_buffer = d
          \/ pcb[d] = "open" /\ (k = "pfh" => estado[d] = "espera_dados")
      BY <2>3, <3>1 DEF IInv, OnlyDroppedConnectionsLeak
    <3>3. CASE d \in dropped
      BY <3>1, <3>3, <1>2
    <3>4. CASE k = "pfh" /\ arquivo_buffer = d
      <4>1. d # NULL
        BY <1>4
      <4>2. arquivo_buffer' = arquivo_buffer
        BY <3>1, <3>4, <4>1, <1>3, <2>3 DEF Freed
      <4> QED BY <4>2, <3>1, <3>4
    <3>5. CASE pcb[d] = "open" /\ (k = "pfh" => estado[d] = "espera_dados")
      <4>1. k = "pfh" => d # c
        BY <2>3, <3>1
      <4> QED BY <4>1, <3>1, <3>5, <1>2, <1>3, <1>4
    <3> QED BY <3>2, <3>3, <3>4, <3>5
  <2> QED BY <2>1, <2>2, <2>3
<1> QED BY <1>8, <1>9, <1>10, <1>11, <1>12, <1>13 DEF IInv

(* The end of a connection, in any way, keeps the invariant: what is freed  *)
(* is nobody's.                                                             *)
LEMMA CloseInv ==
  ASSUME IInv, NEW c \in Conns, Accept(c) \/ NoMemory(c) \/ Redeliver(c) \/ Disconnect(c) \/ Reset(c)
  PROVE  IInv'
<1> USE ReceiverAssumption
<1>1. UNCHANGED <<estado, bytes_recebidos, conteudo, arquivo_buffer, delivered, chained>>
  BY DEF Accept, NoMemory, Redeliver, Disconnect, Reset, network
<1>2. /\ pcb \in [Conns -> Pcbs] /\ heap \subseteq Blocks
      /\ estado \in [Conns -> Estados] /\ dropped \subseteq Conns
      /\ arquivo_buffer \in Conns \cup {NULL}
  BY DEF IInv, TypeOK
<1>3. \/ /\ pcb[c] = "none" /\ dropped' = dropped
         /\ \/ pcb' = [pcb EXCEPT ![c] = "open"] /\ heap' = heap \cup {<<"es", c>>}
            \/ pcb' = [pcb EXCEPT ![c] = "closed"] /\ heap' = heap
      \/ /\ pcb[c] = "open" /\ dropped' = dropped
         /\ pcb' = [pcb EXCEPT ![c] = "closed"]
         /\ heap' = heap \ PartOf(c)
      \/ /\ pcb[c] = "open" /\ dropped' = dropped /\ estado[c] = "espera_cabecalho"
         /\ pcb' = [pcb EXCEPT ![c] = "refused"]
         /\ heap' = heap \ {<<"es", c>>}
      \/ /\ pcb[c] = "refused" /\ dropped' = dropped
         /\ pcb' = [pcb EXCEPT ![c] = "undefined"]
         /\ heap' = heap
      \/ /\ pcb[c] = "open" /\ dropped' = dropped \cup {c}
         /\ pcb' = [pcb EXCEPT ![c] = "closed"]
         /\ heap' = heap
  BY DEF Accept, NoMemory, Redeliver, Disconnect, Reset, network
<1>4. /\ \A d \in Conns : d # c => pcb'[d] = pcb[d]
      /\ pcb' \in [Conns -> Pcbs] /\ pcb'[c] # "none"
  BY <1>2, <1>3 DEF Pcbs
<1>5. TypeOK'
  <2>1. <<"es", c>> \in Blocks
    BY DEF Blocks
  <2>2. heap' \subseteq heap \cup {<<"es", c>>} /\ dropped' \subseteq dropped \cup {c}
    BY <1>3
  <2>3. heap' \subseteq Blocks /\ dropped' \subseteq Conns
    BY <1>2, <2>1, <2>2
  <2> QED BY <1>1, <1>4, <2>3 DEF IInv, TypeOK
<1>6. Counts' /\ InPlace' /\ PublishedIsComplete'
  BY <1>1, <1>4 DEF IInv, Counts, InPlace, PublishedIsComplete
<1>7. HeldBlocksStay'
  <2>1. arquivo_buffer # NULL => <<"pfh", arquivo_buffer>> \in heap'
    BY <1>3 DEF IInv, HeldBlocksStay, PublishedIsComplete, PartOf
  <2>2. ASSUME NEW d \in Conns, pcb'[d] = "open"
        PROVE  /\ <<"es", d>> \in heap'
               /\ estado[d] = "espera_dados" => <<"pfh", d>> \in heap'
    <3>1. CASE d = c
      BY <3>1, <2>2, <1>2, <1>3 DEF IInv, Counts
    <3>2. CASE d # c
      BY <3>2, <2>2, <1>3, <1>4 DEF IInv, HeldBlocksStay, PartOf
    <3> QED BY <3>1, <3>2
  <2> QED BY <2>1, <2>2, <1>1 DEF IInv, HeldBlocksStay
<1>8. OnlyDroppedConnectionsLeak'
  <2> SUFFICES ASSUME NEW b \in heap'
               PROVE  \/ b[2] \in dropped'
                      \/ b[1] = "pfh" /\ arquivo_buffer = b[2]
                      \/ pcb'[b[2]] = "open" /\ (b[1] = "pfh" => estado[b[2]] = "espera_dados")
    BY <1>1 DEF OnlyDroppedConnectionsLeak
  <2>1. CASE b \notin heap
    BY <2>1, <1>2, <1>3
  <2>2. CASE b \in heap
    <3>1. PICK k \in {"es", "pfh"}, d \in Conns : b = <<k, d>>
      BY <2>2, <1>2, BlockParts
    <3>2. \/ d \in dropped
          \/ k = "pfh" /\ arquivo_buffer = d
          \/ pcb[d] = "open" /\ (k = "pfh" => estado[d] = "espera_dados")
      BY <2>2, <3>1 DEF IInv, OnlyDroppedConnectionsLeak
    <3>3. CASE d # c
      BY <3>1, <3>2, <3>3, <1>3, <1>4
    <3>4. CASE d = c
      BY <3>1, <3>2, <3>4, <1>2, <1>3 DEF PartOf
    <3> QED BY <3>3, <3>4
  <2> QED BY <2>1, <2>2
<1> QED BY <1>5, <1>6, <1>7, <1>8 DEF IInv

(* Every callback, in any order, keeps the invariant.                       *)
THEOREM ReceiverInvariant == Spec => []IInv
<1>1. IInv /\ [Next]_vars => IInv'
  <2> SUFFICES ASSUME IInv, [Next]_vars PROVE IInv'
    OBVIOUS
  <2>1. CASE Next
    <3>1. PICK c \in Conns :
            Accept(c) \/ Segment(c) \/ NoMemory(c) \/ Redeliver(c) \/ Disconnect(c) \/ Reset(c)
      BY <2>1 DEF Next
    <3>2. CASE Segment(c)
      <4>1. PICK tot_len \in 1..(TAMANHO_CABECALHO + Size[c]) :
              \E len \in 1..tot_len : Recv(c, len, tot_len)
        BY <3>2 DEF Segment
      <4>2. tot_len \in Nat \ {0}
        BY ReceiverAssumption
      <4> QED BY <4>1, <4>2, RecvInv
    <3>3. CASE Accept(c) \/ NoMemory(c) \/ Redeliver(c) \/ Disconnect(c) \/ Reset(c)
      BY <3>3, CloseInv
    <3> QED BY <3>1, <3>2, <3>3
  <2>2. CASE UNCHANGED vars
    BY <2>2 DEF vars, IInv, TypeOK, Counts, InPlace, PublishedIsComplete, HeldBlocksStay,
                OnlyDroppedConnectionsLeak
  <2> QED BY <2>1, <2>2
<1> QED BY <1>1, InitInv, PTL DEF Spec

(* tcp_server_recv publishes a file only with every byte in its place,      *)
(* however its stream was cut and whoever else was connected.               *)
THEOREM PublishedFilesAreWhole == Spec => []PublishedAsSent
<1>1. IInv => PublishedAsSent
  <2> SUFFICES ASSUME IInv, arquivo_buffer # NULL
               PROVE  conteudo[arquivo_buffer] = [i \in 1..Size[arquivo_buffer] |-> i]
    BY DEF PublishedAsSent
  <2> DEFINE c == arquivo_buffer
  <2>1. c \in Conns /\ estado[c] = "concluido"
    BY DEF IInv, TypeOK, PublishedIsComplete
  <2> HIDE DEF c
  <2>2. /\ bytes_recebidos[c] \in Nat /\ Size[c] \in Nat /\ delivered[c] \in Nat /\ HEAD \in Nat
        /\ conteudo[c] \in [1..bytes_recebidos[c] -> 1..Size[c]]
    BY <2>1, ReceiverAssumption DEF IInv, TypeOK, HEAD
  <2>3. /\ delivered[c] <= HEAD + Size[c] /\ HEAD + bytes_recebidos[c] <= delivered[c]
        /\ bytes_recebidos[c] >= Size[c]
    BY <2>1 DEF IInv, Counts
  <2>4. bytes_recebidos[c] = Size[c] /\ delivered[c] = HEAD + bytes_recebidos[c]
    BY <2>2, <2>3
  <2>5. \A i \in 1..bytes_recebidos[c] : conteudo[c][i] = i
    BY <2>1, <2>4 DEF IInv, InPlace
  <2>6. conteudo[c] = [i \in 1..Size[c] |-> i]
    BY <2>2, <2>4, <2>5
  <2> QED BY <2>6 DEF c
<1> QED BY <1>1, ReceiverInvariant, PTL

(* tcp_server_recv and its disconnection branch free no block that an open  *)
(* connection or the published file still holds; the refused connection of  *)
(* pds200_1.c:132-137, which uses its freed state, is the one exception.    *)
THEOREM ReceiverKeepsHeldBlocks == Spec => []HeldBlocksStay
<1>1. IInv => HeldBlocksStay
  BY DEF IInv
<1> QED BY <1>1, ReceiverInvariant, PTL

(* Only the missing tcp_err callback leaks memory (pds200_1.c:238).         *)
THEOREM OnlyDropsLeak == Spec => []OnlyDroppedConnectionsLeak
<1>1. IInv => OnlyDroppedConnectionsLeak
  BY DEF IInv
<1> QED BY <1>1, ReceiverInvariant, PTL

(* The receiver's variables keep their types.                               *)
THEOREM ReceiverTypes == Spec => []TypeOK
<1>1. IInv => TypeOK
  BY DEF IInv
<1> QED BY <1>1, ReceiverInvariant, PTL
=============================================================================
