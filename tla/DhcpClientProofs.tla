-------------------------- MODULE DhcpClientProofs --------------------------
(***************************************************************************)
(* Proofs about DhcpClient, for any servers, addresses, buffer and number  *)
(* of calls: the chip's address is a leased one.  A lease is never taken   *)
(* back in the model, so it is enough that every ACK, on the network or in *)
(* the receive buffer, stands for one.                                     *)
(***************************************************************************)
EXTENDS DhcpClient, TLAPS

(* The lease an ACK stands for. *)
Leased(a) ==
  /\ leases[a] # "free"
  /\ lan.kind # "shared" => leases[a] = "orion"

Truthful(m) == m \in Replies /\ m.type = "ACK" => Leased(m.ip)

AcksAreLeases ==
  /\ \A m \in net : Truthful(m)
  /\ \A i \in 1..Len(rx) : Truthful(rx[i])

IInv == TypeOK /\ AcksAreLeases /\ AddressIsLeased

-----------------------------------------------------------------------------

(* Nothing is leased and nothing is on the way before the boot.             *)
LEMMA InitInv == Init => IInv
<1> SUFFICES ASSUME Init PROVE IInv
  OBVIOUS
<1>1. TypeOK
  <2>1. rx \in Seq(Replies) /\ leases \in [Addresses -> {"free", "orion", "other"}]
    BY DEF Init
  <2>2. calls \in 0..Calls /\ sipr \in Addresses \cup {FALLBACK}
    BY DhcpAssumption DEF Init
  <2> QED BY <2>1, <2>2 DEF Init, TypeOK
<1>2. AcksAreLeases
  BY DEF Init, AcksAreLeases
<1>3. AddressIsLeased
  BY DEF Init, AddressIsLeased
<1> QED BY <1>1, <1>2, <1>3 DEF IInv

(* The buffer after OPEN.                                                   *)
LEMMA EmptyBuffer == <<>> \in Seq(Replies) /\ Len(<<>>) = 0
OBVIOUS

(* A type: what a message is follows from its field type.                   *)
LEMMA Kinded ==
  /\ \A m \in Discovers : m.type = "DISCOVER"
  /\ \A m \in Requests : m.type = "REQUEST" /\ m.ip \in Addresses /\ m.server \in Servers
  /\ \A m \in Replies : m.type \in {"OFFER", "ACK", "NAK"} /\ m.ip \in Addresses
                        /\ m.server \in Servers
BY DEF Discovers, Requests, Replies

(* A datagram on the network that is read off it leaves what was there.     *)
LEMMA AfterIsLess == \A m : After(m) \subseteq net
BY DEF After

(* What the client reads off the head of the buffer.                        *)
LEMMA HeadAndTail ==
  ASSUME IInv, rx # <<>>
  PROVE  /\ Head(rx) \in Replies /\ Truthful(Head(rx))
         /\ Tail(rx) \in Seq(Replies)
         /\ \A i \in 1..Len(Tail(rx)) : Truthful(Tail(rx)[i])
<1>1. rx \in Seq(Replies) /\ Len(rx) \in Nat \ {0}
  BY DEF IInv, TypeOK
<1>2. Head(rx) = rx[1] /\ rx[1] \in Replies /\ Tail(rx) \in Seq(Replies)
  BY <1>1
<1>3. Truthful(rx[1])
  BY <1>1 DEF IInv, AcksAreLeases
<1>4. ASSUME NEW i \in 1..Len(Tail(rx)) PROVE Truthful(Tail(rx)[i])
  <2>1. Tail(rx)[i] = rx[i + 1] /\ i + 1 \in 1..Len(rx)
    BY <1>1
  <2> QED BY <2>1 DEF IInv, AcksAreLeases
<1> QED BY <1>2, <1>3, <1>4

(* The steps of w5100_dhcp_request keep the invariant.                      *)
LEMMA ClientInv ==
  ASSUME IInv, Discover \/ ReceiveOffer \/ ReceiveAck \/ Timeout
  PROVE  IInv'
<1> USE DhcpAssumption
<1>1. leases' = leases /\ lan' = lan
  BY DEF Discover, ReceiveOffer, ReceiveAck, Timeout
<1>2. ASSUME NEW m PROVE Truthful(m)' <=> Truthful(m)
  BY <1>1 DEF Truthful, Leased
<1>3. CASE Discover
  <2>1. net' = net \cup [type : {"DISCOVER"}, server : lan.servers] /\ rx' \in {<<>>, rx}
        /\ sipr' = FALLBACK /\ socket' = "open" /\ pc' = "offer" /\ calls' = calls + 1
        /\ calls < Calls
    BY <1>3 DEF Discover, SetUp
  <2>2. [type : {"DISCOVER"}, server : lan.servers] \subseteq Discovers
    BY DEF IInv, TypeOK, Discovers
  <2>3. TypeOK'
    <3>1. rx' \in Seq(Replies)
      BY <2>1, EmptyBuffer DEF IInv, TypeOK
    <3>2. calls' \in 0..Calls
      BY <2>1 DEF IInv, TypeOK
    <3>3. net' \subseteq Discovers \cup Requests \cup Replies
      BY <2>1, <2>2 DEF IInv, TypeOK
    <3> QED BY <2>1, <3>1, <3>2, <3>3, <1>1 DEF IInv, TypeOK
  <2>4. ASSUME NEW m \in net' PROVE Truthful(m)'
    BY <2>1, <2>2, <1>2, Kinded DEF IInv, AcksAreLeases, Truthful
  <2>5. ASSUME NEW i \in 1..Len(rx') PROVE Truthful(rx[i])'
    BY <2>1, <1>1 DEF IInv, AcksAreLeases, Truthful, Leased
  <2> QED BY <2>1, <2>3, <2>4, <2>5 DEF IInv, AcksAreLeases, AddressIsLeased
<1>4. CASE ReceiveOffer
  <2>1. /\ Head(rx) \in Replies /\ Tail(rx) \in Seq(Replies)
        /\ \A i \in 1..Len(Tail(rx)) : Truthful(Tail(rx)[i])
    BY <1>4, HeadAndTail DEF ReceiveOffer
  <2> DEFINE request == [type |-> "REQUEST", ip |-> Head(rx).ip, server |-> Head(rx).server]
  <2>2. request \in Requests
    BY <2>1, Kinded DEF Requests
  <2>3. \/ /\ sipr' = FALLBACK /\ socket' = "open" /\ pc' = "ack" /\ calls' = calls
           /\ rx' \in {<<>>, Tail(rx)} /\ net' = net \cup {request}
        \/ /\ sipr' = sipr /\ socket' = "closed" /\ pc' = "failed" /\ calls' = calls
           /\ rx' = Tail(rx) /\ net' = net
    BY <1>4 DEF ReceiveOffer, SetUp, Close
  <2> HIDE DEF request
  <2>4. TypeOK'
    <3>1. rx' \in Seq(Replies)
      BY <2>1, <2>3, EmptyBuffer
    <3>2. net' \subseteq Discovers \cup Requests \cup Replies
      BY <2>2, <2>3 DEF IInv, TypeOK
    <3> QED BY <2>3, <3>1, <3>2, <1>1 DEF IInv, TypeOK
  <2>5. ASSUME NEW m \in net' PROVE Truthful(m)'
    <3>1. m \in net \/ m = request
      BY <2>3
    <3> QED BY <3>1, <2>2, <1>2, Kinded DEF IInv, AcksAreLeases, Truthful
  <2>6. ASSUME NEW i \in 1..Len(rx') PROVE Truthful(rx[i])'
    <3>1. rx' = Tail(rx)
      BY <2>3
    <3> QED BY <2>1, <3>1, <1>1 DEF Truthful, Leased
  <2>7. sipr = FALLBACK
    BY <1>4 DEF IInv, AddressIsLeased, ReceiveOffer
  <2> QED BY <2>3, <2>4, <2>5, <2>6, <2>7 DEF IInv, AcksAreLeases, AddressIsLeased
<1>5. CASE ReceiveAck
  <2>1. /\ Head(rx) \in Replies /\ Truthful(Head(rx)) /\ Tail(rx) \in Seq(Replies)
        /\ \A i \in 1..Len(Tail(rx)) : Truthful(Tail(rx)[i])
    BY <1>5, HeadAndTail DEF ReceiveAck
  <2>2. /\ rx' = Tail(rx) /\ net' = net /\ socket' = "closed" /\ calls' = calls
        /\ \/ Head(rx).type = "ACK" /\ sipr' = Head(rx).ip /\ pc' = "ok"
           \/ sipr' = sipr /\ pc' = "failed"
    BY <1>5 DEF ReceiveAck, Confirms, Close
  <2>3. TypeOK'
    BY <2>1, <2>2, <1>1, Kinded DEF IInv, TypeOK
  <2>4. AcksAreLeases'
    BY <2>1, <2>2, <1>1 DEF IInv, AcksAreLeases, Truthful, Leased
  <2>5. sipr = FALLBACK
    BY <1>5 DEF IInv, AddressIsLeased, ReceiveAck
  <2>6. AddressIsLeased'
    BY <2>1, <2>2, <2>5, <1>1 DEF AddressIsLeased, Truthful, Leased
  <2> QED BY <2>3, <2>4, <2>6 DEF IInv
<1>6. CASE Timeout
  <2>1. /\ rx' = rx /\ net' = net /\ socket' = "closed" /\ calls' = calls /\ sipr' = sipr
        /\ pc' = "failed"
    BY <1>6 DEF Timeout, Close
  <2>2. sipr = FALLBACK
    BY <1>6 DEF IInv, AddressIsLeased, Timeout
  <2>3. TypeOK'
    BY <2>1, <1>1 DEF IInv, TypeOK
  <2>4. AcksAreLeases'
    BY <2>1, <1>1 DEF IInv, AcksAreLeases, Truthful, Leased
  <2> QED BY <2>1, <2>2, <2>3, <2>4 DEF IInv, AddressIsLeased
<1> QED BY <1>3, <1>4, <1>5, <1>6

(* A step outside the client keeps the invariant if it puts truthful        *)
(* datagrams on the network and takes no lease away.                        *)
LEMMA OutsideInv ==
  ASSUME IInv, UNCHANGED <<pc, calls, sipr, socket, lan>>,
         leases' \in [Addresses -> {"free", "orion", "other"}],
         \A a \in Addresses : leases[a] # "free" => leases'[a] = leases[a],
         rx' \in Seq(Replies),
         \A i \in 1..Len(rx') : rx'[i] \in net \/ \E j \in 1..Len(rx) : rx'[i] = rx[j],
         net' \subseteq Discovers \cup Requests \cup Replies,
         \A m \in net' : m \in net \/ Truthful(m)'
  PROVE  IInv'
<1>1. ASSUME NEW m, Truthful(m) PROVE Truthful(m)'
  <2> SUFFICES ASSUME m \in Replies, m.type = "ACK" PROVE Leased(m.ip)'
    BY DEF Truthful
  <2>1. Leased(m.ip) /\ m.ip \in Addresses
    BY <1>1, Kinded DEF Truthful
  <2> QED BY <2>1 DEF Leased
<1>2. TypeOK'
  BY DEF IInv, TypeOK
<1>3. \A m \in net' : Truthful(m)'
  BY <1>1 DEF IInv, AcksAreLeases
<1>4. \A i \in 1..Len(rx') : Truthful(rx[i])'
  BY <1>1 DEF IInv, AcksAreLeases
<1>5. AddressIsLeased'
  BY DEF IInv, TypeOK, AddressIsLeased
<1> QED BY <1>2, <1>3, <1>4, <1>5 DEF IInv, AcksAreLeases

(* The steps of the servers, the network and the other hosts are such.      *)
LEMMA SurroundingsInv ==
  ASSUME IInv, Server \/ Network \/ \E a \in Addresses, s \in Servers : OtherHost(a, s)
  PROVE  IInv'
<1>1. /\ rx \in Seq(Replies) /\ leases \in [Addresses -> {"free", "orion", "other"}]
      /\ net \subseteq Discovers \cup Requests \cup Replies
  BY DEF IInv, TypeOK
<1> DEFINE Kept == \A i \in 1..Len(rx') : rx'[i] \in net \/ \E j \in 1..Len(rx) : rx'[i] = rx[j]
           Fresh == /\ net' \subseteq Discovers \cup Requests \cup Replies
                    /\ \A m \in net' : m \in net \/ Truthful(m)'
<1> HIDE DEF Fresh
<1>0. rx' = rx => Kept
  BY <1>1
<1>2. ASSUME NEW m \in net, SendOffer(m) PROVE IInv'
  <2>1. PICK a \in Addresses :
          net' = After(m) \cup {[type |-> "OFFER", ip |-> a, server |-> m.server]}
    BY <1>2 DEF SendOffer
  <2> DEFINE o == [type |-> "OFFER", ip |-> a, server |-> m.server]
  <2>2. o \in Replies /\ o.type = "OFFER"
    BY <1>2 DEF SendOffer, Discovers, Replies
  <2>3. net' \subseteq net \cup {o}
    BY <2>1, AfterIsLess
  <2>4. UNCHANGED <<pc, calls, sipr, socket, rx, leases, lan>>
    BY <1>2 DEF SendOffer, client
  <2> HIDE DEF o
  <2>5. Truthful(o)'
    BY <2>2 DEF Truthful
  <2>6. Fresh
    BY <2>2, <2>3, <2>5, <1>1 DEF Fresh
  <2> QED BY <2>4, <2>6, <1>0, <1>1, OutsideInv DEF Fresh
<1>3. ASSUME NEW m \in net, SendAck(m) PROVE IInv'
  <2> DEFINE ack == [m EXCEPT !.type = "ACK"]
  <2>1. m \in Requests /\ net' \subseteq net \cup {ack} /\ leases[m.ip] # "other"
        /\ leases' = [leases EXCEPT ![m.ip] = "orion"]
        /\ UNCHANGED <<pc, calls, sipr, socket, rx, lan>>
    BY <1>3, AfterIsLess DEF SendAck, client
  <2>2. ack \in Replies /\ ack.ip = m.ip /\ m.ip \in Addresses
    BY <2>1 DEF Requests, Replies
  <2> HIDE DEF ack
  <2>3. Truthful(ack)'
    BY <2>1, <2>2, <1>1 DEF Truthful, Leased
  <2>4. /\ leases' \in [Addresses -> {"free", "orion", "other"}]
        /\ \A a \in Addresses : leases[a] # "free" => leases'[a] = leases[a]
    BY <2>1, <2>2, <1>1
  <2>5. Fresh
    BY <2>1, <2>2, <2>3, <1>1 DEF Fresh
  <2> QED BY <2>1, <2>4, <2>5, <1>0, <1>1, OutsideInv DEF Fresh
<1>4. ASSUME NEW m \in net, SendNak(m) PROVE IInv'
  <2> DEFINE nak == [m EXCEPT !.type = "NAK"]
  <2>1. m \in Requests /\ net' \subseteq net \cup {nak}
        /\ UNCHANGED <<pc, calls, sipr, socket, rx, leases, lan>>
    BY <1>4, AfterIsLess DEF SendNak, client
  <2>2. nak \in Replies /\ nak.type = "NAK"
    BY <2>1 DEF Requests, Replies
  <2> HIDE DEF nak
  <2>3. Truthful(nak)'
    BY <2>2 DEF Truthful
  <2>4. Fresh
    BY <2>1, <2>2, <2>3, <1>1 DEF Fresh
  <2> QED BY <2>1, <2>4, <1>0, <1>1, OutsideInv DEF Fresh
<1>5. ASSUME NEW m \in net, Deliver(m) PROVE IInv'
  <2>1. m \in Replies /\ net' \subseteq net /\ (rx' = rx \/ rx' = Append(rx, m))
        /\ UNCHANGED <<pc, calls, sipr, socket, leases, lan>>
    BY <1>5, AfterIsLess DEF Deliver
  <2>2. rx' \in Seq(Replies)
    BY <2>1, <1>1
  <2>3. Kept
    <3>1. CASE rx' = rx
      BY <3>1, <1>1
    <3>2. CASE rx' = Append(rx, m)
      <4>1. Len(rx') = Len(rx) + 1 /\ rx'[Len(rx) + 1] = m
            /\ \A i \in 1..Len(rx) : rx'[i] = rx[i]
        BY <3>2, <1>1, <2>1
      <4>2. \A i \in 1..Len(rx') : i = Len(rx) + 1 \/ i \in 1..Len(rx)
        BY <4>1, <1>1
      <4> QED BY <4>1, <4>2
    <3> QED BY <2>1, <3>1, <3>2
  <2>4. Fresh
    BY <2>1, <1>1 DEF Fresh
  <2> QED BY <2>1, <2>2, <2>3, <2>4, <1>1, OutsideInv DEF Fresh
<1>6. ASSUME NEW a \in Addresses, NEW s \in Servers, OtherHost(a, s) PROVE IInv'
  <2> DEFINE new == [type : {"OFFER", "ACK"}, ip : {a}, server : {s}]
  <2>1. net' = net \cup new /\ lan.kind = "shared" /\ leases[a] # "orion"
        /\ leases' = [leases EXCEPT ![a] = "other"]
        /\ UNCHANGED <<pc, calls, sipr, socket, rx, lan>>
    BY <1>6 DEF OtherHost, client
  <2>2. new \subseteq Replies /\ \A m \in new : m.ip = a
    BY DEF Replies
  <2> HIDE DEF new
  <2>3. \A m \in new : Truthful(m)'
    BY <2>1, <2>2, <1>1 DEF Truthful, Leased
  <2>4. /\ leases' \in [Addresses -> {"free", "orion", "other"}]
        /\ \A b \in Addresses : leases[b] # "free" => leases'[b] = leases[b]
    BY <2>1, <1>1
  <2>5. Fresh
    BY <2>1, <2>2, <2>3, <1>1 DEF Fresh
  <2> QED BY <2>1, <2>4, <2>5, <1>0, <1>1, OutsideInv DEF Fresh
<1> QED BY <1>2, <1>3, <1>4, <1>5, <1>6 DEF Server, Network

(* Every step keeps the invariant.                                          *)
THEOREM DhcpInvariant == Spec => []IInv
<1>1. IInv /\ [Next]_vars => IInv'
  <2> SUFFICES ASSUME IInv, [Next]_vars PROVE IInv'
    OBVIOUS
  <2>1. CASE Discover \/ Receive \/ Timeout
    BY <2>1, ClientInv DEF Receive
  <2>2. CASE Server \/ Network \/ \E a \in Addresses, s \in Servers : OtherHost(a, s)
    BY <2>2, SurroundingsInv
  <2>3. CASE UNCHANGED vars
    BY <2>3 DEF vars, IInv, TypeOK, AcksAreLeases, Truthful, Leased, AddressIsLeased
  <2> QED BY <2>1, <2>2, <2>3 DEF Next
<1> QED BY <1>1, InitInv, PTL DEF Spec

(* w5100_dhcp_request never leaves the chip with an address that no server  *)
(* has leased, whatever is lost, repeated or delayed.                       *)
THEOREM ChipAddressIsLeased == Spec => []AddressIsLeased
<1>1. IInv => AddressIsLeased
  BY DEF IInv
<1> QED BY <1>1, DhcpInvariant, PTL

(* The socket is open only while the client waits, and the state is         *)
(* well-typed.                                                              *)
THEOREM DhcpTypes == Spec => []TypeOK
<1>1. IInv => TypeOK
  BY DEF IInv
<1> QED BY <1>1, DhcpInvariant, PTL
=============================================================================
