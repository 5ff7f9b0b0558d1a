----------------------------- MODULE DhcpClient -----------------------------
(***************************************************************************)
(* The DHCP client of the BIOS (sys/ethernet/dhcp_client.c), called once   *)
(* at boot, and again whenever the user runs the same code as the          *)
(* application dhcp_req: DISCOVER, OFFER, REQUEST, ACK over one UDP socket *)
(* of the W5100, two timeouts, no retry.  The client looks at the type of  *)
(* what it receives and at nothing else: not at the xid, and not at whom a *)
(* broadcast reply is meant for.                                           *)
(* The W5100, the network and the servers are external.  The network       *)
(* loses, repeats and reorders; what is in the receive buffer may or may   *)
(* not survive the command OPEN.                                           *)
(***************************************************************************)
EXTENDS Integers, Sequences, FiniteSets

CONSTANTS
  Servers, Addresses,   \* DHCP servers, and the addresses they hand out
  FALLBACK,             \* 192.168.1.48, the address used without a lease
  Calls,                \* bound on the calls of w5100_dhcp_request
  Buffer                \* datagrams that fit in the receive buffer (6)

ASSUME DhcpAssumption ==
  /\ FALLBACK \notin Addresses
  /\ Calls \in Nat /\ Buffer \in Nat \ {0}

VARIABLES
  pc,           \* "idle", waiting for the "offer" or the "ack", "ok", "failed"
  calls,        \* calls so far
  sipr,         \* the chip's address register
  socket,       \* socket 0: "open" or "closed"
  rx,           \* its receive buffer
  net,          \* datagrams on the network
  leases,       \* whose an address is: nobody's, "orion", another host's
  lan           \* what is on the network, fixed at the start:
                \* its servers, and how it behaves, see Kinds

client == <<pc, calls, sipr, socket, rx>>
vars   == <<pc, calls, sipr, socket, rx, net, leases, lan>>

(* A calm network delivers everything once, before a timeout; on a private  *)
(* one Orion is the only client; on a shared one there are other hosts.     *)
Kinds == {"calm", "private", "shared"}

Discovers == [type : {"DISCOVER"}, server : Servers]
Requests  == [type : {"REQUEST"}, ip : Addresses, server : Servers]
Replies   == [type : {"OFFER", "ACK", "NAK"}, ip : Addresses, server : Servers]

Init ==
  /\ pc = "idle" /\ calls = 0
  /\ sipr = FALLBACK /\ socket = "closed" /\ rx = <<>>
  /\ net = {}
  /\ leases = [a \in Addresses |-> "free"]
  /\ lan \in [servers : SUBSET Servers, kind : Kinds]

-----------------------------------------------------------------------------
(* The client.                                                             *)

(* Lines 403-415 and 451-463: the chip is set up, for the DISCOVER and again *)
(* for the REQUEST.                                                         *)
SetUp ==
  /\ sipr' = FALLBACK
  /\ socket' = "open"

Close(result) == socket' = "closed" /\ pc' = result

Discover ==
  /\ pc \notin {"offer", "ack"}
  /\ calls < Calls
  /\ calls' = calls + 1
  /\ SetUp
  /\ rx' \in {<<>>, rx}
  /\ net' = net \cup [type : {"DISCOVER"}, server : lan.servers]
  /\ pc' = "offer"
  /\ UNCHANGED <<leases, lan>>

(* The first datagram must be an OFFER; the REQUEST names its address and   *)
(* its server.                                                              *)
ReceiveOffer ==
  /\ pc = "offer"
  /\ rx # <<>>
  /\ IF Head(rx).type = "OFFER"
     THEN /\ SetUp
          /\ rx' \in {<<>>, Tail(rx)}
          /\ net' = net \cup {[type |-> "REQUEST", ip |-> Head(rx).ip, server |-> Head(rx).server]}
          /\ pc' = "ack"
     ELSE Close("failed") /\ rx' = Tail(rx) /\ UNCHANGED <<sipr, net>>
  /\ UNCHANGED <<calls, leases, lan>>

\* Mutants: every reply but a NAK confirms; an ACK is refused.
Confirms_unlessNak(m) == m.type # "NAK"
Confirms_never(m) == FALSE

Confirms(m) == m.type = "ACK"

(* The next datagram must be an ACK: its address is the chip's. *)
ReceiveAck ==
  /\ pc = "ack"
  /\ rx # <<>>
  /\ rx' = Tail(rx)
  /\ IF Confirms(Head(rx)) THEN sipr' = Head(rx).ip /\ Close("ok")
                           ELSE UNCHANGED sipr /\ Close("failed")
  /\ UNCHANGED <<calls, net, leases, lan>>

\* Mutant: there is none.
Timeout_never == FALSE /\ UNCHANGED vars

(* 30 seconds for the OFFER, 50 for the ACK. *)
Timeout ==
  /\ pc \in {"offer", "ack"}
  /\ lan.kind = "calm" => net = {} /\ rx = <<>>
  /\ Close("failed")
  /\ UNCHANGED <<calls, sipr, rx, net, leases, lan>>

-----------------------------------------------------------------------------
(* The servers and the network.                                            *)

(* What is left when a datagram was delivered: all but a calm network may   *)
(* deliver it again.  A lost datagram is one that is never delivered.       *)
After(m) == IF lan.kind = "calm" THEN net \ {m} ELSE net

SendOffer(m) ==
  /\ m \in net \cap Discovers
  /\ \E a \in Addresses :
       /\ leases[a] # "other"
       /\ net' = After(m) \cup {[type |-> "OFFER", ip |-> a, server |-> m.server]}
  /\ UNCHANGED <<client, leases, lan>>

SendAck(m) ==
  /\ m \in net \cap Requests
  /\ leases[m.ip] # "other"
  /\ net' = After(m) \cup {[m EXCEPT !.type = "ACK"]}
  /\ leases' = [leases EXCEPT ![m.ip] = "orion"]
  /\ UNCHANGED <<client, lan>>

(* The server has changed its mind, or the address has gone elsewhere. *)
SendNak(m) ==
  /\ m \in net \cap Requests
  /\ lan.kind # "calm"
  /\ net' = After(m) \cup {[m EXCEPT !.type = "NAK"]}
  /\ UNCHANGED <<client, leases, lan>>

(* Another host's exchange, the replies to which are broadcast too. *)
OtherHost(a, s) ==
  /\ lan.kind = "shared" /\ s \in lan.servers
  /\ leases[a] # "orion"
  /\ leases' = [leases EXCEPT ![a] = "other"]
  /\ net' = net \cup [type : {"OFFER", "ACK"}, ip : {a}, server : {s}]
  /\ UNCHANGED <<client, lan>>

(* The W5100 keeps what comes while its socket is open and there is room. *)
Deliver(m) ==
  /\ m \in net \cap Replies
  /\ net' = After(m)
  /\ rx' = IF socket = "open" /\ Len(rx) < Buffer THEN Append(rx, m) ELSE rx
  /\ UNCHANGED <<pc, calls, sipr, socket, leases, lan>>

Receive == ReceiveOffer \/ ReceiveAck
Server  == \E m \in net : SendOffer(m) \/ SendAck(m) \/ SendNak(m)
Network == \E m \in net : Deliver(m)

Next ==
  \/ Discover \/ Receive \/ Timeout
  \/ Server \/ Network
  \/ \E a \in Addresses, s \in Servers : OtherHost(a, s)

Spec == Init /\ [][Next]_vars

(* The client runs and its clock ticks; the servers answer, and a calm      *)
(* network delivers.                                                        *)
FairSpec ==
  /\ Spec
  /\ WF_vars(Receive)
  /\ WF_vars(Timeout)
  /\ WF_vars(Server)
  /\ WF_vars(Network)

-----------------------------------------------------------------------------
(* Properties.                                                             *)

(* The socket is open exactly while the client waits. *)
TypeOK ==
  /\ pc \in {"idle", "offer", "ack", "ok", "failed"} /\ calls \in 0..Calls
  /\ sipr \in Addresses \cup {FALLBACK}
  /\ socket \in {"open", "closed"}
  /\ socket = "open" <=> pc \in {"offer", "ack"}
  /\ rx \in Seq(Replies)
  /\ net \subseteq Discovers \cup Requests \cup Replies
  /\ leases \in [Addresses -> {"free", "orion", "other"}]
  /\ lan \in [servers : SUBSET Servers, kind : Kinds]

(* Whatever the network does to the exchange, the chip never has an address *)
(* that was only offered; and unless other hosts share the network, it is   *)
(* one that a server has leased to Orion (dhcp_client.c:491).               *)
AddressIsLeased ==
  sipr # FALLBACK =>
    /\ pc = "ok"
    /\ leases[sipr] # "free"
    /\ lan.kind # "shared" => leases[sipr] = "orion"

(* dhcp_client.c:423, 469: whatever is lost, the boot goes on. *)
EveryCallEnds == pc \in {"offer", "ack"} ~> pc \in {"ok", "failed"}

(* On a calm network with one server every call gets an address.  (With a   *)
(* second one its OFFER is taken for the ACK, and the call fails.)          *)
CalmCallSucceeds ==
  lan.kind = "calm" /\ Cardinality(lan.servers) = 1 /\ pc = "offer" ~> pc = "ok"
=============================================================================
