---------------------------- MODULE NetworkInterface ----------------------------
(***************************************************************************)
(* NetworkInterface::process_frame_at: one frame in, at most one frame     *)
(* out.  It decides which component a frame is for, and composes the       *)
(* ArpResolver, the TcpListener and the stateless ICMP and UDP echoes.     *)
(*                                                                         *)
(* A frame is what the parsers make of its bytes.  Where a parser or a     *)
(* checksum can refuse the bytes, the frame says so (ok); where the stack  *)
(* reads a field, the frame has it; an echoed payload is left out.         *)
(***************************************************************************)
EXTENDS Integers, FiniteSets

CONSTANTS
  OwnMac, Broadcast, Mac,     \* MAC addresses; Mac those that others send from
  OtherMac,                   \* a MAC address of a third host
  OwnIp, Ip,                  \* IP addresses, as numbers
  EchoPort, Port,             \* UDP_ECHO_PORT and TCP_ECHO_PORT, and all ports
  Segments,                   \* the TCP segments that others send
  Frames,                     \* the frames that others send
  IdMod,                      \* the number of IPv4 identifications, 2^16
  NoMac, MaxEntries, Ttl, Horizon,            \* see ArpCache
  RetryInterval, MaxAttempts, InstantMax,     \* see ArpResolver
  Capacity, InitialSequence, SeqMod, FlagSets \* see TcpListener

VARIABLES
  next_ipv4_identification,
  ip_to_mac, clock, found, latest,                  \* the ArpCache
  pending, outcome, unanswered, last_request,       \* the ArpResolver
  connections, next_initial_sequence, action,       \* the TcpListener
  result          \* of the last call, if it was one of process_frame_at

Resolver == INSTANCE ArpResolver
Listener == INSTANCE TcpListener WITH RemoteIp <- Ip, LocalPort <- EchoPort

ASSUME InterfaceAssumption ==
  /\ OwnMac # Broadcast
  /\ OtherMac \notin {OwnMac, Broadcast}
  /\ OwnIp \in Ip
  /\ EchoPort \in Port \ {0}
  /\ IdMod \in Nat \ {0}
  /\ Segments \subseteq Listener!Segment

(* What ArpCache, ArpResolver, TcpListener and Handshake assume.           *)
ASSUME PartsAssumption ==
  /\ Ip \subseteq Nat
  /\ NoMac \notin Mac
  /\ MaxEntries \in Nat /\ Ttl \in Nat /\ Horizon \in Nat
  /\ RetryInterval \in Nat /\ MaxAttempts \in Nat
  /\ InstantMax \in Nat /\ Horizon <= InstantMax
  /\ SeqMod \in Nat /\ SeqMod >= 2
  /\ InitialSequence \in Nat /\ InitialSequence < SeqMod
  /\ Capacity \in Nat /\ Capacity <= SeqMod
  /\ FlagSets \subseteq SUBSET Listener!Flag
  /\ {{"SYN"}, {"ACK"}} \subseteq FlagSets

arpVars == <<ip_to_mac, clock, found, latest,
             pending, outcome, unanswered, last_request>>
tcpVars == <<connections, next_initial_sequence, action>>
ifVars  == <<next_ipv4_identification, arpVars, tcpVars, result>>
--------------------------------------------------------------------------------
(* What each parser makes of its bytes: a refusal, or the fields the stack *)
(* reads.                                                                  *)

ArpPayload ==
  [type : {"Arp"}, ok : {FALSE}] \cup
  [type : {"Arp"}, ok : {TRUE}, operation : {"Request", "Reply", "Unknown"},
   sender_ip : Ip, sender_mac : Mac, target_ip : Ip]

IcmpBody ==
  [protocol : {"Icmp"}, ok : {FALSE}] \cup
  [protocol : {"Icmp"}, ok : {TRUE}, echo_request : BOOLEAN]

UdpBody ==
  [protocol : {"Udp"}, ok : {FALSE}] \cup
  [protocol : {"Udp"}, ok : {TRUE}, source_port : Port, destination_port : Port]

TcpBody ==
  [protocol : {"Tcp"}, ok : {FALSE}] \cup
  [protocol : {"Tcp"}, ok : {TRUE}, segment : Segments]

Body == IcmpBody \cup UdpBody \cup TcpBody \cup [protocol : {"Unknown"}]

(* fragment: more_fragments is set, or the offset is not 0.                *)
Ipv4Payload ==
  [type : {"Ipv4"}, ok : {FALSE}] \cup
  [type : {"Ipv4"}, ok : {TRUE}, destination : Ip, fragment : BOOLEAN,
   source : Ip, body : Body]

(* A frame of another type has a payload nobody looks at, and one that is  *)
(* too short has none.                                                     *)
Frame ==
  [destination_mac : {OwnMac, Broadcast, OtherMac}, source_mac : Mac,
   payload : ArpPayload \cup Ipv4Payload \cup [type : {"Other", "Truncated"}]]

ASSUME FramesAssumption == Frames \subseteq Frame

Ignored   == [kind |-> "Ignored"]     \* Ok(None)
Malformed == [kind |-> "Malformed"]   \* Err(error)
NotCalled == [kind |-> "NotCalled"]
Reply(frame) == [kind |-> "Reply", frame |-> frame]
--------------------------------------------------------------------------------
Init ==
  /\ next_ipv4_identification = 0
  /\ Resolver!Init
  /\ Listener!Init
  /\ result = NotCalled

(* What process_frame_at looks at in an Ethernet header.                   *)
IsAddressed(f) ==
  \/ f.payload.type = "Ipv4" /\ f.destination_mac = OwnMac
  \/ f.payload.type = "Arp"  /\ f.destination_mac \in {OwnMac, Broadcast}

IsForThisHost(f) ==
  /\ f.payload.destination = OwnIp
  /\ ~ f.payload.fragment
  /\ f.payload.body.protocol # "Unknown"

(* A parser or a checksum refuses the frame: nothing else happens.         *)
Refuse(f) ==
  /\ \/ f.payload.type = "Truncated"
     \/ IsAddressed(f) /\ ~ f.payload.ok
     \/ /\ IsAddressed(f) /\ f.payload.type = "Ipv4" /\ f.payload.ok
        /\ IsForThisHost(f) /\ ~ f.payload.body.ok
  /\ result' = Malformed
  /\ UNCHANGED <<arpVars, tcpVars, next_ipv4_identification>>

(* Nobody here is interested in the frame.                                 *)
Discard(f) ==
  /\ f.payload.type # "Truncated"
  /\ \/ ~ IsAddressed(f)
     \/ f.payload.type = "Ipv4" /\ f.payload.ok /\ ~ IsForThisHost(f)
  /\ result' = Ignored
  /\ UNCHANGED <<arpVars, tcpVars, next_ipv4_identification>>

(* build_reply: the operation and both ends of a request are turned round. *)
BuildArpReply(request) ==
  [destination_mac |-> request.sender_mac,
   source_mac      |-> OwnMac,
   payload |-> [type       |-> "Arp",
                ok         |-> TRUE,
                operation  |-> "Reply",
                sender_ip  |-> OwnIp,
                sender_mac |-> OwnMac,
                target_ip  |-> request.sender_ip]]

(* What build_reply answers.                                               *)
AsksForThisHost(packet) ==
  packet.operation = "Request" /\ packet.target_ip = OwnIp

(* process_arp_frame: the resolver sees every packet, and a request for    *)
(* this host's address is answered to its sender.                          *)
ProcessArpFrame(f, now) ==
  LET packet == f.payload IN
  /\ packet.type = "Arp" /\ IsAddressed(f) /\ packet.ok
  /\ Resolver!Observe([operation  |-> packet.operation,
                       sender_ip  |-> packet.sender_ip,
                       sender_mac |-> packet.sender_mac], now)
  /\ result' = IF AsksForThisHost(packet)
               THEN Reply(BuildArpReply(packet))
               ELSE Ignored
  /\ UNCHANGED <<tcpVars, next_ipv4_identification>>

(* Mutant: an identification that does not wrap around.                    *)
PlainNextIdentification(n) == n + 1

(* u16::wrapping_add(1).                                                   *)
NextIdentification(n) == (n + 1) % IdMod

(* The packet that is sent back, whole and accepted by its parser.         *)
Ipv4Reply(request, body) ==
  [type        |-> "Ipv4",
   ok          |-> TRUE,
   destination |-> request.source,
   fragment    |-> FALSE,
   source      |-> OwnIp,
   body        |-> body]

(* build_ipv4_reply: to the MAC address the request came from, under the   *)
(* next identification, which wraps around.                                *)
BuildIpv4Reply(f, body) ==
  /\ result' = Reply([destination_mac |-> f.source_mac,
                      source_mac      |-> OwnMac,
                      payload         |-> Ipv4Reply(f.payload, body)])
  /\ next_ipv4_identification' = NextIdentification(next_ipv4_identification)

EchoReply == [protocol |-> "Icmp", ok |-> TRUE, echo_request |-> FALSE]

EchoedDatagram(request) ==
  [protocol         |-> "Udp",
   ok               |-> TRUE,
   source_port      |-> EchoPort,
   destination_port |-> request.source_port]

ProcessIcmpPacket(f) ==
  /\ f.payload.body.protocol = "Icmp"
  /\ IF f.payload.body.echo_request
     THEN BuildIpv4Reply(f, EchoReply)
     ELSE result' = Ignored /\ UNCHANGED next_ipv4_identification
  /\ UNCHANGED <<arpVars, tcpVars>>

ProcessUdpDatagram(f) ==
  LET request == f.payload.body IN
  /\ request.protocol = "Udp"
  /\ IF request.destination_port = EchoPort /\ request.source_port # 0
     THEN BuildIpv4Reply(f, EchoedDatagram(request))
     ELSE result' = Ignored /\ UNCHANGED next_ipv4_identification
  /\ UNCHANGED <<arpVars, tcpVars>>

(* Mutant: the two numbers of a SYN-ACK change places.                     *)
SwappedSynAckSegment(answer) ==
  [source_port            |-> EchoPort,
   destination_port       |-> answer.key.remote_port,
   sequence_number        |-> answer.acknowledgement_number,
   acknowledgement_number |-> answer.sequence_number,
   flags                  |-> {"SYN", "ACK"},
   empty                  |-> TRUE]

(* The segment that carries the answer of the listener.                    *)
SynAckSegment(answer) ==
  [source_port            |-> EchoPort,
   destination_port       |-> answer.key.remote_port,
   sequence_number        |-> answer.sequence_number,
   acknowledgement_number |-> answer.acknowledgement_number,
   flags                  |-> {"SYN", "ACK"},
   empty                  |-> TRUE]

ProcessTcpSegment(f) ==
  /\ f.payload.body.protocol = "Tcp"
  /\ Listener!ReceiveSegment(f.payload.source, f.payload.body.segment)
  /\ IF action'.reply
     THEN BuildIpv4Reply(f,
            [protocol |-> "Tcp", ok |-> TRUE, segment |-> SynAckSegment(action')])
     ELSE result' = Ignored /\ UNCHANGED next_ipv4_identification
  /\ UNCHANGED arpVars

ProcessIpv4Frame(f) ==
  /\ f.payload.type = "Ipv4" /\ IsAddressed(f) /\ f.payload.ok
  /\ IsForThisHost(f) /\ f.payload.body.ok
  /\ \/ ProcessIcmpPacket(f)
     \/ ProcessUdpDatagram(f)
     \/ ProcessTcpSegment(f)

ProcessFrame(f, now) ==
  \/ Refuse(f)
  \/ Discard(f)
  \/ ProcessArpFrame(f, now)
  \/ ProcessIpv4Frame(f)

(* The program asks the interface for a neighbour's address.               *)
CachedMac(ip, now) ==
  /\ Resolver!CachedMac(ip, now)
  /\ result' = NotCalled
  /\ UNCHANGED <<tcpVars, next_ipv4_identification>>

(* Only an ARP frame is stamped with the instant it is processed at.       *)
Now(f) == IF f.payload.type = "Arp" THEN clock .. Horizon ELSE {clock}

Next ==
  \/ \E f \in Frames : \E now \in Now(f) : ProcessFrame(f, now)
  \/ \E ip \in Ip, now \in clock .. Horizon : CachedMac(ip, now)

Spec == Init /\ [][Next]_ifVars
--------------------------------------------------------------------------------
IsIpv4Reply == result.kind = "Reply" /\ result.frame.payload.type = "Ipv4"
IsTcpReply  == IsIpv4Reply /\ result.frame.payload.body.protocol = "Tcp"

TypeOK ==
  /\ next_ipv4_identification \in 0 .. IdMod - 1
  /\ Resolver!TypeOK
  /\ Listener!TypeOK
  /\ result \in {NotCalled, Ignored, Malformed} \/ result.kind = "Reply"

(* The host a frame is for runs this same stack: its process_frame_at      *)
(* answers the frame, whatever the state it is in, if its parsers accept   *)
(* it and it has room for a connection.                                    *)
WouldBeAnswered(payload) ==
  CASE payload.type = "Arp"  -> payload.operation = "Request"
    [] payload.type = "Ipv4" ->
         LET body == payload.body IN
         CASE body.protocol = "Icmp" -> body.echo_request
           [] body.protocol = "Udp"  -> /\ body.destination_port = EchoPort
                                        /\ body.source_port # 0
           [] body.protocol = "Tcp"  -> /\ Listener!Addressed(body.segment)
                                        /\ Listener!AcceptsInitialSyn(body.segment)

(* Between two of these stacks no answer draws an answer, so that one      *)
(* frame never starts an endless exchange; except a UDP datagram from the  *)
(* echo port to the echo port, which two echo services send to and fro.    *)
AnswersDrawNoAnswer ==
  result.kind = "Reply" /\ WouldBeAnswered(result.frame.payload) =>
    /\ IsIpv4Reply
    /\ result.frame.payload.body =
         [protocol         |-> "Udp",
          ok               |-> TRUE,
          source_port      |-> EchoPort,
          destination_port |-> EchoPort]

(* A SYN-ACK that leaves the interface goes to the address and port of a   *)
(* connection the listener holds, and offers exactly its numbers.          *)
SynAcksMatchTable ==
  IsTcpReply =>
    LET packet  == result.frame.payload
        segment == packet.body.segment
        key     == [remote_ip   |-> packet.destination,
                    remote_port |-> segment.destination_port]
    IN  /\ key \in DOMAIN connections
        /\ connections[key].state = "SynReceived"
        /\ segment.sequence_number = connections[key].initial_send_sequence
        /\ segment.acknowledgement_number = connections[key].receive_next
================================================================================
