----------------------------- MODULE WireInterface -----------------------------
(***************************************************************************)
(* NetworkInterface::process_frame_at on frames as they are on the wire:   *)
(* what NetworkInterface leaves to the frame (whether the parsers and the  *)
(* checksums accept it, and how a reply is put together) is done here with *)
(* the codecs, and every ? of the code that returns an error is a way out. *)
(*                                                                         *)
(* It implements NetworkInterface: see Abstraction and ImplementsInterface.*)
(***************************************************************************)
EXTENDS Codecs, FiniteSets

CONSTANTS
  OwnMac, Broadcast, OtherMac, Mac,           \* see NetworkInterface
  OwnIp, Ip, Port,
  Inputs,                                     \* the frames that arrive
  EchoPort,                                   \* UDP_ECHO_PORT, TCP_ECHO_PORT
  IdMod,
  NoMac, MaxEntries, Ttl, Horizon,            \* see ArpCache
  RetryInterval, MaxAttempts, InstantMax,     \* see ArpResolver
  Capacity, InitialSequence, SeqMod, FlagSets \* see TcpListener

VARIABLES
  next_ipv4_identification,
  ip_to_mac, clock, found, latest,
  pending, outcome, unanswered, last_request,
  connections, next_initial_sequence, action,
  received,   \* history: the length of the frame of the last call
  output      \* what the last call returned

(* What the stack reads of a message is there, and what a reply is made of *)
(* has the range of its field; the parsers look at the rest themselves.    *)
IsArpPacket(packet) ==
  /\ {"sender_ip", "len"} \subseteq DOMAIN packet
  /\ packet.sender_ip \in Nat

IsIcmpMessage(message) ==
  /\ {"message_type", "fill", "len"} \subseteq DOMAIN message
  /\ message.fill \in U8
  /\ IsEcho(message.message_type) =>
       /\ {"identifier", "sequence_number"} \subseteq DOMAIN message
       /\ message.identifier \in U16
       /\ message.sequence_number \in U16

IsUdpDatagram(datagram) ==
  /\ {"source_port", "length", "fill", "len"} \subseteq DOMAIN datagram
  /\ datagram.source_port \in U16
  /\ datagram.length \in U16
  /\ datagram.fill \in U8

IsTcpSegment(segment) ==
  /\ {"source_port", "sequence_number", "len"} \subseteq DOMAIN segment
  /\ segment.source_port \in U16
  /\ segment.sequence_number \in Nat

IsIpv4Packet(packet) ==
  /\ {"version_and_ihl", "dscp_and_ecn", "total_length", "protocol", "source",
      "body", "len"} \subseteq DOMAIN packet
  /\ packet.version_and_ihl \in U8
  /\ packet.dscp_and_ecn \in U8
  /\ packet.total_length \in U16
  /\ packet.source \in Nat
  /\ "len" \in DOMAIN packet.body
  /\ packet.protocol = 1  => IsIcmpMessage(packet.body)
  /\ packet.protocol = 17 => IsUdpDatagram(packet.body)
  /\ packet.protocol = 6  => IsTcpSegment(packet.body)

ASSUME WireAssumption ==
  \A bytes \in Inputs :
    /\ bytes.len \in Nat
    /\ "len" \in DOMAIN bytes.body
    /\ bytes.ether_type = 2048 => IsIpv4Packet(bytes.body)
    /\ bytes.ether_type = 2054 => IsArpPacket(bytes.body)

(* This host's own numbers fit in the fields of its replies.               *)
ASSUME OwnAssumption ==
  /\ OwnIp \in Nat
  /\ EchoPort \in U16
  /\ IdMod \in Nat \ {0} /\ IdMod <= Ones + 1
  /\ InitialSequence \in Nat

Resolver == INSTANCE ArpResolver
Listener == INSTANCE TcpListener WITH RemoteIp <- Ip, LocalPort <- EchoPort

arpVars == <<ip_to_mac, clock, found, latest,
             pending, outcome, unanswered, last_request>>
tcpVars == <<connections, next_initial_sequence, action>>
stackVars == <<next_ipv4_identification, arpVars, tcpVars>>
wireVars == <<stackVars, received, output>>
--------------------------------------------------------------------------------
DEFAULT_IPV4_TTL == 64
DEFAULT_TCP_RECEIVE_WINDOW == 64240

NotCalled == [kind |-> "NotCalled"]
Ignored   == [kind |-> "Ignored"]
Failed(class, error) == [kind |-> "Failed", class |-> class, error |-> error]
Reply(frame) == [kind |-> "Reply", frame |-> frame]

Init ==
  /\ next_ipv4_identification = 0
  /\ Resolver!Init
  /\ Listener!Init
  /\ received = 0
  /\ output = NotCalled

(* The frame is done with, and nothing else has changed.                   *)
Return(result) ==
  /\ output' = result
  /\ UNCHANGED stackVars

(* An Ethernet frame around bytes, written into a buffer made for it.      *)
SealFrame(destination_mac, kind, bytes) ==
  LET frame == [destination_mac |-> destination_mac, source_mac |-> OwnMac,
                ether_type |-> [kind |-> kind], payload |-> bytes]
      refuses == EthernetWriteRefuses(frame, ETHERNET_HEADER_LEN + bytes.len)
  IN IF refuses # None THEN Failed("Serialise", refuses)
     ELSE Reply(WriteEthernet(frame))

Ipv4ReplyTo(request, protocol, payload) ==
  [dscp            |-> request.dscp,
   ecn             |-> request.ecn,
   identification  |-> next_ipv4_identification,
   ttl             |-> DEFAULT_IPV4_TTL,
   protocol        |-> protocol,
   dont_fragment   |-> 0,
   more_fragments  |-> 0,
   fragment_offset |-> 0,
   source          |-> OwnIp,
   destination     |-> request.source,
   options         |-> NoBytes,
   payload         |-> payload]

(* Mutant: the buffer is made for the payload, without the header.         *)
SmallIpv4Buffer(ethernet, request, protocol, payload) ==
  LET packet == Ipv4ReplyTo(request, protocol, payload)
      refuses == Ipv4WriteRefuses(packet, payload.len)
  IN /\ output' = IF refuses # None THEN Failed("Ipv4Serialise", refuses)
                  ELSE SealFrame(ethernet.source_mac, "Ipv4", WriteIpv4(packet))
     /\ next_ipv4_identification' =
          IF output'.kind = "Reply"
          THEN (next_ipv4_identification + 1) % IdMod
          ELSE next_ipv4_identification

(* build_ipv4_reply: the identification is used up by a reply only.        *)
BuildIpv4Reply(ethernet, request, protocol, payload) ==
  LET packet == Ipv4ReplyTo(request, protocol, payload)
      refuses == Ipv4WriteRefuses(packet, IPV4_MIN_HEADER_LEN + payload.len)
  IN /\ output' = IF refuses # None THEN Failed("Ipv4Serialise", refuses)
                  ELSE SealFrame(ethernet.source_mac, "Ipv4", WriteIpv4(packet))
     /\ next_ipv4_identification' =
          IF output'.kind = "Reply"
          THEN (next_ipv4_identification + 1) % IdMod
          ELSE next_ipv4_identification

(* The end of a handler: its message could be serialised, and goes into an *)
(* IPv4 packet back to the sender, or the error is returned.               *)
ReplyUnless(refuses, class, ethernet, request, protocol, bytes) ==
  IF refuses # None
  THEN output' = Failed(class, refuses) /\ UNCHANGED next_ipv4_identification
  ELSE BuildIpv4Reply(ethernet, request, protocol, bytes)

ProcessIcmpPacket(ethernet, ipv4) ==
  LET request == ParseIcmp(ipv4.payload)
      reply   == BuildEchoReply(request)
  IN IF IcmpRefuses(ipv4.payload) # None
     THEN Return(Failed("Icmp", IcmpRefuses(ipv4.payload)))
     ELSE IF request.kind # "EchoRequest" THEN Return(Ignored)
     ELSE /\ ReplyUnless(IcmpWriteRefuses(reply, ipv4.payload.len), "Serialise",
                         ethernet, ipv4, [kind |-> "Icmp"], WriteIcmp(reply))
          /\ UNCHANGED <<arpVars, tcpVars>>

ProcessUdpDatagram(ethernet, ipv4) ==
  LET invalid == UdpInvalid(ipv4.source, ipv4.destination, ipv4.payload)
      request == ParseUdp(ipv4.payload)
      reply   == [source_port      |-> EchoPort,
                  destination_port |-> request.source_port,
                  payload          |-> request.payload]
  IN IF invalid # None THEN Return(Failed("Udp", invalid))
     ELSE IF request.destination_port # EchoPort \/ request.source_port = 0
     THEN Return(Ignored)
     ELSE /\ ReplyUnless(UdpWriteRefuses(reply, UDP_HEADER_LEN + request.payload.len),
                         "UdpSerialise", ethernet, ipv4, [kind |-> "Udp"],
                         WriteUdp(OwnIp, ipv4.source, reply))
          /\ UNCHANGED <<arpVars, tcpVars>>

(* What the listener sees of a segment.                                    *)
SegmentOf(segment) ==
  [source_port            |-> segment.source_port,
   destination_port       |-> segment.destination_port,
   sequence_number        |-> segment.sequence_number,
   acknowledgement_number |-> segment.acknowledgement_number,
   flags                  |-> Flags(segment.flags),
   empty                  |-> segment.payload.len = 0]

SynAckToSend(syn_ack) ==
  [source_port            |-> EchoPort,
   destination_port       |-> syn_ack.key.remote_port,
   sequence_number        |-> syn_ack.sequence_number,
   acknowledgement_number |-> syn_ack.acknowledgement_number,
   flags                  |-> FlagBit["SYN"] + FlagBit["ACK"],
   window_size            |-> DEFAULT_TCP_RECEIVE_WINDOW,
   urgent_pointer         |-> 0,
   options                |-> NoBytes,
   payload                |-> NoBytes]

(* Mutant: the buffer of a SYN-ACK is too small for its header, which is   *)
(* found out after the listener has changed.                               *)
SmallSynAckBuffer(ethernet, ipv4) ==
  LET reply == SynAckToSend(action') IN
  ReplyUnless(TcpWriteRefuses(reply, UDP_HEADER_LEN), "TcpSerialise",
              ethernet, ipv4, [kind |-> "Tcp"], WriteTcp(OwnIp, ipv4.source, reply))

SendSynAck(ethernet, ipv4) ==
  LET reply == SynAckToSend(action') IN
  ReplyUnless(TcpWriteRefuses(reply, TCP_MIN_HEADER_LEN), "TcpSerialise",
              ethernet, ipv4, [kind |-> "Tcp"], WriteTcp(OwnIp, ipv4.source, reply))

(* The listener has changed before its answer is serialised.               *)
ProcessTcpSegment(ethernet, ipv4) ==
  LET invalid == TcpInvalid(ipv4.source, ipv4.destination, ipv4.payload) IN
  IF invalid # None THEN Return(Failed("Tcp", invalid))
  ELSE /\ Listener!ReceiveSegment(ipv4.source, SegmentOf(ParseTcp(ipv4.payload)))
       /\ IF action'.reply
          THEN SendSynAck(ethernet, ipv4)
          ELSE output' = Ignored /\ UNCHANGED next_ipv4_identification
       /\ UNCHANGED arpVars

ProcessIpv4Frame(ethernet) ==
  LET ipv4 == ParseIpv4(ethernet.payload) IN
  IF Ipv4Refuses(ethernet.payload) # None
  THEN Return(Failed("Ipv4", Ipv4Refuses(ethernet.payload)))
  ELSE IF \/ ipv4.destination # OwnIp
          \/ ipv4.more_fragments = 1 \/ ipv4.fragment_offset # 0
  THEN Return(Ignored)
  ELSE CASE ipv4.protocol.kind = "Icmp" -> ProcessIcmpPacket(ethernet, ipv4)
         [] ipv4.protocol.kind = "Udp"  -> ProcessUdpDatagram(ethernet, ipv4)
         [] ipv4.protocol.kind = "Tcp"  -> ProcessTcpSegment(ethernet, ipv4)
         [] OTHER                       -> Return(Ignored)

(* The resolver has seen the packet before its reply is serialised.        *)
ProcessArpFrame(ethernet, now) ==
  LET packet == ParseArp(ethernet.payload)
      reply  == BuildReply(packet, OwnMac, OwnIp)
      refuses == ArpWriteRefuses(ARP_HEADER_LEN)
  IN IF ArpRefuses(ethernet.payload) # None
     THEN Return(Failed("Arp", ArpRefuses(ethernet.payload)))
     ELSE /\ Resolver!Observe([operation  |-> packet.operation.kind,
                               sender_ip  |-> packet.sender_ip,
                               sender_mac |-> packet.sender_mac], now)
          /\ output' =
               IF ~ AsksFor(packet, OwnIp) THEN Ignored
               ELSE IF refuses # None THEN Failed("Serialise", refuses)
               ELSE SealFrame(reply.target_mac, "Arp", WriteArp(reply))
          /\ UNCHANGED <<tcpVars, next_ipv4_identification>>

ProcessFrame(bytes, now) ==
  LET ethernet == ParseEthFrame(bytes)
      kind == ethernet.ether_type.kind
  IN
  /\ received' = bytes.len
  /\ IF EthernetRefuses(bytes) # None
     THEN Return(Failed("Ethernet", EthernetRefuses(bytes)))
     ELSE IF kind = "Ipv4" /\ ethernet.destination_mac = OwnMac
     THEN ProcessIpv4Frame(ethernet)
     ELSE IF kind = "Arp" /\ ethernet.destination_mac \in {OwnMac, Broadcast}
     THEN ProcessArpFrame(ethernet, now)
     ELSE Return(Ignored)

(* process_frame reads the clock itself.                                   *)
Next == \E bytes \in Inputs, now \in clock .. Horizon : ProcessFrame(bytes, now)

Spec == Init /\ [][Next]_wireVars
--------------------------------------------------------------------------------
(* What NetworkInterface knows of a frame: whether each parser accepts it, *)
(* and the fields the stack reads.                                         *)

BodyOf(ipv4) ==
  LET data == ipv4.payload
      udp  == UdpInvalid(ipv4.source, ipv4.destination, data)
      tcp  == TcpInvalid(ipv4.source, ipv4.destination, data)
      Refused == [protocol |-> ipv4.protocol.kind, ok |-> FALSE]
  IN
  CASE ipv4.protocol.kind = "Icmp" ->
         IF IcmpRefuses(data) # None THEN Refused
         ELSE [protocol |-> "Icmp", ok |-> TRUE,
               echo_request |-> ParseIcmp(data).kind = "EchoRequest"]
    [] ipv4.protocol.kind = "Udp" ->
         IF udp # None THEN Refused
         ELSE [protocol |-> "Udp", ok |-> TRUE,
               source_port |-> data.source_port,
               destination_port |-> data.destination_port]
    [] ipv4.protocol.kind = "Tcp" ->
         IF tcp # None THEN Refused
         ELSE [protocol |-> "Tcp", ok |-> TRUE, segment |-> SegmentOf(ParseTcp(data))]
    [] OTHER -> [protocol |-> "Unknown"]

PayloadOf(ethernet) ==
  LET data == ethernet.payload
      arp  == ParseArp(data)
      ipv4 == ParseIpv4(data)
  IN
  CASE ethernet.ether_type.kind = "Arp" ->
         IF ArpRefuses(data) # None THEN [type |-> "Arp", ok |-> FALSE]
         ELSE [type |-> "Arp", ok |-> TRUE, operation |-> arp.operation.kind,
               sender_ip |-> arp.sender_ip, sender_mac |-> arp.sender_mac,
               target_ip |-> arp.target_ip]
    [] ethernet.ether_type.kind = "Ipv4" ->
         IF Ipv4Refuses(data) # None THEN [type |-> "Ipv4", ok |-> FALSE]
         ELSE [type |-> "Ipv4", ok |-> TRUE, destination |-> ipv4.destination,
               fragment |-> ipv4.more_fragments = 1 \/ ipv4.fragment_offset # 0,
               source |-> ipv4.source, body |-> BodyOf(ipv4)]
    [] OTHER -> [type |-> "Other"]

Abstraction(bytes) ==
  LET ethernet == ParseEthFrame(bytes) IN
  [destination_mac |-> ethernet.destination_mac,
   source_mac      |-> ethernet.source_mac,
   payload         |-> IF EthernetRefuses(bytes) # None
                       THEN [type |-> "Truncated"]
                       ELSE PayloadOf(ethernet)]

AbstractResult ==
  CASE output.kind = "Failed" -> [kind |-> "Malformed"]
    [] output.kind = "Reply"  -> [kind |-> "Reply", frame |-> Abstraction(output.frame)]
    [] OTHER -> output

AbstractInputs == {Abstraction(bytes) : bytes \in Inputs}

Interface == INSTANCE NetworkInterface
  WITH Frames   <- AbstractInputs,
       Segments <- {},
       result   <- AbstractResult

(* On every frame the bytes lead to what NetworkInterface does; above all  *)
(* the bytes of a reply parse as the reply that was meant, under checksums *)
(* that its receiver accepts.                                              *)
ImplementsInterface == Interface!Spec

(* Only the frame can be at fault: no buffer made for a reply is too small *)
(* and no reply too long, whatever the frame carries.                      *)
SerialisingNeverFails ==
  output.kind = "Failed" =>
    output.class \in ParseErrors /\ output.error \in Errors[output.class]

(* An error leaves the stack as it was.  The resolver and the listener     *)
(* change before their reply is serialised, and serialising may return an  *)
(* error as far as the types go; it never does.                            *)
ErrorsChangeNothing == [][output'.kind = "Failed" => UNCHANGED stackVars]_wireVars

(* No reply is longer than the frame it answers, so that what could be     *)
(* received can be sent, and no exchange grows.                            *)
RepliesFit == output.kind = "Reply" => output.frame.len <= received
================================================================================
