-------------------------- MODULE WireInterfaceProofs --------------------------
(***************************************************************************)
(* Whatever frames there are: a reply can always be serialised and is no   *)
(* longer than the frame it answers, an error leaves the stack as it was,  *)
(* and every call does what NetworkInterface says.  A call decides most of *)
(* this by itself, so that the first argument is one about the lengths of  *)
(* a single frame and its reply, layer by layer.  The second goes the same *)
(* way down, and reads the reply back through the lemmas of CodecLemmas;   *)
(* the numbers in it come from the state, whence the invariant Ranges.     *)
(***************************************************************************)
EXTENDS WireInterface, CodecLemmas, TLAPS

(* What a call has to return for a frame of that length.                   *)
Outcome(length) ==
  /\ output'.kind = "Failed" =>
       /\ output'.class \in ParseErrors
       /\ output'.error \in Errors[output'.class]
       /\ UNCHANGED stackVars
  /\ output'.kind = "Reply" => output'.frame.len <= length

(* What the handlers may rely on: a packet that the parser accepted, from  *)
(* a slice of that length.                                                 *)
IsAccepted(ipv4, length) ==
  /\ ipv4.dscp \in Nat /\ ipv4.dscp <= 63
  /\ ipv4.ecn \in Nat /\ ipv4.ecn <= 3
  /\ ipv4.payload.len \in Nat
  /\ ipv4.payload.len <= 65515
  /\ ipv4.payload.len + 20 <= length
  /\ ipv4.source \in Nat
  /\ ipv4.protocol.kind = "Icmp" => IsIcmpMessage(ipv4.payload)
  /\ ipv4.protocol.kind = "Udp"  => IsUdpDatagram(ipv4.payload)
  /\ ipv4.protocol.kind = "Tcp"  => IsTcpSegment(ipv4.payload)
--------------------------------------------------------------------------------
(* Calls that end early.                                                   *)

LEMMA ReturnedError ==
  ASSUME NEW class \in ParseErrors, NEW error \in Errors[class], NEW length,
         Return(Failed(class, error))
  PROVE  Outcome(length)
BY DEF Return, Failed, Outcome

LEMMA ReturnedIgnored ==
  ASSUME NEW length, output' = Ignored
  PROVE  Outcome(length)
BY DEF Ignored, Outcome
--------------------------------------------------------------------------------
(* Replies, from the outside in.                                           *)

(* SealFrame makes room for exactly the frame it writes.                   *)
LEMMA SealedFrame ==
  ASSUME NEW mac, NEW kind, NEW bytes, bytes.len \in Nat
  PROVE  /\ SealFrame(mac, kind, bytes).kind = "Reply"
         /\ SealFrame(mac, kind, bytes).frame.len = 14 + bytes.len
<1> DEFINE frame == [destination_mac |-> mac, source_mac |-> OwnMac,
                     ether_type |-> [kind |-> kind], payload |-> bytes]
<1>1. EthernetRequired(frame) = 14 + bytes.len
  BY DEF EthernetRequired, ETHERNET_HEADER_LEN
<1>2. EthernetWriteRefuses(frame, ETHERNET_HEADER_LEN + bytes.len) = None
  BY <1>1 DEF EthernetWriteRefuses, ETHERNET_HEADER_LEN
<1>3. WriteEthernet(frame).len = 14 + bytes.len
  BY <1>1 DEF WriteEthernet
<1>4. SealFrame(mac, kind, bytes) = Reply(WriteEthernet(frame))
  BY <1>2 DEF SealFrame
<1> QED
  BY <1>3, <1>4 DEF Reply

(* An IPv4 packet without options is 20 bytes longer than its payload.     *)
LEMMA WrittenIpv4 ==
  ASSUME NEW request, NEW protocol, NEW payload,
         request.dscp \in Nat, request.dscp <= 63,
         request.ecn \in Nat, request.ecn <= 3,
         payload.len \in Nat, payload.len <= 65515
  PROVE  /\ Ipv4WriteRefuses(Ipv4ReplyTo(request, protocol, payload),
                             IPV4_MIN_HEADER_LEN + payload.len) = None
         /\ WriteIpv4(Ipv4ReplyTo(request, protocol, payload)).len = 20 + payload.len
<1> DEFINE packet == Ipv4ReplyTo(request, protocol, payload)
<1>1. /\ packet.options.len = 0
      /\ packet.dscp = request.dscp
      /\ packet.ecn = request.ecn
      /\ packet.fragment_offset = 0
      /\ packet.payload = payload
  BY DEF Ipv4ReplyTo, NoBytes, Bytes
<1> HIDE DEF packet
<1>2. Ipv4HeaderRequired(packet) = 20
  BY <1>1 DEF Ipv4HeaderRequired, IPV4_MIN_HEADER_LEN
<1>3. Ipv4Required(packet) = 20 + payload.len
  BY <1>1, <1>2 DEF Ipv4Required
<1>4. Ipv4WriteRefuses(packet, IPV4_MIN_HEADER_LEN + payload.len) = None
  BY <1>1, <1>2, <1>3 DEF Ipv4WriteRefuses, IPV4_MIN_HEADER_LEN, Ones
<1>5. WriteIpv4(packet).len = 20 + payload.len
  BY <1>3 DEF WriteIpv4, Ipv4Unsealed
<1> QED
  BY <1>4, <1>5 DEF packet

LEMMA BuiltIpv4Reply ==
  ASSUME NEW ethernet, NEW request, NEW protocol, NEW payload,
         request.dscp \in Nat, request.dscp <= 63,
         request.ecn \in Nat, request.ecn <= 3,
         payload.len \in Nat, payload.len <= 65515,
         BuildIpv4Reply(ethernet, request, protocol, payload)
  PROVE  /\ output'.kind = "Reply"
         /\ output'.frame.len = 34 + payload.len
<1> DEFINE packet == Ipv4ReplyTo(request, protocol, payload)
           bytes  == WriteIpv4(packet)
<1>1. /\ Ipv4WriteRefuses(packet, IPV4_MIN_HEADER_LEN + payload.len) = None
      /\ bytes.len = 20 + payload.len
  BY WrittenIpv4
<1>2. output' = SealFrame(ethernet.source_mac, "Ipv4", bytes)
  BY <1>1 DEF BuildIpv4Reply
<1> HIDE DEF bytes
<1>3. bytes.len \in Nat
  BY <1>1
<1>4. /\ SealFrame(ethernet.source_mac, "Ipv4", bytes).kind = "Reply"
      /\ SealFrame(ethernet.source_mac, "Ipv4", bytes).frame.len = 14 + bytes.len
  BY <1>3, SealedFrame
<1> QED
  BY <1>1, <1>2, <1>4

(* A handler's reply, whose message is no longer than the request's.       *)
LEMMA AnsweredInKind ==
  ASSUME NEW ethernet, NEW ipv4, NEW length \in Nat, IsAccepted(ipv4, length),
         NEW refuses, refuses = None, NEW class, NEW protocol, NEW bytes,
         bytes.len \in Nat, bytes.len <= ipv4.payload.len,
         ReplyUnless(refuses, class, ethernet, ipv4, protocol, bytes)
  PROVE  Outcome(14 + length)
<1>1. BuildIpv4Reply(ethernet, ipv4, protocol, bytes)
  BY DEF ReplyUnless
<1>2. bytes.len <= 65515
  BY DEF IsAccepted
<1>3. /\ output'.kind = "Reply"
      /\ output'.frame.len = 34 + bytes.len
  BY <1>1, <1>2, BuiltIpv4Reply DEF IsAccepted
<1>4. 34 + bytes.len <= 14 + length
  BY DEF IsAccepted
<1> QED
  BY <1>3, <1>4 DEF Outcome
--------------------------------------------------------------------------------
(* The handlers.                                                           *)

LEMMA IcmpOutcome ==
  ASSUME NEW ethernet, NEW ipv4, NEW length \in Nat, IsAccepted(ipv4, length),
         ProcessIcmpPacket(ethernet, ipv4)
  PROVE  Outcome(14 + length)
<1> DEFINE data    == ipv4.payload
           request == ParseIcmp(data)
           reply   == BuildEchoReply(request)
<1>1. CASE IcmpRefuses(data) # None
  <2>1. IcmpRefuses(data) \in Errors["Icmp"]
    BY <1>1 DEF IcmpRefuses, Errors, IcmpParseErrors, None
  <2>2. Return(Failed("Icmp", IcmpRefuses(data)))
    BY <1>1 DEF ProcessIcmpPacket
  <2>3. "Icmp" \in ParseErrors
    BY DEF ParseErrors
  <2> QED
    BY <2>1, <2>2, <2>3, ReturnedError
<1>2. CASE IcmpRefuses(data) = None /\ request.kind # "EchoRequest"
  <2>1. output' = Ignored
    BY <1>2 DEF ProcessIcmpPacket, Return
  <2> QED
    BY <2>1, ReturnedIgnored
<1>3. CASE IcmpRefuses(data) = None /\ request.kind = "EchoRequest"
  <2>1. IsEcho(data.message_type)
    BY <1>3 DEF ParseIcmp
  <2>2. data.len \in Nat /\ data.len >= 8
    BY <1>3, <2>1 DEF IcmpRefuses, IsAccepted, ICMP_HEADER_LEN, ICMP_ECHO_HEADER_LEN, None
  <2>3. /\ reply.kind = "EchoReply"
        /\ reply.payload.len = data.len - 8
    BY <2>1, <2>2 DEF ParseIcmp, BuildEchoReply, Bytes, ICMP_ECHO_HEADER_LEN
  <2> HIDE DEF reply
  <2>4. IcmpRequired(reply) = data.len
    BY <2>2, <2>3 DEF IcmpRequired, ICMP_ECHO_HEADER_LEN
  <2>5. IcmpWriteRefuses(reply, data.len) = None
    BY <2>2, <2>4 DEF IcmpWriteRefuses
  <2>6. WriteIcmp(reply).len = data.len
    BY <2>3, <2>4 DEF WriteIcmp, IcmpUnsealed
  <2>7. ReplyUnless(IcmpWriteRefuses(reply, data.len), "Serialise",
                    ethernet, ipv4, [kind |-> "Icmp"], WriteIcmp(reply))
    BY <1>3 DEF ProcessIcmpPacket, reply
  <2> DEFINE bytes == WriteIcmp(reply)
  <2>8. bytes.len \in Nat /\ bytes.len <= ipv4.payload.len
    BY <2>2, <2>6
  <2> HIDE DEF bytes
  <2>9. ReplyUnless(None, "Serialise", ethernet, ipv4, [kind |-> "Icmp"], bytes)
    BY <2>5, <2>7 DEF bytes
  <2> QED
    BY <2>8, <2>9, AnsweredInKind
<1> QED
  BY <1>1, <1>2, <1>3

LEMMA UdpOutcome ==
  ASSUME NEW ethernet, NEW ipv4, NEW length \in Nat, IsAccepted(ipv4, length),
         ipv4.protocol.kind = "Udp", ProcessUdpDatagram(ethernet, ipv4)
  PROVE  Outcome(14 + length)
<1> DEFINE data    == ipv4.payload
           invalid == UdpInvalid(ipv4.source, ipv4.destination, data)
           request == ParseUdp(data)
           reply   == [source_port      |-> EchoPort,
                       destination_port |-> request.source_port,
                       payload          |-> request.payload]
<1>1. CASE invalid # None
  <2>1. invalid \in Errors["Udp"]
    BY <1>1 DEF UdpInvalid, UdpRefuses, Errors, UdpParseErrors, None
  <2>2. Return(Failed("Udp", invalid))
    BY <1>1 DEF ProcessUdpDatagram
  <2>3. "Udp" \in ParseErrors
    BY DEF ParseErrors
  <2> QED
    BY <2>1, <2>2, <2>3, ReturnedError
<1>2. CASE /\ invalid = None
           /\ request.destination_port # EchoPort \/ request.source_port = 0
  <2>1. output' = Ignored
    BY <1>2 DEF ProcessUdpDatagram, Return
  <2> QED
    BY <2>1, ReturnedIgnored
<1>3. CASE /\ invalid = None
           /\ ~ (request.destination_port # EchoPort \/ request.source_port = 0)
  <2>1. /\ data.length \in Nat /\ data.length <= 65535
        /\ data.len \in Nat
    <3>1. data.length \in U16 /\ data.len \in Nat
      BY DEF IsAccepted, IsUdpDatagram
    <3> QED
      BY <3>1, U16Value
  <2>2. UdpRefuses(data) = None
    BY <1>3 DEF UdpInvalid
  <2>3. data.length >= 8 /\ data.length <= data.len
    BY <2>1, <2>2 DEF UdpRefuses, UDP_HEADER_LEN, None
  <2>4. reply.payload.len = data.length - 8
    BY <2>1 DEF ParseUdp, UdpPayload, Bytes, UDP_HEADER_LEN
  <2>5. UDP_HEADER_LEN + request.payload.len = data.length
    BY <2>1, <2>4 DEF UDP_HEADER_LEN
  <2>6. ReplyUnless(UdpWriteRefuses(reply, UDP_HEADER_LEN + request.payload.len),
                    "UdpSerialise", ethernet, ipv4, [kind |-> "Udp"],
                    WriteUdp(OwnIp, ipv4.source, reply))
    BY <1>3 DEF ProcessUdpDatagram
  <2> HIDE DEF reply
  <2>7. UdpRequired(reply) = data.length
    BY <2>1, <2>4 DEF UdpRequired, UDP_HEADER_LEN
  <2>8. UdpWriteRefuses(reply, data.length) = None
    BY <2>1, <2>7 DEF UdpWriteRefuses, Ones
  <2> DEFINE bytes == WriteUdp(OwnIp, ipv4.source, reply)
  <2>9. bytes.len = data.length
    BY <2>7 DEF WriteUdp, UdpUnsealed
  <2>10. bytes.len \in Nat /\ bytes.len <= ipv4.payload.len
    BY <2>1, <2>3, <2>9
  <2>11. ReplyUnless(None, "UdpSerialise", ethernet, ipv4, [kind |-> "Udp"], bytes)
    BY <2>5, <2>6, <2>8
  <2> HIDE DEF bytes
  <2> QED
    BY <2>10, <2>11, AnsweredInKind
<1> QED
  BY <1>1, <1>2, <1>3

(* A SYN-ACK is a bare header, and the buffer made for it holds one.       *)
LEMMA WrittenSynAck ==
  ASSUME NEW syn_ack, NEW source, NEW destination
  PROVE  /\ TcpWriteRefuses(SynAckToSend(syn_ack), TCP_MIN_HEADER_LEN) = None
         /\ WriteTcp(source, destination, SynAckToSend(syn_ack)).len = 20
<1> DEFINE reply == SynAckToSend(syn_ack)
<1>1. reply.options.len = 0 /\ reply.payload.len = 0
  BY DEF SynAckToSend, NoBytes, Bytes
<1> HIDE DEF reply
<1>2. TcpHeaderRequired(reply) = 20 /\ TcpRequired(reply) = 20
  BY <1>1 DEF TcpHeaderRequired, TcpRequired, TCP_MIN_HEADER_LEN
<1>3. TcpWriteRefuses(reply, TCP_MIN_HEADER_LEN) = None
  BY <1>1, <1>2 DEF TcpWriteRefuses, TCP_MIN_HEADER_LEN, TCP_MAX_OPTION_LEN, Ones
<1>4. WriteTcp(source, destination, reply).len = 20
  BY <1>2 DEF WriteTcp, TcpUnsealed
<1> QED
  BY <1>3, <1>4 DEF reply

LEMMA TcpOutcome ==
  ASSUME NEW ethernet, NEW ipv4, NEW length \in Nat, IsAccepted(ipv4, length),
         ProcessTcpSegment(ethernet, ipv4)
  PROVE  Outcome(14 + length)
<1> DEFINE data    == ipv4.payload
           invalid == TcpInvalid(ipv4.source, ipv4.destination, data)
<1>1. CASE invalid # None
  <2>1. invalid \in Errors["Tcp"]
    BY <1>1 DEF TcpInvalid, TcpRefuses, Errors, TcpParseErrors, None
  <2>2. Return(Failed("Tcp", invalid))
    BY <1>1 DEF ProcessTcpSegment
  <2>3. "Tcp" \in ParseErrors
    BY DEF ParseErrors
  <2> QED
    BY <2>1, <2>2, <2>3, ReturnedError
<1>2. CASE invalid = None
  <2>1. data.len \in Nat /\ data.len >= 20
    BY <1>2 DEF IsAccepted, TcpInvalid, TcpRefuses, TCP_MIN_HEADER_LEN, None
  <2>2. SendSynAck(ethernet, ipv4) \/ output' = Ignored
    BY <1>2 DEF ProcessTcpSegment
  <2>3. CASE SendSynAck(ethernet, ipv4)
    <3> DEFINE reply == SynAckToSend(action')
               bytes == WriteTcp(OwnIp, ipv4.source, reply)
    <3>1. /\ TcpWriteRefuses(reply, TCP_MIN_HEADER_LEN) = None
          /\ bytes.len = 20
      BY WrittenSynAck
    <3>2. ReplyUnless(None, "TcpSerialise", ethernet, ipv4, [kind |-> "Tcp"], bytes)
      BY <2>3, <3>1 DEF SendSynAck
    <3> HIDE DEF bytes
    <3>3. bytes.len \in Nat /\ bytes.len <= ipv4.payload.len
      BY <2>1, <3>1
    <3> QED
      BY <3>2, <3>3, AnsweredInKind
  <2> QED
    BY <2>2, <2>3, ReturnedIgnored
<1> QED
  BY <1>1, <1>2
--------------------------------------------------------------------------------
(* From the frame down to the handlers.                                    *)

(* A slice has the fields of the message.                                  *)
LEMMA SlicedMessages ==
  ASSUME NEW message, NEW n
  PROVE  /\ IsIcmpMessage(message) => IsIcmpMessage(Slice(message, n))
         /\ IsUdpDatagram(message) => IsUdpDatagram(Slice(message, n))
         /\ IsTcpSegment(message)  => IsTcpSegment(Slice(message, n))
<1>1. DOMAIN Slice(message, n) = DOMAIN message
  BY DEF Slice
<1>2. \A field \in DOMAIN message :
        field # "len" => Slice(message, n)[field] = message[field]
  BY DEF Slice
<1>3. IsIcmpMessage(message) => IsIcmpMessage(Slice(message, n))
  BY <1>1, <1>2 DEF IsIcmpMessage
<1>4. IsUdpDatagram(message) => IsUdpDatagram(Slice(message, n))
  BY <1>1, <1>2 DEF IsUdpDatagram
<1>5. IsTcpSegment(message) => IsTcpSegment(Slice(message, n))
  BY <1>1, <1>2 DEF IsTcpSegment
<1> QED
  BY <1>3, <1>4, <1>5

(* What the parser accepts, from the first n bytes of a packet.            *)
LEMMA AcceptedPacket ==
  ASSUME NEW packet, IsIpv4Packet(packet), NEW n \in Nat,
         Ipv4Refuses(Slice(packet, n)) = None
  PROVE  IsAccepted(ParseIpv4(Slice(packet, n)), n)
<1> DEFINE cut    == Slice(packet, n)
           ipv4   == ParseIpv4(cut)
           header == HeaderLength(cut)
<1>1. /\ cut.len = n
      /\ cut.version_and_ihl = packet.version_and_ihl
      /\ cut.dscp_and_ecn = packet.dscp_and_ecn
      /\ cut.total_length = packet.total_length
      /\ cut.protocol = packet.protocol
      /\ cut.source = packet.source
      /\ cut.body = packet.body
  BY DEF Slice, IsIpv4Packet
<1>2. /\ packet.version_and_ihl \in Nat
      /\ packet.dscp_and_ecn \in Nat /\ packet.dscp_and_ecn <= 255
  BY U8Bound DEF IsIpv4Packet
<1>3. packet.total_length \in Nat /\ packet.total_length <= 65535
  <2>1. packet.total_length \in U16
    BY DEF IsIpv4Packet
  <2> QED
    BY <2>1, U16Value
<1> HIDE DEF cut
<1>4. /\ cut.version_and_ihl % 16 >= 5
      /\ cut.total_length >= header
      /\ cut.len >= cut.total_length
  BY <1>1, <1>2, <1>3 DEF Ipv4Refuses, Truncated, HeaderLength, None, cut
<1>5. header \in Nat /\ header >= 20
  BY <1>1, <1>2, <1>4 DEF HeaderLength
<1>6. /\ ipv4.dscp = cut.dscp_and_ecn \div 4
      /\ ipv4.ecn = cut.dscp_and_ecn % 4
      /\ ipv4.protocol = Protocol(cut.protocol)
      /\ ipv4.source = cut.source
      /\ ipv4.payload = Slice(packet.body, cut.total_length - header)
  BY <1>1 DEF ParseIpv4, Payload
<1>7. ipv4.payload.len = cut.total_length - header
  BY <1>6 DEF Slice, IsIpv4Packet
<1>8. /\ ipv4.source \in Nat
      /\ ipv4.protocol.kind = "Icmp" => IsIcmpMessage(ipv4.payload)
      /\ ipv4.protocol.kind = "Udp"  => IsUdpDatagram(ipv4.payload)
      /\ ipv4.protocol.kind = "Tcp"  => IsTcpSegment(ipv4.payload)
  <2>1. /\ ipv4.protocol.kind = "Icmp" => packet.protocol = 1
        /\ ipv4.protocol.kind = "Udp"  => packet.protocol = 17
        /\ ipv4.protocol.kind = "Tcp"  => packet.protocol = 6
    BY <1>1, <1>6 DEF Protocol
  <2> QED
    BY <1>1, <1>6, <2>1, SlicedMessages DEF IsIpv4Packet
<1> HIDE DEF ipv4, header
<1>9. /\ ipv4.dscp \in Nat /\ ipv4.dscp <= 63
      /\ ipv4.ecn \in Nat /\ ipv4.ecn <= 3
  BY <1>1, <1>2, <1>6
<1>10. /\ ipv4.payload.len \in Nat
       /\ ipv4.payload.len <= 65515
       /\ ipv4.payload.len + 20 <= n
  BY <1>1, <1>3, <1>4, <1>5, <1>7
<1> QED
  BY <1>8, <1>9, <1>10 DEF IsAccepted, cut, ipv4

LEMMA Ipv4Outcome ==
  ASSUME NEW ethernet, NEW packet, IsIpv4Packet(packet), NEW n \in Nat,
         ethernet.payload = Slice(packet, n), ProcessIpv4Frame(ethernet)
  PROVE  Outcome(14 + n)
<1> DEFINE data == ethernet.payload
           ipv4 == ParseIpv4(data)
<1>1. CASE Ipv4Refuses(data) # None
  <2>1. Ipv4Refuses(data) \in Errors["Ipv4"]
    BY <1>1 DEF Ipv4Refuses, Errors, Ipv4ParseErrors, None
  <2>2. Return(Failed("Ipv4", Ipv4Refuses(data)))
    BY <1>1 DEF ProcessIpv4Frame
  <2>3. "Ipv4" \in ParseErrors
    BY DEF ParseErrors
  <2> QED
    BY <2>1, <2>2, <2>3, ReturnedError
<1>2. CASE Ipv4Refuses(data) = None
  <2>1. IsAccepted(ipv4, n)
    BY <1>2, AcceptedPacket
  <2>2. \/ output' = Ignored
        \/ ProcessIcmpPacket(ethernet, ipv4)
        \/ ipv4.protocol.kind = "Udp" /\ ProcessUdpDatagram(ethernet, ipv4)
        \/ ProcessTcpSegment(ethernet, ipv4)
    BY <1>2 DEF ProcessIpv4Frame, Return
  <2> HIDE DEF ipv4
  <2> QED
    BY <2>1, <2>2, ReturnedIgnored, IcmpOutcome, UdpOutcome, TcpOutcome
<1> QED
  BY <1>1, <1>2

(* An ARP packet is answered by one of its own length.                     *)
LEMMA ArpOutcome ==
  ASSUME NEW ethernet, NEW n \in Nat, ethernet.payload.len = n, NEW now,
         ProcessArpFrame(ethernet, now)
  PROVE  Outcome(14 + n)
<1> DEFINE data  == ethernet.payload
           reply == BuildReply(ParseArp(data), OwnMac, OwnIp)
<1>1. CASE ArpRefuses(data) # None
  <2>1. ArpRefuses(data) \in Errors["Arp"]
    BY <1>1 DEF ArpRefuses, Errors, ArpParseErrors, None
  <2>2. Return(Failed("Arp", ArpRefuses(data)))
    BY <1>1 DEF ProcessArpFrame
  <2>3. "Arp" \in ParseErrors
    BY DEF ParseErrors
  <2> QED
    BY <2>1, <2>2, <2>3, ReturnedError
<1>2. CASE ArpRefuses(data) = None
  <2>1. n >= 28
    BY <1>2 DEF ArpRefuses, ARP_HEADER_LEN, None
  <2>2. ArpWriteRefuses(ARP_HEADER_LEN) = None
    BY DEF ArpWriteRefuses, ARP_HEADER_LEN
  <2> DEFINE bytes == WriteArp(reply)
             to    == reply.target_mac
  <2>3. bytes.len = 28
    BY DEF WriteArp, ARP_HEADER_LEN
  <2>4. output' = Ignored \/ output' = SealFrame(to, "Arp", bytes)
    BY <1>2, <2>2 DEF ProcessArpFrame
  <2> HIDE DEF bytes, to
  <2>5. /\ SealFrame(to, "Arp", bytes).kind = "Reply"
        /\ SealFrame(to, "Arp", bytes).frame.len = 42
    BY <2>3, SealedFrame
  <2>6. CASE output' = SealFrame(to, "Arp", bytes)
    BY <2>1, <2>5, <2>6 DEF Outcome
  <2> QED
    BY <2>4, <2>6, ReturnedIgnored
<1> QED
  BY <1>1, <1>2

LEMMA FrameOutcome ==
  ASSUME NEW bytes \in Inputs, NEW now, ProcessFrame(bytes, now)
  PROVE  received' = bytes.len /\ Outcome(bytes.len)
<1> DEFINE ethernet == ParseEthFrame(bytes)
           n        == bytes.len - 14
<1>1. received' = bytes.len
  BY DEF ProcessFrame
<1>2. CASE EthernetRefuses(bytes) # None
  <2>1. EthernetRefuses(bytes) \in Errors["Ethernet"]
    BY <1>2 DEF EthernetRefuses, Errors, EthernetParseErrors, None
  <2>2. Return(Failed("Ethernet", EthernetRefuses(bytes)))
    BY <1>2 DEF ProcessFrame
  <2>3. "Ethernet" \in ParseErrors
    BY DEF ParseErrors
  <2> QED
    BY <1>1, <2>1, <2>2, <2>3, ReturnedError
<1>3. CASE EthernetRefuses(bytes) = None
  <2>1. /\ bytes.len \in Nat
        /\ "len" \in DOMAIN bytes.body
        /\ bytes.ether_type = 2048 => IsIpv4Packet(bytes.body)
    BY WireAssumption
  <2>2. n \in Nat /\ bytes.len = 14 + n
    BY <1>3, <2>1 DEF EthernetRefuses, ETHERNET_HEADER_LEN, None
  <2>3. ethernet.payload = Slice(bytes.body, n)
    BY DEF ParseEthFrame, ETHERNET_HEADER_LEN
  <2>4. ethernet.payload.len = n
    BY <2>1, <2>3 DEF Slice
  <2>5. ethernet.ether_type.kind = "Ipv4" => bytes.ether_type = 2048
    BY DEF ParseEthFrame, FromU16
  <2>6. \/ output' = Ignored
        \/ ethernet.ether_type.kind = "Ipv4" /\ ProcessIpv4Frame(ethernet)
        \/ ProcessArpFrame(ethernet, now)
    BY <1>3 DEF ProcessFrame, Return
  <2> DEFINE packet == bytes.body
  <2> HIDE DEF ethernet, n, packet
  <2>7. CASE output' = Ignored
    BY <1>1, <2>7, ReturnedIgnored
  <2>8. CASE ethernet.ether_type.kind = "Ipv4" /\ ProcessIpv4Frame(ethernet)
    <3>1. IsIpv4Packet(packet) /\ ethernet.payload = Slice(packet, n)
      BY <2>1, <2>3, <2>5, <2>8 DEF packet
    <3>2. Outcome(14 + n)
      BY <2>2, <2>8, <3>1, Ipv4Outcome
    <3> QED
      BY <1>1, <2>2, <3>2
  <2>9. CASE ProcessArpFrame(ethernet, now)
    <3>1. Outcome(14 + n)
      BY <2>2, <2>4, <2>9, ArpOutcome
    <3> QED
      BY <1>1, <2>2, <3>1
  <2> QED
    BY <2>6, <2>7, <2>8, <2>9
<1> QED
  BY <1>2, <1>3
--------------------------------------------------------------------------------
(* No call ends in an error of the stack's own, nor in too long a reply.   *)
LEMMA InitSound == Init => SerialisingNeverFails /\ RepliesFit
BY DEF Init, NotCalled, SerialisingNeverFails, RepliesFit

LEMMA NextSound ==
  Next => /\ SerialisingNeverFails' /\ RepliesFit'
          /\ output'.kind = "Failed" => UNCHANGED stackVars
<1> SUFFICES ASSUME NEW bytes \in Inputs, NEW now \in clock .. Horizon,
                    ProcessFrame(bytes, now)
             PROVE  /\ SerialisingNeverFails' /\ RepliesFit'
                    /\ output'.kind = "Failed" => UNCHANGED stackVars
  BY DEF Next
<1>1. received' = bytes.len /\ Outcome(bytes.len)
  BY FrameOutcome
<1> QED
  BY <1>1 DEF Outcome, SerialisingNeverFails, RepliesFit

LEMMA StutterSound ==
  SerialisingNeverFails /\ RepliesFit /\ UNCHANGED wireVars
    => SerialisingNeverFails' /\ RepliesFit'
BY DEF wireVars, SerialisingNeverFails, RepliesFit

LEMMA SoundReplies == Spec => [](SerialisingNeverFails /\ RepliesFit)
BY InitSound, NextSound, StutterSound, PTL DEF Spec

(* Whatever frames arrive, no buffer made for a reply is too small and no  *)
(* reply too long: every error is one that a parser found in the frame.    *)
THEOREM RepliesAlwaysSerialise == Spec => []SerialisingNeverFails
BY SoundReplies, PTL

(* No reply is longer than the frame it answers.                           *)
THEOREM RepliesAlwaysFit == Spec => []RepliesFit
BY SoundReplies, PTL

(* Whatever the resolver and the listener do before a reply is serialised, *)
(* a call that returns an error has not changed the stack.                 *)
THEOREM ErrorsNeverChangeTheStack == Spec => ErrorsChangeNothing
BY NextSound, PTL DEF Spec, ErrorsChangeNothing
--------------------------------------------------------------------------------
(* The calls implement NetworkInterface: what it knows of the bytes decides *)
(* as the bytes do, and the bytes of a reply are read as what it replies.   *)

(* The parts of NetworkInterface are the parts that are used here.          *)
LEMMA SameObserve ==
  ASSUME NEW packet, NEW instant, Resolver!Observe(packet, instant)
  PROVE  Interface!Resolver!Observe(packet, instant)
BY DEF Resolver!Observe, Interface!Resolver!Observe,
       Resolver!Without, Interface!Resolver!Without,
       Resolver!NoOutcome, Interface!Resolver!NoOutcome,
       Resolver!LearnFromPacket, Interface!Resolver!LearnFromPacket,
       Resolver!LearnsFrom, Interface!Resolver!LearnsFrom,
       Resolver!Learned, Interface!Resolver!Learned,
       Resolver!Unexpired, Interface!Resolver!Unexpired,
       Resolver!Age, Interface!Resolver!Age,
       Resolver!WithRoom, Interface!Resolver!WithRoom,
       Resolver!Oldest, Interface!Resolver!Oldest,
       Resolver!Put, Interface!Resolver!Put,
       Resolver!NoLookup, Interface!Resolver!NoLookup,
       Resolver!LookedUp, Interface!Resolver!LookedUp,
       Resolver!LookupMac, Interface!Resolver!LookupMac,
       Resolver!Restrict, Interface!Resolver!Restrict,
       Resolver!Cardinality, Interface!Resolver!Cardinality

LEMMA SameReceiveSegment ==
  ASSUME NEW ip, NEW segment, Listener!ReceiveSegment(ip, segment)
  PROVE  Interface!Listener!ReceiveSegment(ip, segment)
BY DEF Listener!ReceiveSegment, Interface!Listener!ReceiveSegment,
       Listener!Addressed, Interface!Listener!Addressed,
       Listener!KeyOf, Interface!Listener!KeyOf,
       Listener!OpenConnection, Interface!Listener!OpenConnection,
       Listener!OpensConnection, Interface!Listener!OpensConnection,
       Listener!AcceptsInitialSyn, Interface!Listener!AcceptsInitialSyn,
       Listener!NewConnection, Interface!Listener!NewConnection,
       Listener!WrappingSucc, Interface!Listener!WrappingSucc,
       Listener!SendSynAck, Interface!Listener!SendSynAck,
       Listener!ResendSynAck, Interface!Listener!ResendSynAck,
       Listener!RepeatsSyn, Interface!Listener!RepeatsSyn,
       Listener!CompleteHandshake, Interface!Listener!CompleteHandshake,
       Listener!AcknowledgesSynAck, Interface!Listener!AcknowledgesSynAck,
       Listener!AcceptsFinalAck, Interface!Listener!AcceptsFinalAck,
       Listener!Completed, Interface!Listener!Completed,
       Listener!IgnoreSegment, Interface!Listener!IgnoreSegment,
       Listener!NoReply, Interface!Listener!NoReply,
       Listener!Cardinality, Interface!Listener!Cardinality

LEMMA InitMaps == Init => Interface!Init
<1> SUFFICES ASSUME Init PROVE Interface!Init
  OBVIOUS
<1>1. Resolver!Init => Interface!Resolver!Init
  BY DEF Resolver!Init, Interface!Resolver!Init, Resolver!CacheInit,
         Interface!Resolver!CacheInit, Resolver!NoLookup, Interface!Resolver!NoLookup,
         Resolver!NoOutcome, Interface!Resolver!NoOutcome
<1>2. Listener!Init => Interface!Listener!Init
  BY DEF Listener!Init, Interface!Listener!Init, Listener!NoReply,
         Interface!Listener!NoReply
<1>3. AbstractResult = Interface!NotCalled
  BY DEF Init, AbstractResult, NotCalled, Interface!NotCalled
<1> QED
  BY <1>1, <1>2, <1>3 DEF Init, Interface!Init
--------------------------------------------------------------------------------
(* What the numbers in a reply rest on: the identification fits in 16 bits, *)
(* and the table holds numbers.                                             *)
TableInRange ==
  \A key \in DOMAIN connections :
    /\ {"initial_send_sequence", "receive_next"} \subseteq DOMAIN connections[key]
    /\ connections[key].initial_send_sequence \in Nat
    /\ connections[key].receive_next \in Nat

Ranges ==
  /\ next_ipv4_identification \in Nat /\ next_ipv4_identification < IdMod
  /\ next_initial_sequence \in Nat
  /\ TableInRange

(* What the table holds, and what the listener answers with.                *)
LEMMA AnswerRanges ==
  ASSUME Ranges, NEW ip, NEW segment, segment.sequence_number \in Nat,
         Listener!ReceiveSegment(ip, segment)
  PROVE  /\ next_initial_sequence' \in Nat
         /\ TableInRange'
         /\ action'.reply =>
              /\ action'.key.remote_port = segment.source_port
              /\ action'.sequence_number \in Nat
              /\ action'.acknowledgement_number \in Nat
<1> DEFINE key == Listener!KeyOf(ip, segment)
           new == Listener!NewConnection(segment)
<1>0. \A n \in Nat : Listener!WrappingSucc(n) \in Nat
  BY DEF Listener!WrappingSucc
<1>1. key.remote_port = segment.source_port
  BY DEF Listener!KeyOf
<1>2. /\ {"initial_send_sequence", "receive_next"} \subseteq DOMAIN new
      /\ new.initial_send_sequence \in Nat /\ new.receive_next \in Nat
  BY <1>0 DEF Listener!NewConnection, Ranges, TableInRange
<1> HIDE DEF key, new
<1>3. CASE Listener!OpenConnection(key, segment)
  <2>1. /\ connections' = [k \in DOMAIN connections \cup {key} |->
                             IF k = key THEN new ELSE connections[k]]
        /\ next_initial_sequence' = Listener!WrappingSucc(next_initial_sequence)
        /\ action' = Listener!SendSynAck(key, new)
    BY <1>3 DEF Listener!OpenConnection, new
  <2>2. next_initial_sequence' \in Nat
    BY <1>0, <2>1 DEF Ranges, TableInRange
  <2>3. /\ action'.key = key
        /\ action'.sequence_number \in Nat /\ action'.acknowledgement_number \in Nat
    BY <1>2, <2>1 DEF Listener!SendSynAck
  <2>4. DOMAIN connections' = DOMAIN connections \cup {key}
        /\ \A k \in DOMAIN connections' :
             connections'[k] = IF k = key THEN new ELSE connections[k]
    BY <2>1
  <2> QED
    BY <1>1, <1>2, <2>2, <2>3, <2>4 DEF Ranges, TableInRange
<1>4. CASE Listener!ResendSynAck(key, segment)
  <2>1. /\ action' = Listener!SendSynAck(key, connections[key])
        /\ key \in DOMAIN connections
        /\ UNCHANGED <<connections, next_initial_sequence>>
    BY <1>4 DEF Listener!ResendSynAck, Listener!RepeatsSyn
  <2>2. /\ action'.key = key
        /\ action'.sequence_number \in Nat /\ action'.acknowledgement_number \in Nat
    BY <2>1 DEF Listener!SendSynAck, Ranges, TableInRange
  <2> QED
    BY <1>1, <2>1, <2>2 DEF Ranges, TableInRange
<1>5. CASE Listener!CompleteHandshake(key, segment)
  <2> DEFINE done == Listener!Completed(connections[key], segment.acknowledgement_number)
  <2>1. /\ connections' = [connections EXCEPT ![key] = done]
        /\ key \in DOMAIN connections
        /\ action' = Listener!NoReply /\ UNCHANGED next_initial_sequence
    BY <1>5 DEF Listener!CompleteHandshake, Listener!AcknowledgesSynAck
  <2>2. /\ DOMAIN done = DOMAIN connections[key]
        /\ {"initial_send_sequence", "receive_next"} \subseteq DOMAIN connections[key] =>
             /\ done.initial_send_sequence = connections[key].initial_send_sequence
             /\ done.receive_next = connections[key].receive_next
    BY DEF Listener!Completed
  <2> HIDE DEF done
  <2>3. DOMAIN connections' = DOMAIN connections
        /\ \A k \in DOMAIN connections' :
             connections'[k] = IF k = key THEN done ELSE connections[k]
    BY <2>1
  <2>4. ~ action'.reply
    BY <2>1 DEF Listener!NoReply
  <2> QED
    BY <2>1, <2>2, <2>3, <2>4 DEF Ranges, TableInRange
<1>6. CASE Listener!IgnoreSegment(key, segment)
  BY <1>6 DEF Listener!IgnoreSegment, Listener!NoReply, Ranges,
            TableInRange
<1> QED
  BY <1>3, <1>4, <1>5, <1>6 DEF Listener!ReceiveSegment, key
--------------------------------------------------------------------------------
(* What the receiver of a reply reads.                                      *)

(* What is written is as long as it says.                                   *)
LEMMA WrittenWhole ==
  /\ \A packet : WriteArp(packet) = Slice(WriteArp(packet), WriteArp(packet).len)
  /\ \A packet : WriteIpv4(packet) = Slice(WriteIpv4(packet), WriteIpv4(packet).len)
  /\ \A message : WriteIcmp(message) = Slice(WriteIcmp(message), WriteIcmp(message).len)
  /\ \A source, destination, datagram :
       LET written == WriteUdp(source, destination, datagram)
       IN written = Slice(written, written.len)
  /\ \A source, destination, segment :
       LET written == WriteTcp(source, destination, segment)
       IN written = Slice(written, written.len)
<1>1. ASSUME NEW packet
      PROVE  WriteArp(packet) = Slice(WriteArp(packet), WriteArp(packet).len)
  BY DEF WriteArp, Slice
<1>2. ASSUME NEW packet
      PROVE  WriteIpv4(packet) = Slice(WriteIpv4(packet), WriteIpv4(packet).len)
  <2> DEFINE u == Ipv4Unsealed(packet)
             c == ChecksumOf(Ipv4HeaderSum(u, Ipv4HeaderRequired(packet)))
  <2>1. WriteIpv4(packet) = [u EXCEPT !.checksum = c]
    BY DEF WriteIpv4
  <2>2. "len" \in DOMAIN u
    BY DEF Ipv4Unsealed
  <2> HIDE DEF u, c
  <2>3. [u EXCEPT !.checksum = c] = Slice([u EXCEPT !.checksum = c],
                                          [u EXCEPT !.checksum = c].len)
    BY <2>2 DEF Slice
  <2> QED
    BY <2>1, <2>3
<1>3. ASSUME NEW message
      PROVE  WriteIcmp(message) = Slice(WriteIcmp(message), WriteIcmp(message).len)
  BY DEF WriteIcmp, IcmpUnsealed, Slice
<1>4. ASSUME NEW source, NEW destination, NEW datagram
      PROVE  WriteUdp(source, destination, datagram)
               = Slice(WriteUdp(source, destination, datagram),
                       WriteUdp(source, destination, datagram).len)
  BY DEF WriteUdp, UdpUnsealed, Slice
<1>5. ASSUME NEW source, NEW destination, NEW segment
      PROVE  WriteTcp(source, destination, segment)
               = Slice(WriteTcp(source, destination, segment),
                       WriteTcp(source, destination, segment).len)
  BY DEF WriteTcp, TcpUnsealed, Slice
<1> QED
  BY <1>1, <1>2, <1>3, <1>4, <1>5

LEMMA SealedIsRead ==
  ASSUME NEW mac, NEW kind \in {"Ipv4", "Arp"},
         NEW bytes, bytes.len \in Nat, bytes = Slice(bytes, bytes.len)
  PROVE  LET sealed == SealFrame(mac, kind, bytes)
         IN /\ sealed.kind = "Reply"
            /\ Abstraction(sealed.frame) =
                 [destination_mac |-> mac, source_mac |-> OwnMac,
                  payload |-> PayloadOf([destination_mac |-> mac, source_mac |-> OwnMac,
                                         ether_type |-> [kind |-> kind],
                                         payload |-> bytes])]
<1> DEFINE ethernet == [destination_mac |-> mac, source_mac |-> OwnMac,
                        ether_type |-> [kind |-> kind], payload |-> bytes]
           frame    == WriteEthernet(ethernet)
<1>1. EthernetRequired(ethernet) = 14 + bytes.len
  BY DEF EthernetRequired, ETHERNET_HEADER_LEN
<1>2. EthernetWriteRefuses(ethernet, ETHERNET_HEADER_LEN + bytes.len) = None
  BY <1>1 DEF EthernetWriteRefuses, ETHERNET_HEADER_LEN
<1>3. SealFrame(mac, kind, bytes) = Reply(frame)
  BY <1>2 DEF SealFrame
<1>4. /\ frame.destination_mac = mac /\ frame.source_mac = OwnMac
      /\ frame.ether_type = AsU16([kind |-> kind])
      /\ frame.body = bytes /\ frame.len = 14 + bytes.len
  BY <1>1 DEF WriteEthernet
<1> HIDE DEF frame
<1>5. FromU16(AsU16([kind |-> kind])) = [kind |-> kind]
  <2>1. CASE kind = "Ipv4"
    BY <2>1 DEF FromU16, AsU16
  <2>2. CASE kind = "Arp"
    BY <2>2 DEF FromU16, AsU16
  <2> QED
    BY <2>1, <2>2
<1>6. EthernetRefuses(frame) = None
  BY <1>4 DEF EthernetRefuses, ETHERNET_HEADER_LEN
<1>7. frame.len - 14 = bytes.len
  BY <1>4
<1>8. ParseEthFrame(frame) = ethernet
  BY <1>4, <1>5, <1>7 DEF ParseEthFrame, ETHERNET_HEADER_LEN
<1>9. Abstraction(frame) = [destination_mac |-> mac, source_mac |-> OwnMac,
                            payload |-> PayloadOf(ethernet)]
  <2> HIDE DEF ethernet
  <2>1. Abstraction(frame) = [destination_mac |-> ethernet.destination_mac,
                              source_mac |-> ethernet.source_mac,
                              payload |-> PayloadOf(ethernet)]
    BY <1>6, <1>8 DEF Abstraction
  <2> QED
    BY <2>1 DEF ethernet
<1> QED
  BY <1>3, <1>9 DEF Reply

(* An IPv4 reply is read as NetworkInterface has it, around its body.      *)
LEMMA PacketIsRead ==
  ASSUME NEW request, NEW kind \in {"Icmp", "Udp", "Tcp"}, NEW bytes,
         request.dscp \in Nat, request.dscp <= 63,
         request.ecn \in Nat, request.ecn <= 3, request.source \in Nat,
         bytes.len \in Nat, bytes.len <= 65515, bytes = Slice(bytes, bytes.len),
         Ranges
  PROVE  LET packet == Ipv4ReplyTo(request, [kind |-> kind], bytes)
             written == WriteIpv4(packet)
         IN /\ written.len = 20 + bytes.len
            /\ written = Slice(written, written.len)
            /\ Ipv4Refuses(written) = None
            /\ ParseIpv4(written) = packet
<1> DEFINE packet  == Ipv4ReplyTo(request, [kind |-> kind], bytes)
           written == WriteIpv4(packet)
<1>1. /\ Ipv4WriteRefuses(packet, IPV4_MIN_HEADER_LEN + bytes.len) = None
      /\ written.len = 20 + bytes.len
  BY WrittenIpv4
<1>2. /\ request.dscp \in U8 /\ request.ecn \in U8
      /\ next_ipv4_identification \in U16
      /\ OwnIp \in Nat
  <2>1. next_ipv4_identification \in Nat /\ next_ipv4_identification <= 65535
    BY OwnAssumption DEF Ranges, Ones
  <2>2. request.dscp \in U8 /\ request.ecn \in U8
    BY DEF U8
  <2> QED
    BY <2>1, <2>2, U16Bound, OwnAssumption
<1>3. packet \in Ipv4Packet({bytes})
  <2>1. 64 \in U8 /\ 0 \in U16 /\ 0 \in 0 .. 1
    BY U16Bound DEF U8
  <2>2. NoBytes \in ByteSlice
    BY DEF NoBytes, Bytes, ByteSlice, U8
  <2>3. [kind |-> kind] \in [kind : {"Icmp", "Tcp", "Udp"}]
    OBVIOUS
  <2> QED
    BY <1>2, <2>1, <2>2, <2>3 DEF Ipv4ReplyTo, Ipv4Packet, DEFAULT_IPV4_TTL
<1>4. packet.protocol.kind \in {"Icmp", "Tcp", "Udp"}
  BY DEF Ipv4ReplyTo
<1>5. written = Slice(written, written.len)
  BY WrittenWhole
<1> HIDE DEF packet
<1>6. /\ Ipv4Refuses(Slice(written, written.len)) = None
      /\ ParseIpv4(Slice(written, written.len)) = packet
  <2>1. written.len \in Nat /\ written.len >= written.len
    BY <1>1
  <2> QED
    BY <1>1, <1>3, <1>4, <2>1, Ipv4IsRead
<1> QED
  BY <1>1, <1>5, <1>6 DEF packet

LEMMA AbstractReply ==
  ASSUME output'.kind = "Reply"
  PROVE  AbstractResult' = [kind |-> "Reply", frame |-> Abstraction(output'.frame)]
BY DEF AbstractResult

(* The call has taken the next identification, and what it returns is read *)
(* as this reply.                                                          *)
RepliesWith(mac, destination, body) ==
  /\ next_ipv4_identification' = (next_ipv4_identification + 1) % IdMod
  /\ AbstractResult' =
       [kind  |-> "Reply",
        frame |-> [destination_mac |-> mac,
                   source_mac      |-> OwnMac,
                   payload         |-> [type |-> "Ipv4", ok |-> TRUE,
                                        destination |-> destination, fragment |-> FALSE,
                                        source |-> OwnIp, body |-> body]]]

LEMMA ReplyIsRead ==
  ASSUME NEW ethernet, NEW request, NEW kind \in {"Icmp", "Udp", "Tcp"}, NEW bytes,
         request.dscp \in Nat, request.dscp <= 63,
         request.ecn \in Nat, request.ecn <= 3, request.source \in Nat,
         bytes.len \in Nat, bytes.len <= 65515, bytes = Slice(bytes, bytes.len),
         Ranges, BuildIpv4Reply(ethernet, request, [kind |-> kind], bytes)
  PROVE  RepliesWith(ethernet.source_mac, request.source,
                     BodyOf(Ipv4ReplyTo(request, [kind |-> kind], bytes)))
<1> DEFINE packet  == Ipv4ReplyTo(request, [kind |-> kind], bytes)
           written == WriteIpv4(packet)
           mac     == ethernet.source_mac
           inner   == [destination_mac |-> mac, source_mac |-> OwnMac,
                       ether_type |-> [kind |-> "Ipv4"], payload |-> written]
           body    == BodyOf(packet)
<1>1. /\ written.len = 20 + bytes.len
      /\ written = Slice(written, written.len)
      /\ Ipv4Refuses(written) = None
      /\ ParseIpv4(written) = packet
  BY PacketIsRead
<1>2. /\ packet.destination = request.source /\ packet.source = OwnIp
      /\ packet.more_fragments = 0 /\ packet.fragment_offset = 0
  BY DEF Ipv4ReplyTo
<1>3. Ipv4WriteRefuses(packet, IPV4_MIN_HEADER_LEN + bytes.len) = None
  BY WrittenIpv4
<1>4. /\ output' = SealFrame(mac, "Ipv4", written)
      /\ next_ipv4_identification' =
           IF output'.kind = "Reply" THEN (next_ipv4_identification + 1) % IdMod
           ELSE next_ipv4_identification
  BY <1>3 DEF BuildIpv4Reply
<1>5. body = BodyOf(packet)
  BY DEF body
<1> HIDE DEF packet, written, mac, body
<1>6. written.len \in Nat
  BY <1>1
<1>7. /\ output'.kind = "Reply"
      /\ Abstraction(output'.frame) = [destination_mac |-> mac, source_mac |-> OwnMac,
                                       payload |-> PayloadOf(inner)]
  BY <1>1, <1>4, <1>6, SealedIsRead
<1>8. PayloadOf(inner) = [type |-> "Ipv4", ok |-> TRUE, destination |-> request.source,
                          fragment |-> FALSE, source |-> OwnIp, body |-> body]
  <2>1. inner.payload = written /\ inner.ether_type.kind = "Ipv4"
    OBVIOUS
  <2> HIDE DEF inner
  <2> DEFINE fragment == packet.more_fragments = 1 \/ packet.fragment_offset # 0
  <2>2. PayloadOf(inner) =
          [type |-> "Ipv4", ok |-> TRUE, destination |-> packet.destination,
           fragment |-> fragment, source |-> packet.source, body |-> BodyOf(packet)]
    BY <1>1, <2>1 DEF PayloadOf
  <2>3. fragment = FALSE
    BY <1>2
  <2> HIDE DEF fragment
  <2> DEFINE to == packet.destination
             from == packet.source
             carried == BodyOf(packet)
  <2> HIDE DEF to, from, carried
  <2>4. [type |-> "Ipv4", ok |-> TRUE, destination |-> to,
         fragment |-> fragment, source |-> from, body |-> carried]
          = [type |-> "Ipv4", ok |-> TRUE, destination |-> to,
             fragment |-> FALSE, source |-> from, body |-> carried]
    BY ONLY <2>3, Zenon
  <2>5. /\ packet.destination = request.source /\ packet.source = OwnIp
        /\ BodyOf(packet) = body
    BY <1>2, <1>5
  <2> QED
    BY ONLY <2>2, <2>4, <2>5 DEF to, from, carried
<1>9. AbstractResult' = [kind |-> "Reply", frame |-> Abstraction(output'.frame)]
  BY <1>7, AbstractReply
<1>10. next_ipv4_identification' = (next_ipv4_identification + 1) % IdMod
  BY <1>4, <1>7
<1>11. AbstractResult' = [kind  |-> "Reply",
                          frame |-> [destination_mac |-> mac, source_mac |-> OwnMac,
                                     payload |-> PayloadOf(inner)]]
  BY <1>7, <1>9
<1> HIDE DEF inner
<1>12. AbstractResult' =
         [kind  |-> "Reply",
          frame |-> [destination_mac |-> mac, source_mac |-> OwnMac,
                     payload |-> [type |-> "Ipv4", ok |-> TRUE,
                                  destination |-> request.source, fragment |-> FALSE,
                                  source |-> OwnIp, body |-> body]]]
  BY ONLY <1>8, <1>11
<1>13. RepliesWith(mac, request.source, body)
  BY ONLY <1>10, <1>12 DEF RepliesWith
<1> QED
  BY ONLY <1>13 DEF mac, body, packet
--------------------------------------------------------------------------------
(* From the handlers to those of NetworkInterface.                          *)

LEMMA FailureMaps ==
  ASSUME NEW class, NEW error, Return(Failed(class, error))
  PROVE  /\ AbstractResult' = Interface!Malformed
         /\ UNCHANGED <<Interface!arpVars, Interface!tcpVars, next_ipv4_identification>>
<1>1. output'.kind = "Failed"
  BY DEF Return, Failed
<1>2. AbstractResult' = Interface!Malformed
  BY <1>1 DEF AbstractResult, Interface!Malformed
<1>3. UNCHANGED <<Interface!arpVars, Interface!tcpVars, next_ipv4_identification>>
  BY DEF Return, stackVars, arpVars, tcpVars, Interface!arpVars, Interface!tcpVars
<1> QED
  BY <1>2, <1>3

LEMMA IgnoredMaps ==
  ASSUME output' = Ignored
  PROVE  AbstractResult' = Interface!Ignored
BY DEF Ignored, AbstractResult, Interface!Ignored

(* A frame that reaches a handler, as NetworkInterface sees it.             *)
Reaches(f, ethernet, ipv4) ==
  /\ f.destination_mac = OwnMac
  /\ f.source_mac = ethernet.source_mac
  /\ f.payload.type = "Ipv4" /\ f.payload.ok
  /\ f.payload.destination = OwnIp /\ ~ f.payload.fragment
  /\ f.payload.source = ipv4.source
  /\ f.payload.body = BodyOf(ipv4)

LEMMA RefusedBody ==
  ASSUME NEW ethernet, NEW ipv4, NEW f, Reaches(f, ethernet, ipv4),
         f.payload.body.protocol # "Unknown", ~ f.payload.body.ok,
         NEW class, NEW error, Return(Failed(class, error))
  PROVE  Interface!ProcessFrame(f, clock)
<1>1. Interface!IsAddressed(f) /\ Interface!IsForThisHost(f)
  BY DEF Reaches, Interface!IsAddressed, Interface!IsForThisHost
<1>2. Interface!Refuse(f)
  BY <1>1, FailureMaps DEF Reaches, Interface!Refuse
<1> QED
  BY <1>2 DEF Interface!ProcessFrame

LEMMA HandledBody ==
  ASSUME NEW ethernet, NEW ipv4, NEW f, Reaches(f, ethernet, ipv4),
         f.payload.body.protocol # "Unknown", f.payload.body.ok,
         \/ Interface!ProcessIcmpPacket(f)
         \/ Interface!ProcessUdpDatagram(f)
         \/ Interface!ProcessTcpSegment(f)
  PROVE  Interface!ProcessFrame(f, clock)
<1>1. Interface!IsAddressed(f) /\ Interface!IsForThisHost(f)
  BY DEF Reaches, Interface!IsAddressed, Interface!IsForThisHost
<1>2. Interface!ProcessIpv4Frame(f)
  BY <1>1 DEF Reaches, Interface!ProcessIpv4Frame
<1> QED
  BY <1>2 DEF Interface!ProcessFrame

(* A handler's reply is the one that NetworkInterface builds.               *)
LEMMA BuiltMaps ==
  ASSUME Ranges, NEW ethernet, NEW ipv4, NEW f, Reaches(f, ethernet, ipv4),
         NEW length, IsAccepted(ipv4, length),
         NEW refuses, refuses = None, NEW class, NEW kind \in {"Icmp", "Udp", "Tcp"},
         NEW bytes, bytes.len \in Nat, bytes.len <= 65515, bytes = Slice(bytes, bytes.len),
         ReplyUnless(refuses, class, ethernet, ipv4, [kind |-> kind], bytes),
         NEW body, body = BodyOf(Ipv4ReplyTo(ipv4, [kind |-> kind], bytes))
  PROVE  Interface!BuildIpv4Reply(f, body)
<1>1. BuildIpv4Reply(ethernet, ipv4, [kind |-> kind], bytes)
  BY DEF ReplyUnless
<1>2. RepliesWith(ethernet.source_mac, ipv4.source, body)
  <2>1. /\ ipv4.dscp \in Nat /\ ipv4.dscp <= 63
        /\ ipv4.ecn \in Nat /\ ipv4.ecn <= 3 /\ ipv4.source \in Nat
    BY DEF IsAccepted
  <2> DEFINE read == BodyOf(Ipv4ReplyTo(ipv4, [kind |-> kind], bytes))
  <2>2. RepliesWith(ethernet.source_mac, ipv4.source, read)
    BY <1>1, <2>1, ReplyIsRead
  <2>3. body = read
    OBVIOUS
  <2> HIDE DEF read
  <2> QED
    BY ONLY <2>2, <2>3
<1>3. f.source_mac = ethernet.source_mac /\ f.payload.source = ipv4.source
  BY DEF Reaches
<1> QED
  BY ONLY <1>2, <1>3
     DEF RepliesWith, Interface!BuildIpv4Reply, Interface!Reply, Interface!Ipv4Reply,
         Interface!NextIdentification

LEMMA IcmpMaps ==
  ASSUME Ranges, NEW ethernet, NEW ipv4, NEW f, Reaches(f, ethernet, ipv4),
         NEW length, IsAccepted(ipv4, length), ipv4.protocol.kind = "Icmp",
         ProcessIcmpPacket(ethernet, ipv4)
  PROVE  Interface!ProcessFrame(f, clock)
<1> DEFINE data    == ipv4.payload
           request == ParseIcmp(data)
           reply   == BuildEchoReply(request)
           body    == f.payload.body
<1>0. body = IF IcmpRefuses(data) # None THEN [protocol |-> "Icmp", ok |-> FALSE]
             ELSE [protocol |-> "Icmp", ok |-> TRUE,
                   echo_request |-> ParseIcmp(data).kind = "EchoRequest"]
  BY DEF Reaches, BodyOf
<1>1. CASE IcmpRefuses(data) # None
  <2>1. body = [protocol |-> "Icmp", ok |-> FALSE]
    BY <1>0, <1>1
  <2>2. body.protocol # "Unknown" /\ ~ body.ok
    BY ONLY <2>1
  <2>3. Return(Failed("Icmp", IcmpRefuses(data)))
    BY <1>1 DEF ProcessIcmpPacket
  <2> QED
    BY <2>2, <2>3, RefusedBody
<1>2. ASSUME IcmpRefuses(data) = None
      PROVE  /\ body.protocol = "Icmp" /\ body.ok
             /\ body.echo_request <=> request.kind = "EchoRequest"
  <2> DEFINE echo == request.kind = "EchoRequest"
  <2>1. body = [protocol |-> "Icmp", ok |-> TRUE, echo_request |-> echo]
    BY <1>0, <1>2
  <2> HIDE DEF body, echo
  <2>2. body.protocol = "Icmp" /\ body.ok /\ (body.echo_request <=> echo)
    BY ONLY <2>1, Zenon
  <2> QED
    BY <2>2 DEF echo
<1>3. CASE IcmpRefuses(data) = None /\ request.kind # "EchoRequest"
  <2>1. output' = Ignored /\ UNCHANGED stackVars
    BY <1>3 DEF ProcessIcmpPacket, Return
  <2>2. AbstractResult' = Interface!Ignored
    BY <2>1, IgnoredMaps
  <2>3. UNCHANGED <<Interface!arpVars, Interface!tcpVars, next_ipv4_identification>>
    BY <2>1 DEF stackVars, arpVars, tcpVars, Interface!arpVars, Interface!tcpVars
  <2>4. Interface!ProcessIcmpPacket(f)
    BY <1>2, <1>3, <2>2, <2>3 DEF Interface!ProcessIcmpPacket
  <2> QED
    BY <1>2, <1>3, <2>4, HandledBody
<1>4. CASE IcmpRefuses(data) = None /\ request.kind = "EchoRequest"
  <2>1. IsEcho(data.message_type)
    BY <1>4 DEF ParseIcmp
  <2>2. /\ data.len \in Nat /\ data.len >= 8 /\ data.len <= 65515
        /\ IsIcmpMessage(data)
    BY <1>4, <2>1 DEF IcmpRefuses, IsAccepted, ICMP_HEADER_LEN, ICMP_ECHO_HEADER_LEN, None
  <2>3. /\ data.identifier \in U16 /\ data.sequence_number \in U16 /\ data.fill \in U8
    BY <2>1, <2>2 DEF IsIcmpMessage
  <2>4. Bytes(data.fill, data.len - 8) \in ByteSlice
    BY <2>2, <2>3 DEF Bytes, ByteSlice
  <2>5. reply = [kind |-> "EchoReply", identifier |-> data.identifier,
                 sequence_number |-> data.sequence_number,
                 payload |-> Bytes(data.fill, data.len - 8)]
    BY <2>1 DEF ParseIcmp, BuildEchoReply, ICMP_ECHO_HEADER_LEN
  <2>6. reply \in IcmpMessage
    BY <2>3, <2>4, <2>5 DEF IcmpMessage
  <2>7. reply.kind = "EchoReply" /\ reply.payload.len = data.len - 8
    BY <2>5 DEF Bytes
  <2> HIDE DEF reply
  <2>8. IcmpRequired(reply) = data.len
    BY <2>2, <2>7 DEF IcmpRequired, ICMP_ECHO_HEADER_LEN
  <2>9. IcmpWriteRefuses(reply, data.len) = None
    BY <2>2, <2>8 DEF IcmpWriteRefuses
  <2> DEFINE bytes  == WriteIcmp(reply)
             packet == Ipv4ReplyTo(ipv4, [kind |-> "Icmp"], bytes)
  <2>10. /\ bytes.len = data.len
         /\ bytes = Slice(bytes, bytes.len)
         /\ IcmpRefuses(bytes) = None /\ ParseIcmp(bytes) = reply
    BY <2>6, <2>8, IcmpWritten, IcmpIsRead, WrittenWhole
  <2>11. ReplyUnless(IcmpWriteRefuses(reply, data.len), "Serialise",
                     ethernet, ipv4, [kind |-> "Icmp"], bytes)
    BY <1>4 DEF ProcessIcmpPacket, reply
  <2>12. packet.payload = bytes /\ packet.protocol.kind = "Icmp"
    BY DEF Ipv4ReplyTo
  <2> HIDE DEF bytes, packet
  <2>13. BodyOf(packet) = Interface!EchoReply
    <3>1. BodyOf(packet) = [protocol |-> "Icmp", ok |-> TRUE,
                            echo_request |-> reply.kind = "EchoRequest"]
      BY <2>10, <2>12 DEF BodyOf
    <3> DEFINE echo == reply.kind = "EchoRequest"
    <3>2. echo = FALSE
      BY <2>7
    <3>3. BodyOf(packet) = [protocol |-> "Icmp", ok |-> TRUE, echo_request |-> echo]
      BY <3>1
    <3> HIDE DEF echo
    <3>4. [protocol |-> "Icmp", ok |-> TRUE, echo_request |-> echo]
            = [protocol |-> "Icmp", ok |-> TRUE, echo_request |-> FALSE]
      BY ONLY <3>2, Zenon
    <3> QED
      BY ONLY <3>3, <3>4 DEF Interface!EchoReply
  <2>14. bytes.len \in Nat /\ bytes.len <= 65515
    BY <2>2, <2>10
  <2>15. Interface!BuildIpv4Reply(f, Interface!EchoReply)
    BY <2>9, <2>10, <2>11, <2>13, <2>14, BuiltMaps DEF packet
  <2>16. UNCHANGED <<Interface!arpVars, Interface!tcpVars>>
    BY <1>4 DEF ProcessIcmpPacket, arpVars, tcpVars, Interface!arpVars, Interface!tcpVars
  <2>17. Interface!ProcessIcmpPacket(f)
    BY <1>2, <1>4, <2>15, <2>16 DEF Interface!ProcessIcmpPacket
  <2> QED
    BY <1>2, <1>4, <2>17, HandledBody
<1> QED
  BY <1>1, <1>3, <1>4

LEMMA UdpMaps ==
  ASSUME Ranges, NEW ethernet, NEW ipv4, NEW f, Reaches(f, ethernet, ipv4),
         NEW length, IsAccepted(ipv4, length), ipv4.protocol.kind = "Udp",
         ProcessUdpDatagram(ethernet, ipv4)
  PROVE  Interface!ProcessFrame(f, clock)
<1> DEFINE data    == ipv4.payload
           invalid == UdpInvalid(ipv4.source, ipv4.destination, data)
           request == ParseUdp(data)
           reply   == [source_port      |-> EchoPort,
                       destination_port |-> request.source_port,
                       payload          |-> request.payload]
           body    == f.payload.body
<1>0. body = IF invalid # None THEN [protocol |-> "Udp", ok |-> FALSE]
             ELSE [protocol |-> "Udp", ok |-> TRUE, source_port |-> data.source_port,
                   destination_port |-> data.destination_port]
  BY DEF Reaches, BodyOf
<1>1. CASE invalid # None
  <2>1. body = [protocol |-> "Udp", ok |-> FALSE]
    BY <1>0, <1>1
  <2>2. body.protocol # "Unknown" /\ ~ body.ok
    BY ONLY <2>1
  <2>3. Return(Failed("Udp", invalid))
    BY <1>1 DEF ProcessUdpDatagram
  <2> QED
    BY <2>2, <2>3, RefusedBody
<1>2. ASSUME invalid = None
      PROVE  /\ body.protocol = "Udp" /\ body.ok
             /\ body.source_port = data.source_port
             /\ body.destination_port = data.destination_port
  <2>1. body = [protocol |-> "Udp", ok |-> TRUE, source_port |-> data.source_port,
                destination_port |-> data.destination_port]
    BY <1>0, <1>2
  <2> QED
    BY ONLY <2>1
<1>3. /\ request.source_port = data.source_port
      /\ request.destination_port = data.destination_port
      /\ request.payload = UdpPayload(data)
  BY DEF ParseUdp
<1>4. CASE /\ invalid = None
           /\ request.destination_port # EchoPort \/ request.source_port = 0
  <2>1. output' = Ignored /\ UNCHANGED stackVars
    BY <1>4 DEF ProcessUdpDatagram, Return
  <2>2. AbstractResult' = Interface!Ignored
    BY <2>1, IgnoredMaps
  <2>3. UNCHANGED <<Interface!arpVars, Interface!tcpVars, next_ipv4_identification>>
    BY <2>1 DEF stackVars, arpVars, tcpVars, Interface!arpVars, Interface!tcpVars
  <2>4. Interface!ProcessUdpDatagram(f)
    BY <1>2, <1>3, <1>4, <2>2, <2>3 DEF Interface!ProcessUdpDatagram
  <2> QED
    BY <1>2, <1>4, <2>4, HandledBody
<1>5. CASE /\ invalid = None
           /\ ~ (request.destination_port # EchoPort \/ request.source_port = 0)
  <2>1. /\ data.length \in Nat /\ data.len \in Nat /\ data.len <= 65515
        /\ data.length <= 65535 /\ data.source_port \in U16 /\ data.fill \in U8
    <3>1. /\ data.length \in U16 /\ data.len \in Nat /\ data.len <= 65515
          /\ data.source_port \in U16 /\ data.fill \in U8
      BY DEF IsAccepted, IsUdpDatagram
    <3> QED
      BY <3>1, U16Value
  <2>2. UdpRefuses(data) = None
    BY <1>5 DEF UdpInvalid
  <2>3. data.length >= 8 /\ data.length <= data.len
    BY <2>1, <2>2 DEF UdpRefuses, UDP_HEADER_LEN, None
  <2>4. UdpPayload(data) = Bytes(data.fill, data.length - 8)
    BY DEF UdpPayload, UDP_HEADER_LEN
  <2>5. UdpPayload(data) \in ByteSlice /\ UdpPayload(data).len = data.length - 8
    BY <2>1, <2>3, <2>4 DEF Bytes, ByteSlice
  <2>6. reply \in UdpDatagram
    BY <1>3, <2>1, <2>5, OwnAssumption DEF UdpDatagram
  <2>7. /\ reply.payload.len = data.length - 8
        /\ UDP_HEADER_LEN + request.payload.len = data.length
        /\ reply.source_port = EchoPort /\ reply.destination_port = data.source_port
    BY <1>3, <2>1, <2>5 DEF UDP_HEADER_LEN
  <2>8. ReplyUnless(UdpWriteRefuses(reply, UDP_HEADER_LEN + request.payload.len),
                    "UdpSerialise", ethernet, ipv4, [kind |-> "Udp"],
                    WriteUdp(OwnIp, ipv4.source, reply))
    BY <1>5 DEF ProcessUdpDatagram
  <2>8a. UNCHANGED <<Interface!arpVars, Interface!tcpVars>>
    BY <1>5 DEF ProcessUdpDatagram, arpVars, tcpVars, Interface!arpVars,
                Interface!tcpVars
  <2> HIDE DEF reply, request
  <2>9. UdpRequired(reply) = data.length
    BY <2>1, <2>7 DEF UdpRequired, UDP_HEADER_LEN
  <2>10. UdpWriteRefuses(reply, data.length) = None
    BY <2>1, <2>9 DEF UdpWriteRefuses, Ones
  <2>11. OwnIp \in Nat /\ ipv4.source \in Nat
    BY OwnAssumption DEF IsAccepted
  <2> DEFINE bytes  == WriteUdp(OwnIp, ipv4.source, reply)
             packet == Ipv4ReplyTo(ipv4, [kind |-> "Udp"], bytes)
             echoed == [protocol |-> "Udp", ok |-> TRUE, source_port |-> EchoPort,
                        destination_port |-> data.source_port]
  <2>12. /\ bytes = Slice(bytes, bytes.len)
         /\ UdpInvalid(OwnIp, ipv4.source, bytes) = None
    BY <2>6, <2>11, UdpIsRead, WrittenWhole
  <2>13. /\ bytes.len = data.length
         /\ bytes.source_port = EchoPort /\ bytes.destination_port = data.source_port
    BY <2>7, <2>9 DEF WriteUdp, UdpUnsealed
  <2>14. /\ packet.payload = bytes /\ packet.protocol.kind = "Udp"
         /\ packet.source = OwnIp /\ packet.destination = ipv4.source
    BY DEF Ipv4ReplyTo
  <2>15. bytes.len \in Nat /\ bytes.len <= 65515
    BY <2>1, <2>3, <2>13
  <2>16. ReplyUnless(UdpWriteRefuses(reply, data.length), "UdpSerialise",
                     ethernet, ipv4, [kind |-> "Udp"], bytes)
    BY <2>7, <2>8
  <2> HIDE DEF bytes, packet
  <2>17. BodyOf(packet) = echoed
    <3>1. BodyOf(packet) = [protocol |-> "Udp", ok |-> TRUE,
                            source_port |-> bytes.source_port,
                            destination_port |-> bytes.destination_port]
      BY <2>12, <2>14 DEF BodyOf
    <3> QED
      BY <2>13, <3>1
  <2> HIDE DEF echoed
  <2>18. Interface!BuildIpv4Reply(f, echoed)
    BY <2>10, <2>12, <2>15, <2>16, <2>17, BuiltMaps DEF packet
  <2>20. Interface!EchoedDatagram(body) = echoed
    BY <1>2, <1>5 DEF Interface!EchoedDatagram, echoed
  <2>21. body.destination_port = EchoPort /\ body.source_port # 0
    BY <1>2, <1>3, <1>5
  <2>22. Interface!ProcessUdpDatagram(f)
    BY <1>2, <1>5, <2>18, <2>8a, <2>20, <2>21 DEF Interface!ProcessUdpDatagram
  <2> QED
    BY <1>2, <1>5, <2>22, HandledBody
<1> QED
  BY <1>1, <1>4, <1>5

(* The segment of a SYN-ACK is read as SynAckSegment.                      *)
LEMMA SynAckFlags == FlagBit["SYN"] + FlagBit["ACK"] = 18 /\ Flags(18) = {"SYN", "ACK"}
<1>1. FlagBit["SYN"] + FlagBit["ACK"] = 18
  BY DEF FlagBit
<1>2. /\ Contains(18, "SYN") /\ Contains(18, "ACK")
      /\ ~ Contains(18, "FIN") /\ ~ Contains(18, "RST") /\ ~ Contains(18, "PSH")
      /\ ~ Contains(18, "URG") /\ ~ Contains(18, "ECE") /\ ~ Contains(18, "CWR")
  BY DEF Contains, FlagBit
<1>3. DOMAIN FlagBit = {"FIN", "SYN", "RST", "PSH", "ACK", "URG", "ECE", "CWR"}
  BY DEF FlagBit
<1>4. Flags(18) = {"SYN", "ACK"}
  BY ONLY <1>2, <1>3 DEF Flags
<1> QED
  BY <1>1, <1>4

LEMMA SynAckIsRead ==
  ASSUME NEW answer, answer.key.remote_port \in U16,
         answer.sequence_number \in Nat, answer.acknowledgement_number \in Nat,
         NEW destination \in Nat
  PROVE  LET bytes == WriteTcp(OwnIp, destination, SynAckToSend(answer))
         IN /\ bytes = Slice(bytes, bytes.len)
            /\ TcpInvalid(OwnIp, destination, bytes) = None
            /\ SegmentOf(ParseTcp(bytes)) = Interface!SynAckSegment(answer)
<1> DEFINE segment == SynAckToSend(answer)
           bytes   == WriteTcp(OwnIp, destination, segment)
           empty   == segment.payload.len = 0
<1>1. segment \in TcpSegmentToSend
  <2>1. NoBytes \in ByteSlice
    BY DEF NoBytes, Bytes, ByteSlice, U8
  <2>2. 18 \in U8 /\ 0 \in U16 /\ 64240 \in U16
    BY U16Bound DEF U8
  <2>3. EchoPort \in U16
    BY OwnAssumption
  <2> QED
    BY <2>1, <2>2, <2>3, SynAckFlags
       DEF SynAckToSend, TcpSegmentToSend, DEFAULT_TCP_RECEIVE_WINDOW
<1>2. TcpWriteRefuses(segment, TCP_MIN_HEADER_LEN) = None
  BY WrittenSynAck
<1>3. /\ segment.source_port = EchoPort
      /\ segment.destination_port = answer.key.remote_port
      /\ segment.sequence_number = answer.sequence_number
      /\ segment.acknowledgement_number = answer.acknowledgement_number
      /\ segment.flags = 18
      /\ segment.payload.len = 0
  BY SynAckFlags DEF SynAckToSend, NoBytes, Bytes
<1>4. OwnIp \in Nat
  BY OwnAssumption
<1> HIDE DEF segment
<1>5. /\ TcpInvalid(OwnIp, destination, bytes) = None
      /\ ParseTcp(bytes) = segment
  BY <1>1, <1>2, <1>4, TcpIsRead
<1>6. bytes = Slice(bytes, bytes.len)
  BY WrittenWhole
<1> HIDE DEF bytes
<1>7. SegmentOf(segment) =
        [source_port            |-> EchoPort,
         destination_port       |-> answer.key.remote_port,
         sequence_number        |-> answer.sequence_number,
         acknowledgement_number |-> answer.acknowledgement_number,
         flags                  |-> {"SYN", "ACK"},
         empty                  |-> empty]
  BY <1>3, SynAckFlags DEF SegmentOf
<1>8. empty = TRUE
  BY <1>3
<1> HIDE DEF empty
<1>9. SegmentOf(segment) = Interface!SynAckSegment(answer)
  BY ONLY <1>7, <1>8, Zenon DEF Interface!SynAckSegment
<1> QED
  BY <1>5, <1>6, <1>9 DEF bytes, segment

LEMMA TcpMaps ==
  ASSUME Ranges, NEW ethernet, NEW ipv4, NEW f, Reaches(f, ethernet, ipv4),
         NEW length, IsAccepted(ipv4, length), ipv4.protocol.kind = "Tcp",
         ProcessTcpSegment(ethernet, ipv4)
  PROVE  Interface!ProcessFrame(f, clock)
<1> DEFINE data    == ipv4.payload
           invalid == TcpInvalid(ipv4.source, ipv4.destination, data)
           segment == SegmentOf(ParseTcp(data))
           body    == f.payload.body
<1>0. body = IF invalid # None THEN [protocol |-> "Tcp", ok |-> FALSE]
             ELSE [protocol |-> "Tcp", ok |-> TRUE, segment |-> segment]
  BY DEF Reaches, BodyOf
<1>1. CASE invalid # None
  <2>1. body = [protocol |-> "Tcp", ok |-> FALSE]
    BY <1>0, <1>1
  <2>2. body.protocol # "Unknown" /\ ~ body.ok
    BY ONLY <2>1
  <2>3. Return(Failed("Tcp", invalid))
    BY <1>1 DEF ProcessTcpSegment
  <2> QED
    BY <2>2, <2>3, RefusedBody
<1>2. CASE invalid = None
  <2>1. body = [protocol |-> "Tcp", ok |-> TRUE, segment |-> segment]
    BY <1>0, <1>2
  <2>2. segment.sequence_number = data.sequence_number
        /\ segment.source_port = data.source_port
    BY DEF SegmentOf, ParseTcp
  <2>3. data.sequence_number \in Nat /\ data.source_port \in U16
    BY DEF IsAccepted, IsTcpSegment
  <2>4. /\ Listener!ReceiveSegment(ipv4.source, segment)
        /\ IF action'.reply THEN SendSynAck(ethernet, ipv4)
           ELSE output' = Ignored /\ UNCHANGED next_ipv4_identification
        /\ UNCHANGED arpVars
    BY <1>2 DEF ProcessTcpSegment
  <2> HIDE DEF segment
  <2>5. body.protocol = "Tcp" /\ body.ok /\ body.segment = segment
    BY ONLY <2>1
  <2>6. /\ f.payload.source = ipv4.source /\ ipv4.source \in Nat
    BY DEF Reaches, IsAccepted
  <2>7. Interface!Listener!ReceiveSegment(f.payload.source, body.segment)
    BY <2>4, <2>5, <2>6, SameReceiveSegment
  <2>8. UNCHANGED Interface!arpVars
    BY <2>4 DEF arpVars, Interface!arpVars
  <2>9. CASE ~ action'.reply
    <3>1. AbstractResult' = Interface!Ignored
      BY <2>4, <2>9, IgnoredMaps
    <3>2. Interface!ProcessTcpSegment(f)
      BY <2>4, <2>5, <2>7, <2>8, <2>9, <3>1 DEF Interface!ProcessTcpSegment
    <3> QED
      BY <2>5, <3>2, HandledBody
  <2>10. CASE action'.reply
    <3>1. segment.sequence_number \in Nat
      BY <2>2, <2>3
    <3>2. /\ action'.key.remote_port \in U16
          /\ action'.sequence_number \in Nat
          /\ action'.acknowledgement_number \in Nat
      BY <2>2, <2>3, <2>4, <2>10, <3>1, AnswerRanges
    <3> DEFINE reply  == SynAckToSend(action')
               bytes  == WriteTcp(OwnIp, ipv4.source, reply)
               packet == Ipv4ReplyTo(ipv4, [kind |-> "Tcp"], bytes)
               answer == [protocol |-> "Tcp", ok |-> TRUE,
                          segment |-> Interface!SynAckSegment(action')]
    <3>3. /\ bytes = Slice(bytes, bytes.len)
          /\ TcpInvalid(OwnIp, ipv4.source, bytes) = None
          /\ SegmentOf(ParseTcp(bytes)) = Interface!SynAckSegment(action')
      BY <2>6, <3>2, SynAckIsRead
    <3>4. TcpWriteRefuses(reply, TCP_MIN_HEADER_LEN) = None /\ bytes.len = 20
      BY WrittenSynAck
    <3>5. ReplyUnless(TcpWriteRefuses(reply, TCP_MIN_HEADER_LEN), "TcpSerialise",
                      ethernet, ipv4, [kind |-> "Tcp"], bytes)
      BY <2>4, <2>10 DEF SendSynAck
    <3>6. /\ packet.payload = bytes /\ packet.protocol.kind = "Tcp"
          /\ packet.source = OwnIp /\ packet.destination = ipv4.source
      BY DEF Ipv4ReplyTo
    <3> HIDE DEF reply, bytes, packet
    <3>7. BodyOf(packet) = [protocol |-> "Tcp", ok |-> TRUE,
                            segment |-> SegmentOf(ParseTcp(bytes))]
      BY <3>3, <3>6 DEF BodyOf
    <3>8. BodyOf(packet) = answer
      BY ONLY <3>3, <3>7
    <3> HIDE DEF answer
    <3>9. bytes.len \in Nat /\ bytes.len <= 65515
      BY <3>4
    <3>10. Interface!BuildIpv4Reply(f, answer)
      BY <3>3, <3>4, <3>5, <3>8, <3>9, BuiltMaps DEF packet
    <3>11. Interface!ProcessTcpSegment(f)
      BY <2>5, <2>7, <2>8, <2>10, <3>10 DEF Interface!ProcessTcpSegment, answer
    <3> QED
      BY <2>5, <3>11, HandledBody
  <2> QED
    BY <2>9, <2>10
<1> QED
  BY <1>1, <1>2
--------------------------------------------------------------------------------
(* From the frame down to the handlers, as NetworkInterface sees it.        *)
Carries(f, ethernet) ==
  /\ f.destination_mac = ethernet.destination_mac
  /\ f.source_mac = ethernet.source_mac
  /\ f.payload = PayloadOf(ethernet)

LEMMA PayloadType ==
  ASSUME NEW ethernet
  PROVE  /\ ethernet.ether_type.kind = "Arp"  => PayloadOf(ethernet).type = "Arp"
         /\ ethernet.ether_type.kind = "Ipv4" => PayloadOf(ethernet).type = "Ipv4"
         /\ ethernet.ether_type.kind \notin {"Arp", "Ipv4"} =>
              PayloadOf(ethernet).type = "Other"
<1>1. CASE ethernet.ether_type.kind = "Arp"
  <2>1. \/ PayloadOf(ethernet) = [type |-> "Arp", ok |-> FALSE]
        \/ \E a, b, c, d : PayloadOf(ethernet) =
             [type |-> "Arp", ok |-> TRUE, operation |-> a, sender_ip |-> b,
              sender_mac |-> c, target_ip |-> d]
    BY <1>1 DEF PayloadOf
  <2>2. PayloadOf(ethernet).type = "Arp"
    BY ONLY <2>1
  <2> QED
    BY <1>1, <2>2
<1>2. CASE ethernet.ether_type.kind = "Ipv4"
  <2> DEFINE ipv4 == ParseIpv4(ethernet.payload)
             fragment == ipv4.more_fragments = 1 \/ ipv4.fragment_offset # 0
             to == ipv4.destination
             from == ipv4.source
             body == BodyOf(ipv4)
             Refused == [type |-> "Ipv4", ok |-> FALSE]
             Whole == [type |-> "Ipv4", ok |-> TRUE, destination |-> to,
                       fragment |-> fragment, source |-> from, body |-> body]
  <2>1. PayloadOf(ethernet) = IF Ipv4Refuses(ethernet.payload) # None
                              THEN Refused ELSE Whole
    BY <1>2 DEF PayloadOf
  <2> HIDE DEF to, from, body, fragment
  <2>2. Refused.type = "Ipv4"
    BY ONLY TRUE
  <2>3. Whole.type = "Ipv4"
    BY ONLY Zenon
  <2> HIDE DEF Refused, Whole
  <2> QED
    BY <1>2, <2>1, <2>2, <2>3
<1>3. CASE ethernet.ether_type.kind \notin {"Arp", "Ipv4"}
  BY <1>3 DEF PayloadOf
<1> QED
  BY <1>1, <1>2, <1>3

(* The reply to an ARP request is read as BuildArpReply.                   *)
LEMMA ArpReplyIsRead ==
  ASSUME NEW packet, packet.sender_ip \in Nat,
         output' = SealFrame(packet.sender_mac, "Arp",
                             WriteArp(BuildReply(packet, OwnMac, OwnIp)))
  PROVE  AbstractResult' = Interface!Reply(Interface!BuildArpReply(packet))
<1> DEFINE reply == BuildReply(packet, OwnMac, OwnIp)
           bytes == WriteArp(reply)
           mac   == packet.sender_mac
           inner == [destination_mac |-> mac, source_mac |-> OwnMac,
                     ether_type |-> [kind |-> "Arp"], payload |-> bytes]
<1>1. reply \in ArpPacket({OwnMac, mac})
  BY OwnAssumption DEF BuildReply, ArpPacket
<1>2. /\ reply.operation.kind = "Reply" /\ reply.sender_ip = OwnIp
      /\ reply.sender_mac = OwnMac /\ reply.target_ip = packet.sender_ip
  BY DEF BuildReply
<1>3. bytes.len = 28 /\ bytes = Slice(bytes, bytes.len)
  BY WrittenWhole DEF WriteArp, ARP_HEADER_LEN
<1> HIDE DEF reply
<1>4. ArpRefuses(bytes) = None /\ ParseArp(bytes) = reply
  <2>1. /\ ArpRefuses(Slice(bytes, 28)) = None
        /\ ParseArp(Slice(bytes, 28)) = reply
    BY <1>1, ArpIsRead
  <2> QED
    BY <1>3, <2>1
<1> HIDE DEF bytes
<1>5. output' = SealFrame(mac, "Arp", bytes)
  BY DEF bytes, reply
<1>6. /\ output'.kind = "Reply"
      /\ Abstraction(output'.frame) = [destination_mac |-> mac, source_mac |-> OwnMac,
                                       payload |-> PayloadOf(inner)]
  BY <1>3, <1>5, SealedIsRead
<1>7. PayloadOf(inner) =
        [type |-> "Arp", ok |-> TRUE, operation |-> "Reply", sender_ip |-> OwnIp,
         sender_mac |-> OwnMac, target_ip |-> packet.sender_ip]
  <2>1. inner.payload = bytes /\ inner.ether_type.kind = "Arp"
    OBVIOUS
  <2> HIDE DEF inner
  <2> QED
    BY <1>2, <1>4, <2>1 DEF PayloadOf
<1> HIDE DEF inner
<1>8. AbstractResult' = [kind |-> "Reply", frame |-> Abstraction(output'.frame)]
  BY <1>6, AbstractReply
<1> QED
  BY ONLY <1>6, <1>7, <1>8 DEF mac, Interface!Reply, Interface!BuildArpReply

LEMMA ArpMaps ==
  ASSUME NEW ethernet, NEW f, Carries(f, ethernet), NEW now,
         ethernet.ether_type.kind = "Arp",
         ethernet.destination_mac \in {OwnMac, Broadcast},
         ethernet.payload.sender_ip \in Nat, ProcessArpFrame(ethernet, now)
  PROVE  Interface!ProcessFrame(f, now)
<1> DEFINE data   == ethernet.payload
           packet == ParseArp(data)
<1>1. f.payload.type = "Arp" /\ Interface!IsAddressed(f)
  BY PayloadType DEF Carries, Interface!IsAddressed
<1>2. CASE ArpRefuses(data) # None
  <2>1. f.payload = [type |-> "Arp", ok |-> FALSE]
    BY <1>2 DEF Carries, PayloadOf
  <2>2. ~ f.payload.ok
    BY ONLY <2>1
  <2>3. Return(Failed("Arp", ArpRefuses(data)))
    BY <1>2 DEF ProcessArpFrame
  <2>4. Interface!Refuse(f)
    BY <1>1, <2>2, <2>3, FailureMaps DEF Interface!Refuse
  <2> QED
    BY <2>4 DEF Interface!ProcessFrame
<1>3. CASE ArpRefuses(data) = None
  <2>1. f.payload = [type |-> "Arp", ok |-> TRUE, operation |-> packet.operation.kind,
                     sender_ip |-> packet.sender_ip, sender_mac |-> packet.sender_mac,
                     target_ip |-> packet.target_ip]
    BY <1>3 DEF Carries, PayloadOf
  <2>2. packet.sender_ip \in Nat
    BY DEF ParseArp
  <2>3. ArpWriteRefuses(ARP_HEADER_LEN) = None
    BY DEF ArpWriteRefuses, ARP_HEADER_LEN
  <2>4. BuildReply(packet, OwnMac, OwnIp).target_mac = packet.sender_mac
    BY DEF BuildReply
  <2>5. /\ Resolver!Observe([operation  |-> packet.operation.kind,
                             sender_ip  |-> packet.sender_ip,
                             sender_mac |-> packet.sender_mac], now)
        /\ output' = IF ~ AsksFor(packet, OwnIp) THEN Ignored
                     ELSE SealFrame(packet.sender_mac, "Arp",
                                    WriteArp(BuildReply(packet, OwnMac, OwnIp)))
        /\ UNCHANGED <<tcpVars, next_ipv4_identification>>
    BY <1>3, <2>3, <2>4 DEF ProcessArpFrame
  <2> HIDE DEF packet
  <2>6. /\ f.payload.ok
        /\ f.payload.operation = packet.operation.kind
        /\ f.payload.sender_ip = packet.sender_ip
        /\ f.payload.sender_mac = packet.sender_mac
        /\ f.payload.target_ip = packet.target_ip
    BY ONLY <2>1
  <2>7. Interface!Resolver!Observe([operation  |-> f.payload.operation,
                                    sender_ip  |-> f.payload.sender_ip,
                                    sender_mac |-> f.payload.sender_mac], now)
    BY <2>5, <2>6, SameObserve
  <2>8. Interface!AsksForThisHost(f.payload) <=> AsksFor(packet, OwnIp)
    BY <2>6 DEF Interface!AsksForThisHost, AsksFor
  <2>9. AbstractResult' = IF Interface!AsksForThisHost(f.payload)
                          THEN Interface!Reply(Interface!BuildArpReply(f.payload))
                          ELSE Interface!Ignored
    <3>1. CASE ~ AsksFor(packet, OwnIp)
      BY <2>5, <2>8, <3>1, IgnoredMaps
    <3>2. CASE AsksFor(packet, OwnIp)
      <4>1. AbstractResult' = Interface!Reply(Interface!BuildArpReply(packet))
        BY <2>2, <2>5, <3>2, ArpReplyIsRead
      <4>2. Interface!BuildArpReply(packet) = Interface!BuildArpReply(f.payload)
        BY <2>6 DEF Interface!BuildArpReply
      <4> QED
        BY <2>8, <3>2, <4>1, <4>2
    <3> QED
      BY <3>1, <3>2
  <2>10. UNCHANGED <<Interface!tcpVars, next_ipv4_identification>>
    BY <2>5 DEF tcpVars, Interface!tcpVars
  <2>11. Interface!ProcessArpFrame(f, now)
    BY <1>1, <2>6, <2>7, <2>9, <2>10 DEF Interface!ProcessArpFrame
  <2> QED
    BY <2>11 DEF Interface!ProcessFrame
<1> QED
  BY <1>2, <1>3

LEMMA DiscardMaps ==
  ASSUME NEW f, f.payload.type # "Truncated", Return(Ignored),
         \/ ~ Interface!IsAddressed(f)
         \/ f.payload.type = "Ipv4" /\ f.payload.ok /\ ~ Interface!IsForThisHost(f),
         NEW now
  PROVE  Interface!ProcessFrame(f, now)
<1>1. output' = Ignored /\ UNCHANGED stackVars
  BY DEF Return
<1>2. AbstractResult' = Interface!Ignored
  BY <1>1, IgnoredMaps
<1>3. UNCHANGED <<Interface!arpVars, Interface!tcpVars, next_ipv4_identification>>
  BY <1>1 DEF stackVars, arpVars, tcpVars, Interface!arpVars, Interface!tcpVars
<1>4. Interface!Discard(f)
  BY <1>2, <1>3 DEF Interface!Discard
<1> QED
  BY <1>4 DEF Interface!ProcessFrame

LEMMA Ipv4Maps ==
  ASSUME Ranges, NEW ethernet, NEW f, Carries(f, ethernet),
         ethernet.ether_type.kind = "Ipv4", ethernet.destination_mac = OwnMac,
         NEW packet, IsIpv4Packet(packet), NEW n \in Nat,
         ethernet.payload = Slice(packet, n), ProcessIpv4Frame(ethernet)
  PROVE  Interface!ProcessFrame(f, clock)
<1> DEFINE data == ethernet.payload
           ipv4 == ParseIpv4(data)
<1>1. f.payload.type = "Ipv4" /\ Interface!IsAddressed(f)
  BY PayloadType DEF Carries, Interface!IsAddressed
<1>2. CASE Ipv4Refuses(data) # None
  <2>1. f.payload = [type |-> "Ipv4", ok |-> FALSE]
    BY <1>2 DEF Carries, PayloadOf
  <2>2. ~ f.payload.ok
    BY ONLY <2>1
  <2>3. Return(Failed("Ipv4", Ipv4Refuses(data)))
    BY <1>2 DEF ProcessIpv4Frame
  <2>4. Interface!Refuse(f)
    BY <1>1, <2>2, <2>3, FailureMaps DEF Interface!Refuse
  <2> QED
    BY <2>4 DEF Interface!ProcessFrame
<1>3. CASE Ipv4Refuses(data) = None
  <2> DEFINE fragment == ipv4.more_fragments = 1 \/ ipv4.fragment_offset # 0
             to   == ipv4.destination
             from == ipv4.source
             body == BodyOf(ipv4)
             kind == ipv4.protocol.kind
             Whole == [type |-> "Ipv4", ok |-> TRUE, destination |-> to,
                       fragment |-> fragment, source |-> from, body |-> body]
  <2>1. f.payload = Whole
    BY <1>3 DEF Carries, PayloadOf
  <2>2. IsAccepted(ipv4, n)
    BY <1>3, AcceptedPacket
  <2>3. IF to # OwnIp \/ fragment THEN Return(Ignored)
        ELSE CASE kind = "Icmp" -> ProcessIcmpPacket(ethernet, ipv4)
               [] kind = "Udp"  -> ProcessUdpDatagram(ethernet, ipv4)
               [] kind = "Tcp"  -> ProcessTcpSegment(ethernet, ipv4)
               [] OTHER         -> Return(Ignored)
    BY <1>3 DEF ProcessIpv4Frame
  <2>4. kind \notin {"Icmp", "Udp", "Tcp"} => body.protocol = "Unknown"
    BY DEF BodyOf
  <2> HIDE DEF fragment, to, from, body
  <2>5. /\ f.payload.ok /\ f.payload.destination = to /\ f.payload.source = from
        /\ f.payload.fragment <=> fragment
        /\ f.payload.body = body
    <3>1. /\ Whole.ok = TRUE /\ Whole.destination = to /\ Whole.source = from
          /\ Whole.body = body
      BY ONLY Zenon
    <3>2. Whole.fragment = fragment
      BY ONLY Zenon
    <3> HIDE DEF Whole
    <3> QED
      BY ONLY <2>1, <3>1, <3>2, Zenon
  <2>6. f.payload.type # "Truncated"
    BY <1>1
  <2>7. CASE to # OwnIp \/ fragment
    <3>1. ~ Interface!IsForThisHost(f)
      BY <2>5, <2>7 DEF Interface!IsForThisHost
    <3> QED
      BY <1>1, <2>3, <2>5, <2>6, <2>7, <3>1, DiscardMaps
  <2>8. CASE /\ ~ (to # OwnIp \/ fragment)
             /\ kind \notin {"Icmp", "Udp", "Tcp"}
    <3>1. ~ Interface!IsForThisHost(f)
      BY <2>4, <2>5, <2>8 DEF Interface!IsForThisHost
    <3>2. Return(Ignored)
      BY <2>3, <2>8
    <3> QED
      BY <1>1, <2>5, <2>6, <3>1, <3>2, DiscardMaps
  <2>9. CASE /\ ~ (to # OwnIp \/ fragment)
             /\ kind \in {"Icmp", "Udp", "Tcp"}
    <3>1. Reaches(f, ethernet, ipv4)
      BY <1>1, <2>5, <2>9 DEF Reaches, Carries, to, from, body
    <3>2. \/ kind = "Icmp" /\ ProcessIcmpPacket(ethernet, ipv4)
          \/ kind = "Udp"  /\ ProcessUdpDatagram(ethernet, ipv4)
          \/ kind = "Tcp"  /\ ProcessTcpSegment(ethernet, ipv4)
      BY <2>3, <2>9
    <3> HIDE DEF ipv4
    <3> QED
      BY <2>2, <3>1, <3>2, IcmpMaps, UdpMaps, TcpMaps
  <2> QED
    BY <2>7, <2>8, <2>9
<1> QED
  BY <1>2, <1>3

(* A call is one of NetworkInterface's, at the instant that it looks at.   *)
LEMMA FrameMaps ==
  ASSUME Ranges, NEW bytes \in Inputs, NEW now \in clock .. Horizon,
         ProcessFrame(bytes, now)
  PROVE  \E instant \in Interface!Now(Abstraction(bytes)) :
           Interface!ProcessFrame(Abstraction(bytes), instant)
<1> DEFINE ethernet == ParseEthFrame(bytes)
           f        == Abstraction(bytes)
           kind     == ethernet.ether_type.kind
           n        == bytes.len - 14
<1>1. /\ f.payload.type = "Arp" => now \in Interface!Now(f)
      /\ f.payload.type # "Arp" => clock \in Interface!Now(f)
  BY DEF Interface!Now
<1>2. CASE EthernetRefuses(bytes) # None
  <2>1. f.payload = [type |-> "Truncated"]
    BY <1>2 DEF Abstraction
  <2> HIDE DEF f
  <2>2. f.payload.type = "Truncated"
    BY <2>1
  <2>3. Return(Failed("Ethernet", EthernetRefuses(bytes)))
    BY <1>2 DEF ProcessFrame
  <2>4. Interface!Refuse(f)
    BY <2>2, <2>3, FailureMaps DEF Interface!Refuse
  <2>5. Interface!ProcessFrame(f, clock)
    BY <2>4 DEF Interface!ProcessFrame
  <2>6. clock \in Interface!Now(f)
    BY <1>1, <2>2
  <2> QED
    BY <2>5, <2>6 DEF f
<1>3. CASE EthernetRefuses(bytes) = None
  <2>1. Carries(f, ethernet)
    <3>1. f = [destination_mac |-> ethernet.destination_mac,
               source_mac |-> ethernet.source_mac,
               payload |-> PayloadOf(ethernet)]
      BY <1>3 DEF Abstraction
    <3> QED
      BY <3>1 DEF Carries
  <2>2. /\ bytes.len \in Nat
        /\ bytes.ether_type = 2048 => IsIpv4Packet(bytes.body)
        /\ bytes.ether_type = 2054 => IsArpPacket(bytes.body)
    BY WireAssumption
  <2>3. n \in Nat
    BY <1>3, <2>2 DEF EthernetRefuses, ETHERNET_HEADER_LEN, None
  <2>4. ethernet.payload = Slice(bytes.body, n)
    BY DEF ParseEthFrame, ETHERNET_HEADER_LEN
  <2>5. /\ kind = "Ipv4" => bytes.ether_type = 2048
        /\ kind = "Arp"  => bytes.ether_type = 2054
    BY DEF ParseEthFrame, FromU16
  <2>6. /\ kind = "Arp"  => f.payload.type = "Arp"
        /\ kind = "Ipv4" => f.payload.type = "Ipv4"
        /\ kind \notin {"Arp", "Ipv4"} => f.payload.type = "Other"
    BY <2>1, PayloadType DEF Carries
  <2>7. IF kind = "Ipv4" /\ ethernet.destination_mac = OwnMac
        THEN ProcessIpv4Frame(ethernet)
        ELSE IF kind = "Arp" /\ ethernet.destination_mac \in {OwnMac, Broadcast}
        THEN ProcessArpFrame(ethernet, now)
        ELSE Return(Ignored)
    BY <1>3 DEF ProcessFrame
  <2> HIDE DEF f, ethernet, n
  <2>8. CASE kind = "Ipv4" /\ ethernet.destination_mac = OwnMac
    <3> DEFINE packet == bytes.body
    <3>1. IsIpv4Packet(packet) /\ ethernet.payload = Slice(packet, n)
      BY <2>2, <2>4, <2>5, <2>8
    <3> HIDE DEF packet
    <3>2. Interface!ProcessFrame(f, clock)
      BY <2>1, <2>3, <2>7, <2>8, <3>1, Ipv4Maps
    <3> QED
      BY <1>1, <2>6, <2>8, <3>2 DEF f
  <2>9. CASE kind = "Arp" /\ ethernet.destination_mac \in {OwnMac, Broadcast}
    <3>1. ethernet.payload.sender_ip \in Nat
      BY <2>2, <2>4, <2>5, <2>9 DEF IsArpPacket, Slice
    <3>2. Interface!ProcessFrame(f, now)
      BY <2>1, <2>7, <2>9, <3>1, ArpMaps
    <3> QED
      BY <1>1, <2>6, <2>9, <3>2 DEF f
  <2>10. CASE /\ ~ (kind = "Ipv4" /\ ethernet.destination_mac = OwnMac)
              /\ ~ (kind = "Arp" /\ ethernet.destination_mac \in {OwnMac, Broadcast})
    <3>1. Return(Ignored)
      BY <2>7, <2>10
    <3>2. f.payload.type # "Truncated" /\ ~ Interface!IsAddressed(f)
      BY <2>1, <2>6, <2>10 DEF Interface!IsAddressed, Carries
    <3>3. Interface!ProcessFrame(f, now) /\ Interface!ProcessFrame(f, clock)
      BY <3>1, <3>2, DiscardMaps
    <3> QED
      BY <1>1, <3>3 DEF f
  <2> QED
    BY <2>8, <2>9, <2>10
<1> QED
  BY <1>2, <1>3
--------------------------------------------------------------------------------
(* The numbers of a reply keep their ranges.                                *)

LEMMA InitRanges == Init => Ranges
<1> SUFFICES ASSUME Init PROVE Ranges
  OBVIOUS
<1>1. next_ipv4_identification = 0 /\ 0 < IdMod
  BY OwnAssumption DEF Init
<1>2. DOMAIN connections = {} /\ next_initial_sequence = InitialSequence
  BY DEF Init, Listener!Init
<1> QED
  BY <1>1, <1>2, OwnAssumption DEF Ranges, TableInRange

LEMMA NextIdentificationInRange ==
  ASSUME Ranges, \/ UNCHANGED next_ipv4_identification
                 \/ next_ipv4_identification' = (next_ipv4_identification + 1) % IdMod
  PROVE  next_ipv4_identification' \in Nat /\ next_ipv4_identification' < IdMod
<1>1. IdMod \in Nat /\ IdMod > 0
  BY OwnAssumption
<1> QED
  BY <1>1 DEF Ranges

LEMMA SameTable ==
  ASSUME Ranges, UNCHANGED tcpVars,
         \/ UNCHANGED next_ipv4_identification
         \/ next_ipv4_identification' = (next_ipv4_identification + 1) % IdMod
  PROVE  Ranges'
<1>1. /\ next_ipv4_identification' \in Nat /\ next_ipv4_identification' < IdMod
  BY NextIdentificationInRange
<1> QED
  BY <1>1 DEF Ranges, TableInRange, tcpVars

(* A reply takes an identification or leaves it to the next.               *)
LEMMA ReplyIdentification ==
  ASSUME NEW refuses, NEW class, NEW ethernet, NEW request, NEW protocol, NEW bytes,
         ReplyUnless(refuses, class, ethernet, request, protocol, bytes)
  PROVE  \/ UNCHANGED next_ipv4_identification
         \/ next_ipv4_identification' = (next_ipv4_identification + 1) % IdMod
BY DEF ReplyUnless, BuildIpv4Reply

LEMMA TcpRanges ==
  ASSUME Ranges, NEW ethernet, NEW ipv4, ipv4.payload.sequence_number \in Nat,
         ProcessTcpSegment(ethernet, ipv4)
  PROVE  Ranges'
<1> DEFINE data    == ipv4.payload
           invalid == TcpInvalid(ipv4.source, ipv4.destination, data)
           segment == SegmentOf(ParseTcp(data))
<1>1. CASE invalid # None
  <2>1. UNCHANGED stackVars
    BY <1>1 DEF ProcessTcpSegment, Return
  <2> QED
    BY <2>1, SameTable DEF stackVars
<1>2. CASE invalid = None
  <2>1. segment.sequence_number \in Nat
    BY DEF SegmentOf, ParseTcp
  <2>2. /\ Listener!ReceiveSegment(ipv4.source, segment)
        /\ SendSynAck(ethernet, ipv4) \/ UNCHANGED next_ipv4_identification
    BY <1>2 DEF ProcessTcpSegment
  <2> HIDE DEF segment
  <2>3. \/ UNCHANGED next_ipv4_identification
        \/ next_ipv4_identification' = (next_ipv4_identification + 1) % IdMod
    BY <2>2, ReplyIdentification DEF SendSynAck
  <2>4. next_ipv4_identification' \in Nat /\ next_ipv4_identification' < IdMod
    BY <2>3, NextIdentificationInRange
  <2>5. next_initial_sequence' \in Nat /\ TableInRange'
    BY <2>1, <2>2, AnswerRanges
  <2> QED
    BY <2>4, <2>5 DEF Ranges
<1> QED
  BY <1>1, <1>2

LEMMA Ipv4Ranges ==
  ASSUME Ranges, NEW ethernet, NEW packet, IsIpv4Packet(packet), NEW n \in Nat,
         ethernet.payload = Slice(packet, n), ProcessIpv4Frame(ethernet)
  PROVE  Ranges'
<1> DEFINE data == ethernet.payload
           ipv4 == ParseIpv4(data)
<1>1. \/ UNCHANGED stackVars
      \/ Ipv4Refuses(data) = None /\ ProcessIcmpPacket(ethernet, ipv4)
      \/ Ipv4Refuses(data) = None /\ ProcessUdpDatagram(ethernet, ipv4)
      \/ /\ Ipv4Refuses(data) = None /\ ipv4.protocol.kind = "Tcp"
         /\ ProcessTcpSegment(ethernet, ipv4)
  BY DEF ProcessIpv4Frame, Return
<1>2. Ipv4Refuses(data) = None => IsAccepted(ipv4, n)
  BY AcceptedPacket
<1> HIDE DEF ipv4
<1>3. CASE UNCHANGED stackVars
  BY <1>3, SameTable DEF stackVars
<1>4. CASE ProcessIcmpPacket(ethernet, ipv4)
  <2>1. /\ UNCHANGED tcpVars
        /\ \/ UNCHANGED next_ipv4_identification
           \/ next_ipv4_identification' = (next_ipv4_identification + 1) % IdMod
    BY <1>4, ReplyIdentification DEF ProcessIcmpPacket, Return, stackVars
  <2> QED
    BY <2>1, SameTable
<1>5. CASE ProcessUdpDatagram(ethernet, ipv4)
  <2>1. /\ UNCHANGED tcpVars
        /\ \/ UNCHANGED next_ipv4_identification
           \/ next_ipv4_identification' = (next_ipv4_identification + 1) % IdMod
    BY <1>5, ReplyIdentification DEF ProcessUdpDatagram, Return, stackVars
  <2> QED
    BY <2>1, SameTable
<1>6. CASE /\ Ipv4Refuses(data) = None /\ ipv4.protocol.kind = "Tcp"
           /\ ProcessTcpSegment(ethernet, ipv4)
  <2>1. ipv4.payload.sequence_number \in Nat
    BY <1>2, <1>6 DEF IsAccepted, IsTcpSegment
  <2> QED
    BY <1>6, <2>1, TcpRanges
<1> QED
  BY <1>1, <1>3, <1>4, <1>5, <1>6

LEMMA FrameRanges ==
  ASSUME Ranges, NEW bytes \in Inputs, NEW now, ProcessFrame(bytes, now)
  PROVE  Ranges'
<1> DEFINE ethernet == ParseEthFrame(bytes)
           packet   == bytes.body
           n        == bytes.len - 14
<1>1. \/ UNCHANGED stackVars
      \/ /\ EthernetRefuses(bytes) = None /\ ethernet.ether_type.kind = "Ipv4"
         /\ ProcessIpv4Frame(ethernet)
      \/ ProcessArpFrame(ethernet, now)
  BY DEF ProcessFrame, Return
<1>2. CASE UNCHANGED stackVars
  BY <1>2, SameTable DEF stackVars
<1>3. CASE /\ EthernetRefuses(bytes) = None /\ ethernet.ether_type.kind = "Ipv4"
           /\ ProcessIpv4Frame(ethernet)
  <2>1. n \in Nat
    BY <1>3, WireAssumption DEF EthernetRefuses, ETHERNET_HEADER_LEN, None
  <2>2. bytes.ether_type = 2048
    BY <1>3 DEF ParseEthFrame, FromU16
  <2>3. IsIpv4Packet(packet) /\ ethernet.payload = Slice(packet, n)
    BY <2>2, WireAssumption DEF ParseEthFrame, ETHERNET_HEADER_LEN
  <2> HIDE DEF packet, n, ethernet
  <2> QED
    BY <1>3, <2>1, <2>3, Ipv4Ranges
<1>4. CASE ProcessArpFrame(ethernet, now)
  <2>1. UNCHANGED <<tcpVars, next_ipv4_identification>>
    BY <1>4 DEF ProcessArpFrame, Return, stackVars
  <2> QED
    BY <2>1, SameTable
<1> QED
  BY <1>1, <1>2, <1>3, <1>4

LEMMA RangesKept == Ranges /\ [Next]_wireVars => Ranges'
<1>1. ASSUME Ranges, Next PROVE Ranges'
  BY <1>1, FrameRanges DEF Next
<1>2. ASSUME Ranges, UNCHANGED wireVars PROVE Ranges'
  BY <1>2, SameTable DEF wireVars, stackVars
<1> QED
  BY <1>1, <1>2
--------------------------------------------------------------------------------
(* One call of the interface is one of NetworkInterface, or none at all.   *)
LEMMA StepMaps == Ranges /\ [Next]_wireVars => [Interface!Next]_Interface!ifVars
<1>1. ASSUME Ranges, Next PROVE Interface!Next
  <2>1. PICK bytes \in Inputs, now \in clock .. Horizon : ProcessFrame(bytes, now)
    BY <1>1 DEF Next
  <2>2. Abstraction(bytes) \in AbstractInputs
    BY DEF AbstractInputs
  <2>3. \E instant \in Interface!Now(Abstraction(bytes)) :
          Interface!ProcessFrame(Abstraction(bytes), instant)
    BY <1>1, <2>1, FrameMaps
  <2> QED
    BY <2>2, <2>3 DEF Interface!Next
<1>2. ASSUME UNCHANGED wireVars PROVE UNCHANGED Interface!ifVars
  <2>1. output' = output
    BY <1>2 DEF wireVars
  <2>2. AbstractResult' = AbstractResult
    BY <2>1 DEF AbstractResult
  <2> QED
    BY <1>2, <2>2 DEF wireVars, stackVars, arpVars, tcpVars, Interface!ifVars,
                      Interface!arpVars, Interface!tcpVars
<1> QED
  BY <1>1, <1>2

(* Whatever frames arrive, every call does to the stack what               *)
(* NetworkInterface says of the frame, and the bytes of its reply are      *)
(* accepted by the parsers and the checksums of a receiver, which reads    *)
(* the reply that was meant: process_frame_at on bytes is process_frame_at *)
(* on what the parsers make of them.                                       *)
THEOREM WireImplementsInterface == Spec => ImplementsInterface
BY InitMaps, InitRanges, RangesKept, StepMaps, PTL
   DEF Spec, ImplementsInterface, Interface!Spec
================================================================================
