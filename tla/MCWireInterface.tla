---------------------------- MODULE MCWireInterface ----------------------------
(***************************************************************************)
(* Frames of every kind for this host, 10.0.0.1, from 10.0.0.2: accepted,  *)
(* refused by each parser, padded, cut, with options, with a payload that  *)
(* fills the largest packet, and foreign ones.                             *)
(***************************************************************************)
EXTENDS WireInterface, TLC

CONSTANTS own, all, third, m1

MCMac == {m1}
MCIp == {167772161, 167772162}
MCPort == {0, 9000, 40000}
MCFlagSets == SUBSET {"FIN", "SYN", "RST", "PSH", "ACK", "URG", "ECE", "CWR"}

Ethernet(to, type, payload) ==
  WriteEthernet([destination_mac |-> to, source_mac |-> m1, ether_type |-> type,
                 payload |-> payload])

Arp(kind, from, target) ==
  WriteArp([BuildRequest(target, m1, from, m1) EXCEPT !.operation = kind])

ArpPackets ==
  {Arp([kind |-> "Request"], 167772162, target) : target \in MCIp} \cup
  {Arp([kind |-> "Reply"], 167772162, 167772161),
   Arp([kind |-> "Unknown", value |-> 3], 167772162, 167772161)}

BadArpPackets ==
  LET packet == Arp([kind |-> "Request"], 167772162, 167772161) IN
  {[packet EXCEPT !.hardware_type = 6], [packet EXCEPT !.protocol_type = 34525],
   [packet EXCEPT !.hardware_size = 8], [packet EXCEPT !.protocol_size = 16],
   Slice(packet, 27)}

Header(protocol, options) ==
  [dscp |-> 46, ecn |-> 3, identification |-> 7, ttl |-> 1, protocol |-> protocol,
   dont_fragment |-> 1, more_fragments |-> 0, fragment_offset |-> 0,
   source |-> 167772162, destination |-> 167772161, options |-> options,
   payload |-> NoBytes]

Ipv4(kind, body) ==
  WriteIpv4([Header([kind |-> kind], NoBytes) EXCEPT !.payload = body])

Echo(kind, payload) ==
  WriteIcmp([kind |-> kind, identifier |-> 1, sequence_number |-> 2,
             payload |-> payload])

Datagram(from, to, payload) ==
  WriteUdp(167772162, 167772161,
           [source_port |-> from, destination_port |-> to, payload |-> payload])

Segment(sequence_number, acknowledgement_number, flags) ==
  WriteTcp(167772162, 167772161,
           [source_port |-> 40000, destination_port |-> 9000,
            sequence_number |-> sequence_number,
            acknowledgement_number |-> acknowledgement_number,
            flags |-> flags, window_size |-> 1024, urgent_pointer |-> 0,
            options |-> Bytes(1, 4), payload |-> NoBytes])

EchoRequest == [Header([kind |-> "Icmp"], NoBytes)
                  EXCEPT !.payload = Echo("EchoRequest", Bytes(7, 3))]
EchoPacket == WriteIpv4(EchoRequest)
UdpPacket  == Ipv4("Udp", Datagram(40000, 9000, Bytes(7, 3)))
TcpPacket  == Ipv4("Tcp", Segment(1, 0, 2))

(* The largest echo request and datagram, an echo request behind options,  *)
(* a datagram without a checksum, one that is shorter than its packet, and *)
(* a handshake: SYN, another SYN, the ACK and one of another number.       *)
GoodPackets ==
  {EchoPacket, UdpPacket, TcpPacket,
   Ipv4("Icmp", Echo("EchoRequest", Bytes(255, Ones - 28))),
   Ipv4("Icmp", Echo("EchoReply", NoBytes)),
   Ipv4("Icmp", WriteIcmp([kind |-> "Unknown", message_type |-> 3, code |-> 1,
                           payload |-> Bytes(7, 5)])),
   WriteIpv4([Header([kind |-> "Icmp"], Bytes(1, 40))
                EXCEPT !.payload = Echo("EchoRequest", NoBytes)]),
   Ipv4("Udp", Datagram(9000, 9000, Bytes(255, Ones - 28))),
   Ipv4("Udp", Slice(Datagram(40000, 9000, NoBytes), 12)),
   Ipv4("Udp", [Datagram(40000, 9000, Bytes(7, 3)) EXCEPT !.checksum = 0]),
   Ipv4("Udp", Datagram(0, 9000, NoBytes)),
   Ipv4("Udp", Datagram(40000, 0, NoBytes)),
   Ipv4("Tcp", Segment(2, 0, 2)),
   Ipv4("Tcp", Segment(2, 305419897, 16)),
   Ipv4("Tcp", Segment(2, 305419896, 16)),
   WriteIpv4(Header([kind |-> "Unknown", value |-> 47], NoBytes)),
   WriteIpv4([EchoRequest EXCEPT !.destination = 167772162]),
   WriteIpv4([EchoRequest EXCEPT !.more_fragments = 1]),
   WriteIpv4([EchoRequest EXCEPT !.fragment_offset = 1])}

(* One packet for each refusal of each parser.                             *)
BadPackets ==
  {Slice(EchoPacket, 19), Slice(EchoPacket, 30),
   [EchoPacket EXCEPT !.version_and_ihl = 101],
   [EchoPacket EXCEPT !.version_and_ihl = 68],
   [Slice(EchoPacket, 24) EXCEPT !.version_and_ihl = 79],
   [EchoPacket EXCEPT !.total_length = 19],
   [EchoPacket EXCEPT !.flags_and_fragment_offset = 32768],
   [EchoPacket EXCEPT !.ttl = 2],
   Ipv4("Icmp", Slice(Echo("EchoRequest", NoBytes), 3)),
   Ipv4("Icmp", Slice(Echo("EchoRequest", NoBytes), 7)),
   Ipv4("Icmp", [Echo("EchoRequest", NoBytes) EXCEPT !.code = 1]),
   Ipv4("Icmp", [Echo("EchoRequest", NoBytes) EXCEPT !.identifier = 2]),
   Ipv4("Udp", Slice(Datagram(40000, 9000, NoBytes), 7)),
   Ipv4("Udp", Slice(Datagram(40000, 9000, Bytes(7, 3)), 10)),
   Ipv4("Udp", [Datagram(40000, 9000, NoBytes) EXCEPT !.length = 7]),
   Ipv4("Udp", [Datagram(40000, 9000, NoBytes) EXCEPT !.source_port = 0]),
   Ipv4("Tcp", Slice(Segment(1, 0, 2), 19)),
   Ipv4("Tcp", Slice(Segment(1, 0, 2), 23)),
   Ipv4("Tcp", [Segment(1, 0, 2) EXCEPT !.data_offset_and_reserved = 64]),
   Ipv4("Tcp", [Segment(1, 0, 2) EXCEPT !.flags = 18])}

MCInputs ==
  {Ethernet(own, [kind |-> "Arp"], p) : p \in ArpPackets \cup BadArpPackets} \cup
  {Ethernet(all, [kind |-> "Arp"], p) : p \in ArpPackets} \cup
  {Ethernet(own, [kind |-> "Ipv4"], p) : p \in GoodPackets \cup BadPackets} \cup
  {Ethernet(to, [kind |-> "Ipv4"], EchoPacket) : to \in {all, third}} \cup
  {Ethernet(own, [kind |-> "Ipv6"], EchoPacket),
   Ethernet(own, [kind |-> "Unknown", value |-> 35020], EchoPacket)} \cup
  {Slice(Ethernet(own, [kind |-> "Ipv4"], p), 60) : p \in {EchoPacket, UdpPacket}} \cup
  {Slice(Ethernet(own, [kind |-> "Ipv4"], EchoPacket), 13)}
================================================================================
