-------------------------------- MODULE MCLink --------------------------------
(***************************************************************************)
(* Messages of every kind, with and without options and a payload of odd   *)
(* length, and among them a datagram and an echo reply whose words add up  *)
(* to all ones: their checksum is 0, which UDP must not send.  Two cannot  *)
(* be serialised: their options are no whole words, or the payload too long.*)
(***************************************************************************)
EXTENDS Link, TLC

MCMacs == {"0", "a", "b"}
MCPayloads == {NoBytes, Bytes(255, 3), Bytes(7, 4)}

Ethernet(kind) ==
  [destination_mac |-> "b", source_mac |-> "a", ether_type |-> [kind |-> kind],
   payload |-> NoBytes]

Ip(protocol, options, fragment) ==
  [dscp |-> 46, ecn |-> 1, identification |-> Ones, ttl |-> 64,
   protocol |-> [kind |-> protocol],
   dont_fragment |-> 1 - fragment, more_fragments |-> fragment,
   fragment_offset |-> 8191 * fragment,
   source |-> 167772161, destination |-> 167772162,
   options |-> options, payload |-> NoBytes]

Packet(protocol, options, body) ==
  {[ethernet |-> Ethernet("Ipv4"), ip |-> Ip(protocol, options, fragment),
    body |-> body] : fragment \in 0 .. 1}

Echo(kind, sequence_number, payload) ==
  [kind |-> kind, identifier |-> 1, sequence_number |-> sequence_number,
   payload |-> payload]

Datagram(from, payload) ==
  [source_port |-> from, destination_port |-> 9000, payload |-> payload]

Segment(flags, options, payload) ==
  [source_port |-> 40000, destination_port |-> 9000,
   sequence_number |-> 305419896, acknowledgement_number |-> Ones,
   flags |-> flags, window_size |-> Ones, urgent_pointer |-> 0,
   options |-> options, payload |-> payload]

(* The port that makes the checksum of an empty datagram 0.                *)
ZeroPort ==
  Ones - Reduce(UdpSum(167772161, 167772162, UdpUnsealed(Datagram(0, NoBytes))))

MCMessages ==
  {[ethernet |-> Ethernet("Arp"), body |-> body] :
     body \in {BuildRequest(167772162, "a", 167772161, "0"),
               BuildReply(BuildRequest(167772162, "a", 167772161, "0"),
                          "b", 167772162),
               [BuildRequest(167772162, "a", 167772161, "0")
                  EXCEPT !.operation = [kind |-> "Unknown", value |-> 3]]}} \cup
  UNION {Packet("Icmp", NoBytes, Echo("EchoRequest", 2, p)) : p \in MCPayloads} \cup
  Packet("Icmp", Bytes(1, 40), Echo("EchoReply", Ones - 1, NoBytes)) \cup
  Packet("Icmp", NoBytes, [kind |-> "Unknown", message_type |-> 3, code |-> 1,
                           payload |-> Bytes(7, 5)]) \cup
  UNION {Packet("Udp", NoBytes, Datagram(5353, p)) : p \in MCPayloads} \cup
  Packet("Udp", Bytes(1, 4), Datagram(ZeroPort, NoBytes)) \cup
  UNION {Packet("Tcp", NoBytes, Segment(18, NoBytes, p)) : p \in MCPayloads} \cup
  Packet("Tcp", Bytes(1, 8), Segment(2, Bytes(1, 40), NoBytes)) \cup
  Packet("Udp", Bytes(1, 6), Datagram(5353, NoBytes)) \cup
  Packet("Udp", NoBytes, Datagram(5353, Bytes(7, Ones - 27)))

MCPadding == {1, 18}
MCWords == {0, 1, 17, 255, 256, Ones - 1, Ones}
================================================================================
