-------------------------------- MODULE Codecs --------------------------------
(* All formats together, and the errors of an interface that uses them.    *)
EXTENDS ArpCodec, Ipv4Codec, IcmpCodec, UdpCodec, TcpCodec

(* InterfaceError: its variants, and the errors that each of them wraps.   *)
Errors ==
  [Ethernet      |-> EthernetParseErrors,
   Ipv4          |-> Ipv4ParseErrors,
   Icmp          |-> IcmpParseErrors,
   Serialise     |-> SerialiseErrors,
   Ipv4Serialise |-> Ipv4SerialiseErrors,
   Arp           |-> ArpParseErrors,
   Udp           |-> UdpParseErrors,
   UdpSerialise  |-> UdpSerialiseErrors,
   Tcp           |-> TcpParseErrors,
   TcpSerialise  |-> TcpSerialiseErrors]

(* The variants that a frame may cause; the others are the stack's own.    *)
ParseErrors == {"Ethernet", "Ipv4", "Icmp", "Arp", "Udp", "Tcp"}
================================================================================
