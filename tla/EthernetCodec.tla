----------------------------- MODULE EthernetCodec -----------------------------
(***************************************************************************)
(* The layout of messages on the wire, and the outermost of them.          *)
(*                                                                         *)
(* A message is the record of its header fields as they stand on the wire, *)
(* with what it carries in body and the number of bytes that are there in  *)
(* len: the length of the slice a parser is given.  A message cut below    *)
(* its header still has the fields, but no parser may get to look at them. *)
(* For each format there is what its parser refuses, what it makes of a    *)
(* message it accepts, what write_to refuses, and what it writes.          *)
(***************************************************************************)
EXTENDS OnesComplement

(* Bytes that only their sum tells apart.                                  *)
Bytes(fill, len) == [fill |-> fill, len |-> len]
NoBytes == Bytes(0, 0)
ByteSlice == [fill : U8, len : Nat]

(* The slice of the first n bytes of a message.                            *)
Slice(message, n) == [message EXCEPT !.len = n]

(* The first condition of a parser or writer that holds names its error.   *)
None == "None"

ETHERNET_HEADER_LEN == 14

EthernetParseErrors == {"FrameTooShort"}
SerialiseErrors     == {"BufferTooSmall"}

(* from_u16 and as_u16 of EtherType.                                       *)
FromU16(value) ==
  CASE value = 2048  -> [kind |-> "Ipv4"]
    [] value = 2054  -> [kind |-> "Arp"]
    [] value = 34525 -> [kind |-> "Ipv6"]
    [] OTHER         -> [kind |-> "Unknown", value |-> value]

AsU16(ether_type) ==
  CASE ether_type.kind = "Ipv4"    -> 2048
    [] ether_type.kind = "Arp"     -> 2054
    [] ether_type.kind = "Ipv6"    -> 34525
    [] ether_type.kind = "Unknown" -> ether_type.value

EthernetRefuses(frame) ==
  IF frame.len < ETHERNET_HEADER_LEN THEN "FrameTooShort" ELSE None

ParseEthFrame(frame) ==
  [destination_mac |-> frame.destination_mac,
   source_mac      |-> frame.source_mac,
   ether_type      |-> FromU16(frame.ether_type),
   payload         |-> Slice(frame.body, frame.len - ETHERNET_HEADER_LEN)]

EthernetRequired(packet) == ETHERNET_HEADER_LEN + packet.payload.len

EthernetWriteRefuses(packet, room) ==
  IF room < EthernetRequired(packet) THEN "BufferTooSmall" ELSE None

WriteEthernet(packet) ==
  [destination_mac |-> packet.destination_mac,
   source_mac      |-> packet.source_mac,
   ether_type      |-> AsU16(packet.ether_type),
   body            |-> packet.payload,
   len             |-> EthernetRequired(packet)]
================================================================================
