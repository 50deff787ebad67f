------------------------------- MODULE ArpCodec -------------------------------
(* ArpPacket::parse, ArpPacket::write_to, build_reply and build_request.   *)
EXTENDS EthernetCodec

ARP_HEADER_LEN == 28

ArpParseErrors ==
  {"PacketTooShort", "UnsupportedHardwareType", "UnsupportedProtocolType",
   "InvalidHardwareAddressLength", "InvalidProtocolAddressLength"}

(* HardwareType and ProtocolType: the one value that each of them has.     *)
HARDWARE_TYPE_ETHERNET == 1
PROTOCOL_TYPE_IPV4     == 2048

(* The lengths are looked at after the types, whatever the operation is.   *)
ArpRefuses(packet) ==
  IF      packet.len < ARP_HEADER_LEN  THEN "PacketTooShort"
  ELSE IF packet.hardware_type # HARDWARE_TYPE_ETHERNET
                                       THEN "UnsupportedHardwareType"
  ELSE IF packet.protocol_type # PROTOCOL_TYPE_IPV4
                                       THEN "UnsupportedProtocolType"
  ELSE IF packet.hardware_size # 6     THEN "InvalidHardwareAddressLength"
  ELSE IF packet.protocol_size # 4     THEN "InvalidProtocolAddressLength"
  ELSE None

Operation(value) ==
  CASE value = 1 -> [kind |-> "Request"]
    [] value = 2 -> [kind |-> "Reply"]
    [] OTHER     -> [kind |-> "Unknown", value |-> value]

OperationAsU16(operation) ==
  CASE operation.kind = "Request" -> 1
    [] operation.kind = "Reply"   -> 2
    [] operation.kind = "Unknown" -> operation.value

(* The fields of an ArpPacket that have more than one value.  Not Unknown  *)
(* are the values that have a name.                                        *)
ArpPacket(macs) ==
  [operation : [kind : {"Request", "Reply"}] \cup
               [kind : {"Unknown"}, value : U16 \ {1, 2}],
   sender_mac : macs, sender_ip : Nat, target_mac : macs, target_ip : Nat]

(* What is left of an accepted packet: its types and sizes have one value. *)
ParseArp(packet) ==
  [operation      |-> Operation(packet.operation),
   sender_mac     |-> packet.sender_mac,
   sender_ip      |-> packet.sender_ip,
   target_mac     |-> packet.target_mac,
   target_ip      |-> packet.target_ip]

ArpWriteRefuses(room) ==
  IF room < ARP_HEADER_LEN THEN "BufferTooSmall" ELSE None

WriteArp(packet) ==
  [hardware_type |-> HARDWARE_TYPE_ETHERNET,
   protocol_type |-> PROTOCOL_TYPE_IPV4,
   hardware_size |-> 6,
   protocol_size |-> 4,
   operation     |-> OperationAsU16(packet.operation),
   sender_mac    |-> packet.sender_mac,
   sender_ip     |-> packet.sender_ip,
   target_mac    |-> packet.target_mac,
   target_ip     |-> packet.target_ip,
   len           |-> ARP_HEADER_LEN]

(* build_reply answers nothing else.                                       *)
AsksFor(request, local_ip) ==
  request.operation.kind = "Request" /\ request.target_ip = local_ip

(* Mutant: sender and target change places, and the MAC address that was   *)
(* asked for is left as it was in the request.                             *)
ExchangeEnds(request, local_mac, local_ip) ==
  [operation  |-> [kind |-> "Reply"],
   sender_mac |-> request.target_mac,
   sender_ip  |-> local_ip,
   target_mac |-> request.sender_mac,
   target_ip  |-> request.sender_ip]

BuildReply(request, local_mac, local_ip) ==
  [operation  |-> [kind |-> "Reply"],
   sender_mac |-> local_mac,
   sender_ip  |-> local_ip,
   target_mac |-> request.sender_mac,
   target_ip  |-> request.sender_ip]

(* MacAddress::new([0; 6]): zero is a MAC address like any other.          *)
BuildRequest(target_ip, source_mac, source_ip, zero) ==
  [operation  |-> [kind |-> "Request"],
   sender_mac |-> source_mac,
   sender_ip  |-> source_ip,
   target_mac |-> zero,
   target_ip  |-> target_ip]
================================================================================
