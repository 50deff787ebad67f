------------------------------- MODULE Ipv4Codec -------------------------------
(* parse_ipv4_packet and Ipv4Packet::write_to.                             *)
EXTENDS EthernetCodec

IPV4_MIN_HEADER_LEN == 20

Ipv4ParseErrors ==
  {"PacketTooShort", "InvalidVersion", "InvalidIhl", "TruncatedHeader",
   "TotalLengthTooSmall", "TruncatedPacket", "InvalidChecksum", "ReservedFlagSet"}

Ipv4SerialiseErrors ==
  {"BufferTooSmall", "TotalLengthTooLarge", "OptionsNotMultipleOfFour",
   "OptionsTooLong", "FragmentOffsetOutOfRange", "DscpOutOfRange", "EcnOutOfRange"}

Bit(word, n) == (word \div n) % 2

HeaderLength(packet) == (packet.version_and_ihl % 16) * 4

(* The sum of the words of the header, row by row; len is what its IHL     *)
(* says.                                                                   *)
Ipv4HeaderSum(packet, len) ==
  (packet.version_and_ihl * 256 + packet.dscp_and_ecn + packet.total_length)
    + (packet.identification + packet.flags_and_fragment_offset)
    + (packet.ttl * 256 + packet.protocol + packet.checksum)
    + (IpSum(packet.source) + IpSum(packet.destination))
    + RunSum(packet.options.fill, len - IPV4_MIN_HEADER_LEN)

(* Mutant: only the header is looked for.                                  *)
HeaderIsThere(packet) == packet.len < HeaderLength(packet)

(* The slice ends before the packet does.                                  *)
Truncated(packet) == packet.len < packet.total_length

(* The checksum is the last thing looked at, and covers the header alone.  *)
Ipv4Refuses(packet) ==
  LET header_length == HeaderLength(packet) IN
  IF      packet.len < IPV4_MIN_HEADER_LEN      THEN "PacketTooShort"
  ELSE IF packet.version_and_ihl \div 16 # 4    THEN "InvalidVersion"
  ELSE IF packet.version_and_ihl % 16 < 5       THEN "InvalidIhl"
  ELSE IF packet.len < header_length            THEN "TruncatedHeader"
  ELSE IF packet.total_length < header_length   THEN "TotalLengthTooSmall"
  ELSE IF Truncated(packet)                     THEN "TruncatedPacket"
  ELSE IF Bit(packet.flags_and_fragment_offset, 32768) # 0
                                                THEN "ReservedFlagSet"
  ELSE IF ~ Validates(Ipv4HeaderSum(packet, header_length))
                                                THEN "InvalidChecksum"
  ELSE None

Protocol(value) ==
  CASE value = 1  -> [kind |-> "Icmp"]
    [] value = 6  -> [kind |-> "Tcp"]
    [] value = 17 -> [kind |-> "Udp"]
    [] OTHER      -> [kind |-> "Unknown", value |-> value]

AsU8(protocol) ==
  CASE protocol.kind = "Icmp"    -> 1
    [] protocol.kind = "Tcp"     -> 6
    [] protocol.kind = "Udp"     -> 17
    [] protocol.kind = "Unknown" -> protocol.value

(* Mutant: the payload goes on to the end of the slice.                    *)
PayloadToTheEnd(packet) == Slice(packet.body, packet.len - HeaderLength(packet))

(* The fields of an Ipv4Packet around a payload.                           *)
Ipv4Packet(payloads) ==
  [dscp : U8, ecn : U8, identification : U16, ttl : U8,
   protocol : [kind : {"Icmp", "Tcp", "Udp"}] \cup [kind : {"Unknown"}, value : U8],
   dont_fragment : 0 .. 1, more_fragments : 0 .. 1, fragment_offset : U16,
   source : Nat, destination : Nat, options : ByteSlice, payload : payloads]

(* What follows total_length in the slice is left aside as trailing_bytes. *)
Payload(packet) ==
  Slice(packet.body, packet.total_length - HeaderLength(packet))

ParseIpv4(packet) ==
  LET header_length == HeaderLength(packet)
      word == packet.flags_and_fragment_offset
  IN [dscp            |-> packet.dscp_and_ecn \div 4,
      ecn             |-> packet.dscp_and_ecn % 4,
      identification  |-> packet.identification,
      ttl             |-> packet.ttl,
      protocol        |-> Protocol(packet.protocol),
      dont_fragment   |-> Bit(word, 16384),
      more_fragments  |-> Bit(word, 8192),
      fragment_offset |-> word % 8192,
      source          |-> packet.source,
      destination     |-> packet.destination,
      options         |-> Bytes(packet.options.fill,
                                header_length - IPV4_MIN_HEADER_LEN),
      payload         |-> Payload(packet)]

Ipv4HeaderRequired(packet) == IPV4_MIN_HEADER_LEN + packet.options.len

Ipv4Required(packet) == Ipv4HeaderRequired(packet) + packet.payload.len

(* The length of the payload is compared before it is added to the header. *)
Ipv4WriteRefuses(packet, room) ==
  IF      packet.options.len > 40          THEN "OptionsTooLong"
  ELSE IF packet.options.len % 4 # 0       THEN "OptionsNotMultipleOfFour"
  ELSE IF packet.dscp > 63                 THEN "DscpOutOfRange"
  ELSE IF packet.ecn > 3                   THEN "EcnOutOfRange"
  ELSE IF packet.fragment_offset > 8191    THEN "FragmentOffsetOutOfRange"
  ELSE IF packet.payload.len > Ones - Ipv4HeaderRequired(packet)
                                           THEN "TotalLengthTooLarge"
  ELSE IF room < Ipv4Required(packet)      THEN "BufferTooSmall"
  ELSE None

(* The header before its checksum is known.                                *)
Ipv4Unsealed(packet) ==
  [version_and_ihl           |-> 64 + Ipv4HeaderRequired(packet) \div 4,
   dscp_and_ecn              |-> packet.dscp * 4 + packet.ecn,
   total_length              |-> Ipv4Required(packet),
   identification            |-> packet.identification,
   flags_and_fragment_offset |-> packet.dont_fragment * 16384
                                   + packet.more_fragments * 8192
                                   + packet.fragment_offset,
   ttl                       |-> packet.ttl,
   protocol                  |-> AsU8(packet.protocol),
   checksum                  |-> 0,
   source                    |-> packet.source,
   destination               |-> packet.destination,
   options                   |-> packet.options,
   body                      |-> packet.payload,
   len                       |-> Ipv4Required(packet)]

WriteIpv4(packet) ==
  LET unsealed == Ipv4Unsealed(packet) IN
  [unsealed EXCEPT
     !.checksum = ChecksumOf(Ipv4HeaderSum(unsealed, Ipv4HeaderRequired(packet)))]
================================================================================
