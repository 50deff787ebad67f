------------------------------- MODULE UdpCodec -------------------------------
(* parse_udp_datagram, validate_udp_checksum and serialise_udp_datagram.   *)
EXTENDS EthernetCodec

UDP_HEADER_LEN == 8
IPV4_UDP_PROTOCOL_NUMBER == 17

UdpParseErrors ==
  {"DatagramTooShort", "InvalidLength", "TruncatedDatagram", "InvalidChecksum"}

UdpSerialiseErrors == {"BufferTooSmall", "DatagramTooLong"}

(* A datagram without the length and the checksum it has on the wire.      *)
UdpDatagram == [source_port : U16, destination_port : U16, payload : ByteSlice]

(* parse_udp_datagram: what follows the declared length is left aside.     *)
UdpRefuses(datagram) ==
  IF      datagram.len < UDP_HEADER_LEN     THEN "DatagramTooShort"
  ELSE IF datagram.length < UDP_HEADER_LEN  THEN "InvalidLength"
  ELSE IF datagram.length > datagram.len    THEN "TruncatedDatagram"
  ELSE None

(* Mutant: the length is taken for that of the payload.                    *)
LengthOfPayload(datagram) == Bytes(datagram.fill, datagram.length)

UdpPayload(datagram) == Bytes(datagram.fill, datagram.length - UDP_HEADER_LEN)

ParseUdp(datagram) ==
  [source_port      |-> datagram.source_port,
   destination_port |-> datagram.destination_port,
   payload          |-> UdpPayload(datagram)]

(* calculate_udp_checksum adds up this: the length counts twice.           *)
UdpSum(source_ip, destination_ip, datagram) ==
  PseudoHeaderSum(source_ip, destination_ip,
                  IPV4_UDP_PROTOCOL_NUMBER, datagram.length)
    + datagram.source_port + datagram.destination_port
    + datagram.length + datagram.checksum
    + RunSum(datagram.fill, datagram.length - UDP_HEADER_LEN)

(* Mutant: the two forms of 0 are taken for one.                           *)
IsEitherZero(datagram) == datagram.checksum \in {0, Ones}

(* A checksum of 0 says that there is none.                                *)
HasNoChecksum(datagram) == datagram.checksum = 0

(* validate_udp_checksum                                                   *)
UdpInvalid(source_ip, destination_ip, datagram) ==
  IF UdpRefuses(datagram) # None THEN UdpRefuses(datagram)
  ELSE IF /\ ~ HasNoChecksum(datagram)
          /\ ~ Validates(UdpSum(source_ip, destination_ip, datagram))
       THEN "InvalidChecksum"
  ELSE None

UdpRequired(datagram) == UDP_HEADER_LEN + datagram.payload.len

UdpWriteRefuses(datagram, room) ==
  IF      UdpRequired(datagram) > Ones  THEN "DatagramTooLong"
  ELSE IF room < UdpRequired(datagram)  THEN "BufferTooSmall"
  ELSE None

UdpUnsealed(datagram) ==
  [source_port      |-> datagram.source_port,
   destination_port |-> datagram.destination_port,
   length           |-> UdpRequired(datagram),
   checksum         |-> 0,
   fill             |-> datagram.payload.fill,
   len              |-> UdpRequired(datagram)]

(* Mutant: the checksum is sent as it was calculated.                      *)
AsCalculated(calculated) == calculated

(* A calculated 0 is sent as its other form, all ones.                     *)
Transmitted(calculated) == IF calculated = 0 THEN Ones ELSE calculated

WriteUdp(source_ip, destination_ip, datagram) ==
  LET unsealed == UdpUnsealed(datagram) IN
  [unsealed EXCEPT
     !.checksum = Transmitted(ChecksumOf(UdpSum(source_ip, destination_ip, unsealed)))]
================================================================================
