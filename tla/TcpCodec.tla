------------------------------- MODULE TcpCodec -------------------------------
(***************************************************************************)
(* parse_tcp_segment, validate_tcp_checksum and TcpSegmentToSend::write_to.*)
(* Here flags is the byte, and Flags(byte) the set of the flags in it.     *)
(***************************************************************************)
EXTENDS EthernetCodec

TCP_MIN_HEADER_LEN  == 20
TCP_MAX_OPTION_LEN  == 40
TCP_MIN_DATA_OFFSET == 5
IPV4_TCP_PROTOCOL_NUMBER == 6

TcpParseErrors ==
  {"SegmentTooShort", "SegmentTooLong", "InvalidDataOffset", "TruncatedHeader",
   "InvalidChecksum"}

TcpSerialiseErrors ==
  {"BufferTooSmall", "SegmentTooLong", "OptionsNotMultipleOfFour", "OptionsTooLong"}

TcpSegmentToSend ==
  [source_port : U16, destination_port : U16,
   sequence_number : Nat, acknowledgement_number : Nat,
   flags : U8, window_size : U16, urgent_pointer : U16,
   options : ByteSlice, payload : ByteSlice]

FlagBit == [FIN |-> 1, SYN |-> 2, RST |-> 4, PSH |-> 8,
            ACK |-> 16, URG |-> 32, ECE |-> 64, CWR |-> 128]

Contains(bits, flag) == (bits \div FlagBit[flag]) % 2 = 1

Flags(bits) == {flag \in DOMAIN FlagBit : Contains(bits, flag)}

DataOffset(segment) == segment.data_offset_and_reserved \div 16

(* parse_tcp_segment                                                       *)
TcpRefuses(segment) ==
  IF      segment.len < TCP_MIN_HEADER_LEN           THEN "SegmentTooShort"
  ELSE IF DataOffset(segment) < TCP_MIN_DATA_OFFSET  THEN "InvalidDataOffset"
  ELSE IF segment.len < DataOffset(segment) * 4      THEN "TruncatedHeader"
  ELSE None

ParseTcp(segment) ==
  LET header_length == DataOffset(segment) * 4 IN
  [source_port            |-> segment.source_port,
   destination_port       |-> segment.destination_port,
   sequence_number        |-> segment.sequence_number,
   acknowledgement_number |-> segment.acknowledgement_number,
   flags                  |-> segment.flags,
   window_size            |-> segment.window_size,
   urgent_pointer         |-> segment.urgent_pointer,
   options                |-> Bytes(segment.options.fill,
                                    header_length - TCP_MIN_HEADER_LEN),
   payload                |-> Bytes(segment.fill, segment.len - header_length)]

(* calculate_tcp_checksum adds up this, over the whole of the slice.       *)
TcpSum(source_ip, destination_ip, segment) ==
  PseudoHeaderSum(source_ip, destination_ip, IPV4_TCP_PROTOCOL_NUMBER, segment.len)
    + (segment.source_port + segment.destination_port)
    + (IpSum(segment.sequence_number) + IpSum(segment.acknowledgement_number))
    + (segment.data_offset_and_reserved * 256 + segment.flags + segment.window_size)
    + (segment.checksum + segment.urgent_pointer)
    + RunSum(segment.options.fill, DataOffset(segment) * 4 - TCP_MIN_HEADER_LEN)
    + RunSum(segment.fill, segment.len - DataOffset(segment) * 4)

TcpInvalid(source_ip, destination_ip, segment) ==
  IF TcpRefuses(segment) # None THEN TcpRefuses(segment)
  ELSE IF segment.len > Ones    THEN "SegmentTooLong"
  ELSE IF ~ Validates(TcpSum(source_ip, destination_ip, segment))
                                THEN "InvalidChecksum"
  ELSE None

TcpHeaderRequired(segment) == TCP_MIN_HEADER_LEN + segment.options.len

TcpRequired(segment) == TcpHeaderRequired(segment) + segment.payload.len

TcpWriteRefuses(segment, room) ==
  IF      segment.options.len > TCP_MAX_OPTION_LEN  THEN "OptionsTooLong"
  ELSE IF segment.options.len % 4 # 0               THEN "OptionsNotMultipleOfFour"
  ELSE IF segment.payload.len > Ones - TcpHeaderRequired(segment)
                                                    THEN "SegmentTooLong"
  ELSE IF room < TcpRequired(segment)               THEN "BufferTooSmall"
  ELSE None

TcpUnsealed(segment) ==
  [source_port              |-> segment.source_port,
   destination_port         |-> segment.destination_port,
   sequence_number          |-> segment.sequence_number,
   acknowledgement_number   |-> segment.acknowledgement_number,
   data_offset_and_reserved |-> (TcpHeaderRequired(segment) \div 4) * 16,
   flags                    |-> segment.flags,
   window_size              |-> segment.window_size,
   checksum                 |-> 0,
   urgent_pointer           |-> segment.urgent_pointer,
   options                  |-> segment.options,
   fill                     |-> segment.payload.fill,
   len                      |-> TcpRequired(segment)]

WriteTcp(source_ip, destination_ip, segment) ==
  LET unsealed == TcpUnsealed(segment) IN
  [unsealed EXCEPT
     !.checksum = ChecksumOf(TcpSum(source_ip, destination_ip, unsealed))]
================================================================================
