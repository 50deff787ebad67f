------------------------------- MODULE IcmpCodec -------------------------------
(***************************************************************************)
(* parse_icmp_message, IcmpMessage::write_to and build_echo_reply.         *)
(*                                                                         *)
(* Only an echo message has an identifier and a sequence number; the body  *)
(* of a message of another type follows the first four bytes.              *)
(***************************************************************************)
EXTENDS EthernetCodec

ICMP_HEADER_LEN      == 4
ICMP_ECHO_HEADER_LEN == 8
ECHO_REPLY_TYPE      == 0
ECHO_REQUEST_TYPE    == 8

IcmpParseErrors ==
  {"MessageTooShort", "EchoMessageTooShort", "InvalidEchoCode", "InvalidChecksum"}

(* The payload of an Unknown is its body; the types that have a name are   *)
(* not Unknown.                                                            *)
IcmpMessage ==
  [kind : {"EchoRequest", "EchoReply"},
   identifier : U16, sequence_number : U16, payload : ByteSlice] \cup
  [kind : {"Unknown"}, message_type : U8 \ {ECHO_REPLY_TYPE, ECHO_REQUEST_TYPE},
   code : U8, payload : ByteSlice]

IsEcho(message_type) == message_type \in {ECHO_REPLY_TYPE, ECHO_REQUEST_TYPE}

IcmpSum(message) ==
  message.message_type * 256 + message.code + message.checksum
    + (IF IsEcho(message.message_type)
       THEN message.identifier + message.sequence_number
              + RunSum(message.fill, message.len - ICMP_ECHO_HEADER_LEN)
       ELSE RunSum(message.fill, message.len - ICMP_HEADER_LEN))

IcmpRefuses(message) ==
  LET echo == IsEcho(message.message_type) IN
  IF      message.len < ICMP_HEADER_LEN               THEN "MessageTooShort"
  ELSE IF echo /\ message.code # 0                    THEN "InvalidEchoCode"
  ELSE IF echo /\ message.len < ICMP_ECHO_HEADER_LEN  THEN "EchoMessageTooShort"
  ELSE IF ~ Validates(IcmpSum(message))               THEN "InvalidChecksum"
  ELSE None

ParseIcmp(message) ==
  IF IsEcho(message.message_type)
  THEN [kind            |-> IF message.message_type = ECHO_REQUEST_TYPE
                            THEN "EchoRequest" ELSE "EchoReply",
        identifier      |-> message.identifier,
        sequence_number |-> message.sequence_number,
        payload         |-> Bytes(message.fill,
                                  message.len - ICMP_ECHO_HEADER_LEN)]
  ELSE [kind            |-> "Unknown",
        message_type    |-> message.message_type,
        code            |-> message.code,
        payload         |-> Bytes(message.fill, message.len - ICMP_HEADER_LEN)]

IcmpRequired(message) ==
  IF message.kind = "Unknown"
  THEN ICMP_HEADER_LEN + message.payload.len
  ELSE ICMP_ECHO_HEADER_LEN + message.payload.len

IcmpWriteRefuses(message, room) ==
  IF room < IcmpRequired(message) THEN "BufferTooSmall" ELSE None

IcmpUnsealed(message) ==
  IF message.kind = "Unknown"
  THEN [message_type    |-> message.message_type,
        code            |-> message.code,
        checksum        |-> 0,
        fill            |-> message.payload.fill,
        len             |-> IcmpRequired(message)]
  ELSE [message_type    |-> IF message.kind = "EchoRequest"
                            THEN ECHO_REQUEST_TYPE ELSE ECHO_REPLY_TYPE,
        code            |-> 0,
        checksum        |-> 0,
        identifier      |-> message.identifier,
        sequence_number |-> message.sequence_number,
        fill            |-> message.payload.fill,
        len             |-> IcmpRequired(message)]

WriteIcmp(message) ==
  LET unsealed == IcmpUnsealed(message) IN
  [unsealed EXCEPT !.checksum = ChecksumOf(IcmpSum(unsealed))]

(* The reply carries the message of the request.                           *)
BuildEchoReply(request) == [request EXCEPT !.kind = "EchoReply"]
================================================================================
