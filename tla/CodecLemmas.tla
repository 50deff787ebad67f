------------------------------ MODULE CodecLemmas ------------------------------
(***************************************************************************)
(* Lemmas about the codecs.  First the sums of OnesComplement: which have  *)
(* the same checksum, and when data with a checksum field validates.  Then *)
(* the formats: what one side writes, the parser of the other accepts and  *)
(* reads as it was meant, also from a slice that is longer.                *)
(***************************************************************************)
EXTENDS Codecs, TLAPS

(* Two sums that differ by a multiple of 2^16 - 1, both 0 or neither.      *)
Agree(total, sum) ==
  /\ \E k \in Nat : total = sum + Ones * k
  /\ total > 0 => sum > 0

LEMMA AgreeReflexive == ASSUME NEW total \in Nat PROVE Agree(total, total)
BY DEF Agree, Ones

LEMMA AgreeAdd ==
  ASSUME NEW total \in Nat, NEW sum \in Nat, Agree(total, sum), NEW word \in Nat
  PROVE  Agree(total + word, sum + word)
BY DEF Agree, Ones

(* Folding the carries of a sum: 2^16 counts as 1.                         *)
LEMMA AgreeFold ==
  ASSUME NEW total \in Nat, NEW sum \in Nat, Agree(total, sum)
  PROVE  Agree(total, (sum % 65536) + (sum \div 65536))
<1> DEFINE q == sum \div 65536
           folded == (sum % 65536) + q
<1>1. q \in Nat /\ folded \in Nat /\ sum = folded + Ones * q
  BY DEF Ones
<1>2. sum > 0 => folded > 0
  BY <1>1
<1>3. PICK k \in Nat : total = sum + Ones * k
  BY DEF Agree
<1> HIDE DEF q, folded
<1>4. total = folded + Ones * (k + q)
  BY <1>1, <1>3 DEF Ones
<1>5. k + q \in Nat
  BY <1>1, <1>3
<1>6. Agree(total, folded)
  BY <1>2, <1>4, <1>5 DEF Agree
<1> QED
  BY <1>6 DEF folded, q

(* 16 bits as a bound: an interval of this size is unfolded only here.    *)
LEMMA IntervalBound == \A m, n \in Nat : n \in 0 .. m <=> n <= m
OBVIOUS

LEMMA U16Bound == \A n \in Nat : n \in U16 <=> n <= 65535
<1>1. Ones \in Nat
  BY DEF Ones
<1>2. \A n \in Nat : n \in U16 <=> n <= Ones
  BY <1>1, IntervalBound DEF U16
<1> QED
  BY <1>2 DEF Ones

LEMMA U16Value == \A n : n \in U16 => n \in Nat /\ n <= 65535
<1>1. Ones \in Nat
  BY DEF Ones
<1>2. \A n : n \in U16 => n \in Nat /\ n <= Ones
  BY <1>1 DEF U16
<1> QED
  BY <1>2 DEF Ones

LEMMA U8Bound == \A n : n \in U8 => n \in Nat /\ n <= 255
BY DEF U8

LEMMA U8IsU16 == \A n \in U8 : n \in U16 /\ n \in Nat
BY U8Bound, U16Bound

(* A 16-bit sum is the reduced form of every sum it agrees with.           *)
LEMMA ReducedIsUnique ==
  ASSUME NEW total \in Nat, NEW sum \in Nat, sum <= 65535, Agree(total, sum)
  PROVE  Reduce(total) = sum
<1>1. PICK k \in Nat : total = sum + 65535 * k
  BY DEF Agree, Ones
<1>2. CASE total = 0
  BY <1>1, <1>2 DEF Reduce
<1>3. CASE total > 0
  <2>1. sum > 0
    BY <1>3 DEF Agree
  <2> DEFINE m == sum - 1
  <2>2. total - 1 = m + 65535 * k /\ m \in Nat /\ m < 65535 /\ sum = 1 + m
    BY <1>1, <2>1
  <2> HIDE DEF m
  <2>3. (total - 1) % 65535 = m
    BY <2>2
  <2> QED
    BY <1>3, <2>2, <2>3 DEF Reduce, Ones
<1> QED
  BY <1>2, <1>3

(* Data validates if and only if its sum is a multiple of 2^16 - 1 but 0.  *)
LEMMA ValidatesIff ==
  ASSUME NEW total \in Nat
  PROVE  Validates(total) <=> total > 0 /\ total % Ones = 0
BY DEF Validates, ChecksumOf, Reduce, Ones

(* Data whose field holds the checksum of the rest validates.              *)
LEMMA FieldValidates ==
  ASSUME NEW total \in Nat
  PROVE  Validates(total + ChecksumOf(total))
<1> DEFINE field == ChecksumOf(total)
<1>1. CASE total = 0
  BY <1>1 DEF Validates, ChecksumOf, Reduce, Ones
<1>2. CASE total > 0
  <2> DEFINE m == (total - 1) % Ones
             q == (total - 1) \div Ones
  <2>1. total - 1 = Ones * q + m /\ m \in Nat /\ m < Ones /\ q \in Nat
    BY <1>2 DEF Ones
  <2>2. field = Ones - (1 + m)
    BY <1>2 DEF ChecksumOf, Reduce
  <2> HIDE DEF m, q
  <2>3. total + field = Ones * (q + 1)
    BY <2>1, <2>2 DEF Ones
  <2>4. total + field > 0 /\ (total + field) % Ones = 0 /\ total + field \in Nat
    BY <2>1, <2>3, <2>2, <1>2 DEF Ones
  <2> HIDE DEF field
  <2>5. Validates(total + field)
    BY <2>4, ValidatesIff
  <2> QED
    BY <2>5 DEF field
<1> QED
  BY <1>1, <1>2

LEMMA ValidatesOnly ==
  ASSUME NEW total \in Int, Validates(total)
  PROVE  total % 65535 = 0
BY DEF Validates, ChecksumOf, Reduce, Ones

(* One is 0 in one form, the other in the other.                           *)
TwoZeros(before, after) == {before, after} = {0, Ones}

(* A sum that is not 0 keeps its checksum only by multiples of 2^16 - 1:   *)
(* of one changed word, the two forms of 0.                                *)
LEMMA ChangedWord ==
  ASSUME NEW total \in Nat, NEW changed \in Int, NEW before \in U16, NEW after \in U16,
         changed = total - before + after, before # after,
         Validates(total), Validates(changed)
  PROVE  TwoZeros(before, after)
<1>1. total % 65535 = 0 /\ changed % 65535 = 0
  BY ValidatesOnly
<1>2. before \in Nat /\ before <= 65535 /\ after \in Nat /\ after <= 65535
  BY U16Value
<1>3. \/ before = 0 /\ after = 65535
      \/ before = 65535 /\ after = 0
  BY <1>1, <1>2
<1> QED
  BY <1>3 DEF Ones, TwoZeros

(* And none of one changed byte in the high half of a word.                *)
LEMMA ChangedHighByte ==
  ASSUME NEW total \in Nat, NEW changed \in Int, NEW before \in U8, NEW after \in U8,
         changed = total - 256 * before + 256 * after, before # after,
         Validates(total)
  PROVE  ~ Validates(changed)
<1> SUFFICES ASSUME Validates(changed) PROVE FALSE
  OBVIOUS
<1>1. total % 65535 = 0 /\ changed % 65535 = 0
  BY ValidatesOnly
<1>2. before \in Nat /\ before <= 255 /\ after \in Nat /\ after <= 255
  BY U8Bound
<1> QED
  BY <1>1, <1>2
--------------------------------------------------------------------------------
(* The parts of a sum.                                                     *)

LEMMA RunSumNat ==
  ASSUME NEW fill \in U8, NEW len \in Nat
  PROVE  RunSum(fill, len) \in Nat
<1> DEFINE half == len \div 2
           odd  == len % 2
           word == 257 * fill
           high == 256 * fill
<1>1. half \in Nat /\ odd \in Nat /\ word \in Nat /\ high \in Nat
  BY U8Bound
<1> HIDE DEF half, odd, word, high
<1>2. half * word \in Nat /\ odd * high \in Nat
  BY <1>1
<1>3. half * word + odd * high \in Nat
  BY <1>2
<1> QED
  BY <1>3 DEF RunSum, half, odd, word, high

LEMMA IpSumNat == \A ip \in Nat : IpSum(ip) \in Nat
BY DEF IpSum

(* Changing the low word of a number changes its sum by as much.           *)
LEMMA IpSumChanged ==
  ASSUME NEW ip \in Nat, NEW word \in U16
  PROVE  /\ ip - (ip % 65536) + word \in Nat
         /\ IpSum(ip - (ip % 65536) + word) = IpSum(ip) - (ip % 65536) + word
<1> DEFINE high == ip \div 65536
           low  == ip % 65536
           new  == ip - low + word
<1>1. high \in Nat /\ low \in Nat /\ low <= 65535 /\ ip = 65536 * high + low
  OBVIOUS
<1>2. word \in Nat /\ word <= 65535
  BY U16Value
<1> HIDE DEF high, low
<1>3. new = 65536 * high + word /\ new \in Nat
  BY <1>1, <1>2
<1>4. new \div 65536 = high /\ new % 65536 = word
  BY <1>1, <1>2, <1>3
<1>5. IpSum(new) = high + word /\ IpSum(ip) = high + low
  BY <1>4 DEF IpSum, high, low
<1>6. IpSum(new) = IpSum(ip) - low + word
  BY <1>1, <1>2, <1>5
<1> QED
  BY <1>3, <1>6 DEF low

LEMMA ChecksumRange ==
  ASSUME NEW total \in Nat
  PROVE  /\ ChecksumOf(total) \in Nat
         /\ ChecksumOf(total) <= 65535
         /\ ChecksumOf(total) \in U16
<1>1. ChecksumOf(total) \in Nat /\ ChecksumOf(total) <= 65535
  BY DEF ChecksumOf, Reduce, Ones
<1> QED
  BY <1>1, U16Bound
--------------------------------------------------------------------------------
(* ArpPacket::parse reads what ArpPacket::write_to wrote, padded or not.   *)
LEMMA ArpIsRead ==
  ASSUME NEW macs, NEW packet \in ArpPacket(macs), NEW n \in Nat, n >= 28
  PROVE  /\ ArpRefuses(Slice(WriteArp(packet), n)) = None
         /\ ParseArp(Slice(WriteArp(packet), n)) = packet
<1> DEFINE bytes == Slice(WriteArp(packet), n)
<1>1. /\ bytes.len = n
      /\ bytes.hardware_type = 1 /\ bytes.protocol_type = 2048
      /\ bytes.hardware_size = 6 /\ bytes.protocol_size = 4
      /\ bytes.operation = OperationAsU16(packet.operation)
      /\ bytes.sender_mac = packet.sender_mac /\ bytes.sender_ip = packet.sender_ip
      /\ bytes.target_mac = packet.target_mac /\ bytes.target_ip = packet.target_ip
  BY DEF Slice, WriteArp, HARDWARE_TYPE_ETHERNET, PROTOCOL_TYPE_IPV4
<1> HIDE DEF bytes
<1>2. ArpRefuses(bytes) = None
  BY <1>1 DEF ArpRefuses, ARP_HEADER_LEN, HARDWARE_TYPE_ETHERNET, PROTOCOL_TYPE_IPV4
<1>3. Operation(OperationAsU16(packet.operation)) = packet.operation
  <2>1. CASE packet.operation.kind = "Unknown"
    <3>1. /\ packet.operation = [kind |-> "Unknown", value |-> packet.operation.value]
          /\ packet.operation.value # 1 /\ packet.operation.value # 2
      BY <2>1 DEF ArpPacket
    <3> QED
      BY <3>1 DEF Operation, OperationAsU16
  <2>2. CASE packet.operation.kind # "Unknown"
    <3>1. packet.operation \in [kind : {"Request", "Reply"}]
      BY <2>2 DEF ArpPacket
    <3>2. packet.operation = [kind |-> "Request"] \/ packet.operation = [kind |-> "Reply"]
      BY <3>1
    <3> QED
      BY <3>2 DEF Operation, OperationAsU16
  <2> QED
    BY <2>1, <2>2
<1>4. packet = [operation  |-> packet.operation,
                sender_mac |-> packet.sender_mac, sender_ip |-> packet.sender_ip,
                target_mac |-> packet.target_mac, target_ip |-> packet.target_ip]
  BY DEF ArpPacket
<1>5. ParseArp(bytes) = packet
  BY <1>1, <1>3, <1>4 DEF ParseArp
<1> QED
  BY <1>2, <1>5 DEF bytes

(* A part of an ARP packet is refused.                                     *)
LEMMA ArpIsTruncated ==
  ASSUME NEW packet, NEW n \in Nat, n < 28
  PROVE  ArpRefuses(Slice(WriteArp(packet), n)) # None
<1>1. Slice(WriteArp(packet), n).len = n
  BY DEF Slice, WriteArp
<1> QED
  BY <1>1 DEF ArpRefuses, ARP_HEADER_LEN, None
--------------------------------------------------------------------------------
(* The words of an ICMP message, its checksum among them.                  *)
LEMMA IcmpWritten ==
  ASSUME NEW message \in IcmpMessage
  PROVE  /\ IcmpSum(IcmpUnsealed(message)) \in Nat
         /\ IcmpSum(WriteIcmp(message)) = IcmpSum(IcmpUnsealed(message))
                                           + ChecksumOf(IcmpSum(IcmpUnsealed(message)))
         /\ WriteIcmp(message).len = IcmpRequired(message)
         /\ IcmpRequired(message) \in Nat
         /\ message.payload.fill \in U8 /\ message.payload.len \in Nat
<1> DEFINE u == IcmpUnsealed(message)
           c == ChecksumOf(IcmpSum(u))
           b == WriteIcmp(message)
<1>0. message.payload.fill \in U8 /\ message.payload.len \in Nat
  BY DEF IcmpMessage, ByteSlice
<1>1. CASE message.kind = "Unknown"
  <2>1. message.message_type \in Nat /\ message.code \in Nat
        /\ ~ IsEcho(message.message_type)
    BY <1>1, U8Bound DEF IcmpMessage, IsEcho
  <2>2. /\ u.message_type = message.message_type /\ u.code = message.code
        /\ u.checksum = 0 /\ u.fill = message.payload.fill
        /\ u.len = 4 + message.payload.len
    BY <1>1 DEF IcmpUnsealed, IcmpRequired, ICMP_HEADER_LEN
  <2>3. /\ b.message_type = message.message_type /\ b.code = message.code
        /\ b.checksum = c /\ b.fill = message.payload.fill
        /\ b.len = 4 + message.payload.len
    BY <1>1 DEF WriteIcmp, IcmpUnsealed, IcmpRequired, ICMP_HEADER_LEN
  <2> HIDE DEF u, b
  <2>4. RunSum(message.payload.fill, message.payload.len) \in Nat
    BY <1>0, RunSumNat
  <2>5. u.len - 4 = message.payload.len /\ b.len - 4 = message.payload.len
    BY <1>0, <2>2, <2>3
  <2>6. IcmpSum(u) = message.message_type * 256 + message.code + 0
                       + RunSum(message.payload.fill, message.payload.len)
    BY <2>1, <2>2, <2>5 DEF IcmpSum, ICMP_HEADER_LEN
  <2>7. IcmpSum(b) = message.message_type * 256 + message.code + c
                       + RunSum(message.payload.fill, message.payload.len)
    BY <2>1, <2>3, <2>5 DEF IcmpSum, ICMP_HEADER_LEN
  <2>8. IcmpSum(u) \in Nat
    BY <2>1, <2>4, <2>6
  <2>9. c \in Nat
    BY <2>8, ChecksumRange
  <2> HIDE DEF c
  <2>10. IcmpSum(b) = IcmpSum(u) + c
    BY <2>1, <2>4, <2>6, <2>7, <2>9
  <2> QED
    BY <1>0, <1>1, <2>3, <2>8, <2>10 DEF u, b, c, IcmpRequired, ICMP_HEADER_LEN
<1>2. CASE message.kind # "Unknown"
  <2> DEFINE type == IF message.kind = "EchoRequest" THEN 8 ELSE 0
  <2>1. message.identifier \in Nat /\ message.sequence_number \in Nat
        /\ type \in Nat /\ IsEcho(type)
    BY <1>2, U16Value DEF IcmpMessage, IsEcho, ECHO_REQUEST_TYPE, ECHO_REPLY_TYPE
  <2>2. /\ u.message_type = type /\ u.code = 0
        /\ u.checksum = 0 /\ u.fill = message.payload.fill
        /\ u.identifier = message.identifier /\ u.sequence_number = message.sequence_number
        /\ u.len = 8 + message.payload.len
    BY <1>2 DEF IcmpUnsealed, IcmpRequired, ICMP_ECHO_HEADER_LEN, ECHO_REQUEST_TYPE,
                ECHO_REPLY_TYPE
  <2>3. /\ b.message_type = type /\ b.code = 0
        /\ b.checksum = c /\ b.fill = message.payload.fill
        /\ b.identifier = message.identifier /\ b.sequence_number = message.sequence_number
        /\ b.len = 8 + message.payload.len
    BY <1>2 DEF WriteIcmp, IcmpUnsealed, IcmpRequired, ICMP_ECHO_HEADER_LEN,
                ECHO_REQUEST_TYPE, ECHO_REPLY_TYPE
  <2> HIDE DEF u, b, type
  <2>4. RunSum(message.payload.fill, message.payload.len) \in Nat
    BY <1>0, RunSumNat
  <2>5. u.len - 8 = message.payload.len /\ b.len - 8 = message.payload.len
    BY <1>0, <2>2, <2>3
  <2>6. IcmpSum(u) = type * 256 + 0 + 0
                       + (message.identifier + message.sequence_number
                       + RunSum(message.payload.fill, message.payload.len))
    BY <2>1, <2>2, <2>5 DEF IcmpSum, ICMP_ECHO_HEADER_LEN
  <2>7. IcmpSum(b) = type * 256 + 0 + c
                       + (message.identifier + message.sequence_number
                       + RunSum(message.payload.fill, message.payload.len))
    BY <2>1, <2>3, <2>5 DEF IcmpSum, ICMP_ECHO_HEADER_LEN
  <2>8. IcmpSum(u) \in Nat
    BY <2>1, <2>4, <2>6
  <2>9. c \in Nat
    BY <2>8, ChecksumRange
  <2> HIDE DEF c
  <2>10. IcmpSum(b) = IcmpSum(u) + c
    BY <2>1, <2>4, <2>6, <2>7, <2>9
  <2> QED
    BY <1>0, <1>2, <2>3, <2>8, <2>10 DEF u, b, c, IcmpRequired, ICMP_ECHO_HEADER_LEN
<1> QED
  BY <1>1, <1>2

(* parse_icmp_message reads what IcmpMessage::write_to wrote.              *)
LEMMA IcmpIsRead ==
  ASSUME NEW message \in IcmpMessage
  PROVE  /\ IcmpRefuses(WriteIcmp(message)) = None
         /\ ParseIcmp(WriteIcmp(message)) = message
<1> DEFINE b == WriteIcmp(message)
<1>1. /\ Validates(IcmpSum(b))
      /\ message.payload.len \in Nat
      /\ message.payload = Bytes(message.payload.fill, message.payload.len)
  <2>1. Validates(IcmpSum(b)) /\ message.payload.len \in Nat
    BY IcmpWritten, FieldValidates
  <2>2. message.payload = Bytes(message.payload.fill, message.payload.len)
    BY DEF IcmpMessage, ByteSlice, Bytes
  <2> QED
    BY <2>1, <2>2
<1>2. CASE message.kind = "Unknown"
  <2>1. ~ IsEcho(message.message_type)
    BY <1>2 DEF IcmpMessage, IsEcho
  <2>2. /\ b.message_type = message.message_type /\ b.code = message.code
        /\ b.fill = message.payload.fill /\ b.len = 4 + message.payload.len
    BY <1>2 DEF WriteIcmp, IcmpUnsealed, IcmpRequired, ICMP_HEADER_LEN
  <2> HIDE DEF b
  <2>3. IcmpRefuses(b) = None
    BY <1>1, <2>1, <2>2 DEF IcmpRefuses, ICMP_HEADER_LEN
  <2>4. b.len - 4 = message.payload.len
    BY <1>1, <2>2
  <2>5. ParseIcmp(b) = [kind |-> "Unknown", message_type |-> message.message_type,
                        code |-> message.code,
                        payload |-> Bytes(message.payload.fill, message.payload.len)]
    BY <2>1, <2>2, <2>4 DEF ParseIcmp, ICMP_HEADER_LEN
  <2>6. message = [kind |-> "Unknown", message_type |-> message.message_type,
                   code |-> message.code, payload |-> message.payload]
    BY <1>2 DEF IcmpMessage
  <2> QED
    BY <1>1, <2>3, <2>5, <2>6 DEF b
<1>3. CASE message.kind # "Unknown"
  <2> DEFINE type == IF message.kind = "EchoRequest" THEN 8 ELSE 0
  <2>1. IsEcho(type)
    BY DEF IsEcho, ECHO_REQUEST_TYPE, ECHO_REPLY_TYPE
  <2>2. /\ b.message_type = type /\ b.code = 0 /\ b.fill = message.payload.fill
        /\ b.identifier = message.identifier /\ b.sequence_number = message.sequence_number
        /\ b.len = 8 + message.payload.len
    BY <1>3 DEF WriteIcmp, IcmpUnsealed, IcmpRequired, ICMP_ECHO_HEADER_LEN,
                ECHO_REQUEST_TYPE, ECHO_REPLY_TYPE
  <2> HIDE DEF b, type
  <2>3. IcmpRefuses(b) = None
    BY <1>1, <2>1, <2>2 DEF IcmpRefuses, ICMP_HEADER_LEN, ICMP_ECHO_HEADER_LEN
  <2>4. b.len - 8 = message.payload.len
    BY <1>1, <2>2
  <2>5. message \in [kind : {"EchoRequest", "EchoReply"},
                     identifier : U16, sequence_number : U16, payload : ByteSlice]
    BY <1>3 DEF IcmpMessage
  <2>6. (IF type = 8 THEN "EchoRequest" ELSE "EchoReply") = message.kind
    BY <2>5 DEF type
  <2>7. ParseIcmp(b) = [kind |-> message.kind, identifier |-> message.identifier,
                        sequence_number |-> message.sequence_number,
                        payload |-> Bytes(message.payload.fill, message.payload.len)]
    BY <2>1, <2>2, <2>4, <2>6 DEF ParseIcmp, ICMP_ECHO_HEADER_LEN, ECHO_REQUEST_TYPE
  <2>8. message = [kind |-> message.kind, identifier |-> message.identifier,
                   sequence_number |-> message.sequence_number, payload |-> message.payload]
    BY <2>5
  <2> QED
    BY <1>1, <2>3, <2>7, <2>8 DEF b
<1> QED
  BY <1>2, <1>3
--------------------------------------------------------------------------------
(* The words of a UDP datagram between two hosts.  Its checksum validates  *)
(* in either form of 0.                                                    *)
LEMMA UdpWritten ==
  ASSUME NEW source \in Nat, NEW destination \in Nat, NEW datagram \in UdpDatagram
  PROVE  LET b == WriteUdp(source, destination, datagram)
             c == ChecksumOf(UdpSum(source, destination, UdpUnsealed(datagram)))
         IN /\ b.source_port = datagram.source_port
            /\ b.destination_port = datagram.destination_port
            /\ b.length = 8 + datagram.payload.len /\ b.len = 8 + datagram.payload.len
            /\ b.checksum = Transmitted(c)
            /\ b.fill = datagram.payload.fill
            /\ datagram.payload.fill \in U8 /\ datagram.payload.len \in Nat
            /\ datagram.source_port \in U16 /\ datagram.destination_port \in U16
            /\ b.checksum \in U16 /\ b.checksum # 0
            /\ UdpSum(source, destination, b) \in Nat
            /\ Validates(UdpSum(source, destination, b))
<1> DEFINE u == UdpUnsealed(datagram)
           c == ChecksumOf(UdpSum(source, destination, u))
           b == WriteUdp(source, destination, datagram)
           len == datagram.payload.len
           rest == IpSum(source) + IpSum(destination) + 17 + (8 + len)
                     + datagram.source_port + datagram.destination_port + (8 + len)
           run == RunSum(datagram.payload.fill, len)
<1>1. /\ datagram.payload.fill \in U8 /\ len \in Nat
      /\ datagram.source_port \in U16 /\ datagram.destination_port \in U16
  BY DEF UdpDatagram, ByteSlice
<1>2. datagram.source_port \in Nat /\ datagram.destination_port \in Nat
  BY <1>1, U16Value
<1>3. /\ u.source_port = datagram.source_port /\ u.destination_port = datagram.destination_port
      /\ u.length = 8 + len /\ u.checksum = 0 /\ u.fill = datagram.payload.fill
  BY DEF UdpUnsealed, UdpRequired, UDP_HEADER_LEN
<1>4. /\ b.source_port = datagram.source_port /\ b.destination_port = datagram.destination_port
      /\ b.length = 8 + len /\ b.len = 8 + len
      /\ b.checksum = Transmitted(c) /\ b.fill = datagram.payload.fill
  BY DEF WriteUdp, UdpUnsealed, UdpRequired, UDP_HEADER_LEN
<1>5. run \in Nat /\ IpSum(source) \in Nat /\ IpSum(destination) \in Nat
  BY <1>1, RunSumNat, IpSumNat
<1>6. rest \in Nat
  BY <1>1, <1>2, <1>5
<1>7. (8 + len) - 8 = len
  BY <1>1
<1> HIDE DEF u, b
<1>8. UdpSum(source, destination, u) = rest + 0 + run
  BY <1>3, <1>7 DEF UdpSum, PseudoHeaderSum, IPV4_UDP_PROTOCOL_NUMBER, UDP_HEADER_LEN
<1>9. UdpSum(source, destination, b) = rest + b.checksum + run
  BY <1>4, <1>7 DEF UdpSum, PseudoHeaderSum, IPV4_UDP_PROTOCOL_NUMBER, UDP_HEADER_LEN
<1> DEFINE total == rest + run
<1>10. total \in Nat /\ c = ChecksumOf(total)
  BY <1>5, <1>6, <1>8
<1>11. c \in Nat /\ c <= 65535 /\ c \in U16
  BY <1>10, ChecksumRange
<1>12. Validates(total + c)
  BY <1>10, FieldValidates
<1> HIDE DEF rest, run, len, c
<1>13. UdpSum(source, destination, b) = total + b.checksum
  BY <1>4, <1>5, <1>6, <1>9, <1>11 DEF Transmitted, Ones
<1> HIDE DEF total
<1>14. CASE c = 0
  <2>1. b.checksum = 65535 /\ b.checksum \in U16
    BY <1>4, <1>14, U16Bound DEF Transmitted, Ones
  <2>2. total > 0 /\ total % 65535 = 0
    BY <1>10, <1>12, <1>14, ValidatesIff DEF Ones
  <2>3. total + 65535 \in Nat /\ total + 65535 > 0 /\ (total + 65535) % 65535 = 0
    BY <1>10, <2>2
  <2>4. Validates(total + 65535)
    BY <2>3, ValidatesIff DEF Ones
  <2> QED
    BY <1>1, <1>4, <1>13, <2>1, <2>3, <2>4 DEF c, u, len, b
<1>15. CASE c # 0
  <2>1. b.checksum = c
    BY <1>4, <1>15 DEF Transmitted
  <2>2. total + c \in Nat
    BY <1>10, <1>11
  <2> QED
    BY <1>1, <1>4, <1>11, <1>12, <1>13, <1>15, <2>1, <2>2 DEF c, u, len, b
<1> QED
  BY <1>14, <1>15

(* validate_udp_checksum accepts and parse_udp_datagram reads what         *)
(* serialise_udp_datagram wrote.                                           *)
LEMMA UdpIsRead ==
  ASSUME NEW source \in Nat, NEW destination \in Nat, NEW datagram \in UdpDatagram
  PROVE  /\ UdpInvalid(source, destination, WriteUdp(source, destination, datagram)) = None
         /\ ParseUdp(WriteUdp(source, destination, datagram)) = datagram
<1> DEFINE b == WriteUdp(source, destination, datagram)
<1>1. /\ b.source_port = datagram.source_port /\ b.destination_port = datagram.destination_port
      /\ b.length = 8 + datagram.payload.len /\ b.len = 8 + datagram.payload.len
      /\ b.fill = datagram.payload.fill /\ datagram.payload.len \in Nat
      /\ Validates(UdpSum(source, destination, b))
  BY UdpWritten
<1> HIDE DEF b
<1>2. UdpRefuses(b) = None
  BY <1>1 DEF UdpRefuses, UDP_HEADER_LEN
<1>3. b.length - 8 = datagram.payload.len
  BY <1>1
<1>4. ParseUdp(b) = [source_port |-> datagram.source_port,
                     destination_port |-> datagram.destination_port,
                     payload |-> [fill |-> datagram.payload.fill, len |-> datagram.payload.len]]
  BY <1>1, <1>3 DEF ParseUdp, UdpPayload, Bytes, UDP_HEADER_LEN
<1>5. datagram.payload = [fill |-> datagram.payload.fill, len |-> datagram.payload.len]
  BY DEF UdpDatagram, ByteSlice
<1>6. datagram = [source_port |-> datagram.source_port,
                  destination_port |-> datagram.destination_port, payload |-> datagram.payload]
  BY DEF UdpDatagram
<1>7. ParseUdp(b) = datagram
  BY <1>4, <1>5, <1>6
<1>8. UdpInvalid(source, destination, b) = None
  BY <1>1, <1>2 DEF UdpInvalid
<1> QED
  BY <1>7, <1>8 DEF b
--------------------------------------------------------------------------------
(* The words of a TCP segment between two hosts.                           *)
LEMMA TcpWritten ==
  ASSUME NEW source \in Nat, NEW destination \in Nat, NEW segment \in TcpSegmentToSend,
         NEW room, TcpWriteRefuses(segment, room) = None
  PROVE  LET b == WriteTcp(source, destination, segment)
         IN /\ b.source_port = segment.source_port
            /\ b.destination_port = segment.destination_port
            /\ b.sequence_number = segment.sequence_number
            /\ b.acknowledgement_number = segment.acknowledgement_number
            /\ b.flags = segment.flags /\ b.window_size = segment.window_size
            /\ b.urgent_pointer = segment.urgent_pointer
            /\ b.options = segment.options /\ b.fill = segment.payload.fill
            /\ segment.options.fill \in U8 /\ segment.options.len \in Nat
            /\ segment.payload.fill \in U8 /\ segment.payload.len \in Nat
            /\ b.len = 20 + segment.options.len + segment.payload.len /\ b.len <= 65535
            /\ b.len \in Nat
            /\ DataOffset(b) * 4 = 20 + segment.options.len
            /\ DataOffset(b) >= 5
            /\ b.data_offset_and_reserved \in Nat
            /\ b.checksum \in U16
            /\ TcpSum(source, destination, b) \in Nat
            /\ Validates(TcpSum(source, destination, b))
<1> DEFINE u == TcpUnsealed(segment)
           c == ChecksumOf(TcpSum(source, destination, u))
           b == WriteTcp(source, destination, segment)
           ol == segment.options.len
           pl == segment.payload.len
           offset == ((20 + ol) \div 4) * 16
<1>1. /\ segment.options.fill \in U8 /\ ol \in Nat
      /\ segment.payload.fill \in U8 /\ pl \in Nat
      /\ segment.source_port \in U16 /\ segment.destination_port \in U16
      /\ segment.sequence_number \in Nat /\ segment.acknowledgement_number \in Nat
      /\ segment.flags \in U8 /\ segment.window_size \in U16 /\ segment.urgent_pointer \in U16
  BY DEF TcpSegmentToSend, ByteSlice
<1>2. ol <= 40 /\ ol % 4 = 0 /\ pl <= 65535 - (20 + ol)
  BY <1>1 DEF TcpWriteRefuses, None, TCP_MAX_OPTION_LEN, TcpHeaderRequired, TCP_MIN_HEADER_LEN,
              Ones
<1>3. /\ segment.source_port \in Nat /\ segment.destination_port \in Nat
      /\ segment.flags \in Nat /\ segment.window_size \in Nat /\ segment.urgent_pointer \in Nat
  BY <1>1, U16Value, U8Bound
<1>4. /\ u.source_port = segment.source_port /\ u.destination_port = segment.destination_port
      /\ u.sequence_number = segment.sequence_number
      /\ u.acknowledgement_number = segment.acknowledgement_number
      /\ u.data_offset_and_reserved = offset
      /\ u.flags = segment.flags /\ u.window_size = segment.window_size
      /\ u.urgent_pointer = segment.urgent_pointer /\ u.checksum = 0
      /\ u.options = segment.options /\ u.fill = segment.payload.fill
      /\ u.len = 20 + ol + pl
  BY DEF TcpUnsealed, TcpRequired, TcpHeaderRequired, TCP_MIN_HEADER_LEN
<1>5. /\ b.source_port = segment.source_port /\ b.destination_port = segment.destination_port
      /\ b.sequence_number = segment.sequence_number
      /\ b.acknowledgement_number = segment.acknowledgement_number
      /\ b.data_offset_and_reserved = offset
      /\ b.flags = segment.flags /\ b.window_size = segment.window_size
      /\ b.urgent_pointer = segment.urgent_pointer /\ b.checksum = c
      /\ b.options = segment.options /\ b.fill = segment.payload.fill
      /\ b.len = 20 + ol + pl
  BY DEF WriteTcp, TcpUnsealed, TcpRequired, TcpHeaderRequired, TCP_MIN_HEADER_LEN
<1> HIDE DEF u, b
<1>6. offset \in Nat /\ offset \div 16 = (20 + ol) \div 4 /\ ((20 + ol) \div 4) * 4 = 20 + ol
      /\ (20 + ol) \div 4 >= 5
  BY <1>1, <1>2
<1> HIDE DEF offset
<1>7. /\ DataOffset(b) * 4 = 20 + ol /\ DataOffset(b) >= 5
      /\ DataOffset(u) * 4 = 20 + ol
  BY <1>4, <1>5, <1>6 DEF DataOffset
<1> DEFINE optionSum == RunSum(segment.options.fill, ol)
           run == RunSum(segment.payload.fill, pl)
           rest == (IpSum(source) + IpSum(destination) + 6 + (20 + ol + pl))
                     + (segment.source_port + segment.destination_port)
                     + (IpSum(segment.sequence_number) + IpSum(segment.acknowledgement_number))
                     + (offset * 256 + segment.flags + segment.window_size)
<1>8. /\ optionSum \in Nat /\ run \in Nat
      /\ IpSum(source) \in Nat /\ IpSum(destination) \in Nat
      /\ IpSum(segment.sequence_number) \in Nat /\ IpSum(segment.acknowledgement_number) \in Nat
  BY <1>1, RunSumNat, IpSumNat
<1>9. rest \in Nat
  BY <1>1, <1>3, <1>6, <1>8
<1>10. (20 + ol) - 20 = ol /\ (20 + ol + pl) - (20 + ol) = pl
  BY <1>1
<1>11. TcpSum(source, destination, u)
         = rest + (0 + segment.urgent_pointer) + optionSum + run
  BY <1>4, <1>7, <1>10 DEF TcpSum, PseudoHeaderSum, IPV4_TCP_PROTOCOL_NUMBER, TCP_MIN_HEADER_LEN
<1>12. TcpSum(source, destination, b)
         = rest + (c + segment.urgent_pointer) + optionSum + run
  BY <1>5, <1>7, <1>10 DEF TcpSum, PseudoHeaderSum, IPV4_TCP_PROTOCOL_NUMBER, TCP_MIN_HEADER_LEN
<1> HIDE DEF rest, run, optionSum
<1>13. TcpSum(source, destination, u) \in Nat
  BY <1>3, <1>8, <1>9, <1>11
<1>14. c \in Nat /\ c \in U16 /\ Validates(TcpSum(source, destination, u) + c)
  BY <1>13, ChecksumRange, FieldValidates
<1> HIDE DEF c
<1>15. TcpSum(source, destination, b) = TcpSum(source, destination, u) + c
       /\ TcpSum(source, destination, b) \in Nat
  BY <1>3, <1>8, <1>9, <1>11, <1>12, <1>14
<1>16. 20 + ol + pl <= 65535 /\ 20 + ol + pl \in Nat
  BY <1>1, <1>2
<1> HIDE DEF ol, pl
<1>17. /\ b.len \in Nat /\ b.len <= 65535 /\ b.checksum \in U16
       /\ b.data_offset_and_reserved \in Nat
       /\ Validates(TcpSum(source, destination, b))
  BY <1>5, <1>6, <1>14, <1>15, <1>16
<1> QED
  BY <1>1, <1>5, <1>7, <1>15, <1>17 DEF b, ol, pl

(* validate_tcp_checksum accepts and parse_tcp_segment reads what          *)
(* TcpSegmentToSend::write_to wrote.                                       *)
LEMMA TcpIsRead ==
  ASSUME NEW source \in Nat, NEW destination \in Nat, NEW segment \in TcpSegmentToSend,
         NEW room, TcpWriteRefuses(segment, room) = None
  PROVE  /\ TcpInvalid(source, destination, WriteTcp(source, destination, segment)) = None
         /\ ParseTcp(WriteTcp(source, destination, segment)) = segment
<1> DEFINE b == WriteTcp(source, destination, segment)
           ol == segment.options.len
           pl == segment.payload.len
<1>1. /\ b.source_port = segment.source_port /\ b.destination_port = segment.destination_port
      /\ b.sequence_number = segment.sequence_number
      /\ b.acknowledgement_number = segment.acknowledgement_number
      /\ b.flags = segment.flags /\ b.window_size = segment.window_size
      /\ b.urgent_pointer = segment.urgent_pointer
      /\ b.options = segment.options /\ b.fill = segment.payload.fill
      /\ ol \in Nat /\ pl \in Nat
      /\ b.len = 20 + ol + pl /\ b.len <= 65535
      /\ DataOffset(b) * 4 = 20 + ol /\ DataOffset(b) >= 5
      /\ b.data_offset_and_reserved \in Nat
      /\ Validates(TcpSum(source, destination, b))
  BY TcpWritten
<1> HIDE DEF b
<1>2. DataOffset(b) \in Int
  BY <1>1 DEF DataOffset
<1>3. TcpRefuses(b) = None
  BY <1>1, <1>2 DEF TcpRefuses, TCP_MIN_HEADER_LEN, TCP_MIN_DATA_OFFSET
<1>4. TcpInvalid(source, destination, b) = None
  BY <1>1, <1>3 DEF TcpInvalid, Ones
<1>5. (20 + ol) - 20 = ol /\ (20 + ol + pl) - (20 + ol) = pl
  BY <1>1
<1>6. segment.options = Bytes(segment.options.fill, ol)
      /\ segment.payload = Bytes(segment.payload.fill, pl)
  BY DEF TcpSegmentToSend, ByteSlice, Bytes
<1>7. segment = [source_port |-> segment.source_port,
                 destination_port |-> segment.destination_port,
                 sequence_number |-> segment.sequence_number,
                 acknowledgement_number |-> segment.acknowledgement_number,
                 flags |-> segment.flags, window_size |-> segment.window_size,
                 urgent_pointer |-> segment.urgent_pointer,
                 options |-> segment.options, payload |-> segment.payload]
  BY DEF TcpSegmentToSend
<1> HIDE DEF ol, pl
<1>8. ParseTcp(b) = segment
  BY <1>1, <1>5, <1>6, <1>7 DEF ParseTcp, TCP_MIN_HEADER_LEN
<1> QED
  BY <1>4, <1>8 DEF b
--------------------------------------------------------------------------------
(* The words of an IPv4 packet around anything that has a length.          *)
LEMMA Ipv4Written ==
  ASSUME NEW data, data.len \in Nat, NEW packet \in Ipv4Packet({data}),
         NEW room, Ipv4WriteRefuses(packet, room) = None
  PROVE  LET b == WriteIpv4(packet)
         IN /\ b.version_and_ihl \div 16 = 4 /\ b.version_and_ihl % 16 >= 5
            /\ b.version_and_ihl \in Nat
            /\ HeaderLength(b) = 20 + packet.options.len
            /\ packet.options.len \in Nat /\ packet.options.fill \in U8
            /\ b.dscp_and_ecn = packet.dscp * 4 + packet.ecn /\ b.dscp_and_ecn \in U8
            /\ packet.dscp \in Nat /\ packet.ecn \in Nat /\ packet.ecn <= 3
            /\ b.total_length = 20 + packet.options.len + data.len
            /\ b.len = b.total_length /\ b.len \in Nat /\ b.total_length \in U16
            /\ b.identification = packet.identification /\ b.identification \in U16
            /\ b.flags_and_fragment_offset = packet.dont_fragment * 16384
                 + packet.more_fragments * 8192 + packet.fragment_offset
            /\ b.flags_and_fragment_offset \in U16
            /\ packet.fragment_offset \in Nat /\ packet.fragment_offset <= 8191
            /\ b.ttl = packet.ttl /\ b.ttl \in U8
            /\ b.protocol = AsU8(packet.protocol) /\ b.protocol \in U8
            /\ b.checksum \in U16
            /\ b.source = packet.source /\ b.destination = packet.destination
            /\ packet.source \in Nat /\ packet.destination \in Nat
            /\ b.options = packet.options /\ b.body = data
            /\ RunSum(b.options.fill, HeaderLength(b) - 20) \in Nat
            /\ Ipv4HeaderSum(b, HeaderLength(b)) \in Nat
            /\ Validates(Ipv4HeaderSum(b, HeaderLength(b)))
<1> DEFINE u == Ipv4Unsealed(packet)
           b == WriteIpv4(packet)
           ol == packet.options.len
           h == 20 + ol
           c == ChecksumOf(Ipv4HeaderSum(u, h))
           dl == data.len
           version == 64 + (h \div 4)
           service == packet.dscp * 4 + packet.ecn
           flags == packet.dont_fragment * 16384 + packet.more_fragments * 8192
                      + packet.fragment_offset
           number == AsU8(packet.protocol)
<1>1. /\ packet.options.fill \in U8 /\ ol \in Nat
      /\ packet.dscp \in U8 /\ packet.ecn \in U8 /\ packet.ttl \in U8
      /\ packet.identification \in U16 /\ packet.fragment_offset \in U16
      /\ packet.dont_fragment \in 0 .. 1 /\ packet.more_fragments \in 0 .. 1
      /\ packet.source \in Nat /\ packet.destination \in Nat
      /\ packet.protocol \in [kind : {"Icmp", "Tcp", "Udp"}]
                                \cup [kind : {"Unknown"}, value : U8]
      /\ packet.payload = data
      /\ dl \in Nat
  BY DEF Ipv4Packet, ByteSlice
<1>2. ol <= 40 /\ ol % 4 = 0 /\ packet.dscp <= 63 /\ packet.ecn <= 3
      /\ packet.fragment_offset <= 8191 /\ dl <= 65535 - h
  <2>1. /\ ~ (ol > 40) /\ ~ (ol % 4 # 0) /\ ~ (packet.dscp > 63) /\ ~ (packet.ecn > 3)
        /\ ~ (packet.fragment_offset > 8191)
        /\ ~ (packet.payload.len > Ones - Ipv4HeaderRequired(packet))
    BY DEF Ipv4WriteRefuses, None
  <2>2. packet.dscp \in Nat /\ packet.ecn \in Nat /\ packet.fragment_offset \in Nat
    BY <1>1, U8Bound, U16Value
  <2> QED
    BY <1>1, <2>1, <2>2 DEF Ipv4HeaderRequired, IPV4_MIN_HEADER_LEN, Ones
<1>3. /\ packet.dscp \in Nat /\ packet.ecn \in Nat /\ packet.ttl \in Nat
      /\ packet.identification \in Nat /\ packet.fragment_offset \in Nat
      /\ packet.dont_fragment \in Nat /\ packet.dont_fragment <= 1
      /\ packet.more_fragments \in Nat /\ packet.more_fragments <= 1
  BY <1>1, U8Bound, U16Value
<1>4. number \in U8 /\ number \in Nat
  <2>1. number \in Nat /\ number <= 255
    BY <1>1, U8Bound DEF AsU8
  <2> QED
    BY <2>1 DEF U8
<1>5. /\ u.version_and_ihl = version /\ u.dscp_and_ecn = service
      /\ u.total_length = h + dl /\ u.identification = packet.identification
      /\ u.flags_and_fragment_offset = flags /\ u.ttl = packet.ttl /\ u.protocol = number
      /\ u.checksum = 0 /\ u.source = packet.source /\ u.destination = packet.destination
      /\ u.options = packet.options
  BY <1>1 DEF Ipv4Unsealed, Ipv4Required, Ipv4HeaderRequired, IPV4_MIN_HEADER_LEN
<1>6. /\ b.version_and_ihl = version /\ b.dscp_and_ecn = service
      /\ b.total_length = h + dl /\ b.identification = packet.identification
      /\ b.flags_and_fragment_offset = flags /\ b.ttl = packet.ttl /\ b.protocol = number
      /\ b.checksum = c /\ b.source = packet.source /\ b.destination = packet.destination
      /\ b.options = packet.options /\ b.body = data /\ b.len = h + dl
  BY <1>1 DEF WriteIpv4, Ipv4Unsealed, Ipv4Required, Ipv4HeaderRequired, IPV4_MIN_HEADER_LEN
<1> HIDE DEF u, b, number
<1>7. /\ version \in Nat /\ version \div 16 = 4 /\ version % 16 >= 5
      /\ (version % 16) * 4 = h
  <2> DEFINE quarter == h \div 4
  <2>1. quarter \in Nat /\ quarter >= 5 /\ quarter <= 15 /\ quarter * 4 = h
    BY <1>1, <1>2
  <2> HIDE DEF quarter
  <2>2. (64 + quarter) \div 16 = 4 /\ (64 + quarter) % 16 = quarter
    BY <2>1
  <2>3. version = 64 + quarter
    BY DEF quarter
  <2> HIDE DEF version, h
  <2> QED
    BY <2>1, <2>2, <2>3
<1>8. service \in Nat /\ service <= 255
  BY <1>2, <1>3
<1>9. flags \in Nat /\ flags <= 65535
  BY <1>2, <1>3
<1>10. h + dl \in Nat /\ h + dl <= 65535
  BY <1>1, <1>2
<1>11. h \in Nat /\ h - 20 = ol
  BY <1>1
<1> HIDE DEF version, h, service, flags
<1>12. HeaderLength(b) = h
  BY <1>6, <1>7 DEF HeaderLength
<1> DEFINE run == RunSum(packet.options.fill, ol)
           rows  == (version * 256 + service + (h + dl)) + (packet.identification + flags)
           third == packet.ttl * 256 + number
           ips   == IpSum(packet.source) + IpSum(packet.destination)
<1>13. run \in Nat /\ IpSum(packet.source) \in Nat /\ IpSum(packet.destination) \in Nat
  BY <1>1, RunSumNat, IpSumNat
<1> HIDE DEF run
<1>14. rows \in Nat /\ third \in Nat /\ ips \in Nat
  BY <1>3, <1>4, <1>7, <1>8, <1>9, <1>10, <1>13
<1>15. Ipv4HeaderSum(u, h) = rows + (third + 0) + ips + run
  BY <1>5, <1>11 DEF Ipv4HeaderSum, IPV4_MIN_HEADER_LEN, run
<1>16. Ipv4HeaderSum(b, h) = rows + (third + c) + ips + run
  BY <1>6, <1>11 DEF Ipv4HeaderSum, IPV4_MIN_HEADER_LEN, run
<1> HIDE DEF rows, third, ips
<1>17. Ipv4HeaderSum(u, h) \in Nat
  BY <1>13, <1>14, <1>15
<1>18. c \in Nat /\ c \in U16 /\ Validates(Ipv4HeaderSum(u, h) + c)
  BY <1>17, ChecksumRange, FieldValidates
<1> HIDE DEF c
<1>19. Ipv4HeaderSum(b, h) = Ipv4HeaderSum(u, h) + c /\ Ipv4HeaderSum(b, h) \in Nat
  BY <1>13, <1>14, <1>15, <1>16, <1>18
<1>20. service \in U8 /\ flags \in U16 /\ h + dl \in U16
  BY <1>8, <1>9, <1>10, U16Bound DEF U8
<1>21. /\ Validates(Ipv4HeaderSum(b, HeaderLength(b)))
       /\ Ipv4HeaderSum(b, HeaderLength(b)) \in Nat
       /\ RunSum(b.options.fill, HeaderLength(b) - 20) \in Nat
  BY <1>6, <1>11, <1>12, <1>13, <1>18, <1>19 DEF run
<1>22. /\ b.version_and_ihl \div 16 = 4 /\ b.version_and_ihl % 16 >= 5
       /\ b.version_and_ihl \in Nat
  BY <1>6, <1>7
<1>23. /\ HeaderLength(b) = 20 + packet.options.len
       /\ b.total_length = 20 + packet.options.len + data.len
       /\ b.dscp_and_ecn = packet.dscp * 4 + packet.ecn
       /\ b.flags_and_fragment_offset = packet.dont_fragment * 16384
            + packet.more_fragments * 8192 + packet.fragment_offset
       /\ b.protocol = AsU8(packet.protocol)
       /\ packet.options.len \in Nat
  BY <1>1, <1>6, <1>12 DEF h, service, flags, number
<1>24. /\ b.len = b.total_length /\ b.len \in Nat /\ b.total_length \in U16
       /\ b.dscp_and_ecn \in U8 /\ b.flags_and_fragment_offset \in U16 /\ b.protocol \in U8
       /\ b.checksum \in U16
  BY <1>4, <1>6, <1>10, <1>18, <1>20
<1> HIDE DEF ol, dl
<1> QED
  BY <1>1, <1>2, <1>3, <1>6, <1>21, <1>22, <1>23, <1>24 DEF b

(* A longer slice, or a shorter one, has the same words in its header.     *)
LEMMA SliceSum ==
  ASSUME NEW packet, NEW n
  PROVE  /\ HeaderLength(Slice(packet, n)) = HeaderLength(packet)
         /\ Ipv4HeaderSum(Slice(packet, n), HeaderLength(packet))
              = Ipv4HeaderSum(packet, HeaderLength(packet))
BY DEF Slice, HeaderLength, Ipv4HeaderSum

(* The two flags and the offset share a word.                              *)
LEMMA FlagsAreRead ==
  ASSUME NEW dont \in {0, 1}, NEW more \in {0, 1}, NEW offset \in Nat, offset <= 8191
  PROVE  LET word == dont * 16384 + more * 8192 + offset
         IN /\ Bit(word, 32768) = 0 /\ Bit(word, 16384) = dont /\ Bit(word, 8192) = more
            /\ word % 8192 = offset
<1>1. ASSUME NEW high \in {0, 8192, 16384, 24576}, NEW word \in Nat, word = high + offset
      PROVE  /\ word \div 32768 = 0 /\ word \div 16384 = high \div 16384
             /\ word \div 8192 = high \div 8192 /\ word % 8192 = offset
  BY <1>1
<1> DEFINE high == dont * 16384 + more * 8192
           word == high + offset
<1>2. /\ high \in {0, 8192, 16384, 24576} /\ word \in Nat
      /\ (high \div 16384) % 2 = dont /\ (high \div 8192) % 2 = more
  BY SMT
<1> HIDE DEF high
<1>3. /\ word \div 32768 = 0 /\ word \div 16384 = high \div 16384
      /\ word \div 8192 = high \div 8192 /\ word % 8192 = offset
  BY <1>1, <1>2
<1> HIDE DEF word
<1>4. /\ Bit(word, 32768) = 0 /\ Bit(word, 16384) = dont /\ Bit(word, 8192) = more
      /\ word % 8192 = offset
  BY <1>2, <1>3 DEF Bit
<1> QED
  BY <1>4 DEF word, high

LEMMA ProtocolIsRead ==
  ASSUME NEW protocol \in [kind : {"Icmp", "Tcp", "Udp"}], NEW packet, packet.protocol = protocol
  PROVE  Protocol(AsU8(protocol)) = protocol
<1>1. protocol \in {[kind |-> "Icmp"], [kind |-> "Tcp"], [kind |-> "Udp"]}
  OBVIOUS
<1> QED
  BY <1>1 DEF Protocol, AsU8

(* parse_ipv4_packet accepts and reads what Ipv4Packet::write_to wrote,    *)
(* whatever follows it in the slice.                                       *)
LEMMA Ipv4IsRead ==
  ASSUME NEW data, data.len \in Nat, data = Slice(data, data.len),
         NEW packet \in Ipv4Packet({data}), packet.protocol.kind \in {"Icmp", "Tcp", "Udp"},
         NEW room, Ipv4WriteRefuses(packet, room) = None,
         NEW n \in Nat, n >= WriteIpv4(packet).len
  PROVE  /\ Ipv4Refuses(Slice(WriteIpv4(packet), n)) = None
         /\ ParseIpv4(Slice(WriteIpv4(packet), n)) = packet
<1> DEFINE w == WriteIpv4(packet)
           b == Slice(w, n)
           ol == packet.options.len
<1>1. /\ w.version_and_ihl \div 16 = 4 /\ w.version_and_ihl % 16 >= 5
      /\ HeaderLength(w) = 20 + ol
      /\ ol \in Nat /\ data.len \in Nat
      /\ w.dscp_and_ecn = packet.dscp * 4 + packet.ecn
      /\ packet.dscp \in Nat /\ packet.ecn \in Nat /\ packet.ecn <= 3
      /\ w.total_length = 20 + ol + data.len
      /\ w.len = w.total_length
      /\ w.identification = packet.identification
      /\ w.flags_and_fragment_offset = packet.dont_fragment * 16384
           + packet.more_fragments * 8192 + packet.fragment_offset
      /\ packet.fragment_offset \in Nat /\ packet.fragment_offset <= 8191
      /\ w.ttl = packet.ttl /\ w.protocol = AsU8(packet.protocol)
      /\ w.source = packet.source /\ w.destination = packet.destination
      /\ w.options = packet.options /\ w.body = data
      /\ Validates(Ipv4HeaderSum(w, HeaderLength(w)))
  BY Ipv4Written
<1>2. /\ b.version_and_ihl = w.version_and_ihl /\ b.dscp_and_ecn = w.dscp_and_ecn
      /\ b.total_length = w.total_length /\ b.identification = w.identification
      /\ b.flags_and_fragment_offset = w.flags_and_fragment_offset
      /\ b.ttl = w.ttl /\ b.protocol = w.protocol
      /\ b.source = w.source /\ b.destination = w.destination
      /\ b.options = w.options /\ b.body = w.body /\ b.len = n
  BY DEF Slice, WriteIpv4, Ipv4Unsealed
<1>3. HeaderLength(b) = 20 + ol /\ Validates(Ipv4HeaderSum(b, HeaderLength(b)))
  BY <1>1, SliceSum
<1> HIDE DEF w, b
<1>4. n >= 20 + ol + data.len
  BY <1>1 DEF w
<1>5. packet.dont_fragment \in {0, 1} /\ packet.more_fragments \in {0, 1}
  BY DEF Ipv4Packet
<1> DEFINE word == packet.dont_fragment * 16384 + packet.more_fragments * 8192
                     + packet.fragment_offset
<1>6. /\ Bit(word, 32768) = 0
      /\ Bit(word, 16384) = packet.dont_fragment
      /\ Bit(word, 8192) = packet.more_fragments
      /\ word % 8192 = packet.fragment_offset
  BY <1>1, <1>5, FlagsAreRead
<1> HIDE DEF word
<1>7. b.flags_and_fragment_offset = word
  BY <1>1, <1>2 DEF word
<1>8. Ipv4Refuses(b) = None
  <2>1. /\ ~ (b.len < 20) /\ ~ (b.len < HeaderLength(b))
        /\ ~ (b.total_length < HeaderLength(b)) /\ ~ (b.len < b.total_length)
    BY <1>1, <1>2, <1>3, <1>4
  <2>2. b.version_and_ihl \div 16 = 4 /\ ~ (b.version_and_ihl % 16 < 5)
    <3>1. w.version_and_ihl \in Nat
      BY Ipv4Written DEF w
    <3>2. w.version_and_ihl % 16 \in Nat
      BY <3>1
    <3> QED
      BY <1>1, <1>2, <3>2
  <2> QED
    BY <1>3, <1>6, <1>7, <2>1, <2>2 DEF Ipv4Refuses, Truncated, IPV4_MIN_HEADER_LEN
<1>9. ParseIpv4(b) = packet
  <2>1. (packet.dscp * 4 + packet.ecn) \div 4 = packet.dscp
        /\ (packet.dscp * 4 + packet.ecn) % 4 = packet.ecn
    BY <1>1
  <2>2. Protocol(AsU8(packet.protocol)) = packet.protocol
    <3>1. packet.protocol \in [kind : {"Icmp", "Tcp", "Udp"}]
      BY DEF Ipv4Packet
    <3> QED
      BY <3>1, ProtocolIsRead
  <2>3. Payload(b) = data
    <3>1. b.total_length - HeaderLength(b) = data.len
      BY <1>1, <1>2, <1>3
    <3> QED
      BY <1>1, <1>2, <3>1 DEF Payload
  <2>4. packet.options = Bytes(packet.options.fill, ol)
    BY DEF Ipv4Packet, ByteSlice, Bytes
  <2>5. (20 + ol) - 20 = ol
    BY <1>1
  <2>6. packet = [dscp |-> packet.dscp, ecn |-> packet.ecn,
                  identification |-> packet.identification, ttl |-> packet.ttl,
                  protocol |-> packet.protocol, dont_fragment |-> packet.dont_fragment,
                  more_fragments |-> packet.more_fragments,
                  fragment_offset |-> packet.fragment_offset, source |-> packet.source,
                  destination |-> packet.destination, options |-> packet.options,
                  payload |-> data]
    BY DEF Ipv4Packet
  <2> HIDE DEF ol
  <2>7. ParseIpv4(b) = [dscp |-> packet.dscp, ecn |-> packet.ecn,
                  identification |-> packet.identification, ttl |-> packet.ttl,
                  protocol |-> packet.protocol, dont_fragment |-> packet.dont_fragment,
                  more_fragments |-> packet.more_fragments,
                  fragment_offset |-> packet.fragment_offset, source |-> packet.source,
                  destination |-> packet.destination, options |-> packet.options,
                  payload |-> data]
    BY <1>1, <1>2, <1>3, <1>6, <1>7, <2>1, <2>2, <2>3, <2>4, <2>5
       DEF ParseIpv4, IPV4_MIN_HEADER_LEN
  <2> QED
    BY <2>6, <2>7
<1> QED
  BY <1>8, <1>9 DEF b, w

(* A part of an IPv4 packet is refused.                                    *)
LEMMA Ipv4IsTruncated ==
  ASSUME NEW packet, packet.len < packet.total_length
  PROVE  Ipv4Refuses(packet) # None
BY DEF Ipv4Refuses, Truncated, None

================================================================================
