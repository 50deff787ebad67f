------------------------------ MODULE LinkProofs ------------------------------
(***************************************************************************)
(* Proofs about Link, for all messages that can be serialised, every       *)
(* length of padding, every place to cut a frame and every value of a      *)
(* damaged word.                                                           *)
(*                                                                         *)
(* The argument: a frame that arrives is judged when it arrives, since     *)
(* what the receiver makes of it depends on nothing else (Judged).  As it  *)
(* was sent, or longer, it is read as the lemmas on the codecs say.  Cut,  *)
(* it is shorter than one of the lengths in it.  Damaged, the sum of the   *)
(* words that a checksum covers differs by the change of one word, which   *)
(* is no multiple of 2^16 - 1 but for the two forms of 0.                  *)
(***************************************************************************)
EXTENDS Link, CodecLemmas

(* What the properties say of what the receiver makes of the frame.        *)
Judged(result) ==
  /\ fault.kind \in {"None", "Padded"} =>
       /\ result.error = None
       /\ result.body = sent.body
       /\ sent.ethernet.ether_type.kind = "Ipv4" => result.ip = sent.ip
  /\ fault.kind = "Truncated" => result.error # None
  /\ fault.kind = "Damaged" /\ result.error = None =>
       \/ {fault.before, fault.after} = {0, Ones}
       \/ sent.ip.protocol.kind = "Udp" /\ frame.body.body.checksum = 0

LinkInv ==
  /\ stage \in {"Ready", "OnWire", "Arrived", "Read"}
  /\ stage # "Ready" => sent \in Messages /\ Serialises(sent)
  /\ stage = "OnWire" => frame = WriteMessage(sent)
  /\ stage \in {"Arrived", "Read"} => Judged(ReadFrame(frame))
  /\ stage = "Read" => received = ReadFrame(frame)
--------------------------------------------------------------------------------
(* What is sent.                                                           *)

IsArp(message)  == message.ethernet.ether_type.kind = "Arp"
IsIpv4(message) == message.ethernet.ether_type.kind = "Ipv4"

(* The three bodies of an IPv4 packet.                                     *)
LEMMA BodyKinds ==
  ASSUME NEW message, IsMessage(message), Serialises(message), IsIpv4(message)
  PROVE  LET ip == message.ip
             data == WriteBody(message)
         IN /\ ip \in Ipv4Packet({NoBytes})
            /\ ip.source \in Nat /\ ip.destination \in Nat
            /\ \/ /\ ip.protocol.kind = "Icmp" /\ message.body \in IcmpMessage
                  /\ data = WriteIcmp(message.body)
               \/ /\ ip.protocol.kind = "Udp" /\ message.body \in UdpDatagram
                  /\ data = WriteUdp(ip.source, ip.destination, message.body)
               \/ /\ ip.protocol.kind = "Tcp" /\ message.body \in TcpSegmentToSend
                  /\ TcpWriteRefuses(message.body, TcpRequired(message.body)) = None
                  /\ data = WriteTcp(ip.source, ip.destination, message.body)
<1>1. message.ip \in Ipv4Packet({NoBytes})
  BY DEF IsMessage, IsIpv4
<1>2. message.ip.source \in Nat /\ message.ip.destination \in Nat
  BY <1>1 DEF Ipv4Packet
<1>3. \/ message.ip.protocol.kind = "Icmp" /\ message.body \in IcmpMessage
      \/ message.ip.protocol.kind = "Udp" /\ message.body \in UdpDatagram
      \/ message.ip.protocol.kind = "Tcp" /\ message.body \in TcpSegmentToSend
  BY DEF IsMessage, IsIpv4
<1>4. message.ip.protocol.kind = "Tcp" =>
        TcpWriteRefuses(message.body, TcpRequired(message.body)) = None
  BY DEF Serialises, IsIpv4, BodyWriteRefuses
<1> QED
  BY <1>1, <1>2, <1>3, <1>4 DEF WriteBody

(* What a writer wrote is a slice of a known length.                       *)
LEMMA BodyWritten ==
  ASSUME NEW message, IsMessage(message), Serialises(message), IsIpv4(message)
  PROVE  LET data == WriteBody(message)
         IN data.len \in Nat /\ data = Slice(data, data.len)
<1> DEFINE data == WriteBody(message)
           ip   == message.ip
<1>1. CASE ip.protocol.kind = "Icmp"
  <2>1. message.body \in IcmpMessage /\ data = WriteIcmp(message.body)
    BY <1>1, BodyKinds
  <2>2. data.len \in Nat
    BY <2>1, IcmpWritten
  <2>3. WriteIcmp(message.body) = Slice(WriteIcmp(message.body), WriteIcmp(message.body).len)
    BY DEF Slice, WriteIcmp, IcmpUnsealed
  <2> QED
    BY <2>1, <2>2, <2>3
<1>2. CASE ip.protocol.kind = "Udp"
  <2>1. /\ message.body \in UdpDatagram /\ data = WriteUdp(ip.source, ip.destination, message.body)
        /\ ip.source \in Nat /\ ip.destination \in Nat
    BY <1>2, BodyKinds
  <2>2. data.len \in Nat
    <3>1. WriteUdp(ip.source, ip.destination, message.body).len = 8 + message.body.payload.len
      BY DEF WriteUdp, UdpUnsealed, UdpRequired, UDP_HEADER_LEN
    <3>2. message.body.payload.len \in Nat
      BY <2>1 DEF UdpDatagram, ByteSlice
    <3> QED
      BY <2>1, <3>1, <3>2
  <2>3. WriteUdp(ip.source, ip.destination, message.body)
          = Slice(WriteUdp(ip.source, ip.destination, message.body),
                  WriteUdp(ip.source, ip.destination, message.body).len)
    BY DEF Slice, WriteUdp, UdpUnsealed
  <2> QED
    BY <2>1, <2>2, <2>3
<1>3. CASE ip.protocol.kind = "Tcp"
  <2>1. /\ message.body \in TcpSegmentToSend
        /\ data = WriteTcp(ip.source, ip.destination, message.body)
        /\ TcpWriteRefuses(message.body, TcpRequired(message.body)) = None
        /\ ip.source \in Nat /\ ip.destination \in Nat
    BY <1>3, BodyKinds
  <2>2. data.len \in Nat
    <3>1. WriteTcp(ip.source, ip.destination, message.body).len
            = 20 + message.body.options.len + message.body.payload.len
      BY DEF WriteTcp, TcpUnsealed, TcpRequired, TcpHeaderRequired, TCP_MIN_HEADER_LEN
    <3>2. message.body.options.len \in Nat /\ message.body.payload.len \in Nat
      BY <2>1 DEF TcpSegmentToSend, ByteSlice
    <3> QED
      BY <2>1, <3>1, <3>2
  <2>3. WriteTcp(ip.source, ip.destination, message.body)
          = Slice(WriteTcp(ip.source, ip.destination, message.body),
                  WriteTcp(ip.source, ip.destination, message.body).len)
    BY DEF Slice, WriteTcp, TcpUnsealed
  <2> QED
    BY <2>1, <2>2, <2>3
<1> QED
  BY <1>1, <1>2, <1>3, BodyKinds

(* The IPv4 packet around the body.                                        *)
LEMMA PacketToWrite ==
  ASSUME NEW message, IsMessage(message), Serialises(message), IsIpv4(message)
  PROVE  LET packet == Ipv4ToWrite(message)
             data   == WriteBody(message)
         IN /\ packet \in Ipv4Packet({data})
            /\ packet.payload = data
            /\ packet.protocol = message.ip.protocol
            /\ packet.protocol.kind \in {"Icmp", "Udp", "Tcp"}
            /\ packet.source = message.ip.source
            /\ packet.destination = message.ip.destination
            /\ Around(packet, NoBytes) = message.ip
            /\ Ipv4WriteRefuses(packet, Ipv4Required(packet)) = None
<1>1. message.ip \in Ipv4Packet({NoBytes})
  BY BodyKinds
<1>2. message.ip.protocol.kind \in {"Icmp", "Udp", "Tcp"}
  BY BodyKinds
<1>3. /\ Around(message.ip, WriteBody(message)) \in Ipv4Packet({WriteBody(message)})
      /\ Around(message.ip, WriteBody(message)).payload = WriteBody(message)
      /\ Around(message.ip, WriteBody(message)).protocol = message.ip.protocol
      /\ Around(message.ip, WriteBody(message)).source = message.ip.source
      /\ Around(message.ip, WriteBody(message)).destination = message.ip.destination
  BY <1>1 DEF Around, Ipv4Packet
<1>4. Around(Around(message.ip, WriteBody(message)), NoBytes) = message.ip
  BY <1>1 DEF Around, Ipv4Packet
<1>5. Ipv4WriteRefuses(Ipv4ToWrite(message), Ipv4Required(Ipv4ToWrite(message))) = None
  BY DEF Serialises, IsIpv4
<1> QED
  BY <1>2, <1>3, <1>4, <1>5 DEF Ipv4ToWrite

LEMMA AroundEthernet ==
  ASSUME NEW message, IsMessage(message), NEW data
  PROVE  /\ Around(message.ethernet, data).payload = data
         /\ Around(message.ethernet, data).ether_type = message.ethernet.ether_type
BY DEF IsMessage, Around

(* The frame around all of it.                                             *)
LEMMA FrameWritten ==
  ASSUME NEW message, IsMessage(message), Serialises(message)
  PROVE  LET bytes == WriteMessage(message)
         IN /\ bytes = Slice(bytes, bytes.len)
            /\ (IsArp(message) \/ IsIpv4(message)) /\ ~ (IsArp(message) /\ IsIpv4(message))
            /\ IsArp(message) =>
                 /\ bytes.ether_type = 2054 /\ message.body \in ArpPacket(Macs)
                 /\ bytes.body = WriteArp(message.body) /\ bytes.len = 14 + 28
            /\ IsIpv4(message) =>
                 /\ bytes.ether_type = 2048
                 /\ bytes.body = WriteIpv4(Ipv4ToWrite(message))
                 /\ bytes.len = 14 + bytes.body.len
                 /\ bytes.body.len \in Nat
            /\ bytes.len \in Nat
<1> DEFINE bytes == WriteMessage(message)
<1>1. bytes = Slice(bytes, bytes.len)
  BY DEF WriteMessage, WriteEthernet, Slice
<1>2. (IsArp(message) \/ IsIpv4(message)) /\ ~ (IsArp(message) /\ IsIpv4(message))
  BY DEF IsMessage, IsArp, IsIpv4
<1>3. CASE IsArp(message)
  <2>1. message.body \in ArpPacket(Macs)
    BY <1>3 DEF IsMessage, IsArp
  <2>2. WriteArp(message.body).len = 28
    BY DEF WriteArp, ARP_HEADER_LEN
  <2> DEFINE packet == Around(message.ethernet, WriteArp(message.body))
  <2>3. bytes = WriteEthernet(packet)
    BY <1>3 DEF WriteMessage, IsArp
  <2>4. packet.payload = WriteArp(message.body) /\ packet.ether_type.kind = "Arp"
    BY <1>3, AroundEthernet DEF IsArp
  <2> HIDE DEF packet
  <2>5. AsU16(packet.ether_type) = 2054
    BY <2>4 DEF AsU16
  <2>6. /\ bytes.ether_type = 2054 /\ bytes.body = WriteArp(message.body)
        /\ bytes.len = 14 + 28
    BY <2>2, <2>3, <2>4, <2>5 DEF WriteEthernet, EthernetRequired, ETHERNET_HEADER_LEN
  <2> QED
    BY <1>1, <1>2, <1>3, <2>1, <2>6
<1>4. CASE IsIpv4(message)
  <2> DEFINE ip == WriteIpv4(Ipv4ToWrite(message))
             packet == Around(message.ethernet, ip)
  <2>1. bytes = WriteEthernet(packet)
    BY <1>4 DEF WriteMessage, IsIpv4
  <2>2. packet.payload = ip /\ packet.ether_type.kind = "Ipv4"
    BY <1>4, AroundEthernet DEF IsIpv4
  <2>3. ip.len \in Nat
    <3> DEFINE toWrite == Ipv4ToWrite(message)
               data    == WriteBody(message)
    <3>1. data.len \in Nat /\ toWrite.payload = data /\ toWrite \in Ipv4Packet({data})
      BY <1>4, BodyWritten, PacketToWrite
    <3>2. ip.len = 20 + toWrite.options.len + toWrite.payload.len
      BY DEF WriteIpv4, Ipv4Unsealed, Ipv4Required, Ipv4HeaderRequired, IPV4_MIN_HEADER_LEN
    <3>3. toWrite.options.len \in Nat
      BY <3>1 DEF Ipv4Packet, ByteSlice
    <3> QED
      BY <3>1, <3>2, <3>3
  <2> HIDE DEF packet, ip
  <2>4. AsU16(packet.ether_type) = 2048
    BY <2>2 DEF AsU16
  <2>5. /\ bytes.ether_type = 2048 /\ bytes.body = ip /\ bytes.len = 14 + ip.len
    BY <2>1, <2>2, <2>4 DEF WriteEthernet, EthernetRequired, ETHERNET_HEADER_LEN
  <2> QED
    BY <1>1, <1>2, <1>4, <2>3, <2>5 DEF ip
<1> QED
  BY <1>2, <1>3, <1>4
--------------------------------------------------------------------------------
(* What is read.                                                           *)

(* The receiver sees an IPv4 frame through its IPv4 packet.                *)
LEMMA ReadIpv4 ==
  ASSUME NEW bytes, bytes.ether_type = 2048, bytes.len \in Nat, bytes.len >= 14
  PROVE  LET packet == Slice(bytes.body, bytes.len - 14)
         IN ReadFrame(bytes) = IF Ipv4Refuses(packet) # None
                               THEN Error("Ipv4", Ipv4Refuses(packet))
                               ELSE ReadBody(ParseIpv4(packet))
<1>1. EthernetRefuses(bytes) = None
  BY DEF EthernetRefuses, ETHERNET_HEADER_LEN
<1>2. ParseEthFrame(bytes).payload = Slice(bytes.body, bytes.len - 14)
  BY DEF ParseEthFrame, ETHERNET_HEADER_LEN
<1>3. FromU16(bytes.ether_type).kind = "Ipv4"
  BY DEF FromU16
<1> QED
  BY <1>1, <1>2, <1>3 DEF ReadFrame

LEMMA ReadArp ==
  ASSUME NEW bytes, bytes.ether_type = 2054, bytes.len \in Nat, bytes.len >= 14
  PROVE  LET packet == Slice(bytes.body, bytes.len - 14)
         IN ReadFrame(bytes) = IF ArpRefuses(packet) # None
                               THEN Error("Arp", ArpRefuses(packet))
                               ELSE [error |-> None, body |-> ParseArp(packet)]
<1>1. EthernetRefuses(bytes) = None
  BY DEF EthernetRefuses, ETHERNET_HEADER_LEN
<1>2. ParseEthFrame(bytes).payload = Slice(bytes.body, bytes.len - 14)
  BY DEF ParseEthFrame, ETHERNET_HEADER_LEN
<1>3. FromU16(bytes.ether_type).kind = "Arp"
  BY DEF FromU16
<1> QED
  BY <1>1, <1>2, <1>3 DEF ReadFrame

(* The body of a packet that was sent.                                     *)
LEMMA BodyIsRead ==
  ASSUME NEW message, IsMessage(message), Serialises(message), IsIpv4(message)
  PROVE  ReadBody(Ipv4ToWrite(message))
           = [error |-> None, ip |-> message.ip, body |-> message.body]
<1> DEFINE packet == Ipv4ToWrite(message)
           data   == WriteBody(message)
           ip     == message.ip
<1>1. /\ packet.payload = data /\ packet.protocol = ip.protocol
      /\ packet.source = ip.source /\ packet.destination = ip.destination
      /\ Around(packet, NoBytes) = ip
      /\ ip.source \in Nat /\ ip.destination \in Nat
  BY PacketToWrite, BodyKinds
<1> HIDE DEF packet, data
<1>2. CASE ip.protocol.kind = "Icmp"
  <2>1. message.body \in IcmpMessage /\ data = WriteIcmp(message.body)
    BY <1>2, BodyKinds DEF data
  <2>2. IcmpRefuses(data) = None /\ ParseIcmp(data) = message.body
    BY <2>1, IcmpIsRead
  <2> QED
    BY <1>1, <1>2, <2>2 DEF ReadBody, packet
<1>3. CASE ip.protocol.kind = "Udp"
  <2>1. message.body \in UdpDatagram /\ data = WriteUdp(ip.source, ip.destination, message.body)
    BY <1>3, BodyKinds DEF data
  <2>2. UdpInvalid(ip.source, ip.destination, data) = None /\ ParseUdp(data) = message.body
    BY <1>1, <2>1, UdpIsRead
  <2> QED
    BY <1>1, <1>3, <2>2 DEF ReadBody, packet
<1>4. CASE ip.protocol.kind = "Tcp"
  <2>1. /\ message.body \in TcpSegmentToSend
        /\ TcpWriteRefuses(message.body, TcpRequired(message.body)) = None
        /\ data = WriteTcp(ip.source, ip.destination, message.body)
    BY <1>4, BodyKinds DEF data
  <2>2. TcpInvalid(ip.source, ip.destination, data) = None /\ ParseTcp(data) = message.body
    BY <1>1, <2>1, TcpIsRead
  <2> QED
    BY <1>1, <1>4, <2>2 DEF ReadBody, packet
<1> QED
  BY <1>2, <1>3, <1>4, BodyKinds

(* A frame as it was sent, or longer.                                      *)
LEMMA MessageIsRead ==
  ASSUME NEW message, IsMessage(message), Serialises(message),
         NEW n \in Nat, n >= WriteMessage(message).len
  PROVE  LET result == ReadFrame(Slice(WriteMessage(message), n))
         IN /\ result.error = None /\ result.body = message.body
            /\ IsIpv4(message) => result.ip = message.ip
<1> DEFINE w == WriteMessage(message)
           bytes == Slice(w, n)
<1>1. bytes.len = n /\ bytes.body = w.body /\ bytes.ether_type = w.ether_type
  BY DEF Slice, WriteMessage, WriteEthernet
<1> HIDE DEF bytes
<1>2. CASE IsArp(message)
  <2>1. /\ w.ether_type = 2054 /\ message.body \in ArpPacket(Macs)
        /\ w.body = WriteArp(message.body) /\ w.len = 14 + 28
        /\ ~ IsIpv4(message)
    BY <1>2, FrameWritten
  <2>2. n >= 14 /\ n - 14 >= 28 /\ n - 14 \in Nat
    BY <2>1
  <2> DEFINE packet == Slice(WriteArp(message.body), n - 14)
  <2>3. ArpRefuses(packet) = None /\ ParseArp(packet) = message.body
    BY <2>1, <2>2, ArpIsRead
  <2> HIDE DEF w
  <2>4. ReadFrame(bytes) = IF ArpRefuses(packet) # None
                           THEN Error("Arp", ArpRefuses(packet))
                           ELSE [error |-> None, body |-> ParseArp(packet)]
    BY <1>1, <2>1, <2>2, ReadArp
  <2> QED
    BY <2>1, <2>3, <2>4 DEF bytes, w
<1>3. CASE IsIpv4(message)
  <2> DEFINE toWrite == Ipv4ToWrite(message)
             data    == WriteBody(message)
  <2>1. /\ w.ether_type = 2048 /\ w.body = WriteIpv4(toWrite)
        /\ w.len = 14 + WriteIpv4(toWrite).len /\ WriteIpv4(toWrite).len \in Nat
    BY <1>3, FrameWritten
  <2>2. n >= 14 /\ n - 14 >= WriteIpv4(toWrite).len /\ n - 14 \in Nat
    BY <2>1
  <2>3. data.len \in Nat /\ data = Slice(data, data.len)
    BY <1>3, BodyWritten
  <2>4. /\ toWrite \in Ipv4Packet({data})
        /\ toWrite.protocol.kind \in {"Icmp", "Udp", "Tcp"}
        /\ Ipv4WriteRefuses(toWrite, Ipv4Required(toWrite)) = None
    BY <1>3, PacketToWrite
  <2> DEFINE packet == Slice(WriteIpv4(toWrite), n - 14)
  <2> HIDE DEF data, toWrite
  <2>5. Ipv4Refuses(packet) = None /\ ParseIpv4(packet) = toWrite
    BY <2>2, <2>3, <2>4, Ipv4IsRead
  <2> HIDE DEF w
  <2>6. ReadFrame(bytes) = IF Ipv4Refuses(packet) # None
                           THEN Error("Ipv4", Ipv4Refuses(packet))
                           ELSE ReadBody(ParseIpv4(packet))
    BY <1>1, <2>1, <2>2, ReadIpv4
  <2> HIDE DEF packet
  <2>7. ReadFrame(bytes) = ReadBody(toWrite)
    BY <2>5, <2>6
  <2>8. ReadBody(toWrite) = [error |-> None, ip |-> message.ip, body |-> message.body]
    BY <1>3, BodyIsRead DEF toWrite
  <2> QED
    BY <2>7, <2>8 DEF bytes, w
<1> QED
  BY <1>2, <1>3, FrameWritten

(* A frame that lost its end.                                              *)
LEMMA PartIsRefused ==
  ASSUME NEW message, IsMessage(message), Serialises(message),
         NEW n \in Nat, n < WriteMessage(message).len
  PROVE  ReadFrame(Slice(WriteMessage(message), n)).error # None
<1> DEFINE w == WriteMessage(message)
           bytes == Slice(w, n)
<1>1. bytes.len = n /\ bytes.body = w.body /\ bytes.ether_type = w.ether_type
  BY DEF Slice, WriteMessage, WriteEthernet
<1> HIDE DEF bytes
<1>2. CASE n < 14
  <2>1. EthernetRefuses(bytes) = "FrameTooShort"
    BY <1>1, <1>2 DEF EthernetRefuses, ETHERNET_HEADER_LEN
  <2> QED
    BY <2>1 DEF ReadFrame, Error, None, bytes
<1>3. CASE n >= 14 /\ IsArp(message)
  <2>1. w.ether_type = 2054 /\ w.body = WriteArp(message.body) /\ w.len = 14 + 28
    BY <1>3, FrameWritten
  <2>2. n - 14 < 28 /\ n - 14 \in Nat
    BY <1>3, <2>1
  <2> DEFINE packet == Slice(WriteArp(message.body), n - 14)
  <2>3. ArpRefuses(packet) # None
    BY <2>2, ArpIsTruncated
  <2> HIDE DEF w
  <2>4. ReadFrame(bytes) = IF ArpRefuses(packet) # None
                           THEN Error("Arp", ArpRefuses(packet))
                           ELSE [error |-> None, body |-> ParseArp(packet)]
    BY <1>1, <1>3, <2>1, ReadArp
  <2> HIDE DEF packet
  <2>5. ReadFrame(bytes).error # None
    BY <2>3, <2>4 DEF Error
  <2> QED
    BY <2>5 DEF bytes, w
<1>4. CASE n >= 14 /\ IsIpv4(message)
  <2> DEFINE toWrite == Ipv4ToWrite(message)
             packet  == Slice(WriteIpv4(toWrite), n - 14)
  <2>1. /\ w.ether_type = 2048 /\ w.body = WriteIpv4(toWrite)
        /\ w.len = 14 + WriteIpv4(toWrite).len /\ WriteIpv4(toWrite).len \in Nat
    BY <1>4, FrameWritten
  <2>2. /\ packet.len = n - 14
        /\ packet.total_length = WriteIpv4(toWrite).len
    BY DEF Slice, WriteIpv4, Ipv4Unsealed
  <2>3. packet.len < packet.total_length
    BY <1>4, <2>1, <2>2
  <2>4. Ipv4Refuses(packet) # None
    BY <2>3, Ipv4IsTruncated
  <2> HIDE DEF w, toWrite
  <2>5. ReadFrame(bytes) = IF Ipv4Refuses(packet) # None
                           THEN Error("Ipv4", Ipv4Refuses(packet))
                           ELSE ReadBody(ParseIpv4(packet))
    BY <1>1, <1>4, <2>1, ReadIpv4
  <2> HIDE DEF packet
  <2>6. ReadFrame(bytes).error # None
    BY <2>4, <2>5 DEF Error
  <2> QED
    BY <2>6 DEF bytes, w
<1> QED
  BY <1>2, <1>3, <1>4, FrameWritten
--------------------------------------------------------------------------------
(* What is noticed.                                                        *)

(* The rows of an IPv4 header.                                             *)
Row1(p) == p.version_and_ihl * 256 + p.dscp_and_ecn + p.total_length
Row2(p) == p.identification + p.flags_and_fragment_offset
Row3(p) == p.ttl * 256 + p.protocol + p.checksum
Row4(p) == IpSum(p.source) + IpSum(p.destination)

WordFields == {"total_length", "identification", "flags_and_fragment_offset", "checksum"}
ByteFields == {"dscp_and_ecn", "protocol"}
IpFields   == {"source", "destination"}

(* A change of one row changes the sum of the header by as much.           *)
LEMMA RowChanged ==
  ASSUME NEW w, NEW c, NEW len, NEW delta \in Int,
         Row1(w) \in Nat, Row2(w) \in Nat, Row3(w) \in Nat, Row4(w) \in Nat,
         RunSum(w.options.fill, len - 20) \in Nat, c.options = w.options,
         LET Kept1 == Row1(c) = Row1(w)
             Kept2 == Row2(c) = Row2(w)
             Kept3 == Row3(c) = Row3(w)
             Kept4 == Row4(c) = Row4(w)
         IN \/ Row1(c) = Row1(w) + delta /\ Kept2 /\ Kept3 /\ Kept4
            \/ Row2(c) = Row2(w) + delta /\ Kept1 /\ Kept3 /\ Kept4
            \/ Row3(c) = Row3(w) + delta /\ Kept1 /\ Kept2 /\ Kept4
            \/ Row4(c) = Row4(w) + delta /\ Kept1 /\ Kept2 /\ Kept3
  PROVE  /\ Ipv4HeaderSum(w, len) \in Nat
         /\ Ipv4HeaderSum(c, len) = Ipv4HeaderSum(w, len) + delta
<1> DEFINE run == RunSum(w.options.fill, len - 20)
<1>1. Ipv4HeaderSum(w, len) = Row1(w) + Row2(w) + Row3(w) + Row4(w) + run
  BY DEF Ipv4HeaderSum, Row1, Row2, Row3, Row4, IPV4_MIN_HEADER_LEN
<1>2. Ipv4HeaderSum(c, len) = Row1(c) + Row2(c) + Row3(c) + Row4(c) + run
  BY DEF Ipv4HeaderSum, Row1, Row2, Row3, Row4, IPV4_MIN_HEADER_LEN
<1> HIDE DEF run
<1>3. run \in Nat
  BY DEF run
<1> DEFINE a == Row1(w)
           b == Row2(w)
           d == Row3(w)
           e == Row4(w)
<1>4. a \in Nat /\ b \in Nat /\ d \in Nat /\ e \in Nat
  OBVIOUS
<1>5. \/ Ipv4HeaderSum(c, len) = (a + delta) + b + d + e + run
      \/ Ipv4HeaderSum(c, len) = a + (b + delta) + d + e + run
      \/ Ipv4HeaderSum(c, len) = a + b + (d + delta) + e + run
      \/ Ipv4HeaderSum(c, len) = a + b + d + (e + delta) + run
  BY <1>2
<1> HIDE DEF a, b, d, e
<1>6. Ipv4HeaderSum(w, len) = a + b + d + e + run
  BY <1>1 DEF a, b, d, e
<1> QED
  BY <1>3, <1>4, <1>5, <1>6

(* Each word of the header is in one row.                                  *)
LEMMA RowOfField ==
  ASSUME NEW w, NEW c, NEW field \in WordFields \cup ByteFields \cup IpFields,
         NEW delta \in Int,
         w.version_and_ihl \in Nat, w.dscp_and_ecn \in Nat, w.total_length \in Nat,
         w.identification \in Nat, w.flags_and_fragment_offset \in Nat,
         w.ttl \in Nat, w.protocol \in Nat, w.checksum \in Nat,
         IpSum(w.source) \in Nat, IpSum(w.destination) \in Nat,
         field \in WordFields \cup ByteFields => c[field] = w[field] + delta,
         field \in IpFields => IpSum(c[field]) = IpSum(w[field]) + delta,
         \A f \in {"version_and_ihl", "dscp_and_ecn", "total_length", "identification",
                   "flags_and_fragment_offset", "ttl", "protocol", "checksum", "source",
                   "destination"} : f # field => c[f] = w[f]
  PROVE  /\ Row1(w) \in Nat /\ Row2(w) \in Nat /\ Row3(w) \in Nat /\ Row4(w) \in Nat
         /\ LET Kept1 == Row1(c) = Row1(w)
                Kept2 == Row2(c) = Row2(w)
                Kept3 == Row3(c) = Row3(w)
                Kept4 == Row4(c) = Row4(w)
            IN \/ Row1(c) = Row1(w) + delta /\ Kept2 /\ Kept3 /\ Kept4
               \/ Row2(c) = Row2(w) + delta /\ Kept1 /\ Kept3 /\ Kept4
               \/ Row3(c) = Row3(w) + delta /\ Kept1 /\ Kept2 /\ Kept4
               \/ Row4(c) = Row4(w) + delta /\ Kept1 /\ Kept2 /\ Kept3
<1>1. Row1(w) \in Nat /\ Row2(w) \in Nat /\ Row3(w) \in Nat /\ Row4(w) \in Nat
  BY DEF Row1, Row2, Row3, Row4
<1>2. /\ field \notin {"dscp_and_ecn", "total_length"} => Row1(c) = Row1(w)
      /\ field \notin {"identification", "flags_and_fragment_offset"} => Row2(c) = Row2(w)
      /\ field \notin {"protocol", "checksum"} => Row3(c) = Row3(w)
      /\ field \notin IpFields => Row4(c) = Row4(w)
  <2>1. c.version_and_ihl = w.version_and_ihl /\ c.ttl = w.ttl
    BY DEF WordFields, ByteFields, IpFields
  <2> QED
    BY <2>1 DEF Row1, Row2, Row3, Row4, IpFields
<1>3. CASE field = "dscp_and_ecn" \/ field = "total_length"
  <2>1. \/ c.dscp_and_ecn = w.dscp_and_ecn + delta /\ c.total_length = w.total_length
        \/ c.dscp_and_ecn = w.dscp_and_ecn /\ c.total_length = w.total_length + delta
    BY <1>3 DEF WordFields, ByteFields
  <2>2. c.version_and_ihl = w.version_and_ihl
    BY <1>3
  <2>3. Row1(c) = Row1(w) + delta
    BY <2>1, <2>2 DEF Row1
  <2> QED
    BY <1>1, <1>2, <1>3, <2>3 DEF IpFields
<1>4. CASE field = "identification" \/ field = "flags_and_fragment_offset"
  <2>1. \/ /\ c.identification = w.identification + delta
           /\ c.flags_and_fragment_offset = w.flags_and_fragment_offset
        \/ /\ c.identification = w.identification
           /\ c.flags_and_fragment_offset = w.flags_and_fragment_offset + delta
    BY <1>4 DEF WordFields, ByteFields
  <2>2. Row2(c) = Row2(w) + delta
    BY <2>1 DEF Row2
  <2> QED
    BY <1>1, <1>2, <1>4, <2>2 DEF IpFields
<1>5. CASE field = "protocol" \/ field = "checksum"
  <2>1. \/ c.protocol = w.protocol + delta /\ c.checksum = w.checksum
        \/ c.protocol = w.protocol /\ c.checksum = w.checksum + delta
    BY <1>5 DEF WordFields, ByteFields
  <2>2. c.ttl = w.ttl
    BY <1>5
  <2>3. Row3(c) = Row3(w) + delta
    BY <2>1, <2>2 DEF Row3
  <2> QED
    BY <1>1, <1>2, <1>5, <2>3 DEF IpFields
<1>6. CASE field \in IpFields
  <2>1. \/ /\ IpSum(c.source) = IpSum(w.source) + delta
           /\ IpSum(c.destination) = IpSum(w.destination)
        \/ /\ IpSum(c.source) = IpSum(w.source)
           /\ IpSum(c.destination) = IpSum(w.destination) + delta
    BY <1>6 DEF IpFields
  <2>2. Row4(c) = Row4(w) + delta
    BY <2>1 DEF Row4
  <2> QED
    BY <1>1, <1>2, <1>6, <2>2 DEF IpFields
<1> QED
  BY <1>3, <1>4, <1>5, <1>6 DEF WordFields, ByteFields, IpFields

(* What parse_ipv4_packet accepts validates.                               *)
LEMMA Ipv4Accepted ==
  ASSUME NEW packet, NEW n, Ipv4Refuses(Slice(packet, n)) = None
  PROVE  Validates(Ipv4HeaderSum(packet, HeaderLength(packet)))
<1>1. Validates(Ipv4HeaderSum(Slice(packet, n), HeaderLength(Slice(packet, n))))
  BY DEF Ipv4Refuses, None
<1> QED
  BY <1>1, SliceSum

(* The fields of a header that was written.                                *)
LEMMA HeaderNumbers ==
  ASSUME NEW data, data.len \in Nat, NEW packet \in Ipv4Packet({data}),
         NEW room, Ipv4WriteRefuses(packet, room) = None
  PROVE  LET w == WriteIpv4(packet)
         IN /\ w.version_and_ihl \in Nat
            /\ w.dscp_and_ecn \in Nat /\ w.dscp_and_ecn \in U8 /\ w.dscp_and_ecn \in U16
            /\ w.total_length \in Nat /\ w.total_length \in U16
            /\ w.identification \in Nat /\ w.identification \in U16
            /\ w.flags_and_fragment_offset \in Nat /\ w.flags_and_fragment_offset \in U16
            /\ w.ttl \in Nat /\ w.ttl \in U8 /\ w.ttl \in U16
            /\ w.protocol \in Nat /\ w.protocol \in U8 /\ w.protocol \in U16
            /\ w.checksum \in Nat /\ w.checksum \in U16
            /\ w.source \in Nat /\ w.destination \in Nat
            /\ IpSum(w.source) \in Nat /\ IpSum(w.destination) \in Nat
            /\ RunSum(w.options.fill, HeaderLength(w) - 20) \in Nat
            /\ Validates(Ipv4HeaderSum(w, HeaderLength(w)))
<1> DEFINE w == WriteIpv4(packet)
<1>1. /\ w.version_and_ihl \in Nat /\ w.dscp_and_ecn \in U8 /\ w.total_length \in U16
      /\ w.identification \in U16 /\ w.flags_and_fragment_offset \in U16
      /\ w.ttl \in U8 /\ w.protocol \in U8 /\ w.checksum \in U16
      /\ w.source \in Nat /\ w.destination \in Nat
      /\ RunSum(w.options.fill, HeaderLength(w) - 20) \in Nat
      /\ Validates(Ipv4HeaderSum(w, HeaderLength(w)))
  BY Ipv4Written
<1> HIDE DEF w
<1> QED
  BY <1>1, U8IsU16, U16Value, IpSumNat DEF w

(* What is known of the numbers in a header.                               *)
IsHeader(w) ==
  /\ w.version_and_ihl \in Nat
  /\ w.dscp_and_ecn \in Nat /\ w.dscp_and_ecn \in U8 /\ w.dscp_and_ecn \in U16
  /\ w.total_length \in Nat /\ w.total_length \in U16
  /\ w.identification \in Nat /\ w.identification \in U16
  /\ w.flags_and_fragment_offset \in Nat /\ w.flags_and_fragment_offset \in U16
  /\ w.ttl \in Nat /\ w.ttl \in U8
  /\ w.protocol \in Nat /\ w.protocol \in U8 /\ w.protocol \in U16
  /\ w.checksum \in Nat /\ w.checksum \in U16
  /\ w.source \in Nat /\ w.destination \in Nat
  /\ IpSum(w.source) \in Nat /\ IpSum(w.destination) \in Nat
  /\ RunSum(w.options.fill, HeaderLength(w) - 20) \in Nat
  /\ Validates(Ipv4HeaderSum(w, HeaderLength(w)))

(* c is w with the word before of one field replaced.                      *)
IsDamaged(w, c, field, before, word) ==
  /\ before # word
  /\ \/ field \in WordFields /\ before = w[field]
     \/ field \in ByteFields \cup {"ttl"} /\ before = w[field] /\ word \in U8
     \/ field \in IpFields /\ before = w[field] % 65536
  /\ c[field] = w[field] - before + word
  /\ \A f \in {"version_and_ihl", "dscp_and_ecn", "total_length", "identification",
               "flags_and_fragment_offset", "ttl", "protocol", "checksum", "source",
               "destination"} : f # field => c[f] = w[f]
  /\ c.options = w.options

(* Two headers that differ in a word, and both validate.                   *)
LEMMA DamagedWord ==
  ASSUME NEW w, IsHeader(w), NEW c, NEW field, field # "ttl", NEW before, NEW word \in U16,
         IsDamaged(w, c, field, before, word),
         Validates(Ipv4HeaderSum(c, HeaderLength(c)))
  PROVE  TwoZeros(before, word)
<1> DEFINE len   == HeaderLength(w)
           delta == word - before
<1>1. field \in WordFields \cup ByteFields \cup IpFields
  BY DEF IsDamaged
<1>2. before \in U16
  <2>1. CASE field \in WordFields \cup ByteFields
    BY <2>1 DEF IsDamaged, IsHeader, WordFields, ByteFields, IpFields
  <2>2. CASE field \in IpFields
    <3>1. before = w[field] % 65536 /\ w[field] \in Nat
      BY <2>2 DEF IsDamaged, IsHeader, WordFields, ByteFields, IpFields
    <3>2. before \in Nat /\ before <= 65535
      BY <3>1
    <3> QED
      BY <3>2, U16Bound
  <2> QED
    BY <1>1, <2>1, <2>2
<1>3. before \in Nat /\ word \in Nat /\ delta \in Int
  BY <1>2, U16Value
<1>4. field \in WordFields \cup ByteFields => c[field] = w[field] + delta
  BY <1>3 DEF IsDamaged, IsHeader, WordFields, ByteFields
<1>5. field \in IpFields => IpSum(c[field]) = IpSum(w[field]) + delta
  <2> SUFFICES ASSUME field \in IpFields PROVE IpSum(c[field]) = IpSum(w[field]) + delta
    OBVIOUS
  <2>1. /\ before = w[field] % 65536 /\ w[field] \in Nat /\ IpSum(w[field]) \in Nat
        /\ c[field] = w[field] - before + word
    BY DEF IsDamaged, IsHeader, WordFields, ByteFields, IpFields
  <2>2. IpSum(c[field]) = IpSum(w[field]) - before + word
    BY <2>1, IpSumChanged
  <2> QED
    BY <1>3, <2>1, <2>2
<1> HIDE DEF delta
<1>6. /\ Ipv4HeaderSum(w, len) \in Nat
      /\ Ipv4HeaderSum(c, len) = Ipv4HeaderSum(w, len) + delta
  <2>1. /\ Row1(w) \in Nat /\ Row2(w) \in Nat /\ Row3(w) \in Nat /\ Row4(w) \in Nat
        /\ LET Kept1 == Row1(c) = Row1(w)
               Kept2 == Row2(c) = Row2(w)
               Kept3 == Row3(c) = Row3(w)
               Kept4 == Row4(c) = Row4(w)
           IN \/ Row1(c) = Row1(w) + delta /\ Kept2 /\ Kept3 /\ Kept4
              \/ Row2(c) = Row2(w) + delta /\ Kept1 /\ Kept3 /\ Kept4
              \/ Row3(c) = Row3(w) + delta /\ Kept1 /\ Kept2 /\ Kept4
              \/ Row4(c) = Row4(w) + delta /\ Kept1 /\ Kept2 /\ Kept3
    <3>1. /\ w.version_and_ihl \in Nat /\ w.dscp_and_ecn \in Nat /\ w.total_length \in Nat
          /\ w.identification \in Nat /\ w.flags_and_fragment_offset \in Nat
          /\ w.ttl \in Nat /\ w.protocol \in Nat /\ w.checksum \in Nat
          /\ IpSum(w.source) \in Nat /\ IpSum(w.destination) \in Nat
      BY DEF IsHeader
    <3>2. \A f \in {"version_and_ihl", "dscp_and_ecn", "total_length", "identification",
                    "flags_and_fragment_offset", "ttl", "protocol", "checksum", "source",
                    "destination"} : f # field => c[f] = w[f]
      BY DEF IsDamaged
    <3> QED
      BY <1>1, <1>3, <1>4, <1>5, <3>1, <3>2, RowOfField
  <2>2. RunSum(w.options.fill, len - 20) \in Nat /\ c.options = w.options
    BY DEF IsHeader, IsDamaged
  <2> QED
    BY <1>3, <2>1, <2>2, RowChanged
<1>7. HeaderLength(c) = len
  BY <1>1 DEF IsDamaged, HeaderLength, WordFields, ByteFields, IpFields
<1>8. Validates(Ipv4HeaderSum(w, len))
  BY DEF IsHeader
<1> DEFINE total   == Ipv4HeaderSum(w, len)
           changed == Ipv4HeaderSum(c, len)
<1>9. total \in Nat /\ changed = total + delta /\ Validates(total) /\ Validates(changed)
  BY <1>6, <1>7, <1>8
<1>10. before # word
  BY DEF IsDamaged
<1> HIDE DEF total, changed
<1>11. changed \in Int /\ changed = total - before + word
  BY <1>3, <1>9 DEF delta
<1> QED
  BY <1>2, <1>9, <1>10, <1>11, ChangedWord

(* The time to live is the high byte of a word: every change is noticed.   *)
LEMMA DamagedTtl ==
  ASSUME NEW w, IsHeader(w), NEW c, NEW before, NEW word,
         IsDamaged(w, c, "ttl", before, word)
  PROVE  ~ Validates(Ipv4HeaderSum(c, HeaderLength(c)))
<1> DEFINE len   == HeaderLength(w)
           delta == 256 * (word - before)
<1>1. /\ before \in U8 /\ word \in U8 /\ before # word /\ w.ttl = before
      /\ c.ttl = w.ttl - before + word
  BY DEF IsHeader, IsDamaged, WordFields, ByteFields, IpFields
<1>2. before \in Nat /\ word \in Nat /\ delta \in Int
  BY <1>1, U8Bound
<1>3. c.ttl = word
  BY <1>1, <1>2
<1>4. Row1(w) \in Nat /\ Row2(w) \in Nat /\ Row3(w) \in Nat /\ Row4(w) \in Nat
  BY DEF IsHeader, Row1, Row2, Row3, Row4
<1>5. Row1(c) = Row1(w) /\ Row2(c) = Row2(w) /\ Row4(c) = Row4(w)
  BY DEF IsDamaged, Row1, Row2, Row4
<1>6. Row3(c) = Row3(w) + delta
  <2>1. c.protocol = w.protocol /\ c.checksum = w.checksum
    BY DEF IsDamaged
  <2>2. w.protocol \in Nat /\ w.checksum \in Nat
    BY DEF IsHeader
  <2> QED
    BY <1>1, <1>2, <1>3, <2>1, <2>2 DEF Row3
<1> HIDE DEF delta
<1>7. RunSum(w.options.fill, len - 20) \in Nat /\ c.options = w.options
  BY DEF IsHeader, IsDamaged
<1>8. /\ Ipv4HeaderSum(w, len) \in Nat
      /\ Ipv4HeaderSum(c, len) = Ipv4HeaderSum(w, len) + delta
  BY <1>2, <1>4, <1>5, <1>6, <1>7, RowChanged
<1>9. HeaderLength(c) = len /\ Validates(Ipv4HeaderSum(w, len))
  BY DEF IsDamaged, IsHeader, HeaderLength
<1> DEFINE total   == Ipv4HeaderSum(w, len)
           changed == Ipv4HeaderSum(c, len)
<1>10. total \in Nat /\ changed = total + delta /\ Validates(total)
  BY <1>8, <1>9
<1> HIDE DEF total, changed
<1>11. changed \in Int /\ changed = total - 256 * before + 256 * word
  BY <1>2, <1>10 DEF delta
<1>12. ~ Validates(changed)
  BY <1>1, <1>10, <1>11, ChangedHighByte
<1> QED
  BY <1>9, <1>12 DEF changed

(* Every field of a header together.                                       *)
LEMMA DamagedField ==
  ASSUME NEW w, IsHeader(w), NEW c, NEW field, NEW before, NEW word \in U16,
         IsDamaged(w, c, field, before, word),
         Validates(Ipv4HeaderSum(c, HeaderLength(c)))
  PROVE  TwoZeros(before, word)
<1>1. CASE field = "ttl"
  BY <1>1, DamagedTtl
<1>2. CASE field # "ttl"
  BY <1>2, DamagedWord
<1> QED
  BY <1>1, <1>2

(* A message with a word before of one field replaced, as the wire does it.*)
Changed(w, field, before, word) == [w EXCEPT ![field] = w[field] - before + word]

LEMMA ChangedField ==
  ASSUME NEW w, w = [f \in DOMAIN w |-> w[f]], "len" \in DOMAIN w,
         NEW field \in DOMAIN w, field # "len", NEW before, NEW word
  PROVE  LET d == Changed(w, field, before, word)
         IN /\ d = Slice(d, w.len)
            /\ d[field] = w[field] - before + word
            /\ \A f \in DOMAIN w \ {field} : d[f] = w[f]
<1> DEFINE value == w[field] - before + word
           d == Changed(w, field, before, word)
<1>1. d = [f \in DOMAIN w |-> IF f = field THEN value ELSE w[f]]
  BY DEF Changed
<1> HIDE DEF value, d
<1>2. /\ DOMAIN d = DOMAIN w /\ d = [f \in DOMAIN d |-> d[f]] /\ d["len"] = w["len"]
      /\ d[field] = value
      /\ \A f \in DOMAIN w \ {field} : d[f] = w[f]
  BY <1>1
<1>3. [d EXCEPT !["len"] = w["len"]] = d
  BY <1>2
<1> QED
  BY <1>2, <1>3 DEF Slice, value, d

(* A damaged header that is accepted differs in the form of a 0.           *)
LEMMA HeaderDamage ==
  ASSUME NEW data, data.len \in Nat, NEW packet \in Ipv4Packet({data}),
         NEW room, Ipv4WriteRefuses(packet, room) = None,
         NEW field, NEW before, NEW word \in U16, before # word,
         LET w == WriteIpv4(packet)
         IN \/ field \in WordFields /\ before = w[field]
            \/ field \in ByteFields \cup {"ttl"} /\ before = w[field] /\ word \in U8
            \/ field \in IpFields /\ before = w[field] % 65536,
         NEW n, Ipv4Refuses(Slice(Changed(WriteIpv4(packet), field, before, word), n)) = None
  PROVE  TwoZeros(before, word)
<1> DEFINE w == WriteIpv4(packet)
           value == w[field] - before + word
           c == Changed(w, field, before, word)
<1>1. IsHeader(w)
  BY HeaderNumbers DEF IsHeader
<1>2. /\ field \notin {"options", "body", "len"}
      /\ field \in WordFields \cup ByteFields \cup {"ttl"} \cup IpFields
  BY DEF WordFields, ByteFields, IpFields
<1>3. c = [WriteIpv4(packet) EXCEPT ![field] = value]
  BY DEF Changed
<1>8. Ipv4Refuses(Slice(c, n)) = None
  OBVIOUS
<1> HIDE DEF value, c
<1>4. /\ \A f \in {"version_and_ihl", "dscp_and_ecn", "total_length", "identification",
                   "flags_and_fragment_offset", "ttl", "protocol", "checksum", "source",
                   "destination"} : c[f] = IF f = field THEN value ELSE w[f]
      /\ c.options = w.options
  BY ONLY <1>2, <1>3 DEF w, WriteIpv4, Ipv4Unsealed
<1> HIDE DEF w
<1>5. c[field] = value
  <2>1. field \in {"version_and_ihl", "dscp_and_ecn", "total_length", "identification",
                   "flags_and_fragment_offset", "ttl", "protocol", "checksum", "source",
                   "destination"}
    BY ONLY <1>2 DEF WordFields, ByteFields, IpFields
  <2> QED
    BY ONLY <1>4, <2>1
<1>6. IsDamaged(w, c, field, before, word)
  BY <1>4, <1>5 DEF IsDamaged, w, value
<1>7. Validates(Ipv4HeaderSum(c, HeaderLength(c)))
  BY <1>8, Ipv4Accepted
<1> QED
  BY <1>1, <1>6, <1>7, DamagedField
--------------------------------------------------------------------------------
(* c is w with the word before of one field replaced, in what an IPv4      *)
(* packet carries.                                                         *)
IsChanged(w, c, field, word, fields) ==
  /\ field \in fields
  /\ w[field] \in U16
  /\ w[field] # word
  /\ c[field] = w[field] - w[field] + word
  /\ \A f \in fields \ {field} : c[f] = w[f]

(* A UDP datagram.  One that comes to say it has no checksum is accepted.  *)
LEMMA UdpChanged ==
  ASSUME NEW source \in Nat, NEW destination \in Nat, NEW datagram \in UdpDatagram,
         NEW w, w = WriteUdp(source, destination, datagram),
         NEW field, NEW word \in U16, NEW c,
         IsChanged(w, c, field, word, {"source_port", "destination_port", "checksum"}),
         c.length = w.length, c.fill = w.fill,
         UdpInvalid(source, destination, c) = None,
         c.checksum # 0
  PROVE  TwoZeros(w[field], word)
<1> DEFINE before == w[field]
           rest == PseudoHeaderSum(source, destination, 17, w.length)
           run  == RunSum(w.fill, w.length - 8)
<1>1. /\ w.length \in Nat /\ w.length - 8 \in Nat /\ w.fill \in U8
      /\ w.source_port \in U16 /\ w.destination_port \in U16 /\ w.checksum \in U16
      /\ UdpSum(source, destination, w) \in Nat
      /\ Validates(UdpSum(source, destination, w))
  <2>1. /\ w.length = 8 + datagram.payload.len /\ datagram.payload.len \in Nat
        /\ w.fill = datagram.payload.fill /\ datagram.payload.fill \in U8
        /\ w.source_port = datagram.source_port /\ datagram.source_port \in U16
        /\ w.destination_port = datagram.destination_port
        /\ datagram.destination_port \in U16 /\ w.checksum \in U16
        /\ UdpSum(source, destination, w) \in Nat
        /\ Validates(UdpSum(source, destination, w))
    BY UdpWritten
  <2> QED
    BY <2>1
<1>2. /\ field \in {"source_port", "destination_port", "checksum"}
      /\ before \in U16 /\ before # word /\ c[field] = before - before + word
      /\ \A f \in {"source_port", "destination_port", "checksum"} \ {field} : c[f] = w[f]
      /\ c.length = w.length /\ c.fill = w.fill
  BY DEF IsChanged
<1>3. Validates(UdpSum(source, destination, c))
  BY DEF UdpInvalid, HasNoChecksum, None
<1>4. /\ w.source_port \in Nat /\ w.destination_port \in Nat /\ w.checksum \in Nat
      /\ before \in Nat /\ word \in Nat
  BY <1>1, <1>2, U16Value
<1>5. rest \in Nat /\ run \in Nat
  <2>1. IpSum(source) \in Nat /\ IpSum(destination) \in Nat
    BY IpSumNat
  <2> QED
    BY <1>1, <2>1, RunSumNat DEF PseudoHeaderSum
<1> HIDE DEF rest, run
<1>6. UdpSum(source, destination, w)
        = rest + w.source_port + w.destination_port + w.length + w.checksum + run
  BY DEF UdpSum, IPV4_UDP_PROTOCOL_NUMBER, UDP_HEADER_LEN, rest, run
<1>7. UdpSum(source, destination, c)
        = rest + c.source_port + c.destination_port + w.length + c.checksum + run
  BY <1>2 DEF UdpSum, IPV4_UDP_PROTOCOL_NUMBER, UDP_HEADER_LEN, rest, run
<1>8. c[field] = word
  BY <1>2, <1>4
<1>9. \/ /\ c.source_port = word /\ before = w.source_port
         /\ c.destination_port = w.destination_port /\ c.checksum = w.checksum
      \/ /\ c.destination_port = word /\ before = w.destination_port
         /\ c.source_port = w.source_port /\ c.checksum = w.checksum
      \/ /\ c.checksum = word /\ before = w.checksum
         /\ c.source_port = w.source_port /\ c.destination_port = w.destination_port
  BY <1>2, <1>8
<1> HIDE DEF before
<1>10. /\ UdpSum(source, destination, c) = UdpSum(source, destination, w) - before + word
       /\ UdpSum(source, destination, c) \in Int
  BY <1>1, <1>4, <1>5, <1>6, <1>7, <1>9
<1>11. TwoZeros(before, word)
  BY <1>1, <1>2, <1>3, <1>10, ChangedWord
<1> QED
  BY <1>11 DEF before

(* An ICMP message.                                                        *)
LEMMA IcmpChanged ==
  ASSUME NEW message \in IcmpMessage, NEW field, NEW word \in U16, NEW c,
         LET w == WriteIcmp(message)
         IN /\ IsChanged(w, c, field, word,
                         IF message.kind = "Unknown" THEN {"code", "checksum"}
                         ELSE {"code", "checksum", "identifier", "sequence_number"})
            /\ c.message_type = w.message_type /\ c.len = w.len /\ c.fill = w.fill,
         IcmpRefuses(c) = None
  PROVE  TwoZeros(WriteIcmp(message)[field], word)
<1> DEFINE w == WriteIcmp(message)
           before == w[field]
<1>1. /\ IcmpSum(w) \in Nat /\ Validates(IcmpSum(w))
      /\ w.len = IcmpRequired(message) /\ message.payload.fill \in U8
      /\ message.payload.len \in Nat
  <2>1. /\ IcmpSum(IcmpUnsealed(message)) \in Nat
        /\ IcmpSum(w) = IcmpSum(IcmpUnsealed(message))
                         + ChecksumOf(IcmpSum(IcmpUnsealed(message)))
        /\ w.len = IcmpRequired(message) /\ message.payload.fill \in U8
        /\ message.payload.len \in Nat
    BY IcmpWritten
  <2> HIDE DEF w
  <2> QED
    BY <2>1, ChecksumRange, FieldValidates
<1>2. /\ before \in U16 /\ before # word /\ c[field] = before - before + word
      /\ c.message_type = w.message_type /\ c.len = w.len /\ c.fill = w.fill
  BY DEF IsChanged
<1>3. Validates(IcmpSum(c))
  BY DEF IcmpRefuses, None
<1>4. before \in Nat /\ word \in Nat /\ c[field] = word
  <2> HIDE DEF before
  <2> QED
    BY <1>2, U16Value
<1>5. ChecksumOf(IcmpSum(IcmpUnsealed(message))) \in Nat
  BY IcmpWritten, ChecksumRange
<1>6. CASE message.kind = "Unknown"
  <2>1. /\ ~ IsEcho(w.message_type) /\ w.message_type \in Nat /\ w.code \in Nat
        /\ w.checksum \in Nat
        /\ w.fill = message.payload.fill /\ w.len - 4 = message.payload.len
    <3>1. /\ ~ IsEcho(message.message_type)
          /\ message.message_type \in Nat /\ message.code \in Nat
      BY <1>6, U8Bound DEF IcmpMessage, IsEcho
    <3>2. /\ w.message_type = message.message_type /\ w.code = message.code
          /\ w.checksum = ChecksumOf(IcmpSum(IcmpUnsealed(message)))
          /\ w.fill = message.payload.fill /\ w.len = 4 + message.payload.len
      BY <1>6 DEF WriteIcmp, IcmpUnsealed, IcmpRequired, ICMP_HEADER_LEN
    <3> HIDE DEF w
    <3> QED
      BY <1>1, <1>5, <3>1, <3>2
  <2>2. /\ field \in {"code", "checksum"}
        /\ \A f \in {"code", "checksum"} \ {field} : c[f] = w[f]
    BY <1>6 DEF IsChanged
  <2> DEFINE run == RunSum(message.payload.fill, message.payload.len)
  <2>3. run \in Nat
    BY <1>1, RunSumNat
  <2> HIDE DEF w, run
  <2>4. /\ IcmpSum(w) = w.message_type * 256 + w.code + w.checksum + run
        /\ IcmpSum(c) = w.message_type * 256 + c.code + c.checksum + run
    BY <1>2, <2>1 DEF IcmpSum, ICMP_HEADER_LEN, run
  <2>5. \/ c.code = word /\ before = w.code /\ c.checksum = w.checksum
        \/ c.checksum = word /\ before = w.checksum /\ c.code = w.code
    BY <1>4, <2>2
  <2> HIDE DEF before
  <2>6. IcmpSum(c) = IcmpSum(w) - before + word /\ IcmpSum(c) \in Int
    BY <1>4, <2>1, <2>3, <2>4, <2>5
  <2>7. TwoZeros(before, word)
    BY <1>1, <1>2, <1>3, <2>6, ChangedWord
  <2> QED
    BY <2>7 DEF before, w
<1>7. CASE message.kind # "Unknown"
  <2>1. /\ IsEcho(w.message_type) /\ w.message_type \in Nat /\ w.code \in Nat
        /\ w.checksum \in Nat /\ w.identifier \in Nat /\ w.sequence_number \in Nat
        /\ w.fill = message.payload.fill /\ w.len - 8 = message.payload.len
    <3>1. message.identifier \in Nat /\ message.sequence_number \in Nat
      BY <1>7, U16Value DEF IcmpMessage
    <3>2. /\ w.message_type \in {0, 8} /\ w.code = 0
          /\ w.identifier = message.identifier /\ w.sequence_number = message.sequence_number
          /\ w.checksum = ChecksumOf(IcmpSum(IcmpUnsealed(message)))
          /\ w.fill = message.payload.fill /\ w.len = 8 + message.payload.len
      BY <1>7 DEF WriteIcmp, IcmpUnsealed, IcmpRequired, ICMP_ECHO_HEADER_LEN,
                  ECHO_REQUEST_TYPE, ECHO_REPLY_TYPE
    <3> HIDE DEF w
    <3> QED
      BY <1>1, <1>5, <3>1, <3>2 DEF IsEcho, ECHO_REQUEST_TYPE, ECHO_REPLY_TYPE
  <2>2. /\ field \in {"code", "checksum", "identifier", "sequence_number"}
        /\ \A f \in {"code", "checksum", "identifier", "sequence_number"} \ {field} : c[f] = w[f]
    BY <1>7 DEF IsChanged
  <2> DEFINE run == RunSum(message.payload.fill, message.payload.len)
  <2>3. run \in Nat
    BY <1>1, RunSumNat
  <2> HIDE DEF w, run
  <2>4. /\ IcmpSum(w) = w.message_type * 256 + w.code + w.checksum
                         + (w.identifier + w.sequence_number + run)
        /\ IcmpSum(c) = w.message_type * 256 + c.code + c.checksum
                         + (c.identifier + c.sequence_number + run)
    BY <1>2, <2>1 DEF IcmpSum, ICMP_ECHO_HEADER_LEN, run
  <2>5. \/ /\ c.code = word /\ before = w.code /\ c.checksum = w.checksum
           /\ c.identifier = w.identifier /\ c.sequence_number = w.sequence_number
        \/ /\ c.checksum = word /\ before = w.checksum /\ c.code = w.code
           /\ c.identifier = w.identifier /\ c.sequence_number = w.sequence_number
        \/ /\ c.identifier = word /\ before = w.identifier /\ c.code = w.code
           /\ c.checksum = w.checksum /\ c.sequence_number = w.sequence_number
        \/ /\ c.sequence_number = word /\ before = w.sequence_number /\ c.code = w.code
           /\ c.checksum = w.checksum /\ c.identifier = w.identifier
    BY <1>4, <2>2
  <2> HIDE DEF before
  <2>6. IcmpSum(c) = IcmpSum(w) - before + word /\ IcmpSum(c) \in Int
    BY <1>4, <2>1, <2>3, <2>4, <2>5
  <2>7. TwoZeros(before, word)
    BY <1>1, <1>2, <1>3, <2>6, ChangedWord
  <2> QED
    BY <2>7 DEF before, w
<1> QED
  BY <1>6, <1>7

(* The rows of a TCP header.                                               *)
TcpRow1(s) == s.source_port + s.destination_port
TcpRow2(s) == IpSum(s.sequence_number) + IpSum(s.acknowledgement_number)
TcpRow3(s) == s.data_offset_and_reserved * 256 + s.flags + s.window_size
TcpRow4(s) == s.checksum + s.urgent_pointer

TcpWords   == {"source_port", "destination_port", "flags", "window_size", "checksum",
               "urgent_pointer"}
TcpNumbers == {"sequence_number", "acknowledgement_number"}

(* A segment as it was written, in numbers.                                *)
IsSegment(w) ==
  /\ w.source_port \in Nat /\ w.source_port \in U16
  /\ w.destination_port \in Nat /\ w.destination_port \in U16
  /\ w.flags \in Nat /\ w.flags \in U16
  /\ w.window_size \in Nat /\ w.window_size \in U16
  /\ w.checksum \in Nat /\ w.checksum \in U16
  /\ w.urgent_pointer \in Nat /\ w.urgent_pointer \in U16
  /\ w.sequence_number \in Nat /\ w.acknowledgement_number \in Nat
  /\ IpSum(w.sequence_number) \in Nat /\ IpSum(w.acknowledgement_number) \in Nat
  /\ w.data_offset_and_reserved \in Nat /\ w.len \in Nat
  /\ RunSum(w.options.fill, DataOffset(w) * 4 - 20) \in Nat
  /\ RunSum(w.fill, w.len - DataOffset(w) * 4) \in Nat

(* In c, the field contributes delta more to the sum than in w.            *)
OneWord(w, c, field, delta) ==
  /\ field \in TcpWords => c[field] = w[field] + delta
  /\ field \in TcpNumbers => IpSum(c[field]) = IpSum(w[field]) + delta
  /\ \A f \in (TcpWords \cup TcpNumbers) \ {field} : c[f] = w[f]
  /\ c.data_offset_and_reserved = w.data_offset_and_reserved
  /\ c.len = w.len /\ c.options = w.options /\ c.fill = w.fill

OneRow(w, c, delta) ==
  LET Kept1 == TcpRow1(c) = TcpRow1(w)
      Kept2 == TcpRow2(c) = TcpRow2(w)
      Kept3 == TcpRow3(c) = TcpRow3(w)
      Kept4 == TcpRow4(c) = TcpRow4(w)
  IN /\ TcpRow1(w) \in Nat /\ TcpRow2(w) \in Nat /\ TcpRow3(w) \in Nat /\ TcpRow4(w) \in Nat
     /\ \/ TcpRow1(c) = TcpRow1(w) + delta /\ Kept2 /\ Kept3 /\ Kept4
        \/ TcpRow2(c) = TcpRow2(w) + delta /\ Kept1 /\ Kept3 /\ Kept4
        \/ TcpRow3(c) = TcpRow3(w) + delta /\ Kept1 /\ Kept2 /\ Kept4
        \/ TcpRow4(c) = TcpRow4(w) + delta /\ Kept1 /\ Kept2 /\ Kept3

(* Each word of the header is in one row.                                  *)
LEMMA TcpRowOfField ==
  ASSUME NEW w, IsSegment(w), NEW c, NEW field \in TcpWords \cup TcpNumbers, NEW delta \in Int,
         OneWord(w, c, field, delta)
  PROVE  OneRow(w, c, delta)
<1>1. /\ w.source_port \in Nat /\ w.destination_port \in Nat /\ w.flags \in Nat
      /\ w.window_size \in Nat /\ w.checksum \in Nat /\ w.urgent_pointer \in Nat
      /\ w.data_offset_and_reserved \in Nat
      /\ IpSum(w.sequence_number) \in Nat /\ IpSum(w.acknowledgement_number) \in Nat
  BY DEF IsSegment
<1>2. /\ c.data_offset_and_reserved = w.data_offset_and_reserved
      /\ field \in TcpWords => c[field] = w[field] + delta
      /\ field \in TcpNumbers => IpSum(c[field]) = IpSum(w[field]) + delta
      /\ \A f \in (TcpWords \cup TcpNumbers) \ {field} : c[f] = w[f]
  BY DEF OneWord
<1>3. TcpRow1(w) \in Nat /\ TcpRow2(w) \in Nat /\ TcpRow3(w) \in Nat /\ TcpRow4(w) \in Nat
  BY <1>1 DEF TcpRow1, TcpRow2, TcpRow3, TcpRow4
<1>4. /\ field \notin {"source_port", "destination_port"} => TcpRow1(c) = TcpRow1(w)
      /\ field \notin TcpNumbers => TcpRow2(c) = TcpRow2(w)
      /\ field \notin {"flags", "window_size"} => TcpRow3(c) = TcpRow3(w)
      /\ field \notin {"checksum", "urgent_pointer"} => TcpRow4(c) = TcpRow4(w)
  BY <1>2 DEF TcpRow1, TcpRow2, TcpRow3, TcpRow4, TcpWords, TcpNumbers
<1>5. CASE field = "source_port" \/ field = "destination_port"
  <2>1. \/ c.source_port = w.source_port + delta /\ c.destination_port = w.destination_port
        \/ c.source_port = w.source_port /\ c.destination_port = w.destination_port + delta
    BY <1>2, <1>5 DEF TcpWords
  <2>2. TcpRow1(c) = TcpRow1(w) + delta
    BY <1>1, <1>2, <2>1 DEF TcpRow1
  <2> QED
    BY <1>3, <1>4, <1>5, <2>2 DEF TcpNumbers, OneRow
<1>6. CASE field \in TcpNumbers
  <2>1. \/ /\ IpSum(c.sequence_number) = IpSum(w.sequence_number) + delta
           /\ IpSum(c.acknowledgement_number) = IpSum(w.acknowledgement_number)
        \/ /\ IpSum(c.sequence_number) = IpSum(w.sequence_number)
           /\ IpSum(c.acknowledgement_number) = IpSum(w.acknowledgement_number) + delta
    BY <1>2, <1>6 DEF TcpNumbers
  <2>2. TcpRow2(c) = TcpRow2(w) + delta
    BY <1>1, <1>2, <2>1 DEF TcpRow2
  <2> QED
    BY <1>3, <1>4, <1>6, <2>2 DEF TcpNumbers, OneRow
<1>7. CASE field = "flags" \/ field = "window_size"
  <2>1. \/ c.flags = w.flags + delta /\ c.window_size = w.window_size
        \/ c.flags = w.flags /\ c.window_size = w.window_size + delta
    BY <1>2, <1>7 DEF TcpWords
  <2>2. TcpRow3(c) = TcpRow3(w) + delta
    BY <1>1, <1>2, <2>1 DEF TcpRow3
  <2> QED
    BY <1>3, <1>4, <1>7, <2>2 DEF TcpNumbers, OneRow
<1>8. CASE field = "checksum" \/ field = "urgent_pointer"
  <2>1. \/ c.checksum = w.checksum + delta /\ c.urgent_pointer = w.urgent_pointer
        \/ c.checksum = w.checksum /\ c.urgent_pointer = w.urgent_pointer + delta
    BY <1>2, <1>8 DEF TcpWords
  <2>2. TcpRow4(c) = TcpRow4(w) + delta
    BY <1>1, <1>2, <2>1 DEF TcpRow4
  <2> QED
    BY <1>3, <1>4, <1>8, <2>2 DEF TcpNumbers, OneRow
<1> QED
  BY <1>5, <1>6, <1>7, <1>8 DEF TcpWords, TcpNumbers

(* A change of one row changes the sum of the segment by as much.          *)
LEMMA TcpRowChanged ==
  ASSUME NEW w, IsSegment(w), NEW c, NEW field, NEW delta \in Int, OneWord(w, c, field, delta),
         OneRow(w, c, delta), NEW source \in Nat, NEW destination \in Nat
  PROVE  /\ TcpSum(source, destination, w) \in Nat
         /\ TcpSum(source, destination, c) = TcpSum(source, destination, w) + delta
<1> DEFINE front   == PseudoHeaderSum(source, destination, 6, w.len)
           options == RunSum(w.options.fill, DataOffset(w) * 4 - 20)
           run     == RunSum(w.fill, w.len - DataOffset(w) * 4)
           sum     == TcpSum(source, destination, w)
           changed == TcpSum(source, destination, c)
<1>1. front \in Nat
  <2>1. IpSum(source) \in Nat /\ IpSum(destination) \in Nat
    BY IpSumNat
  <2> QED
    BY <2>1 DEF PseudoHeaderSum, IsSegment
<1>2. options \in Nat /\ run \in Nat
  BY DEF IsSegment
<1>3. /\ DataOffset(c) = DataOffset(w)
      /\ c.len = w.len /\ c.options = w.options /\ c.fill = w.fill
  BY DEF DataOffset, OneWord
<1> DEFINE a == TcpRow1(w)
           b == TcpRow2(w)
           d == TcpRow3(w)
           e == TcpRow4(w)
<1>4. sum = front + a + b + d + e + options + run
  BY DEF TcpSum, TcpRow1, TcpRow2, TcpRow3, TcpRow4, IPV4_TCP_PROTOCOL_NUMBER,
         TCP_MIN_HEADER_LEN
<1>5. changed = front + TcpRow1(c) + TcpRow2(c) + TcpRow3(c) + TcpRow4(c) + options + run
  BY <1>3 DEF TcpSum, TcpRow1, TcpRow2, TcpRow3, TcpRow4, IPV4_TCP_PROTOCOL_NUMBER,
              TCP_MIN_HEADER_LEN
<1> HIDE DEF front, options, run, changed, sum
<1>6. \/ changed = front + (a + delta) + b + d + e + options + run
      \/ changed = front + a + (b + delta) + d + e + options + run
      \/ changed = front + a + b + (d + delta) + e + options + run
      \/ changed = front + a + b + d + (e + delta) + options + run
  BY <1>5 DEF OneRow
<1>7. a \in Nat /\ b \in Nat /\ d \in Nat /\ e \in Nat
  BY DEF OneRow
<1> HIDE DEF a, b, d, e
<1>8. sum \in Nat /\ changed = sum + delta
  BY <1>1, <1>2, <1>4, <1>6, <1>7
<1> QED
  BY <1>8 DEF sum, changed

LEMMA TcpNumbersWritten ==
  ASSUME NEW source \in Nat, NEW destination \in Nat, NEW segment \in TcpSegmentToSend,
         NEW room, TcpWriteRefuses(segment, room) = None
  PROVE  IsSegment(WriteTcp(source, destination, segment))
<1> DEFINE w == WriteTcp(source, destination, segment)
           ol == segment.options.len
           pl == segment.payload.len
<1>1. /\ w.source_port = segment.source_port /\ w.destination_port = segment.destination_port
      /\ w.sequence_number = segment.sequence_number
      /\ w.acknowledgement_number = segment.acknowledgement_number
      /\ w.flags = segment.flags /\ w.window_size = segment.window_size
      /\ w.urgent_pointer = segment.urgent_pointer
      /\ w.options = segment.options /\ w.fill = segment.payload.fill
  BY DEF WriteTcp, TcpUnsealed
<1>2. /\ ol \in Nat /\ pl \in Nat /\ w.len = 20 + ol + pl
      /\ DataOffset(w) * 4 = 20 + ol
      /\ w.data_offset_and_reserved \in Nat
      /\ w.len \in Nat /\ w.checksum \in U16
  <2>1. ol \in Nat /\ pl \in Nat /\ w.len = 20 + ol + pl
    BY DEF TcpSegmentToSend, ByteSlice, WriteTcp, TcpUnsealed, TcpRequired, TcpHeaderRequired,
           TCP_MIN_HEADER_LEN
  <2>2. DataOffset(w) * 4 = 20 + ol
    BY TcpWritten
  <2>3. w.data_offset_and_reserved \in Nat
    BY TcpWritten
  <2>4. w.len \in Nat
    BY TcpWritten
  <2>5. w.checksum \in U16
    BY TcpWritten
  <2> QED
    BY <2>1, <2>2, <2>3, <2>4, <2>5
<1>3. segment.options.fill \in U8 /\ segment.payload.fill \in U8
  BY TcpWritten
<1>4. /\ segment.source_port \in U16 /\ segment.destination_port \in U16
      /\ segment.flags \in U8 /\ segment.window_size \in U16 /\ segment.urgent_pointer \in U16
      /\ segment.sequence_number \in Nat /\ segment.acknowledgement_number \in Nat
  BY DEF TcpSegmentToSend
<1> HIDE DEF w
<1>5. DataOffset(w) * 4 - 20 = ol /\ w.len - DataOffset(w) * 4 = pl
  BY <1>2
<1>6. /\ RunSum(w.options.fill, DataOffset(w) * 4 - 20) \in Nat
      /\ RunSum(w.fill, w.len - DataOffset(w) * 4) \in Nat
  BY <1>1, <1>2, <1>3, <1>5, RunSumNat
<1>7. /\ segment.source_port \in Nat /\ segment.destination_port \in Nat
      /\ segment.flags \in Nat /\ segment.flags \in U16
      /\ segment.window_size \in Nat /\ segment.urgent_pointer \in Nat /\ w.checksum \in Nat
  BY <1>1, <1>2, <1>3, <1>4, U16Value, U8IsU16
<1>8. IpSum(w.sequence_number) \in Nat /\ IpSum(w.acknowledgement_number) \in Nat
  BY <1>1, <1>2, <1>3, <1>4, IpSumNat
<1> QED
  BY <1>1, <1>2, <1>3, <1>4, <1>6, <1>7, <1>8 DEF IsSegment, w

(* c is w with the word before of one field replaced: of the two long      *)
(* numbers, the low word.                                                  *)
SegmentDamaged(w, c, field, before, word) ==
  /\ before # word
  /\ field \in TcpWords \cup TcpNumbers
  /\ field \in TcpWords => before = w[field]
  /\ field \in TcpNumbers => before = w[field] % 65536
  /\ c[field] = w[field] - before + word
  /\ \A f \in (TcpWords \cup TcpNumbers) \ {field} : c[f] = w[f]
  /\ c.data_offset_and_reserved = w.data_offset_and_reserved
  /\ c.len = w.len /\ c.options = w.options /\ c.fill = w.fill

LEMMA TcpChanged ==
  ASSUME NEW source \in Nat, NEW destination \in Nat, NEW w, IsSegment(w),
         Validates(TcpSum(source, destination, w)),
         NEW c, NEW field, NEW before, NEW word \in U16, SegmentDamaged(w, c, field, before, word),
         TcpInvalid(source, destination, c) = None
  PROVE  TwoZeros(before, word)
<1> DEFINE delta == word - before
           total == TcpSum(source, destination, w)
           changed == TcpSum(source, destination, c)
<1>0. /\ before # word /\ field \in TcpWords \cup TcpNumbers
      /\ field \in TcpWords => before = w[field]
      /\ field \in TcpNumbers => before = w[field] % 65536
      /\ c[field] = w[field] - before + word
  BY DEF SegmentDamaged
<1>1. Validates(changed)
  BY DEF TcpInvalid, None
<1>2. before \in U16
  <2>1. CASE field \in TcpWords
    BY <1>0, <2>1 DEF IsSegment, TcpWords
  <2>2. CASE field \in TcpNumbers
    <3>1. before = w[field] % 65536 /\ w[field] \in Nat
      BY <1>0, <2>2 DEF IsSegment, TcpNumbers
    <3>2. before \in Nat /\ before <= 65535
      BY <3>1
    <3> QED
      BY <3>2, U16Bound
  <2> QED
    BY <1>0, <2>1, <2>2
<1>3. before \in Nat /\ word \in Nat /\ delta \in Int
  BY <1>2, U16Value
<1>4. field \in TcpWords => c[field] = w[field] + delta
  BY <1>0, <1>3 DEF IsSegment, TcpWords
<1>5. field \in TcpNumbers => IpSum(c[field]) = IpSum(w[field]) + delta
  <2> SUFFICES ASSUME field \in TcpNumbers PROVE IpSum(c[field]) = IpSum(w[field]) + delta
    OBVIOUS
  <2>1. before = w[field] % 65536 /\ w[field] \in Nat /\ IpSum(w[field]) \in Nat
    BY <1>0 DEF IsSegment, TcpNumbers
  <2>2. IpSum(c[field]) = IpSum(w[field]) - before + word
    BY <1>0, <2>1, IpSumChanged
  <2> QED
    BY <1>3, <2>1, <2>2
<1> HIDE DEF delta
<1>6. OneWord(w, c, field, delta)
  BY <1>4, <1>5 DEF OneWord, SegmentDamaged
<1>7. total \in Nat /\ changed = total + delta
  <2>1. OneRow(w, c, delta)
    BY <1>0, <1>3, <1>6, TcpRowOfField
  <2> QED
    BY <1>3, <1>6, <2>1, TcpRowChanged
<1>8. Validates(total)
  OBVIOUS
<1> HIDE DEF total, changed
<1>9. changed \in Int /\ changed = total - before + word
  BY <1>3, <1>7 DEF delta
<1> QED
  BY <1>0, <1>1, <1>2, <1>7, <1>8, <1>9, ChangedWord
--------------------------------------------------------------------------------
(* A frame that carries a message, but not as it was sent.                 *)

(* Another packet in the frame, and another body in the packet.            *)
Carrying(message, packet) == [WriteMessage(message) EXCEPT !.body = packet]
WithBody(message, data)   == [WriteIpv4(Ipv4ToWrite(message)) EXCEPT !.body = data]

LEMMA OtherPacket ==
  ASSUME NEW message, IsMessage(message), Serialises(message), IsIpv4(message), NEW packet
  PROVE  LET bytes == Carrying(message, packet)
         IN /\ bytes.ether_type = 2048 /\ bytes.body = packet
            /\ bytes.len \in Nat /\ bytes.len >= 14
<1> DEFINE w == WriteMessage(message)
           bytes == Carrying(message, packet)
<1>1. /\ w.ether_type = 2048 /\ w.len = 14 + w.body.len /\ w.body.len \in Nat /\ w.len \in Nat
  BY FrameWritten
<1>2. bytes.ether_type = w.ether_type /\ bytes.body = packet /\ bytes.len = w.len
  BY DEF Carrying, WriteMessage, WriteEthernet
<1> HIDE DEF w, bytes
<1> QED
  BY <1>1, <1>2 DEF bytes

(* A frame that is read has a header that is accepted.                     *)
LEMMA ReadIsAccepted ==
  ASSUME NEW bytes, bytes.ether_type = 2048, bytes.len \in Nat, bytes.len >= 14,
         ReadFrame(bytes).error = None
  PROVE  LET packet == Slice(bytes.body, bytes.len - 14)
         IN Ipv4Refuses(packet) = None /\ ReadFrame(bytes) = ReadBody(ParseIpv4(packet))
<1> DEFINE packet == Slice(bytes.body, bytes.len - 14)
<1>1. ReadFrame(bytes) = IF Ipv4Refuses(packet) # None
                         THEN Error("Ipv4", Ipv4Refuses(packet))
                         ELSE ReadBody(ParseIpv4(packet))
  BY ReadIpv4
<1> HIDE DEF packet
<1>2. Ipv4Refuses(packet) # None => ReadFrame(bytes).error = Ipv4Refuses(packet)
  BY <1>1 DEF Error
<1> QED
  BY <1>1, <1>2 DEF packet

(* Another body of the same length: it is what the receiver reads.         *)
LEMMA OtherBody ==
  ASSUME NEW message, IsMessage(message), Serialises(message), IsIpv4(message),
         NEW d, d = Slice(d, WriteBody(message).len),
         ReadFrame(Carrying(message, WithBody(message, d))).error = None
  PROVE  LET ip == message.ip
         IN /\ ip.protocol.kind = "Icmp" => IcmpRefuses(d) = None
            /\ ip.protocol.kind = "Udp" => UdpInvalid(ip.source, ip.destination, d) = None
            /\ ip.protocol.kind = "Tcp" => TcpInvalid(ip.source, ip.destination, d) = None
<1> DEFINE toWrite == Ipv4ToWrite(message)
           data    == WriteBody(message)
           ip      == message.ip
           p       == WriteIpv4(toWrite)
           c       == WithBody(message, d)
           bytes   == Carrying(message, c)
           packet  == Slice(c, bytes.len - 14)
           result  == ParseIpv4(packet)
<1>1. /\ bytes.ether_type = 2048 /\ bytes.body = c
      /\ bytes.len \in Nat /\ bytes.len >= 14
  BY OtherPacket
<1>2. ReadFrame(bytes).error = None
  OBVIOUS
<1> HIDE DEF bytes
<1>3. packet = Slice(bytes.body, bytes.len - 14)
  BY <1>1
<1>4. ReadFrame(bytes) = ReadBody(result)
  BY <1>1, <1>3, ReadIsAccepted DEF bytes
<1>5. /\ data.len \in Nat /\ toWrite \in Ipv4Packet({data})
      /\ toWrite.protocol = ip.protocol /\ toWrite.source = ip.source
      /\ toWrite.destination = ip.destination
      /\ toWrite.protocol.kind \in {"Icmp", "Udp", "Tcp"}
      /\ Ipv4WriteRefuses(toWrite, Ipv4Required(toWrite)) = None
  BY BodyWritten, PacketToWrite
<1>6. /\ packet.version_and_ihl = p.version_and_ihl /\ packet.total_length = p.total_length
      /\ packet.protocol = AsU8(toWrite.protocol) /\ packet.source = toWrite.source
      /\ packet.destination = toWrite.destination /\ packet.body = d
  BY DEF WithBody, Slice, WriteIpv4, Ipv4Unsealed
<1> HIDE DEF packet
<1>7. packet.total_length - HeaderLength(packet) = data.len
  <2> HIDE DEF data, toWrite
  <2>1. /\ HeaderLength(p) = 20 + toWrite.options.len /\ toWrite.options.len \in Nat
        /\ p.total_length = 20 + toWrite.options.len + data.len
    BY <1>5, Ipv4Written
  <2>2. HeaderLength(packet) = HeaderLength(p)
    BY <1>6 DEF HeaderLength
  <2> HIDE DEF p
  <2> QED
    BY <1>5, <1>6, <2>1, <2>2
<1>8. Protocol(packet.protocol) = ip.protocol
  <2>1. toWrite.protocol \in [kind : {"Icmp", "Tcp", "Udp"}]
    <3>1. toWrite.protocol \in [kind : {"Icmp", "Tcp", "Udp"}]
                                  \cup [kind : {"Unknown"}, value : U8]
      BY <1>5 DEF Ipv4Packet
    <3> QED
      BY <1>5, <3>1
  <2> QED
    BY <1>5, <1>6, <2>1, ProtocolIsRead
<1>9. /\ result.payload = d /\ result.protocol = ip.protocol
      /\ result.source = ip.source /\ result.destination = ip.destination
  <2>1. Payload(packet) = d
    BY <1>6, <1>7 DEF Payload
  <2> HIDE DEF toWrite
  <2> QED
    BY <1>5, <1>6, <1>8, <2>1 DEF ParseIpv4
<1> HIDE DEF result
<1>10. CASE ip.protocol.kind = "Icmp"
  BY <1>4, <1>9, <1>2, <1>10 DEF ReadBody, Error
<1>11. CASE ip.protocol.kind = "Udp"
  BY <1>4, <1>9, <1>2, <1>11 DEF ReadBody, Error
<1>12. CASE ip.protocol.kind = "Tcp"
  BY <1>4, <1>9, <1>2, <1>12 DEF ReadBody, Error
<1> QED
  BY <1>10, <1>11, <1>12
--------------------------------------------------------------------------------
(* What the wire damages in the body of a packet: DamageBody.              *)
BodyWord(message, field, before, word) ==
  LET body == WriteBody(message)
      kind == message.ip.protocol.kind
  IN /\ before # word
     /\ \/ /\ field \in DOMAIN body \cap
                        {"source_port", "destination_port", "identifier",
                         "sequence_number", "checksum", "window_size", "urgent_pointer"}
           /\ ~ (kind = "Tcp" /\ field = "sequence_number")
           /\ before = body[field]
        \/ field \in DOMAIN body \cap {"code", "flags"} /\ word \in U8 /\ before = body[field]
        \/ kind = "Tcp" /\ field \in TcpNumbers /\ before = body[field] % 65536

LEMMA UdpDamage ==
  ASSUME NEW message, IsMessage(message), Serialises(message), IsIpv4(message),
         message.ip.protocol.kind = "Udp",
         NEW field, NEW before, NEW word \in U16, BodyWord(message, field, before, word)
  PROVE  LET d == Changed(WriteBody(message), field, before, word)
             ip == message.ip
         IN /\ d = Slice(d, WriteBody(message).len)
            /\ UdpInvalid(ip.source, ip.destination, d) = None =>
                 TwoZeros(before, word) \/ d.checksum = 0
<1> DEFINE ip == message.ip
           w == WriteUdp(ip.source, ip.destination, message.body)
           d == Changed(w, field, before, word)
           fields == {"source_port", "destination_port", "checksum"}
<1>1. /\ message.body \in UdpDatagram /\ WriteBody(message) = w
      /\ ip.source \in Nat /\ ip.destination \in Nat
  BY BodyKinds
<1>2. /\ DOMAIN w = {"source_port", "destination_port", "length", "checksum", "fill", "len"}
      /\ w = [f \in DOMAIN w |-> w[f]]
  BY DEF WriteUdp, UdpUnsealed
<1>3. field \in fields /\ before # word /\ before = w[field]
  <2> HIDE DEF w
  <2> QED
    BY <1>1, <1>2 DEF BodyWord
<1>4. /\ d = Slice(d, w.len) /\ d.length = w.length /\ d.fill = w.fill
      /\ d[field] = w[field] - before + word
      /\ \A f \in fields \ {field} : d[f] = w[f]
  <2> HIDE DEF w
  <2>1. field \in DOMAIN w /\ field # "len" /\ "len" \in DOMAIN w
    BY <1>2, <1>3
  <2>2. /\ d = Slice(d, w.len) /\ d[field] = w[field] - before + word
        /\ \A f \in DOMAIN w \ {field} : d[f] = w[f]
    BY <1>2, <2>1, ChangedField
  <2> HIDE DEF d
  <2> QED
    BY <1>2, <1>3, <2>2
<1>5. w[field] \in U16
  <2>1. w.source_port \in U16 /\ w.destination_port \in U16 /\ w.checksum \in U16
    <3>1. /\ w.source_port = message.body.source_port /\ message.body.source_port \in U16
          /\ w.destination_port = message.body.destination_port
          /\ message.body.destination_port \in U16 /\ w.checksum \in U16
      BY <1>1, UdpWritten
    <3> HIDE DEF w
    <3> QED
      BY <3>1
  <2> HIDE DEF w
  <2> QED
    BY <1>3, <2>1
<1>6. IsChanged(w, d, field, word, fields) /\ d.length = w.length /\ d.fill = w.fill
  <2> HIDE DEF w, d
  <2> QED
    BY <1>3, <1>4, <1>5 DEF IsChanged
<1>8. w = WriteUdp(ip.source, ip.destination, message.body)
  OBVIOUS
<1> HIDE DEF d, w
<1>7. ASSUME UdpInvalid(ip.source, ip.destination, d) = None, d.checksum # 0
      PROVE  TwoZeros(w[field], word)
  BY <1>1, <1>6, <1>7, <1>8, UdpChanged
<1> QED
  BY <1>1, <1>3, <1>4, <1>7 DEF d, w

LEMMA IcmpDamage ==
  ASSUME NEW message, IsMessage(message), Serialises(message), IsIpv4(message),
         message.ip.protocol.kind = "Icmp",
         NEW field, NEW before, NEW word \in U16, BodyWord(message, field, before, word)
  PROVE  LET d == Changed(WriteBody(message), field, before, word)
         IN /\ d = Slice(d, WriteBody(message).len)
            /\ IcmpRefuses(d) = None => TwoZeros(before, word)
<1> DEFINE w == WriteIcmp(message.body)
           d == Changed(w, field, before, word)
           unknown == message.body.kind = "Unknown"
           fields == IF unknown THEN {"code", "checksum"}
                     ELSE {"code", "checksum", "identifier", "sequence_number"}
<1>1. message.body \in IcmpMessage /\ WriteBody(message) = w
  BY BodyKinds
<1>2. DOMAIN w = fields \cup {"message_type", "fill", "len"} /\ w = [f \in DOMAIN w |-> w[f]]
  BY DEF WriteIcmp, IcmpUnsealed
<1>3. field \in fields /\ before # word /\ before = w[field]
  <2> HIDE DEF w
  <2> QED
    BY <1>1, <1>2 DEF BodyWord
<1>4. /\ d = Slice(d, w.len) /\ d.message_type = w.message_type /\ d.len = w.len
      /\ d.fill = w.fill
      /\ d[field] = w[field] - before + word
      /\ \A f \in fields \ {field} : d[f] = w[f]
  <2> HIDE DEF w
  <2>1. field \in DOMAIN w /\ field # "len" /\ "len" \in DOMAIN w
    BY <1>2, <1>3
  <2>2. /\ d = Slice(d, w.len) /\ d[field] = w[field] - before + word
        /\ \A f \in DOMAIN w \ {field} : d[f] = w[f]
    BY <1>2, <2>1, ChangedField
  <2> HIDE DEF d, unknown
  <2> QED
    BY <1>2, <1>3, <2>2
<1>5. w[field] \in U16
  <2>1. /\ w.code \in U16 /\ w.checksum \in U16
        /\ ~ unknown => w.identifier \in U16 /\ w.sequence_number \in U16
    <3>1. ChecksumOf(IcmpSum(IcmpUnsealed(message.body))) \in U16
      BY <1>1, IcmpWritten, ChecksumRange
    <3>2. 0 \in U8
      BY DEF U8
    <3>3. /\ w.checksum = ChecksumOf(IcmpSum(IcmpUnsealed(message.body)))
          /\ w.code = IF unknown THEN message.body.code ELSE 0
          /\ ~ unknown => /\ w.identifier = message.body.identifier
                          /\ w.sequence_number = message.body.sequence_number
      BY DEF WriteIcmp, IcmpUnsealed
    <3>4. /\ unknown => message.body.code \in U8
          /\ ~ unknown => /\ message.body.identifier \in U16
                          /\ message.body.sequence_number \in U16
      BY <1>1 DEF IcmpMessage
    <3> HIDE DEF w
    <3> QED
      BY <3>1, <3>2, <3>3, <3>4, U8IsU16
  <2> HIDE DEF w
  <2>2. CASE unknown
    <3>1. field = "code" \/ field = "checksum"
      BY <1>3, <2>2
    <3> QED
      BY <2>1, <3>1
  <2>3. CASE ~ unknown
    <3>1. \/ field = "code" \/ field = "checksum"
          \/ field = "identifier" \/ field = "sequence_number"
      BY <1>3, <2>3
    <3> QED
      BY <2>1, <2>3, <3>1
  <2> QED
    BY <2>2, <2>3
<1>6. /\ IsChanged(w, d, field, word, fields)
      /\ d.message_type = w.message_type /\ d.len = w.len /\ d.fill = w.fill
  <2> HIDE DEF w, d
  <2> QED
    BY <1>3, <1>4, <1>5 DEF IsChanged
<1> HIDE DEF d
<1>7. IcmpRefuses(d) = None => TwoZeros(w[field], word)
  BY <1>1, <1>6, IcmpChanged
<1> QED
  BY <1>1, <1>3, <1>4, <1>7 DEF d

LEMMA TcpDamage ==
  ASSUME NEW message, IsMessage(message), Serialises(message), IsIpv4(message),
         message.ip.protocol.kind = "Tcp",
         NEW field, NEW before, NEW word \in U16, BodyWord(message, field, before, word)
  PROVE  LET d == Changed(WriteBody(message), field, before, word)
             ip == message.ip
         IN /\ d = Slice(d, WriteBody(message).len)
            /\ TcpInvalid(ip.source, ip.destination, d) = None => TwoZeros(before, word)
<1> DEFINE ip == message.ip
           w == WriteTcp(ip.source, ip.destination, message.body)
           d == Changed(w, field, before, word)
<1>1. /\ message.body \in TcpSegmentToSend /\ WriteBody(message) = w
      /\ TcpWriteRefuses(message.body, TcpRequired(message.body)) = None
      /\ ip.source \in Nat /\ ip.destination \in Nat
  BY BodyKinds
<1>2. /\ DOMAIN w = TcpWords \cup TcpNumbers
                      \cup {"data_offset_and_reserved", "options", "fill", "len"}
      /\ w = [f \in DOMAIN w |-> w[f]]
  BY DEF WriteTcp, TcpUnsealed, TcpWords, TcpNumbers
<1>3. /\ field \in TcpWords \cup TcpNumbers /\ before # word
      /\ field \in TcpWords => before = w[field]
      /\ field \in TcpNumbers => before = w[field] % 65536
  <2> HIDE DEF w
  <2> QED
    BY <1>1, <1>2 DEF BodyWord, TcpWords, TcpNumbers
<1>4. d = Slice(d, w.len) /\ SegmentDamaged(w, d, field, before, word)
  <2> HIDE DEF w
  <2>1. field \in DOMAIN w /\ field # "len" /\ "len" \in DOMAIN w
    BY <1>2, <1>3 DEF TcpWords, TcpNumbers
  <2>2. /\ d = Slice(d, w.len) /\ d[field] = w[field] - before + word
        /\ \A f \in DOMAIN w \ {field} : d[f] = w[f]
    BY <1>2, <2>1, ChangedField
  <2> HIDE DEF d
  <2>3. /\ d.len = w.len /\ d.options = w.options /\ d.fill = w.fill
        /\ d.data_offset_and_reserved = w.data_offset_and_reserved
        /\ \A f \in (TcpWords \cup TcpNumbers) \ {field} : d[f] = w[f]
    BY <1>2, <1>3, <2>2 DEF TcpWords, TcpNumbers
  <2> QED
    BY <1>3, <2>2, <2>3 DEF SegmentDamaged
<1>5. IsSegment(w)
  BY <1>1, TcpNumbersWritten
<1>6. Validates(TcpSum(ip.source, ip.destination, w))
  BY <1>1, TcpWritten
<1> HIDE DEF w, d
<1>7. ASSUME TcpInvalid(ip.source, ip.destination, d) = None
      PROVE  TwoZeros(before, word)
  BY <1>1, <1>4, <1>5, <1>6, <1>7, TcpChanged
<1> QED
  BY <1>1, <1>4, <1>7 DEF w, d

(* A damaged body that is accepted, of any of the three kinds.             *)
LEMMA BodyDamage ==
  ASSUME NEW message, IsMessage(message), Serialises(message), IsIpv4(message),
         NEW field, NEW before, NEW word \in U16, BodyWord(message, field, before, word),
         LET d == Changed(WriteBody(message), field, before, word)
         IN ReadFrame(Carrying(message, WithBody(message, d))).error = None
  PROVE  \/ TwoZeros(before, word)
         \/ /\ message.ip.protocol.kind = "Udp"
            /\ Changed(WriteBody(message), field, before, word).checksum = 0
<1> DEFINE d == Changed(WriteBody(message), field, before, word)
           ip == message.ip
<1>1. ReadFrame(Carrying(message, WithBody(message, d))).error = None
  OBVIOUS
<1>2. ip.protocol.kind \in {"Icmp", "Udp", "Tcp"}
  BY BodyKinds
<1>3. CASE ip.protocol.kind = "Icmp"
  <2>1. /\ d = Slice(d, WriteBody(message).len)
        /\ IcmpRefuses(d) = None => TwoZeros(before, word)
    BY <1>3, IcmpDamage
  <2> HIDE DEF d
  <2>2. IcmpRefuses(d) = None
    BY <1>1, <1>3, <2>1, OtherBody
  <2> QED
    BY <2>1, <2>2
<1>4. CASE ip.protocol.kind = "Udp"
  <2>1. /\ d = Slice(d, WriteBody(message).len)
        /\ UdpInvalid(ip.source, ip.destination, d) = None =>
             TwoZeros(before, word) \/ d.checksum = 0
    BY <1>4, UdpDamage
  <2> HIDE DEF d
  <2>2. UdpInvalid(ip.source, ip.destination, d) = None
    BY <1>1, <1>4, <2>1, OtherBody
  <2> QED
    BY <1>4, <2>1, <2>2 DEF d
<1>5. CASE ip.protocol.kind = "Tcp"
  <2>1. /\ d = Slice(d, WriteBody(message).len)
        /\ TcpInvalid(ip.source, ip.destination, d) = None => TwoZeros(before, word)
    BY <1>5, TcpDamage
  <2> HIDE DEF d
  <2>2. TcpInvalid(ip.source, ip.destination, d) = None
    BY <1>1, <1>5, <2>1, OtherBody
  <2> QED
    BY <2>1, <2>2
<1> QED
  BY <1>2, <1>3, <1>4, <1>5
--------------------------------------------------------------------------------
(* The actions.                                                            *)

(* What the wire damages in the header of a packet: DamageHeader.          *)
HeaderWord(packet, field, before, word) ==
  /\ before # word
  /\ \/ field \in WordFields /\ before = packet[field]
     \/ field \in ByteFields \cup {"ttl"} /\ before = packet[field] /\ word \in U8
     \/ field \in IpFields /\ before = packet[field] % 65536

LEMMA SentMessage ==
  ASSUME LinkInv, stage # "Ready"
  PROVE  IsMessage(sent) /\ Serialises(sent)
BY LinkAssumption DEF LinkInv

LEMMA WordRange == \A word \in Words : word \in U16
BY LinkAssumption

(* A frame that arrives damaged.                                           *)
LEMMA DamagedArrives ==
  ASSUME LinkInv, stage = "OnWire", stage' = "Arrived", sent' = sent, received' = received,
         NEW before, NEW word, fault' = Damaged(before, word),
         ReadFrame(frame').error = None =>
           \/ TwoZeros(before, word)
           \/ sent.ip.protocol.kind = "Udp" /\ frame'.body.body.checksum = 0
  PROVE  LinkInv'
<1>1. /\ fault'.kind = "Damaged" /\ fault'.before = before /\ fault'.after = word
  BY DEF Damaged
<1>2. Judged(ReadFrame(frame))'
  BY <1>1 DEF Judged, TwoZeros
<1> QED
  BY <1>2 DEF LinkInv

LEMMA HeaderStep ==
  ASSUME LinkInv, NEW word \in Words, DamageHeader(word)
  PROVE  LinkInv'
<1>1. stage = "OnWire" /\ stage' = "Arrived" /\ sent' = sent /\ received' = received
  BY DEF DamageHeader, ChangeHeader, Arrive
<1>2. IsIpv4(sent) /\ frame = WriteMessage(sent) /\ IsMessage(sent) /\ Serialises(sent)
  BY <1>1, SentMessage DEF DamageHeader, LinkInv, IsIpv4
<1> DEFINE toWrite == Ipv4ToWrite(sent)
           data    == WriteBody(sent)
           p       == WriteIpv4(toWrite)
<1>3. PICK field, before :
        /\ HeaderWord(frame.body, field, before, word)
        /\ frame' = [frame EXCEPT !.body = Changed(frame.body, field, before, word)]
        /\ fault' = Damaged(before, word)
  <2>1. ASSUME NEW field, NEW before, ChangeHeader(field, before, word),
               HeaderWord(frame.body, field, before, word)
        PROVE  /\ frame' = [frame EXCEPT !.body = Changed(frame.body, field, before, word)]
               /\ fault' = Damaged(before, word)
    BY <2>1 DEF ChangeHeader, Changed, Arrive
  <2>2. \A field, before : ChangeHeader(field, before, word) => before # word
    BY DEF ChangeHeader
  <2>3. CASE \E field \in {"total_length", "identification",
                          "flags_and_fragment_offset", "checksum"} :
               ChangeHeader(field, frame.body[field], word)
    <3>1. PICK field \in WordFields : ChangeHeader(field, frame.body[field], word)
      BY <2>3 DEF WordFields
    <3>2. HeaderWord(frame.body, field, frame.body[field], word)
      BY <2>2, <3>1 DEF HeaderWord
    <3> QED
      BY <2>1, <3>1, <3>2
  <2>4. CASE \E field \in {"dscp_and_ecn", "ttl", "protocol"} :
               word \in U8 /\ ChangeHeader(field, frame.body[field], word)
    <3>1. PICK field \in ByteFields \cup {"ttl"} :
            word \in U8 /\ ChangeHeader(field, frame.body[field], word)
      BY <2>4 DEF ByteFields
    <3>2. HeaderWord(frame.body, field, frame.body[field], word)
      BY <2>2, <3>1 DEF HeaderWord
    <3> QED
      BY <2>1, <3>1, <3>2
  <2>5. CASE \E field \in {"source", "destination"} :
               ChangeHeader(field, frame.body[field] % 65536, word)
    <3>1. PICK field \in IpFields : ChangeHeader(field, frame.body[field] % 65536, word)
      BY <2>5 DEF IpFields
    <3>2. HeaderWord(frame.body, field, frame.body[field] % 65536, word)
      BY <2>2, <3>1 DEF HeaderWord
    <3> QED
      BY <2>1, <3>1, <3>2
  <2> QED
    BY <2>3, <2>4, <2>5 DEF DamageHeader
<1>4. frame.body = p
  BY <1>2, FrameWritten
<1> DEFINE c == Changed(p, field, before, word)
<1>5. HeaderWord(p, field, before, word) /\ frame' = Carrying(sent, c)
  BY <1>2, <1>3, <1>4 DEF Carrying
<1>6. word \in U16
  BY WordRange
<1>7. /\ data.len \in Nat /\ toWrite \in Ipv4Packet({data})
      /\ Ipv4WriteRefuses(toWrite, Ipv4Required(toWrite)) = None
  BY <1>2, BodyWritten, PacketToWrite
<1> HIDE DEF data, toWrite
<1>8. ASSUME ReadFrame(frame').error = None PROVE TwoZeros(before, word)
  <2> HIDE DEF c
  <2>1. /\ frame'.ether_type = 2048 /\ frame'.body = c
        /\ frame'.len \in Nat /\ frame'.len >= 14
    BY <1>2, <1>5, OtherPacket
  <2>2. Ipv4Refuses(Slice(c, frame'.len - 14)) = None
    BY <1>8, <2>1, ReadIsAccepted
  <2>3. before # word
    BY <1>5 DEF HeaderWord
  <2> QED
    BY <1>5, <1>6, <1>7, <2>2, <2>3, HeaderDamage DEF HeaderWord, c
<1> QED
  BY <1>1, <1>3, <1>8, DamagedArrives

LEMMA BodyStep ==
  ASSUME LinkInv, NEW word \in Words, DamageBody(word)
  PROVE  LinkInv'
<1>1. stage = "OnWire" /\ stage' = "Arrived" /\ sent' = sent /\ received' = received
  BY DEF DamageBody, ChangeBody, Arrive
<1>2. IsIpv4(sent) /\ frame = WriteMessage(sent) /\ IsMessage(sent) /\ Serialises(sent)
  BY <1>1, SentMessage DEF DamageBody, LinkInv, IsIpv4
<1> DEFINE data == WriteBody(sent)
           p    == WriteIpv4(Ipv4ToWrite(sent))
<1>3. frame.body = p /\ p.body = data
  <2>1. frame.body = p
    BY <1>2, FrameWritten
  <2>2. p.body = Ipv4ToWrite(sent).payload
    BY DEF WriteIpv4, Ipv4Unsealed
  <2> QED
    BY <1>2, <2>1, <2>2, PacketToWrite
<1>4. frame.body.body = data
  BY <1>3
<1> HIDE DEF data
<1>5. PICK field, before :
        /\ BodyWord(sent, field, before, word)
        /\ frame' = [frame EXCEPT
             !.body = [frame.body EXCEPT !.body = Changed(data, field, before, word)]]
        /\ fault' = Damaged(before, word)
  <2> DEFINE body == frame.body.body
             kind == sent.ip.protocol.kind
             Words16 == {"source_port", "destination_port", "identifier",
                         "sequence_number", "checksum", "window_size", "urgent_pointer"}
  <2>1. body = data /\ data = WriteBody(sent)
    BY <1>4 DEF data
  <2>2. ASSUME NEW field, NEW before, ChangeBody(field, before, word),
               BodyWord(sent, field, before, word)
        PROVE  /\ frame' = [frame EXCEPT
                    !.body = [frame.body EXCEPT !.body = Changed(data, field, before, word)]]
               /\ fault' = Damaged(before, word)
    BY <2>1, <2>2 DEF ChangeBody, Changed, Arrive
  <2>3. \A field, before : ChangeBody(field, before, word) => before # word
    BY DEF ChangeBody
  <2> HIDE DEF body
  <2>4. CASE \E field \in DOMAIN body \cap Words16 :
               /\ ~ (kind = "Tcp" /\ field = "sequence_number")
               /\ ChangeBody(field, body[field], word)
    <3>1. PICK field \in DOMAIN body \cap Words16 :
               /\ ~ (kind = "Tcp" /\ field = "sequence_number")
               /\ ChangeBody(field, body[field], word)
      BY <2>4
    <3>2. BodyWord(sent, field, body[field], word)
      BY <2>1, <2>3, <3>1 DEF BodyWord
    <3> QED
      BY <2>2, <3>1, <3>2
  <2>5. CASE \E field \in DOMAIN body \cap {"code", "flags"} :
               word \in U8 /\ ChangeBody(field, body[field], word)
    <3>1. PICK field \in DOMAIN body \cap {"code", "flags"} :
               word \in U8 /\ ChangeBody(field, body[field], word)
      BY <2>5
    <3>2. BodyWord(sent, field, body[field], word)
      BY <2>1, <2>3, <3>1 DEF BodyWord
    <3> QED
      BY <2>2, <3>1, <3>2
  <2>6. CASE /\ kind = "Tcp"
             /\ \E field \in {"sequence_number", "acknowledgement_number"} :
                  ChangeBody(field, body[field] % 65536, word)
    <3>1. PICK field \in TcpNumbers : kind = "Tcp" /\ ChangeBody(field, body[field] % 65536, word)
      BY <2>6 DEF TcpNumbers
    <3>2. BodyWord(sent, field, body[field] % 65536, word)
      BY <2>1, <2>3, <3>1 DEF BodyWord
    <3> QED
      BY <2>2, <3>1, <3>2
  <2> QED
    BY <2>4, <2>5, <2>6 DEF DamageBody, body
<1> DEFINE d == Changed(data, field, before, word)
<1>6. frame' = Carrying(sent, WithBody(sent, d))
  BY <1>2, <1>3, <1>5 DEF Carrying, WithBody
<1>7. word \in U16
  BY WordRange
<1>8. frame'.body.body = d
  <2> HIDE DEF d
  <2>1. frame'.body = WithBody(sent, d)
    BY <1>2, <1>6, OtherPacket
  <2> QED
    BY <2>1 DEF WithBody, WriteIpv4, Ipv4Unsealed
<1>9. ASSUME ReadFrame(frame').error = None
      PROVE  \/ TwoZeros(before, word)
             \/ sent.ip.protocol.kind = "Udp" /\ d.checksum = 0
  <2>1. ReadFrame(Carrying(sent, WithBody(sent, d))).error = None
    BY <1>6, <1>9
  <2> QED
    BY <1>2, <1>5, <1>7, <2>1, BodyDamage DEF data
<1> QED
  BY <1>1, <1>5, <1>8, <1>9, DamagedArrives

(* A frame that arrives as it was sent, longer, or shorter.                *)
LEMMA WholeStep ==
  ASSUME LinkInv, NEW n \in Nat, stage = "OnWire", n >= frame.len,
         NEW kind \in {"None", "Padded"}, Arrive(Slice(frame, n), [kind |-> kind])
  PROVE  LinkInv'
<1>1. /\ stage' = "Arrived" /\ sent' = sent /\ received' = received
      /\ frame' = Slice(WriteMessage(sent), n) /\ fault'.kind = kind
      /\ IsMessage(sent) /\ Serialises(sent) /\ n >= WriteMessage(sent).len
  BY SentMessage DEF Arrive, LinkInv
<1> DEFINE result == ReadFrame(Slice(WriteMessage(sent), n))
<1>2. /\ result.error = None /\ result.body = sent.body
      /\ IsIpv4(sent) => result.ip = sent.ip
  BY <1>1, MessageIsRead
<1> HIDE DEF result
<1>3. Judged(ReadFrame(frame))'
  BY <1>1, <1>2 DEF Judged, IsIpv4, result
<1> QED
  BY <1>1, <1>3 DEF LinkInv

LEMMA PartStep ==
  ASSUME LinkInv, NEW n \in Nat, stage = "OnWire", Truncate(n)
  PROVE  LinkInv'
<1>1. /\ stage' = "Arrived" /\ sent' = sent /\ received' = received
      /\ frame' = Slice(WriteMessage(sent), n) /\ fault'.kind = "Truncated"
      /\ IsMessage(sent) /\ Serialises(sent) /\ n < WriteMessage(sent).len
  BY SentMessage DEF Truncate, Arrive, LinkInv
<1>2. ReadFrame(Slice(WriteMessage(sent), n)).error # None
  BY <1>1, PartIsRefused
<1>3. Judged(ReadFrame(frame))'
  BY <1>1, <1>2 DEF Judged
<1> QED
  BY <1>1, <1>3 DEF LinkInv
--------------------------------------------------------------------------------
LEMMA InitLinkInv == Init => LinkInv
BY DEF Init, LinkInv

LEMMA NextLinkInv == LinkInv /\ [Next]_lvars => LinkInv'
<1> SUFFICES ASSUME LinkInv, [Next]_lvars PROVE LinkInv'
  OBVIOUS
<1>1. ASSUME NEW message \in Messages, Send(message) PROVE LinkInv'
  BY <1>1 DEF Send, LinkInv
<1>2. CASE Carry
  <2>1. stage = "OnWire" /\ frame = WriteMessage(sent) /\ IsMessage(sent) /\ Serialises(sent)
    BY <1>2, SentMessage DEF Carry, Arrive, LinkInv
  <2>2. frame = Slice(frame, frame.len) /\ frame.len \in Nat
    BY <2>1, FrameWritten
  <2>3. Arrive(Slice(frame, frame.len), [kind |-> "None"])
    BY <1>2, <2>2 DEF Carry, NoFault
  <2> QED
    BY <2>1, <2>2, <2>3, WholeStep
<1>3. ASSUME NEW n \in Padding, Pad(n) PROVE LinkInv'
  <2>1. stage = "OnWire" /\ frame = WriteMessage(sent) /\ IsMessage(sent) /\ Serialises(sent)
    BY <1>3, SentMessage DEF Pad, Arrive, LinkInv
  <2>2. frame.len \in Nat /\ n \in Nat
    BY <2>1, FrameWritten, LinkAssumption
  <2>3. frame.len + n \in Nat /\ frame.len + n >= frame.len
    BY <2>2
  <2>4. Arrive(Slice(frame, frame.len + n), [kind |-> "Padded"])
    BY <1>3 DEF Pad
  <2> QED
    BY <2>1, <2>3, <2>4, WholeStep
<1>4. ASSUME stage = "OnWire", NEW n \in 0 .. frame.len - 1, Truncate(n) PROVE LinkInv'
  <2>1. frame.len \in Nat
    BY <1>4, SentMessage, FrameWritten DEF LinkInv
  <2>2. n \in Nat
    BY <2>1
  <2> QED
    BY <1>4, <2>2, PartStep
<1>5. ASSUME NEW word \in Words, DamageHeader(word) PROVE LinkInv'
  BY <1>5, HeaderStep
<1>6. ASSUME NEW word \in Words, DamageBody(word) PROVE LinkInv'
  BY <1>6, BodyStep
<1>7. CASE Receive
  BY <1>7 DEF Receive, LinkInv, Judged
<1>8. CASE UNCHANGED lvars
  BY <1>8 DEF lvars, LinkInv, Judged
<1> QED
  BY <1>1, <1>2, <1>3, <1>4, <1>5, <1>6, <1>7, <1>8 DEF Next

(* What the receiver makes of a frame follows from what the wire did to    *)
(* it: the inductive invariant of the link.                                *)
THEOREM LinkInvariant == Spec => []LinkInv
<1> QED
  BY InitLinkInv, NextLinkInv, PTL DEF Spec

(* What is sent is what is received, field by field, padded or not: for    *)
(* every message that write_to accepts, the parsers of the receiver return *)
(* the values that were written.                                           *)
THEOREM SentIsReceived == Spec => []RoundTrip
<1>1. LinkInv => RoundTrip
  BY DEF LinkInv, Judged, RoundTrip
<1> QED
  BY LinkInvariant, <1>1, PTL

(* A frame cut anywhere is refused by one of the parsers.                  *)
THEOREM PartsAreRefused == Spec => []TruncationIsRefused
<1>1. LinkInv => TruncationIsRefused
  BY DEF LinkInv, Judged, TruncationIsRefused
<1> QED
  BY LinkInvariant, <1>1, PTL

(* Whatever the wire makes of one of the header words it may change        *)
(* (DamageHeader, DamageBody: none that decides what a checksum covers, no *)
(* option and no payload), the checksums notice, but for the two forms of  *)
(* 0 and the UDP checksum that says there is none.                         *)
THEOREM ChecksumsNotice == Spec => []DamageIsNoticed
<1>1. LinkInv => DamageIsNoticed
  BY DEF LinkInv, Judged, DamageIsNoticed
<1> QED
  BY LinkInvariant, <1>1, PTL

(* serialise_udp_datagram never writes the checksum 0.                     *)
THEOREM DatagramsHaveChecksums == Spec => []UdpIsChecksummed
<1>1. LinkInv => UdpIsChecksummed
  <2> SUFFICES ASSUME LinkInv, stage = "OnWire", IsIpv4(sent), sent.ip.protocol.kind = "Udp"
               PROVE  frame.body.body.checksum # 0
    BY DEF UdpIsChecksummed, IsIpv4
  <2> DEFINE ip == sent.ip
             w  == WriteUdp(ip.source, ip.destination, sent.body)
  <2>1. IsMessage(sent) /\ Serialises(sent) /\ frame = WriteMessage(sent)
    BY SentMessage DEF LinkInv
  <2>2. frame.body = WriteIpv4(Ipv4ToWrite(sent))
    BY <2>1, FrameWritten
  <2>3. frame.body.body = WriteBody(sent)
    <3>1. WriteIpv4(Ipv4ToWrite(sent)).body = Ipv4ToWrite(sent).payload
      BY DEF WriteIpv4, Ipv4Unsealed
    <3> QED
      BY <2>1, <2>2, <3>1, PacketToWrite
  <2>4. /\ sent.body \in UdpDatagram /\ WriteBody(sent) = w
        /\ ip.source \in Nat /\ ip.destination \in Nat
    BY <2>1, BodyKinds
  <2>5. w.checksum # 0
    BY <2>4, UdpWritten
  <2> QED
    BY <2>3, <2>4, <2>5
<1> QED
  BY LinkInvariant, <1>1, PTL
================================================================================
