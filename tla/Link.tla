--------------------------------- MODULE Link ---------------------------------
(***************************************************************************)
(* One frame from a sender to a receiver that both use the codecs of this  *)
(* stack: the sender serialises from the inside out, the wire pads the     *)
(* frame, cuts it short or damages one word of it, or does none of these,  *)
(* and the receiver parses and validates from the outside in.              *)
(*                                                                         *)
(* The order of the calls is the one of interface.rs; which frames are     *)
(* for this host is left to NetworkInterface.                              *)
(***************************************************************************)
EXTENDS Codecs

CONSTANTS
  Macs,       \* the MAC addresses
  Messages,   \* what is sent: addresses, an IPv4 header, and a body
  Padding,    \* how many bytes the wire may add
  Words       \* the values that a damaged word may get

(* A message is an ARP packet, or an IPv4 packet with one of the protocols *)
(* the stack reads, in a frame; the headers are still empty.               *)
IsMessage(message) ==
  /\ message.ethernet \in [destination_mac : Macs, source_mac : Macs,
                          ether_type : [kind : {"Arp", "Ipv4"}], payload : {NoBytes}]
  /\ \/ /\ message.ethernet.ether_type.kind = "Arp"
        /\ message.body \in ArpPacket(Macs)
     \/ /\ message.ethernet.ether_type.kind = "Ipv4"
        /\ message.ip \in Ipv4Packet({NoBytes})
        /\ \/ message.ip.protocol.kind = "Icmp" /\ message.body \in IcmpMessage
           \/ message.ip.protocol.kind = "Udp" /\ message.body \in UdpDatagram
           \/ message.ip.protocol.kind = "Tcp" /\ message.body \in TcpSegmentToSend

ASSUME LinkAssumption ==
  /\ Padding \subseteq Nat
  /\ Words \subseteq U16
  /\ \A message \in Messages : IsMessage(message)

VARIABLES
  stage,      \* "Ready", "OnWire", "Arrived" or "Read"
  sent,       \* the message
  frame,      \* its bytes
  fault,      \* what the wire did to them
  received    \* what the receiver made of them

lvars == <<stage, sent, frame, fault, received>>

NoFault == [kind |-> "None"]
Nothing == [error |-> None]

(* An echo message, a datagram or a segment, written between two hosts.    *)
WriteBody(message) ==
  LET ip == message.ip IN
  CASE ip.protocol.kind = "Icmp" -> WriteIcmp(message.body)
    [] ip.protocol.kind = "Udp"  -> WriteUdp(ip.source, ip.destination, message.body)
    [] ip.protocol.kind = "Tcp"  -> WriteTcp(ip.source, ip.destination, message.body)

(* The headers of a message have an empty payload until they are written.  *)
Around(header, payload) == [header EXCEPT !.payload = payload]

(* Each writer is given as much room as it asks for.                       *)
BodyWriteRefuses(body, protocol) ==
  CASE protocol.kind = "Icmp" -> IcmpWriteRefuses(body, IcmpRequired(body))
    [] protocol.kind = "Udp"  -> UdpWriteRefuses(body, UdpRequired(body))
    [] protocol.kind = "Tcp"  -> TcpWriteRefuses(body, TcpRequired(body))

Ipv4ToWrite(message) == Around(message.ip, WriteBody(message))

(* No writer returns an error: what ? passes on is not sent.               *)
Serialises(message) ==
  message.ethernet.ether_type.kind = "Ipv4" =>
    /\ BodyWriteRefuses(message.body, message.ip.protocol) = None
    /\ Ipv4WriteRefuses(Ipv4ToWrite(message), Ipv4Required(Ipv4ToWrite(message))) = None

WriteMessage(message) ==
  WriteEthernet(Around(message.ethernet,
    IF message.ethernet.ether_type.kind = "Arp"
    THEN WriteArp(message.body)
    ELSE WriteIpv4(Ipv4ToWrite(message))))

Error(layer, error) == [error |-> error, layer |-> layer]

(* Nobody reads the payload; the code returns no error, but no reply.      *)
Ignored(layer) == Error(layer, "Ignored")

ReadBody(ip) ==
  LET data == ip.payload
      Read(layer, refuses, body) ==
        IF refuses # None THEN Error(layer, refuses)
        ELSE [error |-> None, ip |-> Around(ip, NoBytes), body |-> body]
  IN
  CASE ip.protocol.kind = "Icmp" ->
         Read("Icmp", IcmpRefuses(data), ParseIcmp(data))
    [] ip.protocol.kind = "Udp" ->
         Read("Udp", UdpInvalid(ip.source, ip.destination, data), ParseUdp(data))
    [] ip.protocol.kind = "Tcp" ->
         Read("Tcp", TcpInvalid(ip.source, ip.destination, data), ParseTcp(data))
    [] OTHER -> Ignored("Ipv4")

ReadFrame(bytes) ==
  IF EthernetRefuses(bytes) # None
  THEN Error("Ethernet", EthernetRefuses(bytes))
  ELSE LET data == ParseEthFrame(bytes).payload IN
       CASE FromU16(bytes.ether_type).kind = "Arp" ->
              IF ArpRefuses(data) # None THEN Error("Arp", ArpRefuses(data))
              ELSE [error |-> None, body |-> ParseArp(data)]
         [] FromU16(bytes.ether_type).kind = "Ipv4" ->
              IF Ipv4Refuses(data) # None THEN Error("Ipv4", Ipv4Refuses(data))
              ELSE ReadBody(ParseIpv4(data))
         [] OTHER -> Ignored("Ethernet")
--------------------------------------------------------------------------------
Init ==
  /\ stage = "Ready"
  /\ sent = Nothing
  /\ frame = Nothing
  /\ fault = NoFault
  /\ received = Nothing

Send(message) ==
  /\ stage = "Ready"
  /\ Serialises(message)
  /\ sent' = message
  /\ frame' = WriteMessage(message)
  /\ stage' = "OnWire"
  /\ UNCHANGED <<fault, received>>

Arrive(bytes, how) ==
  /\ stage = "OnWire"
  /\ frame' = bytes
  /\ fault' = how
  /\ stage' = "Arrived"
  /\ UNCHANGED <<sent, received>>

Carry == Arrive(frame, NoFault)

(* A short frame is filled up to the minimum of the medium.                *)
Pad(n) == Arrive(Slice(frame, frame.len + n), [kind |-> "Padded"])

Truncate(n) ==
  /\ n < frame.len
  /\ Arrive(Slice(frame, n), [kind |-> "Truncated"])

Damaged(before, after) == [kind |-> "Damaged", before |-> before, after |-> after]

(* One field of the header that the frame carries, or of what the packet   *)
(* carries, becomes another number.                                        *)
ChangeHeader(field, before, after) ==
  /\ before # after
  /\ Arrive([frame EXCEPT !.body[field] = @ - before + after], Damaged(before, after))

ChangeBody(field, before, after) ==
  /\ before # after
  /\ Arrive([frame EXCEPT !.body.body[field] = @ - before + after], Damaged(before, after))

(* A word of the fixed part of an IPv4 header, but for the first byte,     *)
(* which decides how many bytes the checksum covers.  Options stay whole.  *)
DamageHeader(word) ==
  /\ sent.ethernet.ether_type.kind = "Ipv4"
  /\ \/ \E field \in {"total_length", "identification",
                      "flags_and_fragment_offset", "checksum"} :
          ChangeHeader(field, frame.body[field], word)
     \/ \E field \in {"dscp_and_ecn", "ttl", "protocol"} :
          word \in U8 /\ ChangeHeader(field, frame.body[field], word)
     \/ \E field \in {"source", "destination"} :
          ChangeHeader(field, frame.body[field] % 65536, word)

(* A word of the header of what the packet carries, but for those that     *)
(* decide what is covered and how it is read: the length of UDP, the data  *)
(* offset of TCP, the type of ICMP.  Options and payloads stay whole.      *)
DamageBody(word) ==
  LET body == frame.body.body
      kind == sent.ip.protocol.kind
  IN
  /\ sent.ethernet.ether_type.kind = "Ipv4"
  /\ \/ \E field \in DOMAIN body \cap
                     {"source_port", "destination_port", "identifier",
                      "sequence_number", "checksum", "window_size", "urgent_pointer"} :
          /\ ~ (kind = "Tcp" /\ field = "sequence_number")
          /\ ChangeBody(field, body[field], word)
     \/ \E field \in DOMAIN body \cap {"code", "flags"} :
          word \in U8 /\ ChangeBody(field, body[field], word)
     \/ /\ kind = "Tcp"
        /\ \E field \in {"sequence_number", "acknowledgement_number"} :
             ChangeBody(field, body[field] % 65536, word)

Receive ==
  /\ stage = "Arrived"
  /\ received' = ReadFrame(frame)
  /\ stage' = "Read"
  /\ UNCHANGED <<sent, frame, fault>>

Next ==
  \/ \E message \in Messages : Send(message)
  \/ Carry
  \/ \E n \in Padding : Pad(n)
  \/ stage = "OnWire" /\ \E n \in 0 .. frame.len - 1 : Truncate(n)
  \/ stage = "OnWire" /\ \E word \in Words : DamageHeader(word) \/ DamageBody(word)
  \/ Receive

Spec == Init /\ [][Next]_lvars
--------------------------------------------------------------------------------
(* What is sent is what is received, field by field, whether or not the    *)
(* medium pads the frame: padding is neither read nor checksummed.         *)
RoundTrip ==
  stage = "Read" /\ fault.kind \in {"None", "Padded"} =>
    /\ received.error = None
    /\ received.body = sent.body
    /\ sent.ethernet.ether_type.kind = "Ipv4" => received.ip = sent.ip

(* A frame that lost its end is refused wherever it was cut: never is a    *)
(* part of a message taken for the whole.                                  *)
TruncationIsRefused ==
  stage = "Read" /\ fault.kind = "Truncated" => received.error # None

(* A changed word of the headers that DamageHeader and DamageBody name is  *)
(* noticed, with the two exceptions that the checksums of the Internet     *)
(* have: the two forms of 0 are the same number, and a UDP checksum that   *)
(* becomes 0 says there is none.                                           *)
DamageIsNoticed ==
  stage = "Read" /\ fault.kind = "Damaged" /\ received.error = None =>
    \/ {fault.before, fault.after} = {0, Ones}
    \/ sent.ip.protocol.kind = "Udp" /\ frame.body.body.checksum = 0

(* No datagram leaves with the checksum that says it has none.             *)
UdpIsChecksummed ==
  /\ stage = "OnWire"
  /\ sent.ethernet.ether_type.kind = "Ipv4"
  /\ sent.ip.protocol.kind = "Udp"
  => frame.body.body.checksum # 0
================================================================================
