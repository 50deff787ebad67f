------------------------------ MODULE RuntimeProofs ------------------------------
(***************************************************************************)
(* What the interface and its run loop do with any frames, at any time.    *)
(*                                                                         *)
(* The properties of a reply need no invariant: the call that puts it      *)
(* together decides them.  Those of the loop rest on the order of its      *)
(* instants: the clock of the resolver never passes the instant of the     *)
(* call in progress, which never passes the time.                          *)
(***************************************************************************)
EXTENDS Runtime, TLAPS

--------------------------------------------------------------------------------
(* What one step of the interface may return.                              *)

(* A frame that is an answer, and is answered in turn.                     *)
EchoedForEver(frame) ==
  /\ frame.payload.type = "Ipv4"
  /\ frame.payload.body = [protocol         |-> "Udp",
                           ok               |-> TRUE,
                           source_port      |-> EchoPort,
                           destination_port |-> EchoPort]

LEMMA ArpAnswer ==
  ASSUME NEW f, NEW instant, ProcessArpFrame(f, instant), result'.kind = "Reply"
  PROVE  /\ ~ WouldBeAnswered(result'.frame.payload)
         /\ result'.frame.payload.type = "Arp"
<1>1. result' = Reply(BuildArpReply(f.payload))
  BY DEF ProcessArpFrame, Ignored
<1>2. /\ result'.frame.payload.type = "Arp"
      /\ result'.frame.payload.operation = "Reply"
  BY <1>1 DEF Reply, BuildArpReply
<1> QED
  BY <1>2 DEF WouldBeAnswered

LEMMA Ipv4Answer ==
  ASSUME NEW f, NEW body, BuildIpv4Reply(f, body)
  PROVE  /\ result'.kind = "Reply"
         /\ result'.frame.payload.type = "Ipv4"
         /\ result'.frame.payload.body = body
         /\ result'.frame.payload.destination = f.payload.source
BY DEF BuildIpv4Reply, Reply, Ipv4Reply

LEMMA IcmpAnswer ==
  ASSUME NEW f, ProcessIcmpPacket(f), result'.kind = "Reply"
  PROVE  /\ ~ WouldBeAnswered(result'.frame.payload)
         /\ result'.frame.payload.body.protocol = "Icmp"
<1>1. BuildIpv4Reply(f, EchoReply)
  BY DEF ProcessIcmpPacket, Ignored
<1>2. /\ result'.frame.payload.type = "Ipv4"
      /\ result'.frame.payload.body = EchoReply
  BY <1>1, Ipv4Answer
<1>3. EchoReply.protocol = "Icmp" /\ ~ EchoReply.echo_request
  BY DEF EchoReply
<1> QED
  BY <1>2, <1>3 DEF WouldBeAnswered

LEMMA UdpAnswer ==
  ASSUME NEW f, ProcessUdpDatagram(f), result'.kind = "Reply"
  PROVE  /\ WouldBeAnswered(result'.frame.payload) => EchoedForEver(result'.frame)
         /\ result'.frame.payload.type = "Ipv4"
         /\ result'.frame.payload.body.protocol = "Udp"
<1> DEFINE request == f.payload.body
<1>1. BuildIpv4Reply(f, EchoedDatagram(request))
  BY DEF ProcessUdpDatagram, Ignored
<1>2. /\ result'.frame.payload.type = "Ipv4"
      /\ result'.frame.payload.body = EchoedDatagram(request)
  BY <1>1, Ipv4Answer
<1>3. EchoedDatagram(request).protocol = "Udp"
  BY DEF EchoedDatagram
<1>4. ASSUME WouldBeAnswered(result'.frame.payload)
      PROVE  EchoedForEver(result'.frame)
  <2>1. EchoedDatagram(request).destination_port = EchoPort
    BY <1>2, <1>3, <1>4 DEF WouldBeAnswered
  <2>2. request.source_port = EchoPort
    BY <2>1 DEF EchoedDatagram
  <2> QED
    BY <1>2, <2>2 DEF EchoedForEver, EchoedDatagram
<1> QED
  BY <1>2, <1>3, <1>4

(* The listener sends a SYN-ACK with the numbers of the connection that it *)
(* holds for the sender.                                                   *)
LEMMA ListenerAnswer ==
  ASSUME NEW ip, NEW s, Listener!ReceiveSegment(ip, s), action'.reply
  PROVE  /\ action'.key = [remote_ip |-> ip, remote_port |-> s.source_port]
         /\ action'.key \in DOMAIN connections'
         /\ connections'[action'.key].state = "SynReceived"
         /\ action'.sequence_number =
              connections'[action'.key].initial_send_sequence
         /\ action'.acknowledgement_number = connections'[action'.key].receive_next
<1> DEFINE key == Listener!KeyOf(ip, s)
<1>1. key = [remote_ip |-> ip, remote_port |-> s.source_port]
  BY DEF Listener!KeyOf
<1>2. action' # Listener!NoReply
  BY DEF Listener!NoReply
<1>3. Listener!OpenConnection(key, s) \/ Listener!ResendSynAck(key, s)
  BY <1>2 DEF Listener!ReceiveSegment, Listener!CompleteHandshake, Listener!IgnoreSegment
<1> HIDE DEF key
<1>4. CASE Listener!OpenConnection(key, s)
  <2>1. action' = Listener!SendSynAck(key, Listener!NewConnection(s))
    BY <1>4 DEF Listener!OpenConnection
  <2>2. key \in DOMAIN connections' /\ connections'[key] = Listener!NewConnection(s)
    BY <1>4 DEF Listener!OpenConnection
  <2>3. connections'[key].state = "SynReceived"
    BY <2>2 DEF Listener!NewConnection
  <2> QED
    BY <1>1, <2>1, <2>2, <2>3 DEF Listener!SendSynAck
<1>5. CASE Listener!ResendSynAck(key, s)
  <2>1. /\ action' = Listener!SendSynAck(key, connections[key])
        /\ connections' = connections
    BY <1>5 DEF Listener!ResendSynAck
  <2>2. key \in DOMAIN connections /\ connections[key].state = "SynReceived"
    BY <1>5 DEF Listener!ResendSynAck, Listener!RepeatsSyn
  <2> QED
    BY <1>1, <2>1, <2>2 DEF Listener!SendSynAck
<1> QED
  BY <1>3, <1>4, <1>5

LEMMA TcpAnswer ==
  ASSUME NEW f, ProcessTcpSegment(f), result'.kind = "Reply"
  PROVE  /\ ~ WouldBeAnswered(result'.frame.payload)
         /\ SynAcksMatchTable'
<1> DEFINE s == f.payload.body.segment
           answer == SynAckSegment(action')
           body == [protocol |-> "Tcp", ok |-> TRUE, segment |-> answer]
<1>1. action'.reply /\ BuildIpv4Reply(f, body)
  BY DEF ProcessTcpSegment, Ignored
<1>2. Listener!ReceiveSegment(f.payload.source, s)
  BY DEF ProcessTcpSegment
<1>3. /\ action'.key = [remote_ip |-> f.payload.source, remote_port |-> s.source_port]
      /\ action'.key \in DOMAIN connections'
      /\ connections'[action'.key].state = "SynReceived"
      /\ action'.sequence_number =
           connections'[action'.key].initial_send_sequence
      /\ action'.acknowledgement_number = connections'[action'.key].receive_next
  BY <1>1, <1>2, ListenerAnswer
<1>4. /\ answer.destination_port = s.source_port
      /\ answer.sequence_number = action'.sequence_number
      /\ answer.acknowledgement_number = action'.acknowledgement_number
      /\ answer.flags = {"SYN", "ACK"}
  BY <1>3 DEF SynAckSegment
<1>5. body.protocol = "Tcp" /\ body.segment = answer
  OBVIOUS
<1> HIDE DEF answer, body, s
<1>6. /\ result'.frame.payload.type = "Ipv4"
      /\ result'.frame.payload.body = body
      /\ result'.frame.payload.destination = f.payload.source
  BY <1>1, Ipv4Answer
<1>7. ~ Listener!AcceptsInitialSyn(answer)
  BY <1>4 DEF Listener!AcceptsInitialSyn
<1>8. ~ WouldBeAnswered(result'.frame.payload)
  BY <1>5, <1>6, <1>7 DEF WouldBeAnswered
<1>9. SynAcksMatchTable'
  BY <1>3, <1>4, <1>5, <1>6 DEF SynAcksMatchTable
<1> QED
  BY <1>8, <1>9

(* What is true of the result of every call.                               *)
LEMMA FrameAnswer ==
  ASSUME NEW f, NEW instant, ProcessFrame(f, instant)
  PROVE  AnswersDrawNoAnswer' /\ SynAcksMatchTable'
<1>1. CASE result'.kind # "Reply"
  BY <1>1 DEF AnswersDrawNoAnswer, SynAcksMatchTable, IsTcpReply, IsIpv4Reply
<1>2. CASE result'.kind = "Reply"
  <2>1. CASE ProcessArpFrame(f, instant)
    BY <1>2, <2>1, ArpAnswer
    DEF AnswersDrawNoAnswer, SynAcksMatchTable, IsTcpReply, IsIpv4Reply
  <2>2. CASE ProcessIcmpPacket(f)
    BY <1>2, <2>2, IcmpAnswer
    DEF AnswersDrawNoAnswer, SynAcksMatchTable, IsTcpReply, IsIpv4Reply
  <2>3. CASE ProcessUdpDatagram(f)
    BY <1>2, <2>3, UdpAnswer
    DEF AnswersDrawNoAnswer, SynAcksMatchTable, IsTcpReply, IsIpv4Reply, EchoedForEver
  <2>4. CASE ProcessTcpSegment(f)
    BY <1>2, <2>4, TcpAnswer DEF AnswersDrawNoAnswer
  <2>5. ~ Refuse(f) /\ ~ Discard(f)
    BY <1>2 DEF Refuse, Discard, Malformed, Ignored
  <2> QED
    BY <2>1, <2>2, <2>3, <2>4, <2>5 DEF ProcessFrame, ProcessIpv4Frame
<1> QED
  BY <1>1, <1>2

LEMMA AnswersInv == Spec => [](AnswersDrawNoAnswer /\ SynAcksMatchTable)
<1> DEFINE Answers == AnswersDrawNoAnswer /\ SynAcksMatchTable
<1>1. Init => Answers
  BY DEF Init, NotCalled, AnswersDrawNoAnswer, SynAcksMatchTable, IsTcpReply, IsIpv4Reply
<1>2. Answers /\ [Next]_ifVars => Answers'
  <2> SUFFICES ASSUME Answers, [Next]_ifVars PROVE Answers'
    OBVIOUS
  <2>1. ASSUME NEW f \in Frames, NEW instant \in Now(f), ProcessFrame(f, instant)
        PROVE  Answers'
    BY <2>1, FrameAnswer
  <2>2. ASSUME NEW ip \in Ip, NEW instant \in clock .. Horizon, CachedMac(ip, instant)
        PROVE  Answers'
    BY <2>2 DEF CachedMac, NotCalled, AnswersDrawNoAnswer, SynAcksMatchTable,
                IsTcpReply, IsIpv4Reply
  <2>3. CASE UNCHANGED ifVars
    BY <2>3 DEF ifVars, tcpVars, AnswersDrawNoAnswer, SynAcksMatchTable,
                IsTcpReply, IsIpv4Reply
  <2> QED
    BY <2>1, <2>2, <2>3 DEF Next
<1> QED
  BY <1>1, <1>2, PTL DEF Spec

(* Between two of these stacks no answer draws an answer, but for a        *)
(* datagram from echo port to echo port; whatever frames there are.        *)
THEOREM NoAnswerToAnswers == Spec => []AnswersDrawNoAnswer
BY AnswersInv, PTL

(* A SYN-ACK on the wire offers what the table holds for its addressee.    *)
THEOREM SynAcksAlwaysMatch == Spec => []SynAcksMatchTable
BY AnswersInv, PTL
--------------------------------------------------------------------------------
(* What the cache is left with after it learned something.                 *)

LEMMA UnexpiredEntries ==
  ASSUME NEW entries, NEW instant
  PROVE  LET live == Resolver!Unexpired(entries, instant) IN
         /\ DOMAIN live \subseteq DOMAIN entries
         /\ \A ip \in DOMAIN live :
              /\ live[ip] = entries[ip]
              /\ Resolver!Age(instant, entries[ip].learned_at) < Ttl
BY DEF Resolver!Unexpired, Resolver!Restrict

LEMMA RoomyEntries ==
  ASSUME NEW entries
  PROVE  LET rest == Resolver!WithRoom(entries) IN
         /\ DOMAIN rest \subseteq DOMAIN entries
         /\ \A ip \in DOMAIN rest : rest[ip] = entries[ip]
BY DEF Resolver!WithRoom, Resolver!Restrict

(* Only the entry that was learned is new, and it bears the instant.       *)
LEMMA LearnedEntries ==
  ASSUME NEW entries, NEW ip, NEW mac, NEW instant
  PROVE  LET learned == Resolver!Learned(entries, ip, mac, instant) IN
         \A i \in DOMAIN learned :
           \/ i = ip /\ learned[i].learned_at = instant
           \/ i # ip /\ i \in DOMAIN entries /\ learned[i] = entries[i]
<1> DEFINE live  == Resolver!Unexpired(entries, instant)
           rest  == Resolver!WithRoom(live)
           entry == [mac |-> mac, learned_at |-> instant]
           learned == Resolver!Learned(entries, ip, mac, instant)
<1>1. /\ DOMAIN live \subseteq DOMAIN entries
      /\ \A i \in DOMAIN live : live[i] = entries[i]
  BY UnexpiredEntries
<1>2. /\ DOMAIN rest \subseteq DOMAIN live
      /\ \A i \in DOMAIN rest : rest[i] = live[i]
  BY RoomyEntries
<1>3. learned \in {Resolver!Put(live, ip, entry), Resolver!Put(rest, ip, entry)}
  BY DEF Resolver!Learned
<1>4. entry.learned_at = instant
  OBVIOUS
<1> HIDE DEF live, rest, entry, learned
<1> SUFFICES \A i \in DOMAIN learned :
               \/ i = ip /\ learned[i].learned_at = instant
               \/ i # ip /\ i \in DOMAIN entries /\ learned[i] = entries[i]
  BY DEF learned
<1>5. CASE learned = Resolver!Put(live, ip, entry)
  BY <1>1, <1>4, <1>5 DEF Resolver!Put
<1>6. CASE learned = Resolver!Put(rest, ip, entry)
  BY <1>1, <1>2, <1>4, <1>6 DEF Resolver!Put
<1> QED
  BY <1>3, <1>5, <1>6
--------------------------------------------------------------------------------
(* The instants of the loop.                                               *)

(* No call goes back in time, and the one in progress is not behind the    *)
(* resolver.                                                               *)
InstantsInOrder ==
  /\ time \in Nat /\ time <= Horizon
  /\ now \in Nat /\ now <= time
  /\ clock \in Nat /\ clock <= time
  /\ pc = "Receiving" => clock <= now

(* What the cache holds was stamped no later than its frame arrived.       *)
StampedEarly ==
  \A ip \in DOMAIN ip_to_mac :
    /\ ip \in DOMAIN heard
    /\ ip_to_mac[ip].learned_at \in Nat
    /\ heard[ip] \in Nat
    /\ ip_to_mac[ip].learned_at <= heard[ip]
    /\ heard[ip] <= time

(* The inductive invariant: the instants make an entry expire too early,   *)
(* never too late.                                                         *)
LoopInv == InstantsInOrder /\ StampedEarly /\ MappingsExpireInTime

LEMMA InitLoopInv == RInit => LoopInv
<1> SUFFICES ASSUME RInit PROVE LoopInv
  OBVIOUS
<1>1. /\ ip_to_mac = [ip \in {} |-> {}]
      /\ clock = 0
      /\ found = Resolver!NoLookup
  BY DEF RInit, Init, Resolver!Init, Resolver!CacheInit
<1>2. InstantsInOrder
  BY <1>1, PartsAssumption DEF RInit, InstantsInOrder
<1>3. StampedEarly
  BY <1>1 DEF StampedEarly
<1>4. MappingsExpireInTime
  BY <1>1 DEF MappingsExpireInTime, Resolver!NoLookup
<1> QED
  BY <1>2, <1>3, <1>4 DEF LoopInv

(* Steps that leave the resolver alone keep the invariant if they keep the *)
(* order of the instants.                                                  *)
LEMMA QuietStep ==
  ASSUME LoopInv, UNCHANGED <<ip_to_mac, clock, found, heard>>,
         time' \in Nat, time <= time', InstantsInOrder'
  PROVE  LoopInv'
<1>1. StampedEarly'
  <2> SUFFICES ASSUME NEW ip \in DOMAIN ip_to_mac
               PROVE  /\ ip \in DOMAIN heard
                      /\ ip_to_mac[ip].learned_at \in Nat
                      /\ heard[ip] \in Nat
                      /\ ip_to_mac[ip].learned_at <= heard[ip]
                      /\ heard[ip] <= time'
    BY DEF StampedEarly
  <2>1. time \in Nat
    BY DEF LoopInv, InstantsInOrder
  <2> QED
    BY <2>1 DEF LoopInv, StampedEarly
<1>2. MappingsExpireInTime'
  BY DEF LoopInv, MappingsExpireInTime
<1> QED
  BY <1>1, <1>2 DEF LoopInv

(* What an ARP frame does to the resolver: it is stamped with the instant  *)
(* of the call, and the frame arrived no earlier.                          *)
LEMMA ArpFrameStep ==
  ASSUME LoopInv, NEW f \in Frames, ReceiveFrame(f), ProcessArpFrame(f, now)
  PROVE  LoopInv'
<1> DEFINE packet == [operation  |-> f.payload.operation,
                      sender_ip  |-> f.payload.sender_ip,
                      sender_mac |-> f.payload.sender_mac]
           sender == f.payload.sender_ip
<1>1. Resolver!LearnFromPacket(packet, now)
  BY DEF ProcessArpFrame, Resolver!Observe
<1>2. /\ pc = "Receiving" /\ pc' # "Receiving"
      /\ time' = time /\ now' = now
  BY DEF ReceiveFrame
<1>3. clock' = now /\ found' = Resolver!NoLookup
  BY <1>1 DEF Resolver!LearnFromPacket
<1>4. InstantsInOrder'
  BY <1>2, <1>3 DEF LoopInv, InstantsInOrder
<1>5. MappingsExpireInTime'
  BY <1>3 DEF MappingsExpireInTime, Resolver!NoLookup
<1>6. Teaches(f) <=> Resolver!LearnsFrom(packet)
  BY DEF Teaches, ProcessArpFrame, Resolver!LearnsFrom
<1>7. StampedEarly'
  <2>1. CASE Resolver!LearnsFrom(packet)
    <3> DEFINE learned == Resolver!Learned(ip_to_mac, sender, packet.sender_mac, now)
    <3>1. ip_to_mac' = learned
      BY <1>1, <2>1 DEF Resolver!LearnFromPacket
    <3>2. heard' = Resolver!Put(heard, sender, time)
      BY <1>6, <2>1 DEF ReceiveFrame
    <3>3. \A i \in DOMAIN learned :
            \/ i = sender /\ learned[i].learned_at = now
            \/ i # sender /\ i \in DOMAIN ip_to_mac /\ learned[i] = ip_to_mac[i]
      BY LearnedEntries
    <3>4. \A i \in DOMAIN heard' : heard'[i] = IF i = sender THEN time ELSE heard[i]
      BY <3>2 DEF Resolver!Put
    <3>5. DOMAIN heard' = DOMAIN heard \cup {sender}
      BY <3>2 DEF Resolver!Put
    <3> HIDE DEF learned, sender
    <3> SUFFICES ASSUME NEW i \in DOMAIN learned
                 PROVE  /\ i \in DOMAIN heard'
                        /\ learned[i].learned_at \in Nat
                        /\ heard'[i] \in Nat
                        /\ learned[i].learned_at <= heard'[i]
                        /\ heard'[i] <= time
      BY <1>2, <3>1 DEF StampedEarly
    <3>6. now \in Nat /\ time \in Nat /\ now <= time
      BY DEF LoopInv, InstantsInOrder
    <3>7. CASE i = sender /\ learned[i].learned_at = now
      BY <3>4, <3>5, <3>6, <3>7
    <3>8. CASE i # sender /\ i \in DOMAIN ip_to_mac /\ learned[i] = ip_to_mac[i]
      BY <3>4, <3>5, <3>8 DEF LoopInv, StampedEarly
    <3> QED
      BY <3>3, <3>7, <3>8
  <2>2. CASE ~ Resolver!LearnsFrom(packet)
    <3>1. UNCHANGED <<ip_to_mac, heard>>
      BY <1>1, <1>6, <2>2 DEF Resolver!LearnFromPacket, ReceiveFrame
    <3> QED
      BY <1>2, <3>1 DEF LoopInv, StampedEarly
  <2> QED
    BY <2>1, <2>2
<1> QED
  BY <1>4, <1>5, <1>7 DEF LoopInv

(* Any other frame leaves the resolver as it is.                           *)
LEMMA OtherFrame ==
  ASSUME NEW f, NEW instant, ProcessFrame(f, instant), ~ ProcessArpFrame(f, instant)
  PROVE  UNCHANGED arpVars
BY DEF ProcessFrame, Refuse, Discard, ProcessIpv4Frame, ProcessIcmpPacket,
       ProcessUdpDatagram, ProcessTcpSegment

LEMMA NoLesson ==
  ASSUME NEW f, NEW instant, ProcessFrame(f, instant), ~ ProcessArpFrame(f, instant)
  PROVE  ~ Teaches(f)
BY DEF ProcessFrame, Refuse, Discard, ProcessIpv4Frame, Teaches, IsForThisHost

LEMMA FrameStep ==
  ASSUME LoopInv, NEW f \in Frames, ReceiveFrame(f)
  PROVE  LoopInv'
<1>1. CASE ProcessArpFrame(f, now)
  BY <1>1, ArpFrameStep
<1>2. CASE ~ ProcessArpFrame(f, now)
  <2>1. ProcessFrame(f, now)
    BY DEF ReceiveFrame
  <2>2. UNCHANGED arpVars /\ ~ Teaches(f)
    BY <1>2, <2>1, OtherFrame, NoLesson
  <2>3. /\ UNCHANGED <<ip_to_mac, clock, found, heard>>
        /\ time' = time /\ now' = now /\ pc' # "Receiving"
    BY <2>2 DEF arpVars, ReceiveFrame
  <2>4. InstantsInOrder'
    BY <2>3 DEF LoopInv, InstantsInOrder
  <2>5. time' \in Nat /\ time <= time'
    BY <2>3 DEF LoopInv, InstantsInOrder
  <2> QED
    BY <2>3, <2>4, <2>5, QuietStep
<1> QED
  BY <1>1, <1>2

(* A lookup answers from an entry that is younger than the time to live,   *)
(* and the frame it was learned from is no older.                          *)
LEMMA LookUpStep ==
  ASSUME LoopInv, NEW ip, LookUp(ip)
  PROVE  LoopInv'
<1>1. Resolver!LookupMac(ip, time)
  BY DEF LookUp, CachedMac, Resolver!CachedMac
<1>2. UNCHANGED <<pc, time, now, heard>> /\ pc = "Idle"
  BY DEF LookUp, loopVars
<1>3. clock' = time /\ ip_to_mac' = Resolver!Unexpired(ip_to_mac, time)
  BY <1>1 DEF Resolver!LookupMac
<1>4. /\ DOMAIN ip_to_mac' \subseteq DOMAIN ip_to_mac
      /\ \A i \in DOMAIN ip_to_mac' :
           /\ ip_to_mac'[i] = ip_to_mac[i]
           /\ Resolver!Age(time, ip_to_mac[i].learned_at) < Ttl
  BY <1>3, UnexpiredEntries
<1>5. InstantsInOrder'
  BY <1>2, <1>3 DEF LoopInv, InstantsInOrder
<1>6. StampedEarly'
  BY <1>2, <1>4 DEF LoopInv, StampedEarly
<1>7. MappingsExpireInTime'
  <2> SUFFICES ASSUME found'.mac # NoMac
               PROVE  /\ found'.ip \in DOMAIN heard
                      /\ time - heard[found'.ip] < Ttl
    BY <1>2, <1>3 DEF MappingsExpireInTime
  <2>1. found'.ip = ip /\ ip \in DOMAIN ip_to_mac'
    BY <1>1 DEF Resolver!LookupMac, Resolver!LookedUp
  <2>2. /\ ip \in DOMAIN heard
        /\ ip_to_mac[ip].learned_at \in Nat
        /\ heard[ip] \in Nat
        /\ ip_to_mac[ip].learned_at <= heard[ip]
        /\ heard[ip] <= time
    BY <1>4, <2>1 DEF LoopInv, StampedEarly
  <2>3. time \in Nat
    BY DEF LoopInv, InstantsInOrder
  <2>4. time - ip_to_mac[ip].learned_at < Ttl
    BY <1>4, <2>1, <2>2, <2>3 DEF Resolver!Age
  <2> QED
    BY <2>1, <2>2, <2>3, <2>4, PartsAssumption
<1> QED
  BY <1>5, <1>6, <1>7 DEF LoopInv

LEMMA NextLoopInv == LoopInv /\ [RNext]_rVars => LoopInv'
<1> SUFFICES ASSUME LoopInv, [RNext]_rVars PROVE LoopInv'
  OBVIOUS
<1>1. CASE TimePasses
  <2>1. /\ UNCHANGED <<ip_to_mac, clock, found, heard>>
        /\ UNCHANGED <<pc, now>>
        /\ time' = time + 1 /\ time < Horizon
    BY <1>1 DEF TimePasses, ifVars, arpVars
  <2>2. InstantsInOrder' /\ time' \in Nat /\ time <= time'
    BY <2>1, PartsAssumption DEF LoopInv, InstantsInOrder
  <2> QED
    BY <2>1, <2>2, QuietStep
<1>2. CASE CallRunOnce
  <2>1. /\ UNCHANGED <<ip_to_mac, clock, found, heard>>
        /\ now' = time /\ time' = time
    BY <1>2 DEF CallRunOnce, ifVars, arpVars
  <2>2. InstantsInOrder' /\ time' \in Nat /\ time <= time'
    BY <2>1 DEF LoopInv, InstantsInOrder
  <2> QED
    BY <2>1, <2>2, QuietStep
<1>3. CASE ReceiveFails \/ Transmit
  <2>1. /\ UNCHANGED <<ip_to_mac, clock, found, heard>>
        /\ UNCHANGED <<time, now>> /\ pc' # "Receiving"
    BY <1>3 DEF ReceiveFails, Transmit, ifVars, arpVars
  <2>2. InstantsInOrder' /\ time' \in Nat /\ time <= time'
    BY <2>1 DEF LoopInv, InstantsInOrder
  <2> QED
    BY <2>1, <2>2, QuietStep
<1>4. CASE UNCHANGED rVars
  <2>1. /\ UNCHANGED <<ip_to_mac, clock, found, heard>>
        /\ UNCHANGED <<time, now, pc>>
    BY <1>4 DEF rVars, loopVars, ifVars, arpVars
  <2>2. InstantsInOrder' /\ time' \in Nat /\ time <= time'
    BY <2>1 DEF LoopInv, InstantsInOrder
  <2> QED
    BY <2>1, <2>2, QuietStep
<1> QED
  BY <1>1, <1>2, <1>3, <1>4, FrameStep, LookUpStep DEF RNext

THEOREM LoopInvariant == RSpec => []LoopInv
BY InitLoopInv, NextLoopInv, PTL DEF RSpec

(* No mapping is used longer than its time to live after its frame came,   *)
(* however long receive blocks.                                            *)
THEOREM MappingsAlwaysExpire == RSpec => []MappingsExpireInTime
<1>1. LoopInv => MappingsExpireInTime
  BY DEF LoopInv
<1> QED
  BY <1>1, LoopInvariant, PTL
--------------------------------------------------------------------------------
(* The loop as a user of the resolver.                                     *)

(* A packet that passes the parser is one the resolver expects.            *)
LEMMA ParsedArp ==
  ASSUME NEW f \in Frames, NEW instant, ProcessArpFrame(f, instant)
  PROVE  [operation  |-> f.payload.operation,
          sender_ip  |-> f.payload.sender_ip,
          sender_mac |-> f.payload.sender_mac] \in Resolver!ArpPacket
<1>1. f.payload \in ArpPayload \cup Ipv4Payload \cup [type : {"Other", "Truncated"}]
  BY FramesAssumption DEF Frame
<1>2. f.payload.type = "Arp" /\ f.payload.ok
  BY DEF ProcessArpFrame
<1>3. f.payload \in ArpPayload
  BY <1>1, <1>2 DEF Ipv4Payload
<1>4. /\ f.payload.operation \in {"Request", "Reply", "Unknown"}
      /\ f.payload.sender_ip \in Ip
      /\ f.payload.sender_mac \in Mac
  BY <1>2, <1>3 DEF ArpPayload
<1> QED
  BY <1>4 DEF Resolver!ArpPacket, Resolver!Operation

LEMMA LoopStepIsResolverStep ==
  LoopInv /\ [RNext]_rVars => [Resolver!Next]_(Resolver!vars)
<1> SUFFICES ASSUME LoopInv, [RNext]_rVars
             PROVE  [Resolver!Next]_(Resolver!vars)
  OBVIOUS
<1>1. UNCHANGED arpVars => UNCHANGED Resolver!vars
  BY DEF arpVars, Resolver!vars, Resolver!cacheVars, Resolver!resolverVars
<1>2. ASSUME NEW f \in Frames, ReceiveFrame(f)
      PROVE  [Resolver!Next]_(Resolver!vars)
  <2>1. CASE ProcessArpFrame(f, now)
    <3> DEFINE packet == [operation  |-> f.payload.operation,
                          sender_ip  |-> f.payload.sender_ip,
                          sender_mac |-> f.payload.sender_mac]
    <3>1. packet \in Resolver!ArpPacket
      BY <2>1, ParsedArp
    <3>2. Resolver!Observe(packet, now)
      BY <2>1 DEF ProcessArpFrame
    <3>3. now \in clock .. Horizon
      BY <1>2, PartsAssumption DEF ReceiveFrame, LoopInv, InstantsInOrder
    <3> QED
      BY <3>1, <3>2, <3>3 DEF Resolver!Next
  <2>2. CASE ~ ProcessArpFrame(f, now)
    BY <1>1, <1>2, <2>2, OtherFrame DEF ReceiveFrame
  <2> QED
    BY <2>1, <2>2
<1>3. ASSUME NEW ip \in Ip, LookUp(ip)
      PROVE  [Resolver!Next]_(Resolver!vars)
  <2>1. Resolver!CachedMac(ip, time)
    BY <1>3 DEF LookUp, CachedMac
  <2>2. time \in clock .. Horizon
    BY PartsAssumption DEF LoopInv, InstantsInOrder
  <2> QED
    BY <2>1, <2>2 DEF Resolver!Next
<1>4. CASE TimePasses \/ CallRunOnce \/ ReceiveFails \/ Transmit \/ UNCHANGED rVars
  BY <1>1, <1>4 DEF TimePasses, CallRunOnce, ReceiveFails, Transmit, rVars, ifVars
<1> QED
  BY <1>2, <1>3, <1>4 DEF RNext

(* The loop hands the resolver instants that never go back, and packets    *)
(* that it expects: all that was shown of the resolver holds in the loop.  *)
THEOREM LoopUsesResolver == RSpec => LoopIsResolver
<1>1. RInit => Resolver!Init
  BY DEF RInit, Init
<1> QED
  BY <1>1, LoopInvariant, LoopStepIsResolverStep, PTL
  DEF RSpec, LoopIsResolver, Resolver!Spec
--------------------------------------------------------------------------------
(* The interface and the loop as users of the listener.                    *)

(* A segment that passes the parser is one the listener expects, and no    *)
(* other frame reaches it.                                                 *)
LEMMA FrameIsListenerStep ==
  ASSUME NEW f \in Frames, NEW instant, ProcessFrame(f, instant)
  PROVE  [Listener!Next]_(Listener!vars)
<1> USE DEF tcpVars, Listener!vars
<1>1. CASE ProcessIpv4Frame(f) /\ ProcessTcpSegment(f)
  <2>1. f.payload \in ArpPayload \cup Ipv4Payload \cup [type : {"Other", "Truncated"}]
    BY FramesAssumption DEF Frame
  <2>2. f.payload.type = "Ipv4" /\ f.payload.ok /\ f.payload.body.ok
    BY <1>1 DEF ProcessIpv4Frame
  <2>3. f.payload \in Ipv4Payload
    BY <2>1, <2>2 DEF ArpPayload
  <2>4. f.payload.source \in Ip /\ f.payload.body \in Body
    BY <2>2, <2>3 DEF Ipv4Payload
  <2>5. f.payload.body.protocol = "Tcp"
    BY <1>1 DEF ProcessTcpSegment
  <2>6. f.payload.body \in TcpBody
    BY <2>4, <2>5 DEF Body, IcmpBody, UdpBody
  <2>7. f.payload.body.segment \in Listener!Segment
    BY <2>2, <2>6, InterfaceAssumption DEF TcpBody
  <2>8. Listener!ReceiveSegment(f.payload.source, f.payload.body.segment)
    BY <1>1 DEF ProcessTcpSegment
  <2> QED
    BY <2>4, <2>7, <2>8 DEF Listener!Next
<1>2. CASE Refuse(f) \/ Discard(f) \/ ProcessArpFrame(f, instant)
  BY <1>2 DEF Refuse, Discard, ProcessArpFrame
<1>3. CASE ProcessIcmpPacket(f) \/ ProcessUdpDatagram(f)
  BY <1>3 DEF ProcessIcmpPacket, ProcessUdpDatagram
<1> QED
  BY <1>1, <1>2, <1>3 DEF ProcessFrame, ProcessIpv4Frame

LEMMA LoopStepIsListenerStep == [RNext]_rVars => [Listener!Next]_(Listener!vars)
<1> SUFFICES ASSUME [RNext]_rVars PROVE [Listener!Next]_(Listener!vars)
  OBVIOUS
<1>1. ASSUME NEW f \in Frames, ReceiveFrame(f)
      PROVE  [Listener!Next]_(Listener!vars)
  BY <1>1, FrameIsListenerStep DEF ReceiveFrame
<1>2. ASSUME NEW ip \in Ip, LookUp(ip)
      PROVE  [Listener!Next]_(Listener!vars)
  BY <1>2 DEF LookUp, CachedMac, tcpVars, Listener!vars
<1>3. CASE TimePasses \/ CallRunOnce \/ ReceiveFails \/ Transmit \/ UNCHANGED rVars
  BY <1>3 DEF TimePasses, CallRunOnce, ReceiveFails, Transmit, rVars, ifVars,
              tcpVars, Listener!vars
<1> QED
  BY <1>1, <1>2, <1>3 DEF RNext

(* Whatever frames arrive, the loop uses the listener as TcpListener says  *)
(* it may be used: all that was shown of the listener holds in the loop.   *)
THEOREM LoopUsesListener == RSpec => Listener!Spec
<1>1. RInit => Listener!Init
  BY DEF RInit, Init
<1> QED
  BY <1>1, LoopStepIsListenerStep, PTL DEF RSpec, Listener!Spec
--------------------------------------------------------------------------------
(* The theorems on the parts, for the parts as they are used here.  The    *)
(* listener's are in one module with those on its peers, of which none     *)
(* matters here.                                                           *)

Arp == INSTANCE ArpProofs
Tcp == INSTANCE TcpProofs
  WITH RemoteIp <- Ip, LocalPort <- EchoPort,
       ClientIsn <- {}, MaxConnects <- 0, MaxRestarts <- 0,
       client <- {}, connects <- {}, to_listener <- {}, to_client <- {},
       restarts <- 0, offered <- {}, acked <- {}

LEMMA SameResolverNext == [Resolver!Next]_(Resolver!vars) => [Arp!Next]_(Arp!vars)
<1>1. ASSUME NEW packet, NEW instant, Resolver!Observe(packet, instant)
      PROVE  Arp!Observe(packet, instant)
  BY <1>1 DEF Resolver!Observe, Arp!Observe, Resolver!Without, Arp!Without,
              Resolver!NoOutcome, Arp!NoOutcome,
              Resolver!LearnFromPacket, Arp!LearnFromPacket,
              Resolver!LearnsFrom, Arp!LearnsFrom, Resolver!Learned,
              Arp!Learned, Resolver!Unexpired, Arp!Unexpired,
              Resolver!Age, Arp!Age, Resolver!WithRoom, Arp!WithRoom,
              Resolver!Oldest, Arp!Oldest, Resolver!Put, Arp!Put,
              Resolver!NoLookup, Arp!NoLookup, Resolver!LookedUp,
              Arp!LookedUp, Resolver!LookupMac, Arp!LookupMac,
              Resolver!Restrict, Arp!Restrict, Resolver!Cardinality,
              Arp!Cardinality
<1>2. ASSUME NEW ip, NEW instant, Resolver!LookupMac(ip, instant)
      PROVE  Arp!LookupMac(ip, instant)
  BY <1>2 DEF Resolver!LookupMac, Arp!LookupMac, Resolver!Unexpired, Arp!Unexpired,
              Resolver!Age, Arp!Age, Resolver!LookedUp, Arp!LookedUp,
              Resolver!Restrict, Arp!Restrict
<1>3. ASSUME NEW ip, NEW instant, Resolver!CachedMac(ip, instant)
      PROVE  Arp!CachedMac(ip, instant)
  BY <1>2, <1>3 DEF Resolver!CachedMac, Arp!CachedMac, Resolver!NoOutcome, Arp!NoOutcome
<1>4. ASSUME NEW ip, NEW instant, Resolver!Resolve(ip, instant)
      PROVE  Arp!Resolve(ip, instant)
  <2>1. Resolver!LookupMac(ip, instant) => Arp!LookupMac(ip, instant)
    BY <1>2
  <2> QED
    BY <1>4, <2>1
    DEF Resolver!Resolve, Arp!Resolve, Resolver!ResolveFromCache,
        Arp!ResolveFromCache, Resolver!RefuseToAsk, Arp!RefuseToAsk,
        Resolver!AskFirst, Arp!AskFirst, Resolver!KeepWaiting,
        Arp!KeepWaiting, Resolver!GiveUp, Arp!GiveUp, Resolver!AskAgain,
        Arp!AskAgain, Resolver!Fail, Arp!Fail, Resolver!SendRequest,
        Arp!SendRequest, Resolver!Outcome, Arp!Outcome,
        Resolver!NextRetryAt, Arp!NextRetryAt, Resolver!Without,
        Arp!Without, Resolver!Put, Arp!Put, Resolver!Restrict,
        Arp!Restrict
<1>5. Resolver!ArpPacket = Arp!ArpPacket
  BY DEF Resolver!ArpPacket, Arp!ArpPacket, Resolver!Operation, Arp!Operation
<1>6. Resolver!Next => Arp!Next
  BY <1>1, <1>3, <1>4, <1>5 DEF Resolver!Next, Arp!Next
<1> QED
  BY <1>6 DEF Resolver!vars, Arp!vars, Resolver!cacheVars, Arp!cacheVars,
              Resolver!resolverVars, Arp!resolverVars

LEMMA SameResolver == Resolver!Spec => Arp!Spec
<1>1. Resolver!Init => Arp!Init
  BY DEF Resolver!Init, Arp!Init, Resolver!CacheInit, Arp!CacheInit,
       Resolver!NoLookup, Arp!NoLookup, Resolver!NoOutcome,
       Arp!NoOutcome
<1> QED
  BY <1>1, SameResolverNext, PTL DEF Resolver!Spec, Arp!Spec

LEMMA SameListenerNext == [Listener!Next]_(Listener!vars) => [Tcp!Next]_(Tcp!vars)
<1>1. ASSUME NEW ip, NEW segment, Listener!ReceiveSegment(ip, segment)
      PROVE  Tcp!ReceiveSegment(ip, segment)
  BY <1>1 DEF Listener!ReceiveSegment, Tcp!ReceiveSegment, Listener!Addressed,
              Tcp!Addressed, Listener!KeyOf, Tcp!KeyOf,
              Listener!OpenConnection, Tcp!OpenConnection,
              Listener!OpensConnection, Tcp!OpensConnection,
              Listener!AcceptsInitialSyn, Tcp!AcceptsInitialSyn,
              Listener!NewConnection, Tcp!NewConnection,
              Listener!WrappingSucc, Tcp!WrappingSucc,
              Listener!SendSynAck, Tcp!SendSynAck,
              Listener!ResendSynAck, Tcp!ResendSynAck,
              Listener!RepeatsSyn, Tcp!RepeatsSyn,
              Listener!CompleteHandshake, Tcp!CompleteHandshake,
              Listener!AcknowledgesSynAck, Tcp!AcknowledgesSynAck,
              Listener!AcceptsFinalAck, Tcp!AcceptsFinalAck,
              Listener!Completed, Tcp!Completed, Listener!IgnoreSegment,
              Tcp!IgnoreSegment, Listener!NoReply, Tcp!NoReply,
              Listener!Cardinality, Tcp!Cardinality
<1>2. Listener!Segment = Tcp!Segment
  BY DEF Listener!Segment, Tcp!Segment, Listener!Sequence, Tcp!Sequence
<1> QED
  BY <1>1, <1>2 DEF Listener!Next, Tcp!Next, Listener!vars, Tcp!vars

LEMMA SameListener == Listener!Spec => Tcp!Spec
<1>1. Listener!Init => Tcp!Init
  BY DEF Listener!Init, Tcp!Init, Listener!NoReply, Tcp!NoReply
<1> QED
  BY <1>1, SameListenerNext, PTL DEF Listener!Spec, Tcp!Spec

(* What Handshake assumes of the peers holds of none.                      *)
LEMMA ListenerAssumptions ==
  /\ SeqMod \in Nat /\ SeqMod >= 2 /\ InitialSequence \in Nat /\ InitialSequence < SeqMod
  /\ Capacity \in Nat /\ Capacity <= SeqMod /\ FlagSets \subseteq SUBSET Tcp!Flag
  /\ {} \subseteq Tcp!Sequence /\ 0 \in Nat
  /\ EchoPort \in Port /\ {{"SYN"}, {"ACK"}} \subseteq FlagSets
BY PartsAssumption, InterfaceAssumption DEF Listener!Flag, Tcp!Flag

LEMMA ResolverTypes == Resolver!Spec => []Resolver!TypeOK
<1>1. Arp!Spec => []Arp!TypeOK
  BY Arp!ResolverTypeCorrect, PartsAssumption
<1>2. Arp!TypeOK => Resolver!TypeOK
  BY DEF Resolver!TypeOK, Arp!TypeOK, Resolver!CacheTypeOK, Arp!CacheTypeOK,
       Resolver!NoOutcome, Arp!NoOutcome, Resolver!Instant, Arp!Instant,
       Resolver!CacheEntry, Arp!CacheEntry, Resolver!PendingResolution,
       Arp!PendingResolution, Resolver!Result, Arp!Result
<1> QED
  BY <1>1, <1>2, SameResolver, PTL

LEMMA ListenerTypes == Listener!Spec => []Listener!TypeOK
<1>1. Tcp!Spec => []Tcp!TypeOK
  BY Tcp!TypeCorrect, ListenerAssumptions
<1>2. Tcp!TypeOK => Listener!TypeOK
  BY DEF Listener!TypeOK, Tcp!TypeOK, Listener!Key, Tcp!Key, Listener!Connection,
       Tcp!Connection, Listener!Sequence, Tcp!Sequence, Listener!SynAck,
       Tcp!SynAck, Listener!NoReply, Tcp!NoReply
<1> QED
  BY <1>1, <1>2, SameListener, PTL
--------------------------------------------------------------------------------
(* The types of the interface.                                             *)

LEMMA InterfaceStepIsResolverStep == [Next]_ifVars => [Resolver!Next]_(Resolver!vars)
<1> SUFFICES ASSUME [Next]_ifVars PROVE [Resolver!Next]_(Resolver!vars)
  OBVIOUS
<1>1. UNCHANGED arpVars => UNCHANGED Resolver!vars
  BY DEF arpVars, Resolver!vars, Resolver!cacheVars, Resolver!resolverVars
<1>2. ASSUME NEW f \in Frames, NEW instant \in Now(f), ProcessFrame(f, instant)
      PROVE  [Resolver!Next]_(Resolver!vars)
  <2>1. CASE ProcessArpFrame(f, instant)
    <3> DEFINE packet == [operation  |-> f.payload.operation,
                          sender_ip  |-> f.payload.sender_ip,
                          sender_mac |-> f.payload.sender_mac]
    <3>1. packet \in Resolver!ArpPacket
      BY <2>1, ParsedArp
    <3>2. Resolver!Observe(packet, instant) /\ f.payload.type = "Arp"
      BY <2>1 DEF ProcessArpFrame
    <3>3. instant \in clock .. Horizon
      BY <3>2 DEF Now
    <3> QED
      BY <3>1, <3>2, <3>3 DEF Resolver!Next
  <2>2. CASE ~ ProcessArpFrame(f, instant)
    BY <1>1, <1>2, <2>2, OtherFrame
  <2> QED
    BY <2>1, <2>2
<1>3. ASSUME NEW ip \in Ip, NEW instant \in clock .. Horizon, CachedMac(ip, instant)
      PROVE  [Resolver!Next]_(Resolver!vars)
  BY <1>3 DEF CachedMac, Resolver!Next
<1>4. CASE UNCHANGED ifVars
  BY <1>1, <1>4 DEF ifVars
<1> QED
  BY <1>2, <1>3, <1>4 DEF Next

LEMMA InterfaceStepIsListenerStep == [Next]_ifVars => [Listener!Next]_(Listener!vars)
<1> SUFFICES ASSUME [Next]_ifVars PROVE [Listener!Next]_(Listener!vars)
  OBVIOUS
<1>1. ASSUME NEW f \in Frames, NEW instant \in Now(f), ProcessFrame(f, instant)
      PROVE  [Listener!Next]_(Listener!vars)
  BY <1>1, FrameIsListenerStep
<1>2. ASSUME NEW ip \in Ip, NEW instant \in clock .. Horizon, CachedMac(ip, instant)
      PROVE  [Listener!Next]_(Listener!vars)
  BY <1>2 DEF CachedMac, tcpVars, Listener!vars
<1>3. CASE UNCHANGED ifVars
  BY <1>3 DEF ifVars, tcpVars, Listener!vars
<1> QED
  BY <1>1, <1>2, <1>3 DEF Next

(* What the interface keeps for itself.                                    *)
OwnTypes ==
  /\ next_ipv4_identification \in 0 .. IdMod - 1
  /\ result \in {NotCalled, Ignored, Malformed} \/ result.kind = "Reply"

LEMMA OwnTypesStep == OwnTypes /\ [Next]_ifVars => OwnTypes'
<1> SUFFICES ASSUME OwnTypes, [Next]_ifVars PROVE OwnTypes'
  OBVIOUS
<1>1. NextIdentification(next_ipv4_identification) \in 0 .. IdMod - 1
  BY InterfaceAssumption DEF OwnTypes, NextIdentification
<1>2. ASSUME NEW frame PROVE Reply(frame).kind = "Reply"
  BY DEF Reply
<1>3. ASSUME NEW f, NEW body, BuildIpv4Reply(f, body) PROVE OwnTypes'
  BY <1>1, <1>2, <1>3 DEF BuildIpv4Reply, OwnTypes
<1>4. ASSUME result' \in {NotCalled, Ignored, Malformed} \/ result'.kind = "Reply",
             UNCHANGED next_ipv4_identification
      PROVE  OwnTypes'
  BY <1>4 DEF OwnTypes
<1> HIDE DEF OwnTypes
<1>5. ASSUME NEW f \in Frames, NEW instant \in Now(f), ProcessFrame(f, instant)
      PROVE  OwnTypes'
  <2>1. CASE Refuse(f) \/ Discard(f)
    BY <1>4, <2>1 DEF Refuse, Discard
  <2>2. CASE ProcessArpFrame(f, instant)
    BY <1>2, <1>4, <2>2 DEF ProcessArpFrame
  <2>3. CASE ProcessIcmpPacket(f)
    BY <1>3, <1>4, <2>3 DEF ProcessIcmpPacket
  <2>4. CASE ProcessUdpDatagram(f)
    BY <1>3, <1>4, <2>4 DEF ProcessUdpDatagram
  <2>5. CASE ProcessTcpSegment(f)
    BY <1>3, <1>4, <2>5 DEF ProcessTcpSegment
  <2> QED
    BY <1>5, <2>1, <2>2, <2>3, <2>4, <2>5 DEF ProcessFrame, ProcessIpv4Frame
<1>6. ASSUME NEW ip \in Ip, NEW instant \in clock .. Horizon, CachedMac(ip, instant)
      PROVE  OwnTypes'
  BY <1>4, <1>6 DEF CachedMac
<1>7. CASE UNCHANGED ifVars
  BY <1>7 DEF ifVars, OwnTypes
<1> QED
  BY <1>5, <1>6, <1>7 DEF Next

(* The interface uses the resolver and the listener as they may be used,   *)
(* so that their state keeps its types, and its own does: the identifier   *)
(* that wraps around stays a u16.                                          *)
THEOREM InterfaceTypeCorrect == Spec => []TypeOK
<1>1. Init => OwnTypes /\ Resolver!Init /\ Listener!Init
  BY InterfaceAssumption DEF Init, OwnTypes
<1>2. Spec => []OwnTypes
  BY <1>1, OwnTypesStep, PTL DEF Spec
<1>3. Spec => Resolver!Spec
  BY <1>1, InterfaceStepIsResolverStep, PTL DEF Spec, Resolver!Spec
<1>4. Spec => Listener!Spec
  BY <1>1, InterfaceStepIsListenerStep, PTL DEF Spec, Listener!Spec
<1>5. OwnTypes /\ Resolver!TypeOK /\ Listener!TypeOK => TypeOK
  BY DEF OwnTypes, TypeOK
<1> QED
  BY <1>2, <1>3, <1>4, <1>5, ResolverTypes, ListenerTypes, PTL
--------------------------------------------------------------------------------
(* The properties of the parts, in the loop.                               *)

(* Whatever frames arrive and however long the loop waits for them, the    *)
(* cache holds the latest mappings, gives up none that is younger than the *)
(* ones it keeps, and a lookup answers with none that has expired.         *)
THEOREM CacheHoldsInLoop ==
  RSpec => [](Resolver!EntriesAreLatest /\ Resolver!KeepsMostRecent /\ Resolver!LookupsAreFresh)
<1>1. RSpec => Arp!CacheSpec
  <2>1. Arp!Spec => Arp!CacheSpec
    BY Arp!ResolverUsesCache, PartsAssumption
  <2> QED
    BY <2>1, LoopUsesResolver, SameResolver, PTL DEF LoopIsResolver
<1>2. Arp!CacheSpec => []Arp!EntriesAreLatest
  BY Arp!CacheHoldsLatest, PartsAssumption
<1>3. Arp!CacheSpec => []Arp!KeepsMostRecent
  BY Arp!CacheKeepsMostRecent, PartsAssumption
<1>4. Arp!CacheSpec => []Arp!LookupsAreFresh
  BY Arp!CacheLookupsAreFresh, PartsAssumption
<1>5. Arp!EntriesAreLatest => Resolver!EntriesAreLatest
  BY DEF Resolver!EntriesAreLatest, Arp!EntriesAreLatest, Resolver!Cardinality,
       Arp!Cardinality
<1>6. Arp!KeepsMostRecent => Resolver!KeepsMostRecent
  BY DEF Resolver!KeepsMostRecent, Arp!KeepsMostRecent, Resolver!Cardinality,
       Arp!Cardinality, Resolver!Age, Arp!Age
<1>7. Arp!LookupsAreFresh => Resolver!LookupsAreFresh
  BY DEF Resolver!LookupsAreFresh, Arp!LookupsAreFresh, Resolver!Age, Arp!Age
<1> QED
  BY <1>1, <1>2, <1>3, <1>4, <1>5, <1>6, <1>7, PTL

(* Whatever frames arrive, the table behind the interface stays within its *)
(* capacity, no two of its connections share a number, each is consistent, *)
(* and what the listener answers is what the table holds.                  *)
THEOREM TableHoldsInLoop ==
  RSpec => []( /\ Listener!CapacityRespected
               /\ Listener!DistinctInitialSequences
               /\ Listener!ConsistentNumbers
               /\ Listener!AnswersMatchTable )
<1>1. RSpec => Tcp!Spec
  BY LoopUsesListener, SameListener, PTL
<1>2. Tcp!Spec => []Tcp!CapacityRespected
  BY Tcp!CapacityIsRespected, ListenerAssumptions
<1>3. Tcp!Spec => []Tcp!DistinctInitialSequences
  BY Tcp!InitialSequencesDistinct, ListenerAssumptions
<1>4. Tcp!Spec => []Tcp!ConsistentNumbers
  BY Tcp!NumbersConsistent, ListenerAssumptions
<1>5. Tcp!Spec => []Tcp!AnswersMatchTable
  BY Tcp!AnswersAreConsistent, ListenerAssumptions
<1>6. Tcp!CapacityRespected => Listener!CapacityRespected
  BY DEF Listener!CapacityRespected, Tcp!CapacityRespected, Listener!Cardinality,
       Tcp!Cardinality, Listener!IsFiniteSet, Tcp!IsFiniteSet
<1>7. Tcp!DistinctInitialSequences => Listener!DistinctInitialSequences
  BY DEF Listener!DistinctInitialSequences, Tcp!DistinctInitialSequences
<1>8. Tcp!ConsistentNumbers => Listener!ConsistentNumbers
  BY DEF Listener!ConsistentNumbers, Tcp!ConsistentNumbers,
       Listener!WrappingSucc, Tcp!WrappingSucc
<1>9. Tcp!AnswersMatchTable => Listener!AnswersMatchTable
  BY DEF Listener!AnswersMatchTable, Tcp!AnswersMatchTable, Listener!SendSynAck,
       Tcp!SendSynAck
<1> QED
  BY <1>1, <1>2, <1>3, <1>4, <1>5, <1>6, <1>7, <1>8, <1>9, PTL
================================================================================
