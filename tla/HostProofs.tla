------------------------------ MODULE HostProofs ------------------------------
(***************************************************************************)
(* Proofs about Host, for every name, every size of a name and of the      *)
(* buffer, and frames of every length.                                     *)
(*                                                                         *)
(* The argument: the frames are numbered as they arrive, and the one read  *)
(* last and those that wait are numbered without a gap (FramesInOrder); so *)
(* that what is sent for a frame, and what is told of it, comes after      *)
(* everything before (LinkInOrder, ReportsInOrder).                        *)
(***************************************************************************)
EXTENDS Host, FiniteSetTheorems, SequenceTheorems, TLAPS

(* Appending to a sequence adds one element at its end.                    *)
LEMMA Appended ==
  ASSUME NEW S, NEW s \in Seq(S), NEW e \in S
  PROVE  /\ Append(s, e) \in Seq(S)
         /\ Len(Append(s, e)) = Len(s) + 1
         /\ \A i \in 1 .. Len(s) : Append(s, e)[i] = s[i]
         /\ Append(s, e)[Len(s) + 1] = e
         /\ DOMAIN Append(s, e) = 1 .. (Len(s) + 1)
         /\ DOMAIN s = 1 .. Len(s)
         /\ Len(s) \in Nat
         /\ ToSet(Append(s, e)) = ToSet(s) \cup {e}
<1>1. /\ Append(s, e) \in Seq(S)
      /\ Len(Append(s, e)) = Len(s) + 1
      /\ \A i \in 1 .. Len(s) : Append(s, e)[i] = s[i]
      /\ Append(s, e)[Len(s) + 1] = e
      /\ DOMAIN Append(s, e) = 1 .. (Len(s) + 1)
      /\ DOMAIN s = 1 .. Len(s)
      /\ Len(s) \in Nat
  BY AppendProperties, LenProperties
<1> DEFINE t == Append(s, e)
<1> HIDE DEF t
<1>2. 1 .. (Len(s) + 1) = (1 .. Len(s)) \cup {Len(s) + 1}
  BY <1>1
<1>3. {t[i] : i \in 1 .. (Len(s) + 1)} = {s[i] : i \in 1 .. Len(s)} \cup {e}
  BY <1>1, <1>2 DEF t
<1>4. ToSet(t) = ToSet(s) \cup {e}
  BY <1>1, <1>3 DEF t, ToSet
<1> QED
  BY <1>1, <1>4 DEF t
--------------------------------------------------------------------------------
(* The name of the device.                                                 *)

(* A name that leaves room for its NUL is read back as it was written.     *)
LEMMA NameSurvives ==
  ASSUME NEW new \in Seq(Char), Len(new) < IFNAMSIZ
  PROVE  /\ NameFromRequest(CopyNameToRequest(new, Zeroed)) = new
         /\ NameSeen(CopyNameToRequest(new, Zeroed)) = new
<1> DEFINE bytes  == CopyNameToRequest(new, Zeroed)
           n      == Len(new)
           sealed == [bytes EXCEPT ![IFNAMSIZ] = NUL]
<1>1. IFNAMSIZ \in Nat /\ IFNAMSIZ # 0 /\ NUL \notin Char
  BY HostAssumption
<1>2. n \in Nat /\ n < IFNAMSIZ /\ \A i \in 1 .. n : new[i] \in Char
  BY LenProperties, ElementOfSeq
<1>3. /\ DOMAIN bytes = 1 .. IFNAMSIZ
      /\ \A i \in 1 .. IFNAMSIZ : bytes[i] = IF i <= n THEN new[i] ELSE NUL
  BY <1>1 DEF CopyNameToRequest, Zeroed
<1>4. sealed = bytes
  <2>1. bytes[IFNAMSIZ] = NUL
    BY <1>1, <1>2, <1>3
  <2> QED
    BY <2>1, <1>1, <1>3 DEF CopyNameToRequest, Zeroed
<1>5. bytes \in [1 .. IFNAMSIZ -> Char \cup {NUL}]
  BY <1>1, <1>2, <1>3 DEF CopyNameToRequest, Zeroed
<1>6. {i \in DOMAIN bytes : \A j \in 1 .. i : bytes[j] # NUL} = 1 .. n
  <2>1. ASSUME NEW i \in 1 .. n
        PROVE  i \in DOMAIN bytes /\ \A j \in 1 .. i : bytes[j] # NUL
    BY <1>1, <1>2, <1>3
  <2>2. ASSUME NEW i \in DOMAIN bytes, \A j \in 1 .. i : bytes[j] # NUL
        PROVE  i \in 1 .. n
    <3>1. i \in 1 .. IFNAMSIZ /\ bytes[i] # NUL
      BY <1>1, <1>3, <2>2
    <3> QED
      BY <1>1, <1>2, <1>3, <3>1
  <2> QED
    BY <2>1, <2>2
<1> HIDE DEF bytes, n
<1>7. Cardinality(1 .. n) = n
  <2>1. 1 \in Int /\ n \in Int
    BY <1>2
  <2>2. Cardinality(1 .. n) = IF 1 > n THEN 0 ELSE n - 1 + 1
    BY <2>1, FS_Interval
  <2> QED
    BY <1>2, <2>2
<1>8. NameFromRequest(bytes) = SubSeq(bytes, 1, n)
  BY <1>6, <1>7 DEF NameFromRequest
<1>9. SubSeq(bytes, 1, n) = new
  <2>1. bytes \in Seq(Char \cup {NUL}) /\ Len(bytes) = IFNAMSIZ
    BY <1>1, <1>5, IsASeq, LenProperties
  <2>2. /\ SubSeq(bytes, 1, n) \in Seq(Char \cup {NUL})
        /\ Len(SubSeq(bytes, 1, n)) = n
        /\ \A i \in 1 .. n : SubSeq(bytes, 1, n)[i] = bytes[i]
    BY <1>1, <1>2, <2>1, SubSeqProperties
  <2>3. \A i \in 1 .. n : bytes[i] = new[i]
    BY <1>1, <1>2, <1>3
  <2>4. new \in Seq(Char \cup {NUL}) /\ Len(new) = n
    <3>1. new \in Seq(Char) /\ Len(new) = n
      BY DEF n
    <3> QED
      BY <3>1
  <2> QED
    BY <1>2, <2>2, <2>3, <2>4, SeqEqual
<1> QED
  BY <1>4, <1>8, <1>9 DEF bytes, NameSeen

(* A requested name that is valid has only characters, and room for a NUL. *)
LEMMA ValidName ==
  ASSUME NEW new \in Seq(Char \cup {NUL}), Valid(new)
  PROVE  new \in Seq(Char) /\ Len(new) < IFNAMSIZ
<1>1. new \in [1 .. Len(new) -> Char \cup {NUL}] /\ Len(new) \in Nat
  BY LenProperties
<1>2. \A i \in 1 .. Len(new) : new[i] # NUL
  BY <1>1 DEF Valid, ToSet
<1>3. new \in [1 .. Len(new) -> Char]
  BY <1>1, <1>2
<1> QED
  BY <1>1, <1>3, IsASeq DEF Valid
--------------------------------------------------------------------------------
(* The loop.                                                               *)

Frames == [number : Nat, len : Nat]

TypeInv ==
  /\ stage \in {"Start", "Idle", "Received", "Transmitting", "Stopped"}
  /\ requested \in Seq(Char \cup {NUL})
  /\ arrived \in Nat
  /\ current \in Frames
  /\ queue \in Seq(Frames)
  /\ buffer \in [1 .. BufferLen -> Nat]
  /\ reply \in Nat
  /\ link \in Seq([number : Nat, len : Nat, of : Nat])
  /\ reports \in Seq([kind : {"Ignored", "MalformedFrame", "ReplyTransmitted"},
                      received : Nat, transmitted : Nat, number : Nat])

(* The frame read last and the ones that wait are all that arrived, in the *)
(* order of arrival.                                                       *)
FramesInOrder ==
  /\ current.number + Len(queue) = arrived
  /\ \A i \in 1 .. Len(queue) : queue[i].number = current.number + i

(* The frame read last is still to be answered or told of.                 *)
Pending == stage \in {"Received", "Transmitting"}

(* What was sent and what was told is not newer than the frame read last,  *)
(* and older if that one is still pending.                                 *)
NotNewer(entries) ==
  \A i \in 1 .. Len(entries) :
    /\ entries[i].number <= current.number
    /\ Pending => entries[i].number < current.number

HostInv ==
  /\ TypeInv
  /\ FramesInOrder
  /\ NotNewer(link)
  /\ NotNewer(reports)
  /\ DeviceIsTheOneAskedFor
  /\ NoStaleBytes
  /\ OneFramePerReply
  /\ ReportsAreTruthful

LEMMA NumbersAreNat ==
  ASSUME TypeInv
  PROVE  /\ \A i \in 1 .. Len(link) : link[i].number \in Nat
         /\ \A i \in 1 .. Len(reports) : reports[i].number \in Nat
<1>1. ASSUME NEW i \in 1 .. Len(link)
      PROVE  link[i].number \in Nat
  <2>1. link[i] \in [number : Nat, len : Nat, of : Nat]
    BY ElementOfSeq DEF TypeInv
  <2> QED
    BY <2>1
<1>2. ASSUME NEW i \in 1 .. Len(reports)
      PROVE  reports[i].number \in Nat
  <2>1. reports[i] \in [kind : {"Ignored", "MalformedFrame", "ReplyTransmitted"},
                        received : Nat, transmitted : Nat, number : Nat]
    BY ElementOfSeq DEF TypeInv
  <2> QED
    BY <2>1
<1> QED
  BY <1>1, <1>2

LEMMA HostStarts == Init => HostInv
<1> SUFFICES ASSUME Init PROVE HostInv
  OBVIOUS
<1>1. TypeInv
  BY HostAssumption, EmptySeq DEF Init, TypeInv, NoFrame, Frame, Frames
<1>2. FramesInOrder /\ NotNewer(link) /\ NotNewer(reports)
  BY EmptySeq DEF Init, FramesInOrder, NotNewer, NoFrame, Frame
<1>3. DeviceIsTheOneAskedFor /\ NoStaleBytes /\ OneFramePerReply
  BY EmptySeq DEF Init, DeviceIsTheOneAskedFor, NoStaleBytes, OneFramePerReply
<1>4. ReportsAreTruthful
  BY EmptySeq DEF Init, ReportsAreTruthful, ToSet
<1> QED
  BY <1>1, <1>2, <1>3, <1>4 DEF HostInv

(* A step that sends and tells nothing, and reads no frame, keeps what is  *)
(* said of them, unless it brings a frame back.                            *)
LEMMA NothingSent ==
  ASSUME HostInv, UNCHANGED <<current, link, reports>>, Pending' => Pending,
         stage = "Stopped" => stage' = "Stopped"
  PROVE  NotNewer(link)' /\ NotNewer(reports)' /\ OneFramePerReply' /\ ReportsAreTruthful'
<1>1. NotNewer(link)' /\ NotNewer(reports)'
  BY DEF HostInv, NotNewer
<1>2. OneFramePerReply' /\ ReportsAreTruthful'
  BY DEF HostInv, OneFramePerReply, ReportsAreTruthful
<1> QED
  BY <1>1, <1>2

(* The frame being answered is newer than all that was sent and told.      *)
LEMMA PendingIsNewest ==
  ASSUME HostInv, Pending
  PROVE  /\ \A i \in 1 .. Len(link) : link[i].number < current.number
         /\ \A i \in 1 .. Len(reports) : reports[i].number < current.number
         /\ \A i \in 1 .. Len(link) : link[i].len = link[i].of
BY LenProperties DEF HostInv, TypeInv, NotNewer, OneFramePerReply, Pending

LEMMA ReceiveStep ==
  ASSUME HostInv, Receive
  PROVE  HostInv'
<1> DEFINE frame    == Head(queue)
           received == Delivered(frame)
<1>1. /\ frame \in Frames /\ frame = queue[1]
      /\ Tail(queue) \in Seq(Frames)
      /\ Len(Tail(queue)) = Len(queue) - 1
      /\ \A i \in 1 .. Len(Tail(queue)) : Tail(queue)[i] = queue[i + 1]
      /\ Len(queue) \in Nat /\ Len(queue) # 0
  BY HeadTailProperties, LenProperties, EmptySeq DEF HostInv, TypeInv, Receive
<1>2. received \in Nat /\ received <= BufferLen /\ BufferLen \in Nat
  BY <1>1, HostAssumption DEF Delivered, Frames
<1>3. frame.number = current.number + 1 /\ frame.number \in Nat /\ current.number \in Nat
  BY <1>1 DEF HostInv, TypeInv, FramesInOrder, Frames
<1> HIDE DEF frame, received
<1>4. /\ buffer' = [i \in 1 .. BufferLen |-> IF i <= received THEN frame.number ELSE buffer[i]]
      /\ slice' = FrameBytes(buffer', received)
      /\ current' = Frame(frame.number, received)
      /\ queue' = Tail(queue)
      /\ stage = "Idle" /\ stage' = "Received"
      /\ UNCHANGED <<requested, named, name, arrived, reply, link, reports, signals>>
  BY DEF Receive, nameVars, frame, received
<1>5. buffer' \in [1 .. BufferLen -> Nat]
  BY <1>3, <1>4 DEF HostInv, TypeInv
<1>6. current'.number = frame.number /\ current'.len = received /\ current' \in Frames
  BY <1>2, <1>3, <1>4 DEF Frame, Frames
<1>7. TypeInv'
  BY <1>1, <1>4, <1>5, <1>6 DEF HostInv, TypeInv
<1>8. FramesInOrder'
  <2> DEFINE rest == Tail(queue)
  <2>1. arrived \in Nat /\ current.number + Len(queue) = arrived
    BY DEF HostInv, TypeInv, FramesInOrder
  <2>2. \A i \in 1 .. Len(queue) : queue[i].number = current.number + i
    BY DEF HostInv, FramesInOrder
  <2>3. ASSUME NEW i \in 1 .. Len(rest)
        PROVE  rest[i].number = frame.number + i
    <3>1. i + 1 \in 1 .. Len(queue) /\ rest[i] = queue[i + 1]
      BY <1>1
    <3>2. rest[i].number = current.number + (i + 1)
      BY <2>2, <3>1
    <3> QED
      BY <1>3, <3>2
  <2>4. frame.number + Len(rest) = arrived
    BY <1>1, <1>3, <2>1
  <2> HIDE DEF rest
  <2>5. current'.number + Len(rest) = arrived
        /\ \A i \in 1 .. Len(rest) : rest[i].number = current'.number + i
    BY <1>6, <2>3, <2>4
  <2>6. queue' = rest /\ arrived' = arrived
    BY <1>4 DEF rest
  <2> QED
    BY <2>5, <2>6 DEF FramesInOrder
<1>9. NotNewer(link)' /\ NotNewer(reports)'
  <2>1. /\ \A i \in 1 .. Len(link) : link[i].number \in Nat
        /\ \A i \in 1 .. Len(reports) : reports[i].number \in Nat
    BY NumbersAreNat DEF HostInv
  <2>2. /\ \A i \in 1 .. Len(link) : link[i].number < frame.number
        /\ \A i \in 1 .. Len(reports) : reports[i].number < frame.number
    BY <1>3, <2>1 DEF HostInv, NotNewer
  <2>3. UNCHANGED <<link, reports>> /\ current'.number = frame.number
    BY <1>4, <1>6
  <2>4. /\ \A i \in 1 .. Len(link) : link[i].number <= frame.number
        /\ \A i \in 1 .. Len(reports) : reports[i].number <= frame.number
    BY <1>3, <2>1, <2>2
  <2> QED
    BY <2>2, <2>3, <2>4 DEF NotNewer
<1>10. NoStaleBytes'
  <2> DEFINE wanted == [i \in 1 .. received |-> frame.number]
  <2>1. buffer' \in Seq(Nat) /\ Len(buffer') = BufferLen
    BY <1>2, <1>5, IsASeq, LenProperties
  <2>2. /\ FrameBytes(buffer', received) \in Seq(Nat)
        /\ Len(FrameBytes(buffer', received)) = received
        /\ \A i \in 1 .. received : FrameBytes(buffer', received)[i] = buffer'[i]
    BY <1>2, <2>1, SubSeqProperties DEF FrameBytes
  <2>3. \A i \in 1 .. received : buffer'[i] = frame.number
    BY <1>2, <1>4
  <2>4. wanted \in Seq(Nat) /\ Len(wanted) = received
    BY <1>2, <1>3, IsASeq, LenProperties
  <2>5. slice' = wanted
    BY <1>4, <2>2, <2>3, <2>4, SeqEqual
  <2> QED
    BY <1>6, <2>5 DEF NoStaleBytes
<1>11. DeviceIsTheOneAskedFor' /\ ReportsAreTruthful'
  BY <1>4 DEF HostInv, DeviceIsTheOneAskedFor, ReportsAreTruthful
<1>12. OneFramePerReply'
  BY <1>4 DEF HostInv, OneFramePerReply
<1> QED
  BY <1>7, <1>8, <1>9, <1>10, <1>11, <1>12 DEF HostInv

LEMMA ArriveStep ==
  ASSUME HostInv, NEW len \in Lengths, Arrive(len)
  PROVE  HostInv'
<1> DEFINE new == Frame(arrived + 1, len)
<1>1. new \in Frames /\ new.number = arrived + 1 /\ arrived \in Nat /\ current.number \in Nat
  BY HostAssumption DEF HostInv, TypeInv, Frame, Frames
<1> HIDE DEF new
<1>2. /\ Append(queue, new) \in Seq(Frames)
      /\ Len(Append(queue, new)) = Len(queue) + 1
      /\ \A i \in 1 .. Len(queue) : Append(queue, new)[i] = queue[i]
      /\ Append(queue, new)[Len(queue) + 1] = new
      /\ Len(queue) \in Nat
  BY <1>1, Appended DEF HostInv, TypeInv
<1>3. /\ queue' = Append(queue, new) /\ arrived' = arrived + 1
      /\ stage # "Stopped"
      /\ UNCHANGED <<stage, requested, named, name, current, buffer, slice, reply,
                     link, reports, signals>>
  BY DEF Arrive, nameVars, new
<1>4. TypeInv'
  BY <1>1, <1>2, <1>3 DEF HostInv, TypeInv
<1>5. FramesInOrder'
  <2> DEFINE longer == Append(queue, new)
  <2>1. /\ current.number + Len(queue) = arrived
        /\ \A i \in 1 .. Len(queue) : queue[i].number = current.number + i
    BY DEF HostInv, FramesInOrder
  <2>2. current.number + Len(longer) = arrived + 1
    BY <1>1, <1>2, <2>1
  <2>3. ASSUME NEW i \in 1 .. Len(longer)
        PROVE  longer[i].number = current.number + i
    <3>1. CASE i \in 1 .. Len(queue)
      BY <1>2, <2>1, <3>1
    <3>2. CASE i = Len(queue) + 1
      BY <1>1, <1>2, <2>1, <3>2
    <3> QED
      BY <1>2, <3>1, <3>2
  <2> HIDE DEF longer
  <2>4. queue' = longer /\ arrived' = arrived + 1 /\ current' = current
    BY <1>3 DEF longer
  <2> QED
    BY <2>2, <2>3, <2>4 DEF FramesInOrder
<1>6. NotNewer(link)' /\ NotNewer(reports)' /\ OneFramePerReply' /\ ReportsAreTruthful'
  BY <1>3, NothingSent DEF Pending
<1>7. DeviceIsTheOneAskedFor' /\ NoStaleBytes'
  BY <1>3 DEF HostInv, DeviceIsTheOneAskedFor, NoStaleBytes
<1> QED
  BY <1>4, <1>5, <1>6, <1>7 DEF HostInv

LEMMA OpenStep ==
  ASSUME HostInv, NEW granted \in GrantedNames, Open(granted)
  PROVE  HostInv'
<1>1. /\ stage = "Start" /\ stage' = "Idle" /\ UNCHANGED requested
      /\ Valid(requested)
      /\ named' = [seen |-> NameSeen(CopyNameToRequest(requested, Zeroed)), granted |-> granted]
      /\ name' = NameFromRequest(CopyNameToRequest(granted, Zeroed))
      /\ UNCHANGED <<queue, arrived, current, buffer, slice, reply, link, reports, signals>>
  BY DEF Open, loopVars
<1>2. requested \in Seq(Char) /\ Len(requested) < IFNAMSIZ
  BY <1>1, ValidName DEF HostInv, TypeInv
<1>3. named'.seen = requested
  BY <1>1, <1>2, NameSurvives
<1>4. granted \in Seq(Char) /\ Len(granted) < IFNAMSIZ
  BY HostAssumption
<1>5. name' = named'.granted
  BY <1>1, <1>4, NameSurvives
<1>6. DeviceIsTheOneAskedFor' /\ NoStaleBytes'
  BY <1>1, <1>3, <1>5 DEF DeviceIsTheOneAskedFor, NoStaleBytes
<1>7. TypeInv' /\ FramesInOrder'
  BY <1>1 DEF HostInv, TypeInv, FramesInOrder
<1>8. NotNewer(link)' /\ NotNewer(reports)' /\ OneFramePerReply' /\ ReportsAreTruthful'
  BY <1>1, NothingSent DEF Pending
<1> QED
  BY <1>6, <1>7, <1>8 DEF HostInv

(* The steps of the loop and of main that send and tell nothing.           *)
LEMMA QuietStep ==
  ASSUME HostInv,
         \/ OpenFails \/ ReceiveFails \/ ReceiveInterrupted
         \/ TransmitFails \/ TransmitInterrupted
         \/ \E len \in 1 .. current.len : HasReply(len)
  PROVE  HostInv'
<1>1. /\ UNCHANGED <<requested, named, name, queue, arrived, current, buffer, slice,
                     link, reports>>
      /\ stage \in {"Start", "Idle", "Received", "Transmitting"}
      /\ stage' \in {"Idle", "Transmitting", "Stopped"}
      /\ stage' = "Transmitting" => stage = "Received"
      /\ reply' \in Nat
  BY DEF HostInv, TypeInv, Frames, OpenFails, ReceiveFails, ReceiveInterrupted, TransmitFails,
         TransmitInterrupted, HasReply, Stop, nameVars, loopVars
<1>2. TypeInv' /\ FramesInOrder'
  BY <1>1 DEF HostInv, TypeInv, FramesInOrder
<1>3. DeviceIsTheOneAskedFor' /\ NoStaleBytes'
  BY <1>1 DEF HostInv, DeviceIsTheOneAskedFor, NoStaleBytes
<1>4. NotNewer(link)' /\ NotNewer(reports)' /\ OneFramePerReply' /\ ReportsAreTruthful'
  BY <1>1, NothingSent DEF Pending
<1> QED
  BY <1>2, <1>3, <1>4 DEF HostInv

(* An entry for the frame read last goes after all the others.             *)
LEMMA OneMore ==
  ASSUME NEW S, NEW s \in Seq(S), NEW e \in S,
         current.number \in Nat, e.number = current.number,
         \A i \in 1 .. Len(s) : s[i].number \in Nat /\ s[i].number < current.number,
         \A i \in DOMAIN s : i > 1 => s[i - 1].number < s[i].number
  PROVE  /\ \A i \in 1 .. Len(Append(s, e)) : Append(s, e)[i].number <= current.number
         /\ \A i \in DOMAIN Append(s, e) :
              i > 1 => Append(s, e)[i - 1].number < Append(s, e)[i].number
<1> DEFINE t == Append(s, e)
<1>1. /\ Len(t) = Len(s) + 1
      /\ \A i \in 1 .. Len(s) : t[i] = s[i]
      /\ t[Len(s) + 1] = e
      /\ DOMAIN t = 1 .. (Len(s) + 1)
      /\ DOMAIN s = 1 .. Len(s)
      /\ Len(s) \in Nat
  BY Appended
<1> HIDE DEF t
<1>2. ASSUME NEW i \in 1 .. Len(t)
      PROVE  t[i].number <= current.number
  <2>1. CASE i \in 1 .. Len(s)
    <3>1. s[i].number \in Nat /\ current.number \in Nat /\ s[i].number < current.number
      BY <2>1
    <3>2. t[i] = s[i]
      BY <1>1, <2>1
    <3> QED
      BY <3>1, <3>2
  <2>2. CASE i = Len(s) + 1
    BY <1>1, <2>2
  <2> QED
    BY <1>1, <2>1, <2>2
<1>3. ASSUME NEW i \in DOMAIN t, i > 1
      PROVE  t[i - 1].number < t[i].number
  <2>1. i - 1 \in 1 .. Len(s)
    BY <1>1, <1>3
  <2>2. CASE i \in 1 .. Len(s)
    BY <1>1, <1>3, <2>1, <2>2
  <2>3. CASE i = Len(s) + 1
    BY <1>1, <2>1, <2>3
  <2> QED
    BY <1>1, <2>2, <2>3
<1> QED
  BY <1>2, <1>3 DEF t

(* What the two histories say, apart from their order: the replies told of *)
(* and the frames sent whole.                                              *)
Told(entries) ==
  {<<r.number, r.transmitted>> : r \in {q \in ToSet(entries) : q.kind = "ReplyTransmitted"}}
SentWhole(entries) ==
  {<<f.number, f.len>> : f \in {g \in ToSet(entries) : g.len = g.of}}

LEMMA ToldOneMore ==
  ASSUME NEW S, NEW s \in Seq(S), NEW e \in S
  PROVE  /\ e.kind = "ReplyTransmitted" =>
              Told(Append(s, e)) = Told(s) \cup {<<e.number, e.transmitted>>}
         /\ e.kind # "ReplyTransmitted" => Told(Append(s, e)) = Told(s)
         /\ e.len = e.of => SentWhole(Append(s, e)) = SentWhole(s) \cup {<<e.number, e.len>>}
         /\ e.len # e.of => SentWhole(Append(s, e)) = SentWhole(s)
<1> DEFINE t == Append(s, e)
<1>1. ToSet(t) = ToSet(s) \cup {e}
  BY Appended
<1> HIDE DEF t
<1>2. e.kind = "ReplyTransmitted" => Told(t) = Told(s) \cup {<<e.number, e.transmitted>>}
  BY <1>1 DEF Told
<1>3. e.kind # "ReplyTransmitted" => Told(t) = Told(s)
  BY <1>1 DEF Told
<1>4. e.len = e.of => SentWhole(t) = SentWhole(s) \cup {<<e.number, e.len>>}
  BY <1>1 DEF SentWhole
<1>5. e.len # e.of => SentWhole(t) = SentWhole(s)
  BY <1>1 DEF SentWhole
<1> QED
  BY <1>2, <1>3, <1>4, <1>5 DEF t

LEMMA NoReplyStep ==
  ASSUME HostInv, NEW kind \in {"Ignored", "MalformedFrame"}, NoReply(kind)
  PROVE  HostInv'
<1> DEFINE new == Outcome(kind, current.len, 0)
           OutcomeType == [kind : {"Ignored", "MalformedFrame", "ReplyTransmitted"},
                           received : Nat, transmitted : Nat, number : Nat]
<1>1. /\ stage = "Received" /\ stage' = "Idle"
      /\ reports' = Append(reports, new)
      /\ UNCHANGED <<requested, named, name, queue, arrived, current, buffer, slice,
                     reply, link>>
  BY DEF NoReply, nameVars
<1>2. /\ new \in OutcomeType
      /\ new.kind # "ReplyTransmitted"
      /\ new.number = current.number
      /\ current.number \in Nat
      /\ reports \in Seq(OutcomeType)
  BY DEF HostInv, TypeInv, Outcome, Frames
<1>3. \A i \in 1 .. Len(reports) :
        reports[i].number \in Nat /\ reports[i].number < current.number
  BY <1>1, PendingIsNewest, NumbersAreNat DEF Pending, HostInv
<1>4. \A i \in DOMAIN reports : i > 1 => reports[i - 1].number < reports[i].number
  BY DEF HostInv, ReportsAreTruthful
<1> HIDE DEF new, OutcomeType
<1>5. /\ \A i \in 1 .. Len(Append(reports, new)) :
           Append(reports, new)[i].number <= current.number
      /\ \A i \in DOMAIN Append(reports, new) :
           i > 1 => Append(reports, new)[i - 1].number < Append(reports, new)[i].number
  BY <1>2, <1>3, <1>4, OneMore
<1>6. Append(reports, new) \in Seq(OutcomeType)
  BY <1>2, Appended
<1>7. TypeInv' /\ FramesInOrder'
  BY <1>1, <1>6 DEF HostInv, TypeInv, FramesInOrder, OutcomeType
<1>8. NotNewer(reports)'
  BY <1>1, <1>5 DEF NotNewer, Pending
<1>9. NotNewer(link)'
  BY <1>1 DEF HostInv, NotNewer, Pending
<1>10. DeviceIsTheOneAskedFor' /\ NoStaleBytes'
  BY <1>1 DEF HostInv, DeviceIsTheOneAskedFor, NoStaleBytes
<1>11. OneFramePerReply'
  BY <1>1 DEF HostInv, OneFramePerReply
<1>12. ReportsAreTruthful'
  <2>1. Told(Append(reports, new)) = Told(reports)
    BY <1>2, ToldOneMore
  <2>2. Told(reports) = SentWhole(link)
    BY DEF HostInv, ReportsAreTruthful, Told, SentWhole
  <2>3. Told(Append(reports, new)) = SentWhole(link)
    BY <2>1, <2>2
  <2> QED
    BY <1>1, <1>5, <2>3 DEF ReportsAreTruthful, Told, SentWhole
<1> QED
  BY <1>7, <1>8, <1>9, <1>10, <1>11, <1>12 DEF HostInv

LEMMA TransmitStep ==
  ASSUME HostInv, Transmit
  PROVE  HostInv'
<1> DEFINE new  == Outcome("ReplyTransmitted", current.len, reply)
           sent == Sent(reply)
           OutcomeType == [kind : {"Ignored", "MalformedFrame", "ReplyTransmitted"},
                           received : Nat, transmitted : Nat, number : Nat]
           SentType == [number : Nat, len : Nat, of : Nat]
<1>1. /\ stage = "Transmitting" /\ stage' = "Idle"
      /\ reports' = Append(reports, new) /\ link' = Append(link, sent)
      /\ UNCHANGED <<requested, named, name, queue, arrived, current, buffer, slice, reply>>
  BY DEF Transmit, nameVars
<1>2. /\ new \in OutcomeType /\ sent \in SentType
      /\ new.kind = "ReplyTransmitted" /\ new.transmitted = reply
      /\ sent.len = reply /\ sent.of = reply
      /\ new.number = current.number /\ sent.number = current.number
      /\ current.number \in Nat
      /\ reports \in Seq(OutcomeType) /\ link \in Seq(SentType)
  BY DEF HostInv, TypeInv, Outcome, Sent, Frames
<1>3. /\ \A i \in 1 .. Len(reports) :
           reports[i].number \in Nat /\ reports[i].number < current.number
      /\ \A i \in 1 .. Len(link) :
           /\ link[i].number \in Nat /\ link[i].number < current.number
           /\ link[i].len = link[i].of
  BY <1>1, PendingIsNewest, NumbersAreNat DEF Pending, HostInv
<1>4. /\ \A i \in DOMAIN reports : i > 1 => reports[i - 1].number < reports[i].number
      /\ \A i \in DOMAIN link : i > 1 => link[i - 1].number < link[i].number
  BY DEF HostInv, ReportsAreTruthful, OneFramePerReply
<1> HIDE DEF new, sent, OutcomeType, SentType
<1>5. /\ \A i \in 1 .. Len(Append(reports, new)) :
           Append(reports, new)[i].number <= current.number
      /\ \A i \in DOMAIN Append(reports, new) :
           i > 1 => Append(reports, new)[i - 1].number < Append(reports, new)[i].number
  BY <1>2, <1>3, <1>4, OneMore
<1>6. /\ \A i \in 1 .. Len(Append(link, sent)) : Append(link, sent)[i].number <= current.number
      /\ \A i \in DOMAIN Append(link, sent) :
           i > 1 => Append(link, sent)[i - 1].number < Append(link, sent)[i].number
  BY <1>2, <1>3, <1>4, OneMore
<1>7. Append(reports, new) \in Seq(OutcomeType) /\ Append(link, sent) \in Seq(SentType)
  BY <1>2, Appended
<1>8. TypeInv' /\ FramesInOrder'
  BY <1>1, <1>7 DEF HostInv, TypeInv, FramesInOrder, OutcomeType, SentType
<1>9. NotNewer(reports)' /\ NotNewer(link)'
  BY <1>1, <1>5, <1>6 DEF NotNewer, Pending
<1>10. DeviceIsTheOneAskedFor' /\ NoStaleBytes'
  BY <1>1 DEF HostInv, DeviceIsTheOneAskedFor, NoStaleBytes
<1>11. OneFramePerReply'
  <2> DEFINE t == Append(link, sent)
  <2>1. /\ \A i \in 1 .. Len(link) : t[i] = link[i]
        /\ t[Len(link) + 1] = sent
        /\ DOMAIN t = 1 .. (Len(link) + 1)
        /\ Len(link) \in Nat
    BY <1>2, Appended
  <2> HIDE DEF t
  <2>2. ASSUME NEW i \in DOMAIN t
        PROVE  t[i].len = t[i].of
    <3>1. CASE i \in 1 .. Len(link)
      BY <1>3, <2>1, <3>1
    <3>2. CASE i = Len(link) + 1
      BY <1>2, <2>1, <3>2
    <3> QED
      BY <2>1, <3>1, <3>2
  <2>3. \A i \in DOMAIN t : i > 1 => t[i - 1].number < t[i].number
    BY <1>6 DEF t
  <2>4. link' = t
    BY <1>1 DEF t
  <2> QED
    BY <2>2, <2>3, <2>4 DEF OneFramePerReply
<1>12. ReportsAreTruthful'
  <2>1. Told(Append(reports, new)) = Told(reports) \cup {<<current.number, reply>>}
    BY <1>2, ToldOneMore
  <2>2. SentWhole(Append(link, sent)) = SentWhole(link) \cup {<<current.number, reply>>}
    BY <1>2, ToldOneMore
  <2>3. Told(reports) = SentWhole(link)
    BY DEF HostInv, ReportsAreTruthful, Told, SentWhole
  <2>4. Told(Append(reports, new)) = SentWhole(Append(link, sent))
    BY <2>1, <2>2, <2>3
  <2> QED
    BY <1>1, <1>5, <2>4 DEF ReportsAreTruthful, Told, SentWhole
<1> QED
  BY <1>8, <1>9, <1>10, <1>11, <1>12 DEF HostInv

(* A frame that is cut is not whole, and nothing follows it.               *)
LEMMA TransmitPartlyStep ==
  ASSUME HostInv, TransmitPartly
  PROVE  HostInv'
<1> DEFINE SentType == [number : Nat, len : Nat, of : Nat]
<1>1. PICK written \in 0 .. reply - 1 :
        link' = IF written = 0 THEN link ELSE Append(link, Sent(written))
  BY DEF TransmitPartly
<1>2. /\ stage = "Transmitting" /\ stage' = "Stopped"
      /\ UNCHANGED <<requested, named, name, queue, arrived, current, buffer, slice, reply,
                     reports>>
  BY DEF TransmitPartly, nameVars
<1>3. DeviceIsTheOneAskedFor' /\ NoStaleBytes' /\ NotNewer(reports)' /\ FramesInOrder'
  BY <1>2 DEF HostInv, DeviceIsTheOneAskedFor, NoStaleBytes, NotNewer, FramesInOrder, Pending
<1>4. CASE written = 0
  <2>1. link' = link
    BY <1>1, <1>4
  <2>2. TypeInv'
    BY <1>2, <2>1 DEF HostInv, TypeInv
  <2>3. NotNewer(link)' /\ OneFramePerReply' /\ ReportsAreTruthful'
    BY <1>2, <2>1, NothingSent DEF Pending
  <2> QED
    BY <1>3, <2>2, <2>3 DEF HostInv
<1>5. CASE written # 0
  <2> DEFINE sent == Sent(written)
             t    == Append(link, sent)
  <2>1. link' = t
    BY <1>1, <1>5
  <2>2. /\ sent \in SentType /\ sent.number = current.number /\ sent.len # sent.of
        /\ current.number \in Nat
        /\ link \in Seq(SentType)
    BY DEF HostInv, TypeInv, Sent, Frames
  <2>3. \A i \in 1 .. Len(link) :
          /\ link[i].number \in Nat /\ link[i].number < current.number
          /\ link[i].len = link[i].of
    BY <1>2, PendingIsNewest, NumbersAreNat DEF Pending, HostInv
  <2>4. \A i \in DOMAIN link : i > 1 => link[i - 1].number < link[i].number
    BY DEF HostInv, OneFramePerReply
  <2> HIDE DEF sent, SentType
  <2>5. /\ \A i \in 1 .. Len(t) : t[i].number <= current.number
        /\ \A i \in DOMAIN t : i > 1 => t[i - 1].number < t[i].number
    BY <2>2, <2>3, <2>4, OneMore
  <2>6. /\ t \in Seq(SentType)
        /\ \A i \in 1 .. Len(link) : t[i] = link[i]
        /\ DOMAIN t = 1 .. (Len(link) + 1)
        /\ Len(t) = Len(link) + 1
        /\ Len(link) \in Nat
    BY <2>2, Appended
  <2>7. SentWhole(t) = SentWhole(link)
    BY <2>2, ToldOneMore
  <2> HIDE DEF t
  <2>8. TypeInv'
    BY <1>2, <2>1, <2>6 DEF HostInv, TypeInv, SentType
  <2>9. NotNewer(link)'
    BY <1>2, <2>1, <2>5 DEF NotNewer, Pending
  <2>10. OneFramePerReply'
    <3>1. ASSUME NEW i \in DOMAIN t, t[i].len # t[i].of
          PROVE  i = Len(t)
      BY <2>3, <2>6, <3>1
    <3> QED
      BY <1>2, <2>1, <2>5, <3>1 DEF OneFramePerReply
  <2>11. ReportsAreTruthful'
    <3>1. Told(reports) = SentWhole(t)
      BY <2>7 DEF HostInv, ReportsAreTruthful, Told, SentWhole
    <3>2. \A i \in DOMAIN reports : i > 1 => reports[i - 1].number < reports[i].number
      BY DEF HostInv, ReportsAreTruthful
    <3> QED
      BY <1>2, <2>1, <3>1, <3>2 DEF ReportsAreTruthful, Told, SentWhole
  <2> QED
    BY <1>3, <2>8, <2>9, <2>10, <2>11 DEF HostInv
<1> QED
  BY <1>4, <1>5

LEMMA HostStep == HostInv /\ [Next]_hostVars => HostInv'
<1> SUFFICES ASSUME HostInv, [Next]_hostVars PROVE HostInv'
  OBVIOUS
<1>1. CASE UNCHANGED hostVars
  <2>1. UNCHANGED <<stage, requested, named, name, queue, arrived, current, buffer, slice,
                    reply, link, reports>>
    BY <1>1 DEF hostVars, nameVars, loopVars
  <2>2. TypeInv' /\ FramesInOrder' /\ NotNewer(link)' /\ NotNewer(reports)'
    BY <2>1 DEF HostInv, TypeInv, FramesInOrder, NotNewer, Pending
  <2>3. DeviceIsTheOneAskedFor' /\ NoStaleBytes' /\ OneFramePerReply' /\ ReportsAreTruthful'
    BY <2>1 DEF HostInv, DeviceIsTheOneAskedFor, NoStaleBytes, OneFramePerReply,
                ReportsAreTruthful
  <2> QED
    BY <2>2, <2>3 DEF HostInv
<1>2. CASE \E granted \in GrantedNames : Open(granted)
  BY <1>2, OpenStep
<1>3. CASE \E len \in Lengths : Arrive(len)
  BY <1>3, ArriveStep
<1>4. CASE RunOnce
  <2>1. CASE Receive
    BY <2>1, ReceiveStep
  <2>2. CASE \E kind \in {"Ignored", "MalformedFrame"} : NoReply(kind)
    BY <2>2, NoReplyStep
  <2>3. CASE Transmit
    BY <2>3, TransmitStep
  <2>4. CASE TransmitPartly
    BY <2>4, TransmitPartlyStep
  <2> QED
    BY <1>4, <2>1, <2>2, <2>3, <2>4, QuietStep DEF RunOnce
<1> QED
  BY <1>1, <1>2, <1>3, <1>4, QuietStep DEF Next

(* What TLC checks for three frames, for all.                              *)
THEOREM HostInvariant == Spec => []HostInv
<1> QED
  BY HostStarts, HostStep, PTL DEF Spec

(* The name that the kernel is given and the name that it gives back       *)
(* survive the ifreq (TapDevice::open, validate_name).                     *)
THEOREM DeviceNamed == Spec => []DeviceIsTheOneAskedFor
<1>1. HostInv => DeviceIsTheOneAskedFor
  BY DEF HostInv
<1> QED
  BY <1>1, HostInvariant, PTL

(* The interface never sees a byte of an earlier frame (run_once_at's      *)
(* receive_buffer.get(..received)).                                        *)
THEOREM BytesAreFresh == Spec => []NoStaleBytes
<1>1. HostInv => NoStaleBytes
  BY DEF HostInv
<1> QED
  BY <1>1, HostInvariant, PTL

(* Whatever is interrupted or written in part, no reply is sent twice, and *)
(* nothing is sent after one that was cut (TapDevice::transmit).           *)
THEOREM RepliesAreSentOnce == Spec => []OneFramePerReply
<1>1. HostInv => OneFramePerReply
  BY DEF HostInv
<1> QED
  BY <1>1, HostInvariant, PTL

(* The observer is told what was sent, and nothing else                    *)
(* (run_with_observer).                                                    *)
THEOREM ReportsAreTrue == Spec => []ReportsAreTruthful
<1>1. HostInv => ReportsAreTruthful
  BY DEF HostInv
<1> QED
  BY <1>1, HostInvariant, PTL

================================================================================
