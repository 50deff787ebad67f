--------------------------------- MODULE Host ---------------------------------
(***************************************************************************)
(* The program around the interface: main opens the TAP device by name and *)
(* runs run_with_observer on it.  The kernel's side of the device (what it *)
(* makes of the name, the frames that wait, the errors of read and write)  *)
(* is external.  What the interface answers is left open here: Runtime has *)
(* the same loop with the interface in it, but not the bytes, the names    *)
(* and the failures of the device.                                         *)
(*                                                                         *)
(* A byte is the number of the frame it belongs to, so that the bytes of   *)
(* two frames can be told apart in the buffer that they share.             *)
(***************************************************************************)
EXTENDS Integers, SequencesExt

CONSTANTS
  Char, NUL,       \* the characters of a name, and the one that ends it
  RequestedNames,  \* the first argument of the program, or "tap0"
  GrantedNames,    \* the names the kernel may give the device
  IFNAMSIZ,        \* the size of a name in an ifreq
  BufferLen,       \* DEFAULT_RECEIVE_BUFFER_LEN
  Lengths,         \* the lengths of frames
  MaxFrames,       \* bound: how many frames arrive
  MaxSignals       \* bound: how many calls a signal interrupts

ASSUME HostAssumption ==
  /\ NUL \notin Char
  /\ RequestedNames \subseteq Seq(Char \cup {NUL})
  /\ IFNAMSIZ \in Nat \ {0}
  /\ \A name \in GrantedNames : name \in Seq(Char) /\ Len(name) < IFNAMSIZ
  /\ BufferLen \in Nat \ {0}
  /\ Lengths \subseteq Nat \ {0}

VARIABLES
  stage,      \* "Start", "Idle", "Received", "Transmitting" or "Stopped"
  requested,  \* the name asked for
  named,      \* history: the name the kernel acted on and the one it gave
  name,       \* the name of the TapDevice
  queue,      \* the frames that wait in the device
  arrived,    \* how many there have been
  current,    \* the frame read last
  buffer,     \* the receive buffer, one for all frames
  slice,      \* the bytes given to the interface
  reply,      \* the length of the reply being sent
  link,       \* the frames sent, each with the length it should have
  reports,    \* what the observer was told
  signals     \* how many calls were interrupted

nameVars == <<requested, named, name>>
loopVars == <<queue, arrived, current, buffer, slice, reply, link, reports, signals>>
hostVars == <<stage, nameVars, loopVars>>

Frame(number, len) == [number |-> number, len |-> len]
NoFrame == Frame(0, 0)

(* What the observer is told, and, as a history, of which frame.           *)
Outcome(kind, received, transmitted) ==
  [kind |-> kind, received |-> received, transmitted |-> transmitted,
   number |-> current.number]
--------------------------------------------------------------------------------
(* ifr_name: a C string in IFNAMSIZ bytes, zeroed before a name is copied. *)
Zeroed == [i \in 1 .. IFNAMSIZ |-> NUL]

CopyNameToRequest(new, bytes) ==
  [i \in 1 .. IFNAMSIZ |-> IF i <= Len(new) THEN new[i] ELSE bytes[i]]

(* name_from_request: the bytes before the first NUL.                      *)
NameFromRequest(bytes) ==
  SubSeq(bytes, 1, Cardinality({i \in DOMAIN bytes : \A j \in 1 .. i : bytes[j] # NUL}))

(* The kernel puts a NUL at the end before it reads the name.              *)
NameSeen(bytes) == NameFromRequest([bytes EXCEPT ![IFNAMSIZ] = NUL])

(* Mutant: the terminating NUL is not counted.                             *)
ValidUpToSize(new) == NUL \notin ToSet(new) /\ Len(new) <= IFNAMSIZ

(* validate_name                                                           *)
Valid(new) == NUL \notin ToSet(new) /\ Len(new) < IFNAMSIZ

Init ==
  /\ stage = "Start"
  /\ requested \in RequestedNames
  /\ named = [seen |-> <<>>, granted |-> <<>>]
  /\ name = <<>>
  /\ queue = <<>> /\ arrived = 0 /\ current = NoFrame
  /\ buffer = [i \in 1 .. BufferLen |-> 0]
  /\ slice = <<>>
  /\ reply = 0
  /\ link = <<>> /\ reports = <<>> /\ signals = 0

Stop == stage' = "Stopped" /\ UNCHANGED <<nameVars, loopVars>>

(* The name is refused, /dev/net/tun cannot be opened, or TUNSETIFF fails: *)
(* main returns the error.                                                 *)
OpenFails == stage = "Start" /\ Stop

(* TapDevice::open; the kernel writes the name it gave into the request.   *)
Open(granted) ==
  LET request == CopyNameToRequest(requested, Zeroed) IN
  /\ stage = "Start"
  /\ Valid(requested)
  /\ named' = [seen |-> NameSeen(request), granted |-> granted]
  /\ name' = NameFromRequest(CopyNameToRequest(granted, Zeroed))
  /\ stage' = "Idle"
  /\ UNCHANGED <<requested, loopVars>>

(* A frame arrives at the device, whatever the program is doing.           *)
Arrive(len) ==
  /\ stage \notin {"Start", "Stopped"}
  /\ arrived < MaxFrames
  /\ arrived' = arrived + 1
  /\ queue' = Append(queue, Frame(arrived + 1, len))
  /\ UNCHANGED <<stage, nameVars, current, buffer, slice, reply, link, reports, signals>>

(* Mutant: the whole buffer is the frame.                                  *)
WholeBuffer(bytes, received) == bytes

(* receive_buffer.get(..received)                                          *)
FrameBytes(bytes, received) == SubSeq(bytes, 1, received)

(* TapDevice::receive: read takes one frame from the device, and drops     *)
(* what exceeds the buffer.                                                *)
Delivered(frame) == IF frame.len <= BufferLen THEN frame.len ELSE BufferLen

(* What else is in the buffer stays there.                                 *)
Receive ==
  /\ stage = "Idle"
  /\ queue # <<>>
  /\ LET frame    == Head(queue)
         received == Delivered(frame)
     IN /\ buffer' = [i \in 1 .. BufferLen |->
                        IF i <= received THEN frame.number ELSE buffer[i]]
        /\ slice' = FrameBytes(buffer', received)
        /\ current' = Frame(frame.number, received)
  /\ queue' = Tail(queue)
  /\ stage' = "Received"
  /\ UNCHANGED <<nameVars, arrived, reply, link, reports, signals>>

(* receive returns an error, 0 bytes (UnexpectedEof), or more than the     *)
(* buffer holds (InvalidData).                                             *)
ReceiveFails == stage = "Idle" /\ Stop

(* Mutant: the frame that was about to be read is lost.                    *)
DropInterrupted ==
  /\ stage = "Idle"
  /\ signals < MaxSignals
  /\ signals' = signals + 1
  /\ queue' = IF queue = <<>> THEN queue ELSE Tail(queue)
  /\ UNCHANGED <<stage, nameVars, arrived, current, buffer, slice, reply,
                 link, reports>>

(* A signal interrupts receive: the loop calls it again.                   *)
ReceiveInterrupted ==
  /\ stage = "Idle"
  /\ signals < MaxSignals
  /\ signals' = signals + 1
  /\ UNCHANGED <<stage, nameVars, queue, arrived, current, buffer, slice, reply,
                 link, reports>>

(* The interface has no reply to the frame.                                *)
NoReply(kind) ==
  /\ stage = "Received"
  /\ reports' = Append(reports, Outcome(kind, current.len, 0))
  /\ stage' = "Idle"
  /\ UNCHANGED <<nameVars, queue, arrived, current, buffer, slice, reply, link, signals>>

(* It has one, no longer than the frame (WireInterface!RepliesFit).        *)
HasReply(len) ==
  /\ stage = "Received"
  /\ reply' = len
  /\ stage' = "Transmitting"
  /\ UNCHANGED <<nameVars, queue, arrived, current, buffer, slice, link, reports, signals>>

(* One write is one frame on the link.                                     *)
Sent(len) == [number |-> current.number, len |-> len, of |-> reply]

(* Mutant: what a partial write left over is written after it.             *)
RetryPartialWrite ==
  /\ stage = "Transmitting"
  /\ \E written \in 1 .. reply - 1 :
       link' = link \o <<Sent(written), Sent(reply - written)>>
  /\ stage' = "Idle"
  /\ UNCHANGED <<nameVars, queue, arrived, current, buffer, slice, reply, reports, signals>>

(* write takes a part of the frame: the device has sent a frame that is    *)
(* cut, and the error is not one that the loop goes on after.              *)
TransmitPartly ==
  /\ stage = "Transmitting"
  /\ \E written \in 0 .. reply - 1 :
       link' = IF written = 0 THEN link ELSE Append(link, Sent(written))
  /\ stage' = "Stopped"
  /\ UNCHANGED <<nameVars, queue, arrived, current, buffer, slice, reply, reports, signals>>

Transmit ==
  /\ stage = "Transmitting"
  /\ link' = Append(link, Sent(reply))
  /\ reports' = Append(reports, Outcome("ReplyTransmitted", current.len, reply))
  /\ stage' = "Idle"
  /\ UNCHANGED <<nameVars, queue, arrived, current, buffer, slice, reply, signals>>

TransmitFails == stage = "Transmitting" /\ Stop

(* Mutant: the observer is told of the reply all the same.                 *)
ReportInterrupted ==
  /\ stage = "Transmitting"
  /\ signals < MaxSignals
  /\ signals' = signals + 1
  /\ reports' = Append(reports, Outcome("ReplyTransmitted", current.len, reply))
  /\ stage' = "Idle"
  /\ UNCHANGED <<nameVars, queue, arrived, current, buffer, slice, reply, link>>

(* A signal interrupts write: the loop goes on, and the reply is lost.     *)
TransmitInterrupted ==
  /\ stage = "Transmitting"
  /\ signals < MaxSignals
  /\ signals' = signals + 1
  /\ stage' = "Idle"
  /\ UNCHANGED <<nameVars, queue, arrived, current, buffer, slice, reply, link, reports>>

RunOnce ==
  \/ Receive \/ ReceiveFails \/ ReceiveInterrupted
  \/ \E kind \in {"Ignored", "MalformedFrame"} : NoReply(kind)
  \/ \E len \in 1 .. current.len : HasReply(len)
  \/ Transmit \/ TransmitPartly \/ TransmitFails \/ TransmitInterrupted

Next ==
  \/ OpenFails
  \/ \E granted \in GrantedNames : Open(granted)
  \/ \E len \in Lengths : Arrive(len)
  \/ RunOnce

(* The loop is the only thread of the program and waits in read alone, and *)
(* there only while no frame is there; a read or write that fails need not *)
(* happen.                                                                 *)
Progress ==
  \/ Receive
  \/ \E kind \in {"Ignored", "MalformedFrame"} : NoReply(kind)
  \/ \E len \in 1 .. current.len : HasReply(len)
  \/ Transmit

Spec == Init /\ [][Next]_hostVars /\ WF_hostVars(Progress)
--------------------------------------------------------------------------------
(* The kernel acts on exactly the name that was asked for, never on a part *)
(* of it that names another device; and the program knows its device by    *)
(* the name the kernel gave.                                               *)
DeviceIsTheOneAskedFor ==
  named.granted # <<>> => named.seen = requested /\ name = named.granted

(* The interface is given the bytes of one frame, from its first on: none  *)
(* of an earlier one that is still in the buffer.                          *)
NoStaleBytes ==
  stage = "Received" => slice = [i \in 1 .. current.len |-> current.number]

(* One frame is sent for one reply at most; and if it could not be sent    *)
(* whole, it is the last thing the program does.                           *)
OneFramePerReply ==
  \A i \in DOMAIN link :
    /\ i > 1 => link[i - 1].number < link[i].number
    /\ link[i].len # link[i].of => i = Len(link) /\ stage = "Stopped"

(* The observer is told of a reply if and only if it was sent whole, once, *)
(* in the order they were sent, with the length that was sent.             *)
ReportsAreTruthful ==
  /\ \A i \in DOMAIN reports : i > 1 => reports[i - 1].number < reports[i].number
  /\ {<<r.number, r.transmitted>> :
        r \in {q \in ToSet(reports) : q.kind = "ReplyTransmitted"}}
     = {<<f.number, f.len>> : f \in {g \in ToSet(link) : g.len = g.of}}

(* A frame that has arrived is read in the end, unless the program stops.  *)
FramesAreRead ==
  \A n \in 1 .. MaxFrames :
    arrived >= n ~> current.number >= n \/ stage = "Stopped"
================================================================================
