------------------------------ MODULE TcpListener ------------------------------
(***************************************************************************)
(* The passive half of the TCP three-way handshake: the connection table   *)
(* of TcpListener and what TcpListener::receive_segment does to it.        *)
(*                                                                         *)
(* A segment carries the fields the listener reads.  The two local fields  *)
(* of a TcpConnectionKey are the same in every key and are left out, and   *)
(* so is the constant receive window of a SYN-ACK.  Sequence numbers keep  *)
(* their wrap-around, with SeqMod (2^32 in the code) a constant.           *)
(***************************************************************************)
EXTENDS Integers, FiniteSets

CONSTANTS
  RemoteIp,          \* addresses a segment may come from
  Port,              \* port numbers a segment may carry, 0 among them
  LocalPort,         \* the port the listener serves
  Capacity,          \* the size of the connection table
  InitialSequence,   \* the initial send sequence of the first connection
  SeqMod,            \* the number of sequence numbers
  FlagSets           \* the sets of control flags a segment may carry

Flag == {"FIN", "SYN", "RST", "PSH", "ACK", "URG", "ECE", "CWR"}

ASSUME SequenceAssumption ==
  /\ SeqMod \in Nat
  /\ SeqMod >= 2
  /\ InitialSequence \in Nat
  /\ InitialSequence < SeqMod

ASSUME ListenerAssumption ==
  /\ Capacity \in Nat
  /\ FlagSets \subseteq SUBSET Flag

(* Two connections of a full table get different numbers only while the    *)
(* table is not larger than the space of sequence numbers (64 and 2^32).   *)
ASSUME CapacityAssumption == Capacity <= SeqMod

VARIABLES
  connections,             \* HashMap<TcpConnectionKey, TcpConnection>
  next_initial_sequence,   \* the number the next connection will start from
  action                   \* the TcpAction of the last call

vars == <<connections, next_initial_sequence, action>>
--------------------------------------------------------------------------------
Sequence == 0 .. SeqMod - 1

(* Mutants of WrappingSucc: an addition that does not wrap, and one that   *)
(* saturates.                                                              *)
PlainSucc(n) == n + 1
SaturatingSucc(n) == IF n + 1 = SeqMod THEN n ELSE n + 1

(* u32::wrapping_add(1).                                                   *)
WrappingSucc(n) == IF n + 1 = SeqMod THEN 0 ELSE n + 1

Key == [remote_ip : RemoteIp, remote_port : Port \ {0}]

Connection ==
  [state                    : {"SynReceived", "Established"},
   initial_send_sequence    : Sequence,
   send_unacknowledged      : Sequence,
   send_next                : Sequence,
   initial_receive_sequence : Sequence,
   receive_next             : Sequence]

Segment ==
  [source_port            : Port,
   destination_port       : Port,
   sequence_number        : Sequence,
   acknowledgement_number : Sequence,
   flags                  : FlagSets,
   empty                  : BOOLEAN]     \* payload.is_empty()

NoReply == [reply |-> FALSE]

SendSynAck(key, connection) ==
  [reply                  |-> TRUE,
   key                    |-> key,
   sequence_number        |-> connection.initial_send_sequence,
   acknowledgement_number |-> connection.receive_next]

SynAck ==
  [reply                  : {TRUE},
   key                    : Key,
   sequence_number        : Sequence,
   acknowledgement_number : Sequence]
--------------------------------------------------------------------------------
(* What a segment must be to open a connection, and to complete one.       *)

(* Mutant: a SYN that acknowledges something opens a connection too.       *)
AcceptsAnySyn(s) == "SYN" \in s.flags /\ s.empty

AcceptsInitialSyn(s) ==
  /\ "SYN" \in s.flags
  /\ s.flags \cap {"ACK", "RST", "FIN", "PSH", "URG"} = {}
  /\ s.empty

AcceptsFinalAck(s) ==
  /\ "ACK" \in s.flags
  /\ s.flags \cap {"SYN", "RST", "FIN", "PSH", "URG"} = {}
  /\ s.empty

(* The port checks that receive_segment starts with.                       *)
Addressed(s) == s.destination_port = LocalPort /\ s.source_port # 0

KeyOf(ip, s) == [remote_ip |-> ip, remote_port |-> s.source_port]
--------------------------------------------------------------------------------
Init ==
  /\ connections = [k \in {} |-> {}]
  /\ next_initial_sequence = InitialSequence
  /\ action = NoReply

(* Mutant: the counter is advanced before it is used.                      *)
NewConnectionFromNext(s) ==
  [state                    |-> "SynReceived",
   initial_send_sequence    |-> WrappingSucc(next_initial_sequence),
   send_unacknowledged      |-> WrappingSucc(next_initial_sequence),
   send_next                |-> WrappingSucc(WrappingSucc(next_initial_sequence)),
   initial_receive_sequence |-> s.sequence_number,
   receive_next             |-> WrappingSucc(s.sequence_number)]

NewConnection(s) ==
  [state                    |-> "SynReceived",
   initial_send_sequence    |-> next_initial_sequence,
   send_unacknowledged      |-> next_initial_sequence,
   send_next                |-> WrappingSucc(next_initial_sequence),
   initial_receive_sequence |-> s.sequence_number,
   receive_next             |-> WrappingSucc(s.sequence_number)]

(* Mutants of OpensConnection: one entry too many, and a SYN that replaces *)
(* the connection of its key.                                              *)
OpensWhenFull(key, s) ==
  /\ AcceptsInitialSyn(s)
  /\ key \notin DOMAIN connections
  /\ Cardinality(DOMAIN connections) <= Capacity

OpensOverExisting(key, s) ==
  /\ AcceptsInitialSyn(s)
  /\ Cardinality(DOMAIN connections) < Capacity

(* receive_initial_syn for a key the table does not hold, with room in it. *)
OpensConnection(key, s) ==
  /\ AcceptsInitialSyn(s)
  /\ key \notin DOMAIN connections
  /\ Cardinality(DOMAIN connections) < Capacity

OpenConnection(key, s) ==
  /\ OpensConnection(key, s)
  /\ connections' = [k \in DOMAIN connections \cup {key} |->
                       IF k = key THEN NewConnection(s) ELSE connections[k]]
  /\ next_initial_sequence' = WrappingSucc(next_initial_sequence)
  /\ action' = SendSynAck(key, NewConnection(s))

(* Mutants of RepeatsSyn: no look at the state, and no answer at all.      *)
RepeatsSynInAnyState(key, s) ==
  /\ AcceptsInitialSyn(s)
  /\ key \in DOMAIN connections
  /\ s.sequence_number = connections[key].initial_receive_sequence

NeverRepeats(key, s) == FALSE

(* receive_initial_syn for a key the table holds: the SYN-ACK is repeated  *)
(* for a repeated SYN of a handshake that is not complete.                 *)
RepeatsSyn(key, s) ==
  /\ AcceptsInitialSyn(s)
  /\ key \in DOMAIN connections
  /\ connections[key].state = "SynReceived"
  /\ s.sequence_number = connections[key].initial_receive_sequence

ResendSynAck(key, s) ==
  /\ RepeatsSyn(key, s)
  /\ action' = SendSynAck(key, connections[key])
  /\ UNCHANGED <<connections, next_initial_sequence>>

(* Mutant: the number the segment acknowledges is not looked at.           *)
AcknowledgesAnyNumber(key, s) ==
  /\ AcceptsFinalAck(s)
  /\ key \in DOMAIN connections
  /\ connections[key].state = "SynReceived"
  /\ s.sequence_number = connections[key].receive_next

(* complete_handshake, past its early returns.                             *)
AcknowledgesSynAck(key, s) ==
  /\ AcceptsFinalAck(s)
  /\ key \in DOMAIN connections
  /\ connections[key].state = "SynReceived"
  /\ s.sequence_number = connections[key].receive_next
  /\ s.acknowledgement_number = connections[key].send_next

(* Mutant: send_unacknowledged is not moved.                               *)
OnlyEstablished(connection, acknowledgement_number) ==
  [connection EXCEPT !.state = "Established"]

Completed(connection, acknowledgement_number) ==
  [connection EXCEPT !.send_unacknowledged = acknowledgement_number,
                     !.state = "Established"]

CompleteHandshake(key, s) ==
  /\ AcknowledgesSynAck(key, s)
  /\ connections' =
       [connections EXCEPT ![key] = Completed(@, s.acknowledgement_number)]
  /\ action' = NoReply
  /\ UNCHANGED next_initial_sequence

(* Every early return: the wrong port, the wrong flags, a SYN that finds   *)
(* the table full or a different or complete connection under its key, an  *)
(* ACK of no connection or with other numbers.                             *)
IgnoreSegment(key, s) ==
  /\ Addressed(s) => /\ ~ OpensConnection(key, s)
                     /\ ~ RepeatsSyn(key, s)
                     /\ ~ AcknowledgesSynAck(key, s)
  /\ action' = NoReply
  /\ UNCHANGED <<connections, next_initial_sequence>>

ReceiveSegment(ip, s) ==
  \/ Addressed(s) /\ OpenConnection(KeyOf(ip, s), s)
  \/ Addressed(s) /\ ResendSynAck(KeyOf(ip, s), s)
  \/ Addressed(s) /\ CompleteHandshake(KeyOf(ip, s), s)
  \/ IgnoreSegment(KeyOf(ip, s), s)

Next == \E ip \in RemoteIp, s \in Segment : ReceiveSegment(ip, s)

Spec == Init /\ [][Next]_vars
--------------------------------------------------------------------------------
(* Every table entry and every answer has the fields and ranges of the     *)
(* code's types.                                                           *)
TypeOK ==
  /\ DOMAIN connections \subseteq Key
  /\ \A k \in DOMAIN connections : connections[k] \in Connection
  /\ connections = [k \in DOMAIN connections |-> connections[k]]
  /\ next_initial_sequence \in Sequence
  /\ action \in SynAck \cup {NoReply}

(* The six numbers of a connection always tell one story, through the      *)
(* wrap-around too: what is sent next follows the number chosen here, what *)
(* is expected next follows the peer's, and nothing this side sent is      *)
(* unacknowledged exactly when the handshake is complete.                  *)
ConsistentNumbers ==
  \A k \in DOMAIN connections :
    LET c == connections[k] IN
      /\ c.send_next = WrappingSucc(c.initial_send_sequence)
      /\ c.receive_next = WrappingSucc(c.initial_receive_sequence)
      /\ c.send_unacknowledged = IF c.state = "Established"
                                 THEN c.send_next
                                 ELSE c.initial_send_sequence

(* The table never grows beyond its capacity, whatever order SYNs of new   *)
(* and of known peers arrive in.                                           *)
CapacityRespected ==
  /\ IsFiniteSet(DOMAIN connections)
  /\ Cardinality(DOMAIN connections) <= Capacity

(* No two connections are given the same initial send sequence, even when  *)
(* next_initial_sequence has wrapped around: an ACK of one connection can  *)
(* never carry the number another one waits for.                           *)
DistinctInitialSequences ==
  \A j, k \in DOMAIN connections :
    connections[j].initial_send_sequence = connections[k].initial_send_sequence
      => j = k

(* How far a sequence number lies from the first one issued.               *)
Distance(n) == IF n >= InitialSequence
               THEN n - InitialSequence
               ELSE n - InitialSequence + SeqMod

(* Why they are distinct: the table has been given as many numbers as it   *)
(* has entries, the first of them InitialSequence and one after the other, *)
(* and the next one to give follows them (or has come round to the first). *)
IssuedInOrder ==
  LET given == Cardinality(DOMAIN connections) IN
    /\ given < SeqMod => Distance(next_initial_sequence) = given
    /\ \A k \in DOMAIN connections :
         Distance(connections[k].initial_send_sequence) < given

(* A SYN-ACK is only ever sent for a handshake in progress, and offers the *)
(* numbers the table holds: a repeated SYN is answered as the first was.   *)
AnswersMatchTable ==
  action.reply =>
    /\ action.key \in DOMAIN connections
    /\ connections[action.key].state = "SynReceived"
    /\ action = SendSynAck(action.key, connections[action.key])

(* The table seen as a PassiveOpen: which peers are accepted, under which  *)
(* numbers, and which of them have confirmed.                              *)
Accepted ==
  [k \in DOMAIN connections |->
     [peer_isn |-> connections[k].initial_receive_sequence,
      own_isn  |-> connections[k].initial_send_sequence,
      state    |-> IF connections[k].state = "Established"
                   THEN "Confirmed"
                   ELSE "Offered"]]

Opened == INSTANCE PassiveOpen WITH accepted <- Accepted, Peer <- Key

(* Every step of the listener accepts one new peer under a fresh number,   *)
(* confirms one accepted peer, or leaves the accepted peers as they were.  *)
ImplementsPassiveOpen == Opened!Spec
================================================================================
