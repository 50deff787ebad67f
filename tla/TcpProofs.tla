------------------------------- MODULE TcpProofs -------------------------------
(***************************************************************************)
(* Proofs about TcpListener, for every set of addresses and ports, every   *)
(* capacity up to the number of sequence numbers and every initial         *)
(* sequence number.                                                        *)
(*                                                                         *)
(* The argument: TypeOK is inductive by itself, and so is CapacityRespected*)
(* with it.  That initial sequence numbers stay distinct is not: it needs  *)
(* IssuedInOrder, which places every issued number before the next one on  *)
(* a circle of SeqMod numbers that a table of Capacity <= SeqMod entries   *)
(* cannot close.                                                           *)
(***************************************************************************)
EXTENDS Handshake, FiniteSetTheorems, TLAPS

(* WrappingSucc stays within the sequence numbers.                         *)
LEMMA WrappingSuccType == \A n \in Sequence : WrappingSucc(n) \in Sequence
  BY SequenceAssumption DEF Sequence, WrappingSucc

(* WrappingSucc is injective: two numbers with one successor are equal.    *)
LEMMA WrappingSuccInjective ==
  \A m, n \in Sequence : WrappingSucc(m) = WrappingSucc(n) => m = n
  BY SequenceAssumption DEF Sequence, WrappingSucc

(* One number after n lies one further from InitialSequence, short of a    *)
(* full round.                                                             *)
LEMMA DistanceSucc ==
  \A n \in Sequence :
    /\ Distance(n) \in Nat
    /\ Distance(n) < SeqMod
    /\ Distance(n) + 1 < SeqMod => Distance(WrappingSucc(n)) = Distance(n) + 1
  BY SequenceAssumption DEF Sequence, WrappingSucc, Distance

--------------------------------------------------------------------------------
(* The initial state is well typed.                                        *)
LEMMA InitTypeOK == Init => TypeOK
  BY SequenceAssumption DEF Init, TypeOK, Sequence, NoReply

(* The key of an addressed segment is a key of the table's type.           *)
LEMMA KeyOfType ==
  ASSUME NEW ip \in RemoteIp, NEW s \in Segment, Addressed(s)
  PROVE  KeyOf(ip, s) \in Key
  BY DEF Segment, Addressed, KeyOf, Key

(* Completing a connection sets two of its fields and keeps the others.    *)
LEMMA CompletedFields ==
  ASSUME NEW c \in Connection, NEW n
  PROVE  LET d == Completed(c, n) IN
         /\ d.initial_send_sequence = c.initial_send_sequence
         /\ d.initial_receive_sequence = c.initial_receive_sequence
         /\ d.send_next = c.send_next
         /\ d.receive_next = c.receive_next
         /\ d.send_unacknowledged = n
         /\ d.state = "Established"
         /\ n \in Sequence => d \in Connection
  BY DEF Completed, Connection

(* Every call of receive_segment keeps the types.                          *)
LEMMA NextTypeOK == TypeOK /\ [Next]_vars => TypeOK'
<1> SUFFICES ASSUME TypeOK, [Next]_vars
             PROVE  TypeOK'
  OBVIOUS
<1>1. CASE UNCHANGED vars
  BY <1>1 DEF vars, TypeOK
<1>2. ASSUME NEW ip \in RemoteIp, NEW s \in Segment, ReceiveSegment(ip, s)
      PROVE  TypeOK'
  <2> DEFINE key == KeyOf(ip, s)
  <2>1. CASE Addressed(s) /\ OpenConnection(key, s)
    <3>1. key \in Key
      BY <2>1, KeyOfType
    <3>2. NewConnection(s) \in Connection
      BY WrappingSuccType DEF TypeOK, NewConnection, Connection, Segment
    <3>3. SendSynAck(key, NewConnection(s)) \in SynAck
      BY <3>1, <3>2 DEF SendSynAck, SynAck, Connection
    <3> HIDE DEF key
    <3> QED
      BY <2>1, <3>1, <3>2, <3>3, WrappingSuccType DEF OpenConnection, TypeOK
  <2>2. CASE Addressed(s) /\ ResendSynAck(key, s)
    <3>1. key \in Key
      BY <2>2, KeyOfType
    <3>2. connections[key] \in Connection
      BY <2>2 DEF ResendSynAck, RepeatsSyn, TypeOK
    <3>3. SendSynAck(key, connections[key]) \in SynAck
      BY <3>1, <3>2 DEF SendSynAck, SynAck, Connection
    <3> QED
      BY <2>2, <3>3 DEF ResendSynAck, TypeOK
  <2>3. CASE Addressed(s) /\ CompleteHandshake(key, s)
    <3>1. connections[key] \in Connection /\ key \in DOMAIN connections
      BY <2>3 DEF CompleteHandshake, AcknowledgesSynAck, TypeOK
    <3> HIDE DEF key
    <3>2. connections' = [k \in DOMAIN connections |->
                            IF k = key
                            THEN Completed(connections[key], s.acknowledgement_number)
                            ELSE connections[k]]
      BY <2>3, <3>1 DEF CompleteHandshake, TypeOK
    <3>3. Completed(connections[key], s.acknowledgement_number) \in Connection
      BY <3>1, CompletedFields DEF Segment
    <3> QED
      BY <2>3, <3>2, <3>3 DEF CompleteHandshake, TypeOK
  <2>4. CASE IgnoreSegment(key, s)
    BY <2>4 DEF IgnoreSegment, TypeOK
  <2> QED
    BY <1>2, <2>1, <2>2, <2>3, <2>4 DEF ReceiveSegment
<1> QED
  BY <1>1, <1>2 DEF Next

(* Whatever segments arrive, the table, the counter and the answers keep   *)
(* their types: TcpListener's state, under every constant.                 *)
THEOREM TypeCorrect == Spec => []TypeOK
<1>1. Init => TypeOK
  BY InitTypeOK
<1>2. TypeOK /\ [Next]_vars => TypeOK'
  BY NextTypeOK
<1> QED
  BY <1>1, <1>2, PTL DEF Spec
--------------------------------------------------------------------------------
(* What a call does to the table, said once for all the proofs below.      *)

(* Opening a connection adds its key and leaves the other entries alone.   *)
LEMMA OpenAddsKey ==
  ASSUME NEW key, NEW s, TypeOK, CapacityRespected, OpenConnection(key, s)
  PROVE  /\ DOMAIN connections' = DOMAIN connections \cup {key}
         /\ connections'[key] = NewConnection(s)
         /\ \A k \in DOMAIN connections : connections'[k] = connections[k]
         /\ IsFiniteSet(DOMAIN connections')
         /\ Cardinality(DOMAIN connections) \in Nat
         /\ Cardinality(DOMAIN connections') = Cardinality(DOMAIN connections) + 1
<1>1. /\ connections' = [k \in DOMAIN connections \cup {key} |->
                           IF k = key THEN NewConnection(s) ELSE connections[k]]
      /\ key \notin DOMAIN connections
  BY DEF OpenConnection, OpensConnection
<1>2. DOMAIN connections' = DOMAIN connections \cup {key}
  BY <1>1
<1>3. IsFiniteSet(DOMAIN connections)
  BY DEF CapacityRespected
<1> QED
  BY <1>1, <1>2, <1>3, FS_AddElement, FS_CardinalityType

(* Completing a handshake keeps the keys; the entry it completes keeps its *)
(* initial numbers, and the other entries are left alone.                  *)
LEMMA CompleteKeepsKeys ==
  ASSUME NEW key, NEW s, TypeOK, CompleteHandshake(key, s)
  PROVE  /\ DOMAIN connections' = DOMAIN connections
         /\ key \in DOMAIN connections
         /\ \A k \in DOMAIN connections :
              k # key => connections'[k] = connections[k]
         /\ connections'[key].initial_send_sequence
              = connections[key].initial_send_sequence
         /\ connections'[key].initial_receive_sequence
              = connections[key].initial_receive_sequence
         /\ connections'[key].send_next = connections[key].send_next
         /\ connections'[key].receive_next = connections[key].receive_next
         /\ connections'[key].send_unacknowledged = s.acknowledgement_number
         /\ connections'[key].state = "Established"
<1>1. /\ connections' =
           [connections EXCEPT ![key] = Completed(@, s.acknowledgement_number)]
      /\ key \in DOMAIN connections
      /\ connections[key] \in Connection
      /\ connections = [k \in DOMAIN connections |-> connections[k]]
  BY DEF CompleteHandshake, AcknowledgesSynAck, TypeOK
<1>2. /\ DOMAIN connections' = DOMAIN connections
      /\ \A k \in DOMAIN connections :
           k # key => connections'[k] = connections[k]
      /\ connections'[key] = Completed(connections[key], s.acknowledgement_number)
  BY <1>1
<1> QED
  BY <1>1, <1>2, CompletedFields

--------------------------------------------------------------------------------
(* The invariants that depend on each other, and nothing else.             *)
TableInv ==
  /\ TypeOK
  /\ CapacityRespected
  /\ ConsistentNumbers
  /\ IssuedInOrder
  /\ DistinctInitialSequences
  /\ AnswersMatchTable

(* An empty table satisfies all of them.                                   *)
LEMMA InitTableInv == Init => TableInv
<1> SUFFICES ASSUME Init PROVE TableInv
  OBVIOUS
<1>1. DOMAIN connections = {}
  BY DEF Init
<1>2. Cardinality(DOMAIN connections) = 0 /\ IsFiniteSet(DOMAIN connections)
  BY <1>1, FS_EmptySet
<1>3. CapacityRespected
  BY <1>2, ListenerAssumption DEF CapacityRespected
<1>4. IssuedInOrder
  BY <1>1, <1>2, SequenceAssumption DEF Init, IssuedInOrder, Distance
<1> QED
  BY <1>1, <1>3, <1>4, InitTypeOK
  DEF Init, TableInv, ConsistentNumbers, DistinctInitialSequences,
      AnswersMatchTable, NoReply

(* Opening a connection preserves them: the number it gives lies further   *)
(* from InitialSequence than every number given before.                    *)
LEMMA OpenTableInv ==
  ASSUME NEW key, NEW s, TableInv, TypeOK', OpenConnection(key, s)
  PROVE  TableInv'
<1> DEFINE given == Cardinality(DOMAIN connections)
<1>1. /\ DOMAIN connections' = DOMAIN connections \cup {key}
      /\ connections'[key] = NewConnection(s)
      /\ \A k \in DOMAIN connections : connections'[k] = connections[k]
      /\ IsFiniteSet(DOMAIN connections')
      /\ given \in Nat
      /\ Cardinality(DOMAIN connections') = given + 1
  BY OpenAddsKey DEF TableInv
<1>2. given < Capacity /\ given < SeqMod
  BY <1>1, SequenceAssumption, ListenerAssumption, CapacityAssumption
  DEF OpenConnection, OpensConnection
<1>3. CapacityRespected'
  BY <1>1, <1>2, ListenerAssumption DEF CapacityRespected
<1>4. /\ next_initial_sequence \in Sequence
      /\ next_initial_sequence' = WrappingSucc(next_initial_sequence)
      /\ NewConnection(s).initial_send_sequence = next_initial_sequence
  BY DEF TableInv, TypeOK, OpenConnection, NewConnection
<1>5. /\ Distance(next_initial_sequence) = given
      /\ \A k \in DOMAIN connections :
           Distance(connections[k].initial_send_sequence) < given
  BY <1>2 DEF TableInv, IssuedInOrder
<1>6. \A k \in DOMAIN connections :
        /\ connections[k].initial_send_sequence \in Sequence
        /\ Distance(connections[k].initial_send_sequence) \in Nat
  BY DistanceSucc DEF TableInv, TypeOK, Connection
<1>7. IssuedInOrder'
  <2>1. given + 1 < SeqMod => Distance(WrappingSucc(next_initial_sequence)) = given + 1
    BY <1>4, <1>5, DistanceSucc
  <2>2. \A k \in DOMAIN connections' :
          Distance(connections'[k].initial_send_sequence) < given + 1
    <3> HIDE DEF given
    <3> QED
      BY <1>1, <1>4, <1>5, <1>6
  <2> QED
    BY <1>1, <1>4, <2>1, <2>2 DEF IssuedInOrder, Distance
<1>8. DistinctInitialSequences'
  <2>1. \A k \in DOMAIN connections :
          connections[k].initial_send_sequence # next_initial_sequence
    <3> HIDE DEF given
    <3> QED
      BY <1>1, <1>5, <1>6
  <2>2. \A j, k \in DOMAIN connections :
          connections[j].initial_send_sequence = connections[k].initial_send_sequence
            => j = k
    BY DEF TableInv, DistinctInitialSequences
  <2> QED
    BY <1>1, <1>4, <2>1, <2>2 DEF DistinctInitialSequences
<1>9. ConsistentNumbers'
  <2>1. \A k \in DOMAIN connections :
          LET c == connections[k] IN
            /\ c.send_next = WrappingSucc(c.initial_send_sequence)
            /\ c.receive_next = WrappingSucc(c.initial_receive_sequence)
            /\ c.send_unacknowledged = IF c.state = "Established"
                                       THEN c.send_next
                                       ELSE c.initial_send_sequence
    BY DEF TableInv, ConsistentNumbers
  <2> QED
    BY <1>1, <2>1 DEF ConsistentNumbers, NewConnection, WrappingSucc
<1>10. AnswersMatchTable'
  <2>1. action' = SendSynAck(key, NewConnection(s))
    BY DEF OpenConnection
  <2>2. action'.key = key
    BY <2>1 DEF SendSynAck
  <2>3. /\ key \in DOMAIN connections'
        /\ connections'[key] = NewConnection(s)
    BY <1>1
  <2>4. NewConnection(s).state = "SynReceived"
    BY DEF NewConnection
  <2>5. SendSynAck(key, NewConnection(s)) = SendSynAck(key, connections'[key])
    BY <2>3
  <2> QED
    BY <2>1, <2>2, <2>3, <2>4, <2>5 DEF AnswersMatchTable, SendSynAck
<1> QED
  BY <1>3, <1>7, <1>8, <1>9, <1>10 DEF TableInv

(* Completing a handshake preserves them: it moves no initial number.      *)
LEMMA CompleteTableInv ==
  ASSUME NEW key, NEW s, TableInv, TypeOK', CompleteHandshake(key, s)
  PROVE  TableInv'
<1>1. /\ DOMAIN connections' = DOMAIN connections
      /\ key \in DOMAIN connections
      /\ \A k \in DOMAIN connections : k # key => connections'[k] = connections[k]
      /\ connections'[key].initial_send_sequence
           = connections[key].initial_send_sequence
      /\ connections'[key].initial_receive_sequence
           = connections[key].initial_receive_sequence
      /\ connections'[key].send_next = connections[key].send_next
      /\ connections'[key].receive_next = connections[key].receive_next
      /\ connections'[key].send_unacknowledged = s.acknowledgement_number
      /\ connections'[key].state = "Established"
  BY CompleteKeepsKeys DEF TableInv
<1>2. /\ next_initial_sequence' = next_initial_sequence
      /\ action' = NoReply
      /\ s.acknowledgement_number = connections[key].send_next
  BY DEF CompleteHandshake, AcknowledgesSynAck
<1>3. \A k \in DOMAIN connections :
        connections'[k].initial_send_sequence = connections[k].initial_send_sequence
  BY <1>1
<1>4. CapacityRespected'
  BY <1>1 DEF TableInv, CapacityRespected
<1>5. IssuedInOrder'
  BY <1>1, <1>2, <1>3 DEF TableInv, IssuedInOrder, Distance
<1>6. DistinctInitialSequences'
  BY <1>1, <1>3 DEF TableInv, DistinctInitialSequences
<1>7. ConsistentNumbers'
  BY <1>1, <1>2 DEF TableInv, ConsistentNumbers, WrappingSucc
<1>8. AnswersMatchTable'
  BY <1>2 DEF AnswersMatchTable, NoReply
<1> QED
  BY <1>4, <1>5, <1>6, <1>7, <1>8 DEF TableInv

(* Every call preserves them.                                              *)
LEMMA NextTableInv == TableInv /\ [Next]_vars => TableInv'
<1> SUFFICES ASSUME TableInv, [Next]_vars
             PROVE  TableInv'
  OBVIOUS
<1>1. TypeOK'
  BY NextTypeOK DEF TableInv
<1>2. CASE UNCHANGED vars
  BY <1>2 DEF vars, TableInv, TypeOK, CapacityRespected, ConsistentNumbers,
              IssuedInOrder, DistinctInitialSequences, AnswersMatchTable
<1>3. ASSUME NEW ip \in RemoteIp, NEW s \in Segment, ReceiveSegment(ip, s)
      PROVE  TableInv'
  <2> DEFINE key == KeyOf(ip, s)
  <2>1. CASE OpenConnection(key, s)
    BY <1>1, <2>1, OpenTableInv
  <2>2. CASE CompleteHandshake(key, s)
    BY <1>1, <2>2, CompleteTableInv
  <2>3. CASE ResendSynAck(key, s)
    <3>1. /\ UNCHANGED <<connections, next_initial_sequence>>
          /\ key \in DOMAIN connections
          /\ connections[key].state = "SynReceived"
          /\ action' = SendSynAck(key, connections[key])
      BY <2>3 DEF ResendSynAck, RepeatsSyn
    <3>2. AnswersMatchTable'
      BY <3>1 DEF AnswersMatchTable, SendSynAck
    <3> HIDE DEF key
    <3> QED
      BY <1>1, <3>1, <3>2
      DEF TableInv, CapacityRespected, ConsistentNumbers, IssuedInOrder,
          DistinctInitialSequences
  <2>4. CASE IgnoreSegment(key, s)
    <3>1. /\ UNCHANGED <<connections, next_initial_sequence>>
          /\ action' = NoReply
      BY <2>4 DEF IgnoreSegment
    <3> QED
      BY <1>1, <3>1
      DEF TableInv, CapacityRespected, ConsistentNumbers, IssuedInOrder,
          DistinctInitialSequences, AnswersMatchTable, NoReply
  <2> QED
    BY <1>3, <2>1, <2>2, <2>3, <2>4 DEF ReceiveSegment
<1> QED
  BY <1>2, <1>3 DEF Next

(* In every run of the listener the whole of TableInv holds.               *)
THEOREM TableInvariant == Spec => []TableInv
<1> QED
  BY InitTableInv, NextTableInv, PTL DEF Spec

(* The table never outgrows its capacity.                                  *)
THEOREM CapacityIsRespected == Spec => []CapacityRespected
<1>1. TableInv => CapacityRespected
  BY DEF TableInv
<1> QED
  BY <1>1, TableInvariant, PTL

(* No two connections ever share an initial send sequence, wherever on the *)
(* circle of sequence numbers the listener started.                        *)
THEOREM InitialSequencesDistinct == Spec => []DistinctInitialSequences
<1>1. TableInv => DistinctInitialSequences
  BY DEF TableInv
<1> QED
  BY <1>1, TableInvariant, PTL

(* The numbers given so far follow one another from the first, through the *)
(* wrap-around, one for each entry, and the next one to give comes after.  *)
THEOREM SequencesIssuedInOrder == Spec => []IssuedInOrder
<1>1. TableInv => IssuedInOrder
  BY DEF TableInv
<1> QED
  BY <1>1, TableInvariant, PTL

(* A connection's numbers agree with each other and with its state.        *)
THEOREM NumbersConsistent == Spec => []ConsistentNumbers
<1>1. TableInv => ConsistentNumbers
  BY DEF TableInv
<1> QED
  BY <1>1, TableInvariant, PTL

(* A SYN-ACK always offers the numbers of a handshake in progress.         *)
THEOREM AnswersAreConsistent == Spec => []AnswersMatchTable
<1>1. TableInv => AnswersMatchTable
  BY DEF TableInv
<1> QED
  BY <1>1, TableInvariant, PTL
--------------------------------------------------------------------------------
(* The listener implements PassiveOpen.                                    *)

(* Opening a connection accepts a peer, under a number no other peer has.  *)
LEMMA OpenIsAccept ==
  ASSUME NEW key, NEW s, TableInv, TableInv', OpenConnection(key, s)
  PROVE  Opened!Accept(key, s.sequence_number, next_initial_sequence)
<1>1. /\ DOMAIN connections' = DOMAIN connections \cup {key}
      /\ connections'[key] = NewConnection(s)
      /\ \A k \in DOMAIN connections : connections'[k] = connections[k]
  BY OpenAddsKey DEF TableInv
<1>2. /\ key \notin DOMAIN connections
      /\ Cardinality(DOMAIN connections) < Capacity
  BY DEF OpenConnection, OpensConnection
<1>3. \A k \in DOMAIN connections :
        connections[k].initial_send_sequence # next_initial_sequence
  BY <1>1, <1>2 DEF TableInv, DistinctInitialSequences, NewConnection
<1>4. DOMAIN Accepted = DOMAIN connections
  BY DEF Accepted
<1>5. Accepted' = [k \in DOMAIN Accepted \cup {key} |->
                     IF k = key
                     THEN [peer_isn  |-> s.sequence_number,
                           own_isn   |-> next_initial_sequence,
                           state     |-> "Offered"]
                     ELSE Accepted[k]]
  <2>1. DOMAIN Accepted' = DOMAIN Accepted \cup {key}
    BY <1>1, <1>4 DEF Accepted
  <2>2. Accepted'[key] = [peer_isn  |-> s.sequence_number,
                          own_isn   |-> next_initial_sequence,
                          state     |-> "Offered"]
    BY <1>1 DEF Accepted, NewConnection
  <2>3. \A k \in DOMAIN Accepted : Accepted'[k] = Accepted[k] /\ k # key
    BY <1>1, <1>2, <1>4 DEF Accepted
  <2>4. Accepted' = [k \in DOMAIN Accepted' |-> Accepted'[k]]
    BY DEF Accepted
  <2> QED
    BY <2>1, <2>2, <2>3, <2>4
<1>6. Opened!Cardinality(DOMAIN Accepted) = Cardinality(DOMAIN connections)
  BY <1>4 DEF Opened!Cardinality, Cardinality
<1> QED
  BY <1>2, <1>3, <1>4, <1>5, <1>6 DEF Opened!Accept, Accepted

(* Completing a handshake confirms an accepted peer.                       *)
LEMMA CompleteIsConfirm ==
  ASSUME NEW key, NEW s, TypeOK, CompleteHandshake(key, s)
  PROVE  Opened!Confirm(key)
<1>1. /\ DOMAIN connections' = DOMAIN connections
      /\ key \in DOMAIN connections
      /\ connections[key].state = "SynReceived"
      /\ \A k \in DOMAIN connections : k # key => connections'[k] = connections[k]
      /\ connections'[key].initial_send_sequence
           = connections[key].initial_send_sequence
      /\ connections'[key].initial_receive_sequence
           = connections[key].initial_receive_sequence
      /\ connections'[key].state = "Established"
  BY CompleteKeepsKeys DEF CompleteHandshake, AcknowledgesSynAck
<1>2. /\ DOMAIN Accepted = DOMAIN connections
      /\ Accepted[key] =
           [peer_isn  |-> connections[key].initial_receive_sequence,
            own_isn   |-> connections[key].initial_send_sequence,
            state     |-> "Offered"]
  BY <1>1 DEF Accepted
<1>3. Accepted' = [k \in DOMAIN Accepted |->
                     IF k = key
                     THEN [peer_isn  |-> connections[key].initial_receive_sequence,
                           own_isn   |-> connections[key].initial_send_sequence,
                           state     |-> "Confirmed"]
                     ELSE Accepted[k]]
  BY <1>1, <1>2 DEF Accepted
<1>4. Accepted' = [Accepted EXCEPT ![key] = [@ EXCEPT !.state = "Confirmed"]]
  BY <1>1, <1>2, <1>3 DEF Accepted
<1> QED
  BY <1>1, <1>2, <1>4 DEF Opened!Confirm

(* Every call of receive_segment is a step of PassiveOpen or leaves the    *)
(* accepted peers as they were.                                            *)
LEMMA NextIsOpenedNext ==
  TableInv /\ TableInv' /\ [Next]_vars => [Opened!Next]_Accepted
<1> SUFFICES ASSUME TableInv, TableInv', [Next]_vars
             PROVE  [Opened!Next]_Accepted
  OBVIOUS
<1>1. CASE UNCHANGED connections
  BY <1>1 DEF Accepted
<1>2. ASSUME NEW ip \in RemoteIp, NEW s \in Segment, ReceiveSegment(ip, s)
      PROVE  [Opened!Next]_Accepted
  <2> DEFINE key == KeyOf(ip, s)
  <2>1. CASE Addressed(s) /\ OpenConnection(key, s)
    <3>1. key \in Key /\ s.sequence_number \in Sequence
      BY <2>1, KeyOfType DEF Segment
    <3>2. next_initial_sequence \in Sequence
      BY DEF TableInv, TypeOK
    <3>3. Opened!Accept(key, s.sequence_number, next_initial_sequence)
      BY <2>1, OpenIsAccept
    <3> QED
      BY <3>1, <3>2, <3>3 DEF Opened!Next
  <2>2. CASE Addressed(s) /\ CompleteHandshake(key, s)
    <3>1. key \in Key
      BY <2>2, KeyOfType
    <3>2. Opened!Confirm(key)
      BY <2>2, CompleteIsConfirm DEF TableInv
    <3> QED
      BY <3>1, <3>2 DEF Opened!Next
  <2>3. CASE Addressed(s) /\ ResendSynAck(key, s)
    BY <2>3, <1>1 DEF ResendSynAck
  <2>4. CASE IgnoreSegment(key, s)
    BY <2>4, <1>1 DEF IgnoreSegment
  <2> QED
    BY <1>2, <2>1, <2>2, <2>3, <2>4 DEF ReceiveSegment
<1> QED
  BY <1>1, <1>2 DEF Next, vars

(* Whatever segments arrive, the listener does no more than PassiveOpen    *)
(* allows: it accepts each peer once, under a fresh number, while there is *)
(* room, confirms it at most once, and never forgets or renumbers it.      *)
THEOREM ListenerImplementsPassiveOpen == Spec => ImplementsPassiveOpen
<1>1. Init => Opened!Init
  BY DEF Init, Opened!Init, Accepted
<1>2. TableInv /\ TableInv' /\ [Next]_vars => [Opened!Next]_Accepted
  BY NextIsOpenedNext
<1> QED
  BY <1>1, <1>2, TableInvariant, PTL DEF Spec, Opened!Spec, ImplementsPassiveOpen
--------------------------------------------------------------------------------
(***************************************************************************)
(* Proofs about Handshake, for every number of peers and restarts, with    *)
(* messages lost, duplicated and reordered.                                *)
(*                                                                         *)
(* The argument for EstablishedWasAcknowledged: every ACK in the network   *)
(* carries numbers its sender has acknowledged (AcksWereSent), and the     *)
(* listener compares both of them with numbers that determine the pair it  *)
(* has stored, because WrappingSucc is injective.                          *)
(* The argument for OneOfferPerPeer and PeersAgree: what has been offered  *)
(* is what the table holds (OffersMatchTable), and the table gives every   *)
(* key one pair of numbers and every number to one key.                    *)
(***************************************************************************)

HInv ==
  /\ HTypeOK
  /\ TableInv
  /\ AcksWereSent
  /\ PeerHasAcked
  /\ EstablishedWasAcknowledged
  /\ OffersMatchTable
  /\ PeersAgree

(* 0 is a sequence number.                                                 *)
LEMMA ZeroType == 0 \in Sequence
  BY SequenceAssumption DEF Sequence

(* The parts of a message from a peer.                                     *)
LEMMA MessageParts ==
  ASSUME NEW k \in Key, NEW isn \in Sequence, NEW iss \in Sequence
  PROVE  /\ Syn(k, isn).from = k
         /\ Syn(k, isn).segment \in Segment
         /\ Syn(k, isn).segment.flags = {"SYN"}
         /\ Ack(k, isn, iss).from = k
         /\ Ack(k, isn, iss).segment \in Segment
         /\ Ack(k, isn, iss).segment.flags = {"ACK"}
         /\ Ack(k, isn, iss).segment.sequence_number = WrappingSucc(isn)
         /\ Ack(k, isn, iss).segment.acknowledgement_number = WrappingSucc(iss)
         /\ KeyOf(k.remote_ip, Syn(k, isn).segment) = k
         /\ KeyOf(k.remote_ip, Ack(k, isn, iss).segment) = k
<1>1. WrappingSucc(isn) \in Sequence /\ WrappingSucc(iss) \in Sequence
  BY WrappingSuccType
<1>2. k.remote_port \in Port /\ k = [remote_ip |-> k.remote_ip, remote_port |-> k.remote_port]
  BY DEF Key
<1> QED
  BY <1>1, <1>2, ZeroType, PeerAssumption DEF Syn, Ack, Segment, KeyOf

(* A message from a peer is a SYN or an ACK, and carries a segment of its  *)
(* sender.                                                                 *)
LEMMA MessageType ==
  ASSUME NEW m \in Message
  PROVE  /\ m.from \in Key
         /\ m.from.remote_ip \in RemoteIp
         /\ m.segment \in Segment
         /\ KeyOf(m.from.remote_ip, m.segment) = m.from
<1>1. CASE \E k \in Key, isn \in Sequence : m = Syn(k, isn)
  BY <1>1, ZeroType, MessageParts DEF Key
<1>2. CASE \E k \in Key, isn, iss \in Sequence : m = Ack(k, isn, iss)
  BY <1>2, MessageParts DEF Key
<1> QED
  BY <1>1, <1>2 DEF Message

(* A SYN is not an ACK, and an ACK determines its sender and both numbers. *)
LEMMA AcksDiffer ==
  ASSUME NEW j \in Key, NEW m \in Sequence, NEW n \in Sequence,
         NEW k \in Key, NEW isn \in Sequence, NEW iss \in Sequence
  PROVE  /\ Ack(j, m, n) # Syn(k, isn)
         /\ Ack(j, m, n) = Ack(k, isn, iss) => j = k /\ m = isn /\ n = iss
<1>1. Ack(j, m, n) # Syn(k, isn)
  <2>1. Ack(j, m, n).segment.flags = {"ACK"}
    BY MessageParts
  <2>2. Syn(k, isn).segment.flags = {"SYN"}
    BY ZeroType, MessageParts
  <2>3. {"ACK"} # {"SYN"}
    OBVIOUS
  <2> QED
    BY <2>1, <2>2, <2>3
<1>2. ASSUME Ack(j, m, n) = Ack(k, isn, iss)
      PROVE  j = k /\ m = isn /\ n = iss
  BY <1>2, MessageParts, WrappingSuccInjective
<1> QED
  BY <1>1, <1>2
--------------------------------------------------------------------------------
(* The initial state satisfies the invariant.                              *)
LEMMA InitHInv == HInit => HInv
<1> SUFFICES ASSUME HInit PROVE HInv
  OBVIOUS
<1>1. TableInv
  BY InitTableInv DEF HInit
<1>2. DOMAIN connections = {}
  BY DEF HInit, Init
<1>3. HTypeOK
  BY <1>1, ZeroType DEF HInit, HTypeOK, TableInv, Client
<1> QED
  BY <1>1, <1>2, <1>3
  DEF HInit, HInv, AcksWereSent, PeerHasAcked, EstablishedWasAcknowledged,
      OffersMatchTable, PeersAgree

(* A step that leaves the listener's variables alone leaves its invariant. *)
LEMMA ListenerUnchanged ==
  ASSUME TableInv, UNCHANGED vars
  PROVE  TableInv'
  BY NextTableInv
--------------------------------------------------------------------------------
(* The peers' steps.                                                       *)

(* A peer that starts to connect believes nothing yet.                     *)
LEMMA ConnectHInv ==
  ASSUME HInv, NEW k \in Key, NEW isn \in ClientIsn, Connect(k, isn)
  PROVE  HInv'
<1>1. /\ UNCHANGED <<connections, next_initial_sequence, action, restarts, offered>>
      /\ UNCHANGED <<to_client, acked>>
      /\ client' = [client EXCEPT ![k] = [state |-> "SynSent", isn |-> isn, peer |-> 0]]
      /\ connects' = [connects EXCEPT ![k] = @ + 1]
      /\ to_listener' = to_listener \cup {Syn(k, isn)}
  BY DEF Connect, listenerVars
<1>2. isn \in Sequence
  BY PeerAssumption
<1>3. TableInv'
  BY <1>1, ListenerUnchanged DEF HInv, vars
<1>4. HTypeOK'
  <2>1. client' \in [Key -> Client]
    BY <1>1, <1>2, ZeroType DEF HInv, HTypeOK, Client
  <2>2. connects' \in [Key -> Nat]
    BY <1>1 DEF HInv, HTypeOK
  <2>3. to_listener' \subseteq Message
    BY <1>1, <1>2 DEF HInv, HTypeOK, Message
  <2> QED
    BY <1>1, <1>3, <2>1, <2>2, <2>3 DEF HInv, HTypeOK, TableInv
<1>5. AcksWereSent'
  <2> SUFFICES ASSUME NEW j \in Key, NEW m \in Sequence, NEW n \in Sequence,
                      Ack(j, m, n) \in to_listener'
               PROVE  <<j, m, n>> \in acked'
    BY DEF AcksWereSent
  <2>1. Ack(j, m, n) \in to_listener
    BY <1>1, <1>2, AcksDiffer
  <2> QED
    BY <1>1, <2>1 DEF HInv, AcksWereSent
<1>6. \A j \in Key : client'[j].state = "Established" => client'[j] = client[j]
  BY <1>1 DEF HInv, HTypeOK
<1>7. PeersAgree' /\ PeerHasAcked'
  BY <1>1, <1>6 DEF HInv, PeersAgree, PeerHasAcked
<1> QED
  BY <1>1, <1>3, <1>4, <1>5, <1>7
  DEF HInv, EstablishedWasAcknowledged, OffersMatchTable

(* A SYN that is repeated adds no ACK to the network.                      *)
LEMMA RetransmitHInv ==
  ASSUME HInv, NEW k \in Key, RetransmitSyn(k)
  PROVE  HInv'
<1> DEFINE isn == client[k].isn
<1>1. /\ UNCHANGED <<connections, next_initial_sequence, action, restarts, offered>>
      /\ UNCHANGED <<client, connects, acked, to_client>>
      /\ to_listener' = to_listener \cup {Syn(k, isn)}
  BY DEF RetransmitSyn, listenerVars, peerVars
<1>2. isn \in Sequence
  BY DEF HInv, HTypeOK, Client
<1> HIDE DEF isn
<1>3. TableInv'
  BY <1>1, ListenerUnchanged DEF HInv, vars
<1>4. HTypeOK'
  <2>1. to_listener' \subseteq Message
    BY <1>1, <1>2 DEF HInv, HTypeOK, Message
  <2> QED
    BY <1>1, <1>3, <2>1 DEF HInv, HTypeOK, TableInv
<1>5. AcksWereSent'
  <2> SUFFICES ASSUME NEW j \in Key, NEW m \in Sequence, NEW n \in Sequence,
                      Ack(j, m, n) \in to_listener'
               PROVE  <<j, m, n>> \in acked'
    BY DEF AcksWereSent
  <2>1. Ack(j, m, n) \in to_listener
    BY <1>1, <1>2, AcksDiffer
  <2> QED
    BY <1>1, <2>1 DEF HInv, AcksWereSent
<1> QED
  BY <1>1, <1>3, <1>4, <1>5
  DEF HInv, PeerHasAcked, EstablishedWasAcknowledged, OffersMatchTable, PeersAgree

(* The peer believes the SYN-ACK it receives: in the first life of the     *)
(* program that SYN-ACK offers what the table holds.                       *)
LEMMA ReceiveSynAckHInv ==
  ASSUME HInv, NEW k \in Key, ReceiveSynAck(k)
  PROVE  HInv'
<1> DEFINE isn == client[k].isn
<1>1. PICK a \in to_client :
        /\ a.key = k
        /\ client[k].state = "SynSent"
        /\ a.acknowledgement_number = WrappingSucc(isn)
        /\ client' = [client EXCEPT ![k] = [state |-> "Established",
                                            isn   |-> isn,
                                            peer  |-> a.sequence_number]]
        /\ to_listener' = to_listener \cup {Ack(k, isn, a.sequence_number)}
        /\ acked' = acked \cup {<<k, isn, a.sequence_number>>}
        /\ UNCHANGED <<listenerVars, connects, to_client>>
  BY DEF ReceiveSynAck
<1> DEFINE iss == a.sequence_number
<1>2. /\ UNCHANGED <<connections, next_initial_sequence, action, restarts, offered>>
      /\ UNCHANGED <<connects, to_client>>
  BY <1>1 DEF listenerVars
<1>3. isn \in Sequence /\ iss \in Sequence
  BY DEF HInv, HTypeOK, Client, SynAck
<1>4. TableInv'
  BY <1>2, ListenerUnchanged DEF HInv, vars
<1>5. HTypeOK'
  <2>1. to_listener' \subseteq Message
    BY <1>1, <1>3 DEF HInv, HTypeOK, Message
  <2>2. [state |-> "Established", isn |-> isn, peer |-> iss] \in Client
    BY <1>3 DEF Client
  <2>3. client' \in [Key -> Client]
    BY <1>1, <2>2 DEF HInv, HTypeOK
  <2>4. acked' \subseteq Key \X Sequence \X Sequence
    BY <1>1, <1>3 DEF HInv, HTypeOK
  <2> QED
    BY <1>2, <1>4, <2>1, <2>3, <2>4 DEF HInv, HTypeOK, TableInv
<1>6. AcksWereSent'
  <2> SUFFICES ASSUME NEW j \in Key, NEW m \in Sequence, NEW n \in Sequence,
                      Ack(j, m, n) \in to_listener'
               PROVE  <<j, m, n>> \in acked'
    BY DEF AcksWereSent
  <2>1. CASE Ack(j, m, n) \in to_listener
    BY <1>1, <2>1 DEF HInv, AcksWereSent
  <2>2. CASE Ack(j, m, n) = Ack(k, isn, iss)
    <3>1. j = k /\ m = isn /\ n = iss
      BY <1>3, <2>2, AcksDiffer
    <3> QED
      BY <1>1, <3>1
  <2> QED
    BY <1>1, <2>1, <2>2
<1>7. EstablishedWasAcknowledged'
  BY <1>1, <1>2 DEF HInv, EstablishedWasAcknowledged
<1>8. PeersAgree'
  <2> SUFFICES ASSUME restarts = 0, NEW j \in Key, client'[j].state = "Established"
               PROVE  /\ j \in DOMAIN connections
                      /\ connections[j].initial_receive_sequence = client'[j].isn
                      /\ connections[j].initial_send_sequence = client'[j].peer
    BY <1>2 DEF PeersAgree
  <2>1. CASE j = k
    <3>1. a \in offered
      BY DEF HInv, OffersMatchTable
    <3>2. /\ k \in DOMAIN connections
          /\ iss = connections[k].initial_send_sequence
          /\ WrappingSucc(isn) = connections[k].receive_next
      BY <1>1, <3>1 DEF HInv, OffersMatchTable
    <3>3. /\ connections[k].receive_next
               = WrappingSucc(connections[k].initial_receive_sequence)
          /\ connections[k].initial_receive_sequence \in Sequence
      BY <3>2 DEF HInv, TableInv, TypeOK, ConsistentNumbers, Connection
    <3>4. isn = connections[k].initial_receive_sequence
      BY <1>3, <3>2, <3>3, WrappingSuccInjective
    <3>5. client'[k] = [state |-> "Established", isn |-> isn, peer |-> iss]
      BY <1>1 DEF HInv, HTypeOK
    <3> QED
      BY <2>1, <3>2, <3>4, <3>5
  <2>2. CASE j # k
    <3>1. client'[j] = client[j]
      BY <1>1, <2>2 DEF HInv, HTypeOK
    <3> QED
      BY <3>1 DEF HInv, PeersAgree
  <2> QED
    BY <2>1, <2>2
<1>9. PeerHasAcked'
  <2>1. client'[k].isn = isn /\ client'[k].peer = iss
    BY <1>1 DEF HInv, HTypeOK
  <2>2. \A j \in Key : j # k => client'[j] = client[j]
    BY <1>1 DEF HInv, HTypeOK
  <2> QED
    BY <1>1, <2>1, <2>2 DEF HInv, PeerHasAcked
<1> QED
  BY <1>2, <1>4, <1>5, <1>6, <1>7, <1>8, <1>9 DEF HInv, OffersMatchTable

(* An ACK that is repeated carries what its sender has acknowledged.       *)
LEMMA RepeatAckHInv ==
  ASSUME HInv, NEW k \in Key, RepeatAck(k)
  PROVE  HInv'
<1> DEFINE isn == client[k].isn
           iss == client[k].peer
<1>1. /\ UNCHANGED <<connections, next_initial_sequence, action, restarts, offered>>
      /\ UNCHANGED <<client, connects, acked, to_client>>
      /\ to_listener' = to_listener \cup {Ack(k, isn, iss)}
      /\ client[k].state = "Established"
  BY DEF RepeatAck, listenerVars, peerVars
<1>2. isn \in Sequence /\ iss \in Sequence
  BY DEF HInv, HTypeOK, Client
<1>3. <<k, isn, iss>> \in acked
  BY <1>1 DEF HInv, PeerHasAcked
<1> HIDE DEF isn, iss
<1>4. TableInv'
  BY <1>1, ListenerUnchanged DEF HInv, vars
<1>5. HTypeOK'
  <2>1. to_listener' \subseteq Message
    BY <1>1, <1>2 DEF HInv, HTypeOK, Message
  <2> QED
    BY <1>1, <1>4, <2>1 DEF HInv, HTypeOK, TableInv
<1>6. AcksWereSent'
  <2> SUFFICES ASSUME NEW j \in Key, NEW m \in Sequence, NEW n \in Sequence,
                      Ack(j, m, n) \in to_listener'
               PROVE  <<j, m, n>> \in acked'
    BY DEF AcksWereSent
  <2>1. CASE Ack(j, m, n) \in to_listener
    BY <1>1, <2>1 DEF HInv, AcksWereSent
  <2>2. CASE Ack(j, m, n) = Ack(k, isn, iss)
    <3>1. j = k /\ m = isn /\ n = iss
      BY <1>2, <2>2, AcksDiffer
    <3> QED
      BY <1>1, <1>3, <3>1
  <2> QED
    BY <1>1, <2>1, <2>2
<1> QED
  BY <1>1, <1>4, <1>5, <1>6
  DEF HInv, PeerHasAcked, EstablishedWasAcknowledged, OffersMatchTable, PeersAgree

(* A peer that gives up believes nothing any more.                         *)
LEMMA GiveUpHInv ==
  ASSUME HInv, NEW k \in Key, GiveUp(k)
  PROVE  HInv'
<1>1. /\ UNCHANGED <<connections, next_initial_sequence, action, restarts, offered>>
      /\ UNCHANGED <<connects, acked, to_listener, to_client>>
      /\ client' = [client EXCEPT ![k] = [state |-> "Closed", isn |-> 0, peer |-> 0]]
  BY DEF GiveUp, listenerVars
<1>2. TableInv'
  BY <1>1, ListenerUnchanged DEF HInv, vars
<1>3. client' \in [Key -> Client]
  BY <1>1, ZeroType DEF HInv, HTypeOK, Client
<1>4. \A j \in Key : client'[j].state = "Established" => client'[j] = client[j]
  BY <1>1 DEF HInv, HTypeOK
<1>5. HTypeOK'
  BY <1>1, <1>2, <1>3 DEF HInv, HTypeOK, TableInv
<1>6. PeersAgree' /\ PeerHasAcked'
  BY <1>1, <1>4 DEF HInv, PeersAgree, PeerHasAcked
<1> QED
  BY <1>1, <1>2, <1>5, <1>6
  DEF HInv, AcksWereSent, EstablishedWasAcknowledged, OffersMatchTable
--------------------------------------------------------------------------------
(* The steps of the stack and of the network.                              *)

(* Receiving a segment never changes the initial numbers of an entry.      *)
LEMMA ReceiveKeepsNumbers ==
  ASSUME TableInv, NEW ip, NEW s, ReceiveSegment(ip, s)
  PROVE  \A k \in DOMAIN connections :
           /\ k \in DOMAIN connections'
           /\ connections'[k].initial_send_sequence
                = connections[k].initial_send_sequence
           /\ connections'[k].initial_receive_sequence
                = connections[k].initial_receive_sequence
           /\ connections'[k].receive_next = connections[k].receive_next
<1> DEFINE key == KeyOf(ip, s)
<1>1. CASE OpenConnection(key, s)
  BY <1>1, OpenAddsKey DEF TableInv
<1>2. CASE CompleteHandshake(key, s)
  <2> HIDE DEF key
  <2>1. /\ DOMAIN connections' = DOMAIN connections
        /\ \A k \in DOMAIN connections : k # key => connections'[k] = connections[k]
        /\ connections'[key].initial_send_sequence
             = connections[key].initial_send_sequence
        /\ connections'[key].initial_receive_sequence
             = connections[key].initial_receive_sequence
        /\ connections'[key].receive_next = connections[key].receive_next
    BY <1>2, CompleteKeepsKeys DEF TableInv
  <2> QED
    BY <2>1
<1>3. CASE UNCHANGED connections
  BY <1>3
<1> QED
  BY <1>1, <1>2, <1>3 DEF ReceiveSegment, ResendSynAck, IgnoreSegment

(* The listener's answer is about an entry of its table.                   *)
LEMMA AnswerIsAnOffer ==
  ASSUME AnswersMatchTable, action.reply
  PROVE  /\ action.key \in DOMAIN connections
         /\ action.sequence_number = connections[action.key].initial_send_sequence
         /\ action.acknowledgement_number = connections[action.key].receive_next
  BY DEF AnswersMatchTable, SendSynAck

(* The listener receives a segment: an entry it establishes is one whose   *)
(* peer has acknowledged both its numbers.                                 *)
LEMMA DeliverHInv ==
  ASSUME HInv, NEW m \in to_listener, Deliver(m)
  PROVE  HInv'
<1> DEFINE s == m.segment
           ip == m.from.remote_ip
           sent == IF action'.reply THEN {action'} ELSE {}
<1>1. /\ UNCHANGED <<client, connects, acked, to_listener, restarts>>
      /\ ReceiveSegment(ip, s)
      /\ to_client' = to_client \cup sent
      /\ offered' = offered \cup sent
  BY DEF Deliver, peerVars
<1>2. /\ m \in Message
      /\ m.from \in Key
      /\ ip \in RemoteIp
      /\ s \in Segment
      /\ KeyOf(ip, s) = m.from
  BY MessageType DEF HInv, HTypeOK
<1>3. TableInv'
  BY <1>1, <1>2, NextTableInv DEF HInv, Next
<1>4. HTypeOK'
  <2>1. sent \subseteq SynAck
    BY <1>3 DEF TableInv, TypeOK, NoReply
  <2> QED
    BY <1>1, <1>3, <2>1 DEF HInv, HTypeOK, TableInv
<1>5. \A k \in DOMAIN connections :
        /\ k \in DOMAIN connections'
        /\ connections'[k].initial_send_sequence
             = connections[k].initial_send_sequence
        /\ connections'[k].initial_receive_sequence
             = connections[k].initial_receive_sequence
        /\ connections'[k].receive_next = connections[k].receive_next
  BY <1>1, ReceiveKeepsNumbers DEF HInv
<1>6. OffersMatchTable'
  <2>1. \A a \in sent :
          /\ a.key \in DOMAIN connections'
          /\ a.sequence_number = connections'[a.key].initial_send_sequence
          /\ a.acknowledgement_number = connections'[a.key].receive_next
    <3>1. ASSUME action'.reply
          PROVE  /\ action'.key \in DOMAIN connections'
                 /\ action'.sequence_number
                      = connections'[action'.key].initial_send_sequence
                 /\ action'.acknowledgement_number
                      = connections'[action'.key].receive_next
      BY <1>3, <3>1 DEF TableInv, AnswersMatchTable, SendSynAck
    <3> QED
      BY <3>1
  <2> HIDE DEF sent
  <2> QED
    BY <1>1, <1>5, <2>1 DEF HInv, OffersMatchTable
<1>7. PeersAgree'
  <2> HIDE DEF sent
  <2> QED
    BY <1>1, <1>5 DEF HInv, PeersAgree
<1>8. EstablishedWasAcknowledged'
  <2> SUFFICES ASSUME NEW k \in DOMAIN connections',
                      connections'[k].state = "Established"
               PROVE  <<k, connections'[k].initial_receive_sequence,
                           connections'[k].initial_send_sequence>> \in acked
    BY <1>1 DEF EstablishedWasAcknowledged
  <2>1. CASE k \in DOMAIN connections /\ connections[k].state = "Established"
    BY <1>5, <2>1 DEF HInv, EstablishedWasAcknowledged
  <2>2. CASE CompleteHandshake(m.from, s) /\ k = m.from
    <3>1. /\ AcceptsFinalAck(s)
          /\ k \in DOMAIN connections
          /\ s.sequence_number = connections[k].receive_next
          /\ s.acknowledgement_number = connections[k].send_next
      BY <2>2 DEF CompleteHandshake, AcknowledgesSynAck
    <3>2. PICK isn \in Sequence, iss \in Sequence : m = Ack(k, isn, iss)
      <4>1. ASSUME NEW j \in Key, NEW n \in Sequence, m = Syn(j, n)
            PROVE  FALSE
        <5>1. s.flags = {"SYN"}
          BY <4>1, ZeroType, MessageParts
        <5> QED
          BY <3>1, <5>1 DEF AcceptsFinalAck
      <4>2. PICK j \in Key, isn \in Sequence, iss \in Sequence : m = Ack(j, isn, iss)
        BY <1>2, <4>1 DEF Message
      <4>3. j = k
        BY <2>2, <4>2, MessageParts
      <4> QED
        BY <4>2, <4>3
    <3>3. <<k, isn, iss>> \in acked
      BY <1>2, <2>2, <3>2 DEF HInv, AcksWereSent
    <3>4. /\ s.sequence_number = WrappingSucc(isn)
          /\ s.acknowledgement_number = WrappingSucc(iss)
      BY <1>2, <2>2, <3>2, MessageParts
    <3>5. /\ connections[k].initial_receive_sequence \in Sequence
          /\ connections[k].initial_send_sequence \in Sequence
          /\ connections[k].receive_next
               = WrappingSucc(connections[k].initial_receive_sequence)
          /\ connections[k].send_next
               = WrappingSucc(connections[k].initial_send_sequence)
      BY <3>1 DEF HInv, TableInv, TypeOK, ConsistentNumbers, Connection
    <3>6. /\ isn = connections[k].initial_receive_sequence
          /\ iss = connections[k].initial_send_sequence
      BY <3>1, <3>4, <3>5, WrappingSuccInjective
    <3> QED
      BY <1>5, <3>1, <3>3, <3>6
  <2>3. CASE CompleteHandshake(m.from, s) /\ k # m.from
    <3>1. k \in DOMAIN connections /\ connections'[k] = connections[k]
      BY <2>3, CompleteKeepsKeys DEF HInv, TableInv
    <3> QED
      BY <2>1, <3>1
  <2>4. CASE OpenConnection(m.from, s)
    <3>1. TypeOK /\ CapacityRespected
      BY DEF HInv, TableInv
    <3>2. /\ DOMAIN connections' = DOMAIN connections \cup {m.from}
          /\ connections'[m.from] = NewConnection(s)
          /\ \A j \in DOMAIN connections : connections'[j] = connections[j]
      BY <2>4, <3>1, OpenAddsKey
    <3>3. NewConnection(s).state # "Established"
      BY DEF NewConnection
    <3> QED
      BY <2>1, <3>2, <3>3
  <2>5. CASE UNCHANGED connections
    BY <2>1, <2>5
  <2> QED
    BY <1>1, <1>2, <2>2, <2>3, <2>4, <2>5
    DEF ReceiveSegment, ResendSynAck, IgnoreSegment
<1> QED
  BY <1>1, <1>3, <1>4, <1>6, <1>7, <1>8 DEF HInv, AcksWereSent, PeerHasAcked

(* An empty table is one after a step, too.                                *)
LEMMA InitTableInvPrimed == Init' => TableInv'
  BY InitTableInv, PTL

(* A restart empties the table: nothing is claimed of it until a new SYN.  *)
LEMMA RestartHInv ==
  ASSUME HInv, Restart
  PROVE  HInv'
<1>1. /\ restarts' = restarts + 1
      /\ Init'
      /\ offered' = {}
      /\ UNCHANGED <<client, connects, acked, to_listener, to_client>>
  BY DEF Restart, Init, peerVars
<1>2. TableInv'
  BY <1>1, InitTableInvPrimed
<1>3. restarts \in Nat /\ restarts' \in Nat /\ restarts' # 0
  BY <1>1 DEF HInv, HTypeOK
<1>4. DOMAIN connections' = {}
  BY <1>1 DEF Init
<1>5. HTypeOK'
  BY <1>1, <1>2, <1>3 DEF HInv, HTypeOK, TableInv
<1> QED
  BY <1>1, <1>2, <1>3, <1>4, <1>5
  DEF HInv, AcksWereSent, PeerHasAcked, EstablishedWasAcknowledged,
      OffersMatchTable, PeersAgree

(* What the network loses, nothing depends on.                             *)
LEMMA LoseHInv ==
  ASSUME HInv, Lose
  PROVE  HInv'
<1>1. /\ UNCHANGED <<connections, next_initial_sequence, action, restarts, offered>>
      /\ UNCHANGED <<client, connects, acked>>
      /\ to_listener' \subseteq to_listener
      /\ to_client' \subseteq to_client
  BY DEF Lose, listenerVars, peerVars
<1>2. TableInv'
  BY <1>1, ListenerUnchanged DEF HInv, vars
<1>3. HTypeOK'
  BY <1>1, <1>2 DEF HInv, HTypeOK, TableInv
<1> QED
  BY <1>1, <1>2, <1>3
  DEF HInv, AcksWereSent, PeerHasAcked, EstablishedWasAcknowledged,
      OffersMatchTable, PeersAgree
--------------------------------------------------------------------------------
(* Every step of peers, stack and network preserves the invariant.         *)
LEMMA NextHInv == HInv /\ [LosingNext]_hvars => HInv'
<1> SUFFICES ASSUME HInv, [LosingNext]_hvars
             PROVE  HInv'
  OBVIOUS
<1>1. ASSUME NEW k \in Key, NEW isn \in ClientIsn, Connect(k, isn)
      PROVE  HInv'
  BY <1>1, ConnectHInv
<1>2. ASSUME NEW k \in Key, RetransmitSyn(k)
      PROVE  HInv'
  BY <1>2, RetransmitHInv
<1>3. ASSUME NEW k \in Key, ReceiveSynAck(k)
      PROVE  HInv'
  BY <1>3, ReceiveSynAckHInv
<1>4. ASSUME NEW k \in Key, RepeatAck(k)
      PROVE  HInv'
  BY <1>4, RepeatAckHInv
<1>5. ASSUME NEW k \in Key, GiveUp(k)
      PROVE  HInv'
  BY <1>5, GiveUpHInv
<1>6. ASSUME NEW m \in to_listener, Deliver(m)
      PROVE  HInv'
  BY <1>6, DeliverHInv
<1>7. CASE Restart
  BY <1>7, RestartHInv
<1>8. CASE Lose
  BY <1>8, LoseHInv
<1>9. CASE UNCHANGED hvars
  <2>1. TableInv'
    BY <1>9, ListenerUnchanged DEF HInv, hvars
  <2>2. HTypeOK'
    BY <1>9, <2>1 DEF HInv, HTypeOK, TableInv, hvars
  <2> QED
    BY <1>9, <2>1, <2>2
    DEF HInv, hvars, vars, AcksWereSent, PeerHasAcked,
        EstablishedWasAcknowledged, OffersMatchTable, PeersAgree
<1> QED
  BY <1>1, <1>2, <1>3, <1>4, <1>5, <1>6, <1>7, <1>8, <1>9 DEF LosingNext, HNext

(* In every run, with every loss, repetition and delay, the whole of HInv  *)
(* holds.                                                                  *)
THEOREM HandshakeInvariant == LossySpec => []HInv
<1> QED
  BY InitHInv, NextHInv, PTL DEF LossySpec

(* Peers, messages, offers and the table have their types, also after a    *)
(* restart and beside messages of an earlier life of the program.          *)
THEOREM HandshakeTypeCorrect == LossySpec => []HTypeOK
<1>1. HInv => HTypeOK
  BY DEF HInv
<1> QED
  BY <1>1, HandshakeInvariant, PTL

(* A run in which the network loses nothing is one in which it may.        *)
LEMMA ReliableIsLossy == HSpec => LossySpec
<1>1. [HNext]_hvars => [LosingNext]_hvars
  BY DEF LosingNext
<1> QED
  BY <1>1, PTL DEF HSpec, LossySpec

(* The listener never believes a peer that has never acknowledged exactly  *)
(* its two numbers: not through a duplicate, a late or a foreign segment,  *)
(* nor, under other numbers, one from before a restart.                    *)
THEOREM EstablishedIsAcknowledged == LossySpec => []EstablishedWasAcknowledged
<1>1. HInv => EstablishedWasAcknowledged
  BY DEF HInv
<1> QED
  BY <1>1, HandshakeInvariant, PTL

(* As long as the program runs, what an established peer believes of its   *)
(* connection is what the table holds.                                     *)
THEOREM PeersAlwaysAgree == LossySpec => []PeersAgree
<1>1. HInv => PeersAgree
  BY DEF HInv
<1> QED
  BY <1>1, HandshakeInvariant, PTL

(* Between restarts a peer is offered one pair of numbers, and a number to *)
(* one peer.                                                               *)
THEOREM OffersAreUnique == LossySpec => []OneOfferPerPeer
<1>1. HInv => OneOfferPerPeer
  <2> SUFFICES ASSUME HInv, NEW a \in offered, NEW b \in offered,
                      a.key = b.key \/ a.sequence_number = b.sequence_number
               PROVE  a = b
    BY DEF OneOfferPerPeer
  <2>1. a \in SynAck /\ b \in SynAck
    BY DEF HInv, HTypeOK
  <2>2. /\ a.key \in DOMAIN connections
        /\ a.sequence_number = connections[a.key].initial_send_sequence
        /\ a.acknowledgement_number = connections[a.key].receive_next
        /\ b.key \in DOMAIN connections
        /\ b.sequence_number = connections[b.key].initial_send_sequence
        /\ b.acknowledgement_number = connections[b.key].receive_next
    BY DEF HInv, OffersMatchTable
  <2>3. a.key = b.key
    BY <2>2 DEF HInv, TableInv, DistinctInitialSequences
  <2>4. /\ a.sequence_number = b.sequence_number
        /\ a.acknowledgement_number = b.acknowledgement_number
    BY <2>2, <2>3
  <2>5. ASSUME NEW x \in SynAck
        PROVE  x = [reply                  |-> TRUE,
                    key                    |-> x.key,
                    sequence_number        |-> x.sequence_number,
                    acknowledgement_number |-> x.acknowledgement_number]
    BY DEF SynAck
  <2> QED
    BY <2>1, <2>3, <2>4, <2>5
<1> QED
  BY <1>1, HandshakeInvariant, PTL
================================================================================
