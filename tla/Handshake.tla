------------------------------- MODULE Handshake -------------------------------
(***************************************************************************)
(* The TCP listener, the peers that connect to it and the network between  *)
(* them.  The listener is TcpListener's, with the program around it free   *)
(* to stop and start again: NetworkInterface::new then makes a new one     *)
(* that counts from the same initial sequence number.                      *)
(*                                                                         *)
(* The peers are not part of the repository.  They do what any TCP peer    *)
(* does to open a connection: send a SYN and repeat it, acknowledge the    *)
(* SYN-ACK that acknowledges it, repeat that ACK when a SYN-ACK arrives    *)
(* again, and give up at any time.  A RST they send is left out: the       *)
(* listener ignores it (TcpListener!IgnoreSegment).                        *)
(*                                                                         *)
(* Messages stay in the network once sent, so that each may be received    *)
(* late, in any order, and any number of times; LosingNext also removes    *)
(* them.  A message the network loses may also be a SYN-ACK that the run   *)
(* loop failed to transmit: the listener has moved on all the same.        *)
(***************************************************************************)
EXTENDS TcpListener

CONSTANTS
  ClientIsn,     \* the initial sequence numbers a peer chooses from
  MaxConnects,   \* bound: how often one peer starts to connect
  MaxRestarts    \* bound: how often the program is restarted

ASSUME PeerAssumption ==
  /\ ClientIsn \subseteq Sequence
  /\ MaxConnects \in Nat
  /\ MaxRestarts \in Nat
  /\ LocalPort \in Port
  /\ {{"SYN"}, {"ACK"}} \subseteq FlagSets

VARIABLES
  client,        \* client[k]: the peer behind key k
  connects,      \* connects[k]: how often it has started to connect
  to_listener,   \* segments of the peers, each with the key of its sender
  to_client,     \* SYN-ACKs of the listener
  restarts,      \* how often the program has been restarted
  offered,       \* history: the SYN-ACKs sent since the last restart
  acked          \* history: <<k, isn, iss>> that peer k has acknowledged

hvars == <<vars, client, connects, to_listener, to_client, restarts, offered, acked>>

peerVars == <<client, connects, acked>>
listenerVars == <<connections, next_initial_sequence, action, restarts, offered>>
--------------------------------------------------------------------------------
Syn(k, isn) ==
  [from    |-> k,
   segment |-> [source_port            |-> k.remote_port,
                destination_port       |-> LocalPort,
                sequence_number        |-> isn,
                acknowledgement_number |-> 0,
                flags                  |-> {"SYN"},
                empty                  |-> TRUE]]

Ack(k, isn, iss) ==
  [from    |-> k,
   segment |-> [source_port            |-> k.remote_port,
                destination_port       |-> LocalPort,
                sequence_number        |-> WrappingSucc(isn),
                acknowledgement_number |-> WrappingSucc(iss),
                flags                  |-> {"ACK"},
                empty                  |-> TRUE]]

Message ==
  {Syn(k, isn) : k \in Key, isn \in Sequence} \cup
  {Ack(k, isn, iss) : k \in Key, isn \in Sequence, iss \in Sequence}

Client ==
  [state : {"Closed", "SynSent", "Established"}, isn : Sequence, peer : Sequence]

HInit ==
  /\ Init
  /\ client = [k \in Key |-> [state |-> "Closed", isn |-> 0, peer |-> 0]]
  /\ connects = [k \in Key |-> 0]
  /\ to_listener = {}
  /\ to_client = {}
  /\ restarts = 0
  /\ offered = {}
  /\ acked = {}
--------------------------------------------------------------------------------
(* The peers.                                                              *)

Connect(k, isn) ==
  /\ client[k].state = "Closed"
  /\ connects[k] < MaxConnects
  /\ client' = [client EXCEPT ![k] = [state |-> "SynSent", isn |-> isn, peer |-> 0]]
  /\ connects' = [connects EXCEPT ![k] = @ + 1]
  /\ to_listener' = to_listener \cup {Syn(k, isn)}
  /\ UNCHANGED <<listenerVars, to_client, acked>>

RetransmitSyn(k) ==
  /\ client[k].state = "SynSent"
  /\ to_listener' = to_listener \cup {Syn(k, client[k].isn)}
  /\ UNCHANGED <<listenerVars, peerVars, to_client>>

ReceiveSynAck(k) ==
  \E a \in to_client :
    /\ a.key = k
    /\ client[k].state = "SynSent"
    /\ a.acknowledgement_number = WrappingSucc(client[k].isn)
    /\ client' = [client EXCEPT ![k] = [state |-> "Established",
                                        isn   |-> client[k].isn,
                                        peer  |-> a.sequence_number]]
    /\ to_listener' =
         to_listener \cup {Ack(k, client[k].isn, a.sequence_number)}
    /\ acked' = acked \cup {<<k, client[k].isn, a.sequence_number>>}
    /\ UNCHANGED <<listenerVars, connects, to_client>>

(* An established peer answers any SYN-ACK with its current numbers.       *)
RepeatAck(k) ==
  /\ client[k].state = "Established"
  /\ \E a \in to_client : a.key = k
  /\ to_listener' = to_listener \cup {Ack(k, client[k].isn, client[k].peer)}
  /\ UNCHANGED <<listenerVars, peerVars, to_client>>

(* The peer's connection attempt or connection ends: a timeout, a close, a *)
(* crash.  The listener learns nothing of it.                              *)
GiveUp(k) ==
  /\ client[k].state # "Closed"
  /\ client' = [client EXCEPT ![k] = [state |-> "Closed", isn |-> 0, peer |-> 0]]
  /\ UNCHANGED <<listenerVars, connects, acked, to_listener, to_client>>
--------------------------------------------------------------------------------
(* The stack.                                                              *)

(* One segment is received and, if the listener answers, its SYN-ACK sent. *)
Deliver(m) ==
  /\ m \in to_listener
  /\ ReceiveSegment(m.from.remote_ip, m.segment)
  /\ LET sent == IF action'.reply THEN {action'} ELSE {} IN
       /\ to_client' = to_client \cup sent
       /\ offered' = offered \cup sent
  /\ UNCHANGED <<peerVars, to_listener, restarts>>

(* The program is restarted: nothing of the table survives, and the first  *)
(* initial sequence number is the same again.                              *)
Restart ==
  /\ restarts < MaxRestarts
  /\ restarts' = restarts + 1
  /\ connections' = [k \in {} |-> {}]
  /\ next_initial_sequence' = InitialSequence
  /\ action' = NoReply
  /\ offered' = {}
  /\ UNCHANGED <<peerVars, to_listener, to_client>>

HNext ==
  \/ \E k \in Key :
       \/ \E isn \in ClientIsn : Connect(k, isn)
       \/ RetransmitSyn(k)
       \/ ReceiveSynAck(k)
       \/ RepeatAck(k)
       \/ GiveUp(k)
  \/ \E m \in to_listener : Deliver(m)
  \/ Restart

HSpec == HInit /\ [][HNext]_hvars

Lose ==
  /\ \/ \E m \in to_listener :
          to_listener' = to_listener \ {m} /\ UNCHANGED to_client
     \/ \E m \in to_client :
          to_client' = to_client \ {m} /\ UNCHANGED to_listener
  /\ UNCHANGED <<listenerVars, peerVars>>

LosingNext == HNext \/ Lose

LossySpec == HInit /\ [][LosingNext]_hvars

(* A peer that waits repeats its SYN; the network may lose a message any   *)
(* number of times, but not each time it is sent; and the run loop handles *)
(* each frame it receives.                                                 *)
DeliverSyn(k) == Deliver(Syn(k, client[k].isn))

Fairness ==
  \A k \in Key :
    /\ WF_hvars(RetransmitSyn(k))
    /\ SF_hvars(DeliverSyn(k))
    /\ SF_hvars(ReceiveSynAck(k))

FairSpec == LossySpec /\ Fairness
--------------------------------------------------------------------------------
(* The listener's variables have their types; a peer has numbers; messages *)
(* are ones that a peer or the listener can send.                          *)
HTypeOK ==
  /\ TypeOK
  /\ client \in [Key -> Client]
  /\ connects \in [Key -> Nat]
  /\ to_listener \subseteq Message
  /\ to_client \subseteq SynAck
  /\ offered \subseteq SynAck
  /\ restarts \in Nat
  /\ acked \subseteq Key \X Sequence \X Sequence

(* complete_handshake establishes a connection only when the peer behind   *)
(* its key has acknowledged exactly that pair of initial numbers, however  *)
(* late, often or out of order the segments arrive.  An ACK from before a  *)
(* restart counts: the listener cannot tell it from a new one if the       *)
(* numbers are the same.                                                   *)
EstablishedWasAcknowledged ==
  \A k \in DOMAIN connections :
    connections[k].state = "Established" =>
      <<k, connections[k].initial_receive_sequence,
           connections[k].initial_send_sequence>> \in acked

(* Every ACK on its way repeats numbers its sender has acknowledged.       *)
AcksWereSent ==
  \A k \in Key, isn, iss \in Sequence :
    Ack(k, isn, iss) \in to_listener => <<k, isn, iss>> \in acked

(* An established peer has acknowledged the numbers it believes in.        *)
PeerHasAcked ==
  \A k \in Key :
    client[k].state = "Established" =>
      <<k, client[k].isn, client[k].peer>> \in acked

(* As long as the program runs, a peer that believes it is connected finds *)
(* the listener holding its connection under the numbers the peer knows:   *)
(* no late SYN, and no other peer's, renumbers or replaces it.             *)
PeersAgree ==
  restarts = 0 =>
    \A k \in Key :
      client[k].state = "Established" =>
        /\ k \in DOMAIN connections
        /\ connections[k].initial_receive_sequence = client[k].isn
        /\ connections[k].initial_send_sequence = client[k].peer

(* Between two restarts every peer is offered one pair of numbers only,    *)
(* and no number is offered to two peers: a SYN that is repeated or comes  *)
(* late never makes the listener offer something new.                      *)
OneOfferPerPeer ==
  \A a, b \in offered :
    (a.key = b.key \/ a.sequence_number = b.sequence_number) => a = b

(* Every SYN-ACK sent since the last restart still offers what the table   *)
(* holds.                                                                  *)
OffersMatchTable ==
  /\ \A a \in offered :
       /\ a.key \in DOMAIN connections
       /\ a.sequence_number = connections[a.key].initial_send_sequence
       /\ a.acknowledgement_number = connections[a.key].receive_next
  /\ restarts = 0 => to_client \subseteq offered

(* The listener will not answer the SYN that peer k is waiting on: its     *)
(* table is full, or holds k under another number or already established.  *)
Blocked(k) ==
  IF k \in DOMAIN connections
  THEN \/ connections[k].state = "Established"
       \/ connections[k].initial_receive_sequence # client[k].isn
  ELSE Cardinality(DOMAIN connections) >= Capacity

(* A peer that keeps repeating its SYN is connected in the end, although   *)
(* SYNs and SYN-ACKs are lost and the listener has no timer of its own:    *)
(* unless it gives up or meets one of the three states that block it.      *)
WaitingPeerIsServed ==
  \A k \in Key :
    client[k].state = "SynSent" ~> (client[k].state # "SynSent" \/ Blocked(k))
================================================================================
