------------------------------ MODULE PassiveOpen ------------------------------
(***************************************************************************)
(* What the TCP half of the stack promises, without segments, flags or     *)
(* tables: a bounded set of peers is accepted, each with a pair of initial *)
(* sequence numbers that is fixed at that moment; no two accepted peers    *)
(* share the number chosen on this side; and an accepted peer may later be *)
(* confirmed, once, and is never forgotten.                                *)
(*                                                                         *)
(* TcpListener implements this specification (see Opened there).           *)
(***************************************************************************)
EXTENDS Naturals, FiniteSets

CONSTANTS
  Peer,       \* who may open a connection
  Sequence,   \* the sequence numbers
  Capacity    \* how many peers are accepted at most

VARIABLE accepted   \* the accepted peers, each with its numbers

Offer == [peer_isn : Sequence, own_isn : Sequence, state : {"Offered", "Confirmed"}]

Init == accepted = [p \in {} |-> {}]

(* A new peer is accepted while there is room, under a number of this side *)
(* that no accepted peer was given.                                        *)
Accept(p, peer_isn, own_isn) ==
  /\ p \notin DOMAIN accepted
  /\ Cardinality(DOMAIN accepted) < Capacity
  /\ \A q \in DOMAIN accepted : accepted[q].own_isn # own_isn
  /\ accepted' = [q \in DOMAIN accepted \cup {p} |->
                    IF q = p
                    THEN [peer_isn |-> peer_isn,
                          own_isn  |-> own_isn,
                          state    |-> "Offered"]
                    ELSE accepted[q]]

Confirm(p) ==
  /\ p \in DOMAIN accepted
  /\ accepted[p].state = "Offered"
  /\ accepted' = [accepted EXCEPT ![p] = [@ EXCEPT !.state = "Confirmed"]]

Next ==
  \E p \in Peer :
    \/ \E peer_isn, own_isn \in Sequence : Accept(p, peer_isn, own_isn)
    \/ Confirm(p)

Spec == Init /\ [][Next]_accepted
================================================================================
