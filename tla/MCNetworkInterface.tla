-------------------------- MODULE MCNetworkInterface --------------------------
(* This host and one other, which may send from either of two MAC          *)
(* addresses; a table with room for one connection.                        *)
EXTENDS NetworkInterface, TLC

CONSTANTS own, all, third, m1, m2

MCIp == {1, 2}
MCMac == {m1, m2}
MCPort == {0, 1}
MCFlagSets == {{"SYN"}, {"ACK"}}

(* A SYN, the ACK that completes it, another one, and segments to and from *)
(* the wrong port.                                                         *)
MCSegment(from, to, seq, ack, flag) ==
  [source_port |-> from, destination_port |-> to, sequence_number |-> seq,
   acknowledgement_number |-> ack, flags |-> {flag}, empty |-> TRUE]

MCSegments ==
  {MCSegment(1, 1, 1, 0, "SYN"), MCSegment(1, 1, 0, 0, "ACK"),
   MCSegment(1, 1, 1, 1, "ACK"), MCSegment(0, 1, 1, 0, "SYN"),
   MCSegment(1, 0, 1, 0, "SYN")}

MCFrames == Frame

Macs == Permutations(MCMac)
================================================================================
