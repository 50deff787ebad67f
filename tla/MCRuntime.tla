------------------------------- MODULE MCRuntime -------------------------------
(* One other host that sends ARP packets, an echo request and a handshake  *)
(* to the loop, and frames that it ignores or refuses, with waits of more  *)
(* than the time to live.                                                  *)
EXTENDS Runtime

CONSTANTS own, all, third, m1

MCIp == {1, 2}
MCMac == {m1}
MCPort == {0, 1}
MCFlagSets == {{"SYN"}, {"ACK"}}

MCSegment(seq, ack, flag) ==
  [source_port |-> 1, destination_port |-> 1, sequence_number |-> seq,
   acknowledgement_number |-> ack, flags |-> {flag}, empty |-> TRUE]

MCSegments == {MCSegment(1, 0, "SYN"), MCSegment(0, 0, "ACK")}

MCFrame(payload) ==
  [destination_mac |-> own, source_mac |-> m1, payload |-> payload]

MCArp(operation, from) ==
  [type |-> "Arp", ok |-> TRUE, operation |-> operation,
   sender_ip |-> from, sender_mac |-> m1, target_ip |-> 1]

MCPacket(body) ==
  [type |-> "Ipv4", ok |-> TRUE, destination |-> 1, fragment |-> FALSE,
   source |-> 2, body |-> body]

MCFrames ==
  {MCFrame(MCArp(operation, from)) :
     operation \in {"Request", "Reply", "Unknown"}, from \in MCIp} \cup
  {MCFrame(MCPacket([protocol |-> "Tcp", ok |-> TRUE, segment |-> segment])) :
     segment \in MCSegments} \cup
  {MCFrame(MCPacket([protocol |-> "Icmp", ok |-> TRUE, echo_request |-> TRUE])),
   MCFrame(MCPacket([protocol |-> "Udp", ok |-> TRUE,
                     source_port |-> 1, destination_port |-> 1])),
   MCFrame(MCPacket([protocol |-> "Unknown"])),
   MCFrame([type |-> "Truncated"])}
================================================================================
