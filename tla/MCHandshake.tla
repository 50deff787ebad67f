------------------------------ MODULE MCHandshake ------------------------------
(* Peers on different addresses that connect from one port, each choosing  *)
(* among two initial sequence numbers; the listener counts from the last   *)
(* sequence number, so that the second connection is numbered 0.           *)
EXTENDS Handshake, TLC

CONSTANTS r1, r2

MCRemoteIp == {r1, r2}

MCPort == {0, 1}
MCFlagSets == {{"SYN"}, {"ACK"}}
MCClientIsn == {0, 2}

Peers == Permutations(MCRemoteIp)
================================================================================
