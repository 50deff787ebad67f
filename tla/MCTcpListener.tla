----------------------------- MODULE MCTcpListener -----------------------------
(* Three peers that share an address or a port, port 0 and a foreign port, *)
(* and as many table entries as sequence numbers, counted from the last.   *)
EXTENDS TcpListener, TLC

CONSTANTS r1, r2

MCRemoteIp == {r1, r2}
MCPort == {0, 1, 2}

(* The two accepted forms, one with flags the listener does not look at,   *)
(* and each of them spoiled by a flag it rejects.                          *)
MCFlagSets == {{"SYN", "ECE", "CWR"}, {"ACK"}, {"SYN", "ACK"}, {"RST", "ACK"}}

Peers == Permutations(MCRemoteIp)
================================================================================
