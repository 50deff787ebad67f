----------------------------- MODULE MCArpResolver -----------------------------
(* Two hosts for one cache entry, so that learning one mapping evicts the  *)
(* other while it is wanted, and deadlines that overflow near the last     *)
(* instant; or three hosts, each with either of two MAC addresses, for two *)
(* entries, and instants enough for every entry to be refreshed, evicted   *)
(* and to expire while others are learned.                                 *)
EXTENDS ArpResolver, TLC

CONSTANTS m1, m2

TwoHosts == {1, 2}
ThreeHosts == {1, 2, 3}

OneMac == {m1}
TwoMacs == {m1, m2}

Macs == Permutations(TwoMacs)
================================================================================
