-------------------------------- MODULE MCHost --------------------------------
(* Names up to one character longer than an ifreq holds, three frames that *)
(* may be longer than the buffer, and a signal.                            *)
EXTENDS Host

MCChar == {"t", "u"}
MCRequestedNames ==
  UNION {[1 .. n -> {"t"}] : n \in 0 .. 4} \cup {<<"t", "NUL">>, <<"u", "t", "NUL">>}
MCGrantedNames == {<<"t">>, <<"t", "t">>}
MCLengths == {1, 2, 4}
================================================================================
