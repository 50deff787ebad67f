------------------------------ MODULE MCChecksum ------------------------------
(* Data of up to seven bytes, with the values that make and stop carries.  *)
EXTENDS Checksum

MCByte == {0, 1, 255}
================================================================================
