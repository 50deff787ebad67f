---------------------------- MODULE OnesComplement ----------------------------
(***************************************************************************)
(* Sums of 16-bit words in one's complement, as the checksums of IPv4,     *)
(* ICMP, UDP and TCP use them.  A block of bytes enters as the plain sum   *)
(* of its words, so that the blocks of a header add up; module Checksum    *)
(* shows that the loop of checksum.rs computes ChecksumOf of that sum.     *)
(***************************************************************************)
EXTENDS Integers

Ones == 65535
U16  == 0 .. Ones
U8   == 0 .. 255

(* The sum after all its carries are added back in: a number congruent to  *)
(* it modulo 2^16 - 1, and 0 only if every word is 0.                      *)
Reduce(total) == IF total = 0 THEN 0 ELSE 1 + ((total - 1) % Ones)

(* checksum(data), where total is the sum of the words of data.            *)
ChecksumOf(total) == Ones - Reduce(total)

(* What a receiver tests: the checksum of the data with its field is 0.    *)
Validates(total) == ChecksumOf(total) = 0

(* Bytes whose values nobody looks at: len times the same byte.  An odd    *)
(* one at the end is the high half of a word.                              *)
RunSum(fill, len) == ((len \div 2) * (257 * fill)) + ((len % 2) * (256 * fill))

(* The two words of an IPv4 address.                                       *)
IpSum(ip) == (ip \div 65536) + (ip % 65536)

(* The pseudo-header in front of a UDP datagram or a TCP segment.          *)
PseudoHeaderSum(source, destination, protocol, length) ==
  IpSum(source) + IpSum(destination) + protocol + length
================================================================================
