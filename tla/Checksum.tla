------------------------------- MODULE Checksum -------------------------------
(***************************************************************************)
(* checksum(data) of checksum.rs, one step per turn of a loop: the words   *)
(* of data are added with at most one carry folded in at each, then a byte *)
(* left over, then the carries that remain.                                *)
(***************************************************************************)
EXTENDS OnesComplement, Sequences

CONSTANTS
  Byte,     \* the values of the bytes
  MaxLen    \* bounds the data

ASSUME ChecksumAssumption ==
  /\ Byte \subseteq U8
  /\ MaxLen \in Nat

VARIABLES
  data,
  taken,    \* how many of its bytes have been added
  sum,      \* a u32
  pc,
  result,   \* a u16
  total     \* history: the sum of the words, as a number

vars == <<data, taken, sum, pc, result, total>>

Data == UNION {[1 .. n -> Byte] : n \in 0 .. MaxLen}

Init ==
  /\ data \in Data
  /\ taken = 0
  /\ sum = 0
  /\ pc = "Words"
  /\ result = 0
  /\ total = 0

(* Mutant: the carry is cut off.                                           *)
CutFold(n) == n % 65536

(* (n & 0xffff) + (n >> 16)                                                *)
Fold(n) == (n % 65536) + (n \div 65536)

(* Mutant: the carries wait until the end.                                 *)
AddWordUnfolded ==
  LET word == 256 * data[taken + 1] + data[taken + 2] IN
  /\ pc = "Words" /\ taken + 2 <= Len(data)
  /\ sum' = sum + word
  /\ total' = total + word
  /\ taken' = taken + 2
  /\ UNCHANGED <<data, pc, result>>

AddWord ==
  LET word == 256 * data[taken + 1] + data[taken + 2] IN
  /\ pc = "Words" /\ taken + 2 <= Len(data)
  /\ sum' = Fold(sum + word)
  /\ total' = total + word
  /\ taken' = taken + 2
  /\ UNCHANGED <<data, pc, result>>

(* The remainder after the whole words: a byte, or nothing.                *)
AddRemainder ==
  LET word == IF taken < Len(data) THEN 256 * data[taken + 1] ELSE 0 IN
  /\ pc = "Words" /\ taken + 2 > Len(data)
  /\ sum' = sum + word
  /\ total' = total + word
  /\ taken' = Len(data)
  /\ pc' = "Carries"
  /\ UNCHANGED <<data, result>>

(* Mutant: a turn of the loop that tests the carry and leaves it there.    *)
KeepCarries ==
  /\ pc = "Carries" /\ sum \div 65536 # 0
  /\ sum' = sum
  /\ UNCHANGED <<data, taken, pc, result, total>>

FoldCarries ==
  /\ pc = "Carries" /\ sum \div 65536 # 0
  /\ sum' = Fold(sum)
  /\ UNCHANGED <<data, taken, pc, result, total>>

(* The carries are gone, and the sum is inverted in 16 bits.               *)
Return ==
  /\ pc = "Carries" /\ sum \div 65536 = 0
  /\ result' = Ones - sum
  /\ pc' = "Done"
  /\ UNCHANGED <<data, taken, sum, total>>

Next == AddWord \/ AddRemainder \/ FoldCarries \/ Return

Spec == Init /\ [][Next]_vars /\ WF_vars(Next)
--------------------------------------------------------------------------------
(* The sum stays far below 2^32 however long the data is, because a carry  *)
(* is folded in at every word.                                             *)
SumFits ==
  /\ pc = "Words" => sum <= 65536
  /\ sum <= 65536 + 65280

(* The result is the one's-complement checksum of the words: in particular *)
(* a checksum placed in the data makes the whole validate.                 *)
ResultIsChecksum ==
  pc = "Done" =>
    /\ result = ChecksumOf(total)
    /\ Validates(total + result)

(* The function returns: the carries run out.                              *)
Terminates == <>(pc = "Done")
================================================================================
