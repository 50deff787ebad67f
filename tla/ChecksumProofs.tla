---------------------------- MODULE ChecksumProofs ----------------------------
(***************************************************************************)
(* Proofs about Checksum, for data of any length: the loop keeps the sum   *)
(* congruent to the sum of the words modulo 2^16 - 1, and 0 only while     *)
(* every word is 0; those two facts determine the checksum.                *)
(***************************************************************************)
EXTENDS Checksum, CodecLemmas, SequenceTheorems

TypeInv ==
  /\ Len(data) \in Nat
  /\ \A i \in 1 .. Len(data) : data[i] \in U8
  /\ taken \in 0 .. Len(data)
  /\ sum \in Nat
  /\ total \in Nat
  /\ pc \in {"Words", "Carries", "Done"}

(* What the loop preserves.                                                *)
SumsAgree == Agree(total, sum)

Inv ==
  /\ TypeInv
  /\ SumsAgree
  /\ SumFits
  /\ pc = "Done" => sum <= Ones /\ result = Ones - sum
--------------------------------------------------------------------------------
LEMMA InitInv == Init => Inv
<1> SUFFICES ASSUME Init PROVE Inv
  OBVIOUS
<1>1. PICK n \in 0 .. MaxLen : data \in [1 .. n -> Byte]
  BY DEF Init, Data
<1>2. n \in Nat
  BY ChecksumAssumption DEF ChecksumAssumption
<1>3. data \in Seq(Byte) /\ Len(data) = n
  BY <1>1, <1>2
<1>4. \A i \in 1 .. Len(data) : data[i] \in U8
  BY <1>1, <1>3, ChecksumAssumption DEF ChecksumAssumption
<1>5. TypeInv
  BY <1>2, <1>3, <1>4 DEF Init, TypeInv
<1>6. SumsAgree
  BY AgreeReflexive DEF Init, SumsAgree
<1> QED
  BY <1>5, <1>6 DEF Init, Inv, SumFits

(* A word enters the sum and the total alike, and folding loses nothing.   *)
LEMMA AddWordInv == Inv /\ AddWord => Inv'
<1> SUFFICES ASSUME Inv, AddWord PROVE Inv'
  OBVIOUS
<1> DEFINE word == 256 * data[taken + 1] + data[taken + 2]
<1>1. taken + 1 \in 1 .. Len(data) /\ taken + 2 \in 1 .. Len(data)
  BY DEF Inv, TypeInv, AddWord
<1>2. /\ data[taken + 1] \in Nat /\ data[taken + 1] <= 255
      /\ data[taken + 2] \in Nat /\ data[taken + 2] <= 255
  BY <1>1, U8Bound DEF Inv, TypeInv
<1>3. word \in Nat /\ word <= 65535
  BY <1>2
<1>4. sum' = Fold(sum + word) /\ total' = total + word
  BY DEF AddWord
<1> HIDE DEF word
<1>5. sum \in Nat /\ total \in Nat /\ sum <= 65536
  BY DEF Inv, TypeInv, SumFits, AddWord
<1>6. sum + word \in Nat /\ total + word \in Nat /\ sum + word <= 131071
  BY <1>3, <1>5
<1>7. Agree(total + word, sum + word)
  BY <1>3, <1>5, AgreeAdd DEF Inv, SumsAgree
<1>8. Agree(total + word, Fold(sum + word))
  BY <1>6, <1>7, AgreeFold DEF Fold
<1>9. Fold(sum + word) \in Nat /\ Fold(sum + word) <= 65536
  BY <1>6 DEF Fold
<1>10. TypeInv'
  BY <1>1, <1>4, <1>6, <1>9 DEF Inv, TypeInv, AddWord
<1>11. SumsAgree'
  BY <1>4, <1>8 DEF SumsAgree
<1> QED
  BY <1>4, <1>9, <1>10, <1>11 DEF Inv, SumFits, AddWord

LEMMA AddRemainderInv == Inv /\ AddRemainder => Inv'
<1> SUFFICES ASSUME Inv, AddRemainder PROVE Inv'
  OBVIOUS
<1> DEFINE word == IF taken < Len(data) THEN 256 * data[taken + 1] ELSE 0
<1>1. word \in Nat /\ word <= 65280
  <2>1. CASE taken < Len(data)
    <3>1. data[taken + 1] \in Nat /\ data[taken + 1] <= 255
      BY <2>1, U8Bound DEF Inv, TypeInv
    <3> QED
      BY <2>1, <3>1
  <2>2. CASE ~ taken < Len(data)
    BY <2>2
  <2> QED
    BY <2>1, <2>2
<1>2. sum' = sum + word /\ total' = total + word /\ taken' = Len(data)
  BY DEF AddRemainder
<1> HIDE DEF word
<1>3. sum \in Nat /\ total \in Nat /\ sum <= 65536 /\ Len(data) \in Nat
  BY DEF Inv, TypeInv, SumFits, AddRemainder
<1>4. Agree(total + word, sum + word)
  BY <1>1, <1>3, AgreeAdd DEF Inv, SumsAgree
<1>5. TypeInv'
  BY <1>1, <1>2, <1>3 DEF Inv, TypeInv, AddRemainder
<1>6. SumsAgree'
  BY <1>2, <1>4 DEF SumsAgree
<1>7. SumFits'
  BY <1>1, <1>2, <1>3 DEF SumFits, AddRemainder
<1> QED
  BY <1>5, <1>6, <1>7 DEF Inv, AddRemainder

LEMMA FoldCarriesInv == Inv /\ FoldCarries => Inv'
<1> SUFFICES ASSUME Inv, FoldCarries PROVE Inv'
  OBVIOUS
<1>1. sum \in Nat /\ total \in Nat /\ sum <= 65536 + 65280
  BY DEF Inv, TypeInv, SumFits
<1>2. Fold(sum) \in Nat /\ Fold(sum) <= 65536
  BY <1>1 DEF Fold
<1>3. Agree(total, Fold(sum))
  BY <1>1, AgreeFold DEF Fold, Inv, SumsAgree
<1> QED
  BY <1>2, <1>3 DEF Inv, TypeInv, SumsAgree, SumFits, FoldCarries

LEMMA ReturnInv == Inv /\ Return => Inv'
<1> SUFFICES ASSUME Inv, Return PROVE Inv'
  OBVIOUS
<1>1. sum \in Nat /\ sum <= Ones
  BY DEF Inv, TypeInv, Return, Ones
<1> QED
  BY <1>1 DEF Inv, TypeInv, SumsAgree, SumFits, Return

LEMMA StutterInv == Inv /\ UNCHANGED vars => Inv'
BY DEF Inv, TypeInv, SumsAgree, SumFits, vars

THEOREM InvHolds == Spec => []Inv
<1>1. Inv /\ [Next]_vars => Inv'
  BY AddWordInv, AddRemainderInv, FoldCarriesInv, ReturnInv, StutterInv DEF Next
<1> QED
  BY InitInv, <1>1, PTL DEF Spec

(* The 32-bit accumulator of the loop never overflows, whatever the data.  *)
THEOREM SumNeverOverflows == Spec => []SumFits
<1>1. Inv => SumFits
  BY DEF Inv
<1> QED
  BY InvHolds, <1>1, PTL

(* The loop of checksum.rs computes the one's-complement checksum, for     *)
(* data of every length and value.                                         *)
THEOREM LoopComputesChecksum == Spec => []ResultIsChecksum
<1>1. Inv => ResultIsChecksum
  <2> SUFFICES ASSUME Inv, pc = "Done"
               PROVE  result = ChecksumOf(total) /\ Validates(total + result)
    BY DEF ResultIsChecksum
  <2>1. /\ sum \in Nat /\ sum <= 65535 /\ total \in Nat
        /\ result = Ones - sum /\ Agree(total, sum)
    BY DEF Inv, TypeInv, SumsAgree, Ones
  <2>2. Reduce(total) = sum
    BY <2>1, ReducedIsUnique
  <2> QED
    BY <2>1, <2>2, FieldValidates DEF ChecksumOf
<1> QED
  BY InvHolds, <1>1, PTL
================================================================================
