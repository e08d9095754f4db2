------------------------------ MODULE Numbers ------------------------------
(***************************************************************************)
(* U64.c: numbers of one to ten bytes, which hold the sizes of keys and    *)
(* values inside a record. The leading ones of the first byte count the    *)
(* bytes that follow it; bits it has left hold the top of the number.      *)
(*                                                                         *)
(* A number is the sequence of its eight bytes, the lowest first. Memory   *)
(* is the sequence of the ten bytes at the field, in the direction of the  *)
(* field. A size is overwritten in place while readers look at it, so      *)
(* Construct is the sequence of its stores.                                *)
(***************************************************************************)
EXTENDS Integers, SequencesExt

NumberBytes == 1 .. 8
ZeroNumber == [i \in NumberBytes |-> 0]

IsSmaller(a, b) ==
    \E i \in NumberBytes : a[i] < b[i] /\ \A j \in i + 1 .. 8 : a[j] = b[j]

\* The bytes that a number needs, one at least.
DataBytes(v) ==
    CHOOSE n \in NumberBytes : /\ v[n] # 0 \/ n = 1
                               /\ \A j \in n + 1 .. 8 : v[j] = 0

\* A byte that begins with n ones.
Ones(n) == <<0, 128, 192, 224, 240, 248, 252, 254, 255>>[n + 1]

\* Anylize: whether the last byte fits into the bits that the first one has
\* left, and the bytes that follow the first one.
SharesByte(v) == DataBytes(v) < 8 /\ v[DataBytes(v)] < 256 - Ones(DataBytes(v))

ExclusiveBytes(v) == IF SharesByte(v) THEN DataBytes(v) - 1 ELSE DataBytes(v)

IsSmall(v) == v[1] < 128 /\ \A i \in 2 .. 8 : v[i] = 0

\* The longest form has a second byte in front of the data, which is zero.
Skipped(n) == IF n = 8 THEN 1 ELSE 0

EvaluatePhysicalSize(v) ==
    IF IsSmall(v) THEN 1 ELSE 1 + Skipped(ExclusiveBytes(v)) + ExclusiveBytes(v)

\* LEADING_ONE_MAP
LeadingOnes(byte) ==
    IF byte = 255 THEN 8 ELSE CHOOSE n \in 0 .. 7 : Ones(n) <= byte /\ byte < Ones(n + 1)

PhysicalSize(memory) ==
    LET n == LeadingOnes(memory[1])
    IN  IF memory[1] < 128 THEN 1
        ELSE n + (n + 1) \div 8 + (IF (n + 1) % 8 # 0 THEN 1 ELSE 0)

PutByte(at, byte) == [at |-> at, byte |-> byte, keep |-> FALSE]
SetBits(at, byte) == [at |-> at, byte |-> byte, keep |-> TRUE]

\* Mutant of ConstructStores: the ones are set before the data is there.
ConstructStoresControlFirst(v) ==
    LET n == ExclusiveBytes(v)
        data == [i \in 1 .. n |-> PutByte(1 + Skipped(n) + i, v[i])]
    IN  IF IsSmall(v) THEN <<PutByte(1, v[1])>>
        ELSE <<PutByte(1, 0), SetBits(1, Ones(n))>>
             \o (IF n = 8 THEN <<PutByte(2, 0)>> ELSE <<>>) \o data
             \o (IF SharesByte(v) THEN <<SetBits(1, v[n + 1])>> ELSE <<>>)

\* Construct: the first byte, and the second one of the longest form, are
\* cleared, the data bytes stored, then the ones and the shared bits set.
ConstructStores(v) ==
    LET n == ExclusiveBytes(v)
        data == [i \in 1 .. n |-> PutByte(1 + Skipped(n) + i, v[i])]
    IN  IF IsSmall(v) THEN <<PutByte(1, v[1])>>
        ELSE <<PutByte(1, 0)>> \o (IF n = 8 THEN <<PutByte(2, 0)>> ELSE <<>>) \o data
             \o <<SetBits(1, Ones(n))>>
             \o (IF SharesByte(v) THEN <<SetBits(1, v[n + 1])>> ELSE <<>>)

\* Memory before the stores and after each of them; bits that are set were clear
\* before.
Memories(memory, stores) ==
    LET after[n \in 0 .. Len(stores)] ==
            IF n = 0 THEN memory
            ELSE LET s == stores[n]
                 IN  [after[n - 1] EXCEPT ![s.at] = IF s.keep THEN @ + s.byte ELSE s.byte]
    IN  after

AfterStores(memory, stores) == Memories(memory, stores)[Len(stores)]

\* Value: the bytes that follow, topped by the bits that the first byte shares.
NumberAt(memory) ==
    LET n == LeadingOnes(memory[1])
    IN  IF memory[1] < 128 THEN [ZeroNumber EXCEPT ![1] = memory[1]]
        ELSE [i \in NumberBytes |->
                IF i <= n THEN memory[1 + Skipped(n) + i]
                ELSE IF i = n + 1 THEN memory[1] - Ones(n) ELSE 0]

\* Compare: the first bytes, then the others from the top down.
CompareNumbers(a, b) ==
    LET n == LeadingOnes(a[1])
        differ == {i \in 1 .. n : a[1 + Skipped(n) + i] # b[1 + Skipped(n) + i]}
    IN  IF a[1] # b[1] THEN a[1] - b[1]
        ELSE IF differ = {} THEN 0
        ELSE LET i == CHOOSE j \in differ : \A k \in differ : k <= j
             IN  a[1 + Skipped(n) + i] - b[1 + Skipped(n) + i]
=============================================================================
