--------------------------- MODULE AlgorithmsProofs ---------------------------
(***************************************************************************)
(* Proofs about the algorithms on private data (module Algorithms), for    *)
(* any keys, any index and any bounds and counts a caller may give.        *)
(***************************************************************************)
EXTENDS Algorithms, IndexOpsProofs, FiniteSetTheorems

Text == Seq(Int)

-----------------------------------------------------------------------------
(* The order of keys.                                                      *)

\* What Compare looks for: a first difference, or an end.
Agree(a, b, k) == \A j \in 1..k : a[j] = b[j]
Before(a, b) ==
    \/ \E k \in (1..Len(a)) \cap (1..Len(b)) : a[k] < b[k] /\ Agree(a, b, k - 1)
    \/ Len(a) < Len(b) /\ Agree(a, b, Len(a))

LEMMA TextIs ==
    ASSUME NEW a \in Text
    PROVE  Len(a) \in Nat /\ DOMAIN a = 1..Len(a) /\ \A i \in 1..Len(a) : a[i] \in Int
BY DEF Text

\* The first difference of two texts, when they have one.
LEMMA FirstDifference ==
    ASSUME NEW a \in Text, NEW b \in Text,
           NEW k \in (1..Len(a)) \cap (1..Len(b)), a[k] # b[k]
    PROVE  \E m \in (1..Len(a)) \cap (1..Len(b)) :
              /\ a[m] # b[m] /\ Agree(a, b, m - 1)
              /\ Compare(a, b) = a[m] - b[m]
<1> DEFINE common == {i \in (DOMAIN a) \cap (DOMAIN b) : a[i] # b[i]}
<1>1. common = {i \in (1..Len(a)) \cap (1..Len(b)) : a[i] # b[i]}
  BY TextIs
<1>2. common \in SUBSET Nat /\ k \in common
  BY <1>1
<1>3. PICK m \in common : \A i \in common : m <= i
  <2> HIDE DEF common
  <2>1. QED
    BY <1>2, LeastNatural
<1>4. Agree(a, b, m - 1)
  <2>1. ASSUME NEW j \in 1..(m - 1), a[j] # b[j] PROVE FALSE
    <3>1. m \in Nat /\ m <= Len(a) /\ m <= Len(b) /\ Len(a) \in Nat /\ Len(b) \in Nat
      BY <1>1, <1>3, TextIs
    <3>2. j \in common /\ ~(m <= j)
      BY <1>1, <2>1, <3>1
    <3>3. QED
      BY <1>3, <3>2
  <2>2. QED
    BY <2>1 DEF Agree
<1>5. (CHOOSE j \in common : \A i \in common : j <= i) = m
  <2>1. \A j \in common : (\A i \in common : j <= i) => j = m
    BY <1>2, <1>3
  <2> HIDE DEF common
  <2>2. QED
    BY <1>3, <2>1
<1>6. common # {}
  BY <1>2
<1>7. Compare(a, b) = a[m] - b[m]
  BY <1>5, <1>6 DEF Compare
<1>8. QED
  BY <1>1, <1>3, <1>4, <1>7

LEMMA NoDifference ==
    ASSUME NEW a \in Text, NEW b \in Text,
           \A k \in (1..Len(a)) \cap (1..Len(b)) : a[k] = b[k]
    PROVE  Compare(a, b) = Len(a) - Len(b)
<1>1. {i \in (DOMAIN a) \cap (DOMAIN b) : a[i] # b[i]} = {}
  BY TextIs
<1>2. QED
  BY <1>1 DEF Compare

LEMMA LessIs ==
    ASSUME NEW a \in Text, NEW b \in Text
    PROVE  Less(a, b) <=> Before(a, b)
<1>1. CASE \A k \in (1..Len(a)) \cap (1..Len(b)) : a[k] = b[k]
  <2>1. Compare(a, b) = Len(a) - Len(b) /\ Len(a) \in Nat /\ Len(b) \in Nat
    BY <1>1, NoDifference, TextIs
  <2>2. Less(a, b) <=> Len(a) < Len(b)
    BY <2>1 DEF Less
  <2>3. Len(a) < Len(b) => Agree(a, b, Len(a))
    BY <1>1, <2>1 DEF Agree
  <2>4. \A k \in (1..Len(a)) \cap (1..Len(b)) : ~(a[k] < b[k])
    BY <1>1, TextIs
  <2>5. QED
    BY <2>2, <2>3, <2>4 DEF Before
<1>2. ASSUME NEW k \in (1..Len(a)) \cap (1..Len(b)), a[k] # b[k]
      PROVE  Less(a, b) <=> Before(a, b)
  <2>1. PICK m \in (1..Len(a)) \cap (1..Len(b)) :
            a[m] # b[m] /\ Agree(a, b, m - 1) /\ Compare(a, b) = a[m] - b[m]
    BY <1>2, FirstDifference
  <2>2. /\ Len(a) \in Nat /\ Len(b) \in Nat /\ a[m] \in Int /\ b[m] \in Int
        /\ m \in Nat /\ 1 <= m /\ m <= Len(a) /\ m <= Len(b)
    BY TextIs
  <2>3. Less(a, b) <=> a[m] < b[m]
    BY <2>1, <2>2 DEF Less
  <2>4. ASSUME a[m] < b[m] PROVE Before(a, b)
    BY <2>1, <2>4 DEF Before
  <2>5. ASSUME Before(a, b) PROVE a[m] < b[m]
    <3>1. ~(Len(a) < Len(b) /\ Agree(a, b, Len(a)))
      BY <2>1, <2>2 DEF Agree
    <3>2. PICK n \in (1..Len(a)) \cap (1..Len(b)) : a[n] < b[n] /\ Agree(a, b, n - 1)
      BY <2>5, <3>1 DEF Before
    <3>3. n \in Nat /\ 1 <= n /\ a[n] \in Int /\ b[n] \in Int
      BY TextIs
    <3>4. ~(m < n)
      BY <2>1, <2>2, <3>2, <3>3 DEF Agree
    <3>5. ~(n < m)
      BY <2>1, <2>2, <3>2, <3>3 DEF Agree
    <3>6. n = m
      BY <2>2, <3>3, <3>4, <3>5
    <3>7. QED
      BY <3>2, <3>6
  <2>6. QED
    BY <2>3, <2>4, <2>5
<1>3. QED
  BY <1>1, <1>2

LEMMA LessExcludes ==
    ASSUME NEW a \in Text, NEW b \in Text, Less(a, b)
    PROVE  a # b /\ ~Less(b, a)
<1>1. Before(a, b)
  BY LessIs
<1>2. Len(a) \in Nat /\ Len(b) \in Nat
  BY TextIs
<1>3. CASE Len(a) < Len(b) /\ Agree(a, b, Len(a))
  <2>1. a # b
    BY <1>2, <1>3
  <2>2. ASSUME NEW k \in (1..Len(a)) \cap (1..Len(b)) PROVE ~(b[k] < a[k])
    <3>1. a[k] = b[k] /\ a[k] \in Int
      BY <1>3, TextIs DEF Agree
    <3>2. QED
      BY <3>1
  <2>3. ~Before(b, a)
    BY <1>2, <1>3, <2>2 DEF Before
  <2>4. QED
    BY <2>1, <2>3, LessIs
<1>4. ASSUME NEW m \in (1..Len(a)) \cap (1..Len(b)), a[m] < b[m], Agree(a, b, m - 1)
      PROVE  a # b /\ ~Less(b, a)
  <2>1. m \in Nat /\ 1 <= m /\ m <= Len(a) /\ m <= Len(b) /\ a[m] \in Int /\ b[m] \in Int
    BY TextIs
  <2>2. a # b
    BY <1>4, <2>1
  <2>3. ~(Len(b) < Len(a) /\ Agree(b, a, Len(b)))
    BY <1>2, <1>4, <2>1 DEF Agree
  <2>4. ASSUME NEW n \in (1..Len(a)) \cap (1..Len(b)), b[n] < a[n], Agree(b, a, n - 1)
        PROVE  FALSE
    <3>1. n \in Nat /\ 1 <= n /\ a[n] \in Int /\ b[n] \in Int
      BY TextIs
    <3>2. ~(m < n)
      BY <1>4, <2>1, <2>4, <3>1 DEF Agree
    <3>3. ~(n < m)
      BY <1>4, <2>1, <2>4, <3>1 DEF Agree
    <3>4. n = m
      BY <2>1, <3>1, <3>2, <3>3
    <3>5. QED
      BY <1>4, <2>1, <2>4, <3>4
  <2>5. ~Before(b, a)
    BY <2>3, <2>4 DEF Before
  <2>6. QED
    BY <2>2, <2>5, LessIs
<1>5. QED
  BY <1>1, <1>3, <1>4 DEF Before

LEMMA LessTotal ==
    ASSUME NEW a \in Text, NEW b \in Text, a # b
    PROVE  Less(a, b) \/ Less(b, a)
<1>1. Len(a) \in Nat /\ Len(b) \in Nat
  BY TextIs
<1>2. CASE \A k \in (1..Len(a)) \cap (1..Len(b)) : a[k] = b[k]
  <2>1. Compare(a, b) = Len(a) - Len(b) /\ Compare(b, a) = Len(b) - Len(a)
    BY <1>2, NoDifference
  <2>2. Len(a) # Len(b)
    <3>1. ASSUME Len(a) = Len(b) PROVE a = b
      <4>1. \A i \in 1..Len(a) : a[i] = b[i]
        BY <1>2, <3>1
      <4>2. QED
        BY <3>1, <4>1, SeqEqual DEF Text
    <3>2. QED
      BY <3>1
  <2>3. QED
    BY <1>1, <2>1, <2>2 DEF Less
<1>3. ASSUME NEW k \in (1..Len(a)) \cap (1..Len(b)), a[k] # b[k]
      PROVE  Less(a, b) \/ Less(b, a)
  <2>1. PICK m \in (1..Len(a)) \cap (1..Len(b)) : a[m] # b[m] /\ Agree(a, b, m - 1)
    BY <1>3, FirstDifference
  <2>2. a[m] \in Int /\ b[m] \in Int /\ m \in Nat
    BY TextIs
  <2>3. Agree(b, a, m - 1)
    BY <2>1 DEF Agree
  <2>4. a[m] < b[m] \/ b[m] < a[m]
    BY <2>1, <2>2
  <2>5. Before(a, b) \/ Before(b, a)
    BY <2>1, <2>3, <2>4 DEF Before
  <2>6. QED
    BY <2>5, LessIs
<1>4. QED
  BY <1>2, <1>3

LEMMA LessTransitive ==
    ASSUME NEW a \in Text, NEW b \in Text, NEW c \in Text, Less(a, b), Less(b, c)
    PROVE  Less(a, c)
<1>1. Before(a, b) /\ Before(b, c)
  BY LessIs
<1>2. Len(a) \in Nat /\ Len(b) \in Nat /\ Len(c) \in Nat
  BY TextIs
<1>3. CASE Len(a) < Len(b) /\ Agree(a, b, Len(a)) /\ Len(b) < Len(c) /\ Agree(b, c, Len(b))
  <2>1. Len(a) < Len(c) /\ Agree(a, c, Len(a))
    BY <1>2, <1>3 DEF Agree
  <2>2. QED
    BY <2>1, LessIs DEF Before
<1>4. ASSUME NEW m \in (1..Len(a)) \cap (1..Len(b)), a[m] < b[m], Agree(a, b, m - 1),
             Len(b) < Len(c), Agree(b, c, Len(b))
      PROVE  Before(a, c)
  <2>1. m \in (1..Len(a)) \cap (1..Len(c)) /\ m \in Nat /\ 1 <= m /\ m <= Len(b)
    BY <1>2, <1>4
  <2>2. a[m] < c[m]
    BY <1>4, <2>1 DEF Agree
  <2>3. Agree(a, c, m - 1)
    BY <1>2, <1>4, <2>1 DEF Agree
  <2>4. QED
    BY <2>1, <2>2, <2>3 DEF Before
<1>5. ASSUME NEW n \in (1..Len(b)) \cap (1..Len(c)), b[n] < c[n], Agree(b, c, n - 1),
             Len(a) < Len(b), Agree(a, b, Len(a))
      PROVE  Before(a, c)
  <2>1. n \in Nat /\ 1 <= n /\ n <= Len(c) /\ n <= Len(b)
    BY <1>2
  <2>2. CASE n <= Len(a)
    <3>1. n \in (1..Len(a)) \cap (1..Len(c)) /\ a[n] = b[n]
      BY <1>2, <1>5, <2>1, <2>2 DEF Agree
    <3>2. Agree(a, c, n - 1)
      BY <1>2, <1>5, <2>1, <2>2 DEF Agree
    <3>3. QED
      BY <1>5, <3>1, <3>2 DEF Before
  <2>3. CASE Len(a) < n
    <3>1. Len(a) < Len(c)
      BY <1>2, <2>1, <2>3
    <3>2. Agree(a, c, Len(a))
      BY <1>2, <1>5, <2>1, <2>3 DEF Agree
    <3>3. QED
      BY <3>1, <3>2 DEF Before
  <2>4. QED
    BY <1>2, <2>1, <2>2, <2>3
<1>6. ASSUME NEW m \in (1..Len(a)) \cap (1..Len(b)), a[m] < b[m], Agree(a, b, m - 1),
             NEW n \in (1..Len(b)) \cap (1..Len(c)), b[n] < c[n], Agree(b, c, n - 1)
      PROVE  Before(a, c)
  <2>1. /\ m \in Nat /\ 1 <= m /\ m <= Len(a) /\ m <= Len(b)
        /\ n \in Nat /\ 1 <= n /\ n <= Len(b) /\ n <= Len(c)
        /\ a[m] \in Int /\ b[m] \in Int /\ b[n] \in Int /\ c[n] \in Int
    BY TextIs
  <2>2. CASE m < n
    <3>1. m \in (1..Len(a)) \cap (1..Len(c)) /\ b[m] = c[m]
      BY <1>2, <1>6, <2>1, <2>2 DEF Agree
    <3>2. Agree(a, c, m - 1)
      BY <1>2, <1>6, <2>1, <2>2 DEF Agree
    <3>3. QED
      BY <1>6, <3>1, <3>2 DEF Before
  <2>3. CASE n < m
    <3>1. n \in (1..Len(a)) \cap (1..Len(c)) /\ a[n] = b[n]
      BY <1>2, <1>6, <2>1, <2>3 DEF Agree
    <3>2. Agree(a, c, n - 1)
      BY <1>2, <1>6, <2>1, <2>3 DEF Agree
    <3>3. QED
      BY <1>6, <3>1, <3>2 DEF Before
  <2>4. CASE n = m
    <3>1. n \in (1..Len(a)) \cap (1..Len(c)) /\ c[n] \in Int
      BY <2>1, <2>4
    <3>2. a[n] < c[n]
      BY <1>6, <2>1, <2>4
    <3>3. Agree(a, c, n - 1)
      BY <1>6, <2>4 DEF Agree
    <3>4. QED
      BY <3>1, <3>2, <3>3 DEF Before
  <2>5. QED
    BY <2>1, <2>2, <2>3, <2>4
<1>7. Before(a, c)
  BY <1>1, <1>3, <1>4, <1>5, <1>6, LessIs DEF Before
<1>8. QED
  BY <1>7, LessIs

-----------------------------------------------------------------------------
(* The two searches of a Find.                                             *)

SortedTexts(index) ==
    /\ index \in Seq(Text)
    /\ \A i, j \in DOMAIN index : i < j => Less(index[i], index[j])

\* A set of positions that has each position below one of its own.
LEMMA InitialPositions ==
    ASSUME NEW n \in Nat, NEW S \in SUBSET (1..n),
           \A i \in S, j \in 1..n : j < i => j \in S
    PROVE  \E c \in 0..n : S = 1..c /\ Cardinality(S) = c
<1> DEFINE out == {m \in 0..n : m + 1 \notin S}
<1>1. n \in out /\ out \in SUBSET Nat
  OBVIOUS
<1>2. PICK c \in out : \A m \in out : c <= m
  <2> HIDE DEF out
  <2>1. QED
    BY <1>1, LeastNatural
<1>3. c \in 0..n /\ c + 1 \notin S
  BY <1>2
<1>4. ASSUME NEW i \in 1..c PROVE i \in S
  <2>1. i - 1 \in 0..n /\ ~(c <= i - 1) /\ i - 1 + 1 = i
    BY <1>3
  <2>2. i - 1 \notin out
    BY <1>2, <2>1
  <2>3. QED
    BY <2>1, <2>2
<1>5. ASSUME NEW i \in S PROVE i \in 1..c
  <2>1. i \in 1..n
    OBVIOUS
  <2>2. ASSUME c < i PROVE FALSE
    <3>1. c + 1 \in 1..n /\ (c + 1 = i \/ c + 1 < i)
      BY <1>3, <2>1, <2>2
    <3>2. QED
      BY <1>3, <3>1
  <2>3. QED
    BY <1>3, <2>1, <2>2
<1>6. S = 1..c
  BY <1>4, <1>5
<1>7. Cardinality(1..c) = c
  BY <1>3, FS_Interval
<1>8. QED
  BY <1>3, <1>6, <1>7

\* _Search counts the slots of smaller keys.
LEMMA SearchCounts ==
    ASSUME NEW index, SortedTexts(index), NEW key \in Text
    PROVE  \E c \in 0..Len(index) :
              /\ \A i \in 1..Len(index) : Less(index[i], key) <=> i <= c
              /\ \/ c < Len(index) /\ index[c + 1] = key /\ Search(index, key) = c
                 \/ (\A i \in 1..Len(index) : index[i] # key) /\ Search(index, key) = -c - 1
<1> DEFINE S == {i \in DOMAIN index : Less(index[i], key)}
<1>1. /\ index \in Seq(Text) /\ Len(index) \in Nat /\ DOMAIN index = 1..Len(index)
      /\ \A i \in 1..Len(index) : index[i] \in Text
  BY DEF SortedTexts
<1>2. PICK n \in Nat : n = Len(index)
  BY <1>1
<1>3. S \in SUBSET (1..n)
  BY <1>1, <1>2
<1>4. ASSUME NEW i \in S, NEW j \in 1..n, j < i PROVE j \in S
  <2>1. i \in 1..n /\ Less(index[j], index[i]) /\ Less(index[i], key)
    BY <1>1, <1>2, <1>4 DEF SortedTexts
  <2>2. Less(index[j], key)
    BY <1>1, <1>2, <2>1, LessTransitive
  <2>3. QED
    BY <1>1, <1>2, <2>2
<1>5. PICK c \in 0..n : S = 1..c /\ Cardinality(S) = c
  <2> HIDE DEF S
  <2>1. QED
    BY <1>3, <1>4, InitialPositions
<1>6. ASSUME NEW i \in 1..n PROVE Less(index[i], key) <=> i <= c
  <2>1. i \in S <=> Less(index[i], key)
    BY <1>1, <1>2
  <2>2. i \in 1..c <=> i <= c
    BY <1>5
  <2>3. QED
    BY <1>5, <2>1, <2>2
<1>7. CASE key \in Range(index)
  <2>1. PICK k \in 1..n : index[k] = key
    BY <1>1, <1>2, <1>7 DEF Range
  <2>2. ~Less(key, key)
    BY LessExcludes
  <2>3. c < k
    BY <1>6, <2>1, <2>2
  <2>4. ASSUME c + 1 < k PROVE FALSE
    <3>1. c + 1 \in 1..n /\ Less(index[c + 1], index[k])
      BY <1>1, <1>2, <2>1, <2>4 DEF SortedTexts
    <3>2. QED
      BY <1>6, <2>1, <3>1
  <2>5. k = c + 1
    BY <2>1, <2>3, <2>4
  <2>6. Search(index, key) = c
    BY <1>5, <1>7 DEF Search
  <2>7. QED
    BY <1>2, <1>6, <2>1, <2>5, <2>6
<1>8. CASE key \notin Range(index)
  <2>1. \A i \in 1..n : index[i] # key
    BY <1>1, <1>2, <1>8 DEF Range
  <2>2. Search(index, key) = -c - 1
    BY <1>5, <1>8 DEF Search
  <2>3. QED
    BY <1>2, <1>6, <2>1, <2>2
<1>9. QED
  BY <1>7, <1>8

\* The first order whose key is behind the low bound.
LEMMA LowIs ==
    ASSUME NEW index, SortedTexts(index), NEW key \in Text, NEW closed \in BOOLEAN
    PROVE  /\ LowOrder(Search(index, key), closed) \in 0..Len(index)
           /\ \A n \in 0..(Len(index) - 1) :
                 Less(key, index[n + 1]) \/ (closed /\ key = index[n + 1])
                 <=> LowOrder(Search(index, key), closed) <= n
<1>1. PICK c \in 0..Len(index) :
          /\ \A i \in 1..Len(index) : Less(index[i], key) <=> i <= c
          /\ \/ c < Len(index) /\ index[c + 1] = key /\ Search(index, key) = c
             \/ (\A i \in 1..Len(index) : index[i] # key) /\ Search(index, key) = -c - 1
  BY SearchCounts
<1>2. Len(index) \in Nat /\ \A i \in 1..Len(index) : index[i] \in Text
  BY DEF SortedTexts
<1>3. \A n \in 0..(Len(index) - 1) : n + 1 \in 1..Len(index)
  BY <1>2
<1>4. ASSUME NEW i \in 1..Len(index), index[i] # key
      PROVE  Less(key, index[i]) <=> c < i
  <2>1. Less(key, index[i]) <=> ~Less(index[i], key)
    BY <1>2, <1>4, LessExcludes, LessTotal
  <2>2. Less(index[i], key) <=> i <= c
    BY <1>1
  <2>3. QED
    BY <2>1, <2>2
<1>5. CASE c < Len(index) /\ index[c + 1] = key /\ Search(index, key) = c
  <2>1. ASSUME NEW i \in 1..Len(index) PROVE index[i] = key <=> i = c + 1
    <3>1. c + 1 \in 1..Len(index)
      BY <1>2, <1>5
    <3>2. ~Less(key, key)
      BY LessExcludes
    <3>3. ASSUME index[i] = key PROVE ~(i < c + 1) /\ ~(c + 1 < i)
      <4>1. i < c + 1 => Less(index[i], index[c + 1])
        BY <1>2, <3>1 DEF SortedTexts
      <4>2. c + 1 < i => Less(index[c + 1], index[i])
        BY <1>2, <3>1 DEF SortedTexts
      <4>3. QED
        BY <1>5, <3>2, <3>3, <4>1, <4>2
    <3>4. QED
      BY <1>5, <3>1, <3>3
  <2>2. ~Less(key, key)
    BY LessExcludes
  <2>3. LowOrder(Search(index, key), closed) = IF closed THEN c ELSE c + 1
    BY <1>5 DEF LowOrder
  <2>4. ASSUME NEW n \in 0..(Len(index) - 1)
        PROVE  Less(key, index[n + 1]) \/ (closed /\ key = index[n + 1])
               <=> (IF closed THEN c ELSE c + 1) <= n
    <3>1. CASE index[n + 1] = key
      <4>1. n = c
        BY <1>3, <2>1, <3>1
      <4>2. QED
        BY <2>2, <3>1, <4>1
    <3>2. CASE index[n + 1] # key
      <4>1. n # c /\ (Less(key, index[n + 1]) <=> c < n + 1)
        BY <1>3, <1>4, <1>5, <3>2
      <4>2. QED
        BY <3>2, <4>1
    <3>3. QED
      BY <3>1, <3>2
  <2>5. QED
    BY <1>2, <1>5, <2>3, <2>4
<1>6. CASE (\A i \in 1..Len(index) : index[i] # key) /\ Search(index, key) = -c - 1
  <2>1. LowOrder(Search(index, key), closed) = c
    BY <1>6 DEF LowOrder
  <2>2. ASSUME NEW n \in 0..(Len(index) - 1)
        PROVE  Less(key, index[n + 1]) \/ (closed /\ key = index[n + 1]) <=> c <= n
    <3>1. index[n + 1] # key /\ (Less(key, index[n + 1]) <=> c < n + 1)
      BY <1>3, <1>4, <1>6
    <3>2. QED
      BY <3>1
  <2>3. QED
    BY <2>1, <2>2
<1>7. QED
  BY <1>1, <1>5, <1>6

\* The last order whose key is in front of the high bound.
LEMMA HighIs ==
    ASSUME NEW index, SortedTexts(index), NEW key \in Text, NEW closed \in BOOLEAN
    PROVE  /\ HighOrder(Search(index, key), closed) \in -1..(Len(index) - 1)
           /\ \A n \in 0..(Len(index) - 1) :
                 Less(index[n + 1], key) \/ (closed /\ index[n + 1] = key)
                 <=> n <= HighOrder(Search(index, key), closed)
<1>1. PICK c \in 0..Len(index) :
          /\ \A i \in 1..Len(index) : Less(index[i], key) <=> i <= c
          /\ \/ c < Len(index) /\ index[c + 1] = key /\ Search(index, key) = c
             \/ (\A i \in 1..Len(index) : index[i] # key) /\ Search(index, key) = -c - 1
  BY SearchCounts
<1>2. Len(index) \in Nat /\ \A i \in 1..Len(index) : index[i] \in Text
  BY DEF SortedTexts
<1>3. \A n \in 0..(Len(index) - 1) : n + 1 \in 1..Len(index)
  BY <1>2
<1>4. CASE c < Len(index) /\ index[c + 1] = key /\ Search(index, key) = c
  <2>1. ASSUME NEW i \in 1..Len(index) PROVE index[i] = key => i = c + 1
    <3>1. c + 1 \in 1..Len(index) /\ ~Less(key, key)
      BY <1>2, <1>4, LessExcludes
    <3>2. ASSUME index[i] = key PROVE ~(i < c + 1) /\ ~(c + 1 < i)
      <4>1. i < c + 1 => Less(index[i], index[c + 1])
        BY <1>2, <3>1 DEF SortedTexts
      <4>2. c + 1 < i => Less(index[c + 1], index[i])
        BY <1>2, <3>1 DEF SortedTexts
      <4>3. QED
        BY <1>4, <3>1, <3>2, <4>1, <4>2
    <3>3. QED
      BY <3>1, <3>2
  <2>2. HighOrder(Search(index, key), closed) = IF closed THEN c ELSE c - 1
    BY <1>4 DEF HighOrder
  <2>3. ASSUME NEW n \in 0..(Len(index) - 1)
        PROVE  Less(index[n + 1], key) \/ (closed /\ index[n + 1] = key)
               <=> n <= (IF closed THEN c ELSE c - 1)
    <3>1. Less(index[n + 1], key) <=> n + 1 <= c
      BY <1>1, <1>3
    <3>2. index[n + 1] = key <=> n = c
      BY <1>3, <1>4, <2>1
    <3>3. QED
      BY <3>1, <3>2
  <2>4. QED
    BY <1>2, <1>4, <2>2, <2>3
<1>5. CASE (\A i \in 1..Len(index) : index[i] # key) /\ Search(index, key) = -c - 1
  <2>1. HighOrder(Search(index, key), closed) = c - 1
    BY <1>5 DEF HighOrder
  <2>2. ASSUME NEW n \in 0..(Len(index) - 1)
        PROVE  Less(index[n + 1], key) \/ (closed /\ index[n + 1] = key) <=> n <= c - 1
    <3>1. index[n + 1] # key /\ (Less(index[n + 1], key) <=> n + 1 <= c)
      BY <1>1, <1>3, <1>5
    <3>2. QED
      BY <3>1
  <2>3. QED
    BY <1>2, <2>1, <2>2
<1>6. QED
  BY <1>1, <1>4, <1>5

-----------------------------------------------------------------------------
(* The window of a Find, in unsigned words.                                *)

LEMMA HalfWord == Word \in Nat /\ Word \div 2 \in Nat /\ Word = 2 * (Word \div 2) /\ 0 < Word
BY WordAssumption

\* Small numbers, of either sign.
LEMMA SmallWords ==
    /\ \A x \in Nat : x < Word => Unsigned(x) = x
    /\ \A x \in Nat : x < Word \div 2 => Signed(x) = x
    /\ \A x \in Int : x < 0 /\ -(Word \div 2) <= x => Unsigned(x) = x + Word
    /\ Unsigned(-1) = Word - 1 /\ Signed(-1) = -1
<1>1. PICK w \in Nat, h \in Nat : w = Word /\ h = Word \div 2 /\ w = 2 * h /\ 0 < w
  BY HalfWord
<1>2. ASSUME NEW x \in Nat, x < w PROVE x % w = x
  BY <1>1, <1>2
<1>3. ASSUME NEW x \in Int, x < 0, -w <= x PROVE x % w = x + w
  BY <1>1, <1>3
<1>4. /\ \A x \in Nat : x < Word => Unsigned(x) = x
      /\ \A x \in Int : x < 0 /\ -(Word \div 2) <= x => Unsigned(x) = x + Word
  BY <1>1, <1>2, <1>3 DEF Unsigned
<1>5. Unsigned(-1) = Word - 1 /\ Signed(-1) = -1
  BY <1>1, <1>3 DEF Unsigned, Signed
<1>6. \A x \in Nat : x < Word \div 2 => Signed(x) = x
  BY <1>1, <1>2 DEF Signed
<1>7. QED
  BY <1>4, <1>5, <1>6

\* A range of orders that is not inside out, with no more orders skipped than it has.
LEMMA WindowIs ==
    ASSUME NEW first \in Nat, NEW last \in Int, NEW from \in Nat, NEW desired \in Nat,
           first + from <= last + 1, last + 1 < Word \div 2, desired < Word
    PROVE  LET low == first + from
               high == IF 0 < desired /\ low + desired <= last THEN low + desired - 1 ELSE last
           IN  Window(first, last, from, desired)
                   = [low |-> low, high |-> high, count |-> high - low + 1]
<1> DEFINE low == first + from
           high == IF 0 < desired /\ low + desired <= last THEN low + desired - 1 ELSE last
<1>1. PICK w \in Nat, h \in Nat : w = Word /\ h = Word \div 2 /\ w = 2 * h /\ 0 < w
  BY HalfWord
<1>2. low \in Nat /\ Signed(low) = low
  BY <1>1, SmallWords
<1>3. Unsigned(last - low + 1) = last - low + 1
  <2>1. last - low + 1 \in Nat /\ last - low + 1 < w
    BY <1>1, <1>2
  <2>2. QED
    BY <1>1, <2>1, SmallWords
<1>4. ASSUME 0 < desired, desired < last - low + 1
      PROVE  Signed(low + desired - 1) = low + desired - 1
  <2>1. low + desired - 1 \in Nat /\ low + desired - 1 < h
    BY <1>1, <1>2, <1>4
  <2>2. QED
    BY <1>1, <2>1, SmallWords
<1>5. high = IF 0 < desired /\ desired < Unsigned(last - low + 1)
             THEN Signed(low + desired - 1) ELSE last
  BY <1>2, <1>3, <1>4
<1>6. Unsigned(high - low + 1) = high - low + 1
  <2>1. high - low + 1 \in Nat /\ high - low + 1 < w
    BY <1>1, <1>2
  <2>2. QED
    BY <1>1, <2>1, SmallWords
<1> HIDE DEF high
<1>7. Window(first, last, from, desired) = [low |-> low, high |-> high, count |-> high - low + 1]
  BY <1>2, <1>5, <1>6 DEF Window
<1>8. QED
  BY <1>7 DEF high

\* Without a limit a window stays inside the index, however much is skipped.
LEMMA WindowStaysInside ==
    ASSUME NEW n \in Nat, NEW first \in 0..n, NEW last \in -1..(n - 1), NEW from \in Nat,
           n + from < Word \div 2
    PROVE  SlotsRead(Window(first, last, from, 0)) \subseteq 0..(n - 1)
<1>1. PICK w \in Nat, h \in Nat : w = Word /\ h = Word \div 2 /\ w = 2 * h /\ 0 < w
  BY HalfWord
<1>2. PICK low \in Nat : low = first + from /\ low < h
  BY <1>1
<1>3. Signed(first + from) = low
  BY <1>1, <1>2, SmallWords
<1>4. PICK count : count = Unsigned(last - low + 1)
  OBVIOUS
<1>5. Window(first, last, from, 0) = [low |-> low, high |-> last, count |-> count]
  BY <1>3, <1>4 DEF Window
<1>6. SlotsRead(Window(first, last, from, 0)) = IF count < h THEN low..last ELSE {}
  BY <1>1, <1>5 DEF SlotsRead
<1>7. QED
  BY <1>2, <1>6

-----------------------------------------------------------------------------
(* Find and FindAll.                                                       *)

IsFind(i) ==
    /\ IsIndex(i.index) /\ AreCounts(i.index, i.from, i.desired) /\ i.all \in BOOLEAN
    /\ ~i.all => /\ i.low \in Text /\ i.lowClosed \in BOOLEAN
                 /\ i.high \in Text /\ i.highClosed \in BOOLEAN

FindResult(i) ==
    IF i.all THEN FindAll(i.index, i.from, i.desired) ELSE Find(i.index, i)

LEMMA IndexIsSorted ==
    ASSUME NEW index, IsIndex(index)
    PROVE  SortedTexts(index)
BY DEF IsIndex, SortedTexts, Text

\* The range of a call is that between two orders.
LEMMA RangeIs ==
    ASSUME NEW i, IsFind(i)
    PROVE  \E first \in 0..Len(i.index), last \in -1..(Len(i.index) - 1) :
              /\ FindResult(i) = Window(first, last, i.from, i.desired)
              /\ InRange(i) = first..last
              /\ IsRange(i) => first <= last + 1
<1>1. SortedTexts(i.index) /\ Len(i.index) \in Nat /\ \A n \in 1..Len(i.index) : i.index[n] \in Text
  BY IndexIsSorted DEF IsFind, SortedTexts
<1>2. PICK size \in Nat : size = Len(i.index)
  BY <1>1
<1>3. CASE i.all
  <2>1. FindResult(i) = Window(0, size - 1, i.from, i.desired)
    <3>1. LowOrder(0, TRUE) = 0
      BY DEF LowOrder
    <3>2. HighOrder(size, FALSE) = size - 1
      BY DEF HighOrder
    <3>3. QED
      BY <1>2, <1>3, <3>1, <3>2 DEF FindResult, FindAll
  <2>2. InRange(i) = 0..(size - 1)
    BY <1>2, <1>3 DEF InRange
  <2>3. 0 \in 0..size /\ size - 1 \in -1..(size - 1) /\ 0 <= size - 1 + 1
    OBVIOUS
  <2>4. QED
    BY <1>2, <2>1, <2>2, <2>3
<1>4. CASE ~i.all
  <2>1. i.low \in Text /\ i.lowClosed \in BOOLEAN /\ i.high \in Text /\ i.highClosed \in BOOLEAN
    BY <1>4 DEF IsFind
  <2>2. PICK first : first = LowOrder(Search(i.index, i.low), i.lowClosed)
    OBVIOUS
  <2>3. PICK last : last = HighOrder(Search(i.index, i.high), i.highClosed)
    OBVIOUS
  <2>4. /\ first \in 0..size
        /\ \A n \in 0..(size - 1) :
              Less(i.low, i.index[n + 1]) \/ (i.lowClosed /\ i.low = i.index[n + 1]) <=> first <= n
    BY <1>1, <1>2, <2>1, <2>2, LowIs
  <2>5. /\ last \in -1..(size - 1)
        /\ \A n \in 0..(size - 1) :
              Less(i.index[n + 1], i.high) \/ (i.highClosed /\ i.index[n + 1] = i.high) <=> n <= last
    BY <1>1, <1>2, <2>1, <2>3, HighIs
  <2>6. FindResult(i) = Window(first, last, i.from, i.desired)
    BY <1>4, <2>2, <2>3 DEF FindResult, Find
  <2>7. InRange(i) = first..last
    <3>1. InRange(i) = {n \in 0..(size - 1) : first <= n /\ n <= last}
      <4>1. \A n \in 0..(size - 1) : (i.highClosed /\ i.index[n + 1] = i.high)
                                     <=> (i.highClosed /\ i.high = i.index[n + 1])
        OBVIOUS
      <4>2. InRange(i) =
                {n \in 0..(size - 1) :
                    /\ Less(i.low, i.index[n + 1]) \/ (i.lowClosed /\ i.low = i.index[n + 1])
                    /\ Less(i.index[n + 1], i.high) \/ (i.highClosed /\ i.high = i.index[n + 1])}
        BY <1>2, <1>4 DEF InRange
      <4>3. QED
        BY <2>4, <2>5, <4>1, <4>2, Zenon
    <3>2. QED
      BY <2>4, <2>5, <3>1
  <2>8. ASSUME IsRange(i), last + 1 < first PROVE FALSE
    <3>1. last + 1 \in 0..(size - 1) /\ ~(first <= last + 1) /\ ~(last + 1 <= last)
      BY <2>4, <2>5, <2>8
    <3>2. PICK key \in Text : key = i.index[last + 1 + 1]
      <4>1. last + 1 + 1 \in 1..size
        BY <3>1
      <4>2. QED
        BY <1>1, <1>2, <4>1
    <3>3. ~Less(i.low, key) /\ ~(i.lowClosed /\ i.low = key)
      BY <2>4, <3>1, <3>2
    <3>4. ~Less(key, i.high) /\ ~(i.highClosed /\ key = i.high)
      BY <2>5, <3>1, <3>2
    <3>5. CASE Less(i.low, i.high)
      <4>1. key = i.low \/ Less(key, i.low)
        BY <2>1, <3>3, LessTotal
      <4>2. Less(key, i.high)
        BY <2>1, <3>5, <4>1, LessTransitive
      <4>3. QED
        BY <3>4, <4>2
    <3>6. CASE i.low = i.high /\ (i.lowClosed \/ i.highClosed)
      <4>1. key # i.low
        BY <3>3, <3>4, <3>6
      <4>2. Less(key, i.low)
        BY <2>1, <3>3, <4>1, LessTotal
      <4>3. QED
        BY <3>4, <3>6, <4>2
    <3>7. QED
      BY <1>4, <2>8, <3>5, <3>6 DEF IsRange
  <2>9. IsRange(i) => first <= last + 1
    BY <2>4, <2>5, <2>8
  <2>10. QED
    BY <1>2, <2>4, <2>5, <2>6, <2>7, <2>9
<1>5. QED
  BY <1>3, <1>4

\* The numbers of a set that have at least, or less than, some others below them.
AtLeastBelow(s, count) == {n \in s : Cardinality({k \in s : k < n}) >= count}
LessBelow(s, count) == {n \in s : Cardinality({k \in s : k < n}) < count}

LEMMA Ranks ==
    ASSUME NEW a \in Int, NEW b \in Int, NEW count \in Nat
    PROVE  /\ AtLeastBelow(a..b, count) = (a + count)..b
           /\ LessBelow(a..b, count) = a..(IF a + count <= b THEN a + count - 1 ELSE b)
<1>1. ASSUME NEW n \in a..b PROVE Cardinality({k \in a..b : k < n}) = n - a
  <2>1. {k \in a..b : k < n} = a..(n - 1)
    OBVIOUS
  <2>2. n - 1 \in Int /\ (a > n - 1 => n - a = 0)
    OBVIOUS
  <2>3. QED
    <3>1. Cardinality(a..(n - 1)) = IF a > n - 1 THEN 0 ELSE n - 1 - a + 1
      BY <2>2, FS_Interval
    <3>2. (IF a > n - 1 THEN 0 ELSE n - 1 - a + 1) = n - a
      OBVIOUS
    <3>3. QED
      BY <2>1, <3>1, <3>2
<1>2. AtLeastBelow(a..b, count) = {n \in a..b : n - a >= count}
  BY <1>1 DEF AtLeastBelow
<1>3. LessBelow(a..b, count) = {n \in a..b : n - a < count}
  BY <1>1 DEF LessBelow
<1>4. {n \in a..b : n - a >= count} = (a + count)..b
  OBVIOUS
<1>5. {n \in a..b : n - a < count} = a..(IF a + count <= b THEN a + count - 1 ELSE b)
  <2>1. CASE a + count <= b
    <3>1. a + count - 1 \in Int /\ a + count - 1 <= b
      BY <2>1
    <3>2. {n \in a..b : n - a < count} = a..(a + count - 1)
      BY <3>1
    <3>3. QED
      BY <2>1, <3>2
  <2>2. CASE ~(a + count <= b)
    <3>1. {n \in a..b : n - a < count} = a..b
      BY <2>2
    <3>2. QED
      BY <2>2, <3>1
  <2>3. QED
    BY <2>1, <2>2
<1>6. QED
  BY <1>2, <1>3, <1>4, <1>5, Zenon

LEMMA FindIsRight ==
    ASSUME NEW i, IsFind(i)
    PROVE  LET range == InRange(i)
               rest == {n \in range : Cardinality({k \in range : k < n}) >= i.from}
               taken == {n \in rest : \/ i.desired = 0
                                      \/ Cardinality({k \in rest : k < n}) < i.desired}
           IN  /\ IsRange(i) /\ i.from <= Cardinality(range) =>
                   /\ SlotsRead(FindResult(i)) = taken
                   /\ FindResult(i).count = Cardinality(taken)
               /\ i.desired = 0 => SlotsRead(FindResult(i)) \subseteq 0 .. Len(i.index) - 1
<1> DEFINE range == InRange(i)
           rest == {n \in range : Cardinality({k \in range : k < n}) >= i.from}
           taken == {n \in rest : \/ i.desired = 0
                                  \/ Cardinality({k \in rest : k < n}) < i.desired}
<1>1. PICK size \in Nat, from \in Nat, desired \in Nat :
          /\ size = Len(i.index) /\ from = i.from /\ desired = i.desired
          /\ size + from < Word \div 2 /\ desired < Word
  <2>1. Len(i.index) \in Nat
    BY DEF IsFind, IsIndex
  <2>2. QED
    BY <2>1 DEF IsFind, AreCounts
<1>2. PICK first \in 0..size, last \in -1..(size - 1) :
          /\ FindResult(i) = Window(first, last, from, desired)
          /\ range = first..last
          /\ IsRange(i) => first <= last + 1
  BY <1>1, RangeIs
<1>3. PICK half \in Nat : half = Word \div 2
  BY HalfWord
<1>4. ASSUME desired = 0 PROVE SlotsRead(FindResult(i)) \subseteq 0..(size - 1)
  BY <1>1, <1>2, <1>4, WindowStaysInside
<1>5. ASSUME IsRange(i), from <= Cardinality(range)
      PROVE  SlotsRead(FindResult(i)) = taken /\ FindResult(i).count = Cardinality(taken)
  <2>1. first <= last + 1 /\ Cardinality(first..last) = last - first + 1
    BY <1>2, <1>5, FS_Interval
  <2>2. from <= last - first + 1
    BY <1>2, <1>5, <2>1
  <2>3. PICK low \in Nat : low = first + from /\ low <= last + 1
    BY <1>2, <2>2
  <2>4. PICK high \in Int :
            high = IF 0 < desired /\ low + desired <= last THEN low + desired - 1 ELSE last
    BY <1>2, <2>3
  <2>5. FindResult(i) = [low |-> low, high |-> high, count |-> high - low + 1]
    <3>1. last + 1 < Word \div 2
      BY <1>1, <1>2, <1>3
    <3>2. Window(first, last, from, desired)
            = [low |-> first + from,
               high |-> IF 0 < desired /\ first + from + desired <= last
                        THEN first + from + desired - 1 ELSE last,
               count |-> (IF 0 < desired /\ first + from + desired <= last
                          THEN first + from + desired - 1 ELSE last) - (first + from) + 1]
      <4>1. /\ first \in Nat /\ last \in Int /\ from \in Nat /\ desired \in Nat
            /\ first + from <= last + 1 /\ last + 1 < Word \div 2 /\ desired < Word
        BY <1>1, <1>2, <2>3, <3>1
      <4>2. QED
        BY <4>1, WindowIs, Zenon
    <3>3. QED
      BY <1>2, <2>3, <2>4, <3>2
  <2>6. rest = low..last
    <3>1. rest = AtLeastBelow(first..last, from)
      BY <1>1, <1>2 DEF AtLeastBelow
    <3> HIDE DEF rest
    <3>2. AtLeastBelow(first..last, from) = (first + from)..last
      <4>1. first \in Int /\ last \in Int /\ from \in Nat
        BY <1>2
      <4>2. QED
        BY <4>1, Ranks, Zenon
    <3>3. QED
      BY <2>3, <3>1, <3>2
  <2>7. taken = low..high
    <3>1. taken = {n \in low..last : desired = 0 \/ Cardinality({k \in low..last : k < n}) < desired}
      BY <1>1, <2>6
    <3> HIDE DEF taken
    <3>2. CASE desired = 0
      BY <2>4, <3>1, <3>2
    <3>3. CASE desired # 0
      <4>1. taken = LessBelow(low..last, desired)
        BY <3>1, <3>3 DEF LessBelow
      <4>2. taken = low..(IF low + desired <= last THEN low + desired - 1 ELSE last)
        BY <4>1, Ranks
      <4>3. QED
        BY <2>4, <3>3, <4>2
    <3>4. QED
      BY <3>2, <3>3
  <2>8. high - low + 1 \in Nat /\ high - low + 1 < half
    <3>0. /\ size \in Nat /\ from \in Nat /\ low \in Nat /\ half \in Nat /\ desired \in Nat
          /\ last \in Int /\ last <= size - 1 /\ low <= last + 1 /\ size + from < half
      BY <1>1, <1>2, <1>3, <2>3
    <3>1. CASE 0 < desired /\ low + desired <= last
      <4>1. high = low + desired - 1
        BY <2>4, <3>1
      <4>2. QED
        BY ONLY <3>0, <3>1, <4>1
    <3>2. CASE ~(0 < desired /\ low + desired <= last)
      <4>1. high = last
        BY <2>4, <3>2
      <4>2. QED
        BY ONLY <3>0, <4>1
    <3>3. QED
      BY <3>1, <3>2
  <2>9. SlotsRead(FindResult(i)) = low..high
    BY <1>3, <2>5, <2>8 DEF SlotsRead
  <2>10. Cardinality(low..high) = high - low + 1
    BY <2>8, FS_Interval
  <2>11. FindResult(i).count = high - low + 1
    BY <2>5
  <2> HIDE DEF taken
  <2>12. QED
    BY <2>7, <2>9, <2>10, <2>11
<1> HIDE DEF range, rest, taken
<1>6. /\ IsRange(i) /\ i.from <= Cardinality(range) =>
            SlotsRead(FindResult(i)) = taken /\ FindResult(i).count = Cardinality(taken)
      /\ i.desired = 0 => SlotsRead(FindResult(i)) \subseteq 0..(Len(i.index) - 1)
  BY <1>1, <1>4, <1>5
<1>7. QED
  BY <1>6 DEF range, rest, taken

-----------------------------------------------------------------------------
(* The append to a text of a path, and the paths FindPath makes.           *)

LEMMA JoinBaseIs ==
    ASSUME NEW text \in Text, NEW sub, NEW asPath \in BOOLEAN
    PROVE  /\ JoinBase(text, sub, asPath) \in Text
           /\ Len(JoinBase(text, sub, asPath)) <= Len(text) + 1
           /\ sub[1] = Slash => Len(JoinBase(text, sub, asPath)) <= Len(text)
           /\ text # <<>> /\ Last(text) = Slash => Len(JoinBase(text, sub, asPath)) <= Len(text)
<1> DEFINE base == JoinBase(text, sub, asPath)
<1>1. Len(text) \in Nat
  BY TextIs
<1>2. Slash \in Nat
  BY DEF Slash
<1>3. CASE base = text
  BY <1>1, <1>3
<1>4. CASE text # <<>> /\ sub[1] = Slash /\ base = Front(text)
  <2>1. Len(text) >= 1
    BY <1>1, <1>4 DEF Text
  <2>2. Front(text) \in Text /\ Len(Front(text)) = Len(text) - 1
    <3>1. Front(text) = SubSeq(text, 1, Len(text) - 1)
      BY DEF Front
    <3>2. PICK n \in Nat : n = Len(text) - 1
      BY <1>1, <2>1
    <3>3. \A i \in 1..n : text[i] \in Int
      BY <1>1, <3>2 DEF Text
    <3>4. SubSeq(text, 1, n) \in Text /\ Len(SubSeq(text, 1, n)) = n
      BY <1>1, <3>2, <3>3 DEF Text
    <3>5. QED
      BY <3>1, <3>2, <3>4
  <2>3. QED
    BY <1>1, <1>4, <2>2
<1>5. CASE text # <<>> /\ sub[1] # Slash /\ Last(text) # Slash /\ base = Append(text, Slash)
  <2>1. Append(text, Slash) \in Text /\ Len(Append(text, Slash)) = Len(text) + 1
    BY <1>2 DEF Text
  <2>2. QED
    BY <1>1, <1>5, <2>1
<1>6. \/ base = text
      \/ text # <<>> /\ sub[1] = Slash /\ base = Front(text)
      \/ text # <<>> /\ sub[1] # Slash /\ Last(text) # Slash /\ base = Append(text, Slash)
  BY DEF JoinBase
<1>7. QED
  BY <1>3, <1>4, <1>5, <1>6

\* An append with a place left behind what it is joined at: the text that comes out
\* and the byte that ends it are inside the room.
LEMMA AppendIs ==
    ASSUME NEW text \in Text, NEW room \in Nat, NEW sub \in Text, sub # <<>>,
           NEW asPath \in BOOLEAN,
           room > Len(JoinBase(text, sub, asPath)) + 1, room > Len(text)
    PROVE  LET base == JoinBase(text, sub, asPath)
               joined == Concatenate(text, room, sub, asPath)
           IN  /\ joined.text \in Text /\ joined.end <= room
               /\ Len(joined.text) <= Len(base) + Len(sub)
               /\ Len(base) + Len(sub) < room => joined.text = base \o sub
<1> DEFINE joined == Concatenate(text, room, sub, asPath)
<1>1. PICK base \in Text : base = JoinBase(text, sub, asPath)
  BY JoinBaseIs
<1>2. Len(base) \in Nat /\ Len(sub) \in Nat /\ Len(text) \in Nat /\ Len(sub) >= 1
  BY TextIs DEF Text
<1>3. PICK copied \in 1..Len(sub) :
          copied = IF Len(sub) > room - 1 - Len(base) THEN room - 1 - Len(base) ELSE Len(sub)
  BY <1>1, <1>2
<1>4. joined = [ok |-> TRUE, text |-> base \o SubSeq(sub, 1, copied),
                end |-> Len(base \o SubSeq(sub, 1, copied)) + 1]
  <2>1. room # 0 /\ room - 1 - Len(base) # 0 /\ ~(room <= Len(text))
    BY <1>1, <1>2
  <2>2. Copied(room, base, sub) = copied
    BY <1>3, <2>1 DEF Copied
  <2>3. joined = [ok |-> TRUE, text |-> base \o SubSeq(sub, 1, Copied(room, base, sub)),
                  end |-> Len(base \o SubSeq(sub, 1, Copied(room, base, sub))) + 1]
    BY <1>1, <2>1 DEF Concatenate
  <2>4. QED
    BY <2>2, <2>3
<1>5. SubSeq(sub, 1, copied) \in Text /\ Len(SubSeq(sub, 1, copied)) = copied
  BY <1>2, <1>3 DEF Text
<1>6. PICK piece \in Text : piece = SubSeq(sub, 1, copied) /\ Len(piece) = copied
  BY <1>5
<1>7. base \o piece \in Text /\ Len(base \o piece) = Len(base) + copied
  BY <1>6 DEF Text
<1>8. Len(base) + copied + 1 <= room /\ copied <= Len(sub)
  BY <1>1, <1>2, <1>3
<1>9. Len(base) + Len(sub) < room => piece = sub
  <2>1. Len(base) + Len(sub) < room => copied = Len(sub)
    BY <1>2, <1>3
  <2>2. SubSeq(sub, 1, Len(sub)) = sub
    BY DEF Text
  <2>3. QED
    BY <1>6, <2>1, <2>2
<1>10. joined.text = base \o piece /\ joined.end = Len(base) + copied + 1
  BY <1>4, <1>6, <1>7
<1> HIDE DEF joined
<1>11. QED
  BY <1>1, <1>2, <1>3, <1>7, <1>8, <1>9, <1>10 DEF joined

\* The three appends of a path stay inside its room, and the text they make is
\* one slash at least, with a slash at its end.
LEMMA NormalizeIs ==
    ASSUME NEW path \in Text
    PROVE  /\ \A end \in NormalizePath(path).ends : end <= NormalizePath(path).room
           /\ NormalizePath(path).text \in Text
           /\ Len(NormalizePath(path).text) >= 1
           /\ Last(NormalizePath(path).text) = Slash
<1>1. PICK slash \in Text : slash = <<Slash>> /\ Len(slash) = 1 /\ slash # <<>> /\ slash[1] = Slash
  <2>1. Slash \in Nat
    BY DEF Slash
  <2>2. <<Slash>> \in Text /\ Len(<<Slash>>) = 1 /\ <<Slash>> # <<>> /\ <<Slash>>[1] = Slash
    BY <2>1 DEF Text
  <2>3. QED
    BY <2>2
<1>2. PICK room \in Nat : room = 3 + Len(path)
  BY TextIs
<1>3. <<>> \in Text /\ Len(<<>>) = 0 /\ Len(path) \in Nat
  BY TextIs DEF Text
<1>4. Len(slash) = 1
  BY <1>1
<1>5. PICK size \in Nat : size = Len(path) /\ room = 3 + size
  BY <1>2, <1>3
<1>6. PICK one : one = Concatenate(<<>>, room, slash, TRUE)
  OBVIOUS
<1>7. PICK two : two = IF path = <<>> THEN one ELSE Concatenate(one.text, room, path, TRUE)
  OBVIOUS
<1>8. PICK three : three = Concatenate(two.text, room, slash, TRUE)
  OBVIOUS
<1>9. NormalizePath(path) = [text |-> three.text, room |-> room, ends |-> {one.end, two.end, three.end}]
  BY <1>1, <1>2, <1>6, <1>7, <1>8 DEF NormalizePath
<1>10. one.text = slash /\ one.end <= room
  <2>1. JoinBase(<<>>, slash, TRUE) = <<>>
    BY DEF JoinBase
  <2>2. room > Len(<<>>) + 1 /\ room > Len(<<>>) /\ Len(<<>>) + Len(slash) < room
    BY <1>4, <1>5, <1>3
  <2>3. room > Len(JoinBase(<<>>, slash, TRUE)) + 1 /\ room > Len(<<>>)
        /\ Len(JoinBase(<<>>, slash, TRUE)) + Len(slash) < room
    BY <2>1, <2>2, Zenon
  <2>4. <<>> \o slash = slash
    BY DEF Text
  <2>5. one.text = JoinBase(<<>>, slash, TRUE) \o slash /\ one.end <= room
    BY <1>1, <1>3, <1>6, <2>3, AppendIs, Zenon
  <2>6. QED
    BY <2>1, <2>4, <2>5
<1>11. two.text \in Text /\ two.end <= room /\ Len(two.text) <= 1 + Len(path)
  <2>1. CASE path = <<>>
    <3>1. two.text = slash /\ two.end <= room
      BY <1>7, <1>10, <2>1, Zenon
    <3>2. QED
      <4>1. Len(two.text) = 1 /\ two.text \in Text
        BY <1>1, <1>4, <3>1, Zenon
      <4>2. 1 <= 1 + size
        BY <1>5
      <4>3. QED
        BY <1>5, <3>1, <4>1, <4>2, Zenon
  <2>2. CASE path # <<>>
    <3>1. Last(slash) = Slash
      BY <1>1 DEF Last
    <3>2. PICK base \in Text : base = JoinBase(slash, path, TRUE) /\ Len(base) <= Len(slash)
      BY <1>1, <3>1, JoinBaseIs
    <3>3. Len(path) >= 1 /\ Len(base) \in Nat
      BY <1>3, <2>2, TextIs DEF Text
    <3>4. Len(base) <= Len(slash)
      BY <3>2, Zenon
    <3>5. room > Len(base) + 1 /\ room > Len(slash)
      BY <1>4, <1>5, <3>3, <3>4
    <3>6. two.text \in Text /\ two.end <= room /\ Len(two.text) <= Len(base) + Len(path)
      BY <1>7, <1>10, <2>2, <3>2, <3>5, AppendIs
    <3>7. QED
      <4>1. Len(two.text) \in Nat
        BY <3>6, TextIs
      <4>2. QED
        BY <1>4, <1>5, <3>3, <3>6, <3>4, <4>1
  <2>3. QED
    BY <2>1, <2>2
<1>12. PICK base \in Text : base = JoinBase(two.text, slash, TRUE) /\ Len(base) <= Len(two.text)
  BY <1>1, <1>11, JoinBaseIs
<1>13. Len(base) \in Nat /\ Len(two.text) \in Nat
  BY <1>11, <1>12, TextIs
<1>14. room > Len(base) + 1 /\ room > Len(two.text) /\ Len(base) + Len(slash) < room
  <2>1. Len(base) <= Len(two.text)
    BY <1>12, Zenon
  <2>2. QED
    BY <1>4, <1>5, <1>11, <1>13, <2>1
<1>15. three.text = base \o slash /\ three.end <= room
  BY <1>1, <1>8, <1>11, <1>12, <1>14, AppendIs
<1>16. /\ base \o slash \in Text /\ Len(base \o slash) = Len(base) + 1
       /\ (base \o slash)[Len(base) + 1] = Slash
  BY <1>1, <1>13 DEF Text
<1>17. Last(three.text) = Slash /\ Len(three.text) >= 1
  BY <1>13, <1>15, <1>16 DEF Last
<1>18. QED
  BY <1>9, <1>10, <1>11, <1>15, <1>16, <1>17

LEMMA PathAppendIsInside ==
    ASSUME NEW i, i.text \in Text, i.sub \in Text, i.sub # <<>>, i.room \in Nat, i.asPath \in BOOLEAN
    PROVE  /\ \A end \in NormalizePath(i.sub).ends : end <= NormalizePath(i.sub).room
           /\ i.room > Len(i.text) + 2 =>
                Concatenate(i.text, i.room, i.sub, i.asPath).end <= i.room
<1>1. \A end \in NormalizePath(i.sub).ends : end <= NormalizePath(i.sub).room
  BY NormalizeIs
<1>2. ASSUME i.room > Len(i.text) + 2
      PROVE  Concatenate(i.text, i.room, i.sub, i.asPath).end <= i.room
  <2>1. PICK base \in Text : base = JoinBase(i.text, i.sub, i.asPath) /\ Len(base) <= Len(i.text) + 1
    BY JoinBaseIs
  <2>2. Len(base) \in Nat /\ Len(i.text) \in Nat
    BY <2>1, TextIs
  <2>3. i.room > Len(base) + 1 /\ i.room > Len(i.text)
    BY <1>2, <2>1, <2>2
  <2>4. QED
    BY <2>1, <2>3, AppendIs
<1>3. QED
  BY <1>1, <1>2

-----------------------------------------------------------------------------
(* The keys under a path: those from the root to the key behind it.        *)

LEMMA AfterRootIs ==
    ASSUME NEW root \in Text, Len(root) >= 1
    PROVE  /\ AfterRoot(root) \in Text /\ Len(AfterRoot(root)) = Len(root)
           /\ Agree(root, AfterRoot(root), Len(root) - 1)
           /\ AfterRoot(root)[Len(root)] = root[Len(root)] + 1
<1>1. PICK size \in Nat \ {0} : size = Len(root)
  BY TextIs
<1>2. DOMAIN root = 1..size /\ \A i \in 1..size : root[i] \in Int
  BY <1>1, TextIs
<1>3. PICK after : after = [i \in 1..size |-> IF i = size THEN root[size] + 1 ELSE root[i]]
  OBVIOUS
<1>4. AfterRoot(root) = after
  BY <1>1, <1>2, <1>3 DEF AfterRoot
<1>5. after \in Text /\ Len(after) = size
  <2>1. after \in [1..size -> Int]
    BY <1>2, <1>3
  <2>2. QED
    BY <1>1, <2>1 DEF Text
<1>6. after[size] = root[size] + 1 /\ \A i \in 1..(size - 1) : after[i] = root[i]
  BY <1>1, <1>3
<1>7. QED
  BY <1>1, <1>4, <1>5, <1>6 DEF Agree

LEMMA RootIsLess ==
    ASSUME NEW root \in Text, Len(root) >= 1
    PROVE  Less(root, AfterRoot(root))
<1>1. PICK after \in Text : /\ after = AfterRoot(root) /\ Len(after) = Len(root)
                            /\ Agree(root, after, Len(root) - 1)
                            /\ after[Len(root)] = root[Len(root)] + 1
  BY AfterRootIs
<1>2. Len(root) \in (1..Len(root)) \cap (1..Len(after)) /\ root[Len(root)] \in Int
  BY <1>1, TextIs
<1>3. root[Len(root)] < after[Len(root)]
  BY <1>1, <1>2
<1>4. Before(root, after)
  BY <1>1, <1>2, <1>3 DEF Before
<1>5. QED
  BY <1>1, <1>4, LessIs

LEMMA UnderAgrees ==
    ASSUME NEW root \in Text, NEW key \in Text
    PROVE  IsUnder(root, key) <=> Len(root) <= Len(key) /\ Agree(root, key, Len(root))
<1>1. Len(root) \in Nat /\ Len(key) \in Nat
  BY TextIs
<1>2. CASE Len(root) <= Len(key)
  <2>1. SubSeq(key, 1, Len(root)) = [i \in 1..Len(root) |-> key[i]]
    BY <1>1, <1>2 DEF Text
  <2>2. root = [i \in 1..Len(root) |-> root[i]]
    BY DEF Text
  <2>3. QED
    BY <1>2, <2>1, <2>2 DEF IsUnder, Agree
<1>3. QED
  BY <1>1, <1>2 DEF IsUnder

LEMMA UnderIs ==
    ASSUME NEW root \in Text, NEW key \in Text, Len(root) >= 1
    PROVE  IsUnder(root, key) <=> (Less(root, key) \/ root = key) /\ Less(key, AfterRoot(root))
<1>1. PICK size \in Nat \ {0} : size = Len(root)
  BY TextIs
<1>2. PICK after \in Text : /\ after = AfterRoot(root) /\ Len(after) = size
                            /\ Agree(root, after, size - 1) /\ after[size] = root[size] + 1
  BY <1>1, AfterRootIs
<1>3. /\ Len(key) \in Nat /\ \A i \in 1..size : root[i] \in Int /\ after[i] \in Int
      /\ \A i \in 1..Len(key) : key[i] \in Int
  BY <1>1, <1>2, TextIs
<1>4. ASSUME IsUnder(root, key)
      PROVE  (Less(root, key) \/ root = key) /\ Less(key, after)
  <2>1. size <= Len(key) /\ Agree(root, key, size)
    BY <1>1, <1>4, UnderAgrees
  <2>2. Before(key, after)
    <3>1. size \in (1..Len(key)) \cap (1..Len(after))
      BY <1>2, <1>3, <2>1
    <3>2. key[size] < after[size]
      BY <1>2, <1>3, <2>1 DEF Agree
    <3>3. Agree(key, after, size - 1)
      BY <1>2, <2>1 DEF Agree
    <3>4. QED
      BY <3>1, <3>2, <3>3 DEF Before
  <2>3. CASE size < Len(key)
    BY <1>1, <1>2, <2>1, <2>2, <2>3, LessIs DEF Before
  <2>4. CASE size = Len(key)
    <3>1. root = key
      BY <1>1, <2>1, <2>4, SeqEqual DEF Agree, Text
    <3>2. QED
      BY <1>2, <2>2, <3>1, LessIs
  <2>5. QED
    BY <1>3, <2>1, <2>3, <2>4
<1>5. ASSUME Less(root, key), Less(key, after)
      PROVE  IsUnder(root, key)
  <2>1. Before(root, key) /\ ~Before(after, key)
    BY <1>2, <1>5, LessIs, LessExcludes
  <2>2. ASSUME NEW k \in (1..size) \cap (1..Len(key)), root[k] < key[k], Agree(root, key, k - 1)
        PROVE  FALSE
    <3>1. Agree(after, key, k - 1)
      BY <1>2, <2>2 DEF Agree
    <3>2. k \in (1..Len(after)) \cap (1..Len(key))
      BY <1>2
    <3>3. ~(after[k] < key[k])
      BY <2>1, <3>1, <3>2 DEF Before
    <3>4. k = size
      <4>1. ASSUME k # size PROVE FALSE
        <5>1. k \in 1..(size - 1)
          BY <4>1
        <5>2. after[k] = root[k]
          BY <1>2, <5>1 DEF Agree
        <5>3. QED
          BY <2>2, <3>3, <5>2
      <4>2. QED
        BY <4>1
    <3>5. after[size] = key[size] /\ size <= Len(key)
      <4>1. root[size] \in Int /\ key[size] \in Int
        BY <1>3, <3>4
      <4>2. QED
        BY <1>2, <1>3, <2>2, <3>3, <3>4, <4>1
    <3>6. Agree(after, key, size)
      <4>1. \A j \in 1..size : j \in 1..(k - 1) \/ j = size
        BY <3>4
      <4>2. QED
        BY <3>1, <3>5, <4>1 DEF Agree
    <3>7. ~(size < Len(key))
      BY <1>2, <2>1, <3>6 DEF Before
    <3>8. after = key
      <4>1. Len(key) = size
        BY <1>3, <3>5, <3>7
      <4>2. QED
        BY <1>2, <3>6, <4>1, SeqEqual DEF Agree, Text
    <3>9. QED
      BY <1>2, <1>5, <3>8, LessExcludes
  <2>3. size < Len(key) /\ Agree(root, key, size)
    BY <1>1, <2>1, <2>2 DEF Before
  <2>4. QED
    BY <1>1, <1>3, <2>3, UnderAgrees
<1>6. ASSUME root = key PROVE IsUnder(root, key)
  BY <1>1, <1>6, UnderAgrees DEF Agree
<1>7. QED
  BY <1>2, <1>4, <1>5, <1>6

\* A key under the root and behind it is on its level unless a slash comes before
\* its last character.
LEMMA DeeperIs ==
    ASSUME NEW root \in Text, NEW key \in Text, IsUnder(root, key), key # root
    PROVE  LET name == SubSeq(key, Len(root) + 1, Len(key))
           IN  IsDeeper(root, key) <=> Slash \in Range(Front(name))
<1>1. PICK size \in Nat : size = Len(root)
  BY TextIs
<1>2. PICK long \in Nat : long = Len(key)
  BY TextIs
<1>3. size < long
  <2>1. size <= long
    BY <1>1, <1>2, UnderAgrees
  <2>2. ASSUME size = long PROVE FALSE
    <3>1. \A i \in 1..size : root[i] = key[i]
      BY <1>1, UnderAgrees DEF Agree
    <3>2. QED
      BY <1>1, <1>2, <2>2, <3>1, SeqEqual DEF Text
  <2>3. QED
    BY <2>1, <2>2
<1>4. PICK name : name = SubSeq(key, size + 1, long)
  OBVIOUS
<1>5. name \in Text /\ Len(name) = long - size /\ \A i \in 1..(long - size) : name[i] = key[size + i]
  <2>1. name = [i \in 1..(long - size) |-> key[size + i]]
    BY <1>2, <1>3, <1>4 DEF Text
  <2>2. \A i \in 1..(long - size) : key[size + i] \in Int
    BY <1>2, <1>3, TextIs
  <2>3. PICK n \in Nat : n = long - size
    BY <1>3
  <2>4. name \in [1..n -> Int] /\ \A i \in 1..n : name[i] = key[size + i]
    BY <2>1, <2>2, <2>3
  <2>5. name \in Text /\ Len(name) = n
    BY <2>4 DEF Text
  <2>6. QED
    BY <2>3, <2>4, <2>5
<1>6. Range(Front(name)) = {key[i] : i \in (size + 1)..(long - 1)}
  <2>1. Front(name) = [i \in 1..(long - size - 1) |-> key[size + i]]
    <3>1. PICK n \in Nat : n = long - size - 1 /\ n + 1 = Len(name)
      BY <1>3, <1>5
    <3>2. SubSeq(name, 1, n) = [i \in 1..n |-> name[i]]
      BY <1>5, <3>1 DEF Text
    <3>3. Front(name) = SubSeq(name, 1, n)
      BY <3>1 DEF Front
    <3>4. QED
      BY <1>5, <3>1, <3>2, <3>3
  <2>2. Range(Front(name)) = {key[size + i] : i \in 1..(long - size - 1)}
    BY <2>1 DEF Range
  <2>3. \A i \in (size + 1)..(long - 1) : i - size \in 1..(long - size - 1) /\ size + (i - size) = i
    OBVIOUS
  <2>4. \A i \in 1..(long - size - 1) : size + i \in (size + 1)..(long - 1)
    OBVIOUS
  <2>5. QED
    BY <2>2, <2>3, <2>4
<1>7. IsDeeper(root, key) <=> \E i \in (size + 1)..(long - 1) : key[i] = Slash
  BY <1>1, <1>2 DEF IsDeeper
<1>8. QED
  BY <1>1, <1>2, <1>4, <1>6, <1>7

-----------------------------------------------------------------------------
(* The scan of one level.                                                  *)

\* A function whose values in an interval of orders are those of the scan.
Scan(index, root, first, last, f) ==
    [n \in first..last |->
        IF n = first THEN <<>>
        ELSE IF IsDeeper(root, index[n]) THEN f[n - 1]
        ELSE Append(f[n - 1], index[n])]

IsScan(f, index, root, first, last) == f = Scan(index, root, first, last, f)

LEMMA ScanDefined ==
    ASSUME NEW index, NEW root, NEW first \in Nat, NEW last \in Nat
    PROVE  \E f : f = Scan(index, root, first, last, f)
<1> DEFINE Good(f, size) == /\ f = [n \in first..last |-> f[n]]
                            /\ \A n \in first..last :
                                  n < first + size => f[n] = Scan(index, root, first, last, f)[n]
           S == {size \in Nat : \E f : Good(f, size)}
<1>1. ASSUME NEW size \in Nat, \A m \in Nat : m < size => m \in S
      PROVE  size \in S
  <2>1. CASE size = 0
    <3> DEFINE f == [n \in first..last |-> <<>>]
    <3>1. Good(f, 0)
      OBVIOUS
    <3>2. QED
      BY <2>1, <3>1
  <2>2. CASE size # 0
    <3>1. size - 1 \in Nat /\ size - 1 < size
      BY <2>2
    <3>2. PICK f : Good(f, size - 1)
      BY <1>1, <3>1
    <3> DEFINE g == [n \in first..last |-> Scan(index, root, first, last, f)[n]]
    <3>3. ASSUME NEW n \in first..last, n < first + size
          PROVE  g[n] = Scan(index, root, first, last, g)[n]
      <4>1. CASE n = first
        BY <4>1 DEF Scan
      <4>2. CASE n # first
        <5>1. n - 1 \in first..last /\ n - 1 < first + (size - 1)
          BY <3>3, <4>2
        <5>2. f[n - 1] = Scan(index, root, first, last, f)[n - 1]
          BY <3>2, <5>1
        <5>3. g[n - 1] = f[n - 1]
          BY <5>1, <5>2
        <5>4. g[n] = Scan(index, root, first, last, f)[n]
          OBVIOUS
        <5> HIDE DEF g
        <5>5. QED
          BY <4>2, <5>3, <5>4 DEF Scan
      <4>3. QED
        BY <4>1, <4>2
    <3>4. g = [n \in first..last |-> g[n]]
      OBVIOUS
    <3> HIDE DEF g
    <3>5. Good(g, size)
      BY <3>3, <3>4
    <3>6. QED
      BY <3>5
  <2>3. QED
    BY <2>1, <2>2
<1> HIDE DEF S
<1>2. Nat \subseteq S
  BY <1>1, Induction
<1>3. last + 1 \in S
  BY <1>2
<1>4. PICK f : Good(f, last + 1)
  BY <1>3 DEF S
<1>5. f = Scan(index, root, first, last, f)
  <2>1. \A n \in first..last : f[n] = Scan(index, root, first, last, f)[n]
    BY <1>4
  <2>2. f = [n \in first..last |-> f[n]]
    BY <1>4
  <2>3. Scan(index, root, first, last, f)
            = [n \in first..last |-> Scan(index, root, first, last, f)[n]]
    BY DEF Scan
  <2>4. QED
    BY <2>1, <2>2, <2>3
<1>6. QED
  BY <1>5

LEMMA LevelIs ==
    ASSUME NEW index, NEW root, NEW first \in Nat, NEW last \in Nat
    PROVE  \E f : /\ IsScan(f, index, root, first, last)
                  /\ Level(index, root, first, last) = f[last]
<1> DEFINE f == CHOOSE f : f = Scan(index, root, first, last, f)
<1>1. f = Scan(index, root, first, last, f)
  <2>1. \E g : g = Scan(index, root, first, last, g)
    BY ScanDefined
  <2>2. QED
    BY <2>1, Zenon
<1>2. Level(index, root, first, last) = f[last]
  BY DEF Level, Scan
<1> HIDE DEF f
<1>3. QED
  BY <1>1, <1>2 DEF IsScan

\* The numbers of a set in their order.
Enumerates(p, size, s) ==
    /\ size \in Nat /\ p \in [1..size -> Int]
    /\ \A i, j \in 1..size : i < j => p[i] < p[j]
    /\ s = {p[i] : i \in 1..size}

Part(p, a, b) == {p[i] : i \in a..b}

LEMMA EnumeratedPart ==
    ASSUME NEW p, NEW size, NEW s, Enumerates(p, size, s),
           NEW a \in Nat \ {0}, NEW b \in Nat, b <= size
    PROVE  Cardinality(Part(p, a, b)) = IF a <= b THEN b - a + 1 ELSE 0
<1> DEFINE part == {p[i] : i \in a..b}
           f == [i \in a..b |-> p[i]]
<1>1. \A i \in a..b : i \in 1..size
  BY DEF Enumerates
<1>2. \A i, j \in a..b : f[i] = f[j] => i = j
  <2>1. ASSUME NEW i \in a..b, NEW j \in a..b, i < j PROVE f[i] # f[j]
    <3>1. p[i] < p[j] /\ p[i] \in Int /\ p[j] \in Int
      BY <1>1, <2>1 DEF Enumerates
    <3>2. QED
      BY <3>1
  <2>2. QED
    BY <2>1
<1>3. f \in [a..b -> part] /\ \A x \in part : \E i \in a..b : f[i] = x
  OBVIOUS
<1> HIDE DEF f, part
<1>4. ExistsBijection(a..b, part)
  BY <1>2, <1>3 DEF ExistsBijection, Bijection, Injection, Surjection, IsInjective
<1>5. IsFiniteSet(a..b) /\ Cardinality(a..b) = IF a > b THEN 0 ELSE b - a + 1
  BY FS_Interval
<1>6. Cardinality(part) = Cardinality(a..b)
  BY <1>4, <1>5, FS_Bijection
<1>7. QED
  BY <1>5, <1>6 DEF part, Part

LEMMA EnumeratedRank ==
    ASSUME NEW p, NEW size, NEW s, Enumerates(p, size, s), NEW i \in 1..size
    PROVE  Cardinality({m \in s : m < p[i]}) = i - 1
<1>1. size \in Nat /\ \A j \in 1..size : p[j] \in Int
  BY DEF Enumerates
<1>2. {m \in s : m < p[i]} = {p[j] : j \in 1..(i - 1)}
  <2>1. ASSUME NEW j \in 1..size PROVE p[j] < p[i] <=> j < i
    <3>1. j < i => p[j] < p[i]
      BY DEF Enumerates
    <3>2. i < j => p[i] < p[j]
      BY DEF Enumerates
    <3>3. QED
      BY <1>1, <3>1, <3>2
  <2>2. {m \in s : m < p[i]} = {p[j] : j \in {k \in 1..size : k < i}}
    BY <2>1 DEF Enumerates
  <2>3. {k \in 1..size : k < i} = 1..(i - 1)
    BY <1>1
  <2>4. QED
    BY <2>2, <2>3
<1>3. i - 1 \in Nat /\ i - 1 <= size
  BY <1>1
<1>4. Cardinality(Part(p, 1, i - 1)) = IF 1 <= i - 1 THEN i - 1 - 1 + 1 ELSE 0
  BY <1>3, EnumeratedPart
<1>5. QED
  <2>1. {m \in s : m < p[i]} = Part(p, 1, i - 1)
    BY <1>2 DEF Part
  <2>2. (IF 1 <= i - 1 THEN i - 1 - 1 + 1 ELSE 0) = i - 1
    BY <1>3
  <2>3. QED
    BY <1>4, <2>1, <2>2

LEMMA EnumerationGrows ==
    ASSUME NEW p, NEW size, NEW s, Enumerates(p, size, s), NEW n \in Int, \A m \in s : m < n
    PROVE  Enumerates([i \in 1..(size + 1) |-> IF i = size + 1 THEN n ELSE p[i]],
                      size + 1, s \cup {n})
<1> DEFINE q == [i \in 1..(size + 1) |-> IF i = size + 1 THEN n ELSE p[i]]
<1>1. size \in Nat /\ size + 1 \in Nat /\ \A i \in 1..size : p[i] \in Int /\ p[i] \in s
  BY DEF Enumerates
<1>2. \A i \in 1..(size + 1) : i \in 1..size \/ i = size + 1
  BY <1>1
<1>3. q \in [1..(size + 1) -> Int]
  BY <1>1, <1>2
<1>4. q[size + 1] = n /\ \A i \in 1..size : q[i] = p[i]
  BY <1>1
<1> HIDE DEF q
<1>5. ASSUME NEW i \in 1..(size + 1), NEW j \in 1..(size + 1), i < j PROVE q[i] < q[j]
  <2>1. i \in 1..size /\ q[i] = p[i]
    BY <1>1, <1>4, <1>5
  <2>2. CASE j \in 1..size
    BY <1>4, <1>5, <2>1, <2>2 DEF Enumerates
  <2>3. CASE j = size + 1
    BY <1>1, <1>4, <2>1, <2>3
  <2>4. QED
    BY <1>2, <2>2, <2>3
<1>6. s \cup {n} = {q[i] : i \in 1..(size + 1)}
  <2>1. s = {q[i] : i \in 1..size}
    BY <1>4 DEF Enumerates
  <2>2. size + 1 \in 1..(size + 1) /\ \A i \in 1..size : i \in 1..(size + 1)
    BY <1>1
  <2>3. QED
    BY <1>2, <1>4, <2>1, <2>2
<1>7. Enumerates(q, size + 1, s \cup {n})
  BY <1>1, <1>3, <1>5, <1>6 DEF Enumerates
<1>8. QED
  BY <1>7 DEF q

\* What the slots of orders first to last, that one not, hold of the level.
HoldsLevel(keys, index, root, first, last) ==
    \E p, size : /\ Enumerates(p, size, {m \in (first + 1)..last : ~IsDeeper(root, index[m])})
                 /\ keys = [i \in 1..size |-> index[p[i]]]

LEMMA ScanEnumerates ==
    ASSUME NEW index, NEW root, NEW first \in Nat, NEW last \in Nat, first <= last,
           \A m \in (first + 1)..last : index[m] \in Text,
           NEW f, IsScan(f, index, root, first, last)
    PROVE  HoldsLevel(f[last], index, root, first, last)
<1> DEFINE OnLevel(n) == {m \in (first + 1)..n : ~IsDeeper(root, index[m])}
           Holds(n) == \E p, size : /\ Enumerates(p, size, OnLevel(n))
                                    /\ f[n] = [i \in 1..size |-> index[p[i]]]
           S == {k \in Nat : first + k <= last => Holds(first + k)}
<1>1. \A n \in first..last :
          f[n] = IF n = first THEN <<>>
                 ELSE IF IsDeeper(root, index[n]) THEN f[n - 1]
                 ELSE Append(f[n - 1], index[n])
  BY DEF IsScan, Scan
<1>2. Holds(first)
  <2> DEFINE p == [i \in 1..0 |-> 0]
  <2>1. f[first] = <<>> /\ OnLevel(first) = {}
    BY <1>1
  <2>2. Enumerates(p, 0, OnLevel(first))
    BY <2>1 DEF Enumerates
  <2>3. <<>> = [i \in 1..0 |-> index[p[i]]]
    OBVIOUS
  <2> HIDE DEF OnLevel, p
  <2>4. /\ Enumerates(p, 0, OnLevel(first))
        /\ f[first] = [i \in 1..0 |-> index[p[i]]]
    BY <2>1, <2>2, <2>3, Zenon
  <2>5. QED
    BY <2>4, Zenon
<1>3. ASSUME NEW n \in (first + 1)..last, Holds(n - 1) PROVE Holds(n)
  <2>1. PICK p, size : /\ Enumerates(p, size, OnLevel(n - 1))
                       /\ f[n - 1] = [i \in 1..size |-> index[p[i]]]
    BY <1>3
  <2>2. n \in first..last /\ n # first /\ \A m \in OnLevel(n - 1) : m < n
    OBVIOUS
  <2>3. CASE IsDeeper(root, index[n])
    <3>1. OnLevel(n) = OnLevel(n - 1)
      BY <2>3
    <3>2. f[n] = f[n - 1]
      BY <1>1, <2>2, <2>3
    <3> HIDE DEF OnLevel
    <3>3. QED
      BY <2>1, <3>1, <3>2
  <2>4. CASE ~IsDeeper(root, index[n])
    <3> DEFINE q == [i \in 1..(size + 1) |-> IF i = size + 1 THEN n ELSE p[i]]
    <3>1. OnLevel(n) = OnLevel(n - 1) \cup {n}
      BY <2>4
    <3>2. Enumerates(q, size + 1, OnLevel(n))
      <4> HIDE DEF OnLevel, q
      <4>1. n \in Int
        OBVIOUS
      <4>2. Enumerates(q, size + 1, OnLevel(n - 1) \cup {n})
        BY <2>1, <2>2, <4>1, EnumerationGrows DEF q
      <4>3. QED
        BY <3>1, <4>2
    <3>3. f[n] = Append(f[n - 1], index[n])
      BY <1>1, <2>2, <2>4
    <3>4. size \in Nat /\ \A i \in 1..size : p[i] \in (first + 1)..last
      <4>1. size \in Nat /\ \A i \in 1..size : p[i] \in OnLevel(n - 1)
        BY <2>1 DEF Enumerates
      <4>2. QED
        BY <4>1
    <3>5. [i \in 1..size |-> index[p[i]]] \in [1..size -> Text] /\ index[n] \in Text
      BY <3>4
    <3>6. Append([i \in 1..size |-> index[p[i]]], index[n]) = [i \in 1..(size + 1) |-> index[q[i]]]
      <4>1. PICK s \in [1..size -> Text] : s = [i \in 1..size |-> index[p[i]]]
        BY <3>5
      <4>2. s \in Seq(Text) /\ Len(s) = size
        BY <3>4, <4>1
      <4>3. Append(s, index[n]) = [i \in 1..(size + 1) |-> IF i = size + 1 THEN index[n] ELSE s[i]]
        BY <3>4, <3>5, <4>2
      <4>4. \A i \in 1..(size + 1) : (IF i = size + 1 THEN index[n] ELSE s[i]) = index[q[i]]
        BY <3>4, <4>1
      <4> HIDE DEF q
      <4>5. QED
        BY <4>1, <4>3, <4>4
    <3> HIDE DEF OnLevel, q
    <3>7. f[n] = [i \in 1..(size + 1) |-> index[q[i]]]
      BY <2>1, <3>3, <3>6
    <3>8. QED
      BY <3>2, <3>7
  <2>5. QED
    BY <2>3, <2>4
<1> HIDE DEF Holds
<1>4. ASSUME NEW k \in Nat, \A m \in Nat : m < k => m \in S PROVE k \in S
  <2>1. CASE k = 0
    BY <1>2, <2>1
  <2>2. CASE k # 0
    <3>1. k - 1 \in S
      BY <1>4, <2>2
    <3>2. SUFFICES ASSUME first + k <= last PROVE Holds(first + k)
      OBVIOUS
    <3>3. first + (k - 1) <= last /\ first + (k - 1) = first + k - 1 /\ first + k \in (first + 1)..last
      BY <2>2, <3>2
    <3>4. Holds(first + k - 1)
      BY <3>1, <3>3
    <3>5. QED
      BY <1>3, <3>3, <3>4
  <2>3. QED
    BY <2>1, <2>2
<1> HIDE DEF S
<1>5. Nat \subseteq S
  BY <1>4, Induction
<1>6. last - first \in S /\ first + (last - first) = last
  BY <1>5
<1>7. Holds(last)
  BY <1>6 DEF S
<1>8. QED
  BY <1>7 DEF Holds, HoldsLevel

\* What a call takes of a level: those with so many before them; and what it copies.
Taken(s, from, desired) ==
    {n \in s : LET k == Cardinality({m \in s : m < n})
               IN  from <= k /\ (desired = 0 \/ k < from + desired)}
TakenEnd(size, from, desired) ==
    IF desired > 0 /\ from + desired < size THEN from + desired ELSE size
CopyOf(index, p, size, a, b) == SubSeq([i \in 1..size |-> index[p[i]]], a, b)
KeysAt(index, s) == {index[n] : n \in s}
Shallow(index, root) ==
    {n \in DOMAIN index : IsUnder(root, index[n]) /\ index[n] # root /\ ~IsDeeper(root, index[n])}

LEMMA OneLevelIs ==
    ASSUME NEW index, SortedTexts(index), NEW root \in Text, Len(root) >= 1,
           NEW from \in Nat, NEW desired \in Nat
    PROVE  \E p, size :
              /\ Enumerates(p, size, Shallow(index, root))
              /\ OneLevel(index, root, from, desired) =
                    CopyOf(index, p, size, from + 1, TakenEnd(size, from, desired))
<1>1. /\ DOMAIN index = 1..Len(index) /\ Len(index) \in Nat
      /\ \A n \in 1..Len(index) : index[n] \in Text
  BY DEF SortedTexts
<1>2. PICK count \in Nat : count = Len(index)
  BY <1>1
<1>3. PICK after \in Text : after = AfterRoot(root) /\ Less(root, after)
  BY AfterRootIs, RootIsLess
<1>4. PICK low \in Int : low = Search(index, root)
  BY SearchCounts
<1>5. PICK high \in Int : high = Search(index, after)
  BY SearchCounts
<1>6. PICK first : first = IF low >= 0 THEN low + 1 ELSE -low - 1
  OBVIOUS
<1>7. PICK last : last = IF high >= 0 THEN high ELSE -high - 1
  OBVIOUS
<1>8. /\ first \in 0..count
      /\ \A n \in 0..(count - 1) : Less(root, index[n + 1]) <=> first <= n
  <2>1. LowOrder(low, FALSE) = first
    BY <1>4, <1>6 DEF LowOrder
  <2>2. /\ LowOrder(low, FALSE) \in 0..count
        /\ \A n \in 0..(count - 1) :
              Less(root, index[n + 1]) \/ (FALSE /\ root = index[n + 1]) <=> LowOrder(low, FALSE) <= n
    BY <1>2, <1>4, LowIs
  <2>3. QED
    BY <2>1, <2>2
<1>9. /\ last \in 0..count
      /\ \A n \in 0..(count - 1) : Less(index[n + 1], after) <=> n < last
  <2>1. HighOrder(high, FALSE) = last - 1 /\ last \in Int
    BY <1>5, <1>7 DEF HighOrder
  <2>2. /\ HighOrder(high, FALSE) \in -1..(count - 1)
        /\ \A n \in 0..(count - 1) :
              Less(index[n + 1], after) \/ (FALSE /\ index[n + 1] = after) <=> n <= HighOrder(high, FALSE)
    BY <1>2, <1>5, HighIs
  <2>3. last - 1 \in -1..(count - 1)
    BY <2>1, <2>2
  <2>4. \A n \in 0..(count - 1) : Less(index[n + 1], after) <=> n <= last - 1
    BY <2>1, <2>2
  <2>5. last \in 0..count /\ \A n \in 0..(count - 1) : n <= last - 1 <=> n < last
    BY <2>1, <2>3
  <2>6. QED
    BY <2>4, <2>5
<1>10. first <= last
  <2>1. ASSUME last < first PROVE FALSE
    <3>1. first - 1 \in 0..(count - 1) /\ ~(first <= first - 1) /\ ~(first - 1 < last)
          /\ first - 1 + 1 = first /\ first \in 1..count
      BY <1>8, <1>9, <2>1
    <3>2. PICK key \in Text : key = index[first]
      BY <1>1, <1>2, <3>1
    <3>3. ~Less(root, key) /\ ~Less(key, after)
      BY <1>8, <1>9, <3>1, <3>2
    <3>4. key = root \/ Less(key, root)
      BY <3>3, LessTotal
    <3>5. Less(key, after)
      BY <1>3, <3>4, LessTransitive
    <3>6. QED
      BY <3>3, <3>5
  <2>2. QED
    BY <1>8, <1>9, <2>1
<1>11. {m \in (first + 1)..last : ~IsDeeper(root, index[m])} = Shallow(index, root)
  <2>1. ASSUME NEW n \in 1..count
        PROVE  n \in (first + 1)..last <=> IsUnder(root, index[n]) /\ index[n] # root
    <3>1. PICK key \in Text : key = index[n]
      BY <1>1, <1>2
    <3>2. n - 1 \in 0..(count - 1) /\ n - 1 + 1 = n
      BY <2>1
    <3>3. (Less(root, key) <=> first <= n - 1) /\ (Less(key, after) <=> n - 1 < last)
      BY <1>8, <1>9, <3>1, <3>2
    <3>4. n \in (first + 1)..last <=> first <= n - 1 /\ n - 1 < last
      BY <1>8, <1>9
    <3>5. IsUnder(root, key) <=> (Less(root, key) \/ root = key) /\ Less(key, after)
      BY <1>3, UnderIs
    <3>6. Less(root, key) => key # root
      BY LessExcludes
    <3>7. QED
      BY <3>1, <3>3, <3>4, <3>5, <3>6
  <2>2. (first + 1)..last \subseteq 1..count
    BY <1>8, <1>9
  <2>3. QED
    BY <1>1, <1>2, <2>1, <2>2 DEF Shallow
<1>12. PICK f : IsScan(f, index, root, first, last) /\ Level(index, root, first, last) = f[last]
  <2>1. first \in Nat /\ last \in Nat
    BY <1>8, <1>9
  <2>2. QED
    BY <2>1, LevelIs, Zenon
<1>13. \A m \in (first + 1)..last : index[m] \in Text
  BY <1>1, <1>2, <1>8, <1>9
<1>14. PICK p, size :
          /\ Enumerates(p, size, {m \in (first + 1)..last : ~IsDeeper(root, index[m])})
          /\ f[last] = [i \in 1..size |-> index[p[i]]]
  <2>1. first \in Nat /\ last \in Nat
    BY <1>8, <1>9
  <2>2. QED
    <3>1. HoldsLevel(f[last], index, root, first, last)
      BY <2>1, <1>10, <1>12, <1>13, ScanEnumerates, Zenon
    <3>2. QED
      BY <3>1 DEF HoldsLevel
<1>15. PICK level : level = [i \in 1..size |-> index[p[i]]] /\ Len(level) = size
  <2>1. size \in Nat /\ \A i \in 1..size : p[i] \in (first + 1)..last
    BY <1>14 DEF Enumerates
  <2>2. PICK s \in [1..size -> Text] : s = [i \in 1..size |-> index[p[i]]]
    BY <1>13, <2>1
  <2>3. Len(s) = size
    BY <2>1, <2>2
  <2>4. QED
    BY <2>2, <2>3, Zenon
<1>16. OneLevel(index, root, from, desired) =
          SubSeq(level, from + 1, TakenEnd(Len(level), from, desired))
  <2>1. Level(index, root, first, last) = level
    BY <1>12, <1>14, <1>15
  <2>2. QED
    BY <1>3, <1>4, <1>5, <1>6, <1>7, <2>1 DEF OneLevel, TakenEnd
<1>17. Enumerates(p, size, Shallow(index, root))
  BY <1>11, <1>14, Zenon
<1>18. QED
  BY <1>15, <1>16, <1>17, Zenon DEF CopyOf

\* The part of an enumerated level that a call takes: those with so many before them.
LEMMA TakenPart ==
    ASSUME NEW p, NEW size, NEW s, Enumerates(p, size, s), NEW from \in Nat, NEW desired \in Nat
    PROVE  LET end == TakenEnd(size, from, desired)
           IN  Taken(s, from, desired) = Part(p, from + 1, end) /\ end \in Nat /\ end <= size
<1>1. size \in Nat
  BY DEF Enumerates
<1>2. PICK end \in Nat :
          end = TakenEnd(size, from, desired) /\ end <= size
  BY <1>1 DEF TakenEnd
<1>3. \A i \in 1..size : Cardinality({m \in s : m < p[i]}) = i - 1
  BY EnumeratedRank
<1>4. s = {p[i] : i \in 1..size}
  BY DEF Enumerates
<1>5. ASSUME NEW i \in 1..size
      PROVE  (from <= i - 1 /\ (desired = 0 \/ i - 1 < from + desired)) <=> i \in (from + 1)..end
  <2>1. CASE desired > 0 /\ from + desired < size
    <3>1. end = from + desired
      BY <1>2, <2>1 DEF TakenEnd
    <3>2. QED
      BY <1>1, <2>1, <3>1
  <2>2. CASE ~(desired > 0 /\ from + desired < size)
    <3>1. end = size
      BY <1>2, <2>2 DEF TakenEnd
    <3>2. QED
      BY <1>1, <2>2, <3>1
  <2>3. QED
    BY <2>1, <2>2
<1>6. Taken(s, from, desired) = {p[i] : i \in {j \in 1..size : j \in (from + 1)..end}}
  BY <1>3, <1>4, <1>5 DEF Taken
<1>7. {j \in 1..size : j \in (from + 1)..end} = (from + 1)..end
  BY <1>1, <1>2
<1>8. QED
  BY <1>2, <1>6, <1>7 DEF Part

\* What is copied out of the keys of the level.
LEMMA CopiedPart ==
    ASSUME NEW index, NEW p, NEW size, NEW s, Enumerates(p, size, s),
           \A n \in s : index[n] \in Text,
           NEW a \in Nat \ {0}, NEW b \in Nat, b <= size
    PROVE  LET part == CopyOf(index, p, size, a, b)
           IN  /\ Len(part) = Cardinality(Part(p, a, b))
               /\ Range(part) = KeysAt(index, Part(p, a, b))
<1>1. size \in Nat /\ \A i \in 1..size : p[i] \in s
  BY DEF Enumerates
<1>2. PICK level \in [1..size -> Text] : level = [i \in 1..size |-> index[p[i]]]
  BY <1>1
<1>3. level \in Seq(Text) /\ Len(level) = size /\ \A i \in 1..size : level[i] = index[p[i]]
  BY <1>1, <1>2
<1>4. PICK count \in Nat : count = IF a <= b THEN b - a + 1 ELSE 0
  <2>1. (IF a <= b THEN b - a + 1 ELSE 0) \in Nat
    OBVIOUS
  <2>2. QED
    BY <2>1
<1>5. SubSeq(level, a, b) = [i \in 1..count |-> level[a + i - 1]]
  <2>1. CASE a <= b
    <3>1. count = b - a + 1
      BY <1>4, <2>1
    <3>2. SubSeq(level, a, b) = [i \in 1..(b - a + 1) |-> level[a + i - 1]]
      BY <1>1, <1>3, <2>1
    <3>3. QED
      BY <3>1, <3>2
  <2>2. CASE ~(a <= b)
    <3>1. count = 0
      BY <1>4, <2>2
    <3>2. SubSeq(level, a, b) = <<>>
      BY <1>1, <1>3, <2>2
    <3>3. QED
      BY <3>1, <3>2
  <2>3. QED
    BY <2>1, <2>2
<1>6. PICK part : part = [i \in 1..count |-> level[a + i - 1]]
  OBVIOUS
<1>7. \A i \in 1..count : a + i - 1 \in a..b /\ a + i - 1 \in 1..size
  BY <1>1, <1>4
<1>8. Len(part) = count
  <2>1. part \in [1..count -> Text]
    BY <1>2, <1>6, <1>7
  <2>2. QED
    BY <2>1
<1>9. Cardinality(Part(p, a, b)) = count
  BY <1>4, EnumeratedPart
<1>10. Range(part) = {index[n] : n \in {p[i] : i \in a..b}}
  <2>1. Range(part) = {index[p[a + i - 1]] : i \in 1..count}
    <3>1. Range(part) = {part[i] : i \in 1..count}
      BY <1>6 DEF Range
    <3>2. \A i \in 1..count : part[i] = index[p[a + i - 1]]
      BY <1>3, <1>6, <1>7
    <3>3. QED
      BY <3>1, <3>2
  <2>2. \A j \in a..b : j - a + 1 \in 1..count /\ a + (j - a + 1) - 1 = j
    BY <1>4
  <2>3. {index[p[a + i - 1]] : i \in 1..count} = {index[p[j]] : j \in a..b}
    BY <1>7, <2>2
  <2>4. QED
    BY <2>1, <2>3
<1>11. part = CopyOf(index, p, size, a, b)
  BY <1>2, <1>5, <1>6 DEF CopyOf
<1>12. QED
  BY <1>8, <1>9, <1>10, <1>11 DEF Part, KeysAt

\* A path and what it asks for.
IsPath(i) ==
    /\ IsIndex(i.index) /\ Len(i.index) < Word \div 2
    /\ i.path \in Text /\ i.from \in Nat /\ i.desired \in Nat

PathResult(i) ==
    LET root == NormalizePath(i.path).text
    IN  [base |-> Base(i.index, root),
         level |-> OneLevel(i.index, root, i.from, i.desired),
         subtree |-> Subtree(i.index, root, i.from, i.desired)]

Children(index, root) ==
    {n \in DOMAIN index : /\ IsUnder(root, index[n])
                          /\ index[n] # root
                          /\ LET name == SubSeq(index[n], Len(root) + 1, Len(index[n]))
                             IN  Slash \notin Range(Front(name))}

LEMMA OneLevelIsRight ==
    ASSUME NEW index, IsIndex(index), NEW root \in Text, Len(root) >= 1,
           NEW from \in Nat, NEW desired \in Nat
    PROVE  LET found == OneLevel(index, root, from, desired)
               level == Taken(Children(index, root), from, desired)
           IN  /\ Len(found) = Cardinality(level)
               /\ Range(found) = KeysAt(index, level)
<1>1. SortedTexts(index)
  BY IndexIsSorted
<1>2. \A n \in DOMAIN index : index[n] \in Text
  BY <1>1 DEF SortedTexts
<1>3. Children(index, root) = Shallow(index, root)
  BY <1>2, DeeperIs DEF Children, Shallow
<1>4. PICK p, size :
          /\ Enumerates(p, size, Children(index, root))
          /\ OneLevel(index, root, from, desired) =
                CopyOf(index, p, size, from + 1, TakenEnd(size, from, desired))
  <2>1. \E p, size :
          /\ Enumerates(p, size, Shallow(index, root))
          /\ OneLevel(index, root, from, desired) =
                CopyOf(index, p, size, from + 1, TakenEnd(size, from, desired))
    BY <1>1, OneLevelIs
  <2>2. QED
    BY <1>3, <2>1, Zenon
<1>5. PICK end : end = TakenEnd(size, from, desired)
  OBVIOUS
<1>6. Taken(Children(index, root), from, desired) = Part(p, from + 1, end) /\ end \in Nat /\ end <= size
  BY <1>4, <1>5, TakenPart
<1>7. \A n \in Children(index, root) : index[n] \in Text
  BY <1>2 DEF Children
<1>8. PICK start \in Nat \ {0} : start = from + 1
  OBVIOUS
<1>9. /\ Len(CopyOf(index, p, size, start, end)) = Cardinality(Part(p, start, end))
      /\ Range(CopyOf(index, p, size, start, end)) = KeysAt(index, Part(p, start, end))
  BY <1>4, <1>6, <1>7, CopiedPart
<1>10. QED
  BY <1>4, <1>5, <1>6, <1>8, <1>9

LEMMA SubtreeIsRight ==
    ASSUME NEW index, IsIndex(index), Len(index) < Word \div 2,
           NEW root \in Text, Len(root) >= 1
    PROVE  {n + 1 : n \in SlotsRead(Subtree(index, root, 0, 0))}
              = {n \in DOMAIN index : IsUnder(root, index[n])}
<1>1. PICK after \in Text : after = AfterRoot(root) /\ Less(root, after)
  BY AfterRootIs, RootIsLess
<1>2. /\ DOMAIN index = 1..Len(index) /\ Len(index) \in Nat
      /\ \A n \in 1..Len(index) : index[n] \in Text
  BY IndexIsSorted DEF SortedTexts
<1>3. PICK i : i = [all |-> FALSE, index |-> index, low |-> root, lowClosed |-> TRUE,
                    high |-> after, highClosed |-> FALSE, from |-> 0, desired |-> 0]
  OBVIOUS
<1>4. IsFind(i)
  <2>1. AreCounts(index, 0, 0)
    BY <1>2, HalfWord DEF AreCounts
  <2>2. QED
    BY <1>3, <2>1 DEF IsFind
<1>5. Subtree(index, root, 0, 0) = FindResult(i)
  BY <1>1, <1>3 DEF Subtree, FindResult, Find
<1>6. PICK range : range = InRange(i)
  OBVIOUS
<1>7. range = {n \in 0..(Len(index) - 1) : IsUnder(root, index[n + 1])}
  <2>1. range = {n \in 0..(Len(index) - 1) :
                    /\ Less(root, index[n + 1]) \/ root = index[n + 1]
                    /\ Less(index[n + 1], after)}
    BY <1>3, <1>6 DEF InRange
  <2>2. \A n \in 0..(Len(index) - 1) : n + 1 \in 1..Len(index)
    BY <1>2
  <2>3. \A n \in 0..(Len(index) - 1) :
            IsUnder(root, index[n + 1]) <=> /\ Less(root, index[n + 1]) \/ root = index[n + 1]
                                            /\ Less(index[n + 1], after)
    BY <1>1, <1>2, <2>2, UnderIs
  <2>4. QED
    BY <2>1, <2>3
<1>8. IsRange(i)
  BY <1>1, <1>3 DEF IsRange
<1>9. SlotsRead(FindResult(i)) = range
  <2>1. PICK first \in Int, last \in Int : range = first..last /\ first <= last + 1
    <3>1. Len(i.index) \in Nat
      BY <1>2, <1>3
    <3>2. QED
      BY <1>4, <1>6, <1>8, <3>1, RangeIs
  <2>2. {n \in range : Cardinality({k \in range : k < n}) >= 0} = range
    <3>1. AtLeastBelow(range, 0) = first..last
      <4>1. AtLeastBelow(first..last, 0) = (first + 0)..last
        BY Ranks, Zenon
      <4>2. QED
        BY <2>1, <4>1
    <3>2. QED
      BY <2>1, <3>1 DEF AtLeastBelow
  <2>3. 0 <= Cardinality(range)
    <3>1. Cardinality(first..last) = IF first > last THEN 0 ELSE last - first + 1
      BY FS_Interval
    <3>2. Cardinality(first..last) \in Nat
      BY <3>1
    <3>3. QED
      BY <2>1, <3>2
  <2>4. i.from = 0 /\ i.desired = 0
    BY <1>3
  <2>5. SlotsRead(FindResult(i)) =
            {n \in {n \in range : Cardinality({k \in range : k < n}) >= i.from} :
                \/ i.desired = 0
                \/ Cardinality({k \in {n2 \in range : Cardinality({k \in range : k < n2}) >= i.from}
                                : k < n}) < i.desired}
    BY <1>4, <1>6, <1>8, <2>3, <2>4, FindIsRight
  <2>6. QED
    BY <2>2, <2>4, <2>5
<1>10. {n + 1 : n \in range} = {n \in DOMAIN index : IsUnder(root, index[n])}
  <2>1. \A n \in 1..Len(index) : n - 1 \in 0..(Len(index) - 1) /\ n - 1 + 1 = n
    BY <1>2
  <2>2. \A n \in 0..(Len(index) - 1) : n + 1 \in 1..Len(index)
    BY <1>2
  <2>3. QED
    BY <1>2, <1>7, <2>1, <2>2
<1>11. QED
  BY <1>5, <1>9, <1>10

-----------------------------------------------------------------------------
(* The encoding of sizes.                                                  *)

Byte == 0..255
Number == [NumberBytes -> Byte]
Field == [1..10 -> Byte]

\* Arithmetic on bytes.
LEMMA Difference ==
    \A x, y \in 0..255 : \A d : d = x - y =>
        (d < 0 <=> x < y) /\ (d = 0 <=> x = y) /\ (x < y => ~(y < x))
OBVIOUS

LEMMA SameTop ==
    \A o \in 128..255 : \A x, y \in 0..255 :
        /\ o + x = o + y => x = y
        /\ o + x < o + y => x < y
        /\ x < 256 - o /\ 256 - o <= y => x < y
OBVIOUS

LEMMA OnesAre ==
    /\ Ones(0) = 0 /\ Ones(1) = 128 /\ Ones(2) = 192 /\ Ones(3) = 224 /\ Ones(4) = 240
    /\ Ones(5) = 248 /\ Ones(6) = 252 /\ Ones(7) = 254 /\ Ones(8) = 255
BY DEF Ones

LEMMA OnesAreBytes == \A n \in 1..8 : Ones(n) \in 128..255
BY OnesAre

\* A byte of a number of ones that are followed by a zero, and other bits.
LEMMA LeadingOnesAre ==
    ASSUME NEW n \in 0..8, NEW byte \in Byte, Ones(n) <= byte, n < 8 => byte < Ones(n + 1)
    PROVE  LeadingOnes(byte) = n
<1>1. CASE n = 8
  BY <1>1, OnesAre DEF LeadingOnes, Byte
<1>2. CASE n < 8
  <2>1. byte # 255
    BY <1>2, OnesAre DEF Byte
  <2>2. \A m \in 0..7 : Ones(m) <= byte /\ byte < Ones(m + 1) => m = n
    BY <1>2, OnesAre DEF Byte
  <2>3. (CHOOSE m \in 0..7 : Ones(m) <= byte /\ byte < Ones(m + 1)) = n
    BY <1>2, <2>2
  <2>4. QED
    BY <2>1, <2>3 DEF LeadingOnes
<1>3. QED
  BY <1>1, <1>2

\* The highest byte of a number that is not zero, or the first one.
LEMMA DataBytesAre ==
    ASSUME NEW v \in Number
    PROVE  LET d == DataBytes(v)
           IN  d \in NumberBytes /\ (v[d] # 0 \/ d = 1) /\ \A j \in d + 1 .. 8 : v[j] = 0
<1> DEFINE Is(n) == (v[n] # 0 \/ n = 1) /\ \A j \in n + 1 .. 8 : v[j] = 0
<1>1. \E n \in NumberBytes : Is(n)
  <2>1. CASE \A j \in 2..8 : v[j] = 0
    BY <2>1 DEF NumberBytes
  <2>2. CASE \E j \in 2..8 : v[j] # 0
    <3>1. PICK n \in 2..8 : v[n] # 0 /\ \A j \in 2..8 : v[j] # 0 => j <= n
      <4> DEFINE S == {8 - j : j \in {i \in 2..8 : v[i] # 0}}
      <4>1. S \in SUBSET Nat /\ \E s \in S : TRUE
        BY <2>2
      <4>2. PICK m \in S : \A k \in S : m <= k
        BY <4>1, LeastNatural
      <4>3. PICK n \in 2..8 : v[n] # 0 /\ m = 8 - n
        BY <4>2
      <4>4. \A j \in 2..8 : v[j] # 0 => 8 - j \in S
        OBVIOUS
      <4> HIDE DEF S
      <4>5. QED
        BY <4>2, <4>3, <4>4
    <3>2. QED
      BY <3>1 DEF NumberBytes
  <2>3. QED
    BY <2>1, <2>2
<1>2. QED
  BY <1>1 DEF DataBytes

\* How a number of more than one byte is laid out.
IsLayout(v, n, shares) ==
    /\ n \in 1..8
    /\ shares => /\ n <= 6 /\ 0 < v[n + 1] /\ v[n + 1] < 256 - Ones(n + 1)
                 /\ \A j \in n + 2 .. 8 : v[j] = 0
    /\ ~shares => /\ 256 - Ones(n) <= v[n]
                  /\ \A j \in n + 1 .. 8 : v[j] = 0

LEMMA LayoutIs ==
    ASSUME NEW v \in Number, ~IsSmall(v)
    PROVE  IsLayout(v, ExclusiveBytes(v), SharesByte(v))
<1>1. PICK d : d = DataBytes(v)
  OBVIOUS
<1>2. d \in 1..8 /\ (v[d] # 0 \/ d = 1) /\ \A j \in d + 1 .. 8 : v[j] = 0
  BY <1>1, DataBytesAre DEF NumberBytes
<1>3. \A j \in 1..8 : v[j] \in 0..255
  BY DEF Number, Byte, NumberBytes
<1>4. d = 1 => v[1] >= 128
  BY <1>2, <1>3 DEF IsSmall
<1>5. CASE SharesByte(v)
  <2>1. ExclusiveBytes(v) = d - 1
    BY <1>1, <1>5 DEF ExclusiveBytes
  <2>2. d < 8 /\ v[d] < 256 - Ones(d)
    BY <1>1, <1>5 DEF SharesByte
  <2>3. d # 1
    <3>1. ASSUME d = 1 PROVE FALSE
      BY <1>3, <1>4, <2>2, <3>1, OnesAre
    <3>2. QED
      BY <3>1
  <2>4. v[d] # 0 /\ v[d] \in 0..255
    BY <1>2, <1>3, <2>3
  <2>5. QED
    BY <1>2, <1>5, <2>1, <2>2, <2>3, <2>4 DEF IsLayout
<1>6. CASE ~SharesByte(v)
  <2>1. ExclusiveBytes(v) = d
    BY <1>1, <1>6 DEF ExclusiveBytes
  <2>2. 256 - Ones(d) <= v[d]
    <3>1. CASE d < 8
      <4>1. ~(v[d] < 256 - Ones(d))
        BY <1>1, <1>6, <3>1 DEF SharesByte
      <4>2. QED
        BY <1>2, <1>3, <4>1, OnesAre
    <3>2. CASE d = 8
      BY <1>2, <1>3, <3>2, OnesAre
    <3>3. QED
      BY <1>2, <3>1, <3>2
  <2>3. QED
    BY <1>2, <1>6, <2>1, <2>2 DEF IsLayout
<1>7. QED
  BY <1>5, <1>6

-----------------------------------------------------------------------------
(* A field that holds a number.                                            *)

Control(v) ==
    IF IsSmall(v) THEN v[1]
    ELSE Ones(ExclusiveBytes(v)) + (IF SharesByte(v) THEN v[ExclusiveBytes(v) + 1] ELSE 0)

Holds(field, v) ==
    /\ field \in Field
    /\ field[1] = Control(v)
    /\ ~IsSmall(v) => \A i \in 1..ExclusiveBytes(v) :
                          field[1 + Skipped(ExclusiveBytes(v)) + i] = v[i]

LEMMA ControlIs ==
    ASSUME NEW v \in Number
    PROVE  /\ Control(v) \in Byte
           /\ IsSmall(v) <=> Control(v) < 128
           /\ IsSmall(v) => LeadingOnes(Control(v)) = 0
           /\ ~IsSmall(v) => LeadingOnes(Control(v)) = ExclusiveBytes(v)
<1>1. \A j \in 1..8 : v[j] \in 0..255
  BY DEF Number, Byte, NumberBytes
<1>2. CASE IsSmall(v)
  <2>1. Control(v) = v[1] /\ v[1] < 128
    BY <1>2 DEF Control, IsSmall
  <2>2. LeadingOnes(v[1]) = 0
    BY <1>1, <2>1, LeadingOnesAre, OnesAre, SMTT(30) DEF Byte
  <2>3. QED
    BY <1>1, <1>2, <2>1, <2>2 DEF Byte
<1>3. CASE ~IsSmall(v)
  <2>1. PICK n : n = ExclusiveBytes(v)
    OBVIOUS
  <2>2. IsLayout(v, n, SharesByte(v))
    BY <1>3, <2>1, LayoutIs
  <2>3. n \in 1..8
    BY <2>2 DEF IsLayout
  <2>4. Control(v) = Ones(n) + (IF SharesByte(v) THEN v[n + 1] ELSE 0)
    BY <1>3, <2>1 DEF Control
  <2>5. /\ Control(v) \in Byte /\ 128 <= Control(v)
        /\ Ones(n) <= Control(v) /\ (n < 8 => Control(v) < Ones(n + 1))
    <3>1. CASE SharesByte(v)
      <4>1. n <= 6 /\ 0 < v[n + 1] /\ v[n + 1] < 256 - Ones(n + 1) /\ v[n + 1] \in 0..255
        BY <1>1, <2>2, <2>3, <3>1 DEF IsLayout
      <4>2. Control(v) = Ones(n) + v[n + 1]
        BY <2>4, <3>1
      <4>3. QED
        BY <2>3, <4>1, <4>2, OnesAre DEF Byte
    <3>2. CASE ~SharesByte(v)
      <4>1. Control(v) = Ones(n)
        BY <2>3, <2>4, <3>2, OnesAre
      <4>2. QED
        BY <2>3, <4>1, OnesAre DEF Byte
    <3>3. QED
      BY <3>1, <3>2
  <2>6. LeadingOnes(Control(v)) = n
    BY <2>3, <2>5, LeadingOnesAre
  <2>7. QED
    BY <1>3, <2>1, <2>5, <2>6 DEF Byte
<1>4. QED
  BY <1>2, <1>3

\* A number of the field is read back, and takes as many bytes as were evaluated.
LEMMA NumberIsHeld ==
    ASSUME NEW v \in Number, NEW field, Holds(field, v)
    PROVE  NumberAt(field) = v /\ PhysicalSize(field) = EvaluatePhysicalSize(v)
<1>1. \A j \in 1..8 : v[j] \in 0..255
  BY DEF Number, Byte, NumberBytes
<1>2. v = [i \in 1..8 |-> v[i]]
  BY DEF Number, NumberBytes
<1>3. CASE IsSmall(v)
  <2>1. field[1] = v[1] /\ v[1] < 128
    BY <1>3 DEF Holds, Control, IsSmall
  <2>2. NumberAt(field) = [i \in 1..8 |-> IF i = 1 THEN v[1] ELSE 0]
    BY <2>1 DEF NumberAt, ZeroNumber, NumberBytes
  <2>3. \A i \in 2..8 : v[i] = 0
    BY <1>3 DEF IsSmall
  <2>4. PhysicalSize(field) = 1 /\ EvaluatePhysicalSize(v) = 1
    BY <1>3, <2>1 DEF PhysicalSize, EvaluatePhysicalSize
  <2>5. QED
    BY <1>2, <2>2, <2>3, <2>4
<1>4. CASE ~IsSmall(v)
  <2>1. PICK n : n = ExclusiveBytes(v)
    OBVIOUS
  <2>2. IsLayout(v, n, SharesByte(v))
    BY <1>4, <2>1, LayoutIs
  <2>3. n \in 1..8
    BY <2>2 DEF IsLayout
  <2>4. ~(field[1] < 128) /\ LeadingOnes(field[1]) = n
    <3>1. field[1] = Control(v) /\ Control(v) \in Byte
      BY ControlIs DEF Holds
    <3>2. QED
      BY <1>4, <2>1, <3>1, ControlIs
  <2>5. field[1] - Ones(n) = IF SharesByte(v) THEN v[n + 1] ELSE 0
    <3>1. field[1] = Ones(n) + (IF SharesByte(v) THEN v[n + 1] ELSE 0)
      BY <1>4, <2>1 DEF Holds, Control
    <3>2. SharesByte(v) => v[n + 1] \in 0..255
      BY <1>1, <2>2, <2>3 DEF IsLayout
    <3>3. QED
      BY <2>3, <3>1, <3>2, OnesAre
  <2>6. \A i \in 1..n : field[1 + Skipped(n) + i] = v[i]
    BY <1>4, <2>1 DEF Holds
  <2>7. NumberAt(field) =
            [i \in 1..8 |-> IF i <= n THEN field[1 + Skipped(n) + i]
                            ELSE IF i = n + 1 THEN field[1] - Ones(n) ELSE 0]
    BY <2>4 DEF NumberAt, NumberBytes
  <2>8. ASSUME NEW i \in 1..8
        PROVE  v[i] = IF i <= n THEN field[1 + Skipped(n) + i]
                      ELSE IF i = n + 1 THEN field[1] - Ones(n) ELSE 0
    <3>1. CASE i <= n
      BY <2>3, <2>6, <3>1
    <3>2. CASE i = n + 1
      BY <2>2, <2>3, <2>5, <3>2 DEF IsLayout
    <3>3. CASE i > n + 1
      BY <2>2, <2>3, <3>3 DEF IsLayout
    <3>4. QED
      BY <2>3, <3>1, <3>2, <3>3
  <2>9. PhysicalSize(field) = n + (n + 1) \div 8 + (IF (n + 1) % 8 # 0 THEN 1 ELSE 0)
    BY <2>4 DEF PhysicalSize
  <2>10. EvaluatePhysicalSize(v) = 1 + Skipped(n) + n
    BY <1>4, <2>1 DEF EvaluatePhysicalSize
  <2>11. PhysicalSize(field) = EvaluatePhysicalSize(v)
    BY <2>3, <2>9, <2>10 DEF Skipped
  <2>12. QED
    BY <1>2, <2>7, <2>8, <2>11
<1>5. QED
  BY <1>3, <1>4

-----------------------------------------------------------------------------
(* The comparison of two fields.                                           *)

LEMMA NotSmaller ==
    ASSUME NEW a \in Number, NEW b \in Number, IsSmaller(a, b)
    PROVE  ~IsSmaller(b, a) /\ a # b
<1>1. PICK i \in 1..8 : a[i] < b[i] /\ \A j \in i + 1 .. 8 : a[j] = b[j]
  BY DEF IsSmaller, NumberBytes
<1>2. \A j \in 1..8 : a[j] \in 0..255 /\ b[j] \in 0..255
  BY DEF Number, Byte, NumberBytes
<1>3. ASSUME NEW k \in 1..8, b[k] < a[k], \A j \in k + 1 .. 8 : b[j] = a[j]
      PROVE  FALSE
  <2>1. a[i] \in 0..255 /\ b[i] \in 0..255 /\ a[k] \in 0..255 /\ b[k] \in 0..255
    BY <1>2
  <2>2. CASE k < i
    <3>1. b[i] = a[i]
      BY <1>3, <2>2
    <3>2. QED
      BY <1>1, <2>1, <3>1
  <2>3. CASE i < k
    <3>1. a[k] = b[k]
      BY <1>1, <2>3
    <3>2. QED
      BY <1>3, <2>1, <3>1
  <2>4. CASE i = k
    <3>1. a[i] < b[i] /\ b[i] < a[i]
      BY <1>1, <1>3, <2>4
    <3>2. PICK x \in 0..255, y \in 0..255 : x = a[i] /\ y = b[i]
      BY <2>1
    <3>3. QED
      BY <3>1, <3>2
  <2>5. QED
    BY <2>2, <2>3, <2>4
<1>4. QED
  BY <1>1, <1>2, <1>3 DEF IsSmaller, NumberBytes

\* The first byte grows with the number.
LEMMA ControlGrows ==
    ASSUME NEW a \in Number, NEW b \in Number, Control(a) < Control(b)
    PROVE  IsSmaller(a, b)
<1>1. \A j \in 1..8 : a[j] \in 0..255 /\ b[j] \in 0..255
  BY DEF Number, Byte, NumberBytes
<1>2. CASE IsSmall(b)
  <2>1. IsSmall(a)
    BY <1>2, ControlIs DEF Byte
  <2>2. a[1] < b[1] /\ \A j \in 2..8 : a[j] = b[j]
    BY <1>2, <2>1 DEF Control, IsSmall
  <2>3. QED
    BY <2>2 DEF IsSmaller, NumberBytes
<1>3. CASE ~IsSmall(b)
  <2>1. PICK n : n = ExclusiveBytes(b)
    OBVIOUS
  <2>2. IsLayout(b, n, SharesByte(b))
    BY <1>3, <2>1, LayoutIs
  <2>3. n \in 1..8
    BY <2>2 DEF IsLayout
  <2>4. Control(b) = Ones(n) + (IF SharesByte(b) THEN b[n + 1] ELSE 0)
    BY <1>3, <2>1 DEF Control
  <2>5. CASE IsSmall(a)
    <3>1. a[1] < 128 /\ \A j \in 2..8 : a[j] = 0
      BY <2>5 DEF IsSmall
    <3>2. CASE SharesByte(b)
      <4>1. n + 1 \in 2..8 /\ a[n + 1] < b[n + 1] /\ \A j \in (n + 1) + 1 .. 8 : a[j] = b[j]
        BY <2>2, <2>3, <3>1, <3>2 DEF IsLayout
      <4>2. QED
        BY <4>1 DEF IsSmaller, NumberBytes
    <3>3. CASE ~SharesByte(b)
      <4>1. a[n] < b[n]
        <5>1. 256 - Ones(n) <= b[n] /\ Ones(n) \in 128..255
          BY <2>2, <2>3, <3>3, OnesAreBytes DEF IsLayout
        <5>2. CASE n = 1
          BY <1>1, <3>1, <5>1, <5>2, OnesAre, SMTT(30)
        <5>3. CASE n # 1
          <6>1. a[n] = 0
            BY <2>3, <3>1, <5>3
          <6>2. QED
            BY <1>1, <2>3, <5>1, <6>1, SMTT(30)
        <5>4. QED
          BY <5>2, <5>3
      <4>2. \A j \in n + 1 .. 8 : a[j] = b[j]
        BY <2>2, <2>3, <3>1, <3>3 DEF IsLayout
      <4>3. QED
        BY <2>3, <4>1, <4>2 DEF IsSmaller, NumberBytes
    <3>4. QED
      BY <3>2, <3>3
  <2>6. CASE ~IsSmall(a)
    <3>1. PICK m : m = ExclusiveBytes(a)
      OBVIOUS
    <3>2. IsLayout(a, m, SharesByte(a))
      BY <2>6, <3>1, LayoutIs
    <3>3. m \in 1..8
      BY <3>2 DEF IsLayout
    <3>4. Control(a) = Ones(m) + (IF SharesByte(a) THEN a[m + 1] ELSE 0)
      BY <2>6, <3>1 DEF Control
    <3>5. /\ SharesByte(a) => a[m + 1] \in 0..255 /\ m <= 6
          /\ SharesByte(b) => b[n + 1] \in 0..255 /\ n <= 6
      BY <1>1, <2>2, <2>3, <3>2, <3>3 DEF IsLayout
    <3>6. m <= n
      <4>1. PICK x \in 0..255 : /\ Control(a) = Ones(m) + x
        BY <3>4, <3>5, OnesAre
      <4>2. ASSUME n < m PROVE FALSE
        <5>1. Ones(n + 1) <= Ones(m)
          BY <2>3, <3>3, <4>2, OnesAre
        <5>2. Control(b) < Ones(n + 1)
          <6>1. CASE SharesByte(b)
            <7>1. Control(b) = Ones(n) + b[n + 1] /\ b[n + 1] < 256 - Ones(n + 1)
              BY <2>2, <2>4, <6>1 DEF IsLayout
            <7>2. QED
              BY <2>3, <3>5, <6>1, <7>1, OnesAre
          <6>2. CASE ~SharesByte(b)
            <7>1. Control(b) = Ones(n)
              BY <2>3, <2>4, <6>2, OnesAre
            <7>2. QED
              BY <2>3, <3>3, <4>2, <7>1, OnesAre
          <6>3. QED
            BY <6>1, <6>2
        <5>3. Ones(m) \in Nat /\ Ones(n + 1) \in Nat
          BY <2>3, <3>3, <4>2, OnesAre
        <5>4. Control(b) \in Byte
          BY ControlIs
        <5>5. QED
          BY <4>1, <5>1, <5>2, <5>3, <5>4 DEF Byte
      <4>3. QED
        BY <2>3, <3>3, <4>2
    <3>7. CASE m = n
      <4>1. SharesByte(b)
        <5>1. ASSUME ~SharesByte(b) PROVE FALSE
          <6>1. Control(b) = Ones(n)
            BY <2>3, <2>4, <5>1, OnesAre
          <6>2. Ones(n) <= Control(a)
            BY <3>3, <3>4, <3>5, <3>7, OnesAre
          <6>3. Control(a) \in Byte /\ Control(b) \in Byte
            BY ControlIs
          <6>4. QED
            BY <6>1, <6>2, <6>3, SMTT(30) DEF Byte
        <5>2. QED
          BY <5>1
      <4>2. n <= 6 /\ b[n + 1] \in 0..255 /\ 0 < b[n + 1] /\ \A j \in n + 2 .. 8 : b[j] = 0
        BY <2>2, <3>5, <4>1 DEF IsLayout
      <4>3. a[n + 1] < b[n + 1]
        <5>1. CASE SharesByte(a)
          <6>1. Ones(n) + a[n + 1] < Ones(n) + b[n + 1]
            BY <2>4, <3>4, <3>7, <4>1, <5>1
          <6>2. Ones(n) \in 128..255 /\ a[n + 1] \in 0..255
            BY <2>3, <3>5, <3>7, <5>1, OnesAreBytes
          <6>3. QED
            BY <4>2, <6>1, <6>2, SameTop
        <5>2. CASE ~SharesByte(a)
          BY <2>3, <3>2, <3>7, <4>2, <5>2 DEF IsLayout
        <5>3. QED
          BY <5>1, <5>2
      <4>4. \A j \in n + 2 .. 8 : a[j] = b[j]
        BY <2>3, <3>2, <3>7, <4>2 DEF IsLayout
      <4>5. QED
        BY <2>3, <4>2, <4>3, <4>4 DEF IsSmaller, NumberBytes
    <3>8. CASE m < n
      <4>1. CASE SharesByte(b)
        <5>1. n <= 6 /\ 0 < b[n + 1] /\ \A j \in n + 2 .. 8 : b[j] = 0
          BY <2>2, <4>1 DEF IsLayout
        <5>2. \A j \in n + 1 .. 8 : a[j] = 0
          BY <2>3, <3>2, <3>3, <3>8 DEF IsLayout
        <5>3. QED
          BY <2>3, <5>1, <5>2 DEF IsSmaller, NumberBytes
      <4>2. CASE ~SharesByte(b)
        <5>1. 256 - Ones(n) <= b[n] /\ \A j \in n + 1 .. 8 : b[j] = 0
          BY <2>2, <4>2 DEF IsLayout
        <5>2. \A j \in n + 1 .. 8 : a[j] = 0
          BY <2>3, <3>2, <3>3, <3>8 DEF IsLayout
        <5>3. a[n] < b[n]
          <6>1. CASE SharesByte(a) /\ n = m + 1
            <7>1. a[n] < 256 - Ones(n)
              BY <3>2, <6>1 DEF IsLayout
            <7>2. Ones(n) \in 128..255 /\ a[n] \in 0..255 /\ b[n] \in 0..255
              BY <1>1, <2>3, OnesAreBytes
            <7>3. QED
              BY <5>1, <7>1, <7>2, SameTop
          <6>2. CASE ~(SharesByte(a) /\ n = m + 1)
            <7>1. a[n] = 0
              BY <2>3, <3>2, <3>3, <3>8, <6>2 DEF IsLayout
            <7>2. Ones(n) \in 128..255 /\ b[n] \in 0..255
              BY <1>1, <2>3, OnesAreBytes
            <7>3. QED
              BY <5>1, <7>1, <7>2
          <6>3. QED
            BY <6>1, <6>2
        <5>4. QED
          BY <2>3, <5>1, <5>2, <5>3 DEF IsSmaller, NumberBytes
      <4>3. QED
        BY <4>1, <4>2
    <3>9. QED
      BY <2>3, <3>3, <3>6, <3>7, <3>8
  <2>7. QED
    BY <2>5, <2>6
<1>4. QED
  BY <1>2, <1>3

\* The comparison of fields is that of the numbers they hold.
LEMMA ComparisonIsRight ==
    ASSUME NEW a \in Number, NEW b \in Number, NEW f, NEW g, Holds(f, a), Holds(g, b)
    PROVE  /\ CompareNumbers(f, g) < 0 <=> IsSmaller(a, b)
           /\ CompareNumbers(f, g) = 0 <=> a = b
<1>1. \A j \in 1..8 : a[j] \in 0..255 /\ b[j] \in 0..255
  BY DEF Number, Byte, NumberBytes
<1>2. f[1] = Control(a) /\ g[1] = Control(b) /\ f[1] \in 0..255 /\ g[1] \in 0..255
  BY ControlIs DEF Holds, Byte
<1>3. CASE f[1] # g[1]
  <2>1. CompareNumbers(f, g) = f[1] - g[1]
    BY <1>3 DEF CompareNumbers
  <2>2. a # b
    BY <1>2, <1>3
  <2>3. CASE f[1] < g[1]
    <3>1. IsSmaller(a, b)
      BY <1>2, <2>3, ControlGrows
    <3>2. CompareNumbers(f, g) < 0 /\ CompareNumbers(f, g) # 0
      BY <1>2, <2>1, <2>3, SMTT(30)
    <3>3. QED
      BY <2>2, <3>1, <3>2
  <2>4. CASE g[1] < f[1]
    <3>1. ~IsSmaller(a, b)
      BY <1>2, <2>4, ControlGrows, NotSmaller
    <3>2. ~(CompareNumbers(f, g) < 0) /\ CompareNumbers(f, g) # 0
      <4>1. PICK x \in 0..255, y \in 0..255 : x = f[1] /\ y = g[1]
        BY <1>2
      <4>2. QED
        BY <2>1, <2>4, <4>1
    <3>3. QED
      BY <2>2, <3>1, <3>2
  <2>5. QED
    BY <1>2, <1>3, <2>3, <2>4, SMTT(30)
<1>4. CASE f[1] = g[1]
  <2>1. IsSmall(a) <=> IsSmall(b)
    BY <1>2, <1>4, ControlIs
  <2>2. PICK n : n = LeadingOnes(f[1])
    OBVIOUS
  <2> DEFINE differ == {i \in 1..n : f[1 + Skipped(n) + i] # g[1 + Skipped(n) + i]}
  <2>3. CompareNumbers(f, g) =
            IF differ = {} THEN 0
            ELSE LET i == CHOOSE j \in differ : \A k \in differ : k <= j
                 IN  f[1 + Skipped(n) + i] - g[1 + Skipped(n) + i]
    BY <1>4, <2>2 DEF CompareNumbers
  <2>4. n \in 0..8
    <3>1. CASE IsSmall(a)
      BY <1>2, <2>2, <3>1, ControlIs
    <3>2. CASE ~IsSmall(a)
      <4>1. n = ExclusiveBytes(a) /\ IsLayout(a, n, SharesByte(a))
        BY <1>2, <2>2, <3>2, ControlIs, LayoutIs
      <4>2. QED
        BY <4>1 DEF IsLayout
    <3>3. QED
      BY <3>1, <3>2
  <2>5. ASSUME NEW i \in 1..n
        PROVE  f[1 + Skipped(n) + i] = a[i] /\ g[1 + Skipped(n) + i] = b[i]
    <3>1. ~IsSmall(a)
      BY <1>2, <2>2, ControlIs
    <3>2. n = ExclusiveBytes(a) /\ n = ExclusiveBytes(b)
      BY <1>2, <1>4, <2>1, <2>2, <3>1, ControlIs
    <3>3. QED
      BY <2>1, <3>1, <3>2 DEF Holds
  <2>6. \A j \in n + 1 .. 8 : a[j] = b[j]
    <3>1. CASE IsSmall(a)
      <4>1. a[1] = b[1]
        BY <1>2, <1>4, <2>1, <3>1 DEF Control
      <4>2. \A j \in 2..8 : a[j] = b[j]
        BY <2>1, <3>1 DEF IsSmall
      <4>3. QED
        BY <2>4, <4>1, <4>2
    <3>2. CASE ~IsSmall(a)
      <4>1. /\ n = ExclusiveBytes(a) /\ IsLayout(a, n, SharesByte(a))
            /\ n = ExclusiveBytes(b) /\ IsLayout(b, n, SharesByte(b))
        BY <1>2, <1>4, <2>1, <2>2, <3>2, ControlIs, LayoutIs
      <4>2. Ones(n) + (IF SharesByte(a) THEN a[n + 1] ELSE 0)
                = Ones(n) + (IF SharesByte(b) THEN b[n + 1] ELSE 0)
        BY <1>2, <1>4, <2>1, <3>2, <4>1 DEF Control
      <4>3. n \in 1..8 /\ Ones(n) \in 128..255
        BY <4>1, OnesAreBytes DEF IsLayout
      <4>4. /\ SharesByte(a) => n <= 6 /\ a[n + 1] \in 0..255 /\ 0 < a[n + 1]
            /\ SharesByte(b) => n <= 6 /\ b[n + 1] \in 0..255 /\ 0 < b[n + 1]
        BY <1>1, <4>1, <4>3 DEF IsLayout
      <4>5. /\ SharesByte(a) <=> SharesByte(b)
            /\ SharesByte(a) => a[n + 1] = b[n + 1]
        <5>1. CASE SharesByte(a) /\ SharesByte(b)
          BY <4>2, <4>3, <4>4, <5>1, SameTop
        <5>2. CASE SharesByte(a) /\ ~SharesByte(b)
          BY <4>2, <4>3, <4>4, <5>2, SMTT(30)
        <5>3. CASE ~SharesByte(a) /\ SharesByte(b)
          BY <4>2, <4>3, <4>4, <5>3, SMTT(30)
        <5>4. CASE ~SharesByte(a) /\ ~SharesByte(b)
          BY <5>4
        <5>5. QED
          BY <5>1, <5>2, <5>3, <5>4
      <4>6. CASE SharesByte(a)
        <5>1. \A j \in n + 2 .. 8 : a[j] = 0 /\ b[j] = 0
          BY <4>1, <4>5, <4>6 DEF IsLayout
        <5>2. QED
          BY <4>3, <4>5, <4>6, <5>1
      <4>7. CASE ~SharesByte(a)
        BY <4>1, <4>5, <4>7 DEF IsLayout
      <4>8. QED
        BY <4>6, <4>7
    <3>3. QED
      BY <3>1, <3>2
  <2>7. differ = {i \in 1..n : a[i] # b[i]}
    BY <2>5
  <2>8. CASE differ = {}
    <3>1. \A i \in 1..8 : a[i] = b[i]
      BY <2>4, <2>6, <2>7, <2>8
    <3>2. a = b
      BY <3>1 DEF Number, NumberBytes
    <3>3. ~IsSmaller(a, b)
      BY <3>2, NotSmaller
    <3>4. CompareNumbers(f, g) = 0
      BY <2>3, <2>8
    <3>5. QED
      BY <3>2, <3>3, <3>4
  <2>9. CASE differ # {}
    <3>1. PICK m \in differ : \A k \in differ : k <= m
      <4> DEFINE S == {n - j : j \in differ}
      <4>1. S \in SUBSET Nat /\ \E s \in S : TRUE
        BY <2>4, <2>9
      <4>2. PICK l \in S : \A k \in S : l <= k
        BY <4>1, LeastNatural
      <4>3. PICK j \in differ : l = n - j
        BY <4>2
      <4>4. \A k \in differ : n - k \in S /\ k \in 1..n
        OBVIOUS
      <4> HIDE DEF S, differ
      <4>5. \A k \in differ : k <= j
        BY <2>4, <4>2, <4>3, <4>4
      <4>6. QED
        BY <4>5
    <3>2. m \in 1..n /\ a[m] # b[m]
      BY <2>7
    <3>3. (CHOOSE j \in differ : \A k \in differ : k <= j) = m
      <4>1. \A j \in differ : (\A k \in differ : k <= j) => j = m
        <5>1. \A j \in differ : j \in Int
          BY <2>4
        <5> HIDE DEF differ
        <5>2. QED
          BY <3>1, <5>1
      <4> HIDE DEF differ
      <4>2. QED
        BY <3>1, <4>1
    <3>4. CompareNumbers(f, g) = a[m] - b[m]
      <4>1. CompareNumbers(f, g) = f[1 + Skipped(n) + m] - g[1 + Skipped(n) + m]
        BY <2>3, <2>9, <3>3
      <4>2. QED
        BY <2>5, <3>2, <4>1
    <3>5. \A j \in m + 1 .. 8 : a[j] = b[j]
      <4>1. ASSUME NEW j \in m + 1 .. 8, a[j] # b[j] PROVE FALSE
        <5>1. j <= n
          BY <2>4, <2>6, <3>2, <4>1
        <5>2. j \in differ
          BY <2>4, <2>7, <3>2, <4>1, <5>1
        <5>3. j <= m
          BY <3>1, <5>2
        <5>4. QED
          BY <2>4, <3>2, <4>1, <5>3
      <4>2. QED
        BY <4>1
    <3>6. m \in 1..8 /\ a[m] \in 0..255 /\ b[m] \in 0..255
      BY <1>1, <2>4, <3>2
    <3>7. a # b
      BY <3>2
    <3>8. CASE a[m] < b[m]
      <4>1. IsSmaller(a, b)
        BY <3>5, <3>6, <3>8 DEF IsSmaller, NumberBytes
      <4>2. CompareNumbers(f, g) < 0 /\ CompareNumbers(f, g) # 0
        BY <3>4, <3>6, <3>8, Difference
      <4>3. QED
        BY <3>7, <4>1, <4>2
    <3>9. CASE b[m] < a[m]
      <4>1. IsSmaller(b, a)
        BY <3>5, <3>6, <3>9 DEF IsSmaller, NumberBytes
      <4>2. ~IsSmaller(a, b)
        BY <4>1, NotSmaller
      <4>3. ~(CompareNumbers(f, g) < 0) /\ CompareNumbers(f, g) # 0
        BY <3>4, <3>6, <3>9, Difference
      <4>4. QED
        BY <3>7, <4>2, <4>3
    <3>10. a[m] < b[m] \/ b[m] < a[m]
      <4>1. PICK x \in 0..255, y \in 0..255 : x = a[m] /\ y = b[m]
        BY <3>6
      <4>2. x < y \/ y < x
        BY <3>2, <4>1
      <4>3. QED
        BY <4>1, <4>2
    <3>11. QED
      BY <3>8, <3>9, <3>10
  <2>10. QED
    BY <2>8, <2>9
<1>5. QED
  BY <1>3, <1>4

-----------------------------------------------------------------------------
(* The stores of a number.                                                 *)

Written(memory, s) == [memory EXCEPT ![s.at] = IF s.keep THEN @ + s.byte ELSE s.byte]

\* A function whose values are what the stores leave.
MemoriesBy(f, memory, stores) ==
    [n \in 0..Len(stores) |-> IF n = 0 THEN memory ELSE Written(f[n - 1], stores[n])]

LEMMA MemoriesAre ==
    ASSUME NEW memory, NEW stores, Len(stores) \in Nat,
           NEW c, c = MemoriesBy(c, memory, stores)
    PROVE  Memories(memory, stores) = c
<1> DEFINE f == CHOOSE f : f = MemoriesBy(f, memory, stores)
           S == {n \in Nat : n <= Len(stores) => f[n] = c[n]}
<1>1. f = MemoriesBy(f, memory, stores)
  BY Zenon
<1>2. Memories(memory, stores) = f
  BY DEF Memories, MemoriesBy, Written
<1> HIDE DEF f
<1>3. ASSUME NEW n \in Nat, \A m \in Nat : m < n => m \in S
      PROVE  n \in S
  <2>1. CASE n = 0
    <3>1. f[0] = memory /\ c[0] = memory
      BY <1>1 DEF MemoriesBy
    <3>2. QED
      BY <2>1, <3>1
  <2>2. CASE n # 0 /\ n <= Len(stores)
    <3>1. n - 1 \in Nat /\ n - 1 < n /\ n \in 0..Len(stores)
      BY <2>2
    <3>2. f[n - 1] = c[n - 1]
      BY <1>3, <2>2, <3>1
    <3>3. f[n] = Written(f[n - 1], stores[n]) /\ c[n] = Written(c[n - 1], stores[n])
      BY <1>1, <2>2, <3>1 DEF MemoriesBy
    <3>4. QED
      BY <3>2, <3>3
  <2>3. QED
    BY <2>1, <2>2
<1> HIDE DEF S
<1>4. Nat \subseteq S
  BY <1>3, Induction
<1>5. \A n \in 0..Len(stores) : f[n] = c[n]
  BY <1>4 DEF S
<1>6. f = [n \in 0..Len(stores) |-> f[n]] /\ c = [n \in 0..Len(stores) |-> c[n]]
  BY <1>1 DEF MemoriesBy
<1>7. QED
  BY <1>2, <1>5, <1>6

\* The stores of a number of more than one byte, one by one.
Stores(v, n, j) ==
    IF j = 1 THEN PutByte(1, 0)
    ELSE IF j <= 1 + Skipped(n) THEN PutByte(2, 0)
    ELSE IF j <= 1 + Skipped(n) + n THEN PutByte(j, v[j - 1 - Skipped(n)])
    ELSE IF j = 2 + Skipped(n) + n THEN SetBits(1, Ones(n))
    ELSE SetBits(1, v[n + 1])

CountStores(v, n) == 2 + Skipped(n) + n + (IF SharesByte(v) THEN 1 ELSE 0)

StoreSet == [at : Int, byte : Int, keep : BOOLEAN]

LEMMA StoresHaveTypes ==
    \A at, byte \in Int : PutByte(at, byte) \in StoreSet /\ SetBits(at, byte) \in StoreSet
BY DEF PutByte, SetBits, StoreSet

LEMMA JoinedIs ==
    ASSUME NEW S, NEW a \in Seq(S), NEW b \in Seq(S)
    PROVE  /\ a \o b \in Seq(S) /\ Len(a \o b) = Len(a) + Len(b)
           /\ Len(a) \in Nat /\ Len(b) \in Nat
           /\ \A j \in 1..Len(a) : (a \o b)[j] = a[j]
           /\ \A j \in 1..Len(b) : (a \o b)[Len(a) + j] = b[j]
OBVIOUS

LEMMA OneIs ==
    ASSUME NEW S, NEW x \in S
    PROVE  <<x>> \in Seq(S) /\ Len(<<x>>) = 1 /\ <<x>>[1] = x
OBVIOUS

LEMMA NoneIs ==
    ASSUME NEW S
    PROVE  <<>> \in Seq(S) /\ Len(<<>>) = 0
OBVIOUS

LEMMA StoresAre ==
    ASSUME NEW v \in Number, ~IsSmall(v), NEW n, n = ExclusiveBytes(v)
    PROVE  /\ Len(ConstructStores(v)) = CountStores(v, n)
           /\ \A j \in 1..CountStores(v, n) : ConstructStores(v)[j] = Stores(v, n, j)
<1> DEFINE first == <<PutByte(1, 0)>>
           second == IF n = 8 THEN <<PutByte(2, 0)>> ELSE <<>>
           data == [i \in 1 .. n |-> PutByte(1 + Skipped(n) + i, v[i])]
           ones == <<SetBits(1, Ones(n))>>
           shared == IF SharesByte(v) THEN <<SetBits(1, v[n + 1])>> ELSE <<>>
           A == first \o second
           B == A \o data
           C == B \o ones
           D == C \o shared
           k == Skipped(n)
           h == IF SharesByte(v) THEN 1 ELSE 0
<1>1. n \in 1..8 /\ (SharesByte(v) => n <= 6)
  BY LayoutIs DEF IsLayout
<1>2. \A j \in 1..8 : v[j] \in Int
  BY DEF Number, Byte, NumberBytes
<1>3. ConstructStores(v) = D
  BY DEF ConstructStores
<1>4. k \in 0..1 /\ (k = 1 <=> n = 8) /\ h \in 0..1 /\ CountStores(v, n) = 2 + k + n + h
  BY DEF Skipped, CountStores
<1>5. first \in Seq(StoreSet) /\ Len(first) = 1 /\ first[1] = PutByte(1, 0)
  <2>1. PutByte(1, 0) \in StoreSet
    BY StoresHaveTypes
  <2>2. QED
    BY <2>1, OneIs
<1>6. second \in Seq(StoreSet) /\ Len(second) = k /\ (k = 1 => second[1] = PutByte(2, 0))
  <2>1. CASE n = 8
    <3>1. PutByte(2, 0) \in StoreSet
      BY StoresHaveTypes
    <3>2. second = <<PutByte(2, 0)>> /\ k = 1
      BY <1>4, <2>1
    <3> HIDE DEF second, k
    <3>3. QED
      BY <3>1, <3>2, OneIs
  <2>2. CASE n # 8
    <3>1. second = <<>> /\ k = 0
      BY <1>4, <2>2
    <3> HIDE DEF second, k
    <3>2. QED
      BY <3>1, NoneIs
  <2>3. QED
    BY <2>1, <2>2
<1>7. data \in Seq(StoreSet) /\ Len(data) = n /\ \A i \in 1..n : data[i] = PutByte(1 + k + i, v[i])
  <2>1. \A i \in 1..n : PutByte(1 + k + i, v[i]) \in StoreSet
    <3> HIDE DEF k
    <3>1. QED
      BY <1>1, <1>2, <1>4, StoresHaveTypes
  <2>2. QED
    BY <1>1, <2>1
<1>8. ones \in Seq(StoreSet) /\ Len(ones) = 1 /\ ones[1] = SetBits(1, Ones(n))
  <2>1. SetBits(1, Ones(n)) \in StoreSet
    BY <1>1, OnesAreBytes, StoresHaveTypes
  <2>2. QED
    BY <2>1, OneIs
<1>9. shared \in Seq(StoreSet) /\ Len(shared) = h /\ (h = 1 => shared[1] = SetBits(1, v[n + 1]))
  <2>1. CASE SharesByte(v)
    <3>1. SetBits(1, v[n + 1]) \in StoreSet
      BY <1>1, <1>2, <2>1, StoresHaveTypes
    <3>2. shared = <<SetBits(1, v[n + 1])>> /\ h = 1
      BY <2>1
    <3> HIDE DEF shared, h
    <3>3. QED
      BY <3>1, <3>2, OneIs
  <2>2. CASE ~SharesByte(v)
    <3>1. shared = <<>> /\ h = 0
      BY <2>2
    <3> HIDE DEF shared, h
    <3>2. QED
      BY <3>1, NoneIs
  <2>3. QED
    BY <2>1, <2>2
<1> HIDE DEF first, second, data, ones, shared, k, h
<1>10. /\ A \in Seq(StoreSet) /\ Len(A) = 1 + k
       /\ A[1] = PutByte(1, 0) /\ (k = 1 => A[2] = PutByte(2, 0))
  BY <1>4, <1>5, <1>6, JoinedIs
<1> HIDE DEF A
<1>11. /\ B \in Seq(StoreSet) /\ Len(B) = 1 + k + n
       /\ \A j \in 1..(1 + k) : B[j] = A[j]
       /\ \A i \in 1..n : B[1 + k + i] = PutByte(1 + k + i, v[i])
  <2>1. /\ B \in Seq(StoreSet) /\ Len(B) = 1 + k + n
        /\ \A j \in 1..(1 + k) : B[j] = A[j]
        /\ \A i \in 1..n : B[1 + k + i] = data[i]
    <3>1. /\ B \in Seq(StoreSet) /\ Len(B) = Len(A) + Len(data)
          /\ \A j \in 1..Len(A) : B[j] = A[j]
          /\ \A i \in 1..Len(data) : B[Len(A) + i] = data[i]
      <4>1. A \in Seq(StoreSet) /\ data \in Seq(StoreSet)
        BY <1>7, <1>10
      <4>2. QED
        BY <4>1, JoinedIs
    <3> HIDE DEF B
    <3>2. QED
      BY <1>7, <1>10, <3>1
  <2> HIDE DEF B
  <2>2. QED
    BY <1>7, <2>1
<1> HIDE DEF B
<1>12. /\ C \in Seq(StoreSet) /\ Len(C) = 1 + k + n + 1
       /\ \A j \in 1..(1 + k + n) : C[j] = B[j]
       /\ C[1 + k + n + 1] = SetBits(1, Ones(n))
  <2>1. /\ C \in Seq(StoreSet) /\ Len(C) = Len(B) + Len(ones)
        /\ \A j \in 1..Len(B) : C[j] = B[j]
        /\ \A i \in 1..Len(ones) : C[Len(B) + i] = ones[i]
    BY <1>8, <1>11, JoinedIs, SMTT(30)
  <2> HIDE DEF C
  <2>2. 1 \in 1..Len(ones)
    BY <1>8
  <2>3. C[Len(B) + 1] = ones[1]
    BY <2>1, <2>2
  <2>4. QED
    BY <1>8, <1>11, <2>1, <2>3
<1> HIDE DEF C
<1>13. /\ D \in Seq(StoreSet) /\ Len(D) = 1 + k + n + 1 + h
       /\ \A j \in 1..(1 + k + n + 1) : D[j] = C[j]
       /\ h = 1 => D[1 + k + n + 1 + 1] = SetBits(1, v[n + 1])
  BY <1>1, <1>4, <1>9, <1>12, JoinedIs
<1> HIDE DEF D
<1>14. ASSUME NEW j \in 1..CountStores(v, n)
       PROVE  D[j] = Stores(v, n, j)
  <2>1. j \in 1..(2 + k + n + h)
    BY <1>4
  <2>2. CASE j <= 1 + k
    <3>1. D[j] = A[j]
      BY <1>1, <1>4, <1>11, <1>12, <1>13, <2>1, <2>2, SMTT(30)
    <3>2. A[j] = IF j = 1 THEN PutByte(1, 0) ELSE PutByte(2, 0)
      <4>1. j = 1 \/ (j = 2 /\ k = 1)
        BY <1>4, <2>1, <2>2
      <4>2. QED
        BY <1>10, <4>1
    <3>3. QED
      BY <2>2, <3>1, <3>2 DEF Stores, k
  <2>3. CASE 1 + k < j /\ j <= 1 + k + n
    <3>1. PICK i \in 1..n : i = j - 1 - k
      BY <1>1, <1>4, <2>1, <2>3
    <3>2. 1 + k + i = j /\ j # 1 /\ ~(j <= 1 + k)
      BY <1>1, <1>4, <2>1, <2>3, <3>1
    <3>3. B[j] = PutByte(j, v[i])
      BY <1>11, <3>2
    <3>4. D[j] = B[j]
      BY <1>1, <1>4, <1>12, <1>13, <2>1, <2>3
    <3>5. Stores(v, n, j) = PutByte(j, v[j - 1 - k])
      BY <2>3, <3>2 DEF Stores, k
    <3>6. QED
      BY <3>1, <3>3, <3>4, <3>5
  <2>4. CASE j = 2 + k + n
    <3>1. 1 + k + n + 1 = j /\ j # 1 /\ ~(j <= 1 + k) /\ ~(j <= 1 + k + n)
          /\ j \in 1..(1 + k + n + 1)
      BY <1>1, <1>4, <2>4
    <3>2. D[j] = SetBits(1, Ones(n))
      BY <1>12, <1>13, <3>1
    <3>3. Stores(v, n, j) = SetBits(1, Ones(n))
      BY <2>4, <3>1 DEF Stores, k
    <3>4. QED
      BY <3>2, <3>3
  <2>5. CASE j > 2 + k + n
    <3>1. 1 + k + n + 1 + 1 = j /\ h = 1 /\ j # 1 /\ ~(j <= 1 + k) /\ ~(j <= 1 + k + n)
          /\ ~(j = 2 + k + n)
      BY <1>1, <1>4, <2>1, <2>5
    <3>2. D[j] = SetBits(1, v[n + 1])
      BY <1>13, <3>1
    <3>3. Stores(v, n, j) = SetBits(1, v[n + 1])
      BY <3>1 DEF Stores, k
    <3>4. QED
      BY <3>2, <3>3
  <2>6. QED
    BY <1>1, <1>4, <2>1, <2>2, <2>3, <2>4, <2>5
<1>15. QED
  BY <1>1, <1>3, <1>4, <1>13, <1>14

\* What the first j stores of a number leave in memory.
Stored(m, v, n, j) ==
    [x \in 1..10 |->
        IF x = 1 THEN IF j = 0 THEN m[1]
                      ELSE IF j <= 1 + Skipped(n) + n THEN 0
                      ELSE IF j = 2 + Skipped(n) + n THEN Ones(n)
                      ELSE Ones(n) + v[n + 1]
        ELSE IF x <= j /\ x <= 1 + Skipped(n) + n
             THEN IF x <= 1 + Skipped(n) THEN 0 ELSE v[x - 1 - Skipped(n)]
        ELSE m[x]]

LEMMA StoresLeave ==
    ASSUME NEW v \in Number, ~IsSmall(v), NEW n, n = ExclusiveBytes(v), NEW m \in Field
    PROVE  Memories(m, ConstructStores(v))
                = [j \in 0..CountStores(v, n) |-> Stored(m, v, n, j)]
<1> DEFINE k == Skipped(n)
           N == CountStores(v, n)
           c == [j \in 0..N |-> Stored(m, v, n, j)]
<1>1. n \in 1..8 /\ k \in 0..1 /\ (SharesByte(v) => n <= 6)
  BY LayoutIs DEF IsLayout, Skipped
<1>2. 1 + k + n \in 1..10
  BY <1>1 DEF Skipped
<1>3. N = 2 + k + n + (IF SharesByte(v) THEN 1 ELSE 0) /\ N \in Nat
  BY <1>1 DEF CountStores
<1>4. /\ Len(ConstructStores(v)) = N
      /\ \A j \in 1..N : ConstructStores(v)[j] = Stores(v, n, j)
  BY StoresAre
<1>5. m = [x \in 1..10 |-> m[x]]
  BY DEF Field
<1>6. c[0] = m
  <2>1. \A x \in 1..10 : Stored(m, v, n, 0)[x] = m[x]
    BY DEF Stored
  <2>2. Stored(m, v, n, 0) = m
    BY <1>5, <2>1 DEF Stored
  <2>3. QED
    BY <1>3, <2>2
<1>7. ASSUME NEW j \in 1..N
      PROVE  c[j] = Written(c[j - 1], Stores(v, n, j))
  <2>1. c[j] = Stored(m, v, n, j) /\ c[j - 1] = Stored(m, v, n, j - 1)
    BY <1>3
  <2> HIDE DEF c, N
  <2>2. PICK a : a = Stored(m, v, n, j - 1)
    OBVIOUS
  <2>3. PICK b : b = Stored(m, v, n, j)
    OBVIOUS
  <2>4. a = [x \in 1..10 |-> a[x]] /\ b = [x \in 1..10 |-> b[x]]
    BY <2>2, <2>3 DEF Stored
  <2>5. /\ a[1] = IF j - 1 = 0 THEN m[1]
                  ELSE IF j - 1 <= 1 + k + n THEN 0
                  ELSE IF j - 1 = 2 + k + n THEN Ones(n)
                  ELSE Ones(n) + v[n + 1]
        /\ b[1] = IF j <= 1 + k + n THEN 0
                  ELSE IF j = 2 + k + n THEN Ones(n)
                  ELSE Ones(n) + v[n + 1]
    BY <1>3, <2>2, <2>3 DEF Stored
  <2>6. \A x \in 2..10 :
          /\ a[x] = IF x <= j - 1 /\ x <= 1 + k + n
                    THEN IF x <= 1 + k THEN 0 ELSE v[x - 1 - k] ELSE m[x]
          /\ b[x] = IF x <= j /\ x <= 1 + k + n
                    THEN IF x <= 1 + k THEN 0 ELSE v[x - 1 - k] ELSE m[x]
    BY <2>2, <2>3 DEF Stored
  <2> HIDE DEF k
  <2>7. j \in Nat /\ 1 <= j /\ j <= N
    BY <1>3
  <2>8. CASE j = 1
    <3>1. Stores(v, n, j) = PutByte(1, 0)
      BY <2>8 DEF Stores
    <3>2. Written(a, Stores(v, n, j)) = [a EXCEPT ![1] = 0]
      BY <3>1 DEF Written, PutByte
    <3>3. b[1] = 0 /\ \A x \in 2..10 : b[x] = a[x]
      BY <1>1, <2>5, <2>6, <2>8
    <3>4. b = [a EXCEPT ![1] = 0]
      BY <2>4, <3>3
    <3>5. QED
      BY <2>1, <2>2, <2>3, <3>2, <3>4
  <2>9. CASE 1 < j /\ j <= 1 + k + n
    <3>1. PICK w : w = IF j <= 1 + k THEN 0 ELSE v[j - 1 - k]
      OBVIOUS
    <3>2. Stores(v, n, j) = PutByte(j, w)
      <4>1. j <= 1 + k => j = 2
        BY <1>1, <2>7, <2>9
      <4>2. j # 1
        BY <2>9
      <4>3. QED
        BY <2>9, <3>1, <4>1, <4>2 DEF Stores, k
    <3>3. Written(a, Stores(v, n, j)) = [a EXCEPT ![j] = w]
      BY <3>2 DEF Written, PutByte
    <3>4. j \in 2..10
      BY <1>2, <2>7, <2>9
    <3>5. b[j] = w
      BY <2>6, <2>9, <3>1, <3>4
    <3>6. b[1] = a[1]
      BY <1>1, <2>5, <2>7, <2>9
    <3>7. \A x \in 2..10 : x # j => b[x] = a[x]
      BY <1>1, <2>6, <2>7, <2>9
    <3>8. b = [a EXCEPT ![j] = w]
      BY <2>4, <3>4, <3>5, <3>6, <3>7
    <3>9. QED
      BY <2>1, <2>2, <2>3, <3>3, <3>8
  <2>10. CASE 1 + k + n < j
    <3>1. PICK w \in Int : w = IF j = 2 + k + n THEN Ones(n) ELSE v[n + 1]
      <4>1. CASE j = 2 + k + n
        BY <1>1, <4>1, OnesAreBytes
      <4>2. CASE j # 2 + k + n
        <5>1. n + 1 \in 1..8
          BY <1>1, <1>3, <2>7, <2>10, <4>2
        <5>2. QED
          BY <4>2, <5>1 DEF Number, Byte, NumberBytes
      <4>3. QED
        BY <4>1, <4>2
    <3>2. Stores(v, n, j) = SetBits(1, w)
      <4>1. j # 1 /\ ~(j <= 1 + k) /\ ~(j <= 1 + k + n)
        BY <1>1, <2>7, <2>10
      <4>2. QED
        BY <3>1, <4>1 DEF Stores, k
    <3>3. Written(a, Stores(v, n, j)) = [a EXCEPT ![1] = a[1] + w]
      BY <2>4, <3>2 DEF Written, SetBits
    <3>4. b[1] = a[1] + w
      <4>1. CASE j = 2 + k + n
        <5>1. a[1] = 0 /\ b[1] = w
          BY <1>1, <2>5, <2>7, <3>1, <4>1
        <5>2. QED
          BY <3>1, <5>1
      <4>2. CASE j # 2 + k + n
        <5>1. j = 3 + k + n
          BY <1>1, <1>3, <2>7, <2>10, <4>2
        <5>2. a[1] = Ones(n) /\ b[1] = Ones(n) + v[n + 1] /\ w = v[n + 1]
          BY <1>1, <2>5, <3>1, <5>1
        <5>3. QED
          BY <5>2
      <4>3. QED
        BY <4>1, <4>2
    <3>5. \A x \in 2..10 : b[x] = a[x]
      BY <1>1, <2>6, <2>7, <2>10
    <3>6. b = [a EXCEPT ![1] = a[1] + w]
      BY <2>4, <3>4, <3>5
    <3>7. QED
      BY <2>1, <2>2, <2>3, <3>3, <3>6
  <2>11. QED
    BY <1>1, <2>7, <2>8, <2>9, <2>10
<1>8. \A j \in 1..N : c[j] = Written(c[j - 1], ConstructStores(v)[j])
  BY <1>4, <1>7
<1>9. c = [j \in 0..N |-> c[j]]
  OBVIOUS
<1> HIDE DEF c, N
<1>10. \A j \in 0..N : c[j] = IF j = 0 THEN m ELSE Written(c[j - 1], ConstructStores(v)[j])
  BY <1>3, <1>6, <1>8
<1>11. c = MemoriesBy(c, m, ConstructStores(v))
  BY <1>4, <1>9, <1>10 DEF MemoriesBy
<1>12. Memories(m, ConstructStores(v)) = c
  BY <1>3, <1>4, <1>11, MemoriesAre
<1>13. QED
  BY <1>12 DEF c, N

LEMMA NotGreater ==
    ASSUME NEW v, NEW w, \A i \in 1..8 : v[i] \in Int /\ w[i] \in Int /\ w[i] <= v[i]
    PROVE  ~IsSmaller(v, w)
<1>1. ASSUME NEW i \in 1..8, v[i] < w[i] PROVE FALSE
  <2>1. PICK x \in Int, y \in Int : x = v[i] /\ y = w[i] /\ y <= x
    OBVIOUS
  <2>2. QED
    BY <1>1, <2>1
<1>2. QED
  BY <1>1 DEF IsSmaller, NumberBytes

\* While a number is stored nothing greater is read, and then it is there.
IsStored(v, memories, count) ==
    /\ count \in Nat \ {0}
    /\ \A j \in 1..count : ~IsSmaller(v, NumberAt(memories[j]))
    /\ Holds(memories[count], v)

LEMMA SmallIsStored ==
    ASSUME NEW v \in Number, IsSmall(v), NEW m \in Field
    PROVE  IsStored(v, Memories(m, ConstructStores(v)), Len(ConstructStores(v)))
<1> DEFINE new == [m EXCEPT ![1] = v[1]]
           c == [j \in 0..1 |-> IF j = 0 THEN m ELSE new]
<1>1. v[1] \in 0..127 /\ v[1] \in Int
  BY DEF IsSmall, Number, Byte, NumberBytes
<1>2. ConstructStores(v) = <<PutByte(1, v[1])>>
  BY DEF ConstructStores
<1>3. Len(ConstructStores(v)) = 1 /\ ConstructStores(v)[1] = PutByte(1, v[1])
  BY <1>1, <1>2, OneIs, StoresHaveTypes
<1>4. Written(m, PutByte(1, v[1])) = new
  BY DEF Written, PutByte
<1>5. c = MemoriesBy(c, m, ConstructStores(v))
  <2>1. c[0] = m /\ c[1] = Written(c[0], ConstructStores(v)[1])
    BY <1>3, <1>4
  <2>2. c = [j \in 0..1 |-> c[j]]
    OBVIOUS
  <2> HIDE DEF c
  <2>3. \A j \in 0..1 : c[j] = IF j = 0 THEN m ELSE Written(c[j - 1], ConstructStores(v)[j])
    BY <2>1
  <2>4. QED
    BY <1>3, <2>2, <2>3 DEF MemoriesBy
<1>6. Memories(m, ConstructStores(v)) = c
  <2> HIDE DEF c
  <2>1. QED
    BY <1>3, <1>5, MemoriesAre
<1>7. Holds(new, v)
  <2>1. new \in Field /\ new[1] = v[1]
    BY <1>1 DEF Field, Byte
  <2> HIDE DEF new
  <2>2. QED
    BY <2>1 DEF Holds, Control
<1>8. ~IsSmaller(v, NumberAt(new))
  <2> HIDE DEF new
  <2>1. NumberAt(new) = v
    BY <1>7, NumberIsHeld
  <2>2. QED
    BY <2>1, NotSmaller
<1>9. c[1] = new
  OBVIOUS
<1> HIDE DEF c, new
<1>10. QED
  BY <1>3, <1>6, <1>7, <1>8, <1>9 DEF IsStored

LEMMA LongIsStored ==
    ASSUME NEW v \in Number, ~IsSmall(v), NEW m \in Field
    PROVE  IsStored(v, Memories(m, ConstructStores(v)), Len(ConstructStores(v)))
<1>1. PICK n : n = ExclusiveBytes(v)
  OBVIOUS
<1>2. PICK k : k = Skipped(n)
  OBVIOUS
<1>3. PICK N : N = CountStores(v, n)
  OBVIOUS
<1>4. n \in 1..8 /\ k \in 0..1 /\ (SharesByte(v) => n <= 6) /\ 1 + k + n \in 2..10
  BY <1>1, <1>2, LayoutIs DEF IsLayout, Skipped
<1>5. N = 2 + k + n + (IF SharesByte(v) THEN 1 ELSE 0)
  BY <1>2, <1>3 DEF CountStores
<1>6. N \in Nat \ {0} /\ Len(ConstructStores(v)) = N
  <2>1. N \in Nat \ {0}
    BY <1>4, <1>5
  <2>2. Len(ConstructStores(v)) = N
    BY <1>1, <1>3, StoresAre
  <2>3. QED
    BY <2>1, <2>2
<1>7. Memories(m, ConstructStores(v)) = [j \in 0..N |-> Stored(m, v, n, j)]
  BY <1>1, <1>3, StoresLeave
<1>8. \A j \in 1..8 : v[j] \in 0..255
  BY DEF Number, Byte, NumberBytes
<1>9. /\ Stored(m, v, n, N) \in Field
      /\ Stored(m, v, n, N)[1] = Control(v)
      /\ \A i \in 1..n : Stored(m, v, n, N)[1 + k + i] = v[i]
  <2>1. PICK s : s = Stored(m, v, n, N)
    OBVIOUS
  <2>2. s[1] = IF N = 2 + k + n THEN Ones(n) ELSE Ones(n) + v[n + 1]
    BY <1>2, <1>4, <1>5, <2>1 DEF Stored
  <2>3. s[1] = Control(v)
    <3>1. CASE SharesByte(v)
      BY <1>1, <1>4, <1>5, <2>2, <3>1 DEF Control
    <3>2. CASE ~SharesByte(v)
      <4>1. s[1] = Ones(n)
        BY <1>4, <1>5, <2>2, <3>2
      <4>2. Control(v) = Ones(n) + 0 /\ Ones(n) \in 128..255
        BY <1>1, <1>4, <3>2, OnesAreBytes DEF Control
      <4>3. QED
        BY <4>1, <4>2
    <3>3. QED
      BY <3>1, <3>2
  <2>4. \A x \in 2..10 : s[x] = IF x <= 1 + k + n THEN IF x <= 1 + k THEN 0 ELSE v[x - 1 - k]
                                ELSE m[x]
    BY <1>2, <1>4, <1>5, <2>1 DEF Stored
  <2>5. \A x \in 2..10 : s[x] \in Byte
    <3>1. \A x \in 2..10 : m[x] \in Byte
      BY DEF Field
    <3>2. \A x \in 2..10 : x <= 1 + k + n /\ ~(x <= 1 + k) => v[x - 1 - k] \in Byte
      BY <1>4, <1>8 DEF Byte
    <3>3. 0 \in Byte
      BY DEF Byte
    <3>4. QED
      BY <2>4, <3>1, <3>2, <3>3
  <2>6. s = [x \in 1..10 |-> s[x]]
    BY <2>1 DEF Stored
  <2>7. s \in Field
    BY <2>3, <2>5, <2>6, ControlIs DEF Field
  <2>8. \A i \in 1..n : s[1 + k + i] = v[i]
    <3>1. ASSUME NEW i \in 1..n PROVE s[1 + k + i] = v[i]
      <4>1. PICK x \in 2..10 : x = 1 + k + i
        BY <1>4
      <4>2. x <= 1 + k + n /\ ~(x <= 1 + k) /\ x - 1 - k = i
        BY <1>4, <4>1
      <4>3. QED
        BY <2>4, <4>1, <4>2
    <3>2. QED
      BY <3>1
  <2>9. QED
    BY <2>1, <2>3, <2>7, <2>8
<1>10. Holds(Stored(m, v, n, N), v)
  BY <1>1, <1>2, <1>9 DEF Holds
<1>11. ASSUME NEW j \in 1..N
       PROVE  ~IsSmaller(v, NumberAt(Stored(m, v, n, j)))
  <2>1. PICK s : s = Stored(m, v, n, j)
    OBVIOUS
  <2>2. s[1] = IF j <= 1 + k + n THEN 0 ELSE IF j = 2 + k + n THEN Ones(n) ELSE Ones(n) + v[n + 1]
    BY <1>2, <1>6, <2>1 DEF Stored
  <2>3. CASE j <= 1 + k + n
    <3>1. s[1] = 0
      BY <2>2, <2>3
    <3>2. NumberAt(s) = [i \in 1..8 |-> 0]
      BY <3>1 DEF NumberAt, ZeroNumber, NumberBytes
    <3>3. QED
      BY <1>8, <2>1, <3>2, NotGreater, SMTT(30)
  <2>4. CASE j = 2 + k + n
    <3>1. s[1] = Ones(n) /\ Ones(n) \in 128..255
      BY <1>4, <2>2, <2>4, OnesAreBytes
    <3>2. LeadingOnes(s[1]) = n
      BY <1>4, <3>1, LeadingOnesAre, OnesAre DEF Byte
    <3>3. ~(s[1] < 128)
      BY <3>1
    <3>4. NumberAt(s) = [i \in 1..8 |-> IF i <= n THEN s[1 + k + i]
                                        ELSE IF i = n + 1 THEN s[1] - Ones(n) ELSE 0]
      BY <1>2, <3>2, <3>3 DEF NumberAt, NumberBytes
    <3>5. s[1] - Ones(n) = 0
      BY <3>1
    <3>6. \A i \in 1..n : s[1 + k + i] = v[i]
      <4>1. ASSUME NEW i \in 1..n PROVE s[1 + k + i] = v[i]
        <5>1. PICK x \in 2..10 : x = 1 + k + i
          BY <1>4
        <5>2. x <= j /\ x <= 1 + k + n /\ ~(x <= 1 + k) /\ x - 1 - k = i
          BY <1>4, <2>4, <5>1
        <5>3. s[x] = v[x - 1 - k]
          BY <1>2, <2>1, <5>2 DEF Stored
        <5>4. QED
          BY <5>1, <5>2, <5>3
      <4>2. QED
        BY <4>1
    <3>7. PICK w : w = NumberAt(s)
      OBVIOUS
    <3>8. ASSUME NEW i \in 1..8
          PROVE  v[i] \in Int /\ w[i] \in Int /\ w[i] <= v[i]
      <4>1. v[i] \in 0..255
        BY <1>8
      <4>2. CASE i <= n
        <5>1. w[i] = v[i]
          BY <1>4, <3>4, <3>6, <3>7, <4>2
        <5>2. QED
          BY <4>1, <5>1
      <4>3. CASE ~(i <= n)
        <5>1. w[i] = 0
          BY <3>4, <3>5, <3>7, <4>3
        <5>2. QED
          BY <4>1, <5>1
      <4>4. QED
        BY <4>2, <4>3
    <3>9. ~IsSmaller(v, w)
      BY <3>8, NotGreater
    <3>10. QED
      BY <2>1, <3>7, <3>9
  <2>5. CASE j > 2 + k + n
    <3>1. j = N
      BY <1>4, <1>5, <2>5
    <3>2. NumberAt(s) = v
      BY <1>10, <2>1, <3>1, NumberIsHeld
    <3>3. QED
      BY <2>1, <3>2, NotSmaller
  <2>6. QED
    BY <1>4, <1>6, <2>3, <2>4, <2>5
<1>12. PICK c : c = Memories(m, ConstructStores(v))
  OBVIOUS
<1>13. c[N] = Stored(m, v, n, N) /\ \A j \in 1..N : c[j] = Stored(m, v, n, j)
  BY <1>6, <1>7, <1>12
<1>14. IsStored(v, c, N)
  BY <1>6, <1>10, <1>11, <1>13 DEF IsStored
<1>15. QED
  BY <1>6, <1>12, <1>14

ZeroField == [i \in 1..10 |-> 0]

LEMMA NumberIsStored ==
    ASSUME NEW v \in Number, NEW m \in Field
    PROVE  IsStored(v, Memories(m, ConstructStores(v)), Len(ConstructStores(v)))
BY SmallIsStored, LongIsStored

\* What a size is overwritten with, from the bytes of the size before.
OldField(i) == AfterStores(ZeroField, ConstructStores(i.before))
NewStores(i) == ConstructStores(i.after)
NewFields(i) == Memories(OldField(i), NewStores(i))

LEMMA SizeIsOverwritten ==
    ASSUME NEW i, i.before \in Number, i.after \in Number
    PROVE  /\ Holds(OldField(i), i.before)
           /\ IsStored(i.after, NewFields(i), Len(NewStores(i)))
<1>1. ZeroField \in Field
  BY DEF ZeroField, Field, Byte
<1>2. IsStored(i.before, Memories(ZeroField, ConstructStores(i.before)),
               Len(ConstructStores(i.before)))
  BY <1>1, NumberIsStored
<1>3. Holds(OldField(i), i.before)
  BY <1>2 DEF IsStored, OldField, AfterStores
<1>4. OldField(i) \in Field
  BY <1>3 DEF Holds
<1>5. QED
  BY <1>3, <1>4, NumberIsStored DEF NewFields, NewStores
-----------------------------------------------------------------------------
(* The growth of an index.                                                 *)

\* A function that is computed step by step, with steps that stay in a set.
Chain(f, a, step, count) == [n \in 0..count |-> IF n = 0 THEN a ELSE step[n][f[n - 1]]]

LEMMA ChainDefined ==
    ASSUME NEW S, NEW a \in S, NEW count \in Nat, NEW step \in [1..count -> [S -> S]]
    PROVE  \E f \in [0..count -> S] : f = Chain(f, a, step, count)
<1> DEFINE Good(f, size) == /\ f \in [0..count -> S]
                            /\ \A n \in 0..count :
                                  n < size => f[n] = Chain(f, a, step, count)[n]
           T == {size \in Nat : \E f : Good(f, size)}
<1>1. ASSUME NEW size \in Nat, \A m \in Nat : m < size => m \in T
      PROVE  size \in T
  <2>1. CASE size = 0
    <3> DEFINE f == [n \in 0..count |-> a]
    <3>1. Good(f, 0)
      OBVIOUS
    <3>2. QED
      BY <2>1, <3>1
  <2>2. CASE size # 0
    <3>1. size - 1 \in Nat /\ size - 1 < size
      BY <2>2
    <3>2. PICK f : Good(f, size - 1)
      BY <1>1, <3>1
    <3> DEFINE g == Chain(f, a, step, count)
    <3>3. \A n \in 0..count : n # 0 => n - 1 \in 0..count /\ n \in 1..count
      OBVIOUS
    <3>4. g \in [0..count -> S]
      <4>1. \A n \in 1..count : \A x \in S : step[n][x] \in S
        OBVIOUS
      <4>2. \A n \in 0..count : f[n] \in S
        BY <3>2
      <4>3. \A n \in 0..count : (IF n = 0 THEN a ELSE step[n][f[n - 1]]) \in S
        BY <3>3, <4>1, <4>2
      <4>4. QED
        BY <4>3 DEF Chain
    <3>5. ASSUME NEW n \in 0..count, n < size
          PROVE  g[n] = Chain(g, a, step, count)[n]
      <4>1. CASE n = 0
        BY <4>1 DEF Chain
      <4>2. CASE n # 0
        <5>1. n - 1 \in 0..count /\ n - 1 < size - 1
          BY <3>5, <4>2
        <5>2. f[n - 1] = Chain(f, a, step, count)[n - 1]
          BY <3>2, <5>1
        <5>3. g[n - 1] = f[n - 1]
          BY <5>2
        <5>4. g[n] = step[n][f[n - 1]]
          BY <4>2 DEF Chain
        <5> HIDE DEF g
        <5>5. QED
          BY <4>2, <5>3, <5>4 DEF Chain
      <4>3. QED
        BY <4>1, <4>2
    <3> HIDE DEF g
    <3>6. Good(g, size)
      BY <3>4, <3>5
    <3>7. QED
      BY <3>6
  <2>3. QED
    BY <2>1, <2>2
<1> HIDE DEF T
<1>2. Nat \subseteq T
  BY <1>1, Induction
<1>3. count + 1 \in T
  BY <1>2
<1>4. PICK f : Good(f, count + 1)
  BY <1>3 DEF T
<1>5. \A n \in 0..count : f[n] = Chain(f, a, step, count)[n]
  BY <1>4
<1>6. f = [n \in 0..count |-> f[n]]
  BY <1>4
<1>7. Chain(f, a, step, count) = [n \in 0..count |-> Chain(f, a, step, count)[n]]
  BY DEF Chain
<1>8. QED
  BY <1>4, <1>5, <1>6, <1>7

Bytes == 0 .. Radix - 1
Widths == {1, 2, 4, 8}

LEMMA DivisionByRadix ==
    /\ \A n \in Nat : n \div Radix \in Nat /\ n % Radix \in Bytes
                      /\ ((n \div Radix) * Radix) + (n % Radix) = n
    /\ \A a \in Nat : \A b \in Bytes : a * Radix + b \in Nat /\ (a * Radix + b) \div Radix = a
    /\ 0 \div Radix = 0
<1>1. \A n \in Nat : n \div Radix \in Nat /\ n % Radix \in Bytes
                      /\ ((n \div Radix) * Radix) + (n % Radix) = n
  BY RadixAssumption DEF Bytes
<1>2. \A a \in Nat : \A b \in Bytes : a * Radix + b \in Nat /\ (a * Radix + b) \div Radix = a
  BY RadixAssumption DEF Bytes
<1>3. 0 \div Radix = 0
  BY RadixAssumption
<1>4. QED
  BY <1>1, <1>2, <1>3

-----------------------------------------------------------------------------
(* A number in memory.                                                     *)

\* The values of the highest bytes of a slot.
IsTop(top, memory, at, width) ==
    /\ top \in [0..width -> Nat]
    /\ top[0] = 0
    /\ \A n \in 1..width : top[n] = top[n - 1] * Radix + memory[at + width - n]

LEMMA LoadIs ==
    ASSUME NEW width \in Nat, NEW memory, NEW at \in Int,
           \A x \in at .. at + width - 1 : memory[x] \in Bytes
    PROVE  \E top : IsTop(top, memory, at, width) /\ Load(memory, at, width) = top[width]
<1> DEFINE step == [n \in 1..width |-> [a \in Nat |-> a * Radix + memory[at + width - n]]]
           Top(f) == [n \in 0 .. width |->
                        IF n = 0 THEN 0 ELSE f[n - 1] * Radix + memory[at + width - n]]
           f == CHOOSE f : f = Top(f)
<1>1. \A n \in 1..width : memory[at + width - n] \in Bytes
  <2>1. \A n \in 1..width : at + width - n \in at .. at + width - 1
    OBVIOUS
  <2>2. QED
    BY <2>1
<1>2. step \in [1..width -> [Nat -> Nat]]
  <2>1. \A n \in 1..width : \A a \in Nat : a * Radix + memory[at + width - n] \in Nat
    BY <1>1, DivisionByRadix
  <2>2. QED
    BY <2>1
<1>3. PICK g \in [0..width -> Nat] : g = Chain(g, 0, step, width)
  <2> HIDE DEF step
  <2>1. PICK N : N = Nat
    OBVIOUS
  <2>2. 0 \in N /\ step \in [1..width -> [N -> N]]
    BY <1>2, <2>1
  <2>3. \E g \in [0..width -> N] : g = Chain(g, 0, step, width)
    BY <2>2, ChainDefined
  <2>4. QED
    BY <2>1, <2>3
<1>4. g = Top(g)
  <2>1. \A n \in 0..width : n # 0 => n - 1 \in 0..width /\ n \in 1..width
    OBVIOUS
  <2>2. \A n \in 1..width : \A a \in Nat : step[n][a] = a * Radix + memory[at + width - n]
    OBVIOUS
  <2> HIDE DEF step
  <2>3. \A n \in 0..width : n # 0 => step[n][g[n - 1]] = g[n - 1] * Radix + memory[at + width - n]
    BY <2>1, <2>2
  <2>4. \A n \in 0..width : g[n] = IF n = 0 THEN 0 ELSE step[n][g[n - 1]]
    BY <1>3 DEF Chain
  <2>5. \A n \in 0..width :
            g[n] = IF n = 0 THEN 0 ELSE g[n - 1] * Radix + memory[at + width - n]
    BY <2>3, <2>4
  <2>6. g = [n \in 0..width |-> g[n]]
    BY <1>3
  <2>7. QED
    BY <2>5, <2>6
<1>5. f = Top(f)
  <2>1. \E h : h = Top(h)
    BY <1>4
  <2> HIDE DEF Top
  <2>2. QED
    BY <2>1
<1>6. Load(memory, at, width) = f[width]
  BY DEF Load
<1> HIDE DEF f
<1>7. f[0] = 0 /\ \A n \in 1..width : f[n] = f[n - 1] * Radix + memory[at + width - n]
  <2>1. \A n \in 0..width :
            f[n] = IF n = 0 THEN 0 ELSE f[n - 1] * Radix + memory[at + width - n]
    BY <1>5
  <2>2. QED
    BY <2>1
<1>8. \A n \in 0..width : f[n] \in Nat
  <2> DEFINE S == {n \in Nat : n <= width => f[n] \in Nat}
  <2>1. ASSUME NEW n \in Nat, \A m \in Nat : m < n => m \in S PROVE n \in S
    <3>1. CASE n = 0
      BY <1>7, <3>1
    <3>2. CASE n # 0 /\ n <= width
      <4>1. n - 1 \in Nat /\ n - 1 < n /\ n - 1 <= width /\ n \in 1..width
        BY <3>2
      <4>2. f[n - 1] \in Nat
        BY <2>1, <4>1
      <4>3. f[n] = f[n - 1] * Radix + memory[at + width - n]
        BY <1>7, <4>1
      <4>4. f[n] \in Nat
        BY <1>1, <4>1, <4>2, <4>3, DivisionByRadix
      <4>5. QED
        BY <4>4
    <3>3. QED
      BY <3>1, <3>2
  <2> HIDE DEF S
  <2>2. Nat \subseteq S
    BY <2>1, Induction
  <2>3. QED
    BY <2>2 DEF S
<1>9. f \in [0..width -> Nat]
  <2>1. f = [n \in 0..width |-> f[n]]
    BY <1>5
  <2>2. QED
    BY <1>8, <2>1
<1>10. QED
  BY <1>6, <1>7, <1>9 DEF IsTop

LEMMA TopIsUnique ==
    ASSUME NEW width \in Nat, NEW f, NEW g, NEW memory, NEW at \in Int,
           NEW other, NEW there \in Int,
           IsTop(f, memory, at, width), IsTop(g, other, there, width),
           \A k \in 0 .. width - 1 : memory[at + k] = other[there + k]
    PROVE  f[width] = g[width]
<1> DEFINE S == {n \in Nat : n <= width => f[n] = g[n]}
<1>1. ASSUME NEW n \in Nat, \A m \in Nat : m < n => m \in S PROVE n \in S
  <2>1. CASE n = 0
    BY <2>1 DEF IsTop
  <2>2. CASE n # 0 /\ n <= width
    <3>1. n - 1 \in Nat /\ n - 1 < n /\ n - 1 <= width /\ n \in 1..width
      BY <2>2
    <3>2. f[n - 1] = g[n - 1]
      BY <1>1, <3>1
    <3>3. PICK k \in 0 .. width - 1 : k = width - n
      BY <3>1
    <3>4. at + width - n = at + k /\ there + width - n = there + k
      BY <3>1, <3>3
    <3>5. memory[at + width - n] = other[there + width - n]
      BY <3>4
    <3>6. /\ f[n] = f[n - 1] * Radix + memory[at + width - n]
          /\ g[n] = g[n - 1] * Radix + other[there + width - n]
      BY <3>1 DEF IsTop
    <3>7. f[n] = g[n]
      BY <3>2, <3>5, <3>6
    <3>8. QED
      BY <3>7
  <2>3. QED
    BY <2>1, <2>2
<1> HIDE DEF S
<1>2. Nat \subseteq S
  BY <1>1, Induction
<1>3. QED
  BY <1>2 DEF S

\* A slot is the number its bytes say, wherever they are.
LEMMA SameBytes ==
    ASSUME NEW width \in Nat, NEW memory, NEW at \in Int, NEW other, NEW there \in Int,
           \A k \in 0 .. width - 1 : /\ memory[at + k] = other[there + k]
                                     /\ other[there + k] \in Bytes
    PROVE  Load(memory, at, width) = Load(other, there, width)
<1>1. \A x \in at .. at + width - 1 : memory[x] \in Bytes
  <2>1. ASSUME NEW x \in at .. at + width - 1 PROVE memory[x] \in Bytes
    <3>1. PICK k \in 0 .. width - 1 : k = x - at
      OBVIOUS
    <3>2. at + k = x
      BY <3>1
    <3>3. QED
      BY <3>2
  <2>2. QED
    BY <2>1
<1>2. \A x \in there .. there + width - 1 : other[x] \in Bytes
  <2>1. ASSUME NEW x \in there .. there + width - 1 PROVE other[x] \in Bytes
    <3>1. PICK k \in 0 .. width - 1 : k = x - there
      OBVIOUS
    <3>2. there + k = x
      BY <3>1
    <3>3. QED
      BY <3>2
  <2>2. QED
    BY <2>1
<1>3. PICK f : IsTop(f, memory, at, width) /\ Load(memory, at, width) = f[width]
  BY <1>1, LoadIs
<1>4. PICK g : IsTop(g, other, there, width) /\ Load(other, there, width) = g[width]
  BY <1>2, LoadIs
<1>5. f[width] = g[width]
  BY <1>3, <1>4, TopIsUnique
<1>6. QED
  BY <1>3, <1>4, <1>5

\* A number without its lowest bytes.
IsRest(rest, n, width) ==
    /\ rest \in [0..width -> Nat]
    /\ rest[0] = n
    /\ \A k \in 1..width : rest[k] = rest[k - 1] \div Radix

LEMMA RestIs ==
    ASSUME NEW n \in Nat, NEW width \in Nat
    PROVE  IsRest(Rest(n, width), n, width)
<1> DEFINE step == [k \in 1..width |-> [a \in Nat |-> a \div Radix]]
           By(f) == [k \in 0 .. width |-> IF k = 0 THEN n ELSE f[k - 1] \div Radix]
           f == CHOOSE f : f = By(f)
<1>1. step \in [1..width -> [Nat -> Nat]]
  <2>1. \A a \in Nat : a \div Radix \in Nat
    BY DivisionByRadix
  <2>2. QED
    BY <2>1
<1>2. PICK g \in [0..width -> Nat] : g = Chain(g, n, step, width)
  <2> HIDE DEF step
  <2>1. PICK N, a : N = Nat /\ a = n
    OBVIOUS
  <2>2. a \in N /\ step \in [1..width -> [N -> N]]
    BY <1>1, <2>1
  <2>3. \E g \in [0..width -> N] : g = Chain(g, a, step, width)
    BY <2>2, ChainDefined
  <2>4. QED
    BY <2>1, <2>3
<1>3. g = By(g)
  <2>1. \A k \in 0..width : k # 0 => k - 1 \in 0..width /\ k \in 1..width
    OBVIOUS
  <2>2. \A k \in 1..width : \A a \in Nat : step[k][a] = a \div Radix
    OBVIOUS
  <2> HIDE DEF step
  <2>3. \A k \in 0..width : k # 0 => step[k][g[k - 1]] = g[k - 1] \div Radix
    BY <2>1, <2>2
  <2>4. \A k \in 0..width : g[k] = IF k = 0 THEN n ELSE step[k][g[k - 1]]
    BY <1>2 DEF Chain
  <2>5. \A k \in 0..width : g[k] = IF k = 0 THEN n ELSE g[k - 1] \div Radix
    BY <2>3, <2>4
  <2>6. g = [k \in 0..width |-> g[k]]
    BY <1>2
  <2>7. QED
    BY <2>5, <2>6
<1>4. f = By(f)
  <2>1. \E h : h = By(h)
    BY <1>3
  <2> HIDE DEF By
  <2>2. QED
    BY <2>1
<1>5. Rest(n, width) = f
  BY DEF Rest
<1> HIDE DEF f
<1>6. f[0] = n /\ \A k \in 1..width : f[k] = f[k - 1] \div Radix
  <2>1. \A k \in 0..width : f[k] = IF k = 0 THEN n ELSE f[k - 1] \div Radix
    BY <1>4
  <2>2. QED
    BY <2>1
<1>7. \A k \in 0..width : f[k] \in Nat
  <2> DEFINE S == {k \in Nat : k <= width => f[k] \in Nat}
  <2>1. ASSUME NEW k \in Nat, \A m \in Nat : m < k => m \in S PROVE k \in S
    <3>1. CASE k = 0
      BY <1>6, <3>1
    <3>2. CASE k # 0 /\ k <= width
      <4>1. k - 1 \in Nat /\ k - 1 < k /\ k - 1 <= width /\ k \in 1..width
        BY <3>2
      <4>2. f[k - 1] \in Nat
        BY <2>1, <4>1
      <4>3. f[k] \in Nat
        BY <1>6, <4>1, <4>2, DivisionByRadix
      <4>4. QED
        BY <4>3
    <3>3. QED
      BY <3>1, <3>2
  <2> HIDE DEF S
  <2>2. Nat \subseteq S
    BY <2>1, Induction
  <2>3. QED
    BY <2>2 DEF S
<1>8. f = [k \in 0..width |-> f[k]]
  BY <1>4
<1>9. QED
  BY <1>5, <1>6, <1>7, <1>8 DEF IsRest

\* The bytes of a slot that was loaded, of one that is at least as wide: what is
\* left after k of them is what its other bytes say, and nothing in the end.
LEMMA RestOfLoaded ==
    ASSUME NEW w \in Nat, NEW width \in Nat, w <= width,
           NEW memory, NEW at \in Int, \A x \in at .. at + w - 1 : memory[x] \in Bytes,
           NEW top, IsTop(top, memory, at, w), NEW rest, IsRest(rest, top[w], width)
    PROVE  rest[width] = 0
<1> DEFINE S == {k \in Nat : k <= width => rest[k] = IF k <= w THEN top[w - k] ELSE 0}
<1>1. ASSUME NEW k \in Nat, \A m \in Nat : m < k => m \in S PROVE k \in S
  <2>1. CASE k = 0
    BY <2>1 DEF IsRest
  <2>2. CASE k # 0 /\ k <= width
    <3>1. k - 1 \in Nat /\ k - 1 < k /\ k - 1 <= width /\ k \in 1..width
      BY <2>2
    <3>2. rest[k - 1] = IF k - 1 <= w THEN top[w - (k - 1)] ELSE 0
      BY <1>1, <3>1
    <3>3. rest[k] = rest[k - 1] \div Radix
      BY <3>1 DEF IsRest
    <3>4. CASE k <= w
      <4>1. PICK n \in 1..w : n = w - (k - 1)
        BY <3>1, <3>4
      <4>2. n - 1 = w - k /\ n - 1 \in 0..w /\ at + w - n \in at .. at + w - 1
        BY <3>1, <3>4, <4>1
      <4>3. top[n] = top[n - 1] * Radix + memory[at + w - n] /\ top[n - 1] \in Nat
        BY <4>2 DEF IsTop
      <4>4. top[n] \div Radix = top[n - 1]
        <5>1. PICK b \in Bytes : b = memory[at + w - n]
          BY <4>2
        <5>2. (top[n - 1] * Radix + b) \div Radix = top[n - 1]
          BY <4>3, <5>1, DivisionByRadix
        <5>3. QED
          BY <4>3, <5>1, <5>2
      <4>5. rest[k - 1] = top[n]
        BY <3>1, <3>2, <3>4, <4>1
      <4>6. rest[k] = top[w - k]
        BY <3>3, <4>2, <4>4, <4>5
      <4>7. QED
        BY <3>4, <4>6
    <3>5. CASE ~(k <= w)
      <4>1. rest[k - 1] = 0
        <5>1. CASE k - 1 <= w
          <6>1. w - (k - 1) = 0
            BY <3>1, <3>5, <5>1
          <6>2. top[0] = 0
            BY DEF IsTop
          <6>3. QED
            BY <3>2, <5>1, <6>1, <6>2
        <5>2. CASE ~(k - 1 <= w)
          BY <3>2, <5>2
        <5>3. QED
          BY <5>1, <5>2
      <4>2. rest[k] = 0
        BY <3>3, <4>1, DivisionByRadix
      <4>3. QED
        BY <3>5, <4>2
    <3>6. QED
      BY <3>4, <3>5
  <2>3. QED
    BY <2>1, <2>2
<1> HIDE DEF S
<1>2. Nat \subseteq S
  BY <1>1, Induction
<1>3. rest[width] = IF width <= w THEN top[w - width] ELSE 0
  BY <1>2 DEF S
<1>4. CASE width <= w
  <2>1. w - width = 0
    BY <1>4
  <2>2. QED
    BY <1>3, <1>4, <2>1 DEF IsTop
<1>5. CASE ~(width <= w)
  BY <1>3, <1>5
<1>6. QED
  BY <1>4, <1>5

\* What is stored is loaded again, when the slot is wide enough.
LEMMA StoredIsLoaded ==
    ASSUME NEW width \in Nat, NEW at \in Int, NEW memory,
           NEW n \in Nat, NEW rest, IsRest(rest, n, width), rest[width] = 0,
           \A k \in 0 .. width - 1 : memory[at + k] = rest[k] % Radix
    PROVE  Load(memory, at, width) = n
<1>1. \A k \in 0 .. width - 1 : rest[k] \in Nat /\ rest[k] % Radix \in Bytes
  <2>1. \A k \in 0 .. width - 1 : rest[k] \in Nat
    BY DEF IsRest
  <2>2. QED
    BY <2>1, DivisionByRadix
<1>2. \A x \in at .. at + width - 1 : memory[x] \in Bytes
  <2>1. ASSUME NEW x \in at .. at + width - 1 PROVE memory[x] \in Bytes
    <3>1. PICK k \in 0 .. width - 1 : k = x - at
      OBVIOUS
    <3>2. at + k = x
      BY <3>1
    <3>3. QED
      BY <1>1, <3>2
  <2>2. QED
    BY <2>1
<1>3. PICK top : IsTop(top, memory, at, width) /\ Load(memory, at, width) = top[width]
  BY <1>2, LoadIs
<1> DEFINE S == {k \in Nat : k <= width => top[k] = rest[width - k]}
<1>4. ASSUME NEW k \in Nat, \A m \in Nat : m < k => m \in S PROVE k \in S
  <2>1. CASE k = 0
    <3>1. top[0] = 0
      BY <1>3 DEF IsTop
    <3>2. QED
      BY <2>1, <3>1
  <2>2. CASE k # 0 /\ k <= width
    <3>1. k - 1 \in Nat /\ k - 1 < k /\ k - 1 <= width /\ k \in 1..width
      BY <2>2
    <3>2. top[k - 1] = rest[width - (k - 1)]
      BY <1>4, <3>1
    <3>3. PICK j \in 0 .. width - 1 : j = width - k
      BY <3>1
    <3>4. j + 1 = width - (k - 1) /\ at + width - k = at + j /\ j + 1 \in 1..width /\ (j + 1) - 1 = j
      BY <3>1, <3>3
    <3>5. top[k] = top[k - 1] * Radix + memory[at + j]
      BY <1>3, <3>1, <3>4 DEF IsTop
    <3>6. rest[j + 1] = rest[j] \div Radix
      BY <3>4 DEF IsRest
    <3>7. ((rest[j] \div Radix) * Radix) + (rest[j] % Radix) = rest[j]
      BY <1>1, DivisionByRadix
    <3>8. top[k] = rest[j]
      BY <3>2, <3>4, <3>5, <3>6, <3>7
    <3>9. QED
      BY <3>3, <3>8
  <2>3. QED
    BY <2>1, <2>2
<1> HIDE DEF S
<1>5. Nat \subseteq S
  BY <1>4, Induction
<1>6. top[width] = rest[width - width]
  BY <1>5 DEF S
<1>7. width - width = 0
  OBVIOUS
<1>8. QED
  BY <1>3, <1>6, <1>7 DEF IsRest

-----------------------------------------------------------------------------
(* The move of slots.                                                      *)

LEMMA WidthsAre == \A s \in 0..3 : SlotWidth(s) \in Widths /\ SlotWidth(s) \in Nat
BY DEF SlotWidth, Widths

LEMMA SlotPlaces ==
    \A w \in Widths : \A j, k \in Nat :
        /\ j < k => j * w + w <= k * w
        /\ j * w \in Nat /\ (j * w) \div w = j
        /\ (j + 1) * w = j * w + w
BY DEF Widths

Places(memory, low, high) == \A x \in low .. high - 1 : x \in DOMAIN memory /\ memory[x] \in Bytes

\* A memory that differs in one slot, which holds a number.
HasSlot(new, memory, at, width, n) ==
    /\ new = [x \in DOMAIN memory |-> new[x]]
    /\ \A x \in DOMAIN memory : x \in at .. at + width - 1 \/ new[x] = memory[x]
    /\ \A x \in at .. at + width - 1 : new[x] \in Bytes
    /\ Load(new, at, width) = n

HasPlaces(memory, at, width) == \A x \in at .. at + width - 1 : x \in DOMAIN memory

\* One slot, from a place where it is as it was to one that is wide enough.
LEMMA OneSlotCopied ==
    ASSUME NEW memory, NEW source \in Int, NEW target \in Int,
           NEW ss \in 0..3, NEW ts \in 0..3, SlotWidth(ss) <= SlotWidth(ts), NEW i \in Nat,
           Places(memory, source + i * SlotWidth(ss), source + i * SlotWidth(ss) + SlotWidth(ss)),
           NEW at, at = target + i * SlotWidth(ts),
           HasPlaces(memory, at, SlotWidth(ts)),
           NEW new, new = CopySlot(memory, source, ss, target, ts, i)
    PROVE  HasSlot(new, memory, at, SlotWidth(ts),
                   Load(memory, source + i * SlotWidth(ss), SlotWidth(ss)))
<1>1. PICK w \in Widths : w = SlotWidth(ss)
  BY WidthsAre
<1>2. PICK W \in Widths : W = SlotWidth(ts)
  BY WidthsAre
<1>3. w \in Nat /\ W \in Nat /\ w <= W
  BY <1>1, <1>2 DEF Widths
<1>4. PICK from \in Int : from = source + i * w
  BY <1>3
<1>5. at \in Int
  BY <1>2, <1>3
<1>6. PICK n : n = Load(memory, from, w)
  OBVIOUS
<1>7. \A x \in from .. from + w - 1 : memory[x] \in Bytes
  <2>1. Places(memory, from, from + w)
    BY <1>1, <1>4
  <2>2. (from + w) - 1 = from + w - 1
    BY <1>3
  <2>3. QED
    BY <2>1, <2>2 DEF Places
<1>8. PICK top : IsTop(top, memory, from, w) /\ n = top[w]
  BY <1>3, <1>4, <1>6, <1>7, LoadIs
<1>9. n \in Nat
  BY <1>3, <1>8 DEF IsTop
<1>10. PICK rest : rest = Rest(n, W) /\ IsRest(rest, n, W)
  BY <1>3, <1>9, RestIs
<1>11. rest[W] = 0
  BY <1>3, <1>4, <1>7, <1>8, <1>10, RestOfLoaded
<1>12. new = [x \in DOMAIN memory |->
                IF x \in at .. at + W - 1 THEN rest[x - at] % Radix ELSE memory[x]]
  BY <1>1, <1>2, <1>4, <1>6, <1>10 DEF CopySlot, Store
<1>13. \A k \in 0 .. W - 1 : rest[k] \in Nat /\ rest[k] % Radix \in Bytes
  <2>1. \A k \in 0 .. W - 1 : rest[k] \in Nat
    BY <1>3, <1>10 DEF IsRest
  <2>2. QED
    BY <2>1, DivisionByRadix
<1>14. \A k \in 0 .. W - 1 : new[at + k] = rest[k] % Radix
  <2>1. ASSUME NEW k \in 0 .. W - 1 PROVE new[at + k] = rest[k] % Radix
    <3>1. PICK x : x = at + k
      OBVIOUS
    <3>2. x \in at .. at + W - 1 /\ x - at = k
      BY <1>3, <1>5, <3>1
    <3>3. x \in DOMAIN memory
      BY <1>2, <3>2 DEF HasPlaces
    <3>4. new[x] = rest[x - at] % Radix
      BY <1>12, <3>2, <3>3
    <3>5. QED
      BY <3>1, <3>2, <3>4
  <2>2. QED
    BY <2>1
<1>15. \A x \in at .. at + W - 1 : new[x] \in Bytes
  <2>1. ASSUME NEW x \in at .. at + W - 1 PROVE new[x] \in Bytes
    <3>1. PICK k \in 0 .. W - 1 : k = x - at
      BY <1>3, <1>5
    <3>2. at + k = x
      BY <1>5, <3>1
    <3>3. QED
      BY <1>13, <1>14, <3>1, <3>2
  <2>2. QED
    BY <2>1
<1>16. Load(new, at, W) = n
  BY <1>3, <1>5, <1>9, <1>10, <1>11, <1>14, StoredIsLoaded
<1>17. new = [x \in DOMAIN memory |-> new[x]]
       /\ \A x \in DOMAIN memory : x \in at .. at + W - 1 \/ new[x] = memory[x]
  BY <1>12
<1>18. QED
  BY <1>1, <1>2, <1>4, <1>6, <1>15, <1>16, <1>17 DEF HasSlot

\* A copy of a slot inside a buffer leaves a buffer.
Buffers(D) == [D -> Bytes]

Room(D, at, width) == at .. at + width - 1 \subseteq D

IsCopied(new, memory, D, from, w, at, width) ==
    /\ new \in Buffers(D)
    /\ \A x \in D : x \in at .. at + width - 1 \/ new[x] = memory[x]
    /\ Load(new, at, width) = Load(memory, from, w)

LEMMA SlotCopiedInside ==
    ASSUME NEW D \in SUBSET Int, NEW memory \in Buffers(D), NEW source \in Int, NEW target \in Int,
           NEW ss \in 0..3, NEW ts \in 0..3, NEW w, w = SlotWidth(ss), NEW W, W = SlotWidth(ts),
           w <= W, NEW i \in Nat,
           NEW from, from = source + i * w, NEW at, at = target + i * W,
           Room(D, from, w), Room(D, at, W),
           NEW new, new = CopySlot(memory, source, ss, target, ts, i)
    PROVE  IsCopied(new, memory, D, from, w, at, W)
<1>1. DOMAIN memory = D /\ \A x \in D : memory[x] \in Bytes
  BY DEF Buffers
<1>2. Places(memory, from, from + w)
  <2>1. (from + w) - 1 = from + w - 1
    BY WidthsAre
  <2>2. \A x \in from .. (from + w) - 1 : x \in D
    BY <2>1 DEF Room
  <2>3. QED
    BY <1>1, <2>2 DEF Places
<1>3. Places(memory, source + i * SlotWidth(ss), source + i * SlotWidth(ss) + SlotWidth(ss))
  BY <1>2
<1>4. HasPlaces(memory, at, SlotWidth(ts))
  BY <1>1 DEF HasPlaces, Room
<1>5. HasSlot(new, memory, at, SlotWidth(ts), Load(memory, source + i * SlotWidth(ss), SlotWidth(ss)))
  BY <1>3, <1>4, OneSlotCopied
<1>6. /\ new = [x \in D |-> new[x]]
      /\ \A x \in D : x \in at .. at + W - 1 \/ new[x] = memory[x]
      /\ \A x \in at .. at + W - 1 : new[x] \in Bytes
      /\ Load(new, at, W) = Load(memory, from, w)
  BY <1>1, <1>5 DEF HasSlot
<1>7. \A x \in D : new[x] \in Bytes
  BY <1>1, <1>6
<1>8. new \in [D -> Bytes]
  BY <1>1, <1>6, <1>7
<1>9. QED
  BY <1>6, <1>8 DEF IsCopied, Buffers

\* The loop that widens slots.
Copying(copied, memory, source, ss, target, ts, count) ==
    [n \in 0 .. count |->
        IF n = 0 THEN memory ELSE CopySlot(copied[n - 1], source, ss, target, ts, count - n)]

IsCopying(copied, S, memory, source, ss, target, ts, count) ==
    /\ copied[0] = memory /\ memory \in S
    /\ \A n \in 1..count : copied[n] = CopySlot(copied[n - 1], source, ss, target, ts, count - n)

LEMMA CopyingDefined ==
    ASSUME NEW S, NEW memory \in S, NEW source, NEW target, NEW ss, NEW ts, NEW count \in Nat,
           ss # ts,
           \A m \in S : \A i \in 0 .. count - 1 : CopySlot(m, source, ss, target, ts, i) \in S
    PROVE  \E copied : /\ IsCopying(copied, S, memory, source, ss, target, ts, count)
                       /\ CopyArray(memory, source, ss, target, ts, count) = copied[count]
<1> DEFINE step == [n \in 1..count |-> [m \in S |-> CopySlot(m, source, ss, target, ts, count - n)]]
           f == CHOOSE f : f = Copying(f, memory, source, ss, target, ts, count)
<1>1. step \in [1..count -> [S -> S]]
  <2>1. \A n \in 1..count : count - n \in 0 .. count - 1
    OBVIOUS
  <2>2. \A n \in 1..count : \A m \in S : CopySlot(m, source, ss, target, ts, count - n) \in S
    BY <2>1
  <2>3. QED
    BY <2>2
<1>2. PICK g \in [0..count -> S] : g = Chain(g, memory, step, count)
  <2> HIDE DEF step
  <2>1. QED
    BY <1>1, ChainDefined
<1>3. g = Copying(g, memory, source, ss, target, ts, count)
  <2>1. \A n \in 0..count : n # 0 => n - 1 \in 0..count /\ n \in 1..count
    OBVIOUS
  <2>2. \A n \in 1..count : \A m \in S :
            step[n][m] = CopySlot(m, source, ss, target, ts, count - n)
    OBVIOUS
  <2> HIDE DEF step
  <2>3. \A n \in 0..count : n # 0 =>
            step[n][g[n - 1]] = CopySlot(g[n - 1], source, ss, target, ts, count - n)
    BY <2>1, <2>2
  <2>4. \A n \in 0..count : g[n] = IF n = 0 THEN memory ELSE step[n][g[n - 1]]
    BY <1>2 DEF Chain
  <2>5. \A n \in 0..count :
            g[n] = IF n = 0 THEN memory ELSE CopySlot(g[n - 1], source, ss, target, ts, count - n)
    BY <2>3, <2>4
  <2>6. g = [n \in 0..count |-> g[n]]
    BY <1>2
  <2>7. QED
    BY <2>5, <2>6 DEF Copying
<1>4. f = Copying(f, memory, source, ss, target, ts, count)
  <2>1. \E h : h = Copying(h, memory, source, ss, target, ts, count)
    BY <1>3
  <2>2. QED
    BY <2>1, Zenon
<1>5. CopyArray(memory, source, ss, target, ts, count) = f[count]
  BY DEF CopyArray, Copying
<1> HIDE DEF f
<1>6. \A n \in 0..count :
        f[n] = IF n = 0 THEN memory ELSE CopySlot(f[n - 1], source, ss, target, ts, count - n)
  BY <1>4 DEF Copying
<1>7. f[0] = memory /\ \A n \in 1..count : f[n] = CopySlot(f[n - 1], source, ss, target, ts, count - n)
  BY <1>6
<1>8. QED
  BY <1>5, <1>7 DEF IsCopying

\* Widening from the last slot back overwrites no slot that is still to be read.
LEMMA WideningKeepsSlots ==
    ASSUME NEW D \in SUBSET Int, NEW memory \in Buffers(D), NEW source \in Int, NEW target \in Int,
           source <= target, NEW ss \in 0..3, NEW ts \in 0..3, ss # ts,
           NEW w, w = SlotWidth(ss), NEW W, W = SlotWidth(ts), w <= W, NEW count \in Nat,
           Room(D, source, count * w),
           Room(D, target, count * W)
    PROVE  LET new == CopyArray(memory, source, ss, target, ts, count)
           IN  \A j \in 0 .. count - 1 : Load(new, target + j * W, W) = Load(memory, source + j * w, w)
<1>1. w \in Widths /\ W \in Widths /\ w \in Nat /\ W \in Nat
  BY WidthsAre
<1>2. ASSUME NEW i \in 0 .. count - 1, NEW from, from = source + i * w, NEW at, at = target + i * W
      PROVE  /\ from \in Int /\ Room(D, from, w)
             /\ at \in Int /\ Room(D, at, W)
             /\ from + w <= at + W
  <2>1. i \in Nat /\ count \in Nat /\ i < count
    OBVIOUS
  <2>2. PICK a \in Nat, b \in Nat : a = i * w /\ b = count * w /\ a + w <= b
    BY <1>1, <2>1, SlotPlaces
  <2>3. PICK c \in Nat, d \in Nat : c = i * W /\ d = count * W /\ c + W <= d
    BY <1>1, <2>1, SlotPlaces
  <2>4. a <= c
    BY <1>1, <2>1, <2>2, <2>3 DEF Widths
  <2>5. QED
    BY <1>1, <1>2, <2>2, <2>3, <2>4 DEF Room
<1>3. \A m \in Buffers(D) : \A i \in 0 .. count - 1 : CopySlot(m, source, ss, target, ts, i) \in Buffers(D)
  <2>1. ASSUME NEW m \in Buffers(D), NEW i \in 0 .. count - 1
        PROVE  CopySlot(m, source, ss, target, ts, i) \in Buffers(D)
    <3>1. PICK from : from = source + i * w
      OBVIOUS
    <3>2. PICK at : at = target + i * W
      OBVIOUS
    <3>3. Room(D, from, w) /\ Room(D, at, W) /\ i \in Nat
      BY <1>2, <3>1, <3>2
    <3>4. QED
      <4>1. PICK new : new = CopySlot(m, source, ss, target, ts, i)
        OBVIOUS
      <4>2. IsCopied(new, m, D, from, w, at, W)
        BY <3>1, <3>2, <3>3, <4>1, SlotCopiedInside
      <4>3. QED
        BY <4>1, <4>2 DEF IsCopied
  <2>2. QED
    BY <2>1
<1>4. PICK copied : /\ IsCopying(copied, Buffers(D), memory, source, ss, target, ts, count)
                    /\ CopyArray(memory, source, ss, target, ts, count) = copied[count]
  BY <1>3, CopyingDefined
<1> DEFINE Kept(n) == \A x \in D : x < target + (count - n) * W => copied[n][x] = memory[x]
           Moved(n) == \A j \in count - n .. count - 1 :
                          Load(copied[n], target + j * W, W) = Load(memory, source + j * w, w)
           Done(n) == copied[n] \in Buffers(D) /\ Kept(n) /\ Moved(n)
           R == {n \in Nat : n <= count => Done(n)}
<1>5. ASSUME NEW n \in Nat, \A m \in Nat : m < n => m \in R PROVE n \in R
  <2>1. CASE n = 0
    <3>1. copied[0] = memory
      BY <1>4 DEF IsCopying
    <3>2. QED
      BY <2>1, <3>1
  <2>2. CASE n # 0 /\ n <= count
    <3>1. n - 1 \in Nat /\ n - 1 < n /\ n - 1 <= count /\ n \in 1..count
      BY <2>2
    <3>2. Done(n - 1)
      BY <1>5, <3>1
    <3>3. PICK i \in 0 .. count - 1 : i = count - n
      BY <3>1
    <3>4. i \in Nat /\ count - (n - 1) = i + 1
      BY <3>1, <3>3
    <3>5. PICK m : m = copied[n - 1]
      OBVIOUS
    <3>6. PICK new : new = copied[n]
      OBVIOUS
    <3>7. new = CopySlot(m, source, ss, target, ts, i)
      BY <1>4, <3>1, <3>3, <3>5, <3>6 DEF IsCopying
    <3>8. PICK from : from = source + i * w
      OBVIOUS
    <3>9. PICK at : at = target + i * W
      OBVIOUS
    <3>10. /\ from \in Int /\ Room(D, from, w)
           /\ at \in Int /\ Room(D, at, W)
           /\ from + w <= at + W
      BY <1>2, <3>8, <3>9
    <3>11. target + (i + 1) * W = at + W
      <4>1. PICK a \in Nat : a = i * W /\ (i + 1) * W = a + W
        BY <1>1, <3>4, SlotPlaces
      <4>2. QED
        BY <1>1, <3>9, <4>1
    <3>12. m \in Buffers(D) /\ \A x \in D : x < at + W => m[x] = memory[x]
      BY <3>2, <3>4, <3>5, <3>11
    <3>13. /\ new \in Buffers(D)
           /\ \A x \in D : x \in at .. at + W - 1 \/ new[x] = m[x]
           /\ Load(new, at, W) = Load(m, from, w)
      <4>1. IsCopied(new, m, D, from, w, at, W)
        BY <3>4, <3>7, <3>8, <3>9, <3>10, <3>12, SlotCopiedInside
      <4>2. QED
        BY <4>1 DEF IsCopied
    <3>14. Load(m, from, w) = Load(memory, from, w)
      <4>1. ASSUME NEW k \in 0 .. w - 1
            PROVE  m[from + k] = memory[from + k] /\ memory[from + k] \in Bytes
        <5>1. PICK x \in Int : x = from + k
          BY <3>10
        <5>2. x \in D /\ x < at + W
          BY <1>1, <3>10, <5>1 DEF Room
        <5>3. QED
          BY <3>12, <5>1, <5>2 DEF Buffers
      <4>2. QED
        BY <1>1, <3>10, <4>1, SameBytes
    <3>15. \A x \in D : x < at => new[x] = memory[x]
      <4>1. ASSUME NEW x \in D, x < at PROVE new[x] = memory[x]
        <5>1. x \notin at .. at + W - 1 /\ x < at + W
          BY <1>1, <3>10, <4>1
        <5>2. QED
          BY <3>12, <3>13, <5>1
      <4>2. QED
        BY <4>1
    <3>16. ASSUME NEW j \in i .. count - 1
           PROVE  Load(new, target + j * W, W) = Load(memory, source + j * w, w)
      <4>1. CASE j = i
        BY <3>8, <3>9, <3>13, <3>14, <4>1
      <4>2. CASE j # i
        <5>1. j \in Nat /\ i < j /\ j \in i + 1 .. count - 1 /\ j \in 0 .. count - 1
          BY <3>4, <4>2
        <5>2. PICK t : t = target + j * W
          OBVIOUS
        <5>3. t \in Int /\ Room(D, t, W)
          BY <1>2, <5>1, <5>2
        <5>4. at + W <= t
          <6>1. PICK a \in Nat, b \in Nat : a = i * W /\ b = j * W /\ a + W <= b
            BY <1>1, <3>4, <5>1, SlotPlaces
          <6>2. QED
            BY <1>1, <3>9, <5>2, <6>1
        <5>5. Load(m, t, W) = Load(memory, source + j * w, w)
          BY <3>2, <3>4, <3>5, <5>1, <5>2
        <5>6. ASSUME NEW k \in 0 .. W - 1
              PROVE  new[t + k] = m[t + k] /\ m[t + k] \in Bytes
          <6>1. PICK x \in Int : x = t + k
            BY <5>3
          <6>2. x \in D /\ x \notin at .. at + W - 1
            BY <1>1, <3>10, <5>3, <5>4, <6>1 DEF Room
          <6>3. QED
            BY <3>12, <3>13, <6>1, <6>2 DEF Buffers
        <5>7. Load(new, t, W) = Load(m, t, W)
          BY <1>1, <5>3, <5>6, SameBytes
        <5>8. QED
          BY <5>2, <5>5, <5>7
      <4>3. QED
        BY <4>1, <4>2
    <3>17. Done(n)
      BY <3>3, <3>6, <3>9, <3>13, <3>15, <3>16
    <3>18. QED
      BY <3>17
  <2>3. QED
    BY <2>1, <2>2
<1>6. Nat \subseteq R
  <2> HIDE DEF R
  <2>1. QED
    BY <1>5, Induction
<1>7. Moved(count)
  <2>1. count \in R
    BY <1>6
  <2> HIDE DEF Moved, Kept
  <2>2. QED
    BY <2>1
<1>8. count - count = 0
  OBVIOUS
<1>9. QED
  BY <1>4, <1>7, <1>8

\* A memmove of slots keeps them, also where the two places overlap.
LEMMA MovingKeepsSlots ==
    ASSUME NEW D \in SUBSET Int, NEW memory \in Buffers(D), NEW source \in Int, NEW target \in Int,
           NEW s \in 0..3, NEW w, w = SlotWidth(s), NEW count \in Nat,
           Room(D, source, count * w), Room(D, target, count * w)
    PROVE  LET new == CopyArray(memory, source, s, target, s, count)
           IN  \A j \in 0 .. count - 1 : Load(new, target + j * w, w) = Load(memory, source + j * w, w)
<1>1. w \in Widths /\ w \in Nat /\ count * w \in Nat
  BY WidthsAre DEF Widths
<1>2. PICK new : new = CopyArray(memory, source, s, target, s, count)
  OBVIOUS
<1>3. PICK c \in Nat : c = count * w
  BY <1>1
<1>4. \A x \in D : new[x] = IF x \in target .. target + c - 1 THEN memory[x - target + source]
                            ELSE memory[x]
  BY <1>2, <1>3 DEF CopyArray, Buffers
<1>5. ASSUME NEW j \in 0 .. count - 1
      PROVE  Load(new, target + j * w, w) = Load(memory, source + j * w, w)
  <2>1. j \in Nat /\ j < count
    OBVIOUS
  <2>2. PICK a \in Nat : a = j * w /\ a + w <= c
    BY <1>1, <1>3, <2>1, SlotPlaces
  <2>3. PICK t \in Int : t = target + a
    OBVIOUS
  <2>4. PICK f \in Int : f = source + a
    OBVIOUS
  <2>5. ASSUME NEW k \in 0 .. w - 1
        PROVE  new[t + k] = memory[f + k] /\ memory[f + k] \in Bytes
    <3>1. PICK x \in Int : x = t + k
      BY <1>1
    <3>2. PICK y \in Int : y = f + k
      BY <1>1
    <3>3. x \in target .. target + c - 1 /\ x - target + source = y
          /\ y \in source .. source + c - 1
      BY <1>1, <2>2, <2>3, <2>4, <3>1, <3>2
    <3>4. x \in D /\ y \in D
      BY <1>3, <3>3 DEF Room
    <3>5. new[x] = memory[y] /\ memory[y] \in Bytes
      BY <1>4, <3>3, <3>4 DEF Buffers
    <3>6. QED
      BY <3>1, <3>2, <3>5
  <2>6. Load(new, t, w) = Load(memory, f, w)
    BY <1>1, <2>5, SameBytes
  <2>7. QED
    BY <2>2, <2>3, <2>4, <2>6
<1>6. QED
  BY <1>2, <1>5

LEMMA RoundedWidths ==
    \A w \in Widths : \A m, n \in Int :
        /\ ((n - w + 1) \div w) * w \in Int /\ ((n - w + 1) \div w) * w <= n
        /\ m <= n => ((m - w + 1) \div w) * w <= ((n - w + 1) \div w) * w
BY DEF Widths

LEMMA RoundDownIs ==
    ASSUME NEW s \in 0..3, NEW n \in Nat
    PROVE  \E r \in Int : r = RoundDown(n, s) /\ r <= n
BY RoundedWidths, WidthsAre DEF RoundDown

LEMMA RoundDownGrows ==
    ASSUME NEW s \in 0..3, NEW n \in Nat, NEW m \in Nat, m <= n
    PROVE  RoundDown(m, s) <= RoundDown(n, s)
BY RoundedWidths, WidthsAre DEF RoundDown

\* A header counts the slots between its two ends.
IndexOf(source, end, w, count) == count \in Nat /\ count * w = end - source

LEMMA SlotsAreCounted ==
    ASSUME NEW h, IsHeader(h)
    PROVE  IndexOf(h.indexBegin, h.indexEnd, SlotWidth(h.scale), CountOf(h))
<1>1. PICK b \in Nat, e \in Nat : b = h.indexBegin /\ e = h.indexEnd /\ b <= e
  BY DEF IsHeader
<1>2. PICK w \in Widths : w = SlotWidth(h.scale)
  BY WidthsAre DEF IsHeader
<1>3. (e - b) % w = 0
  BY <1>1, <1>2 DEF IsHeader
<1>4. (e - b) \div w \in Nat /\ ((e - b) \div w) * w = e - b
  BY <1>1, <1>3 DEF Widths
<1>5. QED
  BY <1>1, <1>2, <1>4 DEF CountOf, IndexOf

LEMMA ScalesAre == \A size \in Nat : ScaleOf(size) \in 0..3
BY DEF ScaleOf

LEMMA WidthsGrow == \A s, t \in 0..3 : s <= t => SlotWidth(s) <= SlotWidth(t)
BY DEF SlotWidth

LEMMA WidthsAtMost == \A w \in Widths : \A count \in Nat :
    count * w \in Nat /\ count * w <= 8 * count /\ (count * w) \div w = count
BY DEF Widths

\* What a call of Reinterpret has to do.
SameSlots(new, from, w, old, at, width, count) ==
    \A j \in 0 .. count - 1 : Load(new, from + j * w, w) = Load(old, at + j * width, width)

IsMoved(result, h, memory, size) ==
    /\ result.result = "moved" =>
         /\ result.header.scale \in 0..3 /\ result.header.indexBegin \in Int
         /\ SameSlots(result.memory, result.header.indexBegin, SlotWidth(result.header.scale),
                      memory, h.indexBegin, SlotWidth(h.scale), CountOf(h))
         /\ CountOf(result.header)
               = (CountOf(h) * SlotWidth(h.scale)) \div SlotWidth(result.header.scale)
         /\ CountOf(result.header) \in 0 .. CountOf(h)
         /\ result.header.indexEnd <= size
    /\ ScaleOf(size) = h.scale /\ size >= h.size =>
         /\ result.result = "moved"
         /\ CountOf(result.header) = CountOf(h)
         /\ RoundDown(result.header.size, result.header.scale)
              - result.header.indexEnd - result.header.wasted
                = RoundDown(h.size, h.scale) - h.indexEnd - h.wasted

\* The bytes of narrow slots hold at most as many wide ones.
LEMMA WiderAreFewer ==
    \A w, W \in Widths : \A count, c \in Nat :
        w <= W /\ c = count * w => c \div W \in 0 .. count
BY SMTT(30) DEF Widths

\* The index moves to the end of the larger buffer.
LEMMA MovedIndexIsRight ==
    ASSUME NEW h, IsHeader(h), NEW size \in Nat, size > h.size,
           NEW memory \in [h.indexBegin .. size - 1 -> Bytes]
    PROVE  IsMoved(MoveIndexes(h, memory, size), h, memory, size)
<1>1. PICK b \in Nat, e \in Nat, count \in Nat :
        b = h.indexBegin /\ e = h.indexEnd /\ count = CountOf(h)
  BY SlotsAreCounted DEF IsHeader, IndexOf
<1>2. PICK s \in 0..3 : s = h.scale
  BY DEF IsHeader
<1>3. PICK t \in 0..3 : t = ScaleOf(size)
  BY ScalesAre
<1>4. PICK w \in Widths : w = SlotWidth(s)
  BY WidthsAre
<1>5. PICK W \in Widths : W = SlotWidth(t)
  BY WidthsAre
<1>6. PICK c \in Nat : c = count * w /\ c = e - b /\ c \div w = count
  BY <1>1, <1>2, <1>4, SlotsAreCounted, WidthsAtMost DEF IndexOf
<1>7. PICK C \in Nat : C = count * W /\ C <= 8 * count
  BY WidthsAtMost
<1>20. PICK n \in Nat : n = h.size /\ n < size
  BY DEF IsHeader
<1>8. PICK old \in Int : old = RoundDown(h.size, s) /\ e <= old /\ old <= h.size
  <2>1. PICK r \in Int : r = RoundDown(n, s) /\ r <= n
    BY RoundDownIs
  <2>2. e <= r
    BY <1>1, <1>2, <1>20, <2>1 DEF IsHeader
  <2>3. QED
    BY <1>20, <2>1, <2>2
<1>9. PICK end \in Int : end = RoundDown(size, t) /\ end <= size /\ (t = s => old <= end)
  <2>1. PICK r \in Int : r = RoundDown(size, t) /\ r <= size
    BY RoundDownIs
  <2>2. t = s => old <= r
    BY <1>8, <1>20, <2>1, RoundDownGrows
  <2>3. QED
    BY <2>1, <2>2
<1>10. PICK begin \in Int : begin = end - c
  OBVIOUS
<1>11. h.size \in Nat /\ h.wasted \in Int
  BY DEF IsHeader
<1>12. PICK D \in SUBSET Int : D = b .. size - 1
  OBVIOUS
<1>13. memory \in Buffers(D)
  BY <1>1, <1>12 DEF Buffers
<1>14. Room(D, b, c)
  BY <1>6, <1>8, <1>11, <1>12 DEF Room
<1>15. PICK new : new = CopyArray(memory, b, s, begin, t, count)
  OBVIOUS
<1>16. PICK result : result = MoveIndexes(h, memory, size)
  OBVIOUS
<1>17. CASE CannotCopy(b, s, begin, t)
  <2>1. result.result = "refused"
    BY <1>1, <1>2, <1>3, <1>4, <1>6, <1>9, <1>10, <1>16, <1>17 DEF MoveIndexes
  <2>2. s # t
    BY <1>17 DEF CannotCopy
  <2>3. QED
    BY <1>2, <1>3, <1>16, <2>1, <2>2 DEF IsMoved
<1>18a. CASE ~CannotCopy(b, s, begin, t) /\ LeavesBuffer(begin, t, count, size)
  <2>1. result.result = "overrun"
    BY <1>1, <1>2, <1>3, <1>4, <1>6, <1>9, <1>10, <1>16, <1>18a DEF MoveIndexes
  <2>2. s # t
    <3>1. SUFFICES ASSUME s = t PROVE FALSE
      OBVIOUS
    <3>2. C = c
      BY <1>4, <1>5, <1>6, <1>7, <3>1
    <3>3. begin + C > size
      BY <1>5, <1>7, <1>18a DEF LeavesBuffer
    <3>4. QED
      BY <1>9, <1>10, <3>2, <3>3
  <2>3. QED
    BY <1>2, <1>3, <1>16, <2>1, <2>2 DEF IsMoved
<1>18. CASE ~CannotCopy(b, s, begin, t) /\ ~LeavesBuffer(begin, t, count, size)
  <2>1. result = [result |-> "moved",
                  header |-> [size |-> size, scale |-> t, indexBegin |-> begin, indexEnd |-> end,
                              wasted |-> h.wasted + (e - old)],
                  memory |-> new]
    BY <1>1, <1>2, <1>3, <1>4, <1>6, <1>8, <1>9, <1>10, <1>15, <1>16, <1>18 DEF MoveIndexes
  <2>2. SameSlots(new, begin, W, memory, b, w, count)
    <3>1. CASE s = t
      <4>1. Room(D, begin, c)
        <5>1. old <= end
          BY <1>9, <3>1
        <5>2. b <= begin
          BY <1>6, <1>8, <1>10, <5>1
        <5>3. begin + c - 1 <= size - 1
          BY <1>9, <1>10
        <5>4. \A x \in Int : begin <= x /\ x <= begin + c - 1 => b <= x /\ x <= size - 1
          BY <5>2, <5>3
        <5>5. QED
          BY <1>12, <5>4 DEF Room
      <4>2. W = w
        BY <1>4, <1>5, <3>1
      <4>3. \A j \in 0 .. count - 1 : Load(new, begin + j * w, w) = Load(memory, b + j * w, w)
        BY <1>4, <1>6, <1>13, <1>14, <1>15, <3>1, <4>1, MovingKeepsSlots
      <4>4. QED
        BY <4>2, <4>3 DEF SameSlots
    <3>2. CASE s # t
      <4>1. s < t /\ b <= begin
        BY <1>18, <3>2 DEF CannotCopy
      <4>2. w <= W
        BY <1>4, <1>5, <4>1, WidthsGrow
      <4>3. Room(D, begin, C)
        <5>1. C = 0 \/ begin + C <= size
          BY <1>5, <1>7, <1>18, SMTT(30) DEF LeavesBuffer
        <5>2. QED
          BY <1>7, <1>12, <4>1, <5>1 DEF Room
      <4>4. \A j \in 0 .. count - 1 : Load(new, begin + j * W, W) = Load(memory, b + j * w, w)
        BY <1>4, <1>5, <1>6, <1>7, <1>13, <1>14, <1>15, <3>2, <4>1, <4>2, <4>3, WideningKeepsSlots
      <4>5. QED
        BY <4>4 DEF SameSlots
    <3>3. QED
      BY <3>1, <3>2
  <2>3. ASSUME s = t
        PROVE  /\ CountOf(result.header) = CountOf(h)
               /\ RoundDown(result.header.size, result.header.scale)
                    - result.header.indexEnd - result.header.wasted
                      = RoundDown(h.size, h.scale) - h.indexEnd - h.wasted
    <3>1. result.header.indexEnd = end /\ result.header.indexBegin = begin
          /\ result.header.scale = t /\ result.header.size = size
          /\ result.header.wasted = h.wasted + (e - old)
      BY <2>1
    <3>2. end - begin = c
      BY <1>10
    <3>3. CountOf(result.header) = count
      BY <1>4, <1>6, <2>3, <3>1, <3>2 DEF CountOf
    <3>4. end - end - (h.wasted + (e - old)) = old - e - h.wasted
      BY <1>11
    <3>5. RoundDown(size, t) = end /\ RoundDown(h.size, h.scale) = old
      BY <1>2, <1>8, <1>9
    <3>6. QED
      BY <1>1, <1>9, <3>1, <3>3, <3>4, <3>5
  <2>4. result.result = "moved" /\ result.header.scale = t /\ result.header.indexBegin = begin
        /\ result.memory = new
    BY <2>1
  <2>5. SameSlots(result.memory, result.header.indexBegin, SlotWidth(result.header.scale),
                  memory, h.indexBegin, SlotWidth(h.scale), CountOf(h))
    BY <1>1, <1>2, <1>4, <1>5, <2>2, <2>4
  <2>6. /\ CountOf(result.header)
             = (CountOf(h) * SlotWidth(h.scale)) \div SlotWidth(result.header.scale)
        /\ CountOf(result.header) \in 0 .. CountOf(h)
        /\ result.header.indexEnd <= size
    <3>1. result.header.indexEnd = end /\ result.header.indexBegin = begin
          /\ result.header.scale = t
      BY <2>1
    <3>2. CountOf(result.header) = c \div W
      <4>1. end - begin = c
        BY <1>10
      <4>2. QED
        BY <1>5, <3>1, <4>1 DEF CountOf
    <3>3. w <= W
      <4>1. s <= t
        BY <1>18 DEF CannotCopy
      <4>2. QED
        BY <1>4, <1>5, <4>1, WidthsGrow
    <3>4. c \div W \in 0 .. count
      BY <1>6, <3>3, WiderAreFewer
    <3>5. CountOf(h) * SlotWidth(h.scale) = c
      BY <1>1, <1>2, <1>4, <1>6
    <3>6. QED
      BY <1>1, <1>5, <1>9, <3>1, <3>2, <3>4, <3>5
  <2>7. QED
    BY <1>2, <1>3, <1>16, <2>3, <2>4, <2>5, <2>6 DEF IsMoved
<1>19. QED
  BY <1>17, <1>18, <1>18a

\* Reinterpret with any size.
LEMMA GrowIsRight ==
    ASSUME NEW h, IsHeader(h), NEW size \in Nat, NEW end,
           end = IF size < h.size THEN h.size ELSE size,
           NEW memory \in [h.indexBegin .. end - 1 -> 0 .. Radix - 1]
    PROVE  IsMoved(Grow(h, memory, size), h, memory, size)
<1>1. h.size \in Nat /\ h.scale \in 0..3 /\ h.indexBegin \in Nat /\ h.indexEnd \in Nat
  BY DEF IsHeader
<1>2. CASE size < h.size
  <2>1. PICK result : result = Grow(h, memory, size)
    OBVIOUS
  <2>2. result.result = "refused"
    BY <1>2, <2>1 DEF Grow
  <2>3. ~(size >= h.size)
    BY <1>1, <1>2
  <2>4. QED
    BY <2>1, <2>2, <2>3 DEF IsMoved
<1>3. CASE size = h.size
  <2>1. PICK result : result = Grow(h, memory, size)
    OBVIOUS
  <2>2. result.result = "moved" /\ result.header = h /\ result.memory = memory
    BY <1>1, <1>3, <2>1 DEF Grow
  <2>3. h.indexEnd <= size
    <3>1. PICK r \in Int : r = RoundDown(h.size, h.scale) /\ r <= h.size
      BY <1>1, RoundDownIs
    <3>2. h.indexEnd <= RoundDown(h.size, h.scale)
      BY DEF IsHeader
    <3>3. QED
      BY <1>1, <1>3, <3>1, <3>2
  <2>4. SameSlots(memory, h.indexBegin, SlotWidth(h.scale),
                  memory, h.indexBegin, SlotWidth(h.scale), CountOf(h))
    BY DEF SameSlots
  <2>5. QED
    <3>1. PICK count \in Nat, w \in Widths : count = CountOf(h) /\ w = SlotWidth(h.scale)
      BY <1>1, SlotsAreCounted, WidthsAre DEF IndexOf
    <3>2. (count * w) \div w = count
      BY WidthsAtMost
    <3>3. CountOf(h) = (CountOf(h) * SlotWidth(h.scale)) \div SlotWidth(h.scale)
          /\ CountOf(h) \in 0 .. CountOf(h)
      BY <3>1, <3>2
    <3>4. QED
      BY <1>1, <2>1, <2>2, <2>3, <2>4, <3>3 DEF IsMoved
<1>4. CASE size > h.size
  <2>1. memory \in [h.indexBegin .. size - 1 -> Bytes]
    BY <1>1, <1>4 DEF Bytes
  <2>2. IsMoved(MoveIndexes(h, memory, size), h, memory, size)
    BY <1>4, <2>1, MovedIndexIsRight
  <2>3. Grow(h, memory, size) = MoveIndexes(h, memory, size)
    BY <1>1, <1>4 DEF Grow
  <2>4. QED
    BY <2>2, <2>3
<1>5. QED
  BY <1>1, <1>2, <1>3, <1>4

LEMMA SlotsAreKept ==
    ASSUME NEW h, IsHeader(h), NEW size, NEW memory, NEW result, IsMoved(result, h, memory, size),
           result.result = "moved"
    PROVE  LET slots == SlotsAt(memory, h.indexBegin, h.scale, CountOf(h))
               kept == CountOf(result.header)
           IN  SlotsAt(result.memory, result.header.indexBegin, result.header.scale, kept)
                 = [n \in 1 .. kept |-> slots[n]]
<1>1. PICK new : new = result.memory
  OBVIOUS
<1>2. PICK s \in 0..3 : s = result.header.scale
  BY DEF IsMoved
<1>3. PICK from \in Int : from = result.header.indexBegin
  BY DEF IsMoved
<1>4. PICK t \in 0..3 : t = h.scale
  BY DEF IsHeader
<1>5. PICK at \in Int : at = h.indexBegin
  BY DEF IsHeader
<1>6. PICK count \in Nat : count = CountOf(h)
  BY SlotsAreCounted DEF IndexOf
<1>7. SameSlots(new, from, SlotWidth(s), memory, at, SlotWidth(t), count)
  BY <1>1, <1>2, <1>3, <1>4, <1>5, <1>6 DEF IsMoved
<1>7a. PICK kept \in 0 .. count : kept = CountOf(result.header)
  BY <1>6 DEF IsMoved
<1>8. SlotsAt(new, from, s, kept) = [n \in 1 .. kept |-> SlotsAt(memory, at, t, count)[n]]
  <2>1. \A i \in 1..count : i - 1 \in 0 .. count - 1
    OBVIOUS
  <2>2. \A i \in 1..count : Load(new, from + (i - 1) * SlotWidth(s), SlotWidth(s))
                              = Load(memory, at + (i - 1) * SlotWidth(t), SlotWidth(t))
    BY <1>7, <2>1 DEF SameSlots
  <2>3. \A i \in 1..kept : i \in 1..count
    OBVIOUS
  <2>4. QED
    BY <2>2, <2>3 DEF SlotsAt
<1>9. QED
  BY <1>1, <1>2, <1>3, <1>4, <1>5, <1>6, <1>7a, <1>8

-----------------------------------------------------------------------------
(* Days and their dates.                                                   *)

LEMMA MinutesOfDays == \A n \in Int : (n * MINUTES_PER_DAY) \div MINUTES_PER_DAY = n
                                      /\ n * MINUTES_PER_DAY \in Int
BY DEF MINUTES_PER_DAY

DaysInYear(year) == IF IsLeap(year) THEN 366 ELSE 365

\* The days that have a date.
IsDay(n) == n \in Int /\ 0 <= n /\ n < 47482

LEMMA YearsAre ==
    ASSUME NEW y \in Years
    PROVE  /\ y \in Int /\ DaysBeforeYear(y) \in Int /\ DaysInYear(y) \in {365, 366}
           /\ 0 <= DaysBeforeYear(y)
           /\ DaysBeforeYear(y) + DaysInYear(y) <= 47482
<1>1. y \in Int /\ 1970 <= y /\ y <= 2099
  BY DEF Years
<1>2. PICK q \in Int : q = (y - 1969) \div 4 /\ 4 * q <= y - 1969 /\ y - 1969 < 4 * q + 4
  BY <1>1
<1>3. 0 <= q /\ q <= 32
  BY <1>1, <1>2
<1>4. PICK l \in Int : l = DaysInYear(y) /\ (l = 365 \/ l = 366) /\ (y = 2099 => l = 365)
  BY DEF DaysInYear, IsLeap
<1>5. PICK b \in Int : b = 365 * (y - 1970)
  BY <1>1
<1>6. 0 <= b /\ b <= 47085 /\ (y # 2099 => b <= 46720)
  BY <1>1, <1>5
<1>7. DaysBeforeYear(y) = b + q
  BY <1>2, <1>5 DEF DaysBeforeYear
<1>8. 0 <= b + q /\ b + q + l <= 47482
  BY <1>3, <1>4, <1>6
<1>9. QED
  BY <1>1, <1>4, <1>7, <1>8

LEMMA QuotientByFour == \A k \in Int : \E q \in Int : \E r \in 0..3 : k = 4 * q + r
<1>1. ASSUME NEW k \in Int PROVE \E q \in Int : \E r \in 0..3 : k = 4 * q + r
  <2>1. k \div 4 \in Int /\ k % 4 \in 0..3 /\ k = 4 * (k \div 4) + (k % 4)
    OBVIOUS
  <2>2. WITNESS k \div 4 \in Int
  <2>3. WITNESS k % 4 \in 0..3
  <2>4. QED
    BY <2>1
<1>2. QED
  BY <1>1

LEMMA YearOfDay ==
    \A y \in Years : \A d \in 1 .. DaysInYear(y) : YearOf(DaysBeforeYear(y) + d - 1) = y
<1>1. ASSUME NEW y \in Years, NEW d \in 1 .. DaysInYear(y)
      PROVE  YearOf(DaysBeforeYear(y) + d - 1) = y
  <2>9. PICK k \in Int : k = y - 1969
    BY DEF Years
  <2>10. PICK q \in Int : \E r \in 0..3 : k = 4 * q + r
    BY QuotientByFour
  <2>11. PICK r \in 0..3 : k = 4 * q + r
    BY <2>10
  <2>1. k = y - 1969 /\ k = 4 * q + r
    BY <2>9, <2>11
  <2>2. k \div 4 = q
    BY <2>1
  <2>3. d <= 365 \/ (d = 366 /\ r = 3)
    <3>1. d \in Int /\ 1 <= d /\ (IsLeap(y) => d <= 366) /\ (~IsLeap(y) => d <= 365)
      BY DEF DaysInYear
    <3>2. y = 4 * q + r + 1969
      BY <2>1 DEF Years
    <3>3. IsLeap(y) => r = 3
      BY <3>2 DEF IsLeap
    <3>4. QED
      BY <3>1, <3>3
  <2>4. DaysBeforeYear(y) + d - 1 + 365 = 365 * k + q + d - 1
    BY <2>1, <2>2 DEF DaysBeforeYear, Years
  <2>5. PICK m \in Int : m = 4 * (DaysBeforeYear(y) + d - 1 + 365) + 3
    BY <2>1, <2>4
  <2>6. m = 1461 * k + (4 * d - 1 - r)
    BY <2>1, <2>4, <2>5
  <2>7. m \div 1461 = k
    BY <2>1, <2>3, <2>6
  <2>8. QED
    BY <2>1, <2>5, <2>7 DEF YearOf, Years
<1>2. QED
  BY <1>1

LEMMA MonthsAre ==
    \A y \in Years : \A m \in 1..12 :
        /\ DaysBeforeMonth(y, m) \in Nat /\ DaysOfMonth(y, m) \in 28..31
        /\ DaysBeforeMonth(y, m) + DaysOfMonth(y, m) <= DaysInYear(y)
        /\ m = 12 => DaysBeforeMonth(y, m) + DaysOfMonth(y, m) = DaysInYear(y)
        /\ m < 12 => DaysBeforeMonth(y, m) + DaysOfMonth(y, m) = DaysBeforeMonth(y, m + 1)
<1>1. ASSUME NEW y \in Years, NEW m \in 1..12
      PROVE  /\ DaysBeforeMonth(y, m) \in Nat /\ DaysOfMonth(y, m) \in 28..31
             /\ DaysBeforeMonth(y, m) + DaysOfMonth(y, m) <= DaysInYear(y)
             /\ m = 12 => DaysBeforeMonth(y, m) + DaysOfMonth(y, m) = DaysInYear(y)
             /\ m < 12 => DaysBeforeMonth(y, m) + DaysOfMonth(y, m) = DaysBeforeMonth(y, m + 1)
  <2>1. m \in {1, 2, 3} \/ m \in {4, 5, 6} \/ m \in {7, 8, 9} \/ m \in {10, 11, 12}
    OBVIOUS
  <2>2. CASE m \in {1, 2, 3}
    BY <2>2 DEF DaysBeforeMonth, DaysOfMonth, DaysInYear, IsLeap
  <2>3. CASE m \in {4, 5, 6}
    BY <2>3 DEF DaysBeforeMonth, DaysOfMonth, DaysInYear, IsLeap
  <2>4. CASE m \in {7, 8, 9}
    BY <2>4 DEF DaysBeforeMonth, DaysOfMonth, DaysInYear, IsLeap
  <2>5. CASE m \in {10, 11, 12}
    BY <2>5 DEF DaysBeforeMonth, DaysOfMonth, DaysInYear, IsLeap
  <2>6. QED
    BY <2>1, <2>2, <2>3, <2>4, <2>5
<1>2. QED
  BY <1>1

\* The date of a day.
DateFor(n) ==
    LET year == YearOf(n)
        dayOfYear == 1 + n - DaysBeforeYear(year)
        month == MonthOf(year, dayOfYear)
    IN  [error |-> FALSE, year |-> year, month |-> month,
         day |-> dayOfYear - DaysBeforeMonth(year, month),
         total |-> n * MINUTES_PER_DAY, dayOfWeek |-> WeekdayOf(n),
         dayOfYear |-> dayOfYear]

LEMMA DateAtIs ==
    ASSUME NEW n, IsDay(n)
    PROVE  DateAt(n * MINUTES_PER_DAY) = DateFor(n)
<1>1. DateOn = [k \in 0 .. DaysBeforeYear(2100) - 1 |-> DateFor(k)]
  BY DEF DateOn, DateFor
<1>2. DaysBeforeYear(2100) = 47482
  BY DEF DaysBeforeYear
<1>3. n \in 0 .. DaysBeforeYear(2100) - 1
  BY <1>2 DEF IsDay
<1>4. DateOn[n] = DateFor(n)
  BY <1>1, <1>3
<1>5. (n * MINUTES_PER_DAY) \div MINUTES_PER_DAY = n
  BY MinutesOfDays DEF IsDay
<1>6. QED
  BY <1>4, <1>5 DEF DateAt

\* A day of a month is on it, and no other day is.
LEMMA MonthsInOrder ==
    ASSUME NEW y \in Years, NEW m \in 1..12, NEW k \in 1..12, m < k
    PROVE  DaysBeforeMonth(y, m) + DaysOfMonth(y, m) <= DaysBeforeMonth(y, k)
<1> DEFINE Ends(n) == DaysBeforeMonth(y, n) + DaysOfMonth(y, n)
           S == {n \in Nat : m < n /\ n <= 12 => Ends(m) <= DaysBeforeMonth(y, n)}
<1>1. ASSUME NEW n \in Nat, \A i \in Nat : i < n => i \in S
      PROVE  n \in S
  <2>1. CASE m < n /\ n <= 12
    <3>1. n - 1 \in 1..12 /\ n - 1 \in Nat /\ n - 1 < 12 /\ (n - 1) + 1 = n
      BY <2>1
    <3>2. /\ Ends(n - 1) = DaysBeforeMonth(y, n)
          /\ DaysBeforeMonth(y, n - 1) \in Nat /\ DaysOfMonth(y, n - 1) \in 28..31
      BY <3>1, MonthsAre
    <3>3. CASE n - 1 = m
      BY <3>2, <3>3, MonthsAre
    <3>4. CASE n - 1 # m
      <4>1. m < n - 1 /\ n - 1 < n /\ n - 1 <= 12
        BY <2>1, <3>4
      <4>2. Ends(m) <= DaysBeforeMonth(y, n - 1)
        BY <1>1, <3>1, <4>1
      <4>3. PICK a \in Int, b \in Int, c \in Int :
              a = Ends(m) /\ b = DaysBeforeMonth(y, n - 1) /\ c = DaysOfMonth(y, n - 1) /\ 0 <= c
        BY <3>2, MonthsAre
      <4>4. a <= b /\ b + c = DaysBeforeMonth(y, n)
        BY <3>2, <4>2, <4>3
      <4>5. QED
        BY <4>3, <4>4
    <3>5. QED
      BY <3>3, <3>4
  <2>2. QED
    BY <2>1
<1>2. Nat \subseteq S
  <2> HIDE DEF S
  <2>1. QED
    BY <1>1, Induction
<1>3. k \in S
  BY <1>2
<1>4. QED
  BY <1>3

LEMMA MonthOfDay ==
    ASSUME NEW y \in Years, NEW m \in 1..12, NEW d \in 1 .. DaysOfMonth(y, m)
    PROVE  MonthOf(y, DaysBeforeMonth(y, m) + d) = m
<1>1. PICK x \in Int : x = DaysBeforeMonth(y, m) + d
  BY MonthsAre
<1>2. x - DaysBeforeMonth(y, m) \in 1 .. DaysOfMonth(y, m)
  BY <1>1, MonthsAre
<1>3. ASSUME NEW k \in 1..12, x - DaysBeforeMonth(y, k) \in 1 .. DaysOfMonth(y, k)
      PROVE  k = m
  <2>6. PICK a \in Int : a = DaysBeforeMonth(y, m)
    BY MonthsAre
  <2>7. PICK b \in Int : b = DaysOfMonth(y, m)
    BY MonthsAre
  <2>8. PICK e \in Int : e = DaysBeforeMonth(y, k)
    BY MonthsAre
  <2>9. PICK f \in Int : f = DaysOfMonth(y, k)
    BY MonthsAre
  <2>1. /\ a = DaysBeforeMonth(y, m) /\ b = DaysOfMonth(y, m)
        /\ e = DaysBeforeMonth(y, k) /\ f = DaysOfMonth(y, k)
    BY <2>6, <2>7, <2>8, <2>9
  <2>2. a < x /\ x <= a + b /\ e < x /\ x <= e + f
    BY <1>2, <1>3, <2>1
  <2>3. CASE m < k
    <3>1. a + b <= e
      BY <2>1, <2>3, MonthsInOrder
    <3>2. QED
      BY <2>2, <3>1
  <2>4. CASE k < m
    <3>1. e + f <= a
      BY <2>1, <2>4, MonthsInOrder
    <3>2. QED
      BY <2>2, <3>1
  <2>5. QED
    BY <2>3, <2>4
<1>4. QED
  BY <1>1, <1>2, <1>3 DEF MonthOf

\* The date of a day of a month.
LEMMA DateForDay ==
    ASSUME NEW y \in Years, NEW m \in 1..12, NEW d \in 1 .. DaysOfMonth(y, m),
           NEW n, n = DayNumber(y, m, d)
    PROVE  /\ IsDay(n) /\ YearOf(n) = y
           /\ DateFor(n) = [error |-> FALSE, year |-> y, month |-> m, day |-> d,
                            total |-> n * MINUTES_PER_DAY, dayOfWeek |-> WeekdayOf(n),
                            dayOfYear |-> 1 + n - DaysBeforeYear(y)]
<1>11. PICK l \in Int : l = DaysInYear(y)
  BY YearsAre
<1>12. PICK a \in Int : a = DaysBeforeYear(y) /\ 0 <= a /\ a + l <= 47482
  BY <1>11, YearsAre
<1>13. PICK b \in Int : b = DaysBeforeMonth(y, m) /\ 0 <= b
  BY MonthsAre
<1>14. PICK c \in Int : c = DaysOfMonth(y, m) /\ b + c <= l
  BY <1>11, <1>13, MonthsAre
<1>1. /\ a = DaysBeforeYear(y) /\ b = DaysBeforeMonth(y, m) /\ c = DaysOfMonth(y, m)
      /\ l = DaysInYear(y) /\ 0 <= a /\ 0 <= b /\ b + c <= l /\ a + l <= 47482
  BY <1>11, <1>12, <1>13, <1>14
<1>2. d \in Int /\ 1 <= d /\ d <= c
  BY <1>1
<1>3. n = a + b + d - 1 /\ n \in Int
  BY <1>1, <1>2 DEF DayNumber
<1>4. IsDay(n)
  BY <1>1, <1>2, <1>3 DEF IsDay
<1>5. PICK x \in Int : x = b + d /\ 1 <= x /\ x <= l
  BY <1>1, <1>2
<1>6. YearOf(n) = y
  <2>1. x \in 1 .. DaysInYear(y) /\ n = a + x - 1
    BY <1>1, <1>3, <1>5
  <2>2. QED
    BY <1>1, <2>1, YearOfDay
<1>7. 1 + n - DaysBeforeYear(y) = x
  BY <1>1, <1>3, <1>5
<1>8. MonthOf(y, x) = m
  BY <1>1, <1>5, MonthOfDay
<1>9. x - DaysBeforeMonth(y, m) = d
  BY <1>1, <1>2, <1>5
<1>10. QED
  BY <1>4, <1>6, <1>7, <1>8, <1>9 DEF DateFor

-----------------------------------------------------------------------------
(* Days of the week.                                                       *)

LEMMA WeekdaysRepeat ==
    /\ \A n \in Int : WeekdayOf(n) \in 0..6 /\ WeekdayOf(n + 7) = WeekdayOf(n)
    /\ \A m, n \in Int : m < n /\ n < m + 7 => WeekdayOf(m) # WeekdayOf(n)
<1>1. \A n \in Int : (n + 4) % 7 \in 0..6 /\ (n + 7 + 4) % 7 = (n + 4) % 7
  OBVIOUS
<1>2. \A m, n \in Int : m < n /\ n < m + 7 => (m + 4) % 7 # (n + 4) % 7
  OBVIOUS
<1>3. QED
  BY <1>1, <1>2 DEF WeekdayOf, DAYS_PER_WEEK

\* The first days of the week of a period are seven days apart.
OnDay(w, low, high) == {d \in low .. high : WeekdayOf(d) = w}

LEMMA OneMoreWeek ==
    ASSUME NEW w, NEW low \in Int, NEW n \in Int, low <= n, WeekdayOf(n) = w
    PROVE  /\ OnDay(w, low, n + 7) = OnDay(w, low, n) \cup {n + 7}
           /\ n + 7 \notin OnDay(w, low, n)
<1>1. WeekdayOf(n + 7) = w
  BY WeekdaysRepeat
<1>2. ASSUME NEW d \in Int, n < d, d < n + 7 PROVE WeekdayOf(d) # w
  BY <1>2, WeekdaysRepeat
<1>3. ASSUME NEW d \in OnDay(w, low, n + 7), d # n + 7 PROVE d \in OnDay(w, low, n)
  BY <1>2, <1>3 DEF OnDay
<1>4. ASSUME NEW d \in OnDay(w, low, n) PROVE d \in OnDay(w, low, n + 7)
  BY DEF OnDay
<1>5. n + 7 \in OnDay(w, low, n + 7) /\ n + 7 \notin OnDay(w, low, n)
  BY <1>1 DEF OnDay
<1>6. QED
  BY <1>3, <1>4, <1>5

LEMMA FirstWeek ==
    ASSUME NEW w, NEW low \in Int, NEW n \in Int, low <= n, n < low + 7, WeekdayOf(n) = w
    PROVE  OnDay(w, low, n) = {n}
<1>1. ASSUME NEW d \in Int, low <= d, d < n PROVE WeekdayOf(d) # w
  BY <1>1, WeekdaysRepeat
<1>2. QED
  BY <1>1 DEF OnDay

\* A day as many weeks behind the first one of its name in a period.
IsInWeek(from, start, weeks, end) ==
    from <= start /\ start < from + 7 /\ 1 <= weeks /\ end = start + 7 * (weeks - 1)

HasWeeks(from, start, weeks, end) ==
    /\ WeekdayOf(end) = WeekdayOf(start)
    /\ Cardinality(OnDay(WeekdayOf(end), from, end)) = weeks

LEMMA WeeksAreCounted ==
    ASSUME NEW from \in Int, NEW start \in Int, NEW weeks \in Nat, NEW end \in Int,
           IsInWeek(from, start, weeks, end)
    PROVE  HasWeeks(from, start, weeks, end)
<1>7. /\ from <= start /\ start < from + 7 /\ 1 <= weeks
      /\ end = start + 7 * (weeks - 1)
  BY DEF IsInWeek
<1>1. PICK w : w = WeekdayOf(start)
  OBVIOUS
<1> DEFINE At(o) == start + 7 * (o - 1)
           Good(o) == /\ WeekdayOf(At(o)) = w
                      /\ IsFiniteSet(OnDay(w, from, At(o)))
                      /\ Cardinality(OnDay(w, from, At(o))) = o
           S == {o \in Nat : 1 <= o => Good(o)}
<1>2. ASSUME NEW o \in Nat, \A i \in Nat : i < o => i \in S
      PROVE  o \in S
  <2>1. CASE o = 0
    BY <2>1
  <2>2. CASE o = 1
    <3>1. At(o) = start
      BY <2>2
    <3>2. OnDay(w, from, start) = {start}
      BY <1>1, <1>7, FirstWeek
    <3>3. IsFiniteSet({start}) /\ Cardinality({start}) = 1
      BY FS_Singleton
    <3>4. QED
      BY <1>1, <2>2, <3>1, <3>2, <3>3
  <2>3. CASE 1 < o
    <3>1. o - 1 \in Nat /\ o - 1 < o /\ 1 <= o - 1
      BY <2>3
    <3>2. Good(o - 1)
      BY <1>2, <3>1
    <3>3. PICK a \in Int : a = At(o - 1)
      BY <3>1
    <3>4. At(o) = a + 7 /\ from <= a
      BY <1>7, <2>3, <3>3
    <3>5. PICK T : T = OnDay(w, from, a)
      OBVIOUS
    <3>6. IsFiniteSet(T) /\ Cardinality(T) = o - 1 /\ WeekdayOf(a) = w
      BY <3>2, <3>3, <3>5
    <3>7. OnDay(w, from, a + 7) = T \cup {a + 7} /\ a + 7 \notin T
      BY <3>4, <3>5, <3>6, OneMoreWeek
    <3>8. IsFiniteSet(T \cup {a + 7}) /\ Cardinality(T \cup {a + 7}) = o
      BY <3>6, <3>7, FS_AddElement
    <3>9. WeekdayOf(a + 7) = w
      BY <3>6, WeekdaysRepeat
    <3> HIDE DEF At
    <3>10. QED
      BY <3>4, <3>7, <3>8, <3>9
  <2>4. QED
    BY <2>1, <2>2, <2>3
<1>3. Nat \subseteq S
  <2> HIDE DEF S
  <2>1. QED
    BY <1>2, Induction
<1>4. Good(weeks)
  BY <1>3, <1>7
<1>5. At(weeks) = end
  BY <1>7
<1> HIDE DEF At
<1>6. QED
  BY <1>1, <1>4, <1>5 DEF HasWeeks

-----------------------------------------------------------------------------
(* The rules of an anniversary.                                            *)

LEMMA ModuloSeven == \A k \in Int : \E q \in Int : k = 7 * q + (k % 7)
<1>1. ASSUME NEW k \in Int PROVE \E q \in Int : k = 7 * q + (k % 7)
  <2>1. k \div 7 \in Int /\ k = 7 * (k \div 7) + (k % 7)
    OBVIOUS
  <2>2. WITNESS k \div 7 \in Int
  <2>3. QED
    BY <2>1
<1>2. QED
  BY <1>1

\* A number of days leads from one day of the week to another.
LeadsTo(u, f, w) == \A n \in Int : WeekdayOf(n) = f => WeekdayOf(n + u) = w % 7
LeadsBack(u, w, f) == \A n \in Int : WeekdayOf(n) = w => WeekdayOf(n - u) = f

LEMMA DaysUntilIs ==
    ASSUME NEW w \in 0..7, NEW f \in 0..6, NEW u, u = DaysUntil(w, f)
    PROVE  u \in 0..6 /\ LeadsTo(u, f, w) /\ LeadsBack(u, w, f)
<1>1. u = (w + 7 - f) % 7 /\ u \in 0..6
  BY DEF DaysUntil, DAYS_PER_WEEK
<1>2. PICK q \in Int : w + 7 - f = 7 * q + u
  BY <1>1, ModuloSeven
<1>3. ASSUME NEW n \in Int, WeekdayOf(n) = f PROVE WeekdayOf(n + u) = w % 7
  <2>1. (n + 4) % 7 = f
    BY <1>3 DEF WeekdayOf, DAYS_PER_WEEK
  <2>2. PICK p \in Int : n + 4 = 7 * p + f
    BY <2>1, ModuloSeven
  <2>3. n + u + 4 = 7 * (p + 1 - q) + w
    BY <1>1, <1>2, <2>2
  <2>4. PICK k \in Int : k = p + 1 - q
    OBVIOUS
  <2>5. (7 * k + w) % 7 = w % 7
    OBVIOUS
  <2>6. QED
    BY <2>3, <2>4, <2>5 DEF WeekdayOf, DAYS_PER_WEEK
<1>4. ASSUME NEW n \in Int, WeekdayOf(n) = w PROVE WeekdayOf(n - u) = f
  <2>1. (n + 4) % 7 = w
    BY <1>4 DEF WeekdayOf, DAYS_PER_WEEK
  <2>2. PICK p \in Int : n + 4 = 7 * p + w
    BY <2>1, ModuloSeven
  <2>3. n - u + 4 = 7 * (p - 1 + q) + f
    BY <1>1, <1>2, <2>2
  <2>4. PICK k \in Int : k = p - 1 + q
    OBVIOUS
  <2>5. (7 * k + f) % 7 = f
    OBVIOUS
  <2>6. QED
    BY <2>3, <2>4, <2>5 DEF WeekdayOf, DAYS_PER_WEEK
<1>5. QED
  BY <1>1, <1>3, <1>4 DEF LeadsTo, LeadsBack

LEMMA TotalsAdd ==
    \A m, n \in Int : /\ m * MINUTES_PER_DAY + Days(n) = (m + n) * MINUTES_PER_DAY
                      /\ m * MINUTES_PER_DAY - Days(n) = (m - n) * MINUTES_PER_DAY
BY DEF Days, Interval, MINUTES_PER_DAY

LEMMA NextYear ==
    ASSUME NEW y \in Years, y + 1 \in Years
    PROVE  DaysBeforeYear(y + 1) = DaysBeforeYear(y) + DaysInYear(y)
<1>1. y \in Int
  BY YearsAre
<1>2. PICK k \in Int : k = y - 1969
  BY <1>1
<1>3. PICK q \in Int : \E r \in 0..3 : k = 4 * q + r
  BY QuotientByFour
<1>4. PICK r \in 0..3 : k = 4 * q + r
  BY <1>3
<1>5. k \div 4 = q
  BY <1>4
<1>6. (k + 1) \div 4 = IF r = 3 THEN q + 1 ELSE q
  BY <1>4
<1>7. IsLeap(y) <=> r = 3
  <2>1. y = 4 * q + r + 1969
    BY <1>1, <1>2, <1>4
  <2>2. QED
    BY <2>1 DEF IsLeap
<1>8. DaysBeforeYear(y) = 365 * (y - 1970) + q
  BY <1>2, <1>5 DEF DaysBeforeYear
<1>9. DaysBeforeYear(y + 1) = 365 * (y - 1970) + 365 + (IF r = 3 THEN q + 1 ELSE q)
  <2>1. PICK z \in Int : z = y + 1
    BY <1>1
  <2>2. z - 1969 = k + 1
    BY <1>1, <1>2, <2>1
  <2>3. PICK p : p = (k + 1) \div 4
    OBVIOUS
  <2>4. (z - 1969) \div 4 = p
    BY <2>2, <2>3
  <2>5. DaysBeforeYear(z) = 365 * (z - 1970) + p
    BY <2>4 DEF DaysBeforeYear
  <2>6. p = IF r = 3 THEN q + 1 ELSE q
    BY <1>6, <2>3
  <2>7. 365 * (z - 1970) = 365 * (y - 1970) + 365
    BY <1>1, <2>1
  <2>8. QED
    BY <2>1, <2>5, <2>6, <2>7
<1>10. DaysInYear(y) = IF r = 3 THEN 366 ELSE 365
  BY <1>7 DEF DaysInYear
<1>11. QED
  BY <1>1, <1>8, <1>9, <1>10

\* A day of the month is the day of its date.
LEMMA DateOfDay ==
    ASSUME NEW y \in Years, NEW m \in 1..12, NEW d \in 1 .. DaysOfMonth(y, m)
    PROVE  DateOf(y, m, d) = DateFor(DayNumber(y, m, d))
<1>1. PICK n : n = DayNumber(y, m, d)
  OBVIOUS
<1>2. YearOf(n) = y
      /\ DateFor(n) = [error |-> FALSE, year |-> y, month |-> m, day |-> d,
                       total |-> n * MINUTES_PER_DAY, dayOfWeek |-> WeekdayOf(n),
                       dayOfYear |-> 1 + n - DaysBeforeYear(y)]
  BY <1>1, DateForDay
<1>3. QED
  BY <1>1, <1>2 DEF DateOf

\* The days just behind a month are of another one.
LEMMA NextMonth ==
    ASSUME NEW y \in Years, y + 1 \in Years, NEW m \in 1..12, NEW d \in 1..7,
           NEW n, n = DayNumber(y, m, 1) + DaysOfMonth(y, m) + d - 1
    PROVE  IsDay(n) /\ DateFor(n).month # m
<1>11. PICK b \in Int : b = DaysBeforeMonth(y, m)
  BY MonthsAre
<1>12. PICK c \in Int : c = DaysOfMonth(y, m) /\ 28 <= c
  BY MonthsAre
<1>13. PICK a \in Int : a = DaysBeforeYear(y)
  BY YearsAre
<1>1. n = a + b + c + d - 1
  BY <1>11, <1>12, <1>13 DEF DayNumber
<1>2. CASE m < 12
  <2>1. m + 1 \in 1..12 /\ b + c = DaysBeforeMonth(y, m + 1)
    BY <1>2, <1>11, <1>12, MonthsAre
  <2>2. PICK k \in 1..12 : k = m + 1
    BY <2>1
  <2>3. n = DayNumber(y, k, d)
    BY <1>1, <1>13, <2>1, <2>2 DEF DayNumber
  <2>4. d \in 1 .. DaysOfMonth(y, k)
    BY MonthsAre
  <2>5. IsDay(n) /\ DateFor(n).month = k
    BY <2>3, <2>4, DateForDay
  <2>6. QED
    BY <2>2, <2>5
<1>3. CASE m = 12
  <2>1. PICK z \in Years : z = y + 1
    OBVIOUS
  <2>2. DaysBeforeYear(z) = a + b + c
    BY <1>3, <1>11, <1>12, <1>13, <2>1, NextYear, MonthsAre, YearsAre
  <2>3. DaysBeforeMonth(z, 1) = 0
    BY DEF DaysBeforeMonth
  <2>4. n = DayNumber(z, 1, d)
    <3>1. PICK e \in Int : e = a + b + c
      OBVIOUS
    <3>2. DayNumber(z, 1, d) = e + 0 + d - 1
      BY <2>2, <2>3, <3>1 DEF DayNumber
    <3>3. QED
      BY <1>1, <3>1, <3>2
  <2>5. d \in 1 .. DaysOfMonth(z, 1)
    BY MonthsAre
  <2>6. IsDay(n) /\ DateFor(n).month = 1
    BY <2>4, <2>5, DateForDay
  <2>7. QED
    BY <1>3, <2>6
<1>4. QED
  BY <1>2, <1>3

\* What a rule for a day of the week in a month says of the day.
IsOrdered(number, first, last, w, order) ==
    /\ number \in Weekdays(first, last, w)
    /\ IF order = DAY_ORDER_LAST THEN Weekdays(number + 1, last, w) = {}
       ELSE Cardinality(Weekdays(first, number, w)) = order

LEMMA WeekdaysOn ==
    \A w \in 0..7 : w % 7 \in 0..6
                    /\ \A low, high : Weekdays(low, high, w) = OnDay(w % 7, low, high)
BY DEF Weekdays, OnDay, DAYS_PER_WEEK

LEMMA OrderedDayIs ==
    ASSUME NEW y \in Years, y + 1 \in Years, NEW m \in 1..12, NEW w \in 0..7, NEW order \in 1..5,
           NEW first, first = DayNumber(y, m, 1), NEW last, last = first + DaysOfMonth(y, m) - 1
    PROVE  \E n \in Int : /\ OrderedDay(y, m, w, order).total = n * MINUTES_PER_DAY
                          /\ IsOrdered(n, first, last, w, order)
<1>1. PICK c \in Int : c = DaysOfMonth(y, m) /\ 28 <= c /\ c <= 31
  BY MonthsAre
<1>2. first \in Int /\ IsDay(first)
      /\ DateOf(y, m, 1).total = first * MINUTES_PER_DAY
      /\ DateOf(y, m, 1).dayOfWeek = WeekdayOf(first)
  <2>1. 1 \in 1 .. DaysOfMonth(y, m)
    BY <1>1
  <2>2. IsDay(first)
    BY <2>1, DateForDay
  <2>3. QED
    BY <2>2 DEF IsDay, DateOf
<1>3. PICK f \in 0..6 : f = WeekdayOf(first)
  BY <1>2, WeekdaysRepeat
<1>4. PICK u \in 0..6 : u = DaysUntil(w, f)
  BY DaysUntilIs
<1>5. WeekdayOf(first + u) = w % 7
  <2>1. LeadsTo(u, f, w)
    BY <1>4, DaysUntilIs
  <2>2. QED
    BY <1>2, <1>3, <2>1 DEF LeadsTo
<1>6. PICK s \in Int : s = first + u
  BY <1>2
<1>7. PICK n \in Int : n = s + 7 * (order - 1)
  OBVIOUS
<1>8. WeekdayOf(n) = w % 7 /\ Cardinality(OnDay(w % 7, first, n)) = order
  <2>1. first <= s /\ s < first + 7 /\ order \in Nat /\ 1 <= order
    BY <1>2, <1>6
  <2>2. WeekdayOf(n) = WeekdayOf(s) /\ Cardinality(OnDay(WeekdayOf(n), first, n)) = order
    <3>1. PICK low \in Int : low = first
      BY <1>2
    <3>2. PICK k \in Nat : k = order
      BY <2>1
    <3>3. low <= s /\ s < low + 7 /\ 1 <= k /\ n = s + 7 * (k - 1)
      BY <1>7, <2>1, <3>1, <3>2
    <3>4. IsInWeek(low, s, k, n)
      BY <3>3 DEF IsInWeek
    <3>5. HasWeeks(low, s, k, n)
      BY <3>4, WeeksAreCounted
    <3>6. QED
      BY <3>1, <3>2, <3>5 DEF HasWeeks
  <2>3. QED
    BY <1>5, <1>6, <2>2
<1>9. last \in Int /\ last = first + c - 1
  BY <1>1, <1>2
<1>10. PICK date : date = DateAt(n * MINUTES_PER_DAY)
  OBVIOUS
<1>11. OrderedDay(y, m, w, order) =
         IF order = DAY_ORDER_LAST /\ date.month # m THEN DateAt(date.total - Days(7)) ELSE date
  <2>1. PICK k \in Int : k = u + 7 * (order - 1)
    OBVIOUS
  <2>2. first * MINUTES_PER_DAY + Days(k) = n * MINUTES_PER_DAY
    <3>1. first + k = n
      BY <1>2, <1>6, <1>7, <2>1
    <3>2. QED
      BY <1>2, <2>1, <3>1, TotalsAdd
  <2>3. QED
    BY <1>2, <1>3, <1>4, <1>10, <2>1, <2>2 DEF OrderedDay, DAYS_PER_WEEK
<1>12. \A d \in 1 .. c : IsDay(first + d - 1) /\ DateFor(first + d - 1).month = m
  <2>1. ASSUME NEW d \in 1 .. c PROVE IsDay(first + d - 1) /\ DateFor(first + d - 1).month = m
    <3>1. PICK k : k = DayNumber(y, m, d)
      OBVIOUS
    <3>2. PICK b \in Int : b = DaysBeforeYear(y) + DaysBeforeMonth(y, m)
      BY YearsAre, MonthsAre
    <3>3. k = b + d - 1 /\ first = b + 1 - 1
      BY <3>1, <3>2 DEF DayNumber
    <3>4. k = first + d - 1
      BY <3>2, <3>3
    <3>5. d \in 1 .. DaysOfMonth(y, m)
      BY <1>1
    <3>6. IsDay(k) /\ DateFor(k).month = m
      BY <3>1, <3>5, DateForDay
    <3>7. QED
      BY <3>4, <3>6
  <2>2. QED
    BY <2>1
<1>13. CASE n <= last
  <2>1. PICK d \in 1 .. c : d = n - first + 1
    BY <1>2, <1>6, <1>7, <1>9, <1>13
  <2>2. n = first + d - 1
    BY <1>2, <2>1
  <2>3. IsDay(n) /\ DateFor(n).month = m
    BY <1>12, <2>2
  <2>4. date = DateFor(n) /\ date.month = m /\ date.total = n * MINUTES_PER_DAY
    BY <1>10, <2>3, DateAtIs DEF DateFor
  <2>5. OrderedDay(y, m, w, order).total = n * MINUTES_PER_DAY
    BY <1>11, <2>4
  <2>6. n \in OnDay(w % 7, first, last)
    BY <1>2, <1>6, <1>7, <1>8, <1>13 DEF OnDay
  <2>7. order = 5 => OnDay(w % 7, n + 1, last) = {}
    <3>1. ASSUME order = 5, NEW x \in OnDay(w % 7, n + 1, last) PROVE FALSE
      <4>1. x \in Int /\ n < x /\ x < n + 7
        BY <1>1, <1>2, <1>6, <1>7, <1>9, <3>1 DEF OnDay
      <4>2. WeekdayOf(x) = WeekdayOf(n)
        BY <1>8 DEF OnDay
      <4>3. QED
        BY <4>1, <4>2, WeekdaysRepeat
    <3>2. QED
      BY <3>1
  <2>8. QED
    BY <1>8, <2>5, <2>6, <2>7, WeekdaysOn DEF IsOrdered, DAY_ORDER_LAST
<1>14. CASE n > last
  <2>1. order = 5
    BY <1>1, <1>2, <1>6, <1>7, <1>9, <1>14
  <2>2. PICK d \in 1..7 : d = n - last
    BY <1>1, <1>2, <1>6, <1>7, <1>9, <1>14, <2>1
  <2>3. n = first + c + d - 1
    BY <1>2, <1>9, <2>2
  <2>4. IsDay(n) /\ DateFor(n).month # m
    BY <1>1, <2>3, NextMonth
  <2>5. date = DateFor(n) /\ date.month # m /\ date.total = n * MINUTES_PER_DAY
    BY <1>10, <2>4, DateAtIs DEF DateFor
  <2>6. PICK e \in Int : e = n - 7
    OBVIOUS
  <2>7. OrderedDay(y, m, w, order) = DateAt(e * MINUTES_PER_DAY)
    BY <1>11, <2>1, <2>5, <2>6, TotalsAdd DEF DAY_ORDER_LAST
  <2>8. first <= e /\ e <= last /\ last < e + 7
    BY <1>1, <1>2, <1>6, <1>7, <1>9, <1>14, <2>1, <2>2, <2>6
  <2>9. PICK k \in 1 .. c : k = e - first + 1
    BY <1>2, <1>9, <2>8
  <2>10. IsDay(e)
    BY <1>2, <1>12, <2>9
  <2>11. OrderedDay(y, m, w, order).total = e * MINUTES_PER_DAY
    <3>1. DateAt(e * MINUTES_PER_DAY) = DateFor(e)
      BY <2>10, DateAtIs
    <3>2. QED
      BY <2>7, <3>1 DEF DateFor
  <2>12. WeekdayOf(e) = w % 7
    BY <1>8, <2>6, WeekdaysRepeat
  <2>13. e \in OnDay(w % 7, first, last)
    BY <1>2, <1>9, <2>8, <2>12 DEF OnDay
  <2>14. ASSUME NEW x \in OnDay(w % 7, e + 1, last) PROVE FALSE
    <3>1. x \in Int /\ e < x /\ x < e + 7 /\ WeekdayOf(x) = WeekdayOf(e)
      BY <1>9, <2>8, <2>12 DEF OnDay
    <3>2. QED
      BY <3>1, WeekdaysRepeat
  <2>15. OnDay(w % 7, e + 1, last) = {}
    BY <2>14
  <2>16. QED
    BY <2>1, <2>11, <2>13, <2>15, WeekdaysOn DEF IsOrdered, DAY_ORDER_LAST
<1>15. QED
  BY <1>9, <1>13, <1>14

\* Years with a year before and one behind them.
RuleYears == 1971 .. 2098

LEMMA RuleYearsAre ==
    ASSUME NEW y \in RuleYears
    PROVE  /\ y \in Years /\ y + 1 \in Years
           /\ DaysBeforeYear(y) \in Int /\ 365 <= DaysBeforeYear(y) /\ DaysBeforeYear(y) <= 46752
<1>1. y \in Int /\ 1971 <= y /\ y <= 2098
  BY DEF RuleYears
<1>2. PICK q \in Int : q = (y - 1969) \div 4 /\ 4 * q <= y - 1969 /\ y - 1969 < 4 * q + 4
  BY <1>1
<1>3. 0 <= q /\ q <= 32
  BY <1>1, <1>2
<1>4. PICK b \in Int : b = 365 * (y - 1970)
  BY <1>1
<1>5. 365 <= b /\ b <= 46720
  BY <1>1, <1>4
<1>6. DaysBeforeYear(y) = b + q
  BY <1>2, <1>4 DEF DaysBeforeYear
<1>7. b + q \in Int /\ 365 <= b + q /\ b + q <= 46752
  BY <1>3, <1>5
<1>8. y \in Years /\ y + 1 \in Years
  BY <1>1 DEF Years
<1>9. QED
  BY <1>6, <1>7, <1>8

WeekTypes == {"ISO_8601", "ISLAMIC", "NORTH_AMERICAN"}

LEMMA WeekTypesAre ==
    \A t \in WeekTypes : FirstDayOfWeek(t) \in 0..6 /\ DayInWeekOne(t) \in {1, 4}
BY DEF WeekTypes, FirstDayOfWeek, DayInWeekOne, SUNDAY, MONDAY, SATURDAY

LEMMA WeekDayIs ==
    ASSUME NEW y \in RuleYears, NEW t \in WeekTypes, NEW weeks \in 1..53, NEW w \in 0..7
    PROVE  IsDayOfWeek(WeekDay(y, t, weeks, w), t, weeks, w, y)
<1>1. PICK f \in 0..6 : f = FirstDayOfWeek(t)
  BY WeekTypesAre
<1>2. PICK j \in {1, 4} : j = DayInWeekOne(t)
  BY WeekTypesAre
<1>3. PICK a \in Int : a = DaysBeforeYear(y) /\ 365 <= a /\ a <= 46752
  BY RuleYearsAre
<1>4. PICK m \in Int : m = a + j - 1
  OBVIOUS
<1>5. DateOf(y, 1, j).total = m * MINUTES_PER_DAY /\ DateOf(y, 1, j).dayOfWeek = WeekdayOf(m)
  <2>1. DaysBeforeMonth(y, 1) = 0
    BY DEF DaysBeforeMonth
  <2>2. DayNumber(y, 1, j) = m
    BY <1>3, <1>4, <2>1 DEF DayNumber
  <2>3. QED
    BY <2>2 DEF DateOf
<1>6. PICK v \in 0..7 : v = WeekdayOf(m) /\ v < 7
  BY WeekdaysRepeat
<1>7. PICK u \in 0..6 : u = DaysUntil(v, f)
  BY DaysUntilIs
<1>8. PICK s \in Int : s = m - u
  OBVIOUS
<1>9. WeekdayOf(s) = f
  <2>1. LeadsBack(u, v, f)
    BY <1>7, DaysUntilIs
  <2>2. QED
    BY <1>6, <1>8, <2>1 DEF LeadsBack
<1>10. PICK e \in 0..6 : e = DaysUntil(w, f)
  BY DaysUntilIs
<1>11. PICK start \in Int : start = s + 7 * (weeks - 1)
  OBVIOUS
<1>12. WeekdayOf(start) = f
  <2>1. IsInWeek(s, s, weeks, start) /\ weeks \in Nat
    BY <1>11 DEF IsInWeek
  <2>2. HasWeeks(s, s, weeks, start)
    BY <2>1, WeeksAreCounted
  <2>3. QED
    BY <1>9, <2>2 DEF HasWeeks
<1>13. PICK day \in Int : day = start + e
  OBVIOUS
<1>14. WeekdayOf(day) = w % 7
  <2>1. LeadsTo(e, f, w)
    BY <1>10, DaysUntilIs
  <2>2. QED
    BY <1>12, <1>13, <2>1 DEF LeadsTo
<1>15. IsDay(day)
  <2>1. m <= a + 3 /\ a <= m
    BY <1>4
  <2>2. a - 6 <= s /\ s <= a + 3
    BY <1>8, <2>1
  <2>3. 0 <= 7 * (weeks - 1) /\ 7 * (weeks - 1) <= 364
    OBVIOUS
  <2>4. a - 6 <= start /\ start <= a + 367
    BY <1>11, <2>2, <2>3
  <2>5. QED
    BY <1>3, <1>13, <2>4 DEF IsDay
<1>16. WeekDay(y, t, weeks, w).total = day * MINUTES_PER_DAY
  <2>1. PICK k \in Int : k = 7 * (weeks - 1) + e
    OBVIOUS
  <2>2. m * MINUTES_PER_DAY - Days(u) = s * MINUTES_PER_DAY
    BY <1>8, TotalsAdd
  <2>3. s * MINUTES_PER_DAY + Days(k) = day * MINUTES_PER_DAY
    <3>1. s + k = day
      BY <1>11, <1>13, <2>1
    <3>2. QED
      BY <3>1, TotalsAdd
  <2>4. WeekDay(y, t, weeks, w) = DateAt(day * MINUTES_PER_DAY)
    BY <1>1, <1>2, <1>5, <1>6, <1>7, <1>10, <2>1, <2>2, <2>3 DEF WeekDay, DAYS_PER_WEEK
  <2>5. DateAt(day * MINUTES_PER_DAY) = DateFor(day)
    BY <1>15, DateAtIs
  <2>6. QED
    BY <2>4, <2>5 DEF DateFor
<1>17. (day * MINUTES_PER_DAY) \div MINUTES_PER_DAY = day
  BY MinutesOfDays
<1>19. PICK end \in Int : end = start + 7 - j
  OBVIOUS
<1>20. Cardinality(Weekdays(a, end, WeekdayOf(end))) = weeks
  <2>1. PICK c \in Int : c = a + 6 - u
    OBVIOUS
  <2>2. IsInWeek(a, c, weeks, end)
    BY <1>4, <1>8, <1>11, <1>19, <2>1 DEF IsInWeek
  <2>3. weeks \in Nat
    OBVIOUS
  <2>4. HasWeeks(a, c, weeks, end)
    BY <2>2, <2>3, WeeksAreCounted
  <2>5. PICK x \in 0..6 : x = WeekdayOf(end)
    BY WeekdaysRepeat
  <2>6. Weekdays(a, end, x) = OnDay(x, a, end)
    <3>1. x % 7 = x
      OBVIOUS
    <3>2. QED
      BY <3>1 DEF Weekdays, OnDay, DAYS_PER_WEEK
  <2>7. QED
    BY <2>4, <2>5, <2>6 DEF HasWeeks
<1>21. PICK date : date = WeekDay(y, t, weeks, w)
  OBVIOUS
<1>22. date.total \div MINUTES_PER_DAY = day
  BY <1>16, <1>17, <1>21
<1>18. (CHOOSE d \in (date.total \div MINUTES_PER_DAY) - 6 .. (date.total \div MINUTES_PER_DAY) :
             WeekdayOf(d) = FirstDayOfWeek(t)) = start
  <2>1. start \in (date.total \div MINUTES_PER_DAY) - 6 .. (date.total \div MINUTES_PER_DAY)
    BY <1>13, <1>22
  <2>2. ASSUME NEW d \in (date.total \div MINUTES_PER_DAY) - 6 .. (date.total \div MINUTES_PER_DAY),
               WeekdayOf(d) = FirstDayOfWeek(t)
        PROVE  d = start
    <3>1. d \in Int /\ d < start + 7 /\ start < d + 7 /\ WeekdayOf(d) = f
      BY <1>1, <1>13, <1>22, <2>2
    <3>2. d < start \/ d = start \/ start < d
      BY <3>1
    <3>3. QED
      BY <1>12, <3>1, <3>2, WeekdaysRepeat
  <2>3. WeekdayOf(start) = FirstDayOfWeek(t)
    BY <1>1, <1>12
  <2>4. QED
    BY <2>1, <2>2, <2>3
<1>23. IsDayOfWeek(date, t, weeks, w, y)
  <2>1. WeekdayOf(date.total \div MINUTES_PER_DAY) = w % 7
    BY <1>14, <1>22
  <2>2. start + 7 - DayInWeekOne(t) = end
    BY <1>2, <1>19
  <2>3. Cardinality(Weekdays(DaysBeforeYear(y), end, WeekdayOf(end))) = weeks
    BY <1>3, <1>20
  <2>4. QED
    BY <1>18, <2>1, <2>2, <2>3 DEF IsDayOfWeek, DAYS_PER_WEEK
<1>24. QED
  BY <1>21, <1>23

LEMMA MonthDayIs ==
    ASSUME NEW y \in RuleYears, NEW m \in 1..12, NEW d \in 1 .. DaysOfMonth(y, m),
           NEW date, date = DateOf(y, m, d)
    PROVE  /\ date.total \div MINUTES_PER_DAY = DayNumber(y, m, 1) + d - 1
           /\ DateAt(date.total) = date
<1>1. y \in Years
  BY RuleYearsAre
<1>2. PICK n : n = DayNumber(y, m, d)
  OBVIOUS
<1>3. IsDay(n) /\ date = DateFor(n)
  BY <1>1, <1>2, DateForDay, DateOfDay
<1>4. n \in Int /\ date.total = n * MINUTES_PER_DAY
  BY <1>3 DEF IsDay, DateFor
<1>5. date.total \div MINUTES_PER_DAY = n
  BY <1>4, MinutesOfDays
<1>6. DayNumber(y, m, 1) + d - 1 = n
  <2>1. PICK a \in Int : a = DaysBeforeYear(y)
    BY <1>1, YearsAre
  <2>2. PICK b \in Int : b = DaysBeforeMonth(y, m)
    BY <1>1, MonthsAre
  <2>3. n = a + b + d - 1 /\ DayNumber(y, m, 1) = a + b + 1 - 1
    BY <1>2, <2>1, <2>2 DEF DayNumber
  <2>4. d \in Int
    BY <1>1, MonthsAre
  <2>5. QED
    BY <2>3, <2>4
<1>7. DateAt(date.total) = date
  <2>1. DateAt(n * MINUTES_PER_DAY) = DateFor(n)
    BY <1>3, DateAtIs
  <2>2. QED
    BY <1>3, <1>4, <2>1
<1>8. QED
  BY <1>5, <1>6, <1>7

LEMMA DayOfYearIs ==
    ASSUME NEW y \in RuleYears, NEW d \in 1 .. DaysInYear(y),
           NEW date, date = DateAt(DateOf(y, 1, 1).total + Days(d - 1))
    PROVE  /\ date.total \div MINUTES_PER_DAY = DaysBeforeYear(y) + d - 1
           /\ date.year = y /\ date.dayOfYear = d
<1>1. y \in Years
  BY RuleYearsAre
<1>2. PICK a \in Int : a = DaysBeforeYear(y) /\ 365 <= a /\ a <= 46752
  BY RuleYearsAre
<1>3. d \in Int /\ 1 <= d /\ d <= 366
  BY <1>1, YearsAre
<1>4. PICK n \in Int : n = a + d - 1
  BY <1>3
<1>5. DateOf(y, 1, 1).total = a * MINUTES_PER_DAY
  <2>1. DaysBeforeMonth(y, 1) = 0
    BY DEF DaysBeforeMonth
  <2>2. DayNumber(y, 1, 1) = a
    BY <1>2, <2>1 DEF DayNumber
  <2>3. QED
    BY <2>2 DEF DateOf
<1>6. a * MINUTES_PER_DAY + Days(d - 1) = n * MINUTES_PER_DAY
  <2>1. PICK k \in Int : k = d - 1
    BY <1>3
  <2>2. a * MINUTES_PER_DAY + Days(k) = (a + k) * MINUTES_PER_DAY
    BY TotalsAdd
  <2>3. a + k = n
    BY <1>3, <1>4, <2>1
  <2>4. QED
    BY <2>1, <2>2, <2>3
<1>7. date = DateAt(n * MINUTES_PER_DAY)
  BY <1>5, <1>6
<1>8. IsDay(n)
  BY <1>2, <1>3, <1>4 DEF IsDay
<1>9. date = DateFor(n)
  BY <1>7, <1>8, DateAtIs
<1>10. YearOf(n) = y
  BY <1>1, <1>2, <1>4, YearOfDay
<1>11. 1 + n - DaysBeforeYear(y) = d
  BY <1>2, <1>3, <1>4
<1>12. date.total = n * MINUTES_PER_DAY /\ date.year = y /\ date.dayOfYear = d
  BY <1>9, <1>10, <1>11 DEF DateFor
<1>13. date.total \div MINUTES_PER_DAY = n
  BY <1>12, MinutesOfDays
<1>14. QED
  BY <1>2, <1>4, <1>12, <1>13

LEMMA GetDateIs ==
    ASSUME NEW rule, NEW y, NEW m, rule.calendar # "CHINESE_LUNAR",
           NEW date, date = GetDate(rule, y, m)
    PROVE  /\ rule.category = "MONTH_DAY" => date = DateOf(y, rule.month, rule.day)
           /\ rule.category = "MONTHLY_DAY" => date = DateOf(y, m, rule.day)
           /\ rule.category = "DAYOFWEEK_DAYORDER" =>
                date = OrderedDay(y, rule.month, rule.dayOfWeek, rule.dayOrder)
           /\ rule.category = "MONTHLY_DAYORDER" =>
                date = OrderedDay(y, m, rule.dayOfWeek, rule.dayOrder)
           /\ rule.category = "WEEKORDER_DAYOFWEEK" =>
                date = WeekDay(y, rule.weekType, rule.weekOrder, rule.dayOfWeek)
           /\ rule.category = "DAYOFYEAR" =>
                date = DateAt(DateOf(y, 1, 1).total + Days(rule.dayOfYear - 1))
BY DEF GetDate

-----------------------------------------------------------------------------
(* The clock of a zone.                                                    *)

\* The year of a day.
LEMMA YearOfAnyDay ==
    ASSUME NEW n, IsDay(n), NEW y, y = YearOf(n)
    PROVE  /\ y \in Years
           /\ DaysBeforeYear(y) <= n /\ n < DaysBeforeYear(y) + DaysInYear(y)
<1>1. n \in Int /\ 0 <= n /\ n < 47482
  BY DEF IsDay
<1>2. PICK k \in Int : k = (4 * (n + 365) + 3) \div 1461
  BY <1>1
<1>3. 1461 * k <= 4 * n + 1463 /\ 4 * n + 1463 < 1461 * k + 1461
  BY <1>1, <1>2
<1>4. 1 <= k /\ k <= 130
  BY <1>1, <1>3
<1>5. y = 1969 + k
  BY <1>2 DEF YearOf
<1>6. PICK q \in Int : \E r \in 0..3 : k = 4 * q + r
  BY QuotientByFour
<1>7. PICK r \in 0..3 : k = 4 * q + r
  BY <1>6
<1>8. k \div 4 = q
  BY <1>7
<1>9. y - 1969 = k /\ y - 1970 = k - 1
  BY <1>5
<1>10. DaysBeforeYear(y) = 365 * (k - 1) + q
  BY <1>8, <1>9 DEF DaysBeforeYear
<1>11. DaysInYear(y) = IF r = 3 THEN 366 ELSE 365
  <2>1. y = 4 * q + r + 1969
    BY <1>5, <1>7
  <2>2. IsLeap(y) <=> r = 3
    BY <2>1 DEF IsLeap
  <2>3. QED
    BY <2>2 DEF DaysInYear
<1>12. 365 * (k - 1) + q <= n
  BY <1>1, <1>3, <1>7
<1>13. n < 365 * (k - 1) + q + (IF r = 3 THEN 366 ELSE 365)
  BY <1>1, <1>3, <1>7
<1>14. y \in Years
  BY <1>4, <1>5 DEF Years
<1>15. QED
  BY <1>10, <1>11, <1>12, <1>13, <1>14

StartOf(y) == DaysBeforeYear(y) * MINUTES_PER_DAY

\* A moment that has a date lies in its year.
LEMMA YearOfMoment ==
    ASSUME NEW x \in Int, IsDay(x \div MINUTES_PER_DAY), NEW y, y = YearOf(x \div MINUTES_PER_DAY)
    PROVE  /\ y \in Years /\ DateTimeAt(x).date.year = y
           /\ StartOf(y) <= x /\ x < StartOf(y) + DaysInYear(y) * MINUTES_PER_DAY
<1>1. PICK n \in Int : n = x \div MINUTES_PER_DAY
  BY DEF MINUTES_PER_DAY
<1>2. n * 1440 <= x /\ x < n * 1440 + 1440
  BY <1>1 DEF MINUTES_PER_DAY
<1>3. y \in Years /\ DaysBeforeYear(y) <= n /\ n < DaysBeforeYear(y) + DaysInYear(y)
  BY <1>1, YearOfAnyDay
<1>4. PICK a \in Int : a = DaysBeforeYear(y)
  BY <1>3, YearsAre
<1>5. PICK l \in Int : l = DaysInYear(y)
  BY <1>3, YearsAre
<1>6. a * 1440 <= x /\ x < a * 1440 + l * 1440
  BY <1>2, <1>3, <1>4, <1>5
<1>7. (n * MINUTES_PER_DAY) \div MINUTES_PER_DAY = n
  BY MinutesOfDays
<1>8. DateTimeAt(x).date = DateFor(n)
  <2>1. DateTimeAt(x).date = DateAt(x)
    BY DEF DateTimeAt
  <2>2. DateAt(x) = DateOn[n] /\ DateAt(n * MINUTES_PER_DAY) = DateOn[n]
    BY <1>1, <1>7 DEF DateAt
  <2>3. DateAt(n * MINUTES_PER_DAY) = DateFor(n)
    BY <1>1, DateAtIs
  <2>4. QED
    BY <2>1, <2>2, <2>3
<1>9. DateTimeAt(x).date.year = y
  BY <1>1, <1>8 DEF DateFor
<1>10. QED
  BY <1>3, <1>4, <1>5, <1>6, <1>9 DEF StartOf, MINUTES_PER_DAY


\* Years follow one another.
LEMMA YearsInOrder ==
    ASSUME NEW y \in RuleYears, NEW z \in RuleYears, y < z
    PROVE  StartOf(y) + DaysInYear(y) * MINUTES_PER_DAY <= StartOf(z)
<1>1. y \in Int /\ z \in Int /\ y \in Years /\ z \in Years /\ y + 1 \in Years
  BY RuleYearsAre DEF RuleYears
<1>2. PICK v \in Years : v = y + 1
  BY <1>1
<1>3. v \in Int /\ v <= z
  BY <1>1, <1>2
<1>4. PICK p \in Int : p = (v - 1969) \div 4
  BY <1>3
<1>5. PICK q \in Int : q = (z - 1969) \div 4
  BY <1>1
<1>6. p <= q
  BY <1>1, <1>3, <1>4, <1>5
<1>7. DaysBeforeYear(v) = 365 * (v - 1970) + p /\ DaysBeforeYear(z) = 365 * (z - 1970) + q
  BY <1>4, <1>5 DEF DaysBeforeYear
<1>8. 365 * (v - 1970) + p <= 365 * (z - 1970) + q
  BY <1>1, <1>3, <1>6
<1>9. PICK a \in Int : a = DaysBeforeYear(y)
  BY <1>1, YearsAre
<1>10. PICK l \in Int : l = DaysInYear(y)
  BY <1>1, YearsAre
<1>11. PICK b \in Int : b = DaysBeforeYear(z)
  BY <1>1, YearsAre
<1>12. a + l <= b
  <2>1. DaysBeforeYear(v) = a + l
    BY <1>1, <1>2, <1>9, <1>10, NextYear
  <2>2. QED
    BY <1>7, <1>8, <1>11, <2>1
<1>13. a * 1440 + l * 1440 <= b * 1440
  BY <1>12
<1>14. QED
  BY <1>9, <1>10, <1>11, <1>13 DEF StartOf, MINUTES_PER_DAY

\* A transition is in its month.
MonthStart(y, m) == StartOf(y) + DaysBeforeMonth(y, m) * MINUTES_PER_DAY
MonthEnd(y, m) == MonthStart(y, m) + DaysOfMonth(y, m) * MINUTES_PER_DAY

LEMMA TransitionIsInItsMonth ==
    ASSUME NEW t, IsTransition(t), NEW y \in RuleYears
    PROVE  \E v \in Int : /\ v = TransitionAt(t, y)
                          /\ MonthStart(y, t.date.month) <= v /\ v < MonthEnd(y, t.date.month)
<1>1. PICK m \in 1..12 : m = t.date.month
  BY DEF IsTransition, IsRule
<1>2. PICK w \in 0..7 : w = t.date.dayOfWeek
  BY DEF IsTransition, IsRule, DAYS_PER_WEEK
<1>3. PICK order \in 1..5 : order = t.date.dayOrder
  BY DEF IsTransition, IsRule, DAY_ORDER_LAST
<1>4. y \in Years /\ y + 1 \in Years
  BY RuleYearsAre
<1>5. GetDate(t.date, y, 0) = OrderedDay(y, m, w, order)
  <2>1. PICK date : date = GetDate(t.date, y, 0)
    OBVIOUS
  <2>2. t.date.category = "DAYOFWEEK_DAYORDER" /\ t.date.calendar # "CHINESE_LUNAR"
    BY DEF IsTransition
  <2>3. date = OrderedDay(y, t.date.month, t.date.dayOfWeek, t.date.dayOrder)
    BY <2>1, <2>2, GetDateIs
  <2>4. QED
    BY <1>1, <1>2, <1>3, <2>1, <2>3
<1>6. PICK first : first = DayNumber(y, m, 1)
  OBVIOUS
<1>7. PICK last : last = first + DaysOfMonth(y, m) - 1
  OBVIOUS
<1>8. PICK n \in Int : /\ OrderedDay(y, m, w, order).total = n * MINUTES_PER_DAY
                       /\ IsOrdered(n, first, last, w, order)
  BY <1>4, <1>6, <1>7, OrderedDayIs
<1>9. PICK time \in Int : time = t.time.total /\ 0 <= time /\ time < 1440
  <2>1. PICK minutes \in Int : minutes = MINUTES_PER_DAY - 1
    BY DEF MINUTES_PER_DAY
  <2>2. minutes = 1439
    BY <2>1 DEF MINUTES_PER_DAY
  <2>3. t.time.total \in 0 .. minutes
    BY <2>1 DEF IsTransition
  <2>4. QED
    BY <2>2, <2>3, SMTT(30)
<1>10. PICK a \in Int : a = DaysBeforeYear(y)
  BY <1>4, YearsAre
<1>11. PICK b \in Int : b = DaysBeforeMonth(y, m)
  BY <1>4, MonthsAre
<1>12. PICK c \in Int : c = DaysOfMonth(y, m)
  BY <1>4, MonthsAre
<1>13. first = a + b + 1 - 1 /\ last = first + c - 1
  BY <1>6, <1>7, <1>10, <1>11, <1>12 DEF DayNumber
<1>14. a + b <= n /\ n <= a + b + c - 1
  BY <1>8, <1>13 DEF IsOrdered, Weekdays
<1>15. PICK v \in Int : v = n * 1440 + time
  OBVIOUS
<1>16. TransitionAt(t, y) = v
  BY <1>5, <1>8, <1>9, <1>15 DEF TransitionAt, MINUTES_PER_DAY
<1>17. a * 1440 + b * 1440 <= v /\ v < a * 1440 + b * 1440 + c * 1440
  <2>1. (a + b) * 1440 <= n * 1440 /\ n * 1440 <= (a + b + c - 1) * 1440
    BY <1>14
  <2>2. 0 <= time /\ time < 1440
    BY <1>9
  <2>3. QED
    BY <1>15, <2>1, <2>2
<1>18. QED
  BY <1>1, <1>10, <1>11, <1>12, <1>16, <1>17 DEF MonthStart, MonthEnd, StartOf, MINUTES_PER_DAY

\* Two transitions between which a whole month lies, with a month before and one behind them.
LEMMA TransitionsApart ==
    ASSUME NEW s, IsTransition(s), NEW t, IsTransition(t), NEW y \in RuleYears,
           2 <= s.date.month, s.date.month + 1 < t.date.month, t.date.month <= 11,
           NEW u, u = TransitionAt(s, y), NEW v, v = TransitionAt(t, y)
    PROVE  /\ u \in Int /\ v \in Int
           /\ StartOf(y) + 40320 <= u /\ u + 40320 <= v
           /\ v + 40320 <= StartOf(y) + DaysInYear(y) * MINUTES_PER_DAY
<1>1. PICK m \in 1..12 : m = s.date.month
  BY DEF IsTransition, IsRule
<1>2. PICK k \in 1..12 : k = t.date.month
  BY DEF IsTransition, IsRule
<1>3. y \in Years
  BY RuleYearsAre
<1>4. PICK a \in Int : a = StartOf(y)
  BY <1>3, YearsAre DEF StartOf, MINUTES_PER_DAY
<1>5. PICK b \in Int : b = DaysBeforeMonth(y, m) /\ 28 <= b
  <2>1. PICK b \in Int : b = DaysBeforeMonth(y, m)
    BY <1>3, MonthsAre
  <2>2. PICK c \in Int : c = DaysBeforeMonth(y, 1) /\ 0 <= c
    BY <1>3, MonthsAre
  <2>3. PICK d \in Int : d = DaysOfMonth(y, 1) /\ 28 <= d
    BY <1>3, MonthsAre
  <2>4. c + d <= b
    BY <1>1, <1>3, <2>1, <2>2, <2>3, MonthsInOrder
  <2>5. QED
    BY <2>1, <2>2, <2>3, <2>4
<1>6. PICK c \in Int : c = DaysOfMonth(y, m)
  BY <1>3, MonthsAre
<1>7. PICK d \in Int : d = DaysBeforeMonth(y, k) /\ b + c + 28 <= d
  <2>1. PICK j \in 1..12 : j = m + 1
    BY <1>1, <1>2
  <2>2. m < j /\ j < k
    BY <1>1, <1>2, <2>1
  <2>3. PICK d \in Int : d = DaysBeforeMonth(y, k)
    BY <1>3, MonthsAre
  <2>4. PICK e \in Int : e = DaysBeforeMonth(y, j)
    BY <1>3, MonthsAre
  <2>5. PICK f \in Int : f = DaysOfMonth(y, j) /\ 28 <= f
    BY <1>3, MonthsAre
  <2>6. b + c <= e
    BY <1>3, <1>5, <1>6, <2>2, <2>4, MonthsInOrder
  <2>7. e + f <= d
    BY <1>3, <2>2, <2>3, <2>4, <2>5, MonthsInOrder
  <2>8. QED
    BY <2>3, <2>5, <2>6, <2>7
<1>8. PICK e \in Int : e = DaysOfMonth(y, k)
  BY <1>3, MonthsAre
<1>9. PICK l \in Int : l = DaysInYear(y) /\ d + e + 28 <= l
  <2>1. PICK l \in Int : l = DaysInYear(y)
    BY <1>3, YearsAre
  <2>2. PICK f \in Int : f = DaysBeforeMonth(y, 12)
    BY <1>3, MonthsAre
  <2>3. PICK g \in Int : g = DaysOfMonth(y, 12) /\ 28 <= g /\ f + g <= l
    BY <1>3, <2>1, <2>2, MonthsAre
  <2>4. k < 12
    BY <1>2
  <2>5. d + e <= f
    BY <1>3, <1>7, <1>8, <2>2, <2>4, MonthsInOrder
  <2>6. QED
    BY <2>1, <2>3, <2>5
<1>10. PICK i \in Int : i = u /\ a + b * 1440 <= i /\ i < a + b * 1440 + c * 1440
  BY <1>1, <1>4, <1>5, <1>6, TransitionIsInItsMonth DEF MonthStart, MonthEnd, MINUTES_PER_DAY
<1>11. PICK j \in Int : j = v /\ a + d * 1440 <= j /\ j < a + d * 1440 + e * 1440
  BY <1>2, <1>4, <1>7, <1>8, TransitionIsInItsMonth DEF MonthStart, MonthEnd, MINUTES_PER_DAY
<1>12. a + 40320 <= i
  BY <1>5, <1>10
<1>13. i + 40320 <= j
  BY <1>7, <1>10, <1>11
<1>14. j + 40320 <= a + l * 1440
  BY <1>9, <1>11
<1>15. QED
  BY <1>4, <1>9, <1>10, <1>11, <1>12, <1>13, <1>14 DEF MINUTES_PER_DAY

-----------------------------------------------------------------------------
\* A zone by the year: the early and the late transition and the bias behind each.
Offsets == -1440 .. 1440

AreApart(e, l, y) ==
    /\ e \in Int /\ l \in Int
    /\ StartOf(y) + 40320 <= e /\ e + 40320 <= l
    /\ l + 40320 <= StartOf(y) + DaysInYear(y) * MINUTES_PER_DAY

AreTransitions(zone, e, l, between, outOf, y) ==
    /\ Transitions(zone)[y] = [early |-> e, late |-> l, between |-> between, outOf |-> outOf]
    /\ \/ /\ TransitionAt(zone.dst, y) = e /\ zone.dst.bias = between
          /\ TransitionAt(zone.std, y) = l /\ zone.std.bias = outOf
       \/ /\ TransitionAt(zone.std, y) = e /\ zone.std.bias = between
          /\ TransitionAt(zone.dst, y) = l /\ zone.dst.bias = outOf

IsYearly(zone, early, late, between, outOf) ==
    /\ between \in Offsets /\ outOf \in Offsets
    /\ \A y \in RuleYears : /\ AreApart(early[y], late[y], y)
                           /\ AreTransitions(zone, early[y], late[y], between, outOf, y)

\* The months of the transitions have one between them and one before and behind.
MonthsApart(zone) ==
    LET dst == zone.dst.date.month
        std == zone.std.date.month
    IN  /\ {dst, std} \subseteq 2 .. 11
        /\ dst + 1 < std \/ std + 1 < dst

EarlyOf(zone) == [y \in RuleYears |-> Transitions(zone)[y].early]
LateOf(zone) == [y \in RuleYears |-> Transitions(zone)[y].late]

LEMMA ZoneIsYearly ==
    ASSUME NEW zone, IsZone(zone), zone.useDst, MonthsApart(zone),
           NEW early, early = EarlyOf(zone), NEW late, late = LateOf(zone),
           NEW between, between = IF zone.dst.date.month < zone.std.date.month
                                  THEN zone.dst.bias ELSE zone.std.bias,
           NEW outOf, outOf = IF zone.dst.date.month < zone.std.date.month
                              THEN zone.std.bias ELSE zone.dst.bias
    PROVE  IsYearly(zone, early, late, between, outOf)
<1>1. PICK dst : dst = zone.dst
  OBVIOUS
<1>2. PICK std : std = zone.std
  OBVIOUS
<1>3. IsTransition(dst) /\ IsTransition(std)
  BY <1>1, <1>2 DEF IsZone
<1>4. PICK m \in 1..12 : m = dst.date.month
  BY <1>3 DEF IsTransition, IsRule
<1>5. PICK k \in 1..12 : k = std.date.month
  BY <1>3 DEF IsTransition, IsRule
<1>6. 2 <= m /\ m <= 11 /\ 2 <= k /\ k <= 11 /\ (m + 1 < k \/ k + 1 < m)
  BY <1>1, <1>2, <1>4, <1>5 DEF MonthsApart
<1>7. dst.bias \in Offsets /\ std.bias \in Offsets
  BY <1>3 DEF IsTransition, IsBias, MINUTES_PER_DAY, Offsets
<1>8. between \in Offsets /\ outOf \in Offsets
  BY <1>1, <1>2, <1>7
<1>9. ASSUME NEW y \in RuleYears
      PROVE  /\ AreApart(early[y], late[y], y)
             /\ AreTransitions(zone, early[y], late[y], between, outOf, y)
  <2>1. PICK u : u = TransitionAt(dst, y)
    OBVIOUS
  <2>2. PICK v : v = TransitionAt(std, y)
    OBVIOUS
  <2>3. y \in Years
    BY RuleYearsAre
  <2>4. Transitions(zone)[y] =
          IF u < v THEN [early |-> u, late |-> v, between |-> dst.bias, outOf |-> std.bias]
                   ELSE [early |-> v, late |-> u, between |-> std.bias, outOf |-> dst.bias]
    BY <1>1, <1>2, <2>1, <2>2, <2>3 DEF Transitions
  <2>5. CASE m + 1 < k
    <3>1. /\ u \in Int /\ v \in Int
          /\ StartOf(y) + 40320 <= u /\ u + 40320 <= v
          /\ v + 40320 <= StartOf(y) + DaysInYear(y) * MINUTES_PER_DAY
      BY <1>3, <1>4, <1>5, <1>6, <2>1, <2>2, <2>5, TransitionsApart
    <3>2. u < v
      BY <3>1
    <3>3. Transitions(zone)[y] = [early |-> u, late |-> v, between |-> dst.bias, outOf |-> std.bias]
      BY <2>4, <3>2
    <3>4. between = dst.bias /\ outOf = std.bias
      BY <1>1, <1>2, <1>4, <1>5, <2>5
    <3>5. early[y] = u /\ late[y] = v
      BY <3>3 DEF EarlyOf, LateOf
    <3>6. QED
      BY <1>1, <1>2, <2>1, <2>2, <3>1, <3>3, <3>4, <3>5 DEF AreApart, AreTransitions
  <2>6. CASE k + 1 < m
    <3>1. /\ u \in Int /\ v \in Int
          /\ StartOf(y) + 40320 <= v /\ v + 40320 <= u
          /\ u + 40320 <= StartOf(y) + DaysInYear(y) * MINUTES_PER_DAY
      BY <1>3, <1>4, <1>5, <1>6, <2>1, <2>2, <2>6, TransitionsApart
    <3>2. ~(u < v)
      BY <3>1
    <3>3. Transitions(zone)[y] = [early |-> v, late |-> u, between |-> std.bias, outOf |-> dst.bias]
      BY <2>4, <3>2
    <3>4. between = std.bias /\ outOf = dst.bias
      BY <1>1, <1>2, <1>4, <1>5, <2>6
    <3>5. early[y] = v /\ late[y] = u
      BY <3>3 DEF EarlyOf, LateOf
    <3>6. QED
      BY <1>1, <1>2, <2>1, <2>2, <3>1, <3>3, <3>4, <3>5 DEF AreApart, AreTransitions
  <2>7. QED
    BY <1>6, <2>5, <2>6
<1>10. QED
  BY <1>8, <1>9 DEF IsYearly

\* The year that a moment is in, of the years of the calendar.
IsIn(x, y) == StartOf(y) <= x /\ x < StartOf(y) + DaysInYear(y) * MINUTES_PER_DAY

IsNearYear(x, y) ==
    StartOf(y) - 10000 <= x /\ x < StartOf(y) + DaysInYear(y) * MINUTES_PER_DAY + 10000

IsBetween(x, early, late, y, p, q) == early[y] + p <= x /\ x < late[y] + q

SameBetween(x, early, late, y, z, p, q) ==
    IsBetween(x, early, late, z, p, q) <=> IsBetween(x, early, late, y, p, q)

\* Whether a moment is between the transitions of its year does not depend on
\* the year whose transitions are looked at, as long as it is near that year.
LEMMA BetweenTransitions ==
    ASSUME NEW zone, NEW early, NEW late, NEW between, NEW outOf,
           IsYearly(zone, early, late, between, outOf),
           NEW x \in Int, NEW y \in RuleYears, NEW z \in RuleYears, IsIn(x, z),
           IsNearYear(x, y),
           NEW p \in Offsets, NEW q \in Offsets
    PROVE  SameBetween(x, early, late, y, z, p, q)
<1>1. CASE y = z
  BY <1>1 DEF SameBetween
<1>2. ASSUME NEW w \in RuleYears
      PROVE  /\ \E i \in Int : i = StartOf(w)
             /\ \E i \in Int : i = StartOf(w) + DaysInYear(w) * MINUTES_PER_DAY
             /\ \E i \in Int : i = early[w]
             /\ \E i \in Int : i = late[w]
  <2>1. w \in Years
    BY RuleYearsAre
  <2>2. PICK a \in Int : a = DaysBeforeYear(w)
    BY <2>1, YearsAre
  <2>3. PICK l \in Int : l = DaysInYear(w)
    BY <2>1, YearsAre
  <2>4. early[w] \in Int /\ late[w] \in Int
    BY DEF IsYearly, AreApart
  <2>5. QED
    BY <2>2, <2>3, <2>4 DEF StartOf, MINUTES_PER_DAY
<1>3. PICK a \in Int : a = StartOf(y)
  BY <1>2
<1>4. PICK b \in Int : b = StartOf(y) + DaysInYear(y) * MINUTES_PER_DAY
  BY <1>2
<1>5. PICK c \in Int : c = StartOf(z)
  BY <1>2
<1>6. PICK d \in Int : d = StartOf(z) + DaysInYear(z) * MINUTES_PER_DAY
  BY <1>2
<1>7. PICK e \in Int : e = early[y]
  BY <1>2
<1>8. PICK f \in Int : f = late[y]
  BY <1>2
<1>9. PICK g \in Int : g = early[z]
  BY <1>2
<1>10. PICK h \in Int : h = late[z]
  BY <1>2
<1>11. a + 40320 <= e /\ e + 40320 <= f /\ f + 40320 <= b
  BY <1>3, <1>4, <1>7, <1>8 DEF IsYearly, AreApart
<1>12. c + 40320 <= g /\ g + 40320 <= h /\ h + 40320 <= d
  BY <1>5, <1>6, <1>9, <1>10 DEF IsYearly, AreApart
<1>13. c <= x /\ x < d /\ a - 10000 <= x /\ x < b + 10000
  BY <1>3, <1>4, <1>5, <1>6 DEF IsIn, IsNearYear
<1>14. CASE y < z
  <2>1. b <= c
    BY <1>4, <1>5, <1>14, YearsInOrder
  <2>2. ~(g + p <= x)
    BY <1>12, <1>13, <2>1 DEF Offsets
  <2>3. ~(x < f + q)
    BY <1>11, <1>13, <2>1 DEF Offsets
  <2>4. QED
    BY <1>8, <1>9, <2>2, <2>3 DEF SameBetween, IsBetween
<1>15. CASE z < y
  <2>1. d <= a
    BY <1>3, <1>6, <1>15, YearsInOrder
  <2>2. ~(e + p <= x)
    BY <1>11, <1>13, <2>1 DEF Offsets
  <2>3. ~(x < h + q)
    BY <1>12, <1>13, <2>1 DEF Offsets
  <2>4. QED
    BY <1>7, <1>10, <2>2, <2>3 DEF SameBetween, IsBetween
<1>16. QED
  BY <1>1, <1>14, <1>15 DEF RuleYears


\* The years of a moment whose clock is looked at.
ClockYears == 1973 .. 2096

\* A moment of a known date that is near a year.
IsMoment(x, y) ==
    /\ IsNearYear(x, y)
    /\ \E z \in RuleYears : IsIn(x, z) /\ DateTimeAt(x).date.year = z

LEMMA IsNear ==
    ASSUME NEW x \in Int, NEW y \in ClockYears, y = YearOf(x \div MINUTES_PER_DAY),
           NEW v \in Int, x - 5000 <= v, v <= x + 5000
    PROVE  IsMoment(v, y) /\ IsIn(x, y)
<1>1. PICK n \in Int : n = x \div MINUTES_PER_DAY
  BY DEF MINUTES_PER_DAY
<1>2. n * 1440 <= x /\ x < n * 1440 + 1440
  BY <1>1 DEF MINUTES_PER_DAY
<1>3. PICK k \in Int : k = (4 * (n + 365) + 3) \div 1461
  BY <1>1
<1>4. 1461 * k <= 4 * n + 1463 /\ 4 * n + 1463 < 1461 * k + 1461
  BY <1>1, <1>3
<1>5. y = 1969 + k
  BY <1>1, <1>3 DEF YearOf
<1>6. 4 <= k /\ k <= 127
  BY <1>5 DEF ClockYears
<1>7. 1096 <= n /\ n <= 46386
  BY <1>4, <1>6
<1>8. PICK m \in Int : m = v \div MINUTES_PER_DAY
  BY DEF MINUTES_PER_DAY
<1>9. m * 1440 <= v /\ v < m * 1440 + 1440
  BY <1>8 DEF MINUTES_PER_DAY
<1>10. n - 5 <= m /\ m <= n + 5
  BY <1>2, <1>9
<1>11. 1091 <= m /\ m <= 46391
  BY <1>7, <1>10
<1>12. PICK z : z = YearOf(v \div MINUTES_PER_DAY)
  OBVIOUS
<1>13. IsDay(n) /\ IsDay(m)
  BY <1>7, <1>11 DEF IsDay
<1>14. PICK j \in Int : j = (4 * (m + 365) + 3) \div 1461
  BY <1>8
<1>15. 1461 * j <= 4 * m + 1463 /\ 4 * m + 1463 < 1461 * j + 1461
  BY <1>8, <1>14
<1>16. 3 <= j /\ j <= 128
  BY <1>11, <1>15
<1>17. z = 1969 + j
  BY <1>8, <1>12, <1>14 DEF YearOf
<1>18. z \in RuleYears
  BY <1>16, <1>17 DEF RuleYears
<1>19. IsIn(v, z) /\ DateTimeAt(v).date.year = z
  BY <1>8, <1>12, <1>13, YearOfMoment DEF IsIn
<1>20. IsIn(x, y)
  BY <1>1, <1>13, YearOfMoment DEF IsIn
<1>21. IsNearYear(v, y)
  <2>1. y \in Years
    BY DEF Years, ClockYears
  <2>2. PICK a \in Int : a = DaysBeforeYear(y)
    BY <2>1, YearsAre
  <2>3. PICK l \in Int : l = DaysInYear(y)
    BY <2>1, YearsAre
  <2>4. a * 1440 <= x /\ x < a * 1440 + l * 1440
    BY <1>20, <2>2, <2>3 DEF IsIn, StartOf, MINUTES_PER_DAY
  <2>5. a * 1440 - 10000 <= v /\ v < a * 1440 + l * 1440 + 10000
    BY <2>4
  <2>6. QED
    BY <2>2, <2>3, <2>5 DEF IsNearYear, StartOf, MINUTES_PER_DAY
<1>22. QED
  BY <1>18, <1>19, <1>20, <1>21 DEF IsMoment

\* The two conversions by the transitions of one year.
BiasAt(x, e, l, between, outOf) ==
    IF e + outOf <= x /\ x < l + between THEN between ELSE outOf

LocalAt(x, e, l, between, outOf) == x - BiasAt(x, e, l, between, outOf)

UtcAt(v, e, l, between, outOf) == v + (IF e <= v /\ v < l THEN between ELSE outOf)

LEMMA GetLocalIs ==
    ASSUME NEW zone, NEW early, NEW late, NEW between, NEW outOf,
           IsYearly(zone, early, late, between, outOf), zone.useDst,
           NEW x \in Int, NEW y \in RuleYears, IsMoment(x, y),
           NEW utc \in Int, NEW b \in Int, b = zone.bias, x = utc - b
    PROVE  GetLocal(zone, utc) = LocalAt(x, early[y], late[y], between, outOf)
<1>1. PICK z \in RuleYears : IsIn(x, z) /\ DateTimeAt(x).date.year = z
  BY DEF IsMoment
<1>2. PICK t : t = Transitions(zone)[z]
  OBVIOUS
<1>3. PICK e \in Int : e = early[z]
  BY DEF IsYearly, AreApart
<1>4. PICK l \in Int : l = late[z]
  BY DEF IsYearly, AreApart
<1>5. t = [early |-> e, late |-> l, between |-> between, outOf |-> outOf]
  <2>1. AreTransitions(zone, early[z], late[z], between, outOf, z)
    BY DEF IsYearly
  <2>2. QED
    BY <1>2, <1>3, <1>4, <2>1 DEF AreTransitions
<1>6. between \in Offsets /\ outOf \in Offsets
  BY DEF IsYearly
<1>7. t.early + zone.bias + t.outOf <= utc <=> e + outOf <= x
  BY <1>5, <1>6 DEF Offsets
<1>8. utc < t.late + zone.bias + t.between <=> x < l + between
  BY <1>5, <1>6 DEF Offsets
<1>9. e + outOf <= x /\ x < l + between <=> early[y] + outOf <= x /\ x < late[y] + between
  <2>1. IsNearYear(x, y)
    BY DEF IsMoment
  <2>2. SameBetween(x, early, late, y, z, outOf, between)
    BY <1>1, <1>6, <2>1, BetweenTransitions
  <2>3. QED
    BY <1>3, <1>4, <2>2 DEF SameBetween, IsBetween
<1>10. t.between = between /\ t.outOf = outOf
  BY <1>5 DEF ClockYears
<1>11. t = Transitions(zone)[DateTimeAt(utc - zone.bias).date.year]
  BY <1>1, <1>2
<1>12. GetLocal(zone, utc) =
         utc - zone.bias - (IF t.early + zone.bias + t.outOf <= utc
                               /\ utc < t.late + zone.bias + t.between THEN t.between ELSE t.outOf)
  BY <1>11 DEF GetLocal
<1>13. GetLocal(zone, utc) =
         x - (IF early[y] + outOf <= x /\ x < late[y] + between THEN between ELSE outOf)
  BY <1>7, <1>8, <1>9, <1>10, <1>12
<1>14. QED
  BY <1>13 DEF LocalAt, BiasAt

LEMMA GetUtcIs ==
    ASSUME NEW zone, NEW early, NEW late, NEW between, NEW outOf,
           IsYearly(zone, early, late, between, outOf), zone.useDst,
           NEW v \in Int, NEW y \in RuleYears, IsMoment(v, y), NEW b \in Int, b = zone.bias
    PROVE  GetUtc(zone, v) = UtcAt(v, early[y], late[y], between, outOf) + b
<1>1. PICK z \in RuleYears : IsIn(v, z) /\ DateTimeAt(v).date.year = z
  BY DEF IsMoment
<1>2. PICK t : t = Transitions(zone)[z]
  OBVIOUS
<1>3. PICK e \in Int : e = early[z]
  BY DEF IsYearly, AreApart
<1>4. PICK l \in Int : l = late[z]
  BY DEF IsYearly, AreApart
<1>5. t = [early |-> e, late |-> l, between |-> between, outOf |-> outOf]
  <2>1. AreTransitions(zone, early[z], late[z], between, outOf, z)
    BY DEF IsYearly
  <2>2. QED
    BY <1>2, <1>3, <1>4, <2>1 DEF AreTransitions
<1>6. between \in Offsets /\ outOf \in Offsets
  BY DEF IsYearly
<1>7. e <= v /\ v < l <=> early[y] <= v /\ v < late[y]
  <2>1. SameBetween(v, early, late, y, z, 0, 0)
    <3>1. IsNearYear(v, y)
      BY DEF IsMoment
    <3>2. PICK none \in Offsets : none = 0
      BY DEF Offsets
    <3>3. SameBetween(v, early, late, y, z, none, none)
      BY <1>1, <3>1, BetweenTransitions
    <3>4. QED
      BY <3>2, <3>3
  <2>2. PICK f \in Int : f = early[y]
    BY DEF IsYearly, AreApart
  <2>3. PICK g \in Int : g = late[y]
    BY DEF IsYearly, AreApart
  <2>4. QED
    BY <1>3, <1>4, <2>1, <2>2, <2>3 DEF SameBetween, IsBetween
<1>8. t.between = between /\ t.outOf = outOf /\ t.early = e /\ t.late = l
  BY <1>5 DEF ClockYears
<1>9. t = Transitions(zone)[DateTimeAt(v).date.year]
  BY <1>1, <1>2
<1>10. GetUtc(zone, v) = v + zone.bias + (IF t.early <= v /\ v < t.late THEN t.between ELSE t.outOf)
  BY <1>9 DEF GetUtc
<1>11. GetUtc(zone, v) = v + b + (IF early[y] <= v /\ v < late[y] THEN between ELSE outOf)
  BY <1>7, <1>8, <1>10
<1>12. PICK bias \in Int : bias = IF early[y] <= v /\ v < late[y] THEN between ELSE outOf
  <2>1. between \in Int /\ outOf \in Int
    BY <1>6 DEF Offsets
  <2>2. CASE early[y] <= v /\ v < late[y]
    BY <2>1, <2>2, Zenon
  <2>3. CASE ~(early[y] <= v /\ v < late[y])
    BY <2>1, <2>3, Zenon
  <2>4. QED
    BY <2>2, <2>3
<1>13. UtcAt(v, early[y], late[y], between, outOf) = v + bias
  BY <1>12 DEF UtcAt
<1>14. QED
  BY <1>11, <1>12, <1>13

\* A reading of the clock that is converted to UTC and back is the same reading.
LEMMA ReadingsComeBack ==
    ASSUME NEW x \in Int, NEW e \in Int, NEW l \in Int, e + 40320 <= l,
           NEW between \in Offsets, NEW outOf \in Offsets,
           NEW v, v = LocalAt(x, e, l, between, outOf),
           NEW u, u = UtcAt(v, e, l, between, outOf)
    PROVE  /\ v \in Int /\ x - 1440 <= v /\ v <= x + 1440
           /\ u \in Int /\ x - 2880 <= u /\ u <= x + 2880
           /\ LocalAt(u, e, l, between, outOf) = v
<1>1. CASE e + outOf <= x /\ x < l + between
  <2>1. v = x - between
    BY <1>1 DEF LocalAt, BiasAt, Offsets
  <2>2. CASE e <= v /\ v < l
    <3>1. u = v + between
      BY <2>2 DEF UtcAt
    <3>2. e + outOf <= u /\ u < l + between
      BY <1>1, <2>1, <3>1 DEF Offsets
    <3>3. QED
      BY <2>1, <3>1, <3>2 DEF LocalAt, BiasAt, Offsets
  <2>3. CASE ~(e <= v /\ v < l)
    <3>1. u = v + outOf
      BY <2>3 DEF UtcAt
    <3>2. ~(e + outOf <= u /\ u < l + between)
      BY <1>1, <2>1, <2>3, <3>1 DEF Offsets
    <3>3. QED
      BY <2>1, <3>1, <3>2 DEF LocalAt, BiasAt, Offsets
  <2>4. QED
    BY <2>2, <2>3
<1>2. CASE ~(e + outOf <= x /\ x < l + between)
  <2>1. v = x - outOf
    BY <1>2 DEF LocalAt, BiasAt, Offsets
  <2>2. CASE e <= v /\ v < l
    <3>1. u = v + between
      BY <2>2 DEF UtcAt
    <3>2. e + outOf <= u /\ u < l + between
      BY <1>2, <2>1, <2>2, <3>1 DEF Offsets
    <3>3. QED
      BY <2>1, <3>1, <3>2 DEF LocalAt, BiasAt, Offsets
  <2>3. CASE ~(e <= v /\ v < l)
    <3>1. u = v + outOf
      BY <2>3 DEF UtcAt
    <3>2. ~(e + outOf <= u /\ u < l + between)
      BY <1>2, <2>1, <2>3, <3>1 DEF Offsets
    <3>3. QED
      BY <2>1, <3>1, <3>2 DEF LocalAt, BiasAt, Offsets
  <2>4. QED
    BY <2>2, <2>3
<1>3. QED
  BY <1>1, <1>2


\* The changes of a clock are the early and the late ones of three years.
ChangeAt(at, bias) == [at |-> at, bias |-> bias]

IsChange(c, zone, early, late, between, outOf, year, b) ==
    c \in Changes(zone, year) <=>
        \E y \in year - 1 .. year + 1 : \/ c = ChangeAt(early[y] + b + outOf, between)
                                       \/ c = ChangeAt(late[y] + b + between, outOf)

LEMMA ChangesAre ==
    ASSUME NEW zone, NEW early, NEW late, NEW between, NEW outOf,
           IsYearly(zone, early, late, between, outOf),
           NEW year \in ClockYears, NEW b \in Int, b = zone.bias
    PROVE  \A c : IsChange(c, zone, early, late, between, outOf, year, b)
<1>1. ASSUME NEW y \in year - 1 .. year + 1
      PROVE  {[at |-> TransitionAt(zone.dst, y) + zone.bias + zone.std.bias,
               bias |-> zone.dst.bias],
              [at |-> TransitionAt(zone.std, y) + zone.bias + zone.dst.bias,
               bias |-> zone.std.bias]}
             = {ChangeAt(early[y] + b + outOf, between), ChangeAt(late[y] + b + between, outOf)}
  <2>1. y \in RuleYears
    BY DEF RuleYears, ClockYears
  <2>2. AreTransitions(zone, early[y], late[y], between, outOf, y)
    BY <2>1 DEF IsYearly
  <2>3. CASE /\ TransitionAt(zone.dst, y) = early[y] /\ zone.dst.bias = between
             /\ TransitionAt(zone.std, y) = late[y] /\ zone.std.bias = outOf
    <3>1. TransitionAt(zone.dst, y) + zone.bias + zone.std.bias
              = early[y] + b + outOf
      BY <2>3
    <3>2. TransitionAt(zone.std, y) + zone.bias + zone.dst.bias
              = late[y] + b + between
      BY <2>3
    <3>3. QED
      BY <2>3, <3>1, <3>2 DEF ChangeAt
  <2>4. CASE /\ TransitionAt(zone.std, y) = early[y] /\ zone.std.bias = between
             /\ TransitionAt(zone.dst, y) = late[y] /\ zone.dst.bias = outOf
    <3>1. TransitionAt(zone.dst, y) + zone.bias + zone.std.bias
              = late[y] + b + between
      BY <2>4
    <3>2. TransitionAt(zone.std, y) + zone.bias + zone.dst.bias
              = early[y] + b + outOf
      BY <2>4
    <3>3. QED
      BY <2>4, <3>1, <3>2 DEF ChangeAt
  <2>5. QED
    BY <2>2, <2>3, <2>4 DEF AreTransitions
<1>2. QED
  BY <1>1 DEF IsChange, Changes

IsInOrder(early, late, x, y) ==
    /\ early[y - 1] \in Int /\ late[y - 1] \in Int /\ early[y] \in Int
    /\ late[y] \in Int /\ early[y + 1] \in Int /\ late[y + 1] \in Int
    /\ early[y - 1] + 40320 <= late[y - 1] /\ late[y - 1] + 40320 <= x
    /\ late[y - 1] + 40320 <= early[y] /\ early[y] + 40320 <= late[y]
    /\ x + 40320 <= early[y + 1] /\ early[y + 1] + 40320 <= late[y + 1]

\* The years around one and their transitions follow one another.
LEMMA TransitionsInOrder ==
    ASSUME NEW zone, NEW early, NEW late, NEW between, NEW outOf,
           IsYearly(zone, early, late, between, outOf), NEW y \in ClockYears,
           NEW x \in Int, IsIn(x, y)
    PROVE  IsInOrder(early, late, x, y)
<1>1. PICK v \in RuleYears : v = y - 1
  BY DEF RuleYears, ClockYears
<1>2. PICK w \in RuleYears : w = y + 1
  BY DEF RuleYears, ClockYears
<1>3. y \in RuleYears /\ v < y /\ y < w
  BY <1>1, <1>2 DEF RuleYears, ClockYears
<1>4. ASSUME NEW n \in RuleYears
      PROVE  /\ AreApart(early[n], late[n], n)
             /\ \E i \in Int : i = StartOf(n)
             /\ \E i \in Int : i = StartOf(n) + DaysInYear(n) * MINUTES_PER_DAY
             /\ \E i \in Int : i = early[n]
             /\ \E i \in Int : i = late[n]
  <2>1. n \in Years
    BY RuleYearsAre
  <2>2. PICK a \in Int : a = DaysBeforeYear(n)
    BY <2>1, YearsAre
  <2>3. PICK l \in Int : l = DaysInYear(n)
    BY <2>1, YearsAre
  <2>4. AreApart(early[n], late[n], n)
    BY DEF IsYearly
  <2>5. early[n] \in Int /\ late[n] \in Int
    BY <2>4 DEF AreApart
  <2>6. QED
    BY <2>2, <2>3, <2>4, <2>5 DEF StartOf, MINUTES_PER_DAY
<1>5. PICK e \in Int : e = early[v]
  BY <1>4
<1>6. PICK f \in Int : f = late[v]
  BY <1>4
<1>7. PICK g \in Int : g = early[y]
  BY <1>3, <1>4
<1>8. PICK h \in Int : h = late[y]
  BY <1>3, <1>4
<1>9. PICK i \in Int : i = early[w]
  BY <1>4
<1>10. PICK j \in Int : j = late[w]
  BY <1>4
<1>11. PICK a \in Int : a = StartOf(y)
  BY <1>3, <1>4
<1>12. PICK c \in Int : c = StartOf(y) + DaysInYear(y) * MINUTES_PER_DAY
  BY <1>3, <1>4
<1>13. PICK d \in Int : d = StartOf(v) + DaysInYear(v) * MINUTES_PER_DAY
  BY <1>4
<1>14. PICK k \in Int : k = StartOf(w)
  BY <1>4
<1>15. e + 40320 <= f /\ f + 40320 <= d
  BY <1>4, <1>5, <1>6, <1>13 DEF AreApart
<1>16. a + 40320 <= g /\ g + 40320 <= h /\ h + 40320 <= c
  BY <1>3, <1>4, <1>7, <1>8, <1>11, <1>12 DEF AreApart
<1>17. k + 40320 <= i /\ i + 40320 <= j
  BY <1>4, <1>9, <1>10, <1>14 DEF AreApart
<1>18. d <= a
  BY <1>3, <1>11, <1>13, YearsInOrder
<1>19. c <= k
  BY <1>3, <1>12, <1>14, YearsInOrder
<1>20. a <= x /\ x < c
  BY <1>11, <1>12 DEF IsIn
<1>21. /\ e + 40320 <= f /\ f + 40320 <= x /\ f + 40320 <= g /\ g + 40320 <= h
       /\ x + 40320 <= i /\ i + 40320 <= j
  BY <1>15, <1>16, <1>17, <1>18, <1>19, <1>20
<1>22. QED
  BY <1>1, <1>2, <1>5, <1>6, <1>7, <1>8, <1>9, <1>10, <1>21 DEF IsInOrder

Past(zone, year, utc) == {c \in Changes(zone, year) : c.at <= utc}

Latest(past) == CHOOSE c \in past : \A d \in past : d.at <= c.at

LEMMA ThreeYears ==
    ASSUME NEW n \in Int
    PROVE  n - 1 .. n + 1 = {n - 1, n, n + 1}
<1>1. PICK k \in Int : k = n - 1
  OBVIOUS
<1>2. ASSUME NEW i
      PROVE  i \in k .. k + 2 <=> i = k \/ i = k + 1 \/ i = k + 2
  BY <1>1
<1>3. k .. k + 2 = {k, k + 1, k + 2}
  BY <1>2
<1>4. n - 1 = k /\ n = k + 1 /\ n + 1 = k + 2
  BY <1>1
<1>5. QED
  BY <1>3, <1>4

\* The last change before a moment says what its year says.
LEMMA LatestIs ==
    ASSUME NEW zone, NEW early, NEW late, NEW between, NEW outOf,
           IsYearly(zone, early, late, between, outOf),
           NEW year \in ClockYears, NEW utc \in Int, IsIn(utc, year),
           NEW b \in Int, b = zone.bias, b \in Offsets, NEW x \in Int, x = utc - b,
           NEW past, past = Past(zone, year, utc),
           NEW latest, latest = Latest(past)
    PROVE  latest.bias = BiasAt(x, early[year], late[year], between, outOf)
<1>1. between \in Offsets /\ outOf \in Offsets /\ b \in Int /\ between \in Int /\ outOf \in Int
  <2>1. between \in Offsets /\ outOf \in Offsets
    BY DEF IsYearly
  <2>2. QED
    BY <2>1 DEF Offsets
<1>23. /\ -1440 <= b /\ b <= 1440
       /\ -1440 <= between /\ between <= 1440 /\ -1440 <= outOf /\ outOf <= 1440
  <2>1. ASSUME NEW o \in Offsets PROVE -1440 <= o /\ o <= 1440
    BY DEF Offsets
  <2>2. QED
    BY <1>1, <2>1
<1>0. IsInOrder(early, late, utc, year)
  BY TransitionsInOrder
<1>2. PICK e \in Int : e = early[year - 1]
  BY <1>0 DEF IsInOrder
<1>3. PICK f \in Int : f = late[year - 1]
  BY <1>0 DEF IsInOrder
<1>4. PICK g \in Int : g = early[year]
  BY <1>0 DEF IsInOrder
<1>5. PICK h \in Int : h = late[year]
  BY <1>0 DEF IsInOrder
<1>6. PICK i \in Int : i = early[year + 1]
  BY <1>0 DEF IsInOrder
<1>7. PICK j \in Int : j = late[year + 1]
  BY <1>0 DEF IsInOrder
<1>8. /\ e + 40320 <= f /\ f + 40320 <= utc /\ f + 40320 <= g /\ g + 40320 <= h
      /\ utc + 40320 <= i /\ i + 40320 <= j
  BY <1>2, <1>3, <1>4, <1>5, <1>6, <1>7, <1>0 DEF IsInOrder
<1>9. ASSUME NEW c
      PROVE  c \in Changes(zone, year) <=>
                 c \in {ChangeAt(e + b + outOf, between), ChangeAt(f + b + between, outOf),
                       ChangeAt(g + b + outOf, between), ChangeAt(h + b + between, outOf),
                       ChangeAt(i + b + outOf, between), ChangeAt(j + b + between, outOf)}
  <2>1. IsChange(c, zone, early, late, between, outOf, year, b)
    BY <1>1, ChangesAre
  <2>2. year - 1 .. year + 1 = {year - 1, year, year + 1}
    <3>1. year \in Int
      BY DEF ClockYears
    <3>2. QED
      BY <3>1, ThreeYears
  <2>3. QED
    BY <1>2, <1>3, <1>4, <1>5, <1>6, <1>7, <2>1, <2>2 DEF IsChange
<1>10. ASSUME NEW at \in Int, NEW bias
       PROVE  ChangeAt(at, bias).at = at /\ ChangeAt(at, bias).bias = bias
  BY DEF ChangeAt
<1>11. PICK at \in Int : at = IF g + outOf <= utc - b
                              THEN IF utc - b < h + between THEN g + b + outOf ELSE h + b + between
                              ELSE f + b + between
  BY <1>1
<1>12. PICK bias : bias = IF g + outOf <= utc - b /\ utc - b < h + between THEN between ELSE outOf
  OBVIOUS
<1>13. PICK last : last = ChangeAt(at, bias)
  OBVIOUS
<1>14. last \in past
  <2>1. last \in Changes(zone, year)
    BY <1>1, <1>9, <1>11, <1>12, <1>13
  <2>2. last.at = at
    BY <1>10, <1>13
  <2>4. at <= utc
    BY <1>1, <1>8, <1>11, <1>23
  <2>3. QED
    BY <2>1, <2>2, <2>4 DEF Past
<1>15. ASSUME NEW c \in past
       PROVE  c.at \in Int /\ (c = last \/ c.at < at)
  <2>1. c \in Changes(zone, year) /\ c.at <= utc
    BY DEF Past
  <2>2. CASE c = ChangeAt(e + b + outOf, between)
    BY <1>1, <1>8, <1>10, <1>11, <2>2 DEF Offsets
  <2>3. CASE c = ChangeAt(f + b + between, outOf)
    BY <1>1, <1>8, <1>10, <1>11, <1>12, <1>13, <2>3 DEF Offsets
  <2>4. CASE c = ChangeAt(g + b + outOf, between)
    BY <1>1, <1>8, <1>10, <1>11, <1>12, <1>13, <2>1, <2>4 DEF Offsets
  <2>5. CASE c = ChangeAt(h + b + between, outOf)
    BY <1>1, <1>8, <1>10, <1>11, <1>12, <1>13, <2>1, <2>5 DEF Offsets
  <2>6. CASE c = ChangeAt(i + b + outOf, between)
    <3>1. c.at = i + b + outOf
      BY <1>1, <1>10, <2>6
    <3>2. utc < i + b + outOf
      BY <1>1, <1>8, <1>23
    <3>3. QED
      BY <1>1, <2>1, <3>1, <3>2
  <2>7. CASE c = ChangeAt(j + b + between, outOf)
    <3>1. c.at = j + b + between
      BY <1>1, <1>10, <2>7
    <3>2. utc < j + b + between
      BY <1>1, <1>8, <1>23
    <3>3. QED
      BY <1>1, <2>1, <3>1, <3>2
  <2>8. QED
    BY <1>9, <2>1, <2>2, <2>3, <2>4, <2>5, <2>6, <2>7
<1>16. last.at = at /\ last.bias = bias
  BY <1>10, <1>13
<1>17. \A d \in past : d.at <= last.at
  BY <1>15, <1>16
<1>18. latest \in past /\ \A d \in past : d.at <= latest.at
  BY <1>14, <1>17 DEF Latest
<1>19. at <= latest.at
  BY <1>14, <1>16, <1>18
<1>20. latest = last
  BY <1>15, <1>18, <1>19
<1>21. latest.bias = bias
  BY <1>16, <1>20
<1>22. QED
  BY <1>4, <1>5, <1>12, <1>21 DEF BiasAt


\* The clock shows what the last change says and its reading comes back.
LEMMA ClockIsRight ==
    ASSUME NEW zone, IsZone(zone), zone.useDst => MonthsApart(zone),
           NEW utc \in Int, NEW year \in ClockYears, year = YearOf(utc \div MINUTES_PER_DAY),
           NEW local, local = GetLocal(zone, utc),
           NEW past, past = Past(zone, year, utc),
           NEW latest, latest = Latest(past)
    PROVE  /\ local = utc - zone.bias - (IF zone.useDst THEN latest.bias ELSE 0)
           /\ GetLocal(zone, GetUtc(zone, local)) = local
<1>1. PICK b \in Offsets : b = zone.bias
  BY DEF IsZone, IsBias, MINUTES_PER_DAY, Offsets
<1>2. b \in Int /\ -1440 <= b /\ b <= 1440
  BY DEF Offsets
<1>3. CASE ~zone.useDst
  <2>1. local = utc - b
    BY <1>1, <1>3 DEF GetLocal
  <2>2. GetUtc(zone, local) = utc
    BY <1>1, <1>2, <1>3, <2>1 DEF GetUtc
  <2>3. GetLocal(zone, GetUtc(zone, local)) = local
    BY <2>2
  <2>4. local = utc - b - 0
    BY <1>2, <2>1
  <2>5. QED
    BY <1>1, <1>3, <2>3, <2>4
<1>4. CASE zone.useDst
  <2>1. PICK early : early = EarlyOf(zone)
    OBVIOUS
  <2>2. PICK late : late = LateOf(zone)
    OBVIOUS
  <2>3. PICK between : between = IF zone.dst.date.month < zone.std.date.month
                                 THEN zone.dst.bias ELSE zone.std.bias
    OBVIOUS
  <2>4. PICK outOf : outOf = IF zone.dst.date.month < zone.std.date.month
                             THEN zone.std.bias ELSE zone.dst.bias
    OBVIOUS
  <2>5. IsYearly(zone, early, late, between, outOf)
    BY <1>4, <2>1, <2>2, <2>3, <2>4, ZoneIsYearly
  <2>6. between \in Offsets /\ outOf \in Offsets
    BY <2>5 DEF IsYearly
  <2>7. year \in RuleYears
    BY DEF RuleYears, ClockYears
  <2>8. AreApart(early[year], late[year], year)
    BY <2>5, <2>7 DEF IsYearly
  <2>9. PICK e \in Int : e = early[year]
    BY <2>8 DEF AreApart
  <2>10. PICK l \in Int : l = late[year]
    BY <2>8 DEF AreApart
  <2>11. e + 40320 <= l
    BY <2>8, <2>9, <2>10 DEF AreApart
  <2>12. PICK x \in Int : x = utc - b
    BY <1>2
  <2>13. ASSUME NEW v \in Int, utc - 5000 <= v, v <= utc + 5000
         PROVE  IsMoment(v, year) /\ IsIn(utc, year)
    BY <2>13, IsNear
  <2>14. IsMoment(x, year)
    BY <1>2, <2>12, <2>13
  <2>15. IsIn(utc, year)
    BY <2>13
  <2>16. local = LocalAt(x, e, l, between, outOf)
    BY <1>1, <1>2, <1>4, <2>5, <2>7, <2>9, <2>10, <2>12, <2>14, GetLocalIs
  <2>17. PICK u : u = UtcAt(local, e, l, between, outOf)
    OBVIOUS
  <2>18. /\ local \in Int /\ x - 1440 <= local /\ local <= x + 1440
         /\ u \in Int /\ x - 2880 <= u /\ u <= x + 2880
         /\ LocalAt(u, e, l, between, outOf) = local
    BY <2>6, <2>11, <2>16, <2>17, ReadingsComeBack
  <2>19. IsMoment(local, year)
    BY <1>2, <2>12, <2>13, <2>18
  <2>20. IsMoment(u, year)
    BY <1>2, <2>12, <2>13, <2>18
  <2>21. PICK back \in Int : back = u + b
    BY <1>2, <2>18
  <2>22. GetUtc(zone, local) = back
    <3>1. GetUtc(zone, local) = UtcAt(local, early[year], late[year], between, outOf) + b
      BY <1>1, <1>2, <1>4, <2>5, <2>7, <2>18, <2>19, GetUtcIs
    <3>2. QED
      BY <2>9, <2>10, <2>17, <2>21, <3>1
  <2>23. GetLocal(zone, back) = local
    <3>1. u = back - b
      BY <1>2, <2>18, <2>21
    <3>2. GetLocal(zone, back) = LocalAt(u, early[year], late[year], between, outOf)
      BY <1>1, <1>2, <1>4, <2>5, <2>7, <2>18, <2>20, <3>1, GetLocalIs
    <3>3. QED
      BY <2>9, <2>10, <2>18, <3>2
  <2>24. latest.bias = BiasAt(x, early[year], late[year], between, outOf)
    BY <1>1, <1>2, <2>5, <2>12, <2>15, LatestIs
  <2>25. local = x - latest.bias
    BY <2>9, <2>10, <2>16, <2>24 DEF LocalAt
  <2>26. QED
    BY <1>1, <1>4, <2>12, <2>22, <2>23, <2>25
<1>5. zone.useDst \in BOOLEAN
  BY DEF IsZone
<1>6. QED
  BY <1>3, <1>4, <1>5

-----------------------------------------------------------------------------
(* The results of the calls.                                               *)

JoinResult(i) ==
    [joined |-> Concatenate(i.text, i.room, i.sub, i.asPath), normal |-> NormalizePath(i.sub)]

SizeResult(i) == [n \in 1..Len(NewStores(i)) |-> NewFields(i)[n]]

GrowthResult(i) == Grow(i.header, i.memory, i.size)

RuleResult(i) == GetDate(i.rule, i.year, i.month)

ClockResult(i) == [local |-> GetLocal(i.zone, i.utc)]

ClockAndBack(i) ==
    [local |-> GetLocal(i.zone, i.utc), utc |-> GetUtc(i.zone, GetLocal(i.zone, i.utc))]

CallInv ==
    /\ input.call = "Find" => input.of \in Ranges
    /\ Returned("Find") => output.value = FindResult(input.of)
    /\ input.call = "FindPath" => input.of \in Paths
    /\ Returned("FindPath") => output.value = PathResult(input.of)
    /\ input.call = "Join" => input.of \in Joins
    /\ Returned("Join") => output.value = JoinResult(input.of)
    /\ input.call = "SetSize" => input.of \in Sizes
    /\ Returned("SetSize") => output.value = SizeResult(input.of)
    /\ input.call = "Reinterpret" => input.of \in Growths
    /\ Returned("Reinterpret") => output.value = GrowthResult(input.of)
    /\ input.call = "Anniversary" => input.of \in Rules
    /\ Returned("Anniversary") => output.value = RuleResult(input.of)
    /\ input.call = "Clock" => input.of \in Clocks
    /\ Returned("Clock") => output.value \in {ClockResult(input.of), ClockAndBack(input.of)}

LEMMA CallsHold == Spec => []CallInv
<1>1. Init => CallInv
  BY DEF Init, CallInv, Returned, NoOutput
<1>2. CallInv /\ [Next]_vars => CallInv'
  <2> SUFFICES ASSUME CallInv, [Next]_vars PROVE CallInv'
    OBVIOUS
  <2>1. CASE CallFind
    BY <2>1 DEF CallFind, Return, CallInv, Returned, FindResult
  <2>2. CASE CallJoin
    BY <2>2 DEF CallJoin, Return, CallInv, Returned, JoinResult
  <2>3. CASE CallFindPath
    BY <2>3 DEF CallFindPath, Return, CallInv, Returned, PathResult
  <2>8. CASE CallSetSize
    BY <2>8 DEF CallSetSize, Return, CallInv, Returned, SizeResult, NewFields, NewStores,
                OldField, ZeroField
  <2>9. CASE CallReinterpret
    BY <2>9 DEF CallReinterpret, Return, CallInv, Returned, GrowthResult
  <2>10. CASE CallAnniversary
    BY <2>10 DEF CallAnniversary, Return, CallInv, Returned, RuleResult
  <2>4. CASE CallGetLocal
    BY <2>4 DEF CallGetLocal, Return, CallInv, Returned, ClockResult
  <2>5. CASE CallGetUtc
    <3>1. input.call = "Clock" /\ output.done /\ DOMAIN output.value = {"local"}
      BY <2>5 DEF CallGetUtc
    <3>2. output.value = ClockResult(input.of)
      <4>1. output.value \in {ClockResult(input.of), ClockAndBack(input.of)}
        BY <3>1 DEF CallInv, Returned
      <4>2. "utc" \in DOMAIN ClockAndBack(input.of)
        BY DEF ClockAndBack
      <4>3. QED
        BY <3>1, <4>1, <4>2
    <3>3. output.value.local = GetLocal(input.of.zone, input.of.utc)
      BY <3>2 DEF ClockResult
    <3>4. output'.value = ClockAndBack(input.of)
      BY <2>5, <3>3 DEF CallGetUtc, ClockAndBack
    <3>5. QED
      BY <2>5, <3>1, <3>4 DEF CallGetUtc, CallInv, Returned
  <2>6. CASE UNCHANGED vars
    BY <2>6 DEF vars, CallInv, Returned
  <2>7. QED
    BY <2>1, <2>4, <2>5, <2>6, <2>2, <2>3, <2>8, <2>9, <2>10 DEF Next
<1>3. QED
  BY <1>1, <1>2, PTL DEF Spec

\* Find and FindAll read what the range says, for every index, every pair of
\* bounds and all counts, with the unsigned arithmetic of the window.
THEOREM FindReturnsItsRangeThm == Spec => []FindReturnsItsRange
<1>1. CallInv => FindReturnsItsRange
  <2> SUFFICES ASSUME CallInv, Returned("Find") PROVE FindReturnsItsRange
    BY DEF FindReturnsItsRange
  <2>1. input.of \in Ranges /\ output.value = FindResult(input.of)
    BY DEF CallInv, Returned
  <2>2. IsFind(input.of)
    BY <2>1, RangesAssumption DEF IsFind, Text
  <2>3. QED
    BY <2>1, <2>2, FindIsRight DEF FindReturnsItsRange
<1>2. QED
  BY <1>1, CallsHold, PTL

\* No append writes behind the room of its text, whatever the texts and the room.
THEOREM PathAppendStaysInsideThm == Spec => []PathAppendStaysInside
<1>1. CallInv => PathAppendStaysInside
  <2> SUFFICES ASSUME CallInv, Returned("Join") PROVE PathAppendStaysInside
    BY DEF PathAppendStaysInside
  <2>1. input.of \in Joins /\ output.value = JoinResult(input.of)
    BY DEF CallInv, Returned
  <2>2. PICK i \in Joins : i = input.of
    BY <2>1
  <2>3. i.text \in Text /\ i.sub \in Text /\ i.sub # <<>> /\ i.room \in Nat /\ i.asPath \in BOOLEAN
    BY JoinsAssumption DEF Text
  <2>4. /\ \A end \in NormalizePath(i.sub).ends : end <= NormalizePath(i.sub).room
        /\ i.room > Len(i.text) + 2 =>
             Concatenate(i.text, i.room, i.sub, i.asPath).end <= i.room
    BY <2>3, PathAppendIsInside
  <2>5. /\ output.value.normal = NormalizePath(i.sub)
        /\ output.value.joined = Concatenate(i.text, i.room, i.sub, i.asPath)
    BY <2>1, <2>2 DEF JoinResult
  <2>6. QED
    BY <2>2, <2>4, <2>5 DEF PathAppendStaysInside
<1>2. QED
  BY <1>1, CallsHold, PTL

\* FindPath finds one level and the subtree, for every index and every path.
THEOREM FindPathReturnsTheLevelThm == Spec => []FindPathReturnsTheLevel
<1>1. CallInv => FindPathReturnsTheLevel
  <2> SUFFICES ASSUME CallInv, Returned("FindPath") PROVE FindPathReturnsTheLevel
    BY DEF FindPathReturnsTheLevel
  <2>1. PICK i \in Paths : i = input.of
    BY DEF CallInv, Returned
  <2>2. IsIndex(i.index) /\ Len(i.index) < Word \div 2
        /\ i.path \in Text /\ i.from \in Nat /\ i.desired \in Nat
    BY PathsAssumption DEF Text
  <2>3. PICK root \in Text : root = NormalizePath(i.path).text /\ Len(root) >= 1
    BY <2>2, NormalizeIs
  <2>4. PICK found : found = OneLevel(i.index, root, i.from, i.desired)
    OBVIOUS
  <2>5. PICK level : level = Taken(Children(i.index, root), i.from, i.desired)
    OBVIOUS
  <2>6. Len(found) = Cardinality(level) /\ Range(found) = KeysAt(i.index, level)
    BY <2>2, <2>3, <2>4, <2>5, OneLevelIsRight, Zenon
  <2>7. {n + 1 : n \in SlotsRead(Subtree(i.index, root, 0, 0))}
            = {n \in DOMAIN i.index : IsUnder(root, i.index[n])}
    BY <2>2, <2>3, SubtreeIsRight
  <2>8. /\ output.value.level = found
        /\ output.value.subtree = Subtree(i.index, root, i.from, i.desired)
    BY <2>1, <2>3, <2>4 DEF CallInv, PathResult
  <2>9. /\ Len(output.value.level) = Cardinality(level)
        /\ Range(output.value.level) = {i.index[n] : n \in level}
        /\ i.from = 0 /\ i.desired = 0 =>
              {n + 1 : n \in SlotsRead(output.value.subtree)}
                  = {n \in DOMAIN i.index : IsUnder(root, i.index[n])}
    BY <2>6, <2>7, <2>8 DEF KeysAt
  <2>10. QED
    BY <2>1, <2>3, <2>5, <2>9 DEF FindPathReturnsTheLevel, Children, Taken
<1>2. QED
  BY <1>1, CallsHold, PTL

\* A reader of a size that is overwritten never sees a greater one than the new
\* one, at none of the stores and for no two sizes; the new one is what the field
\* holds in the end, in the bytes that were evaluated, and compares as it should.
THEOREM NumberNeverReadsGreaterThm == Spec => []NumberNeverReadsGreater
<1>1. CallInv => NumberNeverReadsGreater
  <2> SUFFICES ASSUME CallInv, Returned("SetSize") PROVE NumberNeverReadsGreater
    BY DEF NumberNeverReadsGreater
  <2>1. PICK i \in Sizes : i = input.of
    BY DEF CallInv, Returned
  <2>2. i.before \in Number /\ i.after \in Number
    BY SizesAssumption DEF Number, Byte
  <2>3. PICK N : N = Len(NewStores(i))
    OBVIOUS
  <2>4. PICK states : states = output.value
    OBVIOUS
  <2>5. states = [n \in 1..N |-> NewFields(i)[n]]
    BY <2>1, <2>3, <2>4 DEF CallInv, SizeResult
  <2>6. Holds(OldField(i), i.before) /\ IsStored(i.after, NewFields(i), N)
    BY <2>2, <2>3, SizeIsOverwritten
  <2>7. N \in Nat \ {0}
    BY <2>6 DEF IsStored
  <2>8. DOMAIN states = 1..N /\ Len(states) = N
    BY <2>5, <2>7
  <2>9. PICK after : after = Last(states)
    OBVIOUS
  <2>10. after = NewFields(i)[N]
    BY <2>5, <2>7, <2>8, <2>9 DEF Last
  <2>11. Holds(after, i.after)
    BY <2>6, <2>10 DEF IsStored
  <2>12. \A n \in 1..N : ~IsSmaller(i.after, NumberAt(states[n]))
    BY <2>5, <2>6 DEF IsStored
  <2>13. NumberAt(after) = i.after /\ PhysicalSize(after) = EvaluatePhysicalSize(i.after)
    BY <2>2, <2>11, NumberIsHeld
  <2>14. PICK order : order = CompareNumbers(OldField(i), after)
    OBVIOUS
  <2>15. (order < 0 <=> IsSmaller(i.before, i.after)) /\ (order = 0 <=> i.before = i.after)
    BY <2>2, <2>6, <2>11, <2>14, ComparisonIsRight
  <2>17. OldField(i) = AfterStores([j \in 1 .. 10 |-> 0], ConstructStores(i.before))
    BY DEF OldField, ZeroField
  <2>18. QED
    BY <2>1, <2>4, <2>8, <2>9, <2>12, <2>13, <2>14, <2>15, <2>17 DEF NumberNeverReadsGreater
<1>2. QED
  BY <1>1, CallsHold, PTL

\* Reinterpret keeps the slots of every table while their width stays, inside the
\* buffer; of slots that it makes wider and does not write behind the buffer it keeps
\* the lowest; whatever the header, the bytes, the new size and the number of values
\* of a byte.
THEOREM GrowthKeepsLowestSlotsThm == Spec => []GrowthKeepsLowestSlots
<1>1. CallInv => GrowthKeepsLowestSlots
  <2> SUFFICES ASSUME CallInv, Returned("Reinterpret") PROVE GrowthKeepsLowestSlots
    BY DEF GrowthKeepsLowestSlots
  <2>1. PICK i \in Growths : i = input.of
    BY DEF CallInv, Returned
  <2>2. PICK h : h = i.header
    OBVIOUS
  <2>3. PICK size : size = i.size
    OBVIOUS
  <2>4. PICK memory : memory = i.memory
    OBVIOUS
  <2>5. PICK result : result = Grow(h, memory, size)
    OBVIOUS
  <2>6. IsHeader(h) /\ size \in Nat
    BY <2>1, <2>2, <2>3, GrowthsAssumption
  <2>7. PICK end : end = IF size < h.size THEN h.size ELSE size
    OBVIOUS
  <2>8. memory \in [h.indexBegin .. end - 1 -> 0 .. Radix - 1]
    BY <2>1, <2>2, <2>3, <2>4, <2>7, GrowthsAssumption
  <2>9. IsMoved(result, h, memory, size)
    BY <2>5, <2>6, <2>7, <2>8, GrowIsRight
  <2>10. result = output.value
    BY <2>1, <2>2, <2>3, <2>4, <2>5 DEF CallInv, GrowthResult
  <2>11. PICK slots : slots = SlotsAt(memory, h.indexBegin, h.scale, CountOf(h))
    OBVIOUS
  <2>12. result.result = "moved" =>
           SlotsAt(result.memory, result.header.indexBegin, result.header.scale,
                   CountOf(result.header))
             = [n \in 1 .. CountOf(result.header) |-> slots[n]]
    BY <2>6, <2>9, <2>11, SlotsAreKept
  <2>13. QED
    BY <2>1, <2>2, <2>3, <2>4, <2>9, <2>10, <2>11, <2>12 DEF GrowthKeepsLowestSlots, IsMoved
<1>2. QED
  BY <1>1, CallsHold, PTL

\* A rule for a day gives the day it describes, for every rule and all years of
\* the calendar but the first and the last.
THEOREM AnniversaryIsTheRuleThm == Spec => []AnniversaryIsTheRule
<1>1. CallInv => AnniversaryIsTheRule
  <2> SUFFICES ASSUME CallInv, Returned("Anniversary"), input.of.rule.calendar = "GREGORIAN"
               PROVE  AnniversaryIsTheRule
    BY DEF AnniversaryIsTheRule
  <2>1. PICK i \in Rules : i = input.of
    BY DEF CallInv, Returned
  <2>2. PICK rule : rule = i.rule
    OBVIOUS
  <2>3. PICK y \in RuleYears : y = i.year
    BY RulesAssumption DEF RuleYears
  <2>4. y \in Years /\ y + 1 \in Years
    BY RuleYearsAre
  <2>5. PICK m \in 1..12 : m = i.month
    BY RulesAssumption
  <2>6. IsRule(rule, y)
    BY <2>2, <2>3, RulesAssumption
  <2>7. PICK date : date = GetDate(rule, y, m)
    OBVIOUS
  <2>8. output.value = date /\ rule.calendar # "CHINESE_LUNAR"
    BY <2>1, <2>2, <2>3, <2>5, <2>7 DEF CallInv, RuleResult
  <2>9. PICK number : number = date.total \div MINUTES_PER_DAY
    OBVIOUS
  <2>10. CASE rule.category \in {"MONTH_DAY", "MONTHLY_DAY"}
    <3>1. PICK k \in 1..12 : k = IF rule.category = "MONTHLY_DAY" THEN m ELSE rule.month
      BY <2>6, <2>10 DEF IsRule
    <3>2. PICK d \in Nat \ {0} : d = rule.day
      BY <2>6, <2>10 DEF IsRule
    <3>3. date = DateOf(y, k, d)
      BY <2>7, <2>8, <2>10, <3>1, <3>2, GetDateIs
    <3>4. ASSUME d <= DaysOfMonth(y, k)
          PROVE  number = DayNumber(y, k, 1) + d - 1 /\ DateAt(date.total) = date
      <4>1. d \in 1 .. DaysOfMonth(y, k)
        BY <2>4, <3>4, MonthsAre
      <4>2. QED
        BY <2>9, <3>3, <4>1, MonthDayIs
    <3>5. QED
      BY <2>1, <2>2, <2>3, <2>5, <2>8, <2>9, <2>10, <3>1, <3>2, <3>4 DEF AnniversaryIsTheRule
  <2>11. CASE rule.category \in {"DAYOFWEEK_DAYORDER", "MONTHLY_DAYORDER"}
    <3>1. PICK k \in 1..12 : k = IF rule.category = "MONTHLY_DAYORDER" THEN m ELSE rule.month
      BY <2>6, <2>11 DEF IsRule
    <3>2. PICK w \in 0..7 : w = rule.dayOfWeek
      BY <2>6, <2>11 DEF IsRule, DAYS_PER_WEEK
    <3>3. PICK order \in 1..5 : order = rule.dayOrder
      BY <2>6, <2>11 DEF IsRule, DAY_ORDER_LAST
    <3>4. date = OrderedDay(y, k, w, order)
      BY <2>7, <2>8, <2>11, <3>1, <3>2, <3>3, GetDateIs
    <3>5. PICK first : first = DayNumber(y, k, 1)
      OBVIOUS
    <3>6. PICK last : last = first + DaysOfMonth(y, k) - 1
      OBVIOUS
    <3>7. PICK n \in Int : date.total = n * MINUTES_PER_DAY /\ IsOrdered(n, first, last, w, order)
      BY <2>4, <3>4, <3>5, <3>6, OrderedDayIs
    <3>8. IsOrdered(number, first, last, w, order)
      BY <2>9, <3>7, MinutesOfDays
    <3>9. QED
      BY <2>1, <2>2, <2>3, <2>5, <2>8, <2>9, <2>11, <3>1, <3>2, <3>3, <3>5, <3>6, <3>8
         DEF AnniversaryIsTheRule, IsOrdered
  <2>12. CASE rule.category = "WEEKORDER_DAYOFWEEK"
    <3>1. PICK t \in WeekTypes : t = rule.weekType
      BY <2>6, <2>12 DEF IsRule, WeekTypes
    <3>2. PICK weeks \in 1..53 : weeks = rule.weekOrder
      BY <2>6, <2>12 DEF IsRule
    <3>3. PICK w \in 0..7 : w = rule.dayOfWeek
      BY <2>6, <2>12 DEF IsRule, DAYS_PER_WEEK
    <3>4. date = WeekDay(y, t, weeks, w)
      BY <2>7, <2>8, <2>12, <3>1, <3>2, <3>3, GetDateIs
    <3>5. IsDayOfWeek(date, t, weeks, w, y)
      BY <3>4, WeekDayIs
    <3>6. QED
      BY <2>1, <2>2, <2>3, <2>8, <2>12, <3>1, <3>2, <3>3, <3>5 DEF AnniversaryIsTheRule
  <2>13. CASE rule.category = "DAYOFYEAR"
    <3>1. PICK d \in 1 .. DaysInYear(y) : d = rule.dayOfYear
      BY <2>6, <2>13 DEF IsRule, DaysInYear
    <3>2. date = DateAt(DateOf(y, 1, 1).total + Days(d - 1))
      BY <2>7, <2>8, <2>13, <3>1, GetDateIs
    <3>3. number = DaysBeforeYear(y) + d - 1 /\ date.year = y /\ date.dayOfYear = d
      BY <2>9, <3>2, DayOfYearIs
    <3>4. QED
      BY <2>1, <2>2, <2>3, <2>8, <2>9, <2>13, <3>1, <3>3 DEF AnniversaryIsTheRule
  <2>14. QED
    BY <2>6, <2>10, <2>11, <2>12, <2>13 DEF IsRule
<1>2. QED
  BY <1>1, CallsHold, PTL

\* Of zones whose transitions are in months with one between them and one at
\* each end of the year.
ChangesApart == input.call = "Clock" /\ input.of.zone.useDst => MonthsApart(input.of.zone)

\* The clock of a zone follows its transitions and a reading of it comes back, for
\* every moment of 1973 to 2096, all biases up to a day and all such transitions.
THEOREM LocalTimeFollowsTransitionsThm ==
    Spec => [](ChangesApart => LocalTimeFollowsTransitions)
<1>1. CallInv => (ChangesApart => LocalTimeFollowsTransitions)
  <2> SUFFICES ASSUME CallInv, ChangesApart, Returned("Clock") PROVE LocalTimeFollowsTransitions
    BY DEF LocalTimeFollowsTransitions
  <2>1. PICK i \in Clocks : i = input.of
    BY DEF CallInv, Returned
  <2>2. PICK zone : zone = i.zone
    OBVIOUS
  <2>3. PICK utc \in Int : utc = i.utc
    BY ClocksAssumption
  <2>4. PICK year \in ClockYears : year = YearOf(utc \div MINUTES_PER_DAY)
    BY <2>3, ClocksAssumption DEF ClockYears
  <2>5. IsZone(zone) /\ (zone.useDst => MonthsApart(zone))
    BY <2>1, <2>2, ClocksAssumption DEF ChangesApart, Returned
  <2>6. PICK local : local = GetLocal(zone, utc)
    OBVIOUS
  <2>7. PICK past : past = Past(zone, year, utc)
    OBVIOUS
  <2>8. PICK latest : latest = Latest(past)
    OBVIOUS
  <2>9. /\ local = utc - zone.bias - (IF zone.useDst THEN latest.bias ELSE 0)
        /\ GetLocal(zone, GetUtc(zone, local)) = local
    BY <2>4, <2>5, <2>6, <2>7, <2>8, ClockIsRight
  <2>10. output.value \in {ClockResult(i), ClockAndBack(i)}
    BY <2>1 DEF CallInv
  <2>11. output.value.local = local
    BY <2>2, <2>3, <2>6, <2>10 DEF ClockResult, ClockAndBack
  <2>12. "utc" \in DOMAIN output.value => output.value.utc = GetUtc(zone, local)
    <3>1. DOMAIN ClockResult(i) = {"local"}
      BY DEF ClockResult
    <3>2. ClockAndBack(i).utc = GetUtc(zone, local)
      BY <2>2, <2>3, <2>6 DEF ClockAndBack
    <3>3. QED
      BY <2>10, <3>1, <3>2
  <2>13. past = {c \in Changes(i.zone, YearOf(i.utc \div MINUTES_PER_DAY)) : c.at <= i.utc}
    BY <2>2, <2>3, <2>4, <2>7 DEF Past
  <2>14. latest = CHOOSE c \in past : \A d \in past : d.at <= c.at
    BY <2>8 DEF Latest
  <2>15. QED
    BY <2>1, <2>2, <2>3, <2>9, <2>11, <2>12, <2>13, <2>14, Zenon DEF LocalTimeFollowsTransitions
<1>2. QED
  BY <1>1, CallsHold, PTL
=============================================================================
