--------------------------- MODULE IndexOpsProofs ---------------------------
(***************************************************************************)
(* What the binary search of IndexOps answers, for every sequence of keys. *)
(* The search is a recursive function; that a function with its equation   *)
(* exists, and what it returns, are shown by induction on the width of the *)
(* interval that is left.                                                  *)
(***************************************************************************)
EXTENDS IndexOps, SequencesExt, SequenceTheorems, WellFoundedInduction, TLAPS

\* Every set of natural numbers that is not empty has a least element.
LEMMA LeastNatural ==
    ASSUME NEW S \in SUBSET Nat, NEW n \in S
    PROVE  \E m \in S : \A k \in S : m <= k
<1>1. \A y, x \in Nat : y < x => <<y, x>> \in OpToRel(<, Nat)
  BY Zenon DEF OpToRel
<1>2. \E x \in S : \A y \in S : ~ (<<y, x>> \in OpToRel(<, Nat))
  BY NatLessThanWellFounded, WFMin, Zenon
<1>3. \E x \in S : \A y \in S : ~ (y < x)
  BY <1>1, <1>2, Zenon
<1>4. QED
  BY <1>3

\* Induction on the natural numbers, for a set instead of a predicate.
LEMMA Induction ==
    ASSUME NEW S, \A n \in Nat : (\A m \in Nat : m < n => m \in S) => n \in S
    PROVE  Nat \subseteq S
<1> SUFFICES ASSUME NEW n \in Nat \ S PROVE FALSE
  OBVIOUS
<1>1. PICK m \in Nat \ S : \A k \in Nat \ S : m <= k
  BY LeastNatural
<1>2. \A k \in Nat : k < m => k \in S
  BY <1>1
<1>3. QED
  BY <1>1, <1>2

\* The greatest of numbers up to k, when k is among them.
LEMMA MaxIs ==
    ASSUME NEW k \in Nat, NEW s \in SUBSET (1..k), k \in s
    PROVE  Max(s) = k
<1>1. \A y \in s : k >= y
  OBVIOUS
<1>2. \A x \in s : (\A y \in s : x >= y) => x = k
  OBVIOUS
<1>3. QED
  BY <1>1, <1>2, Zenon DEF Max

-----------------------------------------------------------------------------

\* One probe of the search: what it answers, given the answers for the halves.
Probe(keys, key, answer, r) ==
    LET begin == r[1]
        end == r[2]
        tester == (begin + end) \div 2
    IN IF begin >= end THEN [found |-> FALSE, order |-> begin]
       ELSE IF key > keys[tester + 1] THEN answer[<<tester + 1, end>>]
       ELSE IF key < keys[tester + 1] THEN answer[<<begin, tester>>]
       ELSE [found |-> TRUE, order |-> tester]

Intervals(keys) == (0..Len(keys)) \X (0..Len(keys))
Width(r) == r[2] - r[1]

\* The halves of an interval are intervals, and narrower.
LEMMA Halves ==
    ASSUME NEW b \in Nat, NEW e \in Nat, b < e
    PROVE  LET t == (b + e) \div 2 IN t \in Nat /\ b <= t /\ t < e
OBVIOUS

\* A probe looks only at answers for narrower intervals.
LEMMA ProbeNarrows ==
    ASSUME NEW keys, Len(keys) \in Nat, NEW key, NEW r \in Intervals(keys), NEW f, NEW g,
           \A s \in Intervals(keys) : Width(s) < Width(r) => f[s] = g[s]
    PROVE  Probe(keys, key, f, r) = Probe(keys, key, g, r)
<1> DEFINE b == r[1]
           e == r[2]
           t == (b + e) \div 2
<1>1. b \in 0..Len(keys) /\ e \in 0..Len(keys) /\ Width(r) = e - b
  BY DEF Intervals, Width
<1>2. CASE b >= e
  BY <1>2 DEF Probe
<1>3. CASE b < e
  <2>1. t \in Nat /\ b <= t /\ t < e
    BY <1>1, <1>3, Halves
  <2>2. <<t + 1, e>> \in Intervals(keys) /\ Width(<<t + 1, e>>) < Width(r)
    BY <1>1, <2>1 DEF Intervals, Width
  <2>3. <<b, t>> \in Intervals(keys) /\ Width(<<b, t>>) < Width(r)
    BY <1>1, <2>1 DEF Intervals, Width
  <2>4. QED
    BY <2>2, <2>3 DEF Probe
<1>4. QED
  BY <1>1, <1>2, <1>3

\* A function whose answers are those of the probes exists.
LEMMA ProbeDefined ==
    ASSUME NEW keys, Len(keys) \in Nat, NEW key
    PROVE  \E f : f = [r \in Intervals(keys) |-> Probe(keys, key, f, r)]
<1> DEFINE Upto(n) == {r \in Intervals(keys) : Width(r) < n}
           Good(f, n) == /\ f = [r \in Intervals(keys) |-> f[r]]
                         /\ \A r \in Upto(n) : f[r] = Probe(keys, key, f, r)
           S == {n \in Nat : \E f : Good(f, n)}
<1>1. ASSUME NEW n \in Nat, \A m \in Nat : m < n => m \in S
      PROVE  n \in S
  <2>1. CASE n = 0
    <3> DEFINE f == [r \in Intervals(keys) |-> Probe(keys, key, <<>>, r)]
    <3>1. \A r \in Upto(0) : Width(r) \in Int /\ Width(r) < 0 /\ r[1] >= r[2]
      BY DEF Width, Intervals
    <3>2. Good(f, 0)
      BY <3>1 DEF Probe
    <3>3. QED
      BY <2>1, <3>2
  <2>2. CASE n # 0
    <3>1. n - 1 \in S
      BY <1>1, <2>2
    <3>2. PICK f : Good(f, n - 1)
      BY <3>1
    <3> DEFINE g == [r \in Intervals(keys) |->
                       IF r \in Upto(n - 1) THEN f[r] ELSE Probe(keys, key, f, r)]
    <3>3. ASSUME NEW r \in Upto(n) PROVE g[r] = Probe(keys, key, g, r)
      <4>1. \A s \in Intervals(keys) : Width(s) \in Int
        BY DEF Intervals, Width
      <4>2. \A s \in Intervals(keys) : Width(s) < Width(r) => f[s] = g[s]
        BY <3>2, <4>1
      <4>3. Probe(keys, key, f, r) = Probe(keys, key, g, r)
        BY <4>2, ProbeNarrows
      <4>4. QED
        BY <3>2, <4>3
    <3>4. Good(g, n)
      BY <3>3
    <3>5. QED
      BY <3>4
  <2>3. QED
    BY <2>1, <2>2
<1>2. Len(keys) + 1 \in S
  <2> HIDE DEF S
  <2>1. QED
    BY <1>1, Induction
<1>3. PICK f : Good(f, Len(keys) + 1)
  BY <1>2
<1>4. \A r \in Intervals(keys) : r \in Upto(Len(keys) + 1)
  BY DEF Intervals, Width
<1>5. f = [r \in Intervals(keys) |-> Probe(keys, key, f, r)]
  BY <1>3, <1>4
<1>6. QED
  BY <1>5

\* The search is the answer of such a function for the whole sequence.
LEMMA SearchIsProbe ==
    ASSUME NEW keys, Len(keys) \in Nat, NEW key
    PROVE  \E f : /\ f = [r \in Intervals(keys) |-> Probe(keys, key, f, r)]
                  /\ SearchKeys(keys, key) = f[<<0, Len(keys)>>]
<1> DEFINE f == CHOOSE g : g = [r \in Intervals(keys) |-> Probe(keys, key, g, r)]
<1>1. f = [r \in Intervals(keys) |-> Probe(keys, key, f, r)]
  BY ProbeDefined
<1>2. SearchKeys(keys, key) = f[<<0, Len(keys)>>]
  BY DEF SearchKeys, Probe, Intervals
<1>3. QED
  BY <1>1, <1>2

-----------------------------------------------------------------------------

Sorted(keys) == \A i, j \in 1..Len(keys) : i < j => keys[i] < keys[j]

\* What an answer says about the interval from b to e that it is for: a slot
\* inside that holds the key, or the place where the key belongs.
Answers(keys, key, b, e, a) ==
    /\ a.found \in BOOLEAN
    /\ a.order \in b..e
    /\ a.found => a.order < e /\ keys[a.order + 1] = key
    /\ ~a.found /\ Sorted(keys) => /\ \A i \in (b + 1)..a.order : keys[i] < key
                                   /\ \A i \in (a.order + 1)..e : key < keys[i]

\* A probe answers for its interval when the halves do.
LEMMA ProbeAnswers ==
    ASSUME NEW keys, Len(keys) \in Nat, \A i \in 1..Len(keys) : keys[i] \in Int,
           NEW key \in Int, NEW f,
           NEW b \in 0..Len(keys), NEW e \in 0..Len(keys), b <= e,
           \A c, d \in 0..Len(keys) :
               c <= d /\ d - c < e - b => Answers(keys, key, c, d, f[<<c, d>>])
    PROVE  Answers(keys, key, b, e, Probe(keys, key, f, <<b, e>>))
<1> SUFFICES ASSUME NEW a, a = Probe(keys, key, f, <<b, e>>)
             PROVE  Answers(keys, key, b, e, a)
  OBVIOUS
<1>1. CASE b = e
  <2>1. ~a.found /\ a.found \in BOOLEAN /\ a.order = b
    BY <1>1 DEF Probe
  <2>2. QED
    BY <1>1, <2>1 DEF Answers
<1>2. CASE b < e
  <2>1. PICK t \in Nat : t = (b + e) \div 2 /\ b <= t /\ t < e
    BY <1>2, Halves
  <2>2. keys[t + 1] \in Int /\ t + 1 \in 1..Len(keys)
    BY <2>1
  <2>3. a = IF key > keys[t + 1] THEN f[<<t + 1, e>>]
            ELSE IF key < keys[t + 1] THEN f[<<b, t>>]
            ELSE [found |-> TRUE, order |-> t]
    BY <1>2, <2>1 DEF Probe
  <2>4. CASE key > keys[t + 1]
    <3>1. Answers(keys, key, t + 1, e, a)
      <4>1. t + 1 \in 0..Len(keys) /\ t + 1 <= e /\ e - (t + 1) < e - b
        BY <2>1
      <4>2. QED
        BY <2>3, <2>4, <4>1
    <3>2. ASSUME Sorted(keys) PROVE \A i \in (b + 1)..(t + 1) : keys[i] < key
      <4>1. \A i \in (b + 1)..t : keys[i] < keys[t + 1] /\ keys[i] \in Int
        BY <2>1, <2>2, <3>2 DEF Sorted
      <4>2. ASSUME NEW i \in (b + 1)..(t + 1) PROVE keys[i] < key
        <5>1. i = t + 1 \/ (i \in (b + 1)..t)
          BY <2>1
        <5>2. QED
          BY <2>2, <2>4, <4>1, <5>1
      <4>3. QED
        BY <4>2
    <3>3. a.order \in (t + 1)..e /\ a.order \in b..e
      BY <2>1, <3>1 DEF Answers
    <3>4. ASSUME ~a.found, Sorted(keys), NEW i \in (b + 1)..a.order PROVE keys[i] < key
      <4>1. CASE i <= t + 1
        BY <2>1, <3>2, <3>4, <4>1
      <4>2. CASE i > t + 1
        <5>1. i \in ((t + 1) + 1)..a.order
          BY <2>1, <3>3, <4>2
        <5>2. QED
          BY <3>1, <3>4, <5>1 DEF Answers
      <4>3. QED
        BY <4>1, <4>2
    <3>5. QED
      BY <3>1, <3>3, <3>4 DEF Answers
  <2>5. CASE key < keys[t + 1]
    <3>1. Answers(keys, key, b, t, a)
      <4>1. t \in 0..Len(keys) /\ b <= t /\ t - b < e - b
        BY <2>1
      <4>2. a = f[<<b, t>>]
        BY <2>2, <2>3, <2>5
      <4>3. QED
        BY <4>1, <4>2
    <3>2. ASSUME Sorted(keys) PROVE \A i \in (t + 1)..e : key < keys[i]
      <4>1. \A i \in (t + 2)..e : keys[t + 1] < keys[i] /\ keys[i] \in Int
        BY <2>1, <2>2, <3>2 DEF Sorted
      <4>2. ASSUME NEW i \in (t + 1)..e PROVE key < keys[i]
        <5>1. i = t + 1 \/ (i \in (t + 2)..e)
          BY <2>1
        <5>2. QED
          BY <2>2, <2>5, <4>1, <5>1
      <4>3. QED
        BY <4>2
    <3>3. QED
      BY <2>1, <3>1, <3>2 DEF Answers
  <2>6. CASE key = keys[t + 1]
    <3>1. a = [found |-> TRUE, order |-> t]
      <4>1. ~(key > keys[t + 1]) /\ ~(key < keys[t + 1])
        BY <2>2, <2>6
      <4>2. QED
        BY <2>3, <4>1, Zenon
    <3>2. a.found = TRUE /\ a.order = t
      BY <3>1
    <3>3. a.order \in b..e /\ a.order < e
      BY <2>1, <3>2
    <3>4. keys[a.order + 1] = key
      BY <2>6, <3>2
    <3>5. QED
      BY <3>2, <3>3, <3>4 DEF Answers
  <2>7. QED
    BY <2>2, <2>4, <2>5, <2>6
<1>3. QED
  BY <1>1, <1>2

\* SortedTable.c, _Search: in an index of any length the search answers with a
\* slot that holds the key, or with an order, which is the one at which the key
\* belongs when the index is sorted.
THEOREM SearchIsRight ==
    ASSUME NEW keys, Len(keys) \in Nat, \A i \in 1..Len(keys) : keys[i] \in Int,
           NEW key \in Int
    PROVE  Answers(keys, key, 0, Len(keys), SearchKeys(keys, key))
<1>1. PICK f : /\ f = [r \in Intervals(keys) |-> Probe(keys, key, f, r)]
               /\ SearchKeys(keys, key) = f[<<0, Len(keys)>>]
  BY SearchIsProbe
<1> DEFINE S == {n \in Nat : \A b, e \in 0..Len(keys) :
                    b <= e /\ e - b = n => Answers(keys, key, b, e, f[<<b, e>>])}
<1>2. ASSUME NEW n \in Nat, \A m \in Nat : m < n => m \in S
      PROVE  n \in S
  <2> SUFFICES ASSUME NEW b \in 0..Len(keys), NEW e \in 0..Len(keys), b <= e, e - b = n
               PROVE  Answers(keys, key, b, e, f[<<b, e>>])
    OBVIOUS
  <2>1. ASSUME NEW c \in 0..Len(keys), NEW d \in 0..Len(keys), c <= d, d - c < e - b
        PROVE  Answers(keys, key, c, d, f[<<c, d>>])
    <3>1. d - c \in Nat /\ d - c < n
      BY <2>1
    <3>2. d - c \in S
      BY <1>2, <3>1
    <3>3. QED
      BY <2>1, <3>2
  <2>2. f[<<b, e>>] = Probe(keys, key, f, <<b, e>>)
    BY <1>1 DEF Intervals
  <2>3. Answers(keys, key, b, e, Probe(keys, key, f, <<b, e>>))
    BY <2>1, ProbeAnswers
  <2>4. QED
    BY <2>2, <2>3
<1>3. Len(keys) \in S
  <2> HIDE DEF S
  <2>1. QED
    BY <1>2, Induction
<1>4. Answers(keys, key, 0, Len(keys), f[<<0, Len(keys)>>])
  BY <1>3
<1>5. QED
  BY <1>1, <1>4

-----------------------------------------------------------------------------
(* A slot more, a slot less, another slot.                                 *)

\* A sequence with one more element.
LEMMA SlotInserted ==
    ASSUME NEW s \in Seq(Nat), NEW i \in 1 .. (Len(s) + 1), NEW e \in Nat
    PROVE  /\ InsertAt(s, i, e) \in Seq(Nat) /\ Len(InsertAt(s, i, e)) = Len(s) + 1
           /\ \A j \in 1 .. (Len(s) + 1) :
                InsertAt(s, i, e)[j] = IF j < i THEN s[j] ELSE IF j = i THEN e ELSE s[j - 1]
<1> DEFINE front == SubSeq(s, 1, i - 1)
           back == SubSeq(s, i, Len(s))
<1>1. Len(s) \in Nat /\ \A j \in 1 .. Len(s) : s[j] \in Nat
  BY LenProperties, ElementOfSeq
<1>2. /\ front \in Seq(Nat) /\ Len(front) = i - 1
      /\ \A j \in 1 .. (i - 1) : front[j] = s[j]
  <2>1. \A j \in 1 .. (i - 1) : s[j] \in Nat
    BY <1>1
  <2>2. i - 1 \in Int /\ 1 \in Int
    BY <1>1
  <2>3. /\ front \in Seq(Nat)
        /\ Len(front) = IF 1 <= i - 1 THEN (i - 1) - 1 + 1 ELSE 0
        /\ \A j \in 1 .. (i - 1) - 1 + 1 : front[j] = s[1 + j - 1]
    BY <2>1, <2>2, SubSeqProperties
  <2> HIDE DEF front
  <2>4. QED
    BY <1>1, <2>3
<1>3. /\ back \in Seq(Nat) /\ Len(back) = Len(s) - i + 1
      /\ \A j \in 1 .. (Len(s) - i + 1) : back[j] = s[i + j - 1]
  <2>1. \A j \in i .. Len(s) : s[j] \in Nat
    BY <1>1
  <2>2. i \in Int /\ Len(s) \in Int
    BY <1>1
  <2>3. /\ back \in Seq(Nat)
        /\ Len(back) = IF i <= Len(s) THEN Len(s) - i + 1 ELSE 0
        /\ \A j \in 1 .. Len(s) - i + 1 : back[j] = s[i + j - 1]
    BY <2>1, <2>2, SubSeqProperties
  <2> HIDE DEF back
  <2>4. QED
    BY <1>1, <2>3
<1>4. <<e>> \in Seq(Nat) /\ Len(<<e>>) = 1 /\ <<e>>[1] = e
  OBVIOUS
<1>5. InsertAt(s, i, e) = (front \o <<e>>) \o back
  BY DEF InsertAt
<1> HIDE DEF front, back
<1> DEFINE head == front \o <<e>>
<1>6. /\ head \in Seq(Nat) /\ Len(head) = i
      /\ \A j \in 1 .. i : head[j] = IF j < i THEN s[j] ELSE e
  <2>1. /\ head \in Seq(Nat) /\ Len(head) = Len(front) + Len(<<e>>)
        /\ \A j \in 1 .. Len(front) + Len(<<e>>) :
              head[j] = IF j <= Len(front) THEN front[j] ELSE <<e>>[j - Len(front)]
    BY <1>2, <1>4, ConcatProperties
  <2> HIDE DEF head
  <2>2. QED
    BY <1>1, <1>2, <1>4, <2>1
<1> HIDE DEF head
<1>7. /\ head \o back \in Seq(Nat) /\ Len(head \o back) = Len(head) + Len(back)
      /\ \A j \in 1 .. Len(head) + Len(back) :
            (head \o back)[j] = IF j <= Len(head) THEN head[j] ELSE back[j - Len(head)]
  BY <1>3, <1>6, ConcatProperties
<1>8. \A j \in 1 .. (Len(s) + 1) :
        (head \o back)[j] = IF j < i THEN s[j] ELSE IF j = i THEN e ELSE s[j - 1]
  <2> TAKE j \in 1 .. (Len(s) + 1)
  <2>1. CASE j <= i
    <3>1. j \in 1 .. (Len(head) + Len(back)) /\ j <= Len(head) /\ j \in 1 .. i
      BY <1>1, <1>3, <1>6, <2>1
    <3>2. (head \o back)[j] = head[j] /\ head[j] = IF j < i THEN s[j] ELSE e
      BY <1>6, <1>7, <3>1
    <3>3. QED
      BY <2>1, <3>1, <3>2
  <2>2. CASE j > i
    <3>1. (head \o back)[j] = back[j - i] /\ j - i \in 1 .. (Len(s) - i + 1) /\ i + (j - i) - 1 = j - 1
      BY <1>1, <1>3, <1>6, <1>7, <2>2
    <3>2. QED
      BY <1>1, <1>3, <2>2, <3>1
  <2>3. j <= i \/ j > i
    BY <1>1
  <2>4. QED
    BY <2>1, <2>2, <2>3, Zenon
<1>9. Len(head \o back) = Len(s) + 1
  BY <1>1, <1>3, <1>6, <1>7
<1>10. InsertAt(s, i, e) = head \o back
  BY <1>5 DEF head
<1>11. QED
  BY <1>7, <1>8, <1>9, <1>10

\* The same as one statement about the result.
OneMore(s, i, e, r) ==
    /\ r \in Seq(Nat) /\ Len(r) = Len(s) + 1
    /\ \A j \in 1 .. (Len(s) + 1) : r[j] = IF j < i THEN s[j] ELSE IF j = i THEN e ELSE s[j - 1]

LEMMA OneSlotMore ==
    ASSUME NEW s \in Seq(Nat), NEW i \in 1 .. (Len(s) + 1), NEW e \in Nat
    PROVE  OneMore(s, i, e, InsertAt(s, i, e))
BY SlotInserted DEF OneMore

\* A sequence with one element less.
LEMMA SlotRemoved ==
    ASSUME NEW s \in Seq(Nat), NEW i \in 1 .. Len(s)
    PROVE  /\ RemoveAt(s, i) \in Seq(Nat) /\ Len(RemoveAt(s, i)) = Len(s) - 1
           /\ \A j \in 1 .. (Len(s) - 1) : RemoveAt(s, i)[j] = IF j < i THEN s[j] ELSE s[j + 1]
<1> DEFINE front == SubSeq(s, 1, i - 1)
           back == SubSeq(s, i + 1, Len(s))
<1>1. Len(s) \in Nat /\ \A j \in 1 .. Len(s) : s[j] \in Nat
  BY LenProperties, ElementOfSeq
<1>2. /\ front \in Seq(Nat) /\ Len(front) = i - 1
      /\ \A j \in 1 .. (i - 1) : front[j] = s[j]
  <2>1. \A j \in 1 .. (i - 1) : s[j] \in Nat
    BY <1>1
  <2>2. i - 1 \in Int /\ 1 \in Int
    BY <1>1
  <2>3. /\ front \in Seq(Nat)
        /\ Len(front) = IF 1 <= i - 1 THEN (i - 1) - 1 + 1 ELSE 0
        /\ \A j \in 1 .. (i - 1) - 1 + 1 : front[j] = s[1 + j - 1]
    BY <2>1, <2>2, SubSeqProperties
  <2> HIDE DEF front
  <2>4. QED
    BY <1>1, <2>3
<1>3. /\ back \in Seq(Nat) /\ Len(back) = Len(s) - i
      /\ \A j \in 1 .. (Len(s) - i) : back[j] = s[i + j]
  <2>1. \A j \in (i + 1) .. Len(s) : s[j] \in Nat
    BY <1>1
  <2>2. i + 1 \in Int /\ Len(s) \in Int
    BY <1>1
  <2>3. /\ back \in Seq(Nat)
        /\ Len(back) = IF i + 1 <= Len(s) THEN Len(s) - (i + 1) + 1 ELSE 0
        /\ \A j \in 1 .. Len(s) - (i + 1) + 1 : back[j] = s[(i + 1) + j - 1]
    BY <2>1, <2>2, SubSeqProperties
  <2> HIDE DEF back
  <2>4. QED
    BY <1>1, <2>3
<1>4. RemoveAt(s, i) = front \o back
  BY DEF RemoveAt
<1> HIDE DEF front, back
<1>5. /\ front \o back \in Seq(Nat) /\ Len(front \o back) = Len(front) + Len(back)
      /\ \A j \in 1 .. Len(front) + Len(back) :
            (front \o back)[j] = IF j <= Len(front) THEN front[j] ELSE back[j - Len(front)]
  BY <1>2, <1>3, ConcatProperties
<1>6. \A j \in 1 .. (Len(s) - 1) : (front \o back)[j] = IF j < i THEN s[j] ELSE s[j + 1]
  <2> TAKE j \in 1 .. (Len(s) - 1)
  <2>1. CASE j < i
    <3>1. j \in 1 .. (Len(front) + Len(back)) /\ j <= Len(front) /\ j \in 1 .. (i - 1)
      BY <1>1, <1>2, <1>3, <2>1
    <3>2. (front \o back)[j] = front[j] /\ front[j] = s[j]
      BY <1>2, <1>5, <3>1
    <3>3. QED
      BY <2>1, <3>2
  <2>2. CASE j >= i
    <3>1. j \in 1 .. (Len(front) + Len(back)) /\ ~(j <= Len(front))
      BY <1>1, <1>2, <1>3, <2>2
    <3>2. (front \o back)[j] = back[j - Len(front)]
      BY <1>5, <3>1
    <3>3. Len(front) = i - 1 /\ j - (i - 1) \in 1 .. (Len(s) - i) /\ i + (j - (i - 1)) = j + 1
      BY <1>1, <1>2, <2>2
    <3>4. back[j - (i - 1)] = s[j + 1]
      BY <1>3, <3>3
    <3>5. QED
      BY <1>1, <2>2, <3>2, <3>3, <3>4
  <2>3. j < i \/ j >= i
    BY <1>1
  <2>4. QED
    BY <2>1, <2>2, <2>3, Zenon
<1>7. Len(front \o back) = Len(s) - 1
  BY <1>1, <1>2, <1>3, <1>5
<1>8. QED
  BY <1>4, <1>5, <1>6, <1>7

\* A sequence with another element in one place.
LEMMA SlotReplaced ==
    ASSUME NEW s \in Seq(Nat), NEW i \in 1 .. Len(s), NEW e \in Nat
    PROVE  /\ ReplaceAt(s, i, e) \in Seq(Nat) /\ Len(ReplaceAt(s, i, e)) = Len(s)
           /\ \A j \in 1 .. Len(s) : ReplaceAt(s, i, e)[j] = IF j = i THEN e ELSE s[j]
BY ExceptSeq DEF ReplaceAt
=============================================================================
