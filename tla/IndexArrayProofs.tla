-------------------------- MODULE IndexArrayProofs --------------------------
(***************************************************************************)
(* Proofs about the index of a table, slot by slot (module IndexArray),    *)
(* for every set of keys, size of the memory and number of writes.         *)
(*                                                                         *)
(* The inductive invariant IInv has two halves. The writer's half says     *)
(* what the memory looks like after the first k stores of a write session, *)
(* for each of the four programs: which positions hold their new slot      *)
(* already, which ones the old, and which bound has moved. The reader's    *)
(* half says what a search knows: as long as the state is the one at its   *)
(* start (Fresh), the slots are those of its session and the key lies in   *)
(* the interval that is left (Narrowed); what was compared after a look at *)
(* the state is known for good.                                            *)
(*                                                                         *)
(* The refinement of SlotSequence follows: when the last store is made,    *)
(* the memory between the bounds is the sequence with its one change.      *)
(***************************************************************************)
EXTENDS IndexArray, IndexOpsProofs, FiniteSetTheorems

SearchPC == {"idle", "count", "subtractBegin", "subtractFrom", "loop", "load", "shouldCancel",
             "compare", "reload", "validate", "answer"}
SearchRecord ==
    [at : SearchPC, key : Keys \cup {Empty}, enter : Nat, bound : Nat, begin : Nat, end : Nat,
     pointer : Nat, slot : Keys \cup {Empty, Outside, Null}, found : BOOLEAN, seen : Seq(Keys)]
ChangeRecord == [kind : {"none", "insert", "remove"}, order : Nat, key : Keys \cup {Empty}]
StoreRecord == [store : {"put", "copy", "begin", "end"}, to : Int, value : Int]

\* Every variable has its type.
TypeInv ==
    /\ memory \in [0..(Room - 1) -> Keys \cup {Empty}]
    /\ indexBegin \in 0..Room /\ indexEnd \in indexBegin..Room
    /\ state \in 0..(2 * MaxWrites)
    /\ change \in ChangeRecord /\ program \in Seq(StoreRecord)
    /\ before \in Seq(Keys) /\ search \in SearchRecord

-----------------------------------------------------------------------------
(* The writer's half.                                                      *)

Inserts == change.kind = "insert" /\ change.key \in Keys
Removes == change.kind = "remove" /\ change.order < Len(before)

\* The key to insert is absent, and its order is its place.
Belongs(sequence, order, key) ==
    /\ order \in 0..Len(sequence)
    /\ \A i \in 1..Len(sequence) : IF i <= order THEN sequence[i] < key ELSE key < sequence[i]

\* The slots stored after k stores of an insertion: the second store moves the bound.
Stored(k) == IF k <= 1 THEN k ELSE k - 1

\* What the slot at position p was when the bounds were b and e.
OldSlot(b, p) == before[p - b + 1]

\* An insertion that moves the slots before the order to the left.
LeftStore(b, order, key, i) ==
    LET p == b - 1 + Stored(i - 1) IN
    IF i = 2 THEN SetIndexBegin(b - 1)
    ELSE IF p = b - 1 + order THEN Put(p, key) ELSE Copy(p, p + 1)

InsertingLeft(b, e, k) ==
    /\ Inserts /\ Belongs(before, change.order, change.key)
    /\ 0 < b /\ Len(program) = change.order + 2 - k
    /\ \A i \in 1..Len(program) : program[i] = LeftStore(b, change.order, change.key, k + i)
    /\ indexBegin = (IF k < 2 THEN b ELSE b - 1) /\ indexEnd = e
    /\ \A p \in (b - 1)..(e - 1) :
         IF p < b - 1 + Stored(k)
         THEN memory[p] = IF p = b - 1 + change.order THEN change.key ELSE OldSlot(b, p + 1)
         ELSE b <= p => memory[p] = OldSlot(b, p)

\* An insertion that moves the slots from the order on to the right.
RightStore(b, e, order, key, i) ==
    LET p == e - Stored(i - 1) IN
    IF i = 2 THEN SetIndexEnd(e + 1)
    ELSE IF p = b + order THEN Put(p, key) ELSE Copy(p, p - 1)

InsertingRight(b, e, k) ==
    /\ Inserts /\ Belongs(before, change.order, change.key)
    /\ e < Room /\ Len(program) = e - b - change.order + 2 - k
    /\ \A i \in 1..Len(program) : program[i] = RightStore(b, e, change.order, change.key, k + i)
    /\ indexBegin = b /\ indexEnd = (IF k < 2 THEN e ELSE e + 1)
    /\ \A p \in b..e :
         IF e - Stored(k) < p
         THEN memory[p] = IF p = b + change.order THEN change.key ELSE OldSlot(b, p - 1)
         ELSE p < e => memory[p] = OldSlot(b, p)

\* A removal that moves the slots before the order to the right, over it.
FromLeftStore(b, order, i) ==
    LET p == b + order + 1 - i IN
    IF p = b THEN SetIndexBegin(b + 1) ELSE Copy(p, p - 1)

RemovingLeft(b, e, k) ==
    /\ Removes /\ Len(program) = change.order + 1 - k
    /\ \A i \in 1..Len(program) : program[i] = FromLeftStore(b, change.order, k + i)
    /\ indexBegin = (IF k <= change.order THEN b ELSE b + 1) /\ indexEnd = e
    /\ \A p \in b..(e - 1) :
         IF b + change.order - k < p /\ p <= b + change.order
         THEN b < p => memory[p] = OldSlot(b, p - 1)
         ELSE memory[p] = OldSlot(b, p)

\* A removal that moves the slots after the order to the left, over it.
FromRightStore(b, e, order, i) ==
    LET p == b + order + i - 1 IN
    IF p = e - 1 THEN SetIndexEnd(e - 1) ELSE Copy(p, p + 1)

RemovingRight(b, e, k) ==
    /\ Removes /\ Len(program) = e - b - change.order - k
    /\ \A i \in 1..Len(program) : program[i] = FromRightStore(b, e, change.order, k + i)
    /\ indexBegin = b /\ indexEnd = (IF k < e - b - change.order THEN e ELSE e - 1)
    /\ \A p \in b..(e - 1) :
         IF b + change.order <= p /\ p < b + change.order + k
         THEN p < e - 1 => memory[p] = OldSlot(b, p + 1)
         ELSE memory[p] = OldSlot(b, p)

\* A write session that began with the bounds b and e has made k stores.
Session(b, e, k) ==
    \/ InsertingLeft(b, e, k) \/ InsertingRight(b, e, k)
    \/ RemovingLeft(b, e, k) \/ RemovingRight(b, e, k)

WriterInv ==
    IF IsCorrupted(state)
    THEN /\ Sorted(before)
         /\ \E b \in 0..Room, e \in 0..Room :
              /\ Len(before) = e - b
              /\ \E k \in Nat : Session(b, e, k)
    ELSE change = NoChange /\ program = <<>> /\ Slots \in Seq(Keys) /\ Sorted(Slots)

-----------------------------------------------------------------------------
(* The reader's half.                                                      *)

\* No write session has begun since the search did.
Fresh == state = search.enter

\* The key is not before the interval and not behind it.
Narrowed ==
    /\ search.begin <= search.end /\ search.end <= Len(search.seen)
    /\ \A i \in 1..Len(search.seen) :
         /\ i <= search.begin => search.seen[i] < search.key
         /\ search.end < i => search.key < search.seen[i]

Hit == search.begin < Len(search.seen) /\ search.seen[search.begin + 1] = search.key

SessionInv ==
    search.at # "idle" =>
        /\ ~IsCorrupted(search.enter) /\ search.enter <= state
        /\ search.key \in Keys /\ Sorted(search.seen)
        /\ Fresh => search.seen = Slots

KnownInv ==
    /\ search.at \in {"subtractBegin", "subtractFrom"} /\ Fresh =>
         search.bound = IF search.at = "subtractBegin" THEN indexEnd ELSE indexBegin
    /\ search.at \in {"loop", "load", "shouldCancel"} /\ Fresh => Narrowed
    /\ search.at \in {"load", "shouldCancel"} => search.begin < search.end
    /\ search.at = "load" /\ Fresh => search.pointer = indexBegin + Tester
    /\ search.at = "shouldCancel" /\ Fresh => search.slot = search.seen[Tester + 1]
    /\ search.at = "compare" => /\ Narrowed /\ search.begin < search.end
                                /\ search.slot = search.seen[Tester + 1]
    /\ search.at = "reload" => Hit /\ search.found /\ (Fresh => search.pointer = indexBegin + search.begin)
    /\ search.at = "validate" => IF search.found THEN Hit /\ (Fresh => search.slot = search.key)
                                 ELSE Fresh => Narrowed /\ search.begin = search.end
    /\ search.at = "answer" => IF search.found THEN Hit /\ search.slot = search.key
                               ELSE Narrowed /\ search.begin = search.end

IInv == TypeInv /\ WriterInv /\ SessionInv /\ KnownInv

-----------------------------------------------------------------------------
(* Sequences.                                                              *)

LEMMA SlotsAre ==
    ASSUME TypeInv
    PROVE  /\ Slots \in Seq(Keys \cup {Empty}) /\ Len(Slots) = indexEnd - indexBegin
           /\ indexEnd - indexBegin \in Nat
           /\ \A i \in 1..Len(Slots) : Slots[i] = memory[indexBegin + i - 1]
<1>1. indexBegin \in Nat /\ indexEnd \in Nat /\ indexEnd - indexBegin \in Nat
      /\ indexEnd <= Room /\ Room \in Nat
  BY BoundsAreNatural DEF TypeInv
<1>2. \A i \in 1..(indexEnd - indexBegin) : memory[indexBegin + i - 1] \in Keys \cup {Empty}
  BY <1>1 DEF TypeInv
<1>3. QED
  BY <1>1, <1>2 DEF Slots

\* What is known of three sequences, one after another: used without its definition where it is instantiated.
IsChained(S, u, v, w) ==
    /\ (u \o v) \o w \in Seq(S)
    /\ Len((u \o v) \o w) = Len(u) + Len(v) + Len(w)
    /\ \A i \in 1..Len(u) : ((u \o v) \o w)[i] = u[i]
    /\ \A i \in 1..Len(v) : ((u \o v) \o w)[Len(u) + i] = v[i]
    /\ \A i \in 1..Len(w) : ((u \o v) \o w)[Len(u) + Len(v) + i] = w[i]

LEMMA Chained ==
    ASSUME NEW S, NEW u \in Seq(S), NEW v \in Seq(S), NEW w \in Seq(S)
    PROVE  IsChained(S, u, v, w)
<1>1. /\ u \o v \in Seq(S) /\ Len(u \o v) = Len(u) + Len(v)
      /\ \A i \in 1..(Len(u) + Len(v)) : (u \o v)[i] = IF i <= Len(u) THEN u[i] ELSE v[i - Len(u)]
  BY ConcatProperties
<1>2. /\ (u \o v) \o w \in Seq(S) /\ Len((u \o v) \o w) = Len(u \o v) + Len(w)
      /\ \A i \in 1..(Len(u \o v) + Len(w)) : ((u \o v) \o w)[i] = IF i <= Len(u \o v) THEN (u \o v)[i] ELSE w[i - Len(u \o v)]
  BY <1>1, ConcatProperties
<1>3. Len(u) \in Nat /\ Len(v) \in Nat /\ Len(w) \in Nat
  BY LenProperties
<1>4. QED
  BY <1>1, <1>2, <1>3 DEF IsChained

\* A sequence that is defined by its elements.
LEMMA Listed ==
    ASSUME NEW S, NEW n \in Nat, NEW f, f = [i \in 1..n |-> f[i]], \A i \in 1..n : f[i] \in S
    PROVE  f \in Seq(S) /\ Len(f) = n
<1>1. [i \in 1..n |-> f[i]] \in Seq(S) /\ Len([i \in 1..n |-> f[i]]) = n
  OBVIOUS
<1>2. QED
  BY <1>1, Zenon

LEMMA InsertAtIs ==
    ASSUME NEW S, NEW s \in Seq(S), NEW n \in 0..Len(s), NEW x \in S
    PROVE  LET u == InsertAt(s, n + 1, x) IN
           /\ u \in Seq(S) /\ Len(u) = Len(s) + 1
           /\ \A i \in 1..(Len(s) + 1) :
                u[i] = IF i <= n THEN s[i] ELSE IF i = n + 1 THEN x ELSE s[i - 1]
<1>1. Len(s) \in Nat /\ n \in Nat /\ n <= Len(s)
  BY LenProperties
<1>2. /\ SubSeq(s, 1, n) \in Seq(S) /\ Len(SubSeq(s, 1, n)) = n
      /\ \A i \in 1..n : SubSeq(s, 1, n)[i] = s[i]
  BY <1>1, SubSeqProperties
<1>3. /\ SubSeq(s, n + 1, Len(s)) \in Seq(S) /\ Len(SubSeq(s, n + 1, Len(s))) = Len(s) - n
      /\ \A i \in 1..(Len(s) - n) : SubSeq(s, n + 1, Len(s))[i] = s[n + i]
  BY <1>1, SubSeqProperties
<1>4. <<x>> \in Seq(S) /\ Len(<<x>>) = 1 /\ <<x>>[1] = x
  OBVIOUS
<1>5. PICK u : u = (SubSeq(s, 1, n) \o <<x>>) \o SubSeq(s, n + 1, Len(s))
  OBVIOUS
<1>6. /\ u \in Seq(S) /\ Len(u) = Len(s) + 1
      /\ \A i \in 1..n : u[i] = s[i]
      /\ u[n + 1] = x
      /\ \A i \in 1..(Len(s) - n) : u[n + 1 + i] = s[n + i]
  <2>1. /\ u \in Seq(S) /\ Len(u) = n + 1 + (Len(s) - n)
        /\ \A i \in 1..n : u[i] = SubSeq(s, 1, n)[i]
        /\ \A i \in 1..1 : u[n + i] = <<x>>[i]
        /\ \A i \in 1..(Len(s) - n) : u[n + 1 + i] = SubSeq(s, n + 1, Len(s))[i]
    <3>1. PICK v \in Seq(S), y \in Seq(S), w \in Seq(S) :
             v = SubSeq(s, 1, n) /\ y = <<x>> /\ w = SubSeq(s, n + 1, Len(s))
      BY <1>2, <1>3, <1>4
    <3>2. IsChained(S, v, y, w)
      BY Chained, Zenon
    <3>3. u = (v \o y) \o w /\ Len(v) = n /\ Len(y) = 1 /\ Len(w) = Len(s) - n
      BY <1>2, <1>3, <1>4, <1>5, <3>1
    <3>4. QED
      BY <3>1, <3>2, <3>3 DEF IsChained
  <2>2. QED
    BY <1>1, <1>2, <1>3, <1>4, <2>1
<1>7. ASSUME NEW i \in 1..(Len(s) + 1) 
      PROVE  u[i] = IF i <= n THEN s[i] ELSE IF i = n + 1 THEN x ELSE s[i - 1]
  <2>1. CASE i <= n + 1
    BY <2>1, <1>1, <1>6
  <2>2. CASE n + 1 < i
    <3>1. i - n - 1 \in 1..(Len(s) - n) /\ n + 1 + (i - n - 1) = i /\ n + (i - n - 1) = i - 1
      BY <2>2, <1>1
    <3>2. u[n + 1 + (i - n - 1)] = s[n + (i - n - 1)]
      BY <1>6, <3>1
    <3>3. QED
      BY <2>2, <3>1, <3>2, <1>1
  <2>3. QED
    BY <1>1, <2>1, <2>2
<1>8. InsertAt(s, n + 1, x) = u
  <2>1. PICK m : m = n + 1
    OBVIOUS
  <2>2. m - 1 = n
    BY <1>1, <2>1
  <2>3. InsertAt(s, m, x) = u
    BY <2>1, <2>2, <1>5, Zenon DEF InsertAt
  <2>4. QED
    BY <2>1, <2>3
<1>9. QED
  BY <1>6, <1>7, <1>8

LEMMA RemoveAtIs ==
    ASSUME NEW S, NEW s \in Seq(S), NEW n \in 0..(Len(s) - 1)
    PROVE  LET u == RemoveAt(s, n + 1) IN
           /\ u \in Seq(S) /\ Len(u) = Len(s) - 1
           /\ \A i \in 1..(Len(s) - 1) : u[i] = IF i <= n THEN s[i] ELSE s[i + 1]
<1>1. Len(s) \in Nat /\ n \in Nat /\ n < Len(s)
  BY LenProperties
<1>2. /\ SubSeq(s, 1, n) \in Seq(S) /\ Len(SubSeq(s, 1, n)) = n
      /\ \A i \in 1..n : SubSeq(s, 1, n)[i] = s[i]
  BY <1>1, SubSeqProperties
<1>3. /\ SubSeq(s, n + 2, Len(s)) \in Seq(S) /\ Len(SubSeq(s, n + 2, Len(s))) = Len(s) - n - 1
      /\ \A i \in 1..(Len(s) - n - 1) : SubSeq(s, n + 2, Len(s))[i] = s[n + 1 + i]
  BY <1>1, SubSeqProperties
<1>4. PICK u : u = SubSeq(s, 1, n) \o SubSeq(s, n + 2, Len(s))
  OBVIOUS
<1>5. /\ u \in Seq(S) /\ Len(u) = Len(s) - 1
      /\ \A i \in 1..(Len(s) - 1) :
           u[i] = IF i <= n THEN SubSeq(s, 1, n)[i] ELSE SubSeq(s, n + 2, Len(s))[i - n]
  <2>1. PICK v \in Seq(S), w \in Seq(S) : v = SubSeq(s, 1, n) /\ w = SubSeq(s, n + 2, Len(s))
    BY <1>2, <1>3
  <2>2. Len(v) = n /\ Len(w) = Len(s) - n - 1 /\ u = v \o w
    BY <1>2, <1>3, <1>4, <2>1
  <2>3. /\ v \o w \in Seq(S) /\ Len(v \o w) = Len(v) + Len(w)
        /\ \A i \in 1..(Len(v) + Len(w)) : (v \o w)[i] = IF i <= Len(v) THEN v[i] ELSE w[i - Len(v)]
    BY ConcatProperties
  <2>4. Len(v) + Len(w) = Len(s) - 1
    BY <1>1, <2>2
  <2>5. /\ u \in Seq(S) /\ Len(u) = Len(s) - 1
        /\ \A i \in 1..(Len(s) - 1) : u[i] = IF i <= n THEN v[i] ELSE w[i - n]
    BY <2>2, <2>3, <2>4, Zenon
  <2>6. QED
    BY <2>1, <2>5, Zenon
<1>6. ASSUME NEW i \in 1..(Len(s) - 1)
      PROVE  u[i] = IF i <= n THEN s[i] ELSE s[i + 1]
  <2>1. CASE i <= n
    BY <2>1, <1>1, <1>2, <1>5
  <2>2. CASE n < i
    <3>1. i - n \in 1..(Len(s) - n - 1) /\ n + 1 + (i - n) = i + 1
      BY <2>2, <1>1
    <3>2. SubSeq(s, n + 2, Len(s))[i - n] = s[n + 1 + (i - n)]
      BY <1>3, <3>1
    <3>3. ~(i <= n)
      BY <2>2, <1>1
    <3>4. u[i] = SubSeq(s, n + 2, Len(s))[i - n]
      BY <1>5, <3>3, Zenon
    <3>5. n + 1 + (i - n) = i + 1
      BY <3>1
    <3>6. u[i] = s[i + 1]
      BY <3>2, <3>4, <3>5, Zenon
    <3>7. QED
      BY <3>3, <3>6, Zenon
  <2>3. QED
    BY <1>1, <2>1, <2>2
<1>7. RemoveAt(s, n + 1) = u
  <2>1. PICK m : m = n + 1
    OBVIOUS
  <2>2. m - 1 = n /\ m + 1 = n + 2
    BY <1>1, <2>1
  <2>3. RemoveAt(s, m) = u
    BY <2>2, <1>4, Zenon DEF RemoveAt
  <2>4. QED
    BY <2>1, <2>3
<1>8. QED
  BY <1>5, <1>6, <1>7

\* A set of orders that is closed towards the beginning is an interval.
LEMMA Prefix ==
    ASSUME NEW n \in Nat, NEW T \in SUBSET (1..n),
           \A i \in T, j \in 1..n : j <= i => j \in T
    PROVE  Cardinality(T) \in 0..n /\ T = 1..Cardinality(T)
<1> DEFINE U == {i \in Nat \ {0} : i \notin T}
<1>1. n + 1 \in U /\ U \subseteq Nat
  OBVIOUS
<1>2. PICK m \in U : \A i \in U : m <= i
  BY <1>1, LeastNatural
<1>3. m \in Nat \ {0} /\ m <= n + 1
  BY <1>1, <1>2
<1>4. T = 1..(m - 1)
  <2>1. ASSUME NEW i \in T PROVE i \in 1..(m - 1)
    BY <1>2, <1>3
  <2>2. ASSUME NEW i \in 1..(m - 1) PROVE i \in T
    BY <1>2, <1>3
  <2>3. QED
    BY <2>1, <2>2
<1>5. Cardinality(T) = m - 1
  BY <1>3, <1>4, FS_Interval
<1>6. QED
  BY <1>3, <1>4, <1>5

\* The order of an absent key in a sorted sequence is its place.
LEMMA OrderIsPlace ==
    ASSUME NEW s \in Seq(Keys), Sorted(s), NEW key \in Keys,
           \A i \in 1..Len(s) : s[i] # key
    PROVE  Belongs(s, OrderOf(s, key), key)
<1>1. Keys \subseteq Nat /\ Len(s) \in Nat /\ DOMAIN s = 1..Len(s)
      /\ \A i \in 1..Len(s) : s[i] \in Keys
  BY KeysArePositive, LenProperties, ElementOfSeq
<1>2. PICK T : T = {i \in 1..Len(s) : s[i] < key}
  OBVIOUS
<1>3. ASSUME NEW i \in T, NEW j \in 1..Len(s), j <= i PROVE j \in T
  <2>1. i \in 1..Len(s) /\ s[i] < key /\ s[i] \in Nat /\ s[j] \in Nat /\ key \in Nat
    BY <1>1, <1>2
  <2>2. j = i \/ s[j] < s[i]
    BY <1>1, <1>3, <2>1 DEF Sorted
  <2>3. QED
    BY <1>2, <2>1, <2>2
<1>4. Cardinality(T) \in 0..Len(s) /\ T = 1..Cardinality(T)
  BY <1>1, <1>2, <1>3, Prefix
<1>5. OrderOf(s, key) = Cardinality(T)
  BY <1>1, <1>2 DEF OrderOf
<1>6. ASSUME NEW i \in 1..Len(s)
      PROVE  IF i <= Cardinality(T) THEN s[i] < key ELSE key < s[i]
  <2>1. i <= Cardinality(T) <=> s[i] < key
    BY <1>1, <1>2, <1>4
  <2>2. s[i] \in Nat /\ key \in Nat /\ s[i] # key
    BY <1>1
  <2>3. QED
    BY <2>1, <2>2
<1>7. QED
  BY <1>4, <1>5, <1>6 DEF Belongs

\* The other way round: what is before the key is counted by its order.
LEMMA PlaceIsOrder ==
    ASSUME NEW s \in Seq(Keys), NEW key \in Keys, NEW n, Belongs(s, n, key)
    PROVE  OrderOf(s, key) = n
<1>1. Keys \subseteq Nat /\ Len(s) \in Nat /\ DOMAIN s = 1..Len(s) /\ n \in 0..Len(s)
      /\ \A i \in 1..Len(s) : s[i] \in Keys
  BY KeysArePositive, LenProperties, ElementOfSeq DEF Belongs
<1>2. {i \in 1..Len(s) : s[i] < key} = 1..n
  <2>1. ASSUME NEW i \in 1..Len(s) PROVE s[i] < key <=> i \in 1..n
    <3>1. s[i] \in Nat /\ key \in Nat /\ IF i <= n THEN s[i] < key ELSE key < s[i]
      BY <1>1 DEF Belongs
    <3>2. QED
      BY <1>1, <3>1
  <2>2. QED
    BY <1>1, <2>1
<1>3. Cardinality(1..n) = n
  BY <1>1, FS_Interval
<1>4. QED
  BY <1>1, <1>2, <1>3 DEF OrderOf

-----------------------------------------------------------------------------
(* The four programs, store by store.                                      *)

LEMMA StoreTypes ==
    ASSUME NEW p \in Int, NEW x \in Int
    PROVE  /\ Put(p, x) \in StoreRecord /\ Copy(p, x) \in StoreRecord
           /\ SetIndexBegin(p) \in StoreRecord /\ SetIndexEnd(p) \in StoreRecord
BY DEF Put, Copy, SetIndexBegin, SetIndexEnd, StoreRecord, Empty

LEMMA InsertsLeft ==
    ASSUME NEW order \in Nat, NEW key \in Int, indexBegin \in Nat, indexEnd \in Nat,
           InsertMovesLeft(indexEnd - indexBegin, order, 0 < indexBegin, indexEnd < Room)
    PROVE  LET s == InsertStores(order, key) IN
           /\ s \in Seq(StoreRecord) /\ Len(s) = order + 2
           /\ \A i \in 1..(order + 2) : s[i] = LeftStore(indexBegin, order, key, i)
<1>1. PICK f : f = indexBegin - 1
  OBVIOUS
<1>2. f \in Int /\ indexBegin = f + 1
  BY <1>1
<1>3. CASE order = 0
  <2>1. InsertStores(order, key) = <<Put(f, key), SetIndexBegin(f)>>
    BY <1>1, <1>3 DEF InsertStores
  <2>2. Put(f, key) \in StoreRecord /\ SetIndexBegin(f) \in StoreRecord
    BY <1>2, StoreTypes
  <2>3. /\ LeftStore(indexBegin, order, key, 1) = Put(f, key)
        /\ LeftStore(indexBegin, order, key, 2) = SetIndexBegin(f)
    BY <1>1, <1>2, <1>3 DEF LeftStore, Stored
  <2>4. PICK s : s = InsertStores(order, key)
    OBVIOUS
  <2>5. s \in Seq(StoreRecord) /\ Len(s) = 2 /\ s[1] = Put(f, key) /\ s[2] = SetIndexBegin(f)
    BY <2>1, <2>2, <2>4
  <2>6. QED
    BY <1>3, <2>3, <2>4, <2>5
<1>4. CASE order # 0
  <2>1. PICK u, v, w : /\ u = <<Copy(f, f + 1), SetIndexBegin(f)>>
                       /\ v = [i \in 1..(order - 1) |-> Copy(f + i, f + i + 1)]
                       /\ w = <<Put(f + order, key)>>
    OBVIOUS
  <2>2. InsertStores(order, key) = (u \o v) \o w
    BY <1>1, <1>4, <2>1 DEF InsertStores
  <2>3. u \in Seq(StoreRecord) /\ Len(u) = 2 /\ u[1] = Copy(f, f + 1) /\ u[2] = SetIndexBegin(f)
    BY <1>2, <2>1, StoreTypes
  <2>4. w \in Seq(StoreRecord) /\ Len(w) = 1 /\ w[1] = Put(f + order, key)
    <3>1. Put(f + order, key) \in StoreRecord
      BY <1>2, StoreTypes
    <3>2. QED
      BY <3>1, <2>1
  <2>5. /\ v \in Seq(StoreRecord) /\ Len(v) = order - 1
        /\ \A i \in 1..(order - 1) : v[i] = Copy(f + i, f + i + 1)
    <3>1. \A i \in 1..(order - 1) : Copy(f + i, f + i + 1) \in StoreRecord
      BY <1>2, StoreTypes
    <3>2. QED
      BY <1>4, <2>1, <3>1
  <2>6. /\ (u \o v) \o w \in Seq(StoreRecord)
        /\ Len((u \o v) \o w) = Len(u) + Len(v) + Len(w)
        /\ \A i \in 1..Len(u) : ((u \o v) \o w)[i] = u[i]
        /\ \A i \in 1..Len(v) : ((u \o v) \o w)[Len(u) + i] = v[i]
        /\ \A i \in 1..Len(w) : ((u \o v) \o w)[Len(u) + Len(v) + i] = w[i]
    <3>1. u \in Seq(StoreRecord) /\ v \in Seq(StoreRecord) /\ w \in Seq(StoreRecord)
      BY <2>3, <2>4, <2>5
    <3>2. IsChained(StoreRecord, u, v, w)
      BY <3>1, Chained, Zenon
    <3>3. QED
      BY <3>2 DEF IsChained
  <2>7. PICK s : s = InsertStores(order, key)
    OBVIOUS
  <2>8. /\ s \in Seq(StoreRecord) /\ Len(s) = order + 2
        /\ s[1] = Copy(f, f + 1) /\ s[2] = SetIndexBegin(f) /\ s[order + 2] = Put(f + order, key)
        /\ \A i \in 1..(order - 1) : s[2 + i] = Copy(f + i, f + i + 1)
    <3>1. Len(u) = 2 /\ Len(v) = order - 1 /\ Len(w) = 1 /\ s = (u \o v) \o w
      BY <2>2, <2>3, <2>4, <2>5, <2>7
    <3>2. 1 \in 1..Len(u) /\ 2 \in 1..Len(u) /\ 1 \in 1..Len(w) /\ Len(u) + Len(v) + 1 = order + 2
          /\ Len(u) + Len(v) + Len(w) = order + 2
      BY <3>1
    <3>3. s[1] = u[1] /\ s[2] = u[2] /\ s[order + 2] = w[1]
      BY <2>6, <3>1, <3>2
    <3>4. \A i \in 1..(order - 1) : s[2 + i] = v[i]
      BY <2>6, <3>1
    <3>5. s \in Seq(StoreRecord) /\ Len(s) = order + 2
      BY <2>6, <3>1, <3>2
    <3>6. QED
      BY <2>3, <2>4, <2>5, <3>3, <3>4, <3>5
  <2>9. ASSUME NEW i \in 1..(order + 2)
        PROVE  s[i] = LeftStore(indexBegin, order, key, i)
    <3>1. CASE i = 1 \/ i = 2
      BY <1>1, <1>2, <1>4, <2>8, <3>1 DEF LeftStore, Stored
    <3>2. CASE i = order + 2
      <4>1. Stored(i - 1) = order /\ i # 2
        BY <1>4, <3>2 DEF Stored
      <4>2. QED
        BY <1>2, <2>8, <3>2, <4>1 DEF LeftStore
    <3>3. CASE 2 < i /\ i < order + 2
      <4>1. PICK j \in 1..(order - 1) : i = 2 + j
        <5>1. i - 2 \in 1..(order - 1) /\ i = 2 + (i - 2)
          BY <3>3
        <5>2. QED
          BY <5>1
      <4>2. Stored(i - 1) = j /\ i # 2 /\ j # order
        BY <4>1 DEF Stored
      <4>3. LeftStore(indexBegin, order, key, i) = Copy(f + j, f + j + 1)
        BY <1>2, <4>1, <4>2 DEF LeftStore
      <4>4. s[2 + j] = Copy(f + j, f + j + 1)
        BY <2>8, <4>1
      <4>5. QED
        BY <4>1, <4>3, <4>4
    <3>4. QED
      BY <3>1, <3>2, <3>3
  <2>10. QED
    BY <2>7, <2>8, <2>9
<1>5. QED
  BY <1>3, <1>4

LEMMA InsertsRight ==
    ASSUME NEW order \in Nat, NEW key \in Int, indexBegin \in Nat, indexEnd \in Nat,
           NEW rest \in Nat, rest = indexEnd - indexBegin - order,
           ~InsertMovesLeft(indexEnd - indexBegin, order, 0 < indexBegin, indexEnd < Room)
    PROVE  LET s == InsertStores(order, key) IN
           /\ s \in Seq(StoreRecord) /\ Len(s) = rest + 2
           /\ \A i \in 1..(rest + 2) : s[i] = RightStore(indexBegin, indexEnd, order, key, i)
<1>1. PICK e : e = indexEnd
  OBVIOUS
<1>2. e \in Nat /\ indexBegin + order = e - rest /\ order <= indexEnd - indexBegin
  BY <1>1
<1>3. CASE rest = 0
  <2>0. order = indexEnd - indexBegin
    BY <1>2, <1>3
  <2>1. InsertStores(order, key) = <<Put(e, key), SetIndexEnd(e + 1)>>
    BY <1>1, <2>0 DEF InsertStores
  <2>2. Put(e, key) \in StoreRecord /\ SetIndexEnd(e + 1) \in StoreRecord
    BY <1>2, StoreTypes
  <2>3. /\ RightStore(indexBegin, indexEnd, order, key, 1) = Put(e, key)
        /\ RightStore(indexBegin, indexEnd, order, key, 2) = SetIndexEnd(e + 1)
    BY <1>1, <1>2, <1>3 DEF RightStore, Stored
  <2>4. PICK s : s = InsertStores(order, key)
    OBVIOUS
  <2>5. s \in Seq(StoreRecord) /\ Len(s) = 2 /\ s[1] = Put(e, key) /\ s[2] = SetIndexEnd(e + 1)
    BY <2>1, <2>2, <2>4
  <2>6. QED
    BY <1>3, <2>3, <2>4, <2>5
<1>4. CASE rest # 0
  <2>0. order # indexEnd - indexBegin /\ indexEnd - indexBegin - order - 1 = rest - 1
    BY <1>2, <1>4
  <2>1. PICK u, v, w : /\ u = <<Copy(e, e - 1), SetIndexEnd(e + 1)>>
                       /\ v = [i \in 1..(rest - 1) |-> Copy(e - i, e - i - 1)]
                       /\ w = <<Put(indexBegin + order, key)>>
    OBVIOUS
  <2>2. InsertStores(order, key) = (u \o v) \o w
    BY <1>1, <2>0, <2>1 DEF InsertStores
  <2>3. u \in Seq(StoreRecord) /\ Len(u) = 2 /\ u[1] = Copy(e, e - 1) /\ u[2] = SetIndexEnd(e + 1)
    BY <1>2, <2>1, StoreTypes
  <2>4. w \in Seq(StoreRecord) /\ Len(w) = 1 /\ w[1] = Put(indexBegin + order, key)
    <3>1. Put(indexBegin + order, key) \in StoreRecord
      BY <1>2, StoreTypes
    <3>2. QED
      BY <3>1, <2>1
  <2>5. /\ v \in Seq(StoreRecord) /\ Len(v) = rest - 1
        /\ \A i \in 1..(rest - 1) : v[i] = Copy(e - i, e - i - 1)
    <3>1. \A i \in 1..(rest - 1) : Copy(e - i, e - i - 1) \in StoreRecord
      BY <1>2, StoreTypes
    <3>2. QED
      BY <1>4, <2>1, <3>1
  <2>6. /\ (u \o v) \o w \in Seq(StoreRecord)
        /\ Len((u \o v) \o w) = Len(u) + Len(v) + Len(w)
        /\ \A i \in 1..Len(u) : ((u \o v) \o w)[i] = u[i]
        /\ \A i \in 1..Len(v) : ((u \o v) \o w)[Len(u) + i] = v[i]
        /\ \A i \in 1..Len(w) : ((u \o v) \o w)[Len(u) + Len(v) + i] = w[i]
    <3>1. u \in Seq(StoreRecord) /\ v \in Seq(StoreRecord) /\ w \in Seq(StoreRecord)
      BY <2>3, <2>4, <2>5
    <3>2. IsChained(StoreRecord, u, v, w)
      BY <3>1, Chained, Zenon
    <3>3. QED
      BY <3>2 DEF IsChained
  <2>7. PICK s : s = InsertStores(order, key)
    OBVIOUS
  <2>8. /\ s \in Seq(StoreRecord) /\ Len(s) = rest + 2
        /\ s[1] = Copy(e, e - 1) /\ s[2] = SetIndexEnd(e + 1)
        /\ s[rest + 2] = Put(indexBegin + order, key)
        /\ \A i \in 1..(rest - 1) : s[2 + i] = Copy(e - i, e - i - 1)
    <3>1. Len(u) = 2 /\ Len(v) = rest - 1 /\ Len(w) = 1 /\ s = (u \o v) \o w
      BY <2>2, <2>3, <2>4, <2>5, <2>7
    <3>2. 1 \in 1..Len(u) /\ 2 \in 1..Len(u) /\ 1 \in 1..Len(w) /\ Len(u) + Len(v) + 1 = rest + 2
          /\ Len(u) + Len(v) + Len(w) = rest + 2
      BY <3>1
    <3>3. s[1] = u[1] /\ s[2] = u[2] /\ s[rest + 2] = w[1]
      BY <2>6, <3>1, <3>2
    <3>4. \A i \in 1..(rest - 1) : s[2 + i] = v[i]
      BY <2>6, <3>1
    <3>5. s \in Seq(StoreRecord) /\ Len(s) = rest + 2
      BY <2>6, <3>1, <3>2
    <3>6. QED
      BY <2>3, <2>4, <2>5, <3>3, <3>4, <3>5
  <2>9. ASSUME NEW i \in 1..(rest + 2)
        PROVE  s[i] = RightStore(indexBegin, indexEnd, order, key, i)
    <3>0. CASE i = 1
      <4>1. Stored(i - 1) = 0 /\ e - 0 = e /\ e # indexBegin + order /\ i # 2
        BY <1>2, <1>4, <3>0 DEF Stored
      <4>2. QED
        BY <1>1, <2>8, <3>0, <4>1 DEF RightStore
    <3>1. CASE i = 2
      BY <1>1, <2>8, <3>1 DEF RightStore
    <3>2. CASE i = rest + 2
      <4>1. Stored(i - 1) = rest /\ i # 2
        BY <1>4, <3>2 DEF Stored
      <4>2. QED
        BY <1>1, <1>2, <2>8, <3>2, <4>1 DEF RightStore
    <3>3. CASE 2 < i /\ i < rest + 2
      <4>1. PICK j \in 1..(rest - 1) : i = 2 + j
        <5>1. i - 2 \in 1..(rest - 1) /\ i = 2 + (i - 2)
          BY <3>3
        <5>2. QED
          BY <5>1
      <4>2. Stored(i - 1) = j /\ i # 2 /\ j # rest
        BY <4>1 DEF Stored
      <4>3. RightStore(indexBegin, indexEnd, order, key, i) = Copy(e - j, e - j - 1)
        BY <1>1, <1>2, <4>1, <4>2 DEF RightStore
      <4>4. s[2 + j] = Copy(e - j, e - j - 1)
        BY <2>8, <4>1
      <4>5. QED
        BY <4>1, <4>3, <4>4
    <3>4. QED
      BY <3>0, <3>1, <3>2, <3>3
  <2>10. QED
    BY <2>7, <2>8, <2>9
<1>5. QED
  BY <1>3, <1>4

LEMMA Appended ==
    ASSUME NEW S, NEW u \in Seq(S), NEW x \in S
    PROVE  /\ u \o <<x>> \in Seq(S) /\ Len(u \o <<x>>) = Len(u) + 1
           /\ \A i \in 1..Len(u) : (u \o <<x>>)[i] = u[i]
           /\ (u \o <<x>>)[Len(u) + 1] = x
<1>1. PICK w : w = <<x>>
  OBVIOUS
<1>2. w \in Seq(S) /\ Len(w) = 1 /\ w[1] = x
  BY <1>1
<1>3. /\ u \o w \in Seq(S) /\ Len(u \o w) = Len(u) + Len(w)
      /\ \A i \in 1..(Len(u) + Len(w)) : (u \o w)[i] = IF i <= Len(u) THEN u[i] ELSE w[i - Len(u)]
  BY <1>2, ConcatProperties
<1>4. Len(u) \in Nat
  BY LenProperties
<1>5. QED
  BY <1>1, <1>2, <1>3, <1>4

LEMMA RemovesLeft ==
    ASSUME NEW order \in Nat, indexBegin \in Nat, indexEnd \in Nat,
           RemoveMovesLeft(indexEnd - indexBegin, order)
    PROVE  LET s == RemoveStores(order) IN
           /\ s \in Seq(StoreRecord) /\ Len(s) = order + 1
           /\ \A i \in 1..(order + 1) : s[i] = FromLeftStore(indexBegin, order, i)
<1>1. PICK b : b = indexBegin
  OBVIOUS
<1>2. PICK u, x : /\ u = [i \in 1..order |-> Copy(b + order + 1 - i, b + order - i)]
                  /\ x = SetIndexBegin(b + 1)
  OBVIOUS
<1>3. RemoveStores(order) = u \o <<x>>
  BY <1>1, <1>2 DEF RemoveStores
<1>4. \A i \in 1..order : Copy(b + order + 1 - i, b + order - i) \in StoreRecord
  BY <1>1, StoreTypes
<1>5. /\ u \in Seq(StoreRecord) /\ Len(u) = order /\ x \in StoreRecord
      /\ \A i \in 1..order : u[i] = Copy(b + order + 1 - i, b + order - i)
  BY <1>1, <1>2, <1>4, StoreTypes
<1>6. PICK s : s = u \o <<x>>
  OBVIOUS
<1>7. /\ s \in Seq(StoreRecord) /\ Len(s) = order + 1 /\ s[order + 1] = x
      /\ \A i \in 1..order : s[i] = u[i]
  BY <1>5, <1>6, Appended
<1>8. ASSUME NEW i \in 1..(order + 1) PROVE s[i] = FromLeftStore(b, order, i)
  <2>1. CASE i = order + 1
    BY <1>1, <1>2, <1>7, <2>1 DEF FromLeftStore
  <2>2. CASE i # order + 1
    <3>1. i \in 1..order /\ b + order + 1 - i # b /\ b + order - i = (b + order + 1 - i) - 1
      BY <1>1, <2>2
    <3>2. QED
      BY <1>5, <1>7, <3>1 DEF FromLeftStore
  <2>3. QED
    BY <2>1, <2>2
<1>9. QED
  BY <1>1, <1>3, <1>6, <1>7, <1>8

LEMMA RemovesRight ==
    ASSUME NEW order \in Nat, indexBegin \in Nat, indexEnd \in Nat,
           NEW rest \in Nat \ {0}, rest = indexEnd - indexBegin - order,
           ~RemoveMovesLeft(indexEnd - indexBegin, order)
    PROVE  LET s == RemoveStores(order) IN
           /\ s \in Seq(StoreRecord) /\ Len(s) = rest
           /\ \A i \in 1..rest : s[i] = FromRightStore(indexBegin, indexEnd, order, i)
<1>1. PICK b, e : b = indexBegin /\ e = indexEnd
  OBVIOUS
<1>2. PICK u, x : /\ u = [i \in 1..(rest - 1) |-> Copy(b + order + i - 1, b + order + i)]
                  /\ x = SetIndexEnd(e - 1)
  OBVIOUS
<1>2a. indexEnd - indexBegin - order - 1 = rest - 1
  OBVIOUS
<1>3. RemoveStores(order) = u \o <<x>>
  BY <1>1, <1>2, <1>2a DEF RemoveStores
<1>4. \A i \in 1..(rest - 1) : Copy(b + order + i - 1, b + order + i) \in StoreRecord
  BY <1>1, StoreTypes
<1>5. /\ u \in Seq(StoreRecord) /\ Len(u) = rest - 1 /\ x \in StoreRecord
      /\ \A i \in 1..(rest - 1) : u[i] = Copy(b + order + i - 1, b + order + i)
  BY <1>1, <1>2, <1>4, StoreTypes
<1>6. PICK s : s = u \o <<x>>
  OBVIOUS
<1>7. /\ s \in Seq(StoreRecord) /\ Len(s) = rest /\ s[rest] = x
      /\ \A i \in 1..(rest - 1) : s[i] = u[i]
  <2>1. Len(u) + 1 = rest
    BY <1>5
  <2>2. /\ s \in Seq(StoreRecord) /\ Len(s) = Len(u) + 1 /\ s[Len(u) + 1] = x
        /\ \A i \in 1..Len(u) : s[i] = u[i]
    <3>1. u \in Seq(StoreRecord) /\ x \in StoreRecord /\ s = u \o <<x>>
      BY <1>5, <1>6
    <3>2. QED
      BY ONLY <3>1, Appended
  <2>3. QED
    BY <1>5, <2>1, <2>2
<1>8. ASSUME NEW i \in 1..rest PROVE s[i] = FromRightStore(b, e, order, i)
  <2>1. CASE i = rest
    BY <1>1, <1>2, <1>7, <2>1 DEF FromRightStore
  <2>2. CASE i # rest
    <3>1. i \in 1..(rest - 1) /\ b + order + i - 1 # e - 1 /\ b + order + i = (b + order + i - 1) + 1
      BY <1>1, <2>2
    <3>2. QED
      BY <1>5, <1>7, <3>1 DEF FromRightStore
  <2>3. QED
    BY <2>1, <2>2
<1>9. QED
  BY <1>1, <1>3, <1>6, <1>7, <1>8

-----------------------------------------------------------------------------
(* Write sessions begin.                                                   *)

LEMMA Parity ==
    ASSUME NEW s \in Nat
    PROVE  IsCorrupted(s + 1) <=> ~IsCorrupted(s)
BY DEF IsCorrupted

LEMMA ReaderKept ==
    ASSUME TypeInv, SessionInv, KnownInv, search' = search, state' \in Nat, state <= state',
           IsCorrupted(state) \/ state < state'
    PROVE  SessionInv' /\ KnownInv'
<1>1. search \in SearchRecord /\ state \in Nat /\ search.enter \in Nat
  BY BoundsAreNatural DEF TypeInv, SearchRecord
<1>2. ASSUME search.at # "idle" PROVE state' # search.enter
  <2>1. ~IsCorrupted(search.enter) /\ search.enter <= state
    BY <1>2 DEF SessionInv
  <2>2. search.enter # state \/ state < state'
    BY <2>1
  <2>3. QED
    BY <1>1, <2>1, <2>2
<1>3. ~Fresh' \/ search.at = "idle"
  BY <1>2 DEF Fresh
<1>4. SessionInv'
  <2>1. ASSUME search.at # "idle"
        PROVE  ~IsCorrupted(search.enter) /\ search.enter <= state'
    BY <1>1, <2>1 DEF SessionInv
  <2>2. QED
    BY <1>3, <2>1 DEF SessionInv
<1>5. Narrowed' = Narrowed /\ Hit' = Hit /\ Tester' = Tester
  BY DEF Narrowed, Hit, Tester
<1>6. KnownInv'
  BY <1>3, <1>5 DEF KnownInv
<1>7. QED
  BY <1>4, <1>6

\* The memory at the beginning of a session.
LEMMA OldSlots ==
    ASSUME TypeInv, before' = Slots, NEW b, b = indexBegin
    PROVE  \A p \in b..(indexEnd - 1) : OldSlot(b, p)' = memory[p]
<1> SUFFICES ASSUME NEW p \in b..(indexEnd - 1)
             PROVE  Slots[p - b + 1] = memory[p]
  BY DEF OldSlot
<1>1. b \in Nat /\ indexEnd \in Nat
  BY BoundsAreNatural DEF TypeInv
<1>2. p - b + 1 \in 1..(indexEnd - b) /\ b + (p - b + 1) - 1 = p
  BY <1>1
<1>3. QED
  BY <1>2, SlotsAre

LEMMA BeginInsertInv ==
    ASSUME IInv, NEW key \in Keys, BeginInsert(key)
    PROVE  IInv'
<1>1. PICK b, e, n : b = indexBegin /\ e = indexEnd /\ n = e - b
  OBVIOUS
<1>2. PICK order : order = OrderOf(Slots, key)
  OBVIOUS
<1>3. /\ ~IsCorrupted(state) /\ state < 2 * MaxWrites /\ state' = state + 1
      /\ before' = Slots /\ change' = [kind |-> "insert", order |-> order, key |-> key]
      /\ program' = InsertStores(order, key)
      /\ memory' = memory /\ indexBegin' = indexBegin /\ indexEnd' = indexEnd /\ search' = search
      /\ \A i \in DOMAIN Slots : Slots[i] # key
      /\ 0 < indexBegin \/ indexEnd < Room
  BY <1>2 DEF BeginInsert, BeginWrite
<1>4. /\ b \in 0..Room /\ e \in 0..Room /\ n \in Nat /\ Room \in Nat /\ MaxWrites \in Nat
      /\ b \in Nat /\ e \in Nat /\ state \in Nat /\ key \in Int /\ key \in Nat
  BY <1>1, BoundsAreNatural, KeysArePositive DEF IInv, TypeInv
<1>5. Slots \in Seq(Keys) /\ Sorted(Slots) /\ Len(Slots) = n
  BY <1>1, <1>3, SlotsAre DEF IInv, WriterInv
<1>6. Belongs(Slots, order, key)
  <2>1. DOMAIN Slots = 1..Len(Slots)
    BY <1>5
  <2>2. QED
    BY <1>2, <1>3, <1>5, <2>1, OrderIsPlace
<1>7. order \in Nat /\ order <= n
  BY <1>5, <1>6 DEF Belongs
<1>8. SessionInv' /\ KnownInv'
  <2>1. state' \in Nat /\ state < state'
    BY <1>3, <1>4
  <2>2. QED
    BY <1>3, <1>4, <2>1, ReaderKept DEF IInv
<1>9. IsCorrupted(state') /\ state' \in 0..(2 * MaxWrites)
  BY <1>3, <1>4, Parity
<1>10. Belongs(before', change'.order, change'.key) /\ Inserts' /\ change' \in ChangeRecord
  BY <1>3, <1>6, <1>7 DEF Inserts, ChangeRecord
<1>11. \A p \in b..(e - 1) : OldSlot(b, p)' = memory[p]
  BY <1>1, <1>3, OldSlots DEF IInv, OldSlot
<1>12. CASE InsertMovesLeft(n, order, 0 < b, e < Room)
  <2>1. /\ program' \in Seq(StoreRecord) /\ Len(program') = order + 2
        /\ \A i \in 1..(order + 2) : program'[i] = LeftStore(b, order, key, i)
    BY <1>1, <1>3, <1>4, <1>7, <1>12, InsertsLeft
  <2>2. 0 < b
    BY <1>12 DEF InsertMovesLeft
  <2>3. InsertingLeft(b, e, 0)'
    <3>1. \A p \in (b - 1)..(e - 1) :
             IF p < b - 1 + Stored(0)
             THEN memory'[p] = IF p = b - 1 + change'.order THEN change'.key ELSE OldSlot(b, p + 1)'
             ELSE b <= p => memory'[p] = OldSlot(b, p)'
      BY <1>3, <1>4, <1>11 DEF Stored
    <3>2. /\ Len(program') = change'.order + 2 - 0
          /\ \A i \in 1..Len(program') : program'[i] = LeftStore(b, change'.order, change'.key, 0 + i)
      BY <1>3, <1>7, <2>1
    <3>3. indexBegin' = (IF 0 < 2 THEN b ELSE b - 1) /\ indexEnd' = e
      BY <1>1, <1>3
    <3>4. QED
      BY <1>10, <2>2, <3>1, <3>2, <3>3 DEF InsertingLeft
  <2>4. WriterInv'
    BY <1>1, <1>3, <1>4, <1>5, <1>9, <2>3 DEF WriterInv, Session
  <2>5. TypeInv'
    BY <1>3, <1>5, <1>9, <1>10, <2>1 DEF IInv, TypeInv
  <2>6. QED
    BY <1>8, <2>4, <2>5 DEF IInv
<1>13. CASE ~InsertMovesLeft(n, order, 0 < b, e < Room)
  <2>0. PICK rest \in Nat : rest = e - b - order
    BY <1>1, <1>4, <1>7
  <2>1. /\ program' \in Seq(StoreRecord) /\ Len(program') = rest + 2
        /\ \A i \in 1..(rest + 2) : program'[i] = RightStore(b, e, order, key, i)
    BY <1>1, <1>3, <1>4, <1>7, <1>13, <2>0, InsertsRight
  <2>2. e < Room
    BY <1>1, <1>3, <1>13 DEF InsertMovesLeft
  <2>3. InsertingRight(b, e, 0)'
    <3>1. \A p \in b..e :
             IF e - Stored(0) < p
             THEN memory'[p] = IF p = b + change'.order THEN change'.key ELSE OldSlot(b, p - 1)'
             ELSE p < e => memory'[p] = OldSlot(b, p)'
      BY <1>3, <1>4, <1>11 DEF Stored
    <3>2. /\ Len(program') = e - b - change'.order + 2 - 0
          /\ \A i \in 1..Len(program') : program'[i] = RightStore(b, e, change'.order, change'.key, 0 + i)
      BY <1>3, <1>4, <1>7, <2>0, <2>1
    <3>3. indexBegin' = b /\ indexEnd' = (IF 0 < 2 THEN e ELSE e + 1)
      BY <1>1, <1>3
    <3>4. QED
      BY <1>10, <2>2, <3>1, <3>2, <3>3 DEF InsertingRight
  <2>4. WriterInv'
    BY <1>1, <1>3, <1>4, <1>5, <1>9, <2>3 DEF WriterInv, Session
  <2>5. TypeInv'
    BY <1>3, <1>5, <1>9, <1>10, <2>1 DEF IInv, TypeInv
  <2>6. QED
    BY <1>8, <2>4, <2>5 DEF IInv
<1>14. QED
  BY <1>12, <1>13

LEMMA BeginRemoveInv ==
    ASSUME IInv, NEW order \in 0..(Room - 1), BeginRemove(order)
    PROVE  IInv'
<1>1. PICK b, e, n : b = indexBegin /\ e = indexEnd /\ n = e - b
  OBVIOUS
<1>2. order \in Nat
  BY BoundsAreNatural
<1>3. /\ ~IsCorrupted(state) /\ state < 2 * MaxWrites /\ state' = state + 1
      /\ before' = Slots /\ change' = [kind |-> "remove", order |-> order, key |-> Empty]
      /\ program' = RemoveStores(order)
      /\ memory' = memory /\ indexBegin' = indexBegin /\ indexEnd' = indexEnd /\ search' = search
      /\ order < Len(Slots)
  BY DEF BeginRemove, BeginWrite
<1>4. /\ b \in 0..Room /\ e \in 0..Room /\ n \in Nat /\ Room \in Nat /\ MaxWrites \in Nat
      /\ b \in Nat /\ e \in Nat /\ state \in Nat
  BY <1>1, BoundsAreNatural DEF IInv, TypeInv
<1>5. Slots \in Seq(Keys) /\ Sorted(Slots) /\ Len(Slots) = n
  BY <1>1, <1>3, SlotsAre DEF IInv, WriterInv
<1>8. SessionInv' /\ KnownInv'
  <2>1. state' \in Nat /\ state < state'
    BY <1>3, <1>4
  <2>2. QED
    BY <1>3, <1>4, <2>1, ReaderKept DEF IInv
<1>9. IsCorrupted(state') /\ state' \in 0..(2 * MaxWrites)
  BY <1>3, <1>4, Parity
<1>10. Removes' /\ change' \in ChangeRecord
  BY <1>2, <1>3 DEF Removes, ChangeRecord, Empty
<1>11. \A p \in b..(e - 1) : OldSlot(b, p)' = memory[p]
  BY <1>1, <1>3, OldSlots DEF IInv, OldSlot
<1>12. CASE RemoveMovesLeft(n, order)
  <2>1. /\ program' \in Seq(StoreRecord) /\ Len(program') = order + 1
        /\ \A i \in 1..(order + 1) : program'[i] = FromLeftStore(b, order, i)
    BY <1>1, <1>2, <1>3, <1>4, <1>12, RemovesLeft
  <2>2. RemovingLeft(b, e, 0)'
    <3>1. \A p \in b..(e - 1) :
             IF b + change'.order - 0 < p /\ p <= b + change'.order
             THEN b < p => memory'[p] = OldSlot(b, p - 1)'
             ELSE memory'[p] = OldSlot(b, p)'
      BY <1>2, <1>3, <1>4, <1>11
    <3>2. /\ Len(program') = change'.order + 1 - 0
          /\ \A i \in 1..Len(program') : program'[i] = FromLeftStore(b, change'.order, 0 + i)
      BY <1>2, <1>3, <2>1
    <3>3. indexBegin' = (IF 0 <= change'.order THEN b ELSE b + 1) /\ indexEnd' = e
      BY <1>1, <1>2, <1>3
    <3>4. QED
      BY <1>10, <3>1, <3>2, <3>3 DEF RemovingLeft
  <2>3. WriterInv'
    BY <1>1, <1>3, <1>4, <1>5, <1>9, <2>2 DEF WriterInv, Session
  <2>4. TypeInv'
    BY <1>3, <1>5, <1>9, <1>10, <2>1 DEF IInv, TypeInv
  <2>5. QED
    BY <1>8, <2>3, <2>4 DEF IInv
<1>13. CASE ~RemoveMovesLeft(n, order)
  <2>0. PICK rest \in Nat \ {0} : rest = e - b - order
    BY <1>1, <1>2, <1>3, <1>4, <1>5
  <2>1. /\ program' \in Seq(StoreRecord) /\ Len(program') = rest
        /\ \A i \in 1..rest : program'[i] = FromRightStore(b, e, order, i)
    BY <1>1, <1>2, <1>3, <1>4, <1>13, <2>0, RemovesRight
  <2>2. RemovingRight(b, e, 0)'
    <3>1. \A p \in b..(e - 1) :
             IF b + change'.order <= p /\ p < b + change'.order + 0
             THEN p < e - 1 => memory'[p] = OldSlot(b, p + 1)'
             ELSE memory'[p] = OldSlot(b, p)'
      BY <1>2, <1>3, <1>4, <1>11
    <3>2. /\ Len(program') = e - b - change'.order - 0
          /\ \A i \in 1..Len(program') : program'[i] = FromRightStore(b, e, change'.order, 0 + i)
      BY <1>2, <1>3, <1>4, <2>0, <2>1
    <3>3. indexBegin' = b /\ indexEnd' = (IF 0 < e - b - change'.order THEN e ELSE e - 1)
      BY <1>1, <1>2, <1>3, <2>0
    <3>4. QED
      BY <1>10, <3>1, <3>2, <3>3 DEF RemovingRight
  <2>3. WriterInv'
    BY <1>1, <1>3, <1>4, <1>5, <1>9, <2>2 DEF WriterInv, Session
  <2>4. TypeInv'
    BY <1>3, <1>5, <1>9, <1>10, <2>1 DEF IInv, TypeInv
  <2>5. QED
    BY <1>8, <2>3, <2>4 DEF IInv
<1>14. QED
  BY <1>12, <1>13

-----------------------------------------------------------------------------
(* One store of a session.                                                 *)

\* What Store makes of the program and, for the store that is next, of the rest.
LEMMA StoreIs ==
    ASSUME TypeInv, Store
    PROVE  /\ Len(program) \in Nat \ {0} /\ program[1] \in StoreRecord
           /\ program' \in Seq(StoreRecord) /\ Len(program') = Len(program) - 1
           /\ \A i \in 1..Len(program') : program'[i] = program[i + 1]
           /\ UNCHANGED <<state, change, before, search>>
           /\ program[1].store = "put" =>
                /\ memory' = [memory EXCEPT ![program[1].to] = program[1].value]
                /\ UNCHANGED <<indexBegin, indexEnd>>
           /\ program[1].store = "copy" =>
                /\ memory' = [memory EXCEPT ![program[1].to] = memory[program[1].value]]
                /\ UNCHANGED <<indexBegin, indexEnd>>
           /\ program[1].store = "begin" => indexBegin' = program[1].to /\ UNCHANGED <<memory, indexEnd>>
           /\ program[1].store = "end" => indexEnd' = program[1].to /\ UNCHANGED <<memory, indexBegin>>
<1>1. program \in Seq(StoreRecord) /\ program # <<>>
  BY DEF TypeInv, Store
<1>2. Len(program) \in Nat \ {0} /\ program[1] \in StoreRecord /\ Head(program) = program[1]
  BY <1>1
<1>3. program' = Tail(program) /\ UNCHANGED <<state, change, before, search>>
  BY DEF Store
<1>4. /\ program' \in Seq(StoreRecord) /\ Len(program') = Len(program) - 1
      /\ \A i \in 1..Len(program') : program'[i] = program[i + 1]
  BY <1>1, <1>3
<1>5. PICK s : s = Head(program)
  OBVIOUS
<1>6. /\ memory' = CASE s.store = "put" -> [memory EXCEPT ![s.to] = s.value]
                     [] s.store = "copy" -> [memory EXCEPT ![s.to] = memory[s.value]]
                     [] OTHER -> memory
      /\ indexBegin' = IF s.store = "begin" THEN s.to ELSE indexBegin
      /\ indexEnd' = IF s.store = "end" THEN s.to ELSE indexEnd
  BY <1>5 DEF Store
<1>7. QED
  BY <1>2, <1>3, <1>4, <1>5, <1>6

\* The memory and its bounds keep their types.
Bounded == /\ memory \in [0..(Room - 1) -> Keys \cup {Empty}]
           /\ indexBegin \in 0..Room /\ indexEnd \in indexBegin..Room

LEMMA InsertingLeftStep ==
    ASSUME TypeInv, Store, NEW b \in 0..Room, NEW e \in 0..Room, Len(before) = e - b,
           NEW k \in Nat, InsertingLeft(b, e, k)
    PROVE  InsertingLeft(b, e, k + 1)' /\ Bounded'
<1>1. PICK o, key : o = change.order /\ key = change.key
  OBVIOUS
<1>2. /\ o \in 0..(e - b) /\ key \in Keys /\ 0 < b /\ b \in Nat /\ e \in Nat /\ Room \in Nat
      /\ b <= e /\ e <= Room /\ b <= Room /\ k \in Nat
      /\ memory \in [0..(Room - 1) -> Keys \cup {Empty}]
  BY <1>1, BoundsAreNatural DEF InsertingLeft, Inserts, Belongs, TypeInv
<1>3. PICK s : s = program[1]
  OBVIOUS
<1>4. /\ s = LeftStore(b, o, key, k + 1) /\ k + 1 <= o + 2
      /\ Len(program') = o + 2 - (k + 1)
      /\ \A i \in 1..Len(program') : program'[i] = LeftStore(b, o, key, k + 1 + i)
  <2>1. /\ Len(program) = o + 2 - k
        /\ \A i \in 1..Len(program) : program[i] = LeftStore(b, o, key, k + i)
        /\ Len(program) \in Nat \ {0} /\ Len(program') = Len(program) - 1
        /\ \A i \in 1..Len(program') : program'[i] = program[i + 1]
    BY <1>1, StoreIs DEF InsertingLeft
  <2>2. 1 \in 1..Len(program) /\ \A i \in 1..Len(program') : i + 1 \in 1..Len(program) /\ k + (i + 1) = k + 1 + i
    BY <1>2, <2>1
  <2>3. QED
    BY <1>2, <1>3, <2>1, <2>2
<1>5. /\ change'.order = o /\ change'.key = key /\ Inserts' /\ Belongs(before', change'.order, change'.key)
      /\ \A p : OldSlot(b, p)' = OldSlot(b, p)
  BY <1>1, StoreIs DEF InsertingLeft, Inserts, OldSlot
<1>6. /\ indexBegin = (IF k < 2 THEN b ELSE b - 1) /\ indexEnd = e
      /\ \A p \in (b - 1)..(e - 1) :
           IF p < b - 1 + Stored(k)
           THEN memory[p] = IF p = b - 1 + o THEN key ELSE OldSlot(b, p + 1)
           ELSE b <= p => memory[p] = OldSlot(b, p)
  BY <1>1 DEF InsertingLeft
<1>7. /\ indexBegin' = (IF k + 1 < 2 THEN b ELSE b - 1) /\ indexEnd' = e
      /\ memory' \in [0..(Room - 1) -> Keys \cup {Empty}]
      /\ \A p \in (b - 1)..(e - 1) :
           IF p < b - 1 + Stored(k + 1)
           THEN memory'[p] = IF p = b - 1 + o THEN key ELSE OldSlot(b, p + 1)
           ELSE b <= p => memory'[p] = OldSlot(b, p)
  <2>1. CASE k = 1
    <3>1. s = SetIndexBegin(b - 1) /\ Stored(k + 1) = Stored(k)
      BY <1>2, <1>4, <2>1 DEF LeftStore, Stored
    <3>2. indexBegin' = b - 1 /\ UNCHANGED <<memory, indexEnd>>
      BY <1>3, <3>1, StoreIs DEF SetIndexBegin
    <3>3. QED
      BY <1>2, <1>6, <2>1, <3>1, <3>2
  <2>2. CASE k # 1
    <3>1. PICK q : q = b - 1 + Stored(k)
      OBVIOUS
    <3>2. /\ Stored(k + 1) = Stored(k) + 1 /\ Stored(k) \in 0..o
          /\ q \in Nat /\ b - 1 <= q /\ q <= b - 1 + o /\ q <= e - 1 /\ q \in 0..(Room - 1)
          /\ b - 1 + Stored(k + 1) = q + 1
      BY <1>2, <1>4, <2>2, <3>1 DEF Stored
    <3>3. s = IF q = b - 1 + o THEN Put(q, key) ELSE Copy(q, q + 1)
      <4>1. k + 1 # 2 /\ (k + 1) - 1 = k
        BY <1>2, <2>2
      <4>2. QED
        BY <1>4, <3>1, <4>1 DEF LeftStore
    <3>4. PICK x \in Keys \cup {Empty} :
             /\ memory' = [memory EXCEPT ![q] = x] /\ UNCHANGED <<indexBegin, indexEnd>>
             /\ x = IF q = b - 1 + o THEN key ELSE OldSlot(b, q + 1)
      <4>1. CASE q = b - 1 + o
        BY <1>2, <1>3, <3>3, <4>1, StoreIs DEF Put
      <4>2. CASE q # b - 1 + o
        <5>1. q + 1 \in b..(e - 1) /\ q + 1 \in 0..(Room - 1) /\ ~(q + 1 < q)
          BY <1>2, <3>2, <4>2
        <5>2. memory[q + 1] = OldSlot(b, q + 1)
          BY <1>2, <1>6, <3>1, <3>2, <5>1
        <5>3. memory' = [memory EXCEPT ![q] = memory[q + 1]] /\ UNCHANGED <<indexBegin, indexEnd>>
          BY <1>3, <3>3, <4>2, StoreIs DEF Copy
        <5>4. QED
          BY <1>2, <4>2, <5>1, <5>2, <5>3
      <4>3. QED
        BY <4>1, <4>2
    <3>5. ASSUME NEW p \in (b - 1)..(e - 1)
          PROVE  IF p < q + 1
                 THEN memory'[p] = IF p = b - 1 + o THEN key ELSE OldSlot(b, p + 1)
                 ELSE b <= p => memory'[p] = OldSlot(b, p)
      <4>1. p \in 0..(Room - 1) /\ p \in Int
        BY <1>2
      <4>2. CASE p = q
        BY <1>2, <3>2, <3>4, <4>1, <4>2
      <4>3. CASE p # q
        BY <1>2, <1>6, <3>1, <3>2, <3>4, <4>1, <4>3
      <4>4. QED
        BY <4>2, <4>3
    <3>6. memory' \in [0..(Room - 1) -> Keys \cup {Empty}]
      BY <1>2, <3>2, <3>4
    <3>7. indexBegin' = (IF k + 1 < 2 THEN b ELSE b - 1) /\ indexEnd' = e
      BY <1>2, <1>6, <2>2, <3>4
    <3>8. QED
      BY <3>2, <3>5, <3>6, <3>7
  <2>3. QED
    BY <2>1, <2>2
<1>8. InsertingLeft(b, e, k + 1)'
  BY <1>2, <1>4, <1>5, <1>7 DEF InsertingLeft
<1>9. Bounded'
  BY <1>2, <1>7 DEF Bounded
<1>10. QED
  BY <1>8, <1>9

LEMMA InsertingRightStep ==
    ASSUME TypeInv, Store, NEW b \in 0..Room, NEW e \in 0..Room, Len(before) = e - b,
           NEW k \in Nat, InsertingRight(b, e, k)
    PROVE  InsertingRight(b, e, k + 1)' /\ Bounded'
<1>1. PICK o, key : o = change.order /\ key = change.key
  OBVIOUS
<1>2. /\ o \in 0..(e - b) /\ key \in Keys /\ e < Room /\ b \in Nat /\ e \in Nat /\ Room \in Nat
      /\ b <= e /\ e <= Room /\ b <= Room /\ k \in Nat
      /\ memory \in [0..(Room - 1) -> Keys \cup {Empty}]
  BY <1>1, BoundsAreNatural DEF InsertingRight, Inserts, Belongs, TypeInv
<1>3. PICK s : s = program[1]
  OBVIOUS
<1>4. /\ s = RightStore(b, e, o, key, k + 1) /\ k + 1 <= e - b - o + 2
      /\ Len(program') = e - b - o + 2 - (k + 1)
      /\ \A i \in 1..Len(program') : program'[i] = RightStore(b, e, o, key, k + 1 + i)
  <2>1. /\ Len(program) = e - b - o + 2 - k
        /\ \A i \in 1..Len(program) : program[i] = RightStore(b, e, o, key, k + i)
        /\ Len(program) \in Nat \ {0} /\ Len(program') = Len(program) - 1
        /\ \A i \in 1..Len(program') : program'[i] = program[i + 1]
    BY <1>1, StoreIs DEF InsertingRight
  <2>2. 1 \in 1..Len(program) /\ \A i \in 1..Len(program') : i + 1 \in 1..Len(program) /\ k + (i + 1) = k + 1 + i
    BY <1>2, <2>1
  <2>3. QED
    BY <1>2, <1>3, <2>1, <2>2
<1>5. /\ change'.order = o /\ change'.key = key /\ Inserts' /\ Belongs(before', change'.order, change'.key)
      /\ \A p : OldSlot(b, p)' = OldSlot(b, p)
  BY <1>1, StoreIs DEF InsertingRight, Inserts, OldSlot
<1>6. /\ indexBegin = b /\ indexEnd = (IF k < 2 THEN e ELSE e + 1)
      /\ \A p \in b..e :
           IF e - Stored(k) < p
           THEN memory[p] = IF p = b + o THEN key ELSE OldSlot(b, p - 1)
           ELSE p < e => memory[p] = OldSlot(b, p)
  BY <1>1 DEF InsertingRight
<1>7. /\ indexBegin' = b /\ indexEnd' = (IF k + 1 < 2 THEN e ELSE e + 1)
      /\ memory' \in [0..(Room - 1) -> Keys \cup {Empty}]
      /\ \A p \in b..e :
           IF e - Stored(k + 1) < p
           THEN memory'[p] = IF p = b + o THEN key ELSE OldSlot(b, p - 1)
           ELSE p < e => memory'[p] = OldSlot(b, p)
  <2>1. CASE k = 1
    <3>1. s = SetIndexEnd(e + 1) /\ Stored(k + 1) = Stored(k)
      BY <1>2, <1>4, <2>1 DEF RightStore, Stored
    <3>2. indexEnd' = e + 1 /\ UNCHANGED <<memory, indexBegin>>
      BY <1>3, <3>1, StoreIs DEF SetIndexEnd
    <3>3. QED
      BY <1>2, <1>6, <2>1, <3>1, <3>2
  <2>2. CASE k # 1
    <3>1. PICK q : q = e - Stored(k)
      OBVIOUS
    <3>2. /\ Stored(k + 1) = Stored(k) + 1 /\ Stored(k) \in 0..(e - b - o)
          /\ q \in Nat /\ b + o <= q /\ q <= e /\ q \in 0..(Room - 1)
          /\ e - Stored(k + 1) = q - 1
      BY <1>2, <1>4, <2>2, <3>1 DEF Stored
    <3>3. s = IF q = b + o THEN Put(q, key) ELSE Copy(q, q - 1)
      <4>1. k + 1 # 2 /\ (k + 1) - 1 = k
        BY <1>2, <2>2
      <4>2. QED
        BY <1>4, <3>1, <4>1 DEF RightStore
    <3>4. PICK x \in Keys \cup {Empty} :
             /\ memory' = [memory EXCEPT ![q] = x] /\ UNCHANGED <<indexBegin, indexEnd>>
             /\ x = IF q = b + o THEN key ELSE OldSlot(b, q - 1)
      <4>1. CASE q = b + o
        BY <1>2, <1>3, <3>3, <4>1, StoreIs DEF Put
      <4>2. CASE q # b + o
        <5>1. q - 1 \in b..(e - 1) /\ q - 1 \in 0..(Room - 1) /\ ~(q < q - 1)
          BY <1>2, <3>2, <4>2
        <5>2. memory[q - 1] = OldSlot(b, q - 1)
          BY <1>2, <1>6, <3>1, <3>2, <5>1
        <5>3. memory' = [memory EXCEPT ![q] = memory[q - 1]] /\ UNCHANGED <<indexBegin, indexEnd>>
          BY <1>3, <3>3, <4>2, StoreIs DEF Copy
        <5>4. QED
          BY <1>2, <4>2, <5>1, <5>2, <5>3
      <4>3. QED
        BY <4>1, <4>2
    <3>5. ASSUME NEW p \in b..e
          PROVE  IF q - 1 < p
                 THEN memory'[p] = IF p = b + o THEN key ELSE OldSlot(b, p - 1)
                 ELSE p < e => memory'[p] = OldSlot(b, p)
      <4>1. p \in 0..(Room - 1) /\ p \in Int
        BY <1>2
      <4>2. CASE p = q
        BY <1>2, <3>2, <3>4, <4>1, <4>2
      <4>3. CASE p # q
        BY <1>2, <1>6, <3>1, <3>2, <3>4, <4>1, <4>3
      <4>4. QED
        BY <4>2, <4>3
    <3>6. memory' \in [0..(Room - 1) -> Keys \cup {Empty}]
      BY <1>2, <3>2, <3>4
    <3>7. indexBegin' = b /\ indexEnd' = (IF k + 1 < 2 THEN e ELSE e + 1)
      BY <1>2, <1>6, <2>2, <3>4
    <3>8. QED
      BY <3>2, <3>5, <3>6, <3>7
  <2>3. QED
    BY <2>1, <2>2
<1>8. InsertingRight(b, e, k + 1)'
  BY <1>2, <1>4, <1>5, <1>7 DEF InsertingRight
<1>9. Bounded'
  BY <1>2, <1>7 DEF Bounded
<1>10. QED
  BY <1>8, <1>9

LEMMA RemovingLeftStep ==
    ASSUME TypeInv, Store, NEW b \in 0..Room, NEW e \in 0..Room, Len(before) = e - b,
           NEW k \in Nat, RemovingLeft(b, e, k)
    PROVE  RemovingLeft(b, e, k + 1)' /\ Bounded'
<1>1. PICK o : o = change.order
  OBVIOUS
<1>2. /\ o \in Nat /\ o < e - b /\ b \in Nat /\ e \in Nat /\ Room \in Nat
      /\ b < e /\ e <= Room /\ k \in Nat
      /\ memory \in [0..(Room - 1) -> Keys \cup {Empty}]
  BY <1>1, BoundsAreNatural DEF RemovingLeft, Removes, TypeInv, ChangeRecord
<1>3. PICK s : s = program[1]
  OBVIOUS
<1>4. /\ s = FromLeftStore(b, o, k + 1) /\ k + 1 <= o + 1
      /\ Len(program') = o + 1 - (k + 1)
      /\ \A i \in 1..Len(program') : program'[i] = FromLeftStore(b, o, k + 1 + i)
  <2>1. /\ Len(program) = o + 1 - k
        /\ \A i \in 1..Len(program) : program[i] = FromLeftStore(b, o, k + i)
        /\ Len(program) \in Nat \ {0} /\ Len(program') = Len(program) - 1
        /\ \A i \in 1..Len(program') : program'[i] = program[i + 1]
    BY <1>1, StoreIs DEF RemovingLeft
  <2>2. 1 \in 1..Len(program) /\ \A i \in 1..Len(program') : i + 1 \in 1..Len(program) /\ k + (i + 1) = k + 1 + i
    BY <1>2, <2>1
  <2>3. QED
    BY <1>2, <1>3, <2>1, <2>2
<1>5. change'.order = o /\ Removes' /\ \A p : OldSlot(b, p)' = OldSlot(b, p)
  BY <1>1, StoreIs DEF RemovingLeft, Removes, OldSlot
<1>6. /\ indexBegin = (IF k <= o THEN b ELSE b + 1) /\ indexEnd = e
      /\ \A p \in b..(e - 1) :
           IF b + o - k < p /\ p <= b + o
           THEN b < p => memory[p] = OldSlot(b, p - 1)
           ELSE memory[p] = OldSlot(b, p)
  BY <1>1 DEF RemovingLeft
<1>7. /\ indexBegin' = (IF k + 1 <= o THEN b ELSE b + 1) /\ indexEnd' = e
      /\ memory' \in [0..(Room - 1) -> Keys \cup {Empty}]
      /\ \A p \in b..(e - 1) :
           IF b + o - (k + 1) < p /\ p <= b + o
           THEN b < p => memory'[p] = OldSlot(b, p - 1)
           ELSE memory'[p] = OldSlot(b, p)
  <2>1. PICK q : q = b + o - k
    OBVIOUS
  <2>2. q \in Nat /\ b <= q /\ q <= b + o /\ q <= e - 1 /\ b + o - (k + 1) = q - 1 /\ b + o + 1 - (k + 1) = q
    BY <1>2, <1>4, <2>1
  <2>3. s = IF q = b THEN SetIndexBegin(b + 1) ELSE Copy(q, q - 1)
    BY <1>4, <2>2 DEF FromLeftStore
  <2>4. CASE q = b
    <3>1. indexBegin' = b + 1 /\ UNCHANGED <<memory, indexEnd>>
      BY <1>3, <2>3, <2>4, StoreIs DEF SetIndexBegin
    <3>2. k = o
      BY <1>2, <2>1, <2>4
    <3>3. ASSUME NEW p \in b..(e - 1)
          PROVE  IF q - 1 < p /\ p <= b + o
                 THEN b < p => memory'[p] = OldSlot(b, p - 1)
                 ELSE memory'[p] = OldSlot(b, p)
      BY <1>2, <1>6, <2>1, <2>2, <2>4, <3>1
    <3>4. QED
      BY <1>2, <1>6, <2>2, <3>1, <3>2, <3>3
  <2>5. CASE q # b
    <3>1. memory' = [memory EXCEPT ![q] = memory[q - 1]] /\ UNCHANGED <<indexBegin, indexEnd>>
      BY <1>3, <2>3, <2>5, StoreIs DEF Copy
    <3>2. q - 1 \in b..(e - 1) /\ q - 1 \in 0..(Room - 1) /\ q \in 0..(Room - 1) /\ ~(q < q - 1) /\ k + 1 <= o
      BY <1>2, <2>1, <2>2, <2>5
    <3>3. memory[q - 1] = OldSlot(b, q - 1)
      BY <1>2, <1>6, <2>1, <2>2, <3>2
    <3>4. ASSUME NEW p \in b..(e - 1)
          PROVE  IF q - 1 < p /\ p <= b + o
                 THEN b < p => memory'[p] = OldSlot(b, p - 1)
                 ELSE memory'[p] = OldSlot(b, p)
      <4>1. p \in 0..(Room - 1) /\ p \in Int
        BY <1>2
      <4>2. CASE p = q
        BY <1>2, <2>2, <3>1, <3>2, <3>3, <4>1, <4>2
      <4>3. CASE p # q
        BY <1>2, <1>6, <2>1, <2>2, <3>1, <3>2, <4>1, <4>3
      <4>4. QED
        BY <4>2, <4>3
    <3>5. memory' \in [0..(Room - 1) -> Keys \cup {Empty}]
      BY <1>2, <3>1, <3>2
    <3>6. QED
      BY <1>2, <1>6, <2>2, <3>1, <3>2, <3>4, <3>5
  <2>6. QED
    BY <2>4, <2>5
<1>8. RemovingLeft(b, e, k + 1)'
  BY <1>2, <1>4, <1>5, <1>7 DEF RemovingLeft
<1>9. Bounded'
  BY <1>2, <1>7 DEF Bounded
<1>10. QED
  BY <1>8, <1>9

LEMMA RemovingRightStep ==
    ASSUME TypeInv, Store, NEW b \in 0..Room, NEW e \in 0..Room, Len(before) = e - b,
           NEW k \in Nat, RemovingRight(b, e, k)
    PROVE  RemovingRight(b, e, k + 1)' /\ Bounded'
<1>1. PICK o : o = change.order
  OBVIOUS
<1>2. /\ o \in Nat /\ o < e - b /\ b \in Nat /\ e \in Nat /\ Room \in Nat
      /\ b < e /\ e <= Room /\ k \in Nat
      /\ memory \in [0..(Room - 1) -> Keys \cup {Empty}]
  BY <1>1, BoundsAreNatural DEF RemovingRight, Removes, TypeInv, ChangeRecord
<1>3. PICK s : s = program[1]
  OBVIOUS
<1>4. /\ s = FromRightStore(b, e, o, k + 1) /\ k + 1 <= e - b - o
      /\ Len(program') = e - b - o - (k + 1)
      /\ \A i \in 1..Len(program') : program'[i] = FromRightStore(b, e, o, k + 1 + i)
  <2>1. /\ Len(program) = e - b - o - k
        /\ \A i \in 1..Len(program) : program[i] = FromRightStore(b, e, o, k + i)
        /\ Len(program) \in Nat \ {0} /\ Len(program') = Len(program) - 1
        /\ \A i \in 1..Len(program') : program'[i] = program[i + 1]
    <3>1. /\ Len(program) = e - b - o - k
          /\ \A i \in 1..Len(program) : program[i] = FromRightStore(b, e, o, k + i)
      BY <1>1, Zenon DEF RemovingRight
    <3>2. /\ Len(program) \in Nat \ {0} /\ Len(program') = Len(program) - 1
          /\ \A i \in 1..Len(program') : program'[i] = program[i + 1]
      BY StoreIs, Zenon
    <3>3. QED
      BY <3>1, <3>2, Zenon
  <2>2. 1 \in 1..Len(program) /\ \A i \in 1..Len(program') : i + 1 \in 1..Len(program) /\ k + (i + 1) = k + 1 + i
    BY <1>2, <2>1
  <2>3. QED
    BY <1>2, <1>3, <2>1, <2>2
<1>5. change'.order = o /\ Removes' /\ \A p : OldSlot(b, p)' = OldSlot(b, p)
  BY <1>1, StoreIs DEF RemovingRight, Removes, OldSlot
<1>6. /\ indexBegin = b /\ indexEnd = (IF k < e - b - o THEN e ELSE e - 1)
      /\ \A p \in b..(e - 1) :
           IF b + o <= p /\ p < b + o + k
           THEN p < e - 1 => memory[p] = OldSlot(b, p + 1)
           ELSE memory[p] = OldSlot(b, p)
  BY <1>1 DEF RemovingRight
<1>7. /\ indexBegin' = b /\ indexEnd' = (IF k + 1 < e - b - o THEN e ELSE e - 1)
      /\ memory' \in [0..(Room - 1) -> Keys \cup {Empty}]
      /\ \A p \in b..(e - 1) :
           IF b + o <= p /\ p < b + o + (k + 1)
           THEN p < e - 1 => memory'[p] = OldSlot(b, p + 1)
           ELSE memory'[p] = OldSlot(b, p)
  <2>1. PICK q : q = b + o + k
    OBVIOUS
  <2>2. q \in Nat /\ b + o <= q /\ q <= e - 1 /\ b + o + (k + 1) = q + 1 /\ b + o + (k + 1) - 1 = q
    BY <1>2, <1>4, <2>1
  <2>3. s = IF q = e - 1 THEN SetIndexEnd(e - 1) ELSE Copy(q, q + 1)
    BY <1>4, <2>2 DEF FromRightStore
  <2>4. CASE q = e - 1
    <3>1. indexEnd' = e - 1 /\ UNCHANGED <<memory, indexBegin>>
      BY <1>3, <2>3, <2>4, StoreIs DEF SetIndexEnd
    <3>2. ~(k + 1 < e - b - o)
      BY <1>2, <2>1, <2>4
    <3>3. ASSUME NEW p \in b..(e - 1)
          PROVE  IF b + o <= p /\ p < q + 1
                 THEN p < e - 1 => memory'[p] = OldSlot(b, p + 1)
                 ELSE memory'[p] = OldSlot(b, p)
      BY <1>2, <1>6, <2>1, <2>2, <2>4, <3>1
    <3>4. QED
      BY <1>2, <1>6, <2>2, <3>1, <3>2, <3>3
  <2>5. CASE q # e - 1
    <3>1. memory' = [memory EXCEPT ![q] = memory[q + 1]] /\ UNCHANGED <<indexBegin, indexEnd>>
      BY <1>3, <2>3, <2>5, StoreIs DEF Copy
    <3>2. q + 1 \in b..(e - 1) /\ q + 1 \in 0..(Room - 1) /\ q \in 0..(Room - 1) /\ ~(q + 1 < q)
          /\ k + 1 < e - b - o /\ k < e - b - o
      BY <1>2, <2>1, <2>2, <2>5
    <3>3. memory[q + 1] = OldSlot(b, q + 1)
      BY <1>2, <1>6, <2>1, <2>2, <3>2
    <3>4. ASSUME NEW p \in b..(e - 1)
          PROVE  IF b + o <= p /\ p < q + 1
                 THEN p < e - 1 => memory'[p] = OldSlot(b, p + 1)
                 ELSE memory'[p] = OldSlot(b, p)
      <4>1. p \in 0..(Room - 1) /\ p \in Int
        BY <1>2
      <4>2. CASE p = q
        BY <1>2, <2>2, <3>1, <3>2, <3>3, <4>1, <4>2
      <4>3. CASE p # q
        BY <1>2, <1>6, <2>1, <2>2, <3>1, <3>2, <4>1, <4>3
      <4>4. QED
        BY <4>2, <4>3
    <3>5. memory' \in [0..(Room - 1) -> Keys \cup {Empty}]
      BY <1>2, <3>1, <3>2
    <3>6. QED
      BY <1>2, <1>6, <2>2, <3>1, <3>2, <3>4, <3>5
  <2>6. QED
    BY <2>4, <2>5
<1>8. RemovingRight(b, e, k + 1)'
  BY <1>2, <1>4, <1>5, <1>7 DEF RemovingRight
<1>9. Bounded'
  BY <1>2, <1>7 DEF Bounded
<1>10. QED
  BY <1>8, <1>9

LEMMA StoreInv ==
    ASSUME IInv, Store
    PROVE  IInv'
<1>1. TypeInv /\ WriterInv /\ SessionInv /\ KnownInv /\ state \in Nat
  BY BoundsAreNatural DEF IInv, TypeInv
<1>2. IsCorrupted(state)
  BY <1>1 DEF WriterInv, Store
<1>3. PICK b \in 0..Room, e \in 0..Room : Len(before) = e - b /\ \E k \in Nat : Session(b, e, k)
  BY <1>1, <1>2 DEF WriterInv
<1>4. PICK k \in Nat : Session(b, e, k)
  BY <1>3
<1>5. UNCHANGED <<state, change, before, search>> /\ program' \in Seq(StoreRecord)
  BY <1>1, StoreIs
<1>6. k + 1 \in Nat
  OBVIOUS
<1>7. Session(b, e, k + 1)' /\ Bounded'
  <2>1. CASE InsertingLeft(b, e, k)
    BY <1>1, <1>3, <2>1, InsertingLeftStep DEF Session
  <2>2. CASE InsertingRight(b, e, k)
    BY <1>1, <1>3, <2>2, InsertingRightStep DEF Session
  <2>3. CASE RemovingLeft(b, e, k)
    BY <1>1, <1>3, <2>3, RemovingLeftStep DEF Session
  <2>4. CASE RemovingRight(b, e, k)
    BY <1>1, <1>3, <2>4, RemovingRightStep DEF Session
  <2>5. QED
    BY <1>4, <2>1, <2>2, <2>3, <2>4 DEF Session
<1>8. WriterInv'
  <2>1. \E n \in Nat : Session(b, e, n)'
    BY <1>6, <1>7
  <2>2. Len(before') = e - b /\ Sorted(before')
    BY <1>1, <1>2, <1>3, <1>5 DEF WriterInv
  <2>3. QED
    BY <1>2, <1>5, <2>1, <2>2 DEF WriterInv
<1>9. TypeInv'
  BY <1>1, <1>5, <1>7 DEF TypeInv, Bounded
<1>10. SessionInv' /\ KnownInv'
  BY <1>1, <1>2, <1>5, ReaderKept
<1>11. QED
  BY <1>8, <1>9, <1>10 DEF IInv

-----------------------------------------------------------------------------
(* Write sessions end.                                                     *)

LEMMA InsertKeepsOrder ==
    ASSUME NEW s \in Seq(Keys), Sorted(s), NEW key \in Keys, NEW n, Belongs(s, n, key)
    PROVE  Sorted(InsertAt(s, n + 1, key))
<1>1. /\ Keys \subseteq Nat /\ Len(s) \in Nat /\ n \in 0..Len(s) /\ key \in Nat
      /\ \A i \in 1..Len(s) : s[i] \in Nat /\ IF i <= n THEN s[i] < key ELSE key < s[i]
  BY KeysArePositive, LenProperties, ElementOfSeq DEF Belongs
<1>2. PICK u : u = InsertAt(s, n + 1, key)
  OBVIOUS
<1>3. /\ Len(u) = Len(s) + 1
      /\ \A i \in 1..(Len(s) + 1) : u[i] = IF i <= n THEN s[i] ELSE IF i = n + 1 THEN key ELSE s[i - 1]
  <2>1. LET v == InsertAt(s, n + 1, key) IN
        /\ v \in Seq(Keys) /\ Len(v) = Len(s) + 1
        /\ \A i \in 1..(Len(s) + 1) :
             v[i] = IF i <= n THEN s[i] ELSE IF i = n + 1 THEN key ELSE s[i - 1]
    BY <1>1, InsertAtIs
  <2>2. QED
    BY <1>2, <2>1
<1>4. ASSUME NEW i \in 1..Len(u), NEW j \in 1..Len(u), i < j PROVE u[i] < u[j]
  <2>0. \A x, y \in 1..Len(s) : x < y => s[x] < s[y]
    BY DEF Sorted
  <2>1. CASE j <= n
    BY <1>1, <1>3, <1>4, <2>0, <2>1
  <2>2. CASE j = n + 1
    BY <1>1, <1>3, <1>4, <2>2
  <2>3. CASE n + 1 < j /\ i <= n
    <3>1. u[i] = s[i] /\ u[j] = s[j - 1] /\ i \in 1..Len(s) /\ j - 1 \in 1..Len(s) /\ i < j - 1
      BY <1>1, <1>3, <1>4, <2>3
    <3>2. QED
      BY <2>0, <3>1
  <2>4. CASE n + 1 < j /\ i = n + 1
    <3>1. u[i] = key /\ u[j] = s[j - 1] /\ j - 1 \in 1..Len(s) /\ n < j - 1
      BY <1>1, <1>3, <1>4, <2>4
    <3>2. QED
      BY <1>1, <3>1
  <2>5. CASE n + 1 < i
    <3>1. /\ u[i] = s[i - 1] /\ u[j] = s[j - 1] /\ i - 1 \in 1..Len(s) /\ j - 1 \in 1..Len(s)
          /\ i - 1 < j - 1
      BY <1>1, <1>3, <1>4, <2>5
    <3>2. QED
      BY <2>0, <3>1
  <2>6. QED
    BY <1>1, <1>3, <1>4, <2>1, <2>2, <2>3, <2>4, <2>5
<1>5. QED
  BY <1>2, <1>4 DEF Sorted

LEMMA RemoveKeepsOrder ==
    ASSUME NEW s \in Seq(Keys), Sorted(s), NEW n \in 0..(Len(s) - 1)
    PROVE  Sorted(RemoveAt(s, n + 1))
<1>1. Len(s) \in Nat /\ n \in Nat /\ n < Len(s)
  BY LenProperties
<1>2. PICK u : u = RemoveAt(s, n + 1)
  OBVIOUS
<1>3. Len(u) = Len(s) - 1 /\ \A i \in 1..(Len(s) - 1) : u[i] = IF i <= n THEN s[i] ELSE s[i + 1]
  BY <1>2, RemoveAtIs
<1>4. ASSUME NEW i \in 1..Len(u), NEW j \in 1..Len(u), i < j PROVE u[i] < u[j]
  <2>1. PICK x \in 1..Len(s) : x = IF i <= n THEN i ELSE i + 1
    BY <1>1, <1>3
  <2>2. PICK y \in 1..Len(s) : y = IF j <= n THEN j ELSE j + 1
    BY <1>1, <1>3
  <2>3. u[i] = s[x] /\ u[j] = s[y] /\ x < y
    BY <1>1, <1>3, <1>4, <2>1, <2>2
  <2>4. QED
    BY <2>3 DEF Sorted
<1>5. QED
  BY <1>2, <1>4 DEF Sorted

\* The slots are the sequence s.
LEMMA SlotsEqual ==
    ASSUME TypeInv, NEW s \in Seq(Keys), Len(s) = indexEnd - indexBegin,
           \A i \in 1..Len(s) : memory[indexBegin + i - 1] = s[i]
    PROVE  Slots = s
<1>1. /\ Slots \in Seq(Keys \cup {Empty}) /\ Len(Slots) = Len(s)
      /\ \A i \in 1..Len(Slots) : Slots[i] = s[i]
  BY SlotsAre
<1>2. s \in Seq(Keys \cup {Empty})
  OBVIOUS
<1>3. QED
  BY <1>1, <1>2, SeqEqual

\* What the change makes of the slots.
Changed == IF change.kind = "insert" THEN InsertAt(before, change.order + 1, change.key)
           ELSE RemoveAt(before, change.order + 1)

\* A session without a store left has made its change, and nothing else.
LEMMA Finished ==
    ASSUME TypeInv, WriterInv, IsCorrupted(state), program = <<>>
    PROVE  Slots = Changed /\ Slots \in Seq(Keys) /\ Sorted(Slots) /\ (Inserts \/ Removes)
<1>1. PICK b \in 0..Room, e \in 0..Room : Len(before) = e - b /\ \E k \in Nat : Session(b, e, k)
  BY DEF WriterInv
<1>2. PICK k \in Nat : Session(b, e, k)
  BY <1>1
<1>3. PICK o, key, n : o = change.order /\ key = change.key /\ n = Len(before)
  OBVIOUS
<1>4. /\ b \in Nat /\ e \in Nat /\ n \in Nat /\ n = e - b /\ before \in Seq(Keys) /\ Sorted(before)
      /\ Len(program) = 0
  BY <1>1, <1>3, BoundsAreNatural, LenProperties DEF TypeInv, WriterInv
<1>5. CASE Inserts
  <2>1. PICK u : u = InsertAt(before, o + 1, key)
    OBVIOUS
  <2>2. Belongs(before, o, key) /\ o \in 0..n /\ key \in Keys
    BY <1>2, <1>3, <1>5 DEF Session, InsertingLeft, InsertingRight, RemovingLeft, RemovingRight,
                            Inserts, Removes, Belongs
  <2>3. /\ u \in Seq(Keys) /\ Len(u) = n + 1
        /\ \A i \in 1..(n + 1) :
             u[i] = IF i <= o THEN before[i] ELSE IF i = o + 1 THEN key ELSE before[i - 1]
    <3>1. before \in Seq(Keys) /\ o \in 0..Len(before) /\ key \in Keys
      BY <1>3, <1>4, <2>2
    <3>2. LET v == InsertAt(before, o + 1, key) IN
          /\ v \in Seq(Keys) /\ Len(v) = Len(before) + 1
          /\ \A i \in 1..(Len(before) + 1) :
               v[i] = IF i <= o THEN before[i] ELSE IF i = o + 1 THEN key ELSE before[i - 1]
      BY ONLY <3>1, InsertAtIs
    <3>3. QED
      BY <1>3, <2>1, <3>2
  <2>4. Sorted(u)
    BY <1>4, <2>1, <2>2, InsertKeepsOrder
  <2>5. CASE InsertingLeft(b, e, k)
    <3>1. Len(program) = o + 2 - k /\ Stored(k) = o + 1 /\ ~(k < 2)
      BY <1>2, <1>3, <1>4, <2>2, <2>5 DEF InsertingLeft, Stored
    <3>2. indexBegin = b - 1 /\ indexEnd = e /\ 0 < b
      BY <2>5, <3>1 DEF InsertingLeft
    <3>3. ASSUME NEW i \in 1..Len(u) PROVE memory[indexBegin + i - 1] = u[i]
      <4>1. PICK p : p = b - 1 + i - 1
        OBVIOUS
      <4>1a. i \in 1..(n + 1)
        BY <2>3
      <4>2. p \in (b - 1)..(e - 1) /\ (p + 1) - b + 1 = i /\ p - b + 1 = i - 1
            /\ (p < b - 1 + (o + 1) <=> i <= o + 1) /\ (p = b - 1 + o <=> i = o + 1)
            /\ (~(i <= o + 1) => b <= p)
        BY <1>4, <2>2, <4>1, <4>1a
      <4>3. IF p < b - 1 + (o + 1)
            THEN memory[p] = IF p = b - 1 + o THEN key ELSE OldSlot(b, p + 1)
            ELSE b <= p => memory[p] = OldSlot(b, p)
        BY <1>3, <2>5, <3>1, <4>2 DEF InsertingLeft
      <4>4. OldSlot(b, p + 1) = before[i] /\ OldSlot(b, p) = before[i - 1]
        BY <4>2, Zenon DEF OldSlot
      <4>5. QED
        BY <2>2, <2>3, <3>2, <4>1, <4>2, <4>3, <4>4
    <3>4. Slots = u
      BY <1>4, <2>3, <3>2, <3>3, SlotsEqual
    <3>5. QED
      BY <1>3, <1>5, <2>1, <2>3, <2>4, <3>4 DEF Changed, Inserts
  <2>6. CASE InsertingRight(b, e, k)
    <3>1. Len(program) = e - b - o + 2 - k /\ Stored(k) = e - b - o + 1 /\ ~(k < 2) /\ e - Stored(k) = b + o - 1
      <4>1. 0 = e - b - o + 2 - k
        BY <1>3, <1>4, <2>6, Zenon DEF InsertingRight
      <4>2. k = e - b - o + 2
        BY <1>2, <1>4, <2>2, <4>1
      <4>3. QED
        BY <1>4, <2>2, <4>1, <4>2 DEF Stored
    <3>2. indexBegin = b /\ indexEnd = e + 1
      BY <2>6, <3>1 DEF InsertingRight
    <3>3. ASSUME NEW i \in 1..Len(u) PROVE memory[indexBegin + i - 1] = u[i]
      <4>1. PICK p : p = b + i - 1
        OBVIOUS
      <4>2. p \in b..e /\ (p - 1) - b + 1 = i - 1 /\ p - b + 1 = i
            /\ (b + o - 1 < p <=> ~(i <= o)) /\ (p = b + o <=> i = o + 1)
            /\ (i <= o => p < e)
        BY <1>4, <2>2, <2>3, <4>1
      <4>3. IF b + o - 1 < p
            THEN memory[p] = IF p = b + o THEN key ELSE OldSlot(b, p - 1)
            ELSE p < e => memory[p] = OldSlot(b, p)
        BY <1>3, <2>6, <3>1, <4>2 DEF InsertingRight
      <4>4. OldSlot(b, p - 1) = before[i - 1] /\ OldSlot(b, p) = before[i]
        BY <4>2, Zenon DEF OldSlot
      <4>5. QED
        BY <2>2, <2>3, <3>2, <4>1, <4>2, <4>3, <4>4
    <3>4. Slots = u
      BY <1>4, <2>3, <3>2, <3>3, SlotsEqual
    <3>5. QED
      BY <1>3, <1>5, <2>1, <2>3, <2>4, <3>4 DEF Changed, Inserts
  <2>7. QED
    BY <1>2, <1>5, <2>5, <2>6 DEF Session, RemovingLeft, RemovingRight, Inserts, Removes
<1>6. CASE Removes
  <2>1. PICK u : u = RemoveAt(before, o + 1)
    OBVIOUS
  <2>2. o \in Nat /\ o < n /\ o \in 0..(n - 1) /\ change.kind # "insert"
    BY <1>3, <1>4, <1>6 DEF Removes, TypeInv, ChangeRecord
  <2>3. /\ u \in Seq(Keys) /\ Len(u) = n - 1
        /\ \A i \in 1..(n - 1) : u[i] = IF i <= o THEN before[i] ELSE before[i + 1]
    <3>1. before \in Seq(Keys) /\ o \in 0..(Len(before) - 1)
      BY <1>3, <1>4, <2>2
    <3>2. LET v == RemoveAt(before, o + 1) IN
          /\ v \in Seq(Keys) /\ Len(v) = Len(before) - 1
          /\ \A i \in 1..(Len(before) - 1) : v[i] = IF i <= o THEN before[i] ELSE before[i + 1]
      BY ONLY <3>1, RemoveAtIs
    <3>3. QED
      BY <1>3, <2>1, <3>2
  <2>4. Sorted(u)
    BY <1>3, <1>4, <2>1, <2>2, RemoveKeepsOrder
  <2>5. CASE RemovingLeft(b, e, k)
    <3>1. k = o + 1 /\ b + o - k = b - 1
      BY <1>2, <1>3, <1>4, <2>2, <2>5 DEF RemovingLeft
    <3>2. indexBegin = b + 1 /\ indexEnd = e
      BY <1>3, <2>2, <2>5, <3>1 DEF RemovingLeft
    <3>3. ASSUME NEW i \in 1..Len(u) PROVE memory[indexBegin + i - 1] = u[i]
      <4>1. PICK p : p = b + i
        OBVIOUS
      <4>2. p \in b..(e - 1) /\ (p - 1) - b + 1 = i /\ p - b + 1 = i + 1
            /\ b - 1 < p /\ (p <= b + o <=> i <= o) /\ b < p
        BY <1>4, <2>2, <2>3, <4>1
      <4>3. IF b - 1 < p /\ p <= b + o
            THEN b < p => memory[p] = OldSlot(b, p - 1)
            ELSE memory[p] = OldSlot(b, p)
        BY <1>3, <2>5, <3>1, <4>2 DEF RemovingLeft
      <4>4. OldSlot(b, p - 1) = before[i] /\ OldSlot(b, p) = before[i + 1]
        BY <4>2, Zenon DEF OldSlot
      <4>5. QED
        BY <1>4, <2>2, <2>3, <3>2, <4>1, <4>2, <4>3, <4>4
    <3>4. Slots = u
      BY <1>4, <2>3, <3>2, <3>3, SlotsEqual
    <3>5. QED
      BY <1>3, <1>6, <2>1, <2>2, <2>3, <2>4, <3>4 DEF Changed
  <2>6. CASE RemovingRight(b, e, k)
    <3>1. k = e - b - o /\ b + o + k = e
      <4>1. 0 = e - b - o - k
        BY <1>3, <1>4, <2>6, Zenon DEF RemovingRight
      <4>2. QED
        BY <1>2, <1>4, <2>2, <4>1
    <3>2. indexBegin = b /\ indexEnd = e - 1
      BY <1>3, <1>4, <2>2, <2>6, <3>1 DEF RemovingRight
    <3>3. ASSUME NEW i \in 1..Len(u) PROVE memory[indexBegin + i - 1] = u[i]
      <4>1. PICK p : p = b + i - 1
        OBVIOUS
      <4>2. p \in b..(e - 1) /\ (p + 1) - b + 1 = i + 1 /\ p - b + 1 = i
            /\ (b + o <= p <=> ~(i <= o)) /\ p < e /\ p < e - 1
        BY <1>4, <2>2, <2>3, <4>1
      <4>3. IF b + o <= p /\ p < e
            THEN p < e - 1 => memory[p] = OldSlot(b, p + 1)
            ELSE memory[p] = OldSlot(b, p)
        BY <1>3, <2>6, <3>1, <4>2 DEF RemovingRight
      <4>4. OldSlot(b, p + 1) = before[i + 1] /\ OldSlot(b, p) = before[i]
        BY <4>2, Zenon DEF OldSlot
      <4>5. QED
        BY <1>4, <2>2, <2>3, <3>2, <4>1, <4>2, <4>3, <4>4
    <3>4. Slots = u
      BY <1>4, <2>3, <3>2, <3>3, SlotsEqual
    <3>5. QED
      BY <1>3, <1>6, <2>1, <2>2, <2>3, <2>4, <3>4 DEF Changed
  <2>7. QED
    BY <1>2, <1>6, <2>5, <2>6 DEF Session, InsertingLeft, InsertingRight, Inserts, Removes
<1>7. QED
  BY <1>2, <1>5, <1>6 DEF Session, InsertingLeft, InsertingRight, RemovingLeft, RemovingRight

LEMMA EndWriteInv ==
    ASSUME IInv, EndWrite
    PROVE  IInv'
<1>1. /\ IsCorrupted(state) /\ program = <<>> /\ state' = state + 1 /\ change' = NoChange
      /\ UNCHANGED <<memory, indexBegin, indexEnd, program, before, search>>
  BY DEF EndWrite
<1>2. state \in Nat /\ MaxWrites \in Nat /\ state \in 0..(2 * MaxWrites)
  BY BoundsAreNatural DEF IInv, TypeInv
<1>3. state' \in 0..(2 * MaxWrites) /\ ~IsCorrupted(state') /\ state' \in Nat /\ state < state'
  <2>1. PICK m : m = MaxWrites
    OBVIOUS
  <2>2. state # 2 * m
    BY <1>1, <1>2, <2>1 DEF IsCorrupted
  <2>3. QED
    BY <1>1, <1>2, <2>1, <2>2, Parity
<1>4. Slots \in Seq(Keys) /\ Sorted(Slots) /\ Slots' = Slots
  BY <1>1, Finished DEF IInv, Slots
<1>5. WriterInv'
  BY <1>1, <1>3, <1>4 DEF WriterInv
<1>6. SessionInv' /\ KnownInv'
  <2>1. TypeInv /\ SessionInv /\ KnownInv /\ search' = search /\ state <= state'
    BY <1>1, <1>2, <1>3 DEF IInv
  <2>2. QED
    BY <1>1, <1>3, <2>1, ReaderKept
<1>7. TypeInv'
  BY <1>1, <1>3 DEF IInv, TypeInv, NoChange, ChangeRecord, Empty
<1>8. QED
  BY <1>5, <1>6, <1>7 DEF IInv

-----------------------------------------------------------------------------
(* The search.                                                             *)

LEMMA SearchTypes ==
    ASSUME IInv
    PROVE  /\ search \in SearchRecord /\ Room \in Nat /\ state \in Nat
           /\ indexBegin \in Nat /\ indexEnd \in Nat /\ Tester \in Nat
           /\ indexBegin <= indexEnd /\ indexEnd <= Room
           /\ search.begin \in Nat /\ search.end \in Nat /\ search.pointer \in Nat
           /\ search.begin < search.end => search.begin <= Tester /\ Tester < search.end
           /\ Len(search.seen) \in Nat /\ search.key \in Keys \cup {Empty} /\ search.enter \in Nat
           /\ \A i \in 1..Len(search.seen) : search.seen[i] \in Keys
           /\ Keys \subseteq Nat
<1>1. /\ search \in SearchRecord /\ Room \in Nat /\ state \in Nat /\ Keys \subseteq Nat
      /\ indexBegin \in Nat /\ indexEnd \in Nat /\ indexBegin <= indexEnd /\ indexEnd <= Room
  BY BoundsAreNatural, KeysArePositive DEF IInv, TypeInv
<1>2. /\ search.begin \in Nat /\ search.end \in Nat /\ search.pointer \in Nat
      /\ search.seen \in Seq(Keys) /\ search.key \in Keys \cup {Empty} /\ search.enter \in Nat
  BY <1>1 DEF SearchRecord
<1>3. PICK b, e : b = search.begin /\ e = search.end
  OBVIOUS
<1>4. (b + e) \div 2 \in Nat /\ (b < e => b <= (b + e) \div 2 /\ (b + e) \div 2 < e)
  BY <1>2, <1>3
<1>5. Len(search.seen) \in Nat /\ \A i \in 1..Len(search.seen) : search.seen[i] \in Keys
  BY <1>2, LenProperties, ElementOfSeq
<1>6. QED
  BY <1>1, <1>2, <1>3, <1>4, <1>5 DEF Tester

\* A step of the search that stays in its session.
LEMMA SearchStep ==
    ASSUME IInv, UNCHANGED writer, search' \in SearchRecord, KnownInv',
           \/ search'.at = "idle"
           \/ /\ search.at # "idle" /\ search'.key = search.key
              /\ search'.enter = search.enter /\ search'.seen = search.seen
    PROVE  IInv'
<1>1. /\ memory' = memory /\ indexBegin' = indexBegin /\ indexEnd' = indexEnd /\ state' = state
      /\ change' = change /\ program' = program /\ before' = before
  BY DEF writer
<1>2. Slots' = Slots
  BY <1>1 DEF Slots
<1>3. TypeInv'
  BY <1>1 DEF IInv, TypeInv
<1>4. \A b, e, k : Session(b, e, k)' = Session(b, e, k)
  BY <1>1 DEF Session, InsertingLeft, InsertingRight, RemovingLeft, RemovingRight, Inserts,
              Removes, OldSlot
<1>5. WriterInv'
  BY <1>1, <1>2, <1>4 DEF IInv, WriterInv
<1>6. SessionInv'
  BY <1>1, <1>2 DEF IInv, SessionInv, Fresh
<1>7. QED
  BY <1>3, <1>5, <1>6 DEF IInv

LEMMA NoSearchKnown ==
    ASSUME search' = NoSearch
    PROVE  KnownInv' /\ search' \in SearchRecord /\ search'.at = "idle"
<1>1. search' \in SearchRecord /\ search'.at = "idle"
  <2>1. <<>> \in Seq(Keys)
    OBVIOUS
  <2>2. QED
    BY <2>1 DEF NoSearch, SearchRecord, SearchPC, Empty
<1>2. KnownInv'
  BY <1>1 DEF KnownInv
<1>3. QED
  BY <1>1, <1>2

LEMMA BeginReadInv ==
    ASSUME IInv, NEW key \in Keys, BeginRead(key)
    PROVE  IInv'
<1>1. /\ ~IsCorrupted(state) /\ UNCHANGED writer
      /\ search' = [search EXCEPT !.at = "count", !.key = key, !.enter = state, !.seen = Slots]
  BY DEF BeginRead, Search
<1>2. Slots \in Seq(Keys) /\ Sorted(Slots)
  BY <1>1 DEF IInv, WriterInv
<1>3. /\ search' \in SearchRecord
      /\ search'.at = "count" /\ search'.key = key /\ search'.enter = state /\ search'.seen = Slots
  BY <1>1, <1>2, SearchTypes DEF SearchRecord, SearchPC
<1>4. KnownInv'
  BY <1>3 DEF KnownInv
<1>5. /\ memory' = memory /\ indexBegin' = indexBegin /\ indexEnd' = indexEnd /\ state' = state
      /\ change' = change /\ program' = program /\ before' = before
  BY <1>1 DEF writer
<1>6. Slots' = Slots
  BY <1>5 DEF Slots
<1>7. TypeInv'
  BY <1>3, <1>5 DEF IInv, TypeInv
<1>8. WriterInv'
  BY <1>1, <1>5, <1>6 DEF IInv, WriterInv
<1>9. SessionInv'
  BY <1>1, <1>2, <1>3, <1>5, <1>6, SearchTypes DEF SessionInv
<1>10. QED
  BY <1>4, <1>7, <1>8, <1>9 DEF IInv

LEMMA LoadFirstBoundInv ==
    ASSUME IInv, LoadFirstBound
    PROVE  IInv'
<1>1. PICK pc, bound :
         /\ search.at = "count" /\ UNCHANGED writer
         /\ pc \in {"subtractBegin", "subtractFrom"}
         /\ bound = IF pc = "subtractBegin" THEN indexEnd ELSE indexBegin
         /\ search' = [search EXCEPT !.at = pc, !.bound = bound]
  <2>1. search.at = "count" /\ UNCHANGED writer
    BY DEF LoadFirstBound, Search
  <2>2. CASE search' = [search EXCEPT !.at = "subtractBegin", !.bound = indexEnd]
    <3> WITNESS "subtractBegin", indexEnd
    <3> QED
      BY <2>1, <2>2
  <2>3. CASE search' = [search EXCEPT !.at = "subtractFrom", !.bound = indexBegin]
    <3> WITNESS "subtractFrom", indexBegin
    <3> QED
      BY <2>1, <2>3
  <2>4. QED
    BY <2>2, <2>3 DEF LoadFirstBound, Search
<1>2. /\ search' \in SearchRecord /\ search'.at = pc /\ search'.bound = bound
      /\ search'.key = search.key /\ search'.enter = search.enter /\ search'.seen = search.seen
  BY <1>1, SearchTypes DEF SearchRecord, SearchPC
<1>3. indexBegin' = indexBegin /\ indexEnd' = indexEnd
  BY <1>1 DEF writer
<1>4. KnownInv'
  BY <1>1, <1>2, <1>3 DEF KnownInv
<1>5. QED
  BY <1>1, <1>2, <1>4, SearchStep

LEMMA LoadSecondBoundInv ==
    ASSUME IInv, LoadSecondBound
    PROVE  IInv'
<1>1. PICK distance :
         /\ search.at \in {"subtractBegin", "subtractFrom"} /\ UNCHANGED writer
         /\ distance = IF search.at = "subtractBegin" THEN search.bound - indexBegin
                       ELSE indexEnd - search.bound
         /\ search' = [search EXCEPT !.at = "loop", !.begin = 0, !.end = CountOf(distance)]
  BY DEF LoadSecondBound, Search
<1>2. /\ search.bound \in Nat /\ distance \in Int /\ CountOf(distance) \in Nat
      /\ 0 <= distance => CountOf(distance) = distance
  BY <1>1, SearchTypes DEF SearchRecord, CountOf, Huge
<1>3. /\ search' \in SearchRecord /\ search'.at = "loop" /\ search'.begin = 0
      /\ search'.end = CountOf(distance)
      /\ search'.key = search.key /\ search'.enter = search.enter /\ search'.seen = search.seen
  BY <1>1, <1>2, SearchTypes DEF SearchRecord, SearchPC
<1>4. state' = state
  BY <1>1 DEF writer
<1>5. ASSUME Fresh PROVE Narrowed'
  <2>1. distance = indexEnd - indexBegin
    BY <1>1, <1>5 DEF IInv, KnownInv
  <2>2. search.seen = Slots /\ Len(search.seen) = indexEnd - indexBegin
    BY <1>1, <1>5, SlotsAre DEF IInv, SessionInv
  <2>3. search'.end = Len(search'.seen) /\ Len(search'.seen) \in Nat
    BY <1>2, <1>3, <2>1, <2>2, SearchTypes
  <2>4. QED
    BY <1>3, <2>3 DEF Narrowed
<1>6. KnownInv'
  BY <1>3, <1>4, <1>5 DEF KnownInv, Fresh
<1>7. QED
  BY <1>1, <1>3, <1>6, SearchStep

LEMMA LocateTesterInv ==
    ASSUME IInv, LocateTester
    PROVE  IInv'
<1>1. search.at = "loop" /\ UNCHANGED writer /\ (Fresh => Narrowed)
  BY DEF LocateTester, Search, IInv, KnownInv
<1>2. state' = state /\ indexBegin' = indexBegin
  BY <1>1 DEF writer
<1>3. CASE search.begin < search.end
  <2>0. PICK n \in Nat : n = indexBegin + Tester
    BY SearchTypes
  <2>1. search' = [search EXCEPT !.at = "load", !.pointer = n]
    BY <1>3, <2>0 DEF LocateTester, Search
  <2>2. /\ search' \in SearchRecord /\ search'.at = "load" /\ search'.pointer = n
        /\ search'.key = search.key /\ search'.enter = search.enter /\ search'.seen = search.seen
        /\ search'.begin = search.begin /\ search'.end = search.end
    BY <2>1, SearchTypes DEF SearchRecord, SearchPC
  <2>3. Narrowed' = Narrowed /\ Tester' = Tester /\ Fresh' = Fresh
    BY <1>2, <2>2 DEF Narrowed, Tester, Fresh
  <2>4. KnownInv'
    BY <1>1, <1>2, <1>3, <2>0, <2>2, <2>3 DEF KnownInv
  <2>5. QED
    BY <1>1, <2>2, <2>4, SearchStep
<1>4. CASE ~(search.begin < search.end)
  <2>1. search' = [search EXCEPT !.at = "validate", !.found = FALSE]
    BY <1>4 DEF LocateTester, Search
  <2>2. /\ search' \in SearchRecord /\ search'.at = "validate" /\ search'.found = FALSE
        /\ search'.key = search.key /\ search'.enter = search.enter /\ search'.seen = search.seen
        /\ search'.begin = search.begin /\ search'.end = search.end
    BY <2>1, SearchTypes DEF SearchRecord, SearchPC
  <2>3. Narrowed' = Narrowed /\ Fresh' = Fresh
    BY <1>2, <2>2 DEF Narrowed, Fresh
  <2>4. Narrowed => search.begin = search.end
    BY <1>4, SearchTypes DEF Narrowed
  <2>5. KnownInv'
    BY <1>1, <2>2, <2>3, <2>4 DEF KnownInv
  <2>6. QED
    BY <1>1, <2>2, <2>5, SearchStep
<1>5. QED
  BY <1>3, <1>4

\* What is loaded from a pointer into the memory, or right behind it.
LEMMA SlotAtIs ==
    ASSUME IInv, NEW p \in Nat
    PROVE  SlotAt(p) \in Keys \cup {Empty, Outside, Null} /\ (p < Room => SlotAt(p) = memory[p])
BY SearchTypes DEF SlotAt, IInv, TypeInv

\* The slot of an order, in a search that no write session has overtaken.
LEMMA SeenSlot ==
    ASSUME IInv, search.at # "idle", Fresh, NEW n \in Nat, n < Len(search.seen)
    PROVE  SlotAt(indexBegin + n) = search.seen[n + 1]
<1>1. search.seen = Slots /\ Len(search.seen) = indexEnd - indexBegin
      /\ \A i \in 1..Len(Slots) : Slots[i] = memory[indexBegin + i - 1]
  BY SlotsAre DEF IInv, SessionInv
<1>2. n + 1 \in 1..Len(Slots) /\ indexBegin + (n + 1) - 1 = indexBegin + n
      /\ indexBegin + n < Room /\ indexBegin + n \in Nat
  BY <1>1, SearchTypes
<1>3. SlotAt(indexBegin + n) = memory[indexBegin + n]
  BY <1>2, SlotAtIs
<1>4. QED
  BY <1>1, <1>2, <1>3

LEMMA LoadSlotInv ==
    ASSUME IInv, LoadSlot
    PROVE  IInv'
<1>1. /\ search.at = "load" /\ UNCHANGED writer
      /\ search' = [search EXCEPT !.at = "shouldCancel", !.slot = SlotAt(search.pointer)]
      /\ search.begin < search.end
      /\ Fresh => Narrowed /\ search.pointer = indexBegin + Tester
  BY DEF LoadSlot, Search, IInv, KnownInv
<1>2. SlotAt(search.pointer) \in Keys \cup {Empty, Outside, Null}
  BY SlotAtIs, SearchTypes
<1>3. /\ search' \in SearchRecord /\ search'.at = "shouldCancel"
      /\ search'.slot = SlotAt(search.pointer)
      /\ search'.key = search.key /\ search'.enter = search.enter /\ search'.seen = search.seen
      /\ search'.begin = search.begin /\ search'.end = search.end
  BY <1>1, <1>2, SearchTypes DEF SearchRecord, SearchPC
<1>4. Narrowed' = Narrowed /\ Tester' = Tester /\ Fresh' = Fresh
  BY <1>1, <1>3 DEF Narrowed, Tester, Fresh, writer
<1>5. Fresh => SlotAt(search.pointer) = search.seen[Tester + 1]
  <2>1. Fresh => Tester \in Nat /\ Tester < Len(search.seen)
    BY <1>1, SearchTypes DEF Narrowed
  <2>2. QED
    BY <1>1, <2>1, SeenSlot
<1>6. KnownInv'
  BY <1>1, <1>3, <1>4, <1>5 DEF KnownInv
<1>7. QED
  BY <1>1, <1>3, <1>6, SearchStep

LEMMA ShouldCancelInv ==
    ASSUME IInv, ShouldCancel
    PROVE  IInv'
<1>1. search.at = "shouldCancel" /\ UNCHANGED writer
  BY DEF ShouldCancel, Search
<1>2. CASE state # search.enter
  <2>1. search' = NoSearch
    BY <1>2 DEF ShouldCancel, Search
  <2>2. QED
    BY <1>1, <2>1, NoSearchKnown, SearchStep
<1>3. CASE state = search.enter
  <2>1. search' = [search EXCEPT !.at = "compare"]
    BY <1>3 DEF ShouldCancel, Search
  <2>2. /\ search' \in SearchRecord /\ search'.at = "compare" /\ search'.slot = search.slot
        /\ search'.key = search.key /\ search'.enter = search.enter /\ search'.seen = search.seen
        /\ search'.begin = search.begin /\ search'.end = search.end
    BY <2>1, SearchTypes DEF SearchRecord, SearchPC
  <2>3. Narrowed' = Narrowed /\ Tester' = Tester
    BY <2>2 DEF Narrowed, Tester
  <2>4. Narrowed /\ search.begin < search.end /\ search.slot = search.seen[Tester + 1]
    BY <1>1, <1>3 DEF IInv, KnownInv, Fresh
  <2>5. KnownInv'
    BY <2>2, <2>3, <2>4 DEF KnownInv
  <2>6. QED
    BY <1>1, <2>2, <2>5, SearchStep
<1>4. QED
  BY <1>2, <1>3

LEMMA CompareInv ==
    ASSUME IInv, Compare
    PROVE  IInv'
<1>1. /\ search.at = "compare" /\ UNCHANGED writer
      /\ Narrowed /\ search.begin < search.end /\ search.slot = search.seen[Tester + 1]
  BY DEF Compare, Search, IInv, KnownInv
<1>2. /\ Tester \in Nat /\ Tester < Len(search.seen) /\ Tester < search.end
      /\ Tester + 1 \in 1..Len(search.seen) /\ search.slot \in Nat
      /\ search.key \in Keys /\ search.key \in Nat
  BY <1>1, SearchTypes DEF Narrowed, IInv, SessionInv
<1>3. \A i, j \in 1..Len(search.seen) : i < j => search.seen[i] < search.seen[j]
  BY <1>1 DEF IInv, SessionInv, Sorted
<1>4. CASE search.key > search.slot
  <2>0. PICK n \in Nat : n = Tester + 1
    BY <1>2
  <2>1. search' = [search EXCEPT !.at = "loop", !.begin = n]
    BY <1>2, <1>4, <2>0 DEF Compare, Search
  <2>2. /\ search' \in SearchRecord /\ search'.at = "loop"
        /\ search'.key = search.key /\ search'.enter = search.enter /\ search'.seen = search.seen
        /\ search'.begin = n /\ search'.end = search.end
    BY <2>1, SearchTypes DEF SearchRecord, SearchPC
  <2>3. Narrowed'
    <3>1. ASSUME NEW i \in 1..Len(search.seen), i <= Tester + 1
          PROVE  search.seen[i] < search.key
      <4>1. i = Tester + 1 \/ search.seen[i] < search.slot
        BY <1>1, <1>2, <1>3, <3>1
      <4>2. search.seen[i] \in Nat
        BY SearchTypes
      <4>3. QED
        BY <1>1, <1>2, <1>4, <4>1, <4>2
    <3>2. QED
      BY <1>1, <1>2, <2>0, <2>2, <3>1, SearchTypes DEF Narrowed
  <2>4. KnownInv'
    BY <2>2, <2>3 DEF KnownInv
  <2>5. QED
    BY <1>1, <2>2, <2>4, SearchStep
<1>5. CASE search.key < search.slot
  <2>1. search' = [search EXCEPT !.at = "loop", !.end = Tester]
    BY <1>2, <1>5 DEF Compare, Search
  <2>2. /\ search' \in SearchRecord /\ search'.at = "loop"
        /\ search'.key = search.key /\ search'.enter = search.enter /\ search'.seen = search.seen
        /\ search'.begin = search.begin /\ search'.end = Tester
    BY <1>2, <2>1, SearchTypes DEF SearchRecord, SearchPC
  <2>3. Narrowed'
    <3>1. ASSUME NEW i \in 1..Len(search.seen), Tester < i
          PROVE  search.key < search.seen[i]
      <4>1. i = Tester + 1 \/ search.slot < search.seen[i]
        BY <1>1, <1>2, <1>3, <3>1
      <4>2. search.seen[i] \in Nat
        BY SearchTypes
      <4>3. QED
        BY <1>1, <1>2, <1>5, <4>1, <4>2
    <3>2. search.begin <= Tester /\ Tester <= Len(search.seen)
      BY <1>1, <1>2, SearchTypes
    <3>3. QED
      BY <1>1, <2>2, <3>1, <3>2 DEF Narrowed
  <2>4. KnownInv'
    BY <2>2, <2>3 DEF KnownInv
  <2>5. QED
    BY <1>1, <2>2, <2>4, SearchStep
<1>6. CASE search.key = search.slot
  <2>0. PICK n \in Nat, m \in Nat : n = Tester /\ m = indexBegin + Tester
    <3>1. Tester \in Nat /\ indexBegin + Tester \in Nat
      BY SearchTypes
    <3>2. QED
      BY <3>1
  <2>1. search' = [search EXCEPT !.at = "reload", !.begin = n, !.found = TRUE, !.pointer = m]
    <3>1. ~(search.key > search.slot) /\ ~(search.key < search.slot)
      BY <1>2, <1>6
    <3>2. QED
      BY <2>0, <3>1 DEF Compare, Search
  <2>2. /\ search' \in SearchRecord /\ search'.at = "reload" /\ search'.found = TRUE
        /\ search'.key = search.key /\ search'.enter = search.enter /\ search'.seen = search.seen
        /\ search'.begin = n /\ search'.pointer = m
    BY <2>1, SearchTypes DEF SearchRecord, SearchPC
  <2>3. Hit'
    BY <1>1, <1>2, <1>6, <2>0, <2>2 DEF Hit
  <2>4. search'.pointer = indexBegin' + search'.begin
    BY <1>1, <2>0, <2>2 DEF writer
  <2>5. KnownInv'
    BY <2>2, <2>3, <2>4 DEF KnownInv
  <2>6. QED
    BY <1>1, <2>2, <2>5, SearchStep
<1>7. QED
  BY <1>2, <1>4, <1>5, <1>6

LEMMA ReloadSlotInv ==
    ASSUME IInv, ReloadSlot
    PROVE  IInv'
<1>1. /\ search.at = "reload" /\ UNCHANGED writer
      /\ search' = [search EXCEPT !.at = "validate", !.slot = SlotAt(search.pointer)]
      /\ Hit /\ search.found = TRUE
      /\ Fresh => search.pointer = indexBegin + search.begin
  BY SearchTypes DEF ReloadSlot, Search, IInv, KnownInv, SearchRecord
<1>2. SlotAt(search.pointer) \in Keys \cup {Empty, Outside, Null}
  BY SlotAtIs, SearchTypes
<1>3. /\ search' \in SearchRecord /\ search'.at = "validate"
      /\ search'.slot = SlotAt(search.pointer) /\ search'.found = TRUE
      /\ search'.key = search.key /\ search'.enter = search.enter /\ search'.seen = search.seen
      /\ search'.begin = search.begin
  BY <1>1, <1>2, SearchTypes DEF SearchRecord, SearchPC
<1>4. Hit' /\ Fresh' = Fresh
  BY <1>1, <1>3 DEF Hit, Fresh, writer
<1>5. Fresh => SlotAt(search.pointer) = search.key
  BY <1>1, SeenSlot, SearchTypes DEF Hit
<1>6. KnownInv'
  BY <1>3, <1>4, <1>5 DEF KnownInv
<1>7. QED
  BY <1>1, <1>3, <1>6, SearchStep

LEMMA ValidateInv ==
    ASSUME IInv, Validate
    PROVE  IInv'
<1>1. search.at = "validate" /\ UNCHANGED writer
  BY DEF Validate, Search
<1>2. CASE state # search.enter
  <2>1. search' = NoSearch
    BY <1>2 DEF Validate, Search
  <2>2. QED
    BY <1>1, <2>1, NoSearchKnown, SearchStep
<1>3. CASE state = search.enter
  <2>1. search' = [search EXCEPT !.at = "answer"]
    BY <1>3 DEF Validate, Search
  <2>2. /\ search' \in SearchRecord /\ search'.at = "answer" /\ search'.slot = search.slot
        /\ search'.key = search.key /\ search'.enter = search.enter /\ search'.seen = search.seen
        /\ search'.begin = search.begin /\ search'.end = search.end /\ search'.found = search.found
    BY <2>1, SearchTypes DEF SearchRecord, SearchPC
  <2>3. Narrowed' = Narrowed /\ Hit' = Hit
    BY <2>2 DEF Narrowed, Hit
  <2>4. IF search.found THEN Hit /\ search.slot = search.key
        ELSE Narrowed /\ search.begin = search.end
    BY <1>1, <1>3 DEF IInv, KnownInv, Fresh
  <2>5. KnownInv'
    BY <2>2, <2>3, <2>4 DEF KnownInv
  <2>6. QED
    BY <1>1, <2>2, <2>5, SearchStep
<1>4. QED
  BY <1>2, <1>3

LEMMA AnswerInv ==
    ASSUME IInv, Answer
    PROVE  IInv'
BY NoSearchKnown, SearchStep DEF Answer, Search

-----------------------------------------------------------------------------
(* The theorems.                                                           *)

LEMMA InitInv == Init => IInv
<1> SUFFICES ASSUME Init PROVE IInv
  OBVIOUS
<1>1. Room \in Nat /\ MaxWrites \in Nat
  BY BoundsAreNatural
<1>2. <<>> \in Seq(Keys) /\ <<>> \in Seq(StoreRecord)
  OBVIOUS
<1>3. memory \in [0..(Room - 1) -> Keys \cup {Empty}] /\ indexBegin = Room /\ indexEnd = Room
  BY DEF Init
<1>4. search \in SearchRecord /\ search.at = "idle"
  BY <1>2 DEF Init, NoSearch, SearchRecord, SearchPC, Empty
<1>5. TypeInv
  BY <1>1, <1>2, <1>3, <1>4 DEF Init, TypeInv, NoChange, ChangeRecord, Empty
<1>6. Len(Slots) = 0 /\ Slots \in Seq(Keys \cup {Empty})
  BY <1>1, <1>3, <1>5, SlotsAre
<1>7. Slots = <<>>
  BY <1>6
<1>8. Slots \in Seq(Keys) /\ Sorted(Slots)
  BY <1>6, <1>7 DEF Sorted
<1>9. ~IsCorrupted(state)
  BY DEF Init, IsCorrupted
<1>10. WriterInv
  BY <1>8, <1>9 DEF WriterInv, Init
<1>11. SessionInv /\ KnownInv
  BY <1>4 DEF SessionInv, KnownInv
<1>12. QED
  BY <1>5, <1>10, <1>11 DEF IInv

LEMMA StutterInv ==
    ASSUME IInv, UNCHANGED vars
    PROVE  IInv'
<1>1. UNCHANGED writer /\ search' = search
  BY DEF vars
<1>2. Narrowed' = Narrowed /\ Hit' = Hit /\ Tester' = Tester /\ Fresh' = Fresh
      /\ indexBegin' = indexBegin /\ indexEnd' = indexEnd
  BY <1>1 DEF Narrowed, Hit, Tester, Fresh, writer
<1>3. KnownInv'
  BY <1>1, <1>2 DEF IInv, KnownInv
<1>4. search' \in SearchRecord
  BY <1>1, SearchTypes
<1>5. QED
  BY <1>1, <1>3, <1>4, SearchStep

LEMMA NextInv == IInv /\ [Next]_vars => IInv'
<1> SUFFICES ASSUME IInv, [Next]_vars PROVE IInv'
  OBVIOUS
<1>1. CASE UNCHANGED vars
  BY <1>1, StutterInv
<1>2. CASE Write
  BY <1>2, BeginInsertInv, BeginRemoveInv, StoreInv, EndWriteInv DEF Write
<1>3. CASE Read
  BY <1>3, BeginReadInv, LoadFirstBoundInv, LoadSecondBoundInv, LocateTesterInv, LoadSlotInv,
     ShouldCancelInv, CompareInv, ReloadSlotInv, ValidateInv, AnswerInv DEF Read
<1>4. QED
  BY <1>1, <1>2, <1>3 DEF Next

\* The invariant holds in every reachable state, for every set of keys, size of
\* the memory and number of write sessions.
THEOREM IndexInvariant == Spec => []IInv
<1>1. Init => IInv
  BY InitInv
<1>2. IInv /\ [Next]_vars => IInv'
  BY NextInv
<1>3. QED
  BY <1>1, <1>2, PTL DEF Spec

\* Every variable has its type; in particular no store of a write session falls
\* outside the memory and the bounds of the index never cross.
THEOREM TypesAreKept == Spec => []TypeOK
<1>1. IInv => TypeOK
  BY DEF IInv, TypeInv, TypeOK, SearchRecord
<1>2. QED
  BY <1>1, IndexInvariant, PTL

\* A search follows only slots that belong to the session it began in, although
\* no writer waits for it.
THEOREM FollowsValidSlotsThm == Spec => []FollowsValidSlots
<1>1. IInv => FollowsValidSlots
  <2> SUFFICES ASSUME IInv, search.at = "compare"
               PROVE  Tester < Len(search.seen) /\ search.slot = search.seen[Tester + 1]
    BY DEF FollowsValidSlots
  <2>1. Narrowed /\ search.begin < search.end /\ search.slot = search.seen[Tester + 1]
    BY DEF IInv, KnownInv
  <2>2. QED
    BY <2>1, SearchTypes DEF Narrowed
<1>2. QED
  BY <1>1, IndexInvariant, PTL

\* A validated search has found its key, or its place, in the slots as they were
\* when its session began.
THEOREM AnswersForItsSessionThm == Spec => []AnswersForItsSession
<1>1. IInv => AnswersForItsSession
  <2> SUFFICES ASSUME IInv, search.at = "answer"
               PROVE  /\ search.found <=> search.key \in ToSet(search.seen)
                      /\ IF search.found
                         THEN search.slot = search.key /\ search.seen[search.begin + 1] = search.key
                         ELSE search.begin = OrderOf(search.seen, search.key)
    BY DEF AnswersForItsSession
  <2>1. /\ search.key \in Keys /\ search.key \in Nat /\ search.seen \in Seq(Keys)
        /\ DOMAIN search.seen = 1..Len(search.seen) /\ search.found \in BOOLEAN
        /\ IF search.found THEN Hit /\ search.slot = search.key
           ELSE Narrowed /\ search.begin = search.end
    BY SearchTypes DEF IInv, SessionInv, KnownInv, SearchRecord
  <2>2. CASE search.found
    <3>1. search.begin + 1 \in DOMAIN search.seen /\ search.seen[search.begin + 1] = search.key
      BY <2>1, <2>2, SearchTypes DEF Hit
    <3>2. QED
      BY <2>1, <2>2, <3>1 DEF ToSet
  <2>3. CASE ~search.found
    <3>1. Belongs(search.seen, search.begin, search.key)
      BY <2>1, <2>3, SearchTypes DEF Narrowed, Belongs
    <3>2. search.begin = OrderOf(search.seen, search.key)
      BY <2>1, <3>1, PlaceIsOrder
    <3>3. ASSUME NEW i \in 1..Len(search.seen) PROVE search.seen[i] # search.key
      <4>1. search.seen[i] \in Nat /\ (search.seen[i] < search.key \/ search.key < search.seen[i])
        BY <3>1, SearchTypes DEF Belongs
      <4>2. QED
        BY <2>1, <4>1
    <3>4. QED
      BY <2>1, <2>3, <3>2, <3>3 DEF ToSet
  <2>4. QED
    BY <2>1, <2>2, <2>3
<1>2. QED
  BY <1>1, IndexInvariant, PTL

\* What a session of one of the four kinds has not lost: the slots between the
\* bounds are stored ones, and only the one to remove is missing.
LEMMA SessionKeepsSlots ==
    ASSUME TypeInv, NEW b \in 0..Room, NEW e \in 0..Room, Len(before) = e - b, NEW k \in Nat,
           Session(b, e, k)
    PROVE  /\ \A p \in indexBegin..(indexEnd - 1) : memory[p] # Empty
           /\ \A i \in 1..Len(before) : i # change.order + 1 \/ Inserts =>
                \E p \in indexBegin..(indexEnd - 1) : memory[p] = before[i]
           /\ indexEnd - indexBegin > Len(before) => Inserts
<1>1. PICK o, key, n : o = change.order /\ key = change.key /\ n = Len(before)
  OBVIOUS
<1>2. /\ b \in Nat /\ e \in Nat /\ n \in Nat /\ n = e - b /\ before \in Seq(Keys) /\ o \in Nat
      /\ Keys \subseteq Nat \ {0} /\ Empty = 0 /\ Room \in Nat
      /\ \A i \in 1..n : before[i] \in Keys
  BY <1>1, BoundsAreNatural, KeysArePositive, LenProperties, ElementOfSeq DEF TypeInv, ChangeRecord, Empty
<1>3. \A i \in Int : b <= i /\ i < e => OldSlot(b, i) \in Keys
  <2>1. ASSUME NEW i \in Int, b <= i, i < e PROVE i - b + 1 \in 1..n
    BY <1>2, <2>1
  <2>2. QED
    BY <1>2, <2>1 DEF OldSlot
<1>4. ASSUME NEW i \in 1..n
      PROVE  /\ i + b - 1 \in b..(e - 1) /\ OldSlot(b, i + b - 1) = before[i]
  <2>1. (i + b - 1) - b + 1 = i /\ i + b - 1 \in b..(e - 1)
    BY <1>2
  <2>2. OldSlot(b, i + b - 1) = before[i]
    BY <2>1, Zenon DEF OldSlot
  <2>3. QED
    BY <2>1, <2>2
<1>5. CASE InsertingLeft(b, e, k)
  <2>1. o \in 0..n /\ key \in Keys /\ 0 < b /\ Inserts
    BY <1>1, <1>5 DEF InsertingLeft, Inserts, Belongs
  <2>2. PICK w \in 0..(o + 1) : /\ w = Stored(k) /\ (k < 2 => w <= 1) /\ (~(k < 2) => 1 <= w)
                                /\ indexBegin = (IF k < 2 THEN b ELSE b - 1) /\ indexEnd = e
    <3>1. k <= o + 2
      BY <1>1, <1>2, <1>5, LenProperties DEF InsertingLeft, TypeInv
    <3>2. QED
      BY <1>1, <1>2, <1>5, <3>1 DEF InsertingLeft, Stored
  <2>3. ASSUME NEW p \in (b - 1)..(e - 1)
        PROVE  IF p < b - 1 + w
               THEN memory[p] = IF p = b - 1 + o THEN key ELSE OldSlot(b, p + 1)
               ELSE b <= p => memory[p] = OldSlot(b, p)
    BY <1>1, <1>5, <2>2 DEF InsertingLeft
  <2>4. ASSUME NEW p \in indexBegin..(indexEnd - 1) PROVE memory[p] # Empty
    BY <1>2, <1>3, <2>1, <2>2, <2>3
  <2>5. ASSUME NEW i \in 1..n
        PROVE  \E p \in indexBegin..(indexEnd - 1) : memory[p] = before[i]
    <3>1. CASE i < w
      <4>1. i + b - 2 \in indexBegin..(indexEnd - 1) /\ i + b - 2 \in (b - 1)..(e - 1)
            /\ i + b - 2 < b - 1 + w /\ i + b - 2 # b - 1 + o /\ (i + b - 2) + 1 = i + b - 1
        BY <1>2, <2>1, <2>2, <3>1
      <4>2. memory[i + b - 2] = before[i]
        BY <1>4, <2>3, <4>1
      <4>3. QED
        BY <4>1, <4>2
    <3>2. CASE w <= i
      <4>1. i + b - 1 \in indexBegin..(indexEnd - 1) /\ i + b - 1 \in (b - 1)..(e - 1)
            /\ b <= i + b - 1 /\ ~(i + b - 1 < b - 1 + w)
        BY <1>2, <2>1, <2>2, <3>2
      <4>2. memory[i + b - 1] = before[i]
        BY <1>4, <2>3, <4>1
      <4>3. QED
        BY <4>1, <4>2
    <3>3. QED
      BY <2>2, <3>1, <3>2
  <2>6. QED
    BY <1>1, <2>1, <2>4, <2>5
<1>6. CASE InsertingRight(b, e, k)
  <2>1. o \in 0..n /\ key \in Keys /\ e < Room /\ Inserts
    BY <1>1, <1>6 DEF InsertingRight, Inserts, Belongs
  <2>2. PICK w \in 0..(n - o + 1) : /\ w = Stored(k) /\ (k < 2 => w <= 1) /\ (~(k < 2) => 1 <= w)
                                    /\ indexBegin = b /\ indexEnd = (IF k < 2 THEN e ELSE e + 1)
    <3>1. Len(program) = e - b - o + 2 - k /\ Len(program) \in Nat
      BY <1>1, <1>6, LenProperties DEF InsertingRight, TypeInv
    <3>2. k <= n - o + 2
      BY <1>2, <2>1, <3>1
    <3>3. Stored(k) \in 0..(n - o + 1) /\ (k < 2 => Stored(k) <= 1) /\ (~(k < 2) => 1 <= Stored(k))
      BY <1>2, <2>1, <3>2 DEF Stored
    <3>4. QED
      BY <1>6, <3>3 DEF InsertingRight
  <2>3. ASSUME NEW p \in b..e
        PROVE  IF e - w < p
               THEN memory[p] = IF p = b + o THEN key ELSE OldSlot(b, p - 1)
               ELSE p < e => memory[p] = OldSlot(b, p)
    BY <1>1, <1>6, <2>2 DEF InsertingRight
  <2>4. ASSUME NEW p \in indexBegin..(indexEnd - 1) PROVE memory[p] # Empty
    <3>1. p \in b..e /\ (~(k < 2) \/ p < e) /\ p - 1 \in Int /\ p \in Int
      BY <1>2, <2>2
    <3>2. CASE e - w < p
      <4>1. p = b + o \/ b <= p - 1
        BY <1>2, <2>1, <2>2, <3>1, <3>2
      <4>2. QED
        BY <1>2, <1>3, <2>1, <2>3, <3>1, <3>2, <4>1
    <3>3. CASE ~(e - w < p)
      <4>1. p < e
        BY <1>2, <2>1, <2>2, <3>1, <3>3
      <4>2. QED
        BY <1>2, <1>3, <2>3, <3>1, <3>3, <4>1
    <3>4. QED
      BY <3>2, <3>3
  <2>5. ASSUME NEW i \in 1..n
        PROVE  \E p \in indexBegin..(indexEnd - 1) : memory[p] = before[i]
    <3>1. CASE e - w < i + b - 1
      <4>1. i + b \in indexBegin..(indexEnd - 1) /\ i + b \in b..e
            /\ e - w < i + b /\ i + b # b + o /\ (i + b) - 1 = i + b - 1
        BY <1>2, <2>1, <2>2, <3>1
      <4>2. memory[i + b] = before[i]
        BY <1>4, <2>3, <4>1
      <4>3. QED
        BY <4>1, <4>2
    <3>2. CASE ~(e - w < i + b - 1)
      <4>1. i + b - 1 \in indexBegin..(indexEnd - 1) /\ i + b - 1 \in b..e /\ i + b - 1 < e
        BY <1>2, <2>1, <2>2
      <4>2. memory[i + b - 1] = before[i]
        BY <1>4, <2>3, <3>2, <4>1
      <4>3. QED
        BY <4>1, <4>2
    <3>3. QED
      BY <3>1, <3>2
  <2>6. QED
    BY <1>1, <2>1, <2>4, <2>5
<1>7. CASE RemovingLeft(b, e, k)
  <2>1. o < n /\ indexBegin = (IF k <= o THEN b ELSE b + 1) /\ indexEnd = e
    BY <1>1, <1>7 DEF RemovingLeft, Removes
  <2>2. ASSUME NEW p \in b..(e - 1)
        PROVE  IF b + o - k < p /\ p <= b + o
               THEN b < p => memory[p] = OldSlot(b, p - 1)
               ELSE memory[p] = OldSlot(b, p)
    BY <1>1, <1>7 DEF RemovingLeft
  <2>2a. k <= o + 1
    BY <1>1, <1>2, <1>7, LenProperties DEF RemovingLeft, TypeInv
  <2>3. ASSUME NEW p \in indexBegin..(indexEnd - 1) PROVE memory[p] # Empty
    <3>1. p \in b..(e - 1) /\ p \in Int /\ p - 1 \in Int
      BY <1>2, <2>1
    <3>2. CASE b + o - k < p /\ p <= b + o
      <4>1. b < p /\ b <= p - 1 /\ p - 1 < e
        BY <1>2, <2>1, <3>1, <3>2
      <4>2. QED
        BY <1>2, <1>3, <2>2, <3>1, <3>2, <4>1
    <3>3. CASE ~(b + o - k < p /\ p <= b + o)
      <4>1. b <= p /\ p < e
        BY <1>2, <3>1
      <4>2. QED
        BY <1>2, <1>3, <2>2, <3>1, <3>3, <4>1
    <3>4. QED
      BY <3>2, <3>3
  <2>4. ASSUME NEW i \in 1..n, i # o + 1
        PROVE  \E p \in indexBegin..(indexEnd - 1) : memory[p] = before[i]
    <3>1. CASE b + o - k < i + b - 1 /\ i + b - 1 < b + o
      <4>1. i + b \in indexBegin..(indexEnd - 1) /\ i + b \in b..(e - 1)
            /\ b + o - k < i + b /\ i + b <= b + o /\ b < i + b /\ (i + b) - 1 = i + b - 1
        BY <1>2, <2>1, <2>2a, <3>1
      <4>2. memory[i + b] = before[i]
        BY <1>4, <2>2, <4>1
      <4>3. QED
        BY <4>1, <4>2
    <3>2. CASE ~(b + o - k < i + b - 1 /\ i + b - 1 < b + o)
      <4>1. i + b - 1 \in indexBegin..(indexEnd - 1) /\ i + b - 1 \in b..(e - 1)
            /\ ~(b + o - k < i + b - 1 /\ i + b - 1 <= b + o)
        BY <1>2, <2>1, <2>2a, <2>4, <3>2
      <4>2. memory[i + b - 1] = before[i]
        BY <1>4, <2>2, <4>1
      <4>3. QED
        BY <4>1, <4>2
    <3>3. QED
      BY <3>1, <3>2
  <2>5. ~(indexEnd - indexBegin > n)
    BY <1>2, <2>1
  <2>6. ~Inserts
    BY <1>7 DEF RemovingLeft, Removes, Inserts
  <2>7. QED
    BY <1>1, <2>3, <2>4, <2>5, <2>6
<1>8. CASE RemovingRight(b, e, k)
  <2>1. o < n /\ indexBegin = b /\ indexEnd = (IF k < e - b - o THEN e ELSE e - 1)
    BY <1>1, <1>8 DEF RemovingRight, Removes
  <2>2. ASSUME NEW p \in b..(e - 1)
        PROVE  IF b + o <= p /\ p < b + o + k
               THEN p < e - 1 => memory[p] = OldSlot(b, p + 1)
               ELSE memory[p] = OldSlot(b, p)
    BY <1>1, <1>8 DEF RemovingRight
  <2>2a. k <= e - b - o
    <3>1. Len(program) = e - b - o - k /\ Len(program) \in Nat
      BY <1>1, <1>8, LenProperties DEF RemovingRight, TypeInv
    <3>2. QED
      BY <1>2, <3>1
  <2>3. ASSUME NEW p \in indexBegin..(indexEnd - 1) PROVE memory[p] # Empty
    <3>1. p \in b..(e - 1) /\ p \in Int /\ p + 1 \in Int
      BY <1>2, <2>1
    <3>2. CASE b + o <= p /\ p < b + o + k
      <4>1. p < e - 1 /\ b <= p + 1 /\ p + 1 < e
        BY <1>2, <2>1, <2>2a, <3>1, <3>2
      <4>2. QED
        BY <1>2, <1>3, <2>2, <3>1, <3>2, <4>1
    <3>3. CASE ~(b + o <= p /\ p < b + o + k)
      <4>1. b <= p /\ p < e
        BY <1>2, <3>1
      <4>2. QED
        BY <1>2, <1>3, <2>2, <3>1, <3>3, <4>1
    <3>4. QED
      BY <3>2, <3>3
  <2>4. ASSUME NEW i \in 1..n, i # o + 1
        PROVE  \E p \in indexBegin..(indexEnd - 1) : memory[p] = before[i]
    <3>1. CASE b + o < i + b - 1 /\ i + b - 1 < b + o + k
      <4>1. i + b - 2 \in indexBegin..(indexEnd - 1) /\ i + b - 2 \in b..(e - 1)
            /\ b + o <= i + b - 2 /\ i + b - 2 < b + o + k /\ i + b - 2 < e - 1
            /\ (i + b - 2) + 1 = i + b - 1
        BY <1>2, <2>1, <2>2a, <3>1
      <4>2. memory[i + b - 2] = before[i]
        BY <1>4, <2>2, <4>1
      <4>3. QED
        BY <4>1, <4>2
    <3>2. CASE ~(b + o < i + b - 1 /\ i + b - 1 < b + o + k)
      <4>1. i + b - 1 \in indexBegin..(indexEnd - 1) /\ i + b - 1 \in b..(e - 1)
            /\ ~(b + o <= i + b - 1 /\ i + b - 1 < b + o + k)
        BY <1>2, <2>1, <2>2a, <2>4, <3>2
      <4>2. memory[i + b - 1] = before[i]
        BY <1>4, <2>2, <4>1
      <4>3. QED
        BY <4>1, <4>2
    <3>3. QED
      BY <3>1, <3>2
  <2>5. ~(indexEnd - indexBegin > n)
    BY <1>2, <2>1
  <2>6. ~Inserts
    BY <1>8 DEF RemovingRight, Removes, Inserts
  <2>7. QED
    BY <1>1, <2>3, <2>4, <2>5, <2>6
<1>9. QED
  BY <1>5, <1>6, <1>7, <1>8 DEF Session

\* Whatever a write session has stored so far, no slot is lost but the one to
\* remove, and no position that was never stored lies between the bounds.
THEOREM NoSlotLostOrUncoveredThm == Spec => []NoSlotLostOrUncovered
<1>1. IInv => NoSlotLostOrUncovered
  <2> SUFFICES ASSUME IInv, IsCorrupted(state)
               PROVE  /\ Empty \notin ToSet(Slots)
                      /\ Cardinality(ToSet(before) \ ToSet(Slots)) <= 1
                      /\ Len(Slots) > Len(before) => ToSet(before) \subseteq ToSet(Slots)
    BY DEF NoSlotLostOrUncovered
  <2>1. PICK b \in 0..Room, e \in 0..Room : Len(before) = e - b /\ \E k \in Nat : Session(b, e, k)
    BY DEF IInv, WriterInv
  <2>2. PICK k \in Nat : Session(b, e, k)
    BY <2>1
  <2>3. /\ \A p \in indexBegin..(indexEnd - 1) : memory[p] # Empty
        /\ \A i \in 1..Len(before) : i # change.order + 1 \/ Inserts =>
             \E p \in indexBegin..(indexEnd - 1) : memory[p] = before[i]
        /\ indexEnd - indexBegin > Len(before) => Inserts
    BY <2>1, <2>2, SessionKeepsSlots DEF IInv
  <2>4. /\ DOMAIN Slots = 1..(indexEnd - indexBegin) /\ Len(Slots) = indexEnd - indexBegin
        /\ \A i \in 1..Len(Slots) : Slots[i] = memory[indexBegin + i - 1]
        /\ indexBegin \in Nat /\ indexEnd \in Nat
    BY SlotsAre, SearchTypes DEF IInv
  <2>5. DOMAIN before = 1..Len(before)
    BY DEF IInv, TypeInv
  <2>6. ASSUME NEW p \in indexBegin..(indexEnd - 1) PROVE memory[p] \in ToSet(Slots)
    <3>1. p - indexBegin + 1 \in DOMAIN Slots /\ indexBegin + (p - indexBegin + 1) - 1 = p
          /\ p - indexBegin + 1 \in 1..Len(Slots)
      BY <2>4
    <3>2. Slots[p - indexBegin + 1] = memory[p]
      BY <2>4, <3>1
    <3>3. QED
      BY <3>1, <3>2 DEF ToSet
  <2>7. Empty \notin ToSet(Slots)
    <3>1. ASSUME NEW i \in 1..Len(Slots) PROVE Slots[i] # Empty
      <4>1. indexBegin + i - 1 \in indexBegin..(indexEnd - 1)
        BY <2>4
      <4>2. QED
        BY <2>3, <2>4, <4>1
    <3>2. QED
      BY <2>4, <3>1 DEF ToSet
  <2>8. ToSet(before) \ ToSet(Slots) \subseteq {before[change.order + 1]}
    BY <2>3, <2>5, <2>6 DEF ToSet
  <2>9. Cardinality(ToSet(before) \ ToSet(Slots)) <= 1
    <3>1. IsFiniteSet({before[change.order + 1]}) /\ Cardinality({before[change.order + 1]}) = 1
      BY FS_Singleton
    <3>2. QED
      BY <2>8, <3>1, FS_Subset
  <2>10. ASSUME Len(Slots) > Len(before) PROVE ToSet(before) \subseteq ToSet(Slots)
    BY <2>3, <2>4, <2>5, <2>6, <2>10 DEF ToSet
  <2>11. QED
    BY <2>7, <2>9, <2>10
<1>2. QED
  BY <1>1, IndexInvariant, PTL

-----------------------------------------------------------------------------
(* The refinement.                                                         *)

\* The abstract slots.
Promised == IF IsCorrupted(state) THEN before ELSE Slots

\* The stores of a session are invisible in the sorted sequence: its beginning
\* announces the change, and its end makes it.
LEMMA StepsImplement ==
    ASSUME IInv, [Next]_vars
    PROVE  [Sequence!Next]_<<Promised, change>>
<1>1. CASE UNCHANGED writer
  <2>1. state' = state /\ before' = before /\ change' = change /\ Slots' = Slots
    BY <1>1 DEF writer, Slots
  <2>2. QED
    BY <2>1 DEF Promised
<1>2. ASSUME NEW key \in Keys, BeginInsert(key) PROVE Sequence!AnnounceInsert(key)
  <2>1. /\ ~IsCorrupted(state) /\ state' = state + 1 /\ before' = Slots
        /\ change' = [kind |-> "insert", order |-> OrderOf(Slots, key), key |-> key]
        /\ \A i \in DOMAIN Slots : Slots[i] # key
    BY <1>2 DEF BeginInsert, BeginWrite
  <2>2. IsCorrupted(state')
    BY <2>1, Parity, SearchTypes
  <2>3. change = NoChange
    BY <2>1 DEF IInv, WriterInv
  <2>4. Promised = Slots /\ Promised' = Slots
    BY <2>1, <2>2 DEF Promised
  <2>5. Sequence!OrderOf(Slots, key) = OrderOf(Slots, key) /\ Sequence!NoChange = NoChange
    <3>1. \A S : Sequence!Cardinality(S) = Cardinality(S)
      BY Zenon DEF Sequence!Cardinality, Cardinality
    <3>2. QED
      BY <3>1 DEF Sequence!OrderOf, OrderOf, Sequence!NoChange, NoChange, Empty
  <2>6. PICK s : s = Promised /\ s = Promised' /\ s = Slots
    BY <2>4
  <2>7. /\ change = Sequence!NoChange /\ \A i \in DOMAIN s : s[i] # key
        /\ change' = [kind |-> "insert", order |-> Sequence!OrderOf(s, key), key |-> key]
    BY <2>1, <2>3, <2>5, <2>6
  <2>8. QED
    BY <2>6, <2>7 DEF Sequence!AnnounceInsert, Promised
<1>3. ASSUME NEW order \in 0..(Room - 1), BeginRemove(order)
      PROVE  order \in 0..(Len(Promised) - 1) /\ Sequence!AnnounceRemove(order)
  <2>1. /\ ~IsCorrupted(state) /\ state' = state + 1 /\ before' = Slots
        /\ change' = [kind |-> "remove", order |-> order, key |-> Empty]
        /\ order < Len(Slots)
    BY <1>3 DEF BeginRemove, BeginWrite
  <2>2. IsCorrupted(state')
    BY <2>1, Parity, SearchTypes
  <2>3. change = NoChange
    BY <2>1 DEF IInv, WriterInv
  <2>4. Promised = Slots /\ Promised' = Slots
    BY <2>1, <2>2 DEF Promised
  <2>5. order \in 0..(Len(Slots) - 1)
    BY <2>1, SlotsAre DEF IInv
  <2>6. QED
    BY <2>1, <2>3, <2>4, <2>5 DEF Sequence!AnnounceRemove, Sequence!NoChange, NoChange, Empty, Promised
<1>4. ASSUME Store PROVE UNCHANGED <<Promised, change>>
  <2>1. IsCorrupted(state) /\ UNCHANGED <<state, change, before>>
    BY <1>4, StoreIs DEF IInv, WriterInv, Store
  <2>2. QED
    BY <2>1 DEF Promised
<1>5. ASSUME EndWrite PROVE Sequence!Effect
  <2>1. /\ IsCorrupted(state) /\ program = <<>> /\ state' = state + 1 /\ change' = NoChange
        /\ UNCHANGED <<memory, indexBegin, indexEnd>>
    BY <1>5 DEF EndWrite
  <2>2. ~IsCorrupted(state') /\ Slots' = Slots
    BY <2>1, Parity, SearchTypes DEF Slots
  <2>3. Slots = Changed /\ (Inserts \/ Removes)
    BY <2>1, Finished DEF IInv
  <2>4. Promised = before /\ Promised' = Changed
    BY <2>1, <2>2, <2>3 DEF Promised
  <2>5. change # NoChange
    BY <2>3 DEF Inserts, Removes, NoChange
  <2>6. /\ Sequence!NoChange = NoChange
        /\ \A s, i, x : Sequence!InsertAt(s, i, x) = InsertAt(s, i, x) /\ Sequence!RemoveAt(s, i) = RemoveAt(s, i)
    BY DEF Sequence!NoChange, NoChange, Empty, Sequence!InsertAt, InsertAt, Sequence!RemoveAt, RemoveAt
  <2>7. PICK s, c : s = Promised /\ c = Promised' /\ s = before /\ c = Changed
    BY <2>4
  <2>8. c = IF change.kind = "insert" THEN Sequence!InsertAt(s, change.order + 1, change.key)
            ELSE Sequence!RemoveAt(s, change.order + 1)
    BY <2>6, <2>7 DEF Changed
  <2>9. QED
    BY <2>1, <2>5, <2>6, <2>7, <2>8, Zenon DEF Sequence!Effect, Promised
<1>6. CASE UNCHANGED vars
  BY <1>1, <1>6 DEF vars
<1>7. CASE Read
  <2>1. UNCHANGED writer
    BY <1>7 DEF Read, BeginRead, LoadFirstBound, LoadSecondBound, LocateTester, LoadSlot,
                ShouldCancel, Compare, ReloadSlot, Validate, Answer, Search
  <2>2. QED
    BY <1>1, <2>1
<1>8. CASE Write
  <2>1. CASE \E key \in Keys : BeginInsert(key)
    BY <1>2, <2>1 DEF Sequence!Next
  <2>2. CASE \E order \in 0..(Room - 1) : BeginRemove(order)
    BY <1>3, <2>2 DEF Sequence!Next, Promised
  <2>3. CASE Store
    BY <1>4, <2>3
  <2>4. CASE EndWrite
    BY <1>5, <2>4 DEF Sequence!Next
  <2>5. QED
    BY <1>8, <2>1, <2>2, <2>3, <2>4 DEF Write
<1>9. QED
  BY <1>6, <1>7, <1>8 DEF Next

\* The array of slots implements the sorted sequence: what _InsertIndexAt and
\* _RemoveIndexAt store, one slot at a time, amounts to one insertion or removal
\* at the order that the write session was asked for.
THEOREM ImplementsSequenceThm == Spec => ImplementsSequence
<1>1. Init => Sequence!Init
  <2> SUFFICES ASSUME Init PROVE Sequence!Init
    OBVIOUS
  <2>1. Room \in Nat /\ indexBegin = Room /\ indexEnd = Room /\ ~IsCorrupted(state)
    BY BoundsAreNatural DEF Init, IsCorrupted
  <2>2. Slots = <<>>
    BY <2>1 DEF Slots
  <2>3. QED
    BY <2>1, <2>2 DEF Init, NoChange, Empty, Sequence!Init, Sequence!NoChange
<1>2. IInv /\ [Next]_vars => [Sequence!Next]_<<Promised, change>>
  BY StepsImplement
<1>3. QED
  BY <1>1, <1>2, IndexInvariant, PTL DEF Spec, ImplementsSequence, Sequence!Spec, Promised
=============================================================================
