--------------------------- MODULE RebuildProofs ---------------------------
(***************************************************************************)
(* Proofs about Rebuild (module Rebuild), for any keys, any number of      *)
(* records, versions and ticks, with and without calls that end half way.  *)
(*                                                                         *)
(* The slots are a set of records, one of each key, in the order of their  *)
(* keys (Sound): a slot inserted, removed or replaced adds a record to     *)
(* that set, takes one from it, or both.  What is left to show is which    *)
(* record of a key the loop of Rebuild ends with.  IInv has two answers:   *)
(* none that is marked comes after a record with a slot and is as young    *)
(* (LaterInv); and as long as no call has ended half way the record with   *)
(* a slot is the last of its key, and each one is at least as young as the *)
(* live record before it (CleanInv).                                       *)
(***************************************************************************)
EXTENDS Rebuild, IndexOpsProofs

RecordType == [key : Keys, version : Nat, time : Nat, deleted : BOOLEAN]
IndexType(m) == [memory : [1..Room -> 0..m], begin : Nat, end : Nat]

SlotSet(ix) == {Slots(ix)[i] : i \in 1..Count(ix)}

\* The slots lead to live records among the first n, in the order of their keys;
\* an index of n records has moved at most n slots down from the end of the table.
Sound(ix, n, records) ==
    /\ ix \in IndexType(Len(records))
    /\ Room + 1 - n <= ix.begin /\ ix.begin <= ix.end /\ ix.end <= Room + 1
    /\ \A i \in 1..Count(ix) : Slots(ix)[i] \in 1..n /\ ~records[Slots(ix)[i]].deleted
    /\ \A i, j \in 1..Count(ix) :
            i < j => records[Slots(ix)[i]].key < records[Slots(ix)[j]].key

\* Record b is the next one of its key behind a; r is the last of its key up to n.
Follows(records, a, b) ==
    /\ a < b /\ records[a].key = records[b].key
    /\ \A i \in (a + 1)..(b - 1) : records[i].key # records[a].key
IsLast(records, n, r) == \A i \in (r + 1)..n : records[i].key # records[r].key

\* The records that calls have left up to this time.
Written(records, now) ==
    /\ records \in Seq(RecordType) /\ Len(records) <= MaxRecords
    /\ \A i \in 1..Len(records) : records[i].version \in 2..MaxVersion /\ records[i].time <= now
LogInv == Written(log, clock) /\ clock \in 0..MaxTime

\* A marked record behind one of these is older; these are the live records
\* that are the last of their key up to n.
Later(records, slots, n) ==
    \A r \in slots, s \in 1..n :
        r < s /\ records[s].key = records[r].key /\ records[s].deleted
        => IsOlder(records[s], records[r])
AreLast(records, slots, n) ==
    \A r \in 1..n : r \in slots <=> ~records[r].deleted /\ IsLast(records, n, r)

LaterInv == Later(log, SlotSet(index), Len(log))

\* A live record is not younger than the next one of its key.
Chained(records) ==
    \A r, s \in 1..Len(records) :
        Follows(records, r, s) /\ ~records[r].deleted => ~IsOlder(records[s], records[r])

ChainInv == Chained(log)
LastInv == AreLast(log, SlotSet(index), Len(log))
CleanInv == ~timedOut => ChainInv /\ LastInv

IInv == LogInv /\ Sound(index, Len(log), log) /\ LaterInv /\ CleanInv

-----------------------------------------------------------------------------
(* An index, its slots and the memory around them.                         *)

LEMMA RoomIs == Room \in Nat /\ Room = 2 * MaxRecords + 2
BY BoundsAreNatural DEF Room

\* The bounds of an index are inside the memory.
Inside(ix) == 1 <= ix.begin /\ ix.begin <= ix.end /\ ix.end <= Room + 1

LEMMA SlotsOf ==
    ASSUME NEW m \in Nat, NEW ix \in IndexType(m), Inside(ix)
    PROVE  /\ Count(ix) \in Nat /\ Count(ix) = ix.end - ix.begin
           /\ Slots(ix) \in Seq(Nat) /\ Len(Slots(ix)) = Count(ix)
           /\ \A i \in 1..Count(ix) : /\ Slots(ix)[i] = ix.memory[ix.begin + i - 1]
                                      /\ Slots(ix)[i] \in 0..m
<1>1. ix.begin \in Nat /\ ix.end \in Nat /\ Room \in Nat /\ ix.memory \in [1..Room -> 0..m]
  BY RoomIs DEF IndexType
<1>2. Count(ix) \in Nat /\ Count(ix) = ix.end - ix.begin
  BY <1>1 DEF Count, Inside
<1>3. \A i \in 1..Count(ix) : ix.begin + i - 1 \in 1..Room
  BY <1>1, <1>2 DEF Inside
<1>4. \A i \in 1..Count(ix) : ix.memory[ix.begin + i - 1] \in 0..m
  BY <1>1, <1>3
<1>5. \A i \in 1..Count(ix) : ix.memory[ix.begin + i - 1] \in Nat
  BY <1>4
<1>6. QED
  BY <1>2, <1>4, <1>5 DEF Slots

\* The slots s have room from begin on; x is an index with these slots.
HasRoom(m, begin, s) ==
    /\ begin \in Nat /\ s \in Seq(Nat)
    /\ \A i \in 1..Len(s) : s[i] \in 0..m
    /\ 1 <= begin /\ begin + Len(s) <= Room + 1
Holds(x, m, begin, s) ==
    /\ x \in IndexType(m) /\ Inside(x)
    /\ x.begin = begin /\ x.end = begin + Len(s)
    /\ Slots(x) = s /\ Count(x) = Len(s)

LEMMA WithSlotsOf ==
    ASSUME NEW m \in Nat, NEW ix \in IndexType(m), NEW b, NEW s, HasRoom(m, b, s),
           NEW x, x = WithSlots(ix, b, s)
    PROVE  Holds(x, m, b, s)
<1> /\ b \in Nat /\ s \in Seq(Nat)
    /\ \A i \in 1..Len(s) : s[i] \in 0..m
    /\ 1 <= b /\ b + Len(s) <= Room + 1
  BY DEF HasRoom
<1>1. Len(s) \in Nat /\ Room \in Nat /\ ix.memory \in [1..Room -> 0..m]
  BY RoomIs, LenProperties DEF IndexType
<1>2. PICK memory : memory = [p \in 1..Room |-> IF p \in b..(b + Len(s) - 1) THEN s[p - b + 1] ELSE ix.memory[p]]
  OBVIOUS
<1>3. \A p \in 1..Room : p \in b..(b + Len(s) - 1) => p - b + 1 \in 1..Len(s)
  BY <1>1
<1>4. memory \in [1..Room -> 0..m]
  BY <1>1, <1>2, <1>3
<1>5. x = [memory |-> memory, begin |-> b, end |-> b + Len(s)]
  BY <1>2 DEF WithSlots
<1>6. x.memory = memory /\ x.begin = b /\ x.end = b + Len(s) /\ x \in IndexType(m)
  BY <1>1, <1>4, <1>5 DEF IndexType
<1>7. Inside(x)
  BY <1>1, <1>6 DEF Inside
<1>8. /\ Count(x) = Len(s) /\ Slots(x) \in Seq(Nat) /\ Len(Slots(x)) = Len(s)
      /\ \A i \in 1..Len(s) : Slots(x)[i] = memory[b + i - 1]
  <2>1. /\ Count(x) = x.end - x.begin /\ Slots(x) \in Seq(Nat) /\ Len(Slots(x)) = Count(x)
        /\ \A i \in 1..Count(x) : Slots(x)[i] = x.memory[x.begin + i - 1]
    BY <1>6, <1>7, SlotsOf
  <2>2. Count(x) = Len(s)
    BY <1>1, <1>6, <2>1
  <2>3. QED
    BY <1>6, <2>1, <2>2
<1>9. \A i \in 1..Len(s) : Slots(x)[i] = s[i]
  <2> TAKE i \in 1..Len(s)
  <2>1. b + i - 1 \in 1..Room /\ b + i - 1 \in b..(b + Len(s) - 1) /\ (b + i - 1) - b + 1 = i
    <3>1. PICK l \in Nat, room \in Nat : l = Len(s) /\ room = Room /\ i \in 1..l /\ b + l <= room + 1
      BY <1>1
    <3>2. b + i - 1 \in 1..room /\ b + i - 1 \in b..(b + l - 1) /\ (b + i - 1) - b + 1 = i
      BY ONLY <3>1, b \in Nat, 1 <= b
    <3>3. QED
      BY <3>1, <3>2
  <2>2. QED
    BY <1>2, <1>8, <2>1
<1>10. Slots(x) = s
  BY <1>8, <1>9, SeqEqual
<1>11. QED
  BY <1>6, <1>7, <1>8, <1>10 DEF Holds

\* A sound index lies inside the memory, with a slot or two to spare.
LEMMA SoundInside ==
    ASSUME NEW R \in Seq(RecordType), Len(R) <= MaxRecords, NEW n \in 0..Len(R),
           NEW ix, Sound(ix, n, R)
    PROVE  /\ Len(R) \in Nat /\ n \in Nat
           /\ ix \in IndexType(Len(R)) /\ Inside(ix) /\ 2 <= ix.begin
           /\ ix.begin \in Nat /\ ix.end \in Nat
           /\ Count(ix) \in Nat /\ Count(ix) = ix.end - ix.begin
           /\ Slots(ix) \in Seq(Nat) /\ Len(Slots(ix)) = Count(ix)
           /\ \A i \in 1..Count(ix) : /\ Slots(ix)[i] \in 1..n
                                      /\ R[Slots(ix)[i]] \in RecordType
                                      /\ R[Slots(ix)[i]].key \in Nat
<1>1. Len(R) \in Nat /\ n \in Nat /\ MaxRecords \in Nat /\ Room = 2 * MaxRecords + 2
  BY RoomIs, BoundsAreNatural, LenProperties
<1>2. ix \in IndexType(Len(R)) /\ ix.begin \in Nat /\ ix.end \in Nat
  BY DEF Sound, IndexType
<1>3. Inside(ix) /\ 2 <= ix.begin
  BY <1>1, <1>2 DEF Inside, Sound
<1>4. \A i \in 1..Count(ix) : Slots(ix)[i] \in 1..n
  BY DEF Sound
<1>5. \A i \in 1..Count(ix) : Slots(ix)[i] \in 1..Len(R)
  BY <1>1, <1>4
<1>6. \A r \in 1..Len(R) : R[r] \in RecordType
  BY ElementOfSeq
<1>7. \A r \in 1..Len(R) : R[r].key \in Nat
  BY <1>6, KeysAreNaturals DEF RecordType
<1>8. QED
  BY <1>1, <1>2, <1>3, <1>4, <1>5, <1>6, <1>7, SlotsOf

-----------------------------------------------------------------------------
(* What a search finds, and what the three changes of an index do.         *)

LEMMA SearchFinds ==
    ASSUME log \in Seq(RecordType), Len(log) <= MaxRecords, NEW n \in 0..Len(log),
           NEW ix, Sound(ix, n, log), NEW key \in Keys, NEW c, c = Search(ix, key)
    PROVE  /\ c.found \in BOOLEAN /\ c.order \in 0..Count(ix)
           /\ c.found => /\ c.order \in 0..(Count(ix) - 1)
                         /\ log[Slots(ix)[c.order + 1]].key = key
           /\ ~c.found => \A i \in 1..Count(ix) :
                              IF i <= c.order THEN log[Slots(ix)[i]].key < key
                              ELSE key < log[Slots(ix)[i]].key
<1>1. Count(ix) \in Nat /\ key \in Int
  BY SoundInside, KeysAreNaturals
<1>2. PICK keys : keys = [i \in 1..Count(ix) |-> log[Slots(ix)[i]].key]
  OBVIOUS
<1>3. c = SearchKeys(keys, key)
  BY <1>2 DEF Search
<1>4. \A i \in 1..Count(ix) : keys[i] = log[Slots(ix)[i]].key /\ keys[i] \in Nat
  BY <1>2, SoundInside
<1>5. keys \in Seq(Nat) /\ Len(keys) = Count(ix)
  <2>1. keys = [i \in 1..Count(ix) |-> keys[i]]
    BY <1>2
  <2>2. [i \in 1..Count(ix) |-> keys[i]] \in Seq(Nat) /\ Len([i \in 1..Count(ix) |-> keys[i]]) = Count(ix)
    BY <1>1, <1>4
  <2>3. QED
    BY <2>1, <2>2, Zenon
<1>6. Sorted(keys)
  BY <1>4, <1>5 DEF Sorted, Sound
<1>7. Answers(keys, key, 0, Count(ix), c)
  BY <1>1, <1>3, <1>4, <1>5, SearchIsRight
<1>8. /\ c.found \in BOOLEAN /\ c.order \in 0..Count(ix)
      /\ c.found => c.order < Count(ix) /\ keys[c.order + 1] = key
      /\ ~c.found => /\ \A i \in 1..c.order : keys[i] < key
                     /\ \A i \in (c.order + 1)..Count(ix) : key < keys[i]
  BY <1>6, <1>7 DEF Answers
<1>9. c.found => c.order + 1 \in 1..Count(ix)
  BY <1>1, <1>8
<1>10. ASSUME ~c.found, NEW i \in 1..Count(ix)
       PROVE  IF i <= c.order THEN log[Slots(ix)[i]].key < key ELSE key < log[Slots(ix)[i]].key
  <2>1. IF i <= c.order THEN i \in 1..c.order ELSE i \in (c.order + 1)..Count(ix)
    BY <1>1, <1>8
  <2>2. QED
    BY <1>4, <1>8, <1>10, <2>1
<1>11. QED
  BY <1>1, <1>4, <1>8, <1>9, <1>10

\* The slots of one key are one slot.
LEMMA OneSlot ==
    ASSUME NEW R \in Seq(RecordType), Len(R) <= MaxRecords, NEW n \in 0..Len(R),
           NEW ix, Sound(ix, n, R), NEW i \in 1..Count(ix), NEW j \in 1..Count(ix),
           R[Slots(ix)[i]].key = R[Slots(ix)[j]].key
    PROVE  i = j
<1>1. i \in Nat /\ j \in Nat /\ R[Slots(ix)[i]].key \in Nat
  BY SoundInside
<1>2. ~(i < j) /\ ~(j < i)
  BY <1>1 DEF Sound
<1>3. QED
  BY <1>1, <1>2

\* Records that the slots do not lead to may change.
LEMMA SoundKept ==
    ASSUME NEW R \in Seq(RecordType), Len(R) <= MaxRecords, NEW n \in 0..Len(R),
           NEW ix, Sound(ix, n, R),
           NEW S \in Seq(RecordType), Len(R) <= Len(S), NEW m \in n..Len(S),
           \A r \in SlotSet(ix) : S[r].key = R[r].key /\ ~S[r].deleted
    PROVE  Sound(ix, m, S)
<1>1. Len(R) \in Nat /\ Len(S) \in Nat /\ n \in Nat /\ m \in Nat /\ n <= m /\ Room \in Nat
  BY RoomIs, LenProperties
<1>2. ix \in IndexType(Len(R)) /\ ix.begin \in Nat
  BY SoundInside
<1>3. ix \in IndexType(Len(S))
  <2>1. 0..Len(R) \subseteq 0..Len(S)
    BY <1>1
  <2>2. QED
    BY <1>2, <2>1 DEF IndexType
<1>4. Room + 1 - m <= ix.begin /\ ix.begin <= ix.end /\ ix.end <= Room + 1
  BY <1>1, <1>2 DEF Sound
<1>5. \A i \in 1..Count(ix) : /\ Slots(ix)[i] \in 1..n /\ Slots(ix)[i] \in 1..m
                              /\ S[Slots(ix)[i]].key = R[Slots(ix)[i]].key
                              /\ ~S[Slots(ix)[i]].deleted
  BY <1>1 DEF Sound, SlotSet
<1>6. QED
  BY <1>3, <1>4, <1>5 DEF Sound

\* The place o among the slots is the one of the key of record r.
Divides(ix, o, r, records) ==
    \A i \in 1..Count(ix) : IF i <= o THEN records[Slots(ix)[i]].key < records[r].key
                            ELSE records[r].key < records[Slots(ix)[i]].key

\* InsertIndexAt of the next record at the place of its key.
LEMMA Inserted ==
    ASSUME NEW R \in Seq(RecordType), Len(R) <= MaxRecords, NEW n \in Nat,
           NEW q, q = n + 1, q <= Len(R), ~R[q].deleted,
           NEW ix, Sound(ix, n, R), NEW o \in Nat, o <= Count(ix),
           Divides(ix, o, q, R),
           NEW x, x = InsertIndexAt(ix, o, q)
    PROVE  Sound(x, q, R) /\ SlotSet(x) = SlotSet(ix) \cup {q}
<1> /\ n + 1 <= Len(R) /\ ~R[n + 1].deleted /\ x = InsertIndexAt(ix, o, n + 1)
    /\ \A i \in 1..Count(ix) : IF i <= o THEN R[Slots(ix)[i]].key < R[n + 1].key
                                ELSE R[n + 1].key < R[Slots(ix)[i]].key
  BY DEF Divides
<1>1. /\ Len(R) \in Nat /\ n \in Nat /\ n + 1 \in 1..Len(R) /\ n \in 0..Len(R)
      /\ R[n + 1] \in RecordType /\ R[n + 1].key \in Nat
  <2>1. Len(R) \in Nat
    BY LenProperties
  <2>2. n + 1 \in 1..Len(R) /\ n \in 0..Len(R)
    BY ONLY <2>1, n \in Nat, n + 1 <= Len(R)
  <2>3. R[n + 1] \in RecordType
    BY <2>2, ElementOfSeq
  <2>4. R[n + 1].key \in Nat
    BY <2>3, KeysAreNaturals DEF RecordType
  <2>5. QED
    BY <2>1, <2>2, <2>3, <2>4
<1>2. /\ ix \in IndexType(Len(R)) /\ ix.begin \in Nat /\ ix.end \in Nat
      /\ Count(ix) \in Nat /\ Count(ix) = ix.end - ix.begin
      /\ Slots(ix) \in Seq(Nat) /\ Len(Slots(ix)) = Count(ix)
      /\ \A i \in 1..Count(ix) : Slots(ix)[i] \in 1..n /\ R[Slots(ix)[i]].key \in Nat
  BY <1>1, SoundInside
<1>3. PICK c \in Nat, s \in Seq(Nat) : c = Count(ix) /\ s = Slots(ix) /\ Len(s) = c
  BY <1>2
<1>4. PICK u : u = InsertAt(s, o + 1, n + 1)
  OBVIOUS
<1>22. o \in 0..c
  BY <1>3
<1>5. /\ u \in Seq(Nat) /\ Len(u) = c + 1
      /\ \A j \in 1..(c + 1) : u[j] = IF j < o + 1 THEN s[j] ELSE IF j = o + 1 THEN n + 1 ELSE s[j - 1]
  <2>1. o + 1 \in 1..(Len(s) + 1) /\ n + 1 \in Nat
    BY <1>1, <1>3
  <2>2. PICK i, e : i = o + 1 /\ e = n + 1 /\ i \in 1..(Len(s) + 1) /\ e \in Nat /\ s \in Seq(Nat)
    BY <2>1
  <2>3. /\ InsertAt(s, i, e) \in Seq(Nat) /\ Len(InsertAt(s, i, e)) = Len(s) + 1
        /\ \A j \in 1..(Len(s) + 1) :
              InsertAt(s, i, e)[j] = IF j < i THEN s[j] ELSE IF j = i THEN e ELSE s[j - 1]
    <3>1. OneMore(s, i, e, InsertAt(s, i, e))
      BY <2>2, OneSlotMore, Zenon
    <3>2. QED
      BY <3>1 DEF OneMore
  <2>4. QED
    BY <1>3, <1>4, <2>2, <2>3
<1>6. PICK left \in BOOLEAN : left = InsertMovesLeft(Count(ix), o, TRUE, ix.end <= Room)
  BY DEF InsertMovesLeft
<1>7. PICK b : b = IF left THEN ix.begin - 1 ELSE ix.begin
  OBVIOUS
<1>8. x = WithSlots(ix, b, u)
  BY <1>3, <1>4, <1>6, <1>7 DEF InsertIndexAt
<1>9. /\ b \in Nat /\ 1 <= b /\ b + (c + 1) <= Room + 1 /\ Room + 1 - (n + 1) <= b
  <2>1. left \/ ix.end <= Room
    BY <1>6 DEF InsertMovesLeft
  <2>2. /\ Room \in Nat /\ MaxRecords \in Nat /\ Room = 2 * MaxRecords + 2
        /\ Room + 1 - n <= ix.begin /\ ix.begin <= ix.end /\ ix.end <= Room + 1
    BY RoomIs, BoundsAreNatural DEF Sound
  <2>3. PICK first \in Nat, last \in Nat, l \in Nat, most \in Nat, room \in Nat :
           first = ix.begin /\ last = ix.end /\ l = Len(R) /\ most = MaxRecords /\ room = Room
    BY <1>1, <1>2, <2>2
  <2>4. /\ n + 1 <= l /\ l <= most /\ c = last - first
        /\ room = 2 * most + 2 /\ room + 1 - n <= first /\ first <= last /\ last <= room + 1
        /\ b = (IF left THEN first - 1 ELSE first) /\ (left \/ last <= room)
    BY <1>2, <1>3, <1>7, <2>1, <2>2, <2>3
  <2>5. b \in Nat /\ 1 <= b /\ b + (c + 1) <= room + 1 /\ room + 1 - (n + 1) <= b
    BY ONLY <2>4, c \in Nat, n \in Nat, first \in Nat, last \in Nat, l \in Nat, most \in Nat, room \in Nat
  <2>6. QED
    BY ONLY <2>3, <2>5
<1>10. \A i \in 1..c : s[i] \in 1..n /\ s[i] \in Nat
  BY <1>2, <1>3
<1>11. \A j \in 1..(c + 1) :
          \/ j < o + 1 /\ u[j] = s[j] /\ j \in 1..c
          \/ j = o + 1 /\ u[j] = n + 1
          \/ j > o + 1 /\ u[j] = s[j - 1] /\ j - 1 \in 1..c
  BY ONLY <1>5, <1>22, c \in Nat
<1>12. \A j \in 1..(c + 1) : u[j] \in 1..(n + 1) /\ u[j] \in 0..Len(R)
  BY <1>1, <1>10, <1>11
<1>13. /\ x \in IndexType(Len(R)) /\ Inside(x) /\ x.begin = b /\ x.end = b + (c + 1)
       /\ Slots(x) = u /\ Count(x) = c + 1
  <2>1. Len(R) \in Nat /\ ix \in IndexType(Len(R)) /\ b \in Nat /\ u \in Seq(Nat) /\ Len(u) = c + 1
    BY <1>1, <1>2, <1>5, <1>9
  <2>2. HasRoom(Len(R), b, u)
    BY <1>9, <1>12, <2>1 DEF HasRoom
  <2>3. Holds(x, Len(R), b, u)
    BY ONLY <1>8, <2>1, <2>2, WithSlotsOf
  <2>4. QED
    BY ONLY <2>1, <2>3 DEF Holds
<1>14. \A i \in 1..c : /\ ~R[s[i]].deleted /\ R[s[i]].key \in Nat
                       /\ IF i <= o THEN R[s[i]].key < R[n + 1].key ELSE R[n + 1].key < R[s[i]].key
  BY <1>2, <1>3 DEF Sound
<1>15. \A i, j \in 1..c : i < j => R[s[i]].key < R[s[j]].key
  BY <1>3 DEF Sound
<1>16. \A j \in 1..(c + 1) : ~R[u[j]].deleted
  BY <1>11, <1>14
<1>17. ASSUME NEW i \in 1..(c + 1), NEW j \in 1..(c + 1), i < j
       PROVE  R[u[i]].key < R[u[j]].key
  <2>1. CASE i < o + 1 /\ j < o + 1
    <3>1. u[i] = s[i] /\ u[j] = s[j] /\ i \in 1..c /\ j \in 1..c
      BY ONLY <1>11, <2>1, i \in 1..(c + 1), j \in 1..(c + 1), c \in Nat, o \in Nat
    <3>2. QED
      BY <1>15, <1>17, <3>1
  <2>2. CASE i < o + 1 /\ j = o + 1
    BY <1>11, <1>14, <2>2
  <2>3. CASE i < o + 1 /\ j > o + 1
    <3>1. u[i] = s[i] /\ u[j] = s[j - 1] /\ i \in 1..c /\ j - 1 \in 1..c /\ i < j - 1
      BY <1>11, <2>3
    <3>2. QED
      BY <1>15, <3>1
  <2>4. CASE i = o + 1 /\ j > o + 1
    <3>1. u[i] = n + 1 /\ u[j] = s[j - 1] /\ j - 1 \in 1..c /\ ~(j - 1 <= o)
      BY <1>11, <2>4
    <3>2. QED
      BY <1>14, <3>1
  <2>5. CASE i > o + 1 /\ j > o + 1
    <3>1. u[i] = s[i - 1] /\ u[j] = s[j - 1] /\ i - 1 \in 1..c /\ j - 1 \in 1..c /\ i - 1 < j - 1
      BY <1>11, <1>17, <2>5
    <3>2. QED
      BY <1>15, <3>1
  <2>6. QED
    BY <1>3, <1>17, <2>1, <2>2, <2>3, <2>4, <2>5
<1>18. x.begin <= x.end /\ x.end <= Room + 1 /\ Room + 1 - (n + 1) <= x.begin
  BY <1>3, <1>9, <1>13
<1>19. Sound(x, n + 1, R)
  BY <1>12, <1>13, <1>16, <1>17, <1>18 DEF Sound
<1>20. SlotSet(x) = SlotSet(ix) \cup {n + 1}
  <2>1. SlotSet(x) = {u[j] : j \in 1..(c + 1)} /\ SlotSet(ix) = {s[i] : i \in 1..c}
    BY <1>3, <1>13 DEF SlotSet
  <2>2. \A j \in 1..(c + 1) : u[j] \in {s[i] : i \in 1..c} \cup {n + 1}
    BY <1>11
  <2>3. \A i \in 1..c : s[i] \in {u[j] : j \in 1..(c + 1)}
    <3> TAKE i \in 1..c
    <3>1. PICK j \in 1..(c + 1) : j = IF i <= o THEN i ELSE i + 1
      BY <1>3
    <3>2. u[j] = s[i]
      BY <1>3, <1>11, <3>1
    <3>3. QED
      BY <3>2
  <2>4. n + 1 \in {u[j] : j \in 1..(c + 1)}
    <3>1. o + 1 \in 1..(c + 1) /\ u[o + 1] = n + 1
      BY <1>3, <1>5
    <3>2. QED
      BY <3>1
  <2>5. QED
    BY <2>1, <2>2, <2>3, <2>4
<1>21. QED
  BY <1>19, <1>20

\* RemoveIndexAt of any slot.
LEMMA Removed ==
    ASSUME NEW R \in Seq(RecordType), Len(R) <= MaxRecords, NEW n \in 0..Len(R),
           NEW ix, Sound(ix, n, R), NEW o \in Nat, o + 1 <= Count(ix),
           NEW p, p = Slots(ix)[o + 1], NEW x, x = RemoveIndexAt(ix, o)
    PROVE  Sound(x, n, R) /\ SlotSet(x) = SlotSet(ix) \ {p}
<1>1. /\ Len(R) \in Nat /\ n \in Nat
      /\ ix \in IndexType(Len(R)) /\ ix.begin \in Nat /\ ix.end \in Nat
      /\ Count(ix) \in Nat /\ Count(ix) = ix.end - ix.begin
      /\ Slots(ix) \in Seq(Nat) /\ Len(Slots(ix)) = Count(ix)
      /\ \A i \in 1..Count(ix) : Slots(ix)[i] \in 1..n
      /\ Inside(ix) /\ Room + 1 - n <= ix.begin
  BY SoundInside DEF Sound
<1>2. PICK c \in Nat, s \in Seq(Nat) : c = Count(ix) /\ s = Slots(ix) /\ Len(s) = c
  BY <1>1
<1>3. c - 1 \in Nat /\ o + 1 \in 1..c
  BY ONLY <1>2, c \in Nat, o \in Nat, o + 1 <= Count(ix)
<1>4. PICK u : u = RemoveAt(s, o + 1)
  OBVIOUS
<1>5. /\ u \in Seq(Nat) /\ Len(u) = c - 1
      /\ \A j \in 1..(c - 1) : u[j] = IF j < o + 1 THEN s[j] ELSE s[j + 1]
  <2>1. PICK i : i = o + 1 /\ i \in 1..Len(s) /\ s \in Seq(Nat)
    BY <1>2, <1>3
  <2>2. /\ RemoveAt(s, i) \in Seq(Nat) /\ Len(RemoveAt(s, i)) = Len(s) - 1
        /\ \A j \in 1..(Len(s) - 1) : RemoveAt(s, i)[j] = IF j < i THEN s[j] ELSE s[j + 1]
    BY ONLY <2>1, SlotRemoved
  <2>3. QED
    BY <1>2, <1>4, <2>1, <2>2
<1>6. PICK b : b = IF RemoveMovesLeft(Count(ix), o) THEN ix.begin + 1 ELSE ix.begin
  OBVIOUS
<1>7. x = WithSlots(ix, b, u)
  BY <1>2, <1>4, <1>6 DEF RemoveIndexAt
<1>8. b \in Nat /\ 1 <= b /\ b + (c - 1) <= Room + 1 /\ Room + 1 - n <= b
  <2>1. PICK first \in Nat, last \in Nat, room \in Nat : first = ix.begin /\ last = ix.end /\ room = Room
    BY <1>1, RoomIs
  <2>2. /\ c = last - first /\ 1 <= first /\ first <= last /\ last <= room + 1 /\ room + 1 - n <= first
        /\ (b = first \/ b = first + 1) /\ o + 1 <= c
    BY <1>1, <1>2, <1>6, <2>1 DEF Inside
  <2>3. b \in Nat /\ 1 <= b /\ b + (c - 1) <= room + 1 /\ room + 1 - n <= b
    BY ONLY <1>1, <2>2, c \in Nat, first \in Nat, last \in Nat, room \in Nat, n \in 0..Len(R)
  <2>4. QED
    BY ONLY <2>1, <2>3
<1>9. \A j \in 1..(c - 1) :
         \/ j < o + 1 /\ u[j] = s[j] /\ j \in 1..c
         \/ j >= o + 1 /\ u[j] = s[j + 1] /\ j + 1 \in 1..c
  BY ONLY <1>3, <1>5, c \in Nat, o \in Nat
<1>10. \A i \in 1..c : s[i] \in 1..n /\ s[i] \in 0..Len(R)
  <2>1. 1..n \subseteq 0..Len(R)
    BY <1>1
  <2>2. QED
    BY <1>1, <1>2, <2>1
<1>11. \A j \in 1..(c - 1) : u[j] \in 1..n /\ u[j] \in 0..Len(R)
  BY <1>9, <1>10
<1>12. /\ x \in IndexType(Len(R)) /\ Inside(x) /\ x.begin = b /\ x.end = b + (c - 1)
       /\ Slots(x) = u /\ Count(x) = c - 1
  <2>1. Len(R) \in Nat /\ ix \in IndexType(Len(R)) /\ b \in Nat /\ u \in Seq(Nat) /\ Len(u) = c - 1
    BY <1>1, <1>5, <1>8
  <2>2. HasRoom(Len(R), b, u)
    BY <1>8, <1>11, <2>1 DEF HasRoom
  <2>3. Holds(x, Len(R), b, u)
    BY ONLY <1>7, <2>1, <2>2, WithSlotsOf
  <2>4. QED
    BY ONLY <2>1, <2>3 DEF Holds
<1>13. \A i \in 1..c : ~R[s[i]].deleted
  BY <1>2 DEF Sound
<1>14. \A i, j \in 1..c : i < j => R[s[i]].key < R[s[j]].key
  BY <1>2 DEF Sound
<1>15. \A j \in 1..(c - 1) : ~R[u[j]].deleted
  BY <1>9, <1>13
<1>16. ASSUME NEW i \in 1..(c - 1), NEW j \in 1..(c - 1), i < j
       PROVE  R[u[i]].key < R[u[j]].key
  <2>1. PICK v \in 1..c, w \in 1..c : u[i] = s[v] /\ u[j] = s[w] /\ v < w
    <3>1. PICK v : v = IF i < o + 1 THEN i ELSE i + 1
      OBVIOUS
    <3>2. PICK w : w = IF j < o + 1 THEN j ELSE j + 1
      OBVIOUS
    <3>3. v \in 1..c /\ u[i] = s[v]
      BY <1>9, <3>1
    <3>4. w \in 1..c /\ u[j] = s[w]
      BY <1>9, <3>2
    <3>5. v < w
      BY ONLY <1>16, <3>1, <3>2, o \in Nat, c \in Nat, i \in 1..(c - 1), j \in 1..(c - 1)
    <3>6. QED
      BY <3>3, <3>4, <3>5
  <2>2. QED
    BY <1>14, <2>1
<1>17. Sound(x, n, R)
  <2>1. x.begin <= x.end /\ x.end <= Room + 1 /\ Room + 1 - n <= x.begin
    BY <1>3, <1>8, <1>12
  <2>2. QED
    BY <1>11, <1>12, <1>15, <1>16, <2>1 DEF Sound
<1>18. SlotSet(x) = SlotSet(ix) \ {Slots(ix)[o + 1]}
  <2>1. SlotSet(x) = {u[j] : j \in 1..(c - 1)} /\ SlotSet(ix) = {s[i] : i \in 1..c}
    BY <1>2, <1>12 DEF SlotSet
  <2>2. \A i, j \in 1..c : s[i] = s[j] => i = j
    BY <1>2, OneSlot
  <2>3. ASSUME NEW j \in 1..(c - 1)
        PROVE  u[j] \in {s[i] : i \in 1..c} \ {s[o + 1]}
    <3>1. PICK v \in 1..c : u[j] = s[v] /\ v # o + 1
      BY ONLY <1>9, <2>3, o \in Nat, c \in Nat
    <3>2. QED
      BY <1>3, <2>2, <3>1
  <2>4. ASSUME NEW i \in 1..c, s[i] # s[o + 1]
        PROVE  s[i] \in {u[j] : j \in 1..(c - 1)}
    <3>1. i # o + 1
      BY <2>4
    <3>2. PICK j \in 1..(c - 1) : i = IF j < o + 1 THEN j ELSE j + 1
      <4>1. CASE i < o + 1
        <5>1. i \in 1..(c - 1)
          BY ONLY <1>3, <4>1, i \in 1..c, o \in Nat, c \in Nat
        <5>2. i = IF i < o + 1 THEN i ELSE i + 1
          BY ONLY <4>1
        <5>3. QED
          BY <5>1, <5>2, Zenon
      <4>2. CASE i > o + 1
        <5>1. i - 1 \in 1..(c - 1) /\ i = (IF i - 1 < o + 1 THEN i - 1 ELSE i - 1 + 1)
          BY ONLY <4>2, i \in 1..c, o \in Nat, c \in Nat
        <5>2. QED
          BY <5>1
      <4>3. QED
        BY ONLY <3>1, <4>1, <4>2, i \in 1..c, o \in Nat, c \in Nat
    <3>3. u[j] = s[i]
      BY <1>5, <3>2
    <3>4. QED
      BY <3>3
  <2>5. {u[j] : j \in 1..(c - 1)} = {s[i] : i \in 1..c} \ {s[o + 1]}
    BY <2>3, <2>4
  <2>6. QED
    BY <1>2, <2>1, <2>5
<1>19. QED
  BY <1>17, <1>18

\* SetIndexAt of the next record, which has the key of the slot.
LEMMA Replaced ==
    ASSUME NEW R \in Seq(RecordType), Len(R) <= MaxRecords, NEW n \in Nat,
           NEW q, q = n + 1, q <= Len(R), ~R[q].deleted,
           NEW ix, Sound(ix, n, R), NEW o \in Nat, o + 1 <= Count(ix),
           NEW p, p = Slots(ix)[o + 1], R[q].key = R[p].key,
           NEW x, x = SetIndexAt(ix, o, q)
    PROVE  Sound(x, q, R) /\ SlotSet(x) = (SlotSet(ix) \ {p}) \cup {q}
<1> /\ n + 1 <= Len(R) /\ ~R[n + 1].deleted /\ x = SetIndexAt(ix, o, n + 1)
    /\ R[n + 1].key = R[Slots(ix)[o + 1]].key
  OBVIOUS
<1>0. Len(R) \in Nat /\ n \in 0..Len(R) /\ n + 1 \in 1..Len(R)
  <2>1. Len(R) \in Nat
    BY LenProperties
  <2>2. QED
    BY ONLY <2>1, n \in Nat, n + 1 <= Len(R)
<1>1. /\ ix \in IndexType(Len(R)) /\ ix.begin \in Nat /\ ix.end \in Nat
      /\ Count(ix) \in Nat /\ Count(ix) = ix.end - ix.begin
      /\ Slots(ix) \in Seq(Nat) /\ Len(Slots(ix)) = Count(ix)
      /\ \A i \in 1..Count(ix) : Slots(ix)[i] \in 1..n
      /\ Inside(ix) /\ Room + 1 - n <= ix.begin
  BY <1>0, SoundInside DEF Sound
<1>2. PICK c \in Nat, s \in Seq(Nat) : c = Count(ix) /\ s = Slots(ix) /\ Len(s) = c
  BY <1>1
<1>3. o + 1 \in 1..c
  BY ONLY <1>2, c \in Nat, o \in Nat, o + 1 <= Count(ix)
<1>4. PICK u : u = ReplaceAt(s, o + 1, n + 1)
  OBVIOUS
<1>5. /\ u \in Seq(Nat) /\ Len(u) = c
      /\ \A j \in 1..c : u[j] = IF j = o + 1 THEN n + 1 ELSE s[j]
  <2>1. PICK i, e : i = o + 1 /\ e = n + 1 /\ i \in 1..Len(s) /\ e \in Nat /\ s \in Seq(Nat)
    BY <1>0, <1>2, <1>3
  <2>2. /\ ReplaceAt(s, i, e) \in Seq(Nat) /\ Len(ReplaceAt(s, i, e)) = Len(s)
        /\ \A j \in 1..Len(s) : ReplaceAt(s, i, e)[j] = IF j = i THEN e ELSE s[j]
    BY ONLY <2>1, SlotReplaced
  <2>3. QED
    BY <1>2, <1>4, <2>1, <2>2
<1>6. x = WithSlots(ix, ix.begin, u)
  BY <1>2, <1>4 DEF SetIndexAt
<1>7. 1 <= ix.begin /\ ix.begin + c = ix.end /\ ix.end <= Room + 1 /\ Room + 1 - (n + 1) <= ix.begin
  <2>1. PICK room \in Nat : room = Room
    BY RoomIs
  <2>2. PICK b \in Nat, e \in Nat : b = ix.begin /\ e = ix.end
    BY <1>1
  <2>3. c = e - b /\ 1 <= b /\ b <= e /\ e <= room + 1 /\ room + 1 - n <= b
    BY <1>1, <1>2, <2>1, <2>2 DEF Inside
  <2>4. 1 <= b /\ b + c = e /\ e <= room + 1 /\ room + 1 - (n + 1) <= b
    BY ONLY <2>3, room \in Nat, b \in Nat, e \in Nat, n \in Nat
  <2>5. QED
    BY <2>1, <2>2, <2>4
<1>8. \A i \in 1..c : s[i] \in 1..n /\ s[i] \in 1..(n + 1) /\ s[i] \in 0..Len(R)
  <2>1. 1..n \subseteq 0..Len(R) /\ 1..n \subseteq 1..(n + 1)
    BY <1>0
  <2>2. QED
    BY <1>1, <1>2, <2>1
<1>9. \A j \in 1..c : u[j] \in 1..(n + 1) /\ u[j] \in 0..Len(R)
  <2>1. n + 1 \in 1..(n + 1) /\ n + 1 \in 0..Len(R)
    BY <1>0
  <2>2. QED
    BY <1>5, <1>8, <2>1
<1>10. /\ x \in IndexType(Len(R)) /\ Inside(x) /\ x.begin = ix.begin /\ x.end = ix.end
       /\ Slots(x) = u /\ Count(x) = c
  <2>1. Len(R) \in Nat /\ ix \in IndexType(Len(R)) /\ ix.begin \in Nat /\ u \in Seq(Nat) /\ Len(u) = c
    BY <1>0, <1>1, <1>5
  <2>2. HasRoom(Len(R), ix.begin, u)
    BY <1>7, <1>9, <2>1 DEF HasRoom
  <2>3. Holds(x, Len(R), ix.begin, u)
    BY ONLY <1>6, <2>1, <2>2, WithSlotsOf
  <2>4. QED
    BY ONLY <1>7, <2>1, <2>3 DEF Holds
<1>11. /\ \A j \in 1..c : ~R[u[j]].deleted /\ R[u[j]].key = R[s[j]].key
       /\ \A i, j \in 1..c : i < j => R[s[i]].key < R[s[j]].key
  <2>1. /\ \A j \in 1..c : ~R[s[j]].deleted
        /\ \A i, j \in 1..c : i < j => R[s[i]].key < R[s[j]].key
    BY <1>2 DEF Sound
  <2>2. QED
    BY <1>2, <1>5, <2>1
<1>12. Sound(x, n + 1, R)
  BY <1>1, <1>7, <1>9, <1>10, <1>11 DEF Sound, Inside
<1>13. SlotSet(x) = (SlotSet(ix) \ {Slots(ix)[o + 1]}) \cup {n + 1}
  <2>1. SlotSet(x) = {u[j] : j \in 1..c} /\ SlotSet(ix) = {s[i] : i \in 1..c}
    BY <1>2, <1>10 DEF SlotSet
  <2>2. \A i, j \in 1..c : s[i] = s[j] => i = j
    BY <1>0, <1>2, OneSlot
  <2>3. \A j \in 1..c : u[j] \in ({s[i] : i \in 1..c} \ {s[o + 1]}) \cup {n + 1}
    BY <1>3, <1>5, <2>2
  <2>4. \A i \in 1..c : s[i] # s[o + 1] => s[i] = u[i]
    BY <1>5
  <2>5. n + 1 = u[o + 1]
    BY <1>3, <1>5
  <2>6. {u[j] : j \in 1..c} = ({s[i] : i \in 1..c} \ {s[o + 1]}) \cup {n + 1}
    BY <1>3, <2>3, <2>4, <2>5
  <2>7. QED
    BY <1>2, <2>1, <2>6
<1>14. QED
  BY <1>12, <1>13

\* Two indexes whose slots lead to the same records have the same slots.
LEMMA SortedUnique ==
    ASSUME NEW R \in Seq(RecordType), Len(R) <= MaxRecords,
           NEW n \in 0..Len(R), NEW x, Sound(x, n, R),
           NEW m \in 0..Len(R), NEW y, Sound(y, m, R), SlotSet(x) = SlotSet(y)
    PROVE  Slots(x) = Slots(y)
<1>1. PICK c \in Nat, s \in Seq(Nat) :
         c = Count(x) /\ s = Slots(x) /\ Len(s) = c /\ SlotSet(x) = {s[i] : i \in 1..c}
  BY SoundInside DEF SlotSet
<1>2. PICK d \in Nat, t \in Seq(Nat) :
         d = Count(y) /\ t = Slots(y) /\ Len(t) = d /\ SlotSet(y) = {t[i] : i \in 1..d}
  BY SoundInside DEF SlotSet
<1>3. PICK f \in [1..c -> Nat] : \A i \in 1..c : f[i] = R[s[i]].key
  <2>1. \A i \in 1..c : R[s[i]].key \in Nat
    BY <1>1, SoundInside
  <2>2. [i \in 1..c |-> R[s[i]].key] \in [1..c -> Nat]
    BY <2>1
  <2>3. QED
    BY <2>2
<1>4. PICK g \in [1..d -> Nat] : \A i \in 1..d : g[i] = R[t[i]].key
  <2>1. \A i \in 1..d : R[t[i]].key \in Nat
    BY <1>2, SoundInside
  <2>2. [i \in 1..d |-> R[t[i]].key] \in [1..d -> Nat]
    BY <2>1
  <2>3. QED
    BY <2>2
<1>5. /\ \A i, j \in 1..c : i < j => f[i] < f[j]
      /\ \A i, j \in 1..d : i < j => g[i] < g[j]
  <2>1. \A i, j \in 1..c : i < j => f[i] < f[j]
    <3>1. \A i, j \in 1..c : i < j => R[s[i]].key < R[s[j]].key
      BY ONLY <1>1, Sound(x, n, R) DEF Sound
    <3>2. QED
      BY ONLY <1>3, <3>1
  <2>2. \A i, j \in 1..d : i < j => g[i] < g[j]
    <3>1. \A i, j \in 1..d : i < j => R[t[i]].key < R[t[j]].key
      BY ONLY <1>2, Sound(y, m, R) DEF Sound
    <3>2. QED
      BY ONLY <1>4, <3>1
  <2>3. QED
    BY <2>1, <2>2
<1>6. /\ \A i \in 1..c : \E j \in 1..d : s[i] = t[j] /\ f[i] = g[j]
      /\ \A j \in 1..d : \E i \in 1..c : s[i] = t[j] /\ f[i] = g[j]
  <2>1. {s[i] : i \in 1..c} = {t[i] : i \in 1..d}
    BY <1>1, <1>2
  <2>2. \A i \in 1..c : \E j \in 1..d : s[i] = t[j]
    BY ONLY <2>1
  <2>3. \A j \in 1..d : \E i \in 1..c : s[i] = t[j]
    BY ONLY <2>1
  <2>4. \A i \in 1..c, j \in 1..d : s[i] = t[j] => f[i] = g[j]
    BY ONLY <1>3, <1>4
  <2>5. QED
    BY ONLY <2>2, <2>3, <2>4
<1>7. \A i \in Nat : i \in 1..c => i \in 1..d /\ s[i] = t[i] /\ f[i] = g[i]
  <2>1. PICK S : S = {i \in Nat : i \in 1..c => i \in 1..d /\ s[i] = t[i] /\ f[i] = g[i]}
    OBVIOUS
  <2>2. ASSUME NEW i \in Nat, \A j \in Nat : j < i => j \in S, i \in 1..c
        PROVE  i \in 1..d /\ s[i] = t[i] /\ f[i] = g[i]
    <3>1. \A j \in 1..c : j < i => j \in 1..d /\ s[j] = t[j] /\ f[j] = g[j]
      BY <2>1, <2>2
    <3>2. PICK p \in 1..d : s[i] = t[p] /\ f[i] = g[p]
      BY <1>6, <2>2
    <3>3. ~(p < i)
      <4>1. ASSUME p < i PROVE FALSE
        <5>1. p \in 1..c
          BY <2>2, <4>1
        <5>2. f[p] = g[p] /\ f[p] < f[i]
          BY <1>5, <2>2, <3>1, <4>1, <5>1
        <5>3. f[p] \in Nat
          BY <1>3, <5>1
        <5>4. QED
          BY <3>2, <5>2, <5>3
      <4>2. QED
        BY <4>1
    <3>4. i \in 1..d
      BY <2>2, <3>2, <3>3
    <3>5. PICK q \in 1..c : s[q] = t[i] /\ f[q] = g[i]
      BY <1>6, <3>4
    <3>6. ~(q < i)
      <4>1. ASSUME q < i PROVE FALSE
        <5>1. q \in 1..d /\ f[q] = g[q]
          BY <3>1, <3>5, <4>1
        <5>2. g[q] < g[i] /\ g[q] \in Nat
          BY <1>4, <1>5, <3>4, <4>1, <5>1
        <5>3. QED
          BY <3>5, <5>1, <5>2
      <4>2. QED
        BY <4>1
    <3>7. ~(i < p)
      <4>1. ASSUME i < p PROVE FALSE
        <5>1. g[i] < g[p]
          BY <1>5, <3>2, <3>4, <4>1
        <5>2. f[i] <= f[q]
          <6>1. i \in 1..c /\ q \in 1..c /\ c \in Nat
            BY <2>2, <3>5
          <6>2. i = q \/ i < q
            BY <3>6, <6>1
          <6>3. f[i] \in Nat /\ f[q] \in Nat
            BY <1>3, <6>1
          <6>4. i < q => f[i] < f[q]
            BY <1>5, <6>1
          <6>5. QED
            BY <6>2, <6>3, <6>4
        <5>3. f[i] \in Nat /\ f[q] \in Nat /\ g[i] \in Nat /\ g[p] \in Nat
          BY <1>3, <1>4, <2>2, <3>2, <3>4, <3>5
        <5>4. QED
          BY <3>2, <3>5, <5>1, <5>2, <5>3
      <4>2. QED
        BY <4>1
    <3>8. p = i
      BY <2>2, <3>2, <3>3, <3>7
    <3>9. QED
      BY <3>2, <3>4, <3>8
  <2>3. \A i \in Nat : (\A j \in Nat : j < i => j \in S) => i \in S
    BY <2>1, <2>2
  <2>4. Nat \subseteq S
    BY <2>3, Induction
  <2>5. QED
    BY <2>1, <2>4
<1>8. c = d
  <2>1. c <= d
    <3>1. CASE c = 0
      BY <3>1
    <3>2. CASE c # 0
      <4>1. c \in 1..c
        BY <3>2
      <4>2. c \in 1..d
        BY <1>7, <4>1
      <4>3. QED
        BY <4>2
    <3>3. QED
      BY <3>1, <3>2
  <2>2. ASSUME c < d PROVE FALSE
    <3>1. d \in 1..d
      BY <2>2
    <3>2. PICK i \in 1..c : f[i] = g[d]
      BY <1>6, <3>1
    <3>3. i \in 1..d /\ f[i] = g[i] /\ i < d
      BY <1>7, <2>2, <3>2
    <3>4. g[i] < g[d] /\ g[i] \in Nat
      BY <1>4, <1>5, <3>1, <3>3
    <3>5. QED
      BY <3>2, <3>3, <3>4
  <2>3. QED
    BY <2>1, <2>2
<1>9. s = t
  BY <1>1, <1>2, <1>7, <1>8, SeqEqual
<1>10. QED
  BY <1>1, <1>2, <1>9

-----------------------------------------------------------------------------
(* The loop of Rebuild as a sequence of turns.                             *)

\* What the fold leaves for the records of a set.
Turn(ids, base, f, s) == IF s = {} THEN base ELSE Rewrite(f[s \ {Max(s)}], ids[Max(s)])

LEMMA TurnsDefined ==
    ASSUME NEW n \in Nat, NEW ids, NEW base
    PROVE  \E f : f = [s \in SUBSET (1..n) |-> Turn(ids, base, f, s)]
<1> DEFINE Good(f, k) == /\ f = [s \in SUBSET (1..n) |-> f[s]]
                         /\ \A s \in SUBSET (1..n) : s \subseteq 1..k => f[s] = Turn(ids, base, f, s)
           S == {k \in Nat : \E f : Good(f, k)}
<1>1. ASSUME NEW k \in Nat, \A m \in Nat : m < k => m \in S
      PROVE  k \in S
  <2>1. CASE k = 0
    <3> DEFINE f == [s \in SUBSET (1..n) |-> base]
    <3>1. \A s \in SUBSET (1..n) : s \subseteq 1..0 => s = {}
      OBVIOUS
    <3>2. \A s \in SUBSET (1..n) : s \subseteq 1..0 => f[s] = Turn(ids, base, f, s)
      BY <3>1 DEF Turn
    <3>3. Good(f, 0)
      BY <3>2
    <3>4. QED
      BY <2>1, <3>3
  <2>2. CASE k # 0
    <3>1. k - 1 \in S
      <4>1. k - 1 \in Nat /\ k - 1 < k
        BY <2>2
      <4> HIDE DEF S
      <4>2. QED
        BY <1>1, <4>1
    <3>2. PICK f : Good(f, k - 1)
      BY <3>1
    <3> DEFINE g == [s \in SUBSET (1..n) |->
                       IF s \subseteq 1..(k - 1) THEN f[s] ELSE Turn(ids, base, f, s)]
    <3>3. \A s \in SUBSET (1..n) : g[s] = IF s \subseteq 1..(k - 1) THEN f[s] ELSE Turn(ids, base, f, s)
      OBVIOUS
    <3>4. ASSUME NEW s \in SUBSET (1..n), s \subseteq 1..k PROVE g[s] = Turn(ids, base, g, s)
      <4>1. s \ {Max(s)} \subseteq 1..(k - 1)
        <5>1. CASE k \in s
          <6>1. Max(s) = k
            BY <3>4, <5>1, MaxIs
          <6>2. QED
            BY <3>4, <6>1
        <5>2. CASE k \notin s
          <6>1. \A y \in s : y \in 1..k /\ y # k
            BY <3>4, <5>2
          <6>2. \A y \in 1..k : y # k => y \in 1..(k - 1)
            OBVIOUS
          <6>3. QED
            BY <6>1, <6>2
        <5>3. QED
          BY <5>1, <5>2
      <4>2. g[s \ {Max(s)}] = f[s \ {Max(s)}]
        <5>1. s \ {Max(s)} \in SUBSET (1..n)
          OBVIOUS
        <5>2. QED
          BY <3>3, <4>1, <5>1, Zenon
      <4>3. Turn(ids, base, g, s) = Turn(ids, base, f, s)
        BY <4>2, Zenon DEF Turn
      <4>4. g[s] = Turn(ids, base, f, s)
        <5>1. s \subseteq 1..(k - 1) => f[s] = Turn(ids, base, f, s)
          BY <3>2, Zenon
        <5>2. QED
          BY <3>3, <5>1, Zenon
      <4>5. QED
        BY <4>3, <4>4, Zenon
    <3>5. g = [s \in SUBSET (1..n) |-> g[s]]
      OBVIOUS
    <3>6. Good(g, k)
      <4> HIDE DEF g
      <4>1. QED
        BY <3>4, <3>5, Zenon
    <3>7. QED
      <4> HIDE DEF Good
      <4>1. QED
        BY <3>6
  <2>3. QED
    BY <2>1, <2>2
<1>2. n \in S
  <2> HIDE DEF S
  <2>1. QED
    BY <1>1, Induction
<1>3. PICK f : Good(f, n)
  BY <1>2
<1>4. \A s \in SUBSET (1..n) : f[s] = Turn(ids, base, f, s)
  BY <1>3
<1>5. f = [s \in SUBSET (1..n) |-> Turn(ids, base, f, s)]
  <2>1. f = [s \in SUBSET (1..n) |-> f[s]]
    BY <1>3
  <2>2. [s \in SUBSET (1..n) |-> f[s]] = [s \in SUBSET (1..n) |-> Turn(ids, base, f, s)]
    BY <1>4, Zenon
  <2>3. QED
    BY <2>1, <2>2, Zenon
<1>6. QED
  BY <1>5

\* The fold takes the records one by one, in the order of their offsets.
LEMMA LoopTurns ==
    ASSUME NEW R, Len(R) \in Nat, DOMAIN R = 1..Len(R), NEW base
    PROVE  \E acc : /\ acc[0] = base
                    /\ \A k \in Nat : k + 1 <= Len(R) => acc[k + 1] = Rewrite(acc[k], k + 1)
                    /\ FoldLeftDomain(LAMBDA a, record : Rewrite(a, record), base, R) = acc[Len(R)]
<1> DEFINE ids == [i \in DOMAIN R |-> i]
           D == DOMAIN ids
           f == CHOOSE g : g = [s \in SUBSET D |->
                   IF s = {} THEN base ELSE Rewrite(g[s \ {Max(s)}], ids[Max(s)])]
<1>1. D = 1..Len(R)
  OBVIOUS
<1>2. FoldLeftDomain(LAMBDA a, record : Rewrite(a, record), base, R) = f[D]
  BY Zenon DEF FoldLeftDomain, FoldLeft, MapThenFoldSet
<1>3. f = [s \in SUBSET D |-> Turn(ids, base, f, s)]
  <2>1. \E g : g = [s \in SUBSET D |-> Turn(ids, base, g, s)]
    <3> HIDE DEF ids
    <3>1. \E g : g = [s \in SUBSET (1..Len(R)) |-> Turn(ids, base, g, s)]
      BY TurnsDefined
    <3>2. QED
      BY <1>1, <3>1
  <2>2. \E g : g = [s \in SUBSET D |-> IF s = {} THEN base ELSE Rewrite(g[s \ {Max(s)}], ids[Max(s)])]
    <3> HIDE DEF ids
    <3>1. QED
      BY <2>1, Zenon DEF Turn
  <2>3. f = [s \in SUBSET D |-> IF s = {} THEN base ELSE Rewrite(f[s \ {Max(s)}], ids[Max(s)])]
    <3> HIDE DEF ids, D
    <3>1. QED
      BY <2>2, Zenon
  <2>4. QED
    <3> HIDE DEF ids, f, D
    <3>1. QED
      BY <2>3, Zenon DEF Turn
<1>4. \A i \in 1..Len(R) : ids[i] = i
  OBVIOUS
<1> HIDE DEF ids, D, f
<1>5. \A s : s \subseteq 1..Len(R) => f[s] = Turn(ids, base, f, s)
  <2>1. \A s \in SUBSET D : f[s] = Turn(ids, base, f, s)
    BY <1>3
  <2>2. QED
    BY <1>1, <2>1
<1>6. PICK acc : acc = [k \in Nat |-> f[1..k]]
  OBVIOUS
<1>7. acc[0] = base
  <2>1. 1..0 = {}
    OBVIOUS
  <2>2. {} \subseteq 1..Len(R)
    OBVIOUS
  <2>3. f[{}] = base
    BY <1>5, <2>2, Zenon DEF Turn
  <2>4. acc[0] = f[1..0]
    BY <1>6
  <2>5. QED
    BY <2>1, <2>3, <2>4
<1>8. ASSUME NEW k \in Nat, k + 1 <= Len(R)
      PROVE  acc[k + 1] = Rewrite(acc[k], k + 1)
  <2>1. PICK s : s = 1..(k + 1)
    OBVIOUS
  <2>2. s \subseteq 1..Len(R) /\ s # {} /\ s \ {k + 1} = 1..k
    BY <1>8, <2>1
  <2>3. Max(s) = k + 1
    <3>1. k + 1 \in Nat /\ k + 1 \in s
      BY <2>1
    <3>2. QED
      BY <2>1, <3>1, MaxIs
  <2>4. ids[Max(s)] = k + 1
    BY <1>4, <1>8, <2>3
  <2>5. f[s] = Turn(ids, base, f, s)
    BY <1>5, <2>2, Zenon
  <2>6. f[s] = Rewrite(f[1..k], k + 1)
    BY <2>2, <2>3, <2>4, <2>5, Zenon DEF Turn
  <2>7. acc[k + 1] = f[s] /\ acc[k] = f[1..k]
    BY <1>6, <2>1
  <2>8. QED
    BY <2>6, <2>7, Zenon
<1>9. acc[Len(R)] = f[D]
  BY <1>1, <1>6
<1>10. QED
  BY <1>2, <1>7, <1>8, <1>9

\* The order in which records replace one another: of the times of two records,
\* and of their versions when the times are equal.
LEMMA OlderIs ==
    ASSUME NEW a \in RecordType, NEW b \in RecordType, NEW c \in RecordType
    PROVE  /\ ~IsOlder(a, a)
           /\ IsOlder(a, b) => ~IsOlder(b, a)
           /\ ~IsOlder(a, b) /\ ~IsOlder(b, c) => ~IsOlder(a, c)
<1>1. /\ a.time \in Nat /\ a.version \in Nat /\ b.time \in Nat /\ b.version \in Nat
      /\ c.time \in Nat /\ c.version \in Nat
  BY DEF RecordType
<1>2. QED
  BY <1>1 DEF IsOlder

\* What a turn for record q does to the records with slots.
TurnOf(before, after, q) ==
    \/ /\ \A c \in before : log[c].key # log[q].key
       /\ after = IF log[q].deleted THEN before ELSE before \cup {q}
    \/ \E p \in before :
          /\ log[p].key = log[q].key
          /\ \A c \in before : log[c].key = log[q].key => c = p
          /\ \/ IsOlder(log[q], log[p]) /\ after = before
             \/ /\ ~IsOlder(log[q], log[p])
                /\ after = IF log[q].deleted THEN before \ {p} ELSE (before \ {p}) \cup {q}

LEMMA TurnIs ==
    ASSUME log \in Seq(RecordType), Len(log) <= MaxRecords, NEW n \in Nat, n + 1 <= Len(log),
           NEW a, Sound(a.index, n, log), NEW x, x = Rewrite(a, n + 1).index
    PROVE  Sound(x, n + 1, log) /\ TurnOf(SlotSet(a.index), SlotSet(x), n + 1)
<1>1. PICK ix, q : ix = a.index /\ q = n + 1
  OBVIOUS
<1>2. Len(log) \in Nat /\ n \in 0..Len(log) /\ q \in 1..Len(log) /\ q \in n..Len(log)
  <2>1. Len(log) \in Nat
    BY LenProperties
  <2>2. QED
    BY ONLY <1>1, <2>1, n \in Nat, n + 1 <= Len(log)
<1>3. log[q] \in RecordType /\ log[q].key \in Keys /\ log[q].key \in Nat
  <2>1. log[q] \in RecordType
    BY <1>2, ElementOfSeq
  <2>2. log[q].key \in Keys
    BY <2>1 DEF RecordType
  <2>3. QED
    BY <2>1, <2>2, KeysAreNaturals
<1>4. Sound(ix, n, log)
  BY <1>1
<1>5. /\ ix.begin \in Nat /\ Count(ix) \in Nat /\ SlotSet(ix) = {Slots(ix)[i] : i \in 1..Count(ix)}
      /\ \A i \in 1..Count(ix) : /\ Slots(ix)[i] \in 1..n /\ log[Slots(ix)[i]].key \in Nat
                                 /\ Slots(ix)[i] = ix.memory[ix.begin + i - 1]
  BY <1>2, <1>4, SoundInside DEF SlotSet, Slots
<1>6. PICK c : c = Search(ix, log[q].key)
  OBVIOUS
<1>7. /\ c.found \in BOOLEAN /\ c.order \in 0..Count(ix)
      /\ c.found => /\ c.order \in 0..(Count(ix) - 1)
                    /\ log[Slots(ix)[c.order + 1]].key = log[q].key
      /\ ~c.found => \A i \in 1..Count(ix) :
                         IF i <= c.order THEN log[Slots(ix)[i]].key < log[q].key
                         ELSE log[q].key < log[Slots(ix)[i]].key
  BY <1>2, <1>3, <1>4, <1>6, SearchFinds
<1>8. PICK present : present = ReadBeforeTest(ix, c)
  OBVIOUS
<1>9. x = CASE ~c.found -> IF log[q].deleted THEN ix ELSE InsertIndexAt(ix, c.order, q)
            [] c.found /\ IsOlder(log[q], log[present]) -> ix
            [] OTHER -> IF log[q].deleted THEN RemoveIndexAt(ix, c.order)
                        ELSE SetIndexAt(ix, c.order, q)
  BY <1>1, <1>6, <1>8 DEF Rewrite
<1>10. Sound(ix, q, log)
  <2>1. \A r \in SlotSet(ix) : ~log[r].deleted
    BY <1>4 DEF Sound, SlotSet
  <2>2. QED
    BY <1>2, <1>4, <2>1, SoundKept
<1>11. CASE ~c.found
  <2>1. \A r \in SlotSet(ix) : log[r].key # log[q].key
    BY <1>3, <1>5, <1>7, <1>11
  <2>2. CASE log[q].deleted
    BY <1>1, <1>9, <1>10, <1>11, <2>1, <2>2 DEF TurnOf
  <2>3. CASE ~log[q].deleted
    <3>1. PICK o \in Nat : o = c.order /\ o <= Count(ix) /\ x = InsertIndexAt(ix, o, q)
      BY <1>5, <1>7, <1>9, <1>11, <2>3
    <3>2. Divides(ix, o, q, log)
      BY <1>7, <1>11, <3>1 DEF Divides
    <3>3. q = n + 1 /\ q <= Len(log)
      BY <1>1
    <3>4. Sound(x, q, log) /\ SlotSet(x) = SlotSet(ix) \cup {q}
      BY ONLY <1>4, <2>3, <3>1, <3>2, <3>3, log \in Seq(RecordType), Len(log) <= MaxRecords,
         n \in Nat, o \in Nat, Inserted
    <3>5. QED
      BY <1>1, <2>1, <2>3, <3>4 DEF TurnOf
  <2>4. QED
    BY <2>2, <2>3
<1>12. CASE c.found
  <2>1. PICK o \in Nat : o = c.order /\ o + 1 \in 1..Count(ix) /\ o + 1 <= Count(ix)
    BY <1>5, <1>7, <1>12
  <2>2. PICK p \in SlotSet(ix) : p = Slots(ix)[o + 1] /\ log[p].key = log[q].key
    BY <1>5, <1>7, <1>12, <2>1
  <2>3. present = p
    <3>1. ix.begin + (o + 1) - 1 = ix.begin + o
      BY <1>5, <2>1
    <3>2. QED
      BY <1>5, <1>8, <1>12, <2>1, <2>2, <3>1 DEF ReadBeforeTest
  <2>4. \A r \in SlotSet(ix) : log[r].key = log[q].key => r = p
    <3> TAKE r \in SlotSet(ix)
    <3>1. PICK i \in 1..Count(ix) : r = Slots(ix)[i]
      BY <1>5
    <3>2. ASSUME log[r].key = log[q].key PROVE r = p
      <4>1. PICK j \in 1..Count(ix) : j = o + 1 /\ log[Slots(ix)[i]].key = log[Slots(ix)[j]].key
        BY <2>1, <2>2, <3>1, <3>2
      <4>2. i = j
        BY ONLY <1>2, <1>4, <4>1, i \in 1..Count(ix), j \in 1..Count(ix), log \in Seq(RecordType),
           Len(log) <= MaxRecords, OneSlot
      <4>3. QED
        BY <2>2, <3>1, <4>1, <4>2
    <3>3. QED
      BY <3>2
  <2>5. CASE IsOlder(log[q], log[p])
    <3>1. x = ix
      BY <1>9, <1>12, <2>3, <2>5
    <3>2. QED
      BY <1>1, <1>10, <2>2, <2>4, <2>5, <3>1 DEF TurnOf
  <2>6. CASE ~IsOlder(log[q], log[p]) /\ log[q].deleted
    <3>1. x = RemoveIndexAt(ix, o)
      BY <1>9, <1>12, <2>1, <2>3, <2>6
    <3>2. Sound(x, n, log) /\ SlotSet(x) = SlotSet(ix) \ {p}
      BY <1>2, <1>4, <2>1, <2>2, <3>1, Removed
    <3>3. \A r \in SlotSet(x) : ~log[r].deleted
      BY <3>2 DEF Sound, SlotSet
    <3>4. Sound(x, q, log)
      BY <1>2, <3>2, <3>3, SoundKept
    <3>5. QED
      BY <1>1, <2>2, <2>4, <2>6, <3>2, <3>4 DEF TurnOf
  <2>7. CASE ~IsOlder(log[q], log[p]) /\ ~log[q].deleted
    <3>1. x = SetIndexAt(ix, o, q)
      BY <1>9, <1>12, <2>1, <2>3, <2>7
    <3>2. q = n + 1 /\ q <= Len(log) /\ log[q].key = log[p].key /\ p = Slots(ix)[o + 1]
      BY <1>1, <2>2
    <3>3. Sound(x, q, log) /\ SlotSet(x) = (SlotSet(ix) \ {p}) \cup {q}
      BY ONLY <1>4, <2>1, <2>7, <3>1, <3>2, log \in Seq(RecordType), Len(log) <= MaxRecords,
         n \in Nat, o \in Nat, Replaced
    <3>4. QED
      BY <1>1, <2>2, <2>4, <2>7, <3>3 DEF TurnOf
  <2>8. QED
    BY <2>5, <2>6, <2>7
<1>13. QED
  BY <1>7, <1>11, <1>12

\* Every key of the table is still there, with a record that is not older.
Keeps(slots, n) ==
    \A r \in SlotSet(index) :
        r <= n => \E c \in slots : log[c].key = log[r].key /\ ~IsOlder(log[c], log[r])

\* The index after the records up to n.
Loop(ix, n) ==
    /\ Sound(ix, n, log)
    /\ Later(log, SlotSet(ix), n)
    /\ Keeps(SlotSet(ix), n)
    /\ ~timedOut => AreLast(log, SlotSet(ix), n)

\* A turn keeps the order of marked records.
LEMMA TurnKeepsLater ==
    ASSUME NEW n \in Nat, NEW A \in SUBSET (1..n), NEW B, NEW q, q = n + 1,
           TurnOf(A, B, q), Later(log, A, n)
    PROVE  Later(log, B, q)
<1> SUFFICES ASSUME NEW r \in B, NEW s \in 1..q,
                    r < s, log[s].key = log[r].key, log[s].deleted
             PROVE  IsOlder(log[s], log[r])
  BY DEF Later
<1>1. B \subseteq A \cup {q}
  BY DEF TurnOf
<1>2. r \in A
  BY <1>1
<1>3. CASE s \in 1..n
  BY <1>2, <1>3 DEF Later
<1>4. CASE s = q
  BY <1>2, <1>4 DEF TurnOf
<1>5. QED
  BY <1>3, <1>4

\* A turn keeps a record of every key that the table has: a marked record takes
\* a slot away only from a record that is not younger, and then the record of the
\* table, which is older than none that is marked behind it, was not there yet.
LEMMA TurnKeepsKeys ==
    ASSUME log \in Seq(RecordType), NEW n \in Nat, NEW q, q = n + 1, q <= Len(log),
           NEW A \in SUBSET (1..n), NEW B, TurnOf(A, B, q), Keeps(A, n),
           LaterInv, \A r \in SlotSet(index) : r \in 1..Len(log) /\ ~log[r].deleted
    PROVE  Keeps(B, q)
<1> SUFFICES ASSUME NEW r \in SlotSet(index), r <= q
             PROVE  \E c \in B : log[c].key = log[r].key /\ ~IsOlder(log[c], log[r])
  BY DEF Keeps
<1>1. /\ r \in 1..Len(log) /\ q \in 1..Len(log) /\ Len(log) \in Nat
      /\ \A c \in A : c \in 1..Len(log)
  BY LenProperties
<1>2. \A c \in 1..Len(log) : log[c] \in RecordType
  BY ElementOfSeq
<1>3. CASE r = q
  <2>1. ~log[q].deleted
    BY <1>3
  <2>2. CASE q \in B
    BY <1>1, <1>2, <1>3, <2>2, OlderIs
  <2>3. CASE q \notin B
    <3>1. PICK p \in A : log[p].key = log[q].key /\ IsOlder(log[q], log[p]) /\ B = A
      BY <2>1, <2>3 DEF TurnOf
    <3>2. ~IsOlder(log[p], log[q])
      BY <1>1, <1>2, <3>1, OlderIs
    <3>3. QED
      BY <1>3, <3>1, <3>2
  <2>4. QED
    BY <2>2, <2>3
<1>4. CASE r <= n
  <2>1. PICK c \in A : log[c].key = log[r].key /\ ~IsOlder(log[c], log[r])
    BY <1>4 DEF Keeps
  <2>2. CASE c \in B
    BY <2>1, <2>2
  <2>3. CASE c \notin B
    <3>1. /\ log[c].key = log[q].key /\ ~IsOlder(log[q], log[c])
          /\ log[q].deleted \/ q \in B
      BY <2>1, <2>3 DEF TurnOf
    <3>2. ~IsOlder(log[q], log[r])
      BY <1>1, <1>2, <2>1, <3>1, OlderIs
    <3>3. CASE log[q].deleted
      <4>1. r < q /\ log[q].key = log[r].key
        BY <1>1, <1>4, <2>1, <3>1
      <4>2. IsOlder(log[q], log[r])
        BY <1>1, <3>3, <4>1 DEF LaterInv, Later
      <4>3. QED
        BY <3>2, <4>2
    <3>4. CASE q \in B
      BY <2>1, <3>1, <3>2, <3>4
    <3>5. QED
      BY <3>1, <3>3, <3>4
  <2>4. QED
    BY <2>2, <2>3
<1>5. QED
  BY <1>1, <1>3, <1>4

\* A turn leaves the live records that are the last of their key so far.
LEMMA TurnKeepsLast ==
    ASSUME log \in Seq(RecordType), NEW n \in Nat, NEW q, q = n + 1, q <= Len(log),
           NEW A \in SUBSET (1..n), NEW B, TurnOf(A, B, q), AreLast(log, A, n), ChainInv
    PROVE  AreLast(log, B, q)
<1> SUFFICES ASSUME NEW r \in 1..q
             PROVE  r \in B <=> ~log[r].deleted /\ IsLast(log, q, r)
  BY DEF AreLast
<1>1. q \in 1..Len(log) /\ Len(log) \in Nat
  BY LenProperties
<1>2. \A p \in A : log[p].key = log[q].key => ~IsOlder(log[q], log[p])
  <2> TAKE p \in A
  <2>1. HAVE log[p].key = log[q].key
  <2>2. ~log[p].deleted /\ IsLast(log, n, p)
    BY DEF AreLast
  <2>3. p \in 1..Len(log) /\ Follows(log, p, q)
    BY <1>1, <2>1, <2>2 DEF IsLast, Follows
  <2>4. QED
    BY <1>1, <2>2, <2>3 DEF ChainInv, Chained
<1>3. \A p \in A : p \in B <=> log[p].key # log[q].key
  BY <1>2 DEF TurnOf
<1>4. B \subseteq A \cup {q} /\ (q \in B <=> ~log[q].deleted)
  BY <1>2 DEF TurnOf
<1>5. CASE r = q
  <2>1. IsLast(log, q, q)
    BY DEF IsLast
  <2>2. QED
    BY <1>4, <1>5, <2>1
<1>6. CASE r \in 1..n
  <2>1. IsLast(log, q, r) <=> IsLast(log, n, r) /\ log[q].key # log[r].key
    <3>1. (r + 1)..q = ((r + 1)..n) \cup {q}
      BY <1>6
    <3>2. QED
      BY <3>1 DEF IsLast
  <2>2. r \in A <=> ~log[r].deleted /\ IsLast(log, n, r)
    BY <1>6 DEF AreLast
  <2>3. r \in B <=> r \in A /\ log[r].key # log[q].key
    BY <1>3, <1>4, <1>6
  <2>4. QED
    BY <2>1, <2>2, <2>3
<1>7. QED
  BY <1>5, <1>6

LEMMA TurnKeepsLoop ==
    ASSUME IInv, NEW n \in Nat, n + 1 <= Len(log), NEW a, Loop(a.index, n),
           NEW b, b = Rewrite(a, n + 1)
    PROVE  Loop(b.index, n + 1)
<1>1. /\ log \in Seq(RecordType) /\ Len(log) <= MaxRecords /\ LaterInv
      /\ ~timedOut => ChainInv
  BY DEF IInv, LogInv, Written, CleanInv
<1>2. PICK q, A, B : q = n + 1 /\ A = SlotSet(a.index) /\ B = SlotSet(b.index)
  OBVIOUS
<1>3. /\ Sound(a.index, n, log) /\ Later(log, A, n) /\ Keeps(A, n)
      /\ ~timedOut => AreLast(log, A, n)
  BY <1>2 DEF Loop
<1>4. Sound(b.index, q, log) /\ TurnOf(A, B, q)
  <2>1. PICK x : x = Rewrite(a, n + 1).index
    OBVIOUS
  <2>2. Sound(x, n + 1, log) /\ TurnOf(SlotSet(a.index), SlotSet(x), n + 1)
    BY <1>1, <1>3, <2>1, TurnIs
  <2>3. QED
    BY <1>2, <2>1, <2>2
<1>5. A \in SUBSET (1..n)
  BY <1>2, <1>3 DEF Sound, SlotSet
<1>6. \A r \in SlotSet(index) : r \in 1..Len(log) /\ ~log[r].deleted
  BY DEF IInv, Sound, SlotSet
<1>7. q = n + 1 /\ q <= Len(log) /\ TurnOf(A, B, q)
  BY <1>2, <1>4
<1>8. Later(log, B, q)
  BY ONLY <1>3, <1>5, <1>7, n \in Nat, TurnKeepsLater
<1>9. Keeps(B, q)
  BY ONLY <1>1, <1>3, <1>5, <1>6, <1>7, n \in Nat, TurnKeepsKeys
<1>10. ~timedOut => AreLast(log, B, q)
  BY ONLY <1>1, <1>3, <1>5, <1>7, n \in Nat, TurnKeepsLast
<1>11. QED
  BY <1>2, <1>4, <1>8, <1>9, <1>10 DEF Loop

\* The index that Rebuild leaves.
LEMMA RebuildLoop ==
    ASSUME IInv, Rebuild
    PROVE  Loop(index', Len(log))
<1> DEFINE cleared == [index EXCEPT !.begin = Room + 1, !.end = Room + 1]
           base == [failed |-> FALSE, index |-> cleared]
<1>1. Len(log) \in Nat /\ DOMAIN log = 1..Len(log) /\ log \in Seq(RecordType) /\ Len(log) <= MaxRecords
  BY LenProperties DEF IInv, LogInv, Written
<1>2. index' = FoldLeftDomain(LAMBDA acc, record : Rewrite(acc, record), base, log).index
  BY DEF Rebuild
<1>3. Loop(cleared, 0)
  <2>1. Room + 1 \in Nat /\ index \in IndexType(Len(log))
    BY RoomIs DEF IInv, Sound
  <2>2. /\ cleared \in IndexType(Len(log)) /\ cleared.begin = Room + 1 /\ cleared.end = Room + 1
    BY <2>1 DEF IndexType
  <2> HIDE DEF cleared
  <2>3. Count(cleared) = 0 /\ 1..Count(cleared) = {}
    BY <2>1, <2>2 DEF Count
  <2>4. SlotSet(cleared) = {}
    BY <2>3 DEF SlotSet
  <2>5. Room + 1 - 0 <= cleared.begin /\ cleared.begin <= cleared.end /\ cleared.end <= Room + 1
    BY <2>1, <2>2
  <2>6. Sound(cleared, 0, log)
    BY <2>2, <2>3, <2>5, Zenon DEF Sound
  <2>7. Later(log, {}, 0) /\ AreLast(log, {}, 0)
    BY DEF Later, AreLast
  <2>8. Keeps({}, 0)
    <3>1. \A r \in SlotSet(index) : r \in 1..Len(log)
      BY DEF IInv, Sound, SlotSet
    <3>2. QED
      BY <1>1, <3>1 DEF Keeps
  <2>9. QED
    BY <2>4, <2>6, <2>7, <2>8 DEF Loop
<1>4. PICK acc : /\ acc[0] = base
                 /\ \A k \in Nat : k + 1 <= Len(log) => acc[k + 1] = Rewrite(acc[k], k + 1)
                 /\ FoldLeftDomain(LAMBDA a, record : Rewrite(a, record), base, log) = acc[Len(log)]
  <2> HIDE DEF base
  <2>1. QED
    BY <1>1, LoopTurns
<1>5. index' = acc[Len(log)].index /\ acc[0].index = cleared
  <2> HIDE DEF base, cleared
  <2>1. acc[0].index = cleared
    <3>1. acc[0] = base
      BY <1>4, Zenon
    <3>2. base.index = cleared
      BY DEF base
    <3>3. QED
      BY ONLY <3>1, <3>2
  <2>2. index' = acc[Len(log)].index
    BY <1>2, <1>4
  <2>3. QED
    BY <2>1, <2>2
<1> HIDE DEF base, cleared
<1>6. PICK S : S = {k \in Nat : k <= Len(log) => Loop(acc[k].index, k)}
  OBVIOUS
<1>7. ASSUME NEW k \in Nat, \A m \in Nat : m < k => m \in S
      PROVE  k \in S
  <2>1. CASE k = 0
    BY <1>3, <1>5, <1>6, <2>1
  <2>2. CASE k # 0
    <3>1. PICK m \in Nat : m + 1 = k /\ m \in S
      <4>1. k - 1 \in Nat /\ k - 1 < k /\ (k - 1) + 1 = k
        BY <2>2
      <4>2. QED
        BY <1>7, <4>1
    <3>2. ASSUME k <= Len(log) PROVE Loop(acc[k].index, k)
      <4>1. m <= Len(log) /\ m + 1 <= Len(log)
        BY <1>1, <3>1, <3>2
      <4>2. Loop(acc[m].index, m)
        BY <1>6, <3>1, <4>1
      <4>3. PICK a, b : a = acc[m] /\ b = acc[m + 1] /\ b = Rewrite(a, m + 1)
        BY <1>4, <4>1
      <4>4. Loop(b.index, m + 1)
        BY <4>1, <4>2, <4>3, TurnKeepsLoop
      <4>5. QED
        BY <3>1, <4>3, <4>4
    <3>3. QED
      BY <1>6, <3>2
  <2>3. QED
    BY <2>1, <2>2
<1>8. Nat \subseteq S
  BY <1>7, Induction
<1>9. QED
  BY <1>1, <1>5, <1>6, <1>8

\* Rebuild keeps the invariant.
LEMMA RebuildStep ==
    ASSUME IInv, Rebuild
    PROVE  IInv'
<1>1. Loop(index', Len(log))
  BY RebuildLoop
<1>2. log' = log /\ clock' = clock /\ timedOut' = timedOut
  BY DEF Rebuild
<1>3. LogInv'
  BY <1>2 DEF IInv, LogInv
<1>4. Sound(index', Len(log'), log')
  BY <1>1, <1>2 DEF Loop
<1>5. Later(log', SlotSet(index'), Len(log'))
  BY <1>1, <1>2 DEF Loop
<1>6. ~timedOut' => AreLast(log', SlotSet(index'), Len(log'))
  BY <1>1, <1>2 DEF Loop
<1>7. ChainInv' <=> ChainInv
  BY <1>2 DEF ChainInv
<1>8. QED
  BY <1>2, <1>3, <1>4, <1>5, <1>6, <1>7 DEF IInv, LaterInv, CleanInv, LastInv

-----------------------------------------------------------------------------
(* What the calls do to the records: one changes, one is appended.         *)

\* Record p of R has changed in S; it has kept its key and is not older.
Touched(R, S, p) ==
    /\ S \in Seq(RecordType) /\ Len(S) = Len(R)
    /\ \A i \in 1..Len(R) : i # p => S[i] = R[i]
    /\ S[p].key = R[p].key /\ ~IsOlder(S[p], R[p])

\* S is R with one more record, which is live.
Grown(R, S, q) ==
    /\ S \in Seq(RecordType) /\ q = Len(R) + 1 /\ Len(S) = q
    /\ \A i \in 1..Len(R) : S[i] = R[i]
    /\ ~S[q].deleted

LEMMA TouchedKeys ==
    ASSUME NEW R \in Seq(RecordType), NEW p \in 1..Len(R), NEW S, Touched(R, S, p)
    PROVE  /\ Len(R) \in Nat /\ Len(S) = Len(R)
           /\ \A i \in 1..Len(R) : S[i].key = R[i].key /\ R[i] \in RecordType /\ S[i] \in RecordType
           /\ \A r, s \in 1..Len(R) : Follows(S, r, s) <=> Follows(R, r, s)
           /\ \A r \in 1..Len(R) : IsLast(S, Len(R), r) <=> IsLast(R, Len(R), r)
<1>1. Len(R) \in Nat /\ Len(S) = Len(R) /\ S \in Seq(RecordType)
  BY LenProperties DEF Touched
<1>2. \A i \in 1..Len(R) : R[i] \in RecordType
  BY ElementOfSeq
<1>3. \A i \in 1..Len(R) : S[i] \in RecordType
  BY <1>1, ElementOfSeq
<1>4. \A i \in 1..Len(R) : S[i].key = R[i].key
  BY DEF Touched
<1>5. ASSUME NEW r \in 1..Len(R), NEW s \in 1..Len(R)
      PROVE  Follows(S, r, s) <=> Follows(R, r, s)
  <2>1. \A i \in (r + 1)..(s - 1) : i \in 1..Len(R)
    BY <1>1
  <2>2. QED
    BY <1>4, <2>1 DEF Follows
<1>6. ASSUME NEW r \in 1..Len(R)
      PROVE  IsLast(S, Len(R), r) <=> IsLast(R, Len(R), r)
  <2>1. \A i \in (r + 1)..Len(R) : i \in 1..Len(R)
    BY <1>1
  <2>2. QED
    BY <1>4, <2>1 DEF IsLast
<1>7. QED
  BY <1>1, <1>2, <1>3, <1>4, <1>5, <1>6

LEMMA TouchedLater ==
    ASSUME NEW R \in Seq(RecordType), NEW p \in 1..Len(R), NEW S, Touched(R, S, p),
           NEW A \in SUBSET (1..Len(R)), Later(R, A, Len(R)),
           ~S[p].deleted \/ \A r \in A : R[r].key # R[p].key
    PROVE  Later(S, A, Len(S))
<1>1. /\ Len(S) = Len(R)
      /\ \A i \in 1..Len(R) : S[i].key = R[i].key /\ R[i] \in RecordType /\ S[i] \in RecordType
      /\ \A i \in 1..Len(R) : i # p => S[i] = R[i]
      /\ ~IsOlder(S[p], R[p])
  BY TouchedKeys DEF Touched
<1> SUFFICES ASSUME NEW r \in A, NEW s \in 1..Len(R),
                    r < s, S[s].key = S[r].key, S[s].deleted
             PROVE  IsOlder(S[s], S[r])
  BY <1>1 DEF Later
<1>2. s # p
  BY <1>1
<1>3. IsOlder(S[s], R[r])
  <2>1. R[s].key = R[r].key /\ S[s] = R[s]
    BY <1>1, <1>2
  <2>2. QED
    BY <2>1 DEF Later
<1>4. CASE r # p
  BY <1>1, <1>3, <1>4
<1>5. CASE r = p
  <2>1. S[s] \in RecordType /\ S[p] \in RecordType /\ R[p] \in RecordType
    BY <1>1
  <2>2. ~IsOlder(S[s], S[p]) => ~IsOlder(S[s], R[p])
    BY <1>1, <2>1, OlderIs
  <2>3. QED
    BY <1>3, <1>5, <2>2
<1>6. QED
  BY <1>4, <1>5

LEMMA TouchedChained ==
    ASSUME NEW R \in Seq(RecordType), NEW p \in 1..Len(R), NEW S, Touched(R, S, p),
           Chained(R), IsLast(R, Len(R), p), ~R[p].deleted
    PROVE  Chained(S)
<1>1. /\ Len(S) = Len(R) /\ Len(R) \in Nat
      /\ \A i \in 1..Len(R) : S[i].key = R[i].key /\ R[i] \in RecordType /\ S[i] \in RecordType
      /\ \A i \in 1..Len(R) : i # p => S[i] = R[i]
      /\ ~IsOlder(S[p], R[p])
      /\ \A r, s \in 1..Len(R) : Follows(S, r, s) <=> Follows(R, r, s)
  BY TouchedKeys DEF Touched
<1> SUFFICES ASSUME NEW r \in 1..Len(R), NEW s \in 1..Len(R), Follows(S, r, s), ~S[r].deleted
             PROVE  ~IsOlder(S[s], S[r])
  BY <1>1 DEF Chained
<1>2. Follows(R, r, s)
  BY <1>1
<1>3. r # p
  BY <1>1, <1>2 DEF Follows, IsLast
<1>4. S[r] = R[r] /\ ~IsOlder(R[s], R[r])
  BY <1>1, <1>2, <1>3 DEF Chained
<1>5. CASE s # p
  BY <1>1, <1>4, <1>5
<1>6. CASE s = p
  <2>1. S[p] \in RecordType /\ R[p] \in RecordType /\ R[r] \in RecordType
    BY <1>1
  <2>2. QED
    BY <1>1, <1>4, <1>6, <2>1, OlderIs
<1>7. QED
  BY <1>5, <1>6

LEMMA TouchedLast ==
    ASSUME NEW R \in Seq(RecordType), NEW p \in 1..Len(R), NEW S, Touched(R, S, p),
           NEW A, AreLast(R, A, Len(R)), ~R[p].deleted,
           NEW B, B = IF S[p].deleted THEN A \ {p} ELSE A
    PROVE  AreLast(S, B, Len(S))
<1>1. /\ Len(S) = Len(R)
      /\ \A i \in 1..Len(R) : i # p => S[i] = R[i]
      /\ \A r \in 1..Len(R) : IsLast(S, Len(R), r) <=> IsLast(R, Len(R), r)
  BY TouchedKeys DEF Touched
<1>2. QED
  BY <1>1 DEF AreLast

LEMMA GrownKeys ==
    ASSUME NEW R \in Seq(RecordType), NEW S, NEW q, Grown(R, S, q)
    PROVE  /\ Len(R) \in Nat /\ q = Len(R) + 1 /\ Len(S) = q /\ q \in Nat
           /\ \A i \in 1..Len(R) : S[i] = R[i] /\ i \in 1..q /\ i < q
           /\ \A i \in 1..q : i \in 1..Len(R) \/ i = q
           /\ \A r, s \in 1..Len(R) : Follows(S, r, s) <=> Follows(R, r, s)
           /\ \A r \in 1..Len(R) : /\ Follows(S, r, q) <=> IsLast(R, Len(R), r) /\ R[r].key = S[q].key
                                   /\ IsLast(S, q, r) <=> IsLast(R, Len(R), r) /\ R[r].key # S[q].key
<1>1. Len(R) \in Nat /\ q = Len(R) + 1 /\ Len(S) = q /\ \A i \in 1..Len(R) : S[i] = R[i]
  BY LenProperties DEF Grown
<1>2. ASSUME NEW r \in 1..Len(R), NEW s \in 1..Len(R)
      PROVE  Follows(S, r, s) <=> Follows(R, r, s)
  <2>1. \A i \in (r + 1)..(s - 1) : i \in 1..Len(R)
    BY <1>1
  <2>2. QED
    BY <1>1, <2>1 DEF Follows
<1>3. ASSUME NEW r \in 1..Len(R)
      PROVE  /\ Follows(S, r, q) <=> IsLast(R, Len(R), r) /\ R[r].key = S[q].key
             /\ IsLast(S, q, r) <=> IsLast(R, Len(R), r) /\ R[r].key # S[q].key
  <2>1. \A i \in (r + 1)..Len(R) : i \in 1..Len(R)
    BY <1>1
  <2>2. (r + 1)..(q - 1) = (r + 1)..Len(R) /\ (r + 1)..q = ((r + 1)..Len(R)) \cup {q} /\ r < q
    BY <1>1
  <2>3. Follows(S, r, q) <=> IsLast(R, Len(R), r) /\ R[r].key = S[q].key
    BY <1>1, <2>1, <2>2 DEF Follows, IsLast
  <2>4. IsLast(S, q, r) <=> IsLast(R, Len(R), r) /\ R[r].key # S[q].key
    BY <1>1, <2>1, <2>2 DEF IsLast
  <2>5. QED
    BY <2>3, <2>4
<1>4. q \in Nat /\ (\A i \in 1..Len(R) : i \in 1..q /\ i < q) /\ \A i \in 1..q : i \in 1..Len(R) \/ i = q
  BY <1>1
<1>5. QED
  BY <1>1, <1>2, <1>3, <1>4

LEMMA GrownLater ==
    ASSUME NEW R \in Seq(RecordType), NEW S, NEW q, Grown(R, S, q),
           NEW A \in SUBSET (1..Len(R)), Later(R, A, Len(R)), NEW B, B \subseteq A \cup {q}
    PROVE  Later(S, B, Len(S))
<1>1. /\ Len(S) = q /\ ~S[q].deleted /\ q \in Nat
      /\ \A i \in 1..Len(R) : S[i] = R[i]
      /\ \A i \in 1..q : i \in 1..Len(R) \/ i = q
  BY GrownKeys DEF Grown
<1> SUFFICES ASSUME NEW r \in B, NEW s \in 1..q,
                    r < s, S[s].key = S[r].key, S[s].deleted
             PROVE  IsOlder(S[s], S[r])
  BY <1>1 DEF Later
<1>2. s \in 1..Len(R) /\ r # q
  <2>1. s # q
    BY <1>1
  <2>2. s \in 1..Len(R)
    BY <1>1, <2>1
  <2>3. QED
    BY <2>2, GrownKeys
<1>3. r \in A /\ r \in 1..Len(R)
  BY <1>2
<1>4. QED
  BY <1>1, <1>2, <1>3 DEF Later

LEMMA GrownChained ==
    ASSUME NEW R \in Seq(RecordType), NEW S, NEW q, Grown(R, S, q), Chained(R),
           \A r \in 1..Len(R) : ~R[r].deleted /\ IsLast(R, Len(R), r) /\ R[r].key = S[q].key
                                => ~IsOlder(S[q], R[r])
    PROVE  Chained(S)
<1>1. /\ Len(S) = q /\ q \in Nat
      /\ \A i \in 1..Len(R) : S[i] = R[i]
      /\ \A i \in 1..q : i \in 1..Len(R) \/ i = q
      /\ \A r, s \in 1..Len(R) : Follows(S, r, s) <=> Follows(R, r, s)
      /\ \A r \in 1..Len(R) : Follows(S, r, q) <=> IsLast(R, Len(R), r) /\ R[r].key = S[q].key
  BY GrownKeys
<1> SUFFICES ASSUME NEW r \in 1..q, NEW s \in 1..q, Follows(S, r, s), ~S[r].deleted
             PROVE  ~IsOlder(S[s], S[r])
  BY <1>1 DEF Chained
<1>2. r \in 1..Len(R)
  BY <1>1 DEF Follows
<1>3. CASE s \in 1..Len(R)
  BY <1>1, <1>2, <1>3 DEF Chained
<1>4. CASE s = q
  BY <1>1, <1>2, <1>4
<1>5. QED
  BY <1>1, <1>3, <1>4

LEMMA GrownLast ==
    ASSUME NEW R \in Seq(RecordType), NEW S, NEW q, Grown(R, S, q),
           NEW A \in SUBSET (1..Len(R)), AreLast(R, A, Len(R)),
           NEW B, B = {r \in A : R[r].key # S[q].key} \cup {q}
    PROVE  AreLast(S, B, Len(S))
<1>1. /\ Len(S) = q /\ q \in Nat /\ ~S[q].deleted
      /\ \A i \in 1..Len(R) : S[i] = R[i] /\ i < q
      /\ \A i \in 1..q : i \in 1..Len(R) \/ i = q
      /\ \A r \in 1..Len(R) : IsLast(S, q, r) <=> IsLast(R, Len(R), r) /\ R[r].key # S[q].key
  BY GrownKeys DEF Grown
<1>2. IsLast(S, q, q)
  BY <1>1 DEF IsLast
<1>3. \A r \in 1..Len(R) : r \in B <=> r \in A /\ R[r].key # S[q].key
  BY <1>1
<1>4. \A r \in 1..Len(R) : r \in B <=> ~S[r].deleted /\ IsLast(S, q, r)
  BY <1>1, <1>3 DEF AreLast
<1>5. QED
  BY <1>1, <1>2, <1>4 DEF AreLast

WithRecord(R, p, e) == [R EXCEPT ![p] = e]

LEMMA ChangedIs ==
    ASSUME NEW R, NEW t \in Nat, Written(R, t), NEW now \in Nat, t <= now,
           NEW p \in 1..Len(R), NEW e \in RecordType, e.key = R[p].key,
           e.version \in 2..MaxVersion, e.time <= now, ~IsOlder(e, R[p]),
           NEW S, S = WithRecord(R, p, e)
    PROVE  Touched(R, S, p) /\ Written(S, now) /\ S[p] = e
<1>1. R \in Seq(RecordType) /\ Len(R) <= MaxRecords
  BY DEF Written
<1>2. /\ S \in Seq(RecordType) /\ Len(S) = Len(R)
      /\ \A i \in 1..Len(R) : S[i] = IF i = p THEN e ELSE R[i]
  BY <1>1, ExceptSeq DEF WithRecord
<1>3. Touched(R, S, p)
  BY <1>2 DEF Touched
<1>4. \A i \in 1..Len(S) : S[i].version \in 2..MaxVersion /\ S[i].time <= now
  <2> TAKE i \in 1..Len(S)
  <2>1. CASE i = p
    BY <1>2, <2>1
  <2>2. CASE i # p
    <3>1. S[i] = R[i] /\ i \in 1..Len(R)
      BY <1>2, <2>2
    <3>2. R[i] \in RecordType
      BY <1>1, <3>1, ElementOfSeq
    <3>3. R[i].version \in 2..MaxVersion /\ R[i].time <= t
      BY <3>1 DEF Written
    <3>4. R[i].time \in Nat
      BY <3>2 DEF RecordType
    <3>5. QED
      BY <3>1, <3>3, <3>4
  <2>3. QED
    BY <2>1, <2>2
<1>5. QED
  BY <1>1, <1>2, <1>3, <1>4 DEF Written

\* A live record that may be written at this time.
Fresh(e, now) ==
    e \in RecordType /\ ~e.deleted /\ e.version \in 2..MaxVersion /\ e.time <= now
WithNext(R, e) == Append(R, e)

LEMMA AppendedIs ==
    ASSUME NEW R, NEW t \in Nat, Written(R, t), NEW now \in Nat, t <= now,
           Len(R) < MaxRecords, NEW e, Fresh(e, now),
           NEW S, S = WithNext(R, e), NEW q, q = Len(R) + 1
    PROVE  Grown(R, S, q) /\ Written(S, now) /\ S[q] = e /\ q \in 1..Len(S)
<1> e \in RecordType /\ ~e.deleted /\ e.version \in 2..MaxVersion /\ e.time <= now
  BY DEF Fresh
<1>1. R \in Seq(RecordType) /\ Len(R) <= MaxRecords /\ Len(R) \in Nat
  BY LenProperties DEF Written
<1>2. /\ S \in Seq(RecordType) /\ Len(S) = Len(R) + 1
      /\ \A i \in 1..Len(R) : S[i] = R[i]
      /\ S[Len(R) + 1] = e
  BY <1>1, AppendProperties DEF WithNext
<1>3. Grown(R, S, q)
  BY <1>2 DEF Grown
<1>4. \A i \in 1..Len(S) : S[i].version \in 2..MaxVersion /\ S[i].time <= now
  <2> TAKE i \in 1..Len(S)
  <2>1. CASE i = q
    BY <1>2, <2>1
  <2>2. CASE i # q
    <3>1. i \in 1..Len(R)
      BY <1>1, <1>2, <2>2
    <3>2. S[i] = R[i] /\ R[i] \in RecordType
      BY <1>1, <1>2, <3>1, ElementOfSeq
    <3>3. R[i].version \in 2..MaxVersion /\ R[i].time <= t
      BY <3>1 DEF Written
    <3>4. R[i].time \in Nat
      BY <3>2 DEF RecordType
    <3>5. QED
      BY <3>2, <3>3, <3>4
  <2>3. QED
    BY <2>1, <2>2
<1>5. Len(S) <= MaxRecords /\ q \in 1..Len(S)
  BY <1>1, <1>2, BoundsAreNatural
<1>6. QED
  BY <1>2, <1>3, <1>4, <1>5 DEF Written

-----------------------------------------------------------------------------
(* The calls keep the invariant.                                           *)

LEMMA InvSays ==
    ASSUME IInv
    PROVE  /\ Written(log, clock) /\ clock \in Nat /\ log \in Seq(RecordType)
           /\ Len(log) \in Nat /\ Len(log) <= MaxRecords /\ Len(log) \in 0..Len(log)
           /\ Sound(index, Len(log), log) /\ Later(log, SlotSet(index), Len(log))
           /\ SlotSet(index) \in SUBSET (1..Len(log))
           /\ \A r \in SlotSet(index) : r \in 1..Len(log) /\ ~log[r].deleted
           /\ ~timedOut => Chained(log) /\ AreLast(log, SlotSet(index), Len(log))
<1>1. Written(log, clock) /\ clock \in Nat /\ log \in Seq(RecordType) /\ Len(log) <= MaxRecords
  BY DEF IInv, LogInv, Written
<1>2. Len(log) \in Nat /\ Len(log) \in 0..Len(log)
  BY <1>1, LenProperties
<1>3. Sound(index, Len(log), log) /\ Later(log, SlotSet(index), Len(log))
  BY DEF IInv, LaterInv
<1>4. \A r \in SlotSet(index) : r \in 1..Len(log) /\ ~log[r].deleted
  BY <1>3 DEF Sound, SlotSet
<1>5. QED
  BY <1>1, <1>2, <1>3, <1>4 DEF IInv, CleanInv, ChainInv, LastInv

\* What the calls read of the record that a key has a slot for.
LEMMA HasSlot ==
    ASSUME IInv, NEW key \in Keys, NEW c, c = Search(index, key), c.found,
           NEW p, p = Slots(index)[c.order + 1]
    PROVE  /\ c.order \in Nat /\ c.order + 1 <= Count(index)
           /\ p \in SlotSet(index) /\ p \in 1..Len(log) /\ log[p] \in RecordType
           /\ log[p].key = key /\ ~log[p].deleted
           /\ log[p].version \in 2..MaxVersion /\ log[p].time \in Nat /\ log[p].time <= clock
           /\ \A r \in SlotSet(index) : log[r].key = key => r = p
<1>1. /\ c.order \in 0..(Count(index) - 1) /\ log[p].key = key
  BY InvSays, SearchFinds
<1>2. Count(index) \in Nat
  BY InvSays, SoundInside
<1>3. PICK i \in 1..Count(index) : i = c.order + 1 /\ p = Slots(index)[i] /\ c.order \in Nat
  BY <1>1, <1>2
<1>4. p \in SlotSet(index)
  BY <1>3 DEF SlotSet
<1>5. p \in 1..Len(log) /\ ~log[p].deleted
  BY <1>4, InvSays
<1>6. log[p] \in RecordType
  BY <1>5, InvSays, ElementOfSeq
<1>7. log[p].version \in 2..MaxVersion /\ log[p].time <= clock
  BY <1>5, InvSays DEF Written
<1>8. \A r \in SlotSet(index) : log[r].key = key => r = p
  <2> TAKE r \in SlotSet(index)
  <2>1. HAVE log[r].key = key
  <2>2. PICK j \in 1..Count(index) : r = Slots(index)[j]
    BY DEF SlotSet
  <2>3. log[Slots(index)[i]].key = log[Slots(index)[j]].key
    BY <1>1, <1>3, <2>1, <2>2
  <2>4. i = j
    <3>1. PICK n : n = Len(log) /\ log \in Seq(RecordType) /\ Len(log) <= MaxRecords
                   /\ n \in 0..Len(log) /\ Sound(index, n, log)
      BY InvSays
    <3>2. QED
      BY ONLY <2>3, <3>1, i \in 1..Count(index), j \in 1..Count(index), OneSlot
  <2>5. QED
    BY <1>3, <2>2, <2>4
<1>9. QED
  BY <1>1, <1>2, <1>3, <1>4, <1>5, <1>6, <1>7, <1>8 DEF RecordType

\* What they read when it has none.
LEMMA HasNoSlot ==
    ASSUME IInv, NEW key \in Keys, NEW c, c = Search(index, key), ~c.found
    PROVE  /\ c.order \in Nat /\ c.order <= Count(index)
           /\ \A r \in SlotSet(index) : log[r].key # key
           /\ \A S, q : /\ S[q].key = key
                        /\ \A r \in SlotSet(index) : S[r].key = log[r].key
                        => Divides(index, c.order, q, S)
<1>1. /\ c.order \in 0..Count(index)
      /\ \A i \in 1..Count(index) : IF i <= c.order THEN log[Slots(index)[i]].key < key
                                    ELSE key < log[Slots(index)[i]].key
  BY InvSays, SearchFinds
<1>2. /\ Count(index) \in Nat /\ key \in Nat
      /\ \A i \in 1..Count(index) : log[Slots(index)[i]].key \in Nat
  BY InvSays, SoundInside, KeysAreNaturals
<1>3. \A r \in SlotSet(index) : log[r].key # key
  BY <1>1, <1>2 DEF SlotSet
<1>4. ASSUME NEW S, NEW q, S[q].key = key, \A r \in SlotSet(index) : S[r].key = log[r].key
      PROVE  Divides(index, c.order, q, S)
  <2>1. \A i \in 1..Count(index) : S[Slots(index)[i]].key = log[Slots(index)[i]].key
    BY <1>4 DEF SlotSet
  <2>2. QED
    BY <1>1, <1>4, <2>1 DEF Divides
<1>5. QED
  BY <1>1, <1>2, <1>3, <1>4

LEMMA TicksUp ==
    ASSUME IInv, NEW now \in Ticks, ReadClock(now)
    PROVE  /\ now \in Nat /\ clock \in Nat /\ clock <= now
           /\ clock' = now /\ clock' \in 0..MaxTime
BY InvSays, BoundsAreNatural DEF Ticks, ReadClock

\* One record with a slot has changed, and is live.
LEMMA TouchedSlots ==
    ASSUME IInv, NEW p \in SlotSet(index), NEW S, Touched(log, S, p), ~S[p].deleted
    PROVE  /\ S \in Seq(RecordType) /\ Len(S) = Len(log) /\ Sound(index, Len(S), S)
           /\ Later(S, SlotSet(index), Len(S))
           /\ ~timedOut => Chained(S) /\ AreLast(S, SlotSet(index), Len(S))
           /\ \A r \in SlotSet(index) : S[r].key = log[r].key /\ ~S[r].deleted
<1>1. p \in 1..Len(log) /\ ~log[p].deleted /\ log \in Seq(RecordType)
  BY InvSays
<1>3. S \in Seq(RecordType) /\ Len(S) = Len(log)
  BY DEF Touched
<1>4. \A r \in SlotSet(index) : S[r].key = log[r].key /\ ~S[r].deleted
  <2>1. \A i \in 1..Len(log) : S[i].key = log[i].key
    BY <1>1, <1>3, TouchedKeys
  <2>2. \A i \in 1..Len(log) : i # p => S[i] = log[i]
    BY <1>3 DEF Touched
  <2>3. QED
    BY <1>3, <2>1, <2>2, InvSays
<1>5. Sound(index, Len(S), S)
  <2>1. PICK n : n = Len(log) /\ n \in 0..Len(log) /\ Sound(index, n, log) /\ Len(log) <= MaxRecords
                 /\ Len(log) <= Len(S) /\ Len(S) \in n..Len(S)
    BY <1>3, InvSays
  <2>2. QED
    BY ONLY <1>1, <1>3, <1>4, <2>1, SoundKept
<1>6. Later(S, SlotSet(index), Len(S))
  BY <1>1, <1>3, InvSays, TouchedLater
<1>7. ASSUME ~timedOut PROVE Chained(S) /\ AreLast(S, SlotSet(index), Len(S))
  <2>1. Chained(log) /\ AreLast(log, SlotSet(index), Len(log))
    BY <1>7, InvSays
  <2>2. IsLast(log, Len(log), p)
    BY <1>1, <2>1 DEF AreLast
  <2>3. Chained(S)
    BY <1>1, <1>3, <2>1, <2>2, TouchedChained
  <2>4. AreLast(S, SlotSet(index), Len(S))
    BY <1>1, <1>3, <2>1, TouchedLast
  <2>5. QED
    BY <2>3, <2>4
<1>8. QED
  BY <1>3, <1>4, <1>5, <1>6, <1>7

\* The slots are as they were.
LEMMA TouchedStep ==
    ASSUME IInv, NEW p \in SlotSet(index), Touched(log, log', p), Written(log', clock'),
           clock' \in 0..MaxTime, index' = index, ~log'[p].deleted,
           timedOut' \/ timedOut' = timedOut
    PROVE  IInv'
<1>1. PICK S : S = log' /\ Touched(log, S, p) /\ ~S[p].deleted
  OBVIOUS
<1>2. /\ Sound(index, Len(S), S) /\ Later(S, SlotSet(index), Len(S))
      /\ ~timedOut => Chained(S) /\ AreLast(S, SlotSet(index), Len(S))
  BY <1>1, TouchedSlots
<1>3. QED
  BY <1>1, <1>2 DEF IInv, LogInv, LaterInv, CleanInv, ChainInv, LastInv

LEMMA SetInPlaceStep ==
    ASSUME IInv, NEW key \in Keys, SetInPlace(key)
    PROVE  IInv'
<1>1. PICK c, p : c = Search(index, key) /\ p = Slots(index)[c.order + 1]
  OBVIOUS
<1>2. PICK now \in Ticks :
         /\ c.found /\ log[p].version + 2 <= MaxVersion /\ ReadClock(now)
         /\ log' = [log EXCEPT ![p].version = @ + 2, ![p].time = now]
         /\ index' = index /\ timedOut' = timedOut
  BY <1>1 DEF SetInPlace
<1>3. now \in Nat /\ clock \in Nat /\ clock <= now /\ clock' = now /\ clock' \in 0..MaxTime
  BY <1>2, TicksUp
<1>4. /\ p \in SlotSet(index) /\ p \in 1..Len(log) /\ log[p] \in RecordType /\ log[p].key = key
      /\ ~log[p].deleted /\ log[p].version \in 2..MaxVersion /\ log[p].time \in Nat /\ log[p].time <= clock
  BY <1>1, <1>2, HasSlot
<1>5. PICK e : e = [log[p] EXCEPT !.version = @ + 2, !.time = now]
  OBVIOUS
<1>6. /\ e \in RecordType /\ e.key = log[p].key /\ e.version = log[p].version + 2 /\ e.time = now
      /\ ~e.deleted
  <2>1. PICK r \in RecordType : r = log[p] /\ ~r.deleted /\ r.version + 2 \in Nat
    BY <1>4
  <2>2. e = [r EXCEPT !.version = @ + 2, !.time = now]
    BY <1>5, <2>1
  <2>3. QED
    BY <1>3, <2>1, <2>2 DEF RecordType
<1>10. log' = WithRecord(log, p, e)
  BY <1>2, <1>5 DEF WithRecord
<1>7. e.version \in 2..MaxVersion /\ ~IsOlder(e, log[p])
  BY <1>2, <1>3, <1>4, <1>6, BoundsAreNatural DEF IsOlder
<1>8. Touched(log, log', p) /\ Written(log', clock') /\ log'[p] = e
  <2>1. PICK S : S = log' /\ S = WithRecord(log, p, e)
    BY <1>10
  <2>2. Written(log, clock) /\ e.time <= now
    BY <1>3, <1>6, InvSays
  <2>3. Touched(log, S, p) /\ Written(S, now) /\ S[p] = e
    BY ONLY <1>3, <1>4, <1>6, <1>7, <2>1, <2>2, ChangedIs
  <2>4. QED
    BY <1>3, <2>1, <2>3
<1>9. QED
  BY <1>2, <1>3, <1>4, <1>6, <1>8, TouchedStep

\* One record has changed and its slot is gone: Delete, and what it leaves when
\* its deadline passes after that.
LEMMA RemovedStep ==
    ASSUME IInv, NEW key \in Keys, NEW c, c = Search(index, key), c.found,
           NEW p, p = Slots(index)[c.order + 1],
           Touched(log, log', p), Written(log', clock'), clock' \in 0..MaxTime,
           index' = RemoveIndexAt(index, c.order),
           timedOut' \/ (timedOut' = timedOut /\ log'[p].deleted)
    PROVE  IInv'
<1>1. PICK S, A, B : S = log' /\ A = SlotSet(index) /\ B = A \ {p}
  OBVIOUS
<1>2. /\ log \in Seq(RecordType) /\ Len(log) \in Nat /\ Len(log) <= MaxRecords
      /\ Len(log) \in 0..Len(log) /\ Sound(index, Len(log), log) /\ Later(log, A, Len(log))
      /\ A \in SUBSET (1..Len(log))
      /\ \A r \in A : r \in 1..Len(log) /\ ~log[r].deleted
  BY <1>1, InvSays
<1>3. /\ c.order \in Nat /\ c.order + 1 <= Count(index) /\ p \in A /\ p \in 1..Len(log)
      /\ ~log[p].deleted
      /\ \A r \in A : log[r].key = log[p].key => r = p
  BY <1>1, HasSlot
<1>4. Touched(log, S, p) /\ S \in Seq(RecordType) /\ Len(S) = Len(log)
  BY <1>1 DEF Touched
<1>5. PICK x : x = RemoveIndexAt(index, c.order) /\ x = index'
  OBVIOUS
<1>6. Sound(x, Len(log), log) /\ SlotSet(x) = B
  <2>1. PICK o \in Nat, n \in Nat : o = c.order /\ n = Len(log)
    BY <1>2, <1>3
  <2>2. n \in 0..Len(log) /\ Sound(index, n, log) /\ o + 1 <= Count(index) /\ p = Slots(index)[o + 1]
        /\ x = RemoveIndexAt(index, o)
    BY <1>2, <1>3, <1>5, <2>1
  <2>3. Sound(x, n, log) /\ SlotSet(x) = SlotSet(index) \ {p}
    BY ONLY <1>2, <2>2, o \in Nat, Removed
  <2>4. QED
    BY <1>1, <2>1, <2>3
<1>7. \A i \in 1..Len(log) : S[i].key = log[i].key /\ (i # p => S[i] = log[i])
  <2>1. \A i \in 1..Len(log) : S[i].key = log[i].key
    BY <1>2, <1>3, <1>4, TouchedKeys
  <2>2. QED
    BY <1>4, <2>1 DEF Touched
<1>8. \A r \in SlotSet(x) : S[r].key = log[r].key /\ ~S[r].deleted
  BY <1>1, <1>2, <1>6, <1>7
<1>9. Sound(x, Len(S), S)
  <2>1. PICK n : n = Len(log) /\ n \in 0..Len(log) /\ Sound(x, n, log)
                 /\ Len(log) <= Len(S) /\ Len(S) \in n..Len(S)
    BY <1>2, <1>4, <1>6
  <2>2. QED
    BY ONLY <1>2, <1>4, <1>8, <2>1, SoundKept
<1>10. Later(S, B, Len(S))
  <2>1. B \in SUBSET (1..Len(log)) /\ Later(log, B, Len(log))
    BY <1>1, <1>2 DEF Later
  <2>2. \A r \in B : log[r].key # log[p].key
    BY <1>1, <1>3
  <2>3. QED
    BY ONLY <1>2, <1>3, <1>4, <2>1, <2>2, TouchedLater
<1>11. ASSUME ~timedOut' PROVE Chained(S) /\ AreLast(S, B, Len(S))
  <2>1. S[p].deleted /\ ~timedOut
    BY <1>1, <1>11
  <2>2. Chained(log) /\ AreLast(log, A, Len(log))
    BY <1>1, <2>1, InvSays
  <2>3. IsLast(log, Len(log), p)
    BY <1>3, <2>2 DEF AreLast
  <2>4. Chained(S)
    BY ONLY <1>2, <1>3, <1>4, <2>2, <2>3, TouchedChained
  <2>5. B = IF S[p].deleted THEN A \ {p} ELSE A
    BY <1>1, <2>1
  <2>6. AreLast(S, B, Len(S))
    BY ONLY <1>2, <1>3, <1>4, <2>2, <2>5, TouchedLast
  <2>7. QED
    BY <2>4, <2>6
<1>12. QED
  BY <1>1, <1>5, <1>6, <1>9, <1>10, <1>11 DEF IInv, LogInv, LaterInv, CleanInv, ChainInv, LastInv

LEMMA DeleteStep ==
    ASSUME IInv, NEW key \in Keys, Delete(key)
    PROVE  IInv'
<1>1. PICK c, p : c = Search(index, key) /\ p = Slots(index)[c.order + 1]
  OBVIOUS
<1>2. /\ c.found /\ log[p].version + 2 <= MaxVersion /\ clock' = clock
      /\ \/ /\ log' = [log EXCEPT ![p].version = @ + 2, ![p].deleted = TRUE]
            /\ index' = RemoveIndexAt(index, c.order)
            /\ timedOut' = timedOut
         \/ /\ log' = [log EXCEPT ![p].version = @ + 2]
            /\ index' \in {index, RemoveIndexAt(index, c.order)}
            /\ timedOut' = TRUE
  BY <1>1 DEF Delete
<1>3. /\ p \in SlotSet(index) /\ p \in 1..Len(log) /\ log[p] \in RecordType /\ log[p].key = key
      /\ ~log[p].deleted /\ log[p].version \in 2..MaxVersion /\ log[p].time \in Nat /\ log[p].time <= clock
  BY <1>1, <1>2, HasSlot
<1>4. PICK r \in RecordType : r = log[p] /\ ~r.deleted /\ r.version + 2 \in 2..MaxVersion
  BY <1>2, <1>3, BoundsAreNatural
<1>5. Written(log, clock) /\ clock \in Nat /\ clock <= clock /\ clock' \in 0..MaxTime
  BY <1>2, InvSays DEF IInv, LogInv
<1>6. ASSUME NEW e \in RecordType, log' = WithRecord(log, p, e), e.key = r.key, e.time = r.time,
             e.version = r.version + 2
      PROVE  Touched(log, log', p) /\ Written(log', clock') /\ log'[p] = e
  <2>1. PICK S : S = log' /\ S = WithRecord(log, p, e)
    BY <1>6
  <2>2. e.key = log[p].key /\ e.version \in 2..MaxVersion /\ e.time <= clock
    BY <1>3, <1>4, <1>6
  <2>3. ~IsOlder(e, log[p])
    BY <1>3, <1>4, <1>6, BoundsAreNatural DEF IsOlder
  <2>4. Touched(log, S, p) /\ Written(S, clock) /\ S[p] = e
    BY ONLY <1>3, <1>5, <2>1, <2>2, <2>3, e \in RecordType, ChangedIs
  <2>5. QED
    BY <1>2, <2>1, <2>4
<1>7. CASE /\ log' = [log EXCEPT ![p].version = @ + 2, ![p].deleted = TRUE]
           /\ index' = RemoveIndexAt(index, c.order)
           /\ timedOut' = timedOut
  <2>1. PICK e : e = [log[p] EXCEPT !.version = @ + 2, !.deleted = TRUE]
    OBVIOUS
  <2>2. e = [r EXCEPT !.version = @ + 2, !.deleted = TRUE]
    BY <1>4, <2>1
  <2>3. /\ e \in RecordType /\ e.key = r.key /\ e.version = r.version + 2 /\ e.time = r.time
        /\ e.deleted
    <3>1. e = [key |-> r.key, version |-> r.version + 2, time |-> r.time, deleted |-> TRUE]
      BY <2>2, r \in RecordType, Zenon DEF RecordType
    <3>2. r.key \in Keys /\ r.version + 2 \in Nat /\ r.time \in Nat
      BY <1>4 DEF RecordType
    <3>3. e.deleted
      BY <3>1, Zenon
    <3>4. QED
      BY <3>1, <3>2, <3>3 DEF RecordType
  <2>4. log' = WithRecord(log, p, e)
    BY <1>7, <2>1 DEF WithRecord
  <2>5. Touched(log, log', p) /\ Written(log', clock') /\ log'[p] = e
    BY <1>6, <2>3, <2>4
  <2>6. QED
    BY <1>1, <1>2, <1>5, <1>7, <2>3, <2>5, RemovedStep
<1>8. CASE /\ log' = [log EXCEPT ![p].version = @ + 2]
           /\ index' \in {index, RemoveIndexAt(index, c.order)}
           /\ timedOut' = TRUE
  <2>1. PICK e : e = [log[p] EXCEPT !.version = @ + 2]
    OBVIOUS
  <2>2. e = [r EXCEPT !.version = @ + 2]
    BY <1>4, <2>1
  <2>3. /\ e \in RecordType /\ e.key = r.key /\ e.version = r.version + 2 /\ e.time = r.time
        /\ ~e.deleted
    BY <1>4, <2>2 DEF RecordType
  <2>4. log' = WithRecord(log, p, e)
    BY <1>8, <2>1 DEF WithRecord
  <2>5. Touched(log, log', p) /\ Written(log', clock') /\ log'[p] = e
    BY <1>6, <2>3, <2>4
  <2>6. CASE index' = index
    BY <1>3, <1>5, <1>8, <2>3, <2>5, <2>6, TouchedStep
  <2>7. CASE index' = RemoveIndexAt(index, c.order)
    BY <1>1, <1>2, <1>5, <1>8, <2>5, <2>7, RemovedStep
  <2>8. QED
    BY <1>8, <2>6, <2>7
<1>9. QED
  BY <1>2, <1>7, <1>8

\* One record has been appended and the call has ended before its slot.
LEMMA GrownStep ==
    ASSUME IInv, NEW q, Grown(log, log', q), Written(log', clock'), clock' \in 0..MaxTime,
           index' = index, timedOut'
    PROVE  IInv'
<1>1. PICK S, A : S = log' /\ A = SlotSet(index)
  OBVIOUS
<1>2. /\ log \in Seq(RecordType) /\ Len(log) \in Nat /\ Len(log) <= MaxRecords
      /\ Len(log) \in 0..Len(log) /\ Sound(index, Len(log), log) /\ Later(log, A, Len(log))
      /\ A \in SUBSET (1..Len(log))
      /\ \A r \in A : r \in 1..Len(log) /\ ~log[r].deleted
  BY <1>1, InvSays
<1>3. Grown(log, S, q) /\ S \in Seq(RecordType) /\ Len(S) = Len(log) + 1
      /\ \A i \in 1..Len(log) : S[i] = log[i]
  BY <1>1 DEF Grown
<1>4. Sound(index, Len(S), S)
  <2>1. \A r \in SlotSet(index) : S[r].key = log[r].key /\ ~S[r].deleted
    BY <1>1, <1>2, <1>3
  <2>2. PICK n : n = Len(log) /\ n \in 0..Len(log) /\ Sound(index, n, log)
                 /\ Len(log) <= Len(S) /\ Len(S) \in n..Len(S)
    BY <1>2, <1>3
  <2>3. QED
    BY ONLY <1>2, <1>3, <2>1, <2>2, SoundKept
<1>5. Later(S, A, Len(S))
  BY <1>2, <1>3, GrownLater
<1>6. QED
  BY <1>1, <1>4, <1>5 DEF IInv, LogInv, LaterInv, CleanInv

LEMMA RecordIs ==
    ASSUME NEW key \in Keys, NEW version \in Nat, NEW time \in Nat,
           NEW e, e = Record(key, version, time)
    PROVE  /\ e \in RecordType /\ ~e.deleted
           /\ e.key = key /\ e.version = version /\ e.time = time
<1>1. e = [key |-> key, version |-> version, time |-> time, deleted |-> FALSE]
  BY DEF Record
<1>2. ~e.deleted
  BY <1>1
<1>3. QED
  BY <1>1, <1>2 DEF RecordType

LEMMA SetNewStep ==
    ASSUME IInv, NEW key \in Keys, SetNew(key)
    PROVE  IInv'
<1>1. PICK c : c = Search(index, key)
  OBVIOUS
<1>2. PICK now \in Ticks :
         /\ ~c.found /\ Len(log) < MaxRecords /\ 2 <= MaxVersion /\ ReadClock(now)
         /\ log' = Append(log, Record(key, 2, now))
         /\ \/ index' = InsertIndexAt(index, c.order, Len(log) + 1) /\ timedOut' = timedOut
            \/ timedOut' = TRUE /\ index' = index
  BY <1>1 DEF SetNew, Bounded
<1>3. now \in Nat /\ clock \in Nat /\ clock <= now /\ clock' = now /\ clock' \in 0..MaxTime
  BY <1>2, TicksUp
<1>4. PICK e : e = Record(key, 2, now)
  OBVIOUS
<1>5. /\ e \in RecordType /\ ~e.deleted /\ e.key = key /\ e.version = 2 /\ e.time = now
      /\ e.version \in 2..MaxVersion /\ e.time <= now
  BY <1>2, <1>3, <1>4, RecordIs, BoundsAreNatural
<1>6. PICK q, S, A : q = Len(log) + 1 /\ S = log' /\ A = SlotSet(index)
  OBVIOUS
<1>7. /\ log \in Seq(RecordType) /\ Len(log) \in Nat /\ Len(log) <= MaxRecords
      /\ Len(log) \in 0..Len(log) /\ Sound(index, Len(log), log) /\ Later(log, A, Len(log))
      /\ A \in SUBSET (1..Len(log)) /\ Written(log, clock)
      /\ \A r \in A : r \in 1..Len(log) /\ ~log[r].deleted
  BY <1>6, InvSays
<1>8. Grown(log, S, q) /\ Written(S, now) /\ S[q] = e /\ q \in 1..Len(S)
  <2>1. S = WithNext(log, e)
    BY <1>2, <1>4, <1>6 DEF WithNext
  <2>2. q = Len(log) + 1 /\ Len(log) < MaxRecords /\ Written(log, clock)
    BY <1>2, <1>6, <1>7
  <2>3. Fresh(e, now)
    BY <1>5 DEF Fresh
  <2>4. QED
    BY ONLY <1>3, <2>1, <2>2, <2>3, AppendedIs
<1>9. CASE timedOut' = TRUE /\ index' = index
  BY <1>3, <1>6, <1>8, <1>9, GrownStep
<1>10. CASE index' = InsertIndexAt(index, c.order, Len(log) + 1) /\ timedOut' = timedOut
  <2>1. PICK o \in Nat : o = c.order /\ o <= Count(index)
    BY <1>1, <1>2, HasNoSlot
  <2>13. PICK x : x = InsertIndexAt(index, o, q) /\ x = index'
    BY <1>6, <1>10, <2>1
  <2>2. \A r \in A : log[r].key # key
    BY <1>1, <1>2, <1>6, HasNoSlot
  <2>3. S \in Seq(RecordType) /\ Len(S) = q /\ Len(S) <= MaxRecords /\ \A i \in 1..Len(log) : S[i] = log[i]
    BY <1>8 DEF Grown, Written
  <2>4. \A r \in A : S[r].key = log[r].key /\ ~S[r].deleted
    BY <1>7, <2>3
  <2>5. PICK n \in Nat : n = Len(log) /\ n \in 0..Len(log) /\ q = n + 1 /\ q <= Len(S)
                         /\ n \in n..Len(S) /\ Len(log) <= Len(S)
    BY <1>6, <1>7, <2>3
  <2>6. Sound(index, n, S)
    BY <1>6, <1>7, <2>3, <2>4, <2>5, SoundKept
  <2>7. Divides(index, o, q, S)
    <3>1. S[q].key = key /\ \A r \in SlotSet(index) : S[r].key = log[r].key
      BY <1>5, <1>6, <1>8, <2>4
    <3>2. QED
      BY <1>1, <1>2, <2>1, <3>1, HasNoSlot
  <2>8. Sound(x, q, S) /\ SlotSet(x) = A \cup {q}
    <3>1. ~S[q].deleted
      BY <1>5, <1>8
    <3>2. S \in Seq(RecordType) /\ Len(S) <= MaxRecords /\ q = n + 1 /\ q <= Len(S)
      BY <2>3, <2>5
    <3>3. o <= Count(index) /\ x = InsertIndexAt(index, o, q)
      BY <2>1, <2>13
    <3>4. Sound(x, q, S) /\ SlotSet(x) = SlotSet(index) \cup {q}
      BY ONLY <2>6, <2>7, <3>1, <3>2, <3>3, n \in Nat, o \in Nat, Inserted
    <3>5. QED
      BY <1>6, <3>4
  <2>9. PICK B : B = A \cup {q}
    OBVIOUS
  <2>10. Later(S, B, Len(S))
    BY ONLY <1>7, <1>8, <2>9, GrownLater
  <2>11. ASSUME ~timedOut PROVE Chained(S) /\ AreLast(S, B, Len(S))
    <3>1. Chained(log) /\ AreLast(log, A, Len(log))
      BY <1>6, <2>11, InvSays
    <3>2. \A r \in 1..Len(log) : ~log[r].deleted /\ IsLast(log, Len(log), r) => log[r].key # S[q].key
      BY <1>5, <1>8, <2>2, <3>1 DEF AreLast
    <3>3. Chained(S)
      BY ONLY <1>7, <1>8, <3>1, <3>2, GrownChained
    <3>4. B = {r \in A : log[r].key # S[q].key} \cup {q}
      BY <1>5, <1>8, <2>2, <2>9
    <3>5. AreLast(S, B, Len(S))
      BY ONLY <1>7, <1>8, <3>1, <3>4, GrownLast
    <3>6. QED
      BY <3>3, <3>5
  <2>12. QED
    BY <1>3, <1>6, <1>8, <1>10, <2>13, <2>3, <2>8, <2>9, <2>10, <2>11
       DEF IInv, LogInv, LaterInv, CleanInv, ChainInv, LastInv
<1>11. QED
  BY <1>2, <1>9, <1>10

\* The record moves: the old one goes one version ahead, and its slot leads to
\* the new one, two versions ahead.
LEMMA MovedStep ==
    ASSUME IInv, NEW key \in Keys, NEW c, c = Search(index, key), c.found,
           NEW p, p = Slots(index)[c.order + 1],
           NEW M, Touched(log, M, p), ~M[p].deleted, NEW q, Grown(M, log', q),
           log'[q].key = key, ~IsOlder(log'[q], M[p]),
           Written(log', clock'), clock' \in 0..MaxTime,
           index' = SetIndexAt(index, c.order, q), timedOut' = timedOut
    PROVE  IInv'
<1>1. PICK S, A, B : S = log' /\ A = SlotSet(index) /\ B = (A \ {p}) \cup {q}
  OBVIOUS
<1>2. /\ log \in Seq(RecordType) /\ Len(log) \in Nat /\ Len(log) <= MaxRecords
      /\ Len(log) \in 0..Len(log) /\ A \in SUBSET (1..Len(log))
      /\ Sound(index, Len(log), log)
      /\ \A r \in A : r \in 1..Len(log) /\ ~log[r].deleted
  BY <1>1, InvSays
<1>3. /\ c.order \in Nat /\ c.order + 1 <= Count(index) /\ p \in A /\ p \in SlotSet(index)
      /\ p \in 1..Len(log) /\ log[p].key = key
      /\ \A r \in A : log[r].key = key => r = p
  BY <1>1, HasSlot
<1>4. /\ M \in Seq(RecordType) /\ Len(M) = Len(log)
      /\ Later(M, A, Len(M))
      /\ ~timedOut => Chained(M) /\ AreLast(M, A, Len(M))
      /\ \A r \in A : M[r].key = log[r].key /\ ~M[r].deleted
  <2>1. /\ M \in Seq(RecordType) /\ Len(M) = Len(log)
        /\ Later(M, SlotSet(index), Len(M))
        /\ ~timedOut => Chained(M) /\ AreLast(M, SlotSet(index), Len(M))
        /\ \A r \in SlotSet(index) : M[r].key = log[r].key /\ ~M[r].deleted
    BY <1>3, TouchedSlots
  <2>2. QED
    BY <1>1, <2>1
<1>5. Grown(M, S, q) /\ S[q].key = key /\ ~IsOlder(S[q], M[p]) /\ Written(S, clock')
  BY <1>1
<1>6. /\ S \in Seq(RecordType) /\ Len(S) = q /\ Len(S) <= MaxRecords /\ ~S[q].deleted
      /\ q = Len(log) + 1
      /\ \A i \in 1..Len(log) : S[i] = M[i]
  BY <1>4, <1>5 DEF Grown, Written
<1>7. A \in SUBSET (1..Len(M))
  BY <1>2, <1>4
<1>8. \A r \in A : M[r].key = key => r = p
  BY <1>3, <1>4
<1>9. PICK n \in Nat : n = Len(log) /\ n \in 0..Len(log) /\ q = n + 1 /\ q <= Len(S)
                       /\ n \in n..Len(S) /\ Len(log) <= Len(S)
  BY <1>2, <1>6
<1>10. Sound(index, n, S)
  <2>1. \A r \in SlotSet(index) : S[r].key = log[r].key /\ ~S[r].deleted
    BY <1>1, <1>2, <1>4, <1>6
  <2>2. n \in 0..Len(log) /\ n \in n..Len(S) /\ Len(log) <= Len(S) /\ Sound(index, n, log)
    BY <1>2, <1>9
  <2>3. S \in Seq(RecordType)
    BY <1>6
  <2>4. QED
    BY ONLY <1>2, <2>1, <2>2, <2>3, SoundKept
<1>11. PICK o \in Nat : o = c.order
  BY <1>3
<1>12. PICK x : x = SetIndexAt(index, o, q) /\ x = index'
  BY <1>11
<1>13. Sound(x, q, S) /\ SlotSet(x) = B
  <2>1. S \in Seq(RecordType) /\ Len(S) <= MaxRecords /\ ~S[q].deleted
    BY <1>6
  <2>2. q = n + 1 /\ q <= Len(S)
    BY <1>9
  <2>3. o + 1 <= Count(index) /\ p = Slots(index)[o + 1]
    BY <1>3, <1>11
  <2>4. S[q].key = S[p].key
    BY <1>3, <1>4, <1>5, <1>6
  <2>5. x = SetIndexAt(index, o, q)
    BY <1>12
  <2>6. Sound(x, q, S) /\ SlotSet(x) = (SlotSet(index) \ {p}) \cup {q}
    BY ONLY <1>10, <2>1, <2>2, <2>3, <2>4, <2>5, n \in Nat, o \in Nat, Replaced
  <2>7. QED
    BY <1>1, <2>6
<1>14. Later(S, B, Len(S))
  <2>1. B \subseteq A \cup {q}
    BY <1>1
  <2>2. QED
    BY ONLY <1>4, <1>5, <1>7, <2>1, GrownLater
<1>15. ASSUME ~timedOut PROVE Chained(S) /\ AreLast(S, B, Len(S))
  <2>1. Chained(M) /\ AreLast(M, A, Len(M))
    BY <1>4, <1>15
  <2>2. \A r \in 1..Len(M) : ~M[r].deleted /\ IsLast(M, Len(M), r) /\ M[r].key = S[q].key
                             => ~IsOlder(S[q], M[r])
    <3> TAKE r \in 1..Len(M)
    <3>1. HAVE ~M[r].deleted /\ IsLast(M, Len(M), r) /\ M[r].key = S[q].key
    <3>2. r \in A
      BY <2>1, <3>1 DEF AreLast
    <3>3. r = p
      BY <1>5, <1>8, <3>1, <3>2
    <3>4. QED
      BY <1>5, <3>3
  <2>3. Chained(S)
    BY ONLY <1>4, <1>5, <2>1, <2>2, GrownChained
  <2>4. B = {r \in A : M[r].key # S[q].key} \cup {q}
    BY <1>1, <1>3, <1>4, <1>5, <1>8
  <2>5. AreLast(S, B, Len(S))
    BY ONLY <1>4, <1>5, <1>7, <2>1, <2>4, GrownLast
  <2>6. QED
    BY <2>3, <2>5
<1>16. QED
  BY <1>1, <1>5, <1>6, <1>12, <1>13, <1>14, <1>15 DEF IInv, LogInv, LaterInv, CleanInv, ChainInv, LastInv

LEMMA SetMovedStep ==
    ASSUME IInv, NEW key \in Keys, SetMoved(key)
    PROVE  IInv'
<1>1. PICK c, p : c = Search(index, key) /\ p = Slots(index)[c.order + 1]
  OBVIOUS
<1>2. PICK v : v = log[p].version
  OBVIOUS
<1>3. PICK now \in Ticks :
         /\ c.found /\ Len(log) < MaxRecords /\ v + 4 <= MaxVersion /\ ReadClock(now)
         /\ \/ /\ log' = Append([log EXCEPT ![p].version = v + 2], Record(key, v + 4, now))
               /\ index' = SetIndexAt(index, c.order, Len(log) + 1)
               /\ timedOut' = timedOut
            \/ /\ log' = Append(log, Record(key, v + 4, now))
               /\ timedOut' = TRUE
               /\ index' = index
  BY <1>1, <1>2 DEF SetMoved, Bounded
<1>4. now \in Nat /\ clock \in Nat /\ clock <= now /\ clock' = now /\ clock' \in 0..MaxTime
  BY <1>3, TicksUp
<1>5. /\ p \in SlotSet(index) /\ p \in 1..Len(log) /\ log[p] \in RecordType /\ log[p].key = key
      /\ ~log[p].deleted /\ v \in 2..MaxVersion /\ log[p].time \in Nat /\ log[p].time <= clock
  BY <1>1, <1>2, <1>3, HasSlot
<1>6. /\ v \in Nat /\ v + 2 \in Nat /\ v + 4 \in Nat
      /\ v + 2 \in 2..MaxVersion /\ v + 4 \in 2..MaxVersion
  BY <1>3, <1>5, BoundsAreNatural
<1>7. PICK e : e = Record(key, v + 4, now)
  OBVIOUS
<1>8. Fresh(e, now) /\ e.key = key /\ e.version = v + 4 /\ e.time = now
  BY <1>4, <1>6, <1>7, RecordIs DEF Fresh
<1>9. PICK q, S : q = Len(log) + 1 /\ S = log'
  OBVIOUS
<1>10. Written(log, clock) /\ log \in Seq(RecordType)
  BY InvSays
<1>11. CASE log' = Append(log, Record(key, v + 4, now)) /\ timedOut' = TRUE /\ index' = index
  <2>1. S = WithNext(log, e)
    BY <1>7, <1>9, <1>11 DEF WithNext
  <2>2. q = Len(log) + 1 /\ Len(log) < MaxRecords /\ Written(log, clock)
    BY <1>3, <1>9, <1>10
  <2>3. Grown(log, S, q) /\ Written(S, now)
    BY ONLY <1>4, <1>8, <2>1, <2>2, AppendedIs
  <2>4. QED
    BY <1>4, <1>9, <1>11, <2>3, GrownStep
<1>12. CASE /\ log' = Append([log EXCEPT ![p].version = v + 2], Record(key, v + 4, now))
            /\ index' = SetIndexAt(index, c.order, Len(log) + 1)
            /\ timedOut' = timedOut
  <2>1. PICK d : d = [log[p] EXCEPT !.version = v + 2]
    OBVIOUS
  <2>2. /\ d \in RecordType /\ d.key = log[p].key /\ d.version = v + 2 /\ d.time = log[p].time
        /\ ~d.deleted
    <3>1. PICK r \in RecordType : r = log[p] /\ ~r.deleted
      BY <1>5
    <3>2. d = [r EXCEPT !.version = v + 2]
      BY <2>1, <3>1
    <3>3. QED
      BY <1>6, <3>1, <3>2 DEF RecordType
  <2>3. PICK M : M = WithRecord(log, p, d)
    OBVIOUS
  <2>4. d.version \in 2..MaxVersion /\ d.time <= now /\ ~IsOlder(d, log[p])
    BY <1>2, <1>4, <1>5, <1>6, <2>2 DEF IsOlder
  <2>5. Touched(log, M, p) /\ Written(M, now) /\ M[p] = d
    BY ONLY <1>4, <1>5, <1>10, <2>2, <2>3, <2>4, ChangedIs
  <2>6. Len(M) = Len(log)
    BY <2>5 DEF Touched
  <2>7. S = WithNext(M, e)
    BY <1>7, <1>9, <1>12, <2>1, <2>3 DEF WithNext, WithRecord
  <2>8. q = Len(M) + 1 /\ Len(M) < MaxRecords /\ Written(M, now) /\ now <= now
    BY <1>3, <1>4, <1>9, <2>5, <2>6
  <2>9. Grown(M, S, q) /\ Written(S, now) /\ S[q] = e
    BY ONLY <1>4, <1>8, <2>7, <2>8, AppendedIs
  <2>10. ~IsOlder(S[q], M[p])
    <3>1. ~IsOlder(e, d)
      BY <1>4, <1>5, <1>6, <1>8, <2>2 DEF IsOlder
    <3>2. QED
      BY <2>5, <2>9, <3>1
  <2>11. /\ Touched(log, M, p) /\ ~M[p].deleted /\ Grown(M, log', q) /\ log'[q].key = key
         /\ ~IsOlder(log'[q], M[p]) /\ Written(log', clock')
         /\ index' = SetIndexAt(index, c.order, q) /\ timedOut' = timedOut
    BY <1>4, <1>8, <1>9, <1>12, <2>2, <2>5, <2>9, <2>10
  <2>12. QED
    BY <1>1, <1>3, <1>4, <2>11, MovedStep
<1>13. QED
  BY <1>3, <1>11, <1>12

-----------------------------------------------------------------------------
(* The invariant, and what it says of every rebuild.                       *)

LEMMA InitHolds ==
    ASSUME Init
    PROVE  IInv
<1>1. log = <<>> /\ Len(log) = 0 /\ clock = 0 /\ log \in Seq(RecordType)
  BY DEF Init
<1>2. Written(log, 0) /\ LogInv
  BY <1>1, BoundsAreNatural DEF Written, LogInv
<1>3. index.begin = Room + 1 /\ index.end = Room + 1 /\ index \in IndexType(0)
  BY RoomIs DEF Init, IndexType, NoRecord
<1>4. Count(index) = 0 /\ 1..Count(index) = {}
  BY <1>3, RoomIs DEF Count
<1>5. SlotSet(index) = {}
  BY <1>4 DEF SlotSet
<1>6. Sound(index, Len(log), log)
  <2>1. Room + 1 - 0 <= index.begin /\ index.begin <= index.end /\ index.end <= Room + 1
    BY <1>3, RoomIs
  <2>2. QED
    BY <1>1, <1>3, <1>4, <2>1 DEF Sound
<1>7. Later(log, {}, 0) /\ AreLast(log, {}, 0) /\ Chained(log)
  BY <1>1 DEF Later, AreLast, Chained
<1>8. QED
  BY <1>1, <1>2, <1>5, <1>6, <1>7 DEF IInv, LaterInv, CleanInv, ChainInv, LastInv

LEMMA NextKeeps ==
    ASSUME IInv, [Next]_vars
    PROVE  IInv'
<1>1. CASE UNCHANGED vars
  BY <1>1 DEF vars, IInv, LogInv, LaterInv, CleanInv, ChainInv, LastInv
<1>2. CASE Rebuild
  BY <1>2, RebuildStep
<1>3. ASSUME NEW key \in Keys, SetNew(key) \/ SetInPlace(key) \/ SetMoved(key) \/ Delete(key)
      PROVE  IInv'
  BY <1>3, SetNewStep, SetInPlaceStep, SetMovedStep, DeleteStep
<1>4. QED
  BY <1>1, <1>2, <1>3 DEF Next

\* The invariant from which the properties of Rebuild follow: the slots are live
\* records, one of each key, in the order of the keys; a marked record behind one
\* of them is older; and when every call has run to its end they are the live
\* records that are the last of their key (SortedTable.c:849-937).
THEOREM RebuildInvariant == Spec => []IInv
BY InitHolds, NextKeeps, PTL DEF Spec

LEMMA TypesHold ==
    ASSUME IInv
    PROVE  TypeOK
<1>1. /\ log \in Seq(RecordType) /\ Len(log) \in Nat /\ DOMAIN log = 1..Len(log)
      /\ Sound(index, Len(log), log) /\ clock \in 0..MaxTime /\ Written(log, clock)
  BY InvSays, LenProperties DEF IInv, LogInv
<1>2. Inside(index) /\ index \in IndexType(Len(log)) /\ index.begin \in Nat /\ index.end \in Nat
  BY InvSays, SoundInside
<1>3. /\ index.memory \in [1..Room -> 0..Len(log)]
      /\ index.begin \in 1..(Room + 1) /\ index.end \in index.begin..(Room + 1)
  BY <1>2, RoomIs DEF IndexType, Inside
<1>4. \A i \in 1..Len(log) : log[i].time \in 0..MaxTime
  <2> TAKE i \in 1..Len(log)
  <2>1. log[i] \in RecordType /\ log[i].time <= clock
    BY <1>1, ElementOfSeq DEF Written
  <2>2. log[i].time \in Nat
    BY <2>1 DEF RecordType
  <2>3. QED
    BY <1>1, <2>1, <2>2, BoundsAreNatural
<1>5. \A i \in 1..Len(log) : log[i].version \in 2..MaxVersion
  BY <1>1 DEF Written
<1>6. QED
  BY <1>1, <1>3, <1>4, <1>5 DEF TypeOK

\* Every variable has its type: the slots of the table never leave the memory
\* that the index grows into, however often it is rebuilt.
THEOREM TypesAreKept == Spec => []TypeOK
BY RebuildInvariant, TypesHold, PTL

\* No slot ever leads to a record that is marked deleted, also after a rebuild
\* that has read records of calls that ended half way (SortedTable.c:887-913).
THEOREM NoSlotIsDeleted == Spec => []SlotsAreLive
<1>1. ASSUME IInv PROVE SlotsAreLive
  <2>1. Count(index) \in Nat /\ DOMAIN Slots(index) = 1..Count(index)
    BY <1>1, InvSays, SoundInside DEF Slots
  <2>2. \A i \in 1..Count(index) : ~log[Slots(index)[i]].deleted
    BY <1>1, InvSays DEF Sound
  <2>3. QED
    BY <2>1, <2>2 DEF SlotsAreLive
<1>2. QED
  BY RebuildInvariant, <1>1, PTL

LEMMA IsRebuildOnly ==
    ASSUME [Next]_vars, IsRebuild
    PROVE  Rebuild
BY DEF Next, vars, IsRebuild

\* As long as every call has run to its end, Rebuild writes exactly the slots
\* that were there, from the time stamps, the versions and the marks of the
\* records alone (SortedTable._Rebuild_RewriteIndexes).
THEOREM RebuildWritesTheSlots == Spec => RebuildIsExact
<1>1. ASSUME IInv, [Next]_vars PROVE [RebuildKeepsSlots]_vars
  <2> SUFFICES ASSUME IsRebuild, ~timedOut PROVE Slots(index') = Slots(index)
    BY DEF RebuildKeepsSlots
  <2>1. Rebuild
    BY <1>1, IsRebuildOnly
  <2>2. Loop(index', Len(log))
    BY <1>1, <2>1, RebuildLoop
  <2>3. PICK x, n : x = index' /\ n = Len(log)
    OBVIOUS
  <2>4. /\ Sound(x, n, log) /\ AreLast(log, SlotSet(x), n)
        /\ Sound(index, n, log) /\ AreLast(log, SlotSet(index), n)
    BY <1>1, <2>2, <2>3, InvSays DEF Loop
  <2>5. /\ SlotSet(x) \subseteq 1..n /\ SlotSet(index) \subseteq 1..n
        /\ n \in 0..Len(log) /\ log \in Seq(RecordType) /\ Len(log) <= MaxRecords
    BY <1>1, <2>3, <2>4, InvSays DEF Sound, SlotSet
  <2>6. SlotSet(x) = SlotSet(index)
    BY <2>4, <2>5 DEF AreLast
  <2>7. Slots(x) = Slots(index)
    BY ONLY <2>4, <2>5, <2>6, SortedUnique
  <2>8. QED
    BY <2>3, <2>7
<1>2. QED
  BY RebuildInvariant, <1>1, PTL DEF Spec, RebuildIsExact

\* Whatever calls have ended half way, Rebuild loses no key that the table has.
THEOREM RebuildKeepsEveryKey == Spec => RebuildLosesNoKey
<1>1. ASSUME IInv, [Next]_vars PROVE [RebuildKeepsKeys]_vars
  <2> SUFFICES ASSUME IsRebuild PROVE KeysOf(index, log) \subseteq KeysOf(index', log)
    BY <1>1, IsRebuildOnly DEF RebuildKeepsKeys, Rebuild
  <2>1. Rebuild
    BY <1>1, IsRebuildOnly
  <2>2. Loop(index', Len(log))
    BY <1>1, <2>1, RebuildLoop
  <2>3. PICK x, n : x = index' /\ n = Len(log)
    OBVIOUS
  <2>4. Sound(x, n, log) /\ Sound(index, n, log) /\ Keeps(SlotSet(x), n)
    BY <1>1, <2>2, <2>3, InvSays DEF Loop
  <2>5. /\ log \in Seq(RecordType) /\ Len(log) <= MaxRecords /\ n \in Nat /\ n \in 0..Len(log)
        /\ \A r \in SlotSet(index) : r \in 1..n
    BY <1>1, <2>3, InvSays
  <2>6. ToSet(Slots(index)) = SlotSet(index)
    <3>1. Count(index) \in Nat /\ DOMAIN Slots(index) = 1..Count(index)
      BY <2>4, <2>5, SoundInside DEF Slots
    <3>2. QED
      BY <3>1 DEF ToSet, SlotSet
  <2>7. ToSet(Slots(x)) = SlotSet(x)
    <3>1. Count(x) \in Nat /\ DOMAIN Slots(x) = 1..Count(x)
      BY <2>4, <2>5, SoundInside DEF Slots
    <3>2. QED
      BY <3>1 DEF ToSet, SlotSet
  <2>8. \A r \in SlotSet(index) : \E c \in SlotSet(x) : log[c].key = log[r].key
    BY <2>4, <2>5 DEF Keeps
  <2>9. QED
    BY <2>3, <2>6, <2>7, <2>8 DEF KeysOf
<1>2. QED
  BY RebuildInvariant, <1>1, PTL DEF Spec, RebuildLosesNoKey
=============================================================================
