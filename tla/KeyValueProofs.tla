--------------------------- MODULE KeyValueProofs ---------------------------
(***************************************************************************)
(* The record of module KeyValue is never seen in a mixed state, for all   *)
(* threads, sizes and widths of a byte. The argument: as long as no store  *)
(* has been made since a stable state (Untouched), the record is what that *)
(* state stands for, and a reader with its ticket has loaded what is there *)
(* (Loaded); a living writer is alone and has made the first k stores of   *)
(* its call (StoresInv), all of which make the value, the size and the     *)
(* checksum of one Set (AllStored).                                        *)
(***************************************************************************)
EXTENDS KeyValue, SequenceTheorems, TLAPS

WriterPC == {"locked", "write", "revert"}
ReaderPC == {"readTime", "readDeleted", "compareFirst", "compareSecond", "loadFirst", "loadSecond",
             "copy", "check", "got", "assertCopied"}
PC == WriterPC \cup ReaderPC \cup {"idle", "beginRead", "beginWrite", "wrote"}

Byte == [long : BOOLEAN, bits : Nat]
LowerPart == 0 .. (Base - 1)
Store ==
    [field : {"data"}, at : 1 .. Capacity, value : Nat]
    \cup [field : {"first"}, value : Byte] \cup [field : {"second"}, value : LowerPart]
    \cup [field : {"crc"}, value : Seq(Nat)] \cup [field : {"time"}, value : Nat]
    \cup [field : {"deleted"}, value : BOOLEAN]

Memory == [time : Nat, deleted : BOOLEAN, crc : Seq(Nat), first : Byte, second : LowerPart,
           data : [1 .. Capacity -> Nat]]
Locals == [call : {"none", "Get", "Clone", "Set", "Delete"}, enterTime : Nat, size : Nat,
           ticket : Nat, time : Nat, deleted : BOOLEAN, room : Int, first : Byte,
           copy : Seq(Int), stores : Seq(Store)]

\* Every variable has its type.
TypeInv ==
    /\ state \in Nat /\ clock \in Nat /\ alive \subseteq Thread
    /\ memory \in Memory
    /\ pc \in [Thread -> PC]
    /\ local \in [Thread -> Locals]

\* What the bytes of a record are however far a write has come.
SoundBytes(m) ==
    /\ ~m.first.long => m.first.bits < Short
    /\ m.first.long => Short <= Capacity
    /\ IsWhole(m.crc)
MemoryInv == SoundBytes(memory)

Writing(t) == t \in alive /\ pc[t] \in WriterPC

\* A living writer owns the state; nobody else writes.
WriterInv ==
    \A t \in Thread : Writing(t) =>
        /\ IsCorrupted(state) /\ local[t].ticket = state
        /\ \A u \in Thread : Writing(u) => u = t

\* The stable versions there have been, none of them ahead of the state.
HistoryInv == \A v \in DOMAIN published : v \in Nat /\ ~IsCorrupted(v) /\ v <= state

\* Nothing has been stored since the last stable state.
Untouched == ~IsCorrupted(state) \/ \E t \in Thread : t \in alive /\ pc[t] \in {"locked", "revert"}
LastStable == IF IsCorrupted(state) THEN state - 1 ELSE state

\* As long as that is so the record is what the last stable state stands for.
StableInv ==
    Untouched => /\ LastStable \in DOMAIN published
                 /\ published[LastStable] = Content(memory)
                 /\ ValueIn(memory) = memory.crc

\* The size is complete once its last store is made.
SizeCount(n) == IF n < Short THEN 1 ELSE 4

\* The first k stores of a Set of this time and size are made.
Stored(m, time, n, k) ==
    /\ \A i \in 1 .. n : i <= k => m.data[i] = time
    /\ n < Short /\ n + 1 <= k => m.first = ShortByte(n)
    /\ Short <= n /\ n + 2 <= k => m.second = n % Base
    /\ Short <= n /\ n + 4 <= k => m.first = LongByte(n \div Base)
    /\ n + SizeCount(n) + 1 <= k => m.crc = Value(time, n)
    /\ n + SizeCount(n) + 2 <= k => m.time = time

\* The stores that a writer has left are the rest of those of its call, and the
\* record holds the others.
StoresInv ==
    \A t \in Thread : Writing(t) /\ pc[t] = "write" =>
        /\ local[t].call = "Set" =>
            /\ local[t].size <= Capacity
            /\ ~memory.deleted
            /\ LET all == SetStores(local[t].enterTime, local[t].size)
               IN \E k \in 0 .. Len(all) :
                    /\ local[t].stores = SubSeq(all, k + 1, Len(all))
                    /\ Stored(memory, local[t].enterTime, local[t].size, k)
        /\ local[t].call = "Delete" =>
            /\ local[t].stores \in {DeleteStores, <<>>}
            /\ ValueIn(memory) = memory.crc

\* No store has been made since t began to read.
Fresh(t) == local[t].ticket = LastStable /\ Untouched

Total(m) == NumberIn(m.first, m.second)

\* Then what t has loaded is what is in the record.
Loaded(t) ==
    LET l == local[t]
    IN  /\ pc[t] # "assertCopied"
        /\ l.call = "Get" =>
            /\ pc[t] # "readTime" => l.time = memory.time
            /\ pc[t] \notin {"readTime", "readDeleted"} => l.deleted = memory.deleted
            /\ pc[t] \notin {"readTime", "readDeleted", "check", "got"} => ~l.deleted
        /\ l.call = "Clone" => l.room = -1 \/ l.room = SizeIn(memory)
        /\ pc[t] \in {"readTime", "readDeleted", "compareFirst", "compareSecond", "loadFirst",
                      "loadSecond"} => l.copy = <<>>
        /\ pc[t] = "compareSecond" => memory.first = CapacityFirst /\ memory.first.long
        /\ pc[t] \in {"loadFirst", "loadSecond"} => Total(memory) < Capacity
        /\ pc[t] = "loadSecond" => l.first = memory.first /\ memory.first.long
        /\ pc[t] = "copy" => /\ l.size = SizeIn(memory)
                             /\ Len(l.copy) <= l.size
                             /\ \A i \in 1 .. Len(l.copy) : l.copy[i] = memory.data[i]
        /\ pc[t] = "check" /\ (l.call = "Get" => ~l.deleted) => l.copy = ValueIn(memory)

\* What holds of the call of t, whatever the others do.
CallInv(t) ==
    /\ pc[t] \in WriterPC \cup {"beginWrite", "wrote"} => local[t].call \in {"Set", "Delete"}
    /\ pc[t] \in ReaderPC \cup {"beginRead"} => local[t].call \in {"Get", "Clone"}
    /\ pc[t] \in {"readTime", "readDeleted"} => local[t].call = "Get"
    /\ pc[t] \in ReaderPC => local[t].ticket \in DOMAIN published
    /\ pc[t] \in ReaderPC /\ Fresh(t) => Loaded(t)
    /\ pc[t] = "got" /\ local[t].call = "Get" =>
        LET version == published[local[t].ticket]
        IN  /\ local[t].time = version.time
            /\ local[t].deleted = version.deleted
            /\ local[t].deleted \/ local[t].copy = version.value
    /\ pc[t] = "wrote" /\ local[t].call = "Set" =>
        /\ local[t].ticket + 1 \in DOMAIN published
        /\ published[local[t].ticket + 1] =
                [time |-> local[t].enterTime, deleted |-> FALSE,
                 value |-> Value(local[t].enterTime, local[t].size)]

IInv ==
    /\ TypeInv
    /\ MemoryInv
    /\ WriterInv
    /\ HistoryInv
    /\ StableInv
    /\ StoresInv
    /\ \A t \in Thread : CallInv(t)

-----------------------------------------------------------------------------
(* The size and the value of a record, and the stores of a Set.            *)

\* A step of the state changes the corrupted bit.
LEMMA Parity ==
    ASSUME NEW n \in Int
    PROVE  /\ IsCorrupted(n + 1) <=> ~IsCorrupted(n)
           /\ IsCorrupted(n - 1) <=> ~IsCorrupted(n)
BY DEF IsCorrupted

\* A number is its upper part and its lower part.
LEMMA Parts ==
    ASSUME NEW n \in Nat
    PROVE  /\ n \div Base \in Nat /\ n % Base \in LowerPart
           /\ (n \div Base) * Base + (n % Base) = n
BY TwoBytes DEF LowerPart

\* The size that is read is never greater than the capacity.
LEMMA SizeBound ==
    ASSUME NEW m, m.first \in Byte, m.second \in LowerPart
    PROVE  /\ Total(m) \in Nat
           /\ SizeIn(m) \in 0 .. Capacity
           /\ SizeIn(m) = IF Total(m) < Capacity THEN Total(m) ELSE Capacity
<1>1. Total(m) \in Nat
  BY TwoBytes DEF Total, NumberIn, Byte, LowerPart
<1>2. QED
  BY <1>1, SizesAreNatural DEF SizeIn, Total

\* The value is the bytes up to that size.
LEMMA ValueBytes ==
    ASSUME NEW m, m.first \in Byte, m.second \in LowerPart, m.data \in [1 .. Capacity -> Nat]
    PROVE  /\ ValueIn(m) \in Seq(Nat)
           /\ Len(ValueIn(m)) = SizeIn(m)
           /\ \A i \in 1 .. SizeIn(m) : ValueIn(m)[i] = m.data[i]
           /\ ValueIn(m) = [i \in 1 .. SizeIn(m) |-> m.data[i]]
<1>1. SizeIn(m) \in 0 .. Capacity
  BY SizeBound
<1>2. \A i \in 1 .. SizeIn(m) : m.data[i] \in Nat
  BY <1>1, SizesAreNatural
<1>3. /\ ValueIn(m) \in Seq(Nat)
      /\ Len(ValueIn(m)) = SizeIn(m)
      /\ \A i \in 1 .. SizeIn(m) : ValueIn(m)[i] = m.data[i]
  BY <1>1, <1>2, SubSeqProperties DEF ValueIn
<1>4. QED
  BY <1>1, <1>3, LenProperties

\* A value is a sequence of one time.
LEMMA ValueIs ==
    ASSUME NEW time \in Nat, NEW n \in Nat
    PROVE  /\ Value(time, n) \in Seq(Nat)
           /\ IsWhole(Value(time, n))
BY DEF Value, IsWhole

\* The stores of a Set, one by one.
LEMMA SetStoresAre ==
    ASSUME NEW time \in Nat, NEW n \in 0 .. Capacity
    PROVE  LET all == SetStores(time, n)
               count == n + SizeCount(n)
           IN  /\ all \in Seq(Store)
               /\ Len(all) = count + 2
               /\ \A i \in 1 .. n : all[i] = [field |-> "data", at |-> i, value |-> time]
               /\ n < Short => all[n + 1] = [field |-> "first", value |-> ShortByte(n)]
               /\ Short <= n => /\ all[n + 1] = [field |-> "first", value |-> ShortByte(0)]
                                /\ all[n + 2] = [field |-> "second", value |-> n % Base]
                                /\ all[n + 3] = [field |-> "first", value |-> LongByte(0)]
                                /\ all[n + 4] = [field |-> "first", value |-> LongByte(n \div Base)]
               /\ all[count + 1] = [field |-> "crc", value |-> Value(time, n)]
               /\ all[count + 2] = [field |-> "time", value |-> time]
<1> DEFINE bytes == [i \in 1 .. n |-> [field |-> "data", at |-> i, value |-> time]]
           size == SizeStores(n)
           rest == <<[field |-> "crc", value |-> Value(time, n)],
                     [field |-> "time", value |-> time]>>
<1>1. n \in Nat /\ n \div Base \in Nat /\ n % Base \in LowerPart
  BY SizesAreNatural, Parts
<1>2. bytes \in Seq(Store) /\ Len(bytes) = n
  BY <1>1, SizesAreNatural DEF Store
<1>3. ShortByte(n) \in Byte /\ ShortByte(0) \in Byte /\ LongByte(0) \in Byte
      /\ LongByte(n \div Base) \in Byte
  BY <1>1 DEF Byte, ShortByte, LongByte
<1>4. /\ size \in Seq(Store) /\ Len(size) = SizeCount(n)
      /\ n < Short => size[1] = [field |-> "first", value |-> ShortByte(n)]
      /\ Short <= n => /\ size[1] = [field |-> "first", value |-> ShortByte(0)]
                       /\ size[2] = [field |-> "second", value |-> n % Base]
                       /\ size[3] = [field |-> "first", value |-> LongByte(0)]
                       /\ size[4] = [field |-> "first", value |-> LongByte(n \div Base)]
  <2>1. CASE n < Short
    <3>1. size = <<[field |-> "first", value |-> ShortByte(n)]>>
      BY <2>1 DEF SizeStores
    <3>2. [field |-> "first", value |-> ShortByte(n)] \in Store
      BY <1>3 DEF Store
    <3>3. QED
      BY <1>1, <2>1, <3>1, <3>2, TwoBytes DEF SizeCount
  <2>2. CASE Short <= n
    <3>1. size = <<[field |-> "first", value |-> ShortByte(0)],
                   [field |-> "second", value |-> n % Base],
                   [field |-> "first", value |-> LongByte(0)],
                   [field |-> "first", value |-> LongByte(n \div Base)]>>
      BY <1>1, <2>2, TwoBytes DEF SizeStores
    <3>2. /\ [field |-> "first", value |-> ShortByte(0)] \in Store
          /\ [field |-> "second", value |-> n % Base] \in Store
          /\ [field |-> "first", value |-> LongByte(0)] \in Store
          /\ [field |-> "first", value |-> LongByte(n \div Base)] \in Store
      BY <1>1, <1>3 DEF Store
    <3>3. QED
      BY <1>1, <2>2, <3>1, <3>2, TwoBytes DEF SizeCount
  <2>3. QED
    BY <1>1, <2>1, <2>2, TwoBytes
<1>5. rest \in Seq(Store) /\ Len(rest) = 2
  <2>1. [field |-> "crc", value |-> Value(time, n)] \in Store
    BY <1>1, ValueIs DEF Store
  <2>2. [field |-> "time", value |-> time] \in Store
    BY DEF Store
  <2>3. QED
    BY <2>1, <2>2
<1>6. SizeCount(n) \in {1, 4} /\ (n < Short => SizeCount(n) = 1) /\ (Short <= n => SizeCount(n) = 4)
  BY <1>1, TwoBytes DEF SizeCount
<1> DEFINE front == bytes \o size
<1>7. /\ front \in Seq(Store) /\ Len(front) = n + SizeCount(n)
      /\ \A i \in 1 .. (n + SizeCount(n)) : front[i] = IF i <= n THEN bytes[i] ELSE size[i - n]
  <2> HIDE DEF bytes, size
  <2>1. /\ front \in Seq(Store) /\ Len(front) = Len(bytes) + Len(size)
        /\ \A i \in 1 .. Len(bytes) + Len(size) :
              front[i] = IF i <= Len(bytes) THEN bytes[i] ELSE size[i - Len(bytes)]
    BY <1>2, <1>4, ConcatProperties
  <2> HIDE DEF front
  <2>2. QED
    BY <1>2, <1>4, <2>1
<1>8. /\ SetStores(time, n) \in Seq(Store) /\ Len(SetStores(time, n)) = n + SizeCount(n) + 2
      /\ \A i \in 1 .. (n + SizeCount(n) + 2) : SetStores(time, n)[i] =
                IF i <= n + SizeCount(n) THEN front[i] ELSE rest[i - (n + SizeCount(n))]
  <2>1. SetStores(time, n) = front \o rest
    BY DEF SetStores
  <2> HIDE DEF front, rest
  <2>2. /\ front \o rest \in Seq(Store) /\ Len(front \o rest) = Len(front) + Len(rest)
        /\ \A i \in 1 .. Len(front) + Len(rest) :
              (front \o rest)[i] = IF i <= Len(front) THEN front[i] ELSE rest[i - Len(front)]
    BY <1>5, <1>7, ConcatProperties
  <2>3. QED
    BY <1>5, <1>7, <2>1, <2>2
<1>9. \A i \in 1 .. n : SetStores(time, n)[i] = [field |-> "data", at |-> i, value |-> time]
  <2>1. \A i \in 1 .. n : SetStores(time, n)[i] = bytes[i]
    <3> HIDE DEF bytes, front, size
    <3>1. QED
      BY <1>1, <1>6, <1>7, <1>8
  <2>2. QED
    BY <2>1
<1>10. \A i \in 1 .. SizeCount(n) : SetStores(time, n)[n + i] = size[i]
  <2> HIDE DEF bytes, front, size, rest
  <2>1. QED
    BY <1>1, <1>6, <1>7, <1>8
<1>11. \A i \in 1 .. 2 : SetStores(time, n)[n + SizeCount(n) + i] = rest[i]
  <2> HIDE DEF bytes, front, size, rest
  <2>1. QED
    BY <1>1, <1>6, <1>7, <1>8
<1>12. QED
  <2> HIDE DEF bytes, front, size
  <2>1. QED
    BY <1>4, <1>6, <1>8, <1>9, <1>10, <1>11

-----------------------------------------------------------------------------
(* The inductive invariant.                                                *)

\* A thread that does nothing has the type of the others.
LEMMA NoLocalsAre == NoLocals \in Locals
BY DEF NoLocals, ShortByte, Byte, Locals

\* A step of t keeps the types if what it assigns has them.
LEMMA TypeStep ==
    ASSUME TypeInv, NEW t \in Thread, NEW label \in PC, NEW new \in Locals,
           pc' = [pc EXCEPT ![t] = label], local' = [local EXCEPT ![t] = new],
           state' \in Nat, clock' \in Nat, alive' \subseteq Thread, memory' \in Memory
    PROVE  /\ TypeInv' /\ pc'[t] = label /\ local'[t] = new
           /\ \A u \in Thread \ {t} : pc'[u] = pc[u] /\ local'[u] = local[u]
BY DEF TypeInv

\* The initial states satisfy it.
LEMMA InitIInv == Init => IInv
<1> SUFFICES ASSUME Init PROVE IInv
  OBVIOUS
<1>1. Value(0, Capacity) \in Seq(Nat) /\ Value(0, Capacity) \in [1 .. Capacity -> Nat]
  BY SizesAreNatural, ValueIs DEF Value
<1>2. CapacityFirst \in Byte /\ CapacitySecond \in LowerPart
  BY SizesAreNatural, Parts DEF CapacityFirst, CapacitySecond, ShortByte, LongByte, Byte
<1>3. NoLocals \in Locals
  BY NoLocalsAre
<1>4. TypeInv
  BY <1>1, <1>2, <1>3 DEF Init, TypeInv, FirstVersion, PC, Memory
<1>5. Total(memory) = Capacity
  BY SizesAreNatural, TwoBytes, Parts
  DEF Init, Total, NumberIn, CapacityFirst, CapacitySecond, ShortByte, LongByte
<1>6. SizeIn(memory) = Capacity
  BY <1>4, <1>5, SizeBound, SizesAreNatural DEF TypeInv, Memory
<1>7. ValueIn(memory) = Value(0, Capacity)
  <2>1. ValueIn(memory) = [i \in 1 .. Capacity |-> memory.data[i]]
    BY <1>4, <1>6, ValueBytes DEF TypeInv, Memory
  <2>2. memory.data = [i \in 1 .. Capacity |-> 0]
    BY DEF Init, Value
  <2>3. QED
    BY <2>1, <2>2 DEF Value
<1>8. MemoryInv
  BY SizesAreNatural, TwoBytes, ValueIs
  DEF Init, MemoryInv, SoundBytes, CapacityFirst, ShortByte, LongByte
<1>9. ~IsCorrupted(state) /\ state = FirstVersion
  BY DEF Init, IsCorrupted, FirstVersion
<1>10. WriterInv /\ StoresInv /\ \A t \in Thread : CallInv(t)
  BY DEF Init, WriterInv, StoresInv, CallInv, Writing, WriterPC, ReaderPC
<1>11. HistoryInv
  BY <1>9 DEF Init, HistoryInv, FirstVersion
<1>12. StableInv
  BY <1>7, <1>9 DEF Init, StableInv, LastStable
<1>13. QED
  BY <1>4, <1>8, <1>10, <1>11, <1>12 DEF IInv

\* A step of t that changes nothing but what is its own, outside of a write
\* session, keeps the invariant as soon as the new locals of t agree with it.
LEMMA LocalStep ==
    ASSUME IInv, NEW t \in Thread, TypeInv',
           UNCHANGED <<state, memory, alive, published>>,
           \A u \in Thread \ {t} : pc'[u] = pc[u] /\ local'[u] = local[u],
           pc[t] \notin WriterPC, pc'[t] \notin WriterPC, CallInv(t)'
    PROVE  IInv'
<1>1. \A u \in Thread : Writing(u)' <=> Writing(u)
  BY DEF Writing
<1>2. \A u \in Thread : Writing(u) => u # t /\ pc'[u] = pc[u] /\ local'[u] = local[u]
  BY DEF Writing
<1>3. MemoryInv' /\ HistoryInv'
  BY DEF IInv, MemoryInv, HistoryInv
<1>4. WriterInv'
  BY <1>1, <1>2 DEF IInv, WriterInv
<1>5. Untouched' <=> Untouched
  <2>1. \A u \in Thread : pc'[u] \in {"locked", "revert"} <=> pc[u] \in {"locked", "revert"}
    BY DEF WriterPC
  <2>2. QED
    BY <2>1 DEF Untouched
<1>6. StableInv'
  BY <1>5 DEF IInv, StableInv, LastStable, Content
<1>7. StoresInv'
  <2>1. ValueIn(memory)' = ValueIn(memory)
    OBVIOUS
  <2>2. StoresInv
    BY DEF IInv
  <2>3. QED
    BY <1>1, <1>2, <2>1, <2>2 DEF StoresInv
<1>8. ASSUME NEW u \in Thread \ {t} PROVE CallInv(u)'
  <2>1. Fresh(u)' <=> Fresh(u)
    BY <1>5 DEF Fresh, LastStable
  <2>2. Loaded(u)' <=> Loaded(u)
    BY DEF Loaded
  <2>3. QED
    BY <2>1, <2>2 DEF IInv, CallInv
<1>9. QED
  BY <1>3, <1>4, <1>6, <1>7, <1>8 DEF IInv

-----------------------------------------------------------------------------
(* The steps of a reader.                                                  *)

\* The locals of a thread, field by field.
LEMMA LocalsOf ==
    ASSUME TypeInv, NEW t \in Thread
    PROVE  /\ local[t] \in Locals /\ pc[t] \in PC
           /\ local[t].call \in {"none", "Get", "Clone", "Set", "Delete"}
           /\ local[t].enterTime \in Nat /\ local[t].size \in Nat /\ local[t].ticket \in Nat
           /\ local[t].time \in Nat /\ local[t].deleted \in BOOLEAN /\ local[t].room \in Int
           /\ local[t].first \in Byte /\ local[t].copy \in Seq(Int)
           /\ local[t].stores \in Seq(Store)
<1>1. local[t] \in Locals /\ pc[t] \in PC
  BY DEF TypeInv
<1>2. QED
  BY <1>1 DEF Locals

\* The parts of the record.
LEMMA MemoryIs ==
    ASSUME TypeInv
    PROVE  /\ memory.time \in Nat /\ memory.deleted \in BOOLEAN /\ memory.crc \in Seq(Nat)
           /\ memory.first \in Byte /\ memory.first.long \in BOOLEAN /\ memory.first.bits \in Nat
           /\ memory.second \in LowerPart /\ memory.second \in 0 .. (Base - 1)
           /\ memory.data \in [1 .. Capacity -> Nat]
BY DEF TypeInv, Memory, Byte, LowerPart

\* An idle thread has nothing to answer for.
LEMMA IdleStep ==
    ASSUME IInv, NEW t \in Thread, pc[t] \notin WriterPC,
           Goto(t, "idle"), local' = [local EXCEPT ![t] = NoLocals],
           UNCHANGED <<state, memory, clock, alive, published>>
    PROVE  IInv'
<1>1. /\ TypeInv' /\ pc'[t] = "idle"
      /\ \A u \in Thread \ {t} : pc'[u] = pc[u] /\ local'[u] = local[u]
  <2>1. "idle" \in PC
    BY DEF PC
  <2>2. state' \in Nat /\ clock' \in Nat /\ alive' \subseteq Thread /\ memory' \in Memory
    BY DEF IInv, TypeInv
  <2>3. QED
    BY <2>1, <2>2, NoLocalsAre, TypeStep DEF IInv, Goto
<1>2. CallInv(t)'
  BY <1>1 DEF CallInv, WriterPC, ReaderPC
<1>3. QED
  BY <1>1, <1>2, LocalStep DEF WriterPC

\* A call starts.
LEMMA CallStep == ASSUME IInv, NEW t \in Thread, Call(t), UNCHANGED alive PROVE IInv'
<1>1. /\ pc[t] = "idle" /\ TypeInv
      /\ UNCHANGED <<state, memory, alive, published>>
      /\ memory' \in Memory /\ state' \in Nat /\ alive' \subseteq Thread
  BY DEF Call, IInv, TypeInv
<1>2. PICK label \in {"beginRead", "beginWrite"}, new \in Locals :
          /\ pc' = [pc EXCEPT ![t] = label]
          /\ local' = [local EXCEPT ![t] = new]
          /\ clock' \in Nat
          /\ new.call \in IF label = "beginRead" THEN {"Get", "Clone"} ELSE {"Set", "Delete"}
  <2>1. local[t] \in Locals
    BY <1>1, LocalsOf
  <2>2. CASE \E call \in {"Get", "Clone"} :
                /\ local' = [local EXCEPT ![t].call = call]
                /\ Goto(t, "beginRead")
                /\ UNCHANGED clock
    <3>1. PICK call \in {"Get", "Clone"} :
                /\ local' = [local EXCEPT ![t] = [local[t] EXCEPT !.call = call]]
                /\ pc' = [pc EXCEPT ![t] = "beginRead"]
                /\ UNCHANGED clock
      BY <2>2 DEF Goto
    <3>2. [local[t] EXCEPT !.call = call] \in Locals /\ [local[t] EXCEPT !.call = call].call = call
      BY <2>1 DEF Locals
    <3>3. clock' \in Nat
      BY <1>1, <3>1 DEF TypeInv
    <3>4. QED
      BY <3>1, <3>2, <3>3
  <2>3. CASE \E call \in {"Set", "Delete"}, size \in Sizes \cup {0} :
                /\ clock' = clock + 1
                /\ local' = [local EXCEPT ![t].call = call, ![t].size = size, ![t].enterTime = clock']
                /\ Goto(t, "beginWrite")
    <3>1. PICK call \in {"Set", "Delete"}, size \in Sizes \cup {0} :
                /\ clock' = clock + 1
                /\ local' = [local EXCEPT ![t].call = call, ![t].size = size, ![t].enterTime = clock']
                /\ pc' = [pc EXCEPT ![t] = "beginWrite"]
      BY <2>3 DEF Goto
    <3>2. size \in Nat /\ clock' \in Nat
      BY <1>1, <3>1, SizesAreNatural DEF TypeInv
    <3> DEFINE new == [local[t] EXCEPT !.call = call, !.size = size, !.enterTime = clock']
    <3>3. new \in Locals /\ new.call = call
      BY <2>1, <3>2 DEF Locals
    <3>4. local' = [local EXCEPT ![t] = new]
      BY <1>1, <3>1 DEF TypeInv
    <3>5. QED
      BY <3>1, <3>2, <3>3, <3>4
  <2>4. QED
    BY <2>2, <2>3 DEF Call
<1>3. /\ TypeInv' /\ pc'[t] = label /\ local'[t] = new
      /\ \A u \in Thread \ {t} : pc'[u] = pc[u] /\ local'[u] = local[u]
  <2>1. label \in PC
    BY DEF PC
  <2>2. QED
    BY <1>1, <1>2, <2>1, TypeStep
<1>4. CallInv(t)'
  BY <1>2, <1>3 DEF CallInv, WriterPC, ReaderPC
<1>5. QED
  BY <1>1, <1>3, <1>4, LocalStep DEF WriterPC

\* The state is stable when a reader takes its ticket.
LEMMA BeginReadStep == ASSUME IInv, NEW t \in Thread, BeginRead(t), UNCHANGED alive PROVE IInv'
<1> DEFINE new == [local[t] EXCEPT !.ticket = state, !.room = -1, !.copy = <<>>]
           label == IF local[t].call = "Get" THEN "readTime" ELSE "compareFirst"
<1>1. /\ pc[t] = "beginRead" /\ ~IsCorrupted(state) /\ TypeInv
      /\ pc' = [pc EXCEPT ![t] = label]
      /\ UNCHANGED <<state, memory, clock, alive, published>>
      /\ memory' \in Memory /\ state' \in Nat /\ alive' \subseteq Thread /\ clock' \in Nat
  BY DEF BeginRead, IInv, TypeInv, Goto
<1>2. local' = [local EXCEPT ![t] = new]
  BY <1>1 DEF BeginRead, TypeInv
<1>3. local[t].call \in {"Get", "Clone"}
  BY <1>1 DEF IInv, CallInv
<1>4. new \in Locals /\ new.ticket = state /\ new.room = -1 /\ new.copy = <<>>
      /\ new.call = local[t].call
  <2>1. <<>> \in Seq(Int) /\ state \in Nat /\ -1 \in Int
    BY <1>1 DEF TypeInv
  <2>2. QED
    BY <1>1, <2>1, LocalsOf DEF Locals
<1>5. label \in PC \cap ReaderPC
  BY DEF PC, ReaderPC
<1>6. /\ TypeInv' /\ pc'[t] = label /\ local'[t] = new
      /\ \A u \in Thread \ {t} : pc'[u] = pc[u] /\ local'[u] = local[u]
  BY <1>1, <1>2, <1>4, <1>5, TypeStep
<1>7. state \in DOMAIN published
  BY <1>1 DEF IInv, StableInv, Untouched, LastStable
<1>8. Loaded(t)'
  BY <1>3, <1>4, <1>6 DEF Loaded
<1>9. CallInv(t)'
  <2>1. pc'[t] \in {"readTime", "compareFirst"}
    BY <1>6
  <2>2. local'[t].call \in {"Get", "Clone"} /\ local'[t].ticket \in DOMAIN published'
    BY <1>1, <1>3, <1>4, <1>6, <1>7
  <2>3. pc'[t] = "readTime" => local'[t].call = "Get"
    BY <1>3, <1>4, <1>6
  <2>4. pc'[t] \notin WriterPC \cup {"beginWrite", "wrote", "got", "readDeleted"}
    BY <2>1 DEF WriterPC
  <2>5. QED
    BY <1>8, <2>1, <2>2, <2>3, <2>4 DEF CallInv
<1>10. QED
  <2>1. pc[t] \notin WriterPC /\ pc'[t] \notin WriterPC
    BY <1>1, <1>6 DEF WriterPC
  <2>2. QED
    BY <1>1, <1>6, <1>9, <2>1, LocalStep

\* A reader stays fresh as long as it keeps its ticket and the record is as it was.
LEMMA FreshStays ==
    ASSUME TypeInv, NEW t \in Thread, UNCHANGED <<state, alive>>, local'[t].ticket = local[t].ticket,
           pc[t] \notin WriterPC, pc'[t] \notin WriterPC,
           \A u \in Thread \ {t} : pc'[u] = pc[u]
    PROVE  Fresh(t)' <=> Fresh(t)
<1>1. \A u \in Thread : pc'[u] \in {"locked", "revert"} <=> pc[u] \in {"locked", "revert"}
  BY DEF WriterPC
<1>2. QED
  BY <1>1 DEF Fresh, Untouched, LastStable

\* A step of a reader between two of its loads.
LEMMA LoadStep ==
    ASSUME IInv, NEW t \in Thread, TypeInv',
           UNCHANGED <<state, memory, alive, published>>,
           \A u \in Thread \ {t} : pc'[u] = pc[u] /\ local'[u] = local[u],
           pc[t] \in ReaderPC, pc'[t] \in ReaderPC \ {"got"},
           local'[t].call = local[t].call, local'[t].ticket = local[t].ticket,
           pc'[t] \in {"readTime", "readDeleted"} => local[t].call = "Get",
           Fresh(t) /\ Loaded(t) => Loaded(t)'
    PROVE  IInv'
<1>1. pc[t] \notin WriterPC /\ pc'[t] \notin WriterPC
  BY DEF WriterPC, ReaderPC
<1>2. Fresh(t)' <=> Fresh(t)
  BY <1>1, FreshStays DEF IInv
<1>3. CallInv(t)'
  <2>1. CallInv(t)
    BY DEF IInv
  <2>2. local'[t].call \in {"Get", "Clone"} /\ local'[t].ticket \in DOMAIN published'
    BY <2>1 DEF CallInv
  <2>3. Fresh(t)' => Loaded(t)'
    BY <1>2, <2>1 DEF CallInv
  <2>4. pc'[t] # "got" /\ pc'[t] # "wrote" /\ pc'[t] # "beginWrite"
    BY DEF ReaderPC
  <2>5. QED
    BY <1>1, <2>2, <2>3, <2>4 DEF CallInv
<1>4. QED
  BY <1>1, <1>3, LocalStep

\* The time of the value is loaded.
LEMMA ReadTimeStep == ASSUME IInv, NEW t \in Thread, ReadTime(t), UNCHANGED alive PROVE IInv'
<1> DEFINE new == [local[t] EXCEPT !.time = memory.time]
<1>1. /\ pc[t] = "readTime" /\ TypeInv
      /\ pc' = [pc EXCEPT ![t] = "readDeleted"]
      /\ local' = [local EXCEPT ![t] = new]
      /\ UNCHANGED <<state, memory, clock, alive, published>>
      /\ memory' \in Memory /\ state' \in Nat /\ alive' \subseteq Thread /\ clock' \in Nat
  BY DEF ReadTime, IInv, TypeInv, Keep, Goto
<1>2. new \in Locals
  BY <1>1, LocalsOf, MemoryIs DEF Locals
<1>3. "readDeleted" \in PC
  BY DEF PC, ReaderPC
<1>4. /\ TypeInv' /\ pc'[t] = "readDeleted" /\ local'[t] = new
      /\ \A u \in Thread \ {t} : pc'[u] = pc[u] /\ local'[u] = local[u]
  BY <1>1, <1>2, <1>3, TypeStep
<1>5. new.time = memory.time /\ \A f \in {"call", "copy", "room", "ticket"} : new[f] = local[t][f]
  BY <1>1, LocalsOf DEF Locals
<1>6. Loaded(t) => Loaded(t)'
  BY <1>1, <1>4, <1>5 DEF Loaded
<1>7. pc[t] \in ReaderPC /\ pc'[t] \in ReaderPC \ {"got"} /\ local[t].call = "Get"
  BY <1>1, <1>4 DEF ReaderPC, IInv, CallInv
<1>8. QED
  BY <1>1, <1>4, <1>5, <1>6, <1>7, LoadStep

\* The mark of a deleted record is loaded.
LEMMA ReadDeletedStep == ASSUME IInv, NEW t \in Thread, ReadDeleted(t), UNCHANGED alive PROVE IInv'
<1> DEFINE new == [local[t] EXCEPT !.deleted = memory.deleted]
           label == IF memory.deleted THEN "check" ELSE "compareFirst"
<1>1. /\ pc[t] = "readDeleted" /\ TypeInv
      /\ pc' = [pc EXCEPT ![t] = label]
      /\ local' = [local EXCEPT ![t] = new]
      /\ UNCHANGED <<state, memory, clock, alive, published>>
      /\ memory' \in Memory /\ state' \in Nat /\ alive' \subseteq Thread /\ clock' \in Nat
  BY DEF ReadDeleted, IInv, TypeInv, Keep, Goto
<1>2. new \in Locals
  BY <1>1, LocalsOf, MemoryIs DEF Locals
<1>3. label \in PC /\ label \in ReaderPC \ {"got"} /\ pc[t] \in ReaderPC
  BY <1>1 DEF PC, ReaderPC
<1>4. /\ TypeInv' /\ pc'[t] = label /\ local'[t] = new
      /\ \A u \in Thread \ {t} : pc'[u] = pc[u] /\ local'[u] = local[u]
  BY <1>1, <1>2, <1>3, TypeStep
<1>5. /\ new.deleted = memory.deleted
      /\ \A f \in {"call", "copy", "room", "ticket", "time"} : new[f] = local[t][f]
  BY <1>1, LocalsOf DEF Locals
<1>6. local[t].call = "Get"
  BY <1>1 DEF IInv, CallInv
<1>7. Loaded(t) => Loaded(t)'
  <2> HIDE DEF new
  <2>1. QED
    BY <1>1, <1>4, <1>5, <1>6 DEF Loaded
<1>8. QED
  <2> HIDE DEF new
  <2>1. QED
    BY <1>1, <1>3, <1>4, <1>5, <1>7, LoadStep

\* The size that SizeBuffer.Size has come to is used: for the room of a clone
\* or for the copy.
LEMMA UseSizeStep ==
    ASSUME IInv, NEW t \in Thread, NEW size \in Nat, UseSize(t, size), UNCHANGED alive,
           pc[t] \in {"compareFirst", "compareSecond", "loadFirst", "loadSecond"},
           Fresh(t) => size = SizeIn(memory)
    PROVE  IInv'
<1>1. /\ TypeInv /\ pc[t] \in ReaderPC
      /\ UNCHANGED <<state, memory, clock, alive, published>>
      /\ memory' \in Memory /\ state' \in Nat /\ alive' \subseteq Thread /\ clock' \in Nat
  BY DEF UseSize, IInv, TypeInv, ReaderPC
<1>2. local[t].call \in {"Get", "Clone"} /\ (Fresh(t) => Loaded(t))
  BY <1>1 DEF IInv, CallInv
<1>3. CASE local[t].call = "Clone" /\ local[t].room < 0
  <2> DEFINE new == [local[t] EXCEPT !.room = size]
  <2>1. /\ pc' = [pc EXCEPT ![t] = "compareFirst"]
        /\ local' = [local EXCEPT ![t] = new]
    BY <1>3 DEF UseSize, Keep, Goto
  <2>2. new \in Locals /\ "compareFirst" \in PC /\ "compareFirst" \in ReaderPC \ {"got"}
    <3>1. local[t] \in Locals /\ size \in Int
      BY <1>1, LocalsOf
    <3>2. new \in Locals
      BY <3>1 DEF Locals
    <3>3. QED
      BY <3>2 DEF PC, ReaderPC
  <2>3. /\ TypeInv' /\ pc'[t] = "compareFirst" /\ local'[t] = new
        /\ \A u \in Thread \ {t} : pc'[u] = pc[u] /\ local'[u] = local[u]
    BY <1>1, <2>1, <2>2, TypeStep
  <2>4. new.room = size /\ \A f \in {"call", "copy", "ticket"} : new[f] = local[t][f]
    BY <1>1, LocalsOf DEF Locals
  <2> HIDE DEF new
  <2>5. Fresh(t) /\ Loaded(t) => Loaded(t)'
    <3>1. SizeIn(memory)' = SizeIn(memory)
      BY <1>1
    <3>2. QED
      BY <1>1, <1>3, <2>3, <2>4, <3>1 DEF Loaded
  <2>6. QED
    BY <1>1, <2>2, <2>3, <2>4, <2>5, LoadStep
<1>4. CASE ~(local[t].call = "Clone" /\ local[t].room < 0)
  <2> DEFINE new == [local[t] EXCEPT !.size = size]
             label == IF local[t].call = "Clone" /\ local[t].room < size THEN "assertCopied" ELSE "copy"
  <2>1. /\ pc' = [pc EXCEPT ![t] = label]
        /\ local' = [local EXCEPT ![t] = new]
    BY <1>4 DEF UseSize, Keep, Goto
  <2>2. new \in Locals /\ label \in PC /\ label \in ReaderPC \ {"got"}
    BY <1>1, LocalsOf DEF Locals, PC, ReaderPC
  <2>3. /\ TypeInv' /\ pc'[t] = label /\ local'[t] = new
        /\ \A u \in Thread \ {t} : pc'[u] = pc[u] /\ local'[u] = local[u]
    BY <1>1, <2>1, <2>2, TypeStep
  <2>4. /\ new.size = size
        /\ \A f \in {"call", "copy", "ticket", "time", "deleted", "room"} : new[f] = local[t][f]
    BY <1>1, LocalsOf DEF Locals
  <2>5. Fresh(t) /\ Loaded(t) => label = "copy"
    <3>1. ASSUME Fresh(t), Loaded(t), local[t].call = "Clone" PROVE local[t].room = size
      BY <1>1, <1>4, <3>1, LocalsOf DEF Loaded
    <3>2. QED
      BY <3>1
  <2>6. label # "readTime" /\ label # "readDeleted"
    OBVIOUS
  <2> HIDE DEF new, label
  <2>7. Fresh(t) /\ Loaded(t) => Loaded(t)'
    <3>1. SUFFICES ASSUME Fresh(t), Loaded(t) PROVE Loaded(t)'
      OBVIOUS
    <3>2. SizeIn(memory)' = SizeIn(memory) /\ pc'[t] = "copy" /\ local'[t].copy = <<>>
      BY <1>1, <2>3, <2>4, <2>5, <3>1 DEF Loaded
    <3>3. QED
      BY <1>1, <2>3, <2>4, <3>1, <3>2 DEF Loaded
  <2>8. QED
    BY <1>1, <2>2, <2>3, <2>4, <2>6, <2>7, LoadStep
<1>5. QED
  BY <1>3, <1>4

\* A load that only moves on.
LEMMA MoveStep ==
    ASSUME IInv, NEW t \in Thread, NEW label \in {"loadFirst", "compareSecond"}, pc' = [pc EXCEPT ![t] = label],
           UNCHANGED <<state, memory, clock, local, published, alive>>,
           pc[t] \in {"compareFirst", "compareSecond", "loadFirst"},
           Fresh(t) => IF label = "loadFirst" THEN Total(memory) < Capacity
                       ELSE memory.first = CapacityFirst /\ memory.first.long
    PROVE  IInv'
<1>1. TypeInv /\ pc[t] \in ReaderPC /\ label \in PC /\ label \in ReaderPC \ {"got"}
  BY DEF IInv, ReaderPC, PC
<1>2. /\ TypeInv' /\ pc'[t] = label
      /\ \A u \in Thread \ {t} : pc'[u] = pc[u] /\ local'[u] = local[u]
  BY <1>1 DEF TypeInv
<1>3. Fresh(t) /\ Loaded(t) => Loaded(t)'
  <2>1. Total(memory)' = Total(memory)
    OBVIOUS
  <2>2. QED
    BY <1>2, <2>1 DEF Loaded
<1>4. QED
  BY <1>1, <1>2, <1>3, LoadStep

\* Comparing the first bytes is enough unless they are equal and long.
LEMMA FirstBytes ==
    ASSUME IInv
    PROVE  /\ IsLess(memory.first, CapacityFirst) => Total(memory) < Capacity
           /\ IsLess(CapacityFirst, memory.first) => Total(memory) >= Capacity
           /\ memory.first = CapacityFirst /\ ~memory.first.long => Total(memory) >= Capacity
<1>1. TypeInv /\ MemoryInv
  BY DEF IInv
<1> DEFINE m == memory.first
<1>2. m.long \in BOOLEAN /\ m.bits \in Nat /\ memory.second \in 0 .. (Base - 1)
  BY <1>1, MemoryIs
<1>3. CASE Capacity < Short
  <2>1. CapacityFirst.long = FALSE /\ CapacityFirst.bits = Capacity
    BY <1>3 DEF CapacityFirst, ShortByte
  <2>2. ~m.long
    BY <1>1, <1>2, <1>3, SizesAreNatural, TwoBytes DEF MemoryInv, SoundBytes
  <2>3. Total(memory) = m.bits
    BY <2>2 DEF Total, NumberIn
  <2>4. QED
    BY <1>2, <2>1, <2>2, <2>3, SizesAreNatural DEF IsLess
<1>4. CASE Short <= Capacity
  <2> DEFINE upper == Capacity \div Base
  <2>1. CapacityFirst.long = TRUE /\ CapacityFirst.bits = upper
    BY <1>4, SizesAreNatural, TwoBytes DEF CapacityFirst, LongByte
  <2>2. upper \in Nat /\ Capacity % Base \in 0 .. (Base - 1) /\ upper * Base + (Capacity % Base) = Capacity
    BY Parts, SizesAreNatural DEF LowerPart
  <2> HIDE DEF upper
  <2>3. CASE ~m.long
    <3>1. Total(memory) = m.bits /\ m.bits < Short
      BY <1>1, <2>3 DEF Total, NumberIn, MemoryInv, SoundBytes
    <3>2. QED
      BY <1>2, <1>4, <2>1, <2>3, <3>1, SizesAreNatural, TwoBytes DEF IsLess
  <2>4. CASE m.long
    <3>1. Total(memory) = m.bits * Base + memory.second
      BY <2>4 DEF Total, NumberIn
    <3>2. m.bits < upper => m.bits * Base + Base <= upper * Base
      BY <1>2, <2>2, TwoBytes
    <3>3. upper < m.bits => upper * Base + Base <= m.bits * Base
      BY <1>2, <2>2, TwoBytes
    <3>4. m.bits * Base \in Nat /\ upper * Base \in Nat
      BY <1>2, <2>2, TwoBytes
    <3>5. /\ m.bits < upper => Total(memory) < Capacity
          /\ upper < m.bits => Total(memory) >= Capacity
      BY <1>2, <2>2, <3>1, <3>2, <3>3, <3>4, TwoBytes, SizesAreNatural
    <3>6. QED
      BY <1>2, <2>1, <2>4, <3>5 DEF IsLess
  <2>5. QED
    BY <2>3, <2>4
<1>5. QED
  BY <1>3, <1>4, SizesAreNatural, TwoBytes

\* SizeIn, once the comparison has decided.
LEMMA SizeDecided ==
    ASSUME IInv
    PROVE  /\ Total(memory) \in Nat
           /\ Total(memory) < Capacity => SizeIn(memory) = Total(memory)
           /\ Total(memory) >= Capacity => SizeIn(memory) = Capacity
BY SizeBound, MemoryIs, SizesAreNatural DEF IInv

LEMMA CompareFirstStep == ASSUME IInv, NEW t \in Thread, CompareFirst(t), UNCHANGED alive PROVE IInv'
<1>1. pc[t] = "compareFirst"
  BY DEF CompareFirst
<1>2. CASE /\ IsLess(memory.first, CapacityFirst)
           /\ Goto(t, "loadFirst")
           /\ UNCHANGED <<state, memory, clock, local, published>>
  BY <1>1, <1>2, FirstBytes, MoveStep DEF Goto
<1>3. CASE /\ memory.first = CapacityFirst /\ memory.first.long
           /\ Goto(t, "compareSecond")
           /\ UNCHANGED <<state, memory, clock, local, published>>
  BY <1>1, <1>3, MoveStep DEF Goto
<1>4. CASE /\ \/ IsLess(CapacityFirst, memory.first)
              \/ memory.first = CapacityFirst /\ ~memory.first.long
           /\ UseSize(t, Capacity)
  BY <1>1, <1>4, FirstBytes, SizeDecided, UseSizeStep, SizesAreNatural
<1>5. QED
  BY <1>2, <1>3, <1>4 DEF CompareFirst

LEMMA CompareSecondStep == ASSUME IInv, NEW t \in Thread, CompareSecond(t), UNCHANGED alive PROVE IInv'
<1>1. pc[t] = "compareSecond" /\ TypeInv
  BY DEF CompareSecond, IInv
<1>2. Fresh(t) => memory.first = CapacityFirst /\ memory.first.long
  BY <1>1 DEF IInv, CallInv, Loaded, ReaderPC
<1>3. Fresh(t) => /\ memory.second < CapacitySecond => Total(memory) < Capacity
                  /\ memory.second >= CapacitySecond => Total(memory) >= Capacity
  <2>1. SUFFICES ASSUME Fresh(t)
                 PROVE  /\ memory.second < CapacitySecond => Total(memory) < Capacity
                        /\ memory.second >= CapacitySecond => Total(memory) >= Capacity
    OBVIOUS
  <2>2. ~(Capacity < Short)
    BY <1>2, <2>1 DEF CapacityFirst, ShortByte
  <2>3. memory.first.bits = Capacity \div Base
    BY <1>2, <2>1, <2>2 DEF CapacityFirst, LongByte
  <2>4. Total(memory) = (Capacity \div Base) * Base + memory.second
    BY <1>2, <2>1, <2>3 DEF Total, NumberIn
  <2>5. /\ (Capacity \div Base) * Base + (Capacity % Base) = Capacity
        /\ Capacity \div Base \in Nat /\ Capacity % Base \in 0 .. (Base - 1)
    BY Parts, SizesAreNatural DEF LowerPart
  <2>6. PICK upper \in Nat : upper = (Capacity \div Base) * Base
    BY <2>5, TwoBytes
  <2>7. PICK lower \in Nat : lower = Capacity % Base
    BY <2>5
  <2>8. /\ Total(memory) = upper + memory.second /\ upper + lower = Capacity
        /\ CapacitySecond = lower
    BY <2>4, <2>5, <2>6, <2>7 DEF CapacitySecond
  <2>9. QED
    BY <1>1, <2>8, MemoryIs, SizesAreNatural, TwoBytes
<1>4. CASE /\ memory.second < CapacitySecond
           /\ Goto(t, "loadFirst")
           /\ UNCHANGED <<state, memory, clock, local, published>>
  BY <1>1, <1>3, <1>4, MoveStep DEF Goto
<1>5. CASE /\ memory.second >= CapacitySecond
           /\ UseSize(t, Capacity)
  BY <1>1, <1>3, <1>5, SizeDecided, UseSizeStep, SizesAreNatural
<1>6. QED
  BY <1>4, <1>5 DEF CompareSecond

LEMMA LoadFirstStep == ASSUME IInv, NEW t \in Thread, LoadFirst(t), UNCHANGED alive PROVE IInv'
<1>1. /\ pc[t] = "loadFirst" /\ TypeInv /\ pc[t] \in ReaderPC
      /\ UNCHANGED <<state, memory, clock, alive, published>>
      /\ memory' \in Memory /\ state' \in Nat /\ alive' \subseteq Thread /\ clock' \in Nat
  BY DEF LoadFirst, UseSize, IInv, TypeInv, ReaderPC
<1>2. Fresh(t) => Loaded(t) /\ Total(memory) < Capacity
  BY <1>1 DEF IInv, CallInv, Loaded
<1>3. CASE /\ memory.first.long
           /\ Keep(t, "first", memory.first)
           /\ Goto(t, "loadSecond")
  <2> DEFINE new == [local[t] EXCEPT !.first = memory.first]
  <2>1. /\ pc' = [pc EXCEPT ![t] = "loadSecond"]
        /\ local' = [local EXCEPT ![t] = new]
    BY <1>3 DEF Keep, Goto
  <2>2. new \in Locals /\ "loadSecond" \in PC /\ "loadSecond" \in ReaderPC \ {"got"}
    BY <1>1, LocalsOf, MemoryIs DEF Locals, PC, ReaderPC
  <2>3. /\ TypeInv' /\ pc'[t] = "loadSecond" /\ local'[t] = new
        /\ \A u \in Thread \ {t} : pc'[u] = pc[u] /\ local'[u] = local[u]
    BY <1>1, <2>1, <2>2, TypeStep
  <2>4. /\ new.first = memory.first
        /\ \A f \in {"call", "copy", "ticket", "time", "deleted", "room"} : new[f] = local[t][f]
    BY <1>1, LocalsOf DEF Locals
  <2> HIDE DEF new
  <2>5. Fresh(t) /\ Loaded(t) => Loaded(t)'
    <3>1. SizeIn(memory)' = SizeIn(memory) /\ Total(memory)' = Total(memory)
      BY <1>1
    <3>2. QED
      BY <1>1, <1>2, <1>3, <2>3, <2>4, <3>1 DEF Loaded
  <2>6. QED
    BY <1>1, <2>2, <2>3, <2>4, <2>5, LoadStep
<1>4. CASE ~memory.first.long /\ UseSize(t, memory.first.bits)
  <2>1. memory.first.bits \in Nat /\ Total(memory) = memory.first.bits
    BY <1>1, <1>4, MemoryIs DEF Total, NumberIn
  <2>2. QED
    BY <1>1, <1>2, <1>4, <2>1, SizeDecided, UseSizeStep
<1>5. QED
  BY <1>3, <1>4 DEF LoadFirst

LEMMA LoadSecondStep == ASSUME IInv, NEW t \in Thread, LoadSecond(t), UNCHANGED alive PROVE IInv'
<1>1. /\ pc[t] = "loadSecond" /\ TypeInv /\ UseSize(t, NumberIn(local[t].first, memory.second))
  BY DEF LoadSecond, IInv
<1>2. Fresh(t) => /\ Total(memory) < Capacity
                  /\ local[t].first = memory.first
  BY <1>1 DEF IInv, CallInv, Loaded, ReaderPC
<1>3. NumberIn(local[t].first, memory.second) \in Nat
  <2>1. /\ local[t].first.long \in BOOLEAN /\ local[t].first.bits \in Nat
        /\ memory.second \in 0 .. (Base - 1)
    BY <1>1, LocalsOf, MemoryIs DEF Byte
  <2>2. QED
    BY <2>1, TwoBytes DEF NumberIn
<1>4. QED
  BY <1>1, <1>2, <1>3, SizeDecided, UseSizeStep DEF Total

\* One more byte of the value, or the end of it.
LEMMA CopyByteStep == ASSUME IInv, NEW t \in Thread, CopyByte(t), UNCHANGED alive PROVE IInv'
<1>1. /\ pc[t] = "copy" /\ TypeInv /\ pc[t] \in ReaderPC
      /\ UNCHANGED <<state, memory, clock, alive, published>>
      /\ memory' \in Memory /\ state' \in Nat /\ alive' \subseteq Thread /\ clock' \in Nat
  BY DEF CopyByte, IInv, TypeInv, ReaderPC
<1>2. Fresh(t) => Loaded(t)
  BY <1>1 DEF IInv, CallInv
<1>3. PICK i \in Nat : i = Len(local[t].copy) + 1
  BY <1>1, LocalsOf
<1>4. SizeIn(memory) \in 0 .. Capacity
  BY <1>1, MemoryIs, SizeBound
<1>5. CASE i <= local[t].size
  <2> DEFINE byte == IF i <= Capacity THEN memory.data[i] ELSE Behind
             new == [local[t] EXCEPT !.copy = Append(local[t].copy, byte)]
  <2>1. pc' = pc /\ local' = [local EXCEPT ![t] = new]
    BY <1>1, <1>3, <1>5, LocalsOf DEF CopyByte, Keep
  <2>2. byte \in Int
    BY <1>1, <1>3, MemoryIs, SizesAreNatural DEF Behind
  <2>3. /\ Append(local[t].copy, byte) \in Seq(Int)
        /\ Len(Append(local[t].copy, byte)) = i
        /\ Append(local[t].copy, byte)[i] = byte
        /\ \A j \in 1 .. (i - 1) : Append(local[t].copy, byte)[j] = local[t].copy[j]
    <3>1. local[t].copy \in Seq(Int)
      BY <1>1, LocalsOf
    <3> HIDE DEF byte
    <3>2. QED
      BY <1>3, <2>2, <3>1, AppendProperties
  <2>4. /\ new \in Locals /\ new.copy = Append(local[t].copy, byte)
        /\ \A f \in {"call", "ticket", "time", "deleted", "room", "size"} : new[f] = local[t][f]
    <3> HIDE DEF byte
    <3>1. QED
      BY <1>1, <2>3, LocalsOf DEF Locals
  <2> HIDE DEF new
  <2>5. /\ TypeInv' /\ pc'[t] = "copy" /\ local'[t] = new
        /\ \A u \in Thread \ {t} : pc'[u] = pc[u] /\ local'[u] = local[u]
    BY <1>1, <2>1, <2>4 DEF TypeInv
  <2>6. Fresh(t) /\ Loaded(t) => Loaded(t)'
    <3>1. SUFFICES ASSUME Fresh(t), Loaded(t) PROVE Loaded(t)'
      OBVIOUS
    <3>2. /\ local[t].size = SizeIn(memory)
          /\ \A j \in 1 .. (i - 1) : local[t].copy[j] = memory.data[j]
      BY <1>1, <1>3, <3>1, LocalsOf DEF Loaded
    <3>3. byte = memory.data[i]
      BY <1>4, <1>5, <3>2, SizesAreNatural
    <3> HIDE DEF byte
    <3>4. \A j \in 1 .. i : new.copy[j] = memory.data[j]
      BY <2>3, <2>4, <3>2, <3>3
    <3>5. Len(new.copy) = i
      BY <2>3, <2>4
    <3>6. SizeIn(memory)' = SizeIn(memory)
      BY <1>1
    <3>7. QED
      BY <1>1, <1>5, <2>4, <2>5, <3>1, <3>2, <3>4, <3>5, <3>6 DEF Loaded
  <2>7. QED
    BY <1>1, <2>4, <2>5, <2>6, LoadStep DEF ReaderPC
<1>6. CASE i > local[t].size
  <2>1. pc' = [pc EXCEPT ![t] = "check"] /\ local' = local
    BY <1>1, <1>3, <1>6, LocalsOf DEF CopyByte, Goto
  <2>2. "check" \in PC /\ "check" \in ReaderPC \ {"got"}
    BY DEF PC, ReaderPC
  <2>3. /\ TypeInv' /\ pc'[t] = "check"
        /\ \A u \in Thread \ {t} : pc'[u] = pc[u] /\ local'[u] = local[u]
    BY <1>1, <2>1, <2>2 DEF TypeInv
  <2>4. Fresh(t) /\ Loaded(t) => Loaded(t)'
    <3>1. SUFFICES ASSUME Fresh(t), Loaded(t) PROVE Loaded(t)'
      OBVIOUS
    <3>2. /\ local[t].size = SizeIn(memory) /\ Len(local[t].copy) <= local[t].size
          /\ \A j \in 1 .. Len(local[t].copy) : local[t].copy[j] = memory.data[j]
      BY <1>1, <3>1 DEF Loaded
    <3>3. local[t].copy \in Seq(Int) /\ Len(local[t].copy) = SizeIn(memory)
      BY <1>1, <1>3, <1>4, <1>6, <3>2, LocalsOf
    <3>4. /\ ValueIn(memory) \in Seq(Nat) /\ Len(ValueIn(memory)) = SizeIn(memory)
          /\ \A j \in 1 .. SizeIn(memory) : ValueIn(memory)[j] = memory.data[j]
      BY <1>1, MemoryIs, ValueBytes
    <3>5. local[t].copy = ValueIn(memory)
      <4>1. ValueIn(memory) \in Seq(Int)
        BY <3>4
      <4>2. QED
        BY <3>2, <3>3, <3>4, <4>1, SeqEqual
    <3>6. ValueIn(memory)' = ValueIn(memory) /\ SizeIn(memory)' = SizeIn(memory)
      BY <1>1
    <3>7. QED
      BY <1>1, <2>1, <2>3, <3>1, <3>5, <3>6 DEF Loaded
  <2>5. QED
    BY <1>1, <2>1, <2>2, <2>3, <2>4, LoadStep
<1>7. QED
  BY <1>3, <1>5, <1>6, <1>1, LocalsOf

\* The session ends: what has been read belongs to the version of the ticket,
\* or is thrown away.
LEMMA CheckReadStep == ASSUME IInv, NEW t \in Thread, CheckRead(t), UNCHANGED alive PROVE IInv'
<1> DEFINE label == IF state = local[t].ticket THEN "got" ELSE "beginRead"
<1>1. /\ pc[t] = "check" /\ TypeInv /\ pc[t] \in ReaderPC
      /\ pc' = [pc EXCEPT ![t] = label]
      /\ UNCHANGED <<state, memory, clock, local, alive, published>>
  BY DEF CheckRead, Goto, IInv, ReaderPC
<1>2. /\ TypeInv' /\ pc'[t] = label
      /\ \A u \in Thread \ {t} : pc'[u] = pc[u] /\ local'[u] = local[u]
  <2>1. label \in PC
    BY DEF PC, ReaderPC
  <2> HIDE DEF label
  <2>2. QED
    BY <1>1, <2>1 DEF TypeInv
<1>3. pc[t] \notin WriterPC /\ pc'[t] \notin WriterPC
  BY <1>1, <1>2 DEF WriterPC
<1>4. /\ local[t].call \in {"Get", "Clone"} /\ local[t].ticket \in DOMAIN published
      /\ Fresh(t) => Loaded(t)
  BY <1>1 DEF IInv, CallInv
<1>5. CallInv(t)'
  <2>1. CASE label = "beginRead"
    BY <1>1, <1>2, <1>4, <2>1 DEF CallInv, WriterPC, ReaderPC
  <2>2. CASE label = "got"
    <3>1. state = local[t].ticket /\ ~IsCorrupted(state)
      BY <1>4, <2>2 DEF IInv, HistoryInv
    <3>2. Fresh(t) /\ published[state] = Content(memory)
      BY <3>1 DEF Fresh, Untouched, LastStable, IInv, StableInv
    <3>3. Loaded(t)
      BY <1>4, <3>2
    <3>4. pc'[t] = "got" /\ pc'[t] \in ReaderPC
      BY <1>2, <2>2 DEF ReaderPC
    <3>5. local[t].call = "Get" => /\ local[t].time = memory.time
                                   /\ local[t].deleted = memory.deleted
                                   /\ local[t].deleted \/ local[t].copy = ValueIn(memory)
      BY <1>1, <3>3 DEF Loaded
    <3>6. Loaded(t)'
      BY <1>1, <1>4, <3>3, <3>4, <3>5 DEF Loaded
    <3>7. QED
      BY <1>1, <1>3, <1>4, <3>1, <3>2, <3>4, <3>5, <3>6 DEF CallInv, Content
  <2>3. QED
    BY <2>1, <2>2
<1>6. QED
  BY <1>1, <1>2, <1>3, <1>5, LocalStep

-----------------------------------------------------------------------------
(* The steps of a writer.                                                  *)

\* A reader u is not disturbed by a step that keeps the versions there have been
\* and changes the record only where u is bound to fail.
LEMMA OtherCall ==
    ASSUME IInv, NEW u \in Thread, pc'[u] = pc[u], local'[u] = local[u],
           \A v \in DOMAIN published : v \in DOMAIN published' /\ published'[v] = published[v],
           pc[u] \in ReaderPC /\ Fresh(u)' => Fresh(u) /\ memory' = memory
    PROVE  CallInv(u)'
<1>1. CallInv(u)
  BY DEF IInv
<1>2. pc[u] \in ReaderPC /\ Fresh(u)' => Loaded(u)'
  <2>1. SUFFICES ASSUME pc[u] \in ReaderPC, Fresh(u)' PROVE Loaded(u)'
    OBVIOUS
  <2>2. Loaded(u) /\ memory' = memory
    BY <1>1, <2>1 DEF CallInv
  <2>3. ValueIn(memory)' = ValueIn(memory) /\ SizeIn(memory)' = SizeIn(memory) /\ Total(memory)' = Total(memory)
    BY <2>2
  <2>4. QED
    BY <2>2, <2>3 DEF Loaded
<1>3. pc[u] = "got" => pc[u] \in ReaderPC
  BY DEF ReaderPC
<1>4. QED
  BY <1>1, <1>2, <1>3 DEF CallInv

\* A stable state becomes odd when a writer begins.
LEMMA BeginWriteStep ==
    ASSUME IInv, NEW t \in alive, BeginWrite(t), UNCHANGED alive PROVE IInv'
<1> DEFINE new == [local[t] EXCEPT !.ticket = state + 1]
<1>1. /\ pc[t] = "beginWrite" /\ ~IsCorrupted(state) /\ TypeInv /\ t \in Thread /\ t \in alive'
      /\ state \in Nat /\ state' = state + 1
      /\ pc' = [pc EXCEPT ![t] = "locked"] /\ local' = [local EXCEPT ![t] = new]
      /\ UNCHANGED <<memory, clock, alive, published>>
      /\ memory' \in Memory /\ alive' \subseteq Thread /\ clock' \in Nat
  BY DEF BeginWrite, IInv, TypeInv, Keep, Goto
<1>2. new \in Locals /\ new.ticket = state + 1 /\ new.call = local[t].call
  <2>1. local[t] \in Locals /\ state + 1 \in Nat
    BY <1>1, LocalsOf
  <2>2. QED
    BY <2>1 DEF Locals
<1>3. IsCorrupted(state') /\ state' - 1 = state
  BY <1>1, Parity
<1> HIDE DEF new
<1>4. /\ TypeInv' /\ pc'[t] = "locked" /\ local'[t] = new
      /\ \A u \in Thread \ {t} : pc'[u] = pc[u] /\ local'[u] = local[u]
  <2>1. "locked" \in PC /\ state' \in Nat
    BY <1>1 DEF PC, WriterPC
  <2>2. QED
    BY <1>1, <1>2, <2>1, TypeStep
<1>5. \A u \in Thread : Writing(u)' <=> u = t
  <2>1. \A u \in Thread : ~Writing(u)
    BY <1>1 DEF IInv, WriterInv
  <2>2. Writing(t)'
    BY <1>1, <1>4 DEF Writing, WriterPC
  <2>3. QED
    BY <1>1, <1>4, <2>1, <2>2 DEF Writing
<1>6. MemoryInv'
  BY <1>1 DEF IInv, MemoryInv
<1>7. WriterInv'
  BY <1>1, <1>2, <1>3, <1>4, <1>5 DEF WriterInv
<1>8. HistoryInv'
  BY <1>1 DEF IInv, HistoryInv
<1>9. Untouched /\ Untouched' /\ LastStable' = LastStable
  BY <1>1, <1>3, <1>4 DEF Untouched, LastStable
<1>10. StableInv'
  <2>1. ValueIn(memory)' = ValueIn(memory) /\ Content(memory)' = Content(memory)
    BY <1>1
  <2>2. QED
    BY <1>1, <1>9, <2>1 DEF IInv, StableInv
<1>11. StoresInv'
  BY <1>4, <1>5 DEF StoresInv
<1>12. CallInv(t)'
  <2>1. local[t].call \in {"Set", "Delete"}
    BY <1>1 DEF IInv, CallInv
  <2>2. QED
    BY <1>2, <1>4, <2>1 DEF CallInv, ReaderPC
<1>13. ASSUME NEW u \in Thread \ {t} PROVE CallInv(u)'
  <2>1. Fresh(u)' => Fresh(u)
    BY <1>4, <1>9 DEF Fresh
  <2>2. QED
    BY <1>1, <1>4, <2>1, OtherCall
<1>14. QED
  BY <1>4, <1>6, <1>7, <1>8, <1>10, <1>11, <1>12, <1>13 DEF IInv

\* What the others see does not change while a writer decides.
LEMMA WriterMoves ==
    ASSUME IInv, NEW t \in alive, pc[t] = "locked", NEW label \in {"write", "revert"}, NEW new \in Locals,
           pc' = [pc EXCEPT ![t] = label], local' = [local EXCEPT ![t] = new],
           \A f \in {"call", "ticket"} : new[f] = local[t][f],
           UNCHANGED <<state, memory, clock, alive, published>>,
           StoresInv'
    PROVE  IInv'
<1>1. TypeInv /\ t \in Thread /\ label \in PC /\ label \in WriterPC /\ pc[t] \in WriterPC
  BY DEF IInv, TypeInv, PC, WriterPC
<1>2. /\ TypeInv' /\ pc'[t] = label /\ local'[t] = new
      /\ \A u \in Thread \ {t} : pc'[u] = pc[u] /\ local'[u] = local[u]
  <2>1. memory' \in Memory /\ state' \in Nat /\ alive' \subseteq Thread /\ clock' \in Nat
    BY <1>1 DEF TypeInv
  <2>2. QED
    BY <1>1, <2>1, TypeStep
<1>3. \A u \in Thread : Writing(u)' <=> Writing(u)
  BY <1>1, <1>2 DEF Writing
<1>4. WriterInv'
  BY <1>1, <1>2, <1>3 DEF IInv, WriterInv
<1>5. Untouched /\ LastStable' = LastStable
  BY <1>1 DEF Untouched, LastStable
<1>6. MemoryInv' /\ HistoryInv'
  BY DEF IInv, MemoryInv, HistoryInv
<1>7. StableInv'
  <2>1. ValueIn(memory)' = ValueIn(memory) /\ Content(memory)' = Content(memory)
    OBVIOUS
  <2>2. QED
    BY <1>5, <2>1 DEF IInv, StableInv
<1>8. CallInv(t)'
  <2>1. local[t].call \in {"Set", "Delete"}
    BY <1>1 DEF IInv, CallInv
  <2>2. QED
    BY <1>2, <2>1 DEF CallInv, ReaderPC
<1>9. ASSUME NEW u \in Thread \ {t} PROVE CallInv(u)'
  <2>1. Fresh(u)' => Fresh(u)
    BY <1>2, <1>5 DEF Fresh
  <2>2. QED
    BY <1>2, <2>1, OtherCall
<1>10. QED
  BY <1>2, <1>4, <1>6, <1>7, <1>8, <1>9 DEF IInv

\* The rest of all stores is all stores.
LEMMA AllLeft ==
    ASSUME NEW all \in Seq(Store)
    PROVE  all = SubSeq(all, 1, Len(all))
<1>1. /\ SubSeq(all, 1, Len(all)) \in Seq(Store) /\ Len(SubSeq(all, 1, Len(all))) = Len(all)
      /\ \A i \in 1 .. Len(all) : SubSeq(all, 1, Len(all))[i] = all[i]
  BY SubSeqProperties, LenProperties, ElementOfSeq
<1>2. QED
  BY <1>1, SeqEqual

\* One of the rest is made.
LEMMA OneLess ==
    ASSUME NEW all \in Seq(Store), NEW k \in 0 .. Len(all), SubSeq(all, k + 1, Len(all)) # <<>>
    PROVE  /\ k + 1 \in 1 .. Len(all)
           /\ Head(SubSeq(all, k + 1, Len(all))) = all[k + 1]
           /\ Tail(SubSeq(all, k + 1, Len(all))) = SubSeq(all, k + 2, Len(all))
<1>1. Len(all) \in Nat /\ k + 1 \in Int /\ Len(all) \in Int
  BY LenProperties
<1>2. ~(Len(all) < k + 1)
  BY <1>1, SubSeqEmpty
<1>3. k + 1 \in 1 .. Len(all) /\ Len(all) \in (k + 1) .. Len(all) /\ (k + 1) + 1 = k + 2
  BY <1>1, <1>2
<1>4. QED
  BY <1>3, HeadTailOfSubSeq

\* All stores are made.
LEMMA NothingLeft ==
    ASSUME NEW all \in Seq(Store), NEW k \in 0 .. Len(all), SubSeq(all, k + 1, Len(all)) = <<>>
    PROVE  k = Len(all)
<1>1. Len(all) \in Nat
  BY LenProperties
<1>2. \A i \in (k + 1) .. Len(all) : all[i] \in Store
  BY <1>1, ElementOfSeq
<1>3. k + 1 \in Nat
  BY <1>1
<1>4. Len(SubSeq(all, k + 1, Len(all))) = IF k + 1 <= Len(all) THEN Len(all) - (k + 1) + 1 ELSE 0
  BY <1>1, <1>2, <1>3, SubSeqProperties
<1>5. Len(<<>>) = 0
  BY EmptySeq
<1>6. QED
  BY <1>1, <1>4, <1>5

\* The writer gives the record back or lays out its stores.
LEMMA DecideStep == ASSUME IInv, NEW t \in alive, Decide(t), UNCHANGED alive PROVE IInv'
<1>1. /\ TypeInv /\ t \in Thread /\ pc[t] = "locked" /\ Writing(t)
      /\ local[t] \in Locals /\ local[t].call \in {"Set", "Delete"}
      /\ UNCHANGED <<state, memory, clock, alive, published>>
  BY LocalsOf DEF Decide, IInv, TypeInv, Writing, WriterPC, CallInv
<1>2. \A u \in Thread : Writing(u) => u = t
  BY <1>1 DEF IInv, WriterInv
<1>3. CASE Goto(t, "revert") /\ UNCHANGED local
  <2>1. pc' = [pc EXCEPT ![t] = "revert"] /\ local' = [local EXCEPT ![t] = local[t]]
    BY <1>1, <1>3 DEF Goto, TypeInv
  <2>2. StoresInv'
    <3>1. \A u \in Thread : ~(Writing(u)' /\ pc'[u] = "write")
      BY <1>1, <1>2, <2>1 DEF Writing, TypeInv, WriterPC
    <3>2. QED
      BY <3>1 DEF StoresInv
  <2>3. QED
    BY <1>1, <2>1, <2>2, WriterMoves
<1>4. CASE /\ ~memory.deleted
           /\ local[t].call = "Delete" \/ local[t].size <= Capacity
           /\ Keep(t, "stores", IF local[t].call = "Delete" THEN DeleteStores
                                ELSE SetStores(local[t].enterTime, local[t].size))
           /\ Goto(t, "write")
  <2> DEFINE all == SetStores(local[t].enterTime, local[t].size)
             stores == IF local[t].call = "Delete" THEN DeleteStores ELSE all
             new == [local[t] EXCEPT !.stores = stores]
  <2>1. pc' = [pc EXCEPT ![t] = "write"] /\ local' = [local EXCEPT ![t] = new]
    BY <1>4 DEF Keep, Goto
  <2>2. local[t].enterTime \in Nat /\ local[t].size \in Nat
    BY <1>1, LocalsOf
  <2>3. local[t].call = "Set" => all \in Seq(Store) /\ Len(all) \in Nat
    <3>1. SUFFICES ASSUME local[t].call = "Set" PROVE all \in Seq(Store) /\ Len(all) \in Nat
      OBVIOUS
    <3>2. local[t].size \in 0 .. Capacity
      BY <1>4, <2>2, <3>1, SizesAreNatural
    <3>3. all \in Seq(Store)
      BY <2>2, <3>2, SetStoresAre
    <3>4. QED
      BY <3>3, LenProperties
  <2>4. DeleteStores \in Seq(Store)
    BY DEF DeleteStores, Store
  <2> HIDE DEF all
  <2>5. stores \in Seq(Store)
    BY <1>1, <2>3, <2>4
  <2>6. /\ new \in Locals /\ new.stores = stores
        /\ \A f \in {"call", "ticket", "size", "enterTime"} : new[f] = local[t][f]
    <3> HIDE DEF stores
    <3>1. QED
      BY <1>1, <2>5 DEF Locals
  <2> HIDE DEF new
  <2>7. /\ local'[t] = new /\ pc'[t] = "write"
        /\ \A u \in Thread : Writing(u)' => u = t
    BY <1>1, <1>2, <2>1 DEF TypeInv, Writing, WriterPC
  <2>8. ValueIn(memory) = memory.crc
    BY <1>1 DEF IInv, StableInv, Untouched
  <2>9. new.call = "Set" => /\ new.stores = SubSeq(all, 0 + 1, Len(all))
                            /\ Stored(memory', new.enterTime, new.size, 0)
    <3>1. SUFFICES ASSUME new.call = "Set"
                   PROVE  /\ new.stores = SubSeq(all, 0 + 1, Len(all))
                          /\ Stored(memory', new.enterTime, new.size, 0)
      OBVIOUS
    <3>2. new.stores = SubSeq(all, 0 + 1, Len(all))
      BY <2>3, <2>6, <3>1, AllLeft
    <3>3. new.size \in Nat /\ SizeCount(new.size) \in {1, 4}
      BY <2>2, <2>6 DEF SizeCount
    <3>4. Stored(memory', new.enterTime, new.size, 0)
      BY <3>3 DEF Stored
    <3>5. QED
      BY <3>2, <3>4
  <2>10. StoresInv'
    <3>1. /\ new.call = "Set" =>
              /\ new.size <= Capacity /\ ~memory'.deleted
              /\ \E k \in 0 .. Len(all) :
                    /\ new.stores = SubSeq(all, k + 1, Len(all))
                    /\ Stored(memory', new.enterTime, new.size, k)
          /\ new.call = "Delete" =>
              /\ new.stores \in {DeleteStores, <<>>}
              /\ ValueIn(memory)' = memory'.crc
      <4>1. new.call = "Set" => 0 \in 0 .. Len(all)
        BY <2>3, <2>6
      <4>2. new.call = "Set" => new.size <= Capacity
        BY <1>4, <2>6
      <4>3. ~memory'.deleted /\ ValueIn(memory)' = memory'.crc
        BY <1>1, <1>4, <2>8
      <4>4. new.call = "Delete" => new.stores = DeleteStores
        BY <2>6
      <4>5. QED
        BY <2>9, <4>1, <4>2, <4>3, <4>4
    <3>2. all = SetStores(local'[t].enterTime, local'[t].size)
      BY <2>6, <2>7 DEF all
    <3>3. QED
      BY <2>7, <3>1, <3>2 DEF StoresInv
  <2>11. QED
    BY <1>1, <2>1, <2>6, <2>10, WriterMoves
<1>5. QED
  BY <1>3, <1>4 DEF Decide

\* What a store changes of the record, and what it leaves.
LEMMA StoreChanges ==
    ASSUME NEW m \in Memory
    PROVE  /\ \A i \in 1 .. Capacity, v \in Nat :
                /\ StoreIn(m, [field |-> "data", at |-> i, value |-> v]) \in Memory
                /\ StoreIn(m, [field |-> "data", at |-> i, value |-> v]) = [m EXCEPT !.data[i] = v]
           /\ \A v \in Byte :
                /\ StoreIn(m, [field |-> "first", value |-> v]) \in Memory
                /\ StoreIn(m, [field |-> "first", value |-> v]) = [m EXCEPT !.first = v]
           /\ \A v \in LowerPart :
                /\ StoreIn(m, [field |-> "second", value |-> v]) \in Memory
                /\ StoreIn(m, [field |-> "second", value |-> v]) = [m EXCEPT !.second = v]
           /\ \A v \in Seq(Nat) :
                /\ StoreIn(m, [field |-> "crc", value |-> v]) \in Memory
                /\ StoreIn(m, [field |-> "crc", value |-> v]) = [m EXCEPT !.crc = v]
           /\ \A v \in Nat :
                /\ StoreIn(m, [field |-> "time", value |-> v]) \in Memory
                /\ StoreIn(m, [field |-> "time", value |-> v]) = [m EXCEPT !.time = v]
           /\ \A v \in BOOLEAN :
                /\ StoreIn(m, [field |-> "deleted", value |-> v]) \in Memory
                /\ StoreIn(m, [field |-> "deleted", value |-> v]) = [m EXCEPT !.deleted = v]
<1>1. ASSUME NEW i \in 1 .. Capacity, NEW v \in Nat
      PROVE  /\ StoreIn(m, [field |-> "data", at |-> i, value |-> v]) \in Memory
             /\ StoreIn(m, [field |-> "data", at |-> i, value |-> v]) = [m EXCEPT !.data[i] = v]
  <2>1. [m EXCEPT !.data[i] = v] \in Memory
    BY DEF Memory
  <2>2. StoreIn(m, [field |-> "data", at |-> i, value |-> v]) = [m EXCEPT !.data[i] = v]
    BY DEF StoreIn
  <2>3. QED
    BY <2>1, <2>2
<1>2. ASSUME NEW v \in Byte
      PROVE  /\ StoreIn(m, [field |-> "first", value |-> v]) \in Memory
             /\ StoreIn(m, [field |-> "first", value |-> v]) = [m EXCEPT !.first = v]
  <2>1. [m EXCEPT !.first = v] \in Memory
    BY DEF Memory
  <2>2. StoreIn(m, [field |-> "first", value |-> v]) = [m EXCEPT !.first = v]
    BY DEF StoreIn
  <2>3. QED
    BY <2>1, <2>2
<1>3. ASSUME NEW v \in LowerPart
      PROVE  /\ StoreIn(m, [field |-> "second", value |-> v]) \in Memory
             /\ StoreIn(m, [field |-> "second", value |-> v]) = [m EXCEPT !.second = v]
  <2>1. [m EXCEPT !.second = v] \in Memory
    BY DEF Memory
  <2>2. StoreIn(m, [field |-> "second", value |-> v]) = [m EXCEPT !.second = v]
    BY DEF StoreIn
  <2>3. QED
    BY <2>1, <2>2
<1>4. ASSUME NEW v \in Seq(Nat)
      PROVE  /\ StoreIn(m, [field |-> "crc", value |-> v]) \in Memory
             /\ StoreIn(m, [field |-> "crc", value |-> v]) = [m EXCEPT !.crc = v]
  <2>1. [m EXCEPT !.crc = v] \in Memory
    BY DEF Memory
  <2>2. StoreIn(m, [field |-> "crc", value |-> v]) = [m EXCEPT !.crc = v]
    BY DEF StoreIn
  <2>3. QED
    BY <2>1, <2>2
<1>5. ASSUME NEW v \in Nat
      PROVE  /\ StoreIn(m, [field |-> "time", value |-> v]) \in Memory
             /\ StoreIn(m, [field |-> "time", value |-> v]) = [m EXCEPT !.time = v]
  <2>1. [m EXCEPT !.time = v] \in Memory
    BY DEF Memory
  <2>2. StoreIn(m, [field |-> "time", value |-> v]) = [m EXCEPT !.time = v]
    BY DEF StoreIn
  <2>3. QED
    BY <2>1, <2>2
<1>6. ASSUME NEW v \in BOOLEAN
      PROVE  /\ StoreIn(m, [field |-> "deleted", value |-> v]) \in Memory
             /\ StoreIn(m, [field |-> "deleted", value |-> v]) = [m EXCEPT !.deleted = v]
  <2>1. [m EXCEPT !.deleted = v] \in Memory
    BY DEF Memory
  <2>2. StoreIn(m, [field |-> "deleted", value |-> v]) = [m EXCEPT !.deleted = v]
    BY DEF StoreIn
  <2>3. QED
    BY <2>1, <2>2
<1>7. QED
  BY <1>1, <1>2, <1>3, <1>4, <1>5, <1>6

\* The stores of a Set are made one by one.
LEMMA StoredStep ==
    ASSUME NEW m \in Memory, SoundBytes(m), NEW time \in Nat, NEW n \in 0 .. Capacity, NEW k \in Nat,
           k < Len(SetStores(time, n)), Stored(m, time, n, k),
           NEW new, new = StoreIn(m, SetStores(time, n)[k + 1])
    PROVE  /\ new \in Memory /\ SoundBytes(new) /\ new.deleted = m.deleted
           /\ Stored(new, time, n, k + 1)
<1> DEFINE all == SetStores(time, n)
           count == n + SizeCount(n)
<1>1. /\ n \in Nat /\ n <= Capacity /\ count \in Nat
      /\ n < Short => count = n + 1
      /\ Short <= n => count = n + 4
  BY SizesAreNatural, TwoBytes DEF SizeCount
<1>2. /\ Len(all) = count + 2
      /\ \A i \in 1 .. n : all[i] = [field |-> "data", at |-> i, value |-> time]
      /\ n < Short => all[n + 1] = [field |-> "first", value |-> ShortByte(n)]
      /\ Short <= n => /\ all[n + 1] = [field |-> "first", value |-> ShortByte(0)]
                       /\ all[n + 2] = [field |-> "second", value |-> n % Base]
                       /\ all[n + 3] = [field |-> "first", value |-> LongByte(0)]
                       /\ all[n + 4] = [field |-> "first", value |-> LongByte(n \div Base)]
      /\ all[count + 1] = [field |-> "crc", value |-> Value(time, n)]
      /\ all[count + 2] = [field |-> "time", value |-> time]
  BY SetStoresAre
<1>3. /\ k < count + 2 /\ new = StoreIn(m, all[k + 1])
  BY <1>2
<1>4. n \div Base \in Nat /\ n % Base \in LowerPart
  BY <1>1, Parts
<1>5. /\ m.first \in Byte /\ m.data \in [1 .. Capacity -> Nat]
      /\ \A i \in 1 .. n : i <= k => m.data[i] = time
      /\ n < Short /\ n + 1 <= k => m.first = ShortByte(n)
      /\ Short <= n /\ n + 2 <= k => m.second = n % Base
      /\ Short <= n /\ n + 4 <= k => m.first = LongByte(n \div Base)
      /\ count + 1 <= k => m.crc = Value(time, n)
      /\ count + 2 <= k => m.time = time
  BY DEF Stored, Memory
<1> SUFFICES /\ new \in Memory /\ SoundBytes(new) /\ new.deleted = m.deleted
             /\ \A i \in 1 .. n : i <= k + 1 => new.data[i] = time
             /\ n < Short /\ n + 1 <= k + 1 => new.first = ShortByte(n)
             /\ Short <= n /\ n + 2 <= k + 1 => new.second = n % Base
             /\ Short <= n /\ n + 4 <= k + 1 => new.first = LongByte(n \div Base)
             /\ count + 1 <= k + 1 => new.crc = Value(time, n)
             /\ count + 2 <= k + 1 => new.time = time
  BY DEF Stored
<1> HIDE DEF all, count
<1>6. CASE k < n
  <2>1. all[k + 1] = [field |-> "data", at |-> k + 1, value |-> time] /\ k + 1 \in 1 .. Capacity
    BY <1>1, <1>2, <1>6, SizesAreNatural
  <2>2. new \in Memory /\ new = [m EXCEPT !.data[k + 1] = time]
    BY <1>3, <2>1, StoreChanges
  <2>3. /\ new.first = m.first /\ new.crc = m.crc /\ new.deleted = m.deleted
        /\ new.data = [m.data EXCEPT ![k + 1] = time]
    BY <2>2 DEF Memory
  <2>4. \A i \in 1 .. n : i <= k + 1 => new.data[i] = time
    BY <1>1, <1>5, <2>1, <2>3, SizesAreNatural
  <2>5. QED
    BY <1>1, <1>6, <2>2, <2>3, <2>4, TwoBytes DEF SoundBytes
<1>7. CASE k = n /\ n < Short
  <2>1. all[k + 1] = [field |-> "first", value |-> ShortByte(n)] /\ ShortByte(n) \in Byte
    BY <1>1, <1>2, <1>7 DEF ShortByte, Byte
  <2>2. new \in Memory /\ new = [m EXCEPT !.first = ShortByte(n)]
    BY <1>3, <2>1, StoreChanges
  <2>3. new.first = ShortByte(n) /\ new.crc = m.crc /\ new.deleted = m.deleted /\ new.data = m.data
    BY <2>2 DEF Memory
  <2>4. SoundBytes(new)
    BY <1>7, <2>3 DEF SoundBytes, ShortByte
  <2>5. QED
    BY <1>1, <1>5, <1>7, <2>2, <2>3, <2>4, TwoBytes
<1>8. CASE k = n /\ Short <= n
  <2>1. all[k + 1] = [field |-> "first", value |-> ShortByte(0)] /\ ShortByte(0) \in Byte
    BY <1>1, <1>2, <1>8 DEF ShortByte, Byte
  <2>2. new \in Memory /\ new = [m EXCEPT !.first = ShortByte(0)]
    BY <1>3, <2>1, StoreChanges
  <2>3. new.first = ShortByte(0) /\ new.crc = m.crc /\ new.deleted = m.deleted /\ new.data = m.data
    BY <2>2 DEF Memory
  <2>4. SoundBytes(new)
    BY <2>3, TwoBytes DEF SoundBytes, ShortByte
  <2>5. QED
    BY <1>1, <1>5, <1>8, <2>2, <2>3, <2>4, TwoBytes
<1>9. CASE k = n + 1 /\ Short <= n
  <2>1. all[k + 1] = [field |-> "second", value |-> n % Base]
    <3>1. k + 1 = n + 2
      BY <1>1, <1>9
    <3>2. QED
      BY <1>2, <1>9, <3>1
  <2>2. new \in Memory /\ new = [m EXCEPT !.second = n % Base]
    BY <1>3, <1>4, <2>1, StoreChanges
  <2>3. /\ new.second = n % Base /\ new.first = m.first /\ new.crc = m.crc
        /\ new.deleted = m.deleted /\ new.data = m.data
    BY <2>2 DEF Memory
  <2>4. QED
    BY <1>1, <1>5, <1>9, <2>2, <2>3, TwoBytes DEF SoundBytes
<1>10. CASE k = n + 2 /\ Short <= n
  <2>1. all[k + 1] = [field |-> "first", value |-> LongByte(0)] /\ LongByte(0) \in Byte
    <3>1. k + 1 = n + 3
      BY <1>1, <1>10
    <3>2. QED
      BY <1>2, <1>10, <3>1 DEF LongByte, Byte
  <2>2. new \in Memory /\ new = [m EXCEPT !.first = LongByte(0)]
    BY <1>3, <2>1, StoreChanges
  <2>3. /\ new.first = LongByte(0) /\ new.second = m.second /\ new.crc = m.crc
        /\ new.deleted = m.deleted /\ new.data = m.data
    BY <2>2 DEF Memory
  <2>4. SoundBytes(new)
    BY <1>1, <1>10, <2>3, TwoBytes, SizesAreNatural DEF SoundBytes, LongByte
  <2>5. QED
    BY <1>1, <1>5, <1>10, <2>2, <2>3, <2>4, TwoBytes
<1>11. CASE k = n + 3 /\ Short <= n
  <2>1. all[k + 1] = [field |-> "first", value |-> LongByte(n \div Base)] /\ LongByte(n \div Base) \in Byte
    <3>1. k + 1 = n + 4
      BY <1>1, <1>11
    <3>2. QED
      BY <1>2, <1>4, <1>11, <3>1 DEF LongByte, Byte
  <2>2. new \in Memory /\ new = [m EXCEPT !.first = LongByte(n \div Base)]
    BY <1>3, <2>1, StoreChanges
  <2>3. /\ new.first = LongByte(n \div Base) /\ new.second = m.second /\ new.crc = m.crc
        /\ new.deleted = m.deleted /\ new.data = m.data
    BY <2>2 DEF Memory
  <2>4. SoundBytes(new)
    BY <1>1, <1>11, <2>3, TwoBytes, SizesAreNatural DEF SoundBytes, LongByte
  <2>5. /\ n + 2 <= k /\ ~(n < Short) /\ ~(count + 1 <= k + 1) /\ ~(count + 2 <= k + 1)
        /\ \A i \in 1 .. n : i <= k
    BY <1>1, <1>11, TwoBytes
  <2>6. new.second = n % Base
    BY <1>5, <1>11, <2>3, <2>5
  <2>7. \A i \in 1 .. n : new.data[i] = time
    BY <1>5, <2>3, <2>5
  <2>8. QED
    BY <2>2, <2>3, <2>4, <2>5, <2>6, <2>7, Zenon
<1>12. CASE k = count
  <2>1. all[k + 1] = [field |-> "crc", value |-> Value(time, n)] /\ Value(time, n) \in Seq(Nat)
    BY <1>1, <1>2, <1>12, ValueIs
  <2>2. new \in Memory /\ new = [m EXCEPT !.crc = Value(time, n)]
    BY <1>3, <2>1, StoreChanges
  <2>3. /\ new.crc = Value(time, n) /\ new.first = m.first /\ new.second = m.second
        /\ new.deleted = m.deleted /\ new.data = m.data
    BY <2>2 DEF Memory
  <2>4. SoundBytes(new)
    BY <1>1, <2>3, ValueIs DEF SoundBytes
  <2>5. QED
    BY <1>1, <1>5, <1>12, <2>2, <2>3, <2>4, TwoBytes
<1>13. CASE k = count + 1
  <2>1. all[k + 1] = [field |-> "time", value |-> time]
    <3>1. k + 1 = count + 2
      BY <1>1, <1>13
    <3>2. QED
      BY <1>2, <3>1
  <2>2. new \in Memory /\ new = [m EXCEPT !.time = time]
    BY <1>3, <2>1, StoreChanges
  <2>3. /\ new.time = time /\ new.first = m.first /\ new.second = m.second /\ new.crc = m.crc
        /\ new.deleted = m.deleted /\ new.data = m.data
    BY <2>2 DEF Memory
  <2>4. QED
    BY <1>1, <1>5, <1>13, <2>2, <2>3, TwoBytes DEF SoundBytes
<1>14. QED
  BY <1>1, <1>3, <1>6, <1>7, <1>8, <1>9, <1>10, <1>11, <1>12, <1>13, TwoBytes

\* After a store the record is in nobody's state: no reader is fresh.
LEMMA WriteStep == ASSUME IInv, NEW t \in alive, Write(t), UNCHANGED alive PROVE IInv'
<1> DEFINE stores == local[t].stores
           new == [local[t] EXCEPT !.stores = Tail(stores)]
<1>1. /\ TypeInv /\ t \in Thread /\ pc[t] = "write" /\ stores # <<>> /\ Writing(t)
      /\ memory' = StoreIn(memory, Head(stores))
      /\ local' = [local EXCEPT ![t] = new]
      /\ local[t] \in Locals /\ stores \in Seq(Store) /\ local[t].call \in {"Set", "Delete"}
      /\ UNCHANGED <<state, clock, pc, published, alive>>
  BY LocalsOf DEF Write, Keep, IInv, TypeInv, Writing, WriterPC, CallInv
<1>2. IsCorrupted(state) /\ local[t].ticket = state /\ \A u \in Thread : Writing(u) => u = t
  BY <1>1 DEF IInv, WriterInv
<1>3. memory \in Memory /\ MemoryInv
  BY DEF IInv, TypeInv
<1>4. /\ new \in Locals /\ new.stores = Tail(stores)
      /\ \A f \in {"call", "ticket", "size", "enterTime"} : new[f] = local[t][f]
  <2>1. Tail(stores) \in Seq(Store)
    BY <1>1, HeadTailProperties
  <2> HIDE DEF stores
  <2>2. QED
    BY <1>1, <2>1 DEF Locals
<1> HIDE DEF new
<1>5. local'[t] = new /\ \A u \in Thread \ {t} : local'[u] = local[u]
  BY <1>1 DEF TypeInv
<1>6. /\ memory' \in Memory /\ MemoryInv'
      /\ local[t].call = "Set" =>
            /\ new.size <= Capacity /\ ~memory'.deleted
            /\ \E k \in 0 .. Len(SetStores(new.enterTime, new.size)) :
                /\ new.stores = SubSeq(SetStores(new.enterTime, new.size), k + 1,
                                       Len(SetStores(new.enterTime, new.size)))
                /\ Stored(memory', new.enterTime, new.size, k)
      /\ local[t].call = "Delete" =>
            /\ new.stores \in {DeleteStores, <<>>}
            /\ ValueIn(memory') = memory'.crc
  <2>1. CASE local[t].call = "Set"
    <3>1. PICK time \in Nat, n \in 0 .. Capacity : time = local[t].enterTime /\ n = local[t].size
      <4>1. local[t].size <= Capacity
        BY <1>1, <2>1 DEF IInv, StoresInv
      <4>2. QED
        BY <1>1, <4>1, LocalsOf, SizesAreNatural
    <3>2. PICK all \in Seq(Store) : all = SetStores(time, n)
      BY SetStoresAre
    <3>3. PICK k \in 0 .. Len(all) :
                /\ stores = SubSeq(all, k + 1, Len(all))
                /\ Stored(memory, time, n, k)
      BY <1>1, <2>1, <3>1, <3>2 DEF IInv, StoresInv
    <3>4. /\ k + 1 \in 1 .. Len(all) /\ Head(stores) = all[k + 1]
          /\ Tail(stores) = SubSeq(all, k + 2, Len(all))
      BY <1>1, <3>3, OneLess
    <3>5. k \in Nat /\ k < Len(all) /\ Len(all) \in Nat /\ k + 1 \in 0 .. Len(all) /\ (k + 1) + 1 = k + 2
      BY <3>4, LenProperties
    <3>6. /\ memory' \in Memory /\ SoundBytes(memory') /\ memory'.deleted = memory.deleted
          /\ Stored(memory', time, n, k + 1)
      BY <1>1, <1>3, <3>2, <3>3, <3>4, <3>5, StoredStep DEF MemoryInv
    <3>7. ~memory.deleted
      BY <1>1, <2>1 DEF IInv, StoresInv
    <3>8. time = new.enterTime /\ n = new.size /\ n <= Capacity
      BY <1>4, <3>1, SizesAreNatural
    <3>9. new.stores = SubSeq(all, (k + 1) + 1, Len(all))
      BY <1>4, <3>4, <3>5
    <3>10. QED
      BY <2>1, <3>2, <3>5, <3>6, <3>7, <3>8, <3>9 DEF MemoryInv
  <2>2. CASE local[t].call = "Delete"
    <3>1. stores \in {DeleteStores, <<>>} /\ ValueIn(memory) = memory.crc
      BY <1>1, <2>2 DEF IInv, StoresInv
    <3>2. stores = <<[field |-> "deleted", value |-> TRUE]>>
      BY <1>1, <3>1 DEF DeleteStores
    <3>3. Head(stores) = [field |-> "deleted", value |-> TRUE] /\ Tail(stores) = <<>>
      <4>1. PICK s : s = [field |-> "deleted", value |-> TRUE]
        OBVIOUS
      <4>2. stores = <<s>>
        BY <3>2, <4>1
      <4>3. QED
        BY <4>1, <4>2
    <3>4. memory' \in Memory /\ memory' = [memory EXCEPT !.deleted = TRUE]
      BY <1>1, <1>3, <3>3, StoreChanges
    <3>5. \A f \in {"first", "second", "crc", "data"} : memory'[f] = memory[f]
      BY <1>3, <3>4 DEF Memory
    <3>6. SizeIn(memory') = SizeIn(memory)
      BY <3>5 DEF SizeIn
    <3>7. ValueIn(memory') = memory'.crc
      BY <3>1, <3>5, <3>6 DEF ValueIn
    <3>8. MemoryInv'
      BY <1>3, <3>5 DEF MemoryInv, SoundBytes
    <3>9. QED
      BY <1>4, <2>2, <3>3, <3>4, <3>7, <3>8
  <2>3. QED
    BY <1>1, <2>1, <2>2
<1>7. TypeInv'
  BY <1>1, <1>4, <1>6 DEF TypeInv
<1>8. \A u \in Thread : Writing(u)' <=> Writing(u)
  BY <1>1 DEF Writing
<1>9. WriterInv'
  BY <1>1, <1>2, <1>4, <1>5, <1>8 DEF WriterInv
<1>10. HistoryInv'
  BY <1>1 DEF IInv, HistoryInv
<1>11. ~Untouched'
  BY <1>1, <1>2 DEF Untouched, Writing, WriterPC, TypeInv
<1>12. StableInv'
  BY <1>11 DEF StableInv
<1>13. StoresInv'
  BY <1>2, <1>4, <1>5, <1>6, <1>8 DEF StoresInv
<1>14. CallInv(t)'
  BY <1>1, <1>4, <1>5 DEF CallInv, ReaderPC
<1>15. ASSUME NEW u \in Thread \ {t} PROVE CallInv(u)'
  BY <1>1, <1>5, <1>11, OtherCall DEF Fresh
<1>16. QED
  BY <1>6, <1>7, <1>9, <1>10, <1>12, <1>13, <1>14, <1>15 DEF IInv

\* The value, size and checksum of a Set all of whose stores are made.
LEMMA AllStored ==
    ASSUME NEW m \in Memory, NEW time \in Nat, NEW n \in 0 .. Capacity,
           Stored(m, time, n, Len(SetStores(time, n)))
    PROVE  ValueIn(m) = Value(time, n) /\ m.crc = Value(time, n) /\ m.time = time
<1>1. n \in Nat /\ SizeCount(n) \in Nat /\ Len(SetStores(time, n)) = n + SizeCount(n) + 2
      /\ (n < Short => SizeCount(n) = 1) /\ (Short <= n => SizeCount(n) = 4)
  <2>1. Len(SetStores(time, n)) = n + SizeCount(n) + 2
    BY SetStoresAre
  <2>2. QED
    BY <2>1, SizesAreNatural, TwoBytes DEF SizeCount
<1>2. /\ \A i \in 1 .. n : m.data[i] = time
      /\ n < Short => m.first = ShortByte(n)
      /\ Short <= n => m.second = n % Base /\ m.first = LongByte(n \div Base)
      /\ m.crc = Value(time, n) /\ m.time = time
  BY <1>1 DEF Stored
<1>3. m.first \in Byte /\ m.second \in LowerPart /\ m.data \in [1 .. Capacity -> Nat]
  BY DEF Memory
<1>4. Total(m) = n
  <2>1. CASE n < Short
    BY <1>2, <2>1 DEF Total, NumberIn, ShortByte
  <2>2. CASE Short <= n
    <3>1. Total(m) = (n \div Base) * Base + (n % Base)
      BY <1>2, <2>2 DEF Total, NumberIn, LongByte
    <3>2. QED
      BY <1>1, <3>1, Parts
  <2>3. QED
    BY <1>1, <2>1, <2>2, TwoBytes
<1>5. SizeIn(m) = n
  BY <1>1, <1>3, <1>4, SizeBound, SizesAreNatural
<1>6. ValueIn(m) = [i \in 1 .. n |-> m.data[i]]
  BY <1>3, <1>5, ValueBytes
<1>7. QED
  BY <1>2, <1>6 DEF Value

\* The state is stable again and the record is its version.
LEMMA EndWriteStep == ASSUME IInv, NEW t \in alive, EndWrite(t), UNCHANGED alive PROVE IInv'
<1>1. /\ TypeInv /\ t \in Thread /\ pc[t] = "write" /\ local[t].stores = <<>> /\ Writing(t)
      /\ state' = state + 1 /\ state \in Nat
      /\ pc' = [pc EXCEPT ![t] = "wrote"]
      /\ local[t] \in Locals /\ local[t].call \in {"Set", "Delete"}
      /\ UNCHANGED <<memory, clock, local, alive>>
  BY LocalsOf DEF EndWrite, Goto, IInv, TypeInv, Writing, WriterPC, CallInv
<1>2. IsCorrupted(state) /\ local[t].ticket = state /\ \A u \in Thread : Writing(u) => u = t
  BY <1>1 DEF IInv, WriterInv
<1>3. ~IsCorrupted(state') /\ Untouched' /\ LastStable' = state + 1
  BY <1>1, <1>2, Parity DEF Untouched, LastStable
<1>4. /\ TypeInv' /\ pc'[t] = "wrote"
      /\ \A u \in Thread \ {t} : pc'[u] = pc[u] /\ local'[u] = local[u]
  BY <1>1 DEF TypeInv, PC
<1>5. /\ DOMAIN published' = DOMAIN published \cup {state + 1}
      /\ published'[state + 1] = Content(memory)
      /\ \A v \in DOMAIN published : v # state + 1 /\ published'[v] = published[v]
  <2>1. published' = [v \in DOMAIN published \cup {state + 1} |->
                        IF v = state + 1 THEN Content(memory) ELSE published[v]]
    BY <1>1 DEF EndWrite, Publish
  <2>2. \A v \in DOMAIN published : v # state + 1
    BY <1>1 DEF IInv, HistoryInv
  <2>3. QED
    BY <2>1, <2>2
<1>6. /\ ValueIn(memory) = memory.crc
      /\ local[t].call = "Set" =>
            Content(memory) = [time |-> local[t].enterTime, deleted |-> FALSE,
                               value |-> Value(local[t].enterTime, local[t].size)]
  <2>1. CASE local[t].call = "Set"
    <3>1. PICK time \in Nat, n \in 0 .. Capacity : time = local[t].enterTime /\ n = local[t].size
      <4>1. local[t].size <= Capacity
        BY <1>1, <2>1 DEF IInv, StoresInv
      <4>2. QED
        BY <1>1, <4>1, LocalsOf, SizesAreNatural
    <3>2. PICK all \in Seq(Store) : all = SetStores(time, n)
      BY SetStoresAre
    <3>3. PICK k \in 0 .. Len(all) :
                /\ local[t].stores = SubSeq(all, k + 1, Len(all))
                /\ Stored(memory, time, n, k)
      BY <1>1, <2>1, <3>1, <3>2 DEF IInv, StoresInv
    <3>4. k = Len(all)
      BY <1>1, <3>3, NothingLeft
    <3>5. ValueIn(memory) = Value(time, n) /\ memory.crc = Value(time, n) /\ memory.time = time
      BY <1>1, <3>2, <3>3, <3>4, AllStored DEF TypeInv
    <3>6. memory.deleted = FALSE
      BY <1>1, <2>1, MemoryIs DEF IInv, StoresInv
    <3>7. QED
      BY <3>1, <3>5, <3>6 DEF Content
  <2>2. CASE local[t].call = "Delete"
    BY <1>1, <2>2 DEF IInv, StoresInv
  <2>3. QED
    BY <1>1, <2>1, <2>2
<1>7. \A u \in Thread : ~Writing(u)'
  BY <1>1, <1>2, <1>4 DEF Writing, WriterPC
<1>8. MemoryInv' /\ WriterInv' /\ StoresInv'
  BY <1>1, <1>7 DEF IInv, MemoryInv, WriterInv, StoresInv
<1>9. HistoryInv'
  BY <1>1, <1>3, <1>5 DEF IInv, HistoryInv
<1>10. StableInv'
  <2>1. ValueIn(memory)' = ValueIn(memory) /\ Content(memory)' = Content(memory)
    BY <1>1
  <2>2. QED
    BY <1>1, <1>3, <1>5, <1>6, <2>1 DEF StableInv
<1>11. CallInv(t)'
  BY <1>1, <1>2, <1>4, <1>5, <1>6 DEF CallInv, ReaderPC
<1>12. ASSUME NEW u \in Thread \ {t} PROVE CallInv(u)'
  <2>1. pc[u] \in ReaderPC => ~Fresh(u)'
    BY <1>3, <1>4, <1>5 DEF Fresh, IInv, CallInv
  <2>2. QED
    BY <1>4, <1>5, <2>1, OtherCall
<1>13. QED
  BY <1>4, <1>8, <1>9, <1>10, <1>11, <1>12 DEF IInv

\* Nothing has been stored when a writer gives the record back.
LEMMA RevertWriteStep == ASSUME IInv, NEW t \in alive, RevertWrite(t), UNCHANGED alive PROVE IInv'
<1>1. /\ TypeInv /\ t \in Thread /\ pc[t] = "revert" /\ Writing(t)
      /\ state' = state - 1 /\ state \in Nat
      /\ pc' = [pc EXCEPT ![t] = "idle"] /\ local' = [local EXCEPT ![t] = NoLocals]
      /\ UNCHANGED <<memory, clock, published, alive>>
  BY DEF RevertWrite, Goto, IInv, TypeInv, Writing, WriterPC
<1>2. IsCorrupted(state) /\ \A u \in Thread : Writing(u) => u = t
  BY <1>1 DEF IInv, WriterInv
<1>3. state' \in Nat /\ ~IsCorrupted(state')
  BY <1>1, <1>2, Parity DEF IsCorrupted
<1>4. Untouched /\ LastStable' = LastStable /\ LastStable = state - 1
  BY <1>1, <1>2, <1>3 DEF Untouched, LastStable
<1>5. /\ TypeInv' /\ pc'[t] = "idle" /\ local'[t] = NoLocals
      /\ \A u \in Thread \ {t} : pc'[u] = pc[u] /\ local'[u] = local[u]
  <2>1. "idle" \in PC /\ memory' \in Memory /\ alive' \subseteq Thread /\ clock' \in Nat
    BY <1>1 DEF PC, TypeInv
  <2>2. QED
    BY <1>1, <1>3, <2>1, NoLocalsAre, TypeStep
<1>6. \A u \in Thread : ~Writing(u)'
  BY <1>1, <1>2, <1>5 DEF Writing, WriterPC
<1>7. MemoryInv' /\ WriterInv' /\ StoresInv'
  BY <1>1, <1>6 DEF IInv, MemoryInv, WriterInv, StoresInv
<1>8. HistoryInv'
  BY <1>1, <1>2 DEF IInv, HistoryInv
<1>9. StableInv'
  <2>1. ValueIn(memory)' = ValueIn(memory) /\ Content(memory)' = Content(memory)
    BY <1>1
  <2>2. QED
    BY <1>1, <1>4, <2>1 DEF IInv, StableInv
<1>10. CallInv(t)'
  BY <1>5 DEF CallInv, ReaderPC, WriterPC
<1>11. ASSUME NEW u \in Thread \ {t} PROVE CallInv(u)'
  <2>1. Fresh(u)' => Fresh(u)
    BY <1>4, <1>5 DEF Fresh
  <2>2. QED
    BY <1>1, <1>5, <2>1, OtherCall
<1>12. QED
  BY <1>5, <1>7, <1>8, <1>9, <1>10, <1>11 DEF IInv

\* A killed writer leaves an odd state behind.
LEMMA CrashStep == ASSUME IInv, NEW t \in alive, Crash(t) PROVE IInv'
<1>1. /\ TypeInv /\ alive' = alive \ {t}
      /\ UNCHANGED <<state, memory, clock, pc, local, published>>
  BY DEF Crash, IInv
<1>2. TypeInv'
  BY <1>1 DEF TypeInv
<1>3. \A u \in Thread : Writing(u)' => Writing(u)
  BY <1>1 DEF Writing
<1>4. (Untouched' => Untouched) /\ LastStable' = LastStable
  BY <1>1 DEF Untouched, LastStable
<1>5. MemoryInv' /\ WriterInv' /\ HistoryInv'
  BY <1>1, <1>3 DEF IInv, MemoryInv, WriterInv, HistoryInv
<1>6. ValueIn(memory)' = ValueIn(memory) /\ Content(memory)' = Content(memory)
  BY <1>1
<1>7. StableInv'
  BY <1>1, <1>4, <1>6 DEF IInv, StableInv
<1>8. StoresInv'
  <2>1. StoresInv
    BY DEF IInv
  <2>2. QED
    BY <1>1, <1>3, <1>6, <2>1 DEF StoresInv
<1>9. ASSUME NEW u \in Thread PROVE CallInv(u)'
  <2>1. Fresh(u)' => Fresh(u)
    BY <1>1, <1>4 DEF Fresh
  <2>2. QED
    BY <1>1, <2>1, OtherCall
<1>10. QED
  BY <1>2, <1>5, <1>7, <1>8, <1>9 DEF IInv

\* The repair makes a version of what agrees with its checksum.
LEMMA TryFixStep == ASSUME IInv, TryFixStateUnsafe PROVE IInv'
<1>1. /\ TypeInv /\ state \in Nat /\ state' = state + 1 /\ IsCorrupted(state)
      /\ ValueIn(memory) = memory.crc
      /\ \A u \in alive : pc[u] = "idle"
      /\ UNCHANGED <<memory, clock, alive, pc, local>>
  BY DEF TryFixStateUnsafe, IInv, TypeInv
<1>2. ~IsCorrupted(state') /\ LastStable' = state + 1
  BY <1>1, Parity DEF LastStable
<1>3. TypeInv'
  BY <1>1 DEF TypeInv
<1>4. /\ DOMAIN published' = DOMAIN published \cup {state + 1}
      /\ published'[state + 1] = Content(memory)
      /\ \A v \in DOMAIN published : v # state + 1 /\ published'[v] = published[v]
  <2>1. published' = [v \in DOMAIN published \cup {state + 1} |->
                        IF v = state + 1 THEN Content(memory) ELSE published[v]]
    BY <1>1 DEF TryFixStateUnsafe, Publish
  <2>2. \A v \in DOMAIN published : v # state + 1
    BY <1>1 DEF IInv, HistoryInv
  <2>3. QED
    BY <2>1, <2>2
<1>5. \A u \in Thread : ~Writing(u)'
  BY <1>1 DEF Writing, WriterPC
<1>6. MemoryInv' /\ WriterInv' /\ StoresInv'
  BY <1>1, <1>5 DEF IInv, MemoryInv, WriterInv, StoresInv
<1>7. HistoryInv'
  BY <1>1, <1>2, <1>4 DEF IInv, HistoryInv
<1>8. StableInv'
  <2>1. ValueIn(memory)' = ValueIn(memory) /\ Content(memory)' = Content(memory)
    BY <1>1
  <2>2. QED
    BY <1>1, <1>2, <1>4, <2>1 DEF StableInv
<1>9. ASSUME NEW u \in Thread PROVE CallInv(u)'
  <2>1. pc[u] \in ReaderPC => ~Fresh(u)'
    BY <1>1, <1>2, <1>4 DEF Fresh, IInv, CallInv
  <2>2. QED
    BY <1>1, <1>4, <2>1, OtherCall
<1>10. QED
  BY <1>3, <1>6, <1>7, <1>8, <1>9 DEF IInv

\* Every step keeps the invariant.
LEMMA NextIInv == IInv /\ [Next]_vars => IInv'
<1> SUFFICES ASSUME IInv, [Next]_vars PROVE IInv'
  OBVIOUS
<1>1. ASSUME NEW t \in alive, Call(t) \/ Step(t) \/ TimeOut(t) \/ NoMemory(t), UNCHANGED alive
      PROVE  IInv'
  <2>1. t \in Thread /\ TypeInv
    BY DEF IInv, TypeInv
  <2>2. CASE Call(t)
    BY <1>1, <2>1, <2>2, CallStep
  <2>3. CASE BeginRead(t)
    BY <1>1, <2>1, <2>3, BeginReadStep
  <2>4. CASE ReadTime(t)
    BY <1>1, <2>1, <2>4, ReadTimeStep
  <2>5. CASE ReadDeleted(t)
    BY <1>1, <2>1, <2>5, ReadDeletedStep
  <2>6. CASE CompareFirst(t)
    BY <1>1, <2>1, <2>6, CompareFirstStep
  <2>7. CASE CompareSecond(t)
    BY <1>1, <2>1, <2>7, CompareSecondStep
  <2>8. CASE LoadFirst(t)
    BY <1>1, <2>1, <2>8, LoadFirstStep
  <2>9. CASE LoadSecond(t)
    BY <1>1, <2>1, <2>9, LoadSecondStep
  <2>10. CASE CopyByte(t)
    BY <1>1, <2>1, <2>10, CopyByteStep
  <2>11. CASE CheckRead(t)
    BY <1>1, <2>1, <2>11, CheckReadStep
  <2>12. CASE ReturnRead(t) \/ ReturnWrite(t) \/ TimeOut(t) \/ NoMemory(t)
    BY <1>1, <2>1, <2>12, IdleStep DEF ReturnRead, ReturnWrite, TimeOut, NoMemory, WriterPC
  <2>13. CASE BeginWrite(t)
    BY <1>1, <2>13, BeginWriteStep
  <2>14. CASE Decide(t)
    BY <1>1, <2>14, DecideStep
  <2>15. CASE Write(t)
    BY <1>1, <2>15, WriteStep
  <2>16. CASE EndWrite(t)
    BY <1>1, <2>16, EndWriteStep
  <2>17. CASE RevertWrite(t)
    BY <1>1, <2>17, RevertWriteStep
  <2>18. QED
    BY <1>1, <2>2, <2>3, <2>4, <2>5, <2>6, <2>7, <2>8, <2>9, <2>10, <2>11, <2>12, <2>13, <2>14,
       <2>15, <2>16, <2>17 DEF Step
<1>2. ASSUME UNCHANGED vars PROVE IInv'
  <2>1. UNCHANGED <<state, memory, clock, alive, pc, local, published>>
    BY <1>2 DEF vars
  <2>2. TypeInv' /\ MemoryInv' /\ WriterInv' /\ HistoryInv'
    BY <2>1 DEF IInv, TypeInv, MemoryInv, WriterInv, HistoryInv, Writing
  <2>3. Untouched' = Untouched /\ LastStable' = LastStable
    BY <2>1 DEF Untouched, LastStable
  <2>4. ValueIn(memory)' = ValueIn(memory) /\ Content(memory)' = Content(memory)
    BY <2>1
  <2>5. StableInv'
    BY <2>1, <2>3, <2>4 DEF IInv, StableInv
  <2>6. StoresInv'
    <3>1. StoresInv
      BY DEF IInv
    <3>2. QED
      BY <2>1, <2>4, <3>1 DEF StoresInv, Writing
  <2>7. ASSUME NEW u \in Thread PROVE CallInv(u)'
    BY <2>1, <2>3, OtherCall DEF Fresh
  <2>8. QED
    BY <2>2, <2>5, <2>6, <2>7 DEF IInv
<1>3. QED
  BY <1>1, <1>2, CrashStep, TryFixStep DEF Next

-----------------------------------------------------------------------------
(* The theorems.                                                           *)

\* The invariant of every behaviour: what a reader has loaded is in the record as
\* long as nobody has stored, and what a writer has stored is the first part of
\* the stores of its call.
THEOREM RecordInvariant == Spec => []IInv
BY InitIInv, NextIInv, PTL DEF Spec

\* What GetValueTimed returns and what SetValueTimed reports is one version of
\* the record, whatever the threads, the sizes and the width of a byte.
THEOREM CallsReportTheirVersionThm == Spec => []CallsReportTheirVersion
<1>1. IInv => CallsReportTheirVersion
  BY DEF IInv, CallInv, CallsReportTheirVersion
<1>2. QED
  BY RecordInvariant, <1>1, PTL

\* Between the sessions, and after a repair, the value is one writer's and its
\* checksum is right.
THEOREM StableValueIsWholeThm == Spec => []StableValueIsWhole
<1>1. IInv => StableValueIsWhole
  <2>1. SUFFICES ASSUME IInv, ~IsCorrupted(state)
                 PROVE  IsWhole(ValueIn(memory)) /\ ValueIn(memory) = memory.crc
    BY DEF StableValueIsWhole
  <2>2. ValueIn(memory) = memory.crc
    BY <2>1 DEF IInv, StableInv, Untouched
  <2>3. IsWhole(memory.crc)
    BY <2>1 DEF IInv, MemoryInv, SoundBytes
  <2>4. QED
    BY <2>2, <2>3
<1>2. QED
  BY RecordInvariant, <1>1, PTL

\* A reader that is about to overrun the value it began to read, or a clone, is in
\* a session that a writer has overtaken.
THEOREM OverrunsAreDiscardedThm == Spec => []OverrunsAreDiscarded
<1>1. IInv => OverrunsAreDiscarded
  <2>1. SUFFICES ASSUME IInv, NEW t \in Thread, state = local[t].ticket,
                        \/ pc[t] = "assertCopied"
                        \/ pc[t] = "copy" /\ local[t].size > Len(published[local[t].ticket].value)
                 PROVE  FALSE
    BY DEF OverrunsAreDiscarded
  <2>2. pc[t] \in ReaderPC /\ TypeInv
    BY <2>1 DEF ReaderPC, IInv
  <2>3. local[t].ticket \in DOMAIN published
    BY <2>1, <2>2 DEF IInv, CallInv
  <2>4. ~IsCorrupted(state)
    BY <2>1, <2>3 DEF IInv, HistoryInv
  <2>5. Fresh(t) /\ published[state] = Content(memory)
    BY <2>1, <2>4 DEF Fresh, Untouched, LastStable, IInv, StableInv
  <2>6. Loaded(t)
    BY <2>1, <2>2, <2>5 DEF IInv, CallInv
  <2>7. pc[t] = "copy" /\ local[t].size = SizeIn(memory)
    BY <2>1, <2>6 DEF Loaded
  <2>8. published[local[t].ticket].value = ValueIn(memory)
    BY <2>1, <2>5 DEF Content
  <2>9. Len(ValueIn(memory)) = SizeIn(memory) /\ SizeIn(memory) \in Nat
    BY <2>2, MemoryIs, ValueBytes, SizeBound
  <2>10. QED
    BY <2>1, <2>7, <2>8, <2>9
<1>2. QED
  BY RecordInvariant, <1>1, PTL
=============================================================================
