---------------------------- MODULE IndexGrowth ----------------------------
(***************************************************************************)
(* Reinterpret of SortedTable.c at the level of bytes: the index of a      *)
(* table whose buffer has grown moves to the end of the buffer, and its    *)
(* slots get the width that offsets of the new size need.                  *)
(*                                                                         *)
(* Memory is a function from the offsets of the buffer to bytes: behind    *)
(* its last one the mapping of the file ends. A header is a record of      *)
(* size, scale, indexBegin, indexEnd and wasted. The waits around the move *)
(* are in Table; here the writer is alone.                                 *)
(***************************************************************************)
EXTENDS Integers

CONSTANT Radix      \* the number of values of a byte, 256

ASSUME RadixAssumption == Radix \in Nat /\ Radix > 1

\* GET_INTEGER_SIZE_FROM_SCALE
SlotWidth(scale) == <<1, 2, 4, 8>>[scale + 1]

\* GET_INTEGER_SCALE: the narrowest slot that holds the size.
ScaleOf(size) ==
    IF size < Radix THEN 0 ELSE IF size < Radix ^ 2 THEN 1 ELSE IF size < Radix ^ 4 THEN 2 ELSE 3

\* POINTER_ROUND_DOWN_TO_SCALE, which goes down from a boundary too.
RoundDown(offset, scale) ==
    LET width == SlotWidth(scale) IN ((offset - width + 1) \div width) * width

CountOf(header) == (header.indexEnd - header.indexBegin) \div SlotWidth(header.scale)

\* A slot as a number, the lowest byte first: what its highest n bytes say.
Load(memory, at, width) ==
    LET top[n \in 0 .. width] ==
            IF n = 0 THEN 0 ELSE top[n - 1] * Radix + memory[at + width - n]
    IN  top[width]

\* A number without its lowest bytes.
Rest(n, width) ==
    LET rest[k \in 0 .. width] == IF k = 0 THEN n ELSE rest[k - 1] \div Radix
    IN  rest

Store(memory, at, width, n) ==
    LET rest == Rest(n, width)
    IN  [x \in DOMAIN memory |->
            IF x \in at .. at + width - 1 THEN rest[x - at] % Radix ELSE memory[x]]

CopySlot(memory, source, sourceScale, target, targetScale, i) ==
    Store(memory, target + i * SlotWidth(targetScale), SlotWidth(targetScale),
          Load(memory, source + i * SlotWidth(sourceScale), SlotWidth(sourceScale)))

\* Mutant of CopyArray: slots of any width are copied in a loop from the first on.
CopyArrayForward(memory, source, sourceScale, target, targetScale, count) ==
    LET copied[n \in 0 .. count] ==
            IF n = 0 THEN memory
            ELSE CopySlot(copied[n - 1], source, sourceScale, target, targetScale, n - 1)
    IN  copied[count]

\* _CopyArray: a memmove of slots of one width, or a loop from the last slot
\* back that widens them.
CopyArray(memory, source, sourceScale, target, targetScale, count) ==
    IF sourceScale = targetScale
    THEN [x \in DOMAIN memory |->
            IF x \in target .. target + count * SlotWidth(targetScale) - 1
            THEN memory[x - target + source] ELSE memory[x]]
    ELSE LET copied[n \in 0 .. count] ==
                 IF n = 0 THEN memory
                 ELSE CopySlot(copied[n - 1], source, sourceScale, target, targetScale, count - n)
         IN  copied[count]

\* The cases that _CopyArray gives up.
CannotCopy(source, sourceScale, target, targetScale) ==
    \/ sourceScale > targetScale
    \/ sourceScale < targetScale /\ source > target

\* The copy reaches behind the end of the buffer. Its loop begins there, with the
\* last slot, before it has stored anything inside.
LeavesBuffer(target, targetScale, count, size) ==
    count > 0 /\ target + count * SlotWidth(targetScale) > size

\* _Reinterpret_MoveIndexes. The new begin is computed with the width of the
\* slots of the old size, while the slots are copied with the new width: wider
\* ones may leave the buffer, which nothing tests, and otherwise the header counts
\* only those that fit between begin and end. An overrun ends the process (or goes
\* on over whatever is mapped behind the buffer, which is not modelled). The bytes
\* between the last slot and the end of the old buffer are wasted no more.
MoveIndexes(header, memory, size) ==
    LET scale == ScaleOf(size)
        count == CountOf(header)
        indexEnd == RoundDown(size, scale)
        indexBegin == indexEnd - count * SlotWidth(header.scale)
    IN  IF CannotCopy(header.indexBegin, header.scale, indexBegin, scale)
        THEN [result |-> "refused", header |-> header, memory |-> memory]
        ELSE IF LeavesBuffer(indexBegin, scale, count, size)
        THEN [result |-> "overrun", header |-> header, memory |-> memory]
        ELSE [result |-> "moved",
              header |-> [size |-> size, scale |-> scale,
                          indexBegin |-> indexBegin, indexEnd |-> indexEnd,
                          wasted |-> header.wasted
                                     + (header.indexEnd - RoundDown(header.size, header.scale))],
              memory |-> CopyArray(memory, header.indexBegin, header.scale,
                                   indexBegin, scale, count)]

\* _Reinterpret_Validate: a smaller size is refused, the same size does nothing.
Grow(header, memory, size) ==
    IF size < header.size THEN [result |-> "refused", header |-> header, memory |-> memory]
    ELSE IF size = header.size THEN [result |-> "moved", header |-> header, memory |-> memory]
    ELSE MoveIndexes(header, memory, size)

\* The slots that memory holds from an offset on, in order.
SlotsAt(memory, at, scale, count) ==
    [i \in 1 .. count |-> Load(memory, at + (i - 1) * SlotWidth(scale), SlotWidth(scale))]
=============================================================================
