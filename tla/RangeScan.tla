----------------------------- MODULE RangeScan -----------------------------
(***************************************************************************)
(* Find, FindAll and FindPath of SortedTable.c: from the two searches of   *)
(* the index to the window of slots that is read, and the paths that       *)
(* FindPath makes from its argument.                                       *)
(*                                                                         *)
(* A key is a sequence of character codes, an index the sequence of its    *)
(* keys in order; orders count from 0. Positions are signed and counts     *)
(* unsigned words, and expressions that mix them are unsigned, as in C.    *)
(*                                                                         *)
(* That the index does not change between search and reading is checked    *)
(* by the code at every slot (FillData); IndexArray is about that.         *)
(***************************************************************************)
EXTENDS Integers, SequencesExt

CONSTANT Word       \* the number of values of a word, 2^64

ASSUME WordAssumption == Word \in Nat \ {0} /\ Word % 2 = 0

Unsigned(n) == n % Word
Signed(n) == LET u == n % Word IN IF u < Word \div 2 THEN u ELSE u - Word

Slash == 47

\* SizeString.Compare: the first difference of two bytes, or of the sizes.
Compare(a, b) ==
    LET common == {i \in (DOMAIN a) \cap (DOMAIN b) : a[i] # b[i]}
    IN  IF common = {} THEN Len(a) - Len(b)
        ELSE LET i == CHOOSE j \in common : \A k \in common : j <= k IN a[i] - b[i]

Less(a, b) == Compare(a, b) < 0

\* _Search: the order of the key, or minus the order it would take minus one.
Search(index, key) ==
    LET order == Cardinality({i \in DOMAIN index : Less(index[i], key)})
    IN  IF key \in Range(index) THEN order ELSE -order - 1

-----------------------------------------------------------------------------
(* Find and FindAll *)

\* The ends of the range as orders of the first and last slot in it.
LowOrder(position, closed) ==
    IF position < 0 THEN -position - 1 ELSE IF closed THEN position ELSE position + 1

HighOrder(position, closed) ==
    IF position < 0 THEN -position - 2 ELSE IF closed THEN position ELSE position - 1

\* Mutant of Window: the last slot is not counted when the count is compared.
WindowShort(first, last, from, desired) ==
    LET low == Signed(first + from)
        high == IF 0 < desired /\ desired < Unsigned(last - low)
                THEN Signed(low + desired - 1) ELSE last
    IN  [low |-> low, high |-> high, count |-> Unsigned(high - low + 1)]

\* _Find_FillData: the window of the range that the caller asks for.
Window(first, last, from, desired) ==
    LET low == Signed(first + from)
        high == IF 0 < desired /\ desired < Unsigned(last - low + 1)
                THEN Signed(low + desired - 1) ELSE last
    IN  [low |-> low, high |-> high, count |-> Unsigned(high - low + 1)]

\* Find. A range is [low, lowClosed, high, highClosed, from, desired].
Find(index, r) ==
    Window(LowOrder(Search(index, r.low), r.lowClosed),
           HighOrder(Search(index, r.high), r.highClosed), r.from, r.desired)

\* FindAll: from slot zero to the count, which is taken for a key that was found.
FindAll(index, from, desired) ==
    Window(LowOrder(0, TRUE), HighOrder(Len(index), FALSE), from, desired)

\* The slots that are copied out, when the memory for them could be had: not
\* when the count is a negative difference.
SlotsRead(w) == IF w.count < Word \div 2 THEN w.low .. w.high ELSE {}

-----------------------------------------------------------------------------
(* FindPath *)

\* Where a text is joined: a path without its last slash, or with one more.
JoinBase(text, sub, asPath) ==
    IF ~(asPath /\ text # <<>> /\ (Last(text) = Slash) = (sub[1] = Slash)) THEN text
    ELSE IF sub[1] = Slash THEN Front(text) ELSE Append(text, Slash)

\* How much of what is appended is copied: it is cut off when there is a little
\* room left. A negative count of bytes copies nothing.
Copied(room, base, sub) ==
    LET left == IF room # 0 THEN room - 1 - Len(base) ELSE 0
    IN  IF left # 0 /\ Len(sub) > left THEN left ELSE Len(sub)

\* StringBuilder.Concatenate with a given length; end is the last byte written.
Concatenate(text, room, sub, asPath) ==
    LET base == JoinBase(text, sub, asPath)
        result == base \o SubSeq(sub, 1, Copied(room, base, sub))
    IN  IF room # 0 /\ room <= Len(text) THEN [ok |-> FALSE, text |-> text, end |-> 0]
        ELSE [ok |-> TRUE, text |-> result, end |-> Len(result) + 1]

\* Mutant of NormalizePath: no room for the byte that ends the text.
NormalizePathTight(path) ==
    LET room == 2 + Len(path)
        a == Concatenate(<<>>, room, <<Slash>>, TRUE)
        b == IF path = <<>> THEN a ELSE Concatenate(a.text, room, path, TRUE)
        c == Concatenate(b.text, room, <<Slash>>, TRUE)
    IN  [text |-> c.text, room |-> room, ends |-> {a.end, b.end, c.end}]

\* _NormalizePath: one slash in front and one at the end. A path of size zero
\* appends the characters up to the end of the text, which are none.
NormalizePath(path) ==
    LET room == 3 + Len(path)
        a == Concatenate(<<>>, room, <<Slash>>, TRUE)
        b == IF path = <<>> THEN a ELSE Concatenate(a.text, room, path, TRUE)
        c == Concatenate(b.text, room, <<Slash>>, TRUE)
    IN  [text |-> c.text, room |-> room, ends |-> {a.end, b.end, c.end}]

\* The first key behind those that begin with the root.
AfterRoot(root) == [root EXCEPT ![Len(root)] = @ + 1]

\* Mutant of IsDeeper: the slash that ends a key counts as well.
IsDeeperOrEnds(root, key) ==
    \E i \in Len(root) + 1 .. Len(key) : key[i] = Slash

\* The scan of one level: a slash between the root and the last character of a
\* key puts the key on a deeper level.
IsDeeper(root, key) ==
    \E i \in Len(root) + 1 .. Len(key) - 1 : key[i] = Slash

\* The scan of the slots from order first to last, that one not: the keys of the
\* level in the slots before order n are scanned[n].
Level(index, root, first, last) ==
    LET scanned[n \in first .. last] ==
            IF n = first THEN <<>>
            ELSE IF IsDeeper(root, index[n]) THEN scanned[n - 1]
            ELSE Append(scanned[n - 1], index[n])
    IN  scanned[last]

\* _FindPath_FillData, scope ONE_LEVEL: the slots of the level in order, without
\* the root itself; a number of them skipped, a number of them taken.
OneLevel(index, root, from, desired) ==
    LET low == Search(index, root)
        high == Search(index, AfterRoot(root))
        first == IF low >= 0 THEN low + 1 ELSE -low - 1
        last == IF high >= 0 THEN high ELSE -high - 1
        level == Level(index, root, first, last)
        end == IF desired > 0 /\ from + desired < Len(level) THEN from + desired ELSE Len(level)
    IN  SubSeq(level, from + 1, end)

\* FindPath, scope SUBTREE: a Find from the root to the key behind it.
Subtree(index, root, from, desired) ==
    Find(index, [low |-> root, lowClosed |-> TRUE,
                 high |-> AfterRoot(root), highClosed |-> FALSE,
                 from |-> from, desired |-> desired])

\* FindPath, scope BASE: the count of records is set to one and then to the
\* count of the other scopes, which is zero.
Base(index, root) ==
    [error |-> IF Search(index, root) >= 0 THEN "NO" ELSE "NOT_FOUND", count |-> 0]
=============================================================================
