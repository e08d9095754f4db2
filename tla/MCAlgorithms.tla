---------------------------- MODULE MCAlgorithms ----------------------------
(***************************************************************************)
(* Algorithms on inputs around the boundaries: short keys of three         *)
(* characters, sizes where the encoding gets longer, buffers where the     *)
(* width of a slot changes, moments around the changes of three clocks.    *)
(***************************************************************************)
EXTENDS Algorithms

Dash == 45
Letter == 97
Nought == 48    \* the character behind the slash

SortKeys(keys) ==
    [i \in 1 .. Cardinality(keys) |->
        CHOOSE k \in keys : Cardinality({j \in keys : Less(j, k)}) = i - 1]

-----------------------------------------------------------------------------
ShortKeys == {<<Dash>>, <<Letter>>, <<Letter, Dash>>, <<Letter, Letter>>}

MCRanges ==
    {[all |-> FALSE, index |-> SortKeys(keys), low |-> low, lowClosed |-> lc,
      high |-> high, highClosed |-> hc, from |-> from, desired |-> desired] :
        keys \in SUBSET ShortKeys, low \in ShortKeys, lc \in BOOLEAN,
        high \in ShortKeys, hc \in BOOLEAN, from \in {0, 1, 3}, desired \in {0, 1, 2}}
    \cup
    {[all |-> TRUE, index |-> SortKeys(keys), from |-> from, desired |-> desired] :
        keys \in SUBSET ShortKeys, from \in 0 .. 4, desired \in 0 .. 3}

TreeKeys ==
    {<<Slash>>, <<Slash, Letter>>, <<Slash, Letter, Slash>>, <<Slash, Letter, Dash>>,
     <<Slash, Letter, Nought>>, <<Slash, Letter, Slash, Letter>>,
     <<Slash, Letter, Slash, Letter, Slash>>, <<Slash, Letter, Slash, Letter, Slash, Letter>>,
     <<Slash, Letter, Slash, Dash>>}

MCPaths ==
    {[index |-> SortKeys(keys), path |-> path, from |-> from, desired |-> desired] :
        keys \in SUBSET TreeKeys,
        path \in {<<>>, <<Letter>>, <<Slash, Letter>>, <<Letter, Slash>>},
        from \in {0, 1}, desired \in {0, 1, 2}}

Texts == UNION {[1 .. n -> {Slash, Letter}] : n \in 0 .. 3}

MCJoins ==
    {[text |-> text, room |-> room, sub |-> sub, asPath |-> asPath] :
        text \in Texts, room \in 0 .. 9, sub \in Texts \ {<<>>}, asPath \in BOOLEAN}

-----------------------------------------------------------------------------
\* The bytes 1 to n of a number, and zeros above them.
NumberOf(bytes) == [i \in 1 .. 8 |-> IF i <= Len(bytes) THEN bytes[i] ELSE 0]

Numbers8 ==
    {NumberOf(b) : b \in
        {<<0>>, <<1>>, <<127>>, <<128>>, <<255>>, <<0, 1>>, <<44, 1>>, <<255, 63>>, <<0, 64>>,
         <<255, 255>>, <<0, 0, 1>>, <<255, 255, 31>>, <<255, 255, 255>>, <<1, 2, 3, 15>>,
         <<1, 2, 3, 16>>, <<9, 8, 7, 6, 7>>, <<0, 0, 0, 0, 0, 3>>, <<0, 0, 0, 0, 0, 4>>,
         <<5, 5, 5, 5, 5, 5, 1>>, <<5, 5, 5, 5, 5, 5, 2>>, <<255, 255, 255, 255, 255, 255, 255>>,
         <<0, 0, 0, 0, 0, 0, 0, 1>>, <<255, 255, 255, 255, 255, 255, 255, 255>>}}

MCSizes == [before : Numbers8, after : Numbers8]

-----------------------------------------------------------------------------
MaxOf(a, b) == IF a < b THEN b ELSE a

\* A table of a size whose index has some slots, distinct ones, and a gap behind
\* it. Memory is the buffer from the index on.
Grown(size, count, gap, wasted, more) ==
    LET scale == ScaleOf(size)
        end == RoundDown(size, scale) - gap * SlotWidth(scale)
        begin == end - count * SlotWidth(scale)
    IN  [header |-> [size |-> size, scale |-> scale, indexBegin |-> begin, indexEnd |-> end,
                     wasted |-> wasted + gap * SlotWidth(scale)],
         size |-> size + more,
         memory |-> FoldLeft(LAMBDA m, i : Store(m, begin + (i - 1) * SlotWidth(scale),
                                                 SlotWidth(scale), i),
                             [x \in begin .. MaxOf(size, size + more) - 1 |-> Radix - 1],
                             [i \in 1 .. count |-> i])]

\* Sizes below and above the ones where the width changes: 4, 16 and 256 here.
MCGrowths ==
    {Grown(size, count, gap, wasted, more) :
        size \in 8 .. 17 \cup 254 .. 257, count \in 0 .. 2, gap \in 0 .. 1,
        wasted \in {0, 3}, more \in {-1, 0, 1, 2, 5, 8, 11}}
    \cup {Grown(size, count, 0, 0, size) : size \in {3, 8, 12, 128, 160}, count \in 0 .. 3}

-----------------------------------------------------------------------------
Pacific == ZoneWithDst(480, Transition(-60, 3, 0, 2, 2, 0), Transition(0, 11, 0, 1, 2, 0))
Berlin == ZoneWithDst(-60, Transition(-60, 3, 0, 5, 2, 0), Transition(0, 10, 7, 5, 3, 0))
Sydney == ZoneWithDst(-600, Transition(-60, 10, 0, 1, 2, 0), Transition(0, 4, 0, 1, 3, 0))

Around == {-1441, -121, -120, -61, -60, -59, -1, 0, 1, 59, 60, 61, 120, 121, 1441}

MCClocks ==
    UNION {{[zone |-> z, utc |-> m + k] :
                k \in Around,
                m \in {c.at : c \in Changes(z, y)}
                      \cup {DaysBeforeYear(y) * MINUTES_PER_DAY + z.bias}} :
           z \in {Pacific, Berlin, Sydney}, y \in {2015, 2016, 2091}}
    \cup {[zone |-> ZoneWithoutDst(b), utc |-> DaysBeforeYear(2016) * MINUTES_PER_DAY + k] :
            b \in {-480, 0, 300}, k \in Around}

MCRules ==
    LET anyRule ==
            {ByMonthDay("GREGORIAN", m, d) : m \in {2, 4, 12}, d \in {1, 28, 29, 30, 31}}
            \cup {ByMonthDay("CHINESE_LUNAR", 2, 1), ByMonthDay("UNKNOWN", 2, 1)}
            \cup {ByDayOrder(m, w, o) : m \in 1 .. 12, w \in 0 .. 8, o \in 1 .. 6}
            \cup {ByWeekOrder(t, o, w) : t \in {"UNKNOWN", "ISO_8601", "ISLAMIC", "NORTH_AMERICAN"},
                                         o \in {1, 2, 27, 52, 53}, w \in 0 .. 8}
            \cup {ByDayOfYear("GREGORIAN", n) : n \in {1, 31, 32, 59, 60, 61, 365}}
            \cup {ByDay("GREGORIAN", d) : d \in {1, 28, 29, 31}}
            \cup {ByMonthlyDayOrder(w, o) : w \in {0, 1, 6}, o \in 1 .. 6}
    IN  {[rule |-> r, year |-> y, month |-> m] :
            r \in {x \in anyRule : ~x.error}, y \in {2011, 2012, 2015, 2016}, m \in {2, 9}}
=============================================================================
