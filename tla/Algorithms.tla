----------------------------- MODULE Algorithms -----------------------------
(***************************************************************************)
(* The algorithms of the table that run on private data: the windows of    *)
(* Find, the paths of FindPath, the encoding of sizes, the move of a grown *)
(* index and the clock of a time zone. Each is compared with a definition  *)
(* that says what it is for and not how it is done.                        *)
(*                                                                         *)
(* A behaviour is one call: the input is chosen, then the output computed; *)
(* what a clock shows is given to a second call.                           *)
(***************************************************************************)
EXTENDS RangeScan, IndexGrowth, Numbers, Calendar, TLC

CONSTANTS Ranges, Paths, Joins, Sizes, Growths, Clocks, Rules   \* sets of inputs

\* An index holds its keys, sequences of signed characters, in their order. What a caller skips and the size of the
\* index are numbers of one signed word together: a larger count to skip is taken
\* for a negative one.
IsIndex(index) ==
    /\ index \in Seq(Seq(Int))
    /\ \A i, j \in DOMAIN index : i < j => Less(index[i], index[j])

AreCounts(index, from, desired) ==
    /\ from \in Nat /\ Len(index) + from < Word \div 2
    /\ desired \in Nat /\ desired < Word

ASSUME RangesAssumption ==
    \A i \in Ranges :
        /\ IsIndex(i.index) /\ AreCounts(i.index, i.from, i.desired) /\ i.all \in BOOLEAN
        /\ ~i.all => /\ i.low \in Seq(Int) /\ i.lowClosed \in BOOLEAN
                     /\ i.high \in Seq(Int) /\ i.highClosed \in BOOLEAN

ASSUME PathsAssumption ==
    \A i \in Paths :
        /\ IsIndex(i.index) /\ Len(i.index) < Word \div 2
        /\ i.path \in Seq(Int) /\ i.from \in Nat /\ i.desired \in Nat

ASSUME JoinsAssumption ==
    \A i \in Joins : /\ i.text \in Seq(Int) /\ i.sub \in Seq(Int) \ {<<>>}
                     /\ i.room \in Nat /\ i.asPath \in BOOLEAN

ASSUME SizesAssumption ==
    \A i \in Sizes : i.before \in [NumberBytes -> 0 .. 255] /\ i.after \in [NumberBytes -> 0 .. 255]

\* A table's index is a number of slots that end inside its buffer. Memory is the
\* buffer from the index on, up to the larger one of its sizes.
IsHeader(h) ==
    /\ h.size \in Nat /\ h.scale \in 0 .. 3 /\ h.wasted \in Int
    /\ h.indexBegin \in Nat /\ h.indexEnd \in Nat
    /\ h.indexBegin <= h.indexEnd /\ h.indexEnd <= RoundDown(h.size, h.scale)
    /\ (h.indexEnd - h.indexBegin) % SlotWidth(h.scale) = 0

ASSUME GrowthsAssumption ==
    \A i \in Growths :
        /\ IsHeader(i.header) /\ i.size \in Nat
        /\ LET end == IF i.size < i.header.size THEN i.header.size ELSE i.size
           IN  i.memory \in [i.header.indexBegin .. end - 1 -> 0 .. Radix - 1]

\* A rule that denotes a day of every year it is asked for, with fields that the
\* initialisers of Anniversary accept; the order of a day in a month counts from
\* one. The years have one before and one behind them in the calendar.
IsRule(rule, year) ==
    \/ rule.category = "MONTH_DAY" /\ rule.month \in 1 .. 12 /\ rule.day \in Nat \ {0}
    \/ rule.category = "MONTHLY_DAY" /\ rule.day \in Nat \ {0}
    \/ /\ rule.category = "DAYOFWEEK_DAYORDER" /\ rule.month \in 1 .. 12
       /\ rule.dayOfWeek \in 0 .. DAYS_PER_WEEK /\ rule.dayOrder \in 1 .. DAY_ORDER_LAST
    \/ /\ rule.category = "MONTHLY_DAYORDER"
       /\ rule.dayOfWeek \in 0 .. DAYS_PER_WEEK /\ rule.dayOrder \in 1 .. DAY_ORDER_LAST
    \/ /\ rule.category = "WEEKORDER_DAYOFWEEK"
       /\ rule.weekType \in {"ISO_8601", "ISLAMIC", "NORTH_AMERICAN"}
       /\ rule.weekOrder \in 1 .. 53 /\ rule.dayOfWeek \in 0 .. DAYS_PER_WEEK
    \/ /\ rule.category = "DAYOFYEAR"
       /\ rule.dayOfYear \in 1 .. (IF IsLeap(year) THEN 366 ELSE 365)

ASSUME RulesAssumption ==
    \A i \in Rules : /\ i.year \in 1971 .. 2098 /\ i.month \in 1 .. 12
                     /\ IsRule(i.rule, i.year)

\* A zone with the transitions that DstTransitionTime accepts; no bias is longer than a day.
IsBias(bias) == bias \in -MINUTES_PER_DAY .. MINUTES_PER_DAY

IsTransition(t) ==
    /\ IsBias(t.bias) /\ t.time.total \in 0 .. MINUTES_PER_DAY - 1
    /\ t.date.calendar = "GREGORIAN" /\ t.date.category = "DAYOFWEEK_DAYORDER"
    /\ IsRule(t.date, 1970)

IsZone(zone) ==
    /\ IsBias(zone.bias) /\ zone.useDst \in BOOLEAN
    /\ zone.useDst => IsTransition(zone.dst) /\ IsTransition(zone.std)

ASSUME ClocksAssumption ==
    \A i \in Clocks : /\ IsZone(i.zone) /\ i.utc \in Int
                      /\ YearOf(i.utc \div MINUTES_PER_DAY) \in 1973 .. 2096

VARIABLES input, output

vars == <<input, output>>

NoOutput == [done |-> FALSE]

Init ==
    /\ output = NoOutput
    /\ \/ \E i \in Ranges : input = [call |-> "Find", of |-> i]
       \/ \E i \in Paths : input = [call |-> "FindPath", of |-> i]
       \/ \E i \in Joins : input = [call |-> "Join", of |-> i]
       \/ \E i \in Sizes : input = [call |-> "SetSize", of |-> i]
       \/ \E i \in Growths : input = [call |-> "Reinterpret", of |-> i]
       \/ \E i \in Clocks : input = [call |-> "Clock", of |-> i]
       \/ \E i \in Rules : input = [call |-> "Anniversary", of |-> i]

Return(call, result) ==
    /\ input.call = call
    /\ output = NoOutput
    /\ output' = [done |-> TRUE, value |-> result]
    /\ UNCHANGED input

CallFind ==
    Return("Find", IF input.of.all THEN FindAll(input.of.index, input.of.from, input.of.desired)
                   ELSE Find(input.of.index, input.of))

CallFindPath ==
    LET i == input.of
        root == NormalizePath(i.path).text
    IN  Return("FindPath",
               [base |-> Base(i.index, root),
                level |-> OneLevel(i.index, root, i.from, i.desired),
                subtree |-> Subtree(i.index, root, i.from, i.desired)])

CallJoin ==
    Return("Join", [joined |-> Concatenate(input.of.text, input.of.room, input.of.sub, input.of.asPath),
                    normal |-> NormalizePath(input.of.sub)])

\* The field after each store of Construct, over the bytes of the number before.
CallSetSize ==
    LET before == AfterStores([i \in 1 .. 10 |-> 0], ConstructStores(input.of.before))
        stores == ConstructStores(input.of.after)
    IN  Return("SetSize", [n \in 1 .. Len(stores) |-> Memories(before, stores)[n]])

CallReinterpret ==
    Return("Reinterpret", Grow(input.of.header, input.of.memory, input.of.size))

CallGetLocal == Return("Clock", [local |-> GetLocal(input.of.zone, input.of.utc)])

\* What the clock shows is converted back.
CallGetUtc ==
    /\ input.call = "Clock"
    /\ output.done /\ DOMAIN output.value = {"local"}
    /\ output' = [done |-> TRUE,
                  value |-> [local |-> output.value.local,
                             utc |-> GetUtc(input.of.zone, output.value.local)]]
    /\ UNCHANGED input

CallAnniversary ==
    Return("Anniversary", GetDate(input.of.rule, input.of.year, input.of.month))

Next ==
    \/ CallFind
    \/ CallFindPath
    \/ CallJoin
    \/ CallSetSize
    \/ CallReinterpret
    \/ CallGetLocal
    \/ CallGetUtc
    \/ CallAnniversary

Spec == Init /\ [][Next]_vars

Returned(call) == output.done /\ input.call = call

-----------------------------------------------------------------------------
(* Find *)

\* The orders of the keys between the bounds of a call.
InRange(i) ==
    {n \in 0 .. Len(i.index) - 1 :
        LET key == i.index[n + 1]
        IN  i.all \/ /\ Less(i.low, key) \/ (i.lowClosed /\ i.low = key)
                     /\ Less(key, i.high) \/ (i.highClosed /\ i.high = key)}

\* A range that is not inside out: its ends are in order and an open range
\* leaves a place between them.
IsRange(i) ==
    \/ i.all
    \/ Less(i.low, i.high)
    \/ i.low = i.high /\ (i.lowClosed \/ i.highClosed)

\* A Find or FindAll that skips no more slots than the range has copies out the
\* slots of the keys between its bounds that it did not skip, at most as many as
\* the caller desires, and counts them. Without a limit it never reads a slot
\* outside the index, not with bounds in the wrong order and not with more slots to
\* skip than there are, as long as their number fits a signed word. (With a limit
\* it does: the unsigned difference of the bounds is huge.)
FindReturnsItsRange ==
    Returned("Find") =>
        LET i == input.of
            range == InRange(i)
            rest == {n \in range : Cardinality({k \in range : k < n}) >= i.from}
            taken == {n \in rest : \/ i.desired = 0
                                   \/ Cardinality({k \in rest : k < n}) < i.desired}
        IN  /\ IsRange(i) /\ i.from <= Cardinality(range) =>
                /\ SlotsRead(output.value) = taken
                /\ output.value.count = Cardinality(taken)
            /\ i.desired = 0 => SlotsRead(output.value) \subseteq 0 .. Len(i.index) - 1

-----------------------------------------------------------------------------
(* FindPath *)

IsUnder(root, key) == Len(root) <= Len(key) /\ SubSeq(key, 1, Len(root)) = root

\* A path finds what its scope names: one level is the keys one name longer than
\* the root, whether a slash ends them or not, and the subtree every key that
\* begins with the root, the root included.
FindPathReturnsTheLevel ==
    Returned("FindPath") =>
        LET i == input.of
            root == NormalizePath(i.path).text
            children == {n \in DOMAIN i.index :
                            /\ IsUnder(root, i.index[n])
                            /\ i.index[n] # root
                            /\ LET name == SubSeq(i.index[n], Len(root) + 1, Len(i.index[n]))
                               IN  Slash \notin Range(Front(name))}
            level == {n \in children :
                        LET k == Cardinality({m \in children : m < n})
                        IN  i.from <= k /\ (i.desired = 0 \/ k < i.from + i.desired)}
            subtree == {n \in DOMAIN i.index : IsUnder(root, i.index[n])}
        IN  /\ Len(output.value.level) = Cardinality(level)
            /\ Range(output.value.level) = {i.index[n] : n \in level}
            /\ i.from = 0 /\ i.desired = 0 =>
                {n + 1 : n \in SlotsRead(output.value.subtree)} = subtree

\* No byte is written behind the room of a text: not by the three appends that
\* put a path between slashes, and not by one append of a given length while the
\* text leaves a place for one more byte. (Without it the length is not cut.)
PathAppendStaysInside ==
    Returned("Join") =>
        LET i == input.of
        IN  /\ \A end \in output.value.normal.ends : end <= output.value.normal.room
            /\ i.room > Len(i.text) + 2 => output.value.joined.end <= i.room

-----------------------------------------------------------------------------
(* Sizes *)

\* While a size is overwritten, no state of its bytes after a store reads as a
\* number greater than the new one (the comment in U64.Construct); the last one
\* reads as the new one, takes the bytes that were evaluated for it, and compares
\* with the old one as the numbers do.
NumberNeverReadsGreater ==
    Returned("SetSize") =>
        LET states == output.value
            before == AfterStores([i \in 1 .. 10 |-> 0], ConstructStores(input.of.before))
            after == Last(states)
            order == CompareNumbers(before, after)
        IN  /\ \A n \in DOMAIN states : ~IsSmaller(input.of.after, NumberAt(states[n]))
            /\ NumberAt(after) = input.of.after
            /\ PhysicalSize(after) = EvaluatePhysicalSize(input.of.after)
            /\ order < 0 <=> IsSmaller(input.of.before, input.of.after)
            /\ order = 0 <=> input.of.before = input.of.after

-----------------------------------------------------------------------------
(* Growth of the index *)

\* A table whose slots keep their width when it grows keeps them all, in order and
\* inside its buffer, also where the copy overlaps its source, and the bytes behind
\* the old index are wasted no more. A growth that makes slots wider either keeps
\* only the lowest ones, as many as fit into the bytes that all of them took before
\* (the code loses the others), or is refused, or writes behind the buffer.
GrowthKeepsLowestSlots ==
    Returned("Reinterpret") =>
        LET old == input.of.header
            new == output.value.header
            slots == SlotsAt(input.of.memory, old.indexBegin, old.scale, CountOf(old))
        IN  /\ output.value.result = "moved" =>
                /\ CountOf(new) = (CountOf(old) * SlotWidth(old.scale)) \div SlotWidth(new.scale)
                /\ new.indexEnd <= input.of.size
                /\ SlotsAt(output.value.memory, new.indexBegin, new.scale, CountOf(new))
                        = [n \in 1 .. CountOf(new) |-> slots[n]]
            /\ ScaleOf(input.of.size) = old.scale /\ input.of.size >= old.size =>
                /\ output.value.result = "moved"
                /\ CountOf(new) = CountOf(old)
                /\ RoundDown(new.size, new.scale) - new.indexEnd - new.wasted
                        = RoundDown(old.size, old.scale) - old.indexEnd - old.wasted

-----------------------------------------------------------------------------
(* Calendar *)

\* The moments a zone changes its clock from the year before to the year after,
\* with the bias from then on. A transition is a reading of the clock before it.
Changes(zone, year) ==
    UNION {{[at |-> TransitionAt(zone.dst, y) + zone.bias + zone.std.bias, bias |-> zone.dst.bias],
            [at |-> TransitionAt(zone.std, y) + zone.bias + zone.dst.bias, bias |-> zone.std.bias]}
           : y \in year - 1 .. year + 1}

\* The clock of a zone shows what the last change before the moment says, and a
\* reading of it that is converted to UTC and back is the same reading, in the
\* repeated hour as well.
LocalTimeFollowsTransitions ==
    Returned("Clock") =>
        LET i == input.of
            past == {c \in Changes(i.zone, YearOf(i.utc \div MINUTES_PER_DAY)) : c.at <= i.utc}
            latest == CHOOSE c \in past : \A d \in past : d.at <= c.at
        IN  /\ output.value.local = i.utc - i.zone.bias - (IF i.zone.useDst THEN latest.bias ELSE 0)
            /\ "utc" \in DOMAIN output.value =>
                GetLocal(i.zone, output.value.utc) = output.value.local

\* The days of a month or year that fall on a day of the week.
Weekdays(first, last, dayOfWeek) ==
    {d \in first .. last : WeekdayOf(d) = dayOfWeek % DAYS_PER_WEEK}

\* The day of a week of the year by the day that decides to which year a week
\* belongs, which is the last one that day one (or four, ISO) of January can be.
IsDayOfWeek(date, weekType, weekOrder, dayOfWeek, year) ==
    LET day == date.total \div MINUTES_PER_DAY
        first == FirstDayOfWeek(weekType)
        start == CHOOSE d \in day - 6 .. day : WeekdayOf(d) = first
        decides == start + 7 - DayInWeekOne(weekType)
    IN  /\ WeekdayOf(day) = dayOfWeek % DAYS_PER_WEEK
        /\ Cardinality(Weekdays(DaysBeforeYear(year), decides, WeekdayOf(decides))) = weekOrder

\* A rule for a day gives the day the rule describes: the existing day of a month,
\* the n-th or last day of the week with n - 1 or none of its kind before or after
\* it in the month, the day of a numbered week, the n-th day of a year; and the
\* fields of the date agree with its total.
AnniversaryIsTheRule ==
    Returned("Anniversary") =>
        LET rule == input.of.rule
            year == input.of.year
            date == output.value
            number == date.total \div MINUTES_PER_DAY
            month == IF rule.category \in {"MONTHLY_DAY", "MONTHLY_DAYORDER"}
                     THEN input.of.month ELSE rule.month
            first == DayNumber(year, month, 1)
            last == first + DaysOfMonth(year, month) - 1
        IN  rule.calendar = "GREGORIAN" =>
            CASE rule.category \in {"MONTH_DAY", "MONTHLY_DAY"} ->
                    (rule.day <= DaysOfMonth(year, month) =>
                        /\ number = first + rule.day - 1
                        /\ DateAt(date.total) = date)
              [] rule.category \in {"DAYOFWEEK_DAYORDER", "MONTHLY_DAYORDER"} ->
                    /\ number \in Weekdays(first, last, rule.dayOfWeek)
                    /\ IF rule.dayOrder = DAY_ORDER_LAST
                       THEN Weekdays(number + 1, last, rule.dayOfWeek) = {}
                       ELSE Cardinality(Weekdays(first, number, rule.dayOfWeek)) = rule.dayOrder
              [] rule.category = "WEEKORDER_DAYOFWEEK" ->
                    IsDayOfWeek(date, rule.weekType, rule.weekOrder, rule.dayOfWeek, year)
              [] rule.category = "DAYOFYEAR" ->
                    /\ number = DaysBeforeYear(year) + rule.dayOfYear - 1
                    /\ date.year = year /\ date.dayOfYear = rule.dayOfYear
=============================================================================
