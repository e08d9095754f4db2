# SortedTable in TLA+

`src/` is a C library for a sorted key-value table that lives in one block of memory,
usually a memory-mapped file shared by several processes. Threads read and write it
without a global lock: everything goes through a small versioned state machine,
`NonBlocking`. This directory models the concurrent core of the library, the table of files
that applications use, and the algorithms that run on private data; it checks them with TLC on
small instances and proves with TLAPS, for every instance, the safety of the concurrent core, of the recovery and of
the table of files.

## 1. The system

| component | state | operations | interacts through |
|---|---|---|---|
| **NonBlocking** (`NonBlocking.c`) | `state` (odd = a writer is inside), `readerCounter` | BeginRead, EndReadAndCheckSuccess, BeginWrite, EndWrite, RevertWrite, WaitForNoReader, Read/Write and timed forms, RetryTimed | callbacks (`tryOnce`); atomic increments and compare-and-swap on shared memory |
| **SortedTable** (`SortedTable.c`) | header: `dataBegin/End`, `indexBegin/End`, `wasted`, `readOnly`, three machines (table, data, index); records; slots | Set, Delete, Get, Find*, Rebuild, Construct, Reinterpret, CopyTo, SetReadOnly | sessions on the machines, one more machine per record |
| **KeyValue** (`KeyValue.c`) | per record: machine (its state is the version), time stamp, CRCs, `deleted`, key, value | Initialize, GetValueTimed, SetValueTimed, DeleteUnsafe, CopyUnsafe, TryFixState | called by SortedTable under the record's machine |
| **Table** (`Table.c`) | sync file (spin lock, machine, selector), two data files | Set/Delete/Get/Find, growth and compaction on `ERROR_NOT_ENOUGH_MEMORY` | SortedTable, TableFile, the sync machine |
| **TableFile, FileMapping, File** | a mapping and its size | Initialize, ExtendSizeTo, Reset | operating system |
| **SpinLock, Lock, RefCounter** | a word, a mutex, a counter with a state | Lock/Unlock, AddRef/Release | Table, SortedTable headers |
| **U64, SizeString, StringBuilder** | sequences of bytes | encode a size, compare keys, append a path | records and FindPath; a size is overwritten while readers look at it |
| **Anniversary, Date, TimeZone, ...** | a rule for a day, a zone with two transitions | the day of a year, UTC to local time and back | each other; the clock that time stamps come from |
| other strings and buffers, CRC, class macros, `main.c` | sequential data | | |

How a call works. `Set`, `Delete` and `Get` enter the *table* machine as readers, so that
an exclusive operation (Rebuild, CopyTo, ...) can wait for them, and then retry an attempt
until it succeeds or the time is up. An attempt searches the *index* in an optimistic read
session; what it found is out of date the moment the session ends, so every later step
compares the state of the index machine, or the version of the record, with what the search
saw. A new record is appended under the *data* machine and its slot inserted under the
*index* machine. A value that has grown gets a new record; the slot is redirected under the
lock of the old record **and** the index, and the index state is then *reverted*, on purpose,
because no order has changed. A value that fits is written in place under the record's lock.
Delete locks the record, removes the slot, then marks the record.

How a table of files works. `Table` has two data files and a sync file that every process maps.
Each operation is a read session of the sync machine around one call of the active `SortedTable`.
A Set without memory takes the spin lock of the sync file, tries again, becomes the writer of the
sync machine, waits for its readers and then either doubles the active file or, when half of it is
wasted, copies it into the other file and switches. Other processes notice that a file has grown
when the size in its header, which they share, exceeds that of their own mapping.

What is hard: readers overlapping writers without a lock; two loads, or a load and an
increment, that are not one step; a decremented state word (ABA); search results used after
their session; two locks that guard the two ends of one free area; deadlines that cut a call
in half; processes killed inside a session; recovery (`Rebuild`) that tells records apart by
time stamps. `PROJECT.json` lists each hazard at its line with the property that covers it, or
why none does yet.

What makes each component correct:

* NonBlocking: writers exclude each other and always close their session; an accepted read
  saw one committed state; a stable state never comes back; the counter is exact; an
  exclusive wait ends.
* SortedTable calls: the index is sorted and duplicate-free at every step, a slot leads to a
  live record, locks are exact and released, memory areas do not meet, every call returns.
* Index array: an update takes effect as one insertion or removal; a search never follows a
  slot its session did not see, and answers for its session.
* Rebuild: the new index is the old one, and after calls that were cut in half no key is lost.
* Table: growth within a width of slots, compaction and the switch of files keep every key; no process
  cuts off another's file; calls hang, or follow memory that is gone, only for the reasons that are named.
* Algorithms: Find and FindPath read what their range or scope says; a size never reads as too large
  while it is stored; a grown index keeps its slots as long as
  they keep their width, and otherwise only those that are named; clocks and rules give the days they mean.

## 2. Modules

| module | models | state and actions |
|---|---|---|
| `NonBlocking` | `NonBlocking.c`, except the AlwaysEnd and AlwaysRevert forms | one action per atomic access: `LoadReadState`/`EnterRead` (BeginRead loads, then increments), `ReadFirst`/`ReadSecond` (a callback that copies two words), `LeaveRead`/`CheckRead` (EndReadAndCheckSuccess decrements, then compares), `LoadWriteState`/`Acquire`, `WaitForNoReader`, `WriteFirst`/`WriteSecond`, `EndWrite`, `RevertWrite`, `Refuse`, `GiveUp` (deadlines), `Crash` |
| `NonBlockingProofs`, `SortedTableProofs`, `IndexOpsProofs`, `IndexArrayProofs`, `KeyValueProofs`, `RebuildProofs`, `TableProofs`, `AlgorithmsProofs` | | TLAPS proofs about the module of the name (section 4) |
| `SortedTable` | Set, Delete, Get of `SortedTable.c`, records of `KeyValue.c` | `log` = records by offset, `index` = slots in order; one action per session, or two where the code checks and acts while other calls hold other locks |
| `IndexOps` | `_Search`, choice of side in `_InsertIndexAt`/`_RemoveIndexAt` | operators shared by the next three |
| `IndexArray` | the slots of an index, store by store | a write session is the list of stores the code makes (`InsertStores`, `RemoveStores`); a search makes one shared load a step |
| `SlotSequence` | nothing: what an index promises | a sorted sequence, a change announced and then taking effect at once |
| `KeyValue` | GetValueTimed, SetValueTimed, CloneTimed, TryFixStateUnsafe of `KeyValue.c`; `SizeBuffer.Size` | `memory` is one record, `state` its version; a step is one load or store; `SetStores` is what a Set stores in its order |
| `Rebuild` | `Rebuild` of `SortedTable.c` | calls as single steps with the parts they leave when they time out; slots with the memory around them |
| `TableFiles` | `TableFile.c`, `FileMapping.Initialize`, the exclusive operations of `SortedTable.c` | a file is its length and the header inside; an operation is the set of its outcomes, failures of the system included |
| `Table` | `Table.c` over `TableFiles` | `disk`, `map` (per process), the sync file (`selector`, `spinLock`, `sync`); `frame` holds the locals of a call; one action per access to shared state |
| `RangeScan` | Find, FindAll, FindPath, `StringBuilder.Concatenate` | functions; counts are unsigned words |
| `IndexGrowth` | `_CopyArray`, `_Reinterpret_MoveIndexes` | functions over the bytes of the buffer, behind which nothing is mapped; a growth is `moved`, `refused` or an `overrun` |
| `Numbers` | `U64.c` | a number is eight bytes; `ConstructStores` is the list of stores in their order |
| `Calendar` | `Anniversary.c`, `Date.c`, `TimeZone.c` and what they use | functions over minutes |
| `Algorithms` | the calls of the last four | a behaviour is one call: an input, then its output (what a clock shows is then converted back); the properties compare both |
| `MC*` | | instances for TLC |

The layers support each other. `NonBlocking` shows that a validated read session is atomic and
that write sessions exclude each other, and `KeyValue` that this carries over to what the calls on a record
load and store, a size of several bytes included; `SortedTable` therefore takes a validated read session
as one step and a lock as an odd state. What a *search* does before its session is validated, it
does with slots that move; `IndexArray` shows that this does no harm and that a write session of
the index is one insertion or removal, which is what `SortedTable` uses. `Rebuild` runs alone
on the table, so it follows one thread.

`Table` stands on the same results: a call of the SortedTable is one read session whose effect is
one step (`Operate`), and the sync machine is its state and its counter, with the two halves of BeginRead
apart. `RangeScan` takes a sorted index that stands still, which `_Find_FillData` checks at every slot.

The correspondence of every definition to its lines is `map` in `PROJECT.json`. Abstractions:

* A callback of a write session writes both words or refuses before it writes. The code has two exceptions,
  both in `SortedTable`: `_Set_ModifyIndex` stores one slot and reverts (`EndModify`), and an insertion that
  fills the table reverts after its stores (`EndInsert`, first disagreement below). The `AlwaysEnd` forms have no caller.
* Keys are numbers in their order; a value is its size; memory is counted in units (a slot is
  one unit, header and key of a record one unit). Version arithmetic is the code's (+1, -1, +2, +4).
* In `KeyValue` the value is a sequence of bytes that say which Set wrote them, a checksum is the sequence itself (so two
  values never share one), a size takes one byte or two, and BeginRead and BeginWrite are one step each
  (`NonBlocking` has them in parts; their reader count has no use here). A thread is killed only inside a write session: elsewhere it leaves nothing in the record.
* In `Table` memory is counted in records of equal size, and an in-place Set is one of the outcomes of a Set
  on a key that exists. A call of the SortedTable is one step (`Operate`) whose outcomes are its answer and
  what it leaves: an insertion that takes the last memory reports that there is none with its slot in
  (`SortedTable.c:1309`), an append that does so leaves a record that nothing leads to (1272), and every call may
  time out before, between and after its effects, a Delete also between its slot and its record (1560). What overlapping calls make
  of the revert of 1309 is in `SortedTable`, not here. A size of 4 GiB (`WideSize`) is where slots take eight
  bytes instead of four: sizes double from 1 GiB, so Table crosses no other width. The table then counts
  the lower half of its slots, and with more than two of them the copy writes behind the mapping
  (`Overrun`): the process dies inside the write session of the table, with the spin lock, or it goes on; what it
  has then overwritten outside the table is not modelled. The sync file is mapped and its context set by the first process; failures of
  these calls are not modelled. A call of the SortedTable that is killed has done nothing or everything, and
  leaves its count in `readers`; what it may leave in the machines below is not part of this model.
  CopyTo is two steps, SetReadOnly and the copy; the wait for readers either succeeds or gives up.
* In `Algorithms` a byte of a slot has 4 values and a word of a count 1024, which moves the sizes at which
  slots get wider to 4, 16 and 256. Calendar totals are minutes; `timegm` and `gmtime_r` are defined for 1970 to 2099.
* Time: a deadline may pass at any point where the code compares clocks (`GiveUp`, `TimeOut`).
  In `Rebuild` the clock is a number that may stand still between calls and does not go back;
  the code reads `gettimeofday`, which may.
* The 64-bit words are unbounded naturals: an overflow needs 2^63 writes.
* In `SortedTable` a failed assertion is a state the call stops in (`assertDeleted`,
  `assertIndexBegin`). This is what a build with assertions does; with `RETAIL` they vanish.

## 3. Runs

| run | instance | shows |
|---|---|---|
| `NonBlocking_safety` | 3 threads, states up to 6, kills, symmetry | `TypeOK`, `WriterOwnsState`, `ReaderCounterExact`, `ValidatedReadIsAtomic`, `LateReaderHasOldTicket`, `CommittedNeverRecedes` |
| `NonBlocking_live` | 3 threads, no kill, fair | `ExclusiveWaitEnds`, `WriterLeaves` |
| `SortedTable_safety` | 3 threads, 3 calls, 2 keys, 2 sizes, deadlines | `TypeOK`, `IndexSorted`, `SlotsLeadToLiveRecords`, `NoDeletedItemFound`, `RecordLocksExclude` |
| `SortedTable_live` | 2 threads, 3 calls, fair | `EveryCallReturns` |
| `SortedTable_bounds` | 3 threads, 4 calls, 2 keys, 2 sizes, 8 units of memory | `DataBelowIndex`, `WastedIsExact` |
| `SortedTable_full` | 2 threads, 3 calls, 6 units | **violates** `NoDeletedItemFound` |
| `IndexArray` | 4 keys, 5 slots, 5 write sessions | `TypeOK`, `NoSlotLostOrUncovered`, `FollowsValidSlots`, `AnswersForItsSession`, `ImplementsSequence` (refinement) |
| `KeyValue` | 2 threads, 3 writes, sizes 1, 3, 4 and 6 in a record of 5, kills, repair | `CallsReportTheirVersion`, `StableValueIsWhole`, `OverrunsAreDiscarded` |
| `Rebuild` | 2 keys, 3 records, versions up to 8, timeouts, RETAIL | `TypeOK`, `SlotsAreLive`, `RebuildIsExact`, `RebuildLosesNoKey` |
| `Rebuild_assert` | the same, no timeout, assertions on | **violates** `NoRebuiltCandidateDeleted` |
| `Table` | 2 processes, 3 threads, 4 calls, 3 keys, sizes 2 to 8 and more, 1 kill, 1 timeout, 1 failing system call, 2 opens; 4.0 million states | `TypeOK`, `CompletedCallsSurvive`, `FilesNeverShrink`, `HarmNeedsForeignGrowth`, `WaitsHaveACause` |
| `Algorithms` | 68,000 states, two for each call | `FindReturnsItsRange`, `FindPathReturnsTheLevel`, `PathAppendStaysInside`, `NumberNeverReadsGreater`, `GrowthKeepsLowestSlots`, `LocalTimeFollowsTransitions`, `AnniversaryIsTheRule` |

Each property of a passing run has a mutant in `PROJECT.json`: a change of one mapped definition
(defined right before it, "Mutant of ...") under which TLC finds the property violated.

Why the bounds are enough.

* Three threads are a writer, a reader it may harm and a third that makes the first two wait or
  retry. `MaxState` 6 lets three write sessions follow each other, so a ticket can be two
  sessions old. The bound makes BeginWrite wait at the limit, as if a writer were always ahead.
* Three overlapping calls are enough for a search that is overtaken twice. `Preload` makes the
  first Delete, replacement and in-place Set possible at once; with sizes 1 and 2 a Set
  may or may not fit. `MaxEnd` 20 never runs out; the runs `_bounds` and `_full` do.
* Four keys in five slots make every shape of an insertion or removal happen: first, last,
  inner, both sides, no room on one of them, an empty half.
* In `KeyValue` sizes below 2 take one byte and bytes have 4 values, so that of the sizes one is short, two differ in the
  first byte, and 6 does not fit. A reader overlaps up to three writes, of one thread or two.
* Three records with versions up to 8 hold a key that is set, moved, deleted and set again.

* `Table` begins with new files or with a full table that earlier processes have left (`SmallTables`): of two records, with one of
  them wasted or none, so that one Set leads to compaction or growth and three calls overlap it with others, or of four records of three
  keys, whose growth crosses `WideSize` = 8 and overruns the mapping; the third key is in no call. Two opens let both
  processes map the files before one of them grows. The threads of one process are interchangeable
  (symmetry). `Followed` bounds the product: calls, kills, timeouts and failing calls of the system share a budget of four; once it
  is spent, the run follows behaviours with no failed call of the system, and with four calls of which two are under way, or
  three of which one is. Four calls are needed for a reader and a Set that wait for each other: three Sets grow the file and use it
  up while a reader of the other process still has the old mapping. `Followed` ends a behaviour when a reader slips in behind an
  exclusive writer, which NonBlocking allows and bounds (`LateReaderHasOldTicket`): from there on Table promises nothing.
* `Algorithms` takes every subset of a few keys, every order of the bounds of a range, every room of a
  short text, pairs of numbers on both sides of every length of the encoding, sizes on both sides of every width
  of a slot with every small growth, the minutes around every change of three zones (two
  northern, one southern) and of the year, and rules at the ends of months and years, leap years included.

Fairness. `FairSpec` of NonBlocking asks weak fairness of each thread's own steps, except for
starting a call or giving up: the operating system runs every thread again, and a spin loop
with `sched_yield` and `nanosleep` is enabled as long as its condition is. No strong fairness is
assumed: in the bounded instance writers stop, so a reader is not starved by endless writers.
That a thread could be starved by an *unbounded* stream of writers is real (the code bounds it by its
deadline) and is not excluded here. `FairSpec` of SortedTable is the same for calls;
deadlines are off there, so returning is not an effect of giving up.

`Table` states no liveness: a Set of this code may wait for ever (observations below), so "every call
returns" is false, and `WaitsHaveACause` says instead why nothing can move when nothing can: a thread waits for the spin lock it
holds itself; a reader counted in the sync machine, whose mapping is outgrown, waits for the spin lock (`Table.c:109`) of a Set that
waits for the counted readers (147); or a dead thread has left its lock, an odd state or its count. It is
meaningful because every behaviour of the instance is finite.

The deadlock check is off for `NonBlocking_safety`, where all threads may be killed, for `SortedTable_bounds`, where a
thread may stop at a failed assertion (first disagreement below), for `Table`, where
calls may really hang, for `KeyValue` (all threads may be killed, or a reader waits for a killed writer) and for `Algorithms`, where a behaviour is one call (two for a clock).

### Disagreements between the code and its assertions

1. **An insert that fills the table** (`SortedTable.c:1309`). `_Set_InsertIndex` inserts the slot
   and then returns false when no free byte is left, so the index state is reverted although slots
   have moved. A Delete that searched before is not told: it removes the slot at a stale order and
   marks its own record, whose slot stays. The next search stops at `SortedTable.c:1241`,
   "DEV BUG!!! _Search got a deleted item". Run `SortedTable_full`. The other SortedTable runs with
   several threads use sizes for which this either cannot happen (`MaxEnd` 20) or check only the
   use of memory (`SortedTable_bounds`, where it does happen).
2. **Rebuild tests a candidate it did not find** (`SortedTable.c:910`). The result of a failed
   search, `-order - 1`, is used as an order, which reads a slot of the old index in front of the new
   one; when that leads to a deleted record the assertion of line 912 fails, "DEV BUG!!! The rebuilt
   candidate is deleted?!". Run `Rebuild_assert`. The value is not used otherwise, so in a RETAIL
   build Rebuild is exact (run `Rebuild`).

### Observations

Without a run of their own, most because no document of the repository contradicts them; each was met while modelling and is
part of a model or excluded by name in a property.

* **Table.** A thread in Set that holds the spin lock and finds the file grown by another process waits for
  itself (`Table.c:109`). A reader of another process that finds the file grown waits for the same lock inside its read session, for whose
  end the next Set without memory waits while it holds the lock (`Table.c:133`, `Table.c:147`): neither goes on. Two threads of one process that both find the file grown: the second one
  uses a pointer whose memory the first has unmapped (`Table.c:110`). Initialize gives a file the initial
  size whenever its first attempt left no size, also after a failed `mmap` of a grown file (`Table.c:76`);
  when a Table is initialised again the size of before is still there and a failure is ignored. Construct zeroes the
  reader count of the table it takes over, so that a late reader's decrement wraps. Nobody
  recovers the spin lock, the odd state or the count of a killed process.
* **Find.** With a limit, and a range that is empty by more than one slot (bounds in the wrong order, or more to skip than
  there are), the comparison of line 1857 is between unsigned values and Find reads slots outside the
  index. A count to skip of 2^63 or more is added as a negative number. An open range between a key and itself counts minus one. FindPath with scope BASE always reports zero records;
  with ONE_LEVEL it also reads, without using it, the slot in front of the first one.
* **Delete and a Set that moves the record.** The index state is reverted when a slot is redirected, so a Delete whose search overlaps
  it finds the superseded record under a state that is still current: it removes the slot, which leads to the new record by then, and
  marks the old one. The key is gone, as reported, until Rebuild meets the new record, unmarked, and brings it back.
  `Overtaken` in `SortedTable` names the case; `WastedIsExact` failed until it did. The proof of that property found a second
  case: after an insert that fills the table and reverts, a Delete that searched before it takes the slot of another key and
  counts the size of its own record. `SortedTable_bounds` begins with a key behind the one that is inserted and reaches it.
* **KeyValue.** The stores of a size are ordered so that "any temporary interpretation of the number won't be greater than it
  real value" (`U64.c:120`). Between two stores that holds (`NumberNeverReadsGreater`), but a reader loads byte by byte: the
  old first byte with the new second one make a number above both, and above the capacity that `SizeBuffer.Size` has just
  compared; that many bytes are copied before the session is thrown away. CloneTimed takes the size twice, for the room and for the copy;
  a Set in between makes the second one larger and the assertion of `KeyValue.c:479` fails instead of a retry.
  `OverrunsAreDiscarded` says that both happen only under a state that has moved on. CloneTimed returns NULL in every case: the buffer it fills is a variable of the loop that hides the one
  it returns, so Find and FindPath with copyData end with a partial result of no records. `DeleteUnsafe` leaves the
  time stamp of the value. A record is repaired by Rebuild, which first waits for the table to have no reader; a writer killed
  in SortedTable.Set is counted there for ever, so Rebuild gives up before it reaches the record, unless the count is
  repaired in some other way. A Set killed between the checksum and the time stamp is repaired to a record with the old time.
* **Growth.** When a table grows across a width of slots `_Reinterpret_MoveIndexes` computes the new begin with
  the old width (`SortedTable.c:713`), copies with the new one and sets the end from the size. The header then counts a half (or less) of the
  slots, the lowest ones; if the others do not fit between the last counted slot and the end of the buffer, the copy, which begins with the last slot,
  writes behind the mapping (716). A Table that doubles from 2 to 4 GiB loses half of its keys that way, or, with more than two, its
  process, whose spin lock and odd state stay in the files. When the old index lies above the new begin the move fails.
  `GrowthKeepsLowestSlots` states what is left; `CompletedCallsSurvive` excludes a table that has crossed the width (`crossed`).
* **U64.** `CopyTo` has source and target exchanged in its copy.
* **StringBuilder.** `Concatenate` does not limit the bytes it copies when the room left is exactly zero.
* **Calendar.** A day of the week of 7 is accepted and taken for Sunday; a day order of 0 is accepted and wraps;
  `Date.Initialize` keeps the fields of a day that does not exist; a monthly rule asked for a year uses month 0. An
  hour that does not exist is converted like any other, as the TODO at `TimeZone.c:63` says.

## 4. Proofs

Each proof module EXTENDS the module it is about. The theorems hold for every set of
threads, processes and keys, every size and every bound, with and without kills and deadlines. In
each module an inductive invariant (`IInv`, and on top of it `OrderInv`, `WasteInv`, `GrowthInv`) holds in every reachable
state, and the properties that the runs check follow from it. TLC checked each of these invariants on the
instance of the run before it was proved.

| module | theorem | establishes |
|---|---|---|
| `NonBlockingProofs` | `TypeCorrect` | `[]TypeOK`; neither shared word drops below zero |
| | `WritersExclude` | `[]WriterOwnsState` |
| | `CounterCounts` | `[]ReaderCounterExact` |
| | `LateReaders` | `[]LateReaderHasOldTicket` |
| | `ValidatedReads` | `[]ValidatedReadIsAtomic` |
| | `CommittedMonotone` | `CommittedNeverRecedes` |
| `SortedTableProofs` | `TypesAreKept` | `[]TypeOK` |
| | `RecordLocksExcludeThm` | `[]RecordLocksExclude` |
| | `DataBelowIndexThm` | `[]DataBelowIndex` |
| | `IndexSortedThm` | `[]IndexSorted`, as long as a unit of memory is free |
| | `SlotsLeadToLiveRecordsThm` | `[]SlotsLeadToLiveRecords`, likewise |
| | `NoDeletedItemFoundThm` | `[]NoDeletedItemFound`, likewise |
| | `WastedIsExactThm` | `[]WastedIsExact`, if no deadline passes between the removal of a slot and the mark of its record |
| | `WastedIsExactWithoutDeadlines` | `[]WastedIsExact` without deadlines |
| `IndexOpsProofs` | `SearchIsRight` | what `_Search` answers for every sorted sequence |
| `IndexArrayProofs` | `TypesAreKept` | `[]TypeOK` |
| | `NoSlotLostOrUncoveredThm` | `[]NoSlotLostOrUncovered` |
| | `FollowsValidSlotsThm` | `[]FollowsValidSlots` |
| | `AnswersForItsSessionThm` | `[]AnswersForItsSession` |
| | `ImplementsSequenceThm` | `ImplementsSequence`: the array implements `SlotSequence` |
| `KeyValueProofs` | `CallsReportTheirVersionThm` | `[]CallsReportTheirVersion` |
| | `StableValueIsWholeThm` | `[]StableValueIsWhole` |
| | `OverrunsAreDiscardedThm` | `[]OverrunsAreDiscarded` |
| `RebuildProofs` | `TypesAreKept` | `[]TypeOK` |
| | `NoSlotIsDeleted` | `[]SlotsAreLive` |
| | `RebuildWritesTheSlots` | `RebuildIsExact` |
| | `RebuildKeepsEveryKey` | `RebuildLosesNoKey` |
| `TableProofs` | `TypesAreKept` | `[]TypeOK` |
| | `CompletedCallsSurviveThm` | `[]CompletedCallsSurvive`: until a reader is late or slots have got wider |
| | `FilesNeverShrinkThm` | `FilesNeverShrink` |
| | `HarmNeedsForeignGrowthThm` | `[]HarmNeedsForeignGrowth` |
| `AlgorithmsProofs` | `FindReturnsItsRangeThm` | `[]FindReturnsItsRange`, for every sorted index, bounds and counts |
| | `FindPathReturnsTheLevelThm` | `[]FindPathReturnsTheLevel`, for every sorted index, path and counts |
| | `PathAppendStaysInsideThm` | `[]PathAppendStaysInside`, for every text, room and part |
| | `NumberNeverReadsGreaterThm` | `[]NumberNeverReadsGreater`, for every two numbers of 64 bits |
| | `GrowthKeepsLowestSlotsThm` | `[]GrowthKeepsLowestSlots`, for every header, buffer, size and `Radix`: all slots while they keep their width, the lowest that fit when they get wider |
| | `AnniversaryIsTheRuleThm` | `[]AnniversaryIsTheRule`, for every rule and the years 1971 to 2098 |
| | `LocalTimeFollowsTransitionsThm` | `[]LocalTimeFollowsTransitions`, from 1973 to 2096, for zones whose transitions are months apart |

Assumptions are those of the modules: finite sets of threads and keys, keys that are numbers, bounds that are
naturals, positive sizes; `TwoBytes` (a size of the record's capacity fits two bytes of `Base` values, as the
64-bit encoding does in the code), `PreloadFits` (the table a behaviour of `SortedTable` begins with has room for its
records) `ThreadAssumption` (the two values of the spin lock that are no thread) and `ProcessAssumption` (the value of `grower` that is
no process), `LeftTablesAssumption` (a table left by earlier processes has at least the initial size, and no more keys than records). `RangesAssumption`, `PathsAssumption` and `JoinsAssumption` say which inputs the functions of `Algorithms` are called with: an
index that is sorted (`IndexSortedThm`, or what `_Find_FillData` checks at every slot), keys of signed characters, counts that are
words. `SizesAssumption` says that a number is eight bytes of 256 values, `GrowthsAssumption` that the index of a table is a
number of whole slots inside its buffer, and that memory is this buffer up to the larger of its two sizes, and nothing behind it (**Growth** above).
`RulesAssumption` says that the year of a rule has one before and one behind it in the calendar, and that its fields are in range: an order of
a day or a week counts from one (zero wraps, **Calendar** above) and a day of the year is in the year. `ClocksAssumption` says that
a zone has the transitions `DstTransitionTime` makes, none of its three biases is longer than a day (the code takes any 16 bits of minutes), and the moment is
years away from the ends of the calendar.
One of these assumptions is more than a type: the slots to skip and the slots of the index together are less than half a word. An index is shorter than
that because it fits in memory; a caller may ask for a larger skip (**Find** above).

**NonBlocking.** `IInv` strengthens the checked invariants with what each thread may believe at its place in the code.

* `TicketsPast`: the ticket of a reader, and of a writer before its compare-and-swap, is even and not ahead
  of the state. Without it a compare-and-swap could succeed with a ticket from the future, and exclusion
  would not be inductive. `OddHasWriter`: an odd state has a writer inside, so an even one has none.
* `WordsMatchState`: the words hold the state whenever it is even; while a writer is inside they hold the
  old or the new stable state, depending on how far it is. A writer that reverts has written nothing.
* `SeenIsTicket`: a reader that has copied a word holds the value its ticket names, *as long as* no write has
  touched the words since (`Fresh`: the state is still the ticket, or the writer has not stored yet). At
  `CheckRead` the state is compared with the ticket, and atomicity follows.
* The cardinality step uses `FS_AddElement`/`FS_RemoveElement`: each step moves at most one thread
  into or out of `InsideRead`.

`CommittedMonotone` then follows step by step: only `Acquire`, `EndWrite` and `RevertWrite` change the
state, and in each `WriterOwnsState` gives its parity.

**SortedTable.** None of the checked invariants is inductive: each depends on what a call in the middle of its work
has found and locked. `ThreadInv` records that for every place of a call: a record it has found is composed and of its key, a record it
holds has the odd version that its own lock made, a search that is still `Fresh` (its index state is the last stable
one) has an order inside the index, a record it has appended is `Private`: nobody else has found it and no
slot leads to it. `Apart` says that no two calls hold or compose one record, `LocksInv` that an odd state
has the call that will make it even. `DataBelowIndex` needs `RoomInv`: while an append is under way there is room for its record,
and for one slot more if some insert may still take one. That is why one reserved slot is enough for
any number of threads: the first insert makes every other search stale, and the next one has to append first.
A step of one call is described once by what it may do to the others (`LogStep`, `IndexStep`, `LockStep`,
`RoomStep`, ...), the invariant is shown to survive such steps, and each action to be one.

**SortedTable, order.** `OrderInv` adds that a fresh search has found the slot of its key or the place of the key (`Placed`), and that no
slot leads to a record that is marked or about to be. These theorems have the hypothesis `[]HasRoom` (there is
a free unit between records and slots), and it is not a convenience: without it an insert that fills the table reverts the state
after its slots have moved (first disagreement above), `Placed` breaks, and the run `SortedTable_full` shows `NoDeletedItemFound`
violated. The theorems say that this is the *only* way slots get out of order; in particular the
reverted state of `_Set_ModifyIndex` is harmless for the order.

**SortedTable, waste.** While calls are running the counter is wrong by what they owe it: each carries its adjustment in its context
and adds it when it returns. `WasteInv` says that with these debts the books balance after every step,
`wasted + debts = (dataEnd - live sizes) + (MaxEnd - indexEnd)` as long as nobody was `overtaken`, and that no two slots lead to one record (or a Set in
place would be counted twice). Each action changes one summand, or moves an amount from one place to another. Both sums are
stated by the function of their partial sums, and the debts over a list of the threads that owe, so that neither induction
over data nor a finite set of threads is needed; that the fold of `LiveSize` is such a sum is the one fact about a recursive definition,
shown by the same search for a least counterexample as below. The hypothesis of `WastedIsExactThm` names the one deadline that
loses an amount, between `RemoveSlot` and `MarkDeleted`; all other deadlines are allowed.
Two cases in which a call subtracts the size of a record that is not the one it replaced are in `overtaken`, the second one found by this proof.

**The search.** `SearchKeys` is a recursive function, and the induction theorems of the library take an operator as a parameter, which
the installed provers cannot instantiate. The induction is therefore carried out on the set of
widths at which the claim fails: a nonempty set of naturals has a least element (`LeastNatural`, from the well-foundedness of `<`),
and the claim at a width follows from the claim at smaller ones. The same gives that the recursive
definition has a function that satisfies its equation. Both search proofs below cite `SearchIsRight`.

**IndexArray.** The writer's half of `IInv` is the loop invariant of the code: after `k` stores of a session that moves slots left or right,
to insert or to remove, which positions hold their new slot, which the old, which bound has moved, and which stores are left
(`InsertingLeft`, ..., `RemovingRight`). `NoSlotLostOrUncovered` follows by counting. The reader's half
says what a search knows at each of its loads: as long as the state is the one of its start, what it has loaded are
slots of its session and its interval contains the key's place (`Narrowed`); what it has compared after another look at
the state stays known whatever happens later. A stale load may give anything. For the refinement, the abstract slots are those
`before` the session as long as the state is odd: a store is a stutter, and the step that makes the state even is the insertion or
removal because then `k` is the number of stores.

**KeyValue.** As long as nobody has stored since the last stable state (`Untouched`), the record is what that state stands for and
a reader with its ticket has loaded what is there (`Loaded`); a living writer is alone and has made the first
`k` stores of its call (`StoresInv`). A killed one leaves an odd state with any mixture, which only the repair makes
even, and only if the checksum, one of a whole value (`MemoryInv`), matches. `OverrunsAreDiscarded` follows: with `Untouched` the two
loads of a size are of one size.

**Rebuild.** The slots are a set of live records, one of each key, in the order of their keys (`Sound`). What is to be shown is which
record of a key the loop ends with, when it compares time stamps and versions and calls may have left superseded records
unmarked. `LaterInv`: a marked record that comes behind a record with a slot is older, so the walk never ends with a deletion
in the place of a live key. `CleanInv`: as long as no call was cut in half, the record with a slot is the last of its key
and no live record is younger than its successor, so the loop, which replaces a candidate unless the new one is older, ends with the last. The loop
invariant of the walk is the same statement for the first `n` records; from there `RebuildIsExact` follows because two sorted
sequences with the same elements are equal, and `RebuildLosesNoKey` because a key with a live last record always has a candidate. The walk is
a fold, unfolded turn by turn, and its invariant is carried to every `n` by a least counterexample.

**Table.** `CompletedCallsSurvive` compares one file with a history: `expected` holds the keys that the calls which have ended left in the table,
what they acknowledged and what the failed ones have done all the same. That growth, compaction and the switch keep them depends on who may touch which file when.
`IInv` has six parts. `ThreadInv` ties a frame to the
spin lock and the selector (whoever is past the first stage holds the lock and maintains the active table), `SignatureInv` says
that a mapped table was constructed, `CountInv` that counters of readers count at least the living (killed ones are
never taken off, so equality is false), `StuckInv` that a table in which a growth has died has a spin lock that a dead thread holds, so nobody constructs, copies or grows
it again, and `KeyInv` that, until a reader is late or slots have got wider, sessions are on the active table and the maintenance is
alone and has copied as much as its statement says. `CopyRecords` loses nothing because the records of the source `Fit` and the target is as large;
`OutcomesAre` goes through every way a call of the table may end. The theorem is about the tables and their maintenance, not about what a call
of the SortedTable does inside, which is `SortedTable`.

**Table, sizes.** `GrowthInv` compares what is kept in four places: the length of a file, the size in its header, the size
that a process remembers and the age of a pointer. A process that remembers less than the header says has been overtaken (`Foreign`).
While a table grows no other thread of that process is past the lock, so nobody else remembers a size of the moment. `LengthInv`
(a file is as long as its table) breaks when `ExtendSizeTo` fails in the middle of the maintenance, because its error is ignored; but then the
mapping is closed, the thread is `Doomed` to lose its pointer before it gives back the spin lock, and nobody sets a length without that
lock: the invariant is excused from there on (`LockLost`). `CalmInv`: without a late reader and without a failure every
pointer in use is that of the present mapping or foreign growth has made it stale. Which steps can cut a file follows
case by case; `OpenMap` after a failed first attempt is the only one left. A growth that dies behind its mapping lengthens the file and
leaves the header as it was (`OverrunLengthens`).

**Find and FindPath.** A behaviour is one call, so the invariant is only that an input is one of the inputs and an output the one computed for
it; the work is in the lemmas about the functions. The order of keys compares at the first difference and a prefix is smaller; that it is
total and transitive is shown from there, and with `SearchIsRight` a search for a bound counts the keys below it.
Then the orders between the two bounds are an interval, and the slots `Find` reads are the part of it that the count to skip
and the limit leave; the unsigned comparisons of the code are resolved case by case.
The keys under a path are an interval too: a key that begins with the root is not below it, and is below the root with its slash replaced by the character
behind it. The scan of one level looks at all of them; what it has gathered before a slot is a recursive function (`Level`); that it lists the children in their order and no other key is shown for the last slot at
which it could fail, by the least counterexample once more. `PathAppendStaysInsideThm` follows the end of the text through the three appends.

**Sizes.** The layout of a number (`IsLayout`: how many bytes follow the control byte, and whether that byte holds the top of the number)
gives the stores of `Construct` one by one: zero into the control byte, the data bytes, the leading ones, the shared
bits. `Stored` says in closed form what each byte of the field holds after `j` stores over any other number; that the recursive
function of the code's stores (`Memories`) has these values is shown at the least store at which it might not. So there are three phases: while the control byte is
zero the field reads as zero, with its ones set as the new number without the shared bits, and then as the number itself; no byte read is ever greater than the
new one's (`NotGreater`). A number with more bytes has more leading ones, and of two with equally many the shared bits
decide before the data bytes do, so fields compare as their numbers (`ComparisonIsRight`).

**Growth of the index.** `Load` and `Store` are recursive functions, a multiplication and a division by `Radix` for each byte. Undoing one by
the other byte for byte (`StoredIsLoaded`) gives that a copied slot reads as its source, also in a wider place (`RestOfLoaded`: what is left of a number of `w`
bytes after `w` divisions is zero). When slots of another width are copied, the loop goes back from the last one: after `n` turns
everything below the place of the next slot to write is as it was (`Kept`), which contains all slots still to read because the target does not lie below the
source, and the last `n` slots have arrived (`Moved`). For slots of one width the `memmove` copies byte for byte. A growth that keeps the width stays inside the
buffer and does not move the index down, which follows from `RoundDown`, monotone and at most its argument; so it is never refused. For wider
slots nothing of the kind holds: the cases in which the copy leaves the buffer or is refused return another result, and in the case that is left
the header counts the old bytes divided by the new width, of slots that have all been copied.

**Calendar.** `YearOf` inverts the count of days before a year by cases on the remainder of four, and a month is the only one whose days contain a
day of the year, so `DateAt` undoes `DateOf` (`DateAtIs`). Weekdays repeat every seven days: the n-th of its kind in a
month has n - 1 before it in seven days each, and the last one is the fifth or, if the fifth is in the next month, a week before it. That the week of a year
with a number is as many weeks behind its first counts the deciding days of these weeks, by a least counterexample over the number of the week (`WeeksAreCounted`).

**Clock.** `IsYearly` forgets the calendar: each year has an early and a late transition, at least 28 days from each other and from both ends of
the year, and the same two biases. This is what the hypothesis `ChangesApart` of the theorem is for; the transitions of the year are in months from February to
November with at least one month between them. It excludes zones for which the property fails, with changes closer to each other or to the turn of the
year than their bias, and some for which it does not; the code does not say which zones it is meant for. Then it does not matter
which year's transitions the code looks at when the moment it converts, its standard time and its reading fall in different years
(`BetweenTransitions`). The round trip is a case analysis in one year (`ReadingsComeBack`): a reading in the repeated hour, or in the one that does not exist, goes to
the other side of the transition and is read there as itself. The last change is found among the six of three years (`LatestIs`).

Only model-checked:

* liveness under fairness (`ExclusiveWaitEnds`, `WriterLeaves`, `EveryCallReturns`) and `WaitsHaveACause`, which uses ENABLED: out of the prover's reach;
* `LocalTimeFollowsTransitions` of zones for which `ChangesApart` is false: no zone of the instance is one.

## 5. Not modelled, and the plan

Next, in this order:

1. The walk of Rebuild over bytes that a failed append left.
2. SortedTable.CopyTo and SetReadOnly called by an application without a Table around them.

Left out, with the reason:

* `FileMapping` beyond Initialize and Close (checksums, Read, Write, Sync, file locks) and `File`, `Path`: wrappers of
  system calls without state of their own. `TableFile.Reset`, `SortedTable.ClearReadOnly`, `Lock`: no caller.
* Retries, deadlines and the cloning of records in Find and FindPath: the first two are those of Set and Get, the clone
  is CloneTimed of `KeyValue`. GetValue, SetValue, Delete and DeleteTimed of a record: no caller, and the same sessions.
* `RefCounter`: counters behind a lock of their own that nothing reads.
* The rest of the strings and buffers: sequential layout; `*Fast.c` variants are alternatives of the `*Compact.c` ones.
* Formatting of dates, `TimeZone.Now`; CRCs, the class macros and the demonstration program.
