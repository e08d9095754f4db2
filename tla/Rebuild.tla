------------------------------ MODULE Rebuild ------------------------------
(***************************************************************************)
(* SortedTable.Rebuild: the index is written anew from the records alone.  *)
(* The module follows one thread that sets, deletes and rebuilds, since    *)
(* Rebuild waits until no other call is on the table.  A call may end with *)
(* ERROR_TIMEOUT after part of its work, and that part stays in the        *)
(* records for the next Rebuild to find.                                   *)
(*                                                                         *)
(* Memory is ample here (module SortedTable has the calls that run out of  *)
(* it); the slots are kept with the memory around them, which Rebuild      *)
(* reads.  Records are whole: what a call leaves that ends between         *)
(* _Set_AppendData and KeyValue.Initialize is not in this model.           *)
(***************************************************************************)
EXTENDS Integers, Sequences, FiniteSets, SequencesExt, IndexOps

CONSTANTS
    Keys,        \* keys, as naturals in the order of SizeString.Compare
    MaxRecords,  \* bound: the records ever appended
    MaxVersion,  \* bound: the version of a record
    MaxTime,     \* bound: the ticks of the clock
    CanTimeOut,  \* whether a call may end with ERROR_TIMEOUT half way
    Retail       \* the build: ASSERT has no effect when RETAIL is defined

ASSUME KeysAreNaturals == Keys \subseteq Nat /\ IsFiniteSet(Keys)
ASSUME BoundsAreNatural == MaxRecords \in Nat /\ MaxVersion \in Nat /\ MaxTime \in Nat
ASSUME SwitchesAreBool == CanTimeOut \in BOOLEAN /\ Retail \in BOOLEAN

VARIABLES
    log,       \* the records, in the order of their offsets
    index,     \* header.indexBegin, header.indexEnd and the slots around
    clock,     \* TimeZone.NowByUtcTotalMicroseconds, taken to be monotonic
    timedOut,  \* whether a call has ended half way
    rebuilds,  \* the number of rebuilds, modulo 2: tells a rebuild from a stutter
    aborted    \* whether an ASSERT has stopped the program

vars == <<log, index, clock, timedOut, rebuilds, aborted>>

Room == 2 * MaxRecords + 2
NoRecord == 0        \* a slot never stored to holds offset 0, the header

Init ==
    /\ log = <<>>
    /\ index = [memory |-> [p \in 1..Room |-> NoRecord], begin |-> Room + 1, end |-> Room + 1]
    /\ clock = 0
    /\ timedOut = FALSE
    /\ rebuilds = 0
    /\ aborted = FALSE

-----------------------------------------------------------------------------
(* The slots of an index.                                                  *)

Count(ix) == ix.end - ix.begin
Slots(ix) == [i \in 1..Count(ix) |-> ix.memory[ix.begin + i - 1]]

\* The index with these slots from begin on; the memory around stays as it is.
WithSlots(ix, begin, slots) ==
    [memory |-> [p \in 1..Room |-> IF p \in begin..(begin + Len(slots) - 1)
                                   THEN slots[p - begin + 1] ELSE ix.memory[p]],
     begin |-> begin, end |-> begin + Len(slots)]

InsertIndexAt(ix, order, record) ==
    LET left == InsertMovesLeft(Count(ix), order, TRUE, ix.end <= Room)
    IN WithSlots(ix, IF left THEN ix.begin - 1 ELSE ix.begin,
                 InsertAt(Slots(ix), order + 1, record))

\* Mutant of RemoveIndexAt: the slot after the one to remove goes.
RemoveIndexAtNext(ix, order) ==
    LET left == RemoveMovesLeft(Count(ix), order)
    IN WithSlots(ix, IF left THEN ix.begin + 1 ELSE ix.begin,
                 IF order + 2 <= Count(ix) THEN RemoveAt(Slots(ix), order + 2)
                 ELSE RemoveAt(Slots(ix), order + 1))

RemoveIndexAt(ix, order) ==
    LET left == RemoveMovesLeft(Count(ix), order)
    IN WithSlots(ix, IF left THEN ix.begin + 1 ELSE ix.begin, RemoveAt(Slots(ix), order + 1))

SetIndexAt(ix, order, record) ==
    WithSlots(ix, ix.begin, ReplaceAt(Slots(ix), order + 1, record))

Search(ix, key) == SearchKeys([i \in 1..Count(ix) |-> log[Slots(ix)[i]].key], key)

-----------------------------------------------------------------------------
(* The calls that lead to a table to rebuild.                              *)

Record(key, version, time) ==
    [key |-> key, version |-> version, time |-> time, deleted |-> FALSE]

Bounded(version) == Len(log) < MaxRecords /\ version <= MaxVersion

\* The clock is read; it may have ticked since the last call.
ReadClock(now) == now <= MaxTime /\ clock' = now
Ticks == {clock, clock + 1}

\* Set of a key that has no slot.  The deadline may pass before the slot is in.
SetNew(key) ==
    LET candidate == Search(index, key)
    IN /\ ~candidate.found
       /\ Bounded(2)
       /\ \E now \in Ticks : ReadClock(now) /\ log' = Append(log, Record(key, 2, now))
       /\ \/ /\ index' = InsertIndexAt(index, candidate.order, Len(log) + 1)
             /\ UNCHANGED timedOut
          \/ /\ CanTimeOut
             /\ timedOut' = TRUE
             /\ UNCHANGED index

\* Set of a value that fits in the record of the key: KeyValue.SetValueTimed
\* stores the time at which it was entered.
SetInPlace(key) ==
    LET candidate == Search(index, key)
        record == Slots(index)[candidate.order + 1]
    IN /\ candidate.found
       /\ log[record].version + 2 <= MaxVersion
       /\ \E now \in Ticks :
            /\ ReadClock(now)
            /\ log' = [log EXCEPT ![record].version = @ + 2, ![record].time = now]
       /\ UNCHANGED <<index, timedOut>>

\* Set of a value that does not fit: a new record two stable versions ahead
\* replaces the old one, which goes one version ahead and is not marked.  When
\* the deadline passes before the slot is redirected the old one is given back.
SetMoved(key) ==
    LET candidate == Search(index, key)
        record == Slots(index)[candidate.order + 1]
        version == log[record].version
    IN /\ candidate.found
       /\ Bounded(version + 4)
       /\ \E now \in Ticks :
            /\ ReadClock(now)
            /\ \/ /\ log' = Append([log EXCEPT ![record].version = version + 2],
                                   Record(key, version + 4, now))
                  /\ index' = SetIndexAt(index, candidate.order, Len(log) + 1)
                  /\ UNCHANGED timedOut
               \/ /\ CanTimeOut
                  /\ log' = Append(log, Record(key, version + 4, now))
                  /\ timedOut' = TRUE
                  /\ UNCHANGED index

\* Delete of a key that has a slot.  When the deadline passes, before or after
\* the slot is removed, the record gets its next version and is not marked.
Delete(key) ==
    LET candidate == Search(index, key)
        record == Slots(index)[candidate.order + 1]
    IN /\ candidate.found
       /\ log[record].version + 2 <= MaxVersion
       /\ \/ /\ log' = [log EXCEPT ![record].version = @ + 2, ![record].deleted = TRUE]
             /\ index' = RemoveIndexAt(index, candidate.order)
             /\ UNCHANGED timedOut
          \/ /\ CanTimeOut
             /\ log' = [log EXCEPT ![record].version = @ + 2]
             /\ index' \in {index, RemoveIndexAt(index, candidate.order)}
             /\ timedOut' = TRUE
       /\ UNCHANGED clock

-----------------------------------------------------------------------------
(* Rebuild.                                                                *)

\* Mutant of IsOlder: records of one tick of the clock count as older.
IsOlderOrAsOld(record, candidate) == record.time <= candidate.time

\* The record does not replace the candidate that has been found before it.
IsOlder(record, candidate) ==
    \/ record.time < candidate.time
    \/ record.time = candidate.time /\ record.version < candidate.version

\* What _Search leaves in candidate is read as the order of a slot before it is
\* tested: for a key that is not there this is a slot in front of indexBegin.
ReadBeforeTest(ix, candidate) ==
    IF candidate.found THEN ix.memory[ix.begin + candidate.order]
    ELSE ix.memory[ix.begin - candidate.order - 1]

\* The header of the table, read as a record, is not marked deleted.
IsDeleted(record) == record # NoRecord /\ log[record].deleted

\* Mutant of Rewrite: a deleted record is not told apart when it replaces.
RewriteDeleted(acc, record) ==
    LET ix == acc.index
        candidate == Search(ix, log[record].key)
        present == ReadBeforeTest(ix, candidate)
    IN [failed |-> acc.failed \/ IsDeleted(present),
        index |->
          IF candidate.found
          THEN IF IsOlder(log[record], log[present]) THEN ix
               ELSE SetIndexAt(ix, candidate.order, record)
          ELSE IF log[record].deleted THEN ix
               ELSE InsertIndexAt(ix, candidate.order, record)]

\* One turn of the loop of _Rebuild_RewriteIndexes.
Rewrite(acc, record) ==
    LET ix == acc.index
        candidate == Search(ix, log[record].key)
        present == ReadBeforeTest(ix, candidate)
        deleted == log[record].deleted
    IN [failed |-> acc.failed \/ IsDeleted(present),
        index |->
          CASE ~candidate.found ->
                 IF deleted THEN ix ELSE InsertIndexAt(ix, candidate.order, record)
            [] candidate.found /\ IsOlder(log[record], log[present]) -> ix
            [] OTHER -> IF deleted THEN RemoveIndexAt(ix, candidate.order)
                        ELSE SetIndexAt(ix, candidate.order, record)]

\* SortedTable.Rebuild.  The old slots stay in the memory that the new index
\* grows into.  A failed ASSERT stops the program unless RETAIL is defined.
Rebuild ==
    LET cleared == [index EXCEPT !.begin = Room + 1, !.end = Room + 1]
        result == FoldLeftDomain(LAMBDA acc, record : Rewrite(acc, record),
                                 [failed |-> FALSE, index |-> cleared], log)
    IN /\ index' = result.index
       /\ aborted' = (result.failed /\ ~Retail)
       /\ rebuilds' = 1 - rebuilds
       /\ UNCHANGED <<log, clock, timedOut>>

Next ==
    /\ ~aborted
    /\ \/ \E key \in Keys :
            /\ SetNew(key) \/ SetInPlace(key) \/ SetMoved(key) \/ Delete(key)
            /\ UNCHANGED <<rebuilds, aborted>>
       \/ Rebuild

Spec == Init /\ [][Next]_vars

-----------------------------------------------------------------------------
(* Properties.                                                             *)

\* Every variable has its type and the slots lie in the memory.
TypeOK ==
    /\ index.memory \in [1..Room -> 0..Len(log)]
    /\ index.begin \in 1..(Room + 1) /\ index.end \in index.begin..(Room + 1)
    /\ \A i \in DOMAIN log : log[i].version \in 2..MaxVersion /\ log[i].time \in 0..MaxTime

KeysOf(ix, records) == {records[r].key : r \in ToSet(Slots(ix))}
IsRebuild == rebuilds' # rebuilds

\* As long as every call has run to its end, Rebuild writes exactly the slots
\* that were there: superseded records, which are never marked, deleted ones
\* and keys that came back are told apart by time stamp and version alone.
RebuildKeepsSlots == IsRebuild /\ ~timedOut => Slots(index') = Slots(index)
RebuildIsExact == [][RebuildKeepsSlots]_vars

\* Even when calls have ended half way, Rebuild loses no key that the table
\* has; it may bring back a key whose Delete or Set reported a timeout.
RebuildKeepsKeys == IsRebuild => KeysOf(index, log) \subseteq KeysOf(index', log)
RebuildLosesNoKey == [][RebuildKeepsKeys]_vars

\* No slot of a rebuilt index leads to a record that is marked deleted.
SlotsAreLive == \A i \in DOMAIN Slots(index) : ~log[Slots(index)[i]].deleted

\* SortedTable.c:912: "DEV BUG!!! The rebuilt candidate is deleted?!".
NoRebuiltCandidateDeleted == ~aborted
=============================================================================
