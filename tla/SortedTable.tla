---------------------------- MODULE SortedTable ----------------------------
(***************************************************************************)
(* Concurrent Set, Delete and Get on one table (SortedTable.c), with no    *)
(* exclusive operation running.  A table is a block of memory of MaxEnd    *)
(* units: records grow to the right from unit 0, the index of slots, one   *)
(* unit each, lies between indexBegin and indexEnd.  Three kinds of        *)
(* NonBlocking machine guard it: one for the end of the data, one for the  *)
(* index and one per record.                                               *)
(*                                                                         *)
(* A read session that is validated at its end is one atomic read (module  *)
(* NonBlocking proves it), so it is one action here.  What the code does   *)
(* between two sessions, or under one lock while others hold another, is   *)
(* interleaved.  Module IndexArray refines the index update to slots.      *)
(***************************************************************************)
EXTENDS Integers, Sequences, FiniteSets, SequencesExt, IndexOps

CONSTANTS
    Thread,      \* the threads that make calls
    MaxCalls,    \* bound: the number of calls they make together
    Keys,        \* keys, as naturals in the order of SizeString.Compare
    Preload,     \* the keys that are in the table when the calls start
    ValueSizes,  \* the sizes of the values that Set stores, in units
    MaxEnd,      \* _MaximumPossibleDataEnd, in units
    CanTimeOut   \* whether a deadline may pass while a call waits

ASSUME KeysAreNaturals == Keys \subseteq Nat /\ IsFiniteSet(Keys) /\ Preload \subseteq Keys
ASSUME SizesAreNaturals == MaxEnd \in Nat /\ MaxCalls \in Nat /\ ValueSizes \subseteq Nat \ {0}
ASSUME CanTimeOutBool == CanTimeOut \in BOOLEAN

VARIABLES
    log,         \* the records, in the order of their offsets
    dataEnd,     \* header.dataEnd
    dataLock,    \* the threads inside a write session of dataStateMachine
    index,       \* the slots from indexBegin to indexEnd: positions in log
    indexEnd,    \* header.indexEnd
    indexState,  \* indexStateMachine.state
    wasted,      \* header.wasted
    calls,       \* the number of calls made so far
    pc,          \* where each thread stands in its call
    call,        \* the arguments of the call
    ctx,         \* its _SortedTableOpContext
    overtaken    \* history: whether a call has worked on a record after another call

table == <<log, dataEnd, dataLock, index, indexEnd, indexState, wasted>>
vars == <<table, calls, pc, call, ctx, overtaken>>

Scale == 1           \* _ScaleInBytes, in units
\* KeyValue.EvaluatePhysicalSize: header and key take one unit.
PhysicalSize(valueSize) == 1 + valueSize

IsCorrupted(s) == s % 2 = 1
AnyVersion == 0      \* the argument force
Versions == {AnyVersion, 2}
FirstVersion == 2    \* of a record whose key is new

Record(key, version, size) ==
    [key |-> key, state |-> version, deleted |-> FALSE, composed |-> TRUE,
     capacity |-> size, size |-> size]
\* What _Set_AppendData leaves behind: room for a value of this size.
Hole(key, size) == [Record(key, 1, size) EXCEPT !.composed = FALSE]

Calls ==
    [op : {"Set"}, key : Keys, size : ValueSizes, version : Versions]
    \cup [op : {"Delete"}, key : Keys, size : {0}, version : Versions]
    \cup [op : {"Get"}, key : Keys, size : {0}, version : {AnyVersion}]

NoCall == [op |-> "none", key |-> 0, size |-> 0, version |-> AnyVersion]

NewContext ==
    [indexState |-> 0, found |-> FALSE, order |-> 0, existing |-> 0, version |-> 0,
     deleted |-> FALSE, valueSize |-> 0, composing |-> 0, left |-> FALSE, adjustment |-> 0,
     error |-> "none"]

\* The table has been made large enough for what it is made of (Construct).
ASSUME PreloadFits == Cardinality(Preload) * (PhysicalSize(1) + Scale) <= MaxEnd

\* The keys of the preload are in order, and so are their records.
Init ==
    /\ \E keys \in [1..Cardinality(Preload) -> Preload] :
        /\ \A i, j \in DOMAIN keys : i < j => keys[i] < keys[j]
        /\ log = [i \in DOMAIN keys |-> Record(keys[i], FirstVersion, 1)]
    /\ dataEnd = Len(log) * PhysicalSize(1)
    /\ dataLock = {}
    /\ index = [i \in 1..Len(log) |-> i]
    /\ indexEnd = MaxEnd
    /\ indexState = 0
    /\ wasted = 0
    /\ calls = 0
    /\ pc = [t \in Thread |-> "idle"]
    /\ call = [t \in Thread |-> NoCall]
    /\ ctx = [t \in Thread |-> NewContext]
    /\ overtaken = FALSE

indexBegin == indexEnd - Len(index) * Scale
AvaliableMemory == IF indexBegin > dataEnd THEN indexBegin - dataEnd ELSE 0

Goto(t, label) == pc' = [pc EXCEPT ![t] = label]
\* The record that the search of t has found.
Existing(t) == log[ctx[t].existing]
\* The call ends with an error of its own.
Fail(t, error) ==
    /\ Goto(t, "return")
    /\ ctx' = [ctx EXCEPT ![t].error = error]

\* SortedTable.Set, Delete or Get is called on a table that is not read only.
Call(t) ==
    /\ pc[t] = "idle"
    /\ calls < MaxCalls
    /\ calls' = calls + 1
    /\ \E c \in Calls : call' = [call EXCEPT ![t] = c]
    /\ Goto(t, "search")
    /\ UNCHANGED <<table, ctx>>

-----------------------------------------------------------------------------
(* _Search: a binary search in a read session of the index, then a read    *)
(* session of the record it has found.                                     *)

Search(key) == SearchKeys([i \in DOMAIN index |-> log[index[i]].key], key)

AfterMiss(t) == IF call[t].op = "Set" THEN "append" ELSE "return"

\* Mutant of SearchIndex: an attempt keeps the index state of the first one.
SearchIndexOnce(t) ==
    /\ pc[t] = "search"
    /\ ~IsCorrupted(indexState)
    /\ LET candidate == Search(call[t].key)
       IN /\ ctx' = [ctx EXCEPT ![t].indexState = IF ctx[t].existing = 0 THEN indexState ELSE @,
                                ![t].found = candidate.found,
                                ![t].order = candidate.order,
                                ![t].existing = IF candidate.found THEN index[candidate.order + 1] ELSE 0,
                                ![t].error = IF call[t].op = "Get" /\ ~candidate.found
                                             THEN "notFound" ELSE "none"]
          /\ Goto(t, IF candidate.found THEN "readRecord" ELSE AfterMiss(t))
    /\ UNCHANGED <<table, calls, call>>

SearchIndex(t) ==
    /\ pc[t] = "search"
    /\ ~IsCorrupted(indexState)
    /\ LET candidate == Search(call[t].key)
       IN /\ ctx' = [ctx EXCEPT ![t].indexState = indexState,
                                ![t].found = candidate.found,
                                ![t].order = candidate.order,
                                ![t].existing = IF candidate.found THEN index[candidate.order + 1] ELSE 0,
                                ![t].error = IF call[t].op = "Get" /\ ~candidate.found
                                             THEN "notFound" ELSE "none"]
          /\ Goto(t, IF candidate.found THEN "readRecord" ELSE AfterMiss(t))
    /\ UNCHANGED <<table, calls, call>>

\* KeyValue.GetValueTimed waits until no writer is in the record.
ReadRecord(t) ==
    /\ pc[t] = "readRecord"
    /\ ~IsCorrupted(Existing(t).state)
    /\ ctx' = [ctx EXCEPT ![t].version = Existing(t).state, ![t].deleted = Existing(t).deleted]
    /\ Goto(t, "verify")
    /\ UNCHANGED <<table, calls, call>>

\* Mutant of FoundPath: the capacity of the record is not compared.
FoundPathInPlace(t) ==
    CASE call[t].op = "Get" -> "return"
      [] call[t].op = "Delete" -> "lockDelete"
      [] OTHER -> "setValue"

FoundPath(t) ==
    CASE call[t].op = "Get" -> "return"
      [] call[t].op = "Delete" -> "lockDelete"
      [] call[t].op = "Set" /\ Existing(t).capacity < call[t].size -> "append"
      [] OTHER -> "setValue"

\* Mutant of VerifySearch: the state of the index is not compared again after
\* the record has been read.
VerifyNothing(t) ==
    /\ pc[t] = "verify"
    /\ \/ /\ ctx[t].deleted
          /\ Goto(t, "assertDeleted")
          /\ UNCHANGED ctx
       \/ /\ ~ctx[t].deleted
          /\ IF call[t].version \in {AnyVersion, ctx[t].version}
             THEN /\ Goto(t, FoundPath(t))
                  /\ ctx' = [ctx EXCEPT ![t].valueSize = Existing(t).size]
             ELSE Fail(t, "wrongVersion")
    /\ UNCHANGED <<table, calls, call>>

\* The rest of _Search: start over when the index has moved, then the
\* assertion, the check of the version and the sizes that the call goes by.
VerifySearch(t) ==
    /\ pc[t] = "verify"
    /\ \/ /\ indexState # ctx[t].indexState
          /\ Goto(t, "search")
          /\ UNCHANGED ctx
       \/ /\ indexState = ctx[t].indexState
          /\ ctx[t].deleted
          /\ Goto(t, "assertDeleted")
          /\ UNCHANGED ctx
       \/ /\ indexState = ctx[t].indexState
          /\ ~ctx[t].deleted
          /\ IF call[t].version \in {AnyVersion, ctx[t].version}
             THEN /\ Goto(t, FoundPath(t))
                  /\ ctx' = [ctx EXCEPT ![t].valueSize = Existing(t).size]
             ELSE Fail(t, "wrongVersion")
    /\ UNCHANGED <<table, calls, call>>

-----------------------------------------------------------------------------
(* Set of a value that needs a new record: append it, compose it, then     *)
(* insert a slot or redirect the slot of the record it replaces.           *)

AfterAppend(t) == IF ctx[t].found THEN "lockReplace" ELSE "compose"

\* Mutant of BeginAppend: no slot is reserved next to the record.
BeginAppendNoSlot(t) ==
    /\ pc[t] = "append"
    /\ dataLock = {}
    /\ IF ctx[t].composing # 0
       THEN Goto(t, AfterAppend(t)) /\ UNCHANGED <<dataLock, ctx>>
       ELSE IF PhysicalSize(call[t].size) > AvaliableMemory
       THEN Fail(t, "notEnoughMemory") /\ UNCHANGED dataLock
       ELSE Goto(t, "appending") /\ dataLock' = {t} /\ UNCHANGED ctx
    /\ UNCHANGED <<log, dataEnd, index, indexEnd, indexState, wasted, calls, call>>

\* _Set_AppendData, its check.  A later attempt of the call reuses the record.
BeginAppend(t) ==
    /\ pc[t] = "append"
    /\ dataLock = {}
    /\ \/ /\ ctx[t].composing # 0
          /\ Goto(t, AfterAppend(t))
          /\ UNCHANGED <<dataLock, ctx>>
       \/ /\ ctx[t].composing = 0
          /\ PhysicalSize(call[t].size) + Scale > AvaliableMemory
          /\ Fail(t, "notEnoughMemory")
          /\ UNCHANGED dataLock
       \/ /\ ctx[t].composing = 0
          /\ PhysicalSize(call[t].size) + Scale <= AvaliableMemory
          /\ Goto(t, "appending")
          /\ dataLock' = {t}
          /\ UNCHANGED ctx
    /\ UNCHANGED <<log, dataEnd, index, indexEnd, indexState, wasted, calls, call>>

\* _Set_AppendData, its effect; the index may have grown since the check.
EndAppend(t) ==
    /\ pc[t] = "appending"
    /\ log' = Append(log, Hole(call[t].key, call[t].size))
    /\ dataEnd' = dataEnd + PhysicalSize(call[t].size)
    /\ dataLock' = {}
    /\ LET appended == [ctx[t] EXCEPT !.composing = Len(log) + 1,
                                      !.adjustment = @ + PhysicalSize(call[t].size)]
       IN IF indexBegin > dataEnd'
          THEN ctx' = [ctx EXCEPT ![t] = appended] /\ Goto(t, AfterAppend(t))
          ELSE /\ ctx' = [ctx EXCEPT ![t] = [appended EXCEPT !.error = "notEnoughMemory"]]
               /\ Goto(t, "return")
    /\ UNCHANGED <<index, indexEnd, indexState, wasted, calls, call>>

\* KeyValue.Initialize of the record of a new key, if it is not composed yet.
Compose(t) ==
    /\ pc[t] = "compose"
    /\ log' = IF log[ctx[t].composing].composed THEN log
              ELSE [log EXCEPT ![ctx[t].composing] = Record(call[t].key, FirstVersion, call[t].size)]
    /\ Goto(t, "insert")
    /\ UNCHANGED <<dataEnd, dataLock, index, indexEnd, indexState, wasted, calls, call, ctx>>

MovesLeft(order) ==
    InsertMovesLeft(Len(index), order, dataEnd < indexBegin, indexEnd < MaxEnd)

\* Mutant of BeginInsert: the state of the index is not compared.
BeginInsertUnchecked(t) ==
    /\ pc[t] = "insert"
    /\ ~IsCorrupted(indexState)
    /\ Scale <= AvaliableMemory
    /\ indexState' = indexState + 1
    /\ ctx' = [ctx EXCEPT ![t].left = MovesLeft(ctx[t].order),
                          ![t].order = IF @ > Len(index) THEN Len(index) ELSE @]
    /\ Goto(t, "inserting")
    /\ UNCHANGED <<log, dataEnd, dataLock, index, indexEnd, wasted, calls, call>>

\* _Set_InsertIndex up to the choice of the side: a write session of the index
\* that is reverted at once when the search is stale or there is no room.
BeginInsert(t) ==
    /\ pc[t] = "insert"
    /\ ~IsCorrupted(indexState)
    /\ \/ /\ indexState # ctx[t].indexState
          /\ Goto(t, "search")
          /\ UNCHANGED <<indexState, ctx>>
       \/ /\ indexState = ctx[t].indexState
          /\ Scale > AvaliableMemory
          /\ Fail(t, "notEnoughMemory")
          /\ UNCHANGED indexState
       \/ /\ indexState = ctx[t].indexState
          /\ Scale <= AvaliableMemory
          /\ indexState' = indexState + 1
          /\ ctx' = [ctx EXCEPT ![t].left = MovesLeft(ctx[t].order)]
          /\ Goto(t, "inserting")
    /\ UNCHANGED <<log, dataEnd, dataLock, index, indexEnd, wasted, calls, call>>

\* The rest of _Set_InsertIndex: the assertion of _SetIndexBegin, the slots,
\* and the end of the session, reverted when the last free unit is gone.
EndInsert(t) ==
    /\ pc[t] = "inserting"
    /\ IF ctx[t].left /\ indexBegin - Scale < dataEnd
       THEN Goto(t, "assertIndexBegin") /\ UNCHANGED <<index, indexEnd, indexState, ctx>>
       ELSE /\ index' = InsertAt(index, ctx[t].order + 1, ctx[t].composing)
            /\ indexEnd' = IF ctx[t].left THEN indexEnd ELSE indexEnd + Scale
            /\ LET full == indexEnd' - Len(index') * Scale <= dataEnd
                   room == IF ctx[t].left THEN 0 ELSE Scale
               IN /\ indexState' = IF full THEN indexState - 1 ELSE indexState + 1
                  /\ ctx' = [ctx EXCEPT ![t].adjustment = @ - PhysicalSize(call[t].size) - room,
                                        ![t].error = IF full THEN "notEnoughMemory" ELSE "none"]
            /\ Goto(t, "return")
    /\ UNCHANGED <<log, dataEnd, dataLock, wasted, calls, call>>

\* BeginWriteTimed on the record to replace, the check of its version and the
\* composition of its successor, two stable versions ahead.
LockReplace(t) ==
    /\ pc[t] = "lockReplace"
    /\ ~IsCorrupted(Existing(t).state)
    /\ \/ /\ Existing(t).state # ctx[t].version
          /\ Goto(t, "search")
          /\ UNCHANGED log
       \/ /\ Existing(t).state = ctx[t].version
          /\ log' = [log EXCEPT ![ctx[t].existing].state = @ + 1,
                                ![ctx[t].composing] = Record(call[t].key, ctx[t].version + 4, call[t].size)]
          /\ Goto(t, "modify")
    /\ UNCHANGED <<dataEnd, dataLock, index, indexEnd, indexState, wasted, calls, call, ctx>>

\* Mutant of BeginModify: a stale search starts over with the record locked.
BeginModifyHolding(t) ==
    /\ pc[t] = "modify"
    /\ ~IsCorrupted(indexState)
    /\ IF indexState # ctx[t].indexState
       THEN Goto(t, "search") /\ UNCHANGED indexState
       ELSE Goto(t, "modifying") /\ indexState' = indexState + 1
    /\ UNCHANGED <<log, dataEnd, dataLock, index, indexEnd, wasted, calls, call, ctx>>

\* WriteTimedAlwaysRevert of _Set_ModifyIndex, its check; a stale search gives
\* the record back and starts over.
BeginModify(t) ==
    /\ pc[t] = "modify"
    /\ ~IsCorrupted(indexState)
    /\ \/ /\ indexState # ctx[t].indexState
          /\ log' = [log EXCEPT ![ctx[t].existing].state = @ - 1]
          /\ Goto(t, "search")
          /\ UNCHANGED indexState
       \/ /\ indexState = ctx[t].indexState
          /\ indexState' = indexState + 1
          /\ Goto(t, "modifying")
          /\ UNCHANGED log
    /\ UNCHANGED <<dataEnd, dataLock, index, indexEnd, wasted, calls, call, ctx>>

\* The slot is redirected and the state of the index given back.
EndModify(t) ==
    /\ pc[t] = "modifying"
    /\ index' = ReplaceAt(index, ctx[t].order + 1, ctx[t].composing)
    /\ indexState' = indexState - 1
    /\ ctx' = [ctx EXCEPT ![t].adjustment =
                   @ - PhysicalSize(call[t].size) + PhysicalSize(ctx[t].valueSize)]
    /\ Goto(t, "unlockReplaced")
    /\ UNCHANGED <<log, dataEnd, dataLock, indexEnd, wasted, calls, call>>

\* EndWrite on the record that has been replaced.
UnlockReplaced(t) ==
    /\ pc[t] = "unlockReplaced"
    /\ log' = [log EXCEPT ![ctx[t].existing].state = @ + 1]
    /\ Goto(t, "return")
    /\ UNCHANGED <<dataEnd, dataLock, index, indexEnd, indexState, wasted, calls, call, ctx>>

-----------------------------------------------------------------------------
(* Set of a value that fits in the record found.                           *)

\* Mutant of SetValue: the counter of wasted memory is not adjusted.
SetValueUncounted(t) ==
    /\ pc[t] = "setValue"
    /\ ~IsCorrupted(Existing(t).state)
    /\ log' = [log EXCEPT ![ctx[t].existing].size = call[t].size,
                          ![ctx[t].existing].state = @ + 2]
    /\ Goto(t, "return")
    /\ UNCHANGED <<dataEnd, dataLock, index, indexEnd, indexState, wasted, calls, call, ctx>>

\* KeyValue.SetValueTimed, one write session of the record: the version that
\* the search saw is not compared.
SetValue(t) ==
    /\ pc[t] = "setValue"
    /\ ~IsCorrupted(Existing(t).state)
    /\ IF Existing(t).deleted
       THEN Fail(t, "unknown") /\ UNCHANGED log
       ELSE /\ log' = [log EXCEPT ![ctx[t].existing].size = call[t].size,
                                  ![ctx[t].existing].state = @ + 2]
            /\ ctx' = [ctx EXCEPT ![t].adjustment = @ + ctx[t].valueSize - call[t].size]
            /\ Goto(t, "return")
    /\ UNCHANGED <<dataEnd, dataLock, index, indexEnd, indexState, wasted, calls, call>>

-----------------------------------------------------------------------------
(* Delete: the record is locked, its slot removed, then it is marked.      *)

\* _Delete_MarkData, its check.
LockDelete(t) ==
    /\ pc[t] = "lockDelete"
    /\ ~IsCorrupted(Existing(t).state)
    /\ \/ /\ Existing(t).state # ctx[t].version
          /\ Goto(t, "search")
          /\ UNCHANGED log
       \/ /\ Existing(t).state = ctx[t].version
          /\ log' = [log EXCEPT ![ctx[t].existing].state = @ + 1]
          /\ Goto(t, "remove")
    /\ UNCHANGED <<dataEnd, dataLock, index, indexEnd, indexState, wasted, calls, call, ctx>>

\* Mutant of RemoveSlot: the state of the index is not compared.
RemoveSlotUnchecked(t) ==
    /\ pc[t] = "remove"
    /\ ~IsCorrupted(indexState)
    /\ index' = IF ctx[t].order < Len(index) THEN RemoveAt(index, ctx[t].order + 1) ELSE index
    /\ indexState' = indexState + 2
    /\ Goto(t, "mark")
    /\ UNCHANGED <<log, dataEnd, dataLock, indexEnd, wasted, calls, call, ctx>>

\* _Delete_RemoveIndex, one write session of the index: the shorter half moves.
RemoveSlot(t) ==
    /\ pc[t] = "remove"
    /\ ~IsCorrupted(indexState)
    /\ \/ /\ indexState # ctx[t].indexState
          /\ log' = [log EXCEPT ![ctx[t].existing].state = @ - 1]
          /\ Goto(t, "search")
          /\ UNCHANGED <<index, indexEnd, indexState, ctx>>
       \/ /\ indexState = ctx[t].indexState
          /\ LET room == IF RemoveMovesLeft(Len(index), ctx[t].order) THEN 0 ELSE Scale
             IN /\ indexEnd' = indexEnd - room
                /\ ctx' = [ctx EXCEPT ![t].adjustment = @ + room]
          /\ index' = RemoveAt(index, ctx[t].order + 1)
          /\ indexState' = indexState + 2
          /\ Goto(t, "mark")
          /\ UNCHANGED log
    /\ UNCHANGED <<dataEnd, dataLock, wasted, calls, call>>

\* KeyValue.DeleteUnsafe and the end of the write session of the record.
MarkDeleted(t) ==
    /\ pc[t] = "mark"
    /\ log' = [log EXCEPT ![ctx[t].existing].deleted = TRUE, ![ctx[t].existing].state = @ + 1]
    /\ ctx' = [ctx EXCEPT ![t].adjustment = @ + PhysicalSize(ctx[t].valueSize)]
    /\ Goto(t, "return")
    /\ UNCHANGED <<dataEnd, dataLock, index, indexEnd, indexState, wasted, calls, call>>

-----------------------------------------------------------------------------

\* The end of Set and Delete: the counter of wasted memory is adjusted.
Return(t) ==
    /\ pc[t] = "return"
    /\ wasted' = wasted + ctx[t].adjustment
    /\ Goto(t, "idle")
    /\ call' = [call EXCEPT ![t] = NoCall]
    /\ ctx' = [ctx EXCEPT ![t] = NewContext]
    /\ UNCHANGED <<log, dataEnd, dataLock, index, indexEnd, indexState, calls>>

\* The points where a wait for a lock ends at the deadline and nothing is held.
Waiting == {"search", "readRecord", "append", "insert", "lockReplace", "lockDelete"}

\* A deadline passes.  A record that is held is given back by Set, but Delete
\* publishes the next version of a record that it has not marked, whether or
\* not its slot is gone.  SetValueTimed reports ERROR_UNKNOWN.
TimeOut(t) ==
    /\ CanTimeOut
    /\ \/ pc[t] \in Waiting /\ Fail(t, "timeout") /\ UNCHANGED log
       \/ pc[t] = "setValue" /\ Fail(t, "unknown") /\ UNCHANGED log
       \/ /\ pc[t] = "modify"
          /\ Fail(t, "timeout")
          /\ log' = [log EXCEPT ![ctx[t].existing].state = @ - 1]
       \/ /\ pc[t] \in {"remove", "mark"}
          /\ Fail(t, "timeout")
          /\ log' = [log EXCEPT ![ctx[t].existing].state = @ + 1]
    /\ UNCHANGED <<dataEnd, dataLock, index, indexEnd, indexState, wasted, calls, call>>

\* What the search of t has found has been replaced or overwritten since, or its
\* slot has moved; an in-place Set does not notice, nor does a call whose search
\* lay between the check of a record and the reverted session that redirects its
\* slot, or inside the session of an insert that ran out of memory.
Overtaken(t) ==
    \/ /\ pc[t] = "setValue"
       /\ ctx[t].existing \notin Range(index) \/ Existing(t).size # ctx[t].valueSize
    \/ /\ pc[t] = "modifying" \/ (pc[t] = "remove" /\ indexState = ctx[t].indexState)
       /\ \/ index[ctx[t].order + 1] # ctx[t].existing
          \/ Existing(t).size # ctx[t].valueSize

Step(t) ==
    /\ \/ SearchIndex(t) \/ ReadRecord(t) \/ VerifySearch(t)
       \/ BeginAppend(t) \/ EndAppend(t) \/ Compose(t) \/ BeginInsert(t) \/ EndInsert(t)
       \/ LockReplace(t) \/ BeginModify(t) \/ EndModify(t) \/ UnlockReplaced(t)
       \/ SetValue(t)
       \/ LockDelete(t) \/ RemoveSlot(t) \/ MarkDeleted(t)
       \/ Return(t)
    /\ overtaken' = (overtaken \/ Overtaken(t))

Quiescent == \A t \in Thread : pc[t] = "idle"

Next ==
    \/ \E t \in Thread : Step(t) \/ ((Call(t) \/ TimeOut(t)) /\ UNCHANGED overtaken)
    \/ Quiescent /\ calls = MaxCalls /\ UNCHANGED vars

Spec == Init /\ [][Next]_vars

\* Every thread that can take a step eventually takes one; no deadline passes.
FairSpec == Spec /\ \A t \in Thread : WF_vars(Step(t))

-----------------------------------------------------------------------------
(* Properties.                                                             *)

PCs == Waiting \cup
    {"verify", "appending", "compose", "inserting", "modify", "modifying", "unlockReplaced",
     "setValue", "remove", "mark", "return", "idle", "assertDeleted", "assertIndexBegin"}

\* Every variable has its type and every slot names a record.
TypeOK ==
    /\ \A i \in DOMAIN log :
        /\ log[i].key \in Keys /\ log[i].state \in Nat
        /\ log[i].size <= log[i].capacity
    /\ dataEnd \in 0..MaxEnd /\ dataLock \subseteq Thread
    /\ index \in Seq(DOMAIN log) /\ indexEnd \in 0..MaxEnd /\ indexState \in Nat
    /\ wasted \in Int /\ overtaken \in BOOLEAN
    /\ pc \in [Thread -> PCs] /\ call \in [Thread -> Calls \cup {NoCall}]

\* The keys of the slots are strictly increasing, at every step: two calls
\* that insert the same key, or a call whose search is out of date, never put
\* a slot in the wrong place (README.md:2 of the repository: "keys are sorted").
IndexSorted ==
    \A i, j \in DOMAIN index : i < j => log[index[i]].key < log[index[j]].key

\* A slot never leads to a record that is not composed yet or is already
\* marked: Delete removes before it marks, Set composes before it publishes.
SlotsLeadToLiveRecords ==
    \A i \in DOMAIN index : log[index[i]].composed /\ ~log[index[i]].deleted

\* SortedTable.c:1241: "DEV BUG!!! _Search got a deleted item".
NoDeletedItemFound == \A t \in Thread : pc[t] # "assertDeleted"

\* The records never run into the slots, although an append and an insert may
\* each have checked the same free memory under locks of their own: the slot
\* that _Set_AppendData reserves is the only one an insert can take before the
\* append is over, since a second insert has to pass the lock of the data.
\* (SortedTable.c:252: "DEV BUG!!! _SetIndexBegin out of boundary!".)
DataBelowIndex ==
    /\ dataEnd <= indexBegin
    /\ \A t \in Thread : pc[t] # "assertIndexBegin"

\* A record with an odd state is held by one call, and is the record that this
\* call has found: the check of its version was made under the lock.
Held(t) == pc[t] \in {"modify", "modifying", "unlockReplaced", "remove", "mark"}
RecordLocksExclude ==
    \A i \in DOMAIN log : log[i].composed /\ IsCorrupted(log[i].state) =>
        Cardinality({t \in Thread : Held(t) /\ ctx[t].existing = i}) = 1

\* When no call is running and none has timed out, header.wasted is the size of
\* the records that no slot leads to, of the unused part of the others, and of
\* the slots free behind indexEnd: what Table.Set compares with half the size.
\* Only a call that works on a record which another one has replaced, overwritten
\* or moved the slot of since puts it off, however calls overlap or fail.
LiveSize == FoldLeft(LAMBDA sum, i : sum + PhysicalSize(log[i].size), 0, index)
WastedIsExact ==
    Quiescent /\ ~overtaken => wasted = (dataEnd - LiveSize) + (MaxEnd - indexEnd)

\* Every call returns when no deadline interrupts it: the locks are taken in
\* the order record, index and no cycle of waiting calls can form.
EveryCallReturns == \A t \in Thread : pc[t] # "idle" ~> pc[t] = "idle"
=============================================================================
