----------------------------- MODULE IndexArray -----------------------------
(***************************************************************************)
(* The index of a table, slot by slot: _InsertIndexAt and _RemoveIndexAt   *)
(* of SortedTable.c as the stores they make, in their order, with a binary *)
(* search that reads the slots meanwhile and validates what it read by the *)
(* state of the index machine.  Slots lie at the positions from indexBegin *)
(* to indexEnd - 1 of a memory of Room slots.                              *)
(*                                                                         *)
(* A write session excludes other write sessions (module NonBlocking), so  *)
(* one writer is enough; it does not wait for readers.  Each slot of a     *)
(* memmove is one store, in an order in which no source is overwritten.    *)
(* Redirecting a slot to another record of the same key (_Set_ModifyIndex) *)
(* changes nothing here, where a slot is named by its key.                 *)
(***************************************************************************)
EXTENDS Integers, Sequences, FiniteSets, SequencesExt, IndexOps

CONSTANTS
    Keys,      \* the keys; a slot is named by the key of its record
    Room,      \* the slots that fit in the memory
    MaxWrites  \* bound: the number of write sessions

ASSUME KeysArePositive == Keys \subseteq Nat \ {0} /\ IsFiniteSet(Keys)
ASSUME BoundsAreNatural == Room \in Nat /\ MaxWrites \in Nat

VARIABLES
    memory,      \* the slots, in use or not; Empty where nothing was stored
    indexBegin,  \* header.indexBegin
    indexEnd,    \* header.indexEnd
    state,       \* indexStateMachine.state
    change,      \* the slot that the write session inserts or removes
    program,     \* the stores that the write session has left
    before,      \* the slots when the write session began
    search       \* the search that is going on

writer == <<memory, indexBegin, indexEnd, state, change, program, before>>
vars == <<writer, search>>

Empty == 0       \* offset 0, the header of the table
Outside == -1    \* what lies right behind the memory
Null == -2       \* _IndexPointerAt found the pointer out of the table
IsCorrupted(s) == s % 2 = 1

Slots == [i \in 1..(indexEnd - indexBegin) |-> memory[indexBegin + i - 1]]
OrderOf(sequence, key) == Cardinality({i \in DOMAIN sequence : sequence[i] < key})

NoChange == [kind |-> "none", order |-> 0, key |-> Empty]

NoSearch ==
    [at |-> "idle", key |-> Empty, enter |-> 0, bound |-> 0, begin |-> 0, end |-> 0,
     pointer |-> 0, slot |-> Empty, found |-> FALSE, seen |-> <<>>]

Init ==
    /\ memory = [p \in 0..(Room - 1) |-> Empty]
    /\ indexBegin = Room
    /\ indexEnd = Room
    /\ state = 0
    /\ change = NoChange
    /\ program = <<>>
    /\ before = <<>>
    /\ search = NoSearch

-----------------------------------------------------------------------------
(* The write session.                                                      *)

Put(position, key) == [store |-> "put", to |-> position, value |-> key]
Copy(target, source) == [store |-> "copy", to |-> target, value |-> source]
SetIndexBegin(position) == [store |-> "begin", to |-> position, value |-> Empty]
SetIndexEnd(position) == [store |-> "end", to |-> position, value |-> Empty]

\* Mutant of InsertStores: the bound moves before the slot behind it is filled.
InsertStoresBoundFirst(order, key) ==
    LET count == indexEnd - indexBegin
        first == indexBegin - 1
        last == indexEnd
    IN IF InsertMovesLeft(count, order, 0 < indexBegin, indexEnd < Room)
       THEN <<SetIndexBegin(first)>>
            \o [i \in 1..order |-> Copy(first + i - 1, first + i)]
            \o <<Put(first + order, key)>>
       ELSE <<SetIndexEnd(last + 1)>>
            \o [i \in 1..(count - order) |-> Copy(last + 1 - i, last - i)]
            \o <<Put(indexBegin + order, key)>>

\* _InsertIndexAt: the outermost slot is filled, the bound moves over it, the
\* slots in between move and the new one is stored last.
InsertStores(order, key) ==
    LET count == indexEnd - indexBegin
        first == indexBegin - 1
        last == indexEnd
    IN IF InsertMovesLeft(count, order, 0 < indexBegin, indexEnd < Room)
       THEN IF order = 0
            THEN <<Put(first, key), SetIndexBegin(first)>>
            ELSE <<Copy(first, first + 1), SetIndexBegin(first)>>
                 \o [i \in 1..(order - 1) |-> Copy(first + i, first + i + 1)]
                 \o <<Put(first + order, key)>>
       ELSE IF order = count
            THEN <<Put(last, key), SetIndexEnd(last + 1)>>
            ELSE <<Copy(last, last - 1), SetIndexEnd(last + 1)>>
                 \o [i \in 1..(count - order - 1) |-> Copy(last - i, last - i - 1)]
                 \o <<Put(indexBegin + order, key)>>

\* Mutant of RemoveStores: one slot too few moves on the right.
RemoveStoresShort(order) ==
    LET count == indexEnd - indexBegin
    IN IF RemoveMovesLeft(count, order)
       THEN [i \in 1..order |-> Copy(indexBegin + order + 1 - i, indexBegin + order - i)]
            \o <<SetIndexBegin(indexBegin + 1)>>
       ELSE [i \in 1..(count - order - 2) |-> Copy(indexBegin + order + i - 1, indexBegin + order + i)]
            \o <<SetIndexEnd(indexEnd - 1)>>

\* _RemoveIndexAt: the slots move over the one to remove, then the bound moves.
RemoveStores(order) ==
    LET count == indexEnd - indexBegin
    IN IF RemoveMovesLeft(count, order)
       THEN [i \in 1..order |-> Copy(indexBegin + order + 1 - i, indexBegin + order - i)]
            \o <<SetIndexBegin(indexBegin + 1)>>
       ELSE [i \in 1..(count - order - 1) |-> Copy(indexBegin + order + i - 1, indexBegin + order + i)]
            \o <<SetIndexEnd(indexEnd - 1)>>

\* BeginWrite on the index machine, on behalf of a call whose search is valid.
BeginWrite(requested, stores) ==
    /\ ~IsCorrupted(state)
    /\ state < 2 * MaxWrites
    /\ state' = state + 1
    /\ before' = Slots
    /\ change' = requested
    /\ program' = stores
    /\ UNCHANGED <<memory, indexBegin, indexEnd, search>>

BeginInsert(key) ==
    /\ \A i \in DOMAIN Slots : Slots[i] # key
    /\ 0 < indexBegin \/ indexEnd < Room
    /\ LET order == OrderOf(Slots, key)
       IN BeginWrite([kind |-> "insert", order |-> order, key |-> key], InsertStores(order, key))

BeginRemove(order) ==
    /\ order < Len(Slots)
    /\ BeginWrite([kind |-> "remove", order |-> order, key |-> Empty], RemoveStores(order))

\* The next store of _SetIndex, _SetIndexBegin, _SetIndexEnd or memmove.
Store ==
    /\ program # <<>>
    /\ LET next == Head(program)
       IN /\ memory' = CASE next.store = "put" -> [memory EXCEPT ![next.to] = next.value]
                         [] next.store = "copy" -> [memory EXCEPT ![next.to] = memory[next.value]]
                         [] OTHER -> memory
          /\ indexBegin' = IF next.store = "begin" THEN next.to ELSE indexBegin
          /\ indexEnd' = IF next.store = "end" THEN next.to ELSE indexEnd
    /\ program' = Tail(program)
    /\ UNCHANGED <<state, change, before, search>>

EndWrite ==
    /\ IsCorrupted(state)
    /\ program = <<>>
    /\ state' = state + 1
    /\ change' = NoChange
    /\ UNCHANGED <<memory, indexBegin, indexEnd, program, before, search>>

-----------------------------------------------------------------------------
(* The search: _Search within ReadTimed, one shared load a step.           *)

Search(next) == search' = next /\ UNCHANGED writer

BeginRead(key) ==
    /\ search.at = "idle"
    /\ ~IsCorrupted(state)
    /\ Search([search EXCEPT !.at = "count", !.key = key, !.enter = state, !.seen = Slots])

\* _Count loads the two bounds, in the order that the compiler chose.
LoadFirstBound ==
    /\ search.at = "count"
    /\ \/ Search([search EXCEPT !.at = "subtractBegin", !.bound = indexEnd])
       \/ Search([search EXCEPT !.at = "subtractFrom", !.bound = indexBegin])

\* A negative difference wraps to a huge count: every pointer is out of range.
Huge == 2 * Room + 2
CountOf(distance) == IF distance < 0 THEN Huge ELSE distance

LoadSecondBound ==
    \/ /\ search.at = "subtractBegin"
       /\ Search([search EXCEPT !.at = "loop", !.begin = 0, !.end = CountOf(search.bound - indexBegin)])
    \/ /\ search.at = "subtractFrom"
       /\ Search([search EXCEPT !.at = "loop", !.begin = 0, !.end = CountOf(indexEnd - search.bound)])

Tester == (search.begin + search.end) \div 2

\* _IndexPointerAt: the order counts from where indexBegin is now.
LocateTester ==
    /\ search.at = "loop"
    /\ IF search.begin < search.end
       THEN Search([search EXCEPT !.at = "load", !.pointer = indexBegin + Tester])
       ELSE Search([search EXCEPT !.at = "validate", !.found = FALSE])

SlotAt(pointer) ==
    CASE pointer > Room -> Null
      [] pointer = Room -> Outside
      [] OTHER -> memory[pointer]

LoadSlot ==
    /\ search.at = "load"
    /\ Search([search EXCEPT !.at = "shouldCancel", !.slot = SlotAt(search.pointer)])

\* Mutant of ShouldCancel: a slot is followed without a look at the state.
ShouldCancelNever ==
    /\ search.at = "shouldCancel"
    /\ Search([search EXCEPT !.at = "compare"])

\* _Search_ShouldCancel, between the load of a slot and the use of its record.
ShouldCancel ==
    /\ search.at = "shouldCancel"
    /\ IF state # search.enter
       THEN Search(NoSearch)
       ELSE Search([search EXCEPT !.at = "compare"])

Compare ==
    /\ search.at = "compare"
    /\ CASE search.key > search.slot -> Search([search EXCEPT !.at = "loop", !.begin = Tester + 1])
         [] search.key < search.slot -> Search([search EXCEPT !.at = "loop", !.end = Tester])
         [] OTHER -> Search([search EXCEPT !.at = "reload", !.begin = Tester, !.found = TRUE,
                             !.pointer = indexBegin + Tester])

\* The callback _Search loads the slot of the candidate once more.
ReloadSlot ==
    /\ search.at = "reload"
    /\ Search([search EXCEPT !.at = "validate", !.slot = SlotAt(search.pointer)])

\* Mutant of Validate: the answer is taken without the last comparison.
ValidateNothing ==
    /\ search.at = "validate"
    /\ Search([search EXCEPT !.at = "answer"])

\* The state is compared with the one at the start: start over or answer.
Validate ==
    /\ search.at = "validate"
    /\ IF state # search.enter
       THEN Search(NoSearch)
       ELSE Search([search EXCEPT !.at = "answer"])

Answer ==
    /\ search.at = "answer"
    /\ Search(NoSearch)

Write ==
    \/ \E key \in Keys : BeginInsert(key)
    \/ \E order \in 0..(Room - 1) : BeginRemove(order)
    \/ Store \/ EndWrite

Read ==
    \/ \E key \in Keys : BeginRead(key)
    \/ LoadFirstBound \/ LoadSecondBound \/ LocateTester \/ LoadSlot
    \/ ShouldCancel \/ Compare \/ ReloadSlot \/ Validate \/ Answer

Next == Write \/ Read

Spec == Init /\ [][Next]_vars

-----------------------------------------------------------------------------
(* Properties.                                                             *)

\* Every variable has its type.
TypeOK ==
    /\ memory \in [0..(Room - 1) -> Keys \cup {Empty}]
    /\ indexBegin \in 0..Room /\ indexEnd \in indexBegin..Room
    /\ state \in 0..(2 * MaxWrites)
    /\ search.slot \in Keys \cup {Empty, Outside, Null}

\* Whatever a write session has stored so far, the slots between the bounds
\* hold every key that was there, apart from one that is being removed, and
\* nothing that was never stored: the stores of _InsertIndexAt and
\* _RemoveIndexAt are ordered so that a session that stops half way duplicates
\* a slot but loses none and uncovers none.
NoSlotLostOrUncovered ==
    IsCorrupted(state) =>
        /\ Empty \notin ToSet(Slots)
        /\ Cardinality(ToSet(before) \ ToSet(Slots)) <= 1
        /\ Len(Slots) > Len(before) => ToSet(before) \subseteq ToSet(Slots)

\* The record that a search follows is the one that its slot led to when the
\* session of the search began: slots that are loaded while they move are
\* never followed, although nothing stops the writer.
FollowsValidSlots ==
    search.at = "compare" =>
        Tester < Len(search.seen) /\ search.slot = search.seen[Tester + 1]

\* A validated search answers for the slots at the start of its session: the
\* record of the key, or the order at which the key belongs.
AnswersForItsSession ==
    search.at = "answer" =>
        /\ search.found <=> search.key \in ToSet(search.seen)
        /\ IF search.found
           THEN search.slot = search.key /\ search.seen[search.begin + 1] = search.key
           ELSE search.begin = OrderOf(search.seen, search.key)

\* The slot array implements the sorted sequence: a write session inserts or
\* removes the slot that it was asked to, and takes effect when it ends.
Sequence == INSTANCE SlotSequence WITH
    slots <- IF IsCorrupted(state) THEN before ELSE Slots
ImplementsSequence == Sequence!Spec
=============================================================================
