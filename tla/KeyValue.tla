------------------------------ MODULE KeyValue ------------------------------
(***************************************************************************)
(* One record of KeyValue.c that threads of several processes share: the   *)
(* loads of GetValueTimed and CloneTimed against the stores of             *)
(* SetValueTimed and of the Delete of a table, and TryFixStateUnsafe on    *)
(* what a killed writer has left.                                          *)
(*                                                                         *)
(* A step is one load or store. Those of the code are in the order of the  *)
(* source; the sessions are the machine of module NonBlocking, whose       *)
(* compare-and-swap is one step here. The size of the value is a number of *)
(* SizeBufferCompact.c and U64.c in miniature: one byte while it is below  *)
(* Short, a first byte with the upper part and a second one with the lower *)
(* part from there on (module Numbers has the whole encoding). The key     *)
(* never changes and is left out, a checksum is as good as what it sums.   *)
(***************************************************************************)
EXTENDS Integers, Sequences, FiniteSets

CONSTANTS
    Thread,     \* the threads that use the record
    Sizes,      \* the sizes of the values that Set stores
    Capacity,   \* of the value: the size that the record was created with
    Short,      \* numbers below it take one byte (128)
    Base,       \* the values of a byte (256)
    MaxWrites,  \* bound: the calls that write
    CanCrash    \* whether a thread may be killed between two of its steps

ASSUME SizesAreNatural == Capacity \in Nat /\ Sizes \subseteq Nat \ {0} /\ MaxWrites \in Nat
ASSUME TwoBytes ==
    /\ Short \in Nat /\ Base \in Nat /\ 0 < Short /\ Short <= Base
    /\ Capacity < Base * Short
ASSUME CanCrashBool == CanCrash \in BOOLEAN

VARIABLES
    state,      \* header.stateMachine.state, the version of the record
    memory,     \* the rest of it
    clock,      \* TimeZone.NowByUtcTotalMicroseconds, which ticks at every write
    alive,      \* the threads that have not been killed
    pc,         \* where each thread stands in its call
    local,      \* its local variables
    published   \* history: what each stable state has stood for

vars == <<state, memory, clock, alive, pc, local, published>>

IsCorrupted(s) == s % 2 = 1
FirstVersion == 2

-----------------------------------------------------------------------------
(* The size of the value, and the value.                                   *)

ShortByte(n) == [long |-> FALSE, bits |-> n]
LongByte(n) == [long |-> TRUE, bits |-> n]

\* U64.Construct: the ones and the upper part are set behind the lower part.
SizeStores(n) ==
    IF n < Short THEN <<[field |-> "first", value |-> ShortByte(n)]>>
    ELSE <<[field |-> "first", value |-> ShortByte(0)],
           [field |-> "second", value |-> n % Base],
           [field |-> "first", value |-> LongByte(0)],
           [field |-> "first", value |-> LongByte(n \div Base)]>>

\* U64.Compare of first bytes: the ones weigh more than all other bits.
IsLess(a, b) == \/ ~a.long /\ b.long
                \/ a.long = b.long /\ a.bits < b.bits

CapacityFirst == IF Capacity < Short THEN ShortByte(Capacity) ELSE LongByte(Capacity \div Base)
CapacitySecond == Capacity % Base

NumberIn(first, second) == IF first.long THEN first.bits * Base + second ELSE first.bits

\* SizeBuffer.Size while nobody writes: the capacity is the greatest answer.
SizeIn(m) ==
    LET size == NumberIn(m.first, m.second)
    IN  IF size < Capacity THEN size ELSE Capacity

ValueIn(m) == SubSeq(m.data, 1, SizeIn(m))

Value(time, size) == [i \in 1 .. size |-> time]

\* What a stable record stands for.
Content(m) == [time |-> m.time, deleted |-> m.deleted, value |-> ValueIn(m)]

NoLocals == [call |-> "none", enterTime |-> 0, size |-> 0, ticket |-> 0, time |-> 0,
             deleted |-> FALSE, room |-> -1, first |-> ShortByte(0), copy |-> <<>>, stores |-> <<>>]

\* KeyValue.Initialize of a value that fills the record.
Init ==
    /\ state = FirstVersion
    /\ memory = [time |-> 0, deleted |-> FALSE, crc |-> Value(0, Capacity),
                 first |-> CapacityFirst, second |-> CapacitySecond, data |-> Value(0, Capacity)]
    /\ clock = 0
    /\ alive = Thread
    /\ pc = [t \in Thread |-> "idle"]
    /\ local = [t \in Thread |-> NoLocals]
    /\ published = [v \in {FirstVersion} |-> Content(memory)]

Goto(t, label) == pc' = [pc EXCEPT ![t] = label]
Keep(t, field, value) == local' = [local EXCEPT ![t][field] = value]

\* A call starts: a write has the time at which it was entered.
Call(t) ==
    /\ pc[t] = "idle"
    /\ \/ \E call \in {"Get", "Clone"} :
            /\ local' = [local EXCEPT ![t].call = call]
            /\ Goto(t, "beginRead")
            /\ UNCHANGED clock
       \/ \E call \in {"Set", "Delete"}, size \in Sizes \cup {0} :
            /\ (call = "Delete") = (size = 0)
            /\ clock < MaxWrites
            /\ clock' = clock + 1
            /\ local' = [local EXCEPT ![t].call = call, ![t].size = size, ![t].enterTime = clock']
            /\ Goto(t, "beginWrite")
    /\ UNCHANGED <<state, memory, published>>

-----------------------------------------------------------------------------
(* GetValueTimed and CloneTimed.                                           *)

BeginRead(t) ==
    /\ pc[t] = "beginRead"
    /\ ~IsCorrupted(state)
    /\ local' = [local EXCEPT ![t].ticket = state, ![t].room = -1, ![t].copy = <<>>]
    /\ Goto(t, IF local[t].call = "Get" THEN "readTime" ELSE "compareFirst")
    /\ UNCHANGED <<state, memory, clock, published>>

ReadTime(t) ==
    /\ pc[t] = "readTime"
    /\ Keep(t, "time", memory.time)
    /\ Goto(t, "readDeleted")
    /\ UNCHANGED <<state, memory, clock, published>>

\* The value of a deleted record is not read.
ReadDeleted(t) ==
    /\ pc[t] = "readDeleted"
    /\ Keep(t, "deleted", memory.deleted)
    /\ Goto(t, IF memory.deleted THEN "check" ELSE "compareFirst")
    /\ UNCHANGED <<state, memory, clock, published>>

\* CloneTimed reads the size twice: for the room of the clone, then for the
\* value in it, which SizeBuffer.InitializeByString refuses when there is no room.
UseSize(t, size) ==
    LET clones == local[t].call = "Clone"
    IN  /\ IF clones /\ local[t].room < 0
           THEN Keep(t, "room", size) /\ Goto(t, "compareFirst")
           ELSE /\ Keep(t, "size", size)
                /\ Goto(t, IF clones /\ local[t].room < size THEN "assertCopied" ELSE "copy")
        /\ UNCHANGED <<state, memory, clock, published>>

\* SizeBuffer.Size compares the size with the capacity, byte by byte, ...
CompareFirst(t) ==
    /\ pc[t] = "compareFirst"
    /\ \/ /\ IsLess(memory.first, CapacityFirst)
          /\ Goto(t, "loadFirst")
          /\ UNCHANGED <<state, memory, clock, local, published>>
       \/ /\ memory.first = CapacityFirst /\ memory.first.long
          /\ Goto(t, "compareSecond")
          /\ UNCHANGED <<state, memory, clock, local, published>>
       \/ /\ \/ IsLess(CapacityFirst, memory.first)
             \/ memory.first = CapacityFirst /\ ~memory.first.long
          /\ UseSize(t, Capacity)

CompareSecond(t) ==
    /\ pc[t] = "compareSecond"
    /\ \/ /\ memory.second < CapacitySecond
          /\ Goto(t, "loadFirst")
          /\ UNCHANGED <<state, memory, clock, local, published>>
       \/ /\ memory.second >= CapacitySecond
          /\ UseSize(t, Capacity)

\* ... and then loads the smaller one again (U64.Value).
LoadFirst(t) ==
    /\ pc[t] = "loadFirst"
    /\ \/ /\ memory.first.long
          /\ Keep(t, "first", memory.first)
          /\ Goto(t, "loadSecond")
          /\ UNCHANGED <<state, memory, clock, published>>
       \/ /\ ~memory.first.long
          /\ UseSize(t, memory.first.bits)

LoadSecond(t) ==
    /\ pc[t] = "loadSecond"
    /\ UseSize(t, NumberIn(local[t].first, memory.second))

Behind == -1    \* a byte that is not part of the value

\* The copy of the value, a byte at a time.
CopyByte(t) ==
    /\ pc[t] = "copy"
    /\ LET i == Len(local[t].copy) + 1
       IN  \/ /\ i <= local[t].size
              /\ Keep(t, "copy", Append(local[t].copy, IF i <= Capacity THEN memory.data[i] ELSE Behind))
              /\ UNCHANGED pc
           \/ /\ i > local[t].size
              /\ Goto(t, "check")
              /\ UNCHANGED local
    /\ UNCHANGED <<state, memory, clock, published>>

\* Mutant of CheckRead: the state is only tested for a writer inside.
CheckReadStable(t) ==
    /\ pc[t] = "check"
    /\ Goto(t, IF ~IsCorrupted(state) THEN "got" ELSE "beginRead")
    /\ UNCHANGED <<state, memory, clock, local, published>>

\* EndReadAndCheckSuccess; what has been read during a write is thrown away.
CheckRead(t) ==
    /\ pc[t] = "check"
    /\ Goto(t, IF state = local[t].ticket THEN "got" ELSE "beginRead")
    /\ UNCHANGED <<state, memory, clock, local, published>>

\* GetValueTimed returns what it has read. CloneTimed returns NULL in any case:
\* the buffer of its loop is not the variable of that name that it returns.
ReturnRead(t) ==
    /\ pc[t] = "got"
    /\ Goto(t, "idle")
    /\ local' = [local EXCEPT ![t] = NoLocals]
    /\ UNCHANGED <<state, memory, clock, published>>

-----------------------------------------------------------------------------
(* SetValueTimed, and the write session of the record in SortedTable.      *)
(* Delete.                                                                 *)

\* SetValueUnsafe: the bytes of the value, its size and its checksum; then the
\* time at which the call was entered.
SetStores(time, size) ==
    [i \in 1 .. size |-> [field |-> "data", at |-> i, value |-> time]]
    \o SizeStores(size)
    \o <<[field |-> "crc", value |-> Value(time, size)],
         [field |-> "time", value |-> time]>>

DeleteStores == <<[field |-> "deleted", value |-> TRUE]>>

BeginWrite(t) ==
    /\ pc[t] = "beginWrite"
    /\ ~IsCorrupted(state)
    /\ state' = state + 1
    /\ Keep(t, "ticket", state')
    /\ Goto(t, "locked")
    /\ UNCHANGED <<memory, clock, published>>

\* A deleted record is given back, and so is one that the value does not fit in.
Decide(t) ==
    /\ pc[t] = "locked"
    /\ \/ /\ memory.deleted \/ (local[t].call = "Set" /\ local[t].size > Capacity)
          /\ Goto(t, "revert")
          /\ UNCHANGED local
       \/ /\ ~memory.deleted
          /\ local[t].call = "Delete" \/ local[t].size <= Capacity
          /\ Keep(t, "stores", IF local[t].call = "Delete" THEN DeleteStores
                               ELSE SetStores(local[t].enterTime, local[t].size))
          /\ Goto(t, "write")
    /\ UNCHANGED <<state, memory, clock, published>>

StoreIn(m, s) ==
    IF s.field = "data" THEN [m EXCEPT !.data[s.at] = s.value]
    ELSE [m EXCEPT ![s.field] = s.value]

Write(t) ==
    /\ pc[t] = "write"
    /\ local[t].stores # <<>>
    /\ memory' = StoreIn(memory, Head(local[t].stores))
    /\ Keep(t, "stores", Tail(local[t].stores))
    /\ UNCHANGED <<state, clock, pc, published>>

\* A stable state stands for what is in the record from now on.
Publish(version) ==
    published' = [v \in DOMAIN published \cup {version} |->
                    IF v = version THEN Content(memory) ELSE published[v]]

\* Mutant of EndWrite: the state that was found comes back.
EndWriteByRevert(t) ==
    /\ pc[t] = "write"
    /\ local[t].stores = <<>>
    /\ state' = state - 1
    /\ Goto(t, "wrote")
    /\ UNCHANGED <<memory, clock, local, published>>

EndWrite(t) ==
    /\ pc[t] = "write"
    /\ local[t].stores = <<>>
    /\ state' = state + 1
    /\ Publish(state')
    /\ Goto(t, "wrote")
    /\ UNCHANGED <<memory, clock, local>>

\* SetValueTimed reports the version behind its ticket.
ReturnWrite(t) ==
    /\ pc[t] = "wrote"
    /\ Goto(t, "idle")
    /\ local' = [local EXCEPT ![t] = NoLocals]
    /\ UNCHANGED <<state, memory, clock, published>>

RevertWrite(t) ==
    /\ pc[t] = "revert"
    /\ state' = state - 1
    /\ Goto(t, "idle")
    /\ local' = [local EXCEPT ![t] = NoLocals]
    /\ UNCHANGED <<memory, clock, published>>

-----------------------------------------------------------------------------

\* A deadline passes in BeginReadTimed or BeginWriteTimed.
TimeOut(t) ==
    /\ pc[t] \in {"beginRead", "beginWrite"}
    /\ Goto(t, "idle")
    /\ local' = [local EXCEPT ![t] = NoLocals]
    /\ UNCHANGED <<state, memory, clock, published>>

\* CloneTimed finds no memory for the clone and ends its session.
NoMemory(t) ==
    /\ pc[t] = "compareFirst" /\ local[t].room >= 0
    /\ Goto(t, "idle")
    /\ local' = [local EXCEPT ![t] = NoLocals]
    /\ UNCHANGED <<state, memory, clock, published>>

\* A process is killed in a write session; its stores stay. (Killed elsewhere it
\* does not differ from one that takes no more steps.)
Crash(t) ==
    /\ CanCrash
    /\ pc[t] \in {"locked", "write", "revert"}
    /\ alive' = alive \ {t}
    /\ UNCHANGED <<state, memory, clock, pc, local, published>>

\* Mutant of TryFixStateUnsafe: the value is not summed.
TryFixStateUnchecked ==
    /\ IsCorrupted(state)
    /\ \A t \in alive : pc[t] = "idle"
    /\ state' = state + 1
    /\ Publish(state')
    /\ UNCHANGED <<memory, clock, alive, pc, local>>

\* TryFixStateUnsafe, whose caller sees to it that no call is on the record: a
\* record that a killed writer holds gets its next version if the value agrees
\* with the checksum, and stays as it is otherwise.
TryFixStateUnsafe ==
    /\ IsCorrupted(state)
    /\ \A t \in alive : pc[t] = "idle"
    /\ ValueIn(memory) = memory.crc
    /\ state' = state + 1
    /\ Publish(state')
    /\ UNCHANGED <<memory, clock, alive, pc, local>>

Step(t) ==
    \/ BeginRead(t) \/ ReadTime(t) \/ ReadDeleted(t)
    \/ CompareFirst(t) \/ CompareSecond(t) \/ LoadFirst(t) \/ LoadSecond(t)
    \/ CopyByte(t) \/ CheckRead(t) \/ ReturnRead(t)
    \/ BeginWrite(t) \/ Decide(t) \/ Write(t) \/ EndWrite(t) \/ ReturnWrite(t) \/ RevertWrite(t)

Next ==
    \/ \E t \in alive : (Call(t) \/ Step(t) \/ TimeOut(t) \/ NoMemory(t)) /\ UNCHANGED alive
    \/ \E t \in alive : Crash(t)
    \/ TryFixStateUnsafe

Spec == Init /\ [][Next]_vars

-----------------------------------------------------------------------------
(* Properties.                                                             *)

\* What GetValueTimed returns is time, mark and value of one and the same
\* version, the one it reports, although each was loaded on its own, the size
\* even twice, while writers and the repair of a killed one were at work. The
\* version that a Set reports is the one that holds its value and its time, and
\* remains so when others have written since.
CallsReportTheirVersion ==
    \A t \in Thread :
        /\ pc[t] = "got" /\ local[t].call = "Get" =>
            LET version == published[local[t].ticket]
            IN  /\ local[t].time = version.time
                /\ local[t].deleted = version.deleted
                /\ local[t].deleted \/ local[t].copy = version.value
        /\ pc[t] = "wrote" /\ local[t].call = "Set" =>
            /\ local[t].ticket + 1 \in DOMAIN published
            /\ published[local[t].ticket + 1] =
                    [time |-> local[t].enterTime, deleted |-> FALSE,
                     value |-> Value(local[t].enterTime, local[t].size)]

\* No process that can be killed in a write leaves a record that is stable and
\* holds a mixture of two values: a stable value has one writer and the size of
\* what that one wrote, also after a repair by the checksum.
IsWhole(value) == \A i \in DOMAIN value : value[i] = value[1]
StableValueIsWhole ==
    ~IsCorrupted(state) =>
        /\ IsWhole(ValueIn(memory))
        /\ ValueIn(memory) = memory.crc

\* U64.c:120 has the stores ordered so that "any temporary interpretation of the
\* number won't be greater than it real value", and KeyValue.c:479 asserts that
\* a clone has room for the value. A reader that loads byte by byte, or twice,
\* may find both untrue, but only when a writer has moved the state on since it
\* began: its session is bound to fail.
OverrunsAreDiscarded ==
    \A t \in Thread :
        \/ pc[t] = "assertCopied"
        \/ pc[t] = "copy" /\ local[t].size > Len(published[local[t].ticket].value)
        => state # local[t].ticket
=============================================================================
