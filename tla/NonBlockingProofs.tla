------------------------- MODULE NonBlockingProofs -------------------------
(***************************************************************************)
(* Theorems about NonBlocking, for every finite set of threads and every   *)
(* bound on the state.  The inductive invariant IInv ties the three things *)
(* that the code keeps apart: the parity of the state (is a writer inside, *)
(* and where in its call is it), the two guarded words (how much of the    *)
(* write is done), and the ticket and copies of every optimistic reader.   *)
(***************************************************************************)
EXTENDS NonBlocking, FiniteSetTheorems, TLAPS

\* The threads whose ticket is a stable state they have loaded.
TicketPC == {"entering", "reading1", "reading2", "leaving", "checking", "validated", "acquiring"}

\* An odd state belongs to a writer.
OddHasWriter == IsCorrupted(state) => Writers # {}

\* The words hold the state, or what the writer inside has made of them.
WordsMatchState ==
    /\ ~IsCorrupted(state) => \A w \in Word : words[w] = state
    /\ \A t \in Thread :
        /\ pc[t] \in {"waiting", "writing1", "reverting"} => \A w \in Word : words[w] = ticket[t] - 1
        /\ pc[t] = "writing2" => words[1] = ticket[t] + 1 /\ words[2] = ticket[t] - 1
        /\ pc[t] = "ending" => \A w \in Word : words[w] = ticket[t] + 1

\* A loaded stable state is stable and not in the future.
TicketsPast == \A t \in Thread : pc[t] \in TicketPC => ~IsCorrupted(ticket[t]) /\ ticket[t] <= state

\* No write has touched the words since t loaded its ticket.
Fresh(t) == state = ticket[t] \/ (state = ticket[t] + 1 /\ words[1] = ticket[t])

\* As long as that is so, what t has copied is what its ticket names.
SeenIsTicket ==
    \A t \in Thread :
        /\ pc[t] = "reading2" /\ Fresh(t) => seen[t][1] = ticket[t]
        /\ pc[t] \in {"leaving", "checking"} /\ Fresh(t) => \A w \in Word : seen[t][w] = ticket[t]

IInv ==
    /\ TypeOK
    /\ ReaderCounterExact
    /\ WriterOwnsState
    /\ OddHasWriter
    /\ WordsMatchState
    /\ TicketsPast
    /\ SeenIsTicket
    /\ ValidatedReadIsAtomic

-----------------------------------------------------------------------------

\* Adding or subtracting one changes the corrupted bit.
LEMMA Parity ==
    ASSUME NEW n \in Int
    PROVE  /\ IsCorrupted(n + 1) <=> ~IsCorrupted(n)
           /\ IsCorrupted(n - 1) <=> ~IsCorrupted(n)
BY DEF IsCorrupted

\* The last stable state is the state itself or, when it is odd, its predecessor.
LEMMA LastStableValue ==
    ASSUME NEW n \in Int
    PROVE  LastStable(n) = IF IsCorrupted(n) THEN n - 1 ELSE n
BY DEF IsCorrupted, LastStable

\* Zero, the initial state, is stable.
LEMMA ZeroStable == ~IsCorrupted(0)
BY DEF IsCorrupted

\* A set of threads is finite, so its cardinality is a natural number.
LEMMA ThreadsFinite ==
    ASSUME NEW S \in SUBSET Thread
    PROVE  IsFiniteSet(S) /\ Cardinality(S) \in Nat
<1>1. IsFiniteSet(S)
  BY ThreadFinite, FS_Subset
<1>2. QED
  BY <1>1, FS_CardinalityType

\* A step of t that leaves the counter alone and does not carry t across the
\* border of a read session keeps the count.
LEMMA CountKept ==
    ASSUME ReaderCounterExact, TypeOK, NEW t \in Thread, NEW label,
           Goto(t, label), UNCHANGED readerCounter,
           pc[t] \in InsideRead <=> label \in InsideRead
    PROVE  ReaderCounterExact'
<1>1. Readers' = Readers
  BY DEF Readers, Goto, TypeOK
<1>2. QED
  BY <1>1 DEF ReaderCounterExact

-----------------------------------------------------------------------------

\* The initial states satisfy the inductive invariant.
LEMMA InitIInv == Init => IInv
<1> SUFFICES ASSUME Init PROVE IInv
  OBVIOUS
<1>1. Readers = {} /\ Writers = {}
  BY DEF Init, Readers, Writers, InsideRead, InsideWrite
<1>2. ReaderCounterExact
  BY <1>1, FS_EmptySet DEF ReaderCounterExact, Init
<1>3. TypeOK
  BY DEF Init, TypeOK, PC, Word
<1>4. OddHasWriter /\ WordsMatchState /\ WriterOwnsState
  BY <1>1, ZeroStable DEF Init, OddHasWriter, WordsMatchState, WriterOwnsState
<1>5. TicketsPast /\ SeenIsTicket /\ ValidatedReadIsAtomic
  BY DEF Init, TicketsPast, TicketPC, SeenIsTicket, ValidatedReadIsAtomic
<1>6. QED
  BY <1>2, <1>3, <1>4, <1>5 DEF IInv

\* The part of the inductive invariant that no counting is needed for.
DataInv ==
    /\ WriterOwnsState
    /\ OddHasWriter
    /\ WordsMatchState
    /\ TicketsPast
    /\ SeenIsTicket
    /\ ValidatedReadIsAtomic

\* Every step keeps it.
LEMMA NextDataInv ==
    ASSUME TypeOK, DataInv, NEW t \in Thread, Progress(t) \/ Environment(t)
    PROVE  DataInv'
<1> USE DEF TypeOK, DataInv, WriterOwnsState, OddHasWriter, WordsMatchState, TicketsPast, TicketPC,
            SeenIsTicket, Fresh, ValidatedReadIsAtomic, Writers, InsideWrite, Word, Goto, PC,
            ReaderPC, WriterPC
<1>0. \A n \in Int : (IsCorrupted(n + 1) <=> ~IsCorrupted(n)) /\ (IsCorrupted(n - 1) <=> ~IsCorrupted(n))
  BY Parity
<1>1. CASE CallRead(t)
  BY <1>0, <1>1 DEF CallRead
<1>2. CASE LoadReadState(t)
  BY <1>0, <1>2 DEF LoadReadState
<1>3. CASE EnterRead(t)
  BY <1>0, <1>3 DEF EnterRead
<1>4. CASE ReadFirst(t)
  BY <1>0, <1>4 DEF ReadFirst, ReadWord
<1>5. CASE ReadSecond(t)
  BY <1>0, <1>5 DEF ReadSecond, ReadWord
<1>6. CASE LeaveRead(t)
  BY <1>0, <1>6 DEF LeaveRead
<1>7. CASE CheckRead(t)
  BY <1>0, <1>7 DEF CheckRead, Forget
<1>8. CASE ReturnRead(t)
  BY <1>0, <1>8 DEF ReturnRead, Forget
<1>9. CASE CallWrite(t)
  BY <1>0, <1>9 DEF CallWrite
<1>10. CASE LoadWriteState(t)
  BY <1>0, <1>10 DEF LoadWriteState
<1>11. CASE Acquire(t)
  BY <1>0, <1>11 DEF Acquire, Forget
<1>12. CASE WaitForNoReader(t)
  BY <1>0, <1>12 DEF WaitForNoReader
<1>13. CASE Refuse(t)
  BY <1>0, <1>13 DEF Refuse
<1>14. CASE WriteFirst(t)
  BY <1>0, <1>14 DEF WriteFirst, WriteWord
<1>15. CASE WriteSecond(t)
  BY <1>0, <1>15 DEF WriteSecond, WriteWord
<1>16. CASE EndWrite(t)
  BY <1>0, <1>16 DEF EndWrite, Forget
<1>17. CASE RevertWrite(t)
  <2>1. state' = state - 1 /\ words' = words /\ state = ticket[t] /\ IsCorrupted(state)
        /\ pc' = [pc EXCEPT ![t] = "idle"] /\ pc[t] = "reverting"
    BY <1>17 DEF RevertWrite
  <2>2. Writers' = {}
    BY <1>17, <2>1 DEF RevertWrite, Forget
  <2>3. /\ \A u \in Thread : pc[u] \in TicketPC => ticket[u] <= state - 1
        /\ ~IsCorrupted(state - 1)
    BY <1>0, <2>1
  <2>4. \A u \in Thread : u # t => ticket'[u] = ticket[u] /\ seen'[u] = seen[u] /\ pc'[u] = pc[u]
    BY <1>17 DEF RevertWrite, Forget
  <2>5. WordsMatchState' /\ WriterOwnsState' /\ OddHasWriter'
    BY <2>1, <2>2, <2>3
  <2>6. TicketsPast' /\ ValidatedReadIsAtomic'
    BY <2>1, <2>3, <2>4
  <2>7. \A w \in Word : words[w] = state - 1
    BY <2>1
  <2>8. SeenIsTicket'
    BY <2>1, <2>4, <2>7
  <2>9. QED
    BY <2>5, <2>6, <2>8
<1>18. CASE GiveUp(t)
  BY <1>0, <1>18 DEF GiveUp
<1>19. CASE Crash(t)
  BY <1>0, <1>19 DEF Crash
<1>20. QED
  BY <1>1, <1>2, <1>3, <1>4, <1>5, <1>6, <1>7, <1>8, <1>9, <1>10, <1>11, <1>12, <1>13,
     <1>14, <1>15, <1>16, <1>17, <1>18, <1>19 DEF Progress, Environment

\* The count of the readers inside follows every entry and every exit.
LEMMA NextReaderCounterExact ==
    ASSUME TypeOK, ReaderCounterExact, NEW t \in Thread, Progress(t) \/ Environment(t)
    PROVE  ReaderCounterExact'
<1>1. CASE EnterRead(t)
  <2>1. Readers' = Readers \cup {t} /\ t \notin Readers /\ readerCounter' = readerCounter + 1
    BY <1>1 DEF EnterRead, Readers, InsideRead, Goto, TypeOK
  <2>2. QED
    BY <2>1, ThreadsFinite, FS_AddElement DEF ReaderCounterExact, Readers
<1>2. CASE LeaveRead(t)
  <2>1. Readers' = Readers \ {t} /\ t \in Readers /\ readerCounter' = readerCounter - 1
    BY <1>2 DEF LeaveRead, Readers, InsideRead, Goto, TypeOK
  <2>2. QED
    BY <2>1, ThreadsFinite, FS_RemoveElement DEF ReaderCounterExact, Readers
<1>3. CASE Crash(t)
  BY <1>3 DEF Crash, ReaderCounterExact, Readers
<1>4. CASE CallRead(t) \/ LoadReadState(t) \/ ReadFirst(t) \/ ReadSecond(t) \/ CheckRead(t) \/ ReturnRead(t)
  BY <1>4, CountKept DEF CallRead, LoadReadState, ReadFirst, ReadSecond, ReadWord, CheckRead,
     ReturnRead, InsideRead
<1>5. CASE CallWrite(t) \/ LoadWriteState(t) \/ Acquire(t) \/ WaitForNoReader(t) \/ Refuse(t)
  BY <1>5, CountKept DEF CallWrite, LoadWriteState, Acquire, WaitForNoReader, Refuse, InsideRead
<1>6. CASE WriteFirst(t) \/ WriteSecond(t) \/ EndWrite(t) \/ RevertWrite(t) \/ GiveUp(t)
  BY <1>6, CountKept DEF WriteFirst, WriteSecond, WriteWord, EndWrite, RevertWrite, GiveUp, InsideRead
<1>7. QED
  BY <1>1, <1>2, <1>3, <1>4, <1>5, <1>6 DEF Progress, Environment

\* Every step keeps the types; the two unsigned words do not underflow because
\* only a writer, whose state is odd, decrements the one, and only a counted
\* reader the other.
LEMMA NextTypeOK ==
    ASSUME TypeOK, DataInv, ReaderCounterExact', NEW t \in Thread, Progress(t) \/ Environment(t)
    PROVE  TypeOK'
<1> USE DEF TypeOK, Word, Goto, Forget, PC, ReaderPC, WriterPC
<1>1. readerCounter' \in Nat
  <2>1. Readers' \in SUBSET Thread
    BY DEF Readers
  <2>2. QED
    BY <2>1, ThreadsFinite DEF ReaderCounterExact
<1>2. CASE RevertWrite(t) /\ UNCHANGED alive
  <2>1. t \in Writers
    BY <1>2 DEF RevertWrite, Writers, InsideWrite
  <2>2. state - 1 \in Nat
    BY <2>1, ZeroStable DEF DataInv, WriterOwnsState
  <2>3. QED
    BY <1>1, <1>2, <2>2 DEF RevertWrite
<1>3. CASE EndWrite(t) /\ UNCHANGED alive
  BY <1>1, <1>3 DEF EndWrite
<1>4. CASE Acquire(t) /\ UNCHANGED alive
  BY <1>1, <1>4 DEF Acquire
<1>5. CASE (WriteFirst(t) \/ WriteSecond(t)) /\ UNCHANGED alive
  BY <1>1, <1>5 DEF WriteFirst, WriteSecond, WriteWord
<1>6. CASE (ReadFirst(t) \/ ReadSecond(t)) /\ UNCHANGED alive
  BY <1>1, <1>6 DEF ReadFirst, ReadSecond, ReadWord
<1>7. CASE (LoadReadState(t) \/ LoadWriteState(t)) /\ UNCHANGED alive
  BY <1>1, <1>7 DEF LoadReadState, LoadWriteState
<1>8. CASE (CallRead(t) \/ EnterRead(t) \/ LeaveRead(t) \/ CallWrite(t)) /\ UNCHANGED alive
  BY <1>1, <1>8 DEF CallRead, EnterRead, LeaveRead, CallWrite
<1>9. CASE (CheckRead(t) \/ ReturnRead(t)) /\ UNCHANGED alive
  BY <1>1, <1>9 DEF CheckRead, ReturnRead
<1>10. CASE (WaitForNoReader(t) \/ Refuse(t) \/ GiveUp(t)) /\ UNCHANGED alive
  BY <1>1, <1>10 DEF WaitForNoReader, Refuse, GiveUp
<1>11. CASE Crash(t)
  BY <1>1, <1>11 DEF Crash
<1>12. QED
  BY <1>2, <1>3, <1>4, <1>5, <1>6, <1>7, <1>8, <1>9, <1>10, <1>11 DEF Progress, Environment

\* The inductive step.
LEMMA NextIInv == IInv /\ [Next]_vars => IInv'
<1> SUFFICES ASSUME IInv, [Next]_vars PROVE IInv'
  OBVIOUS
<1>1. CASE UNCHANGED vars
  BY <1>1 DEF vars, IInv, TypeOK, ReaderCounterExact, Readers, WriterOwnsState, OddHasWriter, Writers,
     WordsMatchState, TicketsPast, SeenIsTicket, Fresh, ValidatedReadIsAtomic
<1>2. CASE Next
  <2>1. PICK t \in Thread : Progress(t) \/ Environment(t)
    BY <1>2 DEF Next
  <2>2. DataInv'
    BY <2>1, NextDataInv DEF IInv, DataInv
  <2>3. ReaderCounterExact'
    BY <2>1, NextReaderCounterExact DEF IInv
  <2>4. TypeOK'
    BY <2>1, <2>3, NextTypeOK DEF IInv, DataInv
  <2>5. QED
    BY <2>2, <2>3, <2>4 DEF IInv, DataInv
<1>3. QED
  BY <1>1, <1>2

-----------------------------------------------------------------------------

\* The inductive invariant holds in every reachable state.
THEOREM Invariance == Spec => []IInv
BY InitIInv, NextIInv, PTL DEF Spec

\* Types: neither unsigned word of NonBlockingStateMachine ever underflows.
THEOREM TypeCorrect == Spec => []TypeOK
<1>1. IInv => TypeOK
  BY DEF IInv
<1>2. QED
  BY <1>1, Invariance, PTL

\* BeginWrite excludes: one writer at a time, which owns the odd state, so
\* that its EndWrite or RevertWrite succeeds.
THEOREM WritersExclude == Spec => []WriterOwnsState
<1>1. IInv => WriterOwnsState
  BY DEF IInv
<1>2. QED
  BY <1>1, Invariance, PTL

\* EndReadAndCheckSuccess accepts only snapshots of a single committed write.
THEOREM ValidatedReads == Spec => []ValidatedReadIsAtomic
<1>1. IInv => ValidatedReadIsAtomic
  BY DEF IInv
<1>2. QED
  BY <1>1, Invariance, PTL

\* WaitForNoReader waits for exactly the readers that have entered.
THEOREM CounterCounts == Spec => []ReaderCounterExact
<1>1. IInv => ReaderCounterExact
  BY DEF IInv
<1>2. QED
  BY <1>1, Invariance, PTL

\* A reader inside together with a writer took its ticket before that writer
\* came in.
THEOREM LateReaders == Spec => []LateReaderHasOldTicket
<1>1. IInv => LateReaderHasOldTicket
  <2> SUFFICES ASSUME IInv, NEW t \in Writers, NEW u \in Readers PROVE ticket[u] < ticket[t]
    BY DEF LateReaderHasOldTicket
  <2>1. IsCorrupted(state) /\ state = ticket[t]
    BY DEF IInv, WriterOwnsState
  <2>2. u \in Thread /\ ~IsCorrupted(ticket[u]) /\ ticket[u] <= state
    BY DEF IInv, TicketsPast, TicketPC, Readers, InsideRead
  <2>3. ticket[u] # state
    BY <2>1, <2>2
  <2>4. state \in Int /\ ticket[u] \in Int
    BY <2>2 DEF IInv, TypeOK
  <2>5. QED
    BY <2>1, <2>2, <2>3, <2>4
<1>2. QED
  BY <1>1, Invariance, PTL

\* The stable state never recedes, although RevertWrite decrements the word:
\* the same ticket never names two contents.
THEOREM CommittedMonotone == Spec => CommittedNeverRecedes
<1>1. IInv /\ [Next]_vars => [KeepsCommitted]_vars
  <2> SUFFICES ASSUME IInv, Next PROVE LastStable(state') >= LastStable(state)
    BY DEF KeepsCommitted
  <2>1. state \in Int
    BY DEF IInv, TypeOK
  <2>2. PICK t \in Thread : Progress(t) \/ Environment(t)
    BY DEF Next
  <2>3. CASE UNCHANGED state
    BY <2>1, <2>3, LastStableValue
  <2>4. CASE Acquire(t) \/ EndWrite(t)
    BY <2>1, <2>4, LastStableValue, Parity DEF Acquire, EndWrite
  <2>5. CASE RevertWrite(t)
    <3>1. IsCorrupted(state)
      BY <2>5 DEF RevertWrite, IInv, WriterOwnsState, Writers, InsideWrite
    <3>2. QED
      BY <2>1, <2>5, <3>1, LastStableValue, Parity DEF RevertWrite
  <2>6. QED
    BY <2>2, <2>3, <2>4, <2>5 DEF Progress, Environment, CallRead, LoadReadState, EnterRead, ReadFirst,
       ReadSecond, ReadWord, LeaveRead, CheckRead, ReturnRead, CallWrite, LoadWriteState,
       WaitForNoReader, Refuse, WriteFirst, WriteSecond, WriteWord, GiveUp, Crash
<1>2. QED
  BY <1>1, Invariance, PTL DEF Spec, CommittedNeverRecedes
=============================================================================
