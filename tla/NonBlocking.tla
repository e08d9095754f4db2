---------------------------- MODULE NonBlocking ----------------------------
(***************************************************************************)
(* The versioned state machine of NonBlocking.c: a shared pair             *)
(* (state, readerCounter) that guards some data.  An even state is stable, *)
(* an odd one means that a writer is inside.  Readers are optimistic: they *)
(* take the stable state as a ticket, read, and compare it again at the    *)
(* end.  Writers exclude each other by compare-and-swap and either publish *)
(* the next stable state or give the old one back.                         *)
(*                                                                         *)
(* One action is one atomic access to shared memory.  The guarded data are *)
(* two machine words that a tryOnce callback reads or writes one after the *)
(* other; a committed write stores in both the stable state it publishes.  *)
(* Clocks are abstracted: a timed call may give up at any of the points    *)
(* where the code compares the time with its deadline.                     *)
(***************************************************************************)
EXTENDS Integers, FiniteSets

CONSTANTS
    Thread,     \* the threads (of one or several processes) that share the machine
    MaxState,   \* bound: BeginWrite waits for ever at a state >= MaxState
    CanCrash    \* whether a thread may be killed between two of its steps

ASSUME ThreadFinite == IsFiniteSet(Thread)
ASSUME MaxStateNat == MaxState \in Nat
ASSUME CanCrashBool == CanCrash \in BOOLEAN

VARIABLES
    state,          \* NonBlockingStateMachine.state
    readerCounter,  \* NonBlockingStateMachine.readerCounter
    words,          \* the guarded data
    alive,          \* the threads that have not been killed
    pc,             \* where each thread stands in its call
    ticket,         \* the local variable "state" of the call
    seen            \* what the reader's callback has copied

vars == <<state, readerCounter, words, alive, pc, ticket, seen>>

Word == {1, 2}

\* NON_BLOCKING_STATE_CORRUPTED_MASK & s: a writer is inside.
IsCorrupted(s) == s % 2 = 1

ReaderPC == {"beginRead", "entering", "reading1", "reading2", "leaving", "checking", "validated"}
WriterPC == {"beginWrite", "acquiring", "waiting", "writing1", "writing2", "ending", "reverting"}
PC == {"idle"} \cup ReaderPC \cup WriterPC

\* Between the increment and the decrement of readerCounter.
InsideRead == {"reading1", "reading2", "leaving"}
\* Between the compare-and-swap of BeginWrite and that of EndWrite / RevertWrite.
InsideWrite == {"waiting", "writing1", "writing2", "ending", "reverting"}

Readers == {t \in Thread : pc[t] \in InsideRead}
Writers == {t \in Thread : pc[t] \in InsideWrite}

Init ==
    /\ state = 0
    /\ readerCounter = 0
    /\ words = [w \in Word |-> 0]
    /\ alive = Thread
    /\ pc = [t \in Thread |-> "idle"]
    /\ ticket = [t \in Thread |-> 0]
    /\ seen = [t \in Thread |-> [w \in Word |-> 0]]

Goto(t, label) == pc' = [pc EXCEPT ![t] = label]

\* The locals of a call die when it returns or starts over.
Forget(t) ==
    /\ ticket' = [ticket EXCEPT ![t] = 0]
    /\ seen' = [seen EXCEPT ![t] = [w \in Word |-> 0]]

-----------------------------------------------------------------------------
(* Read sessions: Read and ReadTimed around a callback that only reads.    *)

CallRead(t) ==
    /\ pc[t] = "idle"
    /\ Goto(t, "beginRead")
    /\ UNCHANGED <<state, readerCounter, words, ticket, seen>>

\* Mutant of LoadReadState: the spin loop does not test the corrupted bit.
LoadReadStateUntested(t) ==
    /\ pc[t] = "beginRead"
    /\ ticket' = [ticket EXCEPT ![t] = state]
    /\ Goto(t, "entering")
    /\ UNCHANGED <<state, readerCounter, words, seen>>

\* BeginRead: the spin loop leaves with the stable state it has loaded.
LoadReadState(t) ==
    /\ pc[t] = "beginRead"
    /\ ~IsCorrupted(state)
    /\ ticket' = [ticket EXCEPT ![t] = state]
    /\ Goto(t, "entering")
    /\ UNCHANGED <<state, readerCounter, words, seen>>

\* BeginRead: the increment is a step of its own, after the load.
EnterRead(t) ==
    /\ pc[t] = "entering"
    /\ readerCounter' = readerCounter + 1
    /\ Goto(t, "reading1")
    /\ UNCHANGED <<state, words, ticket, seen>>

ReadWord(t, w, from, to) ==
    /\ pc[t] = from
    /\ seen' = [seen EXCEPT ![t][w] = words[w]]
    /\ Goto(t, to)
    /\ UNCHANGED <<state, readerCounter, words, ticket>>

ReadFirst(t) == ReadWord(t, 1, "reading1", "reading2")
ReadSecond(t) == ReadWord(t, 2, "reading2", "leaving")

\* Mutant of LeaveRead: only a session that succeeds is counted out.
LeaveReadIfUnmoved(t) ==
    /\ pc[t] = "leaving"
    /\ readerCounter' = readerCounter - (IF state = ticket[t] THEN 1 ELSE 0)
    /\ Goto(t, "checking")
    /\ UNCHANGED <<state, words, ticket, seen>>

\* EndReadAndCheckSuccess: leave, then (a second access) compare.
LeaveRead(t) ==
    /\ pc[t] = "leaving"
    /\ readerCounter' = readerCounter - 1
    /\ Goto(t, "checking")
    /\ UNCHANGED <<state, words, ticket, seen>>

\* Read starts over when the state has moved.
CheckRead(t) ==
    /\ pc[t] = "checking"
    /\ \/ state = ticket[t] /\ Goto(t, "validated") /\ UNCHANGED <<ticket, seen>>
       \/ state # ticket[t] /\ Goto(t, "beginRead") /\ Forget(t)
    /\ UNCHANGED <<state, readerCounter, words>>

ReturnRead(t) ==
    /\ pc[t] = "validated"
    /\ Goto(t, "idle")
    /\ Forget(t)
    /\ UNCHANGED <<state, readerCounter, words>>

-----------------------------------------------------------------------------
(* Write sessions: Write and WriteTimed around a callback that writes both *)
(* words or refuses before it has written any.  The one callback that runs *)
(* in WriteTimedAlwaysRevert, _Set_ModifyIndex, redirects a single slot and*)
(* wants readers not to notice; module SortedTable has it (EndModify).     *)

CallWrite(t) ==
    /\ pc[t] = "idle"
    /\ Goto(t, "beginWrite")
    /\ UNCHANGED <<state, readerCounter, words, ticket, seen>>

LoadWriteState(t) ==
    /\ pc[t] = "beginWrite"
    /\ ~IsCorrupted(state)
    /\ state < MaxState
    /\ ticket' = [ticket EXCEPT ![t] = state]
    /\ Goto(t, "acquiring")
    /\ UNCHANGED <<state, readerCounter, words, seen>>

\* Mutant of Acquire: a plain store instead of the compare-and-swap.
AcquireByStore(t) ==
    /\ pc[t] = "acquiring"
    /\ state' = ticket[t] + 1
    /\ ticket' = [ticket EXCEPT ![t] = ticket[t] + 1]
    /\ \E label \in {"writing1", "waiting"} : Goto(t, label)
    /\ UNCHANGED <<readerCounter, words, seen>>

\* The compare-and-swap of BeginWrite; the callback then either writes at
\* once or first waits for the readers that are still inside.
Acquire(t) ==
    /\ pc[t] = "acquiring"
    /\ \/ /\ state = ticket[t]
          /\ state' = state + 1
          /\ ticket' = [ticket EXCEPT ![t] = state + 1]
          /\ \E label \in {"writing1", "waiting"} : Goto(t, label)
          /\ UNCHANGED seen
       \/ /\ state # ticket[t]
          /\ Goto(t, "beginWrite")
          /\ Forget(t)
          /\ UNCHANGED state
    /\ UNCHANGED <<readerCounter, words>>

\* WaitForNoReader, called by the callback of the table's exclusive writers.
WaitForNoReader(t) ==
    /\ pc[t] = "waiting"
    /\ readerCounter = 0
    /\ Goto(t, "writing1")
    /\ UNCHANGED <<state, readerCounter, words, ticket, seen>>

\* Mutant of Refuse: returns without giving the state back.
RefuseAndReturn(t) ==
    /\ pc[t] = "writing1"
    /\ Goto(t, "idle")
    /\ Forget(t)
    /\ UNCHANGED <<state, readerCounter, words>>

\* tryOnce returns false before it has written anything.
Refuse(t) ==
    /\ pc[t] = "writing1"
    /\ Goto(t, "reverting")
    /\ UNCHANGED <<state, readerCounter, words, ticket, seen>>

WriteWord(t, w, from, to) ==
    /\ pc[t] = from
    /\ words' = [words EXCEPT ![w] = ticket[t] + 1]
    /\ Goto(t, to)
    /\ UNCHANGED <<state, readerCounter, ticket, seen>>

WriteFirst(t) == WriteWord(t, 1, "writing1", "writing2")
WriteSecond(t) == WriteWord(t, 2, "writing2", "ending")

\* Mutant of EndWrite: the succeeded delegate is RevertWriteAndCheckSuccess.
EndWriteByRevert(t) ==
    /\ pc[t] = "ending"
    /\ state' = state - 1
    /\ Goto(t, "idle")
    /\ Forget(t)
    /\ UNCHANGED <<readerCounter, words>>

\* EndWriteAndCheckSuccess; _Write starts over when the swap fails.
EndWrite(t) ==
    /\ pc[t] = "ending"
    /\ IF state = ticket[t]
       THEN state' = state + 1 /\ Goto(t, "idle")
       ELSE state' = state /\ Goto(t, "beginWrite")
    /\ Forget(t)
    /\ UNCHANGED <<readerCounter, words>>

\* Mutant of RevertWrite: NON_BLOCKING_STATE_LAST_STABLE_X2 instead of
\* NON_BLOCKING_STATE_LAST_STABLE.
RevertWriteTwice(t) ==
    /\ pc[t] = "reverting"
    /\ state' = state - 3
    /\ Goto(t, "idle")
    /\ Forget(t)
    /\ UNCHANGED <<readerCounter, words>>

\* RevertWriteAndCheckSuccess: the old stable state comes back.
RevertWrite(t) ==
    /\ pc[t] = "reverting"
    /\ IF state = ticket[t]
       THEN state' = state - 1 /\ Goto(t, "idle")
       ELSE state' = state /\ Goto(t, "beginWrite")
    /\ Forget(t)
    /\ UNCHANGED <<readerCounter, words>>

-----------------------------------------------------------------------------
(* Deadlines: BeginReadTimed and BeginWriteTimed return false, ReadTimed   *)
(* and _WriteTimed leave their loop, WaitForNoReaderTimed makes the        *)
(* callback fail.                                                          *)

GiveUp(t) ==
    /\ \/ pc[t] \in {"beginRead", "beginWrite"} /\ Goto(t, "idle")
       \/ pc[t] = "waiting" /\ Goto(t, "reverting")
    /\ UNCHANGED <<state, readerCounter, words, ticket, seen>>

\* A process that maps the file is killed: its threads stop where they are
\* and what they did to the shared memory stays.
Crash(t) ==
    /\ CanCrash
    /\ alive' = alive \ {t}
    /\ UNCHANGED <<state, readerCounter, words, pc, ticket, seen>>

\* The steps that a running thread takes without waiting for a deadline.
Progress(t) ==
    /\ t \in alive
    /\ UNCHANGED alive
    /\ \/ LoadReadState(t) \/ EnterRead(t) \/ ReadFirst(t) \/ ReadSecond(t)
       \/ LeaveRead(t) \/ CheckRead(t) \/ ReturnRead(t)
       \/ LoadWriteState(t) \/ Acquire(t) \/ WaitForNoReader(t) \/ Refuse(t)
       \/ WriteFirst(t) \/ WriteSecond(t) \/ EndWrite(t) \/ RevertWrite(t)

Environment(t) ==
    /\ t \in alive
    /\ \/ UNCHANGED alive /\ (CallRead(t) \/ CallWrite(t) \/ GiveUp(t))
       \/ Crash(t)

Next == \E t \in Thread : Progress(t) \/ Environment(t)

Spec == Init /\ [][Next]_vars

\* The scheduler eventually runs every thread that can take a step; it never
\* has to start a call or to let a deadline pass.
FairSpec == Spec /\ \A t \in Thread : WF_vars(Progress(t))

-----------------------------------------------------------------------------
(* Properties.                                                             *)

\* Every variable has its type: the two unsigned words never go below zero.
TypeOK ==
    /\ state \in Nat
    /\ readerCounter \in Nat
    /\ words \in [Word -> Nat]
    /\ alive \subseteq Thread
    /\ pc \in [Thread -> PC]
    /\ ticket \in [Thread -> Nat]
    /\ seen \in [Thread -> [Word -> Nat]]

\* A thread inside a write session owns the machine: the state is odd and is
\* its ticket, so no second writer is inside and the closing compare-and-swap
\* of EndWrite or RevertWrite cannot fail (the retry loop of _Write, whose
\* body has already modified the data, never runs twice).
WriterOwnsState ==
    \A t \in Writers :
        /\ IsCorrupted(state)
        /\ state = ticket[t]
        /\ \A u \in Writers : u = t

\* A read session that EndReadAndCheckSuccess accepts has seen all of one
\* committed write and nothing of another: the one its ticket names.
ValidatedReadIsAtomic ==
    \A t \in Thread : pc[t] = "validated" => \A w \in Word : seen[t][w] = ticket[t]

\* readerCounter is the number of threads inside a read session, killed ones
\* included: an exclusive writer neither overtakes a reader that has entered
\* nor waits for one that has left, and a killed reader blocks it for good.
ReaderCounterExact == readerCounter = Cardinality(Readers)

\* NON_BLOCKING_STATE_LAST_STABLE, kept as it is for a stable state.
LastStable(s) == s - (s % 2)

\* The stable state that readers compare never returns to an earlier one,
\* although RevertWrite decrements the word: a ticket stays unique.
KeepsCommitted == LastStable(state') >= LastStable(state)
CommittedNeverRecedes == [][KeepsCommitted]_vars

\* A reader that has entered while an exclusive writer writes took its ticket
\* before that writer's compare-and-swap (BeginRead loads and increments in
\* two steps), so it holds the very state the writer started from or an older
\* one; only the comparison at the end can protect it.
LateReaderHasOldTicket ==
    \A t \in Writers, u \in Readers : ticket[u] < ticket[t]

\* WaitForNoReader ends: once the state is odd no new reader enters, so the
\* counter drains whatever the readers do, unless one has been killed.
ExclusiveWaitEnds == \A t \in Thread : pc[t] = "waiting" ~> pc[t] # "waiting"

\* The machine is never left odd: every writer publishes or gives back.
WriterLeaves == IsCorrupted(state) ~> ~IsCorrupted(state)
=============================================================================
