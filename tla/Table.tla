------------------------------- MODULE Table -------------------------------
(***************************************************************************)
(* Table.c: the table an application uses. Two data files hold two tables, *)
(* one of which is active; a third file, which all processes map, holds    *)
(* the selector of the active one, a spin lock and a state machine.        *)
(*                                                                         *)
(* Every operation on keys is a read session of that machine around one    *)
(* call of the active SortedTable. A Set that finds no memory takes the    *)
(* spin lock and, as a writer of the machine, compacts the table into the  *)
(* other file or doubles its file. Processes notice that a file has grown  *)
(* when they find its header larger than their own mapping.                *)
(*                                                                         *)
(* A thread's frame holds the locals of its call: pc names the statement   *)
(* it is about to execute, stage counts the uses of the table within Set   *)
(* (1 the first attempt, 2 the one under the spin lock, 3 the maintenance, *)
(* 4 the last attempt), tab and age are the table pointer: the file and    *)
(* the age of the mapping it points into.                                  *)
(*                                                                         *)
(* A thread that uses a pointer whose memory was unmapped is killed with   *)
(* its process, or goes on if the new mapping got the same address. So is  *)
(* one whose growth of a table writes behind the mapping, or it goes on;   *)
(* what it has then overwritten outside the table is not modelled.         *)
(***************************************************************************)
EXTENDS TableFiles

CONSTANTS
    Process,        \* processes that map the files
    Thread,         \* their threads
    ProcessOf,      \* the process of each thread
    NoThread,       \* a spin lock that nobody holds
    DeadThread,     \* a holder of the spin lock that was killed
    InitialSize,    \* DATA_TABLE_INITIAL_SIZE in records
    MaxOpens,       \* bound: calls of Initialize
    MaxCalls,       \* bound: calls of Set, Delete and the readers
    MaxKills,       \* bound: processes killed from outside
    MaxFailures,    \* bound: steps in which a call of the system fails
    MaxTimeouts,    \* bound: calls of a SortedTable that fail without being starved
    LeftTables      \* sizes and keys of tables that earlier processes may have left

ASSUME ProcessOfAssumption == ProcessOf \in [Thread -> Process]
ASSUME ThreadAssumption ==
    IsFiniteSet(Thread) /\ NoThread \notin Thread /\ DeadThread \notin Thread \cup {NoThread}
ASSUME InitialSizeAssumption == InitialSize \in Nat \ {0}
ASSUME LeftTablesAssumption ==
    \A x \in LeftTables : /\ x \in [size : Nat, live : SUBSET Key]
                          /\ InitialSize <= x.size /\ Cardinality(x.live) <= x.size

VARIABLES
    disk,           \* the two data files
    map,            \* dataFile of each process
    status,         \* whether a process has a Table: closed, opening, open
    selector,       \* activeTableSelector of the shared context
    spinLock,       \* spinLock of the shared context
    sync,           \* stateMachine of the shared context: state and readers
    frame,          \* the locals of each thread's call
    count,          \* how often each bounded event has happened
    expected,       \* history: the keys that the calls which have ended left in
                    \* the table, whatever they answered
    late,           \* history: a reader entered after an exclusive writer had
                    \* finished waiting for readers
    crossed,        \* history: the active table has grown to wider slots
    grower          \* history: the process that last changed each table's size

files == <<disk, map, grower>>
vars == <<files, status, selector, spinLock, sync, frame, count, expected, late, crossed>>

Files == {0, 1}
NoProcess == "none"
ASSUME ProcessAssumption == NoProcess \notin Process
AnyKey == CHOOSE k \in Key : TRUE

NoCall == [pc |-> "idle", stage |-> 1, op |-> "Read", key |-> AnyKey,
           err |-> "NO", tab |-> 0, age |-> 0, seen |-> 0]

P(t) == ProcessOf[t]
Head(f) == disk[f].head
Disk(a, b) == [f \in Files |-> IF f = 0 THEN a ELSE b]
IsEven(n) == n % 2 = 0
At(t, l) == frame[t].pc = l

TypeOK ==
    /\ disk \in [Files -> [len : Nat, head : [signature : BOOLEAN, size : Nat,
                    live : SUBSET Key, used : Nat, wasted : Nat, readOnly : BOOLEAN,
                    readers : Int, stuck : BOOLEAN]]]
    /\ map \in [Process -> [Files -> [size : Nat, open : BOOLEAN, age : Nat]]]
    /\ status \in [Process -> {"closed", "opening", "open"}]
    /\ selector \in Files
    /\ spinLock \in Thread \cup {NoThread, DeadThread}
    /\ sync \in [state : Nat, readers : Nat]
    /\ DOMAIN frame = Thread
    /\ \A t \in Thread : /\ frame[t].stage \in 1 .. 4
                         /\ frame[t].tab \in Files
                         /\ frame[t].op \in {"Set", "Delete", "Read"}
    /\ expected \subseteq Key
    /\ \A f \in Files : Head(f).stuck => spinLock = DeadThread

\* A table whose memory is used up, by live records and by wasted ones.
FullTable(size, live) ==
    [len |-> size,
     head |-> [Blank EXCEPT !.signature = TRUE, !.size = size, !.live = live, !.used = size,
                            !.wasted = size - Cardinality(live)]]

EmptyTable ==
    [len |-> InitialSize,
     head |-> [Blank EXCEPT !.signature = TRUE, !.size = InitialSize]]

\* The files are new, or a table that is full, of live records or of wasted
\* ones, was left in the first one.
Init ==
    /\ \/ disk = Disk(NoFile, NoFile)
       \/ \E x \in LeftTables : disk = Disk(FullTable(x.size, x.live), EmptyTable)
    /\ map = [p \in Process |-> [f \in Files |-> Unmapped]]
    /\ status = [p \in Process |-> "closed"]
    /\ selector = 0 /\ spinLock = NoThread
    /\ sync = [state |-> 0, readers |-> 0]
    /\ frame = [t \in Thread |-> NoCall]
    /\ count = [opens |-> 0, calls |-> 0, kills |-> 0, faults |-> 0, failures |-> 0,
                timeouts |-> 0]
    /\ expected = Head(0).live
    /\ late = FALSE /\ crossed = FALSE
    /\ grower = [f \in Files |-> NoProcess]

Goto(t, l) == frame' = [frame EXCEPT ![t].pc = l]
Counted(event) == count' = [count EXCEPT ![event] = @ + 1]

\* What a step makes of one file and of a process's mapping of it.
Refile(p, f, o) ==
    /\ o.io => count.failures < MaxFailures
    /\ count' = [count EXCEPT !.failures = IF o.io THEN @ + 1 ELSE @]
    /\ crossed' = (crossed \/ (f = selector /\ Widens(Head(f), o.file.head.size)))
    /\ disk' = [disk EXCEPT ![f] = o.file]
    /\ map' = [map EXCEPT ![p][f] = o.map]
    /\ grower' = IF o.file.head.size # Head(f).size THEN [grower EXCEPT ![f] = p] ELSE grower

-----------------------------------------------------------------------------
(* Initialize and Close *)

\* Mutant of OpenSync: the files are initialized without the spin lock.
OpenSyncUnlocked(t) ==
    /\ status[P(t)] = "closed" /\ At(t, "idle") /\ count.opens < MaxOpens
    /\ Counted("opens")
    /\ status' = [status EXCEPT ![P(t)] = "opening"]
    /\ frame' = [frame EXCEPT ![t].pc = "openSize", ![t].tab = 0]
    /\ UNCHANGED <<files, selector, spinLock, sync, expected, late, crossed>>

\* The sync file is mapped and its context set, once, with version zero and
\* without force: a context that is there already is left as it is. Then the
\* spin lock is taken.
OpenSync(t) ==
    /\ status[P(t)] = "closed" /\ At(t, "idle") /\ count.opens < MaxOpens
    /\ spinLock = NoThread
    /\ Counted("opens")
    /\ spinLock' = t
    /\ status' = [status EXCEPT ![P(t)] = "opening"]
    /\ frame' = [frame EXCEPT ![t].pc = "openSize", ![t].tab = 0]
    /\ UNCHANGED <<files, selector, sync, expected, late, crossed>>

\* TableFile.Initialize with size zero takes the size from the file itself.
OpenSize(t) ==
    /\ At(t, "openSize")
    /\ frame' = [frame EXCEPT ![t].pc = "openMap", ![t].seen = disk[frame[t].tab].len]
    /\ UNCHANGED <<files, status, selector, spinLock, sync, count, expected, late, crossed>>

\* When the first attempt has left the size zero, for whatever reason, the file
\* is given the initial size; the error of the first attempt is not looked at.
OpenOutcomes(m, file, size) ==
    LET first == MapTable(m, file, size)
    IN  {[o EXCEPT !.ok = TRUE] : o \in {x \in first : x.map.size # 0}}
        \cup UNION { {[o EXCEPT !.io = o.io \/ x.io] : o \in MapTable(x.map, x.file, InitialSize)}
                     : x \in {x \in first : x.map.size = 0} }

OpenMap(t) ==
    LET f == frame[t].tab IN
    /\ At(t, "openMap")
    /\ \E o \in OpenOutcomes(map[P(t)][f], disk[f], frame[t].seen) :
         /\ Refile(P(t), f, o)
         /\ frame' = [frame EXCEPT ![t] =
              [@ EXCEPT !.pc = IF o.ok /\ f = 0 THEN "openSize" ELSE "openUnlock",
                        !.tab = 1,
                        !.err = IF o.ok THEN "NO" ELSE "ACCESS_DENIED"]]
    /\ UNCHANGED <<status, selector, spinLock, sync, expected, late>>

OpenUnlock(t) ==
    /\ At(t, "openUnlock")
    /\ spinLock' = NoThread
    /\ status' = [status EXCEPT ![P(t)] = IF frame[t].err = "NO" THEN "open" ELSE "closed"]
    /\ frame' = [frame EXCEPT ![t] = NoCall]
    /\ UNCHANGED <<files, selector, sync, count, expected, late, crossed>>

\* Close by a process that has no call under way. TableFile keeps its size.
Close(p) ==
    /\ status[p] = "open"
    /\ \A t \in Thread : P(t) = p => At(t, "idle")
    /\ status' = [status EXCEPT ![p] = "closed"]
    /\ map' = [map EXCEPT ![p] = [f \in Files |-> [@[f] EXCEPT !.open = FALSE, !.age = 0]]]
    /\ UNCHANGED <<disk, grower, selector, spinLock, sync, frame, count, expected, late, crossed>>

-----------------------------------------------------------------------------
(* The session that every operation on keys runs in *)

Begin(t, o, k) ==
    /\ status[P(t)] = "open" /\ At(t, "idle") /\ count.calls < MaxCalls
    /\ Counted("calls")
    /\ frame' = [frame EXCEPT ![t] = [NoCall EXCEPT !.pc = "load", !.op = o, !.key = k]]
    /\ UNCHANGED <<files, status, selector, spinLock, sync, expected, late, crossed>>

CallSet(t) == \E k \in Key : Begin(t, "Set", k)
CallDelete(t) == \E k \in Key : Begin(t, "Delete", k)
\* Get, Find, FindAll and FindPath.
CallRead(t) == Begin(t, "Read", AnyKey)

\* NonBlocking.BeginRead, first half: wait for an even state.
LoadState(t) ==
    /\ At(t, "load") /\ IsEven(sync.state)
    /\ Goto(t, "enter")
    /\ UNCHANGED <<files, status, selector, spinLock, sync, count, expected, late, crossed>>

\* The thread that maintains the tables, alone with them as it believes.
Maintains(t) == frame[t].stage = 3 /\ ~At(t, "wait")

\* Mutant of EnterSync: the later attempts of a Set are not counted.
EnterSyncOnce(t) ==
    /\ At(t, "enter")
    /\ sync' = [sync EXCEPT !.readers = IF frame[t].stage = 1 THEN @ + 1 ELSE @]
    /\ late' = (late \/ \E u \in Thread : Maintains(u))
    /\ Goto(t, "active")
    /\ UNCHANGED <<files, status, selector, spinLock, count, expected, crossed>>

\* NonBlocking.BeginRead, second half: increment the counter of readers. The
\* state may have changed since the first half.
EnterSync(t) ==
    /\ At(t, "enter")
    /\ sync' = [sync EXCEPT !.readers = @ + 1]
    /\ late' = (late \/ \E u \in Thread : Maintains(u))
    /\ Goto(t, "active")
    /\ UNCHANGED <<files, status, selector, spinLock, count, expected, crossed>>

\* What a table pointer may be used for: nothing once the mapping was closed
\* and not opened again. One that was opened again may lie at another address.
Usable(t) == map[P(t)][frame[t].tab].open
IsStale(t) == frame[t].age # map[P(t)][frame[t].tab].age

AfterActive(t) == IF frame[t].stage = 3 THEN "plan" ELSE "test"

Outgrown(p, f) == Head(f).size > map[p][f].size

\* ActiveTable: the selector, the table pointer of its file and the first test.
ActiveTable(t) ==
    LET m == map[P(t)][selector] IN
    /\ At(t, "active")
    /\ frame' = [frame EXCEPT ![t] =
         [@ EXCEPT !.tab = selector, !.age = m.age,
                   !.pc = IF ~m.open THEN "lost"
                          ELSE IF Outgrown(P(t), selector) THEN "relock" ELSE AfterActive(t)]]
    /\ UNCHANGED <<files, status, selector, spinLock, sync, count, expected, late, crossed>>

\* The spin lock is not recursive: a thread that holds it waits for itself.
Relock(t) ==
    /\ At(t, "relock") /\ spinLock = NoThread
    /\ spinLock' = t
    /\ Goto(t, "recheck")
    /\ UNCHANGED <<files, status, selector, sync, count, expected, late, crossed>>

\* Under the lock the test is made once more, with the table pointer of before.
Recheck(t) ==
    LET f == frame[t].tab
        p == P(t)
    IN  /\ At(t, "recheck") /\ Usable(t)
        /\ \E o \in IF Outgrown(p, f) THEN ExtendSizeTo(map[p][f], disk[f], Head(f).size)
                    ELSE {[ok |-> TRUE, io |-> FALSE, file |-> disk[f], map |-> map[p][f]]} :
             /\ Refile(p, f, o)
             /\ frame' = [frame EXCEPT ![t].pc = AfterActive(t), ![t].age = o.map.age]
        /\ spinLock' = NoThread
        /\ UNCHANGED <<status, selector, sync, expected, late>>

-----------------------------------------------------------------------------
(* One call of the SortedTable *)

\* Set and Delete test readOnly before they begin their read session.
TestReadOnly(t) ==
    /\ At(t, "test") /\ Usable(t)
    /\ frame' = [frame EXCEPT ![t] =
         IF @.op # "Read" /\ Head(@.tab).readOnly
         THEN [@ EXCEPT !.err = "ACCESS_DENIED", !.pc = "leave"]
         ELSE [@ EXCEPT !.err = "NO", !.pc = "begin"]]
    /\ UNCHANGED <<files, status, selector, spinLock, sync, count, expected, late, crossed>>

WithHead(f, head) == disk' = [disk EXCEPT ![f].head = head]

\* It waits for an even state of the table.
EnterTable(t) ==
    LET f == frame[t].tab IN
    /\ At(t, "begin") /\ Usable(t) /\ ~Head(f).stuck
    /\ WithHead(f, [Head(f) EXCEPT !.readers = @ + 1])
    /\ Goto(t, "operate")
    /\ UNCHANGED <<map, grower, status, selector, spinLock, sync, count, expected, late, crossed>>

\* A record for the key behind the others, and the slot that leads to it; the
\* record it replaces is wasted.
Appended(head, k) ==
    [head EXCEPT !.live = @ \cup {k}, !.used = @ + 1,
                 !.wasted = @ + Cardinality(head.live \cap {k})]

\* Set: a value that fits replaces the old one in place; otherwise a new record is
\* appended. The append that takes the last memory reports that there is none, with
\* its record unused, and so does the insertion that takes it, with its slot in the
\* index. TIMEOUT stands for every other error: it may come before anything is done,
\* after the record is appended or after the slot leads to it.
SetOutcomes(head, k) ==
    LET set == Appended(head, k)
        unused == [head EXCEPT !.used = @ + 1, !.wasted = @ + 1]
    IN  {[err |-> "TIMEOUT", head |-> head]}
        \cup (IF k \in head.live THEN {[err |-> "NO", head |-> head]} ELSE {})
        \cup (IF head.used < head.size
              THEN {[err |-> "NO", head |-> set], [err |-> "TIMEOUT", head |-> set],
                    [err |-> "TIMEOUT", head |-> unused]}
              ELSE {[err |-> "NOT_ENOUGH_MEMORY", head |-> head]})
        \cup (IF head.used + 1 = head.size
              THEN {[err |-> "NOT_ENOUGH_MEMORY", head |-> unused]}
                   \cup (IF k \notin head.live
                         THEN {[err |-> "NOT_ENOUGH_MEMORY", head |-> set]} ELSE {})
              ELSE {})

\* Delete: the slot goes first; the record is then marked and counted as wasted.
\* TIMEOUT may come before, between and after.
DeleteOutcomes(head, k) ==
    LET removed == [head EXCEPT !.live = @ \ {k}]
        deleted == [removed EXCEPT !.wasted = @ + 1]
    IN  {[err |-> "TIMEOUT", head |-> head]}
        \cup (IF k \in head.live
              THEN {[err |-> "NO", head |-> deleted], [err |-> "TIMEOUT", head |-> deleted],
                    [err |-> "TIMEOUT", head |-> removed]}
              ELSE {[err |-> "NOT_FOUND", head |-> head]})

Outcomes(op, head, k) ==
    CASE op = "Set" -> SetOutcomes(head, k)
      [] op = "Delete" -> DeleteOutcomes(head, k)
      [] op = "Read" -> {[err |-> "NO", head |-> head]}

\* What is expected of the table after a call: what it acknowledged, and what a
\* call that failed has done all the same.
Expected(op, k, o, old) ==
    CASE o.err = "NO" /\ op = "Set" -> expected \cup {k}
      [] o.err = "NO" /\ op = "Delete" -> expected \ {k}
      [] OTHER -> (expected \cup (o.head.live \ old.live)) \ (old.live \ o.head.live)

\* The call, up to the end of its read session on the table.
Operate(t) ==
    LET c == frame[t] IN
    /\ At(t, "operate") /\ Usable(t)
    /\ \E o \in Outcomes(c.op, Head(c.tab), c.key) :
         /\ o.err = "TIMEOUT" => count.timeouts < MaxTimeouts
         /\ count' = [count EXCEPT !.timeouts = IF o.err = "TIMEOUT" THEN @ + 1 ELSE @]
         /\ WithHead(c.tab, [o.head EXCEPT !.readers = @ - 1])
         /\ frame' = [frame EXCEPT ![t].err = o.err, ![t].pc = "leave"]
         /\ expected' = Expected(c.op, c.key, o, Head(c.tab))
    /\ UNCHANGED <<map, grower, status, selector, spinLock, sync, late, crossed>>

\* Mutant of LeaveSync: a second attempt that succeeds returns with the lock.
LeaveSyncLocked(t) ==
    LET c == frame[t]
        starved == c.op = "Set" /\ c.err = "NOT_ENOUGH_MEMORY"
        next == CASE c.stage = 1 /\ starved -> "lock"
                  [] c.stage = 2 /\ starved -> "beginWrite"
                  [] c.stage < 3 /\ ~starved -> "idle"
                  [] OTHER -> "release"
    IN  /\ At(t, "leave")
        /\ sync' = [sync EXCEPT !.readers = @ - 1]
        /\ frame' = [frame EXCEPT ![t] =
             IF next = "idle" THEN NoCall
             ELSE [NoCall EXCEPT !.pc = next, !.stage = c.stage, !.op = c.op, !.key = c.key]]
        /\ UNCHANGED <<files, status, selector, spinLock, count, expected, late, crossed>>

\* EndReadAndCheckSuccess, whose answer is ignored, and what follows it.
LeaveSync(t) ==
    LET c == frame[t]
        starved == c.op = "Set" /\ c.err = "NOT_ENOUGH_MEMORY"
        next == CASE c.stage = 1 /\ starved -> "lock"
                  [] c.stage = 2 /\ starved -> "beginWrite"
                  [] c.stage = 1 /\ ~starved -> "idle"
                  [] OTHER -> "release"
    IN  /\ At(t, "leave")
        /\ sync' = [sync EXCEPT !.readers = @ - 1]
        /\ frame' = [frame EXCEPT ![t] =
             IF next = "idle" THEN NoCall
             ELSE [NoCall EXCEPT !.pc = next, !.stage = c.stage, !.op = c.op, !.key = c.key]]
        /\ UNCHANGED <<files, status, selector, spinLock, count, expected, late, crossed>>

-----------------------------------------------------------------------------
(* The maintenance that a Set without memory does *)

LockForSet(t) ==
    /\ At(t, "lock") /\ spinLock = NoThread
    /\ spinLock' = t
    /\ frame' = [frame EXCEPT ![t].pc = "load", ![t].stage = 2]
    /\ UNCHANGED <<files, status, selector, sync, count, expected, late, crossed>>

BeginWrite(t) ==
    /\ At(t, "beginWrite") /\ IsEven(sync.state)
    /\ sync' = [sync EXCEPT !.state = @ + 1]
    /\ frame' = [frame EXCEPT ![t].pc = "wait", ![t].stage = 3]
    /\ UNCHANGED <<files, status, selector, spinLock, count, expected, late, crossed>>

\* Mutant of WaitForNoReader: the maintenance begins at once.
WaitForNobody(t) ==
    /\ At(t, "wait")
    /\ Goto(t, "active")
    /\ UNCHANGED <<files, status, selector, spinLock, sync, count, expected, late, crossed>>

\* The writer of the machine waits until no reader is counted.
WaitForNoReader(t) ==
    /\ At(t, "wait") /\ sync.readers = 0
    /\ Goto(t, "active")
    /\ UNCHANGED <<files, status, selector, spinLock, sync, count, expected, late, crossed>>

\* Half of the table wasted: compaction; otherwise growth.
Plan(t) ==
    LET head == Head(frame[t].tab) IN
    /\ At(t, "plan") /\ Usable(t)
    /\ Goto(t, IF head.size \div 2 <= head.wasted THEN "extend" ELSE "grow")
    /\ UNCHANGED <<files, status, selector, spinLock, sync, count, expected, late, crossed>>

Extending(t, f, size) == \E o \in ExtendSizeTo(map[P(t)][f], disk[f], size) : Refile(P(t), f, o)

\* The error of ExtendSizeTo is ignored here and in Extend.
Grow(t) ==
    /\ At(t, "grow") /\ Usable(t)
    /\ Extending(t, frame[t].tab, 2 * Head(frame[t].tab).size)
    /\ Goto(t, "endWrite")
    /\ UNCHANGED <<status, selector, spinLock, sync, expected, late>>

Other(t) == 1 - frame[t].tab

Extend(t) ==
    /\ At(t, "extend") /\ Usable(t)
    /\ Extending(t, Other(t), Head(frame[t].tab).size)
    /\ Goto(t, "construct")
    /\ UNCHANGED <<status, selector, spinLock, sync, expected, late>>

ConstructInactive(t) ==
    LET m == map[P(t)][Other(t)]
        c == Construct(Head(Other(t)), m.size, TRUE)
    IN  /\ At(t, "construct") /\ m.open
        /\ WithHead(Other(t), c.head)
        /\ grower' = IF c.head.size # Head(Other(t)).size
                     THEN [grower EXCEPT ![Other(t)] = P(t)] ELSE grower
        /\ Goto(t, "setReadOnly")
        /\ UNCHANGED <<map, status, selector, spinLock, sync, count, expected, late, crossed>>

\* CopyTo, first half: without readers the source becomes read-only; when they
\* stay the copy is given up and its error ignored.
SetReadOnly(t) ==
    LET f == frame[t].tab IN
    /\ At(t, "setReadOnly") /\ Usable(t)
    /\ IF Head(f).readers = 0
       THEN WithHead(f, [Head(f) EXCEPT !.readOnly = TRUE]) /\ Goto(t, "copy")
       ELSE UNCHANGED disk /\ Goto(t, "flip")
    /\ UNCHANGED <<map, grower, status, selector, spinLock, sync, count, expected, late, crossed>>

CopyToInactive(t) ==
    /\ At(t, "copy") /\ Usable(t) /\ map[P(t)][Other(t)].open
    /\ WithHead(Other(t), CopyTo(Head(frame[t].tab), Head(Other(t))))
    /\ Goto(t, "flip")
    /\ UNCHANGED <<map, grower, status, selector, spinLock, sync, count, expected, late, crossed>>

FlipSelector(t) ==
    /\ At(t, "flip")
    /\ selector' = 1 - selector
    /\ Goto(t, "endWrite")
    /\ UNCHANGED <<files, status, spinLock, sync, count, expected, late, crossed>>

EndWrite(t) ==
    /\ At(t, "endWrite")
    /\ sync' = [sync EXCEPT !.state = @ + 1]
    /\ frame' = [frame EXCEPT ![t].pc = "load", ![t].stage = 4, ![t].tab = 0, ![t].age = 0]
    /\ UNCHANGED <<files, status, selector, spinLock, count, expected, late, crossed>>

Release(t) ==
    /\ At(t, "release")
    /\ spinLock' = NoThread
    /\ frame' = [frame EXCEPT ![t] = NoCall]
    /\ UNCHANGED <<files, status, selector, sync, count, expected, late, crossed>>

-----------------------------------------------------------------------------
(* Processes that end in the middle of a call *)

\* The statements that follow the table pointer, and those that follow the one
\* of the inactive file.
FollowsActive == {"recheck", "test", "begin", "operate", "plan", "grow",
                  "extend", "setReadOnly", "copy"}
FollowsInactive == {"construct", "copy"}

\* A pointer whose memory is gone.
Dangling(t) ==
    \/ At(t, "lost")
    \/ frame[t].pc \in FollowsActive /\ (~Usable(t) \/ IsStale(t))
    \/ frame[t].pc \in FollowsInactive /\ ~map[P(t)][Other(t)].open

\* What a process leaves behind: its part of every counter, and its locks.
Dies(p) ==
    /\ status' = [status EXCEPT ![p] = "closed"]
    /\ map' = [map EXCEPT ![p] = [f \in Files |-> Unmapped]]
    /\ spinLock' = IF spinLock \in Thread /\ P(spinLock) = p THEN DeadThread ELSE spinLock
    /\ frame' = [t \in Thread |-> IF P(t) = p THEN NoCall ELSE frame[t]]
    /\ UNCHANGED <<grower, selector, sync, expected, late, crossed>>

Fault(t) == Dangling(t) /\ Dies(P(t)) /\ Counted("faults") /\ UNCHANGED disk

Kill(p) ==
    /\ count.kills < MaxKills /\ status[p] # "closed"
    /\ Dies(p) /\ Counted("kills") /\ UNCHANGED disk

\* The file that a thread is about to map with another size, and this size. In
\* Recheck it is the size the table has already.
Remapped(t) == IF At(t, "extend") THEN Other(t) ELSE frame[t].tab
NewSize(t) ==
    CASE At(t, "openMap") -> frame[t].seen
      [] At(t, "grow") /\ Usable(t) -> 2 * Head(frame[t].tab).size
      [] At(t, "extend") /\ Usable(t) -> Head(frame[t].tab).size
      [] OTHER -> 0

\* The copy of wide slots behind the mapping ends the process: inside the write
\* session of the table, and before the header knows of the growth.
Overrun(t) ==
    LET f == Remapped(t) IN
    /\ Overruns(Head(f), NewSize(t))
    /\ disk' = [disk EXCEPT ![f].len = NewSize(t), ![f].head.stuck = TRUE]
    /\ Dies(P(t)) /\ Counted("faults")

-----------------------------------------------------------------------------
Call(t) == CallSet(t) \/ CallDelete(t) \/ CallRead(t)
BeginRead(t) == LoadState(t) \/ EnterSync(t)
FindTable(t) == ActiveTable(t) \/ Relock(t) \/ Recheck(t)
UseTable(t) == TestReadOnly(t) \/ EnterTable(t) \/ Operate(t) \/ LeaveSync(t)
Maintain(t) ==
    \/ LockForSet(t) \/ BeginWrite(t) \/ WaitForNoReader(t) \/ Plan(t) \/ Grow(t) \/ Extend(t)
    \/ ConstructInactive(t) \/ SetReadOnly(t) \/ CopyToInactive(t) \/ FlipSelector(t)
    \/ EndWrite(t) \/ Release(t)

\* A step of a call that is under way.
Step(t) ==
    \/ OpenSize(t) \/ OpenMap(t) \/ OpenUnlock(t) \/ BeginRead(t) \/ FindTable(t)
    \/ UseTable(t) \/ Maintain(t) \/ Fault(t) \/ Overrun(t)

Next ==
    \/ \E t \in Thread : OpenSync(t) \/ Call(t) \/ Step(t)
    \/ \E p \in Process : Close(p) \/ Kill(p)

Spec == Init /\ [][Next]_vars

-----------------------------------------------------------------------------
(* Properties *)

\* The active table holds exactly the keys that the calls which have ended left in
\* it, those included that failed half way, through growth, compaction and the
\* switch of files, whatever is killed and whichever call of the system fails; as
\* long as no reader has slipped in behind an exclusive writer (NonBlocking says
\* when that happens) and the table has not grown across the size from which slots
\* are wider (the code loses half of the index there).
CompletedCallsSurvive == ~late /\ ~crossed => Head(selector).live = expected

\* A file that processes have mapped is never cut short, although its length is
\* read, compared and set in three places by processes that do not know each
\* other's; except by Initialize after its first attempt to map the file failed,
\* which then gives it the initial size.
FilesNeverShrink ==
    [][\A f \in Files : disk'[f].len < disk[f].len =>
           count'.failures > 0 /\ \E t \in Thread : At(t, "openMap")]_disk

WaitsForItself(t) == At(t, "relock") /\ spinLock = t

\* A Set that holds the spin lock meets it again in ActiveTable only when another
\* process has changed the size of the table since this one mapped it. A thread
\* loses the memory under its table pointer only then, too, when a sibling maps the
\* file anew while the pointer is in use; or after a failure of the system.
HarmNeedsForeignGrowth ==
    \A t \in Thread :
        \/ WaitsForItself(t)
        \/ ~late /\ count.failures = 0 /\ Dangling(t)
        => grower[frame[t].tab] \notin {P(t), NoProcess}

\* Inside a read session of the shared machine.
Reads(t) == frame[t].pc \in {"active", "relock", "recheck", "lost", "test", "begin", "operate", "leave"}
            /\ frame[t].stage # 3

\* What dead threads left in the shared context.
Debris ==
    \/ spinLock = DeadThread
    \/ sync.readers > Cardinality({t \in Thread : Reads(t)})
    \/ ~IsEven(sync.state) /\ \A t \in Thread : frame[t].stage # 3

\* A counted reader whose mapping is outgrown waits for the lock of a Set that
\* waits for the counted readers.
WaitsForWriter(t) ==
    At(t, "relock") /\ Reads(t) /\ \E u \in Thread : spinLock = u /\ At(u, "wait")

\* When no call under way can go on, a thread waits for the lock it holds itself,
\* or a reader and a Set without memory wait for each other, or a thread that died
\* has left its lock, its odd state or its count of readers.
WaitsHaveACause ==
    (\E t \in Thread : ~At(t, "idle")) /\ (\A t \in Thread : ~ENABLED Step(t))
        => Debris \/ \E t \in Thread : WaitsForItself(t) \/ WaitsForWriter(t)
=============================================================================
