------------------------- MODULE SortedTableProofs -------------------------
(***************************************************************************)
(* Proofs about concurrent Set, Delete and Get (module SortedTable), for   *)
(* any number of threads, keys, calls and units of memory, with and        *)
(* without deadlines.                                                      *)
(*                                                                         *)
(* The inductive invariant IInv says where every call stands: what it has  *)
(* found, locked and appended (ThreadInv), that no two calls work on one   *)
(* record (Apart), that an odd state has a call that will make it even     *)
(* again (LocksInv), that slots lead to composed records (SlotsInv), and   *)
(* that the memory an append has checked is still there when it ends       *)
(* (RoomInv).  A step of one call is described by what it may do to the    *)
(* others (Frame, LogStep, IndexStep, ChoiceStep, LockStep, RecordStep,    *)
(* RoomStep): these keep what is known of the others, once for all steps,  *)
(* and each action is then shown to be such a step.                        *)
(***************************************************************************)
EXTENDS SortedTable, IndexOpsProofs, FiniteSetTheorems

LogRecord == [key : Keys, state : Nat, deleted : BOOLEAN, composed : BOOLEAN,
              capacity : Nat, size : Nat]
Errors == {"none", "notFound", "wrongVersion", "notEnoughMemory", "timeout", "unknown"}
Context == [indexState : Nat, found : BOOLEAN, order : Nat, existing : Nat, version : Nat,
            deleted : BOOLEAN, valueSize : Nat, composing : Nat, left : BOOLEAN,
            adjustment : Int, error : Errors]

\* Every variable has its type.
TypeInv ==
    /\ log \in Seq(LogRecord) /\ dataEnd \in Nat /\ dataLock \subseteq Thread
    /\ index \in Seq(Nat) /\ indexEnd \in Nat /\ indexState \in Nat
    /\ wasted \in Int /\ calls \in Nat /\ overtaken \in BOOLEAN
    /\ pc \in [Thread -> PCs] /\ call \in [Thread -> Calls \cup {NoCall}]
    /\ ctx \in [Thread -> Context]

\* The places of a call: those of Set alone, those with a record that the search
\* has found, with a record to compose, inside the index.
SetPC == {"append", "appending", "compose", "insert", "inserting", "lockReplace", "modify",
          "modifying", "unlockReplaced", "setValue"}
FoundPC == {"readRecord", "verify", "lockReplace", "modify", "modifying", "unlockReplaced",
            "setValue", "lockDelete", "remove", "mark"}
NewPC == {"compose", "insert", "inserting"}
IndexPC == {"inserting", "modifying"}
SearchedPC == NewPC \cup {"append", "appending", "readRecord", "verify", "lockReplace", "modify",
                          "modifying", "setValue", "lockDelete", "remove"}

\* The state that the index had before a write session that has not ended.
LastStable == IF IsCorrupted(indexState) THEN indexState - 1 ELSE indexState

\* The search of t is as good as new: no slot has come or gone since.
Fresh(t) == pc[t] \in SearchedPC /\ ctx[t].indexState = LastStable

\* The record that t has appended and that nobody else can see yet.
Private(t) == ctx[t].composing # 0 /\ pc[t] \notin {"unlockReplaced", "return", "idle"}

\* The slots lead to records that are composed, and the data is bounded by them.
SlotsInv ==
    /\ \A i \in DOMAIN log : log[i].size <= log[i].capacity
    /\ \A i \in DOMAIN index : index[i] \in DOMAIN log /\ log[index[i]].composed
    /\ indexEnd <= MaxEnd

\* What is true of a call at its place, whatever the others do.
ThreadInv(t) ==
    /\ pc[t] = "idle" => ctx[t] = NewContext
    /\ pc[t] # "idle" => call[t] \in Calls
    /\ pc[t] \in SetPC => call[t].op = "Set"
    /\ ctx[t].existing \in 0 .. Len(log) /\ ctx[t].composing \in 0 .. Len(log)
    /\ ~IsCorrupted(ctx[t].version)
    /\ ctx[t].indexState <= LastStable
    /\ pc[t] \in FoundPC => ctx[t].found
    /\ pc[t] \in NewPC => ~ctx[t].found
    /\ pc[t] \in SearchedPC \cup FoundPC /\ ctx[t].found =>
        /\ ctx[t].existing \in DOMAIN log
        /\ log[ctx[t].existing].composed
        /\ log[ctx[t].existing].key = call[t].key
    /\ Held(t) => log[ctx[t].existing].state = ctx[t].version + 1
    /\ Fresh(t) => /\ ctx[t].order <= Len(index)
                   /\ ctx[t].found => ctx[t].order < Len(index)
    /\ pc[t] \in NewPC \cup {"lockReplace", "modify", "modifying"} => ctx[t].composing # 0
    /\ pc[t] = "appending" => ctx[t].composing = 0
    /\ pc[t] \in {"insert", "inserting", "modify", "modifying"} => log[ctx[t].composing].composed
    /\ pc[t] \in IndexPC => indexState = ctx[t].indexState + 1
    /\ pc[t] = "inserting" => ctx[t].left \/ indexEnd < MaxEnd
    /\ pc[t] = "setValue" => call[t].size <= log[ctx[t].existing].capacity
    /\ Private(t) =>
        /\ ctx[t].composing \notin Range(index)
        /\ LET r == log[ctx[t].composing]
           IN /\ r.key = call[t].key
              /\ r.size = call[t].size /\ r.capacity = call[t].size
              /\ ~r.deleted
              /\ r.composed => ~IsCorrupted(r.state)

\* No two calls work on one record.
Apart(t, u) ==
    /\ Private(t) => ctx[u].existing # ctx[t].composing
    /\ t # u /\ Private(t) /\ Private(u) => ctx[t].composing # ctx[u].composing
    /\ t # u /\ Held(t) /\ Held(u) => ctx[t].existing # ctx[u].existing

\* An odd state has a call that will make it even again.
LocksInv ==
    /\ IsCorrupted(indexState) <=> \E t \in Thread : pc[t] \in IndexPC
    /\ \A t, u \in Thread : pc[t] \in IndexPC /\ pc[u] \in IndexPC => t = u
    /\ \A t \in Thread : pc[t] = "appending" <=> t \in dataLock
    /\ \A t, u \in Thread : t \in dataLock /\ u \in dataLock => t = u
    /\ \A i \in DOMAIN log : log[i].composed /\ IsCorrupted(log[i].state) =>
            \E t \in Thread : Held(t) /\ ctx[t].existing = i

\* The calls that may take a slot before an append that is going on has ended:
\* a second slot makes their searches stale.
Inserts(t) == pc[t] = "inserting" \/ (pc[t] \in NewPC /\ Fresh(t))

RoomInv ==
    /\ dataEnd <= indexBegin
    /\ \A t \in Thread : pc[t] # "assertIndexBegin"
    /\ \A t \in Thread : pc[t] = "inserting" => dataEnd < indexBegin
    /\ \A t \in Thread : pc[t] = "appending" =>
        /\ dataEnd + PhysicalSize(call[t].size) <= indexBegin
        /\ \A u \in Thread : Inserts(u) =>
                dataEnd + PhysicalSize(call[t].size) + Scale <= indexBegin

IInv ==
    /\ TypeInv
    /\ SlotsInv
    /\ \A t \in Thread : ThreadInv(t)
    /\ \A t, u \in Thread : Apart(t, u)
    /\ LocksInv
    /\ RoomInv

\* The key that slot i leads to.
KeyAt(i) == log[index[i]].key

-----------------------------------------------------------------------------
(* Parity and types.                                                       *)

\* A step of a state changes the corrupted bit, two steps do not.
LEMMA Parity ==
    ASSUME NEW n \in Int
    PROVE  /\ IsCorrupted(n + 1) <=> ~IsCorrupted(n)
           /\ IsCorrupted(n - 1) <=> ~IsCorrupted(n)
           /\ IsCorrupted(n + 2) <=> IsCorrupted(n)
           /\ IsCorrupted(n + 4) <=> IsCorrupted(n)
BY DEF IsCorrupted

\* The keys, the calls and their sizes are numbers.
LEMMA CallsAre ==
    ASSUME NEW c \in Calls \cup {NoCall}
    PROVE  /\ c.size \in Nat /\ c.key \in Nat
           /\ c \in Calls => /\ c.key \in Keys /\ c.op \in {"Set", "Delete", "Get"}
                             /\ c.version \in Nat
<1>1. CASE c = NoCall
  <2>1. c.size = 0 /\ c.key = 0
    BY <1>1 DEF NoCall
  <2>2. c.op \in {"none"}
    BY <1>1 DEF NoCall
  <2>3. \A d \in Calls : d.op \in {"Set", "Delete", "Get"}
    BY DEF Calls
  <2>4. QED
    BY <2>1, <2>2, <2>3
<1>2. CASE c \in Calls
  <2>1. /\ c.key \in Keys /\ c.op \in {"Set", "Delete", "Get"} /\ c.version \in Versions
        /\ c.size \in ValueSizes \cup {0}
    BY <1>2, SizesAreNaturals DEF Calls, Versions, AnyVersion
  <2>2. Versions \subseteq Nat /\ Keys \subseteq Nat /\ ValueSizes \cup {0} \subseteq Nat
    <3>1. Versions \subseteq Nat
      BY DEF Versions, AnyVersion
    <3>2. Keys \subseteq Nat
      BY KeysAreNaturals
    <3>3. ValueSizes \cup {0} \subseteq Nat
      BY SizesAreNaturals
    <3>4. QED
      BY <3>1, <3>2, <3>3
  <2>3. QED
    BY <2>1, <2>2
<1>3. QED
  BY <1>1, <1>2

\* What each thread has.
LEMMA ThreadTypes ==
    ASSUME TypeInv, NEW t \in Thread
    PROVE  /\ ctx[t] \in Context /\ pc[t] \in PCs /\ call[t] \in Calls \cup {NoCall}
           /\ ctx[t].indexState \in Nat /\ ctx[t].found \in BOOLEAN /\ ctx[t].order \in Nat
           /\ ctx[t].existing \in Nat /\ ctx[t].version \in Nat /\ ctx[t].deleted \in BOOLEAN
           /\ ctx[t].valueSize \in Nat /\ ctx[t].composing \in Nat /\ ctx[t].left \in BOOLEAN
           /\ ctx[t].adjustment \in Int /\ ctx[t].error \in Errors
<1>1. ctx[t] \in Context /\ pc[t] \in PCs /\ call[t] \in Calls \cup {NoCall}
  BY DEF TypeInv
<1>2. QED
  BY <1>1 DEF Context

\* What each record has.
LEMMA RecordTypes ==
    ASSUME TypeInv, NEW i \in DOMAIN log
    PROVE  /\ log[i] \in LogRecord
           /\ log[i].key \in Keys /\ log[i].key \in Nat /\ log[i].state \in Nat
           /\ log[i].deleted \in BOOLEAN /\ log[i].composed \in BOOLEAN
           /\ log[i].capacity \in Nat /\ log[i].size \in Nat
<1>1. log[i] \in LogRecord
  <2>1. log \in Seq(LogRecord)
    BY DEF TypeInv
  <2>2. i \in 1 .. Len(log)
    BY <2>1
  <2>3. QED
    BY <2>1, <2>2, ElementOfSeq
<1>2. QED
  BY <1>1, KeysAreNaturals DEF LogRecord

\* The domains of the sequences.
LEMMA Domains ==
    ASSUME TypeInv
    PROVE  /\ Len(log) \in Nat /\ DOMAIN log = 1 .. Len(log)
           /\ Len(index) \in Nat /\ DOMAIN index = 1 .. Len(index)
           /\ LastStable \in Nat /\ ~IsCorrupted(LastStable) /\ LastStable <= indexState
           /\ indexBegin = indexEnd - Len(index) /\ indexBegin \in Int
<1>1. log \in Seq(LogRecord) /\ index \in Seq(Nat) /\ indexState \in Nat /\ indexEnd \in Nat
  BY DEF TypeInv
<1>2. /\ Len(log) \in Nat /\ DOMAIN log = 1 .. Len(log)
      /\ Len(index) \in Nat /\ DOMAIN index = 1 .. Len(index)
  BY <1>1
<1>3. LastStable \in Nat /\ ~IsCorrupted(LastStable) /\ LastStable <= indexState
  BY <1>1, Parity DEF LastStable, IsCorrupted
<1>4. QED
  BY <1>1, <1>2, <1>3 DEF indexBegin, Scale

-----------------------------------------------------------------------------
(* What a step of t may do, as far as the others are concerned.            *)

\* Only t moves.
Frame(t) == \A u \in Thread \ {t} : pc'[u] = pc[u] /\ ctx'[u] = ctx[u] /\ call'[u] = call[u]

\* Records are appended, and change in what t holds, locks or has appended.
LogStep(t) ==
    /\ Len(log) <= Len(log')
    /\ \A i \in DOMAIN log :
        /\ log'[i].key = log[i].key /\ log'[i].capacity = log[i].capacity
        /\ log[i].composed => log'[i].composed
        /\ \/ log'[i] = log[i]
           \/ i = ctx[t].existing /\ (Held(t) \/ ~IsCorrupted(log[i].state))
           \/ i = ctx[t].composing /\ Private(t)
    /\ \A i \in DOMAIN log' : log'[i].size <= log'[i].capacity

\* A slot leads where one has led before or to the record of t; slots go only
\* when the searches of all the others become stale.
IndexStep(t) ==
    /\ \A i \in DOMAIN index' :
        \/ index'[i] \in Range(index)
        \/ Private(t) /\ log[ctx[t].composing].composed /\ index'[i] = ctx[t].composing
    /\ LastStable <= LastStable'
    /\ LastStable' = LastStable => Len(index) <= Len(index')
    /\ \A u \in Thread \ {t} : pc[u] \in IndexPC => indexState' = indexState /\ indexEnd' = indexEnd
    /\ indexEnd' <= MaxEnd

\* A record is found in the index, appended at the end, and locked when its state is even.
ChoiceStep(t) ==
    /\ \/ ctx'[t].existing = ctx[t].existing
       \/ ctx'[t].existing \in Range(index) \cup {0}
    /\ Private(t)' => \/ Private(t) /\ ctx'[t].composing = ctx[t].composing
                      \/ ctx'[t].composing > Len(log)
    /\ Held(t)' => \/ Held(t) /\ ctx'[t].existing = ctx[t].existing
                   \/ ctx'[t].existing \in DOMAIN log /\ ~IsCorrupted(log[ctx'[t].existing].state)

\* Locks are taken when they are free and given back by who has taken them.
LockStep(t) ==
    /\ \/ indexState' = indexState /\ (pc'[t] \in IndexPC <=> pc[t] \in IndexPC)
       \/ ~IsCorrupted(indexState) /\ IsCorrupted(indexState') /\ pc'[t] \in IndexPC
       \/ ~IsCorrupted(indexState') /\ pc[t] \in IndexPC /\ pc'[t] \notin IndexPC
       \/ ~IsCorrupted(indexState) /\ ~IsCorrupted(indexState') /\ pc'[t] \notin IndexPC
    /\ \/ dataLock' = dataLock /\ (pc'[t] = "appending" <=> pc[t] = "appending")
       \/ dataLock = {} /\ dataLock' = {t} /\ pc'[t] = "appending"
       \/ dataLock' = {} /\ pc[t] = "appending" /\ pc'[t] # "appending"

\* A composed record with an odd state is t's, or what it was and not t's.
RecordStep(t) ==
    \A i \in DOMAIN log' : log'[i].composed /\ IsCorrupted(log'[i].state) =>
        \/ Held(t)' /\ ctx'[t].existing = i
        \/ i \in DOMAIN log /\ log'[i] = log[i] /\ ~(Held(t) /\ ctx[t].existing = i)

\* The free memory does not shrink, and t goes where it needs some if there is some.
RoomStep(t) ==
    /\ dataEnd' = dataEnd /\ indexBegin <= indexBegin'
    /\ pc'[t] # "assertIndexBegin"
    /\ pc'[t] = "inserting" => dataEnd < indexBegin
    /\ pc'[t] = "appending" => dataEnd + PhysicalSize(call'[t].size) + Scale <= indexBegin
    /\ Inserts(t)' => Inserts(t) \/ dataLock = {}

\* The domains of the sequences after a step.
LEMMA DomainsNext ==
    ASSUME TypeInv'
    PROVE  /\ Len(log') \in Nat /\ DOMAIN log' = 1 .. Len(log')
           /\ Len(index') \in Nat /\ DOMAIN index' = 1 .. Len(index')
           /\ LastStable' \in Nat /\ LastStable' <= indexState'
           /\ indexBegin' = indexEnd' - Len(index') /\ indexBegin' \in Int
<1>1. log' \in Seq(LogRecord) /\ index' \in Seq(Nat) /\ indexState' \in Nat /\ indexEnd' \in Nat
  BY DEF TypeInv
<1>2. /\ Len(log') \in Nat /\ DOMAIN log' = 1 .. Len(log')
      /\ Len(index') \in Nat /\ DOMAIN index' = 1 .. Len(index')
  BY <1>1
<1>3. LastStable' \in Nat /\ LastStable' <= indexState'
  <2>1. ASSUME NEW n \in Nat PROVE /\ (IF IsCorrupted(n) THEN n - 1 ELSE n) \in Nat
                                   /\ (IF IsCorrupted(n) THEN n - 1 ELSE n) <= n
    <3>1. IsCorrupted(n) => n # 0
      BY DEF IsCorrupted
    <3>2. CASE IsCorrupted(n)
      BY <3>1, <3>2
    <3>3. CASE ~IsCorrupted(n)
      BY <3>3
    <3>4. QED
      BY <3>2, <3>3
  <2>2. LastStable' = IF IsCorrupted(indexState') THEN indexState' - 1 ELSE indexState'
    BY DEF LastStable
  <2>3. QED
    BY <1>1, <2>1, <2>2
<1>4. QED
  BY <1>1, <1>2, <1>3 DEF indexBegin, Scale

\* A record that is held, or private, is what it seems.
LEMMA HeldIs ==
    ASSUME TypeInv, NEW u \in Thread, ThreadInv(u), Held(u)
    PROVE  /\ ctx[u].existing \in DOMAIN log
           /\ log[ctx[u].existing].state = ctx[u].version + 1
           /\ IsCorrupted(log[ctx[u].existing].state)
<1>1. pc[u] \in FoundPC
  <2>1. pc[u] \in {"modify", "modifying", "unlockReplaced", "remove", "mark"}
    BY DEF Held
  <2>2. QED
    BY <2>1 DEF FoundPC
<1>2. ctx[u].existing \in DOMAIN log /\ log[ctx[u].existing].state = ctx[u].version + 1
  BY <1>1 DEF ThreadInv
<1>3. ~IsCorrupted(ctx[u].version) /\ ctx[u].version \in Int
  BY ThreadTypes DEF ThreadInv
<1>4. IsCorrupted(ctx[u].version + 1)
  BY <1>3, Parity
<1>5. QED
  BY <1>2, <1>4

LEMMA PrivateIs ==
    ASSUME TypeInv, NEW u \in Thread, ThreadInv(u), Private(u)
    PROVE  /\ ctx[u].composing \in DOMAIN log /\ ctx[u].composing \in 1 .. Len(log)
           /\ ctx[u].composing \notin Range(index)
<1>1. ctx[u].composing \in 0 .. Len(log) /\ ctx[u].composing # 0
  BY DEF ThreadInv, Private
<1>2. QED
  BY <1>1, Domains DEF ThreadInv

\* The other calls are where they were.
LEMMA OtherThread ==
    ASSUME IInv, TypeInv', NEW t \in Thread, Frame(t), LogStep(t), IndexStep(t),
           NEW u \in Thread \ {t}
    PROVE  ThreadInv(u)' /\ (Fresh(u)' => Fresh(u) /\ LastStable' = LastStable)
<1>1. /\ pc'[u] = pc[u] /\ ctx'[u] = ctx[u] /\ call'[u] = call[u]
      /\ ThreadInv(u) /\ TypeInv /\ Apart(u, t) /\ Apart(t, u)
  BY DEF Frame, IInv
<1>2. /\ Len(log) \in Nat /\ DOMAIN log = 1 .. Len(log)
      /\ Len(log') \in Nat /\ DOMAIN log' = 1 .. Len(log')
      /\ Len(index) \in Nat /\ DOMAIN index = 1 .. Len(index)
      /\ Len(index') \in Nat /\ DOMAIN index' = 1 .. Len(index')
      /\ LastStable \in Nat /\ LastStable' \in Nat
  BY <1>1, Domains, DomainsNext
<1>3. /\ ctx[u].existing \in Nat /\ ctx[u].composing \in Nat /\ ctx[u].indexState \in Nat
      /\ ctx[u].order \in Nat /\ ctx[u].version \in Nat
  BY <1>1, ThreadTypes
<1>4. Len(log) <= Len(log') /\ DOMAIN log \subseteq DOMAIN log'
  BY <1>2 DEF LogStep
<1>5. \A i \in DOMAIN log :
        /\ log'[i].key = log[i].key /\ log'[i].capacity = log[i].capacity
        /\ log[i].composed => log'[i].composed
  BY DEF LogStep
<1>6. Held(u) => /\ ctx[u].existing \in DOMAIN log
                 /\ log'[ctx[u].existing] = log[ctx[u].existing]
                 /\ log[ctx[u].existing].state = ctx[u].version + 1
  <2> SUFFICES ASSUME Held(u) PROVE /\ ctx[u].existing \in DOMAIN log
                                    /\ log'[ctx[u].existing] = log[ctx[u].existing]
                                    /\ log[ctx[u].existing].state = ctx[u].version + 1
    OBVIOUS
  <2>1. /\ ctx[u].existing \in DOMAIN log
        /\ log[ctx[u].existing].state = ctx[u].version + 1
        /\ IsCorrupted(log[ctx[u].existing].state)
    BY <1>1, HeldIs
  <2>2. ~(ctx[u].existing = ctx[t].existing /\ Held(t))
    BY <1>1 DEF Apart
  <2>3. ~(ctx[u].existing = ctx[t].composing /\ Private(t))
    BY <1>1 DEF Apart
  <2>4. log'[ctx[u].existing] = log[ctx[u].existing]
    BY <2>1, <2>2, <2>3 DEF LogStep
  <2>5. QED
    BY <2>1, <2>4
<1>7. Private(u) => /\ ctx[u].composing \in DOMAIN log
                    /\ log'[ctx[u].composing] = log[ctx[u].composing]
                    /\ ctx[u].composing \notin Range(index')
  <2> SUFFICES ASSUME Private(u) PROVE /\ ctx[u].composing \in DOMAIN log
                                       /\ log'[ctx[u].composing] = log[ctx[u].composing]
                                       /\ ctx[u].composing \notin Range(index')
    OBVIOUS
  <2>1. ctx[u].composing \in DOMAIN log /\ ctx[u].composing \notin Range(index)
    BY <1>1, PrivateIs
  <2>2. ctx[t].existing # ctx[u].composing
    BY <1>1 DEF Apart
  <2>3. ~(ctx[u].composing = ctx[t].composing /\ Private(t))
    BY <1>1 DEF Apart
  <2>4. log'[ctx[u].composing] = log[ctx[u].composing]
    BY <2>1, <2>2, <2>3 DEF LogStep
  <2>5. ctx[u].composing \notin Range(index')
    BY <2>1, <2>3 DEF IndexStep, Range
  <2>6. QED
    BY <2>1, <2>4, <2>5
<1>8. /\ LastStable <= LastStable'
      /\ LastStable' = LastStable => Len(index) <= Len(index')
      /\ pc[u] \in IndexPC => indexState' = indexState /\ indexEnd' = indexEnd
  BY DEF IndexStep
<1>9. Fresh(u)' => Fresh(u) /\ LastStable' = LastStable
  BY <1>1, <1>2, <1>3, <1>8 DEF Fresh, ThreadInv
<1>10. Held(u)' <=> Held(u)
  BY <1>1 DEF Held
<1>11. Private(u)' <=> Private(u)
  BY <1>1 DEF Private
<1>12. pc[u] \in SearchedPC \cup FoundPC /\ ctx[u].found =>
        /\ ctx[u].existing \in DOMAIN log'
        /\ log'[ctx[u].existing].composed
        /\ log'[ctx[u].existing].key = call[u].key
  BY <1>1, <1>4, <1>5 DEF ThreadInv
<1>13. Fresh(u)' => /\ ctx'[u].order <= Len(index')
                    /\ ctx'[u].found => ctx'[u].order < Len(index')
  BY <1>1, <1>2, <1>3, <1>8, <1>9 DEF ThreadInv
<1>14. pc[u] \in {"insert", "inserting", "modify", "modifying"} => log'[ctx[u].composing].composed
  <2> SUFFICES ASSUME pc[u] \in {"insert", "inserting", "modify", "modifying"}
               PROVE  log'[ctx[u].composing].composed
    OBVIOUS
  <2>1. ctx[u].composing # 0 /\ log[ctx[u].composing].composed
    BY <1>1 DEF ThreadInv, NewPC
  <2>2. ctx[u].composing \in DOMAIN log
    BY <1>1, <1>2, <1>3, <2>1 DEF ThreadInv
  <2>3. QED
    BY <1>5, <2>1, <2>2
<1>15. pc[u] = "setValue" => call[u].size <= log'[ctx[u].existing].capacity
  <2> SUFFICES ASSUME pc[u] = "setValue" PROVE call[u].size <= log'[ctx[u].existing].capacity
    OBVIOUS
  <2>1. ctx[u].existing \in DOMAIN log /\ call[u].size <= log[ctx[u].existing].capacity
    BY <1>1 DEF ThreadInv, FoundPC, SearchedPC
  <2>2. QED
    BY <1>5, <2>1
<1>16. /\ ctx[u].existing \in 0 .. Len(log') /\ ctx[u].composing \in 0 .. Len(log')
       /\ ctx[u].indexState <= LastStable'
  BY <1>1, <1>2, <1>3, <1>4, <1>8 DEF ThreadInv
<1>17. pc[u] \in IndexPC => indexState' = ctx[u].indexState + 1
  BY <1>1, <1>8 DEF ThreadInv
<1>18. pc[u] = "inserting" => ctx[u].left \/ indexEnd' < MaxEnd
  BY <1>1, <1>8 DEF ThreadInv, IndexPC
<1>19. QED
  BY <1>1, <1>6, <1>7, <1>9, <1>10, <1>11, <1>12, <1>13, <1>14, <1>15, <1>16, <1>17, <1>18
  DEF ThreadInv

\* No two calls come to work on one record.
LEMMA ApartStays ==
    ASSUME IInv, NEW t \in Thread, Frame(t), ChoiceStep(t)
    PROVE  \A a, b \in Thread : Apart(a, b)'
<1>1. \A u \in Thread \ {t} : /\ pc'[u] = pc[u] /\ ctx'[u] = ctx[u]
                              /\ (Held(u)' <=> Held(u)) /\ (Private(u)' <=> Private(u))
  BY DEF Frame, Held, Private
<1>2. /\ TypeInv /\ Len(log) \in Nat /\ DOMAIN log = 1 .. Len(log)
      /\ \A u \in Thread : ThreadInv(u)
      /\ \A a, b \in Thread : Apart(a, b)
  BY Domains DEF IInv
<1>3. \A u \in Thread : ctx[u].existing \in 0 .. Len(log) /\ ctx[u].composing \in 0 .. Len(log)
  BY <1>2 DEF ThreadInv
<1>4. \A i \in Range(index) : i \in 1 .. Len(log)
  BY <1>2 DEF IInv, SlotsInv, Range
<1>5. ctx'[t].existing \in 0 .. Len(log)
  BY <1>2, <1>3, <1>4 DEF ChoiceStep
<1>6. \A u \in Thread \ {t} : Private(u) => ctx'[t].existing # ctx[u].composing
  <2> SUFFICES ASSUME NEW u \in Thread \ {t}, Private(u) PROVE ctx'[t].existing # ctx[u].composing
    OBVIOUS
  <2>1. ctx[u].composing \in 1 .. Len(log) /\ ctx[u].composing \notin Range(index)
    BY <1>2, PrivateIs
  <2>2. ctx[t].existing # ctx[u].composing
    BY <1>2 DEF Apart
  <2>3. QED
    BY <2>1, <2>2, <1>2 DEF ChoiceStep
<1>7. \A u \in Thread \ {t} : Private(t)' => /\ ctx[u].existing # ctx'[t].composing
                                             /\ Private(u) => ctx'[t].composing # ctx[u].composing
  <2> SUFFICES ASSUME NEW u \in Thread \ {t}, Private(t)'
               PROVE  /\ ctx[u].existing # ctx'[t].composing
                      /\ Private(u) => ctx'[t].composing # ctx[u].composing
    OBVIOUS
  <2>1. CASE Private(t) /\ ctx'[t].composing = ctx[t].composing
    BY <1>2, <2>1 DEF Apart
  <2>2. CASE ctx'[t].composing > Len(log)
    BY <1>2, <1>3, <2>2
  <2>3. QED
    BY <2>1, <2>2 DEF ChoiceStep
<1>8. Private(t)' => ctx'[t].existing # ctx'[t].composing
  <2> SUFFICES ASSUME Private(t)' PROVE ctx'[t].existing # ctx'[t].composing
    OBVIOUS
  <2>1. CASE Private(t) /\ ctx'[t].composing = ctx[t].composing
    <3>1. ctx[t].composing \in 1 .. Len(log) /\ ctx[t].composing \notin Range(index)
      BY <1>2, <2>1, PrivateIs
    <3>2. ctx[t].existing # ctx[t].composing
      BY <1>2, <2>1 DEF Apart
    <3>3. QED
      BY <1>2, <2>1, <3>1, <3>2 DEF ChoiceStep
  <2>2. CASE ctx'[t].composing > Len(log)
    BY <1>2, <1>5, <2>2
  <2>3. QED
    BY <2>1, <2>2 DEF ChoiceStep
<1>9. \A u \in Thread \ {t} : Held(t)' /\ Held(u) => ctx'[t].existing # ctx[u].existing
  <2> SUFFICES ASSUME NEW u \in Thread \ {t}, Held(t)', Held(u)
               PROVE  ctx'[t].existing # ctx[u].existing
    OBVIOUS
  <2>1. IsCorrupted(log[ctx[u].existing].state)
    BY <1>2, HeldIs
  <2>2. Held(t) => ctx[t].existing # ctx[u].existing
    BY <1>2 DEF Apart
  <2>3. QED
    BY <2>1, <2>2 DEF ChoiceStep
<1>10. SUFFICES ASSUME NEW a \in Thread, NEW b \in Thread PROVE Apart(a, b)'
  OBVIOUS
<1>11. Private(a)' => ctx'[b].existing # ctx'[a].composing
  <2>1. CASE a = t /\ b = t
    BY <1>8, <2>1
  <2>2. CASE a = t /\ b # t
    BY <1>1, <1>7, <2>2
  <2>3. CASE a # t /\ b = t
    BY <1>1, <1>6, <2>3
  <2>4. CASE a # t /\ b # t
    BY <1>1, <1>2, <2>4 DEF Apart
  <2>5. QED
    BY <2>1, <2>2, <2>3, <2>4
<1>12. a # b /\ Private(a)' /\ Private(b)' => ctx'[a].composing # ctx'[b].composing
  <2>1. CASE a # t /\ b # t
    BY <1>1, <1>2, <2>1 DEF Apart
  <2>2. QED
    BY <1>1, <1>7, <2>1
<1>13. a # b /\ Held(a)' /\ Held(b)' => ctx'[a].existing # ctx'[b].existing
  <2>1. CASE a # t /\ b # t
    BY <1>1, <1>2, <2>1 DEF Apart
  <2>2. QED
    BY <1>1, <1>9, <2>1
<1>14. QED
  BY <1>11, <1>12, <1>13 DEF Apart

\* Slots lead to composed records.
LEMMA SlotsStay ==
    ASSUME IInv, TypeInv', NEW t \in Thread, LogStep(t), IndexStep(t)
    PROVE  SlotsInv'
<1>1. /\ DOMAIN log \subseteq DOMAIN log'
      /\ \A i \in DOMAIN log : log[i].composed => log'[i].composed
  BY Domains, DomainsNext DEF IInv, LogStep
<1>2. \A i \in Range(index) : i \in DOMAIN log /\ log[i].composed
  BY DEF IInv, SlotsInv, Range
<1>3. Private(t) => ctx[t].composing \in DOMAIN log
  BY PrivateIs DEF IInv
<1>4. \A i \in DOMAIN index' : index'[i] \in DOMAIN log /\ log[index'[i]].composed
  BY <1>2, <1>3 DEF IndexStep
<1>5. QED
  BY <1>1, <1>4 DEF SlotsInv, LogStep, IndexStep

\* An odd state has its call.
LEMMA LocksStay ==
    ASSUME IInv, NEW t \in Thread, Frame(t), LockStep(t), RecordStep(t)
    PROVE  LocksInv'
<1>1. \A u \in Thread \ {t} : pc'[u] = pc[u] /\ ctx'[u] = ctx[u] /\ (Held(u)' <=> Held(u))
  BY DEF Frame, Held
<1>2. /\ IsCorrupted(indexState) <=> \E u \in Thread : pc[u] \in IndexPC
      /\ \A u, w \in Thread : pc[u] \in IndexPC /\ pc[w] \in IndexPC => u = w
      /\ \A u \in Thread : pc[u] = "appending" <=> u \in dataLock
      /\ \A u, w \in Thread : u \in dataLock /\ w \in dataLock => u = w
      /\ \A i \in DOMAIN log : log[i].composed /\ IsCorrupted(log[i].state) =>
            \E u \in Thread : Held(u) /\ ctx[u].existing = i
  BY DEF IInv, LocksInv
<1>3. /\ IsCorrupted(indexState') <=> \E u \in Thread : pc'[u] \in IndexPC
      /\ \A u, w \in Thread : pc'[u] \in IndexPC /\ pc'[w] \in IndexPC => u = w
  <2>1. CASE indexState' = indexState /\ (pc'[t] \in IndexPC <=> pc[t] \in IndexPC)
    <3>1. \A u \in Thread : pc'[u] \in IndexPC <=> pc[u] \in IndexPC
      BY <1>1, <2>1, Zenon
    <3>2. IsCorrupted(indexState') <=> IsCorrupted(indexState)
      BY <2>1
    <3>3. QED
      BY <1>2, <3>1, <3>2, Zenon
  <2>2. CASE ~IsCorrupted(indexState) /\ IsCorrupted(indexState') /\ pc'[t] \in IndexPC
    <3>1. \A u \in Thread \ {t} : pc'[u] \notin IndexPC
      BY <1>1, <1>2, <2>2
    <3>2. QED
      BY <2>2, <3>1
  <2>3. CASE ~IsCorrupted(indexState') /\ pc[t] \in IndexPC /\ pc'[t] \notin IndexPC
    <3>1. \A u \in Thread : pc'[u] \notin IndexPC
      BY <1>1, <1>2, <2>3
    <3>2. QED
      BY <2>3, <3>1
  <2>4. CASE ~IsCorrupted(indexState) /\ ~IsCorrupted(indexState') /\ pc'[t] \notin IndexPC
    <3>1. \A u \in Thread : pc'[u] \notin IndexPC
      BY <1>1, <1>2, <2>4
    <3>2. QED
      BY <2>4, <3>1
  <2>5. QED
    BY <2>1, <2>2, <2>3, <2>4 DEF LockStep
<1>4. /\ \A u \in Thread : pc'[u] = "appending" <=> u \in dataLock'
      /\ \A u, w \in Thread : u \in dataLock' /\ w \in dataLock' => u = w
  <2>1. CASE dataLock' = dataLock /\ (pc'[t] = "appending" <=> pc[t] = "appending")
    <3>1. \A u \in Thread : pc'[u] = "appending" <=> pc[u] = "appending"
      BY <1>1, <2>1
    <3>2. QED
      BY <1>2, <2>1, <3>1
  <2>2. CASE dataLock = {} /\ dataLock' = {t} /\ pc'[t] = "appending"
    <3>1. \A u \in Thread \ {t} : pc'[u] # "appending"
      BY <1>1, <1>2, <2>2
    <3>2. QED
      BY <2>2, <3>1
  <2>3. CASE dataLock' = {} /\ pc[t] = "appending" /\ pc'[t] # "appending"
    <3>1. \A u \in Thread : pc'[u] # "appending"
      BY <1>1, <1>2, <2>3
    <3>2. QED
      BY <2>3, <3>1
  <2>4. QED
    BY <2>1, <2>2, <2>3 DEF LockStep
<1>5. ASSUME NEW i \in DOMAIN log', log'[i].composed, IsCorrupted(log'[i].state)
      PROVE  \E u \in Thread : Held(u)' /\ ctx'[u].existing = i
  <2>1. CASE Held(t)' /\ ctx'[t].existing = i
    BY <2>1
  <2>2. CASE i \in DOMAIN log /\ log'[i] = log[i] /\ ~(Held(t) /\ ctx[t].existing = i)
    <3>1. log[i].composed /\ IsCorrupted(log[i].state)
      BY <1>5, <2>2
    <3>2. PICK u \in Thread : Held(u) /\ ctx[u].existing = i
      BY <1>2, <2>2, <3>1
    <3>3. u \in Thread \ {t}
      BY <2>2, <3>2
    <3>4. QED
      BY <1>1, <3>2, <3>3
  <2>3. QED
    BY <1>5, <2>1, <2>2 DEF RecordStep
<1>6. QED
  BY <1>3, <1>4, <1>5 DEF LocksInv

\* There is still room for what is going on.
LEMMA RoomStays ==
    ASSUME IInv, TypeInv', NEW t \in Thread, Frame(t), LogStep(t), IndexStep(t), RoomStep(t)
    PROVE  RoomInv'
<1>1. \A u \in Thread \ {t} : pc'[u] = pc[u] /\ ctx'[u] = ctx[u] /\ call'[u] = call[u]
  BY DEF Frame
<1>2. \A u \in Thread \ {t} : Inserts(u)' => Inserts(u)
  <2> TAKE u \in Thread \ {t}
  <2>1. Fresh(u)' => Fresh(u)
    BY OtherThread
  <2>2. QED
    BY <1>1, <2>1 DEF Inserts
<1>3. /\ dataEnd \in Int /\ indexBegin \in Int /\ indexBegin' \in Int
      /\ \A u \in Thread : PhysicalSize(call'[u].size) \in Nat /\ PhysicalSize(call[u].size) \in Nat
  <2>1. \A u \in Thread : call[u] \in Calls \cup {NoCall} /\ call'[u] \in Calls \cup {NoCall}
    BY DEF IInv, TypeInv
  <2>2. \A u \in Thread : call[u].size \in Nat /\ call'[u].size \in Nat
    BY <2>1, CallsAre
  <2>3. dataEnd \in Int /\ indexBegin \in Int /\ indexBegin' \in Int
    BY Domains, DomainsNext DEF IInv, TypeInv
  <2>4. \A n \in Nat : PhysicalSize(n) \in Nat
    BY DEF PhysicalSize
  <2>5. QED
    BY ONLY <2>2, <2>3, <2>4
<1>4. /\ dataEnd' <= indexBegin'
      /\ \A u \in Thread : pc'[u] # "assertIndexBegin"
      /\ \A u \in Thread : pc'[u] = "inserting" => dataEnd' < indexBegin'
  BY <1>1, <1>3 DEF IInv, RoomInv, RoomStep
<1>5. ASSUME NEW u \in Thread, pc'[u] = "appending"
      PROVE  /\ dataEnd' + PhysicalSize(call'[u].size) <= indexBegin'
             /\ \A w \in Thread : Inserts(w)' =>
                    dataEnd' + PhysicalSize(call'[u].size) + Scale <= indexBegin'
  <2>1. CASE u = t
    BY <1>3, <1>5, <2>1 DEF RoomStep, Scale
  <2>2. CASE u # t
    <3>1. pc[u] = "appending" /\ call'[u] = call[u] /\ dataEnd' = dataEnd /\ indexBegin <= indexBegin'
      BY <1>1, <1>5, <2>2 DEF RoomStep
    <3>2. dataEnd + PhysicalSize(call[u].size) <= indexBegin
      BY <3>1 DEF IInv, RoomInv
    <3>3. dataLock # {}
      BY <3>1 DEF IInv, LocksInv
    <3>4. \A w \in Thread : Inserts(w)' => Inserts(w)
      BY <1>2, <3>3 DEF RoomStep
    <3>5. ASSUME NEW w \in Thread, Inserts(w)'
          PROVE  dataEnd + PhysicalSize(call[u].size) + Scale <= indexBegin
      BY <3>1, <3>4, <3>5 DEF IInv, RoomInv
    <3>6. QED
      BY <1>3, <3>1, <3>2, <3>5 DEF Scale
  <2>3. QED
    BY <2>1, <2>2
<1>6. QED
  BY <1>4, <1>5 DEF RoomInv

\* The whole invariant, from what t does.
LEMMA Keeps ==
    ASSUME IInv, TypeInv', NEW t \in Thread, Frame(t), LogStep(t), IndexStep(t), ChoiceStep(t),
           LockStep(t), RecordStep(t), ThreadInv(t)', RoomInv'
    PROVE  IInv'
<1>1. \A u \in Thread : ThreadInv(u)'
  BY OtherThread
<1>2. QED
  BY <1>1, ApartStays, SlotsStay, LocksStay DEF IInv

-----------------------------------------------------------------------------
(* The pieces that the steps are put together from.                        *)

\* t moves to another place, with another context.
LEMMA TypeStep ==
    ASSUME IInv, NEW t \in Thread, NEW label \in PCs, NEW new \in Context,
           NEW c \in Calls \cup {NoCall},
           pc' = [pc EXCEPT ![t] = label], ctx' = [ctx EXCEPT ![t] = new],
           call' = [call EXCEPT ![t] = c],
           log' \in Seq(LogRecord), dataEnd' \in Nat, dataLock' \subseteq Thread,
           index' \in Seq(Nat), indexEnd' \in Nat, indexState' \in Nat,
           wasted' \in Int, calls' \in Nat, overtaken' \in BOOLEAN
    PROVE  TypeInv' /\ Frame(t) /\ pc'[t] = label /\ ctx'[t] = new /\ call'[t] = c
<1>1. /\ pc \in [Thread -> PCs] /\ call \in [Thread -> Calls \cup {NoCall}]
      /\ ctx \in [Thread -> Context]
  BY DEF IInv, TypeInv
<1>2. /\ pc' \in [Thread -> PCs] /\ call' \in [Thread -> Calls \cup {NoCall}]
      /\ ctx' \in [Thread -> Context]
  BY <1>1
<1>3. Frame(t) /\ pc'[t] = label /\ ctx'[t] = new /\ call'[t] = c
  BY <1>1 DEF Frame
<1>4. QED
  BY <1>2, <1>3 DEF TypeInv

\* The records are left alone.
LEMMA SameLog ==
    ASSUME IInv, NEW t \in Thread, UNCHANGED log,
           Held(t) => Held(t)' /\ ctx'[t].existing = ctx[t].existing
    PROVE  LogStep(t) /\ RecordStep(t)
<1>1. Len(log) \in Nat /\ \A i \in DOMAIN log : log[i].size <= log[i].capacity
  BY Domains DEF IInv, SlotsInv
<1>2. LogStep(t)
  BY <1>1 DEF LogStep
<1>3. RecordStep(t)
  BY DEF RecordStep
<1>4. QED
  BY <1>2, <1>3

\* One record changes, which t holds or locks, or has not yet shown to anybody.
LEMMA OneRecord ==
    ASSUME IInv, NEW t \in Thread, NEW e \in DOMAIN log, NEW r \in LogRecord,
           log' = [log EXCEPT ![e] = r],
           \/ e = ctx[t].existing /\ (Held(t) \/ ~IsCorrupted(log[e].state))
           \/ e = ctx[t].composing /\ Private(t) /\ ~Held(t),
           r.key = log[e].key, r.capacity = log[e].capacity, log[e].composed => r.composed,
           r.size <= r.capacity,
           r.composed /\ IsCorrupted(r.state) => Held(t)' /\ ctx'[t].existing = e
    PROVE  /\ LogStep(t) /\ RecordStep(t) /\ log' \in Seq(LogRecord) /\ Len(log') = Len(log)
           /\ DOMAIN log' = DOMAIN log /\ log'[e] = r
           /\ \A i \in DOMAIN log : i # e => log'[i] = log[i]
<1>1. log \in Seq(LogRecord) /\ Len(log) \in Nat
      /\ \A i \in DOMAIN log : log[i].size <= log[i].capacity
  BY Domains DEF IInv, SlotsInv, TypeInv
<1>2. /\ log' \in Seq(LogRecord) /\ Len(log') = Len(log) /\ DOMAIN log' = DOMAIN log
      /\ log'[e] = r /\ \A i \in DOMAIN log : i # e => log'[i] = log[i]
  BY <1>1, ExceptSeq
<1>3. LogStep(t)
  BY <1>1, <1>2 DEF LogStep
<1>4. Held(t) => ctx[t].existing = e
  OBVIOUS
<1>5. RecordStep(t)
  BY <1>2, <1>4 DEF RecordStep
<1>6. QED
  BY <1>2, <1>3, <1>5

\* A step that takes nothing, gives nothing back and touches neither the index
\* nor the end of the data.
Quiet(t) ==
    /\ UNCHANGED <<dataEnd, dataLock, index, indexEnd, indexState>>
    /\ pc[t] \notin {"inserting", "modifying", "appending"}
    /\ pc'[t] \notin {"inserting", "modifying", "appending", "assertIndexBegin"}
    /\ Inserts(t)' => Inserts(t) \/ dataLock = {}

LEMMA QuietKeeps ==
    ASSUME IInv, TypeInv', NEW t \in Thread, Frame(t), Quiet(t), LogStep(t), ChoiceStep(t),
           RecordStep(t), ThreadInv(t)'
    PROVE  IInv'
<1>1. /\ Len(index) \in Nat /\ LastStable \in Nat /\ indexBegin \in Int
      /\ DOMAIN index = 1 .. Len(index) /\ indexEnd <= MaxEnd
  BY Domains DEF IInv, SlotsInv
<1>2. LastStable' = LastStable /\ indexBegin' = indexBegin
  BY DEF Quiet, LastStable, indexBegin
<1>3. IndexStep(t)
  BY <1>1, <1>2 DEF Quiet, IndexStep, Range
<1>4. LockStep(t)
  BY DEF Quiet, LockStep, IndexPC
<1>5. RoomStep(t)
  BY <1>1, <1>2 DEF Quiet, RoomStep
<1>6. RoomInv'
  BY <1>3, <1>5, RoomStays
<1>7. QED
  BY <1>3, <1>4, <1>6, Keeps

\* A call that starts over or ends keeps what it has found and appended.
LEMMA Leaves ==
    ASSUME IInv, TypeInv', NEW t \in Thread, pc[t] # "idle",
           pc'[t] \in {"search", "return", "assertDeleted"}, call'[t] = call[t],
           ctx'[t].existing = ctx[t].existing, ctx'[t].composing = ctx[t].composing,
           ctx'[t].version = ctx[t].version, ctx'[t].indexState = ctx[t].indexState,
           Private(t)' => /\ Private(t) /\ log'[ctx[t].composing] = log[ctx[t].composing]
                          /\ index' = index,
           Len(log) <= Len(log'), LastStable <= LastStable'
    PROVE  ThreadInv(t)' /\ ChoiceStep(t) /\ ~Inserts(t)' /\ ~Held(t)'
<1>1. /\ ThreadInv(t) /\ Len(log) \in Nat /\ Len(log') \in Nat
      /\ LastStable \in Nat /\ LastStable' \in Nat
      /\ ctx[t].existing \in Nat /\ ctx[t].composing \in Nat /\ ctx[t].indexState \in Nat
  BY Domains, DomainsNext, ThreadTypes DEF IInv
<1>2. /\ pc'[t] \notin SetPC \cup FoundPC \cup NewPC \cup IndexPC \cup SearchedPC
      /\ pc'[t] \notin {"idle", "insert", "inserting", "modify", "modifying", "lockReplace",
                        "appending", "setValue", "unlockReplaced"}
  BY DEF SetPC, FoundPC, NewPC, IndexPC, SearchedPC
<1>3. ~Held(t)' /\ ~Fresh(t)' /\ ~Inserts(t)'
  BY <1>2 DEF Held, Fresh, Inserts
<1>4. call'[t] \in Calls
  BY <1>1 DEF ThreadInv
<1>5. /\ ctx'[t].existing \in 0 .. Len(log') /\ ctx'[t].composing \in 0 .. Len(log')
      /\ ~IsCorrupted(ctx'[t].version) /\ ctx'[t].indexState <= LastStable'
  BY <1>1 DEF ThreadInv
<1>6. Private(t)' => /\ ctx'[t].composing \notin Range(index')
                     /\ LET r == log'[ctx'[t].composing]
                        IN /\ r.key = call'[t].key
                           /\ r.size = call'[t].size /\ r.capacity = call'[t].size
                           /\ ~r.deleted
                           /\ r.composed => ~IsCorrupted(r.state)
  BY <1>1 DEF ThreadInv
<1>7. ThreadInv(t)'
  BY <1>2, <1>3, <1>4, <1>5, <1>6 DEF ThreadInv
<1>8. ChoiceStep(t)
  BY <1>3 DEF ChoiceStep
<1>9. QED
  BY <1>3, <1>7, <1>8

-----------------------------------------------------------------------------
(* The steps that are quiet.                                               *)

\* What does not change has its type.
LEMMA Types ==
    ASSUME IInv
    PROVE  /\ log \in Seq(LogRecord) /\ dataEnd \in Nat /\ dataLock \subseteq Thread
           /\ index \in Seq(Nat) /\ indexEnd \in Nat /\ indexState \in Nat
           /\ wasted \in Int /\ calls \in Nat
           /\ ctx \in [Thread -> Context] /\ call \in [Thread -> Calls \cup {NoCall}]
           /\ pc \in [Thread -> PCs]
BY DEF IInv, TypeInv

\* A context with another error, or another one of its other fields.
LEMMA WithError ==
    ASSUME NEW c \in Context, NEW error \in Errors
    PROVE  LET new == [c EXCEPT !.error = error]
           IN /\ new \in Context /\ new.error = error
              /\ \A f \in DOMAIN c \ {"error"} : new[f] = c[f]
              /\ new.existing = c.existing /\ new.composing = c.composing
              /\ new.version = c.version /\ new.indexState = c.indexState
              /\ new.found = c.found /\ new.order = c.order /\ new.deleted = c.deleted
              /\ new.left = c.left
BY DEF Context

LEMMA CallKeeps ==
    ASSUME IInv, NEW t \in Thread, Call(t), overtaken' \in BOOLEAN
    PROVE  IInv'
<1>1. PICK c \in Calls : call' = [call EXCEPT ![t] = c]
  BY DEF Call
<1>2. /\ pc[t] = "idle" /\ pc' = [pc EXCEPT ![t] = "search"] /\ calls' = calls + 1
      /\ UNCHANGED <<log, dataEnd, dataLock, index, indexEnd, indexState, wasted, ctx>>
  BY DEF Call, Goto, table
<1>3. ThreadInv(t) /\ ctx[t] = NewContext /\ ctx[t] \in Context
  BY <1>2, ThreadTypes DEF IInv, ThreadInv
<1>4. ctx' = [ctx EXCEPT ![t] = ctx[t]]
  BY <1>2, Types
<1>5. calls' \in Nat /\ "search" \in PCs /\ c \in Calls \cup {NoCall}
  BY <1>2, Types DEF PCs, Waiting
<1>6. TypeInv' /\ Frame(t) /\ pc'[t] = "search" /\ ctx'[t] = ctx[t] /\ call'[t] = c
  BY <1>1, <1>2, <1>3, <1>4, <1>5, Types, TypeStep
<1>7. /\ ~Held(t) /\ ~Held(t)' /\ ~Private(t)' /\ ~Inserts(t)' /\ ~Fresh(t)'
  BY <1>2, <1>3, <1>6 DEF Held, Private, NewContext, Inserts, Fresh, SearchedPC, NewPC
<1>8. LogStep(t) /\ RecordStep(t)
  BY <1>2, <1>7, SameLog
<1>9. ChoiceStep(t)
  BY <1>6, <1>7 DEF ChoiceStep
<1>10. Quiet(t)
  BY <1>2, <1>6, <1>7 DEF Quiet
<1>11. ThreadInv(t)'
  <2>1. LastStable' = LastStable
    BY <1>2 DEF LastStable
  <2>2. pc'[t] \notin SetPC \cup FoundPC \cup NewPC \cup IndexPC \cup SearchedPC
    BY <1>6 DEF SetPC, FoundPC, NewPC, IndexPC, SearchedPC
  <2>3. QED
    BY <1>2, <1>3, <1>6, <1>7, <2>1, <2>2 DEF ThreadInv
<1>12. QED
  BY <1>6, <1>8, <1>9, <1>10, <1>11, QuietKeeps

\* t moves on, and the table stays as it is.
LEMMA Moves ==
    ASSUME IInv, NEW t \in Thread, overtaken' \in BOOLEAN, NEW label \in PCs, NEW new \in Context,
           pc' = [pc EXCEPT ![t] = label], ctx' = [ctx EXCEPT ![t] = new],
           UNCHANGED <<dataEnd, dataLock, index, indexEnd, indexState, wasted, calls, call>>,
           log' \in Seq(LogRecord)
    PROVE  /\ TypeInv' /\ Frame(t) /\ pc'[t] = label /\ ctx'[t] = new /\ call'[t] = call[t]
           /\ LastStable' = LastStable /\ LastStable \in Nat
<1>1. call' = [call EXCEPT ![t] = call[t]] /\ call[t] \in Calls \cup {NoCall}
  BY Types
<1>2. /\ dataEnd' \in Nat /\ dataLock' \subseteq Thread /\ index' \in Seq(Nat)
      /\ indexEnd' \in Nat /\ indexState' \in Nat /\ wasted' \in Int /\ calls' \in Nat
  BY Types
<1>3. TypeInv' /\ Frame(t) /\ pc'[t] = label /\ ctx'[t] = new /\ call'[t] = call[t]
  BY <1>1, <1>2, TypeStep
<1>4. LastStable' = LastStable /\ LastStable \in Nat
  BY Domains DEF IInv, LastStable
<1>5. QED
  BY <1>3, <1>4

\* The call ends or starts over.
LEMMA LeaveKeeps ==
    ASSUME IInv, NEW t \in Thread, overtaken' \in BOOLEAN,
           NEW label \in {"search", "return", "assertDeleted"}, NEW new \in Context,
           new.existing = ctx[t].existing, new.composing = ctx[t].composing,
           new.version = ctx[t].version, new.indexState = ctx[t].indexState,
           pc' = [pc EXCEPT ![t] = label], ctx' = [ctx EXCEPT ![t] = new],
           pc[t] \notin {"idle", "inserting", "modifying", "appending", "return"},
           pc[t] = "unlockReplaced" => label = "return",
           UNCHANGED <<dataEnd, dataLock, index, indexEnd, indexState, wasted, calls, call>>,
           log' \in Seq(LogRecord), LogStep(t), RecordStep(t),
           Private(t) => log'[ctx[t].composing] = log[ctx[t].composing]
    PROVE  IInv'
<1>1. label \in PCs
  BY DEF PCs, Waiting
<1>2. /\ TypeInv' /\ Frame(t) /\ pc'[t] = label /\ ctx'[t] = new /\ call'[t] = call[t]
      /\ LastStable' = LastStable /\ LastStable \in Nat
  BY <1>1, Moves
<1>3. Private(t)' => Private(t)
  BY <1>2 DEF Private
<1>4. LastStable <= LastStable' /\ Len(log) <= Len(log') /\ index' = index
  BY <1>2 DEF LogStep
<1>5. pc[t] # "idle" /\ pc'[t] \in {"search", "return", "assertDeleted"}
  BY <1>2
<1>6. ThreadInv(t)' /\ ChoiceStep(t) /\ ~Inserts(t)'
  BY <1>2, <1>3, <1>4, <1>5, Leaves
<1>7. Quiet(t)
  BY <1>2, <1>6 DEF Quiet
<1>8. QED
  BY <1>2, <1>6, <1>7, QuietKeeps

\* The call ends with an error.
LEMMA FailKeeps ==
    ASSUME IInv, NEW t \in Thread, overtaken' \in BOOLEAN, NEW error \in Errors, Fail(t, error),
           pc[t] \notin {"idle", "inserting", "modifying", "appending", "return"},
           UNCHANGED <<dataEnd, dataLock, index, indexEnd, indexState, wasted, calls, call>>,
           log' \in Seq(LogRecord), LogStep(t), RecordStep(t),
           Private(t) => log'[ctx[t].composing] = log[ctx[t].composing]
    PROVE  IInv'
<1> DEFINE new == [ctx[t] EXCEPT !.error = error]
<1>1. /\ new \in Context
      /\ new.existing = ctx[t].existing /\ new.composing = ctx[t].composing
      /\ new.version = ctx[t].version /\ new.indexState = ctx[t].indexState
  BY Types, WithError
<1>2. pc' = [pc EXCEPT ![t] = "return"] /\ ctx' = [ctx EXCEPT ![t] = new]
  BY DEF Fail, Goto
<1> HIDE DEF new
<1>3. QED
  BY <1>1, <1>2, LeaveKeeps

\* The call starts over, or stops at the assertion.
LEMMA RestartKeeps ==
    ASSUME IInv, NEW t \in Thread, overtaken' \in BOOLEAN,
           NEW label \in {"search", "assertDeleted"}, Goto(t, label),
           pc[t] \notin {"idle", "inserting", "modifying", "appending", "unlockReplaced", "return"},
           UNCHANGED <<dataEnd, dataLock, index, indexEnd, indexState, wasted, calls, call, ctx>>,
           log' \in Seq(LogRecord), LogStep(t), RecordStep(t),
           Private(t) => log'[ctx[t].composing] = log[ctx[t].composing]
    PROVE  IInv'
<1>1. ctx[t] \in Context /\ ctx' = [ctx EXCEPT ![t] = ctx[t]]
  BY Types
<1>2. pc' = [pc EXCEPT ![t] = label]
  BY DEF Goto
<1>3. QED
  BY <1>1, <1>2, LeaveKeeps

\* What the binary search says of the slots.
LEMMA SearchAnswers ==
    ASSUME IInv, NEW key \in Nat
    PROVE  LET candidate == Search(key)
           IN /\ candidate.found \in BOOLEAN /\ candidate.order \in 0 .. Len(index)
              /\ candidate.found => /\ candidate.order < Len(index)
                                    /\ KeyAt(candidate.order + 1) = key
              /\ ~candidate.found /\ IndexSorted =>
                    \A i \in DOMAIN index : IF i <= candidate.order THEN KeyAt(i) < key
                                            ELSE key < KeyAt(i)
<1> DEFINE keys == [i \in DOMAIN index |-> log[index[i]].key]
           candidate == SearchKeys(keys, key)
<1>1. /\ Len(index) \in Nat /\ DOMAIN index = 1 .. Len(index)
      /\ \A i \in DOMAIN index : index[i] \in DOMAIN log
  BY Domains DEF IInv, SlotsInv
<1>2. \A i \in DOMAIN index : KeyAt(i) \in Nat
  BY <1>1, RecordTypes DEF IInv, KeyAt
<1>3. Len(keys) = Len(index) /\ \A i \in 1 .. Len(index) : keys[i] = KeyAt(i)
  BY <1>1, LenProperties DEF KeyAt
<1> HIDE DEF keys
<1>4. Answers(keys, key, 0, Len(keys), candidate)
  BY <1>1, <1>2, <1>3, SearchIsRight
<1>5. Search(key) = candidate
  BY DEF Search, keys
<1> HIDE DEF candidate
<1>6. IndexSorted => Sorted(keys)
  BY <1>1, <1>3 DEF IndexSorted, Sorted, KeyAt
<1>7. /\ candidate.found \in BOOLEAN /\ candidate.order \in 0 .. Len(index)
      /\ candidate.found => /\ candidate.order < Len(index)
                            /\ keys[candidate.order + 1] = key
  BY <1>3, <1>4 DEF Answers
<1>8. candidate.found => KeyAt(candidate.order + 1) = key
  BY <1>1, <1>3, <1>7
<1>9. ASSUME ~candidate.found, IndexSorted, NEW i \in DOMAIN index
      PROVE  IF i <= candidate.order THEN KeyAt(i) < key ELSE key < KeyAt(i)
  <2>1. /\ \A j \in 1 .. candidate.order : keys[j] < key
        /\ \A j \in (candidate.order + 1) .. Len(index) : key < keys[j]
    BY <1>3, <1>4, <1>6, <1>9 DEF Answers
  <2>2. i \in 1 .. Len(index) /\ candidate.order \in Int /\ keys[i] = KeyAt(i)
    BY <1>1, <1>3, <1>7, <1>9
  <2>3. CASE i <= candidate.order
    BY <2>1, <2>2, <2>3
  <2>4. CASE ~(i <= candidate.order)
    <3>1. i \in (candidate.order + 1) .. Len(index)
      BY <2>2, <2>4
    <3>2. QED
      BY <2>1, <2>2, <2>4, <3>1
  <2>5. QED
    BY <2>3, <2>4
<1>10. QED
  BY <1>5, <1>7, <1>8, <1>9

LEMMA SearchIndexKeeps ==
    ASSUME IInv, NEW t \in Thread, SearchIndex(t), overtaken' \in BOOLEAN
    PROVE  IInv'
<1>1. PICK c : c = Search(call[t].key)
  OBVIOUS
<1> DEFINE label == IF c.found THEN "readRecord" ELSE AfterMiss(t)
           existing == IF c.found THEN index[c.order + 1] ELSE 0
           error == IF call[t].op = "Get" /\ ~c.found THEN "notFound" ELSE "none"
           new == [ctx[t] EXCEPT !.indexState = indexState, !.found = c.found, !.order = c.order,
                                 !.existing = existing, !.error = error]
<1>2. /\ pc[t] = "search" /\ ~IsCorrupted(indexState)
      /\ pc' = [pc EXCEPT ![t] = label]
      /\ UNCHANGED <<log, dataEnd, dataLock, index, indexEnd, indexState, wasted, calls, call>>
  BY <1>1 DEF SearchIndex, Goto, table
<1>3. ctx' = [ctx EXCEPT ![t] = new]
  BY <1>1 DEF SearchIndex
<1>4. ThreadInv(t) /\ call[t] \in Calls /\ call[t].key \in Nat
  BY <1>2, ThreadTypes, CallsAre DEF IInv, ThreadInv
<1>5. /\ c.found \in BOOLEAN /\ c.order \in 0 .. Len(index)
      /\ c.found => c.order < Len(index) /\ KeyAt(c.order + 1) = call[t].key
  BY <1>1, <1>4, SearchAnswers
<1>6. /\ Len(index) \in Nat /\ DOMAIN index = 1 .. Len(index)
      /\ Len(log) \in Nat /\ DOMAIN log = 1 .. Len(log)
      /\ \A i \in DOMAIN index : index[i] \in DOMAIN log /\ log[index[i]].composed
      /\ indexState \in Nat
  BY Domains DEF IInv, SlotsInv, TypeInv
<1>7. c.found => c.order + 1 \in DOMAIN index
  BY <1>5, <1>6
<1>8. /\ existing \in 0 .. Len(log) /\ existing \in Range(index) \cup {0}
      /\ c.found => /\ existing \in DOMAIN log /\ log[existing].composed
                    /\ log[existing].key = call[t].key
  <2>1. CASE c.found
    BY <1>5, <1>6, <1>7, <2>1 DEF Range, KeyAt
  <2>2. CASE ~c.found
    BY <1>6, <2>2
  <2>3. QED
    BY <2>1, <2>2
<1>9. error \in Errors /\ c.order \in Nat
  BY <1>5, <1>6 DEF Errors
<1>10. /\ label \in {"readRecord", "append", "return"}
       /\ c.found <=> label = "readRecord"
       /\ label = "append" => call[t].op = "Set"
  BY DEF AfterMiss
<1> HIDE DEF label, existing, error
<1>11. /\ new \in Context /\ new.indexState = indexState /\ new.found = c.found
       /\ new.order = c.order /\ new.existing = existing
       /\ new.composing = ctx[t].composing /\ new.version = ctx[t].version
  <2>1. ctx[t] \in Context /\ existing \in Nat
    BY <1>6, <1>8, Types
  <2>2. QED
    BY <1>5, <1>6, <1>9, <2>1 DEF Context
<1> HIDE DEF new
<1>12. /\ TypeInv' /\ Frame(t) /\ pc'[t] = label /\ ctx'[t] = new /\ call'[t] = call[t]
       /\ LastStable' = LastStable /\ LastStable \in Nat
  <2>1. label \in PCs
    BY <1>10 DEF PCs, Waiting
  <2>2. log' \in Seq(LogRecord)
    BY <1>2, Types
  <2>3. QED
    BY <1>2, <1>3, <1>11, <2>1, <2>2, Moves
<1>13. ~Held(t) /\ ~Held(t)' /\ (Private(t)' => Private(t)) /\ ~Inserts(t)'
  BY <1>2, <1>10, <1>11, <1>12 DEF Held, Private, Inserts, NewPC
<1>14. LogStep(t) /\ RecordStep(t)
  BY <1>2, <1>13, SameLog
<1>15. ChoiceStep(t)
  BY <1>8, <1>11, <1>12, <1>13 DEF ChoiceStep
<1>16. Quiet(t)
  BY <1>2, <1>10, <1>12, <1>13 DEF Quiet
<1>17. ThreadInv(t)'
  <2>1. LastStable = indexState
    BY <1>2 DEF LastStable
  <2>2. /\ pc'[t] \notin NewPC \cup IndexPC
        /\ pc'[t] \in FoundPC => c.found
        /\ pc'[t] \in SetPC => call[t].op = "Set"
        /\ pc'[t] \notin {"idle", "lockReplace", "modify", "modifying", "appending", "insert",
                          "inserting", "setValue"}
    BY <1>10, <1>12 DEF NewPC, IndexPC, FoundPC, SetPC
  <2>3. /\ ctx[t].composing \in 0 .. Len(log) /\ ~IsCorrupted(ctx[t].version)
        /\ Private(t)' => /\ ctx[t].composing \notin Range(index)
                          /\ log[ctx[t].composing].key = call[t].key
                          /\ log[ctx[t].composing].size = call[t].size
                          /\ log[ctx[t].composing].capacity = call[t].size
                          /\ ~log[ctx[t].composing].deleted
                          /\ log[ctx[t].composing].composed => ~IsCorrupted(log[ctx[t].composing].state)
    BY <1>4, <1>13 DEF ThreadInv
  <2>4. c.order <= Len(index) /\ indexState <= indexState
    BY <1>5, <1>6
  <2>5. QED
    BY <1>2, <1>4, <1>5, <1>8, <1>11, <1>12, <1>13, <2>1, <2>2, <2>3, <2>4 DEF ThreadInv
<1>18. QED
  BY <1>12, <1>14, <1>15, <1>16, <1>17, QuietKeeps

\* A call that goes on with what its search has found, and no record changed.
LEMMA Continues ==
    ASSUME IInv, TypeInv', NEW t \in Thread, Frame(t), pc[t] \in SearchedPC,
           pc[t] \notin IndexPC, ~Held(t), ~Held(t)',
           pc'[t] \notin IndexPC \cup {"idle", "unlockReplaced", "modify"},
           UNCHANGED <<log, index, indexEnd, indexState>>, call'[t] = call[t],
           ctx'[t].existing = ctx[t].existing, ctx'[t].composing = ctx[t].composing,
           ctx'[t].indexState = ctx[t].indexState, ctx'[t].found = ctx[t].found,
           ctx'[t].order = ctx[t].order, ~IsCorrupted(ctx'[t].version),
           pc'[t] \in SetPC => call[t].op = "Set",
           pc'[t] \in FoundPC => ctx[t].found, pc'[t] \in NewPC => ~ctx[t].found,
           pc'[t] \in NewPC \cup {"lockReplace"} => ctx[t].composing # 0,
           pc'[t] = "insert" => log[ctx[t].composing].composed,
           pc'[t] = "appending" => ctx[t].composing = 0,
           pc'[t] = "setValue" => call[t].size <= log[ctx[t].existing].capacity
    PROVE  /\ ThreadInv(t)' /\ ChoiceStep(t) /\ LogStep(t) /\ RecordStep(t)
           /\ LastStable' = LastStable
<1>1. ThreadInv(t) /\ LastStable' = LastStable
  BY DEF IInv, LastStable
<1>2. pc[t] \notin {"unlockReplaced", "idle", "return"}
  BY DEF SearchedPC, NewPC
<1>3. (Private(t)' => Private(t)) /\ (Fresh(t)' => Fresh(t))
  BY <1>1, <1>2 DEF Private, Fresh
<1>4. ChoiceStep(t) /\ LogStep(t) /\ RecordStep(t)
  <2>1. ChoiceStep(t)
    BY <1>3 DEF ChoiceStep
  <2>2. QED
    BY <2>1, SameLog
<1>5. call[t] \in Calls
  BY <1>1, <1>2 DEF ThreadInv
<1>6. ctx[t].found =>
        /\ ctx[t].existing \in DOMAIN log
        /\ log[ctx[t].existing].composed
        /\ log[ctx[t].existing].key = call[t].key
  BY <1>1 DEF ThreadInv
<1>7. Private(t)' => /\ ctx[t].composing \notin Range(index)
                     /\ log[ctx[t].composing].key = call[t].key
                     /\ log[ctx[t].composing].size = call[t].size
                     /\ log[ctx[t].composing].capacity = call[t].size
                     /\ ~log[ctx[t].composing].deleted
                     /\ log[ctx[t].composing].composed => ~IsCorrupted(log[ctx[t].composing].state)
  BY <1>1, <1>3 DEF ThreadInv
<1>8. Fresh(t)' => /\ ctx[t].order <= Len(index)
                   /\ ctx[t].found => ctx[t].order < Len(index)
  BY <1>1, <1>3 DEF ThreadInv
<1>9. /\ ctx[t].existing \in 0 .. Len(log) /\ ctx[t].composing \in 0 .. Len(log)
      /\ ctx[t].indexState <= LastStable
  BY <1>1 DEF ThreadInv
<1>10. pc'[t] \notin {"inserting", "modifying", "idle", "modify"}
  BY DEF IndexPC
<1>11. ThreadInv(t)'
  BY <1>1, <1>5, <1>6, <1>7, <1>8, <1>9, <1>10 DEF ThreadInv
<1>12. QED
  BY <1>1, <1>4, <1>11

LEMMA ReadRecordKeeps ==
    ASSUME IInv, NEW t \in Thread, ReadRecord(t), overtaken' \in BOOLEAN
    PROVE  IInv'
<1> DEFINE new == [ctx[t] EXCEPT !.version = Existing(t).state, !.deleted = Existing(t).deleted]
<1>1. /\ pc[t] = "readRecord" /\ ~IsCorrupted(Existing(t).state)
      /\ pc' = [pc EXCEPT ![t] = "verify"] /\ ctx' = [ctx EXCEPT ![t] = new]
      /\ UNCHANGED <<log, dataEnd, dataLock, index, indexEnd, indexState, wasted, calls, call>>
  BY DEF ReadRecord, Goto, table
<1>2. ThreadInv(t) /\ TypeInv
  BY DEF IInv
<1>3. ctx[t].found /\ ctx[t].existing \in DOMAIN log
  BY <1>1, <1>2 DEF ThreadInv, FoundPC, SearchedPC
<1>4. Existing(t).state \in Nat /\ Existing(t).deleted \in BOOLEAN
  BY <1>2, <1>3, RecordTypes DEF Existing
<1>5. /\ new \in Context /\ new.existing = ctx[t].existing /\ new.composing = ctx[t].composing
      /\ new.indexState = ctx[t].indexState /\ new.found = ctx[t].found
      /\ new.order = ctx[t].order /\ new.version = Existing(t).state
  <2>1. ctx[t] \in Context
    BY Types
  <2>2. QED
    BY <1>4, <2>1 DEF Context
<1> HIDE DEF new
<1>6. /\ TypeInv' /\ Frame(t) /\ pc'[t] = "verify" /\ ctx'[t] = new /\ call'[t] = call[t]
  <2>1. "verify" \in PCs /\ log' \in Seq(LogRecord)
    BY <1>1, Types DEF PCs
  <2>2. QED
    BY <1>1, <1>5, <2>1, Moves
<1>7. /\ pc[t] \in SearchedPC /\ pc[t] \notin IndexPC /\ ~Held(t) /\ ~Held(t)' /\ ~Inserts(t)'
      /\ pc'[t] \notin IndexPC \cup SetPC \cup NewPC
      /\ pc'[t] \notin {"idle", "unlockReplaced", "modify", "lockReplace", "insert", "appending",
                        "setValue"}
  BY <1>1, <1>6 DEF SearchedPC, IndexPC, Held, Inserts, SetPC, NewPC
<1>8. ThreadInv(t)' /\ ChoiceStep(t) /\ LogStep(t) /\ RecordStep(t)
  BY <1>1, <1>3, <1>5, <1>6, <1>7, Continues
<1>9. Quiet(t)
  BY <1>1, <1>6, <1>7 DEF Quiet
<1>10. QED
  BY <1>6, <1>8, <1>9, QuietKeeps

\* Nothing but the context changes in a call that holds nothing.
LEMMA Unheld ==
    ASSUME IInv, NEW t \in Thread, UNCHANGED log, ~Held(t)
    PROVE  /\ LogStep(t) /\ RecordStep(t) /\ log' \in Seq(LogRecord)
           /\ Private(t) => log'[ctx[t].composing] = log[ctx[t].composing]
BY SameLog, Types

LEMMA VerifySearchKeeps ==
    ASSUME IInv, NEW t \in Thread, VerifySearch(t), overtaken' \in BOOLEAN
    PROVE  IInv'
<1>1. /\ pc[t] = "verify"
      /\ UNCHANGED <<log, dataEnd, dataLock, index, indexEnd, indexState, wasted, calls, call>>
  BY DEF VerifySearch, table
<1>2. ~Held(t) /\ pc[t] \notin IndexPC /\ pc[t] \in SearchedPC
  BY <1>1 DEF Held, IndexPC, SearchedPC
<1>3. /\ LogStep(t) /\ RecordStep(t) /\ log' \in Seq(LogRecord)
      /\ Private(t) => log'[ctx[t].composing] = log[ctx[t].composing]
  BY <1>1, <1>2, Unheld
<1>4. ThreadInv(t) /\ TypeInv /\ ctx[t] \in Context
  BY Types DEF IInv
<1>5. /\ ctx[t].found /\ ctx[t].existing \in DOMAIN log /\ call[t] \in Calls
      /\ ~IsCorrupted(ctx[t].version)
  BY <1>1, <1>4 DEF ThreadInv, FoundPC, SearchedPC
<1>6. CASE Goto(t, "search") /\ UNCHANGED ctx
  BY <1>1, <1>3, <1>6, RestartKeeps
<1>7. CASE Goto(t, "assertDeleted") /\ UNCHANGED ctx
  BY <1>1, <1>3, <1>7, RestartKeeps
<1>8. CASE Fail(t, "wrongVersion")
  <2>1. "wrongVersion" \in Errors
    BY DEF Errors
  <2>2. QED
    BY <1>1, <1>3, <1>8, <2>1, FailKeeps
<1>9. CASE Goto(t, FoundPath(t)) /\ ctx' = [ctx EXCEPT ![t].valueSize = Existing(t).size]
  <2> DEFINE new == [ctx[t] EXCEPT !.valueSize = Existing(t).size]
  <2>1. Existing(t).size \in Nat /\ Existing(t).capacity \in Nat /\ call[t].size \in Nat
    BY <1>4, <1>5, RecordTypes, CallsAre DEF Existing
  <2>2. PICK label : label = FoundPath(t)
    OBVIOUS
  <2>3. /\ label \in {"return", "lockDelete", "append", "setValue"}
        /\ label \in {"append", "setValue"} => call[t].op = "Set"
        /\ label = "setValue" => call[t].size <= log[ctx[t].existing].capacity
    <3>1. call[t].op \in {"Set", "Delete", "Get"}
      BY <1>5, CallsAre
    <3>2. CASE call[t].op = "Get"
      BY <2>2, <3>2 DEF FoundPath
    <3>3. CASE call[t].op = "Delete"
      BY <2>2, <3>3 DEF FoundPath
    <3>4. CASE call[t].op = "Set"
      BY <2>1, <2>2, <3>4 DEF FoundPath, Existing
    <3>5. QED
      BY <3>1, <3>2, <3>3, <3>4
  <2>4. pc' = [pc EXCEPT ![t] = label] /\ ctx' = [ctx EXCEPT ![t] = new]
    BY <1>9, <2>2 DEF Goto
  <2>5. /\ new \in Context /\ new.existing = ctx[t].existing /\ new.composing = ctx[t].composing
        /\ new.indexState = ctx[t].indexState /\ new.found = ctx[t].found
        /\ new.order = ctx[t].order /\ new.version = ctx[t].version
    BY <1>4, <2>1 DEF Context
  <2> HIDE DEF new
  <2>6. /\ TypeInv' /\ Frame(t) /\ pc'[t] = label /\ ctx'[t] = new /\ call'[t] = call[t]
    <3>1. label \in PCs
      BY <2>3 DEF PCs, Waiting
    <3>2. QED
      BY <1>1, <1>3, <2>4, <2>5, <3>1, Moves
  <2>7. /\ ~Held(t)' /\ ~Inserts(t)'
        /\ pc'[t] \notin IndexPC \cup NewPC
        /\ pc'[t] \notin {"idle", "unlockReplaced", "modify", "lockReplace", "insert", "appending"}
        /\ pc'[t] \in SetPC => call[t].op = "Set"
    BY <2>3, <2>6 DEF IndexPC, Held, Inserts, SetPC, NewPC
  <2>8. ThreadInv(t)' /\ ChoiceStep(t)
    BY <1>1, <1>2, <1>5, <2>3, <2>5, <2>6, <2>7, Continues
  <2>9. Quiet(t)
    BY <1>1, <2>3, <2>6, <2>7 DEF Quiet
  <2>10. QED
    BY <1>3, <2>6, <2>8, <2>9, QuietKeeps
<1>10. QED
  BY <1>6, <1>7, <1>8, <1>9 DEF VerifySearch

-----------------------------------------------------------------------------
(* The steps that append a record.                                         *)

\* The records that Set makes.
LEMMA RecordIs ==
    ASSUME NEW key \in Keys, NEW version \in Nat, NEW size \in Nat
    PROVE  /\ Record(key, version, size) \in LogRecord /\ Hole(key, size) \in LogRecord
           /\ Record(key, version, size).key = key /\ Hole(key, size).key = key
           /\ Record(key, version, size).state = version
           /\ Record(key, version, size).size = size /\ Hole(key, size).size = size
           /\ Record(key, version, size).capacity = size /\ Hole(key, size).capacity = size
           /\ Record(key, version, size).composed /\ ~Hole(key, size).composed
           /\ ~Record(key, version, size).deleted /\ ~Hole(key, size).deleted
BY DEF Record, Hole, LogRecord

\* The index is left alone.
LEMMA SameIndex ==
    ASSUME IInv, NEW t \in Thread, UNCHANGED <<index, indexEnd, indexState>>
    PROVE  /\ IndexStep(t) /\ LastStable' = LastStable /\ indexBegin' = indexBegin
           /\ LastStable \in Nat /\ indexBegin \in Int
<1>1. LastStable' = LastStable /\ indexBegin' = indexBegin
  BY DEF LastStable, indexBegin
<1>2. /\ LastStable \in Nat /\ indexBegin \in Int /\ indexEnd <= MaxEnd
      /\ Len(index) \in Nat /\ DOMAIN index = 1 .. Len(index)
  BY Domains DEF IInv, SlotsInv
<1>3. IndexStep(t)
  BY <1>1, <1>2 DEF IndexStep, Range
<1>4. QED
  BY <1>1, <1>2, <1>3

LEMMA BeginAppendKeeps ==
    ASSUME IInv, NEW t \in Thread, BeginAppend(t), overtaken' \in BOOLEAN
    PROVE  IInv'
<1>1. /\ pc[t] = "append" /\ dataLock = {}
      /\ UNCHANGED <<log, dataEnd, index, indexEnd, indexState, wasted, calls, call>>
  BY DEF BeginAppend
<1>2. /\ ~Held(t) /\ pc[t] \notin IndexPC /\ pc[t] \in SearchedPC /\ pc[t] \in SetPC
      /\ pc[t] \notin {"idle", "inserting", "modifying", "appending", "return"}
  BY <1>1 DEF Held, IndexPC, SearchedPC, SetPC
<1>3. /\ LogStep(t) /\ RecordStep(t) /\ log' \in Seq(LogRecord)
      /\ Private(t) => log'[ctx[t].composing] = log[ctx[t].composing]
  BY <1>1, <1>2, Unheld
<1>4. ThreadInv(t) /\ TypeInv /\ ctx[t] \in Context
  BY Types DEF IInv
<1>5. /\ call[t] \in Calls /\ call[t].op = "Set" /\ ~IsCorrupted(ctx[t].version)
  BY <1>2, <1>4 DEF ThreadInv
<1>6. CASE Fail(t, "notEnoughMemory") /\ UNCHANGED dataLock
  <2>1. "notEnoughMemory" \in Errors
    BY DEF Errors
  <2>2. QED
    BY <1>1, <1>2, <1>3, <1>6, <2>1, FailKeeps
<1>7. CASE ctx[t].composing # 0 /\ Goto(t, AfterAppend(t)) /\ UNCHANGED <<dataLock, ctx>>
  <2>1. PICK label : label = AfterAppend(t)
    OBVIOUS
  <2>2. /\ label \in {"lockReplace", "compose"}
        /\ label = "lockReplace" <=> ctx[t].found
    BY <2>1 DEF AfterAppend
  <2>3. pc' = [pc EXCEPT ![t] = label] /\ ctx' = [ctx EXCEPT ![t] = ctx[t]]
    BY <1>7, <2>1, Types DEF Goto
  <2>4. /\ TypeInv' /\ Frame(t) /\ pc'[t] = label /\ ctx'[t] = ctx[t] /\ call'[t] = call[t]
    <3>1. label \in PCs
      BY <2>2 DEF PCs, Waiting
    <3>2. QED
      BY <1>1, <1>3, <1>4, <1>7, <2>3, <3>1, Moves
  <2>5. /\ ~Held(t)' /\ pc'[t] \notin IndexPC
        /\ pc'[t] \notin {"idle", "unlockReplaced", "modify", "insert", "appending", "setValue"}
        /\ pc'[t] \in FoundPC => ctx[t].found
        /\ pc'[t] \in NewPC => ~ctx[t].found
    BY <2>2, <2>4 DEF IndexPC, Held, FoundPC, NewPC
  <2>6. ThreadInv(t)' /\ ChoiceStep(t)
    BY <1>1, <1>2, <1>5, <1>7, <2>4, <2>5, Continues
  <2>7. Quiet(t)
    BY <1>1, <1>7, <2>2, <2>4 DEF Quiet
  <2>8. QED
    BY <1>3, <2>4, <2>6, <2>7, QuietKeeps
<1>8. CASE /\ ctx[t].composing = 0
           /\ PhysicalSize(call[t].size) + Scale <= AvaliableMemory
           /\ Goto(t, "appending") /\ dataLock' = {t} /\ UNCHANGED ctx
  <2>1. /\ pc' = [pc EXCEPT ![t] = "appending"] /\ ctx' = [ctx EXCEPT ![t] = ctx[t]]
        /\ call' = [call EXCEPT ![t] = call[t]] /\ call[t] \in Calls \cup {NoCall}
    BY <1>1, <1>5, <1>8, Types DEF Goto
  <2>2. /\ TypeInv' /\ Frame(t) /\ pc'[t] = "appending" /\ ctx'[t] = ctx[t] /\ call'[t] = call[t]
    <3>1. "appending" \in PCs
      BY DEF PCs
    <3>2. /\ dataEnd' \in Nat /\ dataLock' \subseteq Thread /\ index' \in Seq(Nat)
          /\ indexEnd' \in Nat /\ indexState' \in Nat /\ wasted' \in Int /\ calls' \in Nat
      BY <1>1, <1>8, Types
    <3>3. QED
      BY <1>3, <1>4, <2>1, <3>1, <3>2, TypeStep
  <2>3. /\ ~Held(t)' /\ ~Inserts(t)'
        /\ pc'[t] \notin IndexPC \cup FoundPC \cup NewPC
        /\ pc'[t] \notin {"idle", "unlockReplaced", "modify", "insert", "setValue", "lockReplace"}
    BY <2>2 DEF IndexPC, Held, FoundPC, NewPC, Inserts
  <2>4. ThreadInv(t)' /\ ChoiceStep(t)
    BY <1>1, <1>2, <1>5, <1>8, <2>2, <2>3, Continues
  <2>5. IndexStep(t) /\ indexBegin' = indexBegin /\ indexBegin \in Int
    BY <1>1, SameIndex
  <2>6. LockStep(t)
    BY <1>1, <1>2, <1>8, <2>2, <2>3 DEF LockStep
  <2>7. RoomStep(t)
    <3>1. /\ dataEnd \in Nat /\ call[t].size \in Nat
      BY <1>5, CallsAre, Types
    <3>2. dataEnd + PhysicalSize(call[t].size) + Scale <= indexBegin
      BY <1>8, <2>5, <3>1 DEF AvaliableMemory, PhysicalSize, Scale
    <3>3. QED
      BY <1>1, <2>2, <2>3, <2>5, <3>2 DEF RoomStep
  <2>8. RoomInv'
    BY <1>3, <2>2, <2>5, <2>7, RoomStays
  <2>9. QED
    BY <1>3, <2>2, <2>4, <2>5, <2>6, <2>8, Keeps
<1>9. QED
  BY <1>6, <1>7, <1>8 DEF BeginAppend

LEMMA EndAppendKeeps ==
    ASSUME IInv, NEW t \in Thread, EndAppend(t), overtaken' \in BOOLEAN
    PROVE  IInv'
<1> DEFINE hole == Hole(call[t].key, call[t].size)
           size == PhysicalSize(call[t].size)
<1>1. /\ pc[t] = "appending" /\ log' = Append(log, hole)
      /\ dataEnd' = dataEnd + size /\ dataLock' = {}
      /\ UNCHANGED <<index, indexEnd, indexState, wasted, calls, call>>
  BY DEF EndAppend
<1>2. PICK label \in {"lockReplace", "compose", "return"}, error \in Errors :
        /\ pc' = [pc EXCEPT ![t] = label]
        /\ ctx' = [ctx EXCEPT ![t] = [ctx[t] EXCEPT !.composing = Len(log) + 1,
                                                    !.adjustment = @ + size,
                                                    !.error = error]]
        /\ label = "lockReplace" => ctx[t].found
        /\ label = "compose" => ~ctx[t].found
  <2>1. "notEnoughMemory" \in Errors /\ ctx[t] \in Context /\ ctx[t].error \in Errors
    BY Types DEF Errors, Context
  <2>2. CASE indexBegin > dataEnd'
    <3>1. /\ ctx' = [ctx EXCEPT ![t] = [ctx[t] EXCEPT !.composing = Len(log) + 1,
                                                      !.adjustment = @ + size]]
          /\ pc' = [pc EXCEPT ![t] = AfterAppend(t)]
      BY <2>2 DEF EndAppend, Goto
    <3>2. [ctx[t] EXCEPT !.composing = Len(log) + 1, !.adjustment = @ + size]
          = [ctx[t] EXCEPT !.composing = Len(log) + 1, !.adjustment = @ + size,
                           !.error = ctx[t].error]
      BY <2>1 DEF Context
    <3>3. PICK l : l = AfterAppend(t)
      OBVIOUS
    <3>4. /\ l \in {"lockReplace", "compose", "return"}
          /\ l = "lockReplace" => ctx[t].found
          /\ l = "compose" => ~ctx[t].found
      BY <3>3 DEF AfterAppend
    <3>5. QED
      BY <2>1, <3>1, <3>2, <3>3, <3>4
  <2>3. CASE ~(indexBegin > dataEnd')
    <3>1. /\ ctx' = [ctx EXCEPT ![t] = [[ctx[t] EXCEPT !.composing = Len(log) + 1,
                                                       !.adjustment = @ + size]
                                        EXCEPT !.error = "notEnoughMemory"]]
          /\ pc' = [pc EXCEPT ![t] = "return"]
      BY <2>3 DEF EndAppend, Goto
    <3>2. [[ctx[t] EXCEPT !.composing = Len(log) + 1, !.adjustment = @ + size]
               EXCEPT !.error = "notEnoughMemory"]
          = [ctx[t] EXCEPT !.composing = Len(log) + 1, !.adjustment = @ + size,
                           !.error = "notEnoughMemory"]
      BY <2>1 DEF Context
    <3>3. QED
      BY <2>1, <3>1, <3>2
  <2>4. QED
    BY <2>2, <2>3
<1> DEFINE new == [ctx[t] EXCEPT !.composing = Len(log) + 1, !.adjustment = @ + size,
                                 !.error = error]
<1>3. /\ ctx' = [ctx EXCEPT ![t] = new] /\ pc' = [pc EXCEPT ![t] = label]
      /\ label = "lockReplace" => ctx[t].found
      /\ label = "compose" => ~ctx[t].found
  BY <1>2
<1>4. ThreadInv(t) /\ TypeInv /\ ctx[t] \in Context
  BY Types DEF IInv
<1>5. /\ call[t] \in Calls /\ call[t].op = "Set" /\ ~IsCorrupted(ctx[t].version)
      /\ call[t].key \in Keys /\ call[t].size \in Nat /\ size \in Nat /\ size >= 1
  <2>1. call[t] \in Calls /\ call[t].op = "Set" /\ ~IsCorrupted(ctx[t].version)
    BY <1>1, <1>4 DEF ThreadInv, SetPC
  <2>2. QED
    BY <2>1, CallsAre DEF PhysicalSize
<1>6. /\ hole \in LogRecord /\ hole.key = call[t].key /\ hole.size = call[t].size
      /\ hole.capacity = call[t].size /\ ~hole.composed /\ ~hole.deleted
  BY <1>5, RecordIs
<1> HIDE DEF hole, size
<1>7. /\ log \in Seq(LogRecord) /\ Len(log) \in Nat /\ DOMAIN log = 1 .. Len(log)
      /\ \A i \in DOMAIN log : log[i].size <= log[i].capacity
      /\ \A i \in Range(index) : i \in DOMAIN log
  BY Types, Domains DEF IInv, SlotsInv, Range
<1>8. /\ log' \in Seq(LogRecord) /\ Len(log') = Len(log) + 1 /\ DOMAIN log' = 1 .. (Len(log) + 1)
      /\ \A i \in DOMAIN log : log'[i] = log[i]
      /\ log'[Len(log) + 1] = hole
  BY <1>1, <1>6, <1>7, AppendProperties
<1>9. /\ new \in Context /\ new.existing = ctx[t].existing /\ new.composing = Len(log) + 1
      /\ new.indexState = ctx[t].indexState /\ new.found = ctx[t].found
      /\ new.order = ctx[t].order /\ new.version = ctx[t].version
  <2>1. Len(log) + 1 \in Nat /\ ctx[t].adjustment + size \in Int /\ ctx[t] \in Context
    BY <1>4, <1>5, <1>7, ThreadTypes
  <2>2. QED
    BY <2>1 DEF Context
<1> HIDE DEF new
<1>10. TypeInv' /\ Frame(t) /\ pc'[t] = label /\ ctx'[t] = new /\ call'[t] = call[t]
  <2>1. label \in PCs
    BY DEF PCs, Waiting
  <2>2. call' = [call EXCEPT ![t] = call[t]] /\ call[t] \in Calls \cup {NoCall}
    BY <1>1, Types
  <2>3. /\ dataEnd' \in Nat /\ dataLock' \subseteq Thread /\ index' \in Seq(Nat)
        /\ indexEnd' \in Nat /\ indexState' \in Nat /\ wasted' \in Int /\ calls' \in Nat
    BY <1>1, <1>5, Types
  <2>4. /\ log' \in Seq(LogRecord) /\ new \in Context
        /\ ctx' = [ctx EXCEPT ![t] = new] /\ pc' = [pc EXCEPT ![t] = label]
    BY <1>3, <1>8, <1>9
  <2>5. QED
    BY <2>1, <2>2, <2>3, <2>4, TypeStep
<1>11. ~Held(t) /\ ~Held(t)' /\ ~Inserts(t)
  BY <1>1, <1>10 DEF Held, Inserts, NewPC
<1>12. LogStep(t)
  <2>1. \A i \in DOMAIN log' : log'[i].size <= log'[i].capacity
    <3> TAKE i \in DOMAIN log'
    <3>1. CASE i = Len(log) + 1
      BY <1>5, <1>6, <1>8, <3>1
    <3>2. CASE i # Len(log) + 1
      BY <1>7, <1>8, <3>2
    <3>3. QED
      BY <3>1, <3>2
  <2>2. QED
    BY <1>7, <1>8, <2>1 DEF LogStep
<1>13. RecordStep(t)
  <2> SUFFICES ASSUME NEW i \in DOMAIN log', log'[i].composed
               PROVE  i \in DOMAIN log /\ log'[i] = log[i]
    BY <1>11 DEF RecordStep
  <2>1. i # Len(log) + 1
    BY <1>6, <1>8
  <2>2. QED
    BY <1>7, <1>8, <2>1
<1>14. /\ IndexStep(t) /\ LastStable' = LastStable /\ indexBegin' = indexBegin
       /\ LastStable \in Nat /\ indexBegin \in Int
  BY <1>1, SameIndex
<1>15. ChoiceStep(t)
  BY <1>7, <1>9, <1>10, <1>11 DEF ChoiceStep
<1>16. LockStep(t)
  BY <1>1, <1>10 DEF LockStep, IndexPC
<1>17. \A u \in Thread : pc'[u] # "appending"
  <2>1. \A u \in Thread : pc[u] = "appending" => u = t
    BY <1>1 DEF IInv, LocksInv
  <2>2. QED
    BY <1>10, <2>1 DEF Frame
<1>18. RoomInv'
  <2>1. /\ dataEnd + size <= indexBegin
        /\ \A u \in Thread : Inserts(u) => dataEnd + size + 1 <= indexBegin
    BY <1>1 DEF IInv, RoomInv, size, Scale
  <2>2. dataEnd \in Nat
    BY Types
  <2>3. \A u \in Thread : pc'[u] = "inserting" => dataEnd' < indexBegin'
    <3> TAKE u \in Thread
    <3>1. SUFFICES ASSUME pc'[u] = "inserting" PROVE dataEnd + size < indexBegin
      BY <1>1, <1>14
    <3>2. pc[u] = "inserting"
      BY <1>10, <3>1 DEF Frame
    <3>3. dataEnd + size + 1 <= indexBegin
      BY <2>1, <3>2 DEF Inserts
    <3>4. QED
      BY <1>5, <1>14, <2>2, <3>3
  <2>4. \A u \in Thread : pc'[u] # "assertIndexBegin"
    BY <1>10 DEF IInv, RoomInv, Frame
  <2>5. dataEnd' <= indexBegin'
    BY <1>1, <1>14, <2>1
  <2>6. QED
    BY <1>17, <2>3, <2>4, <2>5 DEF RoomInv
<1>19. ThreadInv(t)'
  <2>1. /\ ctx[t].existing \in 0 .. Len(log) /\ ctx[t].indexState <= LastStable
        /\ ctx[t].found => /\ ctx[t].existing \in DOMAIN log
                           /\ log[ctx[t].existing].composed
                           /\ log[ctx[t].existing].key = call[t].key
    BY <1>1, <1>4 DEF ThreadInv, SearchedPC
  <2>2. Fresh(t)' => /\ ctx[t].order <= Len(index)
                     /\ ctx[t].found => ctx[t].order < Len(index)
    <3>1. Fresh(t)' => Fresh(t)
      BY <1>1, <1>9, <1>10, <1>14 DEF Fresh, SearchedPC
    <3>2. QED
      BY <1>4, <3>1 DEF ThreadInv
  <2>3. /\ pc'[t] \notin IndexPC
        /\ pc'[t] \notin {"idle", "unlockReplaced", "modify", "modifying", "insert", "inserting",
                          "appending", "setValue"}
        /\ pc'[t] \in FoundPC => ctx[t].found
        /\ pc'[t] \in NewPC => ~ctx[t].found
    BY <1>3, <1>10 DEF IndexPC, FoundPC, NewPC
  <2>4. Len(log) + 1 \notin Range(index)
    BY <1>7
  <2>5. /\ ctx'[t].existing \in 0 .. Len(log') /\ ctx'[t].composing \in 0 .. Len(log')
        /\ ctx'[t].composing # 0
    BY <1>7, <1>8, <1>9, <1>10, <2>1
  <2>6. ctx'[t].found => /\ ctx'[t].existing \in DOMAIN log'
                         /\ log'[ctx'[t].existing].composed
                         /\ log'[ctx'[t].existing].key = call'[t].key
    BY <1>7, <1>8, <1>9, <1>10, <2>1
  <2>7. QED
    BY <1>1, <1>5, <1>6, <1>8, <1>9, <1>10, <1>11, <1>14, <2>1, <2>2, <2>3, <2>4, <2>5, <2>6
    DEF ThreadInv
<1>20. QED
  BY <1>10, <1>12, <1>13, <1>14, <1>15, <1>16, <1>18, <1>19, Keeps

LEMMA ComposeKeeps ==
    ASSUME IInv, NEW t \in Thread, Compose(t), overtaken' \in BOOLEAN
    PROVE  IInv'
<1> DEFINE e == ctx[t].composing
           r == Record(call[t].key, FirstVersion, call[t].size)
<1>1. /\ pc[t] = "compose" /\ pc' = [pc EXCEPT ![t] = "insert"]
      /\ log' = IF log[e].composed THEN log ELSE [log EXCEPT ![e] = r]
      /\ UNCHANGED <<dataEnd, dataLock, index, indexEnd, indexState, wasted, calls, call, ctx>>
  BY DEF Compose, Goto
<1>2. ThreadInv(t) /\ TypeInv /\ ctx[t] \in Context /\ ctx' = [ctx EXCEPT ![t] = ctx[t]]
  BY <1>1, Types DEF IInv
<1>3. /\ call[t] \in Calls /\ call[t].op = "Set" /\ ~IsCorrupted(ctx[t].version)
      /\ call[t].key \in Keys /\ call[t].size \in Nat /\ ~ctx[t].found /\ ctx[t].composing # 0
  <2>1. /\ call[t] \in Calls /\ call[t].op = "Set" /\ ~IsCorrupted(ctx[t].version)
        /\ ~ctx[t].found /\ ctx[t].composing # 0
    BY <1>1, <1>2 DEF ThreadInv, SetPC, NewPC
  <2>2. QED
    BY <2>1, CallsAre
<1>4. /\ r \in LogRecord /\ r.key = call[t].key /\ r.size = call[t].size
      /\ r.capacity = call[t].size /\ r.composed /\ ~r.deleted /\ r.state = 2
  BY <1>3, RecordIs DEF FirstVersion
<1> HIDE DEF r
<1>5. Private(t) /\ ~Held(t) /\ pc[t] \in SearchedPC
  BY <1>1, <1>3 DEF Private, Held, SearchedPC, NewPC
<1>6. /\ e \in DOMAIN log /\ e \notin Range(index)
      /\ log[e].key = call[t].key /\ log[e].size = call[t].size
      /\ log[e].capacity = call[t].size /\ ~log[e].deleted
      /\ log[e].composed => ~IsCorrupted(log[e].state)
  BY <1>2, <1>5, PrivateIs DEF ThreadInv
<1> HIDE DEF e
<1>7. ~IsCorrupted(2)
  BY DEF IsCorrupted
<1>8. /\ log' \in Seq(LogRecord) /\ LogStep(t) /\ RecordStep(t) /\ Len(log') = Len(log)
      /\ log'[e].key = call[t].key /\ log'[e].size = call[t].size
      /\ log'[e].capacity = call[t].size /\ ~log'[e].deleted
      /\ log'[e].composed /\ ~IsCorrupted(log'[e].state)
  <2>1. CASE log[e].composed
    <3>1. log' = log
      BY <1>1, <2>1
    <3>2. QED
      BY <1>5, <1>6, <2>1, <3>1, Unheld
  <2>2. CASE ~log[e].composed
    <3>1. log' = [log EXCEPT ![e] = r]
      BY <1>1, <2>2
    <3>2. e = ctx[t].composing /\ Private(t) /\ ~Held(t)
      BY <1>5 DEF e
    <3>3. r.size <= r.capacity
      BY <1>3, <1>4
    <3>4. /\ LogStep(t) /\ RecordStep(t) /\ log' \in Seq(LogRecord) /\ Len(log') = Len(log)
          /\ log'[e] = r
      BY <1>4, <1>6, <1>7, <3>1, <3>2, <3>3, OneRecord
    <3>5. QED
      BY <1>4, <1>7, <3>4
  <2>3. QED
    BY <2>1, <2>2
<1>9. /\ TypeInv' /\ Frame(t) /\ pc'[t] = "insert" /\ ctx'[t] = ctx[t] /\ call'[t] = call[t]
      /\ LastStable' = LastStable
  <2>1. "insert" \in PCs
    BY DEF PCs, Waiting
  <2>2. QED
    BY <1>1, <1>2, <1>8, <2>1, Moves
<1>10. /\ ~Held(t)' /\ (Fresh(t)' => Fresh(t)) /\ (Inserts(t)' => Inserts(t))
       /\ pc'[t] \notin IndexPC \cup FoundPC
       /\ pc'[t] \notin {"idle", "unlockReplaced", "modify", "modifying", "inserting",
                         "appending", "setValue", "lockReplace"}
  BY <1>1, <1>5, <1>9 DEF IndexPC, FoundPC, NewPC, Held, Fresh, Inserts
<1>11. ChoiceStep(t)
  BY <1>5, <1>9, <1>10 DEF ChoiceStep
<1>12. Quiet(t)
  BY <1>1, <1>9, <1>10 DEF Quiet
<1>13. ThreadInv(t)'
  <2>1. /\ ctx[t].existing \in 0 .. Len(log') /\ ctx[t].composing \in 0 .. Len(log')
        /\ ctx[t].indexState <= LastStable'
    BY <1>2, <1>8, <1>9 DEF ThreadInv
  <2>2. Fresh(t)' => ctx[t].order <= Len(index)
    BY <1>2, <1>10 DEF ThreadInv
  <2>3. ctx'[t].composing = e
    BY <1>9 DEF e
  <2>4. QED
    BY <1>1, <1>3, <1>6, <1>8, <1>9, <1>10, <2>1, <2>2, <2>3 DEF ThreadInv
<1>14. QED
  BY <1>8, <1>9, <1>11, <1>12, <1>13, QuietKeeps

-----------------------------------------------------------------------------
(* The steps that insert a slot.                                           *)

LEMMA BeginInsertKeeps ==
    ASSUME IInv, NEW t \in Thread, BeginInsert(t), overtaken' \in BOOLEAN
    PROVE  IInv'
<1>1. /\ pc[t] = "insert" /\ ~IsCorrupted(indexState)
      /\ UNCHANGED <<log, dataEnd, dataLock, index, indexEnd, wasted, calls, call>>
  BY DEF BeginInsert
<1>2. /\ ~Held(t) /\ pc[t] \in SearchedPC /\ pc[t] \in SetPC /\ pc[t] \in NewPC
      /\ pc[t] \notin {"idle", "inserting", "modifying", "appending", "unlockReplaced", "return"}
  BY <1>1 DEF Held, SearchedPC, SetPC, NewPC
<1>3. /\ LogStep(t) /\ RecordStep(t) /\ log' \in Seq(LogRecord)
      /\ Private(t) => log'[ctx[t].composing] = log[ctx[t].composing]
  BY <1>1, <1>2, Unheld
<1>4. ThreadInv(t) /\ TypeInv /\ ctx[t] \in Context
  BY Types DEF IInv
<1>5. CASE Goto(t, "search") /\ UNCHANGED <<indexState, ctx>>
  BY <1>1, <1>2, <1>3, <1>5, RestartKeeps
<1>6. CASE Fail(t, "notEnoughMemory") /\ UNCHANGED indexState
  <2>1. "notEnoughMemory" \in Errors
    BY DEF Errors
  <2>2. QED
    BY <1>1, <1>2, <1>3, <1>6, <2>1, FailKeeps
<1>7. CASE /\ indexState = ctx[t].indexState /\ Scale <= AvaliableMemory
           /\ indexState' = indexState + 1
           /\ ctx' = [ctx EXCEPT ![t].left = MovesLeft(ctx[t].order)]
           /\ Goto(t, "inserting")
  <2>1. PICK left : left = MovesLeft(ctx[t].order)
    OBVIOUS
  <2> DEFINE new == [ctx[t] EXCEPT !.left = left]
  <2>2. dataEnd < indexBegin /\ dataEnd \in Nat /\ indexBegin \in Int
    BY <1>4, <1>7, Types, Domains DEF AvaliableMemory, Scale
  <2>3. left \in BOOLEAN /\ (~left => indexEnd < MaxEnd)
    BY <2>1, <2>2 DEF MovesLeft, InsertMovesLeft
  <2>4. /\ new \in Context /\ new.existing = ctx[t].existing /\ new.composing = ctx[t].composing
        /\ new.indexState = ctx[t].indexState /\ new.found = ctx[t].found
        /\ new.order = ctx[t].order /\ new.version = ctx[t].version /\ new.left = left
    <3>1. ctx[t] \in Context /\ left \in BOOLEAN
      BY <1>4, <2>3
    <3>2. QED
      BY <3>1 DEF Context
  <2>5. ctx' = [ctx EXCEPT ![t] = new] /\ pc' = [pc EXCEPT ![t] = "inserting"]
    BY <1>7, <2>1 DEF Goto
  <2> HIDE DEF new
  <2>6. indexState \in Nat /\ ~IsCorrupted(indexState) /\ IsCorrupted(indexState')
    <3>1. indexState \in Nat /\ indexState \in Int
      BY Types
    <3>2. IsCorrupted(indexState + 1) <=> ~IsCorrupted(indexState)
      BY <3>1, Parity
    <3>3. QED
      BY <1>1, <1>7, <3>1, <3>2
  <2>7. LastStable = indexState /\ LastStable' = LastStable /\ indexBegin' = indexBegin
    BY <1>1, <1>7, <2>6 DEF LastStable, indexBegin
  <2>8. TypeInv' /\ Frame(t) /\ pc'[t] = "inserting" /\ ctx'[t] = new /\ call'[t] = call[t]
    <3>1. "inserting" \in PCs
      BY DEF PCs
    <3>2. call' = [call EXCEPT ![t] = call[t]] /\ call[t] \in Calls \cup {NoCall}
      BY <1>1, Types
    <3>3. /\ dataEnd' \in Nat /\ dataLock' \subseteq Thread /\ index' \in Seq(Nat)
          /\ indexEnd' \in Nat /\ indexState' \in Nat /\ wasted' \in Int /\ calls' \in Nat
      BY <1>1, <1>7, <2>6, Types
    <3>4. new \in Context /\ log' \in Seq(LogRecord)
      BY <1>3, <2>4
    <3>5. QED
      BY <2>5, <3>1, <3>2, <3>3, <3>4, TypeStep
  <2>9. \A u \in Thread : pc[u] \notin IndexPC
    BY <1>1 DEF IInv, LocksInv
  <2>10. IndexStep(t)
    <3>1. indexEnd <= MaxEnd /\ LastStable \in Nat /\ Len(index) \in Nat
      BY Domains DEF IInv, SlotsInv
    <3>2. QED
      BY <1>1, <2>7, <2>9, <3>1 DEF IndexStep, Range
  <2>11. Private(t)' => Private(t)
    BY <1>2, <2>4, <2>8 DEF Private
  <2>12. /\ ~Held(t)' /\ (Fresh(t)' => Fresh(t)) /\ pc'[t] \in IndexPC
         /\ pc'[t] \notin FoundPC
         /\ pc'[t] \notin {"idle", "unlockReplaced", "modify", "modifying", "appending",
                           "setValue", "lockReplace", "assertIndexBegin"}
    BY <1>2, <2>4, <2>7, <2>8 DEF Held, Fresh, IndexPC, FoundPC
  <2>13. ChoiceStep(t)
    BY <2>4, <2>8, <2>11, <2>12 DEF ChoiceStep
  <2>14. LockStep(t)
    BY <1>1, <2>6, <2>8, <2>12 DEF LockStep
  <2>15. RoomStep(t)
    <3>1. Fresh(t)
      BY <1>2, <1>7, <2>7 DEF Fresh
    <3>2. QED
      BY <1>1, <1>2, <2>2, <2>7, <2>12, <3>1 DEF RoomStep, Inserts
  <2>16. RoomInv'
    BY <1>3, <2>8, <2>10, <2>15, RoomStays
  <2>17. ThreadInv(t)'
    <3>1. /\ call[t] \in Calls /\ call[t].op = "Set" /\ ~IsCorrupted(ctx[t].version)
          /\ ~ctx[t].found /\ ctx[t].composing # 0 /\ log[ctx[t].composing].composed
          /\ ctx[t].existing \in 0 .. Len(log) /\ ctx[t].composing \in 0 .. Len(log)
          /\ ctx[t].indexState <= LastStable
      BY <1>1, <1>2, <1>4 DEF ThreadInv
    <3>2. Fresh(t)' => ctx[t].order <= Len(index)
      BY <1>4, <2>12 DEF ThreadInv
    <3>3. Private(t)' => /\ ctx[t].composing \notin Range(index)
                         /\ log[ctx[t].composing].key = call[t].key
                         /\ log[ctx[t].composing].size = call[t].size
                         /\ log[ctx[t].composing].capacity = call[t].size
                         /\ ~log[ctx[t].composing].deleted
                         /\ log[ctx[t].composing].composed
                              => ~IsCorrupted(log[ctx[t].composing].state)
      BY <1>4, <2>11 DEF ThreadInv
    <3>4. QED
      BY <1>1, <1>7, <2>3, <2>4, <2>7, <2>8, <2>12, <3>1, <3>2, <3>3 DEF ThreadInv
  <2>18. QED
    BY <1>3, <2>8, <2>10, <2>13, <2>14, <2>16, <2>17, Keeps
<1>8. QED
  BY <1>5, <1>6, <1>7 DEF BeginInsert

\* A slot has its place: the search of a call inside the index is fresh.
LEMMA InsideIndex ==
    ASSUME IInv, NEW t \in Thread, pc[t] \in IndexPC
    PROVE  /\ IsCorrupted(indexState) /\ indexState \in Nat /\ indexState >= 1
           /\ LastStable = indexState - 1 /\ Fresh(t)
           /\ \A u \in Thread \ {t} : pc[u] \notin IndexPC
<1>1. IsCorrupted(indexState) /\ indexState \in Nat
  BY Types DEF IInv, LocksInv
<1>2. indexState # 0
  BY <1>1 DEF IsCorrupted
<1>3. LastStable = indexState - 1
  BY <1>1 DEF LastStable
<1>4. indexState = ctx[t].indexState + 1 /\ ctx[t].indexState \in Nat
  BY ThreadTypes DEF IInv, ThreadInv
<1>5. pc[t] \in SearchedPC
  BY DEF IndexPC, SearchedPC, NewPC
<1>6. Fresh(t)
  BY <1>1, <1>3, <1>4, <1>5 DEF Fresh
<1>7. QED
  BY <1>1, <1>2, <1>3, <1>6 DEF IInv, LocksInv

\* A slot more.
LEMMA WithSlot ==
    ASSUME NEW s \in Seq(Nat), NEW i \in 1 .. (Len(s) + 1), NEW e \in Nat
    PROVE  /\ InsertAt(s, i, e) \in Seq(Nat) /\ Len(InsertAt(s, i, e)) = Len(s) + 1
           /\ DOMAIN InsertAt(s, i, e) = 1 .. (Len(s) + 1)
           /\ \A j \in DOMAIN InsertAt(s, i, e) :
                InsertAt(s, i, e)[j] \in Range(s) \/ InsertAt(s, i, e)[j] = e
<1> DEFINE r == InsertAt(s, i, e)
<1>1. Len(s) \in Nat /\ DOMAIN s = 1 .. Len(s)
  OBVIOUS
<1>2. /\ r \in Seq(Nat) /\ Len(r) = Len(s) + 1
      /\ \A j \in 1 .. (Len(s) + 1) :
           r[j] = IF j < i THEN s[j] ELSE IF j = i THEN e ELSE s[j - 1]
  <2>1. OneMore(s, i, e, r)
    BY OneSlotMore, Zenon
  <2>2. QED
    BY <2>1 DEF OneMore
<1> HIDE DEF r
<1>3. DOMAIN r = 1 .. (Len(s) + 1)
  BY <1>1, <1>2
<1>4. ASSUME NEW j \in 1 .. (Len(s) + 1) PROVE r[j] \in Range(s) \/ r[j] = e
  <2>1. CASE j < i
    <3>1. j \in DOMAIN s /\ r[j] = s[j]
      BY <1>1, <1>2, <2>1
    <3>2. QED
      BY <3>1 DEF Range
  <2>2. CASE j = i
    BY <1>2, <2>2
  <2>3. CASE j > i
    <3>1. j - 1 \in DOMAIN s /\ r[j] = s[j - 1]
      BY <1>1, <1>2, <2>3
    <3>2. QED
      BY <3>1 DEF Range
  <2>4. QED
    BY <1>1, <2>1, <2>2, <2>3
<1>5. /\ r \in Seq(Nat) /\ Len(r) = Len(s) + 1 /\ DOMAIN r = 1 .. (Len(s) + 1)
      /\ \A j \in DOMAIN r : r[j] \in Range(s) \/ r[j] = e
  BY <1>2, <1>3, <1>4
<1>6. QED
  BY <1>5 DEF r

LEMMA EndInsertKeeps ==
    ASSUME IInv, NEW t \in Thread, EndInsert(t), overtaken' \in BOOLEAN
    PROVE  IInv'
<1> DEFINE size == PhysicalSize(call[t].size)
           e == ctx[t].composing
           count == Len(index)
<1>1. ThreadInv(t) /\ TypeInv /\ ctx[t] \in Context
  BY Types DEF IInv
<1>2. pc[t] = "inserting" /\ pc[t] \in IndexPC /\ pc[t] \in NewPC /\ pc[t] \in SetPC
  BY DEF EndInsert, IndexPC, NewPC, SetPC
<1>3. /\ IsCorrupted(indexState) /\ indexState \in Nat /\ indexState >= 1
      /\ LastStable = indexState - 1 /\ Fresh(t)
      /\ \A u \in Thread \ {t} : pc[u] \notin IndexPC
  BY <1>2, InsideIndex
<1>4. /\ dataEnd < indexBegin /\ indexBegin = indexEnd - count /\ indexBegin \in Int
      /\ dataEnd \in Nat /\ indexEnd \in Nat /\ count \in Nat /\ DOMAIN index = 1 .. count
      /\ indexEnd <= MaxEnd /\ Len(log) \in Nat /\ MaxEnd \in Nat
  <2>1. MaxEnd \in Nat
    BY SizesAreNaturals
  <2>2. QED
    BY <1>1, <1>2, <2>1, Types, Domains DEF IInv, RoomInv, SlotsInv
<1>5. /\ call[t] \in Calls /\ call[t].op = "Set" /\ e # 0 /\ log[e].composed
      /\ ctx[t].order <= count /\ (ctx[t].left \/ indexEnd < MaxEnd)
      /\ ctx[t].order \in Nat /\ e \in Nat /\ size \in Nat /\ size >= 1
  <2>1. /\ call[t] \in Calls /\ call[t].op = "Set" /\ e # 0 /\ log[e].composed
        /\ ctx[t].order <= count /\ (ctx[t].left \/ indexEnd < MaxEnd)
    BY <1>1, <1>2, <1>3 DEF ThreadInv
  <2>2. QED
    BY <1>1, <2>1, ThreadTypes, CallsAre DEF PhysicalSize
<1>6. Private(t) /\ ~Held(t)
  BY <1>2, <1>5 DEF Private, Held
<1>7. ~(ctx[t].left /\ indexBegin - Scale < dataEnd)
  BY <1>4 DEF Scale
<1>8. /\ index' = InsertAt(index, ctx[t].order + 1, e)
      /\ indexEnd' = IF ctx[t].left THEN indexEnd ELSE indexEnd + 1
      /\ pc' = [pc EXCEPT ![t] = "return"]
      /\ UNCHANGED <<log, dataEnd, dataLock, wasted, calls, call>>
  BY <1>7 DEF EndInsert, Goto, Scale
<1>9. /\ index' \in Seq(Nat) /\ Len(index') = count + 1 /\ DOMAIN index' = 1 .. (count + 1)
      /\ \A j \in DOMAIN index' : index'[j] \in Range(index) \/ index'[j] = e
  <2>1. ctx[t].order \in 0 .. Len(index) /\ index \in Seq(Nat) /\ e \in Nat
    BY <1>4, <1>5, Types
  <2>2. PICK i \in 1 .. (Len(index) + 1) : i = ctx[t].order + 1
    BY <2>1
  <2>3. index' = InsertAt(index, i, e)
    BY <1>8, <2>2
  <2>4. /\ index' \in Seq(Nat) /\ Len(index') = Len(index) + 1
        /\ DOMAIN index' = 1 .. (Len(index) + 1)
        /\ \A j \in DOMAIN index' : index'[j] \in Range(index) \/ index'[j] = e
    BY <2>1, <2>3, WithSlot
  <2>5. QED
    BY <2>4
<1>10. PICK full \in BOOLEAN, room \in {0, 1} :
         /\ full <=> indexEnd' - Len(index') <= dataEnd
         /\ indexState' = IF full THEN indexState - 1 ELSE indexState + 1
         /\ ctx' = [ctx EXCEPT ![t].adjustment = @ - size - room,
                               ![t].error = IF full THEN "notEnoughMemory" ELSE "none"]
  <2> DEFINE f == indexEnd' - Len(index') * Scale <= dataEnd
             r == IF ctx[t].left THEN 0 ELSE Scale
  <2>1. /\ indexState' = IF f THEN indexState - 1 ELSE indexState + 1
        /\ ctx' = [ctx EXCEPT ![t].adjustment = @ - size - r,
                              ![t].error = IF f THEN "notEnoughMemory" ELSE "none"]
    BY <1>7 DEF EndInsert
  <2>2. r \in {0, 1} /\ f \in BOOLEAN
    BY DEF Scale
  <2>3. f <=> indexEnd' - Len(index') <= dataEnd
    BY <1>4, <1>9 DEF Scale
  <2> HIDE DEF f, r
  <2>4. QED
    BY <2>1, <2>2, <2>3
<1>11. pc' = [pc EXCEPT ![t] = "return"]
  BY <1>8
<1> DEFINE new == [ctx[t] EXCEPT !.adjustment = @ - size - room,
                                 !.error = IF full THEN "notEnoughMemory" ELSE "none"]
<1>12. ctx' = [ctx EXCEPT ![t] = new]
  BY <1>10
<1> HIDE DEF size
<1>13. /\ new \in Context /\ new.existing = ctx[t].existing /\ new.composing = ctx[t].composing
       /\ new.version = ctx[t].version /\ new.indexState = ctx[t].indexState
  <2>1. ctx[t].adjustment - size - room \in Int
    BY <1>1, <1>5, ThreadTypes
  <2>2. (IF full THEN "notEnoughMemory" ELSE "none") \in Errors
    BY DEF Errors
  <2>3. QED
    BY <1>1, <2>1, <2>2 DEF Context
<1> HIDE DEF new
<1>14. /\ indexEnd' \in Nat /\ indexEnd' <= MaxEnd /\ indexState' \in Nat
       /\ ~IsCorrupted(indexState') /\ LastStable' = indexState'
       /\ LastStable' = IF full THEN LastStable ELSE LastStable + 2
       /\ LastStable \in Nat
  <2>1. indexEnd' \in Nat /\ indexEnd' <= MaxEnd
    BY <1>4, <1>5, <1>8
  <2>2. indexState' \in Nat /\ ~IsCorrupted(indexState')
    BY <1>3, <1>10, Parity
  <2>3. LastStable' = indexState'
    BY <2>2 DEF LastStable
  <2>4. QED
    BY <1>3, <1>10, <2>1, <2>2, <2>3
<1>15. TypeInv' /\ Frame(t) /\ pc'[t] = "return" /\ ctx'[t] = new /\ call'[t] = call[t]
  <2>1. "return" \in PCs
    BY DEF PCs
  <2>2. call' = [call EXCEPT ![t] = call[t]] /\ call[t] \in Calls \cup {NoCall}
    BY <1>8, Types
  <2>3. /\ log' \in Seq(LogRecord) /\ dataEnd' \in Nat /\ dataLock' \subseteq Thread
        /\ index' \in Seq(Nat)
        /\ indexEnd' \in Nat /\ indexState' \in Nat /\ wasted' \in Int /\ calls' \in Nat
    BY <1>8, <1>9, <1>14, Types
  <2>4. new \in Context /\ pc' = [pc EXCEPT ![t] = "return"]
    BY <1>11, <1>13
  <2>5. QED
    BY <1>12, <2>1, <2>2, <2>3, <2>4, TypeStep
<1>16. LogStep(t) /\ RecordStep(t)
  BY <1>6, <1>8, Unheld
<1>17. IndexStep(t)
  <2>1. \A i \in DOMAIN index' :
          \/ index'[i] \in Range(index)
          \/ Private(t) /\ log[ctx[t].composing].composed /\ index'[i] = ctx[t].composing
    BY <1>5, <1>6, <1>9
  <2>2. LastStable <= LastStable' /\ Len(index) <= Len(index')
    BY <1>4, <1>9, <1>14
  <2>3. QED
    BY <1>3, <1>14, <2>1, <2>2 DEF IndexStep
<1>18. ThreadInv(t)' /\ ChoiceStep(t) /\ ~Inserts(t)'
  <2>1. pc[t] # "idle" /\ pc'[t] \in {"search", "return", "assertDeleted"} /\ ~Private(t)'
    BY <1>2, <1>15 DEF Private
  <2>2. Len(log) <= Len(log') /\ LastStable <= LastStable'
    BY <1>4, <1>8, <1>17 DEF IndexStep
  <2>3. QED
    BY <1>13, <1>15, <2>1, <2>2, Leaves
<1>19. LockStep(t)
  BY <1>2, <1>8, <1>14, <1>15 DEF LockStep, IndexPC
<1>20. RoomInv'
  <2>1. indexBegin' \in Int /\ indexBegin - 1 <= indexBegin' /\ dataEnd <= indexBegin'
        /\ (full <=> indexBegin' <= dataEnd)
    BY <1>4, <1>8, <1>9, <1>10, <1>14 DEF indexBegin, Scale
  <2>2. \A u \in Thread : pc'[u] # "assertIndexBegin" /\ pc'[u] # "inserting"
    BY <1>3, <1>15 DEF IInv, RoomInv, Frame, IndexPC
  <2>3. ASSUME NEW u \in Thread, pc'[u] = "appending"
        PROVE  /\ dataEnd' + PhysicalSize(call'[u].size) <= indexBegin'
               /\ \A w \in Thread : ~Inserts(w)'
    <3>1. u # t /\ pc[u] = "appending" /\ call'[u] = call[u]
      BY <1>15, <2>3 DEF Frame
    <3>2. PICK s \in Nat : s = PhysicalSize(call[u].size) /\ s >= 1
      BY <1>1, ThreadTypes, CallsAre DEF PhysicalSize
    <3>3. Inserts(t)
      BY <1>2 DEF Inserts
    <3>4. dataEnd + s + 1 <= indexBegin
      BY <3>1, <3>2, <3>3 DEF IInv, RoomInv, Scale
    <3>5. dataEnd + s <= indexBegin' /\ ~full
      BY <1>4, <2>1, <3>2, <3>4
    <3>6. LastStable' # LastStable
      BY <1>14, <3>5
    <3>7. \A w \in Thread \ {t} : ~Fresh(w)'
      BY <1>15, <1>16, <1>17, <3>6, OtherThread
    <3>8. \A w \in Thread : ~Inserts(w)'
      BY <1>18, <2>2, <3>7 DEF Inserts
    <3>9. QED
      BY <1>8, <3>1, <3>2, <3>5, <3>8
  <2>4. QED
    BY <1>8, <2>1, <2>2, <2>3 DEF RoomInv
<1>21. QED
  BY <1>15, <1>16, <1>17, <1>18, <1>19, <1>20, Keeps

-----------------------------------------------------------------------------
(* The steps that give a record back.                                      *)

\* A record in another state.
LEMMA WithState ==
    ASSUME NEW r \in LogRecord, NEW s \in Nat
    PROVE  LET new == [r EXCEPT !.state = s]
           IN /\ new \in LogRecord /\ new.state = s /\ new.key = r.key
              /\ new.capacity = r.capacity /\ new.size = r.size
              /\ new.composed = r.composed /\ new.deleted = r.deleted
BY DEF LogRecord

\* A record that is given back with an even state.
LEMMA Released ==
    ASSUME IInv, NEW t \in Thread, NEW e \in DOMAIN log, e = ctx[t].existing,
           NEW r \in LogRecord, log' = [log EXCEPT ![e] = r],
           Held(t) \/ ~IsCorrupted(log[e].state), ~IsCorrupted(r.state),
           r.key = log[e].key, r.capacity = log[e].capacity, log[e].composed => r.composed,
           r.size <= r.capacity
    PROVE  /\ LogStep(t) /\ RecordStep(t) /\ log' \in Seq(LogRecord)
           /\ Private(t) => log'[ctx[t].composing] = log[ctx[t].composing]
<1>1. /\ LogStep(t) /\ RecordStep(t) /\ log' \in Seq(LogRecord)
      /\ \A i \in DOMAIN log : i # e => log'[i] = log[i]
  BY OneRecord
<1>2. Private(t) => ctx[t].composing \in DOMAIN log /\ ctx[t].existing # ctx[t].composing
  <2> SUFFICES ASSUME Private(t)
               PROVE  ctx[t].composing \in DOMAIN log /\ ctx[t].existing # ctx[t].composing
    OBVIOUS
  <2>1. TypeInv /\ ThreadInv(t) /\ Apart(t, t)
    BY DEF IInv
  <2>2. QED
    BY <2>1, PrivateIs DEF Apart
<1>3. QED
  BY <1>1, <1>2

\* A record that is held is given back, as it was or one version later.
LEMMA GivenBack ==
    ASSUME IInv, NEW t \in Thread, Held(t), NEW n \in {-1, 1},
           log' = [log EXCEPT ![ctx[t].existing].state = @ + n]
    PROVE  /\ LogStep(t) /\ RecordStep(t) /\ log' \in Seq(LogRecord)
           /\ Private(t) => log'[ctx[t].composing] = log[ctx[t].composing]
<1>1. TypeInv /\ ThreadInv(t) /\ \A i \in DOMAIN log : log[i].size <= log[i].capacity
  BY DEF IInv, SlotsInv
<1>2. PICK e \in DOMAIN log : e = ctx[t].existing /\ log[e].state = ctx[t].version + 1
  BY <1>1, HeldIs
<1>3. ~IsCorrupted(ctx[t].version) /\ ctx[t].version \in Nat
  BY <1>1, ThreadTypes DEF ThreadInv
<1>4. log[e] \in LogRecord
  BY <1>1, RecordTypes
<1>5. PICK s \in Nat : s = log[e].state + n /\ ~IsCorrupted(s)
  <2>1. CASE n = -1
    BY <1>2, <1>3, <2>1
  <2>2. CASE n = 1
    <3>1. IsCorrupted(ctx[t].version + 2) <=> IsCorrupted(ctx[t].version)
      BY <1>3, Parity
    <3>2. QED
      BY <1>2, <1>3, <2>2, <3>1
  <2>3. QED
    BY <2>1, <2>2
<1> DEFINE r == [log[e] EXCEPT !.state = s]
<1>6. log' = [log EXCEPT ![e] = r]
  BY <1>2, <1>5
<1>7. /\ r \in LogRecord /\ r.state = s /\ r.key = log[e].key
      /\ r.capacity = log[e].capacity /\ r.size = log[e].size /\ r.composed = log[e].composed
  BY <1>4, WithState
<1> HIDE DEF r
<1>8. /\ e = ctx[t].existing /\ r \in LogRecord /\ ~IsCorrupted(r.state)
      /\ r.key = log[e].key /\ r.capacity = log[e].capacity
      /\ (log[e].composed => r.composed) /\ r.size <= r.capacity
  BY <1>1, <1>2, <1>5, <1>7
<1>9. QED
  BY <1>6, <1>8, Released

LEMMA UnlockReplacedKeeps ==
    ASSUME IInv, NEW t \in Thread, UnlockReplaced(t), overtaken' \in BOOLEAN
    PROVE  IInv'
<1>1. /\ pc[t] = "unlockReplaced" /\ pc' = [pc EXCEPT ![t] = "return"]
      /\ log' = [log EXCEPT ![ctx[t].existing].state = @ + 1]
      /\ UNCHANGED <<dataEnd, dataLock, index, indexEnd, indexState, wasted, calls, call, ctx>>
  BY DEF UnlockReplaced, Goto
<1>2. ctx[t] \in Context /\ ctx' = [ctx EXCEPT ![t] = ctx[t]] /\ Held(t)
  BY <1>1, Types DEF Held
<1>3. /\ LogStep(t) /\ RecordStep(t) /\ log' \in Seq(LogRecord)
      /\ Private(t) => log'[ctx[t].composing] = log[ctx[t].composing]
  BY <1>1, <1>2, GivenBack
<1>4. QED
  BY <1>1, <1>2, <1>3, LeaveKeeps

LEMMA SetValueKeeps ==
    ASSUME IInv, NEW t \in Thread, SetValue(t), overtaken' \in BOOLEAN
    PROVE  IInv'
<1>1. /\ pc[t] = "setValue" /\ ~IsCorrupted(log[ctx[t].existing].state)
      /\ UNCHANGED <<dataEnd, dataLock, index, indexEnd, indexState, wasted, calls, call>>
  BY DEF SetValue, Existing
<1>2. TypeInv /\ ThreadInv(t) /\ ctx[t] \in Context
  BY Types DEF IInv
<1>3. ~Held(t) /\ pc[t] \in SearchedPC /\ pc[t] \in FoundPC
  BY <1>1 DEF Held, SearchedPC, FoundPC
<1>4. CASE Fail(t, "unknown") /\ UNCHANGED log
  <2>1. "unknown" \in Errors
    BY DEF Errors
  <2>2. /\ LogStep(t) /\ RecordStep(t) /\ log' \in Seq(LogRecord)
        /\ Private(t) => log'[ctx[t].composing] = log[ctx[t].composing]
    BY <1>3, <1>4, Unheld
  <2>3. QED
    BY <1>1, <1>4, <2>1, <2>2, FailKeeps
<1>5. CASE /\ log' = [log EXCEPT ![ctx[t].existing].size = call[t].size,
                                 ![ctx[t].existing].state = @ + 2]
           /\ ctx' = [ctx EXCEPT ![t].adjustment = @ + ctx[t].valueSize - call[t].size]
           /\ Goto(t, "return")
  <2>1. PICK e \in DOMAIN log : e = ctx[t].existing /\ call[t].size <= log[e].capacity
    BY <1>1, <1>2, <1>3 DEF ThreadInv
  <2>2. /\ log[e] \in LogRecord /\ log[e].state \in Nat /\ call[t].size \in Nat
        /\ ~IsCorrupted(log[e].state)
    BY <1>1, <1>2, <2>1, RecordTypes, ThreadTypes, CallsAre
  <2>3. PICK s \in Nat : s = log[e].state + 2 /\ ~IsCorrupted(s)
    <3>1. IsCorrupted(log[e].state + 2) <=> IsCorrupted(log[e].state)
      BY <2>2, Parity
    <3>2. QED
      BY <2>2, <3>1
  <2> DEFINE r == [log[e] EXCEPT !.size = call[t].size, !.state = s]
  <2>4. log' = [log EXCEPT ![e] = r]
    BY <1>5, <2>1, <2>2, <2>3 DEF LogRecord
  <2>5. /\ r \in LogRecord /\ r.state = s /\ r.key = log[e].key /\ r.size = call[t].size
        /\ r.capacity = log[e].capacity /\ r.composed = log[e].composed
    BY <2>2, <2>3 DEF LogRecord
  <2> HIDE DEF r
  <2>6. /\ LogStep(t) /\ RecordStep(t) /\ log' \in Seq(LogRecord)
        /\ Private(t) => log'[ctx[t].composing] = log[ctx[t].composing]
    <3>1. r.size <= r.capacity
      BY <2>1, <2>5
    <3>2. QED
      BY <2>1, <2>2, <2>3, <2>4, <2>5, <3>1, Released
  <2>7. PICK a \in Int : a = ctx[t].adjustment + ctx[t].valueSize - call[t].size
    BY <1>2, <2>2, ThreadTypes
  <2> DEFINE new == [ctx[t] EXCEPT !.adjustment = a]
  <2>8. ctx' = [ctx EXCEPT ![t] = new] /\ pc' = [pc EXCEPT ![t] = "return"]
    BY <1>5, <2>7 DEF Goto
  <2>9. /\ new \in Context
        /\ new.existing = ctx[t].existing /\ new.composing = ctx[t].composing
        /\ new.version = ctx[t].version /\ new.indexState = ctx[t].indexState
    BY <1>2, <2>7 DEF Context
  <2> HIDE DEF new
  <2>10. QED
    BY <1>1, <2>6, <2>8, <2>9, LeaveKeeps
<1>6. QED
  BY <1>4, <1>5 DEF SetValue

LEMMA MarkDeletedKeeps ==
    ASSUME IInv, NEW t \in Thread, MarkDeleted(t), overtaken' \in BOOLEAN
    PROVE  IInv'
<1>1. /\ pc[t] = "mark" /\ pc' = [pc EXCEPT ![t] = "return"]
      /\ log' = [log EXCEPT ![ctx[t].existing].deleted = TRUE, ![ctx[t].existing].state = @ + 1]
      /\ ctx' = [ctx EXCEPT ![t].adjustment = @ + PhysicalSize(ctx[t].valueSize)]
      /\ UNCHANGED <<dataEnd, dataLock, index, indexEnd, indexState, wasted, calls, call>>
  BY DEF MarkDeleted, Goto
<1>2. /\ TypeInv /\ ThreadInv(t) /\ ctx[t] \in Context /\ Held(t)
      /\ \A i \in DOMAIN log : log[i].size <= log[i].capacity
  BY <1>1, Types DEF IInv, Held, SlotsInv
<1>3. PICK e \in DOMAIN log : e = ctx[t].existing /\ log[e].state = ctx[t].version + 1
  BY <1>2, HeldIs
<1>4. log[e] \in LogRecord /\ ctx[t].version \in Nat /\ ~IsCorrupted(ctx[t].version)
  BY <1>2, RecordTypes, ThreadTypes DEF ThreadInv
<1>5. PICK s \in Nat : s = log[e].state + 1 /\ ~IsCorrupted(s)
  <2>1. IsCorrupted(ctx[t].version + 2) <=> IsCorrupted(ctx[t].version)
    BY <1>4, Parity
  <2>2. QED
    BY <1>3, <1>4, <2>1
<1> DEFINE r == [log[e] EXCEPT !.deleted = TRUE, !.state = s]
<1>6. log' = [log EXCEPT ![e] = r]
  BY <1>1, <1>3, <1>4, <1>5 DEF LogRecord
<1>7. /\ r \in LogRecord /\ r.state = s /\ r.key = log[e].key
      /\ r.capacity = log[e].capacity /\ r.size = log[e].size /\ r.composed = log[e].composed
  BY <1>4 DEF LogRecord
<1> HIDE DEF r
<1>8. /\ LogStep(t) /\ RecordStep(t) /\ log' \in Seq(LogRecord)
      /\ Private(t) => log'[ctx[t].composing] = log[ctx[t].composing]
  <2>1. r.size <= r.capacity
    BY <1>2, <1>7
  <2>2. QED
    BY <1>2, <1>3, <1>5, <1>6, <1>7, <2>1, Released
<1>9. PICK a \in Int : a = ctx[t].adjustment + PhysicalSize(ctx[t].valueSize)
  BY <1>2, ThreadTypes DEF PhysicalSize
<1> DEFINE new == [ctx[t] EXCEPT !.adjustment = a]
<1>10. ctx' = [ctx EXCEPT ![t] = new]
  BY <1>1, <1>9
<1>11. /\ new \in Context
       /\ new.existing = ctx[t].existing /\ new.composing = ctx[t].composing
       /\ new.version = ctx[t].version /\ new.indexState = ctx[t].indexState
  BY <1>2, <1>9 DEF Context
<1> HIDE DEF new
<1>12. QED
  BY <1>1, <1>8, <1>10, <1>11, LeaveKeeps

LEMMA TimeOutKeeps ==
    ASSUME IInv, NEW t \in Thread, TimeOut(t), overtaken' \in BOOLEAN
    PROVE  IInv'
<1>1. UNCHANGED <<dataEnd, dataLock, index, indexEnd, indexState, wasted, calls, call>>
  BY DEF TimeOut
<1>2. "timeout" \in Errors /\ "unknown" \in Errors
  BY DEF Errors
<1>3. ASSUME NEW error \in {"timeout", "unknown"}, pc[t] \in Waiting \cup {"setValue"},
             Fail(t, error), UNCHANGED log
      PROVE  IInv'
  <2>1. ~Held(t) /\ pc[t] \notin {"idle", "inserting", "modifying", "appending", "return"}
    BY <1>3 DEF Held, Waiting
  <2>2. /\ LogStep(t) /\ RecordStep(t) /\ log' \in Seq(LogRecord)
        /\ Private(t) => log'[ctx[t].composing] = log[ctx[t].composing]
    BY <1>3, <2>1, Unheld
  <2>3. QED
    BY <1>1, <1>2, <1>3, <2>1, <2>2, FailKeeps
<1>4. ASSUME NEW n \in {-1, 1}, pc[t] \in {"modify", "remove", "mark"}, Fail(t, "timeout"),
             log' = [log EXCEPT ![ctx[t].existing].state = @ + n]
      PROVE  IInv'
  <2>1. Held(t) /\ pc[t] \notin {"idle", "inserting", "modifying", "appending", "return"}
    BY <1>4 DEF Held
  <2>2. /\ LogStep(t) /\ RecordStep(t) /\ log' \in Seq(LogRecord)
        /\ Private(t) => log'[ctx[t].composing] = log[ctx[t].composing]
    BY <1>4, <2>1, GivenBack
  <2>3. QED
    BY <1>1, <1>2, <1>4, <2>1, <2>2, FailKeeps
<1>5. CASE pc[t] \in Waiting /\ Fail(t, "timeout") /\ UNCHANGED log
  BY <1>3, <1>5
<1>6. CASE pc[t] = "setValue" /\ Fail(t, "unknown") /\ UNCHANGED log
  BY <1>3, <1>6
<1>7. CASE /\ pc[t] = "modify" /\ Fail(t, "timeout")
           /\ log' = [log EXCEPT ![ctx[t].existing].state = @ - 1]
  <2>1. log' = [log EXCEPT ![ctx[t].existing].state = @ + (-1)]
    <3>1. \A e \in DOMAIN log : log[e].state - 1 = log[e].state + (-1)
      BY RecordTypes DEF IInv
    <3>2. ctx[t].existing \in DOMAIN log
      BY <1>7, HeldIs DEF IInv, Held
    <3>3. QED
      BY <1>7, <3>1, <3>2
  <2>2. QED
    BY <1>4, <1>7, <2>1
<1>8. CASE /\ pc[t] \in {"remove", "mark"} /\ Fail(t, "timeout")
           /\ log' = [log EXCEPT ![ctx[t].existing].state = @ + 1]
  BY <1>4, <1>8
<1>9. QED
  BY <1>5, <1>6, <1>7, <1>8 DEF TimeOut

-----------------------------------------------------------------------------
(* The steps of the calls that hold a record.                              *)

\* A call that has come to hold a record, or holds it still.
LEMMA Grips ==
    ASSUME IInv, TypeInv', NEW t \in Thread, LogStep(t),
           pc[t] \in SearchedPC \cup FoundPC, ctx[t].found, pc[t] # "idle",
           pc'[t] \in {"modify", "modifying", "unlockReplaced", "remove", "mark"},
           pc'[t] \in {"modify", "modifying", "unlockReplaced"} => call[t].op = "Set",
           call'[t] = call[t],
           ctx'[t].existing = ctx[t].existing, ctx'[t].composing = ctx[t].composing,
           ctx'[t].indexState = ctx[t].indexState, ctx'[t].found = ctx[t].found,
           ctx'[t].order = ctx[t].order, ctx'[t].version = ctx[t].version,
           log'[ctx[t].existing].state = ctx[t].version + 1,
           LastStable <= LastStable', Fresh(t)' => Fresh(t) /\ index' = index,
           pc'[t] \in {"modify", "modifying"} =>
                ctx[t].composing # 0 /\ log'[ctx[t].composing].composed,
           pc'[t] = "modifying" => indexState' = ctx[t].indexState + 1,
           Private(t)' => /\ Private(t) /\ Range(index') \subseteq Range(index)
                          /\ LET r == log'[ctx[t].composing]
                             IN /\ r.key = call[t].key
                                /\ r.size = call[t].size /\ r.capacity = call[t].size
                                /\ ~r.deleted
                                /\ r.composed => ~IsCorrupted(r.state)
    PROVE  ThreadInv(t)' /\ ~Inserts(t)' /\ Held(t)'
<1>1. /\ ThreadInv(t) /\ Len(log) \in Nat /\ Len(log') \in Nat
      /\ DOMAIN log = 1 .. Len(log) /\ DOMAIN log' = 1 .. Len(log')
      /\ LastStable \in Nat /\ LastStable' \in Nat /\ Len(log) <= Len(log')
      /\ ctx[t].existing \in Nat /\ ctx[t].composing \in Nat /\ ctx[t].indexState \in Nat
  BY Domains, DomainsNext, ThreadTypes DEF IInv, LogStep
<1>2. /\ pc'[t] \notin NewPC /\ pc'[t] \in FoundPC
      /\ pc'[t] \notin {"idle", "insert", "inserting", "appending", "setValue", "lockReplace"}
      /\ pc'[t] \in SetPC => pc'[t] \in {"modify", "modifying", "unlockReplaced"}
      /\ pc'[t] \in IndexPC => pc'[t] = "modifying"
  BY DEF NewPC, FoundPC, SetPC, IndexPC
<1>3. ~Inserts(t)' /\ Held(t)'
  BY <1>2 DEF Inserts, Held
<1>4. /\ call[t] \in Calls /\ ~IsCorrupted(ctx[t].version)
      /\ ctx[t].existing \in 0 .. Len(log) /\ ctx[t].composing \in 0 .. Len(log)
      /\ ctx[t].existing \in DOMAIN log /\ log[ctx[t].existing].composed
      /\ log[ctx[t].existing].key = call[t].key
      /\ ctx[t].indexState <= LastStable
  BY <1>1 DEF ThreadInv
<1>5. /\ ctx[t].existing \in 0 .. Len(log') /\ ctx[t].composing \in 0 .. Len(log')
      /\ ctx[t].existing \in DOMAIN log' /\ log'[ctx[t].existing].composed
      /\ log'[ctx[t].existing].key = call[t].key
      /\ ctx[t].indexState <= LastStable'
  BY <1>1, <1>4 DEF LogStep
<1>6. Fresh(t)' => ctx[t].order <= Len(index') /\ ctx[t].order < Len(index')
  BY <1>1 DEF ThreadInv
<1>7. Private(t)' => ctx[t].composing \notin Range(index')
  BY <1>1 DEF ThreadInv
<1>8. ThreadInv(t)'
  BY <1>2, <1>3, <1>4, <1>5, <1>6, <1>7 DEF ThreadInv
<1>9. QED
  BY <1>3, <1>8

\* The record of a call that is still private.
LEMMA PrivateRecord ==
    ASSUME IInv, NEW t \in Thread, Private(t)
    PROVE  LET r == log[ctx[t].composing]
           IN /\ r.key = call[t].key
              /\ r.size = call[t].size /\ r.capacity = call[t].size
              /\ ~r.deleted
              /\ r.composed => ~IsCorrupted(r.state)
BY DEF IInv, ThreadInv

LEMMA LockReplaceKeeps ==
    ASSUME IInv, NEW t \in Thread, LockReplace(t), overtaken' \in BOOLEAN
    PROVE  IInv'
<1>1. /\ pc[t] = "lockReplace" /\ ~IsCorrupted(log[ctx[t].existing].state)
      /\ UNCHANGED <<dataEnd, dataLock, index, indexEnd, indexState, wasted, calls, call, ctx>>
  BY DEF LockReplace, Existing
<1>2. /\ TypeInv /\ ThreadInv(t) /\ Apart(t, t) /\ ctx[t] \in Context
      /\ ctx' = [ctx EXCEPT ![t] = ctx[t]]
      /\ log \in Seq(LogRecord) /\ \A i \in DOMAIN log : log[i].size <= log[i].capacity
  BY <1>1, Types DEF IInv, SlotsInv
<1>3. ~Held(t) /\ pc[t] \in SearchedPC /\ pc[t] \in FoundPC /\ pc[t] \in SetPC
  BY <1>1 DEF Held, SearchedPC, FoundPC, SetPC
<1>4. CASE Goto(t, "search") /\ UNCHANGED log
  <2>1. /\ LogStep(t) /\ RecordStep(t) /\ log' \in Seq(LogRecord)
        /\ Private(t) => log'[ctx[t].composing] = log[ctx[t].composing]
    BY <1>3, <1>4, Unheld
  <2>2. QED
    BY <1>1, <1>4, <2>1, RestartKeeps
<1>5. CASE /\ log[ctx[t].existing].state = ctx[t].version
           /\ log' = [log EXCEPT ![ctx[t].existing].state = @ + 1,
                                 ![ctx[t].composing] = Record(call[t].key, ctx[t].version + 4,
                                                              call[t].size)]
           /\ Goto(t, "modify")
  <2>1. /\ call[t] \in Calls /\ call[t].op = "Set" /\ ctx[t].found /\ ctx[t].composing # 0
        /\ ctx[t].existing \in DOMAIN log /\ log[ctx[t].existing].composed
    BY <1>1, <1>2, <1>3 DEF ThreadInv
  <2>2. Private(t)
    BY <1>1, <2>1 DEF Private
  <2>3. PICK e \in DOMAIN log : e = ctx[t].existing /\ log[e].state = ctx[t].version
    BY <1>5, <2>1
  <2>4. PICK c \in DOMAIN log : c = ctx[t].composing /\ c # e /\ c \notin Range(index)
    BY <1>2, <2>2, <2>3, PrivateIs DEF Apart
  <2>5. /\ log[c].key = call[t].key /\ log[c].size = call[t].size
        /\ log[c].capacity = call[t].size
    BY <2>2, <2>4, PrivateRecord
  <2>6. PICK v \in Nat : v = ctx[t].version + 4 /\ ~IsCorrupted(v)
    <3>1. ctx[t].version \in Nat /\ ~IsCorrupted(ctx[t].version)
      BY <1>2, ThreadTypes DEF ThreadInv
    <3>2. IsCorrupted(ctx[t].version + 4) <=> IsCorrupted(ctx[t].version)
      BY <3>1, Parity
    <3>3. QED
      BY <3>1, <3>2
  <2>7. PICK s \in Nat : s = log[e].state + 1
    BY <1>2, RecordTypes
  <2> DEFINE new == [log[e] EXCEPT !.state = s]
             r == Record(call[t].key, v, call[t].size)
  <2>8. /\ new \in LogRecord /\ new.state = s /\ new.key = log[e].key
        /\ new.capacity = log[e].capacity /\ new.size = log[e].size
        /\ new.composed = log[e].composed
    BY <1>2, WithState, RecordTypes
  <2>9. /\ r \in LogRecord /\ r.key = call[t].key /\ r.size = call[t].size
        /\ r.capacity = call[t].size /\ r.composed /\ ~r.deleted /\ r.state = v
        /\ call[t].size \in Nat
    BY <2>1, CallsAre, RecordIs
  <2>10. log' = [[log EXCEPT ![e] = new] EXCEPT ![c] = r]
    BY <1>5, <2>3, <2>4, <2>6, <2>7
  <2> HIDE DEF new, r
  <2>11. /\ log' \in Seq(LogRecord) /\ Len(log') = Len(log) /\ DOMAIN log' = DOMAIN log
         /\ log'[e] = new /\ log'[c] = r
         /\ \A i \in DOMAIN log : i # e /\ i # c => log'[i] = log[i]
    <3> DEFINE mid == [log EXCEPT ![e] = new]
    <3>1. /\ mid \in Seq(LogRecord) /\ Len(mid) = Len(log) /\ DOMAIN mid = DOMAIN log
          /\ mid[e] = new /\ \A i \in DOMAIN log : i # e => mid[i] = log[i]
      BY <1>2, <2>8, ExceptSeq
    <3>2. log' = [mid EXCEPT ![c] = r]
      BY <2>10
    <3> HIDE DEF mid
    <3>3. /\ log' \in Seq(LogRecord) /\ Len(log') = Len(mid) /\ DOMAIN log' = DOMAIN mid
          /\ log'[c] = r /\ \A i \in DOMAIN mid : i # c => log'[i] = mid[i]
      BY <2>9, <3>1, <3>2, ExceptSeq
    <3>4. QED
      BY <2>4, <3>1, <3>3
  <2>12. LogStep(t)
    <3>1. \A i \in DOMAIN log : i = e \/ i = c \/ (i # e /\ i # c)
      OBVIOUS
    <3>2. Len(log) \in Nat
      BY <1>2, Domains
    <3>3. ~IsCorrupted(log[e].state)
      BY <1>1, <2>3
    <3>4. \A i \in DOMAIN log :
            /\ log'[i].key = log[i].key /\ log'[i].capacity = log[i].capacity
            /\ log[i].composed => log'[i].composed
            /\ log'[i].size <= log'[i].capacity
      BY <1>2, <2>5, <2>8, <2>9, <2>11, <3>1
    <3>5. QED
      BY <2>2, <2>3, <2>4, <2>11, <3>1, <3>2, <3>3, <3>4 DEF LogStep
  <2>13. pc' = [pc EXCEPT ![t] = "modify"]
    BY <1>5 DEF Goto
  <2>14. /\ TypeInv' /\ Frame(t) /\ pc'[t] = "modify" /\ ctx'[t] = ctx[t] /\ call'[t] = call[t]
         /\ LastStable' = LastStable /\ LastStable \in Nat
    <3>1. "modify" \in PCs /\ log' \in Seq(LogRecord)
      BY <2>11 DEF PCs
    <3>2. QED
      BY <1>1, <1>2, <2>13, <3>1, Moves
  <2>15. Held(t)' /\ Private(t)' /\ (Fresh(t)' => Fresh(t))
    BY <1>3, <2>1, <2>14 DEF Held, Private, Fresh
  <2>16. RecordStep(t)
    <3>1. ~IsCorrupted(log'[c].state)
      BY <2>6, <2>9, <2>11
    <3>2. QED
      BY <1>3, <2>3, <2>11, <2>14, <2>15, <3>1 DEF RecordStep
  <2>17. ThreadInv(t)' /\ ~Inserts(t)'
    <3>1. /\ log'[ctx[t].existing].state = ctx[t].version + 1
          /\ log'[ctx[t].composing].composed
      BY <2>3, <2>4, <2>7, <2>8, <2>9, <2>11
    <3>2. LET q == log'[ctx[t].composing]
          IN /\ q.key = call[t].key
             /\ q.size = call[t].size /\ q.capacity = call[t].size
             /\ ~q.deleted
             /\ q.composed => ~IsCorrupted(q.state)
      BY <2>4, <2>6, <2>9, <2>11
    <3>3. LastStable <= LastStable' /\ index' = index
      BY <1>1, <2>14
    <3>4. pc[t] # "idle"
      BY <1>1
    <3>5. QED
      BY <1>3, <2>1, <2>2, <2>12, <2>14, <2>15, <3>1, <3>2, <3>3, <3>4, Grips
  <2>18. ChoiceStep(t)
    BY <1>1, <2>1, <2>2, <2>14 DEF ChoiceStep
  <2>19. Quiet(t)
    BY <1>1, <2>14, <2>17 DEF Quiet
  <2>20. QED
    BY <2>12, <2>14, <2>16, <2>17, <2>18, <2>19, QuietKeeps
<1>6. QED
  BY <1>4, <1>5 DEF LockReplace, Existing

LEMMA LockDeleteKeeps ==
    ASSUME IInv, NEW t \in Thread, LockDelete(t), overtaken' \in BOOLEAN
    PROVE  IInv'
<1>1. /\ pc[t] = "lockDelete" /\ ~IsCorrupted(log[ctx[t].existing].state)
      /\ UNCHANGED <<dataEnd, dataLock, index, indexEnd, indexState, wasted, calls, call, ctx>>
  BY DEF LockDelete, Existing
<1>2. /\ TypeInv /\ ThreadInv(t) /\ Apart(t, t) /\ ctx[t] \in Context
      /\ ctx' = [ctx EXCEPT ![t] = ctx[t]]
      /\ \A i \in DOMAIN log : log[i].size <= log[i].capacity
  BY <1>1, Types DEF IInv, SlotsInv
<1>3. ~Held(t) /\ pc[t] \in SearchedPC /\ pc[t] \in FoundPC
  BY <1>1 DEF Held, SearchedPC, FoundPC
<1>4. CASE Goto(t, "search") /\ UNCHANGED log
  <2>1. /\ LogStep(t) /\ RecordStep(t) /\ log' \in Seq(LogRecord)
        /\ Private(t) => log'[ctx[t].composing] = log[ctx[t].composing]
    BY <1>3, <1>4, Unheld
  <2>2. QED
    BY <1>1, <1>4, <2>1, RestartKeeps
<1>5. CASE /\ log[ctx[t].existing].state = ctx[t].version
           /\ log' = [log EXCEPT ![ctx[t].existing].state = @ + 1]
           /\ Goto(t, "remove")
  <2>1. call[t] \in Calls /\ ctx[t].found /\ ctx[t].existing \in DOMAIN log
    BY <1>1, <1>2, <1>3 DEF ThreadInv
  <2>2. PICK e \in DOMAIN log : e = ctx[t].existing /\ log[e].state = ctx[t].version
    BY <1>5, <2>1
  <2>3. log[e] \in LogRecord
    BY <1>2, RecordTypes
  <2>4. PICK s \in Nat : s = log[e].state + 1
    BY <1>2, RecordTypes
  <2> DEFINE new == [log[e] EXCEPT !.state = s]
  <2>5. /\ new \in LogRecord /\ new.state = s /\ new.key = log[e].key
        /\ new.capacity = log[e].capacity /\ new.size = log[e].size
        /\ new.composed = log[e].composed
    BY <2>3, WithState
  <2>6. log' = [log EXCEPT ![e] = new]
    BY <1>5, <2>2, <2>4
  <2> HIDE DEF new
  <2>7. pc' = [pc EXCEPT ![t] = "remove"]
    BY <1>5 DEF Goto
  <2>8. log' \in Seq(LogRecord)
    BY <2>5, <2>6, Types, ExceptSeq
  <2>9. /\ TypeInv' /\ Frame(t) /\ pc'[t] = "remove" /\ ctx'[t] = ctx[t] /\ call'[t] = call[t]
        /\ LastStable' = LastStable /\ LastStable \in Nat
    <3>1. "remove" \in PCs
      BY DEF PCs
    <3>2. QED
      BY <1>1, <1>2, <2>7, <2>8, <3>1, Moves
  <2>10. /\ Held(t)' /\ (Private(t)' => Private(t)) /\ (Fresh(t)' => Fresh(t))
         /\ ctx'[t].existing = e
    BY <1>1, <1>3, <2>2, <2>9 DEF Held, Private, Fresh
  <2>11. /\ LogStep(t) /\ RecordStep(t) /\ log'[e] = new
         /\ \A i \in DOMAIN log : i # e => log'[i] = log[i]
    <3>1. /\ e = ctx[t].existing /\ ~IsCorrupted(log[e].state) /\ new.size <= new.capacity
          /\ (log[e].composed => new.composed)
          /\ new.key = log[e].key /\ new.capacity = log[e].capacity
      BY <1>1, <1>2, <2>2, <2>5
    <3>2. QED
      BY <2>5, <2>6, <2>10, <3>1, OneRecord
  <2>12. ThreadInv(t)' /\ ~Inserts(t)'
    <3>1. log'[ctx[t].existing].state = ctx[t].version + 1
      BY <2>2, <2>4, <2>5, <2>11
    <3>2. Private(t)' => /\ Private(t) /\ Range(index') \subseteq Range(index)
                         /\ LET q == log'[ctx[t].composing]
                            IN /\ q.key = call[t].key
                               /\ q.size = call[t].size /\ q.capacity = call[t].size
                               /\ ~q.deleted
                               /\ q.composed => ~IsCorrupted(q.state)
      <4> SUFFICES ASSUME Private(t) PROVE log'[ctx[t].composing] = log[ctx[t].composing]
        BY <1>1, <2>10, PrivateRecord
      <4>1. ctx[t].composing \in DOMAIN log /\ ctx[t].composing # e
        BY <1>2, <2>2, PrivateIs DEF Apart
      <4>2. QED
        BY <2>11, <4>1
    <3>3. LastStable <= LastStable' /\ index' = index
      BY <1>1, <2>9
    <3>4. pc[t] # "idle"
      BY <1>1
    <3>5. QED
      BY <1>3, <2>1, <2>9, <2>10, <2>11, <3>1, <3>2, <3>3, <3>4, Grips
  <2>13. ChoiceStep(t)
    BY <1>1, <2>1, <2>9, <2>10 DEF ChoiceStep
  <2>14. Quiet(t)
    BY <1>1, <2>9, <2>12 DEF Quiet
  <2>15. QED
    BY <2>9, <2>11, <2>12, <2>13, <2>14, QuietKeeps
<1>6. QED
  BY <1>4, <1>5 DEF LockDelete, Existing

LEMMA BeginModifyKeeps ==
    ASSUME IInv, NEW t \in Thread, BeginModify(t), overtaken' \in BOOLEAN
    PROVE  IInv'
<1>1. /\ pc[t] = "modify" /\ ~IsCorrupted(indexState)
      /\ UNCHANGED <<dataEnd, dataLock, index, indexEnd, wasted, calls, call, ctx>>
  BY DEF BeginModify
<1>2. /\ TypeInv /\ ThreadInv(t) /\ ctx[t] \in Context /\ ctx' = [ctx EXCEPT ![t] = ctx[t]]
  BY <1>1, Types DEF IInv
<1>3. /\ Held(t) /\ pc[t] \in SearchedPC /\ pc[t] \in FoundPC /\ pc[t] \in SetPC
      /\ pc[t] \notin {"idle", "inserting", "modifying", "appending", "unlockReplaced", "return"}
  BY <1>1 DEF Held, SearchedPC, FoundPC, SetPC
<1>4. CASE /\ log' = [log EXCEPT ![ctx[t].existing].state = @ - 1]
           /\ Goto(t, "search") /\ UNCHANGED indexState
  <2>1. ctx[t].existing \in DOMAIN log
    BY <1>2, <1>3, HeldIs
  <2>2. log' = [log EXCEPT ![ctx[t].existing].state = @ + (-1)]
    <3>1. \A e \in DOMAIN log : log[e].state - 1 = log[e].state + (-1)
      BY <1>2, RecordTypes
    <3>2. QED
      BY <1>4, <2>1, <3>1
  <2>3. /\ LogStep(t) /\ RecordStep(t) /\ log' \in Seq(LogRecord)
        /\ Private(t) => log'[ctx[t].composing] = log[ctx[t].composing]
    BY <1>3, <2>2, GivenBack
  <2>4. QED
    BY <1>1, <1>3, <1>4, <2>3, RestartKeeps
<1>5. CASE /\ indexState = ctx[t].indexState /\ indexState' = indexState + 1
           /\ Goto(t, "modifying") /\ UNCHANGED log
  <2>1. /\ call[t].op = "Set" /\ ctx[t].found /\ ctx[t].composing # 0
        /\ log[ctx[t].composing].composed /\ call[t] \in Calls
    BY <1>1, <1>2, <1>3 DEF ThreadInv
  <2>2. Private(t)
    BY <1>1, <2>1 DEF Private
  <2>3. indexState \in Nat /\ indexState + 1 \in Nat /\ IsCorrupted(indexState')
    <3>1. indexState \in Nat /\ indexState \in Int
      BY Types
    <3>2. IsCorrupted(indexState + 1) <=> ~IsCorrupted(indexState)
      BY <3>1, Parity
    <3>3. QED
      BY <1>1, <1>5, <3>1, <3>2
  <2>4. LastStable = indexState /\ LastStable' = LastStable /\ indexBegin' = indexBegin
    BY <1>1, <1>5, <2>3 DEF LastStable, indexBegin
  <2>5. TypeInv' /\ Frame(t) /\ pc'[t] = "modifying" /\ ctx'[t] = ctx[t] /\ call'[t] = call[t]
    <3>1. "modifying" \in PCs
      BY DEF PCs
    <3>2. call' = [call EXCEPT ![t] = call[t]] /\ call[t] \in Calls \cup {NoCall}
      BY <1>1, Types
    <3>3. /\ log' \in Seq(LogRecord) /\ dataEnd' \in Nat /\ dataLock' \subseteq Thread
          /\ index' \in Seq(Nat)
          /\ indexEnd' \in Nat /\ indexState' \in Nat /\ wasted' \in Int /\ calls' \in Nat
      BY <1>1, <1>5, <2>3, Types
    <3>4. pc' = [pc EXCEPT ![t] = "modifying"]
      BY <1>5 DEF Goto
    <3>5. QED
      BY <1>2, <3>1, <3>2, <3>3, <3>4, TypeStep
  <2>6. Held(t)' /\ (Fresh(t)' => Fresh(t))
    BY <1>3, <2>4, <2>5 DEF Held, Fresh
  <2>7. LogStep(t) /\ RecordStep(t)
    BY <1>5, <2>5, <2>6, SameLog
  <2>8. IndexStep(t)
    <3>1. \A u \in Thread : pc[u] \notin IndexPC
      BY <1>1 DEF IInv, LocksInv
    <3>2. indexEnd <= MaxEnd /\ LastStable \in Nat /\ Len(index) \in Nat
      BY <1>2, Domains DEF IInv, SlotsInv
    <3>3. QED
      BY <1>1, <2>4, <3>1, <3>2 DEF IndexStep, Range
  <2>9. ThreadInv(t)' /\ ~Inserts(t)'
    <3>1. log'[ctx[t].existing].state = ctx[t].version + 1 /\ log'[ctx[t].composing].composed
      BY <1>2, <1>3, <1>5, <2>1, HeldIs
    <3>2. LET q == log'[ctx[t].composing]
          IN /\ q.key = call[t].key
             /\ q.size = call[t].size /\ q.capacity = call[t].size
             /\ ~q.deleted
             /\ q.composed => ~IsCorrupted(q.state)
      BY <1>5, <2>2, PrivateRecord
    <3>3. LastStable <= LastStable' /\ index' = index /\ pc[t] # "idle"
      BY <1>1, <2>3, <2>4
    <3>4. indexState' = ctx[t].indexState + 1
      BY <1>5
    <3>5. QED
      BY <1>3, <2>1, <2>2, <2>5, <2>6, <2>7, <3>1, <3>2, <3>3, <3>4, Grips
  <2>10. ChoiceStep(t)
    BY <1>3, <2>2, <2>5 DEF ChoiceStep
  <2>11. LockStep(t)
    BY <1>1, <2>3, <2>5 DEF LockStep, IndexPC
  <2>12. RoomInv'
    <3>1. indexBegin \in Int
      BY <1>2, Domains
    <3>2. RoomStep(t)
      BY <1>1, <2>4, <2>5, <2>9, <3>1 DEF RoomStep
    <3>3. QED
      BY <2>5, <2>7, <2>8, <3>2, RoomStays
  <2>13. QED
    BY <2>5, <2>7, <2>8, <2>9, <2>10, <2>11, <2>12, Keeps
<1>6. QED
  BY <1>4, <1>5 DEF BeginModify

\* A slot that leads elsewhere.
LEMMA OtherSlot ==
    ASSUME NEW s \in Seq(Nat), NEW i \in 1 .. Len(s), NEW e \in Nat
    PROVE  /\ ReplaceAt(s, i, e) \in Seq(Nat) /\ Len(ReplaceAt(s, i, e)) = Len(s)
           /\ DOMAIN ReplaceAt(s, i, e) = 1 .. Len(s)
           /\ \A j \in DOMAIN ReplaceAt(s, i, e) :
                ReplaceAt(s, i, e)[j] \in Range(s) \/ ReplaceAt(s, i, e)[j] = e
<1> DEFINE r == ReplaceAt(s, i, e)
<1>1. /\ r \in Seq(Nat) /\ Len(r) = Len(s)
      /\ \A j \in 1 .. Len(s) : r[j] = IF j = i THEN e ELSE s[j]
  BY SlotReplaced
<1> HIDE DEF r
<1>2. DOMAIN r = 1 .. Len(s) /\ DOMAIN s = 1 .. Len(s)
  BY <1>1
<1>3. /\ r \in Seq(Nat) /\ Len(r) = Len(s) /\ DOMAIN r = 1 .. Len(s)
      /\ \A j \in DOMAIN r : r[j] \in Range(s) \/ r[j] = e
  BY <1>1, <1>2 DEF Range
<1>4. QED
  BY <1>3 DEF r

\* A slot less.
LEMMA WithoutSlot ==
    ASSUME NEW s \in Seq(Nat), NEW i \in 1 .. Len(s)
    PROVE  /\ RemoveAt(s, i) \in Seq(Nat) /\ Len(RemoveAt(s, i)) = Len(s) - 1
           /\ DOMAIN RemoveAt(s, i) = 1 .. (Len(s) - 1)
           /\ Range(RemoveAt(s, i)) \subseteq Range(s)
<1> DEFINE r == RemoveAt(s, i)
<1>1. /\ r \in Seq(Nat) /\ Len(r) = Len(s) - 1
      /\ \A j \in 1 .. (Len(s) - 1) : r[j] = IF j < i THEN s[j] ELSE s[j + 1]
  BY SlotRemoved
<1> HIDE DEF r
<1>2. DOMAIN r = 1 .. (Len(s) - 1) /\ DOMAIN s = 1 .. Len(s) /\ Len(s) \in Nat
  BY <1>1
<1>3. ASSUME NEW j \in DOMAIN r PROVE r[j] \in Range(s)
  <2>1. CASE j < i
    <3>1. j \in DOMAIN s /\ r[j] = s[j]
      BY <1>1, <1>2, <2>1
    <3>2. QED
      BY <3>1 DEF Range
  <2>2. CASE j >= i
    <3>1. j + 1 \in DOMAIN s /\ r[j] = s[j + 1]
      BY <1>1, <1>2, <2>2
    <3>2. QED
      BY <3>1 DEF Range
  <2>3. QED
    BY <1>2, <2>1, <2>2
<1>4. Range(r) \subseteq Range(s)
  BY <1>3 DEF Range
<1>5. QED
  BY <1>1, <1>2, <1>4 DEF r

LEMMA EndModifyKeeps ==
    ASSUME IInv, NEW t \in Thread, EndModify(t), overtaken' \in BOOLEAN
    PROVE  IInv'
<1> DEFINE e == ctx[t].composing
<1>1. /\ pc[t] = "modifying" /\ pc' = [pc EXCEPT ![t] = "unlockReplaced"]
      /\ index' = ReplaceAt(index, ctx[t].order + 1, e)
      /\ indexState' = indexState - 1
      /\ ctx' = [ctx EXCEPT ![t].adjustment =
                     @ - PhysicalSize(call[t].size) + PhysicalSize(ctx[t].valueSize)]
      /\ UNCHANGED <<log, dataEnd, dataLock, indexEnd, wasted, calls, call>>
  BY DEF EndModify, Goto
<1>2. TypeInv /\ ThreadInv(t) /\ ctx[t] \in Context
  BY Types DEF IInv
<1>3. /\ Held(t) /\ pc[t] \in SearchedPC /\ pc[t] \in FoundPC /\ pc[t] \in SetPC
      /\ pc[t] \in IndexPC /\ pc[t] # "idle"
  BY <1>1 DEF Held, SearchedPC, FoundPC, SetPC, IndexPC
<1>4. /\ IsCorrupted(indexState) /\ indexState \in Nat /\ indexState >= 1
      /\ LastStable = indexState - 1 /\ Fresh(t)
      /\ \A u \in Thread \ {t} : pc[u] \notin IndexPC
  BY <1>3, InsideIndex
<1>5. /\ call[t].op = "Set" /\ ctx[t].found /\ e # 0
      /\ log[e].composed /\ call[t] \in Calls /\ ctx[t].order < Len(index)
  BY <1>1, <1>2, <1>3, <1>4 DEF ThreadInv
<1>6. Private(t)
  BY <1>1, <1>5 DEF Private
<1>7. ctx[t].order \in Nat /\ e \in Nat /\ index \in Seq(Nat) /\ Len(index) \in Nat
  BY <1>2, ThreadTypes, Domains, Types
<1>8. /\ index' \in Seq(Nat) /\ Len(index') = Len(index) /\ DOMAIN index' = 1 .. Len(index)
      /\ \A j \in DOMAIN index' : index'[j] \in Range(index) \/ index'[j] = e
  <2>1. PICK i \in 1 .. Len(index) : i = ctx[t].order + 1
    BY <1>5, <1>7
  <2>2. index' = ReplaceAt(index, i, e)
    BY <1>1, <2>1
  <2>3. /\ index' \in Seq(Nat) /\ Len(index') = Len(index)
        /\ DOMAIN index' = 1 .. Len(index)
        /\ \A j \in DOMAIN index' : index'[j] \in Range(index) \/ index'[j] = e
    BY <1>7, <2>2, OtherSlot
  <2>4. QED
    BY <2>3
<1>9. PICK a \in Int :
        a = ctx[t].adjustment - PhysicalSize(call[t].size) + PhysicalSize(ctx[t].valueSize)
  <2>1. ctx[t].adjustment \in Int /\ ctx[t].valueSize \in Nat /\ call[t].size \in Nat
    BY <1>2, <1>5, ThreadTypes, CallsAre
  <2>2. QED
    BY <2>1 DEF PhysicalSize
<1> DEFINE new == [ctx[t] EXCEPT !.adjustment = a]
<1>10. ctx' = [ctx EXCEPT ![t] = new]
  BY <1>1, <1>9
<1>11. /\ new \in Context /\ new.existing = ctx[t].existing /\ new.composing = ctx[t].composing
       /\ new.indexState = ctx[t].indexState /\ new.found = ctx[t].found
       /\ new.order = ctx[t].order /\ new.version = ctx[t].version
  BY <1>2, <1>9 DEF Context
<1> HIDE DEF new
<1>12. /\ indexState' \in Nat /\ ~IsCorrupted(indexState')
       /\ LastStable' = LastStable /\ LastStable \in Nat
  <2>1. indexState - 1 \in Nat /\ (IsCorrupted(indexState - 1) <=> ~IsCorrupted(indexState))
    BY <1>4, Parity
  <2>2. LastStable' = indexState'
    BY <1>1, <1>4, <2>1 DEF LastStable
  <2>3. QED
    BY <1>1, <1>4, <2>1, <2>2
<1>13. TypeInv' /\ Frame(t) /\ pc'[t] = "unlockReplaced" /\ ctx'[t] = new /\ call'[t] = call[t]
  <2>1. "unlockReplaced" \in PCs
    BY DEF PCs
  <2>2. call' = [call EXCEPT ![t] = call[t]] /\ call[t] \in Calls \cup {NoCall}
    BY <1>1, Types
  <2>3. /\ log' \in Seq(LogRecord) /\ dataEnd' \in Nat /\ dataLock' \subseteq Thread
        /\ index' \in Seq(Nat)
        /\ indexEnd' \in Nat /\ indexState' \in Nat /\ wasted' \in Int /\ calls' \in Nat
    BY <1>1, <1>8, <1>12, Types
  <2>4. new \in Context /\ pc' = [pc EXCEPT ![t] = "unlockReplaced"]
    BY <1>1, <1>11
  <2>5. QED
    BY <1>10, <2>1, <2>2, <2>3, <2>4, TypeStep
<1>14. Held(t)' /\ ~Private(t)' /\ ~Fresh(t)'
  BY <1>13 DEF Held, Private, Fresh, SearchedPC, NewPC
<1>15. LogStep(t) /\ RecordStep(t)
  BY <1>1, <1>11, <1>13, <1>14, SameLog
<1>16. IndexStep(t)
  <2>1. indexEnd <= MaxEnd
    BY DEF IInv, SlotsInv
  <2>2. LastStable <= LastStable' /\ Len(index) <= Len(index')
    BY <1>7, <1>8, <1>12
  <2>3. QED
    BY <1>1, <1>4, <1>5, <1>6, <1>8, <2>1, <2>2 DEF IndexStep
<1>17. ThreadInv(t)' /\ ~Inserts(t)'
  <2>1. log'[ctx[t].existing].state = ctx[t].version + 1
    BY <1>1, <1>2, <1>3, HeldIs
  <2>2. LastStable <= LastStable'
    BY <1>12
  <2>3. pc'[t] # "modify" /\ pc'[t] # "modifying"
    BY <1>13
  <2>4. QED
    BY <1>3, <1>5, <1>11, <1>13, <1>14, <1>15, <2>1, <2>2, <2>3, Grips
<1>18. ChoiceStep(t)
  BY <1>3, <1>11, <1>13, <1>14 DEF ChoiceStep
<1>19. LockStep(t)
  BY <1>1, <1>3, <1>12, <1>13 DEF LockStep, IndexPC
<1>20. RoomInv'
  <2>1. indexBegin' = indexBegin /\ indexBegin \in Int
    BY <1>1, <1>2, <1>8, Domains DEF indexBegin
  <2>2. RoomStep(t)
    BY <1>1, <1>13, <1>17, <2>1 DEF RoomStep
  <2>3. QED
    BY <1>13, <1>15, <1>16, <2>2, RoomStays
<1>21. QED
  BY <1>13, <1>15, <1>16, <1>17, <1>18, <1>19, <1>20, Keeps

LEMMA RemoveSlotKeeps ==
    ASSUME IInv, NEW t \in Thread, RemoveSlot(t), overtaken' \in BOOLEAN
    PROVE  IInv'
<1>1. /\ pc[t] = "remove" /\ ~IsCorrupted(indexState)
      /\ UNCHANGED <<dataEnd, dataLock, wasted, calls, call>>
  BY DEF RemoveSlot
<1>2. TypeInv /\ ThreadInv(t) /\ Apart(t, t) /\ ctx[t] \in Context
  BY Types DEF IInv
<1>3. /\ Held(t) /\ pc[t] \in SearchedPC /\ pc[t] \in FoundPC
      /\ pc[t] \notin {"idle", "inserting", "modifying", "appending", "unlockReplaced", "return"}
  BY <1>1 DEF Held, SearchedPC, FoundPC
<1>4. CASE /\ log' = [log EXCEPT ![ctx[t].existing].state = @ - 1]
           /\ Goto(t, "search") /\ UNCHANGED <<index, indexEnd, indexState, ctx>>
  <2>1. ctx[t].existing \in DOMAIN log
    BY <1>2, <1>3, HeldIs
  <2>2. log' = [log EXCEPT ![ctx[t].existing].state = @ + (-1)]
    <3>1. \A e \in DOMAIN log : log[e].state - 1 = log[e].state + (-1)
      BY <1>2, RecordTypes
    <3>2. QED
      BY <1>4, <2>1, <3>1
  <2>3. /\ LogStep(t) /\ RecordStep(t) /\ log' \in Seq(LogRecord)
        /\ Private(t) => log'[ctx[t].composing] = log[ctx[t].composing]
    BY <1>3, <2>2, GivenBack
  <2>4. QED
    BY <1>1, <1>3, <1>4, <2>3, RestartKeeps
<1>5. ASSUME indexState = ctx[t].indexState, NEW room \in {0, 1}, indexEnd' = indexEnd - room,
             ctx' = [ctx EXCEPT ![t].adjustment = @ + room],
             index' = RemoveAt(index, ctx[t].order + 1), indexState' = indexState + 2,
             Goto(t, "mark"), UNCHANGED log
      PROVE  IInv'
  <2>1. indexState \in Nat /\ LastStable = indexState
    BY <1>1, Types DEF LastStable
  <2>2. Fresh(t) /\ ctx[t].found /\ call[t] \in Calls /\ ctx[t].existing \in DOMAIN log
    BY <1>2, <1>3, <1>5, <2>1 DEF Fresh, ThreadInv
  <2>3. /\ ctx[t].order < Len(index) /\ ctx[t].order \in Nat /\ index \in Seq(Nat)
        /\ Len(index) \in Nat
    BY <1>2, <2>2, ThreadTypes, Domains, Types DEF ThreadInv
  <2>4. /\ index' \in Seq(Nat) /\ Len(index') = Len(index) - 1
        /\ Range(index') \subseteq Range(index)
    <3>1. PICK i \in 1 .. Len(index) : i = ctx[t].order + 1
      BY <2>3
    <3>2. index' = RemoveAt(index, i)
      BY <1>5, <3>1
    <3>3. QED
      BY <2>3, <3>2, WithoutSlot
  <2>5. /\ indexEnd' \in Nat /\ indexEnd' <= MaxEnd
        /\ indexBegin' \in Int /\ indexBegin \in Int /\ indexBegin <= indexBegin'
    <3>1. /\ indexBegin = indexEnd - Len(index) /\ dataEnd <= indexBegin /\ indexEnd <= MaxEnd
          /\ dataEnd \in Nat /\ indexEnd \in Nat /\ MaxEnd \in Nat
      BY <1>2, Types, Domains, SizesAreNaturals DEF IInv, RoomInv, SlotsInv
    <3>2. indexBegin' = indexEnd' - Len(index')
      BY <1>5, <2>3, <2>4, <3>1 DEF indexBegin, Scale
    <3>3. QED
      BY <1>5, <2>3, <2>4, <3>1, <3>2
  <2>6. indexState' \in Nat /\ ~IsCorrupted(indexState') /\ LastStable' = LastStable + 2
    <3>1. indexState + 2 \in Nat /\ (IsCorrupted(indexState + 2) <=> IsCorrupted(indexState))
      BY <2>1, Parity
    <3>2. LastStable' = indexState'
      BY <1>1, <1>5, <3>1 DEF LastStable
    <3>3. QED
      BY <1>1, <1>5, <2>1, <3>1, <3>2
  <2> DEFINE new == [ctx[t] EXCEPT !.adjustment = @ + room]
  <2>7. ctx' = [ctx EXCEPT ![t] = new] /\ pc' = [pc EXCEPT ![t] = "mark"]
    BY <1>5 DEF Goto
  <2>8. /\ new \in Context /\ new.existing = ctx[t].existing /\ new.composing = ctx[t].composing
        /\ new.indexState = ctx[t].indexState /\ new.found = ctx[t].found
        /\ new.order = ctx[t].order /\ new.version = ctx[t].version
    <3>1. ctx[t].adjustment + room \in Int
      BY <1>2, ThreadTypes
    <3>2. QED
      BY <1>2, <3>1 DEF Context
  <2> HIDE DEF new
  <2>9. TypeInv' /\ Frame(t) /\ pc'[t] = "mark" /\ ctx'[t] = new /\ call'[t] = call[t]
    <3>1. "mark" \in PCs
      BY DEF PCs
    <3>2. call' = [call EXCEPT ![t] = call[t]] /\ call[t] \in Calls \cup {NoCall}
      BY <1>1, Types
    <3>3. /\ log' \in Seq(LogRecord) /\ dataEnd' \in Nat /\ dataLock' \subseteq Thread
          /\ index' \in Seq(Nat)
          /\ indexEnd' \in Nat /\ indexState' \in Nat /\ wasted' \in Int /\ calls' \in Nat
      BY <1>1, <1>5, <2>4, <2>5, <2>6, Types
    <3>4. new \in Context
      BY <2>8
    <3>5. QED
      BY <2>7, <3>1, <3>2, <3>3, <3>4, TypeStep
  <2>10. /\ Held(t)' /\ (Private(t)' => Private(t))
    BY <1>3, <2>8, <2>9 DEF Held, Private
  <2>11. LogStep(t) /\ RecordStep(t)
    BY <1>5, <2>8, <2>9, <2>10, SameLog
  <2>12. IndexStep(t)
    <3>1. \A u \in Thread : pc[u] \notin IndexPC
      BY <1>1 DEF IInv, LocksInv
    <3>2. \A i \in DOMAIN index' : index'[i] \in Range(index)
      BY <2>4 DEF Range
    <3>3. LastStable <= LastStable' /\ LastStable' # LastStable
      BY <2>1, <2>6
    <3>4. QED
      BY <2>5, <3>1, <3>2, <3>3 DEF IndexStep
  <2>13. ThreadInv(t)' /\ ~Inserts(t)'
    <3>1. log'[ctx[t].existing].state = ctx[t].version + 1
      BY <1>2, <1>3, <1>5, HeldIs
    <3>2. LastStable <= LastStable' /\ ~Fresh(t)'
      <4>1. LastStable' \in Nat /\ ctx'[t].indexState = LastStable
        BY <1>5, <2>1, <2>6, <2>8, <2>9
      <4>2. QED
        BY <2>1, <2>6, <4>1 DEF Fresh
    <3>3. Private(t)' => /\ Private(t) /\ Range(index') \subseteq Range(index)
                         /\ LET q == log'[ctx[t].composing]
                            IN /\ q.key = call[t].key
                               /\ q.size = call[t].size /\ q.capacity = call[t].size
                               /\ ~q.deleted
                               /\ q.composed => ~IsCorrupted(q.state)
      BY <1>5, <2>4, <2>10, PrivateRecord
    <3>4. pc'[t] \notin {"modify", "modifying", "unlockReplaced"}
      BY <2>9
    <3>5. QED
      BY <1>3, <2>2, <2>8, <2>9, <2>11, <3>1, <3>2, <3>3, <3>4, Grips
  <2>14. ChoiceStep(t)
    BY <1>3, <2>8, <2>9, <2>10 DEF ChoiceStep
  <2>15. LockStep(t)
    BY <1>1, <2>6, <2>9 DEF LockStep, IndexPC
  <2>16. RoomInv'
    <3>1. RoomStep(t)
      BY <1>1, <2>5, <2>9, <2>13 DEF RoomStep
    <3>2. QED
      BY <2>9, <2>11, <2>12, <3>1, RoomStays
  <2>17. QED
    BY <2>9, <2>11, <2>12, <2>13, <2>14, <2>15, <2>16, Keeps
<1>6. QED
  BY <1>4, <1>5 DEF RemoveSlot, Scale

LEMMA ReturnKeeps ==
    ASSUME IInv, NEW t \in Thread, Return(t), overtaken' \in BOOLEAN
    PROVE  IInv'
<1>1. /\ pc[t] = "return" /\ pc' = [pc EXCEPT ![t] = "idle"]
      /\ wasted' = wasted + ctx[t].adjustment
      /\ call' = [call EXCEPT ![t] = NoCall] /\ ctx' = [ctx EXCEPT ![t] = NewContext]
      /\ UNCHANGED <<log, dataEnd, dataLock, index, indexEnd, indexState, calls>>
  BY DEF Return, Goto
<1>2. NewContext \in Context /\ NewContext.existing = 0 /\ NewContext.composing = 0
      /\ NewContext.version = 0 /\ NewContext.indexState = 0
  BY DEF NewContext, Context, Errors
<1>3. TypeInv' /\ Frame(t) /\ pc'[t] = "idle" /\ ctx'[t] = NewContext /\ call'[t] = NoCall
  <2>1. "idle" \in PCs /\ NoCall \in Calls \cup {NoCall}
    BY DEF PCs
  <2>2. ctx[t].adjustment \in Int
    BY ThreadTypes DEF IInv
  <2>3. /\ log' \in Seq(LogRecord) /\ dataEnd' \in Nat /\ dataLock' \subseteq Thread
        /\ index' \in Seq(Nat)
        /\ indexEnd' \in Nat /\ indexState' \in Nat /\ wasted' \in Int /\ calls' \in Nat
    BY <1>1, <2>2, Types
  <2>4. QED
    BY <1>1, <1>2, <2>1, <2>3, TypeStep
<1>4. ~Held(t) /\ ~Held(t)' /\ ~Private(t)' /\ ~Fresh(t)' /\ ~Inserts(t)'
  BY <1>1, <1>3 DEF Held, Private, Fresh, Inserts, SearchedPC, NewPC
<1>5. LogStep(t) /\ RecordStep(t)
  BY <1>1, <1>4, SameLog
<1>6. ChoiceStep(t)
  BY <1>2, <1>3, <1>4 DEF ChoiceStep
<1>7. Quiet(t)
  BY <1>1, <1>3, <1>4 DEF Quiet
<1>8. ThreadInv(t)'
  <2>1. pc'[t] \notin SetPC \cup FoundPC \cup NewPC \cup IndexPC \cup SearchedPC
    BY <1>3 DEF SetPC, FoundPC, NewPC, IndexPC, SearchedPC
  <2>2. LastStable' \in Nat /\ Len(log') \in Nat /\ ~IsCorrupted(0)
    BY <1>3, DomainsNext DEF IsCorrupted
  <2>3. QED
    BY <1>2, <1>3, <1>4, <2>1, <2>2 DEF ThreadInv
<1>9. QED
  BY <1>3, <1>5, <1>6, <1>7, <1>8, QuietKeeps

-----------------------------------------------------------------------------
(* The invariant holds, and what it says.                                  *)

LEMMA InitHolds == Init => IInv
<1> SUFFICES ASSUME Init PROVE IInv
  OBVIOUS
<1>1. PICK n \in Nat : n = Cardinality(Preload)
  BY KeysAreNaturals, FS_Subset, FS_CardinalityType
<1>2. PICK keys \in [1 .. n -> Preload] :
        log = [i \in DOMAIN keys |-> Record(keys[i], FirstVersion, 1)]
  BY <1>1 DEF Init
<1>3. \A i \in 1 .. n : keys[i] \in Keys /\ keys[i] \in Nat
  BY <1>2, KeysAreNaturals
<1>4. log = [i \in 1 .. n |-> Record(keys[i], FirstVersion, 1)]
  BY <1>2
<1>5. \A i \in 1 .. n : Record(keys[i], FirstVersion, 1) \in LogRecord
  BY <1>3, RecordIs DEF FirstVersion
<1>6. log \in Seq(LogRecord) /\ Len(log) = n /\ DOMAIN log = 1 .. n
  BY <1>1, <1>4, <1>5
<1>7. \A i \in 1 .. n : /\ log[i].composed /\ ~IsCorrupted(log[i].state)
                        /\ log[i].size = 1 /\ log[i].capacity = 1
  BY <1>3, <1>4, RecordIs DEF FirstVersion, IsCorrupted
<1>8. index \in Seq(Nat) /\ Len(index) = n /\ DOMAIN index = 1 .. n
      /\ \A i \in 1 .. n : index[i] = i
  BY <1>1, <1>6 DEF Init
<1>9. /\ dataEnd = n * 2 /\ dataLock = {} /\ indexEnd = MaxEnd /\ MaxEnd \in Nat
      /\ indexState = 0 /\ wasted = 0 /\ calls = 0 /\ overtaken = FALSE
      /\ pc = [t \in Thread |-> "idle"] /\ call = [t \in Thread |-> NoCall]
      /\ ctx = [t \in Thread |-> NewContext]
  <2>1. PhysicalSize(1) = 2
    BY DEF PhysicalSize
  <2>2. dataEnd = n * 2
    BY <1>6, <2>1 DEF Init
  <2>3. QED
    BY <2>2, SizesAreNaturals DEF Init
<1>10. NewContext \in Context /\ "idle" \in PCs
  BY DEF NewContext, Context, Errors, PCs
<1>11. TypeInv
  <2>1. /\ pc \in [Thread -> PCs] /\ call \in [Thread -> Calls \cup {NoCall}]
        /\ ctx \in [Thread -> Context]
    BY <1>9, <1>10
  <2>2. dataEnd \in Nat /\ dataLock \subseteq Thread /\ overtaken \in BOOLEAN
    <3>1. dataEnd = n * 2 /\ n * 2 \in Nat
      BY <1>9
    <3>2. dataLock \subseteq Thread
      BY <1>9
    <3>3. overtaken = FALSE
      BY <1>9
    <3>4. QED
      BY <3>1, <3>2, <3>3, Zenon
  <2>3. indexEnd \in Nat /\ indexState \in Nat /\ wasted \in Int /\ calls \in Nat
    BY <1>9
  <2>4. QED
    BY <1>6, <1>8, <2>1, <2>2, <2>3 DEF TypeInv
<1>12. SlotsInv
  BY <1>6, <1>7, <1>8, <1>9 DEF SlotsInv
<1>13. \A t \in Thread : /\ pc[t] = "idle" /\ ctx[t] = NewContext
                         /\ ~Held(t) /\ ~Private(t) /\ ~Fresh(t) /\ ~Inserts(t)
  BY <1>9 DEF Held, Private, Fresh, Inserts, SearchedPC, NewPC
<1>14. /\ NewContext.existing = 0 /\ NewContext.composing = 0 /\ NewContext.version = 0
       /\ NewContext.indexState = 0 /\ ~NewContext.found
  BY DEF NewContext
<1>15. LastStable = 0 /\ ~IsCorrupted(0)
  BY <1>9 DEF LastStable, IsCorrupted
<1>16. "idle" \notin SetPC \cup FoundPC \cup NewPC \cup IndexPC \cup SearchedPC
  BY DEF SetPC, FoundPC, NewPC, IndexPC, SearchedPC
<1>17. \A t \in Thread : ThreadInv(t)
  BY <1>1, <1>6, <1>13, <1>14, <1>15, <1>16 DEF ThreadInv
<1>18. \A t, u \in Thread : Apart(t, u)
  BY <1>13 DEF Apart
<1>19. LocksInv
  BY <1>6, <1>7, <1>9, <1>13, <1>15, <1>16 DEF LocksInv
<1>20. n * 3 <= MaxEnd
  BY <1>1, PreloadFits DEF PhysicalSize, Scale
<1>21. RoomInv
  BY <1>1, <1>8, <1>9, <1>13, <1>20 DEF RoomInv, indexBegin, Scale
<1>22. QED
  BY <1>11, <1>12, <1>17, <1>18, <1>19, <1>21 DEF IInv

\* A step of one thread is one of its actions, or the history variable stays.
LEMMA StepIs ==
    ASSUME TypeInv, NEW t \in Thread, Step(t)
    PROVE  /\ overtaken' \in BOOLEAN
           /\ \/ SearchIndex(t) \/ ReadRecord(t) \/ VerifySearch(t)
              \/ BeginAppend(t) \/ EndAppend(t) \/ Compose(t) \/ BeginInsert(t) \/ EndInsert(t)
              \/ LockReplace(t) \/ BeginModify(t) \/ EndModify(t) \/ UnlockReplaced(t)
              \/ SetValue(t)
              \/ LockDelete(t) \/ RemoveSlot(t) \/ MarkDeleted(t)
              \/ Return(t)
<1>1. overtaken' = (overtaken \/ Overtaken(t))
  BY DEF Step
<1>2. (overtaken \/ Overtaken(t)) \in BOOLEAN
  OBVIOUS
<1>3. QED
  BY <1>1, <1>2, Zenon DEF Step

LEMMA NextKeeps == IInv /\ [Next]_vars => IInv'
<1> SUFFICES ASSUME IInv, [Next]_vars PROVE IInv'
  OBVIOUS
<1>1. overtaken \in BOOLEAN /\ TypeInv
  BY DEF IInv, TypeInv
<1>2. ASSUME NEW t \in Thread, Step(t) PROVE IInv'
  <2>1. overtaken' \in BOOLEAN
    BY <1>1, <1>2, StepIs
  <2>2. CASE SearchIndex(t)
    BY <2>1, <2>2, SearchIndexKeeps
  <2>3. CASE ReadRecord(t)
    BY <2>1, <2>3, ReadRecordKeeps
  <2>4. CASE VerifySearch(t)
    BY <2>1, <2>4, VerifySearchKeeps
  <2>5. CASE BeginAppend(t)
    BY <2>1, <2>5, BeginAppendKeeps
  <2>6. CASE EndAppend(t)
    BY <2>1, <2>6, EndAppendKeeps
  <2>7. CASE Compose(t)
    BY <2>1, <2>7, ComposeKeeps
  <2>8. CASE BeginInsert(t)
    BY <2>1, <2>8, BeginInsertKeeps
  <2>9. CASE EndInsert(t)
    BY <2>1, <2>9, EndInsertKeeps
  <2>10. CASE LockReplace(t)
    BY <2>1, <2>10, LockReplaceKeeps
  <2>11. CASE BeginModify(t)
    BY <2>1, <2>11, BeginModifyKeeps
  <2>12. CASE EndModify(t)
    BY <2>1, <2>12, EndModifyKeeps
  <2>13. CASE UnlockReplaced(t)
    BY <2>1, <2>13, UnlockReplacedKeeps
  <2>14. CASE SetValue(t)
    BY <2>1, <2>14, SetValueKeeps
  <2>15. CASE LockDelete(t)
    BY <2>1, <2>15, LockDeleteKeeps
  <2>16. CASE RemoveSlot(t)
    BY <2>1, <2>16, RemoveSlotKeeps
  <2>17. CASE MarkDeleted(t)
    BY <2>1, <2>17, MarkDeletedKeeps
  <2>18. CASE Return(t)
    BY <2>1, <2>18, ReturnKeeps
  <2>19. QED
    BY <1>1, <1>2, <2>2, <2>3, <2>4, <2>5, <2>6, <2>7, <2>8, <2>9, <2>10, <2>11, <2>12,
       <2>13, <2>14, <2>15, <2>16, <2>17, <2>18, StepIs, Zenon
<1>3. ASSUME NEW t \in Thread, Call(t) \/ TimeOut(t), UNCHANGED overtaken PROVE IInv'
  <2>1. overtaken' \in BOOLEAN
    BY <1>1, <1>3
  <2>2. CASE Call(t)
    BY <2>1, <2>2, CallKeeps
  <2>3. CASE TimeOut(t)
    BY <2>1, <2>3, TimeOutKeeps
  <2>4. QED
    BY <1>3, <2>2, <2>3
<1>4. CASE UNCHANGED vars
  BY <1>4 DEF vars, table, IInv, TypeInv, SlotsInv, ThreadInv, Apart, LocksInv, RoomInv, LastStable,
     Fresh, Private, Held, Inserts, indexBegin
<1>5. QED
  BY <1>2, <1>3, <1>4, Zenon DEF Next

\* The inductive invariant of concurrent calls: where the records, the slots and
\* the locks are while calls of Set, Delete and Get interleave (SortedTable.c).
THEOREM CallsInvariant == Spec => []IInv
<1>1. QED
  BY InitHolds, NextKeeps, PTL DEF Spec

\* Every variable has its type, every slot names a record and the data and the
\* slots stay inside the table, however calls overlap, fail and time out.
THEOREM TypesAreKept == Spec => []TypeOK
<1>1. IInv => TypeOK
  <2> SUFFICES ASSUME IInv PROVE TypeOK
    OBVIOUS
  <2>1. \A i \in DOMAIN log : /\ log[i].key \in Keys /\ log[i].state \in Nat
                              /\ log[i].size <= log[i].capacity
    BY RecordTypes DEF IInv, SlotsInv
  <2>2. dataEnd \in Nat /\ indexEnd \in Nat /\ indexEnd <= MaxEnd /\ MaxEnd \in Nat
    BY Types, SizesAreNaturals DEF IInv, SlotsInv
  <2>3. dataEnd <= indexEnd - Len(index) /\ Len(index) \in Nat
    BY Domains DEF IInv, RoomInv
  <2>4. dataEnd \in 0 .. MaxEnd /\ indexEnd \in 0 .. MaxEnd
    BY <2>2, <2>3
  <2>5. index \in Seq(DOMAIN log)
    <3>1. index \in Seq(Nat) /\ Len(index) \in Nat
      BY Types, Domains DEF IInv
    <3>2. index = [i \in 1 .. Len(index) |-> index[i]]
      BY <3>1
    <3>3. \A i \in 1 .. Len(index) : index[i] \in DOMAIN log
      BY Domains DEF IInv, SlotsInv
    <3>4. QED
      BY <3>1, <3>2, <3>3
  <2>6. QED
    BY <2>1, <2>4, <2>5 DEF TypeOK, IInv, TypeInv
<1>2. QED
  BY <1>1, CallsInvariant, PTL

\* BeginWriteTimed on a record excludes: a composed record whose state is odd is
\* held by exactly one call, which has found this record (SortedTable.c, _Delete_MarkData
\* and _Set_SetData).
THEOREM RecordLocksExcludeThm == Spec => []RecordLocksExclude
<1>1. IInv => RecordLocksExclude
  <2> SUFFICES ASSUME IInv, NEW i \in DOMAIN log, log[i].composed, IsCorrupted(log[i].state)
               PROVE  Cardinality({t \in Thread : Held(t) /\ ctx[t].existing = i}) = 1
    BY DEF RecordLocksExclude
  <2>1. PICK t \in Thread : Held(t) /\ ctx[t].existing = i
    BY DEF IInv, LocksInv
  <2>2. \A u \in Thread : Held(u) /\ ctx[u].existing = i => u = t
    BY <2>1 DEF IInv, Apart
  <2>3. {u \in Thread : Held(u) /\ ctx[u].existing = i} = {t}
    BY <2>1, <2>2
  <2>4. QED
    BY <2>3, FS_Singleton
<1>2. QED
  BY <1>1, CallsInvariant, PTL

\* The records never run into the slots and the assertion of _SetIndexBegin
\* (SortedTable.c:252) never fires: the one slot that _Set_AppendData reserves beside
\* its record is enough for every insert that can overtake the append.
THEOREM DataBelowIndexThm == Spec => []DataBelowIndex
<1>1. IInv => DataBelowIndex
  BY DEF IInv, RoomInv, DataBelowIndex
<1>2. QED
  BY <1>1, CallsInvariant, PTL

-----------------------------------------------------------------------------
(***************************************************************************)
(* The order of the slots in module SortedTable, as long as a unit is free *)
(* between the records and the slots (HasRoom).                            *)
(*                                                                         *)
(* _Set_InsertIndex reverts the state of the index when its slot takes the *)
(* last unit, although the slot is there: a search made before then looks  *)
(* as good as new and is not (run SortedTable_full shows where that ends). *)
(* The theorems here say that nothing else can put the slots out of order. *)
(***************************************************************************)

\* There is a free unit.
HasRoom == dataEnd < indexBegin

\* A record that is marked, or is about to be.
Dead(i) == log[i].deleted \/ \E t \in Thread : pc[t] = "mark" /\ ctx[t].existing = i

\* A search that is as good as new has found the slot of its key, or its place.
Placed(t) ==
    Fresh(t) =>
        IF ctx[t].found THEN KeyAt(ctx[t].order + 1) = call[t].key
        ELSE \A i \in DOMAIN index : IF i <= ctx[t].order THEN KeyAt(i) < call[t].key
                                     ELSE call[t].key < KeyAt(i)

\* What a search that is as good as new has found is not marked, and what it
\* has read of a mark is still there.
Seen(t) ==
    /\ Fresh(t) /\ pc[t] \in {"readRecord", "verify"} /\ ctx[t].found => ~Dead(ctx[t].existing)
    /\ pc[t] = "verify" /\ ctx[t].deleted => log[ctx[t].existing].deleted
    /\ pc[t] # "assertDeleted"

OrderInv ==
    /\ IndexSorted
    /\ \A t \in Thread : Placed(t) /\ Seen(t)
    /\ \A i \in DOMAIN index : ~Dead(index[i])

-----------------------------------------------------------------------------
(* What the steps do to the records and to the other calls.                *)

\* Keys stay, marks stay, and only MarkDeleted makes one.
Marks(t) ==
    \A i \in DOMAIN log :
        /\ i \in DOMAIN log' /\ log'[i].key = log[i].key
        /\ log[i].deleted => log'[i].deleted
        /\ log'[i].deleted => log[i].deleted \/ (pc[t] = "mark" /\ ctx[t].existing = i)

LEMMA SameMarks ==
    ASSUME NEW t \in Thread, UNCHANGED log
    PROVE  Marks(t)
BY DEF Marks

\* One record changes, and keeps its key and its mark.
LEMMA OneRecordMarks ==
    ASSUME IInv, NEW t \in Thread, NEW e \in DOMAIN log, NEW r \in LogRecord,
           log' = [log EXCEPT ![e] = r], r.key = log[e].key,
           \/ r.deleted = log[e].deleted
           \/ r.deleted /\ pc[t] = "mark" /\ ctx[t].existing = e
    PROVE  Marks(t)
<1>1. log \in Seq(LogRecord)
  BY Types
<1>2. DOMAIN log' = DOMAIN log /\ log'[e] = r /\ \A i \in DOMAIN log : i # e => log'[i] = log[i]
  BY <1>1, ExceptSeq
<1>3. QED
  BY <1>2 DEF Marks

\* The state of one record changes.
LEMMA StateMarks ==
    ASSUME IInv, NEW t \in Thread,
           \/ log' = [log EXCEPT ![ctx[t].existing].state = @ + 1]
           \/ log' = [log EXCEPT ![ctx[t].existing].state = @ - 1]
    PROVE  Marks(t)
<1>1. TypeInv /\ log \in Seq(LogRecord)
  BY DEF IInv, TypeInv
<1>2. PICK e : e = ctx[t].existing
  OBVIOUS
<1>3. PICK s : log' = [log EXCEPT ![e] = [log[e] EXCEPT !.state = s]]
  BY <1>2
<1> DEFINE r == [log[e] EXCEPT !.state = s]
<1>4. e \in DOMAIN log => r.key = log[e].key /\ r.deleted = log[e].deleted
  BY <1>1, RecordTypes DEF LogRecord
<1>5. log' = [log EXCEPT ![e] = r]
  BY <1>3
<1> HIDE DEF r
<1>6. DOMAIN log' = DOMAIN log
      /\ \A i \in DOMAIN log : log'[i] = IF i = e THEN r ELSE log[i]
  BY <1>5
<1>7. QED
  BY <1>4, <1>6 DEF Marks

\* Slots that stay lead to the keys they led to.
LEMMA SameKeys ==
    ASSUME IInv, NEW t \in Thread, Marks(t), UNCHANGED index
    PROVE  DOMAIN index' = DOMAIN index /\ \A i \in DOMAIN index : KeyAt(i)' = KeyAt(i)
<1>1. \A i \in DOMAIN index : index[i] \in DOMAIN log
  BY DEF IInv, SlotsInv
<1>2. QED
  BY <1>1 DEF KeyAt, Marks

\* The others are where they were.
LEMMA OthersSeen ==
    ASSUME IInv, OrderInv, NEW t \in Thread, Frame(t), Marks(t),
           DOMAIN index' = DOMAIN index, \A i \in DOMAIN index : KeyAt(i)' = KeyAt(i),
           LastStable' = LastStable, pc'[t] # "mark", NEW u \in Thread \ {t}
    PROVE  Placed(u)' /\ Seen(u)'
<1>1. /\ pc'[u] = pc[u] /\ ctx'[u] = ctx[u] /\ call'[u] = call[u]
      /\ ThreadInv(u) /\ TypeInv /\ Placed(u) /\ Seen(u)
  BY DEF Frame, IInv, OrderInv
<1>2. Fresh(u)' <=> Fresh(u)
  BY <1>1 DEF Fresh
<1>3. \A i \in DOMAIN index : KeyAt(i)' = KeyAt(i)
  OBVIOUS
<1>4. Placed(u)'
  <2>1. CASE ~Fresh(u)
    BY <1>2, <2>1 DEF Placed
  <2>2. CASE Fresh(u) /\ ctx[u].found
    <3>1. ctx[u].order + 1 \in DOMAIN index
      BY <1>1, <2>2, Domains, ThreadTypes DEF ThreadInv
    <3>2. KeyAt(ctx[u].order + 1) = call[u].key
      BY <1>1, <2>2 DEF Placed
    <3>3. KeyAt(ctx[u].order + 1)' = call[u].key
      BY <1>1, <1>3, <3>1, <3>2
    <3>4. QED
      BY <1>1, <2>2, <3>3 DEF Placed
  <2>3. CASE Fresh(u) /\ ~ctx[u].found
    <3>1. \A i \in DOMAIN index : IF i <= ctx[u].order THEN KeyAt(i) < call[u].key
                                  ELSE call[u].key < KeyAt(i)
      BY <1>1, <2>3 DEF Placed
    <3>2. QED
      BY <1>1, <1>3, <2>3, <3>1 DEF Placed
  <2>4. QED
    BY <2>1, <2>2, <2>3
<1>5. Seen(u)'
  <2>1. ctx[u].found /\ pc[u] \in {"readRecord", "verify"} => ctx[u].existing \in DOMAIN log
    BY <1>1 DEF ThreadInv, FoundPC
  <2>2. pc[u] = "verify" => ctx[u].existing \in DOMAIN log
    BY <1>1 DEF ThreadInv, FoundPC
  <2>3. \A i \in DOMAIN log : Dead(i)' => Dead(i)
    BY DEF Dead, Marks, Frame
  <2>4. QED
    BY <1>1, <1>2, <2>1, <2>2, <2>3 DEF Seen, Marks
<1>6. QED
  BY <1>4, <1>5

\* A step that leaves the slots alone.
LEMMA SlotsAlone ==
    ASSUME IInv, OrderInv, NEW t \in Thread, Frame(t), Marks(t), UNCHANGED index,
           LastStable' = LastStable, pc'[t] # "mark", Placed(t)', Seen(t)'
    PROVE  OrderInv'
<1>1. \A i \in DOMAIN index : index[i] \in DOMAIN log
  BY DEF IInv, SlotsInv
<1>2. IndexSorted'
  BY <1>1 DEF OrderInv, IndexSorted, Marks
<1>3. \A i \in DOMAIN log : Dead(i)' => Dead(i)
  BY DEF Dead, Marks, Frame
<1>4. \A i \in DOMAIN index' : ~Dead(index[i])'
  BY <1>1, <1>3 DEF OrderInv
<1>5. \A u \in Thread : Placed(u)' /\ Seen(u)'
  BY OthersSeen, SameKeys
<1>6. QED
  BY <1>2, <1>4, <1>5 DEF OrderInv

\* The call goes on with what it has found, or with nothing.
LEMMA GoesOn ==
    ASSUME IInv, OrderInv, NEW t \in Thread, Frame(t), Marks(t), UNCHANGED index,
           LastStable' = LastStable,
           pc'[t] \notin {"mark", "readRecord", "verify", "assertDeleted"},
           pc'[t] \in SearchedPC =>
                /\ pc[t] \in SearchedPC /\ call'[t] = call[t]
                /\ ctx'[t].indexState = ctx[t].indexState
                /\ ctx'[t].found = ctx[t].found /\ ctx'[t].order = ctx[t].order
    PROVE  OrderInv'
<1>1. ThreadInv(t) /\ TypeInv /\ Placed(t)
  BY DEF IInv, OrderInv
<1>2. Fresh(t)' => Fresh(t)
  BY DEF Fresh
<1>3. \A i \in DOMAIN index : KeyAt(i)' = KeyAt(i)
  BY SameKeys
<1>4. Placed(t)'
  <2>1. CASE ~Fresh(t)'
    BY <2>1 DEF Placed
  <2>2. CASE Fresh(t)'
    <3>1. /\ Fresh(t) /\ call'[t] = call[t]
          /\ ctx'[t].found = ctx[t].found /\ ctx'[t].order = ctx[t].order
      BY <1>2, <2>2 DEF Fresh
    <3>2. CASE ctx[t].found
      <4>1. ctx[t].order + 1 \in DOMAIN index
        BY <1>1, <3>1, <3>2, Domains, ThreadTypes DEF ThreadInv
      <4>2. KeyAt(ctx[t].order + 1) = call[t].key
        BY <1>1, <3>1, <3>2 DEF Placed
      <4>3. KeyAt(ctx[t].order + 1)' = call[t].key
        BY <1>3, <3>1, <4>1, <4>2
      <4>4. QED
        BY <3>1, <3>2, <4>3 DEF Placed
    <3>3. CASE ~ctx[t].found
      <4>1. \A i \in DOMAIN index : IF i <= ctx[t].order THEN KeyAt(i) < call[t].key
                                    ELSE call[t].key < KeyAt(i)
        BY <1>1, <3>1, <3>3 DEF Placed
      <4>2. QED
        BY <1>3, <3>1, <3>3, <4>1 DEF Placed
    <3>4. QED
      BY <3>2, <3>3
  <2>3. QED
    BY <2>1, <2>2
<1>5. Seen(t)'
  BY DEF Seen
<1>6. QED
  BY <1>4, <1>5, SlotsAlone

-----------------------------------------------------------------------------
(* The steps that leave the slots alone.                                   *)

LEMMA Advances ==
    ASSUME IInv, OrderInv, NEW t \in Thread, Marks(t), UNCHANGED <<index, call>>,
           LastStable' = LastStable, NEW label, NEW new,
           pc' = [pc EXCEPT ![t] = label], ctx' = [ctx EXCEPT ![t] = new],
           label \notin {"mark", "readRecord", "verify", "assertDeleted"},
           label \in SearchedPC =>
                /\ pc[t] \in SearchedPC /\ new.indexState = ctx[t].indexState
                /\ new.found = ctx[t].found /\ new.order = ctx[t].order
    PROVE  OrderInv'
<1>1. Frame(t) /\ pc'[t] = label /\ ctx'[t] = new /\ call'[t] = call[t]
  BY Types DEF Frame
<1>2. QED
  BY <1>1, GoesOn

\* The index state stays, or becomes odd.
LEMMA SameStable ==
    ASSUME IInv
    PROVE  /\ indexState' = indexState => LastStable' = LastStable
           /\ ~IsCorrupted(indexState) /\ indexState' = indexState + 1 => LastStable' = LastStable
<1>1. indexState \in Int /\ (IsCorrupted(indexState + 1) <=> ~IsCorrupted(indexState))
  <2>1. indexState \in Int
    BY Types
  <2>2. QED
    BY <2>1, Parity
<1>2. ASSUME ~IsCorrupted(indexState), indexState' = indexState + 1 PROVE LastStable' = LastStable
  BY <1>1, <1>2 DEF LastStable
<1>3. QED
  BY <1>2 DEF LastStable

LEMMA CallOrder ==
    ASSUME IInv, OrderInv, NEW t \in Thread, Call(t)
    PROVE  OrderInv'
<1>1. Frame(t) /\ pc'[t] = "search"
  BY Types DEF Call, Goto, Frame
<1>2. Marks(t) /\ UNCHANGED index /\ LastStable' = LastStable
  BY SameMarks, SameStable DEF Call, table
<1>3. "search" \notin SearchedPC
  BY DEF SearchedPC, NewPC
<1>4. QED
  BY <1>1, <1>2, <1>3, GoesOn

LEMMA SearchIndexOrder ==
    ASSUME IInv, OrderInv, NEW t \in Thread, SearchIndex(t)
    PROVE  OrderInv'
<1>1. PICK c : c = Search(call[t].key)
  OBVIOUS
<1> DEFINE label == IF c.found THEN "readRecord" ELSE AfterMiss(t)
           existing == IF c.found THEN index[c.order + 1] ELSE 0
           error == IF call[t].op = "Get" /\ ~c.found THEN "notFound" ELSE "none"
           new == [ctx[t] EXCEPT !.indexState = indexState, !.found = c.found, !.order = c.order,
                                 !.existing = existing, !.error = error]
<1>2. /\ ~IsCorrupted(indexState) /\ pc' = [pc EXCEPT ![t] = label]
      /\ UNCHANGED <<log, index, indexState, call>>
  BY <1>1 DEF SearchIndex, Goto, table
<1>3. ctx' = [ctx EXCEPT ![t] = new]
  BY <1>1 DEF SearchIndex
<1>4. ctx[t] \in Context /\ call[t].key \in Nat
  BY Types, CallsAre
<1>5. new.found = c.found /\ new.order = c.order /\ new.existing = existing
  BY <1>4 DEF Context
<1> HIDE DEF new
<1>6. label \in {"readRecord", "append", "return"} /\ (label = "readRecord" <=> c.found)
  BY DEF AfterMiss
<1> HIDE DEF label, error
<1>7. Frame(t) /\ pc'[t] = label /\ ctx'[t] = new /\ call'[t] = call[t]
  BY <1>2, <1>3, Types DEF Frame
<1>8. /\ c.found \in BOOLEAN /\ c.order \in 0 .. Len(index)
      /\ c.found => /\ c.order < Len(index)
                    /\ KeyAt(c.order + 1) = call[t].key
      /\ ~c.found => \A i \in DOMAIN index : IF i <= c.order THEN KeyAt(i) < call[t].key
                                             ELSE call[t].key < KeyAt(i)
  BY <1>1, <1>4, SearchAnswers DEF OrderInv
<1>9. \A i : KeyAt(i)' = KeyAt(i)
  BY <1>2 DEF KeyAt
<1>10. Placed(t)'
  <2>1. CASE c.found
    <3>1. KeyAt(c.order + 1)' = call[t].key
      BY <1>8, <1>9, <2>1
    <3>2. QED
      BY <1>5, <1>7, <2>1, <3>1 DEF Placed
  <2>2. CASE ~c.found
    BY <1>2, <1>5, <1>7, <1>8, <1>9, <2>2 DEF Placed
  <2>3. QED
    BY <1>8, <2>1, <2>2
<1>11. Seen(t)'
  <2>1. c.found => existing \in Range(index)
    <3>1. c.found => c.order + 1 \in DOMAIN index
      BY <1>8, Domains DEF IInv
    <3>2. QED
      BY <3>1 DEF Range
  <2>2. \A i \in Range(index) : ~Dead(i)
    BY DEF OrderInv, Range
  <2>3. \A u \in Thread : pc'[u] = "mark" => pc[u] = "mark" /\ ctx'[u] = ctx[u]
    BY <1>6, <1>7 DEF Frame
  <2>4. \A i : Dead(i)' => Dead(i)
    BY <1>2, <2>3 DEF Dead
  <2>5. QED
    BY <1>5, <1>6, <1>7, <2>1, <2>2, <2>4 DEF Seen
<1>12. Marks(t) /\ LastStable' = LastStable
  BY <1>2, SameMarks, SameStable
<1>13. QED
  BY <1>2, <1>6, <1>7, <1>10, <1>11, <1>12, SlotsAlone

LEMMA ReadRecordOrder ==
    ASSUME IInv, OrderInv, NEW t \in Thread, ReadRecord(t)
    PROVE  OrderInv'
<1> DEFINE new == [ctx[t] EXCEPT !.version = log[ctx[t].existing].state,
                                 !.deleted = log[ctx[t].existing].deleted]
<1>1. /\ pc[t] = "readRecord" /\ pc' = [pc EXCEPT ![t] = "verify"]
      /\ ctx' = [ctx EXCEPT ![t] = new]
      /\ UNCHANGED <<log, index, indexState, call>>
  BY DEF ReadRecord, Goto, Existing, table
<1>2. /\ new.indexState = ctx[t].indexState /\ new.found = ctx[t].found
      /\ new.order = ctx[t].order /\ new.existing = ctx[t].existing
      /\ new.deleted = log[ctx[t].existing].deleted
  BY Types DEF Context
<1> HIDE DEF new
<1>3. Frame(t) /\ pc'[t] = "verify" /\ ctx'[t] = new /\ call'[t] = call[t]
  BY <1>1, Types DEF Frame
<1>4. Marks(t) /\ LastStable' = LastStable
  BY <1>1, SameMarks, SameStable
<1>5. Fresh(t)' => Fresh(t)
  BY <1>1, <1>2, <1>3, <1>4 DEF Fresh, SearchedPC
<1>6. \A i : KeyAt(i)' = KeyAt(i)
  BY <1>1 DEF KeyAt
<1>7. Placed(t)'
  <2>1. Placed(t)
    BY DEF OrderInv
  <2>2. CASE ctx[t].found
    <3>1. PICK k : k = ctx[t].order + 1
      OBVIOUS
    <3>2. KeyAt(k)' = KeyAt(k) /\ ctx'[t].order + 1 = k
      BY <1>2, <1>3, <1>6, <3>1
    <3>3. QED
      BY <1>2, <1>3, <1>5, <1>1, <2>1, <2>2, <3>1, <3>2 DEF Placed
  <2>3. CASE ~ctx[t].found
    BY <1>1, <1>2, <1>3, <1>5, <1>6, <2>1, <2>3 DEF Placed
  <2>4. QED
    BY <2>2, <2>3
<1>8. Seen(t)'
  <2>1. \A u \in Thread : pc'[u] = "mark" => pc[u] = "mark" /\ ctx'[u] = ctx[u]
    BY <1>3 DEF Frame
  <2>2. \A i : Dead(i)' => Dead(i)
    BY <1>1, <2>1 DEF Dead
  <2>3. QED
    BY <1>1, <1>2, <1>3, <1>5, <2>2 DEF OrderInv, Seen
<1>9. QED
  BY <1>1, <1>3, <1>4, <1>7, <1>8, SlotsAlone

\* A search that finds the index unmoved has not found a marked record.
LEMMA VerifySearchOrder ==
    ASSUME IInv, OrderInv, NEW t \in Thread, VerifySearch(t)
    PROVE  OrderInv'
<1>1. pc[t] = "verify" /\ UNCHANGED <<log, index, indexState, call>>
  BY DEF VerifySearch, table
<1>2. /\ ctx[t] \in Context /\ ThreadInv(t) /\ Seen(t) /\ ctx' = [ctx EXCEPT ![t] = ctx'[t]]
      /\ pc[t] \in SearchedPC /\ pc[t] \in FoundPC
  <2>1. ctx' = [ctx EXCEPT ![t] = ctx'[t]]
    BY Types DEF VerifySearch, Fail
  <2>2. QED
    BY <1>1, <2>1, Types DEF IInv, OrderInv, SearchedPC, FoundPC
<1>3. Marks(t) /\ LastStable' = LastStable
  BY <1>1, SameMarks, SameStable
<1>4. "search" \notin SearchedPC /\ "return" \notin SearchedPC
  BY DEF SearchedPC, NewPC
<1>5. CASE Goto(t, "search")
  BY <1>1, <1>2, <1>3, <1>4, <1>5, Advances DEF Goto
<1>6. ASSUME indexState = ctx[t].indexState, ctx[t].deleted PROVE FALSE
  <2>1. LastStable = indexState
    <3>1. ctx[t].indexState <= LastStable
      BY <1>2 DEF ThreadInv
    <3>2. indexState \in Nat
      BY Types
    <3>3. QED
      BY <1>6, <3>1, <3>2 DEF LastStable
  <2>2. Fresh(t) /\ ctx[t].found
    BY <1>2, <1>6, <2>1 DEF Fresh, ThreadInv
  <2>3. ~Dead(ctx[t].existing) /\ log[ctx[t].existing].deleted
    BY <1>1, <1>2, <1>6, <2>2 DEF Seen
  <2>4. QED
    BY <2>3 DEF Dead
<1>7. CASE Fail(t, "wrongVersion")
  BY <1>1, <1>2, <1>3, <1>4, <1>7, Advances DEF Fail, Goto
<1>8. CASE Goto(t, FoundPath(t)) /\ ctx' = [ctx EXCEPT ![t].valueSize = Existing(t).size]
  <2> DEFINE new == [ctx[t] EXCEPT !.valueSize = Existing(t).size]
  <2>1. ctx' = [ctx EXCEPT ![t] = new] /\ pc' = [pc EXCEPT ![t] = FoundPath(t)]
    BY <1>8 DEF Goto
  <2>2. /\ new.indexState = ctx[t].indexState /\ new.found = ctx[t].found
        /\ new.order = ctx[t].order
    BY <1>2 DEF Context
  <2> HIDE DEF new
  <2>3. FoundPath(t) \notin {"mark", "readRecord", "verify", "assertDeleted"}
    BY DEF FoundPath
  <2>4. QED
    BY <1>1, <1>2, <1>3, <2>1, <2>2, <2>3, Advances
<1>9. QED
  BY <1>5, <1>6, <1>7, <1>8 DEF VerifySearch

\* The call goes to another place and keeps all it knows.
LEMMA GoesTo ==
    ASSUME IInv, OrderInv, NEW t \in Thread, Marks(t), UNCHANGED <<index, call, ctx>>,
           LastStable' = LastStable, NEW label, Goto(t, label),
           label \notin {"mark", "readRecord", "verify", "assertDeleted"},
           label \in SearchedPC => pc[t] \in SearchedPC
    PROVE  OrderInv'
<1>1. ctx' = [ctx EXCEPT ![t] = ctx[t]]
  BY Types
<1>2. QED
  BY <1>1, Advances DEF Goto

\* The call ends with an error.
LEMMA Fails ==
    ASSUME IInv, OrderInv, NEW t \in Thread, Marks(t), UNCHANGED <<index, call>>,
           LastStable' = LastStable, NEW error, Fail(t, error)
    PROVE  OrderInv'
<1>1. "return" \notin SearchedPC
  BY DEF SearchedPC, NewPC
<1>2. QED
  BY <1>1, Advances DEF Fail, Goto

LEMMA BeginAppendOrder ==
    ASSUME IInv, OrderInv, NEW t \in Thread, BeginAppend(t)
    PROVE  OrderInv'
<1>1. pc[t] = "append" /\ UNCHANGED <<log, index, indexState, call>>
  BY DEF BeginAppend
<1>2. Marks(t) /\ LastStable' = LastStable
  BY <1>1, SameMarks, SameStable
<1>3. pc[t] \in SearchedPC
  BY <1>1 DEF SearchedPC
<1>4. ASSUME NEW label \in {AfterAppend(t), "appending"}, Goto(t, label), UNCHANGED ctx
      PROVE  OrderInv'
  <2>1. label \notin {"mark", "readRecord", "verify", "assertDeleted"}
    BY <1>4 DEF AfterAppend
  <2>2. QED
    BY <1>1, <1>2, <1>3, <1>4, <2>1, GoesTo
<1>5. QED
  BY <1>1, <1>2, <1>4, Fails DEF BeginAppend

LEMMA EndAppendOrder ==
    ASSUME IInv, OrderInv, NEW t \in Thread, EndAppend(t)
    PROVE  OrderInv'
<1> DEFINE size == PhysicalSize(call[t].size)
           appended == [ctx[t] EXCEPT !.composing = Len(log) + 1, !.adjustment = @ + size]
           failed == [appended EXCEPT !.error = "notEnoughMemory"]
<1>1. /\ pc[t] = "appending" /\ UNCHANGED <<index, indexState, call>>
      /\ log' = Append(log, Hole(call[t].key, call[t].size))
  BY DEF EndAppend
<1>2. \/ ctx' = [ctx EXCEPT ![t] = appended] /\ Goto(t, AfterAppend(t))
      \/ ctx' = [ctx EXCEPT ![t] = failed] /\ Goto(t, "return")
  BY DEF EndAppend
<1>3. Marks(t)
  <2>1. log \in Seq(LogRecord)
    BY Types
  <2>2. QED
    BY <1>1, <2>1 DEF Marks
<1>4. LastStable' = LastStable
  BY <1>1, SameStable
<1>5. /\ appended.indexState = ctx[t].indexState /\ appended.found = ctx[t].found
      /\ appended.order = ctx[t].order
  BY Types DEF Context
<1> HIDE DEF appended, failed
<1>6. CASE ctx' = [ctx EXCEPT ![t] = appended] /\ Goto(t, AfterAppend(t))
  <2>1. pc[t] \in SearchedPC
    BY <1>1 DEF SearchedPC
  <2>2. AfterAppend(t) \notin {"mark", "readRecord", "verify", "assertDeleted"}
    BY DEF AfterAppend
  <2>3. QED
    BY <1>1, <1>3, <1>4, <1>5, <1>6, <2>1, <2>2, Advances DEF Goto
<1>7. CASE ctx' = [ctx EXCEPT ![t] = failed] /\ Goto(t, "return")
  <2>1. "return" \notin SearchedPC
    BY DEF SearchedPC, NewPC
  <2>2. QED
    BY <1>1, <1>3, <1>4, <1>7, <2>1, Advances DEF Goto
<1>8. QED
  BY <1>2, <1>6, <1>7

LEMMA ComposeOrder ==
    ASSUME IInv, OrderInv, NEW t \in Thread, Compose(t)
    PROVE  OrderInv'
<1> DEFINE e == ctx[t].composing
           r == Record(call[t].key, FirstVersion, call[t].size)
<1>1. /\ pc[t] = "compose" /\ Goto(t, "insert")
      /\ UNCHANGED <<index, indexState, call, ctx>>
      /\ log' = IF log[e].composed THEN log ELSE [log EXCEPT ![e] = r]
  BY DEF Compose
<1>2. ThreadInv(t) /\ TypeInv
  BY DEF IInv
<1>3. call[t] \in Calls /\ e # 0 /\ pc[t] \in SearchedPC
  BY <1>1, <1>2 DEF ThreadInv, NewPC, SearchedPC
<1>4. Private(t)
  BY <1>1, <1>3 DEF Private
<1>5. e \in DOMAIN log /\ log[e].key = call[t].key /\ log[e].deleted = FALSE
  <2>1. e \in DOMAIN log /\ log[e].key = call[t].key /\ ~log[e].deleted
    BY <1>2, <1>4, PrivateIs, PrivateRecord
  <2>2. log[e].deleted \in BOOLEAN
    BY <1>2, <2>1, RecordTypes
  <2>3. QED
    BY <2>1, <2>2
<1>6. r \in LogRecord /\ r.key = call[t].key /\ r.deleted = FALSE
  <2>1. call[t].key \in Keys /\ call[t].size \in Nat
    BY <1>3, CallsAre
  <2>2. r \in LogRecord /\ r.key = call[t].key
    BY <2>1, RecordIs DEF FirstVersion
  <2>3. QED
    BY <2>2 DEF Record
<1> HIDE DEF e, r
<1>7. Marks(t)
  <2>1. CASE log' = log
    BY <2>1, SameMarks
  <2>2. CASE log' = [log EXCEPT ![e] = r]
    BY <1>5, <1>6, <2>2, OneRecordMarks
  <2>3. QED
    BY <1>1, <2>1, <2>2
<1>8. LastStable' = LastStable
  BY <1>1, SameStable
<1>9. QED
  BY <1>1, <1>3, <1>7, <1>8, GoesTo

LEMMA BeginInsertOrder ==
    ASSUME IInv, OrderInv, NEW t \in Thread, BeginInsert(t)
    PROVE  OrderInv'
<1>1. pc[t] = "insert" /\ ~IsCorrupted(indexState) /\ UNCHANGED <<log, index, call>>
  BY DEF BeginInsert
<1>2. Marks(t)
  BY <1>1, SameMarks
<1>3. "search" \notin SearchedPC /\ pc[t] \in SearchedPC
  BY <1>1 DEF SearchedPC, NewPC
<1>4. CASE Goto(t, "search") /\ UNCHANGED <<indexState, ctx>>
  <2>1. LastStable' = LastStable
    BY <1>4, SameStable
  <2>2. QED
    BY <1>1, <1>2, <1>3, <1>4, <2>1, GoesTo
<1>5. CASE Fail(t, "notEnoughMemory") /\ UNCHANGED indexState
  <2>1. LastStable' = LastStable
    BY <1>5, SameStable
  <2>2. QED
    BY <1>1, <1>2, <1>5, <2>1, Fails
<1>6. CASE /\ indexState' = indexState + 1 /\ Goto(t, "inserting")
           /\ ctx' = [ctx EXCEPT ![t].left = MovesLeft(ctx[t].order)]
  <2> DEFINE new == [ctx[t] EXCEPT !.left = MovesLeft(ctx[t].order)]
  <2>1. ctx' = [ctx EXCEPT ![t] = new] /\ pc' = [pc EXCEPT ![t] = "inserting"]
    BY <1>6 DEF Goto
  <2>2. /\ new.indexState = ctx[t].indexState /\ new.found = ctx[t].found
        /\ new.order = ctx[t].order
    BY Types DEF Context
  <2> HIDE DEF new
  <2>3. LastStable' = LastStable
    BY <1>1, <1>6, SameStable
  <2>4. QED
    BY <1>1, <1>2, <1>3, <2>1, <2>2, <2>3, Advances
<1>7. QED
  BY <1>4, <1>5, <1>6 DEF BeginInsert

LEMMA LockReplaceOrder ==
    ASSUME IInv, OrderInv, NEW t \in Thread, LockReplace(t)
    PROVE  OrderInv'
<1>1. pc[t] = "lockReplace" /\ UNCHANGED <<index, indexState, call, ctx>>
  BY DEF LockReplace
<1>2. LastStable' = LastStable
  BY <1>1, SameStable
<1>3. "search" \notin SearchedPC /\ pc[t] \in SearchedPC
  BY <1>1 DEF SearchedPC, NewPC
<1>4. CASE Goto(t, "search") /\ UNCHANGED log
  <2>1. Marks(t)
    BY <1>4, SameMarks
  <2>2. QED
    BY <1>1, <1>2, <1>3, <1>4, <2>1, GoesTo
<1>5. CASE /\ log' = [log EXCEPT ![ctx[t].existing].state = @ + 1,
                                 ![ctx[t].composing] = Record(call[t].key, ctx[t].version + 4,
                                                              call[t].size)]
           /\ Goto(t, "modify")
  <2>1. ThreadInv(t) /\ TypeInv /\ Apart(t, t)
    BY DEF IInv
  <2>2. /\ call[t] \in Calls /\ ctx[t].composing # 0
        /\ ctx[t].existing \in DOMAIN log
    BY <1>1, <2>1 DEF ThreadInv, FoundPC
  <2>3. Private(t)
    BY <1>1, <2>2 DEF Private
  <2>4. PICK e \in DOMAIN log : e = ctx[t].existing
    BY <2>2
  <2>5. PICK c \in DOMAIN log : c = ctx[t].composing
    BY <2>1, <2>3, PrivateIs
  <2>6. /\ c # e /\ log[c].key = call[t].key /\ ~log[c].deleted /\ log[c].deleted \in BOOLEAN
        /\ log[e] \in LogRecord
    BY <2>1, <2>3, <2>4, <2>5, PrivateRecord, RecordTypes DEF Apart
  <2> DEFINE new == [log[e] EXCEPT !.state = @ + 1]
             r == Record(call[t].key, ctx[t].version + 4, call[t].size)
  <2>7. log' = [[log EXCEPT ![e] = new] EXCEPT ![c] = r]
    BY <1>5, <2>4, <2>5, <2>6
  <2>8. new.key = log[e].key /\ new.deleted = log[e].deleted
    BY <2>6 DEF LogRecord
  <2>9. r.key = call[t].key /\ ~r.deleted
    BY DEF Record
  <2> HIDE DEF new, r
  <2>10. /\ DOMAIN log' = DOMAIN log /\ log'[e] = new /\ log'[c] = r
         /\ \A i \in DOMAIN log : i # e /\ i # c => log'[i] = log[i]
    BY <2>6, <2>7
  <2>11. Marks(t)
    BY <2>6, <2>8, <2>9, <2>10 DEF Marks
  <2>12. QED
    BY <1>1, <1>2, <1>3, <1>5, <2>11, GoesTo
<1>6. QED
  BY <1>4, <1>5 DEF LockReplace

LEMMA BeginModifyOrder ==
    ASSUME IInv, OrderInv, NEW t \in Thread, BeginModify(t)
    PROVE  OrderInv'
<1>1. pc[t] = "modify" /\ ~IsCorrupted(indexState) /\ UNCHANGED <<index, call, ctx>>
  BY DEF BeginModify
<1>2. "search" \notin SearchedPC /\ pc[t] \in SearchedPC /\ pc[t] \in FoundPC /\ Held(t)
  BY <1>1 DEF SearchedPC, NewPC, FoundPC, Held
<1>3. CASE /\ log' = [log EXCEPT ![ctx[t].existing].state = @ - 1]
           /\ Goto(t, "search") /\ UNCHANGED indexState
  <2>1. Marks(t)
    BY <1>3, StateMarks
  <2>2. LastStable' = LastStable
    BY <1>3, SameStable
  <2>3. QED
    BY <1>1, <1>2, <1>3, <2>1, <2>2, GoesTo
<1>4. CASE indexState' = indexState + 1 /\ Goto(t, "modifying") /\ UNCHANGED log
  <2>1. Marks(t)
    BY <1>4, SameMarks
  <2>2. LastStable' = LastStable
    BY <1>1, <1>4, SameStable
  <2>3. QED
    BY <1>1, <1>2, <1>4, <2>1, <2>2, GoesTo
<1>5. QED
  BY <1>3, <1>4 DEF BeginModify

LEMMA UnlockReplacedOrder ==
    ASSUME IInv, OrderInv, NEW t \in Thread, UnlockReplaced(t)
    PROVE  OrderInv'
<1>1. UNCHANGED <<index, indexState, call, ctx>> /\ Goto(t, "return")
  BY DEF UnlockReplaced
<1>2. Marks(t)
  BY StateMarks DEF UnlockReplaced
<1>3. LastStable' = LastStable /\ "return" \notin SearchedPC
  BY <1>1, SameStable DEF SearchedPC, NewPC
<1>4. QED
  BY <1>1, <1>2, <1>3, GoesTo

LEMMA SetValueOrder ==
    ASSUME IInv, OrderInv, NEW t \in Thread, SetValue(t)
    PROVE  OrderInv'
<1>1. pc[t] = "setValue" /\ UNCHANGED <<index, indexState, call>>
  BY DEF SetValue
<1>2. LastStable' = LastStable /\ "return" \notin SearchedPC
  BY <1>1, SameStable DEF SearchedPC, NewPC
<1>3. CASE Fail(t, "unknown") /\ UNCHANGED log
  BY <1>1, <1>2, <1>3, SameMarks, Fails
<1>4. CASE /\ log' = [log EXCEPT ![ctx[t].existing].size = call[t].size,
                                 ![ctx[t].existing].state = @ + 2]
           /\ ctx' = [ctx EXCEPT ![t].adjustment = @ + ctx[t].valueSize - call[t].size]
           /\ Goto(t, "return")
  <2>1. TypeInv /\ ThreadInv(t)
    BY DEF IInv
  <2>2. PICK e \in DOMAIN log : e = ctx[t].existing
    BY <1>1, <2>1 DEF ThreadInv, FoundPC
  <2>3. log[e] \in LogRecord /\ log[e].state \in Nat /\ call[t].size \in Nat
    BY <2>1, RecordTypes, ThreadTypes, CallsAre
  <2>4. PICK s \in Nat : s = log[e].state + 2
    BY <2>3
  <2> DEFINE r == [log[e] EXCEPT !.size = call[t].size, !.state = s]
  <2>5. log' = [log EXCEPT ![e] = r]
    BY <1>4, <2>2, <2>3, <2>4 DEF LogRecord
  <2>6. r \in LogRecord /\ r.key = log[e].key /\ r.deleted = log[e].deleted
    BY <2>3, <2>4 DEF LogRecord
  <2> HIDE DEF r
  <2>7. Marks(t)
    BY <2>5, <2>6, OneRecordMarks
  <2>8. PICK new : ctx' = [ctx EXCEPT ![t] = new]
    BY <1>4
  <2>9. QED
    BY <1>1, <1>2, <1>4, <2>7, <2>8, Advances DEF Goto
<1>5. QED
  BY <1>3, <1>4 DEF SetValue

LEMMA LockDeleteOrder ==
    ASSUME IInv, OrderInv, NEW t \in Thread, LockDelete(t)
    PROVE  OrderInv'
<1>1. pc[t] = "lockDelete" /\ UNCHANGED <<index, indexState, call, ctx>>
  BY DEF LockDelete
<1>2. LastStable' = LastStable /\ "search" \notin SearchedPC /\ pc[t] \in SearchedPC
  BY <1>1, SameStable DEF SearchedPC, NewPC
<1>3. CASE Goto(t, "search") /\ UNCHANGED log
  BY <1>1, <1>2, <1>3, SameMarks, GoesTo
<1>4. CASE log' = [log EXCEPT ![ctx[t].existing].state = @ + 1] /\ Goto(t, "remove")
  BY <1>1, <1>2, <1>4, StateMarks, GoesTo
<1>5. QED
  BY <1>3, <1>4 DEF LockDelete

LEMMA MarkDeletedOrder ==
    ASSUME IInv, OrderInv, NEW t \in Thread, MarkDeleted(t)
    PROVE  OrderInv'
<1>1. /\ pc[t] = "mark" /\ Goto(t, "return") /\ UNCHANGED <<index, indexState, call>>
      /\ log' = [log EXCEPT ![ctx[t].existing].deleted = TRUE, ![ctx[t].existing].state = @ + 1]
      /\ ctx' = [ctx EXCEPT ![t].adjustment = @ + PhysicalSize(ctx[t].valueSize)]
  BY DEF MarkDeleted
<1>2. LastStable' = LastStable /\ "return" \notin SearchedPC
  BY <1>1, SameStable DEF SearchedPC, NewPC
<1>3. TypeInv /\ ThreadInv(t)
  BY DEF IInv
<1>4. PICK e \in DOMAIN log : e = ctx[t].existing
  BY <1>1, <1>3 DEF ThreadInv, FoundPC
<1>5. log[e] \in LogRecord /\ log[e].state \in Nat
  BY <1>3, RecordTypes
<1>6. PICK s \in Nat : s = log[e].state + 1
  BY <1>5
<1> DEFINE r == [log[e] EXCEPT !.deleted = TRUE, !.state = s]
<1>7. log' = [log EXCEPT ![e] = r]
  BY <1>1, <1>4, <1>5, <1>6 DEF LogRecord
<1>8. r \in LogRecord /\ r.key = log[e].key /\ r.deleted
  BY <1>5, <1>6 DEF LogRecord
<1> HIDE DEF r
<1>9. Marks(t)
  BY <1>1, <1>4, <1>7, <1>8, OneRecordMarks
<1>10. PICK new : ctx' = [ctx EXCEPT ![t] = new]
  BY <1>1
<1>11. QED
  BY <1>1, <1>2, <1>9, <1>10, Advances DEF Goto

LEMMA ReturnOrder ==
    ASSUME IInv, OrderInv, NEW t \in Thread, Return(t)
    PROVE  OrderInv'
<1>1. Frame(t) /\ pc'[t] = "idle"
  BY Types DEF Return, Goto, Frame
<1>2. Marks(t) /\ UNCHANGED index /\ LastStable' = LastStable
  BY SameMarks, SameStable DEF Return
<1>3. "idle" \notin SearchedPC
  BY DEF SearchedPC, NewPC
<1>4. QED
  BY <1>1, <1>2, <1>3, GoesOn

LEMMA TimeOutOrder ==
    ASSUME IInv, OrderInv, NEW t \in Thread, TimeOut(t)
    PROVE  OrderInv'
<1>1. UNCHANGED <<index, indexState, call>>
  BY DEF TimeOut
<1>2. LastStable' = LastStable
  BY <1>1, SameStable
<1>3. PICK error \in {"timeout", "unknown"} : Fail(t, error)
  BY DEF TimeOut
<1>4. Marks(t)
  BY SameMarks, StateMarks DEF TimeOut
<1>5. QED
  BY <1>1, <1>2, <1>3, <1>4, Fails

-----------------------------------------------------------------------------
(* The steps that change the slots.                                        *)

\* When slots come or go, every search becomes stale.
LEMMA NobodyFresh ==
    ASSUME IInv, NEW t \in Thread, Frame(t), LastStable' = LastStable + 2,
           pc'[t] \notin SearchedPC
    PROVE  \A u \in Thread : ~Fresh(u)'
<1> SUFFICES ASSUME NEW u \in Thread \ {t} PROVE ~Fresh(u)'
  BY DEF Fresh
<1>1. LastStable \in Nat /\ ctx[u].indexState \in Nat /\ ctx[u].indexState <= LastStable
  BY Domains, ThreadTypes DEF IInv, ThreadInv
<1>2. ctx'[u] = ctx[u]
  BY DEF Frame
<1>3. QED
  BY <1>1, <1>2 DEF Fresh

\* The slots come in another order, and nobody goes by the old one.
LEMMA SlotsMove ==
    ASSUME IInv, OrderInv, NEW t \in Thread, Frame(t), UNCHANGED log,
           LastStable' = LastStable + 2, pc'[t] \notin SearchedPC,
           pc'[t] # "assertDeleted", IndexSorted',
           \A i \in DOMAIN index' : ~Dead(index[i])'
    PROVE  OrderInv'
<1>1. \A u \in Thread : ~Fresh(u)'
  BY NobodyFresh
<1>2. \A u \in Thread : Placed(u)'
  BY <1>1 DEF Placed
<1>3. ASSUME NEW u \in Thread PROVE Seen(u)'
  <2>1. CASE u = t
    BY <1>1, <2>1 DEF Seen, SearchedPC
  <2>2. CASE u # t
    <3>1. Seen(u) /\ pc'[u] = pc[u] /\ ctx'[u] = ctx[u]
      BY <2>2 DEF OrderInv, Frame
    <3>2. QED
      BY <1>1, <3>1 DEF Seen
  <2>3. QED
    BY <2>1, <2>2
<1>4. QED
  BY <1>2, <1>3 DEF OrderInv

\* A slot goes in where the search has found no slot.
LEMMA EndInsertOrder ==
    ASSUME IInv, OrderInv, IInv', HasRoom', NEW t \in Thread, EndInsert(t)
    PROVE  OrderInv'
<1> DEFINE e == ctx[t].composing
<1>1. ThreadInv(t) /\ TypeInv /\ Placed(t)
  BY DEF IInv, OrderInv
<1>2. pc[t] = "inserting" /\ pc[t] \in IndexPC /\ pc[t] \in NewPC
  BY DEF EndInsert, IndexPC, NewPC
<1>3. /\ IsCorrupted(indexState) /\ indexState \in Nat
      /\ LastStable = indexState - 1 /\ Fresh(t)
  BY <1>2, InsideIndex
<1>4. call[t] \in Calls /\ e # 0 /\ ~ctx[t].found /\ ctx[t].order <= Len(index)
  BY <1>1, <1>2, <1>3 DEF ThreadInv, NewPC
<1>5. Private(t)
  BY <1>2, <1>4 DEF Private
<1>6. e \in DOMAIN log /\ log[e].key = call[t].key /\ ~log[e].deleted /\ e \in Nat
  BY <1>1, <1>5, PrivateIs, PrivateRecord, ThreadTypes
<1>7. ~(ctx[t].left /\ indexBegin - Scale < dataEnd)
  <2>1. dataEnd < indexBegin /\ indexBegin \in Int /\ dataEnd \in Int
    BY <1>1, <1>2, Types, Domains DEF IInv, RoomInv
  <2>2. QED
    BY <2>1 DEF Scale
<1>8. /\ index' = InsertAt(index, ctx[t].order + 1, e) /\ Goto(t, "return")
      /\ UNCHANGED <<log, call>>
      /\ indexState' = IF indexEnd' - Len(index') * Scale <= dataEnd THEN indexState - 1
                       ELSE indexState + 1
  BY <1>7 DEF EndInsert
<1>9. PICK new : ctx' = [ctx EXCEPT ![t] = new]
  BY <1>7 DEF EndInsert
<1>10. Frame(t) /\ pc'[t] = "return"
  BY <1>8, <1>9, Types DEF Frame, Goto
<1>11. indexState' = indexState + 1
  <2>1. dataEnd' = dataEnd /\ dataEnd \in Int /\ indexBegin' \in Int
    BY Types, DomainsNext DEF EndInsert, IInv
  <2>2. indexBegin' = indexEnd' - Len(index') * Scale
    BY DEF indexBegin
  <2>3. ~(indexEnd' - Len(index') * Scale <= dataEnd)
    BY <2>1, <2>2 DEF HasRoom
  <2>4. QED
    BY <1>8, <2>3
<1>12. LastStable' = LastStable + 2
  <2>1. IsCorrupted(indexState + 1) <=> ~IsCorrupted(indexState)
    BY <1>3, Parity
  <2>2. LastStable' = indexState + 1
    BY <1>3, <1>11, <2>1 DEF LastStable
  <2>3. QED
    BY <1>3, <2>2
<1>13. /\ index \in Seq(Nat) /\ Len(index) \in Nat /\ DOMAIN index = 1 .. Len(index)
       /\ ctx[t].order \in Nat
  BY <1>1, Types, Domains, ThreadTypes
<1>14. PICK k \in 1 .. (Len(index) + 1) : k = ctx[t].order + 1
  BY <1>4, <1>13
<1> HIDE DEF e
<1>15. /\ DOMAIN index' = 1 .. (Len(index) + 1)
       /\ \A j \in 1 .. (Len(index) + 1) :
            index'[j] = IF j < k THEN index[j] ELSE IF j = k THEN e ELSE index[j - 1]
  <2>1. index' = InsertAt(index, k, e)
    BY <1>8, <1>14
  <2>2. index \in Seq(Nat) /\ e \in Nat
    BY <1>6, <1>13
  <2> DEFINE s == InsertAt(index, k, e)
  <2>3. /\ s \in Seq(Nat) /\ Len(s) = Len(index) + 1
        /\ \A j \in 1 .. (Len(index) + 1) :
            s[j] = IF j < k THEN index[j] ELSE IF j = k THEN e ELSE index[j - 1]
    <3>1. k \in 1..(Len(index) + 1)
      OBVIOUS
    <3>2. OneMore(index, k, e, s)
      BY <2>2, <3>1, OneSlotMore, Zenon
    <3>3. QED
      BY <3>2 DEF OneMore
  <2>4. index' = s
    BY <2>1
  <2> HIDE DEF s
  <2>5. QED
    BY <1>13, <2>3, <2>4
<1>16. \A i \in 1 .. Len(index) : IF i < k THEN log[index[i]].key < call[t].key
                                  ELSE call[t].key < log[index[i]].key
  BY <1>1, <1>3, <1>4, <1>13, <1>14 DEF Placed, KeyAt
<1>17. /\ \A i, j \in 1 .. Len(index) : i < j => log[index[i]].key < log[index[j]].key
       /\ \A i \in 1 .. Len(index) : log[index[i]].key \in Nat /\ ~Dead(index[i])
       /\ call[t].key \in Nat
  <2>1. \A i, j \in 1 .. Len(index) : i < j => log[index[i]].key < log[index[j]].key
    BY <1>13 DEF OrderInv, IndexSorted
  <2>2. \A i \in 1 .. Len(index) : index[i] \in DOMAIN log /\ ~Dead(index[i])
    BY <1>13 DEF OrderInv, IInv, SlotsInv
  <2>3. call[t].key \in Nat
    BY <1>4, CallsAre
  <2>4. QED
    BY <1>1, <2>1, <2>2, <2>3, RecordTypes
<1>18. IndexSorted'
  <2> SUFFICES ASSUME NEW i \in 1 .. (Len(index) + 1), NEW j \in 1 .. (Len(index) + 1), i < j
               PROVE  log'[index'[i]].key < log'[index'[j]].key
    BY <1>15 DEF IndexSorted
  <2>1. CASE j < k
    <3>1. /\ index'[i] = index[i] /\ index'[j] = index[j]
          /\ i \in 1 .. Len(index) /\ j \in 1 .. Len(index)
      BY <1>13, <1>14, <1>15, <2>1
    <3>2. QED
      BY <1>8, <1>17, <3>1
  <2>2. CASE j = k
    <3>1. index'[i] = index[i] /\ index'[j] = e /\ i \in 1 .. Len(index) /\ i < k
      BY <1>13, <1>14, <1>15, <2>2
    <3>2. QED
      BY <1>6, <1>8, <1>16, <3>1
  <2>3. CASE j > k /\ i < k
    <3>1. index'[i] = index[i] /\ index'[j] = index[j - 1] /\ j - 1 \in 1 .. Len(index)
      BY <1>13, <1>14, <1>15, <2>3
    <3>2. i \in 1 .. Len(index) /\ i < j - 1
      BY <1>13, <1>14, <2>3
    <3>3. QED
      BY <1>8, <1>17, <3>1, <3>2
  <2>4. CASE j > k /\ i = k
    <3>1. index'[i] = e /\ index'[j] = index[j - 1] /\ j - 1 \in 1 .. Len(index) /\ ~(j - 1 < k)
      <4>1. /\ i \in 1 .. (Len(index) + 1) /\ j \in 1 .. (Len(index) + 1)
            /\ ~(i < k) /\ ~(j < k) /\ j # k
        BY <1>14, <1>15, <2>4
      <4>2. j - 1 \in 1 .. Len(index) /\ ~(j - 1 < k)
        BY <1>13, <1>14, <2>4, <4>1
      <4>3. QED
        BY <1>15, <2>4, <4>1, <4>2, Zenon
    <3>2. QED
      BY <1>6, <1>8, <1>16, <3>1
  <2>5. CASE j > k /\ i > k
    <3>1. /\ index'[i] = index[i - 1] /\ index'[j] = index[j - 1]
          /\ i - 1 \in 1 .. Len(index) /\ j - 1 \in 1 .. Len(index) /\ i - 1 < j - 1
      <4>1. /\ i \in 1 .. (Len(index) + 1) /\ j \in 1 .. (Len(index) + 1)
            /\ ~(i < k) /\ i # k /\ ~(j < k) /\ j # k
        BY <1>14, <1>15, <2>5
      <4>2. i - 1 \in 1 .. Len(index) /\ j - 1 \in 1 .. Len(index) /\ i - 1 < j - 1
        BY <1>13, <1>14, <2>5, <4>1
      <4>3. QED
        BY <1>15, <4>1, <4>2, Zenon
    <3>2. QED
      BY <1>8, <1>17, <3>1
  <2>6. QED
    BY <1>13, <1>14, <2>1, <2>2, <2>3, <2>4, <2>5
<1>19. \A i \in DOMAIN index' : ~Dead(index[i])'
  <2>1. \A i : Dead(i)' => Dead(i)
    BY <1>8, <1>10 DEF Dead, Frame
  <2>2. ~Dead(e)
    <3>1. \A u \in Thread : ctx[u].existing # e
      BY <1>5 DEF IInv, Apart, e
    <3>2. QED
      BY <1>6, <3>1 DEF Dead
  <2>3. \A i \in 1 .. (Len(index) + 1) : ~Dead(index'[i])
    <3> TAKE i \in 1 .. (Len(index) + 1)
    <3>1. CASE i < k
      BY <1>13, <1>14, <1>15, <1>17, <3>1
    <3>2. CASE i = k
      BY <1>14, <1>15, <2>2, <3>2
    <3>3. CASE i > k
      <4>1. index'[i] = index[i - 1] /\ i - 1 \in 1 .. Len(index)
        BY <1>13, <1>14, <1>15, <3>3
      <4>2. QED
        BY <1>17, <4>1
    <3>4. QED
      BY <1>13, <1>14, <3>1, <3>2, <3>3
  <2>4. QED
    BY <1>15, <2>1, <2>3 DEF Dead
<1>20. "return" \notin SearchedPC
  BY DEF SearchedPC, NewPC
<1>21. QED
  BY <1>8, <1>10, <1>12, <1>18, <1>19, <1>20, SlotsMove

\* A slot is redirected to a record of the same key.
LEMMA EndModifyOrder ==
    ASSUME IInv, OrderInv, NEW t \in Thread, EndModify(t)
    PROVE  OrderInv'
<1> DEFINE e == ctx[t].composing
<1>1. ThreadInv(t) /\ TypeInv /\ Placed(t)
  BY DEF IInv, OrderInv
<1>2. pc[t] = "modifying" /\ pc[t] \in IndexPC /\ pc[t] \in FoundPC
  BY DEF EndModify, IndexPC, FoundPC
<1>3. /\ IsCorrupted(indexState) /\ indexState \in Nat
      /\ LastStable = indexState - 1 /\ Fresh(t)
  BY <1>2, InsideIndex
<1>4. call[t] \in Calls /\ e # 0 /\ ctx[t].found /\ ctx[t].order < Len(index)
  BY <1>1, <1>2, <1>3 DEF ThreadInv
<1>5. Private(t)
  BY <1>2, <1>4 DEF Private
<1>6. e \in DOMAIN log /\ log[e].key = call[t].key /\ ~log[e].deleted /\ e \in Nat
  BY <1>1, <1>5, PrivateIs, PrivateRecord, ThreadTypes
<1>7. /\ index' = ReplaceAt(index, ctx[t].order + 1, e) /\ Goto(t, "unlockReplaced")
      /\ indexState' = indexState - 1 /\ UNCHANGED <<log, call>>
  BY DEF EndModify
<1>8. PICK new : ctx' = [ctx EXCEPT ![t] = new]
  BY DEF EndModify
<1>9. Frame(t) /\ pc'[t] = "unlockReplaced"
  BY <1>7, <1>8, Types DEF Frame, Goto
<1>10. LastStable' = LastStable
  <2>1. IsCorrupted(indexState - 1) <=> ~IsCorrupted(indexState)
    BY <1>3, Parity
  <2>2. QED
    BY <1>3, <1>7, <2>1 DEF LastStable
<1>11. /\ index \in Seq(Nat) /\ Len(index) \in Nat /\ DOMAIN index = 1 .. Len(index)
       /\ ctx[t].order \in Nat
  BY <1>1, Types, Domains, ThreadTypes
<1>12. PICK k \in 1 .. Len(index) : k = ctx[t].order + 1
  BY <1>4, <1>11
<1>13. /\ DOMAIN index' = DOMAIN index
       /\ \A j \in DOMAIN index : index'[j] = IF j = k THEN e ELSE index[j]
  <2>1. index' = ReplaceAt(index, k, e)
    BY <1>7, <1>12
  <2>2. /\ index' \in Seq(Nat) /\ Len(index') = Len(index)
        /\ \A j \in 1 .. Len(index) : index'[j] = IF j = k THEN e ELSE index[j]
    BY <1>6, <1>11, <2>1, SlotReplaced
  <2>3. QED
    BY <1>11, <2>2
<1> HIDE DEF e
<1>14. KeyAt(k) = call[t].key
  BY <1>1, <1>3, <1>4, <1>12 DEF Placed
<1>15. \A i \in DOMAIN index : KeyAt(i)' = KeyAt(i)
  BY <1>6, <1>7, <1>13, <1>14 DEF KeyAt
<1>16. IndexSorted'
  BY <1>13, <1>15 DEF OrderInv, IndexSorted, KeyAt
<1>17. \A i \in DOMAIN index' : ~Dead(index[i])'
  <2>1. \A i : Dead(i)' => Dead(i)
    BY <1>7, <1>9 DEF Dead, Frame
  <2>2. ~Dead(e)
    <3>1. \A u \in Thread : ctx[u].existing # e
      BY <1>5 DEF IInv, Apart, e
    <3>2. QED
      BY <1>6, <3>1 DEF Dead
  <2>3. \A i \in DOMAIN index : ~Dead(index'[i])
    BY <1>13, <2>2 DEF OrderInv
  <2>4. QED
    BY <1>13, <2>1, <2>3 DEF Dead
<1>18. Marks(t) /\ "unlockReplaced" \notin SearchedPC
  BY <1>7, SameMarks DEF SearchedPC, NewPC
<1>19. \A u \in Thread : Placed(u)' /\ Seen(u)'
  <2>1. \A u \in Thread \ {t} : Placed(u)' /\ Seen(u)'
    BY <1>9, <1>10, <1>13, <1>15, <1>18, OthersSeen
  <2>2. Placed(t)' /\ Seen(t)'
    BY <1>9, <1>18 DEF Placed, Seen, Fresh
  <2>3. QED
    BY <2>1, <2>2
<1>20. QED
  BY <1>16, <1>17, <1>19 DEF OrderInv

\* The slot of the record goes, before the record is marked.
LEMMA RemoveSlotOrder ==
    ASSUME IInv, OrderInv, NEW t \in Thread, RemoveSlot(t)
    PROVE  OrderInv'
<1>1. pc[t] = "remove" /\ ~IsCorrupted(indexState) /\ UNCHANGED call
  BY DEF RemoveSlot
<1>2. ThreadInv(t) /\ TypeInv /\ Placed(t) /\ pc[t] \in SearchedPC /\ pc[t] \in FoundPC
  BY <1>1 DEF IInv, OrderInv, SearchedPC, FoundPC
<1>3. "search" \notin SearchedPC /\ "mark" \notin SearchedPC
  BY DEF SearchedPC, NewPC
<1>4. CASE /\ log' = [log EXCEPT ![ctx[t].existing].state = @ - 1]
           /\ Goto(t, "search") /\ UNCHANGED <<index, indexState, ctx>>
  BY <1>1, <1>3, <1>4, StateMarks, SameStable, GoesTo
<1>5. ASSUME indexState = ctx[t].indexState, NEW new, new.existing = ctx[t].existing,
             ctx' = [ctx EXCEPT ![t] = new],
             index' = RemoveAt(index, ctx[t].order + 1), indexState' = indexState + 2,
             Goto(t, "mark"), UNCHANGED log
      PROVE  OrderInv'
  <2>1. indexState \in Nat /\ LastStable = indexState
    BY <1>1, Types DEF LastStable
  <2>2. /\ Fresh(t) /\ ctx[t].found /\ ctx[t].existing \in DOMAIN log
        /\ log[ctx[t].existing].key = call[t].key
    BY <1>2, <1>5, <2>1 DEF Fresh, ThreadInv
  <2>3. ctx[t].order < Len(index)
    BY <1>2, <2>2 DEF ThreadInv
  <2>4. /\ index \in Seq(Nat) /\ Len(index) \in Nat /\ DOMAIN index = 1 .. Len(index)
        /\ ctx[t].order \in Nat
    BY <1>2, Types, Domains, ThreadTypes
  <2>5. PICK k \in 1 .. Len(index) : k = ctx[t].order + 1
    BY <2>3, <2>4
  <2>6. KeyAt(k) = call[t].key
    BY <1>2, <2>2, <2>5 DEF Placed
  <2>7. /\ DOMAIN index' = 1 .. (Len(index) - 1)
        /\ \A j \in 1 .. (Len(index) - 1) : index'[j] = IF j < k THEN index[j] ELSE index[j + 1]
    <3>1. index' = RemoveAt(index, k)
      BY <1>5, <2>5
    <3>2. /\ index' \in Seq(Nat) /\ Len(index') = Len(index) - 1
          /\ \A j \in 1 .. (Len(index) - 1) : index'[j] = IF j < k THEN index[j] ELSE index[j + 1]
      BY <2>4, <3>1, SlotRemoved
    <3>3. QED
      BY <3>2
  <2>8. ASSUME NEW j \in 1 .. (Len(index) - 1)
        PROVE  \E i \in 1 .. Len(index) : /\ index'[j] = index[i] /\ i # k
                                          /\ i = IF j < k THEN j ELSE j + 1
    <3>1. CASE j < k
      BY <2>4, <2>5, <2>7, <3>1
    <3>2. CASE ~(j < k)
      <4>1. j + 1 \in 1 .. Len(index) /\ j + 1 # k /\ index'[j] = index[j + 1]
        BY <2>4, <2>5, <2>7, <3>2
      <4>2. QED
        BY <3>2, <4>1
    <3>3. QED
      BY <3>1, <3>2
  <2>9. \A i, j \in 1 .. Len(index) : i < j => KeyAt(i) < KeyAt(j)
    BY <2>4 DEF OrderInv, IndexSorted, KeyAt
  <2>10. IndexSorted'
    <3> SUFFICES ASSUME NEW a \in 1 .. (Len(index) - 1), NEW b \in 1 .. (Len(index) - 1), a < b
                 PROVE  log'[index'[a]].key < log'[index'[b]].key
      BY <2>7 DEF IndexSorted
    <3>1. PICK i \in 1 .. Len(index) : index'[a] = index[i] /\ i = IF a < k THEN a ELSE a + 1
      BY <2>8
    <3>2. PICK j \in 1 .. Len(index) : index'[b] = index[j] /\ j = IF b < k THEN b ELSE b + 1
      BY <2>8
    <3>3. i < j
      BY <2>4, <2>5, <3>1, <3>2
    <3>4. QED
      BY <1>5, <2>9, <3>1, <3>2, <3>3 DEF KeyAt
  <2>11. Frame(t) /\ pc'[t] = "mark" /\ ctx'[t] = new
    BY <1>1, <1>5, Types DEF Frame, Goto
  <2>12. \A i \in DOMAIN index' : ~Dead(index[i])'
    <3> SUFFICES ASSUME NEW j \in 1 .. (Len(index) - 1) PROVE ~Dead(index[j])'
      BY <2>7
    <3>1. PICK i \in 1 .. Len(index) : index'[j] = index[i] /\ i # k
      BY <2>8
    <3>2. index[i] \in DOMAIN log /\ ~Dead(index[i]) /\ index[k] \in DOMAIN log
      BY <2>4 DEF OrderInv, IInv, SlotsInv
    <3>3. KeyAt(i) \in Nat /\ KeyAt(k) \in Nat
      BY <1>2, <3>2, RecordTypes DEF KeyAt
    <3>4. KeyAt(i) # KeyAt(k)
      BY <2>9, <3>1, <3>3
    <3>5. index[i] # ctx[t].existing
      BY <2>2, <2>6, <3>4 DEF KeyAt
    <3>6. ~Dead(index'[j])
      BY <3>1, <3>2
    <3>7. index'[j] # ctx'[t].existing
      BY <1>5, <2>11, <3>1, <3>5
    <3>8. \A u \in Thread \ {t} : pc'[u] = pc[u] /\ ctx'[u] = ctx[u]
      BY <2>11 DEF Frame
    <3>9. QED
      BY <1>5, <3>6, <3>7, <3>8 DEF Dead
  <2>13. LastStable' = LastStable + 2
    <3>1. IsCorrupted(indexState + 2) <=> IsCorrupted(indexState)
      BY <2>1, Parity
    <3>2. LastStable' = indexState + 2
      BY <1>1, <1>5, <3>1 DEF LastStable
    <3>3. QED
      BY <2>1, <3>2
  <2>14. QED
    BY <1>3, <1>5, <2>10, <2>11, <2>12, <2>13, SlotsMove
<1>6. CASE /\ indexState = ctx[t].indexState
           /\ LET room == IF RemoveMovesLeft(Len(index), ctx[t].order) THEN 0 ELSE Scale
              IN ctx' = [ctx EXCEPT ![t].adjustment = @ + room]
           /\ index' = RemoveAt(index, ctx[t].order + 1) /\ indexState' = indexState + 2
           /\ Goto(t, "mark") /\ UNCHANGED log
  <2>1. PICK room : ctx' = [ctx EXCEPT ![t].adjustment = @ + room]
    BY <1>6
  <2> DEFINE new == [ctx[t] EXCEPT !.adjustment = @ + room]
  <2>2. new.existing = ctx[t].existing /\ ctx' = [ctx EXCEPT ![t] = new]
    BY <2>1, Types DEF Context
  <2> HIDE DEF new
  <2>3. QED
    BY <1>5, <1>6, <2>2
<1>7. QED
  BY <1>4, <1>6 DEF RemoveSlot

-----------------------------------------------------------------------------
(* The invariant holds, and what it says.                                  *)

LEMMA InitOrder == Init => OrderInv
<1> SUFFICES ASSUME Init PROVE OrderInv
  OBVIOUS
<1>1. PICK n \in Nat : n = Cardinality(Preload)
  BY KeysAreNaturals, FS_Subset, FS_CardinalityType
<1>2. PICK keys \in [1 .. n -> Preload] :
        /\ \A i, j \in DOMAIN keys : i < j => keys[i] < keys[j]
        /\ log = [i \in DOMAIN keys |-> Record(keys[i], FirstVersion, 1)]
  BY <1>1 DEF Init
<1>3. DOMAIN keys = 1 .. n /\ DOMAIN log = 1 .. n
      /\ \A i \in 1 .. n : log[i].key = keys[i] /\ ~log[i].deleted
  BY <1>2 DEF Record
<1>4. Len(log) = n
  BY <1>1, <1>3, InitHolds DEF IInv, TypeInv
<1>5. DOMAIN index = 1 .. n /\ \A i \in 1 .. n : index[i] = i
  BY <1>4 DEF Init
<1>6. IndexSorted
  BY <1>2, <1>3, <1>5 DEF IndexSorted
<1>7. \A t \in Thread : pc[t] = "idle" /\ ~Fresh(t)
  BY DEF Init, Fresh, SearchedPC, NewPC
<1>8. \A t \in Thread : Placed(t) /\ Seen(t)
  BY <1>7 DEF Placed, Seen
<1>9. \A i \in DOMAIN index : ~Dead(index[i])
  BY <1>3, <1>5, <1>7 DEF Dead
<1>10. QED
  BY <1>6, <1>8, <1>9 DEF OrderInv

LEMMA NextOrder == IInv /\ OrderInv /\ HasRoom' /\ [Next]_vars => OrderInv'
<1> SUFFICES ASSUME IInv, OrderInv, HasRoom', [Next]_vars PROVE OrderInv'
  OBVIOUS
<1>1. TypeInv /\ IInv'
  BY NextKeeps DEF IInv
<1>2. ASSUME NEW t \in Thread, Step(t) PROVE OrderInv'
  <2>1. CASE SearchIndex(t)
    BY <2>1, SearchIndexOrder
  <2>2. CASE ReadRecord(t)
    BY <2>2, ReadRecordOrder
  <2>3. CASE VerifySearch(t)
    BY <2>3, VerifySearchOrder
  <2>4. CASE BeginAppend(t)
    BY <2>4, BeginAppendOrder
  <2>5. CASE EndAppend(t)
    BY <2>5, EndAppendOrder
  <2>6. CASE Compose(t)
    BY <2>6, ComposeOrder
  <2>7. CASE BeginInsert(t)
    BY <2>7, BeginInsertOrder
  <2>8. CASE EndInsert(t)
    BY <1>1, <2>8, EndInsertOrder
  <2>9. CASE LockReplace(t)
    BY <2>9, LockReplaceOrder
  <2>10. CASE BeginModify(t)
    BY <2>10, BeginModifyOrder
  <2>11. CASE EndModify(t)
    BY <2>11, EndModifyOrder
  <2>12. CASE UnlockReplaced(t)
    BY <2>12, UnlockReplacedOrder
  <2>13. CASE SetValue(t)
    BY <2>13, SetValueOrder
  <2>14. CASE LockDelete(t)
    BY <2>14, LockDeleteOrder
  <2>15. CASE RemoveSlot(t)
    BY <2>15, RemoveSlotOrder
  <2>16. CASE MarkDeleted(t)
    BY <2>16, MarkDeletedOrder
  <2>17. CASE Return(t)
    BY <2>17, ReturnOrder
  <2>18. QED
    BY <1>1, <1>2, <2>1, <2>2, <2>3, <2>4, <2>5, <2>6, <2>7, <2>8, <2>9, <2>10, <2>11,
       <2>12, <2>13, <2>14, <2>15, <2>16, <2>17, StepIs, Zenon
<1>3. ASSUME NEW t \in Thread, Call(t) \/ TimeOut(t) PROVE OrderInv'
  BY <1>3, CallOrder, TimeOutOrder
<1>4. CASE UNCHANGED vars
  BY <1>4 DEF vars, table, OrderInv, IndexSorted, Placed, Seen, Dead, Fresh, KeyAt, LastStable
<1>5. QED
  BY <1>2, <1>3, <1>4, Zenon DEF Next

\* As long as a unit is free between the records and the slots, the order of the
\* slots, the searches and the marks fit together in every state.
THEOREM OrderInvariant == Spec /\ []HasRoom => []OrderInv
<1>1. QED
  BY CallsInvariant, InitOrder, NextOrder, PTL DEF Spec

\* As long as a unit is free, the keys of the slots are strictly increasing: a
\* call whose search is out of date never puts a slot in the wrong place, and no
\* two calls insert the same key (_Set_InsertIndex compares the state of the index).
THEOREM IndexSortedThm == Spec /\ []HasRoom => []IndexSorted
<1>1. OrderInv => IndexSorted
  BY DEF OrderInv
<1>2. QED
  BY <1>1, OrderInvariant, PTL

\* As long as a unit is free, no slot leads to a record that is not composed or
\* is marked: Set composes before it publishes and Delete removes before it marks.
THEOREM SlotsLeadToLiveRecordsThm == Spec /\ []HasRoom => []SlotsLeadToLiveRecords
<1>1. IInv /\ OrderInv => SlotsLeadToLiveRecords
  BY DEF IInv, SlotsInv, OrderInv, Dead, SlotsLeadToLiveRecords
<1>2. QED
  BY <1>1, CallsInvariant, OrderInvariant, PTL

\* As long as a unit is free, _Search never gets a marked record from an index that
\* has not moved since: the message of SortedTable.c:1241 is never written.
THEOREM NoDeletedItemFoundThm == Spec /\ []HasRoom => []NoDeletedItemFound
<1>1. OrderInv => NoDeletedItemFound
  BY DEF OrderInv, Seen, NoDeletedItemFound
<1>2. QED
  BY <1>1, OrderInvariant, PTL

-----------------------------------------------------------------------------
(***************************************************************************)
(* The counter of wasted memory in module SortedTable, for any number of   *)
(* threads, keys, calls and units of memory: when no call is running, it   *)
(* is what the records and the slots say (WastedIsExact), unless a call    *)
(* was overtaken or a deadline passed while Delete marked its record.      *)
(*                                                                         *)
(* Set and Delete keep what they owe the counter in the adjustment of      *)
(* their context and pay it when they return, so while calls are running   *)
(* the counter is wrong by the sum of what they owe. The inductive         *)
(* invariant WasteInv says that with these debts the books balance after   *)
(* every step. No two slots lead to one record, or a Set in place would    *)
(* count twice.                                                            *)
(*                                                                         *)
(* The number of threads is not known to be finite and a sum is a fold, so *)
(* both sums are given by the function of their partial sums: a step       *)
(* changes one summand, and the partial sums from there on.                *)
(***************************************************************************)

\* s[i] is the sum of the first i of n numbers.
Sums(s, f, n) ==
    /\ s \in [0..n -> Int]
    /\ s[0] = 0
    /\ \A i \in 1..n : s[i] = s[i - 1] + f[i]

\* One number is changed.
LEMMA SumReplaced ==
    ASSUME NEW n \in Nat, NEW f \in [1..n -> Int], NEW g \in [1..n -> Int], NEW k \in 1..n,
           \A i \in 1..n : i # k => g[i] = f[i],
           NEW s, Sums(s, f, n)
    PROVE  \E r : Sums(r, g, n) /\ r[n] = s[n] + (g[k] - f[k])
<1> DEFINE r == [i \in 0..n |-> IF i < k THEN s[i] ELSE s[i] + (g[k] - f[k])]
<1>1. s \in [0..n -> Int] /\ s[0] = 0 /\ \A i \in 1..n : s[i] = s[i - 1] + f[i]
  BY DEF Sums
<1>2. g[k] - f[k] \in Int
  OBVIOUS
<1>3. PICK d \in Int : d = g[k] - f[k]
  BY <1>2
<1>4. \A i \in 0..n : r[i] = IF i < k THEN s[i] ELSE s[i] + d
  BY <1>3
<1>5. r \in [0..n -> Int]
  BY <1>1, <1>2
<1> HIDE DEF r
<1>6. ASSUME NEW i \in 1..n PROVE r[i] = r[i - 1] + g[i]
  <2>1. /\ i \in 0..n /\ i - 1 \in 0..n /\ s[i] \in Int /\ s[i - 1] \in Int
        /\ f[i] \in Int /\ g[i] \in Int /\ s[i] = s[i - 1] + f[i]
    BY <1>1
  <2>2. CASE i < k
    <3>1. i - 1 < k /\ i # k
      BY <2>2
    <3>2. r[i] = s[i] /\ r[i - 1] = s[i - 1] /\ g[i] = f[i]
      BY <1>4, <2>1, <2>2, <3>1
    <3>3. QED
      BY <2>1, <3>2
  <2>3. CASE i = k
    <3>1. r[i] = s[i] + d /\ r[i - 1] = s[i - 1] /\ g[i] = f[i] + d
      BY <1>3, <1>4, <2>1, <2>3
    <3>2. QED
      BY <2>1, <3>1
  <2>4. CASE i > k
    <3>1. ~(i - 1 < k) /\ ~(i < k) /\ i # k
      BY <2>4
    <3>2. r[i] = s[i] + d /\ r[i - 1] = s[i - 1] + d /\ g[i] = f[i]
      BY <1>4, <2>1, <3>1
    <3>3. QED
      BY <2>1, <3>2
  <2>5. QED
    BY <2>2, <2>3, <2>4
<1>7. r[0] = 0 /\ r[n] = s[n] + d
  BY <1>1, <1>4
<1>8. QED
  BY <1>3, <1>5, <1>6, <1>7 DEF Sums

\* A number comes in at k.
LEMMA SumInserted ==
    ASSUME NEW n \in Nat, NEW f \in [1..n -> Int], NEW g \in [1..(n + 1) -> Int],
           NEW k \in 1..(n + 1),
           \A i \in 1..(n + 1) : i # k => g[i] = IF i < k THEN f[i] ELSE f[i - 1],
           NEW s, Sums(s, f, n)
    PROVE  \E r : Sums(r, g, n + 1) /\ r[n + 1] = s[n] + g[k]
<1> DEFINE r == [i \in 0..(n + 1) |-> IF i < k THEN s[i] ELSE s[i - 1] + g[k]]
<1>1. s \in [0..n -> Int] /\ s[0] = 0 /\ \A i \in 1..n : s[i] = s[i - 1] + f[i]
  BY DEF Sums
<1>2. PICK d \in Int : d = g[k]
  OBVIOUS
<1>3. \A i \in 0..(n + 1) : r[i] = IF i < k THEN s[i] ELSE s[i - 1] + d
  BY <1>2
<1>4. \A i \in 0..(n + 1) : (i < k => i \in 0..n) /\ (~(i < k) => i - 1 \in 0..n)
  OBVIOUS
<1>5. r \in [0..(n + 1) -> Int]
  <2>1. \A i \in 0..n : s[i] \in Int
    BY <1>1
  <2>2. \A i \in 0..(n + 1) : r[i] \in Int
    BY <1>2, <1>3, <1>4, <2>1
  <2>3. r = [i \in 0..(n + 1) |-> r[i]]
    OBVIOUS
  <2> HIDE DEF r
  <2>4. QED
    BY <2>2, <2>3
<1> HIDE DEF r
<1>6. ASSUME NEW i \in 1..(n + 1) PROVE r[i] = r[i - 1] + g[i]
  <2>1. i \in 0..(n + 1) /\ i - 1 \in 0..(n + 1) /\ g[i] \in Int
    OBVIOUS
  <2>2. CASE i < k
    <3>1. i - 1 < k /\ i # k /\ i \in 1..n /\ i \in 0..n /\ i - 1 \in 0..n
      BY <2>2
    <3>2. r[i] = s[i] /\ r[i - 1] = s[i - 1] /\ g[i] = f[i]
      BY <1>3, <2>1, <2>2, <3>1
    <3>3. QED
      BY <1>1, <3>1, <3>2
  <2>3. CASE i = k
    <3>1. r[i] = s[i - 1] + d /\ r[i - 1] = s[i - 1] /\ g[i] = d
      BY <1>2, <1>3, <2>1, <2>3
    <3>2. QED
      BY <3>1
  <2>4. CASE i > k
    <3>1. ~(i - 1 < k) /\ ~(i < k) /\ i # k /\ i - 1 \in 1..n /\ i - 1 - 1 \in 0..n /\ i - 1 \in 0..n
      BY <2>4
    <3>2. r[i] = s[i - 1] + d /\ r[i - 1] = s[i - 1 - 1] + d /\ g[i] = f[i - 1]
      BY <1>3, <2>1, <3>1
    <3>3. s[i - 1] = s[i - 1 - 1] + f[i - 1] /\ s[i - 1 - 1] \in Int /\ f[i - 1] \in Int
      BY <1>1, <3>1
    <3>4. QED
      BY <3>2, <3>3
  <2>5. QED
    BY <2>2, <2>3, <2>4
<1>7. r[0] = 0 /\ r[n + 1] = s[n] + d
  BY <1>1, <1>3
<1>8. QED
  BY <1>2, <1>5, <1>6, <1>7 DEF Sums

\* The number at k goes.
LEMMA SumRemoved ==
    ASSUME NEW n \in Nat, NEW f \in [1..n -> Int], NEW g \in [1..(n - 1) -> Int],
           NEW k \in 1..n,
           \A i \in 1..(n - 1) : g[i] = IF i < k THEN f[i] ELSE f[i + 1],
           NEW s, Sums(s, f, n)
    PROVE  \E r : Sums(r, g, n - 1) /\ r[n - 1] = s[n] - f[k]
<1> DEFINE r == [i \in 0..(n - 1) |-> IF i < k THEN s[i] ELSE s[i + 1] - f[k]]
<1>1. s \in [0..n -> Int] /\ s[0] = 0 /\ \A i \in 1..n : s[i] = s[i - 1] + f[i]
  BY DEF Sums
<1>2. PICK d \in Int : d = f[k]
  OBVIOUS
<1>3. \A i \in 0..(n - 1) : r[i] = IF i < k THEN s[i] ELSE s[i + 1] - d
  BY <1>2
<1>4. \A i \in 0..(n - 1) : i \in 0..n /\ i + 1 \in 0..n
  OBVIOUS
<1>5. r \in [0..(n - 1) -> Int]
  <2>1. \A i \in 0..n : s[i] \in Int
    BY <1>1
  <2>2. \A i \in 0..(n - 1) : r[i] \in Int
    BY <1>2, <1>3, <1>4, <2>1
  <2>3. r = [i \in 0..(n - 1) |-> r[i]]
    OBVIOUS
  <2> HIDE DEF r
  <2>4. QED
    BY <2>2, <2>3
<1> HIDE DEF r
<1>6. ASSUME NEW i \in 1..(n - 1) PROVE r[i] = r[i - 1] + g[i]
  <2>1. i \in 0..(n - 1) /\ i - 1 \in 0..(n - 1) /\ i \in 1..n /\ i + 1 \in 1..n
    OBVIOUS
  <2>2. /\ s[i - 1] \in Int /\ s[i] \in Int /\ s[i + 1] \in Int /\ f[i] \in Int /\ f[i + 1] \in Int
        /\ s[i] = s[i - 1] + f[i]
    BY <1>1, <2>1
  <2>3. s[i + 1] = s[i] + f[i + 1]
    <3>1. s[i + 1] = s[(i + 1) - 1] + f[i + 1]
      BY <1>1, <2>1
    <3>2. (i + 1) - 1 = i
      OBVIOUS
    <3>3. QED
      BY <3>1, <3>2
  <2>4. CASE i < k
    <3>1. r[i] = s[i] /\ r[i - 1] = s[i - 1] /\ g[i] = f[i]
      BY <1>3, <2>1, <2>4
    <3>2. QED
      BY <2>2, <3>1
  <2>5. CASE i = k
    <3>1. r[i] = s[i + 1] - d /\ r[i - 1] = s[i - 1] /\ g[i] = f[i + 1] /\ f[i] = d
      BY <1>2, <1>3, <2>1, <2>5
    <3>2. QED
      BY <2>2, <2>3, <3>1
  <2>6. CASE i > k
    <3>1. r[i] = s[i + 1] - d /\ r[i - 1] = s[(i - 1) + 1] - d /\ g[i] = f[i + 1]
      BY <1>3, <2>1, <2>6
    <3>2. (i - 1) + 1 = i
      OBVIOUS
    <3>3. QED
      BY <2>2, <2>3, <3>1, <3>2
  <2>7. QED
    BY <2>4, <2>5, <2>6
<1>7. r[0] = 0
  BY <1>1, <1>3
<1>8. r[n - 1] = s[n] - d
  <2>1. n - 1 \in 0..(n - 1) /\ (n - 1) + 1 = n
    OBVIOUS
  <2>2. CASE n - 1 < k
    <3>1. k = n
      BY <2>2
    <3>2. r[n - 1] = s[n - 1] /\ s[n] = s[n - 1] + f[n] /\ s[n - 1] \in Int /\ f[n] = d
      BY <1>1, <1>2, <1>3, <2>1, <2>2, <3>1
    <3>3. QED
      BY <3>2
  <2>3. CASE ~(n - 1 < k)
    BY <1>3, <2>1, <2>3
  <2>4. QED
    BY <2>2, <2>3
<1>9. QED
  BY <1>2, <1>5, <1>6, <1>7, <1>8 DEF Sums

\* Numbers that are all zero.
LEMMA SumOfZeros ==
    ASSUME NEW n \in Nat, NEW f, \A i \in 1..n : f[i] = 0, NEW s, Sums(s, f, n)
    PROVE  s[n] = 0
<1> DEFINE S == {k \in Nat : k <= n => s[k] = 0}
<1>1. s[0] = 0 /\ \A i \in 1..n : s[i] = s[i - 1] + f[i]
  BY DEF Sums
<1>2. ASSUME NEW k \in Nat, \A m \in Nat : m < k => m \in S PROVE k \in S
  <2>1. CASE k = 0
    BY <1>1, <2>1
  <2>2. CASE k # 0 /\ k <= n
    <3>1. k - 1 \in Nat /\ k - 1 < k /\ k - 1 <= n /\ k \in 1..n
      BY <2>2
    <3>2. s[k - 1] = 0
      BY <1>2, <3>1
    <3>3. s[k] = s[k - 1] + f[k] /\ f[k] = 0
      BY <1>1, <3>1
    <3>4. QED
      BY <3>2, <3>3
  <2>3. QED
    BY <2>1, <2>2
<1> HIDE DEF S
<1>3. n \in S
  BY <1>2, Induction
<1>4. QED
  BY <1>3 DEF S

-----------------------------------------------------------------------------
(* The fold of LiveSize as a sum.                                          *)

\* What the fold leaves for a set of orders.
Counted(f, s) == IF s = {} THEN 0 ELSE f[s \ {Max(s)}] + PhysicalSize(log[index[Max(s)]].size)

LEMMA CountedDefined ==
    ASSUME NEW n \in Nat
    PROVE  \E f : f = [s \in SUBSET (1..n) |-> Counted(f, s)]
<1> DEFINE Good(f, k) == /\ f = [s \in SUBSET (1..n) |-> f[s]]
                         /\ \A s \in SUBSET (1..n) : s \subseteq 1..k => f[s] = Counted(f, s)
           S == {k \in Nat : \E f : Good(f, k)}
<1>1. ASSUME NEW k \in Nat, \A m \in Nat : m < k => m \in S
      PROVE  k \in S
  <2>1. CASE k = 0
    <3> DEFINE f == [s \in SUBSET (1..n) |-> 0]
    <3>1. \A s \in SUBSET (1..n) : s \subseteq 1..0 => s = {}
      OBVIOUS
    <3>2. \A s \in SUBSET (1..n) : s \subseteq 1..0 => f[s] = Counted(f, s)
      BY <3>1 DEF Counted
    <3>3. Good(f, 0)
      BY <3>2
    <3>4. QED
      BY <2>1, <3>3
  <2>2. CASE k # 0
    <3>1. k - 1 \in S
      <4>1. k - 1 \in Nat /\ k - 1 < k
        BY <2>2
      <4> HIDE DEF S
      <4>2. QED
        BY <1>1, <4>1
    <3>2. PICK f : Good(f, k - 1)
      BY <3>1
    <3> DEFINE g == [s \in SUBSET (1..n) |->
                       IF s \subseteq 1..(k - 1) THEN f[s] ELSE Counted(f, s)]
    <3>3. \A s \in SUBSET (1..n) : g[s] = IF s \subseteq 1..(k - 1) THEN f[s] ELSE Counted(f, s)
      OBVIOUS
    <3>4. ASSUME NEW s \in SUBSET (1..n), s \subseteq 1..k PROVE g[s] = Counted(g, s)
      <4>1. s \ {Max(s)} \subseteq 1..(k - 1)
        <5>1. CASE k \in s
          <6>1. Max(s) = k
            BY <3>4, <5>1, MaxIs
          <6>2. QED
            BY <3>4, <6>1
        <5>2. CASE k \notin s
          <6>1. \A y \in s : y \in 1..k /\ y # k
            BY <3>4, <5>2
          <6>2. \A y \in 1..k : y # k => y \in 1..(k - 1)
            OBVIOUS
          <6>3. QED
            BY <6>1, <6>2
        <5>3. QED
          BY <5>1, <5>2
      <4>2. g[s \ {Max(s)}] = f[s \ {Max(s)}]
        <5>1. s \ {Max(s)} \in SUBSET (1..n)
          OBVIOUS
        <5>2. QED
          BY <3>3, <4>1, <5>1, Zenon
      <4>3. Counted(g, s) = Counted(f, s)
        BY <4>2, Zenon DEF Counted
      <4>4. g[s] = Counted(f, s)
        <5>1. s \subseteq 1..(k - 1) => f[s] = Counted(f, s)
          BY <3>2, Zenon
        <5>2. QED
          BY <3>3, <5>1, Zenon
      <4>5. QED
        BY <4>3, <4>4, Zenon
    <3>5. g = [s \in SUBSET (1..n) |-> g[s]]
      OBVIOUS
    <3>6. Good(g, k)
      <4> HIDE DEF g
      <4>1. QED
        BY <3>4, <3>5, Zenon
    <3>7. QED
      <4> HIDE DEF Good
      <4>1. QED
        BY <3>6
  <2>3. QED
    BY <2>1, <2>2
<1>2. n \in S
  <2> HIDE DEF S
  <2>1. QED
    BY <1>1, Induction
<1>3. PICK f : Good(f, n)
  BY <1>2
<1>4. \A s \in SUBSET (1..n) : f[s] = Counted(f, s)
  BY <1>3
<1>5. f = [s \in SUBSET (1..n) |-> Counted(f, s)]
  <2>1. f = [s \in SUBSET (1..n) |-> f[s]]
    BY <1>3
  <2>2. [s \in SUBSET (1..n) |-> f[s]] = [s \in SUBSET (1..n) |-> Counted(f, s)]
    BY <1>4, Zenon
  <2>3. QED
    BY <2>1, <2>2, Zenon
<1>6. QED
  BY <1>5

\* The sizes of the records that the slots lead to.
Sizes == [i \in 1..Len(index) |-> PhysicalSize(log[index[i]].size)]

LEMMA LiveSizeIs ==
    ASSUME TypeInv, NEW s, Sums(s, Sizes, Len(index))
    PROVE  LiveSize = s[Len(index)]
<1> DEFINE D == DOMAIN index
           f == CHOOSE g : g = [o \in SUBSET D |->
                   IF o = {} THEN 0 ELSE g[o \ {Max(o)}] + PhysicalSize(log[index[Max(o)]].size)]
<1>1. D = 1..Len(index) /\ Len(index) \in Nat
  BY Domains
<1>2. LiveSize = f[D]
  BY Zenon DEF LiveSize, FoldLeft, MapThenFoldSet
<1>3. f = [o \in SUBSET D |-> Counted(f, o)]
  <2>1. \E g : g = [o \in SUBSET D |-> Counted(g, o)]
    <3>1. \E g : g = [o \in SUBSET (1..Len(index)) |-> Counted(g, o)]
      BY <1>1, CountedDefined
    <3>2. QED
      BY <1>1, <3>1
  <2>2. \E g : g = [o \in SUBSET D |->
            IF o = {} THEN 0 ELSE g[o \ {Max(o)}] + PhysicalSize(log[index[Max(o)]].size)]
    BY <2>1, Zenon DEF Counted
  <2>3. f = [o \in SUBSET D |->
            IF o = {} THEN 0 ELSE f[o \ {Max(o)}] + PhysicalSize(log[index[Max(o)]].size)]
    <3> HIDE DEF D
    <3>1. QED
      BY <2>2, Zenon
  <2>4. QED
    <3> HIDE DEF f, D
    <3>1. QED
      BY <2>3, Zenon DEF Counted
<1> HIDE DEF D, f
<1>4. \A o : o \subseteq 1..Len(index) => f[o] = Counted(f, o)
  <2>1. \A o \in SUBSET D : f[o] = Counted(f, o)
    BY <1>3
  <2>2. QED
    BY <1>1, <2>1
<1> DEFINE S == {k \in Nat : k <= Len(index) => f[1..k] = s[k]}
<1>5. ASSUME NEW k \in Nat, \A m \in Nat : m < k => m \in S PROVE k \in S
  <2>1. CASE k = 0
    <3>1. 1..0 = {} /\ {} \subseteq 1..Len(index)
      OBVIOUS
    <3>2. f[{}] = 0
      BY <1>4, <3>1, Zenon DEF Counted
    <3>3. s[0] = 0
      BY DEF Sums
    <3>4. QED
      BY <2>1, <3>1, <3>2, <3>3
  <2>2. CASE k # 0 /\ k <= Len(index)
    <3>1. PICK o : o = 1..k
      OBVIOUS
    <3>2. o \subseteq 1..Len(index) /\ o # {} /\ o \ {k} = 1..(k - 1) /\ k \in o
      BY <1>1, <2>2, <3>1
    <3>3. Max(o) = k
      BY <3>1, <3>2, MaxIs
    <3>4. f[o] = Counted(f, o)
      BY <1>4, <3>2, Zenon
    <3>5. f[o] = f[1..(k - 1)] + PhysicalSize(log[index[k]].size)
      BY <3>2, <3>3, <3>4, Zenon DEF Counted
    <3>6. k - 1 \in S
      <4> HIDE DEF S
      <4>1. k - 1 \in Nat /\ k - 1 < k
        BY <2>2
      <4>2. QED
        BY <1>5, <4>1
    <3>7. f[1..(k - 1)] = s[k - 1]
      BY <1>1, <2>2, <3>6
    <3>8. s[k] = s[k - 1] + Sizes[k] /\ Sizes[k] = PhysicalSize(log[index[k]].size)
      BY <1>1, <2>2 DEF Sums, Sizes
    <3>9. f[1..k] = s[k]
      BY <3>1, <3>5, <3>7, <3>8, Zenon
    <3>10. QED
      BY <3>9
  <2>3. QED
    BY <2>1, <2>2
<1>6. Len(index) \in S
  <2> HIDE DEF S
  <2>1. QED
    BY <1>1, <1>5, Induction
<1>7. f[1..Len(index)] = s[Len(index)]
  BY <1>1, <1>6
<1>8. QED
  BY <1>1, <1>2, <1>7, Zenon

-----------------------------------------------------------------------------
(* The books.                                                              *)

\* What t will do to the counter when it returns, and what it has not put into
\* its context yet: the slot is gone before the record is marked.
Owes(t) == ctx[t].adjustment + (IF pc[t] = "mark" THEN PhysicalSize(ctx[t].valueSize) ELSE 0)

\* A list of threads, none twice, that has all who make a call.
Listed(q) ==
    /\ q \in Seq(Thread)
    /\ \A i, j \in DOMAIN q : q[i] = q[j] => i = j
    /\ \A t \in Thread : pc[t] # "idle" => \E i \in DOMAIN q : q[i] = t

Debts(q) == [i \in 1..Len(q) |-> Owes(q[i])]

\* The sum of what the threads owe is o, that of what the slots lead to is l.
Owed(o) == \E q, s : Listed(q) /\ Sums(s, Debts(q), Len(q)) /\ o = s[Len(q)]
Live(l) == \E s : Sums(s, Sizes, Len(index)) /\ l = s[Len(index)]

Balanced(l, o) == wasted + o = (dataEnd - l) + (MaxEnd - indexEnd)

\* No two slots lead to one record.
NoTwins == \A i, j \in DOMAIN index : index[i] = index[j] => i = j

WasteInv ==
    /\ NoTwins
    /\ ~overtaken => \E l, o \in Int : Live(l) /\ Owed(o) /\ Balanced(l, o)

LEMMA OwesInt ==
    ASSUME TypeInv, NEW t \in Thread
    PROVE  Owes(t) \in Int
<1>1. ctx[t].adjustment \in Int /\ ctx[t].valueSize \in Nat
  BY ThreadTypes
<1>2. QED
  BY <1>1 DEF Owes, PhysicalSize

LEMMA SizesInt ==
    ASSUME IInv
    PROVE  Sizes \in [1..Len(index) -> Int]
<1>1. ASSUME NEW i \in 1..Len(index) PROVE PhysicalSize(log[index[i]].size) \in Int
  <2>1. TypeInv /\ i \in DOMAIN index
    BY Domains DEF IInv
  <2>2. index[i] \in DOMAIN log
    BY <2>1 DEF IInv, SlotsInv
  <2>3. log[index[i]].size \in Nat
    BY <2>1, <2>2, RecordTypes
  <2>4. QED
    BY <2>3 DEF PhysicalSize
<1>2. QED
  BY <1>1 DEF Sizes

\* What one thread owes changes.
LEMMA DebtChanges ==
    ASSUME IInv, IInv', NEW t \in Thread, Frame(t), pc[t] # "idle",
           NEW o, Owed(o), NEW n, n = o + (Owes(t)' - Owes(t))
    PROVE  Owed(n)'
<1>1. PICK q, s : Listed(q) /\ Sums(s, Debts(q), Len(q)) /\ o = s[Len(q)]
  BY DEF Owed
<1>2. q \in Seq(Thread) /\ Len(q) \in Nat /\ DOMAIN q = 1..Len(q)
  BY <1>1 DEF Listed
<1>3. PICK k \in 1..Len(q) : q[k] = t
  BY <1>1, <1>2 DEF Listed
<1>4. \A i \in 1..Len(q) : q[i] \in Thread /\ (i # k => q[i] # t)
  BY <1>1, <1>2, <1>3 DEF Listed
<1> DEFINE f == Debts(q)
           g == [i \in 1..Len(q) |-> Owes(q[i])']
<1>5. f \in [1..Len(q) -> Int]
  <2>1. \A u \in Thread : Owes(u) \in Int
    BY OwesInt DEF IInv
  <2>2. QED
    BY <1>4, <2>1 DEF Debts
<1>6. g \in [1..Len(q) -> Int]
  <2>1. \A u \in Thread : Owes(u)' \in Int
    <3>1. TypeInv'
      BY DEF IInv
    <3>2. ASSUME NEW u \in Thread PROVE Owes(u)' \in Int
      <4>1. ctx'[u].adjustment \in Int /\ ctx'[u].valueSize \in Nat
        <5>1. ctx'[u] \in Context
          BY <3>1 DEF TypeInv
        <5>2. QED
          BY <5>1 DEF Context
      <4>2. QED
        BY <4>1 DEF Owes, PhysicalSize
    <3>3. QED
      BY <3>2
  <2>2. QED
    BY <1>4, <2>1
<1>7. \A i \in 1..Len(q) : i # k => g[i] = f[i]
  <2>1. \A u \in Thread : u # t => Owes(u)' = Owes(u)
    BY DEF Frame, Owes
  <2>2. QED
    BY <1>4, <2>1 DEF Debts
<1>8. f[k] = Owes(t) /\ g[k] = Owes(t)'
  BY <1>3 DEF Debts
<1>9. Sums(s, f, Len(q))
  BY <1>1
<1>10. Debts(q)' = g
  BY DEF Debts
<1> HIDE DEF f, g
<1>11. PICK r : Sums(r, g, Len(q)) /\ r[Len(q)] = s[Len(q)] + (g[k] - f[k])
  BY <1>2, <1>5, <1>6, <1>7, <1>9, SumReplaced
<1>12. Listed(q)'
  <2>1. \A u \in Thread : pc'[u] # "idle" => pc[u] # "idle"
    BY DEF Frame
  <2>2. QED
    BY <1>1, <2>1 DEF Listed
<1>13. n = r[Len(q)]
  BY <1>1, <1>8, <1>11
<1>14. QED
  BY <1>10, <1>11, <1>12, <1>13 DEF Owed

\* The books after a step that changes the slots and what t owes.
LEMMA Books ==
    ASSUME IInv, IInv', WasteInv, NEW t \in Thread, Frame(t), pc[t] # "idle",
           NoTwins', overtaken => overtaken',
           NEW d \in Int,
           ~overtaken' =>
              /\ \A l \in Int : Live(l) => Live(l + d)'
              /\ (wasted' + Owes(t)') - (wasted + Owes(t))
                     = ((dataEnd' - dataEnd) - d) - (indexEnd' - indexEnd)
    PROVE  WasteInv'
<1> SUFFICES ASSUME ~overtaken'
             PROVE  \E l, o \in Int : Live(l)' /\ Owed(o)' /\ Balanced(l, o)'
  BY DEF WasteInv
<1>1. PICK l \in Int, o \in Int : Live(l) /\ Owed(o) /\ Balanced(l, o)
  BY DEF WasteInv
<1>2. PICK n : n = o + (Owes(t)' - Owes(t))
  OBVIOUS
<1>3. /\ wasted \in Int /\ dataEnd \in Int /\ indexEnd \in Int /\ MaxEnd \in Int
      /\ wasted' \in Int /\ dataEnd' \in Int /\ indexEnd' \in Int
      /\ Owes(t) \in Int
  <2>1. TypeInv /\ TypeInv' /\ MaxEnd \in Int
    BY SizesAreNaturals DEF IInv
  <2>2. /\ wasted \in Int /\ dataEnd \in Int /\ indexEnd \in Int
        /\ wasted' \in Int /\ dataEnd' \in Int /\ indexEnd' \in Int
    BY <2>1 DEF TypeInv
  <2>3. Owes(t) \in Int
    BY <2>1, OwesInt, Zenon
  <2>4. QED
    BY <2>1, <2>2, <2>3
<1>4. Owes(t)' \in Int
  <2>1. ctx'[t] \in Context
    BY DEF IInv, TypeInv
  <2>2. ctx'[t].adjustment \in Int /\ ctx'[t].valueSize \in Nat
    BY <2>1 DEF Context
  <2>3. QED
    BY <2>2 DEF Owes, PhysicalSize
<1>5. Live(l + d)' /\ Owed(n)'
  BY <1>1, <1>2, DebtChanges
<1>6. n \in Int /\ wasted' + n = (dataEnd' - (l + d)) + (MaxEnd - indexEnd')
  <2>1. wasted + o = (dataEnd - l) + (MaxEnd - indexEnd)
    BY <1>1 DEF Balanced
  <2>2. (wasted' + Owes(t)') - (wasted + Owes(t)) = ((dataEnd' - dataEnd) - d) - (indexEnd' - indexEnd)
    OBVIOUS
  <2>3. PICK a \in Int, b \in Int : a = Owes(t) /\ b = Owes(t)'
    BY <1>3, <1>4
  <2>4. QED
    BY <1>2, <1>3, <2>1, <2>2, <2>3
<1>7. Balanced(l + d, n)'
  BY <1>6 DEF Balanced
<1>8. QED
  BY <1>5, <1>6, <1>7

-----------------------------------------------------------------------------
(* The steps that leave the slots and the sizes of their records alone.    *)

SizesStay == \A i \in DOMAIN index : log'[index[i]].size = log[index[i]].size

LEMMA OwesAdjustment ==
    ASSUME TypeInv, NEW t \in Thread, pc[t] # "mark"
    PROVE  Owes(t) = ctx[t].adjustment
<1>1. ctx[t].adjustment \in Int
  BY ThreadTypes
<1>2. QED
  BY <1>1 DEF Owes

LEMMA LiveStays ==
    ASSUME IInv, UNCHANGED index, SizesStay, NEW l, Live(l)
    PROVE  Live(l)'
<1>1. Len(index') = Len(index) /\ DOMAIN index = 1..Len(index)
  BY Domains DEF IInv
<1>2. \A i \in 1..Len(index) : PhysicalSize(log'[index'[i]].size) = PhysicalSize(log[index[i]].size)
  BY <1>1 DEF SizesStay
<1>3. Sizes' = Sizes
  BY <1>1, <1>2 DEF Sizes
<1>4. QED
  BY <1>1, <1>3 DEF Live

\* A step after which t owes more by what it has appended and nothing else is
\* to be put into the books.
LEMMA PaysLater ==
    ASSUME IInv, IInv', WasteInv, NEW t \in Thread, Frame(t), pc[t] # "idle",
           pc'[t] # "mark", UNCHANGED <<index, indexEnd, wasted>>, SizesStay,
           ctx'[t].adjustment = Owes(t) + (dataEnd' - dataEnd),
           overtaken => overtaken'
    PROVE  WasteInv'
<1>1. NoTwins'
  BY DEF WasteInv, NoTwins
<1>2. \A l \in Int : Live(l) => Live(l + 0)'
  BY LiveStays
<1>3. ctx'[t].adjustment \in Int /\ ctx'[t].adjustment + 0 = ctx'[t].adjustment
  <2>1. ctx'[t] \in Context
    BY DEF IInv, TypeInv
  <2>2. QED
    BY <2>1 DEF Context
<1>4. Owes(t)' = ctx'[t].adjustment
  BY <1>3 DEF Owes
<1>5. Owes(t) \in Int
  BY OwesInt DEF IInv
<1>6. /\ wasted \in Int /\ dataEnd \in Int /\ dataEnd' \in Int /\ indexEnd \in Int
      /\ wasted' = wasted /\ indexEnd' = indexEnd
  BY DEF IInv, TypeInv
<1>7. (wasted' + Owes(t)') - (wasted + Owes(t)) = ((dataEnd' - dataEnd) - 0) - (indexEnd' - indexEnd)
  BY <1>4, <1>5, <1>6
<1>8. QED
  BY <1>1, <1>2, <1>7, Books

\* The call goes to another place.
LEMMA GoesQuietly ==
    ASSUME IInv, IInv', WasteInv, NEW t \in Thread, pc[t] \notin {"idle", "mark"},
           NEW label, label # "mark", Goto(t, label),
           UNCHANGED <<index, indexEnd, wasted, dataEnd, call, ctx>>, SizesStay,
           overtaken => overtaken'
    PROVE  WasteInv'
<1>1. Frame(t) /\ pc'[t] = label /\ ctx'[t] = ctx[t]
  BY Types DEF Frame, Goto
<1>2. ctx[t].adjustment = Owes(t) /\ Owes(t) \in Int
  BY OwesAdjustment, OwesInt DEF IInv
<1>3. dataEnd \in Int
  BY Types
<1>4. ctx'[t].adjustment = Owes(t) + (dataEnd' - dataEnd)
  BY <1>1, <1>2, <1>3
<1>5. QED
  BY <1>1, <1>4, PaysLater

\* The call goes to another place and learns something.
LEMMA LearnsQuietly ==
    ASSUME IInv, IInv', WasteInv, NEW t \in Thread, pc[t] \notin {"idle", "mark"},
           NEW label, label # "mark", Goto(t, label),
           NEW new, ctx' = [ctx EXCEPT ![t] = new], new.adjustment = ctx[t].adjustment,
           UNCHANGED <<index, indexEnd, wasted, dataEnd, call>>, SizesStay,
           overtaken => overtaken'
    PROVE  WasteInv'
<1>1. Frame(t) /\ pc'[t] = label /\ ctx'[t] = new
  BY Types DEF Frame, Goto
<1>2. ctx[t].adjustment = Owes(t) /\ Owes(t) \in Int
  BY OwesAdjustment, OwesInt DEF IInv
<1>3. dataEnd \in Int
  BY Types
<1>4. ctx'[t].adjustment = Owes(t) + (dataEnd' - dataEnd)
  BY <1>1, <1>2, <1>3
<1>5. QED
  BY <1>1, <1>4, PaysLater

LEMMA FailsQuietly ==
    ASSUME IInv, IInv', WasteInv, NEW t \in Thread, pc[t] \notin {"idle", "mark"},
           NEW error, Fail(t, error),
           UNCHANGED <<index, indexEnd, wasted, dataEnd, call>>, SizesStay,
           overtaken => overtaken'
    PROVE  WasteInv'
<1>1. PICK new : new = [ctx[t] EXCEPT !.error = error]
  OBVIOUS
<1>2. ctx' = [ctx EXCEPT ![t] = new] /\ Goto(t, "return")
  BY <1>1 DEF Fail
<1>3. new.adjustment = ctx[t].adjustment
  BY <1>1, Types DEF Context
<1>4. QED
  BY <1>2, <1>3, LearnsQuietly

\* The log is left alone, or only the state of one record changes.
LEMMA SameSizes ==
    ASSUME UNCHANGED log
    PROVE  SizesStay
BY DEF SizesStay

LEMMA StateSizes ==
    ASSUME IInv, NEW t \in Thread,
           \/ log' = [log EXCEPT ![ctx[t].existing].state = @ + 1]
           \/ log' = [log EXCEPT ![ctx[t].existing].state = @ - 1]
    PROVE  SizesStay
<1>1. PICK e : e = ctx[t].existing
  OBVIOUS
<1>2. PICK s : log' = [log EXCEPT ![e] = [log[e] EXCEPT !.state = s]]
  BY <1>1
<1> DEFINE r == [log[e] EXCEPT !.state = s]
<1>3. e \in DOMAIN log => r.size = log[e].size
  <2>1. e \in DOMAIN log => log[e] \in LogRecord
    BY RecordTypes DEF IInv
  <2>2. QED
    BY <2>1 DEF LogRecord
<1>4. log' = [log EXCEPT ![e] = r]
  BY <1>2
<1> HIDE DEF r
<1>5. \A i \in DOMAIN log : log'[i].size = log[i].size
  BY <1>3, <1>4
<1>6. QED
  BY <1>5 DEF SizesStay, IInv, SlotsInv

\* A record that no slot leads to changes.
LEMMA PrivateSizes ==
    ASSUME IInv, NEW t \in Thread, Private(t),
           \A i \in DOMAIN log : i # ctx[t].composing => log'[i].size = log[i].size
    PROVE  SizesStay
<1>1. ctx[t].composing \notin Range(index)
  BY DEF IInv, ThreadInv
<1>2. \A i \in DOMAIN index : index[i] # ctx[t].composing
  BY <1>1 DEF Range
<1>3. QED
  BY <1>2 DEF SizesStay, IInv, SlotsInv

LEMMA SearchIndexBooks ==
    ASSUME IInv, IInv', WasteInv, NEW t \in Thread, SearchIndex(t), overtaken => overtaken'
    PROVE  WasteInv'
<1>1. PICK c : c = Search(call[t].key)
  OBVIOUS
<1> DEFINE label == IF c.found THEN "readRecord" ELSE AfterMiss(t)
           existing == IF c.found THEN index[c.order + 1] ELSE 0
           error == IF call[t].op = "Get" /\ ~c.found THEN "notFound" ELSE "none"
           new == [ctx[t] EXCEPT !.indexState = indexState, !.found = c.found, !.order = c.order,
                                 !.existing = existing, !.error = error]
<1>2. /\ pc[t] = "search" /\ Goto(t, label)
      /\ UNCHANGED <<log, index, indexEnd, wasted, dataEnd, call>>
  BY <1>1 DEF SearchIndex, table
<1>3. ctx' = [ctx EXCEPT ![t] = new]
  BY <1>1 DEF SearchIndex
<1>4. new.adjustment = ctx[t].adjustment
  BY Types DEF Context
<1>5. label # "mark"
  BY DEF AfterMiss
<1> HIDE DEF new, label
<1>6. SizesStay
  BY <1>2, SameSizes
<1>7. QED
  BY <1>2, <1>3, <1>4, <1>5, <1>6, LearnsQuietly

LEMMA ReadRecordBooks ==
    ASSUME IInv, IInv', WasteInv, NEW t \in Thread, ReadRecord(t), overtaken => overtaken'
    PROVE  WasteInv'
<1>1. PICK new : new = [ctx[t] EXCEPT !.version = Existing(t).state, !.deleted = Existing(t).deleted]
  OBVIOUS
<1>2. /\ pc[t] = "readRecord" /\ Goto(t, "verify") /\ ctx' = [ctx EXCEPT ![t] = new]
      /\ UNCHANGED <<log, index, indexEnd, wasted, dataEnd, call>>
  BY <1>1 DEF ReadRecord, table
<1>3. new.adjustment = ctx[t].adjustment
  BY <1>1, Types DEF Context
<1>4. QED
  BY <1>2, <1>3, SameSizes, LearnsQuietly

LEMMA VerifySearchBooks ==
    ASSUME IInv, IInv', WasteInv, NEW t \in Thread, VerifySearch(t), overtaken => overtaken'
    PROVE  WasteInv'
<1>1. pc[t] = "verify" /\ UNCHANGED <<log, index, indexEnd, wasted, dataEnd, call>>
  BY DEF VerifySearch, table
<1>2. SizesStay
  BY <1>1, SameSizes
<1>3. ASSUME NEW label \in {"search", "assertDeleted"}, Goto(t, label), UNCHANGED ctx
      PROVE  WasteInv'
  BY <1>1, <1>2, <1>3, GoesQuietly
<1>4. CASE Fail(t, "wrongVersion")
  BY <1>1, <1>2, <1>4, FailsQuietly
<1>5. CASE Goto(t, FoundPath(t)) /\ ctx' = [ctx EXCEPT ![t].valueSize = Existing(t).size]
  <2>1. PICK new : new = [ctx[t] EXCEPT !.valueSize = Existing(t).size]
    OBVIOUS
  <2>2. ctx' = [ctx EXCEPT ![t] = new]
    BY <1>5, <2>1
  <2>3. new.adjustment = ctx[t].adjustment
    BY <2>1, Types DEF Context
  <2>4. FoundPath(t) # "mark"
    BY DEF FoundPath
  <2>5. QED
    BY <1>1, <1>2, <1>5, <2>2, <2>3, <2>4, LearnsQuietly
<1>6. QED
  BY <1>3, <1>4, <1>5 DEF VerifySearch

LEMMA BeginAppendBooks ==
    ASSUME IInv, IInv', WasteInv, NEW t \in Thread, BeginAppend(t), overtaken => overtaken'
    PROVE  WasteInv'
<1>1. pc[t] = "append" /\ UNCHANGED <<log, index, indexEnd, wasted, dataEnd, call>>
  BY DEF BeginAppend
<1>2. SizesStay
  BY <1>1, SameSizes
<1>3. ASSUME NEW label \in {AfterAppend(t), "appending"}, Goto(t, label), UNCHANGED ctx
      PROVE  WasteInv'
  <2>1. label # "mark"
    BY <1>3 DEF AfterAppend
  <2>2. QED
    BY <1>1, <1>2, <1>3, <2>1, GoesQuietly
<1>4. CASE Fail(t, "notEnoughMemory")
  BY <1>1, <1>2, <1>4, FailsQuietly
<1>5. QED
  BY <1>3, <1>4 DEF BeginAppend

LEMMA EndAppendBooks ==
    ASSUME IInv, IInv', WasteInv, NEW t \in Thread, EndAppend(t), overtaken => overtaken'
    PROVE  WasteInv'
<1> DEFINE size == PhysicalSize(call[t].size)
           appended == [ctx[t] EXCEPT !.composing = Len(log) + 1, !.adjustment = @ + size]
           failed == [appended EXCEPT !.error = "notEnoughMemory"]
<1>1. /\ pc[t] = "appending" /\ UNCHANGED <<index, indexEnd, wasted, call>>
      /\ log' = Append(log, Hole(call[t].key, call[t].size))
      /\ dataEnd' = dataEnd + size
  BY DEF EndAppend
<1>2. \/ ctx' = [ctx EXCEPT ![t] = appended] /\ Goto(t, AfterAppend(t))
      \/ ctx' = [ctx EXCEPT ![t] = failed] /\ Goto(t, "return")
  BY DEF EndAppend
<1>3. appended.adjustment = ctx[t].adjustment + size /\ failed.adjustment = ctx[t].adjustment + size
  BY Types DEF Context
<1> HIDE DEF appended, failed
<1>4. AfterAppend(t) # "mark"
  BY DEF AfterAppend
<1>5. Frame(t) /\ pc'[t] # "mark" /\ ctx'[t].adjustment = ctx[t].adjustment + size
  BY <1>1, <1>2, <1>3, <1>4, Types DEF Frame, Goto
<1>6. size \in Int
  <2>1. call[t].size \in Nat
    BY ThreadTypes, CallsAre DEF IInv
  <2>2. QED
    BY <2>1 DEF PhysicalSize
<1>7. ctx'[t].adjustment = Owes(t) + (dataEnd' - dataEnd)
  <2>1. ctx[t].adjustment = Owes(t) /\ Owes(t) \in Int
    BY <1>1, OwesAdjustment, OwesInt DEF IInv
  <2>2. dataEnd \in Int
    BY Types
  <2> HIDE DEF size
  <2>3. dataEnd' - dataEnd = size
    BY <1>1, <1>6, <2>2
  <2>4. QED
    BY <1>5, <2>1, <2>3
<1>8. SizesStay
  <2>1. log \in Seq(LogRecord)
    BY Types
  <2>2. \A i \in DOMAIN log : log'[i] = log[i]
    BY <1>1, <2>1
  <2>3. QED
    BY <2>2 DEF SizesStay, IInv, SlotsInv
<1>9. QED
  BY <1>1, <1>5, <1>7, <1>8, PaysLater

LEMMA ComposeBooks ==
    ASSUME IInv, IInv', WasteInv, NEW t \in Thread, Compose(t), overtaken => overtaken'
    PROVE  WasteInv'
<1>1. /\ pc[t] = "compose" /\ Goto(t, "insert")
      /\ UNCHANGED <<index, indexEnd, wasted, dataEnd, call, ctx>>
  BY DEF Compose
<1>2. Private(t)
  BY <1>1 DEF IInv, ThreadInv, NewPC, Private
<1>3. \A i \in DOMAIN log : i # ctx[t].composing => log'[i].size = log[i].size
  BY DEF Compose
<1>4. SizesStay
  BY <1>2, <1>3, PrivateSizes
<1>5. QED
  BY <1>1, <1>4, GoesQuietly

LEMMA BeginInsertBooks ==
    ASSUME IInv, IInv', WasteInv, NEW t \in Thread, BeginInsert(t), overtaken => overtaken'
    PROVE  WasteInv'
<1>1. pc[t] = "insert" /\ UNCHANGED <<log, index, indexEnd, wasted, dataEnd, call>>
  BY DEF BeginInsert
<1>2. SizesStay
  BY <1>1, SameSizes
<1>3. CASE Goto(t, "search") /\ UNCHANGED ctx
  BY <1>1, <1>2, <1>3, GoesQuietly
<1>4. CASE Fail(t, "notEnoughMemory")
  BY <1>1, <1>2, <1>4, FailsQuietly
<1>5. CASE Goto(t, "inserting") /\ ctx' = [ctx EXCEPT ![t].left = MovesLeft(ctx[t].order)]
  <2>1. PICK new : new = [ctx[t] EXCEPT !.left = MovesLeft(ctx[t].order)]
    OBVIOUS
  <2>2. ctx' = [ctx EXCEPT ![t] = new]
    BY <1>5, <2>1
  <2>3. new.adjustment = ctx[t].adjustment
    BY <2>1, Types DEF Context
  <2>4. QED
    BY <1>1, <1>2, <1>5, <2>2, <2>3, LearnsQuietly
<1>6. QED
  BY <1>3, <1>4, <1>5 DEF BeginInsert

LEMMA LockReplaceBooks ==
    ASSUME IInv, IInv', WasteInv, NEW t \in Thread, LockReplace(t), overtaken => overtaken'
    PROVE  WasteInv'
<1>1. pc[t] = "lockReplace" /\ UNCHANGED <<index, indexEnd, wasted, dataEnd, call, ctx>>
  BY DEF LockReplace
<1>2. CASE Goto(t, "search") /\ UNCHANGED log
  BY <1>1, <1>2, SameSizes, GoesQuietly
<1>3. CASE /\ log' = [log EXCEPT ![ctx[t].existing].state = @ + 1,
                                 ![ctx[t].composing] = Record(call[t].key, ctx[t].version + 4,
                                                              call[t].size)]
           /\ Goto(t, "modify")
  <2>1. ThreadInv(t) /\ TypeInv /\ Apart(t, t)
    BY DEF IInv
  <2>2. Private(t)
    BY <1>1, <2>1 DEF ThreadInv, Private
  <2>3. PICK e : e = ctx[t].existing
    OBVIOUS
  <2>4. PICK c : c = ctx[t].composing
    OBVIOUS
  <2>5. c # e
    BY <2>1, <2>2, <2>3, <2>4 DEF Apart
  <2> DEFINE new == [log[e] EXCEPT !.state = @ + 1]
             r == Record(call[t].key, ctx[t].version + 4, call[t].size)
  <2>6. log' = [[log EXCEPT ![e] = new] EXCEPT ![c] = r]
    BY <1>3, <2>3, <2>4, <2>5
  <2>7. e \in DOMAIN log => new.size = log[e].size
    <3>1. e \in DOMAIN log => log[e] \in LogRecord
      BY <2>1, RecordTypes
    <3>2. QED
      BY <3>1 DEF LogRecord
  <2> HIDE DEF new, r
  <2>8. \A i \in DOMAIN log : i # c => log'[i].size = log[i].size
    BY <2>6, <2>7
  <2>9. SizesStay
    BY <2>2, <2>4, <2>8, PrivateSizes
  <2>10. QED
    BY <1>1, <1>3, <2>9, GoesQuietly
<1>4. QED
  BY <1>2, <1>3 DEF LockReplace

LEMMA BeginModifyBooks ==
    ASSUME IInv, IInv', WasteInv, NEW t \in Thread, BeginModify(t), overtaken => overtaken'
    PROVE  WasteInv'
<1>1. pc[t] = "modify" /\ UNCHANGED <<index, indexEnd, wasted, dataEnd, call, ctx>>
  BY DEF BeginModify
<1>2. SizesStay
  BY SameSizes, StateSizes DEF BeginModify
<1>3. PICK label \in {"search", "modifying"} : Goto(t, label)
  BY DEF BeginModify
<1>4. QED
  BY <1>1, <1>2, <1>3, GoesQuietly

LEMMA UnlockReplacedBooks ==
    ASSUME IInv, IInv', WasteInv, NEW t \in Thread, UnlockReplaced(t), overtaken => overtaken'
    PROVE  WasteInv'
<1>1. /\ pc[t] = "unlockReplaced" /\ Goto(t, "return")
      /\ UNCHANGED <<index, indexEnd, wasted, dataEnd, call, ctx>>
  BY DEF UnlockReplaced
<1>2. SizesStay
  BY StateSizes DEF UnlockReplaced
<1>3. QED
  BY <1>1, <1>2, GoesQuietly

LEMMA LockDeleteBooks ==
    ASSUME IInv, IInv', WasteInv, NEW t \in Thread, LockDelete(t), overtaken => overtaken'
    PROVE  WasteInv'
<1>1. pc[t] = "lockDelete" /\ UNCHANGED <<index, indexEnd, wasted, dataEnd, call, ctx>>
  BY DEF LockDelete
<1>2. SizesStay
  BY SameSizes, StateSizes DEF LockDelete
<1>3. PICK label \in {"search", "remove"} : Goto(t, label)
  BY DEF LockDelete
<1>4. QED
  BY <1>1, <1>2, <1>3, GoesQuietly

\* The size of the record that Delete has taken the slot of comes into its context.
LEMMA MarkDeletedBooks ==
    ASSUME IInv, IInv', WasteInv, NEW t \in Thread, MarkDeleted(t), overtaken => overtaken'
    PROVE  WasteInv'
<1>1. /\ pc[t] = "mark" /\ Goto(t, "return")
      /\ UNCHANGED <<index, indexEnd, wasted, dataEnd, call>>
      /\ log' = [log EXCEPT ![ctx[t].existing].deleted = TRUE, ![ctx[t].existing].state = @ + 1]
      /\ ctx' = [ctx EXCEPT ![t].adjustment = @ + PhysicalSize(ctx[t].valueSize)]
  BY DEF MarkDeleted
<1>2. PICK new : new = [ctx[t] EXCEPT !.adjustment = @ + PhysicalSize(ctx[t].valueSize)]
  OBVIOUS
<1>3. ctx' = [ctx EXCEPT ![t] = new]
  BY <1>1, <1>2
<1>4. new.adjustment = Owes(t)
  BY <1>1, <1>2, Types DEF Context, Owes
<1>5. Frame(t) /\ pc'[t] = "return" /\ ctx'[t] = new
  BY <1>1, <1>3, Types DEF Frame, Goto
<1>6. Owes(t) \in Int /\ dataEnd \in Int
  BY Types, OwesInt DEF IInv
<1>7. ctx'[t].adjustment = Owes(t) + (dataEnd' - dataEnd)
  <2>1. dataEnd' - dataEnd = 0
    BY <1>1, <1>6
  <2>2. ctx'[t].adjustment = Owes(t)
    BY <1>4, <1>5, Zenon
  <2>3. Owes(t) + 0 = Owes(t)
    BY <1>6
  <2>4. QED
    BY <2>1, <2>2, <2>3, Zenon
<1>8. SizesStay
  <2>1. PICK e : e = ctx[t].existing
    OBVIOUS
  <2>2. PICK s : s = log[e].state + 1
    OBVIOUS
  <2> DEFINE r == [log[e] EXCEPT !.deleted = TRUE, !.state = s]
  <2>3. e \in DOMAIN log => r.size = log[e].size
    <3>1. e \in DOMAIN log => log[e] \in LogRecord
      BY RecordTypes DEF IInv
    <3>2. QED
      BY <3>1 DEF LogRecord
  <2>4. log' = [log EXCEPT ![e] = r]
    <3>1. e \in DOMAIN log /\ log[e] \in LogRecord
      <4>1. e \in DOMAIN log
        BY <1>1, <2>1 DEF IInv, ThreadInv, FoundPC
      <4>2. QED
        BY <4>1, RecordTypes DEF IInv
    <3>2. QED
      BY <1>1, <2>1, <2>2, <3>1 DEF LogRecord
  <2> HIDE DEF r
  <2>5. \A i \in DOMAIN log : log'[i].size = log[i].size
    BY <2>3, <2>4
  <2>6. QED
    BY <2>5 DEF SizesStay, IInv, SlotsInv
<1>9. QED
  BY <1>1, <1>5, <1>7, <1>8, PaysLater

\* The debt is paid.
LEMMA ReturnBooks ==
    ASSUME IInv, IInv', WasteInv, NEW t \in Thread, Return(t), overtaken => overtaken'
    PROVE  WasteInv'
<1>1. /\ pc[t] = "return" /\ wasted' = wasted + ctx[t].adjustment
      /\ Goto(t, "idle") /\ ctx' = [ctx EXCEPT ![t] = NewContext]
      /\ UNCHANGED <<log, index, indexEnd, dataEnd>>
  BY DEF Return
<1>2. Frame(t) /\ pc'[t] = "idle" /\ ctx'[t] = NewContext
  BY Types DEF Return, Frame, Goto
<1>3. Owes(t) = ctx[t].adjustment /\ Owes(t) \in Int
  BY <1>1, OwesAdjustment, OwesInt DEF IInv
<1>4. Owes(t)' = 0
  BY <1>2 DEF Owes, NewContext
<1>5. wasted \in Int /\ indexEnd \in Int /\ dataEnd \in Int
  BY Types
<1>6. (wasted' + Owes(t)') - (wasted + Owes(t)) = ((dataEnd' - dataEnd) - 0) - (indexEnd' - indexEnd)
  BY <1>1, <1>3, <1>4, <1>5
<1>7. NoTwins'
  BY <1>1 DEF WasteInv, NoTwins
<1>8. \A l \in Int : Live(l) => Live(l + 0)'
  BY <1>1, SameSizes, LiveStays
<1>9. QED
  BY <1>1, <1>2, <1>6, <1>7, <1>8, Books

\* A deadline that passes before Delete has taken the slot, or in any other call.
LEMMA TimeOutBooks ==
    ASSUME IInv, IInv', WasteInv, NEW t \in Thread, TimeOut(t), pc[t] # "mark",
           overtaken => overtaken'
    PROVE  WasteInv'
<1>1. pc[t] # "idle" /\ UNCHANGED <<index, indexEnd, wasted, dataEnd, call>>
  BY DEF TimeOut, Waiting
<1>2. SizesStay
  BY SameSizes, StateSizes DEF TimeOut
<1>3. PICK error : Fail(t, error)
  BY DEF TimeOut
<1>4. QED
  BY <1>1, <1>2, <1>3, FailsQuietly

-----------------------------------------------------------------------------
(* The steps that change the slots, or the size of a record they lead to.  *)

LEMMA NextSizesInt ==
    ASSUME IInv'
    PROVE  Sizes' \in [1..Len(index') -> Int]
<1>1. TypeInv' /\ SlotsInv'
  BY DEF IInv
<1>2. log' \in Seq(LogRecord) /\ DOMAIN index' = 1..Len(index') /\ DOMAIN log' = 1..Len(log')
  BY <1>1, DomainsNext DEF TypeInv
<1>3. ASSUME NEW i \in 1..Len(index') PROVE PhysicalSize(log'[index'[i]].size) \in Int
  <2>1. index'[i] \in DOMAIN log'
    BY <1>1, <1>2 DEF SlotsInv
  <2>2. log'[index'[i]] \in LogRecord
    BY <1>2, <2>1, ElementOfSeq
  <2>3. log'[index'[i]].size \in Nat
    BY <2>2 DEF LogRecord
  <2>4. QED
    BY <2>3 DEF PhysicalSize
<1>4. QED
  BY <1>3 DEF Sizes

\* A slot comes in.
LEMMA LiveInserted ==
    ASSUME IInv, IInv', UNCHANGED log, NEW k \in 1..(Len(index) + 1), NEW e,
           Len(index') = Len(index) + 1,
           \A j \in 1..(Len(index) + 1) :
              index'[j] = IF j < k THEN index[j] ELSE IF j = k THEN e ELSE index[j - 1],
           NEW l, Live(l)
    PROVE  Live(l + PhysicalSize(log[e].size))'
<1>1. PICK s : Sums(s, Sizes, Len(index)) /\ l = s[Len(index)]
  BY DEF Live
<1>2. PICK f : f = Sizes
  OBVIOUS
<1>3. PICK g : g = Sizes'
  OBVIOUS
<1>4. PICK n \in Nat : n = Len(index)
  BY Domains DEF IInv
<1>5. f \in [1..n -> Int] /\ g \in [1..(n + 1) -> Int]
  BY <1>2, <1>3, <1>4, SizesInt, NextSizesInt
<1>6. \A i \in 1..n : f[i] = PhysicalSize(log[index[i]].size)
  BY <1>2, <1>4 DEF Sizes
<1>7. \A i \in 1..(n + 1) : g[i] = PhysicalSize(log[index'[i]].size)
  BY <1>3, <1>4 DEF Sizes
<1>8. ASSUME NEW i \in 1..(n + 1), i # k PROVE g[i] = IF i < k THEN f[i] ELSE f[i - 1]
  <2>1. CASE i < k
    <3>1. i \in 1..n /\ index'[i] = index[i]
      BY <1>4, <1>8, <2>1
    <3>2. QED
      BY <1>6, <1>7, <2>1, <3>1
  <2>2. CASE ~(i < k)
    <3>1. i - 1 \in 1..n /\ index'[i] = index[i - 1]
      BY <1>4, <1>8, <2>2
    <3>2. QED
      BY <1>6, <1>7, <2>2, <3>1
  <2>3. QED
    BY <2>1, <2>2
<1>9. k \in 1..(n + 1) /\ index'[k] = e
  BY <1>4
<1>10. g[k] = PhysicalSize(log[e].size)
  BY <1>7, <1>9
<1>11. Sums(s, f, n)
  BY <1>1, <1>2, <1>4
<1>12. PICK r : Sums(r, g, n + 1) /\ r[n + 1] = s[n] + g[k]
  BY <1>5, <1>8, <1>9, <1>11, SumInserted
<1>13. Sums(r, Sizes', Len(index')) /\ l + PhysicalSize(log'[e].size) = r[Len(index')]
  BY <1>1, <1>3, <1>4, <1>10, <1>12
<1>14. \E x : Sums(x, Sizes', Len(index')) /\ l + PhysicalSize(log'[e].size) = x[Len(index')]
  BY <1>13
<1>15. QED
  BY <1>14 DEF Live

\* A slot goes.
LEMMA LiveRemoved ==
    ASSUME IInv, IInv', UNCHANGED log, NEW k \in 1..Len(index),
           Len(index') = Len(index) - 1,
           \A j \in 1..(Len(index) - 1) :
              index'[j] = IF j < k THEN index[j] ELSE index[j + 1],
           NEW d, d = -PhysicalSize(log[index[k]].size),
           NEW l, Live(l)
    PROVE  Live(l + d)'
<1>1. PICK s : Sums(s, Sizes, Len(index)) /\ l = s[Len(index)]
  BY DEF Live
<1>2. PICK f : f = Sizes
  OBVIOUS
<1>3. PICK g : g = Sizes'
  OBVIOUS
<1>4. PICK n \in Nat : n = Len(index)
  BY Domains DEF IInv
<1>5. f \in [1..n -> Int] /\ g \in [1..(n - 1) -> Int]
  BY <1>2, <1>3, <1>4, SizesInt, NextSizesInt
<1>6. \A i \in 1..n : f[i] = PhysicalSize(log[index[i]].size)
  BY <1>2, <1>4 DEF Sizes
<1>7. \A i \in 1..(n - 1) : g[i] = PhysicalSize(log[index'[i]].size)
  BY <1>3, <1>4 DEF Sizes
<1>8. ASSUME NEW i \in 1..(n - 1) PROVE g[i] = IF i < k THEN f[i] ELSE f[i + 1]
  <2>1. i \in 1..n /\ i + 1 \in 1..n
    OBVIOUS
  <2>2. CASE i < k
    <3>1. index'[i] = index[i]
      BY <1>4, <2>2
    <3>2. QED
      BY <1>6, <1>7, <2>1, <2>2, <3>1
  <2>3. CASE ~(i < k)
    <3>1. index'[i] = index[i + 1]
      BY <1>4, <2>3
    <3>2. QED
      BY <1>6, <1>7, <2>1, <2>3, <3>1
  <2>4. QED
    BY <2>2, <2>3
<1>9. k \in 1..n /\ f[k] = PhysicalSize(log[index[k]].size) /\ f[k] \in Int
  BY <1>4, <1>5, <1>6
<1>10. Sums(s, f, n)
  BY <1>1, <1>2, <1>4
<1>11. PICK r : Sums(r, g, n - 1) /\ r[n - 1] = s[n] - f[k]
  BY <1>5, <1>8, <1>9, <1>10, SumRemoved
<1>12. l \in Int /\ l = s[n]
  <2>1. s \in [0..n -> Int]
    BY <1>10 DEF Sums
  <2>2. QED
    BY <1>1, <1>4, <2>1
<1>13. l + d = r[n - 1]
  <2>1. PICK x \in Int : x = f[k]
    BY <1>9
  <2>2. d = -x
    BY <1>9, <2>1
  <2>3. QED
    BY <1>11, <1>12, <2>1, <2>2
<1>14. Sums(r, Sizes', Len(index')) /\ l + d = r[Len(index')]
  BY <1>3, <1>4, <1>11, <1>13
<1>15. QED
  BY <1>14 DEF Live

\* A slot is redirected, or the size of its record changes.
LEMMA LiveChanged ==
    ASSUME IInv, IInv', NEW k \in 1..Len(index), Len(index') = Len(index),
           \A j \in 1..Len(index) :
              j # k => log'[index'[j]].size = log[index[j]].size,
           NEW d, d = PhysicalSize(log'[index'[k]].size) - PhysicalSize(log[index[k]].size),
           NEW l, Live(l)
    PROVE  Live(l + d)'
<1>1. PICK s : Sums(s, Sizes, Len(index)) /\ l = s[Len(index)]
  BY DEF Live
<1>2. PICK f : f = Sizes
  OBVIOUS
<1>3. PICK g : g = Sizes'
  OBVIOUS
<1>4. PICK n \in Nat : n = Len(index)
  BY Domains DEF IInv
<1>5. f \in [1..n -> Int] /\ g \in [1..n -> Int]
  BY <1>2, <1>3, <1>4, SizesInt, NextSizesInt
<1>6. \A i \in 1..n : f[i] = PhysicalSize(log[index[i]].size)
  BY <1>2, <1>4 DEF Sizes
<1>7. \A i \in 1..n : g[i] = PhysicalSize(log'[index'[i]].size)
  BY <1>3, <1>4 DEF Sizes
<1>8. \A i \in 1..n : i # k => g[i] = f[i]
  BY <1>4, <1>6, <1>7
<1>9. k \in 1..n /\ d = g[k] - f[k]
  BY <1>4, <1>6, <1>7
<1>10. Sums(s, f, n)
  BY <1>1, <1>2, <1>4
<1>11. PICK r : Sums(r, g, n) /\ r[n] = s[n] + (g[k] - f[k])
  BY <1>5, <1>8, <1>9, <1>10, SumReplaced
<1>12. Sums(r, Sizes', Len(index')) /\ l + d = r[Len(index')]
  BY <1>1, <1>3, <1>4, <1>9, <1>11
<1>13. QED
  BY <1>12 DEF Live

\* The record that t has appended has the size of its value, and no slot.
LEMMA NewRecord ==
    ASSUME IInv, NEW t \in Thread, Private(t)
    PROVE  /\ ctx[t].composing \in DOMAIN log /\ ctx[t].composing \in Nat
           /\ log[ctx[t].composing].size = call[t].size
           /\ \A i \in DOMAIN index : index[i] # ctx[t].composing
           /\ PhysicalSize(call[t].size) \in Int
<1>1. TypeInv /\ ThreadInv(t)
  BY DEF IInv
<1>2. ctx[t].composing \in DOMAIN log /\ ctx[t].composing \in Nat
  BY <1>1, PrivateIs, ThreadTypes
<1>3. log[ctx[t].composing].size = call[t].size
  BY PrivateRecord
<1>4. \A i \in DOMAIN index : index[i] # ctx[t].composing
  BY <1>1 DEF ThreadInv, Range
<1>5. call[t].size \in Nat
  BY <1>1, ThreadTypes, CallsAre
<1>6. QED
  BY <1>2, <1>3, <1>4, <1>5 DEF PhysicalSize

LEMMA EndInsertBooks ==
    ASSUME IInv, IInv', WasteInv, NEW t \in Thread, EndInsert(t), overtaken => overtaken'
    PROVE  WasteInv'
<1> DEFINE size == PhysicalSize(call[t].size)
           room == IF ctx[t].left THEN 0 ELSE Scale
<1>1. pc[t] = "inserting" /\ UNCHANGED <<log, dataEnd, wasted, call>>
  BY DEF EndInsert
<1>2. CASE Goto(t, "assertIndexBegin") /\ UNCHANGED <<index, indexEnd, ctx>>
  BY <1>1, <1>2, SameSizes, GoesQuietly
<1>3. ASSUME ~(Goto(t, "assertIndexBegin") /\ UNCHANGED <<index, indexEnd, ctx>>)
      PROVE  WasteInv'
  <2>1. ThreadInv(t) /\ TypeInv
    BY DEF IInv
  <2>2. pc[t] \in IndexPC /\ pc[t] \in NewPC
    BY <1>1 DEF IndexPC, NewPC
  <2>3. Fresh(t)
    BY <2>2, InsideIndex
  <2>4. ctx[t].composing # 0 /\ ctx[t].order <= Len(index)
    BY <2>1, <2>2, <2>3 DEF ThreadInv
  <2>5. Private(t)
    BY <1>1, <2>4 DEF Private
  <2>6. PICK e \in Nat : e = ctx[t].composing
    BY <2>5, NewRecord
  <2>7. /\ log[e].size = call[t].size /\ \A i \in DOMAIN index : index[i] # e
        /\ size \in Int
    BY <2>5, <2>6, NewRecord
  <2>8. /\ index' = InsertAt(index, ctx[t].order + 1, e)
        /\ indexEnd' = IF ctx[t].left THEN indexEnd ELSE indexEnd + Scale
        /\ Goto(t, "return")
    BY <1>3, <2>6 DEF EndInsert
  <2>9. PICK error : ctx' = [ctx EXCEPT ![t].adjustment = @ - size - room, ![t].error = error]
    BY <1>3 DEF EndInsert
  <2>10. PICK new : new = [ctx[t] EXCEPT !.adjustment = @ - size - room, !.error = error]
    OBVIOUS
  <2>11. ctx' = [ctx EXCEPT ![t] = new]
    BY <2>9, <2>10
  <2>12. new.adjustment = ctx[t].adjustment - size - room
    BY <2>10, Types DEF Context
  <2>13. Frame(t) /\ pc'[t] = "return" /\ ctx'[t] = new
    BY <1>1, <2>8, <2>11, Types DEF Frame, Goto
  <2>14. PICK n \in Nat : n = Len(index) /\ DOMAIN index = 1..n
    BY <2>1, Domains
  <2>15. PICK k \in 1..(n + 1) : k = ctx[t].order + 1
    BY <2>1, <2>4, <2>14, ThreadTypes
  <2>16. /\ Len(index') = n + 1 /\ DOMAIN index' = 1..(n + 1)
         /\ \A j \in 1..(n + 1) :
              index'[j] = IF j < k THEN index[j] ELSE IF j = k THEN e ELSE index[j - 1]
    <3>1. index \in Seq(Nat) /\ index' = InsertAt(index, k, e)
      BY <2>1, <2>8, <2>15 DEF TypeInv
    <3> DEFINE s == InsertAt(index, k, e)
    <3>2. /\ s \in Seq(Nat) /\ Len(s) = n + 1
          /\ \A j \in 1..(n + 1) : s[j] = IF j < k THEN index[j] ELSE IF j = k THEN e ELSE index[j - 1]
      <4>1. k \in 1..(Len(index) + 1) /\ e \in Nat /\ index \in Seq(Nat)
        BY <2>14, <3>1
      <4>2. /\ s \in Seq(Nat) /\ Len(s) = Len(index) + 1
            /\ \A j \in 1..(Len(index) + 1) :
                 s[j] = IF j < k THEN index[j] ELSE IF j = k THEN e ELSE index[j - 1]
        <5>1. OneMore(index, k, e, s)
          BY <4>1, OneSlotMore, Zenon
        <5>2. QED
          BY <5>1 DEF OneMore
      <4>3. QED
        BY <2>14, <4>2, Zenon
    <3>3. index' = s
      BY <3>1
    <3> HIDE DEF s
    <3>4. QED
      BY <3>2, <3>3
  <2>17. NoTwins'
    <3>1. \A i, j \in 1..n : index[i] = index[j] => i = j
      BY <2>14 DEF WasteInv, NoTwins
    <3> SUFFICES ASSUME NEW i \in 1..(n + 1), NEW j \in 1..(n + 1), index'[i] = index'[j], i < j
                 PROVE  FALSE
      BY <2>16 DEF NoTwins
    <3>2. CASE j < k
      <4>1. index'[i] = index[i] /\ index'[j] = index[j] /\ i \in 1..n /\ j \in 1..n
        BY <2>16, <3>2
      <4>2. i = j
        BY <3>1, <4>1
      <4>3. QED
        BY <4>2
    <3>3. CASE j = k
      <4>1. index'[i] = index[i] /\ index'[j] = e /\ i \in 1..n
        BY <2>16, <3>3
      <4>2. QED
        BY <2>7, <2>14, <4>1
    <3>4. CASE j > k /\ i < k
      <4>1. index'[i] = index[i] /\ index'[j] = index[j - 1] /\ i \in 1..n /\ j - 1 \in 1..n
        BY <2>16, <3>4
      <4>2. i = j - 1
        BY <3>1, <4>1
      <4>3. QED
        BY <3>4, <4>2
    <3>5. CASE j > k /\ i = k
      <4>1. index'[i] = e /\ index'[j] = index[j - 1] /\ j - 1 \in 1..n
        BY <2>16, <3>5
      <4>2. QED
        BY <2>7, <2>14, <4>1
    <3>6. CASE j > k /\ i > k
      <4>1. index'[i] = index[i - 1] /\ index'[j] = index[j - 1] /\ i - 1 \in 1..n /\ j - 1 \in 1..n
        BY <2>16, <3>6
      <4>2. i - 1 = j - 1
        BY <3>1, <4>1
      <4>3. QED
        BY <4>2
    <3>7. QED
      BY <3>2, <3>3, <3>4, <3>5, <3>6
  <2>18. PICK d \in Int : d = size
    BY <2>7
  <2>19. \A l \in Int : Live(l) => Live(l + d)'
    <3> TAKE l \in Int
    <3> HAVE Live(l)
    <3>1. d = PhysicalSize(log[e].size)
      BY <2>7, <2>18
    <3>2. QED
      BY <1>1, <2>14, <2>16, <3>1, LiveInserted
  <2>20. (wasted' + Owes(t)') - (wasted + Owes(t)) = ((dataEnd' - dataEnd) - d) - (indexEnd' - indexEnd)
    <3>1. room \in Int /\ indexEnd \in Int /\ indexEnd' = indexEnd + room
      BY <2>1, <2>8 DEF TypeInv, Scale
    <3>2. Owes(t) = ctx[t].adjustment /\ Owes(t) \in Int
      BY <1>1, <2>1, OwesAdjustment, OwesInt
    <3> HIDE DEF size, room
    <3>3. Owes(t)' = ctx[t].adjustment - size - room
      <4>1. Owes(t)' = ctx'[t].adjustment + 0
        BY <2>13 DEF Owes
      <4>2. ctx'[t].adjustment = Owes(t) - size - room
        BY <2>12, <2>13, <3>2, Zenon
      <4>3. (Owes(t) - size - room) + 0 = Owes(t) - size - room
        BY <2>7, <3>1, <3>2
      <4>4. QED
        BY <3>2, <4>1, <4>2, <4>3, Zenon
    <3>4. wasted \in Int /\ dataEnd \in Int
      BY Types
    <3>5. PICK a \in Int, c \in Int : a = Owes(t) /\ c = room
      BY <3>1, <3>2
    <3>6. Owes(t)' = (a - d) - c
      BY <2>18, <3>2, <3>3, <3>5, Zenon
    <3>7. QED
      BY <1>1, <3>1, <3>4, <3>5, <3>6
  <2>21. pc[t] # "idle"
    BY <1>1
  <2> HIDE DEF size, room
  <2>22. QED
    BY <2>13, <2>17, <2>19, <2>20, <2>21, Books
<1>4. QED
  BY <1>2, <1>3

LEMMA EndModifyBooks ==
    ASSUME IInv, IInv', WasteInv, NEW t \in Thread, EndModify(t),
           overtaken => overtaken', Overtaken(t) => overtaken'
    PROVE  WasteInv'
<1> DEFINE size == PhysicalSize(call[t].size)
           old == PhysicalSize(ctx[t].valueSize)
<1>1. /\ pc[t] = "modifying" /\ UNCHANGED <<log, dataEnd, wasted, indexEnd, call>>
      /\ Goto(t, "unlockReplaced")
      /\ ctx' = [ctx EXCEPT ![t].adjustment = @ - size + old]
  BY DEF EndModify
<1>2. ThreadInv(t) /\ TypeInv
  BY DEF IInv
<1>3. pc[t] \in IndexPC /\ pc[t] \in FoundPC
  BY <1>1 DEF IndexPC, FoundPC
<1>4. Fresh(t)
  BY <1>3, InsideIndex
<1>5. ctx[t].composing # 0 /\ ctx[t].order < Len(index)
  BY <1>1, <1>2, <1>3, <1>4 DEF ThreadInv
<1>6. Private(t)
  BY <1>1, <1>5 DEF Private
<1>7. PICK e \in Nat : e = ctx[t].composing
  BY <1>6, NewRecord
<1>8. /\ log[e].size = call[t].size /\ \A i \in DOMAIN index : index[i] # e
      /\ size \in Int
  BY <1>6, <1>7, NewRecord
<1>9. old \in Int
  BY <1>2, ThreadTypes DEF PhysicalSize
<1>10. PICK n \in Nat : n = Len(index) /\ DOMAIN index = 1..n
  BY <1>2, Domains
<1>11. PICK k \in 1..n : k = ctx[t].order + 1
  BY <1>2, <1>5, <1>10, ThreadTypes
<1>12. /\ Len(index') = n /\ DOMAIN index' = 1..n
       /\ \A j \in 1..n : index'[j] = IF j = k THEN e ELSE index[j]
  <2>1. index \in Seq(Nat) /\ index' = ReplaceAt(index, k, e)
    BY <1>2, <1>7, <1>11 DEF TypeInv, EndModify
  <2> DEFINE s == ReplaceAt(index, k, e)
  <2>2. /\ s \in Seq(Nat) /\ Len(s) = n
        /\ \A j \in 1..n : s[j] = IF j = k THEN e ELSE index[j]
    BY <1>10, <2>1, SlotReplaced
  <2>3. index' = s
    BY <2>1
  <2> HIDE DEF s
  <2>4. QED
    BY <2>2, <2>3
<1>13. NoTwins'
  <2>1. \A i, j \in 1..n : index[i] = index[j] => i = j
    BY <1>10 DEF WasteInv, NoTwins
  <2>2. \A i, j \in 1..n : index'[i] = index'[j] => i = j
    BY <1>8, <1>10, <1>12, <2>1
  <2>3. QED
    BY <1>12, <2>2 DEF NoTwins
<1>14. PICK new : new = [ctx[t] EXCEPT !.adjustment = @ - size + old]
  OBVIOUS
<1>15. ctx' = [ctx EXCEPT ![t] = new]
  BY <1>1, <1>14
<1>16. new.adjustment = ctx[t].adjustment - size + old
  BY <1>14, Types DEF Context
<1>17. Frame(t) /\ pc'[t] = "unlockReplaced" /\ ctx'[t] = new
  BY <1>1, <1>15, Types DEF Frame, Goto
<1>18. ~overtaken' => log[index[k]].size = ctx[t].valueSize
  BY <1>1, <1>11 DEF Overtaken, Existing
<1>19. PICK d \in Int : d = size - old
  BY <1>8, <1>9
<1>20. ~overtaken' => \A l \in Int : Live(l) => Live(l + d)'
  <2> SUFFICES ASSUME ~overtaken', NEW l \in Int, Live(l) PROVE Live(l + d)'
    OBVIOUS
  <2>1. \A j \in 1..Len(index) : j # k => log'[index'[j]].size = log[index[j]].size
    BY <1>1, <1>10, <1>12
  <2>2. d = PhysicalSize(log'[index'[k]].size) - PhysicalSize(log[index[k]].size)
    BY <1>1, <1>8, <1>12, <1>18, <1>19
  <2>3. QED
    BY <1>10, <1>12, <2>1, <2>2, LiveChanged
<1>21. (wasted' + Owes(t)') - (wasted + Owes(t)) = ((dataEnd' - dataEnd) - d) - (indexEnd' - indexEnd)
  <2>1. Owes(t) = ctx[t].adjustment /\ Owes(t) \in Int
    BY <1>1, <1>2, OwesAdjustment, OwesInt
  <2>2. PICK a \in Int, b \in Int, c \in Int : a = Owes(t) /\ b = size /\ c = old
    BY <1>8, <1>9, <2>1
  <2>3. ctx'[t].adjustment = a - b + c
    BY <1>16, <1>17, <2>1, <2>2, Zenon
  <2>4. Owes(t)' = (a - b + c) + 0
    BY <1>17, <2>3 DEF Owes
  <2>5. wasted \in Int /\ dataEnd \in Int /\ indexEnd \in Int
    BY Types
  <2>6. d = b - c
    BY <1>19, <2>2
  <2>7. QED
    BY <1>1, <2>2, <2>4, <2>5, <2>6
<1>22. pc[t] # "idle"
  BY <1>1
<1> HIDE DEF size, old
<1>23. QED
  BY <1>13, <1>17, <1>20, <1>21, <1>22, Books

\* A Set in place changes the size of one record, which at most one slot leads to.
LEMMA SetValueBooks ==
    ASSUME IInv, IInv', WasteInv, NEW t \in Thread, SetValue(t),
           overtaken => overtaken', Overtaken(t) => overtaken'
    PROVE  WasteInv'
<1>1. pc[t] = "setValue" /\ UNCHANGED <<index, indexEnd, wasted, dataEnd, call>>
  BY DEF SetValue
<1>2. CASE Fail(t, "unknown") /\ UNCHANGED log
  BY <1>1, <1>2, SameSizes, FailsQuietly
<1>3. CASE /\ log' = [log EXCEPT ![ctx[t].existing].size = call[t].size,
                                 ![ctx[t].existing].state = @ + 2]
           /\ ctx' = [ctx EXCEPT ![t].adjustment = @ + ctx[t].valueSize - call[t].size]
           /\ Goto(t, "return")
  <2>1. ThreadInv(t) /\ TypeInv /\ NoTwins
    BY DEF IInv, WasteInv
  <2>2. PICK e \in DOMAIN log : e = ctx[t].existing
    BY <1>1, <2>1 DEF ThreadInv, FoundPC
  <2>3. log[e] \in LogRecord /\ log[e].state \in Nat /\ call[t].size \in Nat
    BY <2>1, RecordTypes, ThreadTypes, CallsAre
  <2>4. PICK s \in Nat : s = log[e].state + 2
    BY <2>3
  <2> DEFINE r == [log[e] EXCEPT !.size = call[t].size, !.state = s]
  <2>5. log' = [log EXCEPT ![e] = r]
    BY <1>3, <2>2, <2>3, <2>4 DEF LogRecord
  <2>6. r.size = call[t].size
    BY <2>3, <2>4 DEF LogRecord
  <2> HIDE DEF r
  <2>7. log'[e].size = call[t].size /\ \A i \in DOMAIN log : i # e => log'[i].size = log[i].size
    BY <2>2, <2>5, <2>6
  <2>8. PICK new : new = [ctx[t] EXCEPT !.adjustment = @ + ctx[t].valueSize - call[t].size]
    OBVIOUS
  <2>9. ctx' = [ctx EXCEPT ![t] = new]
    BY <1>3, <2>8
  <2>10. new.adjustment = ctx[t].adjustment + ctx[t].valueSize - call[t].size
    BY <2>8, Types DEF Context
  <2>11. Frame(t) /\ pc'[t] = "return" /\ ctx'[t] = new
    BY <1>1, <1>3, <2>9, Types DEF Frame, Goto
  <2>12. ctx[t].valueSize \in Int /\ call[t].size \in Int
    BY <2>1, <2>3, ThreadTypes
  <2>13. PICK d \in Int : d = call[t].size - ctx[t].valueSize
    BY <2>12
  <2>14. ~overtaken' => \A l \in Int : Live(l) => Live(l + d)'
    <3> SUFFICES ASSUME ~overtaken', NEW l \in Int, Live(l) PROVE Live(l + d)'
      OBVIOUS
    <3>1. e \in Range(index) /\ log[e].size = ctx[t].valueSize
      BY <1>1, <2>2 DEF Overtaken, Existing
    <3>2. PICK k \in DOMAIN index : index[k] = e
      BY <3>1 DEF Range
    <3>3. Len(index') = Len(index) /\ k \in 1..Len(index) /\ DOMAIN index = 1..Len(index)
      BY <1>1, <2>1, <3>2, Domains
    <3>4. \A j \in 1..Len(index) : j # k => log'[index'[j]].size = log[index[j]].size
      <4>1. \A j \in 1..Len(index) : index[j] \in DOMAIN log
        BY <3>3 DEF IInv, SlotsInv
      <4>2. \A j \in 1..Len(index) : j # k => index[j] # e
        BY <2>1, <3>2, <3>3 DEF NoTwins
      <4>3. QED
        BY <1>1, <2>7, <4>1, <4>2
    <3>5. d = PhysicalSize(log'[index'[k]].size) - PhysicalSize(log[index[k]].size)
      <4>1. log'[index'[k]].size = call[t].size /\ log[index[k]].size = ctx[t].valueSize
        BY <1>1, <2>7, <3>1, <3>2
      <4>2. QED
        BY <2>12, <2>13, <4>1 DEF PhysicalSize
    <3>6. QED
      BY <3>3, <3>4, <3>5, LiveChanged
  <2>15. (wasted' + Owes(t)') - (wasted + Owes(t)) = ((dataEnd' - dataEnd) - d) - (indexEnd' - indexEnd)
    <3>1. Owes(t) = ctx[t].adjustment /\ Owes(t) \in Int
      BY <1>1, <2>1, OwesAdjustment, OwesInt
    <3>2. PICK a \in Int, b \in Int, c \in Int : a = Owes(t) /\ b = call[t].size /\ c = ctx[t].valueSize
      BY <2>12, <3>1
    <3>3. ctx'[t].adjustment = a + c - b
      BY <2>10, <2>11, <3>1, <3>2, Zenon
    <3>4. Owes(t)' = (a + c - b) + 0
      BY <2>11, <3>3 DEF Owes
    <3>5. wasted \in Int /\ dataEnd \in Int /\ indexEnd \in Int
      BY Types
    <3>6. d = b - c
      BY <2>13, <3>2
    <3>7. QED
      BY <1>1, <3>2, <3>4, <3>5, <3>6
  <2>16. NoTwins' /\ pc[t] # "idle"
    BY <1>1, <2>1 DEF NoTwins
  <2>17. QED
    BY <2>11, <2>14, <2>15, <2>16, Books
<1>4. QED
  BY <1>2, <1>3 DEF SetValue

LEMMA RemoveSlotBooks ==
    ASSUME IInv, IInv', WasteInv, NEW t \in Thread, RemoveSlot(t),
           overtaken => overtaken', Overtaken(t) => overtaken'
    PROVE  WasteInv'
<1> DEFINE room == IF RemoveMovesLeft(Len(index), ctx[t].order) THEN 0 ELSE Scale
<1>1. pc[t] = "remove" /\ UNCHANGED <<dataEnd, wasted, call>> /\ ~IsCorrupted(indexState)
  BY DEF RemoveSlot
<1>2. CASE /\ log' = [log EXCEPT ![ctx[t].existing].state = @ - 1] /\ Goto(t, "search")
           /\ UNCHANGED <<index, indexEnd, ctx>>
  BY <1>1, <1>2, StateSizes, GoesQuietly
<1>3. CASE /\ indexState = ctx[t].indexState
           /\ indexEnd' = indexEnd - room
           /\ ctx' = [ctx EXCEPT ![t].adjustment = @ + room]
           /\ index' = RemoveAt(index, ctx[t].order + 1)
           /\ Goto(t, "mark") /\ UNCHANGED log
  <2>1. ThreadInv(t) /\ TypeInv
    BY DEF IInv
  <2>2. Fresh(t) /\ pc[t] \in FoundPC
    BY <1>1, <1>3 DEF Fresh, SearchedPC, LastStable, FoundPC
  <2>3. ctx[t].order < Len(index)
    BY <2>1, <2>2 DEF ThreadInv
  <2>4. PICK n \in Nat : n = Len(index) /\ DOMAIN index = 1..n
    BY <2>1, Domains
  <2>5. PICK k \in 1..n : k = ctx[t].order + 1
    BY <2>1, <2>3, <2>4, ThreadTypes
  <2>6. /\ Len(index') = n - 1 /\ DOMAIN index' = 1..(n - 1)
        /\ \A j \in 1..(n - 1) : index'[j] = IF j < k THEN index[j] ELSE index[j + 1]
    <3>1. index \in Seq(Nat) /\ index' = RemoveAt(index, k)
      BY <1>3, <2>1, <2>5 DEF TypeInv
    <3> DEFINE s == RemoveAt(index, k)
    <3>2. /\ s \in Seq(Nat) /\ Len(s) = n - 1
          /\ \A j \in 1..(n - 1) : s[j] = IF j < k THEN index[j] ELSE index[j + 1]
      BY <2>4, <3>1, SlotRemoved
    <3>3. index' = s
      BY <3>1
    <3> HIDE DEF s
    <3>4. QED
      BY <3>2, <3>3
  <2>7. NoTwins'
    <3>1. \A i, j \in 1..n : index[i] = index[j] => i = j
      BY <2>4 DEF WasteInv, NoTwins
    <3> SUFFICES ASSUME NEW i \in 1..(n - 1), NEW j \in 1..(n - 1), index'[i] = index'[j], i < j
                 PROVE  FALSE
      BY <2>6 DEF NoTwins
    <3>2. i \in 1..n /\ j \in 1..n /\ i + 1 \in 1..n /\ j + 1 \in 1..n
      OBVIOUS
    <3>3. CASE j < k
      <4>1. index'[i] = index[i] /\ index'[j] = index[j]
        BY <2>6, <3>3
      <4>2. i = j
        BY <3>1, <3>2, <4>1
      <4>3. QED
        BY <4>2
    <3>4. CASE ~(j < k) /\ i < k
      <4>1. index'[i] = index[i] /\ index'[j] = index[j + 1]
        BY <2>6, <3>4
      <4>2. i = j + 1
        BY <3>1, <3>2, <4>1
      <4>3. QED
        BY <4>2
    <3>5. CASE ~(j < k) /\ ~(i < k)
      <4>1. index'[i] = index[i + 1] /\ index'[j] = index[j + 1]
        BY <2>6, <3>5
      <4>2. i + 1 = j + 1
        BY <3>1, <3>2, <4>1
      <4>3. QED
        BY <4>2
    <3>6. QED
      BY <3>3, <3>4, <3>5
  <2>8. PICK new : new = [ctx[t] EXCEPT !.adjustment = @ + room]
    OBVIOUS
  <2>9. ctx' = [ctx EXCEPT ![t] = new]
    BY <1>3, <2>8
  <2>10. new.adjustment = ctx[t].adjustment + room /\ new.valueSize = ctx[t].valueSize
    BY <2>8, Types DEF Context
  <2>11. Frame(t) /\ pc'[t] = "mark" /\ ctx'[t] = new
    BY <1>1, <1>3, <2>9, Types DEF Frame, Goto
  <2>12. PICK c \in Int : c = PhysicalSize(ctx[t].valueSize)
    BY <2>1, ThreadTypes DEF PhysicalSize
  <2>13. ~overtaken' => \A l \in Int : Live(l) => Live(l + (-c))'
    <3> SUFFICES ASSUME ~overtaken', NEW l \in Int, Live(l) PROVE Live(l + (-c))'
      OBVIOUS
    <3>1. log[index[k]].size = ctx[t].valueSize
      BY <1>1, <1>3, <2>5 DEF Overtaken, Existing
    <3>2. -c = -PhysicalSize(log[index[k]].size)
      BY <2>12, <3>1
    <3>3. QED
      BY <1>3, <2>4, <2>6, <3>2, LiveRemoved
  <2>14. (wasted' + Owes(t)') - (wasted + Owes(t)) = ((dataEnd' - dataEnd) - (-c)) - (indexEnd' - indexEnd)
    <3>1. Owes(t) = ctx[t].adjustment /\ Owes(t) \in Int
      BY <1>1, <2>1, OwesAdjustment, OwesInt
    <3>2. PICK a \in Int, b \in Int : a = Owes(t) /\ b = room
      BY <3>1 DEF Scale
    <3>3. ctx'[t].adjustment = a + b /\ ctx'[t].valueSize = ctx[t].valueSize
      BY <2>10, <2>11, <3>1, <3>2, Zenon
    <3>4. Owes(t)' = (a + b) + c
      BY <2>11, <2>12, <3>3 DEF Owes
    <3>5. wasted \in Int /\ dataEnd \in Int /\ indexEnd \in Int /\ indexEnd' = indexEnd - b
      BY <1>3, <3>2, Types
    <3>6. QED
      BY <1>1, <3>2, <3>4, <3>5
  <2>15. pc[t] # "idle" /\ -c \in Int
    BY <1>1
  <2> HIDE DEF room
  <2>16. QED
    BY <2>7, <2>11, <2>13, <2>14, <2>15, Books
<1>4. QED
  BY <1>2, <1>3 DEF RemoveSlot

-----------------------------------------------------------------------------
(* The invariant holds, and what it says.                                  *)

\* A thread that makes a call comes to the list, and owes nothing.
LEMMA CallBooks ==
    ASSUME IInv, WasteInv, NEW t \in Thread, Call(t), UNCHANGED overtaken
    PROVE  WasteInv'
<1>1. /\ pc[t] = "idle" /\ pc' = [pc EXCEPT ![t] = "search"]
      /\ UNCHANGED <<log, dataEnd, index, indexEnd, wasted, ctx>>
  BY DEF Call, table, Goto
<1>2. /\ \A u \in Thread : u # t => pc'[u] = pc[u]
      /\ pc'[t] = "search" /\ ctx' = ctx
  BY <1>1, Types
<1>3. \A u \in Thread : Owes(u)' = Owes(u)
  BY <1>1, <1>2 DEF Owes
<1>4. NoTwins'
  BY <1>1 DEF WasteInv, NoTwins
<1>5. ASSUME NEW o, Owed(o) PROVE Owed(o)'
  <2>1. PICK q, s : Listed(q) /\ Sums(s, Debts(q), Len(q)) /\ o = s[Len(q)]
    BY <1>5 DEF Owed
  <2>2. q \in Seq(Thread) /\ Len(q) \in Nat /\ DOMAIN q = 1..Len(q)
    BY <2>1 DEF Listed
  <2>3. \A i \in 1..Len(q) : q[i] \in Thread
    BY <2>2
  <2>4. CASE \E i \in DOMAIN q : q[i] = t
    <3>1. Listed(q)'
      BY <1>2, <2>1, <2>4 DEF Listed
    <3>2. Debts(q)' = Debts(q)
      BY <1>3, <2>3 DEF Debts
    <3>3. QED
      BY <2>1, <3>1, <3>2 DEF Owed
  <2>5. CASE ~ \E i \in DOMAIN q : q[i] = t
    <3>1. PICK n \in Nat : n = Len(q)
      BY <2>2
    <3>2. PICK p : p = Append(q, t)
      OBVIOUS
    <3>3. /\ p \in Seq(Thread) /\ Len(p) = n + 1 /\ DOMAIN p = 1..(n + 1)
          /\ p[n + 1] = t /\ \A i \in 1..n : p[i] = q[i]
      BY <2>2, <3>1, <3>2
    <3>4. Listed(p)'
      <4>1. \A i, j \in DOMAIN p : p[i] = p[j] => i = j
        <5>1. \A i, j \in 1..n : q[i] = q[j] => i = j
          BY <2>1, <2>2, <3>1 DEF Listed
        <5>2. \A i \in 1..n : q[i] # t
          BY <2>2, <2>5, <3>1
        <5>3. \A i \in 1..(n + 1) : i \in 1..n \/ i = n + 1
          OBVIOUS
        <5>4. QED
          BY <3>3, <5>1, <5>2, <5>3
      <4>2. \A u \in Thread : pc'[u] # "idle" => \E i \in DOMAIN p : p[i] = u
        <5> SUFFICES ASSUME NEW u \in Thread, pc'[u] # "idle" PROVE \E i \in DOMAIN p : p[i] = u
          OBVIOUS
        <5>1. CASE u = t
          BY <3>3, <5>1
        <5>2. CASE u # t
          <6>1. PICK i \in 1..n : q[i] = u
            BY <1>2, <2>1, <2>2, <3>1, <5>2 DEF Listed
          <6>2. i \in DOMAIN p /\ p[i] = u
            BY <3>3, <6>1
          <6>3. QED
            BY <6>2
        <5>3. QED
          BY <5>1, <5>2
      <4>3. QED
        BY <3>3, <4>1, <4>2 DEF Listed
    <3>5. \A u \in Thread : Owes(u) \in Int
      BY OwesInt DEF IInv
    <3>6. Owes(t) = 0
      <4>1. ctx[t] = NewContext
        BY <1>1 DEF IInv, ThreadInv
      <4>2. QED
        BY <1>1, <4>1 DEF Owes, NewContext
    <3>7. PICK f : f = Debts(q)
      OBVIOUS
    <3>8. PICK g : g = Debts(p)'
      OBVIOUS
    <3>9. /\ f \in [1..n -> Int] /\ g \in [1..(n + 1) -> Int]
          /\ g[n + 1] = 0 /\ \A i \in 1..n : g[i] = f[i]
      <4>1. f = [i \in 1..n |-> Owes(q[i])]
        BY <3>1, <3>7 DEF Debts
      <4>2. g = [i \in 1..(n + 1) |-> Owes(p[i])]
        <5>1. Debts(p)' = [i \in 1..Len(p) |-> Owes(p[i])']
          BY DEF Debts
        <5>2. \A i \in 1..(n + 1) : Owes(p[i])' = Owes(p[i])
          BY <1>3, <3>3
        <5>3. QED
          BY <3>3, <3>8, <5>1, <5>2
      <4>3. \A i \in 1..(n + 1) : p[i] \in Thread
        BY <3>3
      <4>4. \A i \in 1..n : i \in 1..(n + 1)
        OBVIOUS
      <4>5. n + 1 \in 1..(n + 1)
        OBVIOUS
      <4>6. f \in [1..n -> Int]
        BY <2>3, <3>1, <3>5, <4>1
      <4>7. g \in [1..(n + 1) -> Int]
        BY <3>5, <4>2, <4>3
      <4>8. g[n + 1] = 0
        BY <3>3, <3>6, <4>2, <4>5
      <4>9. \A i \in 1..n : g[i] = f[i]
        BY <3>3, <4>1, <4>2, <4>4
      <4>10. QED
        BY <4>6, <4>7, <4>8, <4>9
    <3>10. Sums(s, f, n) /\ o = s[n]
      BY <2>1, <3>1, <3>7
    <3>11. PICK k \in 1..(n + 1) : k = n + 1
      OBVIOUS
    <3>12. \A i \in 1..(n + 1) : i # k => g[i] = IF i < k THEN f[i] ELSE f[i - 1]
      <4>1. \A i \in 1..(n + 1) : i # k => i \in 1..n /\ i < k
        BY <3>11
      <4>2. QED
        BY <3>9, <4>1
    <3>13. PICK r : Sums(r, g, n + 1) /\ r[n + 1] = s[n] + g[k]
      BY <3>9, <3>10, <3>12, SumInserted
    <3>14. r[n + 1] = o
      <4>1. s[n] \in Int
        BY <3>10 DEF Sums
      <4>2. QED
        BY <3>9, <3>10, <3>11, <3>13, <4>1
    <3>15. QED
      BY <3>3, <3>4, <3>8, <3>13, <3>14 DEF Owed
  <2>6. QED
    BY <2>4, <2>5
<1>6. \A l : Live(l) => Live(l)'
  BY <1>1, SameSizes, LiveStays
<1>7. ASSUME ~overtaken'
      PROVE  \E l, o \in Int : Live(l)' /\ Owed(o)' /\ Balanced(l, o)'
  <2>1. PICK l \in Int, o \in Int : Live(l) /\ Owed(o) /\ Balanced(l, o)
    BY <1>7 DEF WasteInv
  <2>2. Live(l)' /\ Owed(o)' /\ Balanced(l, o)'
    BY <1>1, <1>5, <1>6, <2>1 DEF Balanced
  <2>3. QED
    BY <2>2
<1>8. QED
  BY <1>4, <1>7 DEF WasteInv

LEMMA InitBooks == Init => WasteInv
<1> SUFFICES ASSUME Init PROVE WasteInv
  OBVIOUS
<1>1. IInv
  BY InitHolds
<1>2. PICK n \in Nat : n = Len(log)
  BY <1>1, Domains DEF IInv
<1>3. /\ DOMAIN log = 1..n /\ index = [i \in 1..n |-> i]
      /\ dataEnd = n * PhysicalSize(1) /\ wasted = 0 /\ indexEnd = MaxEnd
      /\ pc = [t \in Thread |-> "idle"]
  BY <1>1, <1>2, Domains DEF Init, IInv
<1>4. \A i \in 1..n : log[i].size = 1
  <2>1. PICK keys : log = [i \in DOMAIN keys |-> Record(keys[i], FirstVersion, 1)]
    BY DEF Init
  <2>2. DOMAIN keys = 1..n
    BY <1>3, <2>1
  <2>3. QED
    BY <2>1, <2>2 DEF Record
<1>5. Len(index) = n
  BY <1>2, <1>3, InitHolds, Domains DEF IInv
<1>6. NoTwins
  BY <1>3 DEF NoTwins
<1>7. Live(2 * n)
  <2> DEFINE s == [i \in 0..n |-> 2 * i]
  <2>1. \A i \in 1..n : Sizes[i] = 2
    BY <1>3, <1>4, <1>5 DEF Sizes, PhysicalSize
  <2>2. s \in [0..n -> Int] /\ s[0] = 0 /\ s[n] = 2 * n
    OBVIOUS
  <2>3. \A i \in 1..n : s[i] = s[i - 1] + Sizes[i]
    <3> TAKE i \in 1..n
    <3>1. i \in 0..n /\ i - 1 \in 0..n
      OBVIOUS
    <3>2. s[i] = 2 * i /\ s[i - 1] = 2 * (i - 1)
      BY <3>1
    <3> HIDE DEF s
    <3>3. QED
      BY <2>1, <3>2
  <2> HIDE DEF s
  <2>4. Sums(s, Sizes, Len(index))
    BY <1>5, <2>2, <2>3 DEF Sums
  <2>5. QED
    BY <1>5, <2>2, <2>4 DEF Live
<1>8. Owed(0)
  <2> DEFINE s == [i \in 0..0 |-> 0]
  <2>1. PICK q : q = << >>
    OBVIOUS
  <2>2. q \in Seq(Thread) /\ Len(q) = 0 /\ DOMAIN q = {}
    BY <2>1
  <2>3. Listed(q)
    BY <1>3, <2>2 DEF Listed
  <2>4. s \in [0..0 -> Int] /\ s[0] = 0
    OBVIOUS
  <2> HIDE DEF s
  <2>5. \A i \in 1..0 : s[i] = s[i - 1] + Debts(q)[i]
    OBVIOUS
  <2>6. Sums(s, Debts(q), Len(q))
    BY <2>2, <2>4, <2>5 DEF Sums
  <2>7. QED
    BY <2>2, <2>3, <2>4, <2>6 DEF Owed
<1>9. Balanced(2 * n, 0)
  <2>1. dataEnd = 2 * n
    BY <1>3 DEF PhysicalSize
  <2>2. QED
    BY <1>3, <2>1, SizesAreNaturals DEF Balanced
<1>10. QED
  BY <1>6, <1>7, <1>8, <1>9 DEF WasteInv

\* No deadline passes while Delete has taken the slot of a record and not marked it.
MarksInTime == \A t \in Thread : TimeOut(t) => pc[t] # "mark"

LEMMA StutterBooks ==
    ASSUME WasteInv, UNCHANGED vars
    PROVE  WasteInv'
<1>1. /\ log' = log /\ dataEnd' = dataEnd /\ index' = index /\ indexEnd' = indexEnd
      /\ wasted' = wasted /\ pc' = pc /\ ctx' = ctx /\ overtaken' = overtaken
  BY DEF vars, table
<1>2. Sizes' = Sizes
  BY <1>1 DEF Sizes
<1>3. \A l : Live(l)' <=> Live(l)
  BY <1>1, <1>2 DEF Live
<1>4. \A q : Debts(q)' = Debts(q) /\ (Listed(q)' <=> Listed(q))
  BY <1>1 DEF Debts, Owes, Listed
<1>5. \A o : Owed(o)' <=> Owed(o)
  BY <1>4 DEF Owed
<1>6. \A l, o : Balanced(l, o)' <=> Balanced(l, o)
  BY <1>1 DEF Balanced
<1>7. NoTwins' <=> NoTwins
  BY <1>1 DEF NoTwins
<1>8. QED
  BY <1>1, <1>3, <1>5, <1>6, <1>7, Zenon DEF WasteInv

LEMMA NextBooks ==
    ASSUME IInv, IInv', WasteInv, Next, MarksInTime
    PROVE  WasteInv'
<1>1. ASSUME NEW t \in Thread, Step(t) PROVE WasteInv'
  <2>1. (overtaken => overtaken') /\ (Overtaken(t) => overtaken')
    BY <1>1 DEF Step
  <2>2. TypeInv
    BY DEF IInv
  <2>3. CASE SearchIndex(t)
    BY <2>1, <2>3, SearchIndexBooks
  <2>4. CASE ReadRecord(t)
    BY <2>1, <2>4, ReadRecordBooks
  <2>5. CASE VerifySearch(t)
    BY <2>1, <2>5, VerifySearchBooks
  <2>6. CASE BeginAppend(t)
    BY <2>1, <2>6, BeginAppendBooks
  <2>7. CASE EndAppend(t)
    BY <2>1, <2>7, EndAppendBooks
  <2>8. CASE Compose(t)
    BY <2>1, <2>8, ComposeBooks
  <2>9. CASE BeginInsert(t)
    BY <2>1, <2>9, BeginInsertBooks
  <2>10. CASE EndInsert(t)
    BY <2>1, <2>10, EndInsertBooks
  <2>11. CASE LockReplace(t)
    BY <2>1, <2>11, LockReplaceBooks
  <2>12. CASE BeginModify(t)
    BY <2>1, <2>12, BeginModifyBooks
  <2>13. CASE EndModify(t)
    BY <2>1, <2>13, EndModifyBooks
  <2>14. CASE UnlockReplaced(t)
    BY <2>1, <2>14, UnlockReplacedBooks
  <2>15. CASE SetValue(t)
    BY <2>1, <2>15, SetValueBooks
  <2>16. CASE LockDelete(t)
    BY <2>1, <2>16, LockDeleteBooks
  <2>17. CASE RemoveSlot(t)
    BY <2>1, <2>17, RemoveSlotBooks
  <2>18. CASE MarkDeleted(t)
    BY <2>1, <2>18, MarkDeletedBooks
  <2>19. CASE Return(t)
    BY <2>1, <2>19, ReturnBooks
  <2>20. QED
    BY <1>1, <2>2, <2>3, <2>4, <2>5, <2>6, <2>7, <2>8, <2>9, <2>10, <2>11, <2>12, <2>13,
       <2>14, <2>15, <2>16, <2>17, <2>18, <2>19, StepIs, Zenon
<1>2. ASSUME NEW t \in Thread, Call(t), UNCHANGED overtaken PROVE WasteInv'
  BY <1>2, CallBooks
<1>3. ASSUME NEW t \in Thread, TimeOut(t), UNCHANGED overtaken PROVE WasteInv'
  <2>1. pc[t] # "mark"
    BY <1>3 DEF MarksInTime
  <2>2. overtaken => overtaken'
    BY <1>3
  <2>3. QED
    BY <1>3, <2>1, <2>2, TimeOutBooks
<1>4. ASSUME UNCHANGED vars PROVE WasteInv'
  BY <1>4, StutterBooks
<1>5. QED
  BY <1>1, <1>2, <1>3, <1>4, Zenon DEF Next

LEMMA BooksSay == IInv /\ WasteInv => WastedIsExact
<1> SUFFICES ASSUME IInv, WasteInv, Quiescent, ~overtaken
             PROVE  wasted = (dataEnd - LiveSize) + (MaxEnd - indexEnd)
  BY DEF WastedIsExact
<1>1. PICK l \in Int, o \in Int : Live(l) /\ Owed(o) /\ Balanced(l, o)
  BY DEF WasteInv
<1>2. LiveSize = l
  <2>1. PICK s : Sums(s, Sizes, Len(index)) /\ l = s[Len(index)]
    BY <1>1 DEF Live
  <2>2. TypeInv
    BY DEF IInv
  <2>3. QED
    BY <2>1, <2>2, LiveSizeIs
<1>3. o = 0
  <2>1. PICK q, s : Listed(q) /\ Sums(s, Debts(q), Len(q)) /\ o = s[Len(q)]
    BY <1>1 DEF Owed
  <2>2. q \in Seq(Thread) /\ Len(q) \in Nat /\ \A i \in 1..Len(q) : q[i] \in Thread
    BY <2>1 DEF Listed
  <2>3. \A t \in Thread : Owes(t) = 0
    <3>1. \A t \in Thread : pc[t] = "idle" /\ ctx[t] = NewContext
      BY DEF Quiescent, IInv, ThreadInv
    <3>2. QED
      BY <3>1 DEF Owes, NewContext
  <2>4. \A i \in 1..Len(q) : Debts(q)[i] = 0
    BY <2>2, <2>3 DEF Debts
  <2>5. QED
    BY <2>1, <2>2, <2>4, SumOfZeros
<1>4. wasted \in Int /\ dataEnd \in Int /\ indexEnd \in Int /\ MaxEnd \in Int
  BY Types, SizesAreNaturals
<1>5. QED
  BY <1>1, <1>2, <1>3, <1>4 DEF Balanced

\* As long as no deadline passes between the removal of a slot and the mark of its
\* record, the counter, what the calls owe it, the records and the slots balance in
\* every state, and no two slots lead to one record.
THEOREM WasteInvariant == Spec /\ [][MarksInTime]_vars => []WasteInv
<1>1. IInv /\ IInv' /\ WasteInv /\ [Next]_vars /\ [MarksInTime]_vars => WasteInv'
  BY NextBooks, StutterBooks
<1>2. QED
  BY <1>1, CallsInvariant, InitBooks, PTL DEF Spec

\* When no call is running, header.wasted is the size of the records that no slot
\* leads to, of the unused part of the others and of the slots free behind indexEnd,
\* however calls have overlapped or failed, unless one was overtaken or a deadline
\* passed while Delete marked its record (SortedTable.Set, Delete: AtomicAdd of
\* wastedAdjustment at the end).
THEOREM WastedIsExactThm == Spec /\ [][MarksInTime]_vars => []WastedIsExact
<1>1. QED
  BY BooksSay, CallsInvariant, WasteInvariant, PTL

\* Without deadlines nothing else has to be assumed.
THEOREM WastedIsExactWithoutDeadlines ==
    ASSUME ~CanTimeOut
    PROVE  Spec => []WastedIsExact
<1>1. MarksInTime
  BY DEF MarksInTime, TimeOut
<1>2. Spec => [][MarksInTime]_vars
  BY <1>1, PTL
<1>3. QED
  BY <1>2, WastedIsExactThm, PTL
=============================================================================
