----------------------------- MODULE TableProofs -----------------------------
(***************************************************************************)
(* Proofs about the two table files and the maintenance (module Table),    *)
(* for any number of processes, threads, keys and events.                  *)
(*                                                                         *)
(* The inductive invariant IInv has six parts.  TypeInv bounds the values. *)
(* ThreadInv ties a frame to the spin lock and to the selector: whoever is *)
(* in a later stage than the first holds the lock, and maintains the table *)
(* that is active. SignatureInv says that a mapped table was constructed.  *)
(* CountInv says that no counter of readers counts fewer than the living   *)
(* ones, although killed readers are never taken off. KeyInv says what is  *)
(* true until a reader slips in behind a writer: the active table holds    *)
(* the acknowledged keys, sessions are on it, and the maintenance is alone *)
(* and has come as far with the inactive table as its statement says; the  *)
(* records are only accounted for until slots have become wider. StuckInv  *)
(* says why a growth that died is the last one.                            *)
(*                                                                         *)
(* Most actions change one frame and at most one more variable. What such  *)
(* a step has to respect for the rest of the invariant to survive is shown *)
(* once for each kind of step; each action is then one of these.           *)
(***************************************************************************)
EXTENDS Table, FiniteSetTheorems, TLAPS

Header == [signature : BOOLEAN, size : Nat, live : SUBSET Key, used : Nat, wasted : Nat,
           readOnly : BOOLEAN, readers : Int, stuck : BOOLEAN]
DataFile == [len : Nat, head : Header]
Mapping == [size : Nat, open : BOOLEAN, age : Nat]
PCs == {"idle", "openSize", "openMap", "openUnlock", "load", "enter", "active", "relock",
        "recheck", "lost", "test", "begin", "operate", "leave", "lock", "beginWrite", "wait",
        "plan", "grow", "extend", "construct", "setReadOnly", "copy", "flip", "endWrite",
        "release"}
Ops == {"Set", "Delete", "Read"}
Errors == {"NO", "ACCESS_DENIED", "NOT_ENOUGH_MEMORY", "NOT_FOUND", "TIMEOUT"}
Locals == [pc : PCs, stage : 1 .. 4, op : Ops, key : Key \cup {AnyKey}, err : Errors,
           tab : Files, age : Nat, seen : Nat]
CallFrame == {c \in Locals : c.op = "Set" => c.key \in Key}

\* Every variable has its type.
TypeInv ==
    /\ disk \in [Files -> DataFile]
    /\ map \in [Process -> [Files -> Mapping]]
    /\ status \in [Process -> {"closed", "opening", "open"}]
    /\ selector \in Files
    /\ spinLock \in Thread \cup {NoThread, DeadThread}
    /\ sync \in [state : Nat, readers : Int]
    /\ frame \in [Thread -> CallFrame]
    /\ expected \subseteq Key
    /\ late \in BOOLEAN /\ crossed \in BOOLEAN

-----------------------------------------------------------------------------
(* The inductive invariant. What a thread is up to is read off its frame, *)
(* so that a step which changes one frame has one frame to account for.   *)

OpenPC == {"openSize", "openMap", "openUnlock"}
MaintainPC == {"wait", "plan", "grow", "extend", "construct", "setReadOnly", "copy", "flip",
               "endWrite"}
SessionPC == {"active", "relock", "recheck", "lost", "test", "begin", "operate", "leave"}
TablePC == {"relock", "recheck", "test", "begin", "operate"}

\* Which statements belong to which use of the table.
StageOK(c) ==
    /\ c.pc \in {"idle", "lock", "recheck"} \cup OpenPC => c.stage = 1
    /\ c.pc = "beginWrite" => c.stage = 2
    /\ c.pc = "release" => c.stage \in {2, 4}
    /\ c.pc \in MaintainPC => c.stage = 3
    /\ c.stage = 3 => c.pc \in MaintainPC \cup {"active", "relock", "lost"}

\* Between the two ends of the spin lock.
Holds(c) == c.pc \in OpenPC \cup {"recheck"} \/ c.stage # 1

\* The maintenance works on the table that is active.
OnActive(c, s) == c.stage = 3 /\ c.pc \notin {"wait", "active", "endWrite"} => c.tab = s

\* Alone with the tables, as the thread believes: Maintains of its frame.
Alone(c) == c.stage = 3 /\ c.pc # "wait"

\* Inside a session of the shared machine, and inside one of a table.
InSession(c) == c.pc \in SessionPC /\ c.stage # 3
OperatesOn(c, f) == c.pc = "operate" /\ c.tab = f

ThreadInv == \A t \in Thread :
    StageOK(frame[t]) /\ (Holds(frame[t]) => spinLock = t) /\ OnActive(frame[t], selector)

\* A table without its signature is blank; one that is mapped has it.
Signed(h) == h.signature \/ h = Blank

SignatureInv ==
    /\ \A f \in Files : Signed(disk[f].head)
    /\ \A p \in Process, f \in Files : map[p][f].open => disk[f].head.signature

\* A counter of readers counts the living ones and some dead ones, and a dead
\* reader of a table is one of the shared machine as well. The counters of the
\* tables can be wrong once a reader has slipped in behind a writer, because the
\* maintenance zeroes one of them.
Reading == {t \in Thread : InSession(frame[t])}
Operating(f) == {t \in Thread : OperatesOn(frame[t], f)}
Spare == sync.readers - Cardinality(Reading)
SpareOf(f) == disk[f].head.readers - Cardinality(Operating(f))

CountInv ==
    /\ Spare >= 0
    /\ ~late => SpareOf(0) >= 0 /\ SpareOf(1) >= 0 /\ SpareOf(0) + SpareOf(1) <= Spare

\* The records of a table fit into it.
Fits(h) == Cardinality(h.live) <= h.used /\ h.used <= h.size

SessionTab(c, s) == c.pc \in TablePC => c.tab = s

\* How far the maintenance has come with the inactive table.
Roomy(c, p) ==
    c.pc = "construct" /\ map[p][1 - c.tab].open => disk[c.tab].head.size <= map[p][1 - c.tab].size
Empty(c) ==
    c.pc \in {"setReadOnly", "copy"} =>
        /\ disk[1 - c.tab].head.live = {} /\ disk[1 - c.tab].head.used = 0
        /\ disk[1 - c.tab].head.readers = 0
        /\ disk[c.tab].head.size <= disk[1 - c.tab].head.size
Copied(c) == c.pc = "flip" /\ ~crossed => disk[1 - c.tab].head.live = expected

\* As long as no reader has slipped in: the active table is the acknowledged
\* one, sessions are on it, and the maintenance is alone.
Settled ==
    /\ ~crossed => disk[selector].head.live = expected
    /\ \A f \in Files : Fits(disk[f].head)
    /\ \A t \in Thread :
         /\ Alone(frame[t]) => sync.readers = 0
         /\ SessionTab(frame[t], selector)
         /\ Roomy(frame[t], ProcessOf[t]) /\ Empty(frame[t]) /\ Copied(frame[t])

KeyInv == ~late => Settled

\* A table is stuck only while the dead thread that grew it holds the spin lock.
StuckInv == \A f \in Files : disk[f].head.stuck => spinLock = DeadThread

IInv == TypeInv /\ ThreadInv /\ SignatureInv /\ CountInv /\ StuckInv /\ KeyInv

-----------------------------------------------------------------------------
(* The operations on files.                                                *)

\* A header that is constructed where there was none, or reinterpreted with a
\* larger size; the records are left alone, except that wider slots lose some.
Kept(old, new) ==
    /\ new \in Header
    /\ new.signature \/ new = old
    /\ new.live \subseteq old.live /\ new.used = old.used /\ new.stuck = old.stuck
    /\ ~Widens(old, new.size) => new.live = old.live
    /\ new.readOnly = old.readOnly /\ new.readers = old.readers
    /\ old.size <= new.size

\* SortedTable.Construct without force.
Constructed(h, size) == Construct(h, size, FALSE)

LEMMA HeaderSize ==
    ASSUME NEW h \in Header, NEW n \in Nat
    PROVE  LET g == [h EXCEPT !.size = n]
           IN /\ g \in Header /\ g.signature = h.signature /\ g.size = n /\ g.live = h.live
              /\ g.used = h.used /\ g.readOnly = h.readOnly /\ g.readers = h.readers
              /\ g.stuck = h.stuck
BY DEF Header

LEMMA KeptItself ==
    ASSUME NEW h \in Header
    PROVE  Kept(h, h)
BY DEF Header, Kept

LEMMA BlankIs ==
    /\ Blank \in Header /\ Blank.signature = FALSE /\ Blank.size = 0 /\ Blank.live = {}
    /\ Blank.used = 0 /\ Blank.readOnly = FALSE /\ Blank.readers = 0 /\ Blank.stuck = FALSE
BY DEF Blank, Header

LEMMA FreshIs ==
    ASSUME NEW n \in Nat
    PROVE  LET g == [Blank EXCEPT !.signature = TRUE, !.size = n]
           IN /\ g \in Header /\ g.signature = TRUE /\ g.size = n /\ g.live = {}
              /\ g.used = 0 /\ g.readOnly = FALSE /\ g.readers = 0 /\ g.stuck = FALSE
<1> DEFINE b == Blank
           g == [b EXCEPT !.signature = TRUE, !.size = n]
<1>1. /\ b \in Header /\ b.signature = FALSE /\ b.size = 0 /\ b.live = {}
      /\ b.used = 0 /\ b.readOnly = FALSE /\ b.readers = 0 /\ b.stuck = FALSE
  BY BlankIs
<1> HIDE DEF b
<1>2. /\ g \in Header /\ g.signature = TRUE /\ g.size = n /\ g.live = {}
      /\ g.used = 0 /\ g.readOnly = FALSE /\ g.readers = 0 /\ g.stuck = FALSE
  BY <1>1 DEF Header
<1>3. QED
  BY <1>2 DEF b

LEMMA ConstructIs ==
    ASSUME NEW h \in Header, NEW size \in Nat, Signed(h),
           NEW c, c = Constructed(h, size)
    PROVE  /\ c.ok \in BOOLEAN /\ Kept(h, c.head) /\ c.head.signature
           /\ c.ok => c.head.size = size
           /\ c.head.size \in {h.size, size}
<1>0. h.size \in Nat /\ h.signature \in BOOLEAN
  BY DEF Header
<1>1. CASE h.signature /\ size > h.size /\ h.readers = 0
  <2>1. PICK L : L = IF Widens(h, size) THEN LowerHalf(h.live) ELSE h.live
    OBVIOUS
  <2>2. L \subseteq h.live /\ (~Widens(h, size) => L = h.live) /\ L \in SUBSET Key
    BY <2>1 DEF LowerHalf, Header
  <2>3. PICK g : g = [h EXCEPT !.size = size, !.live = L]
    OBVIOUS
  <2>4. /\ g \in Header /\ g.signature = h.signature /\ g.size = size /\ g.live = L
        /\ g.used = h.used /\ g.readOnly = h.readOnly /\ g.readers = h.readers
        /\ g.stuck = h.stuck
    BY <2>2, <2>3 DEF Header
  <2>5. [h EXCEPT !.size = size, !.live = IF Widens(h, size) THEN LowerHalf(@) ELSE @] = g
    BY <2>1, <2>3
  <2>6. c = [ok |-> TRUE, head |-> g]
    BY <1>1, <2>5 DEF Constructed, Construct, Reinterpret
  <2>7. c.ok = TRUE /\ c.head = g
    BY <2>6
  <2>8. Kept(h, g)
    BY <1>0, <1>1, <2>2, <2>4 DEF Kept
  <2>9. QED
    BY <1>1, <2>4, <2>7, <2>8
<1>2. CASE h.signature /\ ~(size > h.size /\ h.readers = 0)
  <2>1. c = [ok |-> size = h.size, head |-> h]
    BY <1>2 DEF Constructed, Construct, Reinterpret
  <2>2. c.head = h /\ c.ok \in BOOLEAN /\ (c.ok => size = h.size)
    <3>1. CASE size = h.size
      <4>1. c = [ok |-> TRUE, head |-> h]
        BY <2>1, <3>1
      <4>2. c.ok = TRUE /\ c.head = h
        BY <4>1
      <4>3. QED
        BY <3>1, <4>2
    <3>2. CASE size # h.size
      <4>1. c = [ok |-> FALSE, head |-> h]
        BY <2>1, <3>2
      <4>2. QED
        BY <4>1
    <3>3. QED
      BY <3>1, <3>2
  <2>3. QED
    BY <1>2, <2>2, KeptItself
<1>3. CASE ~h.signature
  <2>1. h = Blank
    BY <1>3 DEF Signed
  <2>2. PICK g : g = [Blank EXCEPT !.signature = TRUE, !.size = size]
    OBVIOUS
  <2>3. /\ g \in Header /\ g.signature = TRUE /\ g.size = size /\ g.live = {}
        /\ g.used = 0 /\ g.readOnly = FALSE /\ g.readers = 0 /\ g.stuck = FALSE
    BY <2>2, FreshIs
  <2>4. c = [ok |-> TRUE, head |-> g]
    BY <1>3, <2>2 DEF Constructed, Construct
  <2>5. c.ok = TRUE /\ c.head = g
    BY <2>4
  <2>6. h.size = 0 /\ h.live = {} /\ h.used = 0 /\ h.readOnly = FALSE /\ h.readers = 0
        /\ h.stuck = FALSE
    BY <2>1, BlankIs
  <2>7. Kept(h, g)
    <3>1. g.live = h.live /\ g.used = h.used /\ g.readers = h.readers /\ h.size <= g.size
      BY <2>3, <2>6
    <3>2. g.readOnly = h.readOnly /\ g.stuck = h.stuck
      BY <2>3, <2>6, Zenon
    <3>3. QED
      BY <2>3, <3>1, <3>2, Zenon DEF Kept
  <2>8. QED
    BY <2>3, <2>5, <2>7
<1>4. QED
  BY <1>0, <1>1, <1>2, <1>3

Outcome == [ok : BOOLEAN, io : BOOLEAN, file : DataFile, map : Mapping]

\* What MapTable leaves of a file and of a mapping of it.
Mapped(m, file, size, o) ==
    /\ o \in Outcome
    /\ Kept(file.head, o.file.head)
    /\ o.file.len \in {file.len, size}
    /\ o.file.head.size \in {file.head.size, size}
    /\ \/ /\ o.ok /\ ~o.io /\ o.map.open /\ o.map.size = size /\ o.map.age = m.age + 1
          /\ o.file.len = size /\ o.file.head.size = size /\ o.file.head.signature
       \/ ~o.ok /\ ~o.map.open /\ o.map.size = m.size

LEMMA MapTableIs ==
    ASSUME NEW m \in Mapping, NEW file \in DataFile, NEW size \in Nat,
           Signed(file.head),
           NEW o \in MapTable(m, file, size)
    PROVE  Mapped(m, file, size, o)
<1> DEFINE lost == [m EXCEPT !.open = FALSE, !.age = @ + 1]
           Next1(i) == LET c == Constructed(i.file.head, size)
                       IN IF i.ok
                          THEN [ok |-> c.ok, io |-> i.io, file |-> [i.file EXCEPT !.head = c.head],
                                map |-> IF c.ok THEN [size |-> size, open |-> TRUE, age |-> m.age + 1]
                                        ELSE lost]
                          ELSE [ok |-> FALSE, io |-> i.io, file |-> i.file, map |-> lost]
<1>1. PICK i \in FileMappingInitialize(file, size) : o = Next1(i)
  BY DEF MapTable, Constructed
<1>2. /\ i.ok \in BOOLEAN /\ i.io \in BOOLEAN /\ i.file \in DataFile
      /\ i.file.head = file.head /\ i.file.len \in {file.len, size}
      /\ i.ok => i.file.len = size /\ ~i.io
  <2>1. ASSUME NEW n \in Nat PROVE /\ [file EXCEPT !.len = n] \in DataFile
                                   /\ [file EXCEPT !.len = n].head = file.head
                                   /\ [file EXCEPT !.len = n].len = n
    BY DEF DataFile
  <2>2. file.len \in Nat
    BY DEF DataFile
  <2>3. CASE i = [ok |-> FALSE, io |-> FALSE, file |-> file]
    BY <2>2, <2>3
  <2>4. CASE i = [ok |-> TRUE, io |-> FALSE, file |-> [file EXCEPT !.len = size]]
    BY <2>1, <2>4
  <2>5. CASE i \in {[ok |-> FALSE, io |-> TRUE, file |-> [file EXCEPT !.len = n]] : n \in {file.len, size}}
    <3>1. PICK n \in {file.len, size} :
            i = [ok |-> FALSE, io |-> TRUE, file |-> [file EXCEPT !.len = n]]
      BY <2>5
    <3>2. n \in Nat
      BY <2>2
    <3>3. PICK g : g = [file EXCEPT !.len = n]
      OBVIOUS
    <3>4. g \in DataFile /\ g.head = file.head
      BY <2>1, <3>2, <3>3
    <3>5. i = [ok |-> FALSE, io |-> TRUE, file |-> g]
      BY <3>1, <3>3
    <3>6. g.len = n
      BY <2>1, <3>2, <3>3
    <3>7. i.ok = FALSE /\ i.io = TRUE /\ i.file = g
      BY <3>5
    <3>8. QED
      BY <3>4, <3>6, <3>7
  <2>6. \/ i = [ok |-> FALSE, io |-> FALSE, file |-> file]
        \/ i = [ok |-> TRUE, io |-> FALSE, file |-> [file EXCEPT !.len = size]]
        \/ i \in {[ok |-> FALSE, io |-> TRUE, file |-> [file EXCEPT !.len = n]] : n \in {file.len, size}}
    BY Zenon DEF FileMappingInitialize
  <2>7. QED
    BY <2>3, <2>4, <2>5, <2>6
<1>3. lost \in Mapping /\ ~lost.open /\ lost.size = m.size
  <2>1. m.age + 1 \in Nat
    BY DEF Mapping
  <2>2. PICK n \in Nat : n = m.age + 1
    BY <2>1
  <2>3. lost = [m EXCEPT !.open = FALSE, !.age = n]
    BY <2>2
  <2> HIDE DEF lost
  <2>4. QED
    BY <2>3 DEF Mapping
<1> HIDE DEF lost
<1>4. file.head \in Header /\ Kept(file.head, file.head)
  BY DEF DataFile, Header, Kept
<1>5. CASE ~i.ok
  <2>1. o = [ok |-> FALSE, io |-> i.io, file |-> i.file, map |-> lost]
    BY <1>1, <1>5
  <2>2. o.ok = FALSE /\ o.io = i.io /\ o.file = i.file /\ o.map = lost
    BY <2>1
  <2>3. o.file.head.size = file.head.size
    BY <1>2, <2>2
  <2>4. o \in Outcome
    BY <1>2, <1>3, <2>1 DEF Outcome
  <2>5. Kept(file.head, o.file.head)
    BY <1>2, <1>4, <2>2
  <2>6. QED
    BY <1>2, <1>3, <2>2, <2>3, <2>4, <2>5 DEF Mapped
<1>6. CASE i.ok
  <2>1. PICK c : c = Constructed(file.head, size)
    OBVIOUS
  <2>2. /\ c.ok \in BOOLEAN /\ Kept(file.head, c.head) /\ c.head.signature
        /\ c.ok => c.head.size = size
        /\ c.head.size \in {file.head.size, size}
    BY <1>4, <2>1, ConstructIs
  <2>3. PICK g : g = [i.file EXCEPT !.head = c.head]
    OBVIOUS
  <2>4. g \in DataFile /\ g.head = c.head /\ g.len = i.file.len
    BY <1>2, <2>2, <2>3 DEF DataFile, Kept
  <2>5. o = [ok |-> c.ok, io |-> i.io, file |-> g,
             map |-> IF c.ok THEN [size |-> size, open |-> TRUE, age |-> m.age + 1] ELSE lost]
    BY <1>1, <1>2, <1>6, <2>1, <2>3
  <2>6. CASE c.ok
    <3>1. [size |-> size, open |-> TRUE, age |-> m.age + 1] \in Mapping
      BY DEF Mapping
    <3>2. PICK n \in Mapping : n = [size |-> size, open |-> TRUE, age |-> m.age + 1]
      BY <3>1
    <3>3. n.size = size /\ n.open = TRUE /\ n.age = m.age + 1
      BY <3>2
    <3>4. o = [ok |-> TRUE, io |-> FALSE, file |-> g, map |-> n]
      BY <1>2, <1>6, <2>2, <2>5, <2>6, <3>2
    <3>5. o \in Outcome /\ o.ok = TRUE /\ o.io = FALSE /\ o.file = g /\ o.map = n
      BY <2>4, <3>4 DEF Outcome
    <3>6. g.len = size /\ g.head.size = size /\ g.head.signature /\ Kept(file.head, g.head)
      BY <1>2, <1>6, <2>2, <2>4, <2>6
    <3>7. QED
      BY <3>3, <3>5, <3>6 DEF Mapped
  <2>7. CASE ~c.ok
    <3>1. o = [ok |-> FALSE, io |-> FALSE, file |-> g, map |-> lost]
      BY <1>2, <1>6, <2>2, <2>5, <2>7
    <3>2. o \in Outcome /\ o.ok = FALSE /\ o.io = FALSE /\ o.file = g /\ o.map = lost
      BY <1>3, <2>4, <3>1 DEF Outcome
    <3>3. g.len \in {file.len, size} /\ g.head.size \in {file.head.size, size} /\ Kept(file.head, g.head)
      BY <1>2, <2>2, <2>4
    <3>4. QED
      BY <1>3, <3>2, <3>3 DEF Mapped
  <2>8. QED
    BY <2>2, <2>6, <2>7
<1>7. QED
  BY <1>2, <1>5, <1>6

-----------------------------------------------------------------------------
(* Steps that change one frame.                                            *)

LEMMA NoCallIdle ==
    /\ NoCall \in CallFrame /\ NoCall.pc = "idle" /\ NoCall.stage = 1
    /\ StageOK(NoCall) /\ ~Holds(NoCall) /\ ~InSession(NoCall) /\ ~Alone(NoCall)
    /\ \A f : ~OperatesOn(NoCall, f)
<1>1. NoCall \in CallFrame
  BY DEF NoCall, CallFrame, Locals, PCs, Ops, Errors, Files
<1>2. NoCall.pc = "idle" /\ NoCall.stage = 1
  BY DEF NoCall
<1> HIDE DEF NoCall
<1>3. QED
  BY <1>1, <1>2 DEF StageOK, Holds, InSession, Alone, OperatesOn, MaintainPC, SessionPC, OpenPC

\* What the lock, the stages and the selector demand of the thread that moves.
LEMMA ThreadStep ==
    ASSUME TypeInv, ThreadInv, NEW t \in Thread, NEW c \in CallFrame,
           frame' = [frame EXCEPT ![t] = c],
           spinLock' = spinLock \/ spinLock \in {t, NoThread},
           selector' = selector \/ frame[t].stage = 3,
           StageOK(c), Holds(c) => spinLock' = t, OnActive(c, selector')
    PROVE  /\ frame' \in [Thread -> CallFrame]
           /\ frame'[t] = c
           /\ \A u \in Thread \ {t} : frame'[u] = frame[u]
           /\ ThreadInv'
<1>1. /\ frame \in [Thread -> CallFrame] /\ selector \in Files
  BY DEF TypeInv
<1>2. /\ frame' \in [Thread -> CallFrame]
      /\ frame'[t] = c
      /\ \A u \in Thread \ {t} : frame'[u] = frame[u]
  BY <1>1
<1>3. ASSUME NEW u \in Thread
      PROVE  StageOK(frame[u])' /\ (Holds(frame[u])' => spinLock' = u)
             /\ OnActive(frame'[u], selector')
  <2>1. CASE u = t
    BY <1>2, <2>1 DEF StageOK, Holds
  <2>2. CASE u # t
    <3>1. frame'[u] = frame[u] /\ StageOK(frame[u]) /\ (Holds(frame[u]) => spinLock = u)
          /\ OnActive(frame[u], selector)
      BY <1>2, <2>2 DEF ThreadInv
    <3>2. PICK d : d = frame[u]
      OBVIOUS
    <3>3. Holds(d) => spinLock' = u
      BY <2>2, <3>1, <3>2, ThreadAssumption
    <3>4. OnActive(d, selector')
      <4>1. CASE selector' = selector
        BY <3>1, <3>2, <4>1
      <4>2. CASE frame[t].stage = 3
        <5>1. spinLock = t
          BY <4>2 DEF ThreadInv, Holds
        <5>2. ~Holds(d)
          BY <2>2, <3>1, <3>2, <5>1
        <5>3. QED
          BY <5>2 DEF Holds, OnActive
      <4>3. QED
        BY <4>1, <4>2
    <3>5. StageOK(d)
      BY <3>1, <3>2
    <3>6. frame'[u] = d
      BY <3>1, <3>2
    <3>7. QED
      BY <3>3, <3>4, <3>5, <3>6 DEF StageOK, Holds
  <2>3. QED
    BY <2>1, <2>2
<1>4. ThreadInv'
  BY <1>3 DEF ThreadInv, OnActive
<1>5. QED
  BY <1>2, <1>4

\* A set of threads that differs from another in one thread.
Bit(b) == IF b THEN 1 ELSE 0

LEMMA OneMoreOrLess ==
    ASSUME NEW S, NEW T, NEW x, IsFiniteSet(S), \A y : y # x => (y \in S <=> y \in T)
    PROVE  /\ IsFiniteSet(T)
           /\ Cardinality(S) \in Nat
           /\ Cardinality(T) = Cardinality(S) + Bit(x \in T) - Bit(x \in S)
<1>1. Cardinality(S) \in Nat
  BY FS_CardinalityType
<1>2. CASE x \in S /\ x \in T
  <2>1. T = S
    BY <1>2
  <2>2. QED
    BY <1>1, <1>2, <2>1 DEF Bit
<1>3. CASE x \in S /\ x \notin T
  <2>1. T = S \ {x}
    BY <1>3
  <2>2. QED
    BY <1>1, <1>3, <2>1, FS_RemoveElement DEF Bit
<1>4. CASE x \notin S /\ x \in T
  <2>1. T = S \cup {x}
    BY <1>4
  <2>2. QED
    BY <1>1, <1>4, <2>1, FS_AddElement DEF Bit
<1>5. CASE x \notin S /\ x \notin T
  <2>1. T = S
    BY <1>5
  <2>2. QED
    BY <1>1, <1>5, <2>1 DEF Bit
<1>6. QED
  BY <1>2, <1>3, <1>4, <1>5

LEMMA SetsFinite ==
    /\ IsFiniteSet(Reading) /\ Cardinality(Reading) \in Nat
    /\ \A f : IsFiniteSet(Operating(f)) /\ Cardinality(Operating(f)) \in Nat
<1>1. IsFiniteSet(Thread)
  BY ThreadAssumption
<1>2. Reading \in SUBSET Thread /\ \A f : Operating(f) \in SUBSET Thread
  BY DEF Reading, Operating
<1>3. QED
  BY <1>1, <1>2, FS_Subset, FS_CardinalityType

LEMMA CountStep ==
    ASSUME NEW t \in Thread, NEW c,
           frame'[t] = c, \A u \in Thread \ {t} : frame'[u] = frame[u]
    PROVE  /\ Cardinality(Reading)' = Cardinality(Reading) + Bit(InSession(c)) - Bit(InSession(frame[t]))
           /\ \A f : Cardinality(Operating(f))' = Cardinality(Operating(f))
                       + Bit(OperatesOn(c, f)) - Bit(OperatesOn(frame[t], f))
<1>1. Cardinality(Reading)' = Cardinality(Reading) + Bit(InSession(c)) - Bit(InSession(frame[t]))
  <2>1. PICK R : R = Reading
    OBVIOUS
  <2>2. PICK S : S = Reading'
    OBVIOUS
  <2>3. \A y : y # t => (y \in R <=> y \in S)
    BY <2>1, <2>2 DEF Reading
  <2>4. (t \in R <=> InSession(frame[t])) /\ (t \in S <=> InSession(c))
    BY <2>1, <2>2 DEF Reading
  <2>5. IsFiniteSet(R)
    BY <2>1, SetsFinite
  <2>6. Cardinality(S) = Cardinality(R) + Bit(t \in S) - Bit(t \in R)
    BY <2>3, <2>5, OneMoreOrLess
  <2>7. Cardinality(S) = Cardinality(R) + Bit(InSession(c)) - Bit(InSession(frame[t]))
    BY <2>4, <2>6 DEF Bit
  <2>8. QED
    BY <2>1, <2>2, <2>7
<1>2. ASSUME NEW f
      PROVE  Cardinality(Operating(f))' = Cardinality(Operating(f))
                 + Bit(OperatesOn(c, f)) - Bit(OperatesOn(frame[t], f))
  <2>1. PICK R : R = Operating(f)
    OBVIOUS
  <2>2. PICK S : S = Operating(f)'
    OBVIOUS
  <2>3. \A y : y # t => (y \in R <=> y \in S)
    BY <2>1, <2>2 DEF Operating
  <2>4. (t \in R <=> OperatesOn(frame[t], f)) /\ (t \in S <=> OperatesOn(c, f))
    BY <2>1, <2>2 DEF Operating
  <2>5. IsFiniteSet(R)
    BY <2>1, SetsFinite
  <2>6. Cardinality(S) = Cardinality(R) + Bit(t \in S) - Bit(t \in R)
    BY <2>3, <2>5, OneMoreOrLess
  <2>7. Cardinality(S) = Cardinality(R) + Bit(OperatesOn(c, f)) - Bit(OperatesOn(frame[t], f))
    BY <2>4, <2>6 DEF Bit
  <2>8. QED
    BY <2>1, <2>2, <2>7
<1>3. QED
  BY <1>1, <1>2

\* A step that changes one frame, and neither the files nor what is counted.
LEMMA LocalStep ==
    ASSUME IInv, NEW t \in Thread, NEW c \in CallFrame,
           frame' = [frame EXCEPT ![t] = c],
           UNCHANGED <<disk, map, selector, expected, late, crossed>>,
           sync' \in [state : Nat, readers : Int], sync'.readers = sync.readers,
           status' \in [Process -> {"closed", "opening", "open"}],
           spinLock' \in Thread \cup {NoThread, DeadThread},
           spinLock' = spinLock \/ spinLock \in {t, NoThread},
           StageOK(c), Holds(c) => spinLock' = t, OnActive(c, selector),
           InSession(c) <=> InSession(frame[t]),
           \A f : OperatesOn(c, f) <=> OperatesOn(frame[t], f),
           ~late => /\ Alone(c) => sync.readers = 0
                    /\ SessionTab(c, selector)
                    /\ Roomy(c, ProcessOf[t]) /\ Empty(c) /\ Copied(c)
    PROVE  IInv'
<1>1. TypeInv /\ ThreadInv /\ SignatureInv /\ CountInv /\ KeyInv
  BY DEF IInv
<1>2. disk' = disk /\ map' = map /\ selector' = selector /\ expected' = expected /\ late' = late /\ crossed' = crossed
  OBVIOUS
<1>3. /\ frame' \in [Thread -> CallFrame] /\ frame'[t] = c
      /\ \A u \in Thread \ {t} : frame'[u] = frame[u]
      /\ ThreadInv'
  <2>1. selector' = selector \/ frame[t].stage = 3
    BY <1>2
  <2>2. OnActive(c, selector')
    BY <1>2
  <2>3. QED
    BY <1>1, <2>1, <2>2, ThreadStep
<1>4. TypeInv'
  BY <1>1, <1>2, <1>3 DEF TypeInv
<1>5. SignatureInv'
  BY <1>1, <1>2 DEF SignatureInv, Signed
<1>6. CountInv'
  <2>1. /\ Cardinality(Reading)' = Cardinality(Reading) + Bit(InSession(c)) - Bit(InSession(frame[t]))
        /\ \A f : Cardinality(Operating(f))' = Cardinality(Operating(f))
                    + Bit(OperatesOn(c, f)) - Bit(OperatesOn(frame[t], f))
    BY <1>3, CountStep
  <2>2. Cardinality(Reading) \in Nat /\ \A f : Cardinality(Operating(f)) \in Nat
    BY SetsFinite
  <2>3. Bit(InSession(c)) = Bit(InSession(frame[t])) /\ Bit(InSession(c)) \in {0, 1}
    BY DEF Bit
  <2>4. ASSUME NEW f PROVE Bit(OperatesOn(c, f)) = Bit(OperatesOn(frame[t], f))
                           /\ Bit(OperatesOn(c, f)) \in {0, 1}
    BY DEF Bit
  <2>5. Cardinality(Reading)' = Cardinality(Reading)
    BY <2>1, <2>2, <2>3
  <2>6. ASSUME NEW f PROVE Cardinality(Operating(f))' = Cardinality(Operating(f))
    BY <2>1, <2>2, <2>4
  <2>7. Spare' = Spare
    BY <2>5 DEF Spare
  <2>8. SpareOf(0)' = SpareOf(0) /\ SpareOf(1)' = SpareOf(1)
    BY <1>2, <2>6 DEF SpareOf
  <2>9. QED
    BY <1>1, <1>2, <2>7, <2>8 DEF CountInv
<1>6a. StuckInv'
  BY <1>2, ThreadAssumption DEF IInv, StuckInv
<1>7. KeyInv'
  <2> SUFFICES ASSUME ~late' PROVE Settled'
    BY DEF KeyInv
  <2>1. ~late
    BY <1>2
  <2>2. ASSUME NEW u \in Thread
        PROVE  /\ Alone(frame'[u]) => sync'.readers = 0
               /\ SessionTab(frame'[u], selector')
               /\ Roomy(frame[u], ProcessOf[u])' /\ Empty(frame[u])' /\ Copied(frame[u])'
    <3>1. PICK d : d = frame'[u]
      OBVIOUS
    <3>2. /\ Alone(d) => sync.readers = 0
          /\ SessionTab(d, selector)
          /\ Roomy(d, ProcessOf[u]) /\ Empty(d) /\ Copied(d)
      BY <1>1, <1>3, <2>1, <3>1 DEF KeyInv, Settled
    <3>3. Roomy(frame[u], ProcessOf[u])'
      BY <1>2, <3>1, <3>2 DEF Roomy
    <3>4. Empty(frame[u])'
      BY <1>2, <3>1, <3>2 DEF Empty
    <3>5. Copied(frame[u])'
      BY <1>2, <3>1, <3>2 DEF Copied
    <3>6. QED
      BY <1>2, <3>1, <3>2, <3>3, <3>4, <3>5
  <2>3. (~crossed' => disk'[selector'].head.live = expected') /\ \A f \in Files : Fits(disk[f].head)'
    BY <1>1, <1>2, <2>1 DEF KeyInv, Settled, Fits
  <2>4. QED
    BY <2>2, <2>3 DEF Settled
<1>8. QED
  BY <1>3, <1>4, <1>5, <1>6, <1>6a, <1>7 DEF IInv

-----------------------------------------------------------------------------
(* Actions that change the frame of their thread, and perhaps a lock.      *)

LEMMA OpenSyncInv ==
    ASSUME IInv, NEW t \in Thread, OpenSync(t)
    PROVE  IInv'
<1> DEFINE d == frame[t]
<1>1. /\ d \in CallFrame /\ StageOK(d) /\ (Holds(d) => spinLock = t) /\ OnActive(d, selector)
      /\ ~late => (Alone(d) => sync.readers = 0) /\ SessionTab(d, selector)
  BY DEF IInv, TypeInv, ThreadInv, KeyInv, Settled
<1>2. /\ frame \in [Thread -> CallFrame] /\ sync \in [state : Nat, readers : Int]
      /\ selector \in Files /\ spinLock \in Thread \cup {NoThread, DeadThread}
      /\ status \in [Process -> {"closed", "opening", "open"}] /\ ProcessOf[t] \in Process
  BY ProcessOfAssumption DEF IInv, TypeInv
<1>3. d.pc = "idle"
  BY DEF OpenSync, At
<1>4. PICK c : c = [d EXCEPT !.pc = "openSize", !.tab = 0]
  OBVIOUS
<1>5. /\ frame' = [frame EXCEPT ![t] = c]
      /\ disk' = disk /\ map' = map /\ selector' = selector /\ expected' = expected /\ late' = late /\ crossed' = crossed
      /\ sync' = sync /\ status' \in [Process -> {"closed", "opening", "open"}]
  BY <1>2, <1>4 DEF OpenSync, Goto, At, files, P
<1>6. spinLock' = t /\ spinLock = NoThread
  BY <1>2, <1>3 DEF OpenSync, Goto
<1> HIDE DEF d
<1>7. c \in CallFrame /\ c.pc = "openSize" /\ c.stage = d.stage
  BY <1>1, <1>2, <1>4 DEF CallFrame, Locals, PCs, Ops, Errors, Files, NoCall
<1>8. /\ StageOK(c) /\ (Holds(c) => spinLock' = t) /\ OnActive(c, selector)
      /\ spinLock' = spinLock \/ spinLock \in {t, NoThread}
      /\ spinLock' \in Thread \cup {NoThread, DeadThread}
  BY <1>1, <1>2, <1>3, <1>6, <1>7, ThreadAssumption DEF StageOK, Holds, OnActive, OpenPC, MaintainPC
<1>9. (InSession(c) <=> InSession(d)) /\ \A f : OperatesOn(c, f) <=> OperatesOn(d, f)
  BY <1>1, <1>3, <1>7 DEF InSession, OperatesOn, SessionPC, StageOK, MaintainPC
<1>10. ~late => /\ Alone(c) => sync.readers = 0
                /\ SessionTab(c, selector)
                /\ Roomy(c, ProcessOf[t]) /\ Empty(c) /\ Copied(c)
  BY <1>1, <1>3, <1>7 DEF Alone, SessionTab, Roomy, Empty, Copied, TablePC, StageOK, MaintainPC
<1>11. QED
  BY <1>2, <1>5, <1>7, <1>8, <1>9, <1>10, LocalStep DEF d

LEMMA OpenSizeInv ==
    ASSUME IInv, NEW t \in Thread, OpenSize(t)
    PROVE  IInv'
<1> DEFINE d == frame[t]
<1>1. /\ d \in CallFrame /\ StageOK(d) /\ (Holds(d) => spinLock = t) /\ OnActive(d, selector)
      /\ ~late => (Alone(d) => sync.readers = 0) /\ SessionTab(d, selector)
  BY DEF IInv, TypeInv, ThreadInv, KeyInv, Settled
<1>2. /\ frame \in [Thread -> CallFrame] /\ sync \in [state : Nat, readers : Int]
      /\ selector \in Files /\ spinLock \in Thread \cup {NoThread, DeadThread}
      /\ status \in [Process -> {"closed", "opening", "open"}] /\ ProcessOf[t] \in Process
  BY ProcessOfAssumption DEF IInv, TypeInv
<1>3. d.pc = "openSize"
  BY DEF OpenSize, At
<1>4. PICK c : c = [d EXCEPT !.pc = "openMap", !.seen = disk[d.tab].len]
  OBVIOUS
<1>5. /\ frame' = [frame EXCEPT ![t] = c]
      /\ disk' = disk /\ map' = map /\ selector' = selector /\ expected' = expected /\ late' = late /\ crossed' = crossed
      /\ sync' = sync /\ status' = status
  BY <1>2, <1>4 DEF OpenSize, Goto, At, files, P
<1>6. spinLock' = spinLock
  BY <1>2, <1>3 DEF OpenSize, Goto
<1>6a. disk[d.tab].len \in Nat
  <2>1. d.tab \in Files
    BY <1>1 DEF CallFrame, Locals
  <2>2. QED
    BY <2>1 DEF IInv, TypeInv, DataFile
<1> HIDE DEF d
<1>7. c \in CallFrame /\ c.pc = "openMap" /\ c.stage = d.stage
  BY <1>1, <1>2, <1>4, <1>6a DEF CallFrame, Locals, PCs, Ops, Errors, Files, NoCall
<1>8. /\ StageOK(c) /\ (Holds(c) => spinLock' = t) /\ OnActive(c, selector)
      /\ spinLock' = spinLock \/ spinLock \in {t, NoThread}
      /\ spinLock' \in Thread \cup {NoThread, DeadThread}
  BY <1>1, <1>2, <1>3, <1>6, <1>7, ThreadAssumption DEF StageOK, Holds, OnActive, OpenPC, MaintainPC
<1>9. (InSession(c) <=> InSession(d)) /\ \A f : OperatesOn(c, f) <=> OperatesOn(d, f)
  BY <1>1, <1>3, <1>7 DEF InSession, OperatesOn, SessionPC, StageOK, MaintainPC
<1>10. ~late => /\ Alone(c) => sync.readers = 0
                /\ SessionTab(c, selector)
                /\ Roomy(c, ProcessOf[t]) /\ Empty(c) /\ Copied(c)
  BY <1>1, <1>3, <1>7 DEF Alone, SessionTab, Roomy, Empty, Copied, TablePC, StageOK, MaintainPC
<1>11. QED
  BY <1>2, <1>5, <1>7, <1>8, <1>9, <1>10, LocalStep DEF d

LEMMA OpenUnlockInv ==
    ASSUME IInv, NEW t \in Thread, OpenUnlock(t)
    PROVE  IInv'
<1> DEFINE d == frame[t]
<1>1. /\ d \in CallFrame /\ StageOK(d) /\ (Holds(d) => spinLock = t) /\ OnActive(d, selector)
      /\ ~late => (Alone(d) => sync.readers = 0) /\ SessionTab(d, selector)
  BY DEF IInv, TypeInv, ThreadInv, KeyInv, Settled
<1>2. /\ frame \in [Thread -> CallFrame] /\ sync \in [state : Nat, readers : Int]
      /\ selector \in Files /\ spinLock \in Thread \cup {NoThread, DeadThread}
      /\ status \in [Process -> {"closed", "opening", "open"}] /\ ProcessOf[t] \in Process
  BY ProcessOfAssumption DEF IInv, TypeInv
<1>3. d.pc = "openUnlock"
  BY DEF OpenUnlock, At
<1>4. PICK c : c = NoCall
  OBVIOUS
<1>5. /\ frame' = [frame EXCEPT ![t] = c]
      /\ disk' = disk /\ map' = map /\ selector' = selector /\ expected' = expected /\ late' = late /\ crossed' = crossed
      /\ sync' = sync /\ status' \in [Process -> {"closed", "opening", "open"}]
  BY <1>2, <1>4 DEF OpenUnlock, Goto, At, files, P
<1>6. spinLock' = NoThread
  BY <1>2, <1>3 DEF OpenUnlock, Goto
<1> HIDE DEF d
<1>7. c \in CallFrame /\ c.pc = "idle" /\ c.stage = 1
  BY <1>1, <1>2, <1>4 DEF CallFrame, Locals, PCs, Ops, Errors, Files, NoCall
<1>8. /\ StageOK(c) /\ (Holds(c) => spinLock' = t) /\ OnActive(c, selector)
      /\ spinLock' = spinLock \/ spinLock \in {t, NoThread}
      /\ spinLock' \in Thread \cup {NoThread, DeadThread}
  BY <1>1, <1>2, <1>3, <1>6, <1>7, ThreadAssumption DEF StageOK, Holds, OnActive, OpenPC, MaintainPC
<1>9. (InSession(c) <=> InSession(d)) /\ \A f : OperatesOn(c, f) <=> OperatesOn(d, f)
  BY <1>1, <1>3, <1>7 DEF InSession, OperatesOn, SessionPC, StageOK, MaintainPC
<1>10. ~late => /\ Alone(c) => sync.readers = 0
                /\ SessionTab(c, selector)
                /\ Roomy(c, ProcessOf[t]) /\ Empty(c) /\ Copied(c)
  BY <1>1, <1>3, <1>7 DEF Alone, SessionTab, Roomy, Empty, Copied, TablePC, StageOK, MaintainPC
<1>11. QED
  BY <1>2, <1>5, <1>7, <1>8, <1>9, <1>10, LocalStep DEF d

LEMMA BeginInv ==
    ASSUME IInv, NEW t \in Thread, NEW o \in Ops, NEW k \in Key \cup {AnyKey}, o = "Set" => k \in Key, Begin(t, o, k)
    PROVE  IInv'
<1> DEFINE d == frame[t]
<1>1. /\ d \in CallFrame /\ StageOK(d) /\ (Holds(d) => spinLock = t) /\ OnActive(d, selector)
      /\ ~late => (Alone(d) => sync.readers = 0) /\ SessionTab(d, selector)
  BY DEF IInv, TypeInv, ThreadInv, KeyInv, Settled
<1>2. /\ frame \in [Thread -> CallFrame] /\ sync \in [state : Nat, readers : Int]
      /\ selector \in Files /\ spinLock \in Thread \cup {NoThread, DeadThread}
      /\ status \in [Process -> {"closed", "opening", "open"}] /\ ProcessOf[t] \in Process
  BY ProcessOfAssumption DEF IInv, TypeInv
<1>3. d.pc = "idle"
  BY DEF Begin, At
<1>4. PICK c : c = [NoCall EXCEPT !.pc = "load", !.op = o, !.key = k]
  OBVIOUS
<1>5. /\ frame' = [frame EXCEPT ![t] = c]
      /\ disk' = disk /\ map' = map /\ selector' = selector /\ expected' = expected /\ late' = late /\ crossed' = crossed
      /\ sync' = sync /\ status' = status
  BY <1>2, <1>4 DEF Begin, Goto, At, files, P
<1>6. spinLock' = spinLock
  BY <1>2, <1>3 DEF Begin, Goto
<1>6a. 1 \in 1 .. 4 /\ 2 \in 1 .. 4 /\ 3 \in 1 .. 4 /\ 4 \in 1 .. 4 /\ 0 \in Nat
  OBVIOUS
<1> HIDE DEF d
<1>7. c \in CallFrame /\ c.pc = "load" /\ c.stage = 1
  BY <1>1, <1>2, <1>4, <1>6a DEF CallFrame, Locals, PCs, Ops, Errors, Files, NoCall
<1>8. /\ StageOK(c) /\ (Holds(c) => spinLock' = t) /\ OnActive(c, selector)
      /\ spinLock' = spinLock \/ spinLock \in {t, NoThread}
      /\ spinLock' \in Thread \cup {NoThread, DeadThread}
  BY <1>1, <1>2, <1>3, <1>6, <1>7, ThreadAssumption DEF StageOK, Holds, OnActive, OpenPC, MaintainPC
<1>9. (InSession(c) <=> InSession(d)) /\ \A f : OperatesOn(c, f) <=> OperatesOn(d, f)
  BY <1>1, <1>3, <1>7 DEF InSession, OperatesOn, SessionPC, StageOK, MaintainPC
<1>10. ~late => /\ Alone(c) => sync.readers = 0
                /\ SessionTab(c, selector)
                /\ Roomy(c, ProcessOf[t]) /\ Empty(c) /\ Copied(c)
  BY <1>1, <1>3, <1>7 DEF Alone, SessionTab, Roomy, Empty, Copied, TablePC, StageOK, MaintainPC
<1>11. QED
  BY <1>2, <1>5, <1>7, <1>8, <1>9, <1>10, LocalStep DEF d

LEMMA LoadStateInv ==
    ASSUME IInv, NEW t \in Thread, LoadState(t)
    PROVE  IInv'
<1> DEFINE d == frame[t]
<1>1. /\ d \in CallFrame /\ StageOK(d) /\ (Holds(d) => spinLock = t) /\ OnActive(d, selector)
      /\ ~late => (Alone(d) => sync.readers = 0) /\ SessionTab(d, selector)
  BY DEF IInv, TypeInv, ThreadInv, KeyInv, Settled
<1>2. /\ frame \in [Thread -> CallFrame] /\ sync \in [state : Nat, readers : Int]
      /\ selector \in Files /\ spinLock \in Thread \cup {NoThread, DeadThread}
      /\ status \in [Process -> {"closed", "opening", "open"}] /\ ProcessOf[t] \in Process
  BY ProcessOfAssumption DEF IInv, TypeInv
<1>3. d.pc = "load"
  BY DEF LoadState, At
<1>4. PICK c : c = [d EXCEPT !.pc = "enter"]
  OBVIOUS
<1>5. /\ frame' = [frame EXCEPT ![t] = c]
      /\ disk' = disk /\ map' = map /\ selector' = selector /\ expected' = expected /\ late' = late /\ crossed' = crossed
      /\ sync' = sync /\ status' = status
  BY <1>2, <1>4 DEF LoadState, Goto, At, files, P
<1>6. spinLock' = spinLock
  BY <1>2, <1>3 DEF LoadState, Goto
<1> HIDE DEF d
<1>7. c \in CallFrame /\ c.pc = "enter" /\ c.stage = d.stage /\ c.tab = d.tab
  BY <1>1, <1>2, <1>4 DEF CallFrame, Locals, PCs, Ops, Errors, Files, NoCall
<1>8. /\ StageOK(c) /\ (Holds(c) => spinLock' = t) /\ OnActive(c, selector)
      /\ spinLock' = spinLock \/ spinLock \in {t, NoThread}
      /\ spinLock' \in Thread \cup {NoThread, DeadThread}
  BY <1>1, <1>2, <1>3, <1>6, <1>7, ThreadAssumption DEF StageOK, Holds, OnActive, OpenPC, MaintainPC
<1>9. (InSession(c) <=> InSession(d)) /\ \A f : OperatesOn(c, f) <=> OperatesOn(d, f)
  BY <1>1, <1>3, <1>7 DEF InSession, OperatesOn, SessionPC, StageOK, MaintainPC
<1>10. ~late => /\ Alone(c) => sync.readers = 0
                /\ SessionTab(c, selector)
                /\ Roomy(c, ProcessOf[t]) /\ Empty(c) /\ Copied(c)
  BY <1>1, <1>3, <1>7 DEF Alone, SessionTab, Roomy, Empty, Copied, TablePC, StageOK, MaintainPC
<1>11. QED
  BY <1>2, <1>5, <1>7, <1>8, <1>9, <1>10, LocalStep DEF d

LEMMA RelockInv ==
    ASSUME IInv, NEW t \in Thread, Relock(t)
    PROVE  IInv'
<1> DEFINE d == frame[t]
<1>1. /\ d \in CallFrame /\ StageOK(d) /\ (Holds(d) => spinLock = t) /\ OnActive(d, selector)
      /\ ~late => (Alone(d) => sync.readers = 0) /\ SessionTab(d, selector)
  BY DEF IInv, TypeInv, ThreadInv, KeyInv, Settled
<1>2. /\ frame \in [Thread -> CallFrame] /\ sync \in [state : Nat, readers : Int]
      /\ selector \in Files /\ spinLock \in Thread \cup {NoThread, DeadThread}
      /\ status \in [Process -> {"closed", "opening", "open"}] /\ ProcessOf[t] \in Process
  BY ProcessOfAssumption DEF IInv, TypeInv
<1>3. d.pc = "relock"
  BY DEF Relock, At
<1>4. PICK c : c = [d EXCEPT !.pc = "recheck"]
  OBVIOUS
<1>5. /\ frame' = [frame EXCEPT ![t] = c]
      /\ disk' = disk /\ map' = map /\ selector' = selector /\ expected' = expected /\ late' = late /\ crossed' = crossed
      /\ sync' = sync /\ status' = status
  BY <1>2, <1>4 DEF Relock, Goto, At, files, P
<1>6. spinLock' = t /\ spinLock = NoThread
  BY <1>2, <1>3 DEF Relock, Goto
<1> HIDE DEF d
<1>7. c \in CallFrame /\ c.pc = "recheck" /\ c.stage = d.stage /\ c.tab = d.tab
  BY <1>1, <1>2, <1>4 DEF CallFrame, Locals, PCs, Ops, Errors, Files, NoCall
<1>8. /\ StageOK(c) /\ (Holds(c) => spinLock' = t) /\ OnActive(c, selector)
      /\ spinLock' = spinLock \/ spinLock \in {t, NoThread}
      /\ spinLock' \in Thread \cup {NoThread, DeadThread}
  BY <1>1, <1>2, <1>3, <1>6, <1>7, ThreadAssumption DEF StageOK, Holds, OnActive, OpenPC, MaintainPC
<1>9. (InSession(c) <=> InSession(d)) /\ \A f : OperatesOn(c, f) <=> OperatesOn(d, f)
  BY <1>1, <1>3, <1>7 DEF InSession, OperatesOn, SessionPC, StageOK, MaintainPC
<1>10. ~late => /\ Alone(c) => sync.readers = 0
                /\ SessionTab(c, selector)
                /\ Roomy(c, ProcessOf[t]) /\ Empty(c) /\ Copied(c)
  BY <1>1, <1>3, <1>7 DEF Alone, SessionTab, Roomy, Empty, Copied, TablePC, StageOK, MaintainPC
<1>11. QED
  BY <1>2, <1>5, <1>7, <1>8, <1>9, <1>10, LocalStep DEF d

LEMMA LockForSetInv ==
    ASSUME IInv, NEW t \in Thread, LockForSet(t)
    PROVE  IInv'
<1> DEFINE d == frame[t]
<1>1. /\ d \in CallFrame /\ StageOK(d) /\ (Holds(d) => spinLock = t) /\ OnActive(d, selector)
      /\ ~late => (Alone(d) => sync.readers = 0) /\ SessionTab(d, selector)
  BY DEF IInv, TypeInv, ThreadInv, KeyInv, Settled
<1>2. /\ frame \in [Thread -> CallFrame] /\ sync \in [state : Nat, readers : Int]
      /\ selector \in Files /\ spinLock \in Thread \cup {NoThread, DeadThread}
      /\ status \in [Process -> {"closed", "opening", "open"}] /\ ProcessOf[t] \in Process
  BY ProcessOfAssumption DEF IInv, TypeInv
<1>3. d.pc = "lock"
  BY DEF LockForSet, At
<1>4. PICK c : c = [d EXCEPT !.pc = "load", !.stage = 2]
  OBVIOUS
<1>5. /\ frame' = [frame EXCEPT ![t] = c]
      /\ disk' = disk /\ map' = map /\ selector' = selector /\ expected' = expected /\ late' = late /\ crossed' = crossed
      /\ sync' = sync /\ status' = status
  BY <1>2, <1>4 DEF LockForSet, Goto, At, files, P
<1>6. spinLock' = t /\ spinLock = NoThread
  BY <1>2, <1>3 DEF LockForSet, Goto
<1>6a. 1 \in 1 .. 4 /\ 2 \in 1 .. 4 /\ 3 \in 1 .. 4 /\ 4 \in 1 .. 4 /\ 0 \in Nat
  OBVIOUS
<1> HIDE DEF d
<1>7. c \in CallFrame /\ c.pc = "load" /\ c.stage = 2
  BY <1>1, <1>2, <1>4, <1>6a DEF CallFrame, Locals, PCs, Ops, Errors, Files, NoCall
<1>8. /\ StageOK(c) /\ (Holds(c) => spinLock' = t) /\ OnActive(c, selector)
      /\ spinLock' = spinLock \/ spinLock \in {t, NoThread}
      /\ spinLock' \in Thread \cup {NoThread, DeadThread}
  BY <1>1, <1>2, <1>3, <1>6, <1>7, ThreadAssumption DEF StageOK, Holds, OnActive, OpenPC, MaintainPC
<1>9. (InSession(c) <=> InSession(d)) /\ \A f : OperatesOn(c, f) <=> OperatesOn(d, f)
  BY <1>1, <1>3, <1>7 DEF InSession, OperatesOn, SessionPC, StageOK, MaintainPC
<1>10. ~late => /\ Alone(c) => sync.readers = 0
                /\ SessionTab(c, selector)
                /\ Roomy(c, ProcessOf[t]) /\ Empty(c) /\ Copied(c)
  BY <1>1, <1>3, <1>7 DEF Alone, SessionTab, Roomy, Empty, Copied, TablePC, StageOK, MaintainPC
<1>11. QED
  BY <1>2, <1>5, <1>7, <1>8, <1>9, <1>10, LocalStep DEF d

LEMMA BeginWriteInv ==
    ASSUME IInv, NEW t \in Thread, BeginWrite(t)
    PROVE  IInv'
<1> DEFINE d == frame[t]
<1>1. /\ d \in CallFrame /\ StageOK(d) /\ (Holds(d) => spinLock = t) /\ OnActive(d, selector)
      /\ ~late => (Alone(d) => sync.readers = 0) /\ SessionTab(d, selector)
  BY DEF IInv, TypeInv, ThreadInv, KeyInv, Settled
<1>2. /\ frame \in [Thread -> CallFrame] /\ sync \in [state : Nat, readers : Int]
      /\ selector \in Files /\ spinLock \in Thread \cup {NoThread, DeadThread}
      /\ status \in [Process -> {"closed", "opening", "open"}] /\ ProcessOf[t] \in Process
  BY ProcessOfAssumption DEF IInv, TypeInv
<1>3. d.pc = "beginWrite"
  BY DEF BeginWrite, At
<1>4. PICK c : c = [d EXCEPT !.pc = "wait", !.stage = 3]
  OBVIOUS
<1>5. /\ frame' = [frame EXCEPT ![t] = c]
      /\ disk' = disk /\ map' = map /\ selector' = selector /\ expected' = expected /\ late' = late /\ crossed' = crossed
      /\ sync' = [sync EXCEPT !.state = @ + 1] /\ status' = status
  BY <1>2, <1>4 DEF BeginWrite, Goto, At, files, P
<1>6. spinLock' = spinLock
  BY <1>2, <1>3 DEF BeginWrite, Goto
<1>6a. 1 \in 1 .. 4 /\ 2 \in 1 .. 4 /\ 3 \in 1 .. 4 /\ 4 \in 1 .. 4 /\ 0 \in Nat
  OBVIOUS
<1> HIDE DEF d
<1>7. c \in CallFrame /\ c.pc = "wait" /\ c.stage = 3 /\ c.tab = d.tab
  BY <1>1, <1>2, <1>4, <1>6a DEF CallFrame, Locals, PCs, Ops, Errors, Files, NoCall
<1>8. /\ StageOK(c) /\ (Holds(c) => spinLock' = t) /\ OnActive(c, selector)
      /\ spinLock' = spinLock \/ spinLock \in {t, NoThread}
      /\ spinLock' \in Thread \cup {NoThread, DeadThread}
  BY <1>1, <1>2, <1>3, <1>6, <1>7, ThreadAssumption DEF StageOK, Holds, OnActive, OpenPC, MaintainPC
<1>9. (InSession(c) <=> InSession(d)) /\ \A f : OperatesOn(c, f) <=> OperatesOn(d, f)
  BY <1>1, <1>3, <1>7 DEF InSession, OperatesOn, SessionPC, StageOK, MaintainPC
<1>10. ~late => /\ Alone(c) => sync.readers = 0
                /\ SessionTab(c, selector)
                /\ Roomy(c, ProcessOf[t]) /\ Empty(c) /\ Copied(c)
  BY <1>1, <1>3, <1>7 DEF Alone, SessionTab, Roomy, Empty, Copied, TablePC, StageOK, MaintainPC
<1>10a. sync' \in [state : Nat, readers : Int] /\ sync'.readers = sync.readers
  BY <1>2, <1>5
<1>11. QED
  BY <1>2, <1>5, <1>10a, <1>7, <1>8, <1>9, <1>10, LocalStep DEF d

LEMMA WaitForNoReaderInv ==
    ASSUME IInv, NEW t \in Thread, WaitForNoReader(t)
    PROVE  IInv'
<1> DEFINE d == frame[t]
<1>1. /\ d \in CallFrame /\ StageOK(d) /\ (Holds(d) => spinLock = t) /\ OnActive(d, selector)
      /\ ~late => (Alone(d) => sync.readers = 0) /\ SessionTab(d, selector)
  BY DEF IInv, TypeInv, ThreadInv, KeyInv, Settled
<1>2. /\ frame \in [Thread -> CallFrame] /\ sync \in [state : Nat, readers : Int]
      /\ selector \in Files /\ spinLock \in Thread \cup {NoThread, DeadThread}
      /\ status \in [Process -> {"closed", "opening", "open"}] /\ ProcessOf[t] \in Process
  BY ProcessOfAssumption DEF IInv, TypeInv
<1>3. d.pc = "wait" /\ sync.readers = 0
  BY DEF WaitForNoReader, At
<1>4. PICK c : c = [d EXCEPT !.pc = "active"]
  OBVIOUS
<1>5. /\ frame' = [frame EXCEPT ![t] = c]
      /\ disk' = disk /\ map' = map /\ selector' = selector /\ expected' = expected /\ late' = late /\ crossed' = crossed
      /\ sync' = sync /\ status' = status
  BY <1>2, <1>4 DEF WaitForNoReader, Goto, At, files, P
<1>6. spinLock' = spinLock
  BY <1>2, <1>3 DEF WaitForNoReader, Goto
<1> HIDE DEF d
<1>7. c \in CallFrame /\ c.pc = "active" /\ c.stage = d.stage /\ c.tab = d.tab
  BY <1>1, <1>2, <1>4 DEF CallFrame, Locals, PCs, Ops, Errors, Files, NoCall
<1>8. /\ StageOK(c) /\ (Holds(c) => spinLock' = t) /\ OnActive(c, selector)
      /\ spinLock' = spinLock \/ spinLock \in {t, NoThread}
      /\ spinLock' \in Thread \cup {NoThread, DeadThread}
  BY <1>1, <1>2, <1>3, <1>6, <1>7, ThreadAssumption DEF StageOK, Holds, OnActive, OpenPC, MaintainPC
<1>9. (InSession(c) <=> InSession(d)) /\ \A f : OperatesOn(c, f) <=> OperatesOn(d, f)
  BY <1>1, <1>3, <1>7 DEF InSession, OperatesOn, SessionPC, StageOK, MaintainPC
<1>10. ~late => /\ Alone(c) => sync.readers = 0
                /\ SessionTab(c, selector)
                /\ Roomy(c, ProcessOf[t]) /\ Empty(c) /\ Copied(c)
  BY <1>1, <1>3, <1>7 DEF Alone, SessionTab, Roomy, Empty, Copied, TablePC, StageOK, MaintainPC
<1>11. QED
  BY <1>2, <1>5, <1>7, <1>8, <1>9, <1>10, LocalStep DEF d

LEMMA EndWriteInv ==
    ASSUME IInv, NEW t \in Thread, EndWrite(t)
    PROVE  IInv'
<1> DEFINE d == frame[t]
<1>1. /\ d \in CallFrame /\ StageOK(d) /\ (Holds(d) => spinLock = t) /\ OnActive(d, selector)
      /\ ~late => (Alone(d) => sync.readers = 0) /\ SessionTab(d, selector)
  BY DEF IInv, TypeInv, ThreadInv, KeyInv, Settled
<1>2. /\ frame \in [Thread -> CallFrame] /\ sync \in [state : Nat, readers : Int]
      /\ selector \in Files /\ spinLock \in Thread \cup {NoThread, DeadThread}
      /\ status \in [Process -> {"closed", "opening", "open"}] /\ ProcessOf[t] \in Process
  BY ProcessOfAssumption DEF IInv, TypeInv
<1>3. d.pc = "endWrite"
  BY DEF EndWrite, At
<1>4. PICK c : c = [d EXCEPT !.pc = "load", !.stage = 4, !.tab = 0, !.age = 0]
  OBVIOUS
<1>5. /\ frame' = [frame EXCEPT ![t] = c]
      /\ disk' = disk /\ map' = map /\ selector' = selector /\ expected' = expected /\ late' = late /\ crossed' = crossed
      /\ sync' = [sync EXCEPT !.state = @ + 1] /\ status' = status
  BY <1>2, <1>4 DEF EndWrite, Goto, At, files, P
<1>6. spinLock' = spinLock
  BY <1>2, <1>3 DEF EndWrite, Goto
<1>6a. 1 \in 1 .. 4 /\ 2 \in 1 .. 4 /\ 3 \in 1 .. 4 /\ 4 \in 1 .. 4 /\ 0 \in Nat
  OBVIOUS
<1> HIDE DEF d
<1>7. c \in CallFrame /\ c.pc = "load" /\ c.stage = 4
  BY <1>1, <1>2, <1>4, <1>6a DEF CallFrame, Locals, PCs, Ops, Errors, Files, NoCall
<1>8. /\ StageOK(c) /\ (Holds(c) => spinLock' = t) /\ OnActive(c, selector)
      /\ spinLock' = spinLock \/ spinLock \in {t, NoThread}
      /\ spinLock' \in Thread \cup {NoThread, DeadThread}
  BY <1>1, <1>2, <1>3, <1>6, <1>7, ThreadAssumption DEF StageOK, Holds, OnActive, OpenPC, MaintainPC
<1>9. (InSession(c) <=> InSession(d)) /\ \A f : OperatesOn(c, f) <=> OperatesOn(d, f)
  BY <1>1, <1>3, <1>7 DEF InSession, OperatesOn, SessionPC, StageOK, MaintainPC
<1>10. ~late => /\ Alone(c) => sync.readers = 0
                /\ SessionTab(c, selector)
                /\ Roomy(c, ProcessOf[t]) /\ Empty(c) /\ Copied(c)
  BY <1>1, <1>3, <1>7 DEF Alone, SessionTab, Roomy, Empty, Copied, TablePC, StageOK, MaintainPC
<1>10a. sync' \in [state : Nat, readers : Int] /\ sync'.readers = sync.readers
  BY <1>2, <1>5
<1>11. QED
  BY <1>2, <1>5, <1>10a, <1>7, <1>8, <1>9, <1>10, LocalStep DEF d

LEMMA ReleaseInv ==
    ASSUME IInv, NEW t \in Thread, Release(t)
    PROVE  IInv'
<1> DEFINE d == frame[t]
<1>1. /\ d \in CallFrame /\ StageOK(d) /\ (Holds(d) => spinLock = t) /\ OnActive(d, selector)
      /\ ~late => (Alone(d) => sync.readers = 0) /\ SessionTab(d, selector)
  BY DEF IInv, TypeInv, ThreadInv, KeyInv, Settled
<1>2. /\ frame \in [Thread -> CallFrame] /\ sync \in [state : Nat, readers : Int]
      /\ selector \in Files /\ spinLock \in Thread \cup {NoThread, DeadThread}
      /\ status \in [Process -> {"closed", "opening", "open"}] /\ ProcessOf[t] \in Process
  BY ProcessOfAssumption DEF IInv, TypeInv
<1>3. d.pc = "release"
  BY DEF Release, At
<1>4. PICK c : c = NoCall
  OBVIOUS
<1>5. /\ frame' = [frame EXCEPT ![t] = c]
      /\ disk' = disk /\ map' = map /\ selector' = selector /\ expected' = expected /\ late' = late /\ crossed' = crossed
      /\ sync' = sync /\ status' = status
  BY <1>2, <1>4 DEF Release, Goto, At, files, P
<1>6. spinLock' = NoThread
  BY <1>2, <1>3 DEF Release, Goto
<1> HIDE DEF d
<1>7. c \in CallFrame /\ c.pc = "idle" /\ c.stage = 1
  BY <1>1, <1>2, <1>4 DEF CallFrame, Locals, PCs, Ops, Errors, Files, NoCall
<1>8. /\ StageOK(c) /\ (Holds(c) => spinLock' = t) /\ OnActive(c, selector)
      /\ spinLock' = spinLock \/ spinLock \in {t, NoThread}
      /\ spinLock' \in Thread \cup {NoThread, DeadThread}
  BY <1>1, <1>2, <1>3, <1>6, <1>7, ThreadAssumption DEF StageOK, Holds, OnActive, OpenPC, MaintainPC
<1>9. (InSession(c) <=> InSession(d)) /\ \A f : OperatesOn(c, f) <=> OperatesOn(d, f)
  BY <1>1, <1>3, <1>7 DEF InSession, OperatesOn, SessionPC, StageOK, MaintainPC
<1>10. ~late => /\ Alone(c) => sync.readers = 0
                /\ SessionTab(c, selector)
                /\ Roomy(c, ProcessOf[t]) /\ Empty(c) /\ Copied(c)
  BY <1>1, <1>3, <1>7 DEF Alone, SessionTab, Roomy, Empty, Copied, TablePC, StageOK, MaintainPC
<1>11. QED
  BY <1>2, <1>5, <1>7, <1>8, <1>9, <1>10, LocalStep DEF d

LEMMA PlanInv ==
    ASSUME IInv, NEW t \in Thread, Plan(t)
    PROVE  IInv'
<1> DEFINE d == frame[t]
<1>1. /\ d \in CallFrame /\ StageOK(d) /\ (Holds(d) => spinLock = t) /\ OnActive(d, selector)
      /\ ~late => (Alone(d) => sync.readers = 0) /\ SessionTab(d, selector)
  BY DEF IInv, TypeInv, ThreadInv, KeyInv, Settled
<1>2. /\ frame \in [Thread -> CallFrame] /\ sync \in [state : Nat, readers : Int]
      /\ selector \in Files /\ spinLock \in Thread \cup {NoThread, DeadThread}
      /\ status \in [Process -> {"closed", "opening", "open"}] /\ ProcessOf[t] \in Process
  BY ProcessOfAssumption DEF IInv, TypeInv
<1>3. d.pc = "plan"
  BY DEF Plan, At, Head
<1>4. PICK c : c = [d EXCEPT !.pc = IF disk[d.tab].head.size \div 2 <= disk[d.tab].head.wasted THEN "extend" ELSE "grow"]
  OBVIOUS
<1>5. /\ frame' = [frame EXCEPT ![t] = c]
      /\ disk' = disk /\ map' = map /\ selector' = selector /\ expected' = expected /\ late' = late /\ crossed' = crossed
      /\ sync' = sync /\ status' = status
  BY <1>2, <1>4 DEF Plan, Goto, At, files, P, Head
<1>6. spinLock' = spinLock
  BY <1>2, <1>3 DEF Plan, Goto, Head
<1> HIDE DEF d
<1>7. c \in CallFrame /\ c.pc \in {"extend", "grow"} /\ c.stage = d.stage /\ c.tab = d.tab
  BY <1>1, <1>2, <1>4 DEF CallFrame, Locals, PCs, Ops, Errors, Files, NoCall
<1>8. /\ StageOK(c) /\ (Holds(c) => spinLock' = t) /\ OnActive(c, selector)
      /\ spinLock' = spinLock \/ spinLock \in {t, NoThread}
      /\ spinLock' \in Thread \cup {NoThread, DeadThread}
  BY <1>1, <1>2, <1>3, <1>6, <1>7, ThreadAssumption DEF StageOK, Holds, OnActive, OpenPC, MaintainPC
<1>9. (InSession(c) <=> InSession(d)) /\ \A f : OperatesOn(c, f) <=> OperatesOn(d, f)
  BY <1>1, <1>3, <1>7 DEF InSession, OperatesOn, SessionPC, StageOK, MaintainPC
<1>10. ~late => /\ Alone(c) => sync.readers = 0
                /\ SessionTab(c, selector)
                /\ Roomy(c, ProcessOf[t]) /\ Empty(c) /\ Copied(c)
  BY <1>1, <1>3, <1>7 DEF Alone, SessionTab, Roomy, Empty, Copied, TablePC, StageOK, MaintainPC
<1>11. QED
  BY <1>2, <1>5, <1>7, <1>8, <1>9, <1>10, LocalStep DEF d

LEMMA TestReadOnlyInv ==
    ASSUME IInv, NEW t \in Thread, TestReadOnly(t)
    PROVE  IInv'
<1> DEFINE d == frame[t]
<1>1. /\ d \in CallFrame /\ StageOK(d) /\ (Holds(d) => spinLock = t) /\ OnActive(d, selector)
      /\ ~late => (Alone(d) => sync.readers = 0) /\ SessionTab(d, selector)
  BY DEF IInv, TypeInv, ThreadInv, KeyInv, Settled
<1>2. /\ frame \in [Thread -> CallFrame] /\ sync \in [state : Nat, readers : Int]
      /\ selector \in Files /\ spinLock \in Thread \cup {NoThread, DeadThread}
      /\ status \in [Process -> {"closed", "opening", "open"}] /\ ProcessOf[t] \in Process
  BY ProcessOfAssumption DEF IInv, TypeInv
<1>3. d.pc = "test"
  BY DEF TestReadOnly, At, Head
<1>4. PICK c : c = IF d.op # "Read" /\ disk[d.tab].head.readOnly THEN [d EXCEPT !.err = "ACCESS_DENIED", !.pc = "leave"] ELSE [d EXCEPT !.err = "NO", !.pc = "begin"]
  OBVIOUS
<1>5. /\ frame' = [frame EXCEPT ![t] = c]
      /\ disk' = disk /\ map' = map /\ selector' = selector /\ expected' = expected /\ late' = late /\ crossed' = crossed
      /\ sync' = sync /\ status' = status
  BY <1>2, <1>4 DEF TestReadOnly, Goto, At, files, P, Head
<1>6. spinLock' = spinLock
  BY <1>2, <1>3 DEF TestReadOnly, Goto, Head
<1> HIDE DEF d
<1>7. c \in CallFrame /\ c.pc \in {"leave", "begin"} /\ c.stage = d.stage /\ c.tab = d.tab
  BY <1>1, <1>2, <1>4 DEF CallFrame, Locals, PCs, Ops, Errors, Files, NoCall
<1>8. /\ StageOK(c) /\ (Holds(c) => spinLock' = t) /\ OnActive(c, selector)
      /\ spinLock' = spinLock \/ spinLock \in {t, NoThread}
      /\ spinLock' \in Thread \cup {NoThread, DeadThread}
  BY <1>1, <1>2, <1>3, <1>6, <1>7, ThreadAssumption DEF StageOK, Holds, OnActive, OpenPC, MaintainPC
<1>9. (InSession(c) <=> InSession(d)) /\ \A f : OperatesOn(c, f) <=> OperatesOn(d, f)
  BY <1>1, <1>3, <1>7 DEF InSession, OperatesOn, SessionPC, StageOK, MaintainPC
<1>10. ~late => /\ Alone(c) => sync.readers = 0
                /\ SessionTab(c, selector)
                /\ Roomy(c, ProcessOf[t]) /\ Empty(c) /\ Copied(c)
  BY <1>1, <1>3, <1>7 DEF Alone, SessionTab, Roomy, Empty, Copied, TablePC, StageOK, MaintainPC
<1>11. QED
  BY <1>2, <1>5, <1>7, <1>8, <1>9, <1>10, LocalStep DEF d

LEMMA ActiveTableInv ==
    ASSUME IInv, NEW t \in Thread, ActiveTable(t)
    PROVE  IInv'
<1> DEFINE d == frame[t]
<1>1. /\ d \in CallFrame /\ StageOK(d) /\ (Holds(d) => spinLock = t) /\ OnActive(d, selector)
      /\ ~late => (Alone(d) => sync.readers = 0) /\ SessionTab(d, selector)
  BY DEF IInv, TypeInv, ThreadInv, KeyInv, Settled
<1>2. /\ frame \in [Thread -> CallFrame] /\ sync \in [state : Nat, readers : Int]
      /\ selector \in Files /\ spinLock \in Thread \cup {NoThread, DeadThread}
      /\ status \in [Process -> {"closed", "opening", "open"}] /\ ProcessOf[t] \in Process
  BY ProcessOfAssumption DEF IInv, TypeInv
<1>3. d.pc = "active"
  BY DEF ActiveTable, At
<1>4. PICK c : c = [d EXCEPT !.tab = selector, !.age = map[P(t)][selector].age, !.pc = IF ~map[P(t)][selector].open THEN "lost" ELSE IF Outgrown(P(t), selector) THEN "relock" ELSE AfterActive(t)]
  OBVIOUS
<1>5. /\ frame' = [frame EXCEPT ![t] = c]
      /\ disk' = disk /\ map' = map /\ selector' = selector /\ expected' = expected /\ late' = late /\ crossed' = crossed
      /\ sync' = sync /\ status' = status
  BY <1>2, <1>4 DEF ActiveTable, Goto, At, files, P
<1>6. spinLock' = spinLock
  BY <1>2, <1>3 DEF ActiveTable, Goto
<1>6a. map[P(t)][selector].age \in Nat
  BY <1>2 DEF IInv, TypeInv, Mapping, P
<1>6b. PICK l \in {"lost", "relock", "plan", "test"} :
         /\ l = IF ~map[P(t)][selector].open THEN "lost"
                ELSE IF Outgrown(P(t), selector) THEN "relock" ELSE AfterActive(t)
         /\ l = "plan" => d.stage = 3
         /\ l = "test" => d.stage # 3
  BY DEF AfterActive
<1>6c. PICK n \in Nat : n = map[P(t)][selector].age
  BY <1>6a
<1>6d. c = [d EXCEPT !.tab = selector, !.age = n, !.pc = l]
  BY <1>4, <1>6b, <1>6c
<1>6e. /\ c.pc = l /\ c.stage = d.stage /\ c.tab = selector /\ c.op = d.op /\ c.key = d.key
       /\ c \in Locals
  BY <1>1, <1>2, <1>6b, <1>6c, <1>6d DEF CallFrame, Locals, PCs, Files
<1> HIDE DEF d
<1>7. c \in CallFrame /\ c.pc \in {"lost", "relock", "plan", "test"} /\ c.stage = d.stage /\ c.tab = selector /\ (c.pc = "plan" => c.stage = 3) /\ (c.pc = "test" => c.stage # 3)
  BY <1>1, <1>2, <1>6b, <1>6e DEF CallFrame, Locals, PCs, Ops, Errors, Files, NoCall
<1>8. /\ StageOK(c) /\ (Holds(c) => spinLock' = t) /\ OnActive(c, selector)
      /\ spinLock' = spinLock \/ spinLock \in {t, NoThread}
      /\ spinLock' \in Thread \cup {NoThread, DeadThread}
  BY <1>1, <1>2, <1>3, <1>6, <1>7, ThreadAssumption DEF StageOK, Holds, OnActive, OpenPC, MaintainPC
<1>9. (InSession(c) <=> InSession(d)) /\ \A f : OperatesOn(c, f) <=> OperatesOn(d, f)
  BY <1>1, <1>3, <1>7 DEF InSession, OperatesOn, SessionPC, StageOK, MaintainPC
<1>10. ~late => /\ Alone(c) => sync.readers = 0
                /\ SessionTab(c, selector)
                /\ Roomy(c, ProcessOf[t]) /\ Empty(c) /\ Copied(c)
  BY <1>1, <1>3, <1>7 DEF Alone, SessionTab, Roomy, Empty, Copied, TablePC, StageOK, MaintainPC
<1>11. QED
  BY <1>2, <1>5, <1>7, <1>8, <1>9, <1>10, LocalStep DEF d

-----------------------------------------------------------------------------
(* The maintenance is alone.                                               *)

\* While the maintenance runs, no session is open on the shared machine or on a
\* table, and no table counts a reader.
LEMMA Nobody ==
    ASSUME IInv, ~late, NEW u \in Thread, Alone(frame[u])
    PROVE  /\ \A t \in Thread : ~InSession(frame[t]) /\ \A f : ~OperatesOn(frame[t], f)
           /\ \A f \in Files : disk[f].head.readers = 0
           /\ Spare = 0 /\ SpareOf(0) = 0 /\ SpareOf(1) = 0
           /\ Cardinality(Reading) = 0 /\ \A f : Cardinality(Operating(f)) = 0
<1>1. sync.readers = 0
  BY DEF IInv, KeyInv, Settled
<1>2. Cardinality(Reading) \in Nat /\ IsFiniteSet(Reading)
  BY SetsFinite
<1>3. Spare >= 0 /\ SpareOf(0) >= 0 /\ SpareOf(1) >= 0 /\ SpareOf(0) + SpareOf(1) <= Spare
  BY DEF IInv, CountInv
<1>4. Cardinality(Reading) = 0 /\ Spare = 0
  BY <1>1, <1>2, <1>3 DEF Spare
<1>5. Reading = {}
  BY <1>2, <1>4, FS_EmptySet
<1>6. ASSUME NEW t \in Thread PROVE ~InSession(frame[t]) /\ \A f : ~OperatesOn(frame[t], f)
  <2>1. ~InSession(frame[t])
    BY <1>5 DEF Reading
  <2>2. StageOK(frame[t])
    BY DEF IInv, ThreadInv
  <2>3. frame[t].pc # "operate"
    BY <2>1, <2>2 DEF InSession, SessionPC, StageOK, MaintainPC
  <2>4. QED
    BY <2>1, <2>3 DEF OperatesOn
<1>7. ASSUME NEW f PROVE Cardinality(Operating(f)) = 0
  <2>1. Operating(f) = {}
    BY <1>6 DEF Operating
  <2>2. QED
    BY <2>1, FS_EmptySet
<1>8. disk[0].head.readers \in Int /\ disk[1].head.readers \in Int
  BY DEF IInv, TypeInv, DataFile, Header, Files
<1>9. SpareOf(0) = disk[0].head.readers /\ SpareOf(1) = disk[1].head.readers
  BY <1>7, <1>8 DEF SpareOf
<1>10. SpareOf(0) = 0 /\ SpareOf(1) = 0
  BY <1>3, <1>4, <1>8, <1>9
<1>11. QED
  BY <1>4, <1>6, <1>7, <1>9, <1>10 DEF Files

LEMMA NobodyMaintains ==
    ASSUME IInv, ~late, NEW t \in Thread, InSession(frame[t]), NEW u \in Thread
    PROVE  /\ ~Alone(frame[u])
           /\ frame[u].pc \notin {"construct", "setReadOnly", "copy", "flip"}
<1>1. ~Alone(frame[u])
  BY Nobody
<1>2. StageOK(frame[u])
  BY DEF IInv, ThreadInv
<1>3. QED
  BY <1>1, <1>2 DEF Alone, StageOK, MaintainPC

\* A thread that holds the lock is the only one that does.
LEMMA OneHolder ==
    ASSUME IInv, NEW t \in Thread, spinLock = t, NEW u \in Thread, u # t
    PROVE  /\ ~Holds(frame[u]) /\ ~Alone(frame[u])
           /\ frame[u].pc \notin {"construct", "setReadOnly", "copy", "flip"}
<1>1. ~Holds(frame[u]) /\ StageOK(frame[u])
  BY DEF IInv, ThreadInv
<1>2. QED
  BY <1>1 DEF Holds, Alone, StageOK, MaintainPC

-----------------------------------------------------------------------------
(* Steps that map or extend a file, under the spin lock.                   *)

FileOutcome(m, file, o) ==
    /\ o.file \in DataFile /\ o.map \in Mapping
    /\ Kept(file.head, o.file.head)
    /\ o.map.open => o.file.head.signature

LEMMA SignedKept ==
    ASSUME NEW h, NEW g, Signed(h), Kept(h, g)
    PROVE  Signed(g) /\ (h.signature => g.signature)
BY DEF Signed, Kept

LEMMA FitsKept ==
    ASSUME NEW h \in Header, NEW g, Kept(h, g), Fits(h)
    PROVE  Fits(g)
<1>1. g.size \in Nat /\ h.size \in Nat /\ h.used \in Nat
  BY DEF Kept, Header
<1>2. g.live \in SUBSET h.live /\ h.used = g.used /\ h.size <= g.size
  BY DEF Kept
<1>3. IsFiniteSet(h.live)
  BY KeyAssumption, FS_Subset DEF Header
<1>4. IsFiniteSet(g.live) /\ Cardinality(g.live) <= Cardinality(h.live)
  BY <1>2, <1>3, FS_Subset
<1>5. Cardinality(g.live) \in Nat /\ Cardinality(h.live) \in Nat
  BY <1>3, <1>4, FS_CardinalityType
<1>6. QED
  BY <1>1, <1>2, <1>4, <1>5 DEF Fits

LEMMA FileStep ==
    ASSUME IInv, NEW t \in Thread, NEW c \in CallFrame, NEW f \in Files, NEW o,
           FileOutcome(map[ProcessOf[t]][f], disk[f], o),
           frame' = [frame EXCEPT ![t] = c],
           disk' = [disk EXCEPT ![f] = o.file],
           map' = [map EXCEPT ![ProcessOf[t]][f] = o.map],
           UNCHANGED <<selector, expected, late, sync, status>>,
           crossed' = (crossed \/ (f = selector /\ Widens(disk[f].head, o.file.head.size))),
           spinLock = t, spinLock' \in {t, NoThread},
           StageOK(c), Holds(c) => spinLock' = t, OnActive(c, selector),
           InSession(c) <=> InSession(frame[t]),
           \A g : OperatesOn(c, g) <=> OperatesOn(frame[t], g),
           ~late => /\ Alone(c) => sync.readers = 0
                    /\ SessionTab(c, selector)
                    /\ c.pc \notin {"setReadOnly", "copy", "flip"}
                    /\ Roomy(c, ProcessOf[t])'
    PROVE  IInv'
<1>1. TypeInv /\ ThreadInv /\ SignatureInv /\ CountInv /\ KeyInv
  BY DEF IInv
<1>2. selector' = selector /\ expected' = expected /\ late' = late /\ sync' = sync /\ status' = status
  OBVIOUS
<1>3. /\ frame' \in [Thread -> CallFrame] /\ frame'[t] = c
      /\ \A u \in Thread \ {t} : frame'[u] = frame[u]
      /\ ThreadInv'
  <2>1. selector' = selector \/ frame[t].stage = 3
    BY <1>2
  <2>2. OnActive(c, selector')
    BY <1>2
  <2>3. spinLock' = spinLock \/ spinLock \in {t, NoThread}
    OBVIOUS
  <2>4. QED
    BY <1>1, <2>1, <2>2, <2>3, ThreadStep
<1>4. /\ o.file \in DataFile /\ o.map \in Mapping /\ Kept(disk[f].head, o.file.head)
      /\ o.map.open => o.file.head.signature
  BY DEF FileOutcome
<1>5. /\ disk \in [Files -> DataFile] /\ map \in [Process -> [Files -> Mapping]]
      /\ ProcessOf[t] \in Process
  BY <1>1, ProcessOfAssumption DEF TypeInv
<1>6. /\ disk' \in [Files -> DataFile] /\ disk'[f] = o.file
      /\ \A g \in Files \ {f} : disk'[g] = disk[g]
  BY <1>4, <1>5
<1>7. /\ map' \in [Process -> [Files -> Mapping]] /\ map'[ProcessOf[t]][f] = o.map
      /\ \A p \in Process, g \in Files : p # ProcessOf[t] \/ g # f => map'[p][g] = map[p][g]
  BY <1>4, <1>5
<1>8. ASSUME NEW g \in Files
      PROVE  Kept(disk[g].head, disk'[g].head) /\ disk[g].head \in Header
  <2>1. disk[g].head \in Header
    BY <1>5 DEF DataFile
  <2>2. CASE g = f
    BY <1>4, <1>6, <2>1, <2>2
  <2>3. CASE g # f
    BY <1>6, <2>1, <2>3, KeptItself
  <2>4. QED
    BY <2>2, <2>3
<1>9. TypeInv'
  <2>1. crossed' \in BOOLEAN
    BY <1>1 DEF TypeInv
  <2>2. QED
    BY <1>1, <1>2, <1>3, <1>6, <1>7, <2>1 DEF TypeInv
<1>9a. StuckInv'
  <2>1. \A g \in Files : ~disk[g].head.stuck
    BY ThreadAssumption DEF IInv, StuckInv
  <2>2. ASSUME NEW g \in Files PROVE ~disk'[g].head.stuck
    BY <1>8, <2>1 DEF Kept
  <2>3. QED
    BY <2>2 DEF StuckInv
<1>10. SignatureInv'
  <2>1. ASSUME NEW g \in Files PROVE Signed(disk'[g].head)
    BY <1>1, <1>8, SignedKept DEF SignatureInv
  <2>2. ASSUME NEW p \in Process, NEW g \in Files, map'[p][g].open
        PROVE  disk'[g].head.signature
    <3>1. CASE p = ProcessOf[t] /\ g = f
      BY <1>4, <1>6, <1>7, <2>2, <3>1
    <3>2. CASE p # ProcessOf[t] \/ g # f
      <4>1. map[p][g].open
        BY <1>7, <2>2, <3>2
      <4>2. disk[g].head.signature /\ Signed(disk[g].head)
        BY <1>1, <4>1 DEF SignatureInv
      <4>3. QED
        BY <1>8, <4>2, SignedKept
    <3>3. QED
      BY <3>1, <3>2
  <2>3. QED
    BY <2>1, <2>2 DEF SignatureInv, Signed
<1>11. CountInv'
  <2>1. /\ Cardinality(Reading)' = Cardinality(Reading) + Bit(InSession(c)) - Bit(InSession(frame[t]))
        /\ \A g : Cardinality(Operating(g))' = Cardinality(Operating(g))
                    + Bit(OperatesOn(c, g)) - Bit(OperatesOn(frame[t], g))
    BY <1>3, CountStep
  <2>2. Cardinality(Reading) \in Nat /\ \A g : Cardinality(Operating(g)) \in Nat
    BY SetsFinite
  <2>3. Bit(InSession(c)) = Bit(InSession(frame[t])) /\ Bit(InSession(c)) \in {0, 1}
    BY DEF Bit
  <2>4. ASSUME NEW g PROVE Bit(OperatesOn(c, g)) = Bit(OperatesOn(frame[t], g))
                           /\ Bit(OperatesOn(c, g)) \in {0, 1}
    BY DEF Bit
  <2>5. Cardinality(Reading)' = Cardinality(Reading)
    BY <2>1, <2>2, <2>3
  <2>6. ASSUME NEW g PROVE Cardinality(Operating(g))' = Cardinality(Operating(g))
    BY <2>1, <2>2, <2>4
  <2>7. Spare' = Spare
    BY <1>2, <2>5 DEF Spare
  <2>8. disk'[0].head.readers = disk[0].head.readers /\ disk'[1].head.readers = disk[1].head.readers
    BY <1>8 DEF Kept, Files
  <2>9. SpareOf(0)' = SpareOf(0) /\ SpareOf(1)' = SpareOf(1)
    BY <2>6, <2>8 DEF SpareOf
  <2>10. QED
    BY <1>1, <1>2, <2>7, <2>9 DEF CountInv
<1>12. KeyInv'
  <2> SUFFICES ASSUME ~late' PROVE Settled'
    BY DEF KeyInv
  <2>1. ~late /\ Settled
    BY <1>1, <1>2 DEF KeyInv
  <2>2. ASSUME NEW u \in Thread
        PROVE  /\ Alone(frame'[u]) => sync'.readers = 0
               /\ SessionTab(frame'[u], selector')
               /\ Roomy(frame[u], ProcessOf[u])' /\ Empty(frame[u])' /\ Copied(frame[u])'
    <3>1. CASE u = t
      <4>1. frame'[u] = c
        BY <1>3, <3>1
      <4>2. Roomy(frame[u], ProcessOf[u])'
        BY <2>1, <3>1, <4>1 DEF Roomy
      <4>3. Empty(frame[u])' /\ Copied(frame[u])'
        BY <2>1, <4>1 DEF Empty, Copied
      <4>4. QED
        BY <1>2, <2>1, <4>1, <4>2, <4>3
    <3>2. CASE u # t
      <4>1. frame'[u] = frame[u]
        BY <1>3, <3>2
      <4>2. ~Alone(frame[u]) /\ frame[u].pc \notin {"construct", "setReadOnly", "copy", "flip"}
        BY <3>2, OneHolder
      <4>3. SessionTab(frame[u], selector)
        BY <2>1 DEF Settled
      <4>4. Roomy(frame[u], ProcessOf[u])' /\ Empty(frame[u])' /\ Copied(frame[u])'
        BY <4>1, <4>2 DEF Roomy, Empty, Copied
      <4>5. QED
        BY <1>2, <4>1, <4>2, <4>3, <4>4
    <3>3. QED
      BY <3>1, <3>2
  <2>3. (~crossed' => disk'[selector'].head.live = expected')
    <3>1. selector \in Files
      BY <1>1 DEF TypeInv
    <3>2. ASSUME ~crossed' PROVE ~crossed /\ disk'[selector].head.live = disk[selector].head.live
      <4>1. ~crossed /\ (f = selector => ~Widens(disk[f].head, o.file.head.size))
        BY <3>2
      <4>2. CASE f = selector
        BY <1>4, <1>6, <4>1, <4>2 DEF Kept
      <4>3. CASE f # selector
        BY <1>6, <3>1, <4>1, <4>3
      <4>4. QED
        BY <4>2, <4>3
    <3>3. QED
      BY <1>2, <2>1, <3>2 DEF Settled
  <2>4. ASSUME NEW g \in Files PROVE Fits(disk[g].head)'
    <3>1. Fits(disk[g].head)
      BY <2>1 DEF Settled
    <3>2. Fits(disk'[g].head)
      BY <1>8, <3>1, FitsKept
    <3>3. QED
      BY <3>2 DEF Fits
  <2>5. QED
    BY <2>2, <2>3, <2>4 DEF Settled
<1>13. QED
  BY <1>3, <1>9, <1>9a, <1>10, <1>11, <1>12 DEF IInv

LEMMA KeptTwice ==
    ASSUME NEW h \in Header, Signed(h), NEW g, NEW k, Kept(h, g), Kept(g, k)
    PROVE  Kept(h, k)
<1>1. h.size \in Nat /\ g.size \in Nat /\ k.size \in Nat /\ WideSize \in Nat
  BY WideSizeAssumption DEF Kept, Header
<1>2. k \in Header /\ (k.signature \/ k = h) /\ (g.signature \/ g = h)
  BY DEF Kept
<1>3. k.live \subseteq h.live /\ k.used = h.used /\ k.readers = h.readers /\ h.size <= k.size
  BY <1>1 DEF Kept
<1>4. k.readOnly = h.readOnly /\ k.stuck = h.stuck
  BY Zenon DEF Kept
<1>5. ASSUME ~Widens(h, k.size) PROVE k.live = h.live
  <2>1. h.size <= g.size /\ g.size <= k.size
    BY DEF Kept
  <2>2. CASE h.signature
    <3>1. WideSize <= h.size \/ k.size < WideSize
      BY <1>1, <1>5, <2>2 DEF Widens
    <3>2. ~Widens(h, g.size) /\ ~Widens(g, k.size)
      BY <1>1, <2>1, <3>1 DEF Widens
    <3>3. QED
      BY <3>2 DEF Kept
  <2>3. CASE ~h.signature
    <3>1. h.live = {}
      BY <2>3, BlankIs DEF Signed
    <3>2. QED
      BY <1>3, <3>1
  <2>4. QED
    BY <2>2, <2>3
<1>6. QED
  BY <1>2, <1>3, <1>4, <1>5, Zenon DEF Kept

LEMMA MappedOutcome ==
    ASSUME NEW m, NEW file, NEW size, NEW o, Mapped(m, file, size, o)
    PROVE  FileOutcome(m, file, o) /\ o \in Outcome /\ Kept(file.head, o.file.head)
BY DEF Mapped, FileOutcome, Outcome

LEMMA ExtendIs ==
    ASSUME NEW m \in Mapping, NEW file \in DataFile, NEW size \in Nat,
           Signed(file.head), m.open => file.head.signature,
           NEW o \in ExtendSizeTo(m, file, size)
    PROVE  FileOutcome(m, file, o) /\ o \in Outcome /\ (o.map.open => size <= o.map.size)
<1>1. CASE m.size >= size
  <2>1. o = [ok |-> FALSE, io |-> FALSE, file |-> file, map |-> m]
    BY <1>1 DEF ExtendSizeTo
  <2>2. o.file = file /\ o.map = m /\ o \in Outcome
    BY <2>1 DEF Outcome
  <2>3. file.head \in Header
    BY DEF DataFile
  <2>4. Kept(file.head, file.head)
    BY <2>3, KeptItself
  <2>5. QED
    BY <1>1, <2>2, <2>4 DEF FileOutcome
<1>2. CASE ~(m.size >= size)
  <2>1. o \in MapTable(m, file, size)
    BY <1>2 DEF ExtendSizeTo
  <2>2. Mapped(m, file, size, o)
    BY <2>1, MapTableIs
  <2>3. o.map.open => o.map.size = size
    BY <2>2 DEF Mapped
  <2>4. QED
    BY <2>2, <2>3, MappedOutcome
<1>3. QED
  BY <1>1, <1>2

LEMMA OpenIs ==
    ASSUME NEW m \in Mapping, NEW file \in DataFile, NEW size \in Nat,
           Signed(file.head), NEW o \in OpenOutcomes(m, file, size)
    PROVE  FileOutcome(m, file, o) /\ o \in Outcome
<1>1. file.head \in Header
  BY DEF DataFile
<1>2. CASE o \in {[y EXCEPT !.ok = TRUE] : y \in {x \in MapTable(m, file, size) : x.map.size # 0}}
  <2>1. PICK y \in MapTable(m, file, size) : o = [y EXCEPT !.ok = TRUE]
    BY <1>2
  <2>2. FileOutcome(m, file, y) /\ y \in Outcome
    BY MapTableIs, MappedOutcome
  <2>3. o \in Outcome /\ o.file = y.file /\ o.map = y.map
    BY <2>1, <2>2 DEF Outcome
  <2>4. QED
    BY <2>2, <2>3 DEF FileOutcome
<1>3. CASE o \in UNION { {[y EXCEPT !.io = y.io \/ x.io] : y \in MapTable(x.map, x.file, InitialSize)}
                         : x \in {x \in MapTable(m, file, size) : x.map.size = 0} }
  <2>1. PICK x \in MapTable(m, file, size) :
          o \in {[y EXCEPT !.io = y.io \/ x.io] : y \in MapTable(x.map, x.file, InitialSize)}
    BY <1>3
  <2>2. PICK y \in MapTable(x.map, x.file, InitialSize) : o = [y EXCEPT !.io = y.io \/ x.io]
    BY <2>1
  <2>3. FileOutcome(m, file, x) /\ x \in Outcome /\ Kept(file.head, x.file.head)
    BY MapTableIs, MappedOutcome
  <2>4. x.map \in Mapping /\ x.file \in DataFile /\ Signed(x.file.head) /\ InitialSize \in Nat
    BY <2>3, SignedKept, InitialSizeAssumption DEF Outcome
  <2>5. FileOutcome(x.map, x.file, y) /\ y \in Outcome /\ Kept(x.file.head, y.file.head)
    BY <2>4, MapTableIs, MappedOutcome
  <2>7. o \in Outcome /\ o.file = y.file /\ o.map = y.map
    BY <2>2, <2>5 DEF Outcome
  <2>8. Kept(file.head, y.file.head)
    BY <1>1, <2>3, <2>5, KeptTwice
  <2>9. QED
    BY <2>5, <2>7, <2>8 DEF FileOutcome
<1>4. QED
  BY <1>2, <1>3 DEF OpenOutcomes

-----------------------------------------------------------------------------
(* Actions that map or extend a file.                                      *)

LEMMA OpenMapInv ==
    ASSUME IInv, NEW t \in Thread, OpenMap(t)
    PROVE  IInv'
<1> DEFINE d == frame[t]
<1>1. /\ d \in CallFrame /\ StageOK(d) /\ (Holds(d) => spinLock = t) /\ OnActive(d, selector)
      /\ ~late => (Alone(d) => sync.readers = 0) /\ SessionTab(d, selector)
  BY DEF IInv, TypeInv, ThreadInv, KeyInv, Settled
<1>2. /\ frame \in [Thread -> CallFrame] /\ selector \in Files /\ d.tab \in Files
      /\ ProcessOf[t] \in Process /\ d.seen \in Nat
  BY <1>1, ProcessOfAssumption DEF IInv, TypeInv, CallFrame, Locals
<1>2a. \A f \in Files :
         /\ disk[f] \in DataFile /\ map[ProcessOf[t]][f] \in Mapping
         /\ disk[f].head \in Header /\ disk[f].head.size \in Nat /\ Signed(disk[f].head)
         /\ map[ProcessOf[t]][f].open => disk[f].head.signature
  BY <1>2 DEF IInv, TypeInv, SignatureInv, DataFile, Header
<1>3. d.pc = "openMap" /\ spinLock = t
  BY <1>1 DEF OpenMap, At, Holds, OpenPC, StageOK, MaintainPC
<1>4. PICK o \in OpenOutcomes(map[P(t)][d.tab], disk[d.tab], d.seen) :
            /\ Refile(P(t), d.tab, o)
            /\ frame' = [frame EXCEPT ![t] =
                 [@ EXCEPT !.pc = IF o.ok /\ d.tab = 0 THEN "openSize" ELSE "openUnlock",
                           !.tab = 1,
                           !.err = IF o.ok THEN "NO" ELSE "ACCESS_DENIED"]]
  BY DEF OpenMap
<1>5. FileOutcome(map[ProcessOf[t]][d.tab], disk[d.tab], o) /\ o \in Outcome
  BY <1>2, <1>2a, OpenIs DEF P
<1>5a. PICK c : c = [d EXCEPT !.pc = IF o.ok /\ d.tab = 0 THEN "openSize" ELSE "openUnlock", !.tab = 1, !.err = IF o.ok THEN "NO" ELSE "ACCESS_DENIED"]
  OBVIOUS
<1>6. /\ disk' = [disk EXCEPT ![d.tab] = o.file]
      /\ map' = [map EXCEPT ![ProcessOf[t]][d.tab] = o.map]
      /\ frame' = [frame EXCEPT ![t] = c]
      /\ selector' = selector /\ expected' = expected /\ late' = late /\ sync' = sync /\ status' = status
      /\ crossed' = (crossed \/ (d.tab = selector /\ Widens(disk[d.tab].head, o.file.head.size)))
      /\ spinLock' = t
  BY <1>2, <1>3, <1>4, <1>5a DEF OpenMap, Refile, Goto, P, At, Head
<1>7. c \in CallFrame /\ c.pc \in {"openSize", "openUnlock"} /\ c.stage = d.stage
  BY <1>1, <1>5, <1>5a DEF CallFrame, Locals, PCs, Errors, Files, Outcome, Mapping, AfterActive
<1> HIDE DEF d
<1>8. /\ StageOK(c) /\ (Holds(c) => spinLock' = t) /\ OnActive(c, selector) /\ spinLock' \in {t, NoThread}
      /\ ~late => /\ Alone(c) => sync.readers = 0
                  /\ SessionTab(c, selector)
                  /\ c.pc \notin {"setReadOnly", "copy", "flip"}
  BY <1>1, <1>3, <1>6, <1>7 DEF StageOK, Holds, OnActive, OpenPC, MaintainPC, Alone, SessionTab, TablePC
<1>9. (InSession(c) <=> InSession(d)) /\ \A e : OperatesOn(c, e) <=> OperatesOn(d, e)
  BY <1>1, <1>3, <1>7 DEF InSession, OperatesOn, SessionPC, StageOK, MaintainPC
<1>10. Roomy(c, ProcessOf[t])'
  BY <1>7 DEF Roomy
<1>11. d.tab \in Files
  BY <1>2 DEF Files, Other, d
<1>12. QED
  BY <1>3, <1>5, <1>6, <1>7, <1>8, <1>9, <1>10, <1>11, FileStep DEF d

LEMMA RecheckInv ==
    ASSUME IInv, NEW t \in Thread, Recheck(t)
    PROVE  IInv'
<1> DEFINE d == frame[t]
<1>1. /\ d \in CallFrame /\ StageOK(d) /\ (Holds(d) => spinLock = t) /\ OnActive(d, selector)
      /\ ~late => (Alone(d) => sync.readers = 0) /\ SessionTab(d, selector)
  BY DEF IInv, TypeInv, ThreadInv, KeyInv, Settled
<1>2. /\ frame \in [Thread -> CallFrame] /\ selector \in Files /\ d.tab \in Files
      /\ ProcessOf[t] \in Process /\ d.seen \in Nat
  BY <1>1, ProcessOfAssumption DEF IInv, TypeInv, CallFrame, Locals
<1>2a. \A f \in Files :
         /\ disk[f] \in DataFile /\ map[ProcessOf[t]][f] \in Mapping
         /\ disk[f].head \in Header /\ disk[f].head.size \in Nat /\ Signed(disk[f].head)
         /\ map[ProcessOf[t]][f].open => disk[f].head.signature
  BY <1>2 DEF IInv, TypeInv, SignatureInv, DataFile, Header
<1>3. d.pc = "recheck" /\ spinLock = t /\ d.stage = 1
  BY <1>1 DEF Recheck, At, Holds, OpenPC, StageOK, MaintainPC
<1>4. PICK o \in IF Outgrown(P(t), d.tab) THEN ExtendSizeTo(map[P(t)][d.tab], disk[d.tab], Head(d.tab).size)
                  ELSE {[ok |-> TRUE, io |-> FALSE, file |-> disk[d.tab], map |-> map[P(t)][d.tab]]} :
            /\ Refile(P(t), d.tab, o)
            /\ frame' = [frame EXCEPT ![t].pc = AfterActive(t), ![t].age = o.map.age]
  BY DEF Recheck
<1>5. FileOutcome(map[ProcessOf[t]][d.tab], disk[d.tab], o) /\ o \in Outcome
  <2>1. CASE Outgrown(P(t), d.tab)
    BY <1>2, <1>2a, <1>4, <2>1, ExtendIs DEF P, Head
  <2>2. CASE ~Outgrown(P(t), d.tab)
    <3>1. o = [ok |-> TRUE, io |-> FALSE, file |-> disk[d.tab], map |-> map[P(t)][d.tab]]
      BY <1>4, <2>2
    <3>2. o \in Outcome /\ o.file = disk[d.tab] /\ o.map = map[ProcessOf[t]][d.tab]
      BY <1>2, <1>2a, <3>1 DEF Outcome, P
    <3>3. Kept(disk[d.tab].head, disk[d.tab].head)
      BY <1>2, <1>2a, KeptItself
    <3>4. QED
      BY <1>2, <1>2a, <3>2, <3>3 DEF FileOutcome
  <2>3. QED
    BY <2>1, <2>2
<1>5b. o.map.age \in Nat
  BY <1>5 DEF Outcome, Mapping
<1>5c. frame' = [frame EXCEPT ![t].pc = "test", ![t].age = o.map.age]
  <2>1. AfterActive(t) = "test"
    BY <1>3 DEF AfterActive
  <2>2. frame' = [frame EXCEPT ![t].pc = AfterActive(t), ![t].age = o.map.age]
    BY <1>4
  <2>3. QED
    BY <2>1, <2>2
<1>5d. frame' = [frame EXCEPT ![t] = [d EXCEPT !.pc = "test", !.age = o.map.age]]
  BY <1>2, <1>5c
<1>5a. PICK c : c = [d EXCEPT !.pc = "test", !.age = o.map.age]
  OBVIOUS
<1>6. /\ disk' = [disk EXCEPT ![d.tab] = o.file]
      /\ map' = [map EXCEPT ![ProcessOf[t]][d.tab] = o.map]
      /\ frame' = [frame EXCEPT ![t] = c]
      /\ selector' = selector /\ expected' = expected /\ late' = late /\ sync' = sync /\ status' = status
      /\ crossed' = (crossed \/ (d.tab = selector /\ Widens(disk[d.tab].head, o.file.head.size)))
      /\ spinLock' = NoThread
  BY <1>2, <1>3, <1>4, <1>5a, <1>5d DEF Recheck, Refile, Goto, P, At, Head
<1>7. c \in CallFrame /\ c.pc = "test" /\ c.stage = d.stage /\ c.tab = d.tab
  BY <1>1, <1>5, <1>5a, <1>5b DEF CallFrame, Locals, PCs, Errors, Files, Outcome, Mapping, AfterActive
<1> HIDE DEF d
<1>8. /\ StageOK(c) /\ (Holds(c) => spinLock' = t) /\ OnActive(c, selector) /\ spinLock' \in {t, NoThread}
      /\ ~late => /\ Alone(c) => sync.readers = 0
                  /\ SessionTab(c, selector)
                  /\ c.pc \notin {"setReadOnly", "copy", "flip"}
  BY <1>1, <1>3, <1>6, <1>7 DEF StageOK, Holds, OnActive, OpenPC, MaintainPC, Alone, SessionTab, TablePC
<1>9. (InSession(c) <=> InSession(d)) /\ \A e : OperatesOn(c, e) <=> OperatesOn(d, e)
  BY <1>1, <1>3, <1>7 DEF InSession, OperatesOn, SessionPC, StageOK, MaintainPC
<1>10. Roomy(c, ProcessOf[t])'
  BY <1>7 DEF Roomy
<1>11. d.tab \in Files
  BY <1>2 DEF Files, Other, d
<1>12. QED
  BY <1>3, <1>5, <1>6, <1>7, <1>8, <1>9, <1>10, <1>11, FileStep DEF d

LEMMA GrowInv ==
    ASSUME IInv, NEW t \in Thread, Grow(t)
    PROVE  IInv'
<1> DEFINE d == frame[t]
<1>1. /\ d \in CallFrame /\ StageOK(d) /\ (Holds(d) => spinLock = t) /\ OnActive(d, selector)
      /\ ~late => (Alone(d) => sync.readers = 0) /\ SessionTab(d, selector)
  BY DEF IInv, TypeInv, ThreadInv, KeyInv, Settled
<1>2. /\ frame \in [Thread -> CallFrame] /\ selector \in Files /\ d.tab \in Files
      /\ ProcessOf[t] \in Process /\ d.seen \in Nat
  BY <1>1, ProcessOfAssumption DEF IInv, TypeInv, CallFrame, Locals
<1>2a. \A f \in Files :
         /\ disk[f] \in DataFile /\ map[ProcessOf[t]][f] \in Mapping
         /\ disk[f].head \in Header /\ disk[f].head.size \in Nat /\ Signed(disk[f].head)
         /\ map[ProcessOf[t]][f].open => disk[f].head.signature
  BY <1>2 DEF IInv, TypeInv, SignatureInv, DataFile, Header
<1>3. d.pc = "grow" /\ spinLock = t /\ d.stage = 3
  BY <1>1 DEF Grow, At, Holds, OpenPC, StageOK, MaintainPC
<1>4. PICK o \in ExtendSizeTo(map[P(t)][d.tab], disk[d.tab], 2 * Head(d.tab).size) : Refile(P(t), d.tab, o)
  BY DEF Grow, Extending
<1>5. FileOutcome(map[ProcessOf[t]][d.tab], disk[d.tab], o) /\ o \in Outcome
  <2>1. 2 * Head(d.tab).size \in Nat /\ d.tab \in Files
    BY <1>2, <1>2a DEF Head, Other, Files
  <2>2. PICK n \in Nat : n = 2 * Head(d.tab).size
    BY <2>1
  <2>3. o \in ExtendSizeTo(map[ProcessOf[t]][d.tab], disk[d.tab], n)
    BY <1>4, <2>2 DEF P
  <2>4. QED
    BY <1>2a, <2>1, <2>2, <2>3, ExtendIs DEF Head
<1>5a. PICK c : c = [d EXCEPT !.pc = "endWrite"]
  OBVIOUS
<1>6. /\ disk' = [disk EXCEPT ![d.tab] = o.file]
      /\ map' = [map EXCEPT ![ProcessOf[t]][d.tab] = o.map]
      /\ frame' = [frame EXCEPT ![t] = c]
      /\ selector' = selector /\ expected' = expected /\ late' = late /\ sync' = sync /\ status' = status
      /\ crossed' = (crossed \/ (d.tab = selector /\ Widens(disk[d.tab].head, o.file.head.size)))
      /\ spinLock' = t
  BY <1>2, <1>3, <1>4, <1>5a DEF Grow, Refile, Goto, P, At, Head
<1>7. c \in CallFrame /\ c.pc = "endWrite" /\ c.stage = d.stage /\ c.tab = d.tab
  BY <1>1, <1>5, <1>5a DEF CallFrame, Locals, PCs, Errors, Files, Outcome, Mapping, AfterActive
<1> HIDE DEF d
<1>8. /\ StageOK(c) /\ (Holds(c) => spinLock' = t) /\ OnActive(c, selector) /\ spinLock' \in {t, NoThread}
      /\ ~late => /\ Alone(c) => sync.readers = 0
                  /\ SessionTab(c, selector)
                  /\ c.pc \notin {"setReadOnly", "copy", "flip"}
  BY <1>1, <1>3, <1>6, <1>7 DEF StageOK, Holds, OnActive, OpenPC, MaintainPC, Alone, SessionTab, TablePC
<1>9. (InSession(c) <=> InSession(d)) /\ \A e : OperatesOn(c, e) <=> OperatesOn(d, e)
  BY <1>1, <1>3, <1>7 DEF InSession, OperatesOn, SessionPC, StageOK, MaintainPC
<1>10. Roomy(c, ProcessOf[t])'
  BY <1>7 DEF Roomy
<1>11. d.tab \in Files
  BY <1>2 DEF Files, Other, d
<1>12. QED
  BY <1>3, <1>5, <1>6, <1>7, <1>8, <1>9, <1>10, <1>11, FileStep DEF d

LEMMA ExtendInv ==
    ASSUME IInv, NEW t \in Thread, Extend(t)
    PROVE  IInv'
<1> DEFINE d == frame[t]
<1>1. /\ d \in CallFrame /\ StageOK(d) /\ (Holds(d) => spinLock = t) /\ OnActive(d, selector)
      /\ ~late => (Alone(d) => sync.readers = 0) /\ SessionTab(d, selector)
  BY DEF IInv, TypeInv, ThreadInv, KeyInv, Settled
<1>2. /\ frame \in [Thread -> CallFrame] /\ selector \in Files /\ d.tab \in Files
      /\ ProcessOf[t] \in Process /\ d.seen \in Nat
  BY <1>1, ProcessOfAssumption DEF IInv, TypeInv, CallFrame, Locals
<1>2a. \A f \in Files :
         /\ disk[f] \in DataFile /\ map[ProcessOf[t]][f] \in Mapping
         /\ disk[f].head \in Header /\ disk[f].head.size \in Nat /\ Signed(disk[f].head)
         /\ map[ProcessOf[t]][f].open => disk[f].head.signature
  BY <1>2 DEF IInv, TypeInv, SignatureInv, DataFile, Header
<1>3. d.pc = "extend" /\ spinLock = t /\ d.stage = 3
  BY <1>1 DEF Extend, At, Holds, OpenPC, StageOK, MaintainPC
<1>4. PICK f \in Files : f = Other(t) /\ f = 1 - d.tab
  BY <1>2 DEF Other, Files
<1>4a. PICK o \in ExtendSizeTo(map[P(t)][f], disk[f], Head(d.tab).size) : Refile(P(t), f, o)
  BY <1>4 DEF Extend, Extending
<1>5. FileOutcome(map[ProcessOf[t]][f], disk[f], o) /\ o \in Outcome
      /\ (o.map.open => disk[d.tab].head.size <= o.map.size)
  <2>1. Head(d.tab).size \in Nat /\ f \in Files
    BY <1>2, <1>2a DEF Head, Other, Files
  <2>2. PICK n \in Nat : n = Head(d.tab).size
    BY <2>1
  <2>3. o \in ExtendSizeTo(map[ProcessOf[t]][f], disk[f], n)
    BY <1>4, <1>4a, <2>2 DEF P
  <2>4. QED
    BY <1>2a, <2>1, <2>2, <2>3, ExtendIs DEF Head
<1>5a. PICK c : c = [d EXCEPT !.pc = "construct"]
  OBVIOUS
<1>6. /\ disk' = [disk EXCEPT ![f] = o.file]
      /\ map' = [map EXCEPT ![ProcessOf[t]][f] = o.map]
      /\ frame' = [frame EXCEPT ![t] = c]
      /\ selector' = selector /\ expected' = expected /\ late' = late /\ sync' = sync /\ status' = status
      /\ crossed' = (crossed \/ (f = selector /\ Widens(disk[f].head, o.file.head.size)))
      /\ spinLock' = t
  BY <1>2, <1>3, <1>4, <1>4a, <1>5a DEF Extend, Refile, Goto, P, At, Head
<1>7. c \in CallFrame /\ c.pc = "construct" /\ c.stage = d.stage /\ c.tab = d.tab
  BY <1>1, <1>5, <1>5a DEF CallFrame, Locals, PCs, Errors, Files, Outcome, Mapping, AfterActive
<1> HIDE DEF d
<1>8. /\ StageOK(c) /\ (Holds(c) => spinLock' = t) /\ OnActive(c, selector) /\ spinLock' \in {t, NoThread}
      /\ ~late => /\ Alone(c) => sync.readers = 0
                  /\ SessionTab(c, selector)
                  /\ c.pc \notin {"setReadOnly", "copy", "flip"}
  BY <1>1, <1>3, <1>6, <1>7 DEF StageOK, Holds, OnActive, OpenPC, MaintainPC, Alone, SessionTab, TablePC
<1>9. (InSession(c) <=> InSession(d)) /\ \A e : OperatesOn(c, e) <=> OperatesOn(d, e)
  BY <1>1, <1>3, <1>7 DEF InSession, OperatesOn, SessionPC, StageOK, MaintainPC
<1>10. Roomy(c, ProcessOf[t])'
  <2>1. f # d.tab
    BY <1>2, <1>4 DEF Files
  <2>2. disk \in [Files -> DataFile] /\ map \in [Process -> [Files -> Mapping]]
    BY DEF IInv, TypeInv
  <2>3. disk'[d.tab] = disk[d.tab] /\ map'[ProcessOf[t]][1 - d.tab] = o.map
    BY <1>2, <1>4, <1>6, <2>1, <2>2
  <2>4. QED
    BY <1>5, <1>7, <2>3 DEF Roomy
<1>11. f \in Files
  BY <1>4
<1>12. QED
  BY <1>3, <1>5, <1>6, <1>7, <1>8, <1>9, <1>10, <1>11, FileStep DEF d

-----------------------------------------------------------------------------
(* Steps that change the header of a mapped table.                         *)

LEMMA HeadFrame ==
    ASSUME IInv, NEW t \in Thread, NEW c \in CallFrame, NEW f \in Files, NEW h \in Header,
           frame' = [frame EXCEPT ![t] = c],
           disk' = [disk EXCEPT ![f].head = h],
           UNCHANGED <<map, status, selector, spinLock, late, sync, crossed>>,
           expected' \subseteq Key, h.signature, h.stuck => disk[f].head.stuck,
           StageOK(c), Holds(c) => spinLock = t, OnActive(c, selector)
    PROVE  /\ TypeInv' /\ ThreadInv' /\ SignatureInv' /\ StuckInv'
           /\ frame'[t] = c
           /\ \A u \in Thread \ {t} : frame'[u] = frame[u]
           /\ disk'[f].head = h
           /\ \A g \in Files \ {f} : disk'[g] = disk[g]
<1>1. TypeInv /\ ThreadInv /\ SignatureInv
  BY DEF IInv
<1>2. /\ map' = map /\ status' = status /\ selector' = selector /\ spinLock' = spinLock
      /\ late' = late /\ sync' = sync /\ crossed' = crossed
  OBVIOUS
<1>3. /\ frame' \in [Thread -> CallFrame] /\ frame'[t] = c
      /\ \A u \in Thread \ {t} : frame'[u] = frame[u]
      /\ ThreadInv'
  <2>1. selector' = selector \/ frame[t].stage = 3
    BY <1>2
  <2>2. OnActive(c, selector') /\ (Holds(c) => spinLock' = t)
    BY <1>2
  <2>3. spinLock' = spinLock \/ spinLock \in {t, NoThread}
    BY <1>2
  <2>4. QED
    BY <1>1, <2>1, <2>2, <2>3, ThreadStep
<1>4. disk \in [Files -> DataFile]
  BY <1>1 DEF TypeInv
<1>5. PICK b : b = [disk[f] EXCEPT !.head = h]
  OBVIOUS
<1>6. b \in DataFile /\ b.head = h
  BY <1>4, <1>5 DEF DataFile
<1>7. disk' = [disk EXCEPT ![f] = b]
  BY <1>4, <1>5
<1>8. /\ disk' \in [Files -> DataFile] /\ disk'[f].head = h
      /\ \A g \in Files \ {f} : disk'[g] = disk[g]
  BY <1>4, <1>6, <1>7
<1>9. TypeInv'
  BY <1>1, <1>2, <1>3, <1>8 DEF TypeInv
<1>10. SignatureInv'
  <2>1. ASSUME NEW g \in Files PROVE Signed(disk[g].head)'
    <3>1. CASE g = f
      BY <1>8, <3>1 DEF Signed
    <3>2. CASE g # f
      BY <1>1, <1>8, <3>2 DEF SignatureInv, Signed
    <3>3. QED
      BY <3>1, <3>2
  <2>2. ASSUME NEW p \in Process, NEW g \in Files, map[p][g].open
        PROVE  disk'[g].head.signature
    <3>1. CASE g = f
      BY <1>8, <3>1
    <3>2. CASE g # f
      BY <1>1, <1>8, <2>2, <3>2 DEF SignatureInv
    <3>3. QED
      BY <3>1, <3>2
  <2>3. QED
    BY <1>2, <2>1, <2>2 DEF SignatureInv
<1>11. StuckInv'
  BY <1>2, <1>8 DEF IInv, StuckInv
<1>12. QED
  BY <1>3, <1>8, <1>9, <1>10, <1>11

\* A session enters or leaves a table, or changes its records.
LEMMA SessionStep ==
    ASSUME IInv, NEW t \in Thread, NEW c \in CallFrame, NEW f \in Files, NEW h \in Header,
           frame' = [frame EXCEPT ![t] = c],
           disk' = [disk EXCEPT ![f].head = h],
           UNCHANGED <<map, status, selector, spinLock, late, sync, crossed>>,
           expected' \subseteq Key, h.signature, h.stuck => disk[f].head.stuck,
           InSession(frame[t]), InSession(c), StageOK(c), Holds(c) => spinLock = t,
           h.readers = disk[f].head.readers + Bit(OperatesOn(c, f)) - Bit(OperatesOn(frame[t], f)),
           \A g \in Files \ {f} : OperatesOn(c, g) <=> OperatesOn(frame[t], g),
           ~late => /\ f = selector /\ SessionTab(c, selector)
                    /\ Fits(h) /\ (~crossed => h.live = expected')
    PROVE  IInv'
<1>1. OnActive(c, selector) /\ ~Alone(c) /\ c.pc \notin {"construct", "setReadOnly", "copy", "flip"}
  BY DEF InSession, OnActive, Alone, StageOK, MaintainPC
<1>2. /\ TypeInv' /\ ThreadInv' /\ SignatureInv' /\ StuckInv'
      /\ frame'[t] = c
      /\ \A u \in Thread \ {t} : frame'[u] = frame[u]
      /\ disk'[f].head = h
      /\ \A g \in Files \ {f} : disk'[g] = disk[g]
  BY <1>1, HeadFrame
<1>3. /\ map' = map /\ selector' = selector /\ late' = late /\ sync' = sync /\ crossed' = crossed
  OBVIOUS
<1>4. /\ Cardinality(Reading)' = Cardinality(Reading) + Bit(InSession(c)) - Bit(InSession(frame[t]))
      /\ \A g : Cardinality(Operating(g))' = Cardinality(Operating(g))
                  + Bit(OperatesOn(c, g)) - Bit(OperatesOn(frame[t], g))
  BY <1>2, CountStep
<1>5. Cardinality(Reading) \in Nat /\ \A g : Cardinality(Operating(g)) \in Nat
  BY SetsFinite
<1>6. Spare' = Spare
  <2>1. Cardinality(Reading)' = Cardinality(Reading)
    BY <1>4, <1>5 DEF Bit
  <2>2. QED
    BY <1>3, <2>1 DEF Spare
<1>7. ASSUME NEW g \in Files PROVE SpareOf(g)' = SpareOf(g)
  <2>1. disk[g].head.readers \in Int
    BY DEF IInv, TypeInv, DataFile, Header
  <2>2. Bit(OperatesOn(c, g)) \in {0, 1} /\ Bit(OperatesOn(frame[t], g)) \in {0, 1}
    BY DEF Bit
  <2>3. CASE g = f
    <3>1. disk'[g].head.readers = disk[g].head.readers + Bit(OperatesOn(c, g)) - Bit(OperatesOn(frame[t], g))
      BY <1>2, <2>3
    <3>2. PICK a \in {0, 1}, b \in {0, 1} : a = Bit(OperatesOn(c, g)) /\ b = Bit(OperatesOn(frame[t], g))
      BY <2>2
    <3>3. Cardinality(Operating(g))' = Cardinality(Operating(g)) + a - b
      BY <1>4, <3>2
    <3>4. PICK n \in Nat : n = Cardinality(Operating(g))
      BY <1>5
    <3>5. PICK r \in Int : r = disk[g].head.readers
      BY <2>1
    <3>6. disk'[g].head.readers = r + a - b
      BY <3>1, <3>2, <3>5
    <3>7. QED
      BY <3>3, <3>4, <3>5, <3>6 DEF SpareOf
  <2>4. CASE g # f
    <3>1. Bit(OperatesOn(c, g)) = Bit(OperatesOn(frame[t], g))
      BY <2>4 DEF Bit
    <3>2. Cardinality(Operating(g))' = Cardinality(Operating(g))
      BY <1>4, <1>5, <2>2, <3>1
    <3>3. disk'[g] = disk[g]
      BY <1>2, <2>4
    <3>4. QED
      BY <3>2, <3>3 DEF SpareOf
  <2>5. QED
    BY <2>3, <2>4
<1>8. CountInv'
  <2>1. SpareOf(0)' = SpareOf(0) /\ SpareOf(1)' = SpareOf(1)
    BY <1>7 DEF Files
  <2>2. QED
    BY <1>3, <1>6, <2>1 DEF IInv, CountInv
<1>9. KeyInv'
  <2> SUFFICES ASSUME ~late' PROVE Settled'
    BY DEF KeyInv
  <2>1. ~late /\ Settled
    BY <1>3 DEF IInv, KeyInv
  <2>2. ASSUME NEW u \in Thread
        PROVE  /\ Alone(frame'[u]) => sync'.readers = 0
               /\ SessionTab(frame'[u], selector')
               /\ Roomy(frame[u], ProcessOf[u])' /\ Empty(frame[u])' /\ Copied(frame[u])'
    <3>1. PICK e : e = frame'[u]
      OBVIOUS
    <3>2. ~Alone(e) /\ SessionTab(e, selector) /\ e.pc \notin {"construct", "setReadOnly", "copy", "flip"}
      <4>1. CASE u = t
        BY <1>1, <1>2, <2>1, <3>1, <4>1
      <4>2. CASE u # t
        <5>1. e = frame[u]
          BY <1>2, <3>1, <4>2
        <5>2. ~Alone(e) /\ e.pc \notin {"construct", "setReadOnly", "copy", "flip"}
          BY <2>1, <5>1, NobodyMaintains
        <5>3. QED
          BY <2>1, <5>1, <5>2 DEF Settled
      <4>3. QED
        BY <4>1, <4>2
    <3>3. Roomy(frame[u], ProcessOf[u])' /\ Empty(frame[u])' /\ Copied(frame[u])'
      BY <3>1, <3>2 DEF Roomy, Empty, Copied
    <3>4. QED
      BY <1>3, <3>1, <3>2, <3>3
  <2>3. (~crossed' => disk'[selector'].head.live = expected')
    BY <1>2, <1>3, <2>1
  <2>4. ASSUME NEW g \in Files PROVE Fits(disk[g].head)'
    <3>1. CASE g = f
      BY <1>2, <2>1, <3>1 DEF Fits
    <3>2. CASE g # f
      <4>1. disk'[g] = disk[g]
        BY <1>2, <3>2
      <4>2. Fits(disk[g].head)
        BY <2>1 DEF Settled
      <4>3. QED
        BY <4>1, <4>2 DEF Fits
    <3>3. QED
      BY <3>1, <3>2
  <2>5. QED
    BY <2>2, <2>3, <2>4 DEF Settled
<1>10. QED
  BY <1>2, <1>8, <1>9 DEF IInv

LEMMA EnterTableInv ==
    ASSUME IInv, NEW t \in Thread, EnterTable(t)
    PROVE  IInv'
<1> DEFINE d == frame[t]
<1>1. /\ d \in CallFrame /\ StageOK(d) /\ (Holds(d) => spinLock = t)
      /\ ~late => SessionTab(d, selector)
  BY DEF IInv, TypeInv, ThreadInv, KeyInv, Settled
<1>2. /\ frame \in [Thread -> CallFrame] /\ d.tab \in Files /\ ProcessOf[t] \in Process
      /\ disk \in [Files -> DataFile] /\ disk[d.tab].head \in Header
      /\ disk[d.tab].head.readers \in Int /\ expected \subseteq Key
  BY <1>1, ProcessOfAssumption DEF IInv, TypeInv, CallFrame, Locals, DataFile, Header
<1>3. d.pc = "begin" /\ map[ProcessOf[t]][d.tab].open /\ disk[d.tab].head.signature
  BY <1>2 DEF EnterTable, At, Usable, P, IInv, SignatureInv
<1>4. PICK c : c = [d EXCEPT !.pc = "operate"]
  OBVIOUS
<1>5. PICK g : g = disk[d.tab].head
  OBVIOUS
<1>6. PICK h : h = [g EXCEPT !.readers = @ + 1]
  OBVIOUS
<1>7. /\ frame' = [frame EXCEPT ![t] = c]
      /\ disk' = [disk EXCEPT ![d.tab].head = h]
      /\ UNCHANGED <<map, status, selector, spinLock, late, sync, expected, crossed>>
  BY <1>2, <1>4, <1>5, <1>6 DEF EnterTable, Goto, WithHead, Head
<1>8. PICK f \in Files : f = d.tab
  BY <1>2
<1>9. /\ h \in Header /\ h.signature = g.signature /\ h.live = g.live /\ h.used = g.used
      /\ h.size = g.size /\ h.readers = g.readers + 1 /\ h.stuck = g.stuck
  BY <1>2, <1>5, <1>6 DEF Header
<1>10. c \in CallFrame /\ c.pc = "operate" /\ c.stage = d.stage /\ c.tab = d.tab
  BY <1>1, <1>4 DEF CallFrame, Locals, PCs
<1> HIDE DEF d
<1>11. /\ InSession(d) /\ InSession(c) /\ StageOK(c) /\ (Holds(c) => spinLock = t)
       /\ ~late => SessionTab(c, selector)
  BY <1>1, <1>3, <1>10 DEF InSession, SessionPC, StageOK, MaintainPC, Holds, OpenPC, SessionTab, TablePC
<1>12. /\ OperatesOn(c, f) /\ ~OperatesOn(d, f)
       /\ \A e \in Files \ {f} : OperatesOn(c, e) <=> OperatesOn(d, e)
  BY <1>3, <1>8, <1>10 DEF OperatesOn
<1>13. h.readers = disk[f].head.readers + Bit(OperatesOn(c, f)) - Bit(OperatesOn(d, f))
  BY <1>2, <1>5, <1>8, <1>9, <1>12 DEF Bit
<1>14. ~late => f = selector /\ Fits(h) /\ (~crossed => h.live = expected')
  <2>1. SUFFICES ASSUME ~late PROVE f = selector /\ Fits(h) /\ (~crossed => h.live = expected')
    OBVIOUS
  <2>2. f = selector
    BY <1>1, <1>3, <1>8, <2>1 DEF SessionTab, TablePC
  <2>3. Fits(g) /\ (~crossed => g.live = expected)
    BY <1>5, <1>8, <2>1, <2>2 DEF IInv, KeyInv, Settled
  <2>4. QED
    BY <1>7, <1>9, <2>2, <2>3 DEF Fits
<1>15. h.signature
  BY <1>3, <1>5, <1>9
<1>16. disk' = [disk EXCEPT ![f].head = h] /\ expected' \subseteq Key
  BY <1>2, <1>7, <1>8
<1>16a. h.stuck => disk[f].head.stuck
  BY <1>5, <1>8, <1>9
<1>17. QED
  BY <1>7, <1>9, <1>10, <1>11, <1>12, <1>13, <1>14, <1>15, <1>16, <1>16a, SessionStep DEF d

\* What a call may do to a table: the records keep fitting.
Altered(head, g) ==
    /\ g \in Header /\ g.signature = head.signature /\ g.readers = head.readers
    /\ g.stuck = head.stuck /\ g.size = head.size
    /\ Fits(head) => Fits(g)

LEMMA AlteredItself ==
    ASSUME NEW head \in Header
    PROVE  Altered(head, head)
BY DEF Altered

LEMMA LiveFinite ==
    ASSUME NEW head \in Header
    PROVE  /\ head.live \subseteq Key /\ IsFiniteSet(head.live) /\ Cardinality(head.live) \in Nat
           /\ head.used \in Nat /\ head.size \in Nat /\ head.wasted \in Nat
<1>1. /\ head.live \subseteq Key /\ IsFiniteSet(head.live)
      /\ head.used \in Nat /\ head.size \in Nat /\ head.wasted \in Nat
  BY KeyAssumption, FS_Subset DEF Header
<1>2. QED
  BY <1>1, FS_CardinalityType

LEMMA AppendedIs ==
    ASSUME NEW head \in Header, NEW k \in Key, NEW g, g = Appended(head, k)
    PROVE  /\ g.live = head.live \cup {k} /\ g.used = head.used + 1 /\ g.size = head.size
           /\ head.used < head.size => Altered(head, g)
<1>1. /\ head.live \subseteq Key /\ IsFiniteSet(head.live) /\ Cardinality(head.live) \in Nat
      /\ head.used \in Nat /\ head.size \in Nat /\ head.wasted \in Nat
  BY LiveFinite
<1>2. Cardinality(head.live \cap {k}) \in Nat
  <2>1. (head.live \cap {k}) \in SUBSET head.live
    OBVIOUS
  <2>2. QED
    BY <1>1, <2>1, FS_Subset, FS_CardinalityType
<1>3. head.live \cup {k} \in SUBSET Key /\ head.used + 1 \in Nat
      /\ head.wasted + Cardinality(head.live \cap {k}) \in Nat
  BY <1>1, <1>2
<1>4. PICK L \in SUBSET Key, n \in Nat, w \in Nat :
        L = head.live \cup {k} /\ n = head.used + 1 /\ w = head.wasted + Cardinality(head.live \cap {k})
  BY <1>3
<1>5. g = [head EXCEPT !.live = L, !.used = n, !.wasted = w]
  BY <1>4 DEF Appended
<1>6. /\ g \in Header /\ g.signature = head.signature /\ g.readers = head.readers
      /\ g.stuck = head.stuck /\ g.live = L /\ g.used = n /\ g.size = head.size
  BY <1>5 DEF Header
<1>7. Cardinality(L) <= Cardinality(head.live) + 1 /\ Cardinality(L) \in Nat
  <2>1. Cardinality(head.live \cup {k})
          = IF k \in head.live THEN Cardinality(head.live) ELSE Cardinality(head.live) + 1
    BY <1>1, FS_AddElement
  <2>2. QED
    BY <1>1, <1>4, <2>1
<1>8. ASSUME head.used < head.size, Fits(head) PROVE Fits(g)
  BY <1>1, <1>4, <1>6, <1>7, <1>8 DEF Fits
<1>9. QED
  BY <1>4, <1>6, <1>8 DEF Altered

LEMMA RemovedIs ==
    ASSUME NEW head \in Header, NEW k, NEW g, g = [head EXCEPT !.live = @ \ {k}]
    PROVE  Altered(head, g) /\ g.live = head.live \ {k}
<1>1. /\ head.live \subseteq Key /\ IsFiniteSet(head.live) /\ Cardinality(head.live) \in Nat
      /\ head.used \in Nat /\ head.size \in Nat
  BY LiveFinite
<1>2. /\ g \in Header /\ g.signature = head.signature /\ g.readers = head.readers
      /\ g.stuck = head.stuck /\ g.live = head.live \ {k} /\ g.used = head.used /\ g.size = head.size
  BY <1>1 DEF Header
<1>3. g.live \in SUBSET head.live
  BY <1>2
<1>4. IsFiniteSet(g.live) /\ Cardinality(g.live) <= Cardinality(head.live)
  BY <1>1, <1>3, FS_Subset
<1>5. Cardinality(g.live) \in Nat
  BY <1>4, FS_CardinalityType
<1>6. QED
  BY <1>1, <1>2, <1>4, <1>5 DEF Altered, Fits

\* Only the count of wasted records, or the memory used, differs.
LEMMA WastedIs ==
    ASSUME NEW head \in Header, NEW g, g = [head EXCEPT !.wasted = @ + 1]
    PROVE  Altered(head, g) /\ g.live = head.live
<1>1. head.wasted + 1 \in Nat
  BY DEF Header
<1>2. PICK w \in Nat : w = head.wasted + 1
  BY <1>1
<1>3. g = [head EXCEPT !.wasted = w]
  BY <1>2
<1>4. /\ g \in Header /\ g.signature = head.signature /\ g.readers = head.readers
      /\ g.stuck = head.stuck /\ g.live = head.live /\ g.used = head.used /\ g.size = head.size
  BY <1>3 DEF Header
<1>5. QED
  BY <1>4 DEF Altered, Fits

LEMMA UnusedIs ==
    ASSUME NEW head \in Header, head.used < head.size,
           NEW g, g = [head EXCEPT !.used = @ + 1, !.wasted = @ + 1]
    PROVE  Altered(head, g) /\ g.live = head.live
<1>1. /\ Cardinality(head.live) \in Nat
      /\ head.used \in Nat /\ head.size \in Nat /\ head.wasted \in Nat
  BY LiveFinite
<1>2. PICK n \in Nat, w \in Nat : n = head.used + 1 /\ w = head.wasted + 1
  BY <1>1
<1>3. g = [head EXCEPT !.used = n, !.wasted = w]
  BY <1>2
<1>4. /\ g \in Header /\ g.signature = head.signature /\ g.readers = head.readers
      /\ g.stuck = head.stuck /\ g.live = head.live /\ g.used = n /\ g.size = head.size
  BY <1>3 DEF Header
<1>5. Fits(head) => Fits(g)
  BY <1>1, <1>2, <1>4 DEF Fits
<1>6. QED
  BY <1>4, <1>5 DEF Altered

\* What a call leaves of the keys of a table, by its answer and by its effect.
Left(op, k, err, old, new, S) ==
    CASE err = "NO" /\ op = "Set" -> S \cup {k}
      [] err = "NO" /\ op = "Delete" -> S \ {k}
      [] OTHER -> (S \cup (new \ old)) \ (old \ new)

\* What a call that failed has changed is what it is expected to have changed.
LEMMA LeftOfFailure ==
    ASSUME NEW op, NEW k, NEW err, NEW old, NEW new, err # "NO" \/ op \notin {"Set", "Delete"}
    PROVE  Left(op, k, err, old, new, old) = new
BY DEF Left

LEMMA OutcomesAre ==
    ASSUME NEW op \in Ops, NEW head \in Header, NEW k, op = "Set" => k \in Key,
           NEW o \in Outcomes(op, head, k)
    PROVE  /\ o.err \in Errors
           /\ Altered(head, o.head)
           /\ Left(op, k, o.err, head.live, o.head.live, head.live) = o.head.live
<1>1. Altered(head, head)
  BY AlteredItself
<1>2. CASE op = "Set"
  <2>1. PICK set : set = Appended(head, k)
    OBVIOUS
  <2>2. /\ set.live = head.live \cup {k} /\ set.used = head.used + 1 /\ set.size = head.size
        /\ head.used < head.size => Altered(head, set)
    BY <1>2, <2>1, AppendedIs
  <2>3. PICK unused : unused = [head EXCEPT !.used = @ + 1, !.wasted = @ + 1]
    OBVIOUS
  <2>4. head.used < head.size => Altered(head, unused)
    BY <2>3, UnusedIs
  <2>5. head.used \in Nat /\ head.size \in Nat
    BY LiveFinite
  <2>6. \/ o = [err |-> "TIMEOUT", head |-> head]
        \/ o = [err |-> "NO", head |-> head] /\ k \in head.live
        \/ o = [err |-> "NO", head |-> set] /\ head.used < head.size
        \/ o = [err |-> "TIMEOUT", head |-> set] /\ head.used < head.size
        \/ o = [err |-> "TIMEOUT", head |-> unused] /\ head.used < head.size
        \/ o = [err |-> "NOT_ENOUGH_MEMORY", head |-> head]
        \/ o = [err |-> "NOT_ENOUGH_MEMORY", head |-> set] /\ head.used + 1 = head.size
        \/ o = [err |-> "NOT_ENOUGH_MEMORY", head |-> unused] /\ head.used + 1 = head.size
    BY <1>2, <2>1, <2>3 DEF Outcomes, SetOutcomes
  <2>7. CASE o = [err |-> "NO", head |-> head] /\ k \in head.live
    <3>1. o.err = "NO" /\ o.head = head /\ head.live \cup {k} = head.live
      BY <2>7
    <3>2. QED
      BY <1>1, <1>2, <3>1 DEF Left, Errors
  <2>8. CASE o = [err |-> "NO", head |-> set] /\ head.used < head.size
    <3>1. o.err = "NO" /\ o.head = set
      BY <2>8
    <3>2. QED
      BY <1>2, <2>2, <2>8, <3>1 DEF Left, Errors
  <2>9. CASE \/ o = [err |-> "TIMEOUT", head |-> head]
             \/ o = [err |-> "TIMEOUT", head |-> set] /\ head.used < head.size
             \/ o = [err |-> "TIMEOUT", head |-> unused] /\ head.used < head.size
             \/ o = [err |-> "NOT_ENOUGH_MEMORY", head |-> head]
             \/ o = [err |-> "NOT_ENOUGH_MEMORY", head |-> set] /\ head.used + 1 = head.size
             \/ o = [err |-> "NOT_ENOUGH_MEMORY", head |-> unused] /\ head.used + 1 = head.size
    <3>1. o.err \in {"TIMEOUT", "NOT_ENOUGH_MEMORY"}
      BY <2>9
    <3>2. \/ o.head = head
          \/ o.head = set /\ head.used < head.size
          \/ o.head = unused /\ head.used < head.size
      BY <2>2, <2>5, <2>9
    <3>3. Altered(head, o.head)
      BY <1>1, <2>2, <2>4, <3>2
    <3>4. QED
      BY <3>1, <3>3, LeftOfFailure DEF Errors
  <2>10. QED
    BY <2>6, <2>7, <2>8, <2>9
<1>3. CASE op = "Delete"
  <2>1. PICK removed : removed = [head EXCEPT !.live = @ \ {k}]
    OBVIOUS
  <2>2. Altered(head, removed) /\ removed.live = head.live \ {k}
    BY <2>1, RemovedIs
  <2>3. PICK deleted : deleted = [removed EXCEPT !.wasted = @ + 1]
    OBVIOUS
  <2>4. removed \in Header
    BY <2>2 DEF Altered
  <2>5. Altered(removed, deleted) /\ deleted.live = removed.live
    BY <2>3, <2>4, WastedIs
  <2>6. Altered(head, deleted)
    BY <2>2, <2>5 DEF Altered
  <2>7. \/ o = [err |-> "TIMEOUT", head |-> head]
        \/ o = [err |-> "NO", head |-> deleted]
        \/ o = [err |-> "TIMEOUT", head |-> deleted]
        \/ o = [err |-> "TIMEOUT", head |-> removed]
        \/ o = [err |-> "NOT_FOUND", head |-> head]
    BY <1>3, <2>1, <2>3 DEF Outcomes, DeleteOutcomes
  <2>8. CASE o = [err |-> "NO", head |-> deleted]
    <3>1. o.err = "NO" /\ o.head = deleted
      BY <2>8
    <3>2. QED
      BY <1>3, <2>2, <2>5, <2>6, <3>1 DEF Left, Errors
  <2>9. CASE o # [err |-> "NO", head |-> deleted]
    <3>1. o.err \in {"TIMEOUT", "NOT_FOUND"} /\ o.head \in {head, deleted, removed}
      BY <2>7, <2>9
    <3>2. Altered(head, o.head)
      BY <1>1, <2>2, <2>6, <3>1
    <3>3. QED
      BY <3>1, <3>2, LeftOfFailure DEF Errors
  <2>10. QED
    BY <2>8, <2>9
<1>4. CASE op = "Read"
  <2>1. o = [err |-> "NO", head |-> head]
    BY <1>4 DEF Outcomes
  <2>2. o.err = "NO" /\ o.head = head
    BY <2>1
  <2>3. QED
    BY <1>1, <1>4, <2>2, LeftOfFailure DEF Errors
<1>5. QED
  BY <1>2, <1>3, <1>4 DEF Ops

LEMMA OperateInv ==
    ASSUME IInv, NEW t \in Thread, Operate(t)
    PROVE  IInv'
<1> DEFINE d == frame[t]
<1>1. /\ d \in CallFrame /\ StageOK(d) /\ (Holds(d) => spinLock = t)
      /\ ~late => SessionTab(d, selector)
  BY DEF IInv, TypeInv, ThreadInv, KeyInv, Settled
<1>2. /\ frame \in [Thread -> CallFrame] /\ d.tab \in Files /\ ProcessOf[t] \in Process
      /\ disk \in [Files -> DataFile] /\ disk[d.tab].head \in Header
      /\ disk[d.tab].head.readers \in Int /\ expected \subseteq Key
      /\ d.op \in Ops /\ (d.op = "Set" => d.key \in Key)
  BY <1>1, ProcessOfAssumption DEF IInv, TypeInv, CallFrame, Locals, DataFile, Header
<1>3. d.pc = "operate" /\ map[ProcessOf[t]][d.tab].open /\ disk[d.tab].head.signature
  BY <1>2 DEF Operate, At, Usable, P, IInv, SignatureInv
<1>4. PICK f \in Files : f = d.tab
  BY <1>2
<1>5. PICK g \in Header : g = disk[f].head
  BY <1>2, <1>4
<1>6. PICK o \in Outcomes(d.op, g, d.key) :
        /\ disk' = [disk EXCEPT ![f].head = [o.head EXCEPT !.readers = @ - 1]]
        /\ frame' = [frame EXCEPT ![t].err = o.err, ![t].pc = "leave"]
        /\ expected' = Left(d.op, d.key, o.err, g.live, o.head.live, expected)
  BY <1>4, <1>5 DEF Operate, WithHead, Head, Left, Expected
<1>7. /\ o.err \in Errors /\ o.head \in Header
      /\ o.head.signature = g.signature /\ o.head.readers = g.readers /\ o.head.stuck = g.stuck
      /\ Fits(g) => Fits(o.head)
      /\ o.head.live = Left(d.op, d.key, o.err, g.live, o.head.live, g.live)
  BY <1>2, <1>6, OutcomesAre DEF Altered
<1>8. PICK c : c = [d EXCEPT !.err = o.err, !.pc = "leave"]
  OBVIOUS
<1>9. PICK h : h = [o.head EXCEPT !.readers = @ - 1]
  OBVIOUS
<1>10. frame' = [frame EXCEPT ![t] = c] /\ disk' = [disk EXCEPT ![f].head = h]
  BY <1>2, <1>6, <1>8, <1>9
<1>11. UNCHANGED <<map, status, selector, spinLock, late, sync, crossed>>
  BY DEF Operate
<1>12. /\ h \in Header /\ h.signature = g.signature /\ h.live = o.head.live
       /\ h.used = o.head.used /\ h.size = o.head.size /\ h.readers = g.readers - 1
       /\ h.stuck = g.stuck
  BY <1>7, <1>9 DEF Header
<1>13. c \in CallFrame /\ c.pc = "leave" /\ c.stage = d.stage /\ c.tab = d.tab
  BY <1>1, <1>7, <1>8 DEF CallFrame, Locals, PCs
<1>14. expected' \subseteq Key
  <2>1. o.head.live \subseteq Key
    BY <1>7, LiveFinite
  <2>2. QED
    BY <1>2, <1>6, <2>1 DEF Left
<1> HIDE DEF d
<1>15. /\ InSession(d) /\ InSession(c) /\ StageOK(c) /\ (Holds(c) => spinLock = t)
       /\ SessionTab(c, selector)
  BY <1>1, <1>3, <1>13 DEF InSession, SessionPC, StageOK, MaintainPC, Holds, OpenPC, SessionTab, TablePC
<1>16. /\ ~OperatesOn(c, f) /\ OperatesOn(d, f)
       /\ \A e \in Files \ {f} : OperatesOn(c, e) <=> OperatesOn(d, e)
  BY <1>3, <1>4, <1>13 DEF OperatesOn
<1>17. h.readers = disk[f].head.readers + Bit(OperatesOn(c, f)) - Bit(OperatesOn(d, f))
  BY <1>2, <1>4, <1>5, <1>12, <1>16 DEF Bit
<1>18. ~late => f = selector /\ Fits(h) /\ (~crossed => h.live = expected')
  <2>1. SUFFICES ASSUME ~late PROVE f = selector /\ Fits(h) /\ (~crossed => h.live = expected')
    OBVIOUS
  <2>2. f = selector
    BY <1>1, <1>3, <1>4, <2>1 DEF SessionTab, TablePC
  <2>3. Fits(g) /\ (~crossed => g.live = expected)
    BY <1>5, <2>1, <2>2 DEF IInv, KeyInv, Settled
  <2>4. Fits(h)
    BY <1>7, <1>12, <2>3 DEF Fits
  <2>5. ~crossed => h.live = expected'
    BY <1>6, <1>7, <1>12, <2>3
  <2>6. QED
    BY <2>2, <2>4, <2>5
<1>19. h.signature
  BY <1>3, <1>4, <1>5, <1>12
<1>19a. h.stuck => disk[f].head.stuck
  BY <1>5, <1>12
<1>20. QED
  BY <1>10, <1>11, <1>12, <1>13, <1>14, <1>15, <1>16, <1>17, <1>18, <1>19, <1>19a, SessionStep DEF d

-----------------------------------------------------------------------------
(* The maintenance, which changes one header at a time.                    *)

LEMMA MaintainStep ==
    ASSUME IInv, NEW t \in Thread, NEW c \in CallFrame, NEW f \in Files, NEW h \in Header,
           frame' = [frame EXCEPT ![t] = c],
           disk' = [disk EXCEPT ![f].head = h],
           UNCHANGED <<map, status, selector, spinLock, late, sync, expected, crossed>>,
           h.signature, h.stuck => disk[f].head.stuck, Alone(frame[t]), Alone(c), StageOK(c), OnActive(c, selector),
           ~late => /\ h.readers = 0 /\ Fits(h)
                    /\ f = selector /\ ~crossed => h.live = expected
                    /\ SessionTab(c, selector)
                    /\ c.pc # "construct" /\ Empty(c)' /\ Copied(c)'
    PROVE  IInv'
<1>1. Holds(c) /\ Holds(frame[t]) /\ spinLock = t /\ ~InSession(c) /\ ~InSession(frame[t])
      /\ c.pc # "operate" /\ frame[t].pc # "operate"
  <2>1. StageOK(frame[t]) /\ (Holds(frame[t]) => spinLock = t)
    BY DEF IInv, ThreadInv
  <2>2. QED
    BY <2>1 DEF Alone, Holds, InSession, StageOK, MaintainPC
<1>2. expected' \subseteq Key
  BY DEF IInv, TypeInv
<1>3. /\ TypeInv' /\ ThreadInv' /\ SignatureInv' /\ StuckInv'
      /\ frame'[t] = c
      /\ \A u \in Thread \ {t} : frame'[u] = frame[u]
      /\ disk'[f].head = h
      /\ \A g \in Files \ {f} : disk'[g] = disk[g]
  BY <1>1, <1>2, HeadFrame
<1>4. /\ map' = map /\ selector' = selector /\ late' = late /\ sync' = sync /\ crossed' = crossed /\ expected' = expected
  OBVIOUS
<1>5. CountInv'
  <2>1. /\ Cardinality(Reading)' = Cardinality(Reading) + Bit(InSession(c)) - Bit(InSession(frame[t]))
        /\ \A g : Cardinality(Operating(g))' = Cardinality(Operating(g))
                    + Bit(OperatesOn(c, g)) - Bit(OperatesOn(frame[t], g))
    BY <1>3, CountStep
  <2>2. Cardinality(Reading) \in Nat /\ \A g : Cardinality(Operating(g)) \in Nat
    BY SetsFinite
  <2>3. Cardinality(Reading)' = Cardinality(Reading)
    BY <1>1, <2>1, <2>2 DEF Bit
  <2>4. Spare' = Spare
    BY <1>4, <2>3 DEF Spare
  <2>5. ASSUME NEW g PROVE Cardinality(Operating(g))' = Cardinality(Operating(g))
    <3>1. Bit(OperatesOn(c, g)) = 0 /\ Bit(OperatesOn(frame[t], g)) = 0
      BY <1>1 DEF Bit, OperatesOn
    <3>2. QED
      BY <2>1, <2>2, <3>1
  <2>6. ASSUME ~late' PROVE SpareOf(0)' = 0 /\ SpareOf(1)' = 0 /\ Spare' = 0
    <3>1. ~late
      BY <1>4, <2>6
    <3>2. /\ \A g \in Files : disk[g].head.readers = 0
          /\ Spare = 0 /\ \A g : Cardinality(Operating(g)) = 0
      BY <3>1, Nobody
    <3>3. ASSUME NEW g \in Files PROVE disk'[g].head.readers = 0
      BY <1>3, <3>1, <3>2
    <3>4. QED
      BY <2>4, <2>5, <3>2, <3>3 DEF SpareOf, Files
  <2>7. QED
    BY <2>4, <2>6 DEF IInv, CountInv
<1>6. KeyInv'
  <2> SUFFICES ASSUME ~late' PROVE Settled'
    BY DEF KeyInv
  <2>1. ~late /\ Settled
    BY <1>4 DEF IInv, KeyInv
  <2>2. ASSUME NEW u \in Thread
        PROVE  /\ Alone(frame'[u]) => sync'.readers = 0
               /\ SessionTab(frame'[u], selector')
               /\ Roomy(frame[u], ProcessOf[u])' /\ Empty(frame[u])' /\ Copied(frame[u])'
    <3>1. CASE u = t
      <4>1. frame'[u] = c
        BY <1>3, <3>1
      <4>2. Roomy(frame[u], ProcessOf[u])'
        BY <2>1, <4>1 DEF Roomy
      <4>3. Empty(frame[u])' /\ Copied(frame[u])'
        BY <2>1, <4>1 DEF Empty, Copied
      <4>4. sync.readers = 0
        BY <2>1 DEF Settled
      <4>5. QED
        BY <1>4, <2>1, <4>1, <4>2, <4>3, <4>4
    <3>2. CASE u # t
      <4>1. frame'[u] = frame[u]
        BY <1>3, <3>2
      <4>2. ~Alone(frame[u]) /\ frame[u].pc \notin {"construct", "setReadOnly", "copy", "flip"}
        BY <1>1, <3>2, OneHolder
      <4>3. SessionTab(frame[u], selector)
        BY <2>1 DEF Settled
      <4>4. Roomy(frame[u], ProcessOf[u])' /\ Empty(frame[u])' /\ Copied(frame[u])'
        BY <4>1, <4>2 DEF Roomy, Empty, Copied
      <4>5. QED
        BY <1>4, <4>1, <4>2, <4>3, <4>4
    <3>3. QED
      BY <3>1, <3>2
  <2>3. (~crossed' => disk'[selector'].head.live = expected')
    <3>1. selector \in Files /\ (~crossed => disk[selector].head.live = expected)
      BY <2>1 DEF IInv, TypeInv, Settled
    <3>2. CASE f = selector
      BY <1>3, <1>4, <2>1, <3>2
    <3>3. CASE f # selector
      BY <1>3, <1>4, <3>1, <3>3
    <3>4. QED
      BY <3>2, <3>3
  <2>4. ASSUME NEW g \in Files PROVE Fits(disk[g].head)'
    <3>1. CASE g = f
      BY <1>3, <2>1, <3>1 DEF Fits
    <3>2. CASE g # f
      <4>1. disk'[g] = disk[g]
        BY <1>3, <3>2
      <4>2. Fits(disk[g].head)
        BY <2>1 DEF Settled
      <4>3. QED
        BY <4>1, <4>2 DEF Fits
    <3>3. QED
      BY <3>1, <3>2
  <2>5. QED
    BY <2>2, <2>3, <2>4 DEF Settled
<1>7. QED
  BY <1>3, <1>5, <1>6 DEF IInv

\* A table that is copied into an empty one which is as large.
LEMMA CopyIs ==
    ASSUME NEW source \in Header, NEW target \in Header
    PROVE  LET h == CopyTo(source, target)
           IN /\ h \in Header /\ h.signature = target.signature /\ h.readers = target.readers
              /\ h.stuck = target.stuck
              /\ h.size = target.size
              /\ (target.readers = 0 /\ target.live = {} /\ target.used = 0
                    /\ Fits(source) /\ source.size <= target.size)
                 => h.live = source.live /\ Fits(h)
<1> DEFINE copied == {k \in source.live :
                        Cardinality({j \in source.live : j <= k}) <= target.size - target.used}
<1>1. /\ source.live \subseteq Key /\ target.live \subseteq Key
      /\ target.used \in Nat /\ target.size \in Nat /\ source.size \in Nat /\ source.used \in Nat
      /\ IsFiniteSet(source.live)
  BY KeyAssumption, FS_Subset DEF Header
<1>2. copied \in SUBSET source.live
  OBVIOUS
<1>3. Cardinality(copied) \in Nat
  BY <1>1, <1>2, FS_Subset, FS_CardinalityType
<1>4. CopyRecords(source, target)
        = [target EXCEPT !.live = @ \cup copied, !.used = @ + Cardinality(copied)]
  BY DEF CopyRecords
<1>5. ASSUME target.readers = 0, target.live = {}, target.used = 0,
             Fits(source), source.size <= target.size
      PROVE  copied = source.live /\ Cardinality(copied) <= target.size
  <2>1. Cardinality(source.live) \in Nat
    BY <1>1, FS_CardinalityType
  <2>2. Cardinality(source.live) <= target.size
    BY <1>1, <1>5, <2>1 DEF Fits
  <2>3. ASSUME NEW k \in source.live
        PROVE  Cardinality({j \in source.live : j <= k}) <= target.size - target.used
    <3>1. PICK S : S = {j \in source.live : j <= k}
      OBVIOUS
    <3>2. S \in SUBSET source.live
      BY <3>1
    <3>3. IsFiniteSet(S) /\ Cardinality(S) <= Cardinality(source.live)
      BY <1>1, <3>2, FS_Subset
    <3>4. Cardinality(S) \in Nat
      BY <3>3, FS_CardinalityType
    <3>5. Cardinality(S) <= target.size - target.used
      BY <1>1, <1>5, <2>1, <2>2, <3>3, <3>4
    <3>6. QED
      BY <3>1, <3>5
  <2>4. copied = source.live
    BY <2>3
  <2> HIDE DEF copied
  <2>5. QED
    BY <2>2, <2>4
<1> HIDE DEF copied
<1>6. CASE target.readers = 0
  <2>1. target.live \cup copied \in SUBSET Key /\ target.used + Cardinality(copied) \in Nat
    BY <1>1, <1>2, <1>3
  <2>2. PICK L \in SUBSET Key, n \in Nat : L = target.live \cup copied /\ n = target.used + Cardinality(copied)
    BY <2>1
  <2>3. CopyTo(source, target) = [target EXCEPT !.live = L, !.used = n]
    BY <1>4, <1>6, <2>2 DEF CopyTo
  <2>4. PICK h : h = [target EXCEPT !.live = L, !.used = n]
    OBVIOUS
  <2>5. /\ h \in Header /\ h.signature = target.signature /\ h.readers = target.readers
        /\ h.stuck = target.stuck
        /\ h.size = target.size /\ h.live = L /\ h.used = n
    BY <2>4 DEF Header
  <2>6. ASSUME target.live = {}, target.used = 0, Fits(source), source.size <= target.size
        PROVE  h.live = source.live /\ Fits(h)
    <3>1. copied = source.live /\ Cardinality(copied) <= target.size
      BY <1>5, <1>6, <2>6
    <3>2. L = source.live /\ n = Cardinality(source.live)
      BY <1>3, <2>2, <2>6, <3>1
    <3>3. QED
      BY <1>1, <1>3, <2>5, <3>1, <3>2 DEF Fits
  <2>7. QED
    BY <2>3, <2>4, <2>5, <2>6
<1>7. CASE target.readers # 0
  BY <1>7 DEF CopyTo
<1>8. QED
  BY <1>6, <1>7

LEMMA ConstructInactiveInv ==
    ASSUME IInv, NEW t \in Thread, ConstructInactive(t)
    PROVE  IInv'
<1> DEFINE d == frame[t]
<1>1. /\ d \in CallFrame /\ StageOK(d) /\ OnActive(d, selector) /\ (Holds(d) => spinLock = t)
      /\ ~late => SessionTab(d, selector) /\ Roomy(d, ProcessOf[t]) /\ Empty(d) /\ Copied(d)
  BY DEF IInv, TypeInv, ThreadInv, KeyInv, Settled
<1>2. /\ frame \in [Thread -> CallFrame] /\ d.tab \in Files /\ ProcessOf[t] \in Process
      /\ disk \in [Files -> DataFile] /\ (\A e \in Files : disk[e].head \in Header)
      /\ map \in [Process -> [Files -> Mapping]] /\ selector \in Files
  BY <1>1, ProcessOfAssumption DEF IInv, TypeInv, CallFrame, Locals, DataFile
<1>3. d.pc = "construct" /\ d.stage = 3
  BY <1>1 DEF ConstructInactive, At, StageOK, MaintainPC
<1>4. d.tab = selector /\ Alone(d)
  BY <1>1, <1>3 DEF OnActive, Alone
<1>5. PICK f \in Files : f = 1 - d.tab
  BY <1>2 DEF Files
<1>6. f # d.tab /\ f = Other(t)
  BY <1>2, <1>5 DEF Files, Other
<1>7. PICK c : c = [d EXCEPT !.pc = "setReadOnly"]
  OBVIOUS
<1>8. c \in CallFrame /\ c.pc = "setReadOnly" /\ c.stage = d.stage /\ c.tab = d.tab
  BY <1>1, <1>7 DEF CallFrame, Locals, PCs
<1>9. PICK m \in Mapping : m = map[ProcessOf[t]][f]
  BY <1>2
<1>10. m.size \in Nat
  BY DEF Mapping
<1>11. PICK h : h = [Blank EXCEPT !.signature = TRUE, !.size = m.size]
  OBVIOUS
<1>11a. /\ h \in Header /\ h.signature = TRUE /\ h.size = m.size /\ h.live = {}
        /\ h.used = 0 /\ h.readOnly = FALSE /\ h.readers = 0 /\ h.stuck = FALSE
  BY <1>10, <1>11, FreshIs
<1>11b. /\ m.open
        /\ frame' = [frame EXCEPT ![t] = c]
        /\ disk' = [disk EXCEPT ![f].head = h]
        /\ UNCHANGED <<map, status, selector, spinLock, late, sync, expected, crossed>>
  BY <1>2, <1>6, <1>7, <1>9, <1>11 DEF ConstructInactive, Construct, WithHead, Goto, P
<1> HIDE DEF d
<1>12. /\ Alone(c) /\ StageOK(c) /\ OnActive(c, selector) /\ SessionTab(c, selector)
  BY <1>3, <1>4, <1>8 DEF Alone, StageOK, OnActive, OpenPC, MaintainPC, SessionTab, TablePC
<1>13. ~late => /\ h.readers = 0 /\ Fits(h) /\ f # selector /\ c.pc # "construct"
                /\ Empty(c)' /\ Copied(c)'
  <2> SUFFICES ASSUME ~late
               PROVE  /\ h.readers = 0 /\ Fits(h) /\ f # selector /\ c.pc # "construct"
                      /\ Empty(c)' /\ Copied(c)'
    OBVIOUS
  <2>1. Fits(h)
    BY <1>10, <1>11a, FS_EmptySet DEF Fits
  <2>2. disk[d.tab].head.size <= m.size
    BY <1>1, <1>3, <1>5, <1>9, <1>11b DEF Roomy
  <2>3. disk'[f].head = h /\ disk'[d.tab] = disk[d.tab]
    BY <1>2, <1>6, <1>11b
  <2>4. Empty(c)'
    BY <1>5, <1>8, <1>11a, <2>2, <2>3 DEF Empty
  <2>5. Copied(c)'
    BY <1>8 DEF Copied
  <2>6. QED
    BY <1>4, <1>6, <1>8, <1>11a, <2>1, <2>4, <2>5
<1>14. QED
  BY <1>4, <1>8, <1>11a, <1>11b, <1>12, <1>13, MaintainStep DEF d

LEMMA CopyToInactiveInv ==
    ASSUME IInv, NEW t \in Thread, CopyToInactive(t)
    PROVE  IInv'
<1> DEFINE d == frame[t]
<1>1. /\ d \in CallFrame /\ StageOK(d) /\ OnActive(d, selector) /\ (Holds(d) => spinLock = t)
      /\ ~late => SessionTab(d, selector) /\ Roomy(d, ProcessOf[t]) /\ Empty(d) /\ Copied(d)
  BY DEF IInv, TypeInv, ThreadInv, KeyInv, Settled
<1>2. /\ frame \in [Thread -> CallFrame] /\ d.tab \in Files /\ ProcessOf[t] \in Process
      /\ disk \in [Files -> DataFile] /\ (\A e \in Files : disk[e].head \in Header)
      /\ map \in [Process -> [Files -> Mapping]] /\ selector \in Files
  BY <1>1, ProcessOfAssumption DEF IInv, TypeInv, CallFrame, Locals, DataFile
<1>3. d.pc = "copy" /\ d.stage = 3
  BY <1>1 DEF CopyToInactive, At, StageOK, MaintainPC
<1>4. d.tab = selector /\ Alone(d)
  BY <1>1, <1>3 DEF OnActive, Alone
<1>5. PICK f \in Files : f = 1 - d.tab
  BY <1>2 DEF Files
<1>6. f # d.tab /\ f = Other(t)
  BY <1>2, <1>5 DEF Files, Other
<1>7. PICK c : c = [d EXCEPT !.pc = "flip"]
  OBVIOUS
<1>8. c \in CallFrame /\ c.pc = "flip" /\ c.stage = d.stage /\ c.tab = d.tab
  BY <1>1, <1>7 DEF CallFrame, Locals, PCs
<1>9. PICK source \in Header, target \in Header : source = disk[d.tab].head /\ target = disk[f].head
  BY <1>2
<1>10. PICK h : h = CopyTo(source, target)
  OBVIOUS
<1>11a. /\ h \in Header /\ h.signature = target.signature /\ h.readers = target.readers
        /\ h.stuck = target.stuck
        /\ h.size = target.size
        /\ (target.readers = 0 /\ target.live = {} /\ target.used = 0
              /\ Fits(source) /\ source.size <= target.size)
           => h.live = source.live /\ Fits(h)
  BY <1>10, CopyIs
<1>11b. /\ map[ProcessOf[t]][f].open
        /\ frame' = [frame EXCEPT ![t] = c]
        /\ disk' = [disk EXCEPT ![f].head = h]
        /\ UNCHANGED <<map, status, selector, spinLock, late, sync, expected, crossed>>
  BY <1>2, <1>6, <1>7, <1>9, <1>10 DEF CopyToInactive, WithHead, Goto, P, Head
<1>11c. h.signature /\ (h.stuck => disk[f].head.stuck)
  BY <1>2, <1>9, <1>11a, <1>11b DEF IInv, SignatureInv
<1> HIDE DEF d
<1>12. /\ Alone(c) /\ StageOK(c) /\ OnActive(c, selector) /\ SessionTab(c, selector)
  BY <1>3, <1>4, <1>8 DEF Alone, StageOK, OnActive, OpenPC, MaintainPC, SessionTab, TablePC
<1>13. ~late => /\ h.readers = 0 /\ Fits(h) /\ f # selector /\ c.pc # "construct"
                /\ Empty(c)' /\ Copied(c)'
  <2> SUFFICES ASSUME ~late
               PROVE  /\ h.readers = 0 /\ Fits(h) /\ f # selector /\ c.pc # "construct"
                      /\ Empty(c)' /\ Copied(c)'
    OBVIOUS
  <2>1. /\ target.live = {} /\ target.used = 0 /\ target.readers = 0 /\ source.size <= target.size
    BY <1>1, <1>3, <1>5, <1>9 DEF Empty
  <2>2. Fits(source) /\ (~crossed => source.live = expected)
    BY <1>2, <1>4, <1>9 DEF IInv, KeyInv, Settled
  <2>3. (~crossed => h.live = expected) /\ Fits(h) /\ h.readers = 0
    BY <1>11a, <2>1, <2>2
  <2>4. disk'[f].head = h
    BY <1>2, <1>11b
  <2>5. Empty(c)'
    BY <1>8 DEF Empty
  <2>6. Copied(c)'
    BY <1>5, <1>8, <1>11b, <2>3, <2>4 DEF Copied
  <2>7. QED
    BY <1>4, <1>6, <1>8, <2>3, <2>5, <2>6
<1>14. QED
  BY <1>4, <1>8, <1>11a, <1>11b, <1>11c, <1>12, <1>13, MaintainStep DEF d

LEMMA SetReadOnlyInv ==
    ASSUME IInv, NEW t \in Thread, SetReadOnly(t)
    PROVE  IInv'
<1> DEFINE d == frame[t]
<1>1. /\ d \in CallFrame /\ StageOK(d) /\ OnActive(d, selector) /\ (Holds(d) => spinLock = t)
      /\ ~late => SessionTab(d, selector) /\ Roomy(d, ProcessOf[t]) /\ Empty(d) /\ Copied(d)
  BY DEF IInv, TypeInv, ThreadInv, KeyInv, Settled
<1>2. /\ frame \in [Thread -> CallFrame] /\ d.tab \in Files /\ ProcessOf[t] \in Process
      /\ disk \in [Files -> DataFile] /\ (\A e \in Files : disk[e].head \in Header)
      /\ map \in [Process -> [Files -> Mapping]] /\ selector \in Files
  BY <1>1, ProcessOfAssumption DEF IInv, TypeInv, CallFrame, Locals, DataFile
<1>3. d.pc = "setReadOnly" /\ d.stage = 3
  BY <1>1 DEF SetReadOnly, At, StageOK, MaintainPC
<1>4. d.tab = selector /\ Alone(d)
  BY <1>1, <1>3 DEF OnActive, Alone
<1>5. PICK f \in Files : f = 1 - d.tab
  BY <1>2 DEF Files
<1>6. f # d.tab /\ f = Other(t)
  BY <1>2, <1>5 DEF Files, Other
<1>7. CASE disk[d.tab].head.readers = 0
  <2>1. PICK c : c = [d EXCEPT !.pc = "copy"]
    OBVIOUS
  <2>2. c \in CallFrame /\ c.pc = "copy" /\ c.stage = d.stage /\ c.tab = d.tab
    BY <1>1, <2>1 DEF CallFrame, Locals, PCs
  <2>3. PICK e \in Files, g \in Header : e = d.tab /\ g = disk[e].head
    BY <1>2
  <2>4. PICK h : h = [g EXCEPT !.readOnly = TRUE]
    OBVIOUS
  <2>5. /\ h \in Header /\ h.signature = g.signature /\ h.live = g.live /\ h.used = g.used
        /\ h.size = g.size /\ h.readers = g.readers /\ h.stuck = g.stuck
    BY <2>4 DEF Header
  <2>6. /\ map[ProcessOf[t]][e].open
        /\ frame' = [frame EXCEPT ![t] = c]
        /\ disk' = [disk EXCEPT ![e].head = h]
        /\ UNCHANGED <<map, status, selector, spinLock, late, sync, expected, crossed>>
    BY <1>2, <1>7, <2>1, <2>3, <2>4 DEF SetReadOnly, WithHead, Goto, P, Head, Usable
  <2>7. h.signature /\ (h.stuck => disk[e].head.stuck)
    BY <1>2, <2>3, <2>5, <2>6 DEF IInv, SignatureInv
  <2> HIDE DEF d
  <2>8. /\ Alone(c) /\ StageOK(c) /\ OnActive(c, selector) /\ SessionTab(c, selector)
    BY <1>3, <1>4, <2>2 DEF Alone, StageOK, OnActive, OpenPC, MaintainPC, SessionTab, TablePC
  <2>9. ~late => /\ h.readers = 0 /\ Fits(h) /\ (~crossed => h.live = expected) /\ c.pc # "construct"
                 /\ Empty(c)' /\ Copied(c)'
    <3> SUFFICES ASSUME ~late
                 PROVE  /\ h.readers = 0 /\ Fits(h) /\ (~crossed => h.live = expected) /\ c.pc # "construct"
                        /\ Empty(c)' /\ Copied(c)'
      OBVIOUS
    <3>1. h.readers = 0
      BY <1>7, <2>3, <2>5
    <3>2. Fits(g) /\ (~crossed => g.live = expected)
      BY <1>4, <2>3 DEF IInv, KeyInv, Settled
    <3>3. Fits(h) /\ (~crossed => h.live = expected)
      BY <2>5, <3>2 DEF Fits
    <3>4. disk'[f] = disk[f] /\ disk'[d.tab].head = h
      BY <1>2, <1>6, <2>3, <2>6
    <3>5. Empty(c)'
      BY <1>1, <1>3, <1>5, <2>2, <2>3, <2>5, <3>4 DEF Empty
    <3>6. Copied(c)'
      BY <2>2 DEF Copied
    <3>7. QED
      BY <2>2, <3>1, <3>3, <3>5, <3>6
  <2>10. QED
    BY <1>4, <2>2, <2>5, <2>6, <2>7, <2>8, <2>9, MaintainStep DEF d
<1>8. CASE disk[d.tab].head.readers # 0
  <2>1. PICK c : c = [d EXCEPT !.pc = "flip"]
    OBVIOUS
  <2>2. c \in CallFrame /\ c.pc = "flip" /\ c.stage = d.stage /\ c.tab = d.tab
    BY <1>1, <2>1 DEF CallFrame, Locals, PCs
  <2>3. /\ frame' = [frame EXCEPT ![t] = c]
        /\ UNCHANGED <<disk, map, status, selector, spinLock, late, sync, expected, crossed>>
    BY <1>2, <1>8, <2>1 DEF SetReadOnly, Goto, Head
  <2>4. late
    BY <1>2, <1>4, <1>8, Nobody DEF d
  <2> HIDE DEF d
  <2>5. /\ StageOK(c) /\ OnActive(c, selector) /\ Holds(c) /\ spinLock = t
        /\ ~InSession(c) /\ ~InSession(d) /\ \A e : ~OperatesOn(c, e) /\ ~OperatesOn(d, e)
    BY <1>1, <1>3, <1>4, <2>2
       DEF StageOK, OnActive, OpenPC, MaintainPC, Holds, InSession, SessionPC, OperatesOn
  <2>6. /\ sync' \in [state : Nat, readers : Int] /\ sync'.readers = sync.readers
        /\ status' \in [Process -> {"closed", "opening", "open"}]
        /\ spinLock' = spinLock /\ spinLock' \in Thread \cup {NoThread, DeadThread}
    BY <2>3 DEF IInv, TypeInv
  <2>7. QED
    BY <2>2, <2>3, <2>4, <2>5, <2>6, LocalStep DEF d
<1>9. QED
  BY <1>7, <1>8

-----------------------------------------------------------------------------
(* Sessions of the shared machine begin and end, and the selector flips.   *)

\* What the frame of a thread at rest, entering or leaving contributes to the
\* invariant: nothing beyond its session.
LEMMA OtherFrames ==
    ASSUME Settled, NEW t \in Thread, NEW c,
           frame'[t] = c, \A u \in Thread \ {t} : frame'[u] = frame[u],
           UNCHANGED <<disk, map, selector, expected, crossed>>,
           sync'.readers = sync.readers \/ \A u \in Thread : ~Alone(frame[u]),
           ~Alone(c), SessionTab(c, selector),
           c.pc \notin {"construct", "setReadOnly", "copy", "flip"}
    PROVE  Settled'
<1>1. ASSUME NEW u \in Thread
      PROVE  /\ Alone(frame'[u]) => sync'.readers = 0
             /\ SessionTab(frame'[u], selector')
             /\ Roomy(frame[u], ProcessOf[u])' /\ Empty(frame[u])' /\ Copied(frame[u])'
  <2>1. CASE u = t
    <3>1. frame'[u] = c /\ selector' = selector
      BY <2>1
    <3>2. Roomy(frame[u], ProcessOf[u])' /\ Empty(frame[u])' /\ Copied(frame[u])'
      BY <3>1 DEF Roomy, Empty, Copied
    <3>3. QED
      BY <3>1, <3>2
  <2>2. CASE u # t
    <3>1. PICK e : e = frame[u]
      OBVIOUS
    <3>2. /\ Alone(e) => sync.readers = 0
          /\ SessionTab(e, selector)
          /\ Roomy(e, ProcessOf[u]) /\ Empty(e) /\ Copied(e)
      BY <3>1 DEF Settled
    <3>3. frame'[u] = e /\ selector' = selector
      BY <2>2, <3>1
    <3>4. Alone(e) => sync'.readers = 0
      BY <3>1, <3>2
    <3>5. Roomy(frame[u], ProcessOf[u])'
      BY <3>2, <3>3 DEF Roomy
    <3>6. Empty(frame[u])'
      BY <3>2, <3>3 DEF Empty
    <3>7. Copied(frame[u])'
      BY <3>2, <3>3 DEF Copied
    <3>8. QED
      BY <3>2, <3>3, <3>4, <3>5, <3>6, <3>7
  <2>3. QED
    BY <2>1, <2>2
<1>2. (~crossed' => disk'[selector'].head.live = expected') /\ \A f \in Files : Fits(disk[f].head)'
  BY DEF Settled, Fits
<1>3. QED
  BY <1>1, <1>2 DEF Settled

LEMMA EnterSyncInv ==
    ASSUME IInv, NEW t \in Thread, EnterSync(t)
    PROVE  IInv'
<1> DEFINE d == frame[t]
<1>1. /\ d \in CallFrame /\ StageOK(d) /\ (Holds(d) => spinLock = t)
  BY DEF IInv, TypeInv, ThreadInv
<1>2. /\ frame \in [Thread -> CallFrame] /\ sync \in [state : Nat, readers : Int]
      /\ sync.readers \in Int
  BY DEF IInv, TypeInv
<1>3. d.pc = "enter"
  BY DEF EnterSync, At
<1>4. PICK c : c = [d EXCEPT !.pc = "active"]
  OBVIOUS
<1>5. c \in CallFrame /\ c.pc = "active" /\ c.stage = d.stage
  BY <1>1, <1>4 DEF CallFrame, Locals, PCs
<1>6. /\ frame' = [frame EXCEPT ![t] = c]
      /\ UNCHANGED <<disk, map, status, selector, spinLock, expected, crossed>>
      /\ late' = (late \/ \E u \in Thread : Maintains(u))
  BY <1>2, <1>4 DEF EnterSync, Goto, files
<1>7. sync' \in [state : Nat, readers : Int] /\ sync'.readers = sync.readers + 1
  BY <1>2 DEF EnterSync
<1>8. late' \in BOOLEAN /\ (late => late') /\ (~late' => \A u \in Thread : ~Alone(frame[u]))
  BY <1>6 DEF Maintains, Alone, At, IInv, TypeInv
<1> HIDE DEF d
<1>9. /\ ~InSession(d) /\ InSession(c) /\ StageOK(c) /\ (Holds(c) => spinLock' = t)
      /\ OnActive(c, selector') /\ ~Alone(c) /\ SessionTab(c, selector)
      /\ c.pc # "operate" /\ d.pc # "operate"
  BY <1>1, <1>3, <1>5, <1>6
     DEF InSession, SessionPC, StageOK, MaintainPC, Holds, OpenPC, OnActive, Alone, SessionTab, TablePC
<1>10. /\ frame' \in [Thread -> CallFrame] /\ frame'[t] = c
       /\ \A u \in Thread \ {t} : frame'[u] = frame[u]
       /\ ThreadInv'
  <2>1. selector' = selector \/ frame[t].stage = 3
    BY <1>6
  <2>2. spinLock' = spinLock \/ spinLock \in {t, NoThread}
    BY <1>6
  <2>3. TypeInv /\ ThreadInv
    BY DEF IInv
  <2>4. QED
    BY <1>5, <1>6, <1>9, <2>1, <2>2, <2>3, ThreadStep
<1>11. TypeInv'
  BY <1>6, <1>7, <1>8, <1>10 DEF IInv, TypeInv
<1>12. SignatureInv'
  BY <1>6 DEF IInv, SignatureInv, Signed
<1>13. Cardinality(Reading) \in Nat /\ \A f : Cardinality(Operating(f)) \in Nat
  BY SetsFinite
<1>14. /\ Cardinality(Reading)' = Cardinality(Reading) + Bit(InSession(c)) - Bit(InSession(d))
       /\ \A g : Cardinality(Operating(g))' = Cardinality(Operating(g))
                   + Bit(OperatesOn(c, g)) - Bit(OperatesOn(d, g))
  BY <1>10, CountStep DEF d
<1>15. CountInv'
  <2>1. Cardinality(Reading)' = Cardinality(Reading) + 1
    BY <1>9, <1>13, <1>14 DEF Bit
  <2>2. Spare' = Spare
    BY <1>2, <1>7, <1>13, <2>1 DEF Spare
  <2>3. ASSUME NEW g PROVE Cardinality(Operating(g))' = Cardinality(Operating(g))
    <3>1. Bit(OperatesOn(c, g)) = 0 /\ Bit(OperatesOn(d, g)) = 0
      BY <1>9 DEF Bit, OperatesOn
    <3>2. QED
      BY <1>13, <1>14, <3>1
  <2>4. SpareOf(0)' = SpareOf(0) /\ SpareOf(1)' = SpareOf(1)
    BY <1>6, <2>3 DEF SpareOf
  <2>5. QED
    BY <1>8, <2>2, <2>4 DEF IInv, CountInv
<1>16. KeyInv'
  <2> SUFFICES ASSUME ~late' PROVE Settled'
    BY DEF KeyInv
  <2>1. Settled /\ \A u \in Thread : ~Alone(frame[u])
    BY <1>8 DEF IInv, KeyInv
  <2>2. QED
    BY <1>5, <1>6, <1>9, <1>10, <2>1, OtherFrames
<1>17a. StuckInv'
  BY <1>6 DEF IInv, StuckInv
<1>17. QED
  BY <1>10, <1>11, <1>12, <1>15, <1>16, <1>17a DEF IInv

LEMMA LeaveSyncInv ==
    ASSUME IInv, NEW t \in Thread, LeaveSync(t)
    PROVE  IInv'
<1> DEFINE d == frame[t]
           starved == d.op = "Set" /\ d.err = "NOT_ENOUGH_MEMORY"
           next == CASE d.stage = 1 /\ starved -> "lock"
                     [] d.stage = 2 /\ starved -> "beginWrite"
                     [] d.stage = 1 /\ ~starved -> "idle"
                     [] OTHER -> "release"
           c == IF next = "idle" THEN NoCall
                ELSE [NoCall EXCEPT !.pc = next, !.stage = d.stage, !.op = d.op, !.key = d.key]
<1>1. /\ d \in CallFrame /\ StageOK(d) /\ (Holds(d) => spinLock = t)
      /\ d.stage \in 1 .. 4
  BY DEF IInv, TypeInv, ThreadInv, CallFrame, Locals
<1>2. /\ frame \in [Thread -> CallFrame] /\ sync \in [state : Nat, readers : Int]
      /\ sync.readers \in Int
  BY DEF IInv, TypeInv
<1>3. d.pc = "leave" /\ d.stage # 3
  BY <1>1 DEF LeaveSync, At, StageOK, MaintainPC
<1>4. /\ frame' = [frame EXCEPT ![t] = c]
      /\ UNCHANGED <<disk, map, status, selector, spinLock, expected, late, crossed>>
  BY DEF LeaveSync, files
<1>5. sync' \in [state : Nat, readers : Int] /\ sync'.readers = sync.readers - 1
  BY <1>2 DEF LeaveSync
<1>6. /\ next \in {"lock", "beginWrite", "idle", "release"}
      /\ next \in {"lock", "idle"} => d.stage = 1
      /\ next = "beginWrite" => d.stage = 2
      /\ next = "release" => d.stage \in {2, 4}
  BY <1>1, <1>3
<1> HIDE DEF next, starved
<1>7. c \in CallFrame /\ c.pc = next /\ c.stage = d.stage
  <2>1. CASE next = "idle"
    BY <1>6, <2>1, NoCallIdle
  <2>2. CASE next # "idle"
    <3>1. c = [NoCall EXCEPT !.pc = next, !.stage = d.stage, !.op = d.op, !.key = d.key]
      BY <2>2
    <3>2. NoCall \in Locals /\ d \in Locals /\ (d.op = "Set" => d.key \in Key)
      BY <1>1, NoCallIdle DEF CallFrame
    <3> HIDE DEF c
    <3>3. next \in PCs
      BY <1>6 DEF PCs
    <3>4. /\ c \in Locals /\ c.pc = next /\ c.stage = d.stage /\ c.op = d.op /\ c.key = d.key
      BY <3>1, <3>2, <3>3 DEF Locals
    <3>5. QED
      BY <3>2, <3>4 DEF CallFrame
  <2>3. QED
    BY <2>1, <2>2
<1>7a. PICK e : e = c
  OBVIOUS
<1>7b. e \in CallFrame /\ e.pc = next /\ e.stage = d.stage /\ frame' = [frame EXCEPT ![t] = e]
  BY <1>4, <1>7, <1>7a
<1>7c. PICK l : l = next
  OBVIOUS
<1>7d. /\ e.pc = l /\ l \in {"lock", "beginWrite", "idle", "release"}
       /\ l \in {"lock", "idle"} => d.stage = 1
       /\ l = "beginWrite" => d.stage = 2
       /\ l = "release" => d.stage \in {2, 4}
  BY <1>6, <1>7b, <1>7c
<1> HIDE DEF d, c
<1>9. /\ InSession(d) /\ ~InSession(e) /\ StageOK(e) /\ (Holds(e) => spinLock' = t)
      /\ OnActive(e, selector') /\ ~Alone(e) /\ SessionTab(e, selector)
      /\ e.pc # "operate" /\ d.pc # "operate"
      /\ e.pc \notin {"construct", "setReadOnly", "copy", "flip"}
  BY <1>1, <1>3, <1>7b, <1>7d, <1>4
     DEF InSession, SessionPC, StageOK, MaintainPC, Holds, OpenPC, OnActive, Alone, SessionTab, TablePC
<1>10. /\ frame' \in [Thread -> CallFrame] /\ frame'[t] = e
       /\ \A u \in Thread \ {t} : frame'[u] = frame[u]
       /\ ThreadInv'
  <2>1. selector' = selector \/ frame[t].stage = 3
    BY <1>4
  <2>2. spinLock' = spinLock \/ spinLock \in {t, NoThread}
    BY <1>4
  <2>3. TypeInv /\ ThreadInv
    BY DEF IInv
  <2>4. QED
    BY <1>7b, <1>9, <2>1, <2>2, <2>3, ThreadStep
<1>11. TypeInv'
  BY <1>4, <1>5, <1>10 DEF IInv, TypeInv
<1>12. SignatureInv'
  BY <1>4 DEF IInv, SignatureInv, Signed
<1>13. Cardinality(Reading) \in Nat /\ \A f : Cardinality(Operating(f)) \in Nat
  BY SetsFinite
<1>14. /\ Cardinality(Reading)' = Cardinality(Reading) + Bit(InSession(e)) - Bit(InSession(d))
       /\ \A g : Cardinality(Operating(g))' = Cardinality(Operating(g))
                   + Bit(OperatesOn(e, g)) - Bit(OperatesOn(d, g))
  BY <1>10, CountStep DEF d
<1>15. CountInv'
  <2>1. Cardinality(Reading)' = Cardinality(Reading) - 1
    BY <1>9, <1>13, <1>14 DEF Bit
  <2>2. Spare' = Spare
    BY <1>2, <1>5, <1>13, <2>1 DEF Spare
  <2>3. ASSUME NEW g PROVE Cardinality(Operating(g))' = Cardinality(Operating(g))
    <3>1. Bit(OperatesOn(e, g)) = 0 /\ Bit(OperatesOn(d, g)) = 0
      BY <1>9 DEF Bit, OperatesOn
    <3>2. QED
      BY <1>13, <1>14, <3>1
  <2>4. SpareOf(0)' = SpareOf(0) /\ SpareOf(1)' = SpareOf(1)
    BY <1>4, <2>3 DEF SpareOf
  <2>5. QED
    BY <1>4, <2>2, <2>4 DEF IInv, CountInv
<1>16. KeyInv'
  <2> SUFFICES ASSUME ~late' PROVE Settled'
    BY DEF KeyInv
  <2>1. ~late /\ Settled
    BY <1>4 DEF IInv, KeyInv
  <2>2. \A u \in Thread : ~Alone(frame[u])
    BY <1>9, <2>1, NobodyMaintains DEF d
  <2>3. QED
    BY <1>4, <1>9, <1>10, <2>1, <2>2, OtherFrames
<1>17a. StuckInv'
  BY <1>4 DEF IInv, StuckInv
<1>17. QED
  BY <1>10, <1>11, <1>12, <1>15, <1>16, <1>17a DEF IInv

LEMMA FlipSelectorInv ==
    ASSUME IInv, NEW t \in Thread, FlipSelector(t)
    PROVE  IInv'
<1> DEFINE d == frame[t]
<1>1. /\ d \in CallFrame /\ StageOK(d) /\ OnActive(d, selector) /\ (Holds(d) => spinLock = t)
      /\ ~late => Copied(d)
  BY DEF IInv, TypeInv, ThreadInv, KeyInv, Settled
<1>2. /\ frame \in [Thread -> CallFrame] /\ selector \in Files
  BY DEF IInv, TypeInv
<1>3. d.pc = "flip" /\ d.stage = 3 /\ spinLock = t
  BY <1>1 DEF FlipSelector, At, StageOK, MaintainPC, Holds
<1>4. d.tab = selector /\ Alone(d)
  BY <1>1, <1>3 DEF OnActive, Alone
<1>5. PICK c : c = [d EXCEPT !.pc = "endWrite"]
  OBVIOUS
<1>6. c \in CallFrame /\ c.pc = "endWrite" /\ c.stage = 3
  BY <1>1, <1>3, <1>5 DEF CallFrame, Locals, PCs
<1>7. /\ frame' = [frame EXCEPT ![t] = c]
      /\ UNCHANGED <<disk, map, status, spinLock, late, sync, expected, crossed>>
      /\ selector' = 1 - selector /\ selector' \in Files
  BY <1>2, <1>5 DEF FlipSelector, Goto, files, Files
<1> HIDE DEF d
<1>8. /\ StageOK(c) /\ OnActive(c, selector') /\ Holds(c) /\ Alone(c)
      /\ c.pc \notin TablePC \cup {"construct", "setReadOnly", "copy", "flip"}
      /\ ~InSession(c) /\ ~InSession(d) /\ \A e : ~OperatesOn(c, e) /\ ~OperatesOn(d, e)
  BY <1>3, <1>6 DEF StageOK, OnActive, OpenPC, MaintainPC, Holds, Alone, TablePC, InSession,
                    SessionPC, OperatesOn
<1>9. /\ frame' \in [Thread -> CallFrame] /\ frame'[t] = c
      /\ \A u \in Thread \ {t} : frame'[u] = frame[u]
      /\ ThreadInv'
  <2>1. frame[t].stage = 3
    BY <1>3 DEF d
  <2>2. spinLock' = t /\ spinLock' = spinLock
    BY <1>3, <1>7
  <2>3. TypeInv /\ ThreadInv
    BY DEF IInv
  <2>4. QED
    BY <1>6, <1>7, <1>8, <2>1, <2>2, <2>3, ThreadStep
<1>10. TypeInv'
  BY <1>7, <1>9 DEF IInv, TypeInv
<1>11. SignatureInv'
  BY <1>7 DEF IInv, SignatureInv, Signed
<1>12. CountInv'
  <2>1. Cardinality(Reading) \in Nat /\ \A f : Cardinality(Operating(f)) \in Nat
    BY SetsFinite
  <2>2. /\ Cardinality(Reading)' = Cardinality(Reading) + Bit(InSession(c)) - Bit(InSession(d))
        /\ \A g : Cardinality(Operating(g))' = Cardinality(Operating(g))
                    + Bit(OperatesOn(c, g)) - Bit(OperatesOn(d, g))
    BY <1>9, CountStep DEF d
  <2>3. Cardinality(Reading)' = Cardinality(Reading)
    BY <1>8, <2>1, <2>2 DEF Bit
  <2>4. Spare' = Spare
    BY <1>7, <2>3 DEF Spare
  <2>5. ASSUME NEW g PROVE Cardinality(Operating(g))' = Cardinality(Operating(g))
    <3>1. Bit(OperatesOn(c, g)) = 0 /\ Bit(OperatesOn(d, g)) = 0
      BY <1>8 DEF Bit
    <3>2. QED
      BY <2>1, <2>2, <3>1
  <2>6. SpareOf(0)' = SpareOf(0) /\ SpareOf(1)' = SpareOf(1)
    BY <1>7, <2>5 DEF SpareOf
  <2>7. QED
    BY <1>7, <2>4, <2>6 DEF IInv, CountInv
<1>13. KeyInv'
  <2> SUFFICES ASSUME ~late' PROVE Settled'
    BY DEF KeyInv
  <2>1. ~late /\ Settled
    BY <1>7 DEF IInv, KeyInv
  <2>2. ASSUME NEW u \in Thread
        PROVE  /\ Alone(frame'[u]) => sync'.readers = 0
               /\ SessionTab(frame'[u], selector')
               /\ Roomy(frame[u], ProcessOf[u])' /\ Empty(frame[u])' /\ Copied(frame[u])'
    <3>1. CASE u = t
      <4>1. frame'[u] = c
        BY <1>9, <3>1
      <4>2. Roomy(frame[u], ProcessOf[u])' /\ Empty(frame[u])' /\ Copied(frame[u])'
        BY <1>8, <4>1 DEF Roomy, Empty, Copied
      <4>3. SessionTab(frame'[u], selector')
        BY <1>8, <4>1 DEF SessionTab
      <4>4. sync'.readers = 0
        BY <1>4, <1>7, <2>1 DEF Settled, d
      <4>5. QED
        BY <4>2, <4>3, <4>4
    <3>2. CASE u # t
      <4>1. frame'[u] = frame[u]
        BY <1>9, <3>2
      <4>2. ~Alone(frame[u]) /\ frame[u].pc \notin {"construct", "setReadOnly", "copy", "flip"}
            /\ ~Holds(frame[u])
        BY <1>3, <3>2, OneHolder
      <4>3. ~InSession(frame[u])
        BY <1>4, <2>1, Nobody DEF d
      <4>4. frame[u].pc \notin TablePC
        BY <4>2, <4>3 DEF InSession, SessionPC, TablePC, Holds
      <4>5. Roomy(frame[u], ProcessOf[u])' /\ Empty(frame[u])' /\ Copied(frame[u])'
        BY <4>1, <4>2 DEF Roomy, Empty, Copied
      <4>6. SessionTab(frame'[u], selector')
        BY <4>1, <4>4 DEF SessionTab
      <4>7. QED
        BY <4>1, <4>2, <4>5, <4>6
    <3>3. QED
      BY <3>1, <3>2
  <2>3. (~crossed' => disk'[selector'].head.live = expected')
    BY <1>1, <1>3, <1>4, <1>7, <2>1 DEF Copied
  <2>4. \A f \in Files : Fits(disk[f].head)'
    BY <1>7, <2>1 DEF Settled, Fits
  <2>5. QED
    BY <2>2, <2>3, <2>4 DEF Settled
<1>14a. StuckInv'
  BY <1>7 DEF IInv, StuckInv
<1>14. QED
  BY <1>9, <1>10, <1>11, <1>12, <1>13, <1>14a DEF IInv

-----------------------------------------------------------------------------
(* Processes that end.                                                     *)

LEMMA CloseInv ==
    ASSUME IInv, NEW p \in Process, Close(p)
    PROVE  IInv'
<1>1. /\ UNCHANGED <<disk, selector, spinLock, sync, frame, expected, late, crossed>>
      /\ \A t \in Thread : ProcessOf[t] = p => frame[t].pc = "idle"
      /\ status' = [status EXCEPT ![p] = "closed"]
      /\ map' = [map EXCEPT ![p] = [f \in Files |-> [@[f] EXCEPT !.open = FALSE, !.age = 0]]]
  BY DEF Close, P, At
<1>2. map \in [Process -> [Files -> Mapping]]
  BY DEF IInv, TypeInv
<1>3. PICK m : m = [f \in Files |-> [map[p][f] EXCEPT !.open = FALSE, !.age = 0]]
  OBVIOUS
<1>4. ASSUME NEW f \in Files PROVE m[f] \in Mapping /\ ~m[f].open
  <2>1. PICK b \in Mapping : b = map[p][f]
    BY <1>2
  <2>2. m[f] = [b EXCEPT !.open = FALSE, !.age = 0]
    BY <1>3, <2>1
  <2>3. PICK e : e = [b EXCEPT !.open = FALSE, !.age = 0]
    OBVIOUS
  <2>4. e \in Mapping /\ ~e.open
    BY <2>3 DEF Mapping
  <2>5. QED
    BY <2>2, <2>3, <2>4
<1>5. m \in [Files -> Mapping]
  BY <1>3, <1>4
<1>6. map' = [map EXCEPT ![p] = m]
  BY <1>1, <1>2, <1>3
<1>7. /\ map' \in [Process -> [Files -> Mapping]]
      /\ map'[p] = m /\ \A q \in Process \ {p} : map'[q] = map[q]
  BY <1>2, <1>5, <1>6
<1>8. TypeInv'
  <2>1. status' \in [Process -> {"closed", "opening", "open"}]
    BY <1>1 DEF IInv, TypeInv
  <2>2. QED
    BY <1>1, <1>7, <2>1 DEF IInv, TypeInv
<1>9. ThreadInv'
  BY <1>1 DEF IInv, ThreadInv, StageOK, Holds, OnActive
<1>10. SignatureInv'
  <2>1. ASSUME NEW q \in Process, NEW f \in Files, map'[q][f].open PROVE disk'[f].head.signature
    <3>1. q # p
      BY <1>4, <1>7, <2>1
    <3>2. map[q][f].open
      BY <1>7, <2>1, <3>1
    <3>3. QED
      BY <1>1, <3>2 DEF IInv, SignatureInv
  <2>2. \A f \in Files : Signed(disk[f].head)'
    BY <1>1 DEF IInv, SignatureInv, Signed
  <2>3. QED
    BY <2>1, <2>2 DEF SignatureInv
<1>11. CountInv'
  <2>1. Reading' = Reading /\ \A f : Operating(f)' = Operating(f)
    BY <1>1 DEF Reading, Operating
  <2>2. QED
    BY <1>1, <2>1 DEF IInv, CountInv, Spare, SpareOf
<1>12. KeyInv'
  <2> SUFFICES ASSUME ~late' PROVE Settled'
    BY DEF KeyInv
  <2>1. Settled
    BY <1>1 DEF IInv, KeyInv
  <2>2. ASSUME NEW u \in Thread
        PROVE  /\ Alone(frame'[u]) => sync'.readers = 0
               /\ SessionTab(frame'[u], selector')
               /\ Roomy(frame[u], ProcessOf[u])' /\ Empty(frame[u])' /\ Copied(frame[u])'
    <3>1. PICK e : e = frame[u]
      OBVIOUS
    <3>2. /\ Alone(e) => sync.readers = 0
          /\ SessionTab(e, selector)
          /\ Roomy(e, ProcessOf[u]) /\ Empty(e) /\ Copied(e)
      BY <2>1, <3>1 DEF Settled
    <3>3. frame'[u] = e
      BY <1>1, <3>1
    <3>4. Roomy(frame[u], ProcessOf[u])'
      <4>1. CASE ProcessOf[u] = p
        <5>1. e.pc = "idle"
          BY <1>1, <3>1, <4>1
        <5>2. QED
          BY <3>3, <5>1 DEF Roomy
      <4>2. CASE ProcessOf[u] # p
        <5>1. map'[ProcessOf[u]] = map[ProcessOf[u]]
          BY <1>7, <4>2, ProcessOfAssumption
        <5>2. QED
          BY <1>1, <3>2, <3>3, <5>1 DEF Roomy
      <4>3. QED
        BY <4>1, <4>2
    <3>5. Empty(frame[u])'
      BY <1>1, <3>2, <3>3 DEF Empty
    <3>6. Copied(frame[u])'
      BY <1>1, <3>2, <3>3 DEF Copied
    <3>7. QED
      BY <1>1, <3>2, <3>3, <3>4, <3>5, <3>6
  <2>3. (~crossed' => disk'[selector'].head.live = expected') /\ \A f \in Files : Fits(disk[f].head)'
    BY <1>1, <2>1 DEF Settled, Fits
  <2>4. QED
    BY <2>2, <2>3 DEF Settled
<1>13a. StuckInv'
  BY <1>1 DEF IInv, StuckInv
<1>13. QED
  BY <1>8, <1>9, <1>10, <1>11, <1>12, <1>13a DEF IInv

\* The readers of the two tables that die with a process are readers of the
\* shared machine that die with it.
LEMMA LostReaders ==
    ASSUME NEW R, NEW A, NEW B, NEW G, IsFiniteSet(R), IsFiniteSet(A), IsFiniteSet(B),
           A \subseteq R, B \subseteq R, A \cap B = {}
    PROVE  Cardinality(A) - Cardinality(A \ G) + Cardinality(B) - Cardinality(B \ G)
             <= Cardinality(R) - Cardinality(R \ G)
<1>1. ASSUME NEW S, IsFiniteSet(S)
      PROVE  /\ Cardinality(S) = Cardinality(S \ G) + Cardinality(S \cap G)
             /\ IsFiniteSet(S \cap G) /\ Cardinality(S \cap G) \in Nat
             /\ Cardinality(S \ G) \in Nat
  <2>1. (S \ G) \in SUBSET S /\ (S \cap G) \in SUBSET S
    OBVIOUS
  <2>2. IsFiniteSet(S \ G) /\ IsFiniteSet(S \cap G)
    BY <1>1, <2>1, FS_Subset
  <2>3. PICK T, U : T = S \ G /\ U = S \cap G
    OBVIOUS
  <2>4. T \cup U = S /\ T \cap U = {}
    BY <2>3
  <2>5. Cardinality(T \cup U) = Cardinality(T) + Cardinality(U) - Cardinality(T \cap U)
    BY <2>2, <2>3, FS_Union
  <2>6. Cardinality(T) \in Nat /\ Cardinality(U) \in Nat /\ Cardinality({}) = 0
    BY <2>2, <2>3, FS_CardinalityType, FS_EmptySet
  <2>7. Cardinality(S) = Cardinality(T) + Cardinality(U)
    <3>1. Cardinality(T \cup U) = Cardinality(S) /\ Cardinality(T \cap U) = 0
      BY <2>4, <2>6
    <3>2. QED
      BY <2>5, <2>6, <3>1
  <2>8. QED
    BY <2>2, <2>3, <2>6, <2>7
<1>2. PICK a, b, r : a = A \cap G /\ b = B \cap G /\ r = R \cap G
  OBVIOUS
<1>3. IsFiniteSet(a) /\ IsFiniteSet(b) /\ IsFiniteSet(r)
  BY <1>1, <1>2
<1>4. a \cap b = {} /\ (a \cup b) \in SUBSET r
  BY <1>2
<1>5. Cardinality(a \cup b) = Cardinality(a) + Cardinality(b) - Cardinality(a \cap b)
  BY <1>3, FS_Union
<1>6. Cardinality(a \cup b) <= Cardinality(r)
  BY <1>3, <1>4, FS_Subset
<1>7. Cardinality(a \cap b) = 0
  BY <1>4, FS_EmptySet
<1>8. Cardinality(a) \in Nat /\ Cardinality(b) \in Nat /\ Cardinality(r) \in Nat
  BY <1>3, FS_CardinalityType
<1>9. Cardinality(a) + Cardinality(b) <= Cardinality(r)
  BY <1>5, <1>6, <1>7, <1>8
<1>10. /\ Cardinality(A) = Cardinality(A \ G) + Cardinality(a) /\ Cardinality(A \ G) \in Nat
       /\ Cardinality(B) = Cardinality(B \ G) + Cardinality(b) /\ Cardinality(B \ G) \in Nat
       /\ Cardinality(R) = Cardinality(R \ G) + Cardinality(r) /\ Cardinality(R \ G) \in Nat
  BY <1>1, <1>2
<1>11. QED
  BY <1>8, <1>9, <1>10

\* What a process that dies in the middle of a growth may leave in a header.
Marked(old, new) ==
    /\ new \in Header /\ Signed(new)
    /\ new.signature = old.signature /\ new.size = old.size /\ new.live = old.live
    /\ new.used = old.used /\ new.readers = old.readers

LEMMA MarkedItself ==
    ASSUME NEW h \in Header, Signed(h)
    PROVE  Marked(h, h)
BY DEF Marked

LEMMA DiesInv ==
    ASSUME IInv, NEW p \in Process, Dies(p),
           disk' \in [Files -> DataFile],
           \A f \in Files :
               /\ Marked(disk[f].head, disk'[f].head)
               /\ disk'[f].head.stuck => disk[f].head.stuck \/ spinLock' = DeadThread
    PROVE  IInv'
<1>1. /\ UNCHANGED <<selector, sync, expected, late, crossed>>
      /\ status' = [status EXCEPT ![p] = "closed"]
      /\ map' = [map EXCEPT ![p] = [f \in Files |-> Unmapped]]
      /\ spinLock' = IF spinLock \in Thread /\ ProcessOf[spinLock] = p THEN DeadThread ELSE spinLock
      /\ frame' = [t \in Thread |-> IF ProcessOf[t] = p THEN NoCall ELSE frame[t]]
  BY DEF Dies, P
<1>1a. ASSUME NEW f \in Files
       PROVE  /\ Signed(disk'[f].head)
              /\ disk'[f].head.signature = disk[f].head.signature
              /\ disk'[f].head.size = disk[f].head.size /\ disk'[f].head.live = disk[f].head.live
              /\ disk'[f].head.used = disk[f].head.used /\ disk'[f].head.readers = disk[f].head.readers
  <2>1. PICK old, new : old = disk[f].head /\ new = disk'[f].head
    OBVIOUS
  <2>2. Marked(old, new)
    BY <2>1
  <2>3. QED
    BY <2>1, <2>2 DEF Marked
<1>2. /\ map \in [Process -> [Files -> Mapping]] /\ frame \in [Thread -> CallFrame]
      /\ spinLock \in Thread \cup {NoThread, DeadThread}
  BY DEF IInv, TypeInv
<1>3. Unmapped \in Mapping /\ ~Unmapped.open
  BY DEF Unmapped, Mapping
<1>4. PICK m : m = [f \in Files |-> Unmapped]
  OBVIOUS
<1>5. m \in [Files -> Mapping] /\ \A f \in Files : ~m[f].open
  BY <1>3, <1>4
<1>6. /\ map' \in [Process -> [Files -> Mapping]]
      /\ map'[p] = m /\ \A q \in Process \ {p} : map'[q] = map[q]
  <2>1. map' = [map EXCEPT ![p] = m]
    BY <1>1, <1>4
  <2>2. QED
    BY <1>2, <1>5, <2>1
<1>7. ASSUME NEW t \in Thread
      PROVE  /\ ProcessOf[t] = p => frame'[t] = NoCall
             /\ ProcessOf[t] # p => frame'[t] = frame[t]
  BY <1>1
<1>8. frame' \in [Thread -> CallFrame]
  <2>1. ASSUME NEW t \in Thread PROVE frame'[t] \in CallFrame
    BY <1>2, <1>7, NoCallIdle
  <2>2. DOMAIN frame' = Thread /\ frame' = [t \in Thread |-> frame'[t]]
    BY <1>1
  <2>3. QED
    BY <2>1, <2>2
<1>9. TypeInv'
  <2>1. status' \in [Process -> {"closed", "opening", "open"}]
    BY <1>1 DEF IInv, TypeInv
  <2>2. spinLock' \in Thread \cup {NoThread, DeadThread}
    BY <1>1, <1>2
  <2>3. QED
    BY <1>1, <1>6, <1>8, <2>1, <2>2 DEF IInv, TypeInv
<1>10. ThreadInv'
  <2>1. ASSUME NEW u \in Thread
        PROVE  StageOK(frame'[u]) /\ (Holds(frame'[u]) => spinLock' = u)
               /\ OnActive(frame'[u], selector')
    <3>1. CASE ProcessOf[u] = p
      <4>1. frame'[u] = NoCall
        BY <1>7, <3>1
      <4>2. OnActive(NoCall, selector')
        BY NoCallIdle DEF OnActive
      <4>3. QED
        BY <4>1, <4>2, NoCallIdle
    <3>2. CASE ProcessOf[u] # p
      <4>1. frame'[u] = frame[u]
        BY <1>7, <3>2
      <4>2. StageOK(frame[u]) /\ (Holds(frame[u]) => spinLock = u) /\ OnActive(frame[u], selector)
        BY DEF IInv, ThreadInv
      <4>3. spinLock = u => spinLock' = u
        BY <1>1, <3>2
      <4>4. selector' = selector
        BY <1>1
      <4>5. QED
        BY <4>1, <4>2, <4>3, <4>4
    <3>3. QED
      BY <3>1, <3>2
  <2>2. QED
    BY <2>1 DEF ThreadInv, StageOK, Holds, OnActive
<1>11. SignatureInv'
  <2>1. ASSUME NEW q \in Process, NEW f \in Files, map'[q][f].open PROVE disk'[f].head.signature
    <3>1. q # p
      BY <1>5, <1>6, <2>1
    <3>2. map[q][f].open
      BY <1>6, <2>1, <3>1
    <3>3. QED
      BY <1>1a, <3>2 DEF IInv, SignatureInv
  <2>2. \A f \in Files : Signed(disk[f].head)'
    BY <1>1a DEF Signed
  <2>3. QED
    BY <2>1, <2>2 DEF SignatureInv
<1>12. CountInv'
  <2> DEFINE gone == {t \in Thread : ProcessOf[t] = p}
  <2>1. PICK R : R = Reading
    OBVIOUS
  <2>2. PICK R1 : R1 = Reading'
    OBVIOUS
  <2>3. PICK A : A = Operating(0)
    OBVIOUS
  <2>4. PICK A1 : A1 = Operating(0)'
    OBVIOUS
  <2>5. PICK B : B = Operating(1)
    OBVIOUS
  <2>6. PICK B1 : B1 = Operating(1)'
    OBVIOUS
  <2>7. R1 = R \ gone
    <3>1. ASSUME NEW t \in Thread PROVE InSession(frame'[t]) <=> InSession(frame[t]) /\ ProcessOf[t] # p
      BY <1>7, NoCallIdle
    <3>2. QED
      BY <2>1, <2>2, <3>1 DEF Reading
  <2>8. A1 = A \ gone /\ B1 = B \ gone
    <3>1. ASSUME NEW t \in Thread, NEW f
          PROVE OperatesOn(frame'[t], f) <=> OperatesOn(frame[t], f) /\ ProcessOf[t] # p
      BY <1>7, NoCallIdle
    <3>2. QED
      BY <2>3, <2>4, <2>5, <2>6, <3>1 DEF Operating
  <2>9. A \subseteq R /\ B \subseteq R /\ A \cap B = {}
    <3>1. ASSUME NEW t \in Thread, NEW f, OperatesOn(frame[t], f) PROVE InSession(frame[t])
      <4>1. StageOK(frame[t])
        BY DEF IInv, ThreadInv
      <4>2. QED
        BY <3>1, <4>1 DEF OperatesOn, InSession, SessionPC, StageOK, MaintainPC
    <3>2. QED
      BY <2>1, <2>3, <2>5, <3>1 DEF Reading, Operating, OperatesOn
  <2>10. IsFiniteSet(R) /\ IsFiniteSet(A) /\ IsFiniteSet(B)
    BY <2>1, <2>3, <2>5, SetsFinite
  <2> HIDE DEF gone
  <2>11. Cardinality(R1) <= Cardinality(R) /\ Cardinality(A1) <= Cardinality(A)
         /\ Cardinality(B1) <= Cardinality(B)
    <3>1. R1 \in SUBSET R /\ A1 \in SUBSET A /\ B1 \in SUBSET B
      BY <2>7, <2>8
    <3>2. QED
      BY <2>10, <3>1, FS_Subset
  <2>12. Cardinality(A) - Cardinality(A1) + Cardinality(B) - Cardinality(B1)
           <= Cardinality(R) - Cardinality(R1)
    BY <2>7, <2>8, <2>9, <2>10, LostReaders
  <2>13. /\ Cardinality(R) \in Nat /\ Cardinality(R1) \in Nat /\ Cardinality(A) \in Nat
         /\ Cardinality(A1) \in Nat /\ Cardinality(B) \in Nat /\ Cardinality(B1) \in Nat
    <3>1. IsFiniteSet(R1) /\ IsFiniteSet(A1) /\ IsFiniteSet(B1)
      BY <2>7, <2>8, <2>10, FS_Subset
    <3>2. QED
      BY <2>10, <3>1, FS_CardinalityType
  <2>14. /\ sync.readers \in Int /\ disk[0].head.readers \in Int /\ disk[1].head.readers \in Int
    BY DEF IInv, TypeInv, DataFile, Header, Files
  <2>15. /\ Spare = sync.readers - Cardinality(R) /\ Spare' = sync.readers - Cardinality(R1)
         /\ SpareOf(0) = disk[0].head.readers - Cardinality(A)
         /\ SpareOf(0)' = disk[0].head.readers - Cardinality(A1)
         /\ SpareOf(1) = disk[1].head.readers - Cardinality(B)
         /\ SpareOf(1)' = disk[1].head.readers - Cardinality(B1)
    BY <1>1, <1>1a, <2>1, <2>2, <2>3, <2>4, <2>5, <2>6 DEF Spare, SpareOf, Files
  <2>16. /\ Spare >= 0
         /\ ~late => SpareOf(0) >= 0 /\ SpareOf(1) >= 0 /\ SpareOf(0) + SpareOf(1) <= Spare
    BY DEF IInv, CountInv
  <2>17. Spare' >= 0
    BY <2>11, <2>13, <2>14, <2>15, <2>16
  <2>18. ~late => SpareOf(0)' >= 0 /\ SpareOf(1)' >= 0 /\ SpareOf(0)' + SpareOf(1)' <= Spare'
    BY <2>11, <2>12, <2>13, <2>14, <2>15, <2>16
  <2>19. late' = late
    BY <1>1
  <2>20. QED
    BY <2>17, <2>18, <2>19 DEF CountInv
<1>12a. StuckInv'
  <2>1. SUFFICES ASSUME NEW f \in Files, disk'[f].head.stuck PROVE spinLock' = DeadThread
    BY DEF StuckInv
  <2>2. disk[f].head.stuck \/ spinLock' = DeadThread
    BY <2>1
  <2>3. disk[f].head.stuck => spinLock = DeadThread
    BY DEF IInv, StuckInv
  <2>4. spinLock = DeadThread => spinLock' = DeadThread
    BY <1>1, ThreadAssumption
  <2>5. QED
    BY <2>2, <2>3, <2>4
<1>13. KeyInv'
  <2> SUFFICES ASSUME ~late' PROVE Settled'
    BY DEF KeyInv
  <2>1. Settled
    BY <1>1 DEF IInv, KeyInv
  <2>2. ASSUME NEW u \in Thread
        PROVE  /\ Alone(frame'[u]) => sync'.readers = 0
               /\ SessionTab(frame'[u], selector')
               /\ Roomy(frame[u], ProcessOf[u])' /\ Empty(frame[u])' /\ Copied(frame[u])'
    <3>1. CASE ProcessOf[u] = p
      <4>1. frame'[u] = NoCall
        BY <1>7, <3>1
      <4>2. Roomy(frame[u], ProcessOf[u])' /\ Empty(frame[u])' /\ Copied(frame[u])'
        BY <4>1, NoCallIdle DEF Roomy, Empty, Copied
      <4>3. ~Alone(NoCall) /\ SessionTab(NoCall, selector')
        BY NoCallIdle DEF SessionTab, TablePC
      <4>4. QED
        BY <4>1, <4>2, <4>3
    <3>2. CASE ProcessOf[u] # p
      <4>1. PICK e : e = frame[u]
        OBVIOUS
      <4>2. /\ Alone(e) => sync.readers = 0
            /\ SessionTab(e, selector)
            /\ Roomy(e, ProcessOf[u]) /\ Empty(e) /\ Copied(e)
        BY <2>1, <4>1 DEF Settled
      <4>3. frame'[u] = e
        BY <1>7, <3>2, <4>1
      <4>4. map'[ProcessOf[u]] = map[ProcessOf[u]]
        BY <1>6, <3>2, ProcessOfAssumption
      <4>4a. e.tab \in Files /\ 1 - e.tab \in Files
        <5>1. e \in CallFrame
          BY <1>2, <4>1
        <5>2. QED
          BY <5>1 DEF CallFrame, Locals, Files
      <4>5. Roomy(frame[u], ProcessOf[u])'
        BY <1>1, <1>1a, <4>2, <4>3, <4>4, <4>4a DEF Roomy
      <4>6. Empty(frame[u])'
        BY <1>1, <1>1a, <4>2, <4>3, <4>4a DEF Empty
      <4>7. Copied(frame[u])'
        BY <1>1, <1>1a, <4>2, <4>3, <4>4a DEF Copied
      <4>8. QED
        BY <1>1, <4>2, <4>3, <4>5, <4>6, <4>7
    <3>3. QED
      BY <3>1, <3>2
  <2>3. (~crossed' => disk'[selector'].head.live = expected') /\ \A f \in Files : Fits(disk[f].head)'
    <3>1. selector \in Files
      BY DEF IInv, TypeInv
    <3>2. QED
      BY <1>1, <1>1a, <2>1, <3>1 DEF Settled, Fits
  <2>4. QED
    BY <2>2, <2>3 DEF Settled
<1>14. QED
  BY <1>9, <1>10, <1>11, <1>12, <1>12a, <1>13 DEF IInv

-----------------------------------------------------------------------------
(* The theorems.                                                           *)

LEMMA DiesAloneInv ==
    ASSUME IInv, NEW p \in Process, Dies(p), disk' = disk
    PROVE  IInv'
<1>1. disk \in [Files -> DataFile] /\ \A g \in Files : disk[g].head \in Header /\ Signed(disk[g].head)
  BY DEF IInv, TypeInv, SignatureInv, DataFile
<1>2. \A g \in Files : Marked(disk[g].head, disk'[g].head)
  BY <1>1, MarkedItself
<1>3. QED
  BY <1>1, <1>2, DiesInv

LEMMA InitInv == Init => IInv
<1> SUFFICES ASSUME Init PROVE IInv
  OBVIOUS
<1>1. InitialSize \in Nat /\ IsFiniteSet(Key)
  BY InitialSizeAssumption, KeyAssumption
<1>2. /\ map = [p \in Process |-> [f \in Files |-> Unmapped]]
      /\ status = [p \in Process |-> "closed"]
      /\ selector = 0 /\ spinLock = NoThread
      /\ sync = [state |-> 0, readers |-> 0]
      /\ frame = [t \in Thread |-> NoCall]
      /\ expected = disk[0].head.live
      /\ late = FALSE /\ crossed = FALSE
  BY DEF Init, Head
<1>3. PICK a \in DataFile, b \in DataFile :
        /\ disk = Disk(a, b)
        /\ a.head.readers = 0 /\ b.head.readers = 0 /\ ~a.head.stuck /\ ~b.head.stuck
        /\ Signed(a.head) /\ Signed(b.head) /\ Fits(a.head) /\ Fits(b.head)
  <2>1. /\ Blank \in Header /\ Blank.live = {} /\ Blank.used = 0 /\ Blank.size = 0
        /\ Blank.readers = 0 /\ Blank.stuck = FALSE
    BY BlankIs
  <2>2. CASE disk = Disk(NoFile, NoFile)
    <3>1. NoFile \in DataFile /\ NoFile.head = Blank
      BY <2>1 DEF NoFile, DataFile
    <3>2. Signed(Blank) /\ Fits(Blank)
      BY <2>1, FS_EmptySet DEF Signed, Fits
    <3>3. QED
      BY <2>1, <2>2, <3>1, <3>2
  <2>3. CASE \E x \in LeftTables : disk = Disk(FullTable(x.size, x.live), EmptyTable)
    <3>1. PICK x \in LeftTables : disk = Disk(FullTable(x.size, x.live), EmptyTable)
      BY <2>3
    <3>1a. /\ x.size \in Nat /\ x.live \in SUBSET Key /\ Cardinality(x.live) <= x.size
           /\ IsFiniteSet(x.live)
      BY <1>1, LeftTablesAssumption, FS_Subset
    <3>1b. x.size - Cardinality(x.live) \in Nat
      BY <3>1a, FS_CardinalityType
    <3>1c. PICK n \in Nat, L \in SUBSET Key, w \in Nat :
             n = x.size /\ L = x.live /\ w = n - Cardinality(L)
      BY <3>1a, <3>1b
    <3>2. PICK g : g = [Blank EXCEPT !.signature = TRUE, !.size = InitialSize]
      OBVIOUS
    <3>3. /\ g \in Header /\ g.signature = TRUE /\ g.size = InitialSize /\ g.live = {}
          /\ g.used = 0 /\ g.readOnly = FALSE /\ g.readers = 0 /\ g.stuck = FALSE
      BY <1>1, <3>2, FreshIs
    <3>4. PICK h : h = [Blank EXCEPT !.signature = TRUE, !.size = n, !.live = L, !.used = n,
                                     !.wasted = w]
      OBVIOUS
    <3>5. /\ h \in Header /\ h.signature = TRUE /\ h.size = n /\ h.live = L
          /\ h.used = n /\ h.readers = 0 /\ h.stuck = FALSE
      <4>1. PICK b : b = Blank
        OBVIOUS
      <4>2. b \in Header /\ b.readers = 0 /\ b.stuck = FALSE
        BY <2>1, <4>1
      <4>3. h = [b EXCEPT !.signature = TRUE, !.size = n, !.live = L, !.used = n, !.wasted = w]
        BY <3>4, <4>1
      <4>4. QED
        BY <4>2, <4>3 DEF Header
    <3>6. PICK a, b : a = FullTable(x.size, x.live) /\ b = EmptyTable
      OBVIOUS
    <3>7. a = [len |-> n, head |-> h] /\ b = [len |-> InitialSize, head |-> g]
      BY <3>1c, <3>2, <3>4, <3>6 DEF FullTable, EmptyTable
    <3>9. a \in DataFile /\ a.head = h /\ b \in DataFile /\ b.head = g
      BY <1>1, <3>3, <3>5, <3>7 DEF DataFile
    <3>10. Signed(g) /\ Signed(h) /\ Fits(g)
      BY <1>1, <3>3, <3>5, FS_EmptySet DEF Signed, Fits
    <3>11. Fits(h)
      BY <3>1a, <3>1c, <3>5 DEF Fits
    <3>12. QED
      BY <3>1, <3>3, <3>5, <3>6, <3>9, <3>10, <3>11
  <2>4. QED
    BY <2>2, <2>3 DEF Init
<1>4. disk \in [Files -> DataFile] /\ disk[0] = a /\ disk[1] = b
  BY <1>3 DEF Disk, Files
<1>5. \A t \in Thread : frame[t] = NoCall
  BY <1>2
<1>6. Unmapped \in Mapping /\ ~Unmapped.open
  BY DEF Unmapped, Mapping
<1>7. \A p \in Process, f \in Files : map[p][f] = Unmapped
  BY <1>2
<1>8. TypeInv
  <2>1. frame \in [Thread -> CallFrame]
    BY <1>2, NoCallIdle
  <2>2. map \in [Process -> [Files -> Mapping]]
    BY <1>2, <1>6
  <2>3. status \in [Process -> {"closed", "opening", "open"}] /\ sync \in [state : Nat, readers : Int]
    BY <1>2
  <2>4. expected \subseteq Key
    BY <1>2, <1>4 DEF DataFile, Header
  <2>5. QED
    BY <1>2, <1>4, <2>1, <2>2, <2>3, <2>4 DEF TypeInv, Files
<1>9. ThreadInv
  <2>1. OnActive(NoCall, selector)
    BY NoCallIdle DEF OnActive
  <2>2. QED
    BY <1>5, <2>1, NoCallIdle DEF ThreadInv
<1>10. SignatureInv
  BY <1>3, <1>4, <1>6, <1>7 DEF SignatureInv, Files
<1>11. CountInv
  <2>1. Reading = {} /\ Operating(0) = {} /\ Operating(1) = {}
    BY <1>5, NoCallIdle DEF Reading, Operating
  <2>2. Cardinality({}) = 0
    BY FS_EmptySet
  <2>3. Spare = 0 /\ SpareOf(0) = 0 /\ SpareOf(1) = 0
    <3>1. sync.readers = 0 /\ disk[0].head.readers = 0 /\ disk[1].head.readers = 0
      BY <1>2, <1>3, <1>4
    <3>2. QED
      BY <2>1, <2>2, <3>1 DEF Spare, SpareOf
  <2>4. QED
    BY <2>3 DEF CountInv
<1>11a. StuckInv
  BY <1>3, <1>4 DEF StuckInv, Files
<1>12. KeyInv
  <2>1. ASSUME NEW t \in Thread
        PROVE  /\ Alone(frame[t]) => sync.readers = 0
               /\ SessionTab(frame[t], selector)
               /\ Roomy(frame[t], ProcessOf[t]) /\ Empty(frame[t]) /\ Copied(frame[t])
    BY <1>5, NoCallIdle DEF SessionTab, TablePC, Roomy, Empty, Copied
  <2>2. disk[selector].head.live = expected /\ \A f \in Files : Fits(disk[f].head)
    BY <1>2, <1>3, <1>4 DEF Files
  <2>3. QED
    BY <2>1, <2>2 DEF KeyInv, Settled
<1>13. QED
  BY <1>8, <1>9, <1>10, <1>11, <1>11a, <1>12 DEF IInv

LEMMA CallInv ==
    ASSUME IInv, NEW t \in Thread, Call(t)
    PROVE  IInv'
<1>1. CASE CallSet(t)
  <2>1. PICK k \in Key : Begin(t, "Set", k)
    BY <1>1 DEF CallSet
  <2>2. "Set" \in Ops /\ k \in Key \cup {AnyKey}
    BY DEF Ops
  <2>3. QED
    BY <2>1, <2>2, BeginInv
<1>2. CASE CallDelete(t)
  <2>1. PICK k \in Key : Begin(t, "Delete", k)
    BY <1>2 DEF CallDelete
  <2>2. "Delete" \in Ops /\ k \in Key \cup {AnyKey}
    BY DEF Ops
  <2>3. QED
    BY <2>1, <2>2, BeginInv
<1>3. CASE CallRead(t)
  <2>1. Begin(t, "Read", AnyKey)
    BY <1>3 DEF CallRead
  <2>2. "Read" \in Ops /\ AnyKey \in Key \cup {AnyKey}
    BY DEF Ops
  <2>3. QED
    BY <2>1, <2>2, BeginInv
<1>4. QED
  BY <1>1, <1>2, <1>3 DEF Call

LEMMA StutterInv ==
    ASSUME IInv, UNCHANGED vars
    PROVE  IInv'
<1>1. UNCHANGED <<disk, map, status, selector, spinLock, sync, frame, expected, late, crossed>>
  BY DEF vars, files
<1>2. TypeInv' /\ SignatureInv'
  BY <1>1 DEF IInv, TypeInv, SignatureInv, Signed
<1>3. ThreadInv'
  BY <1>1 DEF IInv, ThreadInv, StageOK, Holds, OnActive
<1>4. CountInv'
  <2>1. Reading' = Reading /\ \A f : Operating(f)' = Operating(f)
    BY <1>1 DEF Reading, Operating
  <2>2. QED
    BY <1>1, <2>1 DEF IInv, CountInv, Spare, SpareOf
<1>5. KeyInv'
  BY <1>1 DEF IInv, KeyInv, Settled, Fits, Roomy, Empty, Copied
<1>6. StuckInv'
  BY <1>1 DEF IInv, StuckInv
<1>7. QED
  BY <1>2, <1>3, <1>4, <1>5, <1>6 DEF IInv

\* The growth that dies holds the spin lock of the Table, and the file it grew
\* has the length it wanted.
LEMMA OverrunIs ==
    ASSUME IInv, NEW t \in Thread, Overrun(t)
    PROVE  /\ frame[t].pc \in {"openMap", "grow", "extend"} /\ spinLock = t
           /\ Remapped(t) \in Files /\ NewSize(t) \in Nat
           /\ disk[Remapped(t)].head.signature /\ disk[Remapped(t)].head.size < NewSize(t)
<1>1. /\ frame[t] \in CallFrame /\ StageOK(frame[t]) /\ (Holds(frame[t]) => spinLock = t)
      /\ disk \in [Files -> DataFile]
  BY DEF IInv, TypeInv, ThreadInv
<1>2. frame[t].tab \in Files /\ frame[t].seen \in Nat
  BY <1>1 DEF CallFrame, Locals
<1>3. \A f \in Files : disk[f].head.size \in Nat
  BY <1>1 DEF DataFile, Header
<1>4. Remapped(t) \in Files /\ NewSize(t) \in Nat
  <2>1. Remapped(t) \in Files
    BY <1>2 DEF Remapped, Other, Files
  <2>2. 2 * disk[frame[t].tab].head.size \in Nat /\ disk[frame[t].tab].head.size \in Nat
    BY <1>2, <1>3
  <2>3. NewSize(t) \in Nat
    BY <1>2, <2>2 DEF NewSize, Head
  <2>4. QED
    BY <2>1, <2>3
<1>5. PICK f, n, h : /\ f = Remapped(t) /\ n = NewSize(t) /\ h = disk[f].head
                     /\ f \in Files /\ n \in Nat
  BY <1>4
<1>6. h.signature /\ h.size < WideSize /\ WideSize <= n
  BY <1>5 DEF Overrun, Overruns, Widens, Head
<1>7. h.size < n /\ n # 0
  BY <1>3, <1>5, <1>6, WideSizeAssumption
<1>8. frame[t].pc \in {"openMap", "grow", "extend"}
  BY <1>5, <1>7 DEF NewSize, At
<1>9. spinLock = t
  BY <1>1, <1>8 DEF Holds, OpenPC, StageOK, MaintainPC
<1>10. QED
  BY <1>4, <1>5, <1>6, <1>7, <1>8, <1>9

LEMMA OverrunInv ==
    ASSUME IInv, NEW t \in Thread, Overrun(t)
    PROVE  IInv'
<1>1. /\ spinLock = t /\ Remapped(t) \in Files /\ NewSize(t) \in Nat
      /\ disk[Remapped(t)].head.signature
  BY OverrunIs
<1>2. PICK f \in Files, n \in Nat : f = Remapped(t) /\ n = NewSize(t)
  BY <1>1
<1>3. disk \in [Files -> DataFile] /\ \A g \in Files : disk[g].head \in Header /\ Signed(disk[g].head)
  BY DEF IInv, TypeInv, SignatureInv, DataFile
<1>4. PICK h : h = [disk[f].head EXCEPT !.stuck = TRUE]
  OBVIOUS
<1>5. Marked(disk[f].head, h)
  BY <1>1, <1>2, <1>3, <1>4 DEF Marked, Header, Signed
<1>6. PICK b : b = [disk[f] EXCEPT !.len = n, !.head = h]
  OBVIOUS
<1>7. b \in DataFile /\ b.head = h
  <2>1. h \in Header
    BY <1>5 DEF Marked
  <2>2. QED
    BY <1>3, <1>6, <2>1 DEF DataFile
<1>8. disk' = [disk EXCEPT ![f].len = n, ![f].head.stuck = TRUE]
  BY <1>2 DEF Overrun
<1>8a. disk' = [disk EXCEPT ![f] = b]
  BY <1>3, <1>4, <1>6, <1>8 DEF DataFile
<1>9. disk' \in [Files -> DataFile] /\ disk'[f] = b /\ \A g \in Files \ {f} : disk'[g] = disk[g]
  BY <1>3, <1>7, <1>8a
<1>10. ASSUME NEW g \in Files PROVE Marked(disk[g].head, disk'[g].head)
  <2>1. CASE g = f
    BY <1>5, <1>7, <1>9, <2>1
  <2>2. CASE g # f
    BY <1>3, <1>9, <2>2, MarkedItself
  <2>3. QED
    BY <2>1, <2>2
<1>11. Dies(ProcessOf[t]) /\ ProcessOf[t] \in Process /\ spinLock' = DeadThread
  BY <1>1, ProcessOfAssumption DEF Overrun, Dies, P
<1>12. QED
  BY <1>9, <1>10, <1>11, DiesInv

LEMMA NextInv == IInv /\ [Next]_vars => IInv'
<1> SUFFICES ASSUME IInv, [Next]_vars PROVE IInv'
  OBVIOUS
<1>1. CASE UNCHANGED vars
  BY <1>1, StutterInv
<1>2. ASSUME NEW t \in Thread, OpenSync(t) PROVE IInv'
  BY <1>2, OpenSyncInv
<1>3. ASSUME NEW t \in Thread, Call(t) PROVE IInv'
  BY <1>3, CallInv
<1>4. ASSUME NEW t \in Thread, Fault(t) PROVE IInv'
  <2>1. ProcessOf[t] \in Process
    BY ProcessOfAssumption
  <2>2. Dies(ProcessOf[t]) /\ disk' = disk
    BY <1>4 DEF Fault, P
  <2>3. QED
    BY <2>1, <2>2, DiesAloneInv
<1>5. ASSUME NEW t \in Thread, BeginRead(t) \/ FindTable(t) \/ UseTable(t) PROVE IInv'
  BY <1>5, LoadStateInv, EnterSyncInv, ActiveTableInv, RelockInv, RecheckInv, TestReadOnlyInv,
     EnterTableInv, OperateInv, LeaveSyncInv DEF BeginRead, FindTable, UseTable
<1>6. ASSUME NEW t \in Thread, Maintain(t) PROVE IInv'
  BY <1>6, LockForSetInv, BeginWriteInv, WaitForNoReaderInv, PlanInv, GrowInv, ExtendInv,
     ConstructInactiveInv, SetReadOnlyInv, CopyToInactiveInv, FlipSelectorInv, EndWriteInv,
     ReleaseInv DEF Maintain
<1>7. ASSUME NEW t \in Thread, OpenSize(t) \/ OpenMap(t) \/ OpenUnlock(t) PROVE IInv'
  BY <1>7, OpenSizeInv, OpenMapInv, OpenUnlockInv
<1>8. ASSUME NEW p \in Process, Close(p) \/ Kill(p) PROVE IInv'
  BY <1>8, CloseInv, DiesAloneInv DEF Kill
<1>9. ASSUME NEW t \in Thread, Overrun(t) PROVE IInv'
  BY <1>9, OverrunInv
<1>10. QED
  BY <1>1, <1>2, <1>3, <1>4, <1>5, <1>6, <1>7, <1>8, <1>9 DEF Next, Step

\* The invariant holds in every reachable state, for all processes and threads,
\* keys, sizes and bounds, whatever is killed and whatever fails.
THEOREM TableInvariant == Spec => []IInv
<1>1. Init => IInv
  BY InitInv
<1>2. IInv /\ [Next]_vars => IInv'
  BY NextInv
<1>3. QED
  BY <1>1, <1>2, PTL DEF Spec

\* Every variable has its type; in particular the counter of readers in the
\* shared state machine never drops below zero, whoever is killed inside a session.
THEOREM TypesAreKept == Spec => []TypeOK
<1>1. IInv => TypeOK
  <2> SUFFICES ASSUME IInv PROVE TypeOK
    OBVIOUS
  <2>1. TypeInv /\ Spare >= 0
    BY DEF IInv, CountInv
  <2>2. Cardinality(Reading) \in Nat /\ sync.readers \in Int
    BY <2>1, SetsFinite DEF TypeInv
  <2>3. sync.readers \in Nat
    BY <2>1, <2>2 DEF Spare
  <2>4. sync \in [state : Nat, readers : Nat]
    BY <2>1, <2>3 DEF TypeInv
  <2>5. /\ DOMAIN frame = Thread
        /\ \A t \in Thread : frame[t].stage \in 1 .. 4 /\ frame[t].tab \in Files
                             /\ frame[t].op \in {"Set", "Delete", "Read"}
    BY <2>1 DEF TypeInv, CallFrame, Locals, Ops
  <2>6. \A f \in Files : Head(f).stuck => spinLock = DeadThread
    BY DEF IInv, StuckInv, Head
  <2>7. QED
    BY <2>1, <2>4, <2>5, <2>6 DEF TypeOK, TypeInv, DataFile, Header, Mapping
<1>2. QED
  BY <1>1, TableInvariant, PTL

\* The active table holds exactly the keys that the calls which have ended left in
\* it, failed ones included, through growth, compaction and the switch of files,
\* killed processes and failed system calls, as long as no reader slips in behind an
\* exclusive writer and no growth of the active table makes its slots wider.
THEOREM CompletedCallsSurviveThm == Spec => []CompletedCallsSurvive
<1>1. IInv => CompletedCallsSurvive
  BY DEF IInv, KeyInv, Settled, CompletedCallsSurvive, Head
<1>2. QED
  BY <1>1, TableInvariant, PTL

-----------------------------------------------------------------------------
(***************************************************************************)
(* The lengths of the two files and the table pointers of the processes    *)
(* that map them (module Table), for any number of processes, threads,     *)
(* keys and events: no file is cut short, and a thread loses the memory    *)
(* under its pointer, or waits for itself, only when a table has grown     *)
(* elsewhere.                                                              *)
(*                                                                         *)
(* The inductive invariant GrowthInv compares what is kept in four places: *)
(* the length of a file, the size in its header, the size that a process   *)
(* remembers and the age of a pointer. LengthInv is where it breaks: an    *)
(* ExtendSizeTo that fails in the middle of the maintenance may leave a    *)
(* file longer than its table, but its error is ignored and the pointer is *)
(* gone, so that thread dies before it gives back the spin lock (Doomed),  *)
(* and nobody sets the length of a file without that lock.                 *)
(***************************************************************************)

\* The size of a table was last changed by another process.
Foreign(p, f) == grower[f] \notin {p, NoProcess}

\* Nothing has happened that the maintenance cannot cope with.
Calm == ~late /\ count.failures = 0

EventRecord == [opens : Nat, calls : Nat, kills : Nat, faults : Nat, failures : Nat,
                timeouts : Nat]

\* A table with its signature has at least the initial size; the inactive table
\* is never the larger one.
HeadInv ==
    /\ \A f \in Files : disk[f].head.signature => InitialSize <= disk[f].head.size
    /\ disk[1 - selector].head.size <= disk[selector].head.size
    /\ selector = 1 => disk[1].head.signature

\* Nobody remembers more of a file than there is; who remembers less has been
\* overtaken by another process.
Remembers(p, f) ==
    /\ map[p][f].size <= disk[f].head.size
    /\ map[p][f].size = 0 \/ InitialSize <= map[p][f].size
    /\ map[p][f].open => InitialSize <= map[p][f].size
    /\ map[p][f].open /\ map[p][f].size < disk[f].head.size => Foreign(p, f)

\* Calls run in processes that are open, and Initialize in one that is opening.
RunsIn(c, s) ==
    /\ c.pc \in OpenPC => s = "opening"
    /\ c.pc \notin OpenPC \cup {"idle"} => s = "open"

\* What a thread of process p may rely on between two statements.
Knows(c, p) ==
    /\ c.pc = "openMap" => c.seen = disk[c.tab].len
    /\ c.pc \in {"openSize", "openMap"} /\ c.tab = 1 => disk[0].head.signature
    /\ c.pc = "construct" /\ map[p][1 - c.tab].open =>
            disk[c.tab].head.size <= map[p][1 - c.tab].size
    /\ c.pc \in {"setReadOnly", "copy", "flip"} =>
            disk[1 - c.tab].head.signature /\ disk[1 - c.tab].head.size = disk[c.tab].head.size

\* A thread that holds the lock and waits for it was sent there by another process.
Waits(c, p, holder) == c.pc = "relock" /\ holder => Foreign(p, c.tab)

\* As long as all is calm, its pointers are good, or a foreign growth has spoilt them.
Unharmed(c, p) ==
    /\ c.pc # "lost"
    /\ c.pc \in {"relock", "recheck"} => Foreign(p, c.tab)
    /\ c.pc \in FollowsActive \cup {"construct"} /\ c.age # map[p][c.tab].age => Foreign(p, c.tab)
    /\ c.pc \in {"openSize", "openMap"} /\ c.tab = 1 => map[p][0].open
    /\ c.pc = "openUnlock" /\ c.err = "NO" => map[p][0].open /\ map[p][1].open

\* A file is as long as its table, but for the traces that failed calls leave.
Shaped(file) ==
    /\ file.head.signature => InitialSize <= file.len /\ file.len <= file.head.size
    /\ ~file.head.signature => file.len \in {0, InitialSize}
Even(file, failures) ==
    /\ Shaped(file)
    /\ failures = 0 => file.len = file.head.size

\* A holder of the spin lock whose ExtendSizeTo failed in the maintenance: the
\* mapping it needs next is closed, so it dies before it gives the lock back.
Doomed(c, p) ==
    \/ c.pc = "construct" /\ ~map[p][1 - c.tab].open
    \/ /\ c.pc \in {"endWrite", "load", "enter", "active", "lost"} /\ c.stage \in {3, 4}
       /\ ~map[p][selector].open

LockLost == spinLock = DeadThread \/ \E t \in Thread : spinLock = t /\ Doomed(frame[t], ProcessOf[t])

EventInv == count \in EventRecord /\ grower \in [Files -> Process \cup {NoProcess}]
MapInv == \A p \in Process, f \in Files : Remembers(p, f)
FrameInv == \A t \in Thread :
    /\ RunsIn(frame[t], status[ProcessOf[t]])
    /\ Knows(frame[t], ProcessOf[t])
    /\ Waits(frame[t], ProcessOf[t], spinLock = t)
LengthInv == LockLost \/ \A f \in Files : Even(disk[f], count.failures)
CalmInv == Calm =>
    /\ \A p \in Process, f \in Files : status[p] = "open" => map[p][f].open
    /\ \A t \in Thread : Unharmed(frame[t], ProcessOf[t])

GrowthInv == EventInv /\ HeadInv /\ MapInv /\ FrameInv /\ LengthInv /\ CalmInv

-----------------------------------------------------------------------------
(* What the operations on files leave.                                     *)

\* What MapTable leaves of a size, when it succeeds and when it does not.
Sized(m, file, size, o) ==
    /\ Mapped(m, file, size, o)
    /\ o.ok => size # 0
    /\ ~o.ok => o.file.head = file.head
    /\ ~o.ok /\ ~o.io =>
        \/ size = 0 /\ o.file = file
        \/ /\ file.head.signature
           /\ size < file.head.size \/ (size > file.head.size /\ file.head.readers # 0)

LEMMA ConstructSizes ==
    ASSUME NEW h \in Header, NEW size \in Nat,
           NEW c, c = Constructed(h, size), ~c.ok
    PROVE  /\ c.head = h /\ h.signature
           /\ size < h.size \/ (size > h.size /\ h.readers # 0)
<1>0. h.size \in Nat
  BY DEF Header
<1>1. CASE h.signature /\ size > h.size /\ h.readers = 0
  <2>1. PICK g : c = [ok |-> TRUE, head |-> g]
    BY <1>1 DEF Constructed, Construct, Reinterpret
  <2>2. QED
    BY <2>1
<1>2. CASE h.signature /\ ~(size > h.size /\ h.readers = 0)
  <2>1. c = [ok |-> size = h.size, head |-> h]
    BY <1>2 DEF Constructed, Construct, Reinterpret
  <2>2. size # h.size
    <3>1. SUFFICES ASSUME size = h.size PROVE FALSE
      OBVIOUS
    <3>2. c = [ok |-> TRUE, head |-> h]
      BY <2>1, <3>1
    <3>3. QED
      BY <3>2
  <2>3. c.head = h
    BY <2>1
  <2>4. QED
    BY <1>0, <1>2, <2>2, <2>3
<1>3. CASE ~h.signature
  <2>1. PICK g : g = [Blank EXCEPT !.signature = TRUE, !.size = size]
    OBVIOUS
  <2>2. c = [ok |-> TRUE, head |-> g]
    BY <1>3, <2>1 DEF Constructed, Construct
  <2>3. QED
    BY <2>2
<1>4. QED
  BY <1>1, <1>2, <1>3

LEMMA MapTableSizes ==
    ASSUME NEW m \in Mapping, NEW file \in DataFile, NEW size \in Nat,
           Signed(file.head), NEW o \in MapTable(m, file, size)
    PROVE  Sized(m, file, size, o)
<1> DEFINE lost == [m EXCEPT !.open = FALSE, !.age = @ + 1]
           Result(i) == LET c == Constructed(i.file.head, size)
                        IN IF i.ok
                           THEN [ok |-> c.ok, io |-> i.io, file |-> [i.file EXCEPT !.head = c.head],
                                 map |-> IF c.ok THEN [size |-> size, open |-> TRUE, age |-> m.age + 1]
                                         ELSE lost]
                           ELSE [ok |-> FALSE, io |-> i.io, file |-> i.file, map |-> lost]
<1>1. PICK i \in FileMappingInitialize(file, size) : o = Result(i)
  BY DEF MapTable, Constructed
<1>2. /\ i.file.head = file.head
      /\ i.ok => size # 0 /\ i.file = [file EXCEPT !.len = size]
      /\ ~i.ok => i.io \/ (size = 0 /\ i.file = file)
  <2>1. ASSUME NEW n \in Nat PROVE [file EXCEPT !.len = n].head = file.head
    BY DEF DataFile
  <2>2. CASE i = [ok |-> FALSE, io |-> FALSE, file |-> file]
    <3>1. size = 0
      <4>1. SUFFICES ASSUME size # 0 PROVE FALSE
        OBVIOUS
      <4>2. \/ i = [ok |-> TRUE, io |-> FALSE, file |-> [file EXCEPT !.len = size]]
            \/ i \in {[ok |-> FALSE, io |-> TRUE, file |-> [file EXCEPT !.len = n]] : n \in {file.len, size}}
        BY <4>1, Zenon DEF FileMappingInitialize
      <4>3. i.ok = FALSE /\ i.io = FALSE
        BY <2>2
      <4>4. CASE i = [ok |-> TRUE, io |-> FALSE, file |-> [file EXCEPT !.len = size]]
        BY <4>3, <4>4
      <4>5. CASE i \in {[ok |-> FALSE, io |-> TRUE, file |-> [file EXCEPT !.len = n]] : n \in {file.len, size}}
        <5>1. PICK n \in {file.len, size} : i = [ok |-> FALSE, io |-> TRUE, file |-> [file EXCEPT !.len = n]]
          BY <4>5
        <5>2. i.io = TRUE
          BY <5>1
        <5>3. QED
          BY <4>3, <5>2
      <4>6. QED
        BY <4>2, <4>4, <4>5
    <3>2. i.ok = FALSE /\ i.file = file
      BY <2>2
    <3>3. QED
      BY <3>1, <3>2
  <2>3. CASE i = [ok |-> TRUE, io |-> FALSE, file |-> [file EXCEPT !.len = size]]
    <3>1. i.ok = TRUE
      BY <2>3
    <3>2. size # 0
      <4>1. SUFFICES ASSUME size = 0 PROVE FALSE
        OBVIOUS
      <4>2. i = [ok |-> FALSE, io |-> FALSE, file |-> file]
        BY <4>1, Zenon DEF FileMappingInitialize
      <4>3. i.ok = FALSE
        BY <4>2
      <4>4. QED
        BY <3>1, <4>3
    <3>3. QED
      BY <2>1, <2>3, <3>2
  <2>4. CASE i \in {[ok |-> FALSE, io |-> TRUE, file |-> [file EXCEPT !.len = n]] : n \in {file.len, size}}
    <3>1. PICK n \in {file.len, size} : i = [ok |-> FALSE, io |-> TRUE, file |-> [file EXCEPT !.len = n]]
      BY <2>4
    <3>2. n \in Nat
      BY DEF DataFile
    <3>3. i.ok = FALSE /\ i.io = TRUE /\ i.file = [file EXCEPT !.len = n]
      BY <3>1
    <3>4. QED
      BY <2>1, <3>2, <3>3
  <2>5. \/ i = [ok |-> FALSE, io |-> FALSE, file |-> file]
        \/ i = [ok |-> TRUE, io |-> FALSE, file |-> [file EXCEPT !.len = size]]
        \/ i \in {[ok |-> FALSE, io |-> TRUE, file |-> [file EXCEPT !.len = n]] : n \in {file.len, size}}
    BY Zenon DEF FileMappingInitialize
  <2>6. QED
    BY <2>2, <2>3, <2>4, <2>5
<1> HIDE DEF lost
<1>3. Mapped(m, file, size, o)
  BY MapTableIs
<1>4. CASE ~i.ok
  <2>1. o = [ok |-> FALSE, io |-> i.io, file |-> i.file, map |-> lost]
    BY <1>1, <1>4
  <2>2. o.io = i.io /\ o.file = i.file /\ o.ok = FALSE
    BY <2>1
  <2>3. QED
    BY <1>2, <1>3, <1>4, <2>2 DEF Sized
<1>5. CASE i.ok
  <2>1. PICK c : c = Constructed(file.head, size)
    OBVIOUS
  <2>2. PICK g : g = [i.file EXCEPT !.head = c.head]
    OBVIOUS
  <2>3. o = [ok |-> c.ok, io |-> i.io, file |-> g,
             map |-> IF c.ok THEN [size |-> size, open |-> TRUE, age |-> m.age + 1] ELSE lost]
    BY <1>1, <1>2, <1>5, <2>1, <2>2
  <2>4. o.file = g /\ file.head \in Header
    BY <2>3 DEF DataFile
  <2>5. g.head = c.head
    <3>1. PICK e \in DataFile : e = i.file
      <4>1. [file EXCEPT !.len = size] \in DataFile
        BY DEF DataFile
      <4>2. QED
        BY <1>2, <1>5, <4>1
    <3>2. g = [e EXCEPT !.head = c.head]
      BY <2>2, <3>1
    <3>3. QED
      BY <3>2 DEF DataFile
  <2>6. CASE c.ok
    <3>1. o = [ok |-> c.ok, io |-> i.io, file |-> g, map |-> [size |-> size, open |-> TRUE, age |-> m.age + 1]]
      BY <2>3, <2>6
    <3>2. o.ok = c.ok
      BY <3>1
    <3>3. QED
      BY <1>2, <1>3, <1>5, <2>6, <3>2 DEF Sized
  <2>7. CASE ~c.ok
    <3>1. /\ c.head = file.head /\ file.head.signature
          /\ size < file.head.size \/ (size > file.head.size /\ file.head.readers # 0)
      BY <2>1, <2>4, <2>7, ConstructSizes
    <3>2. o.file.head = file.head
      BY <2>4, <2>5, <3>1
    <3>3. QED
      BY <1>2, <1>3, <1>5, <3>1, <3>2 DEF Sized
  <2>8. QED
    BY <2>6, <2>7
<1>6. QED
  BY <1>4, <1>5

\* Steps in which a call of the system has failed are counted.
After(o, failures) == IF o.io THEN failures + 1 ELSE failures

\* A table whose header and mapping fit each other.
HeadOK(h) == Signed(h) /\ (h.signature => InitialSize <= h.size)
MapOK(m, h) == m.size <= h.size /\ (m.size = 0 \/ InitialSize <= m.size)

\* An operation leaves a table that is as large as before or larger, and if the
\* process still has it, it knows the size.
Resized(file, o) ==
    /\ HeadOK(o.file.head) /\ MapOK(o.map, o.file.head)
    /\ file.head.signature => o.file.head.signature
    /\ file.head.size <= o.file.head.size
    /\ o.map.open => o.map.size = o.file.head.size /\ InitialSize <= o.map.size

LEMMA BlankSize ==
    ASSUME NEW h \in Header, Signed(h)
    PROVE  h.size \in Nat /\ (~h.signature => h.size = 0)
BY BlankIs DEF Signed, Header

LEMMA OpenOnce ==
    ASSUME NEW m \in Mapping, NEW file \in DataFile, NEW size \in {file.len, InitialSize},
           HeadOK(file.head), Shaped(file), MapOK(m, file.head),
           NEW o \in MapTable(m, file, size)
    PROVE  /\ Sized(m, file, size, o) /\ Resized(file, o) /\ Shaped(o.file) /\ o \in Outcome
           /\ o.file.head.size # file.head.size =>
                ~file.head.signature /\ o.file.head.size = InitialSize
<1>1. /\ file.len \in Nat /\ size \in Nat /\ InitialSize \in Nat \ {0} /\ file.head \in Header
      /\ m.size \in Nat
  BY InitialSizeAssumption DEF DataFile, Mapping
<1>2. Sized(m, file, size, o)
  BY <1>1, MapTableSizes DEF HeadOK
<1>3. o \in Outcome /\ Kept(file.head, o.file.head) /\ o.file \in DataFile
  BY <1>2 DEF Sized, Mapped, Outcome
<1>4. /\ file.head.size \in Nat /\ o.file.head.size \in Nat /\ o.file.len \in Nat
      /\ ~file.head.signature => file.head.size = 0
      /\ Signed(o.file.head) /\ (file.head.signature => o.file.head.signature)
      /\ file.head.size <= o.file.head.size
  BY <1>1, <1>3, BlankSize, SignedKept DEF HeadOK, Kept, DataFile, Header
<1>5. CASE o.ok
  <2>1. /\ o.file.len = size /\ o.file.head.size = size /\ o.file.head.signature
        /\ o.map.open /\ o.map.size = size /\ size # 0
    BY <1>2, <1>5 DEF Sized, Mapped
  <2>2. file.head.signature => size = file.head.size
    BY <1>1, <1>4, <2>1 DEF Shaped, HeadOK
  <2>3. ~file.head.signature => size = InitialSize
    BY <1>1, <2>1 DEF Shaped
  <2>4. InitialSize <= size
    BY <1>1, <2>2, <2>3 DEF HeadOK
  <2>5. QED
    BY <1>1, <1>2, <1>3, <1>4, <2>1, <2>2, <2>3, <2>4 DEF Resized, Shaped, HeadOK, MapOK
<1>6. CASE ~o.ok
  <2>1. /\ o.file.head = file.head /\ o.file.len \in {file.len, size}
        /\ ~o.map.open /\ o.map.size = m.size
    BY <1>2, <1>6 DEF Sized, Mapped
  <2>2. Shaped(o.file)
    BY <1>1, <2>1 DEF Shaped, HeadOK
  <2>3. QED
    BY <1>2, <1>3, <1>4, <2>1, <2>2 DEF Resized, HeadOK, MapOK
<1>7. QED
  BY <1>5, <1>6

LEMMA OpenSizes ==
    ASSUME NEW m \in Mapping, NEW file \in DataFile, NEW failures \in Nat,
           HeadOK(file.head), Even(file, failures), MapOK(m, file.head),
           NEW o \in OpenOutcomes(m, file, file.len)
    PROVE  /\ Resized(file, o) /\ Even(o.file, After(o, failures)) /\ o \in Outcome
           /\ o.file.head.size # file.head.size =>
                ~file.head.signature /\ o.file.head.size = InitialSize
           /\ o.ok => o.file.head.signature
           /\ After(o, failures) = 0 => (o.ok => o.map.open) /\ file.len <= o.file.len
<1>1. /\ file.len \in Nat /\ InitialSize \in Nat \ {0} /\ file.head \in Header
      /\ m.size \in Nat /\ Shaped(file)
      /\ file.head.size \in Nat /\ (~file.head.signature => file.head.size = 0)
  BY InitialSizeAssumption, BlankSize DEF DataFile, Mapping, Even, HeadOK
<1>2. CASE o \in {[y EXCEPT !.ok = TRUE] : y \in {x \in MapTable(m, file, file.len) : x.map.size # 0}}
  <2>1. PICK y \in MapTable(m, file, file.len) : o = [y EXCEPT !.ok = TRUE] /\ y.map.size # 0
    BY <1>2
  <2>2. /\ Sized(m, file, file.len, y) /\ Resized(file, y) /\ Shaped(y.file) /\ y \in Outcome
        /\ y.file.head.size # file.head.size =>
             ~file.head.signature /\ y.file.head.size = InitialSize
    BY <1>1, OpenOnce
  <2>3. o \in Outcome /\ o.ok = TRUE /\ o.io = y.io /\ o.file = y.file /\ o.map = y.map
    BY <2>1, <2>2 DEF Outcome
  <2>4. y.ok => /\ y.file.len = file.len /\ y.file.head.size = file.len
                /\ y.file.head.signature /\ y.map.open
    BY <2>2 DEF Sized, Mapped
  <2>5. ~y.ok => y.file.head = file.head /\ y.map.size = m.size
    BY <2>2 DEF Sized, Mapped
  <2>6. y.file.head.signature
    <3>1. SUFFICES ASSUME ~y.ok PROVE y.file.head.signature
      BY <2>4
    <3>2. m.size # 0 /\ m.size <= file.head.size
      BY <2>1, <2>5, <3>1 DEF MapOK
    <3>3. file.head.signature
      BY <1>1, <3>2
    <3>4. QED
      BY <2>5, <3>1, <3>3
  <2>7. failures = 0 /\ ~y.io => y.ok
    <3>1. SUFFICES ASSUME failures = 0, ~y.io, ~y.ok PROVE FALSE
      OBVIOUS
    <3>2. file.len = file.head.size
      BY <3>1 DEF Even
    <3>3. \/ file.len = 0
          \/ file.len < file.head.size \/ file.len > file.head.size
      BY <2>2, <3>1 DEF Sized
    <3>4. file.head.size # 0
      BY <1>1, <2>1, <2>5, <3>1 DEF MapOK
    <3>5. QED
      BY <1>1, <3>2, <3>3, <3>4
  <2>8. After(o, failures) = 0 => failures = 0 /\ ~y.io
    BY <2>3 DEF After
  <2>9. Even(o.file, After(o, failures))
    BY <2>2, <2>3, <2>4, <2>7, <2>8 DEF Even
  <2>10. Resized(file, o)
    BY <2>2, <2>3 DEF Resized
  <2>11. QED
    BY <1>1, <2>2, <2>3, <2>4, <2>6, <2>7, <2>8, <2>9, <2>10
<1>3. CASE o \in UNION { {[y EXCEPT !.io = y.io \/ x.io] : y \in MapTable(x.map, x.file, InitialSize)}
                         : x \in {x \in MapTable(m, file, file.len) : x.map.size = 0} }
  <2>1. PICK x \in MapTable(m, file, file.len) :
          /\ x.map.size = 0
          /\ o \in {[y EXCEPT !.io = y.io \/ x.io] : y \in MapTable(x.map, x.file, InitialSize)}
    BY <1>3
  <2>2. PICK y \in MapTable(x.map, x.file, InitialSize) : o = [y EXCEPT !.io = y.io \/ x.io]
    BY <2>1
  <2>3. /\ Sized(m, file, file.len, x) /\ Resized(file, x) /\ Shaped(x.file) /\ x \in Outcome
    BY <1>1, OpenOnce
  <2>4. ~x.ok /\ x.file.head = file.head
    BY <2>1, <2>3 DEF Sized, Mapped
  <2>5. x.map \in Mapping /\ x.file \in DataFile /\ HeadOK(x.file.head) /\ MapOK(x.map, x.file.head)
    BY <2>3 DEF Outcome, Resized
  <2>6. /\ Sized(x.map, x.file, InitialSize, y) /\ Resized(x.file, y) /\ Shaped(y.file) /\ y \in Outcome
        /\ y.file.head.size # x.file.head.size =>
             ~x.file.head.signature /\ y.file.head.size = InitialSize
    BY <2>3, <2>5, OpenOnce
  <2>7. PICK b : b = (y.io \/ x.io)
    OBVIOUS
  <2>8. b \in BOOLEAN
    BY <2>7
  <2>9. o \in Outcome /\ o.ok = y.ok /\ o.io = b /\ o.file = y.file /\ o.map = y.map
    <3>1. o = [y EXCEPT !.io = b]
      BY <2>2, <2>7
    <3>2. QED
      BY <2>6, <2>8, <3>1 DEF Outcome
  <2>10. Resized(file, o)
    BY <2>4, <2>6, <2>9 DEF Resized
  <2>11. y.ok => /\ y.file.len = InitialSize /\ y.file.head.size = InitialSize
                 /\ y.file.head.signature /\ y.map.open
    BY <2>6 DEF Sized, Mapped
  <2>12. After(o, failures) = 0 => failures = 0 /\ ~y.io /\ ~x.io
    <3>1. After(o, failures) = IF b THEN failures + 1 ELSE failures
      BY <2>9 DEF After
    <3>2. CASE b
      BY <3>1, <3>2
    <3>3. CASE ~b
      BY <2>7, <3>1, <3>3
    <3>4. QED
      BY <3>2, <3>3
  <2>13. failures = 0 /\ ~y.io /\ ~x.io => y.ok /\ file.len = 0
    <3>1. SUFFICES ASSUME failures = 0, ~y.io, ~x.io PROVE y.ok /\ file.len = 0
      OBVIOUS
    <3>2. file.len = file.head.size
      BY <3>1 DEF Even
    <3>3. \/ file.len = 0
          \/ file.len < file.head.size \/ file.len > file.head.size
      BY <2>3, <2>4, <3>1 DEF Sized
    <3>4. file.len = 0 /\ ~file.head.signature
      BY <1>1, <3>2, <3>3 DEF HeadOK
    <3>5. y.ok
      BY <1>1, <2>4, <2>6, <3>1, <3>4 DEF Sized
    <3>6. QED
      BY <3>4, <3>5
  <2>14. Even(o.file, After(o, failures))
    BY <2>6, <2>9, <2>11, <2>12, <2>13 DEF Even
  <2>15. o.ok => o.file.head.signature
    BY <2>9, <2>11
  <2>16. After(o, failures) = 0 => (o.ok => o.map.open) /\ file.len <= o.file.len
    BY <1>1, <2>9, <2>11, <2>12, <2>13
  <2>17. QED
    BY <2>4, <2>6, <2>9, <2>10, <2>14, <2>15, <2>16
<1>4. QED
  BY <1>2, <1>3 DEF OpenOutcomes

LEMMA ExtendSizes ==
    ASSUME NEW m \in Mapping, NEW file \in DataFile, NEW failures \in Nat, NEW size \in Nat,
           HeadOK(file.head), Even(file, failures), MapOK(m, file.head),
           m.open => file.head.signature,
           InitialSize <= size, file.head.size <= size,
           NEW o \in ExtendSizeTo(m, file, size)
    PROVE  /\ Resized(file, o) /\ o \in Outcome /\ FileOutcome(m, file, o)
           /\ o.map.open => size <= o.map.size
           /\ o.file.head.size \in {file.head.size, size}
           /\ file.len <= o.file.len
           /\ Even(o.file, After(o, failures)) \/ (~o.map.open /\ file.head.size < size)
           /\ ~o.io /\ m.open /\ (file.head.readers = 0 \/ size = file.head.size) => o.map.open
<1>1. /\ file.len \in Nat /\ InitialSize \in Nat \ {0} /\ file.head \in Header
      /\ m.size \in Nat /\ Shaped(file)
      /\ file.head.size \in Nat /\ (~file.head.signature => file.head.size = 0)
  BY InitialSizeAssumption, BlankSize DEF DataFile, Mapping, Even, HeadOK
<1>2. FileOutcome(m, file, o) /\ o \in Outcome /\ (o.map.open => size <= o.map.size)
  BY ExtendIs DEF HeadOK
<1>3. CASE m.size >= size
  <2>1. o = [ok |-> FALSE, io |-> FALSE, file |-> file, map |-> m]
    BY <1>3 DEF ExtendSizeTo
  <2>2. o.file = file /\ o.map = m /\ o.io = FALSE
    BY <2>1
  <2>3. m.size = file.head.size /\ size = file.head.size
    BY <1>1, <1>3 DEF MapOK
  <2>4. After(o, failures) = failures
    BY <2>2 DEF After
  <2>5. Resized(file, o)
    BY <1>1, <2>2, <2>3 DEF Resized
  <2>6. QED
    BY <1>1, <1>2, <2>2, <2>3, <2>4, <2>5
<1>4. CASE ~(m.size >= size)
  <2>1. o \in MapTable(m, file, size)
    BY <1>4 DEF ExtendSizeTo
  <2>2. Sized(m, file, size, o)
    BY <2>1, MapTableSizes DEF HeadOK
  <2>3. /\ Kept(file.head, o.file.head) /\ Signed(o.file.head)
        /\ file.head.signature => o.file.head.signature
        /\ o.file \in DataFile /\ o.file.len \in Nat /\ o.file.head.size \in Nat
        /\ file.head.size <= o.file.head.size
    BY <1>2, <2>2, SignedKept DEF Sized, Mapped, Outcome, DataFile, Header, Kept, HeadOK
  <2>4. file.len <= size
    BY <1>1 DEF Shaped
  <2>5. CASE o.ok
    <3>1. /\ o.file.len = size /\ o.file.head.size = size /\ o.file.head.signature
          /\ o.map.open /\ o.map.size = size
      BY <2>2, <2>5 DEF Sized, Mapped
    <3>2. Resized(file, o)
      BY <1>1, <2>3, <3>1 DEF Resized, HeadOK, MapOK
    <3>3. Even(o.file, After(o, failures))
      BY <3>1 DEF Even, Shaped
    <3>4. QED
      BY <1>2, <2>4, <3>1, <3>2, <3>3
  <2>6. CASE ~o.ok
    <3>1. /\ o.file.head = file.head /\ o.file.len \in {file.len, size}
          /\ ~o.map.open /\ o.map.size = m.size
      BY <2>2, <2>6 DEF Sized, Mapped
    <3>2. Resized(file, o)
      BY <1>1, <2>3, <3>1 DEF Resized, HeadOK, MapOK
    <3>3. ~o.io => file.head.size < size /\ file.head.readers # 0
      BY <1>1, <2>2, <2>6 DEF Sized
    <3>4. o.io /\ ~(file.head.size < size) => Even(o.file, After(o, failures))
      <4>1. SUFFICES ASSUME o.io, ~(file.head.size < size) PROVE Even(o.file, After(o, failures))
        OBVIOUS
      <4>2. After(o, failures) # 0
        BY <4>1 DEF After
      <4>3. file.head.signature /\ file.head.size = size
        BY <1>1, <4>1
      <4>4. Shaped(o.file)
        BY <1>1, <3>1, <4>3 DEF Shaped
      <4>5. QED
        BY <4>2, <4>4 DEF Even
    <3>5. QED
      BY <1>1, <1>2, <2>4, <3>1, <3>2, <3>3, <3>4
  <2>7. QED
    BY <2>5, <2>6
<1>5. QED
  BY <1>3, <1>4

-----------------------------------------------------------------------------
(* Steps that leave the sizes alone.                                       *)

\* The state of the files as far as sizes are concerned.
SameSizes ==
    /\ \A f \in Files : /\ disk'[f].len = disk[f].len
                        /\ disk'[f].head.size = disk[f].head.size
                        /\ disk'[f].head.signature = disk[f].head.signature
    /\ map' = map /\ grower' = grower

LEMMA OtherFile ==
    ASSUME NEW f \in Files
    PROVE  1 - f \in Files /\ 1 - f # f /\ 1 - (1 - f) = f
BY DEF Files

LEMMA SameKnowledge ==
    ASSUME SameSizes, NEW x \in CallFrame, NEW p
    PROVE  /\ Knows(x, p) => Knows(x, p)'
           /\ \A f : Foreign(p, f)' <=> Foreign(p, f)
           /\ Unharmed(x, p) => Unharmed(x, p)'
           /\ selector' = selector => (Doomed(x, p)' <=> Doomed(x, p))
<1>1. x.tab \in Files /\ 1 - x.tab \in Files /\ 0 \in Files
  BY OtherFile DEF CallFrame, Locals, Files
<1>2. map' = map /\ grower' = grower
  BY DEF SameSizes
<1>3. /\ disk'[x.tab].len = disk[x.tab].len
      /\ disk'[x.tab].head.size = disk[x.tab].head.size
      /\ disk'[1 - x.tab].head.size = disk[1 - x.tab].head.size
      /\ disk'[1 - x.tab].head.signature = disk[1 - x.tab].head.signature
      /\ disk'[0].head.signature = disk[0].head.signature
  BY <1>1 DEF SameSizes
<1>4. Knows(x, p) => Knows(x, p)'
  BY <1>2, <1>3 DEF Knows
<1>5. \A f : Foreign(p, f)' <=> Foreign(p, f)
  BY <1>2 DEF Foreign
<1>6. Unharmed(x, p) => Unharmed(x, p)'
  BY <1>2, <1>5 DEF Unharmed
<1>7. selector' = selector => (Doomed(x, p)' <=> Doomed(x, p))
  BY <1>2 DEF Doomed
<1>8. QED
  BY <1>4, <1>5, <1>6, <1>7

LEMMA SameTables ==
    ASSUME IInv, EventInv, HeadInv, MapInv, SameSizes, selector' = selector
    PROVE  /\ EventInv' <=> count' \in EventRecord
           /\ HeadInv' /\ MapInv'
           /\ \A f \in Files : \A n : Even(disk[f], n) => Even(disk'[f], n)
<1>1. map' = map /\ grower' = grower /\ selector \in Files /\ 1 - selector \in Files /\ 1 \in Files
  BY OtherFile DEF SameSizes, IInv, TypeInv, Files
<1>2. EventInv' <=> count' \in EventRecord
  BY <1>1 DEF EventInv
<1>3. HeadInv'
  BY <1>1 DEF HeadInv, SameSizes
<1>4. MapInv'
  BY <1>1 DEF MapInv, Remembers, Foreign, SameSizes
<1>5. \A f \in Files : \A n : Even(disk[f], n) => Even(disk'[f], n)
  BY DEF Even, Shaped, SameSizes
<1>6. QED
  BY <1>2, <1>3, <1>4, <1>5

\* A thread that moves, one of its locks perhaps, and its process perhaps.
LEMMA QuietStep ==
    ASSUME IInv, GrowthInv, SameSizes, NEW t \in Thread, NEW c \in CallFrame, NEW p, p = ProcessOf[t],
           frame' = [frame EXCEPT ![t] = c],
           selector' = selector, late => late',
           count' \in EventRecord, count'.failures = count.failures,
           spinLock' = spinLock \/ spinLock \in {t, NoThread},
           spinLock' \in {spinLock, t, NoThread},
           \A q \in Process : q # p => status'[q] = status[q],
           status'[p] = status[p] \/ \A u \in Thread \ {t} : ProcessOf[u] = p => frame[u].pc = "idle",
           RunsIn(c, status'[p]), Knows(c, p), c.pc = "relock" => Foreign(p, c.tab),
           spinLock = t /\ Doomed(frame[t], p) => spinLock' = t /\ Doomed(c, p),
           Calm => /\ Unharmed(c, p)
                   /\ status'[p] = "open" => \A f \in Files : map[p][f].open
    PROVE  GrowthInv'
<1>1. /\ frame \in [Thread -> CallFrame] /\ ProcessOf \in [Thread -> Process]
      /\ spinLock \in Thread \cup {NoThread, DeadThread}
      /\ map' = map /\ p \in Process
  BY ProcessOfAssumption DEF IInv, TypeInv, SameSizes
<1>2. /\ frame'[t] = c
      /\ \A u \in Thread \ {t} : frame'[u] = frame[u] /\ frame[u] \in CallFrame
  BY <1>1
<1>3. EventInv' /\ HeadInv' /\ MapInv' /\ \A f \in Files : \A n : Even(disk[f], n) => Even(disk'[f], n)
  BY SameTables DEF GrowthInv
<1>4. FrameInv'
  <2>1. SUFFICES ASSUME NEW u \in Thread
                 PROVE  /\ RunsIn(frame[u], status[ProcessOf[u]])'
                        /\ Knows(frame[u], ProcessOf[u])'
                        /\ Waits(frame[u], ProcessOf[u], spinLock = u)'
    BY DEF FrameInv
  <2>2. CASE u = t
    <3>1. Knows(c, p)' /\ (Foreign(p, c.tab)' <=> Foreign(p, c.tab))
      BY SameKnowledge
    <3>2. c.pc = "relock" => Foreign(p, c.tab)'
      BY <3>1
    <3>3. Knows(frame[u], ProcessOf[u])'
      BY <1>2, <2>2, <3>1 DEF Knows
    <3>4. QED
      BY <1>2, <2>2, <3>2, <3>3 DEF Waits, Foreign, RunsIn
  <2>3. CASE u # t
    <3>1. PICK x \in CallFrame, q \in Process : x = frame[u] /\ q = ProcessOf[u]
      BY <1>1
    <3>2. RunsIn(x, status[q]) /\ Knows(x, q) /\ Waits(x, q, spinLock = u)
      BY <3>1 DEF GrowthInv, FrameInv
    <3>3. Knows(x, q)' /\ (Foreign(q, x.tab)' <=> Foreign(q, x.tab))
      BY <3>2, SameKnowledge
    <3>4. RunsIn(x, status'[q])
      <4>1. CASE q # p
        BY <3>2, <4>1
      <4>2. CASE q = p /\ status'[p] = status[p]
        BY <3>2, <4>2
      <4>3. CASE q = p /\ frame[u].pc = "idle"
        BY <3>1, <4>3 DEF RunsIn, OpenPC
      <4>4. QED
        BY <2>3, <3>1, <4>1, <4>2, <4>3
    <3>5. spinLock' = u => spinLock = u
      BY <2>3, ThreadAssumption
    <3>6. x.pc = "relock" /\ spinLock' = u => Foreign(q, x.tab)'
      BY <3>2, <3>3, <3>5 DEF Waits
    <3>7. frame'[u] = x
      BY <1>2, <2>3, <3>1
    <3>8. Knows(frame[u], ProcessOf[u])'
      BY <3>1, <3>3, <3>7 DEF Knows
    <3>9. QED
      BY <3>1, <3>4, <3>6, <3>7, <3>8 DEF Waits, Foreign, RunsIn
  <2>4. QED
    BY <2>2, <2>3
<1>5. LengthInv'
  <2>1. CASE LockLost
    <3>1. CASE spinLock = DeadThread
      <4>1. spinLock' = DeadThread
        BY <3>1, ThreadAssumption
      <4>2. QED
        BY <4>1 DEF LengthInv, LockLost
    <3>2. CASE spinLock = t /\ Doomed(frame[t], p)
      <4>1. spinLock' = t /\ Doomed(c, p)'
        BY <3>2, SameKnowledge
      <4>2. frame'[t] = c
        BY <1>2
      <4>3. Doomed(frame[t], p)'
        BY <4>1, <4>2 DEF Doomed
      <4>4. QED
        BY <4>1, <4>3 DEF LengthInv, LockLost
    <3>3. CASE \E u \in Thread \ {t} : spinLock = u /\ Doomed(frame[u], ProcessOf[u])
      <4>1. PICK u \in Thread \ {t} : spinLock = u /\ Doomed(frame[u], ProcessOf[u])
        BY <3>3
      <4>2. PICK x \in CallFrame, q \in Process : x = frame[u] /\ q = ProcessOf[u]
        BY <1>1
      <4>3. Doomed(x, q)'
        BY <4>1, <4>2, SameKnowledge
      <4>4. spinLock' = u /\ frame'[u] = x
        BY <1>2, <4>1, <4>2, ThreadAssumption
      <4>5. Doomed(frame[u], ProcessOf[u])'
        BY <4>2, <4>3, <4>4 DEF Doomed
      <4>6. QED
        BY <4>4, <4>5 DEF LengthInv, LockLost
    <3>4. QED
      BY <2>1, <3>1, <3>2, <3>3 DEF LockLost
  <2>2. CASE \A f \in Files : Even(disk[f], count.failures)
    <3>1. \A f \in Files : Even(disk'[f], count'.failures)
      BY <1>3, <2>2
    <3>2. QED
      BY <3>1 DEF LengthInv
  <2>3. QED
    BY <2>1, <2>2 DEF GrowthInv, LengthInv
<1>6. CalmInv'
  <2>1. SUFFICES ASSUME Calm'
                 PROVE  /\ \A q \in Process, f \in Files : status'[q] = "open" => map'[q][f].open
                        /\ \A u \in Thread : Unharmed(frame[u], ProcessOf[u])'
    BY DEF CalmInv
  <2>2. Calm
    BY <2>1 DEF Calm
  <2>3. /\ \A q \in Process, f \in Files : status[q] = "open" => map[q][f].open
        /\ \A u \in Thread : Unharmed(frame[u], ProcessOf[u])
    BY <2>2 DEF GrowthInv, CalmInv
  <2>4. \A q \in Process, f \in Files : status'[q] = "open" => map'[q][f].open
    BY <1>1, <2>2, <2>3
  <2>5. ASSUME NEW u \in Thread PROVE Unharmed(frame[u], ProcessOf[u])'
    <3>1. PICK x \in CallFrame : x = frame'[u]
      BY <1>2
    <3>2. Unharmed(x, ProcessOf[u])
      BY <1>2, <2>2, <2>3, <3>1
    <3>3. Unharmed(x, ProcessOf[u])'
      BY <3>2, SameKnowledge
    <3>4. QED
      BY <3>1, <3>3 DEF Unharmed
  <2>6. QED
    BY <2>4, <2>5
<1>7. QED
  BY <1>3, <1>4, <1>5, <1>6 DEF GrowthInv

-----------------------------------------------------------------------------
(* Actions that leave the sizes alone.                                     *)

\* What is known of a thread and of its process.
LEMMA AtHand ==
    ASSUME IInv, GrowthInv, NEW t \in Thread, NEW d, d = frame[t], NEW p, p = ProcessOf[t]
    PROVE  /\ d \in CallFrame /\ p \in Process
           /\ d.tab \in Files /\ 1 - d.tab \in Files /\ selector \in Files
           /\ StageOK(d) /\ OnActive(d, selector) /\ (Holds(d) => spinLock = t)
           /\ RunsIn(d, status[p]) /\ Knows(d, p)
           /\ d.pc = "relock" /\ spinLock = t => Foreign(p, d.tab)
           /\ Calm => Unharmed(d, p) /\ (status[p] = "open" => \A f \in Files : map[p][f].open)
           /\ frame \in [Thread -> CallFrame] /\ ProcessOf \in [Thread -> Process]
           /\ status \in [Process -> {"closed", "opening", "open"}]
           /\ map \in [Process -> [Files -> Mapping]] /\ disk \in [Files -> DataFile]
           /\ count \in EventRecord /\ count.failures \in Nat
<1>1. /\ frame \in [Thread -> CallFrame] /\ ProcessOf \in [Thread -> Process] /\ d \in CallFrame
      /\ status \in [Process -> {"closed", "opening", "open"}] /\ p \in Process
      /\ map \in [Process -> [Files -> Mapping]] /\ disk \in [Files -> DataFile]
      /\ selector \in Files
  BY ProcessOfAssumption DEF IInv, TypeInv
<1>2. d.tab \in Files /\ 1 - d.tab \in Files
  BY <1>1, OtherFile DEF CallFrame, Locals
<1>3. StageOK(d) /\ OnActive(d, selector) /\ (Holds(d) => spinLock = t)
  BY DEF IInv, ThreadInv
<1>4. /\ RunsIn(d, status[p]) /\ Knows(d, p)
      /\ d.pc = "relock" /\ spinLock = t => Foreign(p, d.tab)
  BY DEF GrowthInv, FrameInv, Waits
<1>5. Calm => Unharmed(d, p) /\ (status[p] = "open" => \A f \in Files : map[p][f].open)
  BY <1>1 DEF GrowthInv, CalmInv
<1>6. count \in EventRecord /\ count.failures \in Nat
  BY DEF GrowthInv, EventInv, EventRecord
<1>7. QED
  BY <1>1, <1>2, <1>3, <1>4, <1>5, <1>6

LEMMA SameHead ==
    ASSUME IInv, NEW f \in Files, NEW h, disk' = [disk EXCEPT ![f].head = h],
           h.size = disk[f].head.size, h.signature = disk[f].head.signature,
           UNCHANGED <<map, grower>>
    PROVE  SameSizes
<1>1. disk \in [Files -> DataFile] /\ \A e \in Files : disk[e] \in DataFile
  BY DEF IInv, TypeInv
<1>2. ASSUME NEW e \in Files
      PROVE  /\ disk'[e].len = disk[e].len /\ disk'[e].head.size = disk[e].head.size
             /\ disk'[e].head.signature = disk[e].head.signature
  <2>1. CASE e = f
    <3>1. disk'[f] = [disk[f] EXCEPT !.head = h]
      BY <1>1
    <3>2. PICK g \in DataFile : g = disk[f]
      BY <1>1
    <3>3. disk'[f].head = h /\ disk'[f].len = g.len
      BY <3>1, <3>2 DEF DataFile
    <3>4. QED
      BY <2>1, <3>2, <3>3
  <2>2. CASE e # f
    BY <1>1, <2>2
  <2>3. QED
    BY <2>1, <2>2
<1>3. QED
  BY <1>2 DEF SameSizes

LEMMA OpenSyncGrows ==
    ASSUME IInv, IInv', GrowthInv, NEW t \in Thread, OpenSync(t)
    PROVE  GrowthInv'
<1>1. PICK d, p : d = frame[t] /\ p = ProcessOf[t]
  OBVIOUS
<1>2. /\ d \in CallFrame /\ p \in Process
      /\ d.tab \in Files /\ 1 - d.tab \in Files /\ selector \in Files
      /\ StageOK(d) /\ OnActive(d, selector) /\ (Holds(d) => spinLock = t)
      /\ RunsIn(d, status[p]) /\ Knows(d, p)
      /\ d.pc = "relock" /\ spinLock = t => Foreign(p, d.tab)
      /\ Calm => Unharmed(d, p) /\ (status[p] = "open" => \A f \in Files : map[p][f].open)
      /\ frame \in [Thread -> CallFrame] /\ count \in EventRecord
      /\ status \in [Process -> {"closed", "opening", "open"}]
  BY <1>1, AtHand
<1>3. d.pc = "idle" /\ status[p] = "closed" /\ spinLock = NoThread
  BY <1>1 DEF OpenSync, At, P
<1>4. PICK c : c = [d EXCEPT !.pc = "openSize", !.tab = 0]
  OBVIOUS
<1>5. frame' = [frame EXCEPT ![t] = c] /\ c \in CallFrame
  <2>1. frame' = [frame EXCEPT ![t] = c]
    BY <1>1, <1>2, <1>4 DEF OpenSync, Goto, P
  <2>2. frame' \in [Thread -> CallFrame]
    BY DEF IInv, TypeInv
  <2>3. QED
    BY <1>2, <2>1, <2>2
<1>6. SameSizes /\ selector' = selector
  BY DEF OpenSync, files, SameSizes
<1>7. /\ late' = late /\ spinLock' = t
      /\ status' = [status EXCEPT ![p] = "opening"]
      /\ count' \in EventRecord /\ count'.failures = count.failures
  BY <1>1, <1>2, <1>3 DEF OpenSync, P, Counted, EventRecord
<1>8. c.pc = "openSize" /\ c.tab = 0 /\ c.stage = d.stage
  BY <1>2, <1>3, <1>4 DEF CallFrame, Locals, NoCall, Files
<1>9. RunsIn(c, status'[p]) /\ Knows(c, p) /\ c.pc # "relock"
  BY <1>2, <1>3, <1>7, <1>8 DEF RunsIn, Knows, OpenPC
<1>10. Calm => Unharmed(c, p)
  BY <1>2, <1>3, <1>8 DEF Unharmed, FollowsActive
<1>11. spinLock = t /\ Doomed(d, p) => spinLock' = t /\ Doomed(c, p)
  BY <1>2, <1>3, <1>7, <1>8 DEF Doomed
<1>12. /\ late => late'
       /\ spinLock' = spinLock \/ spinLock \in {t, NoThread}
       /\ spinLock' \in {spinLock, t, NoThread}
  BY <1>2, <1>3, <1>7 DEF Holds, OpenPC, StageOK, MaintainPC
<1>13. /\ \A q \in Process : q # p => status'[q] = status[q]
       /\ status'[p] = status[p] \/ \A u \in Thread \ {t} : ProcessOf[u] = p => frame[u].pc = "idle"
       /\ Calm /\ status'[p] = "open" => \A e \in Files : map[p][e].open
  <2>1. status[p] # "open" /\ status'[p] # "open"
    BY <1>2, <1>3, <1>7
  <2>2. ASSUME NEW u \in Thread \ {t}, ProcessOf[u] = p PROVE frame[u].pc = "idle"
    <3>1. PICK x : x = frame[u]
      OBVIOUS
    <3>2. RunsIn(x, status[p])
      BY <2>2, <3>1 DEF GrowthInv, FrameInv
    <3>3. QED
      BY <3>1, <3>2, <1>3 DEF RunsIn, OpenPC
  <2>3. QED
    BY <1>2, <1>7, <2>1, <2>2
<1>14. QED
  BY <1>1, <1>5, <1>6, <1>7, <1>9, <1>10, <1>11, <1>12, <1>13, QuietStep

LEMMA OpenSizeGrows ==
    ASSUME IInv, IInv', GrowthInv, NEW t \in Thread, OpenSize(t)
    PROVE  GrowthInv'
<1>1. PICK d, p : d = frame[t] /\ p = ProcessOf[t]
  OBVIOUS
<1>2. /\ d \in CallFrame /\ p \in Process
      /\ d.tab \in Files /\ 1 - d.tab \in Files /\ selector \in Files
      /\ StageOK(d) /\ OnActive(d, selector) /\ (Holds(d) => spinLock = t)
      /\ RunsIn(d, status[p]) /\ Knows(d, p)
      /\ d.pc = "relock" /\ spinLock = t => Foreign(p, d.tab)
      /\ Calm => Unharmed(d, p) /\ (status[p] = "open" => \A f \in Files : map[p][f].open)
      /\ frame \in [Thread -> CallFrame] /\ count \in EventRecord
      /\ status \in [Process -> {"closed", "opening", "open"}]
  BY <1>1, AtHand
<1>3. d.pc = "openSize"
  BY <1>1 DEF OpenSize, At, P
<1>4. PICK c : c = [d EXCEPT !.pc = "openMap", !.seen = disk[d.tab].len]
  OBVIOUS
<1>5. frame' = [frame EXCEPT ![t] = c] /\ c \in CallFrame
  <2>1. frame' = [frame EXCEPT ![t] = c]
    BY <1>1, <1>2, <1>4 DEF OpenSize, Goto, P
  <2>2. frame' \in [Thread -> CallFrame]
    BY DEF IInv, TypeInv
  <2>3. QED
    BY <1>2, <2>1, <2>2
<1>6. SameSizes /\ selector' = selector
  BY DEF OpenSize, files, SameSizes
<1>7. /\ late' = late /\ spinLock' = spinLock
      /\ status' = status
      /\ count' \in EventRecord /\ count'.failures = count.failures
  BY <1>1, <1>2, <1>3 DEF OpenSize, P, Counted, EventRecord
<1>8. c.pc = "openMap" /\ c.tab = d.tab /\ c.stage = d.stage /\ c.seen = disk[d.tab].len
  BY <1>2, <1>3, <1>4 DEF CallFrame, Locals, NoCall
<1>9. RunsIn(c, status'[p]) /\ Knows(c, p) /\ c.pc # "relock"
  BY <1>2, <1>3, <1>7, <1>8 DEF RunsIn, Knows, OpenPC
<1>10. Calm => Unharmed(c, p)
  BY <1>2, <1>3, <1>8 DEF Unharmed, FollowsActive
<1>11. spinLock = t /\ Doomed(d, p) => spinLock' = t /\ Doomed(c, p)
  BY <1>2, <1>3, <1>7, <1>8 DEF Doomed
<1>12. /\ late => late'
       /\ spinLock' = spinLock \/ spinLock \in {t, NoThread}
       /\ spinLock' \in {spinLock, t, NoThread}
  BY <1>2, <1>3, <1>7 DEF Holds, OpenPC, StageOK, MaintainPC
<1>13. /\ \A q \in Process : q # p => status'[q] = status[q]
       /\ status'[p] = status[p] \/ \A u \in Thread \ {t} : ProcessOf[u] = p => frame[u].pc = "idle"
       /\ Calm /\ status'[p] = "open" => \A e \in Files : map[p][e].open
  BY <1>2, <1>7
<1>14. QED
  BY <1>1, <1>5, <1>6, <1>7, <1>9, <1>10, <1>11, <1>12, <1>13, QuietStep

LEMMA OpenUnlockGrows ==
    ASSUME IInv, IInv', GrowthInv, NEW t \in Thread, OpenUnlock(t)
    PROVE  GrowthInv'
<1>1. PICK d, p : d = frame[t] /\ p = ProcessOf[t]
  OBVIOUS
<1>2. /\ d \in CallFrame /\ p \in Process
      /\ d.tab \in Files /\ 1 - d.tab \in Files /\ selector \in Files
      /\ StageOK(d) /\ OnActive(d, selector) /\ (Holds(d) => spinLock = t)
      /\ RunsIn(d, status[p]) /\ Knows(d, p)
      /\ d.pc = "relock" /\ spinLock = t => Foreign(p, d.tab)
      /\ Calm => Unharmed(d, p) /\ (status[p] = "open" => \A f \in Files : map[p][f].open)
      /\ frame \in [Thread -> CallFrame] /\ count \in EventRecord
      /\ status \in [Process -> {"closed", "opening", "open"}]
  BY <1>1, AtHand
<1>3. d.pc = "openUnlock"
  BY <1>1 DEF OpenUnlock, At, P
<1>4. PICK c : c = NoCall
  OBVIOUS
<1>5. frame' = [frame EXCEPT ![t] = c] /\ c \in CallFrame
  <2>1. frame' = [frame EXCEPT ![t] = c]
    BY <1>1, <1>2, <1>4 DEF OpenUnlock, Goto, P
  <2>2. frame' \in [Thread -> CallFrame]
    BY DEF IInv, TypeInv
  <2>3. QED
    BY <1>2, <2>1, <2>2
<1>6. SameSizes /\ selector' = selector
  BY DEF OpenUnlock, files, SameSizes
<1>7. /\ late' = late /\ spinLock' = NoThread
      /\ status' = [status EXCEPT ![p] = IF d.err = "NO" THEN "open" ELSE "closed"]
      /\ count' \in EventRecord /\ count'.failures = count.failures
  BY <1>1, <1>2, <1>3 DEF OpenUnlock, P, Counted, EventRecord
<1>8. c.pc = "idle" /\ c.stage = 1
  BY <1>2, <1>3, <1>4 DEF CallFrame, Locals, NoCall
<1>9. RunsIn(c, status'[p]) /\ Knows(c, p) /\ c.pc # "relock"
  BY <1>2, <1>3, <1>7, <1>8 DEF RunsIn, Knows, OpenPC
<1>10. Calm => Unharmed(c, p)
  BY <1>2, <1>3, <1>8 DEF Unharmed, FollowsActive
<1>11. spinLock = t /\ Doomed(d, p) => spinLock' = t /\ Doomed(c, p)
  BY <1>2, <1>3, <1>7, <1>8 DEF Doomed
<1>12. /\ late => late'
       /\ spinLock' = spinLock \/ spinLock \in {t, NoThread}
       /\ spinLock' \in {spinLock, t, NoThread}
  BY <1>2, <1>3, <1>7 DEF Holds, OpenPC, StageOK, MaintainPC
<1>13. /\ \A q \in Process : q # p => status'[q] = status[q]
       /\ status'[p] = status[p] \/ \A u \in Thread \ {t} : ProcessOf[u] = p => frame[u].pc = "idle"
       /\ Calm /\ status'[p] = "open" => \A e \in Files : map[p][e].open
  <2>1. status[p] = "opening"
    BY <1>2, <1>3 DEF RunsIn, OpenPC
  <2>2. ASSUME NEW u \in Thread \ {t}, ProcessOf[u] = p PROVE frame[u].pc = "idle"
    <3>1. PICK x : x = frame[u]
      OBVIOUS
    <3>2. RunsIn(x, status[p]) /\ (Holds(x) => spinLock = u)
      BY <2>2, <3>1 DEF GrowthInv, FrameInv, IInv, ThreadInv
    <3>3. ~Holds(x)
      BY <1>2, <1>3, <2>2, <3>2 DEF Holds, OpenPC
    <3>4. QED
      BY <2>1, <3>1, <3>2, <3>3 DEF RunsIn, Holds
  <2>3. Calm /\ status'[p] = "open" => \A f \in Files : map[p][f].open
    <3>1. SUFFICES ASSUME Calm, status'[p] = "open" PROVE \A f \in Files : map[p][f].open
      OBVIOUS
    <3>2. d.err = "NO"
      BY <1>2, <1>7, <3>1
    <3>3. map[p][0].open /\ map[p][1].open
      BY <1>2, <1>3, <3>1, <3>2 DEF Unharmed
    <3>4. QED
      BY <3>3 DEF Files
  <2>4. QED
    BY <1>2, <1>7, <2>2, <2>3
<1>14. QED
  BY <1>1, <1>5, <1>6, <1>7, <1>9, <1>10, <1>11, <1>12, <1>13, QuietStep

LEMMA BeginGrows ==
    ASSUME IInv, IInv', GrowthInv, NEW t \in Thread, NEW o, NEW k, Begin(t, o, k)
    PROVE  GrowthInv'
<1>1. PICK d, p : d = frame[t] /\ p = ProcessOf[t]
  OBVIOUS
<1>2. /\ d \in CallFrame /\ p \in Process
      /\ d.tab \in Files /\ 1 - d.tab \in Files /\ selector \in Files
      /\ StageOK(d) /\ OnActive(d, selector) /\ (Holds(d) => spinLock = t)
      /\ RunsIn(d, status[p]) /\ Knows(d, p)
      /\ d.pc = "relock" /\ spinLock = t => Foreign(p, d.tab)
      /\ Calm => Unharmed(d, p) /\ (status[p] = "open" => \A f \in Files : map[p][f].open)
      /\ frame \in [Thread -> CallFrame] /\ count \in EventRecord
      /\ status \in [Process -> {"closed", "opening", "open"}]
  BY <1>1, AtHand
<1>3. d.pc = "idle" /\ status[p] = "open"
  BY <1>1 DEF Begin, At, P
<1>4. PICK c : c = [NoCall EXCEPT !.pc = "load", !.op = o, !.key = k]
  OBVIOUS
<1>5. frame' = [frame EXCEPT ![t] = c] /\ c \in CallFrame
  <2>1. frame' = [frame EXCEPT ![t] = c]
    BY <1>1, <1>2, <1>4 DEF Begin, Goto, P
  <2>2. frame' \in [Thread -> CallFrame]
    BY DEF IInv, TypeInv
  <2>3. QED
    BY <1>2, <2>1, <2>2
<1>6. SameSizes /\ selector' = selector
  BY DEF Begin, files, SameSizes
<1>7. /\ late' = late /\ spinLock' = spinLock
      /\ status' = status
      /\ count' \in EventRecord /\ count'.failures = count.failures
  BY <1>1, <1>2, <1>3 DEF Begin, P, Counted, EventRecord
<1>8. c.pc = "load" /\ c.stage = 1
  BY <1>2, <1>3, <1>4 DEF CallFrame, Locals, NoCall
<1>9. RunsIn(c, status'[p]) /\ Knows(c, p) /\ c.pc # "relock"
  BY <1>2, <1>3, <1>7, <1>8 DEF RunsIn, Knows, OpenPC
<1>10. Calm => Unharmed(c, p)
  BY <1>2, <1>3, <1>8 DEF Unharmed, FollowsActive
<1>11. spinLock = t /\ Doomed(d, p) => spinLock' = t /\ Doomed(c, p)
  BY <1>2, <1>3, <1>7, <1>8 DEF Doomed
<1>12. /\ late => late'
       /\ spinLock' = spinLock \/ spinLock \in {t, NoThread}
       /\ spinLock' \in {spinLock, t, NoThread}
  BY <1>2, <1>3, <1>7 DEF Holds, OpenPC, StageOK, MaintainPC
<1>13. /\ \A q \in Process : q # p => status'[q] = status[q]
       /\ status'[p] = status[p] \/ \A u \in Thread \ {t} : ProcessOf[u] = p => frame[u].pc = "idle"
       /\ Calm /\ status'[p] = "open" => \A e \in Files : map[p][e].open
  BY <1>2, <1>7
<1>14. QED
  BY <1>1, <1>5, <1>6, <1>7, <1>9, <1>10, <1>11, <1>12, <1>13, QuietStep

LEMMA LoadStateGrows ==
    ASSUME IInv, IInv', GrowthInv, NEW t \in Thread, LoadState(t)
    PROVE  GrowthInv'
<1>1. PICK d, p : d = frame[t] /\ p = ProcessOf[t]
  OBVIOUS
<1>2. /\ d \in CallFrame /\ p \in Process
      /\ d.tab \in Files /\ 1 - d.tab \in Files /\ selector \in Files
      /\ StageOK(d) /\ OnActive(d, selector) /\ (Holds(d) => spinLock = t)
      /\ RunsIn(d, status[p]) /\ Knows(d, p)
      /\ d.pc = "relock" /\ spinLock = t => Foreign(p, d.tab)
      /\ Calm => Unharmed(d, p) /\ (status[p] = "open" => \A f \in Files : map[p][f].open)
      /\ frame \in [Thread -> CallFrame] /\ count \in EventRecord
      /\ status \in [Process -> {"closed", "opening", "open"}]
  BY <1>1, AtHand
<1>3. d.pc = "load"
  BY <1>1 DEF LoadState, At, P
<1>4. PICK c : c = [d EXCEPT !.pc = "enter"]
  OBVIOUS
<1>5. frame' = [frame EXCEPT ![t] = c] /\ c \in CallFrame
  <2>1. frame' = [frame EXCEPT ![t] = c]
    BY <1>1, <1>2, <1>4 DEF LoadState, Goto, P
  <2>2. frame' \in [Thread -> CallFrame]
    BY DEF IInv, TypeInv
  <2>3. QED
    BY <1>2, <2>1, <2>2
<1>6. SameSizes /\ selector' = selector
  BY DEF LoadState, files, SameSizes
<1>7. /\ late' = late /\ spinLock' = spinLock
      /\ status' = status
      /\ count' \in EventRecord /\ count'.failures = count.failures
  BY <1>1, <1>2, <1>3 DEF LoadState, P, Counted, EventRecord
<1>8. c.pc = "enter" /\ c.tab = d.tab /\ c.stage = d.stage /\ c.age = d.age
  BY <1>2, <1>3, <1>4 DEF CallFrame, Locals, NoCall
<1>9. RunsIn(c, status'[p]) /\ Knows(c, p) /\ c.pc # "relock"
  BY <1>2, <1>3, <1>7, <1>8 DEF RunsIn, Knows, OpenPC
<1>10. Calm => Unharmed(c, p)
  BY <1>2, <1>3, <1>8 DEF Unharmed, FollowsActive
<1>11. spinLock = t /\ Doomed(d, p) => spinLock' = t /\ Doomed(c, p)
  BY <1>2, <1>3, <1>7, <1>8 DEF Doomed
<1>12. /\ late => late'
       /\ spinLock' = spinLock \/ spinLock \in {t, NoThread}
       /\ spinLock' \in {spinLock, t, NoThread}
  BY <1>2, <1>3, <1>7 DEF Holds, OpenPC, StageOK, MaintainPC
<1>13. /\ \A q \in Process : q # p => status'[q] = status[q]
       /\ status'[p] = status[p] \/ \A u \in Thread \ {t} : ProcessOf[u] = p => frame[u].pc = "idle"
       /\ Calm /\ status'[p] = "open" => \A e \in Files : map[p][e].open
  BY <1>2, <1>7
<1>14. QED
  BY <1>1, <1>5, <1>6, <1>7, <1>9, <1>10, <1>11, <1>12, <1>13, QuietStep

LEMMA EnterSyncGrows ==
    ASSUME IInv, IInv', GrowthInv, NEW t \in Thread, EnterSync(t)
    PROVE  GrowthInv'
<1>1. PICK d, p : d = frame[t] /\ p = ProcessOf[t]
  OBVIOUS
<1>2. /\ d \in CallFrame /\ p \in Process
      /\ d.tab \in Files /\ 1 - d.tab \in Files /\ selector \in Files
      /\ StageOK(d) /\ OnActive(d, selector) /\ (Holds(d) => spinLock = t)
      /\ RunsIn(d, status[p]) /\ Knows(d, p)
      /\ d.pc = "relock" /\ spinLock = t => Foreign(p, d.tab)
      /\ Calm => Unharmed(d, p) /\ (status[p] = "open" => \A f \in Files : map[p][f].open)
      /\ frame \in [Thread -> CallFrame] /\ count \in EventRecord
      /\ status \in [Process -> {"closed", "opening", "open"}]
  BY <1>1, AtHand
<1>3. d.pc = "enter"
  BY <1>1 DEF EnterSync, At, P
<1>4. PICK c : c = [d EXCEPT !.pc = "active"]
  OBVIOUS
<1>5. frame' = [frame EXCEPT ![t] = c] /\ c \in CallFrame
  <2>1. frame' = [frame EXCEPT ![t] = c]
    BY <1>1, <1>2, <1>4 DEF EnterSync, Goto, P
  <2>2. frame' \in [Thread -> CallFrame]
    BY DEF IInv, TypeInv
  <2>3. QED
    BY <1>2, <2>1, <2>2
<1>6. SameSizes /\ selector' = selector
  BY DEF EnterSync, files, SameSizes
<1>7. /\ (late => late') /\ spinLock' = spinLock
      /\ status' = status
      /\ count' \in EventRecord /\ count'.failures = count.failures
  BY <1>1, <1>2, <1>3 DEF EnterSync, P, Counted, EventRecord
<1>8. c.pc = "active" /\ c.tab = d.tab /\ c.stage = d.stage /\ c.age = d.age
  BY <1>2, <1>3, <1>4 DEF CallFrame, Locals, NoCall
<1>9. RunsIn(c, status'[p]) /\ Knows(c, p) /\ c.pc # "relock"
  BY <1>2, <1>3, <1>7, <1>8 DEF RunsIn, Knows, OpenPC
<1>10. Calm => Unharmed(c, p)
  BY <1>2, <1>3, <1>8 DEF Unharmed, FollowsActive
<1>11. spinLock = t /\ Doomed(d, p) => spinLock' = t /\ Doomed(c, p)
  BY <1>2, <1>3, <1>7, <1>8 DEF Doomed
<1>12. /\ late => late'
       /\ spinLock' = spinLock \/ spinLock \in {t, NoThread}
       /\ spinLock' \in {spinLock, t, NoThread}
  BY <1>2, <1>3, <1>7 DEF Holds, OpenPC, StageOK, MaintainPC
<1>13. /\ \A q \in Process : q # p => status'[q] = status[q]
       /\ status'[p] = status[p] \/ \A u \in Thread \ {t} : ProcessOf[u] = p => frame[u].pc = "idle"
       /\ Calm /\ status'[p] = "open" => \A e \in Files : map[p][e].open
  BY <1>2, <1>7
<1>14. QED
  BY <1>1, <1>5, <1>6, <1>7, <1>9, <1>10, <1>11, <1>12, <1>13, QuietStep

LEMMA ActiveTableGrows ==
    ASSUME IInv, IInv', GrowthInv, NEW t \in Thread, ActiveTable(t)
    PROVE  GrowthInv'
<1>1. PICK d, p : d = frame[t] /\ p = ProcessOf[t]
  OBVIOUS
<1>2. /\ d \in CallFrame /\ p \in Process
      /\ d.tab \in Files /\ 1 - d.tab \in Files /\ selector \in Files
      /\ StageOK(d) /\ OnActive(d, selector) /\ (Holds(d) => spinLock = t)
      /\ RunsIn(d, status[p]) /\ Knows(d, p)
      /\ d.pc = "relock" /\ spinLock = t => Foreign(p, d.tab)
      /\ Calm => Unharmed(d, p) /\ (status[p] = "open" => \A f \in Files : map[p][f].open)
      /\ frame \in [Thread -> CallFrame] /\ count \in EventRecord
      /\ status \in [Process -> {"closed", "opening", "open"}]
  BY <1>1, AtHand
<1>3. d.pc = "active"
  BY <1>1 DEF ActiveTable, At, P
<1>4. PICK c : c = [d EXCEPT !.tab = selector, !.age = map[p][selector].age, !.pc = IF ~map[p][selector].open THEN "lost" ELSE IF Outgrown(p, selector) THEN "relock" ELSE AfterActive(t)]
  OBVIOUS
<1>5. frame' = [frame EXCEPT ![t] = c] /\ c \in CallFrame
  <2>1. frame' = [frame EXCEPT ![t] = c]
    BY <1>1, <1>2, <1>4 DEF ActiveTable, Goto, P
  <2>2. frame' \in [Thread -> CallFrame]
    BY DEF IInv, TypeInv
  <2>3. QED
    BY <1>2, <2>1, <2>2
<1>6. SameSizes /\ selector' = selector
  BY DEF ActiveTable, files, SameSizes
<1>7. /\ late' = late /\ spinLock' = spinLock
      /\ status' = status
      /\ count' \in EventRecord /\ count'.failures = count.failures
  BY <1>1, <1>2, <1>3 DEF ActiveTable, P, Counted, EventRecord
<1>7a. map[p][selector].open /\ Outgrown(p, selector) => Foreign(p, selector)
  BY <1>2 DEF Outgrown, Head, GrowthInv, MapInv, Remembers, IInv, TypeInv, Mapping, DataFile, Header
<1>7b. PICK l : l = IF ~map[p][selector].open THEN "lost"
                    ELSE IF Outgrown(p, selector) THEN "relock" ELSE AfterActive(t)
  OBVIOUS
<1>7c. l \in {"lost", "relock", "plan", "test"}
  BY <1>7b DEF AfterActive
<1>7d. (l = "relock" => Foreign(p, selector)) /\ (l = "lost" => ~map[p][selector].open)
  <2>1. CASE ~map[p][selector].open
    BY <1>7b, <2>1
  <2>2. CASE map[p][selector].open /\ Outgrown(p, selector)
    BY <1>7a, <1>7b, <2>2
  <2>3. CASE map[p][selector].open /\ ~Outgrown(p, selector)
    BY <1>7b, <2>3 DEF AfterActive
  <2>4. QED
    BY <2>1, <2>2, <2>3
<1>8. c.pc = l /\ c.tab = selector /\ c.age = map[p][selector].age /\ c.stage = d.stage
  BY <1>2, <1>3, <1>4, <1>7b DEF CallFrame, Locals, NoCall
<1>8a. status[p] = "open"
  BY <1>2, <1>3 DEF RunsIn, OpenPC
<1>9. RunsIn(c, status'[p]) /\ Knows(c, p) /\ (c.pc = "relock" => Foreign(p, c.tab))
  BY <1>2, <1>3, <1>7, <1>8, <1>7c, <1>7d DEF RunsIn, Knows, OpenPC
<1>10. Calm => Unharmed(c, p)
  BY <1>2, <1>3, <1>8, <1>7c, <1>7d, <1>8a DEF Unharmed, FollowsActive
<1>11. spinLock = t /\ Doomed(d, p) => spinLock' = t /\ Doomed(c, p)
  BY <1>2, <1>3, <1>7, <1>8, <1>7b DEF Doomed
<1>12. /\ late => late'
       /\ spinLock' = spinLock \/ spinLock \in {t, NoThread}
       /\ spinLock' \in {spinLock, t, NoThread}
  BY <1>2, <1>3, <1>7 DEF Holds, OpenPC, StageOK, MaintainPC
<1>13. /\ \A q \in Process : q # p => status'[q] = status[q]
       /\ status'[p] = status[p] \/ \A u \in Thread \ {t} : ProcessOf[u] = p => frame[u].pc = "idle"
       /\ Calm /\ status'[p] = "open" => \A e \in Files : map[p][e].open
  BY <1>2, <1>7
<1>14. QED
  BY <1>1, <1>5, <1>6, <1>7, <1>9, <1>10, <1>11, <1>12, <1>13, QuietStep

LEMMA RelockGrows ==
    ASSUME IInv, IInv', GrowthInv, NEW t \in Thread, Relock(t)
    PROVE  GrowthInv'
<1>1. PICK d, p : d = frame[t] /\ p = ProcessOf[t]
  OBVIOUS
<1>2. /\ d \in CallFrame /\ p \in Process
      /\ d.tab \in Files /\ 1 - d.tab \in Files /\ selector \in Files
      /\ StageOK(d) /\ OnActive(d, selector) /\ (Holds(d) => spinLock = t)
      /\ RunsIn(d, status[p]) /\ Knows(d, p)
      /\ d.pc = "relock" /\ spinLock = t => Foreign(p, d.tab)
      /\ Calm => Unharmed(d, p) /\ (status[p] = "open" => \A f \in Files : map[p][f].open)
      /\ frame \in [Thread -> CallFrame] /\ count \in EventRecord
      /\ status \in [Process -> {"closed", "opening", "open"}]
  BY <1>1, AtHand
<1>3. d.pc = "relock" /\ spinLock = NoThread
  BY <1>1 DEF Relock, At, P
<1>4. PICK c : c = [d EXCEPT !.pc = "recheck"]
  OBVIOUS
<1>5. frame' = [frame EXCEPT ![t] = c] /\ c \in CallFrame
  <2>1. frame' = [frame EXCEPT ![t] = c]
    BY <1>1, <1>2, <1>4 DEF Relock, Goto, P
  <2>2. frame' \in [Thread -> CallFrame]
    BY DEF IInv, TypeInv
  <2>3. QED
    BY <1>2, <2>1, <2>2
<1>6. SameSizes /\ selector' = selector
  BY DEF Relock, files, SameSizes
<1>7. /\ late' = late /\ spinLock' = t
      /\ status' = status
      /\ count' \in EventRecord /\ count'.failures = count.failures
  BY <1>1, <1>2, <1>3 DEF Relock, P, Counted, EventRecord
<1>8. c.pc = "recheck" /\ c.tab = d.tab /\ c.stage = d.stage /\ c.age = d.age
  BY <1>2, <1>3, <1>4 DEF CallFrame, Locals, NoCall
<1>9. RunsIn(c, status'[p]) /\ Knows(c, p) /\ c.pc # "relock"
  BY <1>2, <1>3, <1>7, <1>8 DEF RunsIn, Knows, OpenPC
<1>10. Calm => Unharmed(c, p)
  BY <1>2, <1>3, <1>8 DEF Unharmed, FollowsActive
<1>11. spinLock = t /\ Doomed(d, p) => spinLock' = t /\ Doomed(c, p)
  BY <1>2, <1>3, <1>7, <1>8 DEF Doomed
<1>12. /\ late => late'
       /\ spinLock' = spinLock \/ spinLock \in {t, NoThread}
       /\ spinLock' \in {spinLock, t, NoThread}
  BY <1>2, <1>3, <1>7 DEF Holds, OpenPC, StageOK, MaintainPC
<1>13. /\ \A q \in Process : q # p => status'[q] = status[q]
       /\ status'[p] = status[p] \/ \A u \in Thread \ {t} : ProcessOf[u] = p => frame[u].pc = "idle"
       /\ Calm /\ status'[p] = "open" => \A e \in Files : map[p][e].open
  BY <1>2, <1>7
<1>14. QED
  BY <1>1, <1>5, <1>6, <1>7, <1>9, <1>10, <1>11, <1>12, <1>13, QuietStep

LEMMA TestReadOnlyGrows ==
    ASSUME IInv, IInv', GrowthInv, NEW t \in Thread, TestReadOnly(t)
    PROVE  GrowthInv'
<1>1. PICK d, p : d = frame[t] /\ p = ProcessOf[t]
  OBVIOUS
<1>2. /\ d \in CallFrame /\ p \in Process
      /\ d.tab \in Files /\ 1 - d.tab \in Files /\ selector \in Files
      /\ StageOK(d) /\ OnActive(d, selector) /\ (Holds(d) => spinLock = t)
      /\ RunsIn(d, status[p]) /\ Knows(d, p)
      /\ d.pc = "relock" /\ spinLock = t => Foreign(p, d.tab)
      /\ Calm => Unharmed(d, p) /\ (status[p] = "open" => \A f \in Files : map[p][f].open)
      /\ frame \in [Thread -> CallFrame] /\ count \in EventRecord
      /\ status \in [Process -> {"closed", "opening", "open"}]
  BY <1>1, AtHand
<1>3. d.pc = "test"
  BY <1>1 DEF TestReadOnly, At, P, Head
<1>4. PICK c : c = IF d.op # "Read" /\ disk[d.tab].head.readOnly THEN [d EXCEPT !.err = "ACCESS_DENIED", !.pc = "leave"] ELSE [d EXCEPT !.err = "NO", !.pc = "begin"]
  OBVIOUS
<1>5. frame' = [frame EXCEPT ![t] = c] /\ c \in CallFrame
  <2>1. frame' = [frame EXCEPT ![t] = c]
    BY <1>1, <1>2, <1>4 DEF TestReadOnly, Goto, P, Head
  <2>2. frame' \in [Thread -> CallFrame]
    BY DEF IInv, TypeInv
  <2>3. QED
    BY <1>2, <2>1, <2>2
<1>6. SameSizes /\ selector' = selector
  BY DEF TestReadOnly, files, SameSizes, Head
<1>7. /\ late' = late /\ spinLock' = spinLock
      /\ status' = status
      /\ count' \in EventRecord /\ count'.failures = count.failures
  BY <1>1, <1>2, <1>3 DEF TestReadOnly, P, Counted, EventRecord, Head
<1>8. c.pc \in {"leave", "begin"} /\ c.tab = d.tab /\ c.stage = d.stage /\ c.age = d.age
  BY <1>2, <1>3, <1>4 DEF CallFrame, Locals, NoCall
<1>9. RunsIn(c, status'[p]) /\ Knows(c, p) /\ c.pc # "relock"
  BY <1>2, <1>3, <1>7, <1>8 DEF RunsIn, Knows, OpenPC
<1>10. Calm => Unharmed(c, p)
  BY <1>2, <1>3, <1>8 DEF Unharmed, FollowsActive
<1>11. spinLock = t /\ Doomed(d, p) => spinLock' = t /\ Doomed(c, p)
  BY <1>2, <1>3, <1>7, <1>8 DEF Doomed
<1>12. /\ late => late'
       /\ spinLock' = spinLock \/ spinLock \in {t, NoThread}
       /\ spinLock' \in {spinLock, t, NoThread}
  BY <1>2, <1>3, <1>7 DEF Holds, OpenPC, StageOK, MaintainPC
<1>13. /\ \A q \in Process : q # p => status'[q] = status[q]
       /\ status'[p] = status[p] \/ \A u \in Thread \ {t} : ProcessOf[u] = p => frame[u].pc = "idle"
       /\ Calm /\ status'[p] = "open" => \A e \in Files : map[p][e].open
  BY <1>2, <1>7
<1>14. QED
  BY <1>1, <1>5, <1>6, <1>7, <1>9, <1>10, <1>11, <1>12, <1>13, QuietStep

LEMMA EnterTableGrows ==
    ASSUME IInv, IInv', GrowthInv, NEW t \in Thread, EnterTable(t)
    PROVE  GrowthInv'
<1>1. PICK d, p : d = frame[t] /\ p = ProcessOf[t]
  OBVIOUS
<1>2. /\ d \in CallFrame /\ p \in Process
      /\ d.tab \in Files /\ 1 - d.tab \in Files /\ selector \in Files
      /\ StageOK(d) /\ OnActive(d, selector) /\ (Holds(d) => spinLock = t)
      /\ RunsIn(d, status[p]) /\ Knows(d, p)
      /\ d.pc = "relock" /\ spinLock = t => Foreign(p, d.tab)
      /\ Calm => Unharmed(d, p) /\ (status[p] = "open" => \A f \in Files : map[p][f].open)
      /\ frame \in [Thread -> CallFrame] /\ count \in EventRecord
      /\ status \in [Process -> {"closed", "opening", "open"}]
  BY <1>1, AtHand
<1>3. d.pc = "begin"
  BY <1>1 DEF EnterTable, At, P
<1>4. PICK c : c = [d EXCEPT !.pc = "operate"]
  OBVIOUS
<1>5. frame' = [frame EXCEPT ![t] = c] /\ c \in CallFrame
  <2>1. frame' = [frame EXCEPT ![t] = c]
    BY <1>1, <1>2, <1>4 DEF EnterTable, Goto, P
  <2>2. frame' \in [Thread -> CallFrame]
    BY DEF IInv, TypeInv
  <2>3. QED
    BY <1>2, <2>1, <2>2
<1>6. SameSizes /\ selector' = selector
  <2>1. PICK g \in Header : g = disk[d.tab].head
    BY <1>2 DEF IInv, TypeInv, DataFile
  <2>2. PICK h : h = [g EXCEPT !.readers = @ + 1]
    OBVIOUS
  <2>3. h.size = g.size /\ h.signature = g.signature
    BY <2>2 DEF Header
  <2>4. disk' = [disk EXCEPT ![d.tab].head = h] /\ UNCHANGED <<map, grower>> /\ selector' = selector
    BY <1>1, <2>1, <2>2 DEF EnterTable, WithHead, Head
  <2>5. QED
    BY <1>2, <2>1, <2>3, <2>4, SameHead
<1>7. /\ late' = late /\ spinLock' = spinLock
      /\ status' = status
      /\ count' \in EventRecord /\ count'.failures = count.failures
  BY <1>1, <1>2, <1>3 DEF EnterTable, P, Counted, EventRecord
<1>8. c.pc = "operate" /\ c.tab = d.tab /\ c.stage = d.stage /\ c.age = d.age
  BY <1>2, <1>3, <1>4 DEF CallFrame, Locals, NoCall
<1>9. RunsIn(c, status'[p]) /\ Knows(c, p) /\ c.pc # "relock"
  BY <1>2, <1>3, <1>7, <1>8 DEF RunsIn, Knows, OpenPC
<1>10. Calm => Unharmed(c, p)
  BY <1>2, <1>3, <1>8 DEF Unharmed, FollowsActive
<1>11. spinLock = t /\ Doomed(d, p) => spinLock' = t /\ Doomed(c, p)
  BY <1>2, <1>3, <1>7, <1>8 DEF Doomed
<1>12. /\ late => late'
       /\ spinLock' = spinLock \/ spinLock \in {t, NoThread}
       /\ spinLock' \in {spinLock, t, NoThread}
  BY <1>2, <1>3, <1>7 DEF Holds, OpenPC, StageOK, MaintainPC
<1>13. /\ \A q \in Process : q # p => status'[q] = status[q]
       /\ status'[p] = status[p] \/ \A u \in Thread \ {t} : ProcessOf[u] = p => frame[u].pc = "idle"
       /\ Calm /\ status'[p] = "open" => \A e \in Files : map[p][e].open
  BY <1>2, <1>7
<1>14. QED
  BY <1>1, <1>5, <1>6, <1>7, <1>9, <1>10, <1>11, <1>12, <1>13, QuietStep

LEMMA OperateGrows ==
    ASSUME IInv, IInv', GrowthInv, NEW t \in Thread, Operate(t)
    PROVE  GrowthInv'
<1>1. PICK d, p : d = frame[t] /\ p = ProcessOf[t]
  OBVIOUS
<1>2. /\ d \in CallFrame /\ p \in Process
      /\ d.tab \in Files /\ 1 - d.tab \in Files /\ selector \in Files
      /\ StageOK(d) /\ OnActive(d, selector) /\ (Holds(d) => spinLock = t)
      /\ RunsIn(d, status[p]) /\ Knows(d, p)
      /\ d.pc = "relock" /\ spinLock = t => Foreign(p, d.tab)
      /\ Calm => Unharmed(d, p) /\ (status[p] = "open" => \A f \in Files : map[p][f].open)
      /\ frame \in [Thread -> CallFrame] /\ count \in EventRecord
      /\ status \in [Process -> {"closed", "opening", "open"}]
  BY <1>1, AtHand
<1>3. d.pc = "operate"
  BY <1>1 DEF Operate, At, P
<1>3a. /\ disk \in [Files -> DataFile] /\ d.op \in Ops /\ (d.op = "Set" => d.key \in Key)
       /\ disk[d.tab].head \in Header
  BY <1>2 DEF IInv, TypeInv, CallFrame, Locals, DataFile
<1>3b. PICK g \in Header : g = disk[d.tab].head
  BY <1>3a
<1>3c. PICK o \in Outcomes(d.op, g, d.key) :
        /\ disk' = [disk EXCEPT ![d.tab].head = [o.head EXCEPT !.readers = @ - 1]]
        /\ frame' = [frame EXCEPT ![t].err = o.err, ![t].pc = "leave"]
  BY <1>1, <1>3b DEF Operate, WithHead, Head
<1>3d. o.err \in Errors /\ o.head \in Header /\ o.head.signature = g.signature
       /\ o.head.size = g.size
  <2>1. o.err \in Errors /\ Altered(g, o.head)
    BY <1>3a, <1>3b, OutcomesAre
  <2>2. QED
    BY <2>1 DEF Altered
<1>4. PICK c : c = [d EXCEPT !.err = o.err, !.pc = "leave"]
  OBVIOUS
<1>5. frame' = [frame EXCEPT ![t] = c] /\ c \in CallFrame
  <2>1. frame' = [frame EXCEPT ![t] = c]
    BY <1>1, <1>2, <1>4, <1>3c DEF Operate, Goto, P
  <2>2. frame' \in [Thread -> CallFrame]
    BY DEF IInv, TypeInv
  <2>3. QED
    BY <1>2, <2>1, <2>2
<1>6. SameSizes /\ selector' = selector
  <2>1. PICK h : h = [o.head EXCEPT !.readers = @ - 1]
    OBVIOUS
  <2>2. h.size = g.size /\ h.signature = g.signature
    BY <1>3d, <2>1 DEF Header
  <2>3. disk' = [disk EXCEPT ![d.tab].head = h] /\ UNCHANGED <<map, grower>> /\ selector' = selector
    BY <1>3c, <2>1 DEF Operate
  <2>4. QED
    BY <1>2, <1>3b, <2>2, <2>3, SameHead
<1>6a. count' \in EventRecord /\ count'.failures = count.failures
  <2>1. count' = count \/ count' = [count EXCEPT !.timeouts = @ + 1]
    <3>1. PICK e : count' = [count EXCEPT !.timeouts = IF e = "TIMEOUT" THEN @ + 1 ELSE @]
      BY DEF Operate
    <3>2. QED
      BY <1>2, <3>1 DEF EventRecord
  <2>2. QED
    BY <1>2, <2>1 DEF EventRecord
<1>7. /\ late' = late /\ spinLock' = spinLock
      /\ status' = status
      /\ count' \in EventRecord /\ count'.failures = count.failures
  BY <1>6a DEF Operate
<1>8. c.pc = "leave" /\ c.tab = d.tab /\ c.stage = d.stage /\ c.age = d.age
  BY <1>2, <1>3, <1>4 DEF CallFrame, Locals, NoCall
<1>9. RunsIn(c, status'[p]) /\ Knows(c, p) /\ c.pc # "relock"
  BY <1>2, <1>3, <1>7, <1>8 DEF RunsIn, Knows, OpenPC
<1>10. Calm => Unharmed(c, p)
  BY <1>2, <1>3, <1>8 DEF Unharmed, FollowsActive
<1>11. spinLock = t /\ Doomed(d, p) => spinLock' = t /\ Doomed(c, p)
  BY <1>2, <1>3, <1>7, <1>8 DEF Doomed
<1>12. /\ late => late'
       /\ spinLock' = spinLock \/ spinLock \in {t, NoThread}
       /\ spinLock' \in {spinLock, t, NoThread}
  BY <1>2, <1>3, <1>7 DEF Holds, OpenPC, StageOK, MaintainPC
<1>13. /\ \A q \in Process : q # p => status'[q] = status[q]
       /\ status'[p] = status[p] \/ \A u \in Thread \ {t} : ProcessOf[u] = p => frame[u].pc = "idle"
       /\ Calm /\ status'[p] = "open" => \A e \in Files : map[p][e].open
  BY <1>2, <1>7
<1>14. QED
  BY <1>1, <1>5, <1>6, <1>7, <1>9, <1>10, <1>11, <1>12, <1>13, QuietStep

LEMMA LeaveSyncGrows ==
    ASSUME IInv, IInv', GrowthInv, NEW t \in Thread, LeaveSync(t)
    PROVE  GrowthInv'
<1>1. PICK d, p : d = frame[t] /\ p = ProcessOf[t]
  OBVIOUS
<1>2. /\ d \in CallFrame /\ p \in Process
      /\ d.tab \in Files /\ 1 - d.tab \in Files /\ selector \in Files
      /\ StageOK(d) /\ OnActive(d, selector) /\ (Holds(d) => spinLock = t)
      /\ RunsIn(d, status[p]) /\ Knows(d, p)
      /\ d.pc = "relock" /\ spinLock = t => Foreign(p, d.tab)
      /\ Calm => Unharmed(d, p) /\ (status[p] = "open" => \A f \in Files : map[p][f].open)
      /\ frame \in [Thread -> CallFrame] /\ count \in EventRecord
      /\ status \in [Process -> {"closed", "opening", "open"}]
  BY <1>1, AtHand
<1>3. d.pc = "leave"
  BY <1>1 DEF LeaveSync, At, P
<1>3a. PICK next : next = CASE d.stage = 1 /\ (d.op = "Set" /\ d.err = "NOT_ENOUGH_MEMORY") -> "lock"
                            [] d.stage = 2 /\ (d.op = "Set" /\ d.err = "NOT_ENOUGH_MEMORY") -> "beginWrite"
                            [] d.stage = 1 /\ ~(d.op = "Set" /\ d.err = "NOT_ENOUGH_MEMORY") -> "idle"
                            [] OTHER -> "release"
  OBVIOUS
<1>3b. next \in {"lock", "beginWrite", "idle", "release"}
  BY <1>3a
<1>4. PICK c : c = IF next = "idle" THEN NoCall ELSE [NoCall EXCEPT !.pc = next, !.stage = d.stage, !.op = d.op, !.key = d.key]
  OBVIOUS
<1>5. frame' = [frame EXCEPT ![t] = c] /\ c \in CallFrame
  <2>1. frame' = [frame EXCEPT ![t] = c]
    BY <1>1, <1>2, <1>4, <1>3a DEF LeaveSync, Goto, P
  <2>2. frame' \in [Thread -> CallFrame]
    BY DEF IInv, TypeInv
  <2>3. QED
    BY <1>2, <2>1, <2>2
<1>6. SameSizes /\ selector' = selector
  BY DEF LeaveSync, files, SameSizes
<1>7. /\ late' = late /\ spinLock' = spinLock
      /\ status' = status
      /\ count' \in EventRecord /\ count'.failures = count.failures
  BY <1>1, <1>2, <1>3 DEF LeaveSync, P, Counted, EventRecord
<1>8. c.pc \in {"lock", "beginWrite", "idle", "release"}
  BY <1>2, <1>3, <1>4, <1>3b DEF CallFrame, Locals, NoCall
<1>9. RunsIn(c, status'[p]) /\ Knows(c, p) /\ c.pc # "relock"
  BY <1>2, <1>3, <1>7, <1>8 DEF RunsIn, Knows, OpenPC
<1>10. Calm => Unharmed(c, p)
  BY <1>2, <1>3, <1>8 DEF Unharmed, FollowsActive
<1>11. spinLock = t /\ Doomed(d, p) => spinLock' = t /\ Doomed(c, p)
  BY <1>2, <1>3, <1>7, <1>8 DEF Doomed
<1>12. /\ late => late'
       /\ spinLock' = spinLock \/ spinLock \in {t, NoThread}
       /\ spinLock' \in {spinLock, t, NoThread}
  BY <1>2, <1>3, <1>7 DEF Holds, OpenPC, StageOK, MaintainPC
<1>13. /\ \A q \in Process : q # p => status'[q] = status[q]
       /\ status'[p] = status[p] \/ \A u \in Thread \ {t} : ProcessOf[u] = p => frame[u].pc = "idle"
       /\ Calm /\ status'[p] = "open" => \A e \in Files : map[p][e].open
  BY <1>2, <1>7
<1>14. QED
  BY <1>1, <1>5, <1>6, <1>7, <1>9, <1>10, <1>11, <1>12, <1>13, QuietStep

LEMMA LockForSetGrows ==
    ASSUME IInv, IInv', GrowthInv, NEW t \in Thread, LockForSet(t)
    PROVE  GrowthInv'
<1>1. PICK d, p : d = frame[t] /\ p = ProcessOf[t]
  OBVIOUS
<1>2. /\ d \in CallFrame /\ p \in Process
      /\ d.tab \in Files /\ 1 - d.tab \in Files /\ selector \in Files
      /\ StageOK(d) /\ OnActive(d, selector) /\ (Holds(d) => spinLock = t)
      /\ RunsIn(d, status[p]) /\ Knows(d, p)
      /\ d.pc = "relock" /\ spinLock = t => Foreign(p, d.tab)
      /\ Calm => Unharmed(d, p) /\ (status[p] = "open" => \A f \in Files : map[p][f].open)
      /\ frame \in [Thread -> CallFrame] /\ count \in EventRecord
      /\ status \in [Process -> {"closed", "opening", "open"}]
  BY <1>1, AtHand
<1>3. d.pc = "lock" /\ spinLock = NoThread
  BY <1>1 DEF LockForSet, At, P
<1>4. PICK c : c = [d EXCEPT !.pc = "load", !.stage = 2]
  OBVIOUS
<1>5. frame' = [frame EXCEPT ![t] = c] /\ c \in CallFrame
  <2>1. frame' = [frame EXCEPT ![t] = c]
    BY <1>1, <1>2, <1>4 DEF LockForSet, Goto, P
  <2>2. frame' \in [Thread -> CallFrame]
    BY DEF IInv, TypeInv
  <2>3. QED
    BY <1>2, <2>1, <2>2
<1>6. SameSizes /\ selector' = selector
  BY DEF LockForSet, files, SameSizes
<1>7. /\ late' = late /\ spinLock' = t
      /\ status' = status
      /\ count' \in EventRecord /\ count'.failures = count.failures
  BY <1>1, <1>2, <1>3 DEF LockForSet, P, Counted, EventRecord
<1>8. c.pc = "load" /\ c.tab = d.tab /\ c.age = d.age
  BY <1>2, <1>3, <1>4 DEF CallFrame, Locals, NoCall
<1>9. RunsIn(c, status'[p]) /\ Knows(c, p) /\ c.pc # "relock"
  BY <1>2, <1>3, <1>7, <1>8 DEF RunsIn, Knows, OpenPC
<1>10. Calm => Unharmed(c, p)
  BY <1>2, <1>3, <1>8 DEF Unharmed, FollowsActive
<1>11. spinLock = t /\ Doomed(d, p) => spinLock' = t /\ Doomed(c, p)
  BY <1>2, <1>3, <1>7, <1>8 DEF Doomed
<1>12. /\ late => late'
       /\ spinLock' = spinLock \/ spinLock \in {t, NoThread}
       /\ spinLock' \in {spinLock, t, NoThread}
  BY <1>2, <1>3, <1>7 DEF Holds, OpenPC, StageOK, MaintainPC
<1>13. /\ \A q \in Process : q # p => status'[q] = status[q]
       /\ status'[p] = status[p] \/ \A u \in Thread \ {t} : ProcessOf[u] = p => frame[u].pc = "idle"
       /\ Calm /\ status'[p] = "open" => \A e \in Files : map[p][e].open
  BY <1>2, <1>7
<1>14. QED
  BY <1>1, <1>5, <1>6, <1>7, <1>9, <1>10, <1>11, <1>12, <1>13, QuietStep

LEMMA BeginWriteGrows ==
    ASSUME IInv, IInv', GrowthInv, NEW t \in Thread, BeginWrite(t)
    PROVE  GrowthInv'
<1>1. PICK d, p : d = frame[t] /\ p = ProcessOf[t]
  OBVIOUS
<1>2. /\ d \in CallFrame /\ p \in Process
      /\ d.tab \in Files /\ 1 - d.tab \in Files /\ selector \in Files
      /\ StageOK(d) /\ OnActive(d, selector) /\ (Holds(d) => spinLock = t)
      /\ RunsIn(d, status[p]) /\ Knows(d, p)
      /\ d.pc = "relock" /\ spinLock = t => Foreign(p, d.tab)
      /\ Calm => Unharmed(d, p) /\ (status[p] = "open" => \A f \in Files : map[p][f].open)
      /\ frame \in [Thread -> CallFrame] /\ count \in EventRecord
      /\ status \in [Process -> {"closed", "opening", "open"}]
  BY <1>1, AtHand
<1>3. d.pc = "beginWrite"
  BY <1>1 DEF BeginWrite, At, P
<1>4. PICK c : c = [d EXCEPT !.pc = "wait", !.stage = 3]
  OBVIOUS
<1>5. frame' = [frame EXCEPT ![t] = c] /\ c \in CallFrame
  <2>1. frame' = [frame EXCEPT ![t] = c]
    BY <1>1, <1>2, <1>4 DEF BeginWrite, Goto, P
  <2>2. frame' \in [Thread -> CallFrame]
    BY DEF IInv, TypeInv
  <2>3. QED
    BY <1>2, <2>1, <2>2
<1>6. SameSizes /\ selector' = selector
  BY DEF BeginWrite, files, SameSizes
<1>7. /\ late' = late /\ spinLock' = spinLock
      /\ status' = status
      /\ count' \in EventRecord /\ count'.failures = count.failures
  BY <1>1, <1>2, <1>3 DEF BeginWrite, P, Counted, EventRecord
<1>8. c.pc = "wait" /\ c.tab = d.tab /\ c.age = d.age
  BY <1>2, <1>3, <1>4 DEF CallFrame, Locals, NoCall
<1>9. RunsIn(c, status'[p]) /\ Knows(c, p) /\ c.pc # "relock"
  BY <1>2, <1>3, <1>7, <1>8 DEF RunsIn, Knows, OpenPC
<1>10. Calm => Unharmed(c, p)
  BY <1>2, <1>3, <1>8 DEF Unharmed, FollowsActive
<1>11. spinLock = t /\ Doomed(d, p) => spinLock' = t /\ Doomed(c, p)
  BY <1>2, <1>3, <1>7, <1>8 DEF Doomed
<1>12. /\ late => late'
       /\ spinLock' = spinLock \/ spinLock \in {t, NoThread}
       /\ spinLock' \in {spinLock, t, NoThread}
  BY <1>2, <1>3, <1>7 DEF Holds, OpenPC, StageOK, MaintainPC
<1>13. /\ \A q \in Process : q # p => status'[q] = status[q]
       /\ status'[p] = status[p] \/ \A u \in Thread \ {t} : ProcessOf[u] = p => frame[u].pc = "idle"
       /\ Calm /\ status'[p] = "open" => \A e \in Files : map[p][e].open
  BY <1>2, <1>7
<1>14. QED
  BY <1>1, <1>5, <1>6, <1>7, <1>9, <1>10, <1>11, <1>12, <1>13, QuietStep

LEMMA WaitForNoReaderGrows ==
    ASSUME IInv, IInv', GrowthInv, NEW t \in Thread, WaitForNoReader(t)
    PROVE  GrowthInv'
<1>1. PICK d, p : d = frame[t] /\ p = ProcessOf[t]
  OBVIOUS
<1>2. /\ d \in CallFrame /\ p \in Process
      /\ d.tab \in Files /\ 1 - d.tab \in Files /\ selector \in Files
      /\ StageOK(d) /\ OnActive(d, selector) /\ (Holds(d) => spinLock = t)
      /\ RunsIn(d, status[p]) /\ Knows(d, p)
      /\ d.pc = "relock" /\ spinLock = t => Foreign(p, d.tab)
      /\ Calm => Unharmed(d, p) /\ (status[p] = "open" => \A f \in Files : map[p][f].open)
      /\ frame \in [Thread -> CallFrame] /\ count \in EventRecord
      /\ status \in [Process -> {"closed", "opening", "open"}]
  BY <1>1, AtHand
<1>3. d.pc = "wait"
  BY <1>1 DEF WaitForNoReader, At, P
<1>4. PICK c : c = [d EXCEPT !.pc = "active"]
  OBVIOUS
<1>5. frame' = [frame EXCEPT ![t] = c] /\ c \in CallFrame
  <2>1. frame' = [frame EXCEPT ![t] = c]
    BY <1>1, <1>2, <1>4 DEF WaitForNoReader, Goto, P
  <2>2. frame' \in [Thread -> CallFrame]
    BY DEF IInv, TypeInv
  <2>3. QED
    BY <1>2, <2>1, <2>2
<1>6. SameSizes /\ selector' = selector
  BY DEF WaitForNoReader, files, SameSizes
<1>7. /\ late' = late /\ spinLock' = spinLock
      /\ status' = status
      /\ count' \in EventRecord /\ count'.failures = count.failures
  BY <1>1, <1>2, <1>3 DEF WaitForNoReader, P, Counted, EventRecord
<1>8. c.pc = "active" /\ c.tab = d.tab /\ c.stage = d.stage /\ c.age = d.age
  BY <1>2, <1>3, <1>4 DEF CallFrame, Locals, NoCall
<1>9. RunsIn(c, status'[p]) /\ Knows(c, p) /\ c.pc # "relock"
  BY <1>2, <1>3, <1>7, <1>8 DEF RunsIn, Knows, OpenPC
<1>10. Calm => Unharmed(c, p)
  BY <1>2, <1>3, <1>8 DEF Unharmed, FollowsActive
<1>11. spinLock = t /\ Doomed(d, p) => spinLock' = t /\ Doomed(c, p)
  BY <1>2, <1>3, <1>7, <1>8 DEF Doomed
<1>12. /\ late => late'
       /\ spinLock' = spinLock \/ spinLock \in {t, NoThread}
       /\ spinLock' \in {spinLock, t, NoThread}
  BY <1>2, <1>3, <1>7 DEF Holds, OpenPC, StageOK, MaintainPC
<1>13. /\ \A q \in Process : q # p => status'[q] = status[q]
       /\ status'[p] = status[p] \/ \A u \in Thread \ {t} : ProcessOf[u] = p => frame[u].pc = "idle"
       /\ Calm /\ status'[p] = "open" => \A e \in Files : map[p][e].open
  BY <1>2, <1>7
<1>14. QED
  BY <1>1, <1>5, <1>6, <1>7, <1>9, <1>10, <1>11, <1>12, <1>13, QuietStep

LEMMA PlanGrows ==
    ASSUME IInv, IInv', GrowthInv, NEW t \in Thread, Plan(t)
    PROVE  GrowthInv'
<1>1. PICK d, p : d = frame[t] /\ p = ProcessOf[t]
  OBVIOUS
<1>2. /\ d \in CallFrame /\ p \in Process
      /\ d.tab \in Files /\ 1 - d.tab \in Files /\ selector \in Files
      /\ StageOK(d) /\ OnActive(d, selector) /\ (Holds(d) => spinLock = t)
      /\ RunsIn(d, status[p]) /\ Knows(d, p)
      /\ d.pc = "relock" /\ spinLock = t => Foreign(p, d.tab)
      /\ Calm => Unharmed(d, p) /\ (status[p] = "open" => \A f \in Files : map[p][f].open)
      /\ frame \in [Thread -> CallFrame] /\ count \in EventRecord
      /\ status \in [Process -> {"closed", "opening", "open"}]
  BY <1>1, AtHand
<1>3. d.pc = "plan"
  BY <1>1 DEF Plan, At, P, Head
<1>4. PICK c : c = [d EXCEPT !.pc = IF disk[d.tab].head.size \div 2 <= disk[d.tab].head.wasted THEN "extend" ELSE "grow"]
  OBVIOUS
<1>5. frame' = [frame EXCEPT ![t] = c] /\ c \in CallFrame
  <2>1. frame' = [frame EXCEPT ![t] = c]
    BY <1>1, <1>2, <1>4 DEF Plan, Goto, P, Head
  <2>2. frame' \in [Thread -> CallFrame]
    BY DEF IInv, TypeInv
  <2>3. QED
    BY <1>2, <2>1, <2>2
<1>6. SameSizes /\ selector' = selector
  BY DEF Plan, files, SameSizes, Head
<1>7. /\ late' = late /\ spinLock' = spinLock
      /\ status' = status
      /\ count' \in EventRecord /\ count'.failures = count.failures
  BY <1>1, <1>2, <1>3 DEF Plan, P, Counted, EventRecord, Head
<1>8. c.pc \in {"extend", "grow"} /\ c.tab = d.tab /\ c.stage = d.stage /\ c.age = d.age
  BY <1>2, <1>3, <1>4 DEF CallFrame, Locals, NoCall
<1>9. RunsIn(c, status'[p]) /\ Knows(c, p) /\ c.pc # "relock"
  BY <1>2, <1>3, <1>7, <1>8 DEF RunsIn, Knows, OpenPC
<1>10. Calm => Unharmed(c, p)
  BY <1>2, <1>3, <1>8 DEF Unharmed, FollowsActive
<1>11. spinLock = t /\ Doomed(d, p) => spinLock' = t /\ Doomed(c, p)
  BY <1>2, <1>3, <1>7, <1>8 DEF Doomed
<1>12. /\ late => late'
       /\ spinLock' = spinLock \/ spinLock \in {t, NoThread}
       /\ spinLock' \in {spinLock, t, NoThread}
  BY <1>2, <1>3, <1>7 DEF Holds, OpenPC, StageOK, MaintainPC
<1>13. /\ \A q \in Process : q # p => status'[q] = status[q]
       /\ status'[p] = status[p] \/ \A u \in Thread \ {t} : ProcessOf[u] = p => frame[u].pc = "idle"
       /\ Calm /\ status'[p] = "open" => \A e \in Files : map[p][e].open
  BY <1>2, <1>7
<1>14. QED
  BY <1>1, <1>5, <1>6, <1>7, <1>9, <1>10, <1>11, <1>12, <1>13, QuietStep

LEMMA ConstructInactiveGrows ==
    ASSUME IInv, IInv', GrowthInv, NEW t \in Thread, ConstructInactive(t)
    PROVE  GrowthInv'
<1>1. PICK d, p : d = frame[t] /\ p = ProcessOf[t]
  OBVIOUS
<1>2. /\ d \in CallFrame /\ p \in Process
      /\ d.tab \in Files /\ 1 - d.tab \in Files /\ selector \in Files
      /\ StageOK(d) /\ OnActive(d, selector) /\ (Holds(d) => spinLock = t)
      /\ RunsIn(d, status[p]) /\ Knows(d, p)
      /\ d.pc = "relock" /\ spinLock = t => Foreign(p, d.tab)
      /\ Calm => Unharmed(d, p) /\ (status[p] = "open" => \A f \in Files : map[p][f].open)
      /\ frame \in [Thread -> CallFrame] /\ count \in EventRecord
      /\ status \in [Process -> {"closed", "opening", "open"}]
  BY <1>1, AtHand
<1>3. d.pc = "construct"
  BY <1>1 DEF ConstructInactive, At, P
<1>3a. /\ disk \in [Files -> DataFile] /\ map \in [Process -> [Files -> Mapping]]
       /\ \A e \in Files : disk[e].head \in Header /\ disk[e].head.size \in Nat
       /\ \A e \in Files : map[p][e].size \in Nat
  BY <1>2 DEF IInv, TypeInv, Mapping, DataFile, Header
<1>3b. PICK f \in Files : f = 1 - d.tab /\ f # d.tab
  BY <1>2 DEF Files
<1>3c. d.stage = 3 /\ d.tab = selector /\ map[p][f].open
  BY <1>1, <1>2, <1>3, <1>3b DEF StageOK, MaintainPC, OnActive, ConstructInactive, Other, P
<1>3d. disk[f].head.signature /\ map[p][f].size = disk[f].head.size /\ disk[f].head.size = disk[d.tab].head.size
  <2>1. disk[f].head.signature
    BY <1>2, <1>3c DEF IInv, SignatureInv
  <2>2. disk[d.tab].head.size <= map[p][f].size
    BY <1>2, <1>3, <1>3b, <1>3c DEF Knows
  <2>3. map[p][f].size <= disk[f].head.size
    BY <1>2 DEF GrowthInv, MapInv, Remembers
  <2>4. disk[f].head.size <= disk[d.tab].head.size
    BY <1>3b, <1>3c DEF GrowthInv, HeadInv
  <2>5. disk[f].head.size \in Nat /\ disk[d.tab].head.size \in Nat /\ map[p][f].size \in Nat
    BY <1>2, <1>3a, <1>3b
  <2>6. QED
    BY <2>1, <2>2, <2>3, <2>4, <2>5
<1>4. PICK c : c = [d EXCEPT !.pc = "setReadOnly"]
  OBVIOUS
<1>5. frame' = [frame EXCEPT ![t] = c] /\ c \in CallFrame
  <2>1. frame' = [frame EXCEPT ![t] = c]
    BY <1>1, <1>2, <1>4 DEF ConstructInactive, Goto, P
  <2>2. frame' \in [Thread -> CallFrame]
    BY DEF IInv, TypeInv
  <2>3. QED
    BY <1>2, <2>1, <2>2
<1>6. SameSizes /\ selector' = selector
  <2>1. PICK h : h = [Blank EXCEPT !.signature = TRUE, !.size = map[p][f].size]
    OBVIOUS
  <2>2. h.size = map[p][f].size /\ h.signature = TRUE
    BY <1>3a, <2>1, FreshIs
  <2>3. PICK g \in Header : g = disk[f].head
    BY <1>3a
  <2>4. h.signature = g.signature
    BY <1>3a, <1>3d, <2>2, <2>3 DEF Header
  <2>5. [ok |-> TRUE, head |-> h].head = h
    OBVIOUS
  <2>6. Construct(g, map[p][f].size, TRUE) = [ok |-> TRUE, head |-> h]
    BY <2>1 DEF Construct
  <2>7. /\ disk' = [disk EXCEPT ![f].head = h] /\ selector' = selector /\ map' = map
        /\ grower' = IF h.size # g.size THEN [grower EXCEPT ![f] = p] ELSE grower
    BY <1>1, <1>3b, <2>3, <2>5, <2>6 DEF ConstructInactive, WithHead, Other, Head, P
  <2>8. h.size = g.size
    BY <1>3d, <2>2, <2>3
  <2>9. grower' = grower
    BY <2>7, <2>8
  <2>10. QED
    BY <2>3, <2>4, <2>7, <2>8, <2>9, SameHead
<1>7. /\ late' = late /\ spinLock' = spinLock
      /\ status' = status
      /\ count' \in EventRecord /\ count'.failures = count.failures
  BY <1>1, <1>2, <1>3 DEF ConstructInactive, P, Counted, EventRecord
<1>8. c.pc = "setReadOnly" /\ c.tab = d.tab /\ c.stage = d.stage /\ c.age = d.age
  BY <1>2, <1>3, <1>4 DEF CallFrame, Locals, NoCall
<1>9. RunsIn(c, status'[p]) /\ Knows(c, p) /\ c.pc # "relock"
  BY <1>2, <1>3, <1>7, <1>8, <1>3b, <1>3d DEF RunsIn, Knows, OpenPC
<1>10. Calm => Unharmed(c, p)
  BY <1>2, <1>3, <1>8 DEF Unharmed, FollowsActive
<1>11. spinLock = t /\ Doomed(d, p) => spinLock' = t /\ Doomed(c, p)
  BY <1>2, <1>3, <1>7, <1>8, <1>3b, <1>3c DEF Doomed
<1>12. /\ late => late'
       /\ spinLock' = spinLock \/ spinLock \in {t, NoThread}
       /\ spinLock' \in {spinLock, t, NoThread}
  BY <1>2, <1>3, <1>7 DEF Holds, OpenPC, StageOK, MaintainPC
<1>13. /\ \A q \in Process : q # p => status'[q] = status[q]
       /\ status'[p] = status[p] \/ \A u \in Thread \ {t} : ProcessOf[u] = p => frame[u].pc = "idle"
       /\ Calm /\ status'[p] = "open" => \A e \in Files : map[p][e].open
  BY <1>2, <1>7
<1>14. QED
  BY <1>1, <1>5, <1>6, <1>7, <1>9, <1>10, <1>11, <1>12, <1>13, QuietStep

LEMMA SetReadOnlyGrows ==
    ASSUME IInv, IInv', GrowthInv, NEW t \in Thread, SetReadOnly(t)
    PROVE  GrowthInv'
<1>1. PICK d, p : d = frame[t] /\ p = ProcessOf[t]
  OBVIOUS
<1>2. /\ d \in CallFrame /\ p \in Process
      /\ d.tab \in Files /\ 1 - d.tab \in Files /\ selector \in Files
      /\ StageOK(d) /\ OnActive(d, selector) /\ (Holds(d) => spinLock = t)
      /\ RunsIn(d, status[p]) /\ Knows(d, p)
      /\ d.pc = "relock" /\ spinLock = t => Foreign(p, d.tab)
      /\ Calm => Unharmed(d, p) /\ (status[p] = "open" => \A f \in Files : map[p][f].open)
      /\ frame \in [Thread -> CallFrame] /\ count \in EventRecord
      /\ status \in [Process -> {"closed", "opening", "open"}]
  BY <1>1, AtHand
<1>3. d.pc = "setReadOnly"
  BY <1>1 DEF SetReadOnly, At, P, Head
<1>3a. /\ disk \in [Files -> DataFile] /\ \A e \in Files : disk[e].head \in Header
  BY <1>2 DEF IInv, TypeInv, DataFile
<1>3b. PICK g \in Header : g = disk[d.tab].head
  BY <1>2, <1>3a
<1>4. PICK c : c = [d EXCEPT !.pc = IF disk[d.tab].head.readers = 0 THEN "copy" ELSE "flip"]
  OBVIOUS
<1>5. frame' = [frame EXCEPT ![t] = c] /\ c \in CallFrame
  <2>1. frame' = [frame EXCEPT ![t] = c]
    BY <1>1, <1>2, <1>4 DEF SetReadOnly, Goto, P, Head
  <2>2. frame' \in [Thread -> CallFrame]
    BY DEF IInv, TypeInv
  <2>3. QED
    BY <1>2, <2>1, <2>2
<1>6. SameSizes /\ selector' = selector
  <2>1. CASE g.readers = 0
    <3>1. PICK h : h = [g EXCEPT !.readOnly = TRUE]
      OBVIOUS
    <3>2. h.size = g.size /\ h.signature = g.signature
      BY <3>1 DEF Header
    <3>3. disk' = [disk EXCEPT ![d.tab].head = h] /\ UNCHANGED <<map, grower>> /\ selector' = selector
      BY <1>1, <1>3b, <2>1, <3>1 DEF SetReadOnly, WithHead, Head
    <3>4. QED
      BY <1>2, <1>3b, <3>2, <3>3, SameHead
  <2>2. CASE g.readers # 0
    BY <1>1, <1>3b, <2>2 DEF SetReadOnly, Head, SameSizes
  <2>3. QED
    BY <2>1, <2>2
<1>7. /\ late' = late /\ spinLock' = spinLock
      /\ status' = status
      /\ count' \in EventRecord /\ count'.failures = count.failures
  BY <1>1, <1>2, <1>3 DEF SetReadOnly, P, Counted, EventRecord, Head
<1>8. c.pc \in {"copy", "flip"} /\ c.tab = d.tab /\ c.stage = d.stage /\ c.age = d.age
  BY <1>2, <1>3, <1>4 DEF CallFrame, Locals, NoCall
<1>9. RunsIn(c, status'[p]) /\ Knows(c, p) /\ c.pc # "relock"
  BY <1>2, <1>3, <1>7, <1>8 DEF RunsIn, Knows, OpenPC
<1>10. Calm => Unharmed(c, p)
  BY <1>2, <1>3, <1>8 DEF Unharmed, FollowsActive
<1>11. spinLock = t /\ Doomed(d, p) => spinLock' = t /\ Doomed(c, p)
  BY <1>2, <1>3, <1>7, <1>8 DEF Doomed
<1>12. /\ late => late'
       /\ spinLock' = spinLock \/ spinLock \in {t, NoThread}
       /\ spinLock' \in {spinLock, t, NoThread}
  BY <1>2, <1>3, <1>7 DEF Holds, OpenPC, StageOK, MaintainPC
<1>13. /\ \A q \in Process : q # p => status'[q] = status[q]
       /\ status'[p] = status[p] \/ \A u \in Thread \ {t} : ProcessOf[u] = p => frame[u].pc = "idle"
       /\ Calm /\ status'[p] = "open" => \A e \in Files : map[p][e].open
  BY <1>2, <1>7
<1>14. QED
  BY <1>1, <1>5, <1>6, <1>7, <1>9, <1>10, <1>11, <1>12, <1>13, QuietStep

LEMMA CopyToInactiveGrows ==
    ASSUME IInv, IInv', GrowthInv, NEW t \in Thread, CopyToInactive(t)
    PROVE  GrowthInv'
<1>1. PICK d, p : d = frame[t] /\ p = ProcessOf[t]
  OBVIOUS
<1>2. /\ d \in CallFrame /\ p \in Process
      /\ d.tab \in Files /\ 1 - d.tab \in Files /\ selector \in Files
      /\ StageOK(d) /\ OnActive(d, selector) /\ (Holds(d) => spinLock = t)
      /\ RunsIn(d, status[p]) /\ Knows(d, p)
      /\ d.pc = "relock" /\ spinLock = t => Foreign(p, d.tab)
      /\ Calm => Unharmed(d, p) /\ (status[p] = "open" => \A f \in Files : map[p][f].open)
      /\ frame \in [Thread -> CallFrame] /\ count \in EventRecord
      /\ status \in [Process -> {"closed", "opening", "open"}]
  BY <1>1, AtHand
<1>3. d.pc = "copy"
  BY <1>1 DEF CopyToInactive, At, P
<1>3a. /\ disk \in [Files -> DataFile] /\ \A e \in Files : disk[e].head \in Header
  BY <1>2 DEF IInv, TypeInv, DataFile
<1>3b. PICK g \in Header : g = disk[d.tab].head
  BY <1>2, <1>3a
<1>3c. PICK f \in Files : f = 1 - d.tab
  BY <1>2
<1>4. PICK c : c = [d EXCEPT !.pc = "flip"]
  OBVIOUS
<1>5. frame' = [frame EXCEPT ![t] = c] /\ c \in CallFrame
  <2>1. frame' = [frame EXCEPT ![t] = c]
    BY <1>1, <1>2, <1>4 DEF CopyToInactive, Goto, P
  <2>2. frame' \in [Thread -> CallFrame]
    BY DEF IInv, TypeInv
  <2>3. QED
    BY <1>2, <2>1, <2>2
<1>6. SameSizes /\ selector' = selector
  <2>1. PICK e \in Header : e = disk[f].head
    BY <1>3a
  <2>2. PICK h : h = CopyTo(g, e)
    OBVIOUS
  <2>3. h.size = e.size /\ h.signature = e.signature
    BY <2>2, CopyIs
  <2>4. disk' = [disk EXCEPT ![f].head = h] /\ UNCHANGED <<map, grower>> /\ selector' = selector
    BY <1>1, <1>3b, <1>3c, <2>1, <2>2 DEF CopyToInactive, WithHead, Head, Other
  <2>5. QED
    BY <2>1, <2>3, <2>4, SameHead
<1>7. /\ late' = late /\ spinLock' = spinLock
      /\ status' = status
      /\ count' \in EventRecord /\ count'.failures = count.failures
  BY <1>1, <1>2, <1>3 DEF CopyToInactive, P, Counted, EventRecord
<1>8. c.pc = "flip" /\ c.tab = d.tab /\ c.stage = d.stage /\ c.age = d.age
  BY <1>2, <1>3, <1>4 DEF CallFrame, Locals, NoCall
<1>9. RunsIn(c, status'[p]) /\ Knows(c, p) /\ c.pc # "relock"
  BY <1>2, <1>3, <1>7, <1>8 DEF RunsIn, Knows, OpenPC
<1>10. Calm => Unharmed(c, p)
  BY <1>2, <1>3, <1>8 DEF Unharmed, FollowsActive
<1>11. spinLock = t /\ Doomed(d, p) => spinLock' = t /\ Doomed(c, p)
  BY <1>2, <1>3, <1>7, <1>8 DEF Doomed
<1>12. /\ late => late'
       /\ spinLock' = spinLock \/ spinLock \in {t, NoThread}
       /\ spinLock' \in {spinLock, t, NoThread}
  BY <1>2, <1>3, <1>7 DEF Holds, OpenPC, StageOK, MaintainPC
<1>13. /\ \A q \in Process : q # p => status'[q] = status[q]
       /\ status'[p] = status[p] \/ \A u \in Thread \ {t} : ProcessOf[u] = p => frame[u].pc = "idle"
       /\ Calm /\ status'[p] = "open" => \A e \in Files : map[p][e].open
  BY <1>2, <1>7
<1>14. QED
  BY <1>1, <1>5, <1>6, <1>7, <1>9, <1>10, <1>11, <1>12, <1>13, QuietStep

LEMMA EndWriteGrows ==
    ASSUME IInv, IInv', GrowthInv, NEW t \in Thread, EndWrite(t)
    PROVE  GrowthInv'
<1>1. PICK d, p : d = frame[t] /\ p = ProcessOf[t]
  OBVIOUS
<1>2. /\ d \in CallFrame /\ p \in Process
      /\ d.tab \in Files /\ 1 - d.tab \in Files /\ selector \in Files
      /\ StageOK(d) /\ OnActive(d, selector) /\ (Holds(d) => spinLock = t)
      /\ RunsIn(d, status[p]) /\ Knows(d, p)
      /\ d.pc = "relock" /\ spinLock = t => Foreign(p, d.tab)
      /\ Calm => Unharmed(d, p) /\ (status[p] = "open" => \A f \in Files : map[p][f].open)
      /\ frame \in [Thread -> CallFrame] /\ count \in EventRecord
      /\ status \in [Process -> {"closed", "opening", "open"}]
  BY <1>1, AtHand
<1>3. d.pc = "endWrite"
  BY <1>1 DEF EndWrite, At, P
<1>4. PICK c : c = [d EXCEPT !.pc = "load", !.stage = 4, !.tab = 0, !.age = 0]
  OBVIOUS
<1>5. frame' = [frame EXCEPT ![t] = c] /\ c \in CallFrame
  <2>1. frame' = [frame EXCEPT ![t] = c]
    BY <1>1, <1>2, <1>4 DEF EndWrite, Goto, P
  <2>2. frame' \in [Thread -> CallFrame]
    BY DEF IInv, TypeInv
  <2>3. QED
    BY <1>2, <2>1, <2>2
<1>6. SameSizes /\ selector' = selector
  BY DEF EndWrite, files, SameSizes
<1>7. /\ late' = late /\ spinLock' = spinLock
      /\ status' = status
      /\ count' \in EventRecord /\ count'.failures = count.failures
  BY <1>1, <1>2, <1>3 DEF EndWrite, P, Counted, EventRecord
<1>8. c.pc = "load" /\ c.stage = 4
  BY <1>2, <1>3, <1>4 DEF CallFrame, Locals, NoCall, Files
<1>9. RunsIn(c, status'[p]) /\ Knows(c, p) /\ c.pc # "relock"
  BY <1>2, <1>3, <1>7, <1>8 DEF RunsIn, Knows, OpenPC
<1>10. Calm => Unharmed(c, p)
  BY <1>2, <1>3, <1>8 DEF Unharmed, FollowsActive
<1>11. spinLock = t /\ Doomed(d, p) => spinLock' = t /\ Doomed(c, p)
  BY <1>2, <1>3, <1>7, <1>8 DEF Doomed
<1>12. /\ late => late'
       /\ spinLock' = spinLock \/ spinLock \in {t, NoThread}
       /\ spinLock' \in {spinLock, t, NoThread}
  BY <1>2, <1>3, <1>7 DEF Holds, OpenPC, StageOK, MaintainPC
<1>13. /\ \A q \in Process : q # p => status'[q] = status[q]
       /\ status'[p] = status[p] \/ \A u \in Thread \ {t} : ProcessOf[u] = p => frame[u].pc = "idle"
       /\ Calm /\ status'[p] = "open" => \A e \in Files : map[p][e].open
  BY <1>2, <1>7
<1>14. QED
  BY <1>1, <1>5, <1>6, <1>7, <1>9, <1>10, <1>11, <1>12, <1>13, QuietStep

LEMMA ReleaseGrows ==
    ASSUME IInv, IInv', GrowthInv, NEW t \in Thread, Release(t)
    PROVE  GrowthInv'
<1>1. PICK d, p : d = frame[t] /\ p = ProcessOf[t]
  OBVIOUS
<1>2. /\ d \in CallFrame /\ p \in Process
      /\ d.tab \in Files /\ 1 - d.tab \in Files /\ selector \in Files
      /\ StageOK(d) /\ OnActive(d, selector) /\ (Holds(d) => spinLock = t)
      /\ RunsIn(d, status[p]) /\ Knows(d, p)
      /\ d.pc = "relock" /\ spinLock = t => Foreign(p, d.tab)
      /\ Calm => Unharmed(d, p) /\ (status[p] = "open" => \A f \in Files : map[p][f].open)
      /\ frame \in [Thread -> CallFrame] /\ count \in EventRecord
      /\ status \in [Process -> {"closed", "opening", "open"}]
  BY <1>1, AtHand
<1>3. d.pc = "release"
  BY <1>1 DEF Release, At, P
<1>4. PICK c : c = NoCall
  OBVIOUS
<1>5. frame' = [frame EXCEPT ![t] = c] /\ c \in CallFrame
  <2>1. frame' = [frame EXCEPT ![t] = c]
    BY <1>1, <1>2, <1>4 DEF Release, Goto, P
  <2>2. frame' \in [Thread -> CallFrame]
    BY DEF IInv, TypeInv
  <2>3. QED
    BY <1>2, <2>1, <2>2
<1>6. SameSizes /\ selector' = selector
  BY DEF Release, files, SameSizes
<1>7. /\ late' = late /\ spinLock' = NoThread
      /\ status' = status
      /\ count' \in EventRecord /\ count'.failures = count.failures
  BY <1>1, <1>2, <1>3 DEF Release, P, Counted, EventRecord
<1>8. c.pc = "idle"
  BY <1>2, <1>3, <1>4 DEF CallFrame, Locals, NoCall
<1>9. RunsIn(c, status'[p]) /\ Knows(c, p) /\ c.pc # "relock"
  BY <1>2, <1>3, <1>7, <1>8 DEF RunsIn, Knows, OpenPC
<1>10. Calm => Unharmed(c, p)
  BY <1>2, <1>3, <1>8 DEF Unharmed, FollowsActive
<1>11. spinLock = t /\ Doomed(d, p) => spinLock' = t /\ Doomed(c, p)
  BY <1>2, <1>3, <1>7, <1>8 DEF Doomed
<1>12. /\ late => late'
       /\ spinLock' = spinLock \/ spinLock \in {t, NoThread}
       /\ spinLock' \in {spinLock, t, NoThread}
  BY <1>2, <1>3, <1>7 DEF Holds, OpenPC, StageOK, MaintainPC
<1>13. /\ \A q \in Process : q # p => status'[q] = status[q]
       /\ status'[p] = status[p] \/ \A u \in Thread \ {t} : ProcessOf[u] = p => frame[u].pc = "idle"
       /\ Calm /\ status'[p] = "open" => \A e \in Files : map[p][e].open
  BY <1>2, <1>7
<1>14. QED
  BY <1>1, <1>5, <1>6, <1>7, <1>9, <1>10, <1>11, <1>12, <1>13, QuietStep

-----------------------------------------------------------------------------
(* Actions that map or extend a file, under the spin lock.                 *)

\* Under the lock of a thread that is not doomed, both files are as they should be.
LEMMA EvenUnderLock ==
    ASSUME IInv, GrowthInv, NEW t \in Thread, spinLock = t, ~Doomed(frame[t], ProcessOf[t])
    PROVE  \A f \in Files :
             /\ Even(disk[f], count.failures) /\ HeadOK(disk[f].head)
             /\ disk[f] \in DataFile /\ disk[f].head.size \in Nat
             /\ \A p \in Process : /\ map[p][f] \in Mapping /\ MapOK(map[p][f], disk[f].head)
                                   /\ map[p][f].open => disk[f].head.signature
<1>1. ~LockLost
  BY ThreadAssumption DEF LockLost
<1>2. \A f \in Files : Even(disk[f], count.failures)
  BY <1>1 DEF GrowthInv, LengthInv
<1>3. \A f \in Files : disk[f] \in DataFile /\ disk[f].head.size \in Nat /\ HeadOK(disk[f].head)
  BY DEF IInv, TypeInv, DataFile, Header, SignatureInv, HeadOK, GrowthInv, HeadInv
<1>4. \A f \in Files, p \in Process : /\ map[p][f] \in Mapping /\ MapOK(map[p][f], disk[f].head)
                                      /\ map[p][f].open => disk[f].head.signature
  BY DEF IInv, TypeInv, SignatureInv, GrowthInv, MapInv, Remembers, MapOK
<1>5. QED
  BY <1>2, <1>3, <1>4

LEMMA ResizeStep ==
    ASSUME IInv, GrowthInv, NEW t \in Thread, NEW c \in CallFrame,
           NEW p, p = ProcessOf[t], NEW f \in Files, NEW o \in Outcome,
           disk' = [disk EXCEPT ![f] = o.file], map' = [map EXCEPT ![p][f] = o.map],
           grower' = IF o.file.head.size # disk[f].head.size THEN [grower EXCEPT ![f] = p] ELSE grower,
           count' \in EventRecord, count'.failures = After(o, count.failures),
           frame' = [frame EXCEPT ![t] = c],
           selector' = selector, late' = late, status' = status,
           spinLock = t, spinLock' \in {t, NoThread}, ~Doomed(frame[t], p),
           Resized(disk[f], o),
           Even(o.file, After(o, count.failures)) \/ (spinLock' = t /\ Doomed(c, p)'),
           f # selector => o.file.head.size <= disk[selector].head.size,
           RunsIn(c, status[p]), Knows(c, p)', c.pc # "relock",
           Calm' => /\ Unharmed(c, p)' /\ (status[p] = "open" => o.map.open)
                    /\ \A u \in Thread \ {t} : ProcessOf[u] = p => Unharmed(frame[u], p)'
    PROVE  GrowthInv'
<1>1. /\ frame \in [Thread -> CallFrame] /\ ProcessOf \in [Thread -> Process]
      /\ disk \in [Files -> DataFile] /\ map \in [Process -> [Files -> Mapping]]
      /\ selector \in Files /\ 1 - selector \in Files /\ 1 \in Files /\ p \in Process
      /\ selector # 1 - selector
      /\ grower \in [Files -> Process \cup {NoProcess}] /\ count.failures \in Nat
  <2>1. /\ frame \in [Thread -> CallFrame] /\ ProcessOf \in [Thread -> Process]
        /\ disk \in [Files -> DataFile] /\ map \in [Process -> [Files -> Mapping]]
        /\ selector \in Files /\ p \in Process
    BY ProcessOfAssumption DEF IInv, TypeInv
  <2>2. 1 - selector \in Files /\ 1 \in Files /\ selector # 1 - selector
    BY <2>1, OtherFile DEF Files
  <2>3. grower \in [Files -> Process \cup {NoProcess}] /\ count.failures \in Nat
    BY DEF GrowthInv, EventInv, EventRecord
  <2>4. QED
    BY <2>1, <2>2, <2>3
<1>2. /\ disk'[f] = o.file /\ map'[p][f] = o.map
      /\ \A e \in Files \ {f} : disk'[e] = disk[e]
      /\ \A q \in Process, e \in Files : q # p \/ e # f => map'[q][e] = map[q][e]
      /\ frame'[t] = c /\ \A u \in Thread \ {t} : frame'[u] = frame[u]
  BY <1>1
<1>3. /\ grower'[f] = IF o.file.head.size # disk[f].head.size THEN p ELSE grower[f]
      /\ \A e \in Files \ {f} : grower'[e] = grower[e]
      /\ grower' \in [Files -> Process \cup {NoProcess}]
  <2>1. CASE o.file.head.size # disk[f].head.size
    BY <1>1, <2>1
  <2>2. CASE o.file.head.size = disk[f].head.size
    BY <1>1, <2>2
  <2>3. QED
    BY <2>1, <2>2
<1>4. /\ \A e \in Files : Even(disk[e], count.failures) /\ disk[e].head.size \in Nat
      /\ o.file.head.size \in Nat /\ o.map.size \in Nat
      /\ \A q \in Process : map[q][f].size \in Nat
  BY <1>1, EvenUnderLock DEF Outcome, DataFile, Header, Mapping
<1>5. \A q \in Process \ {p} : \A e : e \in Files /\ Foreign(q, e) => Foreign(q, e)'
  BY <1>3, ProcessAssumption, <1>1 DEF Foreign
<1>6. EventInv'
  BY <1>3 DEF EventInv
<1>7. HeadInv'
  <2>1. ASSUME NEW e \in Files, disk'[e].head.signature PROVE InitialSize <= disk'[e].head.size
    BY <1>2, <2>1 DEF GrowthInv, HeadInv, Resized, HeadOK
  <2>2. disk'[1 - selector].head.size <= disk'[selector].head.size
    <3>1. disk[1 - selector].head.size <= disk[selector].head.size
      BY DEF GrowthInv, HeadInv
    <3>2. CASE f = selector
      <4>1. disk'[selector].head.size = o.file.head.size /\ disk'[1 - selector] = disk[1 - selector]
        BY <1>1, <1>2, <3>2
      <4>2. disk[selector].head.size <= o.file.head.size
        BY <3>2 DEF Resized
      <4>3. QED
        BY <1>1, <1>4, <3>1, <4>1, <4>2
    <3>3. CASE f # selector
      <4>1. f = 1 - selector
        BY <1>1, <3>3 DEF Files
      <4>2. QED
        BY <1>1, <1>2, <3>3, <4>1
    <3>4. QED
      BY <3>2, <3>3
  <2>3. selector = 1 => disk'[1].head.signature
    BY <1>1, <1>2 DEF GrowthInv, HeadInv, Resized
  <2>4. QED
    BY <2>1, <2>2, <2>3 DEF HeadInv
<1>8. MapInv'
  <2>1. SUFFICES ASSUME NEW q \in Process, NEW e \in Files
                 PROVE  /\ map'[q][e].size <= disk'[e].head.size
                        /\ map'[q][e].size = 0 \/ InitialSize <= map'[q][e].size
                        /\ map'[q][e].open => InitialSize <= map'[q][e].size
                        /\ map'[q][e].open /\ map'[q][e].size < disk'[e].head.size => Foreign(q, e)'
    BY DEF MapInv, Remembers, Foreign
  <2>2. /\ map[q][e].size <= disk[e].head.size
        /\ map[q][e].size = 0 \/ InitialSize <= map[q][e].size
        /\ map[q][e].open => InitialSize <= map[q][e].size
        /\ map[q][e].open /\ map[q][e].size < disk[e].head.size => Foreign(q, e)
    BY DEF GrowthInv, MapInv, Remembers
  <2>3. CASE e # f
    <3>1. disk'[e] = disk[e] /\ map'[q][e] = map[q][e] /\ grower'[e] = grower[e]
      BY <1>2, <1>3, <2>3
    <3>2. Foreign(q, e) => Foreign(q, e)'
      BY <3>1 DEF Foreign
    <3>3. QED
      BY <2>2, <3>1, <3>2
  <2>4. CASE e = f /\ q = p
    <3>1. map'[q][e] = o.map /\ disk'[e] = o.file
      BY <1>2, <2>4
    <3>2. ~(o.map.open /\ o.map.size < o.file.head.size)
      BY <1>4 DEF Resized
    <3>3. QED
      BY <3>1, <3>2 DEF Resized, MapOK
  <2>5. CASE e = f /\ q # p
    <3>1. map'[q][f] = map[q][f] /\ disk'[f] = o.file
      BY <1>2, <2>5
    <3>2. disk[f].head.size <= o.file.head.size
      BY DEF Resized
    <3>3. o.file.head.size # disk[f].head.size => Foreign(q, f)'
      BY <1>1, <1>3, <2>5, ProcessAssumption DEF Foreign
    <3>4. Foreign(q, f) => Foreign(q, f)'
      BY <1>5, <2>5
    <3>5. QED
      BY <1>4, <2>2, <2>5, <3>1, <3>2, <3>3, <3>4
  <2>6. QED
    BY <2>3, <2>4, <2>5
<1>9. FrameInv'
  <2>1. SUFFICES ASSUME NEW u \in Thread
                 PROVE  /\ RunsIn(frame[u], status[ProcessOf[u]])'
                        /\ Knows(frame[u], ProcessOf[u])'
                        /\ Waits(frame[u], ProcessOf[u], spinLock = u)'
    BY DEF FrameInv
  <2>2. CASE u = t
    <3>1. Knows(frame[u], ProcessOf[u])'
      BY <1>2, <2>2 DEF Knows
    <3>2. QED
      BY <1>2, <2>2, <3>1 DEF Waits, RunsIn
  <2>3. CASE u # t
    <3>1. PICK x : x = frame[u]
      OBVIOUS
    <3>2. x.pc \notin OpenPC \cup {"construct", "setReadOnly", "copy", "flip"} /\ spinLock' # u
      BY <2>3, <3>1, OneHolder, ThreadAssumption DEF Holds
    <3>3. RunsIn(x, status[ProcessOf[u]]) /\ frame'[u] = x
      BY <1>2, <2>3, <3>1 DEF GrowthInv, FrameInv
    <3>4. QED
      BY <3>2, <3>3 DEF RunsIn, Knows, Waits, OpenPC
  <2>4. QED
    BY <2>2, <2>3
<1>10. LengthInv'
  <2>1. CASE spinLock' = t /\ Doomed(c, p)'
    <3>1. Doomed(frame[t], ProcessOf[t])'
      BY <1>2, <2>1 DEF Doomed
    <3>2. QED
      BY <2>1, <3>1 DEF LengthInv, LockLost
  <2>2. CASE Even(o.file, After(o, count.failures))
    <3>1. ASSUME NEW e \in Files PROVE Even(disk'[e], count'.failures)
      <4>1. CASE e = f
        BY <1>2, <2>2, <4>1
      <4>2. CASE e # f
        <5>1. count'.failures = 0 => count.failures = 0
          BY <1>1 DEF After
        <5>2. QED
          BY <1>2, <1>4, <4>2, <5>1 DEF Even
      <4>3. QED
        BY <4>1, <4>2
    <3>2. QED
      BY <3>1 DEF LengthInv
  <2>3. QED
    BY <2>1, <2>2
<1>11. CalmInv'
  <2>1. SUFFICES ASSUME Calm'
                 PROVE  /\ \A q \in Process, e \in Files : status'[q] = "open" => map'[q][e].open
                        /\ \A u \in Thread : Unharmed(frame[u], ProcessOf[u])'
    BY DEF CalmInv
  <2>2. Calm
    BY <1>1, <2>1 DEF Calm, After
  <2>3. /\ \A q \in Process, e \in Files : status[q] = "open" => map[q][e].open
        /\ \A u \in Thread : Unharmed(frame[u], ProcessOf[u])
    BY <2>2 DEF GrowthInv, CalmInv
  <2>4. ASSUME NEW q \in Process, NEW e \in Files, status'[q] = "open" PROVE map'[q][e].open
    <3>1. CASE q = p /\ e = f
      BY <1>2, <2>1, <2>4, <3>1
    <3>2. CASE q # p \/ e # f
      BY <1>2, <2>3, <2>4, <3>2
    <3>3. QED
      BY <3>1, <3>2
  <2>5. ASSUME NEW u \in Thread PROVE Unharmed(frame[u], ProcessOf[u])'
    <3>1. CASE u = t
      BY <1>2, <2>1, <3>1 DEF Unharmed
    <3>2. CASE u # t /\ ProcessOf[u] = p
      BY <2>1, <3>2
    <3>3. CASE u # t /\ ProcessOf[u] # p
      <4>1. PICK x \in CallFrame, q \in Process \ {p} : x = frame[u] /\ q = ProcessOf[u] /\ frame'[u] = x
        BY <1>1, <1>2, <3>3
      <4>2. x.tab \in Files /\ 0 \in Files
        BY DEF CallFrame, Locals, Files
      <4>3. /\ map'[q][x.tab] = map[q][x.tab] /\ map'[q][0] = map[q][0] /\ map'[q][1] = map[q][1]
            /\ Foreign(q, x.tab) => Foreign(q, x.tab)'
        BY <1>1, <1>2, <1>5, <4>2
      <4>4. Unharmed(x, q)
        BY <2>3, <4>1
      <4>5. Unharmed(x, q)'
        BY <4>3, <4>4 DEF Unharmed
      <4>6. QED
        BY <4>1, <4>5 DEF Unharmed
    <3>4. QED
      BY <3>1, <3>2, <3>3
  <2>6. QED
    BY <2>4, <2>5
<1>12. QED
  BY <1>6, <1>7, <1>8, <1>9, <1>10, <1>11 DEF GrowthInv

LEMMA OpenMapGrows ==
    ASSUME IInv, IInv', GrowthInv, NEW t \in Thread, OpenMap(t)
    PROVE  GrowthInv' /\ (count'.failures = 0 => \A e \in Files : disk[e].len <= disk'[e].len)
<1>1. PICK d, p : d = frame[t] /\ p = ProcessOf[t]
  OBVIOUS
<1>2. /\ d \in CallFrame /\ p \in Process
      /\ d.tab \in Files /\ 1 - d.tab \in Files /\ selector \in Files
      /\ StageOK(d) /\ OnActive(d, selector) /\ (Holds(d) => spinLock = t)
      /\ RunsIn(d, status[p]) /\ Knows(d, p)
      /\ Calm => Unharmed(d, p) /\ (status[p] = "open" => \A e \in Files : map[p][e].open)
      /\ frame \in [Thread -> CallFrame] /\ map \in [Process -> [Files -> Mapping]]
      /\ disk \in [Files -> DataFile]
      /\ count \in EventRecord /\ count.failures \in Nat
  BY <1>1, AtHand
<1>3. d.pc = "openMap" /\ spinLock = t
  BY <1>1, <1>2 DEF OpenMap, At, Holds, OpenPC, StageOK, MaintainPC
<1>4. ~Doomed(frame[t], ProcessOf[t])
  BY <1>1, <1>3 DEF Doomed
<1>5. \A e \in Files :
        /\ Even(disk[e], count.failures) /\ HeadOK(disk[e].head)
        /\ disk[e] \in DataFile /\ disk[e].head.size \in Nat
        /\ map[p][e] \in Mapping /\ MapOK(map[p][e], disk[e].head)
        /\ map[p][e].open => disk[e].head.signature
  BY <1>2, <1>3, <1>4, EvenUnderLock
<1>6. PICK f \in Files : f = d.tab
  BY <1>2
<1>7. PICK o \in OpenOutcomes(map[p][f], disk[f], disk[f].len) :
        /\ Refile(p, f, o)
        /\ frame' = [frame EXCEPT ![t] =
             [@ EXCEPT !.pc = IF o.ok /\ f = 0 THEN "openSize" ELSE "openUnlock",
                       !.tab = 1,
                       !.err = IF o.ok THEN "NO" ELSE "ACCESS_DENIED"]]
  <2>1. d.seen = disk[f].len
    BY <1>2, <1>3, <1>6 DEF Knows
  <2>2. QED
    BY <1>1, <1>6, <2>1 DEF OpenMap, P
<1>8. /\ Resized(disk[f], o) /\ Even(o.file, After(o, count.failures)) /\ o \in Outcome
      /\ o.file.head.size # disk[f].head.size =>
           ~disk[f].head.signature /\ o.file.head.size = InitialSize
      /\ o.ok => o.file.head.signature
      /\ After(o, count.failures) = 0 => (o.ok => o.map.open) /\ disk[f].len <= o.file.len
  BY <1>2, <1>5, OpenSizes
<1>9. /\ disk' = [disk EXCEPT ![f] = o.file] /\ map' = [map EXCEPT ![p][f] = o.map]
      /\ grower' = IF o.file.head.size # disk[f].head.size THEN [grower EXCEPT ![f] = p] ELSE grower
      /\ selector' = selector /\ late' = late /\ status' = status /\ spinLock' = t
  BY <1>1, <1>3, <1>7 DEF Refile, OpenMap, P, Head, At
<1>10. count' \in EventRecord /\ count'.failures = After(o, count.failures)
  <2>1. After(o, count.failures) \in Nat
    BY <1>2 DEF After
  <2>2. count' = [count EXCEPT !.failures = After(o, count.failures)]
    BY <1>7 DEF Refile, After
  <2>3. QED
    BY <1>2, <2>1, <2>2 DEF EventRecord
<1>11. Calm' => Calm /\ ~o.io /\ count.failures = 0 /\ After(o, count.failures) = 0 /\ ~late
  BY <1>2, <1>9, <1>10 DEF Calm, After
<1>12. PICK c : c = [d EXCEPT !.pc = IF o.ok /\ f = 0 THEN "openSize" ELSE "openUnlock",
                         !.tab = 1, !.err = IF o.ok THEN "NO" ELSE "ACCESS_DENIED"]
  OBVIOUS
<1>13. frame' = [frame EXCEPT ![t] = c] /\ c \in CallFrame
  <2>1. frame' = [frame EXCEPT ![t] = c]
    BY <1>1, <1>2, <1>7, <1>12
  <2>2. frame' \in [Thread -> CallFrame]
    BY DEF IInv, TypeInv
  <2>3. QED
    BY <1>2, <2>1, <2>2
<1>14. /\ c.pc = IF o.ok /\ f = 0 THEN "openSize" ELSE "openUnlock"
       /\ c.tab = 1 /\ c.err = IF o.ok THEN "NO" ELSE "ACCESS_DENIED"
  BY <1>2, <1>12 DEF CallFrame, Locals
<1>14a. disk'[f] = o.file /\ map'[p][f] = o.map
        /\ \A e \in Files \ {f} : map'[p][e] = map[p][e] /\ disk'[e] = disk[e]
  BY <1>2, <1>9
<1>14b. status[p] = "opening"
  BY <1>2, <1>3 DEF RunsIn, OpenPC
<1>15. f # selector => o.file.head.size <= disk[selector].head.size
  <2>1. SUFFICES ASSUME f # selector PROVE o.file.head.size <= disk[selector].head.size
    OBVIOUS
  <2>2. f = 1 - selector
    BY <1>2, <2>1 DEF Files
  <2>3. disk[f].head.size <= disk[selector].head.size
    BY <2>2 DEF GrowthInv, HeadInv
  <2>4. disk[selector].head.signature
    <3>1. CASE selector = 1
      BY <3>1 DEF GrowthInv, HeadInv
    <3>2. CASE selector = 0
      BY <1>2, <1>3, <1>6, <2>2, <3>2 DEF Knows
    <3>3. QED
      BY <1>2, <3>1, <3>2 DEF Files
  <2>5. InitialSize <= disk[selector].head.size
    BY <1>2, <2>4 DEF GrowthInv, HeadInv
  <2>6. QED
    BY <1>8, <2>3, <2>5
<1>16. RunsIn(c, status[p]) /\ c.pc # "relock"
  BY <1>14, <1>14b DEF RunsIn, OpenPC
<1>17. Knows(c, p)'
  <2>1. c.pc = "openSize" => disk'[0].head.signature
    BY <1>8, <1>14, <1>14a
  <2>2. QED
    BY <1>14, <2>1 DEF Knows
<1>18. Even(o.file, After(o, count.failures)) \/ (spinLock' = t /\ Doomed(c, p)')
  BY <1>8
<1>19. Calm' => /\ Unharmed(c, p)' /\ (status[p] = "open" => o.map.open)
                /\ \A u \in Thread \ {t} : ProcessOf[u] = p => Unharmed(frame[u], p)'
  <2>1. SUFFICES ASSUME Calm'
                 PROVE  /\ Unharmed(c, p)'
                        /\ \A u \in Thread \ {t} : ProcessOf[u] = p => Unharmed(frame[u], p)'
    BY <1>14b
  <2>2. o.ok => o.map.open
    BY <1>8, <1>11, <2>1
  <2>3. f = 1 => map[p][0].open
    BY <1>2, <1>3, <1>6, <1>11, <2>1 DEF Unharmed
  <2>4. c.pc = "openSize" => map'[p][0].open
    BY <1>14, <1>14a, <2>2
  <2>5. c.pc = "openUnlock" /\ c.err = "NO" => map'[p][0].open /\ map'[p][1].open
    <3>1. SUFFICES ASSUME c.pc = "openUnlock", c.err = "NO" PROVE map'[p][0].open /\ map'[p][1].open
      OBVIOUS
    <3>2. o.ok /\ f = 1
      BY <1>14, <3>1 DEF Files
    <3>3. QED
      BY <1>14a, <2>2, <2>3, <3>2 DEF Files
  <2>6. Unharmed(c, p)'
    BY <1>14, <2>4, <2>5 DEF Unharmed, FollowsActive
  <2>7. ASSUME NEW u \in Thread \ {t}, ProcessOf[u] = p PROVE Unharmed(frame[u], p)'
    <3>1. PICK x : x = frame[u]
      OBVIOUS
    <3>2. RunsIn(x, "opening") /\ ~Holds(x)
      BY <1>3, <1>14b, <2>7, <3>1, OneHolder DEF GrowthInv, FrameInv
    <3>3. x.pc = "idle"
      BY <3>2 DEF RunsIn, Holds
    <3>4. frame'[u] = x
      BY <1>2, <1>13, <3>1
    <3>5. QED
      BY <3>3, <3>4 DEF Unharmed, FollowsActive
  <2>8. QED
    BY <2>6, <2>7
<1>20. GrowthInv'
  BY <1>1, <1>2, <1>3, <1>4, <1>8, <1>9, <1>10, <1>13, <1>15, <1>16, <1>17, <1>18, <1>19, ResizeStep
<1>21. count'.failures = 0 => \A e \in Files : disk[e].len <= disk'[e].len
  BY <1>2, <1>5, <1>8, <1>10, <1>14a DEF DataFile
<1>22. QED
  BY <1>20, <1>21

LEMMA RecheckGrows ==
    ASSUME IInv, IInv', GrowthInv, NEW t \in Thread, Recheck(t)
    PROVE  GrowthInv' /\ \A e \in Files : disk[e].len <= disk'[e].len
<1>1. PICK d, p : d = frame[t] /\ p = ProcessOf[t]
  OBVIOUS
<1>2. /\ d \in CallFrame /\ p \in Process
      /\ d.tab \in Files /\ 1 - d.tab \in Files /\ selector \in Files
      /\ StageOK(d) /\ OnActive(d, selector) /\ (Holds(d) => spinLock = t)
      /\ RunsIn(d, status[p]) /\ Knows(d, p)
      /\ Calm => Unharmed(d, p) /\ (status[p] = "open" => \A e \in Files : map[p][e].open)
      /\ frame \in [Thread -> CallFrame] /\ map \in [Process -> [Files -> Mapping]]
      /\ disk \in [Files -> DataFile]
      /\ count \in EventRecord /\ count.failures \in Nat
  BY <1>1, AtHand
<1>3. d.pc = "recheck" /\ spinLock = t
  BY <1>1, <1>2 DEF Recheck, At, Holds, OpenPC, StageOK, MaintainPC
<1>4. ~Doomed(frame[t], ProcessOf[t])
  BY <1>1, <1>3 DEF Doomed
<1>5. \A e \in Files :
        /\ Even(disk[e], count.failures) /\ HeadOK(disk[e].head)
        /\ disk[e] \in DataFile /\ disk[e].head.size \in Nat
        /\ map[p][e] \in Mapping /\ MapOK(map[p][e], disk[e].head)
        /\ map[p][e].open => disk[e].head.signature
  BY <1>2, <1>3, <1>4, EvenUnderLock
<1>6. PICK f \in Files : f = d.tab
  BY <1>2
<1>6a. d.stage = 1 /\ map[p][f].open /\ status[p] = "open"
  BY <1>1, <1>2, <1>3, <1>6 DEF StageOK, Recheck, Usable, P, RunsIn, OpenPC
<1>6b. AfterActive(t) = "test"
  BY <1>1, <1>6a DEF AfterActive
<1>7. PICK o \in IF Outgrown(p, f) THEN ExtendSizeTo(map[p][f], disk[f], disk[f].head.size)
                 ELSE {[ok |-> TRUE, io |-> FALSE, file |-> disk[f], map |-> map[p][f]]} :
        /\ Refile(p, f, o)
        /\ frame' = [frame EXCEPT ![t].pc = "test", ![t].age = o.map.age]
  BY <1>1, <1>6, <1>6b DEF Recheck, P, Head
<1>8. /\ Resized(disk[f], o) /\ Even(o.file, After(o, count.failures)) /\ o \in Outcome
      /\ o.file.head.size = disk[f].head.size /\ disk[f].len <= o.file.len
      /\ ~o.io => o.map.open
  <2>1. CASE Outgrown(p, f)
    <3>1. o \in ExtendSizeTo(map[p][f], disk[f], disk[f].head.size)
      BY <1>7, <2>1
    <3>2. InitialSize <= disk[f].head.size /\ disk[f].head.size <= disk[f].head.size
      BY <1>5, <1>6a DEF HeadOK
    <3>3. PICK n \in Nat : n = disk[f].head.size
      BY <1>5
    <3>4. /\ Resized(disk[f], o) /\ o \in Outcome
          /\ o.file.head.size \in {disk[f].head.size, n} /\ disk[f].len <= o.file.len
          /\ Even(o.file, After(o, count.failures)) \/ (~o.map.open /\ disk[f].head.size < n)
          /\ ~o.io /\ map[p][f].open /\ (disk[f].head.readers = 0 \/ n = disk[f].head.size) => o.map.open
      BY <1>2, <1>5, <3>1, <3>2, <3>3, ExtendSizes
    <3>5. QED
      BY <1>6a, <3>3, <3>4
  <2>2. CASE ~Outgrown(p, f)
    <3>1. o = [ok |-> TRUE, io |-> FALSE, file |-> disk[f], map |-> map[p][f]]
      BY <1>7, <2>2
    <3>2. o.file = disk[f] /\ o.map = map[p][f] /\ o.io = FALSE
      BY <3>1
    <3>3. o \in Outcome
      BY <1>5, <3>1 DEF Outcome
    <3>4. map[p][f].size = disk[f].head.size /\ InitialSize <= map[p][f].size
      <4>1. /\ map[p][f].size <= disk[f].head.size /\ InitialSize <= map[p][f].size
            /\ ~(disk[f].head.size > map[p][f].size)
        BY <1>2, <1>6a, <2>2 DEF Outgrown, Head, GrowthInv, MapInv, Remembers
      <4>2. map[p][f].size \in Nat /\ disk[f].head.size \in Nat
        BY <1>5 DEF Mapping
      <4>3. QED
        BY <4>1, <4>2
    <3>5. Resized(disk[f], o)
      BY <1>5, <3>2, <3>4 DEF Resized
    <3>6. After(o, count.failures) = count.failures
      BY <3>2 DEF After
    <3>7. QED
      BY <1>5, <1>6a, <3>2, <3>3, <3>5, <3>6 DEF DataFile
  <2>3. QED
    BY <2>1, <2>2
<1>9. /\ disk' = [disk EXCEPT ![f] = o.file] /\ map' = [map EXCEPT ![p][f] = o.map]
      /\ grower' = IF o.file.head.size # disk[f].head.size THEN [grower EXCEPT ![f] = p] ELSE grower
      /\ selector' = selector /\ late' = late /\ status' = status /\ spinLock' = NoThread
  BY <1>1, <1>3, <1>7 DEF Refile, Recheck, P, Head, At
<1>10. count' \in EventRecord /\ count'.failures = After(o, count.failures)
  <2>1. After(o, count.failures) \in Nat
    BY <1>2 DEF After
  <2>2. count' = [count EXCEPT !.failures = After(o, count.failures)]
    BY <1>7 DEF Refile, After
  <2>3. QED
    BY <1>2, <2>1, <2>2 DEF EventRecord
<1>11. Calm' => Calm /\ ~o.io /\ count.failures = 0 /\ After(o, count.failures) = 0 /\ ~late
  BY <1>2, <1>9, <1>10 DEF Calm, After
<1>12. PICK c : c = [d EXCEPT !.pc = "test", !.age = o.map.age]
  OBVIOUS
<1>13. frame' = [frame EXCEPT ![t] = c] /\ c \in CallFrame
  <2>1. frame' = [frame EXCEPT ![t] = c]
    BY <1>1, <1>2, <1>7, <1>12
  <2>2. frame' \in [Thread -> CallFrame]
    BY DEF IInv, TypeInv
  <2>3. QED
    BY <1>2, <2>1, <2>2
<1>14. c.pc = "test" /\ c.tab = f /\ c.age = o.map.age /\ c.stage = 1
  BY <1>2, <1>6, <1>6a, <1>12 DEF CallFrame, Locals
<1>14a. /\ map'[p][f] = o.map /\ disk'[f] = o.file /\ grower' = grower
        /\ \A e \in Files \ {f} : map'[p][e] = map[p][e] /\ disk'[e] = disk[e]
  BY <1>2, <1>8, <1>9
<1>15. f # selector => o.file.head.size <= disk[selector].head.size
  <2>1. SUFFICES ASSUME f # selector PROVE disk[f].head.size <= disk[selector].head.size
    BY <1>8
  <2>2. f = 1 - selector
    BY <1>2, <2>1 DEF Files
  <2>3. QED
    BY <2>2 DEF GrowthInv, HeadInv
<1>16. RunsIn(c, status[p]) /\ c.pc # "relock"
  BY <1>6a, <1>14 DEF RunsIn, OpenPC
<1>17. Knows(c, p)'
  BY <1>14 DEF Knows
<1>18. Even(o.file, After(o, count.failures)) \/ (spinLock' = t /\ Doomed(c, p)')
  BY <1>8
<1>19. Calm' => /\ Unharmed(c, p)' /\ (status[p] = "open" => o.map.open)
                /\ \A u \in Thread \ {t} : ProcessOf[u] = p => Unharmed(frame[u], p)'
  <2>1. SUFFICES ASSUME Calm'
                 PROVE  /\ Unharmed(c, p)' /\ o.map.open
                        /\ \A u \in Thread \ {t} : ProcessOf[u] = p => Unharmed(frame[u], p)'
    OBVIOUS
  <2>2. o.map.open
    BY <1>8, <1>11, <2>1
  <2>3. Unharmed(c, p)'
    BY <1>14, <1>14a DEF Unharmed, FollowsActive
  <2>4. ASSUME NEW u \in Thread \ {t}, ProcessOf[u] = p PROVE Unharmed(frame[u], p)'
    <3>1. PICK x \in CallFrame : x = frame[u]
      BY <1>2
    <3>2. Unharmed(x, p) /\ RunsIn(x, status[p]) /\ frame'[u] = x /\ x.tab \in Files
      BY <1>2, <1>11, <1>13, <2>1, <2>4, <3>1 DEF GrowthInv, CalmInv, FrameInv, CallFrame, Locals
    <3>3. CASE Outgrown(p, f)
      <4>1. Foreign(p, f)
        BY <1>2, <1>5, <1>6a, <3>3 DEF Outgrown, Head, Mapping, GrowthInv, MapInv, Remembers
      <4>2. Foreign(p, f)' /\ (Foreign(p, x.tab)' <=> Foreign(p, x.tab))
        BY <1>14a, <4>1 DEF Foreign
      <4>3. x.tab # f => map'[p][x.tab] = map[p][x.tab]
        BY <1>14a, <3>2
      <4>4. x.pc \notin OpenPC
        BY <1>6a, <3>2 DEF RunsIn
      <4>5. QED
        BY <3>2, <4>2, <4>3, <4>4 DEF Unharmed, OpenPC
    <3>4. CASE ~Outgrown(p, f)
      <4>1. o = [ok |-> TRUE, io |-> FALSE, file |-> disk[f], map |-> map[p][f]]
        BY <1>7, <3>4
      <4>2. map'[p][f] = map[p][f]
        BY <1>14a, <4>1
      <4>3. map'[p][x.tab] = map[p][x.tab] /\ (Foreign(p, x.tab)' <=> Foreign(p, x.tab))
        BY <1>14a, <3>2, <4>2 DEF Foreign
      <4>4. x.pc \notin OpenPC
        BY <1>6a, <3>2 DEF RunsIn
      <4>5. QED
        BY <3>2, <4>3, <4>4 DEF Unharmed, OpenPC
    <3>5. QED
      BY <3>3, <3>4
  <2>5. QED
    BY <2>2, <2>3, <2>4
<1>20. GrowthInv'
  BY <1>1, <1>2, <1>3, <1>4, <1>8, <1>9, <1>10, <1>13, <1>15, <1>16, <1>17, <1>18, <1>19, ResizeStep
<1>21. \A e \in Files : disk[e].len <= disk'[e].len
  BY <1>2, <1>5, <1>8, <1>10, <1>14a DEF DataFile
<1>22. QED
  BY <1>20, <1>21

LEMMA GrowGrows ==
    ASSUME IInv, IInv', GrowthInv, NEW t \in Thread, Grow(t)
    PROVE  GrowthInv' /\ \A e \in Files : disk[e].len <= disk'[e].len
<1>1. PICK d, p : d = frame[t] /\ p = ProcessOf[t]
  OBVIOUS
<1>2. /\ d \in CallFrame /\ p \in Process
      /\ d.tab \in Files /\ 1 - d.tab \in Files /\ selector \in Files
      /\ StageOK(d) /\ OnActive(d, selector) /\ (Holds(d) => spinLock = t)
      /\ RunsIn(d, status[p]) /\ Knows(d, p)
      /\ Calm => Unharmed(d, p) /\ (status[p] = "open" => \A e \in Files : map[p][e].open)
      /\ frame \in [Thread -> CallFrame] /\ map \in [Process -> [Files -> Mapping]]
      /\ disk \in [Files -> DataFile]
      /\ count \in EventRecord /\ count.failures \in Nat
  BY <1>1, AtHand
<1>3. d.pc = "grow" /\ spinLock = t
  BY <1>1, <1>2 DEF Grow, At, Holds, OpenPC, StageOK, MaintainPC
<1>4. ~Doomed(frame[t], ProcessOf[t])
  BY <1>1, <1>3 DEF Doomed
<1>5. \A e \in Files :
        /\ Even(disk[e], count.failures) /\ HeadOK(disk[e].head)
        /\ disk[e] \in DataFile /\ disk[e].head.size \in Nat
        /\ map[p][e] \in Mapping /\ MapOK(map[p][e], disk[e].head)
        /\ map[p][e].open => disk[e].head.signature
  BY <1>2, <1>3, <1>4, EvenUnderLock
<1>6. PICK f \in Files : f = d.tab
  BY <1>2
<1>6a. d.stage = 3 /\ d.tab = selector /\ map[p][d.tab].open /\ status[p] = "open"
  BY <1>1, <1>2, <1>3 DEF StageOK, MaintainPC, OnActive, Grow, Usable, P, RunsIn, OpenPC
<1>6b. Alone(frame[t])
  BY <1>1, <1>3, <1>6a DEF Alone
<1>6c. PICK n \in Nat : n = 2 * disk[d.tab].head.size /\ InitialSize <= n /\ disk[f].head.size <= n
  <2>1. disk[d.tab].head.size \in Nat /\ InitialSize <= disk[d.tab].head.size /\ InitialSize \in Nat
    BY <1>2, <1>5, <1>6a, InitialSizeAssumption DEF HeadOK
  <2>2. QED
    BY <1>6, <2>1
<1>7. PICK o \in ExtendSizeTo(map[p][f], disk[f], n) : Refile(p, f, o)
  BY <1>1, <1>6, <1>6c DEF Grow, Extending, P, Head, Other
<1>8. /\ Resized(disk[f], o) /\ o \in Outcome
      /\ o.map.open => n <= o.map.size
      /\ disk[f].len <= o.file.len
      /\ o.file.head.size \in {disk[f].head.size, n}
      /\ Even(o.file, After(o, count.failures)) \/ ~o.map.open
      /\ ~o.io /\ map[p][f].open /\ disk[f].head.readers = 0 => o.map.open
  BY <1>2, <1>5, <1>6c, <1>7, ExtendSizes
<1>9. /\ disk' = [disk EXCEPT ![f] = o.file] /\ map' = [map EXCEPT ![p][f] = o.map]
      /\ grower' = IF o.file.head.size # disk[f].head.size THEN [grower EXCEPT ![f] = p] ELSE grower
      /\ selector' = selector /\ late' = late /\ status' = status /\ spinLock' = t
  BY <1>1, <1>3, <1>7 DEF Refile, Grow, P, Head, At
<1>10. count' \in EventRecord /\ count'.failures = After(o, count.failures)
  <2>1. After(o, count.failures) \in Nat
    BY <1>2 DEF After
  <2>2. count' = [count EXCEPT !.failures = After(o, count.failures)]
    BY <1>7 DEF Refile, After
  <2>3. QED
    BY <1>2, <2>1, <2>2 DEF EventRecord
<1>11. Calm' => Calm /\ ~o.io /\ count.failures = 0 /\ After(o, count.failures) = 0 /\ ~late
  BY <1>2, <1>9, <1>10 DEF Calm, After
<1>12. PICK c : c = [d EXCEPT !.pc = "endWrite"]
  OBVIOUS
<1>13. frame' = [frame EXCEPT ![t] = c] /\ c \in CallFrame
  <2>1. frame' = [frame EXCEPT ![t] = c]
    BY <1>1, <1>2, <1>7, <1>12 DEF Grow, Goto
  <2>2. frame' \in [Thread -> CallFrame]
    BY DEF IInv, TypeInv
  <2>3. QED
    BY <1>2, <2>1, <2>2
<1>14. c.pc = "endWrite" /\ c.tab = d.tab /\ c.stage = 3
  BY <1>2, <1>6a, <1>12 DEF CallFrame, Locals
<1>14a. disk'[f] = o.file /\ map'[p][f] = o.map
        /\ \A e \in Files \ {f} : map'[p][e] = map[p][e] /\ disk'[e] = disk[e]
  BY <1>2, <1>9
<1>15. f # selector => o.file.head.size <= disk[selector].head.size
  BY <1>6, <1>6a
<1>17. Knows(c, p)'
  BY <1>14 DEF Knows
<1>18. Even(o.file, After(o, count.failures)) \/ (spinLock' = t /\ Doomed(c, p)')
  <2>1. SUFFICES ASSUME ~o.map.open PROVE spinLock' = t /\ Doomed(c, p)'
    BY <1>8
  <2>2. ~map'[p][selector].open /\ selector' = selector
    BY <1>6, <1>6a, <1>9, <1>14a, <2>1
  <2>3. ~map'[p][selector'].open
    BY <2>2
  <2>4. QED
    BY <1>9, <1>14, <2>3 DEF Doomed
<1>16. RunsIn(c, status[p]) /\ c.pc # "relock"
  BY <1>6a, <1>14 DEF RunsIn, OpenPC
<1>19. Calm' => /\ Unharmed(c, p)' /\ (status[p] = "open" => o.map.open)
                /\ \A u \in Thread \ {t} : ProcessOf[u] = p => Unharmed(frame[u], p)'
  <2>1. SUFFICES ASSUME Calm'
                 PROVE  /\ Unharmed(c, p)' /\ o.map.open
                        /\ \A u \in Thread \ {t} : ProcessOf[u] = p => Unharmed(frame[u], p)'
    OBVIOUS
  <2>2. o.map.open
    <3>1. disk[f].head.readers = 0
      BY <1>6b, <1>11, <2>1, Nobody
    <3>2. map[p][f].open
      BY <1>2, <1>6a, <1>11, <2>1
    <3>3. QED
      BY <1>8, <1>11, <2>1, <3>1, <3>2
  <2>3. Unharmed(c, p)'
    BY <1>14 DEF Unharmed, FollowsActive
  <2>4. ASSUME NEW u \in Thread \ {t}, ProcessOf[u] = p PROVE Unharmed(frame[u], p)'
    <3>1. PICK x : x = frame[u]
      OBVIOUS
    <3>2. ~InSession(x) /\ ~Holds(x) /\ StageOK(x)
      BY <1>3, <1>6b, <1>11, <2>1, <3>1, Nobody, OneHolder DEF IInv, ThreadInv
    <3>3. x.stage = 1 /\ x.pc \notin OpenPC \cup SessionPC \cup {"recheck"}
      BY <3>2 DEF Holds, InSession
    <3>4. x.pc \notin MaintainPC
      BY <3>2, <3>3 DEF StageOK
    <3>5. frame'[u] = x
      BY <1>2, <1>13, <3>1
    <3>6. QED
      BY <3>3, <3>4, <3>5 DEF Unharmed, FollowsActive, OpenPC, SessionPC, MaintainPC
  <2>5. QED
    BY <2>2, <2>3, <2>4
<1>20. GrowthInv'
  BY <1>1, <1>2, <1>3, <1>4, <1>8, <1>9, <1>10, <1>13, <1>15, <1>16, <1>17, <1>18, <1>19, ResizeStep
<1>21. \A e \in Files : disk[e].len <= disk'[e].len
  BY <1>2, <1>5, <1>8, <1>10, <1>14a DEF DataFile
<1>22. QED
  BY <1>20, <1>21

LEMMA ExtendGrows ==
    ASSUME IInv, IInv', GrowthInv, NEW t \in Thread, Extend(t)
    PROVE  GrowthInv' /\ \A e \in Files : disk[e].len <= disk'[e].len
<1>1. PICK d, p : d = frame[t] /\ p = ProcessOf[t]
  OBVIOUS
<1>2. /\ d \in CallFrame /\ p \in Process
      /\ d.tab \in Files /\ 1 - d.tab \in Files /\ selector \in Files
      /\ StageOK(d) /\ OnActive(d, selector) /\ (Holds(d) => spinLock = t)
      /\ RunsIn(d, status[p]) /\ Knows(d, p)
      /\ Calm => Unharmed(d, p) /\ (status[p] = "open" => \A e \in Files : map[p][e].open)
      /\ frame \in [Thread -> CallFrame] /\ map \in [Process -> [Files -> Mapping]]
      /\ disk \in [Files -> DataFile]
      /\ count \in EventRecord /\ count.failures \in Nat
  BY <1>1, AtHand
<1>3. d.pc = "extend" /\ spinLock = t
  BY <1>1, <1>2 DEF Extend, At, Holds, OpenPC, StageOK, MaintainPC
<1>4. ~Doomed(frame[t], ProcessOf[t])
  BY <1>1, <1>3 DEF Doomed
<1>5. \A e \in Files :
        /\ Even(disk[e], count.failures) /\ HeadOK(disk[e].head)
        /\ disk[e] \in DataFile /\ disk[e].head.size \in Nat
        /\ map[p][e] \in Mapping /\ MapOK(map[p][e], disk[e].head)
        /\ map[p][e].open => disk[e].head.signature
  BY <1>2, <1>3, <1>4, EvenUnderLock
<1>6. PICK f \in Files : f = 1 - d.tab
  BY <1>2
<1>6a. d.stage = 3 /\ d.tab = selector /\ map[p][d.tab].open /\ status[p] = "open"
  BY <1>1, <1>2, <1>3 DEF StageOK, MaintainPC, OnActive, Extend, Usable, P, RunsIn, OpenPC
<1>6b. Alone(frame[t])
  BY <1>1, <1>3, <1>6a DEF Alone
<1>6c. PICK n \in Nat : n = disk[d.tab].head.size /\ InitialSize <= n /\ disk[f].head.size <= n
  <2>1. disk[d.tab].head.size \in Nat /\ InitialSize <= disk[d.tab].head.size
    BY <1>2, <1>5, <1>6a DEF HeadOK
  <2>2. disk[f].head.size <= disk[d.tab].head.size
    BY <1>6, <1>6a DEF GrowthInv, HeadInv
  <2>3. QED
    BY <2>1, <2>2
<1>6d. f # d.tab
  BY <1>2, <1>6, OtherFile
<1>7. PICK o \in ExtendSizeTo(map[p][f], disk[f], n) : Refile(p, f, o)
  BY <1>1, <1>6, <1>6c DEF Extend, Extending, P, Head, Other
<1>8. /\ Resized(disk[f], o) /\ o \in Outcome
      /\ o.map.open => n <= o.map.size
      /\ disk[f].len <= o.file.len
      /\ o.file.head.size \in {disk[f].head.size, n}
      /\ Even(o.file, After(o, count.failures)) \/ ~o.map.open
      /\ ~o.io /\ map[p][f].open /\ disk[f].head.readers = 0 => o.map.open
  BY <1>2, <1>5, <1>6c, <1>7, ExtendSizes
<1>9. /\ disk' = [disk EXCEPT ![f] = o.file] /\ map' = [map EXCEPT ![p][f] = o.map]
      /\ grower' = IF o.file.head.size # disk[f].head.size THEN [grower EXCEPT ![f] = p] ELSE grower
      /\ selector' = selector /\ late' = late /\ status' = status /\ spinLock' = t
  BY <1>1, <1>3, <1>7 DEF Refile, Extend, P, Head, At
<1>10. count' \in EventRecord /\ count'.failures = After(o, count.failures)
  <2>1. After(o, count.failures) \in Nat
    BY <1>2 DEF After
  <2>2. count' = [count EXCEPT !.failures = After(o, count.failures)]
    BY <1>7 DEF Refile, After
  <2>3. QED
    BY <1>2, <2>1, <2>2 DEF EventRecord
<1>11. Calm' => Calm /\ ~o.io /\ count.failures = 0 /\ After(o, count.failures) = 0 /\ ~late
  BY <1>2, <1>9, <1>10 DEF Calm, After
<1>12. PICK c : c = [d EXCEPT !.pc = "construct"]
  OBVIOUS
<1>13. frame' = [frame EXCEPT ![t] = c] /\ c \in CallFrame
  <2>1. frame' = [frame EXCEPT ![t] = c]
    BY <1>1, <1>2, <1>7, <1>12 DEF Extend, Goto
  <2>2. frame' \in [Thread -> CallFrame]
    BY DEF IInv, TypeInv
  <2>3. QED
    BY <1>2, <2>1, <2>2
<1>14. c.pc = "construct" /\ c.tab = d.tab /\ c.stage = 3
  BY <1>2, <1>6a, <1>12 DEF CallFrame, Locals
<1>14a. disk'[f] = o.file /\ map'[p][f] = o.map
        /\ \A e \in Files \ {f} : map'[p][e] = map[p][e] /\ disk'[e] = disk[e]
  BY <1>2, <1>9
<1>15. f # selector => o.file.head.size <= disk[selector].head.size
  BY <1>6a, <1>6c, <1>8
<1>17. Knows(c, p)'
  <2>1. map'[p][1 - c.tab].open => disk'[c.tab].head.size <= map'[p][1 - c.tab].size
    BY <1>2, <1>6, <1>6c, <1>6d, <1>8, <1>14, <1>14a
  <2>2. QED
    BY <1>14, <2>1 DEF Knows
<1>18. Even(o.file, After(o, count.failures)) \/ (spinLock' = t /\ Doomed(c, p)')
  <2>1. SUFFICES ASSUME ~o.map.open PROVE spinLock' = t /\ Doomed(c, p)'
    BY <1>8
  <2>2. ~map'[p][1 - c.tab].open
    BY <1>6, <1>14, <1>14a, <2>1
  <2>3. QED
    BY <1>9, <1>14, <2>2 DEF Doomed
<1>16. RunsIn(c, status[p]) /\ c.pc # "relock"
  BY <1>6a, <1>14 DEF RunsIn, OpenPC
<1>19. Calm' => /\ Unharmed(c, p)' /\ (status[p] = "open" => o.map.open)
                /\ \A u \in Thread \ {t} : ProcessOf[u] = p => Unharmed(frame[u], p)'
  <2>1. SUFFICES ASSUME Calm'
                 PROVE  /\ Unharmed(c, p)' /\ o.map.open
                        /\ \A u \in Thread \ {t} : ProcessOf[u] = p => Unharmed(frame[u], p)'
    OBVIOUS
  <2>2. o.map.open
    <3>1. disk[f].head.readers = 0
      BY <1>6b, <1>11, <2>1, Nobody
    <3>2. map[p][f].open
      BY <1>2, <1>6a, <1>11, <2>1
    <3>3. QED
      BY <1>8, <1>11, <2>1, <3>1, <3>2
  <2>3. Unharmed(c, p)'
    <3>1. d.pc = "extend" /\ Unharmed(d, p) /\ c.age = d.age
      BY <1>2, <1>3, <1>11, <1>12, <2>1 DEF CallFrame, Locals
    <3>2. map'[p][d.tab] = map[p][d.tab]
      BY <1>2, <1>6d, <1>14a
    <3>3. Foreign(p, d.tab) => Foreign(p, d.tab)'
      <4>1. grower'[d.tab] = grower[d.tab]
        <5>1. grower \in [Files -> Process \cup {NoProcess}]
          BY DEF GrowthInv, EventInv
        <5>2. QED
          BY <1>2, <1>6d, <1>9, <5>1
      <4>2. QED
        BY <4>1 DEF Foreign
    <3>4. QED
      BY <1>14, <3>1, <3>2, <3>3 DEF Unharmed, FollowsActive
  <2>4. ASSUME NEW u \in Thread \ {t}, ProcessOf[u] = p PROVE Unharmed(frame[u], p)'
    <3>1. PICK x : x = frame[u]
      OBVIOUS
    <3>2. ~InSession(x) /\ ~Holds(x) /\ StageOK(x)
      BY <1>3, <1>6b, <1>11, <2>1, <3>1, Nobody, OneHolder DEF IInv, ThreadInv
    <3>3. x.stage = 1 /\ x.pc \notin OpenPC \cup SessionPC \cup {"recheck"}
      BY <3>2 DEF Holds, InSession
    <3>4. x.pc \notin MaintainPC
      BY <3>2, <3>3 DEF StageOK
    <3>5. frame'[u] = x
      BY <1>2, <1>13, <3>1
    <3>6. QED
      BY <3>3, <3>4, <3>5 DEF Unharmed, FollowsActive, OpenPC, SessionPC, MaintainPC
  <2>5. QED
    BY <2>2, <2>3, <2>4
<1>20. GrowthInv'
  BY <1>1, <1>2, <1>3, <1>4, <1>8, <1>9, <1>10, <1>13, <1>15, <1>16, <1>17, <1>18, <1>19, ResizeStep
<1>21. \A e \in Files : disk[e].len <= disk'[e].len
  BY <1>2, <1>5, <1>8, <1>10, <1>14a DEF DataFile
<1>22. QED
  BY <1>20, <1>21

-----------------------------------------------------------------------------
(* The selector flips, processes close their tables and die.               *)

LEMMA FlipSelectorGrows ==
    ASSUME IInv, IInv', GrowthInv, NEW t \in Thread, FlipSelector(t)
    PROVE  GrowthInv'
<1>1. PICK d, p : d = frame[t] /\ p = ProcessOf[t]
  OBVIOUS
<1>2. /\ d \in CallFrame /\ p \in Process
      /\ d.tab \in Files /\ 1 - d.tab \in Files /\ selector \in Files
      /\ StageOK(d) /\ OnActive(d, selector) /\ (Holds(d) => spinLock = t)
      /\ RunsIn(d, status[p]) /\ Knows(d, p)
      /\ frame \in [Thread -> CallFrame] /\ count.failures \in Nat
      /\ disk \in [Files -> DataFile]
  BY <1>1, AtHand
<1>3. d.pc = "flip" /\ d.stage = 3 /\ spinLock = t /\ d.tab = selector /\ status[p] = "open"
  BY <1>1, <1>2 DEF FlipSelector, At, Holds, OpenPC, StageOK, MaintainPC, OnActive, RunsIn
<1>4. PICK c : c = [d EXCEPT !.pc = "endWrite"]
  OBVIOUS
<1>5. c \in CallFrame /\ c.pc = "endWrite" /\ c.stage = d.stage /\ c.tab = d.tab
  BY <1>2, <1>4 DEF CallFrame, Locals, PCs
<1>6. /\ frame' = [frame EXCEPT ![t] = c] /\ selector' = 1 - selector
      /\ UNCHANGED <<disk, map, grower, status, spinLock, sync, count, late>>
  BY <1>1, <1>2, <1>4 DEF FlipSelector, Goto, files
<1>7. SameSizes
  BY <1>6 DEF SameSizes
<1>8. /\ frame'[t] = c /\ \A u \in Thread \ {t} : frame'[u] = frame[u] /\ frame[u] \in CallFrame
  BY <1>2, <1>6
<1>9. EventInv' /\ MapInv'
  BY <1>6 DEF GrowthInv, EventInv, MapInv, Remembers, Foreign
<1>10. HeadInv'
  <2>1. /\ disk[1 - selector].head.signature
        /\ disk[1 - selector].head.size = disk[selector].head.size
    BY <1>2, <1>3 DEF Knows
  <2>2. 1 - (1 - selector) = selector /\ disk[selector].head.size \in Nat
    BY <1>2, OtherFile DEF DataFile, Header
  <2>3. disk[1 - selector'].head.size <= disk[selector'].head.size
    BY <1>6, <2>1, <2>2
  <2>4. selector' = 1 => disk[1].head.signature
    BY <1>6, <2>1
  <2>5. QED
    BY <1>6, <2>3, <2>4 DEF GrowthInv, HeadInv
<1>11. FrameInv'
  <2>1. SUFFICES ASSUME NEW u \in Thread
                 PROVE  /\ RunsIn(frame[u], status[ProcessOf[u]])'
                        /\ Knows(frame[u], ProcessOf[u])'
                        /\ Waits(frame[u], ProcessOf[u], spinLock = u)'
    BY DEF FrameInv
  <2>2. CASE u = t
    BY <1>1, <1>3, <1>5, <1>6, <1>8, <2>2 DEF RunsIn, Knows, Waits, OpenPC
  <2>3. CASE u # t
    <3>1. PICK x, q : x = frame[u] /\ x \in CallFrame /\ q = ProcessOf[u] /\ frame'[u] = x
      BY <1>8, <2>3
    <3>2. RunsIn(x, status[q]) /\ Knows(x, q) /\ Waits(x, q, spinLock = u)
      BY <3>1 DEF GrowthInv, FrameInv
    <3>3. Knows(x, q)' /\ (Foreign(q, x.tab)' <=> Foreign(q, x.tab))
      BY <1>7, <3>1, <3>2, SameKnowledge
    <3>4. Knows(frame[u], ProcessOf[u])'
      BY <3>1, <3>3 DEF Knows
    <3>5. QED
      BY <1>6, <3>1, <3>2, <3>3, <3>4 DEF Waits, RunsIn, Foreign
  <2>4. QED
    BY <2>2, <2>3
<1>12. LengthInv'
  <2>1. ~Doomed(frame[t], ProcessOf[t])
    BY <1>1, <1>3 DEF Doomed
  <2>2. \A f \in Files : Even(disk[f], count.failures)
    BY <1>3, <2>1, EvenUnderLock
  <2>3. QED
    BY <1>6, <2>2 DEF LengthInv
<1>13. CalmInv'
  <2>1. SUFFICES ASSUME Calm'
                 PROVE  /\ \A q \in Process, f \in Files : status'[q] = "open" => map'[q][f].open
                        /\ \A u \in Thread : Unharmed(frame[u], ProcessOf[u])'
    BY DEF CalmInv
  <2>2. Calm
    BY <1>6, <2>1 DEF Calm
  <2>3. /\ \A q \in Process, f \in Files : status[q] = "open" => map[q][f].open
        /\ \A u \in Thread : Unharmed(frame[u], ProcessOf[u])
    BY <2>2 DEF GrowthInv, CalmInv
  <2>4. ASSUME NEW u \in Thread PROVE Unharmed(frame[u], ProcessOf[u])'
    <3>1. CASE u = t
      BY <1>5, <1>3, <1>8, <3>1 DEF Unharmed, FollowsActive
    <3>2. CASE u # t
      <4>1. PICK x, q : x = frame[u] /\ x \in CallFrame /\ q = ProcessOf[u] /\ frame'[u] = x
        BY <1>8, <3>2
      <4>2. Unharmed(x, q)
        BY <2>3, <4>1
      <4>3. Unharmed(x, q)'
        BY <1>7, <4>1, <4>2, SameKnowledge
      <4>4. QED
        BY <4>1, <4>3 DEF Unharmed
    <3>3. QED
      BY <3>1, <3>2
  <2>5. QED
    BY <1>6, <2>3, <2>4
<1>14. QED
  BY <1>9, <1>10, <1>11, <1>12, <1>13 DEF GrowthInv

\* What a process leaves of the files when it goes: the tables keep their sizes, and
\* the files their lengths unless the lock is lost with it and nobody else is about
\* to map one.
SameHeads == \A f \in Files : /\ disk'[f].head.size = disk[f].head.size
                              /\ disk'[f].head.signature = disk[f].head.signature
SameLengths == \A f \in Files : disk'[f].len = disk[f].len
NobodyMaps(p) == \A u \in Thread : ProcessOf[u] # p => frame[u].pc # "openMap"

\* A process forgets its mappings, and none of its threads is in a call; whoever
\* held the lock there is dead.
LEMMA LeaveStep ==
    ASSUME IInv, IInv', GrowthInv, NEW p \in Process,
           UNCHANGED <<grower, selector, late>>,
           SameHeads, SameLengths \/ (spinLock' = DeadThread /\ NobodyMaps(p)),
           count' \in EventRecord, count'.failures = count.failures,
           NEW M \in [Files -> Mapping], map' = [map EXCEPT ![p] = M],
           \A f \in Files : ~M[f].open /\ MapOK(M[f], disk[f].head),
           status' = [status EXCEPT ![p] = "closed"],
           \A t \in Thread : IF ProcessOf[t] = p THEN frame'[t].pc = "idle" ELSE frame'[t] = frame[t],
           \/ spinLock' = spinLock
           \/ spinLock' = DeadThread /\ spinLock \in Thread /\ ProcessOf[spinLock] = p,
           \A t \in Thread : spinLock = t /\ ProcessOf[t] = p /\ frame[t].pc # "idle"
                               => spinLock' = DeadThread
    PROVE  GrowthInv'
<1>1. /\ frame \in [Thread -> CallFrame] /\ ProcessOf \in [Thread -> Process]
      /\ map \in [Process -> [Files -> Mapping]]
      /\ status \in [Process -> {"closed", "opening", "open"}]
      /\ selector \in Files
  BY ProcessOfAssumption DEF IInv, TypeInv
<1>2. /\ map'[p] = M /\ status'[p] = "closed"
      /\ \A q \in Process \ {p} : map'[q] = map[q] /\ status'[q] = status[q]
  BY <1>1
<1>2a. selector \in Files /\ 1 - selector \in Files /\ 0 \in Files /\ 1 \in Files
  BY <1>1, OtherFile DEF Files
<1>3. EventInv' /\ HeadInv'
  BY <1>2a DEF GrowthInv, EventInv, HeadInv, SameHeads
<1>4. MapInv'
  <2>1. SUFFICES ASSUME NEW q \in Process, NEW f \in Files PROVE Remembers(q, f)'
    BY DEF MapInv
  <2>2. CASE q = p
    BY <1>2, <2>2 DEF Remembers, MapOK, SameHeads
  <2>3. CASE q # p
    BY <1>2, <2>3 DEF GrowthInv, MapInv, Remembers, Foreign, SameHeads
  <2>4. QED
    BY <2>2, <2>3
<1>5. \A x : x.pc = "idle" => \A q : /\ RunsIn(x, status'[q]) /\ Knows(x, q)' /\ x.pc # "relock"
                                     /\ ~Doomed(x, q) /\ Unharmed(x, q)'
  BY DEF RunsIn, Knows, Doomed, Unharmed, OpenPC, FollowsActive
<1>7. ASSUME NEW u \in Thread, ProcessOf[u] # p, NEW x, x = frame[u], NEW q, q = ProcessOf[u]
      PROVE  /\ frame'[u] = x /\ x \in CallFrame /\ x.tab \in Files
             /\ status'[q] = status[q] /\ map'[q] = map[q]
             /\ (Knows(x, q) => Knows(x, q)') /\ (Foreign(q, x.tab)' <=> Foreign(q, x.tab))
             /\ (Unharmed(x, q) => Unharmed(x, q)')
             /\ (Doomed(x, q)' <=> Doomed(x, q))
  <2>1. /\ frame'[u] = x /\ x \in CallFrame
        /\ status'[q] = status[q] /\ map'[q] = map[q]
    BY <1>1, <1>2, <1>7
  <2>2. x.tab \in Files
    BY <2>1 DEF CallFrame, Locals
  <2>3. Knows(x, q) => Knows(x, q)'
    <3>1. x.pc = "openMap" => disk'[x.tab].len = disk[x.tab].len
      BY <1>7, <2>2 DEF SameLengths, NobodyMaps
    <3>2. 1 - x.tab \in Files
      BY <2>2, OtherFile
    <3>3. QED
      BY <1>2a, <2>1, <2>2, <3>1, <3>2 DEF Knows, SameHeads
  <2>4. Foreign(q, x.tab)' <=> Foreign(q, x.tab)
    BY DEF Foreign
  <2>5. Unharmed(x, q) => Unharmed(x, q)'
    BY <2>1, <2>4 DEF Unharmed
  <2>6. Doomed(x, q)' <=> Doomed(x, q)
    BY <2>1 DEF Doomed
  <2>7. QED
    BY <2>1, <2>2, <2>3, <2>4, <2>5, <2>6
<1>8. FrameInv'
  <2>1. SUFFICES ASSUME NEW u \in Thread
                 PROVE  /\ RunsIn(frame[u], status[ProcessOf[u]])'
                        /\ Knows(frame[u], ProcessOf[u])'
                        /\ Waits(frame[u], ProcessOf[u], spinLock = u)'
    BY DEF FrameInv
  <2>2. CASE ProcessOf[u] = p
    <3>1. PICK x : x = frame'[u] /\ x.pc = "idle"
      BY <2>2
    <3>2. QED
      BY <1>5, <3>1 DEF RunsIn, Knows, Waits
  <2>3. CASE ProcessOf[u] # p
    <3>1. PICK x, q : x = frame[u] /\ q = ProcessOf[u]
      OBVIOUS
    <3>2. RunsIn(x, status[q]) /\ Knows(x, q) /\ Waits(x, q, spinLock = u)
      BY <3>1 DEF GrowthInv, FrameInv
    <3>3. /\ frame'[u] = x /\ status'[q] = status[q]
          /\ Knows(x, q)' /\ (Foreign(q, x.tab)' <=> Foreign(q, x.tab))
      BY <1>7, <2>3, <3>1, <3>2
    <3>4. spinLock' = u => spinLock = u
      BY ThreadAssumption
    <3>5. Knows(frame[u], ProcessOf[u])'
      BY <3>1, <3>3 DEF Knows
    <3>6. QED
      BY <3>1, <3>2, <3>3, <3>4, <3>5 DEF Waits, RunsIn, Foreign
  <2>4. QED
    BY <2>2, <2>3
<1>9. LengthInv'
  <2>1. CASE spinLock = DeadThread
    <3>1. spinLock' = DeadThread
      BY <2>1, ThreadAssumption
    <3>2. QED
      BY <3>1 DEF LengthInv, LockLost
  <2>2. CASE \E u \in Thread : spinLock = u /\ Doomed(frame[u], ProcessOf[u])
    <3>1. PICK u \in Thread : spinLock = u /\ Doomed(frame[u], ProcessOf[u])
      BY <2>2
    <3>2. CASE ProcessOf[u] = p
      <4>1. frame[u].pc # "idle"
        BY <3>1 DEF Doomed
      <4>2. spinLock' = DeadThread
        BY <3>1, <3>2, <4>1
      <4>3. QED
        BY <4>2 DEF LengthInv, LockLost
    <3>3. CASE ProcessOf[u] # p
      <4>1. PICK x, q : x = frame[u] /\ q = ProcessOf[u]
        OBVIOUS
      <4>2. frame'[u] = x /\ (Doomed(x, q)' <=> Doomed(x, q))
        BY <1>7, <3>3, <4>1
      <4>3. Doomed(x, q)'
        BY <3>1, <4>1, <4>2
      <4>4. Doomed(frame[u], ProcessOf[u])'
        BY <4>1, <4>2, <4>3 DEF Doomed
      <4>5. spinLock' = u
        BY <3>1, <3>3
      <4>6. QED
        BY <4>4, <4>5 DEF LengthInv, LockLost
    <3>4. QED
      BY <3>2, <3>3
  <2>3. CASE \A f \in Files : Even(disk[f], count.failures)
    <3>1. CASE SameLengths
      <4>1. \A f \in Files : Even(disk'[f], count'.failures)
        BY <2>3, <3>1 DEF Even, Shaped, SameHeads, SameLengths
      <4>2. QED
        BY <4>1 DEF LengthInv
    <3>2. CASE spinLock' = DeadThread
      BY <3>2 DEF LengthInv, LockLost
    <3>3. QED
      BY <3>1, <3>2
  <2>4. QED
    BY <2>1, <2>2, <2>3 DEF GrowthInv, LengthInv, LockLost
<1>10. CalmInv'
  <2>1. SUFFICES ASSUME Calm'
                 PROVE  /\ \A q \in Process, f \in Files : status'[q] = "open" => map'[q][f].open
                        /\ \A u \in Thread : Unharmed(frame[u], ProcessOf[u])'
    BY DEF CalmInv
  <2>2. Calm
    BY <2>1 DEF Calm
  <2>3. /\ \A q \in Process, f \in Files : status[q] = "open" => map[q][f].open
        /\ \A u \in Thread : Unharmed(frame[u], ProcessOf[u])
    BY <2>2 DEF GrowthInv, CalmInv
  <2>4. \A q \in Process, f \in Files : status'[q] = "open" => map'[q][f].open
    BY <1>2, <2>3
  <2>5. ASSUME NEW u \in Thread PROVE Unharmed(frame[u], ProcessOf[u])'
    <3>1. CASE ProcessOf[u] = p
      <4>1. PICK x : x = frame'[u] /\ x.pc = "idle"
        BY <3>1
      <4>2. QED
        BY <1>5, <4>1 DEF Unharmed
    <3>2. CASE ProcessOf[u] # p
      <4>1. PICK x, q : x = frame[u] /\ q = ProcessOf[u]
        OBVIOUS
      <4>2. frame'[u] = x /\ Unharmed(x, q)'
        BY <1>7, <2>3, <3>2, <4>1
      <4>3. QED
        BY <4>1, <4>2 DEF Unharmed
    <3>3. QED
      BY <3>1, <3>2
  <2>6. QED
    BY <2>4, <2>5
<1>11. QED
  BY <1>3, <1>4, <1>8, <1>9, <1>10 DEF GrowthInv

LEMMA CloseGrows ==
    ASSUME IInv, IInv', GrowthInv, NEW p \in Process, Close(p)
    PROVE  GrowthInv'
<1>1. /\ UNCHANGED <<disk, grower, selector, spinLock, frame, late, count>>
      /\ \A t \in Thread : ProcessOf[t] = p => frame[t].pc = "idle"
      /\ status' = [status EXCEPT ![p] = "closed"]
      /\ map' = [map EXCEPT ![p] = [f \in Files |-> [@[f] EXCEPT !.open = FALSE, !.age = 0]]]
  BY DEF Close, P, At
<1>2. map \in [Process -> [Files -> Mapping]]
  BY DEF IInv, TypeInv
<1>3. PICK m : m = [f \in Files |-> [map[p][f] EXCEPT !.open = FALSE, !.age = 0]]
  OBVIOUS
<1>4. ASSUME NEW f \in Files PROVE m[f] \in Mapping /\ ~m[f].open /\ MapOK(m[f], disk[f].head)
  <2>1. PICK b \in Mapping : b = map[p][f]
    BY <1>2
  <2>2. PICK e : e = [b EXCEPT !.open = FALSE, !.age = 0]
    OBVIOUS
  <2>3. e \in Mapping /\ ~e.open /\ e.size = b.size
    BY <2>2 DEF Mapping
  <2>4. m[f] = e
    BY <1>3, <2>1, <2>2
  <2>5. MapOK(b, disk[f].head)
    BY <2>1 DEF GrowthInv, MapInv, Remembers, MapOK
  <2>6. QED
    BY <2>3, <2>4, <2>5 DEF MapOK
<1>5. m \in [Files -> Mapping]
  BY <1>3, <1>4
<1>6. map' = [map EXCEPT ![p] = m]
  BY <1>1, <1>2, <1>3
<1>7. count' \in EventRecord /\ count'.failures = count.failures
  BY <1>1 DEF GrowthInv, EventInv
<1>8. /\ \A t \in Thread : IF ProcessOf[t] = p THEN frame'[t].pc = "idle" ELSE frame'[t] = frame[t]
      /\ \A t \in Thread : spinLock = t /\ ProcessOf[t] = p /\ frame[t].pc # "idle"
                            => spinLock' = DeadThread
      /\ \A f \in Files : ~m[f].open /\ MapOK(m[f], disk[f].head)
  BY <1>1, <1>4
<1>9. UNCHANGED <<grower, selector, late>> /\ spinLock' = spinLock /\ SameHeads /\ SameLengths
  BY <1>1 DEF SameHeads, SameLengths
<1>10. status' = [status EXCEPT ![p] = "closed"]
  BY <1>1
<1>11. QED
  BY <1>5, <1>6, <1>7, <1>8, <1>9, <1>10, LeaveStep

LEMMA DiesGrows ==
    ASSUME IInv, IInv', GrowthInv, NEW p \in Process, Dies(p),
           SameHeads, SameLengths \/ (spinLock' = DeadThread /\ NobodyMaps(p)),
           count' \in EventRecord, count'.failures = count.failures
    PROVE  GrowthInv'
<1>1. /\ UNCHANGED <<grower, selector, late>>
      /\ status' = [status EXCEPT ![p] = "closed"]
      /\ map' = [map EXCEPT ![p] = [f \in Files |-> Unmapped]]
      /\ spinLock' = IF spinLock \in Thread /\ ProcessOf[spinLock] = p THEN DeadThread ELSE spinLock
      /\ frame' = [t \in Thread |-> IF ProcessOf[t] = p THEN NoCall ELSE frame[t]]
  BY DEF Dies, P
<1>2. Unmapped \in Mapping /\ ~Unmapped.open /\ Unmapped.size = 0
  BY DEF Unmapped, Mapping
<1>3. PICK m : m = [f \in Files |-> Unmapped]
  OBVIOUS
<1>4. ASSUME NEW f \in Files PROVE ~m[f].open /\ MapOK(m[f], disk[f].head)
  <2>1. disk[f].head.size \in Nat
    BY DEF IInv, TypeInv, DataFile, Header
  <2>2. QED
    BY <1>2, <1>3, <2>1 DEF MapOK
<1>5. m \in [Files -> Mapping] /\ map' = [map EXCEPT ![p] = m]
  BY <1>1, <1>2, <1>3
<1>6. NoCall.pc = "idle"
  BY DEF NoCall
<1>7. \A t \in Thread : IF ProcessOf[t] = p THEN frame'[t].pc = "idle" ELSE frame'[t] = frame[t]
  BY <1>1, <1>6
<1>8. /\ \/ spinLock' = spinLock
         \/ spinLock' = DeadThread /\ spinLock \in Thread /\ ProcessOf[spinLock] = p
      /\ \A t \in Thread : spinLock = t /\ ProcessOf[t] = p => spinLock' = DeadThread
  BY <1>1
<1>9. QED
  BY <1>1, <1>4, <1>5, <1>7, <1>8, LeaveStep

LEMMA DiesAloneGrows ==
    ASSUME IInv, IInv', GrowthInv, NEW p \in Process, Dies(p), UNCHANGED disk,
           count' \in EventRecord, count'.failures = count.failures
    PROVE  GrowthInv'
<1>1. SameHeads /\ SameLengths
  BY DEF SameHeads, SameLengths
<1>2. QED
  BY <1>1, DiesGrows

LEMMA Events ==
    ASSUME GrowthInv, NEW e \in {"kills", "faults"}, Counted(e)
    PROVE  count' \in EventRecord /\ count'.failures = count.failures
BY DEF GrowthInv, EventInv, EventRecord, Counted

\* A growth that writes behind the mapping makes the file longer, never shorter.
LEMMA OverrunLengthens ==
    ASSUME IInv, GrowthInv, NEW t \in Thread, Overrun(t)
    PROVE  /\ SameHeads
           /\ \A f \in Files : disk[f].len <= disk'[f].len
<1>1. /\ frame[t].pc \in {"openMap", "grow", "extend"} /\ spinLock = t
      /\ Remapped(t) \in Files /\ NewSize(t) \in Nat
      /\ disk[Remapped(t)].head.signature /\ disk[Remapped(t)].head.size < NewSize(t)
  BY OverrunIs
<1>2. PICK f \in Files, n \in Nat : f = Remapped(t) /\ n = NewSize(t)
  BY <1>1
<1>3. disk \in [Files -> DataFile] /\ disk[f].head.size \in Nat /\ disk[f].len \in Nat
  BY DEF IInv, TypeInv, DataFile, Header
<1>4. PICK h : h = [disk[f].head EXCEPT !.stuck = TRUE]
  OBVIOUS
<1>5. h.size = disk[f].head.size /\ h.signature = disk[f].head.signature
  BY <1>3, <1>4 DEF DataFile, Header
<1>6. PICK b : b = [disk[f] EXCEPT !.len = n, !.head = h]
  OBVIOUS
<1>7. b.len = n /\ b.head = h
  BY <1>3, <1>6 DEF DataFile
<1>8. disk' = [disk EXCEPT ![f].len = n, ![f].head.stuck = TRUE]
  BY <1>2 DEF Overrun
<1>9. disk' = [disk EXCEPT ![f] = b]
  BY <1>3, <1>4, <1>6, <1>8 DEF DataFile
<1>10. disk'[f] = b /\ \A g \in Files \ {f} : disk'[g] = disk[g]
  BY <1>3, <1>9
<1>11. SameHeads
  BY <1>5, <1>7, <1>10 DEF SameHeads
<1>12. disk[f].len <= n
  <2>1. CASE frame[t].pc = "openMap"
    <3>1. frame[t].seen = disk[frame[t].tab].len
      BY <2>1 DEF GrowthInv, FrameInv, Knows
    <3>2. n = frame[t].seen /\ f = frame[t].tab
      BY <1>2, <2>1 DEF NewSize, Remapped, At
    <3>3. QED
      BY <1>3, <3>1, <3>2
  <2>2. CASE frame[t].pc # "openMap"
    <3>1. ~LockLost
      <4>1. ~Doomed(frame[t], ProcessOf[t])
        BY <1>1, <2>2 DEF Doomed
      <4>2. QED
        BY <1>1, <4>1, ThreadAssumption DEF LockLost
    <3>2. Even(disk[f], count.failures)
      BY <3>1 DEF GrowthInv, LengthInv
    <3>3. disk[f].len <= disk[f].head.size
      BY <1>1, <1>2, <3>2 DEF Even, Shaped
    <3>4. QED
      BY <1>1, <1>2, <1>3, <3>3
  <2>3. QED
    BY <2>1, <2>2
<1>13. \A g \in Files : disk[g].len \in Nat
  BY <1>3 DEF DataFile
<1>14. \A g \in Files : disk[g].len <= disk'[g].len
  BY <1>7, <1>10, <1>12, <1>13
<1>15. QED
  BY <1>11, <1>14

LEMMA OverrunGrows ==
    ASSUME IInv, IInv', GrowthInv, NEW t \in Thread, Overrun(t)
    PROVE  GrowthInv'
<1>1. frame[t].pc \in {"openMap", "grow", "extend"} /\ spinLock = t
  BY OverrunIs
<1>2. PICK p \in Process : p = ProcessOf[t]
  BY ProcessOfAssumption
<1>3. Dies(p) /\ count' \in EventRecord /\ count'.failures = count.failures
  BY <1>2, Events DEF Overrun, P
<1>4. spinLock' = DeadThread
  BY <1>1, <1>2, <1>3 DEF Dies, P
<1>5. NobodyMaps(p)
  <2>1. SUFFICES ASSUME NEW u \in Thread, ProcessOf[u] # p, frame[u].pc = "openMap" PROVE FALSE
    BY DEF NobodyMaps
  <2>2. spinLock = u
    BY <2>1 DEF IInv, ThreadInv, Holds, OpenPC
  <2>3. QED
    BY <1>1, <1>2, <2>1, <2>2
<1>6. QED
  BY <1>3, <1>4, <1>5, OverrunLengthens, DiesGrows

-----------------------------------------------------------------------------
(* The invariant holds.                                                    *)

LEMMA InitGrows == Init => GrowthInv
<1> SUFFICES ASSUME Init PROVE GrowthInv
  OBVIOUS
<1>1. InitialSize \in Nat \ {0}
  BY InitialSizeAssumption
<1>2. /\ map = [p \in Process |-> [f \in Files |-> Unmapped]]
      /\ status = [p \in Process |-> "closed"]
      /\ selector = 0 /\ spinLock = NoThread
      /\ frame = [t \in Thread |-> NoCall]
      /\ count = [opens |-> 0, calls |-> 0, kills |-> 0, faults |-> 0, failures |-> 0,
                  timeouts |-> 0]
      /\ grower = [f \in Files |-> NoProcess]
  BY DEF Init
<1>3. PICK a \in DataFile, b \in DataFile :
        /\ disk = Disk(a, b)
        /\ b.head.size <= a.head.size /\ a.len = a.head.size /\ b.len = b.head.size
        /\ a.head.signature = b.head.signature
        /\ IF b.head.signature THEN InitialSize <= a.head.size ELSE a.head.size = 0
        /\ b.head.size = IF b.head.signature THEN InitialSize ELSE 0
  <2>1. Blank \in Header /\ Blank.signature = FALSE /\ Blank.size = 0
    BY BlankIs
  <2>2. CASE disk = Disk(NoFile, NoFile)
    <3>1. NoFile \in DataFile /\ NoFile.head = Blank /\ NoFile.len = 0
      BY <2>1 DEF NoFile, DataFile
    <3>2. QED
      BY <2>1, <2>2, <3>1
  <2>3. CASE \E x \in LeftTables : disk = Disk(FullTable(x.size, x.live), EmptyTable)
    <3>1. PICK x \in LeftTables : disk = Disk(FullTable(x.size, x.live), EmptyTable)
      BY <2>3
    <3>1a. /\ x.size \in Nat /\ x.live \in SUBSET Key /\ Cardinality(x.live) <= x.size
           /\ IsFiniteSet(x.live) /\ InitialSize <= x.size
      BY KeyAssumption, LeftTablesAssumption, FS_Subset
    <3>1b. x.size - Cardinality(x.live) \in Nat
      BY <3>1a, FS_CardinalityType
    <3>1c. PICK n \in Nat, L \in SUBSET Key, w \in Nat :
             n = x.size /\ L = x.live /\ w = n - Cardinality(L)
      BY <3>1a, <3>1b
    <3>2. PICK g : g = [Blank EXCEPT !.signature = TRUE, !.size = InitialSize]
      OBVIOUS
    <3>3. g \in Header /\ g.signature = TRUE /\ g.size = InitialSize
      BY <1>1, <3>2, FreshIs
    <3>4. PICK h : h = [Blank EXCEPT !.signature = TRUE, !.size = n, !.live = L, !.used = n,
                                     !.wasted = w]
      OBVIOUS
    <3>5. h \in Header /\ h.signature = TRUE /\ h.size = n
      <4>1. PICK e : e = Blank
        OBVIOUS
      <4>2. e \in Header
        BY <2>1, <4>1
      <4>3. h = [e EXCEPT !.signature = TRUE, !.size = n, !.live = L, !.used = n, !.wasted = w]
        BY <3>4, <4>1
      <4>4. QED
        BY <4>2, <4>3 DEF Header
    <3>6. PICK c, e : c = FullTable(x.size, x.live) /\ e = EmptyTable
      OBVIOUS
    <3>7. c = [len |-> n, head |-> h] /\ e = [len |-> InitialSize, head |-> g]
      BY <3>1c, <3>2, <3>4, <3>6 DEF FullTable, EmptyTable
    <3>8. /\ c \in DataFile /\ c.head = h /\ c.len = n
          /\ e \in DataFile /\ e.head = g /\ e.len = InitialSize
      BY <1>1, <3>3, <3>5, <3>7 DEF DataFile
    <3>9. QED
      BY <3>1, <3>1a, <3>1c, <3>3, <3>5, <3>6, <3>8
  <2>4. QED
    BY <2>2, <2>3 DEF Init
<1>4. /\ disk[0] = a /\ disk[1] = b /\ Files = {0, 1}
      /\ a.head.size \in Nat /\ b.head.size \in Nat
      /\ a.head.signature \in BOOLEAN /\ b.head.signature \in BOOLEAN
  BY <1>3 DEF Disk, Files, DataFile, Header
<1>5. Unmapped.size = 0 /\ ~Unmapped.open
  BY DEF Unmapped
<1>6. /\ \A p \in Process, f \in Files : map[p][f] = Unmapped
      /\ \A t \in Thread : frame[t] = NoCall
      /\ \A p \in Process : status[p] = "closed"
      /\ NoCall.pc = "idle"
  BY <1>2 DEF NoCall
<1>7. EventInv
  BY <1>2 DEF EventInv, EventRecord
<1>8. HeadInv
  <2>1. \A f \in Files : disk[f].head.signature => InitialSize <= disk[f].head.size
    BY <1>1, <1>3, <1>4
  <2>2. disk[1 - selector].head.size <= disk[selector].head.size
    BY <1>2, <1>3, <1>4
  <2>3. QED
    BY <1>2, <2>1, <2>2 DEF HeadInv
<1>9. MapInv
  <2>1. \A f \in Files : disk[f].head.size \in Nat
    BY <1>4
  <2>2. QED
    BY <1>5, <1>6, <2>1 DEF MapInv, Remembers
<1>10. FrameInv
  BY <1>6 DEF FrameInv, RunsIn, Knows, Waits, OpenPC
<1>11. LengthInv
  <2>1. ASSUME NEW f \in Files PROVE Even(disk[f], count.failures)
    <3>1. disk[f].len = disk[f].head.size
      BY <1>3, <1>4
    <3>2. Shaped(disk[f])
      <4>1. Shaped(a)
        BY <1>1, <1>3, <1>4 DEF Shaped
      <4>2. Shaped(b)
        BY <1>1, <1>3, <1>4 DEF Shaped
      <4>3. QED
        BY <1>4, <4>1, <4>2
    <3>3. QED
      BY <3>1, <3>2 DEF Even
  <2>2. QED
    BY <2>1 DEF LengthInv
<1>12. CalmInv
  BY <1>6 DEF CalmInv, Unharmed, FollowsActive
<1>13. QED
  BY <1>7, <1>8, <1>9, <1>10, <1>11, <1>12 DEF GrowthInv

LEMMA CallGrows ==
    ASSUME IInv, IInv', GrowthInv, NEW t \in Thread, Call(t)
    PROVE  GrowthInv'
BY BeginGrows DEF Call, CallSet, CallDelete, CallRead

LEMMA StutterGrows ==
    ASSUME GrowthInv, UNCHANGED vars
    PROVE  GrowthInv'
<1>1. UNCHANGED <<disk, map, grower, status, selector, spinLock, frame, count, late>>
  BY DEF vars, files
<1>2. EventInv' /\ HeadInv' /\ MapInv'
  BY <1>1 DEF GrowthInv, EventInv, HeadInv, MapInv, Remembers, Foreign
<1>3. FrameInv'
  BY <1>1 DEF GrowthInv, FrameInv, RunsIn, Knows, Waits, Foreign
<1>4. LengthInv'
  BY <1>1 DEF GrowthInv, LengthInv, LockLost, Doomed
<1>5. CalmInv'
  BY <1>1 DEF GrowthInv, CalmInv, Calm, Unharmed, Foreign
<1>6. QED
  BY <1>2, <1>3, <1>4, <1>5 DEF GrowthInv

LEMMA NextGrows == IInv /\ IInv' /\ GrowthInv /\ [Next]_vars => GrowthInv'
<1> SUFFICES ASSUME IInv, IInv', GrowthInv, [Next]_vars PROVE GrowthInv'
  OBVIOUS
<1>1. CASE UNCHANGED vars
  BY <1>1, StutterGrows
<1>2. ASSUME NEW t \in Thread, OpenSync(t) \/ Call(t) PROVE GrowthInv'
  BY <1>2, OpenSyncGrows, CallGrows
<1>3. ASSUME NEW t \in Thread, Fault(t) PROVE GrowthInv'
  <2>1. ProcessOf[t] \in Process
    BY ProcessOfAssumption
  <2>2. Dies(ProcessOf[t]) /\ Counted("faults") /\ UNCHANGED disk
    BY <1>3 DEF Fault, P
  <2>3. QED
    BY <2>1, <2>2, Events, DiesAloneGrows
<1>4. ASSUME NEW t \in Thread, BeginRead(t) \/ FindTable(t) \/ UseTable(t) PROVE GrowthInv'
  BY <1>4, LoadStateGrows, EnterSyncGrows, ActiveTableGrows, RelockGrows, RecheckGrows,
     TestReadOnlyGrows, EnterTableGrows, OperateGrows, LeaveSyncGrows
     DEF BeginRead, FindTable, UseTable
<1>5. ASSUME NEW t \in Thread, Maintain(t) PROVE GrowthInv'
  BY <1>5, LockForSetGrows, BeginWriteGrows, WaitForNoReaderGrows, PlanGrows, GrowGrows,
     ExtendGrows, ConstructInactiveGrows, SetReadOnlyGrows, CopyToInactiveGrows,
     FlipSelectorGrows, EndWriteGrows, ReleaseGrows DEF Maintain
<1>6. ASSUME NEW t \in Thread, OpenSize(t) \/ OpenMap(t) \/ OpenUnlock(t) PROVE GrowthInv'
  BY <1>6, OpenSizeGrows, OpenMapGrows, OpenUnlockGrows
<1>7. ASSUME NEW p \in Process, Close(p) \/ Kill(p) PROVE GrowthInv'
  BY <1>7, CloseGrows, DiesAloneGrows, Events DEF Kill
<1>8. QED
  BY <1>1, <1>2, <1>3, <1>4, <1>5, <1>6, <1>7, OverrunGrows DEF Next, Step

\* The invariant holds in every reachable state: what the processes remember of
\* the files, and what their threads point into, fits the files themselves.
THEOREM GrowthInvariant == Spec => []GrowthInv
<1>1. Init => IInv /\ GrowthInv
  BY InitInv, InitGrows
<1>2. IInv /\ GrowthInv /\ [Next]_vars => IInv' /\ GrowthInv'
  BY NextInv, NextGrows
<1>3. QED
  BY <1>1, <1>2, PTL DEF Spec

-----------------------------------------------------------------------------
(* No file is cut short.                                                   *)

LEMMA HeadKeepsLength ==
    ASSUME IInv, NEW f \in Files, NEW h, WithHead(f, h)
    PROVE  \A e \in Files : disk'[e].len = disk[e].len
<1>1. disk \in [Files -> DataFile] /\ disk' = [disk EXCEPT ![f].head = h]
  BY DEF IInv, TypeInv, WithHead
<1>2. PICK g \in DataFile : g = disk[f]
  BY <1>1
<1>3. disk' = [disk EXCEPT ![f] = [g EXCEPT !.head = h]]
  BY <1>1, <1>2
<1>4. [g EXCEPT !.head = h].len = g.len
  BY DEF DataFile
<1>5. PICK x : x = [g EXCEPT !.head = h]
  OBVIOUS
<1>6. disk'[f] = x /\ \A e \in Files \ {f} : disk'[e] = disk[e]
  BY <1>1, <1>3, <1>5
<1>7. QED
  BY <1>2, <1>4, <1>5, <1>6

Cut == \E f \in Files : disk'[f].len < disk[f].len

LEMMA OnlyOpenMapCuts ==
    ASSUME IInv, IInv', GrowthInv, [Next]_vars, Cut
    PROVE  count'.failures > 0 /\ \E t \in Thread : At(t, "openMap")
<1>1. \A f \in Files : disk[f].len \in Nat /\ disk'[f].len \in Nat
  BY DEF IInv, TypeInv, DataFile
<1>2. ~(UNCHANGED disk) /\ ~(\A f \in Files : disk[f].len <= disk'[f].len)
  BY <1>1 DEF Cut
<1>3. ASSUME NEW t \in Thread PROVE frame[t].tab \in Files /\ Other(t) \in Files
  BY OtherFile DEF IInv, TypeInv, CallFrame, Locals, Other
<1>4. ASSUME NEW t \in Thread,
             EnterTable(t) \/ Operate(t) \/ ConstructInactive(t) \/ SetReadOnly(t) \/ CopyToInactive(t)
      PROVE  FALSE
  <2>1. \/ \E f \in Files : \E h : WithHead(f, h)
        \/ UNCHANGED disk
    <3>1. ASSUME EnterTable(t) PROVE \E f \in Files : \E h : WithHead(f, h)
      BY <1>3, <3>1 DEF EnterTable
    <3>2. ASSUME Operate(t) PROVE \E f \in Files : \E h : WithHead(f, h)
      BY <1>3, <3>2 DEF Operate
    <3>3. ASSUME ConstructInactive(t) PROVE \E f \in Files : \E h : WithHead(f, h)
      BY <1>3, <3>3 DEF ConstructInactive
    <3>4. ASSUME SetReadOnly(t) PROVE (\E f \in Files : \E h : WithHead(f, h)) \/ UNCHANGED disk
      BY <1>3, <3>4 DEF SetReadOnly
    <3>5. ASSUME CopyToInactive(t) PROVE \E f \in Files : \E h : WithHead(f, h)
      BY <1>3, <3>5 DEF CopyToInactive
    <3>6. QED
      BY <1>4, <3>1, <3>2, <3>3, <3>4, <3>5
  <2>2. UNCHANGED disk \/ \A e \in Files : disk'[e].len = disk[e].len
    BY <2>1, HeadKeepsLength
  <2>3. QED
    BY <1>1, <1>2, <2>2
<1>5. ASSUME NEW t \in Thread, Recheck(t) \/ Grow(t) \/ Extend(t) PROVE FALSE
  BY <1>2, <1>5, RecheckGrows, GrowGrows, ExtendGrows
<1>6. ASSUME NEW t \in Thread, OpenMap(t)
      PROVE  count'.failures > 0 /\ At(t, "openMap")
  <2>1. count'.failures # 0 /\ At(t, "openMap")
    BY <1>2, <1>6, OpenMapGrows DEF OpenMap
  <2>2. count'.failures \in Nat
    <3>1. GrowthInv'
      BY <1>6, OpenMapGrows
    <3>2. QED
      BY <3>1 DEF GrowthInv, EventInv, EventRecord
  <2>3. QED
    BY <2>1, <2>2
<1>7. ASSUME NEW t \in Thread, OpenSync(t) \/ Call(t) \/ Fault(t) \/ OpenSize(t) \/ OpenUnlock(t)
             \/ BeginRead(t)
      PROVE  FALSE
  BY <1>2, <1>7 DEF OpenSync, Call, CallSet, CallDelete, CallRead, Begin, Fault, OpenSize,
     OpenUnlock, BeginRead, LoadState, EnterSync, files
<1>8. ASSUME NEW t \in Thread, ActiveTable(t) \/ Relock(t) \/ TestReadOnly(t) \/ LeaveSync(t)
             \/ LockForSet(t) \/ BeginWrite(t) \/ WaitForNoReader(t) \/ Plan(t)
             \/ FlipSelector(t) \/ EndWrite(t) \/ Release(t)
      PROVE  FALSE
  BY <1>2, <1>8 DEF ActiveTable, Relock, TestReadOnly, LeaveSync, LockForSet, BeginWrite,
     WaitForNoReader, Plan, FlipSelector, EndWrite, Release, files
<1>9. ASSUME NEW p \in Process, Close(p) \/ Kill(p) PROVE FALSE
  BY <1>2, <1>9 DEF Close, Kill
<1>9a. ASSUME NEW t \in Thread, Overrun(t) PROVE FALSE
  BY <1>2, <1>9a, OverrunLengthens
<1>10. ~(UNCHANGED vars)
  BY <1>2 DEF vars, files
<1>11. PICK t \in Thread : OpenMap(t)
  BY <1>4, <1>5, <1>7, <1>8, <1>9, <1>9a, <1>10 DEF Next, Step, FindTable, UseTable, Maintain
<1>12. QED
  BY <1>6, <1>11

\* A file that processes have mapped is never cut short, whoever reads, compares
\* and sets its length in whatever order, but by Initialize after its first attempt
\* to map the file failed.
THEOREM FilesNeverShrinkThm == Spec => FilesNeverShrink
<1>1. IInv /\ IInv' /\ GrowthInv /\ [Next]_vars
        => [\A f \in Files : disk'[f].len < disk[f].len =>
               count'.failures > 0 /\ \E t \in Thread : At(t, "openMap")]_disk
  BY OnlyOpenMapCuts DEF Cut
<1>2. QED
  BY <1>1, TableInvariant, GrowthInvariant, PTL DEF Spec, FilesNeverShrink

\* A Set that waits for the lock it holds, and, until a reader slips in or a call
\* of the system fails, a pointer without its memory, mean that another process
\* has changed the size of the table.
THEOREM HarmNeedsForeignGrowthThm == Spec => []HarmNeedsForeignGrowth
<1>1. IInv /\ GrowthInv => HarmNeedsForeignGrowth
  <2> SUFFICES ASSUME IInv, GrowthInv, NEW t \in Thread,
                      \/ WaitsForItself(t)
                      \/ Calm /\ Dangling(t)
               PROVE  Foreign(ProcessOf[t], frame[t].tab)
    BY DEF HarmNeedsForeignGrowth, Foreign, Calm, P
  <2>1. PICK d, p : d = frame[t] /\ p = ProcessOf[t]
    OBVIOUS
  <2>2. /\ d.tab \in Files /\ 1 - d.tab \in Files /\ RunsIn(d, status[p])
        /\ d.pc = "relock" /\ spinLock = t => Foreign(p, d.tab)
        /\ Calm => Unharmed(d, p) /\ (status[p] = "open" => \A f \in Files : map[p][f].open)
    BY <2>1, AtHand
  <2>3. CASE WaitsForItself(t)
    BY <2>1, <2>2, <2>3 DEF WaitsForItself, At
  <2>4. CASE Calm /\ Dangling(t)
    <3>1. d.pc \in FollowsActive \cup FollowsInactive => map[p][d.tab].open /\ map[p][1 - d.tab].open
      BY <2>2, <2>4 DEF RunsIn, OpenPC, FollowsActive, FollowsInactive
    <3>2. d.pc # "lost"
      BY <2>2, <2>4 DEF Unharmed
    <3>3. d.pc \in FollowsActive /\ d.age # map[p][d.tab].age
      BY <2>1, <2>4, <3>1, <3>2 DEF Dangling, At, Usable, IsStale, Other, P
    <3>4. QED
      BY <2>1, <2>2, <2>4, <3>3 DEF Unharmed
  <2>5. QED
    BY <2>3, <2>4
<1>2. QED
  BY <1>1, TableInvariant, GrowthInvariant, PTL
=============================================================================
