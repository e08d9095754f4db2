----------------------------- MODULE TableFiles -----------------------------
(***************************************************************************)
(* The files that hold the two tables of a Table, as TableFile.c,          *)
(* FileMapping.c and the exclusive operations of SortedTable.c see them.   *)
(*                                                                         *)
(* A file is its length and the header of the table inside it; a mapping   *)
(* is one process's view of it: the size TableFile remembers, whether its  *)
(* table pointer may be used, and an age that changes whenever the memory  *)
(* is mapped anew, so that pointers into the old memory can be told apart. *)
(*                                                                         *)
(* Memory is counted in records: a table of size n has room for n of them, *)
(* "used" counts those ever written, "live" holds the keys slots lead to,  *)
(* "wasted" is the table's own count of records that no slot leads to.     *)
(*                                                                         *)
(* An operation that the operating system may fail is the set of its       *)
(* possible outcomes; "io" marks those in which a call of it failed.       *)
(***************************************************************************)
EXTENDS Integers, FiniteSets

CONSTANTS
    Key,          \* keys of records
    WideSize      \* the size, 4 GiB, from which a slot takes 8 bytes instead of 4

ASSUME KeyAssumption == IsFiniteSet(Key) /\ Key \subseteq Int
ASSUME WideSizeAssumption == WideSize \in Nat

\* A header of zero bytes, as a new file has. A table is stuck once a growth has
\* died inside its write session: its state stays odd. That thread had the spin
\* lock of the Table and keeps it, so no other operation of this module follows.
Blank == [signature |-> FALSE, size |-> 0, live |-> {}, used |-> 0, wasted |-> 0,
          readOnly |-> FALSE, readers |-> 0, stuck |-> FALSE]

NoFile == [len |-> 0, head |-> Blank]

Unmapped == [size |-> 0, open |-> FALSE, age |-> 0]

\* A growth that makes the slots of a table wider. Sizes double from 1 GiB, so this
\* is the only width they cross.
Widens(head, size) == head.signature /\ head.size < WideSize /\ WideSize <= size

LowerHalf(keys) == {k \in keys : 2 * Cardinality({j \in keys : j <= k}) <= Cardinality(keys)}

\* SortedTable.Reinterpret: a larger buffer needs a table without readers; it
\* gives up when they do not leave in time. The index begins where slots of the old
\* width would begin, so of wider ones the header counts half (module IndexGrowth).
\* A buffer that is at least twice as large never has the index move down, the case
\* that _CopyArray refuses.
Reinterpret(head, size) ==
    IF size > head.size /\ head.readers = 0
    THEN [ok |-> TRUE,
          head |-> [head EXCEPT !.size = size,
                                !.live = IF Widens(head, size) THEN LowerHalf(@) ELSE @]]
    ELSE [ok |-> size = head.size, head |-> head]

\* More than two wide slots do not fit between that begin and the end of the
\* mapping: the copy, which begins with the last one, writes behind it.
Overruns(head, size) ==
    head.readers = 0 /\ Widens(head, size) /\ Cardinality(head.live) > 2

\* SortedTable.Construct: with the signature in place and no force the table is
\* kept; otherwise its header is zeroed, its counter of readers included, before
\* the wait for readers that guards the rest.
Construct(head, size, force) ==
    IF head.signature /\ ~force
    THEN Reinterpret(head, size)
    ELSE [ok |-> TRUE, head |-> [Blank EXCEPT !.signature = TRUE, !.size = size]]

\* FileMapping.Initialize for a writable file: allocate, cut or extend it to the
\* size, map it. A failure leaves the file with its old or its new length.
FileMappingInitialize(file, size) ==
    IF size = 0 THEN {[ok |-> FALSE, io |-> FALSE, file |-> file]}
    ELSE {[ok |-> TRUE, io |-> FALSE, file |-> [file EXCEPT !.len = size]]}
         \cup {[ok |-> FALSE, io |-> TRUE, file |-> [file EXCEPT !.len = n]] : n \in {file.len, size}}

\* The part that TableFile.Initialize and ExtendSizeTo share: map, construct,
\* and remember the size only if both succeeded.
MapTable(m, file, size) ==
    LET Mapped(o) ==
          LET c == Construct(o.file.head, size, FALSE)
              lost == [m EXCEPT !.open = FALSE, !.age = @ + 1]
          IN  IF o.ok
              THEN [ok |-> c.ok, io |-> o.io, file |-> [o.file EXCEPT !.head = c.head],
                    map |-> IF c.ok THEN [size |-> size, open |-> TRUE, age |-> m.age + 1]
                            ELSE lost]
              ELSE [ok |-> FALSE, io |-> o.io, file |-> o.file, map |-> lost]
    IN  {Mapped(o) : o \in FileMappingInitialize(file, size)}

\* Mutant of ExtendSizeTo: the new size is not remembered.
ExtendSizeToForgotten(m, file, size) ==
    IF m.size >= size THEN {[ok |-> FALSE, io |-> FALSE, file |-> file, map |-> m]}
    ELSE {[o EXCEPT !.map.size = m.size] : o \in MapTable(m, file, size)}

\* TableFile.ExtendSizeTo: nothing happens when the mapping is as large already.
ExtendSizeTo(m, file, size) ==
    IF m.size >= size THEN {[ok |-> FALSE, io |-> FALSE, file |-> file, map |-> m]}
    ELSE MapTable(m, file, size)

\* The records of the source, in the order of their keys, into the target until
\* its memory is exhausted.
CopyRecords(source, target) ==
    LET copied == {k \in source.live :
                     Cardinality({j \in source.live : j <= k}) <= target.size - target.used}
    IN  [target EXCEPT !.live = @ \cup copied, !.used = @ + Cardinality(copied)]

\* SortedTable.CopyTo after SetReadOnly: nothing is copied into a table whose
\* readers do not leave.
CopyTo(source, target) ==
    IF target.readers = 0 THEN CopyRecords(source, target) ELSE target
=============================================================================
