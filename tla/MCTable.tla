------------------------------ MODULE MCTable ------------------------------
(***************************************************************************)
(* Small instances of Table for TLC: two processes, one with two threads.  *)
(***************************************************************************)
EXTENDS Table, TLC

CONSTANTS p1, p2, t1, t2, t3

HomeOf == [t \in Thread |-> IF t = t3 THEN p2 ELSE p1]

\* The two threads of the first process are interchangeable.
Siblings == Permutations({t1, t2})

\* Full tables of the initial size, with a wasted record and without, and one that
\* has grown.
SmallTables == {[size |-> 2, live |-> L] : L \in {{1}, {1, 2}}}
               \cup {[size |-> 4, live |-> {1, 2, 3}]}

\* A behaviour is followed up to the entry of a late reader. The third key is only
\* found in tables that earlier processes left. Calls and misfortunes share a budget
\* of four. Once it is spent, a behaviour is followed with no failed call of the
\* system, and with four calls of which at most two are under way, or three of which
\* at most one is.
Spent == count.calls + count.kills + count.failures + count.timeouts

Followed ==
    /\ ~late
    /\ \A t \in Thread : frame[t].key # 3
    /\ Spent <= 4
    /\ Spent = 4 => /\ count.failures = 0 /\ count.calls >= 3
                    /\ Cardinality({t \in Thread : ~At(t, "idle")}) <= count.calls - 2
=============================================================================
