------------------------------ MODULE IndexOps ------------------------------
(***************************************************************************)
(* The algorithms of the index of a table: the binary search over the      *)
(* slots and the choice of the side whose slots move.  Orders count from   *)
(* 0 as in SortedTable.c.                                                  *)
(***************************************************************************)
EXTENDS Integers, Sequences

\* _Search over the keys that the slots lead to: the order of the slot that
\* holds the key, or of the slot it would take.
SearchKeys(keys, key) ==
    LET Orders == 0..Len(keys)
        probe[r \in Orders \X Orders] ==
            LET begin == r[1]
                end == r[2]
                tester == (begin + end) \div 2
            IN IF begin >= end THEN [found |-> FALSE, order |-> begin]
               ELSE IF key > keys[tester + 1] THEN probe[<<tester + 1, end>>]
               ELSE IF key < keys[tester + 1] THEN probe[<<begin, tester>>]
               ELSE [found |-> TRUE, order |-> tester]
    IN probe[<<0, Len(keys)>>]

\* Mutant of InsertMovesLeft: the free space is not looked at.
InsertMovesShorterHalf(count, order, roomLeft, roomRight) == count \div 2 > order

\* _InsertIndexAt: the side with free space, and the shorter half when both
\* sides have some.
InsertMovesLeft(count, order, roomLeft, roomRight) ==
    roomLeft /\ (roomRight => count \div 2 > order)

\* _RemoveIndexAt: the shorter half.
RemoveMovesLeft(count, order) == count \div 2 > order
=============================================================================
