---------------------------- MODULE SlotSequence ----------------------------
(***************************************************************************)
(* What the index of a table promises: a sorted sequence of keys.  A write *)
(* session announces one change of it, and the change takes effect at once *)
(* when the session ends.                                                  *)
(***************************************************************************)
EXTENDS Integers, Sequences, FiniteSets, SequencesExt

CONSTANTS Keys

VARIABLES slots, change

NoChange == [kind |-> "none", order |-> 0, key |-> 0]

\* The order at which an absent key belongs.
OrderOf(sequence, key) == Cardinality({i \in DOMAIN sequence : sequence[i] < key})

Init == slots = <<>> /\ change = NoChange

AnnounceInsert(key) ==
    /\ change = NoChange
    /\ \A i \in DOMAIN slots : slots[i] # key
    /\ change' = [kind |-> "insert", order |-> OrderOf(slots, key), key |-> key]
    /\ UNCHANGED slots

AnnounceRemove(order) ==
    /\ change = NoChange
    /\ change' = [kind |-> "remove", order |-> order, key |-> 0]
    /\ UNCHANGED slots

Effect ==
    /\ change # NoChange
    /\ slots' = IF change.kind = "insert" THEN InsertAt(slots, change.order + 1, change.key)
                ELSE RemoveAt(slots, change.order + 1)
    /\ change' = NoChange

Next ==
    \/ \E key \in Keys : AnnounceInsert(key)
    \/ \E order \in 0..(Len(slots) - 1) : AnnounceRemove(order)
    \/ Effect

Spec == Init /\ [][Next]_<<slots, change>>
=============================================================================
