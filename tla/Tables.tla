------------------------------- MODULE Tables -------------------------------
(* Fixed-size tables with free slots, as the kernel keeps them in arrays of  *)
(* Option: a table is a function whose domain is the set of used slots.      *)
EXTENDS Naturals

EmptyTable == [slot \in {} |-> 0]
Free(table, size) == (1..size) \ DOMAIN table
\* iter_mut().find(|slot| slot.is_none()): the lowest free slot, as a set.
FirstFree(table, size) ==
    {slot \in Free(table, size) : \A other \in Free(table, size) : slot <= other}
Put(table, slot, entry) ==
    [i \in DOMAIN table \cup {slot} |-> IF i = slot THEN entry ELSE table[i]]
Take(table, slot) == [i \in DOMAIN table \ {slot} |-> table[i]]
=============================================================================
