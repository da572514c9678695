------------------------------- MODULE VisList -------------------------------
(***************************************************************************)
(* The list of libvisual/lv_list.c as the sequence of its data.  A cursor  *)
(* (VisListEntry *le) is the position of an entry, NoEntry for NULL.       *)
(* visual_list_chain_at_begin leaves the pointers of a list inconsistent;  *)
(* VisCache, its one caller, models them.                                  *)
(***************************************************************************)
EXTENDS Integers, SequencesExt

NoEntry == 0

visual_list_next(list, le) == IF le < Len(list) THEN le + 1 ELSE NoEntry

\* The list, and the cursor that has moved on to the next entry.
visual_list_delete(list, le) ==
    [list |-> RemoveAt(list, le), le |-> IF le < Len(list) THEN le ELSE NoEntry]

\* list_destroy moves its cursor twice per entry, once in visual_list_delete
\* and once in visual_list_next, and starts again when it has deleted the tail:
\* the entries it leaves behind, for a list of n, are the multiples of a stride.
Stride[n \in Nat] == IF n % 2 = 0 THEN 2 ELSE 2 * Stride[n \div 2]

list_destroy_leaves(list) ==
    LET stride == Stride[Len(list)]
    IN  [k \in 1..(Len(list) \div stride) |-> list[k * stride]]
=============================================================================
