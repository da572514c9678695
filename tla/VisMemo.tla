------------------------------ MODULE VisMemo ------------------------------
(***************************************************************************)
(* What lv_fourier.c wants of its cache: the tables of a size are made     *)
(* when they are first asked for, and kept until the library is shut down. *)
(***************************************************************************)
CONSTANT Sizes

VARIABLES known, \* sizes whose tables are kept
          up     \* the library is initialized

vars == <<known, up>>

Init == known = {} /\ up = FALSE

Initialize == ~up /\ up' = TRUE /\ known' = {}
Ask(size) == up /\ known' = known \cup {size} /\ UNCHANGED up
Deinitialize == up /\ up' = FALSE /\ known' = {}

Next == Initialize \/ Deinitialize \/ \E size \in Sizes : Ask(size)

Spec == Init /\ [][Next]_vars
=============================================================================
