----------------------------- MODULE MCVisParam -----------------------------
(***************************************************************************)
(* A plugin with a number, a palette and a collection as parameters.       *)
(***************************************************************************)
EXTENDS VisParam

CONSTANT Rate

SourceOf == <<<<Rate, 1>>>>
=============================================================================
