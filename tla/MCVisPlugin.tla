------------------------------ MODULE MCVisPlugin ------------------------------
(***************************************************************************)
(* A registry for TLC: four actors, two of which need openGL and one of    *)
(* which is not reentrant, and an input.                                   *)
(***************************************************************************)
EXTENDS VisPlugin

MCFound == <<"bumpscope", "gltest", "madspin", "jess", "alsa">>
MCPlugins == {MCFound[i] : i \in 1..Len(MCFound)}
MCTypeOf == [p \in MCPlugins |-> IF p = "alsa" THEN "input" ELSE "actor"]
MCNameOf == [p \in MCPlugins |-> p]
=============================================================================
