------------------------------- MODULE MCVisBin -------------------------------
(* Small instances of VisBinClient.  The plugins are named by the depths they  *)
(* support.                                                                    *)
EXTENDS VisBinClient, TLC

CONSTANTS p8, p32, pAny, pGL, pMix

MCDepth ==
    [p \in Plugins |-> CASE p = p8   -> {1}
                         [] p = p32  -> {8}
                         [] p = pAny -> {1, 8}
                         [] p = pGL  -> {GL}
                         [] p = pMix -> {8, GL}]

All == DepthBits
MCFlags == {All}
MCNoGLFlags == {All, All \ {GL}}
MCSymmetry == Permutations(Actors) \cup Permutations(Videos) \cup Permutations(Morphs)
=============================================================================
