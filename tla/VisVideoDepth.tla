---------------------------- MODULE VisVideoDepth ----------------------------
(***************************************************************************)
(* The depths of libvisual (libvisual/lv_video.h) and the functions of     *)
(* libvisual/lv_video.c that search an ORred depth flag.                   *)
(*                                                                         *)
(* A depth is the integer of the C enumeration.  A depth flag is the set   *)
(* of the depth bits that are on in the C integer, so "flag & depth" is a  *)
(* set intersection.  The loops of the code are written here by what they  *)
(* compute; module VisVideoDepthSearch runs the loops step by step and     *)
(* compares them with these definitions.                                   *)
(***************************************************************************)
EXTENDS Integers, FiniteSets

NONE  == 0      \* VISUAL_VIDEO_DEPTH_NONE
GL    == 16     \* VISUAL_VIDEO_DEPTH_GL
ERROR == -1     \* VISUAL_VIDEO_DEPTH_ERROR

\* -VISUAL_ERROR_IMPOSSIBLE, which one function returns as a depth.
IMPOSSIBLE == -3

\* One bit per depth: 8, 16, 24 and 32 bits, and openGL.
DepthBits == {1, 2, 4, 8, GL}

\* The values a variable of type VisVideoDepth takes in this code.
DepthValues == DepthBits \cup {NONE, ERROR, IMPOSSIBLE}

\* The depth bits that are on in a depth; -1 is all ones, -3 is ...11101.
BitsOf(depth) ==
    CASE depth = ERROR      -> DepthBits
      [] depth = IMPOSSIBLE -> DepthBits \ {2}
      [] OTHER              -> DepthBits \cap {depth}

depth_is_sane(depth) == Cardinality(BitsOf(depth)) <= 1

\* The function returns TRUE; its two failing results, FALSE and a negative
\* error, are not told apart by any caller.
depth_is_supported(flag, depth) ==
    depth_is_sane(depth) /\ BitsOf(depth) \cap flag # {}

LowestOf(S)  == CHOOSE d \in S : \A e \in S : d <= e
HighestOf(S) == CHOOSE d \in S : \A e \in S : e <= d

depth_get_next(flag, depth) ==
    LET higher == {d \in flag : d > depth}
    IN  IF ~depth_is_sane(depth) THEN ERROR
        ELSE IF higher = {} THEN depth ELSE LowestOf(higher)

depth_get_prev(flag, depth) ==
    LET lower == {d \in flag : d < depth}
    IN  IF ~depth_is_sane(depth) THEN ERROR
        ELSE IF lower = {} THEN depth ELSE HighestOf(lower)

depth_get_lowest(flag) == depth_get_next(flag, NONE)

depth_get_highest(flag) == IF flag = {} THEN NONE ELSE HighestOf(flag)

\* When the highest depth is openGL the code looks for the previous depth and
\* reports an error if there is none; if there is one it falls out of the
\* branch without returning it.
depth_get_highest_nogl(flag) ==
    LET highest == depth_get_highest(flag)
    IN  IF highest # GL THEN highest
        ELSE IF depth_get_prev(flag, GL) = GL THEN ERROR ELSE IMPOSSIBLE
=============================================================================
