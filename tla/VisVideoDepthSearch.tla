------------------------- MODULE VisVideoDepthSearch -------------------------
(***************************************************************************)
(* The depth searches of libvisual/lv_video.c, one loop iteration per      *)
(* step: visual_video_depth_get_next, _get_prev, _get_highest and          *)
(* _get_highest_nogl on every depth flag and every starting depth.         *)
(***************************************************************************)
EXTENDS VisVideoDepth

VARIABLES
    call,     \* the function the caller invoked
    flag,     \* its depthflag argument
    arg,      \* its depth argument
    i,        \* the running depth of the innermost loop
    highest,  \* the local of visual_video_depth_get_highest
    pc,       \* "search", "climb" or "return"
    result    \* what the call returned

vars == <<call, flag, arg, i, highest, pc, result>>

Calls == {"next", "prev", "highest", "highest_nogl"}

Init ==
    /\ call \in Calls
    /\ flag \in SUBSET DepthBits
    /\ arg \in IF call \in {"next", "prev"} THEN DepthValues ELSE {NONE}
    /\ i = arg
    /\ highest = NONE
    /\ pc = IF call \in {"next", "prev"} THEN "search" ELSE "climb"
    /\ result = NONE

Return(d) ==
    /\ result' = d
    /\ pc' = "return"
    /\ UNCHANGED <<call, flag, arg, i, highest>>

RejectDepth ==
    /\ pc = "search" /\ ~depth_is_sane(arg)
    /\ Return(ERROR)

\* A slip: get_next doubles NONE as well, so it never leaves NONE.
ProbeNextStuck ==
    /\ pc = "search" /\ call = "next" /\ depth_is_sane(arg) /\ i < GL
    /\ IF 2 * i \in flag THEN Return(2 * i)
       ELSE i' = 2 * i /\ UNCHANGED <<call, flag, arg, highest, pc, result>>

\* while (i < VISUAL_VIDEO_DEPTH_GL): the first probe from NONE is 8 bits,
\* every other probe doubles i.
ProbeNext ==
    /\ pc = "search" /\ call = "next" /\ depth_is_sane(arg) /\ i < GL
    /\ LET probe == IF i = NONE THEN 1 ELSE 2 * i
       IN  IF probe \in flag THEN Return(probe)
           ELSE i' = probe /\ UNCHANGED <<call, flag, arg, highest, pc, result>>

\* A slip: get_prev probes the depth it was given before it halves it.
ProbePrevEarly ==
    /\ pc = "search" /\ call = "prev" /\ depth_is_sane(arg) /\ i > NONE
    /\ IF i \in flag THEN Return(i)
       ELSE i' = i \div 2 /\ UNCHANGED <<call, flag, arg, highest, pc, result>>

\* while (i > VISUAL_VIDEO_DEPTH_NONE): i is halved before it is probed.
ProbePrev ==
    /\ pc = "search" /\ call = "prev" /\ depth_is_sane(arg) /\ i > NONE
    /\ LET probe == i \div 2
       IN  IF probe \in flag THEN Return(probe)
           ELSE i' = probe /\ UNCHANGED <<call, flag, arg, highest, pc, result>>

\* The loop ends without a hit and the depth argument is returned.
Exhausted ==
    /\ pc = "search" /\ depth_is_sane(arg)
    /\ IF call = "next" THEN i >= GL ELSE i <= NONE
    /\ Return(arg)

\* visual_video_depth_get_highest: highest = i; i = get_next (flag, i), until
\* the two are equal.
Climb ==
    /\ pc = "climb"
    /\ LET up == depth_get_next(flag, i)
       IN  IF up # i
           THEN highest' = up /\ i' = up /\ UNCHANGED <<call, flag, arg, pc, result>>
           ELSE IF call = "highest" THEN Return(highest)
           ELSE Return(IF highest # GL THEN highest
                       ELSE IF depth_get_prev(flag, GL) = GL THEN ERROR
                       ELSE IMPOSSIBLE)

Next == RejectDepth \/ ProbeNext \/ ProbePrev \/ Exhausted \/ Climb

Spec == Init /\ [][Next]_vars /\ WF_vars(Next)

-----------------------------------------------------------------------------
TypeOK ==
    /\ call \in Calls /\ flag \subseteq DepthBits
    /\ {arg, i, highest, result} \subseteq DepthValues
    /\ pc \in {"search", "climb", "return"}

\* The loops of get_next, get_prev and get_highest return exactly what the
\* closed definitions of VisVideoDepth say, from every starting depth.
LoopsMeetDefinitions ==
    pc = "return" =>
        result = CASE call = "next"    -> depth_get_next(flag, arg)
                   [] call = "prev"    -> depth_get_prev(flag, arg)
                   [] call = "highest" -> depth_get_highest(flag)
                   [] OTHER            -> depth_get_highest_nogl(flag)

\* Every search ends, whatever the flag and the starting depth: the loops
\* have no other bound than the doubling or halving of i.
SearchEnds == <>(pc = "return")

\* lv_video.h:442-448 of visual_video_depth_get_highest_nogl: "Return the
\* highest supported depth that is NOT openGL."
HighestNoGLIsADepth ==
    (pc = "return" /\ call = "highest_nogl" /\ flag \ {GL} # {})
        => result = depth_get_highest(flag \ {GL})

=============================================================================
