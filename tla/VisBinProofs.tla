----------------------------- MODULE VisBinProofs -----------------------------
(***************************************************************************)
(* The types of the bin and its heap, for every client; memory safety of   *)
(* the bin, and the agreement of its depths, for managed clients           *)
(* (ManagedClient and ManagedInvariant of VisBinClient); then what a frame *)
(* draws and mixes, that the bin owns all that is allocated, that plugins  *)
(* render only to depths they support, that the bin implements VisSwitch   *)
(* (KeepsPromise), and that every step of a switch brings its end nearer.  *)
(* Last, clients that own their actors (OwnClient and OwnInvariant) and    *)
(* what the bin leaves them.                                               *)
(***************************************************************************)
EXTENDS VisBinClient, FiniteSetTheorems, TLAPS

-----------------------------------------------------------------------------
(* The searches of a depth flag.                                            *)

\* A non-empty flag has a lowest depth bit ...
LEMMA LowestIsMember ==
    ASSUME NEW S \in SUBSET DepthBits, S # {}
    PROVE  LowestOf(S) \in S
<1>1. \E d \in S : \A e \in S : d <= e
  <2>1. CASE 1 \in S  BY <2>1 DEF DepthBits, GL
  <2>2. CASE 1 \notin S /\ 2 \in S  BY <2>2 DEF DepthBits, GL
  <2>3. CASE 1 \notin S /\ 2 \notin S /\ 4 \in S  BY <2>3 DEF DepthBits, GL
  <2>4. CASE 1 \notin S /\ 2 \notin S /\ 4 \notin S /\ 8 \in S  BY <2>4 DEF DepthBits, GL
  <2>5. CASE S \subseteq {GL}
    <3>1. PICK d : d \in S  OBVIOUS
    <3>2. \A e \in S : e = d /\ e \in Int  BY <2>5, <3>1 DEF GL
    <3> QED  BY <3>1, <3>2
  <2> QED  BY <2>1, <2>2, <2>3, <2>4, <2>5 DEF DepthBits, GL
<1> QED  BY <1>1 DEF LowestOf

\* ... and a highest one.
LEMMA HighestIsMember ==
    ASSUME NEW S \in SUBSET DepthBits, S # {}
    PROVE  HighestOf(S) \in S
<1>1. \E d \in S : \A e \in S : e <= d
  <2>1. CASE 16 \in S  BY <2>1 DEF DepthBits, GL
  <2>2. CASE 16 \notin S /\ 8 \in S  BY <2>2 DEF DepthBits, GL
  <2>3. CASE 16 \notin S /\ 8 \notin S /\ 4 \in S  BY <2>3 DEF DepthBits, GL
  <2>4. CASE 16 \notin S /\ 8 \notin S /\ 4 \notin S /\ 2 \in S  BY <2>4 DEF DepthBits, GL
  <2>5. CASE S \subseteq {1}
    <3>1. PICK d : d \in S  OBVIOUS
    <3>2. \A e \in S : e = d /\ e \in Int  BY <2>5, <3>1 DEF GL
    <3> QED  BY <3>1, <3>2
  <2> QED  BY <2>1, <2>2, <2>3, <2>4, <2>5 DEF DepthBits, GL
<1> QED  BY <1>1 DEF HighestOf

\* A search upwards returns the depth it began with, an error, or a depth of
\* the flag.
LEMMA NextInFlag ==
    ASSUME NEW flags \in SUBSET DepthBits, NEW d \in DepthValues
    PROVE  depth_get_next(flags, d) \in flags \cup {d, ERROR}
<1> DEFINE higher == {e \in flags : e > d}
<1>1. higher # {} => LowestOf(higher) \in higher
  BY LowestIsMember
<1> QED  BY <1>1 DEF depth_get_next

LEMMA PrevInFlag ==
    ASSUME NEW flags \in SUBSET DepthBits, NEW d \in DepthValues
    PROVE  depth_get_prev(flags, d) \in flags \cup {d, ERROR}
<1> DEFINE lower == {e \in flags : e < d}
<1>1. lower # {} => HighestOf(lower) \in lower
  BY HighestIsMember
<1> QED  BY <1>1 DEF depth_get_prev

LEMMA HighestInFlag ==
    ASSUME NEW flags \in SUBSET DepthBits
    PROVE  depth_get_highest(flags) \in flags \cup {NONE}
BY HighestIsMember DEF depth_get_highest

\* Without openGL in the flag, the highest depth without openGL is a depth of
\* the flag; with openGL it is an error code.
LEMMA HighestNoGL ==
    ASSUME NEW flags \in SUBSET DepthBits
    PROVE  /\ GL \notin flags => depth_get_highest_nogl(flags) \in flags \cup {NONE}
           /\ depth_get_highest_nogl(flags) \in flags \cup {NONE, ERROR, IMPOSSIBLE}
BY HighestInFlag DEF depth_get_highest_nogl, GL, NONE

\* Every depth function returns a depth value.
LEMMA DepthsTyped ==
    ASSUME NEW flags \in SUBSET DepthBits, NEW d \in DepthValues
    PROVE  /\ depth_get_next(flags, d) \in DepthValues
           /\ depth_get_prev(flags, d) \in DepthValues
           /\ depth_get_lowest(flags) \in DepthValues
           /\ depth_get_highest(flags) \in DepthValues
           /\ depth_get_highest_nogl(flags) \in DepthValues
<1>1. NONE \in DepthValues  BY DEF DepthValues
<1> QED  BY <1>1, NextInFlag, PrevInFlag, HighestInFlag, HighestNoGL DEF depth_get_lowest, DepthValues

-----------------------------------------------------------------------------
(* Actors and depths.                                                       *)

LEMMA NoneTyped == NONE \in DepthValues /\ GL \in DepthValues
BY DEF DepthValues, DepthBits

\* An actor's depth flag, with or without a plugin, is a set of depth bits.
LEMMA FlagsTyped ==
    ASSUME NEW act \in ActorRecords
    PROVE  visual_actor_get_supported_depth(act) \in SUBSET DepthBits
BY PluginAssumption DEF visual_actor_get_supported_depth, ActorRecords, DepthBits

LEMMA NewActorTyped ==
    ASSUME NEW p \in Plugins \cup {NULL}
    PROVE  visual_actor_new(p) \in ActorRecords
BY DEF visual_actor_new, ActorRecords

LEMMA SetVideoTyped ==
    ASSUME NEW act \in ActorRecords, NEW v \in Videos \cup Screens \cup {NULL}
    PROVE  visual_actor_set_video(act, v) \in ActorRecords
BY DEF visual_actor_set_video, ActorRecords

LEMMA RealizeTyped ==
    ASSUME NEW act \in ActorRecords
    PROVE  visual_actor_realize(act) \in ActorRecords
<1>1. \A r \in BOOLEAN : [act EXCEPT !.realized = r] \in ActorRecords
  BY DEF ActorRecords
<1> DEFINE loaded == act.plugin # NULL
<1>2. loaded \in BOOLEAN  OBVIOUS
<1> HIDE DEF loaded
<1>3. [act EXCEPT !.realized = loaded] \in ActorRecords  BY <1>1, <1>2
<1> QED  BY <1>3 DEF visual_actor_realize, loaded

\* Negotiation moves only the two private surfaces, and their depths are depth
\* values.
LEMMA NegotiateTyped ==
    ASSUME NEW act \in ActorRecords, NEW d \in DepthValues, NEW run \in DepthValues,
           NEW forced \in BOOLEAN
    PROVE  visual_actor_video_negotiate(act, d, run, forced) \in ActorRecords
<1> DEFINE flags == visual_actor_get_supported_depth(act)
           depth == IF forced THEN run ELSE depth_get_highest_nogl(flags)
           bare  == [act EXCEPT !.transform = NULL, !.fitting = NULL]
<1>1. depth \in DepthValues
  BY FlagsTyped, HighestNoGL DEF DepthValues
<1>2. bare \in ActorRecords
  BY DEF ActorRecords
<1>3. \A e \in DepthValues : /\ [bare EXCEPT !.transform = e] \in ActorRecords
                             /\ [bare EXCEPT !.fitting = e] \in ActorRecords
  <2> HIDE DEF bare
  <2> QED  BY <1>2 DEF ActorRecords
<1> QED
  <2> HIDE DEF depth, bare
  <2>1. /\ [bare EXCEPT !.transform = depth] \in ActorRecords
        /\ [bare EXCEPT !.fitting = d] \in ActorRecords
    BY <1>1, <1>3
  <2> QED  BY <1>2, <2>1 DEF visual_actor_video_negotiate, depth, bare

LEMMA DepthOfTyped ==
    ASSUME NEW vd \in [Videos \cup Screens -> DepthValues], NEW v \in Videos \cup Screens \cup {NULL}
    PROVE  DepthOf(vd, v) \in DepthValues
BY NoneTyped DEF DepthOf

LEMMA NegotiatedTyped ==
    ASSUME NEW act \in [Actors -> ActorRecords], NEW vd \in [Videos \cup Screens -> DepthValues],
           NEW a, NEW run \in DepthValues, NEW forced \in BOOLEAN
    PROVE  Negotiated(act, vd, a, run, forced) \in [Actors -> ActorRecords]
<1>1. CASE a \in Actors
  <2>1. act[a] \in ActorRecords /\ act[a].video \in Videos \cup Screens \cup {NULL}
    BY <1>1 DEF ActorRecords
  <2>2. visual_actor_video_negotiate(act[a], DepthOf(vd, act[a].video), run, forced) \in ActorRecords
    BY <2>1, DepthOfTyped, NegotiateTyped
  <2> QED  BY <1>1, <2>2 DEF Negotiated
<1>2. CASE a \notin Actors
  BY <1>2 DEF Negotiated
<1> QED  BY <1>1, <1>2

LEMMA FreedTyped ==
    ASSUME NEW act \in [Actors -> ActorRecords], NEW S
    PROVE  Freed(act, S) \in [Actors -> ActorRecords]
BY NewActorTyped DEF Freed

-----------------------------------------------------------------------------
(* The bin and its screen.                                                  *)

LEMMA PreferredTyped ==
    ASSUME NEW b \in Bins, NEW flags \in SUBSET DepthBits
    PROVE  bin_get_depth_using_preferred(b, flags) \in DepthValues
BY DepthsTyped, NoneTyped DEF bin_get_depth_using_preferred

LEMMA FixTyped ==
    ASSUME NEW b \in Bins, NEW d \in DepthValues
    PROVE  fix_depth_with_bin(b, d) \in DepthValues
<1>1. b.depthflag \in SUBSET DepthBits  BY DEF Bins
<1> QED  BY <1>1, DepthsTyped, NoneTyped DEF fix_depth_with_bin

LEMMA SetDepthTyped ==
    ASSUME NEW b \in Bins, NEW d \in DepthValues
    PROVE  visual_bin_set_depth(b, d) \in Bins
<1> DEFINE changed == b.depthchanged \/ b.depth # d
           fromGL  == b.depth = GL /\ changed
<1>1. b.depthchanged \in BOOLEAN /\ b.depth \in DepthValues
  BY DEF Bins
<1>2. [b EXCEPT !.depthold = b.depth] \in Bins
  BY <1>1 DEF Bins
<1>3. \A c, f \in BOOLEAN :
        [b EXCEPT !.depthold = b.depth, !.depthchanged = c, !.depthfromGL = f, !.depth = d] \in Bins
  BY <1>1 DEF Bins
<1>4. changed \in BOOLEAN /\ fromGL \in BOOLEAN
  OBVIOUS
<1>5. [b EXCEPT !.depthold = b.depth, !.depthchanged = changed, !.depthfromGL = fromGL,
                !.depth = d] \in Bins
  <2> HIDE DEF changed, fromGL
  <2> QED  BY <1>3, <1>4
<1> QED  BY <1>2, <1>5 DEF visual_bin_set_depth

\* The pointers of the bin do not depend on the depth it is set to.
LEMMA SetDepthKeeps ==
    ASSUME NEW b \in Bins, NEW d \in DepthValues
    PROVE  LET c == visual_bin_set_depth(b, d)
           IN  /\ c.actor = b.actor /\ c.actmorph = b.actmorph /\ c.actvideo = b.actvideo
               /\ c.privvid = b.privvid /\ c.actmorphvideo = b.actmorphvideo /\ c.morph = b.morph
               /\ c.managed = b.managed /\ c.actmorphmanaged = b.actmorphmanaged
               /\ c.morphing = b.morphing /\ c.style = b.style /\ c.depthflag = b.depthflag
BY DEF visual_bin_set_depth, Bins

LEMMA ScreenAfterTyped ==
    ASSUME NEW b, NEW d \in DepthValues,
           NEW vd \in [Videos \cup Screens -> DepthValues]
    PROVE  ScreenAfter(b, vd, d) \in [Videos \cup Screens -> DepthValues]
BY DEF ScreenAfter

LEMMA ChangedTyped ==
    ASSUME NEW b \in Bins, NEW changed \in BOOLEAN
    PROVE  [b EXCEPT !.depthchanged = changed] \in Bins
BY DEF Bins

\* The plan of a switch by name is a bin and two depths.
LEMMA ByNameTyped ==
    ASSUME NEW b \in Bins, NEW screen \in DepthValues, NEW flags \in SUBSET DepthBits
    PROVE  /\ ByNameDepths(b, screen, flags).bin \in Bins
           /\ ByNameDepths(b, screen, flags).video \in DepthValues
           /\ ByNameDepths(b, screen, flags).screen \in DepthValues
<1> DEFINE want  == bin_get_depth_using_preferred(b, flags)
           fixed == fix_depth_with_bin(b, want)
<1>1. want \in DepthValues /\ fixed \in DepthValues /\ GL \in DepthValues /\ b.depth \in DepthValues
  BY PreferredTyped, FixTyped, NoneTyped DEF Bins
<1>2. \A f, g \in DepthValues : [b EXCEPT !.depthforced = f, !.depthforcedmain = g] \in Bins
  BY DEF Bins
<1>3. \A f, g, d \in DepthValues :
        visual_bin_set_depth([b EXCEPT !.depthforced = f, !.depthforcedmain = g], d) \in Bins
  BY <1>2, SetDepthTyped
<1>4. \A c \in Bins : [c EXCEPT !.depthchanged = TRUE] \in Bins
  BY ChangedTyped
<1> HIDE DEF want, fixed
<1> DEFINE Go(forced, forcedmain, depth) ==
             [bin   |-> visual_bin_set_depth([b EXCEPT !.depthforced = forced,
                                                       !.depthforcedmain = forcedmain], depth),
              video |-> depth, screen |-> depth]
<1>5. \A f, g, d \in DepthValues : /\ Go(f, g, d).bin \in Bins
                                   /\ Go(f, g, d).video \in DepthValues
                                   /\ Go(f, g, d).screen \in DepthValues
  BY <1>3
<1>6. CASE depth_is_supported(flags, GL)
  <2>1. ByNameDepths(b, screen, flags) = [Go(GL, GL, GL) EXCEPT !.bin.depthchanged = TRUE]
    BY <1>6 DEF ByNameDepths
  <2>2. [Go(GL, GL, GL).bin EXCEPT !.depthchanged = TRUE] \in Bins
    BY <1>1, <1>4, <1>5
  <2> QED  BY <1>1, <2>1, <2>2
<1>7. CASE ~depth_is_supported(flags, GL) /\ screen = GL
  BY <1>1, <1>2, <1>7 DEF ByNameDepths, want, fixed
<1>8. CASE ~depth_is_supported(flags, GL) /\ screen # GL /\ MorphsDeeper(b, screen, fixed)
  <2>1. ByNameDepths(b, screen, flags) = Go(want, b.depth, screen)
    BY <1>8 DEF ByNameDepths, want, fixed
  <2> QED  BY <1>1, <1>5, <2>1
<1>9. CASE ~depth_is_supported(flags, GL) /\ screen # GL /\ ~MorphsDeeper(b, screen, fixed)
  <2>1. ByNameDepths(b, screen, flags) = Go(fixed, b.depth, fixed)
    BY <1>9 DEF ByNameDepths, want, fixed
  <2> QED  BY <1>1, <1>5, <2>1
<1> QED  BY <1>6, <1>7, <1>8, <1>9

-----------------------------------------------------------------------------
(* The operations of the bin.                                               *)

\* Any change of one pointer or setting of the bin leaves a bin.
LEMMA BinFieldsTyped ==
    ASSUME NEW b \in Bins
    PROVE  /\ \A a \in Actors \cup {NULL} : [b EXCEPT !.actor = a] \in Bins
           /\ \A d \in DepthValues, m \in BOOLEAN :
                 [b EXCEPT !.depthforcedmain = d, !.managed = m] \in Bins
           /\ \A d \in DepthValues : [b EXCEPT !.depthforcedmain = d] \in Bins
           /\ \A m \in Morphs \cup {NULL}, g \in BOOLEAN :
                 [b EXCEPT !.morph = m, !.morphmanaged = g] \in Bins
<1>1. \A a \in Actors \cup {NULL} : [b EXCEPT !.actor = a] \in Bins  BY DEF Bins
<1>2. \A d \in DepthValues, m \in BOOLEAN :
        [b EXCEPT !.depthforcedmain = d, !.managed = m] \in Bins  BY DEF Bins
<1>3. \A d \in DepthValues : [b EXCEPT !.depthforcedmain = d] \in Bins  BY DEF Bins
<1>4. \A m \in Morphs \cup {NULL}, g \in BOOLEAN :
        [b EXCEPT !.morph = m, !.morphmanaged = g] \in Bins  BY DEF Bins
<1> QED  BY <1>1, <1>2, <1>3, <1>4

LEMMA SwitchFieldsTyped ==
    ASSUME NEW b \in Bins
    PROVE  /\ \A v \in Videos : [b EXCEPT !.actmorphvideo = v, !.actmorphmanaged = TRUE] \in Bins
           /\ \A a \in Actors :
                 [b EXCEPT !.actmorph = a, !.privvid = NULL, !.morphing = TRUE] \in Bins
           /\ \A v \in Videos : [b EXCEPT !.privvid = v] \in Bins
<1>1. \A v \in Videos : [b EXCEPT !.actmorphvideo = v, !.actmorphmanaged = TRUE] \in Bins
  BY DEF Bins
<1>2. \A a \in Actors : [b EXCEPT !.actmorph = a, !.privvid = NULL, !.morphing = TRUE] \in Bins
  BY DEF Bins
<1>3. \A v \in Videos : [b EXCEPT !.privvid = v] \in Bins
  BY DEF Bins
<1> QED  BY <1>1, <1>2, <1>3

LEMMA ConnectTyped ==
    ASSUME BinTypeOK, NEW a \in Actors, NEW act \in [Actors -> ActorRecords],
           NEW managed \in BOOLEAN, Connect(a, act, managed)
    PROVE  bin' \in Bins /\ actor' \in [Actors -> ActorRecords]
             /\ vdepth' \in [Videos \cup Screens -> DepthValues]
<1> DEFINE flags == visual_actor_get_supported_depth(act[a])
           want  == IF flags = {GL} THEN GL
                    ELSE fix_depth_with_bin(bin, bin_get_depth_using_preferred(bin, flags))
           b     == visual_bin_set_depth([bin EXCEPT !.actor = a], want)
<1>1. want \in DepthValues
  <2>1. flags \in SUBSET DepthBits  BY FlagsTyped
  <2> QED  BY <2>1, NoneTyped, PreferredTyped, FixTyped DEF BinTypeOK
<1>2. b \in Bins /\ b.depth \in DepthValues
  <2>1. [bin EXCEPT !.actor = a] \in Bins  BY BinFieldsTyped DEF BinTypeOK
  <2>2. b \in Bins  BY <1>1, <2>1, SetDepthTyped
  <2> HIDE DEF b
  <2> QED  BY <2>2 DEF Bins
<1>3. [b EXCEPT !.depthforcedmain = b.depth, !.managed = managed] \in Bins
  <2> HIDE DEF b
  <2> QED  BY <1>2, BinFieldsTyped
<1>4. ScreenAfter(bin, vdepth, want) \in [Videos \cup Screens -> DepthValues]
  BY <1>1, ScreenAfterTyped DEF BinTypeOK
<1> QED  BY <1>3, <1>4 DEF Connect

LEMMA RetiredTyped ==
    ASSUME NEW b \in Bins
    PROVE  Retired(b) \in Bins
<1>1. \A v \in Videos \cup {NULL}, m \in Morphs \cup {NULL} :
        [b EXCEPT !.actor = b.actmorph, !.actmorph = NULL, !.privvid = NULL, !.morphing = FALSE,
                  !.actmorphvideo = v, !.morph = m] \in Bins
  BY DEF Bins
<1> DEFINE v == IF b.actmorphmanaged THEN NULL ELSE b.actmorphvideo
           m == IF b.morphmanaged THEN NULL ELSE b.morph
<1>2. v \in Videos \cup {NULL} /\ m \in Morphs \cup {NULL}
  BY DEF Bins
<1>3. [b EXCEPT !.actor = b.actmorph, !.actmorph = NULL, !.privvid = NULL, !.morphing = FALSE,
                !.actmorphvideo = v, !.morph = m] \in Bins
  <2> HIDE DEF v, m
  <2> QED  BY <1>1, <1>2
<1> QED  BY <1>3 DEF Retired, v, m

\* A finished switch leaves a bin with the new actor, and no other switch.
LEMMA FinalizeTyped ==
    ASSUME BinTypeOK, NEW act \in [Actors -> ActorRecords],
           NEW mor \in [Morphs -> MorphRecords], NEW bad \in BOOLEAN, Finalize(act, mor, bad)
    PROVE  BinTypeOK' /\ bin'.morphing = FALSE
<1> DEFINE freed == Retires(bin)
           next  == bin.actmorph
           flags == SupportedDepth(act, next)
           depth == fix_depth_with_bin(bin, bin_get_depth_using_preferred(bin, flags))
           b     == visual_bin_set_depth(Retired(bin), depth)
           vd    == [vdepth EXCEPT ![bin.actvideo] = depth]
           left  == Freed(act, freed)
           set   == IF next = NULL THEN left
                    ELSE [left EXCEPT ![next] = visual_actor_set_video(@, bin.actvideo)]
<1>1. next \in Actors \cup {NULL} /\ bin \in Bins /\ bin.actvideo \in Screens \cup {NULL}
  BY DEF BinTypeOK, Bins
<1>2. depth \in DepthValues
  <2>1. flags \in SUBSET DepthBits  BY <1>1, FlagsTyped DEF SupportedDepth
  <2> QED  BY <1>1, <2>1, PreferredTyped, FixTyped
<1>3. b \in Bins /\ b.morphing = FALSE
  <2>1. Retired(bin) \in Bins  BY <1>1, RetiredTyped
  <2>2. Retired(bin).morphing = FALSE  BY <1>1 DEF Retired, Bins
  <2>3. b.morphing = Retired(bin).morphing  BY <1>2, <2>1, SetDepthKeeps
  <2> QED  BY <1>2, <2>1, <2>2, <2>3, SetDepthTyped
<1>4. [b EXCEPT !.depthforcedmain = depth] \in Bins
         /\ [b EXCEPT !.depthforcedmain = depth].morphing = FALSE
  <2> HIDE DEF b, depth
  <2>1. [b EXCEPT !.depthforcedmain = depth] \in Bins  BY <1>2, <1>3, BinFieldsTyped
  <2>2. [b EXCEPT !.depthforcedmain = depth].morphing = b.morphing  BY <1>3 DEF Bins
  <2> QED  BY <1>3, <2>1, <2>2
<1>5. vd \in [Videos \cup Screens -> DepthValues]
  <2> HIDE DEF depth
  <2> QED  BY <1>2 DEF BinTypeOK
<1>6. set \in [Actors -> ActorRecords]
  <2>1. left \in [Actors -> ActorRecords]  BY FreedTyped
  <2> HIDE DEF left
  <2>2. next # NULL => visual_actor_set_video(left[next], bin.actvideo) \in ActorRecords
    BY <1>1, <2>1, SetVideoTyped
  <2> QED  BY <1>1, <2>1, <2>2
<1>7. Negotiated(set, vd, next, depth, TRUE) \in [Actors -> ActorRecords]
  BY <1>2, <1>5, <1>6, NegotiatedTyped
<1>8. actor' \in [Actors -> ActorRecords]
  BY <1>6, <1>7 DEF Finalize
<1>9. bin' = [b EXCEPT !.depthforcedmain = depth] /\ vdepth' = vd /\ live' = live \ freed
         /\ morph' = mor /\ mine' = mine /\ fault' \in BOOLEAN
  BY DEF Finalize, Faulty
<1> QED  BY <1>4, <1>5, <1>8, <1>9 DEF BinTypeOK

\* What Finalize does at the end of a switch, which has its new actor.
LEMMA SwitchEnds ==
    ASSUME bin.actmorph # NULL, NEW act, NEW mor, NEW bad \in BOOLEAN, Finalize(act, mor, bad)
    PROVE  LET freed == Retires(bin)
               next  == bin.actmorph
               flags == visual_actor_get_supported_depth(act[next])
               depth == fix_depth_with_bin(bin, bin_get_depth_using_preferred(bin, flags))
               b     == visual_bin_set_depth(Retired(bin), depth)
               vd    == [vdepth EXCEPT ![bin.actvideo] = depth]
               set   == [Freed(act, freed) EXCEPT ![next] = visual_actor_set_video(@, bin.actvideo)]
           IN  /\ bin' = [b EXCEPT !.depthforcedmain = depth] /\ vdepth' = vd
               /\ actor' = IF b.depthchanged THEN Negotiated(set, vd, next, depth, TRUE) ELSE set
               /\ live' = live \ freed /\ morph' = mor /\ mine' = mine
               /\ fault' = (bad \/ Faulty(freed, live) \/ Faulty({next, bin.actvideo}, live \ freed))
<1>1. ({bin.actmorph} \ {NULL}) \cup {bin.actvideo} = {bin.actmorph, bin.actvideo}
  OBVIOUS
<1> QED  BY <1>1 DEF Finalize, SupportedDepth

LEMMA SwitchActorTyped ==
    ASSUME BinTypeOK, NEW b \in Bins, NEW vd \in [Videos \cup Screens -> DepthValues],
           NEW act \in [Actors -> ActorRecords], NEW a \in Actors,
           NEW lv \in SUBSET (Actors \cup Videos \cup Morphs \cup Screens), NEW bad \in BOOLEAN,
           SwitchActor(b, vd, act, lv, a, bad), UNCHANGED mine
    PROVE  BinTypeOK' /\ bin'.actmorph = a
<1> DEFINE main   == act[b.actor].video
           next   == act[a].video
           lv1    == lv \ {b.privvid}
           morphs == /\ b.style = "morph" /\ ~b.depthfromGL
                     /\ DepthOf(vd, main) # GL /\ DepthOf(vd, next) # GL
           b1     == [b EXCEPT !.actmorph = a, !.privvid = NULL, !.morphing = TRUE]
<1>1. b1 \in Bins /\ b1.actmorph = a
  <2>1. b1 \in Bins  BY SwitchFieldsTyped
  <2>2. b1.actmorph = a  BY DEF Bins
  <2> QED  BY <2>1, <2>2
<1>2. fault' \in BOOLEAN /\ mine' \subseteq Actors
  BY DEF SwitchActor, visual_video_clone, Faulty, BinTypeOK
<1>3. CASE morphs
  <2>1. PICK pv \in PrivateVideos(b, lv1) :
            /\ bin' = [b1 EXCEPT !.privvid = pv]
            /\ vdepth' = [vd EXCEPT ![pv] = DepthOf(vd, b.actvideo)]
            /\ actor' = [act EXCEPT ![b.actor] = visual_actor_set_video(@, pv)]
            /\ live' = lv1 \cup {pv}
            /\ morph' = IF b.morph # NULL /\ morph[b.morph].plugin
                        THEN [morph EXCEPT ![b.morph].mode = b.mode,
                                           ![b.morph].rate = 0,
                                           ![b.morph].dest = b.actvideo]
                        ELSE morph
    BY <1>3 DEF SwitchActor, visual_video_clone
  <2>2. pv \in Videos  BY DEF PrivateVideos
  <2>3. bin' \in Bins /\ bin'.actmorph = a
    <3>1. bin' \in Bins  BY <1>1, <2>1, <2>2, SwitchFieldsTyped
    <3>2. bin'.actmorph = b1.actmorph
      <4> HIDE DEF b1
      <4> QED  BY <1>1, <2>1 DEF Bins
    <3> QED  BY <1>1, <3>1, <3>2
  <2>4. vdepth' \in [Videos \cup Screens -> DepthValues]
    <3>1. b.actvideo \in Videos \cup Screens \cup {NULL}  BY DEF Bins
    <3>2. DepthOf(vd, b.actvideo) \in DepthValues  BY <3>1, DepthOfTyped
    <3> QED  BY <2>1, <3>2
  <2>5. actor' \in [Actors -> ActorRecords]
    <3>1. CASE b.actor \in Actors
      <4>1. visual_actor_set_video(act[b.actor], pv) \in ActorRecords
        BY <2>2, <3>1, SetVideoTyped
      <4> QED  BY <2>1, <3>1, <4>1
    <3>2. CASE b.actor \notin Actors  BY <2>1, <3>2
    <3> QED  BY <3>1, <3>2
  <2>6. live' \subseteq Actors \cup Videos \cup Morphs \cup Screens
    BY <2>1, <2>2
  <2>7. morph' \in [Morphs -> MorphRecords]
    <3>1. b.morph \in Morphs \cup {NULL} /\ b.mode \in {"set", "steps", "time"}
             /\ b.actvideo \in Screens \cup {NULL} /\ morph \in [Morphs -> MorphRecords]
             /\ 0 \in 0 .. MorphFrames
      BY PoolAssumption DEF Bins, BinTypeOK
    <3>2. \A m \in Morphs, d \in {"set", "steps", "time"}, v \in Screens \cup {NULL} :
            [morph[m] EXCEPT !.mode = d, !.rate = 0, !.dest = v] \in MorphRecords
      BY <3>1 DEF MorphRecords
    <3>3. CASE b.morph # NULL /\ morph[b.morph].plugin
      <4>1. morph' = [morph EXCEPT ![b.morph] =
                         [morph[b.morph] EXCEPT !.mode = b.mode, !.rate = 0, !.dest = b.actvideo]]
        BY <2>1, <3>1, <3>3
      <4> QED  BY <3>1, <3>2, <3>3, <4>1
    <3> QED  BY <2>1, <3>1, <3>3
  <2> QED  BY <1>2, <2>3, <2>4, <2>5, <2>6, <2>7 DEF BinTypeOK
<1>4. CASE ~morphs
  <2>1. bin' = b1 /\ vdepth' = vd /\ actor' = act /\ live' = lv1 /\ morph' = morph
    BY <1>4 DEF SwitchActor, visual_video_clone
  <2> HIDE DEF b1, morphs
  <2> QED  BY <1>1, <1>2, <2>1 DEF BinTypeOK
<1> QED  BY <1>3, <1>4

LEMMA SwitchByNameTyped ==
    ASSUME BinTypeOK, NEW name \in Plugins, NEW a \in Actors, NEW v \in Videos,
           visual_bin_switch_actor_by_name(name, a, v)
    PROVE  BinTypeOK' /\ bin'.actmorph = a
<1>1. PICK plugin \in Loaded(name) :
        LET old    == UnfinishedManaged
            lv     == live \ old
            screen == DepthOf(vdepth, bin.actvideo)
            new    == visual_actor_new(plugin)
            flags  == visual_actor_get_supported_depth(new)
            plan   == ByNameDepths(bin, screen, flags)
            act0   == IF ~depth_is_supported(flags, GL) /\ bin.depthforcedmain # screen
                      THEN Negotiated(Freed(actor, old), vdepth, bin.actor,
                                      bin.depthforcedmain, TRUE)
                      ELSE Freed(actor, old)
            vd     == [ScreenAfter(bin, vdepth, plan.screen) EXCEPT ![v] = plan.video]
        IN  /\ SwitchActor([plan.bin EXCEPT !.actmorphvideo = v, !.actmorphmanaged = TRUE],
                           vd, [act0 EXCEPT ![a] = visual_actor_set_video(new, v)],
                           lv \cup {a, v}, a,
                           Faulty(old \cup {bin.actor}, live) \/ actor[bin.actor].plugin = NULL
                             \/ bin.actvideo = NULL)
            /\ UNCHANGED mine
  BY DEF visual_bin_switch_actor_by_name
<1> DEFINE old    == UnfinishedManaged
           lv     == live \ old
           screen == DepthOf(vdepth, bin.actvideo)
           new    == visual_actor_new(plugin)
           flags  == visual_actor_get_supported_depth(new)
           plan   == ByNameDepths(bin, screen, flags)
           act0   == IF ~depth_is_supported(flags, GL) /\ bin.depthforcedmain # screen
                     THEN Negotiated(Freed(actor, old), vdepth, bin.actor,
                                     bin.depthforcedmain, TRUE)
                     ELSE Freed(actor, old)
           vd     == [ScreenAfter(bin, vdepth, plan.screen) EXCEPT ![v] = plan.video]
           act    == [act0 EXCEPT ![a] = visual_actor_set_video(new, v)]
           b      == [plan.bin EXCEPT !.actmorphvideo = v, !.actmorphmanaged = TRUE]
           bad    == Faulty(old \cup {bin.actor}, live) \/ actor[bin.actor].plugin = NULL
                       \/ bin.actvideo = NULL
<1>2. new \in ActorRecords
  BY NewActorTyped DEF Loaded
<1>3. flags \in SUBSET DepthBits
  BY <1>2, FlagsTyped
<1>4. screen \in DepthValues /\ bin.depthforcedmain \in DepthValues /\ bin \in Bins
  BY DepthOfTyped DEF BinTypeOK, Bins
<1>5. plan.bin \in Bins /\ plan.video \in DepthValues /\ plan.screen \in DepthValues
  BY <1>3, <1>4, ByNameTyped
<1>6. b \in Bins
  <2> HIDE DEF plan
  <2> QED  BY <1>5, SwitchFieldsTyped
<1>7. vd \in [Videos \cup Screens -> DepthValues]
  <2> HIDE DEF plan
  <2>1. ScreenAfter(bin, vdepth, plan.screen) \in [Videos \cup Screens -> DepthValues]
    BY <1>5, ScreenAfterTyped DEF BinTypeOK
  <2> QED  BY <1>5, <2>1
<1>8. act \in [Actors -> ActorRecords]
  <2>1. Freed(actor, old) \in [Actors -> ActorRecords]
    BY FreedTyped DEF BinTypeOK
  <2>2. act0 \in [Actors -> ActorRecords]
    BY <1>4, <2>1, NegotiatedTyped DEF BinTypeOK
  <2>3. visual_actor_set_video(new, v) \in ActorRecords
    BY <1>2, SetVideoTyped
  <2> HIDE DEF act0
  <2> QED  BY <2>2, <2>3
<1>9. lv \cup {a, v} \in SUBSET (Actors \cup Videos \cup Morphs \cup Screens)
  BY DEF BinTypeOK
<1>10. bad \in BOOLEAN
  BY DEF Faulty
<1>11. SwitchActor(b, vd, act, lv \cup {a, v}, a, bad) /\ UNCHANGED mine
  BY <1>1
<1> HIDE DEF b, vd, act, lv, bad
<1> QED  BY <1>6, <1>7, <1>8, <1>9, <1>10, <1>11, SwitchActorTyped

LEMMA SettingsTyped ==
    ASSUME BinTypeOK,
           \/ \E flag \in DepthFlags : visual_bin_set_supported_depth(flag)
           \/ \E pref \in Preferences : visual_bin_set_preferred_depth(pref)
           \/ \E style \in Styles : visual_bin_switch_set_style(style)
           \/ \E mode \in Modes : visual_bin_switch_set_mode(mode)
           \/ visual_bin_depth_changed
    PROVE  /\ BinTypeOK'
           /\ bin'.morphing = bin.morphing /\ bin'.actmorph = bin.actmorph
<1>1. /\ \A flag \in DepthFlags : [bin EXCEPT !.depthflag = flag] \in Bins
      /\ \A pref \in Preferences : [bin EXCEPT !.depthpreferred = pref] \in Bins
  BY ClientAssumption DEF BinTypeOK, Bins
<1>2. /\ \A style \in Styles : [bin EXCEPT !.style = style] \in Bins
      /\ \A mode \in Modes : [bin EXCEPT !.mode = mode] \in Bins
  BY ClientAssumption DEF BinTypeOK, Bins
<1>3. [bin EXCEPT !.depthchanged = FALSE] \in Bins
  BY ChangedTyped DEF BinTypeOK
<1>4. bin' \in Bins /\ UNCHANGED <<heap, fault>>
  BY <1>1, <1>2, <1>3 DEF visual_bin_set_supported_depth, visual_bin_set_preferred_depth,
       visual_bin_switch_set_style, visual_bin_switch_set_mode, visual_bin_depth_changed, Set
<1>5. bin'.morphing = bin.morphing /\ bin'.actmorph = bin.actmorph
  BY DEF visual_bin_set_supported_depth, visual_bin_set_preferred_depth,
       visual_bin_switch_set_style, visual_bin_switch_set_mode, visual_bin_depth_changed, Set,
       BinTypeOK, Bins
<1> QED  BY <1>4, <1>5 DEF heap, BinTypeOK

LEMMA SetBinVideoTyped ==
    ASSUME BinTypeOK, NEW screen \in Screens, NEW depth \in DepthValues,
           visual_bin_set_video(screen, depth)
    PROVE  BinTypeOK' /\ bin'.morphing = bin.morphing /\ bin'.actmorph = bin.actmorph
<1>1. bin' \in Bins /\ bin'.morphing = bin.morphing /\ bin'.actmorph = bin.actmorph
  BY DEF visual_bin_set_video, BinTypeOK, Bins
<1>2. vdepth' \in [Videos \cup Screens -> DepthValues]
  BY DEF visual_bin_set_video, BinTypeOK
<1> QED  BY <1>1, <1>2 DEF visual_bin_set_video, BinTypeOK

\* The client's own actors.
LEMMA OwnActorsTyped ==
    ASSUME BinTypeOK, NEW a \in Actors,
           (\E name \in Plugins : ClientNewActor(name, a)) \/ ClientUnrefActor(a)
    PROVE  BinTypeOK' /\ bin' = bin
<1>1. CASE \E name \in Plugins : ClientNewActor(name, a)
  <2>1. PICK plugin \in Plugins \cup {NULL} :
            actor' = [actor EXCEPT ![a] =
                         visual_actor_set_video(visual_actor_new(plugin), bin.actvideo)]
    BY <1>1 DEF ClientNewActor, Loaded
  <2>2. bin.actvideo \in Videos \cup Screens \cup {NULL}
    BY DEF BinTypeOK, Bins
  <2>3. visual_actor_set_video(visual_actor_new(plugin), bin.actvideo) \in ActorRecords
    BY <2>2, NewActorTyped, SetVideoTyped
  <2>4. actor' \in [Actors -> ActorRecords]
    BY <2>1, <2>3 DEF BinTypeOK
  <2> QED  BY <1>1, <2>4 DEF ClientNewActor, BinTypeOK
<1>2. CASE ClientUnrefActor(a)
  <2>1. actor' \in [Actors -> ActorRecords]
    BY <1>2, FreedTyped DEF ClientUnrefActor, BinTypeOK
  <2> QED  BY <1>2, <2>1 DEF ClientUnrefActor, Faulty, BinTypeOK
<1> QED  BY <1>1, <1>2

\* Connecting keeps a pending switch as it is.
LEMMA ConnectKeeps ==
    ASSUME BinTypeOK, NEW a \in Actors, NEW act \in [Actors -> ActorRecords],
           NEW managed \in BOOLEAN, Connect(a, act, managed)
    PROVE  bin'.morphing = bin.morphing /\ bin'.actmorph = bin.actmorph
<1> DEFINE flags == visual_actor_get_supported_depth(act[a])
           want  == IF flags = {GL} THEN GL
                    ELSE fix_depth_with_bin(bin, bin_get_depth_using_preferred(bin, flags))
           b     == visual_bin_set_depth([bin EXCEPT !.actor = a], want)
<1>1. want \in DepthValues
  <2>1. flags \in SUBSET DepthBits  BY FlagsTyped
  <2> QED  BY <2>1, NoneTyped, PreferredTyped, FixTyped DEF BinTypeOK
<1>2. [bin EXCEPT !.actor = a] \in Bins  BY BinFieldsTyped DEF BinTypeOK
<1> HIDE DEF want
<1>3. b.morphing = bin.morphing /\ b.actmorph = bin.actmorph /\ b \in Bins
  <2>1. /\ b.morphing = [bin EXCEPT !.actor = a].morphing
        /\ b.actmorph = [bin EXCEPT !.actor = a].actmorph
    BY <1>1, <1>2, SetDepthKeeps
  <2> QED  BY <1>1, <1>2, <2>1, SetDepthTyped DEF BinTypeOK, Bins
<1>4. bin' = [b EXCEPT !.depthforcedmain = b.depth, !.managed = managed]
  BY DEF Connect, want
<1> HIDE DEF b
<1> QED  BY <1>3, <1>4 DEF Bins

LEMMA ConnectsTyped ==
    ASSUME BinTypeOK, NEW a \in Actors,
           \/ \E name \in Plugins : visual_bin_connect_by_names(name, a)
           \/ \E name \in Plugins : connect_by_names_unknown_input(name, a)
           \/ visual_bin_connect(a)
    PROVE  BinTypeOK' /\ bin'.morphing = bin.morphing /\ bin'.actmorph = bin.actmorph
<1>1. \A plugin \in Plugins \cup {NULL} :
        [actor EXCEPT ![a] = visual_actor_new(plugin)] \in [Actors -> ActorRecords]
  BY NewActorTyped DEF BinTypeOK
<1>2. CASE \E name \in Plugins : visual_bin_connect_by_names(name, a)
  <2>1. PICK plugin \in Plugins \cup {NULL} :
            /\ Connect(a, [actor EXCEPT ![a] = visual_actor_new(plugin)], TRUE)
            /\ live' = live \cup {a}
            /\ UNCHANGED <<morph, mine, fault>>
    BY <1>2 DEF visual_bin_connect_by_names, Loaded
  <2> QED  BY <1>1, <2>1, ConnectTyped, ConnectKeeps DEF BinTypeOK
<1>3. CASE \E name \in Plugins : connect_by_names_unknown_input(name, a)
  <2>1. PICK plugin \in Plugins \cup {NULL} : actor' = [actor EXCEPT ![a] = visual_actor_new(plugin)]
    BY <1>3 DEF connect_by_names_unknown_input, Loaded
  <2> QED  BY <1>1, <1>3, <2>1 DEF connect_by_names_unknown_input, BinTypeOK
<1>4. CASE visual_bin_connect(a)
  <2>1. Connect(a, actor, FALSE) /\ fault' \in BOOLEAN /\ UNCHANGED <<morph, live, mine>>
    BY <1>4 DEF visual_bin_connect, Faulty
  <2> QED  BY <2>1, ConnectTyped, ConnectKeeps DEF BinTypeOK
<1> QED  BY <1>2, <1>3, <1>4

LEMMA RealizesTyped ==
    ASSUME BinTypeOK, visual_bin_realize
    PROVE  BinTypeOK' /\ bin' = bin
<1>1. bin.actor \in Actors  BY DEF visual_bin_realize, BinTypeOK, Bins
<1>2. actor' \in [Actors -> ActorRecords]
  BY <1>1, RealizeTyped DEF visual_bin_realize, BinTypeOK
<1> QED  BY <1>2 DEF visual_bin_realize, Faulty, BinTypeOK

LEMMA SetMorphTyped ==
    ASSUME BinTypeOK, NEW m \in Morphs,
           visual_bin_set_morph(m) \/ visual_bin_set_morph_by_name(m)
    PROVE  BinTypeOK' /\ bin'.morphing = bin.morphing /\ bin'.actmorph = bin.actmorph
<1>1. \A name \in MorphNames : visual_morph_new(name) # NULL => visual_morph_new(name) \in MorphRecords
  BY PoolAssumption DEF visual_morph_new, MorphRecords
<1>2. morph' \in [Morphs -> MorphRecords]
  <2>1. PICK name \in MorphNames :
           morph' = IF visual_morph_new(name) = NULL THEN morph
                    ELSE [morph EXCEPT ![m] = visual_morph_new(name)]
    BY Zenon DEF visual_bin_set_morph, visual_bin_set_morph_by_name
  <2> QED  BY <1>1, <2>1 DEF BinTypeOK
<1>3. PICK n \in Morphs \cup {NULL}, g \in BOOLEAN :
         bin' = [bin EXCEPT !.morph = n, !.morphmanaged = g]
  <2>1. CASE visual_bin_set_morph(m)
    <3>1. \E n \in {m, NULL} : bin' = [bin EXCEPT !.morph = n, !.morphmanaged = FALSE]
      BY <2>1, Zenon DEF visual_bin_set_morph
    <3> QED  BY <3>1
  <2>2. CASE visual_bin_set_morph_by_name(m)
    <3>1. \E n \in {m, NULL} : bin' = [bin EXCEPT !.morph = n, !.morphmanaged = TRUE]
      BY <2>2, Zenon DEF visual_bin_set_morph_by_name
    <3> QED  BY <3>1
  <2> QED  BY <2>1, <2>2
<1>4. bin' \in Bins  BY <1>3, BinFieldsTyped DEF BinTypeOK
<1>5. bin'.morphing = bin.morphing /\ bin'.actmorph = bin.actmorph
  BY <1>3 DEF BinTypeOK, Bins
<1>6. /\ live' \subseteq Actors \cup Videos \cup Morphs \cup Screens /\ fault' \in BOOLEAN
      /\ UNCHANGED <<actor, vdepth, mine>>
  BY DEF visual_bin_set_morph, visual_bin_set_morph_by_name, BinTypeOK, Faulty
<1> QED  BY <1>2, <1>4, <1>5, <1>6 DEF BinTypeOK

LEMMA UnknownNameTyped ==
    ASSUME BinTypeOK, switch_actor_by_unknown_name
    PROVE  BinTypeOK' /\ bin' = bin
<1>1. actor' \in [Actors -> ActorRecords]
  BY FreedTyped DEF switch_actor_by_unknown_name, BinTypeOK
<1> QED  BY <1>1 DEF switch_actor_by_unknown_name, Faulty, BinTypeOK

-----------------------------------------------------------------------------
(* Frames and syncs.                                                        *)

LEMMA FirstRealizeTyped ==
    ASSUME BinTypeOK, NEW act \in [Actors -> ActorRecords], NEW a \in Actors, NEW managed \in BOOLEAN
    PROVE  FirstRealize(act, a, managed) \in [Actors -> ActorRecords]
<1>1. [act EXCEPT ![a] = visual_actor_realize(@)] \in [Actors -> ActorRecords]
  BY RealizeTyped
<1>2. (IF managed THEN bin.depthforced ELSE 0) \in DepthValues
  BY NoneTyped DEF NONE, BinTypeOK, Bins
<1> QED  BY <1>1, <1>2, NegotiatedTyped DEF FirstRealize, BinTypeOK

LEMMA BothRealizedTyped ==
    ASSUME BinTypeOK, bin.actmorph # NULL
    PROVE  /\ NextRealized \in [Actors -> ActorRecords]
           /\ bin.actor # NULL => BothRealized \in [Actors -> ActorRecords]
<1>1. /\ bin.actmorph \in Actors /\ bin.actor \in Actors \cup {NULL}
      /\ bin.actmorphmanaged \in BOOLEAN /\ bin.managed \in BOOLEAN
      /\ actor \in [Actors -> ActorRecords]
  BY DEF BinTypeOK, Bins
<1>2. NextRealized \in [Actors -> ActorRecords]
  BY <1>1, FirstRealizeTyped DEF NextRealized
<1>3. bin.actor # NULL => BothRealized \in [Actors -> ActorRecords]
  BY <1>1, <1>2, FirstRealizeTyped DEF BothRealized
<1> QED  BY <1>2, <1>3

\* A morph gets no further than its end.
LEMMA MorphRunTyped ==
    ASSUME NEW mor \in [Morphs -> MorphRecords], NEW m \in Morphs,
           NEW rate \in visual_morph_run(mor[m])
    PROVE  [mor EXCEPT ![m].rate = rate] \in [Morphs -> MorphRecords]
<1>1. rate \in 0 .. MorphFrames
  BY PoolAssumption DEF visual_morph_run, MorphRecords
<1>2. [mor[m] EXCEPT !.rate = rate] \in MorphRecords
  BY <1>1 DEF MorphRecords
<1> QED  BY <1>2

LEMMA RunTyped ==
    ASSUME BinTypeOK, visual_bin_run, bin.morphing => bin.actmorph # NULL
    PROVE  BinTypeOK' /\ (bin'.morphing => bin'.actmorph # NULL)
<1>1. bin.actor # NULL => bin.actor \in Actors
  BY DEF BinTypeOK, Bins
<1>2. CASE RunRefused
  <2>1. actor' \in [Actors -> ActorRecords]
    BY <1>2, BothRealizedTyped DEF RunRefused, BinTypeOK
  <2> QED  BY <1>2, <2>1 DEF RunRefused, Faulty, BinTypeOK
<1>3. CASE RunSwitches
  <2>1. FrameFaulty(actor, {bin.actor, bin.actmorph}) \in BOOLEAN  BY DEF FrameFaulty, Faulty
  <2>2. bin.actmorph # NULL /\ bin.actor # NULL  BY <1>3 DEF RunSwitches, Pending
  <2>3. Finalize(BothRealized, morph, FrameFaulty(actor, {bin.actor, bin.actmorph}))
    BY <1>3 DEF RunSwitches
  <2>4. morph \in [Morphs -> MorphRecords]  BY DEF BinTypeOK
  <2> QED  BY <2>1, <2>2, <2>3, <2>4, BothRealizedTyped, FinalizeTyped
<1>4. CASE RunDraws
  <2> DEFINE act0 == IF bin.morphing THEN BothRealized ELSE actor
  <2>1. bin.actor # NULL /\ (bin.morphing => bin.actmorph # NULL)
    BY <1>4 DEF RunDraws, Pending
  <2>2. act0 \in [Actors -> ActorRecords]
    BY <2>1, BothRealizedTyped DEF BinTypeOK
  <2>3. actor' = [act0 EXCEPT ![bin.actor] = visual_actor_realize(@)]
    BY <1>4 DEF RunDraws
  <2>4. actor' \in [Actors -> ActorRecords]
    <3> HIDE DEF act0
    <3> QED  BY <1>1, <2>1, <2>2, <2>3, RealizeTyped
  <2> QED  BY <1>4, <2>1, <2>4 DEF RunDraws, FrameFaulty, Faulty, BinTypeOK
<1>5. CASE RunMorphs
  <2> DEFINE usable == bin.morph # NULL /\ morph[bin.morph].plugin
             bad    == \/ FrameFaulty(actor, {bin.actor, bin.actmorph})
                       \/ usable /\ Faulty({bin.morph, morph[bin.morph].dest}, live)
  <2>1. bin.actmorph # NULL /\ bin.actor # NULL  BY <1>5 DEF RunMorphs, Pending
  <2>2. bad \in BOOLEAN  BY DEF FrameFaulty, Faulty
  <2>3. BothRealized \in [Actors -> ActorRecords]  BY <2>1, BothRealizedTyped
  <2>4. morph \in [Morphs -> MorphRecords] /\ bin.morph \in Morphs \cup {NULL}
    BY DEF BinTypeOK, Bins
  <2>5. CASE ~usable
    <3>1. Finalize(BothRealized, morph, bad)  BY <1>5, <2>5 DEF RunMorphs
    <3> HIDE DEF bad
    <3> QED  BY <2>1, <2>2, <2>3, <2>4, <3>1, FinalizeTyped
  <2>6. CASE usable
    <3>1. PICK rate \in visual_morph_run(morph[bin.morph]) :
             \/ Finalize(BothRealized, [morph EXCEPT ![bin.morph].rate = rate], bad)
             \/ /\ morph' = [morph EXCEPT ![bin.morph].rate = rate]
                /\ actor' = BothRealized /\ fault' = bad
                /\ UNCHANGED <<bin, vdepth, live, mine>>
      BY <1>5, <2>6 DEF RunMorphs
    <3>2. [morph EXCEPT ![bin.morph].rate = rate] \in [Morphs -> MorphRecords]
      BY <2>4, <2>6, MorphRunTyped
    <3> HIDE DEF bad
    <3>3. CASE Finalize(BothRealized, [morph EXCEPT ![bin.morph].rate = rate], bad)
      BY <2>1, <2>2, <2>3, <3>2, <3>3, FinalizeTyped
    <3>4. CASE /\ morph' = [morph EXCEPT ![bin.morph].rate = rate]
               /\ actor' = BothRealized /\ fault' = bad
               /\ UNCHANGED <<bin, vdepth, live, mine>>
      BY <2>1, <2>2, <2>3, <3>2, <3>4 DEF BinTypeOK
    <3> QED  BY <3>1, <3>3, <3>4
  <2> QED  BY <2>5, <2>6
<1>6. CASE RunEmpty
  BY <1>6 DEF RunEmpty, Set, heap, BinTypeOK
<1> QED  BY <1>2, <1>3, <1>4, <1>5, <1>6 DEF visual_bin_run

LEMMA MorphMovesTyped ==
    ASSUME BinTypeOK
    PROVE  MorphMoves(bin, morph) \in [Morphs -> MorphRecords]
<1>1. /\ bin.actvideo \in Screens \cup {NULL} /\ bin.morph \in Morphs \cup {NULL}
      /\ morph \in [Morphs -> MorphRecords]
  BY DEF BinTypeOK, Bins
<1>2. bin.morph # NULL => [morph[bin.morph] EXCEPT !.dest = bin.actvideo] \in MorphRecords
  BY <1>1 DEF MorphRecords
<1> QED  BY <1>1, <1>2 DEF MorphMoves

LEMMA SyncTyped ==
    ASSUME BinTypeOK, visual_bin_sync \/ SyncRefused \/ SyncEmpty, bin.morphing => bin.actmorph # NULL
    PROVE  BinTypeOK' /\ bin' = bin
<1>1. CASE SyncRefused
  BY <1>1, MorphMovesTyped DEF SyncRefused, Faulty, BinTypeOK
<1>2. CASE visual_bin_sync
  <2> DEFINE bymorph == /\ bin.morphing /\ bin.style = "morph" /\ ~bin.depthfromGL
                        /\ DepthOf(vdepth, bin.actvideo) # GL
             nextGL  == DepthOf(vdepth, actor[bin.actmorph].video) = GL
             video   == IF bymorph /\ ~nextGL THEN bin.privvid ELSE bin.actvideo
             withnew == bin.actmorphmanaged /\ bin.morphing /\ bin.style = "morph"
                        /\ bin.actmorphvideo # NULL
             vd1 == IF bymorph THEN [vdepth EXCEPT ![bin.privvid] = DepthOf(vdepth, bin.actvideo)] ELSE vdepth
             vd2 == IF withnew THEN [vd1 EXCEPT ![bin.actmorphvideo] = DepthOf(vd1, video)] ELSE vd1
             run == IF bin.managed THEN bin.depthforcedmain ELSE 0
             forced == bin.managed \/ bin.depthold = GL
             set1 == [actor EXCEPT ![bin.actor] = visual_actor_set_video(@, video)]
             act1 == Negotiated(set1, vd1, bin.actor, run, forced)
             set2 == [act1 EXCEPT ![bin.actmorph] = visual_actor_realize(@)]
             act2 == Negotiated(set2, vd2, bin.actmorph, bin.depthforced, TRUE)
  <2>1. /\ bin.actor \in Actors /\ bin.actvideo \in Screens /\ bin.depthforced \in DepthValues
        /\ bin.depthforcedmain \in DepthValues /\ bin.managed \in BOOLEAN
        /\ bin.privvid \in Videos \cup {NULL} /\ (bymorph => bin.privvid \in Videos)
    BY <1>2 DEF visual_bin_sync, visual_video_clone, BinTypeOK, Bins
  <2>2. video \in Videos \cup Screens
    BY <2>1
  <2>3. vd1 \in [Videos \cup Screens -> DepthValues]
    <3>1. DepthOf(vdepth, bin.actvideo) \in DepthValues
      BY <2>1, DepthOfTyped DEF BinTypeOK
    <3> QED  BY <2>1, <3>1 DEF BinTypeOK
  <2>4. vd2 \in [Videos \cup Screens -> DepthValues]
    <3> HIDE DEF vd1, video, withnew
    <3>1. DepthOf(vd1, video) \in DepthValues
      BY <2>2, <2>3, DepthOfTyped
    <3> QED  BY <2>2, <2>3, <3>1
  <2>5. run \in DepthValues /\ forced \in BOOLEAN
    BY <2>1, NoneTyped DEF NONE
  <2>6. set1 \in [Actors -> ActorRecords]
    <3> HIDE DEF video
    <3>1. visual_actor_set_video(actor[bin.actor], video) \in ActorRecords
      BY <2>1, <2>2, SetVideoTyped DEF BinTypeOK
    <3> QED  BY <2>1, <3>1 DEF BinTypeOK
  <2>7. act1 \in [Actors -> ActorRecords]
    <3> HIDE DEF set1, vd1, run, forced
    <3> QED  BY <2>3, <2>5, <2>6, NegotiatedTyped
  <2>8. withnew => act2 \in [Actors -> ActorRecords]
    <3> HIDE DEF act1, vd2
    <3>1. withnew => bin.actmorph \in Actors  BY DEF BinTypeOK, Bins
    <3>2. withnew => set2 \in [Actors -> ActorRecords]
      BY <2>7, <3>1, RealizeTyped
    <3> HIDE DEF set2
    <3> QED  BY <2>1, <2>4, <3>2, NegotiatedTyped
  <2>9. vdepth' = vd2 /\ actor' = IF withnew THEN act2 ELSE act1
    BY <1>2 DEF visual_bin_sync, visual_video_clone
  <2>10. morph' \in [Morphs -> MorphRecords]
    <3>1. morph' = IF bymorph THEN MorphMoves(bin, morph) ELSE morph
      BY <1>2 DEF visual_bin_sync, visual_video_clone
    <3> QED  BY <3>1, MorphMovesTyped DEF BinTypeOK
  <2>11. fault' \in BOOLEAN /\ UNCHANGED <<bin, live, mine>>
    BY <1>2 DEF visual_bin_sync, visual_video_clone, Faulty
  <2> HIDE DEF vd2, act1, act2, withnew
  <2> QED  BY <2>4, <2>7, <2>8, <2>9, <2>10, <2>11 DEF BinTypeOK
<1>3. CASE SyncEmpty
  BY <1>3 DEF SyncEmpty, Set, heap, BinTypeOK
<1> QED  BY <1>1, <1>2, <1>3

LEMMA DtorTyped ==
    ASSUME BinTypeOK, bin_dtor
    PROVE  BinTypeOK'
<1>1. bin' \in Bins  BY DEF bin_dtor, BinTypeOK, Bins
<1>2. actor' \in [Actors -> ActorRecords]
  BY FreedTyped DEF bin_dtor, BinTypeOK
<1> QED  BY <1>1, <1>2 DEF bin_dtor, Faulty, BinTypeOK

LEMMA SwitchFinalizeTyped ==
    ASSUME BinTypeOK, visual_bin_switch_finalize
    PROVE  BinTypeOK' /\ bin'.morphing = FALSE
<1>1. Finalize(actor, morph, FALSE)
  BY DEF visual_bin_switch_finalize
<1>2. actor \in [Actors -> ActorRecords] /\ morph \in [Morphs -> MorphRecords]
  BY DEF BinTypeOK
<1> QED  BY <1>1, <1>2, FinalizeTyped

-----------------------------------------------------------------------------
(* Every client.                                                            *)

\* The inductive invariant: a pending switch has its new actor, which is what
\* keeps the bin from finishing a switch to nothing, until the client quits.
TypeInv == TypeOK /\ (stage # "done" /\ bin.morphing => bin.actmorph # NULL)

LEMMA TypeInit == ClientInit => TypeInv
<1> SUFFICES ASSUME ClientInit PROVE TypeInv
  OBVIOUS
<1>1. bin \in Bins /\ bin.morphing = FALSE
  BY NoneTyped DEF ClientInit, Init, Bins
<1>2. actor \in [Actors -> ActorRecords]
  BY NewActorTyped DEF ClientInit, Init
<1>3. vdepth \in [Videos \cup Screens -> DepthValues] /\ display \in DepthValues
  BY NoneTyped DEF ClientInit, Init
<1>4. [mode |-> "set", rate |-> 0, plugin |-> FALSE, dest |-> NULL] \in MorphRecords
  BY PoolAssumption DEF MorphRecords
<1>5. morph \in [Morphs -> MorphRecords]
  BY <1>4 DEF ClientInit, Init
<1> QED  BY <1>1, <1>2, <1>3, <1>5 DEF ClientInit, Init, TypeInv, TypeOK, BinTypeOK

\* A step of the client that leaves the bin's switch alone.
LEMMA TypeSteady ==
    ASSUME TypeInv, stage # "done", BinTypeOK',
           bin'.morphing = bin.morphing /\ bin'.actmorph = bin.actmorph,
           stage' \in {"setup", "connected", "realized", "stale", "looping"},
           display' \in DepthValues
    PROVE  TypeInv'
BY DEF TypeInv, TypeOK

LEMMA TypeNext == TypeInv /\ [ClientNext]_allvars => TypeInv'
<1> SUFFICES ASSUME TypeInv, [ClientNext]_allvars PROVE TypeInv'
  OBVIOUS
<1>1. BinTypeOK /\ display \in DepthValues
  BY DEF TypeInv, TypeOK
<1>2. CASE UNCHANGED allvars
  BY <1>2 DEF allvars, vars, heap, seen, clientvars, TypeInv, TypeOK, BinTypeOK
<1>3. CASE Setup \/ SetupPreference \/ SetupStyle \/ SetupMode
  <2>1. \/ \E flag \in DepthFlags : visual_bin_set_supported_depth(flag)
        \/ \E pref \in Preferences : visual_bin_set_preferred_depth(pref)
        \/ \E style \in Styles : visual_bin_switch_set_style(style)
        \/ \E mode \in Modes : visual_bin_switch_set_mode(mode)
    BY <1>3 DEF Setup, SetupPreference, SetupStyle, SetupMode
  <2>2. stage \in {"setup", "looping"} /\ UNCHANGED <<stage, display>>
    BY <1>3 DEF Setup, SetupPreference, SetupStyle, SetupMode, Stay, clientvars
  <2> QED  BY <1>1, <2>1, <2>2, SettingsTyped, TypeSteady
<1>4. CASE SetupVideo
  <2>1. \A flags \in SUBSET DepthBits : depth_get_lowest(flags) \in DepthValues
    BY DepthsTyped, NoneTyped
  <2>2. bin.depthflag \in SUBSET DepthBits /\ bin.depth \in DepthValues
    BY <1>1 DEF BinTypeOK, Bins
  <2>3. PICK screen \in Screens, depth \in DepthValues : visual_bin_set_video(screen, depth)
    BY <1>4, <2>1, <2>2 DEF SetupVideo
  <2>4. stage \in {"setup", "connected"} /\ UNCHANGED <<stage, display>>
    BY <1>4 DEF SetupVideo, Stay, clientvars
  <2> QED  BY <1>1, <2>3, <2>4, SetBinVideoTyped, TypeSteady
<1>5. CASE ConnectByNames \/ ConnectWithUnknownInput \/ ConnectOwn
  <2>1. PICK a \in Actors :
           \/ \E name \in Plugins : visual_bin_connect_by_names(name, a)
           \/ \E name \in Plugins : connect_by_names_unknown_input(name, a)
           \/ visual_bin_connect(a)
    BY <1>1, <1>5 DEF ConnectByNames, ConnectWithUnknownInput, ConnectOwn, BinTypeOK
  <2>2. stage = "setup" /\ stage' \in {"setup", "connected"} /\ display' = display
    BY <1>5 DEF ConnectByNames, ConnectWithUnknownInput, ConnectOwn, Stay, Goto, clientvars
  <2> QED  BY <1>1, <2>1, <2>2, ConnectsTyped, TypeSteady
<1>6. CASE Realize
  BY <1>1, <1>6, RealizesTyped, TypeSteady DEF Realize, Goto
<1>7. CASE SkipRealize
  <2>1. BinTypeOK' /\ bin' = bin
    BY <1>1, <1>7 DEF SkipRealize, vars, heap, seen, BinTypeOK
  <2> QED  BY <1>1, <1>7, <2>1, TypeSteady DEF SkipRealize, Goto
<1>8. CASE CatchUp
  <2>1. visual_bin_depth_changed /\ stage \in {"realized", "looping"} /\ stage' = "stale"
           /\ display' = bin.depth
    BY <1>8 DEF CatchUp
  <2>2. bin.depth \in DepthValues  BY <1>1 DEF BinTypeOK, Bins
  <2> QED  BY <1>1, <2>1, <2>2, SettingsTyped, TypeSteady
<1>9. CASE Sync \/ Resize
  <2>1. (visual_bin_sync \/ SyncRefused \/ SyncEmpty) /\ stage \in {"stale", "looping"}
           /\ stage' = "looping" /\ (display' = display \/ Resize)
    BY <1>9 DEF Sync, Resize, Goto
  <2>2. bin.morphing => bin.actmorph # NULL
    BY <2>1 DEF TypeInv
  <2>3. BinTypeOK' /\ bin' = bin
    BY <1>1, <2>1, <2>2, SyncTyped
  <2>4. display' \in DepthValues
    <3>1. CASE Resize
      <4>1. bin.actvideo \in Screens  BY <1>1, <3>1 DEF Resize, BinTypeOK, Bins
      <4> QED  BY <1>1, <3>1, <4>1 DEF Resize, BinTypeOK
    <3> QED  BY <1>1, <2>1, <3>1
  <2> QED  BY <2>1, <2>3, <2>4, TypeSteady
<1>10. CASE Frame
  <2>1. visual_bin_run /\ stage = "looping" /\ stage' = stage /\ display' = display
    BY <1>10 DEF Frame, Stay, clientvars
  <2>2. BinTypeOK' /\ (bin'.morphing => bin'.actmorph # NULL)
    BY <1>1, <2>1, RunTyped DEF TypeInv
  <2> QED  BY <1>1, <2>1, <2>2 DEF TypeInv, TypeOK
<1>11. CASE SetMorph \/ SetMorphByName
  <2>1. PICK m \in Morphs : visual_bin_set_morph(m) \/ visual_bin_set_morph_by_name(m)
    BY <1>11 DEF SetMorph, SetMorphByName
  <2>2. stage \in {"setup", "looping"} /\ stage' = stage /\ display' = display
    BY <1>11 DEF SetMorph, SetMorphByName, Stay, clientvars
  <2> QED  BY <1>1, <2>1, <2>2, SetMorphTyped, TypeSteady
<1>12. CASE SwitchByName \/ SwitchOwn
  <2>1. BinTypeOK' /\ bin'.actmorph \in Actors
    <3>1. CASE SwitchByName
      BY <1>1, <3>1, SwitchByNameTyped DEF SwitchByName
    <3>2. CASE SwitchOwn
      <4>1. PICK a \in mine : visual_bin_switch_actor(a)  BY <3>2 DEF SwitchOwn
      <4>2. SwitchActor(bin, vdepth, actor, live, a, FALSE) /\ UNCHANGED mine
        BY <4>1 DEF visual_bin_switch_actor
      <4>3. /\ a \in Actors /\ bin \in Bins /\ vdepth \in [Videos \cup Screens -> DepthValues]
            /\ actor \in [Actors -> ActorRecords]
            /\ live \in SUBSET (Actors \cup Videos \cup Morphs \cup Screens)
        BY <1>1, <4>1 DEF BinTypeOK
      <4> QED  BY <1>1, <4>2, <4>3, SwitchActorTyped
    <3> QED  BY <1>12, <3>1, <3>2
  <2>2. stage = "looping" /\ stage' = stage /\ display' = display
    BY <1>12 DEF SwitchByName, SwitchOwn, Stay, clientvars
  <2> QED  BY <1>1, <2>1, <2>2, PoolAssumption DEF TypeInv, TypeOK
<1>13. CASE SwitchByUnknownName
  BY <1>1, <1>13, UnknownNameTyped, TypeSteady DEF SwitchByUnknownName, Stay, clientvars
<1>14. CASE SwitchFinalize
  <2>1. visual_bin_switch_finalize /\ stage = "looping" /\ stage' = stage /\ display' = display
    BY <1>14 DEF SwitchFinalize, Stay, clientvars
  <2> QED  BY <1>1, <2>1, SwitchFinalizeTyped DEF TypeInv, TypeOK
<1>15. CASE NewActor \/ DropActor
  <2>1. PICK a \in Actors : (\E name \in Plugins : ClientNewActor(name, a)) \/ ClientUnrefActor(a)
    BY <1>1, <1>15 DEF NewActor, DropActor, BinTypeOK
  <2>2. stage \in {"setup", "looping"} /\ stage' = stage /\ display' = display
    BY <1>15 DEF NewActor, DropActor, Stay, clientvars
  <2> QED  BY <1>1, <2>1, <2>2, OwnActorsTyped, TypeSteady
<1>16. CASE Quit
  BY <1>1, <1>16, DtorTyped DEF Quit, Goto, TypeInv, TypeOK
<1> QED
  BY <1>2, <1>3, <1>4, <1>5, <1>6, <1>7, <1>8, <1>9, <1>10, <1>11, <1>12, <1>13, <1>14, <1>15,
     <1>16 DEF ClientNext

\* The bin, its actors and its videos have the values the code's types allow,
\* whatever the client calls and in whatever order, and with any plugins.
THEOREM TypeCorrect == ClientSpec => []TypeOK
<1>1. TypeInv => TypeOK  BY DEF TypeInv
<1> QED  BY <1>1, TypeInit, TypeNext, PTL DEF ClientSpec

-----------------------------------------------------------------------------
(* Managed clients.                                                        *)

\* The client's display has the depth of the bin, unless the client is still to
\* be told of a new depth.
DisplayFollows == stage \in {"stale", "looping"} => bin.depthchanged \/ bin.depth = display

\* What a morph mixes has the depth of the screen.
SwitchAlike ==
    bin.privvid # NULL => /\ vdepth[bin.privvid] = vdepth[bin.actvideo]
                          /\ vdepth[bin.actmorphvideo] = vdepth[bin.actvideo]

\* A new depth is announced, and an announcement is not taken back.
Told(b, c) == c.depthchanged \/ (~b.depthchanged /\ c.depth = b.depth)

\* What is allocated and what the bin points to change together.
Kept ==
    /\ bin'.managed = bin.managed /\ mine' = mine
    /\ (bin.managed \/ stage = "setup") /\ NothingLeaks => NothingLeaks'

\* What negotiation needs and gives: private surfaces of depths that the
\* plugin supports, and a rendered surface of one.
FlagsOf(act, a) == PluginDepth[act[a].plugin]
Matching(act, a) == {act[a].transform, act[a].fitting} \subseteq FlagsOf(act, a) \cup {NULL}
Fits(act, vd, a) == RenderSurface(act[a], vd[act[a].video]) \in FlagsOf(act, a)

\* Between two switches the plugin supports the depth of the screen.
Steady ==
    /\ Matching(actor, bin.actor)
    /\ bin.depth \in FlagsOf(actor, bin.actor) /\ bin.depthforcedmain \in FlagsOf(actor, bin.actor)

\* A pending switch: the old actor matters only in a morph that is not openGL,
\* and what it renders only when the client has caught up.
Changing ==
    /\ bin.depthforced \in FlagsOf(actor, bin.actmorph) /\ Matching(actor, bin.actmorph)
    /\ bin.style = "morph" /\ bin.depth # GL =>
          /\ bin.depthforcedmain \in FlagsOf(actor, bin.actor) /\ Matching(actor, bin.actor)
          /\ stage = "looping" /\ ~bin.depthchanged =>
                /\ Fits(actor, vdepth, bin.actor)
                /\ actor[bin.actmorph].realized => Fits(actor, vdepth, bin.actmorph)

SurfacesReady ==
    /\ stage \in {"realized", "stale", "looping"} => actor[bin.actor].realized
    /\ stage \notin {"setup", "done"} => IF bin.morphing THEN Changing ELSE Steady

\* Most steps do all of this.
Orderly == Told(bin, bin') /\ (SwitchAlike => SwitchAlike') /\ Kept

-----------------------------------------------------------------------------
(* Depths that the client supports.                                         *)

LEMMA OneBit ==
    ASSUME NEW d \in DepthBits \cup {NONE}
    PROVE  BitsOf(d) = DepthBits \cap {d}
<1>1. d # ERROR /\ d # IMPOSSIBLE
  BY DEF DepthBits, ERROR, IMPOSSIBLE, GL, NONE
<1> QED  BY <1>1 DEF BitsOf

\* A single depth is supported by a flag just when its bit is on.
LEMMA OneDepthSupported ==
    ASSUME NEW flag, NEW d \in DepthBits
    PROVE  depth_is_supported(flag, d) <=> d \in flag
<1>1. BitsOf(d) = {d}
  BY OneBit
<1>2. Cardinality(BitsOf(d)) = 1
  BY <1>1, FS_Singleton
<1> QED  BY <1>1, <1>2 DEF depth_is_supported, depth_is_sane

LEMMA PreferredInFlag ==
    ASSUME NEW b, NEW flags \in SUBSET DepthBits, flags # {}
    PROVE  bin_get_depth_using_preferred(b, flags) \in flags
<1>1. depth_get_highest(flags) \in flags
  BY HighestIsMember DEF depth_get_highest
<1>2. depth_get_lowest(flags) \in flags
  <2>1. {d \in flags : d > NONE} = flags
    <3>1. \A d \in DepthBits : d > NONE  BY DEF DepthBits, GL, NONE
    <3> QED  BY <3>1
  <2>2. depth_is_sane(NONE)
    <3>1. DepthBits \cap {NONE} = {}  BY DEF NONE, DepthBits, GL
    <3>2. BitsOf(NONE) = {}  BY <3>1, OneBit
    <3>3. Cardinality({}) = 0  BY FS_EmptySet
    <3> QED  BY <3>2, <3>3 DEF depth_is_sane
  <2> QED  BY <2>1, <2>2, LowestIsMember DEF depth_get_lowest, depth_get_next
<1> QED  BY <1>1, <1>2 DEF bin_get_depth_using_preferred

\* The bin takes a depth that the client supports as it is.
LEMMA FixKeeps ==
    ASSUME NEW b, NEW d \in DepthBits, d \in b.depthflag
    PROVE  fix_depth_with_bin(b, d) = d
BY OneBit DEF fix_depth_with_bin

LEMMA SetDepthSupported ==
    ASSUME NEW b \in Bins, NEW d \in DepthBits, d \in b.depthflag
    PROVE  /\ visual_bin_set_depth(b, d).depth = d
           /\ visual_bin_set_depth(b, d).depthfromGL => b.depth = GL
<1>1. depth_is_supported(b.depthflag, d)  BY OneDepthSupported
<1> QED  BY <1>1 DEF visual_bin_set_depth, Bins

LEMMA SetDepthForces ==
    ASSUME NEW b \in Bins, NEW d \in DepthValues
    PROVE  /\ visual_bin_set_depth(b, d).depthforced = b.depthforced
           /\ visual_bin_set_depth(b, d).depthforcedmain = b.depthforcedmain
BY DEF visual_bin_set_depth, Bins

LEMMA SetDepthTells ==
    ASSUME NEW b \in Bins, NEW d \in DepthValues
    PROVE  Told(b, visual_bin_set_depth(b, d))
BY DEF Told, visual_bin_set_depth, Bins

\* The depth the bin chooses for a plugin of a managed client.
LEMMA ChosenDepth ==
    ASSUME ManagedClient, NEW b, b.depthflag \in DepthFlags, NEW p \in Plugins
    PROVE  LET want == bin_get_depth_using_preferred(b, PluginDepth[p])
           IN  /\ want \in PluginDepth[p] /\ want \in b.depthflag /\ want \in DepthBits
               /\ fix_depth_with_bin(b, want) = want
<1>1. /\ PluginDepth[p] \in SUBSET DepthBits /\ PluginDepth[p] # {}
      /\ PluginDepth[p] \subseteq b.depthflag
  BY PluginAssumption DEF ManagedClient
<1> QED  BY <1>1, PreferredInFlag, FixKeeps

-----------------------------------------------------------------------------
(* What an operation keeps of the actors.                                   *)

LEMMA NegotiateKeeps ==
    ASSUME NEW act \in ActorRecords, NEW d, NEW run, NEW forced
    PROVE  LET n == visual_actor_video_negotiate(act, d, run, forced)
           IN  n.video = act.video /\ n.plugin = act.plugin /\ (act.realized => n.realized)
BY DEF visual_actor_video_negotiate, ActorRecords

LEMMA NegotiatedKeeps ==
    ASSUME NEW act \in [Actors -> ActorRecords], NEW vd, NEW a, NEW run,
           NEW forced \in BOOLEAN, NEW x \in Actors
    PROVE  LET n == Negotiated(act, vd, a, run, forced)
           IN  /\ n[x].video = act[x].video /\ n[x].plugin = act[x].plugin
               /\ act[x].realized => n[x].realized
<1>1. act[x] \in ActorRecords  OBVIOUS
<1>2. CASE a = x
  <2>1. Negotiated(act, vd, a, run, forced)[x]
          = visual_actor_video_negotiate(act[x], DepthOf(vd, act[x].video), run, forced)
    BY <1>2 DEF Negotiated
  <2> QED  BY <1>1, <2>1, NegotiateKeeps
<1>3. CASE a # x
  BY <1>3 DEF Negotiated
<1> QED  BY <1>2, <1>3

LEMMA RealizeKeeps ==
    ASSUME NEW act \in [Actors -> ActorRecords], NEW a, NEW x \in Actors
    PROVE  LET r == [act EXCEPT ![a] = visual_actor_realize(@)]
           IN  r[x].video = act[x].video /\ r[x].plugin = act[x].plugin
<1>1. \A act1 \in ActorRecords : /\ visual_actor_realize(act1).video = act1.video
                                 /\ visual_actor_realize(act1).plugin = act1.plugin
  BY DEF visual_actor_realize, ActorRecords
<1>2. CASE a = x  BY <1>1, <1>2
<1>3. CASE a # x  BY <1>3
<1> QED  BY <1>2, <1>3

LEMMA FirstRealizeKeeps ==
    ASSUME BinTypeOK, NEW act \in [Actors -> ActorRecords], NEW a \in Actors,
           NEW managed \in BOOLEAN, NEW x \in Actors
    PROVE  LET r == FirstRealize(act, a, managed)
           IN  r[x].video = act[x].video /\ r[x].plugin = act[x].plugin
<1> DEFINE r1 == [act EXCEPT ![a] = visual_actor_realize(@)]
           run == IF managed THEN bin.depthforced ELSE 0
<1>1. r1 \in [Actors -> ActorRecords]  BY RealizeTyped
<1>2. r1[x].video = act[x].video /\ r1[x].plugin = act[x].plugin  BY RealizeKeeps
<1>3. FirstRealize(act, a, managed) = IF act[a].realized THEN act
                                      ELSE Negotiated(r1, vdepth, a, run, managed)
  BY DEF FirstRealize
<1> HIDE DEF r1, run
<1> QED  BY <1>1, <1>2, <1>3, NegotiatedKeeps

LEMMA BothRealizedKeeps ==
    ASSUME BinTypeOK, bin.actor # NULL, bin.actmorph # NULL, NEW x \in Actors
    PROVE  /\ BothRealized[x].video = actor[x].video
           /\ BothRealized[x].plugin = actor[x].plugin
<1>1. /\ bin.actmorph \in Actors /\ bin.actor \in Actors
      /\ bin.actmorphmanaged \in BOOLEAN /\ bin.managed \in BOOLEAN
      /\ actor \in [Actors -> ActorRecords]
  BY DEF BinTypeOK, Bins
<1>2. NextRealized \in [Actors -> ActorRecords]
  BY BothRealizedTyped
<1>3. NextRealized[x].video = actor[x].video /\ NextRealized[x].plugin = actor[x].plugin
  BY <1>1, FirstRealizeKeeps DEF NextRealized
<1>4. BothRealized[x].video = NextRealized[x].video /\ BothRealized[x].plugin = NextRealized[x].plugin
  BY <1>1, <1>2, FirstRealizeKeeps DEF BothRealized
<1> QED  BY <1>3, <1>4

-----------------------------------------------------------------------------
(* What negotiation gives a plugin to render to.                            *)

\* A supported depth is one of the flags, also when it is an error code.
LEMMA SupportedMember ==
    ASSUME NEW d \in DepthValues, NEW flags \in SUBSET DepthBits, depth_is_supported(flags, d)
    PROVE  d \in flags
<1>1. CASE d \in DepthBits \cup {NONE}
  <2>1. BitsOf(d) = DepthBits \cap {d}  BY <1>1, OneBit
  <2> QED  BY <2>1 DEF depth_is_supported
<1>2. CASE d \in {ERROR, IMPOSSIBLE}
  <2>1. {1, 4} \subseteq BitsOf(d) /\ BitsOf(d) \subseteq 1..16
    BY <1>2 DEF BitsOf, DepthBits, GL, ERROR, IMPOSSIBLE
  <2>2. IsFiniteSet(1..16)
    <3>1. 1 \in Int /\ 16 \in Int  OBVIOUS
    <3> QED  BY <3>1, FS_Interval
  <2>3. IsFiniteSet(BitsOf(d))
    BY <2>1, <2>2, FS_Subset
  <2>4. Cardinality({1}) = 1 /\ IsFiniteSet({1})
    BY FS_Singleton
  <2>5. Cardinality({1, 4}) = 2
    <3>1. {1, 4} = {1} \cup {4} /\ 4 \notin {1}  OBVIOUS
    <3>2. Cardinality({1} \cup {4}) = IF 4 \in {1} THEN Cardinality({1}) ELSE Cardinality({1}) + 1
      BY <2>4, FS_AddElement, Zenon
    <3>3. Cardinality({1} \cup {4}) = 1 + 1
      BY <2>4, <3>1, <3>2
    <3>4. 1 + 1 = 2  OBVIOUS
    <3> QED  BY <3>1, <3>3, <3>4
  <2>6. Cardinality({1, 4}) <= Cardinality(BitsOf(d))
    BY <2>1, <2>3, FS_Subset
  <2>7. Cardinality(BitsOf(d)) \in Nat
    BY <2>3, FS_CardinalityType
  <2> QED  BY <2>5, <2>6, <2>7 DEF depth_is_supported, depth_is_sane
<1> QED  BY <1>1, <1>2 DEF DepthValues

\* Negotiation with a depth the plugin supports ends with one.
LEMMA NegotiateFits ==
    ASSUME NEW r \in ActorRecords, r.plugin \in Plugins, NEW d \in DepthValues,
           NEW run \in PluginDepth[r.plugin]
    PROVE  LET n == visual_actor_video_negotiate(r, d, run, TRUE)
           IN  /\ n.realized = r.realized
               /\ {r.transform, r.fitting} \subseteq PluginDepth[r.plugin] \cup {NULL}
                     => {n.transform, n.fitting} \subseteq PluginDepth[r.plugin] \cup {NULL}
               /\ r.video # NULL => RenderSurface(n, d) \in PluginDepth[r.plugin]
<1> DEFINE flags == PluginDepth[r.plugin]
           n     == visual_actor_video_negotiate(r, d, run, TRUE)
           bare  == [r EXCEPT !.transform = NULL, !.fitting = NULL]
<1>1. /\ visual_actor_get_supported_depth(r) = flags /\ flags \in SUBSET DepthBits
      /\ r.plugin # NULL /\ NULL \notin DepthValues /\ run \in DepthValues
  BY PluginAssumption DEF visual_actor_get_supported_depth, DepthValues
<1>2. depth_is_supported(flags, d) => d \in flags
  BY <1>1, SupportedMember
<1>3. \/ n = r /\ r.video = NULL
      \/ n = [bare EXCEPT !.transform = run] /\ (~depth_is_supported(flags, d) \/ d # run)
      \/ n \in {[bare EXCEPT !.fitting = d], bare} /\ d \in flags
  <2> HIDE DEF bare, flags
  <2>1. n = IF r.plugin = NULL \/ r.video = NULL THEN r
            ELSE IF ~depth_is_supported(flags, d) \/ d # run
                 THEN [bare EXCEPT !.transform = run]
            ELSE IF r.plugin \in FixedSize /\ d # GL
                 THEN [bare EXCEPT !.fitting = d]
            ELSE bare
    BY <1>1 DEF visual_actor_video_negotiate, bare
  <2> HIDE DEF n
  <2>2. CASE r.video = NULL  BY <2>1, <2>2
  <2>3. CASE r.video # NULL /\ (~depth_is_supported(flags, d) \/ d # run)
    BY <1>1, <2>1, <2>3
  <2>4. CASE r.video # NULL /\ depth_is_supported(flags, d) /\ d = run
    BY <1>1, <1>2, <2>1, <2>4
  <2> QED  BY <2>2, <2>3, <2>4
<1>4. /\ bare.transform = NULL /\ bare.fitting = NULL /\ bare.realized = r.realized
      /\ bare \in ActorRecords
  BY DEF ActorRecords
<1>5. d \in flags => depth_is_supported(flags, d)
  BY <1>1, OneDepthSupported
<1> HIDE DEF bare, n, flags
<1>6. CASE n = r /\ r.video = NULL
  BY <1>6 DEF n, flags
<1>7. CASE n = [bare EXCEPT !.transform = run] /\ (d \notin flags \/ d # run)
  <2>1. n.transform = run /\ n.fitting = NULL /\ n.realized = r.realized /\ run # NULL /\ run \in flags
    BY <1>1, <1>4, <1>7 DEF ActorRecords, flags
  <2>2. run # d  BY <1>7, <2>1
  <2> QED  BY <2>1, <2>2 DEF n, flags, RenderSurface
<1>8. CASE n \in {[bare EXCEPT !.fitting = d], bare} /\ d \in flags
  <2>1. n.transform = NULL /\ n.fitting \in {d, NULL} /\ n.realized = r.realized
    BY <1>4, <1>8 DEF ActorRecords
  <2> QED  BY <1>8, <2>1 DEF n, flags, RenderSurface
<1> QED  BY <1>3, <1>5, <1>6, <1>7, <1>8

\* Matching surfaces, and a video of a depth that the plugin supports.
LEMMA MatchingFits ==
    ASSUME NEW r, NEW flags, NEW d \in flags, {r.transform, r.fitting} \subseteq flags \cup {NULL}
    PROVE  RenderSurface(r, d) \in flags
BY DEF RenderSurface

\* An actor negotiated with the depth it is to run at.
Forced(act, vd, a, run) == Negotiated(act, vd, a, run, TRUE)

LEMMA NegotiatedFits ==
    ASSUME NEW act \in [Actors -> ActorRecords], NEW vd \in [Videos \cup Screens -> DepthValues],
           NEW a \in Actors, act[a].plugin \in Plugins, NEW run \in FlagsOf(act, a)
    PROVE  LET n == Forced(act, vd, a, run)
           IN  /\ act[a].realized => n[a].realized
               /\ n[a].video = act[a].video
               /\ FlagsOf(n, a) = FlagsOf(act, a)
               /\ Matching(act, a) => Matching(n, a)
               /\ act[a].video # NULL => Fits(n, vd, a)
               /\ \A x \in Actors \ {a} : n[x] = act[x]
<1> DEFINE n == Forced(act, vd, a, run)
           d == DepthOf(vd, act[a].video)
<1>1. act[a] \in ActorRecords /\ act[a].video \in Videos \cup Screens \cup {NULL}
  BY DEF ActorRecords
<1>2. d \in DepthValues  BY <1>1, NoneTyped DEF DepthOf, NONE
<1>3. /\ n[a] = visual_actor_video_negotiate(act[a], d, run, TRUE)
      /\ \A x \in Actors \ {a} : n[x] = act[x]
  BY DEF Negotiated, Forced
<1>4. n[a].video = act[a].video /\ n[a].plugin = act[a].plugin
  <2>1. \A f \in BOOLEAN : LET m == visual_actor_video_negotiate(act[a], d, run, f)
                           IN  m.video = act[a].video /\ m.plugin = act[a].plugin
    BY <1>1, NegotiateKeeps
  <2>2. TRUE \in BOOLEAN  OBVIOUS
  <2> HIDE DEF n, d
  <2> QED  BY <1>3, <2>1, <2>2
<1>5. act[a].video # NULL => d = vd[act[a].video]  BY DEF DepthOf
<1> HIDE DEF n, d
<1>6. /\ n[a].realized = act[a].realized
      /\ Matching(act, a) => {n[a].transform, n[a].fitting} \subseteq PluginDepth[act[a].plugin] \cup {NULL}
      /\ act[a].video # NULL => RenderSurface(n[a], d) \in PluginDepth[act[a].plugin]
  <2>1. run \in PluginDepth[act[a].plugin]  BY DEF FlagsOf
  <2>2. LET m == visual_actor_video_negotiate(act[a], d, run, TRUE)
        IN  /\ m.realized = act[a].realized
            /\ {act[a].transform, act[a].fitting} \subseteq PluginDepth[act[a].plugin] \cup {NULL}
                  => {m.transform, m.fitting} \subseteq PluginDepth[act[a].plugin] \cup {NULL}
            /\ act[a].video # NULL => RenderSurface(m, d) \in PluginDepth[act[a].plugin]
    BY <1>1, <1>2, <2>1, NegotiateFits
  <2> QED  BY <1>3, <2>2 DEF Matching, FlagsOf
<1>7. FlagsOf(n, a) = FlagsOf(act, a)  BY <1>4 DEF FlagsOf
<1>8. Matching(act, a) => Matching(n, a)  BY <1>6, <1>7 DEF Matching, FlagsOf
<1>9. act[a].video # NULL => Fits(n, vd, a)
  <2> HAVE act[a].video # NULL
  <2>1. RenderSurface(n[a], vd[n[a].video]) = RenderSurface(n[a], d)  BY <1>4, <1>5
  <2>2. RenderSurface(n[a], d) \in FlagsOf(n, a)  BY <1>6, <1>7 DEF FlagsOf
  <2> QED  BY <2>1, <2>2 DEF Fits
<1> QED  BY <1>3, <1>4, <1>6, <1>7, <1>8, <1>9 DEF n

\* Realizing an actor and giving it a video leave its surfaces alone.
SameSurfaces(r, s) ==
    r.plugin = s.plugin /\ r.transform = s.transform /\ r.fitting = s.fitting

LEMMA SurfacesKept ==
    ASSUME NEW r \in ActorRecords, NEW v \in Videos \cup Screens \cup {NULL}
    PROVE  /\ LET s == visual_actor_set_video(r, v)
              IN  SameSurfaces(s, r) /\ (r.realized => s.realized) /\ s.video = v
           /\ LET s == visual_actor_realize(r)
              IN  SameSurfaces(s, r) /\ s.video = r.video /\ (r.plugin # NULL => s.realized)
BY DEF visual_actor_set_video, visual_actor_realize, ActorRecords, SameSurfaces

LEMMA MatchingKept ==
    ASSUME NEW act, NEW set, NEW a, SameSurfaces(set[a], act[a])
    PROVE  FlagsOf(set, a) = FlagsOf(act, a) /\ (Matching(set, a) <=> Matching(act, a))
BY DEF SameSurfaces, Matching, FlagsOf

-----------------------------------------------------------------------------
(* A finished switch.                                                       *)

\* What a pending switch means for the pointers of the bin.
LEMMA MidSwitch ==
    ASSUME BinTypeOK, Consistent, bin.morphing
    PROVE  /\ bin.actor \in Actors /\ bin.actmorph \in Actors /\ bin.actmorph # bin.actor
           /\ bin.actvideo \in Screens /\ bin.actmorphvideo \in Videos
           /\ bin.privvid \in Videos \cup {NULL} /\ bin.morph \in Morphs \cup {NULL}
           /\ bin.actmorphmanaged /\ bin.actmorph \notin mine /\ mine \subseteq Actors
           /\ bin.depthflag \in DepthFlags
           /\ Reachable \ {NULL} \subseteq live /\ Screens \subseteq live /\ mine \subseteq live
           /\ actor[bin.actmorph].plugin \in Plugins /\ actor[bin.actor].plugin \in Plugins
           /\ actor[bin.actmorph].video = bin.actmorphvideo
           /\ actor[bin.actor].video \in {bin.actvideo, bin.privvid} \ {NULL}
<1>1. stage \in {"stale", "looping"}
  BY DEF Consistent, StageAgrees
<1>2. bin.actor # NULL /\ bin.actvideo # NULL /\ bin.actmorph # NULL /\ bin.actmorphvideo # NULL
  BY <1>1 DEF Consistent, StageAgrees, SwitchWhole
<1>3. /\ bin.actor \in Actors /\ bin.actmorph \in Actors /\ bin.actvideo \in Screens
      /\ bin.actmorphvideo \in Videos
      /\ bin.privvid \in Videos \cup {NULL} /\ bin.morph \in Morphs \cup {NULL}
  BY <1>2 DEF BinTypeOK, Bins
<1>4. /\ bin.actmorph # bin.actor /\ bin.actmorph \notin mine /\ mine \subseteq Actors
      /\ bin.actmorphmanaged /\ bin.depthflag \in DepthFlags
  BY <1>1 DEF Consistent, ActorsApart, SwitchWhole, StageAgrees, BinTypeOK
<1>5. Reachable \ {NULL} \subseteq live /\ Screens \subseteq live /\ mine \subseteq live
  BY DEF Consistent, PointersLive
<1>6. bin.actor \in live /\ bin.actmorph \in live
  BY <1>2, <1>5 DEF Reachable
<1>7. actor[bin.actmorph].plugin \in Plugins /\ actor[bin.actor].plugin \in Plugins
  BY <1>3, <1>6 DEF Consistent, PointersLive, BinTypeOK, ActorRecords
<1>8. /\ actor[bin.actmorph].video = bin.actmorphvideo
      /\ actor[bin.actor].video \in {bin.actvideo, bin.privvid} \ {NULL}
  BY DEF Consistent, SwitchWhole
<1> QED  BY <1>3, <1>4, <1>5, <1>7, <1>8

\* The fields of the bin after the old actor has been retired.
LEMMA RetiredFields ==
    ASSUME NEW b \in Bins, b.actmorphmanaged, NEW d \in DepthValues
    PROVE  LET r == [visual_bin_set_depth(Retired(b), d) EXCEPT !.depthforcedmain = d]
           IN  /\ r.actor = b.actmorph /\ r.actmorph = NULL /\ r.privvid = NULL
               /\ r.actmorphvideo = NULL /\ r.morphing = FALSE /\ r.actvideo = b.actvideo
               /\ r.managed = b.managed /\ r.depthflag = b.depthflag
               /\ r.morph = IF b.morphmanaged THEN NULL ELSE b.morph
               /\ r.depth = visual_bin_set_depth(Retired(b), d).depth
               /\ r.depthchanged = visual_bin_set_depth(Retired(b), d).depthchanged
<1> DEFINE s == visual_bin_set_depth(Retired(b), d)
<1>1. Retired(b) \in Bins  BY RetiredTyped
<1>2. /\ Retired(b).actor = b.actmorph /\ Retired(b).actmorph = NULL /\ Retired(b).privvid = NULL
      /\ Retired(b).actmorphvideo = NULL /\ Retired(b).morphing = FALSE
      /\ Retired(b).actvideo = b.actvideo /\ Retired(b).managed = b.managed
      /\ Retired(b).depthflag = b.depthflag
      /\ Retired(b).morph = IF b.morphmanaged THEN NULL ELSE b.morph
  BY DEF Retired, Bins
<1>3. /\ s.actor = Retired(b).actor /\ s.actmorph = Retired(b).actmorph
      /\ s.privvid = Retired(b).privvid /\ s.actmorphvideo = Retired(b).actmorphvideo
      /\ s.morphing = Retired(b).morphing /\ s.actvideo = Retired(b).actvideo
      /\ s.managed = Retired(b).managed /\ s.depthflag = Retired(b).depthflag
      /\ s.morph = Retired(b).morph
  BY <1>1, SetDepthKeeps
<1>4. s \in Bins  BY <1>1, SetDepthTyped
<1>5. \A c \in Bins : LET r == [c EXCEPT !.depthforcedmain = d]
                      IN  /\ r.actor = c.actor /\ r.actmorph = c.actmorph /\ r.privvid = c.privvid
                          /\ r.actmorphvideo = c.actmorphvideo /\ r.morphing = c.morphing
                          /\ r.actvideo = c.actvideo /\ r.managed = c.managed
                          /\ r.depthflag = c.depthflag /\ r.morph = c.morph
                          /\ r.depth = c.depth /\ r.depthchanged = c.depthchanged
  BY DEF Bins
<1> HIDE DEF s
<1> QED
  <2>1. LET r == [s EXCEPT !.depthforcedmain = d]
        IN  /\ r.actor = s.actor /\ r.actmorph = s.actmorph /\ r.privvid = s.privvid
            /\ r.actmorphvideo = s.actmorphvideo /\ r.morphing = s.morphing
            /\ r.actvideo = s.actvideo /\ r.managed = s.managed
            /\ r.depthflag = s.depthflag /\ r.morph = s.morph
            /\ r.depth = s.depth /\ r.depthchanged = s.depthchanged
    BY <1>4, <1>5
  <2> QED  BY <1>2, <1>3, <2>1 DEF s

\* The new actor has taken the place of the old one, with its plugin.
TookOver ==
    /\ bin'.actor = bin.actmorph /\ bin'.actmorph = NULL /\ ~bin'.morphing
    /\ actor'[bin.actmorph].plugin = actor[bin.actmorph].plugin

\* A client in its loop has not lost its actor.
LEMMA NotEmpty ==
    ASSUME Consistent, stage # "setup"
    PROVE  ~RunEmpty /\ ~SyncEmpty
BY DEF RunEmpty, SyncEmpty, Consistent, StageAgrees

\* The end of a switch follows no bad pointer, and leaves a bin whose screen has
\* a depth that the new actor wants and the client supports.
LEMMA FinalizeSafe ==
    ASSUME ManagedClient, BinTypeOK, Consistent, bin.morphing, BinTypeOK',
           NEW act \in [Actors -> ActorRecords],
           \A x \in Actors : act[x].plugin = actor[x].plugin,
           NEW mor, NEW bad \in BOOLEAN, ~bad, Finalize(act, mor, bad),
           stage' = "looping"
    PROVE  ~fault' /\ Consistent' /\ Orderly /\ TookOver
<1> DEFINE freed == Retires(bin)
           next  == bin.actmorph
           flags == visual_actor_get_supported_depth(act[next])
           depth == fix_depth_with_bin(bin, bin_get_depth_using_preferred(bin, flags))
           b     == visual_bin_set_depth(Retired(bin), depth)
           vd    == [vdepth EXCEPT ![bin.actvideo] = depth]
           set   == [Freed(act, freed) EXCEPT ![next] = visual_actor_set_video(@, bin.actvideo)]
<1>1. /\ bin.actor \in Actors /\ next \in Actors /\ next # bin.actor
      /\ bin.actvideo \in Screens /\ bin.actmorphvideo \in Videos
      /\ bin.privvid \in Videos \cup {NULL} /\ bin.morph \in Morphs \cup {NULL}
      /\ bin.actmorphmanaged /\ next \notin mine /\ mine \subseteq Actors
      /\ bin.depthflag \in DepthFlags /\ bin \in Bins
      /\ Reachable \ {NULL} \subseteq live /\ Screens \subseteq live /\ mine \subseteq live
      /\ actor[next].plugin \in Plugins
  BY MidSwitch DEF BinTypeOK
<1>2. freed \subseteq live /\ next \notin freed /\ freed \cap Screens = {} /\ freed \cap mine = {}
  <2>1. freed \subseteq Reachable \ {NULL}
    BY <1>1, PoolAssumption DEF Retires, Reachable
  <2>2. next \notin freed /\ freed \cap Screens = {}
    BY <1>1, PoolAssumption DEF Retires
  <2>3. freed \cap mine = {}
    BY <1>1, PoolAssumption DEF Retires, Consistent, ActorsApart
  <2> QED  BY <1>1, <2>1, <2>2, <2>3
<1>3. depth \in DepthBits /\ depth \in bin.depthflag
  <2>1. flags = PluginDepth[actor[next].plugin]
    BY <1>1, PluginAssumption DEF visual_actor_get_supported_depth
  <2> QED  BY <1>1, <2>1, ChosenDepth
<1>4. b.depth = depth /\ Told(bin, b)
  <2>1. /\ Retired(bin) \in Bins /\ Retired(bin).depthflag = bin.depthflag
        /\ Retired(bin).depth = bin.depth /\ Retired(bin).depthchanged = bin.depthchanged
    <3>1. \A c \in Bins : /\ Retired(c).depthflag = c.depthflag
                          /\ Retired(c).depth = c.depth /\ Retired(c).depthchanged = c.depthchanged
      BY DEF Retired, Bins
    <3> QED  BY <1>1, <3>1, RetiredTyped
  <2> HIDE DEF depth
  <2>2. Told(Retired(bin), b)  BY <1>3, <2>1, SetDepthTells DEF DepthValues
  <2> QED  BY <1>3, <2>1, <2>2, SetDepthSupported DEF Told
<1>5. /\ bin' = [b EXCEPT !.depthforcedmain = depth] /\ vdepth' = vd
      /\ actor' = (IF b.depthchanged THEN Negotiated(set, vd, next, depth, TRUE) ELSE set)
      /\ live' = live \ freed /\ mine' = mine
      /\ fault' = (bad \/ Faulty(freed, live) \/ Faulty({next, bin.actvideo}, live \ freed))
  <2>1. bin.actmorph # NULL  BY <1>1, PoolAssumption
  <2>2. bin' = [b EXCEPT !.depthforcedmain = depth] /\ vdepth' = vd
    BY <2>1, SwitchEnds
  <2>3. actor' = (IF b.depthchanged THEN Negotiated(set, vd, next, depth, TRUE) ELSE set)
    BY <2>1, SwitchEnds
  <2>4. live' = live \ freed /\ mine' = mine
    BY <2>1, SwitchEnds
  <2>5. fault' = (bad \/ Faulty(freed, live) \/ Faulty({next, bin.actvideo}, live \ freed))
    <3> HIDE DEF flags, depth, b, vd, set
    <3> QED  BY <2>1, SwitchEnds
  <2> HIDE DEF flags, depth, b, vd, set
  <2> QED  BY <2>2, <2>3, <2>4, <2>5
<1>6. /\ bin'.actor = next /\ bin'.actmorph = NULL /\ bin'.privvid = NULL
      /\ bin'.actmorphvideo = NULL /\ bin'.morphing = FALSE /\ bin'.actvideo = bin.actvideo
      /\ bin'.managed = bin.managed /\ bin'.depthflag = bin.depthflag
      /\ bin'.morph = (IF bin.morphmanaged THEN NULL ELSE bin.morph) /\ bin'.depth = depth
      /\ bin'.depthchanged = b.depthchanged
  <2>1. depth \in DepthValues  BY <1>3 DEF DepthValues
  <2> HIDE DEF depth
  <2> QED  BY <1>1, <1>4, <1>5, <2>1, RetiredFields
<1>7. ~fault'
  <2>1. next \in live  BY <1>1, PoolAssumption DEF Reachable
  <2> QED  BY <1>1, <1>2, <1>5, <2>1 DEF Faulty
<1>8. \A x \in Actors \cap live' : /\ actor'[x].plugin = actor[x].plugin
                                  /\ actor'[x].plugin # NULL
  <2> SUFFICES ASSUME NEW x \in Actors, x \in live'
               PROVE  actor'[x].plugin = actor[x].plugin /\ actor'[x].plugin # NULL
    OBVIOUS
  <2>1. x \in live /\ x \notin freed  BY <1>5
  <2>2. act[x].plugin = actor[x].plugin /\ act[x].plugin # NULL
    BY <2>1 DEF Consistent, PointersLive
  <2>3. Freed(act, freed)[x] = act[x] /\ Freed(act, freed) \in [Actors -> ActorRecords]
    BY <2>1, FreedTyped DEF Freed
  <2>4. set[x].plugin = act[x].plugin /\ set \in [Actors -> ActorRecords]
    <3>1. visual_actor_set_video(Freed(act, freed)[next], bin.actvideo) \in ActorRecords
      BY <1>1, <2>3, SetVideoTyped
    <3>2. set \in [Actors -> ActorRecords]  BY <1>1, <2>3, <3>1
    <3>3. act[x] \in ActorRecords  OBVIOUS
    <3>4. visual_actor_set_video(act[x], bin.actvideo).plugin = act[x].plugin
      BY <3>3 DEF visual_actor_set_video, ActorRecords
    <3>5. set[x].plugin = act[x].plugin  BY <2>3, <3>4
    <3> QED  BY <3>2, <3>5
  <2> HIDE DEF set, next, vd, depth
  <2>5. Negotiated(set, vd, next, depth, TRUE)[x].plugin = set[x].plugin
    BY <2>4, NegotiatedKeeps
  <2>6. actor'[x].plugin = set[x].plugin  BY <1>5, <2>5
  <2> QED  BY <2>2, <2>4, <2>6
<1>9. actor'[next].video = bin.actvideo
  <2>1. Freed(act, freed) \in [Actors -> ActorRecords]  BY FreedTyped
  <2>2. /\ visual_actor_set_video(Freed(act, freed)[next], bin.actvideo) \in ActorRecords
        /\ visual_actor_set_video(Freed(act, freed)[next], bin.actvideo).video = bin.actvideo
    BY <1>1, <2>1, SetVideoTyped DEF visual_actor_set_video, ActorRecords
  <2>3. set \in [Actors -> ActorRecords] /\ set[next].video = bin.actvideo
    BY <1>1, <2>1, <2>2
  <2> HIDE DEF set, next, vd, depth
  <2>4. Negotiated(set, vd, next, depth, TRUE)[next].video = set[next].video
    BY <1>1, <2>3, NegotiatedKeeps
  <2> QED  BY <1>5, <2>3, <2>4
<1>10. StageAgrees'
  BY <1>1, <1>6, PoolAssumption DEF StageAgrees
<1>11. PointersLive'
  <2>1. Reachable' \ {NULL} \subseteq live'
    <3>1. next \in live'  BY <1>1, <1>2, <1>5, PoolAssumption DEF Reachable
    <3>2. bin'.morph # NULL => bin'.morph \in live'
      BY <1>1, <1>5, <1>6, PoolAssumption DEF Retires, Reachable
    <3> QED  BY <1>6, <3>1, <3>2 DEF Reachable
  <2>2. Screens \subseteq live' /\ mine' \subseteq live'
    BY <1>1, <1>2, <1>5
  <2> QED  BY <1>8, <2>1, <2>2 DEF PointersLive
<1>12. ActorsApart'
  BY <1>1, <1>5, <1>6 DEF ActorsApart
<1>13. SwitchWhole'
  BY <1>1, <1>6, <1>9, PoolAssumption DEF SwitchWhole
<1>14. DepthsFollow'
  <2>1. vdepth'[bin.actvideo] = depth
    <3> HIDE DEF depth
    <3> QED  BY <1>1, <1>5 DEF BinTypeOK
  <2> QED  BY <1>3, <1>6, <2>1 DEF DepthsFollow
<1>15. MorphReady'
  BY <1>6 DEF MorphReady
<1>16. Told(bin, bin')
  BY <1>4, <1>6 DEF Told
<1>17. SwitchAlike'
  BY <1>6 DEF SwitchAlike
<1>18. Kept
  <2>1. Reachable = {bin.actor, next, bin.privvid, bin.actmorphvideo, bin.morph}
    BY DEF Reachable
  <2>2. Reachable' = {next, NULL, bin'.morph}
    BY <1>6 DEF Reachable
  <2>3. bin.managed => Reachable \ freed \subseteq {next, NULL, bin'.morph}
    BY <1>1, <1>6, <2>1 DEF Retires
  <2>4. bin.managed /\ NothingLeaks => NothingLeaks'
    BY <1>5, <2>2, <2>3 DEF NothingLeaks
  <2>5. stage # "setup"  BY DEF Consistent, StageAgrees
  <2> QED  BY <1>5, <1>6, <2>4, <2>5 DEF Kept
<1>19. Consistent'
  BY <1>10, <1>11, <1>12, <1>13, <1>14, <1>15 DEF Consistent
<1>20. TookOver
  <2>1. next \in live'  BY <1>1, <1>2, <1>5, PoolAssumption DEF Reachable
  <2> QED  BY <1>1, <1>6, <1>8, <2>1 DEF TookOver
<1> QED  BY <1>7, <1>16, <1>17, <1>18, <1>19, <1>20 DEF Orderly

-----------------------------------------------------------------------------
(* One frame.                                                               *)

\* Frames that do not end a switch move nothing the invariant is about.
LEMMA SteadyFrame ==
    ASSUME Consistent, BinTypeOK, UNCHANGED <<bin, vdepth, live, mine>>,
           \A x \in Actors : actor'[x].video = actor[x].video /\ actor'[x].plugin = actor[x].plugin,
           \A m \in Morphs : morph'[m].plugin = morph[m].plugin /\ morph'[m].dest = morph[m].dest,
           stage' = stage, stage = "looping"
    PROVE  Consistent' /\ Orderly
<1>1. StageAgrees'  BY DEF Consistent, StageAgrees
<1>2. PointersLive'  BY DEF Consistent, PointersLive, Reachable
<1>3. ActorsApart'  BY DEF Consistent, ActorsApart
<1>4. bin.actor \in Actors /\ bin.actmorph \in Actors \cup {NULL} /\ bin.morph \in Morphs \cup {NULL}
  BY DEF Consistent, StageAgrees, BinTypeOK, Bins
<1>5. SwitchWhole'  BY <1>4 DEF Consistent, SwitchWhole
<1>6. DepthsFollow'  BY DEF Consistent, DepthsFollow
<1>7. MorphReady'  BY <1>4 DEF Consistent, MorphReady
<1>8. Orderly
  <2>1. bin.depthchanged \in BOOLEAN  BY DEF BinTypeOK, Bins
  <2> QED  BY <2>1 DEF Orderly, Told, SwitchAlike, Kept, NothingLeaks, Reachable
<1> QED  BY <1>1, <1>2, <1>3, <1>5, <1>6, <1>7, <1>8 DEF Consistent

\* The pointers a frame follows are good.
LEMMA FramePointers ==
    ASSUME BinTypeOK, Consistent, stage = "looping", NEW act,
           \A x \in Actors : act[x].video = actor[x].video
    PROVE  /\ ~FrameFaulty(act, {bin.actor} \cup ({bin.actmorph} \ {NULL}))
           /\ bin.morphing => ~FrameFaulty(act, {bin.actor, bin.actmorph})
<1>1. /\ bin.actor \in Actors /\ bin.actor \in live /\ bin.actvideo \in Screens
      /\ bin.actmorph \in Actors \cup {NULL}
      /\ bin.actmorph # NULL => bin.actmorph \in live
      /\ actor[bin.actor].video \in {bin.actvideo, bin.privvid} \ {NULL}
  BY DEF Consistent, StageAgrees, PointersLive, SwitchWhole, Reachable, BinTypeOK, Bins
<1>2. actor[bin.actor].video \in live
  BY <1>1 DEF Consistent, PointersLive, Reachable
<1>3. bin.actmorph # NULL => bin.morphing
  BY DEF Consistent, SwitchWhole
<1>4. bin.morphing => bin.actmorph # NULL /\ actor[bin.actmorph].video \in live
  BY PoolAssumption, MidSwitch DEF Reachable
<1>5. ~FrameFaulty(act, {bin.actor} \cup ({bin.actmorph} \ {NULL}))
  <2>1. \A x \in {bin.actor} \cup ({bin.actmorph} \ {NULL}) : x \in live /\ act[x].video \in live
    BY <1>1, <1>2, <1>3, <1>4
  <2> QED  BY <2>1 DEF FrameFaulty, Faulty
<1>6. bin.morphing => {bin.actor, bin.actmorph} = {bin.actor} \cup ({bin.actmorph} \ {NULL})
  BY <1>4
<1> QED  BY <1>5, <1>6

LEMMA RunSafe ==
    ASSUME ManagedClient, BinTypeOK, Consistent, BinTypeOK', visual_bin_run,
           stage = "looping", stage' = stage
    PROVE  ~fault' /\ Consistent' /\ Orderly
<1>1. bin.actor \in Actors /\ bin.actmorph \in Actors \cup {NULL} /\ bin.morph \in Morphs \cup {NULL}
  BY DEF Consistent, StageAgrees, BinTypeOK, Bins
<1>2. bin.morphing => /\ bin.actmorph # NULL /\ BothRealized \in [Actors -> ActorRecords]
                      /\ \A x \in Actors : /\ BothRealized[x].video = actor[x].video
                                           /\ BothRealized[x].plugin = actor[x].plugin
  BY <1>1, MidSwitch, BothRealizedTyped, BothRealizedKeeps, PoolAssumption
<1>3. actor \in [Actors -> ActorRecords]  BY DEF BinTypeOK
<1>4. CASE RunRefused
  BY <1>1, <1>4, MidSwitch, PluginAssumption, PoolAssumption DEF RunRefused
<1>5. CASE RunSwitches
  <2>1. bin.morphing  BY <1>5 DEF RunSwitches, Pending
  <2>2. FrameFaulty(actor, {bin.actor, bin.actmorph}) = FALSE
    <3>1. ~FrameFaulty(actor, {bin.actor, bin.actmorph})  BY <2>1, FramePointers
    <3> QED  BY <3>1 DEF FrameFaulty, Faulty
  <2>3. Finalize(BothRealized, morph, FALSE)
    BY <1>5, <2>2 DEF RunSwitches
  <2> QED  BY <1>2, <2>1, <2>3, FinalizeSafe
<1>6. CASE RunDraws
  <2> DEFINE act0 == IF bin.morphing THEN BothRealized ELSE actor
  <2>1. /\ act0 \in [Actors -> ActorRecords]
        /\ \A x \in Actors : act0[x].video = actor[x].video /\ act0[x].plugin = actor[x].plugin
    BY <1>2, <1>3
  <2>2. /\ actor' = [act0 EXCEPT ![bin.actor] = visual_actor_realize(@)]
        /\ fault' = FrameFaulty(actor', {bin.actor} \cup ({bin.actmorph} \ {NULL}))
        /\ UNCHANGED <<bin, vdepth, morph, live, mine>>
    BY <1>6 DEF RunDraws
  <2> HIDE DEF act0
  <2>3. \A x \in Actors : actor'[x].video = actor[x].video /\ actor'[x].plugin = actor[x].plugin
    BY <2>1, <2>2, RealizeKeeps
  <2> QED  BY <2>2, <2>3, SteadyFrame, FramePointers
<1>7. CASE RunMorphs
  <2> DEFINE usable == bin.morph # NULL /\ morph[bin.morph].plugin
             bad    == \/ FrameFaulty(actor, {bin.actor, bin.actmorph})
                       \/ usable /\ Faulty({bin.morph, morph[bin.morph].dest}, live)
  <2>1. bin.morphing /\ bin.style = "morph"  BY <1>7 DEF RunMorphs, Pending
  <2>2. ~bad
    <3>1. ~FrameFaulty(actor, {bin.actor, bin.actmorph})  BY <2>1, FramePointers
    <3>2. usable => bin.morph \in live  BY DEF Consistent, PointersLive, Reachable
    <3>3. usable => morph[bin.morph].dest \in live
      <4>1. bin.privvid # NULL
        <5>1. vdepth[actor[bin.actor].video] # GL /\ vdepth[bin.actmorphvideo] # GL
          BY <1>7, <2>1, MidSwitch, PoolAssumption DEF RunMorphs, VideoDepth, DepthOf
        <5> QED  BY <2>1, <5>1 DEF Consistent, MorphReady
      <4>2. usable => morph[bin.morph].dest = bin.actvideo
        BY <2>1, <4>1 DEF Consistent, MorphReady
      <4> QED  BY <2>1, <4>2, MidSwitch
    <3> QED  BY <3>1, <3>2, <3>3 DEF Faulty
  <2>3. bad = FALSE
    <3>1. bad \in BOOLEAN  BY DEF FrameFaulty, Faulty
    <3> QED  BY <2>2, <3>1
  <2>4. CASE ~usable
    <3>1. Finalize(BothRealized, morph, bad)  BY <1>7, <2>4 DEF RunMorphs
    <3> HIDE DEF bad
    <3> QED  BY <1>2, <2>1, <2>3, <3>1, FinalizeSafe
  <2>5. CASE usable
    <3>1. PICK rate \in visual_morph_run(morph[bin.morph]) :
             \/ Finalize(BothRealized, [morph EXCEPT ![bin.morph].rate = rate], bad)
             \/ /\ morph' = [morph EXCEPT ![bin.morph].rate = rate]
                /\ actor' = BothRealized /\ fault' = bad
                /\ UNCHANGED <<bin, vdepth, live, mine>>
      BY <1>7, <2>5 DEF RunMorphs
    <3> HIDE DEF bad
    <3>2. CASE Finalize(BothRealized, [morph EXCEPT ![bin.morph].rate = rate], bad)
      BY <1>2, <2>1, <2>3, <3>2, FinalizeSafe
    <3>3. CASE /\ morph' = [morph EXCEPT ![bin.morph].rate = rate]
               /\ actor' = BothRealized /\ fault' = bad
               /\ UNCHANGED <<bin, vdepth, live, mine>>
      <4>1. \A m \in Morphs : morph'[m].plugin = morph[m].plugin /\ morph'[m].dest = morph[m].dest
        BY <3>3 DEF BinTypeOK, MorphRecords
      <4> QED  BY <1>2, <2>1, <2>3, <3>3, <4>1, SteadyFrame
    <3> QED  BY <3>1, <3>2, <3>3
  <2> QED  BY <2>4, <2>5
<1> QED  BY <1>4, <1>5, <1>6, <1>7, NotEmpty DEF visual_bin_run

-----------------------------------------------------------------------------
(* Following a change of the client's video.                                *)

LEMMA SyncSafe ==
    ASSUME ManagedClient, BinTypeOK, Consistent, BinTypeOK', visual_bin_sync,
           stage \in {"stale", "looping"}, stage' = "looping"
    PROVE  /\ ~fault' /\ Consistent' /\ Orderly
           /\ bin.managed /\ SurfacesReady => SurfacesReady'
           /\ \A x \in Actors : actor'[x].plugin = actor[x].plugin
<1> DEFINE bymorph == /\ bin.morphing /\ bin.style = "morph" /\ ~bin.depthfromGL
                      /\ DepthOf(vdepth, bin.actvideo) # GL
           nextGL  == DepthOf(vdepth, actor[bin.actmorph].video) = GL
           video   == IF bymorph /\ ~nextGL THEN bin.privvid ELSE bin.actvideo
           withnew == bin.actmorphmanaged /\ bin.morphing /\ bin.style = "morph"
                      /\ bin.actmorphvideo # NULL
           vd1 == IF bymorph THEN [vdepth EXCEPT ![bin.privvid] = DepthOf(vdepth, bin.actvideo)] ELSE vdepth
           vd2 == IF withnew THEN [vd1 EXCEPT ![bin.actmorphvideo] = DepthOf(vd1, video)] ELSE vd1
           run == IF bin.managed THEN bin.depthforcedmain ELSE 0
           forced == bin.managed \/ bin.depthold = GL
           set1 == [actor EXCEPT ![bin.actor] = visual_actor_set_video(@, video)]
           act1 == Negotiated(set1, vd1, bin.actor, run, forced)
           set2 == [act1 EXCEPT ![bin.actmorph] = visual_actor_realize(@)]
           act2 == Negotiated(set2, vd2, bin.actmorph, bin.depthforced, TRUE)
<1>1. /\ bin.actor \in Actors /\ bin.actvideo \in Screens
      /\ bin.privvid \in Videos \cup {NULL} /\ (bymorph => bin.privvid \in Videos)
      /\ bin.actmorphvideo \in Videos \cup {NULL} /\ bin.morph \in Morphs \cup {NULL}
      /\ bin.actmorph \in Actors \cup {NULL} /\ (withnew => bin.actmorph \in Actors)
      /\ actor \in [Actors -> ActorRecords] /\ vdepth \in [Videos \cup Screens -> DepthValues]
      /\ bin.depthforced \in DepthValues /\ bin.depthforcedmain \in DepthValues
      /\ bin.managed \in BOOLEAN
  BY MidSwitch DEF visual_bin_sync, visual_video_clone, BinTypeOK, Bins
<1>2. /\ vdepth' = vd2 /\ actor' = (IF withnew THEN act2 ELSE act1)
      /\ morph' = (IF bymorph THEN MorphMoves(bin, morph) ELSE morph)
      /\ UNCHANGED <<bin, live, mine>>
  BY DEF visual_bin_sync, visual_video_clone
<1>3. /\ fault' = Faulty({bin.actor, video}
                  \cup (IF bymorph THEN {bin.privvid, bin.actmorph, actor[bin.actmorph].video} ELSE {})
                  \cup (IF withnew THEN {bin.actmorphvideo, bin.actmorph} ELSE {})
                  \cup (IF bymorph THEN {bin.morph} \ {NULL} ELSE {}), live)
  BY DEF visual_bin_sync, visual_video_clone
<1>4. ~fault'
  <2>1. /\ bin.actor \in live /\ bin.actvideo \in live /\ (bymorph => bin.privvid \in live)
        /\ bin.morph # NULL => bin.morph \in live
    BY <1>1, PoolAssumption DEF Consistent, PointersLive, Reachable
  <2>2. bin.morphing => /\ bin.actmorph \in live /\ bin.actmorphvideo \in live
                        /\ actor[bin.actmorph].video \in live
    BY MidSwitch, PoolAssumption DEF Reachable
  <2>3. video \in live  BY <2>1
  <2> HIDE DEF video
  <2> QED  BY <1>3, <2>1, <2>2, <2>3 DEF Faulty
<1>5. video \in {bin.actvideo, bin.privvid} \ {NULL} /\ video \in Videos \cup Screens
  BY <1>1, PoolAssumption
<1>6. /\ vd1 \in [Videos \cup Screens -> DepthValues] /\ vd1[video] = vdepth[bin.actvideo]
      /\ vd1[bin.actvideo] = vdepth[bin.actvideo]
  <2>1. DepthOf(vdepth, bin.actvideo) = vdepth[bin.actvideo]
    BY <1>1, PoolAssumption DEF DepthOf
  <2> QED  BY <1>1, <2>1, PoolAssumption
<1>7. /\ vd2 \in [Videos \cup Screens -> DepthValues] /\ vd2[bin.actvideo] = vdepth[bin.actvideo]
      /\ withnew => vd2[bin.actmorphvideo] = vdepth[bin.actvideo]
      /\ SwitchAlike /\ bin.privvid # NULL => vd2[bin.privvid] = vdepth[bin.actvideo]
      /\ SwitchAlike /\ bin.privvid # NULL => vd2[bin.actmorphvideo] = vdepth[bin.actvideo]
  <2>2. SwitchAlike /\ bin.privvid # NULL => vd1[bin.privvid] = vdepth[bin.actvideo]
    BY <1>1, <1>6, PoolAssumption DEF SwitchAlike, DepthOf
  <2>3. /\ SwitchAlike /\ bin.privvid # NULL /\ ~withnew
              => vd1[bin.actmorphvideo] = vdepth[bin.actvideo]
        /\ bin.privvid # NULL => bin.actmorphvideo # bin.privvid /\ bin.actmorphvideo \in Videos
    <3>1. bin.privvid # NULL => bin.actmorphvideo # bin.privvid /\ bin.actmorphvideo \in Videos
      BY MidSwitch DEF Consistent, SwitchWhole
    <3> QED  BY <1>1, <3>1 DEF SwitchAlike
  <2> HIDE DEF vd1, video
  <2>1. DepthOf(vd1, video) = vd1[video]
    BY <1>5, PoolAssumption DEF DepthOf
  <2> QED  BY <1>1, <1>5, <1>6, <2>1, <2>2, <2>3, PoolAssumption
<1>8. run \in DepthValues /\ forced \in BOOLEAN
  BY <1>1, NoneTyped DEF NONE
<1>9. /\ set1 \in [Actors -> ActorRecords] /\ set1[bin.actor].video = video
      /\ \A x \in Actors : /\ set1[x].plugin = actor[x].plugin
                           /\ x # bin.actor => set1[x].video = actor[x].video
  <2> HIDE DEF video
  <2>1. \A r \in ActorRecords : /\ visual_actor_set_video(r, video).video = video
                                /\ visual_actor_set_video(r, video).plugin = r.plugin
    BY DEF visual_actor_set_video, ActorRecords
  <2>2. visual_actor_set_video(actor[bin.actor], video) \in ActorRecords
    BY <1>1, <1>5, SetVideoTyped
  <2> QED  BY <1>1, <2>1, <2>2
<1>10. /\ act1 \in [Actors -> ActorRecords]
       /\ \A x \in Actors : act1[x].video = set1[x].video /\ act1[x].plugin = set1[x].plugin
  <2> HIDE DEF set1, vd1, run, forced
  <2>1. act1 \in [Actors -> ActorRecords]
    BY <1>6, <1>8, <1>9, NegotiatedTyped
  <2>2. \A x \in Actors : act1[x].video = set1[x].video /\ act1[x].plugin = set1[x].plugin
    BY <1>8, <1>9, NegotiatedKeeps
  <2> QED  BY <2>1, <2>2
<1>11. withnew => \A x \in Actors : act2[x].video = act1[x].video /\ act2[x].plugin = act1[x].plugin
  <2> SUFFICES ASSUME withnew, NEW x \in Actors
               PROVE  act2[x].video = act1[x].video /\ act2[x].plugin = act1[x].plugin
    OBVIOUS
  <2> HIDE DEF act1, vd2
  <2>1. set2 \in [Actors -> ActorRecords]
    BY <1>1, <1>10, RealizeTyped
  <2>2. set2[x].video = act1[x].video /\ set2[x].plugin = act1[x].plugin
    BY <1>10, RealizeKeeps
  <2> HIDE DEF set2
  <2>3. act2[x].video = set2[x].video /\ act2[x].plugin = set2[x].plugin
    <3>1. \A f \in BOOLEAN : LET n == Negotiated(set2, vd2, bin.actmorph, bin.depthforced, f)
                             IN  n[x].video = set2[x].video /\ n[x].plugin = set2[x].plugin
      BY <2>1, NegotiatedKeeps
    <3>2. TRUE \in BOOLEAN  OBVIOUS
    <3> QED  BY <3>1, <3>2
  <2> QED  BY <2>2, <2>3
<1>12. /\ actor'[bin.actor].video = video
       /\ \A x \in Actors : /\ actor'[x].plugin = actor[x].plugin
                            /\ x # bin.actor => actor'[x].video = actor[x].video
  <2> HIDE DEF act1, act2, set1, video, withnew
  <2> QED  BY <1>1, <1>2, <1>9, <1>10, <1>11
<1>13. bin.morph # NULL => /\ morph'[bin.morph].plugin = morph[bin.morph].plugin
                           /\ morph'[bin.morph].dest \in {morph[bin.morph].dest, bin.actvideo}
  BY <1>1, <1>2 DEF MorphMoves, BinTypeOK, MorphRecords
<1> HIDE DEF bymorph, video, withnew, vd1, vd2, act1, act2
<1>14. StageAgrees'
  BY <1>1, <1>2, PoolAssumption DEF Consistent, StageAgrees
<1>15. PointersLive'
  BY <1>2, <1>12 DEF Consistent, PointersLive, Reachable
<1>16. ActorsApart'
  BY <1>2 DEF Consistent, ActorsApart
<1>17. SwitchWhole'
  <2>1. bin.morphing => bin.actmorph \in Actors /\ bin.actmorph # bin.actor
    BY MidSwitch
  <2> QED  BY <1>2, <1>5, <1>12, <2>1 DEF Consistent, SwitchWhole
<1>18. DepthsFollow'
  BY <1>1, <1>2, <1>7 DEF Consistent, DepthsFollow, StageAgrees
<1>19. MorphReady'
  <2> SUFFICES ASSUME bin.morphing, bin.style = "morph"
               PROVE  IF bin.privvid = NULL
                      THEN /\ vdepth'[bin.actvideo] = GL
                           /\ GL \in {vdepth'[actor'[bin.actor].video], vdepth'[bin.actmorphvideo]}
                      ELSE bin.morph # NULL /\ morph'[bin.morph].plugin
                             => morph'[bin.morph].dest = bin.actvideo
    BY <1>2 DEF MorphReady
  <2>1. CASE bin.privvid = NULL
    <3>1. vdepth[bin.actvideo] = GL  BY <2>1 DEF Consistent, MorphReady
    <3>2. withnew  BY MidSwitch, PoolAssumption DEF withnew
    <3> QED  BY <1>2, <1>7, <2>1, <3>1, <3>2
  <2>2. CASE bin.privvid # NULL
    BY <1>13, <2>2 DEF Consistent, MorphReady
  <2> QED  BY <2>1, <2>2
<1>20. Orderly
  <2>1. bin.depthchanged \in BOOLEAN  BY DEF BinTypeOK, Bins
  <2>2. SwitchAlike => SwitchAlike'  BY <1>2, <1>7 DEF SwitchAlike
  <2> QED  BY <1>2, <2>1, <2>2 DEF Orderly, Told, Kept, NothingLeaks, Reachable
<1>21. Consistent'
  BY <1>14, <1>15, <1>16, <1>17, <1>18, <1>19 DEF Consistent
<1>22. ASSUME bin.managed, SurfacesReady  PROVE SurfacesReady'
  <2>1. act1 = Forced(set1, vd1, bin.actor, bin.depthforcedmain)
    <3>1. run = bin.depthforcedmain /\ forced = TRUE  BY <1>22
    <3> HIDE DEF run, forced, set1
    <3> QED  BY <3>1 DEF act1, Forced
  <2>2. /\ set1[bin.actor].realized /\ SameSurfaces(set1[bin.actor], actor[bin.actor])
        /\ \A x \in Actors \ {bin.actor} : set1[x] = actor[x]
    <3>1. set1[bin.actor] = visual_actor_set_video(actor[bin.actor], video)
      BY <1>1
    <3>2. actor[bin.actor].realized  BY <1>22 DEF SurfacesReady
    <3>3. \A x \in Actors \ {bin.actor} : set1[x] = actor[x]  BY <1>1
    <3> HIDE DEF set1
    <3> QED  BY <1>1, <1>5, <3>1, <3>2, <3>3, SurfacesKept
  <2>3. actor[bin.actor].plugin \in Plugins
    <3>1. bin.actor \in live
      BY <1>1, PoolAssumption DEF Consistent, PointersLive, Reachable
    <3> QED  BY <1>1, <3>1 DEF Consistent, PointersLive, ActorRecords
  <2> HIDE DEF set1
  <2>4. /\ set1[bin.actor].plugin \in Plugins /\ set1[bin.actor].video = video /\ video # NULL
        /\ FlagsOf(set1, bin.actor) = FlagsOf(actor, bin.actor)
        /\ Matching(set1, bin.actor) <=> Matching(actor, bin.actor)
    BY <1>5, <1>9, <2>2, <2>3, MatchingKept DEF SameSurfaces
  <2>5. act1[bin.actor].realized
    <3> HIDE DEF run, forced
    <3> QED  BY <1>1, <1>8, <1>9, <2>2, NegotiatedKeeps DEF act1
  <2>6. \A x \in Actors \ {bin.actor} : act1[x] = actor[x]
    BY <1>9, <2>1, <2>2 DEF Forced, Negotiated
  <2>7. ASSUME Matching(actor, bin.actor), bin.depthforcedmain \in FlagsOf(actor, bin.actor)
        PROVE  /\ Matching(act1, bin.actor) /\ bin.depthforcedmain \in FlagsOf(act1, bin.actor)
               /\ act1[bin.actor].video = video /\ Fits(act1, vd1, bin.actor)
               /\ FlagsOf(act1, bin.actor) = FlagsOf(actor, bin.actor)
    <3>1. set1 \in [Actors -> ActorRecords] /\ vd1 \in [Videos \cup Screens -> DepthValues]
      BY <1>6, <1>9
    <3>2. bin.actor \in Actors /\ bin.depthforcedmain \in FlagsOf(set1, bin.actor)
      BY <1>1, <2>4, <2>7
    <3> QED  BY <2>1, <2>4, <2>7, <3>1, <3>2, NegotiatedFits
  <2>8. CASE ~bin.morphing
    <3>1. actor' = act1  BY <1>2, <2>8 DEF withnew
    <3>2. Steady  BY <2>8, <1>22 DEF SurfacesReady, Consistent, StageAgrees
    <3>3. Steady'
      BY <1>2, <2>7, <3>1, <3>2 DEF Steady, Matching, FlagsOf
    <3> QED  BY <1>2, <2>5, <2>8, <3>1, <3>3 DEF SurfacesReady
  <2>9. CASE bin.morphing
    <3>1. /\ Changing /\ bin.actmorph \in Actors /\ bin.actmorph # bin.actor
          /\ actor[bin.actmorph].plugin \in Plugins /\ bin.actmorphvideo \in Videos
          /\ actor[bin.actmorph].video = bin.actmorphvideo
          /\ bin.actmorphvideo # video
      <4>1. Changing  BY <2>9, <1>22 DEF SurfacesReady, Consistent, StageAgrees
      <4>2. bin.actmorphvideo # video
        BY <1>1, <1>5, <2>9, MidSwitch, PoolAssumption DEF Consistent, SwitchWhole
      <4> QED  BY <2>9, <4>1, <4>2, MidSwitch
    <3>2. /\ actor'[bin.actor] = act1[bin.actor]
          /\ FlagsOf(actor', bin.actmorph) = FlagsOf(actor, bin.actmorph)
          /\ Matching(actor', bin.actmorph)
          /\ bin.style = "morph" => Fits(actor', vd2, bin.actmorph)
      <4>1. CASE ~withnew
        <5>1. bin.style # "morph"  BY <2>9, <4>1, MidSwitch, PoolAssumption DEF withnew
        <5>2. actor' = act1  BY <1>2, <4>1
        <5> QED  BY <2>6, <3>1, <5>1, <5>2 DEF Matching, FlagsOf, Changing
      <4>2. CASE withnew
        <5>1. /\ set2 \in [Actors -> ActorRecords]
              /\ set2[bin.actmorph] = visual_actor_realize(actor[bin.actmorph])
              /\ set2[bin.actor] = act1[bin.actor]
          BY <1>1, <1>10, <2>6, <3>1, RealizeTyped
        <5> HIDE DEF set2
        <5>2. /\ SameSurfaces(set2[bin.actmorph], actor[bin.actmorph])
              /\ set2[bin.actmorph].video = bin.actmorphvideo
          BY <1>1, <3>1, <5>1, SurfacesKept
        <5>3. /\ set2[bin.actmorph].plugin \in Plugins /\ set2[bin.actmorph].video # NULL
              /\ FlagsOf(set2, bin.actmorph) = FlagsOf(actor, bin.actmorph)
              /\ Matching(set2, bin.actmorph)
          BY <3>1, <5>2, MatchingKept, PoolAssumption DEF SameSurfaces, Changing
        <5>4. bin.depthforced \in FlagsOf(set2, bin.actmorph)
          BY <3>1, <5>3 DEF Changing
        <5>5. actor' = Forced(set2, vd2, bin.actmorph, bin.depthforced)
          BY <1>2, <4>2 DEF act2, Forced
        <5>6. vd2 \in [Videos \cup Screens -> DepthValues] /\ bin.actor \in Actors \ {bin.actmorph}
          BY <1>1, <1>7, <3>1
        <5>7. /\ actor'[bin.actor] = set2[bin.actor]
              /\ FlagsOf(actor', bin.actmorph) = FlagsOf(set2, bin.actmorph)
              /\ Matching(actor', bin.actmorph) /\ Fits(actor', vd2, bin.actmorph)
          BY <3>1, <5>1, <5>3, <5>4, <5>5, <5>6, NegotiatedFits
        <5> QED  BY <5>1, <5>3, <5>7
      <4> QED  BY <4>1, <4>2
    <3>3. vd2[video] = vd1[video]
      BY <1>1, <1>5, <1>6, <3>1 DEF vd2
    <3>4. /\ actor'[bin.actor].realized
          /\ bin.depthforced \in FlagsOf(actor', bin.actmorph)
      BY <2>5, <3>1, <3>2 DEF Changing
    <3>5. ASSUME bin.style = "morph", bin.depth # GL
          PROVE  /\ Matching(actor', bin.actor) /\ bin.depthforcedmain \in FlagsOf(actor', bin.actor)
                 /\ Fits(actor', vd2, bin.actor)
      <4>1. Matching(actor, bin.actor) /\ bin.depthforcedmain \in FlagsOf(actor, bin.actor)
        BY <3>1, <3>5 DEF Changing
      <4>2. /\ Matching(act1, bin.actor) /\ bin.depthforcedmain \in FlagsOf(act1, bin.actor)
            /\ act1[bin.actor].video = video /\ Fits(act1, vd1, bin.actor)
        BY <2>7, <4>1
      <4> QED  BY <3>2, <3>3, <4>2 DEF Matching, FlagsOf, Fits
    <3>6. Changing'
      BY <1>2, <3>2, <3>4, <3>5 DEF Changing, Matching, FlagsOf, Fits
    <3> QED  BY <1>2, <2>9, <3>4, <3>6 DEF SurfacesReady
  <2> QED  BY <2>8, <2>9
<1> QED  BY <1>4, <1>12, <1>20, <1>21, <1>22

-----------------------------------------------------------------------------
(* A switch by name.                                                        *)

\* The settings of the bin that a plan of depths keeps.
LEMMA PlanKeeps ==
    ASSUME NEW b \in Bins, NEW screen \in DepthValues, NEW flags \in SUBSET DepthBits
    PROVE  LET p == ByNameDepths(b, screen, flags).bin
           IN  /\ p.actor = b.actor /\ p.actmorph = b.actmorph /\ p.actvideo = b.actvideo
               /\ p.privvid = b.privvid /\ p.morph = b.morph /\ p.managed = b.managed
               /\ p.style = b.style /\ p.depthflag = b.depthflag
<1> DEFINE want  == bin_get_depth_using_preferred(b, flags)
           fixed == fix_depth_with_bin(b, want)
           Keeps(c) == /\ c.actor = b.actor /\ c.actmorph = b.actmorph /\ c.actvideo = b.actvideo
                       /\ c.privvid = b.privvid /\ c.morph = b.morph /\ c.managed = b.managed
                       /\ c.style = b.style /\ c.depthflag = b.depthflag
<1> SUFFICES Keeps(ByNameDepths(b, screen, flags).bin)
  OBVIOUS
<1>1. want \in DepthValues /\ fixed \in DepthValues /\ GL \in DepthValues /\ b.depth \in DepthValues
  BY PreferredTyped, FixTyped, NoneTyped DEF Bins
<1>2. \A f, g \in DepthValues : /\ [b EXCEPT !.depthforced = f, !.depthforcedmain = g] \in Bins
                                /\ Keeps([b EXCEPT !.depthforced = f, !.depthforcedmain = g])
  BY DEF Bins
<1>3. \A c \in Bins : \A d \in DepthValues : Keeps(c) => Keeps(visual_bin_set_depth(c, d))
  BY SetDepthKeeps
<1>4. \A c \in Bins : Keeps(c) => Keeps([c EXCEPT !.depthchanged = TRUE])
  BY DEF Bins
<1> DEFINE Go(f, g, d) == visual_bin_set_depth([b EXCEPT !.depthforced = f, !.depthforcedmain = g], d)
<1>5. \A f, g, d \in DepthValues : Go(f, g, d) \in Bins /\ Keeps(Go(f, g, d))
  <2> HIDE DEF Keeps
  <2> QED  BY <1>2, <1>3, SetDepthTyped
<1> HIDE DEF want, fixed, Keeps
<1>6. CASE depth_is_supported(flags, GL)
  <2>1. ByNameDepths(b, screen, flags).bin = [Go(GL, GL, GL) EXCEPT !.depthchanged = TRUE]
    BY <1>6 DEF ByNameDepths
  <2> HIDE DEF Go
  <2> QED  BY <1>1, <1>4, <1>5, <2>1
<1>7. CASE ~depth_is_supported(flags, GL) /\ screen = GL
  <2>1. ByNameDepths(b, screen, flags).bin = [b EXCEPT !.depthforced = fixed, !.depthforcedmain = fixed]
    BY <1>7 DEF ByNameDepths, want, fixed
  <2> QED  BY <1>1, <1>2, <2>1
<1>8. CASE ~depth_is_supported(flags, GL) /\ screen # GL /\ MorphsDeeper(b, screen, fixed)
  <2>1. ByNameDepths(b, screen, flags).bin = Go(want, b.depth, screen)
    BY <1>8 DEF ByNameDepths, want, fixed
  <2> HIDE DEF Go
  <2> QED  BY <1>1, <1>5, <2>1
<1>9. CASE ~depth_is_supported(flags, GL) /\ screen # GL /\ ~MorphsDeeper(b, screen, fixed)
  <2>1. ByNameDepths(b, screen, flags).bin = Go(fixed, b.depth, fixed)
    BY <1>9 DEF ByNameDepths, want, fixed
  <2> HIDE DEF Go
  <2> QED  BY <1>1, <1>5, <2>1
<1> QED  BY <1>6, <1>7, <1>8, <1>9

\* The plan gives bin and screen one depth, which the client supports; the new
\* actor's video and the memory of an openGL depth are openGL only when the
\* screen is.
LEMMA PlanSafe ==
    ASSUME ManagedClient, NEW b \in Bins, b.depthflag \in DepthFlags, b.depth \in b.depthflag,
           NEW name \in Plugins
    PROVE  LET plan == ByNameDepths(b, b.depth, PluginDepth[name])
           IN  /\ plan.screen \in DepthBits /\ plan.screen \in b.depthflag
               /\ plan.bin.depth = plan.screen
               /\ plan.video = GL => plan.screen = GL
               /\ plan.video = plan.screen \/ plan.screen = GL
               /\ plan.bin.depthfromGL => plan.screen = GL
               /\ Told(b, plan.bin)
               /\ plan.bin.depthforced \in PluginDepth[name]
               /\ plan.screen # GL => plan.bin.depthforcedmain = b.depth
<1> DEFINE flags == PluginDepth[name]
           want  == bin_get_depth_using_preferred(b, flags)
           fixed == fix_depth_with_bin(b, want)
           Go(f, g, d) == visual_bin_set_depth([b EXCEPT !.depthforced = f, !.depthforcedmain = g], d)
           Safe(plan) == /\ plan.screen \in DepthBits /\ plan.screen \in b.depthflag
                         /\ plan.bin.depth = plan.screen
                         /\ plan.video = GL => plan.screen = GL
                         /\ plan.video = plan.screen \/ plan.screen = GL
                         /\ plan.bin.depthfromGL => plan.screen = GL
                         /\ Told(b, plan.bin)
                         /\ plan.bin.depthforced \in flags
                         /\ plan.screen # GL => plan.bin.depthforcedmain = b.depth
<1> SUFFICES Safe(ByNameDepths(b, b.depth, flags))
  OBVIOUS
<1>1. /\ want \in flags /\ want \in b.depthflag /\ want \in DepthBits /\ fixed = want
      /\ flags \in SUBSET DepthBits /\ flags \subseteq b.depthflag
      /\ b.depth \in DepthBits /\ GL \in DepthBits
  BY ChosenDepth, PluginAssumption, ClientAssumption DEF ManagedClient, DepthBits
<1>2. depth_is_supported(flags, GL) <=> GL \in flags
  BY <1>1, OneDepthSupported
<1> HIDE DEF want, fixed, flags
<1>3. \A f, g \in DepthValues, d \in DepthBits : d \in b.depthflag =>
         /\ Go(f, g, d) \in Bins /\ Go(f, g, d).depth = d
         /\ Go(f, g, d).depthfromGL => b.depth = GL
         /\ Told(b, Go(f, g, d))
         /\ Go(f, g, d).depthforced = f /\ Go(f, g, d).depthforcedmain = g
  <2> SUFFICES ASSUME NEW f \in DepthValues, NEW g \in DepthValues, NEW d \in DepthBits,
                      d \in b.depthflag
               PROVE  /\ Go(f, g, d) \in Bins /\ Go(f, g, d).depth = d
                      /\ Go(f, g, d).depthfromGL => b.depth = GL
                      /\ Told(b, Go(f, g, d))
                      /\ Go(f, g, d).depthforced = f /\ Go(f, g, d).depthforcedmain = g
    OBVIOUS
  <2> DEFINE c == [b EXCEPT !.depthforced = f, !.depthforcedmain = g]
  <2>1. /\ c \in Bins /\ c.depthflag = b.depthflag /\ c.depth = b.depth
        /\ c.depthchanged = b.depthchanged /\ c.depthforced = f /\ c.depthforcedmain = g
    BY DEF Bins
  <2>2. d \in DepthValues  BY DEF DepthValues
  <2> HIDE DEF c
  <2>3. /\ visual_bin_set_depth(c, d) \in Bins /\ visual_bin_set_depth(c, d).depth = d
        /\ visual_bin_set_depth(c, d).depthfromGL => c.depth = GL
    BY <2>1, <2>2, SetDepthTyped, SetDepthSupported
  <2>4. Told(b, visual_bin_set_depth(c, d))
    BY <2>1, <2>2, SetDepthTells DEF Told
  <2>5. /\ visual_bin_set_depth(c, d).depthforced = f
        /\ visual_bin_set_depth(c, d).depthforcedmain = g
    BY <2>1, <2>2, SetDepthForces
  <2> QED  BY <2>1, <2>3, <2>4, <2>5 DEF c
<1>4. \A d \in DepthBits : d \in DepthValues  BY DEF DepthValues
<1>5. CASE GL \in flags
  <2> DEFINE g == Go(GL, GL, GL)
  <2>1. /\ ByNameDepths(b, b.depth, flags).bin = [g EXCEPT !.depthchanged = TRUE]
        /\ ByNameDepths(b, b.depth, flags).screen = GL
        /\ ByNameDepths(b, b.depth, flags).video = GL
    BY <1>2, <1>5 DEF ByNameDepths
  <2>2. g \in Bins /\ g.depth = GL /\ g.depthforced = GL  BY <1>1, <1>3, <1>4, <1>5
  <2> HIDE DEF g
  <2>3. /\ [g EXCEPT !.depthchanged = TRUE].depth = GL
        /\ [g EXCEPT !.depthchanged = TRUE].depthchanged
        /\ [g EXCEPT !.depthchanged = TRUE].depthforced = GL
    BY <2>2 DEF Bins
  <2> QED  BY <1>1, <1>5, <2>1, <2>3 DEF Told
<1>6. CASE GL \notin flags /\ b.depth = GL
  <2>1. /\ ByNameDepths(b, b.depth, flags).bin = [b EXCEPT !.depthforced = fixed, !.depthforcedmain = fixed]
        /\ ByNameDepths(b, b.depth, flags).screen = b.depth
    BY <1>2, <1>6 DEF ByNameDepths, want, fixed
  <2>2. \A f \in DepthValues : LET c == [b EXCEPT !.depthforced = f, !.depthforcedmain = f]
                              IN  c.depth = b.depth /\ c.depthchanged = b.depthchanged /\ c.depthforced = f
    BY DEF Bins
  <2>3. b.depthchanged \in BOOLEAN  BY DEF Bins
  <2> QED  BY <1>1, <1>4, <1>6, <2>1, <2>2, <2>3 DEF Told
<1>7. CASE GL \notin flags /\ b.depth # GL /\ MorphsDeeper(b, b.depth, fixed)
  <2>1. /\ ByNameDepths(b, b.depth, flags).bin = Go(want, b.depth, b.depth)
        /\ ByNameDepths(b, b.depth, flags).screen = b.depth
        /\ ByNameDepths(b, b.depth, flags).video = b.depth
    BY <1>2, <1>7 DEF ByNameDepths, want, fixed
  <2> HIDE DEF Go
  <2> QED  BY <1>1, <1>3, <1>4, <1>7, <2>1
<1>8. CASE GL \notin flags /\ b.depth # GL /\ ~MorphsDeeper(b, b.depth, fixed)
  <2>1. /\ ByNameDepths(b, b.depth, flags).bin = Go(fixed, b.depth, fixed)
        /\ ByNameDepths(b, b.depth, flags).screen = fixed
        /\ ByNameDepths(b, b.depth, flags).video = fixed
    BY <1>2, <1>8 DEF ByNameDepths, want, fixed
  <2> HIDE DEF Go
  <2> QED  BY <1>1, <1>3, <1>4, <1>8, <2>1
<1> QED  BY <1>5, <1>6, <1>7, <1>8

\* The plugin of that name waits beside the actor on screen.
Requested(name) ==
    /\ bin'.morphing /\ bin'.actor = bin.actor /\ bin'.actmorph # NULL
    /\ actor'[bin.actor].plugin = actor[bin.actor].plugin
    /\ actor'[bin'.actmorph].plugin = name

LEMMA SwitchByNameSafe ==
    ASSUME ManagedClient, BinTypeOK, Consistent, ~bin.morphing, BinTypeOK',
           stage = "looping", stage' = stage,
           NEW name \in Plugins, NEW a \in Actors, NEW v \in Videos,
           visual_bin_switch_actor_by_name(name, a, v)
    PROVE  /\ ~fault' /\ Consistent' /\ Orderly /\ Requested(name)
           /\ SurfacesReady => SurfacesReady'
<1>1. /\ bin.actor \in Actors /\ bin.actvideo \in Screens /\ bin.morph \in Morphs \cup {NULL}
      /\ bin.actmorph = NULL /\ bin.actmorphvideo = NULL /\ bin.privvid = NULL
      /\ bin.depthflag \in DepthFlags /\ bin \in Bins /\ mine \subseteq Actors
      /\ actor \in [Actors -> ActorRecords] /\ vdepth \in [Videos \cup Screens -> DepthValues]
      /\ Screens \subseteq live /\ mine \subseteq live /\ NULL \notin live
      /\ bin.actor \in live /\ (bin.morph # NULL => bin.morph \in live)
      /\ bin.depth \in bin.depthflag /\ vdepth[bin.actvideo] = bin.depth
      /\ actor[bin.actor].video = bin.actvideo /\ actor[bin.actor].plugin # NULL
  <2>1. bin.actor # NULL /\ bin.actvideo # NULL
    BY DEF Consistent, StageAgrees
  <2>2. /\ bin.actor \in Actors /\ bin.actvideo \in Screens /\ bin.morph \in Morphs \cup {NULL}
        /\ bin \in Bins /\ mine \subseteq Actors
        /\ actor \in [Actors -> ActorRecords] /\ vdepth \in [Videos \cup Screens -> DepthValues]
        /\ NULL \notin live
    BY <2>1, PoolAssumption DEF BinTypeOK, Bins
  <2> QED  BY <2>1, <2>2 DEF Consistent, StageAgrees, PointersLive, SwitchWhole, DepthsFollow, Reachable
<1> DEFINE flags == PluginDepth[name]
           plan  == ByNameDepths(bin, bin.depth, flags)
           new   == visual_actor_new(name)
           act0  == IF ~depth_is_supported(flags, GL) /\ bin.depthforcedmain # bin.depth
                    THEN Negotiated(Freed(actor, {}), vdepth, bin.actor, bin.depthforcedmain, TRUE)
                    ELSE Freed(actor, {})
           vd    == [ScreenAfter(bin, vdepth, plan.screen) EXCEPT ![v] = plan.video]
           act   == [act0 EXCEPT ![a] = visual_actor_set_video(new, v)]
           b     == [plan.bin EXCEPT !.actmorphvideo = v, !.actmorphmanaged = TRUE]
           lv    == live \cup {a, v}
<1>2. UnfinishedManaged = {}
  BY <1>1 DEF UnfinishedManaged
<1>3. a \notin live /\ v \notin live /\ mine' = mine /\ SwitchActor(b, vd, act, lv, a, FALSE)
  <2>1. Loaded(name) = {name}  BY DEF Loaded, ManagedClient
  <2>2. live \ {} = live /\ DepthOf(vdepth, bin.actvideo) = bin.depth
    BY <1>1, PoolAssumption DEF DepthOf
  <2>3. visual_actor_get_supported_depth(new) = flags
    BY PluginAssumption DEF visual_actor_get_supported_depth, visual_actor_new
  <2>4. (Faulty({} \cup {bin.actor}, live) \/ actor[bin.actor].plugin = NULL \/ bin.actvideo = NULL)
          = FALSE
    BY <1>1, PoolAssumption DEF Faulty
  <2> QED
    BY <1>2, <2>1, <2>2, <2>3, <2>4 DEF visual_bin_switch_actor_by_name
<1>4. /\ plan.bin \in Bins /\ plan.video \in DepthValues /\ plan.screen \in DepthBits
      /\ plan.screen \in bin.depthflag /\ plan.bin.depth = plan.screen
      /\ plan.video = GL => plan.screen = GL
      /\ plan.video = plan.screen \/ plan.screen = GL
      /\ plan.bin.depthfromGL => plan.screen = GL
      /\ Told(bin, plan.bin) /\ plan.bin.depthforced \in flags
      /\ plan.screen # GL => plan.bin.depthforcedmain = bin.depth
      /\ plan.bin.actor = bin.actor /\ plan.bin.actmorph = NULL /\ plan.bin.actvideo = bin.actvideo
      /\ plan.bin.privvid = NULL /\ plan.bin.morph = bin.morph /\ plan.bin.managed = bin.managed
      /\ plan.bin.style = bin.style /\ plan.bin.depthflag = bin.depthflag
  <2>1. bin.depth \in DepthValues /\ flags \in SUBSET DepthBits
    BY <1>1, PluginAssumption DEF Bins
  <2>2. plan.bin \in Bins /\ plan.video \in DepthValues
    BY <1>1, <2>1, ByNameTyped
  <2>3. /\ plan.screen \in DepthBits /\ plan.screen \in bin.depthflag
        /\ plan.bin.depth = plan.screen
        /\ plan.video = GL => plan.screen = GL
        /\ plan.video = plan.screen \/ plan.screen = GL
        /\ plan.bin.depthfromGL => plan.screen = GL
        /\ Told(bin, plan.bin) /\ plan.bin.depthforced \in flags
        /\ plan.screen # GL => plan.bin.depthforcedmain = bin.depth
    BY <1>1, PlanSafe
  <2>4. /\ plan.bin.actor = bin.actor /\ plan.bin.actmorph = bin.actmorph
        /\ plan.bin.actvideo = bin.actvideo
        /\ plan.bin.privvid = bin.privvid /\ plan.bin.morph = bin.morph
        /\ plan.bin.managed = bin.managed
        /\ plan.bin.style = bin.style /\ plan.bin.depthflag = bin.depthflag
    BY <1>1, <2>1, PlanKeeps
  <2> QED  BY <1>1, <2>2, <2>3, <2>4
<1> HIDE DEF plan
<1>5. /\ b \in Bins /\ b.actor = bin.actor /\ b.actvideo = bin.actvideo /\ b.privvid = NULL
      /\ b.morph = bin.morph /\ b.managed = bin.managed /\ b.style = bin.style
      /\ b.depthflag = bin.depthflag /\ b.depth = plan.screen
      /\ b.depthfromGL = plan.bin.depthfromGL /\ b.depthchanged = plan.bin.depthchanged
      /\ b.actmorphvideo = v /\ b.actmorphmanaged = TRUE
      /\ b.depthforced = plan.bin.depthforced /\ b.depthforcedmain = plan.bin.depthforcedmain
  <2>1. b \in Bins  BY <1>4, SwitchFieldsTyped
  <2>2. \A c \in Bins : LET r == [c EXCEPT !.actmorphvideo = v, !.actmorphmanaged = TRUE]
                        IN  /\ r.actor = c.actor /\ r.actvideo = c.actvideo /\ r.privvid = c.privvid
                            /\ r.morph = c.morph /\ r.managed = c.managed /\ r.style = c.style
                            /\ r.depthflag = c.depthflag /\ r.depth = c.depth
                            /\ r.depthfromGL = c.depthfromGL /\ r.depthchanged = c.depthchanged
                            /\ r.actmorphvideo = v /\ r.actmorphmanaged = TRUE
                            /\ r.depthforced = c.depthforced /\ r.depthforcedmain = c.depthforcedmain
    BY DEF Bins
  <2> QED  BY <1>4, <2>1, <2>2
<1>6. /\ vd \in [Videos \cup Screens -> DepthValues] /\ vd[bin.actvideo] = plan.screen
      /\ vd[v] = plan.video
  <2>1. depth_is_supported(bin.depthflag, plan.screen)  BY <1>4, OneDepthSupported
  <2>2. plan.screen \in DepthValues  BY <1>4 DEF DepthValues
  <2>3. ScreenAfter(bin, vdepth, plan.screen) = [vdepth EXCEPT ![bin.actvideo] = plan.screen]
    BY <1>1, <2>1, PoolAssumption DEF ScreenAfter
  <2> QED  BY <1>1, <1>4, <2>2, <2>3, PoolAssumption
<1>7. /\ act \in [Actors -> ActorRecords] /\ act[a].video = v /\ act[a].plugin = name
      /\ \A x \in Actors \ {a} : x \in live => act[x].video = actor[x].video
                                                /\ act[x].plugin = actor[x].plugin
      /\ ~act[a].realized /\ Matching(act, a) /\ FlagsOf(act, a) = flags
      /\ SurfacesReady => /\ act[bin.actor].realized /\ Matching(act, bin.actor)
                          /\ FlagsOf(act, bin.actor) = FlagsOf(actor, bin.actor)
  <2>1. /\ Freed(actor, {}) \in [Actors -> ActorRecords]
        /\ \A x \in Actors : Freed(actor, {})[x] = actor[x]
    BY <1>1, FreedTyped DEF Freed
  <2>2. /\ act0 \in [Actors -> ActorRecords]
        /\ \A x \in Actors : act0[x].video = actor[x].video /\ act0[x].plugin = actor[x].plugin
    <3> DEFINE neg == Negotiated(Freed(actor, {}), vdepth, bin.actor, bin.depthforcedmain, TRUE)
    <3>1. bin.depthforcedmain \in DepthValues  BY <1>1 DEF Bins
    <3>2. neg \in [Actors -> ActorRecords]
      BY <1>1, <2>1, <3>1, NegotiatedTyped
    <3>3. \A x \in Actors : /\ neg[x].video = Freed(actor, {})[x].video
                            /\ neg[x].plugin = Freed(actor, {})[x].plugin
      <4>1. \A f \in BOOLEAN, x \in Actors :
              LET n == Negotiated(Freed(actor, {}), vdepth, bin.actor, bin.depthforcedmain, f)
              IN  /\ n[x].video = Freed(actor, {})[x].video
                  /\ n[x].plugin = Freed(actor, {})[x].plugin
        BY <2>1, NegotiatedKeeps
      <4>2. TRUE \in BOOLEAN  OBVIOUS
      <4> QED  BY <4>1, <4>2
    <3> HIDE DEF neg
    <3> QED  BY <2>1, <3>2, <3>3 DEF neg
  <2>3. /\ visual_actor_set_video(new, v) \in ActorRecords
        /\ visual_actor_set_video(new, v).video = v /\ visual_actor_set_video(new, v).plugin = name
        /\ visual_actor_set_video(new, v).transform = NULL
        /\ visual_actor_set_video(new, v).fitting = NULL
        /\ ~visual_actor_set_video(new, v).realized
    <3>1. /\ new \in ActorRecords /\ new.plugin = name
          /\ new.transform = NULL /\ new.fitting = NULL /\ ~new.realized
      BY NewActorTyped DEF visual_actor_new
    <3> QED  BY <3>1, SetVideoTyped DEF visual_actor_set_video, ActorRecords
  <2>4. ASSUME SurfacesReady
        PROVE  /\ act0[bin.actor].realized /\ Matching(act0, bin.actor)
               /\ FlagsOf(act0, bin.actor) = FlagsOf(actor, bin.actor)
    <3> DEFINE old == Freed(actor, {})
    <3>1. Steady /\ actor[bin.actor].realized  BY <2>4 DEF SurfacesReady
    <3>2. /\ old \in [Actors -> ActorRecords] /\ old[bin.actor].realized
          /\ old[bin.actor].plugin \in Plugins /\ Matching(old, bin.actor)
          /\ FlagsOf(old, bin.actor) = FlagsOf(actor, bin.actor)
          /\ bin.depthforcedmain \in FlagsOf(old, bin.actor)
      BY <1>1, <2>1, <3>1 DEF Steady, Matching, FlagsOf, ActorRecords
    <3> HIDE DEF old
    <3>3. /\ Forced(old, vdepth, bin.actor, bin.depthforcedmain)[bin.actor].realized
          /\ Matching(Forced(old, vdepth, bin.actor, bin.depthforcedmain), bin.actor)
          /\ FlagsOf(Forced(old, vdepth, bin.actor, bin.depthforcedmain), bin.actor)
               = FlagsOf(old, bin.actor)
      <4>1. /\ vdepth \in [Videos \cup Screens -> DepthValues] /\ bin.actor \in Actors
            /\ old \in [Actors -> ActorRecords] /\ old[bin.actor].realized
            /\ old[bin.actor].plugin \in Plugins /\ Matching(old, bin.actor)
            /\ bin.depthforcedmain \in FlagsOf(old, bin.actor)
        BY <1>1, <3>2
      <4> QED  BY ONLY <4>1, NegotiatedFits
    <3>4. act0 \in {old, Forced(old, vdepth, bin.actor, bin.depthforcedmain)}
      BY DEF old, Forced
    <3> HIDE DEF act0
    <3> QED  BY <3>2, <3>3, <3>4
  <2>5. bin.actor # a  BY <1>1, <1>3
  <2> HIDE DEF act0
  <2>6. /\ act \in [Actors -> ActorRecords] /\ act[a] = visual_actor_set_video(new, v)
        /\ \A x \in Actors \ {a} : act[x] = act0[x]
    BY <2>2, <2>3
  <2> HIDE DEF act
  <2>7. ~act[a].realized /\ Matching(act, a) /\ FlagsOf(act, a) = flags
    BY <2>3, <2>6 DEF Matching, FlagsOf
  <2>8. SurfacesReady => /\ act[bin.actor].realized /\ Matching(act, bin.actor)
                         /\ FlagsOf(act, bin.actor) = FlagsOf(actor, bin.actor)
    BY <1>1, <2>4, <2>5, <2>6 DEF Matching, FlagsOf
  <2> QED  BY <2>2, <2>3, <2>6, <2>7, <2>8
<1> HIDE DEF b, vd, act
<1> DEFINE morphs == /\ b.style = "morph" /\ ~b.depthfromGL
                     /\ DepthOf(vd, act[b.actor].video) # GL /\ DepthOf(vd, act[a].video) # GL
           b1     == [b EXCEPT !.actmorph = a, !.privvid = NULL, !.morphing = TRUE]
           lv1    == lv \ {b.privvid}
<1>8. /\ act[b.actor].video = bin.actvideo /\ act[b.actor].plugin # NULL /\ bin.actor # a
      /\ lv1 = live \cup {a, v}
  BY <1>1, <1>3, <1>5, <1>7, PoolAssumption
<1>9. /\ b1 \in Bins /\ b1.actor = bin.actor /\ b1.actvideo = bin.actvideo /\ b1.privvid = NULL
      /\ b1.morph = bin.morph /\ b1.managed = bin.managed /\ b1.style = bin.style
      /\ b1.depthflag = bin.depthflag /\ b1.depth = plan.screen
      /\ b1.depthchanged = plan.bin.depthchanged
      /\ b1.actmorphvideo = v /\ b1.actmorphmanaged = TRUE /\ b1.actmorph = a /\ b1.morphing = TRUE
      /\ b1.depthforced = plan.bin.depthforced /\ b1.depthforcedmain = plan.bin.depthforcedmain
  <2>1. b1 \in Bins  BY <1>5, SwitchFieldsTyped
  <2>2. \A c \in Bins : LET r == [c EXCEPT !.actmorph = a, !.privvid = NULL, !.morphing = TRUE]
                        IN  /\ r.actor = c.actor /\ r.actvideo = c.actvideo /\ r.privvid = NULL
                            /\ r.morph = c.morph /\ r.managed = c.managed /\ r.style = c.style
                            /\ r.depthflag = c.depthflag /\ r.depth = c.depth
                            /\ r.depthchanged = c.depthchanged
                            /\ r.actmorphvideo = c.actmorphvideo /\ r.actmorph = a
                            /\ r.actmorphmanaged = c.actmorphmanaged /\ r.morphing = TRUE
                            /\ r.depthforced = c.depthforced /\ r.depthforcedmain = c.depthforcedmain
    BY DEF Bins
  <2> QED  BY <1>5, <2>1, <2>2
<1>10. ~fault'
  <2>1. fault' = \/ FALSE \/ Faulty({b.actor, a, act[b.actor].video, act[a].video}
                                    \cup (IF morphs THEN {b.morph} \ {NULL} ELSE {}), lv1)
                 \/ morphs /\ b.actvideo = NULL
    BY <1>3 DEF SwitchActor, visual_video_clone
  <2>2. {b.actor, a, act[b.actor].video, act[a].video, b.morph} \ {NULL} \subseteq lv1
    BY <1>1, <1>5, <1>7, <1>8
  <2>3. NULL \notin {b.actor, a, act[b.actor].video, act[a].video} /\ b.actvideo # NULL
    BY <1>1, <1>5, <1>7, <1>8, PoolAssumption
  <2> HIDE DEF lv1, morphs
  <2> QED  BY <2>1, <2>2, <2>3 DEF Faulty
<1>11. /\ \E pv \in (Videos \ lv1) \cup {NULL} :
             /\ bin' = [b1 EXCEPT !.privvid = pv]
             /\ live' = lv1 \cup ({pv} \ {NULL})
             /\ actor'[bin.actor].video = IF pv = NULL THEN bin.actvideo ELSE pv
             /\ pv = NULL => vdepth' = vd /\ ~morphs
             /\ pv # NULL => morphs /\ vdepth'[pv] = plan.screen /\ vdepth'[v] = plan.video
             /\ pv # NULL /\ bin.morph # NULL /\ morph'[bin.morph].plugin
                    => morph'[bin.morph].dest = bin.actvideo
       /\ vdepth'[bin.actvideo] = plan.screen
       /\ \A x \in Actors : actor'[x].plugin = act[x].plugin
       /\ actor'[a].video = v /\ actor'[a] = act[a]
       /\ SameSurfaces(actor'[bin.actor], act[bin.actor])
       /\ act[bin.actor].realized => actor'[bin.actor].realized
  <2>1. CASE morphs
    <3>1. PICK pv \in PrivateVideos(b, lv1) :
             /\ bin' = [b1 EXCEPT !.privvid = pv]
             /\ vdepth' = [vd EXCEPT ![pv] = DepthOf(vd, b.actvideo)]
             /\ actor' = [act EXCEPT ![b.actor] = visual_actor_set_video(@, pv)]
             /\ live' = lv1 \cup {pv}
             /\ morph' = IF b.morph # NULL /\ morph[b.morph].plugin
                         THEN [morph EXCEPT ![b.morph].mode = b.mode,
                                            ![b.morph].rate = 0,
                                            ![b.morph].dest = b.actvideo]
                         ELSE morph
      BY <1>3, <2>1 DEF SwitchActor, visual_video_clone
    <3>2. pv \in Videos \ lv1 /\ pv # NULL /\ pv # bin.actvideo
      BY <1>1, PoolAssumption DEF PrivateVideos
    <3>3. \A r \in ActorRecords : /\ visual_actor_set_video(r, pv).video = pv
                                  /\ visual_actor_set_video(r, pv).plugin = r.plugin
      BY DEF visual_actor_set_video, ActorRecords
    <3>4. /\ actor'[bin.actor].video = pv /\ actor'[a].video = v
          /\ \A x \in Actors : actor'[x].plugin = act[x].plugin
      BY <1>1, <1>5, <1>7, <1>8, <3>1, <3>3
    <3>7. /\ actor'[a] = act[a] /\ SameSurfaces(actor'[bin.actor], act[bin.actor])
          /\ act[bin.actor].realized => actor'[bin.actor].realized
      <4>1. actor'[a] = act[a] /\ actor'[bin.actor] = visual_actor_set_video(act[bin.actor], pv)
        BY <1>1, <1>5, <1>7, <1>8, <3>1
      <4> QED  BY <1>1, <1>7, <3>2, <4>1, SurfacesKept
    <3>5. /\ vdepth'[bin.actvideo] = plan.screen
          /\ vdepth'[pv] = plan.screen /\ vdepth'[v] = plan.video
      <4>1. DepthOf(vd, b.actvideo) = plan.screen
        BY <1>1, <1>5, <1>6, PoolAssumption DEF DepthOf
      <4> QED  BY <1>1, <1>6, <1>8, <3>1, <3>2, <4>1
    <3>6. bin.morph # NULL /\ morph'[bin.morph].plugin => morph'[bin.morph].dest = bin.actvideo
      <4>1. morph \in [Morphs -> MorphRecords]  BY DEF BinTypeOK
      <4>2. CASE bin.morph # NULL /\ morph[bin.morph].plugin
        <5>1. morph'[bin.morph] = [morph[bin.morph] EXCEPT !.mode = b.mode, !.rate = 0,
                                                           !.dest = bin.actvideo]
          BY <1>1, <1>5, <3>1, <4>1, <4>2
        <5> QED  BY <1>1, <4>1, <5>1 DEF MorphRecords
      <4>3. CASE bin.morph # NULL /\ ~morph[bin.morph].plugin
        BY <1>5, <3>1, <4>3
      <4> QED  BY <4>2, <4>3
    <3> HIDE DEF b1, lv1
    <3> QED  BY <2>1, <3>1, <3>2, <3>4, <3>5, <3>6, <3>7
  <2>2. CASE ~morphs
    <3>1. bin' = b1 /\ vdepth' = vd /\ actor' = act /\ live' = lv1 /\ morph' = morph
      BY <1>3, <2>2 DEF SwitchActor, visual_video_clone
    <3>2. b1 = [b1 EXCEPT !.privvid = NULL]
      <4>1. \A c \in Bins : c.privvid = NULL => c = [c EXCEPT !.privvid = NULL]  BY DEF Bins
      <4> HIDE DEF b1
      <4> QED  BY <1>9, <4>1
    <3> HIDE DEF b1, lv1, morphs
    <3>3. SameSurfaces(act[bin.actor], act[bin.actor])  BY DEF SameSurfaces
    <3> QED  BY <1>5, <1>6, <1>7, <1>8, <2>2, <3>1, <3>2, <3>3
  <2> QED  BY <2>1, <2>2
<1>12. PICK pv \in (Videos \ lv1) \cup {NULL} :
             /\ bin' = [b1 EXCEPT !.privvid = pv]
             /\ live' = lv1 \cup ({pv} \ {NULL})
             /\ actor'[bin.actor].video = IF pv = NULL THEN bin.actvideo ELSE pv
             /\ pv = NULL => vdepth' = vd /\ ~morphs
             /\ pv # NULL => morphs /\ vdepth'[pv] = plan.screen /\ vdepth'[v] = plan.video
             /\ pv # NULL /\ bin.morph # NULL /\ morph'[bin.morph].plugin
                    => morph'[bin.morph].dest = bin.actvideo
  BY <1>11
<1>13. /\ bin'.actor = bin.actor /\ bin'.actvideo = bin.actvideo /\ bin'.privvid = pv
       /\ bin'.morph = bin.morph /\ bin'.managed = bin.managed /\ bin'.style = bin.style
       /\ bin'.depthflag = bin.depthflag /\ bin'.depth = plan.screen /\ bin'.actmorphvideo = v
       /\ bin'.depthchanged = plan.bin.depthchanged
       /\ bin'.actmorphmanaged = TRUE /\ bin'.actmorph = a /\ bin'.morphing = TRUE
       /\ bin'.depthforced = plan.bin.depthforced /\ bin'.depthforcedmain = plan.bin.depthforcedmain
  <2>1. \A c \in Bins : LET r == [c EXCEPT !.privvid = pv]
                        IN  /\ r.actor = c.actor /\ r.actvideo = c.actvideo /\ r.privvid = pv
                            /\ r.morph = c.morph /\ r.managed = c.managed /\ r.style = c.style
                            /\ r.depthflag = c.depthflag /\ r.depth = c.depth
                            /\ r.depthchanged = c.depthchanged
                            /\ r.actmorphvideo = c.actmorphvideo /\ r.actmorph = c.actmorph
                            /\ r.actmorphmanaged = c.actmorphmanaged /\ r.morphing = c.morphing
                            /\ r.depthforced = c.depthforced /\ r.depthforcedmain = c.depthforcedmain
    BY DEF Bins
  <2> HIDE DEF b1
  <2> QED  BY <1>9, <1>12, <2>1
<1> HIDE DEF b1, lv1
<1>14. StageAgrees'
  BY <1>1, <1>13, PoolAssumption DEF StageAgrees
<1>15. PointersLive'
  <2>1. Reachable' \ {NULL} \subseteq live'
    BY <1>1, <1>8, <1>12, <1>13 DEF Reachable
  <2>2. Screens \subseteq live' /\ mine' \subseteq live'
    BY <1>1, <1>3, <1>8, <1>12
  <2>3. \A x \in Actors \cap live' : actor'[x].plugin # NULL
    <3> SUFFICES ASSUME NEW x \in Actors, x \in live'  PROVE actor'[x].plugin # NULL
      OBVIOUS
    <3>1. CASE x = a  BY <1>7, <1>11, <3>1, PluginAssumption
    <3>2. CASE x # a
      <4>1. x \in live  BY <1>8, <1>12, <3>2, PoolAssumption
      <4>2. actor[x].plugin # NULL  BY <4>1 DEF Consistent, PointersLive
      <4> QED  BY <1>7, <1>11, <3>2, <4>1, <4>2
    <3> QED  BY <3>1, <3>2
  <2> QED  BY <2>1, <2>2, <2>3 DEF PointersLive
<1>16. ActorsApart'
  BY <1>1, <1>3, <1>8, <1>13 DEF Consistent, ActorsApart
<1>17. SwitchWhole'
  BY <1>1, <1>8, <1>11, <1>12, <1>13, PoolAssumption DEF SwitchWhole
<1>18. DepthsFollow'
  BY <1>4, <1>11, <1>13 DEF DepthsFollow
<1>19. MorphReady'
  <2>1. CASE pv = NULL
    <3>1. bin.style = "morph" => plan.screen = GL
      <4>1. DepthOf(vd, act[b.actor].video) = plan.screen /\ DepthOf(vd, act[a].video) = plan.video
        BY <1>1, <1>6, <1>7, <1>8, PoolAssumption DEF DepthOf
      <4> QED  BY <1>4, <1>5, <1>12, <2>1, <4>1
    <3> QED  BY <1>11, <1>12, <1>13, <2>1, <3>1 DEF MorphReady
  <2>2. CASE pv # NULL
    BY <1>12, <1>13, <2>2 DEF MorphReady
  <2> QED  BY <2>1, <2>2
<1>20. Told(bin, bin')
  BY <1>4, <1>13 DEF Told
<1>21. SwitchAlike'
  <2> SUFFICES ASSUME pv # NULL  PROVE plan.video = plan.screen
    BY <1>11, <1>12, <1>13 DEF SwitchAlike
  <2>1. DepthOf(vd, act[b.actor].video) = plan.screen
    BY <1>1, <1>6, <1>8, PoolAssumption DEF DepthOf
  <2> QED  BY <1>4, <1>12, <2>1
<1>22. Kept
  <2>1. Reachable \subseteq {bin.actor, bin.morph, NULL}
    BY <1>1 DEF Reachable
  <2>2. Reachable' = {bin.actor, a, pv, v, bin.morph}
    BY <1>13 DEF Reachable
  <2>3. live' = live \cup {a, v} \cup ({pv} \ {NULL})
    BY <1>8, <1>12
  <2>4. NothingLeaks => NothingLeaks'
    BY <1>1, <1>3, <2>1, <2>2, <2>3 DEF NothingLeaks
  <2> QED  BY <1>3, <1>13, <2>4 DEF Kept
<1>23. Consistent'
  BY <1>14, <1>15, <1>16, <1>17, <1>18, <1>19 DEF Consistent
<1>24. ASSUME SurfacesReady  PROVE SurfacesReady'
  <2>1. Steady  BY <1>24 DEF SurfacesReady
  <2>2. /\ actor'[bin.actor].realized /\ Matching(actor', bin.actor)
        /\ FlagsOf(actor', bin.actor) = FlagsOf(actor, bin.actor)
        /\ Matching(actor', a) /\ FlagsOf(actor', a) = flags /\ ~actor'[a].realized
    <3>1. /\ FlagsOf(actor', bin.actor) = FlagsOf(act, bin.actor)
          /\ Matching(actor', bin.actor) <=> Matching(act, bin.actor)
      BY <1>11, MatchingKept
    <3>2. FlagsOf(actor', a) = FlagsOf(act, a) /\ (Matching(actor', a) <=> Matching(act, a))
      BY <1>11 DEF Matching, FlagsOf
    <3> QED  BY <1>7, <1>11, <1>24, <3>1, <3>2
  <2>3. ASSUME plan.screen # GL
        PROVE  bin'.depthforcedmain \in FlagsOf(actor', bin.actor)
    BY <1>4, <1>13, <2>1, <2>2, <2>3 DEF Steady
  <2>4. ASSUME ~bin'.depthchanged  PROVE Fits(actor', vdepth', bin.actor)
    <3>1. plan.screen = bin.depth  BY <1>4, <1>13, <2>4 DEF Told
    <3>2. vdepth'[actor'[bin.actor].video] = bin.depth
      BY <1>11, <1>12, <3>1
    <3>3. bin.depth \in FlagsOf(actor', bin.actor)  BY <2>1, <2>2 DEF Steady
    <3>4. {actor'[bin.actor].transform, actor'[bin.actor].fitting}
             \subseteq FlagsOf(actor', bin.actor) \cup {NULL}
      BY <2>2 DEF Matching
    <3>5. RenderSurface(actor'[bin.actor], bin.depth) \in FlagsOf(actor', bin.actor)
      BY <3>3, <3>4, MatchingFits
    <3> QED  BY <3>2, <3>5 DEF Fits
  <2>5. Changing'
    BY <1>4, <1>13, <2>2, <2>3, <2>4 DEF Changing, Matching, FlagsOf, Fits
  <2> QED  BY <1>13, <2>2, <2>5 DEF SurfacesReady
<1>25. Requested(name)
  <2>1. a # NULL  BY PoolAssumption
  <2>2. /\ actor'[bin.actor].plugin = actor[bin.actor].plugin /\ actor'[a].plugin = name
    BY <1>1, <1>7, <1>8, <1>11
  <2> QED  BY <1>13, <2>1, <2>2 DEF Requested
<1> QED  BY <1>10, <1>20, <1>21, <1>22, <1>23, <1>24, <1>25 DEF Orderly

-----------------------------------------------------------------------------
(* The other calls of the client.                                           *)

\* visual_bin_connect gives bin and screen a depth the client supports.
LEMMA ConnectSafe ==
    ASSUME ManagedClient, BinTypeOK, bin.depthflag \in DepthFlags, NEW a \in Actors,
           NEW act \in [Actors -> ActorRecords], act[a].plugin \in Plugins,
           NEW managed \in BOOLEAN, Connect(a, act, managed)
    PROVE  /\ bin'.actor = a /\ bin'.managed = managed /\ bin'.actmorph = bin.actmorph
           /\ bin'.privvid = bin.privvid /\ bin'.actmorphvideo = bin.actmorphvideo
           /\ bin'.morph = bin.morph /\ bin'.morphing = bin.morphing
           /\ bin'.actvideo = bin.actvideo /\ bin'.depthflag = bin.depthflag
           /\ bin'.depth \in bin.depthflag
           /\ bin.actvideo # NULL => vdepth'[bin.actvideo] = bin'.depth
           /\ bin'.depth \in PluginDepth[act[a].plugin] /\ bin'.depthforcedmain = bin'.depth
<1> DEFINE flags == visual_actor_get_supported_depth(act[a])
           want  == IF flags = {GL} THEN GL
                    ELSE fix_depth_with_bin(bin, bin_get_depth_using_preferred(bin, flags))
           b0    == [bin EXCEPT !.actor = a]
           b     == visual_bin_set_depth(b0, want)
<1>1. want \in DepthBits /\ want \in bin.depthflag /\ want \in PluginDepth[act[a].plugin]
  <2>1. flags = PluginDepth[act[a].plugin] /\ flags \subseteq bin.depthflag
    BY PluginAssumption DEF visual_actor_get_supported_depth, ManagedClient
  <2>2. CASE flags = {GL}  BY <2>1, <2>2 DEF DepthBits
  <2>3. CASE flags # {GL}  BY <2>1, <2>3, ChosenDepth
  <2> QED  BY <2>2, <2>3
<1>2. bin \in Bins /\ want \in DepthValues  BY <1>1 DEF BinTypeOK, DepthValues
<1> HIDE DEF want
<1>3. /\ b0 \in Bins /\ b0.actor = a /\ b0.actmorph = bin.actmorph
      /\ b0.privvid = bin.privvid /\ b0.actmorphvideo = bin.actmorphvideo
      /\ b0.morph = bin.morph /\ b0.morphing = bin.morphing
      /\ b0.actvideo = bin.actvideo /\ b0.depthflag = bin.depthflag
  BY <1>2 DEF Bins
<1> HIDE DEF b0
<1>4. /\ b \in Bins /\ b.actor = a /\ b.actmorph = bin.actmorph
      /\ b.privvid = bin.privvid /\ b.actmorphvideo = bin.actmorphvideo
      /\ b.morph = bin.morph /\ b.morphing = bin.morphing
      /\ b.actvideo = bin.actvideo /\ b.depthflag = bin.depthflag /\ b.depth = want
  BY <1>1, <1>2, <1>3, SetDepthTyped, SetDepthKeeps, SetDepthSupported
<1>5. bin' = [b EXCEPT !.depthforcedmain = b.depth, !.managed = managed]
         /\ vdepth' = ScreenAfter(bin, vdepth, want)
  BY DEF Connect, want, b0
<1> HIDE DEF b
<1>6. /\ bin'.actor = b.actor /\ bin'.managed = managed /\ bin'.actmorph = b.actmorph
      /\ bin'.privvid = b.privvid /\ bin'.actmorphvideo = b.actmorphvideo
      /\ bin'.morph = b.morph /\ bin'.morphing = b.morphing
      /\ bin'.actvideo = b.actvideo /\ bin'.depthflag = b.depthflag /\ bin'.depth = b.depth
      /\ bin'.depthforcedmain = b.depth
  BY <1>4, <1>5 DEF Bins
<1>7. bin.actvideo # NULL => vdepth'[bin.actvideo] = want
  <2>1. depth_is_supported(bin.depthflag, want)  BY <1>1, OneDepthSupported
  <2>2. bin.actvideo # NULL => bin.actvideo \in Screens  BY <1>2 DEF Bins
  <2> QED  BY <1>2, <1>5, <2>1, <2>2 DEF ScreenAfter, BinTypeOK
<1> QED  BY <1>1, <1>4, <1>6, <1>7

\* The client's first actor.
LEMMA ConnectsSafe ==
    ASSUME ManagedClient, BinTypeOK, BinTypeOK', Consistent, ~fault, ConnectByNames \/ ConnectOwn
    PROVE  /\ ~fault' /\ Consistent'
           /\ NothingLeaks => NothingLeaks'
           /\ "connect" \notin Calls => bin'.managed /\ Steady'
<1>1. /\ stage = "setup" /\ stage' = "connected" /\ bin.actor = NULL /\ ~bin.morphing
      /\ bin.depthflag \in DepthFlags
  BY DEF ConnectByNames, ConnectOwn, Goto, Consistent, StageAgrees
<1>2. PICK a \in Actors, managed \in BOOLEAN, act \in [Actors -> ActorRecords] :
         /\ Connect(a, act, managed) /\ ~fault' /\ mine' = mine
         /\ act[a].plugin \in Plugins /\ a \in live' /\ live' = live \cup {a}
         /\ \A x \in Actors : x # a => act[x] = actor[x]
         /\ managed => a \notin mine
         /\ "connect" \notin Calls => managed /\ Matching(act, a)
  <2>1. CASE ConnectByNames
    <3>1. PICK name \in Plugins, a \in Actors : visual_bin_connect_by_names(name, a)
      BY <2>1 DEF ConnectByNames
    <3> DEFINE act == [actor EXCEPT ![a] = visual_actor_new(name)]
    <3>2. Loaded(name) = {name}  BY DEF Loaded, ManagedClient
    <3>3. /\ Connect(a, act, TRUE) /\ a \in Actors \ live /\ live' = live \cup {a}
          /\ UNCHANGED <<morph, mine, fault>>
      BY <3>1, <3>2 DEF visual_bin_connect_by_names
    <3>4. act \in [Actors -> ActorRecords] /\ act[a].plugin = name
      BY NewActorTyped DEF BinTypeOK, visual_actor_new
    <3>5. a \notin mine  BY <3>3 DEF Consistent, PointersLive
    <3>6. \A x \in Actors : x # a => act[x] = actor[x]  BY DEF BinTypeOK
    <3>7. TRUE \in BOOLEAN  OBVIOUS
    <3>8. Matching(act, a)
      BY DEF BinTypeOK, Matching, visual_actor_new
    <3> HIDE DEF act
    <3> QED  BY <3>3, <3>4, <3>5, <3>6, <3>7, <3>8
  <2>2. CASE ConnectOwn
    <3>1. PICK a \in mine : visual_bin_connect(a)
      BY <2>2 DEF ConnectOwn
    <3>2. a \in Actors /\ a \in live /\ actor \in [Actors -> ActorRecords] /\ actor[a].plugin \in Plugins
      <4>1. a \in Actors /\ a \in live  BY <3>1 DEF BinTypeOK, Consistent, PointersLive
      <4> QED  BY <4>1 DEF BinTypeOK, ActorRecords, Consistent, PointersLive
    <3>3. Connect(a, actor, FALSE) /\ fault' = Faulty({a}, live) /\ UNCHANGED <<morph, live, mine>>
      BY <3>1 DEF visual_bin_connect
    <3>4. ~fault' /\ live' = live \cup {a}  BY <3>2, <3>3 DEF Faulty
    <3>5. FALSE \in BOOLEAN  OBVIOUS
    <3>6. "connect" \in Calls  BY <2>2 DEF ConnectOwn
    <3> QED  BY <3>2, <3>3, <3>4, <3>5, <3>6
  <2> QED  BY <2>1, <2>2
<1>3. actor' = act  BY <1>2 DEF Connect
<1>4. /\ bin'.actor = a /\ bin'.managed = managed /\ bin'.actmorph = bin.actmorph
      /\ bin'.privvid = bin.privvid /\ bin'.actmorphvideo = bin.actmorphvideo
      /\ bin'.morph = bin.morph /\ bin'.morphing = bin.morphing
      /\ bin'.actvideo = bin.actvideo /\ bin'.depthflag = bin.depthflag
      /\ bin'.depth \in bin.depthflag
      /\ bin.actvideo # NULL => vdepth'[bin.actvideo] = bin'.depth
      /\ bin'.depth \in PluginDepth[act[a].plugin] /\ bin'.depthforcedmain = bin'.depth
  BY <1>1, <1>2, ConnectSafe
<1>5. StageAgrees'  BY <1>1, <1>4, PoolAssumption DEF StageAgrees
<1>6. PointersLive'
  <2>1. Reachable' \ {NULL} \subseteq live'
    BY <1>2, <1>4 DEF Consistent, PointersLive, Reachable
  <2> QED  BY <1>2, <1>3, <2>1, PluginAssumption DEF Consistent, PointersLive
<1>7. ActorsApart'  BY <1>1, <1>2, <1>4 DEF ActorsApart
<1>8. SwitchWhole'  BY <1>1, <1>4 DEF Consistent, SwitchWhole
<1>9. DepthsFollow'  BY <1>4 DEF DepthsFollow
<1>10. MorphReady'  BY <1>1, <1>4 DEF MorphReady
<1>11. NothingLeaks => NothingLeaks'
  <2>1. Reachable' = (Reachable \ {bin.actor}) \cup {a} \/ Reachable' = Reachable \cup {a}
    BY <1>4 DEF Reachable
  <2>2. NULL \notin live
    BY PoolAssumption DEF BinTypeOK
  <2> QED  BY <1>1, <1>2, <2>1, <2>2 DEF NothingLeaks
<1>12. "connect" \notin Calls => Steady'
  BY <1>2, <1>3, <1>4 DEF Steady, Matching, FlagsOf
<1> QED  BY <1>2, <1>4, <1>5, <1>6, <1>7, <1>8, <1>9, <1>10, <1>11, <1>12 DEF Consistent

\* Settings and the other calls before the loop, and depth_changed.
LEMMA SettingsSafe ==
    ASSUME BinTypeOK, Consistent, ~fault,
           \/ Setup \/ SetupPreference \/ SetupMode \/ CatchUp
           \/ SetupStyle /\ ~bin.morphing
    PROVE  /\ ~fault' /\ Consistent' /\ Kept
           /\ SwitchAlike => SwitchAlike'
           /\ CatchUp \/ Told(bin, bin')
<1>1. /\ UNCHANGED <<actor, vdepth, morph, live, mine, fault>>
      /\ bin'.actor = bin.actor /\ bin'.actmorph = bin.actmorph /\ bin'.privvid = bin.privvid
      /\ bin'.actmorphvideo = bin.actmorphvideo /\ bin'.morph = bin.morph
      /\ bin'.morphing = bin.morphing /\ bin'.actvideo = bin.actvideo
      /\ bin'.managed = bin.managed /\ bin'.actmorphmanaged = bin.actmorphmanaged
      /\ bin'.depth = bin.depth
      /\ bin'.depthflag \in {bin.depthflag} \cup (IF stage = "setup" THEN DepthFlags ELSE {})
      /\ bin.morphing => bin'.style = bin.style
  BY DEF Setup, SetupPreference, SetupMode, CatchUp, SetupStyle, Set, heap, BinTypeOK, Bins,
       visual_bin_set_supported_depth, visual_bin_set_preferred_depth,
       visual_bin_switch_set_style, visual_bin_switch_set_mode, visual_bin_depth_changed
<1>2. \/ stage' = stage
      \/ stage \in {"realized", "looping"} /\ stage' = "stale"
  BY DEF Setup, SetupPreference, SetupMode, CatchUp, SetupStyle, Stay, clientvars
<1>3. StageAgrees'  BY <1>1, <1>2 DEF Consistent, StageAgrees
<1>4. PointersLive'  BY <1>1 DEF Consistent, PointersLive, Reachable
<1>5. ActorsApart'  BY <1>1 DEF Consistent, ActorsApart
<1>6. SwitchWhole'  BY <1>1, <1>2 DEF Consistent, SwitchWhole
<1>7. DepthsFollow'  BY <1>1, <1>2 DEF Consistent, DepthsFollow
<1>8. MorphReady'  BY <1>1 DEF Consistent, MorphReady
<1>9. Kept  BY <1>1 DEF Kept, NothingLeaks, Reachable
<1>10. SwitchAlike => SwitchAlike'  BY <1>1 DEF SwitchAlike
<1>11. CatchUp \/ Told(bin, bin')
  <2>1. ~CatchUp => bin'.depthchanged = bin.depthchanged /\ bin.depthchanged \in BOOLEAN
    BY DEF Setup, SetupPreference, SetupMode, SetupStyle, Set, BinTypeOK, Bins,
         visual_bin_set_supported_depth, visual_bin_set_preferred_depth,
         visual_bin_switch_set_style, visual_bin_switch_set_mode
  <2> QED  BY <1>1, <2>1 DEF Told
<1> QED  BY <1>1, <1>3, <1>4, <1>5, <1>6, <1>7, <1>8, <1>9, <1>10, <1>11 DEF Consistent

LEMMA SetupVideoSafe ==
    ASSUME BinTypeOK, Consistent, ~fault, SetupVideo
    PROVE  ~fault' /\ Consistent' /\ Orderly
<1>1. PICK screen \in Screens :
         visual_bin_set_video(screen, IF stage = "setup" THEN depth_get_lowest(bin.depthflag)
                                      ELSE bin.depth)
  BY DEF SetupVideo
<1>2. stage' = stage /\ stage \in {"setup", "connected"} /\ bin.actvideo = NULL
  BY DEF SetupVideo, Stay, clientvars
<1>3. /\ UNCHANGED <<actor, morph, live, mine, fault>>
      /\ bin'.actor = bin.actor /\ bin'.actmorph = bin.actmorph /\ bin'.privvid = bin.privvid
      /\ bin'.actmorphvideo = bin.actmorphvideo /\ bin'.morph = bin.morph
      /\ bin'.morphing = bin.morphing /\ bin'.actvideo = screen
      /\ bin'.managed = bin.managed /\ bin'.actmorphmanaged = bin.actmorphmanaged
      /\ bin'.depth = bin.depth /\ bin'.depthflag = bin.depthflag
      /\ bin'.depthchanged = bin.depthchanged /\ bin.depthchanged \in BOOLEAN
  BY <1>1 DEF visual_bin_set_video, BinTypeOK, Bins
<1>4. ~bin.morphing  BY <1>2 DEF Consistent, StageAgrees
<1>5. stage # "setup" => vdepth'[screen] = bin.depth
  BY <1>1 DEF visual_bin_set_video, BinTypeOK
<1>6. StageAgrees'  BY <1>2, <1>3 DEF Consistent, StageAgrees
<1>7. PointersLive'  BY <1>3 DEF Consistent, PointersLive, Reachable
<1>8. ActorsApart'  BY <1>3 DEF Consistent, ActorsApart
<1>9. SwitchWhole'  BY <1>2, <1>3, <1>4 DEF Consistent, SwitchWhole
<1>10. DepthsFollow'  BY <1>2, <1>3, <1>5 DEF Consistent, DepthsFollow
<1>11. MorphReady'  BY <1>3, <1>4 DEF MorphReady
<1>12. Orderly
  <2>1. bin.privvid = NULL  BY <1>4 DEF Consistent, SwitchWhole
  <2> QED  BY <1>3, <2>1 DEF Orderly, Told, SwitchAlike, Kept, NothingLeaks, Reachable
<1> QED  BY <1>3, <1>6, <1>7, <1>8, <1>9, <1>10, <1>11, <1>12 DEF Consistent

\* Calls that leave the bin and its videos alone: they may add actors, and give
\* actors the bin does not use a video.
LEMMA ActorsGrow ==
    ASSUME BinTypeOK, Consistent, UNCHANGED <<bin, vdepth, morph>>, stage' = stage,
           live \subseteq live', mine' \subseteq live', mine' \ mine \subseteq Actors \ live,
           \A x \in Actors \cap live' : actor'[x].plugin # NULL,
           \A x \in Actors \cap live : actor'[x].video = actor[x].video
    PROVE  Consistent'
<1>1. StageAgrees'  BY DEF Consistent, StageAgrees
<1>2. PointersLive'  BY DEF Consistent, PointersLive, Reachable
<1>3. bin.morphing \/ stage = "looping" => bin.actor \in Actors /\ bin.actor \in live
  BY DEF Consistent, StageAgrees, PointersLive, Reachable, BinTypeOK, Bins
<1>4. bin.morphing => bin.actmorph \in Actors /\ bin.actmorph \in live
  BY MidSwitch, PoolAssumption DEF Reachable
<1>5. bin.actor \in live \/ bin.actor = NULL
  BY DEF Consistent, PointersLive, Reachable
<1>6. ActorsApart'  BY <1>4, <1>5, PoolAssumption DEF Consistent, ActorsApart
<1>7. SwitchWhole'  BY <1>3, <1>4 DEF Consistent, SwitchWhole
<1>8. DepthsFollow'  BY DEF Consistent, DepthsFollow
<1>9. MorphReady'
  <2> SUFFICES ASSUME bin.morphing
               PROVE  /\ actor'[bin.actor].video = actor[bin.actor].video
    BY DEF Consistent, MorphReady
  <2> QED  BY <1>3
<1> QED  BY <1>1, <1>2, <1>6, <1>7, <1>8, <1>9 DEF Consistent

LEMMA NewActorsSafe ==
    ASSUME ManagedClient, BinTypeOK, Consistent, ~fault, NewActor \/ ConnectWithUnknownInput
    PROVE  ~fault' /\ Consistent'
<1>1. PICK name \in Plugins, a \in Actors :
         ClientNewActor(name, a) \/ connect_by_names_unknown_input(name, a)
  BY DEF NewActor, ConnectWithUnknownInput
<1>2. Loaded(name) = {name}  BY DEF Loaded, ManagedClient
<1>3. /\ a \in Actors \ live /\ live' = live \cup {a} /\ mine' \in {mine, mine \cup {a}}
      /\ UNCHANGED <<bin, vdepth, morph, fault>>
  BY <1>1, <1>2 DEF ClientNewActor, connect_by_names_unknown_input
<1>4. PICK r \in {visual_actor_new(name),
                 visual_actor_set_video(visual_actor_new(name), bin.actvideo)} :
         actor' = [actor EXCEPT ![a] = r]
  BY <1>1, <1>2 DEF ClientNewActor, connect_by_names_unknown_input
<1>5. actor'[a].plugin = name
  <2>1. r.plugin = name
    BY DEF visual_actor_set_video, visual_actor_new
  <2> QED  BY <1>3, <1>4, <2>1 DEF BinTypeOK
<1>6. \A x \in Actors \cap live : actor'[x] = actor[x]
  BY <1>3, <1>4 DEF BinTypeOK
<1>7. \A x \in Actors \cap live' : actor'[x].plugin # NULL
  BY <1>3, <1>5, <1>6, PluginAssumption DEF Consistent, PointersLive
<1>8. mine' \subseteq live' /\ stage' = stage
  BY <1>3 DEF Consistent, PointersLive, NewActor, ConnectWithUnknownInput, Stay, clientvars
<1> QED  BY <1>3, <1>6, <1>7, <1>8, ActorsGrow

LEMMA RealizesSafe ==
    ASSUME BinTypeOK, Consistent, ~fault, Realize \/ SkipRealize
    PROVE  ~fault' /\ Consistent' /\ Orderly
<1>1. /\ UNCHANGED <<bin, vdepth, morph, live, mine>>
      /\ stage = "connected" /\ stage' = "realized" /\ bin.actvideo # NULL
  BY DEF Realize, SkipRealize, Goto, visual_bin_realize, vars, heap
<1>2. bin.actor \in Actors /\ bin.actor \in live
  BY <1>1 DEF Consistent, StageAgrees, PointersLive, Reachable, BinTypeOK, Bins
<1>3. ~fault'
  BY <1>2 DEF Realize, SkipRealize, visual_bin_realize, Faulty, vars, heap
<1>4. \A x \in Actors : actor'[x].plugin = actor[x].plugin
  <2>1. CASE Realize
    <3>1. actor' = [actor EXCEPT ![bin.actor] = visual_actor_realize(@)]
      BY <2>1 DEF Realize, visual_bin_realize
    <3> QED  BY <3>1, RealizeKeeps DEF BinTypeOK
  <2>2. CASE SkipRealize  BY <2>2 DEF SkipRealize, vars, heap
  <2> QED  BY <2>1, <2>2
<1>5. ~bin.morphing  BY <1>1 DEF Consistent, StageAgrees
<1>6. StageAgrees'  BY <1>1, <1>5 DEF Consistent, StageAgrees
<1>7. PointersLive'  BY <1>1, <1>4 DEF Consistent, PointersLive, Reachable
<1>8. ActorsApart'  BY <1>1 DEF Consistent, ActorsApart
<1>9. SwitchWhole'  BY <1>1, <1>5 DEF Consistent, SwitchWhole
<1>10. DepthsFollow'  BY <1>1 DEF Consistent, DepthsFollow
<1>11. MorphReady'  BY <1>1, <1>5 DEF MorphReady
<1>12. Orderly
  <2>1. bin.depthchanged \in BOOLEAN  BY DEF BinTypeOK, Bins
  <2> QED  BY <1>1, <2>1 DEF Orderly, Told, SwitchAlike, Kept, NothingLeaks, Reachable
<1> QED  BY <1>3, <1>6, <1>7, <1>8, <1>9, <1>10, <1>11, <1>12 DEF Consistent

LEMMA SetMorphSafe ==
    ASSUME ManagedClient, BinTypeOK, Consistent, ~fault, SetMorphByName
    PROVE  ~fault' /\ Consistent' /\ Orderly
<1>1. PICK m \in Morphs : visual_bin_set_morph_by_name(m)
  BY DEF SetMorphByName
<1>2. stage = "looping" /\ stage' = stage /\ ~bin.morphing
  BY DEF SetMorphByName, Stay, clientvars, Idle, ManagedClient
<1>3. PICK n \in {m, NULL} : /\ bin' = [bin EXCEPT !.morph = n, !.morphmanaged = TRUE]
                             /\ live' = (live \ {bin.morph}) \cup ({n} \ {NULL})
  <2>1. m # NULL  BY PoolAssumption
  <2>2. PICK ok \in BOOLEAN :
           /\ live' = IF ok THEN (live \ {bin.morph}) \cup {m} ELSE live \ {bin.morph}
           /\ bin' = [bin EXCEPT !.morph = IF ok THEN m ELSE NULL, !.morphmanaged = TRUE]
    <3>1. PICK name \in MorphNames :
            LET new == visual_morph_new(name)
                ok  == /\ new # NULL
                       /\ new.plugin => depth_is_supported(MorphDepth, DepthOf(vdepth, bin.actvideo))
            IN  /\ live' = IF ok THEN (live \ {bin.morph}) \cup {m} ELSE live \ {bin.morph}
                /\ bin' = [bin EXCEPT !.morph = IF ok THEN m ELSE NULL, !.morphmanaged = TRUE]
      BY <1>1 DEF visual_bin_set_morph_by_name
    <3> DEFINE new == visual_morph_new(name)
               ok  == /\ new # NULL
                      /\ new.plugin => depth_is_supported(MorphDepth, DepthOf(vdepth, bin.actvideo))
    <3>2. ok \in BOOLEAN  OBVIOUS
    <3> QED  BY <3>1, <3>2
  <2>3. CASE ok  BY <2>1, <2>2, <2>3
  <2>4. CASE ~ok  BY <2>2, <2>4
  <2> QED  BY <2>3, <2>4
<1>4. UNCHANGED <<actor, vdepth, mine>>
  BY <1>1 DEF visual_bin_set_morph_by_name
<1>5. bin.morph \in Morphs \cup {NULL} /\ bin.actvideo # NULL /\ mine \subseteq Actors
         /\ (bin.morph # NULL => bin.morph \in live)
  BY <1>2 DEF BinTypeOK, Bins, Consistent, StageAgrees, PointersLive, Reachable
<1>6. ~fault'
  <2>1. \A name \in MorphNames : visual_morph_new(name) # NULL
    <3>1. "unknown" \notin MorphNames  BY DEF ManagedClient
    <3>2. \A p \in BOOLEAN : [mode |-> "set", rate |-> 0, plugin |-> p, dest |-> NULL] \in MorphRecords
      BY PoolAssumption DEF MorphRecords
    <3> DEFINE of(p) == [mode |-> "set", rate |-> 0, plugin |-> p, dest |-> NULL]
    <3>3. \A p \in BOOLEAN : of(p) # NULL  BY <3>2, PoolAssumption
    <3>4. \A name \in MorphNames : visual_morph_new(name) = of(name = "loads")
      BY <3>1 DEF visual_morph_new
    <3>5. \A name \in MorphNames : (name = "loads") \in BOOLEAN  OBVIOUS
    <3> HIDE DEF of
    <3> QED  BY <3>3, <3>4, <3>5
  <2> QED  BY <1>1, <1>5, <2>1 DEF visual_bin_set_morph_by_name, Faulty
<1>7. /\ bin'.actor = bin.actor /\ bin'.actmorph = bin.actmorph /\ bin'.privvid = bin.privvid
      /\ bin'.actmorphvideo = bin.actmorphvideo /\ bin'.morph = n
      /\ bin'.morphing = bin.morphing /\ bin'.actvideo = bin.actvideo
      /\ bin'.managed = bin.managed /\ bin'.actmorphmanaged = bin.actmorphmanaged
      /\ bin'.depth = bin.depth /\ bin'.depthflag = bin.depthflag
      /\ bin'.depthchanged = bin.depthchanged /\ bin.depthchanged \in BOOLEAN
  BY <1>3 DEF BinTypeOK, Bins
<1>8. StageAgrees'  BY <1>2, <1>7 DEF Consistent, StageAgrees
<1>9. PointersLive'
  <2>1. bin.actor \in Actors \cup {NULL} /\ bin.actmorph = NULL /\ bin.privvid = NULL
           /\ bin.actmorphvideo = NULL
    BY <1>2 DEF BinTypeOK, Bins, Consistent, SwitchWhole
  <2>2. Reachable' \ {NULL} \subseteq live'
    BY <1>3, <1>5, <1>7, <2>1, PoolAssumption DEF Consistent, PointersLive, Reachable
  <2>3. Screens \subseteq live' /\ mine' \subseteq live'
    BY <1>3, <1>4, <1>5, PoolAssumption DEF Consistent, PointersLive
  <2>4. \A x \in Actors \cap live' : x \in live
    BY <1>3, PoolAssumption
  <2> QED  BY <1>4, <2>2, <2>3, <2>4 DEF Consistent, PointersLive
<1>10. ActorsApart'  BY <1>4, <1>7 DEF Consistent, ActorsApart
<1>11. SwitchWhole'  BY <1>2, <1>4, <1>7 DEF Consistent, SwitchWhole
<1>12. DepthsFollow'  BY <1>2, <1>4, <1>7 DEF Consistent, DepthsFollow
<1>13. MorphReady'  BY <1>2, <1>7 DEF MorphReady
<1>14. Orderly
  <2>1. NothingLeaks => NothingLeaks'
    BY <1>3, <1>4, <1>7 DEF NothingLeaks, Reachable
  <2> QED  BY <1>4, <1>7, <2>1 DEF Orderly, Told, SwitchAlike, Kept
<1> QED  BY <1>6, <1>8, <1>9, <1>10, <1>11, <1>12, <1>13, <1>14 DEF Consistent

\* A patient client has no unfinished switch to lose.
LEMMA UnknownNameSafe ==
    ASSUME ManagedClient, BinTypeOK, Consistent, ~fault, SwitchByUnknownName
    PROVE  ~fault' /\ Consistent' /\ Orderly
<1>1. stage = "looping" /\ stage' = stage /\ ~bin.morphing /\ switch_actor_by_unknown_name
  BY DEF SwitchByUnknownName, Stay, clientvars, Idle, ManagedClient
<1>2. UnfinishedManaged = {}
  BY <1>1 DEF UnfinishedManaged, Consistent, SwitchWhole
<1>3. /\ live' = live /\ UNCHANGED <<bin, vdepth, morph, mine>> /\ actor' = Freed(actor, {})
      /\ fault' = Faulty({bin.actor}, live)
  BY <1>1, <1>2 DEF switch_actor_by_unknown_name
<1>4. \A x \in Actors : actor'[x] = actor[x]  BY <1>3 DEF Freed
<1>5. bin.actor \in live
  BY <1>1 DEF Consistent, StageAgrees, PointersLive, Reachable
<1>6. ~fault'  BY <1>3, <1>5 DEF Faulty
<1>7. \A x \in Actors \cap live' : actor'[x].plugin # NULL
  BY <1>3, <1>4 DEF Consistent, PointersLive
<1>8. mine' \subseteq live'  BY <1>3 DEF Consistent, PointersLive
<1>9. Orderly
  <2>1. bin.depthchanged \in BOOLEAN  BY DEF BinTypeOK, Bins
  <2> QED  BY <1>3, <2>1 DEF Orderly, Told, SwitchAlike, Kept, NothingLeaks, Reachable
<1> QED  BY <1>1, <1>3, <1>4, <1>6, <1>7, <1>8, <1>9, ActorsGrow

-----------------------------------------------------------------------------
(* The theorems.                                                            *)

LEMMA ManagedInit == ClientInit => ManagedInvariant
<1> SUFFICES ASSUME ClientInit PROVE ManagedInvariant
  OBVIOUS
<1>1. TypeOK  BY TypeInit DEF TypeInv
<1>2. Consistent
  BY PoolAssumption DEF ClientInit, Init, Consistent, StageAgrees, PointersLive, ActorsApart,
       SwitchWhole, DepthsFollow, MorphReady, Reachable
<1> QED  BY <1>1, <1>2 DEF ClientInit, Init, ManagedInvariant

\* The calls that a client makes outside its loop, or that end it.
Rare ==
    CatchUp \/ ConnectByNames \/ ConnectOwn \/ NewActor \/ ConnectWithUnknownInput \/ Quit

LEMMA ManagedTyped ==
    ASSUME ManagedInvariant, [ClientNext]_allvars
    PROVE  TypeOK' /\ BinTypeOK' /\ BinTypeOK /\ ~fault
<1>1. TypeInv
  <2>1. stage # "done" /\ bin.morphing => bin.actmorph # NULL
    BY DEF ManagedInvariant, Consistent, SwitchWhole
  <2> QED  BY <2>1 DEF ManagedInvariant, TypeInv
<1> QED  BY <1>1, TypeNext DEF TypeInv, TypeOK, ManagedInvariant

LEMMA NotDone ==
    ASSUME ManagedInvariant, ClientNext
    PROVE  stage # "done" /\ Consistent
<1>1. stage # "done"
  BY DEF ClientNext, Setup, SetupPreference, SetupStyle, SetupMode, SetupVideo,
       ConnectByNames, ConnectWithUnknownInput, ConnectOwn, Realize, SkipRealize, CatchUp,
       Sync, Frame, Resize, SetMorph, SetMorphByName, SwitchByName, SwitchByUnknownName,
       SwitchOwn, SwitchFinalize, NewActor, DropActor, Quit
<1> QED  BY <1>1 DEF ManagedInvariant

\* Every call but the last.
LEMMA CallsSafe ==
    ASSUME ManagedClient, ManagedInvariant, ClientNext, ~Quit
    PROVE  ~fault' /\ Consistent' /\ (Rare \/ Orderly)
<1>1. TypeOK' /\ BinTypeOK' /\ BinTypeOK /\ ~fault
  BY ManagedTyped
<1>2. stage # "done" /\ Consistent
  BY NotDone
<1>3. CASE Setup \/ SetupPreference \/ SetupMode \/ CatchUp
  BY <1>1, <1>2, <1>3, SettingsSafe DEF Rare, Orderly
<1>4. CASE SetupStyle
  <2>1. ~bin.morphing  BY <1>2, <1>4 DEF SetupStyle, ManagedClient, Idle, Consistent, StageAgrees
  <2> QED  BY <1>1, <1>2, <1>4, <2>1, SettingsSafe DEF Rare, Orderly
<1>5. CASE SetupVideo
  BY <1>1, <1>2, <1>5, SetupVideoSafe
<1>6. CASE ConnectByNames \/ ConnectOwn
  BY <1>1, <1>2, <1>6, ConnectsSafe DEF Rare
<1>7. CASE NewActor \/ ConnectWithUnknownInput
  BY <1>1, <1>2, <1>7, NewActorsSafe DEF Rare
<1>8. CASE Realize \/ SkipRealize
  BY <1>1, <1>2, <1>8, RealizesSafe
<1>9. CASE Sync \/ Resize
  <2>1. ~SyncRefused
    <3> SUFFICES ASSUME SyncRefused PROVE FALSE
      OBVIOUS
    <3> QED  BY <1>2 DEF SyncRefused, Consistent, MorphReady
  <2>2. visual_bin_sync /\ stage \in {"stale", "looping"} /\ stage' = "looping"
    <3>1. stage \in {"stale", "looping"}  BY <1>9 DEF Sync, Resize
    <3> QED  BY <1>2, <1>9, <2>1, <3>1, NotEmpty DEF Sync, Resize, Goto
  <2> QED  BY <1>1, <1>2, <2>2, SyncSafe
<1>10. CASE Frame
  BY <1>1, <1>2, <1>10, RunSafe DEF Frame, Stay, clientvars
<1>11. CASE SetMorphByName
  BY <1>1, <1>2, <1>11, SetMorphSafe
<1>12. CASE SwitchByName
  <2>1. stage = "looping" /\ stage' = stage /\ ~bin.morphing
    BY <1>12 DEF SwitchByName, Stay, clientvars, Idle, ManagedClient
  <2> QED  BY <1>1, <1>2, <1>12, <2>1, SwitchByNameSafe DEF SwitchByName
<1>13. CASE SwitchByUnknownName
  BY <1>1, <1>2, <1>13, UnknownNameSafe
<1>14. CASE SwitchFinalize
  <2>1. /\ stage = "looping" /\ stage' = stage /\ bin.morphing
        /\ Finalize(actor, morph, FALSE)
    BY <1>14 DEF SwitchFinalize, Stay, clientvars, visual_bin_switch_finalize, ManagedClient
  <2>2. actor \in [Actors -> ActorRecords] /\ FALSE \in BOOLEAN  BY <1>1 DEF BinTypeOK
  <2> QED  BY <1>1, <1>2, <2>1, <2>2, FinalizeSafe
<1>15. CASE SetMorph \/ SwitchOwn \/ DropActor
  BY <1>15 DEF SetMorph, SwitchOwn, DropActor, ManagedClient
<1> QED
  BY <1>3, <1>4, <1>5, <1>6, <1>7, <1>8, <1>9, <1>10, <1>11, <1>12, <1>13, <1>14, <1>15
     DEF ClientNext

LEMMA ManagedNext ==
    ASSUME ManagedClient, ManagedInvariant, [ClientNext]_allvars
    PROVE  ManagedInvariant'
<1>1. TypeOK' /\ BinTypeOK' /\ BinTypeOK /\ ~fault
  BY ManagedTyped
<1>2. CASE UNCHANGED allvars
  <2>1. stage # "done" => Consistent'
    BY <1>2 DEF allvars, vars, heap, seen, clientvars, ManagedInvariant, Consistent, StageAgrees,
         PointersLive, ActorsApart, SwitchWhole, DepthsFollow, MorphReady, Reachable
  <2> QED  BY <1>1, <1>2, <2>1 DEF allvars, vars, clientvars, ManagedInvariant
<1>3. CASE Quit
  <2>1. stage = "looping" /\ stage' = "done" /\ bin_dtor  BY <1>3 DEF Quit, Goto
  <2>2. PointersLive  BY <2>1 DEF ManagedInvariant, Consistent
  <2>3. ~fault'  BY <2>1, <2>2 DEF bin_dtor, Faulty, PointersLive, Reachable
  <2> QED  BY <1>1, <2>1, <2>3 DEF ManagedInvariant
<1>4. CASE ClientNext /\ ~Quit
  BY <1>1, <1>4, CallsSafe DEF ManagedInvariant
<1> QED  BY <1>2, <1>3, <1>4

\* A managed client, whose morphs are on the list (lv_bin.c:187) and which is
\* patient (lv_bin.c:474), never makes the bin follow a NULL or freed pointer, and
\* its invariant holds for all plugins, depths, pools and settings.
THEOREM ManagedSafe ==
    ASSUME ManagedClient
    PROVE  ClientSpec => []ManagedInvariant
<1>1. ManagedInvariant /\ [ClientNext]_allvars => ManagedInvariant'  BY ManagedNext
<1> QED  BY <1>1, ManagedInit, PTL DEF ClientSpec

\* No operation of a managed client follows a NULL or freed pointer: the old
\* actor, its video, the private video and the morph are unreffed exactly once,
\* and a morph whose plugin does not load is dropped (lv_bin.c:875).
THEOREM MemorySafe ==
    ASSUME ManagedClient
    PROVE  ClientSpec => []NoBadAccess
<1>1. ManagedInvariant => NoBadAccess  BY DEF ManagedInvariant, NoBadAccess
<1> QED  BY <1>1, ManagedSafe, PTL

\* In the loop of a managed client the screen has the depth that the client was
\* told.
THEOREM DepthsAgree ==
    ASSUME ManagedClient
    PROVE  ClientSpec => []DepthAgrees
<1>1. ManagedInvariant => DepthAgrees
  BY DEF ManagedInvariant, Consistent, DepthsFollow, StageAgrees, DepthAgrees
<1> QED  BY <1>1, ManagedSafe, PTL

-----------------------------------------------------------------------------
(* What a frame draws and mixes.                                            *)

\* The inductive invariant of the depths of a frame.
FrameInvariant ==
    ManagedInvariant /\ DisplayFollows /\ SwitchAlike /\ DrawsCaughtUp /\ MorphsAlike

\* The depths of what a frame may draw into.
LEMMA FrameDepths ==
    ASSUME BinTypeOK, Consistent, SwitchAlike, stage = "looping"
    PROVE  /\ bin.actor \in Actors /\ bin.actvideo \in Screens /\ vdepth[bin.actvideo] = bin.depth
           /\ actor[bin.actor].video \in {bin.actvideo, bin.privvid} \ {NULL}
           /\ vdepth[actor[bin.actor].video] = bin.depth
           /\ actor[bin.actor].video \in Screens => actor[bin.actor].video = bin.actvideo
           /\ bin.morphing => /\ bin.actmorph \in Actors
                              /\ actor[bin.actmorph].video \notin Screens
                              /\ bin.privvid # NULL => vdepth[actor[bin.actmorph].video] = bin.depth
<1>1. /\ bin.actor \in Actors /\ bin.actvideo \in Screens /\ bin.privvid \in Videos \cup {NULL}
      /\ actor[bin.actor].video \in {bin.actvideo, bin.privvid} \ {NULL}
  BY DEF Consistent, StageAgrees, SwitchWhole, BinTypeOK, Bins
<1>2. vdepth[bin.actvideo] = bin.depth
  BY <1>1, PoolAssumption DEF Consistent, DepthsFollow
<1>3. bin.morphing => /\ bin.actmorph \in Actors /\ bin.actmorphvideo \in Videos
                      /\ actor[bin.actmorph].video = bin.actmorphvideo
  BY MidSwitch
<1> QED  BY <1>1, <1>2, <1>3, PoolAssumption DEF SwitchAlike

LEMMA FrameCaughtUp ==
    ASSUME ManagedClient, BinTypeOK, Consistent, SwitchAlike, DisplayFollows, Frame
    PROVE  DrawsCaughtUp' /\ MorphsAlike'
<1>1. stage = "looping" /\ bin.depth = display /\ display' = display /\ visual_bin_run
  BY DEF Frame, DisplayFollows, Stay, clientvars
<1>2. /\ bin.actor \in Actors /\ bin.actvideo \in Screens /\ vdepth[bin.actvideo] = display
      /\ actor[bin.actor].video \in {bin.actvideo, bin.privvid} \ {NULL}
      /\ vdepth[actor[bin.actor].video] = display
      /\ bin.morphing => /\ bin.actmorph \in Actors
                         /\ actor[bin.actmorph].video \notin Screens
                         /\ bin.privvid # NULL => vdepth[actor[bin.actmorph].video] = display
  BY <1>1, FrameDepths
<1>3. CASE RunRefused \/ RunSwitches
  BY <1>3 DEF RunRefused, RunSwitches, DrawsCaughtUp, MorphsAlike
<1>4. bin.morphing => /\ bin.actmorph # NULL /\ BothRealized \in [Actors -> ActorRecords]
                      /\ \A x \in Actors : BothRealized[x].video = actor[x].video
  BY <1>2, MidSwitch, BothRealizedTyped, BothRealizedKeeps, PoolAssumption
<1>5. ASSUME NEW act, NEW x \in {bin.actor} \cup (IF bin.morphing THEN {bin.actmorph} ELSE {}),
             act[x].video = actor[x].video, NEW d \in Render(act, x), d.onto \in Screens
      PROVE  d.depth = display
  <2>1. d.onto = actor[x].video /\ d.depth = DepthOf(vdepth, actor[x].video)
    BY <1>5 DEF Render, VideoDepth
  <2>2. x = bin.actor  BY <1>2, <1>5, <2>1
  <2> QED  BY <1>2, <2>1, <2>2 DEF DepthOf
<1>6. CASE RunDraws
  <2> DEFINE act0 == IF bin.morphing THEN BothRealized ELSE actor
             act  == [act0 EXCEPT ![bin.actor] = visual_actor_realize(@)]
  <2>1. drawn' = Render(act, bin.actor) /\ blend' = {}
    BY <1>6 DEF RunDraws
  <2>2. act0 \in [Actors -> ActorRecords] /\ act0[bin.actor].video = actor[bin.actor].video
    BY <1>2, <1>4 DEF BinTypeOK
  <2> HIDE DEF act0
  <2>3. act[bin.actor].video = actor[bin.actor].video
    BY <1>2, <2>2, RealizeKeeps
  <2> HIDE DEF act
  <2> QED  BY <1>1, <1>5, <2>1, <2>3 DEF DrawsCaughtUp, MorphsAlike
<1>7. CASE RunMorphs
  <2>1. /\ bin.morphing /\ bin.style = "morph"
        /\ VideoDepth(actor, bin.actor) # GL /\ VideoDepth(actor, bin.actmorph) # GL
        /\ drawn' = Render(BothRealized, bin.actor) \cup Render(BothRealized, bin.actmorph)
        /\ blend' = IF bin.morph # NULL /\ morph[bin.morph].plugin
                    THEN {[dest |-> DepthOf(vdepth, morph[bin.morph].dest),
                           src1 |-> VideoDepth(actor, bin.actor),
                           src2 |-> VideoDepth(actor, bin.actmorph)]} ELSE {}
    BY <1>7 DEF RunMorphs, Pending
  <2>2. /\ VideoDepth(actor, bin.actor) = display
        /\ bin.morphing => actor[bin.actmorph].video = bin.actmorphvideo
        /\ VideoDepth(actor, bin.actmorph) = vdepth[bin.actmorphvideo]
    BY <1>2, <2>1, MidSwitch, PoolAssumption DEF VideoDepth, DepthOf
  <2>3. bin.privvid # NULL
    <3>1. vdepth[actor[bin.actor].video] # GL /\ vdepth[bin.actmorphvideo] # GL
      BY <1>2, <2>1, <2>2
    <3> QED  BY <2>1, <3>1 DEF Consistent, MorphReady
  <2>4. bin.morph # NULL /\ morph[bin.morph].plugin => morph[bin.morph].dest = bin.actvideo
    BY <2>1, <2>3 DEF Consistent, MorphReady
  <2>5. \A b \in blend' : /\ b.dest = DepthOf(vdepth, bin.actvideo)
                          /\ b.src1 = display /\ b.src2 = vdepth[bin.actmorphvideo]
    BY <2>1, <2>2, <2>4
  <2>6. DepthOf(vdepth, bin.actvideo) = display /\ display # GL
    BY <1>2, <2>1, <2>2, PoolAssumption DEF DepthOf
  <2>7. vdepth[bin.actmorphvideo] = display
    BY <1>2, <2>1, <2>2, <2>3
  <2>8. \A d \in drawn' : d.onto \in Screens => d.depth = display
    BY <1>2, <1>4, <1>5, <2>1
  <2> QED  BY <1>1, <2>5, <2>6, <2>7, <2>8 DEF DrawsCaughtUp, MorphsAlike
<1> QED  BY <1>1, <1>3, <1>6, <1>7, NotEmpty DEF visual_bin_run

\* Only a frame draws.
LEMMA OthersDrawNothing ==
    ASSUME ClientNext, ~Frame
    PROVE  (drawn' = {} /\ blend' = {}) \/ UNCHANGED <<drawn, blend, display>>
<1>1. CASE Setup \/ SetupPreference \/ SetupStyle \/ SetupMode \/ SetupVideo \/ CatchUp
  BY <1>1 DEF Setup, SetupPreference, SetupMode, CatchUp, SetupStyle, SetupVideo, Set,
       visual_bin_set_supported_depth, visual_bin_set_preferred_depth, visual_bin_set_video,
       visual_bin_switch_set_style, visual_bin_switch_set_mode, visual_bin_depth_changed
<1>2. CASE ConnectByNames \/ ConnectOwn \/ ConnectWithUnknownInput \/ NewActor \/ DropActor
  BY <1>2 DEF ConnectByNames, ConnectOwn, ConnectWithUnknownInput, NewActor, DropActor, Connect,
       visual_bin_connect, visual_bin_connect_by_names, connect_by_names_unknown_input,
       ClientNewActor, ClientUnrefActor
<1>3. CASE Realize \/ SkipRealize
  BY <1>3 DEF Realize, SkipRealize, visual_bin_realize, vars, seen, Goto
<1>4. CASE Sync \/ Resize
  BY <1>4 DEF Sync, Resize, visual_bin_sync, SyncRefused, SyncEmpty, Set
<1>5. CASE SetMorph \/ SetMorphByName
  BY <1>5 DEF SetMorph, SetMorphByName, visual_bin_set_morph, visual_bin_set_morph_by_name
<1>6. CASE SwitchByName \/ SwitchByUnknownName \/ SwitchOwn \/ SwitchFinalize
  <2>1. \A b, vd, act, lv, a : \A bad \in BOOLEAN :
          SwitchActor(b, vd, act, lv, a, bad) => drawn' = {} /\ blend' = {}
    <3> TAKE b, vd, act, lv, a
    <3> TAKE bad \in BOOLEAN
    <3> HAVE SwitchActor(b, vd, act, lv, a, bad)
    <3> QED  BY Zenon DEF SwitchActor
  <2>2. CASE SwitchByName
    <3>1. PICK b, vd, act, lv, a : \E bad \in BOOLEAN : SwitchActor(b, vd, act, lv, a, bad)
      BY <2>2 DEF SwitchByName, visual_bin_switch_actor_by_name, Faulty
    <3> QED  BY <2>1, <3>1
  <2>3. CASE SwitchOwn
    BY <2>1, <2>3 DEF SwitchOwn, visual_bin_switch_actor
  <2>4. CASE SwitchByUnknownName \/ SwitchFinalize
    BY <2>4 DEF SwitchByUnknownName, SwitchFinalize, switch_actor_by_unknown_name,
         visual_bin_switch_finalize
  <2> QED  BY <1>6, <2>2, <2>3, <2>4
<1>7. CASE Quit
  BY <1>7 DEF Quit, bin_dtor
<1> QED  BY <1>1, <1>2, <1>3, <1>4, <1>5, <1>6, <1>7 DEF ClientNext

\* Where a client is in its loop, and what its display is for.
LEMMA LoopStep ==
    ASSUME BinTypeOK, Consistent, ClientNext, ~Rare
    PROVE  \/ stage' \notin {"stale", "looping"}
           \/ stage \in {"stale", "looping"} /\ display' = display
           \/ bin' = bin /\ display' = bin.depth
<1>1. CASE Resize
  <2>1. bin' = bin /\ stage = "looping" /\ bin.actvideo # NULL /\ display' = vdepth[bin.actvideo]
    BY <1>1 DEF Resize, visual_bin_sync, SyncEmpty, Set
  <2> QED  BY <2>1 DEF Consistent, DepthsFollow
<1>2. CASE ~Resize
  BY <1>2 DEF ClientNext, Rare, Setup, SetupPreference, SetupStyle, SetupMode, SetupVideo,
       Realize, SkipRealize, Sync, Frame, SetMorph, SetMorphByName, SwitchByName,
       SwitchByUnknownName, SwitchOwn, SwitchFinalize, DropActor, Stay, Goto, clientvars
<1> QED  BY <1>1, <1>2

LEMMA FrameNext ==
    ASSUME ManagedClient, FrameInvariant, [ClientNext]_allvars
    PROVE  FrameInvariant'
<1>1. ManagedInvariant' /\ ManagedInvariant
  BY ManagedNext DEF FrameInvariant
<1>2. BinTypeOK /\ BinTypeOK' /\ ~fault
  BY <1>1, ManagedTyped
<1>3. CASE UNCHANGED allvars
  BY <1>1, <1>3 DEF FrameInvariant, DisplayFollows, SwitchAlike, DrawsCaughtUp, MorphsAlike,
       allvars, vars, heap, seen, clientvars
<1>4. CASE ClientNext
  <2>1. Consistent  BY <1>1, <1>4, NotDone
  <2>2. Orderly \/ Rare
    <3>1. CASE Quit  BY <3>1 DEF Rare
    <3>2. CASE ~Quit  BY <1>1, <1>4, <3>2, CallsSafe
    <3> QED  BY <3>1, <3>2
  <2>3. DrawsCaughtUp' /\ MorphsAlike'
    <3>1. CASE Frame  BY <1>2, <2>1, <3>1, FrameCaughtUp DEF FrameInvariant
    <3>2. CASE ~Frame
      BY <1>4, <3>2, OthersDrawNothing DEF FrameInvariant, DrawsCaughtUp, MorphsAlike
    <3> QED  BY <3>1, <3>2
  <2>4. CASE CatchUp
    <3>1. SwitchAlike'  BY <1>2, <2>1, <2>4, SettingsSafe DEF FrameInvariant
    <3>2. bin'.depth = bin.depth /\ display' = bin.depth
      BY <1>2, <2>4 DEF CatchUp, visual_bin_depth_changed, Set, BinTypeOK, Bins
    <3> QED  BY <1>1, <2>3, <3>1, <3>2 DEF FrameInvariant, DisplayFollows
  <2>5. CASE ConnectByNames \/ ConnectOwn
    <3>1. stage' = "connected"  BY <2>5 DEF ConnectByNames, ConnectOwn, Goto
    <3>2. Consistent'  BY <1>1, <3>1 DEF ManagedInvariant
    <3>3. bin'.privvid = NULL  BY <3>1, <3>2 DEF Consistent, StageAgrees, SwitchWhole
    <3> QED  BY <1>1, <2>3, <3>1, <3>3 DEF FrameInvariant, DisplayFollows, SwitchAlike
  <2>6. CASE NewActor \/ ConnectWithUnknownInput
    <3>1. UNCHANGED <<bin, vdepth, stage, display>>
      BY <2>6 DEF NewActor, ConnectWithUnknownInput, ClientNewActor, Stay, clientvars,
           connect_by_names_unknown_input
    <3> QED  BY <1>1, <2>3, <3>1 DEF FrameInvariant, DisplayFollows, SwitchAlike
  <2>7. CASE Quit
    <3>1. stage' = "done" /\ bin'.privvid = NULL
      BY <1>2, <2>7 DEF Quit, Goto, bin_dtor, BinTypeOK, Bins
    <3> QED  BY <1>1, <2>3, <3>1 DEF FrameInvariant, DisplayFollows, SwitchAlike
  <2>8. CASE ~Rare
    <3>1. Told(bin, bin') /\ SwitchAlike'  BY <2>2, <2>8 DEF Orderly, FrameInvariant
    <3>2. DisplayFollows'
      BY <1>2, <1>4, <2>1, <2>8, <3>1, LoopStep DEF FrameInvariant, DisplayFollows, Told
    <3> QED  BY <1>1, <2>3, <3>1, <3>2 DEF FrameInvariant
  <2> QED  BY <2>4, <2>5, <2>6, <2>7, <2>8 DEF Rare
<1> QED  BY <1>3, <1>4

LEMMA FramesAlways ==
    ASSUME ManagedClient
    PROVE  ClientSpec => []FrameInvariant
<1>1. ClientInit => FrameInvariant
  BY ManagedInit DEF ClientInit, Init, FrameInvariant, DisplayFollows, SwitchAlike, DrawsCaughtUp,
     MorphsAlike
<1>2. FrameInvariant /\ [ClientNext]_allvars => FrameInvariant'  BY FrameNext
<1> QED  BY <1>1, <1>2, PTL DEF ClientSpec

\* "We can't start drawing yet, the client needs to catch up with the depth
\* change" (lv_bin.c:848): whatever changes the depth, no frame of a managed
\* client reaches a display of another depth.
THEOREM DrawsOnlyCaughtUp ==
    ASSUME ManagedClient
    PROVE  ClientSpec => []DrawsCaughtUp
<1>1. FrameInvariant => DrawsCaughtUp  BY DEF FrameInvariant
<1> QED  BY <1>1, FramesAlways, PTL

\* lv_bin.c:880: the two videos a morph mixes have the depth of the screen it
\* draws to, which is not openGL, before and after each sync.
THEOREM MorphsOneDepth ==
    ASSUME ManagedClient
    PROVE  ClientSpec => []MorphsAlike
<1>1. FrameInvariant => MorphsAlike  BY DEF FrameInvariant
<1> QED  BY <1>1, FramesAlways, PTL

-----------------------------------------------------------------------------
(* What the bin owns.                                                       *)

\* The bin makes its own actors, and inputs are known: with an unknown input
\* visual_bin_connect_by_names loses the actor it has made.
TidyClient == ManagedClient /\ {"connect", "unknown_input"} \cap Calls = {}

\* The inductive invariant.
TidyInvariant ==
    ManagedInvariant /\ NothingLeaks /\ (stage \notin {"setup", "done"} => bin.managed)

LEMMA TidyNext ==
    ASSUME TidyClient, TidyInvariant, [ClientNext]_allvars
    PROVE  TidyInvariant'
<1>1. ManagedClient /\ ManagedInvariant' /\ ManagedInvariant
  BY ManagedNext DEF TidyClient, TidyInvariant
<1>2. BinTypeOK /\ BinTypeOK' /\ ~fault
  BY <1>1, ManagedTyped
<1>3. CASE UNCHANGED allvars
  BY <1>1, <1>3 DEF TidyInvariant, NothingLeaks, Reachable, allvars, vars, heap, clientvars
<1>4. CASE ClientNext
  <2>1. Consistent /\ stage # "done"  BY <1>1, <1>4, NotDone
  <2>2. CASE Quit
    <3>1. stage' = "done" /\ bin_dtor  BY <2>2 DEF Quit, Goto
    <3> DEFINE freed == ({bin.actor, bin.morph, bin.privvid}
                           \cup (IF bin.actmorphmanaged THEN {bin.actmorph, bin.actmorphvideo} ELSE {}))
                        \ {NULL}
    <3>2. live' = live \ freed /\ mine' = mine  BY <3>1 DEF bin_dtor
    <3>3. Reachable \ {NULL} \subseteq freed
      BY <2>1 DEF Reachable, Consistent, SwitchWhole
    <3>4. NULL \notin live  BY <1>2, PoolAssumption DEF BinTypeOK
    <3>5. live' \subseteq Screens \cup mine'
      BY <3>2, <3>3, <3>4 DEF TidyInvariant, NothingLeaks
    <3>6. NothingLeaks'  BY <3>5 DEF NothingLeaks
    <3> QED  BY <1>1, <3>1, <3>6 DEF TidyInvariant
  <2>3. CASE ConnectByNames \/ ConnectOwn
    BY <1>1, <1>2, <2>1, <2>3, ConnectsSafe DEF TidyInvariant, TidyClient
  <2>4. CASE NewActor \/ ConnectWithUnknownInput
    BY <1>1, <2>4 DEF NewActor, ConnectWithUnknownInput, TidyClient, ManagedClient
  <2>5. CASE CatchUp
    <3>1. Kept  BY <1>2, <2>1, <2>5, SettingsSafe
    <3> QED  BY <1>1, <2>1, <2>5, <3>1 DEF CatchUp, Kept, TidyInvariant
  <2>6. CASE ~Rare
    <3>1. Kept
      <4>1. ~Quit  BY <2>6 DEF Rare
      <4> QED  BY <1>1, <1>4, <2>6, <4>1, CallsSafe DEF Orderly
    <3>2. stage = "setup" => stage' = "setup"
      BY <1>4, <2>6 DEF ClientNext, Rare, Setup, SetupPreference, SetupStyle, SetupMode, SetupVideo,
           Realize, SkipRealize, Sync, Frame, Resize, SetMorph, SetMorphByName, SwitchByName,
           SwitchByUnknownName, SwitchOwn, SwitchFinalize, DropActor, Stay, clientvars
    <3> QED  BY <1>1, <2>1, <3>1, <3>2 DEF Kept, TidyInvariant
  <2> QED  BY <2>2, <2>3, <2>4, <2>5, <2>6 DEF Rare
<1> QED  BY <1>3, <1>4

\* lv_bin.c:39, lv_bin.c:681: for a managed client the bin always points to whatever it
\* has allocated, through all switches, and its destruction leaves nothing behind.
THEOREM NothingIsLost ==
    ASSUME TidyClient
    PROVE  ClientSpec => []NothingLeaks
<1>1. ClientInit => TidyInvariant
  BY ManagedInit DEF ClientInit, Init, TidyInvariant, NothingLeaks
<1>2. TidyInvariant /\ [ClientNext]_allvars => TidyInvariant'  BY TidyNext
<1>3. TidyInvariant => NothingLeaks  BY DEF TidyInvariant
<1> QED  BY <1>1, <1>2, <1>3, PTL DEF ClientSpec

-----------------------------------------------------------------------------
(* What the plugins render to.                                              *)

\* When both actors of a switch are realized, the main actor already was, and a
\* new one gets the surface of its forced depth.
LEMMA RealizedFits ==
    ASSUME ManagedClient, BinTypeOK, Consistent, bin.morphing, actor[bin.actor].realized,
           bin.depthforced \in FlagsOf(actor, bin.actmorph), Matching(actor, bin.actmorph)
    PROVE  /\ BothRealized \in [Actors -> ActorRecords]
           /\ BothRealized[bin.actor] = actor[bin.actor]
           /\ BothRealized[bin.actmorph].realized /\ Matching(BothRealized, bin.actmorph)
           /\ BothRealized[bin.actmorph].video = actor[bin.actmorph].video
           /\ FlagsOf(BothRealized, bin.actmorph) = FlagsOf(actor, bin.actmorph)
           /\ \/ actor[bin.actmorph].realized /\ BothRealized[bin.actmorph] = actor[bin.actmorph]
              \/ Fits(BothRealized, vdepth, bin.actmorph)
<1>1. /\ bin.actor \in Actors /\ bin.actmorph \in Actors /\ bin.actmorph # bin.actor
      /\ actor[bin.actmorph].plugin \in Plugins /\ bin.actmorphmanaged = TRUE
      /\ actor[bin.actmorph].video \in Videos
      /\ actor \in [Actors -> ActorRecords] /\ vdepth \in [Videos \cup Screens -> DepthValues]
  BY MidSwitch DEF BinTypeOK, Bins
<1>2. BothRealized \in [Actors -> ActorRecords]
  BY <1>1, BothRealizedTyped, PoolAssumption
<1> DEFINE r1 == [actor EXCEPT ![bin.actmorph] = visual_actor_realize(@)]
           n  == Forced(r1, vdepth, bin.actmorph, bin.depthforced)
<1>3. NextRealized = IF actor[bin.actmorph].realized THEN actor ELSE n
  BY <1>1 DEF NextRealized, FirstRealize, Forced
<1>4. /\ r1 \in [Actors -> ActorRecords] /\ r1[bin.actmorph].realized
      /\ SameSurfaces(r1[bin.actmorph], actor[bin.actmorph])
      /\ r1[bin.actmorph].video = actor[bin.actmorph].video
      /\ r1[bin.actor] = actor[bin.actor]
  <2>1. visual_actor_realize(actor[bin.actmorph]) \in ActorRecords
    BY <1>1, RealizeTyped
  <2>2. r1[bin.actmorph] = visual_actor_realize(actor[bin.actmorph])
    BY <1>1
  <2>3. r1 \in [Actors -> ActorRecords] /\ r1[bin.actor] = actor[bin.actor]
    BY <1>1, <2>1
  <2> HIDE DEF r1
  <2> QED  BY <1>1, <2>2, <2>3, SurfacesKept, PluginAssumption
<1> HIDE DEF r1
<1>5. /\ n[bin.actmorph].realized /\ Matching(n, bin.actmorph)
      /\ Fits(n, vdepth, bin.actmorph) /\ n[bin.actor] = actor[bin.actor]
      /\ n[bin.actmorph].video = actor[bin.actmorph].video
      /\ FlagsOf(n, bin.actmorph) = FlagsOf(actor, bin.actmorph)
  <2>1. /\ bin.depthforced \in FlagsOf(r1, bin.actmorph) /\ Matching(r1, bin.actmorph)
        /\ FlagsOf(r1, bin.actmorph) = FlagsOf(actor, bin.actmorph)
    BY <1>4, MatchingKept
  <2>2. r1[bin.actmorph].plugin \in Plugins /\ r1[bin.actmorph].video # NULL
    BY <1>1, <1>4, PoolAssumption DEF SameSurfaces
  <2>3. r1 \in [Actors -> ActorRecords] /\ vdepth \in [Videos \cup Screens -> DepthValues]
    BY <1>1, <1>4
  <2>4. bin.actmorph \in Actors /\ bin.actor \in Actors \ {bin.actmorph}
    BY <1>1
  <2>5. /\ r1[bin.actmorph].realized => n[bin.actmorph].realized
        /\ n[bin.actmorph].video = r1[bin.actmorph].video
        /\ FlagsOf(n, bin.actmorph) = FlagsOf(r1, bin.actmorph)
        /\ Matching(r1, bin.actmorph) => Matching(n, bin.actmorph)
        /\ r1[bin.actmorph].video # NULL => Fits(n, vdepth, bin.actmorph)
        /\ \A x \in Actors \ {bin.actmorph} : n[x] = r1[x]
    BY <2>1, <2>2, <2>3, <2>4, NegotiatedFits
  <2> QED  BY <1>1, <1>4, <2>1, <2>2, <2>4, <2>5
<1> HIDE DEF n
<1>6. NextRealized[bin.actor] = actor[bin.actor]  BY <1>3, <1>5
<1>7. BothRealized = NextRealized  BY <1>6 DEF BothRealized, FirstRealize
<1>8. CASE actor[bin.actmorph].realized
  BY <1>2, <1>3, <1>7, <1>8
<1>9. CASE ~actor[bin.actmorph].realized
  BY <1>2, <1>3, <1>5, <1>7, <1>9
<1> QED  BY <1>8, <1>9

\* A switch ends with an actor whose plugin supports the depth of the screen.
LEMMA FinalizeSteady ==
    ASSUME ManagedClient, BinTypeOK, Consistent, bin.morphing,
           NEW act \in [Actors -> ActorRecords],
           act[bin.actmorph].plugin = actor[bin.actmorph].plugin,
           act[bin.actmorph].realized, Matching(act, bin.actmorph),
           NEW mor, NEW bad, Finalize(act, mor, bad)
    PROVE  SurfacesReady'
<1> DEFINE freed == Retires(bin)
           next  == bin.actmorph
           flags == visual_actor_get_supported_depth(act[next])
           depth == fix_depth_with_bin(bin, bin_get_depth_using_preferred(bin, flags))
           b     == visual_bin_set_depth(Retired(bin), depth)
           vd    == [vdepth EXCEPT ![bin.actvideo] = depth]
           set   == [Freed(act, freed) EXCEPT ![next] = visual_actor_set_video(@, bin.actvideo)]
           neg   == Forced(set, vd, next, depth)
<1>1. /\ bin.actor \in Actors /\ next \in Actors /\ next # bin.actor /\ bin \in Bins
      /\ bin.actvideo \in Screens /\ bin.actmorphvideo \in Videos /\ bin.actmorphmanaged
      /\ bin.privvid \in Videos \cup {NULL} /\ bin.morph \in Morphs \cup {NULL}
      /\ bin.depthflag \in DepthFlags /\ act[next].plugin \in Plugins
      /\ vdepth \in [Videos \cup Screens -> DepthValues]
  BY MidSwitch DEF BinTypeOK
<1>2. flags = FlagsOf(act, next)
  BY <1>1, PluginAssumption DEF visual_actor_get_supported_depth, FlagsOf
<1>3. depth \in flags /\ depth \in DepthBits /\ depth \in bin.depthflag /\ depth \in DepthValues
  <2>1. depth \in flags /\ depth \in DepthBits /\ depth \in bin.depthflag
    BY <1>1, <1>2, ChosenDepth DEF FlagsOf
  <2> QED  BY <2>1 DEF DepthValues
<1> HIDE DEF depth, flags
<1>4. next \notin freed
  BY <1>1, PoolAssumption DEF Retires
<1>5. /\ set \in [Actors -> ActorRecords] /\ SameSurfaces(set[next], act[next])
      /\ set[next].realized /\ set[next].video = bin.actvideo
  <2>1. Freed(act, freed) \in [Actors -> ActorRecords] /\ Freed(act, freed)[next] = act[next]
    BY <1>1, <1>4, FreedTyped DEF Freed
  <2>2. set[next] = visual_actor_set_video(act[next], bin.actvideo)
    BY <1>1, <2>1
  <2>3. visual_actor_set_video(act[next], bin.actvideo) \in ActorRecords
    BY <1>1, SetVideoTyped
  <2>4. set \in [Actors -> ActorRecords]  BY <1>1, <2>1, <2>3
  <2> HIDE DEF set
  <2> QED  BY <1>1, <2>2, <2>4, SurfacesKept
<1> HIDE DEF set
<1>6. Matching(set, next) /\ FlagsOf(set, next) = flags
  BY <1>2, <1>5, MatchingKept
<1>7. neg[next].realized /\ Matching(neg, next) /\ FlagsOf(neg, next) = flags
  <2>1. vd \in [Videos \cup Screens -> DepthValues]  BY <1>1, <1>3
  <2> HIDE DEF vd
  <2>2. set[next].plugin \in Plugins  BY <1>1, <1>5 DEF SameSurfaces
  <2>3. next \in Actors /\ depth \in FlagsOf(set, next)  BY <1>1, <1>3, <1>6
  <2> HIDE DEF next
  <2> QED  BY <1>5, <1>6, <2>1, <2>2, <2>3, NegotiatedFits
<1> HIDE DEF neg
<1>8. /\ bin' = [b EXCEPT !.depthforcedmain = depth]
      /\ actor' = IF b.depthchanged THEN neg ELSE set
  <2>1. bin.actmorph # NULL  BY <1>1, PoolAssumption
  <2> QED  BY <2>1 DEF Finalize, SupportedDepth, depth, flags, set, neg, Forced
<1>9. /\ bin'.actor = next /\ bin'.morphing = FALSE
      /\ bin'.depth = depth /\ bin'.depthforcedmain = depth
  <2>1. Retired(bin) \in Bins /\ Retired(bin).depthflag = bin.depthflag
    <3>1. \A c \in Bins : Retired(c).depthflag = c.depthflag  BY DEF Retired, Bins
    <3> QED  BY <1>1, <3>1, RetiredTyped
  <2>2. b.depth = depth /\ b \in Bins  BY <1>3, <2>1, SetDepthSupported, SetDepthTyped
  <2>3. \A c \in Bins : [c EXCEPT !.depthforcedmain = depth].depthforcedmain = depth
    BY DEF Bins
  <2>4. bin'.depthforcedmain = depth
    <3> HIDE DEF b
    <3> QED  BY <1>8, <2>2, <2>3
  <2> QED  BY <1>1, <1>3, <1>8, <2>2, <2>4, RetiredFields
<1>10. CASE b.depthchanged
  <2>1. actor' = neg  BY <1>8, <1>10
  <2> QED  BY <1>3, <1>7, <1>9, <2>1 DEF SurfacesReady, Steady, Matching, FlagsOf
<1>11. CASE ~b.depthchanged
  <2>1. actor' = set  BY <1>8, <1>11
  <2> QED  BY <1>3, <1>5, <1>6, <1>9, <2>1 DEF SurfacesReady, Steady, Matching, FlagsOf
<1> QED  BY <1>10, <1>11

LEMMA RenderFits ==
    ASSUME NEW act, NEW a, Fits(act, vdepth, a), NEW d \in Render(act, a)
    PROVE  d.surface \in PluginDepth[d.plugin]
<1>1. act[a].video # NULL
  BY DEF Render
<1>2. d.plugin = act[a].plugin /\ d.surface = RenderSurface(act[a], vdepth[act[a].video])
  BY <1>1 DEF Render, VideoDepth, DepthOf
<1> QED  BY <1>2 DEF Fits, FlagsOf

\* A frame without a switch: the main actor draws to the screen.
LEMMA SteadyServed ==
    ASSUME ManagedClient, BinTypeOK, Consistent, SwitchAlike, SurfacesReady, Frame,
           RunDraws, ~bin.morphing
    PROVE  SurfacesReady' /\ RendersSupported'
<1>1. /\ stage = "looping" /\ stage' = "looping" /\ Steady
      /\ bin.actor \in Actors /\ actor[bin.actor].video = bin.actvideo
      /\ vdepth[bin.actvideo] = bin.depth /\ bin.actvideo \in Screens
      /\ actor[bin.actor] \in ActorRecords /\ actor[bin.actor].plugin # NULL
  <2>1. stage = "looping" /\ stage' = "looping"
    BY DEF Frame, Stay, clientvars
  <2>2. /\ bin.actor \in Actors /\ bin.actvideo \in Screens /\ vdepth[bin.actvideo] = bin.depth
        /\ actor[bin.actor].video \in {bin.actvideo, bin.privvid} \ {NULL}
    BY <2>1, FrameDepths
  <2>3. bin.privvid = NULL  BY DEF Consistent, SwitchWhole
  <2>4. bin.actor \in live
    BY <2>2, PoolAssumption DEF Consistent, PointersLive, Reachable
  <2> QED  BY <2>1, <2>2, <2>3, <2>4 DEF SurfacesReady, BinTypeOK, Consistent, PointersLive
<1>2. /\ actor' = [actor EXCEPT ![bin.actor] = visual_actor_realize(@)]
      /\ drawn' = Render(actor', bin.actor) /\ UNCHANGED <<bin, vdepth>>
  BY DEF RunDraws
<1>3. /\ SameSurfaces(actor'[bin.actor], actor[bin.actor])
      /\ actor'[bin.actor].video = bin.actvideo /\ actor'[bin.actor].realized
  <2>1. actor'[bin.actor] = visual_actor_realize(actor[bin.actor])
    BY <1>1, <1>2 DEF BinTypeOK
  <2> QED  BY <1>1, <2>1, SurfacesKept
<1>4. /\ FlagsOf(actor', bin.actor) = FlagsOf(actor, bin.actor)
      /\ Matching(actor', bin.actor)
  BY <1>1, <1>3, MatchingKept DEF Steady
<1>5. bin.depth \in FlagsOf(actor', bin.actor) /\ bin.depthforcedmain \in FlagsOf(actor', bin.actor)
  BY <1>1, <1>4 DEF Steady
<1>6. SurfacesReady'
  BY <1>1, <1>2, <1>3, <1>4, <1>5 DEF SurfacesReady, Steady, Matching, FlagsOf
<1>7. Fits(actor', vdepth, bin.actor)
  <2>1. {actor'[bin.actor].transform, actor'[bin.actor].fitting}
           \subseteq FlagsOf(actor', bin.actor) \cup {NULL}
    BY <1>4 DEF Matching
  <2>2. RenderSurface(actor'[bin.actor], bin.depth) \in FlagsOf(actor', bin.actor)
    BY <1>5, <2>1, MatchingFits
  <2> QED  BY <1>1, <1>3, <2>2 DEF Fits
<1>8. RendersSupported'
  <2>1. \A d \in Render(actor', bin.actor) : d.surface \in PluginDepth[d.plugin]
    BY <1>7, RenderFits
  <2> QED  BY <1>2, <2>1 DEF RendersSupported
<1> QED  BY <1>6, <1>8

\* A frame of a morph: both actors draw into videos that they were negotiated for.
LEMMA MorphServed ==
    ASSUME ManagedClient, BinTypeOK, Consistent, SwitchAlike, SurfacesReady, Frame,
           RunMorphs
    PROVE  SurfacesReady' /\ RendersSupported'
<1>1. /\ bin.morphing /\ bin.style = "morph" /\ VideoDepth(actor, bin.actor) # GL
      /\ stage = "looping" /\ stage' = "looping" /\ ~bin.depthchanged
  BY DEF RunMorphs, Pending, Frame, Stay, clientvars
<1>2. /\ bin.actor \in Actors /\ bin.actmorph \in Actors /\ bin.actmorph # bin.actor
      /\ vdepth[actor[bin.actor].video] = bin.depth /\ actor[bin.actor].video # NULL
      /\ actor[bin.actmorph].plugin \in Plugins
  BY <1>1, FrameDepths, MidSwitch
<1>3. bin.depth # GL
  BY <1>1, <1>2 DEF VideoDepth, DepthOf
<1>4. Changing /\ actor[bin.actor].realized
  BY <1>1 DEF SurfacesReady
<1>5. /\ bin.depthforced \in FlagsOf(actor, bin.actmorph) /\ Matching(actor, bin.actmorph)
      /\ bin.depthforcedmain \in FlagsOf(actor, bin.actor) /\ Matching(actor, bin.actor)
      /\ Fits(actor, vdepth, bin.actor)
      /\ actor[bin.actmorph].realized => Fits(actor, vdepth, bin.actmorph)
  BY <1>1, <1>3, <1>4 DEF Changing
<1>6. /\ BothRealized \in [Actors -> ActorRecords]
      /\ BothRealized[bin.actor] = actor[bin.actor]
      /\ BothRealized[bin.actmorph].realized /\ Matching(BothRealized, bin.actmorph)
      /\ FlagsOf(BothRealized, bin.actmorph) = FlagsOf(actor, bin.actmorph)
      /\ \/ actor[bin.actmorph].realized /\ BothRealized[bin.actmorph] = actor[bin.actmorph]
         \/ Fits(BothRealized, vdepth, bin.actmorph)
  BY <1>1, <1>4, <1>5, RealizedFits
<1>7. Fits(BothRealized, vdepth, bin.actor) /\ Fits(BothRealized, vdepth, bin.actmorph)
  BY <1>5, <1>6 DEF Fits, FlagsOf
<1>8. RendersSupported'
  <2>1. drawn' = Render(BothRealized, bin.actor) \cup Render(BothRealized, bin.actmorph)
    BY DEF RunMorphs
  <2>2. /\ \A d \in Render(BothRealized, bin.actor) : d.surface \in PluginDepth[d.plugin]
        /\ \A d \in Render(BothRealized, bin.actmorph) : d.surface \in PluginDepth[d.plugin]
    BY <1>7, RenderFits
  <2> QED  BY <2>1, <2>2 DEF RendersSupported
<1>9. SurfacesReady'
  <2>1. \/ \E mor, bad : Finalize(BothRealized, mor, bad)
        \/ actor' = BothRealized /\ UNCHANGED <<bin, vdepth>>
    BY DEF RunMorphs
  <2>2. CASE \E mor, bad : Finalize(BothRealized, mor, bad)
    <3>1. BothRealized[bin.actmorph].plugin = actor[bin.actmorph].plugin
      BY <1>1, <1>2, BothRealizedKeeps, MidSwitch, PoolAssumption
    <3> QED  BY <1>1, <1>6, <2>2, <3>1, FinalizeSteady
  <2>3. CASE actor' = BothRealized /\ UNCHANGED <<bin, vdepth>>
    <3>1. Matching(BothRealized, bin.actor) /\ bin.depthforcedmain \in FlagsOf(BothRealized, bin.actor)
      BY <1>5, <1>6 DEF Matching, FlagsOf
    <3>2. /\ bin'.depthforced \in FlagsOf(actor', bin'.actmorph) /\ Matching(actor', bin'.actmorph)
          /\ bin'.depthforcedmain \in FlagsOf(actor', bin'.actor) /\ Matching(actor', bin'.actor)
          /\ Fits(actor', vdepth', bin'.actor) /\ Fits(actor', vdepth', bin'.actmorph)
          /\ actor'[bin'.actor].realized
      BY <1>4, <1>5, <1>6, <1>7, <2>3, <3>1
    <3>3. Changing'
      BY <3>2 DEF Changing, Matching, Fits, FlagsOf
    <3> QED  BY <1>1, <2>3, <3>2, <3>3 DEF SurfacesReady
  <2> QED  BY <2>1, <2>2, <2>3
<1> QED  BY <1>8, <1>9

LEMMA FrameServed ==
    ASSUME ManagedClient, BinTypeOK, Consistent, SwitchAlike, SurfacesReady, Frame
    PROVE  SurfacesReady' /\ RendersSupported'
<1>1. stage = "looping" /\ visual_bin_run /\ actor[bin.actor].realized
  BY DEF Frame, SurfacesReady
<1>2. CASE RunRefused
  <2>1. bin.morphing  BY <1>2 DEF RunRefused
  <2> QED  BY <1>2, <2>1, MidSwitch, PluginAssumption, PoolAssumption DEF RunRefused
<1>3. CASE RunSwitches
  <2>1. bin.morphing /\ drawn' = {}  BY <1>3 DEF RunSwitches, Pending
  <2>2. bin.depthforced \in FlagsOf(actor, bin.actmorph) /\ Matching(actor, bin.actmorph)
    BY <1>1, <2>1 DEF SurfacesReady, Changing
  <2>3. /\ BothRealized \in [Actors -> ActorRecords]
        /\ BothRealized[bin.actmorph].realized /\ Matching(BothRealized, bin.actmorph)
    BY <1>1, <2>1, <2>2, RealizedFits
  <2>4. BothRealized[bin.actmorph].plugin = actor[bin.actmorph].plugin
    BY <2>1, BothRealizedKeeps, MidSwitch, PoolAssumption
  <2>5. PICK bad : Finalize(BothRealized, morph, bad)
    BY <1>3 DEF RunSwitches
  <2>6. SurfacesReady'  BY <2>1, <2>3, <2>4, <2>5, FinalizeSteady
  <2> QED  BY <2>1, <2>6 DEF RendersSupported
<1>4. CASE RunDraws /\ ~bin.morphing
  BY <1>4, SteadyServed
<1>5. CASE RunDraws /\ bin.morphing
  <2>1. /\ bin.style = "morph" /\ VideoDepth(actor, bin.actor) # GL
        /\ VideoDepth(actor, bin.actmorph) = GL
    BY <1>5 DEF RunDraws
  <2>2. /\ bin.actvideo \in Screens /\ vdepth[bin.actvideo] = bin.depth
        /\ actor[bin.actor].video # NULL /\ vdepth[actor[bin.actor].video] = bin.depth
        /\ bin.privvid # NULL => vdepth[actor[bin.actmorph].video] = bin.depth
    BY <1>1, <1>5, FrameDepths
  <2>3. actor[bin.actmorph].video # NULL
    BY <1>5, MidSwitch, PoolAssumption
  <2>4. bin.depth # GL /\ vdepth[actor[bin.actmorph].video] = GL
    BY <2>1, <2>2, <2>3 DEF VideoDepth, DepthOf
  <2>5. bin.privvid = NULL  BY <2>2, <2>4
  <2> QED  BY <1>5, <2>1, <2>2, <2>4, <2>5 DEF Consistent, MorphReady
<1>6. CASE RunMorphs
  BY <1>6, MorphServed
<1> QED  BY <1>1, <1>2, <1>3, <1>4, <1>5, <1>6, NotEmpty DEF visual_bin_run

\* The client realizes its first actor.
ServedClient == TidyClient /\ "skip_realize" \notin Calls

\* It does not end a switch before the new actor is realized, which a frame does
\* and, in a morph, a sync.
LateFinalize == SwitchFinalize => actor[bin.actmorph].realized

\* The inductive invariant.
ServedInvariant ==
    TidyInvariant /\ FrameInvariant /\ SurfacesReady /\ RendersSupported

\* Calls that neither connect an actor nor touch a switch.
LEMMA OthersServed ==
    ASSUME ServedClient, ServedInvariant, BinTypeOK, Consistent, ~fault,
           Setup \/ SetupPreference \/ SetupStyle \/ SetupMode \/ SetupVideo
             \/ Realize \/ CatchUp \/ SetMorphByName \/ SwitchByUnknownName
    PROVE  SurfacesReady'
<1>1. /\ SurfacesReady
      /\ stage \notin {"setup", "done"} => bin.actor \in Actors /\ actor[bin.actor].plugin # NULL
      /\ actor \in [Actors -> ActorRecords] /\ bin \in Bins
  <2>1. stage \notin {"setup", "done"} => bin.actor \in Actors /\ bin.actor \in live
    BY DEF BinTypeOK, Bins, Consistent, StageAgrees, PointersLive, Reachable
  <2> QED  BY <2>1 DEF ServedInvariant, BinTypeOK, Consistent, PointersLive
<1>2. CASE Setup \/ SetupPreference \/ SetupMode
  <2>1. stage = "setup" /\ stage' = stage
    BY <1>2 DEF Setup, SetupPreference, SetupMode, Stay, clientvars
  <2> QED  BY <2>1 DEF SurfacesReady
<1>3. CASE SetupStyle
  <2>1. /\ stage' = stage /\ actor' = actor /\ bin'.actor = bin.actor
        /\ bin'.depth = bin.depth /\ bin'.depthforcedmain = bin.depthforcedmain
        /\ bin'.morphing = bin.morphing /\ ~bin.morphing
    BY <1>1, <1>3 DEF SetupStyle, Set, heap, visual_bin_switch_set_style, Stay, clientvars, Bins,
         Consistent, StageAgrees, Idle, ServedClient, TidyClient, ManagedClient
  <2> QED  BY <1>1, <2>1 DEF SurfacesReady, Steady, Matching, FlagsOf
<1>4. CASE SetupVideo
  <2>1. /\ stage' = stage /\ actor' = actor /\ bin'.actor = bin.actor
        /\ bin'.depth = bin.depth /\ bin'.depthforcedmain = bin.depthforcedmain
        /\ bin'.morphing = bin.morphing /\ ~bin.morphing
    BY <1>1, <1>4 DEF SetupVideo, visual_bin_set_video, Stay, clientvars, Bins,
         Consistent, StageAgrees
  <2> QED  BY <1>1, <2>1 DEF SurfacesReady, Steady, Matching, FlagsOf
<1>5. CASE Realize
  <2>1. /\ stage = "connected" /\ stage' = "realized" /\ bin' = bin /\ ~bin.morphing
        /\ actor' = [actor EXCEPT ![bin.actor] = visual_actor_realize(@)]
    BY <1>5 DEF Realize, visual_bin_realize, Goto, Consistent, StageAgrees
  <2>2. actor'[bin.actor] = visual_actor_realize(actor[bin.actor])
    BY <1>1, <2>1
  <2>3. SameSurfaces(actor'[bin.actor], actor[bin.actor]) /\ actor'[bin.actor].realized
    BY <1>1, <2>1, <2>2, SurfacesKept
  <2>4. Steady  BY <1>1, <2>1 DEF SurfacesReady
  <2>5. /\ Matching(actor', bin.actor) /\ FlagsOf(actor', bin.actor) = FlagsOf(actor, bin.actor)
    BY <2>3, <2>4, MatchingKept DEF Steady
  <2> QED  BY <2>1, <2>3, <2>4, <2>5 DEF SurfacesReady, Steady, Matching, FlagsOf
<1>6. CASE CatchUp
  <2>1. /\ stage \in {"realized", "looping"} /\ stage' = "stale" /\ actor' = actor
        /\ bin'.actor = bin.actor /\ bin'.actmorph = bin.actmorph
        /\ bin'.depth = bin.depth /\ bin'.depthforcedmain = bin.depthforcedmain
        /\ bin'.depthforced = bin.depthforced
        /\ bin'.morphing = bin.morphing /\ bin'.style = bin.style
    BY <1>1, <1>6 DEF CatchUp, visual_bin_depth_changed, Set, heap, Bins
  <2>2. CASE bin.morphing
    <3>1. Changing  BY <1>1, <2>1, <2>2 DEF SurfacesReady
    <3>2. Changing'  BY <2>1, <3>1 DEF Changing, Matching, FlagsOf
    <3> QED  BY <1>1, <2>1, <2>2, <3>2 DEF SurfacesReady
  <2>3. CASE ~bin.morphing
    BY <1>1, <2>1, <2>3 DEF SurfacesReady, Steady, Matching, FlagsOf
  <2> QED  BY <2>2, <2>3
<1>7. CASE SetMorphByName
  <2>1. /\ stage = "looping" /\ stage' = stage /\ actor' = actor /\ ~bin.morphing
        /\ \E m : bin' = [bin EXCEPT !.morph = m, !.morphmanaged = TRUE]
    BY <1>7 DEF SetMorphByName, visual_bin_set_morph_by_name, Stay, clientvars, Idle,
         ServedClient, TidyClient, ManagedClient
  <2>2. /\ bin'.actor = bin.actor /\ bin'.morphing = bin.morphing
        /\ bin'.depth = bin.depth /\ bin'.depthforcedmain = bin.depthforcedmain
    BY <1>1, <2>1 DEF Bins
  <2> QED  BY <1>1, <2>1, <2>2 DEF SurfacesReady, Steady, Matching, FlagsOf
<1>8. CASE SwitchByUnknownName
  <2>1. /\ stage = "looping" /\ stage' = stage /\ ~bin.morphing /\ bin' = bin
        /\ actor' = Freed(actor, UnfinishedManaged)
    BY <1>8 DEF SwitchByUnknownName, switch_actor_by_unknown_name, Stay, clientvars, Idle,
         ServedClient, TidyClient, ManagedClient
  <2>2. UnfinishedManaged = {}
    BY <2>1 DEF UnfinishedManaged, Consistent, SwitchWhole
  <2>3. actor'[bin.actor] = actor[bin.actor]  BY <1>1, <2>1, <2>2 DEF Freed
  <2> QED  BY <1>1, <2>1, <2>3 DEF SurfacesReady, Steady, Matching, FlagsOf
<1> QED  BY <1>2, <1>3, <1>4, <1>5, <1>6, <1>7, <1>8

LEMMA ServedNext ==
    ASSUME ServedClient, ServedInvariant, [ClientNext]_allvars, [LateFinalize]_allvars
    PROVE  ServedInvariant'
<1>1. TidyClient /\ ManagedClient
  BY DEF ServedClient, TidyClient
<1>2. TidyInvariant' /\ FrameInvariant'
  BY <1>1, TidyNext, FrameNext DEF ServedInvariant
<1>3. ManagedInvariant /\ BinTypeOK /\ BinTypeOK' /\ ~fault
  BY ManagedTyped DEF ServedInvariant, TidyInvariant
<1>4. CASE UNCHANGED allvars
  BY <1>2, <1>4 DEF ServedInvariant, SurfacesReady, Steady, Changing, Matching, Fits, FlagsOf,
       RendersSupported, allvars, vars, heap, seen, clientvars
<1>5. CASE ClientNext /\ LateFinalize
  <2>1. Consistent /\ stage # "done"  BY <1>3, <1>5, NotDone
  <2>2. CASE Frame
    BY <1>1, <1>2, <1>3, <2>1, <2>2, FrameServed DEF ServedInvariant, FrameInvariant
  <2>3. CASE ~Frame
    <3>1. RendersSupported'
      BY <1>5, <2>3, OthersDrawNothing DEF ServedInvariant, RendersSupported
    <3>2. SurfacesReady'
      <4>1. CASE Setup \/ SetupPreference \/ SetupStyle \/ SetupMode \/ SetupVideo
                   \/ Realize \/ CatchUp \/ SetMorphByName \/ SwitchByUnknownName
        BY <1>3, <2>1, <4>1, OthersServed
      <4>2. CASE ConnectByNames
        <5>1. Steady' /\ Consistent'
          BY <1>1, <1>3, <2>1, <4>2, ConnectsSafe DEF TidyClient
        <5>2. stage' = "connected"  BY <4>2 DEF ConnectByNames, Goto
        <5> QED  BY <5>1, <5>2 DEF SurfacesReady, Consistent, StageAgrees
      <4>3. CASE Sync \/ Resize
        <5>1. ~SyncRefused
          BY <2>1 DEF SyncRefused, Consistent, MorphReady
        <5>2. visual_bin_sync /\ stage \in {"stale", "looping"} /\ stage' = "looping"
          <6>1. stage \in {"stale", "looping"}  BY <4>3 DEF Sync, Resize
          <6> QED  BY <2>1, <4>3, <5>1, <6>1, NotEmpty DEF Sync, Resize, Goto
        <5>3. bin.managed  BY <5>2 DEF ServedInvariant, TidyInvariant
        <5> QED  BY <1>1, <1>3, <2>1, <5>2, <5>3, SyncSafe DEF ServedInvariant
      <4>4. CASE SwitchByName
        <5>1. stage = "looping" /\ stage' = stage /\ ~bin.morphing
          BY <1>1, <4>4 DEF SwitchByName, Stay, clientvars, Idle, ManagedClient
        <5> QED
          BY <1>1, <1>3, <2>1, <4>4, <5>1, SwitchByNameSafe DEF SwitchByName, ServedInvariant
      <4>5. CASE Quit
        BY <4>5 DEF Quit, Goto, SurfacesReady
      <4>6. CASE ConnectOwn \/ ConnectWithUnknownInput \/ SkipRealize \/ SetMorph \/ SwitchOwn
                   \/ NewActor \/ DropActor
        BY <4>6 DEF ConnectOwn, ConnectWithUnknownInput, SkipRealize, SetMorph, SwitchOwn,
             NewActor, DropActor, ServedClient, TidyClient, ManagedClient
      <4>7. CASE SwitchFinalize
        <5>1. /\ stage = "looping" /\ stage' = stage /\ bin.morphing
              /\ Finalize(actor, morph, FALSE) /\ actor[bin.actmorph].realized
          BY <1>1, <1>5, <4>7 DEF LateFinalize, SwitchFinalize, Stay, clientvars, visual_bin_switch_finalize,
               ManagedClient
        <5>2. Matching(actor, bin.actmorph) /\ actor \in [Actors -> ActorRecords]
          BY <1>3, <5>1 DEF ServedInvariant, SurfacesReady, Changing, BinTypeOK
        <5> QED  BY <1>1, <1>3, <2>1, <5>1, <5>2, FinalizeSteady
      <4> QED  BY <1>5, <2>3, <4>1, <4>2, <4>3, <4>4, <4>5, <4>6, <4>7 DEF ClientNext
    <3> QED  BY <1>2, <3>1, <3>2 DEF ServedInvariant
  <2> QED  BY <2>2, <2>3
<1> QED  BY <1>4, <1>5

\* lv_actor.c:573, lv_bin.c:336: through every switch, morph, depth change and sync, whatever
\* visual_actor_run hands to a plugin is a video of a depth in the plugin's flag.  The
\* client may end switches itself (visual_bin_switch_finalize), but not before a frame has
\* realized the new actor: the next frame would negotiate it for another's depth.
THEOREM LateFinalizeRenders ==
    ASSUME ServedClient
    PROVE  ClientSpec /\ [][LateFinalize]_allvars => []RendersSupported
<1>1. ClientInit => ServedInvariant
  <2>1. ClientInit => TidyInvariant
    BY ManagedInit DEF ClientInit, Init, TidyInvariant, NothingLeaks
  <2>2. ClientInit => FrameInvariant
    BY ManagedInit DEF ClientInit, Init, FrameInvariant, DisplayFollows, SwitchAlike, DrawsCaughtUp,
       MorphsAlike
  <2> QED  BY <2>1, <2>2 DEF ClientInit, Init, ServedInvariant, SurfacesReady, RendersSupported
<1>2. ServedInvariant /\ [ClientNext]_allvars /\ [LateFinalize]_allvars => ServedInvariant'
  BY ServedNext
<1>3. ServedInvariant => RendersSupported  BY DEF ServedInvariant
<1> QED  BY <1>1, <1>2, <1>3, PTL DEF ClientSpec

\* A client that leaves the end of each switch to the frames never ends one early.
THEOREM RendersWhatItCan ==
    ASSUME ServedClient, "switch_finalize" \notin Calls
    PROVE  ClientSpec => []RendersSupported
<1>1. ClientNext => LateFinalize  BY DEF LateFinalize, SwitchFinalize
<1> QED  BY <1>1, LateFinalizeRenders, PTL DEF ClientSpec

-----------------------------------------------------------------------------
(* The promise of VisSwitch.                                                *)

\* What a client sees of the bin, as VisSwitch names it.
Shown   == IF bin.actor = NULL THEN NULL ELSE actor[bin.actor].plugin
Coming  == IF bin.morphing /\ bin.actmorph # NULL THEN actor[bin.actmorph].plugin ELSE NULL
InFrame == {r.plugin : r \in drawn}

\* The steps of VisSwitch, in these names.
Starts    == Shown = NULL /\ Coming = NULL /\ Shown' \in Plugins /\ InFrame' = {} /\ Coming' = Coming
Requests  == Shown # NULL /\ Coming = NULL /\ Coming' \in Plugins /\ InFrame' = {} /\ Shown' = Shown
Draws     == /\ \/ InFrame' = {}
                \/ Shown # NULL /\ InFrame' = {Shown}
                \/ Coming # NULL /\ InFrame' = {Shown, Coming}
             /\ Shown' = Shown /\ Coming' = Coming
Completes == /\ Coming # NULL /\ Shown' = Coming /\ Coming' = NULL
             /\ InFrame' \in {{}, {Shown, Coming}}
Stops     == Shown' = NULL /\ Coming' = NULL /\ InFrame' = {}
Rests     == UNCHANGED <<Shown, Coming, InFrame>>

\* A step that leaves the actors of the bin alone changes neither of its plugins.
LEMMA SameShow ==
    ASSUME BinTypeOK, Consistent,
           bin'.actor = bin.actor, bin'.actmorph = bin.actmorph, bin'.morphing = bin.morphing,
           \A x \in Actors \cap live : actor'[x].plugin = actor[x].plugin
    PROVE  Shown' = Shown /\ Coming' = Coming
<1>1. bin.actor \in Actors \cup {NULL} /\ bin.actmorph \in Actors \cup {NULL}
  BY DEF BinTypeOK, Bins
<1>2. (bin.actor # NULL => bin.actor \in live) /\ (bin.actmorph # NULL => bin.actmorph \in live)
  BY DEF Consistent, PointersLive, Reachable
<1> QED  BY <1>1, <1>2 DEF Shown, Coming

\* A render names the plugin of its actor.
LEMMA RenderedPlugins ==
    ASSUME NEW act, NEW a
    PROVE  {r.plugin : r \in Render(act, a)}
             = IF act[a].plugin = NULL \/ act[a].video = NULL THEN {} ELSE {act[a].plugin}
<1>1. CASE act[a].plugin = NULL \/ act[a].video = NULL
  BY <1>1 DEF Render
<1>2. CASE ~(act[a].plugin = NULL \/ act[a].video = NULL)
  <2> DEFINE e == [actor |-> a, plugin |-> act[a].plugin, onto |-> act[a].video,
                   depth |-> VideoDepth(act, a), surface |-> RenderSurface(act[a], VideoDepth(act, a))]
  <2>1. Render(act, a) = {e}  BY <1>2 DEF Render
  <2>2. e.plugin = act[a].plugin  OBVIOUS
  <2> HIDE DEF e
  <2> QED  BY <1>2, <2>1, <2>2
<1> QED  BY <1>1, <1>2

\* During a switch there are two plugins.
LEMMA SwitchShown ==
    ASSUME BinTypeOK, Consistent, bin.morphing
    PROVE  /\ Shown = actor[bin.actor].plugin /\ Coming = actor[bin.actmorph].plugin
           /\ Shown # NULL /\ Coming # NULL
BY MidSwitch, PoolAssumption, PluginAssumption DEF Shown, Coming

\* The end of a switch is the step Complete, whatever was drawn before it.
LEMMA FinalizeCompletes ==
    ASSUME ManagedClient, BinTypeOK, Consistent, bin.morphing, BinTypeOK',
           NEW act \in [Actors -> ActorRecords],
           \A x \in Actors : act[x].plugin = actor[x].plugin,
           NEW mor, NEW bad \in BOOLEAN, ~bad, Finalize(act, mor, bad),
           stage' = "looping"
    PROVE  Coming # NULL /\ Shown' = Coming /\ Coming' = NULL
<1>1. TookOver  BY FinalizeSafe
<1>2. bin.actmorph # NULL  BY MidSwitch, PoolAssumption
<1> QED  BY <1>1, <1>2, SwitchShown DEF TookOver, Shown, Coming

\* One frame: the plugin on screen, alone or with the requested one, or nothing.
LEMMA FramePromised ==
    ASSUME ManagedClient, BinTypeOK, Consistent, BinTypeOK', visual_bin_run,
           stage = "looping", stage' = stage
    PROVE  Draws \/ Completes
<1>1. bin.actor \in Actors /\ bin.actmorph \in Actors \cup {NULL} /\ bin.morph \in Morphs \cup {NULL}
  BY DEF Consistent, StageAgrees, BinTypeOK, Bins
<1>2. bin.morphing => /\ bin.actmorph # NULL /\ BothRealized \in [Actors -> ActorRecords]
                      /\ \A x \in Actors : /\ BothRealized[x].video = actor[x].video
                                           /\ BothRealized[x].plugin = actor[x].plugin
  BY <1>1, MidSwitch, BothRealizedTyped, BothRealizedKeeps, PoolAssumption
<1>3. actor \in [Actors -> ActorRecords]  BY DEF BinTypeOK
<1>4. Shown = actor[bin.actor].plugin /\ Shown # NULL
  <2>1. bin.actor # NULL /\ bin.actor \in live
    BY <1>1, PoolAssumption DEF Consistent, PointersLive, Reachable
  <2> QED  BY <1>1, <2>1 DEF Shown, Consistent, PointersLive
<1>5. CASE RunRefused
  BY <1>1, <1>5, MidSwitch, PluginAssumption, PoolAssumption DEF RunRefused
<1>6. CASE RunSwitches
  <2>1. bin.morphing /\ drawn' = {}  BY <1>6 DEF RunSwitches, Pending
  <2>2. FrameFaulty(actor, {bin.actor, bin.actmorph}) = FALSE
    <3>1. ~FrameFaulty(actor, {bin.actor, bin.actmorph})  BY <2>1, FramePointers
    <3> QED  BY <3>1 DEF FrameFaulty, Faulty
  <2>3. Finalize(BothRealized, morph, FALSE)
    BY <1>6, <2>2 DEF RunSwitches
  <2>4. Coming # NULL /\ Shown' = Coming /\ Coming' = NULL
    BY <1>2, <2>1, <2>3, FinalizeCompletes
  <2> QED  BY <2>1, <2>4 DEF Completes, InFrame
<1>7. CASE RunDraws
  <2> DEFINE act0 == IF bin.morphing THEN BothRealized ELSE actor
  <2>1. /\ act0 \in [Actors -> ActorRecords]
        /\ \A x \in Actors : act0[x].video = actor[x].video /\ act0[x].plugin = actor[x].plugin
    BY <1>2, <1>3
  <2>2. /\ actor' = [act0 EXCEPT ![bin.actor] = visual_actor_realize(@)]
        /\ drawn' = Render(actor', bin.actor) /\ bin' = bin
    BY <1>7 DEF RunDraws
  <2> HIDE DEF act0
  <2>3. \A x \in Actors : actor'[x].plugin = actor[x].plugin
    BY <2>1, <2>2, RealizeKeeps
  <2>4. Shown' = Shown /\ Coming' = Coming
    BY <2>2, <2>3, SameShow
  <2>5. InFrame' \in {{}, {Shown}}
    <3>1. {r.plugin : r \in Render(actor', bin.actor)} \in {{}, {actor'[bin.actor].plugin}}
      BY RenderedPlugins
    <3>2. InFrame' = {r.plugin : r \in Render(actor', bin.actor)}  BY <2>2 DEF InFrame
    <3> QED  BY <1>1, <1>4, <2>3, <3>1, <3>2
  <2> QED  BY <1>4, <2>4, <2>5 DEF Draws
<1>8. CASE RunMorphs
  <2> DEFINE usable == bin.morph # NULL /\ morph[bin.morph].plugin
             bad    == \/ FrameFaulty(actor, {bin.actor, bin.actmorph})
                       \/ usable /\ Faulty({bin.morph, morph[bin.morph].dest}, live)
  <2>1. bin.morphing  BY <1>8 DEF RunMorphs, Pending
  <2>2. InFrame' = {Shown, Coming} /\ Coming # NULL
    <3>1. /\ Shown = actor[bin.actor].plugin /\ Coming = actor[bin.actmorph].plugin
          /\ Shown # NULL /\ Coming # NULL
      BY <2>1, SwitchShown
    <3>2. /\ bin.actor \in Actors /\ bin.actmorph \in Actors
          /\ actor[bin.actor].video # NULL /\ actor[bin.actmorph].video # NULL
      BY <2>1, MidSwitch, PoolAssumption
    <3>3. drawn' = Render(BothRealized, bin.actor) \cup Render(BothRealized, bin.actmorph)
      BY <1>8 DEF RunMorphs
    <3>4. /\ {r.plugin : r \in Render(BothRealized, bin.actor)} = {Shown}
          /\ {r.plugin : r \in Render(BothRealized, bin.actmorph)} = {Coming}
      <4>1. \A a \in {bin.actor, bin.actmorph} :
              {r.plugin : r \in Render(BothRealized, a)}
                = IF BothRealized[a].plugin = NULL \/ BothRealized[a].video = NULL
                  THEN {} ELSE {BothRealized[a].plugin}
        BY RenderedPlugins
      <4>2. \A a \in {bin.actor, bin.actmorph} : /\ BothRealized[a].video = actor[a].video
                                                 /\ BothRealized[a].plugin = actor[a].plugin
        BY <1>2, <2>1, <3>2
      <4> QED  BY <3>1, <3>2, <4>1, <4>2
    <3>5. InFrame' = {r.plugin : r \in Render(BothRealized, bin.actor)}
                       \cup {r.plugin : r \in Render(BothRealized, bin.actmorph)}
      BY <3>3 DEF InFrame
    <3> QED  BY <3>1, <3>4, <3>5
  <2>3. ASSUME NEW mor, Finalize(BothRealized, mor, bad)  PROVE Completes
    <3>1. ~fault'  BY RunSafe
    <3>2. ~bad  BY <2>3, <3>1 DEF Finalize
    <3>3. bad \in BOOLEAN  BY DEF FrameFaulty, Faulty
    <3> HIDE DEF bad
    <3>4. Coming # NULL /\ Shown' = Coming /\ Coming' = NULL
      BY <1>2, <2>1, <2>3, <3>2, <3>3, FinalizeCompletes
    <3> QED  BY <2>2, <3>4 DEF Completes
  <2>4. \/ \E mor : Finalize(BothRealized, mor, bad)
        \/ actor' = BothRealized /\ bin' = bin
    BY <1>8 DEF RunMorphs
  <2>5. CASE actor' = BothRealized /\ bin' = bin
    <3>1. Shown' = Shown /\ Coming' = Coming
      BY <1>2, <2>1, <2>5, SameShow
    <3> QED  BY <2>2, <3>1 DEF Draws
  <2> HIDE DEF bad
  <2> QED  BY <2>3, <2>4, <2>5
<1> QED  BY <1>5, <1>6, <1>7, <1>8, NotEmpty DEF visual_bin_run

\* The calls that change neither the actors of the bin nor their plugins.
LEMMA CallsKeepShow ==
    ASSUME ManagedClient, BinTypeOK, Consistent, BinTypeOK', ClientNext,
           ~(ConnectByNames \/ ConnectOwn \/ Frame \/ SwitchByName \/ SwitchFinalize \/ Quit)
    PROVE  Shown' = Shown /\ Coming' = Coming
<1> SUFFICES /\ bin'.actor = bin.actor /\ bin'.actmorph = bin.actmorph /\ bin'.morphing = bin.morphing
             /\ \A x \in Actors \cap live : actor'[x].plugin = actor[x].plugin
  BY SameShow
<1>1. CASE Setup \/ SetupPreference \/ SetupStyle \/ SetupMode \/ SetupVideo \/ CatchUp
  BY <1>1 DEF Setup, SetupPreference, SetupMode, CatchUp, SetupStyle, SetupVideo, Set,
       visual_bin_set_supported_depth, visual_bin_set_preferred_depth, visual_bin_set_video,
       visual_bin_switch_set_style, visual_bin_switch_set_mode, visual_bin_depth_changed,
       heap, BinTypeOK, Bins
<1>2. CASE NewActor \/ ConnectWithUnknownInput
  <2>1. PICK a \in Actors \ live : bin' = bin /\ \E r : actor' = [actor EXCEPT ![a] = r]
    BY <1>2 DEF NewActor, ConnectWithUnknownInput, ClientNewActor, connect_by_names_unknown_input
  <2> QED  BY <2>1 DEF BinTypeOK
<1>3. CASE Realize \/ SkipRealize
  <2>1. bin' = bin /\ actor' \in {actor, [actor EXCEPT ![bin.actor] = visual_actor_realize(@)]}
    BY <1>3 DEF Realize, SkipRealize, visual_bin_realize, vars, heap
  <2> QED  BY <2>1, RealizeKeeps DEF BinTypeOK
<1>4. CASE Sync \/ Resize
  <2>1. CASE SyncRefused  BY <2>1 DEF SyncRefused
  <2>2. CASE visual_bin_sync
    <3>1. bin' = bin /\ stage \in {"stale", "looping"} /\ stage' = "looping"
      BY <1>4, <2>2 DEF Sync, Resize, Goto, visual_bin_sync
    <3> QED  BY <2>2, <3>1, SyncSafe
  <2>3. stage \in {"stale", "looping"}  BY <1>4 DEF Sync, Resize
  <2> QED  BY <1>4, <2>1, <2>2, <2>3, NotEmpty DEF Sync, Resize
<1>5. CASE SetMorphByName
  <2>1. actor' = actor /\ \E m \in Morphs \cup {NULL}, man \in BOOLEAN :
                            bin' = [bin EXCEPT !.morph = m, !.morphmanaged = man]
    BY <1>5 DEF SetMorphByName, visual_bin_set_morph_by_name
  <2> QED  BY <2>1 DEF BinTypeOK, Bins
<1>6. CASE SwitchByUnknownName
  <2>1. ~bin.morphing  BY <1>6 DEF SwitchByUnknownName, Idle, ManagedClient
  <2>2. UnfinishedManaged = {}  BY <2>1 DEF UnfinishedManaged, Consistent, SwitchWhole
  <2>3. bin' = bin /\ actor' = Freed(actor, {})
    BY <1>6, <2>2 DEF SwitchByUnknownName, switch_actor_by_unknown_name
  <2> QED  BY <2>3 DEF Freed
<1>7. CASE SetMorph \/ SwitchOwn \/ DropActor
  BY <1>7 DEF SetMorph, SwitchOwn, DropActor, ManagedClient
<1> QED  BY <1>1, <1>2, <1>3, <1>4, <1>5, <1>6, <1>7 DEF ClientNext

\* Every step of a managed client is a step of VisSwitch, or none.
LEMMA ClientPromised ==
    ASSUME ManagedClient, ManagedInvariant, [ClientNext]_allvars
    PROVE  Starts \/ Requests \/ Draws \/ Completes \/ Stops \/ Rests
<1>1. BinTypeOK /\ BinTypeOK' /\ ManagedInvariant'
  BY ManagedTyped, ManagedNext
<1>2. CASE UNCHANGED allvars
  BY <1>2 DEF allvars, vars, heap, seen, Rests, Shown, Coming, InFrame
<1>3. CASE ClientNext
  <2>1. stage # "done" /\ Consistent  BY <1>3, NotDone
  <2>2. ~Frame => InFrame' \in {{}, InFrame}
    <3>1. ~Frame => drawn' \in {{}, drawn}  BY <1>3, OthersDrawNothing
    <3> QED  BY <3>1 DEF InFrame
  <2>3. CASE Frame
    BY <1>1, <2>1, <2>3, FramePromised DEF Frame, Stay, clientvars
  <2>4. CASE ConnectByNames \/ ConnectOwn
    <3>1. stage = "setup" /\ stage' = "connected"
      BY <2>4 DEF ConnectByNames, ConnectOwn, Goto
    <3>2. bin.actor = NULL /\ ~bin.morphing  BY <2>1, <3>1 DEF Consistent, StageAgrees
    <3>3. Consistent'  BY <1>1, <3>1 DEF ManagedInvariant
    <3>4. bin'.actor # NULL /\ ~bin'.morphing  BY <3>1, <3>3 DEF Consistent, StageAgrees
    <3>5. actor'[bin'.actor].plugin \in Plugins
      <4>1. bin'.actor \in Actors /\ bin'.actor \in live'
        BY <1>1, <3>3, <3>4 DEF BinTypeOK, Bins, Consistent, PointersLive, Reachable
      <4> QED  BY <1>1, <3>3, <4>1 DEF Consistent, PointersLive, BinTypeOK, ActorRecords
    <3>6. drawn' = {}
      BY <2>4 DEF ConnectByNames, ConnectOwn, visual_bin_connect_by_names, visual_bin_connect, Connect
    <3> QED  BY <3>2, <3>4, <3>5, <3>6 DEF Starts, Shown, Coming, InFrame
  <2>5. CASE SwitchByName
    <3>1. stage = "looping" /\ stage' = stage /\ ~bin.morphing
      BY <2>5 DEF SwitchByName, Stay, clientvars, Idle, ManagedClient
    <3>2. PICK name \in Plugins : Requested(name)
      BY <1>1, <2>1, <2>5, <3>1, SwitchByNameSafe DEF SwitchByName
    <3>3. bin.actor \in Actors /\ bin.actor # NULL /\ actor[bin.actor].plugin # NULL
      BY <1>1, <2>1, <3>1 DEF Consistent, StageAgrees, PointersLive, Reachable, BinTypeOK, Bins
    <3>4. drawn' = {}
      <4>1. \A b, vd, act, lv, a : \A bad \in BOOLEAN :
              SwitchActor(b, vd, act, lv, a, bad) => drawn' = {}
        <5> TAKE b, vd, act, lv, a
        <5> TAKE bad \in BOOLEAN
        <5> HAVE SwitchActor(b, vd, act, lv, a, bad)
        <5> QED  BY Zenon DEF SwitchActor
      <4>2. PICK b, vd, act, lv, a : \E bad \in BOOLEAN : SwitchActor(b, vd, act, lv, a, bad)
        BY <2>5 DEF SwitchByName, visual_bin_switch_actor_by_name, Faulty
      <4> QED  BY <4>1, <4>2
    <3> QED  BY <3>1, <3>2, <3>3, <3>4 DEF Requests, Requested, Shown, Coming, InFrame
  <2>6. CASE SwitchFinalize
    <3>1. /\ stage' = "looping" /\ bin.morphing /\ drawn' = {}
          /\ Finalize(actor, morph, FALSE)
      BY <2>6 DEF SwitchFinalize, Stay, clientvars, visual_bin_switch_finalize, ManagedClient
    <3>2. actor \in [Actors -> ActorRecords] /\ FALSE \in BOOLEAN  BY <1>1 DEF BinTypeOK
    <3>3. Coming # NULL /\ Shown' = Coming /\ Coming' = NULL
      BY <1>1, <2>1, <3>1, <3>2, FinalizeCompletes
    <3> QED  BY <3>1, <3>3 DEF Completes, InFrame
  <2>7. CASE Quit
    <3>1. bin'.actor = NULL /\ bin'.actmorph = NULL /\ drawn' = {}
      BY <1>1, <2>7 DEF Quit, bin_dtor, BinTypeOK, Bins
    <3> QED  BY <3>1 DEF Stops, Shown, Coming, InFrame
  <2>8. CASE ~(ConnectByNames \/ ConnectOwn \/ Frame \/ SwitchByName \/ SwitchFinalize \/ Quit)
    <3>1. Shown' = Shown /\ Coming' = Coming
      BY <1>1, <1>3, <2>1, <2>8, CallsKeepShow
    <3> QED  BY <2>2, <2>8, <3>1 DEF Draws, Rests
  <2> QED  BY <2>3, <2>4, <2>5, <2>6, <2>7, <2>8
<1> QED  BY <1>2, <1>3

\* The bin implements VisSwitch (lv_bin.c:650, 835): a frame of a managed client
\* shows the actor on screen, alone or beside the requested one, never a third;
\* and a switch ends with the requested actor on screen.
THEOREM SwitchesAsPromised ==
    ASSUME ManagedClient
    PROVE  ClientSpec => KeepsPromise
<1>1. ClientInit => Promise!SwitchInit
  BY DEF ClientInit, Init, Promise!SwitchInit
<1>2. ManagedInvariant /\ [ClientNext]_allvars => [Promise!SwitchNext]_(Promise!switchvars)
  <2> SUFFICES ASSUME ManagedInvariant, [ClientNext]_allvars
               PROVE  [Promise!SwitchNext]_(Promise!switchvars)
    OBVIOUS
  <2>1. Starts \/ Requests \/ Draws \/ Completes \/ Stops \/ Rests  BY ClientPromised
  <2>2. Starts => Promise!Start  BY DEF Starts, Shown, Coming, InFrame, Promise!Start
  <2>3. Requests => Promise!Request  BY DEF Requests, Shown, Coming, InFrame, Promise!Request
  <2>4. Draws => Promise!Draw  BY DEF Draws, Shown, Coming, InFrame, Promise!Draw
  <2>5. Completes => Promise!Complete  BY DEF Completes, Shown, Coming, InFrame, Promise!Complete
  <2>6. Stops => Promise!Stop  BY DEF Stops, Shown, Coming, InFrame, Promise!Stop
  <2>7. Rests => UNCHANGED Promise!switchvars
    BY DEF Rests, Shown, Coming, InFrame, Promise!switchvars
  <2> QED  BY <2>1, <2>2, <2>3, <2>4, <2>5, <2>6, <2>7 DEF Promise!SwitchNext
<1> QED  BY <1>1, <1>2, ManagedSafe, PTL DEF ClientSpec, KeepsPromise, Promise!SwitchSpec

-----------------------------------------------------------------------------
(* How a requested actor comes nearer to the screen.                         *)

\* The client turns this morph by hand, and ends the switch itself.
ByHand ==
    bin.privvid # NULL /\ bin.morph # NULL /\ morph[bin.morph].plugin /\ morph[bin.morph].mode = "set"

Turned == IF bin.morph = NULL THEN 0 ELSE morph[bin.morph].rate

\* What is left to do for the client's loop until a switch ends: frames of the
\* morph, and before the next of them a depth to catch up with and a sync.
WaitLeft ==
    4 * (MorphFrames - Turned) + (IF bin.depthchanged THEN 2 ELSE 0) + (IF stage = "stale" THEN 1 ELSE 0)

\* Nothing puts a switch off, and each step of the loop brings it nearer to its end.
Nearer ==
    /\ WaitLeft \in Nat /\ WaitLeft' <= WaitLeft
    /\ bin'.actmorph = bin.actmorph
    /\ Loop /\ ~(Frame /\ ByHand) => WaitLeft' < WaitLeft

LEMMA WaitTyped ==
    ASSUME BinTypeOK
    PROVE  MorphFrames \in Nat /\ Turned \in 0 .. MorphFrames /\ WaitLeft \in Nat
<1>1. bin.morph \in Morphs \cup {NULL} /\ morph \in [Morphs -> MorphRecords] /\ MorphFrames \in Nat
  BY PoolAssumption DEF BinTypeOK, Bins
<1>2. bin.morph # NULL => morph[bin.morph].rate \in 0 .. MorphFrames
  BY <1>1 DEF MorphRecords
<1>3. Turned \in 0 .. MorphFrames
  BY <1>1, <1>2 DEF Turned
<1>4. MorphFrames - Turned \in Nat
  BY <1>1, <1>3
<1> HIDE DEF Turned
<1> QED  BY <1>1, <1>3, <1>4 DEF WaitLeft

\* A frame of a client that has caught up either ends the switch or turns the
\* morph: it never waits for a sync that does not come.
LEMMA FrameTurns ==
    ASSUME ManagedClient, BinTypeOK, BinTypeOK', Consistent, SwitchAlike, Frame, bin.morphing
    PROVE  \/ TookOver
           \/ /\ bin' = bin /\ stage' = stage
              /\ Turned' >= Turned
              /\ ~ByHand => Turned' > Turned
<1>1. stage = "looping" /\ stage' = stage /\ visual_bin_run
  BY DEF Frame, Stay, clientvars
<1>2. /\ bin.actor \in Actors /\ bin.actmorph \in Actors /\ bin.morph \in Morphs \cup {NULL}
      /\ bin.actor # NULL /\ bin.actmorph # NULL
      /\ actor[bin.actmorph].plugin # NULL /\ actor[bin.actor].plugin # NULL
      /\ actor[bin.actor].video # NULL
      /\ actor[bin.actmorph].video = bin.actmorphvideo
  BY MidSwitch, PoolAssumption, PluginAssumption
<1>3. BothRealized \in [Actors -> ActorRecords] /\ \A x \in Actors : BothRealized[x].plugin = actor[x].plugin
  BY <1>2, BothRealizedTyped, BothRealizedKeeps
<1>4. /\ VideoDepth(actor, bin.actor) = bin.depth
      /\ VideoDepth(actor, bin.actmorph) = vdepth[bin.actmorphvideo]
      /\ bin.privvid # NULL => vdepth[bin.actmorphvideo] = bin.depth
  BY <1>1, <1>2, FrameDepths, MidSwitch, PoolAssumption DEF VideoDepth, DepthOf
<1>5. bin.style = "morph" /\ bin.privvid = NULL => bin.depth = GL
  BY <1>1, FrameDepths DEF Consistent, MorphReady
<1>6. ASSUME NEW mor, NEW bad, Finalize(BothRealized, mor, bad)  PROVE TookOver
  <2>1. ~fault'  BY <1>1, RunSafe
  <2>2. bad = FALSE \/ bad  BY <1>6, <2>1 DEF Finalize
  <2>3. Finalize(BothRealized, mor, FALSE)  BY <1>6, <2>1 DEF Finalize
  <2> QED  BY <1>1, <1>3, <2>3, FinalizeSafe
<1>7. CASE RunRefused
  BY <1>2, <1>7 DEF RunRefused
<1>8. CASE RunSwitches
  BY <1>6, <1>8 DEF RunSwitches
<1>9. CASE RunDraws
  BY <1>4, <1>5, <1>9 DEF RunDraws
<1>10. CASE RunMorphs
  <2> DEFINE usable == bin.morph # NULL /\ morph[bin.morph].plugin
             bad    == \/ FrameFaulty(actor, {bin.actor, bin.actmorph})
                       \/ usable /\ Faulty({bin.morph, morph[bin.morph].dest}, live)
  <2>1. bin.style = "morph" /\ VideoDepth(actor, bin.actor) # GL
    BY <1>10 DEF RunMorphs
  <2>2. bin.privvid # NULL  BY <1>4, <1>5, <2>1
  <2>3. CASE ~usable
    <3>1. Finalize(BothRealized, morph, bad)  BY <1>10, <2>3 DEF RunMorphs
    <3> QED  BY <1>6, <3>1
  <2>4. CASE usable
    <3>1. PICK rate \in visual_morph_run(morph[bin.morph]) :
             \/ Finalize(BothRealized, [morph EXCEPT ![bin.morph].rate = rate], bad)
             \/ morph' = [morph EXCEPT ![bin.morph].rate = rate] /\ bin' = bin
      BY <1>10, <2>4 DEF RunMorphs
    <3>2. CASE Finalize(BothRealized, [morph EXCEPT ![bin.morph].rate = rate], bad)
      BY <1>6, <3>2
    <3>3. CASE morph' = [morph EXCEPT ![bin.morph].rate = rate] /\ bin' = bin
      <4>1. /\ bin.morph \in Morphs /\ morph[bin.morph] \in MorphRecords
            /\ morph \in [Morphs -> MorphRecords]
        BY <1>2, <2>4 DEF BinTypeOK
      <4>2. Turned = morph[bin.morph].rate /\ Turned' = rate
        BY <2>4, <3>3, <4>1 DEF Turned, MorphRecords
      <4>3. morph[bin.morph].rate \in 0 .. MorphFrames /\ MorphFrames \in Nat
        BY <4>1, PoolAssumption DEF MorphRecords
      <4>4. /\ morph[bin.morph].mode = "set" => rate = morph[bin.morph].rate
            /\ morph[bin.morph].mode # "set" => rate \in (morph[bin.morph].rate + 1) .. MorphFrames
        BY <3>1 DEF visual_morph_run
      <4>5. ~ByHand => morph[bin.morph].mode # "set"  BY <2>2, <2>4 DEF ByHand
      <4>6. rate >= morph[bin.morph].rate /\ (~ByHand => rate > morph[bin.morph].rate)
        BY <4>3, <4>4, <4>5
      <4> QED  BY <1>1, <3>3, <4>2, <4>6
    <3> QED  BY <3>1, <3>2, <3>3
  <2> QED  BY <2>3, <2>4
<1> QED  BY <1>1, <1>7, <1>8, <1>9, <1>10, NotEmpty DEF visual_bin_run

\* A sync moves the morph, but not back.
LEMMA SyncKeepsTurn ==
    ASSUME BinTypeOK, visual_bin_sync
    PROVE  bin' = bin /\ Turned' = Turned
<1>1. bin' = bin /\ morph' \in {morph, MorphMoves(bin, morph)}
  BY DEF visual_bin_sync
<1>2. bin.morph \in Morphs \cup {NULL} /\ morph \in [Morphs -> MorphRecords]
  BY DEF BinTypeOK, Bins
<1>3. bin.morph # NULL => morph'[bin.morph].rate = morph[bin.morph].rate
  BY <1>1, <1>2 DEF MorphMoves, MorphRecords
<1> QED  BY <1>1, <1>3 DEF Turned

\* Each step of a managed client during a switch.
LEMMA SwitchComesNearer ==
    ASSUME ManagedClient, FrameInvariant, ClientNext, bin.morphing, stage' # "done"
    PROVE  IF bin'.morphing THEN Nearer ELSE TookOver
<1>1. /\ BinTypeOK /\ BinTypeOK' /\ ~fault /\ Consistent /\ SwitchAlike
      /\ stage \in {"stale", "looping"}
  <2>1. ManagedInvariant  BY DEF FrameInvariant
  <2>2. Consistent  BY <2>1, NotDone
  <2> QED  BY <2>1, <2>2, ManagedTyped DEF FrameInvariant, Consistent, StageAgrees
<1>2. /\ MorphFrames \in Nat /\ Turned \in Nat /\ WaitLeft \in Nat /\ Turned' \in Nat
      /\ bin \in Bins /\ bin.depthchanged \in BOOLEAN
  <2>1. (BinTypeOK => Turned \in 0 .. MorphFrames)'  BY WaitTyped, PTL
  <2> QED  BY <1>1, <2>1, WaitTyped DEF BinTypeOK, Bins
<1>3. CASE Frame
  <2>1. CASE TookOver  BY <2>1 DEF TookOver
  <2>2. CASE /\ bin' = bin /\ stage' = stage /\ Turned' >= Turned
             /\ ~ByHand => Turned' > Turned
    <3>1. WaitLeft' <= WaitLeft /\ (~ByHand => WaitLeft' < WaitLeft)
      <4> DEFINE d == (IF bin.depthchanged THEN 2 ELSE 0) + (IF stage = "stale" THEN 1 ELSE 0)
      <4>1. d \in Nat  OBVIOUS
      <4>2. WaitLeft = 4 * (MorphFrames - Turned) + d /\ WaitLeft' = 4 * (MorphFrames - Turned') + d
        BY <1>2, <2>2 DEF WaitLeft
      <4> HIDE DEF d
      <4>3. \A m, t, u, e \in Nat : /\ u >= t => 4 * (m - u) + e <= 4 * (m - t) + e
                                    /\ u > t => 4 * (m - u) + e < 4 * (m - t) + e
        OBVIOUS
      <4>4. /\ Turned' >= Turned => WaitLeft' <= WaitLeft
            /\ Turned' > Turned => WaitLeft' < WaitLeft
        BY ONLY <1>2, <4>1, <4>2, <4>3
      <4> QED  BY ONLY <2>2, <4>4
    <3>2. Loop /\ ~(Frame /\ ByHand) => ~ByHand  BY <1>3
    <3> QED  BY <1>2, <2>2, <3>1, <3>2 DEF Nearer
  <2> QED  BY <1>1, <1>3, <2>1, <2>2, FrameTurns
<1>4. CASE CatchUp
  <2>1. stage = "looping" /\ bin.depthchanged /\ stage' = "stale" /\ morph' = morph
        /\ bin' = [bin EXCEPT !.depthchanged = FALSE]
    BY <1>1, <1>4 DEF CatchUp, visual_bin_depth_changed, Set, heap
  <2>2. /\ bin'.morph = bin.morph /\ bin'.actmorph = bin.actmorph /\ bin'.depthchanged = FALSE
        /\ bin'.morphing = bin.morphing
    BY <1>2, <2>1 DEF Bins
  <2>3. Turned' = Turned  BY <2>1, <2>2 DEF Turned
  <2>4. WaitLeft' < WaitLeft  BY <1>2, <2>1, <2>2, <2>3 DEF WaitLeft
  <2>5. WaitLeft' <= WaitLeft  BY <1>2, <2>1, <2>2, <2>3 DEF WaitLeft
  <2> QED  BY <1>2, <2>2, <2>4, <2>5 DEF Nearer
<1>5. CASE Sync \/ Resize
  <2>1. ~SyncRefused
    <3> SUFFICES ASSUME SyncRefused PROVE FALSE
      OBVIOUS
    <3> QED  BY <1>1 DEF SyncRefused, Consistent, MorphReady
  <2>2. visual_bin_sync  BY <1>1, <1>5, <2>1, NotEmpty DEF Sync, Resize
  <2>3. bin' = bin /\ Turned' = Turned  BY <1>1, <2>2, SyncKeepsTurn
  <2>4. CASE Sync
    <3>1. stage = "stale" /\ stage' = "looping"  BY <2>4 DEF Sync, Goto
    <3>2. WaitLeft' < WaitLeft /\ WaitLeft' <= WaitLeft  BY <1>2, <2>3, <3>1 DEF WaitLeft
    <3> QED  BY <1>2, <2>3, <3>2 DEF Nearer
  <2>5. CASE Resize /\ ~Loop
    <3>1. stage' = stage  BY <2>5 DEF Resize
    <3>2. WaitLeft' = WaitLeft  BY <2>3, <3>1 DEF WaitLeft
    <3> QED  BY <1>2, <2>3, <2>5, <3>2 DEF Nearer
  <2> QED  BY <1>3, <1>4, <1>5, <2>4, <2>5 DEF Loop
<1>6. CASE NewActor
  <2>1. UNCHANGED <<bin, morph, stage>>  BY <1>6 DEF NewActor, ClientNewActor, Stay, clientvars
  <2>2. Turned' = Turned  BY <2>1 DEF Turned
  <2>3. WaitLeft' = WaitLeft  BY <2>1, <2>2 DEF WaitLeft
  <2> QED  BY <1>2, <1>3, <1>4, <1>5, <2>1, <2>3 DEF Nearer, Loop
<1>7. CASE SwitchFinalize
  <2>1. /\ stage' = "looping" /\ Finalize(actor, morph, FALSE)
    BY <1>7 DEF SwitchFinalize, Stay, clientvars, visual_bin_switch_finalize
  <2>2. actor \in [Actors -> ActorRecords] /\ FALSE \in BOOLEAN  BY <1>1 DEF BinTypeOK
  <2>3. TookOver  BY <1>1, <2>1, <2>2, FinalizeSafe
  <2> QED  BY <2>3 DEF TookOver
<1>8. ~(Setup \/ SetupPreference \/ SetupStyle \/ SetupMode \/ SetupVideo \/ ConnectByNames
          \/ ConnectWithUnknownInput \/ ConnectOwn \/ Realize \/ SkipRealize \/ SetMorph \/ SetMorphByName
          \/ SwitchByName \/ SwitchByUnknownName \/ SwitchOwn \/ DropActor \/ Quit)
  BY <1>1 DEF Setup, SetupPreference, SetupStyle, SetupMode, SetupVideo, ConnectByNames,
       ConnectWithUnknownInput, ConnectOwn, Realize, SkipRealize, SetMorph, SetMorphByName, SwitchByName,
       SwitchByUnknownName, SwitchOwn, DropActor, Quit, Goto, Idle, ManagedClient
<1> QED  BY <1>3, <1>4, <1>5, <1>6, <1>7, <1>8 DEF ClientNext

\* From the request until the new actor is on screen: no call puts the switch off,
\* no sequence of depth changes and syncs keeps it waiting (lv_bin.c:780, 835), and it
\* ends with the requested actor, unless the client quits.  What makes it end is
\* that the client goes on with its loop; a morph in mode "set" waits for the client.
THEOREM SwitchesComeNearer ==
    ASSUME ManagedClient
    PROVE  ClientSpec => [][bin.morphing /\ stage' # "done" =>
                                IF bin'.morphing THEN Nearer ELSE TookOver]_allvars
<1>1. FrameInvariant /\ ClientNext => (bin.morphing /\ stage' # "done" =>
                                          IF bin'.morphing THEN Nearer ELSE TookOver)
  BY SwitchComesNearer
<1> QED  BY <1>1, FramesAlways, PTL DEF ClientSpec


-----------------------------------------------------------------------------
(* Clients that own their actors.                                           *)

\* Such a client creates its actors itself, switches between them directly, and
\* keeps the bin; which plugins and morphs load, what its morphs are called, when it
\* asks for a switch, what it does during one, and whether it finalizes a switch
\* that it never asked for, is free.
OwnClient ==
    /\ Styles \subseteq {"direct"}
    /\ Calls \cap {"connect_by_names", "switch_actor_by_name", "set_morph_by_name", "quit"} = {}

\* The bin frees nothing: it manages no actor, no morph and no video.
NothingManaged ==
    /\ bin.managed = FALSE /\ bin.actmorphmanaged = FALSE /\ bin.morphmanaged = FALSE
    /\ bin.privvid = NULL /\ bin.actmorphvideo = NULL /\ bin.style = "direct"

\* Its actors are those the client holds.
OwnPointers ==
    /\ Screens \subseteq live /\ mine \subseteq live
    /\ bin.morph \in live \cup {NULL}
    /\ bin.actor \in mine \cup {NULL} /\ bin.actmorph \in mine \cup {NULL}

\* An actor draws to the screen or nowhere, ...
OwnVideos == \A a \in Actors : actor[a].video \in {bin.actvideo, NULL}

\* ... and in the loop every actor the client holds draws to the screen; the one
\* the bin was connected with may do so only after the first sync.
OwnStages ==
    /\ stage \in {"setup", "connected", "realized", "stale", "looping"}
    /\ stage = "setup" => /\ bin.actor = NULL /\ bin.actmorph = NULL
                          /\ \A x, y \in mine : x = y
    /\ stage # "setup" => \A a \in mine : a # bin.actor => actor[a].video # NULL
    /\ stage \in {"realized", "stale", "looping"} => bin.actvideo # NULL
    /\ stage = "looping" /\ bin.actor # NULL => actor[bin.actor].video # NULL
    /\ bin.morphing => bin.actmorph # NULL /\ stage \in {"stale", "looping"}

OwnConsistent == NothingManaged /\ OwnPointers /\ OwnVideos /\ OwnStages

\* The inductive invariant.
OwnInvariant == TypeOK /\ ~fault /\ OwnConsistent

LEMMA OwnInit == ClientInit => OwnInvariant
<1> SUFFICES ASSUME ClientInit PROVE OwnInvariant
  OBVIOUS
<1>1. TypeOK  BY TypeInit DEF TypeInv
<1>2. OwnVideos
  BY DEF ClientInit, Init, OwnVideos, visual_actor_new
<1>3. NothingManaged /\ OwnPointers /\ OwnStages
  BY DEF ClientInit, Init, NothingManaged, OwnPointers, OwnStages
<1> QED  BY <1>1, <1>2, <1>3 DEF ClientInit, Init, OwnInvariant, OwnConsistent

\* The fields of the bin that the invariant is about, the morph apart.
BinAlike ==
    /\ bin'.managed = bin.managed /\ bin'.actmorphmanaged = bin.actmorphmanaged
    /\ bin'.morphmanaged = bin.morphmanaged /\ bin'.privvid = bin.privvid
    /\ bin'.actmorphvideo = bin.actmorphvideo /\ bin'.style = bin.style
    /\ bin'.actor = bin.actor /\ bin'.actmorph = bin.actmorph
    /\ bin'.actvideo = bin.actvideo /\ bin'.morphing = bin.morphing

\* A call that neither connects nor switches, and takes no video away.
LEMMA OwnSteady ==
    ASSUME OwnConsistent, BinAlike, bin'.morph \in live' \cup {NULL},
           live \subseteq live', mine' = mine,
           \A x \in Actors : actor'[x].video = actor[x].video,
           mine \subseteq Actors,
           \/ stage' = stage
           \/ stage = "connected" /\ stage' = "realized" /\ bin.actvideo # NULL
           \/ stage \in {"realized", "looping"} /\ stage' = "stale"
    PROVE  OwnConsistent'
<1>1. NothingManaged'  BY DEF OwnConsistent, NothingManaged, BinAlike
<1>2. OwnPointers'  BY DEF OwnConsistent, OwnPointers, BinAlike
<1>3. OwnVideos'  BY DEF OwnConsistent, OwnVideos, BinAlike
<1>4. bin.actor \in mine \cup {NULL}  BY DEF OwnConsistent, OwnPointers
<1>5. OwnStages'  BY <1>4 DEF OwnConsistent, OwnStages, BinAlike
<1> QED  BY <1>1, <1>2, <1>3, <1>5 DEF OwnConsistent

\* The calls that change settings, and depth_changed.
LEMMA OwnSettings ==
    ASSUME OwnClient, BinTypeOK, OwnConsistent, ~fault,
           Setup \/ SetupPreference \/ SetupMode \/ SetupStyle \/ CatchUp
    PROVE  ~fault' /\ OwnConsistent'
<1>1. ~SetupStyle
  BY DEF OwnClient, SetupStyle, OwnConsistent, NothingManaged
<1>2. /\ UNCHANGED <<actor, vdepth, morph, live, mine, fault>>
      /\ BinAlike /\ bin'.morph = bin.morph
  BY <1>1 DEF Setup, SetupPreference, SetupMode, CatchUp, Set, heap, BinTypeOK, Bins, BinAlike,
       visual_bin_set_supported_depth, visual_bin_set_preferred_depth,
       visual_bin_switch_set_mode, visual_bin_depth_changed
<1>3. \/ stage' = stage
      \/ stage \in {"realized", "looping"} /\ stage' = "stale"
  BY <1>1 DEF Setup, SetupPreference, SetupMode, CatchUp, Stay, clientvars
<1>4. bin.morph \in live \cup {NULL} /\ mine \subseteq Actors
  BY DEF OwnConsistent, OwnPointers, BinTypeOK
<1>5. OwnConsistent'  BY <1>2, <1>3, <1>4, OwnSteady
<1> QED  BY <1>2, <1>5

LEMMA OwnSetupVideo ==
    ASSUME BinTypeOK, OwnConsistent, ~fault, SetupVideo
    PROVE  ~fault' /\ OwnConsistent'
<1>1. PICK screen \in Screens :
         visual_bin_set_video(screen, IF stage = "setup" THEN depth_get_lowest(bin.depthflag)
                                      ELSE bin.depth)
  BY DEF SetupVideo
<1>2. stage' = stage /\ stage \in {"setup", "connected"} /\ bin.actvideo = NULL
  BY DEF SetupVideo, Stay, clientvars
<1>3. /\ UNCHANGED <<actor, morph, live, mine, fault>>
      /\ bin'.actor = bin.actor /\ bin'.actmorph = bin.actmorph /\ bin'.privvid = bin.privvid
      /\ bin'.actmorphvideo = bin.actmorphvideo /\ bin'.morph = bin.morph
      /\ bin'.morphing = bin.morphing /\ bin'.actvideo = screen
      /\ bin'.managed = bin.managed /\ bin'.actmorphmanaged = bin.actmorphmanaged
      /\ bin'.morphmanaged = bin.morphmanaged /\ bin'.style = bin.style
  BY <1>1 DEF visual_bin_set_video, BinTypeOK, Bins
<1>4. NothingManaged'  BY <1>3 DEF OwnConsistent, NothingManaged
<1>5. OwnPointers'  BY <1>3 DEF OwnConsistent, OwnPointers
<1>6. OwnVideos'  BY <1>2, <1>3 DEF OwnConsistent, OwnVideos
<1>7. OwnStages'  BY <1>2, <1>3, PoolAssumption DEF OwnConsistent, OwnStages
<1> QED  BY <1>3, <1>4, <1>5, <1>6, <1>7 DEF OwnConsistent

\* The bin takes an actor of the client's; there is only one.
LEMMA OwnConnect ==
    ASSUME BinTypeOK, OwnConsistent, ~fault, ConnectOwn
    PROVE  ~fault' /\ OwnConsistent'
<1>1. PICK a \in mine : visual_bin_connect(a)
  BY DEF ConnectOwn
<1>2. stage = "setup" /\ stage' = "connected"
  BY DEF ConnectOwn, Goto
<1>3. a \in live /\ a \in Actors /\ a # NULL /\ mine \subseteq Actors
  BY <1>1, PoolAssumption DEF OwnConsistent, OwnPointers, BinTypeOK
<1>4. ~fault' /\ UNCHANGED <<actor, live, mine>>
  BY <1>1, <1>3 DEF visual_bin_connect, Connect, Faulty
<1> DEFINE flags == visual_actor_get_supported_depth(actor[a])
           want  == IF flags = {GL} THEN GL
                    ELSE fix_depth_with_bin(bin, bin_get_depth_using_preferred(bin, flags))
           b0    == [bin EXCEPT !.actor = a]
           b     == visual_bin_set_depth(b0, want)
<1>5. want \in DepthValues
  <2>1. actor[a] \in ActorRecords  BY <1>3 DEF BinTypeOK
  <2>2. flags \in SUBSET DepthBits  BY <2>1, FlagsTyped
  <2> QED  BY <2>2, NoneTyped, PreferredTyped, FixTyped DEF BinTypeOK
<1>6. /\ b0 \in Bins /\ b0.actor = a /\ b0.actmorph = bin.actmorph /\ b0.privvid = bin.privvid
      /\ b0.actmorphvideo = bin.actmorphvideo /\ b0.morph = bin.morph
      /\ b0.morphing = bin.morphing /\ b0.actvideo = bin.actvideo
      /\ b0.actmorphmanaged = bin.actmorphmanaged
      /\ b0.morphmanaged = bin.morphmanaged /\ b0.style = bin.style
  BY <1>3 DEF BinTypeOK, Bins
<1> HIDE DEF b0, want
<1>7. b \in Bins /\ b.depth \in DepthValues
  <2>1. b \in Bins  BY <1>5, <1>6, SetDepthTyped
  <2> HIDE DEF b
  <2> QED  BY <2>1 DEF Bins
<1>8. /\ b.actor = a /\ b.actmorph = bin.actmorph /\ b.privvid = bin.privvid
      /\ b.actmorphvideo = bin.actmorphvideo /\ b.morph = bin.morph
      /\ b.morphing = bin.morphing /\ b.actvideo = bin.actvideo
      /\ b.actmorphmanaged = bin.actmorphmanaged
      /\ b.morphmanaged = bin.morphmanaged /\ b.style = bin.style
  BY <1>5, <1>6, SetDepthKeeps DEF visual_bin_set_depth, Bins
<1>9. bin' = [b EXCEPT !.depthforcedmain = b.depth, !.managed = FALSE]
  BY <1>1 DEF visual_bin_connect, Connect, b, b0, want
<1> HIDE DEF b
<1>10. /\ bin'.actor = a /\ bin'.actmorph = bin.actmorph /\ bin'.privvid = bin.privvid
       /\ bin'.actmorphvideo = bin.actmorphvideo /\ bin'.morph = bin.morph
       /\ bin'.morphing = bin.morphing /\ bin'.actvideo = bin.actvideo
       /\ bin'.managed = FALSE /\ bin'.actmorphmanaged = bin.actmorphmanaged
       /\ bin'.morphmanaged = bin.morphmanaged /\ bin'.style = bin.style
  BY <1>7, <1>8, <1>9 DEF Bins
<1>11. NothingManaged'  BY <1>10 DEF OwnConsistent, NothingManaged
<1>12. OwnPointers'  BY <1>1, <1>4, <1>10 DEF OwnConsistent, OwnPointers
<1>13. OwnVideos'  BY <1>4, <1>10 DEF OwnConsistent, OwnVideos
<1>14. OwnStages'  BY <1>1, <1>2, <1>3, <1>4, <1>10 DEF OwnConsistent, OwnStages
<1> QED  BY <1>4, <1>11, <1>12, <1>13, <1>14 DEF OwnConsistent

\* The client makes an actor, or drops one that the bin does not use.
LEMMA OwnActors ==
    ASSUME OwnClient, BinTypeOK, OwnConsistent, ~fault,
           NewActor \/ DropActor \/ ConnectWithUnknownInput
    PROVE  ~fault' /\ OwnConsistent'
<1>1. /\ actor \in [Actors -> ActorRecords] /\ mine \subseteq Actors /\ mine \subseteq live
      /\ Screens \subseteq live /\ bin.morph \in live \cup {NULL}
  BY DEF BinTypeOK, OwnConsistent, OwnPointers
<1>2. CASE NewActor
  <2>1. PICK a \in Actors \ live, plugin \in Plugins \cup {NULL} :
           /\ actor' = [actor EXCEPT ![a] =
                           visual_actor_set_video(visual_actor_new(plugin), bin.actvideo)]
           /\ live' = live \cup {a} /\ mine' = mine \cup {a}
           /\ UNCHANGED <<bin, vdepth, morph, fault>>
    BY <1>2 DEF NewActor, ClientNewActor, Loaded
  <2>2. /\ stage' = stage /\ stage \in {"setup", "looping"}
        /\ mine \subseteq {bin.actor, bin.actmorph}
    BY <1>2 DEF NewActor, Stay, clientvars
  <2>3. visual_actor_set_video(visual_actor_new(plugin), bin.actvideo).video = bin.actvideo
    BY DEF visual_actor_set_video, visual_actor_new
  <2>4. actor'[a].video = bin.actvideo /\ \A x \in Actors \ {a} : actor'[x] = actor[x]
    BY <1>1, <2>1, <2>3
  <2>5. bin.actor # a /\ bin.actmorph # a
    BY <1>1, <2>1, PoolAssumption DEF OwnConsistent, OwnPointers
  <2>6. NothingManaged'  BY <2>1 DEF OwnConsistent, NothingManaged
  <2>7. OwnPointers'  BY <2>1 DEF OwnConsistent, OwnPointers
  <2>8. OwnVideos'  BY <2>1, <2>4 DEF OwnConsistent, OwnVideos
  <2>9. OwnStages'
    <3>1. CASE stage = "setup"
      <4>1. mine = {}
        BY <1>1, <2>2, <3>1, PoolAssumption DEF OwnConsistent, OwnStages
      <4> QED  BY <2>1, <2>2, <3>1, <4>1 DEF OwnConsistent, OwnStages
    <3>2. CASE stage = "looping"
      <4>1. bin.actor \in (Actors \ {a}) \cup {NULL} /\ bin.actvideo # NULL
        BY <1>1, <2>5, <3>2 DEF OwnConsistent, OwnPointers, OwnStages
      <4> QED  BY <1>1, <2>1, <2>2, <2>4, <3>2, <4>1 DEF OwnConsistent, OwnStages
    <3> QED  BY <2>2, <3>1, <3>2
  <2> QED  BY <2>1, <2>6, <2>7, <2>8, <2>9 DEF OwnConsistent
<1>3. CASE DropActor
  <2>1. PICK a \in mine \ {bin.actor, bin.actmorph} : ClientUnrefActor(a)
    BY <1>3 DEF DropActor
  <2>2. stage' = stage /\ stage = "looping"
    BY <1>3 DEF DropActor, Stay, clientvars
  <2>3. /\ live' = live \ {a} /\ mine' = mine \ {a} /\ actor' = Freed(actor, {a})
        /\ UNCHANGED <<bin, vdepth, morph>> /\ ~fault'
    BY <1>1, <2>1 DEF ClientUnrefActor, Faulty
  <2>4. \A x \in Actors : actor'[x].video \in {actor[x].video, NULL}
    BY <2>3 DEF Freed, visual_actor_new
  <2>5. \A x \in Actors \ {a} : actor'[x] = actor[x]
    BY <2>3 DEF Freed
  <2>6. a \notin Screens /\ a # bin.morph
    BY <1>1, <2>1, PoolAssumption, BinTypeOK DEF BinTypeOK, Bins
  <2>7. NothingManaged'  BY <2>3 DEF OwnConsistent, NothingManaged
  <2>8. OwnPointers'  BY <2>1, <2>3, <2>6 DEF OwnConsistent, OwnPointers
  <2>9. OwnVideos'  BY <2>3, <2>4 DEF OwnConsistent, OwnVideos
  <2>10. bin.actor \in (Actors \ {a}) \cup {NULL}
    BY <1>1, <2>1, <2>2 DEF OwnConsistent, OwnPointers, OwnStages
  <2>11. OwnStages'
    BY <1>1, <2>2, <2>3, <2>5, <2>10 DEF OwnConsistent, OwnStages
  <2> QED  BY <2>3, <2>7, <2>8, <2>9, <2>11 DEF OwnConsistent
<1>4. CASE ConnectWithUnknownInput
  <2>1. PICK a \in Actors \ live, plugin \in Plugins \cup {NULL} :
           /\ actor' = [actor EXCEPT ![a] = visual_actor_new(plugin)]
           /\ live' = live \cup {a}
           /\ UNCHANGED <<bin, vdepth, morph, mine, fault>>
    BY <1>4 DEF ConnectWithUnknownInput, connect_by_names_unknown_input, Loaded
  <2>2. stage' = stage /\ stage = "setup"
    BY <1>4 DEF ConnectWithUnknownInput, Stay, clientvars
  <2>3. visual_actor_new(plugin).video = NULL
    BY DEF visual_actor_new
  <2>4. actor'[a].video = NULL /\ \A x \in Actors \ {a} : actor'[x] = actor[x]
    BY <1>1, <2>1, <2>3
  <2>6. NothingManaged'  BY <2>1 DEF OwnConsistent, NothingManaged
  <2>7. OwnPointers'  BY <2>1 DEF OwnConsistent, OwnPointers
  <2>8. OwnVideos'  BY <2>1, <2>4 DEF OwnConsistent, OwnVideos
  <2>9. OwnStages'  BY <2>1, <2>2 DEF OwnConsistent, OwnStages
  <2> QED  BY <2>1, <2>6, <2>7, <2>8, <2>9 DEF OwnConsistent
<1> QED  BY <1>2, <1>3, <1>4

LEMMA OwnRealize ==
    ASSUME BinTypeOK, OwnConsistent, ~fault, Realize \/ SkipRealize
    PROVE  ~fault' /\ OwnConsistent'
<1>1. /\ bin.actor # NULL => bin.actor \in live
      /\ actor \in [Actors -> ActorRecords]
      /\ bin.morph \in live \cup {NULL} /\ mine \subseteq Actors
  BY DEF BinTypeOK, OwnConsistent, OwnPointers
<1>2. /\ stage = "connected" /\ stage' = "realized" /\ bin.actvideo # NULL
      /\ bin' = bin /\ live' = live /\ mine' = mine /\ ~fault'
  <2>1. CASE Realize
    <3>1. bin.actor \in live  BY <1>1, <2>1 DEF Realize, visual_bin_realize
    <3> QED  BY <2>1, <3>1 DEF Realize, Goto, visual_bin_realize, Faulty
  <2>2. CASE SkipRealize
    BY <2>2 DEF SkipRealize, Goto, vars, heap
  <2> QED  BY <2>1, <2>2
<1>3. actor' \in {actor, [actor EXCEPT ![bin.actor] = visual_actor_realize(@)]}
  BY DEF Realize, SkipRealize, visual_bin_realize, vars, heap
<1>4. \A x \in Actors : actor'[x].video = actor[x].video
  BY <1>1, <1>3, RealizeKeeps
<1>5. BinAlike  BY <1>2 DEF BinAlike
<1>6. OwnConsistent'  BY <1>1, <1>2, <1>4, <1>5, OwnSteady
<1> QED  BY <1>2, <1>6

LEMMA OwnSetMorph ==
    ASSUME BinTypeOK, OwnConsistent, ~fault, SetMorph
    PROVE  ~fault' /\ OwnConsistent'
<1>1. PICK m \in Morphs : visual_bin_set_morph(m)
  BY DEF SetMorph
<1>2. PICK n \in {m, NULL} :
         /\ live' = live \cup ({n} \ {NULL}) /\ UNCHANGED <<actor, mine, fault>>
         /\ bin' = [bin EXCEPT !.morph = n, !.morphmanaged = FALSE]
  <2>1. m # NULL /\ live \cup {} = live  BY PoolAssumption
  <2>2. PICK name \in MorphNames :
           LET new == visual_morph_new(name)
           IN  /\ live' = IF new = NULL THEN live ELSE live \cup {m}
               /\ bin' = [bin EXCEPT !.morph = IF new = NULL THEN NULL ELSE m,
                                     !.morphmanaged = FALSE]
               /\ UNCHANGED <<actor, mine, fault>>
    BY <1>1 DEF visual_bin_set_morph
  <2>3. CASE visual_morph_new(name) = NULL  BY <2>1, <2>2, <2>3
  <2>4. CASE visual_morph_new(name) # NULL  BY <2>1, <2>2, <2>4
  <2> QED  BY <2>3, <2>4
<1>3. BinAlike /\ bin'.morph = n
  BY <1>2 DEF BinAlike, BinTypeOK, Bins, OwnConsistent, NothingManaged
<1>4. mine \subseteq Actors /\ stage' = stage
  BY DEF BinTypeOK, SetMorph, Stay, clientvars
<1>5. OwnConsistent'  BY <1>2, <1>3, <1>4, OwnSteady
<1> QED  BY <1>2, <1>5

\* There is nothing to sync when the bin has lost its actor.
LEMMA OwnSyncEmpty ==
    ASSUME BinTypeOK, OwnConsistent, ~fault, Sync \/ Resize, SyncEmpty
    PROVE  ~fault' /\ OwnConsistent'
<1>1. /\ UNCHANGED <<bin, actor, live, mine, fault>> /\ bin.actor = NULL
      /\ stage \in {"stale", "looping"} /\ stage' = "looping"
  BY DEF SyncEmpty, Set, heap, Sync, Resize, Goto
<1> QED  BY <1>1 DEF OwnConsistent, NothingManaged, OwnPointers, OwnVideos, OwnStages

\* Without a morph the sync gives the main actor the screen, and nothing else.
LEMMA OwnSync ==
    ASSUME BinTypeOK, OwnConsistent, ~fault, Sync \/ Resize
    PROVE  ~fault' /\ OwnConsistent'
<1>1. ~SyncRefused
  BY DEF SyncRefused, OwnConsistent, NothingManaged
<1> SUFFICES ASSUME visual_bin_sync PROVE ~fault' /\ OwnConsistent'
  BY <1>1, OwnSyncEmpty DEF Sync, Resize
<1>2. visual_bin_sync /\ stage \in {"stale", "looping"} /\ stage' = "looping"
  BY DEF Sync, Resize, Goto
<1> DEFINE act0  == [actor EXCEPT ![bin.actor] = visual_actor_set_video(@, bin.actvideo)]
           run   == IF bin.managed THEN bin.depthforcedmain ELSE 0
           force == bin.managed \/ bin.depthold = GL
           act1  == Negotiated(act0, vdepth, bin.actor, run, force)
<1>3. /\ bin.actor \in Actors /\ bin.actor \in live /\ bin.actvideo \in live
      /\ bin.actvideo \in Screens /\ bin.managed \in BOOLEAN
      /\ actor \in [Actors -> ActorRecords] /\ mine \subseteq Actors
  BY <1>2 DEF BinTypeOK, Bins, OwnConsistent, OwnPointers, visual_bin_sync
<1>4. bin.style = "direct"  BY DEF OwnConsistent, NothingManaged
<1>5. actor' = act1 /\ ~fault' /\ UNCHANGED <<bin, live, mine>>
  BY <1>2, <1>3, <1>4 DEF visual_bin_sync, Faulty
<1>6. act0 \in [Actors -> ActorRecords]
  BY <1>3, SetVideoTyped
<1>7. /\ act0[bin.actor].video = bin.actvideo
      /\ \A x \in Actors \ {bin.actor} : act0[x] = actor[x]
  BY <1>3 DEF visual_actor_set_video, ActorRecords
<1>8. force \in BOOLEAN  BY <1>3
<1> HIDE DEF act0, run, force
<1>9. \A x \in Actors : act1[x].video = act0[x].video
  BY <1>6, <1>8, NegotiatedKeeps
<1> HIDE DEF act1
<1>10. \A x \in Actors : actor'[x].video \in {bin.actvideo, actor[x].video}
  BY <1>5, <1>7, <1>9
<1>11. actor'[bin.actor].video = bin.actvideo
  BY <1>3, <1>5, <1>7, <1>9
<1>12. bin.actvideo # NULL  BY <1>3, PoolAssumption
<1>13. NothingManaged'  BY <1>5 DEF OwnConsistent, NothingManaged
<1>14. OwnPointers'  BY <1>5 DEF OwnConsistent, OwnPointers
<1>15. OwnVideos'  BY <1>5, <1>10 DEF OwnConsistent, OwnVideos
<1>16. OwnStages'
  BY <1>2, <1>3, <1>5, <1>10, <1>11, <1>12 DEF OwnConsistent, OwnStages
<1> QED  BY <1>5, <1>13, <1>14, <1>15, <1>16 DEF OwnConsistent

\* A direct switch only notes the new actor.
LEMMA DirectSwitch ==
    ASSUME NEW b, NEW vd, NEW act, NEW lv, NEW a, b.style = "direct",
           SwitchActor(b, vd, act, lv, a, FALSE)
    PROVE  /\ fault' = Faulty({b.actor, a, act[b.actor].video, act[a].video}, lv \ {b.privvid})
           /\ bin' = [b EXCEPT !.actmorph = a, !.privvid = NULL, !.morphing = TRUE]
           /\ actor' = act /\ live' = lv \ {b.privvid}
<1> DEFINE main   == act[b.actor].video
           next   == act[a].video
           morphs == /\ b.style = "morph" /\ ~b.depthfromGL
                     /\ DepthOf(vd, main) # GL /\ DepthOf(vd, next) # GL
           usedm  == IF morphs THEN {b.morph} \ {NULL} ELSE {}
           lv1    == lv \ {b.privvid}
<1>1. ~morphs  OBVIOUS
<1>2. usedm = {}  BY <1>1
<1>3. fault' = (Faulty({b.actor, a, main, next} \cup usedm, lv1) \/ (morphs /\ b.actvideo = NULL))
  BY ONLY SwitchActor(b, vd, act, lv, a, FALSE) DEF SwitchActor
<1>4. {b.actor, a, main, next} \cup usedm = {b.actor, a, main, next}  BY <1>2
<1>5. fault' = Faulty({b.actor, a, main, next}, lv1)
  <2> HIDE DEF main, next, morphs, usedm, lv1
  <2> QED  BY <1>1, <1>3, <1>4 DEF Faulty
<1>6. /\ bin' = [b EXCEPT !.actmorph = a, !.privvid = NULL, !.morphing = TRUE]
      /\ actor' = act /\ live' = lv1
  BY <1>1 DEF SwitchActor
<1> QED  BY <1>5, <1>6

\* A switch keeps both actors on the screen.
LEMMA OwnSwitch ==
    ASSUME BinTypeOK, OwnConsistent, ~fault, SwitchOwn
    PROVE  ~fault' /\ OwnConsistent'
<1>1. PICK a \in mine : visual_bin_switch_actor(a)
  BY DEF SwitchOwn
<1>2. stage' = stage /\ stage = "looping" /\ bin.actor # NULL
  BY DEF SwitchOwn, Stay, clientvars
<1>3. /\ bin.style = "direct" /\ bin.privvid = NULL /\ NULL \notin live
      /\ bin.actvideo \in Screens /\ Screens \subseteq live
      /\ bin.actor \in mine /\ mine \subseteq live /\ mine \subseteq Actors
  <2>1. bin.style = "direct" /\ bin.privvid = NULL  BY DEF OwnConsistent, NothingManaged
  <2>2. NULL \notin live  BY PoolAssumption DEF BinTypeOK
  <2>3. bin.actvideo \in Screens
    BY <1>2 DEF OwnConsistent, OwnStages, BinTypeOK, Bins
  <2>4. bin.actor \in mine
    BY <1>2 DEF OwnConsistent, OwnPointers, OwnStages
  <2> QED  BY <2>1, <2>2, <2>3, <2>4 DEF OwnConsistent, OwnPointers, BinTypeOK
<1>4. actor[bin.actor].video = bin.actvideo /\ actor[a].video = bin.actvideo
  BY <1>1, <1>2, <1>3 DEF OwnConsistent, OwnVideos, OwnStages
<1>5. live \ {NULL} = live  BY <1>3
<1>6. /\ ~fault' /\ UNCHANGED <<actor, live, mine>>
      /\ bin' = [bin EXCEPT !.actmorph = a, !.privvid = NULL, !.morphing = TRUE]
  <2>1. /\ fault' = Faulty({bin.actor, a, bin.actvideo}, live)
        /\ bin' = [bin EXCEPT !.actmorph = a, !.privvid = NULL, !.morphing = TRUE]
        /\ UNCHANGED <<actor, live, mine>>
    <3>1. SwitchActor(bin, vdepth, actor, live, a, FALSE) /\ UNCHANGED mine
      BY <1>1 DEF visual_bin_switch_actor
    <3>2. /\ fault' = Faulty({bin.actor, a, actor[bin.actor].video, actor[a].video},
                             live \ {bin.privvid})
          /\ bin' = [bin EXCEPT !.actmorph = a, !.privvid = NULL, !.morphing = TRUE]
          /\ actor' = actor /\ live' = live \ {bin.privvid}
      BY <1>3, <3>1, DirectSwitch
    <3>3. {bin.actor, a, actor[bin.actor].video, actor[a].video} = {bin.actor, a, bin.actvideo}
      BY <1>4
    <3> QED  BY <1>3, <1>5, <3>1, <3>2, <3>3
  <2> QED  BY <1>1, <1>3, <2>1 DEF Faulty
<1>7. /\ bin'.actor = bin.actor /\ bin'.actmorph = a /\ bin'.privvid = NULL
      /\ bin'.actmorphvideo = bin.actmorphvideo /\ bin'.morph = bin.morph
      /\ bin'.actvideo = bin.actvideo
      /\ bin'.managed = bin.managed /\ bin'.actmorphmanaged = bin.actmorphmanaged
      /\ bin'.morphmanaged = bin.morphmanaged /\ bin'.style = bin.style
  BY <1>6 DEF BinTypeOK, Bins
<1>8. NothingManaged'  BY <1>7 DEF OwnConsistent, NothingManaged
<1>9. OwnPointers'  BY <1>1, <1>6, <1>7 DEF OwnConsistent, OwnPointers
<1>10. OwnVideos'  BY <1>6, <1>7 DEF OwnConsistent, OwnVideos
<1>11. a # NULL  BY <1>1, <1>3, PoolAssumption
<1>12. OwnStages'  BY <1>2, <1>6, <1>7, <1>11 DEF OwnConsistent, OwnStages
<1> QED  BY <1>6, <1>8, <1>9, <1>10, <1>12 DEF OwnConsistent

\* The bin after the switch: nothing is retired but the place of the old actor.
LEMMA OwnRetired ==
    ASSUME NEW b \in Bins, NEW d \in DepthValues
    PROVE  LET r == [visual_bin_set_depth(Retired(b), d) EXCEPT !.depthforcedmain = d]
           IN  /\ r.actor = b.actmorph /\ r.actmorph = NULL /\ r.privvid = NULL
               /\ r.morphing = FALSE /\ r.actvideo = b.actvideo /\ r.managed = b.managed
               /\ r.actmorphmanaged = b.actmorphmanaged /\ r.morphmanaged = b.morphmanaged
               /\ r.style = b.style
               /\ ~b.actmorphmanaged => r.actmorphvideo = b.actmorphvideo
               /\ ~b.morphmanaged => r.morph = b.morph
<1> DEFINE s == visual_bin_set_depth(Retired(b), d)
<1>1. Retired(b) \in Bins  BY RetiredTyped
<1>2. /\ Retired(b).actor = b.actmorph /\ Retired(b).actmorph = NULL /\ Retired(b).privvid = NULL
      /\ Retired(b).morphing = FALSE /\ Retired(b).actvideo = b.actvideo
      /\ Retired(b).managed = b.managed /\ Retired(b).actmorphmanaged = b.actmorphmanaged
      /\ Retired(b).morphmanaged = b.morphmanaged /\ Retired(b).style = b.style
      /\ ~b.actmorphmanaged => Retired(b).actmorphvideo = b.actmorphvideo
      /\ ~b.morphmanaged => Retired(b).morph = b.morph
  BY DEF Retired, Bins
<1>3. /\ s.actor = Retired(b).actor /\ s.actmorph = Retired(b).actmorph
      /\ s.privvid = Retired(b).privvid /\ s.actmorphvideo = Retired(b).actmorphvideo
      /\ s.morphing = Retired(b).morphing /\ s.actvideo = Retired(b).actvideo
      /\ s.managed = Retired(b).managed /\ s.actmorphmanaged = Retired(b).actmorphmanaged
      /\ s.morph = Retired(b).morph /\ s.style = Retired(b).style
  BY <1>1, SetDepthKeeps
<1>4. s.morphmanaged = Retired(b).morphmanaged
  <2>1. \A c \in Bins : visual_bin_set_depth(c, d).morphmanaged = c.morphmanaged
    BY DEF visual_bin_set_depth, Bins
  <2> QED  BY <1>1, <2>1
<1>5. s \in Bins  BY <1>1, SetDepthTyped
<1> HIDE DEF s
<1>6. LET r == [s EXCEPT !.depthforcedmain = d]
      IN  /\ r.actor = s.actor /\ r.actmorph = s.actmorph /\ r.privvid = s.privvid
          /\ r.actmorphvideo = s.actmorphvideo /\ r.morphing = s.morphing
          /\ r.actvideo = s.actvideo /\ r.managed = s.managed
          /\ r.actmorphmanaged = s.actmorphmanaged /\ r.morphmanaged = s.morphmanaged
          /\ r.style = s.style /\ r.morph = s.morph
  BY <1>5 DEF Bins
<1> QED  BY <1>2, <1>3, <1>4, <1>6 DEF s

\* The end of a switch frees nothing, and gives the screen to the new actor.
LEMMA OwnFinalize ==
    ASSUME BinTypeOK, OwnConsistent, bin.actmorph # NULL, stage = "looping", stage' = stage,
           NEW act \in [Actors -> ActorRecords],
           \A x \in Actors : act[x].video = actor[x].video,
           NEW mor, NEW bad \in BOOLEAN, ~bad, Finalize(act, mor, bad)
    PROVE  ~fault' /\ OwnConsistent'
<1> DEFINE next  == bin.actmorph
           flags == visual_actor_get_supported_depth(act[next])
           depth == fix_depth_with_bin(bin, bin_get_depth_using_preferred(bin, flags))
           b     == visual_bin_set_depth(Retired(bin), depth)
           vd    == [vdepth EXCEPT ![bin.actvideo] = depth]
           set   == [Freed(act, {}) EXCEPT ![next] = visual_actor_set_video(@, bin.actvideo)]
<1>1. Retires(bin) = {}
  BY DEF Retires, OwnConsistent, NothingManaged
<1>2. /\ next \in mine /\ next \in Actors /\ mine \subseteq live /\ mine \subseteq Actors
      /\ bin.actvideo \in Screens /\ bin.actvideo \in live
  BY DEF OwnConsistent, OwnPointers, OwnStages, BinTypeOK, Bins
<1>3. bin' = [b EXCEPT !.depthforcedmain = depth]
  BY SwitchEnds
<1>4. actor' = IF b.depthchanged THEN Negotiated(set, vd, next, depth, TRUE) ELSE set
  BY <1>1, SwitchEnds
<1>5. live' = live /\ mine' = mine
  BY <1>1, SwitchEnds
<1>6. ~fault'
  <2>1. fault' = (bad \/ Faulty({}, live) \/ Faulty({next, bin.actvideo}, live \ {}))
    BY <1>1, SwitchEnds
  <2> QED  BY <1>2, <2>1 DEF Faulty
<1>7. depth \in DepthValues
  <2>1. act[next] \in ActorRecords  BY <1>2
  <2>2. flags \in SUBSET DepthBits  BY <2>1, FlagsTyped
  <2> QED  BY <2>2, PreferredTyped, FixTyped DEF BinTypeOK
<1>8. /\ bin'.actor = next /\ bin'.actmorph = NULL /\ bin'.privvid = NULL
      /\ bin'.morphing = FALSE /\ bin'.actvideo = bin.actvideo /\ bin'.managed = bin.managed
      /\ bin'.actmorphmanaged = bin.actmorphmanaged /\ bin'.morphmanaged = bin.morphmanaged
      /\ bin'.style = bin.style
      /\ ~bin.actmorphmanaged => bin'.actmorphvideo = bin.actmorphvideo
      /\ ~bin.morphmanaged => bin'.morph = bin.morph
  <2> HIDE DEF depth
  <2>1. bin \in Bins  BY DEF BinTypeOK
  <2> QED  BY <1>3, <1>7, <2>1, OwnRetired DEF b
<1>9. Freed(act, {}) = act
  BY DEF Freed
<1>10. set \in [Actors -> ActorRecords]
  BY <1>2, <1>9, SetVideoTyped
<1>11. /\ set[next].video = bin.actvideo
       /\ \A x \in Actors : set[x].video \in {bin.actvideo, actor[x].video}
  <2>1. visual_actor_set_video(act[next], bin.actvideo).video = bin.actvideo
    BY <1>2 DEF visual_actor_set_video, ActorRecords
  <2> QED  BY <1>2, <1>9, <2>1
<1> HIDE DEF next, depth, vd, set, b
<1>12. \A x \in Actors : actor'[x].video = set[x].video
  <2>1. \A x \in Actors : Negotiated(set, vd, next, depth, TRUE)[x].video = set[x].video
    <3> SUFFICES ASSUME NEW x \in Actors
                 PROVE  Negotiated(set, vd, next, depth, TRUE)[x].video = set[x].video
      OBVIOUS
    <3>1. \A forced \in BOOLEAN : Negotiated(set, vd, next, depth, forced)[x].video = set[x].video
      BY ONLY <1>10, NegotiatedKeeps
    <3> QED  BY <3>1, Zenon
  <2> QED  BY <1>4, <2>1
<1>13. /\ actor'[next].video = bin.actvideo
       /\ \A x \in Actors : actor'[x].video \in {bin.actvideo, actor[x].video}
  BY <1>2, <1>11, <1>12
<1>14. bin.actvideo # NULL  BY <1>2, PoolAssumption
<1>15. NothingManaged'  BY <1>8 DEF OwnConsistent, NothingManaged
<1>16. OwnPointers'  BY <1>2, <1>5, <1>8 DEF OwnConsistent, OwnPointers, NothingManaged
<1>17. OwnVideos'  BY <1>8, <1>13 DEF OwnConsistent, OwnVideos
<1>18. \A x \in mine : actor'[x].video # NULL
  <2>1. ASSUME NEW x \in mine PROVE actor[x].video # NULL
    <3>1. CASE x = bin.actor
      <4>1. x # NULL  BY <1>2, PoolAssumption
      <4> QED  BY <3>1, <4>1 DEF OwnConsistent, OwnStages
    <3>2. CASE x # bin.actor
      BY <3>2 DEF OwnConsistent, OwnStages
    <3> QED  BY <3>1, <3>2
  <2> QED  BY <1>2, <1>13, <1>14, <2>1
<1>19. next # NULL  BY <1>2, PoolAssumption
<1>20. OwnStages'  BY <1>2, <1>5, <1>8, <1>14, <1>18, <1>19 DEF OwnConsistent, OwnStages
<1> QED  BY <1>6, <1>15, <1>16, <1>17, <1>20 DEF OwnConsistent

\* A finalize without a switch takes the actor from the bin, and leaves it to the
\* client.
LEMMA OwnIdle ==
    ASSUME BinTypeOK, OwnConsistent, bin.actmorph = NULL, stage = "looping", stage' = stage,
           Finalize(actor, morph, FALSE)
    PROVE  ~fault' /\ OwnConsistent'
<1> DEFINE flags == SupportedDepth(actor, NULL)
           depth == fix_depth_with_bin(bin, bin_get_depth_using_preferred(bin, flags))
           b     == visual_bin_set_depth(Retired(bin), depth)
<1>1. Retires(bin) = {}
  BY DEF Retires, OwnConsistent, NothingManaged
<1>2. mine \subseteq live /\ mine \subseteq Actors /\ bin.actvideo \in live /\ bin \in Bins
  BY DEF OwnConsistent, OwnPointers, OwnStages, BinTypeOK, Bins
<1>3. bin' = [b EXCEPT !.depthforcedmain = depth]
  BY DEF Finalize
<1>4. actor' = Freed(actor, {}) /\ live' = live /\ mine' = mine
  BY <1>1 DEF Finalize
<1>5. actor' = actor
  BY <1>4 DEF Freed, BinTypeOK
<1>6. ~fault'
  BY <1>1, <1>2 DEF Finalize, Faulty
<1>7. depth \in DepthValues
  <2>1. flags \in SUBSET DepthBits  BY DEF SupportedDepth
  <2> QED  BY <1>2, <2>1, PreferredTyped, FixTyped
<1>8. /\ bin'.actor = NULL /\ bin'.actmorph = NULL /\ bin'.privvid = NULL
      /\ bin'.morphing = FALSE /\ bin'.actvideo = bin.actvideo /\ bin'.managed = bin.managed
      /\ bin'.actmorphmanaged = bin.actmorphmanaged /\ bin'.morphmanaged = bin.morphmanaged
      /\ bin'.style = bin.style
      /\ ~bin.actmorphmanaged => bin'.actmorphvideo = bin.actmorphvideo
      /\ ~bin.morphmanaged => bin'.morph = bin.morph
  <2> HIDE DEF depth
  <2> QED  BY <1>2, <1>3, <1>7, OwnRetired DEF b
<1>9. NothingManaged'  BY <1>8 DEF OwnConsistent, NothingManaged
<1>10. OwnPointers'  BY <1>4, <1>8 DEF OwnConsistent, OwnPointers, NothingManaged
<1>11. OwnVideos'  BY <1>5, <1>8 DEF OwnConsistent, OwnVideos
<1>12. \A x \in mine : actor[x].video # NULL
  <2>1. NULL \notin mine  BY <1>2, PoolAssumption
  <2> QED  BY <2>1 DEF OwnConsistent, OwnStages
<1>13. OwnStages'  BY <1>4, <1>5, <1>8, <1>12 DEF OwnConsistent, OwnStages
<1> QED  BY <1>6, <1>9, <1>10, <1>11, <1>13 DEF OwnConsistent

\* A frame draws the main actor, or ends the switch.
LEMMA OwnRun ==
    ASSUME BinTypeOK, OwnConsistent, ~fault, visual_bin_run, stage = "looping", stage' = stage
    PROVE  ~fault' /\ OwnConsistent'
<1>0. CASE bin.actor = NULL
  <2>1. UNCHANGED <<bin, actor, live, mine, fault>>
    BY <1>0 DEF visual_bin_run, RunEmpty, RunRefused, RunSwitches, RunDraws, RunMorphs, Pending,
         Set, heap
  <2> QED  BY <2>1 DEF OwnConsistent, NothingManaged, OwnPointers, OwnVideos, OwnStages
<1> SUFFICES ASSUME bin.actor # NULL PROVE ~fault' /\ OwnConsistent'
  BY <1>0
<1>1. /\ bin.actor \in mine /\ bin.actor \in Actors /\ bin.actor # NULL
      /\ mine \subseteq live /\ mine \subseteq Actors
      /\ bin.actvideo \in Screens /\ bin.actvideo \in live
      /\ bin.style = "direct" /\ actor \in [Actors -> ActorRecords]
      /\ bin.actmorph # NULL => bin.actmorph \in live /\ bin.actmorph \in Actors
      /\ bin.morph \in live \cup {NULL}
  <2>1. bin.style = "direct"  BY DEF OwnConsistent, NothingManaged
  <2>2. bin.actor \in mine /\ bin.actvideo \in Screens /\ bin.actor # NULL
    BY DEF OwnConsistent, OwnPointers, OwnStages, BinTypeOK, Bins
  <2>3. bin.actmorph # NULL => bin.actmorph \in live /\ bin.actmorph \in Actors
    BY DEF OwnConsistent, OwnPointers, BinTypeOK
  <2> QED  BY <2>1, <2>2, <2>3 DEF OwnConsistent, OwnPointers, BinTypeOK
<1>2. CASE RunRefused
  <2>1. /\ bin' = bin /\ live' = live /\ mine' = mine
        /\ fault' = Faulty({bin.actmorph} \ {NULL}, live)
        /\ actor' \in {actor, NextRealized} /\ bin.morphing
    BY <1>2 DEF RunRefused
  <2>2. bin.actmorph \in Actors
    BY <1>1, <2>1 DEF OwnConsistent, OwnStages
  <2>3. ~fault'  BY <1>1, <2>1 DEF Faulty
  <2>4. \A x \in Actors : actor'[x].video = actor[x].video
    <3> SUFFICES ASSUME NEW x \in Actors PROVE actor'[x].video = actor[x].video
      OBVIOUS
    <3>1. bin.actmorphmanaged \in BOOLEAN  BY DEF BinTypeOK, Bins
    <3>2. NextRealized[x].video = actor[x].video
      BY <1>1, <2>2, <3>1, FirstRealizeKeeps DEF NextRealized
    <3> QED  BY <2>1, <3>2
  <2>5. BinAlike  BY <2>1 DEF BinAlike
  <2> QED  BY <1>1, <2>1, <2>3, <2>4, <2>5, OwnSteady
<1>3. CASE RunSwitches
  <2>1. /\ Finalize(BothRealized, morph, FrameFaulty(actor, {bin.actor, bin.actmorph}))
        /\ bin.morphing /\ bin.actmorph # NULL
    BY <1>3 DEF RunSwitches, Pending
  <2>2. BothRealized \in [Actors -> ActorRecords]
    BY <1>1, <2>1, BothRealizedTyped
  <2>3. \A x \in Actors : BothRealized[x].video = actor[x].video
    BY <1>1, <2>1, BothRealizedKeeps
  <2>4. ~FrameFaulty(actor, {bin.actor, bin.actmorph})
    <3>1. \A a \in {bin.actor, bin.actmorph} : a \in live /\ actor[a].video \in {bin.actvideo, NULL}
      BY <1>1, <2>1 DEF OwnConsistent, OwnVideos
    <3> QED  BY <1>1, <3>1 DEF FrameFaulty, Faulty
  <2>5. FrameFaulty(actor, {bin.actor, bin.actmorph}) \in BOOLEAN
    BY DEF FrameFaulty, Faulty
  <2> QED  BY <2>1, <2>2, <2>3, <2>4, <2>5, OwnFinalize
<1>4. CASE RunDraws
  <2> DEFINE act == [actor EXCEPT ![bin.actor] = visual_actor_realize(@)]
  <2>1. ~bin.morphing  BY <1>1, <1>4 DEF RunDraws
  <2>2. /\ actor' = act /\ bin' = bin /\ live' = live /\ mine' = mine
        /\ fault' = FrameFaulty(act, {bin.actor} \cup ({bin.actmorph} \ {NULL}))
    BY <1>4, <2>1 DEF RunDraws
  <2>3. \A x \in Actors : act[x].video = actor[x].video
    BY <1>1, RealizeKeeps
  <2> HIDE DEF act
  <2>4. \A x \in Actors : act[x].video \in {bin.actvideo, NULL}
    BY <2>3 DEF OwnConsistent, OwnVideos
  <2>5. ~fault'
    BY <1>1, <2>2, <2>4 DEF FrameFaulty, Faulty
  <2>6. BinAlike  BY <2>2 DEF BinAlike
  <2> QED  BY <1>1, <2>2, <2>3, <2>5, <2>6, OwnSteady
<1>5. ~RunMorphs
  BY <1>1 DEF RunMorphs
<1> QED  BY <1>2, <1>3, <1>4, <1>5 DEF visual_bin_run, RunEmpty

LEMMA OwnNext ==
    ASSUME OwnClient, OwnInvariant, [ClientNext]_allvars
    PROVE  OwnInvariant'
<1>1. BinTypeOK /\ OwnConsistent /\ ~fault
  BY DEF OwnInvariant, TypeOK
<1>2. TypeOK'
  <2>1. TypeInv
    BY DEF OwnInvariant, OwnConsistent, OwnStages, TypeInv
  <2> QED  BY <2>1, TypeNext DEF TypeInv
<1>3. CASE UNCHANGED allvars
  <2>1. /\ bin' = bin /\ actor' = actor /\ live' = live /\ mine' = mine
        /\ stage' = stage /\ fault' = fault
    BY <1>3 DEF allvars, vars, heap, clientvars
  <2>2. OwnConsistent'
    BY <1>1, <2>1 DEF OwnConsistent, NothingManaged, OwnPointers, OwnVideos, OwnStages
  <2> QED  BY <1>1, <1>2, <2>1, <2>2 DEF OwnInvariant
<1>4. CASE ClientNext
  <2>1. CASE Setup \/ SetupPreference \/ SetupMode \/ SetupStyle \/ CatchUp
    BY <1>1, <1>2, <2>1, OwnSettings DEF OwnInvariant
  <2>2. CASE SetupVideo
    BY <1>1, <1>2, <2>2, OwnSetupVideo DEF OwnInvariant
  <2>3. CASE ConnectOwn
    BY <1>1, <1>2, <2>3, OwnConnect DEF OwnInvariant
  <2>4. CASE NewActor \/ DropActor \/ ConnectWithUnknownInput
    BY <1>1, <1>2, <2>4, OwnActors DEF OwnInvariant
  <2>5. CASE Realize \/ SkipRealize
    BY <1>1, <1>2, <2>5, OwnRealize DEF OwnInvariant
  <2>6. CASE SetMorph
    BY <1>1, <1>2, <2>6, OwnSetMorph DEF OwnInvariant
  <2>7. CASE Sync \/ Resize
    BY <1>1, <1>2, <2>7, OwnSync DEF OwnInvariant
  <2>8. CASE SwitchOwn
    BY <1>1, <1>2, <2>8, OwnSwitch DEF OwnInvariant
  <2>9. CASE SwitchFinalize
    <3>1. /\ stage = "looping" /\ stage' = stage
          /\ Finalize(actor, morph, FALSE)
      BY <2>9 DEF SwitchFinalize, Stay, clientvars, visual_bin_switch_finalize
    <3>2. actor \in [Actors -> ActorRecords] /\ FALSE \in BOOLEAN  BY <1>1 DEF BinTypeOK
    <3>3. ~fault' /\ OwnConsistent'
      BY <1>1, <3>1, <3>2, OwnFinalize, OwnIdle
    <3> QED  BY <1>2, <3>3 DEF OwnInvariant
  <2>10. CASE Frame
    <3>1. visual_bin_run /\ stage = "looping" /\ stage' = stage
      BY <2>10 DEF Frame, Stay, clientvars
    <3> QED  BY <1>1, <1>2, <3>1, OwnRun DEF OwnInvariant
  <2>11. CASE ConnectByNames \/ SwitchByName \/ SwitchByUnknownName \/ SetMorphByName \/ Quit
    BY <2>11 DEF ConnectByNames, SwitchByName, SwitchByUnknownName, SetMorphByName, Quit, OwnClient
  <2> QED
    BY <1>4, <2>1, <2>2, <2>3, <2>4, <2>5, <2>6, <2>7, <2>8, <2>9, <2>10, <2>11 DEF ClientNext
<1> QED  BY <1>3, <1>4

\* A client that owns its actors keeps them: direct switches, asked for at any
\* time and as often as it likes, never free one of them.
THEOREM OwnActorsKept ==
    ASSUME OwnClient
    PROVE  ClientSpec => []ClientKeepsActors
<1>1. OwnInvariant /\ [ClientNext]_allvars => OwnInvariant'  BY OwnNext
<1>2. OwnInvariant => ClientKeepsActors
  BY DEF OwnInvariant, OwnConsistent, OwnPointers, ClientKeepsActors
<1> QED  BY <1>1, <1>2, OwnInit, PTL DEF ClientSpec

\* And the bin follows no bad pointer for it, although the actor that is on its way
\* out, or the one requested before, is the client's to drop, although it may name
\* morphs that are not on the list for the bin to try (lv_bin.c:167), and although
\* it may finalize a switch that it did not ask for (lv_bin.c:681).
THEOREM OwnersSafe ==
    ASSUME OwnClient
    PROVE  ClientSpec => []NoBadAccess
<1>1. OwnInvariant /\ [ClientNext]_allvars => OwnInvariant'  BY OwnNext
<1>2. OwnInvariant => NoBadAccess
  BY DEF OwnInvariant, NoBadAccess
<1> QED  BY <1>1, <1>2, OwnInit, PTL DEF ClientSpec
=============================================================================
