-------------------------------- MODULE VisBin --------------------------------
(***************************************************************************)
(* The VisBin of libvisual/lv_bin.c: it owns the actor on screen, switches *)
(* to another actor directly or through a morph, and follows the depth of  *)
(* the actors with the depth of the client's video.                        *)
(*                                                                         *)
(* Pointers are identities from finite pools and "live" holds the objects  *)
(* whose reference count is not zero; every object here has one reference, *)
(* so visual_object_unref removes it.  An operation that follows a NULL or *)
(* a freed pointer sets "fault", and nothing happens after that: C gives   *)
(* no meaning to the rest of the execution.                                *)
(***************************************************************************)
EXTENDS VisActor

CONSTANTS
    Actors, Videos, Morphs, \* pools the library allocates from
    Screens,                \* videos of the client; the library never frees one
    MorphDepth,             \* vidoptions.depth of the morph plugins
    MorphNames,             \* what the names the client asks morphs by may be
    MorphFrames             \* bound: frames an automatic morph takes

\* The values of a VisMorph.
MorphRecords == [mode : {"set", "steps", "time"}, rate : 0 .. MorphFrames,
                 plugin : BOOLEAN, dest : Screens \cup {NULL}]

ASSUME PoolAssumption ==
    /\ NULL \notin Actors \cup Videos \cup Morphs \cup Screens
    /\ Actors \cap (Videos \cup Morphs \cup Screens) = {}
    /\ Videos \cap (Morphs \cup Screens) = {} /\ Morphs \cap Screens = {}
    /\ MorphDepth \subseteq DepthBits /\ MorphNames \subseteq {"loads", "refused", "unknown"}
    /\ MorphFrames \in Nat \ {0} /\ NULL \notin MorphRecords

VARIABLES
    bin,    \* struct _VisBin
    actor,  \* the VisActor behind each actor pointer
    vdepth, \* the depth of each video
    morph,  \* mode, rate, plugin and destination video of each VisMorph
    live,   \* objects that are allocated
    mine,   \* actors the client created and still owns
    drawn,  \* renders of the last visual_bin_run
    blend,  \* depths of the morph of the last visual_bin_run
    fault   \* a NULL or freed pointer was followed

heap == <<actor, vdepth, morph, live, mine>>
seen == <<drawn, blend>>
vars == <<bin, heap, seen, fault>>

\* The values the variables take.
Bins == [actor : Actors \cup {NULL}, actmorph : Actors \cup {NULL},
         actvideo : Screens \cup {NULL}, privvid : Videos \cup {NULL},
         actmorphvideo : Videos \cup {NULL}, morph : Morphs \cup {NULL},
         managed : BOOLEAN, actmorphmanaged : BOOLEAN, morphmanaged : BOOLEAN,
         morphing : BOOLEAN, style : {"direct", "morph"}, mode : {"set", "steps", "time"},
         depthpreferred : {"lowest", "highest"}, depthflag : SUBSET DepthBits,
         depth : DepthValues, depthold : DepthValues, depthchanged : BOOLEAN,
         depthfromGL : BOOLEAN, depthforced : DepthValues, depthforcedmain : DepthValues,
         destroyed : BOOLEAN]

ActorRecords == [plugin : Plugins \cup {NULL}, video : Videos \cup Screens \cup {NULL},
                 transform : DepthValues \cup {NULL}, fitting : DepthValues \cup {NULL},
                 realized : BOOLEAN]

BinTypeOK ==
    /\ bin \in Bins
    /\ actor \in [Actors -> ActorRecords]
    /\ vdepth \in [Videos \cup Screens -> DepthValues]
    /\ morph \in [Morphs -> MorphRecords]
    /\ live \subseteq Actors \cup Videos \cup Morphs \cup Screens
    /\ mine \subseteq Actors
    /\ fault \in BOOLEAN

\* visual_bin_new, on a heap with nothing but the client's screens.  The
\* client's settings "automatic" and "mode" are one field: not automatic is
\* the mode "set".
Init ==
    /\ bin = [actor |-> NULL, actmorph |-> NULL, actvideo |-> NULL, privvid |-> NULL,
              actmorphvideo |-> NULL, morph |-> NULL,
              managed |-> FALSE, actmorphmanaged |-> FALSE, morphmanaged |-> FALSE,
              morphing |-> FALSE, style |-> "direct", mode |-> "time",
              depthpreferred |-> "highest", depthflag |-> {}, depth |-> NONE,
              depthold |-> NONE, depthchanged |-> FALSE, depthfromGL |-> FALSE,
              depthforced |-> NONE, depthforcedmain |-> NONE, destroyed |-> FALSE]
    /\ actor = [a \in Actors |-> visual_actor_new(NULL)]
    /\ vdepth = [v \in Videos \cup Screens |-> NONE]
    /\ morph = [m \in Morphs |-> [mode |-> "set", rate |-> 0, plugin |-> FALSE, dest |-> NULL]]
    /\ live = Screens /\ mine = {}
    /\ drawn = {} /\ blend = {}
    /\ fault = FALSE

-----------------------------------------------------------------------------
(* Helpers on the values a handler works with: b a bin, vd the depths of    *)
(* the videos, act the actors, lv the live objects.                         *)

DepthOf(vd, v) == IF v = NULL THEN NONE ELSE vd[v]

\* A slip: the size is copied without the depth.
CloneForgetsDepth(vd, dest, src) == vd

\* visual_video_clone; a new video starts without a depth.
visual_video_clone(vd, dest, src) == [vd EXCEPT ![dest] = DepthOf(vd, src)]

\* "= NULL" or freed: following one of these pointers is a fault.
Faulty(pointers, lv) == ~(pointers \subseteq lv)

\* A slip: the flags of the bin are searched, not those of the actor.
PreferredOfBin(b, flags) ==
    IF b.depthpreferred = "lowest" THEN depth_get_lowest(b.depthflag)
    ELSE depth_get_highest(b.depthflag)

bin_get_depth_using_preferred(b, flags) ==
    IF b.depthpreferred = "lowest" THEN depth_get_lowest(flags)
    ELSE depth_get_highest(flags)

\* The depth fix_depth_with_bin gives its video.
fix_depth_with_bin(b, depth) ==
    IF BitsOf(depth) \cap b.depthflag # {} THEN depth
    ELSE depth_get_highest_nogl(b.depthflag)

\* A slip: the client is not told of the new depth.
SetDepthSilently(b, depth) ==
    IF ~depth_is_supported(b.depthflag, depth) THEN [b EXCEPT !.depthold = b.depth]
    ELSE [b EXCEPT !.depthold = b.depth, !.depth = depth]

\* visual_bin_set_depth on the bin; it also sets the screen, see ScreenAfter.
\* depthold is assigned before the depth is refused, and depthchanged stays up
\* until the client asks for it.
visual_bin_set_depth(b, depth) ==
    LET changed == b.depthchanged \/ b.depth # depth
    IN  IF ~depth_is_supported(b.depthflag, depth)
        THEN [b EXCEPT !.depthold = b.depth]
        ELSE [b EXCEPT !.depthold = b.depth, !.depthchanged = changed,
                       !.depthfromGL = (b.depth = GL /\ changed), !.depth = depth]

\* A slip: the depth of the bin moves without its video.
ScreenUntouched(b, vd, depth) == vd

\* The videos after visual_bin_set_depth.
ScreenAfter(b, vd, depth) ==
    IF b.actvideo # NULL /\ depth_is_supported(b.depthflag, depth)
    THEN [vd EXCEPT ![b.actvideo] = depth] ELSE vd

\* Negotiate the actor a in place, as visual_bin_* does after it has chosen
\* the video.
Negotiated(act, vd, a, rundepth, forced) ==
    [act EXCEPT ![a] = visual_actor_video_negotiate(@, DepthOf(vd, @.video), rundepth, forced)]

\* Freed actors take their private surfaces with them.
Freed(act, S) == [a \in Actors |-> IF a \in S THEN visual_actor_new(NULL) ELSE act[a]]

-----------------------------------------------------------------------------
(* Settings and the client's own objects.                                   *)

Set(b) == bin' = b /\ UNCHANGED <<heap, fault>> /\ drawn' = {} /\ blend' = {}

visual_bin_set_supported_depth(flag) == Set([bin EXCEPT !.depthflag = flag])
visual_bin_set_preferred_depth(pref) == Set([bin EXCEPT !.depthpreferred = pref])
visual_bin_switch_set_style(style)   == Set([bin EXCEPT !.style = style])

\* visual_bin_switch_set_mode and visual_bin_switch_set_automatic; a morph
\* that already runs keeps the mode it was given.
visual_bin_switch_set_mode(mode) == Set([bin EXCEPT !.mode = mode])

\* The client sizes its video for the depth and hands it over.
visual_bin_set_video(screen, depth) ==
    /\ bin' = [bin EXCEPT !.actvideo = screen]
    /\ vdepth' = [vdepth EXCEPT ![screen] = depth]
    /\ drawn' = {} /\ blend' = {}
    /\ UNCHANGED <<actor, morph, live, mine, fault>>

visual_bin_depth_changed == Set([bin EXCEPT !.depthchanged = FALSE])

\* The client calls visual_actor_new, and gives the new actor its video when
\* there is one, for later use with the bin.
ClientNewActor(name, a) ==
    \E plugin \in Loaded(name) :
        /\ a \in Actors \ live
        /\ actor' = [actor EXCEPT ![a] =
                        visual_actor_set_video(visual_actor_new(plugin), bin.actvideo)]
        /\ live' = live \cup {a} /\ mine' = mine \cup {a}
        /\ drawn' = {} /\ blend' = {}
        /\ UNCHANGED <<bin, vdepth, morph, fault>>

\* The client unrefs an actor of its own.
ClientUnrefActor(a) ==
    /\ a \in mine
    /\ fault' = Faulty({a}, live)
    /\ live' = live \ {a} /\ mine' = mine \ {a}
    /\ actor' = Freed(actor, {a})
    /\ drawn' = {} /\ blend' = {}
    /\ UNCHANGED <<bin, vdepth, morph>>

-----------------------------------------------------------------------------
(* Connecting the first actor.                                              *)

\* visual_bin_connect and its visual_bin_set_actor.  With no screen yet, only
\* the bin's depth moves.
Connect(a, act, managed) ==
    LET flags == visual_actor_get_supported_depth(act[a])
        want  == IF flags = {GL} THEN GL
                 ELSE fix_depth_with_bin(bin, bin_get_depth_using_preferred(bin, flags))
        b     == visual_bin_set_depth([bin EXCEPT !.actor = a], want)
    IN  /\ bin' = [b EXCEPT !.depthforcedmain = b.depth, !.managed = managed]
        /\ vdepth' = ScreenAfter(bin, vdepth, want)
        /\ actor' = act
        /\ drawn' = {} /\ blend' = {}

visual_bin_connect(a) ==
    /\ Connect(a, actor, FALSE)
    /\ fault' = Faulty({a}, live)
    /\ UNCHANGED <<morph, live, mine>>

\* visual_bin_connect_by_names; unknown names return before anything changes,
\* except that a known actor with an unknown input is left behind.
visual_bin_connect_by_names(name, a) ==
    \E plugin \in Loaded(name) :
        /\ a \in Actors \ live
        /\ Connect(a, [actor EXCEPT ![a] = visual_actor_new(plugin)], TRUE)
        /\ live' = live \cup {a}
        /\ UNCHANGED <<morph, mine, fault>>

connect_by_names_unknown_input(name, a) ==
    \E plugin \in Loaded(name) :
        /\ a \in Actors \ live
        /\ actor' = [actor EXCEPT ![a] = visual_actor_new(plugin)]
        /\ live' = live \cup {a}
        /\ drawn' = {} /\ blend' = {}
        /\ UNCHANGED <<bin, vdepth, morph, mine, fault>>

visual_bin_realize ==
    /\ bin.actor # NULL
    /\ actor' = [actor EXCEPT ![bin.actor] = visual_actor_realize(@)]
    /\ fault' = Faulty({bin.actor}, live)
    /\ drawn' = {} /\ blend' = {}
    /\ UNCHANGED <<bin, vdepth, morph, live, mine>>

-----------------------------------------------------------------------------
(* The morph.                                                               *)

\* By name: nothing for a name that is not on the list, a morph without a plugin
\* when visual_plugin_load refuses.
visual_morph_new(name) ==
    IF name = "unknown" THEN NULL
    ELSE [mode |-> "set", rate |-> 0, plugin |-> name = "loads", dest |-> NULL]

\* visual_bin_set_morph with what visual_morph_new gives the client.
visual_bin_set_morph(m) ==
    \E name \in MorphNames :
        LET new == visual_morph_new(name)
        IN  /\ m \in Morphs \ live
            /\ morph' = IF new = NULL THEN morph ELSE [morph EXCEPT ![m] = new]
            /\ live' = IF new = NULL THEN live ELSE live \cup {m}
            /\ bin' = [bin EXCEPT !.morph = IF new = NULL THEN NULL ELSE m, !.morphmanaged = FALSE]
            /\ drawn' = {} /\ blend' = {}
            /\ UNCHANGED <<actor, vdepth, mine, fault>>

\* visual_bin_set_morph_by_name: whatever morph is there is unreffed, the
\* client's own included.  The plugin of the new one is looked at even when there
\* is no new one; a morph that cannot draw at the depth of the screen is dropped
\* again.
visual_bin_set_morph_by_name(m) ==
    \E name \in MorphNames :
        LET lv  == live \ {bin.morph}
            new == visual_morph_new(name)
            ok  == /\ new # NULL
                   /\ new.plugin => depth_is_supported(MorphDepth, DepthOf(vdepth, bin.actvideo))
        IN  /\ m \in Morphs \ lv
            /\ morph' = IF new = NULL THEN morph ELSE [morph EXCEPT ![m] = new]
            /\ live' = IF ok THEN lv \cup {m} ELSE lv
            /\ bin' = [bin EXCEPT !.morph = IF ok THEN m ELSE NULL, !.morphmanaged = TRUE]
            /\ fault' = \/ bin.morph # NULL /\ Faulty({bin.morph}, live)
                        \/ new = NULL
                        \/ name = "loads" /\ bin.actvideo = NULL
            /\ drawn' = {} /\ blend' = {}
            /\ UNCHANGED <<actor, vdepth, mine>>

-----------------------------------------------------------------------------
(* Switching to another actor.                                              *)

\* A slip: the main actor keeps drawing to the screen.
ScreenAsPrivate(b, lv) == {b.actvideo}

\* The new videos visual_bin_switch_actor may get for the main actor to draw into.
PrivateVideos(b, lv) == Videos \ lv

\* visual_bin_switch_actor on a bin b with videos vd, actors act and objects lv;
\* bad tells that its caller followed a bad pointer.  The private video of an
\* earlier morph is unreffed first, although the main actor may still draw
\* into it.
SwitchActor(b, vd, act, lv, a, bad) ==
    LET lv1    == lv \ {b.privvid}
        main   == act[b.actor].video
        next   == act[a].video
        morphs == /\ b.style = "morph" /\ ~b.depthfromGL
                  /\ DepthOf(vd, main) # GL /\ DepthOf(vd, next) # GL
        b1     == [b EXCEPT !.actmorph = a, !.privvid = NULL, !.morphing = TRUE]
    IN  /\ fault' = \/ bad \/ Faulty({b.actor, a, main, next} \cup (IF morphs THEN {b.morph} \ {NULL} ELSE {}), lv1)
                    \/ morphs /\ b.actvideo = NULL
        /\ IF morphs
           THEN \E pv \in PrivateVideos(b, lv1) :
                   /\ bin' = [b1 EXCEPT !.privvid = pv]
                   /\ vdepth' = visual_video_clone(vd, pv, b.actvideo)
                   /\ actor' = [act EXCEPT ![b.actor] = visual_actor_set_video(@, pv)]
                   /\ live' = lv1 \cup {pv}
                   /\ morph' = IF b.morph # NULL /\ morph[b.morph].plugin
                               THEN [morph EXCEPT ![b.morph].mode = b.mode,
                                                  ![b.morph].rate = 0,
                                                  ![b.morph].dest = b.actvideo]
                               ELSE morph
           ELSE /\ bin' = b1
                /\ vdepth' = vd /\ actor' = act /\ live' = lv1 /\ morph' = morph
        /\ drawn' = {} /\ blend' = {}

visual_bin_switch_actor(a) ==
    /\ SwitchActor(bin, vdepth, actor, live, a, FALSE)
    /\ UNCHANGED mine

\* The screen has more depth than the new actor needs, and the morph keeps it.
MorphsDeeper(b, screen, fixed) == screen > fixed /\ b.style = "morph"

\* What visual_bin_switch_actor_by_name decides about depths for a plugin with
\* the given depth flags: the bin afterwards, the depth of the new actor's
\* video and the depth of the screen.
ByNameDepths(b, screen, flags) ==
    LET want  == bin_get_depth_using_preferred(b, flags)
        fixed == fix_depth_with_bin(b, want)
        Go(forced, forcedmain, depth) ==
            [bin   |-> visual_bin_set_depth([b EXCEPT !.depthforced = forced,
                                                      !.depthforcedmain = forcedmain], depth),
             video |-> depth,
             screen |-> depth]
        gl    == Go(GL, GL, GL)
    IN  CASE depth_is_supported(flags, GL) ->
                [gl EXCEPT !.bin.depthchanged = TRUE]
          [] ~depth_is_supported(flags, GL) /\ screen = GL ->
                [bin   |-> [b EXCEPT !.depthforced = fixed, !.depthforcedmain = fixed],
                 video |-> fixed, screen |-> screen]
          [] ~depth_is_supported(flags, GL) /\ screen # GL
                /\ MorphsDeeper(b, screen, fixed) -> Go(want, b.depth, screen)
          [] OTHER -> Go(fixed, b.depth, fixed)

\* What a switch by name destroys first.
UnfinishedManaged ==
    IF bin.actmorphmanaged /\ bin.actmorph # NULL
    THEN {bin.actmorph} \cup ({bin.actmorphvideo} \ {NULL}) ELSE {}

\* visual_bin_switch_actor_by_name for a known name.  The actor and the video of
\* an unfinished managed switch are dropped; the main actor is renegotiated
\* when its forced depth is not the depth of the screen.
visual_bin_switch_actor_by_name(name, a, v) ==
    \E plugin \in Loaded(name) :
        LET old    == UnfinishedManaged
            lv     == live \ old
            screen == DepthOf(vdepth, bin.actvideo)
            new    == visual_actor_new(plugin)
            flags  == visual_actor_get_supported_depth(new)
            plan   == ByNameDepths(bin, screen, flags)
            act0   == IF ~depth_is_supported(flags, GL) /\ bin.depthforcedmain # screen
                      THEN Negotiated(Freed(actor, old), vdepth, bin.actor,
                                      bin.depthforcedmain, TRUE)
                      ELSE Freed(actor, old)
            vd     == [ScreenAfter(bin, vdepth, plan.screen) EXCEPT ![v] = plan.video]
        IN  /\ a \in Actors \ lv /\ v \in Videos \ lv
            /\ SwitchActor([plan.bin EXCEPT !.actmorphvideo = v, !.actmorphmanaged = TRUE],
                           vd, [act0 EXCEPT ![a] = visual_actor_set_video(new, v)],
                           lv \cup {a, v}, a,
                           Faulty(old \cup {bin.actor}, live) \/ actor[bin.actor].plugin = NULL
                             \/ bin.actvideo = NULL)
            /\ UNCHANGED mine

\* A name visual_actor_new does not know: the unfinished switch is already
\* dropped, and the bin still points to it.
switch_actor_by_unknown_name ==
    LET old == UnfinishedManaged
    IN  /\ live' = live \ old
        /\ actor' = Freed(actor, old)
        /\ fault' = Faulty({bin.actor} \cup old, live)
        /\ drawn' = {} /\ blend' = {}
        /\ UNCHANGED <<bin, vdepth, morph, mine>>

\* Slips: the private video is not unreffed; an actor the bin does not manage is;
\* the private video is still pointed to; the old actor stays;
\* a morph of the client is forgotten.
RetiresNoPrivate(b) ==
    ((IF b.managed THEN {b.actor} ELSE {})
       \cup (IF b.actmorphmanaged THEN {b.actmorphvideo} ELSE {})
       \cup (IF b.morphmanaged THEN {b.morph} ELSE {})) \ {NULL}

RetiresAnyActor(b) ==
    ({b.actor, b.privvid} \cup (IF b.actmorphmanaged THEN {b.actmorphvideo} ELSE {})
       \cup (IF b.morphmanaged THEN {b.morph} ELSE {})) \ {NULL}

RetiredKeepsPrivate(b) ==
    [b EXCEPT !.actor = b.actmorph, !.actmorph = NULL, !.morphing = FALSE,
              !.actmorphvideo = IF b.actmorphmanaged THEN NULL ELSE @,
              !.morph = IF b.morphmanaged THEN NULL ELSE @]

RetiredKeepsActor(b) ==
    [b EXCEPT !.actmorph = NULL, !.privvid = NULL, !.morphing = FALSE,
              !.actmorphvideo = IF b.actmorphmanaged THEN NULL ELSE @,
              !.morph = IF b.morphmanaged THEN NULL ELSE @]

RetiredDropsMorph(b) ==
    [b EXCEPT !.actor = b.actmorph, !.actmorph = NULL, !.privvid = NULL, !.morphing = FALSE,
              !.actmorphvideo = IF b.actmorphmanaged THEN NULL ELSE @, !.morph = NULL]

\* What visual_bin_switch_finalize unrefs: the old actor, the video of the new
\* one, the private video and the morph, as far as the bin manages them.
Retires(b) ==
    ((IF b.managed THEN {b.actor} ELSE {}) \cup {b.privvid}
       \cup (IF b.actmorphmanaged THEN {b.actmorphvideo} ELSE {})
       \cup (IF b.morphmanaged THEN {b.morph} ELSE {})) \ {NULL}

\* The bin without them, the new actor in the place of the old one.
Retired(b) ==
    [b EXCEPT !.actor = b.actmorph, !.actmorph = NULL, !.privvid = NULL, !.morphing = FALSE,
              !.actmorphvideo = IF b.actmorphmanaged THEN NULL ELSE @,
              !.morph = IF b.morphmanaged THEN NULL ELSE @]

\* visual_actor_get_supported_depth of a pointer; of none it is
\* -VISUAL_ERROR_ACTOR_NULL = -5, whose flags are all on but the 24 bits one.
SupportedDepth(act, a) ==
    IF a = NULL THEN DepthBits \ {4} ELSE visual_actor_get_supported_depth(act[a])

\* visual_bin_switch_finalize, with the actors act and the morphs mor of a run
\* that may precede it; bad tells that this run followed a bad pointer.  Nothing
\* asks whether a switch is pending: without one the bin loses its actor, the
\* calls on no actor return, and the depth follows the error code above.
Finalize(act, mor, bad) ==
    LET freed == Retires(bin)
        next  == bin.actmorph
        flags == SupportedDepth(act, next)
        depth == fix_depth_with_bin(bin, bin_get_depth_using_preferred(bin, flags))
        b     == visual_bin_set_depth(Retired(bin), depth)
        vd    == [vdepth EXCEPT ![bin.actvideo] = depth]
        left  == Freed(act, freed)
        set   == IF next = NULL THEN left
                 ELSE [left EXCEPT ![next] = visual_actor_set_video(@, bin.actvideo)]
    IN  /\ bin' = [b EXCEPT !.depthforcedmain = depth]
        /\ vdepth' = vd
        /\ actor' = IF b.depthchanged /\ next # NULL THEN Negotiated(set, vd, next, depth, TRUE) ELSE set
        /\ live' = live \ freed
        /\ morph' = mor
        /\ fault' = (bad \/ Faulty(freed, live) \/ Faulty(({next} \ {NULL}) \cup {bin.actvideo}, live \ freed))
        /\ UNCHANGED mine

\* The client finalizes a switch.
visual_bin_switch_finalize ==
    /\ Finalize(actor, morph, FALSE)
    /\ drawn' = {} /\ blend' = {}

-----------------------------------------------------------------------------
(* One frame: visual_bin_run, by the way it ends.                           *)

\* An actor that is not realized yet is realized and negotiated; both actors
\* of a switch get the depth that was chosen for the new one.
FirstRealize(act, a, managed) ==
    IF act[a].realized THEN act
    ELSE Negotiated([act EXCEPT ![a] = visual_actor_realize(@)], vdepth, a,
                    IF managed THEN bin.depthforced ELSE 0, managed)

NextRealized == FirstRealize(actor, bin.actmorph, bin.actmorphmanaged)
BothRealized == FirstRealize(NextRealized, bin.actor, bin.managed)

VideoDepth(act, a) == DepthOf(vdepth, act[a].video)

\* What visual_actor_run renders for the actor a.
Render(act, a) ==
    IF act[a].plugin = NULL \/ act[a].video = NULL THEN {}
    ELSE {[actor |-> a, plugin |-> act[a].plugin, onto |-> act[a].video,
           depth |-> VideoDepth(act, a), surface |-> RenderSurface(act[a], VideoDepth(act, a))]}

\* The pointers a frame with the given actors follows.
FrameFaulty(act, actors) ==
    Faulty(actors \cup ({act[a].video : a \in actors} \ {NULL}), live)

\* The checks of a pending switch that make the run return without drawing.
RunRefused ==
    /\ bin.actor # NULL /\ bin.morphing
    /\ \/ /\ bin.actmorph = NULL \/ actor[bin.actmorph].plugin = NULL
          /\ actor' = actor
       \/ /\ bin.actmorph # NULL /\ actor[bin.actmorph].plugin # NULL
          /\ actor[bin.actor].plugin = NULL
          /\ actor' = NextRealized
    /\ drawn' = {} /\ blend' = {}
    /\ fault' = Faulty({bin.actmorph} \ {NULL}, live)
    /\ UNCHANGED <<bin, vdepth, morph, live, mine>>

\* A switch is pending and both actors can run.
Pending ==
    /\ bin.actor # NULL /\ bin.morphing /\ bin.actmorph # NULL
    /\ actor[bin.actmorph].plugin # NULL /\ actor[bin.actor].plugin # NULL
    /\ actor[bin.actor].video # NULL

\* A direct switch, or openGL on screen: finalize at once and draw nothing.
RunSwitches ==
    /\ Pending
    /\ bin.style = "direct" \/ VideoDepth(actor, bin.actor) = GL
    /\ Finalize(BothRealized, morph, FrameFaulty(actor, {bin.actor, bin.actmorph}))
    /\ drawn' = {} /\ blend' = {}

\* No switch, or a switch that has to wait for the client's next sync because
\* the new actor is openGL: only the main actor draws.
RunDraws ==
    LET act0 == IF bin.morphing THEN BothRealized ELSE actor
        act  == [act0 EXCEPT ![bin.actor] = visual_actor_realize(@)]
    IN  /\ bin.actor # NULL
        /\ bin.morphing => /\ Pending /\ bin.style = "morph"
                           /\ VideoDepth(actor, bin.actor) # GL
                           /\ VideoDepth(actor, bin.actmorph) = GL
        /\ actor' = act
        /\ drawn' = Render(act, bin.actor) /\ blend' = {}
        /\ fault' = FrameFaulty(act, {bin.actor} \cup ({bin.actmorph} \ {NULL}))
        /\ UNCHANGED <<bin, vdepth, morph, live, mine>>

\* The progress of a morph after one more visual_morph_run; MorphFrames stands for
\* the rate 1.0.
visual_morph_run(m) == IF m.mode = "set" THEN {m.rate} ELSE (m.rate + 1) .. MorphFrames

visual_morph_is_done(m) == m.mode # "set" /\ m.rate >= MorphFrames

\* Both actors draw and the morph mixes them onto the screen.  Without a usable
\* morph, or when the morph is done, the switch is finalized.
RunMorphs ==
    LET usable  == bin.morph # NULL /\ morph[bin.morph].plugin
        bad     == \/ FrameFaulty(actor, {bin.actor, bin.actmorph})
                   \/ usable /\ Faulty({bin.morph, morph[bin.morph].dest}, live)
    IN  /\ Pending /\ bin.style = "morph"
        /\ VideoDepth(actor, bin.actor) # GL /\ VideoDepth(actor, bin.actmorph) # GL
        /\ drawn' = Render(BothRealized, bin.actor) \cup Render(BothRealized, bin.actmorph)
        /\ blend' = IF usable THEN {[dest |-> DepthOf(vdepth, morph[bin.morph].dest),
                                     src1 |-> VideoDepth(actor, bin.actor),
                                     src2 |-> VideoDepth(actor, bin.actmorph)]} ELSE {}
        /\ \/ ~usable /\ Finalize(BothRealized, morph, bad)
           \/ /\ usable
              /\ \E rate \in visual_morph_run(morph[bin.morph]) :
                    LET mor == [morph EXCEPT ![bin.morph].rate = rate]
                    IN  \/ /\ visual_morph_is_done(mor[bin.morph])
                           /\ Finalize(BothRealized, mor, bad)
                        \/ /\ ~visual_morph_is_done(mor[bin.morph])
                           /\ morph' = mor
                           /\ actor' = BothRealized
                           /\ fault' = bad
                           /\ UNCHANGED <<bin, vdepth, live, mine>>

\* A bin that has lost its actor: visual_bin_run returns, and so do the calls that
\* visual_bin_sync makes for the actor.
RunEmpty == bin.actor = NULL /\ Set(bin)
SyncEmpty == bin.actor = NULL /\ ~bin.morphing /\ Set(bin)

visual_bin_run == RunEmpty \/ RunRefused \/ RunSwitches \/ RunDraws \/ RunMorphs

-----------------------------------------------------------------------------
(* The client has changed its video.                                        *)

\* A slip: the morph starts anew in its new video.
MorphRestarts(b, mor) ==
    IF b.morph # NULL THEN [mor EXCEPT ![b.morph].dest = b.actvideo, ![b.morph].rate = 0] ELSE mor

\* visual_morph_set_video, as visual_bin_sync calls it.
MorphMoves(b, mor) ==
    IF b.morph # NULL THEN [mor EXCEPT ![b.morph].dest = b.actvideo] ELSE mor

\* visual_bin_sync.  During a morph the main actor draws into the private video,
\* which takes the depth of the screen, and otherwise straight to the screen.  A
\* managed actor is forced into depthforcedmain; the new actor of a managed
\* morph is prepared at once.
visual_bin_sync ==
    LET bymorph == /\ bin.morphing /\ bin.style = "morph" /\ ~bin.depthfromGL
                   /\ DepthOf(vdepth, bin.actvideo) # GL
        nextGL  == DepthOf(vdepth, actor[bin.actmorph].video) = GL
        video   == IF bymorph /\ ~nextGL THEN bin.privvid ELSE bin.actvideo
        withnew == bin.actmorphmanaged /\ bin.morphing /\ bin.style = "morph"
                   /\ bin.actmorphvideo # NULL
        vd1 == IF bymorph THEN visual_video_clone(vdepth, bin.privvid, bin.actvideo) ELSE vdepth
        vd2 == IF withnew THEN visual_video_clone(vd1, bin.actmorphvideo, video) ELSE vd1
        act1 == Negotiated([actor EXCEPT ![bin.actor] = visual_actor_set_video(@, video)], vd1,
                           bin.actor, IF bin.managed THEN bin.depthforcedmain ELSE 0,
                           bin.managed \/ bin.depthold = GL)
        act2 == Negotiated([act1 EXCEPT ![bin.actmorph] = visual_actor_realize(@)], vd2,
                           bin.actmorph, bin.depthforced, TRUE)
    IN  /\ bin.actor # NULL /\ bin.actvideo # NULL
        /\ bymorph => bin.privvid # NULL
        /\ vdepth' = vd2
        /\ actor' = IF withnew THEN act2 ELSE act1
        /\ morph' = IF bymorph THEN MorphMoves(bin, morph) ELSE morph
        /\ fault' = Faulty({bin.actor, video}
                             \cup (IF bymorph THEN {bin.privvid, bin.actmorph, actor[bin.actmorph].video}
                                 ELSE {})
                             \cup (IF withnew THEN {bin.actmorphvideo, bin.actmorph} ELSE {})
                             \cup (IF bymorph THEN {bin.morph} \ {NULL} ELSE {}), live)
        /\ drawn' = {} /\ blend' = {}
        /\ UNCHANGED <<bin, live, mine>>

\* A style set during the switch: there is no private video to sync with.
SyncRefused ==
    /\ bin.actvideo # NULL /\ bin.privvid = NULL /\ bin.morphing
    /\ bin.style = "morph" /\ ~bin.depthfromGL /\ vdepth[bin.actvideo] # GL
    /\ morph' = MorphMoves(bin, morph)
    /\ fault' = Faulty({bin.morph} \ {NULL}, live)
    /\ drawn' = {} /\ blend' = {}
    /\ UNCHANGED <<bin, actor, vdepth, live, mine>>

\* bin_dtor, when the client drops its reference to the bin.
bin_dtor ==
    LET freed == ({bin.actor, bin.morph, bin.privvid}
                    \cup (IF bin.actmorphmanaged THEN {bin.actmorph, bin.actmorphvideo} ELSE {}))
                 \ {NULL}
    IN  /\ bin' = [bin EXCEPT !.actor = NULL, !.morph = NULL, !.privvid = NULL,
                              !.actmorph = NULL, !.actmorphvideo = NULL, !.destroyed = TRUE]
        /\ live' = live \ freed
        /\ actor' = Freed(actor, freed)
        /\ fault' = Faulty(freed, live)
        /\ drawn' = {} /\ blend' = {}
        /\ UNCHANGED <<vdepth, morph, mine>>
=============================================================================
