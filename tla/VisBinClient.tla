----------------------------- MODULE VisBinClient -----------------------------
(***************************************************************************)
(* A client of the bin, after examples/simple/libvisual.c and              *)
(* tools/lv-tool/lv-tool.c: it sets the bin up, connects an actor, and then *)
(* loops over its events and its frames.  Before each frame it asks        *)
(* visual_bin_depth_changed; if the answer is yes it creates its display   *)
(* again at the new depth and calls visual_bin_sync.  The client is one    *)
(* thread: its calls interleave with its own events only.                  *)
(***************************************************************************)
EXTENDS VisBin

CONSTANTS
    DepthFlags, \* what the client may pass to visual_bin_set_supported_depth
    Preferences,\* what it may pass to visual_bin_set_preferred_depth
    Styles,     \* the switch styles it sets
    Modes,      \* the morph modes it sets
    Calls,      \* the optional calls it makes, see AllCalls
    Patient     \* it lets a switch end before it asks for the next one

AllCalls == {"connect", "connect_by_names", "switch_actor", "switch_actor_by_name",
             "set_morph", "set_morph_by_name", "switch_finalize", "finalize_idle",
             "unknown_name", "unknown_input", "skip_realize", "change_style", "resize", "quit"}

ASSUME ClientAssumption ==
    /\ DepthFlags \subseteq SUBSET DepthBits /\ {} \notin DepthFlags
    /\ Preferences \subseteq {"lowest", "highest"}
    /\ Styles \subseteq {"direct", "morph"}
    /\ Modes \subseteq {"set", "steps", "time"}
    /\ Calls \subseteq AllCalls
    /\ Patient \in BOOLEAN

\* What the bin promises to a client, by the plugins of its two actors.
Promise == INSTANCE VisSwitch WITH
    Shows  <- Plugins,
    Nobody <- NULL,
    shown  <- IF bin.actor = NULL THEN NULL ELSE actor[bin.actor].plugin,
    next   <- IF bin.morphing /\ bin.actmorph # NULL THEN actor[bin.actmorph].plugin ELSE NULL,
    frame  <- {r.plugin : r \in drawn}

VARIABLES
    stage,  \* where the client is in its program
    display \* the depth its display was created for

clientvars == <<stage, display>>
allvars == <<vars, clientvars>>

ClientInit == Init /\ stage = "setup" /\ display = NONE

Idle == Patient => ~bin.morphing

Stay == UNCHANGED clientvars
Goto(s) == stage' = s /\ UNCHANGED display

\* v_init: the bin and the video are set up before the actor is connected.
Setup ==
    /\ stage = "setup" /\ bin.depthflag = {}
    /\ \E flag \in DepthFlags : visual_bin_set_supported_depth(flag)
    /\ Stay

SetupPreference ==
    /\ stage = "setup" /\ Stay
    /\ \E pref \in Preferences \ {bin.depthpreferred} : visual_bin_set_preferred_depth(pref)

SetupStyle ==
    /\ stage = "setup" \/ (stage = "looping" /\ "change_style" \in Calls /\ Idle)
    /\ Stay
    /\ \E style \in Styles \ {bin.style} : visual_bin_switch_set_style(style)

SetupMode ==
    /\ stage = "setup" /\ Stay
    /\ \E mode \in Modes \ {bin.mode} : visual_bin_switch_set_mode(mode)

\* examples/simple gives the bin its video before it connects an actor, lv-tool
\* after that, at the depth the bin then has.
SetupVideo ==
    /\ bin.actvideo = NULL
    /\ \/ stage = "setup" /\ bin.depthflag # {}
       \/ stage = "connected"
    /\ \E screen \in Screens :
          visual_bin_set_video(screen, IF stage = "setup" THEN depth_get_lowest(bin.depthflag)
                                       ELSE bin.depth)
    /\ Stay

ConnectByNames ==
    /\ stage = "setup" /\ bin.depthflag # {} /\ "connect_by_names" \in Calls
    /\ \E name \in Plugins, a \in Actors : visual_bin_connect_by_names(name, a)
    /\ Goto("connected")

ConnectWithUnknownInput ==
    /\ stage = "setup" /\ bin.depthflag # {} /\ "unknown_input" \in Calls
    /\ live \subseteq Screens
    /\ \E name \in Plugins, a \in Actors : connect_by_names_unknown_input(name, a)
    /\ Stay

ConnectOwn ==
    /\ stage = "setup" /\ bin.depthflag # {} /\ "connect" \in Calls
    /\ \E a \in mine : visual_bin_connect(a)
    /\ Goto("connected")

Realize ==
    /\ stage = "connected" /\ bin.actvideo # NULL
    /\ visual_bin_realize
    /\ Goto("realized")

SkipRealize ==
    /\ stage = "connected" /\ bin.actvideo # NULL /\ "skip_realize" \in Calls
    /\ Goto("realized") /\ UNCHANGED vars

\* The client asks for the depth, and creates its display for it.
CatchUp ==
    /\ stage = "realized" \/ (stage = "looping" /\ bin.depthchanged)
    /\ visual_bin_depth_changed
    /\ stage' = "stale" /\ display' = bin.depth

Sync ==
    /\ stage = "stale"
    /\ visual_bin_sync \/ SyncRefused \/ SyncEmpty
    /\ Goto("looping")

Frame ==
    /\ stage = "looping" /\ ~bin.depthchanged
    /\ visual_bin_run
    /\ Stay

\* v_resize: the display is created again at the depth of the video.
Resize ==
    /\ stage = "looping" /\ "resize" \in Calls /\ bin.actvideo # NULL
    /\ visual_bin_sync \/ SyncEmpty
    /\ display' = vdepth[bin.actvideo] /\ UNCHANGED stage

SetMorphByName ==
    /\ stage = "looping" /\ "set_morph_by_name" \in Calls /\ Idle
    /\ \E m \in Morphs : visual_bin_set_morph_by_name(m)
    /\ Stay

SetMorph ==
    /\ stage \in {"setup", "looping"} /\ "set_morph" \in Calls /\ bin.morph = NULL /\ Idle
    /\ \E m \in Morphs : visual_bin_set_morph(m)
    /\ Stay

\* The client asks for another actor only while it has one: the bin looks at the
\* actor it switches from without asking.
SwitchByName ==
    /\ stage = "looping" /\ "switch_actor_by_name" \in Calls /\ Idle /\ bin.actor # NULL
    /\ \E name \in Plugins, a \in Actors, v \in Videos : visual_bin_switch_actor_by_name(name, a, v)
    /\ Stay

SwitchByUnknownName ==
    /\ stage = "looping" /\ "switch_actor_by_name" \in Calls /\ "unknown_name" \in Calls /\ Idle
    /\ bin.actor # NULL
    /\ switch_actor_by_unknown_name
    /\ Stay

\* A client that creates its actors itself drops one only when the bin does not
\* use it.
NewActor ==
    /\ stage \in {"setup", "looping"} /\ {"connect", "switch_actor"} \cap Calls # {}
    /\ mine \subseteq {bin.actor, bin.actmorph}
    /\ \E name \in Plugins, a \in Actors : ClientNewActor(name, a)
    /\ Stay

DropActor ==
    /\ stage = "looping" /\ "switch_actor" \in Calls
    /\ \E a \in mine \ {bin.actor, bin.actmorph} : ClientUnrefActor(a)
    /\ Stay

SwitchOwn ==
    /\ stage = "looping" /\ "switch_actor" \in Calls /\ Idle /\ bin.actor # NULL
    /\ \E a \in mine : visual_bin_switch_actor(a)
    /\ Stay

\* It ends the switch it asked for, or calls when there is none.
SwitchFinalize ==
    /\ stage = "looping" /\ "switch_finalize" \in Calls
    /\ bin.morphing \/ "finalize_idle" \in Calls
    /\ visual_bin_switch_finalize
    /\ Stay

Quit ==
    /\ stage = "looping" /\ "quit" \in Calls
    /\ bin_dtor
    /\ Goto("done")

ClientNext ==
    /\ ~fault
    /\ \/ Setup \/ SetupPreference \/ SetupStyle \/ SetupMode \/ SetupVideo
       \/ ConnectByNames \/ ConnectWithUnknownInput \/ ConnectOwn \/ Realize \/ SkipRealize
       \/ CatchUp \/ Sync \/ Frame \/ Resize
       \/ SetMorph \/ SetMorphByName
       \/ SwitchByName \/ SwitchByUnknownName \/ SwitchOwn \/ SwitchFinalize
       \/ NewActor \/ DropActor \/ Quit

ClientSpec == ClientInit /\ [][ClientNext]_allvars

\* The loop of the client goes on without its events: at any point in it one of
\* these three is next.
Loop == ~fault /\ (CatchUp \/ Sync \/ Frame)

FairClientSpec == ClientSpec /\ WF_allvars(Loop)

-----------------------------------------------------------------------------
\* The bin, the heap, and what the client keeps.
TypeOK ==
    /\ BinTypeOK
    /\ stage \in {"setup", "connected", "realized", "stale", "looping", "done"}
    /\ display \in DepthValues

\* No operation follows a NULL or freed pointer.
NoBadAccess == ~fault

\* The surface a plugin renders to has a depth the plugin supports.
RendersSupported == \A r \in drawn : r.surface \in PluginDepth[r.plugin]

\* "We can't start drawing yet, the client needs to catch up with the depth
\* change" (lv_bin.c:848): what is drawn to the screen has the depth the
\* client's display was created for.
DrawsCaughtUp ==
    /\ \A r \in drawn : r.onto \in Screens => r.depth = display
    /\ \A b \in blend : b.dest = display

\* A morph mixes two videos into a third: the three have one depth, and none
\* of them is openGL.
MorphsAlike == \A b \in blend : b.src1 = b.dest /\ b.src2 = b.dest /\ b.dest # GL

\* The client is told one depth and draws into a video of that depth.
DepthAgrees == stage = "looping" => vdepth[bin.actvideo] = bin.depth

\* What the library allocated is reachable from the bin, which will free it.
Reachable == {bin.actor, bin.actmorph, bin.privvid, bin.actmorphvideo, bin.morph}
NothingLeaks == live \ (Screens \cup mine) \subseteq Reachable

\* The bin does not free an actor that belongs to the client.
ClientKeepsActors == mine \subseteq live

\* The bin implements VisSwitch: a frame shows the plugin on screen, alone or
\* with the requested one, and a switch ends with the requested one on screen.
KeepsPromise == Promise!SwitchSpec

\* With a morph that ends by itself, the frames of the client alone are enough
\* for the requested plugin to get on screen: no sequence of depth changes and
\* syncs keeps it waiting.
RequestGranted == Promise!Granted

-----------------------------------------------------------------------------
(* Why a managed client never meets a bad pointer.  It names its actors, it  *)
(* lets a switch end before it asks for the next one, it finalizes no switch *)
(* it did not ask for, its plugins load, it supports their depths, and the   *)
(* morphs it names are on the list (visual_morph_valid_by_name tells).       *)

ManagedClient ==
    /\ Patient /\ Unloadable = {} /\ "unknown" \notin MorphNames
    /\ Calls \cap {"switch_actor", "set_morph", "finalize_idle"} = {}
    /\ \A flag \in DepthFlags, p \in Plugins : PluginDepth[p] # {} /\ PluginDepth[p] \subseteq flag

\* Where the client is in its program tells which pointers are set.
StageAgrees ==
    /\ stage = "setup" => bin.actor = NULL /\ ~bin.morphing /\ bin.depthflag \in DepthFlags \cup {{}}
    /\ stage # "setup" => bin.actor # NULL /\ bin.depthflag \in DepthFlags
    /\ stage \in {"realized", "stale", "looping"} => bin.actvideo # NULL
    /\ bin.morphing => stage \in {"stale", "looping"}

\* What the bin points to is allocated, and has its plugin.
PointersLive ==
    /\ Screens \subseteq live /\ mine \subseteq live
    /\ Reachable \ {NULL} \subseteq live
    /\ \A a \in Actors \cap live : actor[a].plugin # NULL

\* The two actors are different objects, and those the bin frees are its own.
ActorsApart ==
    /\ bin.managed => bin.actor \notin mine
    /\ bin.morphing => bin.actmorph # bin.actor /\ bin.actmorph \notin mine

\* All that a switch has added is there while it lasts, and gone afterwards.
SwitchWhole ==
    /\ bin.morphing => /\ bin.actmorph # NULL /\ bin.actmorphvideo # NULL /\ bin.actmorphmanaged
                       /\ actor[bin.actmorph].video = bin.actmorphvideo
                       /\ bin.actmorphvideo # bin.privvid
    /\ ~bin.morphing => bin.actmorph = NULL /\ bin.actmorphvideo = NULL /\ bin.privvid = NULL
    /\ stage = "looping" \/ bin.morphing =>
           actor[bin.actor].video \in {bin.actvideo, bin.privvid} \ {NULL}

\* The bin and its screen have one depth, and the client supports it.
DepthsFollow ==
    stage # "setup" => /\ bin.depth \in bin.depthflag
                       /\ bin.actvideo # NULL => vdepth[bin.actvideo] = bin.depth

\* A morph without a private video is not run, because the screen is openGL and so
\* is one of the actors; a morph with one has a destination.
MorphReady ==
    bin.morphing /\ bin.style = "morph" =>
       IF bin.privvid = NULL
       THEN /\ vdepth[bin.actvideo] = GL
            /\ GL \in {vdepth[actor[bin.actor].video], vdepth[bin.actmorphvideo]}
       ELSE bin.morph # NULL /\ morph[bin.morph].plugin => morph[bin.morph].dest = bin.actvideo

Consistent ==
    StageAgrees /\ PointersLive /\ ActorsApart /\ SwitchWhole /\ DepthsFollow /\ MorphReady

\* The inductive invariant: all of this until the client quits.
ManagedInvariant == TypeOK /\ ~fault /\ (stage # "done" => Consistent)
=============================================================================
