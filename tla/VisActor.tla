------------------------------- MODULE VisActor -------------------------------
(***************************************************************************)
(* One VisActor of libvisual/lv_actor.c: the plugin it drives, the video   *)
(* it draws into, and the private surfaces negotiation gives it.           *)
(*                                                                         *)
(* A surface is represented by its depth, the only attribute the depth     *)
(* negotiation is about; sizes, pitches, pixels and palettes are left out. *)
(* An actor is a record:                                                   *)
(*   plugin     the plugin, NULL when visual_plugin_load refused           *)
(*   video      the VisVideo set by visual_actor_set_video, or NULL        *)
(*   transform  depth of the depth-transform surface, or NULL              *)
(*   fitting    depth of the size-fitting surface, or NULL                 *)
(*   realized   plugin->realized                                           *)
(***************************************************************************)
EXTENDS VisVideoDepth

CONSTANTS
    NULL,
    Plugins,      \* actor plugins that visual_plugin_find knows
    PluginDepth,  \* vidoptions.depth of each plugin
    FixedSize,    \* plugins whose requisition asks for a size of its own
    Unloadable    \* plugins whose visual_plugin_load may return NULL

ASSUME PluginAssumption ==
    /\ PluginDepth \in [Plugins -> SUBSET DepthBits]
    /\ FixedSize \subseteq Plugins /\ Unloadable \subseteq Plugins
    /\ NULL \notin Plugins /\ NULL \notin DepthValues

\* The plugins visual_actor_new may end up with for a known name: loading may
\* fail (dlopen, or a plugin that is in use and not reentrant), and
\* visual_actor_init carries on with a NULL plugin.
Loaded(name) == IF name \in Unloadable THEN {name, NULL} ELSE {name}

visual_actor_new(plugin) ==
    [plugin |-> plugin, video |-> NULL, transform |-> NULL,
     fitting |-> NULL, realized |-> FALSE]

visual_actor_set_video(act, video) == [act EXCEPT !.video = video]

visual_actor_realize(act) == [act EXCEPT !.realized = (act.plugin # NULL)]

\* Without a plugin the result is -VISUAL_ERROR_PLUGIN_NULL = -59, whose 8 bits
\* and 24 bits flags are on; every caller uses it as a depth flag.
visual_actor_get_supported_depth(act) ==
    IF act.plugin = NULL THEN {1, 4} ELSE PluginDepth[act.plugin]

\* visual_actor_video_negotiate with its two branches, on an actor whose video
\* has the given depth.  Old surfaces go first; the depth-transform surface
\* keeps its depth even when openGL makes the function return an error.
visual_actor_video_negotiate(act, depth, rundepth, forced) ==
    LET flags == visual_actor_get_supported_depth(act)
        run   == IF forced THEN rundepth ELSE depth_get_highest_nogl(flags)
        bare  == [act EXCEPT !.transform = NULL, !.fitting = NULL]
    IN  IF act.plugin = NULL \/ act.video = NULL THEN act
        ELSE IF ~depth_is_supported(flags, depth) \/ (forced /\ depth # rundepth)
             THEN [bare EXCEPT !.transform = run]
        ELSE IF act.plugin \in FixedSize /\ depth # GL
             THEN [bare EXCEPT !.fitting = depth]
        ELSE bare

\* Depth of the surface that visual_actor_run hands to plugin->render, when
\* the actor's video has the given depth.
RenderSurface(act, depth) ==
    IF act.transform # NULL /\ act.transform # depth THEN act.transform
    ELSE IF act.fitting # NULL THEN act.fitting ELSE depth
=============================================================================
