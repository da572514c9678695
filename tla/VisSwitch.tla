------------------------------- MODULE VisSwitch -------------------------------
(***************************************************************************)
(* What a bin promises the client that switches actors: one plugin is      *)
(* shown at any time; another may be requested, and may already appear     *)
(* beside the first while a morph goes on; then it takes over for good.    *)
(* No frame shows a plugin that is neither, and a plugin that was replaced *)
(* never comes back without a new request.                                 *)
(***************************************************************************)
CONSTANTS Shows,   \* the plugins that can be shown
          Nobody   \* no plugin, not one of Shows

VARIABLES
    shown, \* the plugin on screen
    next,  \* the plugin requested to replace it
    frame  \* the plugins that drew in the last frame

switchvars == <<shown, next, frame>>

SwitchInit == shown = Nobody /\ next = Nobody /\ frame = {}

Start ==
    /\ shown = Nobody /\ next = Nobody
    /\ shown' \in Shows
    /\ frame' = {} /\ UNCHANGED next

Request ==
    /\ shown # Nobody /\ next = Nobody
    /\ next' \in Shows
    /\ frame' = {} /\ UNCHANGED shown

\* The bin need not draw in a frame.  The next plugin never draws alone.
Draw ==
    /\ \/ frame' = {}
       \/ shown # Nobody /\ frame' = {shown}
       \/ next # Nobody /\ frame' = {shown, next}
    /\ UNCHANGED <<shown, next>>

\* The last frame of a morph still shows both.
Complete ==
    /\ next # Nobody
    /\ shown' = next /\ next' = Nobody
    /\ frame' \in {{}, {shown, next}}

Stop ==
    /\ shown' = Nobody /\ next' = Nobody /\ frame' = {}

SwitchNext == Start \/ Request \/ Draw \/ Complete \/ Stop

SwitchSpec == SwitchInit /\ [][SwitchNext]_switchvars

\* What was requested is shown, unless the client stops before.
Granted == \A p \in Shows : next = p ~> shown \in {p, Nobody}
=============================================================================
