---------------------------- MODULE VisMorphSwitch ----------------------------
(***************************************************************************)
(* The switches of a bin as its morph sees them (lv_bin.c): the client     *)
(* gives the bin a morph, by name or its own; each switch prepares it;     *)
(* each frame runs it and asks whether it is done, and if so, the switch   *)
(* is finalized; the client may also finalize it.  A morph by name is      *)
(* freed then, the client's own is used again.                             *)
(***************************************************************************)
EXTENDS VisMorph

VARIABLES
    morph,    \* bin->morph
    managed,  \* bin->morphmanaged
    switching,\* bin->morphing
    plan,     \* history: what the current or last switch asked of the morph
    used,     \* history: this morph has been used for a switch
    again,    \* history: it had been when the current or last switch began
    frames,   \* history: frames of this switch, up to FULL + 1
    age,      \* history: time since its first frame, up to Longest
    shown,    \* history: age at its last frame
    ended     \* history: how the last switch ended

vars == <<morph, managed, switching, plan, used, again, frames, age, shown, ended>>
history == <<plan, again, frames, age, shown, ended>>

CONSTANT NULL

ASSUME NullAssumption == NULL \notin Morphs

Plans == [mode : MorphModes, steps : StepCounts, time : Times]

Init ==
    /\ morph = NULL /\ managed = FALSE /\ switching = FALSE
    /\ plan \in {p \in Plans : p.mode = "set"}
    /\ used = FALSE /\ again = FALSE /\ frames = 0 /\ age = 0 /\ shown = 0 /\ ended = "none"

visual_bin_set_morph ==
    /\ ~switching
    /\ morph' = visual_morph_new /\ managed' = FALSE
    /\ used' = FALSE /\ UNCHANGED <<switching, history>>

visual_bin_set_morph_by_name ==
    /\ ~switching
    /\ morph' = visual_morph_new /\ managed' = TRUE
    /\ used' = FALSE /\ UNCHANGED <<switching, history>>

\* visual_bin_switch_actor with the settings p of the bin.
visual_bin_switch_actor(p) ==
    /\ ~switching /\ morph # NULL
    /\ morph' = Prepared(morph, p)
    /\ switching' = TRUE
    /\ plan' = p
    /\ used' = TRUE /\ again' = used
    /\ frames' = 0 /\ age' = 0 /\ shown' = 0 /\ ended' = "none"
    /\ UNCHANGED managed

\* What visual_bin_switch_finalize does to the morph m.
Finalized(m) ==
    /\ switching' = FALSE
    /\ morph' = IF managed THEN NULL ELSE m

\* visual_bin_run in a morph: it is run, and asked whether it is done.
visual_bin_run(d) ==
    /\ switching
    /\ LET m == visual_morph_run(morph, d)
       IN  IF IsDone(m)
           THEN Finalized(visual_morph_is_done(m)) /\ ended' = "done"
           ELSE morph' = visual_morph_is_done(m) /\ UNCHANGED <<switching, ended>>
    /\ frames' = NextStep(frames)
    /\ age' = Later(age, d) /\ shown' = Later(age, d)
    /\ UNCHANGED <<managed, plan, used, again>>

\* The client ends the switch.
visual_bin_switch_finalize ==
    /\ switching
    /\ Finalized(morph) /\ ended' = "finalized"
    /\ UNCHANGED <<managed, plan, used, again, frames, age, shown>>

\* The client turns a manual morph.
visual_morph_set_rate(r) ==
    /\ switching /\ ~managed /\ morph.mode = "set"
    /\ morph' = [morph EXCEPT !.rate = r]
    /\ UNCHANGED <<managed, switching, used, history>>

\* Time passes between two calls.
Wait ==
    /\ morph' = IF morph = NULL THEN NULL ELSE [morph EXCEPT !.timer = TimerLater(@, 1)]
    /\ age' = IF switching /\ frames > 0 THEN Later(age, 1) ELSE age
    /\ UNCHANGED <<managed, switching, plan, used, again, frames, shown, ended>>

Frame == \E d \in {0, 1} : visual_bin_run(d)

Next ==
    \/ visual_bin_set_morph \/ visual_bin_set_morph_by_name
    \/ \E p \in Plans : visual_bin_switch_actor(p)
    \/ Frame
    \/ visual_bin_switch_finalize
    \/ \E r \in 0..FULL : visual_morph_set_rate(r)
    \/ Wait

Spec == Init /\ [][Next]_vars

\* The client renders, and the clock goes on.
FairSpec == Spec /\ WF_vars(Frame) /\ WF_vars(Wait)

-----------------------------------------------------------------------------
TypeOK ==
    /\ morph \in Morphs \cup {NULL}
    /\ managed \in BOOLEAN /\ switching \in BOOLEAN
    /\ plan \in Plans
    /\ used \in BOOLEAN /\ again \in BOOLEAN
    /\ frames \in 0..FULL + 1
    /\ age \in 0..Longest /\ shown \in 0..age
    /\ ended \in {"none", "done", "finalized"}

Steps == IF plan.steps = 0 THEN 1 ELSE plan.steps

StepsTaken ==
    plan.mode = "steps" => /\ switching => frames < Steps
                           /\ ended = "done" => frames = Steps
TimeTaken ==
    plan.mode = "time" => /\ switching /\ frames > 0 => shown < plan.time
                          /\ ended = "done" => shown >= plan.time

\* "Used to set the number of steps that a morph will take to finish": a morph
\* that is used for one switch is done after exactly that many frames, although
\* the rate may fall short of 1 by then (lv_morph.c:260).
FreshSteps == ~again => StepsTaken

\* "Set the time when the morph should be finished morphing": a morph that was
\* not used before is done in the first frame after that time, counted from
\* its own first frame (lv_morph.c:306).
FreshTime == ~again => TimeTaken

\* A morph used again, after switches of any mode and end, may be done early,
\* but is late by a frame at most.
NeverLate ==
    /\ plan.mode = "steps" => frames <= Steps + 1 /\ (switching => frames <= Steps)
    /\ plan.mode = "time" /\ switching /\ frames > 0 => shown < plan.time

\* During a switch that goes on by itself the picture never goes back.
NeverBack ==
    [][switching /\ switching' /\ plan.mode # "set" => morph'.rate >= morph.rate]_vars

\* A switch that goes on by itself ends, whatever the morph was used for before.
SwitchEnds == (switching /\ plan.mode # "set") ~> ~switching
=============================================================================
