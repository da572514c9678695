------------------------------- MODULE VisMorph -------------------------------
(***************************************************************************)
(* libvisual/lv_morph.c: how far a morph has got, and the timer of         *)
(* lv_time.c that it keeps.  A morph and a timer are records, their        *)
(* functions operators.  The plugin, the videos and the palette are left   *)
(* out.                                                                    *)
(*                                                                         *)
(* The rate, a float from 0 to 1, is a whole number from 0 to FULL: what a *)
(* division leaves is lost, as a float loses what it rounds.  A timer      *)
(* stores when it was started and stopped; here it stores what is ever     *)
(* asked, the time between the two, up to Longest.                         *)
(***************************************************************************)
EXTENDS Integers

CONSTANTS
    FULL,       \* the rate 1.0
    StepCounts, \* the numbers of steps a morph may be set to
    Times,      \* the times a morph may be set to
    Longest     \* elapsed times from here on are not told apart

\* A morph of n steps falls short of FULL by less than a step.
ASSUME RateAssumption ==
    /\ FULL \in Nat \ {0}
    /\ StepCounts \subseteq Nat
    /\ \A n \in StepCounts \ {0} : n <= FULL /\ FULL % n <= FULL \div n
ASSUME TimeAssumption ==
    /\ Longest \in Nat
    /\ Times \subseteq 1..Longest

-----------------------------------------------------------------------------
\* Time passes, for a timer that runs.
Later(elapsed, d) == IF elapsed + d > Longest THEN Longest ELSE elapsed + d

Timers == [active : BOOLEAN, elapsed : 0..Longest]

visual_timer_init == [active |-> FALSE, elapsed |-> 0]
visual_timer_start(timer) == [active |-> TRUE, elapsed |-> 0]
visual_timer_stop(timer) == [active |-> FALSE, elapsed |-> timer.elapsed]
TimerLater(timer, d) ==
    [active |-> timer.active,
     elapsed |-> IF timer.active THEN Later(timer.elapsed, d) ELSE timer.elapsed]

-----------------------------------------------------------------------------
MorphModes == {"set", "steps", "time"}

Morphs ==
    [mode : MorphModes, rate : 0..FULL, steps : StepCounts \cup {0}, stepsdone : 0..FULL + 1,
     morphtime : Times \cup {0}, timer : Timers]

visual_morph_new ==
    [mode |-> "set", rate |-> 0, steps |-> 0, stepsdone |-> 0, morphtime |-> 0,
     timer |-> visual_timer_init]

\* What visual_bin_switch_actor sets when a switch begins: rate, mode, time and
\* number of steps, but neither the steps done nor the timer.
Prepared(m, plan) ==
    [mode |-> plan.mode, rate |-> 0, steps |-> plan.steps, stepsdone |-> m.stepsdone,
     morphtime |-> plan.time, timer |-> m.timer]

\* "if (morph->rate > 1.0) morph->rate = 1"
Cut(rate) == IF rate > FULL THEN FULL ELSE rate

\* A slip: 1 / steps in whole numbers.
WholeIncrement(steps) == IF steps = 1 THEN FULL ELSE 0

\* 1.0 / 0 is infinite and cut to 1 in the first frame.
Increment(steps) == IF steps = 0 THEN FULL ELSE FULL \div steps

\* A slip: the timer is started in every frame.
RestartedTimer(m) == visual_timer_start(m.timer)

\* Started in every mode, and only stopped by a timed morph that is done.
StartedTimer(m) == IF m.timer.active THEN m.timer ELSE visual_timer_start(m.timer)

\* The rate after a frame, when the timer shows elapsed.
RateAfter(m, elapsed) ==
    CASE m.mode = "set"   -> m.rate
      [] m.mode = "steps" -> Cut(m.rate + Increment(m.steps))
      [] m.mode = "time"  -> Cut((elapsed * FULL) \div m.morphtime)

\* One step more.  Counts above FULL are above every number of steps, and are
\* not told apart.
NextStep(stepsdone) == IF stepsdone > FULL THEN stepsdone ELSE stepsdone + 1

\* visual_morph_run, with time d between its two looks at the clock.
visual_morph_run(m, d) ==
    LET timer == TimerLater(StartedTimer(m), d)
    IN  [mode |-> m.mode, rate |-> RateAfter(m, timer.elapsed), steps |-> m.steps,
         stepsdone |-> IF m.mode = "steps" THEN NextStep(m.stepsdone) ELSE m.stepsdone,
         morphtime |-> m.morphtime, timer |-> timer]

\* A slip: only the rate is looked at.
DoneByRate(m) == m.mode # "set" /\ m.rate >= FULL

\* A slip: the steps are counted in every mode.
DoneBySteps(m) == m.mode # "set" /\ (m.rate >= FULL \/ m.steps = m.stepsdone)

\* The answer of visual_morph_is_done; the second part is the one "to be sure".
IsDone(m) ==
    /\ m.mode # "set"
    /\ m.rate >= FULL \/ (m.mode = "steps" /\ m.steps = m.stepsdone)

\* A slip: asking a timed morph stops its timer, done or not.
AskingStops(m) ==
    [m EXCEPT !.timer = IF m.mode = "time" THEN visual_timer_stop(@) ELSE @]

\* What visual_morph_is_done leaves of the morph: a full rate stops the timer of
\* a timed morph and forgets the steps of one that counts them.
visual_morph_is_done(m) ==
    [mode |-> m.mode, rate |-> m.rate, steps |-> m.steps,
     stepsdone |-> IF m.mode = "steps" /\ m.rate >= FULL THEN 0 ELSE m.stepsdone,
     morphtime |-> m.morphtime,
     timer |-> IF m.mode = "time" /\ m.rate >= FULL THEN visual_timer_stop(m.timer) ELSE m.timer]
=============================================================================
