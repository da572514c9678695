---------------------------- MODULE VisMorphProofs ----------------------------
(***************************************************************************)
(* Proofs about VisMorphSwitch, for every number of steps, every time and  *)
(* every resolution of the rate.                                           *)
(***************************************************************************)
EXTENDS VisMorphSwitch, TLAPS

(* Arithmetic of rates.                                                    *)

LEMMA ProductMonotone ==
    ASSUME NEW a \in Nat, NEW b \in Nat, NEW c \in Nat, a <= b
    PROVE  a * c <= b * c
<1>1. b = a + (b - a) /\ b - a \in Nat
  OBVIOUS
<1>2. (a + (b - a)) * c = a * c + (b - a) * c
  OBVIOUS
<1>3. (b - a) * c \in Nat
  BY <1>1
<1> QED BY <1>1, <1>2, <1>3

LEMMA DivisionBounds ==
    ASSUME NEW a \in Nat, NEW b \in Nat \ {0}
    PROVE  /\ a \div b \in Nat
           /\ b * (a \div b) <= a
           /\ a < b * (a \div b) + b
           /\ a % b = a - b * (a \div b)
OBVIOUS

LEMMA DivisionReaches ==
    ASSUME NEW e \in Nat, NEW t \in Nat \ {0}, FULL \in Nat \ {0}
    PROVE  (e * FULL) \div t \in Nat /\ ((e * FULL) \div t >= FULL <=> e >= t)
<1> DEFINE q == (e * FULL) \div t
<1>0. e * FULL \in Nat
  OBVIOUS
<1>1. q \in Nat /\ t * q <= e * FULL /\ e * FULL < t * q + t
  BY <1>0, DivisionBounds
<1>2. ASSUME e >= t, q < FULL PROVE FALSE
  <2>1. t * FULL <= e * FULL
    BY <1>2, ProductMonotone
  <2>2. (q + 1) * t <= FULL * t
    BY <1>1, <1>2, ProductMonotone
  <2>3. (q + 1) * t = t * q + t /\ FULL * t = t * FULL
    BY <1>1
  <2> QED BY <1>0, <1>1, <2>1, <2>2, <2>3
<1>3. ASSUME e < t, q >= FULL PROVE FALSE
  <2>1. FULL * t <= q * t
    BY <1>1, <1>3, ProductMonotone
  <2>2. (e + 1) * FULL <= t * FULL
    BY <1>3, ProductMonotone
  <2>3. (e + 1) * FULL = e * FULL + FULL /\ FULL * t = t * FULL /\ q * t = t * q
    BY <1>1
  <2> QED BY <1>0, <1>1, <2>1, <2>2, <2>3
<1> QED BY <1>1, <1>2, <1>3

\* Fewer steps than n stay below FULL, n + 1 reach it.
LEMMA StepsReach ==
    ASSUME NEW n \in StepCounts \ {0}
    PROVE  /\ Increment(n) \in Nat \ {0}
           /\ \A f \in Nat : f < n => f * Increment(n) < FULL
           /\ \A f \in Nat : f > n => f * Increment(n) >= FULL
<1> DEFINE i == FULL \div n
<1>1. n \in Nat \ {0} /\ FULL \in Nat \ {0} /\ n <= FULL /\ FULL % n <= i
  BY RateAssumption
<1>2. i \in Nat /\ n * i <= FULL /\ FULL < n * i + n /\ FULL % n = FULL - n * i
  BY <1>1, DivisionBounds
<1>3. i # 0
  <2>1. ASSUME i = 0 PROVE FALSE
    BY <1>1, <1>2, <2>1
  <2> QED BY <2>1
<1>4. ASSUME NEW f \in Nat, f < n PROVE f * i < FULL
  <2>1. (f + 1) * i <= n * i
    BY <1>1, <1>2, <1>4, ProductMonotone
  <2>2. (f + 1) * i = f * i + i /\ f * i \in Nat
    BY <1>2
  <2> QED BY <1>1, <1>2, <1>3, <2>1, <2>2
<1>5. ASSUME NEW f \in Nat, f > n PROVE f * i >= FULL
  <2>1. (n + 1) * i <= f * i
    BY <1>1, <1>2, <1>5, ProductMonotone
  <2>2. (n + 1) * i = n * i + i /\ n * i \in Nat
    BY <1>1, <1>2
  <2> QED BY <1>1, <1>2, <2>1, <2>2
<1>6. Increment(n) = i
  BY DEF Increment
<1> QED BY <1>2, <1>3, <1>4, <1>5, <1>6

LEMMA DivisionMonotone ==
    ASSUME NEW a \in Nat, NEW b \in Nat, NEW t \in Nat \ {0}, a <= b
    PROVE  a \div t <= b \div t
<1>1. /\ a \div t \in Nat /\ t * (a \div t) <= a
      /\ b \div t \in Nat /\ b < t * (b \div t) + t
  BY DivisionBounds
<1>2. ASSUME b \div t + 1 <= a \div t PROVE FALSE
  <2>1. (b \div t + 1) * t <= (a \div t) * t
    BY <1>1, <1>2, ProductMonotone
  <2>2. (b \div t + 1) * t = t * (b \div t) + t /\ (a \div t) * t = t * (a \div t)
    BY <1>1
  <2> QED BY <1>1, <2>1, <2>2
<1> QED BY <1>1, <1>2

LEMMA TimesPositive == \A t \in Times : t \in Nat \ {0}
BY TimeAssumption

LEMMA LaterBounds ==
    ASSUME NEW e \in 0..Longest, NEW d \in Nat
    PROVE  Later(e, d) \in 0..Longest /\ e <= Later(e, d)
BY TimeAssumption DEF Later

LEMMA CutBounds ==
    ASSUME NEW r \in Nat
    PROVE  Cut(r) \in 0..FULL /\ Cut(r) <= r /\ (Cut(r) >= FULL <=> r >= FULL)
BY RateAssumption DEF Cut

-----------------------------------------------------------------------------
(* Types.                                                                    *)

\* A morph that follows the clock has been given a time.
TypeInv ==
    /\ TypeOK
    /\ morph # NULL /\ morph.mode = "time" => morph.morphtime \in Times
    /\ switching => morph # NULL

\* The record of a morph, field by field.
MorphTyped(m) ==
    /\ m.mode \in MorphModes /\ m.rate \in 0..FULL /\ m.steps \in StepCounts \cup {0}
    /\ m.stepsdone \in 0..FULL + 1 /\ m.morphtime \in Times \cup {0}
    /\ m.timer \in Timers
    /\ m.mode = "time" => m.morphtime \in Times

LEMMA NewMorph == visual_morph_new \in Morphs /\ MorphTyped(visual_morph_new) /\ NULL # visual_morph_new
<1>1. visual_timer_init \in Timers
  BY TimeAssumption DEF visual_timer_init, Timers
<1>2. visual_morph_new \in Morphs
  BY <1>1, RateAssumption DEF visual_morph_new, Morphs, MorphModes
<1> QED BY <1>1, <1>2, NullAssumption, RateAssumption DEF visual_morph_new, MorphTyped, MorphModes

LEMMA PreparedMorph ==
    ASSUME NEW m \in Morphs, NEW p \in Plans
    PROVE  Prepared(m, p) \in Morphs /\ MorphTyped(Prepared(m, p))
BY RateAssumption DEF Prepared, Morphs, Plans, MorphTyped

LEMMA TimerTypes ==
    ASSUME NEW t \in Timers, NEW d \in Nat
    PROVE  /\ visual_timer_start(t) \in Timers /\ visual_timer_stop(t) \in Timers
           /\ TimerLater(t, d) \in Timers
           /\ TimerLater(t, d).active = t.active
           /\ t.elapsed <= TimerLater(t, d).elapsed
BY LaterBounds, TimeAssumption DEF Timers, visual_timer_start, visual_timer_stop, TimerLater, Later

\* A frame leaves a morph, and its rate is what its mode says.
LEMMA RunMorph ==
    ASSUME NEW m \in Morphs, MorphTyped(m), NEW d \in Nat
    PROVE  LET r == visual_morph_run(m, d)
           IN  /\ r \in Morphs /\ MorphTyped(r)
               /\ r.mode = m.mode /\ r.steps = m.steps /\ r.morphtime = m.morphtime
<1> DEFINE timer == TimerLater(StartedTimer(m), d)
           r == visual_morph_run(m, d)
<1>1. StartedTimer(m) \in Timers /\ timer \in Timers
  BY TimerTypes DEF StartedTimer, MorphTyped
<1>2. timer.elapsed \in Nat
  BY <1>1, TimeAssumption DEF Timers
<1>3. RateAfter(m, timer.elapsed) \in 0..FULL
  <2>1. CASE m.mode = "set"
    BY <2>1 DEF RateAfter, MorphTyped
  <2>2. CASE m.mode = "steps"
    <3>1. Increment(m.steps) \in Nat
      BY StepsReach, RateAssumption DEF Increment, MorphTyped
    <3>2. m.rate + Increment(m.steps) \in Nat
      BY <3>1, RateAssumption DEF MorphTyped
    <3> QED BY <2>2, <3>2, CutBounds DEF RateAfter
  <2>3. CASE m.mode = "time"
    <3>1. m.morphtime \in Nat \ {0}
      <4>1. m.morphtime \in Times
        BY <2>3 DEF MorphTyped
      <4> QED BY <4>1, TimesPositive
    <3>2. (timer.elapsed * FULL) \div m.morphtime \in Nat
      BY <1>2, <3>1, DivisionReaches, RateAssumption
    <3> QED BY <2>3, <3>2, CutBounds DEF RateAfter
  <2> QED BY <2>1, <2>2, <2>3 DEF MorphTyped, MorphModes
<1>4. r.stepsdone \in 0..FULL + 1
  BY RateAssumption DEF visual_morph_run, NextStep, MorphTyped
<1>5. r.rate = RateAfter(m, timer.elapsed) /\ r.timer = timer
  BY DEF visual_morph_run
<1>6. r.mode = m.mode /\ r.steps = m.steps /\ r.morphtime = m.morphtime
  BY DEF visual_morph_run
<1>7. MorphTyped(r)
  BY <1>1, <1>3, <1>4, <1>5, <1>6 DEF MorphTyped
<1>8. r \in Morphs
  BY <1>1, <1>3, <1>4, <1>5, <1>6 DEF MorphTyped, Morphs, visual_morph_run
<1> QED BY <1>6, <1>7, <1>8

LEMMA AskMorph ==
    ASSUME NEW m \in Morphs, MorphTyped(m)
    PROVE  LET r == visual_morph_is_done(m)
           IN  /\ r \in Morphs /\ MorphTyped(r)
               /\ r.mode = m.mode /\ r.steps = m.steps /\ r.morphtime = m.morphtime
               /\ r.rate = m.rate
BY TimerTypes, RateAssumption DEF visual_morph_is_done, Morphs, MorphTyped

LEMMA WaitMorph ==
    ASSUME NEW m \in Morphs, MorphTyped(m)
    PROVE  LET r == [m EXCEPT !.timer = TimerLater(@, 1)]
           IN  /\ r \in Morphs /\ MorphTyped(r)
               /\ r.mode = m.mode /\ r.steps = m.steps /\ r.morphtime = m.morphtime
               /\ r.rate = m.rate /\ r.stepsdone = m.stepsdone
               /\ r.timer = TimerLater(m.timer, 1)
<1>1. TimerLater(m.timer, 1) \in Timers
  BY TimerTypes DEF MorphTyped
<1> QED BY <1>1 DEF MorphTyped, Morphs

LEMMA TypeInit == Init => TypeInv
<1> SUFFICES ASSUME Init PROVE TypeInv
  OBVIOUS
<1>1. plan \in Plans /\ morph = NULL
  BY DEF Init
<1>2. managed \in BOOLEAN /\ switching \in BOOLEAN /\ used \in BOOLEAN /\ again \in BOOLEAN
  BY Zenon DEF Init
<1>3. frames \in 0..FULL + 1 /\ age \in 0..Longest /\ shown \in 0..age
  BY RateAssumption, TimeAssumption DEF Init
<1> QED BY <1>1, <1>2, <1>3 DEF Init, TypeInv, TypeOK

LEMMA TypeNext == TypeInv /\ [Next]_vars => TypeInv'
<1> SUFFICES ASSUME TypeInv, [Next]_vars PROVE TypeInv'
  OBVIOUS
<1>0. /\ managed \in BOOLEAN /\ switching \in BOOLEAN /\ used \in BOOLEAN /\ again \in BOOLEAN
      /\ morph \in Morphs \cup {NULL} /\ plan \in Plans
      /\ frames \in 0..FULL + 1 /\ age \in 0..Longest /\ shown \in 0..age
      /\ ended \in {"none", "done", "finalized"}
      /\ FULL \in Nat \ {0} /\ Longest \in Nat
  BY RateAssumption, TimeAssumption DEF TypeInv, TypeOK
<1>m. morph # NULL => morph \in Morphs /\ MorphTyped(morph)
  BY DEF TypeInv, TypeOK, Morphs, MorphTyped
<1>s. switching => morph # NULL
  BY DEF TypeInv
<1>t. ASSUME NEW m \in Morphs, MorphTyped(m), morph' \in {m, NULL},
             switching' = FALSE \/ (switching' = TRUE /\ morph' = m)
      PROVE  /\ morph' \in Morphs \cup {NULL}
             /\ morph' # NULL /\ morph'.mode = "time" => morph'.morphtime \in Times
             /\ switching' => morph' # NULL
  BY <1>t, NullAssumption DEF MorphTyped
<1>1. CASE visual_bin_set_morph \/ visual_bin_set_morph_by_name
  BY <1>0, <1>1, NewMorph DEF visual_bin_set_morph, visual_bin_set_morph_by_name, history,
       TypeInv, TypeOK, MorphTyped
<1>2. ASSUME NEW p \in Plans, visual_bin_switch_actor(p) PROVE TypeInv'
  <2>1. morph' \in Morphs /\ MorphTyped(morph') /\ morph' # NULL
    BY <1>m, <1>2, PreparedMorph, NullAssumption DEF visual_bin_switch_actor
  <2> QED BY <1>0, <1>2, <2>1 DEF visual_bin_switch_actor, TypeInv, TypeOK, MorphTyped
<1>3. ASSUME NEW d \in {0, 1}, visual_bin_run(d) PROVE TypeInv'
  <2> DEFINE r == visual_morph_run(morph, d)
             m == visual_morph_is_done(r)
  <2>1. m \in Morphs /\ MorphTyped(m)
    BY <1>3, <1>m, <1>s, RunMorph, AskMorph DEF visual_bin_run
  <2>2. morph' \in {m, NULL} /\ (switching' = FALSE \/ (switching' = TRUE /\ morph' = m))
    <3>1. CASE IsDone(r)
      BY <1>3, <3>1 DEF visual_bin_run, Finalized
    <3>2. CASE ~IsDone(r)
      <4>1. switching /\ switching' = switching /\ morph' = m
        BY <1>3, <3>2 DEF visual_bin_run
      <4>2. switching' = TRUE
        BY <1>0, <4>1, Zenon
      <4> QED BY <4>1, <4>2
    <3> QED BY <3>1, <3>2
  <2>3. age' \in 0..Longest /\ shown' \in 0..age' /\ frames' \in 0..FULL + 1
    <3>1. Later(age, d) \in 0..Longest
      BY <1>0, LaterBounds
    <3>2. frames' \in 0..FULL + 1
      BY <1>0, <1>3 DEF visual_bin_run, NextStep
    <3>3. age' = Later(age, d) /\ shown' = Later(age, d)
      BY <1>3 DEF visual_bin_run
    <3> QED BY <1>0, <3>1, <3>2, <3>3
  <2>4. /\ UNCHANGED <<managed, plan, used, again>>
        /\ switching' \in BOOLEAN /\ ended' \in {"none", "done", "finalized"}
    BY <1>0, <1>3 DEF visual_bin_run, Finalized
  <2> QED BY <1>0, <1>t, <2>1, <2>2, <2>3, <2>4 DEF TypeInv, TypeOK
<1>4. CASE visual_bin_switch_finalize
  <2>1. morph' \in {morph, NULL} /\ switching' = FALSE
    BY <1>4 DEF visual_bin_switch_finalize, Finalized
  <2> QED BY <1>0, <1>4, <1>m, <1>s, <1>t, <2>1 DEF visual_bin_switch_finalize, TypeInv, TypeOK
<1>5. ASSUME NEW r \in 0..FULL, visual_morph_set_rate(r) PROVE TypeInv'
  <2>1. morph' \in Morphs /\ MorphTyped(morph') /\ morph' # NULL
    BY <1>5, <1>m, <1>s, NullAssumption DEF visual_morph_set_rate, Morphs, MorphTyped
  <2> QED BY <1>0, <1>5, <2>1 DEF visual_morph_set_rate, history, TypeInv, TypeOK, MorphTyped
<1>6. CASE Wait
  <2>1. morph # NULL => morph' \in Morphs /\ MorphTyped(morph') /\ morph' # NULL
    BY <1>6, <1>m, WaitMorph, NullAssumption DEF Wait
  <2>2. age' \in 0..Longest /\ shown' \in 0..age'
    BY <1>0, <1>6, LaterBounds DEF Wait
  <2> QED BY <1>0, <1>6, <1>s, <2>1, <2>2 DEF Wait, TypeInv, TypeOK, MorphTyped
<1>7. CASE UNCHANGED vars
  BY <1>0, <1>7 DEF vars, TypeInv, TypeOK
<1> QED BY <1>1, <1>2, <1>3, <1>4, <1>5, <1>6, <1>7 DEF Next, Frame

LEMMA Types == Spec => []TypeInv
BY TypeInit, TypeNext, PTL DEF Spec

\* Every variable keeps its type: among others, the rate that plugins are handed
\* stays between 0 and 1 (lv_morph.c:327 and 343).
THEOREM MorphTypes == Spec => []TypeOK
<1>1. TypeInv => TypeOK
  BY DEF TypeInv
<1> QED BY <1>1, Types, PTL

-----------------------------------------------------------------------------
(* How far a morph is.                                                       *)

\* During a switch the morph is set to what the switch asked for.
AsPlanned ==
    switching => /\ morph.mode = plan.mode /\ morph.steps = plan.steps
                 /\ morph.morphtime = plan.time /\ ended = "none" /\ used

\* The rate counts the frames; the steps done do so in a new morph only.
StepsFollow ==
    switching /\ plan.mode = "steps" =>
       /\ morph.rate = frames * Increment(plan.steps) /\ morph.rate < FULL
       /\ ~again => morph.stepsdone = frames /\ frames < Steps

\* From the first frame the timer runs, and shows at least the age of the
\* switch; in a new morph it shows no more.
TimerFollows ==
    switching /\ plan.mode = "time" =>
       /\ frames = 0 => morph.rate = 0 /\ age = 0
       /\ frames > 0 => /\ morph.timer.active /\ age <= morph.timer.elapsed
                        /\ shown < plan.time
                        /\ morph.rate <= (morph.timer.elapsed * FULL) \div plan.time
       /\ ~again /\ frames = 0 => ~morph.timer.active
       /\ ~again /\ frames > 0 => morph.timer.elapsed = age

\* A new morph has done no steps and its timer is off.
Unused == morph # NULL /\ ~used => morph.stepsdone = 0 /\ ~morph.timer.active

MorphInvariant ==
    /\ TypeInv
    /\ AsPlanned /\ StepsFollow /\ TimerFollows /\ Unused
    /\ FreshSteps /\ FreshTime /\ NeverLate

\* A frame of a morph that counts steps.
LEMMA FrameSteps ==
    ASSUME MorphInvariant, NEW d \in {0, 1}, visual_bin_run(d), plan.mode = "steps"
    PROVE  StepsFollow' /\ FreshSteps' /\ (NeverLate)'
<1> DEFINE r == visual_morph_run(morph, d)
           inc == Increment(plan.steps)
<1>0. /\ switching /\ morph # NULL /\ morph \in Morphs /\ MorphTyped(morph)
      /\ morph.mode = "steps" /\ morph.steps = plan.steps
      /\ morph.rate = frames * inc /\ morph.rate < FULL
      /\ ~again => morph.stepsdone = frames /\ frames < Steps
      /\ frames \in Nat /\ plan.steps \in StepCounts /\ frames <= Steps
      /\ UNCHANGED <<plan, again>>
  BY RateAssumption DEF MorphInvariant, TypeInv, TypeOK, AsPlanned, StepsFollow, NeverLate,
       Plans, visual_bin_run, MorphTyped, Morphs
<1>1. /\ inc \in Nat \ {0} /\ Steps \in Nat \ {0} /\ Steps <= FULL /\ FULL \in Nat
      /\ \A f \in Nat : f < Steps => f * inc < FULL
      /\ \A f \in Nat : f > Steps => f * inc >= FULL
      /\ plan.steps = 0 => inc = FULL
  <2>1. CASE plan.steps = 0
    <3>1. inc = FULL /\ Steps = 1
      BY <2>1 DEF Increment, Steps
    <3>2. \A f \in Nat : f > 1 => f * FULL >= FULL
      <4>1. ASSUME NEW f \in Nat, f > 1 PROVE f * FULL >= FULL
        <5>1. 1 * FULL <= f * FULL
          BY <4>1, RateAssumption, ProductMonotone
        <5> QED BY <5>1, RateAssumption
      <4> QED BY <4>1
    <3> QED BY <2>1, <3>1, <3>2, RateAssumption
  <2>2. CASE plan.steps # 0
    BY <1>0, <2>2, StepsReach, RateAssumption DEF Steps
  <2> QED BY <2>1, <2>2
<1>2. /\ r.mode = "steps" /\ r.rate = Cut(morph.rate + inc) /\ r.steps = plan.steps
      /\ r.stepsdone = NextStep(morph.stepsdone)
  BY <1>0 DEF visual_morph_run, RateAfter
<1>3. frames' = frames + 1 /\ frames' \in Nat
  BY <1>0, <1>1 DEF visual_bin_run, NextStep
<1>4. morph.rate + inc = frames' * inc /\ frames' * inc \in Nat
  BY <1>0, <1>1, <1>3
<1>5. (r.rate >= FULL <=> frames' * inc >= FULL) /\ (r.rate < FULL => r.rate = frames' * inc)
  BY <1>1, <1>2, <1>4 DEF Cut
<1>6. ~again => r.stepsdone = frames'
  BY <1>0, <1>1, <1>2, <1>3 DEF NextStep
<1>7. Steps' = Steps
  BY <1>0 DEF Steps
<1>8. CASE IsDone(r)
  <2>1. ~switching' /\ ended' = "done"
    BY <1>8 DEF visual_bin_run, Finalized
  <2>2. r.rate >= FULL \/ r.stepsdone = plan.steps
    BY <1>2, <1>8 DEF IsDone
  <2>3. ~again => frames' = Steps
    <3>1. ASSUME ~again, r.rate >= FULL PROVE frames' = Steps
      <4>1. ~(frames' < Steps)
        BY <1>1, <1>3, <1>5, <3>1
      <4> QED BY <1>0, <1>1, <1>3, <3>1, <4>1
    <3>2. ASSUME ~again, r.stepsdone = plan.steps PROVE frames' = Steps
      BY <1>3, <1>6, <1>0, <3>2 DEF Steps
    <3> QED BY <2>2, <3>1, <3>2
  <2>4. frames' <= Steps + 1
    BY <1>0, <1>1, <1>3
  <2> QED BY <1>0, <1>7, <2>1, <2>3, <2>4 DEF StepsFollow, FreshSteps, StepsTaken, NeverLate
<1>9. CASE ~IsDone(r)
  <2>1. switching' /\ morph' = visual_morph_is_done(r) /\ ended' = "none"
    BY <1>0, <1>9 DEF visual_bin_run, MorphInvariant, AsPlanned
  <2>2. r.rate < FULL /\ r.stepsdone # plan.steps
    <3>1. r.rate \in Nat
      BY <1>1, <1>2, <1>4 DEF Cut
    <3> QED BY <1>1, <1>2, <1>9, <3>1 DEF IsDone
  <2>3. morph'.rate = r.rate /\ morph'.stepsdone = r.stepsdone
    <3>1. r.rate \in Nat
      BY <1>1, <1>2, <1>4 DEF Cut
    <3>2. ~(r.rate >= FULL)
      BY <1>1, <2>2, <3>1
    <3> HIDE DEF r
    <3> QED BY <2>1, <3>2 DEF visual_morph_is_done
  <2>4. morph'.rate = frames' * inc /\ frames' <= Steps
    <3>1. ~(frames' > Steps)
      BY <1>1, <1>3, <1>5, <2>2
    <3> QED BY <1>1, <1>3, <1>5, <2>2, <2>3, <3>1
  <2>5. ~again => frames' < Steps
    <3>1. plan.steps = 0 => FALSE
      <4>1. ASSUME plan.steps = 0 PROVE FALSE
        <5>1. 1 * FULL <= frames' * FULL
          BY <1>0, <1>1, <1>3, ProductMonotone
        <5>2. inc = FULL
          BY <1>1, <4>1
        <5>3. frames' * inc = frames' * FULL /\ frames' * inc < FULL
          BY <1>1, <1>3, <1>5, <2>2, <2>4, <5>2
        <5> QED BY <1>1, <1>4, <5>1, <5>3
      <4> QED BY <4>1
    <3>2. ~again => frames' # plan.steps
      BY <1>6, <2>2
    <3> QED BY <1>1, <1>3, <2>4, <3>1, <3>2 DEF Steps
  <2>6. StepsFollow'
    BY <1>0, <1>6, <1>7, <2>2, <2>3, <2>4, <2>5 DEF StepsFollow
  <2> QED BY <1>0, <1>1, <1>3, <1>7, <2>1, <2>4, <2>5, <2>6 DEF FreshSteps, StepsTaken, NeverLate
<1> QED BY <1>8, <1>9

\* The timer in a frame: it runs, and shows at least the age of the switch.
LEMMA FrameTimer ==
    ASSUME MorphInvariant, NEW d \in {0, 1}, switching, plan.mode = "time"
    PROVE  LET timer == TimerLater(StartedTimer(morph), d)
           IN  /\ timer \in Timers /\ timer.active
               /\ Later(age, d) <= timer.elapsed
               /\ ~again => timer.elapsed = Later(age, d)
               /\ frames > 0 => morph.timer.elapsed <= timer.elapsed
<1> DEFINE started == StartedTimer(morph)
           timer == TimerLater(started, d)
<1>a. /\ morph # NULL /\ morph \in Morphs /\ age \in 0..Longest
      /\ frames \in Nat /\ Longest \in Nat
  BY RateAssumption, TimeAssumption DEF MorphInvariant, TypeInv, TypeOK
<1>b. morph.timer \in Timers
  BY <1>a DEF Morphs
<1>0. /\ morph.timer \in Timers /\ age \in 0..Longest /\ frames \in Nat /\ Longest \in Nat
      /\ frames > 0 => morph.timer.active /\ age <= morph.timer.elapsed
      /\ ~again /\ frames = 0 => ~morph.timer.active
      /\ ~again /\ frames > 0 => morph.timer.elapsed = age
      /\ frames = 0 => age = 0
  BY <1>a, <1>b DEF MorphInvariant, TimerFollows
<1>1. started \in Timers /\ started.active
  BY <1>0, TimerTypes, TimeAssumption DEF StartedTimer, visual_timer_start, Timers
<1>2. age <= started.elapsed /\ (~again => started.elapsed = age)
  BY <1>0, TimeAssumption DEF StartedTimer, visual_timer_start, Timers
<1>3. frames > 0 => started = morph.timer
  BY <1>0 DEF StartedTimer
<1>4. timer.elapsed = Later(started.elapsed, d) /\ timer.active /\ timer \in Timers
  BY <1>1, TimerTypes DEF TimerLater
<1>5. started.elapsed \in 0..Longest
  BY <1>1 DEF Timers
<1>6. Later(age, d) <= Later(started.elapsed, d) /\ started.elapsed <= Later(started.elapsed, d)
  BY <1>0, <1>2, <1>5 DEF Later
<1>7. timer = TimerLater(StartedTimer(morph), d)
  OBVIOUS
<1>8. /\ Later(age, d) <= timer.elapsed
      /\ ~again => timer.elapsed = Later(age, d)
      /\ frames > 0 => morph.timer.elapsed <= timer.elapsed
  <2> HIDE DEF started, timer
  <2> QED BY <1>2, <1>3, <1>4, <1>6
<1> QED BY <1>4, <1>8

\* A frame of a morph that follows the clock.
LEMMA FrameTime ==
    ASSUME MorphInvariant, NEW d \in {0, 1}, visual_bin_run(d), plan.mode = "time"
    PROVE  /\ TimerFollows' /\ FreshTime' /\ NeverLate'
           /\ switching' => morph'.rate >= morph.rate
<1> DEFINE timer == TimerLater(StartedTimer(morph), d)
           r == visual_morph_run(morph, d)
           t == plan.time
           quotient == (timer.elapsed * FULL) \div t
<1>0. /\ switching /\ morph # NULL /\ morph \in Morphs /\ MorphTyped(morph)
      /\ morph.mode = "time" /\ morph.morphtime = t /\ t \in Times
      /\ frames \in 0..FULL + 1 /\ age \in 0..Longest
      /\ frames = 0 => morph.rate = 0
      /\ UNCHANGED <<plan, again>> /\ age' = Later(age, d) /\ shown' = Later(age, d)
  BY DEF MorphInvariant, TypeInv, TypeOK, AsPlanned, TimerFollows, Plans, visual_bin_run,
       MorphTyped, Morphs
<1>1. /\ timer \in Timers /\ timer.active /\ age' <= timer.elapsed
      /\ ~again => timer.elapsed = age'
      /\ frames > 0 => morph.timer.elapsed <= timer.elapsed
  BY <1>0, FrameTimer
<1>2. timer.elapsed \in Nat /\ t \in Nat \ {0} /\ age' \in 0..Longest /\ age' \in Nat
      /\ FULL \in Nat \ {0} /\ Longest \in Nat
  <2>1. timer.elapsed \in 0..Longest
    <3> HIDE DEF timer
    <3> QED BY <1>1 DEF Timers
  <2>2. Later(age, d) \in 0..Longest
    BY <1>0, LaterBounds
  <2>3. Longest \in Nat /\ FULL \in Nat \ {0}
    BY TimeAssumption, RateAssumption
  <2>4. t \in Nat \ {0} /\ age' = Later(age, d)
    BY <1>0, TimesPositive
  <2> HIDE DEF timer, t
  <2> QED BY <2>1, <2>2, <2>3, <2>4
<1>3. quotient \in Nat /\ (quotient >= FULL <=> timer.elapsed >= t)
  BY <1>2, DivisionReaches
<1>4. r.mode = "time" /\ r.rate = Cut(quotient) /\ r.timer = timer
  BY <1>0 DEF visual_morph_run, RateAfter
<1>5. r.rate \in 0..FULL /\ r.rate <= quotient /\ (r.rate >= FULL <=> timer.elapsed >= t)
  BY <1>3, <1>4, CutBounds
<1>6. frames' \in Nat \ {0}
  BY <1>0, <1>2 DEF visual_bin_run, NextStep
<1>7. CASE IsDone(r)
  <2>1. ~switching' /\ ended' = "done"
    BY <1>7 DEF visual_bin_run, Finalized
  <2>2. timer.elapsed >= t
    BY <1>4, <1>5, <1>7 DEF IsDone
  <2>3. ~again => shown' >= t
    BY <1>0, <1>1, <2>2
  <2> QED BY <1>0, <2>1, <2>3 DEF TimerFollows, FreshTime, TimeTaken, NeverLate
<1>8. CASE ~IsDone(r)
  <2>1. switching' /\ morph' = visual_morph_is_done(r) /\ ended' = "none"
    BY <1>0, <1>8 DEF visual_bin_run, MorphInvariant, AsPlanned
  <2>2. ~(r.rate >= FULL) /\ timer.elapsed < t
    BY <1>2, <1>4, <1>5, <1>8 DEF IsDone
  <2>3. morph'.rate = r.rate /\ morph'.timer = timer
    <3> HIDE DEF r, timer
    <3> QED BY <1>4, <2>1, <2>2 DEF visual_morph_is_done
  <2>4. shown' < t
    BY <1>0, <1>1, <1>2, <2>2
  <2>5. TimerFollows'
    BY <1>0, <1>1, <1>5, <1>6, <2>3, <2>4 DEF TimerFollows
  <2>6. morph.rate <= morph'.rate
    <3>1. CASE frames = 0
      BY <1>0, <1>5, <2>3, <3>1
    <3>2. CASE frames > 0
      <4>1. morph.rate <= (morph.timer.elapsed * FULL) \div t
        BY <1>0, <3>2 DEF MorphInvariant, TimerFollows
      <4>2. morph.timer.elapsed \in Nat
        BY <1>0 DEF MorphTyped, Timers
      <4>3. morph.timer.elapsed * FULL <= timer.elapsed * FULL
        BY <1>1, <1>2, <3>2, <4>2, ProductMonotone
      <4>4. morph.timer.elapsed * FULL \in Nat /\ timer.elapsed * FULL \in Nat
        BY <1>2, <4>2
      <4>5. (morph.timer.elapsed * FULL) \div t <= quotient
        BY <1>2, <4>3, <4>4, DivisionMonotone
      <4>6. morph.rate \in 0..FULL /\ (morph.timer.elapsed * FULL) \div t \in Nat
        BY <1>0, <1>2, <4>4, DivisionBounds DEF MorphTyped
      <4> QED BY <1>2, <1>3, <1>4, <1>5, <2>2, <2>3, <4>1, <4>5, <4>6 DEF Cut
    <3> QED BY <1>0, <1>2, <3>1, <3>2
  <2>7. morph'.rate >= morph.rate
    BY <1>0, <1>2, <1>5, <2>3, <2>6 DEF MorphTyped
  <2> QED BY <1>0, <2>1, <2>4, <2>5, <2>7 DEF FreshTime, TimeTaken, NeverLate
<1> QED BY <1>7, <1>8

\* A frame keeps what the switch asked for, and makes no new morph.
LEMMA FramePlan ==
    ASSUME MorphInvariant, NEW d \in {0, 1}, visual_bin_run(d)
    PROVE  AsPlanned' /\ Unused' /\ (plan.mode = "set" => switching' /\ morph'.rate = morph.rate)
<1> DEFINE r == visual_morph_run(morph, d)
<1>0. /\ switching /\ morph # NULL /\ morph \in Morphs /\ MorphTyped(morph) /\ used /\ used' = used
      /\ morph.mode = plan.mode /\ morph.steps = plan.steps /\ morph.morphtime = plan.time
      /\ ended = "none" /\ plan' = plan
  BY DEF MorphInvariant, TypeInv, TypeOK, AsPlanned, visual_bin_run, MorphTyped, Morphs
<1>1. /\ r \in Morphs /\ MorphTyped(r)
      /\ r.mode = plan.mode /\ r.steps = plan.steps /\ r.morphtime = plan.time
  BY <1>0, RunMorph
<1>2. LET m == visual_morph_is_done(r)
      IN  /\ m.mode = plan.mode /\ m.steps = plan.steps /\ m.morphtime = plan.time
          /\ m.rate = r.rate
  BY <1>1, AskMorph
<1>3. ~switching' \/ (morph' = visual_morph_is_done(r) /\ ended' = "none")
  BY <1>0 DEF visual_bin_run, Finalized
<1>4. plan.mode = "set" => switching' /\ morph'.rate = morph.rate
  <2>1. ASSUME plan.mode = "set" PROVE switching' /\ morph'.rate = morph.rate
    <3>1. ~IsDone(r)
      BY <1>1, <2>1 DEF IsDone
    <3>2. switching' /\ morph' = visual_morph_is_done(r)
      BY <1>0, <3>1 DEF visual_bin_run
    <3>3. r.rate = morph.rate
      BY <1>0, <2>1 DEF visual_morph_run, RateAfter
    <3> QED BY <1>2, <3>2, <3>3
  <2> QED BY <2>1
<1> HIDE DEF r
<1> QED BY <1>0, <1>2, <1>3, <1>4 DEF AsPlanned, Unused

LEMMA MorphInit == Init => MorphInvariant
<1> SUFFICES ASSUME Init PROVE MorphInvariant
  OBVIOUS
<1>1. TypeInv
  BY TypeInit
<1>2. ~switching /\ plan.mode = "set" /\ morph = NULL
  BY DEF Init
<1> QED BY <1>1, <1>2 DEF MorphInvariant, AsPlanned, StepsFollow, TimerFollows, Unused,
             FreshSteps, FreshTime, NeverLate, StepsTaken, TimeTaken

LEMMA BeginInvariant ==
    ASSUME MorphInvariant, TypeInv', NEW p \in Plans, visual_bin_switch_actor(p)
    PROVE  MorphInvariant'
<1>0. /\ morph # NULL /\ morph' = Prepared(morph, p) /\ plan' = p /\ used' = TRUE /\ again' = used
      /\ frames' = 0 /\ age' = 0 /\ shown' = 0 /\ ended' = "none" /\ switching' = TRUE
      /\ FULL \in Nat \ {0} /\ p.steps \in Nat /\ StepCounts \subseteq Nat
  BY RateAssumption DEF visual_bin_switch_actor, Plans
<1>1. /\ morph'.mode = p.mode /\ morph'.steps = p.steps /\ morph'.morphtime = p.time
      /\ morph'.rate = 0 /\ morph'.stepsdone = morph.stepsdone /\ morph'.timer = morph.timer
  BY <1>0 DEF Prepared
<1>2. ~again' => morph'.stepsdone = 0 /\ ~morph'.timer.active
  BY <1>0, <1>1 DEF MorphInvariant, Unused
<1>3. Increment(p.steps) \in Nat
  BY <1>0, StepsReach DEF Increment, Plans
<1>4. Steps' \in Nat \ {0}
  BY <1>0 DEF Steps
<1>5. frames' < Steps' /\ frames' <= Steps' /\ frames' <= Steps' + 1
  <2>1. \A s \in Nat \ {0} : 0 < s /\ 0 <= s /\ 0 <= s + 1
    OBVIOUS
  <2>2. frames' = 0
    BY <1>0
  <2> QED BY <1>4, <2>1, <2>2, Zenon
<1>6. StepsFollow'
  BY <1>0, <1>1, <1>2, <1>3, <1>5 DEF StepsFollow
<1>7. TimerFollows' /\ AsPlanned' /\ Unused'
  BY <1>0, <1>1, <1>2 DEF TimerFollows, AsPlanned, Unused
<1>8. FreshSteps' /\ FreshTime' /\ NeverLate'
  BY <1>0, <1>5 DEF FreshSteps, FreshTime, NeverLate, StepsTaken, TimeTaken
<1> QED BY <1>6, <1>7, <1>8 DEF MorphInvariant

LEMMA WaitInvariant ==
    ASSUME MorphInvariant, TypeInv', Wait
    PROVE  MorphInvariant'
<1>0. /\ UNCHANGED <<managed, switching, plan, used, again, frames, shown, ended>>
      /\ age' = IF switching /\ frames > 0 THEN Later(age, 1) ELSE age
      /\ morph = NULL => morph' = NULL
      /\ switching => morph # NULL
      /\ age \in 0..Longest /\ frames \in Nat /\ Longest \in Nat /\ plan \in Plans
  BY RateAssumption, TimeAssumption DEF Wait, MorphInvariant, TypeInv, TypeOK
<1>1. morph # NULL =>
      /\ morph \in Morphs /\ MorphTyped(morph) /\ morph'.mode = morph.mode
      /\ morph'.steps = morph.steps /\ morph'.morphtime = morph.morphtime
      /\ morph'.rate = morph.rate /\ morph'.stepsdone = morph.stepsdone
      /\ morph'.timer = TimerLater(morph.timer, 1)
  <2>1. morph # NULL => morph \in Morphs /\ MorphTyped(morph)
    BY DEF MorphInvariant, TypeInv, TypeOK, Morphs, MorphTyped
  <2> QED BY <2>1, WaitMorph DEF Wait
<1>2. AsPlanned' /\ StepsFollow'
  BY <1>0, <1>1 DEF MorphInvariant, AsPlanned, StepsFollow, Steps
<1>3. Unused'
  BY <1>0, <1>1 DEF MorphInvariant, Unused, TimerLater
<1>4. FreshSteps' /\ FreshTime' /\ NeverLate'
  BY <1>0 DEF MorphInvariant, FreshSteps, FreshTime, NeverLate, StepsTaken, TimeTaken, Steps
<1>5. TimerFollows'
  <2> SUFFICES ASSUME switching, plan.mode = "time" PROVE TimerFollows'
    BY <1>0 DEF TimerFollows
  <2>1. /\ morph.timer \in Timers /\ morph.timer.elapsed \in 0..Longest
        /\ morph'.timer = TimerLater(morph.timer, 1)
        /\ morph'.rate = morph.rate /\ morph.rate \in 0..FULL
    BY <1>0, <1>1 DEF MorphTyped, Timers
  <2>2. CASE frames = 0
    <3>1. ~morph.timer.active => ~morph'.timer.active
      BY <2>1 DEF TimerLater
    <3> QED BY <1>0, <2>1, <2>2, <3>1 DEF MorphInvariant, TimerFollows
  <2>3. CASE frames > 0
    <3>1. /\ morph.timer.active /\ age <= morph.timer.elapsed /\ shown < plan.time
          /\ morph.rate <= (morph.timer.elapsed * FULL) \div plan.time
          /\ ~again => morph.timer.elapsed = age
      BY <2>3 DEF MorphInvariant, TimerFollows
    <3>2. morph'.timer.active /\ morph'.timer.elapsed = Later(morph.timer.elapsed, 1)
      BY <2>1, <3>1 DEF TimerLater
    <3>3. age' = Later(age, 1)
      BY <1>0, <2>3
    <3>4. age' <= morph'.timer.elapsed /\ morph.timer.elapsed <= morph'.timer.elapsed
          /\ morph'.timer.elapsed \in Nat
      BY <1>0, <2>1, <3>1, <3>2, <3>3 DEF Later
    <3>5. morph'.rate <= (morph'.timer.elapsed * FULL) \div plan.time
      <4>1. plan.time \in Nat \ {0} /\ FULL \in Nat \ {0} /\ morph.timer.elapsed \in Nat
        BY <1>0, <2>1, TimesPositive, RateAssumption DEF Plans
      <4>2. morph.timer.elapsed * FULL <= morph'.timer.elapsed * FULL
        BY <3>4, <4>1, ProductMonotone
      <4>3. morph.timer.elapsed * FULL \in Nat /\ morph'.timer.elapsed * FULL \in Nat
        BY <3>4, <4>1
      <4>4. (morph.timer.elapsed * FULL) \div plan.time <= (morph'.timer.elapsed * FULL) \div plan.time
        BY <4>1, <4>2, <4>3, DivisionMonotone
      <4>5. /\ (morph.timer.elapsed * FULL) \div plan.time \in Nat
            /\ (morph'.timer.elapsed * FULL) \div plan.time \in Nat
        BY <4>1, <4>3, DivisionBounds
      <4> QED BY <2>1, <3>1, <4>1, <4>4, <4>5
    <3> QED BY <1>0, <2>3, <3>1, <3>2, <3>3, <3>4, <3>5 DEF TimerFollows
  <2> QED BY <1>0, <2>2, <2>3
<1> QED BY <1>2, <1>3, <1>4, <1>5 DEF MorphInvariant

LEMMA MorphNext == MorphInvariant /\ [Next]_vars => MorphInvariant'
<1> SUFFICES ASSUME MorphInvariant, [Next]_vars PROVE MorphInvariant'
  OBVIOUS
<1>0. TypeInv /\ TypeInv' /\ plan \in Plans /\ plan.mode \in MorphModes
  BY TypeNext DEF MorphInvariant, TypeInv, TypeOK, Plans
<1>1. CASE visual_bin_set_morph \/ visual_bin_set_morph_by_name
  <2>1. ~switching' /\ ~switching /\ UNCHANGED history /\ morph' = visual_morph_new
    BY <1>1 DEF visual_bin_set_morph, visual_bin_set_morph_by_name
  <2>2. Unused'
    BY <2>1 DEF Unused, visual_morph_new, visual_timer_init
  <2> QED BY <1>0, <2>1, <2>2 DEF history, MorphInvariant, AsPlanned, StepsFollow, TimerFollows,
             FreshSteps, FreshTime, NeverLate, StepsTaken, TimeTaken, Steps
<1>2. ASSUME NEW p \in Plans, visual_bin_switch_actor(p) PROVE MorphInvariant'
  BY <1>0, <1>2, BeginInvariant
<1>3. ASSUME NEW d \in {0, 1}, visual_bin_run(d) PROVE MorphInvariant'
  <2>1. AsPlanned' /\ Unused' /\ plan' = plan
    BY <1>3, FramePlan DEF visual_bin_run
  <2>2. CASE plan.mode = "steps"
    <3>1. StepsFollow' /\ FreshSteps' /\ NeverLate'
      BY <1>3, <2>2, FrameSteps
    <3>2. TimerFollows' /\ FreshTime'
      BY <2>1, <2>2 DEF TimerFollows, FreshTime, TimeTaken
    <3> QED BY <1>0, <2>1, <3>1, <3>2 DEF MorphInvariant
  <2>3. CASE plan.mode = "time"
    <3>1. TimerFollows' /\ FreshTime' /\ NeverLate'
      BY <1>3, <2>3, FrameTime
    <3>2. StepsFollow' /\ FreshSteps'
      BY <2>1, <2>3 DEF StepsFollow, FreshSteps, StepsTaken
    <3> QED BY <1>0, <2>1, <3>1, <3>2 DEF MorphInvariant
  <2>4. CASE plan.mode = "set"
    BY <1>0, <2>1, <2>4 DEF MorphInvariant, StepsFollow, TimerFollows, FreshSteps, FreshTime,
         NeverLate, StepsTaken, TimeTaken
  <2> QED BY <1>0, <2>2, <2>3, <2>4 DEF MorphModes
<1>4. CASE visual_bin_switch_finalize
  <2>1. /\ switching /\ ~switching' /\ ended' = "finalized" /\ morph' \in {morph, NULL}
        /\ UNCHANGED <<plan, used, again, frames, age, shown>>
    BY <1>4 DEF visual_bin_switch_finalize, Finalized
  <2>2. Unused'
    BY <2>1 DEF MorphInvariant, Unused
  <2> QED BY <1>0, <2>1, <2>2 DEF MorphInvariant, AsPlanned, StepsFollow, TimerFollows,
             FreshSteps, FreshTime, NeverLate, StepsTaken, TimeTaken, Steps
<1>5. ASSUME NEW r \in 0..FULL, visual_morph_set_rate(r) PROVE MorphInvariant'
  <2>1. /\ switching /\ switching' /\ UNCHANGED <<plan, used, again, frames, age, shown, ended>>
        /\ morph' = [morph EXCEPT !.rate = r] /\ morph.mode = "set" /\ morph \in Morphs
    BY <1>0, <1>5 DEF visual_morph_set_rate, history, TypeInv, TypeOK
  <2>2. morph'.mode = morph.mode /\ morph'.steps = morph.steps /\ morph'.morphtime = morph.morphtime
    BY <2>1 DEF Morphs
  <2>3. plan.mode = "set" /\ used
    BY <2>1 DEF MorphInvariant, AsPlanned
  <2> QED BY <1>0, <2>1, <2>2, <2>3 DEF MorphInvariant, AsPlanned, StepsFollow, TimerFollows, Unused,
             FreshSteps, FreshTime, NeverLate, StepsTaken, TimeTaken
<1>6. CASE Wait
  BY <1>0, <1>6, WaitInvariant
<1>7. CASE UNCHANGED vars
  BY <1>0, <1>7 DEF vars, MorphInvariant, AsPlanned, StepsFollow, TimerFollows, Unused,
       FreshSteps, FreshTime, NeverLate, StepsTaken, TimeTaken, Steps
<1> QED BY <1>1, <1>2, <1>3, <1>4, <1>5, <1>6, <1>7 DEF Next, Frame

LEMMA MorphSafe == Spec => []MorphInvariant
BY MorphInit, MorphNext, PTL DEF Spec

\* FreshSteps: a morph that was not used before is done after exactly the steps
\* it was set to, for every number of steps and every rounding that loses less
\* than a step (lv_morph.c:250-262).
THEOREM StepsExact == Spec => []FreshSteps
<1>1. MorphInvariant => FreshSteps
  BY DEF MorphInvariant
<1> QED BY <1>1, MorphSafe, PTL

\* FreshTime: such a morph is done in the first frame after its time, for every
\* time and however unevenly frames come (lv_morph.c:306-345).
THEOREM TimeExact == Spec => []FreshTime
<1>1. MorphInvariant => FreshTime
  BY DEF MorphInvariant
<1> QED BY <1>1, MorphSafe, PTL

\* NeverLate: whatever a morph was used for before, it is late by at most a
\* frame (lv_morph.c:243-265).
THEOREM LateByAFrame == Spec => []NeverLate
<1>1. MorphInvariant => NeverLate
  BY DEF MorphInvariant
<1> QED BY <1>1, MorphSafe, PTL

\* NeverBack: in a switch that goes on by itself the rate never falls, between
\* frames or in them (lv_morph.c:322-345).
THEOREM RateNeverFalls == Spec => NeverBack
<1> DEFINE Back == switching /\ switching' /\ plan.mode # "set" => morph'.rate >= morph.rate
<1>1. MorphInvariant /\ [Next]_vars => [Back]_vars
  <2> SUFFICES ASSUME MorphInvariant, [Next]_vars, switching, switching', plan.mode # "set"
               PROVE  morph'.rate >= morph.rate \/ UNCHANGED vars
    BY Zenon
  <2>0. /\ morph # NULL /\ morph \in Morphs /\ MorphTyped(morph)
        /\ morph.mode = plan.mode /\ morph.steps = plan.steps /\ plan.steps \in StepCounts
        /\ plan.mode \in {"steps", "time"}
        /\ morph.rate \in 0..FULL /\ FULL \in Nat
    BY RateAssumption DEF MorphInvariant, TypeInv, TypeOK, AsPlanned, Morphs, MorphTyped, Plans, MorphModes
  <2>1. CASE visual_bin_set_morph \/ visual_bin_set_morph_by_name \/ visual_bin_switch_finalize
    BY <2>1 DEF visual_bin_set_morph, visual_bin_set_morph_by_name, visual_bin_switch_finalize, Finalized
  <2>2. ASSUME NEW p \in Plans, visual_bin_switch_actor(p) PROVE FALSE
    BY <2>2 DEF visual_bin_switch_actor
  <2>3. ASSUME NEW d \in {0, 1}, visual_bin_run(d) PROVE morph'.rate >= morph.rate
    <3>1. CASE plan.mode = "time"
      BY <2>3, <3>1, FrameTime
    <3>2. CASE plan.mode = "steps"
      <4> DEFINE r == visual_morph_run(morph, d)
      <4>1. morph' = visual_morph_is_done(r) /\ r \in Morphs /\ MorphTyped(r)
        BY <2>0, <2>3, RunMorph DEF visual_bin_run, Finalized
      <4>2. morph'.rate = r.rate
        BY <4>1, AskMorph
      <4>3. r.rate = Cut(morph.rate + Increment(morph.steps))
        BY <2>0, <3>2 DEF visual_morph_run, RateAfter
      <4>4. Increment(morph.steps) \in Nat
        BY <2>0, StepsReach DEF Increment
      <4> QED BY <2>0, <4>2, <4>3, <4>4 DEF Cut
    <3> QED BY <2>0, <3>1, <3>2
  <2>4. ASSUME NEW r \in 0..FULL, visual_morph_set_rate(r) PROVE FALSE
    BY <2>0, <2>4 DEF visual_morph_set_rate
  <2>5. CASE Wait
    <3>1. morph'.rate = morph.rate
      BY <2>0, <2>5, WaitMorph DEF Wait
    <3> QED BY <2>0, <3>1
  <2> QED BY <2>1, <2>2, <2>3, <2>4, <2>5 DEF Next, Frame
<1> QED BY <1>1, MorphSafe, PTL DEF Spec, NeverBack

-----------------------------------------------------------------------------
(* Switches end.                                                             *)

\* How far a switch that goes on by itself is from its end: in frames for one
\* by steps, in time for a timed one, whose clock starts with its first frame.
ToGo ==
    IF plan.mode = "steps" THEN Steps - frames
    ELSE IF frames = 0 THEN plan.time + 1
    ELSE IF age < plan.time THEN plan.time - age ELSE 0

\* A frame does one step, or starts the clock.
FrameGetsNearer ==
    /\ ToGo' <= ToGo
    /\ plan.mode = "steps" \/ frames = 0 => ToGo' < ToGo

\* Once the clock is started, time that passes counts; no frame that finds it
\* used up leaves the switch on.
TimeGetsNearer ==
    plan.mode = "time" /\ frames > 0 =>
        /\ Wait /\ ToGo > 0 => ToGo' < ToGo
        /\ ToGo = 0 => ~Frame

\* What is true of every step that leaves such a switch on.
GetsNearer ==
    /\ ToGo \in Nat /\ ToGo' \in Nat /\ ToGo' <= ToGo
    /\ plan' = plan
    /\ Frame => FrameGetsNearer
    /\ TimeGetsNearer

LEMMA ToGoTyped == MorphInvariant /\ switching /\ plan.mode # "set" => ToGo \in Nat
<1> SUFFICES ASSUME MorphInvariant, switching, plan.mode # "set" PROVE ToGo \in Nat  OBVIOUS
<1>1. /\ plan.steps \in StepCounts /\ plan.time \in Times /\ plan.mode \in {"steps", "time"}
      /\ frames \in Nat /\ age \in Nat
  BY RateAssumption, TimeAssumption DEF MorphInvariant, TypeInv, TypeOK, Plans, MorphModes
<1>2. plan.steps \in Nat /\ plan.time \in Nat /\ Steps \in Nat
  BY <1>1, RateAssumption, TimesPositive DEF Steps
<1>3. plan.mode = "steps" => frames <= Steps
  BY DEF MorphInvariant, NeverLate
<1> QED BY <1>1, <1>2, <1>3 DEF ToGo

\* What a step does to the counts of a switch that stays on.
LEMMA SwitchCounts ==
    ASSUME MorphInvariant, Next, switching, switching', plan.mode # "set"
    PROVE  /\ plan' = plan /\ (Frame \/ Wait)
           /\ Frame => frames' = NextStep(frames) /\ shown' = age' /\ \E d \in {0, 1} : age' = Later(age, d)
           /\ Wait => frames' = frames /\ age' = IF frames > 0 THEN Later(age, 1) ELSE age
<1>1. morph.mode = plan.mode  BY DEF MorphInvariant, AsPlanned
<1>2. ASSUME NEW d \in {0, 1}, visual_bin_run(d)
      PROVE  plan' = plan /\ frames' = NextStep(frames) /\ age' = Later(age, d) /\ shown' = age'
  BY <1>2 DEF visual_bin_run
<1>3. Frame => plan' = plan /\ frames' = NextStep(frames) /\ shown' = age' /\ \E d \in {0, 1} : age' = Later(age, d)
  BY <1>2 DEF Frame
<1>4. Wait => plan' = plan /\ frames' = frames /\ age' = IF frames > 0 THEN Later(age, 1) ELSE age
  BY DEF Wait
<1>5. ~visual_bin_set_morph /\ ~visual_bin_set_morph_by_name /\ ~visual_bin_switch_finalize
  BY DEF visual_bin_set_morph, visual_bin_set_morph_by_name, visual_bin_switch_finalize, Finalized
<1>6. ASSUME NEW p \in Plans PROVE ~visual_bin_switch_actor(p)  BY DEF visual_bin_switch_actor
<1>7. ASSUME NEW r \in 0..FULL PROVE ~visual_morph_set_rate(r)  BY <1>1 DEF visual_morph_set_rate
<1>8. Frame \/ Wait  BY <1>5, <1>6, <1>7 DEF Next
<1> QED BY <1>3, <1>4, <1>8

LEMMA SwitchStep ==
    ASSUME MorphInvariant, MorphInvariant', Next, switching, switching', plan.mode # "set"
    PROVE  GetsNearer
<1>1. /\ plan.steps \in StepCounts /\ plan.time \in Times /\ plan.mode \in {"steps", "time"}
      /\ frames \in 0..FULL + 1 /\ age \in 0..Longest /\ age' \in 0..Longest /\ frames' \in 0..FULL + 1
      /\ FULL \in Nat /\ Longest \in Nat
  BY RateAssumption, TimeAssumption DEF MorphInvariant, TypeInv, TypeOK, Plans, MorphModes
<1>2. plan.steps \in Nat /\ plan.time \in Nat /\ Steps \in Nat /\ plan.time \in 1..Longest
  BY <1>1, RateAssumption, TimesPositive, TimeAssumption DEF Steps
<1>3. plan' = plan /\ Steps' = Steps  BY SwitchCounts DEF Steps
<1>4. ToGo \in Nat  BY ToGoTyped
<1>5. ToGo' \in Nat
  <2>1. plan'.mode # "set"  BY <1>3
  <2>2. (MorphInvariant /\ switching /\ plan.mode # "set" => ToGo \in Nat)'  BY ToGoTyped, PTL
  <2> QED BY <2>1, <2>2
<1>6. plan.mode = "steps" => frames <= Steps /\ frames' <= Steps
  BY <1>3 DEF MorphInvariant, NeverLate
<1>7. plan.mode = "time" /\ frames' > 0 => shown' < plan.time
  BY <1>3 DEF MorphInvariant, NeverLate
<1>8. Steps <= FULL
  <2>1. \A n \in StepCounts \ {0} : n <= FULL  BY RateAssumption, Zenon
  <2>2. plan.steps # 0 => plan.steps \in StepCounts \ {0}  BY <1>1
  <2>3. plan.steps # 0 => plan.steps <= FULL  BY <2>1, <2>2
  <2>4. 1 <= FULL  BY RateAssumption
  <2> QED BY ONLY <2>3, <2>4 DEF Steps
<1>9. ToGo' = IF plan.mode = "steps" THEN Steps - frames'
              ELSE IF frames' = 0 THEN plan.time + 1
              ELSE IF age' < plan.time THEN plan.time - age' ELSE 0
  BY <1>3 DEF ToGo
<1>10. ASSUME Frame
       PROVE  FrameGetsNearer /\ ToGo' <= ToGo /\ (plan.mode = "time" /\ frames > 0 => ToGo # 0)
  <2>1. frames' = NextStep(frames) /\ shown' = age'  BY <1>10, SwitchCounts
  <2>2. age <= age' /\ age' <= age + 1
    <3>1. \E d \in {0, 1} : age' = Later(age, d)  BY <1>10, SwitchCounts
    <3> QED BY <1>1, <3>1 DEF Later
  <2>3. frames' > 0  BY <1>1, <2>1 DEF NextStep
  <2>4. CASE plan.mode = "steps"
    <3>1. frames' = frames + 1  BY <1>1, <1>2, <1>6, <1>8, <2>1, <2>4 DEF NextStep
    <3> QED BY <1>1, <1>2, <1>9, <2>4, <3>1 DEF ToGo, FrameGetsNearer
  <2>5. CASE plan.mode = "time"
    <3>1. age' < plan.time  BY <1>7, <2>1, <2>3, <2>5
    <3>2. ToGo' = plan.time - age'  BY <1>1, <1>9, <2>3, <2>5, <3>1
    <3>3. ToGo = IF frames = 0 THEN plan.time + 1 ELSE plan.time - age
      BY <1>1, <1>2, <2>2, <2>5, <3>1 DEF ToGo
    <3> QED BY <1>1, <1>2, <2>2, <2>5, <3>1, <3>2, <3>3 DEF FrameGetsNearer
  <2> QED BY <1>1, <2>4, <2>5
<1>11. ASSUME Wait
       PROVE  ToGo' <= ToGo /\ (plan.mode = "time" /\ frames > 0 /\ ToGo > 0 => ToGo' < ToGo)
  <2>1. frames' = frames /\ age' = IF frames > 0 THEN Later(age, 1) ELSE age
    BY <1>11, SwitchCounts
  <2>2. CASE frames = 0 \/ plan.mode = "steps"
    BY <1>1, <1>2, <1>9, <2>1, <2>2 DEF ToGo
  <2>3. CASE frames > 0 /\ plan.mode = "time"
    <3>1. age' = IF age + 1 > Longest THEN Longest ELSE age + 1  BY <2>1, <2>3 DEF Later
    <3> QED BY <1>1, <1>2, <1>9, <2>1, <2>3, <3>1 DEF ToGo
  <2> QED BY <1>1, <2>2, <2>3
<1> QED BY <1>3, <1>4, <1>5, <1>10, <1>11, SwitchCounts DEF GetsNearer, TimeGetsNearer

\* A switch by steps gets nearer to its end in every frame, a timed one with the
\* first frame and then with the time that passes, whatever the morph was used
\* for before: none is left that needs more frames or time than it was given
\* (lv_morph.c:243-265, lv_bin.c:883).
THEOREM SwitchesGetNearer ==
    Spec => [][switching /\ switching' /\ plan.mode # "set" => GetsNearer]_vars
<1>1. ASSUME MorphInvariant, MorphInvariant', Next, switching, switching', plan.mode # "set"
      PROVE  GetsNearer
  BY <1>1, SwitchStep
<1> QED BY <1>1, MorphSafe, PTL DEF Spec
=============================================================================
