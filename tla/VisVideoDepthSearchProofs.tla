---------------------- MODULE VisVideoDepthSearchProofs ----------------------
(***************************************************************************)
(* Why the loops of the depth searches return what VisVideoDepth defines:  *)
(* the running depth only ever steps from one depth bit to the next, and   *)
(* no bit of the flag is left behind it.  And why they end: each step      *)
(* brings a number down that is never negative.                            *)
(***************************************************************************)
EXTENDS VisVideoDepthSearch, FiniteSetTheorems, TLAPS

\* The searches of one step, and those that climb by searching.
Searching == call \in {"next", "prev"}

\* get_next has passed no bit above its argument, and get_prev none below.
NothingSkipped ==
    pc = "search" /\ depth_is_sane(arg) =>
        /\ i \in DepthBits \cup {NONE}
        /\ call = "next" => arg <= i /\ \A d \in flag : d > arg => d > i
        /\ call = "prev" => i <= arg /\ \A d \in flag : d < arg => d < i

\* get_highest stands on a depth of the flag, once it has left NONE.
Climbing == pc = "climb" => highest = i /\ i \in flag \cup {NONE}

\* The inductive invariant.
SearchInvariant ==
    /\ TypeOK
    /\ IF Searching THEN pc \in {"search", "return"}
       ELSE pc \in {"climb", "return"} /\ arg = NONE
    /\ NothingSkipped /\ Climbing /\ LoopsMeetDefinitions

-----------------------------------------------------------------------------
(* The depths.                                                              *)

\* One bit or none is a sane depth; the two error codes have several bits on.
LEMMA SaneDepths ==
    ASSUME NEW d \in DepthValues
    PROVE  depth_is_sane(d) <=> d \in DepthBits \cup {NONE}
<1>1. \A b \in DepthBits : Cardinality({b}) = 1
  <2> SUFFICES ASSUME NEW b \in DepthBits PROVE Cardinality({b}) = 1  OBVIOUS
  <2> QED BY FS_Singleton
<1>2. Cardinality({}) = 0  BY FS_EmptySet
<1>3. CASE d \in DepthBits
  <2>0. d # ERROR /\ d # IMPOSSIBLE  BY <1>3 DEF DepthBits, GL, ERROR, IMPOSSIBLE
  <2>1. BitsOf(d) = {d}  BY <1>3, <2>0 DEF BitsOf
  <2> QED BY <1>1, <1>3, <2>1 DEF depth_is_sane
<1>4. CASE d = NONE
  <2>1. BitsOf(d) = {}  BY <1>4 DEF BitsOf, DepthBits, GL, ERROR, IMPOSSIBLE, NONE
  <2> QED BY <1>2, <1>4, <2>1 DEF depth_is_sane
<1>5. CASE d \in {ERROR, IMPOSSIBLE}
  <2>1. 1 \in BitsOf(d) /\ 4 \in BitsOf(d) /\ BitsOf(d) \subseteq DepthBits
    BY <1>5 DEF BitsOf, DepthBits, GL, ERROR, IMPOSSIBLE
  <2>2. IsFiniteSet(DepthBits)
    <3>1. DepthBits \in SUBSET Nat /\ \A e \in DepthBits : e <= 16  BY DEF DepthBits, GL
    <3>2. 16 \in Nat  OBVIOUS
    <3> HIDE DEF DepthBits
    <3> QED BY <3>1, <3>2, FS_BoundedSetOfNaturals
  <2>3. IsFiniteSet(BitsOf(d))  BY <2>1, <2>2, FS_Subset
  <2>4. IsFiniteSet({1}) /\ Cardinality({1}) = 1 /\ IsFiniteSet({1, 4})
    BY FS_Singleton, FS_AddElement
  <2>5. Cardinality({1, 4}) = 2
    <3>1. {1, 4} = {1} \cup {4} /\ 4 \notin {1}  OBVIOUS
    <3> QED BY <2>4, <3>1, FS_AddElement
  <2>6. {1, 4} \subseteq BitsOf(d)  BY <2>1
  <2>7. 2 <= Cardinality(BitsOf(d)) /\ Cardinality(BitsOf(d)) \in Nat
    BY <2>3, <2>5, <2>6, FS_Subset, FS_CardinalityType
  <2>8. d \notin DepthBits \cup {NONE}  BY <1>5 DEF DepthBits, GL, ERROR, IMPOSSIBLE, NONE
  <2> QED BY <2>7, <2>8 DEF depth_is_sane
<1> QED BY <1>3, <1>4, <1>5 DEF DepthValues

\* The first bit that is found upwards is the lowest one ...
LEMMA LowestFound ==
    ASSUME NEW S \in SUBSET Int, NEW d \in S, \A e \in S : d <= e
    PROVE  LowestOf(S) = d
<1>1. \A c \in S : (\A e \in S : c <= e) => c = d  OBVIOUS
<1> QED BY <1>1 DEF LowestOf

\* ... and downwards the highest one.
LEMMA HighestFound ==
    ASSUME NEW S \in SUBSET Int, NEW d \in S, \A e \in S : e <= d
    PROVE  HighestOf(S) = d
<1>1. \A c \in S : (\A e \in S : e <= c) => c = d  OBVIOUS
<1> QED BY <1>1 DEF HighestOf

\* A flag has a lowest bit.
LEMMA LowestThere ==
    ASSUME NEW S \in SUBSET DepthBits, S # {}
    PROVE  LowestOf(S) \in S /\ \A e \in S : LowestOf(S) <= e
<1>1. \E d \in S : \A e \in S : d <= e
  <2>1. CASE 1 \in S  BY <2>1 DEF DepthBits, GL
  <2>2. CASE 1 \notin S /\ 2 \in S  BY <2>2 DEF DepthBits, GL
  <2>3. CASE 1 \notin S /\ 2 \notin S /\ 4 \in S  BY <2>3 DEF DepthBits, GL
  <2>4. CASE 1 \notin S /\ 2 \notin S /\ 4 \notin S /\ 8 \in S  BY <2>4 DEF DepthBits, GL
  <2>5. CASE S \subseteq {GL}
    <3>1. PICK d : d \in S  OBVIOUS
    <3>2. \A e \in S : e = d /\ e \in Int  BY <2>5, <3>1 DEF GL
    <3> QED  BY <3>1, <3>2
  <2> QED  BY <2>1, <2>2, <2>3, <2>4, <2>5 DEF DepthBits, GL
<1> QED  BY <1>1 DEF LowestOf

\* What get_next returns when it hits, and when it comes to the end.
LEMMA NextHit ==
    ASSUME NEW f \in SUBSET DepthBits, NEW a \in DepthBits \cup {NONE}, NEW d \in f, d > a,
           \A e \in f : e > a => d <= e
    PROVE  depth_get_next(f, a) = d
<1> DEFINE higher == {e \in f : e > a}
<1>1. depth_is_sane(a)  BY SaneDepths DEF DepthValues
<1>2. higher \in SUBSET Int /\ d \in higher /\ \A e \in higher : d <= e
  <2>1. f \subseteq Int  BY DEF DepthBits, GL
  <2> QED BY <2>1
<1>3. depth_get_next(f, a) = IF higher = {} THEN a ELSE LowestOf(higher)  BY <1>1 DEF depth_get_next
<1> HIDE DEF higher
<1>4. LowestOf(higher) = d  BY <1>2, LowestFound
<1> QED BY <1>2, <1>3, <1>4

LEMMA NextMiss ==
    ASSUME NEW f \in SUBSET DepthBits, NEW a \in DepthBits \cup {NONE}, \A e \in f : ~(e > a)
    PROVE  depth_get_next(f, a) = a
<1>1. depth_is_sane(a)  BY SaneDepths DEF DepthValues
<1> QED BY <1>1 DEF depth_get_next

LEMMA PrevHit ==
    ASSUME NEW f \in SUBSET DepthBits, NEW a \in DepthBits \cup {NONE}, NEW d \in f, d < a,
           \A e \in f : e < a => e <= d
    PROVE  depth_get_prev(f, a) = d
<1> DEFINE lower == {e \in f : e < a}
<1>1. depth_is_sane(a)  BY SaneDepths DEF DepthValues
<1>2. lower \in SUBSET Int /\ d \in lower /\ \A e \in lower : e <= d
  <2>1. f \subseteq Int  BY DEF DepthBits, GL
  <2> QED BY <2>1
<1>3. depth_get_prev(f, a) = IF lower = {} THEN a ELSE HighestOf(lower)  BY <1>1 DEF depth_get_prev
<1> HIDE DEF lower
<1>4. HighestOf(lower) = d  BY <1>2, HighestFound
<1> QED BY <1>2, <1>3, <1>4

LEMMA PrevMiss ==
    ASSUME NEW f \in SUBSET DepthBits, NEW a \in DepthBits \cup {NONE}, \A e \in f : ~(e < a)
    PROVE  depth_get_prev(f, a) = a
<1>1. depth_is_sane(a)  BY SaneDepths DEF DepthValues
<1> QED BY <1>1 DEF depth_get_prev

-----------------------------------------------------------------------------
(* One step of a loop.                                                      *)

LEMMA SearchBegins == Init => SearchInvariant
<1> SUFFICES ASSUME Init PROVE SearchInvariant  OBVIOUS
<1>1. TypeOK  BY DEF Init, TypeOK, DepthValues
<1>2. IF Searching THEN pc \in {"search", "return"}
      ELSE pc \in {"climb", "return"} /\ arg = NONE
  BY DEF Init, Searching
<1>3. NothingSkipped
  <2> SUFFICES ASSUME depth_is_sane(arg), pc = "search"
               PROVE  /\ i \in DepthBits \cup {NONE}
                      /\ call = "next" => arg <= i /\ \A d \in flag : d > arg => d > i
                      /\ call = "prev" => i <= arg /\ \A d \in flag : d < arg => d < i
    BY DEF NothingSkipped
  <2>1. i = arg  BY DEF Init
  <2>2. i \in DepthBits \cup {NONE}  BY <1>1, <2>1, SaneDepths DEF TypeOK
  <2>3. i \in Int  BY <2>2 DEF DepthBits, GL, NONE
  <2> QED BY <2>1, <2>2, <2>3
<1>4. Climbing  BY DEF Init, Climbing
<1>5. LoopsMeetDefinitions  BY DEF Init, LoopsMeetDefinitions
<1> QED BY <1>1, <1>2, <1>3, <1>4, <1>5 DEF SearchInvariant

\* A depth that is not sane is an error for both searches.
LEMMA RejectKeeps == SearchInvariant /\ RejectDepth => SearchInvariant'
<1> SUFFICES ASSUME SearchInvariant, RejectDepth PROVE SearchInvariant'  OBVIOUS
<1>1. TypeOK /\ Searching  BY DEF SearchInvariant, RejectDepth
<1>2. result' = ERROR /\ pc' = "return" /\ UNCHANGED <<call, flag, arg, i, highest>>
  BY DEF RejectDepth, Return
<1>3. TypeOK'  BY <1>1, <1>2 DEF TypeOK, DepthValues
<1>4. depth_get_next(flag, arg) = ERROR /\ depth_get_prev(flag, arg) = ERROR
  BY DEF RejectDepth, depth_get_next, depth_get_prev
<1>5. LoopsMeetDefinitions'
  BY <1>1, <1>2, <1>4 DEF LoopsMeetDefinitions, Searching
<1> QED BY <1>1, <1>2, <1>3, <1>5 DEF SearchInvariant, Searching, NothingSkipped, Climbing

\* The bits are powers of two: between a bit and the next probe there is none.
LEMMA NextProbe ==
    ASSUME NEW d \in DepthBits \cup {NONE}, d < GL, NEW probe,
           probe = IF d = NONE THEN 1 ELSE 2 * d
    PROVE  /\ probe \in DepthBits /\ d < probe
           /\ \A e \in DepthBits : e > d => e = probe \/ e > probe
BY DEF DepthBits, NONE, GL

LEMMA PrevProbe ==
    ASSUME NEW d \in DepthBits, NEW probe, probe = d \div 2
    PROVE  /\ probe \in DepthBits \cup {NONE} /\ probe < d
           /\ \A e \in DepthBits : e < d => e = probe \/ e < probe
BY DEF DepthBits, NONE, GL

LEMMA ProbeNextKeeps == SearchInvariant /\ ProbeNext => SearchInvariant'
<1> SUFFICES ASSUME SearchInvariant, ProbeNext PROVE SearchInvariant'  OBVIOUS
<1> DEFINE probe == IF i = NONE THEN 1 ELSE 2 * i
<1>1. /\ TypeOK /\ call = "next" /\ Searching /\ pc = "search" /\ depth_is_sane(arg) /\ i < GL
      /\ arg \in DepthValues /\ flag \subseteq DepthBits
  BY DEF SearchInvariant, ProbeNext, Searching, TypeOK
<1>2. i \in DepthBits \cup {NONE} /\ arg <= i /\ \A d \in flag : d > arg => d > i
  BY <1>1 DEF SearchInvariant, NothingSkipped
<1>3. \/ probe \in flag /\ Return(probe)
      \/ probe \notin flag /\ i' = probe /\ UNCHANGED <<call, flag, arg, highest, pc, result>>
  BY DEF ProbeNext
<1>4. arg \in DepthBits \cup {NONE}  BY <1>1, SaneDepths
<1>5. /\ probe \in DepthBits /\ i < probe
      /\ \A e \in DepthBits : e > i => e = probe \/ e > probe
  BY <1>1, <1>2, NextProbe
<1>6. arg \in Int /\ i \in Int /\ \A e \in DepthBits : e \in Int
  BY <1>2, <1>4 DEF DepthBits, NONE, GL
<1> HIDE DEF probe
<1>7. probe \in Int /\ arg < probe  BY <1>2, <1>5, <1>6
<1>8. \A d \in flag : d > arg => d = probe \/ d > probe  BY <1>1, <1>2, <1>5
<1>9. CASE probe \in flag /\ Return(probe)
  <2>1. result' = probe /\ pc' = "return" /\ UNCHANGED <<call, flag, arg, i, highest>>
    BY <1>9 DEF Return
  <2>2. \A d \in flag : d > arg => probe <= d  BY <1>1, <1>6, <1>7, <1>8
  <2>3. probe > arg  BY <1>6, <1>7
  <2>4. depth_get_next(flag, arg) = probe  BY <1>1, <1>4, <1>9, <2>2, <2>3, NextHit
  <2>5. LoopsMeetDefinitions'  BY <1>1, <2>1, <2>4 DEF LoopsMeetDefinitions
  <2>6. TypeOK'  BY <1>1, <1>5, <2>1 DEF TypeOK, DepthValues
  <2> QED BY <1>1, <2>1, <2>5, <2>6 DEF SearchInvariant, Searching, NothingSkipped, Climbing
<1>10. CASE probe \notin flag /\ i' = probe /\ UNCHANGED <<call, flag, arg, highest, pc, result>>
  <2>1. \A d \in flag : d > arg => d > probe  BY <1>8, <1>10
  <2>2. arg <= probe  BY <1>6, <1>7
  <2>3. NothingSkipped'  BY <1>1, <1>5, <1>10, <2>1, <2>2 DEF NothingSkipped
  <2>4. TypeOK'  BY <1>1, <1>5, <1>10 DEF TypeOK, DepthValues
  <2> QED BY <1>1, <1>10, <2>3, <2>4
          DEF SearchInvariant, Searching, Climbing, LoopsMeetDefinitions
<1> QED BY <1>3, <1>9, <1>10

LEMMA ProbePrevKeeps == SearchInvariant /\ ProbePrev => SearchInvariant'
<1> SUFFICES ASSUME SearchInvariant, ProbePrev PROVE SearchInvariant'  OBVIOUS
<1> DEFINE probe == i \div 2
<1>1. /\ TypeOK /\ call = "prev" /\ Searching /\ pc = "search" /\ depth_is_sane(arg) /\ i > NONE
      /\ arg \in DepthValues /\ flag \subseteq DepthBits
  BY DEF SearchInvariant, ProbePrev, Searching, TypeOK
<1>2. i \in DepthBits \cup {NONE} /\ i <= arg /\ \A d \in flag : d < arg => d < i
  BY <1>1 DEF SearchInvariant, NothingSkipped
<1>3. \/ probe \in flag /\ Return(probe)
      \/ probe \notin flag /\ i' = probe /\ UNCHANGED <<call, flag, arg, highest, pc, result>>
  BY DEF ProbePrev
<1>4. arg \in DepthBits \cup {NONE} /\ i \in DepthBits
  BY <1>1, <1>2, SaneDepths DEF NONE
<1>5. /\ probe \in DepthBits \cup {NONE} /\ probe < i
      /\ \A e \in DepthBits : e < i => e = probe \/ e < probe
  BY <1>4, PrevProbe
<1>6. arg \in Int /\ i \in Int /\ \A e \in DepthBits \cup {NONE} : e \in Int
  BY <1>2, <1>4 DEF DepthBits, NONE, GL
<1> HIDE DEF probe
<1>7. probe \in Int /\ probe < arg  BY <1>2, <1>5, <1>6
<1>8. \A d \in flag : d < arg => d = probe \/ d < probe  BY <1>1, <1>2, <1>5
<1>9. CASE probe \in flag /\ Return(probe)
  <2>1. result' = probe /\ pc' = "return" /\ UNCHANGED <<call, flag, arg, i, highest>>
    BY <1>9 DEF Return
  <2>2. \A d \in flag : d < arg => d <= probe  BY <1>1, <1>6, <1>7, <1>8
  <2>3. depth_get_prev(flag, arg) = probe  BY <1>1, <1>4, <1>7, <1>9, <2>2, PrevHit
  <2>4. LoopsMeetDefinitions'  BY <1>1, <2>1, <2>3 DEF LoopsMeetDefinitions
  <2>5. TypeOK'  BY <1>1, <1>5, <2>1 DEF TypeOK, DepthValues
  <2> QED BY <1>1, <2>1, <2>4, <2>5 DEF SearchInvariant, Searching, NothingSkipped, Climbing
<1>10. CASE probe \notin flag /\ i' = probe /\ UNCHANGED <<call, flag, arg, highest, pc, result>>
  <2>1. \A d \in flag : d < arg => d < probe  BY <1>8, <1>10
  <2>2. probe <= arg  BY <1>6, <1>7
  <2>3. NothingSkipped'  BY <1>1, <1>5, <1>10, <2>1, <2>2 DEF NothingSkipped
  <2>4. TypeOK'  BY <1>1, <1>5, <1>10 DEF TypeOK, DepthValues
  <2> QED BY <1>1, <1>10, <2>3, <2>4
          DEF SearchInvariant, Searching, Climbing, LoopsMeetDefinitions
<1> QED BY <1>3, <1>9, <1>10

\* The loop has come to openGL or to no depth: there was nothing on the way.
LEMMA ExhaustedKeeps == SearchInvariant /\ Exhausted => SearchInvariant'
<1> SUFFICES ASSUME SearchInvariant, Exhausted PROVE SearchInvariant'  OBVIOUS
<1>1. /\ TypeOK /\ Searching /\ pc = "search" /\ depth_is_sane(arg)
      /\ arg \in DepthValues /\ flag \subseteq DepthBits
  BY DEF SearchInvariant, Exhausted, TypeOK
<1>2. /\ i \in DepthBits \cup {NONE} /\ arg \in DepthBits \cup {NONE}
      /\ call = "next" => \A d \in flag : d > arg => d > i
      /\ call = "prev" => \A d \in flag : d < arg => d < i
  BY <1>1, SaneDepths DEF SearchInvariant, NothingSkipped
<1>3. result' = arg /\ pc' = "return" /\ UNCHANGED <<call, flag, arg, i, highest>>
  BY DEF Exhausted, Return
<1>4. TypeOK'  BY <1>1, <1>3 DEF TypeOK
<1>5. ASSUME call = "next" PROVE depth_get_next(flag, arg) = arg
  <2>1. i >= GL  BY <1>5 DEF Exhausted
  <2>2. \A d \in DepthBits : ~(d > i)  BY <1>2, <2>1 DEF DepthBits, GL, NONE
  <2>3. \A d \in flag : ~(d > arg)  BY <1>1, <1>2, <1>5, <2>2
  <2> QED BY <1>1, <1>2, <2>3, NextMiss
<1>6. ASSUME call = "prev" PROVE depth_get_prev(flag, arg) = arg
  <2>1. i <= NONE  BY <1>6 DEF Exhausted
  <2>2. \A d \in DepthBits : ~(d < i)  BY <1>2, <2>1 DEF DepthBits, GL, NONE
  <2>3. \A d \in flag : ~(d < arg)  BY <1>1, <1>2, <1>6, <2>2
  <2> QED BY <1>1, <1>2, <2>3, PrevMiss
<1>7. LoopsMeetDefinitions'
  BY <1>1, <1>3, <1>5, <1>6 DEF LoopsMeetDefinitions, Searching
<1> QED BY <1>1, <1>3, <1>4, <1>7 DEF SearchInvariant, Searching, NothingSkipped, Climbing

\* What a climb goes to is in the flag, above where it stands; where it stays
\* is the top.
LEMMA ClimbsUp ==
    ASSUME NEW f \in SUBSET DepthBits, NEW d \in f \cup {NONE}
    PROVE  LET up == depth_get_next(f, d)
           IN  /\ up # d => up \in f /\ d < up
               /\ up = d => depth_get_highest(f) = d
<1> DEFINE higher == {e \in f : e > d}
           up == depth_get_next(f, d)
<1>1. depth_is_sane(d)  BY SaneDepths DEF DepthValues
<1>2. up = IF higher = {} THEN d ELSE LowestOf(higher)  BY <1>1 DEF depth_get_next
<1>3. higher # {} => LowestOf(higher) \in higher
  <2>1. higher \in SUBSET DepthBits  OBVIOUS
  <2> HIDE DEF higher
  <2> QED BY <2>1, LowestThere
<1>4. \A e \in f : e \in Int /\ e > NONE  BY DEF DepthBits, GL, NONE
<1>5. d \in Int  BY DEF DepthBits, GL, NONE
<1> HIDE DEF up
<1>6. ASSUME up # d PROVE up \in f /\ d < up
  <2>1. up \in higher
    <3> HIDE DEF higher
    <3> QED BY <1>2, <1>3, <1>6
  <2> QED BY <1>4, <1>5, <2>1
<1>7. ASSUME up = d PROVE depth_get_highest(f) = d
  <2>1. higher = {}
    <3>1. higher # {} => up \in higher
      <4> HIDE DEF higher
      <4> QED BY <1>2, <1>3
    <3> QED BY <1>5, <1>7, <3>1
  <2>2. \A e \in f : e <= d  BY <1>4, <1>5, <2>1
  <2>3. CASE f = {}  BY <2>3 DEF depth_get_highest
  <2>4. CASE f # {}
    <3>1. d \in f  BY <1>4, <2>2, <2>4 DEF NONE
    <3>2. f \in SUBSET Int  BY <1>4
    <3>3. HighestOf(f) = d  BY <2>2, <3>1, <3>2, HighestFound
    <3> QED BY <2>4, <3>3 DEF depth_get_highest
  <2> QED BY <2>3, <2>4
<1> QED BY <1>6, <1>7 DEF up

LEMMA ClimbKeeps == SearchInvariant /\ Climb => SearchInvariant'
<1> SUFFICES ASSUME SearchInvariant, Climb PROVE SearchInvariant'  OBVIOUS
<1> DEFINE up == depth_get_next(flag, i)
           last == IF call = "highest" THEN highest
                   ELSE IF highest # GL THEN highest
                   ELSE IF depth_get_prev(flag, GL) = GL THEN ERROR ELSE IMPOSSIBLE
<1>1. /\ TypeOK /\ pc = "climb" /\ ~Searching /\ arg = NONE
      /\ flag \subseteq DepthBits /\ call \in Calls /\ highest \in DepthValues
  BY DEF SearchInvariant, Climb, TypeOK
<1>2. highest = i /\ i \in flag \cup {NONE}  BY <1>1 DEF SearchInvariant, Climbing
<1>3. \/ /\ up # i
         /\ highest' = up /\ i' = up /\ UNCHANGED <<call, flag, arg, pc, result>>
      \/ up = i /\ Return(last)
  BY DEF Climb
<1>4. /\ up # i => up \in flag /\ i < up
      /\ up = i => depth_get_highest(flag) = i
  BY <1>1, <1>2, ClimbsUp
<1>5. last \in DepthValues  BY <1>1 DEF DepthValues
<1> HIDE DEF up
<1>6. CASE up # i /\ highest' = up /\ i' = up /\ UNCHANGED <<call, flag, arg, pc, result>>
  <2>1. up \in flag  BY <1>4, <1>6
  <2>2. TypeOK'  BY <1>1, <1>6, <2>1 DEF TypeOK, DepthValues
  <2> QED BY <1>1, <1>6, <2>1, <2>2
          DEF SearchInvariant, Searching, NothingSkipped, Climbing, LoopsMeetDefinitions
<1>7. CASE up = i /\ Return(last)
  <2>1. result' = last /\ pc' = "return" /\ UNCHANGED <<call, flag, arg, i, highest>>
    BY <1>7 DEF Return
  <2>2. depth_get_highest(flag) = highest  BY <1>2, <1>4, <1>7
  <2>3. /\ call = "highest" => last = depth_get_highest(flag)
        /\ call = "highest_nogl" => last = depth_get_highest_nogl(flag)
    BY <2>2 DEF depth_get_highest_nogl
  <2> HIDE DEF last
  <2>4. LoopsMeetDefinitions'
    BY <1>1, <2>1, <2>3 DEF LoopsMeetDefinitions, Searching, Calls
  <2>5. TypeOK'  BY <1>1, <1>5, <2>1 DEF TypeOK
  <2> QED BY <1>1, <2>1, <2>4, <2>5 DEF SearchInvariant, Searching, NothingSkipped, Climbing
<1> QED BY <1>3, <1>6, <1>7

LEMMA SearchSteps == Spec => []SearchInvariant
<1>1. SearchInvariant /\ [Next]_vars => SearchInvariant'
  <2> SUFFICES ASSUME SearchInvariant, [Next]_vars PROVE SearchInvariant'  OBVIOUS
  <2>1. CASE UNCHANGED vars
    BY <2>1 DEF vars, SearchInvariant, TypeOK, Searching, NothingSkipped, Climbing,
                LoopsMeetDefinitions
  <2> QED BY <2>1, RejectKeeps, ProbeNextKeeps, ProbePrevKeeps, ExhaustedKeeps, ClimbKeeps DEF Next
<1> QED BY <1>1, SearchBegins, PTL DEF Spec

\* The loops of get_next, get_prev and get_highest return what the closed
\* definitions say, whatever the flag and the depth they begin with.
THEOREM LoopsReturnIt == Spec => []LoopsMeetDefinitions
<1>1. SearchInvariant => LoopsMeetDefinitions  BY DEF SearchInvariant
<1> QED BY <1>1, SearchSteps, PTL

-----------------------------------------------------------------------------
\* How far a search still has to go at most.
StepsLeft ==
    IF pc = "return" THEN 0
    ELSE IF ~depth_is_sane(arg) THEN 1
    ELSE IF call = "prev" THEN i + 1
    ELSE GL - i + 1

\* No search goes on for ever: each step of a loop brings it nearer to its
\* end.  With the fairness of Spec this is what SearchEnds rests on.
THEOREM SearchesGetNearer == Spec => [][StepsLeft' < StepsLeft /\ StepsLeft \in Nat]_vars
<1>1. ASSUME SearchInvariant, Next PROVE StepsLeft \in Nat /\ StepsLeft' < StepsLeft
  <2>1. pc = "search" /\ depth_is_sane(arg) => i \in DepthBits \cup {NONE}
    BY <1>1 DEF SearchInvariant, NothingSkipped
  <2>2. pc = "climb" => i \in flag \cup {NONE} /\ depth_is_sane(arg) /\ ~Searching
    <3>1. NONE \in DepthValues  BY DEF DepthValues
    <3> QED BY <1>1, <3>1, SaneDepths DEF SearchInvariant, Climbing
  <2>3. flag \subseteq DepthBits  BY <1>1 DEF SearchInvariant, TypeOK
  <2>4. \A d \in DepthBits \cup {NONE} : d \in Nat /\ d <= GL
    BY DEF DepthBits, GL, NONE
  <2>5. CASE RejectDepth
    BY <2>5 DEF RejectDepth, Return, StepsLeft
  <2>6. CASE ProbeNext
    <3> DEFINE probe == IF i = NONE THEN 1 ELSE 2 * i
    <3>1. /\ call = "next" /\ pc = "search" /\ depth_is_sane(arg) /\ i < GL
          /\ \/ Return(probe)
             \/ i' = probe /\ UNCHANGED <<call, flag, arg, highest, pc, result>>
      BY <2>6 DEF ProbeNext
    <3>2. i < probe /\ probe \in DepthBits  BY <2>1, <3>1, NextProbe
    <3> HIDE DEF probe
    <3>3. i \in Nat /\ probe \in Nat /\ i <= GL /\ probe <= GL /\ GL \in Nat
      BY <2>1, <2>4, <3>1, <3>2 DEF GL
    <3> QED BY <3>1, <3>2, <3>3 DEF StepsLeft, Return
  <2>7. CASE ProbePrev
    <3> DEFINE probe == i \div 2
    <3>1. /\ call = "prev" /\ pc = "search" /\ depth_is_sane(arg) /\ i > NONE
          /\ \/ Return(probe)
             \/ i' = probe /\ UNCHANGED <<call, flag, arg, highest, pc, result>>
      BY <2>7 DEF ProbePrev
    <3>2. probe < i /\ probe \in DepthBits \cup {NONE}
      <4>1. i \in DepthBits  BY <2>1, <3>1 DEF NONE
      <4> QED BY <4>1, PrevProbe
    <3> HIDE DEF probe
    <3>3. i \in Nat /\ probe \in Nat  BY <2>1, <2>4, <3>1, <3>2
    <3> QED BY <3>1, <3>2, <3>3 DEF StepsLeft, Return
  <2>8. CASE Exhausted
    <3>1. pc = "search" /\ depth_is_sane(arg) /\ pc' = "return"  BY <2>8 DEF Exhausted, Return
    <3>2. i \in Nat /\ i <= GL /\ GL \in Nat  BY <2>1, <2>4, <3>1 DEF GL
    <3> QED BY <3>1, <3>2 DEF StepsLeft
  <2>9. CASE Climb
    <3> DEFINE up == depth_get_next(flag, i)
    <3>1. /\ pc = "climb"
          /\ \/ up # i /\ i' = up /\ UNCHANGED <<call, flag, arg, pc, result>>
             \/ pc' = "return"
      BY <2>9 DEF Climb, Return
    <3>2. i \in flag \cup {NONE} /\ depth_is_sane(arg) /\ call # "prev"
      BY <2>2, <3>1 DEF Searching
    <3>3. up # i => up \in flag /\ i < up  BY <2>3, <3>2, ClimbsUp
    <3> HIDE DEF up
    <3>4. i \in Nat /\ i <= GL /\ GL \in Nat /\ (up # i => up \in Nat /\ up <= GL)
      BY <2>3, <2>4, <3>2, <3>3 DEF GL
    <3> QED BY <3>1, <3>2, <3>3, <3>4 DEF StepsLeft
  <2> QED BY <1>1, <2>5, <2>6, <2>7, <2>8, <2>9 DEF Next
<1> QED BY <1>1, SearchSteps, PTL DEF Spec
=============================================================================
