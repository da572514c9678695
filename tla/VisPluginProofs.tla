---------------------------- MODULE VisPluginProofs ----------------------------
(***************************************************************************)
(* The counts of a VisPluginRef agree with what holds it, for every        *)
(* registry and every order of loading, unloading and visual_quit; and the *)
(* search for the next actor without openGL ends, at the nearest one.      *)
(***************************************************************************)
EXTENDS VisPlugin, FiniteSetTheorems, WellFoundedInduction, TLAPS

\* What the counts need to know of the plugins that are loaded.
LoadedOK ==
    /\ plugin \in [Slots -> [ref : Plugins \cup {NULL}, realized : BOOLEAN]]
    /\ refcount \in [Plugins -> Int]
    /\ usecount \in [Plugins -> Int]
    /\ lost \in [Plugins -> Int]

\* Nothing is loaded before visual_init, and nothing is lost before visual_quit.
BeforeQuit ==
    /\ state = "off" => \A p \in Plugins : Instances(p) = {}
    /\ state # "quit" => \A p \in Plugins : lost[p] = 0

Counts == LoadedOK /\ RefsAreCounted /\ UsesAreCounted /\ BeforeQuit

LEMMA ListsAreFinite ==
    ASSUME NEW S, S \subseteq Lists
    PROVE  IsFiniteSet(S) /\ Cardinality(S) \in Nat
<1>1. IsFiniteSet({"actor", "input", "morph", "transform", "all"})
  <2>1. IsFiniteSet({}) BY FS_EmptySet
  <2>2. IsFiniteSet({} \cup {"actor"}) BY <2>1, FS_AddElement
  <2>3. IsFiniteSet(({} \cup {"actor"}) \cup {"input"}) BY <2>2, FS_AddElement
  <2>4. IsFiniteSet((({} \cup {"actor"}) \cup {"input"}) \cup {"morph"}) BY <2>3, FS_AddElement
  <2>5. IsFiniteSet(((({} \cup {"actor"}) \cup {"input"}) \cup {"morph"}) \cup {"transform"})
    BY <2>4, FS_AddElement
  <2>6. IsFiniteSet((((({} \cup {"actor"}) \cup {"input"}) \cup {"morph"}) \cup {"transform"}) \cup {"all"})
    BY <2>5, FS_AddElement
  <2>7. {"actor", "input", "morph", "transform", "all"} =
          ((((({} \cup {"actor"}) \cup {"input"}) \cup {"morph"}) \cup {"transform"}) \cup {"all"})
    OBVIOUS
  <2> QED BY <2>6, <2>7
<1>2. IsFiniteSet(Lists)
  <2>1. Lists = {"actor", "input", "morph", "transform", "all"} BY DEF Lists, Types
  <2> QED BY <1>1, <2>1
<1> QED BY <1>2, FS_Subset, FS_CardinalityType

\* The references of a list are given back or lost.
LEMMA ReferencesOfLists ==
    ASSUME NEW p \in Plugins
    PROVE  /\ Cardinality(ListsOf(p)) =
                  Cardinality(LeavingOf(p)) + Cardinality(ListsOf(p) \ LeavingOf(p))
           /\ Cardinality(ListsOf(p)) \in Nat /\ Cardinality(LeavingOf(p)) \in Nat
           /\ Cardinality(ListsOf(p) \ LeavingOf(p)) \in Nat
<1>1. /\ ListsOf(p) \subseteq Lists /\ LeavingOf(p) \subseteq Lists
      /\ ListsOf(p) \ LeavingOf(p) \subseteq Lists
  BY DEF ListsOf, LeavingOf
<1>2. /\ ListsOf(p) = LeavingOf(p) \cup (ListsOf(p) \ LeavingOf(p))
      /\ LeavingOf(p) \cap (ListsOf(p) \ LeavingOf(p)) = {}
  BY DEF LeavingOf
<1>3. /\ IsFiniteSet(LeavingOf(p)) /\ IsFiniteSet(ListsOf(p) \ LeavingOf(p))
      /\ Cardinality(ListsOf(p)) \in Nat /\ Cardinality(LeavingOf(p)) \in Nat
      /\ Cardinality(ListsOf(p) \ LeavingOf(p)) \in Nat
  BY <1>1, ListsAreFinite
<1>4. Cardinality(LeavingOf(p) \cup (ListsOf(p) \ LeavingOf(p))) =
          Cardinality(LeavingOf(p)) + Cardinality(ListsOf(p) \ LeavingOf(p))
              - Cardinality(LeavingOf(p) \cap (ListsOf(p) \ LeavingOf(p)))
  BY <1>3, FS_Union
<1>5. Cardinality(LeavingOf(p) \cap (ListsOf(p) \ LeavingOf(p))) = 0
  BY <1>2, FS_EmptySet
<1>6. Cardinality(LeavingOf(p) \cup (ListsOf(p) \ LeavingOf(p))) = Cardinality(ListsOf(p))
  BY <1>2
<1> QED BY <1>3, <1>4, <1>5, <1>6

LEMMA InstancesAreFinite ==
    ASSUME NEW p \in Plugins
    PROVE  IsFiniteSet(Instances(p)) /\ Cardinality(Instances(p)) \in Nat
<1>1. IsFiniteSet(Instances(p))
  BY PluginsAssumption, FS_Subset DEF Instances
<1> QED BY <1>1, FS_CardinalityType

\* Loading adds an instance.
LEMMA LoadCounts ==
    ASSUME LoadedOK, NEW s \in Slots, NEW q \in Plugins, plugin[s].ref = NULL,
           plugin' = [plugin EXCEPT ![s] = [ref |-> q, realized |-> FALSE]],
           NEW p \in Plugins
    PROVE  /\ Cardinality(Instances(p)') = Cardinality(Instances(p)) + (IF p = q THEN 1 ELSE 0)
           /\ Instances(p)' = IF p = q THEN Instances(p) \cup {s} ELSE Instances(p)
<1>1. NULL \notin Plugins BY PluginsAssumption
<1>2. \A t \in Slots : plugin'[t].ref = IF t = s THEN q ELSE plugin[t].ref
  BY DEF LoadedOK
<1>3. s \notin Instances(p)
  BY <1>1 DEF Instances
<1>4. Instances(p)' = IF p = q THEN Instances(p) \cup {s} ELSE Instances(p)
  BY <1>1, <1>2 DEF Instances
<1>5. Cardinality(Instances(p) \cup {s}) = Cardinality(Instances(p)) + 1
  BY <1>3, InstancesAreFinite, FS_AddElement
<1> QED BY <1>4, <1>5, InstancesAreFinite

\* Unloading takes one away.
LEMMA UnloadCounts ==
    ASSUME LoadedOK, NEW s \in Slots, plugin[s].ref # NULL,
           plugin' = [plugin EXCEPT ![s] = Unloaded],
           NEW p \in Plugins
    PROVE  /\ Cardinality(Instances(p)') = Cardinality(Instances(p)) - (IF p = plugin[s].ref THEN 1 ELSE 0)
           /\ Instances(p)' \subseteq Instances(p)
           /\ p = plugin[s].ref => Cardinality(Instances(p)) > 0
<1>1. NULL \notin Plugins BY PluginsAssumption
<1>2. \A t \in Slots : plugin'[t].ref = IF t = s THEN NULL ELSE plugin[t].ref
  BY DEF LoadedOK, Unloaded
<1>3. Instances(p)' = Instances(p) \ {s}
  BY <1>1, <1>2 DEF Instances
<1>4. CASE p = plugin[s].ref
  <2>1. s \in Instances(p) BY <1>4 DEF Instances
  <2>2. Cardinality(Instances(p) \ {s}) = Cardinality(Instances(p)) - 1
    BY <2>1, InstancesAreFinite, FS_RemoveElement
  <2>3. Cardinality(Instances(p) \ {s}) \in Nat
    BY InstancesAreFinite, FS_RemoveElement, FS_CardinalityType
  <2> QED BY <1>3, <1>4, <2>2, <2>3, InstancesAreFinite
<1>5. CASE p # plugin[s].ref
  <2>1. Instances(p)' = Instances(p)
    BY <1>2, <1>1, <1>5 DEF Instances
  <2> QED BY <2>1, <1>5, InstancesAreFinite
<1> QED BY <1>4, <1>5

LEMMA InitCounts == Init => Counts
<1> SUFFICES ASSUME Init PROVE Counts OBVIOUS
<1>1. LoadedOK BY DEF Init, LoadedOK, Unloaded
<1>2. \A p \in Plugins : Instances(p) = {} /\ ListsOf(p) = {}
  BY PluginsAssumption DEF Init, Instances, ListsOf, Unloaded, ToSet
<1>3. \A p \in Plugins : Cardinality(Instances(p)) = 0 /\ Cardinality(ListsOf(p)) = 0
  BY <1>2, FS_EmptySet
<1>4. RefsAreCounted BY <1>3 DEF Init, RefsAreCounted
<1>5. UsesAreCounted BY <1>3 DEF Init, UsesAreCounted
<1>6. BeforeQuit BY <1>2 DEF Init, BeforeQuit
<1> QED BY <1>1, <1>4, <1>5, <1>6 DEF Counts

LEMMA LibraryInitCounts == Counts /\ visual_init => Counts'
<1> SUFFICES ASSUME Counts, visual_init PROVE Counts' OBVIOUS
<1>1. \A p \in Plugins : Instances(p)' = Instances(p) /\ Instances(p) = {}
  BY DEF visual_init, Counts, BeforeQuit, Instances
<1>2. \A p \in Plugins : refcount'[p] = Cardinality(ListsOf(p)')
  BY DEF visual_init, ListsOf
<1>3. \A p \in Plugins : Cardinality(ListsOf(p)') \in Nat
  <2> SUFFICES ASSUME NEW p \in Plugins PROVE Cardinality(ListsOf(p)') \in Nat OBVIOUS
  <2>1. ListsOf(p)' \subseteq Lists BY DEF ListsOf
  <2> QED BY <2>1, ListsAreFinite
<1>4. LoadedOK'
  <2>1. refcount' \in [Plugins -> Int] BY <1>2, <1>3 DEF visual_init
  <2> QED BY <2>1 DEF Counts, LoadedOK, visual_init
<1>5. \A p \in Plugins : lost'[p] = 0 /\ Cardinality(Instances(p)') = 0 /\ usecount'[p] = usecount[p]
  BY <1>1, FS_EmptySet DEF visual_init, Counts, BeforeQuit
<1>6. RefsAreCounted'
  BY <1>2, <1>3, <1>5 DEF RefsAreCounted
<1>7. UsesAreCounted'
  BY <1>1, <1>5 DEF Counts, UsesAreCounted
<1> QED BY <1>1, <1>4, <1>5, <1>6, <1>7 DEF Counts, BeforeQuit, visual_init

LEMMA QuitCounts == Counts /\ visual_quit => Counts'
<1> SUFFICES ASSUME Counts, visual_quit PROVE Counts' OBVIOUS
<1>1. \A p \in Plugins : Instances(p)' = Instances(p)
  BY DEF visual_quit, Instances
<1>2. \A p \in Plugins : ListsOf(p)' = {}
  BY DEF visual_quit, ListsOf, ToSet
<1>3. ASSUME NEW p \in Plugins
      PROVE  /\ refcount'[p] = refcount[p] - Cardinality(ListsOf(p) \ LeavingOf(p))
             /\ lost'[p] = Cardinality(LeavingOf(p))
             /\ refcount'[p] \in Int /\ lost'[p] \in Int
             /\ refcount'[p] = Cardinality(Instances(p)) + lost'[p]
  <2>2. refcount[p] = Cardinality(ListsOf(p)) + Cardinality(Instances(p)) + lost[p] /\ lost[p] = 0
    BY DEF Counts, RefsAreCounted, BeforeQuit, visual_quit
  <2>3. refcount[p] \in Int BY DEF Counts, LoadedOK
  <2>4. /\ refcount'[p] = refcount[p] - Cardinality(ListsOf(p) \ LeavingOf(p))
        /\ lost'[p] = Cardinality(LeavingOf(p))
    BY DEF visual_quit
  <2> QED BY <2>2, <2>3, <2>4, ReferencesOfLists, InstancesAreFinite
<1>4. LoadedOK'
  <2>1. refcount' \in [Plugins -> Int] /\ lost' \in [Plugins -> Int]
    BY <1>3 DEF visual_quit
  <2> QED BY <2>1 DEF Counts, LoadedOK, visual_quit
<1>5. RefsAreCounted'
  <2> SUFFICES ASSUME NEW p \in Plugins
               PROVE  refcount'[p] = Cardinality(ListsOf(p)') + Cardinality(Instances(p)') + lost'[p]
    BY DEF RefsAreCounted
  <2>1. Cardinality(ListsOf(p)') = 0 /\ Cardinality(Instances(p)') = Cardinality(Instances(p))
    BY <1>1, <1>2, FS_EmptySet
  <2>2. refcount'[p] = Cardinality(Instances(p)) + lost'[p] /\ lost'[p] \in Int
    BY <1>3
  <2> QED BY <2>1, <2>2, InstancesAreFinite
<1> QED BY <1>1, <1>4, <1>5 DEF Counts, UsesAreCounted, BeforeQuit, visual_quit

LEMMA NewCounts ==
    ASSUME Counts, NEW s \in Slots, NEW l \in Types, NEW n \in Names, NewByName(s, l, n)
    PROVE  Counts'
<1>1. PICK q \in Plugins : visual_plugin_load(s, q)
  BY DEF NewByName
<1>2. /\ plugin[s].ref = NULL /\ ~Refuses(q)
      /\ plugin' = [plugin EXCEPT ![s] = [ref |-> q, realized |-> FALSE]]
      /\ refcount' = [refcount EXCEPT ![q] = @ + 1]
      /\ usecount' = [usecount EXCEPT ![q] = @ + 1]
      /\ state = "on" /\ state' = state /\ lists' = lists /\ lost' = lost
  BY <1>1 DEF visual_plugin_load, NewByName
<1>3. LoadedOK
  BY DEF Counts
<1>4. \A p \in Plugins :
          Cardinality(Instances(p)') = Cardinality(Instances(p)) + (IF p = q THEN 1 ELSE 0)
  BY <1>2, <1>3, LoadCounts
<1>5. LoadedOK'
  BY <1>2, <1>3 DEF LoadedOK
<1>6. ASSUME NEW p \in Plugins
      PROVE  /\ refcount'[p] = refcount[p] + (IF p = q THEN 1 ELSE 0)
             /\ usecount'[p] = usecount[p] + (IF p = q THEN 1 ELSE 0)
             /\ refcount[p] \in Int /\ usecount[p] \in Int /\ lost[p] \in Int
             /\ ListsOf(p)' = ListsOf(p)
  BY <1>2, <1>3 DEF LoadedOK, ListsOf
<1>7. RefsAreCounted'
  <2> SUFFICES ASSUME NEW p \in Plugins
               PROVE  refcount'[p] = Cardinality(ListsOf(p)') + Cardinality(Instances(p)') + lost'[p]
    BY DEF RefsAreCounted
  <2>1. refcount[p] = Cardinality(ListsOf(p)) + Cardinality(Instances(p)) + lost[p]
    BY DEF Counts, RefsAreCounted
  <2>2. /\ Cardinality(Instances(p)') = Cardinality(Instances(p)) + (IF p = q THEN 1 ELSE 0)
        /\ refcount'[p] = refcount[p] + (IF p = q THEN 1 ELSE 0)
        /\ refcount[p] \in Int /\ lost[p] \in Int
    BY <1>4, <1>6
  <2>3. Cardinality(ListsOf(p)') = Cardinality(ListsOf(p)) /\ lost'[p] = lost[p]
    BY <1>2, <1>6
  <2>4. Cardinality(ListsOf(p)) \in Nat /\ Cardinality(Instances(p)) \in Nat
    BY ReferencesOfLists, InstancesAreFinite
  <2> QED BY <2>1, <2>2, <2>3, <2>4
<1>8. UsesAreCounted'
  <2> SUFFICES ASSUME NEW p \in Plugins
               PROVE  /\ usecount'[p] = Cardinality(Instances(p)')
                      /\ p \in NotReentrant => Cardinality(Instances(p)') <= 1
    BY DEF UsesAreCounted
  <2>1. /\ usecount[p] = Cardinality(Instances(p))
        /\ p \in NotReentrant => Cardinality(Instances(p)) <= 1
    BY DEF Counts, UsesAreCounted
  <2>2. p = q /\ p \in NotReentrant => Cardinality(Instances(p)) = 0
    BY <1>2, <2>1, InstancesAreFinite DEF Refuses
  <2> QED BY <1>4, <1>6, <2>1, <2>2, InstancesAreFinite
<1> QED BY <1>2, <1>5, <1>7, <1>8 DEF Counts, BeforeQuit

LEMMA UnloadKeepsCounts ==
    ASSUME Counts, NEW s \in Slots, visual_plugin_unload(s)
    PROVE  Counts'
<1> DEFINE q == plugin[s].ref
<1>1. /\ q # NULL
      /\ plugin' = [plugin EXCEPT ![s] = Unloaded]
      /\ refcount' = [refcount EXCEPT ![q] = @ - 1]
      /\ usecount' = [usecount EXCEPT ![q] = IF @ > 0 THEN @ - 1 ELSE @]
      /\ state' = state /\ lists' = lists /\ lost' = lost
  BY DEF visual_plugin_unload
<1>2. LoadedOK
  BY DEF Counts
<1>3. q \in Plugins
  BY <1>1, <1>2 DEF LoadedOK
<1>4. ASSUME NEW p \in Plugins
      PROVE  /\ Cardinality(Instances(p)') = Cardinality(Instances(p)) - (IF p = q THEN 1 ELSE 0)
             /\ Instances(p)' \subseteq Instances(p)
             /\ p = q => Cardinality(Instances(p)) > 0
  BY <1>1, <1>2, UnloadCounts
<1> HIDE DEF q
<1>5. LoadedOK'
  <2>1. refcount' \in [Plugins -> Int] /\ usecount' \in [Plugins -> Int] /\ lost' \in [Plugins -> Int]
    BY <1>1, <1>2, <1>3 DEF LoadedOK
  <2>2. [ref |-> NULL, realized |-> FALSE] \in [ref : Plugins \cup {NULL}, realized : BOOLEAN]
    OBVIOUS
  <2>3. plugin' \in [Slots -> [ref : Plugins \cup {NULL}, realized : BOOLEAN]]
    BY <1>1, <1>2, <2>2 DEF LoadedOK, Unloaded
  <2> QED BY <2>1, <2>3 DEF LoadedOK
<1>6. ASSUME NEW p \in Plugins
      PROVE  /\ usecount[p] = Cardinality(Instances(p))
             /\ refcount'[p] = refcount[p] - (IF p = q THEN 1 ELSE 0)
             /\ usecount'[p] = usecount[p] - (IF p = q THEN 1 ELSE 0)
             /\ refcount[p] \in Int /\ usecount[p] \in Int /\ lost[p] \in Int
             /\ ListsOf(p)' = ListsOf(p)
  <2>1. usecount[p] = Cardinality(Instances(p))
    BY DEF Counts, UsesAreCounted
  <2>2. p = q => usecount[p] > 0
    BY <1>4, <2>1
  <2> QED BY <1>1, <1>2, <1>3, <2>1, <2>2 DEF LoadedOK, ListsOf
<1>7. RefsAreCounted'
  <2> SUFFICES ASSUME NEW p \in Plugins
               PROVE  refcount'[p] = Cardinality(ListsOf(p)') + Cardinality(Instances(p)') + lost'[p]
    BY DEF RefsAreCounted
  <2>1. refcount[p] = Cardinality(ListsOf(p)) + Cardinality(Instances(p)) + lost[p]
    BY DEF Counts, RefsAreCounted
  <2>2. /\ Cardinality(Instances(p)') = Cardinality(Instances(p)) - (IF p = q THEN 1 ELSE 0)
        /\ refcount'[p] = refcount[p] - (IF p = q THEN 1 ELSE 0)
        /\ refcount[p] \in Int /\ lost[p] \in Int
    BY <1>4, <1>6
  <2>3. Cardinality(ListsOf(p)') = Cardinality(ListsOf(p)) /\ lost'[p] = lost[p]
    BY <1>1, <1>6
  <2>4. Cardinality(ListsOf(p)) \in Nat /\ Cardinality(Instances(p)) \in Nat
    BY ReferencesOfLists, InstancesAreFinite
  <2> QED BY <2>1, <2>2, <2>3, <2>4
<1>8. UsesAreCounted'
  <2> SUFFICES ASSUME NEW p \in Plugins
               PROVE  /\ usecount'[p] = Cardinality(Instances(p)')
                      /\ p \in NotReentrant => Cardinality(Instances(p)') <= 1
    BY DEF UsesAreCounted
  <2>1. p \in NotReentrant => Cardinality(Instances(p)) <= 1
    BY DEF Counts, UsesAreCounted
  <2> QED BY <1>4, <1>6, <2>1, InstancesAreFinite
<1>9. BeforeQuit'
  BY <1>1, <1>4 DEF Counts, BeforeQuit
<1> QED BY <1>5, <1>7, <1>8, <1>9 DEF Counts

LEMMA RealizeKeepsCounts ==
    ASSUME Counts, NEW s \in Slots, visual_plugin_realize(s)
    PROVE  Counts'
<1>1. LoadedOK'
  BY DEF visual_plugin_realize, Counts, LoadedOK
<1>2. \A p \in Plugins : Instances(p)' = Instances(p) /\ ListsOf(p)' = ListsOf(p)
  BY DEF visual_plugin_realize, Counts, LoadedOK, Instances, ListsOf
<1> QED BY <1>1, <1>2
       DEF visual_plugin_realize, Counts, RefsAreCounted, UsesAreCounted, BeforeQuit

LEMMA ClientKeepsCounts == Counts /\ UNCHANGED registry => Counts'
<1> SUFFICES ASSUME Counts, UNCHANGED registry PROVE Counts' OBVIOUS
<1>1. \A p \in Plugins : Instances(p)' = Instances(p) /\ ListsOf(p)' = ListsOf(p)
  BY DEF registry, Instances, ListsOf
<1> QED BY <1>1 DEF registry, Counts, LoadedOK, RefsAreCounted, UsesAreCounted, BeforeQuit

LEMMA NextCounts == Counts /\ [Next]_vars => Counts'
<1> SUFFICES ASSUME Counts, [Next]_vars PROVE Counts' OBVIOUS
<1>1. CASE visual_init BY <1>1, LibraryInitCounts
<1>2. CASE visual_quit BY <1>2, QuitCounts
<1>3. CASE Loading BY <1>3, NewCounts, RealizeKeepsCounts, UnloadKeepsCounts DEF Loading
<1>4. CASE Stepping BY <1>4, ClientKeepsCounts DEF Stepping, v_cycleActor, BeginWalk
<1>5. CASE visual_actor_get_next_by_name_nogl
  BY <1>5, ClientKeepsCounts DEF visual_actor_get_next_by_name_nogl
<1>6. CASE UNCHANGED vars BY <1>6, ClientKeepsCounts DEF vars, registry
<1> QED BY <1>1, <1>2, <1>3, <1>4, <1>5, <1>6 DEF Next

LEMMA CountsHold == Spec => []Counts
<1> QED BY InitCounts, NextCounts, PTL DEF Spec

\* A VisPluginRef counts its lists, the plugins loaded from it and what a list
\* left, so that visual_quit never frees one in use (lv_plugin.c:573).
THEOREM RefsAlwaysCounted == Spec => []RefsAreCounted
BY CountsHold, PTL DEF Counts

\* The use count is exact, and a plugin that is not reentrant is loaded once at
\* a time (lv_plugin.c:513).
THEOREM UsesAlwaysCounted == Spec => []UsesAreCounted
BY CountsHold, PTL DEF Counts

-----------------------------------------------------------------------------
(* Stepping from name to name.                                               *)

\* The list of the actors.
ActorList == visual_plugin_registry_filter(Found, "actor")
NrActors == Len(ActorList)
ActorNames == {NameOf[p] : p \in {q \in Plugins : TypeOf[q] = "actor"}}

\* No two actors have one name.
NamesApart ==
    \A p, q \in Plugins :
        TypeOf[p] = "actor" /\ TypeOf[q] = "actor" /\ NameOf[p] = NameOf[q] => p = q

\* The loop of visual_plugin_registry_filter, up to entry m.
IsKept(m, f) ==
    f = [n \in 0..m |-> IF n = 0 THEN <<>>
                        ELSE IF TypeOf[Found[n]] = "actor" THEN Append(f[n - 1], Found[n])
                        ELSE f[n - 1]]

\* What it has filtered after n entries.
Filtered(list, n) ==
    /\ list \in Seq(Plugins)
    /\ \A i \in 1..Len(list) : \E k \in 1..n : list[i] = Found[k] /\ TypeOf[Found[k]] = "actor"
    /\ \A k \in 1..n : TypeOf[Found[k]] = "actor" => \E i \in 1..Len(list) : list[i] = Found[k]
    /\ \A i, j \in 1..Len(list) : list[i] = list[j] => i = j

\* A set of numbers that has 0 and with each number the next one has them all:
\* the least number it had not would have one before it.
LEMMA NatSetInduction ==
    ASSUME NEW S, 0 \in S, \A n \in Nat : n \in S => n + 1 \in S
    PROVE  \A n \in Nat : n \in S
<1> DEFINE R == {ss \in Nat \X Nat : ss[1] < ss[2]}
           T == {n \in Nat : n \notin S}
<1>1. SUFFICES ASSUME T # {} PROVE FALSE  OBVIOUS
<1>2. IsWellFoundedOn(R, Nat)  BY NatLessThanWellFounded, Zenon DEF OpToRel
<1>3. T \subseteq Nat  OBVIOUS
<1>4. \A x, y \in Nat : x < y => <<x, y>> \in R  OBVIOUS
<1> HIDE DEF R, T
<1>5. PICK x \in T : \A y \in T : ~(<<y, x>> \in R)  BY <1>1, <1>2, <1>3, WFMin
<1>6. x \in Nat /\ x \notin S  BY DEF T
<1>7. x # 0  BY <1>6
<1>8. x - 1 \in Nat /\ (x - 1) + 1 = x  BY <1>6, <1>7
<1>9. x - 1 \notin S  BY <1>6, <1>8
<1>10. x - 1 \in T  BY <1>8, <1>9 DEF T
<1>11. <<x - 1, x>> \in R  BY <1>4, <1>6, <1>8
<1> QED BY <1>5, <1>10, <1>11

\* An actor more on the list.
LEMMA FilterActor ==
    ASSUME NEW m \in Nat, m + 1 <= Len(Found), NEW list, Filtered(list, m), TypeOf[Found[m + 1]] = "actor"
    PROVE  Filtered(Append(list, Found[m + 1]), m + 1)
<1>1. /\ Found \in Seq(Plugins) /\ Len(Found) \in Nat /\ m + 1 \in 1..Len(Found) /\ Found[m + 1] \in Plugins
      /\ \A a, b \in 1..Len(Found) : Found[a] = Found[b] => a = b
  BY PluginsAssumption DEF IsInjective
<1>2. list \in Seq(Plugins) /\ Len(list) \in Nat  BY DEF Filtered
<1> DEFINE longer == Append(list, Found[m + 1])
<1>3. /\ longer \in Seq(Plugins) /\ Len(longer) = Len(list) + 1
      /\ \A i \in 1..Len(list) : longer[i] = list[i]
      /\ longer[Len(list) + 1] = Found[m + 1]
  BY <1>1, <1>2
<1> HIDE DEF longer
<1>4. ASSUME NEW i \in 1..Len(longer)
      PROVE  \E k \in 1..m + 1 : longer[i] = Found[k] /\ TypeOf[Found[k]] = "actor"
  <2>1. CASE i = Len(list) + 1  BY <1>3, <2>1
  <2>2. CASE i \in 1..Len(list)
    <3>1. PICK k \in 1..m : list[i] = Found[k] /\ TypeOf[Found[k]] = "actor"  BY <2>2 DEF Filtered
    <3>2. k \in 1..m + 1  BY <3>1
    <3>3. longer[i] = list[i]  BY <1>3, <2>2
    <3> QED BY <3>1, <3>2, <3>3
  <2>3. i = Len(list) + 1 \/ i \in 1..Len(list)
    <3>1. Len(longer) = Len(list) + 1 /\ Len(list) \in Nat  BY <1>2, <1>3
    <3> QED BY <3>1
  <2> QED BY <2>1, <2>2, <2>3
<1>5. ASSUME NEW k \in 1..m + 1, TypeOf[Found[k]] = "actor"
      PROVE  \E i \in 1..Len(longer) : longer[i] = Found[k]
  <2>1. CASE k = m + 1  BY <1>2, <1>3, <2>1
  <2>2. CASE k \in 1..m
    <3>1. PICK i \in 1..Len(list) : list[i] = Found[k]  BY <1>5, <2>2 DEF Filtered
    <3> QED BY <1>2, <1>3, <3>1
  <2> QED BY <2>1, <2>2
<1>6. ASSUME NEW i \in 1..Len(list) PROVE list[i] # Found[m + 1]
  <2>1. PICK k \in 1..m : list[i] = Found[k]  BY DEF Filtered
  <2>2. k \in 1..Len(Found) /\ k # m + 1  BY <1>1
  <2> QED BY <1>1, <2>1, <2>2
<1>7. ASSUME NEW i \in 1..Len(longer), NEW j \in 1..Len(longer), longer[i] = longer[j] PROVE i = j
  <2>1. CASE i \in 1..Len(list) /\ j \in 1..Len(list)
    <3>1. list[i] = list[j]  BY <1>3, <1>7, <2>1
    <3> QED BY <2>1, <3>1 DEF Filtered
  <2>2. CASE i = Len(list) + 1 /\ j = Len(list) + 1  BY <2>2
  <2>3. CASE i = Len(list) + 1 /\ j \in 1..Len(list)  BY <1>3, <1>6, <1>7, <2>3
  <2>4. CASE j = Len(list) + 1 /\ i \in 1..Len(list)  BY <1>3, <1>6, <1>7, <2>4
  <2> QED BY <1>2, <1>3, <2>1, <2>2, <2>3, <2>4
<1>8. Filtered(longer, m + 1)  BY <1>3, <1>4, <1>5, <1>7 DEF Filtered
<1> QED BY <1>8 DEF longer

\* Another plugin is not.
LEMMA FilterOther ==
    ASSUME NEW m \in Nat, m + 1 <= Len(Found), NEW list, Filtered(list, m), TypeOf[Found[m + 1]] # "actor"
    PROVE  Filtered(list, m + 1)
<1>1. ASSUME NEW k \in 1..m + 1, TypeOf[Found[k]] = "actor" PROVE k \in 1..m
  <2>1. k # m + 1  BY <1>1
  <2> QED BY <2>1
<1>2. \A k \in 1..m : k \in 1..m + 1  OBVIOUS
<1>3. ASSUME NEW i \in 1..Len(list)
      PROVE  \E k \in 1..m + 1 : list[i] = Found[k] /\ TypeOf[Found[k]] = "actor"
  <2>1. PICK k \in 1..m : list[i] = Found[k] /\ TypeOf[Found[k]] = "actor"  BY DEF Filtered
  <2> QED BY <1>2, <2>1
<1>4. ASSUME NEW k \in 1..m + 1, TypeOf[Found[k]] = "actor"
      PROVE  \E i \in 1..Len(list) : list[i] = Found[k]
  BY <1>1, <1>4 DEF Filtered
<1> QED BY <1>3, <1>4 DEF Filtered

\* The recursion of the filter has a solution, and what it is.
LEMMA KeptExists ==
    \E f : IsKept(Len(Found), f)
<1> DEFINE Has(m, f) == IsKept(m, f)
           S == {m \in Nat : \E f : Has(m, f)}
<1>0. Len(Found) \in Nat  BY PluginsAssumption
<1>1. 0 \in S
  <2> DEFINE f == [n \in 0..0 |-> <<>>]
  <2>1. \A n \in 0..0 : n = 0 /\ f[n] = <<>>  OBVIOUS
  <2>2. f = [n \in 0..0 |-> IF n = 0 THEN <<>>
                            ELSE IF TypeOf[Found[n]] = "actor" THEN Append(f[n - 1], Found[n])
                            ELSE f[n - 1]]
    BY <2>1
  <2> HIDE DEF f
  <2>3. Has(0, f)  BY <2>2 DEF IsKept
  <2> QED BY <2>3
<1>2. ASSUME NEW m \in Nat, m \in S PROVE m + 1 \in S
  <2>1. PICK f : Has(m, f)  BY <1>2
  <2> DEFINE last == IF TypeOf[Found[m + 1]] = "actor" THEN Append(f[m], Found[m + 1]) ELSE f[m]
             g == [n \in 0..m + 1 |-> IF n <= m THEN f[n] ELSE last]
  <2>2. \A n \in 0..m : f[n] = IF n = 0 THEN <<>>
                               ELSE IF TypeOf[Found[n]] = "actor" THEN Append(f[n - 1], Found[n])
                               ELSE f[n - 1]
    <3>1. f = [n \in 0..m |-> IF n = 0 THEN <<>>
                              ELSE IF TypeOf[Found[n]] = "actor" THEN Append(f[n - 1], Found[n])
                              ELSE f[n - 1]]
      BY <2>1 DEF IsKept
    <3> QED BY <3>1, Zenon
  <2>3. /\ \A n \in 0..m : n \in 0..m + 1 /\ g[n] = f[n]
        /\ g[m + 1] = last
    OBVIOUS
  <2>4. ASSUME NEW n \in 0..m + 1
        PROVE  g[n] = IF n = 0 THEN <<>>
                      ELSE IF TypeOf[Found[n]] = "actor" THEN Append(g[n - 1], Found[n])
                      ELSE g[n - 1]
    <3>1. CASE n = m + 1
      <4>1. n # 0 /\ n - 1 = m /\ m \in 0..m  BY <3>1
      <4>2. g[n - 1] = f[m] /\ g[n] = last  BY <2>3, <3>1, <4>1
      <4> HIDE DEF g
      <4> QED BY <3>1, <4>1, <4>2
    <3>2. CASE n \in 1..m
      <4>1. n \in 0..m /\ n - 1 \in 0..m /\ n # 0  BY <3>2
      <4>2. g[n - 1] = f[n - 1] /\ g[n] = f[n]  BY <2>3, <4>1
      <4> HIDE DEF g
      <4> QED BY <2>2, <4>1, <4>2
    <3>3. CASE n = 0
      <4>1. g[0] = f[0] /\ 0 \in 0..m  BY <2>3
      <4> HIDE DEF g
      <4> QED BY <2>2, <3>3, <4>1
    <3> QED BY <3>1, <3>2, <3>3
  <2>5. g = [n \in 0..m + 1 |-> g[n]]  OBVIOUS
  <2> HIDE DEF g
  <2>6. Has(m + 1, g)  BY <2>4, <2>5 DEF IsKept
  <2> QED BY <2>6
<1> HIDE DEF Has
<1>3. \A m \in Nat : m \in S
  <2> HIDE DEF S
  <2> QED BY <1>1, <1>2, NatSetInduction
<1> QED BY <1>0, <1>3 DEF Has

\* The list of the actors has each of them once, and nothing else.
LEMMA ActorsListed == Filtered(ActorList, Len(Found))
<1> DEFINE f == CHOOSE g : IsKept(Len(Found), g)
<1>0. Found \in Seq(Plugins) /\ Len(Found) \in Nat  BY PluginsAssumption
<1>1. ActorList = f[Len(Found)]  BY DEF ActorList, visual_plugin_registry_filter, IsKept
<1>2. IsKept(Len(Found), f)
  <2>1. \E g : IsKept(Len(Found), g)  BY KeptExists
  <2> QED BY <2>1, Zenon
<1> HIDE DEF f
<1>3. \A n \in 0..Len(Found) : f[n] = IF n = 0 THEN <<>>
                               ELSE IF TypeOf[Found[n]] = "actor" THEN Append(f[n - 1], Found[n])
                               ELSE f[n - 1]
  <2>1. f = [n \in 0..Len(Found) |-> IF n = 0 THEN <<>>
                              ELSE IF TypeOf[Found[n]] = "actor" THEN Append(f[n - 1], Found[n])
                              ELSE f[n - 1]]
    BY <1>2 DEF IsKept
  <2> QED BY <2>1, Zenon
<1> DEFINE S == {n \in Nat : n <= Len(Found) => Filtered(f[n], n)}
<1>4. 0 \in S
  <2>1. f[0] = <<>>  BY <1>0, <1>3
  <2>2. <<>> \in Seq(Plugins) /\ Len(<<>>) = 0  OBVIOUS
  <2>3. Filtered(<<>>, 0)  BY <2>2 DEF Filtered
  <2> QED BY <2>1, <2>3
<1>5. ASSUME NEW n \in Nat, n \in S PROVE n + 1 \in S
  <2> SUFFICES ASSUME n + 1 <= Len(Found) PROVE Filtered(f[n + 1], n + 1)  OBVIOUS
  <2>1. Filtered(f[n], n)  BY <1>0, <1>5
  <2>2. n + 1 \in 0..Len(Found) /\ n + 1 # 0 /\ (n + 1) - 1 = n  BY <1>0
  <2>3. CASE TypeOf[Found[n + 1]] = "actor"
    <3>1. f[n + 1] = Append(f[n], Found[n + 1])  BY <1>3, <2>2, <2>3
    <3>2. Filtered(Append(f[n], Found[n + 1]), n + 1)  BY <2>1, <2>3, FilterActor
    <3> QED BY <3>1, <3>2
  <2>4. CASE TypeOf[Found[n + 1]] # "actor"
    <3>1. f[n + 1] = f[n]  BY <1>3, <2>2, <2>4
    <3>2. Filtered(f[n], n + 1)  BY <2>1, <2>4, FilterOther
    <3> QED BY <3>1, <3>2
  <2> QED BY <2>3, <2>4
<1> HIDE DEF S
<1>6. \A n \in Nat : n \in S  BY <1>4, <1>5, NatSetInduction
<1> QED BY <1>0, <1>1, <1>6 DEF S

-----------------------------------------------------------------------------
(* The way of a step: the actors in the order in which they come.            *)

Ways == {"next", "prev"}

Nth(d, r) == IF d = "next" THEN ActorList[r] ELSE ActorList[NrActors + 1 - r]

\* How many steps from the end of the list where it begins; NULL is before it.
Rank(d, n) == IF n = NULL THEN 0 ELSE CHOOSE r \in 1..NrActors : NameOf[Nth(d, r)] = n

\* The actors that the search has left behind, after its turn at the end those
\* before it as well.
Passed ==
    {r \in 1..NrActors : IF walk.wrapped THEN r > Rank(dir, name) \/ r <= Rank(dir, walk.at)
                         ELSE Rank(dir, name) < r /\ r <= Rank(dir, walk.at)}

\* The client's name is an actor's, and so is where the search is; it has left
\* behind nothing but actors that need openGL.
WalkInvariant ==
    /\ state \in {"off", "on", "quit"} /\ dir \in Ways /\ crashed \in BOOLEAN
    /\ state = "on" => lists["actor"] = ActorList
    /\ name \in ActorNames \cup {NULL}
    /\ walk # NULL =>
          /\ state = "on"
          /\ walk \in [at : ActorNames \cup {NULL}, wrapped : BOOLEAN]
          /\ ~walk.wrapped => Rank(dir, name) <= Rank(dir, walk.at)
          /\ \A r \in Passed : Nth(dir, r) \in GL

\* Rounds of the search that are left at most: to the end of the list, and once
\* more through all of it.
WalkLeft == (IF walk.wrapped THEN 0 ELSE NrActors + 1) + (NrActors - Rank(dir, walk.at))

\* Between the two names, in the direction of the step and over the end of the
\* list where the step goes there.
Between(r) ==
    IF Rank(dir, name) < Rank(dir, name') THEN Rank(dir, name) < r /\ r < Rank(dir, name')
    ELSE r > Rank(dir, name) \/ r < Rank(dir, name')

\* Where a search ends.
FoundNearest ==
    IF name' = NULL THEN \A p \in Plugins : TypeOf[p] = "actor" => p \in GL
    ELSE /\ \E p \in Plugins \ GL : TypeOf[p] = "actor" /\ name' = NameOf[p]
         /\ \A r \in 1..NrActors : Between(r) => Nth(dir, r) \in GL

\* The actors in their order, for either direction.
LEMMA NthActors ==
    ASSUME NamesApart, NEW d \in Ways
    PROVE  /\ NrActors \in Nat
           /\ \A r \in 1..NrActors : /\ Nth(d, r) \in Plugins /\ TypeOf[Nth(d, r)] = "actor"
                                     /\ NameOf[Nth(d, r)] \in ActorNames /\ Rank(d, NameOf[Nth(d, r)]) = r
           /\ \A p \in Plugins : TypeOf[p] = "actor" => \E r \in 1..NrActors : Nth(d, r) = p
           /\ NULL \notin ActorNames /\ Rank(d, NULL) = 0
           /\ \A n \in ActorNames : Rank(d, n) \in 1..NrActors /\ NameOf[Nth(d, Rank(d, n))] = n
<1>0. /\ ActorList \in Seq(Plugins) /\ NrActors \in Nat /\ NrActors = Len(ActorList)
      /\ \A i \in 1..NrActors : ActorList[i] \in Plugins /\ TypeOf[ActorList[i]] = "actor"
      /\ \A i, j \in 1..NrActors : ActorList[i] = ActorList[j] => i = j
      /\ \A p \in Plugins : TypeOf[p] = "actor" => \E i \in 1..NrActors : ActorList[i] = p
  <2>1. Filtered(ActorList, Len(Found))  BY ActorsListed
  <2>2. ActorList \in Seq(Plugins)  BY <2>1 DEF Filtered
  <2>3. NrActors \in Nat /\ NrActors = Len(ActorList)  BY <2>2 DEF NrActors
  <2>4. \A i \in 1..NrActors : ActorList[i] \in Plugins /\ TypeOf[ActorList[i]] = "actor"
    <3> SUFFICES ASSUME NEW i \in 1..NrActors PROVE ActorList[i] \in Plugins /\ TypeOf[ActorList[i]] = "actor"
      OBVIOUS
    <3>1. PICK k \in 1..Len(Found) : ActorList[i] = Found[k] /\ TypeOf[Found[k]] = "actor"
      BY <2>1, <2>3 DEF Filtered
    <3> QED BY <2>2, <2>3, <3>1
  <2>5. \A i, j \in 1..NrActors : ActorList[i] = ActorList[j] => i = j  BY <2>1, <2>3 DEF Filtered
  <2>6. ASSUME NEW p \in Plugins, TypeOf[p] = "actor" PROVE \E i \in 1..NrActors : ActorList[i] = p
    <3>1. PICK k \in 1..Len(Found) : Found[k] = p
      BY PluginsAssumption DEF ToSet
    <3> QED BY <2>1, <2>3, <2>6, <3>1 DEF Filtered
  <2> QED BY <2>2, <2>3, <2>4, <2>5, <2>6
<1>1. /\ \A r \in 1..NrActors : Nth(d, r) \in Plugins /\ TypeOf[Nth(d, r)] = "actor"
      /\ \A r, s \in 1..NrActors : Nth(d, r) = Nth(d, s) => r = s
      /\ \A p \in Plugins : TypeOf[p] = "actor" => \E r \in 1..NrActors : Nth(d, r) = p
  <2>1. CASE d = "next"
    <3>1. \A r \in 1..NrActors : Nth(d, r) = ActorList[r]  BY <2>1 DEF Nth
    <3> QED BY <1>0, <3>1
  <2>2. CASE d = "prev"
    <3>1. \A r \in 1..NrActors : Nth(d, r) = ActorList[NrActors + 1 - r]  BY <2>2 DEF Nth
    <3>2. \A r \in 1..NrActors : NrActors + 1 - r \in 1..NrActors /\ NrActors + 1 - (NrActors + 1 - r) = r
      BY <1>0
    <3>3. \A r, s \in 1..NrActors : NrActors + 1 - r = NrActors + 1 - s => r = s  BY <1>0
    <3>4. ASSUME NEW p \in Plugins, TypeOf[p] = "actor" PROVE \E r \in 1..NrActors : Nth(d, r) = p
      <4>1. PICK i \in 1..NrActors : ActorList[i] = p  BY <1>0, <3>4
      <4>2. Nth(d, NrActors + 1 - i) = ActorList[i] /\ NrActors + 1 - i \in 1..NrActors
        BY <3>1, <3>2
      <4> QED BY <4>1, <4>2
    <3>5. \A r \in 1..NrActors : Nth(d, r) \in Plugins /\ TypeOf[Nth(d, r)] = "actor"  BY <1>0, <3>1, <3>2
    <3>6. \A r, s \in 1..NrActors : Nth(d, r) = Nth(d, s) => r = s
      <4> SUFFICES ASSUME NEW r \in 1..NrActors, NEW s \in 1..NrActors, Nth(d, r) = Nth(d, s) PROVE r = s
        OBVIOUS
      <4>1. ActorList[NrActors + 1 - r] = ActorList[NrActors + 1 - s]  BY <3>1
      <4>2. NrActors + 1 - r = NrActors + 1 - s  BY <1>0, <3>2, <4>1
      <4> QED BY <3>3, <4>2
    <3> QED BY <3>4, <3>5, <3>6
  <2> QED BY <2>1, <2>2 DEF Ways
<1>2. NULL \notin ActorNames
  BY PluginsAssumption DEF ActorNames, Names
<1>3. \A r \in 1..NrActors : NameOf[Nth(d, r)] \in ActorNames  BY <1>1 DEF ActorNames
<1>4. \A r, s \in 1..NrActors : NameOf[Nth(d, r)] = NameOf[Nth(d, s)] => r = s
  <2> SUFFICES ASSUME NEW r \in 1..NrActors, NEW s \in 1..NrActors, NameOf[Nth(d, r)] = NameOf[Nth(d, s)] PROVE r = s
    OBVIOUS
  <2>1. Nth(d, r) = Nth(d, s)  BY <1>1 DEF NamesApart
  <2> QED BY <1>1, <2>1
<1>5. ASSUME NEW r \in 1..NrActors PROVE Rank(d, NameOf[Nth(d, r)]) = r
  <2>1. NameOf[Nth(d, r)] # NULL  BY <1>2, <1>3
  <2>2. Rank(d, NameOf[Nth(d, r)]) = CHOOSE s \in 1..NrActors : NameOf[Nth(d, s)] = NameOf[Nth(d, r)]
    BY <2>1 DEF Rank
  <2>3. \E s \in 1..NrActors : NameOf[Nth(d, s)] = NameOf[Nth(d, r)]  OBVIOUS
  <2>4. LET s == CHOOSE s \in 1..NrActors : NameOf[Nth(d, s)] = NameOf[Nth(d, r)]
        IN  s \in 1..NrActors /\ NameOf[Nth(d, s)] = NameOf[Nth(d, r)]
    BY <2>3, Zenon
  <2> QED BY <1>4, <2>2, <2>4
<1>6. ASSUME NEW n \in ActorNames PROVE Rank(d, n) \in 1..NrActors /\ NameOf[Nth(d, Rank(d, n))] = n
  <2>1. PICK p \in Plugins : TypeOf[p] = "actor" /\ NameOf[p] = n  BY DEF ActorNames
  <2>2. PICK r \in 1..NrActors : Nth(d, r) = p  BY <1>1, <2>1
  <2>3. n = NameOf[Nth(d, r)]  BY <2>1, <2>2
  <2>4. Rank(d, n) = r  BY <1>5, <2>3
  <2> QED BY <2>3, <2>4
<1>7. Rank(d, NULL) = 0  BY DEF Rank
<1> QED BY <1>0, <1>1, <1>2, <1>3, <1>5, <1>6, <1>7

\* Where names are apart, a name is at one place of the list.
LEMMA PlaceOfName ==
    ASSUME NamesApart, NEW d \in Ways, NEW i \in 1..NrActors
    PROVE  /\ {k \in 1..Len(ActorList) : NameOf[ActorList[k]] = NameOf[ActorList[i]]} = {i}
           /\ \A j \in {i} : j = i
           /\ (CHOOSE k \in {i} : \A j \in {i} : k <= j) = i
<1>1. NrActors = Len(ActorList) /\ NrActors \in Nat  BY NthActors DEF NrActors
<1>2. ASSUME NEW k \in 1..NrActors, NameOf[ActorList[k]] = NameOf[ActorList[i]] PROVE k = i
  <2>1. CASE d = "next"
    <3>1. Nth(d, k) = ActorList[k] /\ Nth(d, i) = ActorList[i]  BY <2>1 DEF Nth
    <3>2. Rank(d, NameOf[Nth(d, k)]) = k /\ Rank(d, NameOf[Nth(d, i)]) = i  BY NthActors
    <3> QED BY <1>2, <3>1, <3>2
  <2>2. CASE d = "prev"
    <3> DEFINE a == NrActors + 1 - k
               b == NrActors + 1 - i
    <3>1. /\ a \in 1..NrActors /\ b \in 1..NrActors
          /\ NrActors + 1 - a = k /\ NrActors + 1 - b = i /\ (a = b => k = i)
      BY <1>1
    <3> HIDE DEF a, b
    <3>2. Nth(d, a) = ActorList[k] /\ Nth(d, b) = ActorList[i]  BY <2>2, <3>1 DEF Nth
    <3>3. Rank(d, NameOf[Nth(d, a)]) = a /\ Rank(d, NameOf[Nth(d, b)]) = b  BY <3>1, NthActors
    <3> QED BY <1>2, <3>1, <3>2, <3>3
  <2> QED BY <2>1, <2>2 DEF Ways
<1>3. {k \in 1..Len(ActorList) : NameOf[ActorList[k]] = NameOf[ActorList[i]]} = {i}  BY <1>1, <1>2
<1>4. (CHOOSE k \in {i} : \A j \in {i} : k <= j) = i
  <2>1. \E k \in {i} : \A j \in {i} : k <= j  OBVIOUS
  <2> QED BY <2>1, Zenon
<1> QED BY <1>3, <1>4

\* What the three searches of the list give for the name at place i.
LEMMA SearchesOfList ==
    ASSUME NamesApart, NEW d \in Ways, NEW i \in 1..NrActors
    PROVE  /\ visual_plugin_find(ActorList, NameOf[ActorList[i]]) = ActorList[i]
           /\ visual_plugin_get_next_by_name(ActorList, NameOf[ActorList[i]]) =
                 IF i = NrActors THEN NULL ELSE NameOf[ActorList[i + 1]]
           /\ visual_plugin_get_prev_by_name(ActorList, NameOf[ActorList[i]]) =
                 IF i = 1 THEN NULL ELSE NameOf[ActorList[i - 1]]
<1> DEFINE named == {k \in 1..Len(ActorList) : NameOf[ActorList[k]] = NameOf[ActorList[i]]}
           first == CHOOSE k \in named : \A j \in named : k <= j
<1>1. named = {i}  BY PlaceOfName
<1>2. first = i  BY <1>1, PlaceOfName
<1>3. named # {}  BY <1>1
<1>4. ActorList # <<>> /\ Len(ActorList) = NrActors
  <2>1. NrActors \in Nat /\ Len(ActorList) = NrActors  BY NthActors DEF NrActors
  <2>2. Len(<<>>) = 0  OBVIOUS
  <2> QED BY <2>1, <2>2
<1>5. NameOf[ActorList[i]] # NULL
  <2>1. PICK r \in 1..NrActors : Nth(d, r) = ActorList[i]
    <3>1. CASE d = "next"  BY <3>1 DEF Nth
    <3>2. CASE d = "prev"
      <4>1. NrActors \in Nat  BY NthActors
      <4>2. NrActors + 1 - i \in 1..NrActors /\ NrActors + 1 - (NrActors + 1 - i) = i  BY <4>1
      <4>3. Nth(d, NrActors + 1 - i) = ActorList[NrActors + 1 - (NrActors + 1 - i)]  BY <3>2 DEF Nth
      <4> QED BY <4>2, <4>3
    <3> QED BY <3>1, <3>2 DEF Ways
  <2> QED BY <2>1, NthActors
<1>6. visual_plugin_find(ActorList, NameOf[ActorList[i]]) = ActorList[first]
  BY <1>3 DEF visual_plugin_find
<1>7. visual_plugin_get_next_by_name(ActorList, NameOf[ActorList[i]]) =
          IF first = Len(ActorList) THEN NULL ELSE NameOf[ActorList[first + 1]]
  BY <1>3, <1>4, <1>5 DEF visual_plugin_get_next_by_name
<1>8. visual_plugin_get_prev_by_name(ActorList, NameOf[ActorList[i]]) =
          IF first = 1 THEN NULL ELSE NameOf[ActorList[first - 1]]
  BY <1>3, <1>4, <1>5 DEF visual_plugin_get_prev_by_name
<1> HIDE DEF first, named
<1> QED BY <1>2, <1>4, <1>6, <1>7, <1>8

\* A step goes to the next rank, or says that there is none.
LEMMA StepRank ==
    ASSUME NamesApart, NEW d \in Ways, lists["actor"] = ActorList,
           NEW n \in ActorNames \cup {NULL}
    PROVE  /\ Rank(d, n) \in 0..NrActors
           /\ Rank(d, n) = NrActors => Step(d = "prev", n) = NULL
           /\ Rank(d, n) # NrActors =>
                 /\ Rank(d, n) + 1 \in 1..NrActors
                 /\ Step(d = "prev", n) = NameOf[Nth(d, Rank(d, n) + 1)]
                 /\ visual_plugin_find(lists["actor"], NameOf[Nth(d, Rank(d, n) + 1)]) = Nth(d, Rank(d, n) + 1)
<1>0. /\ NrActors \in Nat /\ Len(ActorList) = NrActors /\ Len(<<>>) = 0
      /\ (NrActors = 0 <=> ActorList = <<>>)
  <2>1. NrActors \in Nat /\ Len(ActorList) = NrActors  BY NthActors DEF NrActors
  <2>2. ActorList \in Seq(Plugins)  BY ActorsListed DEF Filtered
  <2> QED BY <2>1, <2>2
<1>1. Rank(d, n) \in 0..NrActors /\ (n # NULL => Rank(d, n) \in 1..NrActors /\ n = NameOf[Nth(d, Rank(d, n))])
      /\ (n = NULL => Rank(d, n) = 0)
  BY <1>0, NthActors
<1> DEFINE r == Rank(d, n)
<1>2. r \in 0..NrActors /\ (n # NULL => r \in 1..NrActors /\ n = NameOf[Nth(d, r)]) /\ (n = NULL => r = 0)
  BY <1>1
<1> HIDE DEF r
<1>3. /\ r = NrActors => Step(d = "prev", n) = NULL
      /\ r # NrActors =>
            /\ r + 1 \in 1..NrActors
            /\ Step(d = "prev", n) = NameOf[Nth(d, r + 1)]
            /\ visual_plugin_find(lists["actor"], NameOf[Nth(d, r + 1)]) = Nth(d, r + 1)
  <2>1. CASE d = "next"
    <3>1. \A k \in 1..NrActors : Nth(d, k) = ActorList[k]  BY <2>1 DEF Nth
    <3>2. Step(d = "prev", n) = visual_plugin_get_next_by_name(ActorList, n)  BY <2>1 DEF Step
    <3>3. r # NrActors => r + 1 \in 1..NrActors  BY <1>0, <1>2
    <3>4. r # NrActors => visual_plugin_find(ActorList, NameOf[ActorList[r + 1]]) = ActorList[r + 1]
      BY <3>3, SearchesOfList
    <3>5. CASE n = NULL
      <4>1. visual_plugin_get_next_by_name(ActorList, n) = IF NrActors = 0 THEN NULL ELSE NameOf[ActorList[1]]
        BY <1>0, <3>5 DEF visual_plugin_get_next_by_name
      <4>2. r + 1 = 1  BY <1>2, <3>5
      <4> QED BY <1>0, <1>2, <3>1, <3>2, <3>3, <3>4, <3>5, <4>1, <4>2
    <3>6. CASE n # NULL
      <4>1. r \in 1..NrActors /\ n = NameOf[ActorList[r]]  BY <1>2, <3>1, <3>6
      <4>2. visual_plugin_get_next_by_name(ActorList, NameOf[ActorList[r]]) =
                IF r = NrActors THEN NULL ELSE NameOf[ActorList[r + 1]]
        BY <4>1, SearchesOfList
      <4> QED BY <3>1, <3>2, <3>3, <3>4, <4>1, <4>2
    <3> QED BY <3>5, <3>6
  <2>2. CASE d = "prev"
    <3>1. \A k \in 1..NrActors : Nth(d, k) = ActorList[NrActors + 1 - k]  BY <2>2 DEF Nth
    <3>2. Step(d = "prev", n) = visual_plugin_get_prev_by_name(ActorList, n)  BY <2>2 DEF Step
    <3> DEFINE i == NrActors + 1 - r
    <3>3. /\ r # NrActors => r + 1 \in 1..NrActors /\ NrActors + 1 - (r + 1) = i - 1 /\ i - 1 \in 1..NrActors
          /\ r \in 1..NrActors => i \in 1..NrActors
          /\ i = 1 <=> r = NrActors
          /\ r = 0 => i - 1 = NrActors
      BY <1>0, <1>2
    <3>4. r \in 1..NrActors => Nth(d, r) = ActorList[i]  BY <3>1
    <3> HIDE DEF i
    <3>5. r # NrActors => Nth(d, r + 1) = ActorList[i - 1]  BY <3>1, <3>3
    <3>6. r # NrActors => visual_plugin_find(ActorList, NameOf[ActorList[i - 1]]) = ActorList[i - 1]
      BY <3>3, SearchesOfList
    <3>7. CASE n = NULL
      <4>1. visual_plugin_get_prev_by_name(ActorList, n) = IF NrActors = 0 THEN NULL ELSE NameOf[ActorList[NrActors]]
        BY <1>0, <3>7 DEF visual_plugin_get_prev_by_name
      <4>2. r = 0 /\ i - 1 = NrActors  BY <1>2, <3>3, <3>7
      <4> QED BY <3>2, <3>3, <3>5, <3>6, <4>1, <4>2
    <3>8. CASE n # NULL
      <4>1. r \in 1..NrActors /\ i \in 1..NrActors /\ n = NameOf[ActorList[i]]  BY <1>2, <3>3, <3>4, <3>8
      <4>2. visual_plugin_get_prev_by_name(ActorList, NameOf[ActorList[i]]) =
                IF i = 1 THEN NULL ELSE NameOf[ActorList[i - 1]]
        BY <4>1, SearchesOfList
      <4> QED BY <3>2, <3>3, <3>5, <3>6, <4>1, <4>2
    <3> QED BY <3>7, <3>8
  <2> QED BY <2>1, <2>2 DEF Ways
<1> QED BY <1>1, <1>3 DEF r

\* What a round of the search does, by rank.
LEMMA WalkRound ==
    ASSUME NamesApart, WalkInvariant, visual_actor_get_next_by_name_nogl, ~crashed'
    PROVE  LET k == Rank(dir, walk.at)
           IN  /\ k \in 0..NrActors
               /\ \/ /\ k = NrActors /\ ~walk.wrapped
                     /\ walk' = [at |-> NULL, wrapped |-> TRUE] /\ name' = name
                  \/ /\ k = NrActors /\ walk.wrapped
                     /\ walk' = NULL /\ name' = NULL
                  \/ /\ k + 1 \in 1..NrActors /\ Nth(dir, k + 1) \in GL
                     /\ walk' = [at |-> NameOf[Nth(dir, k + 1)], wrapped |-> walk.wrapped] /\ name' = name
                  \/ /\ k + 1 \in 1..NrActors /\ Nth(dir, k + 1) \notin GL
                     /\ walk' = NULL /\ name' = NameOf[Nth(dir, k + 1)]
<1> DEFINE k == Rank(dir, walk.at)
           n == Step(dir = "prev", walk.at)
           p == visual_plugin_find(lists["actor"], n)
<1>0. /\ walk # NULL /\ walk \in [at : ActorNames \cup {NULL}, wrapped : BOOLEAN]
      /\ lists["actor"] = ActorList /\ dir \in Ways /\ walk.at \in ActorNames \cup {NULL}
  BY DEF visual_actor_get_next_by_name_nogl, WalkInvariant
<1>1. /\ k \in 0..NrActors
      /\ k = NrActors => n = NULL
      /\ k # NrActors => k + 1 \in 1..NrActors /\ n = NameOf[Nth(dir, k + 1)] /\ p = Nth(dir, k + 1)
  BY <1>0, StepRank
<1>2. k # NrActors => n # NULL
  BY <1>0, <1>1, NthActors
<1>3. n = NULL => \/ ~walk.wrapped /\ walk' = [at |-> NULL, wrapped |-> TRUE] /\ name' = name
                  \/ walk.wrapped /\ walk' = NULL /\ name' = NULL
  BY <1>0 DEF visual_actor_get_next_by_name_nogl
<1>4. n # NULL => \/ p \in GL /\ walk' = [walk EXCEPT !.at = n] /\ name' = name
                  \/ p \notin GL /\ walk' = NULL /\ name' = n
  BY DEF visual_actor_get_next_by_name_nogl
<1>5. [walk EXCEPT !.at = n] = [at |-> n, wrapped |-> walk.wrapped]  BY <1>0
<1> HIDE DEF k, n, p
<1>6. \/ k = NrActors /\ ~walk.wrapped /\ walk' = [at |-> NULL, wrapped |-> TRUE] /\ name' = name
      \/ k = NrActors /\ walk.wrapped /\ walk' = NULL /\ name' = NULL
      \/ /\ k + 1 \in 1..NrActors /\ Nth(dir, k + 1) \in GL
         /\ walk' = [at |-> NameOf[Nth(dir, k + 1)], wrapped |-> walk.wrapped] /\ name' = name
      \/ k + 1 \in 1..NrActors /\ Nth(dir, k + 1) \notin GL /\ walk' = NULL /\ name' = NameOf[Nth(dir, k + 1)]
  <2>1. CASE k = NrActors  BY <1>1, <1>3, <2>1
  <2>2. CASE k # NrActors  BY <1>1, <1>2, <1>4, <1>5, <2>2
  <2> QED BY <2>1, <2>2
<1> QED BY <1>1, <1>6 DEF k

\* What a round leaves of the rest.
LEMMA WalkLeavesRest ==
    visual_actor_get_next_by_name_nogl => walk # NULL /\ UNCHANGED <<state, lists, dir>>
BY DEF visual_actor_get_next_by_name_nogl, registry

\* The rank of the client's name, and of where the search is.
LEMMA WalkRanks ==
    ASSUME NamesApart, WalkInvariant
    PROVE  /\ NrActors \in Nat /\ Rank(dir, name) \in 0..NrActors
           /\ walk # NULL => Rank(dir, walk.at) \in 0..NrActors /\ walk.wrapped \in BOOLEAN
<1>1. name \in ActorNames \cup {NULL} /\ dir \in Ways
      /\ (walk # NULL => walk.at \in ActorNames \cup {NULL} /\ walk.wrapped \in BOOLEAN)
  BY DEF WalkInvariant
<1>2. NrActors \in Nat /\ \A n \in ActorNames \cup {NULL} : Rank(dir, n) \in 0..NrActors
  BY <1>1, NthActors
<1> QED BY <1>1, <1>2

\* A step of the user, with openGL: to a name of the list, or to none.
LEMMA CycledName ==
    ASSUME NamesApart, WalkInvariant, NEW back \in BOOLEAN, v_cycleActor(back)
    PROVE  name' \in ActorNames \cup {NULL} /\ crashed' \in BOOLEAN
<1> DEFINE d == IF back THEN "prev" ELSE "next"
<1>1. d \in Ways /\ back = (d = "prev")  BY DEF Ways
<1> HIDE DEF d
<1>2. ASSUME NEW n \in ActorNames \cup {NULL} PROVE Step(back, n) \in ActorNames \cup {NULL}
  <2>1. lists["actor"] = ActorList  BY DEF WalkInvariant, v_cycleActor
  <2>2. /\ Rank(d, n) = NrActors => Step(d = "prev", n) = NULL
        /\ Rank(d, n) # NrActors => /\ Rank(d, n) + 1 \in 1..NrActors
                                    /\ Step(d = "prev", n) = NameOf[Nth(d, Rank(d, n) + 1)]
    BY <1>1, <2>1, StepRank
  <2>3. \A r \in 1..NrActors : NameOf[Nth(d, r)] \in ActorNames  BY <1>1, NthActors
  <2>4. Step(d = "prev", n) \in ActorNames \cup {NULL}
    BY <2>2, <2>3
  <2> QED BY <1>1, <2>4, Zenon
<1>3. Step(back, name) \in ActorNames \cup {NULL} /\ Step(back, NULL) \in ActorNames \cup {NULL}
  BY <1>2 DEF WalkInvariant
<1>4. \E n : /\ n = Wrapped(Step(back, name), Step(back, NULL))
             /\ name' = Wrapped(n, name) /\ crashed' = (n = NULL)
  BY DEF v_cycleActor
<1>5. crashed' \in BOOLEAN  BY <1>4, Zenon
<1>6. name \in ActorNames \cup {NULL}  BY DEF WalkInvariant
<1> QED BY <1>3, <1>4, <1>5, <1>6 DEF Wrapped

\* A round leaves only actors that need openGL behind.
LEMMA WalkKeeps ==
    ASSUME NamesApart, WalkInvariant, ~crashed, visual_actor_get_next_by_name_nogl
    PROVE  WalkInvariant'
<1>0. /\ state' = state /\ lists' = lists /\ dir' = dir
      /\ walk # NULL /\ state = "on" /\ lists["actor"] = ActorList
      /\ name \in ActorNames \cup {NULL} /\ dir \in Ways /\ walk.at \in ActorNames \cup {NULL}
      /\ walk.wrapped \in BOOLEAN
  BY WalkLeavesRest DEF WalkInvariant
<1>1. crashed' \in BOOLEAN
  BY DEF visual_actor_get_next_by_name_nogl, WalkInvariant
<1>2. CASE crashed'
  <2>1. walk' = walk /\ name' = name
    BY <1>2 DEF visual_actor_get_next_by_name_nogl
  <2> QED BY <1>0, <1>1, <2>1 DEF WalkInvariant, Passed
<1>3. CASE ~crashed'
  <2> DEFINE k == Rank(dir, walk.at)
             w == Rank(dir, name)
  <2>0. /\ NrActors \in Nat /\ w \in 0..NrActors /\ k \in 0..NrActors /\ NULL \notin ActorNames
        /\ Rank(dir, NULL) = 0
        /\ \A r \in 1..NrActors : NameOf[Nth(dir, r)] \in ActorNames /\ Rank(dir, NameOf[Nth(dir, r)]) = r
    BY <1>0, WalkRanks, NthActors
  <2>1. /\ ~walk.wrapped => w <= k
        /\ \A r \in 1..NrActors : (IF walk.wrapped THEN r > w \/ r <= k ELSE w < r /\ r <= k) => Nth(dir, r) \in GL
    BY <1>0 DEF WalkInvariant, Passed
  <2>2. \/ /\ k = NrActors /\ ~walk.wrapped
           /\ walk' = [at |-> NULL, wrapped |-> TRUE] /\ name' = name
        \/ /\ k = NrActors /\ walk.wrapped
           /\ walk' = NULL /\ name' = NULL
        \/ /\ k + 1 \in 1..NrActors /\ Nth(dir, k + 1) \in GL
           /\ walk' = [at |-> NameOf[Nth(dir, k + 1)], wrapped |-> walk.wrapped] /\ name' = name
        \/ /\ k + 1 \in 1..NrActors /\ Nth(dir, k + 1) \notin GL
           /\ walk' = NULL /\ name' = NameOf[Nth(dir, k + 1)]
    BY <1>3, WalkRound
  <2>3. ASSUME name' \in ActorNames \cup {NULL},
               walk' # NULL => /\ walk' \in [at : ActorNames \cup {NULL}, wrapped : BOOLEAN]
                               /\ ~walk'.wrapped => Rank(dir, name') <= Rank(dir, walk'.at)
                               /\ \A r \in 1..NrActors :
                                     (IF walk'.wrapped THEN r > Rank(dir, name') \/ r <= Rank(dir, walk'.at)
                                      ELSE Rank(dir, name') < r /\ r <= Rank(dir, walk'.at)) => Nth(dir, r) \in GL
        PROVE  WalkInvariant'
    BY <1>0, <1>1, <2>3 DEF WalkInvariant, Passed
  <2>4. CASE walk' = NULL
    <3>1. k + 1 \in 1..NrActors => NameOf[Nth(dir, k + 1)] \in ActorNames  BY <2>0
    <3> HIDE DEF k, w
    <3>2. name' = name \/ name' = NULL \/ (k + 1 \in 1..NrActors /\ name' = NameOf[Nth(dir, k + 1)])
      BY <2>2
    <3>3. name' \in ActorNames \cup {NULL}  BY <1>0, <3>1, <3>2
    <3> QED BY <2>3, <2>4, <3>3
  <2>5. CASE k = NrActors /\ ~walk.wrapped /\ walk' = [at |-> NULL, wrapped |-> TRUE] /\ name' = name
    <3>1. walk'.at = NULL /\ walk'.wrapped = TRUE /\ Rank(dir, walk'.at) = 0 /\ Rank(dir, name') = w
      BY <2>0, <2>5
    <3>2. walk' \in [at : ActorNames \cup {NULL}, wrapped : BOOLEAN]  BY <2>5
    <3> HIDE DEF k, w
    <3>3. \A r \in 1..NrActors : r > w \/ r <= 0 => Nth(dir, r) \in GL
      BY <2>0, <2>1, <2>5
    <3> QED BY <1>0, <2>3, <2>5, <3>1, <3>2, <3>3
  <2>6. CASE /\ k + 1 \in 1..NrActors /\ Nth(dir, k + 1) \in GL
             /\ walk' = [at |-> NameOf[Nth(dir, k + 1)], wrapped |-> walk.wrapped] /\ name' = name
    <3>1. /\ walk'.at \in ActorNames /\ walk'.wrapped = walk.wrapped /\ Rank(dir, walk'.at) = k + 1
          /\ Rank(dir, name') = w
      BY <2>0, <2>6
    <3>2. walk' \in [at : ActorNames \cup {NULL}, wrapped : BOOLEAN]  BY <1>0, <2>0, <2>6
    <3> HIDE DEF k, w
    <3>3. /\ ~walk.wrapped => w <= k + 1
          /\ \A r \in 1..NrActors : (IF walk.wrapped THEN r > w \/ r <= k + 1 ELSE w < r /\ r <= k + 1) => Nth(dir, r) \in GL
      <4>1. \A r \in 1..NrActors : r <= k + 1 => r <= k \/ r = k + 1  BY <2>0
      <4> QED BY <2>0, <2>1, <2>6, <4>1
    <3> QED BY <1>0, <2>3, <2>6, <3>1, <3>2, <3>3
  <2> QED BY <2>2, <2>4, <2>5, <2>6
<1> QED BY <1>1, <1>2, <1>3

LEMMA WalkNext ==
    ASSUME NamesApart, WalkInvariant, [Next]_vars
    PROVE  WalkInvariant'
<1>1. CASE visual_init
  <2>1. /\ state = "off" /\ state' = "on" /\ UNCHANGED client
        /\ lists' = [l \in Lists |-> IF l = "all" THEN Found ELSE visual_plugin_registry_filter(Found, l)]
    BY <1>1 DEF visual_init
  <2>2. lists'["actor"] = ActorList  BY <2>1 DEF Lists, Types, ActorList
  <2>3. walk = NULL /\ walk' = NULL /\ name' = name /\ dir' = dir /\ crashed' = crashed
    BY <2>1 DEF WalkInvariant, client
  <2> QED BY <2>1, <2>2, <2>3 DEF WalkInvariant
<1>2. CASE visual_quit
  <2>1. state' = "quit" /\ walk = NULL /\ walk' = NULL /\ name' = name /\ dir' = dir /\ crashed' = crashed
    BY <1>2 DEF visual_quit, client
  <2> QED BY <2>1 DEF WalkInvariant
<1>3. CASE Loading \/ UNCHANGED vars
  <2>1. UNCHANGED <<state, lists>> /\ UNCHANGED client
    BY <1>3 DEF Loading, NewByName, visual_plugin_load, visual_plugin_realize, visual_plugin_unload, vars, client
  <2> QED BY <2>1 DEF WalkInvariant, Passed, client
<1>4. ASSUME NEW back \in BOOLEAN, v_cycleActor(back) PROVE WalkInvariant'
  <2>1. /\ UNCHANGED <<state, lists>> /\ walk = NULL /\ walk' = NULL
        /\ dir' \in Ways
    BY <1>4 DEF v_cycleActor, registry, Ways
  <2>2. name' \in ActorNames \cup {NULL} /\ crashed' \in BOOLEAN  BY <1>4, CycledName
  <2> QED BY <2>1, <2>2 DEF WalkInvariant
<1>5. ASSUME NEW back \in BOOLEAN, BeginWalk(back) PROVE WalkInvariant'
  <2>1. /\ UNCHANGED <<state, lists, crashed>> /\ state = "on" /\ name' = name
        /\ walk' = [at |-> name, wrapped |-> FALSE] /\ dir' \in Ways
    BY <1>5 DEF BeginWalk, registry, Ways
  <2>2. name \in ActorNames \cup {NULL}  BY DEF WalkInvariant
  <2>3. Rank(dir', name) \in 0..NrActors /\ NrActors \in Nat  BY <2>1, <2>2, NthActors
  <2>4. /\ walk'.at = name /\ walk'.wrapped = FALSE
        /\ walk' \in [at : ActorNames \cup {NULL}, wrapped : BOOLEAN]
    BY <2>1, <2>2
  <2>5. Passed' = {}
    <3>1. \A r \in 1..NrActors : ~(Rank(dir', name) < r /\ r <= Rank(dir', name))  BY <2>3
    <3> QED BY <2>1, <2>4, <3>1 DEF Passed
  <2>6. Rank(dir', name') <= Rank(dir', walk'.at)  BY <2>1, <2>3, <2>4
  <2> QED BY <2>1, <2>2, <2>4, <2>5, <2>6 DEF WalkInvariant
<1>6. CASE ~crashed /\ visual_actor_get_next_by_name_nogl
  BY <1>6, WalkKeeps
<1> QED BY <1>1, <1>2, <1>3, <1>4, <1>5, <1>6 DEF Next, Stepping

LEMMA WalksHold == NamesApart => (Spec => []WalkInvariant)
<1> SUFFICES ASSUME NamesApart PROVE Spec => []WalkInvariant  OBVIOUS
<1>1. Init => WalkInvariant  BY DEF Init, WalkInvariant, Ways
<1>2. WalkInvariant /\ [Next]_vars => WalkInvariant'  BY WalkNext
<1> QED BY <1>1, <1>2, PTL DEF Spec

\* The search without openGL comes to an end: every round of it leaves fewer, and
\* nothing else moves it (lv_actor.c:151-175).  Where a name is twice on the list
\* of the actors, the search can go round between the two for ever.
THEOREM WalksGetNearer ==
    ASSUME NamesApart
    PROVE  Spec => [][walk # NULL =>
                        /\ WalkLeft \in Nat
                        /\ visual_actor_get_next_by_name_nogl =>
                              crashed' \/ walk' = NULL \/ WalkLeft' < WalkLeft
                        /\ ~visual_actor_get_next_by_name_nogl => UNCHANGED client]_vars
<1>1. ASSUME WalkInvariant, Next, walk # NULL
      PROVE  /\ WalkLeft \in Nat
             /\ visual_actor_get_next_by_name_nogl => crashed' \/ walk' = NULL \/ WalkLeft' < WalkLeft
             /\ ~visual_actor_get_next_by_name_nogl => UNCHANGED client
  <2>0. /\ NrActors \in Nat /\ Rank(dir, walk.at) \in 0..NrActors /\ walk.wrapped \in BOOLEAN
        /\ Rank(dir, NULL) = 0 /\ dir \in Ways
        /\ \A r \in 1..NrActors : Rank(dir, NameOf[Nth(dir, r)]) = r
    <3>1. dir \in Ways  BY <1>1 DEF WalkInvariant
    <3> QED BY <1>1, <3>1, WalkRanks, NthActors
  <2>1. WalkLeft \in Nat  BY <2>0 DEF WalkLeft
  <2>2. ASSUME visual_actor_get_next_by_name_nogl, ~crashed', walk' # NULL PROVE WalkLeft' < WalkLeft
    <3> DEFINE k == Rank(dir, walk.at)
    <3>1. dir' = dir  BY <2>2, WalkLeavesRest
    <3>2. \/ k = NrActors /\ ~walk.wrapped /\ walk' = [at |-> NULL, wrapped |-> TRUE]
          \/ k + 1 \in 1..NrActors /\ walk' = [at |-> NameOf[Nth(dir, k + 1)], wrapped |-> walk.wrapped]
      BY <1>1, <2>2, WalkRound
    <3>3. WalkLeft' = (IF walk'.wrapped THEN 0 ELSE NrActors + 1) + (NrActors - Rank(dir, walk'.at))
      BY <3>1 DEF WalkLeft
    <3>4. WalkLeft = (IF walk.wrapped THEN 0 ELSE NrActors + 1) + (NrActors - k)
      BY DEF WalkLeft
    <3>5. CASE k = NrActors /\ ~walk.wrapped /\ walk' = [at |-> NULL, wrapped |-> TRUE]
      <4>1. walk'.wrapped /\ Rank(dir, walk'.at) = 0  BY <2>0, <3>5
      <4> HIDE DEF k
      <4> QED BY <2>0, <3>3, <3>4, <3>5, <4>1
    <3>6. CASE k + 1 \in 1..NrActors /\ walk' = [at |-> NameOf[Nth(dir, k + 1)], wrapped |-> walk.wrapped]
      <4>1. walk'.wrapped = walk.wrapped /\ Rank(dir, walk'.at) = k + 1  BY <2>0, <3>6
      <4>2. k \in 0..NrActors  BY <2>0
      <4> HIDE DEF k
      <4>3. NrActors - (k + 1) < NrActors - k  BY <2>0, <4>2
      <4> QED BY <2>0, <3>3, <3>4, <4>1, <4>2, <4>3
    <3> QED BY <3>2, <3>5, <3>6
  <2>3. ASSUME ~visual_actor_get_next_by_name_nogl PROVE UNCHANGED client
    <3>1. CASE visual_init  BY <3>1 DEF visual_init
    <3>2. CASE Loading  BY <3>2 DEF Loading, NewByName, visual_plugin_realize, visual_plugin_unload
    <3>3. ~visual_quit /\ ~Stepping  BY <1>1 DEF visual_quit, Stepping, v_cycleActor, BeginWalk
    <3> QED BY <1>1, <2>3, <3>1, <3>2, <3>3 DEF Next
  <2> QED BY <2>1, <2>2, <2>3
<1> QED BY <1>1, WalksHold, PTL DEF Spec

\* And it ends at the nearest actor that does without openGL, in the direction of
\* the step and round the end of the list: it passes none over, and finds none only
\* where there is none (lv_actor.c:151-205).  That is why stepping on reaches
\* every one of them.
THEOREM NoActorPassedOver ==
    ASSUME NamesApart
    PROVE  Spec => [][walk # NULL /\ walk' = NULL => FoundNearest]_vars
<1>1. ASSUME WalkInvariant, Next, walk # NULL, walk' = NULL PROVE FoundNearest
  <2> DEFINE k == Rank(dir, walk.at)
             w == Rank(dir, name)
  <2>0. /\ dir \in Ways /\ crashed \in BOOLEAN /\ NULL \notin ActorNames
        /\ NrActors \in Nat /\ w \in 0..NrActors /\ k \in 0..NrActors /\ walk.wrapped \in BOOLEAN
        /\ \A r \in 1..NrActors : /\ NameOf[Nth(dir, r)] \in ActorNames /\ Rank(dir, NameOf[Nth(dir, r)]) = r
                                  /\ Nth(dir, r) \in Plugins /\ TypeOf[Nth(dir, r)] = "actor"
        /\ \A p \in Plugins : TypeOf[p] = "actor" => \E r \in 1..NrActors : Nth(dir, r) = p
    <3>1. dir \in Ways /\ crashed \in BOOLEAN  BY <1>1 DEF WalkInvariant
    <3> QED BY <1>1, <3>1, WalkRanks, NthActors
  <2>1. /\ ~walk.wrapped => w <= k
        /\ \A r \in 1..NrActors : (IF walk.wrapped THEN r > w \/ r <= k ELSE w < r /\ r <= k) => Nth(dir, r) \in GL
    BY <1>1 DEF WalkInvariant, Passed
  <2>2. visual_actor_get_next_by_name_nogl
    <3>1. visual_init => walk' = walk  BY DEF visual_init, client
    <3>2. Loading => walk' = walk
      BY DEF Loading, NewByName, visual_plugin_realize, visual_plugin_unload, client
    <3>3. ~visual_quit /\ ~Stepping  BY <1>1 DEF visual_quit, Stepping, v_cycleActor, BeginWalk
    <3> QED BY <1>1, <3>1, <3>2, <3>3 DEF Next
  <2>3. ~crashed'
    <3>1. ~crashed  BY <1>1 DEF Next
    <3> QED BY <1>1, <2>2, <3>1 DEF visual_actor_get_next_by_name_nogl
  <2>4. \/ k = NrActors /\ walk.wrapped /\ name' = NULL
        \/ k + 1 \in 1..NrActors /\ Nth(dir, k + 1) \notin GL /\ name' = NameOf[Nth(dir, k + 1)]
    <3>1. \/ k = NrActors /\ ~walk.wrapped /\ walk' = [at |-> NULL, wrapped |-> TRUE] /\ name' = name
          \/ k = NrActors /\ walk.wrapped /\ walk' = NULL /\ name' = NULL
          \/ /\ k + 1 \in 1..NrActors /\ Nth(dir, k + 1) \in GL
             /\ walk' = [at |-> NameOf[Nth(dir, k + 1)], wrapped |-> walk.wrapped] /\ name' = name
          \/ /\ k + 1 \in 1..NrActors /\ Nth(dir, k + 1) \notin GL
             /\ walk' = NULL /\ name' = NameOf[Nth(dir, k + 1)]
      BY <1>1, <2>2, <2>3, WalkRound
    <3>2. NULL \notin [at : Names \cup {NULL}, wrapped : BOOLEAN] /\ ActorNames \subseteq Names
      BY PluginsAssumption DEF ActorNames, Names
    <3>3. walk' # [at |-> NULL, wrapped |-> TRUE]
      <4>1. [at |-> NULL, wrapped |-> TRUE] \in [at : Names \cup {NULL}, wrapped : BOOLEAN]  OBVIOUS
      <4> QED BY ONLY <1>1, <3>2, <4>1
    <3>4. k + 1 \in 1..NrActors => walk' # [at |-> NameOf[Nth(dir, k + 1)], wrapped |-> walk.wrapped]
      <4>1. k + 1 \in 1..NrActors => NameOf[Nth(dir, k + 1)] \in ActorNames  BY <2>0
      <4> QED BY <1>1, <2>0, <3>2, <4>1
    <3> HIDE DEF k
    <3> QED BY <3>1, <3>3, <3>4
  <2>5. CASE k = NrActors /\ walk.wrapped /\ name' = NULL
    <3> HIDE DEF k, w
    <3>1. \A r \in 1..NrActors : Nth(dir, r) \in GL  BY <2>0, <2>1, <2>5
    <3> QED BY <2>0, <2>5, <3>1 DEF FoundNearest
  <2>6. CASE k + 1 \in 1..NrActors /\ Nth(dir, k + 1) \notin GL /\ name' = NameOf[Nth(dir, k + 1)]
    <3>1. name' # NULL /\ Rank(dir, name') = k + 1  BY <2>0, <2>6
    <3>2. \E p \in Plugins \ GL : TypeOf[p] = "actor" /\ name' = NameOf[p]  BY <2>0, <2>6
    <3> HIDE DEF k
    <3>3. ASSUME NEW r \in 1..NrActors, Between(r) PROVE Nth(dir, r) \in GL
      <4>1. IF w < k + 1 THEN w < r /\ r < k + 1 ELSE r > w \/ r < k + 1
        BY <3>1, <3>3 DEF Between
      <4> HIDE DEF w
      <4> QED BY <2>0, <2>1, <2>6, <4>1
    <3> QED BY <3>1, <3>2, <3>3 DEF FoundNearest
  <2> QED BY <2>4, <2>5, <2>6
<1> QED BY <1>1, WalksHold, PTL DEF Spec
=============================================================================
