------------------------------- MODULE VisPlugin -------------------------------
(***************************************************************************)
(* The plugin registry (libvisual/lv_plugin_registry.c, lv_plugin.c,       *)
(* lv_libvisual.c): one VisPluginRef per plugin found, on the list of all  *)
(* and on the list of its type, reference counted by the lists and by the  *)
(* VisPluginData that are loaded; and the stepping from name to name that  *)
(* clients offer their user (lv_actor.c, lv-tool.c).  dlopen is external   *)
(* and succeeds for a plugin that was found.                               *)
(***************************************************************************)
EXTENDS VisList, FiniteSets

CONSTANTS
    Plugins,      \* the plugins in the directories
    Found,        \* the order in which the directories give them
    TypeOf,       \* their types
    NameOf,       \* their names
    GL,           \* the actors that draw with openGL
    NotReentrant, \* those with VISUAL_PLUGIN_FLAG_NOT_REENTRANT
    Slots,        \* the VisPluginData a client has at a time
    NULL

Types == {"actor", "input", "morph", "transform"}
Lists == Types \cup {"all"}
Names == {NameOf[p] : p \in Plugins}

ASSUME PluginsAssumption ==
    /\ Found \in Seq(Plugins) /\ IsInjective(Found) /\ Plugins = ToSet(Found)
    /\ TypeOf \in [Plugins -> Types]
    /\ GL \subseteq {p \in Plugins : TypeOf[p] = "actor"} /\ NotReentrant \subseteq Plugins
    /\ NULL \notin Plugins \cup Names \cup [at : Names \cup {NULL}, wrapped : BOOLEAN]
    /\ IsFiniteSet(Slots)

VARIABLES
    state,    \* "off" before visual_init, "on", "quit" after visual_quit
    lists,    \* the registry: VisPluginRefs
    refcount, \* references to each VisPluginRef, 0 when it is freed
    usecount, \* its usecount
    lost,     \* history: references of destroyed lists that nobody gave back
    plugin,   \* what is loaded: the VisPluginRef and whether it is realized
    name,     \* the actor the client has on its screen
    walk,     \* a step without openGL that goes on
    dir,      \* the way of the last step
    crashed   \* the info of a NULL plugin was read, or a NULL name

vars == <<state, lists, refcount, usecount, lost, plugin, name, walk, dir, crashed>>
registry == <<state, lists, refcount, usecount, lost, plugin>>
client == <<name, walk, dir, crashed>>

Unloaded == [ref |-> NULL, realized |-> FALSE]
Instances(p) == {s \in Slots : plugin[s].ref = p}
ListsOf(p) == {l \in Lists : p \in ToSet(lists[l])}
LeavingOf(p) == {l \in ListsOf(p) : p \in ToSet(list_destroy_leaves(lists[l]))}

Init ==
    /\ state = "off" /\ lists = [l \in Lists |-> <<>>]
    /\ refcount = [p \in Plugins |-> 0] /\ usecount = [p \in Plugins |-> 0]
    /\ lost = [p \in Plugins |-> 0]
    /\ plugin = [s \in Slots |-> Unloaded]
    /\ name = NULL /\ walk = NULL /\ dir = "next" /\ crashed = FALSE

visual_plugin_registry_filter(pluglist, domain) ==
    LET kept[n \in 0..Len(pluglist)] ==
            IF n = 0 THEN <<>>
            ELSE IF TypeOf[pluglist[n]] = domain THEN Append(kept[n - 1], pluglist[n])
            ELSE kept[n - 1]
    IN  kept[Len(pluglist)]

\* visual_plugin_get_list makes the VisPluginRefs with a reference, the filters
\* add theirs.
visual_init ==
    /\ state = "off" /\ state' = "on"
    /\ lists' = [l \in Lists |-> IF l = "all" THEN Found
                                 ELSE visual_plugin_registry_filter(Found, l)]
    /\ refcount' = [p \in Plugins |-> Cardinality({l \in Lists : p \in ToSet(lists'[l])})]
    /\ UNCHANGED <<usecount, lost, plugin>> /\ UNCHANGED client

\* A slip: the lists of the types are freed without their references.
QuitForgetsTypes ==
    /\ state = "on" /\ walk = NULL /\ state' = "quit"
    /\ lists' = [l \in Lists |-> <<>>]
    /\ lost' = [p \in Plugins |-> Cardinality(LeavingOf(p))]
    /\ refcount' = [p \in Plugins |-> refcount[p] - 1]
    /\ UNCHANGED <<usecount, plugin>> /\ UNCHANGED client

\* The destruction of each list gives back the references of the entries that
\* it reaches.
visual_quit ==
    /\ state = "on" /\ walk = NULL /\ state' = "quit"
    /\ lists' = [l \in Lists |-> <<>>]
    /\ lost' = [p \in Plugins |-> Cardinality(LeavingOf(p))]
    /\ refcount' = [p \in Plugins |-> refcount[p] - Cardinality(ListsOf(p) \ LeavingOf(p))]
    /\ UNCHANGED <<usecount, plugin>> /\ UNCHANGED client

\* The first plugin of a list with a name.
visual_plugin_find(list, n) ==
    LET named == {i \in 1..Len(list) : NameOf[list[i]] = n}
    IN  IF named = {} THEN NULL ELSE list[CHOOSE i \in named : \A j \in named : i <= j]

\* The name after the first entry that has the name.
visual_plugin_get_next_by_name(list, n) ==
    LET tagged == {i \in 1..Len(list) : NameOf[list[i]] = n}
        first  == CHOOSE i \in tagged : \A j \in tagged : i <= j
    IN  IF list = <<>> THEN NULL
        ELSE IF n = NULL THEN NameOf[list[1]]
        ELSE IF tagged = {} \/ first = Len(list) THEN NULL
        ELSE NameOf[list[first + 1]]

visual_plugin_get_prev_by_name(list, n) ==
    LET same  == {i \in 1..Len(list) : NameOf[list[i]] = n}
        first == CHOOSE i \in same : \A j \in same : i <= j
    IN  IF list = <<>> THEN NULL
        ELSE IF n = NULL THEN NameOf[list[Len(list)]]
        ELSE IF same = {} \/ first = 1 THEN NULL
        ELSE NameOf[list[first - 1]]

Refuses(p) == usecount[p] > 0 /\ p \in NotReentrant

visual_plugin_load(s, p) ==
    /\ plugin[s].ref = NULL /\ ~Refuses(p)
    /\ plugin' = [plugin EXCEPT ![s] = [ref |-> p, realized |-> FALSE]]
    /\ refcount' = [refcount EXCEPT ![p] = @ + 1]
    /\ usecount' = [usecount EXCEPT ![p] = @ + 1]
    /\ UNCHANGED <<state, lists, lost>>

\* visual_actor_new, visual_input_new, visual_morph_new, visual_transform_new.
\* Where the plugin refuses, the object has none, and nothing else changes.
NewByName(s, l, n) ==
    /\ state = "on"
    /\ \E p \in Plugins : p = visual_plugin_find(lists[l], n) /\ visual_plugin_load(s, p)
    /\ UNCHANGED client

visual_plugin_realize(s) ==
    /\ plugin[s].ref # NULL /\ ~plugin[s].realized
    /\ plugin' = [plugin EXCEPT ![s].realized = TRUE]
    /\ UNCHANGED <<state, lists, refcount, usecount, lost>> /\ UNCHANGED client

\* A slip: only a realized plugin counts as one in use.
UnloadCountsRealized(s) ==
    /\ plugin[s].ref # NULL
    /\ LET p == plugin[s].ref
       IN  /\ usecount' = [usecount EXCEPT ![p] = IF plugin[s].realized THEN @ - 1 ELSE @]
           /\ refcount' = [refcount EXCEPT ![p] = @ - 1]
    /\ plugin' = [plugin EXCEPT ![s] = Unloaded]
    /\ UNCHANGED <<state, lists, lost>> /\ UNCHANGED client

\* Also after visual_quit: a plugin keeps its VisPluginRef.
visual_plugin_unload(s) ==
    /\ plugin[s].ref # NULL
    /\ LET p == plugin[s].ref
       IN  /\ usecount' = [usecount EXCEPT ![p] = IF @ > 0 THEN @ - 1 ELSE @]
           /\ refcount' = [refcount EXCEPT ![p] = @ - 1]
    /\ plugin' = [plugin EXCEPT ![s] = Unloaded]
    /\ UNCHANGED <<state, lists, lost>> /\ UNCHANGED client

Step(back, n) ==
    IF back THEN visual_plugin_get_prev_by_name(lists["actor"], n)
    ELSE visual_plugin_get_next_by_name(lists["actor"], n)

Wrapped(n, again) == IF n = NULL THEN again ELSE n

\* The client steps: the next or the previous name, or else the first or last,
\* whose length is taken even where no actor is on the list.
v_cycleActor(back) ==
    /\ state = "on" /\ walk = NULL
    /\ LET n == Wrapped(Step(back, name), Step(back, NULL))
       IN  name' = Wrapped(n, name) /\ crashed' = (n = NULL)
    /\ dir' = IF back THEN "prev" ELSE "next"
    /\ UNCHANGED registry /\ UNCHANGED walk

\* The same with visual_actor_get_next_by_name_nogl or its like.
BeginWalk(back) ==
    /\ state = "on" /\ walk = NULL
    /\ walk' = [at |-> name, wrapped |-> FALSE]
    /\ dir' = IF back THEN "prev" ELSE "next"
    /\ UNCHANGED registry /\ UNCHANGED <<name, crashed>>

\* A slip: the step is taken from the name that is shown.
WalkFromName ==
    /\ walk # NULL
    /\ LET n == Step(dir = "prev", name)
           p == visual_plugin_find(lists["actor"], n)
       IN  IF n = NULL THEN walk' = NULL /\ name' = NULL
           ELSE IF p \in GL THEN walk' = [walk EXCEPT !.at = n] /\ name' = name
           ELSE walk' = NULL /\ name' = n
    /\ UNCHANGED registry /\ UNCHANGED <<dir, crashed>>

\* One round of the search: the plugin is loaded, asked, and unloaded.  At the
\* end of the list the client begins again with NULL.
visual_actor_get_next_by_name_nogl ==
    /\ walk # NULL
    /\ LET n == Step(dir = "prev", walk.at)
           p == visual_plugin_find(lists["actor"], n)
       IN  IF n = NULL
           THEN /\ walk' = IF walk.wrapped THEN NULL ELSE [at |-> NULL, wrapped |-> TRUE]
                /\ name' = IF walk.wrapped THEN NULL ELSE name
                /\ UNCHANGED crashed
           ELSE IF Refuses(p) THEN crashed' = TRUE /\ UNCHANGED <<walk, name>>
           ELSE /\ walk' = IF p \in GL THEN [walk EXCEPT !.at = n] ELSE NULL
                /\ name' = IF p \in GL THEN name ELSE n
                /\ UNCHANGED crashed
    /\ UNCHANGED registry /\ UNCHANGED dir

Loading ==
    \/ \E s \in Slots, l \in Types, n \in Names : NewByName(s, l, n)
    \/ \E s \in Slots : visual_plugin_realize(s) \/ visual_plugin_unload(s)

Stepping == \E back \in BOOLEAN : v_cycleActor(back) \/ BeginWalk(back)

Next ==
    ~crashed /\ (\/ visual_init \/ visual_quit \/ Loading \/ Stepping
                 \/ visual_actor_get_next_by_name_nogl)

Spec == Init /\ [][Next]_vars

\* The search without openGL is one call; the user keeps stepping without it.
FairSpec ==
    Spec /\ WF_vars(visual_actor_get_next_by_name_nogl) /\ WF_vars(BeginWalk(FALSE))

-----------------------------------------------------------------------------
TypeOK ==
    /\ state \in {"off", "on", "quit"}
    /\ lists \in [Lists -> Seq(Plugins)]
    /\ refcount \in [Plugins -> Nat] /\ usecount \in [Plugins -> Nat] /\ lost \in [Plugins -> Nat]
    /\ plugin \in [Slots -> [ref : Plugins \cup {NULL}, realized : BOOLEAN]]
    /\ name \in Names \cup {NULL}
    /\ walk \in [at : Names \cup {NULL}, wrapped : BOOLEAN] \cup {NULL}
    /\ dir \in {"next", "prev"} /\ crashed \in BOOLEAN

\* A VisPluginRef is held by its lists, by the plugins that are loaded from it,
\* and by what a destroyed list left: it lives as long as a loaded plugin, over
\* visual_quit (lv_plugin.c:573, lv_plugin.c:102).
RefsAreCounted ==
    \A p \in Plugins :
        refcount[p] = Cardinality(ListsOf(p)) + Cardinality(Instances(p)) + lost[p]

\* Where plugins are loaded and unloaded in any order, one that is not
\* reentrant is loaded once at a time, and the rest as often as wanted.
UsesAreCounted ==
    \A p \in Plugins :
        /\ usecount[p] = Cardinality(Instances(p))
        /\ p \in NotReentrant => Cardinality(Instances(p)) <= 1

\* Who steps on without openGL has every such actor come, however many
\* plugins between them need openGL, unless the library is left.
EveryActorComes ==
    \A n \in {NameOf[p] : p \in {q \in Plugins \ GL : TypeOf[q] = "actor"}} :
        <>[](dir = "next") => ((state = "on") ~> (name = n \/ state = "quit" \/ crashed))
=============================================================================
