------------------------------ MODULE VisParam ------------------------------
(***************************************************************************)
(* The parameters of a plugin (lv_param.c): entries with a value, a        *)
(* container that announces every change on the plugin's event queue, and  *)
(* the callbacks of an entry.  A callback runs inside the call that        *)
(* changed the value and may change parameters and callbacks itself: the   *)
(* walks over the callbacks nest.                                          *)
(***************************************************************************)
EXTENDS VisList, VisEventQueue, FiniteSets

CONSTANTS
    Scalars,   \* entries that are set by set_integer, set_string and the like
    Objects,     \* entries that are set by set_object or set_palette
    Collections, \* entries that are set by set_collection
    Watched,     \* entries that get callbacks
    Listeners,   \* callbacks, each added at most once to an entry
    NoListener,  \* a walk that has called nobody yet
    OtherEvent,  \* an event of the queue that is not about a parameter
    Values,
    Source,      \* what a second container holds: <<entry, value>>, in its order
    LastFirst,   \* TRUE: the client removes the newest callback of an entry first
    MaxDepth     \* bound of this model: walks that are going on at a time

Params == Scalars \cup Objects \cup Collections
Announcing == Scalars \cup Objects

NoCopy == 0
Zeroed == CHOOSE v \in Values : TRUE \* what visual_mem_new0 leaves

ASSUME ParamsAssumption ==
    /\ OtherEvent \notin Params /\ NoListener \notin Listeners /\ Watched \subseteq Announcing
    /\ Values # {} /\ Source \in Seq(Announcing \X Values)
    /\ LastFirst \in BOOLEAN /\ MaxDepth \in Nat
ASSUME KindsAssumption ==
    Scalars \cap Objects = {} /\ Announcing \cap Collections = {}

VARIABLES
    value,     \* the value of each entry
    parent,    \* entries whose parent pointer is the container
    entries,   \* the list of the container
    eventqueue,\* TRUE: the container has the plugin's queue
    queue,     \* the plugin's queue
    seen,      \* what the plugin has made of each entry
    missed,    \* history: entries whose last change put no event on the queue
    callbacks, \* the callbacks of each entry: a list of [id, who]
    told,      \* the value each callback was last called with
    walks,     \* the calls of visual_param_entry_notify_callbacks going on, innermost last
    copying    \* visual_param_container_copy: the entry of Source it is at

vars == <<value, parent, entries, eventqueue, queue, seen, missed, callbacks, told, walks, copying>>

Init ==
    /\ value = [p \in Params |-> Zeroed] /\ seen = value
    /\ told = [p \in Watched |-> [who \in Listeners |-> Zeroed]]
    /\ parent = {} /\ entries = <<>> /\ eventqueue = FALSE
    /\ queue = visual_event_queue_init /\ missed = {}
    /\ callbacks = [p \in Params |-> <<>>]
    /\ walks = <<>> /\ copying = NoCopy

Positions(list, who) == {i \in 1..Len(list) : list[i].who = who}
HasCallback(p, who) == Positions(callbacks[p], who) # {}

\* The client calls the library: by itself, or in a callback that is running.
Called ==
    IF walks = <<>> THEN copying = NoCopy
    ELSE Len(walks) < MaxDepth /\ walks[Len(walks)].who # NoListener
ByItself == walks = <<>> /\ copying = NoCopy

\* A slip: an entry whose callbacks are being called does not call them again.
ChangedOnce(p, ofContainer, adds) ==
    IF ofContainer
    THEN /\ IF eventqueue
            THEN /\ queue' = visual_event_queue_add(queue, p)
                 /\ missed' = IF Refuses(queue) THEN missed \cup {p} ELSE missed \ {p}
            ELSE missed' = missed \cup {p} /\ UNCHANGED queue
         /\ walks' = IF \E w \in 1..Len(walks) : walks[w].param = p THEN walks
                     ELSE Append(walks, [param |-> p, who |-> NoListener, adds |-> adds])
    ELSE UNCHANGED <<queue, missed, walks>>

\* visual_param_entry_changed: the event goes on the queue first, then the
\* callbacks are called; adds: the caller puts the entry on the list after them.
visual_param_entry_changed(p, ofContainer, adds) ==
    IF ofContainer
    THEN /\ IF eventqueue
            THEN /\ queue' = visual_event_queue_add(queue, p)
                 /\ missed' = IF Refuses(queue) THEN missed \cup {p} ELSE missed \ {p}
            ELSE missed' = missed \cup {p} /\ UNCHANGED queue
         /\ walks' = Append(walks, [param |-> p, who |-> NoListener, adds |-> adds])
    ELSE UNCHANGED <<queue, missed, walks>>

\* A slip: a change is one of the list's own entries only.
AssignListed(p, v) ==
    /\ value' = [value EXCEPT ![p] = v]
    /\ visual_param_entry_changed(p, p \in Range(entries), FALSE)

Assign(p, v) ==
    /\ value' = [value EXCEPT ![p] = v]
    /\ visual_param_entry_changed(p, p \in parent, FALSE)

\* The same value again is no change for an integer, a float, a string, a colour.
visual_param_entry_set_from_param(p, v) ==
    IF p \in Scalars /\ value[p] = v
    THEN UNCHANGED <<value, queue, missed, walks>>
    ELSE Assign(p, v)

\* visual_param_entry_set_integer and its like, _set_palette, _set_object.
visual_param_entry_set(p, v) ==
    /\ Called /\ p \in Announcing
    /\ visual_param_entry_set_from_param(p, v)
    /\ UNCHANGED <<parent, entries, eventqueue, seen, callbacks, told, copying>>

\* Announces nothing.
visual_param_entry_set_collection(p, v) ==
    /\ Called /\ p \in Collections
    /\ value' = [value EXCEPT ![p] = v]
    /\ UNCHANGED <<parent, entries, eventqueue, queue, seen, missed, callbacks, told, walks, copying>>

visual_param_container_add(p) ==
    /\ ByItself /\ p \notin Range(entries)
    /\ parent' = parent \cup {p}
    /\ visual_param_entry_changed(p, TRUE, TRUE)
    /\ UNCHANGED <<value, entries, eventqueue, seen, callbacks, told, copying>>

\* The entry keeps its parent.  Entries of Source stay: a copy would make
\* another of the name.
visual_param_container_remove(p) ==
    /\ ByItself /\ p \in Range(entries) /\ \A i \in 1..Len(Source) : Source[i][1] # p
    /\ entries' = Remove(entries, p)
    /\ UNCHANGED <<value, parent, eventqueue, queue, seen, missed, callbacks, told, walks, copying>>

\* visual_param_container_copy of Source, which has no callbacks of its own.
BeginCopy ==
    /\ ByItself /\ Source # <<>> /\ copying' = 1
    /\ UNCHANGED <<value, parent, entries, eventqueue, queue, seen, missed, callbacks, told, walks>>

\* One entry: overwritten, or made, given the value and added.
visual_param_container_copy ==
    /\ walks = <<>> /\ copying # NoCopy
    /\ LET p == Source[copying][1]
           v == Source[copying][2]
       IN  IF p \in Range(entries)
           THEN visual_param_entry_set_from_param(p, v) /\ UNCHANGED <<parent, callbacks>>
           ELSE /\ value' = [value EXCEPT ![p] = v] /\ parent' = parent \cup {p}
                /\ callbacks' = [callbacks EXCEPT ![p] = <<>>]
                /\ visual_param_entry_changed(p, TRUE, TRUE)
    /\ copying' = visual_list_next(Source, copying)
    /\ UNCHANGED <<entries, eventqueue, seen, told>>

\* A slip: the flag that an id is in use is read the wrong way round.
IdInUse(list) == IF list = <<>> THEN 0 ELSE list[1].id

EntriesWith(list, id, le) == {k \in le + 1..Len(list) : list[k].id = id}

\* The walk over all possible ids: the cursor is not reset for the next id.
\* Search[<<id, le>>] is what is found from id on with the cursor at le.
get_next_pcall_id(list) ==
    LET Search[s \in (0..Len(list)) \X (0..Len(list))] ==
            LET found == EntriesWith(list, s[1], s[2])
            IN  IF found = {} THEN s[1] ELSE Search[<<s[1] + 1, Min(found)>>]
    IN  Search[<<0, NoEntry>>]

visual_param_entry_add_callback(p, who) ==
    /\ Called /\ p \in Watched /\ ~HasCallback(p, who)
    /\ callbacks' = [callbacks EXCEPT ![p] =
                        Append(@, [id |-> get_next_pcall_id(@), who |-> who])]
    /\ told' = [told EXCEPT ![p][who] = value[p]]
    /\ UNCHANGED <<value, parent, entries, eventqueue, queue, seen, missed, walks, copying>>

BeingCalled(p, who) == \E w \in 1..Len(walks) : walks[w].param = p /\ walks[w].who = who

IdOf(list, who) == (CHOOSE c \in Range(list) : c.who = who).id

\* The first callback with the id goes.
WithoutId(list, id) == RemoveAt(list, Min({i \in 1..Len(list) : list[i].id = id}))

\* The client gives the id it got for one of its callbacks, of one that is not
\* being called.
visual_param_entry_remove_callback(p, who) ==
    /\ Called /\ HasCallback(p, who) /\ ~BeingCalled(p, who)
    /\ LastFirst => callbacks[p][Len(callbacks[p])].who = who
    /\ callbacks' = [callbacks EXCEPT ![p] = WithoutId(@, IdOf(@, who))]
    /\ told' = [told EXCEPT ![p][who] = Zeroed]
    /\ UNCHANGED <<value, parent, entries, eventqueue, queue, seen, missed, walks, copying>>

\* The innermost walk goes on to its next callback, or returns.
visual_param_entry_notify_callbacks ==
    /\ walks # <<>>
    /\ LET walk == walks[Len(walks)]
           list == callbacks[walk.param]
           le   == IF walk.who = NoListener THEN NoEntry
                   ELSE CHOOSE i \in Positions(list, walk.who) : TRUE
           next == visual_list_next(list, le)
       IN  /\ walk.who = NoListener \/ HasCallback(walk.param, walk.who)
           /\ IF next = NoEntry
              THEN /\ walks' = Front(walks) /\ told' = told
                   /\ entries' = IF walk.adds THEN Append(entries, walk.param) ELSE entries
              ELSE /\ walks' = [walks EXCEPT ![Len(walks)].who = list[next].who]
                   /\ told' = [told EXCEPT ![walk.param][list[next].who] = value[walk.param]]
                   /\ entries' = entries
    /\ UNCHANGED <<value, parent, eventqueue, queue, seen, missed, callbacks, copying>>

\* visual_plugin_realize gives the container the queue of its plugin, and
\* visual_plugin_unload takes it back.
visual_param_container_set_eventqueue ==
    /\ ByItself /\ eventqueue' = ~eventqueue
    /\ UNCHANGED <<value, parent, entries, queue, seen, missed, callbacks, told, walks, copying>>

\* An event that is not about a parameter takes room on the queue.
SendOther ==
    /\ Called /\ queue' = visual_event_queue_add(queue, OtherEvent)
    /\ UNCHANGED <<value, parent, entries, eventqueue, seen, missed, callbacks, told, walks, copying>>

\* What the plugin's handler is given.
Handled == LET evs == PolledAll(queue) IN {evs[i] : i \in 1..Len(evs)}

\* The plugin polls all its events, and reads the entries they name.
visual_plugin_events_pump ==
    /\ ByItself /\ HasMore(queue)
    /\ seen' = [p \in Params |-> IF p \in Handled THEN value[p] ELSE seen[p]]
    /\ queue' = Emptied(queue)
    /\ UNCHANGED <<value, parent, entries, eventqueue, missed, callbacks, told, walks, copying>>

Client ==
    \/ \E p \in Announcing, v \in Values : visual_param_entry_set(p, v)
    \/ \E p \in Collections, v \in Values : visual_param_entry_set_collection(p, v)
    \/ \E p \in Params : visual_param_container_add(p)
    \/ \E p \in Params : visual_param_container_remove(p)
    \/ \E p \in Watched, who \in Listeners : visual_param_entry_add_callback(p, who)
    \/ \E p \in Watched, who \in Listeners : visual_param_entry_remove_callback(p, who)
    \/ BeginCopy
    \/ visual_param_container_set_eventqueue
    \/ SendOther

Library == visual_param_entry_notify_callbacks \/ visual_param_container_copy

Next == Client \/ Library \/ visual_plugin_events_pump

Spec == Init /\ [][Next]_vars

-----------------------------------------------------------------------------
TypeOK ==
    /\ value \in [Params -> Values] /\ seen \in [Params -> Values]
    /\ parent \subseteq Params /\ missed \subseteq Params /\ entries \in Seq(Params)
    /\ eventqueue \in BOOLEAN /\ queue \in EventQueues(Params \cup {OtherEvent})
    /\ told \in [Watched -> [Listeners -> Values]]
    /\ copying \in 0..Len(Source)

\* The plugin knows the value of each entry or has an event waiting that will
\* make it read it, unless the event of the last change was refused.
Synced ==
    \A p \in Announcing \cap parent :
        \/ p \in missed \/ seen[p] = value[p]
        \/ \E i \in 1..Len(queue.events) : queue.events[i] = p

\* When the outermost call returns, every callback has been called with the
\* value its entry has now, whatever callbacks have set in between.
CallbacksKnow ==
    walks = <<>> =>
        \A p \in Watched \cap parent : \A i \in 1..Len(callbacks[p]) :
            told[p][callbacks[p][i].who] = value[p]

\* The entry a walk stands on stays in the list until the walk has left it.
WalksStandOnEntries ==
    \A w \in 1..Len(walks) :
        walks[w].who # NoListener => HasCallback(walks[w].param, walks[w].who)

\* lv_param.c:95: "The id has NOT been found, thus is an original, and we
\* return this as the next id".
IdsAreOriginal ==
    \A p \in Params : \A i, j \in 1..Len(callbacks[p]) :
        callbacks[p][i].id = callbacks[p][j].id => i = j
=============================================================================
