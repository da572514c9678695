---------------------------- MODULE LvToolEvents ----------------------------
(***************************************************************************)
(* The way of an event through tools/lv-tool/lv-tool.c: the display driver *)
(* drains the window system into a local queue, the main loop takes each   *)
(* event from there, adds the same object to the queue of the actor's      *)
(* plugin and reads it once more, and the plugin polls its queue when the  *)
(* bin runs.  An event is the number under which it was sent.              *)
(***************************************************************************)
EXTENDS VisEventQueue, FiniteSets

CONSTANTS
    Kinds,  \* what the window system may send, a subset of AllKinds
    MaxSent,\* bound on the number of events, for TLC
    Burst   \* bound on the events of one drain, for TLC

\* What the loop tells apart: "stop" is the escape key or a request to quit,
\* "down" a mouse button, "other" any event the loop does nothing about.
AllKinds == {"resize", "stop", "down", "hidden", "shown", "other"}

ASSUME KindsAssumption == Kinds \subseteq AllKinds
ASSUME BoundsAssumption == MaxSent \in Nat /\ Burst \in Nat

VARIABLES
    kind,      \* kind[n], what the n-th event is
    refs,      \* refs[n], the reference count of its VisEvent, 0 once freed
    local,     \* localqueue of main
    plugin,    \* the queue of the plugin of bin->actor
    burst,     \* events of this drain
    pc,        \* "drain", "poll", "run", "exited"
    running, visible, \* of main
    size,      \* the resize the display was last created for
    handles,   \* the plugin of bin->actor has an event handler
    switching, \* of the bin: "none", "pending", or "stuck" on a plugin that did not load
    skipped,   \* history: no frame has reached an event handler of the actor since the last round
    handled,   \* history: what plugins were handed by their queue
    dropped,   \* history: what the local queue refused
    orphaned,  \* history: what a replaced plugin had not polled
    bad        \* an event was read after it was freed; nothing more is modelled

vars == <<kind, refs, local, plugin, burst, pc, running, visible, size,
          handles, switching, skipped, handled, dropped, orphaned, bad>>

Sent == 1..Len(kind)

\* The first actor has its plugin, with a handler of events or without.
Init ==
    /\ kind = <<>> /\ refs = <<>>
    /\ local = visual_event_queue_init
    /\ plugin = visual_event_queue_init
    /\ burst = 0 /\ pc = "drain"
    /\ running = TRUE /\ visible = TRUE
    /\ size = NoEvent /\ switching = "none"
    /\ handles \in BOOLEAN /\ skipped = ~handles
    /\ handled = <<>> /\ dropped = {} /\ orphaned = {}
    /\ bad = FALSE

\* visual_event_queue_add_keyboard, _mousebutton, _quit and so on: a new
\* VisEvent, added, and freed again if the queue refuses it.
AddsNew(n) ==
    /\ local' = visual_event_queue_add(local, n)
    /\ refs' = Append(refs, IF Refuses(local) THEN 0 ELSE 1)
    /\ dropped' = IF Refuses(local) THEN dropped \cup {n} ELSE dropped

\* The driver gets the n-th event and sends it.  A resize takes no VisEvent yet.
Drain(k) ==
    /\ pc = "drain" /\ Len(kind) < MaxSent /\ burst < Burst
    /\ kind' = Append(kind, k)
    /\ burst' = burst + 1
    /\ LET n == Len(kind) + 1
       IN  IF k # "resize" THEN AddsNew(n)
           ELSE /\ local' = visual_event_queue_add_resize(local, n)
                /\ refs' = Append(refs, 0)
                /\ UNCHANGED dropped
    /\ UNCHANGED <<plugin, pc, running, visible, size, handles, switching, skipped,
                   handled, orphaned, bad>>

DrainEnd ==
    /\ pc = "drain"
    /\ pc' = "poll"
    /\ UNCHANGED <<kind, refs, local, plugin, burst, running, visible, size,
                   handles, switching, skipped, handled, dropped, orphaned, bad>>

\* Each event of the list es is unreffed, and freed.
Released(counts, es) == [n \in DOMAIN counts |-> IF \E i \in DOMAIN es : es[i] = n THEN 0 ELSE counts[n]]

\* A slip: the handler takes one event per call.
PumpsOne(q, counts) ==
    LET first == IF HasMore(q) THEN <<Polled(q)>> ELSE <<>>
    IN  /\ handled' = handled \o first
        /\ plugin' = IF HasMore(q) THEN visual_event_queue_poll_by_reference(q) ELSE q
        /\ refs' = Released(counts, IF q.resizenew THEN <<>> ELSE first)

\* visual_plugin_events_pump on queue q: the handler copies out every event and
\* unrefs it; without a handler the queue stays as it is.
Pumps(q, counts) ==
    \/ /\ handles
       /\ handled' = handled \o PolledAll(q)
       /\ plugin' = Emptied(q)
       /\ refs' = Released(counts, q.events)
    \/ /\ ~handles
       /\ plugin' = q
       /\ refs' = counts
       /\ UNCHANGED handled

\* The loop polls a resize.  poll_by_reference makes a new VisEvent of it,
\* which nobody unrefs.  The display is created again and the actor negotiates:
\* its plugin gets a resize and is pumped, unless the negotiation stops at a
\* plugin that only draws with openGL (lv_actor.c:403).
PollResize ==
    /\ pc = "poll" /\ local.resizenew
    /\ local' = visual_event_queue_poll_by_reference(local)
    /\ LET n == Polled(local)
           counts == [refs EXCEPT ![n] = 1]
       IN  /\ size' = n
           /\ \/ Pumps(visual_event_queue_add_resize(plugin, n), counts)
              \/ refs' = counts /\ UNCHANGED <<handled, plugin>>
    /\ UNCHANGED <<kind, burst, pc, running, visible, handles, switching, skipped,
                   dropped, orphaned, bad>>

\* The loop polls any other event, adds it to the plugin's queue and then looks
\* at its type, in memory that is free if that queue was full.  A mouse button
\* asks for the next actor of the list, whose plugin may not load.
PollEvent ==
    /\ pc = "poll" /\ ~local.resizenew /\ HasMore(local)
    /\ local' = visual_event_queue_poll_by_reference(local)
    /\ LET n == Polled(local)
           freed == Refuses(plugin)
           type == IF freed THEN "other" ELSE kind[n]
       IN  /\ plugin' = visual_event_queue_add(plugin, n)
           /\ refs' = IF freed THEN [refs EXCEPT ![n] = 0] ELSE refs
           /\ bad' = freed
           /\ running' = (running /\ type # "stop")
           /\ visible' = (type = "shown" \/ (visible /\ type # "hidden"))
           /\ switching' \in (IF type = "down" THEN {"pending", "stuck"} ELSE {switching})
    /\ UNCHANGED <<kind, burst, pc, size, handles, skipped, handled, dropped, orphaned>>

PollEnd ==
    /\ pc = "poll" /\ ~HasMore(local)
    /\ pc' = "run"
    /\ UNCHANGED <<kind, refs, local, plugin, burst, running, visible, size,
                   handles, switching, skipped, handled, dropped, orphaned, bad>>

\* A slip: the loop does not look at running.
LoopsForever ==
    /\ pc' = "drain"
    /\ burst' = 0

\* while (running)
LoopAgain ==
    /\ pc' = IF running THEN "drain" ELSE "exited"
    /\ burst' = 0

\* if (!visible) continue
RunHidden ==
    /\ pc = "run" /\ ~visible
    /\ skipped' = TRUE
    /\ LoopAgain
    /\ UNCHANGED <<kind, refs, local, plugin, running, visible, size, handles,
                   switching, handled, dropped, orphaned, bad>>

\* visual_bin_run returns before it runs the actor: the new one has no plugin.
RunRefused ==
    /\ pc = "run" /\ visible /\ switching = "stuck"
    /\ skipped' = TRUE
    /\ LoopAgain
    /\ UNCHANGED <<kind, refs, local, plugin, running, visible, size, handles,
                   switching, handled, dropped, orphaned, bad>>

\* visual_bin_run runs the actor, which pumps its plugin.
RunFrame ==
    /\ pc = "run" /\ visible /\ switching # "stuck"
    /\ Pumps(plugin, refs)
    /\ skipped' = ~handles
    /\ LoopAgain
    /\ UNCHANGED <<kind, local, running, visible, size, handles, switching,
                   dropped, orphaned, bad>>

\* bin->actor is the new actor.  Its queue holds nothing (what its own
\* parameters may have put there when it was realized is left out).
NewActor ==
    /\ plugin' = visual_event_queue_init
    /\ handles' \in BOOLEAN
    /\ switching' = "none"

\* As RunFrame with a handler, and the morph is done.  It has run the new actor too.
RunLastFrame ==
    /\ pc = "run" /\ visible /\ switching = "pending" /\ handles
    /\ handled' = handled \o PolledAll(plugin)
    /\ refs' = Released(refs, plugin.events)
    /\ NewActor
    /\ skipped' = ~handles'
    /\ LoopAgain
    /\ UNCHANGED <<kind, local, running, visible, size, dropped, orphaned, bad>>

\* visual_bin_run finalizes the switch of an openGL actor before it runs it, or
\* the morph of an actor without a handler is done.  The old plugin is gone,
\* with the events in its queue; only a morph has run the new one.
RunHandover ==
    /\ pc = "run" /\ visible /\ switching = "pending"
    /\ orphaned' = orphaned \cup {plugin.events[i] : i \in DOMAIN plugin.events}
    /\ NewActor
    /\ skipped' \in {TRUE, handles \/ ~handles'}
    /\ LoopAgain
    /\ UNCHANGED <<kind, refs, local, running, visible, size, handled, dropped, bad>>

Loop == DrainEnd \/ PollResize \/ PollEvent \/ PollEnd
        \/ RunHidden \/ RunRefused \/ RunFrame \/ RunLastFrame \/ RunHandover
Next == ~bad /\ ((\E k \in Kinds : Drain(k)) \/ Loop)

Spec == Init /\ [][Next]_vars
FairSpec == Spec /\ WF_vars(~bad /\ Loop)

-----------------------------------------------------------------------------
TypeOK ==
    /\ kind \in Seq(Kinds)
    /\ refs \in Seq(Nat) /\ Len(refs) = Len(kind)
    /\ {local, plugin} \subseteq EventQueues(Sent)
    /\ burst \in Nat
    /\ pc \in {"drain", "poll", "run", "exited"}
    /\ {running, visible, handles, skipped, bad} \subseteq BOOLEAN
    /\ switching \in {"none", "pending", "stuck"}
    /\ size \in Sent \cup {NoEvent}
    /\ handled \in Seq(Sent)
    /\ dropped \subseteq Sent /\ orphaned \subseteq Sent

Listed == {local.events[i] : i \in DOMAIN local.events}
          \cup {plugin.events[i] : i \in DOMAIN plugin.events}
Handled == {handled[i] : i \in DOMAIN handled}

\* lv-tool reads no event after a queue has freed it (lv-tool.c:445-447).
NoUseAfterFree == ~bad

\* That holds in each round that follows a frame in which the plugin on screen
\* was given its events, whatever was hidden, refused, switched or left unhandled
\* before: such a frame empties the queue of the plugin, whose bound is that of
\* the local queue (lv_actor.c:560, lv_plugin.c:188).  It fails with the window
\* shown for a plugin without a handler (lv_plugin.c:188) and while the actor to
\* come has no plugin (lv_bin.c:818), and with the window hidden (lv-tool.c:568).
SafeAfterFrame == ~skipped => NoUseAfterFree

\* The counts of the queues are the lengths of their lists and stay within one
\* of the bound; an event that is not a resize is in memory, once, while it is
\* on one of the lists or was on the list of a replaced plugin, and in no other
\* case (lv_event.c:156-199).
EventsInMemory ==
    /\ \A q \in {local, plugin} : q.eventcount = Len(q.events) /\ q.eventcount <= MAXEVENTS + 1
    /\ Cardinality(Listed) = Len(local.events) + Len(plugin.events)
    /\ \A n \in Sent : kind[n] # "resize" =>
          refs[n] = IF n \in Listed \cup orphaned THEN 1 ELSE 0

\* Plugins are handed the events that are not resizes in the order in which the
\* window system sent them, each at most once, over any number of frames and
\* actors; what is still queued is later than what was handed over.
InOrder ==
    LET all == handled \o plugin.events \o local.events
    IN  \A i, j \in DOMAIN all :
            i < j /\ kind[all[i]] # "resize" /\ kind[all[j]] # "resize" => all[i] < all[j]

\* An event is lost only where the local queue refuses it or with a plugin that
\* is replaced, over any number of frames, hidden, refused or drawn.
LostAtTheDoor ==
    ~bad => \A n \in Sent :
               kind[n] # "resize" => n \in Handled \cup Listed \cup dropped \cup orphaned

\* A resize is never lost, however full the queue (lv_event.c:186): when the
\* loop has polled everything, the display has the last size that was sent.
LatestSize ==
    pc = "run" => \A n \in Sent : kind[n] = "resize" => n <= size

\* A request to stop that has been queued ends the program (lv-tool.c:431),
\* however many events are queued with it, unless a freed event is read first.
StopEnds ==
    (\E i \in DOMAIN local.events : kind[local.events[i]] = "stop") ~> (bad \/ pc = "exited")
=============================================================================
