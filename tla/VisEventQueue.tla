---------------------------- MODULE VisEventQueue ----------------------------
(***************************************************************************)
(* The event queue of libvisual/lv_event.c as a record, its functions as   *)
(* operators.  An event is its number; what it carries and its reference   *)
(* count belong to the module that sends events.  Mouse coordinates and    *)
(* the button state are left out.                                          *)
(***************************************************************************)
EXTENDS Integers, Sequences

CONSTANT MAXEVENTS \* VISUAL_EVENT_MAXEVENTS

ASSUME LimitAssumption == MAXEVENTS \in Nat

NoEvent == 0

EventQueues(Events) ==
    [events     : Seq(Events),
     eventcount : Nat,
     lastresize : Events \cup {NoEvent},
     resizenew  : BOOLEAN]

visual_event_queue_init ==
    [events |-> <<>>, eventcount |-> 0, lastresize |-> NoEvent, resizenew |-> FALSE]

\* "We've got way too much on the queue, not adding events."
Refuses(q) == q.eventcount > MAXEVENTS

\* A slip: the newest event goes first.
AddInFront(q, ev) ==
    IF Refuses(q) THEN q
    ELSE [q EXCEPT !.events = <<ev>> \o @, !.eventcount = @ + 1]

\* The caller's reference goes to the queue; a refused event is unreffed.
visual_event_queue_add(q, ev) ==
    IF Refuses(q) THEN q
    ELSE [q EXCEPT !.events = Append(@, ev), !.eventcount = @ + 1]

\* A slip: an event on the list hides the resize until the list is empty.
ResizeIfIdle(q, ev) ==
    [q EXCEPT !.lastresize = ev, !.resizenew = (q.eventcount = 0)]

\* Only the last resize is kept, beside the list.
visual_event_queue_add_resize(q, ev) ==
    [q EXCEPT !.lastresize = ev, !.resizenew = TRUE]

HasMore(q) == q.resizenew \/ q.eventcount > 0

\* The event that a poll hands out: the resize before the list.
Polled(q) == IF q.resizenew THEN q.lastresize ELSE Head(q.events)

\* A slip: the count is not brought down.
PollKeepsCount(q) ==
    IF q.resizenew THEN [q EXCEPT !.resizenew = FALSE]
    ELSE [q EXCEPT !.events = Tail(@)]

\* The queue after a poll of a queue that has more.
visual_event_queue_poll_by_reference(q) ==
    IF q.resizenew THEN [q EXCEPT !.resizenew = FALSE]
    ELSE [q EXCEPT !.events = Tail(@), !.eventcount = @ - 1]

\* A slip: a handler that is given a resize leaves it at that.
ResizeOnly(q) == IF q.resizenew THEN <<q.lastresize>> ELSE q.events

\* while (visual_event_queue_poll (events, &ev)): what the event handler of a
\* plugin is given, in this order, and the queue it leaves.
PolledAll(q) == (IF q.resizenew THEN <<q.lastresize>> ELSE <<>>) \o q.events
Emptied(q) ==
    [events |-> <<>>, eventcount |-> 0, lastresize |-> q.lastresize, resizenew |-> FALSE]
=============================================================================
