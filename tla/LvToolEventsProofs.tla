------------------------- MODULE LvToolEventsProofs -------------------------
(***************************************************************************)
(* Proofs about LvToolEvents, for every bound of the queue, any number of  *)
(* events and any bursts.                                                  *)
(***************************************************************************)
EXTENDS LvToolEvents, FiniteSetTheorems, SequenceTheorems, TLAPS

\* A queue over a set of events: its count is the length of its list, and a
\* new resize is an event.
QueueOK(q, S) ==
    /\ q \in [events : Seq(S), eventcount : Nat, lastresize : S \cup {NoEvent}, resizenew : BOOLEAN]
    /\ q.eventcount = Len(q.events)
    /\ q.resizenew => q.lastresize # NoEvent

\* An empty queue is a queue.
LEMMA InitQueue == ASSUME NEW S PROVE QueueOK(visual_event_queue_init, S)
BY DEF QueueOK, visual_event_queue_init

\* Adding an event of the set keeps a queue, accepted or not.
LEMMA AddQueue ==
    ASSUME NEW S, NEW q, QueueOK(q, S), NEW n \in S
    PROVE  QueueOK(visual_event_queue_add(q, n), S)
<1>1. CASE Refuses(q)
  BY <1>1 DEF visual_event_queue_add
<1>2. CASE ~Refuses(q)
  <2>1. q.events \in Seq(S) /\ q.eventcount = Len(q.events) /\ q.eventcount \in Nat
    BY DEF QueueOK
  <2>2. Append(q.events, n) \in Seq(S) /\ Len(Append(q.events, n)) = q.eventcount + 1
    BY <2>1
  <2>3. visual_event_queue_add(q, n) =
            [events |-> Append(q.events, n), eventcount |-> q.eventcount + 1,
             lastresize |-> q.lastresize, resizenew |-> q.resizenew]
    BY <1>2 DEF QueueOK, visual_event_queue_add
  <2>4. q.eventcount + 1 \in Nat
    BY <2>1
  <2> QED BY <2>2, <2>3, <2>4 DEF QueueOK
<1> QED BY <1>1, <1>2

LEMMA AddResizeQueue ==
    ASSUME NEW S, NEW q, QueueOK(q, S), NEW n \in S, n # NoEvent
    PROVE  QueueOK(visual_event_queue_add_resize(q, n), S)
BY DEF QueueOK, visual_event_queue_add_resize

\* A poll of a queue that has more hands out an event of the set.
LEMMA PollQueue ==
    ASSUME NEW S, NEW q, QueueOK(q, S), HasMore(q)
    PROVE  /\ QueueOK(visual_event_queue_poll_by_reference(q), S)
           /\ Polled(q) \in S
<1>1. CASE q.resizenew
  BY <1>1 DEF QueueOK, visual_event_queue_poll_by_reference, Polled
<1>2. CASE ~q.resizenew
  <2>1. Len(q.events) > 0 /\ q.events # <<>> /\ q.events \in Seq(S)
    BY <1>2 DEF QueueOK, HasMore
  <2>2. Head(q.events) \in S /\ Tail(q.events) \in Seq(S) /\ Len(Tail(q.events)) = Len(q.events) - 1
    BY <2>1
  <2>3. visual_event_queue_poll_by_reference(q) =
            [events |-> Tail(q.events), eventcount |-> q.eventcount - 1,
             lastresize |-> q.lastresize, resizenew |-> q.resizenew]
    BY <1>2 DEF QueueOK, visual_event_queue_poll_by_reference
  <2>4. q.eventcount = Len(q.events) /\ q.eventcount - 1 \in Nat
    BY <2>1 DEF QueueOK
  <2>5. QueueOK(visual_event_queue_poll_by_reference(q), S)
    BY <2>2, <2>3, <2>4 DEF QueueOK
  <2> QED BY <1>2, <2>2, <2>5 DEF Polled
<1> QED BY <1>1, <1>2

LEMMA PollAllQueue ==
    ASSUME NEW S, NEW q, QueueOK(q, S)
    PROVE  QueueOK(Emptied(q), S) /\ PolledAll(q) \in Seq(S)
<1>1. QueueOK(Emptied(q), S)
  <2>1. Emptied(q) = [events |-> <<>>, eventcount |-> 0, lastresize |-> q.lastresize, resizenew |-> FALSE]
    BY DEF Emptied, visual_event_queue_init
  <2>2. <<>> \in Seq(S) /\ Len(<<>>) = 0
    OBVIOUS
  <2> QED BY <2>1, <2>2 DEF QueueOK
<1>2. PolledAll(q) \in Seq(S)
  <2>1. (IF q.resizenew THEN <<q.lastresize>> ELSE <<>>) \in Seq(S)
    BY DEF QueueOK
  <2> QED BY <2>1 DEF QueueOK, PolledAll
<1> QED BY <1>1, <1>2

\* More events in the world leave a queue a queue.
LEMMA WiderQueue ==
    ASSUME NEW S, NEW T, S \subseteq T, NEW q, QueueOK(q, S)
    PROVE  QueueOK(q, T)
<1>1. q.events \in Seq(T)
  BY DEF QueueOK
<1> QED BY <1>1 DEF QueueOK

\* Unreffing events leaves one count per event.
LEMMA ReleasedCounts ==
    ASSUME NEW counts \in Seq(Nat), NEW es
    PROVE  Released(counts, es) \in Seq(Nat) /\ Len(Released(counts, es)) = Len(counts)
<1>1. DOMAIN counts = 1..Len(counts) /\ Len(counts) \in Nat
  OBVIOUS
<1>2. \A n \in 1..Len(counts) : (IF \E i \in DOMAIN es : es[i] = n THEN 0 ELSE counts[n]) \in Nat
  OBVIOUS
<1>3. Released(counts, es) \in [1..Len(counts) -> Nat]
  BY <1>1, <1>2 DEF Released
<1> QED BY <1>1, <1>3

-----------------------------------------------------------------------------
(* Types.                                                                    *)

\* TypeOK, and what makes Head and eventcount agree.
TypeInv ==
    /\ TypeOK
    /\ QueueOK(local, Sent) /\ QueueOK(plugin, Sent)

LEMMA TypeInit == Init => TypeInv
<1> SUFFICES ASSUME Init PROVE TypeInv
  OBVIOUS
<1>1. kind = <<>> /\ Len(kind) = 0 /\ refs = <<>> /\ handled = <<>>
  BY DEF Init
<1>2. QueueOK(local, Sent) /\ QueueOK(plugin, Sent)
  BY InitQueue DEF Init
<1>3. {local, plugin} \subseteq EventQueues(Sent)
  BY <1>2 DEF QueueOK, EventQueues
<1>4. {running, visible, handles, skipped, bad} \subseteq BOOLEAN
  <2>1. /\ running \in BOOLEAN /\ visible \in BOOLEAN /\ bad \in BOOLEAN
        /\ handles \in BOOLEAN /\ skipped \in BOOLEAN
    BY Zenon DEF Init
  <2> QED BY <2>1
<1>5. kind \in Seq(Kinds) /\ refs \in Seq(Nat) /\ Len(refs) = Len(kind) /\ handled \in Seq(Sent)
  BY <1>1
<1> QED BY <1>2, <1>3, <1>4, <1>5 DEF Init, TypeInv, TypeOK

\* The pump hands over events of the world and empties the queue it is given, or
\* leaves it as it is.
LEMMA PumpTypes ==
    ASSUME TypeInv, NEW q, QueueOK(q, Sent), NEW counts \in Seq(Nat), Len(counts) = Len(kind),
           Pumps(q, counts)
    PROVE  /\ QueueOK(plugin', Sent)
           /\ handled' \in Seq(Sent)
           /\ refs' \in Seq(Nat) /\ Len(refs') = Len(kind)
<1>1. QueueOK(Emptied(q), Sent) /\ PolledAll(q) \in Seq(Sent)
  BY PollAllQueue
<1>2. handled \in Seq(Sent)
  BY DEF TypeInv, TypeOK
<1>3. CASE handles
  <2>1. handled' = handled \o PolledAll(q) /\ plugin' = Emptied(q) /\ refs' = Released(counts, q.events)
    BY <1>3 DEF Pumps
  <2>2. refs' \in Seq(Nat) /\ Len(refs') = Len(kind)
    BY <2>1, ReleasedCounts
  <2> QED BY <1>1, <1>2, <2>1, <2>2
<1>4. CASE ~handles
  BY <1>2, <1>4 DEF Pumps
<1> QED BY <1>3, <1>4

LEMMA TypeNext == TypeInv /\ [Next]_vars => TypeInv'
<1> SUFFICES ASSUME TypeInv, [Next]_vars PROVE TypeInv'
  OBVIOUS
<1>0. /\ kind \in Seq(Kinds) /\ Len(kind) \in Nat
      /\ refs \in Seq(Nat) /\ Len(refs) = Len(kind)
      /\ handled \in Seq(Sent) /\ dropped \subseteq Sent /\ orphaned \subseteq Sent
      /\ QueueOK(local, Sent) /\ QueueOK(plugin, Sent)
      /\ running \in BOOLEAN /\ visible \in BOOLEAN /\ bad \in BOOLEAN
      /\ handles \in BOOLEAN /\ skipped \in BOOLEAN
      /\ switching \in {"none", "pending", "stuck"}
      /\ size \in Sent \cup {NoEvent} /\ burst \in Nat
      /\ pc \in {"drain", "poll", "run", "exited"}
  BY DEF TypeInv, TypeOK
<1>a. ASSUME kind' \in Seq(Kinds), refs' \in Seq(Nat), Len(refs') = Len(kind'),
             handled' \in Seq(Sent'), dropped' \subseteq Sent', orphaned' \subseteq Sent',
             QueueOK(local', Sent'), QueueOK(plugin', Sent'),
             running' \in BOOLEAN, visible' \in BOOLEAN, bad' \in BOOLEAN,
             handles' \in BOOLEAN, skipped' \in BOOLEAN,
             switching' \in {"none", "pending", "stuck"},
             size' \in Sent' \cup {NoEvent}, burst' \in Nat,
             pc' \in {"drain", "poll", "run", "exited"}
      PROVE  TypeInv'
  <2>1. {local', plugin'} \subseteq EventQueues(Sent')
    BY <1>a DEF QueueOK, EventQueues
  <2> QED BY <1>a, <2>1 DEF TypeInv, TypeOK
<1>1. ASSUME NEW k \in Kinds, Drain(k) PROVE TypeInv'
  <2> DEFINE n == Len(kind) + 1
  <2>1. kind' \in Seq(Kinds) /\ Len(kind') = n /\ n \in Sent' /\ n # NoEvent /\ Sent \subseteq Sent'
    BY <1>0, <1>1 DEF Drain, Sent, NoEvent
  <2>2. QueueOK(local, Sent') /\ QueueOK(plugin, Sent') /\ handled \in Seq(Sent')
    BY <1>0, <2>1, WiderQueue
  <2>3. QueueOK(local', Sent') /\ dropped' \subseteq Sent'
    BY <1>0, <1>1, <2>1, <2>2, AddQueue, AddResizeQueue DEF Drain, AddsNew
  <2>4. refs' \in Seq(Nat) /\ Len(refs') = n
    <3>1. \E r \in {0, 1} : refs' = Append(refs, r)
      BY <1>1 DEF Drain, AddsNew
    <3> QED BY <1>0, <3>1
  <2> QED BY <1>0, <1>1, <1>a, <2>1, <2>2, <2>3, <2>4 DEF Drain, AddsNew
<1>2. CASE DrainEnd
  BY <1>0, <1>2, <1>a DEF DrainEnd, Sent
<1>3. CASE PollResize
  <2> DEFINE n == Polled(local)
             counts == [refs EXCEPT ![n] = 1]
  <2>1. n \in Sent /\ QueueOK(local', Sent) /\ n # NoEvent /\ kind' = kind
    BY <1>0, <1>3, PollQueue DEF PollResize, HasMore, Polled, QueueOK
  <2>2. counts \in Seq(Nat) /\ Len(counts) = Len(kind)
    BY <1>0, <2>1 DEF Sent
  <2>3. QueueOK(visual_event_queue_add_resize(plugin, n), Sent)
    BY <1>0, <2>1, AddResizeQueue
  <2>4. QueueOK(plugin', Sent) /\ handled' \in Seq(Sent) /\ refs' \in Seq(Nat) /\ Len(refs') = Len(kind)
    <3>1. CASE Pumps(visual_event_queue_add_resize(plugin, n), counts)
      BY <3>1, <2>2, <2>3, PumpTypes
    <3>2. CASE refs' = counts /\ UNCHANGED <<handled, plugin>>
      BY <3>2, <2>2, <1>0
    <3> QED BY <1>3, <3>1, <3>2 DEF PollResize
  <2> QED BY <1>0, <1>3, <1>a, <2>1, <2>4 DEF PollResize, Sent
<1>4. CASE PollEvent
  <2> DEFINE n == Polled(local)
  <2>1. n \in Sent /\ QueueOK(local', Sent) /\ kind' = kind
    BY <1>0, <1>4, PollQueue DEF PollEvent
  <2>2. QueueOK(plugin', Sent)
    BY <1>0, <1>4, <2>1, AddQueue DEF PollEvent
  <2>3. refs' \in Seq(Nat) /\ Len(refs') = Len(kind)
    BY <1>0, <1>4, <2>1 DEF PollEvent, Sent
  <2>4. running' \in BOOLEAN /\ visible' \in BOOLEAN /\ bad' \in BOOLEAN
    <3>1. \E type : /\ running' = (running /\ type # "stop")
                    /\ visible' = (type = "shown" \/ (visible /\ type # "hidden"))
      BY <1>4, Zenon DEF PollEvent
    <3>2. bad' = (plugin.eventcount > MAXEVENTS)
      BY <1>4, Zenon DEF PollEvent, Refuses
    <3>3. bad' \in BOOLEAN
      <4>1. \A b : (b = (plugin.eventcount > MAXEVENTS)) => b \in BOOLEAN
        OBVIOUS
      <4> QED BY <3>2, <4>1, Zenon
    <3>4. running' \in BOOLEAN /\ visible' \in BOOLEAN
      BY <3>1, Zenon
    <3> QED BY <3>3, <3>4
  <2>5. switching' \in {"none", "pending", "stuck"}
    BY <1>0, <1>4 DEF PollEvent
  <2>6. UNCHANGED <<handles, skipped, size, handled, dropped, orphaned, burst, pc>>
    BY <1>4 DEF PollEvent
  <2>7. Sent' = Sent
    BY <2>1 DEF Sent
  <2> QED BY <1>0, <1>a, <2>1, <2>2, <2>3, <2>4, <2>5, <2>6, <2>7
<1>5. CASE PollEnd
  BY <1>0, <1>5, <1>a DEF PollEnd, Sent
<1>6. CASE RunHidden \/ RunRefused
  <2>1. /\ UNCHANGED <<kind, refs, local, plugin, running, visible, size, handles, switching,
                       handled, dropped, orphaned, bad>>
        /\ skipped' = TRUE /\ burst' = 0
        /\ pc' = IF running THEN "drain" ELSE "exited"
    BY <1>6 DEF RunHidden, RunRefused, LoopAgain
  <2> QED BY <1>0, <1>a, <2>1 DEF Sent
<1>7. CASE RunFrame
  <2>1. QueueOK(plugin', Sent) /\ handled' \in Seq(Sent) /\ refs' \in Seq(Nat) /\ Len(refs') = Len(kind)
    BY <1>0, <1>7, PumpTypes DEF RunFrame
  <2>2. skipped' \in BOOLEAN
    BY <1>0, <1>7, Zenon DEF RunFrame
  <2> QED BY <1>0, <1>7, <1>a, <2>1, <2>2 DEF RunFrame, LoopAgain, Sent
<1>8. CASE RunLastFrame
  <2>1. QueueOK(plugin', Sent)
    BY <1>8, InitQueue DEF RunLastFrame, NewActor
  <2>2. handled' \in Seq(Sent) /\ refs' \in Seq(Nat) /\ Len(refs') = Len(kind)
    <3>1. PolledAll(plugin) \in Seq(Sent)
      BY <1>0, PollAllQueue
    <3>2. handled' \in Seq(Sent)
      BY <1>0, <1>8, <3>1 DEF RunLastFrame
    <3>3. refs' = Released(refs, plugin.events)
      BY <1>8 DEF RunLastFrame
    <3> QED BY <1>0, <3>2, <3>3, ReleasedCounts
  <2>3. handles' \in BOOLEAN /\ skipped' \in BOOLEAN /\ switching' \in {"none", "pending", "stuck"}
    BY <1>8, Zenon DEF RunLastFrame, NewActor
  <2> QED BY <1>0, <1>8, <1>a, <2>1, <2>2, <2>3 DEF RunLastFrame, LoopAgain, Sent
<1>9. CASE RunHandover
  <2>1. QueueOK(plugin', Sent)
    BY <1>9, InitQueue DEF RunHandover, NewActor
  <2>2. \A i \in DOMAIN plugin.events : plugin.events[i] \in Sent
    BY <1>0 DEF QueueOK
  <2>3. handles' \in BOOLEAN /\ switching' \in {"none", "pending", "stuck"}
    BY <1>9, Zenon DEF RunHandover, NewActor
  <2>4. skipped' \in BOOLEAN
    <3>1. skipped' = TRUE \/ skipped' = (handles \/ ~handles')
      BY <1>9 DEF RunHandover
    <3> QED BY <3>1, Zenon
  <2> QED BY <1>0, <1>9, <1>a, <2>1, <2>2, <2>3, <2>4 DEF RunHandover, LoopAgain, Sent
<1>10. CASE UNCHANGED vars
  BY <1>0, <1>10, <1>a DEF vars, Sent
<1> QED BY <1>1, <1>2, <1>3, <1>4, <1>5, <1>6, <1>7, <1>8, <1>9, <1>10 DEF Next, Loop

\* The queues stay well formed, whatever the window system sends.
LEMMA QueuesWellFormed == Spec => []TypeInv
BY TypeInit, TypeNext, PTL DEF Spec

\* Every variable of the loop and its queues keeps its type, whatever the window
\* system sends (lv-tool.c:431-565).
THEOREM EventTypes == Spec => []TypeOK
<1>1. TypeInv => TypeOK
  BY DEF TypeInv
<1> QED BY <1>1, QueuesWellFormed, PTL

-----------------------------------------------------------------------------
(* No event is read after it was freed once a frame has reached the plugin.  *)

\* After such a frame the plugin's queue is empty, and while the loop polls, what
\* is left in the local queue still fits into it.
RoomInPlugin ==
    /\ local.eventcount <= MAXEVENTS + 1
    /\ ~skipped => /\ ~bad
                   /\ pc \in {"drain", "exited"} => plugin.eventcount = 0
                   /\ pc = "poll" => local.eventcount + plugin.eventcount <= MAXEVENTS + 1

LEMMA RoomNext ==
    ASSUME TypeInv, RoomInPlugin, [Next]_vars
    PROVE  RoomInPlugin'
<1>0. /\ local.eventcount \in Nat /\ plugin.eventcount \in Nat /\ MAXEVENTS \in Nat
      /\ QueueOK(local, Sent) /\ QueueOK(plugin, Sent)
      /\ refs \in Seq(Nat) /\ Len(refs) = Len(kind) /\ kind \in Seq(Kinds)
  BY LimitAssumption DEF TypeInv, TypeOK, QueueOK
<1>1. ASSUME NEW k \in Kinds, Drain(k) PROVE RoomInPlugin'
  <2>1. local'.eventcount \in Nat /\ local'.eventcount <= MAXEVENTS + 1
    <3>1. local' \in {local, visual_event_queue_add(local, Len(kind) + 1),
                      visual_event_queue_add_resize(local, Len(kind) + 1)}
      BY <1>1 DEF Drain, AddsNew
    <3>2. visual_event_queue_add_resize(local, Len(kind) + 1).eventcount = local.eventcount
      BY <1>0 DEF visual_event_queue_add_resize, QueueOK
    <3>3. CASE Refuses(local)
      BY <1>0, <3>1, <3>2, <3>3 DEF visual_event_queue_add, RoomInPlugin
    <3>4. CASE ~Refuses(local)
      <4>1. visual_event_queue_add(local, Len(kind) + 1).eventcount = local.eventcount + 1
        BY <1>0, <3>4 DEF visual_event_queue_add, QueueOK
      <4>2. local.eventcount <= MAXEVENTS
        BY <1>0, <3>4 DEF Refuses
      <4> QED BY <1>0, <3>1, <3>2, <4>1, <4>2
    <3> QED BY <3>3, <3>4
  <2> QED BY <1>1, <2>1 DEF Drain, RoomInPlugin
<1>2. CASE DrainEnd
  BY <1>0, <1>2 DEF DrainEnd, RoomInPlugin
<1>3. CASE PollResize
  <2>1. local'.eventcount = local.eventcount
    BY <1>0, <1>3 DEF PollResize, visual_event_queue_poll_by_reference, QueueOK
  <2>2. plugin'.eventcount = 0 \/ plugin'.eventcount = plugin.eventcount
    <3> DEFINE q == visual_event_queue_add_resize(plugin, Polled(local))
    <3>1. q.eventcount = plugin.eventcount
      BY <1>0 DEF visual_event_queue_add_resize, QueueOK
    <3>2. plugin' \in {Emptied(q), q, plugin}
      BY <1>3 DEF PollResize, Pumps
    <3> HIDE DEF q
    <3> QED BY <3>1, <3>2 DEF Emptied
  <2> QED BY <1>0, <1>3, <2>1, <2>2 DEF PollResize, RoomInPlugin
<1>4. CASE PollEvent
  <2> DEFINE n == Polled(local)
  <2>1. local.eventcount > 0 /\ n \in Sent
    BY <1>0, <1>4, PollQueue DEF PollEvent, HasMore
  <2>2. ~skipped => ~Refuses(plugin)
    BY <1>0, <1>4, <2>1 DEF PollEvent, Refuses, RoomInPlugin
  <2>3. local'.eventcount = local.eventcount - 1
    BY <1>0, <1>4 DEF PollEvent, visual_event_queue_poll_by_reference, QueueOK
  <2>4. ~skipped => plugin'.eventcount = plugin.eventcount + 1
    BY <1>0, <1>4, <2>2 DEF PollEvent, visual_event_queue_add, QueueOK
  <2>5. ~skipped => ~bad'
    BY <1>4, <2>2 DEF PollEvent
  <2>6. skipped' = skipped /\ pc = "poll" /\ pc' = "poll"
    BY <1>4 DEF PollEvent
  <2> QED BY <1>0, <2>3, <2>4, <2>5, <2>6 DEF RoomInPlugin
<1>5. CASE PollEnd
  BY <1>5 DEF PollEnd, RoomInPlugin
<1>6. CASE RunHidden \/ RunRefused
  BY <1>6 DEF RunHidden, RunRefused, RoomInPlugin
<1>7. CASE ~bad /\ RunFrame
  <2>1. ~skipped' => plugin'.eventcount = 0
    <3>1. CASE handles
      BY <1>7, <3>1 DEF RunFrame, Pumps, Emptied
    <3>2. CASE ~handles
      BY <1>7, <3>2 DEF RunFrame
    <3> QED BY <3>1, <3>2
  <2> QED BY <1>7, <2>1 DEF RunFrame, LoopAgain, RoomInPlugin
<1>8. CASE ~bad /\ RunLastFrame
  BY <1>8 DEF RunLastFrame, NewActor, LoopAgain, RoomInPlugin, visual_event_queue_init
<1>9. CASE ~bad /\ RunHandover
  BY <1>9 DEF RunHandover, NewActor, LoopAgain, RoomInPlugin, visual_event_queue_init
<1>10. CASE UNCHANGED vars
  BY <1>10 DEF vars, RoomInPlugin
<1> QED BY <1>1, <1>2, <1>3, <1>4, <1>5, <1>6, <1>7, <1>8, <1>9, <1>10 DEF Next, Loop

\* SafeAfterFrame (lv-tool.c:445-447), for every bound of the queues, any bursts
\* and any hidden windows, switches and plugins that do not load or do not handle
\* events: in a round that follows a frame with an event handler, the queue of
\* the plugin has room for all the local queue can hold, because that frame
\* emptied it and both have the same bound.
THEOREM ReadsBeforeFree == Spec => []SafeAfterFrame
<1> DEFINE Inv == TypeInv /\ RoomInPlugin
<1>1. Init => Inv
  BY TypeInit, LimitAssumption DEF Init, RoomInPlugin, visual_event_queue_init
<1>2. Inv /\ [Next]_vars => Inv'
  BY TypeNext, RoomNext
<1>3. Inv => SafeAfterFrame
  BY DEF RoomInPlugin, SafeAfterFrame, NoUseAfterFree
<1> QED BY <1>1, <1>2, <1>3, PTL DEF Spec
-----------------------------------------------------------------------------
(* The last size.                                                            *)

\* No resize was sent after the one the local queue has beside its list, which
\* has either not been polled or is the size of the display.
SizeFollows ==
    /\ \A n \in Sent : kind[n] = "resize" => n <= local.lastresize
    /\ ~local.resizenew => local.lastresize = size
    /\ pc = "run" => ~local.resizenew

LEMMA SizeNext ==
    ASSUME TypeInv, SizeFollows, [Next]_vars
    PROVE  SizeFollows'
<1>0. /\ kind \in Seq(Kinds) /\ Len(kind) \in Nat /\ MAXEVENTS \in Nat
      /\ QueueOK(local, Sent) /\ pc \in {"drain", "poll", "run", "exited"}
      /\ local.lastresize \in Nat
  BY LimitAssumption DEF TypeInv, TypeOK, QueueOK, Sent, NoEvent
<1>1. ASSUME NEW k \in Kinds, Drain(k) PROVE SizeFollows'
  <2> DEFINE n == Len(kind) + 1
  <2>1. /\ Len(kind') = n /\ kind'[n] = k
        /\ \A m \in 1..Len(kind) : kind'[m] = kind[m]
    BY <1>0, <1>1 DEF Drain
  <2>2. pc' = "drain" /\ size' = size
    BY <1>1 DEF Drain
  <2>3. CASE k = "resize"
    <3>1. local'.lastresize = n /\ local'.resizenew
      BY <1>0, <1>1, <2>3 DEF Drain, visual_event_queue_add_resize, QueueOK
    <3> QED BY <1>0, <2>1, <2>2, <3>1 DEF SizeFollows, Sent
  <2>4. CASE k # "resize"
    <3>1. local'.lastresize = local.lastresize /\ local'.resizenew = local.resizenew
      BY <1>0, <1>1, <2>4 DEF Drain, AddsNew, visual_event_queue_add, QueueOK
    <3> QED BY <1>0, <2>1, <2>2, <2>4, <3>1 DEF SizeFollows, Sent
  <2> QED BY <2>3, <2>4
<1>2. CASE DrainEnd
  BY <1>2 DEF DrainEnd, SizeFollows, Sent
<1>3. CASE PollResize
  <2>1. /\ kind' = kind /\ pc' = "poll" /\ size' = local.lastresize
        /\ local'.lastresize = local.lastresize
    BY <1>0, <1>3 DEF PollResize, Polled, visual_event_queue_poll_by_reference, QueueOK
  <2> QED BY <2>1 DEF SizeFollows, Sent
<1>4. CASE PollEvent
  <2>1. /\ kind' = kind /\ pc' = "poll" /\ size' = size
        /\ local'.lastresize = local.lastresize /\ local'.resizenew = local.resizenew
    BY <1>0, <1>4 DEF PollEvent, visual_event_queue_poll_by_reference, QueueOK
  <2> QED BY <1>4, <2>1 DEF SizeFollows, Sent, PollEvent
<1>5. CASE PollEnd
  BY <1>5 DEF PollEnd, HasMore, SizeFollows, Sent
<1>6. CASE RunHidden \/ RunRefused
  BY <1>6 DEF RunHidden, RunRefused, LoopAgain, SizeFollows, Sent
<1>7. CASE RunFrame
  BY <1>7 DEF RunFrame, LoopAgain, SizeFollows, Sent
<1>8. CASE RunLastFrame
  BY <1>8 DEF RunLastFrame, LoopAgain, SizeFollows, Sent
<1>9. CASE RunHandover
  BY <1>9 DEF RunHandover, LoopAgain, SizeFollows, Sent
<1>10. CASE UNCHANGED vars
  BY <1>10 DEF vars, SizeFollows, Sent
<1> QED BY <1>1, <1>2, <1>3, <1>4, <1>5, <1>6, <1>7, <1>8, <1>9, <1>10 DEF Next, Loop

\* LatestSize (lv_event.c:186, lv-tool.c:441), for every bound of the queues:
\* a resize needs no room on a list, and the newest replaces those before it.
THEOREM LastSizeWins == Spec => []LatestSize
<1> DEFINE Inv == TypeInv /\ SizeFollows
<1>1. Init => Inv
  <2>1. Init => Sent = {}
    BY DEF Init, Sent
  <2> QED BY <2>1, TypeInit DEF Init, SizeFollows, visual_event_queue_init
<1>2. Inv /\ [Next]_vars => Inv'
  BY TypeNext, SizeNext
<1>3. Inv => LatestSize
  BY DEF SizeFollows, LatestSize
<1> QED BY <1>1, <1>2, <1>3, PTL DEF Spec
-----------------------------------------------------------------------------
(* Where events are lost.                                                    *)

Elements(es) == {es[i] : i \in DOMAIN es}

LEMMA ElementsAppend ==
    ASSUME NEW S, NEW es \in Seq(S), NEW n
    PROVE  Elements(Append(es, n)) = Elements(es) \cup {n}
<1>1. /\ DOMAIN es = 1..Len(es) /\ Len(es) \in Nat
      /\ DOMAIN Append(es, n) = 1..Len(es) + 1
      /\ \A i \in 1..Len(es) : Append(es, n)[i] = es[i]
      /\ Append(es, n)[Len(es) + 1] = n
  OBVIOUS
<1>2. 1..Len(es) + 1 = 1..Len(es) \cup {Len(es) + 1}
  BY <1>1
<1> QED BY <1>1, <1>2 DEF Elements

LEMMA ElementsConcat ==
    ASSUME NEW S, NEW es \in Seq(S), NEW fs \in Seq(S)
    PROVE  Elements(es \o fs) = Elements(es) \cup Elements(fs)
<1>1. /\ DOMAIN es = 1..Len(es) /\ Len(es) \in Nat
      /\ DOMAIN fs = 1..Len(fs) /\ Len(fs) \in Nat
      /\ DOMAIN (es \o fs) = 1..Len(es) + Len(fs)
      /\ \A i \in 1..Len(es) + Len(fs) :
            (es \o fs)[i] = IF i <= Len(es) THEN es[i] ELSE fs[i - Len(es)]
  OBVIOUS
<1>2. ASSUME NEW x \in Elements(es \o fs) PROVE x \in Elements(es) \cup Elements(fs)
  <2>1. PICK i \in 1..Len(es) + Len(fs) : x = (es \o fs)[i]
    BY <1>1 DEF Elements
  <2>2. CASE i <= Len(es)
    BY <1>1, <2>1, <2>2 DEF Elements
  <2>3. CASE i > Len(es)
    <3>1. i - Len(es) \in 1..Len(fs) /\ x = fs[i - Len(es)]
      BY <1>1, <2>1, <2>3
    <3> QED BY <1>1, <3>1 DEF Elements
  <2> QED BY <1>1, <2>2, <2>3
<1>3. ASSUME NEW x \in Elements(es) PROVE x \in Elements(es \o fs)
  <2>1. PICK i \in 1..Len(es) : x = es[i]
    BY <1>1 DEF Elements
  <2>2. i \in 1..Len(es) + Len(fs) /\ x = (es \o fs)[i]
    BY <1>1, <2>1
  <2> QED BY <1>1, <2>2 DEF Elements
<1>4. ASSUME NEW x \in Elements(fs) PROVE x \in Elements(es \o fs)
  <2>1. PICK i \in 1..Len(fs) : x = fs[i]
    BY <1>1 DEF Elements
  <2>2. i + Len(es) \in 1..Len(es) + Len(fs) /\ x = (es \o fs)[i + Len(es)]
    BY <1>1, <2>1
  <2> QED BY <1>1, <2>2 DEF Elements
<1> QED BY <1>2, <1>3, <1>4

LEMMA ElementsTail ==
    ASSUME NEW S, NEW es \in Seq(S), es # <<>>
    PROVE  Elements(es) = {Head(es)} \cup Elements(Tail(es))
<1>1. <<Head(es)>> \in Seq(S) /\ Tail(es) \in Seq(S) /\ es = <<Head(es)>> \o Tail(es)
  OBVIOUS
<1>2. Elements(<<Head(es)>>) = {Head(es)}
  BY DEF Elements
<1>3. Elements(<<Head(es)>> \o Tail(es)) = Elements(<<Head(es)>>) \cup Elements(Tail(es))
  BY <1>1, ElementsConcat, Zenon
<1> QED BY <1>1, <1>2, <1>3, Zenon

\* What a pump hands over are all the events of the list.
LEMMA ElementsPolled ==
    ASSUME NEW q, QueueOK(q, Sent), handled \in Seq(Sent)
    PROVE  /\ Elements(handled) \subseteq Elements(handled \o PolledAll(q))
           /\ Elements(q.events) \subseteq Elements(handled \o PolledAll(q))
<1> DEFINE first == IF q.resizenew THEN <<q.lastresize>> ELSE <<>>
<1>0. handled \in Seq(Sent)
  OBVIOUS
<1>1. first \in Seq(Sent) /\ q.events \in Seq(Sent)
  BY DEF QueueOK
<1>2. PolledAll(q) \in Seq(Sent)
  BY PollAllQueue
<1>3. PolledAll(q) = first \o q.events
  BY DEF PolledAll
<1> HIDE DEF first
<1>4. Elements(PolledAll(q)) = Elements(first) \cup Elements(q.events)
  BY <1>1, <1>3, ElementsConcat
<1>5. Elements(handled \o PolledAll(q)) = Elements(handled) \cup Elements(PolledAll(q))
  BY <1>0, <1>2, ElementsConcat
<1> QED BY <1>4, <1>5

\* LostAtTheDoor in terms of the sets of events.
Accounted ==
    bad \/ \A n \in Sent :
              kind[n] # "resize" =>
                  n \in Elements(handled) \cup Elements(local.events) \cup Elements(plugin.events)
                        \cup dropped \cup orphaned

LEMMA AccountedNext ==
    ASSUME TypeInv, Accounted, [Next]_vars
    PROVE  Accounted'
<1>0. /\ kind \in Seq(Kinds) /\ Len(kind) \in Nat /\ handled \in Seq(Sent)
      /\ QueueOK(local, Sent) /\ QueueOK(plugin, Sent)
      /\ local.events \in Seq(Sent) /\ plugin.events \in Seq(Sent)
  BY DEF TypeInv, TypeOK, QueueOK
<1>a. ASSUME kind' = kind,
             bad' \/ /\ ~bad
                     /\ Elements(handled) \cup Elements(local.events) \cup Elements(plugin.events)
                           \cup dropped \cup orphaned
                        \subseteq Elements(handled') \cup Elements(local'.events)
                           \cup Elements(plugin'.events) \cup dropped' \cup orphaned'
      PROVE  Accounted'
  BY <1>a DEF Accounted, Sent
<1>1. ASSUME ~bad, NEW k \in Kinds, Drain(k) PROVE Accounted'
  <2> DEFINE n == Len(kind) + 1
  <2>1. /\ Sent' = Sent \cup {n} /\ kind'[n] = k
        /\ \A m \in Sent : kind'[m] = kind[m]
    BY <1>0, <1>1 DEF Drain, Sent
  <2>2. handled' = handled /\ plugin' = plugin /\ orphaned' = orphaned /\ dropped \subseteq dropped'
    BY <1>1 DEF Drain, AddsNew
  <2>3. Elements(local.events) \subseteq Elements(local'.events)
    <3>1. \/ local'.events = local.events
          \/ local'.events = Append(local.events, n)
      BY <1>0, <1>1 DEF Drain, AddsNew, visual_event_queue_add, visual_event_queue_add_resize, QueueOK
    <3> QED BY <1>0, <3>1, ElementsAppend
  <2>4. k # "resize" => n \in Elements(local'.events) \cup dropped'
    <3>1. CASE Refuses(local)
      BY <1>1, <3>1 DEF Drain, AddsNew
    <3>2. CASE k # "resize" /\ ~Refuses(local)
      <4>1. local'.events = Append(local.events, n)
        BY <1>0, <1>1, <3>2 DEF Drain, AddsNew, visual_event_queue_add, QueueOK
      <4> QED BY <1>0, <4>1, ElementsAppend
    <3> QED BY <3>1, <3>2
  <2> HIDE DEF n
  <2> QED BY <1>1, <2>1, <2>2, <2>3, <2>4 DEF Accounted
<1>2. CASE ~bad /\ DrainEnd
  BY <1>2, <1>a DEF DrainEnd
<1>3. CASE ~bad /\ PollResize
  <2> DEFINE n == Polled(local)
             q == visual_event_queue_add_resize(plugin, n)
  <2>1. local'.events = local.events
    BY <1>0, <1>3 DEF PollResize, visual_event_queue_poll_by_reference, QueueOK
  <2>2. QueueOK(q, Sent) /\ q.events = plugin.events
    <3>1. n \in Sent /\ n # NoEvent
      BY <1>0, <1>3, PollQueue DEF PollResize, HasMore, Polled, QueueOK
    <3> QED BY <1>0, <3>1, AddResizeQueue DEF visual_event_queue_add_resize, QueueOK
  <2>3. Elements(handled) \cup Elements(plugin.events)
          \subseteq Elements(handled') \cup Elements(plugin'.events)
    <3>1. CASE handled' = handled \o PolledAll(q)
      <4> HIDE DEF q
      <4> QED BY <1>0, <2>2, <3>1, ElementsPolled
    <3>2. CASE handled' = handled /\ plugin' \in {plugin, q}
      BY <2>2, <3>2
    <3> QED BY <1>3, <3>1, <3>2 DEF PollResize, Pumps
  <2>4. kind' = kind /\ dropped' = dropped /\ orphaned' = orphaned
    BY <1>3 DEF PollResize
  <2> HIDE DEF n, q
  <2> QED BY <1>3, <1>a, <2>1, <2>3, <2>4
<1>4. CASE ~bad /\ PollEvent
  <2>1. CASE Refuses(plugin)
    BY <1>4, <1>a, <2>1 DEF PollEvent
  <2>2. CASE ~Refuses(plugin)
    <3>1. local.events # <<>> /\ Polled(local) = Head(local.events)
          /\ local'.events = Tail(local.events)
      BY <1>0, <1>4 DEF PollEvent, HasMore, Polled, visual_event_queue_poll_by_reference, QueueOK
    <3>2. plugin'.events = Append(plugin.events, Head(local.events))
      BY <1>0, <1>4, <2>2, <3>1 DEF PollEvent, visual_event_queue_add, QueueOK
    <3>3. kind' = kind /\ handled' = handled /\ dropped' = dropped /\ orphaned' = orphaned
      BY <1>4 DEF PollEvent
    <3>4. Elements(local.events) = {Head(local.events)} \cup Elements(local'.events)
      BY <1>0, <3>1, ElementsTail
    <3>5. Elements(plugin'.events) = Elements(plugin.events) \cup {Head(local.events)}
      BY <1>0, <3>2, ElementsAppend
    <3> QED BY <1>4, <1>a, <3>3, <3>4, <3>5
  <2> QED BY <2>1, <2>2
<1>5. CASE ~bad /\ PollEnd
  BY <1>5, <1>a DEF PollEnd
<1>6. CASE ~bad /\ (RunHidden \/ RunRefused)
  BY <1>6, <1>a DEF RunHidden, RunRefused
<1>7. CASE ~bad /\ RunFrame
  <2>1. \/ handled' = handled \o PolledAll(plugin)
        \/ handled' = handled /\ plugin' = plugin
    BY <1>7 DEF RunFrame, Pumps
  <2>2. kind' = kind /\ local' = local /\ dropped' = dropped /\ orphaned' = orphaned
    BY <1>7 DEF RunFrame
  <2> QED BY <1>0, <1>7, <1>a, <2>1, <2>2, ElementsPolled
<1>8. CASE ~bad /\ RunLastFrame
  <2>1. /\ handled' = handled \o PolledAll(plugin)
        /\ kind' = kind /\ local' = local /\ dropped' = dropped /\ orphaned' = orphaned
    BY <1>8 DEF RunLastFrame
  <2> QED BY <1>0, <1>8, <1>a, <2>1, ElementsPolled
<1>9. CASE ~bad /\ RunHandover
  <2>1. /\ orphaned' = orphaned \cup Elements(plugin.events)
        /\ handled' = handled /\ kind' = kind /\ local' = local /\ dropped' = dropped
    BY <1>9 DEF RunHandover, Elements
  <2> QED BY <1>9, <1>a, <2>1
<1>10. CASE UNCHANGED vars
  BY <1>10 DEF vars, Accounted, Sent
<1> QED BY <1>1, <1>2, <1>3, <1>4, <1>5, <1>6, <1>7, <1>8, <1>9, <1>10 DEF Next, Loop

\* LostAtTheDoor (lv_event.c:189, lv-tool.c:445), for every bound of the queues
\* and any switches: until a freed event is read, what was sent is handed over,
\* still queued, refused by the local queue or left with a replaced plugin.
THEOREM LostOnlyAtTheDoor == Spec => []LostAtTheDoor
<1> DEFINE Inv == TypeInv /\ Accounted
<1>1. Init => Inv
  <2>1. Init => Sent = {}
    BY DEF Init, Sent
  <2> QED BY <2>1, TypeInit DEF Accounted
<1>2. Inv /\ [Next]_vars => Inv'
  BY TypeNext, AccountedNext
<1>3. Inv => LostAtTheDoor
  BY DEF Accounted, LostAtTheDoor, Handled, Listed, Elements
<1> QED BY <1>1, <1>2, <1>3, PTL DEF Spec
-----------------------------------------------------------------------------
(* The order of events.                                                      *)

\* The members of K come in rising order.
Rising(es, K) ==
    \A i, j \in DOMAIN es : i < j /\ es[i] \in K /\ es[j] \in K => es[i] < es[j]

Below(S, T, K) == \A m \in S \cap K, n \in T \cap K : m < n

LEMMA RisingConcat ==
    ASSUME NEW K, NEW es \in Seq(Nat), NEW fs \in Seq(Nat)
    PROVE  Rising(es \o fs, K) <=>
               Rising(es, K) /\ Rising(fs, K) /\ Below(Elements(es), Elements(fs), K)
<1> DEFINE all == es \o fs
<1>1. /\ DOMAIN es = 1..Len(es) /\ Len(es) \in Nat
      /\ DOMAIN fs = 1..Len(fs) /\ Len(fs) \in Nat
      /\ DOMAIN all = 1..Len(es) + Len(fs)
      /\ \A i \in 1..Len(es) : all[i] = es[i]
      /\ \A i \in 1..Len(fs) : all[Len(es) + i] = fs[i]
      /\ \A i \in DOMAIN all : i \in 1..Len(es) \/ i - Len(es) \in 1..Len(fs)
  OBVIOUS
<1> HIDE DEF all
<1>2. ASSUME Rising(all, K)
      PROVE  Rising(es, K) /\ Rising(fs, K) /\ Below(Elements(es), Elements(fs), K)
  <2>1. Rising(es, K)
    <3> SUFFICES ASSUME NEW i \in 1..Len(es), NEW j \in 1..Len(es),
                        i < j, es[i] \in K, es[j] \in K
                 PROVE  es[i] < es[j]
      BY <1>1 DEF Rising
    <3>1. i \in DOMAIN all /\ j \in DOMAIN all /\ all[i] = es[i] /\ all[j] = es[j]
      BY <1>1
    <3> QED BY <1>2, <3>1 DEF Rising
  <2>2. Rising(fs, K)
    <3> SUFFICES ASSUME NEW i \in 1..Len(fs), NEW j \in 1..Len(fs),
                        i < j, fs[i] \in K, fs[j] \in K
                 PROVE  fs[i] < fs[j]
      BY <1>1 DEF Rising
    <3>1. /\ Len(es) + i \in DOMAIN all /\ Len(es) + j \in DOMAIN all
          /\ all[Len(es) + i] = fs[i] /\ all[Len(es) + j] = fs[j]
          /\ Len(es) + i < Len(es) + j
      BY <1>1
    <3> QED BY <1>2, <3>1 DEF Rising
  <2>3. Below(Elements(es), Elements(fs), K)
    <3> SUFFICES ASSUME NEW m \in Elements(es), NEW n \in Elements(fs), m \in K, n \in K
                 PROVE  m < n
      BY DEF Below
    <3>1. PICK i \in 1..Len(es) : m = es[i]
      BY <1>1 DEF Elements
    <3>2. PICK j \in 1..Len(fs) : n = fs[j]
      BY <1>1 DEF Elements
    <3>3. /\ i \in DOMAIN all /\ Len(es) + j \in DOMAIN all /\ i < Len(es) + j
          /\ all[i] = m /\ all[Len(es) + j] = n
      BY <1>1, <3>1, <3>2
    <3> QED BY <1>2, <3>3 DEF Rising
  <2> QED BY <2>1, <2>2, <2>3
<1>3. ASSUME Rising(es, K), Rising(fs, K), Below(Elements(es), Elements(fs), K)
      PROVE  Rising(all, K)
  <2> SUFFICES ASSUME NEW i \in DOMAIN all, NEW j \in DOMAIN all,
                      i < j, all[i] \in K, all[j] \in K
               PROVE  all[i] < all[j]
    BY DEF Rising
  <2>1. i \in Nat /\ j \in Nat
    BY <1>1
  <2>2. CASE j \in 1..Len(es)
    <3>1. i \in 1..Len(es) /\ all[i] = es[i] /\ all[j] = es[j]
      BY <1>1, <2>1, <2>2
    <3> QED BY <1>1, <1>3, <2>2, <3>1 DEF Rising
  <2>3. CASE i \in 1..Len(es) /\ j - Len(es) \in 1..Len(fs)
    <3>1. all[i] = es[i] /\ all[j] = fs[j - Len(es)]
      BY <1>1, <2>1, <2>3
    <3>2. all[i] \in Elements(es) /\ all[j] \in Elements(fs)
      BY <1>1, <2>3, <3>1 DEF Elements
    <3> QED BY <1>3, <3>2 DEF Below
  <2>4. CASE i - Len(es) \in 1..Len(fs) /\ j - Len(es) \in 1..Len(fs)
    <3>1. all[i] = fs[i - Len(es)] /\ all[j] = fs[j - Len(es)] /\ i - Len(es) < j - Len(es)
      BY <1>1, <2>1, <2>4
    <3> QED BY <1>1, <1>3, <2>4, <3>1 DEF Rising
  <2> QED BY <1>1, <2>1, <2>2, <2>3, <2>4
<1> QED BY <1>2, <1>3 DEF all

\* A list that rises has as many events as places.
LEMMA RisingCounts ==
    ASSUME NEW es \in Seq(Nat), Rising(es, Elements(es))
    PROVE  Cardinality(Elements(es)) = Len(es)
<1>1. DOMAIN es = 1..Len(es) /\ Len(es) \in Nat /\ \A i \in 1..Len(es) : es[i] \in Nat
  OBVIOUS
<1>2. es \in [1..Len(es) -> Elements(es)]
  BY <1>1 DEF Elements
<1>3. ASSUME NEW i \in 1..Len(es), NEW j \in 1..Len(es), es[i] = es[j] PROVE i = j
  <2>1. es[i] \in Elements(es) /\ es[j] \in Elements(es)
    BY <1>1 DEF Elements
  <2>2. ~(i < j) /\ ~(j < i)
    BY <1>1, <1>3, <2>1 DEF Rising
  <2> QED BY <1>1, <2>2
<1>4. \A n \in Elements(es) : \E i \in 1..Len(es) : es[i] = n
  BY <1>1 DEF Elements
<1>5. es \in Bijection(1..Len(es), Elements(es))
  BY <1>1, <1>2, <1>3, <1>4 DEF Bijection, Injection, Surjection, IsInjective
<1>6. ExistsBijection(1..Len(es), Elements(es))
  BY <1>5 DEF ExistsBijection
<1> QED BY <1>1, <1>6, FS_CountingElements

\* h was handed over, p and l wait in the queues, o was left behind; K are the
\* events that are not resizes.
Line(h, p, l, o, K) ==
    /\ Rising(h, K) /\ Rising(p, K) /\ Rising(l, K)
    /\ Elements(p) \cup Elements(l) \cup o \subseteq K
    /\ Below(Elements(h) \cup o, Elements(p) \cup Elements(l), K)
    /\ Below(Elements(p), Elements(l), K)

LEMMA OneRises == ASSUME NEW n, NEW K PROVE Rising(<<n>>, K) /\ Elements(<<n>>) = {n}
BY DEF Rising, Elements

LEMMA NoneRises == ASSUME NEW K PROVE Rising(<<>>, K) /\ Elements(<<>>) = {}
BY DEF Rising, Elements

\* A list of earlier events rises among later ones as it did before.
LEMMA RisingWider ==
    ASSUME NEW K, NEW T, NEW es \in Seq(T), NEW n, n \notin T, Rising(es, K)
    PROVE  Rising(es, K \cup {n})
BY DEF Rising

LEMMA AddInLine ==
    ASSUME NEW len \in Nat, NEW K, K \subseteq 1..len,
           NEW h \in Seq(1..len), NEW p \in Seq(1..len), NEW l \in Seq(1..len), NEW o,
           Line(h, p, l, o, K)
    PROVE  /\ Line(h, p, l, o, K \cup {len + 1})
           /\ Line(h, p, Append(l, len + 1), o, K \cup {len + 1})
<1> DEFINE n == len + 1
           M == K \cup {n}
<1>1. n \notin 1..len /\ n \in Nat
  OBVIOUS
<1>2. Elements(h) \subseteq 1..len /\ Elements(p) \subseteq 1..len /\ Elements(l) \subseteq 1..len
  BY DEF Elements
<1>3. o \subseteq 1..len
  BY DEF Line
<1>4. Rising(h, M) /\ Rising(p, M) /\ Rising(l, M)
  BY <1>1, RisingWider DEF Line
<1>5. ASSUME NEW S, NEW T, S \subseteq 1..len, T \subseteq 1..len, Below(S, T, K)
      PROVE  Below(S, T, M) /\ Below(S, T \cup {n}, M)
  BY <1>1, <1>5 DEF Below
<1>6. Append(l, n) = l \o <<n>> /\ l \in Seq(Nat) /\ <<n>> \in Seq(Nat)
  <2>1. l \in Seq(Nat)
    OBVIOUS
  <2>2. <<n>> \in Seq(Nat)
    BY <1>1
  <2> QED BY <1>1, <2>1, <2>2, AppendIsConcat, Zenon
<1>7. Elements(Append(l, n)) = Elements(l) \cup {n}
  BY ElementsAppend
<1>8. Below(Elements(l), {n}, M)
  BY <1>1, <1>2 DEF Below
<1>9. Rising(Append(l, n), M)
  <2>1. Rising(<<n>>, M) /\ Elements(<<n>>) = {n}
    BY OneRises
  <2> HIDE DEF n, M
  <2> QED BY <1>4, <1>6, <1>8, <2>1, RisingConcat
<1> HIDE DEF n
<1>10. /\ Below(Elements(h) \cup o, Elements(p) \cup Elements(l), M)
       /\ Below(Elements(h) \cup o, (Elements(p) \cup Elements(l)) \cup {n}, M)
       /\ Below(Elements(p), Elements(l), M)
       /\ Below(Elements(p), Elements(l) \cup {n}, M)
  BY <1>2, <1>3, <1>5 DEF Line
<1>11. Elements(p) \cup (Elements(l) \cup {n}) = (Elements(p) \cup Elements(l)) \cup {n}
  OBVIOUS
<1> QED BY <1>4, <1>7, <1>9, <1>10, <1>11 DEF Line, n

\* The head of the local list moves to the end of the plugin's, or is lost.
LEMMA MoveInLine ==
    ASSUME NEW K, NEW h \in Seq(Nat), NEW p \in Seq(Nat), NEW l \in Seq(Nat), NEW o,
           l # <<>>, Line(h, p, l, o, K)
    PROVE  /\ Line(h, Append(p, Head(l)), Tail(l), o, K)
           /\ Line(h, p, Tail(l), o, K)
           /\ Head(l) \notin Elements(p) \cup Elements(Tail(l)) \cup o
           /\ Head(l) \in K
<1> DEFINE n == Head(l)
           r == Tail(l)
<1>1. n \in Nat /\ <<n>> \in Seq(Nat) /\ r \in Seq(Nat) /\ l = <<n>> \o r
  OBVIOUS
<1>2. Rising(<<n>>, K) /\ Elements(<<n>>) = {n}
  BY OneRises
<1>3. Elements(l) = {n} \cup Elements(r) /\ Elements(Append(p, n)) = Elements(p) \cup {n}
  BY ElementsTail, ElementsAppend
<1> HIDE DEF n, r
<1>4. Rising(r, K) /\ Below({n}, Elements(r), K)
  BY <1>1, <1>2, RisingConcat DEF Line
<1>5. Below(Elements(p), {n}, K) /\ Below(Elements(p), Elements(r), K) /\ n \in K
  BY <1>3 DEF Line, Below
<1>6. Rising(Append(p, n), K)
  <2>1. Append(p, n) = p \o <<n>>
    BY <1>1, AppendIsConcat, Zenon
  <2>2. Rising(p \o <<n>>, K)
    BY <1>1, <1>2, <1>5, RisingConcat DEF Line
  <2> QED BY <2>1, <2>2
<1>7. Below(Elements(p) \cup {n}, Elements(r), K)
  BY <1>4, <1>5 DEF Below
<1>8. /\ Below(Elements(h) \cup o, Elements(p) \cup {n} \cup Elements(r), K)
      /\ Below(Elements(h) \cup o, Elements(p) \cup Elements(r), K)
  BY <1>3 DEF Line, Below
<1>9. n \notin Elements(p) /\ n \notin Elements(r) /\ n \notin o
  BY <1>1, <1>3, <1>4, <1>5, <1>8 DEF Line, Below
<1> QED BY <1>3, <1>4, <1>5, <1>6, <1>7, <1>8, <1>9 DEF Line, n, r

\* All of the plugin's list is handed over, after a resize perhaps.
LEMMA PumpInLine ==
    ASSUME NEW K, NEW h \in Seq(Nat), NEW p \in Seq(Nat), NEW l \in Seq(Nat), NEW o,
           NEW first \in Seq(Nat), Elements(first) \cap K = {}, Line(h, p, l, o, K)
    PROVE  Line(h \o (first \o p), <<>>, l, o, K)
<1>1. first \o p \in Seq(Nat)
  OBVIOUS
<1>2. Rising(<<>>, K) /\ Elements(<<>>) = {}
  BY NoneRises
<1>3. DOMAIN first = 1..Len(first) /\ \A i \in 1..Len(first) : first[i] \notin K
  BY DEF Elements
<1>4. Rising(first, K)
  BY <1>3 DEF Rising
<1>5. Below(Elements(first), Elements(p), K)
  BY DEF Below
<1>6. Rising(first \o p, K)
  BY <1>4, <1>5, RisingConcat DEF Line
<1>7. Elements(first \o p) = Elements(first) \cup Elements(p)
  BY ElementsConcat
<1>8. Below(Elements(h), Elements(first \o p), K)
  BY <1>7 DEF Below, Line
<1>9. Rising(h \o (first \o p), K)
  BY <1>1, <1>6, <1>8, RisingConcat DEF Line
<1>10. Elements(h \o (first \o p)) = Elements(h) \cup Elements(first) \cup Elements(p)
  <2> DEFINE fs == first \o p
  <2>1. fs \in Seq(Nat)
    BY <1>1
  <2> HIDE DEF fs
  <2>2. Elements(h \o fs) = Elements(h) \cup Elements(fs)
    BY <2>1, ElementsConcat
  <2> QED BY <1>7, <2>2 DEF fs
<1>11. Below(Elements(h \o (first \o p)) \cup o, Elements(<<>>) \cup Elements(l), K)
  BY <1>2, <1>10 DEF Below, Line
<1> QED BY <1>2, <1>9, <1>11 DEF Line, Below

LEMMA OrphansInLine ==
    ASSUME NEW K, NEW h, NEW p, NEW l, NEW o, Line(h, p, l, o, K)
    PROVE  Line(h, <<>>, l, o \cup Elements(p), K)
<1>1. Rising(<<>>, K) /\ Elements(<<>>) = {}
  BY NoneRises
<1> QED BY <1>1 DEF Line, Below

LEMMA LineRises ==
    ASSUME NEW K, NEW h \in Seq(Nat), NEW p \in Seq(Nat), NEW l \in Seq(Nat), NEW o,
           Line(h, p, l, o, K)
    PROVE  Rising(h \o p \o l, K) /\ Rising(p \o l, K)
<1>1. Below(Elements(h), Elements(p), K) /\ Below(Elements(p), Elements(l), K)
  BY DEF Line, Below
<1>2. Rising(h \o p, K) /\ Rising(p \o l, K)
  BY <1>1, RisingConcat DEF Line
<1>3. h \o p \in Seq(Nat)
  OBVIOUS
<1>4. Elements(h \o p) = Elements(h) \cup Elements(p)
  BY ElementsConcat
<1>5. Below(Elements(h \o p), Elements(l), K)
  BY <1>1, <1>4 DEF Line, Below
<1>6. Rising((h \o p) \o l, K)
  BY <1>2, <1>3, <1>5, RisingConcat DEF Line
<1> QED BY <1>2, <1>6
-----------------------------------------------------------------------------
(* Memory and order of events.                                               *)

NotResizes == {n \in Sent : kind[n] # "resize"}

\* Only a resize is kept beside a list.
Beside(q) == q.resizenew => q.lastresize \notin NotResizes

Ordered == Line(handled, plugin.events, local.events, orphaned, NotResizes)

Queued == Elements(plugin.events) \cup Elements(local.events)

Held == \A n \in NotResizes : refs[n] = IF n \in Queued \cup orphaned THEN 1 ELSE 0

Bounded == local.eventcount <= MAXEVENTS + 1 /\ plugin.eventcount <= MAXEVENTS + 1

\* The inductive invariant.
EventsInvariant ==
    /\ TypeInv
    /\ Beside(local) /\ Beside(plugin)
    /\ Ordered /\ Held /\ Bounded

LEMMA EventTyped ==
    ASSUME TypeInv
    PROVE  /\ kind \in Seq(Kinds) /\ Len(kind) \in Nat /\ MAXEVENTS \in Nat
           /\ Sent = 1..Len(kind) /\ Sent \subseteq Nat
           /\ QueueOK(local, Sent) /\ QueueOK(plugin, Sent)
           /\ handled \in Seq(Sent) /\ local.events \in Seq(Sent) /\ plugin.events \in Seq(Sent)
           /\ handled \in Seq(Nat) /\ local.events \in Seq(Nat) /\ plugin.events \in Seq(Nat)
           /\ refs \in Seq(Nat) /\ Len(refs) = Len(kind)
           /\ local.eventcount \in Nat /\ plugin.eventcount \in Nat
<1>1. /\ kind \in Seq(Kinds) /\ Len(kind) \in Nat /\ MAXEVENTS \in Nat
      /\ Sent = 1..Len(kind) /\ Sent \subseteq Nat
      /\ QueueOK(local, Sent) /\ QueueOK(plugin, Sent)
      /\ handled \in Seq(Sent) /\ refs \in Seq(Nat) /\ Len(refs) = Len(kind)
  BY LimitAssumption DEF TypeInv, TypeOK, Sent
<1>2. local.events \in Seq(Sent) /\ plugin.events \in Seq(Sent)
      /\ local.eventcount \in Nat /\ plugin.eventcount \in Nat
  BY <1>1 DEF QueueOK
<1>3. handled \in Seq(Nat) /\ local.events \in Seq(Nat) /\ plugin.events \in Seq(Nat)
  BY <1>1, <1>2, SeqMonotonic
<1> QED BY <1>1, <1>2, <1>3

\* An event takes one place: what is at the plugin is neither in the local
\* queue nor left behind.
LEMMA OnePlace ==
    ASSUME TypeInv, Ordered, NEW n \in Elements(plugin.events)
    PROVE  n \notin Elements(local.events) /\ n \notin orphaned
<1>1. n \in NotResizes /\ ~(n < n)
  <2>1. n \in NotResizes
    BY DEF Ordered, Line
  <2> QED BY <2>1, EventTyped DEF NotResizes
<1> QED BY <1>1 DEF Ordered, Line, Below

\* A pump of the plugin's list hands over and frees all of it.
LEMMA PumpKeeps ==
    ASSUME TypeInv, Ordered, Held, NEW q, QueueOK(q, Sent), q.events = plugin.events, Beside(q),
           NEW counts \in Seq(Nat), Len(counts) = Len(kind),
           \A n \in NotResizes : counts[n] = refs[n],
           handled' = handled \o PolledAll(q), refs' = Released(counts, q.events),
           plugin'.events = <<>>, local'.events = local.events,
           orphaned' = orphaned, kind' = kind
    PROVE  Ordered' /\ Held'
<1> DEFINE first == IF q.resizenew THEN <<q.lastresize>> ELSE <<>>
<1>1. NotResizes' = NotResizes
  BY DEF NotResizes, Sent
<1>2. first \in Seq(Nat) /\ Elements(first) \cap NotResizes = {}
  <2>1. CASE q.resizenew
    <3>1. q.lastresize \in Nat /\ q.lastresize \notin NotResizes
      BY <2>1, EventTyped DEF QueueOK, Beside, NoEvent
    <3>2. first = <<q.lastresize>>
      BY <2>1
    <3> QED BY <3>1, <3>2 DEF Elements
  <2>2. CASE ~q.resizenew
    BY <2>2 DEF Elements
  <2> QED BY <2>1, <2>2
<1>3. handled' = handled \o (first \o plugin.events)
  BY DEF PolledAll
<1> HIDE DEF first
<1>4. Ordered'
  <2>1. Line(handled \o (first \o plugin.events), <<>>, local.events, orphaned, NotResizes)
    BY <1>2, EventTyped, PumpInLine DEF Ordered
  <2> QED BY <1>1, <1>3, <2>1 DEF Ordered
<1>5. Held'
  <2> SUFFICES ASSUME NEW n \in NotResizes
               PROVE  refs'[n] = IF n \in Elements(local.events) \cup orphaned THEN 1 ELSE 0
    <3>1. Queued' = Elements(local.events)
      BY NoneRises DEF Queued
    <3> QED BY <1>1, <3>1 DEF Held
  <2>1. refs'[n] = IF n \in Elements(plugin.events) THEN 0 ELSE refs[n]
    <3>1. n \in DOMAIN counts
      BY EventTyped DEF NotResizes
    <3> QED BY <3>1 DEF Released, Elements
  <2>2. CASE n \in Elements(plugin.events)
    BY <2>1, <2>2, OnePlace
  <2>3. CASE n \notin Elements(plugin.events)
    BY <2>1, <2>3 DEF Held, Queued
  <2> QED BY <2>2, <2>3
<1> QED BY <1>4, <1>5

LEMMA DrainKeeps ==
    ASSUME EventsInvariant, NEW k \in Kinds, Drain(k)
    PROVE  Beside(local)' /\ Beside(plugin)' /\ Ordered' /\ Held' /\ Bounded'
<1> DEFINE n == Len(kind) + 1
<1>0. TypeInv
  BY DEF EventsInvariant
<1>1. /\ Sent' = Sent \cup {n} /\ n \notin Sent /\ n \in Nat /\ kind'[n] = k
      /\ \A m \in Sent : kind'[m] = kind[m]
      /\ handled' = handled /\ plugin' = plugin /\ orphaned' = orphaned
  <2>1. kind' = Append(kind, k) /\ handled' = handled /\ plugin' = plugin /\ orphaned' = orphaned
    BY DEF Drain
  <2>2. /\ Len(kind') = n /\ kind'[n] = k /\ n \in Nat
        /\ \A m \in 1..Len(kind) : kind'[m] = kind[m]
    BY <1>0, <2>1, EventTyped
  <2>3. Len(kind) \in Nat /\ Sent = 1..Len(kind)
    BY <1>0, EventTyped
  <2>4. Sent' = 1..n
    BY <2>2 DEF Sent
  <2> QED BY <2>1, <2>2, <2>3, <2>4
<1>2. NotResizes' = IF k = "resize" THEN NotResizes ELSE NotResizes \cup {n}
  BY <1>1 DEF NotResizes
<1>3. \A m \in Sent : refs'[m] = refs[m]
  <2>1. PICK r : refs' = Append(refs, r)
    BY DEF Drain, AddsNew
  <2> QED BY <1>0, <2>1, EventTyped
<1>4. Elements(plugin.events) \subseteq Sent /\ Elements(local.events) \subseteq Sent
      /\ orphaned \subseteq Sent /\ NotResizes \subseteq Sent
  BY <1>0, EventTyped DEF Elements, EventsInvariant, Ordered, Line, NotResizes
<1>5. Beside(plugin)'
  BY <1>0, <1>1, <1>2, EventTyped DEF EventsInvariant, Beside, QueueOK
<1>6. CASE k = "resize"
  <2>1. /\ local'.events = local.events /\ local'.eventcount = local.eventcount
        /\ local'.lastresize = n
    BY <1>0, <1>6, EventTyped DEF Drain, visual_event_queue_add_resize, QueueOK
  <2>2. Beside(local)'
    BY <1>1, <1>2, <1>4, <1>6, <2>1 DEF Beside
  <2>3. Ordered'
    BY <1>1, <1>2, <1>6, <2>1 DEF EventsInvariant, Ordered
  <2>4. Held'
    BY <1>1, <1>2, <1>3, <1>4, <1>6, <2>1 DEF EventsInvariant, Held, Queued
  <2>5. Bounded'
    BY <1>1, <2>1 DEF EventsInvariant, Bounded
  <2> QED BY <1>5, <2>2, <2>3, <2>4, <2>5
<1>7. CASE k # "resize"
  <2>1. /\ local' = visual_event_queue_add(local, n)
        /\ refs' = Append(refs, IF Refuses(local) THEN 0 ELSE 1)
    BY <1>7 DEF Drain, AddsNew
  <2>2. refs'[n] = IF Refuses(local) THEN 0 ELSE 1
    <3>1. n = Len(refs) + 1 /\ refs \in Seq(Nat)
      BY <1>0, EventTyped
    <3> HIDE DEF n
    <3> QED BY <2>1, <3>1
  <2>3. /\ Line(handled, plugin.events, local.events, orphaned, NotResizes \cup {n})
        /\ Line(handled, plugin.events, Append(local.events, n), orphaned, NotResizes \cup {n})
    <3> DEFINE len == Len(kind)
    <3>1. /\ len \in Nat /\ NotResizes \subseteq 1..len /\ handled \in Seq(1..len)
          /\ plugin.events \in Seq(1..len) /\ local.events \in Seq(1..len)
      BY <1>0, <1>4, EventTyped
    <3>2. Line(handled, plugin.events, local.events, orphaned, NotResizes)
      BY DEF EventsInvariant, Ordered
    <3> HIDE DEF len
    <3>3. /\ Line(handled, plugin.events, local.events, orphaned, NotResizes \cup {len + 1})
          /\ Line(handled, plugin.events, Append(local.events, len + 1), orphaned,
                  NotResizes \cup {len + 1})
      BY <3>1, <3>2, AddInLine
    <3> QED BY <3>3 DEF len
  <2>4. CASE Refuses(local)
    <3>1. local' = local
      BY <2>1, <2>4 DEF visual_event_queue_add
    <3>2. Ordered'
      BY <1>1, <1>2, <1>7, <2>3, <3>1 DEF Ordered
    <3>3. Held'
      BY <1>1, <1>2, <1>3, <1>4, <1>7, <2>2, <2>4, <3>1 DEF EventsInvariant, Held, Queued
    <3>4. Beside(local)' /\ Bounded'
      BY <1>0, <1>1, <1>2, <3>1, EventTyped DEF EventsInvariant, Beside, Bounded, QueueOK
    <3> QED BY <1>5, <3>2, <3>3, <3>4
  <2>5. CASE ~Refuses(local)
    <3>1. /\ local'.events = Append(local.events, n) /\ local'.eventcount = local.eventcount + 1
          /\ local'.lastresize = local.lastresize /\ local'.resizenew = local.resizenew
      BY <1>0, <2>1, <2>5, EventTyped DEF visual_event_queue_add, QueueOK
    <3>2. Ordered'
      BY <1>1, <1>2, <1>7, <2>3, <3>1 DEF Ordered
    <3>3. Elements(local'.events) = Elements(local.events) \cup {n}
      BY <1>0, <3>1, EventTyped, ElementsAppend
    <3>4. Held'
      BY <1>1, <1>2, <1>3, <1>4, <1>7, <2>2, <2>5, <3>3 DEF EventsInvariant, Held, Queued
    <3>5. Beside(local)'
      BY <1>0, <1>1, <1>2, <3>1, EventTyped DEF EventsInvariant, Beside, QueueOK
    <3>6. Bounded'
      BY <1>0, <1>1, <2>5, <3>1, EventTyped DEF EventsInvariant, Bounded, Refuses
    <3> QED BY <1>5, <3>2, <3>4, <3>5, <3>6
  <2> QED BY <2>4, <2>5
<1> QED BY <1>6, <1>7

LEMMA PollEventKeeps ==
    ASSUME EventsInvariant, PollEvent
    PROVE  Beside(local)' /\ Beside(plugin)' /\ Ordered' /\ Held' /\ Bounded'
<1> DEFINE n == Head(local.events)
<1>0. TypeInv
  BY DEF EventsInvariant
<1>1. local.events # <<>> /\ Polled(local) = n
  BY <1>0, EventTyped DEF PollEvent, HasMore, Polled, QueueOK
<1>2. /\ local'.events = Tail(local.events) /\ local'.eventcount = local.eventcount - 1
      /\ ~local'.resizenew
  BY <1>0, EventTyped DEF PollEvent, visual_event_queue_poll_by_reference, QueueOK
<1>3. /\ Line(handled, Append(plugin.events, n), Tail(local.events), orphaned, NotResizes)
      /\ Line(handled, plugin.events, Tail(local.events), orphaned, NotResizes)
      /\ n \notin Elements(plugin.events) \cup Elements(Tail(local.events)) \cup orphaned
      /\ n \in NotResizes
  BY <1>0, <1>1, EventTyped, MoveInLine DEF EventsInvariant, Ordered
<1>4. Elements(local.events) = {n} \cup Elements(Tail(local.events))
  BY <1>0, <1>1, EventTyped, ElementsTail
<1>5. NotResizes' = NotResizes /\ handled' = handled /\ orphaned' = orphaned
  BY DEF PollEvent, NotResizes, Sent
<1>6. plugin' = visual_event_queue_add(plugin, n)
      /\ refs' = IF Refuses(plugin) THEN [refs EXCEPT ![n] = 0] ELSE refs
  BY <1>1 DEF PollEvent
<1>7. n \in DOMAIN refs
  BY <1>0, <1>3, EventTyped DEF NotResizes
<1> HIDE DEF n
<1>8. Beside(local)'
  BY <1>2 DEF Beside
<1>9. CASE Refuses(plugin)
  <2>1. plugin' = plugin
    BY <1>6, <1>9 DEF visual_event_queue_add
  <2>2. Ordered'
    BY <1>2, <1>3, <1>5, <2>1 DEF Ordered
  <2>3. Held'
    BY <1>2, <1>3, <1>4, <1>5, <1>6, <1>7, <1>9, <2>1 DEF EventsInvariant, Held, Queued
  <2>4. Beside(plugin)' /\ Bounded'
    BY <1>0, <1>2, <1>5, <2>1, EventTyped DEF EventsInvariant, Beside, Bounded
  <2> QED BY <1>8, <2>2, <2>3, <2>4
<1>10. CASE ~Refuses(plugin)
  <2>1. /\ plugin'.events = Append(plugin.events, n) /\ plugin'.eventcount = plugin.eventcount + 1
        /\ plugin'.lastresize = plugin.lastresize /\ plugin'.resizenew = plugin.resizenew
    BY <1>0, <1>6, <1>10, EventTyped DEF visual_event_queue_add, QueueOK
  <2>2. Ordered'
    BY <1>2, <1>3, <1>5, <2>1 DEF Ordered
  <2>3. Elements(plugin'.events) = Elements(plugin.events) \cup {n}
    BY <1>0, <2>1, EventTyped, ElementsAppend
  <2>4. Held'
    BY <1>2, <1>4, <1>5, <1>6, <1>10, <2>3 DEF EventsInvariant, Held, Queued
  <2>5. Beside(plugin)'
    BY <1>5, <2>1 DEF EventsInvariant, Beside
  <2>6. Bounded'
    <3>1. plugin.eventcount <= MAXEVENTS /\ plugin.eventcount \in Nat /\ MAXEVENTS \in Nat
      BY <1>0, <1>10, EventTyped DEF Refuses
    <3>2. local.eventcount <= MAXEVENTS + 1 /\ local.eventcount \in Nat
      BY <1>0, EventTyped DEF EventsInvariant, Bounded
    <3> QED BY <1>2, <2>1, <3>1, <3>2 DEF Bounded
  <2> QED BY <1>8, <2>2, <2>4, <2>5, <2>6
<1> QED BY <1>9, <1>10

LEMMA EventsNext ==
    ASSUME EventsInvariant, [Next]_vars
    PROVE  EventsInvariant'
<1>0. TypeInv /\ Beside(local) /\ Beside(plugin) /\ Ordered /\ Held /\ Bounded
  BY DEF EventsInvariant
<1>a. TypeInv'
  BY <1>0, TypeNext
<1> SUFFICES Beside(local)' /\ Beside(plugin)' /\ Ordered' /\ Held' /\ Bounded'
  BY <1>a DEF EventsInvariant
<1>b. ASSUME UNCHANGED <<kind, refs, local, plugin, handled, orphaned>>
      PROVE  Beside(local)' /\ Beside(plugin)' /\ Ordered' /\ Held' /\ Bounded'
  BY <1>0, <1>b DEF Beside, Ordered, Held, Queued, Bounded, NotResizes, Sent
<1>1. ASSUME NEW k \in Kinds, Drain(k)
      PROVE  Beside(local)' /\ Beside(plugin)' /\ Ordered' /\ Held' /\ Bounded'
  BY <1>1, DrainKeeps
<1>2. CASE DrainEnd
  BY <1>2, <1>b DEF DrainEnd
<1>3. CASE PollResize
  <2> DEFINE n == Polled(local)
             counts == [refs EXCEPT ![n] = 1]
             q == visual_event_queue_add_resize(plugin, n)
  <2>1. /\ n \in Sent /\ n # NoEvent /\ n \notin NotResizes
        /\ local'.events = local.events /\ local'.eventcount = local.eventcount
        /\ ~local'.resizenew
    BY <1>0, <1>3, EventTyped
       DEF PollResize, Polled, Beside, QueueOK, visual_event_queue_poll_by_reference
  <2>2. /\ QueueOK(q, Sent) /\ q.events = plugin.events /\ q.lastresize = n
        /\ counts \in Seq(Nat) /\ Len(counts) = Len(kind)
        /\ \A m \in NotResizes : counts[m] = refs[m]
    <3>1. QueueOK(q, Sent)
      BY <1>0, <2>1, EventTyped, AddResizeQueue
    <3>2. q.events = plugin.events /\ q.lastresize = n
      BY <1>0, EventTyped DEF visual_event_queue_add_resize, QueueOK
    <3>3. counts \in Seq(Nat) /\ Len(counts) = Len(kind)
      BY <1>0, <2>1, EventTyped
    <3>4. \A m \in NotResizes : counts[m] = refs[m]
      BY <1>0, <2>1, EventTyped DEF NotResizes
    <3> QED BY <3>1, <3>2, <3>3, <3>4
  <2>3. /\ kind' = kind /\ orphaned' = orphaned
        /\ \/ Pumps(q, counts)
           \/ refs' = counts /\ UNCHANGED <<handled, plugin>>
    BY <1>3 DEF PollResize
  <2> HIDE DEF n, counts, q
  <2>4. NotResizes' = NotResizes
    BY <2>3 DEF NotResizes, Sent
  <2>5. Beside(local)'
    BY <2>1 DEF Beside
  <2>8. CASE Pumps(q, counts) /\ ~handles
    <3>1. plugin' = q /\ refs' = counts /\ handled' = handled
      BY <2>8 DEF Pumps
    <3>2. q.eventcount = plugin.eventcount
      BY <1>0, <2>2, EventTyped DEF QueueOK
    <3>3. Ordered'
      BY <1>0, <2>1, <2>2, <2>3, <2>4, <3>1 DEF Ordered
    <3>4. Held'
      BY <1>0, <2>1, <2>2, <2>3, <2>4, <3>1 DEF Held, Queued
    <3>5. Beside(plugin)' /\ Bounded'
      BY <1>0, <2>1, <2>2, <2>4, <3>1, <3>2 DEF Beside, Bounded
    <3> QED BY <2>5, <3>3, <3>4, <3>5
  <2>6. CASE Pumps(q, counts) /\ handles
    <3>1. plugin'.events = <<>> /\ plugin'.eventcount = 0 /\ ~plugin'.resizenew
      BY <2>6 DEF Pumps, Emptied
    <3>2. Ordered' /\ Held'
      BY <1>0, <2>1, <2>2, <2>3, <2>6, <3>1, PumpKeeps DEF Pumps, Beside
    <3> QED BY <1>0, <2>1, <2>5, <3>1, <3>2, EventTyped DEF Beside, Bounded
  <2>7. CASE refs' = counts /\ UNCHANGED <<handled, plugin>>
    BY <1>0, <2>1, <2>2, <2>3, <2>4, <2>5, <2>7 DEF Ordered, Held, Queued, Beside, Bounded
  <2> QED BY <2>3, <2>6, <2>7, <2>8
<1>4. CASE PollEvent
  BY <1>4, PollEventKeeps
<1>5. CASE PollEnd
  BY <1>5, <1>b DEF PollEnd
<1>6. CASE RunHidden \/ RunRefused
  BY <1>6, <1>b DEF RunHidden, RunRefused
<1>10. CASE RunFrame /\ ~handles
  BY <1>10, <1>b DEF RunFrame, Pumps
<1>7. CASE (RunFrame /\ handles) \/ RunLastFrame
  <2>1. /\ handled' = handled \o PolledAll(plugin) /\ refs' = Released(refs, plugin.events)
        /\ plugin'.events = <<>> /\ plugin'.eventcount = 0 /\ ~plugin'.resizenew
        /\ kind' = kind /\ local' = local /\ orphaned' = orphaned
    BY <1>7 DEF RunFrame, RunLastFrame, NewActor, Pumps, Emptied, visual_event_queue_init
  <2>2. Ordered' /\ Held'
    BY <1>0, <2>1, EventTyped, PumpKeeps
  <2> QED BY <1>0, <2>1, <2>2, EventTyped DEF Beside, Bounded, NotResizes, Sent
<1>8. CASE RunHandover
  <2>1. /\ orphaned' = orphaned \cup Elements(plugin.events)
        /\ plugin'.events = <<>> /\ plugin'.eventcount = 0 /\ ~plugin'.resizenew
        /\ UNCHANGED <<kind, refs, local, handled>>
    BY <1>8 DEF RunHandover, NewActor, Elements, visual_event_queue_init
  <2>2. NotResizes' = NotResizes
    BY <2>1 DEF NotResizes, Sent
  <2>3. Ordered'
    BY <1>0, <2>1, <2>2, OrphansInLine DEF Ordered
  <2>4. Held'
    BY <1>0, <2>1, <2>2, NoneRises DEF Held, Queued
  <2> QED BY <1>0, <2>1, <2>2, <2>3, <2>4, EventTyped DEF Beside, Bounded
<1>9. CASE UNCHANGED vars
  BY <1>9, <1>b DEF vars
<1> QED BY <1>1, <1>2, <1>3, <1>4, <1>5, <1>6, <1>7, <1>8, <1>9, <1>10 DEF Next, Loop

LEMMA EventsInit == Init => EventsInvariant
<1> SUFFICES ASSUME Init PROVE EventsInvariant
  OBVIOUS
<1>1. TypeInv
  BY TypeInit
<1>2. /\ handled = <<>> /\ plugin.events = <<>> /\ local.events = <<>> /\ orphaned = {}
      /\ ~local.resizenew /\ ~plugin.resizenew
      /\ local.eventcount = 0 /\ plugin.eventcount = 0 /\ Sent = {}
  BY DEF Init, visual_event_queue_init, Sent
<1>3. NotResizes = {}
  BY <1>2 DEF NotResizes
<1>4. Ordered
  BY <1>2, <1>3, NoneRises DEF Ordered, Line, Below
<1> QED BY <1>1, <1>2, <1>3, <1>4, LimitAssumption DEF EventsInvariant, Beside, Held, Bounded

LEMMA EventsAlways == Spec => []EventsInvariant
BY EventsInit, EventsNext, PTL DEF Spec

\* EventsInMemory (lv_event.c:156-199), for every bound of the queues and any
\* bursts: an event that is not a resize is in memory exactly while a queue, or
\* the queue of a replaced plugin, has it, and no queue has it twice.
THEOREM EventsStayInMemory == Spec => []EventsInMemory
<1>1. EventsInvariant => EventsInMemory
  <2> SUFFICES ASSUME EventsInvariant PROVE EventsInMemory
    OBVIOUS
  <2> DEFINE all == plugin.events \o local.events
  <2>0. TypeInv /\ Ordered /\ Held /\ Bounded
    BY DEF EventsInvariant
  <2>1. Listed = Queued
    BY DEF Listed, Queued, Elements
  <2>2. Elements(all) = Queued
    BY <2>0, EventTyped, ElementsConcat DEF Queued
  <2>3. all \in Seq(Nat) /\ Len(all) = Len(local.events) + Len(plugin.events)
    <3>1. plugin.events \in Seq(Nat) /\ local.events \in Seq(Nat)
      BY <2>0, EventTyped
    <3>2. \A es, fs \in Seq(Nat) : es \o fs \in Seq(Nat) /\ Len(es \o fs) = Len(es) + Len(fs)
      BY ConcatProperties
    <3>3. Len(plugin.events) \in Nat /\ Len(local.events) \in Nat
      BY <3>1
    <3>4. all \in Seq(Nat)
      BY <3>1, <3>2
    <3>5. Len(all) = Len(plugin.events) + Len(local.events)
      BY <3>1, <3>2
    <3>6. \A m, n \in Nat : m + n = n + m
      OBVIOUS
    <3>7. Len(plugin.events) + Len(local.events) = Len(local.events) + Len(plugin.events)
      BY <3>3, <3>6, Zenon
    <3> HIDE DEF all
    <3> QED BY <3>4, <3>5, <3>7, Zenon
  <2>4. Rising(all, NotResizes) /\ Queued \subseteq NotResizes
    BY <2>0, EventTyped, LineRises DEF Ordered, Line, Queued
  <2>5. Rising(all, Elements(all))
    BY <2>2, <2>4 DEF Rising
  <2>6. Cardinality(Elements(all)) = Len(all)
    <3> HIDE DEF all
    <3> QED BY <2>3, <2>5, RisingCounts
  <2>7. /\ local.eventcount = Len(local.events) /\ local.eventcount <= MAXEVENTS + 1
        /\ plugin.eventcount = Len(plugin.events) /\ plugin.eventcount <= MAXEVENTS + 1
    BY <2>0, EventTyped DEF Bounded, QueueOK
  <2>8. \A n \in Sent : kind[n] # "resize" => refs[n] = IF n \in Listed \cup orphaned THEN 1 ELSE 0
    BY <2>0, <2>1 DEF Held, NotResizes
  <2> HIDE DEF all
  <2> QED BY <2>1, <2>2, <2>3, <2>6, <2>7, <2>8 DEF EventsInMemory
<1> QED BY <1>1, EventsAlways, PTL

\* InOrder (lv_event.c:159, lv-tool.c:445), for every bound of the queues and
\* any bursts and switches: plugins get events in the order they were sent.
THEOREM EventsInOrder == Spec => []InOrder
<1>1. EventsInvariant => InOrder
  <2> SUFFICES ASSUME EventsInvariant PROVE InOrder
    OBVIOUS
  <2> DEFINE all == handled \o plugin.events \o local.events
  <2>0. TypeInv /\ Ordered
    BY DEF EventsInvariant
  <2>1. Rising(all, NotResizes)
    BY <2>0, EventTyped, LineRises DEF Ordered
  <2>2. all \in Seq(Sent)
    BY <2>0, EventTyped
  <2>3. \A i \in DOMAIN all : all[i] \in Sent
    <3> HIDE DEF all
    <3> QED BY <2>2
  <2> HIDE DEF all
  <2>4. \A i, j \in DOMAIN all :
            i < j /\ kind[all[i]] # "resize" /\ kind[all[j]] # "resize" => all[i] < all[j]
    BY <2>1, <2>3 DEF Rising, NotResizes
  <2> QED BY <2>4 DEF InOrder, all
<1> QED BY <1>1, EventsAlways, PTL

-----------------------------------------------------------------------------
(* Requests to stop.                                                         *)

\* A request to stop that was not refused is still queued, or has ended the
\* loop; it cannot be queued any more when the loop runs the bin.
StopsKept ==
    /\ ~bad => \A n \in Sent : kind[n] = "stop" =>
                   n \in dropped \/ n \in Elements(local.events) \/ ~running
    /\ pc = "drain" => running
    /\ pc = "run" => local.events = <<>>
    /\ burst <= Burst

NextRound == pc = "run" /\ pc' = "drain"

\* Steps left in this round of the loop, at most: events may still be sent, and
\* what is queued, with the resize beside it, is polled before the bin runs.
RoundLeft ==
    CASE pc = "drain" -> (Burst - burst) + MAXEVENTS + 5
      [] pc = "poll"  -> local.eventcount + (IF local.resizenew THEN 1 ELSE 0) + 2
      [] pc = "run"   -> 1
      [] OTHER        -> 0

\* Each step brings the round nearer to its end, and another one follows only if
\* every request to stop so far found the local queue full.
RoundGetsNearer ==
    /\ RoundLeft \in Nat
    /\ RoundLeft' < RoundLeft \/ NextRound
    /\ NextRound => \A n \in Sent : kind[n] = "stop" => n \in dropped

LEMMA StopsNext ==
    ASSUME TypeInv, StopsKept, [Next]_vars
    PROVE  StopsKept'
<1>0. /\ kind \in Seq(Kinds) /\ Len(kind) \in Nat /\ QueueOK(local, Sent)
      /\ local.events \in Seq(Sent) /\ pc \in {"drain", "poll", "run", "exited"}
      /\ burst \in Nat /\ Burst \in Nat
  BY BoundsAssumption DEF TypeInv, TypeOK, QueueOK
<1>1. ASSUME NEW k \in Kinds, Drain(k) PROVE StopsKept'
  <2> DEFINE n == Len(kind) + 1
  <2>1. /\ pc' = pc /\ pc = "drain" /\ running' = running /\ burst' = burst + 1 /\ burst < Burst /\ bad' = bad
        /\ kind' = Append(kind, k)
    BY <1>1 DEF Drain
  <2>2. running'  BY <2>1 DEF StopsKept
  <2>3. ASSUME ~bad', NEW m \in Sent', kind'[m] = "stop"
        PROVE  m \in dropped' \/ m \in Elements(local'.events) \/ ~running'
    <3>1. CASE k = "resize"
      <4>1. dropped' = dropped /\ local'.events = local.events
        BY <1>0, <1>1, <3>1 DEF Drain, visual_event_queue_add_resize, QueueOK
      <4>2. m \in Sent /\ kind[m] = "stop"
        BY <1>0, <2>1, <2>3, <3>1 DEF Sent
      <4> QED BY <2>1, <2>3, <4>1, <4>2 DEF StopsKept
    <3>2. CASE k # "resize" /\ Refuses(local)
      <4>1. dropped' = dropped \cup {n} /\ local'.events = local.events
        BY <1>1, <3>2 DEF Drain, AddsNew, visual_event_queue_add
      <4>2. m = n \/ (m \in Sent /\ kind[m] = "stop")
        BY <1>0, <2>1, <2>3 DEF Sent
      <4> QED BY <2>1, <2>3, <4>1, <4>2 DEF StopsKept
    <3>3. CASE k # "resize" /\ ~Refuses(local)
      <4>1. dropped' = dropped /\ local'.events = Append(local.events, n)
        BY <1>0, <1>1, <3>3 DEF Drain, AddsNew, visual_event_queue_add, QueueOK
      <4>2. m = n \/ (m \in Sent /\ kind[m] = "stop")
        BY <1>0, <2>1, <2>3 DEF Sent
      <4>3. Elements(local'.events) = Elements(local.events) \cup {n}
        BY <1>0, <4>1, ElementsAppend
      <4> QED BY <2>1, <2>3, <4>1, <4>2, <4>3 DEF StopsKept
    <3> QED BY <3>1, <3>2, <3>3
  <2>4. ~bad' => \A m \in Sent' : kind'[m] = "stop" =>
                     m \in dropped' \/ m \in Elements(local'.events) \/ ~running'
    BY <2>3
  <2>5. pc' # "run" /\ burst' <= Burst  BY <1>0, <2>1
  <2> QED BY <2>2, <2>4, <2>5 DEF StopsKept
<1>2. CASE DrainEnd
  BY <1>2 DEF DrainEnd, StopsKept, Sent
<1>3. CASE PollResize
  <2>1. local'.events = local.events
    BY <1>0, <1>3 DEF PollResize, visual_event_queue_poll_by_reference, QueueOK
  <2> QED BY <1>3, <2>1 DEF PollResize, StopsKept, Sent
<1>4. CASE PollEvent
  <2> DEFINE n == Polled(local)
  <2>1. /\ pc' = pc /\ pc = "poll" /\ kind' = kind /\ dropped' = dropped /\ burst' = burst
        /\ bad' = Refuses(plugin) /\ ~local.resizenew
        /\ local' = visual_event_queue_poll_by_reference(local)
    BY <1>4 DEF PollEvent
  <2>2. local.events # <<>> /\ n = Head(local.events) /\ local'.events = Tail(local.events)
    BY <1>0, <1>4, <2>1 DEF PollEvent, HasMore, QueueOK, Polled, visual_event_queue_poll_by_reference
  <2>3. Elements(local.events) = {n} \cup Elements(local'.events)
    BY <1>0, <2>2, ElementsTail
  <2>4. ~running => ~running'
    BY <1>4 DEF PollEvent
  <2>5. ~bad' /\ kind[n] = "stop" => ~running'
    BY <1>4 DEF PollEvent
  <2>6. ~bad' => ~bad  BY DEF Next, vars
  <2> HIDE DEF n
  <2> QED BY <2>1, <2>3, <2>4, <2>5, <2>6 DEF StopsKept, Sent
<1>5. CASE PollEnd
  <2>1. local.events = <<>>
    BY <1>0, <1>5 DEF PollEnd, HasMore, QueueOK
  <2> QED BY <1>5, <2>1 DEF PollEnd, StopsKept, Sent
<1>6. ASSUME RunHidden \/ RunRefused \/ RunFrame \/ RunLastFrame \/ RunHandover PROVE StopsKept'
  <2>1. /\ UNCHANGED <<kind, local, running, dropped, bad>> /\ burst' = 0
        /\ pc' = IF running THEN "drain" ELSE "exited"
    BY <1>6 DEF RunHidden, RunRefused, RunFrame, RunLastFrame, RunHandover, LoopAgain
  <2>2. pc' = "drain" => running  BY <2>1
  <2>3. pc' # "run"  BY <2>1
  <2> QED BY <1>0, <2>1, <2>2, <2>3 DEF StopsKept, Sent
<1>7. CASE UNCHANGED vars
  BY <1>7 DEF vars, StopsKept, Sent
<1> QED BY <1>1, <1>2, <1>3, <1>4, <1>5, <1>6, <1>7 DEF Next, Loop

LEMMA RoundStep ==
    ASSUME EventsInvariant, StopsKept, TypeInv', Next
    PROVE  RoundGetsNearer
<1>0. /\ QueueOK(local, Sent) /\ local.eventcount \in Nat /\ local.eventcount <= MAXEVENTS + 1
      /\ local.resizenew \in BOOLEAN /\ pc \in {"drain", "poll", "run", "exited"}
      /\ burst \in Nat /\ Burst \in Nat /\ burst <= Burst /\ MAXEVENTS \in Nat /\ ~bad
  BY BoundsAssumption, EventTyped DEF EventsInvariant, TypeInv, TypeOK, QueueOK, Bounded, StopsKept, Next
<1>a. /\ pc = "drain" => RoundLeft = (Burst - burst) + MAXEVENTS + 5
      /\ pc = "poll" /\ local.resizenew => RoundLeft = local.eventcount + 3
      /\ pc = "poll" /\ ~local.resizenew => RoundLeft = local.eventcount + 2
      /\ pc = "run" => RoundLeft = 1
      /\ pc = "exited" => RoundLeft = 0
  BY <1>0 DEF RoundLeft
<1>b. /\ local'.eventcount \in Nat /\ local'.resizenew \in BOOLEAN /\ burst' \in Nat
      /\ pc' \in {"drain", "poll", "run", "exited"}
  BY DEF TypeInv, TypeOK, QueueOK
<1>c. /\ pc' = "drain" => RoundLeft' = (Burst - burst') + MAXEVENTS + 5
      /\ pc' = "poll" /\ local'.resizenew => RoundLeft' = local'.eventcount + 3
      /\ pc' = "poll" /\ ~local'.resizenew => RoundLeft' = local'.eventcount + 2
      /\ pc' = "run" => RoundLeft' = 1
      /\ pc' = "exited" => RoundLeft' = 0
  BY <1>0, <1>b DEF RoundLeft
<1>1. RoundLeft \in Nat  BY <1>0, <1>a
<1>2. ASSUME NextRound, NEW n \in Sent, kind[n] = "stop" PROVE n \in dropped
  <2>1. pc = "run" /\ running
    BY <1>2 DEF NextRound, Next, Loop, Drain, DrainEnd, PollResize, PollEvent, PollEnd, RunHidden,
                RunRefused, RunFrame, RunLastFrame, RunHandover, LoopAgain
  <2>2. Elements(local.events) = {}  BY <2>1 DEF StopsKept, Elements
  <2> QED BY <1>0, <1>2, <2>1, <2>2 DEF StopsKept
<1>3. RoundLeft' < RoundLeft \/ NextRound
  <2>1. ASSUME NEW k \in Kinds, Drain(k) PROVE RoundLeft' < RoundLeft
    <3>1. pc = "drain" /\ pc' = "drain" /\ burst' = burst + 1
      BY <2>1 DEF Drain
    <3> QED BY <1>0, <1>a, <1>c, <1>b, <3>1
  <2>2. CASE DrainEnd
    <3>1. pc = "drain" /\ pc' = "poll" /\ local' = local
      BY <2>2 DEF DrainEnd
    <3>2. CASE local.resizenew  BY <1>0, <1>a, <1>c, <1>b, <3>1, <3>2
    <3>3. CASE ~local.resizenew  BY <1>0, <1>a, <1>c, <1>b, <3>1, <3>3
    <3> QED BY <3>2, <3>3
  <2>3. CASE PollResize
    <3>1. /\ pc = "poll" /\ pc' = "poll" /\ local.resizenew = TRUE /\ local'.resizenew = FALSE
          /\ local'.eventcount = local.eventcount
      BY <1>0, <2>3 DEF PollResize, visual_event_queue_poll_by_reference, QueueOK
    <3> QED BY <1>0, <1>a, <1>c, <1>b, <3>1
  <2>4. CASE PollEvent
    <3>1. /\ pc = "poll" /\ pc' = "poll" /\ local.resizenew = FALSE /\ local'.resizenew = FALSE
          /\ local'.eventcount = local.eventcount - 1
      BY <1>0, <2>4 DEF PollEvent, visual_event_queue_poll_by_reference, QueueOK
    <3> QED BY <1>0, <1>a, <1>c, <1>b, <3>1
  <2>5. CASE PollEnd
    <3>1. pc = "poll" /\ pc' = "run" /\ local.resizenew = FALSE
      BY <1>0, <2>5 DEF PollEnd, HasMore
    <3> QED BY <1>0, <1>a, <1>c, <1>b, <3>1
  <2>6. ASSUME RunHidden \/ RunRefused \/ RunFrame \/ RunLastFrame \/ RunHandover PROVE RoundLeft' < RoundLeft \/ NextRound
    <3>1. pc = "run" /\ pc' \in {"drain", "exited"}
      BY <2>6 DEF RunHidden, RunRefused, RunFrame, RunLastFrame, RunHandover, LoopAgain
    <3> QED BY <1>0, <1>a, <1>c, <1>b, <3>1 DEF NextRound
  <2> QED BY <2>1, <2>2, <2>3, <2>4, <2>5, <2>6 DEF Next, Loop
<1> QED BY <1>1, <1>2, <1>3 DEF RoundGetsNearer

\* No round of the loop goes on for ever, and none follows one in which a request
\* to stop was taken from the queue: such a request ends the program within the
\* round in which it is queued (lv-tool.c:431-576), for any bursts.
THEOREM RequestsStopTheLoop == Spec => [][RoundGetsNearer]_vars
<1>1. Init => StopsKept
  <2>1. Init => Sent = {}  BY DEF Init, Sent
  <2> QED BY <2>1, BoundsAssumption DEF Init, StopsKept
<1>2. EventsInvariant => TypeInv  BY DEF EventsInvariant
<1>3. TypeInv /\ StopsKept /\ [Next]_vars => StopsKept'  BY StopsNext
<1>4. EventsInvariant /\ TypeInv' /\ StopsKept /\ Next => RoundGetsNearer  BY RoundStep
<1> QED BY <1>1, <1>2, <1>3, <1>4, EventsAlways, PTL DEF Spec
=============================================================================
