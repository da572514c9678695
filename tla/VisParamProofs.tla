---------------------------- MODULE VisParamProofs ----------------------------
(***************************************************************************)
(* A plugin learns of every change of its parameters whose event its queue *)
(* took, and the callbacks of an entry of every change, for any parameters,*)
(* callbacks, depth of nesting and length of the queue.                    *)
(***************************************************************************)
EXTENDS VisParam, SequenceTheorems, WellFoundedInduction, TLAPS

-----------------------------------------------------------------------------
(* Induction over lengths, and what is left of a list without an entry.    *)

\* A set of numbers that has 0 and with each number the next one has them all:
\* the least number it had not would have one before it.
LEMMA NatSetInduction ==
    ASSUME NEW S, 0 \in S, \A n \in Nat : n \in S => n + 1 \in S
    PROVE  \A n \in Nat : n \in S
<1> DEFINE R == {ss \in Nat \X Nat : ss[1] < ss[2]}
           T == {n \in Nat : n \notin S}
<1>1. SUFFICES ASSUME T # {} PROVE FALSE  OBVIOUS
<1>2. IsWellFoundedOn(R, Nat)  BY NatLessThanWellFounded, Zenon DEF OpToRel
<1>3. T \subseteq Nat  OBVIOUS
<1>4. \A x, y \in Nat : x < y => <<x, y>> \in R  OBVIOUS
<1> HIDE DEF R, T
<1>5. PICK x \in T : \A y \in T : ~(<<y, x>> \in R)  BY <1>1, <1>2, <1>3, WFMin
<1>6. x \in Nat /\ x \notin S  BY DEF T
<1>7. x # 0  BY <1>6
<1>8. x - 1 \in Nat /\ (x - 1) + 1 = x  BY <1>6, <1>7
<1>9. x - 1 \notin S  BY <1>6, <1>8
<1>10. x - 1 \in T  BY <1>8, <1>9 DEF T
<1>11. <<x - 1, x>> \in R  BY <1>4, <1>6, <1>8
<1> QED BY <1>5, <1>10, <1>11

\* What is left of a list without its i-th entry.
LEMMA RemoveAtIs ==
    ASSUME NEW S, NEW list \in Seq(S), NEW i \in 1..Len(list)
    PROVE  /\ RemoveAt(list, i) \in Seq(S) /\ Len(RemoveAt(list, i)) = Len(list) - 1
           /\ \A k \in 1..Len(list) - 1 :
                  RemoveAt(list, i)[k] = IF k < i THEN list[k] ELSE list[k + 1]
<1> DEFINE a == SubSeq(list, 1, i - 1)
           b == SubSeq(list, i + 1, Len(list))
<1>1. a \in Seq(S) /\ Len(a) = i - 1 /\ \A k \in 1..i - 1 : a[k] = list[k]  OBVIOUS
<1>2. /\ b \in Seq(S) /\ Len(b) = Len(list) - i
      /\ \A k \in 1..Len(list) - i : b[k] = list[i + k]
  OBVIOUS
<1>3. RemoveAt(list, i) = a \o b  BY DEF RemoveAt
<1> HIDE DEF a, b
<1>4. /\ a \o b \in Seq(S) /\ Len(a \o b) = Len(a) + Len(b)
      /\ \A k \in 1..Len(a) + Len(b) :
             (a \o b)[k] = IF k <= Len(a) THEN a[k] ELSE b[k - Len(a)]
  BY <1>1, <1>2, ConcatProperties
<1>5. Len(list) \in Nat /\ Len(a) + Len(b) = Len(list) - 1  BY <1>1, <1>2
<1>6. ASSUME NEW k \in 1..Len(list) - 1
      PROVE  (a \o b)[k] = IF k < i THEN list[k] ELSE list[k + 1]
  <2>1. CASE k < i
    <3>1. k \in 1..i - 1 /\ k <= Len(a)  BY <1>1, <2>1
    <3> QED BY <1>1, <1>4, <1>5, <2>1, <3>1
  <2>2. CASE ~(k < i)
    <3>1. k - Len(a) \in 1..Len(list) - i /\ ~(k <= Len(a)) /\ i + (k - Len(a)) = k + 1
      BY <1>1, <1>5, <2>2
    <3>2. b[k - Len(a)] = list[i + (k - Len(a))]  BY <1>2, <3>1
    <3> QED BY <1>4, <1>5, <2>2, <3>1, <3>2
  <2> QED BY <2>1, <2>2
<1> QED BY <1>3, <1>4, <1>5, <1>6

\* A list without its last entry.
LEMMA RemoveLast ==
    ASSUME NEW S, NEW list \in Seq(S), NEW n \in 1..Len(list), n = Len(list)
    PROVE  /\ RemoveAt(list, n) \in Seq(S) /\ Len(RemoveAt(list, n)) = n - 1
           /\ \A i \in 1..n - 1 : RemoveAt(list, n)[i] = list[i]
<1>1. n \in Nat /\ \A i \in 1..n - 1 : i < n  OBVIOUS
<1> QED BY <1>1, RemoveAtIs

LEMMA FrontOf ==
    ASSUME NEW S, NEW seq \in Seq(S), NEW n \in 1..Len(seq), n = Len(seq)
    PROVE  /\ Front(seq) \in Seq(S) /\ Len(Front(seq)) = n - 1
           /\ \A i \in 1..n - 1 : Front(seq)[i] = seq[i]
<1> DEFINE front == SubSeq(seq, 1, n - 1)
<1>1. front \in Seq(S) /\ Len(front) = n - 1 /\ \A i \in 1..n - 1 : front[i] = seq[i]
  OBVIOUS
<1>2. Front(seq) = front  BY DEF Front
<1> QED BY <1>1, <1>2

-----------------------------------------------------------------------------
(* The newest values reach the plugin.                                       *)

Queued == Params \cup {OtherEvent}

\* Nothing resizes a plugin here.
QueueOK(q) == q \in EventQueues(Queued) /\ ~q.resizenew

Waiting(q, p) == \E i \in 1..Len(q.events) : q.events[i] = p

ParamTypes ==
    /\ value \in [Params -> Values] /\ seen \in [Params -> Values]
    /\ copying \in 0..Len(Source)
    /\ QueueOK(queue)

\* The inductive invariant.
ParamInvariant == ParamTypes /\ Synced

-----------------------------------------------------------------------------
LEMMA SourceTyped ==
    ASSUME NEW i \in 1..Len(Source)
    PROVE  Source[i][1] \in Announcing /\ Source[i][2] \in Values
<1>1. Source \in Seq(Announcing \X Values)  BY ParamsAssumption
<1>2. Source[i] \in Announcing \X Values  BY <1>1
<1> QED BY <1>2

\* An event that is added waits, and those that wait go on waiting.
LEMMA AddKeepsWaiting ==
    ASSUME NEW q, QueueOK(q), NEW ev \in Queued
    PROVE  /\ QueueOK(visual_event_queue_add(q, ev))
           /\ ~Refuses(q) => Waiting(visual_event_queue_add(q, ev), ev)
           /\ \A p : Waiting(q, p) => Waiting(visual_event_queue_add(q, ev), p)
<1> DEFINE r == [events |-> Append(q.events, ev), eventcount |-> q.eventcount + 1,
                 lastresize |-> q.lastresize, resizenew |-> q.resizenew]
<1>1. q.events \in Seq(Queued)  BY DEF QueueOK, EventQueues
<1>2. /\ Append(q.events, ev) \in Seq(Queued)
      /\ Len(Append(q.events, ev)) = Len(q.events) + 1 /\ Len(q.events) \in Nat
      /\ Append(q.events, ev)[Len(q.events) + 1] = ev
      /\ \A i \in 1..Len(q.events) : Append(q.events, ev)[i] = q.events[i]
  BY <1>1
<1>3. QueueOK(r) /\ r.events = Append(q.events, ev)  BY <1>2 DEF QueueOK, EventQueues
<1>4. Waiting(r, ev)
  <2>1. Len(r.events) \in 1..Len(r.events)  BY <1>2, <1>3
  <2> QED BY <1>2, <1>3, <2>1 DEF Waiting
<1>5. ASSUME NEW p, Waiting(q, p) PROVE Waiting(r, p)
  <2>1. PICK i \in 1..Len(q.events) : q.events[i] = p  BY <1>5 DEF Waiting
  <2>2. i \in 1..Len(r.events) /\ r.events[i] = p  BY <1>2, <1>3, <2>1
  <2> QED BY <2>2 DEF Waiting
<1>6. CASE Refuses(q)
  <2>1. visual_event_queue_add(q, ev) = q  BY <1>6 DEF visual_event_queue_add
  <2> QED BY <1>6, <2>1
<1>7. CASE ~Refuses(q)
  <2>1. visual_event_queue_add(q, ev) = r
    BY <1>7 DEF QueueOK, EventQueues, visual_event_queue_add
  <2> HIDE DEF r
  <2> QED BY <1>3, <1>4, <1>5, <2>1
<1> QED BY <1>6, <1>7

\* A plugin that polls is given all that waits.
LEMMA PollGivesWaiting ==
    ASSUME QueueOK(queue)
    PROVE  /\ QueueOK(Emptied(queue))
           /\ \A p : Waiting(queue, p) => p \in Handled
<1>1. queue.events \in Seq(Queued) /\ ~queue.resizenew
  BY DEF QueueOK, EventQueues
<1>2. PolledAll(queue) = <<>> \o queue.events  BY <1>1 DEF PolledAll
<1>3. PolledAll(queue) = queue.events  BY <1>1, <1>2
<1>4. \A p : Waiting(queue, p) => p \in Handled  BY <1>3 DEF Waiting, Handled
<1>5. <<>> \in Seq(Queued)  OBVIOUS
<1>6. QueueOK(Emptied(queue))  BY <1>1, <1>5 DEF Emptied, QueueOK, EventQueues
<1> QED BY <1>4, <1>6

\* A new value, or a new parent, of an entry that announces it.
LEMMA ChangedKeepsSynced ==
    ASSUME ParamInvariant, NEW p \in Params, NEW v \in Values, NEW ofContainer \in BOOLEAN,
           NEW adds \in BOOLEAN,
           value' = [value EXCEPT ![p] = v], seen' = seen,
           parent' \ {p} = parent \ {p}, ofContainer <=> p \in parent',
           copying' \in 0..Len(Source),
           visual_param_entry_changed(p, ofContainer, adds)
    PROVE  ParamInvariant'
<1> DEFINE q == visual_event_queue_add(queue, p)
<1>1. QueueOK(queue) /\ value \in [Params -> Values] /\ seen \in [Params -> Values]
  BY DEF ParamInvariant, ParamTypes
<1>2. p \in Queued  BY DEF Queued
<1>3. /\ QueueOK(q)
      /\ ~Refuses(queue) => Waiting(q, p)
      /\ \A r : Waiting(queue, r) => Waiting(q, r)
  BY <1>1, <1>2, AddKeepsWaiting
<1> HIDE DEF q
<1>4. /\ queue' \in {queue, q}
      /\ missed' \in {missed, missed \cup {p}, missed \ {p}}
      /\ ofContainer => p \in missed' \/ (queue' = q /\ ~Refuses(queue))
  BY DEF visual_param_entry_changed, q
<1>5. ParamTypes'
  <2>1. value' \in [Params -> Values]  BY <1>1
  <2>2. QueueOK(queue')  BY <1>1, <1>3, <1>4
  <2> QED BY <1>1, <2>1, <2>2 DEF ParamTypes
<1>6. ASSUME NEW r \in Announcing \cap parent'
      PROVE  r \in missed' \/ seen'[r] = value'[r] \/ Waiting(queue', r)
  <2>1. CASE r = p  BY <1>3, <1>4, <1>6, <2>1
  <2>2. CASE r # p
    <3>1. r \in Announcing \cap parent /\ r \in Params  BY <1>6, <2>2 DEF Params, Announcing
    <3>2. r \in missed \/ seen[r] = value[r] \/ Waiting(queue, r)
      BY <3>1 DEF ParamInvariant, Synced, Waiting
    <3>3. value'[r] = value[r] /\ seen'[r] = seen[r]  BY <1>1, <2>2, <3>1
    <3>4. r \in missed => r \in missed'  BY <1>4, <2>2
    <3>5. Waiting(queue, r) => Waiting(queue', r)  BY <1>3, <1>4
    <3> QED BY <3>2, <3>3, <3>4, <3>5
  <2> QED BY <2>1, <2>2
<1>7. Synced'  BY <1>6 DEF Synced, Waiting
<1> QED BY <1>5, <1>7 DEF ParamInvariant

LEMMA SetKeepsSynced ==
    ASSUME ParamInvariant, NEW p \in Announcing, NEW v \in Values,
           visual_param_entry_set_from_param(p, v), seen' = seen, parent' = parent,
           copying' \in 0..Len(Source)
    PROVE  ParamInvariant'
<1>1. p \in Params  BY DEF Params, Announcing
<1>2. CASE p \in Scalars /\ value[p] = v
  <2>1. UNCHANGED <<value, queue, missed>>  BY <1>2 DEF visual_param_entry_set_from_param
  <2> QED BY <2>1 DEF ParamInvariant, ParamTypes, Synced
<1>3. CASE ~(p \in Scalars /\ value[p] = v)
  <2>1. Assign(p, v)  BY <1>3 DEF visual_param_entry_set_from_param
  <2>2. value' = [value EXCEPT ![p] = v] /\ visual_param_entry_changed(p, p \in parent, FALSE)
    BY <2>1 DEF Assign
  <2>3. CASE p \in parent
    <3>1. visual_param_entry_changed(p, TRUE, FALSE)
      BY <2>2, <2>3 DEF visual_param_entry_changed
    <3> QED BY <1>1, <2>2, <2>3, <3>1, ChangedKeepsSynced
  <2>4. CASE p \notin parent
    <3>1. visual_param_entry_changed(p, FALSE, FALSE)
      BY <2>2, <2>4 DEF visual_param_entry_changed
    <3> QED BY <1>1, <2>2, <2>4, <3>1, ChangedKeepsSynced
  <2> QED BY <2>3, <2>4
<1> QED BY <1>2, <1>3

LEMMA InitHolds == Init => ParamInvariant
<1> SUFFICES ASSUME Init PROVE ParamInvariant  OBVIOUS
<1>1. Zeroed \in Values  BY ParamsAssumption DEF Zeroed
<1>2. value \in [Params -> Values] /\ seen \in [Params -> Values] /\ parent = {}
  BY <1>1 DEF Init
<1>3. Source \in Seq(Announcing \X Values) /\ <<>> \in Seq(Queued)  BY ParamsAssumption
<1>4. copying \in 0..Len(Source)  BY <1>3 DEF Init, NoCopy
<1>5. QueueOK(queue)  BY <1>3 DEF Init, QueueOK, EventQueues, visual_event_queue_init
<1> QED BY <1>2, <1>4, <1>5 DEF ParamInvariant, ParamTypes, Synced

LEMMA NextHolds ==
    ASSUME ParamInvariant, [Next]_vars
    PROVE  ParamInvariant'
<1>1. /\ value \in [Params -> Values] /\ seen \in [Params -> Values]
      /\ copying \in 0..Len(Source) /\ QueueOK(queue)
  BY DEF ParamInvariant, ParamTypes
<1>2. CASE UNCHANGED <<value, seen, parent, queue, missed>> /\ copying' \in 0..Len(Source)
  BY <1>2 DEF ParamInvariant, ParamTypes, Synced
<1>3. ASSUME NEW p \in Announcing, NEW v \in Values, visual_param_entry_set(p, v)
      PROVE  ParamInvariant'
  BY <1>1, <1>3, SetKeepsSynced DEF visual_param_entry_set
<1>4. ASSUME NEW p \in Collections, NEW v \in Values, visual_param_entry_set_collection(p, v)
      PROVE  ParamInvariant'
  <2>1. value' = [value EXCEPT ![p] = v]
        /\ UNCHANGED <<seen, parent, queue, missed, copying>>
    BY <1>4 DEF visual_param_entry_set_collection
  <2>2. \A r \in Announcing : value'[r] = value[r]
    <3>1. \A r \in Announcing : r # p /\ r \in Params
      BY KindsAssumption DEF Params, Announcing
    <3> QED BY <1>1, <2>1, <3>1
  <2>3. value' \in [Params -> Values]  BY <1>1, <2>1
  <2> QED BY <2>1, <2>2, <2>3 DEF ParamInvariant, ParamTypes, Synced
<1>5. ASSUME NEW p \in Params, visual_param_container_add(p) PROVE ParamInvariant'
  <2>1. /\ parent' = parent \cup {p} /\ visual_param_entry_changed(p, TRUE, TRUE)
        /\ UNCHANGED <<value, seen, copying>>
    BY <1>5 DEF visual_param_container_add
  <2>2. value' = [value EXCEPT ![p] = value[p]] /\ value[p] \in Values  BY <1>1, <2>1
  <2>3. parent' \ {p} = parent \ {p} /\ p \in parent' /\ copying' \in 0..Len(Source)
    BY <1>1, <2>1
  <2>4. seen' = seen  BY <2>1
  <2> QED BY <2>1, <2>2, <2>3, <2>4, ChangedKeepsSynced
<1>6. ASSUME NEW p \in Params, visual_param_container_remove(p) PROVE ParamInvariant'
  BY <1>1, <1>2, <1>6 DEF visual_param_container_remove
<1>7. ASSUME NEW p \in Watched, NEW who \in Listeners,
             visual_param_entry_add_callback(p, who)
      PROVE  ParamInvariant'
  BY <1>1, <1>2, <1>7 DEF visual_param_entry_add_callback
<1>8. ASSUME NEW p \in Watched, NEW who \in Listeners,
             visual_param_entry_remove_callback(p, who)
      PROVE  ParamInvariant'
  BY <1>1, <1>2, <1>8 DEF visual_param_entry_remove_callback
<1>9. CASE BeginCopy
  <2>1. Len(Source) \in Nat /\ Len(Source) # 0
    <3>1. Source \in Seq(Announcing \X Values)  BY ParamsAssumption
    <3>2. Source # <<>>  BY <1>9 DEF BeginCopy
    <3> QED BY <3>1, <3>2
  <2>2. copying' \in 0..Len(Source)  BY <1>9, <2>1 DEF BeginCopy
  <2> QED BY <1>2, <1>9, <2>2 DEF BeginCopy
<1>10. CASE visual_param_container_set_eventqueue
  BY <1>1, <1>2, <1>10 DEF visual_param_container_set_eventqueue
<1>11. CASE SendOther
  <2>1. /\ queue' = visual_event_queue_add(queue, OtherEvent)
        /\ UNCHANGED <<value, seen, parent, missed, copying>>
    BY <1>11 DEF SendOther
  <2>2. /\ QueueOK(queue')
        /\ \A p : Waiting(queue, p) => Waiting(queue', p)
    <3>1. OtherEvent \in Queued  BY DEF Queued
    <3> QED BY <1>1, <2>1, <3>1, AddKeepsWaiting
  <2>3. Synced'  BY <2>1, <2>2 DEF ParamInvariant, Synced, Waiting
  <2> QED BY <1>1, <2>1, <2>2, <2>3 DEF ParamInvariant, ParamTypes
<1>12. CASE visual_param_entry_notify_callbacks
  BY <1>1, <1>2, <1>12 DEF visual_param_entry_notify_callbacks
<1>13. CASE visual_param_container_copy
  <2> DEFINE p == Source[copying][1]
             v == Source[copying][2]
  <2>1. copying \in 1..Len(Source)
    <3>1. copying # 0  BY <1>13 DEF visual_param_container_copy, NoCopy
    <3>2. Len(Source) \in Nat  BY ParamsAssumption
    <3> QED BY <1>1, <3>1, <3>2
  <2>2. p \in Announcing /\ p \in Params /\ v \in Values
    BY <2>1, SourceTyped DEF Params, Announcing
  <2>3. copying' \in 0..Len(Source)
    <3>1. Len(Source) \in Nat  BY ParamsAssumption
    <3>2. copying' = visual_list_next(Source, copying)  BY <1>13 DEF visual_param_container_copy
    <3> QED BY <2>1, <3>1, <3>2 DEF visual_list_next, NoEntry
  <2>4. seen' = seen  BY <1>13 DEF visual_param_container_copy
  <2>5. CASE p \in Range(entries)
    <3>1. visual_param_entry_set_from_param(p, v) /\ parent' = parent
      BY <1>13, <2>5 DEF visual_param_container_copy
    <3> HIDE DEF p, v
    <3> QED BY <2>2, <2>3, <2>4, <3>1, SetKeepsSynced
  <2>6. CASE p \notin Range(entries)
    <3>1. /\ value' = [value EXCEPT ![p] = v] /\ parent' = parent \cup {p}
          /\ visual_param_entry_changed(p, TRUE, TRUE)
      BY <1>13, <2>6 DEF visual_param_container_copy
    <3> HIDE DEF p, v
    <3>2. parent' \ {p} = parent \ {p} /\ p \in parent'  BY <3>1
    <3> QED BY <2>2, <2>3, <2>4, <3>1, <3>2, ChangedKeepsSynced
  <2> QED BY <2>5, <2>6
<1>14. CASE visual_plugin_events_pump
  <2>1. /\ seen' = [p \in Params |-> IF p \in Handled THEN value[p] ELSE seen[p]]
        /\ queue' = Emptied(queue) /\ UNCHANGED <<value, parent, missed, copying>>
    BY <1>14 DEF visual_plugin_events_pump
  <2>2. /\ QueueOK(Emptied(queue))
        /\ \A p : Waiting(queue, p) => p \in Handled
    BY <1>1, PollGivesWaiting
  <2>3. seen' \in [Params -> Values]  BY <1>1, <2>1
  <2>4. ASSUME NEW p \in Announcing \cap parent'
        PROVE  p \in missed' \/ seen'[p] = value'[p]
    <3>1. p \in Params /\ p \in parent  BY <2>1, <2>4 DEF Params, Announcing
    <3>2. p \in missed \/ seen[p] = value[p] \/ Waiting(queue, p)
      BY <2>4, <3>1 DEF ParamInvariant, Synced, Waiting
    <3> QED BY <2>1, <2>2, <3>1, <3>2
  <2>5. Synced'  BY <2>4 DEF Synced
  <2> QED BY <1>1, <2>1, <2>2, <2>3, <2>5 DEF ParamInvariant, ParamTypes
<1>15. CASE UNCHANGED vars  BY <1>1, <1>2, <1>15 DEF vars
<1> QED BY <1>3, <1>4, <1>5, <1>6, <1>7, <1>8, <1>9, <1>10, <1>11, <1>12, <1>13, <1>14, <1>15
        DEF Next, Client, Library

\* lv_param.c:367, lv_event.c:189: a plugin that is not told of a change is one
\* whose queue was full or taken away; in every other case it has the value or
\* an event that waits for it, whatever callbacks set in between.
THEOREM AlwaysSynced == Spec => []Synced
<1>1. Init => ParamInvariant  BY InitHolds
<1>2. ParamInvariant /\ [Next]_vars => ParamInvariant'  BY NextHolds
<1>3. ParamInvariant => Synced  BY DEF ParamInvariant
<1> QED BY <1>1, <1>2, <1>3, PTL DEF Spec

-----------------------------------------------------------------------------
(* Callbacks.  A client that removes the newest callback of an entry first  *)
(* meets a list that is a stack: the ids are the positions, so that an id   *)
(* names the callback that was meant.  A value that a callback does not     *)
(* know yet is one that a walk is still to tell it of.                      *)

Callback == [id : Nat, who : Listeners]
WalkRecord == [param : Params, who : Listeners \cup {NoListener}, adds : BOOLEAN]

CallTypes ==
    /\ value \in [Params -> Values] /\ told \in [Watched -> [Listeners -> Values]]
    /\ copying \in 0..Len(Source)
    /\ callbacks \in [Params -> Seq(Callback)] /\ walks \in Seq(WalkRecord)

\* The ids of a list are its positions.
Stacked(list) == \A i \in 1..Len(list) : list[i].id = i - 1
\* Nobody is on it twice.
EachOnce(list) == \A i, j \in 1..Len(list) : list[i].who = list[j].who => i = j

\* A walk has not come to position i of its list.
Ahead(list, walk, i) ==
    walk.who = NoListener \/ \E j \in 1..i - 1 : list[j].who = walk.who

\* One of the walks is going to call the callback at position i of p.
Awaited(list, running, p, i) ==
    \E w \in 1..Len(running) : running[w].param = p /\ Ahead(list, running[w], i)

\* The callbacks on the list of p have been called with v or are going to be.
TellsAll(list, knows, v, running, p) ==
    \A i \in 1..Len(list) : knows[list[i].who] = v \/ Awaited(list, running, p, i)

ToldOrAwaited ==
    \A p \in Watched \cap parent : TellsAll(callbacks[p], told[p], value[p], walks, p)

Stands(lists, walk) ==
    walk.who # NoListener => Positions(lists[walk.param], walk.who) # {}

\* The inductive invariant.
CallInvariant ==
    /\ CallTypes /\ ToldOrAwaited
    /\ \A w \in 1..Len(walks) : Stands(callbacks, walks[w])
    /\ \A p \in Params : Stacked(callbacks[p]) /\ EachOnce(callbacks[p])

-----------------------------------------------------------------------------
(* What the search for an id finds in a stack.                              *)

\* The equation of Search in get_next_pcall_id, and what solves it for a stack.
IsSearch(list, f) ==
    f = [s \in (0..Len(list)) \X (0..Len(list)) |->
            IF EntriesWith(list, s[1], s[2]) = {} THEN s[1]
            ELSE f[<<s[1] + 1, Min(EntriesWith(list, s[1], s[2]))>>]]

StackSearch(list) ==
    [s \in (0..Len(list)) \X (0..Len(list)) |-> IF s[2] > s[1] THEN s[1] ELSE Len(list)]

LEMMA NextIdOfStack ==
    ASSUME NEW list \in Seq(Callback), Stacked(list)
    PROVE  get_next_pcall_id(list) = Len(list)
<1> DEFINE L == Len(list)
           Search == CHOOSE f : IsSearch(list, f)
<1>1. get_next_pcall_id(list) = Search[<<0, 0>>]
  BY Zenon DEF get_next_pcall_id, IsSearch, NoEntry
<1>2. L \in Nat  OBVIOUS
<1>3. ASSUME NEW i \in 0..L, NEW le \in 0..L
      PROVE  EntriesWith(list, i, le) = IF le <= i /\ i < L THEN {i + 1} ELSE {}
  BY <1>2 DEF EntriesWith, Stacked
<1>4. ASSUME NEW k \in Nat PROVE Min({k}) = k
  BY DEF Min
<1>5. IsSearch(list, StackSearch(list))
  <2> DEFINE W == StackSearch(list)
  <2>1. ASSUME NEW s \in (0..L) \X (0..L)
        PROVE  W[s] = IF EntriesWith(list, s[1], s[2]) = {} THEN s[1]
                      ELSE W[<<s[1] + 1, Min(EntriesWith(list, s[1], s[2]))>>]
    <3>1. PICK i \in 0..L, le \in 0..L : s = <<i, le>>  OBVIOUS
    <3>2. CASE le <= i /\ i < L
      <4>1. EntriesWith(list, i, le) = {i + 1} /\ Min({i + 1}) = i + 1
        BY <1>2, <1>3, <1>4, <3>2
      <4>2. i + 1 \in 0..L  BY <1>2, <3>2
      <4>3. W[<<i, le>>] = L /\ W[<<i + 1, i + 1>>] = L  BY <1>2, <3>2, <4>2 DEF StackSearch
      <4> HIDE DEF W, L
      <4> QED BY <3>1, <4>1, <4>3
    <3>3. CASE ~(le <= i /\ i < L)
      <4>1. EntriesWith(list, i, le) = {}  BY <1>3, <3>3
      <4>2. W[<<i, le>>] = i  BY <1>2, <3>3 DEF StackSearch
      <4> HIDE DEF W, L
      <4> QED BY <3>1, <4>1, <4>2
    <3> QED BY <3>2, <3>3
  <2>2. W = [s \in (0..L) \X (0..L) |-> W[s]]  BY DEF StackSearch
  <2> HIDE DEF W
  <2> QED BY <2>1, <2>2 DEF IsSearch, W
<1>6. IsSearch(list, Search)
  <2>1. \E f : IsSearch(list, f)  BY <1>5
  <2> QED BY <2>1
<1> HIDE DEF Search
<1>7. ASSUME NEW i \in 0..L PROVE Search[<<i, i>>] = IF i = L THEN L ELSE Search[<<i + 1, i + 1>>]
  <2>1. Search[<<i, i>>] = IF EntriesWith(list, i, i) = {} THEN i
                           ELSE Search[<<i + 1, Min(EntriesWith(list, i, i))>>]
    <3>1. <<i, i>> \in (0..L) \X (0..L) /\ <<i, i>>[1] = i /\ <<i, i>>[2] = i  OBVIOUS
    <3> QED BY <1>6, <3>1 DEF IsSearch
  <2>2. EntriesWith(list, i, i) = IF i < L THEN {i + 1} ELSE {}  BY <1>2, <1>3
  <2>3. i < L => Min({i + 1}) = i + 1  BY <1>2, <1>4
  <2> HIDE DEF L
  <2> QED BY <1>2, <2>1, <2>2, <2>3
<1>8. \A n \in Nat : n \in {k \in Nat : k <= L => Search[<<L - k, L - k>>] = L}
  <2> DEFINE S == {k \in Nat : k <= L => Search[<<L - k, L - k>>] = L}
  <2>1. 0 \in S
    <3>1. L - 0 = L /\ L \in 0..L  BY <1>2
    <3>2. Search[<<L, L>>] = L  BY <1>7, <3>1
    <3> QED BY <3>1, <3>2
  <2>2. ASSUME NEW k \in Nat, k \in S PROVE k + 1 \in S
    <3>1. SUFFICES ASSUME k + 1 <= L PROVE Search[<<L - (k + 1), L - (k + 1)>>] = L
      BY <2>2
    <3>2. L - (k + 1) \in 0..L /\ L - (k + 1) # L /\ (L - (k + 1)) + 1 = L - k /\ k <= L
      BY <1>2, <3>1
    <3>3. Search[<<L - k, L - k>>] = L  BY <2>2, <3>2
    <3> QED BY <1>7, <3>2, <3>3
  <2> HIDE DEF S
  <2>3. \A n \in Nat : n \in S  BY <2>1, <2>2, NatSetInduction
  <2> QED BY <2>3 DEF S
<1>9. Search[<<0, 0>>] = L
  <2>1. L - L = 0  BY <1>2
  <2>2. L <= L => Search[<<L - L, L - L>>] = L  BY <1>2, <1>8
  <2> QED BY <1>2, <2>1, <2>2
<1> QED BY <1>1, <1>9

-----------------------------------------------------------------------------
(* What adding and removing does to a stack.                                *)

WithCallback(list, who) == Append(list, [id |-> get_next_pcall_id(list), who |-> who])
WithoutCallback(list, who) == WithoutId(list, IdOf(list, who))

LEMMA AddToStack ==
    ASSUME NEW list \in Seq(Callback), Stacked(list), EachOnce(list),
           NEW who \in Listeners, Positions(list, who) = {}
    PROVE  LET more == WithCallback(list, who)
           IN  /\ more \in Seq(Callback) /\ Stacked(more) /\ EachOnce(more)
               /\ Len(more) = Len(list) + 1 /\ more[Len(list) + 1].who = who
               /\ \A i \in 1..Len(list) : more[i] = list[i] /\ list[i].who # who
<1> DEFINE c == [id |-> Len(list), who |-> who]
           more == WithCallback(list, who)
<1>1. more = Append(list, c)  BY NextIdOfStack DEF WithCallback
<1> HIDE DEF more
<1>2. c \in Callback /\ c.id = Len(list) /\ c.who = who /\ Len(list) \in Nat  BY DEF Callback
<1> HIDE DEF c
<1>3. /\ more \in Seq(Callback) /\ Len(more) = Len(list) + 1 /\ more[Len(list) + 1] = c
      /\ \A i \in 1..Len(list) : more[i] = list[i]
  BY <1>1, <1>2
<1>4. \A i \in 1..Len(list) : list[i].who # who  BY DEF Positions
<1>5. Stacked(more)  BY <1>2, <1>3 DEF Stacked
<1>6. ASSUME NEW i \in 1..Len(more), NEW j \in 1..Len(more), more[i].who = more[j].who
      PROVE  i = j
  <2>1. i \in 1..Len(list) \/ i = Len(list) + 1  BY <1>2, <1>3
  <2>2. j \in 1..Len(list) \/ j = Len(list) + 1  BY <1>2, <1>3
  <2> QED BY <1>2, <1>3, <1>4, <1>6, <2>1, <2>2 DEF EachOnce
<1>7. EachOnce(more)  BY <1>6 DEF EachOnce
<1> QED BY <1>2, <1>3, <1>4, <1>5, <1>7 DEF more

\* The callback that goes is the newest, the one that was meant.
LEMMA RemoveFromStack ==
    ASSUME NEW list \in Seq(Callback), Stacked(list), EachOnce(list),
           NEW who \in Listeners, Positions(list, who) # {}, list[Len(list)].who = who
    PROVE  LET less == WithoutCallback(list, who)
           IN  /\ less \in Seq(Callback) /\ Stacked(less) /\ EachOnce(less)
               /\ Len(less) = Len(list) - 1 /\ Len(list) \in Nat \ {0}
               /\ \A i \in 1..Len(less) : less[i] = list[i] /\ less[i].who # who
<1> DEFINE L == Len(list)
           less == WithoutCallback(list, who)
           same == {i \in 1..L : list[i].id = L - 1}
<1>1. L \in Nat \ {0}  BY DEF Positions
<1>2. IdOf(list, who) = L - 1
  <2>1. list[L] \in Range(list)  BY <1>1 DEF Range
  <2>2. \A c \in Range(list) : \E i \in 1..L : c = list[i]  BY <1>1 DEF Range
  <2>3. \A c \in Range(list) : c.who = who => c = list[L]
    <3>1. \A i \in 1..L : list[i].who = list[L].who => i = L  BY <1>1 DEF EachOnce
    <3> QED BY <2>2, <3>1
  <2>4. (CHOOSE c \in Range(list) : c.who = who) = list[L]  BY <2>1, <2>3
  <2>5. list[L].id = L - 1  BY <1>1 DEF Stacked
  <2> QED BY <2>4, <2>5, Zenon DEF IdOf
<1>3. same = {L}  BY <1>1 DEF Stacked
<1>4. Min({L}) = L  BY <1>1 DEF Min
<1>5. less = RemoveAt(list, Min(same))  BY <1>2 DEF WithoutId, WithoutCallback
<1> HIDE DEF same, less
<1>6. less = RemoveAt(list, L)  BY <1>3, <1>4, <1>5
<1>7. L \in 1..Len(list)  BY <1>1
<1>8. /\ less \in Seq(Callback) /\ Len(less) = L - 1
      /\ \A i \in 1..L - 1 : less[i] = list[i]
  BY <1>6, <1>7, RemoveLast
<1>9. \A i \in 1..L - 1 : list[i].who # who  BY <1>1 DEF EachOnce
<1>10. \A i \in 1..L - 1 : i \in 1..L  BY <1>1
<1>11. Stacked(less)  BY <1>8, <1>10 DEF Stacked
<1>12. EachOnce(less)
  <2>1. \A i, j \in 1..L : list[i].who = list[j].who => i = j  BY DEF EachOnce
  <2> QED BY <1>8, <1>10, <2>1 DEF EachOnce
<1> QED BY <1>1, <1>8, <1>9, <1>11, <1>12 DEF less

\* Where a walk stands.
LEMMA PlaceOf ==
    ASSUME NEW list \in Seq(Callback), EachOnce(list), NEW i \in 1..Len(list)
    PROVE  (CHOOSE j \in Positions(list, list[i].who) : TRUE) = i
<1>1. i \in Positions(list, list[i].who)  BY DEF Positions
<1>2. \A j \in Positions(list, list[i].who) : j = i  BY DEF Positions, EachOnce
<1> QED BY <1>1, <1>2

-----------------------------------------------------------------------------
(* The steps.                                                               *)

\* A callback that is awaited still is when walks are added, or when its list
\* only changes behind it.
LEMMA AwaitedStays ==
    ASSUME NEW running \in Seq(WalkRecord), NEW more \in Seq(WalkRecord),
           Len(running) <= Len(more), \A w \in 1..Len(running) : more[w] = running[w],
           NEW list, NEW changed, NEW i \in Nat,
           \A j \in 1..i - 1 : changed[j] = list[j],
           NEW p, Awaited(list, running, p, i)
    PROVE  Awaited(changed, more, p, i)
<1>1. PICK w \in 1..Len(running) : running[w].param = p /\ Ahead(list, running[w], i)
  BY DEF Awaited
<1>2. w \in 1..Len(more) /\ more[w] = running[w]  BY <1>1
<1>3. Ahead(changed, running[w], i)  BY <1>1 DEF Ahead
<1> QED BY <1>1, <1>2, <1>3 DEF Awaited

\* A list that is left alone, while walks are only added.
LEMMA TellsAllStays ==
    ASSUME NEW running \in Seq(WalkRecord), NEW more \in Seq(WalkRecord),
           Len(running) <= Len(more), \A w \in 1..Len(running) : more[w] = running[w],
           NEW list \in Seq(Callback), NEW knows, NEW v, NEW p,
           TellsAll(list, knows, v, running, p)
    PROVE  TellsAll(list, knows, v, more, p)
<1> SUFFICES ASSUME NEW i \in 1..Len(list)
             PROVE  knows[list[i].who] = v \/ Awaited(list, more, p, i)
  BY DEF TellsAll
<1>1. knows[list[i].who] = v \/ Awaited(list, running, p, i)  BY DEF TellsAll
<1>2. i \in Nat  OBVIOUS
<1>3. Awaited(list, running, p, i) => Awaited(list, more, p, i)  BY <1>2, AwaitedStays
<1> QED BY <1>1, <1>3

\* A walk that begins is going to call everybody.
LEMMA BeginningTellsAll ==
    ASSUME NEW more \in Seq(WalkRecord), NEW w \in 1..Len(more), more[w].who = NoListener,
           NEW list, NEW knows, NEW v
    PROVE  TellsAll(list, knows, v, more, more[w].param)
BY DEF TellsAll, Awaited, Ahead

\* A new value, or a new parent: a walk begins that tells everybody.
LEMMA ChangeIsTold ==
    ASSUME CallInvariant, NEW p \in Params, NEW v \in Values, NEW ofContainer \in BOOLEAN,
           NEW adds \in BOOLEAN,
           value' = [value EXCEPT ![p] = v], told' = told, copying' \in 0..Len(Source),
           \/ callbacks' = callbacks
           \/ walks = <<>> /\ callbacks' = [callbacks EXCEPT ![p] = <<>>],
           parent' \ {p} = parent \ {p}, ofContainer <=> p \in parent',
           visual_param_entry_changed(p, ofContainer, adds)
    PROVE  CallInvariant'
<1> DEFINE c == [param |-> p, who |-> NoListener, adds |-> adds]
<1>1. /\ value \in [Params -> Values] /\ told \in [Watched -> [Listeners -> Values]]
      /\ callbacks \in [Params -> Seq(Callback)] /\ walks \in Seq(WalkRecord)
  BY DEF CallInvariant, CallTypes
<1>2. c \in WalkRecord /\ c.param = p /\ c.who = NoListener  BY DEF WalkRecord
<1>3. IF ofContainer THEN walks' = Append(walks, c) ELSE walks' = walks
  BY DEF visual_param_entry_changed
<1> HIDE DEF c
<1>4. /\ Len(walks) \in Nat /\ Len(walks') \in Nat /\ walks' \in Seq(WalkRecord)
      /\ Len(walks) <= Len(walks') /\ \A w \in 1..Len(walks) : walks'[w] = walks[w]
      /\ \A w \in 1..Len(walks') : w \in 1..Len(walks) \/ walks'[w] = c
      /\ ofContainer => Len(walks') \in 1..Len(walks') /\ walks'[Len(walks')] = c
  <2>1. CASE ofContainer
    <3>1. walks' = Append(walks, c)  BY <1>3, <2>1
    <3> QED BY <1>1, <1>2, <3>1
  <2>2. CASE ~ofContainer  BY <1>1, <1>3, <2>2
  <2> QED BY <2>1, <2>2
<1>5. <<>> \in Seq(Callback) /\ Len(<<>>) = 0  OBVIOUS
<1>6. /\ callbacks' \in [Params -> Seq(Callback)]
      /\ \A q \in Params : callbacks'[q] = callbacks[q] \/ (q = p /\ callbacks'[q] = <<>>)
  BY <1>1, <1>5
<1>7. CallTypes'  BY <1>1, <1>4, <1>6 DEF CallTypes
<1>8. \A q \in Params : Stacked(callbacks'[q]) /\ EachOnce(callbacks'[q])
  <2>1. Stacked(<<>>) /\ EachOnce(<<>>)  BY <1>5 DEF Stacked, EachOnce
  <2> QED BY <1>6, <2>1 DEF CallInvariant
<1>9. ASSUME NEW w \in 1..Len(walks') PROVE Stands(callbacks', walks'[w])
  <2>1. CASE walks'[w] = c  BY <1>2, <2>1 DEF Stands
  <2>2. CASE w \in 1..Len(walks)
    <3>1. callbacks' = callbacks  BY <1>5, <2>2
    <3> QED BY <1>4, <2>2, <3>1 DEF CallInvariant
  <2> QED BY <1>4, <2>1, <2>2
<1>10. ASSUME NEW q \in Watched \cap parent'
       PROVE  TellsAll(callbacks'[q], told'[q], value'[q], walks', q)
  <2>1. q \in Params  BY ParamsAssumption DEF Params, Announcing
  <2>2. CASE q = p
    <3>1. Len(walks') \in 1..Len(walks') /\ walks'[Len(walks')] = c  BY <1>4, <2>2
    <3> QED BY <1>2, <1>4, <2>2, <3>1, BeginningTellsAll
  <2>3. CASE q # p
    <3>1. callbacks'[q] = callbacks[q] /\ value'[q] = value[q] /\ q \in parent
      BY <1>1, <1>6, <2>1, <2>3
    <3>2. TellsAll(callbacks[q], told[q], value[q], walks, q)
      BY <3>1 DEF CallInvariant, ToldOrAwaited
    <3>3. callbacks[q] \in Seq(Callback)  BY <1>1, <2>1
    <3> QED BY <1>1, <1>4, <3>1, <3>2, <3>3, TellsAllStays
  <2> QED BY <2>2, <2>3
<1> QED BY <1>7, <1>8, <1>9, <1>10 DEF CallInvariant, ToldOrAwaited

LEMMA SetIsTold ==
    ASSUME CallInvariant, NEW p \in Announcing, NEW v \in Values,
           visual_param_entry_set_from_param(p, v),
           UNCHANGED <<parent, callbacks, told>>, copying' \in 0..Len(Source)
    PROVE  CallInvariant'
<1>1. p \in Params  BY DEF Params, Announcing
<1>2. CASE p \in Scalars /\ value[p] = v
  <2>1. UNCHANGED <<value, walks>>  BY <1>2 DEF visual_param_entry_set_from_param
  <2> QED BY <2>1 DEF CallInvariant, CallTypes, ToldOrAwaited
<1>3. CASE ~(p \in Scalars /\ value[p] = v)
  <2>1. value' = [value EXCEPT ![p] = v] /\ visual_param_entry_changed(p, p \in parent, FALSE)
    BY <1>3 DEF visual_param_entry_set_from_param, Assign
  <2>2. CASE p \in parent
    <3>1. visual_param_entry_changed(p, TRUE, FALSE)
      BY <2>1, <2>2 DEF visual_param_entry_changed
    <3> QED BY <1>1, <2>1, <2>2, <3>1, ChangeIsTold
  <2>3. CASE p \notin parent
    <3>1. visual_param_entry_changed(p, FALSE, FALSE)
      BY <2>1, <2>3 DEF visual_param_entry_changed
    <3> QED BY <1>1, <2>1, <2>3, <3>1, ChangeIsTold
  <2> QED BY <2>2, <2>3
<1> QED BY <1>2, <1>3

\* A callback that is added is given the value its entry has.
LEMMA AddIsTold ==
    ASSUME CallInvariant, NEW p \in Watched, NEW who \in Listeners,
           visual_param_entry_add_callback(p, who)
    PROVE  CallInvariant'
<1> DEFINE list == callbacks[p]
           more == WithCallback(list, who)
<1>1. /\ value \in [Params -> Values] /\ told \in [Watched -> [Listeners -> Values]]
      /\ callbacks \in [Params -> Seq(Callback)] /\ walks \in Seq(WalkRecord)
      /\ copying \in 0..Len(Source) /\ p \in Params /\ Watched \subseteq Params
  BY ParamsAssumption DEF CallInvariant, CallTypes, Params, Announcing
<1>2. /\ callbacks' = [callbacks EXCEPT ![p] = more] /\ Positions(list, who) = {}
      /\ told' = [told EXCEPT ![p][who] = value[p]]
      /\ UNCHANGED <<value, parent, walks, copying>>
  BY DEF visual_param_entry_add_callback, HasCallback, WithCallback
<1>3. list \in Seq(Callback) /\ Stacked(list) /\ EachOnce(list)
  BY <1>1 DEF CallInvariant
<1> HIDE DEF list
<1>4. /\ more \in Seq(Callback) /\ Stacked(more) /\ EachOnce(more)
      /\ Len(more) = Len(list) + 1 /\ more[Len(list) + 1].who = who
      /\ \A i \in 1..Len(list) : more[i] = list[i] /\ list[i].who # who
  BY <1>2, <1>3, AddToStack
<1> HIDE DEF more
<1>5. /\ callbacks' \in [Params -> Seq(Callback)] /\ callbacks'[p] = more
      /\ \A q \in Params : q # p => callbacks'[q] = callbacks[q]
  BY <1>1, <1>2, <1>4
<1>6. /\ told' \in [Watched -> [Listeners -> Values]] /\ told'[p][who] = value[p]
      /\ \A q \in Watched : q # p => told'[q] = told[q]
      /\ \A l \in Listeners : l # who => told'[p][l] = told[p][l]
  BY <1>1, <1>2
<1>7. CallTypes'  BY <1>1, <1>2, <1>5, <1>6 DEF CallTypes
<1>8. ASSUME NEW q \in Params PROVE Stacked(callbacks'[q]) /\ EachOnce(callbacks'[q])
  BY <1>4, <1>5 DEF CallInvariant
<1>9. ASSUME NEW w \in 1..Len(walks) PROVE Stands(callbacks', walks[w])
  <2>1. walks[w] \in WalkRecord  BY <1>1
  <2>3. walks[w].param \in Params  BY <2>1 DEF WalkRecord
  <2>4. Stands(callbacks, walks[w])  BY DEF CallInvariant
  <2>2. Positions(list, walks[w].who) \subseteq Positions(more, walks[w].who)
    <3>1. Len(list) \in Nat  BY <1>3
    <3> QED BY <1>4, <3>1 DEF Positions
  <2> QED BY <1>5, <2>2, <2>3, <2>4 DEF Stands, list
<1>10. ASSUME NEW q \in Watched \cap parent
       PROVE  TellsAll(callbacks'[q], told'[q], value[q], walks, q)
  <2>1. TellsAll(callbacks[q], told[q], value[q], walks, q)
    BY DEF CallInvariant, ToldOrAwaited
  <2>2. CASE q # p  BY <1>1, <1>5, <1>6, <2>1, <2>2
  <2>3. CASE q = p
    <3> SUFFICES ASSUME NEW i \in 1..Len(more)
                 PROVE  told'[p][more[i].who] = value[p] \/ Awaited(more, walks, p, i)
      BY <1>5, <2>3 DEF TellsAll
    <3>1. Len(list) \in Nat  BY <1>3
    <3>2. CASE i = Len(list) + 1  BY <1>4, <1>6, <3>2
    <3>3. CASE i \in 1..Len(list)
      <4>1. told[p][list[i].who] = value[p] \/ Awaited(list, walks, p, i)
        BY <2>1, <2>3, <3>3 DEF TellsAll, list
      <4>2. more[i] = list[i] /\ list[i].who # who  BY <1>4, <3>3
      <4>6. list[i] \in Callback  BY <1>3, <3>3
      <4>7. list[i].who \in Listeners  BY <4>6 DEF Callback
      <4>3. i \in Nat /\ \A j \in 1..i - 1 : more[j] = list[j]  BY <1>4, <3>1, <3>3
      <4>4. Len(walks) <= Len(walks)  BY <1>1
      <4>5. Awaited(list, walks, p, i) => Awaited(more, walks, p, i)
        BY <1>1, <4>3, <4>4, AwaitedStays
      <4> QED BY <1>6, <4>1, <4>2, <4>5, <4>7
    <3> QED BY <1>4, <3>1, <3>2, <3>3
  <2> QED BY <2>2, <2>3
<1> QED BY <1>2, <1>7, <1>8, <1>9, <1>10 DEF CallInvariant, ToldOrAwaited

\* The newest callback goes, when no walk stands on it.
LEMMA RemoveIsTold ==
    ASSUME CallInvariant, LastFirst, NEW p \in Watched, NEW who \in Listeners,
           visual_param_entry_remove_callback(p, who)
    PROVE  CallInvariant'
<1> DEFINE list == callbacks[p]
           less == WithoutCallback(list, who)
<1>1. /\ value \in [Params -> Values] /\ told \in [Watched -> [Listeners -> Values]]
      /\ callbacks \in [Params -> Seq(Callback)] /\ walks \in Seq(WalkRecord)
      /\ copying \in 0..Len(Source) /\ p \in Params /\ Watched \subseteq Params
  BY ParamsAssumption DEF CallInvariant, CallTypes, Params, Announcing
<1>2. /\ callbacks' = [callbacks EXCEPT ![p] = less] /\ Positions(list, who) # {}
      /\ told' = [told EXCEPT ![p][who] = Zeroed] /\ list[Len(list)].who = who
      /\ UNCHANGED <<value, parent, walks, copying>>
  BY DEF visual_param_entry_remove_callback, HasCallback, WithoutCallback
<1>3. list \in Seq(Callback) /\ Stacked(list) /\ EachOnce(list)
  BY <1>1 DEF CallInvariant
<1>4. ~BeingCalled(p, who)  BY DEF visual_param_entry_remove_callback
<1> HIDE DEF list
<1>5. /\ less \in Seq(Callback) /\ Stacked(less) /\ EachOnce(less)
      /\ Len(less) = Len(list) - 1 /\ Len(list) \in Nat \ {0}
      /\ \A i \in 1..Len(less) : less[i] = list[i] /\ less[i].who # who
  BY <1>2, <1>3, RemoveFromStack
<1> HIDE DEF less
<1>6. /\ callbacks' \in [Params -> Seq(Callback)] /\ callbacks'[p] = less
      /\ \A q \in Params : q # p => callbacks'[q] = callbacks[q]
  BY <1>1, <1>2, <1>5
<1>7. Zeroed \in Values  BY ParamsAssumption DEF Zeroed
<1>8. /\ told' \in [Watched -> [Listeners -> Values]]
      /\ \A q \in Watched : q # p => told'[q] = told[q]
      /\ \A l \in Listeners : l # who => told'[p][l] = told[p][l]
  BY <1>1, <1>2, <1>7
<1>9. CallTypes'  BY <1>1, <1>2, <1>6, <1>8 DEF CallTypes
<1>10. ASSUME NEW q \in Params PROVE Stacked(callbacks'[q]) /\ EachOnce(callbacks'[q])
  BY <1>5, <1>6 DEF CallInvariant
<1>11. ASSUME NEW w \in 1..Len(walks) PROVE Stands(callbacks', walks[w])
  <2>1. walks[w] \in WalkRecord  BY <1>1
  <2>2. walks[w].param \in Params  BY <2>1 DEF WalkRecord
  <2>3. Stands(callbacks, walks[w])  BY DEF CallInvariant
  <2>4. CASE walks[w].param # p  BY <1>6, <2>2, <2>3, <2>4 DEF Stands
  <2>5. CASE walks[w].param = p
    <3> SUFFICES ASSUME walks[w].who # NoListener
                 PROVE  Positions(less, walks[w].who) # {}
      BY <1>6, <2>5 DEF Stands
    <3>1. walks[w].who # who  BY <1>4, <2>5 DEF BeingCalled
    <3>2. PICK j \in 1..Len(list) : list[j].who = walks[w].who
      BY <2>3, <2>5 DEF Stands, Positions, list
    <3>3. j # Len(list)  BY <1>2, <3>1, <3>2
    <3>4. j \in 1..Len(less)  BY <1>5, <3>3
    <3> QED BY <1>5, <3>2, <3>4 DEF Positions
  <2> QED BY <2>4, <2>5
<1>12. ASSUME NEW q \in Watched \cap parent
       PROVE  TellsAll(callbacks'[q], told'[q], value[q], walks, q)
  <2>1. TellsAll(callbacks[q], told[q], value[q], walks, q)
    BY DEF CallInvariant, ToldOrAwaited
  <2>2. CASE q # p  BY <1>1, <1>6, <1>8, <2>1, <2>2
  <2>3. CASE q = p
    <3> SUFFICES ASSUME NEW i \in 1..Len(less)
                 PROVE  told'[p][less[i].who] = value[p] \/ Awaited(less, walks, p, i)
      BY <1>6, <2>3 DEF TellsAll
    <3>1. i \in 1..Len(list)  BY <1>5
    <3>2. told[p][list[i].who] = value[p] \/ Awaited(list, walks, p, i)
      BY <2>1, <2>3, <3>1 DEF TellsAll, list
    <3>3. less[i] = list[i] /\ less[i].who # who  BY <1>5
    <3>4. less[i] \in Callback  BY <1>5
    <3>5. less[i].who \in Listeners  BY <3>4 DEF Callback
    <3>6. i \in Nat /\ \A j \in 1..i - 1 : less[j] = list[j]  BY <1>5
    <3>7. Len(walks) <= Len(walks)  BY <1>1
    <3>8. Awaited(list, walks, p, i) => Awaited(less, walks, p, i)
      BY <1>1, <3>6, <3>7, AwaitedStays
    <3> QED BY <1>8, <3>2, <3>3, <3>5, <3>8
  <2> QED BY <2>2, <2>3
<1> QED BY <1>2, <1>9, <1>10, <1>11, <1>12 DEF CallInvariant, ToldOrAwaited

\* The cursor of a walk, and the walks when the innermost one has moved on.
Cursor(list, walk) ==
    IF walk.who = NoListener THEN NoEntry ELSE CHOOSE i \in Positions(list, walk.who) : TRUE
MovedOn(running, who) == [running EXCEPT ![Len(running)].who = who]
ToldNow(knows, p, who, v) == [knows EXCEPT ![p][who] = v]

\* The innermost walk, the list it walks over and the next entry of the list.
Innermost(walk, list, next) ==
    /\ walks # <<>> /\ walk = walks[Len(walks)] /\ list = callbacks[walk.param]
    /\ next = visual_list_next(list, Cursor(list, walk))

LEMMA CursorOf ==
    ASSUME NEW list \in Seq(Callback), EachOnce(list), NEW lists, NEW walk,
           lists[walk.param] = list, Stands(lists, walk)
    PROVE  /\ Cursor(list, walk) \in 0..Len(list) /\ Len(list) \in Nat
           /\ walk.who = NoListener => Cursor(list, walk) = 0
           /\ \A i \in 1..Len(list) : Ahead(list, walk, i) <=> Cursor(list, walk) < i
<1>1. Len(list) \in Nat  OBVIOUS
<1>2. CASE walk.who = NoListener  BY <1>1, <1>2 DEF Cursor, NoEntry, Ahead
<1>3. CASE walk.who # NoListener
  <2>1. PICK j \in 1..Len(list) : list[j].who = walk.who
    BY <1>3 DEF Stands, Positions
  <2>2. Cursor(list, walk) = j
    <3>1. Cursor(list, walk) = CHOOSE i \in Positions(list, list[j].who) : TRUE
      BY <1>3, <2>1 DEF Cursor
    <3> QED BY <3>1, PlaceOf
  <2>3. \A i \in 1..Len(list) : list[i].who = walk.who => i = j  BY <2>1 DEF EachOnce
  <2> QED BY <1>1, <1>3, <2>1, <2>2, <2>3 DEF Ahead
<1> QED BY <1>2, <1>3

LEMMA MovedOnWalks ==
    ASSUME NEW running \in Seq(WalkRecord), running # <<>>, NEW who \in Listeners
    PROVE  LET n == Len(running)
               moved == MovedOn(running, who)
           IN  /\ moved \in Seq(WalkRecord) /\ Len(moved) = n
               /\ \A w \in 1..n : w # n => moved[w] = running[w]
               /\ moved[n].who = who /\ moved[n].param = running[n].param
<1> DEFINE n == Len(running)
           last == [running[n] EXCEPT !.who = who]
<1>1. n \in 1..n /\ running[n] \in WalkRecord  OBVIOUS
<1>2. last \in WalkRecord /\ last.who = who /\ last.param = running[n].param
  BY <1>1 DEF WalkRecord
<1>3. MovedOn(running, who) = [running EXCEPT ![n] = last]  BY DEF MovedOn
<1> HIDE DEF last
<1>4. [running EXCEPT ![n] = last] \in Seq(WalkRecord)  BY <1>1, <1>2
<1> QED BY <1>1, <1>2, <1>3, <1>4

LEMMA ToldNowKnows ==
    ASSUME NEW knows \in [Watched -> [Listeners -> Values]],
           NEW p, NEW who \in Listeners, NEW v \in Values
    PROVE  LET now == ToldNow(knows, p, who, v)
           IN  /\ now \in [Watched -> [Listeners -> Values]]
               /\ \A q \in Watched : q # p => now[q] = knows[q]
               /\ p \in Watched => now[p][who] = v
               /\ p \in Watched => \A l \in Listeners : l # who => now[p][l] = knows[p][l]
BY DEF ToldNow

\* The innermost walk has called everybody, and returns.
LEMMA WalkReturns ==
    ASSUME CallInvariant, NEW walk, NEW list, Innermost(walk, list, NoEntry),
           walks' = Front(walks),
           UNCHANGED <<value, parent, callbacks, told, copying>>
    PROVE  CallInvariant'
<1> DEFINE n == Len(walks)
<1>1. /\ callbacks \in [Params -> Seq(Callback)] /\ walks \in Seq(WalkRecord)
      /\ Watched \subseteq Params
  BY ParamsAssumption DEF CallInvariant, CallTypes, Params, Announcing
<1>2. n \in Nat \ {0} /\ walk = walks[n] /\ walk \in WalkRecord /\ n \in 1..n
  BY <1>1 DEF Innermost
<1>9. list = callbacks[walk.param]  BY DEF Innermost
<1>3. /\ walks' \in Seq(WalkRecord) /\ Len(walks') = n - 1
      /\ \A w \in 1..n - 1 : walks'[w] = walks[w]
  BY <1>1, <1>2, FrontOf
<1>4. CallTypes'  BY <1>3 DEF CallInvariant, CallTypes
<1>5. \A w \in 1..Len(walks') : Stands(callbacks', walks'[w])
  BY <1>2, <1>3 DEF CallInvariant
<1>6. list \in Seq(Callback) /\ EachOnce(list) /\ Stands(callbacks, walk)
  <2>1. walk.param \in Params  BY <1>2 DEF WalkRecord
  <2>2. n \in 1..Len(walks)  BY <1>2
  <2> QED BY <1>1, <1>2, <1>9, <2>1, <2>2 DEF CallInvariant
<1>7. \A i \in 1..Len(list) : ~Ahead(list, walk, i)
  <2>1. /\ Cursor(list, walk) \in 0..Len(list) /\ Len(list) \in Nat
        /\ \A i \in 1..Len(list) : Ahead(list, walk, i) <=> Cursor(list, walk) < i
    BY <1>6, <1>9, CursorOf
  <2>2. ~(Cursor(list, walk) < Len(list))
    BY <2>1 DEF Innermost, visual_list_next, NoEntry
  <2> QED BY <2>1, <2>2
<1>8. ASSUME NEW q \in Watched \cap parent
      PROVE  TellsAll(callbacks[q], told[q], value[q], walks', q)
  <2> SUFFICES ASSUME NEW i \in 1..Len(callbacks[q])
               PROVE  \/ told[q][callbacks[q][i].who] = value[q]
                      \/ Awaited(callbacks[q], walks', q, i)
    BY DEF TellsAll
  <2>1. told[q][callbacks[q][i].who] = value[q] \/ Awaited(callbacks[q], walks, q, i)
    BY DEF CallInvariant, ToldOrAwaited, TellsAll
  <2>2. ASSUME Awaited(callbacks[q], walks, q, i) PROVE Awaited(callbacks[q], walks', q, i)
    <3>1. PICK w \in 1..n : walks[w].param = q /\ Ahead(callbacks[q], walks[w], i)
      BY <2>2 DEF Awaited
    <3>2. w # n  BY <1>2, <1>7, <1>9, <3>1
    <3>3. w \in 1..n - 1  BY <1>2, <3>2
    <3> QED BY <1>3, <3>1, <3>3 DEF Awaited
  <2> QED BY <2>1, <2>2
<1> QED BY <1>4, <1>5, <1>8 DEF CallInvariant, ToldOrAwaited

\* The innermost walk goes on, and tells the next callback.
LEMMA WalkGoesOn ==
    ASSUME CallInvariant, NEW walk, NEW list, NEW next,
           Innermost(walk, list, next), next # NoEntry,
           walks' = MovedOn(walks, list[next].who),
           told' = ToldNow(told, walk.param, list[next].who, value[walk.param]),
           UNCHANGED <<value, parent, callbacks, copying>>
    PROVE  CallInvariant'
<1> DEFINE n == Len(walks)
           p == walk.param
           who == list[next].who
<1>1. /\ callbacks \in [Params -> Seq(Callback)] /\ walks \in Seq(WalkRecord)
      /\ value \in [Params -> Values] /\ told \in [Watched -> [Listeners -> Values]]
      /\ Watched \subseteq Params
  BY ParamsAssumption DEF CallInvariant, CallTypes, Params, Announcing
<1>2. n \in Nat \ {0} /\ walk = walks[n] /\ walk \in WalkRecord /\ n \in 1..n
  BY <1>1 DEF Innermost
<1>16. list = callbacks[p] /\ walks # <<>>  BY DEF Innermost
<1>17. walks' = MovedOn(walks, who) /\ told' = ToldNow(told, p, who, value[p])  OBVIOUS
<1>3. p \in Params  BY <1>2 DEF WalkRecord
<1>4. list \in Seq(Callback) /\ EachOnce(list) /\ Stands(callbacks, walk)
  BY <1>1, <1>2, <1>3, <1>16 DEF CallInvariant
<1>5. /\ Cursor(list, walk) \in 0..Len(list) /\ Len(list) \in Nat
      /\ \A i \in 1..Len(list) : Ahead(list, walk, i) <=> Cursor(list, walk) < i
  BY <1>4, <1>16, CursorOf
<1>6. next = Cursor(list, walk) + 1 /\ next \in 1..Len(list)
  <2>1. next = IF Cursor(list, walk) < Len(list) THEN Cursor(list, walk) + 1 ELSE 0
    BY DEF Innermost, visual_list_next, NoEntry
  <2>2. next # 0  BY DEF NoEntry
  <2> QED BY <1>5, <2>1, <2>2
<1>7. list[next] \in Callback  BY <1>4, <1>6
<1>8. who \in Listeners /\ who # NoListener  BY <1>7, ParamsAssumption DEF Callback
<1> HIDE DEF p, who
<1>9. \A i \in 1..Len(list) : Ahead(list, walk, i) => i = next \/ next \in 1..i - 1
  BY <1>5, <1>6
<1>10. /\ walks' \in Seq(WalkRecord) /\ Len(walks') = n
       /\ \A w \in 1..n : w # n => walks'[w] = walks[w]
       /\ walks'[n].who = who /\ walks'[n].param = p
  <2> DEFINE moved == MovedOn(walks, who)
  <2>2. /\ moved \in Seq(WalkRecord) /\ Len(moved) = n
        /\ \A w \in 1..n : w # n => moved[w] = walks[w]
        /\ moved[n].who = who /\ moved[n].param = walks[n].param
    BY <1>1, <1>8, <1>16, MovedOnWalks
  <2>3. walks' = moved  BY <1>17
  <2> HIDE DEF moved
  <2>4. walks[n].param = p  BY <1>2 DEF p
  <2> QED BY <2>2, <2>3, <2>4
<1>11. /\ told' \in [Watched -> [Listeners -> Values]]
       /\ \A q \in Watched : q # p => told'[q] = told[q]
       /\ p \in Watched => told'[p][who] = value[p]
       /\ p \in Watched => \A l \in Listeners : l # who => told'[p][l] = told[p][l]
  <2>1. value[p] \in Values  BY <1>1, <1>3
  <2> DEFINE v == value[p]
             now == ToldNow(told, p, who, v)
  <2>2. /\ now \in [Watched -> [Listeners -> Values]]
        /\ \A q \in Watched : q # p => now[q] = told[q]
        /\ p \in Watched => now[p][who] = v
        /\ p \in Watched => \A l \in Listeners : l # who => now[p][l] = told[p][l]
    <3> HIDE DEF v
    <3>1. told \in [Watched -> [Listeners -> Values]] /\ v \in Values  BY <1>1, <2>1 DEF v
    <3> QED BY <1>8, <3>1, ToldNowKnows
  <2>3. told' = now  BY <1>17
  <2> HIDE DEF now
  <2> QED BY <2>2, <2>3
<1>12. CallTypes'  BY <1>10, <1>11 DEF CallInvariant, CallTypes
<1>13. ASSUME NEW w \in 1..n PROVE Stands(callbacks, walks'[w])
  <2>1. CASE w # n  BY <1>10, <2>1 DEF CallInvariant
  <2>2. CASE w = n
    <3>1. next \in Positions(list, who)  BY <1>6 DEF Positions, who
    <3> QED BY <1>10, <1>16, <2>2, <3>1 DEF Stands
  <2> QED BY <2>1, <2>2
<1>14. ASSUME NEW q \in Watched \cap parent
       PROVE  TellsAll(callbacks[q], told'[q], value[q], walks', q)
  <2> SUFFICES ASSUME NEW i \in 1..Len(callbacks[q])
               PROVE  \/ told'[q][callbacks[q][i].who] = value[q]
                      \/ Awaited(callbacks[q], walks', q, i)
    BY DEF TellsAll
  <2>1. told[q][callbacks[q][i].who] = value[q] \/ Awaited(callbacks[q], walks, q, i)
    BY DEF CallInvariant, ToldOrAwaited, TellsAll
  <2>2. callbacks[q] \in Seq(Callback)
    <3>1. q \in Params  BY <1>1
    <3> QED BY <1>1, <3>1
  <2>3. callbacks[q][i].who \in Listeners
    <3>1. callbacks[q][i] \in Callback  BY <2>2
    <3> QED BY <3>1 DEF Callback
  <2>4. CASE told[q][callbacks[q][i].who] = value[q]
    <3>1. CASE q = p  BY <1>11, <2>3, <2>4, <3>1
    <3>2. CASE q # p  BY <1>11, <2>4, <3>2
    <3> QED BY <3>1, <3>2
  <2>5. CASE Awaited(callbacks[q], walks, q, i)
    <3>1. PICK w \in 1..n : walks[w].param = q /\ Ahead(callbacks[q], walks[w], i)
      BY <2>5 DEF Awaited
    <3>2. CASE w # n  BY <1>10, <3>1, <3>2 DEF Awaited
    <3>3. CASE w = n
      <4>1. q = p /\ i \in 1..Len(list) /\ Ahead(list, walk, i)  BY <1>2, <1>16, <3>1, <3>3 DEF p
      <4>2. CASE i = next  BY <1>11, <1>16, <4>1, <4>2 DEF who
      <4>3. CASE next \in 1..i - 1
        <5>1. Ahead(list, walks'[n], i)  BY <1>10, <4>3 DEF Ahead, who
        <5> QED BY <1>2, <1>10, <1>16, <4>1, <5>1 DEF Awaited
      <4> QED BY <1>9, <4>1, <4>2, <4>3
    <3> QED BY <3>2, <3>3
  <2> QED BY <2>1, <2>4, <2>5
<1>15. \A w \in 1..Len(walks') : Stands(callbacks', walks'[w])  BY <1>10, <1>13
<1> QED BY <1>12, <1>14, <1>15 DEF CallInvariant, ToldOrAwaited

LEMMA NotifyIsTold ==
    ASSUME CallInvariant, visual_param_entry_notify_callbacks
    PROVE  CallInvariant'
<1> DEFINE walk == walks[Len(walks)]
           list == callbacks[walk.param]
           next == visual_list_next(list, Cursor(list, walk))
<1>1. Innermost(walk, list, next)
  BY DEF Innermost, visual_param_entry_notify_callbacks
<1>2. UNCHANGED <<value, parent, callbacks, copying>>
  BY DEF visual_param_entry_notify_callbacks
<1>3. CASE next = NoEntry
  <2>1. walks' = Front(walks) /\ told' = told
    BY <1>3, Zenon DEF visual_param_entry_notify_callbacks, Cursor
  <2>2. Innermost(walk, list, NoEntry)  BY <1>1, <1>3
  <2> HIDE DEF walk, list
  <2> QED BY <1>2, <2>1, <2>2, WalkReturns
<1>4. CASE next # NoEntry
  <2>1. /\ walks' = MovedOn(walks, list[next].who)
        /\ told' = ToldNow(told, walk.param, list[next].who, value[walk.param])
    BY <1>4, Zenon DEF visual_param_entry_notify_callbacks, Cursor, MovedOn, ToldNow
  <2> HIDE DEF walk, list, next
  <2> QED BY <1>1, <1>2, <1>4, <2>1, WalkGoesOn
<1> QED BY <1>3, <1>4

\* One entry of the other container: a new entry has no callbacks.
LEMMA CopyIsTold ==
    ASSUME CallInvariant, visual_param_container_copy
    PROVE  CallInvariant'
<1> DEFINE p == Source[copying][1]
           v == Source[copying][2]
<1>1. Len(Source) \in Nat /\ copying \in 1..Len(Source)
  <2>1. Len(Source) \in Nat  BY ParamsAssumption
  <2>2. copying \in 0..Len(Source) /\ copying # 0
    BY DEF CallInvariant, CallTypes, visual_param_container_copy, NoCopy
  <2> QED BY <2>1, <2>2
<1>2. p \in Announcing /\ p \in Params /\ v \in Values
  BY <1>1, SourceTyped DEF Params, Announcing
<1>3. copying' \in 0..Len(Source) /\ walks = <<>> /\ told' = told
  <2>1. copying' = visual_list_next(Source, copying) /\ walks = <<>> /\ told' = told
    BY DEF visual_param_container_copy
  <2> QED BY <1>1, <2>1 DEF visual_list_next, NoEntry
<1>4. CASE p \in Range(entries)
  <2>1. visual_param_entry_set_from_param(p, v) /\ UNCHANGED <<parent, callbacks>>
    BY <1>4 DEF visual_param_container_copy
  <2> HIDE DEF p, v
  <2> QED BY <1>2, <1>3, <2>1, SetIsTold
<1>5. CASE p \notin Range(entries)
  <2>1. /\ value' = [value EXCEPT ![p] = v] /\ parent' = parent \cup {p}
        /\ callbacks' = [callbacks EXCEPT ![p] = <<>>]
        /\ visual_param_entry_changed(p, TRUE, TRUE)
    BY <1>5 DEF visual_param_container_copy
  <2> HIDE DEF p, v
  <2>2. parent' \ {p} = parent \ {p} /\ p \in parent'  BY <2>1
  <2> QED BY <1>2, <1>3, <2>1, <2>2, ChangeIsTold
<1> QED BY <1>4, <1>5

LEMMA InitTold == Init => CallInvariant
<1> SUFFICES ASSUME Init PROVE CallInvariant  OBVIOUS
<1>1. Zeroed \in Values /\ Source \in Seq(Announcing \X Values)
  BY ParamsAssumption DEF Zeroed
<1>2. value \in [Params -> Values] /\ told \in [Watched -> [Listeners -> Values]]
  BY <1>1 DEF Init
<1>3. /\ <<>> \in Seq(Callback) /\ <<>> \in Seq(WalkRecord) /\ Len(<<>>) = 0
      /\ Len(Source) \in Nat
  BY <1>1
<1>4. /\ callbacks \in [Params -> Seq(Callback)] /\ \A p \in Params : callbacks[p] = <<>>
      /\ walks = <<>> /\ parent = {} /\ copying \in 0..Len(Source)
  BY <1>3 DEF Init, NoCopy
<1>5. Stacked(<<>>) /\ EachOnce(<<>>)  BY <1>3 DEF Stacked, EachOnce
<1> QED BY <1>2, <1>3, <1>4, <1>5 DEF CallInvariant, CallTypes, ToldOrAwaited

LEMMA NextTold ==
    ASSUME LastFirst, CallInvariant, [Next]_vars
    PROVE  CallInvariant'
<1>1. /\ value \in [Params -> Values] /\ callbacks \in [Params -> Seq(Callback)]
      /\ copying \in 0..Len(Source)
  BY DEF CallInvariant, CallTypes
<1>2. CASE UNCHANGED <<value, parent, callbacks, told, walks>> /\ copying' \in 0..Len(Source)
  BY <1>2 DEF CallInvariant, CallTypes, ToldOrAwaited
<1>3. ASSUME NEW p \in Announcing, NEW v \in Values, visual_param_entry_set(p, v)
      PROVE  CallInvariant'
  BY <1>1, <1>3, SetIsTold DEF visual_param_entry_set
<1>4. ASSUME NEW p \in Collections, NEW v \in Values, visual_param_entry_set_collection(p, v)
      PROVE  CallInvariant'
  <2>1. value' = [value EXCEPT ![p] = v] /\ UNCHANGED <<parent, callbacks, told, walks, copying>>
    BY <1>4 DEF visual_param_entry_set_collection
  <2>2. value' \in [Params -> Values]  BY <1>1, <2>1
  <2>3. \A q \in Watched : value'[q] = value[q]
    <3>1. \A q \in Watched : q # p /\ q \in Params
      BY ParamsAssumption, KindsAssumption DEF Params, Announcing
    <3> QED BY <1>1, <2>1, <3>1
  <2>4. CallTypes' /\ ToldOrAwaited'
    BY <2>1, <2>2, <2>3 DEF CallInvariant, CallTypes, ToldOrAwaited
  <2> QED BY <2>1, <2>4 DEF CallInvariant
<1>5. ASSUME NEW p \in Params, visual_param_container_add(p) PROVE CallInvariant'
  <2>1. /\ parent' = parent \cup {p} /\ visual_param_entry_changed(p, TRUE, TRUE)
        /\ UNCHANGED <<value, callbacks, told, copying>>
    BY <1>5 DEF visual_param_container_add
  <2>2. value' = [value EXCEPT ![p] = value[p]] /\ value[p] \in Values  BY <1>1, <2>1
  <2>3. parent' \ {p} = parent \ {p} /\ p \in parent' /\ copying' \in 0..Len(Source)
    BY <1>1, <2>1
  <2> QED BY <2>1, <2>2, <2>3, ChangeIsTold
<1>6. ASSUME NEW p \in Params, visual_param_container_remove(p) PROVE CallInvariant'
  BY <1>1, <1>2, <1>6 DEF visual_param_container_remove
<1>7. ASSUME NEW p \in Watched, NEW who \in Listeners,
             visual_param_entry_add_callback(p, who)
      PROVE  CallInvariant'
  BY <1>7, AddIsTold
<1>8. ASSUME NEW p \in Watched, NEW who \in Listeners,
             visual_param_entry_remove_callback(p, who)
      PROVE  CallInvariant'
  BY <1>8, RemoveIsTold
<1>9. CASE BeginCopy
  <2>1. Len(Source) \in Nat /\ Len(Source) # 0
    <3>1. Source \in Seq(Announcing \X Values)  BY ParamsAssumption
    <3>2. Source # <<>>  BY <1>9 DEF BeginCopy
    <3> QED BY <3>1, <3>2
  <2>2. copying' \in 0..Len(Source)  BY <1>9, <2>1 DEF BeginCopy
  <2> QED BY <1>2, <1>9, <2>2 DEF BeginCopy
<1>10. CASE visual_param_container_set_eventqueue \/ SendOther \/ visual_plugin_events_pump
  BY <1>1, <1>2, <1>10
  DEF visual_param_container_set_eventqueue, SendOther, visual_plugin_events_pump
<1>11. CASE visual_param_entry_notify_callbacks  BY <1>11, NotifyIsTold
<1>12. CASE visual_param_container_copy  BY <1>12, CopyIsTold
<1>13. CASE UNCHANGED vars  BY <1>1, <1>2, <1>13 DEF vars
<1> QED BY <1>3, <1>4, <1>5, <1>6, <1>7, <1>8, <1>9, <1>10, <1>11, <1>12, <1>13
        DEF Next, Client, Library

LEMMA AlwaysTold ==
    ASSUME LastFirst
    PROVE  Spec => []CallInvariant
<1>1. Init => CallInvariant  BY InitTold
<1>2. CallInvariant /\ [Next]_vars => CallInvariant'  BY NextTold
<1> QED BY <1>1, <1>2, PTL DEF Spec

\* lv_param.c:351: when the outermost call returns, every callback of an entry
\* has been called with the value the entry has, for any number of callbacks
\* that set, add and remove while they run, to any depth.  Of the client it
\* takes what LastFirst says, that it removes the newest callback first.
THEOREM CallbacksLearn ==
    ASSUME LastFirst
    PROVE  Spec => []CallbacksKnow
<1>1. CallInvariant => CallbacksKnow
  <2> SUFFICES ASSUME CallInvariant, walks = <<>>,
                      NEW p \in Watched \cap parent, NEW i \in 1..Len(callbacks[p])
               PROVE  told[p][callbacks[p][i].who] = value[p]
    BY DEF CallbacksKnow
  <2>1. told[p][callbacks[p][i].who] = value[p] \/ Awaited(callbacks[p], walks, p, i)
    BY DEF CallInvariant, ToldOrAwaited, TellsAll
  <2>2. Len(walks) = 0  OBVIOUS
  <2>3. ~Awaited(callbacks[p], walks, p, i)  BY <2>2 DEF Awaited
  <2> QED BY <2>1, <2>3
<1> QED BY <1>1, AlwaysTold, PTL

\* lv_param.c:351: the entry that a walk over the callbacks stands on is not
\* freed by what the callbacks do, at any depth, when the client removes the
\* newest callback first and none that is being called.
THEOREM WalksNeverLost ==
    ASSUME LastFirst
    PROVE  Spec => []WalksStandOnEntries
<1>1. CallInvariant => WalksStandOnEntries
  BY DEF CallInvariant, WalksStandOnEntries, Stands, HasCallback
<1> QED BY <1>1, AlwaysTold, PTL

\* lv_param.c:95: the ids of an entry are all different while the client removes
\* its newest callback first; in any other order the search can give one out again.
THEOREM StackedIdsAreOriginal ==
    ASSUME LastFirst
    PROVE  Spec => []IdsAreOriginal
<1>1. CallInvariant => IdsAreOriginal
  <2> SUFFICES ASSUME CallInvariant, NEW p \in Params
               PROVE  \A i, j \in 1..Len(callbacks[p]) :
                          callbacks[p][i].id = callbacks[p][j].id => i = j
    BY DEF IdsAreOriginal
  <2> DEFINE list == callbacks[p]
  <2>1. list \in Seq(Callback) /\ Stacked(list)  BY DEF CallInvariant, CallTypes
  <2> HIDE DEF list
  <2>2. \A i, j \in 1..Len(list) : list[i].id = list[j].id => i = j
    <3>1. Len(list) \in Nat  BY <2>1
    <3> QED BY <2>1, <3>1 DEF Stacked
  <2> QED BY <2>2 DEF list
<1> QED BY <1>1, AlwaysTold, PTL
=============================================================================
