# A verification development for libvisual

TLA+ models of libvisual (`src/libvisual/libvisual`), the library that runs
visualisation plugins for audio players: what is modelled, what TLC checks on
small instances and what the TLA+ proof system proves for every instance.  File
names below are relative to `src/libvisual/libvisual/` unless they name another
directory.

## 1. The system

### 1.1 Components

| component | state it keeps | operations | correct when |
|---|---|---|---|
| **VisBin** (`lv_bin.c`) | actor on screen, actor to come, client's video, private video and the new actor's video of a switch, morph; depth flag, depth, old depth, "depth changed", "came from openGL", two forced depths; who owns what (`managed`, `actmorphmanaged`, `morphmanaged`); style and mode of the next switch | connect, realize, switch (by name, by pointer), finalize, sync, run, set depth, set video, settings | no pointer to a freed object is followed, nothing is lost, every plugin renders at a depth it supports, the screen, the bin and the client agree on the depth, a requested plugin gets on screen |
| **VisActor** (`lv_actor.c`) | plugin, video, private surfaces for depth transformation and size fitting | new, realize, set video, negotiate, run | the surface handed to the plugin suits the plugin and the video |
| **Depth flags** (`lv_video.c:373-503`) | none (pure functions) | is supported, is sane, next, previous, lowest, highest, highest without openGL | loops end and return a depth of the flag |
| **VisMorph** (`lv_morph.c`) | plugin, destination, rate, mode, steps, timer, palette | new, realize, set mode / rate / steps / time / video, run, requests audio, is done | a morph ends exactly when its mode says |
| **VisVideo, VisBuffer** (`lv_video.c`, `lv_buffer.c`) | pixels, pitch, parent of a sub-region, compositing | allocate, free, blit, convert, scale, rotate | regions stay inside buffers; a buffer has one owner |
| **VisObject** (`lv_object.c`) | reference count, destructor, "allocated" | initialise, ref, unref, destroy, free | destroyed once, at the last unref |
| **VisCollection, VisList** (`lv_collection.c`, `lv_list.c`) | linked entries, element destructor | add, insert, chain, unchain, delete, destroy elements, iterate | every element visited and destroyed once |
| **VisHashmap, VisHashlist** (`lv_hashmap.c`, `lv_hashlist.c`) | chains and their size; list plus index | put, get, remove, resize; add, remove | a key has one entry; list and index agree |
| **VisCache** (`lv_cache.c`, used by `lv_fourier.c`) | entries in a list by last request, an index by key, a limit | get, put, make room, destroy | no freed entry is used; what was put in is found until the limit is reached |
| **VisEventQueue** (`lv_event.c`) | list of events, last resize, pointer and button state, count | add, poll, poll by reference | bounded, in order, the last resize is the one delivered |
| **VisParam** (`lv_param.c`) | entries, values, callbacks with identifiers, event queue | set, compare, notify, add and remove callbacks | the plugin and every callback end up with the newest value; an identifier names one callback |
| **VisPlugin, registry, init and quit** (`lv_plugin.c`, `lv_plugin_registry.c`, `lv_libvisual.c`) | plugin list, paths, per-plugin use count, initialised flag | find, load, unload, realize, list, init, quit | references and uses add up over loads, unloads and quit; a non-reentrant plugin is loaded once; stepping reaches every actor |
| **VisRingBuffer, VisAudio** (`lv_ringbuffer.c`, `lv_audio.c`) | list of entries, sample pool with channels and ages | add, flush by age, read from an offset or from the end | reads return the bytes of the ring in order and the newest last; buffers are given back; a read ends |
| **VisBeat** (`lv_beat.c`) | history of beats, BPM confidence, prediction, stickiness | refine and predict, sliders | statistics follow the history |
| **VisTime, VisTimer** (`lv_time.c`) | start, stop, "active" | start, stop, continue, elapsed | elapsed excludes pauses |
| **VisRectangle** (`lv_rectangle.c`) | none (pure) | clip, within, merge, normalise | the clip is the intersection |
| **VisInput, VisTransform, VisSongInfo** | plugin and little else | wrappers of a plugin | |
| **VisThread, VisMutex** (`lv_thread.c`) | function table | wrappers of pthreads | |
| **VisConfig** (`lv_config.c`) | registry sections | open, write | unfinished in the code |
| **clients**: `examples/simple/libvisual.c`, `tools/lv-tool/lv-tool.c` | where they are in their loop, the display and its depth | set up, frame loop, resize, next actor, quit | follow the protocol the bin expects |
| plugins, AVS, numeric kernels | | | not considered |

### 1.2 How they interact

The client owns the frame loop and the video that is shown; the library starts no
thread.  It connects an actor to a bin, and per frame calls `visual_bin_run`.  The
bin runs its actor, which runs its plugin, into the video the bin has given it: the
client's (*screen*), or the *private video* while a morph mixes it with the video of
the *next* actor.  Objects point to each other without counting references, so the
bin's `managed` flags alone decide who frees what.

The depth of the screen is negotiated: the bin picks one that it and the actor support
(`visual_bin_set_depth`), raises `depthchanged`, and the client, when it next asks
(`visual_bin_depth_changed`), creates its display again and calls `visual_bin_sync`.
Between the two the library and the client disagree about the depth.  openGL is a
depth without pixels and special everywhere: it is never mixed in a morph, and going
into it or out of it forces the client to sync.

A morph is a record that the bin sets up at each switch, runs once per frame and asks
whether it is done.  The answer finalizes the switch, and asking changes the morph.  A morph that
the bin made by name dies with the switch; one that the client set is used again.

An event goes through two queues of the same kind: the display driver adds it to the queue
of `lv-tool`, whose loop polls it by reference and adds the same object to the queue of the
plugin on screen, which is polled when the actor runs.  A queue that is full frees
what it is given.  A parameter that changes puts an event on the same queue of the plugin, and
calls its callbacks inside the call that changed it; a callback may change parameters again.

Sound goes from the input plugin into the sample pool, one list of samples per channel, which
`visual_audio_analyze` flushes and reads once per frame; the actor reads the same pool a moment
later.  Samples are kept in a `VisRingBuffer`, whose entries are functions that make the data
when it is asked for.

The plugins that `visual_init` finds are `VisPluginRef`s, counted by the registry's lists and by every
plugin that is loaded from them; actors, inputs and morphs are made by name through these lists.  All of
this rests on `VisList`; the tables of `lv_fourier.c` are the only user of `VisCache`.

### 1.3 Hard behaviours

The hazards, at their lines, are in `PROJECT.json`.  In one sentence each: a switch
is a protocol of five calls of the client (request, sync, frames, end, sync) of which
each can come early, late, twice or never; it holds up to six objects that are freed
by different calls according to three ownership flags; the depths of the bin, the
screen, the private video, the new actor's video and two forced depths are set by
seven functions in an order that depends on openGL; a morph ends by steps, by time, by
the client, or because its plugin is missing, and what it leaves behind meets the next switch;
an event is read after it was given away, and resizes overtake all other events; a name can be unknown or a plugin fail to
load half way through; and the depth searches are loops over flags that callers compute
from error codes.

The same holds around the bin: a channel of samples may be empty, and its size is a divisor; a flush moves
its cursor twice for each sample it destroys, as does the destruction of a list; a plugin may be unloaded after
`visual_quit`, may refuse to load, and may carry a name that is not on the list; callbacks nest and change the list
that is being walked; and the cache reorders its list with a function that leaves old pointers behind.

There is no concurrency inside the library, and no persistence, so interleavings here
are those of the client's own events with its frame loop.

## 2. Modules

| module | what it is |
|---|---|
| `VisVideoDepth` | depths, flags (sets of bits) and the searches, by what they compute |
| `VisVideoDepthSearch` | the same searches as loops, an iteration per step, compared with `VisVideoDepth` |
| `VisActor` | one actor as a record; negotiation and the surface of a run as operators |
| `VisBin` | the bin, the heap it works on, one action per function of `lv_bin.c` |
| `VisBinClient` | the clients' loop around the bin: the specification that is checked, and its properties |
| `VisSwitch` | the abstract promise of the bin: what is shown, what is requested, who draws |
| `MCVisBin` | plugins, depth flags and symmetry for TLC |
| `VisEventQueue` | an event queue as a record, its functions as operators |
| `LvToolEvents` | the two queues of `lv-tool`, its loop, the display driver and the plugin: the specification that is checked |
| `VisMorph` | a morph and its timer as records, their functions as operators |
| `VisMorphSwitch` | switches of a bin as its morph sees them: the specification that is checked |
| `VisList` | a list as a sequence, a cursor as a position; iteration, deletion, what a destruction leaves |
| `VisRingBuffer` | a ring of fragments: where a read starts, one round of its loop, and what it should return |
| `VisAudio` | the sample pool through the frames: input, flush, analysis and actor: the specification that is checked |
| `VisPlugin` | the registry, loading and unloading, and stepping from name to name: the specification that is checked |
| `VisParam` | parameters, their events and their nested callbacks: the specification that is checked |
| `VisCache` | the cache and the pointers of its list, over starts and shutdowns: the specification that is checked |
| `VisMemo` | the abstract promise of the cache: tables are made once and kept |
| `MCVisPlugin`, `MCVisParam` | a registry, and the container that is copied, for TLC |
| `VisVideoDepthSearchProofs`, `VisBinProofs`, `LvToolEventsProofs`, `VisMorphProofs`, `VisAudioProofs`, `VisPluginProofs`, `VisParamProofs`, `VisCacheProofs` | the proofs |

`VisBinClient` EXTENDS `VisBin`, which EXTENDS `VisActor`, which EXTENDS
`VisVideoDepth`; `VisBinClient` instantiates `VisSwitch` as `Promise`.  `LvToolEvents` EXTENDS
`VisEventQueue` and `VisMorphSwitch` EXTENDS `VisMorph`.  `VisParam` EXTENDS `VisList` and
`VisEventQueue`, `VisAudio` EXTENDS `VisRingBuffer`, which EXTENDS `VisList` as `VisPlugin` does;
`VisCache` instantiates `VisMemo` as `Memo`.  The specifications stand side by
side, because their components meet in few places: `VisBin` asks of a morph only how far it may get in a
frame, nothing an event does reaches the bin but the calls `VisBinClient` already makes at any time, the events see of the bin only whether a
frame runs its actor and whether a switch ends, the bin sees of the
registry only that a name is unknown or a plugin does not load, and the sound reaches the plugin alone.

### 2.1 From code to model

* **Pointers** are identities from finite pools (`Actors`, `Videos`, `Morphs`), `live` is
  the set of allocated objects, `mine` the actors the client created.  `visual_*_new`
  takes any dead identity, so a freed address may come back.  Reference counts of these
  objects are always one, so an unref frees.  Every pointer an operation follows is
  named in its `fault'`; once a NULL or dead one is followed nothing more happens.
* **A surface is its depth.**  Sizes, pitches, palettes and pixels are left out: no
  decision of the bin depends on them except `plugin wants a size of its own`, which is
  the constant `FixedSize`.
* **A depth flag is a set of bits**, a depth the integer of the enumeration; the negative
  error codes that the code uses as depths are kept, with the bits they have as integers
  (`BitsOf`).
* **`visual_bin_run`** is the four actions `RunRefused` (a check fails), `RunSwitches`
  (a direct switch, or openGL), `RunDraws` (no switch, or one that waits for a sync)
  and `RunMorphs` (both actors draw), each with all it does in one step: a call is atomic,
  because nothing else runs in the meantime.  `drawn` and `blend` record what the
  frame did, for the properties.
* **A morph** progresses by a nondeterministic amount up to `MorphFrames` in the modes
  `steps` and `time`, and not at all in mode `set` (or when not automatic): its own
  arithmetic is in `VisMorph`.
* **Names that fail.**  `visual_plugin_load` is external: it may fail for the plugins in `Unloadable`.  A morph has a name in
  `MorphNames`: one that loads, one on the list whose plugin is refused (a morph without a plugin), and one that is not on the
  list, for which `visual_morph_new` returns the NULL that `visual_bin_set_morph_by_name` follows.  `"unknown_name"` in `Calls` is a
  switch to an actor that is not on the list, `"unknown_input"` a connection to such an input.
* **The client** (`VisBinClient`) is a program counter `stage` and the depth `display` for
  which its display was created; `Calls` selects optional calls, and so separates clients
  that follow the protocol from those that stretch it.  `CatchUp` then `Sync` is the
  reaction to `visual_bin_depth_changed`, `Frame` is only taken after it.  Creating the
  display is part of `CatchUp`.

The event path, in `VisEventQueue` and `LvToolEvents`:

* **An event is its number** in the order of sending; `kind` and `refs` say what it is and how
  many references it has.  A count of 0 is a freed object, and `bad` is set when the loop reads
  one: nothing more is modelled then.  `handled`, `dropped` and `orphaned` are history.
* **A queue** is the list, its count, the last resize and "there is a new resize".
  Mouse coordinates, the button state and the destruction of a queue are left out.
* **One round of the loop** is `Drain` for each event of the window system, `PollResize` and `PollEvent`
  until the local queue is empty, then a frame: `RunFrame`, with a switch that ends
  `RunLastFrame` (after a morph) or `RunHandover` (openGL, where the old plugin is gone before it
  runs; or a morph of a plugin that handles no events).  `RunHidden` continues without a frame, and `RunRefused` is the frame in which
  `visual_bin_run` returns before it runs an actor, because the one to come has no plugin (`lv_bin.c:818`).
* **The bin** is three bits of it: `switching` (a switch is pending, none is, or it cannot end because the new plugin did not load),
  `handles` (the plugin on screen has a handler of events; `visual_plugin_events_pump` leaves the queue of one without as it is) and
  the history `skipped` (no frame has given the actor its events since the last round of the loop).  The first actor has its plugin,
  or the program stops before its loop; what the parameters of a new plugin put on its queue when it is realized is left out.
* **Plugins** are taken to poll their queue until it is empty, as those of `libvisual-plugins` do.
  `actor_AVS.c:227` does not, and is to the queue what a plugin without a handler is.

Morphs, in `VisMorph` and `VisMorphSwitch`:

* **The rate** is a whole number from 0 to `FULL`, and what a division leaves is lost.  This is how
  the float behaves: 1.0/n added n times falls short of 1 for some n (11 and 19 of them), and then the second half
  of `visual_morph_is_done` matters.  `FULL = 5` with 2 steps falls short in the same way; 5 steps reach it.  0 steps divide
  by zero, which the float makes infinite and the code cuts to 1.
* **A timer** holds how long it has been running (from its start to now, or to its stop) instead of two times of
  day.  Time beyond `Longest` and steps beyond `FULL` are not told apart: both are above anything they are compared
  with.  A clock that goes back, a morph time of zero and setting it to something negative are left out.
* **`visual_morph_run`** looks at the clock twice, to start the timer and to read it, and `d` passes
  in between; `Wait` passes time between calls.
* **The bin's half** is cut down to the fields that concern the morph.  The client sets a morph only between
  switches, as for a managed client of `VisBinClient`.  A switch has any settings (`Plans`), since the client may set steps,
  time, mode and "automatic" before each.  `bin->morphrate` is written by `visual_bin_switch_set_rate` but read
  nowhere, so a manual morph is turned with `visual_morph_set_rate`.

Sound, in `VisRingBuffer` and `VisAudio`:

* **A byte is its place in the ring**, `<<entry, byte>>`, so that what a reader gets can be compared with
  what the ring holds.  A read is the record of the local variables of `visual_ringbuffer_get_data_offset`, and each round of
  its inner loop a step, so that time passes during a read.
* **A sample** has an age in ticks, a size, and the references of its float buffer.  `old` and `expired` are history for
  `FlushHalves`.  Conversions of formats, spectra and the mixing of channels are left out; the pool is filled with 16 bit
  stereo (`input_interleaved_stereo`, which halves the size and refuses one of 2 or less) and directly per channel.
* **A frame** is input, flush (a step per list entry), analysis and actor, and `Tick` between any two steps.  `FrameTicks` bounds the time
  from a frame's first sample to its end: a frame that takes longer than the samples live (a second, `lv_audio.c`) is left out.
* **`pc = "dead"`** is the division by zero of `visual_ringbuffer_get_data_from_end`.

The registry, in `VisPlugin`:

* **A `VisPluginRef` is its plugin**; `refcount` is its object's count and `lost` is history: the references that
  a list keeps when `list_destroy` skips it.  `VisList!list_destroy_leaves` says which those are.
* **`visual_plugin_load`** succeeds unless the plugin is in use and not reentrant; `dlopen` is external and finds what
  the scan has found.  The client keeps `VisPluginData` in `Slots`, loaded by actors, inputs or any of the four types.
* **A step** (`v_cycleActor`, with the wrap to NULL that both clients make) is one call; the search without openGL is
  `BeginWalk` and a step per plugin it passes, since each is loaded, asked and unloaded.  A NULL plugin that it
  reads ends the model (`crashed`).

Parameters, in `VisParam`:

* **A value is a member of `Values`**; setting a scalar to the value it has is no change, as the code compares, while objects and
  palettes are always announced and collections never (`visual_param_entry_set_collection` calls nothing).
* **`walks` is the C stack** of `visual_param_entry_notify_callbacks`: each walk stands on a callback, and the client's
  calls that a callback may make are enabled when the innermost walk has called somebody.  `told` and `seen` are what a
  callback was last called with and what the plugin last read; `missed` marks entries whose last event was refused.
* **An event** is the entry it names.  `SendOther` stands for all other events, which take room.
* **`LastFirst`** makes the client remove the newest callback of an entry first.  With identifiers that repeat
  (3.2) no other client can know which one goes.

The cache, in `VisCache`:

* **List entries are addresses** `1..MaxNodes` that are used once: a read of one that is freed is then
  always found (`bad`).  The pointers are all modelled, because `visual_list_chain_at_begin` leaves the `prev` of the
  old head as it was.
* **The index is a function** from size to entry: `VisHashmap` is put each key once per life of the cache.
* **The shutdown** walks the list twice, in `cache_dtor` and in `list_destroy`, a step per entry.

## 3. Runs

All runs of `MCVisBin` have two actor pointers (three where the client owns some), two
videos, one morph and one screen.  Two actors are what a bin can hold; two videos are the
private one and the new actor's; an allocation that would need more than is dead is
disabled, and none is in the runs that pass, because the bin never holds more.  In these runs plugins are
named by what they support: 8 bits (`p8`, of a fixed size), 32 bits (`p32`), both (`pAny`), openGL only
(`pGL`), 32 bits or openGL (`pMix`): equal, smaller, larger, overlapping and openGL
against not openGL all occur.  `MorphFrames = 2` distinguishes "just begun", "under way"
and "done".  The pools are symmetric except in the liveness run.

| run | question | answer |
|---|---|---|
| `depth_search` | do the search loops end and return what the definitions say, for all 32 flags and 8 depths? | yes |
| `bin_managed` | is a client safe that names its actors and lets each switch end: both styles, automatic and manual morphs, changes of style between switches, refused morph plugins, resizes, unknown actor names, quit at any time? | all properties hold, and the bin implements `VisSwitch` |
| `bin_owner` | a client that makes and frees its own actors, some without a plugin, and does not realize the bin, finalizes switches itself, pending or not, hands the bin the NULL morph of an unknown name and names an unknown input? | no bad pointer, and its actors stay its own |
| `bin_live` | does every requested plugin get on screen? | yes, under the fairness below |
| `bin_impatient` | may a second switch be requested during a morph? | no: a freed video is used |
| `events` | what do bursts of events, hidden windows, refused frames, plugins without a handler, resizes and switches do to memory, order and loss of events, and does a request to stop stop? | a freed event is read only in a round that no frame for an event handler came before; order is kept; loss only at the full local queue or with a replaced plugin; the last size wins; it stops |
| `morph` | how long does a morph take, used once and used again after switches of any mode and end? | exactly its steps or time when new; when used again perhaps less, but at most a frame more; it always ends |
| `audio` | what do readers of the pool get, and do flushes and reads end, when the input delivers in every frame? | the bytes in order, newest last; buffers are given back; at most half of the old samples stay; all ends |
| `audio_silent` | and when the input is silent for a while? | a division by zero |
| `plugins` | do references and uses add up, and does stepping without openGL reach every actor? | yes, where no plugin that refuses is passed |
| `params` | do the plugin and the callbacks end up with the newest values, whatever callbacks set, add and remove? | yes, except for events that the full or missing queue refused |
| `cache` | does a list with wrong pointers do harm? | not within the limit: it stays a chain to its tail, no freed entry is used, and the cache implements `VisMemo` |

Bounds of `events`: `MAXEVENTS = 1`, so that a queue holds two events at most and all of "empty", "one left",
"full" and "refuses" occur (the code only compares the count with the bound); five events in bursts of up to three fill
the local queue in one drain, and the plugin's queue over two rounds that are not followed by a frame.
Bounds of `morph`: steps of 0, 2 (falls short of `FULL`) and 5 (reaches it), times of 1 and 3, elapsed time up to
3; any number of switches, frames and ticks of the clock.
Bounds of `audio`: fragments of 1, 2 and 3 bytes and a refused one, at most four per channel and one added directly; reads of 5 from the
start and 3 from the end, so that reads start inside a fragment, end inside one, and wrap up to four times; a sample is too old
after two ticks, so that a flush finds none, some and all of the others old.
Bounds of `plugins`: four actors and an input, two of the actors openGL and next to each other, one not reentrant; two plugins loaded at
a time.  The lists have 5, 4, 1 and 0 entries, so that a destruction leaves one, two, none and none of them.
Bounds of `params`: a number, a palette and a collection, two values, two callbacks, walks two deep (a
callback that calls itself once), a queue of one event (`MAXEVENTS = 0`) that is full as soon as something waits in it.
Bounds of `cache`: four sizes and a limit of four, the most that are within the limit; two starts with all sizes.

### 3.1 Fairness

`FairClientSpec` assumes weak fairness of `Loop`, the client's own loop: ask for the depth,
sync, run a frame.  Both clients loop without waiting for anything (`lv-tool.c:431-576`,
`libvisual.c` `v_render`).  Events are not fair: keys and resizes may come or not, and
may come between any two frames.  A morph gets further in each frame it is run, since the mode is
automatic in that run; with a manual morph the property is false by design.

`LvToolEvents!FairSpec` is weakly fair to the main loop, which never waits: it polls, draws and starts
again.  The window system need not send anything; a drain ends, because `lv-tool` goes on when there
is nothing more to fetch.  `VisMorphSwitch!FairSpec` is weakly fair to the frames of a
client that renders, and to the clock, which goes on without the program.

`VisAudio!FairSpec` is weakly fair to `InFrame`: flush, analysis and actor are one call of `visual_bin_run`, which
goes on until it returns; the input and the clock are not fair.  `VisPlugin!FairSpec` is weakly fair to the rounds of
the search without openGL, which are one call too, and to the user beginning the next step forward:
`EveryActorComes` is about a user who keeps stepping.

### 3.2 What does not hold

Two runs show a violation (`findings` in `PROJECT.json` quotes the text that says
otherwise):

* `bin_impatient`: a second switch during a morph frees the private video into which the
  main actor still draws (`lv_bin.c:606`).
* `audio_silent`: a channel whose samples are all flushed is an empty ring, and `visual_ringbuffer_get_data_from_end` divides
  by its size (`lv_ringbuffer.c:367`).

More was seen that has no run of its own:

* `visual_morph_new` returns NULL for a name that is not on the list (`lv_morph.c:143`), and `visual_bin_set_morph_by_name` reads the plugin
  of what it got (`lv_bin.c:192`): `NoBadAccess` fails with `bin_managed`'s configuration and `"unknown"` in `MorphNames`.
* During a switch, `visual_bin_switch_actor_by_name` frees the actor that was to come, and returns when there is none of the new name
  (`lv_bin.c:486`); the next frame uses the freed one.  `NoBadAccess` fails with `bin_impatient`'s configuration, direct
  switches only (with which it holds otherwise) and `"unknown_name"` in `Calls`.  Between switches an unknown name does nothing.
* A bin that was never realized forces the main actor into the next actor's depth
  in its first run (`lv_bin.c:835`): `RendersSupported` fails with `bin_managed`'s configuration and `"skip_realize"` in `Calls`.
* So does a client that ends a switch itself before the first frame of it: the main actor is then realized by a frame of the next
  switch, for the depth of the next actor (`RendersSupported` fails with `"switch_finalize"` in `Calls`).
* A bin with an actor connected by pointer forces depth 0 when it leaves openGL (`lv_bin.c:345`):
  `RendersSupported` fails with a client that connects its own actor and then switches by name.
* That client also loses actors: after connecting an actor by pointer, those switched to by name are never freed
  (`lv_bin.c:688`).
* `visual_video_depth_get_highest_nogl` computes the answer and returns an error (`lv_video.c:468`):
  `HighestNoGLIsADepth` of `VisVideoDepthSearch` says what its name promises, and fails.
* `lv-tool` reads a freed event (`lv-tool.c:447`) when the queue of the plugin on screen is full and frees what it is given.
  `NoUseAfterFree` of `LvToolEvents` fails, without the condition of `SafeAfterFrame`, in three ways: while the window is hidden there are no
  frames; while the actor to come has no plugin frames are refused before the actor runs (`lv_bin.c:818`); and for a plugin
  without a handler no frame empties the queue (`lv_plugin.c:188`).  In the last two the window is shown.
* A finalize without a pending switch takes the actor off the bin (`lv_bin.c:690` assigns an `actmorph` that is NULL) and frees it if
  the bin manages it, and the frames after it are refused.  `ManagedInvariant` fails with `bin_managed`'s configuration and
  `"switch_finalize"` and `"finalize_idle"` in `Calls`, so the theorems on managed clients leave the call out; `NoBadAccess` does not fail there,
  nor in `bin_owner`, which makes the call.
* With no actor plugin at all `v_cycleActor` takes the length of a NULL name (`lv-tool.c:294`).
* The timer of a morph is started in every mode and only stopped by a timed morph that is done
  (`lv_morph.c:306`), so a timed switch after one by steps is over in its first frame.
* Changing the style during a switch breaks `NoBadAccess`, `RendersSupported`, `DrawsCaughtUp` and `MorphsAlike`;
  `SetupStyle` therefore changes it only between switches.
* A client that switches between its own actors with the morph style shares one screen between two
  actors, and an actor that comes back still points to a private video that is gone; `bin_owner` is therefore direct.
* A queue holds `VISUAL_EVENT_MAXEVENTS + 1` events (`lv_event.c:189` compares with `>`); `EventsInMemory`
  states this bound.
* A morph by steps that is used again may also be early, or late by one frame: an interrupted switch, or one whose rate fell
  short of 1, leaves `stepsdone` behind (`lv_morph.c:255`).  `StepsTaken` as an invariant of
  `VisMorphSwitch` shows it; `NeverLate` is what remains true.
* The loop of `lv-tool` never unrefs the event of a polled resize (`lv-tool.c:441`).
* Identifiers of callbacks repeat: the search for the next one does not start over at the head of the list (`lv_param.c:78`).
  `IdsAreOriginal` of `VisParam` fails as soon as a client with three callbacks removes one that is not the newest.
  A removal by such an identifier can take another callback away.
* `visual_param_entry_set_collection` announces nothing, neither to the plugin nor to callbacks; `Synced` is about the other kinds.
* An entry that leaves a container keeps its parent pointer, and goes on announcing; `Synced` covers such entries as well.
* The list of the cache does not hold all that the index holds: `ListHoldsAll` of `VisCache` fails with two sizes (a request moves an entry
  to the front whose neighbour's `prev` is stale), so a shutdown leaves entries behind.
* With more sizes than the limit allows, the cache uses list entries it has freed: `NoBadAccess` of `VisCache` fails with `Limit = 2` and three sizes.
  The limit in `lv_fourier.c` is 50.
* `list_destroy` moves its cursor twice per entry (`lv_list.c:71`); a list leaves entries behind unless its length is 2^k - 1, and their references are
  `lost` in `VisPlugin`.
* The registry does not ask whether a name is taken, and every step of a search starts at the first plugin of that name (`lv_plugin.c:303`).
  With actors a, b, a, c of which a and b need openGL, the search without openGL goes round between a and b and never returns;
  a plugin that is found in two directories is enough for two of one name.
* A channel that holds nothing but a sample of size 0 has fragments but no bytes, and a read of it goes round the ring without end
  (`lv_ringbuffer.c:216`): `FrameEnds` fails with `DirectSizes = {0}` and a silent input.
* The search without openGL dereferences NULL when it passes a plugin that is in use and not reentrant (`lv_actor.c:161`).

### 3.3 Mutants

`PROJECT.json` names, for each property of each passing run, a plausible slip (an operator
under "A slip" in the modules) that replaces a definition and breaks the property under the
same configuration: a dropped unref, a comparison the wrong way round, a depth set without
telling the client, a surface kept from the last negotiation.

## 4. Proofs

The proofs need no bound: any finite or infinite pools, plugins, depth flags and calls that
satisfy the named assumptions (`PluginAssumption`, `PoolAssumption` and `ClientAssumption` for the bin),
which TLC evaluates in every run.

* `TypeCorrect` (`VisBinProofs`): `ClientSpec => []TypeOK`, for every client.  Its
  invariant adds to `TypeOK` that a pending switch has its new actor until the client quits; the lemmas type every
  operator of `VisBin`, among them that each depth search returns a value of the C
  enumeration or one of two error codes.
* `ManagedSafe` (`VisBinProofs`): `ClientSpec => []ManagedInvariant` for a client that satisfies
  `ManagedClient`: it names its actors and lets a switch end before the next one, it finalizes no switch that it did not ask for,
  plugins load, the client supports their depths, and the morphs that it names are on the list, whether their plugins load or
  not (`visual_morph_valid_by_name` tells; 3.2 has the others).  It follows the calls of run
  `bin_managed`, changes of style between switches included; the client may also not realize the
  bin, finalize a pending switch itself and name unknown inputs.
* `MemorySafe`, `DepthsAgree`: `NoBadAccess` and `DepthAgrees`, conclusions of `ManagedSafe`.
* `DrawsOnlyCaughtUp`, `MorphsOneDepth`: `DrawsCaughtUp` and `MorphsAlike`, for the same clients.
* `NothingIsLost`: `NothingLeaks`, for a `TidyClient`: managed, its first actor is made by the bin too, and its inputs are
  known (with an unknown input `visual_bin_connect_by_names` loses an actor, see 3.2).
* `LateFinalizeRenders`, `RendersWhatItCan`: `RendersSupported`, for a `ServedClient`: tidy, it realizes the bin before the first frame.  It leaves the
  end of a switch to the frames, or ends it itself when the new actor is realized (`LateFinalize`, a condition on its steps).  3.2 says
  what happens without the one and the other.
* `SwitchesComeNearer`: the safety half of `RequestGranted`, for managed clients.  `WaitLeft` counts what is left of a switch: the frames
  of its morph, and before the next of them a depth to catch up with and a sync.  Each step of the client's loop lowers it, no
  call raises it or exchanges the requested actor, and the switch ends with that actor, unless the client quits.  The work is in `FrameTurns`: once
  the client has caught up a frame never takes the branch that draws the old actor and waits (`RunDraws`), because screen and
  private video have one depth (`FrameInvariant`).  A morph in mode `set` is excluded (`ByHand`): it is the client that turns it.
* `SwitchesAsPromised`: `KeepsPromise`, the refinement of `VisSwitch`, for managed clients.
* `OwnActorsKept`, `OwnersSafe`: `ClientKeepsActors` and `NoBadAccess` for an `OwnClient`: it makes its actors itself,
  switches between them directly and keeps the bin.  It need not be patient, plugins and morphs may fail to load or be unknown, and it may finalize when no switch is pending.  3.2 says why a
  morph is no switch for it; `bin_dtor` unrefs the actor on screen whoever made it (`lv_bin.c:46`), so that the
  theorem is about the life of the bin and not its end.

`NoBadAccess` is far from inductive: it says nothing about why the pointers are good.
`ManagedInvariant` adds six parts, each of which another needs:

* `StageAgrees`: what the stage of the client's program says about actor, video and flag;
* `PointersLive`: what the bin points to is allocated, and allocated actors have a plugin;
* `ActorsApart`: the two actors are different objects, and the bin frees only its own, so
  freeing one never frees the other;
* `SwitchWhole`: what a switch has added is there while it lasts and gone afterwards, and
  the main actor draws to the screen or to the private video;
* `DepthsFollow`: bin and screen have one depth, and the client supports it.  The second half is
  what keeps a frame away from a private video that does not exist: `depthfromGL` is only
  true when the screen is openGL;
* `MorphReady`: in a morph without a private video one of the two actors is openGL, so it is
  never mixed; in one with a private video, the morph has its destination.

The proof has one lemma per group of actions (`SettingsSafe`, `ConnectsSafe`, `SwitchByNameSafe`,
`FinalizeSafe`, `RunSafe`, `SyncSafe`, ...); `SwitchByNameSafe` and `SyncSafe` carry the argument, on
top of `PlanSafe` (the depths a switch by name decides) and `MidSwitch` (what a pending switch
says about the pointers).

The other theorems on managed clients have their own strengthenings on top of `ManagedInvariant`:

* `FrameInvariant` adds `DisplayFollows` (the client's display has the depth of the bin, or the client is still to be told) and
  `SwitchAlike` (a private video and the video of the morphed actor have the depth of the screen).
* `TidyInvariant` adds to `NothingLeaks` only that the bin made its actor.  `Orderly` is what almost every step does: it announces a new
  depth and takes no announcement back (`Told`), keeps `SwitchAlike`, and changes what is allocated and what is reachable together
  (`Kept`).
* `ServedInvariant` adds `SurfacesReady`: between switches (`Steady`) the surfaces of the actor were negotiated for depths of its
  plugin, and the plugin supports the depth of the screen; during one (`Changing`) the new actor's were, and the old actor's matter in
  a morph that is not openGL only, where what it renders is a promise for a client that has caught up.  `NegotiateFits` says what a negotiation
  gives, `SwitchByNameSafe` and `SyncSafe` carry it through switches and depth changes.
* The refinement maps the two plugins of the bin's actors (`Shown`, `Coming`) and those of the last frame (`InFrame`).  Each call is one step of
  `VisSwitch` or a stutter: a connection `Starts`, a switch by name `Requests`, `Finalize` `Completes`, a frame `Draws`, the end of the bin
  `Stops`.  `SameShow` says that whatever leaves the bin's pointers alone changes neither plugin, because plugins of live actors never change;
  `FramePromised` is the case of a frame, which may draw both actors and complete the switch in one call.

`OwnInvariant`, of clients that own their actors, is a different one: the bin manages nothing, so it unrefs nothing (`NothingManaged`); its actors are
among those of the client, which are live (`OwnPointers`); actors draw to the screen or nowhere (`OwnVideos`), and in the loop every actor the
client holds draws to the screen (`OwnStages`), which is what a switch follows before it decides between direct and morph.  It was
checked with TLC on the pools of `bin_owner`, for an impatient client and for morphs that do not load, before it was proved.

The depth searches (`VisVideoDepthSearchProofs`), for every flag and depth:

* `LoopsReturnIt`: `Spec => []LoopsMeetDefinitions`.  A loop that goes through the enumeration has, at each iteration, passed no depth of the flag
  that it looks for; so the first it stops at is the one that the definition chooses.
* `SearchesGetNearer`: an iteration leaves fewer of them.  It is the safety half of `SearchEnds`.

The event path (`LvToolEventsProofs`), for every `MAXEVENTS`, any number of events and any bursts:

* `EventTypes`: `Spec => []TypeOK`, with "the count of a queue is the length of its list" as the
  strengthening: a poll takes the head of a list because the count says that there is one.
* `ReadsBeforeFree`: `Spec => []SafeAfterFrame`.  The argument is `RoomInPlugin`: after a frame that gave the actor its
  events a round begins with an empty plugin queue, and while it polls, what is in the plugin's queue and what is
  still in the local one are together no more than one queue takes.  Frames that are hidden, refused or without a handler may come
  before; it is the last one that counts.
* `LastSizeWins`: `Spec => []LatestSize`, from `SizeFollows`: the size that was asked for last is the size of the window, or still
  the size the queue remembers.
* `LostOnlyAtTheDoor`: `Spec => []LostAtTheDoor`, from `Accounted`: at each point of a round every event made is in exactly one of the places
  it can be at.
* `EventsStayInMemory`, `EventsInOrder`: `EventsInMemory` and `InOrder`.  The inductive `EventsInvariant` lays the events out on one line,
  handled, in the plugin's queue, in the local one, orphaned, in rising order (`Line`), and says how many each part holds at each point of a
  round (`Held`, `Bounded`, `Beside`).
* `RequestsStopTheLoop`: the safety half of `StopEnds`.  Each step of the loop brings its round nearer to the end, in the events still to be drained
  and polled; and another round follows a request to stop only if every such request so far was refused at the full local queue.

Morphs (`VisMorphProofs`), for every `FULL`, set of step counts and times that satisfy `RateAssumption` (n rounded
steps fall short of a full rate by at most one step) and `TimeAssumption`:

* `MorphTypes`, `StepsExact`, `TimeExact`, `LateByAFrame`: the four invariants of run `morph`; `RateNeverFalls`: its action property.
  The inductive `MorphInvariant` adds to them `AsPlanned` (during a switch the morph has the mode, steps and time of its plan),
  `StepsFollow` (rate and steps done as functions of the frames), `TimerFollows` (how the timer relates to the
  age of the switch, and the rate to the timer) and `Unused` (a morph that was not used has no steps done and a timer at rest).
  The arithmetic is in `ProductMonotone`, `DivisionBounds`, `DivisionReaches`, `StepsReach` and `DivisionMonotone`.
* `SwitchesGetNearer`: the safety half of `SwitchEnds`.  A frame of a switch by steps, and the time that passes in one by time, leave less
  to go (`ToGo`); a switch in mode `set` is the client's to end.

The sample pool (`VisAudioProofs`), for any sizes, any number of samples and any times with `FrameTicks <= TIMEOUT`
(`TimesAssumption`):

* `ReadsNeverEmpty`: without silent frames, `Spec => []EmptyReadReturns`.  `AudioInvariant` adds that from the moment the input has
  delivered each channel has a sample that is not empty and no older than the frame (`Alive`); the flush destroys only older ones,
  wherever its cursor jumps, and reads change neither ages nor sizes.
* `BuffersGivenBack`: `Spec => []BuffersReturned`.  Between the steps of a frame the float buffer of a sample has no reference or one;
  the reads take and give back one each.
* `FlushLeavesHalf`: `Spec => []FlushHalves`.  `FlushInvariant` says that ages fall along a channel, so that what was too old when the flush began
  is a prefix, of which `FlushedSoFar` counts: for each sample that the cursor has passed one was destroyed.
* `ReadsGiveTheRing`: `Spec => []ReadsTheRing`, for reads of any length that may come round the ring many times.  `RingInvariant` relates the local variables of
  a read in progress to a position on an endless ring: what has been read are the bytes from its start (`RightBytes`), and the
  next entry begins where they end (`ComesAfter`).  `StartRight`, `RoundRight` and `PutRight` are the first and the later
  entries; the sums over the list that `visual_ringbuffer_get_size` folds are named by `UptoExists` and `UptoIs`.
* `ActorsReadTheNewest`: `Spec => []NewestLast`, provided that no sample of size 0 is added directly (`0 \notin DirectSizes`): an empty
  channel has no newest byte.  With `Filled` (every sample has a byte) it is a consequence of `RingInvariant`.
* `FramesGetNearer`: the safety half of `FrameEnds`, under the same proviso.  Every step of a frame leaves less to flush, to read or to skip, in
  a well-founded order; a read of several rounds gets at least a byte from each of them.  3.2 has the sample for which it would not.

The registry (`VisPluginProofs`), for any plugins, types, names and slots that satisfy `PluginsAssumption`:

* `RefsAlwaysCounted`, `UsesAlwaysCounted`: `RefsAreCounted` and `UsesAreCounted`.  They are inductive together
  with the types and with `BeforeQuit` (nothing is loaded before `visual_init`, nothing lost before `visual_quit`); the work is in the cardinalities
  of the sets of lists and loads.
* `WalksGetNearer`: the safety half of `EveryActorComes`, where no two actors have one name (`NamesApart`; 3.2 has the registry in which
  a search never returns).  Each round of the search without openGL is a step along the list (`StepRank`), which it goes
  through to its end and once more from its beginning; nothing else moves it.
* `NoActorPassedOver`: it ends at the nearest actor that does without openGL, in the direction of the step, or at none where there is
  none.  `WalkInvariant` says that all the actors between the client's name and the place of the search need openGL.  The list is what
  `visual_plugin_registry_filter` keeps, actors only and each of them once (`ActorsListed`): its recursion is solved by `KeptExists`.

Parameters (`VisParamProofs`), for any entries, values, callbacks, depth of nesting and length of the queue:

* `AlwaysSynced`: `Spec => []Synced`.  `ParamInvariant` adds the types and that no resize is on this queue; each change either
  enqueues its entry or marks it as missed in the same step as the value is assigned.
* `CallbacksLearn`, `WalksNeverLost`: `CallbacksKnow` and `WalksStandOnEntries`, for a client that removes the newest callback of an entry
  first (`LastFirst`).  In `CallInvariant` a callback that does not know the value of its entry is one that some walk of the
  stack has not come to (`ToldOrAwaited`); every walk stands on an entry; and a list is a stack, whose identifiers are its positions (`Stacked`), so that an
  identifier names the callback that was meant.
* `StackedIdsAreOriginal`: what keeps it a stack.  The search for an identifier, which does not start over at the head of the
  list (3.2), gives the height of a stack of any length: `NextIdOfStack` solves its recursion.

The cache (`VisCacheProofs`), for any limit and any finite set of sizes within it (`RoomForAll`):

* `TablesKept`: `Spec => TablesAreKept`, the refinement of `VisMemo`.  `CacheInvariant` says that the count of the list is the number
  of sizes in the index.  It needs nothing of the pointers: they may be wrong, the count is not, so room is never made.
* `NothingFreedIsUsed`, `ListStaysAChain`: `NoBadAccess` and `ListIsAChain`.  The pointers are those of a doubly linked list no more: a request
  leaves the old head without `prev`, and a later one then loses entries.  `Chain` is what is left: along `next` a rank
  falls, so there is no ring, and an entry *with* a `prev` pointer is the only one before itself.  `Whole` adds, between requests, that
  all entries lead to the tail and that ranks are at most the count, which bounds the walk of `ListIsAChain`.  `ListInvariant` says this of the
  indexed entries, and during a shutdown of those that are still to be destroyed.  `ResetKeepsList`, `ChainKeepsList` and `UnchainKeepsRest` are the request
  that hits, the one that misses and a step of a shutdown.

Only model-checked: liveness (`SearchEnds`, `RequestGranted`, `StopEnds`, `SwitchEnds`, `FrameEnds`, `EveryActorComes`), because fairness and
ENABLED are out of the prover's reach.  For each of them the half that is safety is proved: a measure in a well-founded order that the
steps which fairness is about make smaller and no other step makes larger.  What is left to TLC is that these steps are
taken: that the program can always go on.  Every other property of a run is a theorem, some under the conditions on the client or
its samples that are named above.

Induction has no rule that the provers could be given for any formula.  Where a recursive function is solved (a sum along a ring, the height of a
stack, a filter, a rank) the proofs take the least element of a set of numbers instead (`NatSetInduction`, in each module
that needs it).

## 5. Not modelled

Pixels, palettes, sizes, random seeds, song information and logging; conversions of sample formats, spectra and
normalisation; the pure operations of `VisVideo` and `VisRectangle`, which are arithmetic over data and have no state to
explore; `VisBeat`, whose statistics promise nothing that could be stated; `VisHashmap` and `VisHashlist`, of which the library
uses no more than a function does; `VisConfig`, which is unfinished.  Plugins and AVS, which are most of the repository's lines,
are drawing and capture code behind the plugin interface and external here.  The library itself starts no thread, so `VisThread` has
nothing to interleave with.

Inside the modelled components the notes in `PROJECT.json` say what is left out of each.

## 6. Plan

What would add most from here:

1. The events of `lv-tool` as a refinement of one queue.
2. What is left out of `VisBin`: the palette, the input, and the sizes of surfaces where `FixedSize` stands for them.
3. `VisHashmap` with its chains, if it gets another user.
