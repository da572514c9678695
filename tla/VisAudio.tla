------------------------------- MODULE VisAudio -------------------------------
(***************************************************************************)
(* The way of sound through the library: an input plugin adds samples to   *)
(* the sample pool of a VisAudio, visual_audio_analyze drops those that    *)
(* are too old and reads the newest state of both channels, and the actor  *)
(* reads what it draws (lv_audio.c, lv_input.c, lv_ringbuffer.c).  One     *)
(* frame of visual_bin_run is: input, flush, analyze, actor.  Time goes on *)
(* between any two steps.                                                  *)
(***************************************************************************)
EXTENDS VisRingBuffer, FiniteSets

CONSTANTS
    Counts,      \* sizes a plugin gives for its buffer of 16 bit samples
    DirectSizes, \* sizes of samples added to one channel directly
    AnalyzeSize, \* what visual_audio_analyze reads of a channel
    Requests,    \* what actors read of a channel
    TIMEOUT,     \* samples_timeout, in ticks
    FrameTicks,  \* ticks from an input's first sample to the end of the frame
    Silent,      \* TRUE: the input may have nothing to add in a frame
    MaxSamples,  \* bound of this model: samples in a channel
    MaxDirect    \* bound of this model: samples in a channel that gets one directly

ASSUME SizesAssumption ==
    /\ Counts \subseteq Nat /\ Requests \subseteq Nat \ {0} /\ DirectSizes \subseteq Nat
    /\ AnalyzeSize \in Nat \ {0} /\ MaxSamples \in Nat /\ MaxDirect \in Nat
ASSUME TimesAssumption ==
    TIMEOUT \in Nat /\ FrameTicks \in Nat /\ FrameTicks <= TIMEOUT /\ Silent \in BOOLEAN

VARIABLES
    pool,      \* the samples of each channel
    channels,  \* the channels of the pool, in the order they were made
    pc,        \* what the frame is at; "dead" after a division by zero
    flush,     \* the walk of visual_audio_samplepool_flush_old
    todo,      \* the reads that are still to come in this part of the frame
    read,      \* the read that is going on
    delivered, \* the input has added a stereo sample in this frame
    ticks,     \* time since it has
    expired    \* history: samples of each channel too old when the flush began

vars == <<pool, channels, pc, flush, todo, read, delivered, ticks, expired>>

Channels == {"left", "right"}
NoRead == [done |-> TRUE]
NoFlush == [channel |-> 1, le |-> NoEntry]

\* refs counts the references to the sample's float buffer, 0 before it is made;
\* old: the sample was too old when the flush began.
Sample(size) == [age |-> 0, size |-> size, refs |-> 0, old |-> FALSE]

TooOld(s) == s.age > TIMEOUT
Sizes(ch) == [i \in 1..Len(pool[ch]) |-> pool[ch][i].size]
HasChannel(ch) == \E c \in 1..Len(channels) : channels[c] = ch

Init ==
    /\ pool = [ch \in Channels |-> <<>>] /\ channels = <<>>
    /\ pc = "input" /\ flush = NoFlush /\ todo = <<>> /\ read = NoRead
    /\ delivered = FALSE /\ ticks = 0
    /\ expired = [ch \in Channels |-> 0]

WithChannel(list, ch) == IF \E c \in 1..Len(list) : list[c] = ch THEN list ELSE Append(list, ch)

HasRoom(ch) == Len(pool[ch]) < MaxSamples

\* input_interleaved_stereo for 16 bit samples: each channel gets half of count;
\* a count of sizeof (int16_t) or less is refused.
visual_audio_samplepool_input(count) ==
    /\ pc = "input" /\ \A ch \in Channels : HasRoom(ch)
    /\ IF count > 2
       THEN /\ pool' = [ch \in Channels |-> Append(pool[ch], Sample(count \div 2))]
            /\ channels' = WithChannel(WithChannel(channels, "left"), "right")
            /\ delivered' = TRUE
       ELSE UNCHANGED <<pool, channels, delivered>>
    /\ UNCHANGED <<pc, flush, todo, read, ticks, expired>>

visual_audio_samplepool_input_channel(ch, size) ==
    /\ pc = "input" /\ HasRoom(ch) /\ Len(pool[ch]) < MaxDirect
    /\ pool' = [pool EXCEPT ![ch] = Append(@, Sample(size))]
    /\ channels' = WithChannel(channels, ch)
    /\ UNCHANGED <<pc, flush, todo, read, delivered, ticks, expired>>

\* The plugin has uploaded what it has; visual_audio_analyze begins.
visual_audio_analyze ==
    /\ pc = "input" /\ (Silent \/ delivered)
    /\ pool' = [ch \in Channels |-> [i \in 1..Len(pool[ch]) |->
                    [pool[ch][i] EXCEPT !.old = TooOld(pool[ch][i])]]]
    /\ expired' = [ch \in Channels |-> Cardinality({i \in 1..Len(pool[ch]) : TooOld(pool[ch][i])})]
    /\ pc' = "flush" /\ flush' = NoFlush
    /\ UNCHANGED <<channels, todo, read, delivered, ticks>>

\* A slip: the times are compared the wrong way round.
FlushStepFresh ==
    /\ pc = "flush" /\ flush.channel <= Len(channels)
    /\ LET ch   == channels[flush.channel]
           i    == visual_list_next(pool[ch], flush.le)
           rest == visual_list_delete(pool[ch], i)
       IN  IF i = NoEntry
           THEN flush' = [channel |-> flush.channel + 1, le |-> NoEntry] /\ pool' = pool
           ELSE IF TooOld(pool[ch][i])
           THEN flush' = [flush EXCEPT !.le = i] /\ pool' = pool
           ELSE /\ pool' = [pool EXCEPT ![ch] = rest.list]
                /\ flush' = [channel |-> IF rest.le = NoEntry THEN flush.channel + 1 ELSE flush.channel,
                             le |-> rest.le]
    /\ UNCHANGED <<channels, pc, todo, read, delivered, ticks, expired>>

\* A slip: the walk ends with the first sample it destroys.
FlushStepOnce ==
    /\ pc = "flush" /\ flush.channel <= Len(channels)
    /\ LET ch   == channels[flush.channel]
           i    == visual_list_next(pool[ch], flush.le)
           rest == visual_list_delete(pool[ch], i)
       IN  IF i = NoEntry
           THEN flush' = [channel |-> flush.channel + 1, le |-> NoEntry] /\ pool' = pool
           ELSE IF ~TooOld(pool[ch][i])
           THEN flush' = [flush EXCEPT !.le = i] /\ pool' = pool
           ELSE /\ pool' = [pool EXCEPT ![ch] = rest.list]
                /\ flush' = [channel |-> flush.channel + 1, le |-> NoEntry]
    /\ UNCHANGED <<channels, pc, todo, read, delivered, ticks, expired>>

\* visual_audio_samplepool_channel_flush_old, one entry: visual_list_destroy
\* moves the cursor on, and so does visual_list_next after it.
FlushStep ==
    /\ pc = "flush" /\ flush.channel <= Len(channels)
    /\ LET ch   == channels[flush.channel]
           i    == visual_list_next(pool[ch], flush.le)
           rest == visual_list_delete(pool[ch], i)
       IN  IF i = NoEntry
           THEN flush' = [channel |-> flush.channel + 1, le |-> NoEntry] /\ pool' = pool
           ELSE IF ~TooOld(pool[ch][i])
           THEN flush' = [flush EXCEPT !.le = i] /\ pool' = pool
           ELSE /\ pool' = [pool EXCEPT ![ch] = rest.list]
                /\ flush' = [channel |-> IF rest.le = NoEntry THEN flush.channel + 1 ELSE flush.channel,
                             le |-> rest.le]
    /\ UNCHANGED <<channels, pc, todo, read, delivered, ticks, expired>>

Reading(n, fromend) ==
    <<[ch |-> "left", n |-> n, fromend |-> fromend], [ch |-> "right", n |-> n, fromend |-> fromend]>>

FlushEnds ==
    /\ pc = "flush" /\ flush.channel > Len(channels)
    /\ pc' = "analyze" /\ todo' = Reading(AnalyzeSize, FALSE)
    /\ flush' = NoFlush /\ expired' = [ch \in Channels |-> 0]
    /\ pool' = [ch \in Channels |-> [i \in 1..Len(pool[ch]) |-> [pool[ch][i] EXCEPT !.old = FALSE]]]
    /\ UNCHANGED <<channels, read, delivered, ticks>>

\* The actor is run after the input.
visual_actor_run(n) ==
    /\ pc = "analyze" /\ todo = <<>>
    /\ pc' = "actor" /\ todo' = Reading(n, TRUE)
    /\ UNCHANGED <<pool, channels, flush, read, delivered, ticks, expired>>

\* A slip: the buffer is not unreffed when it fills the request.
UsedUntilFilled(s, filled) ==
    [s EXCEPT !.refs = (IF s.refs = 0 THEN 2 ELSE s.refs + 1) - (IF filled THEN 0 ELSE 1)]

\* sample_data_func makes the sample's float buffer when it is first asked for,
\* and hands out a reference; the ring buffer gives it back when it has read it,
\* also when that filled the request.
Used(s, filled) == [s EXCEPT !.refs = (IF s.refs = 0 THEN 2 ELSE s.refs + 1) - 1]

\* visual_audio_get_sample, or the reading of visual_audio_analyze, begins.
visual_audio_get_sample ==
    /\ pc \in {"analyze", "actor"} /\ todo # <<>> /\ read = NoRead
    /\ LET r     == Head(todo)
           sizes == Sizes(r.ch)
           empty == \A i \in 1..Len(sizes) : sizes[i] = 0
           first == ReadFrom(sizes, IF r.fromend THEN OffsetFromEnd(sizes, r.n) ELSE 0, r.n)
       IN  IF ~HasChannel(r.ch)
           THEN todo' = Tail(todo) /\ UNCHANGED <<pool, pc, read>>
           ELSE IF r.fromend /\ empty
           THEN pc' = "dead" /\ UNCHANGED <<pool, todo, read>>
           ELSE /\ read' = first
                /\ pool' = IF first.curposition = 0 THEN pool
                           ELSE [pool EXCEPT ![r.ch][first.startat] = Used(@, first.done)]
                /\ UNCHANGED <<pc, todo>>
    /\ UNCHANGED <<channels, flush, delivered, ticks, expired>>

visual_ringbuffer_get_data_offset ==
    /\ read # NoRead /\ ~read.done
    /\ LET ch == Head(todo).ch
           r  == Round(Sizes(ch), read)
       IN  /\ read' = r
           /\ pool' = IF r.le \in {NoEntry} \cup 1..r.startat THEN pool
                      ELSE [pool EXCEPT ![ch][r.le] = Used(@, r.done)]
    /\ UNCHANGED <<channels, pc, flush, todo, delivered, ticks, expired>>

ReadEnds ==
    /\ read # NoRead /\ read.done
    /\ read' = NoRead /\ todo' = Tail(todo)
    /\ UNCHANGED <<pool, channels, pc, flush, delivered, ticks, expired>>

FrameEnd ==
    /\ pc = "actor" /\ todo = <<>>
    /\ pc' = "input" /\ delivered' = FALSE /\ ticks' = 0
    /\ UNCHANGED <<pool, channels, flush, todo, read, expired>>

Older(s) == [s EXCEPT !.age = IF TooOld(s) THEN @ ELSE @ + 1]

Tick ==
    /\ pc # "dead" /\ (delivered => ticks < FrameTicks)
    /\ pool' = [ch \in Channels |-> [i \in 1..Len(pool[ch]) |-> Older(pool[ch][i])]]
    /\ ticks' = IF delivered THEN ticks + 1 ELSE ticks
    /\ UNCHANGED <<channels, pc, flush, todo, read, delivered, expired>>

Input ==
    \/ \E count \in Counts : visual_audio_samplepool_input(count)
    \/ \E ch \in Channels, size \in DirectSizes : visual_audio_samplepool_input_channel(ch, size)

InFrame ==
    \/ FlushStep \/ FlushEnds
    \/ visual_audio_get_sample \/ visual_ringbuffer_get_data_offset \/ ReadEnds
    \/ \E n \in Requests : visual_actor_run(n)
    \/ FrameEnd

Next == Input \/ visual_audio_analyze \/ InFrame \/ Tick

Spec == Init /\ [][Next]_vars

\* A frame is a function call: it goes on until it returns.
FairSpec == Spec /\ WF_vars(InFrame)

-----------------------------------------------------------------------------
TypeOK ==
    /\ \A ch \in Channels : \A i \in 1..Len(pool[ch]) :
           /\ pool[ch][i].age \in 0..TIMEOUT + 1 /\ pool[ch][i].size \in Nat
           /\ pool[ch][i].refs \in Nat /\ pool[ch][i].old \in BOOLEAN
    /\ channels \in Seq(Channels)
    /\ pc \in {"input", "flush", "analyze", "actor", "dead"}
    /\ delivered \in BOOLEAN /\ ticks \in 0..FrameTicks

\* Whatever fragments it is made of, and however often it wraps, a read gives
\* the bytes of the ring in order from its offset.
ReadsTheRing ==
    read # NoRead /\ read.done /\ Sizes(Head(todo).ch) # <<>> =>
        read.data = RingBytes(Sizes(Head(todo).ch), read.offset, read.nbytes)

\* An actor's data ends with the newest sample.
NewestLast ==
    pc = "actor" /\ read # NoRead /\ read.done =>
        LET sizes == Sizes(Head(todo).ch)
        IN  read.data[read.nbytes] = <<Len(sizes), sizes[Len(sizes)]>>

\* A flush skips the sample after each one it destroys: of the samples too old
\* when it begins it leaves at most half, and so each one goes in the end.
FlushHalves ==
    pc = "flush" /\ flush.channel > Len(channels) =>
        \A ch \in Channels :
            2 * Cardinality({i \in 1..Len(pool[ch]) : pool[ch][i].old}) <= expired[ch]

\* Every path out of a read gives back the buffers it was handed.
BuffersReturned == \A ch \in Channels : \A i \in 1..Len(pool[ch]) : pool[ch][i].refs <= 1

\* lv_ringbuffer.c:216: "return immediately if there are no elements in the
\* list": to read an empty channel is no error.
EmptyReadReturns == pc # "dead"

\* Every frame comes to its end.
FrameEnds == (pc = "flush") ~> (pc \in {"input", "dead"})
=============================================================================
