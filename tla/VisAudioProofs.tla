---------------------------- MODULE VisAudioProofs ----------------------------
(***************************************************************************)
(* Why an actor never reads an empty channel while the input gives a       *)
(* stereo sample in every frame: the sample of this frame is too young to  *)
(* be flushed, so it is still there when the actor asks.  Why a flush      *)
(* leaves at most half of what is too old.  And why every read, however    *)
(* the ring is cut into samples and however often it comes round, gives    *)
(* the bytes of the ring in order, an actor's ending with the newest one.  *)
(* And why a frame comes to its end: every step inside of it leaves less   *)
(* to do, counted by parts of the frame, channels, entries and bytes.      *)
(* All for any sizes, any number of samples and any order of steps.        *)
(***************************************************************************)
EXTENDS VisAudio, SequenceTheorems, FiniteSetTheorems, WellFoundedInduction, TLAPS

-----------------------------------------------------------------------------
(* Induction over lengths, and what is left of a list without an entry.    *)

\* A set of numbers that has 0 and with each number the next one has them all:
\* the least number it had not would have one before it.
LEMMA NatSetInduction ==
    ASSUME NEW S, 0 \in S, \A n \in Nat : n \in S => n + 1 \in S
    PROVE  \A n \in Nat : n \in S
<1> DEFINE R == {ss \in Nat \X Nat : ss[1] < ss[2]}
           T == {n \in Nat : n \notin S}
<1>1. SUFFICES ASSUME T # {} PROVE FALSE  OBVIOUS
<1>2. IsWellFoundedOn(R, Nat)  BY NatLessThanWellFounded, Zenon DEF OpToRel
<1>3. T \subseteq Nat  OBVIOUS
<1>4. \A x, y \in Nat : x < y => <<x, y>> \in R  OBVIOUS
<1> HIDE DEF R, T
<1>5. PICK x \in T : \A y \in T : ~(<<y, x>> \in R)  BY <1>1, <1>2, <1>3, WFMin
<1>6. x \in Nat /\ x \notin S  BY DEF T
<1>7. x # 0  BY <1>6
<1>8. x - 1 \in Nat /\ (x - 1) + 1 = x  BY <1>6, <1>7
<1>9. x - 1 \notin S  BY <1>6, <1>8
<1>10. x - 1 \in T  BY <1>8, <1>9 DEF T
<1>11. <<x - 1, x>> \in R  BY <1>4, <1>6, <1>8
<1> QED BY <1>5, <1>10, <1>11

\* A set of positions that has with each one all before it.
LEMMA PrefixExists ==
    ASSUME NEW n \in Nat, NEW P \in SUBSET (1..n), \A j \in P : \A i \in 1..j : i \in P
    PROVE  \E p \in 0..n : P = 1..p
<1> DEFINE R == {ss \in Nat \X Nat : ss[1] < ss[2]}
           T == {k \in Nat : k + 1 \notin P}
<1>1. n \in T  OBVIOUS
<1>2. IsWellFoundedOn(R, Nat)  BY NatLessThanWellFounded, Zenon DEF OpToRel
<1>3. T \subseteq Nat /\ T # {}  BY <1>1
<1>4. \A x, y \in Nat : x < y => <<x, y>> \in R  OBVIOUS
<1> HIDE DEF R
<1>5. PICK x \in T : \A y \in T : ~(<<y, x>> \in R)  BY <1>2, <1>3, WFMin
<1>6. x \in Nat /\ x + 1 \notin P /\ \A y \in Nat : y < x => y + 1 \in P  BY <1>4, <1>5
<1>7. x <= n
  <2>1. ~(n < x)
    <3> HIDE DEF T
    <3> QED BY <1>1, <1>4, <1>5, <1>6
  <2> QED BY <1>6, <2>1
<1>8. 1..x \subseteq P
  <2> SUFFICES ASSUME NEW z \in 1..x PROVE z \in P  OBVIOUS
  <2>1. z - 1 \in Nat /\ z - 1 < x /\ (z - 1) + 1 = z  BY <1>6
  <2> QED BY <1>6, <2>1
<1>9. P \subseteq 1..x
  <2> SUFFICES ASSUME NEW z \in P, z \notin 1..x PROVE FALSE  OBVIOUS
  <2>1. x + 1 \in 1..z  BY <1>6
  <2> QED BY <1>6, <2>1
<1>10. P = 1..x  BY <1>8, <1>9
<1>11. x \in 0..n  BY <1>6, <1>7
<1> HIDE DEF T
<1> QED BY <1>10, <1>11

\* What is left of a list without its i-th entry.
LEMMA RemoveAtIs ==
    ASSUME NEW S, NEW list \in Seq(S), NEW i \in 1..Len(list)
    PROVE  /\ RemoveAt(list, i) \in Seq(S) /\ Len(RemoveAt(list, i)) = Len(list) - 1
           /\ \A k \in 1..Len(list) - 1 :
                  RemoveAt(list, i)[k] = IF k < i THEN list[k] ELSE list[k + 1]
<1> DEFINE a == SubSeq(list, 1, i - 1)
           b == SubSeq(list, i + 1, Len(list))
<1>1. a \in Seq(S) /\ Len(a) = i - 1 /\ \A k \in 1..i - 1 : a[k] = list[k]  OBVIOUS
<1>2. /\ b \in Seq(S) /\ Len(b) = Len(list) - i
      /\ \A k \in 1..Len(list) - i : b[k] = list[i + k]
  OBVIOUS
<1>3. RemoveAt(list, i) = a \o b  BY DEF RemoveAt
<1> HIDE DEF a, b
<1>4. /\ a \o b \in Seq(S) /\ Len(a \o b) = Len(a) + Len(b)
      /\ \A k \in 1..Len(a) + Len(b) :
             (a \o b)[k] = IF k <= Len(a) THEN a[k] ELSE b[k - Len(a)]
  BY <1>1, <1>2, ConcatProperties
<1>5. Len(list) \in Nat /\ Len(a) + Len(b) = Len(list) - 1  BY <1>1, <1>2
<1>6. ASSUME NEW k \in 1..Len(list) - 1
      PROVE  (a \o b)[k] = IF k < i THEN list[k] ELSE list[k + 1]
  <2>1. CASE k < i
    <3>1. k \in 1..i - 1 /\ k <= Len(a)  BY <1>1, <2>1
    <3> QED BY <1>1, <1>4, <1>5, <2>1, <3>1
  <2>2. CASE ~(k < i)
    <3>1. k - Len(a) \in 1..Len(list) - i /\ ~(k <= Len(a)) /\ i + (k - Len(a)) = k + 1
      BY <1>1, <1>5, <2>2
    <3>2. b[k - Len(a)] = list[i + (k - Len(a))]  BY <1>2, <3>1
    <3> QED BY <1>4, <1>5, <2>2, <3>1, <3>2
  <2> QED BY <2>1, <2>2
<1> QED BY <1>3, <1>4, <1>5, <1>6

\* Deleting an entry leaves the others.
LEMMA RemovedEntry ==
    ASSUME NEW S, NEW list \in Seq(S), NEW i \in 1..Len(list)
    PROVE  /\ RemoveAt(list, i) \in Seq(S)
           /\ \A j \in 1..Len(list) : j # i =>
                  \E k \in 1..Len(RemoveAt(list, i)) : RemoveAt(list, i)[k] = list[j]
<1> DEFINE less == RemoveAt(list, i)
<1>1. /\ less \in Seq(S) /\ Len(less) = Len(list) - 1 /\ Len(list) \in Nat
      /\ \A k \in 1..Len(list) - 1 : less[k] = IF k < i THEN list[k] ELSE list[k + 1]
  BY RemoveAtIs
<1> HIDE DEF less
<1>2. ASSUME NEW j \in 1..Len(list), j # i PROVE \E k \in 1..Len(less) : less[k] = list[j]
  <2>1. CASE j < i
    <3>1. j \in 1..Len(less) /\ less[j] = list[j]  BY <1>1, <2>1
    <3> QED BY <3>1
  <2>2. CASE j > i
    <3>1. j - 1 \in 1..Len(less) /\ ~(j - 1 < i) /\ (j - 1) + 1 = j  BY <1>1, <2>2
    <3>2. less[j - 1] = list[j]  BY <1>1, <3>1
    <3> QED BY <3>1, <3>2
  <2> QED BY <1>2, <2>1, <2>2
<1> QED BY <1>1, <1>2 DEF less

\* Between two steps a sample's float buffer has the reference of the sample.
SampleRecords == [age : Nat, size : Nat, refs : 0..1, old : BOOLEAN]

ReadRequests == [ch : Channels, n : Nat, fromend : BOOLEAN]

\* There is a sample that is not empty and no older than t.
Alive(list, t) == \E i \in 1..Len(list) : list[i].size > 0 /\ list[i].age <= t

\* The lists have the same length, sizes and ages.
Alike(list, other) ==
    /\ Len(list) = Len(other)
    /\ \A i \in 1..Len(list) : list[i].size = other[i].size /\ list[i].age = other[i].age

\* Handing out buffers leaves what the flush looks at.
AlikeOld(list, other) ==
    /\ Alike(list, other)
    /\ \A i \in 1..Len(list) : list[i].old = other[i].old

AudioTypes ==
    /\ pool \in [Channels -> Seq(SampleRecords)]
    /\ channels \in Seq(Channels)
    /\ flush \in [channel : Nat \ {0}, le : Nat]
    /\ todo \in Seq(ReadRequests)
    /\ todo = <<>> => read = NoRead
    /\ ticks \in 0..FrameTicks

\* The inductive invariant.
AudioInvariant ==
    /\ AudioTypes
    /\ pc \in {"input", "flush", "analyze", "actor"}
    /\ pc # "input" => delivered
    /\ delivered => \A ch \in Channels : Alive(pool[ch], ticks)

-----------------------------------------------------------------------------
\* Marking a sample and handing out its buffer change neither size nor age.
LEMMA MarkedSample ==
    ASSUME NEW s \in SampleRecords, NEW b \in BOOLEAN
    PROVE  LET t == [s EXCEPT !.old = b]
           IN  t \in SampleRecords /\ t.size = s.size /\ t.age = s.age
BY DEF SampleRecords

LEMMA UsedSample ==
    ASSUME NEW s \in SampleRecords, NEW filled
    PROVE  /\ Used(s, filled) \in SampleRecords
           /\ Used(s, filled).size = s.size /\ Used(s, filled).age = s.age
           /\ Used(s, filled).old = s.old
<1> DEFINE refs == (IF s.refs = 0 THEN 2 ELSE s.refs + 1) - 1
<1>1. refs \in 0..1  BY DEF SampleRecords
<1>2. Used(s, filled) = [s EXCEPT !.refs = refs]  BY DEF Used
<1> HIDE DEF refs
<1> QED BY <1>1, <1>2 DEF SampleRecords

LEMMA AlikeAlive ==
    ASSUME NEW list, NEW other, Alike(list, other), NEW t, Alive(list, t)
    PROVE  Alive(other, t)
BY DEF Alike, Alive

\* A list whose samples are replaced one by one.
LEMMA LikeList ==
    ASSUME NEW list \in Seq(SampleRecords), NEW other,
           other = [i \in 1..Len(list) |-> other[i]],
           \A i \in 1..Len(list) :
               /\ other[i] \in SampleRecords
               /\ other[i].size = list[i].size /\ other[i].age = list[i].age
    PROVE  other \in Seq(SampleRecords) /\ Alike(list, other)
<1>1. Len(list) \in Nat  OBVIOUS
<1>2. other \in Seq(SampleRecords) /\ Len(other) = Len(list)  BY <1>1
<1> QED BY <1>2 DEF Alike

LEMMA UsedList ==
    ASSUME NEW list \in Seq(SampleRecords), NEW k, NEW filled
    PROVE  LET other == [list EXCEPT ![k] = Used(list[k], filled)]
           IN  other \in Seq(SampleRecords) /\ AlikeOld(list, other)
<1> DEFINE other == [list EXCEPT ![k] = Used(list[k], filled)]
<1>1. \A i \in 1..Len(list) : list[i] \in SampleRecords  OBVIOUS
<1>2. \A i \in 1..Len(list) : other[i] = IF i = k THEN Used(list[k], filled) ELSE list[i]
  OBVIOUS
<1>3. \A i \in 1..Len(list) :
          /\ other[i] \in SampleRecords /\ other[i].size = list[i].size
          /\ other[i].age = list[i].age /\ other[i].old = list[i].old
  BY <1>1, <1>2, UsedSample
<1>4. other = [i \in 1..Len(list) |-> other[i]]  OBVIOUS
<1> HIDE DEF other
<1>5. other \in Seq(SampleRecords) /\ AlikeOld(list, other)  BY <1>3, <1>4, LikeList DEF AlikeOld
<1> QED BY <1>5 DEF other

LEMMA UsedPool ==
    ASSUME pool \in [Channels -> Seq(SampleRecords)], NEW c, NEW k, NEW filled,
           pool' = [pool EXCEPT ![c][k] = Used(@, filled)]
    PROVE  /\ pool' \in [Channels -> Seq(SampleRecords)]
           /\ \A ch \in Channels : AlikeOld(pool[ch], pool'[ch])
<1>1. \A ch \in Channels : pool[ch] \in Seq(SampleRecords)  OBVIOUS
<1>2. CASE c \in Channels
  <2> DEFINE other == [pool[c] EXCEPT ![k] = Used(pool[c][k], filled)]
  <2>1. other \in Seq(SampleRecords) /\ AlikeOld(pool[c], other)  BY <1>1, <1>2, UsedList
  <2>2. pool' = [pool EXCEPT ![c] = other]  OBVIOUS
  <2> HIDE DEF other
  <2>3. \A ch \in Channels : AlikeOld(pool[ch], pool[ch])  BY DEF Alike, AlikeOld
  <2> QED BY <1>2, <2>1, <2>2, <2>3
<1>3. CASE c \notin Channels
  <2>1. pool' = pool  BY <1>3
  <2> QED BY <2>1 DEF Alike, AlikeOld
<1> QED BY <1>2, <1>3

\* A sample that is added, and those that are there already.
LEMMA AddedSample ==
    ASSUME NEW list \in Seq(SampleRecords), NEW size \in Nat
    PROVE  /\ Append(list, Sample(size)) \in Seq(SampleRecords)
           /\ \A t \in Nat : Alive(list, t) => Alive(Append(list, Sample(size)), t)
           /\ size > 0 => \A t \in Nat : Alive(Append(list, Sample(size)), t)
<1> DEFINE other == Append(list, Sample(size))
<1>1. Sample(size) \in SampleRecords /\ Sample(size).size = size /\ Sample(size).age = 0
  BY DEF Sample, SampleRecords
<1>2. /\ other \in Seq(SampleRecords) /\ Len(other) = Len(list) + 1 /\ Len(list) \in Nat
      /\ \A i \in 1..Len(list) : other[i] = list[i]
      /\ other[Len(list) + 1] = Sample(size)
  BY <1>1
<1> HIDE DEF other
<1>3. ASSUME NEW t \in Nat, Alive(list, t) PROVE Alive(other, t)
  <2>1. PICK i \in 1..Len(list) : list[i].size > 0 /\ list[i].age <= t  BY <1>3 DEF Alive
  <2>2. i \in 1..Len(other) /\ other[i] = list[i]  BY <1>2, <2>1
  <2> QED BY <2>1, <2>2 DEF Alive
<1>4. ASSUME NEW t \in Nat, size > 0 PROVE Alive(other, t)
  <2>1. Len(list) + 1 \in 1..Len(other)  BY <1>2
  <2> QED BY <1>1, <1>2, <1>4, <2>1 DEF Alive
<1> QED BY <1>2, <1>3, <1>4 DEF other

\* The flush destroys no sample that is young enough.
LEMMA FlushedList ==
    ASSUME NEW list \in Seq(SampleRecords), NEW i \in 1..Len(list), TooOld(list[i]),
           NEW t \in 0..FrameTicks, Alive(list, t)
    PROVE  Alive(RemoveAt(list, i), t)
<1>1. PICK j \in 1..Len(list) : list[j].size > 0 /\ list[j].age <= t  BY DEF Alive
<1>2. j # i
  <2>1. list[i] \in SampleRecords  OBVIOUS
  <2>4. list[i].age \in Nat  BY <2>1 DEF SampleRecords
  <2>2. list[i].age > TIMEOUT  BY DEF TooOld
  <2>3. t <= TIMEOUT /\ t \in Int /\ TIMEOUT \in Int  BY TimesAssumption
  <2> QED BY <1>1, <2>2, <2>3, <2>4
<1>3. PICK k \in 1..Len(RemoveAt(list, i)) : RemoveAt(list, i)[k] = list[j]
  BY <1>2, RemovedEntry
<1> QED BY <1>1, <1>3 DEF Alive

\* A tick makes every sample a tick older at most.
LEMMA OlderList ==
    ASSUME NEW list \in Seq(SampleRecords)
    PROVE  LET other == [i \in 1..Len(list) |-> Older(list[i])]
           IN  /\ other \in Seq(SampleRecords)
               /\ \A t \in Nat : Alive(list, t) => Alive(other, t + 1)
<1> DEFINE other == [i \in 1..Len(list) |-> Older(list[i])]
<1>1. ASSUME NEW i \in 1..Len(list)
      PROVE  /\ Older(list[i]) \in SampleRecords /\ Older(list[i]).size = list[i].size
             /\ Older(list[i]).age <= list[i].age + 1 /\ list[i].age \in Nat
             /\ Older(list[i]).age \in Nat
  <2> DEFINE age == IF TooOld(list[i]) THEN list[i].age ELSE list[i].age + 1
  <2>1. list[i] \in SampleRecords  OBVIOUS
  <2>2. list[i].age \in Nat /\ age \in Nat /\ age <= list[i].age + 1  BY <2>1 DEF SampleRecords
  <2>3. Older(list[i]) = [list[i] EXCEPT !.age = age]  BY DEF Older
  <2> HIDE DEF age
  <2>4. /\ [list[i] EXCEPT !.age = age] \in SampleRecords
        /\ [list[i] EXCEPT !.age = age].size = list[i].size
        /\ [list[i] EXCEPT !.age = age].age = age
    BY <2>1, <2>2 DEF SampleRecords
  <2> QED BY <2>2, <2>3, <2>4
<1>2. other \in Seq(SampleRecords) /\ Len(other) = Len(list)
  BY <1>1
<1>3. ASSUME NEW t \in Nat, Alive(list, t) PROVE Alive(other, t + 1)
  <2>1. PICK i \in 1..Len(list) : list[i].size > 0 /\ list[i].age <= t  BY <1>3 DEF Alive
  <2>2. other[i] = Older(list[i])  OBVIOUS
  <2>3. other[i].size > 0 /\ other[i].age <= t + 1  BY <1>1, <2>1, <2>2
  <2> HIDE DEF other
  <2>4. i \in 1..Len(other)  BY <1>2
  <2> QED BY <2>3, <2>4 DEF Alive
<1> QED BY <1>2, <1>3

-----------------------------------------------------------------------------
\* Steps that leave sizes and ages alone keep what is alive.
LEMMA StillAlive ==
    ASSUME AudioInvariant, delivered' = delivered, ticks' = ticks,
           \A ch \in Channels : Alike(pool[ch], pool'[ch])
    PROVE  delivered' => \A ch \in Channels : Alive(pool'[ch], ticks')
<1> SUFFICES ASSUME delivered, NEW ch \in Channels PROVE Alive(pool'[ch], ticks)
  OBVIOUS
<1>1. Alive(pool[ch], ticks)  BY DEF AudioInvariant
<1> QED BY <1>1, AlikeAlive

LEMMA WithChannelTyped ==
    ASSUME NEW list \in Seq(Channels), NEW ch \in Channels
    PROVE  WithChannel(list, ch) \in Seq(Channels)
BY DEF WithChannel

LEMMA ReadingTyped ==
    ASSUME NEW n \in Nat, NEW fromend \in BOOLEAN
    PROVE  Reading(n, fromend) \in Seq(ReadRequests) /\ Reading(n, fromend) # <<>>
<1> DEFINE l == [ch |-> "left", n |-> n, fromend |-> fromend]
           r == [ch |-> "right", n |-> n, fromend |-> fromend]
<1>1. l \in ReadRequests /\ r \in ReadRequests  BY DEF ReadRequests, Channels
<1>2. Reading(n, fromend) = <<l, r>>  BY DEF Reading
<1> HIDE DEF l, r
<1> QED BY <1>1, <1>2

LEMMA InitHolds == Init => AudioInvariant
<1> SUFFICES ASSUME Init PROVE AudioInvariant  OBVIOUS
<1>1. <<>> \in Seq(SampleRecords) /\ <<>> \in Seq(Channels) /\ <<>> \in Seq(ReadRequests)
  OBVIOUS
<1>2. 0 \in 0..FrameTicks  BY TimesAssumption
<1> QED BY <1>1, <1>2 DEF Init, AudioInvariant, AudioTypes, NoFlush, NoEntry

LEMMA InputHolds ==
    ASSUME AudioInvariant, NEW count \in Counts, visual_audio_samplepool_input(count)
    PROVE  AudioInvariant'
<1>1. AudioTypes /\ pc = "input" /\ pc' = pc /\ UNCHANGED <<flush, todo, read, ticks>>
  BY DEF AudioInvariant, visual_audio_samplepool_input
<1>2. ticks \in Nat  BY <1>1, TimesAssumption DEF AudioTypes
<1>3. CASE count > 2
  <2> DEFINE size == count \div 2
  <2>1. size \in Nat /\ size > 0
    <3>1. count \in Nat  BY SizesAssumption
    <3> QED BY <1>3, <3>1
  <2>2. /\ pool' = [ch \in Channels |-> Append(pool[ch], Sample(size))]
        /\ channels' = WithChannel(WithChannel(channels, "left"), "right")
    BY <1>3 DEF visual_audio_samplepool_input
  <2> HIDE DEF size
  <2>3. ASSUME NEW ch \in Channels
        PROVE  pool'[ch] \in Seq(SampleRecords) /\ Alive(pool'[ch], ticks)
    <3>1. pool[ch] \in Seq(SampleRecords)  BY <1>1, <2>3 DEF AudioTypes
    <3>2. pool'[ch] = Append(pool[ch], Sample(size))  BY <2>2, <2>3
    <3> QED BY <1>2, <2>1, <3>1, <3>2, AddedSample
  <2>4. pool' \in [Channels -> Seq(SampleRecords)]
    <3>1. pool' = [ch \in Channels |-> pool'[ch]]  BY <2>2
    <3> QED BY <2>3, <3>1
  <2>5. channels' \in Seq(Channels)
    <3>1. channels \in Seq(Channels) /\ "left" \in Channels /\ "right" \in Channels
      BY <1>1 DEF AudioTypes, Channels
    <3> QED BY <2>2, <3>1, WithChannelTyped
  <2> QED BY <1>1, <2>3, <2>4, <2>5 DEF AudioInvariant, AudioTypes
<1>4. CASE ~(count > 2)
  BY <1>1, <1>4 DEF visual_audio_samplepool_input, AudioInvariant, AudioTypes
<1> QED BY <1>3, <1>4

LEMMA InputChannelHolds ==
    ASSUME AudioInvariant, NEW c \in Channels, NEW size \in DirectSizes,
           visual_audio_samplepool_input_channel(c, size)
    PROVE  AudioInvariant'
<1>1. AudioTypes /\ pc = "input" /\ pc' = pc
      /\ UNCHANGED <<flush, todo, read, ticks, delivered>>
  BY DEF AudioInvariant, visual_audio_samplepool_input_channel
<1>2. ticks \in Nat /\ size \in Nat  BY <1>1, TimesAssumption, SizesAssumption DEF AudioTypes
<1>3. /\ pool' = [pool EXCEPT ![c] = Append(pool[c], Sample(size))]
      /\ channels' = WithChannel(channels, c)
  BY DEF visual_audio_samplepool_input_channel
<1>4. pool[c] \in Seq(SampleRecords)  BY <1>1 DEF AudioTypes
<1>5. /\ Append(pool[c], Sample(size)) \in Seq(SampleRecords)
      /\ Alive(pool[c], ticks) => Alive(Append(pool[c], Sample(size)), ticks)
  BY <1>2, <1>4, AddedSample
<1>6. pool' \in [Channels -> Seq(SampleRecords)]  BY <1>1, <1>3, <1>5 DEF AudioTypes
<1>7. channels' \in Seq(Channels)  BY <1>1, <1>3, WithChannelTyped DEF AudioTypes
<1>8. delivered' => \A ch \in Channels : Alive(pool'[ch], ticks')
  BY <1>1, <1>3, <1>5 DEF AudioInvariant, AudioTypes
<1> QED BY <1>1, <1>6, <1>7, <1>8 DEF AudioInvariant, AudioTypes

LEMMA AnalyzeHolds ==
    ASSUME ~Silent, AudioInvariant, visual_audio_analyze
    PROVE  AudioInvariant'
<1>1. /\ AudioTypes /\ delivered /\ pc' = "flush" /\ flush' = NoFlush
      /\ UNCHANGED <<channels, todo, read, delivered, ticks>>
      /\ pool' = [ch \in Channels |-> [i \in 1..Len(pool[ch]) |->
                      [pool[ch][i] EXCEPT !.old = TooOld(pool[ch][i])]]]
  BY DEF AudioInvariant, visual_audio_analyze
<1>2. ASSUME NEW ch \in Channels
      PROVE  pool'[ch] \in Seq(SampleRecords) /\ Alike(pool[ch], pool'[ch])
  <2>1. pool[ch] \in Seq(SampleRecords)  BY <1>1, <1>2 DEF AudioTypes
  <2>2. pool'[ch] = [i \in 1..Len(pool[ch]) |-> [pool[ch][i] EXCEPT !.old = TooOld(pool[ch][i])]]
    BY <1>1, <1>2
  <2>3. pool'[ch] = [i \in 1..Len(pool[ch]) |-> pool'[ch][i]]  BY <2>2
  <2>4. ASSUME NEW i \in 1..Len(pool[ch])
        PROVE  /\ pool'[ch][i] \in SampleRecords
               /\ pool'[ch][i].size = pool[ch][i].size /\ pool'[ch][i].age = pool[ch][i].age
    <3>1. pool[ch][i] \in SampleRecords  BY <2>1, <2>4
    <3>2. TooOld(pool[ch][i]) \in BOOLEAN  BY DEF TooOld
    <3>3. pool'[ch][i] = [pool[ch][i] EXCEPT !.old = TooOld(pool[ch][i])]  BY <2>2, <2>4
    <3> QED BY <3>1, <3>2, <3>3, MarkedSample
  <2> QED BY <2>1, <2>3, <2>4, LikeList
<1>3. pool' \in [Channels -> Seq(SampleRecords)]
  <2>1. pool' = [ch \in Channels |-> pool'[ch]]  BY <1>1
  <2> QED BY <1>2, <2>1
<1>4. delivered' => \A ch \in Channels : Alive(pool'[ch], ticks')
  BY <1>1, <1>2, StillAlive
<1>5. NoFlush \in [channel : Nat \ {0}, le : Nat]  BY DEF NoFlush, NoEntry
<1>6. AudioTypes'  BY <1>1, <1>3, <1>5 DEF AudioTypes
<1> QED BY <1>1, <1>4, <1>6 DEF AudioInvariant

LEMMA FlushStepHolds ==
    ASSUME AudioInvariant, FlushStep
    PROVE  AudioInvariant'
<1> DEFINE ch == channels[flush.channel]
           i == visual_list_next(pool[ch], flush.le)
           rest == visual_list_delete(pool[ch], i)
<1>1. /\ AudioTypes /\ pc = "flush" /\ pc' = pc /\ delivered
      /\ UNCHANGED <<channels, todo, read, delivered, ticks>>
  BY DEF AudioInvariant, FlushStep
<1>2. flush.channel \in Nat \ {0} /\ flush.le \in Nat  BY <1>1 DEF AudioTypes
<1>3. ch \in Channels
  <2>1. flush.channel <= Len(channels)  BY DEF FlushStep
  <2>2. channels \in Seq(Channels)  BY <1>1 DEF AudioTypes
  <2>3. flush.channel \in 1..Len(channels)  BY <1>2, <2>1, <2>2
  <2> QED BY <2>2, <2>3
<1>4. pool[ch] \in Seq(SampleRecords)  BY <1>1, <1>3 DEF AudioTypes
<1>5. i = NoEntry \/ i \in 1..Len(pool[ch])
  <2>1. Len(pool[ch]) \in Nat  BY <1>4
  <2> HIDE DEF ch
  <2> QED BY <1>2, <2>1 DEF visual_list_next
<1>6. /\ i = NoEntry => flush' = [channel |-> flush.channel + 1, le |-> NoEntry] /\ pool' = pool
      /\ i # NoEntry /\ ~TooOld(pool[ch][i]) => flush' = [flush EXCEPT !.le = i] /\ pool' = pool
      /\ i # NoEntry /\ TooOld(pool[ch][i]) =>
             /\ pool' = [pool EXCEPT ![ch] = rest.list]
             /\ flush' = [channel |-> IF rest.le = NoEntry THEN flush.channel + 1 ELSE flush.channel,
                          le |-> rest.le]
  BY DEF FlushStep
<1>7. /\ rest.list = RemoveAt(pool[ch], i)
      /\ rest.le = IF i < Len(pool[ch]) THEN i ELSE NoEntry
  BY DEF visual_list_delete
<1> HIDE DEF ch, i, rest
<1>8. i \in Nat /\ rest.le \in Nat
  <2>1. Len(pool[ch]) \in Nat  BY <1>4
  <2> QED BY <1>5, <1>7, <2>1 DEF NoEntry
<1>9. flush' \in [channel : Nat \ {0}, le : Nat]
  <2>1. flush.channel + 1 \in Nat \ {0} /\ NoEntry \in Nat  BY <1>2 DEF NoEntry
  <2>2. flush \in [channel : Nat \ {0}, le : Nat]  BY <1>1 DEF AudioTypes
  <2> QED BY <1>2, <1>6, <1>8, <2>1, <2>2
<1>10. CASE pool' = pool
  BY <1>1, <1>9, <1>10 DEF AudioInvariant, AudioTypes
<1>11. CASE i # NoEntry /\ TooOld(pool[ch][i])
  <2>1. i \in 1..Len(pool[ch])  BY <1>5, <1>11
  <2>2. pool' = [pool EXCEPT ![ch] = RemoveAt(pool[ch], i)]  BY <1>6, <1>7, <1>11
  <2>3. RemoveAt(pool[ch], i) \in Seq(SampleRecords)  BY <1>4, <2>1, RemovedEntry
  <2>4. Alive(RemoveAt(pool[ch], i), ticks)
    <3>1. Alive(pool[ch], ticks) /\ ticks \in 0..FrameTicks
      BY <1>1, <1>3 DEF AudioInvariant, AudioTypes
    <3> QED BY <1>4, <1>11, <2>1, <3>1, FlushedList
  <2>5. pool' \in [Channels -> Seq(SampleRecords)]  BY <1>1, <2>2, <2>3 DEF AudioTypes
  <2>6. \A c \in Channels : Alive(pool'[c], ticks)
    BY <1>1, <2>2, <2>4 DEF AudioInvariant, AudioTypes
  <2> QED BY <1>1, <1>9, <2>5, <2>6 DEF AudioInvariant, AudioTypes
<1> QED BY <1>6, <1>10, <1>11

LEMMA FlushEndsHolds ==
    ASSUME AudioInvariant, FlushEnds
    PROVE  AudioInvariant'
<1>1. /\ AudioTypes /\ delivered /\ pc' = "analyze" /\ flush' = NoFlush
      /\ todo' = Reading(AnalyzeSize, FALSE)
      /\ UNCHANGED <<channels, read, delivered, ticks>>
      /\ pool' = [ch \in Channels |-> [i \in 1..Len(pool[ch]) |->
                      [pool[ch][i] EXCEPT !.old = FALSE]]]
  BY DEF AudioInvariant, FlushEnds
<1>2. ASSUME NEW ch \in Channels
      PROVE  pool'[ch] \in Seq(SampleRecords) /\ Alike(pool[ch], pool'[ch])
  <2>1. pool[ch] \in Seq(SampleRecords)  BY <1>1, <1>2 DEF AudioTypes
  <2>2. pool'[ch] = [i \in 1..Len(pool[ch]) |-> [pool[ch][i] EXCEPT !.old = FALSE]]
    BY <1>1, <1>2
  <2>3. pool'[ch] = [i \in 1..Len(pool[ch]) |-> pool'[ch][i]]  BY <2>2
  <2>4. ASSUME NEW i \in 1..Len(pool[ch])
        PROVE  /\ pool'[ch][i] \in SampleRecords
               /\ pool'[ch][i].size = pool[ch][i].size /\ pool'[ch][i].age = pool[ch][i].age
    <3>1. pool[ch][i] \in SampleRecords  BY <2>1, <2>4
    <3>2. pool'[ch][i] = [pool[ch][i] EXCEPT !.old = FALSE]  BY <2>2, <2>4
    <3> QED BY <3>1, <3>2, MarkedSample
  <2> QED BY <2>1, <2>3, <2>4, LikeList
<1>3. pool' \in [Channels -> Seq(SampleRecords)]
  <2>1. pool' = [ch \in Channels |-> pool'[ch]]  BY <1>1
  <2> QED BY <1>2, <2>1
<1>4. delivered' => \A ch \in Channels : Alive(pool'[ch], ticks')
  BY <1>1, <1>2, StillAlive
<1>5. todo' \in Seq(ReadRequests) /\ todo' # <<>>
  <2>1. AnalyzeSize \in Nat  BY SizesAssumption
  <2> QED BY <1>1, <2>1, ReadingTyped
<1>6. NoFlush \in [channel : Nat \ {0}, le : Nat]  BY DEF NoFlush, NoEntry
<1>7. AudioTypes'  BY <1>1, <1>3, <1>5, <1>6 DEF AudioTypes
<1> QED BY <1>1, <1>4, <1>7 DEF AudioInvariant

\* The division by zero: a channel that is read from its end is not empty.
LEMMA GetSampleHolds ==
    ASSUME AudioInvariant, visual_audio_get_sample
    PROVE  AudioInvariant'
<1> DEFINE r == Head(todo)
           first == ReadFrom(Sizes(r.ch), IF r.fromend THEN OffsetFromEnd(Sizes(r.ch), r.n) ELSE 0, r.n)
<1>1. /\ AudioTypes /\ pc \in {"analyze", "actor"} /\ delivered
      /\ todo # <<>> /\ read = NoRead
      /\ UNCHANGED <<channels, flush, delivered, ticks>>
  BY DEF AudioInvariant, visual_audio_get_sample
<1>2. r \in ReadRequests /\ Tail(todo) \in Seq(ReadRequests)
  <2>1. todo \in Seq(ReadRequests) /\ todo # <<>>  BY <1>1 DEF AudioTypes
  <2> QED BY <2>1
<1>3. ~ \A i \in 1..Len(Sizes(r.ch)) : Sizes(r.ch)[i] = 0
  <2>1. r.ch \in Channels  BY <1>2 DEF ReadRequests
  <2>2. Alive(pool[r.ch], ticks) /\ pool[r.ch] \in Seq(SampleRecords)
    BY <1>1, <2>1 DEF AudioInvariant, AudioTypes
  <2>3. PICK i \in 1..Len(pool[r.ch]) : pool[r.ch][i].size > 0  BY <2>2 DEF Alive
  <2>4. Len(Sizes(r.ch)) = Len(pool[r.ch]) /\ Sizes(r.ch)[i] = pool[r.ch][i].size
    <3>1. Len(pool[r.ch]) \in Nat  BY <2>2
    <3> HIDE DEF r
    <3> QED BY <2>3, <3>1 DEF Sizes
  <2> HIDE DEF r
  <2> QED BY <2>3, <2>4
<1>4. /\ ~HasChannel(r.ch) => todo' = Tail(todo) /\ UNCHANGED <<pool, pc, read>>
      /\ HasChannel(r.ch) =>
             /\ pool' = IF first.curposition = 0 THEN pool
                        ELSE [pool EXCEPT ![r.ch][first.startat] = Used(@, first.done)]
             /\ UNCHANGED <<pc, todo>>
  BY <1>3 DEF visual_audio_get_sample
<1> HIDE DEF first
<1>5. pool \in [Channels -> Seq(SampleRecords)]  BY <1>1 DEF AudioTypes
<1>6. /\ pool' \in [Channels -> Seq(SampleRecords)]
      /\ \A ch \in Channels : Alike(pool[ch], pool'[ch])
  <2>1. CASE pool' = pool  BY <1>5, <2>1 DEF Alike
  <2>2. CASE pool' = [pool EXCEPT ![r.ch][first.startat] = Used(@, first.done)]
    <3> HIDE DEF r
    <3> QED BY <1>5, <2>2, UsedPool DEF AlikeOld
  <2> QED BY <1>4, <2>1, <2>2
<1>7. delivered' => \A ch \in Channels : Alive(pool'[ch], ticks')
  BY <1>1, <1>6, StillAlive
<1>8. /\ todo' \in Seq(ReadRequests) /\ pc' = pc
      /\ todo' = <<>> => read' = NoRead
  BY <1>1, <1>2, <1>4 DEF AudioTypes
<1>9. AudioTypes'  BY <1>1, <1>6, <1>8 DEF AudioTypes
<1> QED BY <1>1, <1>7, <1>8, <1>9 DEF AudioInvariant

LEMMA ReadOnHolds ==
    ASSUME AudioInvariant, visual_ringbuffer_get_data_offset
    PROVE  AudioInvariant'
<1> DEFINE r == Round(Sizes(Head(todo).ch), read)
<1>1. AudioTypes /\ read # NoRead /\ UNCHANGED <<channels, pc, flush, todo, delivered, ticks>>
  BY DEF AudioInvariant, visual_ringbuffer_get_data_offset
<1>2. pool' = IF r.le \in {NoEntry} \cup 1..r.startat THEN pool
              ELSE [pool EXCEPT ![Head(todo).ch][r.le] = Used(@, r.done)]
  BY DEF visual_ringbuffer_get_data_offset
<1> HIDE DEF r
<1>3. pool \in [Channels -> Seq(SampleRecords)]  BY <1>1 DEF AudioTypes
<1>4. /\ pool' \in [Channels -> Seq(SampleRecords)]
      /\ \A ch \in Channels : Alike(pool[ch], pool'[ch])
  <2>1. CASE pool' = pool  BY <1>3, <2>1 DEF Alike
  <2>2. CASE pool' = [pool EXCEPT ![Head(todo).ch][r.le] = Used(@, r.done)]
    BY <1>3, <2>2, UsedPool DEF AlikeOld
  <2> QED BY <1>2, <2>1, <2>2
<1>5. delivered' => \A ch \in Channels : Alive(pool'[ch], ticks')
  BY <1>1, <1>4, StillAlive
<1>6. AudioTypes'  BY <1>1, <1>4 DEF AudioTypes
<1> QED BY <1>1, <1>5, <1>6 DEF AudioInvariant

LEMMA ReadEndsHolds ==
    ASSUME AudioInvariant, ReadEnds
    PROVE  AudioInvariant'
<1>1. /\ AudioTypes /\ read # NoRead /\ read' = NoRead /\ todo' = Tail(todo)
      /\ UNCHANGED <<pool, channels, pc, flush, delivered, ticks>>
  BY DEF AudioInvariant, ReadEnds
<1>2. todo' \in Seq(ReadRequests)
  <2>1. todo \in Seq(ReadRequests) /\ todo # <<>>  BY <1>1 DEF AudioTypes
  <2> QED BY <1>1, <2>1
<1> QED BY <1>1, <1>2 DEF AudioInvariant, AudioTypes

LEMMA ActorHolds ==
    ASSUME AudioInvariant, NEW n \in Requests, visual_actor_run(n)
    PROVE  AudioInvariant'
<1>1. /\ AudioTypes /\ pc = "analyze" /\ pc' = "actor" /\ todo' = Reading(n, TRUE)
      /\ UNCHANGED <<pool, channels, flush, read, delivered, ticks>>
  BY DEF AudioInvariant, visual_actor_run
<1>2. todo' \in Seq(ReadRequests) /\ todo' # <<>>
  <2>1. n \in Nat  BY SizesAssumption
  <2> QED BY <1>1, <2>1, ReadingTyped
<1> QED BY <1>1, <1>2 DEF AudioInvariant, AudioTypes

LEMMA FrameEndHolds ==
    ASSUME AudioInvariant, FrameEnd
    PROVE  AudioInvariant'
<1>1. 0 \in 0..FrameTicks  BY TimesAssumption
<1> QED BY <1>1 DEF FrameEnd, AudioInvariant, AudioTypes

LEMMA TickHolds ==
    ASSUME AudioInvariant, Tick
    PROVE  AudioInvariant'
<1>1. /\ AudioTypes /\ (delivered => ticks < FrameTicks)
      /\ pool' = [ch \in Channels |-> [i \in 1..Len(pool[ch]) |-> Older(pool[ch][i])]]
      /\ ticks' = IF delivered THEN ticks + 1 ELSE ticks
      /\ UNCHANGED <<channels, pc, flush, todo, read, delivered>>
  BY DEF AudioInvariant, Tick
<1>2. ticks \in Nat /\ ticks' \in 0..FrameTicks  BY <1>1, TimesAssumption DEF AudioTypes
<1>3. ASSUME NEW ch \in Channels
      PROVE  /\ pool'[ch] \in Seq(SampleRecords)
             /\ Alive(pool[ch], ticks) => Alive(pool'[ch], ticks + 1)
  <2>1. pool[ch] \in Seq(SampleRecords)  BY <1>1, <1>3 DEF AudioTypes
  <2>2. pool'[ch] = [i \in 1..Len(pool[ch]) |-> Older(pool[ch][i])]  BY <1>1, <1>3
  <2> QED BY <1>2, <2>1, <2>2, OlderList
<1>4. pool' \in [Channels -> Seq(SampleRecords)]
  <2>1. pool' = [ch \in Channels |-> pool'[ch]]  BY <1>1
  <2> QED BY <1>3, <2>1
<1>5. delivered' => \A ch \in Channels : Alive(pool'[ch], ticks')
  BY <1>1, <1>3 DEF AudioInvariant
<1>6. AudioTypes'  BY <1>1, <1>2, <1>4 DEF AudioTypes
<1> QED BY <1>1, <1>5, <1>6 DEF AudioInvariant

LEMMA NextHolds ==
    ASSUME ~Silent, AudioInvariant, [Next]_vars
    PROVE  AudioInvariant'
<1>1. CASE UNCHANGED vars  BY <1>1 DEF vars, AudioInvariant, AudioTypes
<1> QED BY <1>1, InputHolds, InputChannelHolds, AnalyzeHolds, FlushStepHolds, FlushEndsHolds,
           GetSampleHolds, ReadOnHolds, ReadEndsHolds, ActorHolds, FrameEndHolds, TickHolds
        DEF Next, Input, InFrame

LEMMA AudioAlways ==
    ASSUME ~Silent
    PROVE  Spec => []AudioInvariant
<1>1. Init => AudioInvariant  BY InitHolds
<1>2. AudioInvariant /\ [Next]_vars => AudioInvariant'  BY NextHolds
<1> QED BY <1>1, <1>2, PTL DEF Spec

\* lv_audio.c:781, lv_ringbuffer.c:367: with an input that gives a stereo sample
\* in every frame no read divides by the size of an empty channel.
THEOREM ReadsNeverEmpty ==
    ASSUME ~Silent
    PROVE  Spec => []EmptyReadReturns
<1>1. AudioInvariant => EmptyReadReturns  BY DEF AudioInvariant, EmptyReadReturns
<1> QED BY <1>1, AudioAlways, PTL

\* lv_audio.c:1237, lv_ringbuffer.c:263: whichever way a read leaves an entry,
\* whole, cut or from its middle, it gives back the buffer it was handed.
THEOREM BuffersGivenBack ==
    ASSUME ~Silent
    PROVE  Spec => []BuffersReturned
<1>1. AudioInvariant => BuffersReturned
  <2> SUFFICES ASSUME AudioInvariant, NEW ch \in Channels, NEW i \in 1..Len(pool[ch])
               PROVE  pool[ch][i].refs <= 1
    BY DEF BuffersReturned
  <2>1. pool[ch] \in Seq(SampleRecords)  BY DEF AudioInvariant, AudioTypes
  <2>2. pool[ch][i] \in SampleRecords  BY <2>1
  <2> QED BY <2>2 DEF SampleRecords
<1> QED BY <1>1, AudioAlways, PTL

-----------------------------------------------------------------------------
(* The flush.  Samples are added at the end of a channel, so that ages fall *)
(* along it and the samples that were too old when the flush began are its  *)
(* first p.  Of these the flush has passed those up to its cursor: for each *)
(* one it passes it has destroyed one.                                      *)

Falling(list) == \A i, j \in 1..Len(list) : i < j => list[i].age >= list[j].age

Olds(list, p) == \A i \in 1..Len(list) : list[i].old <=> i <= p

Smaller(p, q) == IF p < q THEN p ELSE q

\* behind: the entries the flush has passed; before: how many were too old when
\* it began.
FlushedSoFar(list, behind, before) ==
    /\ \A i \in 1..Len(list) : list[i].old => TooOld(list[i])
    /\ \E p \in 0..Len(list) : Olds(list, p) /\ p + Smaller(p, behind) <= before

Behind(c) ==
    IF c < flush.channel THEN Len(pool[channels[c]])
    ELSE IF c = flush.channel THEN flush.le ELSE 0

FlushTypes ==
    /\ pool \in [Channels -> Seq(SampleRecords)] /\ channels \in Seq(Channels)
    /\ flush \in [channel : Nat \ {0}, le : Nat] /\ expired \in [Channels -> Nat]

ChannelsOnce == \A c, d \in 1..Len(channels) : channels[c] = channels[d] => c = d

\* The inductive invariant.
FlushInvariant ==
    /\ FlushTypes /\ ChannelsOnce
    /\ \A ch \in Channels : Falling(pool[ch]) /\ (HasChannel(ch) \/ pool[ch] = <<>>)
    /\ pc = "flush" =>
           /\ flush.channel <= Len(channels) => flush.le <= Len(pool[channels[flush.channel]])
           /\ \A c \in 1..Len(channels) :
                  FlushedSoFar(pool[channels[c]], Behind(c), expired[channels[c]])

\* The flush begins: the samples that are too old are marked, and counted.
LEMMA MarkedPrefix ==
    ASSUME NEW list \in Seq(SampleRecords), Falling(list), NEW other \in Seq(SampleRecords),
           Alike(list, other), \A i \in 1..Len(list) : other[i].old = TooOld(list[i])
    PROVE  /\ FlushedSoFar(other, 0, Cardinality({i \in 1..Len(list) : TooOld(list[i])}))
           /\ Cardinality({i \in 1..Len(list) : TooOld(list[i])}) \in Nat
<1> DEFINE n == Len(list)
           P == {i \in 1..n : TooOld(list[i])}
<1>1. n \in Nat /\ TIMEOUT \in Nat /\ \A i \in 1..n : list[i].age \in Nat
  <2>1. \A i \in 1..n : list[i] \in SampleRecords  OBVIOUS
  <2> QED BY <2>1, TimesAssumption DEF SampleRecords
<1>2. \A j \in P : \A i \in 1..j : i \in P
  <2> SUFFICES ASSUME NEW j \in P, NEW i \in 1..j PROVE i \in P  OBVIOUS
  <2>1. j \in 1..n /\ TooOld(list[j]) /\ i \in 1..n /\ (i < j \/ i = j)  BY <1>1
  <2>2. i < j => list[i].age >= list[j].age  BY <2>1 DEF Falling
  <2>3. TooOld(list[i])  BY <1>1, <2>1, <2>2 DEF TooOld
  <2> QED BY <2>1, <2>3
<1>3. PICK p \in 0..n : P = 1..p
  <2>1. P \in SUBSET (1..n)  OBVIOUS
  <2> HIDE DEF P
  <2> QED BY <1>1, <1>2, <2>1, PrefixExists
<1>4. Cardinality(P) = p
  <2>1. p \in Int /\ 1 \in Int /\ (IF 1 > p THEN 0 ELSE p - 1 + 1) = p  BY <1>1
  <2> HIDE DEF P
  <2> QED BY <1>3, <2>1, FS_Interval
<1>5. Len(other) = n /\ \A i \in 1..n : other[i].age = list[i].age  BY DEF Alike
<1>6. \A i \in 1..n : other[i].old => TooOld(other[i])  BY <1>5 DEF TooOld
<1>7. Olds(other, p)
  <2>1. \A i \in 1..n : other[i].old <=> i \in P  OBVIOUS
  <2> HIDE DEF P
  <2> QED BY <1>1, <1>3, <1>5, <2>1 DEF Olds
<1>8. p + Smaller(p, 0) <= p  BY <1>1 DEF Smaller
<1>9. FlushedSoFar(other, 0, p)  BY <1>3, <1>5, <1>6, <1>7, <1>8 DEF FlushedSoFar
<1>10. p \in Nat  BY <1>1
<1> HIDE DEF P
<1>11. FlushedSoFar(other, 0, Cardinality(P)) /\ Cardinality(P) \in Nat  BY <1>4, <1>9, <1>10
<1> QED BY <1>11 DEF P

LEMMA AlikeFalling ==
    ASSUME NEW list, NEW other, Alike(list, other), Falling(list)
    PROVE  Falling(other)
BY DEF Alike, Falling

LEMMA AlikeFlushed ==
    ASSUME NEW list, NEW other, AlikeOld(list, other), NEW b, NEW e, FlushedSoFar(list, b, e)
    PROVE  FlushedSoFar(other, b, e)
<1>1. PICK p \in 0..Len(list) : Olds(list, p) /\ p + Smaller(p, b) <= e  BY DEF FlushedSoFar
<1>2. Olds(other, p) /\ p \in 0..Len(other)  BY <1>1 DEF AlikeOld, Alike, Olds
<1>3. \A i \in 1..Len(other) : other[i].old => TooOld(other[i])
  BY DEF FlushedSoFar, AlikeOld, Alike, TooOld
<1> QED BY <1>1, <1>2, <1>3 DEF FlushedSoFar

LEMMA AddedFalling ==
    ASSUME NEW list \in Seq(SampleRecords), Falling(list), NEW size \in Nat
    PROVE  Falling(Append(list, Sample(size)))
<1> DEFINE other == Append(list, Sample(size))
<1>1. Sample(size) \in SampleRecords /\ Sample(size).age = 0  BY DEF Sample, SampleRecords
<1>2. /\ Len(other) = Len(list) + 1 /\ Len(list) \in Nat
      /\ \A i \in 1..Len(list) : other[i] = list[i]
      /\ other[Len(list) + 1] = Sample(size)
  BY <1>1
<1>3. \A i \in 1..Len(list) : list[i].age \in Nat
  <2>1. \A i \in 1..Len(list) : list[i] \in SampleRecords  OBVIOUS
  <2> QED BY <2>1 DEF SampleRecords
<1> HIDE DEF other
<1> SUFFICES ASSUME NEW i \in 1..Len(other), NEW j \in 1..Len(other), i < j
             PROVE  other[i].age >= other[j].age
  BY DEF Falling, other
<1>4. i \in 1..Len(list) /\ other[i] = list[i]  BY <1>2
<1>5. CASE j \in 1..Len(list)  BY <1>2, <1>4, <1>5 DEF Falling
<1>6. CASE j = Len(list) + 1
  <2>1. other[j].age = 0  BY <1>1, <1>2, <1>6
  <2> QED BY <1>3, <1>4, <2>1
<1> QED BY <1>2, <1>5, <1>6

\* Time goes on alike for all, and what is too old stays so.
LEMMA OlderFlushed ==
    ASSUME NEW list \in Seq(SampleRecords), NEW other,
           other = [i \in 1..Len(list) |-> Older(list[i])]
    PROVE  /\ Len(other) = Len(list)
           /\ Falling(list) => Falling(other)
           /\ \A b, e : FlushedSoFar(list, b, e) => FlushedSoFar(other, b, e)
<1>1. Len(list) \in Nat /\ Len(other) = Len(list) /\ TIMEOUT \in Nat  BY TimesAssumption
<1>2. ASSUME NEW i \in 1..Len(list)
      PROVE  /\ other[i].age = IF list[i].age > TIMEOUT THEN list[i].age ELSE list[i].age + 1
             /\ other[i].old = list[i].old /\ list[i].age \in Nat
  <2> DEFINE age == IF list[i].age > TIMEOUT THEN list[i].age ELSE list[i].age + 1
  <2>1. list[i] \in SampleRecords  OBVIOUS
  <2>2. other[i] = [list[i] EXCEPT !.age = age]  BY DEF Older, TooOld
  <2> HIDE DEF age
  <2>3. other[i].age = age /\ other[i].old = list[i].old /\ list[i].age \in Nat
    BY <2>1, <2>2 DEF SampleRecords
  <2> QED BY <2>3 DEF age
<1> HIDE DEF Older
<1>3. ASSUME Falling(list) PROVE Falling(other)
  <2> SUFFICES ASSUME NEW i \in 1..Len(list), NEW j \in 1..Len(list), i < j
               PROVE  other[i].age >= other[j].age
    BY <1>1 DEF Falling
  <2>1. list[i].age >= list[j].age  BY <1>3 DEF Falling
  <2> QED BY <1>1, <1>2, <2>1
<1>4. ASSUME NEW b, NEW e, FlushedSoFar(list, b, e) PROVE FlushedSoFar(other, b, e)
  <2>1. PICK p \in 0..Len(list) : Olds(list, p) /\ p + Smaller(p, b) <= e
    BY <1>4 DEF FlushedSoFar
  <2>2. Olds(other, p) /\ p \in 0..Len(other)  BY <1>1, <1>2, <2>1 DEF Olds
  <2>3. \A i \in 1..Len(other) : other[i].old => TooOld(other[i])
    BY <1>1, <1>2, <1>4 DEF FlushedSoFar, TooOld
  <2> QED BY <2>1, <2>2, <2>3 DEF FlushedSoFar
<1> QED BY <1>1, <1>3, <1>4

\* One entry goes, and the next one is passed.
LEMMA FlushedOne ==
    ASSUME NEW list \in Seq(SampleRecords), Falling(list), NEW i \in 1..Len(list),
           NEW e \in Nat, FlushedSoFar(list, i - 1, e)
    PROVE  LET less == RemoveAt(list, i)
           IN  /\ less \in Seq(SampleRecords) /\ Len(less) = Len(list) - 1 /\ Falling(less)
               /\ FlushedSoFar(less, IF i < Len(list) THEN i ELSE i - 1, e)
<1> DEFINE n == Len(list)
           less == RemoveAt(list, i)
           behind == IF i < n THEN i ELSE i - 1
<1>1. n \in Nat  OBVIOUS
<1>2. /\ less \in Seq(SampleRecords) /\ Len(less) = n - 1
      /\ \A k \in 1..n - 1 : less[k] = IF k < i THEN list[k] ELSE list[k + 1]
  BY RemoveAtIs
<1> HIDE DEF less
<1>3. Falling(less)
  <2> SUFFICES ASSUME NEW j \in 1..n - 1, NEW k \in 1..n - 1, j < k
               PROVE  less[j].age >= less[k].age
    BY <1>2 DEF Falling
  <2>1. j \in 1..n /\ j + 1 \in 1..n /\ k \in 1..n /\ k + 1 \in 1..n  BY <1>1
  <2>4. j + 1 < k + 1 /\ j < k + 1  OBVIOUS
  <2>2. /\ list[j].age >= list[k].age /\ list[j + 1].age >= list[k + 1].age
        /\ list[j].age >= list[k + 1].age
    BY <2>1, <2>4 DEF Falling
  <2>3. k < i => j < i  OBVIOUS
  <2> QED BY <1>2, <2>2, <2>3
<1>4. PICK p \in 0..n : Olds(list, p) /\ p + Smaller(p, i - 1) <= e  BY DEF FlushedSoFar
<1>5. \A k \in 1..n - 1 : less[k].old => TooOld(less[k])
  <2> SUFFICES ASSUME NEW k \in 1..n - 1, less[k].old PROVE TooOld(less[k])  OBVIOUS
  <2>1. k \in 1..n /\ k + 1 \in 1..n  BY <1>1
  <2> QED BY <1>2, <2>1 DEF FlushedSoFar
<1> DEFINE q == IF i <= p THEN p - 1 ELSE p
<1>6. q \in 0..n - 1 /\ q + Smaller(q, behind) <= e  BY <1>1, <1>4 DEF Smaller
<1>7. \A k \in 1..n - 1 : less[k].old <=> k <= q
  <2> SUFFICES ASSUME NEW k \in 1..n - 1 PROVE less[k].old <=> k <= q  OBVIOUS
  <2>1. k \in 1..n /\ k + 1 \in 1..n  BY <1>1
  <2>2. (list[k].old <=> k <= p) /\ (list[k + 1].old <=> k + 1 <= p)  BY <1>4, <2>1 DEF Olds
  <2> QED BY <1>1, <1>2, <1>4, <2>2
<1> HIDE DEF q, behind
<1>8. FlushedSoFar(less, behind, e)  BY <1>2, <1>5, <1>6, <1>7 DEF FlushedSoFar, Olds
<1> QED BY <1>2, <1>3, <1>8 DEF less, behind

-----------------------------------------------------------------------------
LEMMA FlushInit == Init => FlushInvariant
<1> SUFFICES ASSUME Init PROVE FlushInvariant  OBVIOUS
<1>1. <<>> \in Seq(SampleRecords) /\ <<>> \in Seq(Channels) /\ Len(<<>>) = 0
  OBVIOUS
<1>2. FlushTypes  BY <1>1 DEF Init, FlushTypes, NoFlush, NoEntry
<1>3. \A ch \in Channels : pool[ch] = <<>>  BY DEF Init
<1>4. Falling(<<>>)  BY <1>1 DEF Falling
<1>5. ChannelsOnce /\ pc = "input"  BY <1>1 DEF Init, ChannelsOnce
<1> QED BY <1>2, <1>3, <1>4, <1>5 DEF FlushInvariant

\* Steps that leave the flush where it is, and sizes, ages and marks alone.
LEMMA FlushStays ==
    ASSUME FlushInvariant, UNCHANGED <<channels, flush, expired>>,
           pc' = "flush" => pc = "flush",
           pool' \in [Channels -> Seq(SampleRecords)],
           \A ch \in Channels : AlikeOld(pool[ch], pool'[ch])
    PROVE  FlushInvariant'
<1>1. FlushTypes /\ FlushTypes' /\ ChannelsOnce'
  BY DEF FlushInvariant, FlushTypes, ChannelsOnce
<1>2. ASSUME NEW ch \in Channels
      PROVE  Falling(pool'[ch]) /\ (HasChannel(ch) \/ pool'[ch] = <<>>)
  <2>1. Alike(pool[ch], pool'[ch])  BY DEF AlikeOld
  <2>2. Falling(pool'[ch])  BY <2>1, AlikeFalling DEF FlushInvariant
  <2>3. pool[ch] = <<>> => pool'[ch] = <<>>
    <3>1. pool'[ch] \in Seq(SampleRecords) /\ Len(pool[ch]) = Len(pool'[ch])
      BY <2>1 DEF Alike
    <3> QED BY <3>1
  <2> QED BY <2>2, <2>3 DEF FlushInvariant
<1>3. ASSUME NEW c \in 1..Len(channels) PROVE channels[c] \in Channels
  BY <1>1 DEF FlushTypes
<1>4. ASSUME pc = "flush", NEW c \in 1..Len(channels)
      PROVE  FlushedSoFar(pool'[channels[c]], Behind(c)', expired[channels[c]])
  <2>1. AlikeOld(pool[channels[c]], pool'[channels[c]])  BY <1>3
  <2>2. Behind(c)' = Behind(c)  BY <2>1 DEF Behind, AlikeOld, Alike
  <2>3. FlushedSoFar(pool[channels[c]], Behind(c), expired[channels[c]])
    BY <1>4 DEF FlushInvariant
  <2> QED BY <2>1, <2>2, <2>3, AlikeFlushed
<1>5. ASSUME pc = "flush", flush.channel <= Len(channels)
      PROVE  flush.le <= Len(pool'[channels[flush.channel]])
  <2>1. flush.channel \in 1..Len(channels)  BY <1>1, <1>5 DEF FlushTypes
  <2>2. AlikeOld(pool[channels[flush.channel]], pool'[channels[flush.channel]])  BY <1>3, <2>1
  <2> QED BY <1>5, <2>2 DEF FlushInvariant, AlikeOld, Alike
<1> QED BY <1>1, <1>2, <1>4, <1>5 DEF FlushInvariant, HasChannel

LEMMA WithChannelOnce ==
    ASSUME NEW list \in Seq(Channels), NEW ch \in Channels,
           \A c, d \in 1..Len(list) : list[c] = list[d] => c = d
    PROVE  LET more == WithChannel(list, ch)
           IN  /\ more \in Seq(Channels) /\ \E c \in 1..Len(more) : more[c] = ch
               /\ \A c, d \in 1..Len(more) : more[c] = more[d] => c = d
               /\ \A c \in 1..Len(list) : c \in 1..Len(more) /\ more[c] = list[c]
<1> DEFINE more == WithChannel(list, ch)
<1>1. CASE \E c \in 1..Len(list) : list[c] = ch  BY <1>1 DEF WithChannel
<1>2. CASE ~ \E c \in 1..Len(list) : list[c] = ch
  <2>1. more = Append(list, ch)  BY <1>2 DEF WithChannel
  <2> HIDE DEF more
  <2>2. /\ more \in Seq(Channels) /\ Len(more) = Len(list) + 1 /\ Len(list) \in Nat
        /\ more[Len(list) + 1] = ch /\ \A c \in 1..Len(list) : more[c] = list[c]
    BY <2>1
  <2>3. Len(list) + 1 \in 1..Len(more)  BY <2>2
  <2>4. \A c \in 1..Len(list) : c \in 1..Len(more)  BY <2>2
  <2>5. ASSUME NEW c \in 1..Len(more), NEW d \in 1..Len(more), more[c] = more[d]
        PROVE  c = d
    <3>1. c \in 1..Len(list) \/ c = Len(list) + 1  BY <2>2
    <3>2. d \in 1..Len(list) \/ d = Len(list) + 1  BY <2>2
    <3> QED BY <1>2, <2>2, <2>5, <3>1, <3>2
  <2> QED BY <2>2, <2>3, <2>4, <2>5 DEF more
<1> QED BY <1>1, <1>2

\* An input: no flush is going on.
LEMMA FlushInput ==
    ASSUME FlushInvariant, pc' = "input", UNCHANGED <<flush, expired>>,
           channels' \in Seq(Channels), ChannelsOnce',
           pool' \in [Channels -> Seq(SampleRecords)],
           \A ch \in Channels : Falling(pool'[ch]) /\ (HasChannel(ch)' \/ pool'[ch] = <<>>)
    PROVE  FlushInvariant'
BY DEF FlushInvariant, FlushTypes

LEMMA FlushInputStereo ==
    ASSUME FlushInvariant, NEW count \in Counts, visual_audio_samplepool_input(count)
    PROVE  FlushInvariant'
<1>1. FlushTypes /\ ChannelsOnce /\ pc' = "input" /\ UNCHANGED <<flush, expired>>
  BY DEF FlushInvariant, visual_audio_samplepool_input
<1>2. CASE count > 2
  <2> DEFINE size == count \div 2
             one == WithChannel(channels, "left")
  <2>1. size \in Nat
    <3>1. count \in Nat  BY SizesAssumption
    <3> QED BY <3>1
  <2>2. /\ pool' = [ch \in Channels |-> Append(pool[ch], Sample(size))]
        /\ channels' = WithChannel(one, "right")
    BY <1>2 DEF visual_audio_samplepool_input
  <2> HIDE DEF size
  <2>3. ASSUME NEW ch \in Channels
        PROVE  pool'[ch] \in Seq(SampleRecords) /\ Falling(pool'[ch])
    <3>1. pool[ch] \in Seq(SampleRecords) /\ Falling(pool[ch])
      BY <1>1 DEF FlushTypes, FlushInvariant
    <3>2. pool'[ch] = Append(pool[ch], Sample(size))  BY <2>2
    <3> QED BY <2>1, <3>1, <3>2, AddedFalling, AddedSample
  <2>4. pool' \in [Channels -> Seq(SampleRecords)]
    <3>1. pool' = [ch \in Channels |-> pool'[ch]]  BY <2>2
    <3> QED BY <2>3, <3>1
  <2>5. channels \in Seq(Channels) /\ "left" \in Channels /\ "right" \in Channels
    BY <1>1 DEF FlushTypes, Channels
  <2>6. /\ one \in Seq(Channels) /\ \E c \in 1..Len(one) : one[c] = "left"
        /\ \A c, d \in 1..Len(one) : one[c] = one[d] => c = d
    BY <1>1, <2>5, WithChannelOnce DEF ChannelsOnce
  <2> HIDE DEF one
  <2>7. /\ channels' \in Seq(Channels) /\ \E c \in 1..Len(channels') : channels'[c] = "right"
        /\ \A c, d \in 1..Len(channels') : channels'[c] = channels'[d] => c = d
        /\ \A c \in 1..Len(one) : c \in 1..Len(channels') /\ channels'[c] = one[c]
    <3> DEFINE more == WithChannel(one, "right")
    <3>1. /\ more \in Seq(Channels) /\ \E c \in 1..Len(more) : more[c] = "right"
          /\ \A c, d \in 1..Len(more) : more[c] = more[d] => c = d
          /\ \A c \in 1..Len(one) : c \in 1..Len(more) /\ more[c] = one[c]
      BY <2>5, <2>6, WithChannelOnce
    <3>2. channels' = more  BY <2>2
    <3> HIDE DEF more
    <3> QED BY <3>1, <3>2
  <2>8. \A ch \in Channels : HasChannel(ch)'  BY <2>6, <2>7 DEF HasChannel, Channels
  <2>9. ChannelsOnce'  BY <2>7 DEF ChannelsOnce
  <2> QED BY <1>1, <2>3, <2>4, <2>7, <2>8, <2>9, FlushInput
<1>3. CASE ~(count > 2)
  <2>1. UNCHANGED <<pool, channels>>  BY <1>3 DEF visual_audio_samplepool_input
  <2> QED BY <1>1, <2>1 DEF FlushInvariant, FlushTypes, ChannelsOnce, HasChannel
<1> QED BY <1>2, <1>3

LEMMA FlushInputChannel ==
    ASSUME FlushInvariant, NEW c \in Channels, NEW size \in DirectSizes,
           visual_audio_samplepool_input_channel(c, size)
    PROVE  FlushInvariant'
<1>1. /\ FlushTypes /\ ChannelsOnce /\ pc' = "input" /\ UNCHANGED <<flush, expired>>
      /\ pool' = [pool EXCEPT ![c] = Append(pool[c], Sample(size))]
      /\ channels' = WithChannel(channels, c) /\ size \in Nat
  BY SizesAssumption DEF FlushInvariant, visual_audio_samplepool_input_channel
<1>2. pool \in [Channels -> Seq(SampleRecords)] /\ pool[c] \in Seq(SampleRecords)
      /\ Falling(pool[c])
  BY <1>1 DEF FlushTypes, FlushInvariant
<1>3. /\ Append(pool[c], Sample(size)) \in Seq(SampleRecords)
      /\ Falling(Append(pool[c], Sample(size)))
  BY <1>1, <1>2, AddedFalling, AddedSample
<1>4. pool' \in [Channels -> Seq(SampleRecords)]  BY <1>1, <1>2, <1>3
<1>5. \A ch \in Channels : Falling(pool'[ch]) /\ (ch # c => pool'[ch] = pool[ch])
  BY <1>1, <1>2, <1>3 DEF FlushInvariant
<1>6. /\ channels' \in Seq(Channels) /\ \E d \in 1..Len(channels') : channels'[d] = c
      /\ \A d, b \in 1..Len(channels') : channels'[d] = channels'[b] => d = b
      /\ \A d \in 1..Len(channels) : d \in 1..Len(channels') /\ channels'[d] = channels[d]
  <2> DEFINE more == WithChannel(channels, c)
  <2>1. channels \in Seq(Channels)  BY <1>1 DEF FlushTypes
  <2>2. /\ more \in Seq(Channels) /\ \E d \in 1..Len(more) : more[d] = c
        /\ \A d, b \in 1..Len(more) : more[d] = more[b] => d = b
        /\ \A d \in 1..Len(channels) : d \in 1..Len(more) /\ more[d] = channels[d]
    BY <1>1, <2>1, WithChannelOnce DEF ChannelsOnce
  <2>3. channels' = more  BY <1>1
  <2> HIDE DEF more
  <2> QED BY <2>2, <2>3
<1>7. ASSUME NEW ch \in Channels PROVE HasChannel(ch)' \/ pool'[ch] = <<>>
  <2>1. CASE ch = c  BY <1>6, <2>1 DEF HasChannel
  <2>2. CASE ch # c
    <3>1. HasChannel(ch) => HasChannel(ch)'  BY <1>6 DEF HasChannel
    <3> QED BY <1>5, <2>2, <3>1 DEF FlushInvariant
  <2> QED BY <2>1, <2>2
<1>8. ChannelsOnce'  BY <1>6 DEF ChannelsOnce
<1> QED BY <1>1, <1>4, <1>5, <1>6, <1>7, <1>8, FlushInput

LEMMA FlushBegins ==
    ASSUME FlushInvariant, visual_audio_analyze
    PROVE  FlushInvariant'
<1> DEFINE aged(list) == Cardinality({i \in 1..Len(list) : TooOld(list[i])})
<1>1. /\ FlushTypes /\ ChannelsOnce /\ flush' = NoFlush /\ channels' = channels
      /\ pool' = [ch \in Channels |-> [i \in 1..Len(pool[ch]) |->
                      [pool[ch][i] EXCEPT !.old = TooOld(pool[ch][i])]]]
      /\ expired' = [ch \in Channels |-> aged(pool[ch])]
  BY DEF FlushInvariant, visual_audio_analyze
<1> HIDE DEF aged
<1>2. ASSUME NEW ch \in Channels
      PROVE  /\ pool'[ch] \in Seq(SampleRecords) /\ Alike(pool[ch], pool'[ch])
             /\ Falling(pool'[ch]) /\ (HasChannel(ch) \/ pool'[ch] = <<>>)
             /\ expired'[ch] \in Nat /\ FlushedSoFar(pool'[ch], 0, expired'[ch])
  <2>1. pool[ch] \in Seq(SampleRecords)  BY <1>1, <1>2 DEF FlushTypes
  <2>2. pool'[ch] = [i \in 1..Len(pool[ch]) |-> [pool[ch][i] EXCEPT !.old = TooOld(pool[ch][i])]]
    BY <1>1, <1>2
  <2>3. pool'[ch] = [i \in 1..Len(pool[ch]) |-> pool'[ch][i]]  BY <2>2
  <2>4. ASSUME NEW i \in 1..Len(pool[ch])
        PROVE  /\ pool'[ch][i] \in SampleRecords /\ pool'[ch][i].old = TooOld(pool[ch][i])
               /\ pool'[ch][i].size = pool[ch][i].size /\ pool'[ch][i].age = pool[ch][i].age
    <3>1. pool[ch][i] \in SampleRecords  BY <2>1, <2>4
    <3>2. TooOld(pool[ch][i]) \in BOOLEAN  BY DEF TooOld
    <3>3. pool'[ch][i] = [pool[ch][i] EXCEPT !.old = TooOld(pool[ch][i])]  BY <2>2, <2>4
    <3>4. pool'[ch][i].old = TooOld(pool[ch][i])  BY <3>1, <3>3 DEF SampleRecords
    <3> QED BY <3>1, <3>2, <3>3, <3>4, MarkedSample
  <2>5. pool'[ch] \in Seq(SampleRecords) /\ Alike(pool[ch], pool'[ch])
    BY <2>1, <2>3, <2>4, LikeList
  <2>6. Falling(pool[ch]) /\ (HasChannel(ch) \/ pool[ch] = <<>>)  BY DEF FlushInvariant
  <2>7. Falling(pool'[ch])  BY <2>5, <2>6, AlikeFalling
  <2>8. pool[ch] = <<>> => pool'[ch] = <<>>
    <3>1. Len(pool[ch]) = Len(pool'[ch])  BY <2>5 DEF Alike
    <3> QED BY <2>5, <3>1
  <2>9. expired'[ch] = aged(pool[ch])  BY <1>1
  <2>10. FlushedSoFar(pool'[ch], 0, aged(pool[ch])) /\ aged(pool[ch]) \in Nat
    BY <2>1, <2>4, <2>5, <2>6, MarkedPrefix DEF aged
  <2> QED BY <2>5, <2>6, <2>7, <2>8, <2>9, <2>10
<1>3. FlushTypes'
  <2>1. pool' = [ch \in Channels |-> pool'[ch]] /\ expired' = [ch \in Channels |-> expired'[ch]]
    BY <1>1
  <2>2. pool' \in [Channels -> Seq(SampleRecords)]  BY <1>2, <2>1
  <2>3. expired' \in [Channels -> Nat]  BY <1>2, <2>1
  <2>4. flush' \in [channel : Nat \ {0}, le : Nat]  BY <1>1 DEF NoFlush, NoEntry
  <2> QED BY <1>1, <2>2, <2>3, <2>4 DEF FlushTypes
<1>4. flush'.channel = 1 /\ flush'.le = 0  BY <1>1 DEF NoFlush, NoEntry
<1>5. Len(channels) \in Nat /\ \A c \in 1..Len(channels) : channels[c] \in Channels
  BY <1>1 DEF FlushTypes
<1>6. ASSUME NEW c \in 1..Len(channels)
      PROVE  FlushedSoFar(pool'[channels[c]], Behind(c)', expired'[channels[c]])
  <2>1. Behind(c)' = 0  BY <1>4, <1>5 DEF Behind
  <2> QED BY <1>2, <1>5, <2>1
<1>7. ASSUME flush'.channel <= Len(channels)
      PROVE  flush'.le <= Len(pool'[channels[flush'.channel]])
  <2>1. channels[1] \in Channels  BY <1>4, <1>5, <1>7
  <2>2. pool'[channels[1]] \in Seq(SampleRecords)  BY <1>2, <2>1
  <2>3. Len(pool'[channels[1]]) \in Nat  BY <2>2
  <2> QED BY <1>4, <2>3
<1> QED BY <1>1, <1>2, <1>3, <1>6, <1>7 DEF FlushInvariant, ChannelsOnce, HasChannel

\* The next channel, when the flush has come to the end of one.
LEMMA FlushNext ==
    ASSUME FlushInvariant, pc = "flush", pc' = "flush", UNCHANGED <<channels, expired>>,
           NEW n \in 1..Len(channels), n = flush.channel,
           pool' \in [Channels -> Seq(SampleRecords)],
           \A ch \in Channels : ch # channels[n] => pool'[ch] = pool[ch],
           Falling(pool'[channels[n]]),
           NEW behind \in 0..Len(pool'[channels[n]]),
           FlushedSoFar(pool'[channels[n]], behind, expired[channels[n]]),
           \/ flush' = [channel |-> n, le |-> behind]
           \/ /\ flush' = [channel |-> n + 1, le |-> NoEntry]
              /\ behind = Len(pool'[channels[n]])
    PROVE  FlushInvariant'
<1>1. /\ FlushTypes /\ ChannelsOnce /\ Len(channels) \in Nat
      /\ \A c \in 1..Len(channels) : channels[c] \in Channels
  <2>1. FlushTypes /\ ChannelsOnce  BY DEF FlushInvariant
  <2>2. channels \in Seq(Channels)  BY <2>1 DEF FlushTypes
  <2>3. Len(channels) \in Nat  BY <2>2
  <2>4. \A c \in 1..Len(channels) : channels[c] \in Channels  BY <2>2
  <2> QED BY <2>1, <2>3, <2>4
<1>2. ASSUME NEW c \in 1..Len(channels)
      PROVE  Len(pool'[channels[c]]) \in Nat /\ (c # n => channels[c] # channels[n])
  <2>1. pool'[channels[c]] \in Seq(SampleRecords)  BY <1>1
  <2> QED BY <1>1, <2>1 DEF ChannelsOnce
<1>3. FlushTypes'
  <2>1. behind \in Nat /\ n \in Nat \ {0} /\ n + 1 \in Nat \ {0}  BY <1>1, <1>2
  <2>2. flush' \in [channel : Nat \ {0}, le : Nat]
    <3>1. CASE flush' = [channel |-> n, le |-> behind]  BY ONLY <2>1, <3>1
    <3>2. CASE flush' = [channel |-> n + 1, le |-> NoEntry]  BY ONLY <2>1, <3>2 DEF NoEntry
    <3> QED BY <3>1, <3>2
  <2> QED BY <1>1, <2>2 DEF FlushTypes
<1>4. ASSUME NEW ch \in Channels
      PROVE  Falling(pool'[ch]) /\ (HasChannel(ch)' \/ pool'[ch] = <<>>)
  BY <1>4 DEF FlushInvariant, HasChannel
<1>5. /\ flush'.channel \in {n, n + 1}
      /\ flush'.channel = n => flush'.le = behind
      /\ flush'.channel = n + 1 => flush'.le = 0 /\ behind = Len(pool'[channels[n]])
  BY DEF NoEntry
<1>6. ASSUME NEW c \in 1..Len(channels)
      PROVE  FlushedSoFar(pool'[channels[c]], Behind(c)', expired[channels[c]])
  <2>1. CASE c = n
    <3>1. Behind(c)' = behind  BY <1>5, <2>1 DEF Behind
    <3> QED BY <2>1, <3>1
  <2>2. CASE c # n
    <3>1. pool'[channels[c]] = pool[channels[c]]  BY <1>1, <1>2, <2>2
    <3>2. Behind(c)' = Behind(c)
      <4>1. c \in Int /\ n \in Int /\ (c < n \/ c > n)  BY <2>2
      <4>2. CASE c < n
        <5>1. c < flush'.channel /\ c < flush.channel  BY <1>5, <4>1, <4>2
        <5> QED BY <3>1, <5>1 DEF Behind
      <4>3. CASE c > n
        <5>1. ~(c < flush.channel) /\ c # flush.channel /\ ~(c < flush'.channel)
          BY <1>5, <4>1, <4>3
        <5>2. c = flush'.channel => flush'.le = 0  BY <1>5, <4>1, <4>3
        <5> QED BY <5>1, <5>2 DEF Behind
      <4> QED BY <4>1, <4>2, <4>3
    <3> QED BY <3>1, <3>2 DEF FlushInvariant
  <2> QED BY <2>1, <2>2
<1>7. ASSUME flush'.channel <= Len(channels)
      PROVE  flush'.le <= Len(pool'[channels[flush'.channel]])
  <2>1. CASE flush'.channel = n  BY <1>2, <1>5, <2>1
  <2>2. CASE flush'.channel = n + 1
    <3>1. n + 1 \in 1..Len(channels)  BY <1>1, <1>7, <2>2
    <3>2. Len(pool'[channels[n + 1]]) \in Nat  BY <1>2, <3>1
    <3> QED BY <1>5, <2>2, <3>2
  <2> QED BY <1>5, <2>1, <2>2
<1> QED BY <1>1, <1>3, <1>4, <1>6, <1>7 DEF FlushInvariant, ChannelsOnce

LEMMA FlushGoesOn ==
    ASSUME FlushInvariant, FlushStep
    PROVE  FlushInvariant'
<1> DEFINE n == flush.channel
           ch == channels[n]
           list == pool[ch]
           i == visual_list_next(list, flush.le)
           rest == visual_list_delete(list, i)
<1>1. /\ FlushTypes /\ pc = "flush" /\ pc' = "flush" /\ n <= Len(channels)
      /\ UNCHANGED <<channels, expired>>
  BY DEF FlushInvariant, FlushStep
<1>2. n \in 1..Len(channels) /\ ch \in Channels
  BY <1>1 DEF FlushTypes
<1>3. list \in Seq(SampleRecords) /\ Len(list) \in Nat /\ Falling(list) /\ expired[ch] \in Nat
  BY <1>1, <1>2 DEF FlushTypes, FlushInvariant
<1>4. flush.le \in 0..Len(list) /\ FlushedSoFar(list, flush.le, expired[ch])
  <2>1. flush.le <= Len(list) /\ flush.le \in Nat  BY <1>1 DEF FlushInvariant, FlushTypes
  <2>2. Behind(n) = flush.le  BY <1>2 DEF Behind
  <2> QED BY <1>1, <1>2, <1>3, <2>1, <2>2 DEF FlushInvariant
<1>5. flush = [channel |-> n, le |-> flush.le] /\ pool \in [Channels -> Seq(SampleRecords)]
  BY <1>1 DEF FlushTypes
<1>6. /\ i = NoEntry => flush' = [channel |-> n + 1, le |-> NoEntry] /\ pool' = pool
      /\ i # NoEntry /\ ~TooOld(list[i]) => flush' = [flush EXCEPT !.le = i] /\ pool' = pool
      /\ i # NoEntry /\ TooOld(list[i]) =>
             /\ pool' = [pool EXCEPT ![ch] = rest.list]
             /\ flush' = [channel |-> IF rest.le = NoEntry THEN n + 1 ELSE n, le |-> rest.le]
  BY DEF FlushStep
<1>7. i = IF flush.le < Len(list) THEN flush.le + 1 ELSE 0
  BY DEF visual_list_next, NoEntry
<1>8. rest.list = RemoveAt(list, i) /\ rest.le = IF i < Len(list) THEN i ELSE 0
  BY DEF visual_list_delete, NoEntry
<1> HIDE DEF rest, i, list, ch, n
<1>9. CASE i = NoEntry
  <2>1. flush.le = Len(list) /\ flush' = [channel |-> n + 1, le |-> NoEntry] /\ pool' = pool
    BY <1>3, <1>4, <1>6, <1>7, <1>9 DEF NoEntry
  <2> QED BY <1>1, <1>2, <1>3, <1>4, <1>5, <2>1, FlushNext DEF n, ch, list
<1>10. CASE i # NoEntry /\ ~TooOld(list[i])
  <2>1. i = flush.le + 1 /\ i \in 1..Len(list)  BY <1>3, <1>4, <1>7, <1>10 DEF NoEntry
  <2>2. flush' = [channel |-> n, le |-> i] /\ pool' = pool  BY <1>5, <1>6, <1>10
  <2>3. PICK p \in 0..Len(list) : Olds(list, p) /\ p + Smaller(p, flush.le) <= expired[ch]
    BY <1>4 DEF FlushedSoFar
  <2>4. p <= flush.le
    <3>1. ~list[i].old  BY <1>4, <1>10, <2>1 DEF FlushedSoFar
    <3> QED BY <1>3, <1>4, <2>1, <2>3, <3>1 DEF Olds
  <2>5. Smaller(p, i) = Smaller(p, flush.le)  BY <1>4, <2>1, <2>3, <2>4 DEF Smaller
  <2>6. FlushedSoFar(list, i, expired[ch])  BY <1>4, <2>3, <2>5 DEF FlushedSoFar
  <2>7. i \in 0..Len(list)  BY <2>1
  <2> QED BY <1>1, <1>2, <1>3, <1>5, <2>2, <2>6, <2>7, FlushNext DEF n, ch, list
<1>11. CASE i # NoEntry /\ TooOld(list[i])
  <2> DEFINE less == RemoveAt(list, i)
             behind == IF i < Len(list) THEN i ELSE i - 1
  <2>1. i - 1 = flush.le /\ i \in 1..Len(list)  BY <1>3, <1>4, <1>7, <1>11 DEF NoEntry
  <2>2. /\ less \in Seq(SampleRecords) /\ Len(less) = Len(list) - 1 /\ Falling(less)
        /\ FlushedSoFar(less, behind, expired[ch])
    BY <1>3, <1>4, <2>1, FlushedOne
  <2>3. pool' = [pool EXCEPT ![ch] = less]  BY <1>6, <1>8, <1>11
  <2> HIDE DEF less
  <2>4. /\ pool' \in [Channels -> Seq(SampleRecords)] /\ pool'[ch] = less
        /\ \A c \in Channels : c # ch => pool'[c] = pool[c]
    BY <1>2, <1>5, <2>2, <2>3
  <2>5. behind \in 0..Len(less)  BY <1>3, <2>1, <2>2
  <2>6. \/ flush' = [channel |-> n, le |-> behind]
        \/ flush' = [channel |-> n + 1, le |-> NoEntry] /\ behind = Len(less)
    <3>1. flush' = [channel |-> IF rest.le = 0 THEN n + 1 ELSE n, le |-> rest.le]
      BY <1>6, <1>11 DEF NoEntry
    <3>2. CASE i < Len(list)
      <4>1. rest.le = i /\ behind = i /\ i # 0  BY <1>8, <2>1, <3>2
      <4> QED BY <3>1, <4>1
    <3>3. CASE ~(i < Len(list))
      <4>1. rest.le = 0 /\ behind = Len(less)  BY <1>3, <1>8, <2>1, <2>2, <3>3
      <4> QED BY <3>1, <4>1 DEF NoEntry
    <3> QED BY <3>2, <3>3
  <2> HIDE DEF behind
  <2> QED BY <1>1, <1>2, <2>2, <2>4, <2>5, <2>6, FlushNext DEF n, ch
<1> QED BY <1>9, <1>10, <1>11

LEMMA FlushIsOver ==
    ASSUME FlushInvariant, FlushEnds
    PROVE  FlushInvariant'
<1>1. /\ FlushTypes /\ ChannelsOnce /\ pc' = "analyze" /\ flush' = NoFlush
      /\ channels' = channels /\ expired' = [ch \in Channels |-> 0]
      /\ pool' = [ch \in Channels |-> [i \in 1..Len(pool[ch]) |->
                      [pool[ch][i] EXCEPT !.old = FALSE]]]
  BY DEF FlushInvariant, FlushEnds
<1>2. ASSUME NEW ch \in Channels
      PROVE  /\ pool'[ch] \in Seq(SampleRecords)
             /\ Falling(pool'[ch]) /\ (HasChannel(ch) \/ pool'[ch] = <<>>)
  <2>1. pool[ch] \in Seq(SampleRecords)  BY <1>1, <1>2 DEF FlushTypes
  <2>2. pool'[ch] = [i \in 1..Len(pool[ch]) |-> [pool[ch][i] EXCEPT !.old = FALSE]]
    BY <1>1, <1>2
  <2>3. pool'[ch] = [i \in 1..Len(pool[ch]) |-> pool'[ch][i]]  BY <2>2
  <2>4. ASSUME NEW i \in 1..Len(pool[ch])
        PROVE  /\ pool'[ch][i] \in SampleRecords
               /\ pool'[ch][i].size = pool[ch][i].size /\ pool'[ch][i].age = pool[ch][i].age
    <3>1. pool[ch][i] \in SampleRecords  BY <2>1, <2>4
    <3>2. pool'[ch][i] = [pool[ch][i] EXCEPT !.old = FALSE]  BY <2>2, <2>4
    <3> QED BY <3>1, <3>2, MarkedSample
  <2>5. pool'[ch] \in Seq(SampleRecords) /\ Alike(pool[ch], pool'[ch])
    BY <2>1, <2>3, <2>4, LikeList
  <2>6. Falling(pool[ch]) /\ (HasChannel(ch) \/ pool[ch] = <<>>)  BY DEF FlushInvariant
  <2>7. Falling(pool'[ch])  BY <2>5, <2>6, AlikeFalling
  <2>8. pool[ch] = <<>> => pool'[ch] = <<>>
    <3>1. Len(pool[ch]) = Len(pool'[ch])  BY <2>5 DEF Alike
    <3> QED BY <2>5, <3>1
  <2> QED BY <2>5, <2>6, <2>7, <2>8
<1>3. FlushTypes'
  <2>1. pool' = [ch \in Channels |-> pool'[ch]]  BY <1>1
  <2>2. pool' \in [Channels -> Seq(SampleRecords)]  BY <1>2, <2>1
  <2>3. expired' \in [Channels -> Nat]  BY <1>1
  <2>4. flush' \in [channel : Nat \ {0}, le : Nat]  BY <1>1 DEF NoFlush, NoEntry
  <2> QED BY <1>1, <2>2, <2>3, <2>4 DEF FlushTypes
<1> QED BY <1>1, <1>2, <1>3 DEF FlushInvariant, ChannelsOnce, HasChannel

\* Buffers are handed out by reads alone.
LEMMA FlushReads ==
    ASSUME FlushInvariant, visual_audio_get_sample \/ visual_ringbuffer_get_data_offset
    PROVE  FlushInvariant'
<1>1. /\ UNCHANGED <<channels, flush, expired>> /\ pc' \in {pc, "dead"}
      /\ \/ pool' = pool
         \/ \E c, k, filled : pool' = [pool EXCEPT ![c][k] = Used(@, filled)]
  <2>1. CASE visual_audio_get_sample
    <3> DEFINE r == Head(todo)
               first == ReadFrom(Sizes(r.ch), IF r.fromend THEN OffsetFromEnd(Sizes(r.ch), r.n)
                                              ELSE 0, r.n)
    <3>1. /\ UNCHANGED <<channels, flush, expired>> /\ pc' \in {pc, "dead"}
          /\ \/ pool' = pool
             \/ pool' = [pool EXCEPT ![r.ch][first.startat] = Used(@, first.done)]
      BY <2>1 DEF visual_audio_get_sample
    <3> HIDE DEF r, first
    <3> QED BY <3>1
  <2>2. CASE visual_ringbuffer_get_data_offset
    <3> DEFINE c == Head(todo).ch
               r == Round(Sizes(c), read)
    <3>1. /\ UNCHANGED <<channels, flush, expired>> /\ pc' = pc
          /\ \/ pool' = pool
             \/ pool' = [pool EXCEPT ![c][r.le] = Used(@, r.done)]
      BY <2>2 DEF visual_ringbuffer_get_data_offset
    <3> HIDE DEF c, r
    <3> QED BY <3>1
  <2> QED BY <2>1, <2>2
<1>2. pool \in [Channels -> Seq(SampleRecords)]  BY DEF FlushInvariant, FlushTypes
<1>3. /\ pool' \in [Channels -> Seq(SampleRecords)]
      /\ \A ch \in Channels : AlikeOld(pool[ch], pool'[ch])
  <2>1. CASE pool' = pool  BY <1>2, <2>1 DEF Alike, AlikeOld
  <2>2. CASE \E c, k, filled : pool' = [pool EXCEPT ![c][k] = Used(@, filled)]
    BY <1>2, <2>2, UsedPool
  <2> QED BY <1>1, <2>1, <2>2
<1> QED BY <1>1, <1>3, FlushStays

\* Time goes on during a flush as well.
LEMMA FlushTicks ==
    ASSUME FlushInvariant, Tick
    PROVE  FlushInvariant'
<1>1. /\ FlushTypes /\ ChannelsOnce /\ UNCHANGED <<channels, flush, expired, pc>>
      /\ pool' = [ch \in Channels |-> [i \in 1..Len(pool[ch]) |-> Older(pool[ch][i])]]
  BY DEF FlushInvariant, Tick
<1>2. ASSUME NEW ch \in Channels
      PROVE  /\ pool'[ch] \in Seq(SampleRecords) /\ Len(pool'[ch]) = Len(pool[ch])
             /\ Falling(pool'[ch]) /\ (HasChannel(ch) \/ pool'[ch] = <<>>)
             /\ \A b, e : FlushedSoFar(pool[ch], b, e) => FlushedSoFar(pool'[ch], b, e)
  <2>1. pool[ch] \in Seq(SampleRecords)  BY <1>1 DEF FlushTypes
  <2>2. pool'[ch] = [i \in 1..Len(pool[ch]) |-> Older(pool[ch][i])]  BY <1>1
  <2>3. pool'[ch] \in Seq(SampleRecords)  BY <2>1, <2>2, OlderList
  <2>4. /\ Len(pool'[ch]) = Len(pool[ch])
        /\ Falling(pool[ch]) => Falling(pool'[ch])
        /\ \A b, e : FlushedSoFar(pool[ch], b, e) => FlushedSoFar(pool'[ch], b, e)
    BY <2>1, <2>2, OlderFlushed
  <2>5. Falling(pool[ch]) /\ (HasChannel(ch) \/ pool[ch] = <<>>)  BY DEF FlushInvariant
  <2>6. pool[ch] = <<>> => pool'[ch] = <<>>  BY <2>3, <2>4
  <2> QED BY <2>3, <2>4, <2>5, <2>6
<1>3. FlushTypes'
  <2>1. pool' = [ch \in Channels |-> pool'[ch]]  BY <1>1
  <2>2. pool' \in [Channels -> Seq(SampleRecords)]  BY <1>2, <2>1
  <2> QED BY <1>1, <2>2 DEF FlushTypes
<1>4. \A c \in 1..Len(channels) : channels[c] \in Channels /\ Behind(c)' = Behind(c)
  <2>1. \A c \in 1..Len(channels) : channels[c] \in Channels  BY <1>1 DEF FlushTypes
  <2> QED BY <1>1, <1>2, <2>1 DEF Behind
<1>5. ASSUME pc = "flush", NEW c \in 1..Len(channels)
      PROVE  FlushedSoFar(pool'[channels[c]], Behind(c)', expired[channels[c]])
  <2>1. FlushedSoFar(pool[channels[c]], Behind(c), expired[channels[c]])
    BY <1>5 DEF FlushInvariant
  <2> QED BY <1>2, <1>4, <2>1
<1>6. ASSUME pc = "flush", flush.channel <= Len(channels)
      PROVE  flush.le <= Len(pool'[channels[flush.channel]])
  <2>1. flush.channel \in 1..Len(channels)  BY <1>1, <1>6 DEF FlushTypes
  <2> QED BY <1>2, <1>4, <1>6, <2>1 DEF FlushInvariant
<1> QED BY <1>1, <1>2, <1>3, <1>5, <1>6 DEF FlushInvariant, ChannelsOnce, HasChannel

LEMMA FlushNextHolds ==
    ASSUME FlushInvariant, [Next]_vars
    PROVE  FlushInvariant'
<1>1. CASE UNCHANGED <<pool, channels, flush, expired>> /\ (pc' = "flush" => pc = "flush")
  <2>1. FlushInvariant  OBVIOUS
  <2> QED BY <1>1, <2>1 DEF FlushInvariant, FlushTypes, ChannelsOnce, HasChannel, Behind
<1>2. CASE (\E n \in Requests : visual_actor_run(n)) \/ FrameEnd \/ ReadEnds \/ UNCHANGED vars
  BY <1>1, <1>2 DEF visual_actor_run, FrameEnd, ReadEnds, vars
<1> QED BY <1>2, FlushInputStereo, FlushInputChannel, FlushBegins, FlushGoesOn, FlushIsOver,
           FlushReads, FlushTicks
        DEF Next, Input, InFrame

\* lv_audio.c:781: whatever is in a channel, and however time goes on meanwhile,
\* a flush leaves at most half of the samples that were too old when it began:
\* it skips one after each one it destroys, and never two.
THEOREM FlushLeavesHalf == Spec => []FlushHalves
<1>1. FlushInvariant => FlushHalves
  <2> SUFFICES ASSUME FlushInvariant, pc = "flush", flush.channel > Len(channels),
                      NEW ch \in Channels
               PROVE  2 * Cardinality({i \in 1..Len(pool[ch]) : pool[ch][i].old}) <= expired[ch]
    BY DEF FlushHalves
  <2> DEFINE P == {i \in 1..Len(pool[ch]) : pool[ch][i].old}
  <2>1. pool[ch] \in Seq(SampleRecords) /\ expired[ch] \in Nat /\ channels \in Seq(Channels)
        /\ flush.channel \in Nat
    BY DEF FlushInvariant, FlushTypes
  <2>2. CASE ~HasChannel(ch)
    <3>1. Len(pool[ch]) = 0  BY <2>2 DEF FlushInvariant
    <3>2. P = {}  BY <3>1
    <3>3. Cardinality({}) = 0  BY FS_EmptySet
    <3> HIDE DEF P
    <3>4. 2 * Cardinality(P) <= expired[ch]  BY <2>1, <3>2, <3>3
    <3> QED BY <3>4 DEF P
  <2>3. CASE HasChannel(ch)
    <3>1. PICK c \in 1..Len(channels) : channels[c] = ch  BY <2>3 DEF HasChannel
    <3>2. Behind(c) = Len(pool[ch])  BY <2>1, <3>1 DEF Behind
    <3>3. FlushedSoFar(pool[ch], Len(pool[ch]), expired[ch])
      BY <3>1, <3>2 DEF FlushInvariant
    <3>4. PICK p \in 0..Len(pool[ch]) :
              Olds(pool[ch], p) /\ p + Smaller(p, Len(pool[ch])) <= expired[ch]
      BY <3>3 DEF FlushedSoFar
    <3>5. Len(pool[ch]) \in Nat  BY <2>1
    <3>6. p + p <= expired[ch] /\ p \in Nat  BY <3>4, <3>5 DEF Smaller
    <3>7. P = 1..p  BY <3>4, <3>5 DEF Olds
    <3>8. Cardinality(1..p) = p
      <4>1. p \in Int /\ 1 \in Int /\ (IF 1 > p THEN 0 ELSE p - 1 + 1) = p  BY <3>6
      <4> QED BY <4>1, FS_Interval
    <3> HIDE DEF P
    <3>9. 2 * Cardinality(P) <= expired[ch]  BY <2>1, <3>6, <3>7, <3>8
    <3> QED BY <3>9 DEF P
  <2> QED BY <2>2, <2>3
<1>2. Init => FlushInvariant  BY FlushInit
<1>3. FlushInvariant /\ [Next]_vars => FlushInvariant'  BY FlushNextHolds
<1> QED BY <1>1, <1>2, <1>3, PTL DEF Spec

-----------------------------------------------------------------------------
\* The bytes of the ring: entry after entry, turn after turn.
IsUpto(sizes, m, f) == f = [i \in 0..m |-> IF i = 0 THEN 0 ELSE f[i - 1] + sizes[i]]

\* The sums of the sizes up to an entry are there for every list of sizes.
LEMMA UptoExists ==
    ASSUME NEW sizes \in Seq(Nat)
    PROVE  \E f : IsUpto(sizes, Len(sizes), f)
<1> DEFINE Has(m, f) == f \in [0..m -> Nat] /\ IsUpto(sizes, m, f)
           S == {m \in Nat : m <= Len(sizes) => \E f : Has(m, f)}
<1>1. 0 \in S
  <2> DEFINE f == [i \in 0..0 |-> 0]
  <2>1. f \in [0..0 -> Nat] /\ \A i \in 0..0 : i = 0 /\ f[i] = 0  OBVIOUS
  <2>2. f = [i \in 0..0 |-> IF i = 0 THEN 0 ELSE f[i - 1] + sizes[i]]  BY <2>1
  <2> HIDE DEF f
  <2>3. Has(0, f)  BY <2>1, <2>2 DEF IsUpto
  <2> QED BY <2>3
<1>2. ASSUME NEW m \in Nat, m \in S PROVE m + 1 \in S
  <2> SUFFICES ASSUME m + 1 <= Len(sizes) PROVE \E g : Has(m + 1, g)  OBVIOUS
  <2>1. Len(sizes) \in Nat /\ m <= Len(sizes) /\ sizes[m + 1] \in Nat
    <3>1. Len(sizes) \in Nat /\ m + 1 \in 1..Len(sizes)  OBVIOUS
    <3> QED BY <3>1
  <2>2. PICK f : Has(m, f)  BY <1>2, <2>1
  <2> DEFINE g == [i \in 0..m + 1 |-> IF i <= m THEN f[i] ELSE f[m] + sizes[m + 1]]
  <2>3. f \in [0..m -> Nat] /\ f[m] \in Nat  BY <2>2
  <2>4. \A i \in 0..m : f[i] = IF i = 0 THEN 0 ELSE f[i - 1] + sizes[i]
    <3>1. f = [i \in 0..m |-> IF i = 0 THEN 0 ELSE f[i - 1] + sizes[i]]  BY <2>2 DEF IsUpto
    <3> QED BY <3>1
  <2>5. g \in [0..m + 1 -> Nat]  BY <2>1, <2>3
  <2>6. ASSUME NEW i \in 0..m + 1
        PROVE  g[i] = IF i = 0 THEN 0 ELSE g[i - 1] + sizes[i]
    <3>1. CASE i = 0  BY <2>4, <3>1
    <3>2. CASE i # 0 /\ i <= m
      <4>1. i \in 0..m /\ i - 1 \in 0..m + 1 /\ i - 1 <= m  BY <3>2
      <4>2. g[i] = f[i] /\ g[i - 1] = f[i - 1]  BY <3>2, <4>1
      <4>3. f[i] = f[i - 1] + sizes[i]  BY <2>4, <3>2, <4>1
      <4> HIDE DEF g
      <4> QED BY <3>2, <4>2, <4>3
    <3>3. CASE i = m + 1
      <4>1. ~(i <= m) /\ i - 1 = m /\ m \in 0..m + 1 /\ m <= m /\ i # 0  BY <3>3
      <4>2. g[i] = f[m] + sizes[i] /\ g[i - 1] = f[m]  BY <3>3, <4>1
      <4> HIDE DEF g
      <4> QED BY <4>1, <4>2
    <3> QED BY <3>1, <3>2, <3>3
  <2>7. g = [i \in 0..m + 1 |-> g[i]]  OBVIOUS
  <2> HIDE DEF g
  <2>8. IsUpto(sizes, m + 1, g)  BY <2>6, <2>7 DEF IsUpto
  <2>9. Has(m + 1, g)  BY <2>5, <2>8
  <2> QED BY <2>9
<1> HIDE DEF Has
<1>3. \A m \in Nat : m \in S
  <2> HIDE DEF S
  <2> QED BY <1>1, <1>2, NatSetInduction
<1>4. Len(sizes) \in Nat  OBVIOUS
<1>5. \E f : Has(Len(sizes), f)  BY <1>3, <1>4
<1> QED BY <1>5 DEF Has

\* What the sums are.
LEMMA UptoIs ==
    ASSUME NEW sizes \in Seq(Nat)
    PROVE  LET u == Upto(sizes)
           IN  /\ u[0] = 0
               /\ \A i \in 1..Len(sizes) : u[i] = u[i - 1] + sizes[i]
               /\ \A i \in 0..Len(sizes) : u[i] \in Nat
               /\ \A i, j \in 0..Len(sizes) : i <= j => u[i] <= u[j]
<1> DEFINE u == Upto(sizes)
           n == Len(sizes)
<1>1. IsUpto(sizes, n, u)
  <2>1. u = CHOOSE f : IsUpto(sizes, n, f)  BY DEF Upto, IsUpto
  <2>2. \E f : IsUpto(sizes, n, f)  BY UptoExists
  <2> HIDE DEF u
  <2> QED BY <2>1, <2>2, Zenon
<1>2. n \in Nat /\ \A i \in 1..n : sizes[i] \in Nat  OBVIOUS
<1> HIDE DEF u, n
<1>3. u[0] = 0 /\ \A i \in 1..n : u[i] = u[i - 1] + sizes[i]
  <2>1. u = [i \in 0..n |-> IF i = 0 THEN 0 ELSE u[i - 1] + sizes[i]]  BY <1>1 DEF IsUpto
  <2>2. \A i \in 0..n : u[i] = IF i = 0 THEN 0 ELSE u[i - 1] + sizes[i]  BY <2>1, Zenon
  <2>3. 0 \in 0..n /\ \A i \in 1..n : i \in 0..n /\ i # 0  BY <1>2
  <2> QED BY <2>2, <2>3
<1>4. \A i \in 0..n : u[i] \in Nat
  <2> DEFINE S == {i \in Nat : i <= n => u[i] \in Nat}
  <2>1. 0 \in S  BY <1>3
  <2>2. ASSUME NEW i \in Nat, i \in S PROVE i + 1 \in S
    <3> SUFFICES ASSUME i + 1 <= n PROVE u[i + 1] \in Nat  OBVIOUS
    <3>1. i + 1 \in 1..n /\ (i + 1) - 1 = i /\ u[i] \in Nat  BY <1>2, <2>2
    <3>2. u[i + 1] = u[i] + sizes[i + 1] /\ sizes[i + 1] \in Nat  BY <1>2, <1>3, <3>1
    <3> QED BY <3>1, <3>2
  <2> HIDE DEF S
  <2>3. \A i \in Nat : i \in S  BY <2>1, <2>2, NatSetInduction
  <2> QED BY <1>2, <2>3 DEF S
<1>5. ASSUME NEW i \in 0..n PROVE \A j \in 0..n : i <= j => u[i] <= u[j]
  <2> DEFINE S == {j \in Nat : i <= j /\ j <= n => u[i] <= u[j]}
  <2>1. 0 \in S
    <3> SUFFICES ASSUME i <= 0 PROVE u[i] <= u[0]  OBVIOUS
    <3>1. i = 0  OBVIOUS
    <3> QED BY <1>3, <3>1
  <2>2. ASSUME NEW j \in Nat, j \in S PROVE j + 1 \in S
    <3> SUFFICES ASSUME i <= j + 1, j + 1 <= n PROVE u[i] <= u[j + 1]  OBVIOUS
    <3>1. CASE i = j + 1
      <4>1. u[i] = u[j + 1] /\ u[i] \in Nat  BY <1>4, <3>1
      <4> QED BY <4>1
    <3>2. CASE i # j + 1
      <4>1. i <= j /\ j <= n /\ j + 1 \in 1..n /\ (j + 1) - 1 = j /\ j \in 0..n  BY <1>2, <3>2
      <4>2. u[i] <= u[j]  BY <2>2, <4>1
      <4>3. u[j + 1] = u[j] + sizes[j + 1] /\ sizes[j + 1] \in Nat  BY <1>2, <1>3, <4>1
      <4>4. u[i] \in Nat /\ u[j] \in Nat  BY <1>4, <4>1
      <4> QED BY <4>2, <4>3, <4>4
    <3> QED BY <3>1, <3>2
  <2> HIDE DEF S
  <2>3. \A j \in Nat : j \in S  BY <2>1, <2>2, NatSetInduction
  <2> QED BY <1>2, <2>3 DEF S
<1> QED BY <1>3, <1>4, <1>5 DEF u, n

Total(sizes) == Upto(sizes)[Len(sizes)]

LEMMA ModTurns ==
    ASSUME NEW t \in Nat \ {0}, NEW x \in 0..t - 1, NEW w \in Nat
    PROVE  (t * w + x) % t = x
OBVIOUS

\* Division with remainder.
LEMMA DivMod ==
    ASSUME NEW t \in Nat \ {0}, NEW x \in Nat
    PROVE  x % t \in 0..t - 1 /\ x \div t \in Nat /\ x = t * (x \div t) + (x % t)
OBVIOUS

\* A byte of an entry is where the ring has it.
LEMMA RingByteAt ==
    ASSUME NEW sizes \in Seq(Nat), NEW i \in 1..Len(sizes), NEW j \in 1..sizes[i]
    PROVE  /\ RingByte(sizes, Upto(sizes)[i - 1] + j - 1) = <<i, j>>
           /\ Upto(sizes)[i - 1] + j - 1 \in 0..Total(sizes) - 1
<1> DEFINE u == Upto(sizes)
           n == Len(sizes)
           p == u[i - 1] + j - 1
           At(k) == u[k - 1] <= p /\ p < u[k]
<1>1. n \in Nat /\ sizes[i] \in Nat  OBVIOUS
<1>2. /\ \A k \in 1..n : u[k] = u[k - 1] + sizes[k]
      /\ \A k \in 0..n : u[k] \in Nat
      /\ \A k, l \in 0..n : k <= l => u[k] <= u[l]
  BY UptoIs
<1>3. RingByte(sizes, p) = LET k == CHOOSE k \in 1..n : At(k) IN <<k, p - u[k - 1] + 1>>
  BY DEF RingByte
<1>4. Total(sizes) = u[n]  BY DEF Total
<1> HIDE DEF u, n
<1>5. i - 1 \in 0..n /\ i \in 0..n /\ n \in 0..n /\ i <= n  BY <1>1 DEF n
<1>6. u[i - 1] \in Nat /\ u[i] \in Nat /\ u[n] \in Nat /\ u[i] <= u[n] /\ u[i] = u[i - 1] + sizes[i]
  BY <1>2, <1>5
<1>7. p \in Nat /\ At(i) /\ p < u[n]
  <2>1. j \in Nat /\ 1 <= j /\ j <= sizes[i]  BY <1>1
  <2>2. u[i - 1] + j - 1 \in Nat /\ u[i - 1] <= u[i - 1] + j - 1 /\ u[i - 1] + j - 1 < u[i]
    BY <1>1, <1>6, <2>1
  <2> QED BY <1>6, <2>2
<1>8. ASSUME NEW k \in 1..n, At(k) PROVE k = i
  <2>1. k - 1 \in 0..n /\ k \in 0..n  BY <1>1
  <2>2. u[k] \in Nat /\ u[k - 1] \in Nat  BY <1>2, <2>1
  <2>3. u[k - 1] <= p /\ p < u[k] /\ u[i - 1] <= p /\ p < u[i] /\ p \in Nat  BY <1>7, <1>8
  <2> HIDE DEF p, At
  <2>4. ~(k <= i - 1)
    <3>1. k <= i - 1 => u[k] <= u[i - 1]  BY <1>2, <1>5, <2>1
    <3> QED BY <1>6, <2>2, <2>3, <3>1
  <2>5. ~(i <= k - 1)
    <3>1. i <= k - 1 => u[i] <= u[k - 1]  BY <1>2, <1>5, <2>1
    <3> QED BY <1>6, <2>2, <2>3, <3>1
  <2> QED BY <1>1, <2>4, <2>5
<1>9. p - u[i - 1] + 1 = j  BY <1>6
<1> HIDE DEF p, At
<1>10. (CHOOSE k \in 1..n : At(k)) = i
  <2>1. i \in 1..n  BY DEF n
  <2> QED BY <1>7, <1>8, <2>1
<1>11. RingByte(sizes, p) = <<i, j>>  BY <1>3, <1>9, <1>10
<1>12. p \in 0..u[n] - 1  BY <1>6, <1>7
<1> QED BY <1>4, <1>11, <1>12 DEF p, u

\* So it is in every turn of the ring.
LEMMA RingAt ==
    ASSUME NEW sizes \in Seq(Nat), NEW i \in 1..Len(sizes), NEW j \in 1..sizes[i],
           NEW w \in Nat, NEW q, q = Total(sizes) * w + (Upto(sizes)[i - 1] + j - 1)
    PROVE  RingByte(sizes, q % Total(sizes)) = <<i, j>>
<1> DEFINE p == Upto(sizes)[i - 1] + j - 1
           t == Total(sizes)
<1>1. RingByte(sizes, p) = <<i, j>> /\ p \in 0..t - 1  BY RingByteAt
<1>2. t \in Nat
  <2>1. Len(sizes) \in Nat /\ Len(sizes) \in 0..Len(sizes)  OBVIOUS
  <2>2. Upto(sizes)[Len(sizes)] \in Nat  BY <2>1, UptoIs
  <2> QED BY <2>2 DEF Total
<1>3. q = t * w + p  OBVIOUS
<1> HIDE DEF p, t
<1>4. t \in Nat \ {0}  BY <1>1, <1>2
<1>5. (t * w + p) % t = p  BY <1>1, <1>4, ModTurns
<1> QED BY <1>1, <1>3, <1>5 DEF t

\* An offset from the end is one of the bytes of the ring, or its end.
LEMMA FromEndIs ==
    ASSUME NEW sizes \in Seq(Nat), Total(sizes) > 0, NEW nbytes \in Nat \ {0}
    PROVE  /\ OffsetFromEnd(sizes, nbytes) \in 1..Total(sizes)
           /\ \E w \in Nat : OffsetFromEnd(sizes, nbytes) + nbytes = Total(sizes) * w + Total(sizes)
<1> DEFINE t == Total(sizes)
           m == nbytes % t
           d == nbytes \div t
           off == IF d > 0 THEN t - m ELSE t - nbytes
<1>1. t \in Nat \ {0}
  <2>1. Len(sizes) \in Nat /\ Len(sizes) \in 0..Len(sizes)  OBVIOUS
  <2>2. Upto(sizes)[Len(sizes)] \in Nat  BY <2>1, UptoIs
  <2> QED BY <2>2 DEF Total
<1>2. OffsetFromEnd(sizes, nbytes) = off
  BY DEF OffsetFromEnd, visual_ringbuffer_get_size, Total
<1> HIDE DEF t, m, d
<1>3. m \in 0..t - 1 /\ d \in Nat /\ nbytes = t * d + m  BY <1>1, DivMod DEF m, d
<1>6. t * d \in Nat  BY <1>1, <1>3
<1>4. CASE d > 0
  <2>1. off = t - m  BY <1>4
  <2> HIDE DEF off
  <2>2. off + nbytes = t * d + t  BY <1>1, <1>3, <1>6, <2>1
  <2>3. off \in 1..t  BY <1>1, <1>3, <2>1
  <2> QED BY <1>2, <1>3, <2>2, <2>3 DEF t
<1>5. CASE ~(d > 0)
  <2>1. off = t - nbytes /\ d = 0  BY <1>3, <1>5
  <2>2. nbytes = m  BY <1>1, <1>3, <2>1
  <2>3. off \in 1..t /\ off + nbytes = t * 0 + t  BY <1>1, <1>3, <2>1, <2>2
  <2> QED BY <1>2, <2>3 DEF t
<1> QED BY <1>4, <1>5

RingBytesRead == Nat \X Nat

RingReads ==
    [offset : Nat, nbytes : Nat \ {0}, startat : Nat, curposition : Nat,
     data : Seq(RingBytesRead), le : Nat, done : BOOLEAN]

\* The data are the bytes of the ring from the offset on.
RightBytes(sizes, offset, data) ==
    \A k \in 1..Len(data) : data[k] = RingByte(sizes, (offset + k - 1) % Total(sizes))

\* m bytes of entry i, the first f left out.
Piece(piece, i, f, m) ==
    /\ piece \in Seq(RingBytesRead) /\ Len(piece) = m
    /\ \A k \in 1..m : piece[k] = <<i, f + k>>

\* The data so far end where byte f of entry i is in some turn of the ring.
EndsAt(sizes, offset, length, i, f) ==
    \E w \in Nat : offset + length = Total(sizes) * w + (Upto(sizes)[i - 1] + f)

LEMMA ShiftedSum ==
    ASSUME NEW a \in Nat, NEW d \in Nat, NEW b \in Nat, NEW u \in Nat, NEW f \in Nat,
           a + d = b + (u + f), NEW k \in Int
    PROVE  a + k - 1 = b + (u + (f + (k - d)) - 1)
OBVIOUS

\* Bytes of the entry the data have come to are the right ones to add.
LEMMA PieceRight ==
    ASSUME NEW sizes \in Seq(Nat), NEW offset \in Nat, NEW data \in Seq(RingBytesRead),
           RightBytes(sizes, offset, data), NEW i \in 1..Len(sizes),
           NEW f \in Nat, NEW m \in Nat, f + m <= sizes[i],
           EndsAt(sizes, offset, Len(data), i, f),
           NEW piece, Piece(piece, i, f, m)
    PROVE  LET more == data \o piece
           IN  /\ more \in Seq(RingBytesRead) /\ Len(more) = Len(data) + m
               /\ RightBytes(sizes, offset, more)
<1> DEFINE more == data \o piece
           d == Len(data)
           u == Upto(sizes)[i - 1]
           t == Total(sizes)
<1>1. piece \in Seq(RingBytesRead) /\ Len(piece) = m /\ \A k \in 1..m : piece[k] = <<i, f + k>>
  BY DEF Piece
<1>2. /\ more \in Seq(RingBytesRead) /\ Len(more) = d + m
      /\ \A k \in 1..d + m : more[k] = IF k <= d THEN data[k] ELSE piece[k - d]
  BY <1>1, ConcatProperties
<1>3. PICK w \in Nat : offset + d = t * w + (u + f)  BY DEF EndsAt
<1>4. d \in Nat /\ sizes[i] \in Nat  OBVIOUS
<1>5. u \in Nat /\ t \in Nat
  <2>1. i - 1 \in 0..Len(sizes) /\ Len(sizes) \in 0..Len(sizes)  OBVIOUS
  <2> QED BY <2>1, UptoIs DEF Total
<1>8. t * w \in Nat  BY <1>5
<1>6. ASSUME NEW k \in 1..d + m
      PROVE  more[k] = RingByte(sizes, (offset + k - 1) % t)
  <2>1. CASE k <= d
    <3>1. k \in 1..d /\ more[k] = data[k]  BY <1>2, <1>4, <2>1
    <3>2. data[k] = RingByte(sizes, (offset + k - 1) % t)  BY <3>1 DEF RightBytes
    <3> QED BY <3>1, <3>2
  <2>2. CASE ~(k <= d)
    <3> DEFINE l == k - d
               j == f + l
               q == offset + k - 1
    <3>1. l \in 1..m /\ j \in 1..sizes[i]  BY <1>4, <2>2
    <3>2. more[k] = <<i, j>>  BY <1>1, <1>2, <2>2, <3>1
    <3>3. q = t * w + (u + j - 1)
      <4> DEFINE tw == t * w
      <4>1. tw \in Nat /\ offset + d = tw + (u + f)  BY <1>3, <1>8
      <4> HIDE DEF tw, t, u, more, d
      <4>2. k \in Int  BY <1>4
      <4>3. offset + k - 1 = tw + (u + (f + (k - d)) - 1)
        BY <1>4, <1>5, <4>1, <4>2, ShiftedSum
      <4> QED BY <4>3 DEF tw
    <3> HIDE DEF l, j, q, more
    <3>4. RingByte(sizes, q % t) = <<i, j>>  BY <3>1, <3>3, RingAt
    <3> QED BY <3>2, <3>4 DEF q
  <2> QED BY <2>1, <2>2
<1> HIDE DEF more
<1>7. RightBytes(sizes, offset, more)  BY <1>2, <1>6 DEF RightBytes
<1> QED BY <1>2, <1>7 DEF more

\* The buffer of an entry, whole or in part.
LEMMA EntryPiece ==
    ASSUME NEW sizes \in Seq(Nat), NEW i \in 1..Len(sizes)
    PROVE  /\ Piece(EntryBytes(sizes, i), i, 0, sizes[i])
           /\ \A f, m \in 0..sizes[i] : f + m <= sizes[i] =>
                  Piece(SubSeq(EntryBytes(sizes, i), f + 1, f + m), i, f, m)
<1> DEFINE e == EntryBytes(sizes, i)
<1>1. sizes[i] \in Nat /\ i \in Nat  OBVIOUS
<1>2. e = [j \in 1..sizes[i] |-> <<i, j>>]  BY DEF EntryBytes
<1>3. /\ e \in Seq(RingBytesRead) /\ Len(e) = sizes[i]
      /\ \A k \in 1..sizes[i] : e[k] = <<i, k>>
  <2> DEFINE P(j) == <<i, j>>
             n == sizes[i]
  <2>1. \A j \in 1..n : P(j) \in RingBytesRead  BY <1>1 DEF RingBytesRead
  <2>2. e = [j \in 1..n |-> P(j)] /\ n \in Nat  BY <1>1, <1>2
  <2> HIDE DEF P, n
  <2>3. e \in Seq(RingBytesRead) /\ Len(e) = n /\ \A j \in 1..n : e[j] = P(j)
    BY <2>1, <2>2
  <2> QED BY <2>3 DEF P, n
<1> HIDE DEF e
<1>4. Piece(e, i, 0, sizes[i])  BY <1>1, <1>3 DEF Piece
<1>5. ASSUME NEW f \in 0..sizes[i], NEW m \in 0..sizes[i], f + m <= sizes[i]
      PROVE  Piece(SubSeq(e, f + 1, f + m), i, f, m)
  <2> DEFINE s == SubSeq(e, f + 1, f + m)
  <2>1. \A k \in 1..m : f + k \in 1..sizes[i]  BY <1>1, <1>5
  <2>2. /\ s \in Seq(RingBytesRead) /\ Len(s) = m
        /\ \A k \in 1..m : s[k] = e[f + k]
    BY <1>1, <1>3, <1>5, <2>1
  <2> HIDE DEF s
  <2>3. \A k \in 1..m : s[k] = <<i, f + k>>  BY <1>3, <2>1, <2>2
  <2> QED BY <2>2, <2>3 DEF Piece, s
<1> QED BY <1>4, <1>5 DEF e

\* The entry a read has come to: those up to startat are skipped.
Place(r) == IF r.le > r.startat THEN r.le ELSE r.startat

\* Byte p comes after entry k in some turn of the ring.
ComesAfter(sizes, p, k) == \E w \in Nat : p = Total(sizes) * w + Upto(sizes)[k]

\* A read that goes on in a ring that has entries.
RingRead(sizes, r) ==
    /\ RightBytes(sizes, r.offset, r.data)
    /\ r.done => Len(r.data) = r.nbytes
    /\ ~r.done =>
           /\ r.curposition = Len(r.data) /\ r.curposition < r.nbytes
           /\ r.le <= Len(sizes) /\ r.startat <= Len(sizes)
           /\ ComesAfter(sizes, r.offset + r.curposition, Place(r))

\* At the end of the list the next turn begins.
LEMMA NextTurn ==
    ASSUME NEW sizes \in Seq(Nat), NEW p \in Nat, ComesAfter(sizes, p, Len(sizes))
    PROVE  ComesAfter(sizes, p, 0)
<1> DEFINE t == Total(sizes)
<1>1. PICK w \in Nat : p = t * w + t  BY DEF ComesAfter, Total
<1>2. t \in Nat /\ Upto(sizes)[0] = 0
  <2>1. Len(sizes) \in 0..Len(sizes)  OBVIOUS
  <2> QED BY <2>1, UptoIs DEF Total
<1> HIDE DEF t
<1>3. t * (w + 1) = t * w + t /\ w + 1 \in Nat  BY <1>2
<1>4. p = t * (w + 1) + 0  BY <1>1, <1>2, <1>3
<1> QED BY <1>2, <1>3, <1>4 DEF ComesAfter, t

LEMMA RoomLeft ==
    ASSUME NEW d \in Nat, NEW z \in Nat, NEW nb \in Nat, d < nb
    PROVE  /\ d + z > nb => nb - d \in 0..z /\ d + (nb - d) = nb
           /\ ~(d + z > nb) => d + z <= nb
OBVIOUS

\* The entry after the one a read has come to is put, as much of it as is asked for.
LEMMA PutRight ==
    ASSUME NEW sizes \in Seq(Nat), NEW r \in RingReads, RingRead(sizes, r), ~r.done,
           NEW i \in 1..Len(sizes), i > r.startat, i - 1 = Place(r)
    PROVE  LET s == Put(sizes, r, i)
           IN  s \in RingReads /\ RingRead(sizes, s) /\ s.offset = r.offset /\ s.nbytes = r.nbytes
<1> DEFINE d == Len(r.data)
           room == r.nbytes - r.curposition
           e == EntryBytes(sizes, i)
           u == Upto(sizes)
<1>1. /\ r.offset \in Nat /\ r.nbytes \in Nat \ {0} /\ r.startat \in Nat /\ r.le \in Nat
      /\ r.data \in Seq(RingBytesRead) /\ d \in Nat /\ sizes[i] \in Nat /\ Len(sizes) \in Nat
      /\ i \in Nat
  BY DEF RingReads
<1>2. /\ RightBytes(sizes, r.offset, r.data) /\ r.curposition = d /\ d < r.nbytes
      /\ r.startat <= Len(sizes) /\ ComesAfter(sizes, r.offset + d, i - 1)
  BY DEF RingRead
<1>3. EndsAt(sizes, r.offset, d, i, 0)
  <2>1. PICK w \in Nat : r.offset + d = Total(sizes) * w + u[i - 1]
    BY <1>2 DEF ComesAfter
  <2>2. u[i - 1] \in Nat
    <3>1. i - 1 \in 0..Len(sizes)  BY <1>1
    <3> QED BY <3>1, UptoIs
  <2>3. u[i - 1] + 0 = u[i - 1]  BY <2>2
  <2> HIDE DEF u
  <2> QED BY <2>1, <2>3 DEF EndsAt, u
<1>4. u[i] = u[i - 1] + sizes[i] /\ u[i - 1] \in Nat
  <2>1. i - 1 \in 0..Len(sizes)  BY <1>1
  <2> QED BY <2>1, UptoIs
<1>5. CASE r.curposition + sizes[i] > r.nbytes
  <2> DEFINE piece == SubSeq(e, 1, room)
             more == r.data \o piece
             s == [r EXCEPT !.data = more, !.le = i, !.done = TRUE]
  <2>1. Put(sizes, r, i) = s  BY <1>5 DEF Put
  <2>2. room \in 0..sizes[i] /\ d + room = r.nbytes
    <3> HIDE DEF d
    <3> QED BY <1>1, <1>2, <1>5, RoomLeft
  <2>3. Piece(piece, i, 0, room)
    <3>1. 0 + room <= sizes[i] /\ 0 \in 0..sizes[i] /\ 0 + 1 = 1 /\ 0 + room = room
      BY <1>1, <2>2
    <3> HIDE DEF room, e
    <3>2. Piece(SubSeq(e, 0 + 1, 0 + room), i, 0, room)  BY <2>2, <3>1, EntryPiece DEF e
    <3> QED BY <3>1, <3>2
  <2> HIDE DEF piece, e, room
  <2>4. more \in Seq(RingBytesRead) /\ Len(more) = d + room /\ RightBytes(sizes, r.offset, more)
    <3>1. room \in Nat /\ 0 + room <= sizes[i]  BY <1>1, <2>2
    <3> QED BY <1>1, <1>2, <1>3, <2>3, <3>1, PieceRight
  <2> HIDE DEF more
  <2>5. /\ s \in RingReads /\ s.data = more /\ s.done = TRUE
        /\ s.offset = r.offset /\ s.nbytes = r.nbytes
    BY <1>1, <2>4 DEF RingReads
  <2> HIDE DEF s
  <2>6. RingRead(sizes, s)  BY <2>2, <2>4, <2>5 DEF RingRead
  <2> QED BY <2>1, <2>5, <2>6
<1>6. CASE ~(r.curposition + sizes[i] > r.nbytes)
  <2> DEFINE more == r.data \o e
             cur == r.curposition + sizes[i]
             done == cur = r.nbytes
             s == [r EXCEPT !.data = more, !.curposition = cur, !.le = i, !.done = done]
  <2>1. Put(sizes, r, i) = s  BY <1>6 DEF Put
  <2>2. Piece(e, i, 0, sizes[i])  BY EntryPiece
  <2> HIDE DEF e
  <2>3. /\ more \in Seq(RingBytesRead) /\ Len(more) = d + sizes[i]
        /\ RightBytes(sizes, r.offset, more)
    <3>1. 0 + sizes[i] <= sizes[i]  BY <1>1
    <3> QED BY <1>1, <1>2, <1>3, <2>2, <3>1, PieceRight
  <2>4. cur \in Nat /\ cur = d + sizes[i] /\ cur <= r.nbytes /\ done \in BOOLEAN
        /\ (done <=> cur = r.nbytes)
    <3> HIDE DEF d
    <3>1. cur = d + sizes[i]  BY <1>2
    <3> DEFINE z == sizes[i]
               nb == r.nbytes
    <3>2. z \in Nat /\ nb \in Nat /\ d \in Nat /\ ~(d + z > nb)  BY <1>1, <1>2, <1>6
    <3> HIDE DEF z, nb
    <3>3. d + z \in Nat /\ d + z <= nb  BY <3>2
    <3> QED BY <3>1, <3>3 DEF z, nb
  <2> HIDE DEF more, cur, done
  <2>5. /\ s \in RingReads /\ s.data = more /\ s.done = done /\ s.curposition = cur
        /\ s.offset = r.offset /\ s.nbytes = r.nbytes /\ s.le = i /\ s.startat = r.startat
    BY <1>1, <2>3, <2>4 DEF RingReads
  <2> HIDE DEF s
  <2>6. Place(s) = i  BY <2>5 DEF Place
  <2>7. ComesAfter(sizes, r.offset + cur, i)
    <3>1. PICK w \in Nat : r.offset + d = Total(sizes) * w + u[i - 1]
      BY <1>2 DEF ComesAfter
    <3>2. Total(sizes) * w + u[i - 1] \in Nat  BY <1>1, <3>1
    <3>3. Total(sizes) * w \in Nat
      <4>1. Total(sizes) \in Nat
        <5>1. Len(sizes) \in 0..Len(sizes)  BY <1>1
        <5> QED BY <5>1, UptoIs DEF Total
      <4> QED BY <4>1
    <3> DEFINE tw == Total(sizes) * w
    <3> HIDE DEF u, tw
    <3>4. r.offset + cur = tw + u[i]
      <4>1. r.offset + d = tw + u[i - 1] /\ tw \in Nat  BY <3>1, <3>3 DEF tw
      <4> DEFINE z == sizes[i]
                 v == u[i - 1]
                 a == r.offset
      <4>2. z \in Nat /\ v \in Nat /\ a \in Nat /\ d \in Nat /\ a + d = tw + v
        BY <1>1, <1>4, <4>1
      <4> HIDE DEF z, v, a, d
      <4>3. a + (d + z) = tw + (v + z)  BY <4>1, <4>2
      <4> QED BY <1>4, <2>4, <4>3 DEF z, v, a, d
    <3> QED BY <3>4 DEF ComesAfter, tw, u
  <2>8. RingRead(sizes, s)
    <3>1. ~done => cur < r.nbytes  BY <1>1, <2>4
    <3> QED BY <1>2, <2>3, <2>4, <2>5, <2>6, <2>7, <3>1 DEF RingRead
  <2> QED BY <2>1, <2>5, <2>8
<1> QED BY <1>5, <1>6

\* One round of a read.
LEMMA RoundRight ==
    ASSUME NEW sizes \in Seq(Nat), sizes # <<>>, NEW r \in RingReads, RingRead(sizes, r), ~r.done
    PROVE  LET s == Round(sizes, r)
           IN  s \in RingReads /\ RingRead(sizes, s) /\ s.offset = r.offset /\ s.nbytes = r.nbytes
<1> DEFINE n == Len(sizes)
           i == visual_list_next(sizes, r.le)
<1>1. n \in Nat \ {0} /\ r.le \in Nat /\ r.startat \in Nat /\ r.offset \in Nat /\ r.curposition \in Nat
  BY EmptySeq DEF RingReads
<1>2. /\ r.le <= n /\ r.startat <= n /\ ComesAfter(sizes, r.offset + r.curposition, Place(r))
      /\ RightBytes(sizes, r.offset, r.data) /\ r.curposition = Len(r.data)
      /\ r.curposition < r.nbytes
  BY DEF RingRead
<1>3. i = IF r.le < n THEN r.le + 1 ELSE 0  BY DEF visual_list_next, NoEntry
<1>4. Round(sizes, r) =
          IF i = 0 THEN [r EXCEPT !.le = 0, !.startat = 0, !.done = n = 0]
          ELSE IF i <= r.startat THEN [r EXCEPT !.le = i]
          ELSE Put(sizes, r, i)
  BY DEF Round, NoEntry
<1> HIDE DEF i
<1>5. CASE i = 0
  <2> DEFINE s == [r EXCEPT !.le = 0, !.startat = 0, !.done = FALSE]
  <2>1. Round(sizes, r) = s  BY <1>1, <1>4, <1>5
  <2>2. /\ s \in RingReads /\ s.data = r.data /\ s.done = FALSE /\ s.curposition = r.curposition
        /\ s.offset = r.offset /\ s.nbytes = r.nbytes /\ s.le = 0 /\ s.startat = 0
    BY DEF RingReads
  <2> HIDE DEF s
  <2>3. Place(r) = n /\ Place(s) = 0  BY <1>1, <1>2, <1>3, <1>5, <2>2 DEF Place
  <2>4. r.offset + r.curposition \in Nat  BY <1>1
  <2>5. ComesAfter(sizes, r.offset + r.curposition, 0)  BY <1>2, <2>3, <2>4, NextTurn
  <2>6. RingRead(sizes, s)  BY <1>1, <1>2, <2>2, <2>3, <2>5 DEF RingRead
  <2> QED BY <2>1, <2>2, <2>6
<1>6. CASE i # 0 /\ i <= r.startat
  <2> DEFINE s == [r EXCEPT !.le = i]
  <2>1. Round(sizes, r) = s /\ i \in Nat /\ i = r.le + 1  BY <1>1, <1>3, <1>4, <1>6
  <2>2. /\ s \in RingReads /\ s.data = r.data /\ s.done = r.done /\ s.curposition = r.curposition
        /\ s.offset = r.offset /\ s.nbytes = r.nbytes /\ s.le = i /\ s.startat = r.startat
    BY <2>1 DEF RingReads
  <2> HIDE DEF s
  <2>3. Place(s) = Place(r)  BY <1>1, <1>6, <2>1, <2>2 DEF Place
  <2>4. i <= n  BY <1>1, <1>2, <1>6, <2>1
  <2>5. RingRead(sizes, s)  BY <1>2, <2>2, <2>3, <2>4 DEF RingRead
  <2> QED BY <2>1, <2>2, <2>5
<1>7. CASE i # 0 /\ ~(i <= r.startat)
  <2>1. i \in 1..n /\ i > r.startat /\ i - 1 = r.le  BY <1>1, <1>3, <1>7
  <2>2. i - 1 = Place(r)  BY <1>1, <2>1 DEF Place
  <2>3. Round(sizes, r) = Put(sizes, r, i)  BY <1>4, <1>7
  <2> QED BY <2>1, <2>2, <2>3, PutRight
<1> QED BY <1>5, <1>6, <1>7

\* The least of a set of positions, as PartialEntry chooses it.
LEMMA LeastPosition ==
    ASSUME NEW n \in Nat, NEW P \in SUBSET (1..n), P # {}
    PROVE  LET i == CHOOSE i \in P : \A k \in P : i <= k
           IN  i \in P /\ \A k \in P : i <= k
<1> DEFINE R == {ss \in Nat \X Nat : ss[1] < ss[2]}
<1>1. IsWellFoundedOn(R, Nat)  BY NatLessThanWellFounded, Zenon DEF OpToRel
<1>2. P \subseteq Nat  OBVIOUS
<1>3. \A x, y \in Nat : x < y => <<x, y>> \in R  OBVIOUS
<1> HIDE DEF R
<1>4. PICK x \in P : \A y \in P : ~(<<y, x>> \in R)  BY <1>1, <1>2, WFMin
<1>5. ASSUME NEW y \in P PROVE x <= y
  <2>1. x \in Nat /\ y \in Nat  BY <1>2
  <2>2. ~(y < x)  BY <1>3, <1>4, <2>1
  <2> QED BY <2>1, <2>2
<1> QED BY <1>5

\* The same for the first bytes of a read.
LEMMA FirstPiece ==
    ASSUME NEW sizes \in Seq(Nat), NEW offset \in Nat, NEW i \in 1..Len(sizes),
           NEW f \in Nat, NEW m \in Nat, f + m <= sizes[i],
           EndsAt(sizes, offset, 0, i, f), NEW piece, Piece(piece, i, f, m)
    PROVE  /\ piece \in Seq(RingBytesRead) /\ Len(piece) = m
           /\ RightBytes(sizes, offset, piece)
<1> DEFINE none == <<>>
           more == none \o piece
<1>1. none \in Seq(RingBytesRead) /\ Len(none) = 0 /\ RightBytes(sizes, offset, none)
  BY DEF RightBytes
<1>2. piece \in Seq(RingBytesRead) /\ Len(piece) = m  BY DEF Piece
<1>3. more = piece  BY <1>2
<1> HIDE DEF none
<1>4. EndsAt(sizes, offset, Len(none), i, f)  BY <1>1
<1>5. RightBytes(sizes, offset, more)  BY <1>1, <1>4, PieceRight
<1> QED BY <1>2, <1>3, <1>5

\* A read from the start of the ring, or from an offset in it.
LEMMA StartRight ==
    ASSUME NEW sizes \in Seq(Nat), sizes # <<>>, NEW nbytes \in Nat \ {0},
           NEW offset \in 0..Total(sizes)
    PROVE  LET r == ReadFrom(sizes, offset, nbytes)
           IN  r \in RingReads /\ RingRead(sizes, r) /\ r.offset = offset /\ r.nbytes = nbytes
<1> DEFINE n == Len(sizes)
           u == Upto(sizes)
           i == PartialEntry(sizes, offset)
           rest == u[i] - offset
           corr == IF offset > 0 /\ rest > 0 THEN rest ELSE 0
           size == sizes[i]
           m == IF corr < nbytes THEN corr ELSE nbytes
           piece == SubSeq(EntryBytes(sizes, i), size - corr + 1, size - corr + m)
           data == IF corr = 0 THEN <<>> ELSE piece
           done == corr >= nbytes
           startat == IF offset > 0 THEN i ELSE 0
           r == [offset |-> offset, nbytes |-> nbytes, startat |-> startat, curposition |-> corr,
                 data |-> data, le |-> NoEntry, done |-> done]
<1>1. ReadFrom(sizes, offset, nbytes) = r  BY DEF ReadFrom
<1>2. n \in Nat \ {0} /\ \A k \in 1..n : sizes[k] \in Nat  BY EmptySeq
<1>3. /\ u[0] = 0 /\ \A k \in 1..n : u[k] = u[k - 1] + sizes[k]
      /\ \A k \in 0..n : u[k] \in Nat
  BY UptoIs
<1>4. u[n] = Total(sizes) /\ u[n] \in Nat /\ offset \in 0..u[n]
  BY <1>2, <1>3 DEF Total
<1>5. /\ i \in 1..n
      /\ u[i] > offset => u[i - 1] <= offset
      /\ ~(u[i] > offset) => i = n
  <2> DEFINE past == {k \in 1..n : u[k] > offset}
             first == CHOOSE k \in past : \A l \in past : k <= l
  <2>1. i = IF past = {} THEN n ELSE first  BY DEF PartialEntry
  <2> HIDE DEF i
  <2>2. CASE past = {}
    <3>1. i = n /\ n \in 1..n /\ n \notin past  BY <1>2, <2>1, <2>2
    <3> QED BY <3>1
  <2>3. CASE past # {}
    <3> HIDE DEF u, n
    <3>1. past \in SUBSET (1..n)  OBVIOUS
    <3>2. first \in past /\ \A l \in past : first <= l
      <4> HIDE DEF past
      <4> QED BY <1>2, <2>3, <3>1, LeastPosition
    <3> HIDE DEF first
    <3>3. i \in 1..n /\ u[i] > offset /\ \A l \in past : i <= l  BY <2>1, <2>3, <3>2
    <3>4. u[i - 1] <= offset
      <4>1. CASE i = 1  BY <1>3, <1>4, <4>1
      <4>2. CASE i # 1
        <5>1. i - 1 \in 1..n /\ i - 1 \in 0..n /\ ~(i <= i - 1)  BY <1>2, <3>3, <4>2
        <5>2. i - 1 \notin past  BY <3>3, <5>1
        <5>3. ~(u[i - 1] > offset)  BY <5>1, <5>2
        <5>4. u[i - 1] \in Nat /\ offset \in Nat  BY <1>3, <1>4, <5>1
        <5> QED BY <5>3, <5>4
      <4> QED BY <4>1, <4>2
    <3> QED BY <3>3, <3>4
  <2> QED BY <2>2, <2>3
<1> HIDE DEF i
<1>6. /\ i - 1 \in 0..n /\ u[i] \in Nat /\ u[i - 1] \in Nat /\ size \in Nat
      /\ u[i] = u[i - 1] + size /\ offset \in Nat /\ u[n] \in Nat
  BY <1>2, <1>3, <1>4, <1>5
<1>7. corr \in Nat /\ corr <= size /\ m \in Nat /\ m <= corr /\ m <= nbytes
  <2>1. corr \in Nat /\ corr <= size
    <3> DEFINE b == u[i]
               a == u[i - 1]
    <3>1. a \in Nat /\ b \in Nat /\ size \in Nat /\ offset \in Nat /\ b = a + size
          /\ (b > offset => a <= offset)
      BY <1>5, <1>6
    <3> HIDE DEF a, b, size
    <3>2. b - offset > 0 => b - offset \in Nat /\ b - offset <= size  BY <3>1
    <3>3. corr = IF offset > 0 /\ b - offset > 0 THEN b - offset ELSE 0  BY DEF b
    <3> HIDE DEF corr
    <3> QED BY <3>1, <3>2, <3>3
  <2> HIDE DEF corr
  <2> QED BY <2>1
<1>8. corr # 0 => offset > 0 /\ offset + corr = u[i]
  <2> HIDE DEF u, size
  <2> QED BY <1>6
<1>9. startat \in Nat /\ startat <= n  BY <1>2, <1>5
<1>10. done \in BOOLEAN /\ (done <=> corr >= nbytes)  OBVIOUS
<1>11. data \in Seq(RingBytesRead) /\ Len(data) = m /\ RightBytes(sizes, offset, data)
  <2>1. CASE corr = 0
    <3>1. data = <<>> /\ m = 0  BY <1>7, <2>1
    <3>2. <<>> \in Seq(RingBytesRead) /\ Len(<<>>) = 0  OBVIOUS
    <3> HIDE DEF data, m
    <3> QED BY <3>1, <3>2 DEF RightBytes
  <2>2. CASE corr # 0
    <3> DEFINE f == size - corr
    <3>1. f \in 0..size /\ f + m <= size /\ m \in 0..size /\ u[i - 1] + f = offset
      <4> DEFINE b == u[i]
                 a == u[i - 1]
      <4>1. /\ a \in Nat /\ b \in Nat /\ size \in Nat /\ offset \in Nat /\ b = a + size
            /\ offset + corr = b
        BY <1>6, <1>8, <2>2
      <4> HIDE DEF a, b, size, corr, m
      <4>2. f \in 0..size /\ f + m <= size /\ m \in 0..size  BY <1>7, <4>1
      <4>3. a + f = offset  BY <1>7, <4>1
      <4> QED BY <4>2, <4>3 DEF a
    <3>2. Piece(piece, i, f, m)
      <4> HIDE DEF f, m
      <4>1. Piece(SubSeq(EntryBytes(sizes, i), f + 1, f + m), i, f, m)
        BY <1>5, <3>1, EntryPiece
      <4> QED BY <4>1 DEF f
    <3>3. EndsAt(sizes, offset, 0, i, f)
      <4>1. Total(sizes) * 0 = 0  BY <1>4
      <4>2. offset + 0 = Total(sizes) * 0 + (u[i - 1] + f)  BY <1>6, <3>1, <4>1
      <4> HIDE DEF f
      <4> QED BY <4>2 DEF EndsAt
    <3>4. f \in Nat /\ f + m <= sizes[i] /\ m \in Nat  BY <1>6, <1>7, <3>1
    <3> HIDE DEF piece, f
    <3>5. piece \in Seq(RingBytesRead) /\ Len(piece) = m /\ RightBytes(sizes, offset, piece)
      <4> HIDE DEF m
      <4> QED BY <1>5, <1>6, <3>2, <3>3, <3>4, FirstPiece
    <3>6. data = piece  BY <2>2
    <3> QED BY <3>5, <3>6
  <2> QED BY <2>1, <2>2
<1>12. ~done => corr = m /\ corr < nbytes
  <2> HIDE DEF corr
  <2> QED BY <1>7
<1>13. done => m = nbytes
  <2> HIDE DEF corr
  <2> QED BY <1>7
<1>14. ComesAfter(sizes, offset + corr, startat)
  <2>1. Total(sizes) * 0 = 0  BY <1>4
  <2>2. offset + corr = u[startat]
    <3>1. CASE corr # 0  BY <1>8, <3>1
    <3>2. CASE corr = 0 /\ offset = 0  BY <1>3, <3>2
    <3>3. CASE corr = 0 /\ offset > 0
      <4>1. ~(u[i] > offset) /\ startat = i
        <5> HIDE DEF u
        <5> QED BY <1>6, <3>3
      <4>2. i = n /\ u[i] = offset
        <5> HIDE DEF u
        <5> QED BY <1>4, <1>5, <1>6, <4>1
      <4> QED BY <1>6, <3>3, <4>1, <4>2
    <3> QED BY <1>6, <3>1, <3>2, <3>3
  <2>3. u[startat] \in Nat  BY <1>3, <1>9
  <2> HIDE DEF corr, startat
  <2>4. offset + corr = Total(sizes) * 0 + u[startat]  BY <2>1, <2>2, <2>3
  <2> QED BY <2>4 DEF ComesAfter
<1> HIDE DEF corr, done, data, startat, m, u, n, piece
<1>15. /\ r \in RingReads /\ r.data = data /\ r.done = done /\ r.curposition = corr
       /\ r.offset = offset /\ r.nbytes = nbytes /\ r.le = 0 /\ r.startat = startat
  BY <1>6, <1>7, <1>9, <1>10, <1>11 DEF RingReads, NoEntry
<1> HIDE DEF r
<1>16. Place(r) = startat  BY <1>9, <1>15 DEF Place
<1>17. RingRead(sizes, r)
  <2>1. 0 <= Len(sizes) /\ startat <= Len(sizes)  BY <1>2, <1>9 DEF n
  <2> QED BY <1>11, <1>12, <1>13, <1>14, <1>15, <1>16, <2>1 DEF RingRead
<1> QED BY <1>1, <1>15, <1>17

-----------------------------------------------------------------------------
RingRequests == [ch : Channels, n : Nat \ {0}, fromend : BOOLEAN]

\* A read of what is asked for, of a channel that has something if it is an actor's.
ReadsFor(sizes, q, r) ==
    /\ r \in RingReads /\ r.nbytes = q.n
    /\ r.offset = IF q.fromend THEN OffsetFromEnd(sizes, q.n) ELSE 0
    /\ sizes # <<>> => RingRead(sizes, r)
    /\ q.fromend => \E i \in 1..Len(sizes) : sizes[i] > 0

\* The inductive invariant.
RingInvariant ==
    /\ todo \in Seq(RingRequests)
    /\ pc \in {"input", "flush"} => todo = <<>>
    /\ todo = <<>> => read = NoRead
    /\ pc = "actor" => \A q \in 1..Len(todo) : todo[q].fromend
    /\ read # NoRead => ReadsFor(Sizes(Head(todo).ch), Head(todo), read)

SameSizes(list, other) ==
    Len(list) = Len(other) /\ \A i \in 1..Len(list) : list[i].size = other[i].size

LEMMA AlikeSizes ==
    ASSUME NEW list, NEW other, Alike(list, other)
    PROVE  SameSizes(list, other)
BY DEF Alike, SameSizes

\* A tick changes no size.
LEMMA OlderSize ==
    ASSUME NEW s \in SampleRecords
    PROVE  Older(s).size = s.size
<1> DEFINE a == IF TooOld(s) THEN s.age ELSE s.age + 1
<1>1. Older(s) = [s EXCEPT !.age = a]  BY DEF Older
<1> HIDE DEF a
<1> QED BY <1>1 DEF SampleRecords

LEMMA TickedSizes ==
    ASSUME FlushTypes, pool' = [ch \in Channels |-> [i \in 1..Len(pool[ch]) |-> Older(pool[ch][i])]]
    PROVE  \A ch \in Channels : SameSizes(pool[ch], pool'[ch])
<1> SUFFICES ASSUME NEW ch \in Channels PROVE SameSizes(pool[ch], pool'[ch])  OBVIOUS
<1>1. pool[ch] \in Seq(SampleRecords)  BY DEF FlushTypes
<1>2. pool'[ch] = [i \in 1..Len(pool[ch]) |-> Older(pool[ch][i])]  OBVIOUS
<1>3. Len(pool'[ch]) = Len(pool[ch])
  <2>1. Len(pool[ch]) \in Nat  BY <1>1
  <2> QED BY <1>2, <2>1
<1>4. \A i \in 1..Len(pool[ch]) : pool'[ch][i].size = pool[ch][i].size
  BY <1>1, <1>2, OlderSize
<1> QED BY <1>3, <1>4 DEF SameSizes

LEMMA SizesTyped ==
    ASSUME FlushTypes, NEW ch \in Channels
    PROVE  Sizes(ch) \in Seq(Nat)
<1> DEFINE S(i) == pool[ch][i].size
           n == Len(pool[ch])
<1>1. pool[ch] \in Seq(SampleRecords)  BY DEF FlushTypes
<1>2. ASSUME NEW i \in 1..n PROVE S(i) \in Nat
  <2>1. pool[ch][i] \in SampleRecords  BY <1>1, <1>2
  <2> QED BY <2>1 DEF SampleRecords
<1>3. Sizes(ch) = [i \in 1..n |-> S(i)] /\ n \in Nat  BY <1>1 DEF Sizes
<1> HIDE DEF S, n
<1> QED BY <1>2, <1>3

LEMMA SizesStay ==
    ASSUME NEW ch \in Channels, SameSizes(pool[ch], pool'[ch])
    PROVE  Sizes(ch)' = Sizes(ch)
BY DEF SameSizes, Sizes

LEMMA RequestedFirst ==
    ASSUME NEW list \in Seq(RingRequests), list # <<>>
    PROVE  /\ Head(list) \in RingRequests /\ Head(list) = list[1] /\ 1 \in 1..Len(list)
           /\ Tail(list) \in Seq(RingRequests)
           /\ (\A q \in 1..Len(list) : list[q].fromend) =>
                  \A q \in 1..Len(Tail(list)) : Tail(list)[q].fromend
<1>1. Len(list) \in Nat \ {0}  BY EmptySeq
<1>2. Head(list) = list[1] /\ 1 \in 1..Len(list) /\ list[1] \in RingRequests  BY <1>1
<1>3. /\ Tail(list) \in Seq(RingRequests) /\ Len(Tail(list)) = Len(list) - 1
      /\ \A q \in 1..Len(list) - 1 : Tail(list)[q] = list[q + 1]
  BY <1>1
<1>4. \A q \in 1..Len(list) - 1 : q + 1 \in 1..Len(list)  BY <1>1
<1> QED BY <1>2, <1>3, <1>4

LEMMA ReadingRequests ==
    ASSUME NEW n \in Nat \ {0}, NEW fromend \in BOOLEAN
    PROVE  /\ Reading(n, fromend) \in Seq(RingRequests) /\ Reading(n, fromend) # <<>>
           /\ \A q \in 1..Len(Reading(n, fromend)) : Reading(n, fromend)[q].fromend = fromend
<1> DEFINE l == [ch |-> "left", n |-> n, fromend |-> fromend]
           r == [ch |-> "right", n |-> n, fromend |-> fromend]
<1>1. l \in RingRequests /\ r \in RingRequests /\ l.fromend = fromend /\ r.fromend = fromend
  BY DEF RingRequests, Channels
<1>2. Reading(n, fromend) = <<l, r>>  BY DEF Reading
<1> HIDE DEF l, r
<1>3. \A q \in 1..2 : q = 1 \/ q = 2  OBVIOUS
<1>4. \A q \in 1..2 : <<l, r>>[q] = l \/ <<l, r>>[q] = r  BY <1>3
<1> QED BY <1>1, <1>2, <1>4

\* A channel that has a sample that is not empty is not empty itself.
LEMMA PositiveTotal ==
    ASSUME NEW sizes \in Seq(Nat), NEW i \in 1..Len(sizes), sizes[i] > 0
    PROVE  Total(sizes) > 0 /\ sizes # <<>>
<1> DEFINE u == Upto(sizes)
           n == Len(sizes)
<1>1. n \in Nat /\ sizes[i] \in Nat /\ i - 1 \in 0..n /\ i \in 0..n /\ n \in 0..n /\ i <= n
  OBVIOUS
<1>2. u[i] = u[i - 1] + sizes[i] /\ u[i - 1] \in Nat /\ u[i] \in Nat /\ u[n] \in Nat /\ u[i] <= u[n]
  BY <1>1, UptoIs
<1>3. Total(sizes) = u[n]  BY DEF Total
<1> HIDE DEF u, n
<1>4. u[n] > 0  BY <1>1, <1>2
<1>5. sizes # <<>>
  <2>1. sizes = <<>> => n = 0  BY DEF n
  <2> QED BY <1>1, <2>1
<1> QED BY <1>3, <1>4, <1>5

-----------------------------------------------------------------------------
LEMMA RingInit == Init => RingInvariant
<1> SUFFICES ASSUME Init PROVE RingInvariant  OBVIOUS
<1>1. <<>> \in Seq(RingRequests) /\ todo = <<>> /\ read = NoRead /\ pc = "input"  BY DEF Init
<1> QED BY <1>1 DEF RingInvariant

\* Steps that leave nothing to read.
LEMMA NothingRead ==
    ASSUME todo' = <<>>, read' = NoRead
    PROVE  RingInvariant'
<1>1. <<>> \in Seq(RingRequests) /\ ~(\E q \in 1..Len(<<>>) : TRUE)  OBVIOUS
<1> QED BY <1>1 DEF RingInvariant

\* Steps that leave the reads and the sizes alone.
LEMMA ReadStays ==
    ASSUME RingInvariant, UNCHANGED <<todo, read>>,
           pc' \in {"input", "flush"} => pc \in {"input", "flush"}, pc' = "actor" => pc = "actor",
           \A ch \in Channels : SameSizes(pool[ch], pool'[ch])
    PROVE  RingInvariant'
<1>1. ASSUME read # NoRead PROVE ReadsFor(Sizes(Head(todo).ch)', Head(todo), read)
  <2>1. todo # <<>> /\ todo \in Seq(RingRequests)  BY <1>1 DEF RingInvariant
  <2>2. Head(todo) \in RingRequests  BY <2>1, RequestedFirst
  <2>3. Head(todo).ch \in Channels  BY <2>2 DEF RingRequests
  <2>4. Sizes(Head(todo).ch)' = Sizes(Head(todo).ch)
    <3> DEFINE c == Head(todo).ch
    <3>1. c \in Channels /\ c' = c  BY <2>3
    <3>2. SameSizes(pool[c], pool'[c])  BY <3>1
    <3> QED BY <3>1, <3>2 DEF SameSizes, Sizes
  <2> QED BY <1>1, <2>4 DEF RingInvariant
<1> QED BY <1>1 DEF RingInvariant

\* Reads are asked for when none is going on.
LEMMA ReadsAsked ==
    ASSUME NEW n \in Nat \ {0}, NEW fromend \in BOOLEAN,
           todo' = Reading(n, fromend), read' = NoRead,
           pc' = "analyze" \/ (pc' = "actor" /\ fromend)
    PROVE  RingInvariant'
BY ReadingRequests DEF RingInvariant

\* A read is over, or there is no channel to read.
LEMMA RequestDone ==
    ASSUME RingInvariant, todo # <<>>, pc' = pc, todo' = Tail(todo), read' = NoRead
    PROVE  RingInvariant'
<1>1. todo \in Seq(RingRequests) /\ pc \notin {"input", "flush"}
      /\ (pc = "actor" => \A q \in 1..Len(todo) : todo[q].fromend)
  BY DEF RingInvariant
<1> QED BY <1>1, RequestedFirst DEF RingInvariant

\* A read is begun or goes on.
LEMMA ReadGoesOn ==
    ASSUME RingInvariant, UNCHANGED <<todo, pc>>, todo # <<>>,
           NEW r, read' = r, ReadsFor(Sizes(Head(todo).ch), Head(todo), r),
           \A ch \in Channels : SameSizes(pool[ch], pool'[ch])
    PROVE  RingInvariant'
<1>1. todo \in Seq(RingRequests)  BY DEF RingInvariant
<1>2. Head(todo) \in RingRequests  BY <1>1, RequestedFirst
<1>3. Sizes(Head(todo).ch)' = Sizes(Head(todo).ch)
  <2> DEFINE c == Head(todo).ch
  <2>1. c \in Channels /\ c' = c  BY <1>2 DEF RingRequests
  <2>2. SameSizes(pool[c], pool'[c])  BY <2>1
  <2> QED BY <2>1, <2>2 DEF SameSizes, Sizes
<1>4. ReadsFor(Sizes(Head(todo).ch)', Head(todo)', read')  BY <1>3
<1> QED BY <1>4 DEF RingInvariant

LEMMA PoolSameSizes ==
    ASSUME FlushTypes, NEW c, NEW k, NEW filled,
           pool' = pool \/ pool' = [pool EXCEPT ![c][k] = Used(@, filled)]
    PROVE  \A ch \in Channels : SameSizes(pool[ch], pool'[ch])
<1>1. pool \in [Channels -> Seq(SampleRecords)]  BY DEF FlushTypes
<1>2. CASE pool' = pool  BY <1>2 DEF SameSizes
<1>3. CASE pool' = [pool EXCEPT ![c][k] = Used(@, filled)]
  <2>1. \A ch \in Channels : AlikeOld(pool[ch], pool'[ch])  BY <1>1, <1>3, UsedPool
  <2> QED BY <2>1, AlikeSizes DEF AlikeOld
<1> QED BY <1>2, <1>3

\* How a read of a request begins.
LEMMA BegunRead ==
    ASSUME NEW sizes \in Seq(Nat), NEW q \in RingRequests,
           q.fromend => \E i \in 1..Len(sizes) : sizes[i] > 0
    PROVE  ReadsFor(sizes, q, ReadFrom(sizes, IF q.fromend THEN OffsetFromEnd(sizes, q.n) ELSE 0, q.n))
<1> DEFINE offset == IF q.fromend THEN OffsetFromEnd(sizes, q.n) ELSE 0
           n == q.n
           r == ReadFrom(sizes, offset, n)
<1>1. n \in Nat \ {0}  BY DEF RingRequests
<1>2. CASE sizes # <<>>
  <2>1. offset \in 0..Total(sizes)
    <3>1. CASE q.fromend
      <4>1. Total(sizes) > 0  BY <3>1, PositiveTotal
      <4>2. OffsetFromEnd(sizes, n) \in 1..Total(sizes)  BY <1>1, <4>1, FromEndIs
      <4> QED BY <3>1, <4>2
    <3>2. CASE ~q.fromend
      <4>1. Len(sizes) \in 0..Len(sizes)  OBVIOUS
      <4>2. Total(sizes) \in Nat  BY <4>1, UptoIs DEF Total
      <4> QED BY <3>2, <4>2
    <3> QED BY <3>1, <3>2
  <2> HIDE DEF offset, n
  <2>2. r \in RingReads /\ RingRead(sizes, r) /\ r.offset = offset /\ r.nbytes = n
    BY <1>1, <1>2, <2>1, StartRight
  <2> HIDE DEF r
  <2>3. ReadsFor(sizes, q, r)  BY <2>2 DEF ReadsFor, offset, n
  <2> QED BY <2>3 DEF r, offset, n
<1>3. CASE sizes = <<>>
  <2> DEFINE s == [offset |-> 0, nbytes |-> n, startat |-> 0, curposition |-> 0,
                   data |-> <<>>, le |-> NoEntry, done |-> 0 >= n]
  <2>1. ~q.fromend /\ offset = 0  BY <1>3
  <2>2. r = s  BY <2>1 DEF ReadFrom
  <2>3. s \in RingReads /\ s.nbytes = n /\ s.offset = 0  BY <1>1 DEF RingReads, NoEntry
  <2> HIDE DEF s, r
  <2>4. ReadsFor(sizes, q, r)  BY <1>3, <2>1, <2>2, <2>3 DEF ReadsFor
  <2> QED BY <2>4 DEF r
<1> QED BY <1>2, <1>3

LEMMA RingGetSample ==
    ASSUME RingInvariant, FlushTypes, visual_audio_get_sample
    PROVE  RingInvariant'
<1> DEFINE q == Head(todo)
           sizes == Sizes(q.ch)
           empty == \A i \in 1..Len(sizes) : sizes[i] = 0
           first == ReadFrom(sizes, IF q.fromend THEN OffsetFromEnd(sizes, q.n) ELSE 0, q.n)
<1>1. todo # <<>> /\ todo \in Seq(RingRequests) /\ read = NoRead
      /\ pc \in {"analyze", "actor"}
  BY DEF RingInvariant, visual_audio_get_sample
<1>2. q \in RingRequests  BY <1>1, RequestedFirst
<1>3. q.ch \in Channels /\ q.n \in Nat \ {0} /\ q.fromend \in BOOLEAN  BY <1>2 DEF RingRequests
<1>4. sizes \in Seq(Nat)  BY <1>3, SizesTyped
<1>5. \/ /\ ~HasChannel(q.ch) /\ todo' = Tail(todo) /\ UNCHANGED <<pool, pc, read>>
      \/ /\ q.fromend /\ empty /\ pc' = "dead" /\ UNCHANGED <<pool, todo, read>>
      \/ /\ ~(q.fromend /\ empty) /\ read' = first /\ UNCHANGED <<pc, todo>>
         /\ \/ pool' = pool
            \/ pool' = [pool EXCEPT ![q.ch][first.startat] = Used(@, first.done)]
  BY DEF visual_audio_get_sample
<1>6. CASE ~HasChannel(q.ch) /\ todo' = Tail(todo) /\ UNCHANGED <<pool, pc, read>>
  BY <1>1, <1>6, RequestDone
<1>7. CASE pc' = "dead" /\ UNCHANGED <<pool, todo, read>>
  BY <1>7, ReadStays DEF SameSizes
<1>8. CASE /\ ~(q.fromend /\ empty) /\ read' = first /\ UNCHANGED <<pc, todo>>
           /\ \/ pool' = pool
              \/ pool' = [pool EXCEPT ![q.ch][first.startat] = Used(@, first.done)]
  <2>1. q.fromend => \E i \in 1..Len(sizes) : sizes[i] > 0
    <3>1. \A i \in 1..Len(sizes) : sizes[i] \in Nat  BY <1>4
    <3> HIDE DEF sizes
    <3> QED BY <1>8, <3>1
  <2>2. ReadsFor(sizes, q, first)
    <3> HIDE DEF sizes, q
    <3> QED BY <1>2, <1>4, <2>1, BegunRead
  <2> HIDE DEF first
  <2>3. \A ch \in Channels : SameSizes(pool[ch], pool'[ch])  BY <1>8, PoolSameSizes
  <2> QED BY <1>1, <1>8, <2>2, <2>3, ReadGoesOn
<1> QED BY <1>5, <1>6, <1>7, <1>8

LEMMA RingReadOn ==
    ASSUME RingInvariant, FlushTypes, visual_ringbuffer_get_data_offset
    PROVE  RingInvariant'
<1> DEFINE q == Head(todo)
           sizes == Sizes(q.ch)
           r == Round(sizes, read)
<1>1. /\ todo # <<>> /\ todo \in Seq(RingRequests) /\ read # NoRead /\ ~read.done
      /\ ReadsFor(sizes, q, read)
  BY DEF RingInvariant, visual_ringbuffer_get_data_offset
<1>2. q \in RingRequests  BY <1>1, RequestedFirst
<1>3. q.ch \in Channels  BY <1>2 DEF RingRequests
<1>4. sizes \in Seq(Nat)  BY <1>3, SizesTyped
<1>5. /\ read' = r /\ UNCHANGED <<pc, todo>>
      /\ pool' = pool \/ pool' = [pool EXCEPT ![q.ch][r.le] = Used(@, r.done)]
  BY DEF visual_ringbuffer_get_data_offset
<1>6. ReadsFor(sizes, q, r)
  <2> HIDE DEF sizes, q
  <2>1. read \in RingReads  BY <1>1 DEF ReadsFor
  <2>2. CASE sizes # <<>>
    <3>1. RingRead(sizes, read)  BY <1>1, <2>2 DEF ReadsFor
    <3>2. r \in RingReads /\ RingRead(sizes, r) /\ r.offset = read.offset /\ r.nbytes = read.nbytes
      BY <1>1, <1>4, <2>1, <2>2, <3>1, RoundRight
    <3> HIDE DEF r
    <3> QED BY <1>1, <3>2 DEF ReadsFor
  <2>3. CASE sizes = <<>>
    <3> DEFINE s == [read EXCEPT !.le = NoEntry, !.startat = 0, !.done = TRUE]
    <3>1. read.le \in Nat /\ Len(sizes) = 0  BY <2>1, <2>3 DEF RingReads
    <3>2. r = s
      <4>1. visual_list_next(sizes, read.le) = NoEntry  BY <3>1 DEF visual_list_next
      <4>2. r = [read EXCEPT !.le = NoEntry, !.startat = 0, !.done = Len(sizes) = 0]
        BY <4>1 DEF Round
      <4>3. (Len(sizes) = 0) = TRUE  BY <3>1
      <4> QED BY <4>2, <4>3
    <3>3. s \in RingReads /\ s.offset = read.offset /\ s.nbytes = read.nbytes
      BY <2>1 DEF RingReads, NoEntry
    <3> HIDE DEF r, s
    <3> QED BY <1>1, <2>3, <3>2, <3>3 DEF ReadsFor
  <2> QED BY <2>2, <2>3
<1> HIDE DEF r
<1>7. \A ch \in Channels : SameSizes(pool[ch], pool'[ch])  BY <1>5, PoolSameSizes
<1> QED BY <1>1, <1>5, <1>6, <1>7, ReadGoesOn

LEMMA RingNext ==
    ASSUME RingInvariant, FlushTypes, [Next]_vars
    PROVE  RingInvariant'
<1>1. pc \in {"input", "flush"} => todo = <<>> /\ read = NoRead  BY DEF RingInvariant
<1>2. todo = <<>> => read = NoRead  BY DEF RingInvariant
<1>3. CASE Input \/ visual_audio_analyze \/ FlushStep \/ FrameEnd
  <2>1. todo' = <<>> /\ read' = NoRead
    BY <1>1, <1>2, <1>3 DEF Input, visual_audio_samplepool_input,
       visual_audio_samplepool_input_channel, visual_audio_analyze, FlushStep, FrameEnd
  <2> QED BY <2>1, NothingRead
<1>4. CASE FlushEnds
  <2>1. todo' = Reading(AnalyzeSize, FALSE) /\ read' = NoRead /\ pc' = "analyze"
    BY <1>1, <1>4 DEF FlushEnds
  <2>2. AnalyzeSize \in Nat \ {0}  BY SizesAssumption
  <2> QED BY <2>1, <2>2, ReadsAsked
<1>5. CASE \E n \in Requests : visual_actor_run(n)
  <2>1. PICK n \in Requests : visual_actor_run(n)  BY <1>5
  <2>2. todo' = Reading(n, TRUE) /\ read' = NoRead /\ pc' = "actor"
    BY <1>2, <2>1 DEF visual_actor_run
  <2>3. n \in Nat \ {0}  BY SizesAssumption
  <2> QED BY <2>2, <2>3, ReadsAsked
<1>6. CASE ReadEnds
  <2>1. todo # <<>> /\ pc' = pc /\ todo' = Tail(todo) /\ read' = NoRead
    BY <1>2, <1>6 DEF ReadEnds
  <2> QED BY <2>1, RequestDone
<1>7. CASE Tick
  <2>1. /\ UNCHANGED <<todo, read, pc>>
        /\ pool' = [ch \in Channels |-> [i \in 1..Len(pool[ch]) |-> Older(pool[ch][i])]]
    BY <1>7 DEF Tick
  <2>2. \A ch \in Channels : SameSizes(pool[ch], pool'[ch])  BY <2>1, TickedSizes
  <2> QED BY <2>1, <2>2, ReadStays
<1>8. CASE UNCHANGED vars
  BY <1>8, ReadStays DEF vars, SameSizes
<1> QED BY <1>3, <1>4, <1>5, <1>6, <1>7, <1>8, RingGetSample, RingReadOn
        DEF Next, InFrame

\* The flush's types hold, so do the reads.
LEMMA RingAlways == Spec => [](FlushTypes /\ RingInvariant)
<1>1. Init => FlushInvariant /\ RingInvariant  BY FlushInit, RingInit
<1>2. FlushInvariant /\ RingInvariant /\ [Next]_vars => (FlushInvariant /\ RingInvariant)'
  <2>1. FlushInvariant => FlushTypes  BY DEF FlushInvariant
  <2> QED BY <2>1, FlushNextHolds, RingNext
<1>3. FlushInvariant /\ RingInvariant => FlushTypes /\ RingInvariant  BY DEF FlushInvariant
<1> QED BY <1>1, <1>2, <1>3, PTL DEF Spec

\* lv_ringbuffer.c: whatever fragments a channel is made of, wherever a read
\* starts and however often it comes round, its data are the bytes of the ring
\* in order from its offset.
THEOREM ReadsGiveTheRing == Spec => []ReadsTheRing
<1>1. FlushTypes /\ RingInvariant => ReadsTheRing
  <2> DEFINE q == Head(todo)
             sizes == Sizes(q.ch)
  <2> SUFFICES ASSUME FlushTypes, RingInvariant, read # NoRead, read.done, sizes # <<>>
               PROVE  read.data = RingBytes(sizes, read.offset, read.nbytes)
    BY DEF ReadsTheRing
  <2>1. ReadsFor(sizes, q, read)  BY DEF RingInvariant
  <2> HIDE DEF q, sizes
  <2>2. read \in RingReads /\ RingRead(sizes, read)  BY <2>1 DEF ReadsFor
  <2>3. read.data \in Seq(RingBytesRead)  BY <2>2 DEF RingReads
  <2> DEFINE data == read.data
             B(k) == RingByte(sizes, (read.offset + k - 1) % Total(sizes))
  <2>4. Len(data) = read.nbytes /\ \A k \in 1..Len(data) : data[k] = B(k)
    BY <2>2 DEF RingRead, RightBytes
  <2>5. RingBytes(sizes, read.offset, read.nbytes) = [k \in 1..read.nbytes |-> B(k)]
    BY DEF RingBytes, visual_ringbuffer_get_size, Total
  <2> HIDE DEF B
  <2>6. data = [k \in 1..Len(data) |-> data[k]]  BY <2>3
  <2> HIDE DEF data
  <2>7. data = [k \in 1..read.nbytes |-> B(k)]  BY <2>4, <2>6
  <2> QED BY <2>5, <2>7 DEF data
<1> QED BY <1>1, RingAlways, PTL

-----------------------------------------------------------------------------
\* Every sample of a channel has a byte at least.
FilledList(list) == \A i \in 1..Len(list) : list[i].size > 0

Filled == \A ch \in Channels : FilledList(pool[ch])

LEMMA SameFilled ==
    ASSUME NEW list, NEW other, SameSizes(list, other), FilledList(list)
    PROVE  FilledList(other)
BY DEF SameSizes, FilledList

LEMMA AddedFilled ==
    ASSUME NEW list \in Seq(SampleRecords), NEW size \in Nat, size > 0, FilledList(list)
    PROVE  FilledList(Append(list, Sample(size)))
<1> DEFINE s == Sample(size)
           other == Append(list, s)
<1>1. s \in SampleRecords /\ s.size = size  BY DEF Sample, SampleRecords
<1> HIDE DEF s
<1>2. /\ Len(other) = Len(list) + 1 /\ Len(list) \in Nat /\ other[Len(list) + 1] = s
      /\ \A i \in 1..Len(list) : other[i] = list[i]
  BY <1>1
<1> HIDE DEF other
<1>3. ASSUME NEW i \in 1..Len(other) PROVE other[i].size > 0
  <2>1. CASE i \in 1..Len(list)  BY <1>2, <2>1 DEF FilledList
  <2>2. CASE i \notin 1..Len(list)
    <3>1. i = Len(list) + 1  BY <1>2, <2>2
    <3> QED BY <1>1, <1>2, <3>1
  <2> QED BY <2>1, <2>2
<1>4. FilledList(other)  BY <1>3 DEF FilledList
<1> QED BY <1>4 DEF other, s

LEMMA RemovedFilled ==
    ASSUME NEW list \in Seq(SampleRecords), NEW i \in 1..Len(list), FilledList(list)
    PROVE  FilledList(RemoveAt(list, i))
<1> DEFINE less == RemoveAt(list, i)
<1>1. /\ Len(less) = Len(list) - 1 /\ Len(list) \in Nat
      /\ \A k \in 1..Len(list) - 1 : less[k] = IF k < i THEN list[k] ELSE list[k + 1]
  BY RemoveAtIs
<1> HIDE DEF less
<1>2. ASSUME NEW k \in 1..Len(less) PROVE less[k].size > 0
  <2>1. k \in 1..Len(list) /\ k + 1 \in 1..Len(list)  BY <1>1
  <2> QED BY <1>1, <2>1 DEF FilledList
<1>3. FilledList(less)  BY <1>2 DEF FilledList
<1> QED BY <1>3 DEF less

LEMMA FilledNext ==
    ASSUME 0 \notin DirectSizes, FlushTypes, Filled, [Next]_vars
    PROVE  Filled'
<1>1. \A ch \in Channels : pool[ch] \in Seq(SampleRecords) /\ FilledList(pool[ch])
  BY DEF FlushTypes, Filled
<1>2. pool \in [Channels -> Seq(SampleRecords)]  BY DEF FlushTypes
<1>3. CASE \A ch \in Channels : SameSizes(pool[ch], pool'[ch])
  BY <1>1, <1>3, SameFilled DEF Filled
<1>4. CASE pool' = pool  BY <1>3, <1>4 DEF SameSizes
<1>5. CASE \E count \in Counts : visual_audio_samplepool_input(count)
  <2>1. PICK count \in Counts : visual_audio_samplepool_input(count)  BY <1>5
  <2>2. CASE count > 2
    <3> DEFINE size == count \div 2
    <3>1. size \in Nat /\ size > 0
      <4>1. count \in Nat  BY SizesAssumption
      <4> QED BY <2>2, <4>1
    <3>2. pool' = [ch \in Channels |-> Append(pool[ch], Sample(size))]
      BY <2>1, <2>2 DEF visual_audio_samplepool_input
    <3> HIDE DEF size
    <3> QED BY <1>1, <3>1, <3>2, AddedFilled DEF Filled
  <2>3. CASE ~(count > 2)
    <3>1. pool' = pool  BY <2>1, <2>3 DEF visual_audio_samplepool_input
    <3> QED BY <1>4, <3>1
  <2> QED BY <2>2, <2>3
<1>6. CASE \E c \in Channels, size \in DirectSizes : visual_audio_samplepool_input_channel(c, size)
  <2>1. PICK c \in Channels, size \in DirectSizes : visual_audio_samplepool_input_channel(c, size)
    BY <1>6
  <2>2. size \in Nat /\ size > 0  BY SizesAssumption
  <2>3. pool' = [pool EXCEPT ![c] = Append(pool[c], Sample(size))]
    BY <2>1 DEF visual_audio_samplepool_input_channel
  <2>4. FilledList(Append(pool[c], Sample(size)))  BY <1>1, <2>2, AddedFilled
  <2> QED BY <1>1, <1>2, <2>3, <2>4 DEF Filled
<1>7. CASE visual_audio_analyze
  <2>1. pool' = [ch \in Channels |-> [i \in 1..Len(pool[ch]) |->
                     [pool[ch][i] EXCEPT !.old = TooOld(pool[ch][i])]]]
    BY <1>7 DEF visual_audio_analyze
  <2>2. ASSUME NEW ch \in Channels PROVE SameSizes(pool[ch], pool'[ch])
    <3>1. pool'[ch] = [i \in 1..Len(pool[ch]) |-> [pool[ch][i] EXCEPT !.old = TooOld(pool[ch][i])]]
      BY <2>1
    <3>2. Len(pool'[ch]) = Len(pool[ch])
      <4>1. Len(pool[ch]) \in Nat  BY <1>1
      <4> QED BY <3>1, <4>1
    <3>3. ASSUME NEW i \in 1..Len(pool[ch]) PROVE pool'[ch][i].size = pool[ch][i].size
      <4>1. pool[ch][i] \in SampleRecords /\ TooOld(pool[ch][i]) \in BOOLEAN
        BY <1>1 DEF TooOld
      <4>2. pool'[ch][i] = [pool[ch][i] EXCEPT !.old = TooOld(pool[ch][i])]  BY <3>1
      <4> QED BY <4>1, <4>2, MarkedSample
    <3> QED BY <3>2, <3>3 DEF SameSizes
  <2> QED BY <1>3, <2>2
<1>8. CASE FlushEnds
  <2>1. pool' = [ch \in Channels |-> [i \in 1..Len(pool[ch]) |-> [pool[ch][i] EXCEPT !.old = FALSE]]]
    BY <1>8 DEF FlushEnds
  <2>2. ASSUME NEW ch \in Channels PROVE SameSizes(pool[ch], pool'[ch])
    <3>1. pool'[ch] = [i \in 1..Len(pool[ch]) |-> [pool[ch][i] EXCEPT !.old = FALSE]]
      BY <2>1
    <3>2. Len(pool'[ch]) = Len(pool[ch])
      <4>1. Len(pool[ch]) \in Nat  BY <1>1
      <4> QED BY <3>1, <4>1
    <3>3. ASSUME NEW i \in 1..Len(pool[ch]) PROVE pool'[ch][i].size = pool[ch][i].size
      <4>1. pool[ch][i] \in SampleRecords  BY <1>1
      <4>2. pool'[ch][i] = [pool[ch][i] EXCEPT !.old = FALSE]  BY <3>1
      <4> QED BY <4>1, <4>2, MarkedSample
    <3> QED BY <3>2, <3>3 DEF SameSizes
  <2> QED BY <1>3, <2>2
<1>9. CASE Tick
  <2>1. pool' = [ch \in Channels |-> [i \in 1..Len(pool[ch]) |-> Older(pool[ch][i])]]
    BY <1>9 DEF Tick
  <2>2. \A ch \in Channels : SameSizes(pool[ch], pool'[ch])  BY <2>1, TickedSizes
  <2> QED BY <1>3, <2>2
<1>10. CASE FlushStep
  <2> DEFINE ch == channels[flush.channel]
             i == visual_list_next(pool[ch], flush.le)
  <2>1. pool' = pool \/ (i # NoEntry /\ pool' = [pool EXCEPT ![ch] = RemoveAt(pool[ch], i)])
    BY <1>10 DEF FlushStep, visual_list_delete
  <2>2. CASE i # NoEntry /\ pool' = [pool EXCEPT ![ch] = RemoveAt(pool[ch], i)]
    <3>1. flush.channel \in 1..Len(channels) /\ channels \in Seq(Channels) /\ flush.le \in Nat
      BY <1>10 DEF FlushStep, FlushTypes
    <3>2. ch \in Channels  BY <3>1
    <3>3. i \in 1..Len(pool[ch])
      <4>1. Len(pool[ch]) \in Nat  BY <1>1, <3>2
      <4> HIDE DEF ch
      <4>2. i = IF flush.le < Len(pool[ch]) THEN flush.le + 1 ELSE NoEntry
        BY DEF visual_list_next
      <4> QED BY <2>2, <3>1, <4>1, <4>2
    <3> HIDE DEF i, ch
    <3>4. FilledList(RemoveAt(pool[ch], i))  BY <1>1, <3>2, <3>3, RemovedFilled
    <3> QED BY <1>1, <1>2, <2>2, <3>2, <3>4 DEF Filled
  <2> QED BY <1>4, <2>1, <2>2
<1>11. CASE visual_audio_get_sample
  <2> DEFINE r == Head(todo)
             first == ReadFrom(Sizes(r.ch), IF r.fromend THEN OffsetFromEnd(Sizes(r.ch), r.n)
                                            ELSE 0, r.n)
  <2>1. pool' = pool \/ pool' = [pool EXCEPT ![r.ch][first.startat] = Used(@, first.done)]
    BY <1>11 DEF visual_audio_get_sample
  <2> HIDE DEF r, first
  <2> QED BY <1>3, <2>1, PoolSameSizes
<1>12. CASE visual_ringbuffer_get_data_offset
  <2> DEFINE c == Head(todo).ch
             r == Round(Sizes(c), read)
  <2>1. pool' = pool \/ pool' = [pool EXCEPT ![c][r.le] = Used(@, r.done)]
    BY <1>12 DEF visual_ringbuffer_get_data_offset
  <2> HIDE DEF c, r
  <2> QED BY <1>3, <2>1, PoolSameSizes
<1>13. CASE ReadEnds \/ (\E n \in Requests : visual_actor_run(n)) \/ FrameEnd \/ UNCHANGED vars
  BY <1>4, <1>13 DEF ReadEnds, visual_actor_run, FrameEnd, vars
<1> QED BY <1>5, <1>6, <1>7, <1>8, <1>9, <1>10, <1>11, <1>12, <1>13 DEF Next, Input, InFrame

\* lv_ringbuffer.c, visual_ringbuffer_get_data_from_end: while no empty sample
\* is added, what an actor gets ends with the last byte of the newest sample,
\* also when it asks for more than the channel holds.
THEOREM ActorsReadTheNewest ==
    ASSUME 0 \notin DirectSizes
    PROVE  Spec => []NewestLast
<1>1. FlushTypes /\ RingInvariant /\ Filled => NewestLast
  <2> DEFINE q == Head(todo)
             sizes == Sizes(q.ch)
             n == Len(sizes)
             u == Upto(sizes)
             off == OffsetFromEnd(sizes, read.nbytes)
  <2> SUFFICES ASSUME FlushTypes, RingInvariant, Filled, pc = "actor", read # NoRead, read.done
               PROVE  read.data[read.nbytes] = <<n, sizes[n]>>
    BY DEF NewestLast
  <2>1. /\ todo \in Seq(RingRequests) /\ todo # <<>> /\ ReadsFor(sizes, q, read)
        /\ \A k \in 1..Len(todo) : todo[k].fromend
    BY DEF RingInvariant
  <2>2. q \in RingRequests /\ q.fromend  BY <2>1, RequestedFirst
  <2>3. q.ch \in Channels /\ q.n \in Nat \ {0}  BY <2>2 DEF RingRequests
  <2>4. sizes \in Seq(Nat)  BY <2>3, SizesTyped
  <2>5. read.nbytes \in Nat \ {0} /\ read.offset = off /\ \E i \in 1..n : sizes[i] > 0
    BY <2>1, <2>2, <2>3 DEF ReadsFor
  <2>6. \A i \in 1..n : sizes[i] > 0
    <3>1. \A i \in 1..Len(pool[q.ch]) : pool[q.ch][i].size > 0
      BY <2>3 DEF Filled, FilledList
    <3>2. Len(pool[q.ch]) \in Nat
      <4>1. pool[q.ch] \in Seq(SampleRecords)  BY <2>3 DEF FlushTypes
      <4> QED BY <4>1
    <3> HIDE DEF q
    <3> QED BY <3>1, <3>2 DEF Sizes
  <2> HIDE DEF q, sizes
  <2>7. Total(sizes) > 0 /\ sizes # <<>>  BY <2>4, <2>5, PositiveTotal
  <2>8. RingRead(sizes, read)  BY <2>1, <2>7 DEF ReadsFor
  <2>9. n \in Nat \ {0} /\ n \in 1..n /\ sizes[n] \in Nat \ {0}  BY <2>4, <2>6, <2>7, EmptySeq
  <2>10. u[n] = u[n - 1] + sizes[n] /\ u[n - 1] \in Nat /\ u[n] \in Nat /\ u[n] = Total(sizes)
    <3>1. n - 1 \in 0..n /\ n \in 0..n  BY <2>9
    <3> HIDE DEF n
    <3> QED BY <2>4, <2>9, <3>1, UptoIs DEF n, Total
  <2>11. PICK w \in Nat : off + read.nbytes = Total(sizes) * w + Total(sizes)
    BY <2>4, <2>5, <2>7, FromEndIs
  <2>12. off \in Nat
    <3>1. off \in 1..Total(sizes)  BY <2>4, <2>5, <2>7, FromEndIs
    <3> QED BY <2>10, <3>1
  <2> HIDE DEF n, u, off
  <2>13. read.data[read.nbytes] = RingByte(sizes, (off + read.nbytes - 1) % Total(sizes))
    <3>1. Len(read.data) = read.nbytes /\ RightBytes(sizes, read.offset, read.data)
      BY <2>8 DEF RingRead
    <3>2. read.nbytes \in 1..Len(read.data)  BY <2>5, <3>1
    <3> QED BY <2>5, <3>1, <3>2 DEF RightBytes
  <2>14. off + read.nbytes - 1 = Total(sizes) * w + (u[n - 1] + sizes[n] - 1)
    <3> DEFINE tw == Total(sizes) * w
               a == u[n - 1]
               z == sizes[n]
               nb == read.nbytes
    <3>1. tw \in Nat /\ a \in Nat /\ z \in Nat /\ nb \in Nat /\ off + nb = tw + (a + z)
      BY <2>5, <2>9, <2>10, <2>11
    <3> HIDE DEF tw, a, z, nb
    <3>2. off + nb - 1 = tw + (a + z - 1)  BY <2>12, <3>1
    <3> QED BY <3>2 DEF tw, a, z, nb
  <2>15. n \in 1..Len(sizes) /\ sizes[n] \in 1..sizes[n]  BY <2>9 DEF n
  <2>16. RingByte(sizes, (off + read.nbytes - 1) % Total(sizes)) = <<n, sizes[n]>>
    <3> DEFINE p == off + read.nbytes - 1
    <3>1. p = Total(sizes) * w + (Upto(sizes)[n - 1] + sizes[n] - 1)  BY <2>14 DEF u
    <3> HIDE DEF p
    <3>2. RingByte(sizes, p % Total(sizes)) = <<n, sizes[n]>>  BY <2>4, <2>15, <3>1, RingAt
    <3> QED BY <3>2 DEF p
  <2> QED BY <2>13, <2>16
<1>2. Init => Filled
  <2>1. Len(<<>>) = 0  OBVIOUS
  <2> QED BY <2>1 DEF Init, Filled, FilledList
<1>3. FlushTypes /\ Filled /\ [Next]_vars => Filled'  BY FilledNext
<1> QED BY <1>1, <1>2, <1>3, RingAlways, PTL DEF Spec

-----------------------------------------------------------------------------
(* Frames end.                                                              *)

\* Rounds of a read that put nothing, before the next one that does: entries
\* are skipped, and at the end of the list the next turn begins.
RoundsToNext(n, r) ==
    (IF r.le < r.startat THEN r.startat - r.le ELSE 0) + (IF Place(r) = n THEN 1 ELSE 0)

BytesLeft ==
    IF read = NoRead THEN IF todo = <<>> THEN 0 ELSE Head(todo).n + 2
    ELSE IF read.done THEN 0
    ELSE IF read.curposition < read.nbytes THEN read.nbytes - read.curposition + 1 ELSE 1

RoundsLeft ==
    IF read = NoRead \/ read.done THEN 0 ELSE RoundsToNext(Len(Sizes(Head(todo).ch)), read)

EntriesLeft ==
    IF flush.channel <= Len(channels) THEN Len(pool[channels[flush.channel]]) - flush.le ELSE 0

ChannelsLeft == IF flush.channel <= Len(channels) THEN Len(channels) + 1 - flush.channel ELSE 0

\* What is left of a frame: its parts, then channels and entries of the flush,
\* or reads, bytes and rounds.
FrameLeft ==
    CASE pc = "flush"   -> <<3, ChannelsLeft, EntriesLeft, 0>>
      [] pc = "analyze" -> <<2, Len(todo), BytesLeft, RoundsLeft>>
      [] pc = "actor"   -> <<1, Len(todo), BytesLeft, RoundsLeft>>
      [] OTHER          -> <<0, 0, 0, 0>>

\* Four numbers, of which the first that changes gets less.
Nearer(a, b) ==
    \/ a[1] < b[1]
    \/ a[1] = b[1] /\ a[2] < b[2]
    \/ a[1] = b[1] /\ a[2] = b[2] /\ a[3] < b[3]
    \/ a[1] = b[1] /\ a[2] = b[2] /\ a[3] = b[3] /\ a[4] < b[4]

\* A read is no NoRead, and what it lacks is a number.
LEMMA ReadRecord ==
    ASSUME NEW r \in RingReads
    PROVE  r # NoRead /\ \A n \in Nat : RoundsToNext(n, r) \in Nat
<1>1. r # NoRead
  <2>1. DOMAIN NoRead = {"done"}  BY DEF NoRead
  <2>2. DOMAIN r = {"offset", "nbytes", "startat", "curposition", "data", "le", "done"}
    BY DEF RingReads
  <2> QED BY <2>1, <2>2
<1>2. r.le \in Nat /\ r.startat \in Nat  BY DEF RingReads
<1>3. Place(r) \in Nat  BY <1>2 DEF Place
<1>4. (IF r.le < r.startat THEN r.startat - r.le ELSE 0) \in Nat  BY <1>2
<1> QED BY <1>1, <1>3, <1>4 DEF RoundsToNext

\* A round puts a byte at least, or brings the read nearer to the next one that
\* does.
LEMMA RoundGetsNearer ==
    ASSUME NEW sizes \in Seq(Nat), sizes # <<>>, NEW r \in RingReads, RingRead(sizes, r), ~r.done,
           \A i \in 1..Len(sizes) : sizes[i] > 0
    PROVE  LET s == Round(sizes, r)
           IN  \/ s.done \/ s.curposition > r.curposition
               \/ /\ s.curposition = r.curposition
                  /\ RoundsToNext(Len(sizes), s) < RoundsToNext(Len(sizes), r)
<1> DEFINE n == Len(sizes)
           i == visual_list_next(sizes, r.le)
           s == Round(sizes, r)
<1>1. n \in Nat \ {0} /\ r.le \in Nat /\ r.startat \in Nat /\ r.curposition \in Nat
  BY EmptySeq DEF RingReads
<1>2. r.le <= n /\ r.startat <= n  BY DEF RingRead
<1>3. i = IF r.le < n THEN r.le + 1 ELSE 0  BY DEF visual_list_next, NoEntry
<1>4. s = IF i = 0 THEN [r EXCEPT !.le = 0, !.startat = 0, !.done = n = 0]
          ELSE IF i <= r.startat THEN [r EXCEPT !.le = i]
          ELSE Put(sizes, r, i)
  BY DEF Round, NoEntry
<1> HIDE DEF i
<1>5. CASE i = 0
  <2>1. s.le = 0 /\ s.startat = 0 /\ s.curposition = r.curposition  BY <1>4, <1>5 DEF RingReads
  <2>2. Place(s) = 0 /\ Place(r) = n /\ ~(r.le < r.startat)  BY <1>1, <1>2, <1>3, <1>5, <2>1 DEF Place
  <2> HIDE DEF s, n
  <2>3. RoundsToNext(n, s) = 0 /\ RoundsToNext(n, r) = 1  BY <1>1, <2>1, <2>2 DEF RoundsToNext
  <2> QED BY <2>1, <2>3 DEF n, s
<1>6. CASE i # 0 /\ i <= r.startat
  <2>1. s.le = i /\ s.startat = r.startat /\ s.curposition = r.curposition /\ i = r.le + 1
    BY <1>1, <1>3, <1>4, <1>6 DEF RingReads
  <2> HIDE DEF s, n
  <2>2. Place(s) = Place(r) /\ Place(r) = r.startat  BY <1>1, <1>6, <2>1 DEF Place
  <2>3. /\ r.le < r.startat
        /\ (IF s.le < s.startat THEN s.startat - s.le ELSE 0) = r.startat - r.le - 1
    BY <1>1, <1>6, <2>1
  <2>4. RoundsToNext(n, s) < RoundsToNext(n, r)  BY <1>1, <2>2, <2>3 DEF RoundsToNext
  <2> QED BY <2>1, <2>4 DEF n, s
<1>7. CASE i # 0 /\ ~(i <= r.startat)
  <2>1. s = Put(sizes, r, i) /\ i \in 1..n  BY <1>1, <1>3, <1>4, <1>7
  <2>2. sizes[i] \in Nat \ {0}  BY <2>1
  <2>3. CASE r.curposition + sizes[i] > r.nbytes
    <3>1. s.done = TRUE  BY <2>1, <2>3 DEF Put, RingReads
    <3> QED BY <3>1
  <2>4. CASE ~(r.curposition + sizes[i] > r.nbytes)
    <3>1. s.curposition = r.curposition + sizes[i]  BY <2>1, <2>4 DEF Put, RingReads
    <3> HIDE DEF s
    <3>2. s.curposition > r.curposition  BY <1>1, <2>2, <3>1
    <3> QED BY <3>2 DEF s
  <2> QED BY <2>3, <2>4
<1> QED BY <1>5, <1>6, <1>7

\* A frame that has died reads no more.
PartKnown ==
    /\ pc \in {"input", "flush", "analyze", "actor", "dead"}
    /\ pc = "dead" => read = NoRead

\* The inductive invariant: those of the flush and the reads, whose samples all
\* have a byte.
FrameInvariant == FlushInvariant /\ RingInvariant /\ Filled /\ PartKnown

LEMMA PartNext == PartKnown /\ [Next]_vars => PartKnown'
<1> SUFFICES ASSUME PartKnown, [Next]_vars PROVE PartKnown'  OBVIOUS
<1>1. CASE Input
  BY <1>1 DEF PartKnown, Input, visual_audio_samplepool_input, visual_audio_samplepool_input_channel
<1>2. CASE visual_audio_analyze \/ FlushStep \/ FlushEnds \/ FrameEnd \/ Tick \/ UNCHANGED vars
  BY <1>2 DEF PartKnown, visual_audio_analyze, FlushStep, FlushEnds, FrameEnd, Tick, vars
<1>3. CASE visual_audio_get_sample  BY <1>3 DEF PartKnown, visual_audio_get_sample
<1>4. CASE visual_ringbuffer_get_data_offset \/ ReadEnds \/ \E n \in Requests : visual_actor_run(n)
  BY <1>4 DEF PartKnown, visual_ringbuffer_get_data_offset, ReadEnds, visual_actor_run
<1> QED BY <1>1, <1>2, <1>3, <1>4 DEF Next, InFrame

LeftIsCounted ==
    /\ ChannelsLeft \in Nat /\ Len(todo) \in Nat /\ BytesLeft \in Nat /\ RoundsLeft \in Nat
    /\ pc = "flush" => EntriesLeft \in Nat

LEMMA LeftTyped == FrameInvariant => LeftIsCounted
<1> SUFFICES ASSUME FlushInvariant, RingInvariant
             PROVE  /\ ChannelsLeft \in Nat /\ Len(todo) \in Nat
                    /\ BytesLeft \in Nat /\ RoundsLeft \in Nat
                    /\ pc = "flush" => EntriesLeft \in Nat
  BY DEF FrameInvariant, LeftIsCounted
<1>1. /\ FlushTypes /\ channels \in Seq(Channels) /\ Len(channels) \in Nat
      /\ flush.channel \in Nat \ {0} /\ flush.le \in Nat
  BY DEF FlushInvariant, FlushTypes
<1>2. ChannelsLeft \in Nat  BY <1>1 DEF ChannelsLeft
<1>3. ASSUME pc = "flush" PROVE EntriesLeft \in Nat
  <2>1. ASSUME flush.channel <= Len(channels)
        PROVE  /\ flush.le <= Len(pool[channels[flush.channel]])
               /\ Len(pool[channels[flush.channel]]) \in Nat
    <3>1. channels[flush.channel] \in Channels
      <4>1. flush.channel \in 1..Len(channels)  BY <1>1, <2>1
      <4> QED BY <1>1, <4>1
    <3>2. pool[channels[flush.channel]] \in Seq(SampleRecords)  BY <1>1, <3>1 DEF FlushTypes
    <3> QED BY <1>3, <2>1, <3>2 DEF FlushInvariant
  <2> QED BY <1>1, <2>1 DEF EntriesLeft
<1>4. todo \in Seq(RingRequests) /\ Len(todo) \in Nat  BY DEF RingInvariant
<1>5. todo # <<>> => Head(todo).n \in Nat /\ Head(todo).ch \in Channels
  BY <1>4, RequestedFirst DEF RingRequests
<1>6. CASE read = NoRead  BY <1>2, <1>3, <1>4, <1>5, <1>6 DEF BytesLeft, RoundsLeft
<1>7. CASE read # NoRead
  <2> DEFINE sizes == Sizes(Head(todo).ch)
  <2>1. todo # <<>> /\ ReadsFor(sizes, Head(todo), read)  BY <1>7 DEF RingInvariant
  <2>2. sizes \in Seq(Nat) /\ Len(sizes) \in Nat  BY <1>1, <1>5, <2>1, SizesTyped
  <2>3. read \in RingReads /\ (sizes # <<>> => RingRead(sizes, read))  BY <2>1 DEF ReadsFor
  <2>4. RoundsToNext(Len(sizes), read) \in Nat  BY <2>2, <2>3, ReadRecord
  <2>5. RoundsLeft \in Nat  BY <2>4 DEF RoundsLeft
  <2>6. BytesLeft \in Nat
    <3>1. read.curposition \in Nat /\ read.nbytes \in Nat  BY <2>3 DEF RingReads
    <3> QED BY <1>7, <3>1 DEF BytesLeft
  <2> QED BY <1>2, <1>3, <1>4, <2>5, <2>6
<1> QED BY <1>6, <1>7

\* The walk of the flush: each step destroys an entry, passes one or leaves a
\* channel.
LEMMA FlushNearer ==
    ASSUME FrameInvariant, FrameInvariant', FlushStep
    PROVE  Nearer(FrameLeft', FrameLeft)
<1> DEFINE n == flush.channel
           ch == channels[n]
           list == pool[ch]
           i == visual_list_next(list, flush.le)
           rest == visual_list_delete(list, i)
<1>1. /\ pc = "flush" /\ pc' = "flush" /\ n <= Len(channels) /\ channels' = channels
      /\ \/ /\ i = NoEntry
            /\ flush' = [channel |-> n + 1, le |-> NoEntry] /\ pool' = pool
         \/ /\ i # NoEntry /\ ~TooOld(list[i])
            /\ flush' = [flush EXCEPT !.le = i] /\ pool' = pool
         \/ /\ i # NoEntry
            /\ pool' = [pool EXCEPT ![ch] = rest.list]
            /\ flush' = [channel |-> IF rest.le = NoEntry THEN n + 1 ELSE n, le |-> rest.le]
  BY DEF FlushStep
<1>2. /\ FlushTypes /\ channels \in Seq(Channels) /\ Len(channels) \in Nat
      /\ flush \in [channel : Nat \ {0}, le : Nat] /\ n \in Nat \ {0} /\ flush.le \in Nat
  BY DEF FrameInvariant, FlushInvariant, FlushTypes
<1>3. /\ ch \in Channels /\ list \in Seq(SampleRecords) /\ Len(list) \in Nat
      /\ pool \in [Channels -> Seq(SampleRecords)]
  <2>1. n \in 1..Len(channels)  BY <1>1, <1>2
  <2>2. ch \in Channels  BY <1>2, <2>1
  <2> QED BY <1>2, <2>2 DEF FlushTypes
<1>4. flush.le <= Len(list)  BY <1>1 DEF FrameInvariant, FlushInvariant
<1>5. /\ ChannelsLeft \in Nat /\ EntriesLeft \in Nat
      /\ ChannelsLeft' \in Nat /\ EntriesLeft' \in Nat
  <2>1. LeftIsCounted /\ LeftIsCounted'  BY LeftTyped, PTL
  <2> QED BY <1>1, <2>1 DEF LeftIsCounted
<1>6. /\ FrameLeft = <<3, ChannelsLeft, EntriesLeft, 0>>
      /\ FrameLeft' = <<3, ChannelsLeft', EntriesLeft', 0>>
  BY <1>1 DEF FrameLeft
<1>7. ChannelsLeft = Len(channels) + 1 - n /\ EntriesLeft = Len(list) - flush.le
  BY <1>1 DEF ChannelsLeft, EntriesLeft
<1>8. i = IF flush.le < Len(list) THEN flush.le + 1 ELSE 0
  BY DEF visual_list_next, NoEntry
<1> HIDE DEF list, i
<1>9. ASSUME flush'.channel = n + 1 PROVE Nearer(FrameLeft', FrameLeft)
  <2>1. ChannelsLeft' < ChannelsLeft  BY <1>1, <1>2, <1>7, <1>9 DEF ChannelsLeft
  <2> QED BY <1>5, <1>6, <2>1 DEF Nearer
<1>10. ASSUME flush'.channel = n, Len(pool'[ch]) - flush'.le < Len(list) - flush.le
       PROVE Nearer(FrameLeft', FrameLeft)
  <2>1. ChannelsLeft' = ChannelsLeft  BY <1>1, <1>10 DEF ChannelsLeft
  <2>2. EntriesLeft' = Len(pool'[ch]) - flush'.le  BY <1>1, <1>10 DEF EntriesLeft
  <2>3. EntriesLeft' < EntriesLeft  BY <1>7, <1>10, <2>2
  <2> QED BY <1>5, <1>6, <2>1, <2>3 DEF Nearer
<1>11. CASE flush' = [channel |-> n + 1, le |-> NoEntry]  BY <1>9, <1>11
<1>12. CASE i # NoEntry /\ flush' = [flush EXCEPT !.le = i] /\ pool' = pool
  <2>1. flush'.channel = n /\ flush'.le = i  BY <1>2, <1>12
  <2>2. i = flush.le + 1  BY <1>8, <1>12 DEF NoEntry
  <2>3. Len(pool'[ch]) - flush'.le < Len(list) - flush.le
    <3>1. Len(pool'[ch]) = Len(list)  BY <1>12 DEF list
    <3> QED BY <1>2, <1>3, <2>1, <2>2, <3>1
  <2> QED BY <1>10, <2>1, <2>3
<1>13. CASE /\ i # NoEntry /\ pool' = [pool EXCEPT ![ch] = rest.list]
            /\ flush' = [channel |-> IF rest.le = NoEntry THEN n + 1 ELSE n, le |-> rest.le]
  <2>1. i = flush.le + 1 /\ i \in 1..Len(list)  BY <1>2, <1>3, <1>8, <1>13 DEF NoEntry
  <2>2. /\ rest.list = RemoveAt(list, i)
        /\ rest.le = IF i < Len(list) THEN i ELSE NoEntry
    BY DEF visual_list_delete
  <2>3. Len(RemoveAt(list, i)) = Len(list) - 1  BY <1>3, <2>1, RemoveAtIs
  <2>4. pool'[ch] = RemoveAt(list, i)  BY <1>3, <1>13, <2>2
  <2>5. CASE i < Len(list)
    <3>1. rest.le = i /\ i # NoEntry  BY <1>13, <2>2, <2>5
    <3>2. flush'.channel = n /\ flush'.le = i  BY <1>13, <3>1
    <3>3. Len(pool'[ch]) - flush'.le < Len(list) - flush.le
      BY <1>2, <1>3, <2>1, <2>3, <2>4, <3>2
    <3> QED BY <1>10, <3>2, <3>3
  <2>6. CASE ~(i < Len(list))
    <3>1. flush'.channel = n + 1  BY <1>13, <2>2, <2>6
    <3> QED BY <1>9, <3>1
  <2> QED BY <2>5, <2>6
<1> QED BY <1>1, <1>11, <1>12, <1>13

\* A request is done with, or its channel was never made.
LEMMA RequestsNearer ==
    ASSUME FrameInvariant, FrameInvariant', pc \in {"analyze", "actor"}, pc' = pc,
           todo # <<>>, todo' = Tail(todo)
    PROVE  Nearer(FrameLeft', FrameLeft)
<1>1. LeftIsCounted /\ LeftIsCounted'  BY LeftTyped, PTL
<1>2. /\ Len(todo) \in Nat /\ BytesLeft \in Nat /\ RoundsLeft \in Nat
      /\ BytesLeft' \in Nat /\ RoundsLeft' \in Nat
  BY <1>1 DEF LeftIsCounted
<1>3. Len(todo') = Len(todo) - 1
  <2>1. todo \in Seq(RingRequests)  BY DEF FrameInvariant, RingInvariant
  <2> QED BY <2>1, EmptySeq
<1> DEFINE part == IF pc = "analyze" THEN 2 ELSE 1
<1>4. /\ FrameLeft = <<part, Len(todo), BytesLeft, RoundsLeft>>
      /\ FrameLeft' = <<part, Len(todo'), BytesLeft', RoundsLeft'>> /\ part \in Int
  BY DEF FrameLeft
<1> HIDE DEF part
<1>5. Len(todo') \in Int /\ Len(todo') < Len(todo)  BY <1>2, <1>3
<1> QED BY <1>2, <1>4, <1>5 DEF Nearer

\* A read has begun or has gone on.
LEMMA BytesNearer ==
    ASSUME FrameInvariant, FrameInvariant', pc \in {"analyze", "actor"}, pc' = pc, todo' = todo,
           BytesLeft' < BytesLeft \/ (BytesLeft' = BytesLeft /\ RoundsLeft' < RoundsLeft)
    PROVE  Nearer(FrameLeft', FrameLeft)
<1>1. LeftIsCounted /\ LeftIsCounted'  BY LeftTyped, PTL
<1>2. /\ Len(todo) \in Nat /\ BytesLeft \in Nat /\ RoundsLeft \in Nat
      /\ BytesLeft' \in Nat /\ RoundsLeft' \in Nat
  BY <1>1 DEF LeftIsCounted
<1> DEFINE part == IF pc = "analyze" THEN 2 ELSE 1
<1>3. /\ FrameLeft = <<part, Len(todo), BytesLeft, RoundsLeft>>
      /\ FrameLeft' = <<part, Len(todo), BytesLeft', RoundsLeft'>> /\ part \in Int
  BY DEF FrameLeft
<1> HIDE DEF part
<1> QED BY <1>2, <1>3 DEF Nearer

\* The frame goes from one part to the next.
LEMMA PartsNearer ==
    ASSUME FrameInvariant, FrameInvariant',
           \/ pc = "flush" /\ pc' = "analyze"
           \/ pc = "analyze" /\ pc' = "actor"
           \/ pc \in {"analyze", "actor"} /\ pc' \in {"input", "dead"}
    PROVE  Nearer(FrameLeft', FrameLeft)
<1>1. LeftIsCounted /\ LeftIsCounted'  BY LeftTyped, PTL
<1>2. /\ Len(todo) \in Nat /\ BytesLeft \in Nat /\ RoundsLeft \in Nat
      /\ ChannelsLeft \in Nat /\ (pc = "flush" => EntriesLeft \in Nat)
      /\ Len(todo') \in Nat /\ BytesLeft' \in Nat /\ RoundsLeft' \in Nat
  BY <1>1 DEF LeftIsCounted
<1>3. /\ pc = "flush" => FrameLeft = <<3, ChannelsLeft, EntriesLeft, 0>>
      /\ pc = "analyze" => FrameLeft = <<2, Len(todo), BytesLeft, RoundsLeft>>
      /\ pc = "actor" => FrameLeft = <<1, Len(todo), BytesLeft, RoundsLeft>>
      /\ pc' = "analyze" => FrameLeft' = <<2, Len(todo'), BytesLeft', RoundsLeft'>>
      /\ pc' = "actor" => FrameLeft' = <<1, Len(todo'), BytesLeft', RoundsLeft'>>
      /\ pc' \in {"input", "dead"} => FrameLeft' = <<0, 0, 0, 0>>
  BY DEF FrameLeft
<1>4. CASE pc = "flush" /\ pc' = "analyze"
  <2>1. Nearer(<<2, Len(todo'), BytesLeft', RoundsLeft'>>, <<3, ChannelsLeft, EntriesLeft, 0>>)
    BY <1>2, <1>4 DEF Nearer
  <2> QED BY <1>3, <1>4, <2>1
<1>5. CASE pc = "analyze" /\ pc' = "actor"
  <2>1. Nearer(<<1, Len(todo'), BytesLeft', RoundsLeft'>>, <<2, Len(todo), BytesLeft, RoundsLeft>>)
    BY <1>2 DEF Nearer
  <2> QED BY <1>3, <1>5, <2>1
<1>6. CASE pc \in {"analyze", "actor"} /\ pc' \in {"input", "dead"}
  <2>1. /\ Nearer(<<0, 0, 0, 0>>, <<2, Len(todo), BytesLeft, RoundsLeft>>)
        /\ Nearer(<<0, 0, 0, 0>>, <<1, Len(todo), BytesLeft, RoundsLeft>>)
    BY <1>2 DEF Nearer
  <2> QED BY <1>3, <1>6, <2>1
<1> QED BY <1>4, <1>5, <1>6

LEMMA GetSampleNearer ==
    ASSUME FrameInvariant, FrameInvariant', visual_audio_get_sample
    PROVE  Nearer(FrameLeft', FrameLeft)
<1> DEFINE q == Head(todo)
           first == ReadFrom(Sizes(q.ch), IF q.fromend THEN OffsetFromEnd(Sizes(q.ch), q.n) ELSE 0, q.n)
<1>1. /\ pc \in {"analyze", "actor"} /\ todo # <<>> /\ read = NoRead
      /\ \/ todo' = Tail(todo) /\ pc' = pc
         \/ pc' = "dead"
         \/ read' = first /\ pc' = pc /\ todo' = todo
  BY DEF visual_audio_get_sample
<1> HIDE DEF first
<1>2. CASE todo' = Tail(todo) /\ pc' = pc  BY <1>1, <1>2, RequestsNearer
<1>3. CASE pc' = "dead"  BY <1>1, <1>3, PartsNearer
<1>4. CASE read' = first /\ pc' = pc /\ todo' = todo
  <2>1. read' # NoRead
    <3>1. DOMAIN NoRead = {"done"}  BY DEF NoRead
    <3>2. "offset" \in DOMAIN first  BY DEF first, ReadFrom
    <3> QED BY <1>4, <3>1, <3>2
  <2>2. q \in RingRequests /\ q.n \in Nat
    <3>1. todo \in Seq(RingRequests)  BY DEF FrameInvariant, RingInvariant
    <3>2. q \in RingRequests  BY <1>1, <3>1, RequestedFirst
    <3> QED BY <3>2 DEF RingRequests
  <2>3. read' \in RingReads /\ read'.nbytes = q.n
    <3>1. RingInvariant'  BY DEF FrameInvariant
    <3>2. ReadsFor(Sizes(q.ch)', q, read')  BY <1>4, <2>1, <3>1 DEF RingInvariant
    <3> QED BY <3>2 DEF ReadsFor
  <2>4. BytesLeft = q.n + 2  BY <1>1 DEF BytesLeft
  <2>5. read'.curposition \in Nat  BY <2>3 DEF RingReads
  <2>6. BytesLeft' < BytesLeft  BY <2>1, <2>2, <2>3, <2>4, <2>5 DEF BytesLeft
  <2> QED BY <1>1, <1>4, <2>6, BytesNearer
<1> QED BY <1>1, <1>2, <1>3, <1>4

LEMMA ReadOnNearer ==
    ASSUME FrameInvariant, FrameInvariant', visual_ringbuffer_get_data_offset
    PROVE  Nearer(FrameLeft', FrameLeft)
<1> DEFINE q == Head(todo)
           sizes == Sizes(q.ch)
           r == Round(sizes, read)
<1>1. /\ read # NoRead /\ ~read.done /\ read' = r /\ UNCHANGED <<channels, pc, todo>>
      /\ pool' = pool \/ pool' = [pool EXCEPT ![q.ch][r.le] = Used(@, r.done)]
  BY DEF visual_ringbuffer_get_data_offset
<1>2. /\ todo # <<>> /\ todo \in Seq(RingRequests) /\ pc \notin {"input", "flush"}
      /\ ReadsFor(sizes, q, read)
  BY <1>1 DEF FrameInvariant, RingInvariant
<1>3. q \in RingRequests /\ q.ch \in Channels /\ q.n \in Nat
  <2>1. q \in RingRequests  BY <1>2, RequestedFirst
  <2> QED BY <2>1 DEF RingRequests
<1>4. FlushTypes  BY DEF FrameInvariant, FlushInvariant
<1>5. sizes \in Seq(Nat)  BY <1>3, <1>4, SizesTyped
<1>6. \A i \in 1..Len(sizes) : sizes[i] > 0
  <2>1. \A i \in 1..Len(pool[q.ch]) : pool[q.ch][i].size > 0
    BY <1>3 DEF FrameInvariant, Filled, FilledList
  <2>2. Len(pool[q.ch]) \in Nat
    <3>1. pool[q.ch] \in Seq(SampleRecords)  BY <1>3, <1>4 DEF FlushTypes
    <3> QED BY <3>1
  <2> HIDE DEF q
  <2> QED BY <2>1, <2>2 DEF Sizes
<1>7. Sizes(q.ch)' = sizes
  <2>1. \A ch \in Channels : SameSizes(pool[ch], pool'[ch])
    <3> HIDE DEF r, q
    <3> QED BY <1>1, <1>4, PoolSameSizes
  <2>2. SameSizes(pool[q.ch], pool'[q.ch])  BY <1>3, <2>1
  <2> QED BY <1>1, <2>2 DEF SameSizes, Sizes
<1>8. /\ read \in RingReads /\ r \in RingReads /\ r # NoRead /\ r.nbytes = q.n /\ read.nbytes = q.n
      /\ sizes # <<>> => RingRead(sizes, read) /\ RingRead(sizes, r)
      /\ read.curposition \in Nat /\ r.curposition \in Nat
  <2>1. read \in RingReads /\ read.nbytes = q.n /\ (sizes # <<>> => RingRead(sizes, read))
    BY <1>2 DEF ReadsFor
  <2>2. RingInvariant'  BY DEF FrameInvariant
  <2>3. r # NoRead
    <3>1. DOMAIN NoRead = {"done"}  BY DEF NoRead
    <3>2. DOMAIN r = DOMAIN read  BY DEF Round, Put
    <3>3. "offset" \in DOMAIN read  BY <2>1 DEF RingReads
    <3> QED BY <3>1, <3>2, <3>3
  <2> HIDE DEF r
  <2>4. ReadsFor(Sizes(q.ch)', q, r)  BY <1>1, <2>2, <2>3 DEF RingInvariant
  <2>5. ReadsFor(sizes, q, r)  BY <1>7, <2>4
  <2> HIDE DEF sizes
  <2>6. r \in RingReads /\ r.nbytes = q.n /\ (sizes # <<>> => RingRead(sizes, r))
    BY <2>5 DEF ReadsFor
  <2> QED BY <2>1, <2>3, <2>6 DEF RingReads
<1>9. pc \in {"analyze", "actor"}  BY <1>1, <1>2 DEF FrameInvariant, PartKnown
<1>10. /\ RoundsLeft = RoundsToNext(Len(sizes), read)
       /\ ~r.done => RoundsLeft' = RoundsToNext(Len(sizes), r)
  BY <1>1, <1>7, <1>8 DEF RoundsLeft
<1>11. sizes = <<>> => r.done
  <2> HIDE DEF sizes
  <2>1. ASSUME sizes = <<>> PROVE r.done = TRUE
    <3>1. Len(sizes) = 0 /\ read.le \in Nat  BY <1>8, <2>1 DEF RingReads
    <3>2. visual_list_next(sizes, read.le) = NoEntry  BY <3>1 DEF visual_list_next
    <3>3. r = [read EXCEPT !.le = NoEntry, !.startat = 0, !.done = Len(sizes) = 0]
      BY <3>2 DEF Round
    <3> QED BY <1>8, <3>1, <3>3 DEF RingReads
  <2> QED BY <2>1
<1> HIDE DEF sizes, q
<1>12. sizes # <<>> => \/ r.done \/ r.curposition > read.curposition
                       \/ /\ r.curposition = read.curposition
                          /\ RoundsToNext(Len(sizes), r) < RoundsToNext(Len(sizes), read)
  BY <1>1, <1>5, <1>6, <1>8, RoundGetsNearer
<1> HIDE DEF r
<1>13. BytesLeft = IF read.curposition < read.nbytes THEN read.nbytes - read.curposition + 1 ELSE 1
  BY <1>1 DEF BytesLeft
<1>14. BytesLeft' = IF r.done THEN 0
                    ELSE IF r.curposition < r.nbytes THEN r.nbytes - r.curposition + 1 ELSE 1
  BY <1>1, <1>8 DEF BytesLeft
<1>15. r.done => BytesLeft' < BytesLeft  BY <1>3, <1>8, <1>13, <1>14
<1>16. ASSUME ~r.done PROVE read.curposition < read.nbytes /\ r.curposition < r.nbytes
  BY <1>1, <1>8, <1>11, <1>16 DEF RingRead
<1>17. ASSUME ~r.done, r.curposition > read.curposition PROVE BytesLeft' < BytesLeft
  BY <1>3, <1>8, <1>13, <1>14, <1>16, <1>17
<1>18. ASSUME ~r.done, r.curposition = read.curposition PROVE BytesLeft' = BytesLeft
  BY <1>3, <1>8, <1>13, <1>14, <1>16, <1>18
<1> QED BY <1>1, <1>9, <1>10, <1>11, <1>12, <1>15, <1>17, <1>18, BytesNearer

\* Time changes nothing of it.
LEMMA TickNoNearer == FrameInvariant /\ Tick => FrameLeft' = FrameLeft
<1> SUFFICES ASSUME FrameInvariant, Tick PROVE FrameLeft' = FrameLeft  OBVIOUS
<1>1. /\ UNCHANGED <<channels, pc, flush, todo, read>>
      /\ pool' = [ch \in Channels |-> [i \in 1..Len(pool[ch]) |-> Older(pool[ch][i])]]
  BY DEF Tick
<1>2. FlushTypes /\ todo \in Seq(RingRequests) /\ (todo = <<>> => read = NoRead)
  BY DEF FrameInvariant, FlushInvariant, RingInvariant
<1>3. \A ch \in Channels : SameSizes(pool[ch], pool'[ch])  BY <1>1, <1>2, TickedSizes
<1>4. EntriesLeft' = EntriesLeft
  <2>1. CASE flush.channel <= Len(channels)
    <3>1. channels[flush.channel] \in Channels
      <4>1. channels \in Seq(Channels) /\ flush.channel \in Nat \ {0}  BY <1>2 DEF FlushTypes
      <4>2. flush.channel \in 1..Len(channels)  BY <2>1, <4>1
      <4> QED BY <4>1, <4>2
    <3>2. Len(pool[channels[flush.channel]]) = Len(pool'[channels[flush.channel]])
      BY <1>3, <3>1 DEF SameSizes
    <3> QED BY <1>1, <2>1, <3>2 DEF EntriesLeft
  <2>2. CASE ~(flush.channel <= Len(channels))  BY <1>1, <2>2 DEF EntriesLeft
  <2> QED BY <2>1, <2>2
<1>5. RoundsLeft' = RoundsLeft
  <2>1. CASE read = NoRead  BY <1>1, <2>1 DEF RoundsLeft
  <2>2. CASE read # NoRead
    <3> DEFINE c == Head(todo).ch
    <3>1. c \in Channels
      <4>1. Head(todo) \in RingRequests  BY <1>2, <2>2, RequestedFirst
      <4> QED BY <4>1 DEF RingRequests
    <3>2. SameSizes(pool[c], pool'[c])  BY <1>3, <3>1
    <3>3. Sizes(c)' = Sizes(c)  BY <1>1, <3>2 DEF SameSizes, Sizes
    <3> QED BY <1>1, <2>2, <3>3 DEF RoundsLeft
  <2> QED BY <2>1, <2>2
<1>6. ChannelsLeft' = ChannelsLeft /\ BytesLeft' = BytesLeft  BY <1>1 DEF ChannelsLeft, BytesLeft
<1> QED BY <1>1, <1>4, <1>5, <1>6 DEF FrameLeft

LEMMA FrameStep ==
    ASSUME FrameInvariant, FrameInvariant', Next, pc # "input"
    PROVE  Nearer(FrameLeft', FrameLeft) \/ (Tick /\ FrameLeft' = FrameLeft)
<1>1. ~Input /\ ~visual_audio_analyze
  BY DEF Input, visual_audio_samplepool_input, visual_audio_samplepool_input_channel,
         visual_audio_analyze
<1>2. CASE FlushEnds \/ (\E n \in Requests : visual_actor_run(n)) \/ FrameEnd
  BY <1>2, PartsNearer DEF FlushEnds, visual_actor_run, FrameEnd
<1>3. CASE ReadEnds
  <2>1. pc \in {"analyze", "actor"} /\ pc' = pc /\ todo # <<>> /\ todo' = Tail(todo)
    BY <1>3 DEF ReadEnds, FrameInvariant, RingInvariant, PartKnown
  <2> QED BY <2>1, RequestsNearer
<1> QED BY <1>1, <1>2, <1>3, FlushNearer, GetSampleNearer, ReadOnNearer, TickNoNearer
        DEF Next, InFrame

\* No frame goes on for ever: while one is on, only time passes without bringing
\* it nearer to its end, by numbers that cannot fall for ever.  A channel of
\* nothing but empty samples would be read round and round.
THEOREM FramesGetNearer ==
    ASSUME 0 \notin DirectSizes
    PROVE  Spec => [][pc # "input" => /\ Nearer(FrameLeft', FrameLeft) \/ (Tick /\ FrameLeft' = FrameLeft)
                                      /\ LeftIsCounted]_vars
<1>1. Init => FrameInvariant
  <2>1. Len(<<>>) = 0  OBVIOUS
  <2>2. Init => Filled /\ PartKnown  BY <2>1 DEF Init, Filled, FilledList, PartKnown
  <2> QED BY <2>2, FlushInit, RingInit DEF FrameInvariant
<1>2. FrameInvariant /\ [Next]_vars => FrameInvariant'
  <2>1. FlushInvariant => FlushTypes  BY DEF FlushInvariant
  <2> QED BY <2>1, FlushNextHolds, RingNext, FilledNext, PartNext DEF FrameInvariant
<1>3. ASSUME FrameInvariant, FrameInvariant', Next, pc # "input"
      PROVE  /\ Nearer(FrameLeft', FrameLeft) \/ (Tick /\ FrameLeft' = FrameLeft)
             /\ LeftIsCounted
  BY <1>3, FrameStep, LeftTyped
<1> QED BY <1>1, <1>2, <1>3, PTL DEF Spec
=============================================================================
