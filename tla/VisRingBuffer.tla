----------------------------- MODULE VisRingBuffer -----------------------------
(***************************************************************************)
(* The ring buffer of libvisual/lv_ringbuffer.c: a list of entries, each a *)
(* buffer of some size.  A byte of the ring is <<i, j>>, byte j of the     *)
(* i-th entry, so that a reader's data tells where each byte came from.    *)
(* sizes is the list of the entries' sizes.                                *)
(***************************************************************************)
EXTENDS VisList

EntryBytes(sizes, i) == [j \in 1..sizes[i] |-> <<i, j>>]

\* The number of bytes before the end of each entry.
Upto(sizes) ==
    LET upto[i \in 0..Len(sizes)] == IF i = 0 THEN 0 ELSE upto[i - 1] + sizes[i]
    IN  upto

visual_ringbuffer_get_size(sizes) == Upto(sizes)[Len(sizes)]

\* A slip: a request for more than the ring holds is not taken into account.
OffsetUnwrapped(sizes, nbytes) == visual_ringbuffer_get_size(sizes) - nbytes

\* Where visual_ringbuffer_get_data_from_end starts to read; nbytes / totalsize
\* divides by zero for an empty ring.
OffsetFromEnd(sizes, nbytes) ==
    LET totalsize == visual_ringbuffer_get_size(sizes)
    IN  IF nbytes \div totalsize > 0 THEN totalsize - (nbytes % totalsize)
        ELSE totalsize - nbytes

\* The first entry that reaches past the offset, or the last of all.
PartialEntry(sizes, offset) ==
    LET upto == Upto(sizes)
        past == {i \in 1..Len(sizes) : upto[i] > offset}
    IN  IF past = {} THEN Len(sizes) ELSE CHOOSE i \in past : \A k \in past : i <= k

\* A read as visual_ringbuffer_get_data_offset starts it, with a data buffer of
\* nbytes: startat and curposition are set by fixate_with_partial_data_request.
ReadFrom(sizes, offset, nbytes) ==
    LET i    == PartialEntry(sizes, offset)
        rest == Upto(sizes)[i] - offset
        corr == IF offset > 0 /\ rest > 0 THEN rest ELSE 0
    IN  [offset      |-> offset,
         nbytes      |-> nbytes,
         startat     |-> IF offset > 0 THEN i ELSE 0,
         curposition |-> corr,
         data        |-> IF corr = 0 THEN <<>>
                         ELSE SubSeq(EntryBytes(sizes, i), sizes[i] - corr + 1,
                                     sizes[i] - corr + (IF corr < nbytes THEN corr ELSE nbytes)),
         le          |-> NoEntry,
         done        |-> corr >= nbytes]

\* A slip: the last fragment is put whole into what is left of the buffer.
PutWhole(sizes, r, i) ==
    [r EXCEPT !.data = @ \o EntryBytes(sizes, i), !.curposition = @ + sizes[i],
              !.le = i, !.done = r.curposition + sizes[i] >= r.nbytes]

\* Entry i is put at curposition: whole, or as much as is still asked for.
Put(sizes, r, i) ==
    IF r.curposition + sizes[i] > r.nbytes
    THEN [r EXCEPT !.data = @ \o SubSeq(EntryBytes(sizes, i), 1, r.nbytes - r.curposition),
                   !.le = i, !.done = TRUE]
    ELSE [r EXCEPT !.data = @ \o EntryBytes(sizes, i), !.curposition = @ + sizes[i],
                   !.le = i, !.done = r.curposition + sizes[i] = r.nbytes]

\* A slip: the entries before the offset are skipped in every round.
RoundSkipsAgain(sizes, r) ==
    LET i == visual_list_next(sizes, r.le)
    IN  IF i = NoEntry THEN [r EXCEPT !.le = NoEntry, !.done = Len(sizes) = 0]
        ELSE IF i <= r.startat THEN [r EXCEPT !.le = i]
        ELSE Put(sizes, r, i)

\* One round of the inner loop: the next entry is skipped or put; at the end of
\* the list the outer loop begins again from the first entry.
Round(sizes, r) ==
    LET i == visual_list_next(sizes, r.le)
    IN  IF i = NoEntry THEN [r EXCEPT !.le = NoEntry, !.startat = 0, !.done = Len(sizes) = 0]
        ELSE IF i <= r.startat THEN [r EXCEPT !.le = i]
        ELSE Put(sizes, r, i)

\* Byte p of the ring, counted from 0.
RingByte(sizes, p) ==
    LET upto == Upto(sizes)
        i    == CHOOSE k \in 1..Len(sizes) : upto[k - 1] <= p /\ p < upto[k]
    IN  <<i, p - upto[i - 1] + 1>>

\* What a reader of nbytes at an offset of the ring should get.
RingBytes(sizes, offset, nbytes) ==
    [k \in 1..nbytes |->
        RingByte(sizes, (offset + k - 1) % visual_ringbuffer_get_size(sizes))]
=============================================================================
