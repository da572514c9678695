---------------------------- MODULE VisCacheProofs ----------------------------
(***************************************************************************)
(* The cache keeps what lv_fourier.c puts into it: for any number of sizes *)
(* up to the limit it implements VisMemo.  The count of the list is the    *)
(* number of sizes in the index, whatever has become of the pointers, so   *)
(* that room is never made.  The pointers themselves keep to a weaker rule *)
(* than that of a doubly linked list (Chain), which is enough for no freed *)
(* entry to be used and for the list to lead to its tail.                  *)
(***************************************************************************)
EXTENDS VisCache, FiniteSetTheorems, WellFoundedInduction, TLAPS

-----------------------------------------------------------------------------
(* Induction over the length of a walk.                                     *)

\* A set of numbers that has 0 and with each number the next one has them all:
\* the least number it had not would have one before it.
LEMMA NatSetInduction ==
    ASSUME NEW S, 0 \in S, \A n \in Nat : n \in S => n + 1 \in S
    PROVE  \A n \in Nat : n \in S
<1> DEFINE R == {ss \in Nat \X Nat : ss[1] < ss[2]}
           T == {n \in Nat : n \notin S}
<1>1. SUFFICES ASSUME T # {} PROVE FALSE  OBVIOUS
<1>2. IsWellFoundedOn(R, Nat)  BY NatLessThanWellFounded, Zenon DEF OpToRel
<1>3. T \subseteq Nat  OBVIOUS
<1>4. \A x, y \in Nat : x < y => <<x, y>> \in R  OBVIOUS
<1> HIDE DEF R, T
<1>5. PICK x \in T : \A y \in T : ~(<<y, x>> \in R)  BY <1>1, <1>2, <1>3, WFMin
<1>6. x \in Nat /\ x \notin S  BY DEF T
<1>7. x # 0  BY <1>6
<1>8. x - 1 \in Nat /\ (x - 1) + 1 = x  BY <1>6, <1>7
<1>9. x - 1 \notin S  BY <1>6, <1>8
<1>10. x - 1 \in T  BY <1>8, <1>9 DEF T
<1>11. <<x - 1, x>> \in R  BY <1>4, <1>6, <1>8
<1> QED BY <1>5, <1>10, <1>11

Pointers == Nodes \cup {NULL}
Links == [Nodes -> Pointers]

Caches ==
    [head : Nodes \cup {NULL}, tail : Nodes \cup {NULL}, count : Int,
     next : [Nodes -> Nodes \cup {NULL}], prev : [Nodes -> Nodes \cup {NULL}],
     key : [Nodes -> Sizes \cup {NULL}], index : [Sizes -> Nodes \cup {NULL}],
     allocated : 0..MaxNodes, freed : SUBSET Nodes, bad : BOOLEAN]

Known == {s \in Sizes : cache.index[s] # NULL}

\* The inductive invariant.
CacheInvariant ==
    /\ TypeOK
    /\ phase = "up" => cache.count = Cardinality(Known)

\* There is room for the tables of all sizes.
RoomForAll == IsFiniteSet(Sizes) /\ Cardinality(Sizes) <= Limit

-----------------------------------------------------------------------------
LEMMA TouchTyped ==
    ASSUME NEW c \in Caches, NEW ns
    PROVE  /\ Touch(c, ns) \in Caches
           /\ Touch(c, ns).index = c.index
           /\ Touch(c, ns).count = c.count
           /\ Touch(c, ns).allocated = c.allocated
BY DEF Touch, Caches

LEMMA WithTyped ==
    ASSUME NEW f \in Links, NEW n \in Pointers,
           NEW v \in Pointers
    PROVE  With(f, n, v) \in Links
BY DEF With, Links, Pointers

\* New pointers and a new count.
Relinked(c, head, tail, next, prev, count) ==
    [c EXCEPT !.next = next, !.prev = prev, !.head = head, !.tail = tail, !.count = count]

LEMMA RelinkTyped ==
    ASSUME NEW c \in Caches, NEW head \in Pointers, NEW tail \in Pointers,
           NEW next \in Links, NEW prev \in Links,
           NEW count \in Int
    PROVE  /\ Relinked(c, head, tail, next, prev, count) \in Caches
           /\ Relinked(c, head, tail, next, prev, count).index = c.index
           /\ Relinked(c, head, tail, next, prev, count).count = count
           /\ Relinked(c, head, tail, next, prev, count).allocated = c.allocated
BY DEF Caches, Links, Pointers, Relinked

\* Taking an entry out of the list leaves the index alone.
LEMMA UnchainTyped ==
    ASSUME NEW c \in Caches, NEW n \in Nodes
    PROVE  /\ visual_list_unchain(c, n) \in Caches
           /\ visual_list_unchain(c, n).index = c.index
           /\ visual_list_unchain(c, n).count = c.count - 1
           /\ visual_list_unchain(c, n).allocated = c.allocated
<1> DEFINE p == c.prev[n]
           x == c.next[n]
           next == With(c.next, p, x)
           prev == With(c.prev, x, p)
           head == IF p = NULL THEN x ELSE c.head
           tail == IF x = NULL THEN p ELSE c.tail
           count == c.count - 1
           d == Relinked(c, head, tail, next, prev, count)
<1>1. p \in Pointers /\ x \in Pointers  BY DEF Caches, Links, Pointers
<1>2. next \in Links  BY <1>1, WithTyped DEF Caches, Links, Pointers
<1>3. prev \in Links  BY <1>1, WithTyped DEF Caches, Links, Pointers
<1>4. head \in Pointers /\ tail \in Pointers  BY <1>1 DEF Caches, Links, Pointers
<1>5. visual_list_unchain(c, n) = Touch(d, {n, p, x})  BY DEF visual_list_unchain, Relinked
<1>7. count \in Int  BY DEF Caches
<1> HIDE DEF p, x, next, prev, head, tail, count
<1>8. /\ d \in Caches /\ d.index = c.index
      /\ d.count = count /\ d.allocated = c.allocated
  BY <1>2, <1>3, <1>4, <1>7, RelinkTyped
<1> HIDE DEF d
<1> QED BY <1>5, <1>8, TouchTyped DEF count

LEMMA ChainAtBeginTyped ==
    ASSUME NEW c \in Caches, NEW n \in Nodes
    PROVE  /\ visual_list_chain_at_begin(c, n) \in Caches
           /\ visual_list_chain_at_begin(c, n).index = c.index
           /\ visual_list_chain_at_begin(c, n).count = c.count + 1
<1> DEFINE next == [c.next EXCEPT ![n] = c.head]
           prev == [c.prev EXCEPT ![n] = NULL]
           tail == IF c.head = NULL THEN n ELSE c.tail
           count == c.count + 1
           d == Relinked(c, n, tail, next, prev, count)
<1>1. next \in Links  BY DEF Caches, Links, Pointers
<1>2. prev \in Links  BY DEF Caches, Links, Pointers
<1>3. tail \in Pointers /\ n \in Pointers  BY DEF Caches, Links, Pointers
<1>4. visual_list_chain_at_begin(c, n) = Touch(d, {n})
  BY DEF visual_list_chain_at_begin, Relinked
<1>7. count \in Int  BY DEF Caches
<1> HIDE DEF next, prev, tail, count
<1>8. /\ d \in Caches /\ d.index = c.index
      /\ d.count = count /\ d.allocated = c.allocated
  BY <1>1, <1>2, <1>3, <1>7, RelinkTyped
<1> HIDE DEF d
<1> QED BY <1>4, <1>8, TouchTyped DEF count

LEMMA ChainTyped ==
    ASSUME NEW c \in Caches, NEW n \in Nodes
    PROVE  /\ visual_list_chain(c, n) \in Caches
           /\ visual_list_chain(c, n).index = c.index
           /\ visual_list_chain(c, n).count = c.count + 1
<1> DEFINE last == IF c.head = NULL THEN NULL ELSE c.tail
           next == With([c.next EXCEPT ![n] = NULL], last, n)
           prev == [c.prev EXCEPT ![n] = last]
           head == IF c.head = NULL THEN n ELSE c.head
           count == c.count + 1
           d == Relinked(c, head, n, next, prev, count)
<1>1. /\ last \in Pointers /\ head \in Pointers /\ n \in Pointers
      /\ [c.next EXCEPT ![n] = NULL] \in Links
  BY DEF Caches, Links, Pointers
<1>2. next \in Links  BY <1>1, WithTyped
<1>3. prev \in Links  BY <1>1 DEF Caches, Links, Pointers
<1>4. visual_list_chain(c, n) = Touch(d, {n, c.tail})  BY DEF visual_list_chain, Relinked
<1>7. count \in Int  BY DEF Caches
<1> HIDE DEF last, next, prev, head, count
<1>8. /\ d \in Caches /\ d.index = c.index
      /\ d.count = count /\ d.allocated = c.allocated
  BY <1>1, <1>2, <1>3, <1>7, RelinkTyped
<1> HIDE DEF d
<1> QED BY <1>4, <1>8, TouchTyped DEF count

\* A request for what is there.
LEMMA ResetTyped ==
    ASSUME NEW c \in Caches, NEW n \in Nodes
    PROVE  /\ handle_request_reset(c, n) \in Caches
           /\ handle_request_reset(c, n).index = c.index
           /\ handle_request_reset(c, n).count = c.count
<1> DEFINE d == visual_list_unchain(c, n)
<1>1. d \in Caches /\ d.index = c.index /\ d.count = c.count - 1  BY UnchainTyped
<1>2. handle_request_reset(c, n) = visual_list_chain_at_begin(d, n)  BY DEF handle_request_reset
<1> HIDE DEF d
<1>3. c.count \in Int  BY DEF Caches
<1> QED BY <1>1, <1>2, <1>3, ChainAtBeginTyped

LEMMA RemoveTyped ==
    ASSUME NEW c \in Caches, NEW n \in Nodes
    PROVE  cache_remove_list_entry(c, n) \in Caches
<1> DEFINE b == [c EXCEPT !.index[c.key[n]] = NULL]
           d == visual_list_unchain(b, n)
<1>1. b \in Caches  BY DEF Caches
<1>2. d \in Caches  BY <1>1, UnchainTyped
<1>3. cache_remove_list_entry(c, n) = [d EXCEPT !.freed = @ \cup {n}]
  BY DEF cache_remove_list_entry
<1> HIDE DEF d
<1> QED BY <1>2, <1>3 DEF Caches

LEMMA EmptyTyped ==
    ASSUME NEW a \in 0..MaxNodes, NEW f \in SUBSET Nodes
    PROVE  /\ EmptyCache(a, f) \in Caches
           /\ EmptyCache(a, f).index = [s \in Sizes |-> NULL]
           /\ EmptyCache(a, f).count = 0
BY DEF EmptyCache, Caches

\* A put where there is room.
LEMMA PutTyped ==
    ASSUME NEW c \in Caches, NEW s \in Sizes, c.allocated < MaxNodes, c.count < Limit
    PROVE  /\ visual_cache_put(c, s) \in Caches
           /\ visual_cache_put(c, s).index = [c.index EXCEPT ![s] = c.allocated + 1]
           /\ visual_cache_put(c, s).count = c.count + 1
           /\ c.allocated + 1 \in Nodes
<1> DEFINE n == c.allocated + 1
           d == [c EXCEPT !.allocated = n, !.key[n] = s, !.index[s] = n]
<1>1. c.count \in Int /\ c.allocated \in 0..MaxNodes /\ Limit \in Nat /\ MaxNodes \in Nat
  BY LimitAssumption DEF Caches
<1>2. ~(c.count > Limit - 1)  BY <1>1
<1>3. RoomMade(c) = c  BY <1>2 DEF RoomMade
<1>4. visual_cache_put(c, s) = visual_list_chain(d, n)  BY <1>2, <1>3 DEF visual_cache_put
<1>5. n \in Nodes  BY <1>1 DEF Nodes
<1>6. n \in 0..MaxNodes  BY <1>1
<1> HIDE DEF n
<1>7. d \in Caches /\ d.index = [c.index EXCEPT ![s] = n] /\ d.count = c.count
  BY <1>5, <1>6 DEF Caches
<1> QED BY <1>4, <1>5, <1>7, ChainTyped DEF n

-----------------------------------------------------------------------------
\* Who asks for a size that is not there finds less than Limit of them.
LEMMA RoomLeft ==
    ASSUME RoomForAll, NEW K \in SUBSET Sizes, NEW s \in Sizes, s \notin K
    PROVE  /\ Cardinality(K) < Limit
           /\ Cardinality(K \cup {s}) = Cardinality(K) + 1
<1>1. IsFiniteSet(Sizes) /\ Cardinality(Sizes) <= Limit /\ Limit \in Nat
  BY LimitAssumption DEF RoomForAll
<1>2. IsFiniteSet(K)  BY <1>1, FS_Subset
<1>3. Cardinality(K \cup {s}) = Cardinality(K) + 1  BY <1>2, FS_AddElement
<1>4. Cardinality(K \cup {s}) <= Cardinality(Sizes)
  <2>1. K \cup {s} \subseteq Sizes  OBVIOUS
  <2> QED BY <1>1, <2>1, FS_Subset
<1>5. Cardinality(K) \in Nat /\ Cardinality(Sizes) \in Nat  BY <1>1, <1>2, FS_CardinalityType
<1> QED BY <1>1, <1>3, <1>4, <1>5

LEMMA InitHolds == Init => CacheInvariant
<1> SUFFICES ASSUME Init PROVE CacheInvariant  OBVIOUS
<1>1. 0 \in 0..MaxNodes  BY LimitAssumption
<1>2. cache \in Caches  BY <1>1, EmptyTyped DEF Init
<1> QED BY <1>2 DEF Init, CacheInvariant, TypeOK, Caches

\* What a request does to the index: the size asked for is in it, and the rest
\* stays.
LEMMA AskedIsKnown ==
    ASSUME RoomForAll, CacheInvariant, NEW s \in Sizes, dft_cache_get(s)
    PROVE  CacheInvariant' /\ Known' = Known \cup {s}
<1>1. cache \in Caches /\ phase = "up" /\ phase' = "up" /\ le' = le /\ le \in Nodes \cup {NULL}
  BY DEF CacheInvariant, TypeOK, Caches, dft_cache_get
<1>2. cache.count = Cardinality(Known)  BY <1>1 DEF CacheInvariant
<1>3. cache.index \in [Sizes -> Nodes \cup {NULL}]  BY <1>1 DEF Caches
<1>4. CASE cache.index[s] # NULL
  <2>1. cache' = handle_request_reset(cache, cache.index[s])  BY <1>4 DEF dft_cache_get
  <2>2. cache.index[s] \in Nodes  BY <1>3, <1>4
  <2>3. cache' \in Caches /\ cache'.index = cache.index /\ cache'.count = cache.count
    BY <1>1, <2>1, <2>2, ResetTyped
  <2>4. Known' = Known /\ s \in Known  BY <1>4, <2>3 DEF Known
  <2>5. cache'.count = Cardinality(Known')  BY <1>2, <2>3, <2>4
  <2> QED BY <1>1, <2>3, <2>4, <2>5 DEF CacheInvariant, TypeOK, Caches
<1>5. CASE cache.index[s] = NULL
  <2>1. s \notin Known /\ Known \in SUBSET Sizes  BY <1>5 DEF Known
  <2>2. Cardinality(Known) < Limit /\ Cardinality(Known \cup {s}) = Cardinality(Known) + 1
    BY <2>1, RoomLeft
  <2>3. cache.allocated < MaxNodes /\ cache' = visual_cache_put(cache, s)
    BY <1>5 DEF dft_cache_get
  <2>4. /\ cache' \in Caches /\ cache'.count = cache.count + 1
        /\ cache'.index = [cache.index EXCEPT ![s] = cache.allocated + 1]
        /\ cache.allocated + 1 \in Nodes
    BY <1>1, <1>2, <2>2, <2>3, PutTyped
  <2>5. cache.allocated + 1 # NULL  BY <2>4 DEF Nodes, NULL
  <2>6. Known' = Known \cup {s}  BY <1>3, <2>4, <2>5 DEF Known
  <2>7. cache'.count = Cardinality(Known')  BY <1>2, <2>2, <2>4, <2>6
  <2> QED BY <1>1, <2>4, <2>6, <2>7 DEF CacheInvariant, TypeOK, Caches
<1> QED BY <1>4, <1>5

LEMMA NextHolds ==
    ASSUME RoomForAll, CacheInvariant, [Next]_vars
    PROVE  CacheInvariant'
<1>1. /\ cache \in Caches /\ le \in Nodes \cup {NULL}
      /\ phase \in {"down", "up", "cache_dtor", "list_destroy"}
  BY DEF CacheInvariant, TypeOK, Caches
<1>2. NextOf(le) \in Nodes \cup {NULL}  BY <1>1 DEF NextOf, Caches
<1>3. ASSUME NEW c \in Caches, NEW n \in Nodes PROVE c.next[n] \in Nodes \cup {NULL}
  BY DEF Caches
<1>4. ASSUME NEW c \in Caches, c = cache', phase' # "up",
             phase' \in {"down", "cache_dtor", "list_destroy"}, le' \in Nodes \cup {NULL}
      PROVE  CacheInvariant'
  BY <1>4 DEF CacheInvariant, TypeOK, Caches
<1>5. CASE visual_fourier_initialize
  <2>1. cache.allocated \in 0..MaxNodes /\ cache.freed \in SUBSET Nodes  BY <1>1 DEF Caches
  <2>2. /\ cache' \in Caches /\ cache'.count = 0
        /\ cache'.index = [s \in Sizes |-> NULL]
    BY <1>5, <2>1, EmptyTyped DEF visual_fourier_initialize
  <2>3. Known' = {}  BY <2>2 DEF Known
  <2>4. Cardinality(Known') = 0  BY <2>3, FS_EmptySet
  <2> QED BY <1>5, <2>2, <2>4 DEF visual_fourier_initialize, CacheInvariant, TypeOK, Caches
<1>6. CASE visual_fourier_deinitialize
  BY <1>1, <1>4, <1>6 DEF visual_fourier_deinitialize
<1>7. CASE cache_dtor
  <2> DEFINE n == NextOf(le)
             c == Touch(cache, {le, n})
  <2>1. c \in Caches  BY <1>1, TouchTyped
  <2>2. n # NULL => c.next[n] \in Nodes \cup {NULL} /\ cache_remove_list_entry(c, n) \in Caches
    BY <1>2, <1>3, <2>1, RemoveTyped
  <2>3. /\ n = NULL => phase' = "list_destroy" /\ le' = NULL /\ cache' = c
        /\ n # NULL => /\ cache' = cache_remove_list_entry(c, n)
                       /\ le' = c.next[n] /\ phase' = "cache_dtor"
    BY <1>7 DEF cache_dtor
  <2> HIDE DEF n, c
  <2> QED BY <1>4, <2>1, <2>2, <2>3
<1>8. CASE list_destroy
  <2> DEFINE n == NextOf(le)
             c == Touch(cache, {le, n})
             d == visual_list_unchain(c, n)
             e == [d EXCEPT !.freed = @ \cup {n}]
  <2>1. c \in Caches  BY <1>1, TouchTyped
  <2>2. n # NULL => n \in Nodes /\ c.next[n] \in Nodes \cup {NULL} /\ d \in Caches
    BY <1>2, <1>3, <2>1, UnchainTyped
  <2>3. n # NULL => e \in Caches
    <3> HIDE DEF d, n
    <3> QED BY <2>2 DEF Caches
  <2>4. /\ n = NULL => phase' = "down" /\ le' = NULL /\ cache' = c
        /\ n # NULL => cache' = e /\ le' = c.next[n] /\ phase' = "list_destroy"
    BY <1>8 DEF list_destroy
  <2> HIDE DEF n, c, e
  <2> QED BY <1>4, <2>1, <2>2, <2>3, <2>4
<1>9. ASSUME NEW s \in Sizes, dft_cache_get(s) PROVE CacheInvariant'
  BY <1>9, AskedIsKnown
<1>10. CASE UNCHANGED vars
  BY <1>10 DEF vars, CacheInvariant, TypeOK, Known
<1> QED BY <1>5, <1>6, <1>7, <1>8, <1>9, <1>10 DEF Next

\* Every step is a step of VisMemo, or none.
LEMMA NextIsMemo ==
    ASSUME RoomForAll, CacheInvariant, [Next]_vars
    PROVE  [Memo!Next]_(Memo!vars)
<1> USE DEF Memo!vars
<1>1. CASE visual_fourier_initialize
  <2>1. cache'.index = [s \in Sizes |-> NULL]
    <3>1. cache.allocated \in 0..MaxNodes /\ cache.freed \in SUBSET Nodes
      BY DEF CacheInvariant, TypeOK
    <3> QED BY <1>1, <3>1, EmptyTyped DEF visual_fourier_initialize
  <2>2. {s \in Sizes : cache'.index[s] # NULL} = {}  BY <2>1
  <2>3. Memo!Initialize  BY <1>1, <2>2 DEF visual_fourier_initialize, Memo!Initialize
  <2> QED BY <2>3 DEF Memo!Next
<1>2. CASE visual_fourier_deinitialize
  <2>1. Memo!Deinitialize  BY <1>2 DEF visual_fourier_deinitialize, Memo!Deinitialize
  <2> QED BY <2>1 DEF Memo!Next
<1>3. ASSUME NEW s \in Sizes, dft_cache_get(s) PROVE Memo!Next
  <2>1. Known' = Known \cup {s}  BY <1>3, AskedIsKnown
  <2>2. phase = "up" /\ phase' = "up"  BY <1>3 DEF dft_cache_get
  <2>3. Memo!Ask(s)  BY <2>1, <2>2 DEF Memo!Ask, Known
  <2> QED BY <2>3 DEF Memo!Next
<1>4. CASE cache_dtor  BY <1>4 DEF cache_dtor
<1>5. CASE list_destroy  BY <1>5 DEF list_destroy
<1>6. CASE UNCHANGED vars  BY <1>6 DEF vars
<1> QED BY <1>1, <1>2, <1>3, <1>4, <1>5, <1>6 DEF Next

\* lv_fourier.c, visual_cache_put: with no more sizes than the limit, the tables
\* of a size that was asked for are kept until the library is shut down.
THEOREM TablesKept ==
    ASSUME RoomForAll
    PROVE  Spec => TablesAreKept
<1>1. Init => Memo!Init  BY DEF Init, Memo!Init
<1>2. Init => CacheInvariant  BY InitHolds
<1>3. CacheInvariant /\ [Next]_vars => CacheInvariant'  BY NextHolds
<1>4. CacheInvariant /\ [Next]_vars => [Memo!Next]_(Memo!vars)  BY NextIsMemo
<1> QED BY <1>1, <1>2, <1>3, <1>4, PTL DEF Spec, TablesAreKept, Memo!Spec

-----------------------------------------------------------------------------
(* The pointers.  visual_list_chain_at_begin leaves the old head without a   *)
(* prev pointer, so that entries drop out of the list.  What the pointers of *)
(* a set C of entries still have in common: next leads downwards, by rank;   *)
(* and an entry that has a prev pointer follows that entry and no other, and *)
(* so does the entry after it.                                               *)

Chain(head, next, prev, C, rank) ==
    /\ head \in C \cup {NULL}
    /\ head # NULL => prev[head] = NULL
    /\ \A m \in C : next[m] # NULL => next[m] \in C /\ rank[next[m]] < rank[m]
    /\ \A m \in C : prev[m] # NULL =>
          /\ prev[m] \in C => next[prev[m]] = m
          /\ \A k \in C : next[k] = m => k = prev[m]
          /\ next[m] # NULL => prev[next[m]] = m

\* Between requests that is all there is: every entry leads to the tail.
Whole(head, tail, next, prev, C, rank, count) ==
    /\ head = NULL => C = {} /\ tail = NULL
    /\ head # NULL => tail \in C
    /\ \A m \in C : /\ prev[m] \in C \cup {NULL}
                    /\ next[m] = NULL <=> m = tail
                    /\ rank[m] \in 1..count
    /\ \A m, k \in C : rank[m] = rank[k] => m = k

\* The pointers without the entry n, as visual_list_unchain sets them.
NextWithout(next, prev, n) == With(next, prev[n], next[n])
PrevWithout(next, prev, n) == With(prev, next[n], prev[n])
HeadWithout(head, next, prev, n) == IF prev[n] = NULL THEN next[n] ELSE head

PrevsOf(prev, C) == {prev[k] : k \in C}

\* Where an entry stands.
LEMMA EntryPlace ==
    ASSUME NEW C \in SUBSET Nodes, NEW rank \in [Nodes -> Int], NEW head,
           NEW next \in Links, NEW prev \in Links, Chain(head, next, prev, C, rank),
           NEW n \in C
    PROVE  /\ prev[n] \in Pointers /\ next[n] \in Pointers /\ n \in Nodes /\ n # NULL
           /\ \A m \in C : m \in Nodes /\ m # NULL /\ rank[m] \in Int
           /\ next[n] # NULL => next[n] \in C /\ rank[next[n]] < rank[n]
           /\ prev[n] \in C => next[prev[n]] = n /\ rank[n] < rank[prev[n]]
           /\ prev[n] # n /\ next[n] # n
<1> DEFINE p == prev[n]
           x == next[n]
<1>1. /\ p \in Pointers /\ x \in Pointers /\ n \in Nodes /\ n # NULL
      /\ \A m \in C : m \in Nodes /\ m # NULL /\ rank[m] \in Int
  BY DEF Links, Pointers, Nodes, NULL
<1>3. /\ x # NULL => x \in C /\ rank[x] < rank[n]
      /\ p \in C => next[p] = n /\ rank[n] < rank[p]
      /\ p # n /\ x # n
  <2>1. x # NULL => x \in C /\ rank[x] < rank[n]  BY DEF Chain
  <2>2. p \in C => next[p] = n /\ rank[n] < rank[p]
    <3>1. p \in C => next[p] = n  BY <1>1 DEF Chain
    <3> QED  BY <1>1, <3>1 DEF Chain
  <2> QED  BY <1>1, <2>1, <2>2
<1> QED  BY <1>1, <1>3

\* What becomes of the pointers without it.
LEMMA WithoutIs ==
    ASSUME NEW next \in Links, NEW prev \in Links, NEW n \in Nodes
    PROVE  /\ NextWithout(next, prev, n) \in Links /\ PrevWithout(next, prev, n) \in Links
           /\ \A m \in Nodes :
                 /\ m = prev[n] => NextWithout(next, prev, n)[m] = next[n]
                 /\ m # prev[n] => NextWithout(next, prev, n)[m] = next[m]
                 /\ m = next[n] => PrevWithout(next, prev, n)[m] = prev[n]
                 /\ m # next[n] => PrevWithout(next, prev, n)[m] = prev[m]
<1>1. /\ prev[n] \in Pointers /\ next[n] \in Pointers /\ \A m \in Nodes : m # NULL
  BY DEF Links, Pointers, Nodes, NULL
<1>2. NextWithout(next, prev, n) \in Links /\ PrevWithout(next, prev, n) \in Links
  BY <1>1, WithTyped DEF NextWithout, PrevWithout
<1>3. ASSUME NEW m \in Nodes
      PROVE  /\ m = prev[n] => NextWithout(next, prev, n)[m] = next[n]
             /\ m # prev[n] => NextWithout(next, prev, n)[m] = next[m]
  BY <1>1 DEF With, Links, Pointers, NextWithout
<1>4. ASSUME NEW m \in Nodes
      PROVE  /\ m = next[n] => PrevWithout(next, prev, n)[m] = prev[n]
             /\ m # next[n] => PrevWithout(next, prev, n)[m] = prev[m]
  BY <1>1 DEF With, Links, Pointers, PrevWithout
<1> QED  BY <1>2, <1>3, <1>4

\* Taking an entry with a prev pointer out of the list leaves a chain of the
\* other entries.
LEMMA UnlinkInner ==
    ASSUME NEW C \in SUBSET Nodes, NEW rank \in [Nodes -> Int], NEW head,
           NEW next \in Links, NEW prev \in Links, Chain(head, next, prev, C, rank),
           NEW n \in C, prev[n] # NULL
    PROVE  /\ next[n] \in (C \ {n}) \cup {NULL}
           /\ Chain(head, NextWithout(next, prev, n), PrevWithout(next, prev, n), C \ {n}, rank)
           /\ \A m \in C \ {n} : /\ PrevWithout(next, prev, n)[m] # n
                              /\ PrevWithout(next, prev, n)[m] \in PrevsOf(prev, C)
<1> DEFINE p == prev[n]
           x == next[n]
           nx == NextWithout(next, prev, n)
           pv == PrevWithout(next, prev, n)
<1>1. /\ p \in Pointers /\ x \in Pointers /\ n \in Nodes /\ n # NULL
      /\ \A m \in C : m \in Nodes /\ m # NULL /\ rank[m] \in Int
  BY EntryPlace
<1>2. \A m \in Nodes : /\ m = p => nx[m] = x
                       /\ m # p => nx[m] = next[m]
                       /\ m = x => pv[m] = p
                       /\ m # x => pv[m] = prev[m]
  BY <1>1, WithoutIs
<1> HIDE DEF nx, pv
<1>3. /\ x # NULL => x \in C /\ rank[x] < rank[n]
      /\ p \in C => next[p] = n /\ rank[n] < rank[p]
      /\ p # n /\ x # n
  BY EntryPlace
<1> DEFINE D == C \ {n}
<1>4. /\ head # n /\ \A k \in C : next[k] = n => k = p
      /\ x # NULL => prev[x] = n /\ \A k \in C : next[k] = x => k = n
      /\ \A m \in C : prev[m] = n => m = x
  <2>1. head # n /\ \A k \in C : next[k] = n => k = p  BY <1>1 DEF Chain
  <2>2. x # NULL => prev[x] = n  BY DEF Chain
  <2>3. x # NULL => \A k \in C : next[k] = x => k = n  BY <1>1, <1>3, <2>2 DEF Chain
  <2>4. \A m \in C : prev[m] = n => m = x  BY <1>1 DEF Chain
  <2> QED  BY <2>1, <2>2, <2>3, <2>4
<1>5. \A m \in D : /\ m = p => nx[m] = x
                   /\ m # p => nx[m] = next[m] /\ nx[m] # n
                   /\ x # NULL /\ m = x => pv[m] = p
                   /\ m # x => pv[m] = prev[m]
  BY <1>1, <1>2, <1>4
<1>6. head \in D \cup {NULL} /\ (head # NULL => pv[head] = NULL)
  <2>1. head \in C \cup {NULL} /\ (head # NULL => prev[head] = NULL)  BY DEF Chain
  <2>2. head # NULL => head # x  BY <1>1, <1>4, <2>1
  <2> QED  BY <1>4, <1>5, <2>1, <2>2
<1>7. \A m \in D : nx[m] # NULL => nx[m] \in D /\ rank[nx[m]] < rank[m]
  <2> SUFFICES ASSUME NEW m \in D, nx[m] # NULL PROVE nx[m] \in D /\ rank[nx[m]] < rank[m]
    OBVIOUS
  <2>1. CASE m = p  BY <1>1, <1>3, <1>5, <2>1
  <2>2. CASE m # p  BY <1>5, <2>2 DEF Chain
  <2> QED  BY <2>1, <2>2
<1>8. \A m \in D : pv[m] # NULL =>
          /\ pv[m] \in D => nx[pv[m]] = m
          /\ \A k \in D : nx[k] = m => k = pv[m]
          /\ nx[m] # NULL => pv[nx[m]] = m
  <2> SUFFICES ASSUME NEW m \in D, pv[m] # NULL
               PROVE  /\ pv[m] \in D => nx[pv[m]] = m
                      /\ \A k \in D : nx[k] = m => k = pv[m]
                      /\ nx[m] # NULL => pv[nx[m]] = m
    OBVIOUS
  <2>1. CASE m = x
    <3>1. pv[m] = p /\ x # NULL /\ prev[x] = n  BY <1>1, <1>4, <1>5, <2>1
    <3>2. p \in D => nx[p] = x  BY <1>5
    <3>3. \A k \in D : nx[k] = x => k = p  BY <1>4, <1>5, <3>1
    <3>4. next[x] # NULL => prev[next[x]] = x /\ next[x] \in C /\ next[x] # x
      <4>1. next[x] # NULL => prev[next[x]] = x /\ next[x] \in C  BY <1>1, <1>3, <3>1 DEF Chain
      <4>2. next[x] # NULL => rank[next[x]] < rank[x]  BY <1>3, <3>1 DEF Chain
      <4> QED  BY <1>1, <4>1, <4>2
    <3>5. x # p  BY <1>1, <1>3, <2>1
    <3>6. nx[x] # NULL => pv[nx[x]] = x
      <4>1. nx[x] = next[x] /\ nx[x] # n  BY <1>5, <2>1, <3>5
      <4> QED  BY <1>5, <3>4, <4>1
    <3> QED  BY <2>1, <3>1, <3>2, <3>3, <3>6
  <2>2. CASE m # x
    <3>1. pv[m] = prev[m] /\ prev[m] # n  BY <1>4, <1>5, <2>2
    <3>2. /\ prev[m] \in C => next[prev[m]] = m
          /\ \A k \in C : next[k] = m => k = prev[m]
          /\ next[m] # NULL => prev[next[m]] = m
      BY <3>1 DEF Chain
    <3>3. prev[m] \in D => nx[prev[m]] = m
      <4>1. prev[m] = p /\ p \in D => FALSE  BY <1>3, <1>4, <3>2
      <4> QED  BY <1>5, <3>2, <4>1
    <3>4. \A k \in D : nx[k] = m => k = prev[m]  BY <1>5, <2>2, <3>2
    <3>5. nx[m] # NULL => pv[nx[m]] = m
      <4>1. CASE m = p  BY <1>1, <1>5, <1>7, <4>1
      <4>2. CASE m # p
        <5>1. nx[m] = next[m] /\ nx[m] # n  BY <1>5, <4>2
        <5>2. nx[m] # NULL => nx[m] \in D  BY <1>7
        <5>3. nx[m] = x /\ x # NULL => FALSE  BY <1>4, <5>1
        <5> QED  BY <1>5, <3>2, <5>1, <5>2, <5>3
      <4> QED  BY <4>1, <4>2
    <3> QED  BY <3>1, <3>3, <3>4, <3>5
  <2> QED  BY <2>1, <2>2
<1>9. Chain(head, nx, pv, D, rank)
  <2> HIDE DEF D
  <2> QED  BY <1>6, <1>7, <1>8 DEF Chain
<1>10. \A m \in D : pv[m] # n /\ pv[m] \in PrevsOf(prev, C)
  <2> SUFFICES ASSUME NEW m \in D PROVE pv[m] # n /\ pv[m] \in PrevsOf(prev, C)
    OBVIOUS
  <2>1. CASE m = x  BY <1>1, <1>3, <1>5, <2>1 DEF PrevsOf
  <2>2. CASE m # x  BY <1>4, <1>5, <2>2 DEF PrevsOf
  <2> QED  BY <2>1, <2>2
<1>11. x \in D \cup {NULL}  BY <1>3
<1>12. /\ x \in D \cup {NULL} /\ Chain(head, nx, pv, D, rank)
       /\ \A m \in D : pv[m] # n /\ pv[m] \in PrevsOf(prev, C)
  BY <1>9, <1>10, <1>11
<1> QED  BY <1>12 DEF nx, pv

\* Taking an entry out of the list: what is below it stays a chain, or, when
\* its prev pointer is set, all but the entry.
LEMMA UnchainKeepsChain ==
    ASSUME NEW C \in SUBSET Nodes, NEW rank \in [Nodes -> Int], NEW head,
           NEW next \in Links, NEW prev \in Links, Chain(head, next, prev, C, rank),
           NEW n \in C
    PROVE  \E D \in SUBSET C :
              /\ n \notin D /\ next[n] \in D \cup {NULL}
              /\ Chain(HeadWithout(head, next, prev, n), NextWithout(next, prev, n),
                       PrevWithout(next, prev, n), D, rank)
              /\ \A m \in D : /\ PrevWithout(next, prev, n)[m] # n
                             /\ PrevWithout(next, prev, n)[m] \in PrevsOf(prev, C)
<1> DEFINE p == prev[n]
           x == next[n]
           nx == NextWithout(next, prev, n)
           pv == PrevWithout(next, prev, n)
<1>1. /\ p \in Pointers /\ x \in Pointers /\ n \in Nodes /\ n # NULL
      /\ \A m \in C : m \in Nodes /\ m # NULL /\ rank[m] \in Int
  BY EntryPlace
<1>2. \A m \in Nodes : /\ m = p => nx[m] = x
                       /\ m # p => nx[m] = next[m]
                       /\ m = x => pv[m] = p
                       /\ m # x => pv[m] = prev[m]
  BY <1>1, WithoutIs
<1> HIDE DEF nx, pv
<1>3. /\ x # NULL => x \in C /\ rank[x] < rank[n]
      /\ p \in C => next[p] = n /\ rank[n] < rank[p]
      /\ p # n /\ x # n
  <2>1. x # NULL => x \in C /\ rank[x] < rank[n]  BY EntryPlace
  <2>2. p \in C => next[p] = n /\ rank[n] < rank[p]  BY EntryPlace
  <2>3. p # n /\ x # n  BY EntryPlace
  <2> QED  BY <2>1, <2>2, <2>3
<1> DEFINE h == HeadWithout(head, next, prev, n)
<1>4. CASE p = NULL
  <2> DEFINE D == {m \in C : rank[m] < rank[n]}
  <2>1. n \notin D /\ x \in D \cup {NULL} /\ D \subseteq C  BY <1>1, <1>3
  <2>2. \A m \in D : nx[m] = next[m] /\ (m # x => pv[m] = prev[m])  BY <1>1, <1>2, <1>4
  <2>3. x # NULL => pv[x] = NULL
    <3>1. x # NULL => x \in Nodes  BY <1>1, <1>3
    <3> QED  BY <1>2, <1>4, <3>1
  <2>4. \A m \in D : next[m] # NULL => next[m] \in D /\ rank[next[m]] < rank[m]
    <3> TAKE m \in D
    <3> HAVE next[m] # NULL
    <3>1. m \in C /\ next[m] \in C /\ rank[next[m]] < rank[m]  BY DEF Chain
    <3>2. rank[m] < rank[n]  OBVIOUS
    <3> QED  BY <1>1, <3>1, <3>2
  <2>5. \A m \in D : m # x /\ prev[m] # NULL /\ next[m] # NULL => next[m] # x
    <3> SUFFICES ASSUME NEW m \in D, prev[m] # NULL, next[m] = x, x # NULL PROVE FALSE
      OBVIOUS
    <3>1. prev[x] = m  BY DEF Chain
    <3>2. n = m  BY <1>1, <1>3, <3>1 DEF Chain
    <3> QED  BY <1>4, <3>2
  <2>6. Chain(h, nx, pv, D, rank)
    <3>1. \A m \in D : pv[m] # NULL =>
            /\ pv[m] \in D => nx[pv[m]] = m
            /\ \A k \in D : nx[k] = m => k = pv[m]
            /\ nx[m] # NULL => pv[nx[m]] = m
      <4> SUFFICES ASSUME NEW m \in D, pv[m] # NULL
                   PROVE  /\ pv[m] \in D => nx[pv[m]] = m
                          /\ \A k \in D : nx[k] = m => k = pv[m]
                          /\ nx[m] # NULL => pv[nx[m]] = m
        OBVIOUS
      <4>1. m # x /\ pv[m] = prev[m] /\ m \in C  BY <1>1, <2>2, <2>3
      <4>2. /\ prev[m] \in C => next[prev[m]] = m
            /\ \A k \in C : next[k] = m => k = prev[m]
            /\ next[m] # NULL => prev[next[m]] = m
        BY <4>1 DEF Chain
      <4>3. next[m] # NULL => next[m] \in D /\ next[m] # x  BY <2>4, <2>5, <4>1
      <4> HIDE DEF D
      <4> QED  BY <2>1, <2>2, <4>1, <4>2, <4>3
    <3>2. h = x /\ \A m \in D : nx[m] = next[m]  BY <1>4, <2>2 DEF HeadWithout
    <3>3. \A m \in D : nx[m] # NULL => nx[m] \in D /\ rank[nx[m]] < rank[m]  BY <2>4, <3>2
    <3> HIDE DEF D, h
    <3> QED  BY <2>1, <2>3, <3>1, <3>2, <3>3 DEF Chain
  <2>7. \A m \in D : pv[m] # n /\ pv[m] \in PrevsOf(prev, C)
    <3> SUFFICES ASSUME NEW m \in D PROVE pv[m] # n /\ pv[m] \in PrevsOf(prev, C)
      OBVIOUS
    <3>1. CASE m = x  BY <1>1, <1>3, <1>4, <2>1, <2>3, <3>1 DEF PrevsOf
    <3>2. CASE m # x
      <4>1. prev[m] = n => m = x  BY <1>1, <2>1 DEF Chain
      <4> QED  BY <2>1, <2>2, <3>2, <4>1 DEF PrevsOf
    <3> QED  BY <3>1, <3>2
  <2> HIDE DEF D
  <2> QED  BY <2>1, <2>6, <2>7 DEF nx, pv
<1>5. CASE p # NULL
  <2>1. /\ x \in (C \ {n}) \cup {NULL}
        /\ Chain(head, nx, pv, C \ {n}, rank)
        /\ \A m \in C \ {n} : pv[m] # n /\ pv[m] \in PrevsOf(prev, C)
    BY <1>5, UnlinkInner DEF nx, pv
  <2>2. h = head  BY <1>5 DEF HeadWithout
  <2>3. C \ {n} \in SUBSET C /\ n \notin C \ {n}  OBVIOUS
  <2> HIDE DEF h
  <2>4. \E D \in SUBSET C : /\ n \notin D /\ x \in D \cup {NULL} /\ Chain(h, nx, pv, D, rank)
                            /\ \A m \in D : pv[m] # n /\ pv[m] \in PrevsOf(prev, C)
    BY <2>1, <2>2, <2>3
  <2> QED  BY <2>4 DEF h, nx, pv
<1> QED  BY <1>4, <1>5

TailWithout(tail, next, prev, n) == IF next[n] = NULL THEN prev[n] ELSE tail

\* The pointers with the entry n put at the head, as visual_list_chain_at_begin
\* sets them.
NextPushed(head, next, n) == [next EXCEPT ![n] = head]
PrevPushed(prev, n) == [prev EXCEPT ![n] = NULL]
TailPushed(head, tail, n) == IF head = NULL THEN n ELSE tail

\* The pointers with the entry n at the tail, as visual_list_chain sets them.
NextAppended(head, tail, next, n) ==
    With([next EXCEPT ![n] = NULL], IF head = NULL THEN NULL ELSE tail, n)
PrevAppended(head, tail, prev, n) == [prev EXCEPT ![n] = IF head = NULL THEN NULL ELSE tail]
HeadAppended(head, n) == IF head = NULL THEN n ELSE head

\* A new entry at the tail of a whole chain.
LEMMA AppendKeeps ==
    ASSUME NEW C \in SUBSET Nodes, NEW rank \in [Nodes -> Int], NEW head, NEW tail,
           NEW next \in Links, NEW prev \in Links, NEW count \in Int,
           Chain(head, next, prev, C, rank), Whole(head, tail, next, prev, C, rank, count),
           NEW n \in Nodes, n \notin C, 0 <= count
    PROVE  \E order \in [Nodes -> Int] :
              /\ Chain(HeadAppended(head, n), NextAppended(head, tail, next, n),
                       PrevAppended(head, tail, prev, n), C \cup {n}, order)
              /\ Whole(HeadAppended(head, n), n, NextAppended(head, tail, next, n),
                       PrevAppended(head, tail, prev, n), C \cup {n}, order, count + 1)
<1> DEFINE E == C \cup {n}
           last == IF head = NULL THEN NULL ELSE tail
           h == HeadAppended(head, n)
           nx == NextAppended(head, tail, next, n)
           pv == PrevAppended(head, tail, prev, n)
           order == [m \in Nodes |-> IF m = n THEN 1 ELSE rank[m] + 1]
<1>1. n # NULL /\ \A m \in C : m \in Nodes /\ m # NULL /\ m # n /\ rank[m] \in 1..count
  BY DEF Nodes, NULL, Whole
<1>2. /\ order \in [Nodes -> Int] /\ order[n] = 1
      /\ \A m \in C : order[m] = rank[m] + 1
  BY <1>1
<1>3. /\ head = NULL => C = {} /\ last = NULL /\ h = n
      /\ head # NULL => tail \in C /\ last = tail /\ h = head /\ head \in C
                        /\ prev[head] = NULL /\ next[tail] = NULL
  BY DEF Chain, Whole, HeadAppended
<1>4. /\ nx[n] = NULL /\ pv[n] = last
      /\ \A m \in C : /\ pv[m] = prev[m]
                      /\ m = last => nx[m] = n
                      /\ m # last => nx[m] = next[m]
  <2>1. last \in Pointers /\ last # n /\ (last # NULL => last \in Nodes)
    BY <1>1, <1>3 DEF Pointers
  <2>2. pv[n] = last /\ \A m \in C : pv[m] = prev[m]  BY <1>1 DEF PrevAppended, Links
  <2>3. [next EXCEPT ![n] = NULL] \in Links /\ [next EXCEPT ![n] = NULL][n] = NULL
        /\ \A m \in C : [next EXCEPT ![n] = NULL][m] = next[m]
    BY <1>1 DEF Links, Pointers
  <2>4. nx = With([next EXCEPT ![n] = NULL], last, n)  BY DEF NextAppended
  <2> DEFINE f == [next EXCEPT ![n] = NULL]
  <2> HIDE DEF f, last, nx
  <2>5. f \in Links /\ f[n] = NULL /\ \A m \in C : f[m] = next[m]  BY <2>3 DEF f
  <2>6. nx = With(f, last, n)  BY <2>4 DEF f
  <2>7. nx[n] = NULL /\ \A m \in C : /\ m = last => nx[m] = n
                                     /\ m # last => nx[m] = next[m]
    BY <1>1, <2>1, <2>5, <2>6 DEF With, Links
  <2> QED  BY <2>2, <2>7
<1>5. \A m \in C : /\ next[m] # NULL => next[m] \in C /\ rank[next[m]] < rank[m]
                   /\ prev[m] \in C \cup {NULL}
                   /\ next[m] = NULL <=> m = tail
  BY DEF Chain, Whole
<1>6. \A m \in C : prev[m] # NULL =>
          /\ prev[m] \in C => next[prev[m]] = m
          /\ \A k \in C : next[k] = m => k = prev[m]
          /\ next[m] # NULL => prev[next[m]] = m
  BY DEF Chain
<1> HIDE DEF last, h, nx, pv, order
<1>7. h \in E /\ h # NULL /\ pv[h] = NULL  BY <1>1, <1>3, <1>4
<1>8. \A m \in E : nx[m] # NULL => nx[m] \in E /\ order[nx[m]] < order[m]
  <2> SUFFICES ASSUME NEW m \in E, nx[m] # NULL PROVE nx[m] \in E /\ order[nx[m]] < order[m]
    OBVIOUS
  <2>1. m \in C  BY <1>4
  <2>2. CASE m = last  BY <1>1, <1>2, <1>4, <2>1, <2>2
  <2>3. CASE m # last
    <3>1. nx[m] = next[m] /\ next[m] \in C /\ rank[next[m]] < rank[m]  BY <1>4, <1>5, <2>1, <2>3
    <3> QED  BY <1>1, <1>2, <2>1, <3>1
  <2> QED  BY <2>2, <2>3
<1>9. \A m \in E : pv[m] # NULL =>
          /\ pv[m] \in E => nx[pv[m]] = m
          /\ \A k \in E : nx[k] = m => k = pv[m]
          /\ nx[m] # NULL => pv[nx[m]] = m
  <2> SUFFICES ASSUME NEW m \in E, pv[m] # NULL
               PROVE  /\ pv[m] \in E => nx[pv[m]] = m
                      /\ \A k \in E : nx[k] = m => k = pv[m]
                      /\ nx[m] # NULL => pv[nx[m]] = m
    OBVIOUS
  <2>1. CASE m = n
    <3>1. last # NULL /\ last \in C /\ pv[m] = last  BY <1>3, <1>4, <2>1
    <3>2. nx[last] = m /\ nx[m] = NULL  BY <1>4, <2>1, <3>1
    <3>3. \A k \in E : nx[k] = m => k = last
      <4>1. \A k \in C : next[k] # n  BY <1>1, <1>5
      <4> QED  BY <1>1, <1>4, <2>1, <4>1
    <3> QED  BY <3>1, <3>2, <3>3
  <2>2. CASE m # n
    <3>1. m \in C /\ pv[m] = prev[m] /\ prev[m] \in C /\ m # NULL  BY <1>1, <1>4, <1>5, <2>2
    <3>2. /\ next[prev[m]] = m /\ \A k \in C : next[k] = m => k = prev[m]
          /\ next[m] # NULL => prev[next[m]] = m
      BY <1>6, <3>1
    <3>3. nx[prev[m]] = m
      <4>1. prev[m] # last  BY <1>3, <3>1, <3>2
      <4> QED  BY <1>4, <3>1, <3>2, <4>1
    <3>4. \A k \in E : nx[k] = m => k = prev[m]
      <4> SUFFICES ASSUME NEW k \in E, nx[k] = m PROVE k = prev[m]  OBVIOUS
      <4>1. k # n  BY <1>4, <3>1
      <4>2. k # last  BY <1>4, <2>2, <4>1
      <4> QED  BY <1>4, <3>2, <4>1, <4>2
    <3>5. nx[m] # NULL => pv[nx[m]] = m
      <4>1. CASE m = last
        <5>1. nx[m] = n /\ pv[n] = m  BY <1>4, <3>1, <4>1
        <5> QED  BY <5>1
      <4>2. CASE m # last
        <5>1. nx[m] = next[m]  BY <1>4, <3>1, <4>2
        <5>2. next[m] # NULL => next[m] \in C /\ prev[next[m]] = m  BY <1>5, <3>1, <3>2
        <5> QED  BY <1>4, <5>1, <5>2
      <4> QED  BY <4>1, <4>2
    <3> QED  BY <3>1, <3>3, <3>4, <3>5
  <2> QED  BY <2>1, <2>2
<1>10. Chain(h, nx, pv, E, order)
  <2> HIDE DEF E
  <2> QED  BY <1>7, <1>8, <1>9 DEF Chain
<1>11. \A m \in E : /\ pv[m] \in E \cup {NULL}
                    /\ nx[m] = NULL <=> m = n
                    /\ order[m] \in 1..count + 1
  <2> SUFFICES ASSUME NEW m \in E
               PROVE  /\ pv[m] \in E \cup {NULL}
                      /\ nx[m] = NULL <=> m = n
                      /\ order[m] \in 1..count + 1
    OBVIOUS
  <2>1. CASE m = n  BY <1>2, <1>3, <1>4, <2>1
  <2>2. CASE m # n
    <3>1. m \in C /\ rank[m] \in 1..count /\ order[m] = rank[m] + 1  BY <1>1, <1>2, <2>2
    <3>2. nx[m] # NULL
      <4>1. m # last => m # tail  BY <1>3, <3>1
      <4> QED  BY <1>1, <1>4, <1>5, <3>1, <4>1
    <3> QED  BY <1>4, <1>5, <2>2, <3>1, <3>2
  <2> QED  BY <2>1, <2>2
<1>12. \A m, k \in E : order[m] = order[k] => m = k
  <2>1. \A m, k \in C : rank[m] = rank[k] => m = k  BY DEF Whole
  <2>2. \A m \in C : order[m] # 1 /\ order[m] = rank[m] + 1 /\ rank[m] \in Int  BY <1>1, <1>2
  <2> QED  BY <1>2, <2>1, <2>2
<1>13. Whole(h, n, nx, pv, E, order, count + 1)
  <2>1. n \in E  OBVIOUS
  <2> HIDE DEF E
  <2> QED  BY <1>7, <1>11, <1>12, <2>1 DEF Whole
<1> QED  BY <1>2, <1>10, <1>13 DEF h, nx, pv

\* An entry that had no prev pointer, at the head again.
LEMMA ResetFirst ==
    ASSUME NEW C \in SUBSET Nodes, NEW rank \in [Nodes -> Int], NEW head, NEW tail,
           NEW next \in Links, NEW prev \in Links, NEW count \in Int,
           Chain(head, next, prev, C, rank), Whole(head, tail, next, prev, C, rank, count),
           NEW n \in C, prev[n] = NULL
    PROVE  /\ Chain(n, NextPushed(HeadWithout(head, next, prev, n),
                                  NextWithout(next, prev, n), n),
                    PrevPushed(PrevWithout(next, prev, n), n), C, rank)
           /\ Whole(n, TailPushed(HeadWithout(head, next, prev, n),
                                  TailWithout(tail, next, prev, n), n),
                    NextPushed(HeadWithout(head, next, prev, n),
                               NextWithout(next, prev, n), n),
                    PrevPushed(PrevWithout(next, prev, n), n), C, rank, count)
<1> DEFINE x == next[n]
           nx == NextPushed(HeadWithout(head, next, prev, n), NextWithout(next, prev, n), n)
           pv == PrevPushed(PrevWithout(next, prev, n), n)
           last == TailPushed(HeadWithout(head, next, prev, n),
                              TailWithout(tail, next, prev, n), n)
<1>1. /\ x \in Pointers /\ n \in Nodes /\ n # NULL
      /\ \A m \in C : m \in Nodes /\ m # NULL /\ rank[m] \in Int
      /\ x # NULL => x \in C /\ rank[x] < rank[n]
      /\ x # n
  BY EntryPlace
<1>2. NextWithout(next, prev, n) = next  BY <1>1 DEF NextWithout, With
<1>3. nx = next  BY <1>1, <1>2 DEF NextPushed, HeadWithout, Links
<1>4. /\ PrevWithout(next, prev, n) \in Links
      /\ \A m \in Nodes : /\ m = x => PrevWithout(next, prev, n)[m] = NULL
                          /\ m # x => PrevWithout(next, prev, n)[m] = prev[m]
  <2>1. n \in Nodes  OBVIOUS
  <2>2. /\ PrevWithout(next, prev, n) \in Links
        /\ \A m \in Nodes : /\ m = prev[n] => NextWithout(next, prev, n)[m] = next[n]
                            /\ m # prev[n] => NextWithout(next, prev, n)[m] = next[m]
                            /\ m = next[n] => PrevWithout(next, prev, n)[m] = prev[n]
                            /\ m # next[n] => PrevWithout(next, prev, n)[m] = prev[m]
    BY <2>1, WithoutIs
  <2> QED  BY <2>2
<1>5. \A m \in C : /\ m = x => pv[m] = NULL
                   /\ m # x => pv[m] = prev[m]
  <2> DEFINE f == PrevWithout(next, prev, n)
  <2> HIDE DEF f
  <2>1. /\ f \in Links
        /\ \A m \in Nodes : /\ m = x => f[m] = NULL
                            /\ m # x => f[m] = prev[m]
    BY <1>4 DEF f
  <2>2. pv = [f EXCEPT ![n] = NULL]  BY DEF PrevPushed, f
  <2> HIDE DEF pv
  <2> QED  BY <1>1, <2>1, <2>2 DEF Links
<1>6. last = tail
  <2>1. x = NULL => n = tail  BY DEF Whole
  <2> QED  BY <2>1 DEF TailPushed, TailWithout, HeadWithout
<1>7. \A m \in C : prev[m] # NULL /\ next[m] # NULL => next[m] # x
  <2> SUFFICES ASSUME NEW m \in C, prev[m] # NULL, next[m] = x, x # NULL PROVE FALSE
    OBVIOUS
  <2>1. prev[x] = m  BY DEF Chain
  <2>2. n = m  BY <1>1, <2>1 DEF Chain
  <2> QED  BY <2>2
<1> HIDE DEF nx, pv, last
<1>8. Chain(n, nx, pv, C, rank)
  <2>1. pv[n] = NULL  BY <1>1, <1>5
  <2>2. \A m \in C : nx[m] # NULL => nx[m] \in C /\ rank[nx[m]] < rank[m]
    BY <1>3 DEF Chain
  <2>3. \A m \in C : pv[m] # NULL =>
          /\ pv[m] \in C => nx[pv[m]] = m
          /\ \A k \in C : nx[k] = m => k = pv[m]
          /\ nx[m] # NULL => pv[nx[m]] = m
    <3> SUFFICES ASSUME NEW m \in C, pv[m] # NULL
                 PROVE  /\ pv[m] \in C => next[pv[m]] = m
                        /\ \A k \in C : next[k] = m => k = pv[m]
                        /\ next[m] # NULL => pv[next[m]] = m
      BY <1>3
    <3>1. m # x /\ pv[m] = prev[m]  BY <1>5
    <3>2. /\ prev[m] \in C => next[prev[m]] = m
          /\ \A k \in C : next[k] = m => k = prev[m]
          /\ next[m] # NULL => prev[next[m]] = m /\ next[m] \in C
      BY <3>1 DEF Chain
    <3>3. next[m] # NULL => next[m] # x  BY <1>7, <3>1
    <3> QED  BY <1>5, <3>1, <3>2, <3>3
  <2> QED  BY <2>1, <2>2, <2>3 DEF Chain
<1>9. Whole(n, last, nx, pv, C, rank, count)
  <2>1. tail \in C /\ n # NULL  BY <1>1 DEF Whole
  <2>2. \A m \in C : pv[m] \in C \cup {NULL}  BY <1>5 DEF Whole
  <2> QED  BY <1>3, <1>6, <2>1, <2>2 DEF Whole
<1> QED  BY <1>8, <1>9 DEF nx, pv, last

\* An entry from the middle of the list, put at its head.
LEMMA ResetInner ==
    ASSUME NEW C \in SUBSET Nodes, NEW rank \in [Nodes -> Int], NEW head, NEW tail,
           NEW next \in Links, NEW prev \in Links, NEW count \in Int,
           Chain(head, next, prev, C, rank), Whole(head, tail, next, prev, C, rank, count),
           NEW n \in C, prev[n] # NULL
    PROVE  \E order \in [Nodes -> Int] :
              /\ Chain(n, NextPushed(HeadWithout(head, next, prev, n),
                                     NextWithout(next, prev, n), n),
                       PrevPushed(PrevWithout(next, prev, n), n), C, order)
              /\ Whole(n, TailPushed(HeadWithout(head, next, prev, n),
                                     TailWithout(tail, next, prev, n), n),
                       NextPushed(HeadWithout(head, next, prev, n),
                                  NextWithout(next, prev, n), n),
                       PrevPushed(PrevWithout(next, prev, n), n), C, order, count)
<1> DEFINE p == prev[n]
           x == next[n]
           f == NextWithout(next, prev, n)
           g == PrevWithout(next, prev, n)
           nx == NextPushed(HeadWithout(head, next, prev, n), f, n)
           pv == PrevPushed(g, n)
           last == TailPushed(HeadWithout(head, next, prev, n),
                              TailWithout(tail, next, prev, n), n)
           D == C \ {n}
           order == [m \in Nodes |-> IF m = n THEN count
                                     ELSE IF rank[m] > rank[n] THEN rank[m] - 1 ELSE rank[m]]
<1>1. /\ p \in Pointers /\ x \in Pointers /\ n \in Nodes /\ n # NULL
      /\ \A m \in C : m \in Nodes /\ m # NULL /\ rank[m] \in Int
  BY EntryPlace
<1>2. /\ x # NULL => x \in C /\ rank[x] < rank[n]
      /\ p \in C => next[p] = n /\ rank[n] < rank[p]
      /\ p # n /\ x # n
  <2>1. x # NULL => x \in C /\ rank[x] < rank[n]  BY EntryPlace
  <2>2. p \in C => next[p] = n /\ rank[n] < rank[p]  BY EntryPlace
  <2>3. p # n /\ x # n  BY EntryPlace
  <2> QED  BY <2>1, <2>2, <2>3
<1>3. /\ p \in C /\ head \in C /\ head # NULL /\ tail \in C
      /\ n = tail <=> x = NULL
      /\ \A m \in C : /\ prev[m] \in C \cup {NULL}
                      /\ next[m] = NULL <=> m = tail
                      /\ rank[m] \in 1..count
      /\ \A m, k \in C : rank[m] = rank[k] => m = k
  <2>1. head # NULL  BY DEF Whole
  <2>2. p \in C  BY DEF Whole
  <2>3. head \in C  BY <2>1 DEF Chain
  <2> QED  BY <2>1, <2>2, <2>3 DEF Whole
<1>4. /\ Chain(head, f, g, D, rank)
      /\ \A m \in D : g[m] # n /\ g[m] \in PrevsOf(prev, C)
  BY UnlinkInner
<1>5. /\ f \in Links /\ g \in Links
      /\ \A m \in Nodes : /\ m = p => f[m] = x
                          /\ m # p => f[m] = next[m]
  BY <1>1, WithoutIs
<1> HIDE DEF f, g
<1>6. nx = [f EXCEPT ![n] = head] /\ pv = [g EXCEPT ![n] = NULL]
  BY DEF NextPushed, PrevPushed, HeadWithout
<1>7. last = IF x = NULL THEN p ELSE tail
  BY <1>3 DEF TailPushed, TailWithout, HeadWithout
<1> HIDE DEF nx, pv, last
<1>8. /\ nx[n] = head /\ pv[n] = NULL
      /\ \A m \in D : nx[m] = f[m] /\ pv[m] = g[m] /\ m \in C /\ m # n
  BY <1>1, <1>5, <1>6 DEF Links
<1>9. /\ head \in D /\ g[head] = NULL
      /\ \A m \in D : f[m] # NULL => f[m] \in D /\ rank[f[m]] < rank[m]
      /\ \A m \in D : g[m] # NULL =>
            /\ g[m] \in D => f[g[m]] = m
            /\ \A k \in D : f[k] = m => k = g[m]
            /\ f[m] # NULL => g[f[m]] = m
  <2> HIDE DEF D
  <2> QED  BY <1>3, <1>4 DEF Chain
<1>10. \A m \in D : g[m] \in D \cup {NULL}
  <2> SUFFICES ASSUME NEW m \in D PROVE g[m] \in D \cup {NULL}  OBVIOUS
  <2>1. g[m] # n /\ g[m] \in PrevsOf(prev, C)  BY <1>4
  <2> QED  BY <1>3, <2>1 DEF PrevsOf
<1>11. /\ order \in [Nodes -> Int] /\ order[n] = count
       /\ \A m \in D : order[m] \in 1..count - 1
       /\ \A m, k \in D : rank[m] < rank[k] => order[m] < order[k]
  <2>1. order \in [Nodes -> Int] /\ order[n] = count  BY <1>1
  <2>2. \A m \in D : /\ m \in C /\ m \in Nodes /\ rank[m] \in 1..count /\ rank[n] \in 1..count
                     /\ rank[m] # rank[n]
                     /\ order[m] = IF rank[m] > rank[n] THEN rank[m] - 1 ELSE rank[m]
    BY <1>1, <1>3
  <2> HIDE DEF order, D
  <2>3. \A m \in D : order[m] \in 1..count - 1  BY <2>2
  <2>4. \A m, k \in D : rank[m] < rank[k] => order[m] < order[k]  BY <2>2
  <2> QED  BY <2>1, <2>3, <2>4
<1> HIDE DEF order
<1>12. Chain(n, nx, pv, C, order)
  <2>1. \A m \in C : nx[m] # NULL => nx[m] \in C /\ order[nx[m]] < order[m]
    <3> SUFFICES ASSUME NEW m \in C, nx[m] # NULL PROVE nx[m] \in C /\ order[nx[m]] < order[m]
      OBVIOUS
    <3>1. CASE m = n
      <4>1. order[head] \in 1..count - 1  BY <1>9, <1>11
      <4> QED  BY <1>3, <1>8, <1>11, <3>1, <4>1
    <3>2. CASE m # n
      <4>1. m \in D /\ nx[m] = f[m]  BY <1>8, <3>2
      <4>2. f[m] \in D /\ rank[f[m]] < rank[m]  BY <1>9, <4>1
      <4> QED  BY <1>11, <4>1, <4>2
    <3> QED  BY <3>1, <3>2
  <2>2. \A m \in C : pv[m] # NULL =>
          /\ pv[m] \in C => nx[pv[m]] = m
          /\ \A k \in C : nx[k] = m => k = pv[m]
          /\ nx[m] # NULL => pv[nx[m]] = m
    <3> SUFFICES ASSUME NEW m \in C, pv[m] # NULL
                 PROVE  /\ pv[m] \in C => nx[pv[m]] = m
                        /\ \A k \in C : nx[k] = m => k = pv[m]
                        /\ nx[m] # NULL => pv[nx[m]] = m
      OBVIOUS
    <3>1. m \in D /\ pv[m] = g[m] /\ g[m] # NULL /\ g[m] \in D  BY <1>8, <1>10
    <3>2. /\ f[g[m]] = m /\ \A k \in D : f[k] = m => k = g[m]
          /\ f[m] # NULL => g[f[m]] = m /\ f[m] \in D
      BY <1>9, <3>1
    <3>3. nx[pv[m]] = m  BY <1>8, <3>1, <3>2
    <3>4. \A k \in C : nx[k] = m => k = pv[m]
      <4>1. m # head  BY <1>9, <3>1
      <4> QED  BY <1>8, <3>1, <3>2, <4>1
    <3>5. nx[m] # NULL => pv[nx[m]] = m  BY <1>8, <3>1, <3>2
    <3> QED  BY <3>3, <3>4, <3>5
  <2> QED  BY <1>8, <2>1, <2>2 DEF Chain
<1>13. Whole(n, last, nx, pv, C, order, count)
  <2>1. last \in C /\ last # n  BY <1>2, <1>3, <1>7
  <2>2. \A m \in C : /\ pv[m] \in C \cup {NULL}
                     /\ nx[m] = NULL <=> m = last
                     /\ order[m] \in 1..count
    <3> SUFFICES ASSUME NEW m \in C
                 PROVE  /\ pv[m] \in C \cup {NULL}
                        /\ nx[m] = NULL <=> m = last
                        /\ order[m] \in 1..count
      OBVIOUS
    <3>1. CASE m = n
      <4>1. count \in 1..count  BY <1>3
      <4> QED  BY <1>3, <1>8, <1>11, <2>1, <3>1, <4>1
    <3>2. CASE m # n
      <4>1. m \in D /\ nx[m] = f[m] /\ pv[m] = g[m]  BY <1>8, <3>2
      <4>2. pv[m] \in C \cup {NULL}  BY <1>10, <4>1
      <4>3. order[m] \in 1..count
        <5>1. order[m] \in 1..count - 1  BY <1>11, <4>1
        <5> QED  BY <5>1
      <4>4. nx[m] = NULL <=> m = last
        <5>1. CASE m = p
          <6>1. f[m] = x /\ p # tail  BY <1>1, <1>2, <1>3, <1>5, <5>1
          <6> QED  BY <1>7, <4>1, <5>1, <6>1
        <5>2. CASE m # p  BY <1>1, <1>3, <1>5, <1>7, <3>2, <4>1, <5>2
        <5> QED  BY <5>1, <5>2
      <4> QED  BY <4>2, <4>3, <4>4
    <3> QED  BY <3>1, <3>2
  <2>3. \A m, k \in C : order[m] = order[k] => m = k
    <3> SUFFICES ASSUME NEW m \in C, NEW k \in C, order[m] = order[k] PROVE m = k  OBVIOUS
    <3>1. m = n <=> k = n
      <4>1. \A j \in D : order[j] # order[n]
        <5> TAKE j \in D
        <5>1. order[j] \in 1..count - 1 /\ order[n] = count  BY <1>11
        <5> QED  BY <5>1
      <4> QED  BY <4>1
    <3>2. CASE m # n
      <4>1. m \in D /\ k \in D  BY <3>1, <3>2
      <4>2. ~(rank[m] < rank[k]) /\ ~(rank[k] < rank[m])
        <5>1. order[m] \in Int /\ order[k] \in Int  BY <1>11, <4>1
        <5> QED  BY <1>11, <4>1, <5>1
      <4>3. rank[m] = rank[k]  BY <1>1, <4>2
      <4> QED  BY <1>3, <4>3
    <3> QED  BY <3>1, <3>2
  <2> QED  BY <1>1, <2>1, <2>2, <2>3 DEF Whole
<1> QED  BY <1>11, <1>12, <1>13 DEF f, g, nx, pv, last

-----------------------------------------------------------------------------
(* The operations on the list, field by field.                               *)

LEMMA RelinkIs ==
    ASSUME NEW c \in Caches, NEW head \in Pointers, NEW tail \in Pointers,
           NEW next \in Links, NEW prev \in Links, NEW count \in Int, NEW ns
    PROVE  /\ Touch(Relinked(c, head, tail, next, prev, count), ns).head = head
           /\ Touch(Relinked(c, head, tail, next, prev, count), ns).tail = tail
           /\ Touch(Relinked(c, head, tail, next, prev, count), ns).next = next
           /\ Touch(Relinked(c, head, tail, next, prev, count), ns).prev = prev
           /\ Touch(Relinked(c, head, tail, next, prev, count), ns).freed = c.freed
           /\ ~c.bad /\ ns \cap c.freed = {} =>
                 ~Touch(Relinked(c, head, tail, next, prev, count), ns).bad
BY DEF Caches, Links, Pointers, Relinked, Touch

LEMMA UnchainIs ==
    ASSUME NEW c \in Caches, NEW n \in Nodes
    PROVE  /\ visual_list_unchain(c, n).head = HeadWithout(c.head, c.next, c.prev, n)
           /\ visual_list_unchain(c, n).tail = TailWithout(c.tail, c.next, c.prev, n)
           /\ visual_list_unchain(c, n).next = NextWithout(c.next, c.prev, n)
           /\ visual_list_unchain(c, n).prev = PrevWithout(c.next, c.prev, n)
           /\ visual_list_unchain(c, n).freed = c.freed
           /\ ~c.bad /\ {n, c.prev[n], c.next[n]} \cap c.freed = {} =>
                 ~visual_list_unchain(c, n).bad
<1> DEFINE p == c.prev[n]
           x == c.next[n]
           next == NextWithout(c.next, c.prev, n)
           prev == PrevWithout(c.next, c.prev, n)
           head == HeadWithout(c.head, c.next, c.prev, n)
           tail == TailWithout(c.tail, c.next, c.prev, n)
           count == c.count - 1
           d == Touch(Relinked(c, head, tail, next, prev, count), {n, p, x})
<1>1. /\ p \in Pointers /\ x \in Pointers /\ c.next \in Links /\ c.prev \in Links
      /\ c.head \in Pointers /\ c.tail \in Pointers /\ count \in Int
  BY DEF Caches, Links, Pointers
<1>2. next \in Links /\ prev \in Links  BY <1>1, WithTyped DEF NextWithout, PrevWithout
<1>3. head \in Pointers /\ tail \in Pointers  BY <1>1 DEF HeadWithout, TailWithout
<1>4. visual_list_unchain(c, n) = d
  BY DEF visual_list_unchain, Relinked, NextWithout, PrevWithout, HeadWithout, TailWithout
<1> HIDE DEF next, prev, head, tail, count
<1>5. /\ d.head = head /\ d.tail = tail /\ d.next = next /\ d.prev = prev
      /\ d.freed = c.freed
      /\ ~c.bad /\ {n, p, x} \cap c.freed = {} => ~d.bad
  BY <1>1, <1>2, <1>3, RelinkIs
<1> HIDE DEF d
<1> QED  BY <1>4, <1>5 DEF next, prev, head, tail

LEMMA ChainAtBeginIs ==
    ASSUME NEW c \in Caches, NEW n \in Nodes
    PROVE  /\ visual_list_chain_at_begin(c, n).head = n
           /\ visual_list_chain_at_begin(c, n).tail = TailPushed(c.head, c.tail, n)
           /\ visual_list_chain_at_begin(c, n).next = NextPushed(c.head, c.next, n)
           /\ visual_list_chain_at_begin(c, n).prev = PrevPushed(c.prev, n)
           /\ visual_list_chain_at_begin(c, n).freed = c.freed
           /\ visual_list_chain_at_begin(c, n).allocated = c.allocated
           /\ ~c.bad /\ n \notin c.freed => ~visual_list_chain_at_begin(c, n).bad
<1> DEFINE next == NextPushed(c.head, c.next, n)
           prev == PrevPushed(c.prev, n)
           tail == TailPushed(c.head, c.tail, n)
           count == c.count + 1
           d == Touch(Relinked(c, n, tail, next, prev, count), {n})
<1>1. next \in Links  BY DEF Caches, Links, Pointers, NextPushed
<1>2. prev \in Links  BY DEF Caches, Links, Pointers, PrevPushed
<1>3. tail \in Pointers /\ n \in Pointers /\ count \in Int
  BY DEF Caches, Links, Pointers, TailPushed
<1>4. visual_list_chain_at_begin(c, n) = d
  BY DEF visual_list_chain_at_begin, Relinked, NextPushed, PrevPushed, TailPushed
<1> HIDE DEF next, prev, tail, count
<1>5. /\ d.head = n /\ d.tail = tail /\ d.next = next /\ d.prev = prev
      /\ d.freed = c.freed
      /\ ~c.bad /\ {n} \cap c.freed = {} => ~d.bad
  BY <1>1, <1>2, <1>3, RelinkIs
<1>6. d.allocated = c.allocated  BY <1>1, <1>2, <1>3, RelinkTyped, TouchTyped
<1> HIDE DEF d
<1> QED  BY <1>4, <1>5, <1>6 DEF next, prev, tail

LEMMA ChainIs ==
    ASSUME NEW c \in Caches, NEW n \in Nodes
    PROVE  /\ visual_list_chain(c, n).head = HeadAppended(c.head, n)
           /\ visual_list_chain(c, n).tail = n
           /\ visual_list_chain(c, n).next = NextAppended(c.head, c.tail, c.next, n)
           /\ visual_list_chain(c, n).prev = PrevAppended(c.head, c.tail, c.prev, n)
           /\ visual_list_chain(c, n).freed = c.freed
           /\ visual_list_chain(c, n).allocated = c.allocated
           /\ ~c.bad /\ n \notin c.freed /\ c.tail \notin c.freed =>
                 ~visual_list_chain(c, n).bad
<1> DEFINE next == NextAppended(c.head, c.tail, c.next, n)
           prev == PrevAppended(c.head, c.tail, c.prev, n)
           head == HeadAppended(c.head, n)
           last == IF c.head = NULL THEN NULL ELSE c.tail
           count == c.count + 1
           d == Touch(Relinked(c, head, n, next, prev, count), {n, c.tail})
<1>1. /\ last \in Pointers /\ head \in Pointers /\ n \in Pointers /\ count \in Int
      /\ [c.next EXCEPT ![n] = NULL] \in Links
  BY DEF Caches, Links, Pointers, HeadAppended
<1>2. next \in Links  BY <1>1, WithTyped DEF NextAppended
<1>3. prev \in Links  BY <1>1 DEF Caches, Links, Pointers, PrevAppended
<1>4. visual_list_chain(c, n) = d
  BY DEF visual_list_chain, Relinked, NextAppended, PrevAppended, HeadAppended
<1> HIDE DEF next, prev, head, last, count
<1>5. /\ d.head = head /\ d.tail = n /\ d.next = next /\ d.prev = prev
      /\ d.freed = c.freed
      /\ ~c.bad /\ {n, c.tail} \cap c.freed = {} => ~d.bad
  BY <1>1, <1>2, <1>3, RelinkIs
<1>6. d.allocated = c.allocated  BY <1>1, <1>2, <1>3, RelinkTyped, TouchTyped
<1>7. n \notin c.freed /\ c.tail \notin c.freed => {n, c.tail} \cap c.freed = {}  OBVIOUS
<1> HIDE DEF d
<1> QED  BY <1>4, <1>5, <1>6, <1>7 DEF next, prev, head

-----------------------------------------------------------------------------
\* Between requests the entries C are all in the list and not freed.
WholeList(c, C) ==
    \E rank \in [Nodes -> Int] :
        /\ Chain(c.head, c.next, c.prev, C, rank)
        /\ Whole(c.head, c.tail, c.next, c.prev, C, rank, c.count)
        /\ C \cap c.freed = {}

\* During the shutdown the entries C are those that the walk can still reach.
RestOfList(c, C) ==
    \E rank \in [Nodes -> Int] :
        /\ Chain(c.head, c.next, c.prev, C, rank)
        /\ C \cap c.freed = {} /\ \A m \in C : c.prev[m] \notin c.freed

\* A request for what is there.
LEMMA ResetKeepsList ==
    ASSUME NEW c \in Caches, NEW C \in SUBSET Nodes, NEW n \in C, WholeList(c, C), ~c.bad
    PROVE  /\ WholeList(handle_request_reset(c, n), C)
           /\ ~handle_request_reset(c, n).bad
           /\ handle_request_reset(c, n).freed = c.freed
           /\ handle_request_reset(c, n).allocated = c.allocated
<1> DEFINE d == visual_list_unchain(c, n)
           e == handle_request_reset(c, n)
<1>1. /\ d \in Caches /\ d.allocated = c.allocated /\ n \in Nodes
      /\ e.count = c.count /\ c.count \in Int /\ e = visual_list_chain_at_begin(d, n)
      /\ c.next \in Links /\ c.prev \in Links /\ c.freed \in SUBSET Nodes
  BY UnchainTyped, ResetTyped DEF handle_request_reset, Caches, Links, Pointers
<1>2. PICK rank \in [Nodes -> Int] :
        /\ Chain(c.head, c.next, c.prev, C, rank)
        /\ Whole(c.head, c.tail, c.next, c.prev, C, rank, c.count)
        /\ C \cap c.freed = {}
  BY DEF WholeList
<1>3. {n, c.prev[n], c.next[n]} \cap c.freed = {}
  <2>1. c.prev[n] \in C \cup {NULL} /\ c.next[n] \in C \cup {NULL}
    BY <1>2 DEF Chain, Whole
  <2>2. NULL \notin c.freed  BY <1>1 DEF Nodes, NULL
  <2> QED  BY <1>2, <2>1, <2>2
<1>4. /\ d.head = HeadWithout(c.head, c.next, c.prev, n)
      /\ d.tail = TailWithout(c.tail, c.next, c.prev, n)
      /\ d.next = NextWithout(c.next, c.prev, n)
      /\ d.prev = PrevWithout(c.next, c.prev, n)
      /\ d.freed = c.freed /\ ~d.bad
  BY <1>1, <1>3, UnchainIs
<1> HIDE DEF d, e
<1>5. /\ e.head = n
      /\ e.tail = TailPushed(d.head, d.tail, n)
      /\ e.next = NextPushed(d.head, d.next, n)
      /\ e.prev = PrevPushed(d.prev, n)
      /\ e.freed = d.freed /\ e.allocated = d.allocated /\ ~e.bad
  <2>1. n \notin d.freed  BY <1>2, <1>4
  <2> QED  BY <1>1, <1>4, <2>1, ChainAtBeginIs
<1>6. \E order \in [Nodes -> Int] : /\ Chain(n, e.next, e.prev, C, order)
                                    /\ Whole(n, e.tail, e.next, e.prev, C, order, c.count)
  <2> DEFINE h == HeadWithout(c.head, c.next, c.prev, n)
             nx == NextPushed(h, NextWithout(c.next, c.prev, n), n)
             pv == PrevPushed(PrevWithout(c.next, c.prev, n), n)
             last == TailPushed(h, TailWithout(c.tail, c.next, c.prev, n), n)
  <2>1. e.next = nx /\ e.prev = pv /\ e.tail = last  BY <1>4, <1>5
  <2>2. \E order \in [Nodes -> Int] : /\ Chain(n, nx, pv, C, order)
                                      /\ Whole(n, last, nx, pv, C, order, c.count)
    <3>1. CASE c.prev[n] = NULL
      <4>1. Chain(n, nx, pv, C, rank) /\ Whole(n, last, nx, pv, C, rank, c.count)
        BY <1>1, <1>2, <3>1, ResetFirst
      <4> QED  BY <4>1
    <3>2. CASE c.prev[n] # NULL  BY <1>1, <1>2, <3>2, ResetInner
    <3> QED  BY <3>1, <3>2
  <2> HIDE DEF nx, pv, last
  <2> QED  BY <2>1, <2>2
<1>7. WholeList(e, C)  BY <1>1, <1>2, <1>4, <1>5, <1>6 DEF WholeList
<1> QED  BY <1>1, <1>4, <1>5, <1>7 DEF e

\* A new entry.
LEMMA ChainKeepsList ==
    ASSUME NEW c \in Caches, NEW C \in SUBSET Nodes, NEW n \in Nodes, n \notin C,
           n \notin c.freed, WholeList(c, C), ~c.bad, 0 <= c.count
    PROVE  /\ WholeList(visual_list_chain(c, n), C \cup {n})
           /\ ~visual_list_chain(c, n).bad
           /\ visual_list_chain(c, n).freed = c.freed
           /\ visual_list_chain(c, n).allocated = c.allocated
<1> DEFINE e == visual_list_chain(c, n)
<1>1. /\ e.count = c.count + 1 /\ c.count \in Int
      /\ c.next \in Links /\ c.prev \in Links /\ c.freed \in SUBSET Nodes
  BY ChainTyped DEF Caches, Links, Pointers
<1>2. PICK rank \in [Nodes -> Int] :
        /\ Chain(c.head, c.next, c.prev, C, rank)
        /\ Whole(c.head, c.tail, c.next, c.prev, C, rank, c.count)
        /\ C \cap c.freed = {}
  BY DEF WholeList
<1>3. c.tail \notin c.freed
  <2>1. c.tail \in C \cup {NULL}  BY <1>2 DEF Whole
  <2>2. NULL \notin c.freed  BY <1>1 DEF Nodes, NULL
  <2> QED  BY <1>2, <2>1, <2>2
<1>4. /\ e.head = HeadAppended(c.head, n) /\ e.tail = n
      /\ e.next = NextAppended(c.head, c.tail, c.next, n)
      /\ e.prev = PrevAppended(c.head, c.tail, c.prev, n)
      /\ e.freed = c.freed /\ e.allocated = c.allocated /\ ~e.bad
  BY <1>3, ChainIs
<1>5. \E order \in [Nodes -> Int] :
         /\ Chain(HeadAppended(c.head, n), NextAppended(c.head, c.tail, c.next, n),
                  PrevAppended(c.head, c.tail, c.prev, n), C \cup {n}, order)
         /\ Whole(HeadAppended(c.head, n), n, NextAppended(c.head, c.tail, c.next, n),
                  PrevAppended(c.head, c.tail, c.prev, n), C \cup {n}, order, c.count + 1)
  BY <1>1, <1>2, AppendKeeps
<1> HIDE DEF e
<1>6. (C \cup {n}) \cap c.freed = {}  BY <1>2
<1>7. WholeList(e, C \cup {n})  BY <1>1, <1>4, <1>5, <1>6 DEF WholeList
<1> QED  BY <1>4, <1>7 DEF e

\* A step of the shutdown.
LEMMA UnchainKeepsRest ==
    ASSUME NEW c \in Caches, NEW C \in SUBSET Nodes, NEW n \in C, RestOfList(c, C), ~c.bad
    PROVE  /\ ~visual_list_unchain(c, n).bad
           /\ \E D \in SUBSET C :
                 /\ c.next[n] \in D \cup {NULL}
                 /\ RestOfList([visual_list_unchain(c, n) EXCEPT !.freed = @ \cup {n}], D)
<1> DEFINE d == visual_list_unchain(c, n)
           e == [d EXCEPT !.freed = @ \cup {n}]
<1>1. /\ d \in Caches /\ n \in Nodes
      /\ c.next \in Links /\ c.prev \in Links /\ c.freed \in SUBSET Nodes
  BY UnchainTyped DEF Caches, Links, Pointers
<1>2. PICK rank \in [Nodes -> Int] :
        /\ Chain(c.head, c.next, c.prev, C, rank)
        /\ C \cap c.freed = {} /\ \A m \in C : c.prev[m] \notin c.freed
  BY DEF RestOfList
<1>3. {n, c.prev[n], c.next[n]} \cap c.freed = {}
  <2>1. c.prev[n] \notin c.freed /\ c.next[n] \in C \cup {NULL}
    BY <1>2 DEF Chain
  <2>2. NULL \notin c.freed  BY <1>1 DEF Nodes, NULL
  <2> QED  BY <1>2, <2>1, <2>2
<1>4. /\ d.head = HeadWithout(c.head, c.next, c.prev, n)
      /\ d.next = NextWithout(c.next, c.prev, n)
      /\ d.prev = PrevWithout(c.next, c.prev, n)
      /\ d.freed = c.freed /\ ~d.bad
  BY <1>1, <1>3, UnchainIs
<1>5. \E D \in SUBSET C :
         /\ n \notin D /\ c.next[n] \in D \cup {NULL}
         /\ Chain(HeadWithout(c.head, c.next, c.prev, n), NextWithout(c.next, c.prev, n),
                  PrevWithout(c.next, c.prev, n), D, rank)
         /\ \A m \in D : /\ PrevWithout(c.next, c.prev, n)[m] # n
                        /\ PrevWithout(c.next, c.prev, n)[m] \in PrevsOf(c.prev, C)
  <2>1. C \in SUBSET Nodes /\ rank \in [Nodes -> Int] /\ c.next \in Links /\ c.prev \in Links
        /\ Chain(c.head, c.next, c.prev, C, rank) /\ n \in C
    BY <1>1, <1>2
  <2> QED  BY ONLY <2>1, UnchainKeepsChain
<1> HIDE DEF d
<1>6. PICK D \in SUBSET C :
         /\ n \notin D /\ c.next[n] \in D \cup {NULL}
         /\ Chain(d.head, d.next, d.prev, D, rank)
         /\ \A m \in D : d.prev[m] # n /\ d.prev[m] \in PrevsOf(c.prev, C)
  BY <1>4, <1>5
<1>7. /\ e.head = d.head /\ e.next = d.next /\ e.prev = d.prev
      /\ e.freed = c.freed \cup {n}
  BY <1>1, <1>4 DEF Caches
<1> HIDE DEF e
<1>8. D \cap e.freed = {} /\ \A m \in D : e.prev[m] \notin e.freed
  <2>1. D \cap e.freed = {}  BY <1>2, <1>6, <1>7
  <2>2. ASSUME NEW m \in D PROVE e.prev[m] \notin e.freed
    <3>1. PICK k \in C : d.prev[m] = c.prev[k]  BY <1>6 DEF PrevsOf
    <3> QED  BY <1>2, <1>6, <1>7, <3>1
  <2> QED  BY <2>1, <2>2
<1>9. RestOfList(e, D)  BY <1>6, <1>7, <1>8 DEF RestOfList
<1>10. D \in SUBSET C /\ c.next[n] \in D \cup {NULL}  BY <1>6
<1> QED  BY <1>4, <1>9, <1>10 DEF d, e

-----------------------------------------------------------------------------
\* The inductive invariant: what of the list is in use.
ListInvariant ==
    /\ CacheInvariant
    /\ ~cache.bad /\ cache.count <= cache.allocated
    /\ \A n \in Nodes : n > cache.allocated => n \notin cache.freed /\ n \notin Indexed
    /\ phase = "up" => WholeList(cache, Indexed)
    /\ phase \in {"cache_dtor", "list_destroy"} =>
          \E C \in SUBSET (1..cache.allocated) : le \in C \cup {NULL} /\ RestOfList(cache, C)

\* An empty list.
LEMMA EmptyIs ==
    ASSUME NEW a \in 0..MaxNodes, NEW f \in SUBSET Nodes
    PROVE  /\ ~EmptyCache(a, f).bad /\ EmptyCache(a, f).allocated = a
           /\ EmptyCache(a, f).freed = f
           /\ WholeList(EmptyCache(a, f), {})
<1> DEFINE e == EmptyCache(a, f)
           rank == [n \in Nodes |-> 0]
<1>1. /\ ~e.bad /\ e.allocated = a /\ e.freed = f /\ e.head = NULL /\ e.tail = NULL
  BY DEF EmptyCache
<1>2. rank \in [Nodes -> Int]  OBVIOUS
<1> HIDE DEF e, rank
<1>3. /\ Chain(e.head, e.next, e.prev, {}, rank)
      /\ Whole(e.head, e.tail, e.next, e.prev, {}, rank, e.count)
      /\ {} \cap e.freed = {}
  BY <1>1 DEF Chain, Whole
<1>4. WholeList(e, {})  BY <1>2, <1>3 DEF WholeList
<1> QED  BY <1>1, <1>4 DEF e

LEMMA InitListed == Init => ListInvariant
<1> SUFFICES ASSUME Init PROVE ListInvariant  OBVIOUS
<1>1. CacheInvariant  BY InitHolds
<1>2. 0 \in 0..MaxNodes /\ {} \in SUBSET Nodes  BY LimitAssumption
<1>3. /\ ~cache.bad /\ cache.allocated = 0 /\ cache.freed = {} /\ cache.count = 0
      /\ cache.index = [s \in Sizes |-> NULL]
  BY <1>2, EmptyIs, EmptyTyped DEF Init
<1>4. Indexed = {}  BY <1>3 DEF Indexed
<1> QED  BY <1>1, <1>3, <1>4 DEF ListInvariant, Init

\* A request for a size that is there.
LEMMA ResetListed ==
    ASSUME RoomForAll, ListInvariant, NEW s \in Sizes, dft_cache_get(s), cache.index[s] # NULL
    PROVE  ListInvariant'
<1>1. /\ cache \in Caches /\ CacheInvariant' /\ phase = "up" /\ phase' = "up"
      /\ cache' = handle_request_reset(cache, cache.index[s])
  BY AskedIsKnown DEF ListInvariant, CacheInvariant, TypeOK, Caches, dft_cache_get
<1>2. cache.index[s] \in Indexed /\ Indexed \in SUBSET Nodes
  BY <1>1 DEF Indexed, Caches
<1>3. cache'.index = cache.index /\ cache'.count = cache.count
  BY <1>1, <1>2, ResetTyped
<1>4. Indexed' = Indexed  BY <1>3 DEF Indexed
<1>5. /\ WholeList(cache', Indexed) /\ ~cache'.bad /\ cache'.freed = cache.freed
      /\ cache'.allocated = cache.allocated
  BY <1>1, <1>2, ResetKeepsList DEF ListInvariant
<1> QED  BY <1>1, <1>3, <1>4, <1>5 DEF ListInvariant

\* A request for a size that is new.
LEMMA PutListed ==
    ASSUME RoomForAll, ListInvariant, NEW s \in Sizes, dft_cache_get(s), cache.index[s] = NULL
    PROVE  ListInvariant'
<1> DEFINE n == cache.allocated + 1
           d == [cache EXCEPT !.allocated = n, !.key[n] = s, !.index[s] = n]
<1>1. /\ cache \in Caches /\ CacheInvariant' /\ phase = "up" /\ phase' = "up"
      /\ cache.allocated < MaxNodes /\ cache' = visual_cache_put(cache, s)
  BY AskedIsKnown DEF ListInvariant, CacheInvariant, TypeOK, Caches, dft_cache_get
<1>2. /\ cache.count \in Int /\ cache.allocated \in 0..MaxNodes /\ MaxNodes \in Nat
      /\ cache.index \in [Sizes -> Nodes \cup {NULL}] /\ Limit \in Nat
  BY <1>1, LimitAssumption DEF Caches
<1>3. 0 <= cache.count /\ cache.count < Limit
  <2>1. s \notin Known /\ Known \in SUBSET Sizes /\ cache.count = Cardinality(Known)
    BY <1>1 DEF Known, ListInvariant, CacheInvariant
  <2>2. Cardinality(Known) < Limit  BY <2>1, RoomLeft
  <2>3. IsFiniteSet(Known)  BY <2>1, FS_Subset DEF RoomForAll
  <2>4. Cardinality(Known) \in Nat  BY <2>3, FS_CardinalityType
  <2> QED  BY <2>1, <2>2, <2>4
<1>4. n \in Nodes /\ n > cache.allocated /\ n \in 0..MaxNodes /\ n # NULL
  BY <1>1, <1>2 DEF Nodes, NULL
<1>5. n \notin cache.freed /\ n \notin Indexed  BY <1>4 DEF ListInvariant
<1>6. cache' = visual_list_chain(d, n)
  <2>1. ~(cache.count > Limit - 1)  BY <1>2, <1>3
  <2>2. RoomMade(cache) = cache  BY <2>1 DEF RoomMade
  <2> QED  BY <1>1, <2>1, <2>2 DEF visual_cache_put
<1> HIDE DEF n
<1>7. /\ d \in Caches /\ d.index = [cache.index EXCEPT ![s] = n] /\ d.count = cache.count
      /\ d.head = cache.head /\ d.tail = cache.tail /\ d.next = cache.next
      /\ d.prev = cache.prev /\ d.freed = cache.freed /\ d.bad = cache.bad /\ d.allocated = n
  BY <1>1, <1>4 DEF Caches
<1> HIDE DEF d
<1>8. WholeList(d, Indexed) /\ ~d.bad /\ 0 <= d.count /\ n \notin d.freed
  <2>1. WholeList(cache, Indexed) /\ ~cache.bad  BY <1>1 DEF ListInvariant
  <2> QED  BY <1>3, <1>5, <1>7, <2>1 DEF WholeList
<1>9. Indexed \in SUBSET Nodes  BY <1>2 DEF Indexed
<1>10. /\ WholeList(cache', Indexed \cup {n}) /\ ~cache'.bad
       /\ cache'.freed = cache.freed /\ cache'.allocated = n
  <2>1. /\ WholeList(visual_list_chain(d, n), Indexed \cup {n})
        /\ ~visual_list_chain(d, n).bad
        /\ visual_list_chain(d, n).freed = d.freed
        /\ visual_list_chain(d, n).allocated = d.allocated
    BY <1>4, <1>5, <1>7, <1>8, <1>9, ChainKeepsList
  <2> QED  BY <1>6, <1>7, <2>1
<1>11. /\ cache'.index = [cache.index EXCEPT ![s] = n] /\ cache'.count = cache.count + 1
  BY <1>4, <1>6, <1>7, ChainTyped
<1>12. Indexed' = Indexed \cup {n}
  BY <1>2, <1>4, <1>11 DEF Indexed
<1>13. cache'.count <= cache'.allocated
  BY <1>2, <1>10, <1>11 DEF ListInvariant, n
<1>14. \A m \in Nodes : m > cache'.allocated => m \notin cache'.freed /\ m \notin Indexed'
  <2> SUFFICES ASSUME NEW m \in Nodes, m > n PROVE m \notin cache.freed /\ m \notin Indexed \cup {n}
    BY <1>10, <1>12
  <2>1. m \in Int /\ n \in Int /\ m > cache.allocated  BY <1>2, <1>4 DEF Nodes, n
  <2>2. m # n  BY <2>1
  <2> QED  BY <2>1, <2>2 DEF ListInvariant
<1> QED  BY <1>1, <1>10, <1>12, <1>13, <1>14 DEF ListInvariant

\* A step of a walk of the shutdown: what it comes to is not freed.
LEMMA WalkListed ==
    ASSUME ListInvariant, phase \in {"cache_dtor", "list_destroy"}
    PROVE  /\ Touch(cache, {le, NextOf(le)}) = cache
           /\ NextOf(le) # NULL =>
                 \E C \in SUBSET (1..cache.allocated) : NextOf(le) \in C /\ RestOfList(cache, C)
<1>1. PICK C \in SUBSET (1..cache.allocated) : le \in C \cup {NULL} /\ RestOfList(cache, C)
  BY DEF ListInvariant
<1>2. PICK rank \in [Nodes -> Int] :
        /\ Chain(cache.head, cache.next, cache.prev, C, rank)
        /\ C \cap cache.freed = {}
  BY <1>1 DEF RestOfList
<1>3. NextOf(le) \in C \cup {NULL}  BY <1>1, <1>2 DEF NextOf, Chain
<1>4. cache \in Caches /\ ~cache.bad  BY DEF ListInvariant, CacheInvariant, TypeOK, Caches
<1>5. NULL \notin cache.freed  BY <1>4 DEF Caches, Nodes, NULL
<1>6. {le, NextOf(le)} \cap cache.freed = {}  BY <1>1, <1>2, <1>3, <1>5
<1>7. Touch(cache, {le, NextOf(le)}) = cache
  <2>1. cache.bad \/ {le, NextOf(le)} \cap cache.freed # {} <=> FALSE  BY <1>4, <1>6
  <2> DEFINE b == cache.bad \/ {le, NextOf(le)} \cap cache.freed # {}
  <2>2. b = FALSE  BY <2>1
  <2>3. Touch(cache, {le, NextOf(le)}) = [cache EXCEPT !.bad = b]  BY DEF Touch
  <2>4. cache.bad = FALSE  BY <1>4 DEF Caches
  <2> HIDE DEF b
  <2> QED  BY <1>4, <2>2, <2>3, <2>4 DEF Caches
<1> QED  BY <1>1, <1>3, <1>7

LEMMA DtorListed ==
    ASSUME ListInvariant, cache_dtor, CacheInvariant'
    PROVE  ListInvariant'
<1> DEFINE n == NextOf(le)
           b == [cache EXCEPT !.index[cache.key[n]] = NULL]
           d == visual_list_unchain(b, n)
           e == [d EXCEPT !.freed = @ \cup {n}]
<1>1. /\ phase = "cache_dtor" /\ Touch(cache, {le, n}) = cache
      /\ n # NULL => \E C \in SUBSET (1..cache.allocated) : n \in C /\ RestOfList(cache, C)
  BY WalkListed DEF cache_dtor
<1>2. cache \in Caches /\ ~cache.bad /\ cache.count <= cache.allocated
  BY DEF ListInvariant, CacheInvariant, TypeOK, Caches
<1>3. CASE n = NULL
  <2>1. phase' = "list_destroy" /\ le' = NULL /\ cache' = cache
    BY <1>1, <1>3 DEF cache_dtor
  <2>2. Indexed' = Indexed  BY <2>1 DEF Indexed
  <2>3. \E C \in SUBSET (1..cache.allocated) : RestOfList(cache, C)  BY <1>1 DEF ListInvariant
  <2> HIDE DEF n
  <2> QED  BY <1>2, <2>1, <2>2, <2>3 DEF ListInvariant
<1>4. CASE n # NULL
  <2>1. phase' = "cache_dtor" /\ le' = cache.next[n] /\ cache' = e
    BY <1>1, <1>4 DEF cache_dtor, cache_remove_list_entry
  <2>2. PICK C \in SUBSET (1..cache.allocated) : n \in C /\ RestOfList(cache, C)  BY <1>1, <1>4
  <2> HIDE DEF n
  <2>11. C \in SUBSET Nodes
    <3>1. cache.allocated \in 0..MaxNodes /\ MaxNodes \in Nat  BY <1>2, LimitAssumption DEF Caches
    <3>2. 1..cache.allocated \subseteq Nodes  BY <3>1 DEF Nodes
    <3> QED  BY <3>2
  <2>3. /\ b \in Caches /\ b.head = cache.head /\ b.next = cache.next /\ b.prev = cache.prev
        /\ b.freed = cache.freed /\ b.bad = cache.bad /\ b.count = cache.count
        /\ b.allocated = cache.allocated
        /\ \A s \in Sizes : b.index[s] \in {cache.index[s], NULL}
    BY <1>2, <2>2, <2>11 DEF Caches
  <2> HIDE DEF b
  <2>4. RestOfList(b, C) /\ ~b.bad  BY <1>2, <2>2, <2>3 DEF RestOfList
  <2>5. /\ ~d.bad
        /\ \E D \in SUBSET C : b.next[n] \in D \cup {NULL} /\ RestOfList(e, D)
    BY <2>2, <2>3, <2>4, <2>11, UnchainKeepsRest
  <2>6. /\ d \in Caches /\ d.index = b.index /\ d.count = b.count - 1
        /\ d.allocated = b.allocated /\ d.freed = b.freed
    BY <2>2, <2>3, <2>11, UnchainTyped, UnchainIs
  <2> HIDE DEF d
  <2>7. e.bad = d.bad /\ e.index = d.index /\ e.count = d.count /\ e.allocated = d.allocated
        /\ e.freed = cache.freed \cup {n}
    BY <2>3, <2>6 DEF Caches
  <2> HIDE DEF e
  <2>8. e.count <= e.allocated  BY <1>2, <2>3, <2>6, <2>7 DEF Caches
  <2>9. Indexed' \subseteq Indexed  BY <2>1, <2>3, <2>6, <2>7 DEF Indexed
  <2>10. \A m \in Nodes : m > e.allocated => m \notin e.freed /\ m \notin Indexed'
    <3>1. n <= cache.allocated /\ n \in Int  BY <1>2, <2>2 DEF Caches
    <3>2. \A m \in Nodes : m > cache.allocated => m # n  BY <1>2, <3>1 DEF Nodes, Caches
    <3> QED  BY <3>2, <2>3, <2>6, <2>7, <2>9, <3>1 DEF ListInvariant
  <2>12. /\ cache'.allocated = cache.allocated /\ ~cache'.bad
         /\ \E D \in SUBSET (1..cache.allocated) : le' \in D \cup {NULL} /\ RestOfList(cache', D)
    BY <2>1, <2>2, <2>3, <2>5, <2>6, <2>7
  <2> QED  BY <2>1, <2>8, <2>10, <2>12 DEF ListInvariant
<1> QED  BY <1>3, <1>4

LEMMA DestroyListed ==
    ASSUME ListInvariant, list_destroy, CacheInvariant'
    PROVE  ListInvariant'
<1> DEFINE n == NextOf(le)
           d == visual_list_unchain(cache, n)
           e == [d EXCEPT !.freed = @ \cup {n}]
<1>1. /\ phase = "list_destroy" /\ Touch(cache, {le, n}) = cache
      /\ n # NULL => \E C \in SUBSET (1..cache.allocated) : n \in C /\ RestOfList(cache, C)
  BY WalkListed DEF list_destroy
<1>2. cache \in Caches /\ ~cache.bad /\ cache.count <= cache.allocated
  BY DEF ListInvariant, CacheInvariant, TypeOK, Caches
<1>3. CASE n = NULL
  <2>1. phase' = "down" /\ cache' = cache  BY <1>1, <1>3 DEF list_destroy
  <2>2. Indexed' = Indexed  BY <2>1 DEF Indexed
  <2> HIDE DEF n
  <2> QED  BY <1>2, <2>1, <2>2 DEF ListInvariant
<1>4. CASE n # NULL
  <2>1. phase' = "list_destroy" /\ le' = cache.next[n] /\ cache' = e
    BY <1>1, <1>4 DEF list_destroy
  <2>2. PICK C \in SUBSET (1..cache.allocated) : n \in C /\ RestOfList(cache, C)
    BY <1>1, <1>4
  <2>3. C \in SUBSET Nodes
    <3>1. cache.allocated \in 0..MaxNodes /\ MaxNodes \in Nat  BY <1>2, LimitAssumption DEF Caches
    <3>2. 1..cache.allocated \subseteq Nodes  BY <3>1 DEF Nodes
    <3> QED  BY <3>2
  <2> HIDE DEF n
  <2>4. ~d.bad /\ \E D \in SUBSET C : cache.next[n] \in D \cup {NULL} /\ RestOfList(e, D)
    BY <1>2, <2>2, <2>3, UnchainKeepsRest
  <2>5. /\ d \in Caches /\ d.index = cache.index /\ d.count = cache.count - 1
        /\ d.allocated = cache.allocated /\ d.freed = cache.freed
    BY <1>2, <2>2, <2>3, UnchainTyped, UnchainIs
  <2> HIDE DEF d
  <2>6. e.bad = d.bad /\ e.index = d.index /\ e.count = d.count /\ e.allocated = d.allocated
        /\ e.freed = cache.freed \cup {n}
    BY <2>5 DEF Caches
  <2> HIDE DEF e
  <2>7. e.count <= e.allocated  BY <1>2, <2>5, <2>6 DEF Caches
  <2>8. Indexed' = Indexed  BY <2>1, <2>5, <2>6 DEF Indexed
  <2>9. \A m \in Nodes : m > e.allocated => m \notin e.freed /\ m \notin Indexed'
    <3>1. n <= cache.allocated /\ n \in Int  BY <1>2, <2>2 DEF Caches
    <3>2. \A m \in Nodes : m > cache.allocated => m # n  BY <1>2, <3>1 DEF Nodes, Caches
    <3> QED  BY <3>2, <2>5, <2>6, <2>8 DEF ListInvariant
  <2> QED  BY <2>1, <2>2, <2>4, <2>5, <2>6, <2>7, <2>9 DEF ListInvariant
<1> QED  BY <1>3, <1>4

LEMMA NextListed ==
    ASSUME RoomForAll, ListInvariant, [Next]_vars
    PROVE  ListInvariant'
<1>1. CacheInvariant /\ CacheInvariant'  BY NextHolds DEF ListInvariant
<1>2. cache \in Caches  BY <1>1 DEF CacheInvariant, TypeOK, Caches
<1>3. CASE visual_fourier_initialize
  <2>1. cache' = EmptyCache(cache.allocated, cache.freed) /\ phase' = "up"
    BY <1>3 DEF visual_fourier_initialize
  <2>2. cache.allocated \in 0..MaxNodes /\ cache.freed \in SUBSET Nodes  BY <1>2 DEF Caches
  <2>3. /\ ~cache'.bad /\ cache'.allocated = cache.allocated
        /\ cache'.freed = cache.freed /\ WholeList(cache', {}) /\ cache'.count = 0
        /\ cache'.index = [s \in Sizes |-> NULL]
    BY <2>1, <2>2, EmptyIs, EmptyTyped
  <2>4. Indexed' = {}  BY <2>3 DEF Indexed
  <2>5. 0 <= cache.allocated  BY <2>2
  <2> QED  BY <1>1, <2>1, <2>3, <2>4, <2>5 DEF ListInvariant
<1>4. CASE visual_fourier_deinitialize
  <2>1. phase = "up" /\ phase' = "cache_dtor" /\ le' = NULL /\ cache' = cache
    BY <1>4 DEF visual_fourier_deinitialize
  <2>2. Indexed' = Indexed  BY <2>1 DEF Indexed
  <2>3. WholeList(cache, Indexed)  BY <2>1 DEF ListInvariant
  <2>4. Indexed \in SUBSET (1..cache.allocated)
    <3> SUFFICES ASSUME NEW m \in Indexed PROVE m \in 1..cache.allocated  OBVIOUS
    <3>1. m \in Nodes /\ cache.allocated \in 0..MaxNodes  BY <1>2 DEF Indexed, Caches
    <3>2. ~(m > cache.allocated)  BY <3>1 DEF ListInvariant
    <3> QED  BY <3>1, <3>2, LimitAssumption DEF Nodes
  <2>5. NULL \notin cache.freed  BY <1>2 DEF Caches, Nodes, NULL
  <2>6. RestOfList(cache, Indexed)
    <3>1. PICK rank \in [Nodes -> Int] :
            /\ Chain(cache.head, cache.next, cache.prev, Indexed, rank)
            /\ \A m \in Indexed : cache.prev[m] \in Indexed \cup {NULL}
            /\ Indexed \cap cache.freed = {}
      BY <2>3 DEF WholeList, Whole
    <3>2. \A m \in Indexed : cache.prev[m] \notin cache.freed  BY <2>5, <3>1
    <3> HIDE DEF Indexed
    <3> QED  BY <3>1, <3>2 DEF RestOfList
  <2>7. \E C \in SUBSET (1..cache.allocated) : NULL \in C \cup {NULL} /\ RestOfList(cache, C)
    BY <2>4, <2>6
  <2> QED  BY <1>1, <2>1, <2>2, <2>7 DEF ListInvariant
<1>5. CASE cache_dtor  BY <1>1, <1>5, DtorListed
<1>6. CASE list_destroy  BY <1>1, <1>6, DestroyListed
<1>7. ASSUME NEW s \in Sizes, dft_cache_get(s) PROVE ListInvariant'
  BY <1>7, ResetListed, PutListed
<1>8. CASE UNCHANGED vars
  BY <1>1, <1>8 DEF vars, ListInvariant, Indexed
<1> QED  BY <1>3, <1>4, <1>5, <1>6, <1>7, <1>8 DEF Next

\* lv_list.c, visual_list_unchain: with no more sizes than the limit, no request
\* and no shutdown uses a list entry that is freed, in spite of the prev pointer
\* that visual_list_chain_at_begin forgets.
THEOREM NothingFreedIsUsed ==
    ASSUME RoomForAll
    PROVE  Spec => []NoBadAccess
<1>1. Init => ListInvariant  BY InitListed
<1>2. ListInvariant /\ [Next]_vars => ListInvariant'  BY NextListed
<1>3. ListInvariant => NoBadAccess  BY DEF ListInvariant, NoBadAccess
<1> QED  BY <1>1, <1>2, <1>3, PTL DEF Spec

\* A walk along next, of at most count entries of C.
WalkTo(next, C, from, to, count) ==
    \E n \in 1..count : \E walk \in [1..n -> C] :
        /\ walk[1] = from /\ walk[n] = to
        /\ \A i \in 1..n - 1 : next[walk[i]] = walk[i + 1]

\* From every entry of a whole chain the list can be walked to its tail.
LEMMA WalkExists ==
    ASSUME NEW C \in SUBSET Nodes, NEW rank \in [Nodes -> Int], NEW head, NEW tail,
           NEW next \in Links, NEW prev \in Links, NEW count \in Int,
           Chain(head, next, prev, C, rank), Whole(head, tail, next, prev, C, rank, count),
           NEW m \in C
    PROVE  WalkTo(next, C, m, tail, count)
<1> DEFINE Walk(x, n) == \E walk \in [1..n -> C] :
                            /\ walk[1] = x /\ walk[n] = tail
                            /\ \A i \in 1..n - 1 : next[walk[i]] = walk[i + 1]
           S == {k \in Nat : \A x \in C : rank[x] <= k => \E n \in 1..k : Walk(x, n)}
<1>1. \A x \in C : /\ rank[x] \in 1..count
                   /\ next[x] = NULL <=> x = tail
                   /\ next[x] # NULL => next[x] \in C /\ rank[next[x]] < rank[x]
  BY DEF Chain, Whole
<1>2. 0 \in S  BY <1>1
<1>3. ASSUME NEW k \in Nat, k \in S PROVE k + 1 \in S
  <2> SUFFICES ASSUME NEW x \in C, rank[x] <= k + 1 PROVE \E n \in 1..k + 1 : Walk(x, n)
    OBVIOUS
  <2>1. CASE next[x] = NULL
    <3> DEFINE walk == [i \in 1..1 |-> x]
    <3>1. walk \in [1..1 -> C] /\ walk[1] = x /\ x = tail  BY <1>1, <2>1
    <3> HIDE DEF walk
    <3>2. Walk(x, 1)  BY <3>1
    <3>3. 1 \in 1..k + 1  OBVIOUS
    <3> QED  BY <3>2, <3>3
  <2>2. CASE next[x] # NULL
    <3>1. next[x] \in C /\ rank[next[x]] <= k  BY <1>1, <2>2
    <3>2. PICK n \in 1..k : Walk(next[x], n)  BY <1>3, <3>1
    <3>3. PICK w \in [1..n -> C] :
            /\ w[1] = next[x] /\ w[n] = tail
            /\ \A i \in 1..n - 1 : next[w[i]] = w[i + 1]
      BY <3>2
    <3> DEFINE walk == [i \in 1..n + 1 |-> IF i = 1 THEN x ELSE w[i - 1]]
    <3>4. n \in Nat /\ n >= 1 /\ n + 1 \in 1..k + 1 /\ n + 1 # 1 /\ (n + 1) - 1 = n  BY <3>2
    <3>5. \A i \in 1..n + 1 : i # 1 => i - 1 \in 1..n  BY <3>4
    <3>6. walk \in [1..n + 1 -> C]  BY <3>3, <3>5
    <3>7. walk[1] = x /\ walk[n + 1] = tail
      <4>1. 1 \in 1..n + 1 /\ n + 1 \in 1..n + 1  BY <3>4
      <4> QED  BY <3>3, <3>4, <4>1
    <3>8. ASSUME NEW i \in 1..(n + 1) - 1 PROVE next[walk[i]] = walk[i + 1]
      <4>1. i \in 1..n + 1 /\ i + 1 \in 1..n + 1 /\ i + 1 # 1 /\ (i + 1) - 1 = i  BY <3>4
      <4>2. walk[i + 1] = w[i]
        <5> HIDE <3>3
        <5> QED  BY <4>1
      <4>3. CASE i = 1  BY <3>3, <3>7, <4>2, <4>3
      <4>4. CASE i # 1
        <5>1. walk[i] = w[i - 1] /\ i - 1 \in 1..n - 1 /\ (i - 1) + 1 = i
          BY <3>4, <4>1, <4>4
        <5>2. next[w[i - 1]] = w[(i - 1) + 1]  BY <3>3, <5>1
        <5> QED  BY <4>2, <5>1, <5>2
      <4> QED  BY <4>3, <4>4
    <3> HIDE DEF walk
    <3>9. Walk(x, n + 1)  BY <3>6, <3>7, <3>8
    <3> HIDE DEF Walk
    <3> QED  BY <3>4, <3>9
  <2> HIDE DEF Walk
  <2> QED  BY <2>1, <2>2
<1> HIDE DEF S, Walk
<1>4. \A k \in Nat : k \in S  BY <1>2, <1>3, NatSetInduction
<1>5. count \in Nat /\ rank[m] <= count  BY <1>1
<1>6. count \in S  BY <1>4, <1>5
<1>7. \E n \in 1..count : Walk(m, n)  BY <1>5, <1>6 DEF S
<1> QED  BY <1>7 DEF Walk, WalkTo

LEMMA ChainInvariant ==
    ASSUME ListInvariant
    PROVE  ListIsAChain
<1> SUFFICES ASSUME phase = "up", ~(cache.head = NULL /\ cache.tail = NULL)
             PROVE  \E n \in 1..cache.count : \E walk \in [1..n -> Indexed] :
                       /\ walk[1] = cache.head /\ walk[n] = cache.tail
                       /\ \A i \in 1..n - 1 : cache.next[walk[i]] = walk[i + 1]
                       /\ cache.next[cache.tail] = NULL
  BY DEF ListIsAChain
<1>1. /\ cache.next \in Links /\ cache.prev \in Links /\ cache.count \in Int
      /\ Indexed \in SUBSET Nodes
  BY DEF ListInvariant, CacheInvariant, TypeOK, Links, Pointers, Indexed
<1>2. PICK rank \in [Nodes -> Int] :
        /\ Chain(cache.head, cache.next, cache.prev, Indexed, rank)
        /\ Whole(cache.head, cache.tail, cache.next, cache.prev, Indexed, rank, cache.count)
  BY DEF ListInvariant, WholeList
<1> HIDE DEF Indexed
<1>3. cache.head \in Indexed /\ cache.next[cache.tail] = NULL
  BY <1>2 DEF Chain, Whole
<1>4. WalkTo(cache.next, Indexed, cache.head, cache.tail, cache.count)
  BY <1>1, <1>2, <1>3, WalkExists
<1> QED  BY <1>3, <1>4 DEF WalkTo

\* lv_list.c, visual_list_chain_at_begin: and between requests the list can be
\* walked from its head to its tail over entries of the index.
THEOREM ListStaysAChain ==
    ASSUME RoomForAll
    PROVE  Spec => []ListIsAChain
<1>1. Init => ListInvariant  BY InitListed
<1>2. ListInvariant /\ [Next]_vars => ListInvariant'  BY NextListed
<1>3. ListInvariant => ListIsAChain  BY ChainInvariant
<1> QED  BY <1>1, <1>2, <1>3, PTL DEF Spec
=============================================================================
