------------------------------ MODULE VisCache ------------------------------
(***************************************************************************)
(* The cache of libvisual/lv_cache.c as lv_fourier.c uses it: a list of    *)
(* entries with a limit, an index by key, and a list that is reordered at  *)
(* every request.  The list is modelled with its pointers (lv_list.c),     *)
(* since visual_list_chain_at_begin does not set all of them.  The index   *)
(* is a function: a key is put only when it is absent, and the table is    *)
(* never resized once it holds entries.                                    *)
(***************************************************************************)
EXTENDS Integers, FiniteSets

CONSTANTS
    Sizes,    \* the spectrum sizes that are asked for, the keys of the cache
    Limit,    \* cache->size, 50 in lv_fourier.c
    MaxNodes  \* bound of this model: list entries that are ever allocated

ASSUME LimitAssumption == Limit \in Nat \ {0} /\ MaxNodes \in Nat

NULL == 0
Nodes == 1..MaxNodes

VARIABLES
    cache, \* the list, with its pointers, and the index
    phase, \* "down", "up", or the walk of the shutdown that is going on
    le     \* the cursor of that walk

vars == <<cache, phase, le>>

\* freed: list entries given back to the allocator; bad: one was used after it.
EmptyCache(allocated, freed) ==
    [head |-> NULL, tail |-> NULL, count |-> 0,
     next |-> [n \in Nodes |-> NULL], prev |-> [n \in Nodes |-> NULL],
     key |-> [n \in Nodes |-> NULL], index |-> [s \in Sizes |-> NULL],
     allocated |-> allocated, freed |-> freed, bad |-> FALSE]

Touch(c, ns) == [c EXCEPT !.bad = @ \/ ns \cap c.freed # {}]

With(f, n, v) == IF n = NULL THEN f ELSE [f EXCEPT ![n] = v]

\* A slip: the next entry keeps its prev pointer.
UnchainKeepsPrev(c, n) ==
    LET p == c.prev[n]
        x == c.next[n]
    IN  Touch([c EXCEPT !.next = With(@, p, x), !.head = IF p = NULL THEN x ELSE @,
                        !.tail = IF x = NULL THEN p ELSE @, !.count = @ - 1],
              {n, p, x})

visual_list_unchain(c, n) ==
    LET p == c.prev[n]
        x == c.next[n]
    IN  Touch([c EXCEPT !.next = With(@, p, x), !.head = IF p = NULL THEN x ELSE @,
                        !.prev = With(@, x, p), !.tail = IF x = NULL THEN p ELSE @,
                        !.count = @ - 1],
              {n, p, x})

\* A slip: the only entry is not made the tail.
ChainLosesTail(c, n) ==
    Touch([c EXCEPT !.next[n] = c.head, !.prev[n] = NULL, !.head = n, !.count = @ + 1], {n})

\* The entry that was the head keeps its old prev pointer.
visual_list_chain_at_begin(c, n) ==
    Touch([c EXCEPT !.next[n] = c.head, !.prev[n] = NULL,
                    !.head = n, !.tail = IF c.head = NULL THEN n ELSE @, !.count = @ + 1],
          {n})

visual_list_chain(c, n) ==
    Touch([c EXCEPT !.next = With([@ EXCEPT ![n] = NULL], IF c.head = NULL THEN NULL ELSE c.tail, n),
                    !.prev[n] = IF c.head = NULL THEN NULL ELSE c.tail,
                    !.head = IF @ = NULL THEN n ELSE @, !.tail = n, !.count = @ + 1],
          {n, c.tail})

cache_remove_list_entry(c, n) ==
    LET d == visual_list_unchain([c EXCEPT !.index[c.key[n]] = NULL], n)
    IN  [d EXCEPT !.freed = @ \cup {n}]

handle_request_reset(c, n) == visual_list_chain_at_begin(visual_list_unchain(c, n), n)

\* A slip: room is made for one entry too many.
RoomMadeEarly(c) ==
    IF c.count > Limit - 2 /\ c.tail # NULL THEN cache_remove_list_entry(c, c.tail) ELSE c

\* Room is made at the tail of the list, one entry at most.
RoomMade(c) ==
    IF c.count > Limit - 1 /\ c.tail # NULL THEN cache_remove_list_entry(c, c.tail) ELSE c

visual_cache_put(c, s) ==
    LET d == RoomMade(c)
        n == d.allocated + 1
    IN  IF d.count > Limit - 1 THEN d
        ELSE visual_list_chain([d EXCEPT !.allocated = n, !.key[n] = s, !.index[s] = n], n)

Init == cache = EmptyCache(0, {}) /\ phase = "down" /\ le = NULL

visual_fourier_initialize ==
    /\ phase = "down" /\ phase' = "up"
    /\ cache' = EmptyCache(cache.allocated, cache.freed)
    /\ le' = NULL

\* The tables of a size, from the cache or made anew.
dft_cache_get(s) ==
    /\ phase = "up"
    /\ IF cache.index[s] # NULL
       THEN cache' = handle_request_reset(cache, cache.index[s])
       ELSE cache.allocated < MaxNodes /\ cache' = visual_cache_put(cache, s)
    /\ UNCHANGED <<phase, le>>

visual_fourier_deinitialize ==
    /\ phase = "up" /\ phase' = "cache_dtor" /\ le' = NULL
    /\ UNCHANGED cache

NextOf(n) == IF n = NULL THEN cache.head ELSE cache.next[n]

cache_dtor ==
    /\ phase = "cache_dtor"
    /\ LET n == NextOf(le)
           c == Touch(cache, {le, n})
       IN  IF n = NULL
           THEN phase' = "list_destroy" /\ le' = NULL /\ cache' = c
           ELSE cache' = cache_remove_list_entry(c, n) /\ le' = c.next[n] /\ UNCHANGED phase

list_destroy ==
    /\ phase = "list_destroy"
    /\ LET n == NextOf(le)
           c == Touch(cache, {le, n})
           d == visual_list_unchain(c, n)
       IN  IF n = NULL
           THEN phase' = "down" /\ le' = NULL /\ cache' = c
           ELSE cache' = [d EXCEPT !.freed = @ \cup {n}] /\ le' = c.next[n] /\ UNCHANGED phase

Next ==
    \/ visual_fourier_initialize \/ visual_fourier_deinitialize \/ cache_dtor \/ list_destroy
    \/ \E s \in Sizes : dft_cache_get(s)

Spec == Init /\ [][Next]_vars
-----------------------------------------------------------------------------
Indexed == {cache.index[s] : s \in Sizes} \ {NULL}

TypeOK ==
    /\ cache \in [head : Nodes \cup {NULL}, tail : Nodes \cup {NULL}, count : Int,
                  next : [Nodes -> Nodes \cup {NULL}], prev : [Nodes -> Nodes \cup {NULL}],
                  key : [Nodes -> Sizes \cup {NULL}], index : [Sizes -> Nodes \cup {NULL}],
                  allocated : 0..MaxNodes, freed : SUBSET Nodes, bad : BOOLEAN]
    /\ phase \in {"down", "up", "cache_dtor", "list_destroy"}
    /\ le \in Nodes \cup {NULL}

\* As long as there is room for all sizes no request and no step of a shutdown
\* uses a list entry that is freed, though the pointers of the list are not
\* what visual_list_unchain takes them for.
NoBadAccess == ~cache.bad

\* The entries that the list still holds form a chain from its head to its
\* tail, all of them in the index: no request makes it a ring, or leaves the
\* tail, where the next entry is added and room is made, outside of it.
ListIsAChain ==
    phase = "up" =>
        \/ cache.head = NULL /\ cache.tail = NULL
        \/ \E n \in 1..cache.count : \E walk \in [1..n -> Indexed] :
              /\ walk[1] = cache.head /\ walk[n] = cache.tail
              /\ \A i \in 1..n - 1 : cache.next[walk[i]] = walk[i + 1]
              /\ cache.next[cache.tail] = NULL

\* lv_cache.h:61: the cache indexes "the cache items two times ... because we
\* both need fast access to a sorted version and fast access by name": what can
\* be found by name is in the list.
ListHoldsAll ==
    phase = "up" =>
        \A n \in Indexed : n = cache.head \/ \E m \in Indexed : cache.next[m] = n

\* The tables of a size are made once: they are not put out before the library
\* is shut down.
Memo == INSTANCE VisMemo WITH
            known <- IF phase = "up" THEN {s \in Sizes : cache.index[s] # NULL} ELSE {},
            up    <- phase = "up"
TablesAreKept == Memo!Spec
=============================================================================
