------------------------------- MODULE Blocks -------------------------------
(***************************************************************************)
(* The functions of "hw4/Part 3/malloc_3.cpp" on a heap: the list of       *)
(* blocks, the histogram of free blocks by size, the list of mapped        *)
(* blocks.  A heap is a record; a function of the code maps a heap to the  *)
(* heap it leaves, or to the set of its outcomes when sbrk or mmap may     *)
(* fail.  "hw4/Part 4/malloc_4.cpp" has the same functions.                *)
(*                                                                         *)
(* "flaws" records on the way where a call does what its authors did not   *)
(* mean, each at the line that does it; the functions still go on as the   *)
(* code does.                                                              *)
(***************************************************************************)
EXTENDS Integers, FiniteSets, FiniteSetsExt

CONSTANTS
    META,       \* sizeof(MallocMetadata)
    MAX_SIZE,   \* the greatest request
    HIST_SIZE,  \* the buckets of the histogram
    KILOBYTE,   \* sizes per bucket
    SPLIT,      \* the least remainder that is split off, 128 in the code
    Limit,      \* bound: the break never passes it
    Maps        \* bound: the number of mapped blocks

ASSUME BlocksAssumption ==
    /\ {META, MAX_SIZE, HIST_SIZE, KILOBYTE, SPLIT} \subseteq Nat \ {0}
    /\ Limit \in Nat /\ Maps \in Nat

MAP_MIN == HIST_SIZE * KILOBYTE
NULL == 0
Junk == -1  \* a pointer read from memory that nobody has initialised

Flaw(h, f) == [h EXCEPT !.flaws = @ \cup {f}]
FlawIf(c, h, f) == IF c THEN Flaw(h, f) ELSE h

(* A header is written at address b. *)
Write(hdr, b, header) ==
    [x \in DOMAIN hdr \cup {b} |-> IF x = b THEN header ELSE hdr[x]]

(* The blocks of a list, from block b on. *)
Chain(h, b, link) ==
    LET c[x \in DOMAIN h.hdr] ==
          {x} \cup IF h.hdr[x][link] \in DOMAIN h.hdr THEN c[h.hdr[x][link]] ELSE {}
    IN IF b \in DOMAIN h.hdr THEN c[b] ELSE {}

Last(h, b, link) == CHOOSE x \in Chain(h, b, link) : h.hdr[x][link] \notin DOMAIN h.hdr

(* The walk from block b along a link: whether there is a block of at      *)
(* least size bytes, and the first one, behind which the others are, or    *)
(* else the last block.                                                    *)
Walk(h, b, size, link) ==
    LET fit == {x \in Chain(h, b, link) : h.hdr[x].size >= size}
    IN IF fit = {} THEN <<FALSE, Last(h, b, link)>>
       ELSE <<TRUE, CHOOSE x \in fit : fit \subseteq Chain(h, x, link)>>

Listed(h) == Chain(h, h.metadata, "next") \cup Chain(h, h.mmap_list, "next")

-----------------------------------------------------------------------------
(* The histogram. *)

histogramIndex(size) == Min({size \div KILOBYTE, HIST_SIZE - 1})

Starting(h, i, b) == [h EXCEPT !.histogram[i] = b]

(* p and n become neighbours in bucket i. *)
Join(h, i, p, n) ==
    LET g == IF p = NULL THEN Starting(h, i, n)
                         ELSE [h EXCEPT !.hdr[p].hist_next = n]
    IN IF Junk \in {p, n} THEN Flaw(h, "junk")
       ELSE IF n = NULL THEN g ELSE [g EXCEPT !.hdr[n].hist_prev = p]

(* The removal of a block that is in no bucket empties its bucket. *)
histogramRemove(h, b) ==
    LET p == h.hdr[b].hist_prev
        n == h.hdr[b].hist_next
        i == histogramIndex(h.hdr[b].size)
    IN FlawIf(p = NULL /\ h.histogram[i] \notin {b, NULL},
              [Join(h, i, p, n) EXCEPT !.hdr[b].hist_prev = NULL, !.hdr[b].hist_next = NULL],
              "absent")

(* The place in the bucket is looked for along next, the list of all       *)
(* blocks; the right one is found along hist_next.                         *)
InsertAt(h, i, b, place, right) ==
    LET at == place[2]
        g  == FlawIf(h.flaws = {} /\ place # right, h, "order")
    IN IF ~place[1] THEN Join(Join(g, i, at, b), i, b, NULL)
       ELSE IF h.hdr[at].hist_prev = NULL
            THEN Starting(Join(g, i, b, at), i, b)
            ELSE Join(Join(g, i, h.hdr[at].hist_prev, b), i, b, at)
histogramInsert(h, b) ==
    LET size  == h.hdr[b].size
        i     == histogramIndex(size)
        first == h.histogram[i]
    IN IF first = NULL THEN Starting(h, i, b)
       ELSE InsertAt(h, i, b, Walk(h, first, size, "next"), Walk(h, first, size, "hist_next"))

-----------------------------------------------------------------------------
(* Merging and splitting. *)

(* Block a takes in block b, the next one of the list. *)
AbsorbPayload(h, a, b) ==  \* mutant: the swallowed header is not counted
    LET n == h.hdr[b].next
        g == [h EXCEPT !.hdr[a].size = @ + h.hdr[b].size, !.hdr[a].next = n]
    IN IF n = NULL THEN g ELSE [g EXCEPT !.hdr[n].prev = a]
AbsorbForward(h, a, b) ==  \* mutant: the next block's prev is not set
    [h EXCEPT !.hdr[a].size = @ + META + h.hdr[b].size, !.hdr[a].next = h.hdr[b].next]
Absorb(h, a, b) ==
    LET n == h.hdr[b].next
        g == [h EXCEPT !.hdr[a].size = @ + META + h.hdr[b].size, !.hdr[a].next = n]
    IN IF n = NULL THEN g ELSE [g EXCEPT !.hdr[n].prev = a]

Free(h, b) == b # NULL /\ h.hdr[b].is_free

uniteNext(h, b) ==
    LET n == h.hdr[b].next IN
    IF Free(h, n)
    THEN histogramInsert(Absorb(histogramRemove(histogramRemove(h, b), n), b, n), b)
    ELSE h
unitePrevious(h, b) ==
    LET p == h.hdr[b].prev IN
    IF Free(h, p)
    THEN histogramInsert(Absorb(histogramRemove(histogramRemove(h, b), p), p, b), p)
    ELSE h
uniteForward(h, b) == uniteNext(h, b)  \* mutant
uniteBlock(h, b) == unitePrevious(uniteNext(h, b), b)

(* The remainder is written behind what the block hands out, not behind    *)
(* its header.  Its allocated_addr is computed on a pointer to headers,    *)
(* not to bytes, and its histogram links are not set before it is inserted. *)
RestOf(h, b, size) == h.hdr[b].addr + size
Cut(h, b, size) ==
    LET r == RestOf(h, b, size)
        n == h.hdr[b].next
        remainder == [size |-> h.hdr[b].size - size - META, is_free |-> TRUE,
                      next |-> n, prev |-> b, addr |-> r + META * META,
                      hist_prev |-> h.uninit, hist_next |-> h.uninit]
        short == [h EXCEPT !.hdr[b].size = size, !.hdr[b].next = r]
        linked == IF n = NULL THEN short ELSE [short EXCEPT !.hdr[n].prev = r]
    IN [linked EXCEPT !.hdr = Write(@, r, remainder)]
splitBlock(h, b, size) ==
    LET g == FlawIf(h.hdr[b].addr # b + META, histogramRemove(h, b), "remainder")
        r == RestOf(g, b, size)
        in == histogramInsert(histogramInsert(Cut(g, b, size), b), r)
    IN uniteBlock(FlawIf(Junk \in {in.hdr[r].hist_prev, in.hdr[r].hist_next}, in, "junk"), r)

LongEnough(h, b, size) == h.hdr[b].size >= SPLIT + size + META
SplitIfLong(h, b, size) == IF LongEnough(h, b, size) THEN splitBlock(h, b, size) ELSE h

-----------------------------------------------------------------------------
(* Mapped blocks. *)

Result(h, p) == [heap |-> h, ptr |-> p]

(* The address that a block hands out may be that of a split remainder. *)
HandOut(h, b) ==
    Result(FlawIf(h.hdr[b].addr # b + META, h, "remainder"), h.hdr[b].addr)

Header(size, addr, prev) ==
    [size |-> size, is_free |-> FALSE, next |-> NULL, prev |-> prev, addr |-> addr,
     hist_prev |-> NULL, hist_next |-> NULL]

(* A new block, the last of the list that starts at first. *)
AddLast(h, first, b, size) ==
    LET last == IF first = NULL THEN NULL ELSE Last(h, first, "next")
        g == [h EXCEPT !.hdr = Write(@, b, Header(size, b + META, last))]
    IN IF last = NULL THEN g ELSE [g EXCEPT !.hdr[last].next = b]

InMap(h, b) == b > Limit

allocateNewMap(h, size) ==
    LET count == Cardinality({b \in DOMAIN h.hdr : InMap(h, b)})
        b == Limit + 1 + count * (META + MAX_SIZE)
        g == AddLast(h, h.mmap_list, b, size)
    IN {Result(h, NULL)}
       \cup IF count < Maps
            THEN {Result([g EXCEPT !.mmap_list = IF @ = NULL THEN b ELSE @], b + META)}
            ELSE {}

(* munmap gets an address that starts no page and fails. *)
freeInMap(h, p) ==
    LET b == p - META IN
    IF b \notin Chain(h, h.mmap_list, "next") THEN h
    ELSE LET prev == h.hdr[b].prev
             next == h.hdr[b].next
             g == IF prev = NULL THEN [h EXCEPT !.mmap_list = next]
                                 ELSE [h EXCEPT !.hdr[prev].next = next]
         IN Flaw(IF next = NULL THEN g ELSE [g EXCEPT !.hdr[next].prev = prev], "map")

-----------------------------------------------------------------------------
(* The interface. *)

(* The buckets from that of size on that hold a block which is large enough. *)
Fitting(h, size) ==
    {i \in histogramIndex(size)..(HIST_SIZE - 1) :
        h.histogram[i] # NULL /\ Walk(h, h.histogram[i], size, "hist_next")[1]}

TakeOffered(h, b, size) ==  \* mutant: stays in the histogram
    HandOut(SplitIfLong([h EXCEPT !.hdr[b].is_free = FALSE], b, size), b)
Take(h, b, size) ==
    LET used == [h EXCEPT !.hdr[b].is_free = FALSE]
    IN HandOut(histogramRemove(SplitIfLong(used, b, size), b), b)

GrownTwice(h, b, size) ==  \* mutant: sbrk gets the whole size
    [h EXCEPT !.hdr[b].size = size, !.hdr[b].is_free = FALSE, !.brk = @ + size]
Grown(h, b, size) ==
    [h EXCEPT !.hdr[b].size = size, !.hdr[b].is_free = FALSE,
              !.brk = @ + size - h.hdr[b].size]
Room(h, n) == h.brk + n <= Limit + 1

ExtendWilderness(h, b, size) ==
    {Result(h, NULL)}
    \cup IF Room(h, size - h.hdr[b].size)
         THEN {HandOut(Grown(histogramRemove(h, b), b, size), b)}
         ELSE {}

(* One sbrk for the header, one for the block. *)
NewBlock(h, size) ==
    LET b == h.brk
        g == AddLast(h, h.metadata, b, size)
    IN {Result(h, NULL)}
       \cup (IF Room(h, META) THEN {Result([h EXCEPT !.brk = b + META, !.lost = @ + META], NULL)} ELSE {})
       \cup (IF Room(h, META + size)
             THEN {Result([g EXCEPT !.brk = b + META + size,
                                    !.metadata = IF @ = NULL THEN b ELSE @], b + META)}
             ELSE {})

smalloc(h, size) ==
    IF size = 0 \/ size > MAX_SIZE THEN {Result(h, NULL)}
    ELSE IF size >= MAP_MIN THEN allocateNewMap(h, size)
    ELSE IF Fitting(h, size) # {}
         THEN LET i == Min(Fitting(h, size)) IN
              {Take(h, Walk(h, h.histogram[i], size, "hist_next")[2], size)}
    ELSE IF h.metadata # NULL /\ Free(h, Last(h, h.metadata, "next"))
         THEN ExtendWilderness(h, Last(h, h.metadata, "next"), size)
    ELSE NewBlock(h, size)

sfree(h, p) ==
    LET b == p - META
        g == [freeInMap(h, p) EXCEPT !.hdr[b].is_free = TRUE]
    IN uniteBlock(histogramInsert(g, b), b)

(* srealloc to a mapped block: memcpy faults when the mapping fails. *)
MoveToMap(h, p, size) ==
    {IF r.ptr = NULL THEN Result(Flaw(r.heap, "fault"), NULL)
                     ELSE Result(sfree(r.heap, p), r.ptr) : r \in allocateNewMap(h, size)}

(* The end of the growing branches: block b is to hold the bytes of block  *)
(* c, which is freed unless it is b or was overwritten.  A split leaves b, *)
(* in use, in the histogram; a c that b has taken in is not a block to be  *)
(* freed.                                                                  *)
Settle(h, b, c, size, overwrite) ==
    LET used == [h EXCEPT !.hdr[b].is_free = FALSE]
        g == FlawIf(LongEnough(used, b, size), SplitIfLong(used, b, size), "split")
        moved == ~overwrite /\ g.hdr[c].addr # g.hdr[b].addr
        done == IF moved THEN FlawIf(c \notin Listed(h), sfree(g, c + META), "phantom") ELSE g
    IN HandOut(done, b)

Grow(h, c, size) ==
    LET cur == h.hdr[c]
        p == cur.prev
        n == cur.next
        overwrite == size > h.hdr[p].size
        withPrevious == Absorb(histogramRemove(histogramRemove(h, p), c), p, c)
    IN IF Free(h, p) /\ h.hdr[p].size + cur.size >= size
       THEN {Settle(withPrevious, p, c, size, overwrite)}
       ELSE IF Free(h, n) /\ h.hdr[n].size + cur.size >= size
       THEN {Settle(Absorb(histogramRemove(histogramRemove(h, n), c), c, n), c, c, size, FALSE)}
       ELSE IF Free(h, n) /\ Free(h, p) /\ h.hdr[p].size + cur.size + h.hdr[n].size >= size
       THEN {Settle(Absorb(Absorb(histogramRemove(histogramRemove(histogramRemove(h, p), c), n),
                                  p, c), p, n), p, c, size, overwrite)}
       ELSE IF n = NULL /\ Free(h, p)
       THEN {Result(Flaw(withPrevious, "united"), NULL)}
            \cup IF Room(h, size - cur.size)
                 THEN {Settle([withPrevious EXCEPT !.hdr[p].size = size,
                                 !.brk = @ + size - cur.size,
                                 !.lost = @ + h.hdr[p].size + META], p, c, size, overwrite)}
                 ELSE {}
       ELSE IF n = NULL
       THEN {Result(h, NULL)}
            \cup IF Room(h, size - cur.size)
                 THEN {Settle(Grown(histogramRemove(h, c), c, size), c, c, size, FALSE)}
                 ELSE {}
       ELSE {IF r.ptr = NULL \/ r.heap.flaws # {} THEN r
             ELSE Settle(r.heap, r.ptr - META, c, size, FALSE) : r \in smalloc(h, size)}

Shrink(h, c, size) ==
    LET used == [h EXCEPT !.hdr[c].is_free = FALSE]
        g == histogramRemove(SplitIfLong(used, c, size), c)
    IN Result(FlawIf(InMap(h, c) /\ LongEnough(h, c, size), g, "map"), g.hdr[c].addr)

srealloc(h, p, size) ==
    LET c == p - META IN
    IF size = 0 \/ size > MAX_SIZE THEN {Result(h, NULL)}
    ELSE IF p = NULL THEN smalloc(h, size)
    ELSE IF h.hdr[c].size < size
         THEN IF size >= MAP_MIN /\ h.hdr[c].size >= MAP_MIN
              THEN MoveToMap(h, p, size)
              ELSE Grow(h, c, size)
    ELSE IF size >= MAP_MIN THEN MoveToMap(h, p, size)
    ELSE {Shrink(h, c, size)}
=============================================================================
