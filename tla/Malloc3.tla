------------------------------ MODULE Malloc3 ------------------------------
(***************************************************************************)
(* Clients of the allocators of "hw4/Part 3" and "hw4/Part 4".  The two    *)
(* programs differ by one line in three functions: part 4 rounds a size up *)
(* to a multiple of 8.  "align" says which program runs.                   *)
(*                                                                         *)
(* A call runs to its end before the next one starts; sbrk and mmap may    *)
(* fail.  After a call with a flaw (see Blocks) the model stops: from      *)
(* there on the program works on a broken structure.                       *)
(***************************************************************************)
EXTENDS Blocks

CONSTANTS
    Base,        \* where the break starts, aligned
    Alignments,  \* 1 for part 3, the multiple that part 4 rounds to
    Word,        \* size_t counts modulo Word
    Requests,    \* bound: the sizes clients ask for
    Counts       \* bound: the first arguments of scalloc

(* Arguments are of type size_t, and a header is aligned like the words    *)
(* that it consists of.                                                    *)
ASSUME MallocAssumption ==
    /\ Base \in 1..(Limit + 1) /\ Word \in Nat \ {0}
    /\ Requests \cup Counts \subseteq 0..(Word - 1)
    /\ Alignments \subseteq Nat \ {0}
    /\ \A a \in Alignments : Base % a = 0 /\ META % a = 0 /\ Word % a = 0

VARIABLES
    heap,   \* the program's globals and the headers
    owned,  \* the client's view: the size it asked for, of every block it holds
    align

vars == <<heap, owned, align>>

Init ==
    /\ heap = [metadata |-> NULL, mmap_list |-> NULL,
               histogram |-> [i \in 0..(HIST_SIZE - 1) |-> NULL],
               hdr |-> [b \in {} |-> 0], brk |-> Base,
               lost |-> 0, uninit |-> NULL, flaws |-> {}]
    /\ owned = [p \in {} |-> 0]
    /\ align \in Alignments

Unrounded(size) == size  \* mutant
Rounded(size) == (size + ((align - (size % align)) % align)) % Word

(* Headers that no list reaches are memory like any other again. *)
Forget(h) ==
    [h EXCEPT !.uninit = NULL,
              !.hdr = IF h.flaws = {} THEN [b \in Listed(h) |-> @[b]] ELSE @]

(* A call starts in a sound heap; what it finds in memory that it does not *)
(* initialise is zero or anything.                                         *)
Starts(u) == [heap EXCEPT !.uninit = u]

Own(ps, p, n) == [q \in ps \cup {p} |-> IF q = p THEN n ELSE owned[q]]

Returns(r, given, n) ==
    /\ heap' = Forget(r.heap)
    /\ owned' = IF r.ptr = NULL THEN owned ELSE Own(DOMAIN owned \ {given}, r.ptr, n)
    /\ UNCHANGED align

Malloc(size) ==
    \E u \in {NULL, Junk} : \E r \in smalloc(Starts(u), Rounded(size)) : Returns(r, NULL, size)

(* The product is taken modulo Word; the client counts on num * size bytes. *)
Calloc(num, size) ==
    LET s == Rounded(size)
        n == (num * s) % Word
    IN /\ s # 0 /\ n <= MAX_SIZE
       /\ \E u \in {NULL, Junk} : \E r \in smalloc(Starts(u), Rounded(n)) :
            Returns(Result(FlawIf(r.ptr # NULL /\ n < num * size, r.heap, "wrap"), r.ptr),
                    NULL, num * size)

Release(p) ==
    /\ heap' = Forget(sfree(heap, p))
    /\ owned' = [q \in DOMAIN owned \ {p} |-> owned[q]]
    /\ UNCHANGED align

Realloc(p, size) ==
    \E u \in {NULL, Junk} : \E r \in srealloc(Starts(u), p, Rounded(size)) : Returns(r, p, size)

Next ==
    /\ heap.flaws = {}
    /\ \/ \E size \in Requests : Malloc(size)
       \/ \E num \in Counts, size \in Requests : Calloc(num, size)
       \/ \E p \in DOMAIN owned : Release(p)
       \/ \E p \in DOMAIN owned \cup {NULL}, size \in Requests : Realloc(p, size)

Spec == Init /\ [][Next]_vars

-----------------------------------------------------------------------------
(* The counters, each a walk over one list or both. *)

List == Chain(heap, heap.metadata, "next")
Mapped == Chain(heap, heap.mmap_list, "next")
FreeBlocks == {b \in List : heap.hdr[b].is_free}
SizeOf(blocks) == MapThenSumSet(LAMBDA b : heap.hdr[b].size, blocks)

num_free_blocks      == Cardinality(FreeBlocks)
num_free_bytes       == SizeOf(FreeBlocks)
num_allocated_blocks == Cardinality(List \cup Mapped)
num_allocated_bytes  == SizeOf(List) + SizeOf(Mapped)
num_meta_data_bytes  == num_allocated_blocks * META
MappedBytes          == SizeOf(Mapped) + META * Cardinality(Mapped)

-----------------------------------------------------------------------------
(* Properties. *)

Pointer == Nat \cup {Junk}
MallocMetadata == [size : Nat, is_free : BOOLEAN, next : Nat, prev : Nat, addr : Nat,
                   hist_prev : Pointer, hist_next : Pointer]
Sound == heap.flaws = {}

(* A call with a flaw may write anything anywhere: "heap" keeps its types  *)
(* up to it, the client's view for ever.                                   *)
TypeOK ==
    /\ owned \in [DOMAIN owned -> Nat] /\ align \in Alignments
    /\ Sound => /\ heap.histogram \in [0..(HIST_SIZE - 1) -> Pointer]
                /\ heap.hdr \in [DOMAIN heap.hdr -> MallocMetadata]
                /\ heap.brk \in Base..(Limit + 1) /\ heap.lost \in Nat

(* However blocks were split, merged, extended and reallocated, the list   *)
(* is in the order of the addresses, linked both ways, and no block        *)
(* reaches into the next header or past the break.                         *)
BlocksApart ==
    Sound => \A b \in List :
        LET n == heap.hdr[b].next IN
        /\ b + META + heap.hdr[b].size <= IF n = NULL THEN heap.brk ELSE n
        /\ n # NULL => heap.hdr[n].prev = b

(* The counters say what the client holds, and account for every byte      *)
(* below the break, but for what a failed or a clumsy extension gave up.   *)
CountersAgree ==
    Sound =>
      /\ num_allocated_blocks - num_free_blocks = Cardinality(DOMAIN owned)
      /\ Base + num_allocated_bytes + num_meta_data_bytes + heap.lost
            = heap.brk + MappedBytes

(* The histogram offers the free blocks, all of them and no other, each in *)
(* the bucket of its size, from the smallest on: first fit is best fit.    *)
Bucket(i) == Chain(heap, heap.histogram[i], "hist_next")
HistogramIsFreeBlocks ==
    Sound =>
      /\ \A i \in 0..(HIST_SIZE - 1) :
            Bucket(i) = {b \in FreeBlocks : histogramIndex(heap.hdr[b].size) = i}
      /\ \A b \in FreeBlocks :
            LET n == heap.hdr[b].hist_next IN
            n # NULL => heap.hdr[b].size <= heap.hdr[n].size /\ heap.hdr[n].hist_prev = b

(* No two neighbours are free: splitBlock and sfree unite what they free   *)
(* "to prevent unmerged fragmentation".  The README of part 3 says that    *)
(* two free blocks stay apart after a split, as does the comment of        *)
(* testNoRecMerge; the string that this test expects has them united.      *)
Coalesced ==
    Sound => \A b \in FreeBlocks : heap.hdr[b].next \notin FreeBlocks

(* The blocks in use, mapped or not, are those the client holds, each at   *)
(* the address behind its header and as large as it was asked to be; in    *)
(* part 4 the addresses below the break are multiples of the alignment,    *)
(* whatever was split off, merged or extended before.                      *)
HeldAreUsed ==
    Sound =>
      /\ {heap.hdr[b].addr : b \in (List \ FreeBlocks) \cup Mapped} = DOMAIN owned
      /\ \A p \in DOMAIN owned :
            /\ p - META \in List \cup Mapped /\ heap.hdr[p - META].size >= owned[p]
            /\ p <= Limit => p % align = 0

(* What a client may rely on, until a call does a flaw: the blocks that it *)
(* holds do not overlap, and every call is one of Heap's or changes        *)
(* nothing.  The bytes of the blocks are left out; each counts as 0.       *)
(* Addresses have no bound here, so it takes a proof and not TLC.          *)
Live == [p \in DOMAIN owned |->
           [size |-> owned[p], data |-> [i \in 0..(owned[p] - 1) |-> 0]]]
TheHeap == INSTANCE Heap WITH Pointers <- Nat, Sizes <- 1..MAX_SIZE, Bytes <- {0}, live <- Live
ImplementsHeap == TheHeap!Init /\ [][Sound' => TheHeap!Next]_Live

(* "We need to check if the histogram has any appropriate blocks": smalloc *)
(* takes what it finds there, so no block in use may be there.             *)
BucketsOfferFreeBlocks ==
    \A i \in DOMAIN heap.histogram :
        heap.histogram[i] # NULL => heap.hdr[heap.histogram[i]].is_free
=============================================================================
