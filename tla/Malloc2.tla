------------------------------ MODULE Malloc2 ------------------------------
(***************************************************************************)
(* The allocator of "hw4/Part 2/malloc_2.cpp": a list of blocks in the     *)
(* area that sbrk extends, each behind its header; a request takes the     *)
(* first free block that is large enough or extends the area.  A call runs *)
(* to its end before the next one starts (the code has no locks), but each *)
(* of its sbrk calls may fail.                                             *)
(***************************************************************************)
EXTENDS Integers, Sequences, FiniteSets, FiniteSetsExt

CONSTANTS
    META,      \* sizeof(MallocMetadata)
    MAX_SIZE,  \* the greatest request
    Word,      \* size_t counts modulo Word
    Limit,     \* bound: the break never passes it
    Requests,  \* bound: the sizes clients ask for
    Counts,    \* bound: the first arguments of scalloc
    Bytes      \* values of a byte

ASSUME MallocAssumption ==
    /\ META \in Nat \ {0} /\ MAX_SIZE \in Nat \ {0} /\ Word \in Nat \ {0} /\ Limit \in Nat
    /\ Requests \subseteq Nat /\ Counts \subseteq Nat
    /\ 0 \in Bytes

NULL == 0
Base == 1  \* where the break starts

VARIABLES
    list,  \* the list that metadata points to, in its order
    brk,   \* the break
    mem,   \* the byte at every address
    owned  \* the client's view: the size it asked for, of every block it holds

vars == <<list, brk, mem, owned>>

Addresses == Base..Limit

Block == [addr : Addresses, size : Nat \ {0}, is_free : BOOLEAN]

TypeOK == /\ list \in Seq(Block)
          /\ brk \in Base..(Limit + 1)
          /\ mem \in [Addresses -> Bytes]
          /\ DOMAIN owned \subseteq Addresses
          /\ owned \in [DOMAIN owned -> Nat \ {0}]

Init == /\ list = <<>>
        /\ brk = Base
        /\ mem = [a \in Addresses |-> 0]
        /\ owned = [p \in {} |-> 0]

(* sbrk(n) can succeed: the bytes from the break on exist. *)
Room(n) == brk + n <= Limit + 1

-----------------------------------------------------------------------------
(* smalloc: the possible outcomes of a call, each with the list and the    *)
(* break it leaves and the pointer it returns.                             *)

Fits(i, size) == list[i].is_free /\ list[i].size >= size

FirstFit(size) ==
    {i \in DOMAIN list : Fits(i, size) /\ \A k \in 1..(i - 1) : ~Fits(k, size)}

Outcome(l, b, p) == [list |-> l, brk |-> b, ptr |-> p]
Fails == Outcome(list, brk, NULL)

ReuseFree(i) == Outcome(list, brk, list[i].addr)  \* mutant: is_free stays true
Reuse(i) == Outcome([list EXCEPT ![i] = [@ EXCEPT !.is_free = FALSE]], brk, list[i].addr)

(* Two calls of sbrk, for the header and for the block. *)
NewBlock(size) == [addr |-> brk + META, size |-> size, is_free |-> FALSE]
ExtendOnce(size) ==  \* mutant: one sbrk for both, of the size of the block
    {Fails} \cup IF Room(META + size)
                 THEN {Outcome(Append(list, NewBlock(size)), brk + size, brk + META)}
                 ELSE {}
Extend(size) ==
    {Fails}
    \cup (IF Room(META) THEN {Outcome(list, brk + META, NULL)} ELSE {})
    \cup (IF Room(META + size)
          THEN {Outcome(Append(list, NewBlock(size)), brk + META + size, brk + META)}
          ELSE {})

smallocAnySize(size) ==  \* mutant: does not refuse 0
    IF size > MAX_SIZE THEN {Fails}
    ELSE IF \E i \in DOMAIN list : Fits(i, size)
         THEN {Reuse(i) : i \in FirstFit(size)}
         ELSE Extend(size)
smalloc(size) ==
    IF size = 0 \/ size > MAX_SIZE THEN {Fails}
    ELSE IF \E i \in DOMAIN list : Fits(i, size)
         THEN {Reuse(i) : i \in FirstFit(size)}
         ELSE Extend(size)

-----------------------------------------------------------------------------
(* The calls of a client. *)

Own(p, n) == [q \in DOMAIN owned \cup {p} |-> IF q = p THEN n ELSE owned[q]]
Disown(p) == [q \in DOMAIN owned \ {p} |-> owned[q]]

Malloc(size) ==
    \E r \in smalloc(size) :
      /\ list' = r.list /\ brk' = r.brk
      /\ owned' = IF r.ptr = NULL THEN owned ELSE Own(r.ptr, size)
      /\ UNCHANGED mem

(* scalloc: the product is taken modulo Word; the client counts on         *)
(* num * size bytes.                                                       *)
Product(num, size) == (num * size) % Word

Calloc(num, size) ==
    LET n == Product(num, size) IN
    \E r \in IF size = 0 \/ n > MAX_SIZE THEN {Fails} ELSE smalloc(n) :
      /\ list' = r.list /\ brk' = r.brk
      /\ owned' = IF r.ptr = NULL THEN owned ELSE Own(r.ptr, num * size)
      /\ mem' = [a \in Addresses |->
                   IF r.ptr # NULL /\ a \in r.ptr..(r.ptr + n - 1) THEN 0 ELSE mem[a]]

SetFree(l, p) ==
    [i \in DOMAIN l |-> IF l[i].addr = p THEN [l[i] EXCEPT !.is_free = TRUE] ELSE l[i]]

(* sfree of a block the client holds, or of one already free. *)
Free(p) ==
    /\ p \in DOMAIN owned \/ \E i \in DOMAIN list : list[i].addr = p /\ list[i].is_free
    /\ list' = SetFree(list, p)
    /\ owned' = Disown(p)
    /\ UNCHANGED <<brk, mem>>

(* srealloc: the block is large enough, ... *)
Stay(i, size) ==
    /\ list[i].size >= size
    /\ owned' = Own(list[i].addr, size)
    /\ UNCHANGED <<list, brk, mem>>

(* ... or another one is allocated, filled with the whole block, and the   *)
(* block is freed.                                                         *)
CopyNothing(from, to, n) == mem  \* mutant: no memcpy
Copy(from, to, n) ==
    [a \in Addresses |-> IF a \in to..(to + n - 1) THEN mem[from + (a - to)] ELSE mem[a]]

Move(i, size) ==
    /\ list[i].size < size
    /\ \E r \in smalloc(size) :
         /\ brk' = r.brk
         /\ IF r.ptr = NULL
            THEN list' = r.list /\ UNCHANGED <<mem, owned>>
            ELSE /\ mem' = Copy(list[i].addr, r.ptr, list[i].size)
                 /\ list' = SetFree(r.list, list[i].addr)
                 /\ owned' = [q \in (DOMAIN owned \ {list[i].addr}) \cup {r.ptr} |->
                                IF q = r.ptr THEN size ELSE owned[q]]

Realloc(p, size) ==
    /\ size # 0 /\ size <= MAX_SIZE
    /\ \E i \in DOMAIN list : list[i].addr = p /\ (Stay(i, size) \/ Move(i, size))

(* The client writes a byte of a block it holds. *)
Write(p, i, v) ==
    /\ mem' = [mem EXCEPT ![p + i] = v]
    /\ UNCHANGED <<list, brk, owned>>

(* Others use sbrk too, the C library among them. *)
ForeignSbrk ==
    /\ Room(1) /\ brk' = brk + 1
    /\ UNCHANGED <<list, mem, owned>>

Next ==
    \/ \E size \in Requests : Malloc(size)
    \/ \E num \in Counts, size \in Requests : Calloc(num, size)
    \/ \E p \in Addresses : Free(p)
    \/ \E p \in DOMAIN owned, size \in Requests : Realloc(p, size)
    \/ \E p \in DOMAIN owned : \E i \in 0..(owned[p] - 1), v \in Bytes : Write(p, i, v)
    \/ ForeignSbrk

Spec == Init /\ [][Next]_vars

-----------------------------------------------------------------------------
(* The counters, each a walk over the list. *)

used_blocks == {i \in DOMAIN list : ~list[i].is_free}  \* mutant
free_blocks == {i \in DOMAIN list : list[i].is_free}
Bytes_of(blocks) == MapThenSumSet(LAMBDA i : list[i].size, blocks)

num_free_blocks      == Cardinality(free_blocks)
num_allocated_blocks == Cardinality(DOMAIN list)
num_free_bytes       == Bytes_of(free_blocks)
num_allocated_bytes  == Bytes_of(DOMAIN list)
num_meta_data_bytes  == num_allocated_blocks * META

-----------------------------------------------------------------------------
(* Properties. *)

(* No block and no header overlaps another one, in whatever order calls    *)
(* succeed and fail: the list is in the order of the addresses.            *)
NoOverlap ==
    /\ \A i, j \in DOMAIN list :
          i < j => list[i].addr + list[i].size + META <= list[j].addr
    /\ \A i \in DOMAIN list :
          list[i].addr >= Base + META /\ list[i].addr + list[i].size <= brk

(* The blocks in use are those the client holds, no more (a leak) and no   *)
(* less (a block given away twice), and each is as large as it asked for.  *)
Ledger ==
    /\ \A p \in DOMAIN owned :
          \E i \in DOMAIN list :
            list[i].addr = p /\ ~list[i].is_free /\ list[i].size >= owned[p]
    /\ \A i \in DOMAIN list : ~list[i].is_free => list[i].addr \in DOMAIN owned

(* The counters agree with what the client holds and with the break.       *)
CountersAgree ==
    /\ num_allocated_blocks - num_free_blocks = Cardinality(DOMAIN owned)
    /\ num_allocated_bytes - num_free_bytes
          >= MapThenSumSet(LAMBDA p : owned[p], DOMAIN owned)
    /\ Base + num_allocated_bytes + num_meta_data_bytes <= brk

(* The allocator is a heap as Heap defines it. *)
Live == [p \in DOMAIN owned |->
           [size |-> owned[p], data |-> [i \in 0..(owned[p] - 1) |-> mem[p + i]]]]
TheHeap == INSTANCE Heap WITH
    Pointers <- Addresses, Sizes <- 1..MAX_SIZE, live <- Live
ImplementsHeap == TheHeap!Spec
=============================================================================
