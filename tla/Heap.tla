-------------------------------- MODULE Heap --------------------------------
(***************************************************************************)
(* What a client may rely on when it uses the allocators of src/hw4: the   *)
(* blocks it holds do not overlap, nobody but the client changes their     *)
(* bytes, scalloc gives zeros, and srealloc keeps what both sizes have in  *)
(* common.  Every request may also fail and then changes nothing.          *)
(***************************************************************************)
EXTENDS Integers

CONSTANTS
    Pointers,  \* addresses of blocks
    Sizes,     \* sizes a client may ask for
    Bytes      \* values of a byte; 0 is one of them

VARIABLE live  \* the blocks the client holds: pointer -> [size, data]

Contents(n) == [size : {n}, data : [0..(n - 1) -> Bytes]]

Put(blocks, p, b) ==
    [q \in DOMAIN blocks \cup {p} |-> IF q = p THEN b ELSE blocks[q]]
Without(p) == [q \in DOMAIN live \ {p} |-> live[q]]

(* The bytes p, ..., p + n - 1 belong to no other block. *)
Apart(blocks, p, n) ==
    \A q \in DOMAIN blocks : p + n <= q \/ q + blocks[q].size <= p

Init == live = [p \in {} |-> 0]

Malloc == \E p \in Pointers, n \in Sizes :
             /\ Apart(live, p, n)
             /\ \E b \in Contents(n) : live' = Put(live, p, b)

Calloc == \E p \in Pointers, n \in Sizes :
             /\ Apart(live, p, n)
             /\ live' = Put(live, p, [size |-> n, data |-> [i \in 0..(n - 1) |-> 0]])

Free == \E p \in DOMAIN live : live' = Without(p)

Realloc == \E p \in DOMAIN live, q \in Pointers, n \in Sizes :
             /\ Apart(Without(p), q, n)
             /\ \E b \in Contents(n) :
                  /\ \A i \in 0..(n - 1) :
                        i < live[p].size => b.data[i] = live[p].data[i]
                  /\ live' = Put(Without(p), q, b)

Write == \E p \in DOMAIN live :
           \E i \in 0..(live[p].size - 1), v \in Bytes :
             live' = Put(live, p, [size |-> live[p].size,
                                   data |-> [live[p].data EXCEPT ![i] = v]])

Next == Malloc \/ Calloc \/ Free \/ Realloc \/ Write

Spec == Init /\ [][Next]_live
=============================================================================
