--------------------------- MODULE Malloc2Proofs ---------------------------
(***************************************************************************)
(* Theorems about Malloc2, for every size of the header, every limit and   *)
(* all requests, as long as num * size does not wrap around in scalloc.    *)
(***************************************************************************)
EXTENDS Malloc2, Sums

NoWrap == \A num \in Counts, size \in Requests : num * size < Word

Inv == TypeOK /\ NoOverlap /\ Ledger

Layout(l, b) ==
    /\ \A i, j \in DOMAIN l : i < j => l[i].addr + l[i].size + META <= l[j].addr
    /\ \A i \in DOMAIN l : l[i].addr >= Base + META /\ l[i].addr + l[i].size <= b

LedgerOf(l, o) ==
    /\ \A p \in DOMAIN o :
          \E i \in DOMAIN l : l[i].addr = p /\ ~l[i].is_free /\ l[i].size >= o[p]
    /\ \A i \in DOMAIN l : ~l[i].is_free => l[i].addr \in DOMAIN o

(* What a call of smalloc(n) that succeeds leaves: block k is the one it   *)
(* returns, it was free or did not exist, and no other block has changed.  *)
Granted(r, n, k) ==
    /\ n \in 1..MAX_SIZE
    /\ DOMAIN r.list = DOMAIN list \cup {k}
    /\ k \in DOMAIN list => list[k].is_free
    /\ r.list[k].addr = r.ptr /\ r.list[k].size >= n /\ ~r.list[k].is_free
    /\ \A i \in DOMAIN list \ {k} : r.list[i] = list[i]

LEMMA Constants ==
    /\ META \in Nat \ {0} /\ MAX_SIZE \in Nat /\ Word \in Nat \ {0} /\ Limit \in Nat
    /\ Requests \subseteq Nat /\ Counts \subseteq Nat /\ 0 \in Bytes
BY MallocAssumption DEF MallocAssumption

LEMMA BlockFields ==
    ASSUME NEW l \in Seq(Block), NEW i \in DOMAIN l
    PROVE  /\ i \in Nat \ {0}
           /\ l[i].addr \in Addresses /\ l[i].addr \in Nat \ {0}
           /\ l[i].size \in Nat \ {0}
           /\ l[i].is_free \in BOOLEAN
<1>1. i \in Nat \ {0} /\ l[i] \in Block
  OBVIOUS
<1>2. \A b \in Block : /\ b.addr \in Addresses /\ b.size \in Nat \ {0}
                       /\ b.is_free \in BOOLEAN
  BY DEF Block
<1>3. Addresses \subseteq Nat \ {0}
  BY Constants DEF Addresses, Base
<1> QED
  BY <1>1, <1>2, <1>3

(* No two blocks have the same address. *)
LEMMA Distinct ==
    ASSUME NEW l \in Seq(Block), NEW b, Layout(l, b),
           NEW i \in DOMAIN l, NEW j \in DOMAIN l, l[i].addr = l[j].addr
    PROVE  i = j
<1>1. i \in Nat /\ j \in Nat /\ l[i].addr \in Nat /\ l[i].size \in Nat /\ l[j].size \in Nat
  BY BlockFields
<1>2. ~(i < j) /\ ~(j < i)
  BY <1>1, Constants DEF Layout
<1> QED
  BY <1>1, <1>2

-----------------------------------------------------------------------------
(* The outcomes of smalloc. *)

LEMMA ReuseGrants ==
    ASSUME TypeOK, NoOverlap, NEW n \in 1..MAX_SIZE, NEW i \in FirstFit(n)
    PROVE  LET r == Reuse(i) IN
             /\ r.list \in Seq(Block) /\ r.brk = brk /\ r.ptr \in Addresses
             /\ Layout(r.list, r.brk)
             /\ Granted(r, n, i)
<1> DEFINE b == [list[i] EXCEPT !.is_free = FALSE]
           l == [list EXCEPT ![i] = b]
<1>1. i \in DOMAIN list /\ list[i].is_free /\ list[i].size >= n
  BY DEF FirstFit, Fits
<1>2. list \in Seq(Block)
  BY DEF TypeOK
<1>3. list[i] \in Block
  BY <1>1, <1>2
<1>4. b \in Block /\ b.addr = list[i].addr /\ b.size = list[i].size /\ b.is_free = FALSE
  BY <1>3 DEF Block
<1>5. l \in Seq(Block) /\ DOMAIN l = DOMAIN list
  BY <1>1, <1>2, <1>4
<1>6. l[i] = b /\ \A k \in DOMAIN list \ {i} : l[k] = list[k]
  BY <1>1
<1>7. Reuse(i).list = l /\ Reuse(i).brk = brk /\ Reuse(i).ptr = list[i].addr
  BY DEF Reuse, Outcome
<1>8. list[i].addr \in Addresses
  BY <1>1, <1>2, BlockFields
<1>9. \A k \in DOMAIN list : l[k].addr = list[k].addr /\ l[k].size = list[k].size
  BY <1>4, <1>6
<1>10. Layout(l, brk)
  <2> HIDE DEF l
  <2> QED
    BY <1>5, <1>9 DEF Layout, NoOverlap
<1>11. Granted(Reuse(i), n, i)
  <2> HIDE DEF l, b
  <2> QED
    BY <1>1, <1>4, <1>5, <1>6, <1>7 DEF Granted
<1> HIDE DEF l
<1> QED
  BY <1>5, <1>7, <1>8, <1>10, <1>11

LEMMA ExtendGrants ==
    ASSUME TypeOK, NoOverlap, NEW n \in 1..MAX_SIZE, Room(META + n),
           NEW r, r = Outcome(Append(list, NewBlock(n)), brk + META + n, brk + META)
    PROVE  /\ r.list \in Seq(Block) /\ r.brk \in brk..(Limit + 1) /\ r.ptr \in Addresses
           /\ Layout(r.list, r.brk)
           /\ Granted(r, n, Len(list) + 1)
<1> DEFINE m == Len(list) + 1
           l == Append(list, NewBlock(n))
<1>1. list \in Seq(Block) /\ brk \in Base..(Limit + 1)
  BY DEF TypeOK
<1>2. brk + META \in Addresses /\ brk + META + n \in brk..(Limit + 1)
  BY <1>1, Constants DEF Room, Addresses, Base
<1>3. /\ NewBlock(n) \in Block
      /\ NewBlock(n).addr = brk + META /\ NewBlock(n).size = n
      /\ NewBlock(n).is_free = FALSE
  BY <1>2, Constants DEF NewBlock, Block
<1>4. /\ l \in Seq(Block) /\ DOMAIN l = DOMAIN list \cup {m} /\ m \notin DOMAIN list
      /\ l[m] = NewBlock(n) /\ m \in Nat
      /\ \A k \in DOMAIN list : l[k] = list[k] /\ k < m
  BY <1>1, <1>3
<1>5. r.list = l /\ r.brk = brk + META + n /\ r.ptr = brk + META
  BY DEF Outcome
<1> HIDE DEF l, m
<1>6. Layout(l, brk + META + n)
  <2>1. \A i \in DOMAIN list : l[i].addr \in Nat /\ l[i].size \in Nat
    BY <1>1, <1>4, BlockFields
  <2>2. \A i \in DOMAIN l : l[i].addr >= Base + META /\ l[i].addr + l[i].size <= brk + META + n
    BY <1>1, <1>3, <1>4, <2>1, Constants DEF NoOverlap, Base
  <2>3. ASSUME NEW i \in DOMAIN l, NEW j \in DOMAIN l, i < j
        PROVE  l[i].addr + l[i].size + META <= l[j].addr
    <3>1. i \in DOMAIN list
      BY <1>4, <2>3, BlockFields
    <3>2. CASE j \in DOMAIN list
      BY <1>4, <2>3, <3>1, <3>2 DEF NoOverlap
    <3>3. CASE j = m
      BY <1>1, <1>3, <1>4, <2>1, <3>1, <3>3, Constants DEF NoOverlap, Base
    <3> QED
      BY <1>4, <3>2, <3>3
  <2> QED
    BY <2>2, <2>3 DEF Layout
<1>7. Granted(r, n, m)
  BY <1>3, <1>4, <1>5 DEF Granted
<1> QED
  BY <1>2, <1>4, <1>5, <1>6, <1>7 DEF m

LEMMA SmallocOutcome ==
    ASSUME TypeOK, NoOverlap, NEW n \in Nat, NEW r \in smalloc(n)
    PROVE  /\ r.list \in Seq(Block) /\ r.brk \in brk..(Limit + 1)
           /\ Layout(r.list, r.brk)
           /\ \/ r.ptr = NULL /\ r.list = list
              \/ r.ptr \in Addresses /\ \E k \in Nat : Granted(r, n, k)
<1>1. list \in Seq(Block) /\ brk \in Base..(Limit + 1)
  BY DEF TypeOK
<1>2. \A i \in DOMAIN list : list[i].addr \in Nat /\ list[i].size \in Nat
  BY <1>1, BlockFields
<1>3. CASE r = Fails
  BY <1>1, <1>3, Constants DEF Fails, Outcome, NoOverlap, Layout, Base
<1>4. CASE Room(META) /\ r = Outcome(list, brk + META, NULL)
  <2>1. r.list = list /\ r.brk = brk + META /\ r.ptr = NULL
    BY <1>4 DEF Outcome
  <2>2. brk + META \in brk..(Limit + 1)
    BY <1>1, <1>4, Constants DEF Room, Base
  <2>3. Layout(list, brk + META)
    BY <1>1, <1>2, Constants DEF NoOverlap, Layout, Base
  <2> QED
    BY <1>1, <2>1, <2>2, <2>3
<1>5. ASSUME n \in 1..MAX_SIZE, NEW i \in FirstFit(n), r = Reuse(i)
      PROVE  /\ r.list \in Seq(Block) /\ r.brk = brk /\ r.ptr \in Addresses
             /\ Layout(r.list, r.brk)
             /\ i \in Nat /\ Granted(r, n, i)
  BY <1>1, <1>5, ReuseGrants DEF FirstFit
<1>6. ASSUME n \in 1..MAX_SIZE, Room(META + n),
             r = Outcome(Append(list, NewBlock(n)), brk + META + n, brk + META)
      PROVE  /\ r.list \in Seq(Block) /\ r.brk \in brk..(Limit + 1) /\ r.ptr \in Addresses
             /\ Layout(r.list, r.brk)
             /\ Len(list) + 1 \in Nat /\ Granted(r, n, Len(list) + 1)
  BY <1>1, <1>6, ExtendGrants
<1>7. \/ r = Fails
      \/ Room(META) /\ r = Outcome(list, brk + META, NULL)
      \/ n \in 1..MAX_SIZE /\ \E i \in FirstFit(n) : r = Reuse(i)
      \/ /\ n \in 1..MAX_SIZE /\ Room(META + n)
         /\ r = Outcome(Append(list, NewBlock(n)), brk + META + n, brk + META)
  BY Constants DEF smalloc, Extend
<1>8. brk \in brk..(Limit + 1)
  BY <1>1, Constants DEF Base
<1> QED
  BY <1>3, <1>4, <1>5, <1>6, <1>7, <1>8
-----------------------------------------------------------------------------
(* The ledger after a block is given to the client, and after it is freed. *)

LEMMA GrantedLedger ==
    ASSUME Inv, NEW n \in Nat, NEW r, NEW k, Granted(r, n, k),
           r.list \in Seq(Block), Layout(r.list, r.brk)
    PROVE  /\ r.ptr \notin DOMAIN owned
           /\ LedgerOf(r.list, Own(r.ptr, n))
<1> DEFINE o == Own(r.ptr, n)
<1>1. Ledger /\ list \in Seq(Block)
  BY DEF Inv, TypeOK
<1>2. /\ DOMAIN r.list = DOMAIN list \cup {k}
      /\ k \in DOMAIN list => list[k].is_free
      /\ r.list[k].addr = r.ptr /\ r.list[k].size >= n /\ ~r.list[k].is_free
      /\ \A i \in DOMAIN list \ {k} : r.list[i] = list[i]
  BY DEF Granted
<1>3. ASSUME NEW p \in DOMAIN owned
      PROVE  \E i \in DOMAIN list \ {k} :
               /\ r.list[i].addr = p /\ ~r.list[i].is_free /\ r.list[i].size >= owned[p]
  BY <1>1, <1>2 DEF Ledger
<1>4. r.ptr \notin DOMAIN owned
  <2> SUFFICES ASSUME r.ptr \in DOMAIN owned
               PROVE  FALSE
    OBVIOUS
  <2>1. PICK i \in DOMAIN list \ {k} : r.list[i].addr = r.ptr
    BY <1>3
  <2>2. i \in DOMAIN r.list /\ k \in DOMAIN r.list /\ r.list[i].addr = r.list[k].addr
    BY <1>2, <2>1
  <2> QED
    BY <2>1, <2>2, Distinct
<1>5. /\ DOMAIN o = DOMAIN owned \cup {r.ptr} /\ o[r.ptr] = n
      /\ \A p \in DOMAIN owned : p # r.ptr => o[p] = owned[p]
  BY DEF Own
<1> HIDE DEF o
<1>6. ASSUME NEW p \in DOMAIN o
      PROVE  \E i \in DOMAIN r.list :
               r.list[i].addr = p /\ ~r.list[i].is_free /\ r.list[i].size >= o[p]
  <2>1. CASE p = r.ptr
    BY <1>2, <1>5, <2>1
  <2>2. CASE p \in DOMAIN owned
    BY <1>2, <1>3, <1>4, <1>5, <2>2
  <2> QED
    BY <1>5, <2>1, <2>2
<1>7. ASSUME NEW i \in DOMAIN r.list, ~r.list[i].is_free
      PROVE  r.list[i].addr \in DOMAIN o
  BY <1>1, <1>2, <1>5, <1>7 DEF Ledger
<1> QED
  BY <1>4, <1>6, <1>7 DEF LedgerOf, o

LEMMA FreedLedger ==
    ASSUME NEW l \in Seq(Block), NEW b, Layout(l, b), NEW o, LedgerOf(l, o), NEW p
    PROVE  /\ SetFree(l, p) \in Seq(Block)
           /\ Layout(SetFree(l, p), b)
           /\ LedgerOf(SetFree(l, p), [q \in DOMAIN o \ {p} |-> o[q]])
<1> DEFINE f == SetFree(l, p)
<1>1. ASSUME NEW i \in DOMAIN l
      PROVE  /\ f[i] \in Block
             /\ f[i].addr = l[i].addr /\ f[i].size = l[i].size
             /\ l[i].addr = p => f[i].is_free
             /\ l[i].addr # p => f[i] = l[i]
  <2>1. l[i] \in Block
    OBVIOUS
  <2>2. f[i] = IF l[i].addr = p THEN [l[i] EXCEPT !.is_free = TRUE] ELSE l[i]
    BY DEF SetFree
  <2> QED
    BY <2>1, <2>2 DEF Block
<1>2. DOMAIN f = DOMAIN l
  BY DEF SetFree
<1>3. f \in Seq(Block)
  <2>1. Len(l) \in Nat /\ DOMAIN l = 1..Len(l)
    OBVIOUS
  <2>2. f = [i \in 1..Len(l) |->
               IF l[i].addr = p THEN [l[i] EXCEPT !.is_free = TRUE] ELSE l[i]]
    BY <2>1 DEF SetFree
  <2>3. \A i \in 1..Len(l) :
           (IF l[i].addr = p THEN [l[i] EXCEPT !.is_free = TRUE] ELSE l[i]) \in Block
    BY <1>1, <2>1, <2>2
  <2> QED
    BY <2>1, <2>2, <2>3
<1> HIDE DEF f
<1>4. Layout(f, b)
  BY <1>1, <1>2 DEF Layout
<1>5. LedgerOf(f, [q \in DOMAIN o \ {p} |-> o[q]])
  <2>1. ASSUME NEW q \in DOMAIN o \ {p}
        PROVE  \E i \in DOMAIN f : f[i].addr = q /\ ~f[i].is_free /\ f[i].size >= o[q]
    BY <1>1, <1>2 DEF LedgerOf
  <2>2. ASSUME NEW i \in DOMAIN f, ~f[i].is_free
        PROVE  f[i].addr \in DOMAIN o \ {p}
    BY <1>1, <1>2, <2>2 DEF LedgerOf
  <2> QED
    BY <2>1, <2>2 DEF LedgerOf
<1> QED
  BY <1>3, <1>4, <1>5 DEF f
-----------------------------------------------------------------------------
(* The invariant. *)

LEMMA InvParts ==
    Inv <=> TypeOK /\ Layout(list, brk) /\ LedgerOf(list, owned)
BY DEF Inv, Layout, LedgerOf, NoOverlap, Ledger

LEMMA InvInit ==
    Init => Inv
<1> SUFFICES ASSUME Init PROVE Inv
  OBVIOUS
<1>1. list = <<>> /\ DOMAIN list = {} /\ DOMAIN owned = {}
  BY DEF Init
<1>2. TypeOK
  BY <1>1, Constants DEF Init, TypeOK, Base
<1> QED
  BY <1>1, <1>2 DEF Inv, NoOverlap, Ledger

LEMMA OwnType ==
    ASSUME TypeOK, NEW p \in Addresses, NEW n \in Nat \ {0}
    PROVE  DOMAIN Own(p, n) \subseteq Addresses /\ Own(p, n) \in [DOMAIN Own(p, n) -> Nat \ {0}]
<1>1. DOMAIN Own(p, n) = DOMAIN owned \cup {p}
  BY DEF Own
<1>2. \A q \in DOMAIN owned : owned[q] \in Nat \ {0}
  BY DEF TypeOK
<1> QED
  BY <1>1, <1>2 DEF Own, TypeOK

(* A request for n bytes that smalloc serves. *)
LEMMA GrantKeepsInv ==
    ASSUME Inv, NEW n \in Nat, NEW r \in smalloc(n),
           list' = r.list, brk' = r.brk,
           owned' = (IF r.ptr = NULL THEN owned ELSE Own(r.ptr, n)),
           mem' \in [Addresses -> Bytes]
    PROVE  Inv'
<1>1. TypeOK /\ NoOverlap /\ Ledger
  BY DEF Inv
<1>2. r.list \in Seq(Block) /\ r.brk \in brk..(Limit + 1) /\ Layout(r.list, r.brk)
  BY <1>1, SmallocOutcome
<1>3. r.brk \in Base..(Limit + 1)
  BY <1>1, <1>2, Constants DEF TypeOK, Base
<1>4. CASE r.ptr = NULL /\ r.list = list
  <2>1. list' = list /\ owned' = owned /\ brk' = r.brk
    BY <1>4
  <2>2. TypeOK'
    BY <1>1, <1>3, <2>1 DEF TypeOK
  <2>3. Layout(list', brk') /\ LedgerOf(list', owned')
    BY <1>1, <1>2, <1>4, <2>1, InvParts DEF Inv
  <2> QED
    BY <2>2, <2>3 DEF Inv, Layout, LedgerOf, NoOverlap, Ledger
<1>5. ASSUME r.ptr \in Addresses, NEW k \in Nat, Granted(r, n, k)
      PROVE  Inv'
  <2>1. r.ptr # NULL
    BY <1>5 DEF Addresses, Base, NULL
  <2>2. owned' = Own(r.ptr, n) /\ list' = r.list /\ brk' = r.brk
    BY <2>1
  <2>3. n \in Nat \ {0}
    BY <1>5, Constants DEF Granted
  <2>4. TypeOK'
    BY <1>1, <1>2, <1>3, <1>5, <2>2, <2>3, OwnType DEF TypeOK
  <2>5. LedgerOf(list', owned') /\ Layout(list', brk')
    BY <1>2, <1>5, <2>2, GrantedLedger
  <2> QED
    BY <2>4, <2>5 DEF Inv, Layout, LedgerOf, NoOverlap, Ledger
<1> QED
  BY <1>1, <1>4, <1>5, SmallocOutcome

LEMMA InvMalloc ==
    ASSUME Inv, NEW size \in Requests, Malloc(size)
    PROVE  Inv'
<1>1. PICK r \in smalloc(size) :
         /\ list' = r.list /\ brk' = r.brk /\ mem' = mem
         /\ owned' = IF r.ptr = NULL THEN owned ELSE Own(r.ptr, size)
  BY DEF Malloc
<1>2. mem' \in [Addresses -> Bytes] /\ size \in Nat
  BY <1>1, Constants DEF Inv, TypeOK
<1> QED
  BY <1>1, <1>2, GrantKeepsInv

LEMMA ProductIsExact ==
    ASSUME NoWrap, NEW num \in Counts, NEW size \in Requests
    PROVE  Product(num, size) = num * size /\ num * size \in Nat
<1>1. num \in Nat /\ size \in Nat
  BY Constants
<1>2. num * size \in Nat /\ num * size < Word
  BY <1>1 DEF NoWrap
<1>3. ASSUME NEW x \in Nat, x < Word PROVE x % Word = x
  BY <1>3, Constants
<1> QED
  BY <1>2, <1>3 DEF Product

(* scalloc asks smalloc for n bytes, or refuses as smalloc(0) does. *)
CallocGives(n, r) ==
    /\ \E s \in {n, 0} : r \in smalloc(s) /\ (r.ptr # NULL => s = n)
    /\ list' = r.list /\ brk' = r.brk
    /\ owned' = IF r.ptr = NULL THEN owned ELSE Own(r.ptr, n)
    /\ mem' = [a \in Addresses |->
                 IF r.ptr # NULL /\ a \in r.ptr..(r.ptr + n - 1) THEN 0 ELSE mem[a]]

LEMMA CallocOutcome ==
    ASSUME NoWrap, NEW num \in Counts, NEW size \in Requests, Calloc(num, size)
    PROVE  \E n \in Nat : \E r : n = num * size /\ CallocGives(n, r)
<1> DEFINE n == num * size
<1>1. Product(num, size) = n /\ n \in Nat
  BY ProductIsExact
<1> HIDE DEF n
<1>2. PICK r \in IF size = 0 \/ n > MAX_SIZE THEN {Fails} ELSE smalloc(n) :
         /\ list' = r.list /\ brk' = r.brk
         /\ owned' = IF r.ptr = NULL THEN owned ELSE Own(r.ptr, n)
         /\ mem' = [a \in Addresses |->
                      IF r.ptr # NULL /\ a \in r.ptr..(r.ptr + n - 1) THEN 0 ELSE mem[a]]
  BY <1>1 DEF Calloc, n
<1>3. CASE r = Fails
  <2>1. r \in smalloc(0) /\ r.ptr = NULL
    BY <1>3 DEF smalloc, Fails, Outcome
  <2> QED
    BY <1>1, <1>2, <2>1 DEF n, CallocGives
<1>4. CASE r \in smalloc(n)
  BY <1>1, <1>2, <1>4 DEF n, CallocGives
<1> QED
  BY <1>2, <1>3, <1>4

LEMMA InvCalloc ==
    ASSUME Inv, NoWrap, NEW num \in Counts, NEW size \in Requests, Calloc(num, size)
    PROVE  Inv'
<1>0. PICK n \in Nat : \E r : CallocGives(n, r)
  BY CallocOutcome
<1>1. PICK r : CallocGives(n, r)
  BY <1>0
<1>2. PICK s \in {n, 0} : r \in smalloc(s) /\ (r.ptr # NULL => s = n)
  BY <1>1 DEF CallocGives
<1>3. /\ list' = r.list /\ brk' = r.brk
      /\ owned' = IF r.ptr = NULL THEN owned ELSE Own(r.ptr, s)
  BY <1>1, <1>2 DEF CallocGives
<1>4. mem' \in [Addresses -> Bytes]
  BY <1>1, Constants DEF CallocGives, Inv, TypeOK
<1>5. s \in Nat
  BY <1>2
<1> QED
  BY <1>2, <1>3, <1>4, <1>5, GrantKeepsInv

LEMMA InvFree ==
    ASSUME Inv, NEW p, Free(p)
    PROVE  Inv'
<1>1. /\ list' = SetFree(list, p) /\ brk' = brk /\ mem' = mem
      /\ owned' = [q \in DOMAIN owned \ {p} |-> owned[q]]
  BY DEF Free, Disown
<1>2. TypeOK /\ Layout(list, brk) /\ LedgerOf(list, owned)
  BY InvParts
<1>3. list' \in Seq(Block) /\ Layout(list', brk') /\ LedgerOf(list', owned')
  BY <1>1, <1>2, FreedLedger DEF TypeOK
<1>4. TypeOK'
  BY <1>1, <1>2, <1>3 DEF TypeOK
<1> QED
  BY <1>3, <1>4 DEF Inv, Layout, LedgerOf, NoOverlap, Ledger

LEMMA InvStay ==
    ASSUME Inv, NEW i \in DOMAIN list, list[i].addr \in DOMAIN owned,
           NEW size \in Nat \ {0}, Stay(i, size)
    PROVE  Inv'
<1>1. /\ list' = list /\ brk' = brk /\ mem' = mem
      /\ owned' = Own(list[i].addr, size) /\ list[i].size >= size
  BY DEF Stay
<1>2. TypeOK /\ Layout(list, brk) /\ LedgerOf(list, owned)
  BY InvParts
<1>3. list[i].addr \in Addresses
  BY <1>2, BlockFields DEF TypeOK
<1>4. TypeOK'
  BY <1>1, <1>2, <1>3, OwnType DEF TypeOK
<1>5. /\ DOMAIN owned' = DOMAIN owned /\ owned'[list[i].addr] = size
      /\ \A q \in DOMAIN owned : q # list[i].addr => owned'[q] = owned[q]
  BY <1>1 DEF Own
<1>6. ~list[i].is_free
  BY <1>2, Distinct DEF LedgerOf, TypeOK
<1>7. ASSUME NEW q \in DOMAIN owned
      PROVE  \E j \in DOMAIN list :
               list[j].addr = q /\ ~list[j].is_free /\ list[j].size >= owned'[q]
  <2>1. CASE q = list[i].addr
    BY <1>1, <1>5, <1>6, <2>1
  <2>2. CASE q # list[i].addr
    BY <1>2, <1>5, <2>2 DEF LedgerOf
  <2> QED
    BY <2>1, <2>2
<1>8. LedgerOf(list, owned')
  BY <1>2, <1>5, <1>7 DEF LedgerOf
<1> QED
  BY <1>1, <1>2, <1>4, <1>8 DEF Inv, Layout, LedgerOf, NoOverlap, Ledger

LEMMA CopyType ==
    ASSUME TypeOK, NoOverlap, NEW i \in DOMAIN list, NEW to \in Nat
    PROVE  Copy(list[i].addr, to, list[i].size) \in [Addresses -> Bytes]
<1>1. /\ list[i].addr \in Nat \ {0} /\ list[i].size \in Nat \ {0}
      /\ list[i].addr + list[i].size <= Limit + 1
  <2>1. list[i].addr \in Nat \ {0} /\ list[i].size \in Nat \ {0} /\ brk \in Nat /\ brk <= Limit + 1
    BY BlockFields, Constants DEF TypeOK, Base
  <2> QED
    BY <2>1, Constants DEF NoOverlap
<1> DEFINE n == list[i].size
           from == list[i].addr
<1>2. from \in Nat \ {0} /\ n \in Nat \ {0} /\ from + n <= Limit + 1
  BY <1>1
<1> HIDE DEF n, from
<1>3. ASSUME NEW a \in Addresses, a \in to..(to + n - 1)
      PROVE  from + (a - to) \in Addresses
  BY <1>2, <1>3, Constants DEF Addresses, Base
<1>4. mem \in [Addresses -> Bytes]
  BY DEF TypeOK
<1> QED
  BY <1>3, <1>4 DEF Copy, n, from

LEMMA InvMove ==
    ASSUME Inv, NEW i \in DOMAIN list, list[i].addr \in DOMAIN owned,
           NEW size \in Nat \ {0}, Move(i, size)
    PROVE  Inv'
<1> DEFINE p == list[i].addr
<1>1. PICK r \in smalloc(size) :
         /\ brk' = r.brk
         /\ IF r.ptr = NULL
            THEN list' = r.list /\ UNCHANGED <<mem, owned>>
            ELSE /\ mem' = Copy(p, r.ptr, list[i].size)
                 /\ list' = SetFree(r.list, p)
                 /\ owned' = [q \in (DOMAIN owned \ {p}) \cup {r.ptr} |->
                                IF q = r.ptr THEN size ELSE owned[q]]
  BY DEF Move
<1>2. TypeOK /\ NoOverlap /\ Layout(list, brk) /\ LedgerOf(list, owned)
  BY InvParts DEF Inv
<1>3. CASE r.ptr = NULL
  BY <1>1, <1>2, <1>3, GrantKeepsInv DEF TypeOK
<1>4. CASE r.ptr # NULL
  <2>1. PICK k \in Nat : /\ r.list \in Seq(Block) /\ r.brk \in brk..(Limit + 1)
                         /\ Layout(r.list, r.brk) /\ r.ptr \in Addresses
                         /\ Granted(r, size, k)
    BY <1>2, <1>4, SmallocOutcome
  <2>2. r.ptr \notin DOMAIN owned /\ LedgerOf(r.list, Own(r.ptr, size))
    BY <2>1, GrantedLedger
  <2> DEFINE o == Own(r.ptr, size)
  <2>3. o = [q \in DOMAIN owned \cup {r.ptr} |-> IF q = r.ptr THEN size ELSE owned[q]]
    BY DEF Own
  <2>4. p # r.ptr
    BY <2>2
  <2>5. owned' = [q \in DOMAIN o \ {p} |-> o[q]]
    <3>1. DOMAIN o \ {p} = (DOMAIN owned \ {p}) \cup {r.ptr}
      BY <2>3, <2>4
    <3> HIDE DEF p
    <3> QED
      BY <1>1, <1>4, <2>3, <3>1
  <2>6. list' = SetFree(r.list, p) /\ brk' = r.brk /\ mem' = Copy(p, r.ptr, list[i].size)
    BY <1>1, <1>4
  <2> HIDE DEF o
  <2>7. list' \in Seq(Block) /\ Layout(list', brk') /\ LedgerOf(list', owned')
    BY <2>1, <2>2, <2>5, <2>6, FreedLedger DEF o
  <2>8. TypeOK'
    <3>1. mem' \in [Addresses -> Bytes]
      BY <1>2, <2>1, <2>6, CopyType, Constants DEF Addresses, Base
    <3>2. brk' \in Base..(Limit + 1)
      BY <1>2, <2>1, <2>6, Constants DEF TypeOK, Base
    <3>3. DOMAIN o \subseteq Addresses /\ o \in [DOMAIN o -> Nat \ {0}]
      BY <1>2, <2>1, OwnType DEF o
    <3>4. DOMAIN owned' \subseteq Addresses /\ owned' \in [DOMAIN owned' -> Nat \ {0}]
      BY <2>5, <3>3
    <3> QED
      BY <2>7, <3>1, <3>2, <3>4 DEF TypeOK
  <2> QED
    BY <2>7, <2>8 DEF Inv, Layout, LedgerOf, NoOverlap, Ledger
<1> QED
  BY <1>3, <1>4

LEMMA InvRealloc ==
    ASSUME Inv, NEW p \in DOMAIN owned, NEW size \in Requests, Realloc(p, size)
    PROVE  Inv'
<1>1. size \in Nat \ {0}
  BY Constants DEF Realloc
<1> QED
  BY <1>1, InvStay, InvMove DEF Realloc

LEMMA InvWrite ==
    ASSUME Inv, NEW a, NEW v \in Bytes, list' = list, brk' = brk, owned' = owned,
           mem' = [mem EXCEPT ![a] = v]
    PROVE  Inv'
<1>1. TypeOK'
  BY DEF Inv, TypeOK
<1> QED
  BY <1>1 DEF Inv, NoOverlap, Ledger

LEMMA InvForeignSbrk ==
    ASSUME Inv, ForeignSbrk
    PROVE  Inv'
<1>1. brk' = brk + 1 /\ list' = list /\ mem' = mem /\ owned' = owned
  BY DEF ForeignSbrk
<1>2. list \in Seq(Block) /\ brk \in Nat
  BY Constants DEF Inv, TypeOK, Base
<1>3. TypeOK'
  BY <1>1, Constants DEF Inv, TypeOK, ForeignSbrk, Room, Base
<1>4. \A i \in DOMAIN list : list[i].addr \in Nat /\ list[i].size \in Nat
  BY <1>2, BlockFields
<1>5. NoOverlap'
  BY <1>1, <1>2, <1>4 DEF Inv, NoOverlap
<1> QED
  BY <1>1, <1>3, <1>5 DEF Inv, Ledger

LEMMA InvNext ==
    ASSUME NoWrap, Inv, [Next]_vars
    PROVE  Inv'
<1>1. ASSUME NEW size \in Requests, Malloc(size) PROVE Inv'
  BY <1>1, InvMalloc
<1>2. ASSUME NEW num \in Counts, NEW size \in Requests, Calloc(num, size) PROVE Inv'
  BY <1>2, InvCalloc
<1>3. ASSUME NEW p \in Addresses, Free(p) PROVE Inv'
  BY <1>3, InvFree
<1>4. ASSUME NEW p \in DOMAIN owned, NEW size \in Requests, Realloc(p, size) PROVE Inv'
  BY <1>4, InvRealloc
<1>5. ASSUME NEW p, NEW i, NEW v \in Bytes, Write(p, i, v) PROVE Inv'
  BY <1>5, InvWrite DEF Write
<1>6. CASE ForeignSbrk
  BY <1>6, InvForeignSbrk
<1>7. CASE UNCHANGED vars
  BY <1>7 DEF vars, Inv, TypeOK, NoOverlap, Ledger
<1> QED
  BY <1>1, <1>2, <1>3, <1>4, <1>5, <1>6, <1>7 DEF Next

(* The invariant of Malloc2, for all sizes of the area and all requests:   *)
(* the types, the layout of the blocks and the ledger of the client hold   *)
(* as long as num * size does not wrap around in scalloc.                  *)
THEOREM InvHolds ==
    ASSUME NoWrap
    PROVE  Spec => []Inv
<1>1. Init => Inv
  BY InvInit
<1>2. Inv /\ [Next]_vars => Inv'
  BY InvNext
<1> QED
  BY <1>1, <1>2, PTL DEF Spec

(* list, brk, mem and owned keep their types (malloc_2.cpp).               *)
THEOREM TypeCorrect ==
    ASSUME NoWrap
    PROVE  Spec => []TypeOK
<1>1. Inv => TypeOK
  BY DEF Inv
<1> QED
  BY <1>1, InvHolds, PTL

(* No block or header that smalloc lays out overlaps another one.          *)
THEOREM BlocksAreApart ==
    ASSUME NoWrap
    PROVE  Spec => []NoOverlap
<1>1. Inv => NoOverlap
  BY DEF Inv
<1> QED
  BY <1>1, InvHolds, PTL

(* The blocks in use are exactly those that the client holds.              *)
THEOREM LedgerIsExact ==
    ASSUME NoWrap
    PROVE  Spec => []Ledger
<1>1. Inv => Ledger
  BY DEF Inv
<1> QED
  BY <1>1, InvHolds, PTL
-----------------------------------------------------------------------------
(* The allocator implements the heap: what each call does to Live.         *)

(* The blocks of the client are apart, and inside the area. *)
LEMMA HeldApart ==
    ASSUME NEW l \in Seq(Block), NEW b \in Base..(Limit + 1), Layout(l, b),
           NEW o, LedgerOf(l, o), NEW p \in DOMAIN o, o[p] \in Nat
    PROVE  /\ \A i \in 0..(o[p] - 1) : p + i \in Addresses
           /\ \A q \in DOMAIN o \ {p} : o[q] \in Nat => (p + o[p] <= q \/ q + o[q] <= p)
<1>1. PICK k \in DOMAIN l : l[k].addr = p /\ l[k].size >= o[p]
  BY DEF LedgerOf
<1>2. p \in Nat \ {0} /\ l[k].size \in Nat /\ p + l[k].size <= b /\ k \in Nat
  BY <1>1, BlockFields DEF Layout
<1>3. \A i \in 0..(o[p] - 1) : p + i \in Addresses
  BY <1>1, <1>2, Constants DEF Addresses, Base
<1>4. ASSUME NEW q \in DOMAIN o \ {p}, o[q] \in Nat
      PROVE  p + o[p] <= q \/ q + o[q] <= p
  <2>1. PICK j \in DOMAIN l : l[j].addr = q /\ l[j].size >= o[q]
    BY DEF LedgerOf
  <2>2. q \in Nat /\ l[j].size \in Nat /\ j \in Nat
    BY <2>1, BlockFields
  <2>3. j < k \/ k < j
    BY <1>1, <1>2, <2>1, <2>2
  <2>4. p + l[k].size + META <= q \/ q + l[j].size + META <= p
    BY <1>1, <2>1, <2>3 DEF Layout
  <2> QED
    BY <1>1, <1>2, <1>4, <2>1, <2>2, <2>4, Constants
<1> QED
  BY <1>3, <1>4

BlockAt(p, n, bytes) == [size |-> n, data |-> [i \in 0..(n - 1) |-> bytes[p + i]]]
OwnedWith(D, p, n) == [q \in D \cup {p} |-> IF q = p THEN n ELSE owned[q]]
LiveWith(D, p, b) == [q \in D \cup {p} |-> IF q = p THEN b ELSE Live[q]]

(* Live after the block of n bytes at p joins the blocks D. *)
LEMMA PutLive ==
    ASSUME NEW D \in SUBSET DOMAIN owned, NEW p, NEW n,
           owned' = OwnedWith(D, p, n),
           \A q \in D \ {p} : \A i \in 0..(owned[q] - 1) : mem'[q + i] = mem[q + i]
    PROVE  Live' = LiveWith(D, p, BlockAt(p, n, mem'))
<1>1. DOMAIN owned' = D \cup {p} /\ owned'[p] = n
  BY DEF OwnedWith
<1>2. \A q \in D \ {p} : owned'[q] = owned[q]
  BY DEF OwnedWith
<1>3. ASSUME NEW q \in D \ {p}
      PROVE  BlockAt(q, owned'[q], mem') = Live[q]
  <2>1. [i \in 0..(owned[q] - 1) |-> mem'[q + i]] = [i \in 0..(owned[q] - 1) |-> mem[q + i]]
    OBVIOUS
  <2>2. Live[q] = [size |-> owned[q], data |-> [i \in 0..(owned[q] - 1) |-> mem[q + i]]]
    BY DEF Live
  <2> QED
    BY <1>2, <2>1, <2>2 DEF BlockAt
<1>4. Live' = [q \in D \cup {p} |-> BlockAt(q, owned'[q], mem')]
  BY <1>1 DEF Live, BlockAt
<1>5. \A q \in D \cup {p} :
        BlockAt(q, owned'[q], mem') = IF q = p THEN BlockAt(p, n, mem') ELSE Live[q]
  BY <1>1, <1>3
<1> QED
  BY <1>4, <1>5 DEF LiveWith

LEMMA LiveFields ==
    /\ DOMAIN Live = DOMAIN owned
    /\ \A p \in DOMAIN owned :
         /\ Live[p].size = owned[p]
         /\ Live[p].data = [i \in 0..(owned[p] - 1) |-> mem[p + i]]
BY DEF Live

(* A block that smalloc grants is apart from those the client holds. *)
LEMMA GrantedApart ==
    ASSUME Inv, NEW n \in Nat, NEW r \in smalloc(n), r.ptr # NULL
    PROVE  /\ n \in 1..MAX_SIZE /\ r.ptr \in Addresses /\ r.ptr \notin DOMAIN owned
           /\ \A i \in 0..(n - 1) : r.ptr + i \in Addresses
           /\ \A q \in DOMAIN owned : r.ptr + n <= q \/ q + owned[q] <= r.ptr
<1>1. TypeOK /\ NoOverlap
  BY DEF Inv
<1>2. PICK k \in Nat : /\ r.list \in Seq(Block) /\ r.brk \in brk..(Limit + 1)
                       /\ Layout(r.list, r.brk) /\ r.ptr \in Addresses
                       /\ Granted(r, n, k)
  BY <1>1, SmallocOutcome
<1>3. r.brk \in Base..(Limit + 1)
  BY <1>1, <1>2, Constants DEF TypeOK, Base
<1>4. r.ptr \notin DOMAIN owned /\ LedgerOf(r.list, Own(r.ptr, n))
  BY <1>2, GrantedLedger
<1> DEFINE o == Own(r.ptr, n)
<1>5. /\ DOMAIN o = DOMAIN owned \cup {r.ptr} /\ o[r.ptr] = n
      /\ \A q \in DOMAIN owned : o[q] = owned[q] /\ owned[q] \in Nat
  BY <1>1, <1>4 DEF Own, TypeOK
<1>6. LedgerOf(r.list, o)
  BY <1>4
<1> HIDE DEF o
<1>7. /\ \A i \in 0..(o[r.ptr] - 1) : r.ptr + i \in Addresses
      /\ \A q \in DOMAIN o \ {r.ptr} :
            o[q] \in Nat => (r.ptr + o[r.ptr] <= q \/ q + o[q] <= r.ptr)
  BY <1>2, <1>3, <1>5, <1>6, HeldApart
<1>8. \A q \in DOMAIN owned : r.ptr + n <= q \/ q + owned[q] <= r.ptr
  BY <1>4, <1>5, <1>7
<1> QED
  BY <1>2, <1>4, <1>5, <1>7, <1>8 DEF Granted

LEMMA HeapStutter ==
    ASSUME owned' = owned, mem' = mem
    PROVE  Live' = Live
BY DEF Live

LEMMA HeapMalloc ==
    ASSUME Inv, NEW size \in Requests, Malloc(size)
    PROVE  TheHeap!Malloc \/ Live' = Live
<1>1. PICK r \in smalloc(size) :
         /\ mem' = mem
         /\ owned' = IF r.ptr = NULL THEN owned ELSE Own(r.ptr, size)
  BY DEF Malloc
<1>2. CASE r.ptr = NULL
  BY <1>1, <1>2, HeapStutter
<1>3. CASE r.ptr # NULL
  <2> DEFINE p == r.ptr
             b == BlockAt(p, size, mem')
  <2>1. /\ size \in 1..MAX_SIZE /\ p \in Addresses
        /\ \A i \in 0..(size - 1) : p + i \in Addresses
        /\ \A q \in DOMAIN owned : p + size <= q \/ q + owned[q] <= p
    BY <1>3, GrantedApart, Constants
  <2>2. owned' = OwnedWith(DOMAIN owned, p, size)
    BY <1>1, <1>3 DEF Own, OwnedWith
  <2>3. Live' = LiveWith(DOMAIN owned, p, b)
    BY <1>1, <2>2, PutLive
  <2>4. b \in TheHeap!Contents(size)
    BY <1>1, <2>1 DEF Inv, TypeOK, BlockAt, TheHeap!Contents
  <2> HIDE DEF p, b
  <2>5. TheHeap!Apart(Live, p, size)
    BY <2>1, LiveFields DEF TheHeap!Apart
  <2>6. Live' = TheHeap!Put(Live, p, b)
    BY <2>3, LiveFields DEF TheHeap!Put, LiveWith
  <2> QED
    BY <2>1, <2>4, <2>5, <2>6 DEF TheHeap!Malloc
<1> QED
  BY <1>2, <1>3

LEMMA HeapCalloc ==
    ASSUME NoWrap, Inv, NEW num \in Counts, NEW size \in Requests, Calloc(num, size)
    PROVE  TheHeap!Calloc \/ Live' = Live
<1>0. PICK n \in Nat : \E r : CallocGives(n, r)
  BY CallocOutcome
<1>1. PICK r : CallocGives(n, r)
  BY <1>0
<1>2. CASE r.ptr = NULL
  <2>1. owned' = owned /\ mem' = mem
    BY <1>1, <1>2 DEF CallocGives, Inv, TypeOK
  <2> QED
    BY <2>1, HeapStutter
<1>3. CASE r.ptr # NULL
  <2> DEFINE p == r.ptr
             b == BlockAt(p, n, mem')
             z == [size |-> n, data |-> [i \in 0..(n - 1) |-> 0]]
  <2>1. /\ n \in 1..MAX_SIZE /\ p \in Addresses /\ p \notin DOMAIN owned
        /\ \A i \in 0..(n - 1) : p + i \in Addresses
        /\ \A q \in DOMAIN owned : p + n <= q \/ q + owned[q] <= p
    BY <1>1, <1>3, GrantedApart DEF CallocGives
  <2>2. owned' = OwnedWith(DOMAIN owned, p, n)
    BY <1>1, <1>3 DEF CallocGives, Own, OwnedWith
  <2>3. mem' = [a \in Addresses |-> IF a \in p..(p + n - 1) THEN 0 ELSE mem[a]]
    BY <1>1, <1>3 DEF CallocGives
  <2>4. p \in Nat /\ n \in Nat
    BY <2>1, Constants DEF Addresses, Base
  <2> HIDE DEF p, b, z
  <2>5. ASSUME NEW q \in DOMAIN owned, NEW i \in 0..(owned[q] - 1)
        PROVE  mem'[q + i] = mem[q + i]
    <3>1. q + i \in Addresses /\ q \in Nat /\ owned[q] \in Nat
      BY HeldApart, InvParts, Constants DEF TypeOK, Addresses, Base
    <3>2. q + i \notin p..(p + n - 1)
      BY <2>1, <2>4, <3>1
    <3> QED
      BY <2>3, <3>1, <3>2
  <2>6. Live' = LiveWith(DOMAIN owned, p, b)
    BY <2>2, <2>5, PutLive DEF b
  <2>7. b = z
    <3>1. \A i \in 0..(n - 1) : mem'[p + i] = 0
      BY <2>1, <2>3, <2>4
    <3> QED
      BY <3>1 DEF b, z, BlockAt
  <2>8. TheHeap!Apart(Live, p, n)
    BY <2>1, LiveFields DEF TheHeap!Apart
  <2>9. Live' = TheHeap!Put(Live, p, z)
    BY <2>6, <2>7, LiveFields DEF TheHeap!Put, LiveWith
  <2> QED
    BY <2>1, <2>8, <2>9 DEF TheHeap!Calloc, z
<1> QED
  BY <1>2, <1>3

LEMMA HeapFree ==
    ASSUME NEW p, Free(p)
    PROVE  TheHeap!Free \/ Live' = Live
<1>1. owned' = [q \in DOMAIN owned \ {p} |-> owned[q]] /\ mem' = mem
  BY DEF Free, Disown
<1>2. Live' = [q \in DOMAIN owned \ {p} |-> Live[q]]
  BY <1>1 DEF Live
<1>3. Live' = TheHeap!Without(p)
  BY <1>2, LiveFields DEF TheHeap!Without
<1>4. CASE p \in DOMAIN owned
  BY <1>3, <1>4, LiveFields DEF TheHeap!Free
<1>5. CASE p \notin DOMAIN owned
  <2>1. DOMAIN owned \ {p} = DOMAIN owned
    BY <1>5
  <2> QED
    BY <1>2, <2>1 DEF Live
<1> QED
  BY <1>4, <1>5

(* srealloc moves the block at p to q, or leaves it where it is. *)
LEMMA HeapMove ==
    ASSUME Inv, Inv', NEW p \in DOMAIN owned, NEW q, NEW n \in 1..MAX_SIZE,
           q \notin DOMAIN owned \ {p},
           owned' = OwnedWith(DOMAIN owned \ {p}, q, n),
           \A x \in DOMAIN owned \ {p} : \A i \in 0..(owned[x] - 1) : mem'[x + i] = mem[x + i],
           \A i \in 0..(n - 1) : i < owned[p] => mem'[q + i] = mem[p + i]
    PROVE  TheHeap!Realloc
<1> DEFINE D == DOMAIN owned \ {p}
           b == BlockAt(q, n, mem')
<1>1. /\ DOMAIN owned' = D \cup {q} /\ owned'[q] = n
      /\ \A x \in D : x # q /\ owned'[x] = owned[x] /\ owned'[x] \in Nat
  BY DEF OwnedWith, Inv, TypeOK
<1>2. /\ Layout(list', brk') /\ LedgerOf(list', owned')
      /\ list' \in Seq(Block) /\ brk' \in Base..(Limit + 1)
      /\ mem' \in [Addresses -> Bytes]
  BY DEF Inv, TypeOK, NoOverlap, Ledger, Layout, LedgerOf
<1>3. /\ \A i \in 0..(n - 1) : q + i \in Addresses
      /\ \A x \in D : q + n <= x \/ x + owned[x] <= q
  <2> HIDE DEF D
  <2>1. q \in DOMAIN owned' /\ owned'[q] \in Nat /\ D = DOMAIN owned' \ {q}
    BY <1>1, Constants
  <2>2. /\ \A i \in 0..(owned'[q] - 1) : q + i \in Addresses
        /\ \A x \in DOMAIN owned' \ {q} :
             owned'[x] \in Nat => (q + owned'[q] <= x \/ x + owned'[x] <= q)
    BY <1>2, <2>1, HeldApart
  <2> QED
    BY <1>1, <2>1, <2>2
<1>4. q \in Addresses
  BY <1>1 DEF Inv, TypeOK
<1>5. Live' = LiveWith(D, q, b)
  BY PutLive
<1> HIDE DEF b
<1>6. /\ DOMAIN TheHeap!Without(p) = D
      /\ \A x \in D : TheHeap!Without(p)[x] = Live[x]
  BY LiveFields DEF TheHeap!Without
<1>7. TheHeap!Apart(TheHeap!Without(p), q, n)
  BY <1>3, <1>6, LiveFields DEF TheHeap!Apart
<1>8. Live' = TheHeap!Put(TheHeap!Without(p), q, b)
  <2>1. LiveWith(D, q, b) = [x \in D \cup {q} |-> IF x = q THEN b ELSE TheHeap!Without(p)[x]]
    BY <1>1, <1>6 DEF LiveWith
  <2> QED
    BY <1>5, <1>6, <2>1 DEF TheHeap!Put
<1>9. b \in TheHeap!Contents(n)
  BY <1>2, <1>3 DEF b, BlockAt, TheHeap!Contents
<1>10. ASSUME NEW i \in 0..(n - 1), i < Live[p].size
       PROVE  b.data[i] = Live[p].data[i]
  <2>1. i < owned[p] /\ Live[p].data = [k \in 0..(owned[p] - 1) |-> mem[p + k]]
    BY <1>10, LiveFields
  <2>2. i \in 0..(owned[p] - 1)
    BY <2>1 DEF Inv, TypeOK
  <2>3. b.data[i] = mem'[q + i]
    BY DEF b, BlockAt
  <2> QED
    BY <2>1, <2>2, <2>3
<1>11. p \in DOMAIN Live
  BY LiveFields
<1> QED
  BY <1>4, <1>7, <1>8, <1>9, <1>10, <1>11 DEF TheHeap!Realloc

LEMMA HeapRealloc ==
    ASSUME Inv, NEW p \in DOMAIN owned, NEW size \in Requests, Realloc(p, size)
    PROVE  TheHeap!Realloc \/ Live' = Live
<1>1. Inv' /\ size \in 1..MAX_SIZE
  BY InvRealloc, Constants DEF Realloc
<1>2. PICK i \in DOMAIN list : list[i].addr = p /\ (Stay(i, size) \/ Move(i, size))
  BY DEF Realloc
<1>3. CASE Stay(i, size)
  <2>1. owned' = OwnedWith(DOMAIN owned \ {p}, p, size)
    <3>1. DOMAIN owned \cup {p} = (DOMAIN owned \ {p}) \cup {p}
      OBVIOUS
    <3>2. owned' = [q \in DOMAIN owned \cup {p} |-> IF q = p THEN size ELSE owned[q]]
      BY <1>2, <1>3 DEF Stay, Own
    <3> QED
      BY <3>1, <3>2 DEF OwnedWith
  <2>2. mem' = mem
    BY <1>3 DEF Stay
  <2> QED
    BY <1>1, <2>1, <2>2, HeapMove
<1>4. CASE Move(i, size)
  <2>1. PICK r \in smalloc(size) :
          /\ IF r.ptr = NULL
             THEN UNCHANGED <<mem, owned>>
             ELSE /\ mem' = Copy(p, r.ptr, list[i].size)
                  /\ owned' = [q \in (DOMAIN owned \ {p}) \cup {r.ptr} |->
                                 IF q = r.ptr THEN size ELSE owned[q]]
    BY <1>2, <1>4 DEF Move
  <2>2. CASE r.ptr = NULL
    BY <2>1, <2>2, HeapStutter
  <2>3. CASE r.ptr # NULL
    <3> DEFINE to == r.ptr
               n == list[i].size
    <3>1. /\ to \in Addresses /\ to \notin DOMAIN owned
          /\ \A k \in 0..(size - 1) : to + k \in Addresses
          /\ \A q \in DOMAIN owned : to + size <= q \/ q + owned[q] <= to
      BY <1>1, <2>3, GrantedApart, Constants
    <3>2. mem' = [a \in Addresses |-> IF a \in to..(to + n - 1) THEN mem[p + (a - to)] ELSE mem[a]]
      BY <2>1, <2>3 DEF Copy
    <3>3. owned' = OwnedWith(DOMAIN owned \ {p}, to, size)
      BY <2>1, <2>3 DEF OwnedWith
    <3>4. n \in Nat /\ n < size /\ to \in Nat
      BY <1>2, <1>4, <3>1, BlockFields, Constants DEF Move, Inv, TypeOK, Addresses, Base
    <3>5. owned[p] \in Nat /\ owned[p] <= n
      <4>1. PICK k \in DOMAIN list : list[k].addr = p /\ list[k].size >= owned[p]
        BY DEF Inv, Ledger
      <4>2. k = i
        BY <1>2, <4>1, Distinct, InvParts DEF TypeOK
      <4> QED
        BY <4>1, <4>2, <3>4 DEF Inv, TypeOK
    <3> HIDE DEF to, n
    <3>6. ASSUME NEW x \in DOMAIN owned \ {p}, NEW k \in 0..(owned[x] - 1)
          PROVE  mem'[x + k] = mem[x + k]
      <4>1. x + k \in Addresses /\ x \in Nat /\ owned[x] \in Nat
        BY HeldApart, InvParts, Constants DEF TypeOK, Addresses, Base
      <4>2. x + k \notin to..(to + n - 1)
        BY <1>1, <3>1, <3>4, <4>1
      <4> QED
        BY <3>2, <4>1, <4>2
    <3>7. ASSUME NEW k \in 0..(size - 1), k < owned[p]
          PROVE  mem'[to + k] = mem[p + k]
      <4>1. to + k \in Addresses /\ to + k \in to..(to + n - 1) /\ (to + k) - to = k
        BY <3>1, <3>4, <3>5, <3>7
      <4> QED
        BY <3>2, <4>1
    <3> QED
      BY <1>1, <3>1, <3>3, <3>6, <3>7, HeapMove
  <2> QED
    BY <2>2, <2>3
<1> QED
  BY <1>2, <1>3, <1>4

LEMMA HeapWrite ==
    ASSUME Inv, NEW p \in DOMAIN owned, NEW i \in 0..(owned[p] - 1), NEW v \in Bytes,
           Write(p, i, v)
    PROVE  TheHeap!Write
<1>1. mem' = [mem EXCEPT ![p + i] = v] /\ owned' = owned
  BY DEF Write
<1>2. /\ Layout(list, brk) /\ LedgerOf(list, owned)
      /\ list \in Seq(Block) /\ brk \in Base..(Limit + 1)
      /\ mem \in [Addresses -> Bytes]
      /\ \A q \in DOMAIN owned : q \in Nat /\ owned[q] \in Nat
  BY InvParts, Constants DEF TypeOK, Addresses, Base
<1>3. p + i \in Addresses
  BY <1>2, HeldApart
<1>4. ASSUME NEW q \in DOMAIN owned \ {p}, NEW k \in 0..(owned[q] - 1)
      PROVE  mem'[q + k] = mem[q + k]
  <2>1. p + owned[p] <= q \/ q + owned[q] <= p
    BY <1>2, HeldApart
  <2>2. q + k # p + i
    BY <1>2, <2>1
  <2>3. q + k \in Addresses
    BY <1>2, HeldApart
  <2> QED
    BY <1>1, <1>2, <2>2, <2>3
<1>5. owned' = OwnedWith(DOMAIN owned, p, owned[p])
  <2>1. owned = [q \in DOMAIN owned |-> owned[q]] /\ DOMAIN owned \cup {p} = DOMAIN owned
    BY DEF Inv, TypeOK
  <2> QED
    BY <1>1, <2>1 DEF OwnedWith
<1>6. Live' = LiveWith(DOMAIN owned, p, BlockAt(p, owned[p], mem'))
  BY <1>4, <1>5, PutLive
<1>7. BlockAt(p, owned[p], mem')
        = [size |-> Live[p].size, data |-> [Live[p].data EXCEPT ![i] = v]]
  <2>1. \A k \in 0..(owned[p] - 1) : p + k \in Addresses
    BY <1>2, HeldApart
  <2>2. \A k \in 0..(owned[p] - 1) : mem'[p + k] = IF k = i THEN v ELSE mem[p + k]
    BY <1>1, <1>2, <2>1
  <2>3. [k \in 0..(owned[p] - 1) |-> mem'[p + k]]
          = [[k \in 0..(owned[p] - 1) |-> mem[p + k]] EXCEPT ![i] = v]
    BY <2>2
  <2> QED
    BY <2>3, LiveFields DEF BlockAt
<1>8. Live' = TheHeap!Put(Live, p, [size |-> Live[p].size,
                                    data |-> [Live[p].data EXCEPT ![i] = v]])
  BY <1>6, <1>7, LiveFields DEF LiveWith, TheHeap!Put
<1> QED
  BY <1>8, LiveFields DEF TheHeap!Write

LEMMA HeapNext ==
    ASSUME NoWrap, Inv, [Next]_vars
    PROVE  [TheHeap!Next]_Live
<1>1. ASSUME NEW size \in Requests, Malloc(size) PROVE TheHeap!Malloc \/ Live' = Live
  BY <1>1, HeapMalloc
<1>2. ASSUME NEW num \in Counts, NEW size \in Requests, Calloc(num, size)
      PROVE  TheHeap!Calloc \/ Live' = Live
  BY <1>2, HeapCalloc
<1>3. ASSUME NEW p \in Addresses, Free(p) PROVE TheHeap!Free \/ Live' = Live
  BY <1>3, HeapFree
<1>4. ASSUME NEW p \in DOMAIN owned, NEW size \in Requests, Realloc(p, size)
      PROVE  TheHeap!Realloc \/ Live' = Live
  BY <1>4, HeapRealloc
<1>5. ASSUME NEW p \in DOMAIN owned, NEW i \in 0..(owned[p] - 1), NEW v \in Bytes, Write(p, i, v)
      PROVE  TheHeap!Write
  BY <1>5, HeapWrite
<1>6. ASSUME ForeignSbrk \/ UNCHANGED vars PROVE Live' = Live
  BY <1>6, HeapStutter DEF ForeignSbrk, vars
<1> QED
  BY <1>1, <1>2, <1>3, <1>4, <1>5, <1>6 DEF Next, TheHeap!Next

(* smalloc, scalloc, sfree and srealloc implement the heap: what a client  *)
(* holds is apart from all else, keeps its bytes when srealloc moves it    *)
(* and is zero when scalloc returns it, whatever sbrk answers.             *)
THEOREM AllocatorIsAHeap ==
    ASSUME NoWrap
    PROVE  Spec => ImplementsHeap
<1>1. Init => TheHeap!Init
  BY DEF Init, TheHeap!Init, Live
<1>2. Inv /\ [Next]_vars => [TheHeap!Next]_Live
  BY HeapNext
<1> QED
  BY <1>1, <1>2, InvHolds, PTL DEF Spec, TheHeap!Spec, ImplementsHeap
-----------------------------------------------------------------------------
(* The counters.  Each is a sum over the list or a part of it (see Sums).  *)

SizeOf == [i \in DOMAIN list |-> list[i].size]

LEMMA BytesTotal ==
    ASSUME NEW blocks \in SUBSET DOMAIN list, IsFiniteSet(blocks)
    PROVE  Bytes_of(blocks) = Total(SizeOf, blocks)
<1> DEFINE Sum(it) == [s \in SUBSET blocks |->
                         IF s = {} THEN 0 ELSE list[Pick(s)].size + it[s \ {Pick(s)}]]
           j == CHOOSE it : it = Sum(it)
<1>1. ASSUME NEW it
      PROVE  Sum(it) = [s \in SUBSET blocks |->
                         IF s = {} THEN 0 ELSE SizeOf[Pick(s)] + it[s \ {Pick(s)}]]
  <2>1. \A s \in SUBSET blocks : s # {} => SizeOf[Pick(s)] = list[Pick(s)].size
    BY PickIn DEF SizeOf
  <2> QED
    BY <2>1
<1>2. \E it : it = Sum(it)
  <2>1. PICK it : SumsUp(it, SizeOf, blocks)
    BY SumsUpExists
  <2> QED
    BY <1>1, <2>1 DEF SumsUp
<1>3. j = Sum(j)
  BY <1>2
<1>4. SumsUp(j, SizeOf, blocks)
  BY <1>1, <1>3 DEF SumsUp
<1>5. Bytes_of(blocks) = j[blocks]
  BY DEF Bytes_of, MapThenSumSet, MapThenFoldSet, Pick
<1> HIDE DEF j
<1> QED
  BY <1>4, <1>5, TotalIs

LEMMA TotalOwned ==
    ASSUME IsFiniteSet(DOMAIN owned)
    PROVE  MapThenSumSet(LAMBDA p : owned[p], DOMAIN owned) = Total(owned, DOMAIN owned)
<1> DEFINE D == DOMAIN owned
           j == CHOOSE it : SumsUp(it, owned, D)
<1>1. SumsUp(j, owned, D)
  BY SumsUpExists
<1>2. MapThenSumSet(LAMBDA p : owned[p], D) = j[D]
  BY DEF MapThenSumSet, MapThenFoldSet, Pick, SumsUp
<1> QED
  BY <1>2 DEF Total

(* The blocks up to the n-th and their headers end at or before its end. *)
LEMMA PrefixFits ==
    ASSUME Inv, NEW n \in 0..Len(list)
    PROVE  Base + Total(SizeOf, 1..n) + n * META <=
             IF n = 0 THEN Base ELSE list[n].addr + list[n].size
<1> DEFINE End(k) == IF k = 0 THEN Base ELSE list[k].addr + list[k].size
           B == {k \in 0..Len(list) : ~(Base + Total(SizeOf, 1..k) + k * META <= End(k))}
<1> SUFFICES ASSUME B # {} PROVE FALSE
  OBVIOUS
<1>1. list \in Seq(Block) /\ Len(list) \in Nat /\ DOMAIN list = 1..Len(list)
  BY DEF Inv, TypeOK
<1>2. PICK k \in B : \A m \in B : k <= m
  <2>1. B \in SUBSET Nat
    BY <1>1
  <2> HIDE DEF B
  <2> QED
    BY <2>1, Smallest
<1>3. k \in 0..Len(list) /\ ~(Base + Total(SizeOf, 1..k) + k * META <= End(k))
  BY <1>2
<1>4. k # 0
  <2>1. k = 0 => Total(SizeOf, 1..k) = 0
    BY TotalEmpty
  <2> QED
    BY <1>3, <2>1, Constants DEF Base
<1>5. k \in 1..Len(list) /\ k - 1 \in 0..Len(list) /\ k - 1 \in Nat
  BY <1>1, <1>3, <1>4
<1>6. Base + Total(SizeOf, 1..(k - 1)) + (k - 1) * META <= End(k - 1)
  <2>1. k - 1 \notin B
    BY <1>2, <1>5
  <2> QED
    BY <1>5, <2>1
<1> DEFINE S == 1..k
           T == 1..(k - 1)
<1>7. Total(SizeOf, S) = list[k].size + Total(SizeOf, T) /\ Total(SizeOf, T) \in Nat
  <2>1. IsFiniteSet(S) /\ IsFiniteSet(T) /\ k \in S /\ T = S \ {k}
    BY <1>5, UpTo
  <2>2. \A i \in S : SizeOf[i] \in Nat /\ SizeOf[i] = list[i].size
    BY <1>1, <1>5, BlockFields DEF SizeOf
  <2>5. \A i \in S : SizeOf[i] \in Nat
    BY <2>2
  <2> HIDE DEF S, T, B
  <2>3. Total(SizeOf, S) = SizeOf[k] + Total(SizeOf, T)
    <3>1. Total(SizeOf, S) = SizeOf[k] + Total(SizeOf, S \ {k})
      BY <2>1, <2>5, TotalRemove
    <3> QED
      BY <2>1, <3>1
  <2>4. Total(SizeOf, T) \in Nat
    BY <2>1, <2>2, TotalNat
  <2> QED
    BY <2>1, <2>2, <2>3, <2>4
<1>8. End(k - 1) + META <= list[k].addr
  <2>1. CASE k = 1
    BY <1>1, <1>5, <2>1, Constants DEF Inv, NoOverlap, Base
  <2>2. CASE k # 1
    <3>1. k - 1 \in DOMAIN list /\ k \in DOMAIN list /\ k - 1 < k /\ k - 1 # 0
      BY <1>1, <1>5, <2>2
    <3> QED
      BY <3>1 DEF Inv, NoOverlap
  <2> QED
    BY <2>1, <2>2
<1>9. /\ list[k].addr \in Nat /\ list[k].size \in Nat /\ META \in Nat
      /\ End(k) = list[k].addr + list[k].size /\ End(k - 1) \in Nat
  <2>1. k \in DOMAIN list /\ list[k].addr \in Nat /\ list[k].size \in Nat
    BY <1>1, <1>5, BlockFields
  <2>2. CASE k = 1
    BY <1>4, <2>1, <2>2, Constants DEF Base
  <2>3. CASE k # 1
    <3>1. k - 1 \in DOMAIN list /\ k - 1 # 0
      BY <1>1, <1>5, <2>3
    <3>2. list[k - 1].addr \in Nat /\ list[k - 1].size \in Nat
      BY <1>1, <3>1, BlockFields
    <3> QED
      BY <1>4, <2>1, <3>1, <3>2, Constants
  <2> QED
    BY <2>2, <2>3
<1>10. k * META = (k - 1) * META + META /\ k * META \in Nat /\ (k - 1) * META \in Nat
  BY <1>5, Constants
<1> DEFINE e == End(k)
           d == End(k - 1)
           a == k * META
           c == (k - 1) * META
           s == Total(SizeOf, S)
           t == Total(SizeOf, T)
<1>11. ~(Base + s + a <= e) /\ Base + t + c <= d
  BY <1>3, <1>6
<1>12. /\ s = list[k].size + t /\ t \in Nat /\ a = c + META /\ c \in Nat /\ d \in Nat
       /\ e = list[k].addr + list[k].size /\ d + META <= list[k].addr
       /\ list[k].addr \in Nat /\ list[k].size \in Nat /\ META \in Nat
  BY <1>7, <1>8, <1>9, <1>10
<1> HIDE DEF e, d, a, c, s, t, S, T, End, B
<1> QED
  BY <1>11, <1>12 DEF Base

LEMMA UsedAreOwned ==
    ASSUME Inv
    PROVE  LET U == DOMAIN list \ free_blocks IN
             /\ IsFiniteSet(DOMAIN owned)
             /\ Cardinality(U) = Cardinality(DOMAIN owned)
             /\ Total(owned, DOMAIN owned) <= Total(SizeOf, U)
<1> DEFINE U == DOMAIN list \ free_blocks
           At(p) == CHOOSE i \in U : list[i].addr = p
           g == [p \in DOMAIN owned |-> At(p)]
<1>1. /\ list \in Seq(Block) /\ Layout(list, brk)
      /\ owned \in [DOMAIN owned -> Nat \ {0}]
  BY DEF Inv, TypeOK, NoOverlap, Layout
<1>2. \A i \in U : i \in DOMAIN list /\ ~list[i].is_free
  BY DEF free_blocks
<1>3. ASSUME NEW p \in DOMAIN owned
      PROVE  \E i \in U : list[i].addr = p /\ list[i].size >= owned[p]
  BY DEF Inv, Ledger, free_blocks
<1>4. ASSUME NEW p \in DOMAIN owned
      PROVE  g[p] \in U /\ list[g[p]].addr = p /\ list[g[p]].size >= owned[p]
  <2>1. PICK i \in U : list[i].addr = p /\ list[i].size >= owned[p]
    BY <1>3
  <2>2. At(p) \in U /\ list[At(p)].addr = p
    BY <2>1
  <2>3. At(p) = i
    BY <1>1, <1>2, <2>1, <2>2, Distinct
  <2> QED
    BY <2>1, <2>2, <2>3
<1>5. ASSUME NEW i \in U PROVE list[i].addr \in DOMAIN owned /\ g[list[i].addr] = i
  <2>1. list[i].addr \in DOMAIN owned
    BY <1>2 DEF Inv, Ledger
  <2>2. i \in DOMAIN list /\ g[list[i].addr] \in DOMAIN list /\ list[g[list[i].addr]].addr = list[i].addr
    BY <1>2, <1>4, <2>1
  <2> HIDE DEF g
  <2> QED
    BY <1>1, <2>1, <2>2, Distinct
<1>6. g \in Bijection(DOMAIN owned, U)
  <2>1. g \in [DOMAIN owned -> U]
    BY <1>4
  <2>2. \A p, q \in DOMAIN owned : g[p] = g[q] => p = q
    BY <1>4
  <2>3. \A i \in U : \E p \in DOMAIN owned : g[p] = i
    BY <1>5
  <2> HIDE DEF g, U
  <2> QED
    BY <2>1, <2>2, <2>3 DEF Bijection, Injection, Surjection, IsInjective
<1>7. IsFiniteSet(U)
  <2>1. DOMAIN list = 1..Len(list) /\ Len(list) \in Nat
    BY <1>1
  <2>2. IsFiniteSet(DOMAIN list)
    BY <2>1, UpTo
  <2> QED
    BY <2>2, FS_Subset
<1> HIDE DEF g, At
<1>8. IsFiniteSet(DOMAIN owned) /\ Cardinality(U) = Cardinality(DOMAIN owned)
  <2>1. g \in Injection(DOMAIN owned, U) /\ g \in Surjection(DOMAIN owned, U)
    BY <1>6 DEF Bijection
  <2> HIDE DEF U
  <2> QED
    BY <1>7, <2>1, FS_Injection
<1>9. Total(owned, DOMAIN owned) <= Total(SizeOf, U)
  <2>1. \A i \in U : SizeOf[i] \in Nat /\ SizeOf[i] = list[i].size
    BY <1>1, <1>2, BlockFields DEF SizeOf
  <2>2. \A p \in DOMAIN owned : owned[p] \in Nat /\ g[p] \in U /\ owned[p] <= SizeOf[g[p]]
    BY <1>1, <1>4, <2>1
  <2>3. \A p, q \in DOMAIN owned : g[p] = g[q] => p = q
    BY <1>4
  <2> DEFINE D == DOMAIN owned
  <2> HIDE DEF U, D
  <2> QED
    BY <1>7, <1>8, <2>1, <2>2, <2>3, TotalInject DEF D
<1> QED
  BY <1>8, <1>9

LEMMA InvCounters == Inv => CountersAgree
<1> SUFFICES ASSUME Inv PROVE CountersAgree
  OBVIOUS
<1> DEFINE A == DOMAIN list
           F == free_blocks
           U == A \ F
<1>1. list \in Seq(Block) /\ A = 1..Len(list) /\ Len(list) \in Nat
  BY DEF Inv, TypeOK
<1>2. IsFiniteSet(A) /\ F \subseteq A /\ Cardinality(A) = Len(list)
  BY <1>1, FS_Interval DEF free_blocks
<1>3. IsFiniteSet(F) /\ IsFiniteSet(U) /\ A = F \cup U /\ F \cap U = {}
  BY <1>2, FS_Subset
<1>4. Cardinality(A) = Cardinality(F) + Cardinality(U)
  <2> HIDE DEF A, F, U
  <2>1. Cardinality(F \cup U) = Cardinality(F) + Cardinality(U)
    BY <1>3, FS_Union, FS_CardinalityType, FS_EmptySet
  <2> QED
    BY <1>3, <2>1
<1>5. \A i \in A : SizeOf[i] \in Nat
  BY <1>1, BlockFields DEF SizeOf
<1>6. Total(SizeOf, A) = Total(SizeOf, F) + Total(SizeOf, U)
  <2> HIDE DEF A, F, U
  <2>1. Total(SizeOf, F \cup U) = Total(SizeOf, F) + Total(SizeOf, U)
    BY <1>3, <1>5, TotalUnion
  <2> QED
    BY <1>3, <2>1
<1>7. num_allocated_bytes = Total(SizeOf, A) /\ num_free_bytes = Total(SizeOf, F)
  BY <1>2, <1>3, BytesTotal DEF num_allocated_bytes, num_free_bytes
<1>8. /\ IsFiniteSet(DOMAIN owned)
      /\ Cardinality(U) = Cardinality(DOMAIN owned)
      /\ Total(owned, DOMAIN owned) <= Total(SizeOf, U)
  BY UsedAreOwned
<1>9. /\ Total(SizeOf, F) \in Nat /\ Total(SizeOf, U) \in Nat
      /\ Cardinality(F) \in Nat /\ Cardinality(U) \in Nat
  <2>1. \A i \in F : SizeOf[i] \in Nat
    BY <1>2, <1>5
  <2>2. \A i \in U : SizeOf[i] \in Nat
    BY <1>5
  <2> HIDE DEF F, U
  <2> QED
    BY <1>3, <2>1, <2>2, TotalNat, FS_CardinalityType
<1>10. num_allocated_blocks - num_free_blocks = Cardinality(DOMAIN owned)
  BY <1>4, <1>8, <1>9 DEF num_allocated_blocks, num_free_blocks
<1>11. num_allocated_bytes - num_free_bytes
         >= MapThenSumSet(LAMBDA p : owned[p], DOMAIN owned)
  <2>1. MapThenSumSet(LAMBDA p : owned[p], DOMAIN owned) = Total(owned, DOMAIN owned)
    BY <1>8, TotalOwned
  <2>2. Total(owned, DOMAIN owned) \in Nat
    <3>1. \A p \in DOMAIN owned : owned[p] \in Nat
      BY DEF Inv, TypeOK
    <3> QED
      BY <1>8, <3>1, TotalNat
  <2> HIDE DEF A, F, U
  <2> QED
    BY <1>6, <1>7, <1>8, <1>9, <2>1, <2>2
<1>12. Base + num_allocated_bytes + num_meta_data_bytes <= brk
  <2>1. Base + Total(SizeOf, 1..Len(list)) + Len(list) * META <=
          IF Len(list) = 0 THEN Base ELSE list[Len(list)].addr + list[Len(list)].size
    BY <1>1, PrefixFits
  <2>2. (IF Len(list) = 0 THEN Base ELSE list[Len(list)].addr + list[Len(list)].size) <= brk
    <3>1. brk \in Nat /\ Base <= brk
      BY Constants DEF Inv, TypeOK, Base
    <3>2. Len(list) # 0 => Len(list) \in DOMAIN list
      BY <1>1
    <3> QED
      BY <3>1, <3>2 DEF Inv, NoOverlap
  <2> DEFINE n == Len(list)
             e == IF n = 0 THEN Base ELSE list[n].addr + list[n].size
             s == Total(SizeOf, A)
             m == n * META
  <2>3. s \in Nat /\ m \in Nat /\ brk \in Nat /\ e \in Nat
    <3>1. s \in Nat
      BY <1>6, <1>9
    <3>2. brk \in Nat /\ m \in Nat
      BY <1>1, Constants DEF Inv, TypeOK, Base
    <3>3. n # 0 => n \in DOMAIN list
      BY <1>1
    <3>4. e \in Nat
      BY <1>1, <3>3, BlockFields DEF Base
    <3> QED
      BY <3>1, <3>2, <3>4
  <2>4. num_meta_data_bytes = m /\ num_allocated_bytes = s
    BY <1>2, <1>7 DEF num_meta_data_bytes, num_allocated_blocks
  <2>5. Base + s + m <= e /\ e <= brk
    BY <1>1, <2>1, <2>2
  <2> HIDE DEF s, m, e, n
  <2> QED
    BY <2>3, <2>4, <2>5 DEF Base
<1> QED
  BY <1>10, <1>11, <1>12 DEF CountersAgree

(* The counters are right in every state: as many blocks are in use as the *)
(* client holds, of at least the bytes it asked for, and the blocks and    *)
(* their headers fit below the break.                                      *)
THEOREM CountersAlwaysAgree ==
    ASSUME NoWrap
    PROVE  Spec => []CountersAgree
BY InvHolds, InvCounters, PTL
=============================================================================
