---------------------------- MODULE Malloc3Proofs ----------------------------
(***************************************************************************)
(* The allocator of parts 3 and 4, for every size of the heap, alignment,  *)
(* threshold and request: as long as no call has met one of the recorded   *)
(* flaws, the list, the histogram, the counters and what the client holds  *)
(* agree.                                                                  *)
(*                                                                         *)
(* The links of the headers are pointers, so that the invariant says which *)
(* blocks they lead to: there are sets L (the list of the heap), M (the    *)
(* mapped blocks) and F (the free blocks), of which                        *)
(*   Linked    first, next and prev link the blocks of a set both ways,    *)
(*   HeapOK    L and M are linked, lie apart, and fill the heap,           *)
(*   HistOK    each bucket links the blocks of F of its sizes, in order,   *)
(*   State     both, as it is between two writes of a function,            *)
(*   Rest      the blocks of F are the free ones of L, but for a block     *)
(*             that has just been taken into use,                          *)
(*   CalmBut   no two free blocks are neighbours, but for some,            *)
(*   Tidy      a heap at rest, as it is between two calls,                 *)
(*   Held      and the client holds all its blocks in use.                 *)
(* One lemma says for each function how it changes L, M and F, and that it *)
(* records a flaw where it does not (Outcome: what an allocating call      *)
(* returns).  The Later lemmas say that flaws stay recorded, so that a     *)
(* call without a flaw has no step with one.                               *)
(***************************************************************************)
EXTENDS Malloc3, Sums

-----------------------------------------------------------------------------
(* LISTS: what links both ways, and what a walk along them finds. *)

(* The blocks of B, linked both ways, from first on. *)
Linked(B, first, next, prev) ==
    /\ first \in B \cup {NULL}
    /\ \A b \in B :
         /\ next[b] \in B \cup {NULL} /\ prev[b] \in B \cup {NULL}
         /\ next[b] # NULL => prev[next[b]] = b
         /\ prev[b] # NULL => next[prev[b]] = b
         /\ prev[b] = NULL <=> b = first
    /\ \A S \in SUBSET B : S # {} => \E b \in S : prev[b] \notin S

(* A list depends on the links of its own blocks only.                     *)
LEMMA LinkedSame ==
    ASSUME NEW B, NEW first, NEW nx, NEW pv, Linked(B, first, nx, pv), NEW nx2, NEW pv2,
           \A b \in B : nx2[b] = nx[b] /\ pv2[b] = pv[b]
    PROVE  Linked(B, first, nx2, pv2)
<1>1. \A S \in SUBSET B : S # {} => \E b \in S : pv2[b] \notin S
  BY DEF Linked
<1> QED
  BY <1>1 DEF Linked

(* Block b is taken out of the list. *)
TakenOut(B, b, first, nx, pv, first2, nx2, pv2) ==
    /\ \A x \in B \ {b} : /\ nx2[x] = IF x = pv[b] THEN nx[b] ELSE nx[x]
                         /\ pv2[x] = IF x = nx[b] THEN pv[b] ELSE pv[x]
    /\ first2 = IF pv[b] = NULL THEN nx[b] ELSE first

(* Block b is put in between p and n. *)
PutIn(B, b, p, n, first, nx, pv, first2, nx2, pv2) ==
    /\ \A x \in B : /\ nx2[x] = IF x = p THEN b ELSE nx[x]
                   /\ pv2[x] = IF x = n THEN b ELSE pv[x]
    /\ nx2[b] = n /\ pv2[b] = p
    /\ first2 = IF p = NULL THEN b ELSE first

Neighbours(B, p, n, first, nx, pv) ==
    /\ p \in B \cup {NULL} /\ n \in B \cup {NULL}
    /\ IF p = NULL THEN n = first ELSE n = nx[p]
    /\ IF n = NULL THEN B = {} \/ p # NULL ELSE p = pv[n]

(* Taking a block out of a list leaves the list of the others.             *)
LEMMA LinkedRemove ==
    ASSUME NEW B, NULL \notin B, NEW first, NEW nx, NEW pv, Linked(B, first, nx, pv),
           NEW b, b \in B, NEW first2, NEW nx2, NEW pv2,
           TakenOut(B, b, first, nx, pv, first2, nx2, pv2)
    PROVE  Linked(B \ {b}, first2, nx2, pv2)
<1> DEFINE C == B \ {b}
<1> USE DEF TakenOut
<1>1. pv[b] # b /\ nx[b] # b
  <2>1. {b} \in SUBSET B /\ {b} # {}
    OBVIOUS
  <2>2. pv[b] \notin {b}
    BY <2>1 DEF Linked
  <2> QED
    BY <2>2 DEF Linked
<1>2. first2 \in C \cup {NULL}
  BY <1>1 DEF Linked
<1>3. ASSUME NEW x \in C
      PROVE  /\ nx2[x] \in C \cup {NULL} /\ pv2[x] \in C \cup {NULL}
             /\ nx2[x] # NULL => pv2[nx2[x]] = x
             /\ pv2[x] # NULL => nx2[pv2[x]] = x
             /\ pv2[x] = NULL <=> x = first2
  <2>1. /\ x \in B /\ x # b /\ nx[x] \in B \cup {NULL} /\ pv[x] \in B \cup {NULL}
        /\ nx[x] # NULL => pv[nx[x]] = x
        /\ pv[x] # NULL => nx[pv[x]] = x
        /\ pv[x] = NULL <=> x = first
    BY DEF Linked
  <2>2. /\ nx[b] \in B \cup {NULL} /\ pv[b] \in B \cup {NULL}
        /\ nx[b] # NULL => pv[nx[b]] = b
        /\ pv[b] # NULL => nx[pv[b]] = b
        /\ pv[b] = NULL <=> b = first
    BY DEF Linked
  <2>3. nx[x] = b <=> x = pv[b]
    BY <2>1, <2>2
  <2>4. pv[x] = b <=> x = nx[b]
    BY <2>1, <2>2
  <2>5. nx2[x] \in C \cup {NULL} /\ pv2[x] \in C \cup {NULL}
    BY <1>1, <2>1, <2>2, <2>3, <2>4
  <2>6. nx2[x] # NULL => pv2[nx2[x]] = x
    BY <1>1, <2>1, <2>2, <2>3, <2>4, <2>5
  <2>7. pv2[x] # NULL => nx2[pv2[x]] = x
    BY <1>1, <2>1, <2>2, <2>3, <2>4, <2>5
  <2>8. pv2[x] = NULL <=> x = first2
    BY <1>1, <2>1, <2>2, <2>3, <2>4, <2>5
  <2> QED
    BY <2>5, <2>6, <2>7, <2>8
<1>4. ASSUME NEW S \in SUBSET C, S # {} PROVE \E x \in S : pv2[x] \notin S
  <2> SUFFICES ASSUME \A x \in S : pv2[x] \in S PROVE FALSE
    OBVIOUS
  <2>1. nx[b] \in S => pv[b] \in S
    BY <1>1
  <2>2. \A x \in S : x # nx[b] => pv[x] \in S
    OBVIOUS
  <2>3. nx[b] \in S => pv[nx[b]] = b
    BY DEF Linked
  <2>4. \A T \in SUBSET B : T # {} => \E x \in T : pv[x] \notin T
    BY DEF Linked
  <2>5. S \in SUBSET B /\ S \cup {b} \in SUBSET B
    OBVIOUS
  <2>6. CASE nx[b] \in S
    <3>1. \A x \in S \cup {b} : pv[x] \in S \cup {b}
      BY <2>1, <2>2, <2>3, <2>6
    <3> QED
      BY <2>4, <2>5, <3>1
  <2>7. CASE nx[b] \notin S
    <3>1. \A x \in S : pv[x] \in S
      BY <2>2, <2>7
    <3> QED
      BY <1>4, <2>4, <2>5, <3>1
  <2> QED
    BY <2>6, <2>7
<1> HIDE DEF C
<1>5. Linked(C, first2, nx2, pv2)
  BY <1>2, <1>3, <1>4 DEF Linked
<1> QED
  BY <1>5 DEF C

(* Putting a block between two neighbours leaves the list of all.          *)
LEMMA LinkedInsert ==
    ASSUME NEW B, NULL \notin B, NEW first, NEW nx, NEW pv, Linked(B, first, nx, pv),
           NEW b, b \notin B, b # NULL, NEW p, NEW n, Neighbours(B, p, n, first, nx, pv),
           NEW first2, NEW nx2, NEW pv2, PutIn(B, b, p, n, first, nx, pv, first2, nx2, pv2)
    PROVE  Linked(B \cup {b}, first2, nx2, pv2)
<1> DEFINE C == B \cup {b}
<1> USE DEF PutIn, Neighbours
<1>1. first2 \in C \cup {NULL}
  BY DEF Linked
<1>2. ASSUME NEW x \in B
      PROVE  /\ nx2[x] \in C \cup {NULL} /\ pv2[x] \in C \cup {NULL}
             /\ nx2[x] # NULL => pv2[nx2[x]] = x
             /\ pv2[x] # NULL => nx2[pv2[x]] = x
             /\ pv2[x] = NULL <=> x = first2
  <2>1. /\ nx[x] \in B \cup {NULL} /\ pv[x] \in B \cup {NULL}
        /\ nx[x] # NULL => pv[nx[x]] = x
        /\ pv[x] # NULL => nx[pv[x]] = x
        /\ pv[x] = NULL <=> x = first
    BY DEF Linked
  <2>2. x # b
    OBVIOUS
  <2>3. x # p /\ nx[x] # NULL => nx[x] # n
    BY <2>1 DEF Linked
  <2>4. x # n /\ pv[x] # NULL => pv[x] # p
    BY <2>1 DEF Linked
  <2>5. nx2[x] \in C \cup {NULL} /\ pv2[x] \in C \cup {NULL}
    BY <2>1
  <2>6. nx2[x] # NULL => pv2[nx2[x]] = x
    BY <2>1, <2>2, <2>3, <2>5
  <2>7. pv2[x] # NULL => nx2[pv2[x]] = x
    BY <2>1, <2>2, <2>4, <2>5
  <2>8. pv2[x] = NULL <=> x = first2
    BY <2>1, <2>2 DEF Linked
  <2> QED
    BY <2>5, <2>6, <2>7, <2>8
<1>3. /\ nx2[b] \in C \cup {NULL} /\ pv2[b] \in C \cup {NULL}
      /\ nx2[b] # NULL => pv2[nx2[b]] = b
      /\ pv2[b] # NULL => nx2[pv2[b]] = b
      /\ pv2[b] = NULL <=> b = first2
  BY DEF Linked
<1>4. ASSUME NEW S \in SUBSET C, S # {} PROVE \E x \in S : pv2[x] \notin S
  <2> SUFFICES ASSUME \A x \in S : pv2[x] \in S PROVE FALSE
    OBVIOUS
  <2>1. CASE S = {b}
    BY <2>1
  <2>2. CASE S # {b}
    <3>1. S \ {b} \in SUBSET B /\ S \ {b} # {}
      <4>1. S \ {b} # {}
        BY <1>4, <2>2
      <4> QED
        BY <4>1
    <3>2. PICK x \in S \ {b} : pv[x] \notin S \ {b}
      BY <3>1 DEF Linked
    <3>3. x \in B /\ pv[x] # b
      BY <3>1 DEF Linked
    <3>4. CASE x = n
      BY <3>2, <3>3, <3>4
    <3>5. CASE x # n
      BY <3>2, <3>3, <3>5
    <3> QED
      BY <3>4, <3>5
  <2> QED
    BY <2>1, <2>2
<1>5. ASSUME NEW x \in C
      PROVE  /\ nx2[x] \in C \cup {NULL} /\ pv2[x] \in C \cup {NULL}
             /\ nx2[x] # NULL => pv2[nx2[x]] = x
             /\ pv2[x] # NULL => nx2[pv2[x]] = x
             /\ pv2[x] = NULL <=> x = first2
  BY <1>2, <1>3
<1> HIDE DEF C
<1>6. Linked(C, first2, nx2, pv2)
  BY <1>1, <1>4, <1>5 DEF Linked
<1> QED
  BY <1>6 DEF C

(* From each block on, the list of those that next leads to. *)
IsChain(c, D, next) ==
    c = [x \in D |-> {x} \cup (IF next[x] \in D THEN c[next[x]] ELSE {})]

(* The recursive function that Chain defines exists: the blocks that can   *)
(* be reached from each one satisfy its equation.                          *)
LEMMA ChainExists ==
    ASSUME NEW D, NEW nx
    PROVE  \E c : IsChain(c, D, nx)
<1> DEFINE Closed(S) == \A x \in S : nx[x] \in D => nx[x] \in S
           Above(x, y) == \A S \in SUBSET D : x \in S /\ Closed(S) => y \in S
           c == [x \in D |-> {y \in D : Above(x, y)}]
           e == [x \in D |-> {x} \cup (IF nx[x] \in D THEN c[nx[x]] ELSE {})]
<1>1. ASSUME NEW x \in D PROVE c[x] = e[x]
  <2>1. ASSUME NEW y \in e[x] PROVE y \in c[x]
    <3>1. CASE y = x
      BY <3>1
    <3>2. CASE nx[x] \in D /\ y \in D /\ Above(nx[x], y)
      BY <3>2
    <3> QED
      BY <2>1, <3>1, <3>2
  <2>2. ASSUME NEW y \in c[x] PROVE y \in e[x]
    <3>1. y \in D /\ Above(x, y)
      BY <2>2
    <3>2. x \in e[x] /\ e[x] \in SUBSET D
      OBVIOUS
    <3>3. ASSUME NEW z \in e[x], nx[z] \in D PROVE nx[z] \in e[x]
      <4>1. CASE z = x
        <5>1. Above(nx[x], nx[x])
          OBVIOUS
        <5> QED
          BY <3>3, <4>1, <5>1
      <4>2. CASE nx[x] \in D /\ z \in D /\ Above(nx[x], z)
        <5>1. Above(nx[x], nx[z])
          BY <3>3, <4>2
        <5> QED
          BY <3>3, <4>2, <5>1
      <4> QED
        BY <3>3, <4>1, <4>2
    <3> HIDE DEF e, c
    <3> QED
      BY <3>1, <3>2, <3>3
  <2> QED
    BY <2>1, <2>2
<1>2. c = e
  <2>1. DOMAIN c = D /\ DOMAIN e = D
    OBVIOUS
  <2> HIDE DEF Above
  <2> QED
    BY <1>1
<1>3. IsChain(c, D, nx)
  BY <1>2 DEF IsChain
<1> HIDE DEF c
<1> QED
  BY <1>3

(* Links along finitely many blocks lead out of every part of them.        *)
LEMMA LinkedEnds ==
    ASSUME NEW B, IsFiniteSet(B), NULL \notin B, NEW first, NEW nx, NEW pv,
           Linked(B, first, nx, pv), NEW S \in SUBSET B, S # {}
    PROVE  \E x \in S : nx[x] \notin S
<1> SUFFICES ASSUME \A x \in S : nx[x] \in S
             PROVE  FALSE
  OBVIOUS
<1> DEFINE f == [x \in S |-> nx[x]]
<1>1. \A x \in S : pv[nx[x]] = x
  BY DEF Linked
<1>2. f \in [S -> S] /\ \A x, y \in S : f[x] = f[y] => x = y
  BY <1>1
<1>3. f \in Injection(S, S)
  BY <1>2 DEF Injection, IsInjective
<1>4. IsFiniteSet(S)
  BY FS_Subset
<1> HIDE DEF f
<1>5. f \in Surjection(S, S)
  BY <1>3, <1>4, FS_Injection
<1> USE DEF f
<1>6. \A y \in S : \E x \in S : nx[x] = y
  BY <1>5 DEF Surjection
<1>7. \A y \in S : pv[y] \in S
  BY <1>1, <1>6
<1> QED
  BY <1>7 DEF Linked

(* The equation, unfolded once.                                            *)
LEMMA ChainStep ==
    ASSUME NEW D, NEW c, NEW nx, IsChain(c, D, nx), NEW x \in D
    PROVE  c[x] = {x} \cup (IF nx[x] \in D THEN c[nx[x]] ELSE {})
<1> DEFINE e == [y \in D |-> {y} \cup (IF nx[y] \in D THEN c[nx[y]] ELSE {})]
<1>1. c = e
  BY DEF IsChain
<1>2. e[x] = {x} \cup (IF nx[x] \in D THEN c[nx[x]] ELSE {})
  OBVIOUS
<1> HIDE DEF e
<1> QED
  BY <1>1, <1>2

(* What can be reached from a block of a list is in the list, and closed   *)
(* under both links.                                                       *)
LEMMA ChainFacts ==
    ASSUME NEW B, IsFiniteSet(B), NULL \notin B, NEW first, NEW nx, NEW pv,
           Linked(B, first, nx, pv), NEW D, B \subseteq D, NULL \notin D,
           NEW c, IsChain(c, D, nx)
    PROVE  /\ \A x \in B : c[x] = {x} \cup (IF nx[x] = NULL THEN {} ELSE c[nx[x]])
           /\ \A x \in B : x \in c[x] /\ c[x] \subseteq B
           /\ \A x \in B : \A y \in c[x] : nx[y] # NULL => nx[y] \in c[x]
           /\ \A x \in B : \A y \in c[x] : y # x => pv[y] \in c[x]
           /\ first # NULL => c[first] = B
           /\ first = NULL => B = {}
<1>1. ASSUME NEW x \in B PROVE c[x] = {x} \cup (IF nx[x] = NULL THEN {} ELSE c[nx[x]])
  <2>1. x \in D /\ (nx[x] \in D <=> nx[x] # NULL)
    BY DEF Linked
  <2> QED
    BY <2>1, ChainStep
<1>2. \A x \in B : x \in c[x]
  BY <1>1
<1>3. \A x \in B : nx[x] \in B \cup {NULL}
  BY DEF Linked
<1>4. \A x \in B : c[x] \subseteq B
  <2> DEFINE S == {x \in B : ~(c[x] \subseteq B)}
  <2> SUFFICES ASSUME S # {} PROVE FALSE
    OBVIOUS
  <2>1. PICK x \in S : nx[x] \notin S
    BY LinkedEnds
  <2> QED
    BY <1>1, <1>3, <2>1
<1>5. \A x \in B : \A y \in c[x] : nx[y] # NULL => nx[y] \in c[x]
  <2> DEFINE S == {x \in B : ~\A y \in c[x] : nx[y] # NULL => nx[y] \in c[x]}
  <2> SUFFICES ASSUME S # {} PROVE FALSE
    OBVIOUS
  <2>1. PICK x \in S : nx[x] \notin S
    BY LinkedEnds
  <2>2. PICK y \in c[x] : nx[y] # NULL /\ nx[y] \notin c[x]
    BY <2>1
  <2>3. CASE y = x
    BY <1>1, <1>2, <1>3, <2>2, <2>3
  <2>4. CASE y # x
    BY <1>1, <1>3, <2>1, <2>2, <2>4
  <2> QED
    BY <2>3, <2>4
<1>6. \A x \in B : \A y \in c[x] : y # x => pv[y] \in c[x]
  <2> DEFINE S == {x \in B : ~\A y \in c[x] : y # x => pv[y] \in c[x]}
  <2> SUFFICES ASSUME S # {} PROVE FALSE
    OBVIOUS
  <2>1. PICK x \in S : nx[x] \notin S
    BY LinkedEnds
  <2>2. PICK y \in c[x] : y # x /\ pv[y] \notin c[x]
    BY <2>1
  <2>3. nx[x] \in B /\ y \in c[nx[x]] /\ c[nx[x]] \subseteq c[x]
    BY <1>1, <1>3, <2>2
  <2>4. CASE y = nx[x]
    BY <1>2, <2>2, <2>3, <2>4 DEF Linked
  <2>5. CASE y # nx[x]
    BY <2>1, <2>2, <2>3, <2>5
  <2> QED
    BY <2>4, <2>5
<1>7. ASSUME first # NULL PROVE c[first] = B
  <2>1. first \in B
    BY <1>7 DEF Linked
  <2> DEFINE S == B \ c[first]
  <2> SUFFICES ASSUME S # {} PROVE FALSE
    BY <1>4, <2>1
  <2>2. PICK x \in S : pv[x] \notin S
    BY DEF Linked
  <2>3. pv[x] # NULL
    BY <1>2, <2>1, <2>2 DEF Linked
  <2>4. pv[x] \in B /\ nx[pv[x]] = x
    BY <2>2, <2>3 DEF Linked
  <2>5. nx[pv[x]] \in c[first]
    BY <1>5, <2>1, <2>2, <2>3, <2>4
  <2> QED
    BY <2>2, <2>4, <2>5
<1>8. ASSUME first = NULL PROVE B = {}
  <2> SUFFICES ASSUME B # {} PROVE FALSE
    OBVIOUS
  <2>1. PICK x \in B : pv[x] \notin B
    BY DEF Linked
  <2> QED
    BY <1>8, <2>1 DEF Linked
<1> QED
  BY <1>1, <1>2, <1>4, <1>5, <1>6, <1>7, <1>8

(* Chain is such a function.                                               *)
LEMMA ChainOf ==
    ASSUME NEW h, NEW link
    PROVE  LET D == DOMAIN h.hdr
               nx == [x \in D |-> h.hdr[x][link]]
           IN \E c : /\ IsChain(c, D, nx)
                     /\ \A x \in D : Chain(h, x, link) = c[x]
                     /\ \A x : x \notin D => Chain(h, x, link) = {}
<1> DEFINE D == DOMAIN h.hdr
           nx == [x \in D |-> h.hdr[x][link]]
           Onward(u) == [x \in D |-> {x} \cup IF h.hdr[x][link] \in D
                                              THEN u[h.hdr[x][link]] ELSE {}]
           c == CHOOSE u : u = Onward(u)
<1>1. \A u : IsChain(u, D, nx) <=> u = Onward(u)
  <2> TAKE u
  <2> DEFINE e == [x \in D |-> {x} \cup (IF nx[x] \in D THEN u[nx[x]] ELSE {})]
  <2>1. \A x \in D : e[x] = Onward(u)[x]
    OBVIOUS
  <2>2. e = Onward(u)
    BY <2>1
  <2>3. IsChain(u, D, nx) <=> u = e
    BY DEF IsChain
  <2> HIDE DEF e, Onward
  <2> QED
    BY <2>2, <2>3
<1>2. c = Onward(c)
  <2>1. \E u : u = Onward(u)
    BY <1>1, ChainExists
  <2> HIDE DEF Onward
  <2> QED
    BY <2>1
<1>3. \A x : Chain(h, x, link) = IF x \in D THEN c[x] ELSE {}
  BY DEF Chain
<1>4. IsChain(c, D, nx)
  BY <1>1, <1>2
<1> HIDE DEF c, Onward
<1> QED
  BY <1>3, <1>4

(* From the first block of a list, Chain is the list, and Last its end.    *)
LEMMA ListIs ==
    ASSUME NEW h, NEW link, NEW B, IsFiniteSet(B), B \subseteq DOMAIN h.hdr,
           NULL \notin DOMAIN h.hdr, NEW first, NEW nx, NEW pv, Linked(B, first, nx, pv),
           \A x \in DOMAIN h.hdr : nx[x] = h.hdr[x][link]
    PROVE  /\ Chain(h, first, link) = B
           /\ B # {} => LET l == Last(h, first, link) IN l \in B /\ nx[l] = NULL
<1> DEFINE D == DOMAIN h.hdr
           my == [x \in D |-> h.hdr[x][link]]
<1>1. PICK c : /\ IsChain(c, D, my)
               /\ \A x \in D : Chain(h, x, link) = c[x]
               /\ \A x : x \notin D => Chain(h, x, link) = {}
  BY ChainOf
<1>2. \A x \in B : my[x] = nx[x] /\ pv[x] = pv[x]
  OBVIOUS
<1>3. Linked(B, first, my, pv)
  BY <1>2, LinkedSame
<1> HIDE DEF my
<1>4. (first # NULL => c[first] = B) /\ (first = NULL => B = {})
  BY <1>1, <1>3, ChainFacts
<1>5. Chain(h, first, link) = B
  BY <1>1, <1>4 DEF Linked
<1>6. ASSUME B # {} PROVE \E x \in B : h.hdr[x][link] \notin D
  <2>1. PICK x \in B : nx[x] \notin B
    BY <1>6, LinkedEnds
  <2> QED
    BY <2>1 DEF Linked
<1>7. ASSUME B # {}
      PROVE  LET l == Last(h, first, link) IN l \in B /\ h.hdr[l][link] \notin D
  BY <1>5, <1>6, <1>7 DEF Last
<1>8. \A x \in B : h.hdr[x][link] \notin D => nx[x] = NULL
  BY DEF Linked
<1> QED
  BY <1>5, <1>7, <1>8

(* The walk stops at the first block that is large enough, or at the end. *)
LEMMA WalkIs ==
    ASSUME NEW h, NEW link, NEW B, IsFiniteSet(B), B \subseteq DOMAIN h.hdr,
           NULL \notin DOMAIN h.hdr, NEW first, first # NULL, NEW nx, NEW pv,
           Linked(B, first, nx, pv), \A x \in DOMAIN h.hdr : nx[x] = h.hdr[x][link],
           \A x \in B : h.hdr[x].size \in Nat, NEW size \in Nat
    PROVE  LET w == Walk(h, first, size, link)
               x == w[2]
           IN /\ w[1] \in BOOLEAN /\ x \in B
              /\ w[1] => /\ size <= h.hdr[x].size
                         /\ pv[x] # NULL => h.hdr[pv[x]].size < size
              /\ ~w[1] => /\ nx[x] = NULL
                          /\ \A y \in B : h.hdr[y].size < size
<1> DEFINE D == DOMAIN h.hdr
           my == [x \in D |-> h.hdr[x][link]]
           fit == {x \in Chain(h, first, link) : h.hdr[x].size >= size}
           y == CHOOSE x \in fit : fit \subseteq Chain(h, x, link)
<1>1. PICK c : /\ IsChain(c, D, my)
               /\ \A x \in D : Chain(h, x, link) = c[x]
               /\ \A x : x \notin D => Chain(h, x, link) = {}
  BY ChainOf
<1>2. \A x \in B : my[x] = nx[x] /\ pv[x] = pv[x]
  OBVIOUS
<1>3. Linked(B, first, my, pv) /\ first \in B
  BY <1>2, LinkedSame DEF Linked
<1>4. Chain(h, first, link) = B /\ (B # {} => Last(h, first, link) \in B /\ nx[Last(h, first, link)] = NULL)
  BY ListIs
<1>5. /\ \A x \in B : c[x] = {x} \cup (IF my[x] = NULL THEN {} ELSE c[my[x]])
      /\ \A x \in B : x \in c[x] /\ c[x] \subseteq B
      /\ \A x \in B : \A z \in c[x] : z # x => pv[z] \in c[x]
      /\ c[first] = B
  <2> HIDE DEF my
  <2> QED
    BY <1>1, <1>3, ChainFacts
<1>6. CASE fit = {}
  <2>1. Walk(h, first, size, link) = <<FALSE, Last(h, first, link)>>
    BY <1>6 DEF Walk
  <2>2. \A x \in B : h.hdr[x].size < size
    BY <1>4, <1>6
  <2> QED
    BY <1>3, <1>4, <2>1, <2>2
<1>7. CASE fit # {}
  <2>1. Walk(h, first, size, link) = <<TRUE, y>>
    BY <1>7 DEF Walk
  <2>2. fit \subseteq B /\ \A x \in fit : Chain(h, x, link) = c[x]
    BY <1>1, <1>4
  <2>3. \E x \in fit : fit \subseteq Chain(h, x, link)
    <3> DEFINE V == {x \in B : fit \subseteq c[x]}
    <3>1. V \in SUBSET B /\ first \in V
      BY <1>3, <1>5, <2>2
    <3>2. PICK x \in V : my[x] \notin V
      <4> HIDE DEF V, my
      <4> QED
        BY <1>3, <3>1, LinkedEnds
    <3>3. my[x] \in B \cup {NULL}
      BY <1>3 DEF Linked
    <3> HIDE DEF my
    <3>4. x \in fit
      BY <1>5, <1>7, <3>2, <3>3
    <3> QED
      BY <2>2, <3>4
  <2>4. y \in fit /\ fit \subseteq Chain(h, y, link)
    BY <2>3
  <2> HIDE DEF y
  <2>5. y \in B /\ size <= h.hdr[y].size
    BY <2>2, <2>4
  <2>6. fit \subseteq c[y]
    BY <2>2, <2>4
  <2>7. ASSUME pv[y] # NULL PROVE h.hdr[pv[y]].size < size
    <3>1. pv[y] \in B
      BY <2>5, <2>7 DEF Linked
    <3>2. SUFFICES ASSUME pv[y] \in fit PROVE FALSE
      BY <1>4, <3>1
    <3>3. \A z \in c[y] : pv[z] \in c[y]
      BY <1>5, <2>5, <2>6, <3>2
    <3>4. c[y] \in SUBSET B /\ y \in c[y]
      BY <1>5, <2>5
    <3> QED
      BY <3>3, <3>4 DEF Linked
  <2> QED
    BY <2>1, <2>5, <2>7
<1> QED
  BY <1>6, <1>7

(* Along link, the blocks of B are read from first on. *)
Reads(h, link, B, first, nx, pv) ==
    /\ IsFiniteSet(B) /\ B \subseteq DOMAIN h.hdr /\ NULL \notin DOMAIN h.hdr
    /\ Linked(B, first, nx, pv) /\ \A x \in DOMAIN h.hdr : nx[x] = h.hdr[x][link]

Sized(h, B) == \A x \in B : h.hdr[x].size \in Nat

(* What a walk returns. *)
WalkedTo(h, B, nx, pv, size, w) ==
    /\ w[1] \in BOOLEAN /\ w[2] \in B
    /\ w[1] => /\ size <= h.hdr[w[2]].size
               /\ pv[w[2]] # NULL => h.hdr[pv[w[2]]].size < size
    /\ ~w[1] => /\ nx[w[2]] = NULL
                /\ \A y \in B : h.hdr[y].size < size

(* Walk, under one name for its hypotheses.                                *)
LEMMA WalkOf ==
    ASSUME NEW h, NEW link, NEW B, NEW first, NEW nx, NEW pv, Reads(h, link, B, first, nx, pv),
           first # NULL, Sized(h, B), NEW size, size \in Nat
    PROVE  WalkedTo(h, B, nx, pv, size, Walk(h, first, size, link))
<1> USE DEF Reads, Sized
<1> DEFINE w == Walk(h, first, size, link)
<1>1. /\ w[1] \in BOOLEAN /\ w[2] \in B
      /\ w[1] => /\ size <= h.hdr[w[2]].size
                 /\ pv[w[2]] # NULL => h.hdr[pv[w[2]]].size < size
      /\ ~w[1] => /\ nx[w[2]] = NULL
                  /\ \A y \in B : h.hdr[y].size < size
  BY WalkIs
<1> HIDE DEF w
<1>2. WalkedTo(h, B, nx, pv, size, w)
  BY <1>1 DEF WalkedTo
<1> QED
  BY <1>2 DEF w

(* Chain and Last, likewise.                                               *)
LEMMA ListOf ==
    ASSUME NEW h, NEW link, NEW B, NEW first, NEW nx, NEW pv, Reads(h, link, B, first, nx, pv)
    PROVE  /\ Chain(h, first, link) = B
           /\ B # {} => Last(h, first, link) \in B /\ nx[Last(h, first, link)] = NULL
BY ListIs DEF Reads

-----------------------------------------------------------------------------
(* THE HEAP: its list, its mapped blocks and its histogram. *)

Fields == {"metadata", "mmap_list", "histogram", "hdr", "brk", "lost", "uninit", "flaws"}
IsHeap(h) == DOMAIN h = Fields

nexts(h)      == [b \in DOMAIN h.hdr |-> h.hdr[b].next]
prevs(h)      == [b \in DOMAIN h.hdr |-> h.hdr[b].prev]
hist_nexts(h) == [b \in DOMAIN h.hdr |-> h.hdr[b].hist_next]
hist_prevs(h) == [b \in DOMAIN h.hdr |-> h.hdr[b].hist_prev]

(* The headers of B can be read. *)
Headers(h, B) ==
    /\ IsHeap(h) /\ NULL \notin DOMAIN h.hdr
    /\ B \subseteq DOMAIN h.hdr /\ B \subseteq Nat \ {0}
    /\ \A b \in B : h.hdr[b] \in MallocMetadata /\ h.hdr[b].addr >= b + META

(* No block of the list reaches into the next one, which is the next one   *)
(* in the order of the addresses, or past the break.                       *)
Apart(h, L) ==
    \A b \in L :
        LET n == h.hdr[b].next IN
        /\ b + META + h.hdr[b].size <= h.brk
        /\ n # NULL => b + META + h.hdr[b].size <= n
        /\ \A x \in L : b < x => n # NULL /\ n <= x

(* The mapped blocks are in use, and lie in a row.                         *)
Mappings(h, M) ==
    /\ IsFiniteSet(M)
    /\ \A b \in M :
         /\ ~h.hdr[b].is_free /\ h.hdr[b].size >= MAP_MIN
         /\ \E k \in 0..(Cardinality(M) - 1) : b = Limit + 1 + k * (META + MAX_SIZE)

spans(h) == [b \in DOMAIN h.hdr |-> META + h.hdr[b].size]
Accounted(h, L) == Base + Total(spans(h), L) + h.lost = h.brk

Multiples(h, L) ==
    /\ align \in Alignments /\ h.brk % align = 0
    /\ \A b \in L : b % align = 0 /\ h.hdr[b].size % align = 0

(* L is the list of the heap, M that of the mapped blocks. *)
HeapOK(h, L, M) ==
    /\ Headers(h, L \cup M) /\ h.flaws = {}
    /\ L \subseteq 1..Limit
    /\ Linked(L, h.metadata, nexts(h), prevs(h))
    /\ Linked(M, h.mmap_list, nexts(h), prevs(h))
    /\ Apart(h, L) /\ Mappings(h, M) /\ Accounted(h, L) /\ Multiples(h, L)
    /\ h.brk \in Base..(Limit + 1) /\ h.lost \in Nat /\ h.uninit \in {NULL, Junk}

(* The buckets hold the blocks of F, and the other blocks of N none. *)
Buckets == 0..(HIST_SIZE - 1)
InBucket(h, F, i) == {b \in F : histogramIndex(h.hdr[b].size) = i}
HistOK(h, N, F) ==
    /\ F \subseteq N
    /\ h.histogram \in [Buckets -> Nat]
    /\ \A i \in Buckets :
          Linked(InBucket(h, F, i), h.histogram[i], hist_nexts(h), hist_prevs(h))
    /\ \A b \in F : LET n == h.hdr[b].hist_next IN
          n # NULL => h.hdr[b].size <= h.hdr[n].size
    /\ \A b \in N \ F : h.hdr[b].hist_next = NULL /\ h.hdr[b].hist_prev = NULL

State(h, L, M, N, F) == HeapOK(h, L, M) /\ HistOK(h, N, F) /\ N \subseteq L \cup M

(* The histogram's links of block b lead to blocks of B. *)
LinksIn(h, b, B) ==
    /\ b \in B
    /\ h.hdr[b].hist_prev \in B \cup {NULL} /\ h.hdr[b].hist_next \in B \cup {NULL}

(* Nothing but the histogram has changed. *)
Same(h, g, B) ==
    /\ IsHeap(g) /\ DOMAIN g.hdr = DOMAIN h.hdr
    /\ g.metadata = h.metadata /\ g.mmap_list = h.mmap_list
    /\ g.brk = h.brk /\ g.lost = h.lost /\ g.uninit = h.uninit
    /\ \A b \in B :
         /\ g.hdr[b] \in MallocMetadata
         /\ g.hdr[b].size = h.hdr[b].size /\ g.hdr[b].is_free = h.hdr[b].is_free
         /\ g.hdr[b].next = h.hdr[b].next /\ g.hdr[b].prev = h.hdr[b].prev
         /\ g.hdr[b].addr = h.hdr[b].addr

(* p and n have become neighbours in bucket i. *)
Joined(h, g, B, i, p, n) ==
    /\ Same(h, g, B) /\ g.flaws = h.flaws
    /\ g.histogram = IF p = NULL THEN [h.histogram EXCEPT ![i] = n] ELSE h.histogram
    /\ \A x \in B :
         /\ g.hdr[x].hist_next = IF x = p THEN n ELSE h.hdr[x].hist_next
         /\ g.hdr[x].hist_prev = IF x = n THEN p ELSE h.hdr[x].hist_prev

(* Block b has been taken out of its bucket. *)
Removed(h, g, B, b) ==
    LET p == h.hdr[b].hist_prev
        n == h.hdr[b].hist_next
        i == histogramIndex(h.hdr[b].size)
    IN /\ Same(h, g, B) /\ g.flaws = {}
       /\ p = NULL => h.histogram[i] \in {b, NULL}
       /\ g.histogram = IF p = NULL THEN [h.histogram EXCEPT ![i] = n] ELSE h.histogram
       /\ \A x \in B :
            /\ g.hdr[x].hist_next = IF x = b THEN NULL ELSE IF x = p THEN n
                                    ELSE h.hdr[x].hist_next
            /\ g.hdr[x].hist_prev = IF x = b THEN NULL ELSE IF x = n THEN p
                                    ELSE h.hdr[x].hist_prev

(* The constants' types.                                                   *)
LEMMA Constants ==
    /\ META \in Nat \ {0} /\ MAX_SIZE \in Nat \ {0} /\ HIST_SIZE \in Nat \ {0}
    /\ KILOBYTE \in Nat \ {0} /\ SPLIT \in Nat \ {0} /\ Limit \in Nat /\ Maps \in Nat
    /\ Base \in 1..(Limit + 1) /\ Word \in Nat \ {0}
    /\ Requests \subseteq 0..(Word - 1) /\ Counts \subseteq 0..(Word - 1)
    /\ Alignments \subseteq Nat \ {0}
    /\ NULL = 0 /\ Junk = -1
BY BlocksAssumption, MallocAssumption DEF BlocksAssumption, MallocAssumption, NULL, Junk

(* The fields of a header and their types.                                 *)
LEMMA HeaderIs ==
    ASSUME NEW h, NEW B, Headers(h, B), NEW b \in B
    PROVE  /\ b \in Nat \ {0} /\ b \in DOMAIN h.hdr /\ h.hdr[b] \in MallocMetadata
           /\ h.hdr[b].size \in Nat /\ h.hdr[b].is_free \in BOOLEAN
           /\ h.hdr[b].next \in Nat /\ h.hdr[b].prev \in Nat /\ h.hdr[b].addr \in Nat
           /\ h.hdr[b].hist_next \in Pointer /\ h.hdr[b].hist_prev \in Pointer
           /\ h.hdr[b].addr >= b + META
BY DEF Headers, MallocMetadata

LEMMA SameTrans ==
    ASSUME NEW h, NEW g, NEW k, NEW B, Same(h, g, B), Same(g, k, B)
    PROVE  Same(h, k, B)
BY DEF Same

LEMMA SameHeaders ==
    ASSUME NEW h, NEW g, NEW B, Headers(h, B), Same(h, g, B)
    PROVE  Headers(g, B)
BY DEF Same, Headers

(* Changes to the histogram leave the list alone.                          *)
LEMMA SameHeapOK ==
    ASSUME NEW h, NEW g, NEW L, NEW M, HeapOK(h, L, M), Same(h, g, L \cup M), g.flaws = {}
    PROVE  HeapOK(g, L, M)
<1>1. Headers(g, L \cup M)
  BY SameHeaders DEF HeapOK
<1>2. \A b \in L \cup M : nexts(g)[b] = nexts(h)[b] /\ prevs(g)[b] = prevs(h)[b]
                          /\ spans(g)[b] = spans(h)[b]
  BY DEF Same, HeapOK, Headers, nexts, prevs, spans
<1>3. Linked(L, g.metadata, nexts(g), prevs(g)) /\ Linked(M, g.mmap_list, nexts(g), prevs(g))
  <2>1. /\ Linked(L, h.metadata, nexts(h), prevs(h)) /\ Linked(M, h.mmap_list, nexts(h), prevs(h))
        /\ g.metadata = h.metadata /\ g.mmap_list = h.mmap_list
    BY DEF HeapOK, Same
  <2>2. Linked(L, h.metadata, nexts(g), prevs(g))
    BY <1>2, <2>1, LinkedSame
  <2>3. Linked(M, h.mmap_list, nexts(g), prevs(g))
    BY <1>2, <2>1, LinkedSame
  <2> QED
    BY <2>1, <2>2, <2>3
<1>4. Apart(g, L)
  <2>1. Apart(h, L) /\ g.brk = h.brk
        /\ \A b \in L : g.hdr[b].size = h.hdr[b].size /\ g.hdr[b].next = h.hdr[b].next
    BY DEF HeapOK, Same
  <2> QED
    BY <2>1 DEF Apart
<1>5. Mappings(g, M)
  <2>1. Mappings(h, M)
        /\ \A b \in M : g.hdr[b].size = h.hdr[b].size /\ g.hdr[b].is_free = h.hdr[b].is_free
    BY DEF HeapOK, Same
  <2> QED
    BY <2>1 DEF Mappings
<1>6. Accounted(g, L)
  <2>1. L \subseteq 1..Limit /\ IsFiniteSet(1..Limit)
    BY Constants, UpTo DEF HeapOK
  <2>2. IsFiniteSet(L)
    BY <2>1, FS_Subset
  <2>3. Total(spans(h), L) = Total(spans(g), L)
    BY <1>2, <2>2, TotalSame
  <2> QED
    BY <2>3 DEF HeapOK, Same, Accounted
<1>7. Multiples(g, L)
  BY DEF HeapOK, Same, Multiples
<1> QED
  BY <1>1, <1>3, <1>4, <1>5, <1>6, <1>7 DEF HeapOK, Same

LEMMA IndexIn ==
    ASSUME NEW size \in Nat
    PROVE  histogramIndex(size) \in Buckets
<1> DEFINE d == size \div KILOBYTE
           S == {d, HIST_SIZE - 1}
<1>1. d \in Nat /\ HIST_SIZE - 1 \in Nat
  BY Constants
<1> HIDE DEF d
<1>2. \E x \in S : \A y \in S : x <= y
  BY <1>1
<1>3. Min(S) \in S /\ \A y \in S : Min(S) <= y
  BY <1>2 DEF Min
<1>4. histogramIndex(size) = Min(S)
  BY DEF histogramIndex, d
<1> QED
  BY <1>1, <1>3, <1>4 DEF Buckets

(* What Join changes.                                                      *)
LEMMA JoinIs ==
    ASSUME NEW h, NEW B, Headers(h, B), NEW p, NEW n, p \in B \cup {NULL}, n \in B \cup {NULL},
           NEW i
    PROVE  Joined(h, Join(h, i, p, n), B, i, p, n)
<1> DEFINE k == IF p = NULL THEN Starting(h, i, n)
                            ELSE [h EXCEPT !.hdr[p].hist_next = n]
           g == IF n = NULL THEN k ELSE [k EXCEPT !.hdr[n].hist_prev = p]
<1>1. p \in Nat /\ n \in Nat /\ NULL \notin B /\ Junk \notin {p, n}
  BY Constants DEF Headers
<1>2. Join(h, i, p, n) = g
  BY <1>1, Zenon DEF Join
<1>3. /\ Same(h, k, B) /\ k.flaws = h.flaws
      /\ k.histogram = IF p = NULL THEN [h.histogram EXCEPT ![i] = n] ELSE h.histogram
      /\ \A x \in B :
           /\ k.hdr[x].hist_next = IF x = p THEN n ELSE h.hdr[x].hist_next
           /\ k.hdr[x].hist_prev = h.hdr[x].hist_prev
  <2>1. CASE p = NULL
    BY <1>1, <2>1 DEF Headers, Same, IsHeap, Fields, Starting
  <2>2. CASE p # NULL
    BY <1>1, <2>2 DEF Headers, Same, IsHeap, Fields, MallocMetadata, Pointer
  <2> QED
    BY <2>1, <2>2
<1>4. Headers(k, B)
  BY <1>3, SameHeaders
<1> HIDE DEF k
<1>5. /\ Same(k, g, B) /\ g.flaws = k.flaws /\ g.histogram = k.histogram
      /\ \A x \in B :
           /\ g.hdr[x].hist_next = k.hdr[x].hist_next
           /\ g.hdr[x].hist_prev = IF x = n THEN p ELSE k.hdr[x].hist_prev
  <2>1. CASE n = NULL
    BY <1>1, <1>4, <2>1 DEF Headers, Same
  <2>2. CASE n # NULL
    BY <1>1, <1>4, <2>2 DEF Headers, Same, IsHeap, Fields, MallocMetadata, Pointer
  <2> QED
    BY <2>1, <2>2
<1>6. Same(h, g, B)
  BY <1>3, <1>5, SameTrans
<1> HIDE DEF g
<1> QED
  BY <1>2, <1>3, <1>5, <1>6 DEF Joined

(* Recording a flaw changes the flaws only.                                *)
LEMMA FlawsGrow ==
    ASSUME NEW h, IsHeap(h), NEW c, NEW f
    PROVE  /\ IsHeap(FlawIf(c, h, f)) /\ h.flaws \subseteq FlawIf(c, h, f).flaws
           /\ FlawIf(c, h, f).hdr = h.hdr
           /\ FlawIf(c, h, f).flaws = {} => FlawIf(c, h, f) = h /\ ~c
<1>1. IsHeap(Flaw(h, f)) /\ Flaw(h, f).flaws = h.flaws \cup {f} /\ Flaw(h, f).hdr = h.hdr
  BY DEF IsHeap, Fields, Flaw
<1> QED
  BY <1>1 DEF FlawIf

(* What histogramRemove changes, when the block is in its bucket or its    *)
(* bucket is empty.                                                        *)
LEMMA RemoveIs ==
    ASSUME NEW h, NEW B, Headers(h, B), NEW b, LinksIn(h, b, B), h.flaws = {}
    PROVE  LET g == histogramRemove(h, b) IN
           \/ h.hdr[b].hist_prev # NULL
           \/ h.histogram[histogramIndex(h.hdr[b].size)] \in {b, NULL}
           \/ g.flaws = {}
           => Removed(h, g, B, b)
<1> DEFINE p == h.hdr[b].hist_prev
           n == h.hdr[b].hist_next
           i == histogramIndex(h.hdr[b].size)
           c == p = NULL /\ h.histogram[i] \notin {b, NULL}
           j == Join(h, i, p, n)
           k == [j EXCEPT !.hdr[b].hist_prev = NULL, !.hdr[b].hist_next = NULL]
<1>1. Joined(h, j, B, i, p, n)
  BY JoinIs DEF LinksIn
<1>2. Headers(j, B)
  BY <1>1, SameHeaders DEF Joined
<1>3. histogramRemove(h, b) = FlawIf(c, k, "absent")
  BY DEF histogramRemove
<1> HIDE DEF j
<1>4. /\ Same(j, k, B) /\ k.flaws = j.flaws /\ k.histogram = j.histogram /\ IsHeap(k)
      /\ \A x \in B :
           /\ k.hdr[x].hist_next = IF x = b THEN NULL ELSE j.hdr[x].hist_next
           /\ k.hdr[x].hist_prev = IF x = b THEN NULL ELSE j.hdr[x].hist_prev
  BY <1>2, Constants DEF Headers, Same, IsHeap, Fields, MallocMetadata, Pointer, LinksIn
<1>5. Same(h, k, B)
  BY <1>1, <1>4, SameTrans DEF Joined
<1> HIDE DEF k
<1>6. ~c => histogramRemove(h, b) = k
  BY <1>3 DEF FlawIf
<1>7. histogramRemove(h, b).flaws = {} => ~c
  BY <1>3, <1>4, FlawsGrow
<1>8. ~c => Removed(h, k, B, b)
  BY <1>1, <1>4, <1>5 DEF Removed, Joined
<1> QED
  BY <1>6, <1>7, <1>8

(* What a block of a bucket is linked to. *)
LEMMA InHist ==
    ASSUME NEW h, NEW B, Headers(h, B), NEW N, N \subseteq B, NEW F, HistOK(h, N, F), NEW b \in F
    PROVE  LET i == histogramIndex(h.hdr[b].size)
               p == h.hdr[b].hist_prev
               n == h.hdr[b].hist_next
           IN /\ b \in B /\ i \in Buckets /\ b \in InBucket(h, F, i)
              /\ p \in InBucket(h, F, i) \cup {NULL} /\ n \in InBucket(h, F, i) \cup {NULL}
              /\ n # NULL => h.hdr[n].hist_prev = b
              /\ p # NULL => h.hdr[p].hist_next = b
              /\ p = NULL <=> b = h.histogram[i]
<1> DEFINE i == histogramIndex(h.hdr[b].size)
<1>1. b \in B /\ h.hdr[b].size \in Nat
  BY HeaderIs DEF HistOK
<1>2. i \in Buckets
  BY <1>1, IndexIn
<1>3. b \in InBucket(h, F, i)
  BY DEF InBucket
<1>4. Linked(InBucket(h, F, i), h.histogram[i], hist_nexts(h), hist_prevs(h))
  BY <1>2 DEF HistOK
<1>5. InBucket(h, F, i) \subseteq DOMAIN h.hdr
  BY DEF InBucket, HistOK, Headers
<1>6. \A x \in InBucket(h, F, i) : hist_nexts(h)[x] = h.hdr[x].hist_next
                                   /\ hist_prevs(h)[x] = h.hdr[x].hist_prev
  BY <1>5 DEF hist_nexts, hist_prevs
<1> HIDE DEF i
<1> QED
  BY <1>1, <1>2, <1>3, <1>4, <1>6 DEF Linked, i

(* histogramRemove of a block of a bucket.                                 *)
LEMMA RemoveIn ==
    ASSUME NEW h, NEW L, NEW M, NEW N, NEW F, State(h, L, M, N, F), NEW b, b \in F
    PROVE  LET g == histogramRemove(h, b) IN
           State(g, L, M, N, F \ {b}) /\ Same(h, g, L \cup M)
<1> DEFINE B == L \cup M
           i == histogramIndex(h.hdr[b].size)
           p == h.hdr[b].hist_prev
           n == h.hdr[b].hist_next
           g == histogramRemove(h, b)
           G == F \ {b}
<1>0. /\ Headers(h, B) /\ h.flaws = {} /\ F \subseteq N /\ N \subseteq B
      /\ HeapOK(h, L, M) /\ HistOK(h, N, F)
  BY DEF State, HeapOK, HistOK
<1>1. /\ b \in B /\ i \in Buckets /\ b \in InBucket(h, F, i)
      /\ p \in InBucket(h, F, i) \cup {NULL} /\ n \in InBucket(h, F, i) \cup {NULL}
      /\ n # NULL => h.hdr[n].hist_prev = b
      /\ p # NULL => h.hdr[p].hist_next = b
      /\ p = NULL <=> b = h.histogram[i]
  BY <1>0, InHist
<1>2. InBucket(h, F, i) \subseteq F /\ F \subseteq B
  BY <1>0 DEF InBucket
<1>3. /\ Same(h, g, B) /\ g.flaws = {}
      /\ g.histogram = IF p = NULL THEN [h.histogram EXCEPT ![i] = n] ELSE h.histogram
      /\ \A x \in B :
           /\ g.hdr[x].hist_next = IF x = b THEN NULL ELSE IF x = p THEN n
                                   ELSE h.hdr[x].hist_next
           /\ g.hdr[x].hist_prev = IF x = b THEN NULL ELSE IF x = n THEN p
                                   ELSE h.hdr[x].hist_prev
  <2>1. LinksIn(h, b, B) /\ (p # NULL \/ h.histogram[i] \in {b, NULL})
    BY <1>1, <1>2 DEF LinksIn
  <2>2. Removed(h, g, B, b)
    BY <1>0, <2>1, RemoveIs
  <2> HIDE DEF g
  <2> QED
    BY <2>2 DEF Removed
<1> HIDE DEF g, i
<1>4. HeapOK(g, L, M)
  BY <1>0, <1>3, SameHeapOK
<1>5. NULL \notin B /\ B \subseteq DOMAIN h.hdr /\ B \subseteq DOMAIN g.hdr /\ B \subseteq Nat
  BY <1>0, <1>3 DEF Headers, Same
<1>6. \A x \in B : /\ hist_nexts(h)[x] = h.hdr[x].hist_next /\ hist_prevs(h)[x] = h.hdr[x].hist_prev
                   /\ hist_nexts(g)[x] = g.hdr[x].hist_next /\ hist_prevs(g)[x] = g.hdr[x].hist_prev
  BY <1>5 DEF hist_nexts, hist_prevs
<1>7. \A j : InBucket(g, G, j) = InBucket(h, F, j) \ {b}
  BY <1>2, <1>3 DEF InBucket, Same
<1>8. ASSUME NEW j \in Buckets
      PROVE  Linked(InBucket(g, G, j), g.histogram[j], hist_nexts(g), hist_prevs(g))
  <2>1. Linked(InBucket(h, F, j), h.histogram[j], hist_nexts(h), hist_prevs(h))
    BY <1>0 DEF HistOK
  <2>2. InBucket(h, F, j) \subseteq B
    BY <1>2 DEF InBucket
  <2>3. CASE j = i
    <3> DEFINE first == h.histogram[i]
               first2 == g.histogram[i]
               nx == hist_nexts(h)
               pv == hist_prevs(h)
               nx2 == hist_nexts(g)
               pv2 == hist_prevs(g)
               K == InBucket(h, F, i)
    <3>1. \A x \in K \ {b} : /\ nx2[x] = IF x = pv[b] THEN nx[b] ELSE nx[x]
                             /\ pv2[x] = IF x = nx[b] THEN pv[b] ELSE pv[x]
      BY <1>1, <1>3, <1>6, <2>2, <2>3
    <3>2. first2 = IF pv[b] = NULL THEN nx[b] ELSE first
      BY <1>0, <1>1, <1>3, <1>6 DEF HistOK
    <3>3. Linked(K, first, nx, pv) /\ NULL \notin K /\ b \in K
      BY <1>1, <1>5, <2>1, <2>2, <2>3
    <3>5. TakenOut(K, b, first, nx, pv, first2, nx2, pv2)
      BY <3>1, <3>2 DEF TakenOut
    <3> HIDE DEF first, first2, nx, pv, nx2, pv2, K
    <3>4. Linked(K \ {b}, first2, nx2, pv2)
      BY <3>3, <3>5, LinkedRemove
    <3> QED
      BY <1>7, <2>3, <3>4 DEF K, first2, nx2, pv2
  <2>4. CASE j # i
    <3>1. \A x \in InBucket(h, F, j) : x \notin InBucket(h, F, i)
      BY <2>4 DEF InBucket
    <3>2. \A x \in InBucket(h, F, j) : /\ hist_nexts(g)[x] = hist_nexts(h)[x]
                                       /\ hist_prevs(g)[x] = hist_prevs(h)[x]
      BY <1>1, <1>3, <1>5, <1>6, <2>2, <3>1
    <3>3. InBucket(g, G, j) = InBucket(h, F, j)
      BY <1>1, <1>7, <3>1
    <3>4. g.histogram[j] = h.histogram[j]
      BY <1>0, <1>3, <2>4 DEF HistOK
    <3> QED
      BY <2>1, <3>2, <3>3, <3>4, LinkedSame
  <2> QED
    BY <2>3, <2>4
<1>9. g.histogram \in [Buckets -> Nat]
  BY <1>0, <1>1, <1>2, <1>3, <1>5, Constants DEF HistOK
<1>10. ASSUME NEW x \in G, g.hdr[x].hist_next # NULL
       PROVE  g.hdr[x].size <= g.hdr[g.hdr[x].hist_next].size
  <2>1. /\ x \in F /\ x \in B /\ x # b /\ g.hdr[x].size = h.hdr[x].size
    BY <1>2, <1>3 DEF Same
  <2>2. \A y \in B : g.hdr[y].size = h.hdr[y].size /\ h.hdr[y].size \in Nat
    BY <1>0, <1>3, HeaderIs DEF Same
  <2>3. \A y \in F : h.hdr[y].hist_next # NULL => h.hdr[y].size <= h.hdr[h.hdr[y].hist_next].size
    BY <1>0 DEF HistOK
  <2>4. CASE x = p
    <3>1. g.hdr[x].hist_next = n /\ h.hdr[p].hist_next = b /\ p \in F /\ n \in F /\ b # NULL
      BY <1>1, <1>2, <1>3, <1>5, <1>10, <2>1, <2>4
    <3>2. h.hdr[p].size <= h.hdr[b].size /\ h.hdr[b].size <= h.hdr[n].size
      BY <1>10, <2>3, <3>1
    <3> QED
      BY <1>1, <1>2, <2>1, <2>2, <2>4, <3>1, <3>2
  <2>5. CASE x # p
    <3>1. g.hdr[x].hist_next = h.hdr[x].hist_next
      BY <1>3, <2>1, <2>5
    <3>2. h.hdr[x].hist_next \in B
      <4> DEFINE k == histogramIndex(h.hdr[x].size)
                 m == h.hdr[x].hist_next
      <4>1. m \in InBucket(h, F, k) \cup {NULL}
        BY <1>0, <2>1, InHist
      <4>2. InBucket(h, F, k) \subseteq B
        BY <1>2 DEF InBucket
      <4> QED
        BY <1>10, <3>1, <4>1, <4>2
    <3> QED
      BY <1>10, <2>1, <2>2, <2>3, <3>1, <3>2
  <2> QED
    BY <2>4, <2>5
<1>11. ASSUME NEW x \in N \ G PROVE g.hdr[x].hist_next = NULL /\ g.hdr[x].hist_prev = NULL
  <2>1. CASE x = b
    BY <1>1, <1>3, <2>1
  <2>2. CASE x # b
    <3>1. x \in N \ F /\ x \in B
      BY <1>0, <2>2
    <3>2. h.hdr[x].hist_next = NULL /\ h.hdr[x].hist_prev = NULL
      BY <1>0, <3>1 DEF HistOK
    <3>3. x # p /\ x # n
      BY <1>1, <1>2, <1>5, <3>1
    <3> QED
      BY <1>3, <2>2, <3>1, <3>2, <3>3
  <2> QED
    BY <2>1, <2>2
<1>12. HistOK(g, N, G)
  <2> HIDE DEF G
  <2>1. G \subseteq N
    BY <1>0 DEF G
  <2> QED
    BY <1>8, <1>9, <1>10, <1>11, <2>1 DEF HistOK
<1> QED
  BY <1>0, <1>3, <1>4, <1>12 DEF g, State

-----------------------------------------------------------------------------
(* FLAWS STAY RECORDED, and a heap stays a heap. *)

(* g is a heap that calls have made of heap h. *)
Later(h, g) == IsHeap(g) /\ h.flaws \subseteq g.flaws

(* Later is transitive, ...                                                *)
LEMMA LaterTrans ==
    ASSUME NEW h, NEW g, NEW k, Later(h, g), Later(g, k)
    PROVE  Later(h, k)
BY DEF Later

(* ... and each function of Blocks leads to a later heap.                  *)
LEMMA LaterFlaw ==
    ASSUME NEW h, IsHeap(h), NEW c, NEW f
    PROVE  /\ Later(h, FlawIf(c, h, f)) /\ Later(h, Flaw(h, f)) /\ f \in Flaw(h, f).flaws
           /\ FlawIf(c, h, f).flaws = {} => FlawIf(c, h, f) = h /\ ~c
<1>1. IsHeap(Flaw(h, f)) /\ Flaw(h, f).flaws = h.flaws \cup {f}
  BY DEF IsHeap, Fields, Flaw
<1> QED
  BY <1>1 DEF FlawIf, Later

LEMMA LaterJoin ==
    ASSUME NEW h, IsHeap(h), NEW i, NEW p, NEW n
    PROVE  Later(h, Join(h, i, p, n))
<1> DEFINE g == IF p = NULL THEN Starting(h, i, n)
                            ELSE [h EXCEPT !.hdr[p].hist_next = n]
           k == [g EXCEPT !.hdr[n].hist_prev = p]
<1>1. Later(h, g)
  BY DEF IsHeap, Fields, Later, Starting
<1> HIDE DEF g
<1>2. Later(g, k)
  BY <1>1 DEF IsHeap, Fields, Later
<1> HIDE DEF k
<1>3. Later(h, k)
  BY <1>1, <1>2, LaterTrans
<1>4. Join(h, i, p, n) = Flaw(h, "junk") \/ Join(h, i, p, n) = g \/ Join(h, i, p, n) = k
  BY Zenon DEF Join, g, k
<1> QED
  BY <1>1, <1>3, <1>4, LaterFlaw

LEMMA LaterRemove ==
    ASSUME NEW h, IsHeap(h), NEW b
    PROVE  Later(h, histogramRemove(h, b))
<1> DEFINE p == h.hdr[b].hist_prev
           n == h.hdr[b].hist_next
           i == histogramIndex(h.hdr[b].size)
           c == p = NULL /\ h.histogram[i] \notin {b, NULL}
           j == Join(h, i, p, n)
           k == [j EXCEPT !.hdr[b].hist_prev = NULL, !.hdr[b].hist_next = NULL]
<1>1. Later(h, j)
  BY LaterJoin
<1>2. histogramRemove(h, b) = FlawIf(c, k, "absent")
  BY DEF histogramRemove
<1> HIDE DEF j, c
<1>3. Later(j, k)
  BY <1>1 DEF IsHeap, Fields, Later
<1> HIDE DEF k
<1>4. Later(k, FlawIf(c, k, "absent"))
  BY <1>3, LaterFlaw DEF Later
<1> QED
  BY <1>1, <1>2, <1>3, <1>4, LaterTrans

LEMMA LaterInsert ==
    ASSUME NEW h, IsHeap(h), NEW b
    PROVE  LET size  == h.hdr[b].size
               first == h.histogram[histogramIndex(size)]
               place == Walk(h, first, size, "next")
               c     == h.flaws = {} /\ place # Walk(h, first, size, "hist_next")
           IN /\ Later(h, histogramInsert(h, b))
              /\ first # NULL => Later(FlawIf(c, h, "order"), histogramInsert(h, b))
<1> DEFINE size  == h.hdr[b].size
           i     == histogramIndex(size)
           first == h.histogram[i]
           place == Walk(h, first, size, "next")
           at    == place[2]
           c     == h.flaws = {} /\ place # Walk(h, first, size, "hist_next")
           g     == FlawIf(c, h, "order")
           r     == histogramInsert(h, b)
           k1    == Starting(h, i, b)
           k2    == Join(g, i, at, b)
           k3    == Join(g, i, b, at)
           k4    == Starting(k3, i, b)
           k5    == Join(g, i, h.hdr[at].hist_prev, b)
<1>1. r = IF first = NULL THEN k1
          ELSE IF ~place[1] THEN Join(k2, i, b, NULL)
          ELSE IF h.hdr[at].hist_prev = NULL THEN k4 ELSE Join(k5, i, b, at)
  BY Zenon DEF histogramInsert, InsertAt
<1>2. Later(h, k1)
  BY DEF IsHeap, Fields, Later, Starting
<1>3. Later(h, g)
  BY LaterFlaw
<1> HIDE DEF g, c, at, place, first, i
<1>4. Later(g, k2) /\ Later(g, k3) /\ Later(g, k5)
  BY <1>3, LaterJoin DEF Later
<1> HIDE DEF k2, k3, k5
<1>5. Later(k2, Join(k2, i, b, NULL)) /\ Later(k5, Join(k5, i, b, at))
  BY <1>4, LaterJoin DEF Later
<1>6. Later(k3, k4)
  BY <1>4 DEF IsHeap, Fields, Later, Starting
<1> HIDE DEF r, k1, k4
<1>7. first # NULL => Later(g, r)
  BY <1>1, <1>4, <1>5, <1>6, LaterTrans
<1>8. Later(h, r)
  BY <1>1, <1>2, <1>3, <1>7, LaterTrans
<1> QED
  BY <1>7, <1>8 DEF r, g, c, place, first, i

LEMMA LaterAbsorb ==
    ASSUME NEW h, IsHeap(h), NEW a, NEW b
    PROVE  Later(h, Absorb(h, a, b))
<1> DEFINE n == h.hdr[b].next
           g == [h EXCEPT !.hdr[a].size = @ + META + h.hdr[b].size, !.hdr[a].next = n]
           k == [g EXCEPT !.hdr[n].prev = a]
<1>1. Later(h, g)
  BY DEF IsHeap, Fields, Later
<1>2. Absorb(h, a, b) = IF n = NULL THEN g ELSE k
  BY DEF Absorb
<1> HIDE DEF g
<1>3. Later(g, k)
  BY <1>1 DEF IsHeap, Fields, Later
<1> HIDE DEF k
<1> QED
  BY <1>1, <1>2, <1>3, LaterTrans

(* What is removed twice, taken in and inserted. *)
LEMMA LaterMerge ==
    ASSUME NEW h, IsHeap(h), NEW a, NEW b, NEW c, NEW d
    PROVE  LET g == histogramRemove(h, c)
               k == histogramRemove(g, d)
               m == Absorb(k, a, b)
               r == histogramInsert(m, a)
           IN Later(h, g) /\ Later(g, k) /\ Later(k, m) /\ Later(m, r) /\ Later(h, r)
<1> DEFINE g == histogramRemove(h, c)
           k == histogramRemove(g, d)
           m == Absorb(k, a, b)
           r == histogramInsert(m, a)
<1>1. Later(h, g)
  BY LaterRemove
<1> HIDE DEF g
<1>2. Later(g, k)
  BY <1>1, LaterRemove DEF Later
<1> HIDE DEF k
<1>3. Later(k, m)
  BY <1>2, LaterAbsorb DEF Later
<1> HIDE DEF m
<1>4. Later(m, r)
  BY <1>3, LaterInsert DEF Later
<1> HIDE DEF r
<1>5. Later(h, r)
  BY <1>1, <1>2, <1>3, <1>4, LaterTrans
<1> QED
  BY <1>1, <1>2, <1>3, <1>4, <1>5 DEF g, k, m, r

LEMMA LaterUnite ==
    ASSUME NEW h, IsHeap(h), NEW b
    PROVE  /\ Later(h, uniteNext(h, b)) /\ Later(h, unitePrevious(h, b))
           /\ Later(uniteNext(h, b), uniteBlock(h, b)) /\ Later(h, uniteBlock(h, b))
<1>1. Later(h, h)
  BY DEF Later
<1>2. \A g : IsHeap(g) => Later(g, g)
  BY DEF Later
<1>3. ASSUME NEW g, IsHeap(g) PROVE Later(g, uniteNext(g, b))
  BY <1>2, <1>3, LaterMerge DEF uniteNext
<1>4. ASSUME NEW g, IsHeap(g) PROVE Later(g, unitePrevious(g, b))
  BY <1>2, <1>4, LaterMerge DEF unitePrevious
<1>5. IsHeap(uniteNext(h, b))
  BY <1>3 DEF Later
<1>6. Later(uniteNext(h, b), uniteBlock(h, b))
  BY <1>4, <1>5 DEF uniteBlock
<1> QED
  BY <1>3, <1>4, <1>6, LaterTrans

LEMMA LaterCut ==
    ASSUME NEW h, IsHeap(h), NEW b, NEW size
    PROVE  Later(h, Cut(h, b, size))
<1> DEFINE r == RestOf(h, b, size)
           n == h.hdr[b].next
           remainder == [size |-> h.hdr[b].size - size - META, is_free |-> TRUE,
                         next |-> n, prev |-> b, addr |-> r + META * META,
                         hist_prev |-> h.uninit, hist_next |-> h.uninit]
           short == [h EXCEPT !.hdr[b].size = size, !.hdr[b].next = r]
           linked == IF n = NULL THEN short ELSE [short EXCEPT !.hdr[n].prev = r]
           k == [linked EXCEPT !.hdr = Write(@, r, remainder)]
<1>1. Cut(h, b, size) = k
  BY DEF Cut
<1> HIDE DEF remainder, r, n
<1>2. Later(h, short)
  BY DEF IsHeap, Fields, Later
<1> HIDE DEF short
<1>3. Later(short, linked)
  BY <1>2 DEF IsHeap, Fields, Later
<1> HIDE DEF linked
<1>4. Later(linked, k)
  BY <1>3 DEF IsHeap, Fields, Later
<1> QED
  BY <1>1, <1>2, <1>3, <1>4, LaterTrans

(* The heaps that splitBlock goes through. *)
SplitSteps(h, b, size, f, g, r, c, k, in, m) ==
    /\ f = histogramRemove(h, b) /\ r = RestOf(g, b, size) /\ c = Cut(g, b, size)
    /\ k = histogramInsert(c, b) /\ in = histogramInsert(k, r)
    /\ splitBlock(h, b, size) = uniteBlock(m, r)
    /\ Later(h, f) /\ Later(f, g) /\ Later(g, c) /\ Later(c, k) /\ Later(k, in)
    /\ Later(in, m) /\ Later(m, splitBlock(h, b, size)) /\ Later(h, splitBlock(h, b, size))
    /\ g.flaws = {} => g = f /\ h.hdr[b].addr = b + META
    /\ m.flaws = {} => m = in /\ Junk \notin {in.hdr[r].hist_prev, in.hdr[r].hist_next}

LEMMA LaterSplit ==
    ASSUME NEW h, IsHeap(h), NEW b, NEW size
    PROVE  \E f, g, r, c, k, in, m : SplitSteps(h, b, size, f, g, r, c, k, in, m)
<1> DEFINE f == histogramRemove(h, b)
           g == FlawIf(h.hdr[b].addr # b + META, f, "remainder")
           r == RestOf(g, b, size)
           c == Cut(g, b, size)
           k == histogramInsert(c, b)
           in == histogramInsert(k, r)
           m == FlawIf(Junk \in {in.hdr[r].hist_prev, in.hdr[r].hist_next}, in, "junk")
           s == splitBlock(h, b, size)
<1>0. s = uniteBlock(m, r)
  BY DEF splitBlock
<1>9. f = histogramRemove(h, b)
  OBVIOUS
<1>10. r = RestOf(g, b, size) /\ c = Cut(g, b, size)
  OBVIOUS
<1>11. k = histogramInsert(c, b) /\ in = histogramInsert(k, r)
  OBVIOUS
<1>1. Later(h, f)
  BY LaterRemove
<1> HIDE DEF s, f
<1>2. Later(f, g) /\ (g.flaws = {} => g = f /\ h.hdr[b].addr = b + META)
  BY <1>1, LaterFlaw DEF Later
<1> HIDE DEF g
<1>3. Later(g, c)
  BY <1>2, LaterCut DEF Later
<1> HIDE DEF c, r
<1>4. Later(c, k)
  BY <1>3, LaterInsert DEF Later
<1> HIDE DEF k
<1>5. Later(k, in)
  BY <1>4, LaterInsert DEF Later
<1> HIDE DEF in
<1>6. Later(in, m)
      /\ (m.flaws = {} => m = in /\ Junk \notin {in.hdr[r].hist_prev, in.hdr[r].hist_next})
  BY <1>5, LaterFlaw DEF Later
<1> HIDE DEF m
<1>7. Later(m, s)
  BY <1>0, <1>6, LaterUnite DEF Later
<1>8. Later(h, s)
  BY <1>1, <1>2, <1>3, <1>4, <1>5, <1>6, <1>7, LaterTrans
<1>12. SplitSteps(h, b, size, f, g, r, c, k, in, m)
  BY <1>0, <1>1, <1>2, <1>3, <1>4, <1>5, <1>6, <1>7, <1>8, <1>9, <1>10, <1>11 DEF SplitSteps, s
<1> QED
  BY <1>12

LEMMA LaterHandOut ==
    ASSUME NEW h, IsHeap(h), NEW b
    PROVE  LET r == HandOut(h, b) IN
           /\ Later(h, r.heap) /\ r.ptr = h.hdr[b].addr
           /\ r.heap.flaws = {} => r.heap = h /\ r.ptr = b + META
<1> DEFINE f == FlawIf(h.hdr[b].addr # b + META, h, "remainder")
<1>1. Later(h, f) /\ (f.flaws = {} => f = h /\ h.hdr[b].addr = b + META)
  BY LaterFlaw
<1>2. HandOut(h, b).heap = f /\ HandOut(h, b).ptr = h.hdr[b].addr
  BY DEF HandOut, Result
<1> HIDE DEF f
<1> QED
  BY <1>1, <1>2

-----------------------------------------------------------------------------
(* histogramRemove *)

(* The blocks of F are in the histogram of g as in that of h. *)
HistSame(h, g, N, F) ==
    /\ F \subseteq DOMAIN h.hdr /\ F \subseteq DOMAIN g.hdr /\ F \subseteq N
    /\ g.histogram = h.histogram
    /\ \A x \in F : /\ g.hdr[x].size = h.hdr[x].size
                    /\ g.hdr[x].hist_next = h.hdr[x].hist_next
                    /\ g.hdr[x].hist_prev = h.hdr[x].hist_prev
                    /\ h.hdr[x].hist_next \in F \cup {NULL}
    /\ \A x \in N \ F : g.hdr[x].hist_next = NULL /\ g.hdr[x].hist_prev = NULL

(* The histogram depends on its own fields, sizes and heads.               *)
LEMMA HistKept ==
    ASSUME NEW h, NEW g, NEW N, NEW N2, NEW F, HistOK(h, N, F), HistSame(h, g, N2, F)
    PROVE  HistOK(g, N2, F)
<1>1. F \subseteq N2 /\ g.histogram \in [Buckets -> Nat]
  BY DEF HistSame, HistOK
<1>2. ASSUME NEW i \in Buckets
      PROVE  Linked(InBucket(g, F, i), g.histogram[i], hist_nexts(g), hist_prevs(g))
  <2>1. InBucket(g, F, i) = InBucket(h, F, i) /\ g.histogram[i] = h.histogram[i]
    BY DEF HistSame, InBucket
  <2>2. Linked(InBucket(h, F, i), h.histogram[i], hist_nexts(h), hist_prevs(h))
    BY DEF HistOK
  <2>3. \A x \in InBucket(h, F, i) : /\ hist_nexts(g)[x] = hist_nexts(h)[x]
                                     /\ hist_prevs(g)[x] = hist_prevs(h)[x]
    BY DEF HistSame, InBucket, hist_nexts, hist_prevs
  <2> QED
    BY <2>1, <2>2, <2>3, LinkedSame
<1>3. \A b \in F : LET n == g.hdr[b].hist_next IN
          n # NULL => g.hdr[b].size <= g.hdr[n].size
  BY DEF HistSame, HistOK
<1>4. \A b \in N2 \ F : g.hdr[b].hist_next = NULL /\ g.hdr[b].hist_prev = NULL
  BY DEF HistSame
<1> QED
  BY <1>1, <1>2, <1>3, <1>4 DEF HistOK

LEMMA LinkedNone ==
    ASSUME NEW B, NULL \notin B, NEW nx, NEW pv, NEW first, first = NULL, Linked(B, first, nx, pv)
    PROVE  B = {}
<1> SUFFICES ASSUME B # {} PROVE FALSE
  OBVIOUS
<1>1. B \in SUBSET B
  OBVIOUS
<1>2. PICK b \in B : pv[b] \notin B
  BY <1>1 DEF Linked
<1> QED
  BY <1>2 DEF Linked

Facts(h, L, M, N, F) ==
    /\ HeapOK(h, L, M) /\ HistOK(h, N, F) /\ Headers(h, L \cup M) /\ IsHeap(h) /\ h.flaws = {}
    /\ F \subseteq N /\ N \subseteq L \cup M /\ F \subseteq L \cup M
    /\ L \cup M \subseteq DOMAIN h.hdr /\ L \cup M \subseteq Nat \ {0}
    /\ NULL \notin L \cup M /\ NULL \notin DOMAIN h.hdr
    /\ L \subseteq 1..Limit /\ IsFiniteSet(L) /\ IsFiniteSet(F)

(* What a state says, in pieces.                                           *)
LEMMA StateFacts ==
    ASSUME NEW h, NEW L, NEW M, NEW N, NEW F, State(h, L, M, N, F)
    PROVE  Facts(h, L, M, N, F)
<1>1. L \subseteq 1..Limit /\ IsFiniteSet(1..Limit)
  BY Constants, UpTo DEF State, HeapOK
<1>2. IsFiniteSet(L) /\ IsFiniteSet(M) /\ IsFiniteSet(L \cup M)
  BY <1>1, FS_Subset, FS_Union DEF State, HeapOK, Mappings
<1>3. F \subseteq L \cup M
  BY DEF State, HistOK
<1>4. IsFiniteSet(F)
  BY <1>2, <1>3, FS_Subset
<1> QED
  BY <1>1, <1>2, <1>3, <1>4 DEF State, HeapOK, Headers, HistOK, Facts

(* A block that is in no bucket. *)
LEMMA RemoveOut ==
    ASSUME NEW h, NEW L, NEW M, NEW N, NEW F, State(h, L, M, N, F), NEW b, b \in N, b \notin F,
           histogramRemove(h, b).flaws = {}
    PROVE  LET g == histogramRemove(h, b) IN
           State(g, L, M, N, F) /\ Same(h, g, L \cup M)
<1> DEFINE B == L \cup M
           i == histogramIndex(h.hdr[b].size)
           g == histogramRemove(h, b)
<1>1. /\ HeapOK(h, L, M) /\ HistOK(h, N, F) /\ Headers(h, B) /\ h.flaws = {}
      /\ F \subseteq N /\ N \subseteq B /\ F \subseteq B /\ B \subseteq DOMAIN h.hdr /\ NULL \notin B
  <2>1. Facts(h, L, M, N, F)
    BY StateFacts
  <2> QED
    BY <2>1 DEF Facts
<1>2. h.hdr[b].hist_next = NULL /\ h.hdr[b].hist_prev = NULL
  BY <1>1 DEF HistOK
<1>3. LinksIn(h, b, B)
  BY <1>1, <1>2 DEF LinksIn
<1>4. Removed(h, g, B, b)
  BY <1>1, <1>3, RemoveIs
<1>5. h.hdr[b].size \in Nat /\ i \in Buckets
  BY <1>1, HeaderIs, IndexIn
<1> HIDE DEF g, i
<1>6. h.histogram[i] = NULL
  <2>1. Linked(InBucket(h, F, i), h.histogram[i], hist_nexts(h), hist_prevs(h))
    BY <1>1, <1>5 DEF HistOK
  <2>2. h.histogram[i] \in InBucket(h, F, i) \cup {NULL}
    BY <2>1 DEF Linked
  <2>3. b \notin InBucket(h, F, i)
    BY DEF InBucket
  <2>4. h.histogram[i] \in {b, NULL}
    BY <1>2, <1>4 DEF Removed, i
  <2> QED
    BY <2>2, <2>3, <2>4
<1>7. g.histogram = h.histogram
  BY <1>1, <1>2, <1>4, <1>5, <1>6 DEF Removed, i, HistOK
<1>8. \A x \in B : g.hdr[x].hist_next = h.hdr[x].hist_next /\ g.hdr[x].hist_prev = h.hdr[x].hist_prev
  BY <1>1, <1>2, <1>4 DEF Removed
<1>9. Same(h, g, B) /\ g.flaws = {}
  BY <1>4 DEF Removed
<1>10. HeapOK(g, L, M)
  BY <1>1, <1>9, SameHeapOK
<1>11. HistSame(h, g, N, F)
  <2>1. \A x \in F : h.hdr[x].hist_next \in F \cup {NULL}
    <3> TAKE x \in F
    <3>1. h.hdr[x].hist_next \in InBucket(h, F, histogramIndex(h.hdr[x].size)) \cup {NULL}
      BY <1>1, InHist
    <3> QED
      BY <3>1 DEF InBucket
  <2>2. DOMAIN g.hdr = DOMAIN h.hdr /\ \A x \in B : g.hdr[x].size = h.hdr[x].size
    BY <1>9 DEF Same
  <2>3. \A x \in N \ F : g.hdr[x].hist_next = NULL /\ g.hdr[x].hist_prev = NULL
    BY <1>1, <1>8 DEF HistOK
  <2> QED
    BY <1>1, <1>7, <1>8, <2>1, <2>2, <2>3 DEF HistSame
<1>12. HistOK(g, N, F)
  BY <1>1, <1>11, HistKept
<1> QED
  BY <1>1, <1>9, <1>10, <1>12 DEF State, g

(* histogramRemove, wherever the block is. *)
LEMMA RemoveState ==
    ASSUME NEW h, NEW L, NEW M, NEW N, NEW F, State(h, L, M, N, F), NEW b, b \in N,
           b \in F \/ histogramRemove(h, b).flaws = {}
    PROVE  LET g == histogramRemove(h, b) IN
           State(g, L, M, N, F \ {b}) /\ Same(h, g, L \cup M)
<1>1. CASE b \in F
  BY <1>1, RemoveIn
<1>2. CASE b \notin F
  <2>1. F \ {b} = F
    BY <1>2
  <2> QED
    BY <1>2, <2>1, RemoveOut
<1> QED
  BY <1>1, <1>2

-----------------------------------------------------------------------------
(* histogramInsert *)

(* Block b has been put into its bucket between p and n; its own links may *)
(* have been left as they were where they should be NULL.                  *)
InsertedAt(h, g, B, b, p, n) ==
    LET i == histogramIndex(h.hdr[b].size) IN
    /\ Same(h, g, B) /\ g.flaws = {}
    /\ g.histogram = IF p = NULL THEN [h.histogram EXCEPT ![i] = b] ELSE h.histogram
    /\ \A x \in B \ {b} :
         /\ g.hdr[x].hist_next = IF x = p THEN b ELSE h.hdr[x].hist_next
         /\ g.hdr[x].hist_prev = IF x = n THEN b ELSE h.hdr[x].hist_prev
    /\ g.hdr[b].hist_next = n \/ (n = NULL /\ g.hdr[b].hist_next = h.hdr[b].hist_next)
    /\ g.hdr[b].hist_prev = p \/ (p = NULL /\ g.hdr[b].hist_prev = h.hdr[b].hist_prev)

(* That is where it belongs. *)
Place(h, F, b, p, n) ==
    LET size == h.hdr[b].size
        i    == histogramIndex(size)
    IN /\ Neighbours(InBucket(h, F, i), p, n, h.histogram[i], hist_nexts(h), hist_prevs(h))
       /\ p # NULL => h.hdr[p].size <= size
       /\ n # NULL => size <= h.hdr[n].size

(* Without a flaw, histogramInsert has put the block where it belongs: the *)
(* walk along next has stopped where one along hist_next stops.            *)
LEMMA InsertShape ==
    ASSUME NEW h, NEW L, NEW M, NEW N, NEW F, State(h, L, M, N, F), NEW b, b \in L \cup M, b \notin F,
           histogramInsert(h, b).flaws = {}
    PROVE  \E p, n : InsertedAt(h, histogramInsert(h, b), L \cup M, b, p, n) /\ Place(h, F, b, p, n)
<1> DEFINE B     == L \cup M
           size  == h.hdr[b].size
           i     == histogramIndex(size)
           K     == InBucket(h, F, i)
           first == h.histogram[i]
           place == Walk(h, first, size, "next")
           hist  == Walk(h, first, size, "hist_next")
           at    == place[2]
           g     == FlawIf(h.flaws = {} /\ place # hist, h, "order")
           r     == histogramInsert(h, b)
           k1    == Starting(h, i, b)
           k2    == Join(g, i, at, b)
           k3    == Join(g, i, b, at)
           k4    == Starting(k3, i, b)
           k5    == Join(g, i, h.hdr[at].hist_prev, b)
<1>1. Facts(h, L, M, N, F)
  BY StateFacts
<1>2. /\ HeapOK(h, L, M) /\ HistOK(h, N, F) /\ Headers(h, B) /\ IsHeap(h) /\ h.flaws = {}
      /\ F \subseteq B /\ NULL \notin B /\ B \subseteq DOMAIN h.hdr /\ NULL \notin DOMAIN h.hdr
      /\ IsFiniteSet(F)
  BY <1>1 DEF Facts
<1>3. b \in B /\ b # NULL /\ size \in Nat /\ i \in Buckets
  BY <1>2, HeaderIs, IndexIn
<1>4. /\ Linked(K, first, hist_nexts(h), hist_prevs(h)) /\ K \subseteq F /\ b \notin K
      /\ IsFiniteSet(K) /\ first \in Nat
  <2>1. K \subseteq F
    BY DEF InBucket
  <2>2. IsFiniteSet(K)
    BY <1>2, <2>1, FS_Subset
  <2> QED
    BY <1>2, <1>3, <2>1, <2>2 DEF HistOK
<1>5. r = IF first = NULL THEN k1
          ELSE IF ~place[1] THEN Join(k2, i, b, NULL)
          ELSE IF h.hdr[at].hist_prev = NULL THEN k4 ELSE Join(k5, i, b, at)
  BY Zenon DEF histogramInsert, InsertAt
<1> DEFINE p == h.hdr[at].hist_prev
<1>6. first # NULL => Later(g, r)
  BY <1>2, LaterInsert
<1>7. r.flaws = {}
  OBVIOUS
<1> HIDE DEF r
<1>8. first # NULL => g = h /\ place = hist
  <2> SUFFICES ASSUME first # NULL PROVE g = h /\ place = hist
    OBVIOUS
  <2>1. g.flaws = {}
    BY <1>6, <1>7 DEF Later
  <2> HIDE DEF place, hist
  <2> QED
    BY <1>2, <2>1, LaterFlaw
<1>9. ASSUME first # NULL
      PROVE  /\ place[1] \in BOOLEAN /\ at \in K
             /\ place[1] => size <= h.hdr[at].size /\ (p # NULL => h.hdr[p].size < size)
             /\ ~place[1] => h.hdr[at].hist_next = NULL /\ \A y \in K : h.hdr[y].size < size
  <2>1. \A x \in DOMAIN h.hdr : hist_nexts(h)[x] = h.hdr[x]["hist_next"]
    BY DEF hist_nexts
  <2>2. Sized(h, K)
    BY <1>2, <1>4, HeaderIs DEF Sized
  <2>3. K \subseteq DOMAIN h.hdr
    BY <1>2, <1>4
  <2> HIDE DEF K, size, first, i
  <2>6. Reads(h, "hist_next", K, first, hist_nexts(h), hist_prevs(h))
    BY <1>2, <1>4, <2>1, <2>3 DEF Reads
  <2>7. WalkedTo(h, K, hist_nexts(h), hist_prevs(h), size, hist)
    BY <1>3, <1>9, <2>2, <2>6, WalkOf
  <2>4. /\ hist[1] \in BOOLEAN /\ hist[2] \in K
        /\ hist[1] => /\ size <= h.hdr[hist[2]].size
                      /\ hist_prevs(h)[hist[2]] # NULL => h.hdr[hist_prevs(h)[hist[2]]].size < size
        /\ ~hist[1] => /\ hist_nexts(h)[hist[2]] = NULL
                       /\ \A y \in K : h.hdr[y].size < size
    BY <2>7 DEF WalkedTo
  <2>5. place = hist
    BY <1>8, <1>9
  <2> HIDE DEF hist, place
  <2> QED
    BY <2>3, <2>4, <2>5 DEF hist_prevs, hist_nexts
<1> HIDE DEF place, hist, g, first, i, size, K
<1>10. ASSUME at \in K
       PROVE  /\ at \in B /\ at # NULL /\ at # b
              /\ p \in K \cup {NULL} /\ h.hdr[at].hist_next \in K \cup {NULL}
              /\ p = NULL <=> at = first
              /\ p # NULL => p \in B /\ p # b
              /\ hist_prevs(h)[at] = p /\ hist_nexts(h)[at] = h.hdr[at].hist_next
              /\ p # NULL => hist_nexts(h)[p] = at
  <2>1. at \in B /\ at # NULL /\ at # b
    BY <1>2, <1>4, <1>10
  <2>2. hist_prevs(h)[at] = p /\ hist_nexts(h)[at] = h.hdr[at].hist_next
    BY <1>2, <2>1 DEF hist_prevs, hist_nexts
  <2> HIDE DEF at, p
  <2>3. /\ p \in K \cup {NULL} /\ hist_nexts(h)[at] \in K \cup {NULL}
        /\ p = NULL <=> at = first
        /\ p # NULL => hist_nexts(h)[p] = at
    BY <1>4, <1>10, <2>2 DEF Linked
  <2>4. p # NULL => p \in B /\ p # b
    BY <1>2, <1>4, <2>3
  <2> QED
    BY <2>1, <2>2, <2>3, <2>4
<1>11. CASE first = NULL
  <2>1. K = {}
    BY <1>2, <1>4, <1>11, LinkedNone
  <2>2. InsertedAt(h, r, B, b, NULL, NULL)
    BY <1>2, <1>3, <1>5, <1>11 DEF InsertedAt, Same, Headers, IsHeap, Fields, i, size, Starting
  <2>3. Place(h, F, b, NULL, NULL)
    BY <1>11, <2>1 DEF Place, Neighbours, K, i, first, size
  <2> QED
    BY <2>2, <2>3 DEF r
<1>12. CASE first # NULL /\ ~place[1]
  <2> DEFINE j == Join(h, i, at, b)
             k == Join(j, i, b, NULL)
  <2>1. r = k
    BY <1>5, <1>8, <1>12
  <2>2. Joined(h, j, B, i, at, b)
    BY <1>2, <1>3, <1>9, <1>10, <1>12, JoinIs
  <2>3. Headers(j, B)
    BY <1>2, <2>2, SameHeaders DEF Joined
  <2> HIDE DEF j
  <2>4. Joined(j, k, B, i, b, NULL)
    BY <1>3, <2>3, JoinIs
  <2> HIDE DEF k
  <2>5. Same(h, k, B)
    BY <2>2, <2>4, SameTrans DEF Joined
  <2>6. InsertedAt(h, k, B, b, at, NULL)
    BY <1>2, <1>3, <1>9, <1>10, <1>12, <2>2, <2>4, <2>5 DEF InsertedAt, Joined
  <2>7. Place(h, F, b, at, NULL)
    <3>1. at \in K /\ hist_nexts(h)[at] = NULL /\ at # NULL /\ h.hdr[at].size < size
      BY <1>9, <1>10, <1>12
    <3>2. h.hdr[at].size \in Nat
      BY <1>2, <1>9, <1>10, <1>12, HeaderIs
    <3> QED
      BY <1>3, <3>1, <3>2 DEF Place, Neighbours, K, i, first, size
  <2> QED
    BY <2>1, <2>6, <2>7 DEF r
<1>13. CASE first # NULL /\ place[1] /\ p = NULL
  <2> DEFINE j == Join(h, i, b, at)
             k == Starting(j, i, b)
  <2>1. r = k
    BY <1>5, <1>8, <1>13
  <2>2. Joined(h, j, B, i, b, at)
    BY <1>2, <1>3, <1>9, <1>10, <1>13, JoinIs
  <2>3. Headers(j, B)
    BY <1>2, <2>2, SameHeaders DEF Joined
  <2> HIDE DEF j
  <2>4. /\ Same(j, k, B) /\ k.flaws = j.flaws /\ k.hdr = j.hdr
        /\ k.histogram = [j.histogram EXCEPT ![i] = b]
    BY <2>3 DEF Same, Headers, IsHeap, Fields, Starting
  <2> HIDE DEF k
  <2>5. Same(h, k, B)
    BY <2>2, <2>4, SameTrans DEF Joined
  <2>6. InsertedAt(h, k, B, b, NULL, at)
    BY <1>2, <1>3, <1>9, <1>10, <1>13, <2>2, <2>4, <2>5 DEF InsertedAt, Joined, i, size
  <2>7. Place(h, F, b, NULL, at)
    BY <1>9, <1>10, <1>13 DEF Place, Neighbours, K, i, first, size
  <2> QED
    BY <2>1, <2>6, <2>7 DEF r
<1>14. CASE first # NULL /\ place[1] /\ p # NULL
  <2> DEFINE j == Join(h, i, p, b)
             k == Join(j, i, b, at)
  <2>1. r = k
    BY <1>5, <1>8, <1>14
  <2>2. Joined(h, j, B, i, p, b)
    BY <1>2, <1>3, <1>9, <1>10, <1>14, JoinIs
  <2>3. Headers(j, B)
    BY <1>2, <2>2, SameHeaders DEF Joined
  <2> HIDE DEF j
  <2>4. Joined(j, k, B, i, b, at)
    BY <1>3, <1>9, <1>10, <1>14, <2>3, JoinIs
  <2> HIDE DEF k
  <2>5. Same(h, k, B)
    BY <2>2, <2>4, SameTrans DEF Joined
  <2>6. InsertedAt(h, k, B, b, p, at)
    BY <1>2, <1>3, <1>9, <1>10, <1>14, <2>2, <2>4, <2>5 DEF InsertedAt, Joined
  <2>7. Place(h, F, b, p, at)
    <3>1. /\ at \in K /\ p \in K /\ hist_nexts(h)[p] = at /\ hist_prevs(h)[at] = p
          /\ p # NULL /\ at # NULL /\ h.hdr[p].size < size /\ size <= h.hdr[at].size
      BY <1>9, <1>10, <1>14
    <3>2. h.hdr[p].size \in Nat
      BY <1>2, <1>9, <1>10, <1>14, HeaderIs
    <3> QED
      BY <1>3, <3>1, <3>2 DEF Place, Neighbours, K, i, first, size
  <2> QED
    BY <2>1, <2>6, <2>7 DEF r
<1> QED
  BY <1>9, <1>11, <1>12, <1>13, <1>14

-----------------------------------------------------------------------------
(* histogramInsert of a block that is in no bucket. *)
LEMMA InsertState ==
    ASSUME NEW h, NEW L, NEW M, NEW N, NEW F, State(h, L, M, N, F), NEW b, b \in L \cup M, b \notin F,
           h.hdr[b].hist_next \in {NULL, Junk}, h.hdr[b].hist_prev \in {NULL, Junk},
           histogramInsert(h, b).flaws = {}
    PROVE  LET g == histogramInsert(h, b) IN
           /\ Same(h, g, L \cup M) /\ HeapOK(g, L, M)
           /\ g.hdr[b].hist_next # Junk /\ g.hdr[b].hist_prev # Junk
              => State(g, L, M, N \cup {b}, F \cup {b})
           /\ b \in N => State(g, L, M, N \cup {b}, F \cup {b})
<1> DEFINE B == L \cup M
           i == histogramIndex(h.hdr[b].size)
           g == histogramInsert(h, b)
           G == F \cup {b}
<1>1. Facts(h, L, M, N, F)
  BY StateFacts
<1>2. /\ HeapOK(h, L, M) /\ HistOK(h, N, F) /\ Headers(h, B)
      /\ F \subseteq N /\ N \subseteq B /\ NULL \notin B /\ B \subseteq DOMAIN h.hdr
      /\ NULL \notin DOMAIN h.hdr
  BY <1>1 DEF Facts
<1>3. PICK p, n : InsertedAt(h, g, B, b, p, n) /\ Place(h, F, b, p, n)
  BY InsertShape
<1>4. b \in B /\ b # NULL /\ h.hdr[b].size \in Nat /\ i \in Buckets
  BY <1>2, HeaderIs, IndexIn
<1> DEFINE K == InBucket(h, F, i)
<1>5. /\ p \in K \cup {NULL} /\ n \in K \cup {NULL} /\ K \subseteq F /\ b \notin K
      /\ Neighbours(K, p, n, h.histogram[i], hist_nexts(h), hist_prevs(h))
      /\ p # NULL => h.hdr[p].size <= h.hdr[b].size
      /\ n # NULL => h.hdr[b].size <= h.hdr[n].size
  <2>1. K \subseteq F
    BY DEF InBucket
  <2>2. /\ Neighbours(K, p, n, h.histogram[i], hist_nexts(h), hist_prevs(h))
        /\ p # NULL => h.hdr[p].size <= h.hdr[b].size
        /\ n # NULL => h.hdr[b].size <= h.hdr[n].size
    BY <1>3 DEF Place
  <2> HIDE DEF K
  <2> QED
    BY <2>1, <2>2 DEF Neighbours
<1>6. /\ Same(h, g, B) /\ g.flaws = {}
      /\ g.histogram = IF p = NULL THEN [h.histogram EXCEPT ![i] = b] ELSE h.histogram
      /\ \A x \in B \ {b} :
           /\ g.hdr[x].hist_next = IF x = p THEN b ELSE h.hdr[x].hist_next
           /\ g.hdr[x].hist_prev = IF x = n THEN b ELSE h.hdr[x].hist_prev
      /\ g.hdr[b].hist_next = n \/ (n = NULL /\ g.hdr[b].hist_next = h.hdr[b].hist_next)
      /\ g.hdr[b].hist_prev = p \/ (p = NULL /\ g.hdr[b].hist_prev = h.hdr[b].hist_prev)
  BY <1>3 DEF InsertedAt
<1> HIDE DEF g, i
<1>7. HeapOK(g, L, M)
  BY <1>2, <1>6, SameHeapOK
<1>8. b \in N => g.hdr[b].hist_next # Junk /\ g.hdr[b].hist_prev # Junk
  <2> SUFFICES ASSUME b \in N PROVE g.hdr[b].hist_next # Junk /\ g.hdr[b].hist_prev # Junk
    OBVIOUS
  <2>1. h.hdr[b].hist_next = NULL /\ h.hdr[b].hist_prev = NULL
    BY <1>2 DEF HistOK
  <2>2. n # Junk /\ p # Junk /\ NULL # Junk
    <3>1. Junk \notin B /\ NULL # Junk
      BY <1>2, Constants DEF Headers
    <3> QED
      BY <1>2, <1>5, <3>1
  <2> QED
    BY <1>6, <2>1, <2>2
<1>9. ASSUME g.hdr[b].hist_next # Junk, g.hdr[b].hist_prev # Junk
      PROVE  HistOK(g, N \cup {b}, G)
  <2>1. g.hdr[b].hist_next = n /\ g.hdr[b].hist_prev = p
    BY <1>6, <1>9
  <2>2. \A x \in B : /\ hist_nexts(h)[x] = h.hdr[x].hist_next /\ hist_prevs(h)[x] = h.hdr[x].hist_prev
                     /\ hist_nexts(g)[x] = g.hdr[x].hist_next /\ hist_prevs(g)[x] = g.hdr[x].hist_prev
    BY <1>2, <1>6 DEF hist_nexts, hist_prevs, Same
  <2>3. \A j : InBucket(g, G, j) = InBucket(h, F, j) \cup (IF j = i THEN {b} ELSE {})
    BY <1>2, <1>4, <1>6 DEF InBucket, Same, i
  <2>4. ASSUME NEW j \in Buckets
        PROVE  Linked(InBucket(g, G, j), g.histogram[j], hist_nexts(g), hist_prevs(g))
    <3>1. Linked(InBucket(h, F, j), h.histogram[j], hist_nexts(h), hist_prevs(h))
      BY <1>2 DEF HistOK
    <3>2. InBucket(h, F, j) \subseteq F /\ InBucket(h, F, j) \subseteq B
      BY <1>2 DEF InBucket
    <3>3. CASE j = i
      <4>1. PutIn(K, b, p, n, h.histogram[i], hist_nexts(h), hist_prevs(h),
                  g.histogram[i], hist_nexts(g), hist_prevs(g))
        <5>1. ASSUME NEW x \in K
              PROVE  /\ hist_nexts(g)[x] = IF x = p THEN b ELSE hist_nexts(h)[x]
                     /\ hist_prevs(g)[x] = IF x = n THEN b ELSE hist_prevs(h)[x]
          <6>1. x \in B \ {b}
            BY <1>5, <3>2, <3>3
          <6> QED
            BY <1>6, <2>2, <6>1
        <5>2. hist_nexts(g)[b] = n /\ hist_prevs(g)[b] = p
          BY <1>4, <2>1, <2>2
        <5>3. g.histogram[i] = IF p = NULL THEN b ELSE h.histogram[i]
          BY <1>2, <1>4, <1>6 DEF HistOK
        <5> HIDE DEF K
        <5> QED
          BY <5>1, <5>2, <5>3 DEF PutIn
      <4>2. NULL \notin K
        BY <1>2, <3>2, <3>3
      <4> HIDE DEF K
      <4>3. Linked(K, h.histogram[i], hist_nexts(h), hist_prevs(h))
        BY <3>1, <3>3 DEF K
      <4>4. Linked(K \cup {b}, g.histogram[i], hist_nexts(g), hist_prevs(g))
        BY <1>4, <1>5, <4>1, <4>2, <4>3, LinkedInsert
      <4>5. InBucket(g, G, j) = K \cup {b}
        BY <2>3, <3>3 DEF K
      <4> QED
        BY <3>3, <4>4, <4>5
    <3>4. CASE j # i
      <4>1. \A x \in InBucket(h, F, j) : x \notin K /\ x \in B /\ x # b
        BY <3>2, <3>4 DEF InBucket
      <4>2. \A x \in InBucket(h, F, j) : /\ hist_nexts(g)[x] = hist_nexts(h)[x]
                                         /\ hist_prevs(g)[x] = hist_prevs(h)[x]
        <5> HIDE DEF K
        <5> TAKE x \in InBucket(h, F, j)
        <5>1. x \notin K /\ x \in B /\ x # b /\ x # NULL
          BY <1>2, <4>1
        <5>2. x # p /\ x # n
          BY <1>5, <5>1
        <5> QED
          BY <1>6, <2>2, <5>1, <5>2
      <4>3. InBucket(g, G, j) = InBucket(h, F, j)
        BY <2>3, <3>4
      <4>4. g.histogram[j] = h.histogram[j]
        BY <1>2, <1>6, <3>4 DEF HistOK
      <4> QED
        BY <3>1, <4>2, <4>3, <4>4, LinkedSame
    <3> QED
      BY <3>3, <3>4
  <2>5. g.histogram \in [Buckets -> Nat]
    <3>1. b \in Nat
      BY <1>2, <1>4 DEF Headers
    <3> QED
      BY <1>2, <1>4, <1>6, <3>1 DEF HistOK
  <2>6. \A y \in B : g.hdr[y].size = h.hdr[y].size /\ h.hdr[y].size \in Nat
    BY <1>2, <1>6, HeaderIs DEF Same
  <2>7. ASSUME NEW x \in G, g.hdr[x].hist_next # NULL
        PROVE  g.hdr[x].size <= g.hdr[g.hdr[x].hist_next].size
    <3> HIDE DEF K
    <3>1. CASE x = b
      <4>1. n \in B
        BY <1>2, <1>5, <2>1, <2>7, <3>1
      <4> QED
        BY <1>4, <1>5, <2>1, <2>6, <2>7, <3>1, <4>1
    <3>2. CASE x # b /\ x = p
      <4>1. x \in B /\ x # NULL /\ g.hdr[x].hist_next = b
        BY <1>2, <1>6, <3>2
      <4> QED
        BY <1>4, <1>5, <2>6, <3>2, <4>1
    <3>3. CASE x # b /\ x # p
      <4>1. x \in F /\ x \in B /\ g.hdr[x].hist_next = h.hdr[x].hist_next
        BY <1>2, <1>6, <3>3
      <4>2. h.hdr[x].size <= h.hdr[h.hdr[x].hist_next].size
        BY <1>2, <2>7, <4>1 DEF HistOK
      <4>3. h.hdr[x].hist_next \in B
        <5>1. h.hdr[x].hist_next \in InBucket(h, F, histogramIndex(h.hdr[x].size)) \cup {NULL}
          BY <1>2, <4>1, InHist
        <5> QED
          BY <1>2, <2>7, <4>1, <5>1 DEF InBucket
      <4> QED
        BY <2>6, <4>1, <4>2, <4>3
    <3> QED
      BY <3>1, <3>2, <3>3
  <2>8. ASSUME NEW x \in (N \cup {b}) \ G PROVE g.hdr[x].hist_next = NULL /\ g.hdr[x].hist_prev = NULL
    <3>1. x \in N \ F /\ x \in B /\ x # b /\ x # NULL
      BY <1>2
    <3>2. h.hdr[x].hist_next = NULL /\ h.hdr[x].hist_prev = NULL
      BY <1>2, <3>1 DEF HistOK
    <3> HIDE DEF K
    <3>3. x # p /\ x # n
      BY <1>5, <3>1
    <3> QED
      BY <1>6, <3>1, <3>2, <3>3
  <2> HIDE DEF G
  <2>9. G \subseteq N \cup {b}
    BY <1>2 DEF G
  <2> QED
    BY <2>4, <2>5, <2>7, <2>8, <2>9 DEF HistOK
<1>10. N \cup {b} \subseteq B
  BY <1>2, <1>4
<1>11. ASSUME g.hdr[b].hist_next # Junk, g.hdr[b].hist_prev # Junk
       PROVE  State(g, L, M, N \cup {b}, F \cup {b})
  BY <1>7, <1>9, <1>10, <1>11 DEF State
<1> QED
  BY <1>6, <1>7, <1>8, <1>11 DEF g

-----------------------------------------------------------------------------
(* ALIGNMENT *)

(* The multiples of n. *)
LEMMA MultipleIs ==
    ASSUME NEW n \in Nat \ {0}, NEW a \in Nat
    PROVE  a % n = 0 <=> \E q \in Nat : a = q * n
<1>1. a = ((a \div n) * n) + (a % n) /\ a \div n \in Int /\ a \div n >= 0
  OBVIOUS
<1>2. a % n = 0 => \E q \in Nat : a = q * n
  <2> SUFFICES ASSUME a % n = 0 PROVE \E q \in Nat : a = q * n
    OBVIOUS
  <2> DEFINE q == a \div n
  <2>1. a = q * n /\ q \in Nat
    BY <1>1
  <2> HIDE DEF q
  <2> QED
    BY <2>1
<1>3. ASSUME NEW q \in Nat, a = q * n PROVE a % n = 0
  BY <1>3
<1> QED
  BY <1>2, <1>3

(* Sums of multiples...                                                    *)
LEMMA MultipleSum ==
    ASSUME NEW n, n \in Nat \ {0}, NEW a, a \in Nat, NEW b, b \in Nat, a % n = 0, b % n = 0
    PROVE  (a + b) % n = 0
<1>1. PICK p \in Nat : a = p * n
  BY MultipleIs
<1>2. PICK q \in Nat : b = q * n
  BY MultipleIs
<1>3. a + b = (p + q) * n /\ p + q \in Nat
  BY <1>1, <1>2
<1>4. a + b \in Nat /\ \E d \in Nat : a + b = d * n
  BY <1>3
<1> QED
  BY <1>4, MultipleIs

(* ... and differences are multiples.                                      *)
LEMMA MultipleLess ==
    ASSUME NEW n, n \in Nat \ {0}, NEW a, a \in Nat, NEW b, b \in Nat, a % n = 0, b % n = 0, b <= a
    PROVE  (a - b) % n = 0
<1>1. PICK p \in Nat : a = p * n
  BY MultipleIs
<1>2. PICK q \in Nat : b = q * n
  BY MultipleIs
<1>3. a - b = (p - q) * n
  BY <1>1, <1>2
<1>4. p >= q
  <2> SUFFICES ASSUME p < q PROVE FALSE
    OBVIOUS
  <2>1. q * n = p * n + (q - p) * n /\ (q - p) * n > 0
    OBVIOUS
  <2> QED
    BY <2>1, <1>1, <1>2
<1>5. a - b \in Nat /\ \E d \in Nat : a - b = d * n
  BY <1>3, <1>4
<1> QED
  BY <1>5, MultipleIs

-----------------------------------------------------------------------------
(* uniteBlock *)

(* Block a has taken in block b. *)
Absorbed(h, k, B, a, b) ==
    /\ IsHeap(k) /\ DOMAIN k.hdr = DOMAIN h.hdr /\ k.flaws = h.flaws
    /\ k.metadata = h.metadata /\ k.mmap_list = h.mmap_list /\ k.histogram = h.histogram
    /\ k.brk = h.brk /\ k.lost = h.lost /\ k.uninit = h.uninit
    /\ \A x \in B \ {b} :
         /\ k.hdr[x] \in MallocMetadata
         /\ k.hdr[x].is_free = h.hdr[x].is_free /\ k.hdr[x].addr = h.hdr[x].addr
         /\ k.hdr[x].hist_next = h.hdr[x].hist_next /\ k.hdr[x].hist_prev = h.hdr[x].hist_prev
         /\ k.hdr[x].size = IF x = a THEN h.hdr[a].size + META + h.hdr[b].size ELSE h.hdr[x].size
         /\ k.hdr[x].next = IF x = a THEN h.hdr[b].next ELSE h.hdr[x].next
         /\ k.hdr[x].prev = IF x = h.hdr[b].next THEN a ELSE h.hdr[x].prev

(* What Absorb changes.                                                    *)
LEMMA AbsorbIs ==
    ASSUME NEW h, NEW B, Headers(h, B), NEW a, a \in B, NEW b, b \in B, a # b,
           h.hdr[b].next \in B \cup {NULL}
    PROVE  Absorbed(h, Absorb(h, a, b), B, a, b)
<1> DEFINE n == h.hdr[b].next
           g == [h EXCEPT !.hdr[a].size = @ + META + h.hdr[b].size, !.hdr[a].next = n]
           k == [g EXCEPT !.hdr[n].prev = a]
<1>1. Absorb(h, a, b) = IF n = NULL THEN g ELSE k
  BY DEF Absorb
<1>2. /\ IsHeap(h) /\ B \subseteq DOMAIN h.hdr /\ META \in Nat /\ NULL \notin B
      /\ \A x \in B : x \in Nat /\ h.hdr[x] \in MallocMetadata /\ h.hdr[x].size \in Nat
      /\ n \in Nat
  BY Constants, HeaderIs DEF Headers
<1>3. /\ IsHeap(g) /\ DOMAIN g.hdr = DOMAIN h.hdr /\ g.flaws = h.flaws
      /\ g.metadata = h.metadata /\ g.mmap_list = h.mmap_list /\ g.histogram = h.histogram
      /\ g.brk = h.brk /\ g.lost = h.lost /\ g.uninit = h.uninit
      /\ \A x \in B \ {b} :
           /\ g.hdr[x] \in MallocMetadata
           /\ g.hdr[x].is_free = h.hdr[x].is_free /\ g.hdr[x].addr = h.hdr[x].addr
           /\ g.hdr[x].hist_next = h.hdr[x].hist_next /\ g.hdr[x].hist_prev = h.hdr[x].hist_prev
           /\ g.hdr[x].size = IF x = a THEN h.hdr[a].size + META + h.hdr[b].size ELSE h.hdr[x].size
           /\ g.hdr[x].next = IF x = a THEN h.hdr[b].next ELSE h.hdr[x].next
           /\ g.hdr[x].prev = h.hdr[x].prev
  BY <1>2 DEF IsHeap, Fields, MallocMetadata
<1> HIDE DEF g
<1>4. CASE n = NULL
  BY <1>1, <1>2, <1>3, <1>4 DEF Absorbed
<1>5. CASE n # NULL
  <2>1. /\ IsHeap(k) /\ DOMAIN k.hdr = DOMAIN g.hdr /\ k.flaws = g.flaws
        /\ k.metadata = g.metadata /\ k.mmap_list = g.mmap_list /\ k.histogram = g.histogram
        /\ k.brk = g.brk /\ k.lost = g.lost /\ k.uninit = g.uninit
        /\ \A x \in B \ {b} :
             /\ k.hdr[x] \in MallocMetadata
             /\ k.hdr[x].is_free = g.hdr[x].is_free /\ k.hdr[x].addr = g.hdr[x].addr
             /\ k.hdr[x].hist_next = g.hdr[x].hist_next /\ k.hdr[x].hist_prev = g.hdr[x].hist_prev
             /\ k.hdr[x].size = g.hdr[x].size /\ k.hdr[x].next = g.hdr[x].next
             /\ k.hdr[x].prev = IF x = n THEN a ELSE g.hdr[x].prev
    BY <1>2, <1>3 DEF IsHeap, Fields, MallocMetadata
  <2> HIDE DEF k
  <2> QED
    BY <1>1, <1>3, <1>5, <2>1 DEF Absorbed
<1> QED
  BY <1>4, <1>5

(* The links of the histogram stay in it. *)
LEMMA HistLinks ==
    ASSUME NEW h, NEW L, NEW M, NEW N, NEW F, State(h, L, M, N, F)
    PROVE  \A x \in F : h.hdr[x].hist_next \in F \cup {NULL} /\ h.hdr[x].hist_prev \in F \cup {NULL}
<1> DEFINE B == L \cup M
<1>1. Facts(h, L, M, N, F)
  BY StateFacts
<1>2. Headers(h, B) /\ N \subseteq B /\ HistOK(h, N, F)
  BY <1>1 DEF Facts
<1> HIDE DEF B
<1>3. ASSUME NEW x, x \in F
      PROVE  h.hdr[x].hist_next \in F \cup {NULL} /\ h.hdr[x].hist_prev \in F \cup {NULL}
  <2> DEFINE K == InBucket(h, F, histogramIndex(h.hdr[x].size))
  <2>1. h.hdr[x].hist_next \in K \cup {NULL} /\ h.hdr[x].hist_prev \in K \cup {NULL}
    BY <1>2, <1>3, InHist
  <2>2. K \subseteq F
    BY DEF InBucket
  <2> HIDE DEF K
  <2> QED
    BY <2>1, <2>2
<1> QED
  BY <1>3

(* The blocks of the heap are linked both ways. *)
Neighbouring(h, L) ==
    \A x \in L :
        /\ h.hdr[x].next \in L \cup {NULL} /\ h.hdr[x].prev \in L \cup {NULL}
        /\ h.hdr[x].next # NULL => h.hdr[h.hdr[x].next].prev = x
        /\ h.hdr[x].prev # NULL => h.hdr[h.hdr[x].prev].next = x
        /\ h.hdr[x].prev = NULL <=> x = h.metadata
        /\ h.hdr[x].next # x /\ h.hdr[x].prev # x

(* A block's neighbours are blocks of the list, and it is theirs.          *)
LEMMA ListLinks ==
    ASSUME NEW h, NEW L, NEW M, HeapOK(h, L, M)
    PROVE  Neighbouring(h, L)
<1>1. /\ Linked(L, h.metadata, nexts(h), prevs(h)) /\ L \subseteq DOMAIN h.hdr /\ NULL \notin L
      /\ Apart(h, L) /\ L \subseteq Nat
      /\ \A x \in L : h.hdr[x].size \in Nat
  BY HeaderIs DEF HeapOK, Headers
<1>2. \A x \in L : nexts(h)[x] = h.hdr[x].next /\ prevs(h)[x] = h.hdr[x].prev
  BY <1>1 DEF nexts, prevs
<1>3. \A x \in L :
        /\ h.hdr[x].next \in L \cup {NULL} /\ h.hdr[x].prev \in L \cup {NULL}
        /\ h.hdr[x].next # NULL => h.hdr[h.hdr[x].next].prev = x
        /\ h.hdr[x].prev # NULL => h.hdr[h.hdr[x].prev].next = x
        /\ h.hdr[x].prev = NULL <=> x = h.metadata
  BY <1>1, <1>2 DEF Linked
<1>4. ASSUME NEW x \in L PROVE h.hdr[x].next # x
  <2>1. h.hdr[x].next # NULL => x + META + h.hdr[x].size <= h.hdr[x].next
    BY <1>1 DEF Apart
  <2> QED
    BY <1>1, <2>1, Constants
<1>5. ASSUME NEW x \in L PROVE h.hdr[x].prev # x
  BY <1>1, <1>3, <1>4
<1> QED
  BY <1>3, <1>4, <1>5 DEF Neighbouring

(* Absorb of two neighbours that are in no bucket.                         *)
LEMMA AbsorbState ==
    ASSUME NEW h, NEW L, NEW M, NEW N, NEW F, State(h, L, M, N, F),
           NEW a, a \in L, NEW b, b \in L, h.hdr[a].next = b,
           a \in N, a \notin F, b \notin F
    PROVE  LET k == Absorb(h, a, b) IN
           State(k, L \ {b}, M, N \ {b}, F) /\ Absorbed(h, k, L \cup M, a, b)
<1> DEFINE B == L \cup M
           C == L \ {b}
           k == Absorb(h, a, b)
           n == h.hdr[b].next
<1>1. Facts(h, L, M, N, F)
  BY StateFacts
<1>2. /\ HeapOK(h, L, M) /\ HistOK(h, N, F) /\ Headers(h, B) /\ h.flaws = {}
      /\ F \subseteq N /\ N \subseteq B /\ F \subseteq B /\ NULL \notin B /\ B \subseteq DOMAIN h.hdr
      /\ NULL \notin DOMAIN h.hdr /\ L \subseteq 1..Limit /\ IsFiniteSet(L) /\ B \subseteq Nat \ {0}
  BY <1>1 DEF Facts
<1>3. Neighbouring(h, L)
  BY <1>2, ListLinks
<1>4. a # b /\ n \in L \cup {NULL} /\ n # b /\ h.hdr[b].prev = a
  BY <1>2, <1>3 DEF Neighbouring
<1>5. Absorbed(h, k, B, a, b)
  BY <1>2, <1>4, AbsorbIs
<1> HIDE DEF k
<1>6. ASSUME NEW x \in L
      PROVE  x \in Nat \ {0} /\ x \notin M /\ h.hdr[x].size \in Nat
  <2>1. \A y \in M : y > Limit
    <3>1. Mappings(h, M)
      BY <1>2 DEF HeapOK
    <3> TAKE y \in M
    <3>2. PICK j \in 0..(Cardinality(M) - 1) : y = Limit + 1 + j * (META + MAX_SIZE)
      BY <3>1 DEF Mappings
    <3>3. j * (META + MAX_SIZE) \in Nat
      BY Constants
    <3> QED
      BY <3>2, <3>3, Constants
  <2> QED
    BY <1>2, <2>1, HeaderIs, Constants
<1>7. Headers(k, C \cup M)
  <2>1. \A x \in C \cup M : k.hdr[x] \in MallocMetadata /\ k.hdr[x].addr = h.hdr[x].addr
    BY <1>5, <1>6 DEF Absorbed
  <2> QED
    BY <1>2, <1>5, <2>1 DEF Headers, Absorbed
<1>8. Linked(C, k.metadata, nexts(k), prevs(k))
  <2>1. ASSUME NEW x \in C
        PROVE  /\ nexts(k)[x] = IF x = prevs(h)[b] THEN nexts(h)[b] ELSE nexts(h)[x]
               /\ prevs(k)[x] = IF x = nexts(h)[b] THEN prevs(h)[b] ELSE prevs(h)[x]
    <3>1. /\ nexts(h)[x] = h.hdr[x].next /\ prevs(h)[x] = h.hdr[x].prev
          /\ nexts(h)[b] = n /\ prevs(h)[b] = a
          /\ nexts(k)[x] = k.hdr[x].next /\ prevs(k)[x] = k.hdr[x].prev
      BY <1>2, <1>4, <1>5 DEF nexts, prevs, Absorbed
    <3> QED
      BY <1>5, <3>1 DEF Absorbed
  <2>2. prevs(h)[b] # NULL /\ k.metadata = h.metadata
    BY <1>2, <1>4, <1>5 DEF prevs, Absorbed
  <2>3. TakenOut(L, b, h.metadata, nexts(h), prevs(h), k.metadata, nexts(k), prevs(k))
    BY <2>1, <2>2 DEF TakenOut
  <2>4. Linked(L, h.metadata, nexts(h), prevs(h)) /\ NULL \notin L
    BY <1>2 DEF HeapOK
  <2> QED
    BY <2>3, <2>4, LinkedRemove
<1>9. \A x \in M : /\ x # a /\ x # b /\ x # n /\ x \in DOMAIN h.hdr
                   /\ k.hdr[x].size = h.hdr[x].size /\ k.hdr[x].is_free = h.hdr[x].is_free
                   /\ k.hdr[x].next = h.hdr[x].next /\ k.hdr[x].prev = h.hdr[x].prev
  BY <1>2, <1>4, <1>5, <1>6 DEF Absorbed
<1>10. Linked(M, k.mmap_list, nexts(k), prevs(k))
  <2>1. \A x \in M : nexts(k)[x] = nexts(h)[x] /\ prevs(k)[x] = prevs(h)[x]
    BY <1>5, <1>9 DEF nexts, prevs, Absorbed
  <2>2. Linked(M, h.mmap_list, nexts(h), prevs(h)) /\ k.mmap_list = h.mmap_list
    BY <1>2, <1>5 DEF HeapOK, Absorbed
  <2> QED
    BY <2>1, <2>2, LinkedSame
<1>11. Mappings(k, M)
  BY <1>2, <1>9 DEF HeapOK, Mappings
<1>12. Apart(k, C)
  <2>1. Apart(h, L)
    BY <1>2 DEF HeapOK
  <2> SUFFICES ASSUME NEW x \in C
               PROVE  /\ x + META + k.hdr[x].size <= k.brk
                      /\ k.hdr[x].next # NULL => x + META + k.hdr[x].size <= k.hdr[x].next
                      /\ \A y \in C : x < y => k.hdr[x].next # NULL /\ k.hdr[x].next <= y
    BY DEF Apart
  <2>2. CASE x = a
    <3>1. /\ a + META + h.hdr[a].size <= b
          /\ b + META + h.hdr[b].size <= h.brk
          /\ n # NULL => b + META + h.hdr[b].size <= n
          /\ \A y \in L : a < y => b <= y
          /\ \A y \in L : b < y => n # NULL /\ n <= y
      BY <1>2, <2>1 DEF Apart
    <3>2. k.hdr[x].next = n /\ k.hdr[x].size = h.hdr[a].size + META + h.hdr[b].size /\ k.brk = h.brk
      BY <1>5, <2>2 DEF Absorbed
    <3>3. a \in Nat /\ b \in Nat /\ h.hdr[a].size \in Nat /\ h.hdr[b].size \in Nat /\ META \in Nat
          /\ h.brk \in Nat
      BY <1>2, <1>6, Constants DEF HeapOK
    <3>4. n # NULL => n \in Nat
      BY <1>4, <1>6
    <3>5. \A y \in C : a < y => b < y
      <4> TAKE y \in C
      <4>1. y \in Nat /\ y # b /\ (a < y => b <= y)
        BY <1>6, <3>1
      <4> QED
        BY <3>3, <4>1
    <3>6. x + META + k.hdr[x].size <= k.brk
      BY <2>2, <3>1, <3>2, <3>3
    <3>7. n # NULL => x + META + k.hdr[x].size <= n
      BY <2>2, <3>1, <3>2, <3>3, <3>4
    <3> QED
      BY <2>2, <3>1, <3>2, <3>5, <3>6, <3>7
  <2>3. CASE x # a
    <3>1. k.hdr[x].next = h.hdr[x].next /\ k.hdr[x].size = h.hdr[x].size /\ k.brk = h.brk
      BY <1>5, <2>3 DEF Absorbed
    <3> QED
      BY <2>1, <3>1 DEF Apart
  <2> QED
    BY <2>2, <2>3
<1>13. Accounted(k, C)
  <2> DEFINE f == spans(h)
             g == spans(k)
  <2>1. \A x \in L : f[x] = META + h.hdr[x].size /\ f[x] \in Nat
    BY <1>2, <1>6, Constants DEF spans
  <2>2. \A x \in C : g[x] = (IF x = a THEN f[a] + f[b] ELSE f[x]) /\ g[x] \in Nat
    <3> TAKE x \in C
    <3>1. g[x] = META + k.hdr[x].size
      BY <1>2, <1>5 DEF spans, Absorbed
    <3>2. k.hdr[x].size = IF x = a THEN h.hdr[a].size + META + h.hdr[b].size ELSE h.hdr[x].size
      BY <1>5 DEF Absorbed
    <3> HIDE DEF f, g
    <3> QED
      BY <1>6, <2>1, <3>1, <3>2, Constants
  <2> HIDE DEF f, g
  <2> DEFINE D == C \ {a}
  <2>3. IsFiniteSet(C) /\ IsFiniteSet(D) /\ a \in C
    BY <1>2, <1>4, FS_Subset
  <2>4. Total(f, L) = f[b] + Total(f, C)
    BY <1>2, <2>1, TotalRemove
  <2>5. Total(f, C) = f[a] + Total(f, D)
    BY <2>1, <2>3, TotalRemove
  <2>6. Total(g, C) = g[a] + Total(g, D)
    BY <2>2, <2>3, TotalRemove
  <2>7. Total(f, D) = Total(g, D) /\ Total(f, D) \in Nat
    BY <2>1, <2>2, <2>3, TotalSame, TotalNat
  <2>8. Total(g, C) = Total(f, L)
    <3>1. g[a] = f[a] + f[b] /\ f[a] \in Nat /\ f[b] \in Nat
      BY <2>1, <2>2, <2>3
    <3> HIDE DEF D, C
    <3> QED
      BY <2>4, <2>5, <2>6, <2>7, <3>1
  <2> QED
    BY <1>2, <1>5, <2>8 DEF Accounted, HeapOK, Absorbed, f, g
<1>14. Multiples(k, C)
  <2>1. Multiples(h, L)
    BY <1>2 DEF HeapOK
  <2>2. align \in Nat \ {0} /\ META % align = 0
    BY <2>1, Constants, MallocAssumption DEF Multiples, MallocAssumption
  <2>3. h.hdr[a].size \in Nat /\ h.hdr[b].size \in Nat /\ META \in Nat
    BY <1>6, Constants
  <2>4. (h.hdr[a].size + META) % align = 0
    BY <2>1, <2>2, <2>3, MultipleSum DEF Multiples
  <2>5. (h.hdr[a].size + META + h.hdr[b].size) % align = 0
    <3>1. h.hdr[a].size + META \in Nat /\ h.hdr[b].size % align = 0
      BY <2>1, <2>3 DEF Multiples
    <3> QED
      BY <2>2, <2>3, <2>4, <3>1, MultipleSum
  <2>6. \A x \in C : k.hdr[x].size % align = 0
    BY <1>5, <2>1, <2>5 DEF Multiples, Absorbed
  <2> QED
    BY <1>5, <2>1, <2>6 DEF Multiples, Absorbed
<1>15. HeapOK(k, C, M)
  BY <1>2, <1>5, <1>7, <1>8, <1>10, <1>11, <1>12, <1>13, <1>14 DEF HeapOK, Absorbed
<1>16. HistOK(k, N \ {b}, F)
  <2>1. \A x \in F : x # a /\ x # b /\ x \in B /\ h.hdr[x].hist_next \in F \cup {NULL}
    BY <1>2, HistLinks
  <2>2. \A x \in N \ F : h.hdr[x].hist_next = NULL /\ h.hdr[x].hist_prev = NULL
    BY <1>2 DEF HistOK
  <2>3. HistSame(h, k, N \ {b}, F)
    BY <1>2, <1>5, <2>1, <2>2 DEF HistSame, Absorbed
  <2> QED
    BY <1>2, <2>3, HistKept
<1>17. N \ {b} \subseteq C \cup M
  BY <1>2
<1> QED
  BY <1>5, <1>15, <1>16, <1>17 DEF State, k

-----------------------------------------------------------------------------
(* Between calls of the histogram's functions: F are the blocks in the     *)
(* histogram, which are free but for block e, which is in use.             *)
Rest(h, L, M, F, e) ==
    /\ State(h, L, M, L \cup M, F) /\ F \subseteq L
    /\ \A x \in L : h.hdr[x].is_free <=> x \in F /\ x # e

(* No two neighbours are free, but for those whose first one is in Z. *)
CalmBut(h, L, Z) ==
    \A x \in L \ Z : h.hdr[x].is_free => ~Free(h, h.hdr[x].next)

(* The blocks in use are left as they are. *)
Passed(h, g, L, L2, M, F, F2, e) ==
    /\ L2 \ F2 = L \ F /\ (e \in F <=> e \in F2)
    /\ \A x \in (L \ F) \cup M \cup {e} : (x = e => e \in F) =>
          g.hdr[x].size = h.hdr[x].size /\ g.hdr[x].addr = h.hdr[x].addr

Merged(h, r, B, a, b) ==
    \A x \in B \ {b} :
         /\ r.hdr[x].is_free = h.hdr[x].is_free /\ r.hdr[x].addr = h.hdr[x].addr
         /\ r.hdr[x].size = IF x = a THEN h.hdr[a].size + META + h.hdr[b].size ELSE h.hdr[x].size
         /\ r.hdr[x].next = IF x = a THEN h.hdr[b].next ELSE h.hdr[x].next
         /\ r.hdr[x].prev = IF x = h.hdr[b].next THEN a ELSE h.hdr[x].prev

(* Two free neighbours, taken out of the histogram, merged and put back.   *)
LEMMA MergeIs ==
    ASSUME NEW h, NEW L, NEW M, NEW F, State(h, L, M, L \cup M, F),
           NEW a, a \in F, a \in L, NEW b, b \in F, b \in L, h.hdr[a].next = b,
           NEW c, NEW d, c \in F, d \in F, {c, d} = {a, b}, c # d,
           histogramInsert(Absorb(histogramRemove(histogramRemove(h, c), d), a, b), a).flaws = {}
    PROVE  LET r == histogramInsert(Absorb(histogramRemove(histogramRemove(h, c), d), a, b), a) IN
           State(r, L \ {b}, M, (L \cup M) \ {b}, F \ {b}) /\ Merged(h, r, L \cup M, a, b)
<1> DEFINE B == L \cup M
           g == histogramRemove(h, c)
           k == histogramRemove(g, d)
           m == Absorb(k, a, b)
           r == histogramInsert(m, a)
           G == (F \ {c}) \ {d}
<1>1. r.flaws = {}
  OBVIOUS
<1>2. a # b /\ G = (F \ {a}) \ {b}
  OBVIOUS
<1>3. State(g, L, M, B, F \ {c}) /\ Same(h, g, B)
  BY RemoveIn
<1> HIDE DEF r, m, k, g
<1>4. d \in F \ {c}
  OBVIOUS
<1>5. State(k, L, M, B, G) /\ Same(g, k, B)
  BY <1>3, <1>4, RemoveIn DEF k
<1>6. Same(h, k, B)
  BY <1>3, <1>5, SameTrans
<1>7. k.hdr[a].next = b
  BY <1>6 DEF Same
<1> HIDE DEF B
<1>8. a \in B
  BY DEF B
<1> HIDE DEF G
<1>9. a \notin G /\ b \notin G
  BY DEF G
<1>10. State(m, L \ {b}, M, B \ {b}, G) /\ Absorbed(k, m, L \cup M, a, b)
  BY <1>5, <1>7, <1>8, <1>9, AbsorbState DEF m
<1>11. a \in B \ {b} /\ a \in (L \ {b}) \cup M
  BY <1>2, <1>8
<1>12. m.hdr[a].hist_next = NULL /\ m.hdr[a].hist_prev = NULL
  BY <1>9, <1>10, <1>11 DEF State, HistOK
<1>13. /\ Same(m, r, (L \ {b}) \cup M)
       /\ State(r, L \ {b}, M, (B \ {b}) \cup {a}, G \cup {a})
  BY <1>1, <1>9, <1>10, <1>11, <1>12, InsertState DEF r
<1>14. (B \ {b}) \cup {a} = (L \cup M) \ {b} /\ G \cup {a} = F \ {b}
  BY <1>2, <1>11 DEF B
<1>15. State(r, L \ {b}, M, (L \cup M) \ {b}, F \ {b})
  BY <1>13, <1>14
<1>16. Merged(h, r, L \cup M, a, b)
  <2> SUFFICES ASSUME NEW x \in B \ {b}
               PROVE  /\ r.hdr[x].is_free = h.hdr[x].is_free /\ r.hdr[x].addr = h.hdr[x].addr
                      /\ r.hdr[x].size = IF x = a THEN h.hdr[a].size + META + h.hdr[b].size ELSE h.hdr[x].size
                      /\ r.hdr[x].next = IF x = a THEN h.hdr[b].next ELSE h.hdr[x].next
                      /\ r.hdr[x].prev = IF x = h.hdr[b].next THEN a ELSE h.hdr[x].prev
    BY DEF Merged, B
  <2>1. x \in (L \ {b}) \cup M \/ x \in M
    BY DEF B
  <2>2. /\ r.hdr[x].is_free = m.hdr[x].is_free /\ r.hdr[x].addr = m.hdr[x].addr
        /\ r.hdr[x].size = m.hdr[x].size /\ r.hdr[x].next = m.hdr[x].next /\ r.hdr[x].prev = m.hdr[x].prev
    BY <1>13, <2>1 DEF Same
  <2>3. /\ m.hdr[x].is_free = k.hdr[x].is_free /\ m.hdr[x].addr = k.hdr[x].addr
        /\ m.hdr[x].size = IF x = a THEN k.hdr[a].size + META + k.hdr[b].size ELSE k.hdr[x].size
        /\ m.hdr[x].next = IF x = a THEN k.hdr[b].next ELSE k.hdr[x].next
        /\ m.hdr[x].prev = IF x = k.hdr[b].next THEN a ELSE k.hdr[x].prev
    BY <1>10 DEF Absorbed, B
  <2>4. \A y \in B : /\ k.hdr[y].is_free = h.hdr[y].is_free /\ k.hdr[y].addr = h.hdr[y].addr
                     /\ k.hdr[y].size = h.hdr[y].size /\ k.hdr[y].next = h.hdr[y].next
                     /\ k.hdr[y].prev = h.hdr[y].prev
    BY <1>6 DEF Same
  <2>5. a \in B /\ b \in B
    BY DEF B
  <2> QED
    BY <2>2, <2>3, <2>4, <2>5
<1> QED
  BY <1>15, <1>16 DEF r, m, k, g

(* No block is both in the list and mapped.                                *)
LEMMA NotInM ==
    ASSUME NEW h, NEW L, NEW M, HeapOK(h, L, M)
    PROVE  \A x \in L : x \notin M
<1>1. Mappings(h, M) /\ L \subseteq 1..Limit
  BY DEF HeapOK
<1> SUFFICES ASSUME NEW y \in M PROVE y > Limit
  BY <1>1, Constants
<1>2. PICK j \in 0..(Cardinality(M) - 1) : y = Limit + 1 + j * (META + MAX_SIZE)
  BY <1>1 DEF Mappings
<1>3. j * (META + MAX_SIZE) \in Nat
  BY Constants
<1> QED
  BY <1>2, <1>3, Constants

(* Two free neighbours have become one. *)
LEMMA MergeRest ==
    ASSUME NEW h, NEW L, NEW M, NEW F, NEW e, Rest(h, L, M, F, e),
           NEW a, a \in F, a # e, NEW b, b \in F, b # e, h.hdr[a].next = b,
           NEW r, State(r, L \ {b}, M, (L \cup M) \ {b}, F \ {b}), Merged(h, r, L \cup M, a, b)
    PROVE  /\ Rest(r, L \ {b}, M, F \ {b}, e) /\ Passed(h, r, L, L \ {b}, M, F, F \ {b}, e)
           /\ \A Z : CalmBut(h, L, Z) /\ b \notin Z => CalmBut(r, L \ {b}, Z \ {a})
<1>1. State(h, L, M, L \cup M, F) /\ F \subseteq L
      /\ \A x \in L : h.hdr[x].is_free <=> x \in F /\ x # e
  BY DEF Rest
<1>2. Facts(h, L, M, L \cup M, F)
  BY <1>1, StateFacts
<1>3. HeapOK(h, L, M) /\ NULL \notin L \cup M
  BY <1>2 DEF Facts
<1>4. Neighbouring(h, L) /\ \A x \in L : x \notin M
  BY <1>3, ListLinks, NotInM
<1>5. (L \cup M) \ {b} = (L \ {b}) \cup M
  BY <1>1, <1>4
<1>6. Rest(r, L \ {b}, M, F \ {b}, e)
  <2>1. \A x \in L \ {b} : r.hdr[x].is_free <=> x \in F \ {b} /\ x # e
    BY <1>1 DEF Merged
  <2>2. State(r, L \ {b}, M, (L \ {b}) \cup M, F \ {b})
    BY <1>5
  <2> QED
    BY <1>1, <2>1, <2>2 DEF Rest
<1>7. Passed(h, r, L, L \ {b}, M, F, F \ {b}, e)
  <2>1. (L \ {b}) \ (F \ {b}) = L \ F /\ (e \in F <=> e \in F \ {b})
    BY <1>1
  <2>2. ASSUME NEW x \in (L \ F) \cup M \cup {e}, x = e => e \in F
        PROVE  r.hdr[x].size = h.hdr[x].size /\ r.hdr[x].addr = h.hdr[x].addr
    <3>1. x \in (L \cup M) \ {b} /\ x # a
      BY <1>1, <1>4, <2>2
    <3> QED
      BY <3>1 DEF Merged
  <2> QED
    BY <2>1, <2>2 DEF Passed
<1>8. ASSUME NEW Z, CalmBut(h, L, Z), b \notin Z PROVE CalmBut(r, L \ {b}, Z \ {a})
  <2> SUFFICES ASSUME NEW x \in L \ {b}, x \notin Z \ {a}, r.hdr[x].is_free
               PROVE  ~Free(r, r.hdr[x].next)
    BY DEF CalmBut
  <2>1. a \in L /\ b \in L /\ a # b
    BY <1>1, <1>4 DEF Neighbouring
  <2>2. h.hdr[b].next \in L \cup {NULL} /\ h.hdr[b].next # b /\ h.hdr[b].is_free
    BY <1>1, <1>4, <2>1 DEF Neighbouring
  <2>3. \A y \in L \ {b} : r.hdr[y].is_free = h.hdr[y].is_free
    BY DEF Merged
  <2>4. CASE x = a
    <3>1. r.hdr[x].next = h.hdr[b].next
      BY <1>1, <2>1, <2>4 DEF Merged
    <3>2. ~Free(h, h.hdr[b].next)
      BY <1>8, <2>1, <2>2 DEF CalmBut
    <3> QED
      BY <2>2, <2>3, <3>1, <3>2 DEF Free
  <2>5. CASE x # a
    <3>1. r.hdr[x].next = h.hdr[x].next /\ h.hdr[x].is_free
      BY <1>1, <2>1, <2>3, <2>5 DEF Merged
    <3>2. ~Free(h, h.hdr[x].next)
      BY <1>8, <2>5, <3>1 DEF CalmBut
    <3>3. h.hdr[x].next \in L \cup {NULL} /\ h.hdr[x].next # b
      <4>1. h.hdr[x].next = b => h.hdr[b].prev = x
        BY <1>3, <1>4, <2>1 DEF Neighbouring
      <4>2. h.hdr[b].prev = a
        BY <1>3, <1>4, <2>1 DEF Neighbouring
      <4> QED
        BY <1>4, <2>5, <4>1, <4>2 DEF Neighbouring
    <3> QED
      BY <2>3, <3>1, <3>2, <3>3 DEF Free
  <2> QED
    BY <2>4, <2>5
<1> QED
  BY <1>6, <1>7, <1>8

(* Passed is transitive.                                                   *)
LEMMA PassedTrans ==
    ASSUME NEW h, NEW g, NEW k, NEW L, NEW L2, NEW L3, NEW M, NEW F, NEW F2, NEW F3, NEW e,
           Passed(h, g, L, L2, M, F, F2, e), Passed(g, k, L2, L3, M, F2, F3, e)
    PROVE  Passed(h, k, L, L3, M, F, F3, e)
BY DEF Passed

(* uniteBlock leaves no two free neighbours, and what is in use alone. *)
LEMMA UniteNext ==
    ASSUME NEW h, NEW L, NEW M, NEW F, NEW e, Rest(h, L, M, F, e), NEW b, b \in F, b # e,
           CalmBut(h, L, {b, h.hdr[b].prev}), uniteNext(h, b).flaws = {}
    PROVE  LET g == uniteNext(h, b) IN
           \E L2, F2 : /\ Rest(g, L2, M, F2, e) /\ Passed(h, g, L, L2, M, F, F2, e) /\ b \in F2
                       /\ CalmBut(g, L2, {g.hdr[b].prev})
<1> DEFINE n == h.hdr[b].next
           g == uniteNext(h, b)
<1>1. State(h, L, M, L \cup M, F) /\ F \subseteq L /\ b \in L
      /\ \A x \in L : h.hdr[x].is_free <=> x \in F /\ x # e
  BY DEF Rest
<1>2. HeapOK(h, L, M)
  BY <1>1 DEF State
<1>3. Neighbouring(h, L)
  BY <1>2, ListLinks
<1>4. CASE Free(h, n)
  <2> DEFINE r == histogramInsert(Absorb(histogramRemove(histogramRemove(h, b), n), b, n), b)
  <2>1. g = r
    BY <1>4, Zenon DEF uniteNext
  <2>2. n \in L /\ n \in F /\ n # e /\ n # b /\ n # h.hdr[b].prev
    <3>1. n \in L /\ n # b
      BY <1>1, <1>3, <1>4 DEF Neighbouring, Free
    <3>2. n = h.hdr[b].prev => h.hdr[n].next = b /\ n # NULL
      BY <1>1, <1>3, <1>4 DEF Neighbouring, Free
    <3>3. n + META + h.hdr[n].size <= h.hdr[n].next \/ h.hdr[n].next = NULL
      BY <1>2, <3>1 DEF HeapOK, Apart
    <3>4. b + META + h.hdr[b].size <= n
      BY <1>1, <1>2, <1>4 DEF HeapOK, Apart, Free
    <3>5. b \in Nat \ {0} /\ n \in Nat \ {0} /\ h.hdr[b].size \in Nat /\ h.hdr[n].size \in Nat
      BY <1>1, <1>2, <3>1, HeaderIs DEF HeapOK
    <3>6. n # h.hdr[b].prev
      <4> SUFFICES ASSUME n = h.hdr[b].prev PROVE FALSE
        OBVIOUS
      <4> QED
        BY <3>2, <3>3, <3>4, <3>5, Constants
    <3> QED
      BY <1>1, <1>4, <3>1, <3>6 DEF Free
  <2> HIDE DEF n
  <2>3. r.flaws = {} /\ h.hdr[b].next = n
    BY <2>1 DEF n
  <2> HIDE DEF r
  <2>4. State(r, L \ {n}, M, (L \cup M) \ {n}, F \ {n}) /\ Merged(h, r, L \cup M, b, n)
    BY <1>1, <2>2, <2>3, MergeIs DEF r
  <2>5. /\ Rest(r, L \ {n}, M, F \ {n}, e) /\ Passed(h, r, L, L \ {n}, M, F, F \ {n}, e)
        /\ \A Z : CalmBut(h, L, Z) /\ n \notin Z => CalmBut(r, L \ {n}, Z \ {b})
    BY <2>2, <2>3, <2>4, MergeRest
  <2>6. r.hdr[b].prev = h.hdr[b].prev
    <3>1. h.hdr[n].next # b
      <4>1. h.hdr[n].next = b => h.hdr[b].prev = n
        BY <1>3, <2>2, <2>3, <1>1, <1>2 DEF Neighbouring, HeapOK, Headers
      <4> QED
        BY <2>2, <4>1
    <3> QED
      BY <1>1, <2>2, <2>4, <3>1 DEF Merged
  <2>7. CalmBut(r, L \ {n}, {r.hdr[b].prev})
    <3>1. CalmBut(r, L \ {n}, {b, h.hdr[b].prev} \ {b})
      BY <2>2, <2>5
    <3> QED
      BY <2>6, <3>1 DEF CalmBut
  <2>8. b \in F \ {n}
    BY <2>2
  <2> QED
    BY <2>1, <2>5, <2>7, <2>8
<1>5. CASE ~Free(h, n)
  <2>1. g = h
    BY <1>5, Zenon DEF uniteNext
  <2>2. CalmBut(h, L, {h.hdr[b].prev})
    BY <1>5 DEF CalmBut
  <2>3. Passed(h, h, L, L, M, F, F, e)
    BY DEF Passed
  <2> QED
    BY <2>1, <2>2, <2>3
<1> QED
  BY <1>4, <1>5

(* uniteBlock with the block before, ...                                   *)
LEMMA UnitePrevious ==
    ASSUME NEW h, NEW L, NEW M, NEW F, NEW e, Rest(h, L, M, F, e), NEW b, b \in F, b # e,
           CalmBut(h, L, {h.hdr[b].prev}), unitePrevious(h, b).flaws = {}
    PROVE  LET g == unitePrevious(h, b) IN
           \E L2, F2 : /\ Rest(g, L2, M, F2, e) /\ Passed(h, g, L, L2, M, F, F2, e)
                       /\ CalmBut(g, L2, {})
<1> DEFINE p == h.hdr[b].prev
           g == unitePrevious(h, b)
<1>1. State(h, L, M, L \cup M, F) /\ F \subseteq L /\ b \in L
      /\ \A x \in L : h.hdr[x].is_free <=> x \in F /\ x # e
  BY DEF Rest
<1>2. HeapOK(h, L, M)
  BY <1>1 DEF State
<1>3. Neighbouring(h, L)
  BY <1>2, ListLinks
<1>4. CASE Free(h, p)
  <2> DEFINE r == histogramInsert(Absorb(histogramRemove(histogramRemove(h, b), p), p, b), p)
  <2>1. g = r
    BY <1>4, Zenon DEF unitePrevious
  <2>2. p \in L /\ p \in F /\ p # e /\ p # b /\ h.hdr[p].next = b
    BY <1>1, <1>3, <1>4 DEF Neighbouring, Free
  <2> HIDE DEF p
  <2>3. r.flaws = {}
    BY <2>1
  <2> HIDE DEF r
  <2>4. State(r, L \ {b}, M, (L \cup M) \ {b}, F \ {b}) /\ Merged(h, r, L \cup M, p, b)
    BY <1>1, <2>2, <2>3, MergeIs DEF r
  <2>5. /\ Rest(r, L \ {b}, M, F \ {b}, e) /\ Passed(h, r, L, L \ {b}, M, F, F \ {b}, e)
        /\ \A Z : CalmBut(h, L, Z) /\ b \notin Z => CalmBut(r, L \ {b}, Z \ {p})
    BY <2>2, <2>4, MergeRest
  <2>6. CalmBut(h, L, {p})
    BY DEF p
  <2>7. CalmBut(r, L \ {b}, {p} \ {p})
    BY <2>2, <2>5, <2>6
  <2>8. CalmBut(r, L \ {b}, {})
    BY <2>7 DEF CalmBut
  <2> QED
    BY <2>1, <2>5, <2>8
<1>5. CASE ~Free(h, p)
  <2>1. g = h
    BY <1>5, Zenon DEF unitePrevious
  <2>2. CalmBut(h, L, {})
    <3> SUFFICES ASSUME NEW x \in L, h.hdr[x].is_free PROVE ~Free(h, h.hdr[x].next)
      BY DEF CalmBut
    <3>1. CASE x = p
      <4>1. Facts(h, L, M, L \cup M, F)
        BY <1>1, StateFacts
      <4>2. x # NULL
        BY <4>1 DEF Facts
      <4> QED
        BY <1>5, <3>1, <4>2 DEF Free
    <3>2. CASE x # p
      BY <3>2 DEF CalmBut
    <3> QED
      BY <3>1, <3>2
  <2>3. Passed(h, h, L, L, M, F, F, e)
    BY DEF Passed
  <2> QED
    BY <2>1, <2>2, <2>3
<1> QED
  BY <1>4, <1>5

(* ... and both.                                                           *)
LEMMA UniteBlock ==
    ASSUME NEW h, NEW L, NEW M, NEW F, NEW e, Rest(h, L, M, F, e), NEW b, b \in F, b # e,
           CalmBut(h, L, {b, h.hdr[b].prev}), uniteBlock(h, b).flaws = {}
    PROVE  LET g == uniteBlock(h, b) IN
           \E L2, F2 : /\ Rest(g, L2, M, F2, e) /\ Passed(h, g, L, L2, M, F, F2, e)
                       /\ CalmBut(g, L2, {})
<1> DEFINE k == uniteNext(h, b)
           g == uniteBlock(h, b)
<1>1. IsHeap(h)
  BY DEF Rest, State, HeapOK, Headers
<1>2. k.flaws = {} /\ g = unitePrevious(k, b)
  BY <1>1, LaterUnite DEF uniteBlock, Later
<1> HIDE DEF k
<1>3. PICK L2, F2 : /\ Rest(k, L2, M, F2, e) /\ Passed(h, k, L, L2, M, F, F2, e) /\ b \in F2
                    /\ CalmBut(k, L2, {k.hdr[b].prev})
  BY <1>2, UniteNext DEF k
<1>4. PICK L3, F3 : /\ Rest(g, L3, M, F3, e) /\ Passed(k, g, L2, L3, M, F2, F3, e)
                    /\ CalmBut(g, L3, {})
  BY <1>2, <1>3, UnitePrevious
<1>5. Passed(h, g, L, L3, M, F, F3, e)
  BY <1>3, <1>4, PassedTrans
<1> QED
  BY <1>4, <1>5

-----------------------------------------------------------------------------
(* WRITES TO ONE BLOCK *)

Aligned(n) == n % align = 0
Behind(b, size) == b + META + size
HandsOut(h, b) == h.hdr[b].addr = b + META

(* Block b has been marked as free or as used. *)
Marked(h, g, B, b, v) ==
    /\ IsHeap(g) /\ DOMAIN g.hdr = DOMAIN h.hdr /\ g.flaws = h.flaws
    /\ g.metadata = h.metadata /\ g.mmap_list = h.mmap_list /\ g.histogram = h.histogram
    /\ g.brk = h.brk /\ g.lost = h.lost /\ g.uninit = h.uninit
    /\ \A x \in B :
         /\ g.hdr[x] \in MallocMetadata
         /\ g.hdr[x].size = h.hdr[x].size /\ g.hdr[x].addr = h.hdr[x].addr
         /\ g.hdr[x].next = h.hdr[x].next /\ g.hdr[x].prev = h.hdr[x].prev
         /\ g.hdr[x].hist_next = h.hdr[x].hist_next /\ g.hdr[x].hist_prev = h.hdr[x].hist_prev
         /\ g.hdr[x].is_free = IF x = b THEN v ELSE h.hdr[x].is_free

Mark(h, b, v) == [h EXCEPT !.hdr[b].is_free = v]

LEMMA MarkIs ==
    ASSUME NEW h, NEW B, Headers(h, B), NEW b, b \in B, NEW v, v \in BOOLEAN
    PROVE  Marked(h, Mark(h, b, v), B, b, v)
BY DEF Headers, IsHeap, Fields, MallocMetadata, Marked, Mark

(* The mark is_free is no part of the state.                               *)
LEMMA MarkState ==
    ASSUME NEW h, NEW L, NEW M, NEW N, NEW F, State(h, L, M, N, F), NEW b, NEW v,
           b \in L \/ (b \in M /\ v = FALSE), v \in BOOLEAN
    PROVE  State(Mark(h, b, v), L, M, N, F) /\ Marked(h, Mark(h, b, v), L \cup M, b, v)
<1> DEFINE B == L \cup M
           g == Mark(h, b, v)
<1>1. Facts(h, L, M, N, F)
  BY StateFacts
<1>2. /\ HeapOK(h, L, M) /\ HistOK(h, N, F) /\ Headers(h, B) /\ F \subseteq N /\ N \subseteq B
      /\ NULL \notin B /\ B \subseteq DOMAIN h.hdr /\ IsFiniteSet(L)
  BY <1>1 DEF Facts
<1>3. b \in B
  OBVIOUS
<1>4. Marked(h, g, B, b, v)
  BY <1>2, <1>3, MarkIs
<1> HIDE DEF g
<1>5. Headers(g, B)
  BY <1>2, <1>4 DEF Headers, Marked
<1>6. \A x \in B : nexts(g)[x] = nexts(h)[x] /\ prevs(g)[x] = prevs(h)[x]
                   /\ spans(g)[x] = spans(h)[x]
  BY <1>2, <1>4 DEF Marked, nexts, prevs, spans
<1>7. Linked(L, h.metadata, nexts(h), prevs(h)) /\ Linked(M, h.mmap_list, nexts(h), prevs(h))
  BY <1>2 DEF HeapOK
<1>8. Linked(L, h.metadata, nexts(g), prevs(g))
  BY <1>6, <1>7, LinkedSame
<1>9. Linked(M, h.mmap_list, nexts(g), prevs(g))
  BY <1>6, <1>7, LinkedSame
<1>10. Total(spans(h), L) = Total(spans(g), L)
  BY <1>2, <1>6, TotalSame
<1>11. Apart(g, L)
  BY <1>2, <1>4 DEF HeapOK, Apart, Marked
<1>12. \A x \in L : x \notin M
  BY <1>2, NotInM
<1>13. Mappings(g, M)
  BY <1>2, <1>4, <1>12 DEF HeapOK, Mappings, Marked
<1>14. Accounted(g, L)
  BY <1>2, <1>4, <1>10 DEF HeapOK, Accounted, Marked
<1>15. Multiples(g, L)
  BY <1>2, <1>4 DEF HeapOK, Multiples, Marked
<1>16. HeapOK(g, L, M)
  BY <1>2, <1>4, <1>5, <1>8, <1>9, <1>11, <1>13, <1>14, <1>15 DEF HeapOK, Marked
<1>17. HistSame(h, g, N, F)
  <2>1. \A x \in F : h.hdr[x].hist_next \in F \cup {NULL}
    BY HistLinks
  <2>2. F \subseteq B /\ F \subseteq DOMAIN h.hdr /\ DOMAIN g.hdr = DOMAIN h.hdr
    BY <1>2, <1>4 DEF Marked
  <2>3. \A x \in N \ F : h.hdr[x].hist_next = NULL /\ h.hdr[x].hist_prev = NULL
    BY <1>2 DEF HistOK
  <2> QED
    BY <1>2, <1>4, <2>1, <2>2, <2>3 DEF HistSame, Marked
<1>18. HistOK(g, N, F)
  BY <1>2, <1>17, HistKept
<1> QED
  BY <1>2, <1>4, <1>16, <1>18 DEF State, g

(* The last block has got another size, which the break follows. *)
Resized(h, g, B, b, size, d, l) ==
    /\ IsHeap(g) /\ DOMAIN g.hdr = DOMAIN h.hdr /\ g.flaws = h.flaws
    /\ g.metadata = h.metadata /\ g.mmap_list = h.mmap_list /\ g.histogram = h.histogram
    /\ g.brk = h.brk + d /\ g.lost = h.lost + l /\ g.uninit = h.uninit
    /\ \A x \in B :
         /\ g.hdr[x] \in MallocMetadata
         /\ x # b => g.hdr[x].is_free = h.hdr[x].is_free
         /\ g.hdr[x].addr = h.hdr[x].addr
         /\ g.hdr[x].next = h.hdr[x].next /\ g.hdr[x].prev = h.hdr[x].prev
         /\ g.hdr[x].hist_next = h.hdr[x].hist_next /\ g.hdr[x].hist_prev = h.hdr[x].hist_prev
         /\ g.hdr[x].size = IF x = b THEN size ELSE h.hdr[x].size

(* The last block and the break grow together.                             *)
LEMMA ResizeState ==
    ASSUME NEW h, NEW L, NEW M, NEW N, NEW F, State(h, L, M, N, F), NEW b, b \in L, b \notin F,
           h.hdr[b].next = NULL, NEW size, size \in Nat, Aligned(size),
           NEW d, d \in Int, NEW l, l \in Nat,
           h.brk + d <= Limit + 1, b + META + size <= h.brk + d, size + l = h.hdr[b].size + d,
           Aligned(h.brk + d),
           NEW g, Resized(h, g, L \cup M, b, size, d, l)
    PROVE  State(g, L, M, N, F)
<1> DEFINE B == L \cup M
<1>1. Facts(h, L, M, N, F)
  BY StateFacts
<1>2. /\ HeapOK(h, L, M) /\ HistOK(h, N, F) /\ Headers(h, B) /\ F \subseteq N /\ N \subseteq B
      /\ NULL \notin B /\ B \subseteq DOMAIN h.hdr /\ IsFiniteSet(L) /\ B \subseteq Nat \ {0}
  BY <1>1 DEF Facts
<1>3. Resized(h, g, B, b, size, d, l)
  OBVIOUS
<1>4. \A x \in B : h.hdr[x].size \in Nat /\ h.hdr[x].next \in Nat
  BY <1>2, HeaderIs
<1>5. Headers(g, B)
  BY <1>2, <1>3 DEF Headers, Resized
<1>6. \A x \in B : nexts(g)[x] = nexts(h)[x] /\ prevs(g)[x] = prevs(h)[x]
  BY <1>2, <1>3 DEF Resized, nexts, prevs
<1>7. Linked(L, h.metadata, nexts(h), prevs(h)) /\ Linked(M, h.mmap_list, nexts(h), prevs(h))
  BY <1>2 DEF HeapOK
<1>8. Linked(L, h.metadata, nexts(g), prevs(g))
  BY <1>6, <1>7, LinkedSame
<1>9. Linked(M, h.mmap_list, nexts(g), prevs(g))
  BY <1>6, <1>7, LinkedSame
<1>10. \A x \in L : x \notin M
  BY <1>2, NotInM
<1>11. Apart(g, L)
  <2>1. Apart(h, L)
    BY <1>2 DEF HeapOK
  <2>2. \A x \in L : x <= b
    BY <1>2, <2>1 DEF Apart
  <2>3. ASSUME NEW x, x \in L, x # b PROVE h.hdr[x].next # NULL /\ h.hdr[x].next <= b
    BY <1>2, <2>1, <2>2, <2>3 DEF Apart
  <2>4. ASSUME NEW x, x \in L, x # b PROVE x + META + h.hdr[x].size <= b
    BY <1>2, <1>4, <2>1, <2>3, <2>4, Constants DEF Apart
  <2>5. h.brk \in Int
    BY <1>2, Constants DEF HeapOK
  <2> QED
    BY <1>2, <1>3, <1>4, <2>1, <2>2, <2>3, <2>4, <2>5, Constants DEF Apart, Resized
<1>12. Mappings(g, M)
  <2>1. \A x \in M : x # b /\ x \in B
    BY <1>10
  <2>2. \A x \in M : g.hdr[x].size = h.hdr[x].size /\ g.hdr[x].is_free = h.hdr[x].is_free
    BY <1>3, <2>1 DEF Resized
  <2> QED
    BY <1>2, <2>2 DEF HeapOK, Mappings
<1>13. Accounted(g, L) /\ g.brk \in Base..(Limit + 1) /\ g.lost \in Nat
  <2> DEFINE K == L \ {b}
  <2>1. IsFiniteSet(K) /\ L = K \cup {b} /\ b \notin K
    BY <1>2, FS_Subset
  <2>2. \A x \in L : spans(h)[x] = META + h.hdr[x].size /\ spans(g)[x] = META + g.hdr[x].size
    BY <1>2, <1>3 DEF spans, Resized
  <2>3. \A x \in L : spans(h)[x] \in Nat
    BY <1>4, <2>2, Constants
  <2>4. \A x \in L : spans(g)[x] \in Nat
    BY <1>3, <1>4, <2>2, Constants DEF Resized
  <2> HIDE DEF K
  <2>5. Total(spans(h), K) = Total(spans(g), K)
    <3>1. \A x \in K : spans(h)[x] = spans(g)[x]
      BY <1>3, <2>1, <2>2 DEF Resized
    <3> QED
      BY <2>1, <3>1, TotalSame
  <2>6. Total(spans(h), L) = META + h.hdr[b].size + Total(spans(h), K)
    <3>1. Total(spans(h), K \cup {b}) = spans(h)[b] + Total(spans(h), K)
      BY <2>1, <2>3, TotalAdd
    <3> QED
      BY <2>1, <2>2, <3>1
  <2>7. Total(spans(g), L) = META + size + Total(spans(g), K)
    <3>1. Total(spans(g), K \cup {b}) = spans(g)[b] + Total(spans(g), K)
      BY <2>1, <2>4, TotalAdd
    <3>2. g.hdr[b].size = size
      BY <1>3 DEF Resized
    <3> QED
      BY <2>1, <2>2, <3>1, <3>2
  <2>8. Total(spans(h), K) \in Nat
    BY <2>1, <2>3, TotalNat
  <2>9. h.brk \in Base..(Limit + 1) /\ h.lost \in Nat /\ Base + Total(spans(h), L) + h.lost = h.brk
    BY <1>2 DEF HeapOK, Accounted
  <2>10. g.brk = h.brk + d /\ g.lost = h.lost + l /\ h.hdr[b].size \in Nat
    BY <1>3, <1>4 DEF Resized
  <2>11. Base + Total(spans(g), L) + g.lost = g.brk
    BY <2>5, <2>6, <2>7, <2>8, <2>9, <2>10, Constants
  <2>12. Total(spans(g), L) \in Nat
    BY <2>5, <2>7, <2>8, Constants
  <2> QED
    BY <2>9, <2>10, <2>11, <2>12, Constants DEF Accounted
<1>14. Multiples(g, L)
  BY <1>2, <1>3 DEF HeapOK, Multiples, Resized, Aligned
<1>15. HeapOK(g, L, M)
  BY <1>2, <1>3, <1>5, <1>8, <1>9, <1>11, <1>12, <1>13, <1>14 DEF HeapOK, Resized
<1>16. HistSame(h, g, N, F)
  <2>1. \A x \in F : h.hdr[x].hist_next \in F \cup {NULL}
    BY HistLinks
  <2>2. F \subseteq B /\ F \subseteq DOMAIN h.hdr /\ DOMAIN g.hdr = DOMAIN h.hdr
    BY <1>2, <1>3 DEF Resized
  <2>3. \A x \in N \ F : h.hdr[x].hist_next = NULL /\ h.hdr[x].hist_prev = NULL
    BY <1>2 DEF HistOK
  <2> QED
    BY <1>2, <1>3, <2>1, <2>2, <2>3 DEF HistSame, Resized
<1>17. HistOK(g, N, F)
  BY <1>2, <1>16, HistKept
<1> QED
  BY <1>2, <1>15, <1>17 DEF State

-----------------------------------------------------------------------------
(* splitBlock *)

(* Block r has been cut off from block b, which keeps size bytes. *)
CutOff(h, g, B, b, r, size) ==
    /\ IsHeap(g) /\ DOMAIN g.hdr = DOMAIN h.hdr \cup {r} /\ g.flaws = h.flaws
    /\ g.metadata = h.metadata /\ g.mmap_list = h.mmap_list /\ g.histogram = h.histogram
    /\ g.brk = h.brk /\ g.lost = h.lost /\ g.uninit = h.uninit
    /\ \A x \in B :
         /\ g.hdr[x] \in MallocMetadata
         /\ g.hdr[x].is_free = h.hdr[x].is_free /\ g.hdr[x].addr = h.hdr[x].addr
         /\ g.hdr[x].hist_next = h.hdr[x].hist_next /\ g.hdr[x].hist_prev = h.hdr[x].hist_prev
         /\ g.hdr[x].size = IF x = b THEN size ELSE h.hdr[x].size
         /\ g.hdr[x].next = IF x = b THEN r ELSE h.hdr[x].next
         /\ g.hdr[x].prev = IF x = h.hdr[b].next THEN r ELSE h.hdr[x].prev
    /\ g.hdr[r] \in MallocMetadata /\ g.hdr[r].is_free
    /\ g.hdr[r].size = h.hdr[b].size - size - META /\ g.hdr[r].addr = r + META * META
    /\ g.hdr[r].next = h.hdr[b].next /\ g.hdr[r].prev = b
    /\ g.hdr[r].hist_next = h.uninit /\ g.hdr[r].hist_prev = h.uninit

LEMMA CutIs ==
    ASSUME NEW h, NEW B, Headers(h, B), NEW b, b \in B, h.hdr[b].next \in (B \ {b}) \cup {NULL},
           NEW size, size \in Nat, h.hdr[b].size - size - META \in Nat, h.uninit \in {NULL, Junk},
           NEW r, r = RestOf(h, b, size), r \notin B, r # NULL
    PROVE  CutOff(h, Cut(h, b, size), B, b, r, size)
<1> DEFINE n == h.hdr[b].next
           remainder == [size |-> h.hdr[b].size - size - META, is_free |-> TRUE,
                         next |-> n, prev |-> b, addr |-> r + META * META,
                         hist_prev |-> h.uninit, hist_next |-> h.uninit]
           short == [h EXCEPT !.hdr[b].size = size, !.hdr[b].next = r]
           linked == IF n = NULL THEN short ELSE [short EXCEPT !.hdr[n].prev = r]
           w == Write(linked.hdr, r, remainder)
           k == [linked EXCEPT !.hdr = w]
<1>1. Cut(h, b, size) = k
  BY DEF Cut
<1>2. /\ IsHeap(h) /\ B \subseteq DOMAIN h.hdr /\ META \in Nat /\ NULL \notin B /\ META * META \in Nat
      /\ \A x \in B : x \in Nat /\ h.hdr[x] \in MallocMetadata /\ h.hdr[x].size \in Nat
                      /\ h.hdr[x].addr \in Nat
      /\ n \in Nat /\ r \in Nat
  <2>1. /\ IsHeap(h) /\ B \subseteq DOMAIN h.hdr /\ NULL \notin B
        /\ \A x \in B : x \in Nat /\ h.hdr[x] \in MallocMetadata
    BY DEF Headers
  <2>2. \A x \in B : h.hdr[x].size \in Nat /\ h.hdr[x].addr \in Nat /\ h.hdr[x].next \in Nat
    BY <2>1 DEF MallocMetadata
  <2>3. n \in Nat
    BY <2>2
  <2>4. r \in Nat
    BY <2>2 DEF RestOf
  <2>5. META \in Nat
    BY Constants
  <2>6. META * META \in Nat
    BY <2>5
  <2> QED
    BY <2>1, <2>2, <2>3, <2>4, <2>5, <2>6
<1>3. h.uninit \in Pointer
  BY Constants DEF Pointer
<1>4. remainder \in MallocMetadata
  BY <1>2, <1>3 DEF MallocMetadata
<1>5. /\ IsHeap(short) /\ DOMAIN short.hdr = DOMAIN h.hdr /\ short.flaws = h.flaws
      /\ short.metadata = h.metadata /\ short.mmap_list = h.mmap_list /\ short.histogram = h.histogram
      /\ short.brk = h.brk /\ short.lost = h.lost /\ short.uninit = h.uninit
      /\ \A x \in B :
           /\ short.hdr[x] \in MallocMetadata
           /\ short.hdr[x].is_free = h.hdr[x].is_free /\ short.hdr[x].addr = h.hdr[x].addr
           /\ short.hdr[x].hist_next = h.hdr[x].hist_next /\ short.hdr[x].hist_prev = h.hdr[x].hist_prev
           /\ short.hdr[x].size = IF x = b THEN size ELSE h.hdr[x].size
           /\ short.hdr[x].next = IF x = b THEN r ELSE h.hdr[x].next
           /\ short.hdr[x].prev = h.hdr[x].prev
  BY <1>2 DEF IsHeap, Fields, MallocMetadata
<1> HIDE DEF short
<1>6. /\ IsHeap(linked) /\ DOMAIN linked.hdr = DOMAIN h.hdr /\ linked.flaws = h.flaws
      /\ linked.metadata = h.metadata /\ linked.mmap_list = h.mmap_list /\ linked.histogram = h.histogram
      /\ linked.brk = h.brk /\ linked.lost = h.lost /\ linked.uninit = h.uninit
      /\ \A x \in B :
           /\ linked.hdr[x] \in MallocMetadata
           /\ linked.hdr[x].is_free = short.hdr[x].is_free /\ linked.hdr[x].addr = short.hdr[x].addr
           /\ linked.hdr[x].hist_next = short.hdr[x].hist_next /\ linked.hdr[x].hist_prev = short.hdr[x].hist_prev
           /\ linked.hdr[x].size = short.hdr[x].size /\ linked.hdr[x].next = short.hdr[x].next
           /\ linked.hdr[x].prev = IF x = n THEN r ELSE short.hdr[x].prev
  <2>1. CASE n = NULL
    BY <1>2, <1>5, <2>1
  <2>2. CASE n # NULL
    BY <1>2, <1>5, <2>2 DEF IsHeap, Fields, MallocMetadata
  <2> QED
    BY <2>1, <2>2
<1> HIDE DEF linked
<1>7. /\ IsHeap(k) /\ k.hdr = w /\ k.flaws = h.flaws
      /\ k.metadata = h.metadata /\ k.mmap_list = h.mmap_list /\ k.histogram = h.histogram
      /\ k.brk = h.brk /\ k.lost = h.lost /\ k.uninit = h.uninit
  BY <1>6 DEF IsHeap, Fields
<1>8. DOMAIN w = DOMAIN h.hdr \cup {r} /\ w[r] = remainder /\ \A x \in B : w[x] = linked.hdr[x]
  BY <1>2, <1>6 DEF Write
<1> HIDE DEF w, k
<1>9. /\ w[r] \in MallocMetadata /\ w[r].is_free
      /\ w[r].size = h.hdr[b].size - size - META /\ w[r].addr = r + META * META
      /\ w[r].next = h.hdr[b].next /\ w[r].prev = b
      /\ w[r].hist_next = h.uninit /\ w[r].hist_prev = h.uninit
  BY <1>4, <1>8
<1> HIDE DEF remainder
<1> QED
  BY <1>1, <1>5, <1>6, <1>7, <1>8, <1>9 DEF CutOff

CutWell(h, g, L, M, N, F, b, r, size) ==
    /\ r \notin L \cup M /\ r # NULL
    /\ CutOff(h, g, L \cup M, b, r, size) /\ State(g, L \cup {r}, M, N, F)

(* splitBlock, before the two insertions: the remainder is a block of its  *)
(* own behind block b, and everything still fills the heap.                *)
LEMMA CutState ==
    ASSUME NEW h, NEW L, NEW M, NEW N, NEW F, State(h, L, M, N, F), NEW b, b \in L, b \notin F,
           HandsOut(h, b), NEW size, size \in Nat, Aligned(size),
           LongEnough(h, b, size), NEW r, r = Behind(b, size), NEW g, g = Cut(h, b, size)
    PROVE  CutWell(h, g, L, M, N, F, b, r, size)
<1> DEFINE B == L \cup M
           n == h.hdr[b].next
<1>0. /\ r = b + META + size /\ g = Cut(h, b, size) /\ size % align = 0
      /\ h.hdr[b].addr = b + META
  BY DEF Aligned, Behind, HandsOut
<1>1. Facts(h, L, M, N, F)
  BY StateFacts
<1>2. /\ HeapOK(h, L, M) /\ HistOK(h, N, F) /\ Headers(h, B) /\ F \subseteq N /\ N \subseteq B
      /\ NULL \notin B /\ B \subseteq DOMAIN h.hdr /\ IsFiniteSet(L) /\ B \subseteq Nat \ {0}
      /\ NULL \notin DOMAIN h.hdr
  BY <1>1 DEF Facts
<1>3. /\ Linked(L, h.metadata, nexts(h), prevs(h)) /\ Linked(M, h.mmap_list, nexts(h), prevs(h))
      /\ Apart(h, L) /\ Mappings(h, M) /\ Accounted(h, L) /\ Multiples(h, L) /\ h.flaws = {}
      /\ h.brk \in Base..(Limit + 1) /\ h.lost \in Nat /\ h.uninit \in {NULL, Junk} /\ IsHeap(h)
      /\ L \subseteq 1..Limit
  BY <1>2 DEF HeapOK, Headers
<1>4. Neighbouring(h, L)
  BY <1>2, ListLinks
<1>5. \A x \in B : h.hdr[x].size \in Nat /\ h.hdr[x].next \in Nat
  BY <1>2, HeaderIs
<1>6. h.hdr[b].size \in Nat /\ h.hdr[b].size >= SPLIT + size + META /\ b \in Nat \ {0}
  BY <1>2, <1>5 DEF LongEnough
<1>7. /\ h.hdr[b].size - size - META \in Nat /\ r \in Nat /\ r > b
      /\ r + META + (h.hdr[b].size - size - META) = b + META + h.hdr[b].size
      /\ r + META <= b + META + h.hdr[b].size
  BY <1>0, <1>6, Constants
<1>8. RestOf(h, b, size) = r
  BY <1>0 DEF RestOf
<1>9. b + META + h.hdr[b].size <= h.brk /\ (n # NULL => b + META + h.hdr[b].size <= n)
      /\ (\A x \in L : b < x => n # NULL /\ n <= x)
  BY <1>3 DEF Apart
<1>10. r <= Limit
  BY <1>3, <1>6, <1>7, <1>9, Constants
<1>11. \A x \in M : x > Limit
  <2> SUFFICES ASSUME NEW y \in M PROVE y > Limit
    OBVIOUS
  <2>1. PICK j \in 0..(Cardinality(M) - 1) : y = Limit + 1 + j * (META + MAX_SIZE)
    BY <1>3 DEF Mappings
  <2>2. j * (META + MAX_SIZE) \in Nat
    BY Constants
  <2> QED
    BY <2>1, <2>2, Constants
<1>12. r \notin L
  <2> SUFFICES ASSUME r \in L PROVE FALSE
    OBVIOUS
  <2>1. n # NULL /\ n <= r /\ n \in Nat
    BY <1>5, <1>7, <1>9
  <2> QED
    BY <1>6, <1>7, <1>9, <2>1, Constants
<1>13. r \notin B /\ r # NULL
  <2>1. r \in Nat /\ r > 0 /\ r <= Limit /\ Limit \in Nat /\ NULL = 0
    BY <1>6, <1>7, <1>10, Constants
  <2>2. r \notin M
    BY <1>11, <2>1
  <2> QED
    BY <1>12, <2>1, <2>2
<1>14. n \in L \cup {NULL} /\ n # b
  BY <1>4 DEF Neighbouring
<1>15. CutOff(h, g, B, b, r, size)
  BY <1>2, <1>3, <1>7, <1>8, <1>13, <1>14, <1>0, CutIs
<1>16. /\ DOMAIN g.hdr = DOMAIN h.hdr \cup {r} /\ IsHeap(g)
       /\ g.metadata = h.metadata /\ g.mmap_list = h.mmap_list /\ g.histogram = h.histogram
       /\ g.brk = h.brk /\ g.lost = h.lost /\ g.uninit = h.uninit /\ g.flaws = h.flaws
  BY <1>15 DEF CutOff
<1>17. Headers(g, (L \cup {r}) \cup M)
  <2>1. g.hdr[r] \in MallocMetadata /\ g.hdr[r].addr >= r + META
    <3>1. g.hdr[r] \in MallocMetadata /\ g.hdr[r].addr = r + META * META
      BY <1>15 DEF CutOff
    <3>2. META * META >= META
      BY Constants
    <3> QED
      BY <3>1, <3>2, <1>7, Constants
  <2>2. \A x \in B : g.hdr[x] \in MallocMetadata /\ g.hdr[x].addr >= x + META
    BY <1>2, <1>15 DEF CutOff, Headers
  <2>3. r \in Nat \ {0}
    BY <1>7, <1>13, Constants
  <2>4. NULL \notin DOMAIN g.hdr
    BY <1>2, <1>13, <1>16
  <2> QED
    BY <1>2, <1>16, <2>1, <2>2, <2>3, <2>4 DEF Headers
<1>18. Linked(L \cup {r}, g.metadata, nexts(g), prevs(g))
  <2>1. \A x \in L : /\ nexts(h)[x] = h.hdr[x].next /\ prevs(h)[x] = h.hdr[x].prev
                     /\ nexts(g)[x] = g.hdr[x].next /\ prevs(g)[x] = g.hdr[x].prev
    BY <1>2, <1>16 DEF nexts, prevs
  <2>2. nexts(g)[r] = g.hdr[r].next /\ prevs(g)[r] = g.hdr[r].prev
    BY <1>16 DEF nexts, prevs
  <2>3. Neighbours(L, b, n, h.metadata, nexts(h), prevs(h))
    BY <1>2, <1>4, <1>14, <2>1 DEF Neighbours, Neighbouring
  <2>4. PutIn(L, r, b, n, h.metadata, nexts(h), prevs(h), g.metadata, nexts(g), prevs(g))
    BY <1>2, <1>13, <1>15, <1>16, <2>1, <2>2 DEF PutIn, CutOff
  <2>5. NULL \notin L /\ r \notin L /\ r # NULL
    BY <1>2, <1>13
  <2> QED
    BY <1>3, <2>3, <2>4, <2>5, LinkedInsert
<1>19. Linked(M, g.mmap_list, nexts(g), prevs(g))
  <2>1. \A x \in L : x \notin M
    BY <1>2, NotInM
  <2>2. \A x \in M : x # b /\ x # n
    BY <1>2, <1>14, <2>1
  <2>3. \A x \in M : nexts(g)[x] = nexts(h)[x] /\ prevs(g)[x] = prevs(h)[x]
    BY <1>2, <1>15, <1>16, <2>2 DEF CutOff, nexts, prevs
  <2> QED
    BY <1>3, <1>16, <2>3, LinkedSame
<1>20. Apart(g, L \cup {r})
  <2>1. g.hdr[b].size = size /\ g.hdr[b].next = r
    BY <1>15 DEF CutOff
  <2>2. g.hdr[r].next = n /\ g.hdr[r].size = h.hdr[b].size - size - META
    BY <1>15 DEF CutOff
  <2>3. \A x \in L : x # b => g.hdr[x].size = h.hdr[x].size /\ g.hdr[x].next = h.hdr[x].next
    BY <1>15 DEF CutOff
  <2>4. ASSUME NEW x, x \in L, x # b
        PROVE  /\ x + META + h.hdr[x].size <= g.brk
               /\ h.hdr[x].next # NULL => x + META + h.hdr[x].size <= h.hdr[x].next
               /\ \A y \in L \cup {r} : x < y => h.hdr[x].next # NULL /\ h.hdr[x].next <= y
    <3>1. /\ x + META + h.hdr[x].size <= g.brk
          /\ h.hdr[x].next # NULL => x + META + h.hdr[x].size <= h.hdr[x].next
          /\ \A y \in L : x < y => h.hdr[x].next # NULL /\ h.hdr[x].next <= y
      BY <1>3, <1>16, <2>4 DEF Apart
    <3>2. x < r => x < b
      <4> SUFFICES ASSUME x < r, b < x PROVE FALSE
        BY <1>2, <2>4
      <4>1. n # NULL /\ n <= x /\ n \in Nat /\ x \in Nat
        BY <1>2, <1>5, <1>9, <2>4
      <4> QED
        BY <1>6, <1>7, <1>9, <4>1, Constants
    <3>3. h.hdr[x].next \in Nat
      BY <1>5, <2>4
    <3> QED
      BY <1>6, <1>7, <3>1, <3>2, <3>3, <1>2
  <2>5. /\ b + META + size <= g.brk /\ b + META + size <= r
        /\ \A y \in L \cup {r} : b < y => r <= y
    <3>1. b + META + size = r /\ r <= g.brk /\ g.brk \in Int
      BY <1>3, <1>6, <1>7, <1>9, <1>16, <1>0, Constants
    <3>2. ASSUME NEW y, y \in L, b < y PROVE r <= y
      <4>1. n # NULL /\ n <= y /\ n \in Nat /\ y \in Nat
        BY <1>2, <1>5, <1>9, <3>2
      <4> QED
        BY <1>6, <1>7, <1>9, <4>1, Constants
    <3> QED
      BY <1>7, <3>1, <3>2
  <2>6. /\ r + META + (h.hdr[b].size - size - META) <= g.brk
        /\ n # NULL => r + META + (h.hdr[b].size - size - META) <= n
        /\ \A y \in L \cup {r} : r < y => n # NULL /\ n <= y
    <3>1. ASSUME NEW y, y \in L, r < y PROVE n # NULL /\ n <= y
      <4>1. b < y
        BY <1>2, <1>6, <1>7, <3>1
      <4> QED
        BY <1>9, <3>1, <4>1
    <3> QED
      BY <1>7, <1>9, <1>16, <3>1
  <2> QED
    BY <1>13, <2>1, <2>2, <2>3, <2>4, <2>5, <2>6 DEF Apart
<1>21. Mappings(g, M)
  <2>1. \A x \in M : x # b
    BY <1>2, NotInM
  <2>2. \A x \in M : g.hdr[x].size = h.hdr[x].size /\ g.hdr[x].is_free = h.hdr[x].is_free
    BY <1>15, <2>1 DEF CutOff
  <2> QED
    BY <1>3, <2>2 DEF Mappings
<1>22. Accounted(g, L \cup {r})
  <2> DEFINE K == L \ {b}
  <2>1. IsFiniteSet(K) /\ L = K \cup {b} /\ b \notin K
    BY <1>2, FS_Subset
  <2>2. \A x \in L : spans(h)[x] = META + h.hdr[x].size /\ spans(g)[x] = META + g.hdr[x].size
    BY <1>2, <1>16 DEF spans
  <2>3. spans(g)[r] = META + (h.hdr[b].size - size - META)
    BY <1>15, <1>16 DEF spans, CutOff
  <2>4. \A x \in L : spans(h)[x] \in Nat
    BY <1>5, <2>2, Constants
  <2>5. \A x \in L : spans(g)[x] = IF x = b THEN META + size ELSE spans(h)[x]
    BY <1>15, <2>2 DEF CutOff
  <2>6. \A x \in L \cup {r} : spans(g)[x] \in Nat
    BY <1>7, <2>3, <2>4, <2>5, Constants
  <2> HIDE DEF K
  <2>7. Total(spans(h), K) = Total(spans(g), K)
    <3>1. \A x \in K : spans(h)[x] = spans(g)[x]
      BY <2>1, <2>5
    <3> QED
      BY <2>1, <3>1, TotalSame
  <2>8. Total(spans(h), L) = META + h.hdr[b].size + Total(spans(h), K)
    <3>1. Total(spans(h), K \cup {b}) = spans(h)[b] + Total(spans(h), K)
      BY <2>1, <2>4, TotalAdd
    <3> QED
      BY <2>1, <2>2, <3>1
  <2>9. Total(spans(g), L) = META + size + Total(spans(g), K)
    <3>1. Total(spans(g), K \cup {b}) = spans(g)[b] + Total(spans(g), K)
      BY <2>1, <2>6, TotalAdd
    <3> QED
      BY <2>1, <2>5, <3>1
  <2>10. Total(spans(g), L \cup {r}) = META + (h.hdr[b].size - size - META) + Total(spans(g), L)
    <3>1. Total(spans(g), L \cup {r}) = spans(g)[r] + Total(spans(g), L)
      BY <1>2, <1>13, <2>6, TotalAdd
    <3> QED
      BY <2>3, <3>1
  <2>11. Total(spans(h), K) \in Nat
    BY <2>1, <2>4, TotalNat
  <2>12. Total(spans(g), L \cup {r}) = Total(spans(h), L)
    BY <1>6, <2>7, <2>8, <2>9, <2>10, <2>11, Constants
  <2> QED
    BY <1>3, <1>16, <2>12 DEF Accounted
<1>23. Multiples(g, L \cup {r})
  <2>0. size % align = 0
    BY <1>0
  <2>1. align \in Nat \ {0} /\ META % align = 0 /\ b % align = 0 /\ h.hdr[b].size % align = 0
    BY <1>3, MallocAssumption DEF Multiples, MallocAssumption
  <2>2. (b + META) % align = 0
    BY <1>6, <2>1, MultipleSum, Constants
  <2>3. b + META \in Nat
    BY <1>6, Constants
  <2>4. r % align = 0
    BY <1>0, <2>0, <2>1, <2>2, <2>3, MultipleSum
  <2>5. (size + META) % align = 0 /\ size + META \in Nat /\ size + META <= h.hdr[b].size
    <3>1. META \in Nat /\ SPLIT \in Nat
      BY Constants
    <3>2. (size + META) % align = 0
      BY <2>0, <2>1, <3>1, MultipleSum
    <3> QED
      BY <1>6, <3>1, <3>2
  <2>6. (h.hdr[b].size - (size + META)) % align = 0
    BY <1>6, <2>1, <2>5, MultipleLess
  <2>7. h.hdr[b].size - (size + META) = h.hdr[b].size - size - META
    BY <1>6, Constants
  <2>8. g.hdr[r].size % align = 0
    BY <1>15, <2>6, <2>7 DEF CutOff
  <2>9. \A x \in L : x % align = 0 /\ g.hdr[x].size % align = 0
    <3>1. \A x \in L : g.hdr[x].size = IF x = b THEN size ELSE h.hdr[x].size
      BY <1>15 DEF CutOff
    <3> QED
      BY <1>3, <2>0, <3>1 DEF Multiples
  <2> QED
    BY <1>3, <1>16, <2>4, <2>8, <2>9 DEF Multiples
<1>24. HeapOK(g, L \cup {r}, M)
  <2>1. L \cup {r} \subseteq 1..Limit
    <3>1. r \in 1..Limit
      BY <1>7, <1>10, <1>13, Constants
    <3> QED
      BY <1>3, <3>1
  <2> QED
    BY <1>3, <1>16, <1>17, <1>18, <1>19, <1>20, <1>21, <1>22, <1>23, <2>1 DEF HeapOK
<1>25. HistSame(h, g, N, F)
  <2>1. \A x \in F : h.hdr[x].hist_next \in F \cup {NULL}
    BY HistLinks
  <2>2. F \subseteq B /\ F \subseteq DOMAIN h.hdr /\ F \subseteq DOMAIN g.hdr
    BY <1>2, <1>16
  <2>3. \A x \in N \ F : h.hdr[x].hist_next = NULL /\ h.hdr[x].hist_prev = NULL
    BY <1>2 DEF HistOK
  <2> QED
    BY <1>2, <1>15, <1>16, <2>1, <2>2, <2>3 DEF HistSame, CutOff
<1>26. HistOK(g, N, F)
  BY <1>2, <1>25, HistKept
<1>27. State(g, L \cup {r}, M, N, F)
  BY <1>2, <1>24, <1>26 DEF State
<1> QED
  BY <1>13, <1>15, <1>27 DEF CutWell

-----------------------------------------------------------------------------
Kept(h, g, U) == \A x \in U : g.hdr[x].size = h.hdr[x].size /\ g.hdr[x].addr = h.hdr[x].addr

(* Blocks of no bucket are not touched by the insertion of another one. *)
LEMMA InsertOthers ==
    ASSUME NEW h, NEW L, NEW M, NEW N, NEW F, State(h, L, M, N, F), NEW b, b \in L \cup M, b \notin F,
           histogramInsert(h, b).flaws = {}, NEW x, x \in L \cup M, x \notin F, x # b
    PROVE  LET g == histogramInsert(h, b) IN
           g.hdr[x].hist_next = h.hdr[x].hist_next /\ g.hdr[x].hist_prev = h.hdr[x].hist_prev
<1> DEFINE g == histogramInsert(h, b)
<1>1. PICK p, n : InsertedAt(h, g, L \cup M, b, p, n) /\ Place(h, F, b, p, n)
  BY InsertShape
<1>2. p \in F \cup {NULL} /\ n \in F \cup {NULL}
  BY <1>1 DEF Place, Neighbours, InBucket
<1>3. x # NULL
  <2>1. Facts(h, L, M, N, F)
    BY StateFacts
  <2> QED
    BY <2>1 DEF Facts
<1> HIDE DEF g
<1> QED
  BY <1>1, <1>2, <1>3 DEF InsertedAt, g

(* A block of the list is taken into use.                                  *)
LEMMA MarkRest ==
    ASSUME NEW h, NEW L, NEW M, NEW F, NEW e, Rest(h, L, M, F, e), NEW b, b \in L, e \in {NULL, b}
    PROVE  LET g == Mark(h, b, FALSE) IN
           /\ Rest(g, L, M, F, b) /\ Marked(h, g, L \cup M, b, FALSE)
           /\ \A Z : CalmBut(h, L, Z) => CalmBut(g, L, Z)
<1> DEFINE g == Mark(h, b, FALSE)
<1>1. State(h, L, M, L \cup M, F) /\ F \subseteq L /\ (\A x \in L : h.hdr[x].is_free <=> x \in F /\ x # e)
  BY DEF Rest
<1>2. State(g, L, M, L \cup M, F) /\ Marked(h, g, L \cup M, b, FALSE)
  BY <1>1, MarkState
<1> HIDE DEF g
<1>3. NULL \notin L /\ Neighbouring(h, L)
  <2>1. Facts(h, L, M, L \cup M, F)
    BY <1>1, StateFacts
  <2> QED
    BY <2>1, ListLinks DEF Facts
<1>4. \A x \in L : /\ g.hdr[x].is_free = IF x = b THEN FALSE ELSE h.hdr[x].is_free
                   /\ g.hdr[x].next = h.hdr[x].next
  BY <1>2 DEF Marked
<1>5. \A x \in L : g.hdr[x].is_free <=> x \in F /\ x # b
  BY <1>1, <1>3, <1>4
<1>6. Rest(g, L, M, F, b)
  BY <1>1, <1>2, <1>5 DEF Rest
<1>7. ASSUME NEW Z, CalmBut(h, L, Z) PROVE CalmBut(g, L, Z)
  BY <1>3, <1>4, <1>7 DEF CalmBut, Free, Neighbouring
<1> QED
  BY <1>2, <1>6, <1>7 DEF g

(* What splitBlock leaves of block b, which is in use but in the histogram. *)
SplitOff(h, g, L, L2, M, F, F2, b, size) ==
    /\ Rest(g, L2, M, F2, b) /\ CalmBut(g, L2, {}) /\ b \in F2
    /\ L2 \ F2 = (L \ F) \ {b} /\ Kept(h, g, ((L \ F) \ {b}) \cup M)
    /\ g.hdr[b].size = size /\ g.hdr[b].addr = h.hdr[b].addr

(* Without a flaw, splitBlock leaves b and the remainder in the histogram. *)
LEMMA SplitRest ==
    ASSUME NEW h, NEW L, NEW M, NEW F, NEW b, Rest(h, L, M, F, b), b \in L, CalmBut(h, L, {}),
           NEW size, size \in Nat, Aligned(size), LongEnough(h, b, size),
           splitBlock(h, b, size).flaws = {}
    PROVE  \E L2, F2 : SplitOff(h, splitBlock(h, b, size), L, L2, M, F, F2, b, size)
<1> DEFINE s == splitBlock(h, b, size)
           B == L \cup M
<1>1. /\ State(h, L, M, B, F) /\ F \subseteq L /\ (\A x \in L : h.hdr[x].is_free <=> x \in F /\ x # b)
  BY DEF Rest
<1>2. Facts(h, L, M, B, F)
  BY <1>1, StateFacts
<1>3. HeapOK(h, L, M) /\ IsHeap(h) /\ NULL \notin B
  BY <1>2 DEF Facts
<1>4. PICK f, g, r, c, k, in, m : SplitSteps(h, b, size, f, g, r, c, k, in, m)
  BY <1>3, LaterSplit
<1>5. /\ s.flaws = {} /\ f = histogramRemove(h, b) /\ r = RestOf(g, b, size) /\ c = Cut(g, b, size)
      /\ k = histogramInsert(c, b) /\ in = histogramInsert(k, r) /\ s = uniteBlock(m, r)
  BY <1>4 DEF SplitSteps
<1> HIDE DEF s, B
<1>6. f.flaws = {} /\ g.flaws = {} /\ c.flaws = {} /\ k.flaws = {} /\ in.flaws = {} /\ m.flaws = {}
  BY <1>4, <1>5 DEF Later, SplitSteps, s
<1>7. g = f /\ h.hdr[b].addr = b + META /\ m = in
      /\ in.hdr[r].hist_prev # Junk /\ in.hdr[r].hist_next # Junk
  BY <1>4, <1>6 DEF SplitSteps
<1>8. b \in B
  BY DEF B
<1>9. State(f, L, M, B, F \ {b}) /\ Same(h, f, B)
  BY <1>1, <1>5, <1>6, <1>8, RemoveState DEF B
<1>10. f.hdr[b].addr = b + META /\ LongEnough(f, b, size) /\ r = b + META + size
  BY <1>5, <1>7, <1>8, <1>9 DEF Same, LongEnough, RestOf
<1>11. /\ r \notin B /\ r # NULL /\ CutOff(f, c, B, b, r, size)
       /\ State(c, L \cup {r}, M, B, F \ {b})
  <2> DEFINE E == F \ {b}
  <2>1. b \notin E /\ c = Cut(f, b, size)
    BY <1>5, <1>7
  <2>2. State(f, L, M, B, E) /\ HandsOut(f, b) /\ r = Behind(b, size)
    BY <1>9, <1>10 DEF HandsOut, Behind
  <2> HIDE DEF E
  <2>3. CutWell(f, c, L, M, B, E, b, r, size)
    BY <1>10, <2>1, <2>2, CutState
  <2> QED
    BY <2>3 DEF B, E, CutWell
<1>12. /\ b \in (L \cup {r}) \cup M /\ b \notin F \ {b} /\ (F \ {b}) \cup {b} = F \cup {b}
       /\ B \cup {b} = B
  BY <1>8 DEF B
<1>13. c.hdr[b].hist_next = NULL /\ c.hdr[b].hist_prev = NULL
  BY <1>8, <1>11, <1>12 DEF State, HistOK
<1>14. State(k, L \cup {r}, M, B, F \cup {b}) /\ Same(c, k, (L \cup {r}) \cup M)
  <2>1. State(k, L \cup {r}, M, B \cup {b}, (F \ {b}) \cup {b}) /\ Same(c, k, (L \cup {r}) \cup M)
    BY <1>6, <1>8, <1>11, <1>12, <1>13, <1>5, InsertState
  <2> QED
    BY <1>12, <2>1
<1>15. r \in (L \cup {r}) \cup M /\ r \notin F \cup {b} /\ r # b /\ r \notin F \ {b}
  BY <1>1, <1>8, <1>11 DEF B
<1>16. k.hdr[r].hist_next = c.hdr[r].hist_next /\ k.hdr[r].hist_prev = c.hdr[r].hist_prev
  BY <1>6, <1>11, <1>12, <1>15, <1>5, InsertOthers
<1>17. k.hdr[r].hist_next \in {NULL, Junk} /\ k.hdr[r].hist_prev \in {NULL, Junk}
  <2>1. f.uninit \in {NULL, Junk}
    BY <1>9 DEF State, HeapOK
  <2> QED
    BY <1>11, <1>16, <2>1 DEF CutOff
<1>18. State(in, L \cup {r}, M, B \cup {r}, (F \cup {b}) \cup {r}) /\ Same(k, in, (L \cup {r}) \cup M)
  BY <1>6, <1>7, <1>14, <1>15, <1>17, <1>5, InsertState
<1> DEFINE K == L \cup {r}
           G == (F \cup {b}) \cup {r}
<1>19. \A x \in B : /\ in.hdr[x].is_free = h.hdr[x].is_free /\ in.hdr[x].addr = h.hdr[x].addr
                    /\ in.hdr[x].size = IF x = b THEN size ELSE h.hdr[x].size
                    /\ in.hdr[x].next = IF x = b THEN r ELSE h.hdr[x].next
  <2>1. \A x \in B : /\ f.hdr[x].is_free = h.hdr[x].is_free /\ f.hdr[x].addr = h.hdr[x].addr
                     /\ f.hdr[x].size = h.hdr[x].size /\ f.hdr[x].next = h.hdr[x].next
    BY <1>9 DEF Same
  <2>2. \A x \in B : /\ c.hdr[x].is_free = f.hdr[x].is_free /\ c.hdr[x].addr = f.hdr[x].addr
                     /\ c.hdr[x].size = IF x = b THEN size ELSE f.hdr[x].size
                     /\ c.hdr[x].next = IF x = b THEN r ELSE f.hdr[x].next
    BY <1>11 DEF CutOff
  <2>3. \A x \in B : /\ k.hdr[x].is_free = c.hdr[x].is_free /\ k.hdr[x].addr = c.hdr[x].addr
                     /\ k.hdr[x].size = c.hdr[x].size /\ k.hdr[x].next = c.hdr[x].next
    BY <1>14 DEF Same, B
  <2>4. \A x \in B : /\ in.hdr[x].is_free = k.hdr[x].is_free /\ in.hdr[x].addr = k.hdr[x].addr
                     /\ in.hdr[x].size = k.hdr[x].size /\ in.hdr[x].next = k.hdr[x].next
    BY <1>18 DEF Same, B
  <2> QED
    BY <2>1, <2>2, <2>3, <2>4
<1>20. in.hdr[r].is_free /\ in.hdr[r].prev = b
  <2>1. c.hdr[r].is_free /\ c.hdr[r].prev = b
    BY <1>11 DEF CutOff
  <2>2. k.hdr[r].is_free = c.hdr[r].is_free /\ k.hdr[r].prev = c.hdr[r].prev
    BY <1>14, <1>15 DEF Same
  <2>3. in.hdr[r].is_free = k.hdr[r].is_free /\ in.hdr[r].prev = k.hdr[r].prev
    BY <1>18, <1>15 DEF Same
  <2> QED
    BY <2>1, <2>2, <2>3
<1>21. Rest(in, K, M, G, b)
  <2>1. B \cup {r} = K \cup M /\ G \subseteq K
    BY <1>1 DEF B
  <2>2. ASSUME NEW x, x \in K PROVE in.hdr[x].is_free <=> x \in G /\ x # b
    <3>1. CASE x = r
      BY <1>15, <1>20, <3>1
    <3>2. CASE x # r
      <4>1. x \in L /\ x \in B
        BY <2>2, <3>2 DEF B
      <4> QED
        BY <1>1, <1>19, <3>2, <4>1
    <3> QED
      BY <3>1, <3>2
  <2>3. State(in, K, M, K \cup M, G)
    BY <1>18, <2>1
  <2> HIDE DEF K, G
  <2> QED
    BY <2>1, <2>2, <2>3 DEF Rest
<1>22. CalmBut(in, K, {r, in.hdr[r].prev})
  <2> SUFFICES ASSUME NEW x \in K, x # r, x # b, in.hdr[x].is_free PROVE ~Free(in, in.hdr[x].next)
    BY <1>20 DEF CalmBut
  <2>1. x \in L /\ x \in B /\ h.hdr[x].is_free /\ in.hdr[x].next = h.hdr[x].next
    BY <1>19 DEF B
  <2>2. ~Free(h, h.hdr[x].next) /\ h.hdr[x].next \in L \cup {NULL}
    BY <1>3, <2>1, ListLinks DEF CalmBut, Neighbouring
  <2> QED
    BY <1>19, <2>1, <2>2 DEF Free, B
<1>23. s = uniteBlock(in, r) /\ r \in G
  BY <1>5, <1>7
<1> HIDE DEF K, G
<1>24. PICK L2, F2 : Rest(s, L2, M, F2, b) /\ Passed(in, s, K, L2, M, G, F2, b) /\ CalmBut(s, L2, {})
  BY <1>5, <1>15, <1>21, <1>22, <1>23, UniteBlock
<1>25. b \in F2 /\ L2 \ F2 = (L \ F) \ {b}
  <2>1. b \in G /\ K \ G = (L \ F) \ {b}
    BY <1>11 DEF K, G, B
  <2> QED
    BY <1>24, <2>1 DEF Passed
<1>26. Kept(h, s, ((L \ F) \ {b}) \cup M) /\ s.hdr[b].size = size /\ s.hdr[b].addr = b + META
  <2>1. b \in G /\ K \ G = (L \ F) \ {b}
    BY <1>11 DEF K, G, B
  <2>2. \A x \in ((L \ F) \ {b}) \cup M \cup {b} :
            s.hdr[x].size = in.hdr[x].size /\ s.hdr[x].addr = in.hdr[x].addr
    BY <1>24, <2>1 DEF Passed
  <2>3. \A x \in ((L \ F) \ {b}) \cup M : x \in B /\ x # b
    BY <1>3, NotInM DEF B
  <2> QED
    BY <1>7, <1>8, <1>19, <2>2, <2>3 DEF Kept
<1> QED
  BY <1>7, <1>24, <1>25, <1>26 DEF SplitOff, s

-----------------------------------------------------------------------------
(* smalloc *)

(* Between calls, L is the list, M the mapped blocks, F the free blocks. *)
Tidy(h, L, M, F) == Rest(h, L, M, F, NULL) /\ CalmBut(h, L, {})
Used(L, M, F) == (L \ F) \cup M

(* A call that allocates: the blocks of U are left to the client, and it   *)
(* gets one more, or it gets none and has all that it had.                 *)
Gets(h, g, L2, M2, F2, U, p, b, size) ==
    /\ p = b + META /\ HandsOut(g, b) /\ b \notin U
    /\ Used(L2, M2, F2) = U \cup {b} /\ Kept(h, g, U)
    /\ g.hdr[b].size >= size
Outcome(h, L, M, F, U, r, size) ==
    r.heap.flaws = {} =>
      \E L2, M2, F2 :
         /\ Tidy(r.heap, L2, M2, F2)
         /\ \/ /\ r.ptr = NULL /\ Used(L2, M2, F2) = Used(L, M, F)
               /\ Kept(h, r.heap, Used(L, M, F))
            \/ \E b : Gets(h, r.heap, L2, M2, F2, U, r.ptr, b, size)

TidyFacts(h, L, M, F) ==
    /\ State(h, L, M, L \cup M, F) /\ Facts(h, L, M, L \cup M, F)
    /\ HeapOK(h, L, M) /\ Headers(h, L \cup M) /\ IsHeap(h) /\ h.flaws = {}
    /\ F \subseteq L /\ NULL \notin L \cup M
    /\ \A x \in L : h.hdr[x].is_free <=> x \in F
    /\ \A x \in L : x \notin M
    /\ \A x \in L \cup M : x \in Nat \ {0} /\ h.hdr[x].size \in Nat
    /\ Neighbouring(h, L)

(* What a heap at rest says, in pieces.                                    *)
LEMMA TidyIs ==
    ASSUME NEW h, NEW L, NEW M, NEW F, Tidy(h, L, M, F)
    PROVE  TidyFacts(h, L, M, F)
<1>1. State(h, L, M, L \cup M, F) /\ F \subseteq L /\ (\A x \in L : h.hdr[x].is_free <=> x \in F /\ x # NULL)
  BY DEF Tidy, Rest
<1>2. Facts(h, L, M, L \cup M, F)
  BY <1>1, StateFacts
<1>3. HeapOK(h, L, M) /\ Headers(h, L \cup M) /\ NULL \notin L \cup M /\ IsHeap(h) /\ h.flaws = {}
  BY <1>2 DEF Facts
<1>4. Neighbouring(h, L) /\ \A x \in L : x \notin M
  BY <1>3, ListLinks, NotInM
<1>5. \A x \in L \cup M : x \in Nat \ {0} /\ h.hdr[x].size \in Nat
  BY <1>3, HeaderIs
<1> QED
  BY <1>1, <1>2, <1>3, <1>4, <1>5 DEF TidyFacts

(* Changes to the histogram make no free neighbours.                       *)
LEMMA SameCalm ==
    ASSUME NEW h, NEW g, NEW L, NEW M, HeapOK(h, L, M), Same(h, g, L \cup M), NEW Z, CalmBut(h, L, Z)
    PROVE  CalmBut(g, L, Z)
<1>1. Neighbouring(h, L)
  BY ListLinks
<1>2. \A x \in L : g.hdr[x].is_free = h.hdr[x].is_free /\ g.hdr[x].next = h.hdr[x].next
  BY DEF Same
<1> QED
  BY <1>1, <1>2 DEF CalmBut, Free, Neighbouring

(* The block in use leaves the histogram. *)
LEMMA Unhist ==
    ASSUME NEW h, NEW L, NEW M, NEW F, NEW b, Rest(h, L, M, F, b), b \in L, CalmBut(h, L, {}),
           NEW g, g = histogramRemove(h, b), g.flaws = {}, NEW G, G = F \ {b}
    PROVE  Tidy(g, L, M, G) /\ Same(h, g, L \cup M)
<1>1. State(h, L, M, L \cup M, F) /\ F \subseteq L /\ (\A x \in L : h.hdr[x].is_free <=> x \in F /\ x # b)
  BY DEF Rest
<1>2. HeapOK(h, L, M) /\ NULL \notin L
  <2>1. Facts(h, L, M, L \cup M, F)
    BY <1>1, StateFacts
  <2> QED
    BY <2>1 DEF Facts
<1>3. b \in L \cup M
  OBVIOUS
<1>4. State(g, L, M, L \cup M, F \ {b}) /\ Same(h, g, L \cup M)
  BY <1>1, <1>3, RemoveState
<1>5. CalmBut(g, L, {})
  BY <1>2, <1>4, SameCalm
<1>6. \A x \in L : g.hdr[x].is_free <=> x \in F \ {b} /\ x # NULL
  BY <1>1, <1>2, <1>4 DEF Same
<1>7. Rest(g, L, M, F \ {b}, NULL)
  BY <1>1, <1>4, <1>6 DEF Rest
<1> QED
  BY <1>4, <1>5, <1>7 DEF Tidy

Trimmed(h, g, L, L2, M, F, F2, b, size) ==
    /\ Tidy(g, L2, M, F2) /\ L2 \ F2 = (L \ F) \cup {b} /\ Kept(h, g, ((L \ F) \{b}) \cup M)
    /\ g.hdr[b].size >= size /\ g.hdr[b].addr = h.hdr[b].addr

(* SplitIfLong and the removal that follows it: b is in use again, and in  *)
(* no bucket.                                                              *)
LEMMA TrimRest ==
    ASSUME NEW h, NEW L, NEW M, NEW F, NEW b, Rest(h, L, M, F, b), b \in L, CalmBut(h, L, {}),
           NEW size, size \in Nat, Aligned(size), h.hdr[b].size >= size,
           NEW g, g = histogramRemove(SplitIfLong(h, b, size), b), g.flaws = {}
    PROVE  \E L2, F2 : Trimmed(h, g, L, L2, M, F, F2, b, size)
<1> DEFINE s == SplitIfLong(h, b, size)
<1>1. IsHeap(h)
  BY DEF Rest, State, HeapOK, Headers
<1>2. b \notin M
  BY NotInM DEF Rest, State
<1>3. CASE LongEnough(h, b, size)
  <2> DEFINE k == splitBlock(h, b, size)
  <2>1. Later(h, k)
    <3>1. PICK f, q, r, c, i, in, m : SplitSteps(h, b, size, f, q, r, c, i, in, m)
      BY <1>1, LaterSplit
    <3> QED
      BY <3>1 DEF SplitSteps
  <2>2. s = k
    BY <1>3 DEF SplitIfLong
  <2>3. k.flaws = {} /\ g = histogramRemove(k, b)
    <3> HIDE DEF k
    <3>1. Later(k, histogramRemove(k, b))
      BY <2>1, LaterRemove DEF Later
    <3> QED
      BY <2>2, <3>1 DEF Later
  <2>4. PICK L2, F2 : SplitOff(h, k, L, L2, M, F, F2, b, size)
    BY <1>3, <2>3, SplitRest
  <2> HIDE DEF k, s
  <2>5. /\ Rest(k, L2, M, F2, b) /\ CalmBut(k, L2, {}) /\ b \in F2
        /\ L2 \ F2 = (L \ F) \ {b} /\ Kept(h, k, ((L \ F) \ {b}) \cup M)
        /\ k.hdr[b].size = size /\ k.hdr[b].addr = h.hdr[b].addr
    BY <2>4 DEF SplitOff
  <2>6. b \in L2
    BY <2>5 DEF Rest
  <2> DEFINE G == F2 \ {b}
  <2>7. Tidy(g, L2, M, G) /\ Same(k, g, L2 \cup M)
    BY <2>3, <2>5, <2>6, Unhist
  <2>8. L2 \ (F2 \ {b}) = (L \ F) \cup {b}
    BY <2>5, <2>6
  <2>9. Kept(h, g, ((L \ F) \{b}) \cup M)
    <3>1. \A x \in ((L \ F) \{b}) \cup M : x \in L2 \cup M
      BY <2>5
    <3> QED
      BY <2>5, <2>7, <3>1 DEF Kept, Same
  <2>10. g.hdr[b].size >= size /\ g.hdr[b].addr = h.hdr[b].addr
    BY <2>5, <2>6, <2>7 DEF Same
  <2> QED
    BY <2>7, <2>8, <2>9, <2>10 DEF Trimmed
<1>4. CASE ~LongEnough(h, b, size)
  <2>1. g = histogramRemove(h, b)
    BY <1>4 DEF SplitIfLong
  <2>2. Tidy(g, L, M, F \ {b}) /\ Same(h, g, L \cup M)
    BY <2>1, Unhist
  <2>3. L \ (F \ {b}) = (L \ F) \cup {b}
    OBVIOUS
  <2>4. Kept(h, g, ((L \ F) \{b}) \cup M)
    BY <2>2 DEF Kept, Same
  <2>5. g.hdr[b].size >= size /\ g.hdr[b].addr = h.hdr[b].addr
    BY <2>2 DEF Same
  <2> QED
    BY <2>2, <2>3, <2>4, <2>5 DEF Trimmed
<1> QED
  BY <1>3, <1>4

(* What HandOut returns, of a sound heap. *)
LEMMA HandOutIs ==
    ASSUME NEW h, IsHeap(h), NEW b, NEW r, r = HandOut(h, b), r.heap.flaws = {}
    PROVE  r.heap = h /\ h.flaws = {} /\ r.ptr = b + META /\ HandsOut(h, b)
<1>1. /\ Later(h, r.heap) /\ r.ptr = h.hdr[b].addr /\ r.heap = h /\ r.ptr = b + META
  BY LaterHandOut
<1> QED
  BY <1>1 DEF HandsOut

(* smalloc, with a block of the histogram.                                 *)
LEMMA TakeOutcome ==
    ASSUME NEW h, NEW L, NEW M, NEW F, Tidy(h, L, M, F), NEW b, b \in F,
           NEW size, size \in Nat, Aligned(size), h.hdr[b].size >= size
    PROVE  Outcome(h, L, M, F, Used(L, M, F), Take(h, b, size), size)
<1> DEFINE k == Mark(h, b, FALSE)
           g == histogramRemove(SplitIfLong(k, b, size), b)
           r == Take(h, b, size)
<1>1. TidyFacts(h, L, M, F)
  BY TidyIs
<1>2. b \in L /\ IsHeap(h)
  BY <1>1 DEF TidyFacts
<1>3. Rest(k, L, M, F, b) /\ Marked(h, k, L \cup M, b, FALSE) /\ CalmBut(k, L, {})
  BY <1>2, MarkRest DEF Tidy
<1>4. r = HandOut(g, b)
  BY DEF Take, Mark
<1> HIDE DEF r, k
<1>5. IsHeap(k)
  BY <1>3 DEF Marked
<1>6. IsHeap(SplitIfLong(k, b, size))
  <2>1. PICK f, q, r1, c, i, in, m : SplitSteps(k, b, size, f, q, r1, c, i, in, m)
    BY <1>5, LaterSplit
  <2>2. IsHeap(splitBlock(k, b, size))
    BY <2>1 DEF SplitSteps, Later
  <2> QED
    BY <1>5, <2>2 DEF SplitIfLong
<1>7. IsHeap(g)
  BY <1>6, LaterRemove DEF Later
<1> SUFFICES ASSUME r.heap.flaws = {}
             PROVE  \E L2, M2, F2 : Tidy(r.heap, L2, M2, F2)
                       /\ \E b1 : Gets(h, r.heap, L2, M2, F2, Used(L, M, F), r.ptr, b1, size)
  BY DEF Outcome, r
<1>8. k.hdr[b].size >= size
  BY <1>2, <1>3 DEF Marked
<1>9. g = histogramRemove(SplitIfLong(k, b, size), b)
  OBVIOUS
<1> HIDE DEF g
<1>10. r.heap = g /\ g.flaws = {} /\ r.ptr = b + META /\ HandsOut(g, b)
  BY <1>4, <1>7, HandOutIs
<1>11. PICK L2, F2 : Trimmed(k, g, L, L2, M, F, F2, b, size)
  BY <1>2, <1>3, <1>8, <1>9, <1>10, TrimRest
<1>12. b \notin Used(L, M, F)
  BY <1>1, <1>2 DEF Used, TidyFacts
<1>13. Used(L2, M, F2) = Used(L, M, F) \cup {b}
  BY <1>11 DEF Trimmed, Used
<1>14. Kept(h, g, Used(L, M, F))
  <2>1. (L \ F) \{b} = L \ F
    OBVIOUS
  <2>2. Kept(k, g, Used(L, M, F))
    BY <1>11, <2>1 DEF Trimmed, Used
  <2> QED
    BY <1>3, <2>2 DEF Marked, Kept, Used
<1>15. Gets(h, g, L2, M, F2, Used(L, M, F), r.ptr, b, size)
  BY <1>10, <1>11, <1>12, <1>13, <1>14 DEF Gets, Trimmed
<1>16. Tidy(g, L2, M, F2)
  BY <1>11 DEF Trimmed
<1> QED
  BY <1>10, <1>15, <1>16

-----------------------------------------------------------------------------
(* What walks along next find. *)
ListsOf(h, L, M) ==
    /\ Chain(h, h.metadata, "next") = L /\ Chain(h, h.mmap_list, "next") = M
    /\ h.metadata = NULL <=> L = {}
    /\ h.mmap_list = NULL <=> M = {}
    /\ h.metadata # NULL => LET l == Last(h, h.metadata, "next") IN l \in L /\ h.hdr[l].next = NULL
    /\ h.mmap_list # NULL => LET l == Last(h, h.mmap_list, "next") IN l \in M /\ h.hdr[l].next = NULL

(* The lists and their ends, as the code finds them.                       *)
LEMMA ListsAre ==
    ASSUME NEW h, NEW L, NEW M, HeapOK(h, L, M)
    PROVE  ListsOf(h, L, M)
<1>1. /\ Linked(L, h.metadata, nexts(h), prevs(h)) /\ Linked(M, h.mmap_list, nexts(h), prevs(h))
      /\ L \subseteq DOMAIN h.hdr /\ M \subseteq DOMAIN h.hdr /\ NULL \notin DOMAIN h.hdr
      /\ IsFiniteSet(M) /\ L \subseteq 1..Limit
  BY DEF HeapOK, Headers, Mappings
<1>2. IsFiniteSet(L)
  BY <1>1, Constants, UpTo, FS_Subset
<1>3. \A x \in DOMAIN h.hdr : nexts(h)[x] = h.hdr[x]["next"]
  BY DEF nexts
<1>4. Reads(h, "next", L, h.metadata, nexts(h), prevs(h))
  BY <1>1, <1>2, <1>3 DEF Reads
<1>5. Reads(h, "next", M, h.mmap_list, nexts(h), prevs(h))
  BY <1>1, <1>3 DEF Reads
<1>6. /\ Chain(h, h.metadata, "next") = L
      /\ L # {} => Last(h, h.metadata, "next") \in L /\ nexts(h)[Last(h, h.metadata, "next")] = NULL
  BY <1>4, ListOf
<1>7. /\ Chain(h, h.mmap_list, "next") = M
      /\ M # {} => Last(h, h.mmap_list, "next") \in M /\ nexts(h)[Last(h, h.mmap_list, "next")] = NULL
  BY <1>5, ListOf
<1>8. NULL \notin L /\ NULL \notin M
  BY <1>1
<1>9. h.metadata = NULL <=> L = {}
  <2>1. h.metadata \in L \cup {NULL}
    BY <1>1 DEF Linked
  <2>2. h.metadata = NULL => L = {}
    BY <1>1, <1>8, LinkedNone
  <2> QED
    BY <2>1, <2>2
<1>10. h.mmap_list = NULL <=> M = {}
  <2>1. h.mmap_list \in M \cup {NULL}
    BY <1>1 DEF Linked
  <2>2. h.mmap_list = NULL => M = {}
    BY <1>1, <1>8, LinkedNone
  <2> QED
    BY <2>1, <2>2
<1>11. \A x \in DOMAIN h.hdr : nexts(h)[x] = h.hdr[x].next
  BY DEF nexts
<1> QED
  BY <1>1, <1>6, <1>7, <1>9, <1>10, <1>11 DEF ListsOf

(* Block b has been written behind block last, or as the first one. *)
Added(h, g, B, b, last, size) ==
    /\ IsHeap(g) /\ DOMAIN g.hdr = DOMAIN h.hdr \cup {b} /\ g.flaws = h.flaws
    /\ g.metadata = h.metadata /\ g.mmap_list = h.mmap_list /\ g.histogram = h.histogram
    /\ g.brk = h.brk /\ g.lost = h.lost /\ g.uninit = h.uninit
    /\ \A x \in B :
         /\ g.hdr[x] \in MallocMetadata
         /\ g.hdr[x].is_free = h.hdr[x].is_free /\ g.hdr[x].addr = h.hdr[x].addr
         /\ g.hdr[x].hist_next = h.hdr[x].hist_next /\ g.hdr[x].hist_prev = h.hdr[x].hist_prev
         /\ g.hdr[x].size = h.hdr[x].size /\ g.hdr[x].prev = h.hdr[x].prev
         /\ g.hdr[x].next = IF x = last THEN b ELSE h.hdr[x].next
    /\ g.hdr[b] \in MallocMetadata /\ ~g.hdr[b].is_free
    /\ g.hdr[b].size = size /\ g.hdr[b].addr = b + META
    /\ g.hdr[b].next = NULL /\ g.hdr[b].prev = last
    /\ g.hdr[b].hist_next = NULL /\ g.hdr[b].hist_prev = NULL

(* What AddLast changes, ...                                               *)
LEMMA AddIs ==
    ASSUME NEW h, NEW B, Headers(h, B), NEW b, b \in Nat \ {0}, b \notin B, NEW size, size \in Nat,
           NEW first, NEW last, last = IF first = NULL THEN NULL ELSE Last(h, first, "next"),
           last \in B \cup {NULL}
    PROVE  Added(h, AddLast(h, first, b, size), B, b, last, size)
<1> DEFINE header == Header(size, b + META, last)
           w == Write(h.hdr, b, header)
           g == [h EXCEPT !.hdr = w]
           k == IF last = NULL THEN g ELSE [g EXCEPT !.hdr[last].next = b]
<1>1. AddLast(h, first, b, size) = k
  BY DEF AddLast
<1>2. /\ IsHeap(h) /\ B \subseteq DOMAIN h.hdr /\ META \in Nat /\ NULL \notin B /\ NULL = 0
      /\ \A x \in B : x \in Nat /\ h.hdr[x] \in MallocMetadata
      /\ last \in Nat
  BY Constants DEF Headers
<1>3. /\ header \in MallocMetadata /\ ~header.is_free
      /\ header.size = size /\ header.addr = b + META
      /\ header.next = NULL /\ header.prev = last
      /\ header.hist_next = NULL /\ header.hist_prev = NULL
  BY <1>2 DEF MallocMetadata, Pointer, Header
<1> HIDE DEF header
<1>4. DOMAIN w = DOMAIN h.hdr \cup {b} /\ w[b] = header /\ \A x \in B : w[x] = h.hdr[x]
  BY <1>2 DEF Write
<1> HIDE DEF w
<1>5. /\ IsHeap(g) /\ g.hdr = w /\ g.flaws = h.flaws
      /\ g.metadata = h.metadata /\ g.mmap_list = h.mmap_list /\ g.histogram = h.histogram
      /\ g.brk = h.brk /\ g.lost = h.lost /\ g.uninit = h.uninit
  BY <1>2 DEF IsHeap, Fields
<1> HIDE DEF g
<1>6. CASE last = NULL
  BY <1>1, <1>2, <1>3, <1>4, <1>5, <1>6 DEF Added
<1>7. CASE last # NULL
  <2> DEFINE m == [g EXCEPT !.hdr[last].next = b]
  <2>0. last \in B /\ last # b
    BY <1>7
  <2>1. /\ IsHeap(m) /\ DOMAIN m.hdr = DOMAIN g.hdr /\ m.flaws = g.flaws
        /\ m.metadata = g.metadata /\ m.mmap_list = g.mmap_list /\ m.histogram = g.histogram
        /\ m.brk = g.brk /\ m.lost = g.lost /\ m.uninit = g.uninit
        /\ m.hdr[b] = g.hdr[b]
    BY <1>2, <1>4, <1>5, <2>0 DEF IsHeap, Fields
  <2>2. \A x \in B :
         /\ m.hdr[x] \in MallocMetadata
         /\ m.hdr[x].is_free = h.hdr[x].is_free /\ m.hdr[x].addr = h.hdr[x].addr
         /\ m.hdr[x].hist_next = h.hdr[x].hist_next /\ m.hdr[x].hist_prev = h.hdr[x].hist_prev
         /\ m.hdr[x].size = h.hdr[x].size /\ m.hdr[x].prev = h.hdr[x].prev
         /\ m.hdr[x].next = IF x = last THEN b ELSE h.hdr[x].next
    BY <1>2, <1>4, <1>5, <2>0 DEF IsHeap, Fields, MallocMetadata
  <2>3. k = m
    BY <1>7
  <2> HIDE DEF m, k
  <2> QED
    BY <1>1, <1>3, <1>4, <1>5, <2>1, <2>2, <2>3 DEF Added
<1> QED
  BY <1>6, <1>7

(* Fields that the list does not depend on. *)
Moved(g, k, brk, lost, metadata, mmap_list) ==
    /\ IsHeap(k) /\ k.hdr = g.hdr /\ k.histogram = g.histogram
    /\ k.uninit = g.uninit /\ k.flaws = g.flaws
    /\ k.brk = brk /\ k.lost = lost /\ k.metadata = metadata /\ k.mmap_list = mmap_list

(* The histogram does not change with a new block in use. *)
LEMMA AddHist ==
    ASSUME NEW h, NEW L, NEW M, NEW N, NEW F, State(h, L, M, N, F), NEW b, b \notin L \cup M,
           NEW g, NEW last, NEW size, Added(h, g, L \cup M, b, last, size),
           NEW k, k.hdr = g.hdr, k.histogram = g.histogram
    PROVE  HistOK(k, N \cup {b}, F)
<1>1. Facts(h, L, M, N, F)
  BY StateFacts
<1>2. /\ HistOK(h, N, F) /\ F \subseteq N /\ N \subseteq L \cup M /\ L \cup M \subseteq DOMAIN h.hdr
  BY <1>1 DEF Facts
<1>3. \A x \in F : h.hdr[x].hist_next \in F \cup {NULL}
  BY HistLinks
<1>4. \A x \in N \ F : h.hdr[x].hist_next = NULL /\ h.hdr[x].hist_prev = NULL
  BY <1>2 DEF HistOK
<1>5. DOMAIN k.hdr = DOMAIN h.hdr \cup {b} /\ k.histogram = h.histogram
  BY DEF Added
<1>6. HistSame(h, k, N \cup {b}, F)
  BY <1>2, <1>3, <1>4, <1>5 DEF HistSame, Added
<1> QED
  BY <1>2, <1>6, HistKept

(* Of the list B, which last may be the last one of. *)
AddedTo(h, k, B, b, last) ==
    /\ B \subseteq DOMAIN h.hdr /\ NULL \notin B /\ b \notin B /\ b # NULL
    /\ DOMAIN k.hdr = DOMAIN h.hdr \cup {b}
    /\ \A x \in B : /\ k.hdr[x].next = IF x = last THEN b ELSE h.hdr[x].next
                    /\ k.hdr[x].prev = h.hdr[x].prev
    /\ k.hdr[b].next = NULL /\ k.hdr[b].prev = last

LastOf(h, B, first, last) ==
    \/ last \in B /\ h.hdr[last].next = NULL /\ first # NULL
    \/ last = NULL /\ first = NULL

(* ... for a list that it does not extend...                               *)
LEMMA AddElsewhere ==
    ASSUME NEW h, NEW k, NEW B, NEW b, NEW last, AddedTo(h, k, B, b, last), last \notin B,
           NEW first, Linked(B, first, nexts(h), prevs(h))
    PROVE  Linked(B, first, nexts(k), prevs(k))
<1>1. \A x \in B : nexts(k)[x] = nexts(h)[x] /\ prevs(k)[x] = prevs(h)[x]
  BY DEF AddedTo, nexts, prevs
<1> QED
  BY <1>1, LinkedSame

(* ... and for the one that it does.                                       *)
LEMMA AddBehind ==
    ASSUME NEW h, NEW k, NEW B, NEW b, NEW last, AddedTo(h, k, B, b, last),
           NEW first, Linked(B, first, nexts(h), prevs(h)), LastOf(h, B, first, last),
           NEW first2, first2 = IF first = NULL THEN b ELSE first
    PROVE  Linked(B \cup {b}, first2, nexts(k), prevs(k))
<1>1. NULL \notin B /\ b \notin B /\ b # NULL
  BY DEF AddedTo
<1>2. \A x \in B : nexts(h)[x] = h.hdr[x].next /\ prevs(h)[x] = h.hdr[x].prev
  BY DEF nexts, prevs, AddedTo
<1>3. nexts(k)[b] = NULL /\ prevs(k)[b] = last
  BY DEF nexts, prevs, AddedTo
<1>4. \A x \in B : nexts(k)[x] = (IF x = last THEN b ELSE nexts(h)[x]) /\ prevs(k)[x] = prevs(h)[x]
  BY DEF AddedTo, nexts, prevs
<1>5. last = NULL <=> first = NULL
  BY <1>1 DEF LastOf
<1>6. Neighbours(B, last, NULL, first, nexts(h), prevs(h))
  <2>1. last = NULL => B = {}
    BY <1>1, <1>5, LinkedNone
  <2> QED
    BY <1>1, <1>2, <1>5, <2>1 DEF Neighbours, LastOf
<1>7. PutIn(B, b, last, NULL, first, nexts(h), prevs(h), first2, nexts(k), prevs(k))
  BY <1>1, <1>3, <1>4, <1>5 DEF PutIn
<1> QED
  BY <1>1, <1>6, <1>7, LinkedInsert

-----------------------------------------------------------------------------
(* A block at the break is none of the list, and none of the mapped ones. *)
LEMMA FreshBreak ==
    ASSUME NEW h, NEW L, NEW M, HeapOK(h, L, M), h.brk <= Limit
    PROVE  h.brk \notin L \cup M /\ h.brk \in Nat \ {0}
<1>1. Apart(h, L) /\ Mappings(h, M) /\ Headers(h, L \cup M) /\ h.brk \in Nat \ {0}
  BY Constants DEF HeapOK
<1>2. ASSUME h.brk \in L PROVE FALSE
  <2>1. h.brk + META + h.hdr[h.brk].size <= h.brk
    BY <1>1, <1>2 DEF Apart
  <2>2. h.hdr[h.brk].size \in Nat
    BY <1>1, <1>2, HeaderIs
  <2> QED
    BY <1>1, <2>1, <2>2, Constants
<1>3. ASSUME h.brk \in M PROVE FALSE
  <2>1. PICK j \in 0..(Cardinality(M) - 1) : h.brk = Limit + 1 + j * (META + MAX_SIZE)
    BY <1>1, <1>3 DEF Mappings
  <2>2. j * (META + MAX_SIZE) \in Nat
    BY Constants
  <2> QED
    BY <1>1, <2>1, <2>2, Constants
<1> QED
  BY <1>1, <1>2, <1>3

(* A new block at the break. *)
LEMMA NewBlockState ==
    ASSUME NEW h, NEW L, NEW M, NEW F, State(h, L, M, L \cup M, F),
           NEW b, b = h.brk, NEW size, size \in Nat, Aligned(size), NEW brk, brk = Behind(b, size),
           brk <= Limit + 1,
           NEW g, NEW last, Added(h, g, L \cup M, b, last, size),
           LastOf(h, L, h.metadata, last),
           NEW first, first = IF h.metadata = NULL THEN b ELSE h.metadata,
           NEW k, Moved(g, k, brk, h.lost, first, h.mmap_list),
           NEW Z, Z = L \cup {b}
    PROVE  State(k, Z, M, Z \cup M, F)
<1> DEFINE B == L \cup M
           K == L \cup {b}
<1>0. /\ h.metadata = NULL => last = NULL
      /\ h.metadata # NULL => last \in L /\ h.hdr[last].next = NULL
  BY DEF LastOf
<1>1. Facts(h, L, M, B, F)
  BY StateFacts
<1>2. /\ HeapOK(h, L, M) /\ HistOK(h, B, F) /\ Headers(h, B) /\ F \subseteq B
      /\ NULL \notin B /\ B \subseteq DOMAIN h.hdr /\ IsFiniteSet(L) /\ B \subseteq Nat \ {0}
      /\ NULL \notin DOMAIN h.hdr
  BY <1>1 DEF Facts
<1>3. /\ Linked(L, h.metadata, nexts(h), prevs(h)) /\ Linked(M, h.mmap_list, nexts(h), prevs(h))
      /\ Apart(h, L) /\ Mappings(h, M) /\ Accounted(h, L) /\ Multiples(h, L) /\ h.flaws = {}
      /\ h.brk \in Base..(Limit + 1) /\ h.lost \in Nat /\ h.uninit \in {NULL, Junk} /\ IsHeap(h)
      /\ L \subseteq 1..Limit
  BY <1>2 DEF HeapOK, Headers
<1>4. \A x \in B : h.hdr[x].size \in Nat /\ h.hdr[x].next \in Nat
  BY <1>2, HeaderIs
<1>5. b \in Nat \ {0} /\ b <= Limit /\ brk = b + META + size /\ brk \in Nat /\ brk > b
  BY <1>3, Constants DEF Behind
<1>6. b \notin B /\ b # NULL
  BY <1>2, <1>5, FreshBreak, Constants
<1>9. b \notin L
  BY <1>6
<1>10. /\ Added(h, g, B, b, last, size) /\ IsHeap(k) /\ k.hdr = g.hdr /\ k.histogram = g.histogram
       /\ k.uninit = h.uninit /\ k.flaws = {} /\ k.brk = brk /\ k.lost = h.lost
       /\ k.metadata = (IF h.metadata = NULL THEN b ELSE h.metadata) /\ k.mmap_list = h.mmap_list
  BY <1>3 DEF Moved, Added
<1> HIDE DEF B
<1>11. /\ DOMAIN k.hdr = DOMAIN h.hdr \cup {b}
       /\ \A x \in B : /\ k.hdr[x] \in MallocMetadata /\ k.hdr[x].is_free = h.hdr[x].is_free
                       /\ k.hdr[x].addr = h.hdr[x].addr /\ k.hdr[x].size = h.hdr[x].size
                       /\ k.hdr[x].next = IF x = last THEN b ELSE h.hdr[x].next
       /\ k.hdr[b] \in MallocMetadata /\ ~k.hdr[b].is_free
       /\ k.hdr[b].size = size /\ k.hdr[b].addr = b + META /\ k.hdr[b].next = NULL
  BY <1>10 DEF Added
<1>12. Headers(k, K \cup M)
  <2>1. \A x \in B : k.hdr[x].addr >= x + META
    BY <1>2, <1>11 DEF Headers
  <2>2. k.hdr[b].addr >= b + META
    BY <1>5, <1>11, Constants
  <2>3. K \cup M = B \cup {b}
    BY DEF B
  <2> HIDE DEF K
  <2> QED
    BY <1>2, <1>5, <1>6, <1>10, <1>11, <2>1, <2>2, <2>3 DEF Headers
<1>13. last \notin M
  <2>1. \A x \in L : x \notin M
    BY <1>2, NotInM
  <2> QED
    BY <1>0, <1>2, <2>1 DEF B
<1>14. Linked(M, k.mmap_list, nexts(k), prevs(k))
  <2>1. AddedTo(h, k, M, b, last)
    BY <1>2, <1>6, <1>10 DEF AddedTo, Added, B
  <2>2. Linked(M, h.mmap_list, nexts(k), prevs(k))
    BY <1>3, <1>13, <2>1, AddElsewhere
  <2> QED
    BY <1>10, <2>2
<1>15. Linked(K, k.metadata, nexts(k), prevs(k))
  <2>1. AddedTo(h, k, L, b, last)
    BY <1>2, <1>6, <1>10 DEF AddedTo, Added, B
  <2>2. LastOf(h, L, h.metadata, last)
    BY DEF LastOf
  <2>3. Linked(L \cup {b}, k.metadata, nexts(k), prevs(k))
    BY <1>3, <1>10, <2>1, <2>2, AddBehind
  <2> QED
    BY <2>3
<1>16. Apart(k, K)
  <2>1. Apart(h, L)
    BY <1>3
  <2>2. \A x \in L : x + META + h.hdr[x].size <= b /\ x < b
    <3>1. \A x \in L : x \in Nat /\ h.hdr[x].size \in Nat /\ x + META + h.hdr[x].size <= b
      BY <1>2, <1>4, <2>1 DEF Apart, B
    <3> QED
      BY <1>5, <3>1, Constants
  <2>3. ASSUME NEW x, x \in L, x # last PROVE h.hdr[x].next # NULL /\ h.hdr[x].next <= b
    <3>1. last \in L /\ h.hdr[last].next = NULL
      BY <1>2, <1>3, <2>3, LinkedNone, <1>0 DEF B
    <3>2. x < last
      BY <1>2, <2>1, <2>3, <3>1 DEF Apart, B
    <3>3. h.hdr[x].next # NULL /\ h.hdr[x].next <= last /\ last < b
      BY <2>1, <2>2, <2>3, <3>1, <3>2 DEF Apart
    <3>4. h.hdr[x].next \in Nat /\ last \in Nat
      BY <1>2, <1>4, <2>3, <3>1 DEF B
    <3> QED
      BY <1>5, <3>3, <3>4
  <2>4. ASSUME NEW x, x \in L
        PROVE  /\ x + META + k.hdr[x].size <= k.brk
               /\ k.hdr[x].next # NULL => x + META + k.hdr[x].size <= k.hdr[x].next
               /\ \A y \in K : x < y => k.hdr[x].next # NULL /\ k.hdr[x].next <= y
    <3>1. k.hdr[x].size = h.hdr[x].size /\ k.hdr[x].next = (IF x = last THEN b ELSE h.hdr[x].next)
          /\ x \in Nat /\ h.hdr[x].size \in Nat
      BY <1>2, <1>4, <1>11, <2>4 DEF B
    <3>2. CASE x = last
      <4>1. h.hdr[x].next = NULL
        BY <1>0, <1>2, <2>4, <3>2 DEF B
      <4>2. \A y \in L : ~(x < y)
        BY <2>1, <2>4, <4>1 DEF Apart
      <4> QED
        BY <1>5, <1>6, <1>10, <2>2, <2>4, <3>1, <3>2, <4>2, Constants
    <3>3. CASE x # last
      <4>1. /\ h.hdr[x].next # NULL => x + META + h.hdr[x].size <= h.hdr[x].next
            /\ \A y \in L : x < y => h.hdr[x].next # NULL /\ h.hdr[x].next <= y
        BY <2>1, <2>4 DEF Apart
      <4> QED
        BY <1>5, <1>10, <2>2, <2>3, <2>4, <3>1, <3>3, <4>1, Constants
    <3> QED
      BY <3>2, <3>3
  <2>5. /\ b + META + k.hdr[b].size <= k.brk /\ k.hdr[b].next = NULL
        /\ \A y \in K : ~(b < y)
    <3>1. \A y \in L : ~(b < y)
      BY <1>2, <1>5, <2>2 DEF B
    <3> QED
      BY <1>5, <1>10, <1>11, <3>1
  <2> QED
    BY <2>4, <2>5 DEF Apart
<1>17. Mappings(k, M)
  BY <1>3, <1>11 DEF Mappings, B
<1>18. Accounted(k, K)
  <2>1. \A x \in L : spans(h)[x] = META + h.hdr[x].size /\ spans(k)[x] = META + k.hdr[x].size
    BY <1>2, <1>11 DEF spans, B
  <2>2. spans(k)[b] = META + size
    BY <1>11 DEF spans
  <2>3. \A x \in L : spans(k)[x] = spans(h)[x] /\ spans(h)[x] \in Nat
    BY <1>4, <1>11, <2>1, Constants DEF B
  <2>4. \A x \in L \cup {b} : spans(k)[x] \in Nat
    BY <2>2, <2>3, Constants
  <2>5. Total(spans(h), L) = Total(spans(k), L)
    BY <1>2, <2>3, TotalSame
  <2>6. Total(spans(k), L \cup {b}) = spans(k)[b] + Total(spans(k), L)
    BY <1>2, <1>9, <2>4, TotalAdd
  <2>7. Total(spans(h), L) \in Nat
    BY <1>2, <2>3, TotalNat
  <2>8. Base + Total(spans(h), L) + h.lost = b
    BY <1>3 DEF Accounted
  <2>9. Base + Total(spans(k), L \cup {b}) + h.lost = b + META + size
    BY <1>3, <2>2, <2>5, <2>6, <2>7, <2>8, Constants
  <2> QED
    BY <1>5, <1>10, <2>9 DEF Accounted
<1>19. Multiples(k, K)
  <2>1. align \in Nat \ {0} /\ META % align = 0 /\ b % align = 0 /\ size % align = 0
    BY <1>3, MallocAssumption DEF Multiples, MallocAssumption, Aligned
  <2>2. META \in Nat /\ b + META \in Nat
    BY <1>5, Constants
  <2>3. (b + META) % align = 0
    BY <1>5, <2>1, <2>2, MultipleSum
  <2>4. (b + META + size) % align = 0
    BY <2>1, <2>2, <2>3, MultipleSum
  <2>5. \A x \in L : x % align = 0 /\ k.hdr[x].size % align = 0
    <3>1. \A x \in L : k.hdr[x].size = h.hdr[x].size
      BY <1>11 DEF B
    <3> QED
      BY <1>3, <3>1 DEF Multiples
  <2>6. k.hdr[b].size % align = 0 /\ k.brk % align = 0
    BY <1>5, <1>10, <1>11, <2>1, <2>4
  <2> QED
    BY <1>3, <2>1, <2>5, <2>6 DEF Multiples
<1>20. HeapOK(k, K, M)
  <2>1. K \subseteq 1..Limit
    <3>1. b \in 1..Limit
      BY <1>5, Constants
    <3> QED
      BY <1>3, <3>1
  <2>2. k.brk \in Base..(Limit + 1)
    BY <1>3, <1>5, <1>10, Constants
  <2> QED
    BY <1>3, <1>10, <1>12, <1>14, <1>15, <1>16, <1>17, <1>18, <1>19, <2>1, <2>2 DEF HeapOK
<1>21. HistOK(k, B \cup {b}, F)
  BY <1>6, <1>10, AddHist DEF B
<1>22. B \cup {b} = K \cup M
  BY DEF B
<1>24. Z = K
  OBVIOUS
<1> HIDE DEF K
<1>23. State(k, K, M, K \cup M, F)
  BY <1>20, <1>21, <1>22 DEF State
<1> QED
  BY <1>23, <1>24

-----------------------------------------------------------------------------
LEMMA ProductLess ==
    ASSUME NEW n, n \in Nat, NEW k, k \in 0..(n - 1), NEW c, c \in Nat \ {0}
    PROVE  k * c # n * c /\ k * c \in Nat /\ n * c \in Nat
<1>1. n - k \in Nat \ {0} /\ k \in Nat
  OBVIOUS
<1>2. n * c = k * c + (n - k) * c /\ (n - k) * c > 0 /\ k * c \in Nat /\ n * c \in Nat
  BY <1>1
<1> QED
  BY <1>2

(* A new mapping is none of the blocks there are. *)
LEMMA FreshMap ==
    ASSUME NEW h, NEW L, NEW M, HeapOK(h, L, M),
           NEW b, b = Limit + 1 + Cardinality(M) * (META + MAX_SIZE)
    PROVE  b \notin L \cup M /\ b \in Nat \ {0}
<1>3. Mappings(h, M) /\ L \subseteq 1..Limit
  BY DEF HeapOK
<1>4. IsFiniteSet(M) /\ Cardinality(M) \in Nat
  BY <1>3, FS_CardinalityType DEF Mappings
<1> DEFINE c == META + MAX_SIZE
           n == Cardinality(M)
<1>5. c \in Nat \ {0} /\ n \in Nat
  BY <1>4, Constants
<1>6. b = Limit + 1 + n * c
  OBVIOUS
<1>7. \A x \in M : \E j \in 0..(n - 1) : x = Limit + 1 + j * c
  BY <1>3 DEF Mappings
<1> HIDE DEF c, n
<1>8. n * c \in Nat
  BY <1>5
<1>9. b \in Nat /\ b > Limit /\ b # 0
  BY <1>6, <1>8, Constants
<1>10. b \notin M
  <2> SUFFICES ASSUME b \in M PROVE FALSE
    OBVIOUS
  <2>1. PICK j \in 0..(n - 1) : b = Limit + 1 + j * c
    BY <1>7
  <2>2. j * c # n * c /\ j * c \in Nat
    BY <1>5, ProductLess
  <2> QED
    BY <1>6, <1>8, <2>1, <2>2, Constants
<1>11. b \notin L
  BY <1>3, <1>9, Constants
<1> QED
  BY <1>9, <1>10, <1>11

(* A new mapped block, behind the others. *)
LEMMA MapState ==
    ASSUME NEW h, NEW L, NEW M, NEW F, State(h, L, M, L \cup M, F),
           NEW b, b = Limit + 1 + Cardinality(M) * (META + MAX_SIZE),
           NEW size, size \in Nat, size >= MAP_MIN,
           NEW g, NEW last, Added(h, g, L \cup M, b, last, size),
           h.mmap_list = NULL => last = NULL,
           h.mmap_list # NULL => last \in M /\ h.hdr[last].next = NULL,
           NEW k, Moved(g, k, h.brk, h.lost, h.metadata, IF h.mmap_list = NULL THEN b ELSE h.mmap_list)
    PROVE  b \notin L \cup M /\ State(k, L, M \cup {b}, L \cup (M \cup {b}), F)
<1> DEFINE B == L \cup M
           K == M \cup {b}
<1>1. Facts(h, L, M, B, F)
  BY StateFacts
<1>2. /\ HeapOK(h, L, M) /\ HistOK(h, B, F) /\ Headers(h, B) /\ F \subseteq B
      /\ NULL \notin B /\ B \subseteq DOMAIN h.hdr /\ IsFiniteSet(L) /\ B \subseteq Nat \ {0}
      /\ NULL \notin DOMAIN h.hdr
  BY <1>1 DEF Facts
<1>3. /\ Linked(L, h.metadata, nexts(h), prevs(h)) /\ Linked(M, h.mmap_list, nexts(h), prevs(h))
      /\ Apart(h, L) /\ Mappings(h, M) /\ Accounted(h, L) /\ Multiples(h, L) /\ h.flaws = {}
      /\ h.brk \in Base..(Limit + 1) /\ h.lost \in Nat /\ h.uninit \in {NULL, Junk} /\ IsHeap(h)
      /\ L \subseteq 1..Limit
  BY <1>2 DEF HeapOK, Headers
<1>4. IsFiniteSet(M) /\ Cardinality(M) \in Nat
  BY <1>3, FS_CardinalityType DEF Mappings
<1> DEFINE c == META + MAX_SIZE
           n == Cardinality(M)
<1>5. c \in Nat \ {0} /\ n \in Nat
  BY <1>4, Constants
<1>6. b = Limit + 1 + n * c
  OBVIOUS
<1>7. \A x \in M : \E j \in 0..(n - 1) : x = Limit + 1 + j * c
  BY <1>3 DEF Mappings
<1> HIDE DEF c, n
<1>9. b \in Nat /\ b # 0 /\ b \notin B
  BY <1>2, FreshMap
<1>12. b \notin B /\ b # NULL /\ b \notin M
  BY <1>9, Constants
<1>13. /\ Added(h, g, B, b, last, size) /\ IsHeap(k) /\ k.hdr = g.hdr /\ k.histogram = g.histogram
       /\ k.uninit = h.uninit /\ k.flaws = {} /\ k.brk = h.brk /\ k.lost = h.lost
       /\ k.mmap_list = (IF h.mmap_list = NULL THEN b ELSE h.mmap_list) /\ k.metadata = h.metadata
  BY <1>3 DEF Moved, Added
<1> HIDE DEF B
<1>14. /\ DOMAIN k.hdr = DOMAIN h.hdr \cup {b}
       /\ \A x \in B : /\ k.hdr[x] \in MallocMetadata /\ k.hdr[x].is_free = h.hdr[x].is_free
                       /\ k.hdr[x].addr = h.hdr[x].addr /\ k.hdr[x].size = h.hdr[x].size
                       /\ k.hdr[x].next = IF x = last THEN b ELSE h.hdr[x].next
       /\ k.hdr[b] \in MallocMetadata /\ ~k.hdr[b].is_free
       /\ k.hdr[b].size = size /\ k.hdr[b].addr = b + META /\ k.hdr[b].next = NULL
  BY <1>13 DEF Added
<1>15. Headers(k, L \cup K)
  <2>1. \A x \in B : k.hdr[x].addr >= x + META
    BY <1>2, <1>14 DEF Headers
  <2>2. k.hdr[b].addr >= b + META
    BY <1>9, <1>14, Constants
  <2>3. L \cup K = B \cup {b}
    BY DEF B
  <2>4. b \in Nat \ {0}
    BY <1>9
  <2> HIDE DEF K
  <2> QED
    BY <1>2, <1>12, <1>13, <1>14, <2>1, <2>2, <2>3, <2>4 DEF Headers
<1>16. last \notin L
  <2>1. \A x \in L : x \notin M
    BY <1>2, NotInM
  <2> QED
    BY <1>2, <2>1 DEF B
<1>17. Linked(L, k.metadata, nexts(k), prevs(k))
  <2>1. AddedTo(h, k, L, b, last)
    BY <1>2, <1>12, <1>13 DEF AddedTo, Added, B
  <2>2. Linked(L, h.metadata, nexts(k), prevs(k))
    BY <1>3, <1>16, <2>1, AddElsewhere
  <2> QED
    BY <1>13, <2>2
<1>18. Linked(K, k.mmap_list, nexts(k), prevs(k))
  <2>1. AddedTo(h, k, M, b, last)
    BY <1>2, <1>12, <1>13 DEF AddedTo, Added, B
  <2>2. LastOf(h, M, h.mmap_list, last)
    BY DEF LastOf
  <2>3. Linked(M \cup {b}, k.mmap_list, nexts(k), prevs(k))
    BY <1>3, <1>13, <2>1, <2>2, AddBehind
  <2> QED
    BY <2>3
<1>19. \A x \in L : k.hdr[x].size = h.hdr[x].size /\ k.hdr[x].next = h.hdr[x].next
  BY <1>14, <1>16 DEF B
<1>20. Apart(k, L)
  BY <1>3, <1>13, <1>19 DEF Apart
<1>21. Mappings(k, K)
  <2>1. IsFiniteSet(K) /\ Cardinality(K) = n + 1
    BY <1>4, <1>12, FS_AddElement DEF n
  <2>2. \A x \in M : ~k.hdr[x].is_free /\ k.hdr[x].size >= MAP_MIN
    BY <1>3, <1>14 DEF Mappings, B
  <2>3. \A x \in M : \E j \in 0..(Cardinality(K) - 1) : x = Limit + 1 + j * (META + MAX_SIZE)
    <3> SUFFICES ASSUME NEW x \in M
                 PROVE  \E j \in 0..(Cardinality(K) - 1) : x = Limit + 1 + j * (META + MAX_SIZE)
      OBVIOUS
    <3>1. PICK j \in 0..(n - 1) : x = Limit + 1 + j * c
      BY <1>7
    <3>2. j \in 0..(Cardinality(K) - 1)
      BY <1>5, <2>1
    <3> QED
      BY <3>1, <3>2 DEF c
  <2>4. \E j \in 0..(Cardinality(K) - 1) : b = Limit + 1 + j * (META + MAX_SIZE)
    <3>1. n \in 0..(Cardinality(K) - 1)
      BY <1>5, <2>1
    <3> QED
      BY <1>6, <3>1 DEF c
  <2>5. ~k.hdr[b].is_free /\ k.hdr[b].size >= MAP_MIN
    BY <1>14
  <2>6. \A x \in K : x \in M \/ x = b
    OBVIOUS
  <2> HIDE DEF K
  <2> QED
    BY <2>1, <2>2, <2>3, <2>4, <2>5, <2>6 DEF Mappings
<1>22. Accounted(k, L)
  <2>1. \A x \in L : spans(k)[x] = spans(h)[x]
    BY <1>2, <1>14, <1>19 DEF spans, B
  <2>2. Total(spans(h), L) = Total(spans(k), L)
    BY <1>2, <2>1, TotalSame
  <2> QED
    BY <1>3, <1>13, <2>2 DEF Accounted
<1>23. Multiples(k, L)
  BY <1>3, <1>13, <1>19 DEF Multiples
<1>24. HeapOK(k, L, K)
  BY <1>3, <1>13, <1>15, <1>17, <1>18, <1>20, <1>21, <1>22, <1>23 DEF HeapOK
<1>25. HistOK(k, B \cup {b}, F)
  BY <1>12, <1>13, AddHist DEF B
<1>26. B \cup {b} = L \cup K
  BY DEF B
<1> HIDE DEF K
<1>27. State(k, L, K, L \cup K, F)
  BY <1>24, <1>25, <1>26 DEF State
<1> QED
  BY <1>12, <1>27 DEF B, K

(* The second sbrk has failed. *)
LEMMA FailState ==
    ASSUME NEW h, NEW L, NEW M, NEW N, NEW F, State(h, L, M, N, F), h.brk + META <= Limit + 1,
           NEW k, Moved(h, k, h.brk + META, h.lost + META, h.metadata, h.mmap_list)
    PROVE  State(k, L, M, N, F)
<1>1. Facts(h, L, M, N, F)
  BY StateFacts
<1>2. HeapOK(h, L, M) /\ HistOK(h, N, F) /\ Headers(h, L \cup M) /\ N \subseteq L \cup M
  BY <1>1 DEF Facts
<1>3. /\ IsHeap(k) /\ k.hdr = h.hdr /\ k.histogram = h.histogram /\ k.uninit = h.uninit
      /\ k.flaws = h.flaws /\ k.brk = h.brk + META /\ k.lost = h.lost + META
      /\ k.metadata = h.metadata /\ k.mmap_list = h.mmap_list
  BY DEF Moved
<1>4. /\ nexts(k) = nexts(h) /\ prevs(k) = prevs(h) /\ spans(k) = spans(h)
      /\ hist_nexts(k) = hist_nexts(h) /\ hist_prevs(k) = hist_prevs(h)
  BY <1>3 DEF nexts, prevs, spans, hist_nexts, hist_prevs
<1>5. h.brk \in Base..(Limit + 1) /\ h.lost \in Nat
  BY <1>2 DEF HeapOK
<1>6. Headers(k, L \cup M)
  BY <1>2, <1>3 DEF Headers
<1>7. \A x \in L : x \in Nat /\ h.hdr[x].size \in Nat
  BY <1>2, HeaderIs
<1>8. Apart(k, L)
  <2>1. Apart(h, L)
    BY <1>2 DEF HeapOK
  <2>2. \A x \in L : x + META + h.hdr[x].size <= h.brk
    BY <2>1 DEF Apart
  <2>3. \A x \in L : x + META + h.hdr[x].size <= h.brk + META
    BY <1>5, <1>7, <2>2, Constants
  <2> QED
    BY <1>3, <2>1, <2>3 DEF Apart
<1>9. Mappings(k, M)
  BY <1>2, <1>3 DEF HeapOK, Mappings
<1>10. Accounted(k, L)
  <2>1. Base + Total(spans(h), L) + h.lost = h.brk /\ IsFiniteSet(L)
    BY <1>1, <1>2 DEF HeapOK, Accounted, Facts
  <2>2. \A x \in L : spans(h)[x] \in Nat
    BY <1>2, <1>7, Constants DEF spans, Headers
  <2>3. Total(spans(h), L) \in Nat
    BY <2>1, <2>2, TotalNat
  <2> QED
    BY <1>3, <1>4, <1>5, <2>1, <2>3, Constants DEF Accounted
<1>11. Multiples(k, L)
  <2>1. /\ Multiples(h, L) /\ align \in Nat \ {0} /\ META % align = 0 /\ h.brk % align = 0
    BY <1>2, MallocAssumption DEF HeapOK, Multiples, MallocAssumption
  <2>2. META \in Nat /\ h.brk \in Nat
    BY <1>5, Constants
  <2>3. k.brk % align = 0
    BY <1>3, <2>1, <2>2, MultipleSum
  <2> QED
    BY <1>3, <2>1, <2>3 DEF Multiples
<1>12. k.brk \in Base..(Limit + 1) /\ k.lost \in Nat
  BY <1>3, <1>5, Constants
<1>13. HeapOK(k, L, M)
  BY <1>2, <1>3, <1>4, <1>6, <1>8, <1>9, <1>10, <1>11, <1>12 DEF HeapOK
<1>14. HistOK(k, N, F)
  BY <1>2, <1>3, <1>4 DEF HistOK, InBucket
<1> QED
  BY <1>2, <1>13, <1>14 DEF State

-----------------------------------------------------------------------------
(* What Grown changes.                                                     *)
LEMMA GrownIs ==
    ASSUME NEW h, NEW B, Headers(h, B), NEW b, b \in B, NEW size, size \in Nat,
           h.brk \in Nat, h.lost \in Nat
    PROVE  /\ Resized(h, Grown(h, b, size), B, b, size, size - h.hdr[b].size, 0)
           /\ ~Grown(h, b, size).hdr[b].is_free
<1> DEFINE g == Grown(h, b, size)
<1>1. /\ IsHeap(h) /\ B \subseteq DOMAIN h.hdr
      /\ \A x \in B : h.hdr[x] \in MallocMetadata
  BY DEF Headers
<1>2. h.hdr[b].size \in Nat
  BY <1>1 DEF MallocMetadata
<1>3. /\ IsHeap(g) /\ DOMAIN g.hdr = DOMAIN h.hdr /\ g.flaws = h.flaws
      /\ g.metadata = h.metadata /\ g.mmap_list = h.mmap_list /\ g.histogram = h.histogram
      /\ g.brk = h.brk + size - h.hdr[b].size /\ g.lost = h.lost /\ g.uninit = h.uninit
      /\ ~g.hdr[b].is_free
  BY <1>1 DEF IsHeap, Fields, Grown
<1>4. \A x \in B :
         /\ g.hdr[x] \in MallocMetadata
         /\ x # b => g.hdr[x].is_free = h.hdr[x].is_free
         /\ g.hdr[x].addr = h.hdr[x].addr
         /\ g.hdr[x].next = h.hdr[x].next /\ g.hdr[x].prev = h.hdr[x].prev
         /\ g.hdr[x].hist_next = h.hdr[x].hist_next /\ g.hdr[x].hist_prev = h.hdr[x].hist_prev
         /\ g.hdr[x].size = IF x = b THEN size ELSE h.hdr[x].size
  BY <1>1 DEF IsHeap, Fields, MallocMetadata, Grown
<1> HIDE DEF g
<1>5. g.brk = h.brk + (size - h.hdr[b].size) /\ g.lost = h.lost + 0
  BY <1>2, <1>3
<1>6. Resized(h, g, B, b, size, size - h.hdr[b].size, 0)
  BY <1>3, <1>4, <1>5 DEF Resized
<1> QED
  BY <1>3, <1>6 DEF g

(* What sbrk adds is a multiple of the alignment. *)
LEMMA BreakAligned ==
    ASSUME NEW h, NEW L, NEW M, HeapOK(h, L, M), NEW b, b \in L, NEW size, size \in Nat, Aligned(size)
    PROVE  /\ Aligned(h.brk + (size - h.hdr[b].size))
           /\ b + META + h.hdr[b].size <= h.brk /\ h.brk \in Nat /\ h.hdr[b].size \in Nat
           /\ b + META + size <= h.brk + (size - h.hdr[b].size) /\ b \in Nat
<1>1. /\ Multiples(h, L) /\ Apart(h, L) /\ Headers(h, L \cup M) /\ h.brk \in Nat
  BY Constants DEF HeapOK
<1>2. b \in Nat /\ h.hdr[b].size \in Nat
  BY <1>1, HeaderIs
<1>3. b + META + h.hdr[b].size <= h.brk
  BY <1>1 DEF Apart
<1>4. /\ align \in Nat \ {0} /\ h.brk % align = 0 /\ h.hdr[b].size % align = 0 /\ size % align = 0
  BY <1>1, MallocAssumption DEF Multiples, MallocAssumption, Aligned
<1>5. (h.brk + size) % align = 0 /\ h.brk + size \in Nat /\ h.hdr[b].size <= h.brk + size
  <2>1. (h.brk + size) % align = 0
    BY <1>1, <1>4, MultipleSum
  <2> QED
    BY <1>1, <1>2, <1>3, <2>1, Constants
<1>6. ((h.brk + size) - h.hdr[b].size) % align = 0
  BY <1>2, <1>4, <1>5, MultipleLess
<1>7. (h.brk + size) - h.hdr[b].size = h.brk + (size - h.hdr[b].size)
  BY <1>1, <1>2
<1> QED
  BY <1>1, <1>2, <1>3, <1>6, <1>7, Constants DEF Aligned

(* Grown, of the last block, in use, when sbrk has room for it.            *)
LEMMA GrownState ==
    ASSUME NEW h, NEW L, NEW M, NEW N, NEW F, State(h, L, M, N, F), NEW b, b \in L, b \notin F,
           h.hdr[b].next = NULL, NEW size, size \in Nat, Aligned(size), Room(h, size - h.hdr[b].size)
    PROVE  LET g == Grown(h, b, size) IN
           /\ State(g, L, M, N, F) /\ ~g.hdr[b].is_free
           /\ Resized(h, g, L \cup M, b, size, size - h.hdr[b].size, 0)
<1> DEFINE g == Grown(h, b, size)
           d == size - h.hdr[b].size
<1>1. Facts(h, L, M, N, F)
  BY StateFacts
<1>2. HeapOK(h, L, M) /\ Headers(h, L \cup M) /\ b \in L \cup M
  BY <1>1 DEF Facts
<1>3. h.brk \in Nat /\ h.lost \in Nat
  BY <1>2, Constants DEF HeapOK
<1>4. Resized(h, g, L \cup M, b, size, d, 0) /\ ~g.hdr[b].is_free
  BY <1>2, <1>3, GrownIs
<1>5. /\ Aligned(h.brk + d)
      /\ b + META + h.hdr[b].size <= h.brk /\ h.brk \in Nat /\ h.hdr[b].size \in Nat
      /\ b + META + size <= h.brk + d
  BY <1>2, BreakAligned
<1>6. d \in Int /\ size + 0 = h.hdr[b].size + d /\ h.brk + d <= Limit + 1 /\ 0 \in Nat
  BY <1>5 DEF Room
<1> HIDE DEF d, g
<1>7. State(g, L, M, N, F)
  BY <1>4, <1>5, <1>6, ResizeState
<1> QED
  BY <1>4, <1>7 DEF d, g

(* Block b is in use now. *)
LEMMA TidyUsed ==
    ASSUME NEW h, NEW L, NEW M, NEW F, Tidy(h, L, M, F), NEW b, b \in L,
           NEW g, NEW G, G = F \ {b}, State(g, L, M, L \cup M, G), ~g.hdr[b].is_free,
           \A x \in L : /\ x # b => g.hdr[x].is_free = h.hdr[x].is_free
                        /\ g.hdr[x].next = h.hdr[x].next
    PROVE  Tidy(g, L, M, G)
<1>1. /\ F \subseteq L /\ NULL \notin L /\ Neighbouring(h, L)
      /\ \A x \in L : h.hdr[x].is_free <=> x \in F
  <2>1. TidyFacts(h, L, M, F)
    BY TidyIs
  <2> QED
    BY <2>1 DEF TidyFacts
<1>2. \A x \in L : g.hdr[x].is_free <=> x \in G /\ x # NULL
  BY <1>1
<1>3. Rest(g, L, M, G, NULL)
  BY <1>1, <1>2 DEF Rest
<1>4. CalmBut(g, L, {})
  <2> SUFFICES ASSUME NEW x \in L, g.hdr[x].is_free PROVE ~Free(g, g.hdr[x].next)
    BY DEF CalmBut
  <2>1. x # b /\ h.hdr[x].is_free /\ g.hdr[x].next = h.hdr[x].next
    BY <1>1
  <2>2. ~Free(h, h.hdr[x].next) /\ h.hdr[x].next \in L \cup {NULL}
    BY <1>1, <2>1 DEF Tidy, CalmBut, Neighbouring
  <2> QED
    BY <2>1, <2>2 DEF Free
<1> QED
  BY <1>3, <1>4 DEF Tidy

(* Nothing has been allocated. *)
LEMMA NoneOutcome ==
    ASSUME NEW h, NEW L, NEW M, NEW F, Tidy(h, L, M, F), NEW U, NEW size
    PROVE  Outcome(h, L, M, F, U, Result(h, NULL), size)
BY DEF Outcome, Result, Kept

(* smalloc, with a free block at the end of the heap.                      *)
LEMMA ExtendOutcome ==
    ASSUME NEW h, NEW L, NEW M, NEW F, Tidy(h, L, M, F), NEW b, b \in F, h.hdr[b].next = NULL,
           NEW size, size \in Nat, Aligned(size), NEW r, r \in ExtendWilderness(h, b, size)
    PROVE  Outcome(h, L, M, F, Used(L, M, F), r, size)
<1> DEFINE g == histogramRemove(h, b)
           k == Grown(g, b, size)
           U == Used(L, M, F)
           G == F \ {b}
<1>1. r = Result(h, NULL) \/ (Room(h, size - h.hdr[b].size) /\ r = HandOut(k, b))
  BY DEF ExtendWilderness
<1>2. CASE r = Result(h, NULL)
  BY <1>2, NoneOutcome
<1>3. CASE Room(h, size - h.hdr[b].size) /\ r = HandOut(k, b)
  <2>1. TidyFacts(h, L, M, F)
    BY TidyIs
  <2>2. State(h, L, M, L \cup M, F) /\ b \in L
    BY <2>1 DEF TidyFacts
  <2>3. State(g, L, M, L \cup M, G) /\ Same(h, g, L \cup M)
    BY <2>2, RemoveIn
  <2> HIDE DEF g
  <2>4. b \in L \cup M /\ b \notin G
    BY <2>2
  <2>5. g.hdr[b].next = NULL /\ Room(g, size - g.hdr[b].size)
    BY <1>3, <2>3, <2>4 DEF Same, Room
  <2> HIDE DEF G
  <2>6. /\ State(k, L, M, L \cup M, G) /\ ~k.hdr[b].is_free
        /\ Resized(g, k, L \cup M, b, size, size - g.hdr[b].size, 0)
    BY <2>2, <2>3, <2>4, <2>5, GrownState
  <2> HIDE DEF k
  <2>7. \A x \in L \cup M : /\ x # b => k.hdr[x].is_free = h.hdr[x].is_free
                            /\ k.hdr[x].next = h.hdr[x].next
                            /\ k.hdr[x].addr = h.hdr[x].addr
                            /\ k.hdr[x].size = IF x = b THEN size ELSE h.hdr[x].size
    BY <2>3, <2>6 DEF Same, Resized
  <2>8. \A x \in L : /\ x # b => k.hdr[x].is_free = h.hdr[x].is_free
                     /\ k.hdr[x].next = h.hdr[x].next
    BY <2>7
  <2>9. Tidy(k, L, M, G)
    BY <2>2, <2>6, <2>8, TidyUsed DEF G
  <2>10. Used(L, M, G) = U \cup {b} /\ b \notin U
    BY <2>1, <2>2 DEF Used, G, TidyFacts
  <2>11. Kept(h, k, U)
    BY <2>1, <2>2, <2>7 DEF Kept, Used, TidyFacts
  <2> HIDE DEF U
  <2>12. ASSUME r.heap.flaws = {}
         PROVE  r.heap = k /\ Gets(h, k, L, M, G, U, r.ptr, b, size)
    <3>1. IsHeap(k)
      BY <2>6 DEF Resized
    <3>2. r.heap = k /\ r.ptr = b + META /\ HandsOut(k, b)
      BY <1>3, <2>12, <3>1, HandOutIs
    <3>3. k.hdr[b].size >= size
      BY <2>4, <2>7
    <3> QED
      BY <2>10, <2>11, <3>2, <3>3 DEF Gets
  <2> QED
    BY <2>9, <2>12 DEF Outcome, U
<1> QED
  BY <1>1, <1>2, <1>3

-----------------------------------------------------------------------------
(* The client gets a new block. *)
LEMMA NewOutcome ==
    ASSUME NEW h, NEW L, NEW M, NEW F, Tidy(h, L, M, F), NEW b, b \notin L \cup M, b \in Nat \ {0},
           NEW g, NEW last, NEW size, size \in Nat, Added(h, g, L \cup M, b, last, size),
           NEW k, k.hdr = g.hdr, NEW L2, NEW M2,
           \/ L2 = L \cup {b} /\ M2 = M
           \/ L2 = L /\ M2 = M \cup {b} /\ last \notin L,
           State(k, L2, M2, L2 \cup M2, F)
    PROVE  Outcome(h, L, M, F, Used(L, M, F), Result(k, b + META), size)
<1>1. TidyFacts(h, L, M, F)
  BY TidyIs
<1>2. /\ F \subseteq L /\ NULL \notin L \cup M /\ Neighbouring(h, L) /\ NULL = 0
      /\ \A x \in L : h.hdr[x].is_free <=> x \in F
  BY <1>1, Constants DEF TidyFacts
<1>3. /\ \A x \in L \cup M : /\ k.hdr[x].is_free = h.hdr[x].is_free /\ k.hdr[x].addr = h.hdr[x].addr
                             /\ k.hdr[x].size = h.hdr[x].size
                             /\ k.hdr[x].next = IF x = last THEN b ELSE h.hdr[x].next
      /\ ~k.hdr[b].is_free /\ k.hdr[b].size = size /\ k.hdr[b].addr = b + META
  BY DEF Added
<1>4. L \subseteq L2 /\ L2 \subseteq L \cup {b} /\ F \subseteq L2
  BY <1>2
<1>5. \A x \in L2 : k.hdr[x].is_free <=> x \in F /\ x # NULL
  BY <1>2, <1>3, <1>4
<1>6. Rest(k, L2, M2, F, NULL)
  BY <1>4, <1>5 DEF Rest
<1>7. CalmBut(k, L2, {})
  <2> SUFFICES ASSUME NEW x \in L2, k.hdr[x].is_free PROVE ~Free(k, k.hdr[x].next)
    BY DEF CalmBut
  <2>1. x \in L /\ h.hdr[x].is_free
    BY <1>3, <1>4
  <2>2. CASE x = last
    <3>1. k.hdr[x].next = b
      BY <1>3, <2>1, <2>2
    <3> QED
      BY <1>3, <3>1 DEF Free
  <2>3. CASE x # last
    <3>1. k.hdr[x].next = h.hdr[x].next
      BY <1>3, <2>1, <2>3
    <3>2. ~Free(h, h.hdr[x].next) /\ h.hdr[x].next \in L \cup {NULL}
      BY <1>2, <2>1 DEF Tidy, CalmBut, Neighbouring
    <3> QED
      BY <1>3, <3>1, <3>2 DEF Free
  <2> QED
    BY <2>2, <2>3
<1>8. Tidy(k, L2, M2, F)
  BY <1>6, <1>7 DEF Tidy
<1> DEFINE U == Used(L, M, F)
           r == Result(k, b + META)
<1>9. Used(L2, M2, F) = U \cup {b} /\ b \notin U
  BY <1>2 DEF Used
<1>10. Kept(h, k, U)
  BY <1>3 DEF Kept, Used
<1>11. HandsOut(k, b) /\ k.hdr[b].size >= size
  BY <1>3 DEF HandsOut
<1>12. r.heap = k /\ r.ptr = b + META
  BY DEF Result
<1> HIDE DEF r, U
<1>13. Gets(h, k, L2, M2, F, U, r.ptr, b, size)
  BY <1>9, <1>10, <1>11, <1>12 DEF Gets
<1>14. Outcome(h, L, M, F, U, r, size)
  BY <1>8, <1>12, <1>13 DEF Outcome
<1> QED
  BY <1>14 DEF r, U

(* smalloc, with a new block at the break.                                 *)
LEMMA NewBlockOutcome ==
    ASSUME NEW h, NEW L, NEW M, NEW F, Tidy(h, L, M, F),
           NEW size, size \in Nat, Aligned(size), NEW r, r \in NewBlock(h, size)
    PROVE  Outcome(h, L, M, F, Used(L, M, F), r, size)
<1> DEFINE b == h.brk
           g == AddLast(h, h.metadata, b, size)
           f == [h EXCEPT !.brk = b + META, !.lost = @ + META]
           k == [g EXCEPT !.brk = b + META + size, !.metadata = IF @ = NULL THEN b ELSE @]
           last == IF h.metadata = NULL THEN NULL ELSE Last(h, h.metadata, "next")
<1>1. TidyFacts(h, L, M, F)
  BY TidyIs
<1>2. /\ State(h, L, M, L \cup M, F) /\ HeapOK(h, L, M) /\ Headers(h, L \cup M) /\ IsHeap(h)
      /\ NULL \notin L \cup M /\ h.brk \in Nat /\ h.flaws = {}
  BY <1>1, Constants DEF TidyFacts, HeapOK
<1>3. \/ r = Result(h, NULL)
      \/ Room(h, META) /\ r = Result(f, NULL)
      \/ Room(h, META + size) /\ r = Result(k, b + META)
  BY DEF NewBlock
<1>4. CASE r = Result(h, NULL)
  BY <1>4, NoneOutcome
<1>5. CASE Room(h, META) /\ r = Result(f, NULL)
  <2>1. Moved(h, f, h.brk + META, h.lost + META, h.metadata, h.mmap_list) /\ f.hdr = h.hdr
    BY <1>2 DEF Moved, IsHeap, Fields
  <2> HIDE DEF f
  <2>2. h.brk + META <= Limit + 1
    BY <1>5 DEF Room
  <2>3. State(f, L, M, L \cup M, F)
    BY <1>2, <2>1, <2>2, FailState
  <2>4. Tidy(f, L, M, F)
    BY <2>1, <2>3 DEF Tidy, Rest, CalmBut, Free
  <2>5. Kept(h, f, Used(L, M, F)) /\ r.ptr = NULL /\ r.heap = f
    BY <1>5, <2>1 DEF Kept, Result
  <2> QED
    BY <2>4, <2>5 DEF Outcome
<1>6. CASE Room(h, META + size) /\ r = Result(k, b + META)
  <2>1. b <= Limit
    BY <1>2, <1>6, Constants DEF Room
  <2>2. b \notin L \cup M /\ b \in Nat \ {0}
    BY <1>2, <2>1, FreshBreak
  <2>3. ListsOf(h, L, M)
    BY <1>2, ListsAre
  <2>4. /\ h.metadata = NULL => last = NULL
        /\ h.metadata # NULL => last \in L /\ h.hdr[last].next = NULL
        /\ last \in (L \cup M) \cup {NULL}
    BY <2>3 DEF ListsOf
  <2>5. last = IF h.metadata = NULL THEN NULL ELSE Last(h, h.metadata, "next")
    OBVIOUS
  <2> HIDE DEF last
  <2>6. Added(h, g, L \cup M, b, last, size)
    BY <1>2, <2>2, <2>4, <2>5, AddIs
  <2> HIDE DEF g
  <2> DEFINE top == Behind(b, size)
  <2>7. Moved(g, k, top, h.lost, IF h.metadata = NULL THEN b ELSE h.metadata, h.mmap_list)
        /\ k.hdr = g.hdr
    BY <2>6 DEF Moved, Added, IsHeap, Fields, Behind
  <2>8. top <= Limit + 1
    BY <1>2, <1>6, Constants DEF Room, Behind
  <2>11. top = Behind(b, size) /\ b = h.brk
    OBVIOUS
  <2> DEFINE first == IF h.metadata = NULL THEN b ELSE h.metadata
  <2>12. Moved(g, k, top, h.lost, first, h.mmap_list) /\ first = IF h.metadata = NULL THEN b ELSE h.metadata
    BY <2>7
  <2>13. LastOf(h, L, h.metadata, last)
    BY <2>4 DEF LastOf
  <2> DEFINE K == L \cup {b}
  <2>14. K = L \cup {b}
    OBVIOUS
  <2> HIDE DEF k, top, b, first, K
  <2>9. State(k, K, M, K \cup M, F)
    BY <1>2, <2>13, <2>6, <2>8, <2>11, <2>12, <2>14, NewBlockState
  <2>10. Outcome(h, L, M, F, Used(L, M, F), Result(k, b + META), size)
    BY <2>2, <2>6, <2>7, <2>9, <2>14, NewOutcome
  <2> QED
    BY <1>6, <2>10
<1> QED
  BY <1>3, <1>4, <1>5, <1>6

(* smalloc, with a mapping.                                                *)
LEMMA MapOutcome ==
    ASSUME NEW h, NEW L, NEW M, NEW F, Tidy(h, L, M, F), DOMAIN h.hdr = L \cup M,
           NEW size, size \in Nat, size >= MAP_MIN, NEW r, r \in allocateNewMap(h, size)
    PROVE  Outcome(h, L, M, F, Used(L, M, F), r, size)
<1> DEFINE count == Cardinality({x \in DOMAIN h.hdr : InMap(h, x)})
           b == Limit + 1 + count * (META + MAX_SIZE)
           g == AddLast(h, h.mmap_list, b, size)
           k == [g EXCEPT !.mmap_list = IF @ = NULL THEN b ELSE @]
           last == IF h.mmap_list = NULL THEN NULL ELSE Last(h, h.mmap_list, "next")
<1>1. TidyFacts(h, L, M, F)
  BY TidyIs
<1>2. /\ State(h, L, M, L \cup M, F) /\ HeapOK(h, L, M) /\ Headers(h, L \cup M) /\ IsHeap(h)
      /\ NULL \notin L \cup M /\ h.flaws = {} /\ \A x \in L : x \notin M
  BY <1>1 DEF TidyFacts
<1>3. {x \in DOMAIN h.hdr : InMap(h, x)} = M
  <2>1. L \subseteq 1..Limit /\ Mappings(h, M)
    BY <1>2 DEF HeapOK
  <2>2. ASSUME NEW y \in M PROVE y > Limit
    <3>1. PICK j \in 0..(Cardinality(M) - 1) : y = Limit + 1 + j * (META + MAX_SIZE)
      BY <2>1 DEF Mappings
    <3>2. j * (META + MAX_SIZE) \in Nat
      BY Constants
    <3> QED
      BY <3>1, <3>2, Constants
  <2>3. ASSUME NEW x \in L PROVE ~(x > Limit)
    BY <2>1, Constants
  <2> QED
    BY <2>2, <2>3 DEF InMap
<1>4. count = Cardinality(M)
  BY <1>3
<1>5. r = Result(h, NULL) \/ r = Result(k, b + META)
  BY DEF allocateNewMap
<1>6. CASE r = Result(h, NULL)
  BY <1>6, NoneOutcome
<1>7. CASE r = Result(k, b + META)
  <2>1. b = Limit + 1 + Cardinality(M) * (META + MAX_SIZE)
    BY <1>4
  <2> HIDE DEF count, b
  <2>2. b \notin L \cup M /\ b \in Nat \ {0}
    BY <1>2, <2>1, FreshMap
  <2>3. ListsOf(h, L, M)
    BY <1>2, ListsAre
  <2>4. /\ h.mmap_list = NULL => last = NULL
        /\ h.mmap_list # NULL => last \in M /\ h.hdr[last].next = NULL
        /\ last \in (L \cup M) \cup {NULL}
    BY <2>3 DEF ListsOf
  <2>5. last = IF h.mmap_list = NULL THEN NULL ELSE Last(h, h.mmap_list, "next")
    OBVIOUS
  <2> HIDE DEF last
  <2>6. Added(h, g, L \cup M, b, last, size)
    BY <1>2, <2>2, <2>4, <2>5, AddIs
  <2> HIDE DEF g
  <2>7. Moved(g, k, h.brk, h.lost, h.metadata, IF h.mmap_list = NULL THEN b ELSE h.mmap_list)
        /\ k.hdr = g.hdr
    BY <2>6 DEF Moved, Added, IsHeap, Fields
  <2> HIDE DEF k
  <2>8. State(k, L, M \cup {b}, L \cup (M \cup {b}), F)
    BY <1>2, <2>1, <2>4, <2>6, <2>7, MapState
  <2>9. last \notin L
    BY <1>2, <2>4
  <2>10. Outcome(h, L, M, F, Used(L, M, F), Result(k, b + META), size)
    BY <2>2, <2>6, <2>7, <2>8, <2>9, NewOutcome
  <2> QED
    BY <1>7, <2>10
<1> QED
  BY <1>5, <1>6, <1>7

(* What the search of the histogram finds. *)
LEMMA FittingBlock ==
    ASSUME NEW h, NEW L, NEW M, NEW F, Tidy(h, L, M, F), NEW size, size \in Nat,
           Fitting(h, size) # {}
    PROVE  LET i == Min(Fitting(h, size))
               b == Walk(h, h.histogram[i], size, "hist_next")[2]
           IN b \in F /\ h.hdr[b].size >= size
<1> DEFINE S == Fitting(h, size)
           i == Min(S)
           first == h.histogram[i]
           w == Walk(h, first, size, "hist_next")
           K == InBucket(h, F, i)
<1>1. TidyFacts(h, L, M, F)
  BY TidyIs
<1>2. Facts(h, L, M, L \cup M, F)
  BY <1>1 DEF TidyFacts
<1>3. /\ HistOK(h, L \cup M, F) /\ Headers(h, L \cup M) /\ F \subseteq L \cup M
      /\ L \cup M \subseteq DOMAIN h.hdr /\ NULL \notin DOMAIN h.hdr /\ IsFiniteSet(F)
  BY <1>2 DEF Facts
<1>4. S \subseteq Buckets
  <2>1. histogramIndex(size) \in Buckets
    BY IndexIn
  <2> QED
    BY <2>1, Constants DEF Fitting, Buckets
<1>5. i \in S
  <2>1. S \in SUBSET Nat /\ S # {}
    BY <1>4 DEF Buckets
  <2> HIDE DEF S
  <2>2. \E x \in S : \A y \in S : x <= y
    BY <2>1, Smallest
  <2> QED
    BY <2>2 DEF Min
<1>6. i \in Buckets /\ first # NULL /\ w[1]
  BY <1>4, <1>5 DEF Fitting
<1> HIDE DEF i, S
<1>7. K \subseteq F
  BY DEF InBucket
<1>8. Linked(K, first, hist_nexts(h), hist_prevs(h))
  BY <1>3, <1>6 DEF HistOK
<1>9. Reads(h, "hist_next", K, first, hist_nexts(h), hist_prevs(h))
  <2>1. IsFiniteSet(K)
    BY <1>3, <1>7, FS_Subset
  <2>2. \A x \in DOMAIN h.hdr : hist_nexts(h)[x] = h.hdr[x]["hist_next"]
    BY DEF hist_nexts
  <2> QED
    BY <1>3, <1>7, <1>8, <2>1, <2>2 DEF Reads
<1>10. Sized(h, K)
  BY <1>3, <1>7, HeaderIs DEF Sized
<1> HIDE DEF K, first
<1>11. WalkedTo(h, K, hist_nexts(h), hist_prevs(h), size, w)
  BY <1>6, <1>9, <1>10, WalkOf
<1> HIDE DEF w
<1>12. w[2] \in K /\ size <= h.hdr[w[2]].size
  BY <1>6, <1>11 DEF WalkedTo
<1>13. w[2] \in F /\ h.hdr[w[2]].size >= size
  BY <1>7, <1>10, <1>12 DEF Sized
<1> QED
  BY <1>13 DEF w, first, i, S

(* smalloc.                                                                *)
LEMMA SmallocOutcome ==
    ASSUME NEW h, NEW L, NEW M, NEW F, Tidy(h, L, M, F), DOMAIN h.hdr = L \cup M,
           NEW size, size \in Nat, Aligned(size), NEW r, r \in smalloc(h, size)
    PROVE  Outcome(h, L, M, F, Used(L, M, F), r, size)
<1> DEFINE i == Min(Fitting(h, size))
           b == Walk(h, h.histogram[i], size, "hist_next")[2]
           last == Last(h, h.metadata, "next")
<1>1. \/ r = Result(h, NULL)
      \/ size >= MAP_MIN /\ r \in allocateNewMap(h, size)
      \/ Fitting(h, size) # {} /\ r = Take(h, b, size)
      \/ h.metadata # NULL /\ Free(h, last) /\ r \in ExtendWilderness(h, last, size)
      \/ r \in NewBlock(h, size)
  BY DEF smalloc
<1>2. CASE r = Result(h, NULL)
  BY <1>2, NoneOutcome
<1>3. CASE size >= MAP_MIN /\ r \in allocateNewMap(h, size)
  BY <1>3, MapOutcome
<1>4. CASE Fitting(h, size) # {} /\ r = Take(h, b, size)
  <2>1. b \in F /\ h.hdr[b].size >= size
    BY <1>4, FittingBlock
  <2> HIDE DEF b
  <2> QED
    BY <1>4, <2>1, TakeOutcome
<1>5. CASE h.metadata # NULL /\ Free(h, last) /\ r \in ExtendWilderness(h, last, size)
  <2>1. TidyFacts(h, L, M, F)
    BY TidyIs
  <2>2. ListsOf(h, L, M)
    BY <2>1, ListsAre DEF TidyFacts
  <2>3. last \in L /\ h.hdr[last].next = NULL
    BY <1>5, <2>2 DEF ListsOf
  <2> HIDE DEF last
  <2>4. last \in F
    BY <1>5, <2>1, <2>3 DEF TidyFacts, Free
  <2> QED
    BY <1>5, <2>3, <2>4, ExtendOutcome
<1>6. CASE r \in NewBlock(h, size)
  BY <1>6, NewBlockOutcome
<1> QED
  BY <1>1, <1>2, <1>3, <1>4, <1>5, <1>6

-----------------------------------------------------------------------------
(* sfree *)

Released(h, g, L, L2, M, F, F2, c) ==
    /\ Tidy(g, L2, M, F2) /\ Used(L2, M, F2) = Used(L, M, F) \ {c}
    /\ Kept(h, g, Used(L, M, F) \ {c})

LEMMA SfreeIs ==
    ASSUME NEW h, NEW p, NEW c, c = p - META
    PROVE  sfree(h, p) = uniteBlock(histogramInsert(Mark(freeInMap(h, p), c, TRUE), c), c)
BY DEF sfree, Mark

(* freeInMap, of a block that is not mapped or is.                         *)
LEMMA FreeInMapIs ==
    ASSUME NEW h, IsHeap(h), NEW p, NEW c, c = p - META
    PROVE  /\ c \notin Chain(h, h.mmap_list, "next") => freeInMap(h, p) = h
           /\ c \in Chain(h, h.mmap_list, "next") =>
                IsHeap(freeInMap(h, p)) /\ "map" \in freeInMap(h, p).flaws
<1> DEFINE d == p - META
           prev == h.hdr[d].prev
           next == h.hdr[d].next
           g == IF prev = NULL THEN [h EXCEPT !.mmap_list = next]
                               ELSE [h EXCEPT !.hdr[prev].next = next]
           f == IF next = NULL THEN g ELSE [g EXCEPT !.hdr[next].prev = prev]
<1>1. freeInMap(h, p) = IF d \notin Chain(h, h.mmap_list, "next") THEN h ELSE Flaw(f, "map")
  BY Zenon DEF freeInMap
<1>2. IsHeap(g)
  BY DEF IsHeap
<1> HIDE DEF g
<1>3. IsHeap(f)
  BY <1>2 DEF IsHeap
<1> HIDE DEF f
<1>4. IsHeap(Flaw(f, "map")) /\ "map" \in Flaw(f, "map").flaws
  BY <1>3, LaterFlaw DEF Later
<1>5. c = d
  OBVIOUS
<1> HIDE DEF d
<1> QED
  BY <1>1, <1>4, <1>5

(* sfree of a mapped block is a flaw, ...                                  *)
LEMMA SfreeMap ==
    ASSUME NEW h, NEW L, NEW M, NEW F, Tidy(h, L, M, F), NEW c, c \in M
    PROVE  sfree(h, c + META).flaws # {}
<1> DEFINE m == freeInMap(h, c + META)
           k == Mark(m, c, TRUE)
           in == histogramInsert(k, c)
<1>1. TidyFacts(h, L, M, F)
  BY TidyIs
<1>2. IsHeap(h) /\ c \in Nat /\ c = (c + META) - META
  BY <1>1, Constants DEF TidyFacts
<1>3. c \in Chain(h, h.mmap_list, "next")
  BY <1>1, ListsAre DEF TidyFacts, ListsOf
<1>4. IsHeap(m) /\ "map" \in m.flaws
  BY <1>2, <1>3, FreeInMapIs
<1>5. sfree(h, c + META) = uniteBlock(in, c)
  BY <1>2, SfreeIs
<1> HIDE DEF m
<1>6. IsHeap(k) /\ "map" \in k.flaws
  BY <1>4 DEF IsHeap, Fields, Mark
<1> HIDE DEF k
<1>7. Later(k, in)
  BY <1>6, LaterInsert
<1> HIDE DEF in
<1>8. Later(in, uniteBlock(in, c))
  BY <1>7, LaterUnite DEF Later
<1> QED
  BY <1>5, <1>6, <1>7, <1>8 DEF Later

(* ... and of a block of the list it leaves a heap at rest.                *)
LEMMA SfreeList ==
    ASSUME NEW h, NEW L, NEW M, NEW F, Tidy(h, L, M, F), NEW c, c \in L, c \notin F,
           NEW g, g = sfree(h, c + META), g.flaws = {}
    PROVE  \E L2, F2 : Released(h, g, L, L2, M, F, F2, c)
<1> DEFINE k == Mark(h, c, TRUE)
           in == histogramInsert(k, c)
           G == F \cup {c}
<1>1. TidyFacts(h, L, M, F)
  BY TidyIs
<1>2. /\ State(h, L, M, L \cup M, F) /\ HeapOK(h, L, M) /\ IsHeap(h) /\ h.flaws = {} /\ F \subseteq L
      /\ NULL \notin L \cup M /\ (\A x \in L : h.hdr[x].is_free <=> x \in F) /\ c \notin M
      /\ Neighbouring(h, L) /\ c \in Nat /\ c = (c + META) - META /\ HistOK(h, L \cup M, F)
  BY <1>1, Constants DEF TidyFacts, Facts
<1>3. freeInMap(h, c + META) = h
  <2>1. ListsOf(h, L, M)
    BY <1>2, ListsAre
  <2> QED
    BY <1>2, <2>1, FreeInMapIs DEF ListsOf
<1>4. g = uniteBlock(in, c)
  BY <1>2, <1>3, SfreeIs
<1>5. State(k, L, M, L \cup M, F) /\ Marked(h, k, L \cup M, c, TRUE)
  BY <1>2, MarkState
<1> HIDE DEF k
<1>6. IsHeap(k)
  BY <1>5 DEF Marked
<1>7. IsHeap(in)
  BY <1>6, LaterInsert DEF Later
<1> HIDE DEF in
<1>8. in.flaws = {}
  <2>1. Later(in, uniteBlock(in, c))
    BY <1>7, LaterUnite
  <2> QED
    BY <1>4, <2>1 DEF Later
<1>9. k.hdr[c].hist_next = NULL /\ k.hdr[c].hist_prev = NULL
  <2>1. h.hdr[c].hist_next = NULL /\ h.hdr[c].hist_prev = NULL
    BY <1>2 DEF HistOK
  <2> QED
    BY <1>5, <2>1 DEF Marked
<1>10. Same(k, in, L \cup M) /\ State(in, L, M, (L \cup M) \cup {c}, F \cup {c})
  BY <1>5, <1>8, <1>9, InsertState DEF in
<1>11. State(in, L, M, L \cup M, G)
  <2>1. (L \cup M) \cup {c} = L \cup M
    OBVIOUS
  <2> QED
    BY <1>10, <2>1
<1>12. \A x \in L \cup M : /\ in.hdr[x].size = h.hdr[x].size /\ in.hdr[x].addr = h.hdr[x].addr
                           /\ in.hdr[x].next = h.hdr[x].next /\ in.hdr[x].prev = h.hdr[x].prev
                           /\ in.hdr[x].is_free = IF x = c THEN TRUE ELSE h.hdr[x].is_free
  BY <1>5, <1>10 DEF Same, Marked
<1>13. Rest(in, L, M, G, NULL)
  BY <1>2, <1>11, <1>12 DEF Rest
<1>14. CalmBut(in, L, {c, in.hdr[c].prev})
  <2> SUFFICES ASSUME NEW x \in L, x # c, x # in.hdr[c].prev, in.hdr[x].is_free
               PROVE  ~Free(in, in.hdr[x].next)
    BY DEF CalmBut
  <2>1. h.hdr[x].is_free /\ in.hdr[x].next = h.hdr[x].next /\ h.hdr[x].next \in L \cup {NULL}
    BY <1>2, <1>12 DEF Neighbouring
  <2>2. ~Free(h, h.hdr[x].next)
    BY <2>1 DEF Tidy, CalmBut
  <2>3. h.hdr[x].next # c
    <3>1. in.hdr[c].prev = h.hdr[c].prev
      BY <1>12
    <3> QED
      BY <1>2, <3>1 DEF Neighbouring
  <2> QED
    BY <1>12, <2>1, <2>2, <2>3 DEF Free
<1>15. c \in G /\ c # NULL
  BY <1>2
<1>16. PICK L2, F2 : Rest(g, L2, M, F2, NULL) /\ Passed(in, g, L, L2, M, G, F2, NULL) /\ CalmBut(g, L2, {})
  <2> HIDE DEF G
  <2>1. uniteBlock(in, c).flaws = {}
    BY <1>4
  <2> QED
    BY <1>4, <1>13, <1>14, <1>15, <2>1, UniteBlock
<1>17. L2 \ F2 = L \ G
  BY <1>16 DEF Passed
<1>18. \A x \in (L \ G) \cup M : in.hdr[x].size = g.hdr[x].size /\ in.hdr[x].addr = g.hdr[x].addr
  BY <1>2, <1>16 DEF Passed
<1>19. Used(L2, M, F2) = Used(L, M, F) \ {c}
  BY <1>2, <1>17 DEF Used
<1>20. Kept(h, g, Used(L, M, F) \ {c})
  BY <1>12, <1>18 DEF Used, Kept
<1> QED
  BY <1>16, <1>19, <1>20 DEF Released, Tidy
(* sfree of any block in use.                                              *)
LEMMA SfreeTidy ==
    ASSUME NEW h, NEW L, NEW M, NEW F, Tidy(h, L, M, F), NEW c, c \in Used(L, M, F),
           NEW g, g = sfree(h, c + META), g.flaws = {}
    PROVE  \E L2, F2 : Released(h, g, L, L2, M, F, F2, c)
<1>1. CASE c \in M
  BY <1>1, SfreeMap
<1>2. CASE c \notin M
  <2>1. c \in L /\ c \notin F
    BY <1>2 DEF Used
  <2> QED
    BY <2>1, SfreeList
<1> QED
  BY <1>1, <1>2

-----------------------------------------------------------------------------
LEMMA LaterFreeInMap ==
    ASSUME NEW h, IsHeap(h), NEW p
    PROVE  Later(h, freeInMap(h, p))
<1> DEFINE d == p - META
           prev == h.hdr[d].prev
           next == h.hdr[d].next
           g == IF prev = NULL THEN [h EXCEPT !.mmap_list = next]
                               ELSE [h EXCEPT !.hdr[prev].next = next]
           f == IF next = NULL THEN g ELSE [g EXCEPT !.hdr[next].prev = prev]
<1>1. freeInMap(h, p) = IF d \notin Chain(h, h.mmap_list, "next") THEN h ELSE Flaw(f, "map")
  BY Zenon DEF freeInMap
<1>2. IsHeap(g) /\ g.flaws = h.flaws
  BY DEF IsHeap, Fields
<1> HIDE DEF g
<1>3. IsHeap(f) /\ f.flaws = h.flaws
  BY <1>2 DEF IsHeap, Fields
<1> HIDE DEF f, d
<1>4. Later(f, Flaw(f, "map"))
  BY <1>3, LaterFlaw
<1> QED
  BY <1>1, <1>3, <1>4 DEF Later

LEMMA LaterSfree ==
    ASSUME NEW h, IsHeap(h), NEW p
    PROVE  Later(h, sfree(h, p))
<1> DEFINE c == p - META
           m == freeInMap(h, p)
           k == Mark(m, c, TRUE)
           in == histogramInsert(k, c)
           g == uniteBlock(in, c)
<1>1. sfree(h, p) = g
  BY SfreeIs
<1> HIDE DEF c
<1>2. Later(h, m)
  BY LaterFreeInMap
<1> HIDE DEF m
<1>3. Later(m, k)
  BY <1>2 DEF Later, Mark, IsHeap, Fields
<1> HIDE DEF k
<1>4. Later(k, in)
  BY <1>3, LaterInsert DEF Later
<1> HIDE DEF in
<1>5. Later(in, g)
  BY <1>4, LaterUnite DEF Later
<1> HIDE DEF g
<1>6. Later(h, k)
  BY <1>2, <1>3, LaterTrans
<1>7. Later(h, in)
  BY <1>4, <1>6, LaterTrans
<1> QED
  BY <1>1, <1>5, <1>7, LaterTrans

(* Block c is given up for a new one. *)
LEMMA MoveOutcome ==
    ASSUME NEW h, NEW L, NEW M, NEW F, NEW size, NEW k, NEW p, p # NULL,
           Outcome(h, L, M, F, Used(L, M, F), Result(k, p), size), k.flaws = {},
           NEW c, c \in Used(L, M, F), NEW g, g = sfree(k, c + META)
    PROVE  Outcome(h, L, M, F, Used(L, M, F) \ {c}, Result(g, p), size)
<1> DEFINE U == Used(L, M, F)
           V == U \ {c}
           r == Result(g, p)
<1>1. Result(k, p).heap = k /\ Result(k, p).ptr = p
  BY DEF Result
<1>2. PICK L2, M2, F2 : Tidy(k, L2, M2, F2) /\ \E b : Gets(h, k, L2, M2, F2, U, p, b, size)
  BY <1>1 DEF Outcome
<1>3. PICK b : Gets(h, k, L2, M2, F2, U, p, b, size)
  BY <1>2
<1>4. r.heap = g /\ r.ptr = p
  BY DEF Result
<1> HIDE DEF r, U
<1> SUFFICES ASSUME g.flaws = {}
             PROVE  \E L3, M3, F3 : Tidy(g, L3, M3, F3) /\ \E x : Gets(h, g, L3, M3, F3, V, p, x, size)
  BY <1>4 DEF Outcome, r, U
<1>5. /\ p = b + META /\ HandsOut(k, b) /\ b \notin U
      /\ Used(L2, M2, F2) = U \cup {b} /\ Kept(h, k, U) /\ k.hdr[b].size >= size
  BY <1>3 DEF Gets
<1>6. c \in U
  BY DEF U
<1>7. c \in Used(L2, M2, F2)
  BY <1>5, <1>6
<1>8. PICK L3, F3 : Released(k, g, L2, L3, M2, F2, F3, c)
  BY <1>2, <1>7, SfreeTidy
<1>9. Tidy(g, L3, M2, F3) /\ Used(L3, M2, F3) = (U \cup {b}) \ {c} /\ Kept(k, g, (U \cup {b}) \ {c})
  BY <1>5, <1>8 DEF Released
<1>10. Used(L3, M2, F3) = V \cup {b} /\ b \notin V
  BY <1>5, <1>6, <1>9
<1>11. Kept(h, g, V)
  BY <1>5, <1>9 DEF Kept
<1>12. HandsOut(g, b) /\ g.hdr[b].size >= size
  <2>1. g.hdr[b].size = k.hdr[b].size /\ g.hdr[b].addr = k.hdr[b].addr
    BY <1>5, <1>6, <1>9 DEF Kept
  <2> QED
    BY <1>5, <2>1 DEF HandsOut
<1> HIDE DEF V
<1>13. Gets(h, g, L3, M2, F3, V, p, b, size)
  BY <1>5, <1>10, <1>11, <1>12 DEF Gets
<1> QED
  BY <1>9, <1>13

LEMMA MapHeap ==
    ASSUME NEW h, NEW L, NEW M, NEW F, Tidy(h, L, M, F), DOMAIN h.hdr = L \cup M,
           NEW size, NEW r, r \in allocateNewMap(h, size)
    PROVE  r.heap.flaws = {} /\ IsHeap(r.heap) /\ r = Result(r.heap, r.ptr)
<1> DEFINE count == Cardinality({x \in DOMAIN h.hdr : InMap(h, x)})
           b == Limit + 1 + count * (META + MAX_SIZE)
           g == AddLast(h, h.mmap_list, b, size)
           k == [g EXCEPT !.mmap_list = IF @ = NULL THEN b ELSE @]
           last == IF h.mmap_list = NULL THEN NULL ELSE Last(h, h.mmap_list, "next")
           new == [h EXCEPT !.hdr = Write(@, b, Header(size, b + META, last))]
<1>1. IsHeap(h) /\ h.flaws = {}
  BY TidyIs DEF TidyFacts
<1>2. g = IF last = NULL THEN new ELSE [new EXCEPT !.hdr[last].next = b]
  BY DEF AddLast
<1>3. r = Result(h, NULL) \/ r = Result(k, b + META)
  BY DEF allocateNewMap
<1>4. IsHeap(new) /\ new.flaws = {}
  BY <1>1 DEF IsHeap, Fields
<1> HIDE DEF new, last
<1>5. IsHeap(g) /\ g.flaws = {}
  BY <1>2, <1>4 DEF IsHeap, Fields
<1> HIDE DEF g
<1>6. IsHeap(k) /\ k.flaws = {}
  BY <1>5 DEF IsHeap, Fields
<1> HIDE DEF k, b
<1> QED
  BY <1>1, <1>3, <1>6 DEF Result

(* srealloc from a block to a mapping.                                     *)
LEMMA MoveToMapOutcome ==
    ASSUME NEW h, NEW L, NEW M, NEW F, Tidy(h, L, M, F), DOMAIN h.hdr = L \cup M,
           NEW c, c \in Used(L, M, F), NEW p, p = c + META,
           NEW size, size \in Nat, size >= MAP_MIN, NEW r, r \in MoveToMap(h, p, size)
    PROVE  Outcome(h, L, M, F, Used(L, M, F) \ {c}, r, size)
<1>1. PICK q \in allocateNewMap(h, size) :
        r = IF q.ptr = NULL THEN Result(Flaw(q.heap, "fault"), NULL)
                            ELSE Result(sfree(q.heap, p), q.ptr)
  BY Zenon DEF MoveToMap
<1>2. q.heap.flaws = {} /\ IsHeap(q.heap) /\ q = Result(q.heap, q.ptr)
  BY <1>1, MapHeap
<1>3. CASE q.ptr = NULL
  <2>1. r = Result(Flaw(q.heap, "fault"), NULL)
    BY <1>1, <1>3
  <2>2. "fault" \in Flaw(q.heap, "fault").flaws
    BY <1>2, LaterFlaw
  <2>3. r.heap = Flaw(q.heap, "fault")
    BY <2>1 DEF Result
  <2> QED
    BY <2>2, <2>3 DEF Outcome
<1>4. CASE q.ptr # NULL
  <2>1. r = Result(sfree(q.heap, c + META), q.ptr)
    BY <1>1, <1>4
  <2>2. Outcome(h, L, M, F, Used(L, M, F), Result(q.heap, q.ptr), size)
    BY <1>1, <1>2, MapOutcome
  <2> QED
    BY <1>2, <1>4, <2>1, <2>2, MoveOutcome
<1> QED
  BY <1>3, <1>4

-----------------------------------------------------------------------------
(* srealloc *)

(* A mapped block is large and in use.                                     *)
LEMMA MappedAbove ==
    ASSUME NEW h, NEW L, NEW M, HeapOK(h, L, M), NEW c, c \in M
    PROVE  InMap(h, c) /\ h.hdr[c].size >= MAP_MIN /\ ~h.hdr[c].is_free
<1>1. Mappings(h, M)
  BY DEF HeapOK
<1>2. PICK j \in 0..(Cardinality(M) - 1) : c = Limit + 1 + j * (META + MAX_SIZE)
  BY <1>1 DEF Mappings
<1>3. j * (META + MAX_SIZE) \in Nat
  BY Constants
<1>4. c > Limit
  BY <1>2, <1>3, Constants
<1> QED
  BY <1>1, <1>4 DEF Mappings, InMap

(* A mapped block that is marked as used, as it is already. *)
LEMMA MarkMapped ==
    ASSUME NEW h, NEW L, NEW M, NEW F, Tidy(h, L, M, F), NEW c, c \in Used(L, M, F)
    PROVE  LET g == Mark(h, c, FALSE) IN
           Tidy(g, L, M, F) /\ Marked(h, g, L \cup M, c, FALSE)
<1> DEFINE g == Mark(h, c, FALSE)
<1>1. TidyFacts(h, L, M, F)
  BY TidyIs
<1>2. /\ State(h, L, M, L \cup M, F) /\ F \subseteq L /\ NULL \notin L \cup M /\ Neighbouring(h, L)
      /\ (\A x \in L : h.hdr[x].is_free <=> x \in F) /\ (\A x \in L : x \notin M)
  BY <1>1 DEF TidyFacts
<1>3. c \in L \cup M /\ c \notin F
  BY <1>2 DEF Used
<1>4. State(g, L, M, L \cup M, F) /\ Marked(h, g, L \cup M, c, FALSE)
  BY <1>2, <1>3, MarkState
<1> HIDE DEF g
<1>5. \A x \in L : (g.hdr[x].is_free <=> x \in F) /\ g.hdr[x].next = h.hdr[x].next
  BY <1>2, <1>3, <1>4 DEF Marked
<1>6. Rest(g, L, M, F, NULL)
  BY <1>2, <1>4, <1>5 DEF Rest
<1>7. CalmBut(g, L, {})
  BY <1>2, <1>5 DEF Tidy, CalmBut, Free, Neighbouring
<1> QED
  BY <1>4, <1>6, <1>7 DEF Tidy, g

(* srealloc that keeps or shrinks a mapped block, ...                      *)
LEMMA ShrinkMapped ==
    ASSUME NEW h, NEW L, NEW M, NEW F, Tidy(h, L, M, F), NEW c, c \in M, HandsOut(h, c),
           NEW size, size \in Nat, h.hdr[c].size >= size, NEW r, r = Shrink(h, c, size)
    PROVE  Outcome(h, L, M, F, Used(L, M, F) \ {c}, r, size)
<1> DEFINE U == Used(L, M, F)
           V == U \ {c}
           used == Mark(h, c, FALSE)
           s == SplitIfLong(used, c, size)
           g == histogramRemove(s, c)
           long == InMap(h, c) /\ LongEnough(h, c, size)
           k == FlawIf(long, g, "map")
<1>1. TidyFacts(h, L, M, F)
  BY TidyIs
<1>2. c \in U /\ HeapOK(h, L, M) /\ IsHeap(h)
  BY <1>1 DEF Used, TidyFacts
<1>3. Tidy(used, L, M, F) /\ Marked(h, used, L \cup M, c, FALSE)
  BY <1>2, MarkMapped
<1>4. r = Result(k, g.hdr[c].addr)
  BY DEF Shrink, Mark
<1>5. r.heap = k /\ r.ptr = g.hdr[c].addr
  BY <1>4 DEF Result
<1>6. LongEnough(used, c, size) <=> LongEnough(h, c, size)
  BY <1>3 DEF LongEnough, Marked
<1> HIDE DEF used
<1>7. IsHeap(used)
  BY <1>3 DEF Marked
<1>8. IsHeap(s)
  <2>1. PICK f, q, r1, e, i, in, m : SplitSteps(used, c, size, f, q, r1, e, i, in, m)
    BY <1>7, LaterSplit
  <2>2. IsHeap(splitBlock(used, c, size))
    BY <2>1 DEF SplitSteps, Later
  <2> QED
    BY <1>7, <2>2 DEF SplitIfLong
<1>9. IsHeap(g)
  BY <1>8, LaterRemove DEF Later
<1> SUFFICES ASSUME r.heap.flaws = {}
             PROVE  \E L2, M2, F2 : Tidy(r.heap, L2, M2, F2)
                       /\ \E x : Gets(h, r.heap, L2, M2, F2, V, r.ptr, x, size)
  BY DEF Outcome
<1>10. k = g /\ ~LongEnough(h, c, size) /\ g.flaws = {}
  <2>1. InMap(h, c)
    BY <1>2, MappedAbove
  <2>3. k.flaws = {}
    BY <1>5
  <2> HIDE DEF g, s, long
  <2>2. k = g /\ ~long
    BY <1>9, <2>3, LaterFlaw
  <2> QED
    BY <2>1, <2>2, <2>3 DEF long
<1>11. s = used
  BY <1>6, <1>10 DEF SplitIfLong
<1>12. g = histogramRemove(used, c)
  BY <1>11
<1> HIDE DEF g, s, k
<1>13. TidyFacts(used, L, M, F)
  BY <1>3, TidyIs
<1>14. c \notin F /\ c \in L \cup M
  BY <1>13 DEF TidyFacts
<1>15. State(g, L, M, L \cup M, F) /\ Same(used, g, L \cup M)
  BY <1>10, <1>12, <1>13, <1>14, RemoveOut DEF TidyFacts
<1>16. CalmBut(g, L, {})
  BY <1>3, <1>13, <1>15, SameCalm DEF Tidy, TidyFacts
<1>17. Rest(g, L, M, F, NULL)
  BY <1>3, <1>15 DEF Tidy, Rest, Same
<1>18. Kept(h, g, L \cup M)
  BY <1>3, <1>15 DEF Kept, Marked, Same
<1>19. Kept(h, g, V) /\ g.hdr[c].size >= size /\ HandsOut(g, c) /\ g.hdr[c].addr = c + META
  BY <1>14, <1>18 DEF Kept, HandsOut, Used
<1>20. U = V \cup {c} /\ c \notin V
  BY <1>2
<1> HIDE DEF U, V
<1>21. Gets(h, g, L, M, F, V, r.ptr, c, size)
  BY <1>5, <1>19, <1>20 DEF Gets, U
<1> QED
  BY <1>5, <1>10, <1>16, <1>17, <1>21 DEF Tidy, V, U

(* ... or a block of the list, ...                                         *)
LEMMA ShrinkListed ==
    ASSUME NEW h, NEW L, NEW M, NEW F, Tidy(h, L, M, F), NEW c, c \in L, c \notin F, HandsOut(h, c),
           NEW size, size \in Nat, Aligned(size), h.hdr[c].size >= size, NEW r, r = Shrink(h, c, size)
    PROVE  Outcome(h, L, M, F, Used(L, M, F) \ {c}, r, size)
<1> DEFINE U == Used(L, M, F)
           V == U \ {c}
           used == Mark(h, c, FALSE)
           s == SplitIfLong(used, c, size)
           g == histogramRemove(s, c)
           long == InMap(h, c) /\ LongEnough(h, c, size)
           k == FlawIf(long, g, "map")
<1>1. TidyFacts(h, L, M, F)
  BY TidyIs
<1>2. Rest(h, L, M, F, NULL) /\ CalmBut(h, L, {}) /\ F \subseteq L /\ \A x \in L : x \notin M
  BY <1>1 DEF Tidy, TidyFacts
<1>3. Rest(used, L, M, F, c) /\ Marked(h, used, L \cup M, c, FALSE) /\ CalmBut(used, L, {})
  BY <1>2, MarkRest
<1>4. r = Result(k, g.hdr[c].addr)
  BY DEF Shrink, Mark
<1>5. r.heap = k /\ r.ptr = g.hdr[c].addr
  BY <1>4 DEF Result
<1> HIDE DEF used
<1>7. IsHeap(used) /\ used.hdr[c].size >= size
  BY <1>3 DEF Marked
<1>8. IsHeap(s)
  <2>1. PICK f, q, r1, e, i, in, m : SplitSteps(used, c, size, f, q, r1, e, i, in, m)
    BY <1>7, LaterSplit
  <2>2. IsHeap(splitBlock(used, c, size))
    BY <2>1 DEF SplitSteps, Later
  <2> QED
    BY <1>7, <2>2 DEF SplitIfLong
<1>9. IsHeap(g)
  BY <1>8, LaterRemove DEF Later
<1> SUFFICES ASSUME r.heap.flaws = {}
             PROVE  \E L2, M2, F2 : Tidy(r.heap, L2, M2, F2)
                       /\ \E x : Gets(h, r.heap, L2, M2, F2, V, r.ptr, x, size)
  BY DEF Outcome
<1>10. k = g /\ g.flaws = {}
  <2> HIDE DEF g, s
  <2>1. k.flaws = {}
    BY <1>5
  <2> QED
    BY <1>9, <2>1, LaterFlaw
<1>11. g = histogramRemove(SplitIfLong(used, c, size), c)
  OBVIOUS
<1> HIDE DEF g, s, k
<1>12. PICK L2, F2 : Trimmed(used, g, L, L2, M, F, F2, c, size)
  BY <1>3, <1>7, <1>10, <1>11, TrimRest
<1>13. /\ Tidy(g, L2, M, F2) /\ L2 \ F2 = (L \ F) \cup {c} /\ Kept(used, g, ((L \ F) \{c}) \cup M)
       /\ g.hdr[c].size >= size /\ g.hdr[c].addr = used.hdr[c].addr
  BY <1>12 DEF Trimmed
<1>14. Kept(h, g, V)
  BY <1>2, <1>3, <1>13 DEF Kept, Marked, Used
<1>15. HandsOut(g, c) /\ g.hdr[c].addr = c + META
  BY <1>3, <1>13 DEF Marked, HandsOut
<1>16. Used(L2, M, F2) = V \cup {c} /\ c \notin V
  BY <1>13 DEF Used
<1> HIDE DEF V, U
<1>17. Gets(h, g, L2, M, F2, V, r.ptr, c, size)
  BY <1>5, <1>13, <1>14, <1>15, <1>16 DEF Gets
<1> QED
  BY <1>5, <1>10, <1>13, <1>17 DEF V, U

(* ... or any block in use.                                                *)
LEMMA ShrinkOutcome ==
    ASSUME NEW h, NEW L, NEW M, NEW F, Tidy(h, L, M, F), NEW c, c \in Used(L, M, F), HandsOut(h, c),
           NEW size, size \in Nat, Aligned(size), h.hdr[c].size >= size, NEW r, r = Shrink(h, c, size)
    PROVE  Outcome(h, L, M, F, Used(L, M, F) \ {c}, r, size)
<1>1. CASE c \in M
  BY <1>1, ShrinkMapped
<1>2. CASE c \notin M
  <2>1. c \in L /\ c \notin F
    BY <1>2 DEF Used
  <2> QED
    BY <2>1, ShrinkListed
<1> QED
  BY <1>1, <1>2

-----------------------------------------------------------------------------
LEMMA LaterSplitIfLong ==
    ASSUME NEW h, IsHeap(h), NEW b, NEW size
    PROVE  Later(h, SplitIfLong(h, b, size))
<1>1. PICK f, q, r1, e, i, in, m : SplitSteps(h, b, size, f, q, r1, e, i, in, m)
  BY LaterSplit
<1>2. Later(h, splitBlock(h, b, size))
  BY <1>1 DEF SplitSteps
<1> QED
  BY <1>2 DEF SplitIfLong, Later

(* What Settle does, one step after the other. *)
SettleSteps(h, b, c, size, overwrite, used, s, g, d, r) ==
    /\ used = Mark(h, b, FALSE) /\ s = SplitIfLong(used, b, size)
    /\ g = FlawIf(LongEnough(used, b, size), s, "split")
    /\ IF ~overwrite /\ g.hdr[c].addr # g.hdr[b].addr
       THEN d = FlawIf(c \notin Listed(h), sfree(g, c + META), "phantom")
       ELSE d = g
    /\ r = HandOut(d, b)
    /\ Later(h, used) /\ Later(used, s) /\ Later(s, g) /\ Later(g, d) /\ Later(d, r.heap)
    /\ Later(g, sfree(g, c + META))

(* Settle in steps, of which a result without a flaw has none with one.    *)
LEMMA SettleIs ==
    ASSUME NEW h, IsHeap(h), NEW b, NEW c, NEW size, NEW overwrite,
           NEW r, r = Settle(h, b, c, size, overwrite)
    PROVE  /\ \E used, s, g, d : SettleSteps(h, b, c, size, overwrite, used, s, g, d, r)
           /\ Later(h, r.heap)
<1> DEFINE used == Mark(h, b, FALSE)
           s == SplitIfLong(used, b, size)
           g == FlawIf(LongEnough(used, b, size), s, "split")
           e == sfree(g, c + META)
           f == FlawIf(c \notin Listed(h), e, "phantom")
           d == IF ~overwrite /\ g.hdr[c].addr # g.hdr[b].addr THEN f ELSE g
<1>1. r = HandOut(d, b)
  BY Zenon DEF Settle, Mark
<1>2. Later(h, used)
  BY DEF Later, Mark, IsHeap, Fields
<1> HIDE DEF used
<1>3. Later(used, s)
  BY <1>2, LaterSplitIfLong DEF Later
<1> HIDE DEF s
<1>4. Later(s, g)
  BY <1>3, LaterFlaw DEF Later
<1> HIDE DEF g
<1>5. Later(g, e)
  BY <1>4, LaterSfree DEF Later
<1> HIDE DEF e
<1>6. Later(e, f)
  BY <1>5, LaterFlaw DEF Later
<1> HIDE DEF f
<1>7. Later(g, d)
  BY <1>4, <1>5, <1>6 DEF Later
<1>8. Later(d, r.heap)
  <2> HIDE DEF d
  <2> QED
    BY <1>1, <1>7, LaterHandOut DEF Later
<1>9. Later(h, r.heap)
  BY <1>2, <1>3, <1>4, <1>7, <1>8 DEF Later
<1>10. IF ~overwrite /\ g.hdr[c].addr # g.hdr[b].addr THEN d = f ELSE d = g
  OBVIOUS
<1> HIDE DEF d
<1>11. SettleSteps(h, b, c, size, overwrite, used, s, g, d, r)
  BY <1>1, <1>2, <1>3, <1>4, <1>5, <1>7, <1>8, <1>10 DEF SettleSteps, used, s, g, e, f
<1> QED
  BY <1>9, <1>11

SoundSteps(h, b, c, size, overwrite, used, s, g, d, r) ==
    SettleSteps(h, b, c, size, overwrite, used, s, g, d, r) /\ r.heap.flaws = {}
SoundEnd(h, b, g, d, r) ==
    /\ r.heap = d /\ d.flaws = {} /\ r.ptr = b + META /\ HandsOut(d, b)
    /\ g.flaws = {} /\ g = Mark(h, b, FALSE)

(* Without a flaw, a grown block is not split: the copy would come after   *)
(* the split, which leaves it in the histogram.                            *)
LEMMA SettleSound ==
    ASSUME NEW k, NEW b, NEW c, NEW size, NEW overwrite, NEW used, NEW s, NEW g, NEW d, NEW r,
           SoundSteps(k, b, c, size, overwrite, used, s, g, d, r)
    PROVE  SoundEnd(k, b, g, d, r)
<1>0. SettleSteps(k, b, c, size, overwrite, used, s, g, d, r) /\ r.heap.flaws = {}
  BY DEF SoundSteps
<1>1. IsHeap(d) /\ r = HandOut(d, b)
  BY <1>0 DEF SettleSteps, Later
<1>2. r.heap = d /\ d.flaws = {} /\ r.ptr = b + META /\ HandsOut(d, b)
  BY <1>0, <1>1, HandOutIs
<1>3. g.flaws = {}
  BY <1>0, <1>2 DEF SettleSteps, Later
<1>4. g = s /\ ~LongEnough(used, b, size)
  <2> DEFINE long == LongEnough(used, b, size)
  <2>1. g = FlawIf(long, s, "split") /\ g.flaws = {} /\ IsHeap(s)
    BY <1>0, <1>3 DEF SettleSteps, Later
  <2> HIDE DEF long
  <2>2. g = s /\ ~long
    BY <2>1, LaterFlaw
  <2> QED
    BY <2>2 DEF long
<1>5. s = used /\ used = Mark(k, b, FALSE)
  BY <1>0, <1>4 DEF SettleSteps, SplitIfLong
<1> QED
  BY <1>2, <1>3, <1>4, <1>5 DEF SoundEnd

(* Block b has what block c had; block c is b or a part of it. *)
Holds(b, c, B) == b = c \/ c \notin B

Settles(h, K, M, N, F, b, c, size, overwrite, r) ==
    /\ State(h, K, M, N, F) /\ b \in K /\ Holds(b, c, K \cup M)
    /\ r = Settle(h, b, c, size, overwrite) /\ r.heap.flaws = {}
Settled(h, b, r) == r.heap = Mark(h, b, FALSE) /\ r.ptr = b + META /\ HandsOut(r.heap, b)

(* Then Settle has only taken the block into use.                          *)
LEMMA SettleStay ==
    ASSUME NEW h, NEW K, NEW M, NEW N, NEW F, NEW b, NEW c, NEW size, NEW overwrite, NEW r,
           Settles(h, K, M, N, F, b, c, size, overwrite, r)
    PROVE  Settled(h, b, r)
<1>0. /\ State(h, K, M, N, F) /\ b \in K /\ Holds(b, c, K \cup M)
      /\ r = Settle(h, b, c, size, overwrite) /\ r.heap.flaws = {}
  BY DEF Settles
<1>1. HeapOK(h, K, M) /\ IsHeap(h)
  BY <1>0, StateFacts DEF Facts
<1>2. PICK used, s, g, d : SettleSteps(h, b, c, size, overwrite, used, s, g, d, r)
  BY <1>0, <1>1, SettleIs
<1>3. Listed(h) = K \cup M
  BY <1>1, ListsAre DEF ListsOf, Listed
<1>4. r.heap = d /\ d.flaws = {} /\ r.ptr = b + META /\ HandsOut(d, b) /\ g = Mark(h, b, FALSE)
  <2>1. SoundSteps(h, b, c, size, overwrite, used, s, g, d, r)
    BY <1>0, <1>2 DEF SoundSteps
  <2>2. SoundEnd(h, b, g, d, r)
    BY <2>1, SettleSound
  <2> QED
    BY <2>2 DEF SoundEnd
<1>5. d = g
  <2>1. CASE b = c
    BY <1>2, <2>1 DEF SettleSteps
  <2>2. CASE c \notin K \cup M
    <3> SUFFICES ASSUME ~overwrite /\ g.hdr[c].addr # g.hdr[b].addr PROVE FALSE
      BY <1>2 DEF SettleSteps
    <3> DEFINE e == sfree(g, c + META)
    <3>1. d = FlawIf(c \notin Listed(h), e, "phantom") /\ Later(g, e)
      BY <1>2 DEF SettleSteps
    <3> HIDE DEF e
    <3>2. d = Flaw(e, "phantom")
      BY <1>3, <2>2, <3>1 DEF FlawIf
    <3>3. "phantom" \in d.flaws
      BY <3>1, <3>2, LaterFlaw DEF Later
    <3> QED
      BY <1>4, <3>3
  <2> QED
    BY <1>0, <2>1, <2>2 DEF Holds
<1> QED
  BY <1>4, <1>5 DEF Settled

(* Block b, which holds c or is c, has grown to hold size bytes. *)
Grew(h, k, L, K, M, F, G, c, b, size) ==
    /\ State(k, K, M, K \cup M, G) /\ K \subseteq L
    /\ b \in K /\ b \notin G /\ b \in F \cup {c}
    /\ \A x \in K : x # b => (x \in G <=> x \in F)
    /\ K \ G = ((L \ F) \ {c}) \cup {b} /\ G \subseteq K
    /\ k.hdr[b].size >= size
    /\ \A x \in K : x # b => k.hdr[x].is_free = h.hdr[x].is_free /\ k.hdr[x].next = h.hdr[x].next
    /\ \A x \in K \cup M : x # b => k.hdr[x].size = h.hdr[x].size /\ k.hdr[x].addr = h.hdr[x].addr
    /\ Holds(b, c, K \cup M)

(* srealloc, once a block has grown to the size requested.                 *)
LEMMA GrewOutcome ==
    ASSUME NEW h, NEW L, NEW M, NEW F, Tidy(h, L, M, F), NEW c, c \in L, c \notin F,
           NEW k, NEW K, NEW G, NEW b, NEW size, Grew(h, k, L, K, M, F, G, c, b, size),
           NEW overwrite, NEW r, r = Settle(k, b, c, size, overwrite)
    PROVE  Outcome(h, L, M, F, Used(L, M, F) \ {c}, r, size)
<1> DEFINE U == Used(L, M, F)
           V == U \ {c}
           g == Mark(k, b, FALSE)
<1> SUFFICES ASSUME r.heap.flaws = {}
             PROVE  \E L2, M2, F2 : Tidy(r.heap, L2, M2, F2)
                       /\ \E x : Gets(h, r.heap, L2, M2, F2, V, r.ptr, x, size)
  BY DEF Outcome
<1>1. /\ State(k, K, M, K \cup M, G) /\ K \subseteq L /\ G \subseteq K
      /\ b \in K /\ b \notin G /\ b \in F \cup {c}
      /\ K \ G = ((L \ F) \ {c}) \cup {b} /\ Holds(b, c, K \cup M)
      /\ \A x \in K : x # b => (x \in G <=> x \in F)
      /\ k.hdr[b].size >= size
      /\ \A x \in K : x # b => k.hdr[x].is_free = h.hdr[x].is_free /\ k.hdr[x].next = h.hdr[x].next
      /\ \A x \in K \cup M : x # b => k.hdr[x].size = h.hdr[x].size /\ k.hdr[x].addr = h.hdr[x].addr
  BY DEF Grew
<1>2. r.heap = g /\ r.ptr = b + META /\ HandsOut(g, b)
  <2> DEFINE N == K \cup M
  <2>1. Settles(k, K, M, N, G, b, c, size, overwrite, r)
    BY <1>1 DEF Settles
  <2> HIDE DEF N
  <2>2. Settled(k, b, r)
    BY <2>1, SettleStay
  <2> QED
    BY <2>2 DEF Settled
<1>3. State(g, K, M, K \cup M, G) /\ Marked(k, g, K \cup M, b, FALSE)
  BY <1>1, MarkState
<1> HIDE DEF g
<1>4. TidyFacts(h, L, M, F) /\ CalmBut(h, L, {})
  BY TidyIs DEF Tidy
<1>5. /\ F \subseteq L /\ NULL \notin L \cup M /\ (\A x \in L : x \notin M)
      /\ \A x \in L : h.hdr[x].is_free <=> x \in F
  BY <1>4 DEF TidyFacts
<1>6. /\ \A x \in K : /\ g.hdr[x].is_free = IF x = b THEN FALSE ELSE h.hdr[x].is_free
                      /\ x # b => g.hdr[x].next = h.hdr[x].next
      /\ \A x \in K \cup M : x # b => g.hdr[x].size = h.hdr[x].size /\ g.hdr[x].addr = h.hdr[x].addr
      /\ g.hdr[b].size >= size
  <2>1. \A x \in K \cup M : /\ g.hdr[x].is_free = IF x = b THEN FALSE ELSE k.hdr[x].is_free
                            /\ g.hdr[x].next = k.hdr[x].next
                            /\ g.hdr[x].size = k.hdr[x].size /\ g.hdr[x].addr = k.hdr[x].addr
    BY <1>3 DEF Marked
  <2>2. g.hdr[b].size = k.hdr[b].size
    BY <1>1, <2>1
  <2> QED
    BY <1>1, <2>1, <2>2
<1>7. Neighbouring(g, K)
  BY <1>3, ListLinks DEF State
<1>8. Rest(g, K, M, G, NULL)
  <2>1. \A x \in K : g.hdr[x].is_free <=> x \in G /\ x # NULL
    BY <1>1, <1>5, <1>6
  <2> QED
    BY <1>1, <1>3, <2>1 DEF Rest
<1>9. CalmBut(g, K, {})
  <2> SUFFICES ASSUME NEW x \in K, g.hdr[x].is_free PROVE ~Free(g, g.hdr[x].next)
    BY DEF CalmBut
  <2>1. x # b /\ h.hdr[x].is_free /\ g.hdr[x].next = h.hdr[x].next /\ x \in L
    BY <1>1, <1>6
  <2>2. ~Free(h, h.hdr[x].next)
    BY <1>4, <2>1 DEF CalmBut
  <2>3. g.hdr[x].next \in K \cup {NULL}
    BY <1>7 DEF Neighbouring
  <2> QED
    BY <1>6, <2>1, <2>2, <2>3 DEF Free
<1>10. Tidy(g, K, M, G)
  BY <1>8, <1>9 DEF Tidy
<1>11. Used(K, M, G) = V \cup {b} /\ b \notin V
  BY <1>1, <1>5 DEF Used
<1>12. Kept(h, g, V)
  <2>1. \A x \in V : x \in K \cup M /\ x # b
    BY <1>1, <1>11 DEF Used
  <2> QED
    BY <1>6, <2>1 DEF Kept
<1> HIDE DEF V
<1>13. Gets(h, g, K, M, G, V, r.ptr, b, size)
  BY <1>2, <1>6, <1>11, <1>12 DEF Gets
<1> QED
  BY <1>2, <1>10, <1>13

-----------------------------------------------------------------------------
(* Blocks x and y are taken out of the histogram, x being in it. *)
LEMMA RemoveTwo ==
    ASSUME NEW h, NEW L, NEW M, NEW F, Tidy(h, L, M, F), NEW x, x \in F, NEW y, y \in L,
           NEW m, m = histogramRemove(histogramRemove(h, x), y), m.flaws = {},
           NEW G, G = (F \ {x}) \ {y}
    PROVE  State(m, L, M, L \cup M, G) /\ Same(h, m, L \cup M)
<1> DEFINE g == histogramRemove(h, x)
           k == histogramRemove(g, y)
           H == F \ {x}
<1>0. TidyFacts(h, L, M, F)
  BY TidyIs
<1>1. State(h, L, M, L \cup M, F) /\ F \subseteq L
  BY <1>0 DEF TidyFacts
<1>2. State(g, L, M, L \cup M, H) /\ Same(h, g, L \cup M)
  BY <1>1, RemoveState
<1>3. m = k /\ k.flaws = {} /\ y \in L \cup M
  OBVIOUS
<1> HIDE DEF g, H
<1>4. State(k, L, M, L \cup M, H \ {y}) /\ Same(g, k, L \cup M)
  BY <1>2, <1>3, RemoveState
<1> HIDE DEF k
<1>5. Same(h, k, L \cup M)
  BY <1>2, <1>4, SameTrans
<1>6. G = H \ {y}
  BY DEF H
<1> QED
  BY <1>3, <1>4, <1>5, <1>6

(* Block a takes in block b, both out of the histogram. *)
TookIn(h, k, L, K, M, N, G, a, b) ==
    /\ State(k, K, M, N, G) /\ Merged(h, k, L \cup M, a, b)
    /\ k.brk = h.brk /\ k.lost = h.lost

LEMMA TakeIn ==
    ASSUME NEW h, NEW m, NEW L, NEW M, NEW N, NEW G, State(m, L, M, N, G), Same(h, m, L \cup M),
           NEW a, a \in L, a \in N, a \notin G, NEW b, b \in L, b \notin G, h.hdr[a].next = b,
           NEW K, K = L \ {b}, NEW N2, N2 = N \ {b}, NEW k, k = Absorb(m, a, b)
    PROVE  TookIn(h, k, L, K, M, N2, G, a, b)
<1>1. m.hdr[a].next = b
  BY DEF Same
<1>2. State(k, K, M, N2, G) /\ Absorbed(m, k, L \cup M, a, b)
  BY <1>1, AbsorbState
<1>3. Merged(h, k, L \cup M, a, b)
  BY <1>2 DEF Absorbed, Same, Merged
<1>4. k.brk = h.brk /\ k.lost = h.lost
  BY <1>2 DEF Absorbed, Same
<1> QED
  BY <1>2, <1>3, <1>4 DEF TookIn

(* The state of a block that the client holds, and of its neighbours. *)
HeldAt(h, L, M, F, c, p, n) ==
    /\ TidyFacts(h, L, M, F) /\ c \in L /\ c \notin F
    /\ p = h.hdr[c].prev /\ n = h.hdr[c].next /\ c \notin M /\ c # NULL
    /\ p \in L \cup {NULL} /\ n \in L \cup {NULL} /\ p # c /\ n # c
    /\ p # NULL => h.hdr[p].next = c /\ p \in L /\ p \notin M
    /\ n # NULL => h.hdr[n].prev = c /\ n \in L /\ n \notin M
    /\ p # NULL => p # n
    /\ Free(h, p) <=> p \in F
    /\ Free(h, n) <=> n \in F
    /\ \A x \in L : x # p => h.hdr[x].next # c
    /\ \A x \in L : x # c /\ n # NULL => h.hdr[x].next # n

(* A block that the client holds has neighbours of the list, or none.      *)
LEMMA HeldAtIs ==
    ASSUME NEW h, NEW L, NEW M, NEW F, Tidy(h, L, M, F), NEW c, c \in L, c \notin F,
           NEW p, p = h.hdr[c].prev, NEW n, n = h.hdr[c].next
    PROVE  HeldAt(h, L, M, F, c, p, n)
<1>1. TidyFacts(h, L, M, F)
  BY TidyIs
<1>2. /\ F \subseteq L /\ NULL \notin L \cup M /\ Neighbouring(h, L) /\ \A x \in L : x \notin M
      /\ \A x \in L : h.hdr[x].is_free <=> x \in F
      /\ HeapOK(h, L, M) /\ Headers(h, L \cup M)
  BY <1>1 DEF TidyFacts
<1>3. /\ p \in L \cup {NULL} /\ n \in L \cup {NULL} /\ p # c /\ n # c
      /\ p # NULL => h.hdr[p].next = c
      /\ n # NULL => h.hdr[n].prev = c
  BY <1>2 DEF Neighbouring
<1>4. p # NULL => p # n
  <2> SUFFICES ASSUME p # NULL, p = n PROVE FALSE
    OBVIOUS
  <2>1. Apart(h, L) /\ p \in L
    BY <1>2, <1>3 DEF HeapOK
  <2>2. c + META + h.hdr[c].size <= p /\ p + META + h.hdr[p].size <= c
    BY <1>2, <1>3, <2>1 DEF Apart
  <2>3. c \in Nat /\ p \in Nat /\ h.hdr[c].size \in Nat /\ h.hdr[p].size \in Nat
    BY <1>2, <2>1, HeaderIs
  <2> QED
    BY <2>2, <2>3, Constants
<1>5. (Free(h, p) <=> p \in F) /\ (Free(h, n) <=> n \in F)
  BY <1>2, <1>3 DEF Free
<1>6. \A x \in L : x # p => h.hdr[x].next # c
  BY <1>2 DEF Neighbouring
<1>7. \A x \in L : x # c /\ n # NULL => h.hdr[x].next # n
  BY <1>2, <1>3 DEF Neighbouring
<1> QED
  BY <1>1, <1>2, <1>3, <1>4, <1>5, <1>6, <1>7 DEF HeldAt

-----------------------------------------------------------------------------
LEMMA TakeTwo ==
    ASSUME NEW h, IsHeap(h), NEW x, NEW y, NEW a, NEW b, NEW m, NEW k,
           m = histogramRemove(histogramRemove(h, x), y), k = Absorb(m, a, b)
    PROVE  Later(m, k) /\ IsHeap(m) /\ IsHeap(k) /\ Later(h, k)
<1> DEFINE g == histogramRemove(h, x)
<1>1. Later(h, g)
  BY LaterRemove
<1> HIDE DEF g
<1>2. m = histogramRemove(g, y)
  BY DEF g
<1>3. Later(g, m)
  BY <1>1, <1>2, LaterRemove DEF Later
<1>4. Later(m, k)
  BY <1>3, LaterAbsorb DEF Later
<1> QED
  BY <1>1, <1>3, <1>4 DEF Later

(* The block before c takes c in. *)
LEMMA PreviousIn ==
    ASSUME NEW h, NEW L, NEW M, NEW F, Tidy(h, L, M, F), NEW c, NEW p, NEW n, HeldAt(h, L, M, F, c, p, n),
           p \in F, NEW k, k = Absorb(histogramRemove(histogramRemove(h, p), c), p, c), k.flaws = {},
           NEW K, K = L \ {c}, NEW G, G = F \ {p}
    PROVE  TookIn(h, k, L, K, M, K \cup M, G, p, c)
<1> DEFINE m == histogramRemove(histogramRemove(h, p), c)
           N == L \cup M
           N2 == N \ {c}
<1>1. /\ IsHeap(h) /\ c \in L /\ c \notin F /\ c \notin M /\ p \in L /\ h.hdr[p].next = c
      /\ F \subseteq L /\ NULL \notin L \cup M
  BY DEF HeldAt, TidyFacts
<1>2. m = histogramRemove(histogramRemove(h, p), c) /\ k = Absorb(m, p, c)
  OBVIOUS
<1> HIDE DEF m
<1>3. m.flaws = {}
  BY <1>1, <1>2, TakeTwo DEF Later
<1>4. G = (F \ {p}) \ {c}
  BY <1>1
<1>5. State(m, L, M, L \cup M, G) /\ Same(h, m, L \cup M)
  BY <1>1, <1>2, <1>3, <1>4, RemoveTwo
<1>6. p \notin G /\ c \notin G /\ p \in N /\ N2 = N \ {c} /\ N2 = K \cup M /\ State(m, L, M, N, G)
  BY <1>1, <1>5
<1> HIDE DEF N, N2
<1>7. TookIn(h, k, L, K, M, N2, G, p, c)
  BY <1>1, <1>2, <1>5, <1>6, TakeIn
<1> QED
  BY <1>6, <1>7

(* The block that is to grow takes in one that is free, or is taken in. *)
LEMMA TookInGrew ==
    ASSUME NEW h, NEW L, NEW M, NEW F, NEW c, NEW p, NEW n, HeldAt(h, L, M, F, c, p, n),
           NEW k, NEW K, NEW G, NEW a, NEW b, TookIn(h, k, L, K, M, K \cup M, G, a, b),
           K = L \ {b}, G = F \ {a, b},
           \/ a = p /\ b = c /\ p \in F
           \/ a = c /\ b = n /\ n \in F,
           NEW size, k.hdr[a].size >= size
    PROVE  Grew(h, k, L, K, M, F, G, c, a, size)
<1>1. /\ State(k, K, M, K \cup M, G) /\ Merged(h, k, L \cup M, a, b)
  BY DEF TookIn
<1>2. /\ c \in L /\ c \notin F /\ c \notin M /\ F \subseteq L /\ NULL \notin L \cup M
      /\ p \in F => p \in L /\ p \notin M /\ p # c
      /\ n \in F => n \in L /\ n \notin M /\ n # c
      /\ \A x \in L : x \notin M
  BY DEF HeldAt, TidyFacts
<1>3. a \in L /\ b \in L /\ a # b /\ a \in K /\ a \notin G /\ a \in F \cup {c} /\ b \notin M /\ a \notin M
  BY <1>2
<1>4. K \G = ((L \ F) \ {c}) \cup {a} /\ G \subseteq K /\ K \subseteq L
  BY <1>2, <1>3
<1>5. \A x \in K : x # a => (x \in G <=> x \in F)
  OBVIOUS
<1>6. \A x \in K \cup M : x \in (L \cup M) \ {b}
  BY <1>3
<1>7. \A x \in K \cup M : x # a => /\ k.hdr[x].size = h.hdr[x].size /\ k.hdr[x].addr = h.hdr[x].addr
                                   /\ k.hdr[x].is_free = h.hdr[x].is_free
                                   /\ k.hdr[x].next = h.hdr[x].next
  BY <1>1, <1>6 DEF Merged
<1>8. Holds(a, c, K \cup M)
  BY <1>2, <1>3 DEF Holds
<1> QED
  BY <1>1, <1>3, <1>4, <1>5, <1>7, <1>8 DEF Grew

(* A block that has taken in another one holds both sizes.                 *)
LEMMA TookInSize ==
    ASSUME NEW h, NEW L, NEW M, NEW F, TidyFacts(h, L, M, F), NEW k, NEW K, NEW N, NEW G,
           NEW a, a \in L, NEW b, b \in L, a # b, TookIn(h, k, L, K, M, N, G, a, b),
           NEW size, size \in Nat, h.hdr[a].size + h.hdr[b].size >= size
    PROVE  k.hdr[a].size >= size
<1>1. k.hdr[a].size = h.hdr[a].size + META + h.hdr[b].size
  BY DEF TookIn, Merged
<1>2. h.hdr[a].size \in Nat /\ h.hdr[b].size \in Nat
  BY DEF TidyFacts
<1> QED
  BY <1>1, <1>2, Constants

(* srealloc that has taken c into the free block before it.                *)
LEMMA GrowPrevious ==
    ASSUME NEW h, NEW L, NEW M, NEW F, Tidy(h, L, M, F), NEW c, NEW p, NEW n, HeldAt(h, L, M, F, c, p, n),
           p \in F, NEW k, k = Absorb(histogramRemove(histogramRemove(h, p), c), p, c),
           NEW size, size \in Nat, h.hdr[p].size + h.hdr[c].size >= size,
           NEW overwrite, NEW r, r = Settle(k, p, c, size, overwrite)
    PROVE  Outcome(h, L, M, F, Used(L, M, F) \ {c}, r, size)
<1> DEFINE K == L \ {c}
           G == F \ {p}
<1>1. IsHeap(h) /\ c \in L /\ c \notin F /\ TidyFacts(h, L, M, F) /\ p # c /\ p \in L
  BY DEF HeldAt, TidyFacts
<1>2. IsHeap(k)
  BY <1>1, TakeTwo
<1> SUFFICES ASSUME r.heap.flaws = {} PROVE Outcome(h, L, M, F, Used(L, M, F) \ {c}, r, size)
  BY DEF Outcome
<1>3. k.flaws = {}
  BY <1>2, SettleIs DEF Later
<1>4. K = L \ {c} /\ G = F \ {p} /\ G = F \ {p, c}
  BY <1>1
<1> HIDE DEF K, G
<1>5. TookIn(h, k, L, K, M, K \cup M, G, p, c)
  BY <1>3, <1>4, PreviousIn
<1>6. k.hdr[p].size >= size
  BY <1>1, <1>5, TookInSize
<1>7. Grew(h, k, L, K, M, F, G, c, p, size)
  BY <1>4, <1>5, <1>6, TookInGrew
<1> QED
  BY <1>1, <1>7, GrewOutcome

-----------------------------------------------------------------------------
(* Block c takes in the block behind it. *)
LEMMA GrowNext ==
    ASSUME NEW h, NEW L, NEW M, NEW F, Tidy(h, L, M, F), NEW c, NEW p, NEW n, HeldAt(h, L, M, F, c, p, n),
           n \in F, NEW k, k = Absorb(histogramRemove(histogramRemove(h, n), c), c, n),
           NEW size, size \in Nat, h.hdr[n].size + h.hdr[c].size >= size,
           NEW overwrite, NEW r, r = Settle(k, c, c, size, overwrite)
    PROVE  Outcome(h, L, M, F, Used(L, M, F) \ {c}, r, size)
<1> DEFINE m == histogramRemove(histogramRemove(h, n), c)
           K == L \ {n}
           G == F \ {n}
           N == L \cup M
           N2 == N \ {n}
<1>1. /\ IsHeap(h) /\ c \in L /\ c \notin F /\ TidyFacts(h, L, M, F) /\ n # c /\ n \in L /\ n \notin M
      /\ h.hdr[c].next = n
  BY DEF HeldAt, TidyFacts
<1>2. m = histogramRemove(histogramRemove(h, n), c) /\ k = Absorb(m, c, n)
  OBVIOUS
<1> HIDE DEF m
<1>3. IsHeap(k) /\ Later(m, k)
  BY <1>1, <1>2, TakeTwo
<1> SUFFICES ASSUME r.heap.flaws = {} PROVE Outcome(h, L, M, F, Used(L, M, F) \ {c}, r, size)
  BY DEF Outcome
<1>4. k.flaws = {} /\ m.flaws = {}
  <2>1. k.flaws = {}
    BY <1>3, SettleIs DEF Later
  <2> QED
    BY <1>3, <2>1 DEF Later
<1>5. /\ K = L \ {n} /\ G = F \ {n, c} /\ G = F \ {c, n} /\ G = (F \ {n}) \ {c} /\ c \notin G /\ n \notin G /\ c \in N
      /\ N2 = N \ {n} /\ N2 = K \cup M /\ N = L \cup M
  BY <1>1
<1> HIDE DEF K, G, N, N2
<1>6. State(m, L, M, L \cup M, G) /\ Same(h, m, L \cup M)
  BY <1>1, <1>2, <1>4, <1>5, RemoveTwo
<1>7. State(m, L, M, N, G)
  BY <1>5, <1>6
<1>8. TookIn(h, k, L, K, M, N2, G, c, n)
  BY <1>1, <1>2, <1>5, <1>6, <1>7, TakeIn
<1>9. TookIn(h, k, L, K, M, K \cup M, G, c, n)
  BY <1>5, <1>8
<1>10. h.hdr[c].size + h.hdr[n].size >= size
  <2>1. h.hdr[c].size \in Nat /\ h.hdr[n].size \in Nat
    BY <1>1 DEF TidyFacts
  <2> QED
    BY <2>1
<1>11. k.hdr[c].size >= size
  BY <1>1, <1>9, <1>10, TookInSize
<1>12. Grew(h, k, L, K, M, F, G, c, c, size)
  BY <1>5, <1>9, <1>11, TookInGrew
<1> QED
  BY <1>1, <1>12, GrewOutcome

LEMMA TakeThree ==
    ASSUME NEW h, IsHeap(h), NEW x, NEW y, NEW z, NEW m2, NEW m, NEW k1, NEW k,
           m2 = histogramRemove(histogramRemove(h, x), y), m = histogramRemove(m2, z),
           k1 = Absorb(m, x, y), k = Absorb(k1, x, z)
    PROVE  IsHeap(k) /\ Later(m2, m) /\ Later(m, k1) /\ Later(k1, k)
<1> DEFINE g == histogramRemove(h, x)
<1>1. Later(h, g)
  BY LaterRemove
<1> HIDE DEF g
<1>2. m2 = histogramRemove(g, y)
  BY DEF g
<1>3. Later(g, m2)
  BY <1>1, <1>2, LaterRemove DEF Later
<1>4. Later(m2, m)
  BY <1>3, LaterRemove DEF Later
<1>5. Later(m, k1)
  BY <1>4, LaterAbsorb DEF Later
<1>6. Later(k1, k)
  BY <1>5, LaterAbsorb DEF Later
<1> QED
  BY <1>4, <1>5, <1>6 DEF Later

(* The block before c takes in c and the block behind it. *)
LEMMA GrowBoth ==
    ASSUME NEW h, NEW L, NEW M, NEW F, Tidy(h, L, M, F), NEW c, NEW p, NEW n, HeldAt(h, L, M, F, c, p, n),
           n \in F, p \in F,
           NEW k, k = Absorb(Absorb(histogramRemove(histogramRemove(histogramRemove(h, p), c), n), p, c), p, n),
           NEW size, size \in Nat, h.hdr[p].size + h.hdr[c].size + h.hdr[n].size >= size,
           NEW overwrite, NEW r, r = Settle(k, p, c, size, overwrite)
    PROVE  Outcome(h, L, M, F, Used(L, M, F) \ {c}, r, size)
<1> DEFINE m2 == histogramRemove(histogramRemove(h, p), c)
           m == histogramRemove(m2, n)
           k1 == Absorb(m, p, c)
           N == L \cup M
           N1 == N \ {c}
           K1 == L \ {c}
           N2 == N1 \ {n}
           K == K1 \ {n}
           G1 == F \ {p}
           G == G1 \ {n}
<1>1. /\ IsHeap(h) /\ c \in L /\ c \notin F /\ TidyFacts(h, L, M, F) /\ n # c /\ n \in L /\ n \notin M
      /\ h.hdr[c].next = n /\ c \notin M /\ p # c /\ p \in L /\ p \notin M /\ h.hdr[p].next = c /\ p # n
      /\ F \subseteq L
  BY DEF HeldAt, TidyFacts
<1>2. m2 = histogramRemove(histogramRemove(h, p), c) /\ m = histogramRemove(m2, n)
      /\ k1 = Absorb(m, p, c) /\ k = Absorb(k1, p, n)
  OBVIOUS
<1> HIDE DEF m2, m, k1
<1>3. IsHeap(k) /\ Later(m2, m) /\ Later(m, k1) /\ Later(k1, k)
  BY <1>1, <1>2, TakeThree
<1> SUFFICES ASSUME r.heap.flaws = {} PROVE Outcome(h, L, M, F, Used(L, M, F) \ {c}, r, size)
  BY DEF Outcome
<1>4. k.flaws = {} /\ k1.flaws = {} /\ m.flaws = {} /\ m2.flaws = {}
  <2>1. k.flaws = {}
    BY <1>3, SettleIs DEF Later
  <2> QED
    BY <1>3, <2>1 DEF Later
<1>5. /\ G1 = (F \ {p}) \ {c} /\ G = G1 \ {n} /\ n \in N /\ K1 = L \ {c} /\ K = K1 \ {n} /\ N = L \cup M
      /\ N1 = N \ {c} /\ N2 = N1 \ {n} /\ N2 = K \cup M /\ N1 = K1 \cup M
      /\ p \in N /\ p \notin G /\ c \notin G /\ n \notin G /\ p \in N1 /\ p \in K1 /\ n \in K1 /\ p # n
      /\ n \in G1
  BY <1>1
<1> HIDE DEF N, N1, N2, K, K1, G, G1
<1>6. State(m2, L, M, L \cup M, G1) /\ Same(h, m2, L \cup M)
  BY <1>1, <1>2, <1>4, <1>5, RemoveTwo
<1>7. State(m2, L, M, N, G1)
  BY <1>5, <1>6
<1>8. State(m, L, M, N, G) /\ Same(m2, m, L \cup M)
  <2>1. State(histogramRemove(m2, n), L, M, N, G1 \ {n}) /\ Same(m2, histogramRemove(m2, n), L \cup M)
    BY <1>5, <1>7, RemoveState
  <2> QED
    BY <1>2, <1>5, <2>1
<1>9. Same(h, m, L \cup M)
  BY <1>6, <1>8, SameTrans
<1>10. TookIn(h, k1, L, K1, M, N1, G, p, c)
  BY <1>1, <1>2, <1>5, <1>8, <1>9, TakeIn
<1>11. State(k1, K1, M, N1, G) /\ Merged(h, k1, L \cup M, p, c)
  BY <1>10 DEF TookIn
<1>12. k1.hdr[p].next = n /\ k1.hdr[p].size = h.hdr[p].size + META + h.hdr[c].size /\ k1.hdr[n].size = h.hdr[n].size
  BY <1>1, <1>11 DEF Merged
<1>13. Same(k1, k1, K1 \cup M)
  BY <1>11, StateFacts DEF Same, Facts, Headers
<1>14. TookIn(k1, k, K1, K, M, N2, G, p, n)
  BY <1>2, <1>5, <1>11, <1>12, <1>13, TakeIn
<1>15. State(k, K, M, K \cup M, G) /\ Merged(k1, k, K1 \cup M, p, n)
  BY <1>5, <1>14 DEF TookIn
<1>16. k.hdr[p].size >= size
  <2>1. k.hdr[p].size = k1.hdr[p].size + META + k1.hdr[n].size
    BY <1>5, <1>15 DEF Merged
  <2>2. h.hdr[p].size \in Nat /\ h.hdr[n].size \in Nat /\ h.hdr[c].size \in Nat
    BY <1>1 DEF TidyFacts
  <2> QED
    BY <1>12, <2>1, <2>2, Constants
<1>17. \A x \in K \cup M : x # p => /\ k.hdr[x].size = h.hdr[x].size /\ k.hdr[x].addr = h.hdr[x].addr
                                    /\ k.hdr[x].is_free = h.hdr[x].is_free
                                    /\ k.hdr[x].next = h.hdr[x].next
  <2>1. \A x \in K \cup M : x \in (K1 \cup M) \ {n} /\ x \in (L \cup M) \ {c}
    BY <1>1, <1>5
  <2>2. \A x \in K \cup M : x # p => /\ k.hdr[x].size = k1.hdr[x].size /\ k.hdr[x].addr = k1.hdr[x].addr
                                    /\ k.hdr[x].is_free = k1.hdr[x].is_free
                                    /\ k.hdr[x].next = k1.hdr[x].next
    BY <1>15, <2>1 DEF Merged
  <2>3. \A x \in K \cup M : x # p => /\ k1.hdr[x].size = h.hdr[x].size /\ k1.hdr[x].addr = h.hdr[x].addr
                                    /\ k1.hdr[x].is_free = h.hdr[x].is_free
                                    /\ k1.hdr[x].next = h.hdr[x].next
    BY <1>11, <2>1 DEF Merged
  <2> QED
    BY <2>2, <2>3
<1>18. Holds(p, c, K \cup M)
  BY <1>1, <1>5 DEF Holds
<1>19. /\ K \subseteq L /\ p \in K /\ p \notin G /\ p \in F \cup {c} /\ G \subseteq K
       /\ \A x \in K : x # p => (x \in G <=> x \in F)
       /\ K \ G = ((L \ F) \ {c}) \cup {p}
  BY <1>1, <1>5
<1>20. Grew(h, k, L, K, M, F, G, c, p, size)
  BY <1>15, <1>16, <1>17, <1>18, <1>19 DEF Grew
<1> QED
  BY <1>1, <1>20, GrewOutcome

-----------------------------------------------------------------------------
(* Block p, which has taken c in, is the last one and grows to size bytes. *)
Stretched(k, p, size, cs, ps) ==
    [k EXCEPT !.hdr[p].size = size, !.brk = @ + size - cs, !.lost = @ + ps + META]

(* The sizes and the break after sbrk.                                     *)
LEMMA StretchedIs ==
    ASSUME NEW k, NEW B, Headers(k, B), NEW p, p \in B, NEW size, size \in Nat,
           k.brk \in Nat, k.lost \in Nat, NEW cs, cs \in Nat, NEW ps, ps \in Nat
    PROVE  Resized(k, Stretched(k, p, size, cs, ps), B, p, size, size - cs, ps + META)
<1> DEFINE g == Stretched(k, p, size, cs, ps)
<1>1. /\ IsHeap(k) /\ B \subseteq DOMAIN k.hdr
      /\ \A x \in B : k.hdr[x] \in MallocMetadata
  BY DEF Headers
<1>3. /\ IsHeap(g) /\ DOMAIN g.hdr = DOMAIN k.hdr /\ g.flaws = k.flaws
      /\ g.metadata = k.metadata /\ g.mmap_list = k.mmap_list /\ g.histogram = k.histogram
      /\ g.brk = k.brk + size - cs /\ g.lost = k.lost + ps + META /\ g.uninit = k.uninit
  BY <1>1 DEF IsHeap, Fields, Stretched
<1>4. \A x \in B :
         /\ g.hdr[x] \in MallocMetadata
         /\ x # p => g.hdr[x].is_free = k.hdr[x].is_free
         /\ g.hdr[x].addr = k.hdr[x].addr
         /\ g.hdr[x].next = k.hdr[x].next /\ g.hdr[x].prev = k.hdr[x].prev
         /\ g.hdr[x].hist_next = k.hdr[x].hist_next /\ g.hdr[x].hist_prev = k.hdr[x].hist_prev
         /\ g.hdr[x].size = IF x = p THEN size ELSE k.hdr[x].size
  BY <1>1 DEF IsHeap, Fields, MallocMetadata, Stretched
<1> HIDE DEF g
<1>5. g.brk = k.brk + (size - cs) /\ g.lost = k.lost + (ps + META)
  BY <1>3, Constants
<1>6. Resized(k, g, B, p, size, size - cs, ps + META)
  BY <1>3, <1>4, <1>5 DEF Resized
<1> QED
  BY <1>6 DEF g

(* srealloc that has done so at the end of the heap and moved the break.   *)
LEMMA GrowLastPrevious ==
    ASSUME NEW h, NEW L, NEW M, NEW F, Tidy(h, L, M, F), NEW c, NEW p, NEW n, HeldAt(h, L, M, F, c, p, n),
           p \in F, n = NULL, NEW k, k = Absorb(histogramRemove(histogramRemove(h, p), c), p, c),
           NEW size, size \in Nat, Aligned(size), NEW cs, cs = h.hdr[c].size, NEW ps, ps = h.hdr[p].size,
           Room(h, size - cs),
           NEW k2, k2 = Stretched(k, p, size, cs, ps),
           NEW overwrite, NEW r, r = Settle(k2, p, c, size, overwrite)
    PROVE  Outcome(h, L, M, F, Used(L, M, F) \ {c}, r, size)
<1> DEFINE K == L \ {c}
           G == F \ {p}
           d == size - cs
           l == ps + META
<1>1. /\ IsHeap(h) /\ c \in L /\ c \notin F /\ TidyFacts(h, L, M, F) /\ p # c /\ p \in L
      /\ HeapOK(h, L, M) /\ F \subseteq L /\ h.hdr[p].next = c /\ h.hdr[c].next = NULL /\ c # NULL
      /\ c \notin M /\ cs \in Nat /\ ps \in Nat /\ p \in Nat /\ \A x \in L : x \notin M
  BY DEF HeldAt, TidyFacts
<1>2. IsHeap(k)
  BY <1>1, TakeTwo
<1> SUFFICES ASSUME r.heap.flaws = {} PROVE Outcome(h, L, M, F, Used(L, M, F) \ {c}, r, size)
  BY DEF Outcome
<1>3. k.flaws = {}
  <2>1. IsHeap(k2) /\ k2.flaws = k.flaws
    BY <1>2 DEF Stretched, IsHeap, Fields
  <2> QED
    BY <2>1, SettleIs DEF Later
<1>4. /\ K = L \ {c} /\ G = F \ {p} /\ p \in K /\ p \notin G /\ p \in F \cup {c} /\ G \subseteq K /\ K \subseteq L
      /\ \A x \in K : x # p => (x \in G <=> x \in F)
      /\ K \ G = ((L \ F) \ {c}) \cup {p}
      /\ \A x \in K \cup M : x \in (L \cup M) \ {c}
      /\ c \notin K \cup M
  BY <1>1
<1> HIDE DEF K, G
<1>5. TookIn(h, k, L, K, M, K \cup M, G, p, c)
  BY <1>3, <1>4, PreviousIn
<1>6. State(k, K, M, K \cup M, G) /\ Merged(h, k, L \cup M, p, c) /\ k.brk = h.brk
  BY <1>5 DEF TookIn
<1>7. /\ k.hdr[p].next = NULL /\ k.hdr[p].size = ps + META + cs
  BY <1>1, <1>6 DEF Merged
<1>8. HeapOK(k, K, M) /\ Headers(k, K \cup M) /\ p \in K \cup M
  <2>1. HeapOK(k, K, M)
    BY <1>6 DEF State
  <2>2. Headers(k, K \cup M)
    BY <2>1 DEF HeapOK
  <2>3. p \in K \cup M
    BY <1>4
  <2> QED
    BY <2>1, <2>2, <2>3
<1>9. k.brk \in Nat /\ k.lost \in Nat
  BY <1>8, Constants DEF HeapOK
<1>10. Resized(k, k2, K \cup M, p, size, d, l)
  BY <1>1, <1>8, <1>9, StretchedIs
<1>11. Aligned(h.brk + d) /\ c + META + size <= h.brk + d /\ c \in Nat
  BY <1>1, BreakAligned
<1>12. p + META + ps <= c
  BY <1>1 DEF HeapOK, Apart
<1>13. /\ d \in Int /\ l \in Nat /\ k.brk + d <= Limit + 1 /\ p + META + size <= k.brk + d
       /\ size + l = k.hdr[p].size + d /\ Aligned(k.brk + d)
  BY <1>1, <1>6, <1>7, <1>9, <1>11, <1>12, Constants DEF Room
<1> HIDE DEF d, l
<1>14. State(k2, K, M, K \cup M, G)
  BY <1>4, <1>6, <1>7, <1>10, <1>13, ResizeState
<1>15. k2.hdr[p].size >= size
  <2>1. k2.hdr[p].size = size
    BY <1>8, <1>10 DEF Resized
  <2> QED
    BY <2>1
<1>16. \A x \in K \cup M : x # p => /\ k2.hdr[x].size = h.hdr[x].size /\ k2.hdr[x].addr = h.hdr[x].addr
                                    /\ k2.hdr[x].is_free = h.hdr[x].is_free
                                    /\ k2.hdr[x].next = h.hdr[x].next
  <2>1. \A x \in K \cup M : x # p => /\ k2.hdr[x].size = k.hdr[x].size /\ k2.hdr[x].addr = k.hdr[x].addr
                                    /\ k2.hdr[x].is_free = k.hdr[x].is_free
                                    /\ k2.hdr[x].next = k.hdr[x].next
    BY <1>10 DEF Resized
  <2>2. \A x \in K \cup M : x # p => /\ k.hdr[x].size = h.hdr[x].size /\ k.hdr[x].addr = h.hdr[x].addr
                                    /\ k.hdr[x].is_free = h.hdr[x].is_free
                                    /\ k.hdr[x].next = h.hdr[x].next
    BY <1>4, <1>6 DEF Merged
  <2> QED
    BY <2>1, <2>2
<1>17. Grew(h, k2, L, K, M, F, G, c, p, size)
  BY <1>4, <1>14, <1>15, <1>16 DEF Grew, Holds
<1> QED
  BY <1>1, <1>17, GrewOutcome

(* Block c is the last one and grows to size bytes. *)
LEMMA GrowLast ==
    ASSUME NEW h, NEW L, NEW M, NEW F, Tidy(h, L, M, F), NEW c, NEW p, NEW n, HeldAt(h, L, M, F, c, p, n),
           n = NULL, NEW g, g = histogramRemove(h, c),
           NEW size, size \in Nat, Aligned(size), Room(h, size - h.hdr[c].size),
           NEW k, k = Grown(g, c, size),
           NEW overwrite, NEW r, r = Settle(k, c, c, size, overwrite)
    PROVE  Outcome(h, L, M, F, Used(L, M, F) \ {c}, r, size)
<1>1. /\ IsHeap(h) /\ c \in L /\ c \notin F /\ TidyFacts(h, L, M, F) /\ State(h, L, M, L \cup M, F)
      /\ HeapOK(h, L, M) /\ F \subseteq L /\ h.hdr[c].next = NULL /\ c # NULL /\ c \in L \cup M
      /\ c \notin M /\ (\A x \in L : x \notin M)
  BY DEF HeldAt, TidyFacts
<1>2. IsHeap(g)
  BY <1>1, LaterRemove DEF Later
<1> SUFFICES ASSUME r.heap.flaws = {} PROVE Outcome(h, L, M, F, Used(L, M, F) \ {c}, r, size)
  BY DEF Outcome
<1>3. g.flaws = {}
  <2>1. IsHeap(k) /\ k.flaws = g.flaws
    BY <1>2 DEF Grown, IsHeap, Fields
  <2> QED
    BY <2>1, SettleIs DEF Later
<1>4. State(g, L, M, L \cup M, F) /\ Same(h, g, L \cup M)
  BY <1>1, <1>3, RemoveOut
<1>5. g.hdr[c].next = NULL /\ Room(g, size - g.hdr[c].size)
  BY <1>1, <1>4 DEF Same, Room
<1>6. State(k, L, M, L \cup M, F) /\ Resized(g, k, L \cup M, c, size, size - g.hdr[c].size, 0)
  BY <1>1, <1>4, <1>5, GrownState
<1>7. k.hdr[c].size = size
  BY <1>1, <1>6 DEF Resized
<1>8. \A x \in L \cup M : x # c => /\ k.hdr[x].size = h.hdr[x].size /\ k.hdr[x].addr = h.hdr[x].addr
                                   /\ k.hdr[x].is_free = h.hdr[x].is_free
                                   /\ k.hdr[x].next = h.hdr[x].next
  BY <1>4, <1>6 DEF Resized, Same
<1>9. L \ F = ((L \ F) \ {c}) \cup {c} /\ c \in F \cup {c} /\ \A x \in L : x # c => (x \in F <=> x \in F)
  BY <1>1
<1>10. Grew(h, k, L, L, M, F, F, c, c, size)
  BY <1>1, <1>6, <1>7, <1>8, <1>9 DEF Grew, Holds
<1> QED
  BY <1>1, <1>10, GrewOutcome

-----------------------------------------------------------------------------
LEMMA OutcomeOf ==
    ASSUME NEW h, NEW L, NEW M, NEW F, NEW U, NEW size, NEW k, NEW p,
           Outcome(h, L, M, F, U, Result(k, p), size), NEW r, r.heap = k, r.ptr = p
    PROVE  Outcome(h, L, M, F, U, r, size)
<1>1. Result(k, p).heap = k /\ Result(k, p).ptr = p
  BY DEF Result
<1> QED
  BY <1>1 DEF Outcome

(* A pointer that is returned belongs to a block. *)
LEMMA GotBlock ==
    ASSUME NEW h, NEW L, NEW M, NEW F, NEW U, NEW size, NEW r, Outcome(h, L, M, F, U, r, size),
           r.heap.flaws = {}
    PROVE  /\ r.ptr = NULL => \A V : Outcome(h, L, M, F, V, r, size)
           /\ r.ptr # NULL => \E L2, M2, F2, b : /\ Tidy(r.heap, L2, M2, F2)
                                                /\ Gets(h, r.heap, L2, M2, F2, U, r.ptr, b, size)
                                                /\ b \in Nat
<1>1. PICK L2, M2, F2 :
         /\ Tidy(r.heap, L2, M2, F2)
         /\ \/ /\ r.ptr = NULL /\ Used(L2, M2, F2) = Used(L, M, F)
               /\ Kept(h, r.heap, Used(L, M, F))
            \/ \E b : Gets(h, r.heap, L2, M2, F2, U, r.ptr, b, size)
  BY DEF Outcome
<1>2. ASSUME NEW b, Gets(h, r.heap, L2, M2, F2, U, r.ptr, b, size)
      PROVE  b \in Nat /\ r.ptr # NULL
  <2>1. b \in Used(L2, M2, F2) /\ r.ptr = b + META
    BY <1>2 DEF Gets
  <2>2. b \in L2 \cup M2
    BY <2>1 DEF Used
  <2>4. TidyFacts(r.heap, L2, M2, F2)
    BY <1>1, TidyIs
  <2>3. b \in Nat
    BY <2>2, <2>4 DEF TidyFacts
  <2> QED
    BY <2>1, <2>3, Constants
<1>3. ASSUME r.ptr = NULL, NEW V PROVE Outcome(h, L, M, F, V, r, size)
  BY <1>1, <1>2, <1>3 DEF Outcome
<1> QED
  BY <1>1, <1>2, <1>3

(* srealloc with a new block, as smalloc gives it.                         *)
LEMMA GrowElsewhere ==
    ASSUME NEW h, NEW L, NEW M, NEW F, Tidy(h, L, M, F), NEW c, c \in Used(L, M, F), HandsOut(h, c),
           NEW size, NEW q, Outcome(h, L, M, F, Used(L, M, F), q, size),
           NEW r, r = IF q.ptr = NULL \/ q.heap.flaws # {} THEN q
                      ELSE Settle(q.heap, q.ptr - META, c, size, FALSE)
    PROVE  Outcome(h, L, M, F, Used(L, M, F) \ {c}, r, size)
<1> DEFINE U == Used(L, M, F)
           k == q.heap
<1>1. CASE q.heap.flaws # {}
  BY <1>1 DEF Outcome
<1>2. CASE q.heap.flaws = {} /\ q.ptr = NULL
  BY <1>2, GotBlock
<1>3. CASE q.heap.flaws = {} /\ q.ptr # NULL
  <2>1. PICK L2, M2, F2, b : /\ Tidy(k, L2, M2, F2)
                             /\ Gets(h, k, L2, M2, F2, U, q.ptr, b, size)
                             /\ b \in Nat
    BY <1>3, GotBlock
  <2>2. /\ q.ptr = b + META /\ HandsOut(k, b) /\ b \notin U
        /\ Used(L2, M2, F2) = U \cup {b} /\ Kept(h, k, U) /\ k.hdr[b].size >= size
    BY <2>1 DEF Gets
  <2>3. q.ptr - META = b
    BY <2>1, <2>2, Constants
  <2> DEFINE no == FALSE
  <2>4. r = Settle(k, b, c, size, no)
    BY <1>3, <2>3
  <2>9. ~no
    OBVIOUS
  <2> HIDE DEF no
  <2> SUFFICES ASSUME r.heap.flaws = {} PROVE Outcome(h, L, M, F, U \ {c}, r, size)
    BY DEF Outcome
  <2>5. TidyFacts(k, L2, M2, F2)
    BY <2>1, TidyIs
  <2>6. IsHeap(k) /\ HeapOK(k, L2, M2) /\ F2 \subseteq L2
    BY <2>5 DEF TidyFacts
  <2>7. PICK used, s, g, d : SettleSteps(k, b, c, size, no, used, s, g, d, r)
    BY <2>4, <2>6, SettleIs
  <2>8. r.heap = d /\ d.flaws = {} /\ r.ptr = b + META /\ g.flaws = {} /\ g = Mark(k, b, FALSE)
    <3>1. SoundSteps(k, b, c, size, no, used, s, g, d, r)
      BY <2>7 DEF SoundSteps
    <3>2. SoundEnd(k, b, g, d, r)
      BY <3>1, SettleSound
    <3> QED
      BY <3>2 DEF SoundEnd
  <2>12. b \in Used(L2, M2, F2) /\ c \in Used(L2, M2, F2) /\ b # c /\ c \in U
    BY <2>2
  <2>13. Tidy(g, L2, M2, F2) /\ Marked(k, g, L2 \cup M2, b, FALSE)
    BY <2>1, <2>8, <2>12, MarkMapped
  <2>14. b \in L2 \cup M2 /\ c \in L2 \cup M2 /\ U \subseteq L2 \cup M2
    BY <2>2, <2>12 DEF Used
  <2>15. \A x \in L2 \cup M2 : g.hdr[x].addr = k.hdr[x].addr /\ g.hdr[x].size = k.hdr[x].size
    BY <2>13 DEF Marked
  <2>16. g.hdr[c].addr = c + META /\ g.hdr[b].addr = b + META
    BY <2>2, <2>12, <2>14, <2>15 DEF HandsOut, Kept
  <2>17. c \in Nat
    BY <2>5, <2>14 DEF TidyFacts
  <2>18. g.hdr[c].addr # g.hdr[b].addr
    BY <2>1, <2>12, <2>16, <2>17, Constants
  <2>19. c \in Listed(k)
    BY <2>6, <2>14, ListsAre DEF ListsOf, Listed
  <2>20. d = FlawIf(c \notin Listed(k), sfree(g, c + META), "phantom")
    BY <2>7, <2>9, <2>18 DEF SettleSteps
  <2>21. d = sfree(g, c + META)
    BY <2>19, <2>20 DEF FlawIf
  <2>22. Kept(h, g, U) /\ HandsOut(g, b) /\ g.hdr[b].size >= size
    BY <2>2, <2>14, <2>15, <2>16 DEF Kept, HandsOut
  <2> DEFINE p == b + META
  <2>23. p = b + META
    OBVIOUS
  <2> HIDE DEF p, U
  <2>24. Gets(h, g, L2, M2, F2, U, p, b, size)
    BY <2>2, <2>22, <2>23 DEF Gets
  <2>25. Result(g, p).heap = g /\ Result(g, p).ptr = p
    BY DEF Result
  <2>26. Outcome(h, L, M, F, U, Result(g, p), size)
    BY <2>13, <2>24, <2>25 DEF Outcome
  <2>27. p # NULL
    BY <2>1, <2>23, Constants
  <2>28. Outcome(h, L, M, F, U \ {c}, Result(d, p), size)
    BY <2>8, <2>12, <2>21, <2>26, <2>27, MoveOutcome DEF U
  <2> QED
    BY <2>8, <2>23, <2>28, OutcomeOf
<1> QED
  BY <1>1, <1>2, <1>3

-----------------------------------------------------------------------------
(* The branches of the growing part of srealloc. *)
Growing(h, c, size, p, n, wp, wn, wb, ws, g, overwrite, no, r) ==
    \/ Free(h, p) /\ h.hdr[p].size + h.hdr[c].size >= size /\ r = Settle(wp, p, c, size, overwrite)
    \/ Free(h, n) /\ h.hdr[n].size + h.hdr[c].size >= size /\ r = Settle(wn, c, c, size, no)
    \/ /\ Free(h, n) /\ Free(h, p) /\ h.hdr[p].size + h.hdr[c].size + h.hdr[n].size >= size
       /\ r = Settle(wb, p, c, size, overwrite)
    \/ n = NULL /\ Free(h, p) /\ r = Result(Flaw(wp, "united"), NULL)
    \/ n = NULL /\ Free(h, p) /\ Room(h, size - h.hdr[c].size) /\ r = Settle(ws, p, c, size, overwrite)
    \/ n = NULL /\ r = Result(h, NULL)
    \/ n = NULL /\ Room(h, size - h.hdr[c].size) /\ r = Settle(g, c, c, size, no)
    \/ \E q \in smalloc(h, size) :
          r = IF q.ptr = NULL \/ q.heap.flaws # {} THEN q
              ELSE Settle(q.heap, q.ptr - META, c, size, FALSE)

(* What Grow returns is the outcome of one of its branches.                *)
LEMMA GrowIs ==
    ASSUME NEW h, NEW c, NEW size, NEW r, r \in Grow(h, c, size)
    PROVE  LET p == h.hdr[c].prev
               n == h.hdr[c].next
               wp == Absorb(histogramRemove(histogramRemove(h, p), c), p, c)
               wn == Absorb(histogramRemove(histogramRemove(h, n), c), c, n)
               wb == Absorb(Absorb(histogramRemove(histogramRemove(histogramRemove(h, p), c), n), p, c), p, n)
           IN Growing(h, c, size, p, n, wp, wn, wb, Stretched(wp, p, size, h.hdr[c].size, h.hdr[p].size),
                      Grown(histogramRemove(h, c), c, size), size > h.hdr[p].size, FALSE, r)
BY Zenon DEF Grow, Growing, Stretched

(* srealloc that grows a block of the list: every branch.                  *)
LEMMA GrowOutcome ==
    ASSUME NEW h, NEW L, NEW M, NEW F, Tidy(h, L, M, F), DOMAIN h.hdr = L \cup M,
           NEW c, c \in L, c \notin F, HandsOut(h, c),
           NEW size, size \in Nat, Aligned(size), NEW r, r \in Grow(h, c, size)
    PROVE  Outcome(h, L, M, F, Used(L, M, F) \ {c}, r, size)
<1> DEFINE p == h.hdr[c].prev
           n == h.hdr[c].next
           wp == Absorb(histogramRemove(histogramRemove(h, p), c), p, c)
           wn == Absorb(histogramRemove(histogramRemove(h, n), c), c, n)
           wb == Absorb(Absorb(histogramRemove(histogramRemove(histogramRemove(h, p), c), n), p, c), p, n)
           cs == h.hdr[c].size
           ps == h.hdr[p].size
           ws == Stretched(wp, p, size, cs, ps)
           g == histogramRemove(h, c)
           gc == Grown(g, c, size)
           overwrite == size > ps
           no == FALSE
<1>1. Growing(h, c, size, p, n, wp, wn, wb, ws, gc, overwrite, no, r)
  BY GrowIs
<1>2. p = h.hdr[c].prev /\ n = h.hdr[c].next /\ cs = h.hdr[c].size /\ ps = h.hdr[p].size
  OBVIOUS
<1>3. wp = Absorb(histogramRemove(histogramRemove(h, p), c), p, c)
  OBVIOUS
<1>4. wn = Absorb(histogramRemove(histogramRemove(h, n), c), c, n)
  OBVIOUS
<1>5. wb = Absorb(Absorb(histogramRemove(histogramRemove(histogramRemove(h, p), c), n), p, c), p, n)
  OBVIOUS
<1>6. ws = Stretched(wp, p, size, cs, ps) /\ g = histogramRemove(h, c) /\ gc = Grown(g, c, size)
  OBVIOUS
<1> HIDE DEF p, n, wp, wn, wb, cs, ps, ws, g, gc, overwrite, no
<1>7. HeldAt(h, L, M, F, c, p, n)
  BY <1>2, HeldAtIs
<1>8. IsHeap(h) /\ (Free(h, p) => p \in F) /\ (Free(h, n) => n \in F) /\ c \in Used(L, M, F)
  BY <1>7 DEF HeldAt, TidyFacts, Used
<1>9. CASE p \in F /\ h.hdr[p].size + h.hdr[c].size >= size /\ r = Settle(wp, p, c, size, overwrite)
  BY <1>3, <1>7, <1>9, GrowPrevious
<1>10. CASE n \in F /\ h.hdr[n].size + h.hdr[c].size >= size /\ r = Settle(wn, c, c, size, no)
  BY <1>4, <1>7, <1>10, GrowNext
<1>11. CASE /\ n \in F /\ p \in F /\ h.hdr[p].size + h.hdr[c].size + h.hdr[n].size >= size
            /\ r = Settle(wb, p, c, size, overwrite)
  BY <1>5, <1>7, <1>11, GrowBoth
<1>12. CASE r = Result(Flaw(wp, "united"), NULL)
  <2>1. IsHeap(wp)
    BY <1>3, <1>8, TakeTwo
  <2>2. "united" \in Flaw(wp, "united").flaws
    BY <2>1, LaterFlaw
  <2>3. r.heap = Flaw(wp, "united")
    BY <1>12 DEF Result
  <2> QED
    BY <2>2, <2>3 DEF Outcome
<1>13. CASE n = NULL /\ p \in F /\ Room(h, size - cs) /\ r = Settle(ws, p, c, size, overwrite)
  BY <1>2, <1>3, <1>6, <1>7, <1>13, GrowLastPrevious
<1>14. CASE r = Result(h, NULL)
  BY <1>14, NoneOutcome
<1>15. CASE n = NULL /\ Room(h, size - h.hdr[c].size) /\ r = Settle(gc, c, c, size, no)
  BY <1>6, <1>7, <1>15, GrowLast
<1>16. CASE \E q \in smalloc(h, size) :
          r = IF q.ptr = NULL \/ q.heap.flaws # {} THEN q
              ELSE Settle(q.heap, q.ptr - META, c, size, FALSE)
  <2>1. PICK q \in smalloc(h, size) :
          r = IF q.ptr = NULL \/ q.heap.flaws # {} THEN q
              ELSE Settle(q.heap, q.ptr - META, c, size, FALSE)
    BY <1>16
  <2>2. Outcome(h, L, M, F, Used(L, M, F), q, size)
    BY <2>1, SmallocOutcome
  <2> QED
    BY <1>8, <2>1, <2>2, GrowElsewhere
<1> QED
  BY <1>1, <1>2, <1>8, <1>9, <1>10, <1>11, <1>12, <1>13, <1>14, <1>15, <1>16 DEF Growing

(* srealloc of a block that the client holds.                              *)
LEMMA SreallocOutcome ==
    ASSUME NEW h, NEW L, NEW M, NEW F, Tidy(h, L, M, F), DOMAIN h.hdr = L \cup M,
           NEW c, c \in Used(L, M, F), HandsOut(h, c), NEW p, p = c + META,
           NEW size, size \in Nat, Aligned(size), NEW r, r \in srealloc(h, p, size)
    PROVE  Outcome(h, L, M, F, Used(L, M, F) \ {c}, r, size)
<1> DEFINE d == p - META
<1>1. TidyFacts(h, L, M, F)
  BY TidyIs
<1>2. HeapOK(h, L, M) /\ c \in Nat \ {0} /\ h.hdr[c].size \in Nat
  BY <1>1 DEF TidyFacts, Used
<1>3. p # NULL /\ d = c
  BY <1>2, Constants
<1>4. \/ r = Result(h, NULL)
      \/ h.hdr[d].size < size /\ size >= MAP_MIN /\ h.hdr[d].size >= MAP_MIN /\ r \in MoveToMap(h, p, size)
      \/ h.hdr[d].size < size /\ ~(size >= MAP_MIN /\ h.hdr[d].size >= MAP_MIN) /\ r \in Grow(h, d, size)
      \/ ~(h.hdr[d].size < size) /\ size >= MAP_MIN /\ r \in MoveToMap(h, p, size)
      \/ ~(h.hdr[d].size < size) /\ r = Shrink(h, d, size)
  BY <1>3 DEF srealloc
<1> HIDE DEF d
<1>5. CASE r = Result(h, NULL)
  BY <1>5, NoneOutcome
<1>6. CASE size >= MAP_MIN /\ r \in MoveToMap(h, p, size)
  BY <1>6, MoveToMapOutcome
<1>7. CASE /\ h.hdr[d].size < size /\ ~(size >= MAP_MIN /\ h.hdr[d].size >= MAP_MIN)
           /\ r \in Grow(h, d, size)
  <2>1. c \notin M
    <3> SUFFICES ASSUME c \in M PROVE FALSE
      OBVIOUS
    <3>1. h.hdr[c].size >= MAP_MIN
      BY <1>2, MappedAbove
    <3>2. MAP_MIN \in Nat
      BY Constants DEF MAP_MIN
    <3> QED
      BY <1>2, <1>3, <1>7, <3>1, <3>2
  <2>2. c \in L /\ c \notin F
    BY <2>1 DEF Used
  <2> QED
    BY <1>3, <1>7, <2>2, GrowOutcome
<1>8. CASE ~(h.hdr[d].size < size) /\ r = Shrink(h, d, size)
  <2>1. h.hdr[c].size >= size
    BY <1>2, <1>3, <1>8
  <2> QED
    BY <1>3, <1>8, <2>1, ShrinkOutcome
<1> QED
  BY <1>4, <1>5, <1>6, <1>7, <1>8

-----------------------------------------------------------------------------
(* HEAPS OF EVERY CALL *)

(* Every call leaves a heap, however flawed.                               *)
LEMMA ResultIs == \A h, p : Result(h, p).heap = h /\ Result(h, p).ptr = p
BY DEF Result

LEMMA HandOutHeap ==
    ASSUME NEW h, IsHeap(h), NEW b
    PROVE  IsHeap(HandOut(h, b).heap)
BY LaterHandOut DEF Later

LEMMA AddLastHeap ==
    ASSUME NEW h, IsHeap(h), NEW first, NEW b, NEW size
    PROVE  IsHeap(AddLast(h, first, b, size))
<1> DEFINE last == IF first = NULL THEN NULL ELSE Last(h, first, "next")
           g == [h EXCEPT !.hdr = Write(@, b, Header(size, b + META, last))]
           k == [g EXCEPT !.hdr[last].next = b]
<1>1. IsHeap(g)
  BY DEF IsHeap
<1> HIDE DEF g
<1>2. IsHeap(k)
  BY <1>1 DEF IsHeap
<1> HIDE DEF k
<1>3. AddLast(h, first, b, size) = g \/ AddLast(h, first, b, size) = k
  BY Zenon DEF AddLast, g, k
<1> QED
  BY <1>1, <1>2, <1>3

LEMMA MapIsHeap ==
    ASSUME NEW h, IsHeap(h), NEW size, NEW r, r \in allocateNewMap(h, size)
    PROVE  IsHeap(r.heap)
<1> DEFINE count == Cardinality({b \in DOMAIN h.hdr : InMap(h, b)})
           b == Limit + 1 + count * (META + MAX_SIZE)
           g == AddLast(h, h.mmap_list, b, size)
           k == [g EXCEPT !.mmap_list = IF @ = NULL THEN b ELSE @]
<1>1. r = Result(h, NULL) \/ r = Result(k, b + META)
  BY DEF allocateNewMap
<1>2. IsHeap(g)
  BY AddLastHeap
<1> HIDE DEF g, b
<1>3. IsHeap(k)
  BY <1>2 DEF IsHeap
<1> HIDE DEF k
<1> QED
  BY <1>1, <1>3, ResultIs

LEMMA TakeHeap ==
    ASSUME NEW h, IsHeap(h), NEW b, NEW size
    PROVE  IsHeap(Take(h, b, size).heap)
<1> DEFINE used == [h EXCEPT !.hdr[b].is_free = FALSE]
           s == SplitIfLong(used, b, size)
           g == histogramRemove(s, b)
<1>1. IsHeap(used)
  BY DEF IsHeap
<1> HIDE DEF used
<1>2. IsHeap(s)
  BY <1>1, LaterSplitIfLong DEF Later
<1> HIDE DEF s
<1>3. IsHeap(g)
  BY <1>2, LaterRemove DEF Later
<1> HIDE DEF g
<1>4. Take(h, b, size) = HandOut(g, b)
  BY Zenon DEF Take, g, s, used
<1> QED
  BY <1>3, <1>4, HandOutHeap

LEMMA GrownHeap ==
    ASSUME NEW h, IsHeap(h), NEW b, NEW size
    PROVE  IsHeap(Grown(h, b, size))
BY DEF Grown, IsHeap

LEMMA ExtendHeap ==
    ASSUME NEW h, IsHeap(h), NEW b, NEW size, NEW r, r \in ExtendWilderness(h, b, size)
    PROVE  IsHeap(r.heap)
<1> DEFINE g == histogramRemove(h, b)
           k == Grown(g, b, size)
<1>1. r = Result(h, NULL) \/ r = HandOut(k, b)
  BY DEF ExtendWilderness
<1>2. IsHeap(g)
  BY LaterRemove DEF Later
<1> HIDE DEF g
<1>3. IsHeap(k)
  BY <1>2, GrownHeap
<1> HIDE DEF k
<1> QED
  BY <1>1, <1>3, HandOutHeap, ResultIs

LEMMA NewHeap ==
    ASSUME NEW h, IsHeap(h), NEW size, NEW r, r \in NewBlock(h, size)
    PROVE  IsHeap(r.heap)
<1> DEFINE b == h.brk
           g == AddLast(h, h.metadata, b, size)
           f == [h EXCEPT !.brk = b + META, !.lost = @ + META]
           k == [g EXCEPT !.brk = b + META + size, !.metadata = IF @ = NULL THEN b ELSE @]
<1>1. r = Result(h, NULL) \/ r = Result(f, NULL) \/ r = Result(k, b + META)
  BY DEF NewBlock
<1>2. IsHeap(g) /\ IsHeap(f)
  BY AddLastHeap DEF IsHeap
<1> HIDE DEF g
<1>3. IsHeap(k)
  BY <1>2 DEF IsHeap
<1> HIDE DEF f, k
<1> QED
  BY <1>1, <1>2, <1>3, ResultIs

LEMMA SmallocHeap ==
    ASSUME NEW h, IsHeap(h), NEW size, NEW r, r \in smalloc(h, size)
    PROVE  IsHeap(r.heap)
<1> DEFINE b == Walk(h, h.histogram[Min(Fitting(h, size))], size, "hist_next")[2]
           last == Last(h, h.metadata, "next")
<1>1. \/ r = Result(h, NULL) \/ r \in allocateNewMap(h, size) \/ r = Take(h, b, size)
      \/ r \in ExtendWilderness(h, last, size) \/ r \in NewBlock(h, size)
  BY DEF smalloc
<1> HIDE DEF b, last
<1> QED
  BY <1>1, ResultIs, MapIsHeap, TakeHeap, ExtendHeap, NewHeap

LEMMA SettleHeap ==
    ASSUME NEW h, IsHeap(h), NEW b, NEW c, NEW size, NEW overwrite
    PROVE  IsHeap(Settle(h, b, c, size, overwrite).heap)
BY SettleIs DEF Later

LEMMA GrowHeap ==
    ASSUME NEW h, IsHeap(h), NEW c, NEW size, NEW r, r \in Grow(h, c, size)
    PROVE  IsHeap(r.heap)
<1> DEFINE p == h.hdr[c].prev
           n == h.hdr[c].next
           wp == Absorb(histogramRemove(histogramRemove(h, p), c), p, c)
           wn == Absorb(histogramRemove(histogramRemove(h, n), c), c, n)
           wb == Absorb(Absorb(histogramRemove(histogramRemove(histogramRemove(h, p), c), n), p, c), p, n)
           cs == h.hdr[c].size
           ps == h.hdr[p].size
           ws == Stretched(wp, p, size, cs, ps)
           g == histogramRemove(h, c)
           gc == Grown(g, c, size)
           overwrite == size > ps
           no == FALSE
<1>1. Growing(h, c, size, p, n, wp, wn, wb, ws, gc, overwrite, no, r)
  BY GrowIs
<1>2. IsHeap(wp) /\ IsHeap(wn) /\ IsHeap(wb)
  BY TakeTwo, TakeThree
<1>3. IsHeap(g)
  BY LaterRemove DEF Later
<1> HIDE DEF wp, wn, wb, g
<1>4. IsHeap(ws) /\ IsHeap(gc) /\ IsHeap(Flaw(wp, "united"))
  BY <1>2, <1>3, GrownHeap, LaterFlaw DEF Stretched, IsHeap, Later
<1> HIDE DEF ws, gc, overwrite, no, p, n, cs, ps
<1>5. ASSUME NEW q \in smalloc(h, size),
             r = IF q.ptr = NULL \/ q.heap.flaws # {} THEN q
                 ELSE Settle(q.heap, q.ptr - META, c, size, FALSE)
      PROVE  IsHeap(r.heap)
  <2>1. IsHeap(q.heap)
    BY SmallocHeap
  <2>2. r = q \/ r = Settle(q.heap, q.ptr - META, c, size, FALSE)
    BY <1>5
  <2>3. IsHeap(Settle(q.heap, q.ptr - META, c, size, no).heap)
    BY <2>1, SettleHeap
  <2> QED
    BY <2>1, <2>2, <2>3 DEF no
<1>6. CASE \/ r = Settle(wp, p, c, size, overwrite) \/ r = Settle(wn, c, c, size, no)
           \/ r = Settle(wb, p, c, size, overwrite) \/ r = Settle(ws, p, c, size, overwrite)
           \/ r = Settle(gc, c, c, size, no)
  BY <1>2, <1>4, <1>6, SettleHeap
<1>7. CASE r = Result(h, NULL) \/ r = Result(Flaw(wp, "united"), NULL)
  BY <1>4, <1>7, ResultIs
<1> QED
  BY <1>1, <1>5, <1>6, <1>7 DEF Growing

LEMMA ShrinkHeap ==
    ASSUME NEW h, IsHeap(h), NEW c, NEW size
    PROVE  IsHeap(Shrink(h, c, size).heap)
<1> DEFINE used == [h EXCEPT !.hdr[c].is_free = FALSE]
           s == SplitIfLong(used, c, size)
           g == histogramRemove(s, c)
           long == InMap(h, c) /\ LongEnough(h, c, size)
           f == FlawIf(long, g, "map")
<1>1. IsHeap(used)
  BY DEF IsHeap
<1> HIDE DEF used
<1>2. IsHeap(s)
  BY <1>1, LaterSplitIfLong DEF Later
<1> HIDE DEF s
<1>3. IsHeap(g)
  BY <1>2, LaterRemove DEF Later
<1> HIDE DEF g, long
<1>4. IsHeap(f)
  BY <1>3, LaterFlaw DEF Later
<1> HIDE DEF f
<1>5. Shrink(h, c, size) = Result(f, g.hdr[c].addr)
  BY Zenon DEF Shrink, f, long, g, s, used
<1> QED
  BY <1>4, <1>5, ResultIs

LEMMA MoveHeap ==
    ASSUME NEW h, IsHeap(h), NEW p, NEW size, NEW r, r \in MoveToMap(h, p, size)
    PROVE  IsHeap(r.heap)
<1>1. PICK q \in allocateNewMap(h, size) :
        r = IF q.ptr = NULL THEN Result(Flaw(q.heap, "fault"), NULL)
                            ELSE Result(sfree(q.heap, p), q.ptr)
  BY DEF MoveToMap
<1>2. IsHeap(q.heap)
  BY MapIsHeap
<1>3. IsHeap(Flaw(q.heap, "fault")) /\ IsHeap(sfree(q.heap, p))
  BY <1>2, LaterFlaw, LaterSfree DEF Later
<1> QED
  BY <1>1, <1>3, ResultIs

LEMMA SreallocHeap ==
    ASSUME NEW h, IsHeap(h), NEW p, NEW size, NEW r, r \in srealloc(h, p, size)
    PROVE  IsHeap(r.heap)
<1> DEFINE c == p - META
<1>1. \/ r = Result(h, NULL) \/ r \in smalloc(h, size) \/ r \in MoveToMap(h, p, size)
      \/ r \in Grow(h, c, size) \/ r = Shrink(h, c, size)
  BY DEF srealloc
<1> HIDE DEF c
<1> QED
  BY <1>1, ResultIs, SmallocHeap, MoveHeap, GrowHeap, ShrinkHeap

-----------------------------------------------------------------------------
(* THE CALLS: where they start and what they leave. *)

(* The headers of B are those of h, and k has no header that h has not. *)
Lessened(h, k, B) ==
    /\ IsHeap(k) /\ B \subseteq DOMAIN k.hdr /\ DOMAIN k.hdr \subseteq DOMAIN h.hdr
    /\ \A x \in B : k.hdr[x] = h.hdr[x]
    /\ k.metadata = h.metadata /\ k.mmap_list = h.mmap_list /\ k.histogram = h.histogram
    /\ k.brk = h.brk /\ k.lost = h.lost /\ k.flaws = h.flaws
    /\ k.uninit \in {NULL, Junk}

(* Forgotten headers are none of the list, ...                             *)
LEMMA LessHeapOK ==
    ASSUME NEW h, NEW L, NEW M, HeapOK(h, L, M), NEW k, Lessened(h, k, L \cup M)
    PROVE  HeapOK(k, L, M)
<1>1. /\ IsHeap(k) /\ L \cup M \subseteq DOMAIN k.hdr /\ DOMAIN k.hdr \subseteq DOMAIN h.hdr
      /\ \A x \in L \cup M : k.hdr[x] = h.hdr[x]
      /\ k.metadata = h.metadata /\ k.mmap_list = h.mmap_list /\ k.histogram = h.histogram
      /\ k.brk = h.brk /\ k.lost = h.lost /\ k.flaws = h.flaws
      /\ k.uninit \in {NULL, Junk}
  BY DEF Lessened
<1>2. Headers(h, L \cup M) /\ L \cup M \subseteq DOMAIN h.hdr
  BY DEF HeapOK, Headers
<1>3. Headers(k, L \cup M)
  BY <1>1, <1>2 DEF Headers
<1>4. \A x \in L \cup M : nexts(k)[x] = nexts(h)[x] /\ prevs(k)[x] = prevs(h)[x]
                          /\ spans(k)[x] = spans(h)[x]
  BY <1>1, <1>2 DEF nexts, prevs, spans
<1>5. Linked(L, k.metadata, nexts(k), prevs(k)) /\ Linked(M, k.mmap_list, nexts(k), prevs(k))
  <2>1. Linked(L, h.metadata, nexts(h), prevs(h)) /\ Linked(M, h.mmap_list, nexts(h), prevs(h))
    BY DEF HeapOK
  <2>2. Linked(L, h.metadata, nexts(k), prevs(k))
    BY <1>4, <2>1, LinkedSame
  <2>3. Linked(M, h.mmap_list, nexts(k), prevs(k))
    BY <1>4, <2>1, LinkedSame
  <2> QED
    BY <1>1, <2>2, <2>3
<1>6. Apart(k, L)
  <2>1. Apart(h, L) /\ \A x \in L : k.hdr[x] = h.hdr[x]
    BY <1>1 DEF HeapOK
  <2> QED
    BY <1>1, <2>1 DEF Apart
<1>7. Mappings(k, M)
  <2>1. Mappings(h, M) /\ \A x \in M : k.hdr[x] = h.hdr[x]
    BY <1>1 DEF HeapOK
  <2> QED
    BY <2>1 DEF Mappings
<1>8. Accounted(k, L)
  <2>1. L \subseteq 1..Limit /\ IsFiniteSet(1..Limit)
    BY Constants, UpTo DEF HeapOK
  <2>2. IsFiniteSet(L)
    BY <2>1, FS_Subset
  <2>3. Total(spans(h), L) = Total(spans(k), L)
    BY <1>4, <2>2, TotalSame
  <2> QED
    BY <1>1, <2>3 DEF HeapOK, Accounted
<1>9. Multiples(k, L)
  <2>1. Multiples(h, L) /\ \A x \in L : k.hdr[x] = h.hdr[x]
    BY <1>1 DEF HeapOK
  <2> QED
    BY <1>1, <2>1 DEF Multiples
<1>10. /\ h.flaws = {} /\ L \subseteq 1..Limit
       /\ h.brk \in Base..(Limit + 1) /\ h.lost \in Nat
  BY DEF HeapOK
<1> QED
  BY <1>1, <1>3, <1>5, <1>6, <1>7, <1>8, <1>9, <1>10 DEF HeapOK

(* ... nor of the histogram, ...                                           *)
LEMMA LessHist ==
    ASSUME NEW h, NEW N, NEW F, HistOK(h, N, F), NEW k, Lessened(h, k, N), N \subseteq DOMAIN h.hdr,
           \A x \in F : h.hdr[x].hist_next \in F \cup {NULL}
    PROVE  HistOK(k, N, F)
<1>1. /\ N \subseteq DOMAIN k.hdr /\ F \subseteq N /\ k.histogram = h.histogram
      /\ \A x \in N : k.hdr[x] = h.hdr[x]
  BY DEF Lessened, HistOK
<1>2. \A x \in N : hist_nexts(k)[x] = hist_nexts(h)[x] /\ hist_prevs(k)[x] = hist_prevs(h)[x]
  BY <1>1 DEF hist_nexts, hist_prevs
<1>3. ASSUME NEW i \in Buckets
      PROVE  Linked(InBucket(k, F, i), k.histogram[i], hist_nexts(k), hist_prevs(k))
  <2> DEFINE K == InBucket(h, F, i)
  <2>1. InBucket(k, F, i) = K
    BY <1>1 DEF InBucket
  <2>2. Linked(K, h.histogram[i], hist_nexts(h), hist_prevs(h))
    BY <1>3 DEF HistOK
  <2>3. K \subseteq N
    BY <1>1 DEF InBucket
  <2> HIDE DEF K
  <2>4. Linked(K, h.histogram[i], hist_nexts(k), hist_prevs(k))
    BY <1>2, <2>2, <2>3, LinkedSame
  <2> QED
    BY <1>1, <2>1, <2>4
<1>4. /\ \A b \in F : k.hdr[b].hist_next # NULL => k.hdr[b].size <= k.hdr[k.hdr[b].hist_next].size
  BY <1>1 DEF HistOK
<1>5. \A b \in N \ F : k.hdr[b].hist_next = NULL /\ k.hdr[b].hist_prev = NULL
  BY <1>1 DEF HistOK
<1> QED
  BY <1>1, <1>3, <1>4, <1>5 DEF HistOK

(* ... so that the heap stays at rest.                                     *)
LEMMA LessTidy ==
    ASSUME NEW h, NEW L, NEW M, NEW F, Tidy(h, L, M, F), NEW k, Lessened(h, k, L \cup M)
    PROVE  Tidy(k, L, M, F)
<1>1. TidyFacts(h, L, M, F)
  BY TidyIs
<1>2. /\ State(h, L, M, L \cup M, F) /\ HeapOK(h, L, M) /\ Headers(h, L \cup M) /\ F \subseteq L
      /\ Neighbouring(h, L) /\ \A x \in L : h.hdr[x].is_free <=> x \in F
  BY <1>1 DEF TidyFacts
<1>3. HeapOK(k, L, M)
  BY <1>2, LessHeapOK
<1>4. HistOK(h, L \cup M, F) /\ L \cup M \subseteq DOMAIN h.hdr
  BY <1>2 DEF State, Headers
<1>5. HistOK(k, L \cup M, F)
  <2>1. \A x \in F : h.hdr[x].hist_next \in F \cup {NULL}
    BY <1>2, HistLinks
  <2> QED
    BY <1>4, <2>1, LessHist
<1>6. \A x \in L \cup M : k.hdr[x] = h.hdr[x]
  BY DEF Lessened
<1>7. NULL \notin L
  BY <1>1 DEF TidyFacts
<1>8. Rest(k, L, M, F, NULL)
  BY <1>2, <1>3, <1>5, <1>6, <1>7 DEF Rest, State
<1>9. CalmBut(h, L, {})
  BY DEF Tidy
<1>10. CalmBut(k, L, {})
  BY <1>2, <1>6, <1>9 DEF CalmBut, Free, Neighbouring
<1> QED
  BY <1>8, <1>10 DEF Tidy

(* The heap that a call starts in. *)
LEMMA StartTidy ==
    ASSUME NEW h, NEW L, NEW M, NEW F, Tidy(h, L, M, F), NEW u, u \in {NULL, Junk},
           NEW k, k = [h EXCEPT !.uninit = u]
    PROVE  Tidy(k, L, M, F) /\ k.hdr = h.hdr
<1>1. TidyFacts(h, L, M, F)
  BY TidyIs
<1>2. IsHeap(h) /\ Headers(h, L \cup M)
  BY <1>1 DEF TidyFacts
<1>3. L \cup M \subseteq DOMAIN h.hdr
  BY <1>2 DEF Headers
<1>4. Lessened(h, k, L \cup M) /\ k.hdr = h.hdr
  BY <1>2, <1>3 DEF Lessened, IsHeap, Fields
<1> QED
  BY <1>4, LessTidy

(* The heap that a call leaves. *)
LEMMA ForgetTidy ==
    ASSUME NEW h, NEW L, NEW M, NEW F, Tidy(h, L, M, F), NEW k, k = Forget(h)
    PROVE  /\ Tidy(k, L, M, F) /\ DOMAIN k.hdr = L \cup M
           /\ \A x \in L \cup M : k.hdr[x] = h.hdr[x]
<1>1. TidyFacts(h, L, M, F)
  BY TidyIs
<1>2. IsHeap(h) /\ Headers(h, L \cup M) /\ HeapOK(h, L, M) /\ h.flaws = {}
  BY <1>1 DEF TidyFacts
<1>3. L \cup M \subseteq DOMAIN h.hdr
  BY <1>2 DEF Headers
<1>4. Listed(h) = L \cup M
  <2>1. ListsOf(h, L, M)
    BY <1>2, ListsAre
  <2> QED
    BY <2>1 DEF ListsOf, Listed
<1>5. k = [h EXCEPT !.uninit = NULL, !.hdr = [b \in L \cup M |-> @[b]]]
  BY <1>2, <1>4 DEF Forget
<1>6. /\ IsHeap(k) /\ DOMAIN k.hdr = L \cup M /\ \A x \in L \cup M : k.hdr[x] = h.hdr[x]
      /\ k.metadata = h.metadata /\ k.mmap_list = h.mmap_list /\ k.histogram = h.histogram
      /\ k.brk = h.brk /\ k.lost = h.lost /\ k.flaws = h.flaws /\ k.uninit = NULL
  BY <1>2, <1>5 DEF IsHeap, Fields
<1>7. Lessened(h, k, L \cup M)
  BY <1>3, <1>6 DEF Lessened
<1> QED
  BY <1>6, <1>7, LessTidy

LEMMA ForgetIs ==
    ASSUME NEW h, IsHeap(h)
    PROVE  IsHeap(Forget(h)) /\ Forget(h).flaws = h.flaws
BY DEF IsHeap, Fields, Forget

-----------------------------------------------------------------------------
(* A size of at most Word is reduced modulo Word to itself or, if it is    *)
(* Word, to 0.                                                             *)
LEMMA Reduced ==
    ASSUME NEW w, w \in Nat \ {0}, NEW t, t \in Nat, t <= w
    PROVE  /\ t < w => t % w = t
           /\ t = w => t % w = 0
<1>1. w % w = 0
  <2>1. w = 1 * w /\ w \in Nat
    OBVIOUS
  <2>2. \E q \in Nat : w = q * w
    BY <2>1
  <2> QED
    BY <2>1, <2>2, MultipleIs
<1>2. t < w => t % w = t
  OBVIOUS
<1> QED
  BY <1>1, <1>2

(* Rounding a size up to a multiple of a does not pass w.                  *)
LEMMA Up ==
    ASSUME NEW a, a \in Nat \ {0}, NEW w, w \in Nat \ {0}, w % a = 0, NEW n, n \in 0..(w - 1)
    PROVE  LET t == n + ((a - (n % a)) % a)
           IN t \in Nat /\ n <= t /\ t <= w /\ t % a = 0
<1> DEFINE m == n % a
           q == n \div a
           d == (a - m) % a
           t == n + d
<1>1. n = (q * a) + m /\ q \in Nat /\ m \in 0..(a - 1)
  OBVIOUS
<1>2. PICK v \in Nat : w = v * a
  BY MultipleIs
<1> HIDE DEF m, q
<1>3. q * a \in Nat /\ (q * a) % a = 0
  <2>1. q * a \in Nat
    BY <1>1
  <2>2. \E x \in Nat : q * a = x * a
    BY <1>1
  <2> QED
    BY <2>1, <2>2, MultipleIs
<1>4. CASE m = 0
  <2>1. a - m = a
    BY <1>4
  <2>2. d = 0
    BY <2>1, Reduced
  <2> QED
    BY <1>1, <1>3, <1>4, <2>2
<1>5. CASE m # 0
  <2>1. a - m \in Nat /\ a - m < a
    BY <1>1, <1>5
  <2>2. d = a - m
    BY <2>1, Reduced
  <2>3. t = (q * a) + a
    <3> HIDE DEF d
    <3> QED
      BY <1>1, <2>2
  <2>4. t = (q + 1) * a /\ q + 1 \in Nat /\ t \in Nat
    BY <1>1, <2>3
  <2> HIDE DEF t
  <2>5. \E x \in Nat : t = x * a
    BY <2>4
  <2>6. t % a = 0
    BY <2>4, <2>5, MultipleIs
  <2>7. t <= w
    <3> SUFFICES ASSUME w < t PROVE FALSE
      BY <2>4
    <3>1. v < q + 1
      <4> SUFFICES ASSUME q + 1 <= v PROVE FALSE
        BY <1>1
      <4>1. v * a = (q + 1) * a + (v - (q + 1)) * a /\ (v - (q + 1)) * a >= 0
        BY <1>1
      <4> QED
        BY <1>2, <2>4, <4>1
    <3> DEFINE x == (q - v) * a
    <3>2. q * a = v * a + x /\ x \in Nat
      BY <1>1, <3>1
    <3> HIDE DEF x
    <3>3. w <= q * a
      BY <1>2, <1>3, <3>2
    <3> QED
      BY <1>1, <1>3, <3>3
  <2>8. n <= t
    BY <1>1, <1>3, <2>3
  <2> QED
    BY <2>4, <2>6, <2>7, <2>8 DEF t, d, m
<1> QED
  BY <1>1, <1>4, <1>5 DEF m

(* A rounded size is a multiple of the alignment, and it is as large as    *)
(* the size or has become 0, as that of 0 is.                              *)
LEMMA RoundedIs ==
    ASSUME align \in Alignments, NEW n, n \in 0..(Word - 1)
    PROVE  /\ Rounded(n) \in Nat /\ Aligned(Rounded(n))
           /\ Rounded(n) = 0 \/ n <= Rounded(n)
           /\ n = 0 => Rounded(n) = 0
<1> DEFINE t == n + ((align - (n % align)) % align)
<1>1. align \in Nat \ {0} /\ Word \in Nat \ {0} /\ Word % align = 0
  BY MallocAssumption DEF MallocAssumption
<1>2. t \in Nat /\ n <= t /\ t <= Word /\ t % align = 0
  BY <1>1, Up
<1> HIDE DEF t
<1>3. t % Word = t \/ t % Word = 0
  BY <1>1, <1>2, Reduced
<1>4. 0 % align = 0
  BY <1>1
<1>5. Rounded(n) = t % Word
  BY DEF Rounded, t
<1>6. n = 0 => Rounded(n) = 0
  <2> SUFFICES ASSUME n = 0 PROVE Rounded(0) = 0
    OBVIOUS
  <2>1. 0 % align = 0 /\ align % align = 0 /\ 0 % Word = 0
    BY <1>1
  <2>2. (align - (0 % align)) % align = 0
    BY <1>1, <2>1
  <2> QED
    BY <1>1, <2>1, <2>2 DEF Rounded
<1> QED
  BY <1>2, <1>3, <1>4, <1>5, <1>6 DEF Aligned

-----------------------------------------------------------------------------
(* The heap is a list of blocks L, mapped blocks M and free blocks F, and   *)
(* the client holds the others.                                             *)
Holding(h, own, U) ==
    /\ DOMAIN own = {b + META : b \in U}
    /\ \A b \in U : HandsOut(h, b) /\ own[b + META] \in Nat /\ own[b + META] <= h.hdr[b].size
Held(h, own, L, M, F) ==
    /\ Tidy(h, L, M, F) /\ DOMAIN h.hdr = L \cup M
    /\ Holding(h, own, Used(L, M, F))
Good(h, own) == h.flaws = {} => \E L, M, F : Held(h, own, L, M, F)

Inv == IsHeap(heap) /\ align \in Alignments /\ Good(heap, owned)

(* What the client holds after a call. *)
OwnedAfter(own, given, p, n, own2) ==
    own2 = IF p = NULL THEN own
           ELSE [q \in (DOMAIN own \ {given}) \cup {p} |-> IF q = p THEN n ELSE own[q]]

(* What the client holds is unchanged, ...                                 *)
LEMMA HoldingKept ==
    ASSUME NEW h, NEW g, NEW own, NEW U, Holding(h, own, U), Kept(h, g, U)
    PROVE  Holding(g, own, U)
BY DEF Holding, Kept, HandsOut

(* ... or it gets a block, and gives one up in srealloc.                   *)
LEMMA HoldingGets ==
    ASSUME NEW h, NEW g, NEW own, NEW U, Holding(h, own, U), U \subseteq Nat,
           NEW V, V \subseteq U, Kept(h, g, V), NEW given, \A b \in U : b \in V <=> b + META # given,
           NEW b, b \in Nat, b \notin V, HandsOut(g, b), NEW p, p = b + META, NEW n, n \in Nat,
           n <= g.hdr[b].size, NEW own2, OwnedAfter(own, given, p, n, own2)
    PROVE  Holding(g, own2, V \cup {b})
<1>1. p # NULL /\ META \in Nat
  BY Constants
<1>2. own2 = [q \in (DOMAIN own \ {given}) \cup {p} |-> IF q = p THEN n ELSE own[q]]
  BY <1>1 DEF OwnedAfter
<1>3. DOMAIN own = {x + META : x \in U}
  BY DEF Holding
<1>4. DOMAIN own2 = {x + META : x \in V \cup {b}}
  BY <1>2, <1>3
<1>5. ASSUME NEW x \in V PROVE HandsOut(g, x) /\ own2[x + META] \in Nat /\ own2[x + META] <= g.hdr[x].size
  <2>1. x \in U /\ x \in Nat /\ x # b
    OBVIOUS
  <2>2. x + META # p
    BY <1>1, <2>1
  <2>3. own2[x + META] = own[x + META]
    BY <1>2, <1>3, <2>1, <2>2
  <2>4. g.hdr[x].size = h.hdr[x].size /\ g.hdr[x].addr = h.hdr[x].addr
    BY DEF Kept
  <2> QED
    BY <2>1, <2>3, <2>4 DEF Holding, HandsOut
<1>6. own2[b + META] = n
  BY <1>2
<1>7. \A x \in V \cup {b} : HandsOut(g, x) /\ own2[x + META] \in Nat /\ own2[x + META] <= g.hdr[x].size
  BY <1>5, <1>6
<1> QED
  BY <1>4, <1>7 DEF Holding

(* What Held says, in pieces.                                              *)
LEMMA HoldFacts ==
    ASSUME NEW h, NEW own, NEW L, NEW M, NEW F, Held(h, own, L, M, F)
    PROVE  /\ Tidy(h, L, M, F) /\ DOMAIN h.hdr = L \cup M /\ Holding(h, own, Used(L, M, F))
           /\ Used(L, M, F) \subseteq Nat /\ Used(L, M, F) \subseteq L \cup M
           /\ \A b \in Used(L, M, F) : b \in Nat
<1>1. TidyFacts(h, L, M, F)
  BY TidyIs DEF Held
<1>2. \A x \in L \cup M : x \in Nat
  BY <1>1 DEF TidyFacts
<1> QED
  BY <1>2 DEF Held, Used

(* After Forget, the heap is held as before it. *)
LEMMA ForgetHeld ==
    ASSUME NEW h, NEW own, NEW L, NEW M, NEW F, Tidy(h, L, M, F), Holding(h, own, Used(L, M, F))
    PROVE  Held(Forget(h), own, L, M, F)
<1> DEFINE k == Forget(h)
<1>1. /\ Tidy(k, L, M, F) /\ DOMAIN k.hdr = L \cup M
      /\ \A x \in L \cup M : k.hdr[x] = h.hdr[x]
  BY ForgetTidy
<1> HIDE DEF k
<1>2. F \subseteq L
  BY TidyIs DEF TidyFacts
<1>3. Kept(h, k, Used(L, M, F))
  BY <1>1 DEF Kept, Used
<1>4. Holding(k, own, Used(L, M, F))
  BY <1>3, HoldingKept
<1>5. Held(k, own, L, M, F)
  BY <1>1, <1>4 DEF Held
<1> QED
  BY <1>5 DEF k

(* A call that allocates leaves the heap and what the client holds in      *)
(* agreement.                                                              *)
Left(given, U, V) == V \subseteq U /\ \A b \in U : b \in V <=> b + META # given
LEMMA ReturnsGood ==
    ASSUME NEW h, NEW own, NEW L, NEW M, NEW F, Held(h, own, L, M, F),
           NEW k, k.hdr = h.hdr, NEW r, IsHeap(r.heap), NEW V, NEW size, size \in Nat,
           Outcome(k, L, M, F, V, r, size), NEW given, Left(given, Used(L, M, F), V),
           NEW n, n \in Nat, r.heap.flaws = {} /\ r.ptr # NULL => n <= size,
           NEW own2, OwnedAfter(own, given, r.ptr, n, own2)
    PROVE  IsHeap(Forget(r.heap)) /\ Good(Forget(r.heap), own2)
<1> DEFINE U == Used(L, M, F)
<1>1. Forget(r.heap).flaws = r.heap.flaws /\ IsHeap(Forget(r.heap))
  BY ForgetIs
<1>2. CASE r.heap.flaws # {}
  BY <1>1, <1>2 DEF Good
<1>3. CASE r.heap.flaws = {}
  <2>1. PICK L2, M2, F2 :
           /\ Tidy(r.heap, L2, M2, F2)
           /\ \/ /\ r.ptr = NULL /\ Used(L2, M2, F2) = Used(L, M, F)
                 /\ Kept(k, r.heap, Used(L, M, F))
              \/ \E b : Gets(k, r.heap, L2, M2, F2, V, r.ptr, b, size)
    BY <1>3 DEF Outcome
  <2>2. /\ Holding(h, own, U) /\ U \subseteq Nat
    BY HoldFacts
  <2>3. CASE r.ptr = NULL /\ Used(L2, M2, F2) = U /\ Kept(k, r.heap, U)
    <3>1. own2 = own
      BY <2>3 DEF OwnedAfter
    <3>2. Kept(h, r.heap, U)
      BY <2>3 DEF Kept
    <3>3. Holding(r.heap, own2, Used(L2, M2, F2))
      BY <2>2, <2>3, <3>1, <3>2, HoldingKept
    <3>4. Held(Forget(r.heap), own2, L2, M2, F2)
      BY <2>1, <3>3, ForgetHeld
    <3> QED
      BY <1>1, <3>4 DEF Good
  <2>4. ASSUME NEW b, Gets(k, r.heap, L2, M2, F2, V, r.ptr, b, size)
        PROVE  Good(Forget(r.heap), own2)
    <3>1. /\ r.ptr = b + META /\ HandsOut(r.heap, b) /\ b \notin V
          /\ Used(L2, M2, F2) = V \cup {b} /\ Kept(k, r.heap, V)
          /\ r.heap.hdr[b].size >= size
      BY <2>4 DEF Gets
    <3>2. Kept(h, r.heap, V)
      BY <3>1 DEF Kept
    <3>3. TidyFacts(r.heap, L2, M2, F2)
      BY <2>1, TidyIs
    <3>4. b \in L2 \cup M2
      BY <3>1 DEF Used
    <3>5. b \in Nat /\ r.heap.hdr[b].size \in Nat
      BY <3>3, <3>4 DEF TidyFacts
    <3>6. r.ptr # NULL
      BY <3>1, <3>5, Constants
    <3>7. n <= r.heap.hdr[b].size
      BY <1>3, <3>1, <3>5, <3>6
    <3>8. V \subseteq U /\ \A x \in U : x \in V <=> x + META # given
      BY DEF Left
    <3> DEFINE g == r.heap
               p == r.ptr
    <3>9. /\ Kept(h, g, V) /\ HandsOut(g, b) /\ p = b + META /\ n <= g.hdr[b].size
          /\ OwnedAfter(own, given, p, n, own2)
      BY <3>1, <3>2, <3>7
    <3> HIDE DEF U, g, p
    <3>10. Holding(g, own2, V \cup {b})
      BY <2>2, <3>1, <3>5, <3>8, <3>9, HoldingGets
    <3>11. Holding(r.heap, own2, Used(L2, M2, F2))
      BY <3>1, <3>10 DEF g
    <3>12. Held(Forget(r.heap), own2, L2, M2, F2)
      BY <2>1, <3>11, ForgetHeld
    <3> QED
      BY <1>1, <3>12 DEF Good
  <2> QED
    BY <1>1, <2>1, <2>3, <2>4
<1> QED
  BY <1>1, <1>2, <1>3

-----------------------------------------------------------------------------
CallKeeps == IsHeap(heap') /\ Good(heap', owned') /\ align' = align

LEMMA InvHeld ==
    ASSUME Inv, heap.flaws = {}
    PROVE  \E L, M, F : Held(heap, owned, L, M, F)
BY DEF Inv, Good

(* A call starts in the heap that the last one has left.                   *)
LEMMA StartHeld ==
    ASSUME NEW L, NEW M, NEW F, Held(heap, owned, L, M, F), IsHeap(heap), NEW u, u \in {NULL, Junk}
    PROVE  /\ Tidy(Starts(u), L, M, F) /\ Starts(u).hdr = heap.hdr /\ IsHeap(Starts(u))
           /\ DOMAIN Starts(u).hdr = L \cup M
<1> DEFINE k == [heap EXCEPT !.uninit = u]
<1>1. Tidy(heap, L, M, F) /\ DOMAIN heap.hdr = L \cup M
  BY HoldFacts
<1>2. Tidy(k, L, M, F) /\ k.hdr = heap.hdr
  BY <1>1, StartTidy
<1>3. IsHeap(k)
  BY DEF IsHeap
<1>4. Starts(u) = k
  BY DEF Starts
<1> HIDE DEF k
<1> QED
  BY <1>1, <1>2, <1>3, <1>4

LEMMA LeftAll ==
    ASSUME NEW h, NEW own, NEW L, NEW M, NEW F, Held(h, own, L, M, F)
    PROVE  Left(NULL, Used(L, M, F), Used(L, M, F))
<1>1. \A b \in Used(L, M, F) : b \in Nat
  BY HoldFacts
<1>2. \A b \in Used(L, M, F) : b + META # NULL
  BY <1>1, Constants
<1> QED
  BY <1>2 DEF Left

LEMMA LeftOthers ==
    ASSUME NEW h, NEW own, NEW L, NEW M, NEW F, Held(h, own, L, M, F), NEW c, c \in Used(L, M, F)
    PROVE  Left(c + META, Used(L, M, F), Used(L, M, F) \ {c})
<1>1. \A b \in Used(L, M, F) : b \in Nat
  BY HoldFacts
<1>2. \A b \in Used(L, M, F) : b # c => b + META # c + META
  BY <1>1, Constants
<1> QED
  BY <1>2 DEF Left

LEMMA ReturnsOwned ==
    ASSUME NEW r, NEW given, NEW n, Returns(r, given, n)
    PROVE  heap' = Forget(r.heap) /\ OwnedAfter(owned, given, r.ptr, n, owned') /\ align' = align
BY DEF Returns, OwnedAfter, Own

(* A request for 0 bytes or for too many returns NULL.                     *)
LEMMA NoneFrom ==
    ASSUME NEW h, NEW size, size = 0 \/ size > MAX_SIZE
    PROVE  /\ \A r \in smalloc(h, size) : r.ptr = NULL
           /\ \A p : \A r \in srealloc(h, p, size) : r.ptr = NULL
BY DEF smalloc, srealloc, Result

(* A call that asks for n bytes and may give up a block: it starts from a  *)
(* heap that is held, has an outcome, and what it returns becomes the      *)
(* client's.                                                               *)
Calls(given, n, L, M, F, k, r, V, s) ==
    /\ Held(heap, owned, L, M, F) /\ k.hdr = heap.hdr /\ IsHeap(r.heap)
    /\ Outcome(k, L, M, F, V, r, s) /\ Left(given, Used(L, M, F), V)
    /\ s \in Nat /\ n \in Nat
    /\ r.heap.flaws = {} /\ r.ptr # NULL => n \in 1..s /\ s <= MAX_SIZE
    /\ heap' = Forget(r.heap) /\ OwnedAfter(owned, given, r.ptr, n, owned') /\ align' = align
Allocates(given, n) == \E L, M, F, k, r, V, s : Calls(given, n, L, M, F, k, r, V, s)

LEMMA AllocatesKeeps ==
    ASSUME NEW given, NEW n, Allocates(given, n)
    PROVE  CallKeeps
<1>1. PICK L, M, F, k, r, V, s : Calls(given, n, L, M, F, k, r, V, s)
  BY DEF Allocates
<1>2. /\ Held(heap, owned, L, M, F) /\ k.hdr = heap.hdr /\ IsHeap(r.heap)
      /\ Outcome(k, L, M, F, V, r, s) /\ Left(given, Used(L, M, F), V)
      /\ s \in Nat /\ n \in Nat
      /\ r.heap.flaws = {} /\ r.ptr # NULL => n <= s
      /\ heap' = Forget(r.heap) /\ OwnedAfter(owned, given, r.ptr, n, owned') /\ align' = align
  BY <1>1 DEF Calls
<1>3. IsHeap(Forget(r.heap)) /\ Good(Forget(r.heap), owned')
  BY <1>2, ReturnsGood
<1> QED
  BY <1>2, <1>3 DEF CallKeeps

(* The actions, one by one.                                                *)
LEMMA MallocCalls ==
    ASSUME Inv, heap.flaws = {}, NEW size, size \in 0..(Word - 1), Malloc(size)
    PROVE  Allocates(NULL, size)
<1> DEFINE s == Rounded(size)
<1>1. PICK L, M, F : Held(heap, owned, L, M, F)
  BY InvHeld
<1>2. PICK u \in {NULL, Junk} : \E r \in smalloc(Starts(u), s) : Returns(r, NULL, size)
  BY DEF Malloc
<1>3. PICK r \in smalloc(Starts(u), s) : Returns(r, NULL, size)
  BY <1>2
<1>4. s \in Nat /\ Aligned(s) /\ (s = 0 \/ size <= s) /\ (size = 0 => s = 0)
  BY RoundedIs DEF Inv
<1> HIDE DEF s
<1> DEFINE k == Starts(u)
<1>5. /\ Tidy(k, L, M, F) /\ k.hdr = heap.hdr /\ IsHeap(k) /\ DOMAIN k.hdr = L \cup M
  BY <1>1, StartHeld DEF Inv
<1>6. r \in smalloc(k, s)
  OBVIOUS
<1> HIDE DEF k
<1>7. Outcome(k, L, M, F, Used(L, M, F), r, s)
  BY <1>4, <1>5, <1>6, SmallocOutcome
<1>8. IsHeap(r.heap)
  BY <1>5, <1>6, SmallocHeap
<1>9. r.heap.flaws = {} /\ r.ptr # NULL => size \in 1..s /\ s <= MAX_SIZE
  BY <1>4, <1>6, NoneFrom, Constants
<1>10. Left(NULL, Used(L, M, F), Used(L, M, F))
  BY <1>1, LeftAll
<1>11. heap' = Forget(r.heap) /\ OwnedAfter(owned, NULL, r.ptr, size, owned') /\ align' = align
  BY <1>3, ReturnsOwned
<1>12. size \in Nat
  OBVIOUS
<1>13. Calls(NULL, size, L, M, F, k, r, Used(L, M, F), s)
  BY <1>1, <1>4, <1>5, <1>7, <1>8, <1>9, <1>10, <1>11, <1>12 DEF Calls
<1> QED
  BY <1>13 DEF Allocates

LEMMA CallocCalls ==
    ASSUME Inv, heap.flaws = {}, NEW num, num \in 0..(Word - 1), NEW size, size \in 0..(Word - 1),
           Calloc(num, size)
    PROVE  Allocates(NULL, num * size)
<1> DEFINE z == Rounded(size)
           n == (num * z) % Word
           s == Rounded(n)
           m == num * size
<1>1. PICK L, M, F : Held(heap, owned, L, M, F)
  BY InvHeld
<1>2. PICK u \in {NULL, Junk} : \E r \in smalloc(Starts(u), s) :
         Returns(Result(FlawIf(r.ptr # NULL /\ n < num * size, r.heap, "wrap"), r.ptr), NULL, num * size)
  BY DEF Calloc
<1>3. PICK r \in smalloc(Starts(u), s) :
         Returns(Result(FlawIf(r.ptr # NULL /\ n < num * size, r.heap, "wrap"), r.ptr), NULL, num * size)
  BY <1>2
<1>4. /\ z \in Nat /\ Word \in Nat \ {0} /\ num \in Nat /\ size \in Nat
      /\ z # 0 /\ (size = 0 => z = 0)
  BY RoundedIs, Constants DEF Inv, Calloc
<1> HIDE DEF z
<1>5. n \in 0..(Word - 1) /\ m \in Nat
  <2> DEFINE t == num * z
  <2>1. t \in Nat
    BY <1>4
  <2> HIDE DEF t
  <2>2. t % Word \in 0..(Word - 1)
    BY <1>4, <2>1
  <2> QED
    BY <1>4, <2>2 DEF t
<1>5a. n # 0 => m >= 1
  <2>1. n # 0 => num # 0
    BY <1>4
  <2>2. num # 0 => num * size >= 1
    BY <1>4
  <2> QED
    BY <2>1, <2>2
<1> HIDE DEF n
<1>6. s \in Nat /\ Aligned(s) /\ (s = 0 \/ n <= s) /\ (n = 0 => s = 0)
  BY <1>5, RoundedIs DEF Inv
<1> HIDE DEF s
<1> DEFINE k == Starts(u)
           wraps == r.ptr # NULL /\ n < m
           f == FlawIf(wraps, r.heap, "wrap")
           q == Result(f, r.ptr)
<1>7. Tidy(k, L, M, F) /\ k.hdr = heap.hdr /\ IsHeap(k) /\ DOMAIN k.hdr = L \cup M
  BY <1>1, StartHeld DEF Inv
<1>8. r \in smalloc(k, s) /\ Returns(q, NULL, m)
  BY <1>3
<1> HIDE DEF k, m
<1>9. Outcome(k, L, M, F, Used(L, M, F), r, s)
  BY <1>6, <1>7, <1>8, SmallocOutcome
<1>10. IsHeap(r.heap)
  BY <1>7, <1>8, SmallocHeap
<1>11. q.heap = f /\ q.ptr = r.ptr
  BY ResultIs
<1>12. IsHeap(f) /\ (f.flaws = {} => f = r.heap /\ ~wraps)
  <2> HIDE DEF wraps
  <2> QED
    BY <1>10, LaterFlaw DEF Later
<1>13. wraps <=> r.ptr # NULL /\ n < m
  OBVIOUS
<1> HIDE DEF wraps, f, q
<1>14. Outcome(k, L, M, F, Used(L, M, F), q, s)
  BY <1>9, <1>11, <1>12 DEF Outcome
<1>15. q.heap.flaws = {} /\ q.ptr # NULL => m \in 1..s /\ s <= MAX_SIZE
  <2>1. q.heap.flaws = {} /\ q.ptr # NULL => s # 0 /\ ~(s > MAX_SIZE) /\ ~(n < m)
    BY <1>8, <1>11, <1>12, <1>13, NoneFrom
  <2>2. n \in Nat
    BY <1>5
  <2> QED
    BY <1>5, <1>6, <1>5a, <2>1, <2>2, Constants
<1>16. Left(NULL, Used(L, M, F), Used(L, M, F))
  BY <1>1, LeftAll
<1>17. heap' = Forget(q.heap) /\ OwnedAfter(owned, NULL, q.ptr, m, owned') /\ align' = align
  BY <1>8, ReturnsOwned
<1>18. IsHeap(q.heap) /\ m \in Nat
  BY <1>5, <1>11, <1>12
<1>19. Calls(NULL, m, L, M, F, k, q, Used(L, M, F), s)
  BY <1>1, <1>6, <1>7, <1>14, <1>15, <1>16, <1>17, <1>18 DEF Calls
<1> QED
  BY <1>19 DEF Allocates, m

LEMMA HeldBlock ==
    ASSUME NEW h, NEW own, NEW L, NEW M, NEW F, Held(h, own, L, M, F), NEW p, p \in DOMAIN own
    PROVE  \E c \in Used(L, M, F) : p = c + META /\ HandsOut(h, c) /\ c \in Nat
<1>1. Holding(h, own, Used(L, M, F)) /\ \A b \in Used(L, M, F) : b \in Nat
  BY HoldFacts
<1> QED
  BY <1>1 DEF Holding

LEMMA ReallocCalls ==
    ASSUME Inv, heap.flaws = {}, NEW p, p \in DOMAIN owned \cup {NULL},
           NEW size, size \in 0..(Word - 1), Realloc(p, size)
    PROVE  Allocates(p, size)
<1> DEFINE s == Rounded(size)
<1>1. PICK L, M, F : Held(heap, owned, L, M, F)
  BY InvHeld
<1>2. PICK u \in {NULL, Junk} : \E r \in srealloc(Starts(u), p, s) : Returns(r, p, size)
  BY DEF Realloc
<1>3. PICK r \in srealloc(Starts(u), p, s) : Returns(r, p, size)
  BY <1>2
<1>4. s \in Nat /\ Aligned(s) /\ (s = 0 \/ size <= s) /\ (size = 0 => s = 0)
  BY RoundedIs DEF Inv
<1> HIDE DEF s
<1> DEFINE k == Starts(u)
           U == Used(L, M, F)
<1>5. /\ Tidy(k, L, M, F) /\ k.hdr = heap.hdr /\ IsHeap(k) /\ DOMAIN k.hdr = L \cup M
  BY <1>1, StartHeld DEF Inv
<1>6. r \in srealloc(k, p, s)
  OBVIOUS
<1> HIDE DEF k
<1>7. IsHeap(r.heap)
  BY <1>5, <1>6, SreallocHeap
<1>8. r.heap.flaws = {} /\ r.ptr # NULL => size \in 1..s /\ s <= MAX_SIZE
  <2>1. s = 0 \/ s > MAX_SIZE => r.ptr = NULL
    BY <1>6, NoneFrom
  <2> QED
    BY <1>4, <2>1, Constants
<1>9. heap' = Forget(r.heap) /\ OwnedAfter(owned, p, r.ptr, size, owned') /\ align' = align
  BY <1>3, ReturnsOwned
<1>10. \E V : Outcome(k, L, M, F, V, r, s) /\ Left(p, U, V)
  <2>1. CASE p = NULL
    <3>1. r = Result(k, NULL) \/ r \in smalloc(k, s)
      BY <1>6, <2>1 DEF srealloc
    <3>2. Outcome(k, L, M, F, U, r, s)
      BY <1>4, <1>5, <3>1, SmallocOutcome, NoneOutcome
    <3>3. Left(p, U, U)
      BY <1>1, <2>1, LeftAll
    <3> QED
      BY <3>2, <3>3
  <2>2. CASE p \in DOMAIN owned
    <3>1. PICK c \in U : p = c + META /\ HandsOut(heap, c) /\ c \in Nat
      BY <1>1, <2>2, HeldBlock
    <3>2. HandsOut(k, c)
      BY <1>5, <3>1 DEF HandsOut
    <3>3. Outcome(k, L, M, F, U \ {c}, r, s)
      BY <1>4, <1>5, <1>6, <3>1, <3>2, SreallocOutcome
    <3>4. Left(p, U, U \ {c})
      BY <1>1, <3>1, LeftOthers
    <3> QED
      BY <3>3, <3>4
  <2> QED
    BY <2>1, <2>2
<1>11. PICK V : Outcome(k, L, M, F, V, r, s) /\ Left(p, U, V)
  BY <1>10
<1>12. size \in Nat
  OBVIOUS
<1>13. Calls(p, size, L, M, F, k, r, V, s)
  BY <1>1, <1>4, <1>5, <1>7, <1>8, <1>9, <1>11, <1>12 DEF Calls
<1> QED
  BY <1>13 DEF Allocates

LEMMA ReleaseKeeps ==
    ASSUME Inv, heap.flaws = {}, NEW p, p \in DOMAIN owned, Release(p)
    PROVE  CallKeeps
<1>1. PICK L, M, F : Held(heap, owned, L, M, F)
  BY InvHeld
<1> DEFINE U == Used(L, M, F)
           g == sfree(heap, p)
<1>2. PICK c \in U : p = c + META /\ HandsOut(heap, c) /\ c \in Nat
  BY <1>1, HeldBlock
<1>3. heap' = Forget(g) /\ owned' = [q \in DOMAIN owned \ {p} |-> owned[q]] /\ align' = align
  BY DEF Release
<1>4. g = sfree(heap, c + META)
  BY <1>2
<1> HIDE DEF g
<1>5. IsHeap(g)
  BY <1>4, LaterSfree DEF Inv, Later
<1>6. IsHeap(Forget(g)) /\ Forget(g).flaws = g.flaws
  BY <1>5, ForgetIs
<1>7. CASE g.flaws # {}
  BY <1>3, <1>6, <1>7 DEF CallKeeps, Good
<1>8. CASE g.flaws = {}
  <2>1. Tidy(heap, L, M, F) /\ Holding(heap, owned, U) /\ \A b \in U : b \in Nat
    BY <1>1, HoldFacts
  <2>2. PICK L2, F2 : Released(heap, g, L, L2, M, F, F2, c)
    BY <1>2, <1>4, <1>8, <2>1, SfreeTidy
  <2>3. Tidy(g, L2, M, F2) /\ Used(L2, M, F2) = U \ {c} /\ Kept(heap, g, U \ {c})
    BY <2>2 DEF Released
  <2>4. Holding(heap, owned', U \ {c})
    <3>1. DOMAIN owned = {b + META : b \in U}
      BY <2>1 DEF Holding
    <3>2. \A b \in U \ {c} : b + META # p
      BY <1>2, <2>1, Constants
    <3> HIDE DEF U
    <3>3. DOMAIN owned' = {b + META : b \in U \ {c}}
      BY <1>2, <1>3, <3>1, <3>2
    <3>4. \A b \in U \ {c} : owned'[b + META] = owned[b + META]
      BY <1>3, <3>1, <3>2
    <3> QED
      BY <2>1, <3>3, <3>4 DEF Holding
  <2>5. Holding(g, owned', Used(L2, M, F2))
    BY <2>3, <2>4, HoldingKept
  <2>6. Held(Forget(g), owned', L2, M, F2)
    BY <2>3, <2>5, ForgetHeld
  <2> QED
    BY <1>3, <1>6, <2>6 DEF CallKeeps, Good
<1> QED
  BY <1>7, <1>8

-----------------------------------------------------------------------------
(* THE INVARIANT *)

LEMMA EmptyLinked == \A nx, pv : Linked({}, NULL, nx, pv)
BY DEF Linked

(* The empty heap.                                                         *)
LEMMA InitInv ==
    ASSUME Init
    PROVE  Inv
<1> DEFINE E == {}
<1>1. /\ IsHeap(heap) /\ heap.metadata = NULL /\ heap.mmap_list = NULL
      /\ heap.histogram = [i \in Buckets |-> NULL] /\ DOMAIN heap.hdr = E
      /\ heap.brk = Base /\ heap.lost = 0 /\ heap.uninit = NULL /\ heap.flaws = {}
      /\ DOMAIN owned = E /\ align \in Alignments
  BY DEF Init, IsHeap, Fields, Buckets
<1>2. E \cup E = E /\ Used(E, E, E) = E /\ \A x : x \notin E
  BY DEF Used
<1>3. Headers(heap, E \cup E)
  BY <1>1, <1>2 DEF Headers
<1>4. Linked(E, heap.metadata, nexts(heap), prevs(heap))
      /\ Linked(E, heap.mmap_list, nexts(heap), prevs(heap))
  BY <1>1, EmptyLinked
<1>5. Apart(heap, E) /\ Mappings(heap, E)
  <2>1. IsFiniteSet(E)
    BY FS_EmptySet
  <2> QED
    BY <2>1, <1>2 DEF Apart, Mappings
<1>6. Accounted(heap, E)
  <2>1. Total(spans(heap), E) = 0
    BY TotalEmpty
  <2> QED
    BY <1>1, <2>1, Constants DEF Accounted
<1>7. Multiples(heap, E)
  BY <1>1, <1>2, MallocAssumption DEF Multiples, MallocAssumption
<1>8. Base \in Base..(Limit + 1)
  BY Constants
<1>9. HeapOK(heap, E, E)
  BY <1>1, <1>2, <1>3, <1>4, <1>5, <1>6, <1>7, <1>8 DEF HeapOK
<1>10. HistOK(heap, E \cup E, E)
  <2>1. heap.histogram \in [Buckets -> Nat] /\ \A i \in Buckets : heap.histogram[i] = NULL
    BY <1>1, Constants
  <2>2. \A i \in Buckets : InBucket(heap, E, i) = E
    BY DEF InBucket
  <2>3. \A i \in Buckets :
          Linked(InBucket(heap, E, i), heap.histogram[i], hist_nexts(heap), hist_prevs(heap))
    BY <2>1, <2>2, EmptyLinked
  <2> QED
    BY <1>2, <2>1, <2>3 DEF HistOK
<1>11. State(heap, E, E, E \cup E, E)
  BY <1>9, <1>10 DEF State
<1>12. Tidy(heap, E, E, E)
  BY <1>2, <1>11 DEF Tidy, Rest, CalmBut
<1>13. Holding(heap, owned, Used(E, E, E))
  BY <1>1, <1>2 DEF Holding
<1>14. Held(heap, owned, E, E, E)
  BY <1>1, <1>2, <1>12, <1>13 DEF Held
<1> QED
  BY <1>1, <1>14 DEF Inv, Good

(* Every step.                                                             *)
LEMMA NextInv ==
    ASSUME Inv, [Next]_vars
    PROVE  Inv'
<1>1. CallKeeps
  <2>1. CASE UNCHANGED vars
    BY <2>1 DEF vars, CallKeeps, Inv, Good
  <2>2. CASE Next
    <3>1. heap.flaws = {} /\ \A n \in Requests \cup Counts : n \in 0..(Word - 1)
      BY <2>2, Constants DEF Next
    <3>2. ASSUME NEW size \in Requests, Malloc(size) PROVE CallKeeps
      BY <3>1, <3>2, MallocCalls, AllocatesKeeps
    <3>3. ASSUME NEW num \in Counts, NEW size \in Requests, Calloc(num, size) PROVE CallKeeps
      BY <3>1, <3>3, CallocCalls, AllocatesKeeps
    <3>4. ASSUME NEW p \in DOMAIN owned, Release(p) PROVE CallKeeps
      BY <3>1, <3>4, ReleaseKeeps
    <3>5. ASSUME NEW p \in DOMAIN owned \cup {NULL}, NEW size \in Requests, Realloc(p, size) PROVE CallKeeps
      BY <3>1, <3>5, ReallocCalls, AllocatesKeeps
    <3> QED
      BY <2>2, <3>2, <3>3, <3>4, <3>5 DEF Next
  <2> QED
    BY <2>1, <2>2
<1>2. IsHeap(heap') /\ Good(heap', owned') /\ align' = align /\ align \in Alignments
  BY <1>1 DEF CallKeeps, Inv
<1>3. Good(heap, owned)'
  BY <1>2 DEF Good, Held, Tidy, Rest, State, HeapOK, Multiples
<1>4. IsHeap(heap)' /\ align' \in Alignments
  BY <1>2 DEF IsHeap
<1> QED
  BY <1>3, <1>4 DEF Inv

(* In every state that a program reaches without a flaw, the list, the     *)
(* mapped blocks and the histogram are well linked, free blocks are in the *)
(* buckets of their sizes and no two of them neighbours, and the client    *)
(* holds all the other blocks.                                             *)
THEOREM AlwaysInv == Spec => []Inv
<1>1. Init => Inv
  BY InitInv
<1>2. Inv /\ [Next]_vars => Inv'
  BY NextInv
<1> QED
  BY <1>1, <1>2, PTL DEF Spec

-----------------------------------------------------------------------------
(* THE PROPERTIES *)

(* What the counters and the properties read. *)
Read(L, M, F) ==
    /\ Held(heap, owned, L, M, F) /\ TidyFacts(heap, L, M, F)
    /\ List = L /\ Mapped = M /\ FreeBlocks = F

(* What Inv says of a heap without flaws.                                  *)
LEMMA SoundRead ==
    ASSUME Inv, Sound
    PROVE  \E L, M, F : Read(L, M, F)
<1>1. PICK L, M, F : Held(heap, owned, L, M, F)
  BY InvHeld DEF Sound
<1>2. TidyFacts(heap, L, M, F)
  BY <1>1, HoldFacts, TidyIs
<1>3. /\ HeapOK(heap, L, M) /\ F \subseteq L
      /\ \A x \in L : heap.hdr[x].is_free <=> x \in F
  BY <1>2 DEF TidyFacts
<1>4. ListsOf(heap, L, M)
  BY <1>3, ListsAre
<1>5. List = L /\ Mapped = M
  BY <1>4 DEF ListsOf, List, Mapped
<1>6. FreeBlocks = F
  BY <1>3, <1>5 DEF FreeBlocks
<1> QED
  BY <1>1, <1>2, <1>5, <1>6 DEF Read

(* BlocksApart: the addresses along next grow by more than the sizes.      *)
LEMMA InvBlocksApart == Inv => BlocksApart
<1> SUFFICES ASSUME Inv, Sound, NEW b \in List
             PROVE  LET n == heap.hdr[b].next IN
                    /\ b + META + heap.hdr[b].size <= IF n = NULL THEN heap.brk ELSE n
                    /\ n # NULL => heap.hdr[n].prev = b
  BY DEF BlocksApart
<1>1. PICK L, M, F : Read(L, M, F)
  BY SoundRead
<1>2. HeapOK(heap, L, M) /\ Neighbouring(heap, L) /\ b \in L
  BY <1>1 DEF Read, TidyFacts
<1>3. Apart(heap, L)
  BY <1>2 DEF HeapOK
<1> QED
  BY <1>2, <1>3 DEF Apart, Neighbouring

(* The blocks read along hist_next from the head of a bucket.              *)
LEMMA BucketIs ==
    ASSUME Inv, NEW L, NEW M, NEW F, Read(L, M, F), NEW i, i \in Buckets
    PROVE  /\ Bucket(i) = InBucket(heap, F, i)
           /\ Linked(InBucket(heap, F, i), heap.histogram[i], hist_nexts(heap), hist_prevs(heap))
<1> DEFINE K == InBucket(heap, F, i)
           first == heap.histogram[i]
<1>1. Facts(heap, L, M, L \cup M, F)
  BY DEF Read, TidyFacts
<1>2. /\ HistOK(heap, L \cup M, F) /\ F \subseteq L \cup M
      /\ L \cup M \subseteq DOMAIN heap.hdr /\ NULL \notin DOMAIN heap.hdr /\ IsFiniteSet(F)
  BY <1>1 DEF Facts
<1>3. K \subseteq F
  BY DEF InBucket
<1>4. Linked(K, first, hist_nexts(heap), hist_prevs(heap))
  BY <1>2 DEF HistOK
<1>5. Reads(heap, "hist_next", K, first, hist_nexts(heap), hist_prevs(heap))
  <2>1. IsFiniteSet(K)
    BY <1>2, <1>3, FS_Subset
  <2>2. \A x \in DOMAIN heap.hdr : hist_nexts(heap)[x] = heap.hdr[x]["hist_next"]
    BY DEF hist_nexts
  <2> QED
    BY <1>2, <1>3, <1>4, <2>1, <2>2 DEF Reads
<1> HIDE DEF K
<1>6. Chain(heap, first, "hist_next") = K
  BY <1>5, ListOf
<1>7. Bucket(i) = K
  BY <1>6 DEF Bucket
<1> QED
  BY <1>4, <1>7 DEF K

(* HistogramIsFreeBlocks: the buckets are exactly the free blocks of L.    *)
LEMMA InvHistogram == Inv => HistogramIsFreeBlocks
<1> SUFFICES ASSUME Inv, Sound
             PROVE  /\ \A i \in Buckets :
                          Bucket(i) = {b \in FreeBlocks : histogramIndex(heap.hdr[b].size) = i}
                    /\ \A b \in FreeBlocks :
                         LET n == heap.hdr[b].hist_next IN
                         n # NULL => heap.hdr[b].size <= heap.hdr[n].size
                                     /\ heap.hdr[n].hist_prev = b
  BY DEF HistogramIsFreeBlocks, Buckets
<1>1. PICK L, M, F : Read(L, M, F)
  BY SoundRead
<1>2. FreeBlocks = F /\ HistOK(heap, L \cup M, F) /\ Headers(heap, L \cup M) /\ F \subseteq L
  BY <1>1 DEF Read, TidyFacts, Facts
<1>3. \A i \in Buckets : Bucket(i) = {b \in F : histogramIndex(heap.hdr[b].size) = i}
  BY <1>1, BucketIs DEF InBucket
<1>4. ASSUME NEW b \in F, heap.hdr[b].hist_next # NULL
      PROVE  /\ heap.hdr[b].size <= heap.hdr[heap.hdr[b].hist_next].size
             /\ heap.hdr[heap.hdr[b].hist_next].hist_prev = b
  <2> DEFINE i == histogramIndex(heap.hdr[b].size)
             n == heap.hdr[b].hist_next
             K == InBucket(heap, F, i)
  <2>1. b \in L \cup M
    BY <1>2
  <2>2. heap.hdr[b].size \in Nat /\ b \in DOMAIN heap.hdr
    BY <1>2, <2>1, HeaderIs
  <2>3. i \in Buckets
    BY <2>2, IndexIn
  <2>4. Linked(K, heap.histogram[i], hist_nexts(heap), hist_prevs(heap))
    BY <1>1, <2>3, BucketIs
  <2>5. b \in K /\ K \subseteq F
    BY DEF InBucket
  <2> HIDE DEF K, i
  <2>6. hist_nexts(heap)[b] = n
    BY <2>2 DEF hist_nexts
  <2>7. n \in K /\ hist_prevs(heap)[n] = b
    BY <1>4, <2>4, <2>5, <2>6 DEF Linked
  <2>8. n \in L \cup M
    BY <1>2, <2>5, <2>7
  <2>9. n \in DOMAIN heap.hdr
    BY <1>2, <2>8, HeaderIs
  <2>10. heap.hdr[n].hist_prev = b
    BY <2>7, <2>9 DEF hist_prevs
  <2>11. heap.hdr[b].size <= heap.hdr[n].size
    BY <1>2, <1>4 DEF HistOK
  <2> QED
    BY <2>10, <2>11
<1> QED
  BY <1>2, <1>3, <1>4

(* Coalesced: no two neighbours are free.                                  *)
LEMMA InvCoalesced == Inv => Coalesced
<1> SUFFICES ASSUME Inv, Sound, NEW b \in FreeBlocks PROVE heap.hdr[b].next \notin FreeBlocks
  BY DEF Coalesced
<1>1. PICK L, M, F : Read(L, M, F)
  BY SoundRead
<1>2. /\ FreeBlocks = F /\ F \subseteq L /\ NULL \notin L
      /\ \A x \in L : heap.hdr[x].is_free <=> x \in F
  BY <1>1 DEF Read, TidyFacts
<1>3. CalmBut(heap, L, {})
  BY <1>1 DEF Read, Held, Tidy
<1> QED
  BY <1>2, <1>3 DEF CalmBut, Free

(* HeldAreUsed: each block that is held is in use, apart from the others.  *)
LEMMA InvHeldAreUsed == Inv => HeldAreUsed
<1> SUFFICES ASSUME Inv, Sound
             PROVE  /\ {heap.hdr[b].addr : b \in (List \ FreeBlocks) \cup Mapped} = DOMAIN owned
                    /\ \A p \in DOMAIN owned :
                         /\ p - META \in List \cup Mapped /\ heap.hdr[p - META].size >= owned[p]
                         /\ p <= Limit => p % align = 0
  BY DEF HeldAreUsed
<1>1. PICK L, M, F : Read(L, M, F)
  BY SoundRead
<1> DEFINE U == Used(L, M, F)
<1>2. /\ (List \ FreeBlocks) \cup Mapped = U /\ List \cup Mapped = L \cup M
      /\ Held(heap, owned, L, M, F) /\ HeapOK(heap, L, M) /\ TidyFacts(heap, L, M, F)
  BY <1>1 DEF Read, Used, TidyFacts
<1>3. /\ DOMAIN owned = {b + META : b \in U}
      /\ \A b \in U : HandsOut(heap, b) /\ owned[b + META] \in Nat /\ owned[b + META] <= heap.hdr[b].size
  <2>1. Holding(heap, owned, U)
    BY <1>2, HoldFacts
  <2> QED
    BY <2>1 DEF Holding
<1>4. {heap.hdr[b].addr : b \in U} = DOMAIN owned
  BY <1>3 DEF HandsOut
<1>5. ASSUME NEW p \in DOMAIN owned
      PROVE  /\ p - META \in L \cup M /\ heap.hdr[p - META].size >= owned[p]
             /\ p <= Limit => p % align = 0
  <2>1. PICK c \in U : p = c + META
    BY <1>3
  <2>2. c \in L \cup M
    BY DEF Used
  <2>3. c \in Nat /\ heap.hdr[c].size \in Nat
    BY <1>2, <2>2 DEF TidyFacts
  <2>4. p - META = c
    BY <2>1, <2>3, Constants
  <2>5. heap.hdr[c].size >= owned[p]
    BY <1>3, <2>1, <2>3
  <2>6. ASSUME p <= Limit PROVE p % align = 0
    <3>1. c \notin M
      <4> SUFFICES ASSUME c \in M PROVE FALSE
        OBVIOUS
      <4>1. InMap(heap, c)
        BY <1>2, MappedAbove
      <4> QED
        BY <2>1, <2>3, <2>6, <4>1, Constants DEF InMap
    <3>2. c \in L /\ Multiples(heap, L)
      BY <1>2, <2>2, <3>1 DEF HeapOK
    <3>3. align \in Alignments /\ c % align = 0
      BY <3>2 DEF Multiples
    <3>4. align \in Nat \ {0} /\ META % align = 0
      BY <3>3, MallocAssumption DEF MallocAssumption
    <3>5. (c + META) % align = 0
      BY <2>3, <3>3, <3>4, Constants, MultipleSum
    <3> QED
      BY <2>1, <3>5
  <2> QED
    BY <2>2, <2>4, <2>5, <2>6
<1> QED
  BY <1>2, <1>4, <1>5

-----------------------------------------------------------------------------
(* Sums over blocks. *)

HeaderSizes == [b \in DOMAIN heap.hdr |-> heap.hdr[b].size]

(* The counters of the code are sums over the blocks of a list.            *)
LEMMA SizesTotal ==
    ASSUME NEW blocks \in SUBSET DOMAIN heap.hdr, IsFiniteSet(blocks)
    PROVE  SizeOf(blocks) = Total(HeaderSizes, blocks)
<1> DEFINE Sum(it) == [s \in SUBSET blocks |->
                         IF s = {} THEN 0 ELSE heap.hdr[Pick(s)].size + it[s \ {Pick(s)}]]
           j == CHOOSE it : it = Sum(it)
<1>1. ASSUME NEW it
      PROVE  Sum(it) = [s \in SUBSET blocks |->
                         IF s = {} THEN 0 ELSE HeaderSizes[Pick(s)] + it[s \ {Pick(s)}]]
  <2>1. \A s \in SUBSET blocks : s # {} => HeaderSizes[Pick(s)] = heap.hdr[Pick(s)].size
    BY PickIn DEF HeaderSizes
  <2> QED
    BY <2>1
<1>2. \E it : it = Sum(it)
  <2>1. PICK it : SumsUp(it, HeaderSizes, blocks)
    BY SumsUpExists
  <2> QED
    BY <1>1, <2>1 DEF SumsUp
<1>3. j = Sum(j)
  BY <1>2
<1>4. SumsUp(j, HeaderSizes, blocks)
  BY <1>1, <1>3 DEF SumsUp
<1>5. SizeOf(blocks) = j[blocks]
  BY DEF SizeOf, MapThenSumSet, MapThenFoldSet, Pick
<1> HIDE DEF j
<1> QED
  BY <1>4, <1>5, TotalIs

(* The same is added for each block. *)
EachMore(f, g, m, S) == \A x \in S : g[x] \in Nat /\ f[x] = m + g[x]
AllMore(f, g, m, S) == Total(f, S) = Total(g, S) + m * Cardinality(S)

LEMMA TotalAddEach ==
    ASSUME NEW f, NEW g, NEW m, m \in Nat, NEW S, IsFiniteSet(S), EachMore(f, g, m, S)
    PROVE  AllMore(f, g, m, S)
<1> USE DEF EachMore, AllMore
<1> DEFINE B == {s \in SUBSET S : Total(f, s) # Total(g, s) + m * Cardinality(s)}
<1> SUFFICES ASSUME B # {} PROVE FALSE
  OBVIOUS
<1>1. PICK s \in B : \A t \in B : t \subseteq s => t = s
  <2>1. B \in SUBSET SUBSET S
    OBVIOUS
  <2> HIDE DEF B
  <2> QED
    BY <2>1, SmallestSet
<1>2. s \in SUBSET S /\ IsFiniteSet(s)
  BY <1>1, FS_Subset
<1>3. s # {}
  <2> SUFFICES ASSUME s = {} PROVE FALSE
    OBVIOUS
  <2>1. Total(f, s) = 0 /\ Total(g, s) = 0 /\ Cardinality(s) = 0
    BY TotalEmpty, FS_EmptySet
  <2> QED
    BY <1>1, <2>1
<1>4. PICK x : x \in s
  BY <1>3
<1> DEFINE t == s \ {x}
<1>5. t \in SUBSET S /\ IsFiniteSet(t) /\ t # s /\ t \subseteq s
  BY <1>2, <1>4, FS_Subset
<1>6. t \notin B
  BY <1>1, <1>5
<1>7. Total(f, t) = Total(g, t) + m * Cardinality(t)
  BY <1>5, <1>6
<1>8. Total(f, s) = f[x] + Total(f, t)
  BY <1>2, <1>4, TotalRemove
<1>9. Total(g, s) = g[x] + Total(g, t)
  BY <1>2, <1>4, TotalRemove
<1>10. Cardinality(t) = Cardinality(s) - 1 /\ Cardinality(t) \in Nat /\ Cardinality(s) \in Nat
  BY <1>2, <1>4, <1>5, FS_RemoveElement, FS_CardinalityType
<1>11. Total(g, t) \in Nat /\ g[x] \in Nat /\ f[x] = m + g[x]
  BY <1>2, <1>4, <1>5, TotalNat
<1>12. Total(f, s) # Total(g, s) + m * Cardinality(s)
  BY <1>1
<1> DEFINE c == Cardinality(t)
           d == Cardinality(s)
<1>13. m * d = m + m * c /\ m * c \in Nat
  <2>1. c \in Nat /\ d = c + 1
    BY <1>10
  <2> HIDE DEF c, d
  <2> QED
    BY <2>1
<1> HIDE DEF t, B, c, d
<1>14. Total(f, t) = Total(g, t) + m * c /\ Total(f, s) # Total(g, s) + m * d
  BY <1>7, <1>12 DEF c, d
<1> QED
  BY <1>8, <1>9, <1>11, <1>13, <1>14

(* The client holds as many pointers as there are blocks in use.           *)
LEMMA HeldCount ==
    ASSUME NEW h, NEW own, NEW U, Holding(h, own, U), IsFiniteSet(U), \A b \in U : b \in Nat
    PROVE  Cardinality(DOMAIN own) = Cardinality(U)
<1> DEFINE P == DOMAIN own
           g == [b \in U |-> b + META]
<1>1. P = {b + META : b \in U}
  BY DEF Holding
<1>2. g \in Bijection(U, P)
  <2>1. g \in [U -> P] /\ \A p \in P : \E b \in U : g[b] = p
    BY <1>1
  <2>2. \A a, b \in U : g[a] = g[b] => a = b
    BY Constants
  <2> HIDE DEF g, P
  <2> QED
    BY <2>1, <2>2 DEF Bijection, Injection, Surjection, IsInjective
<1>3. ExistsBijection(U, P)
  BY <1>2 DEF ExistsBijection
<1> HIDE DEF P
<1>4. Cardinality(P) = Cardinality(U)
  BY <1>3, FS_Bijection
<1> QED
  BY <1>4 DEF P

(* CountersAgree, from the sums over L, M and F.                           *)
LEMMA InvCountersAgree == Inv => CountersAgree
<1> SUFFICES ASSUME Inv, Sound
             PROVE  /\ num_allocated_blocks - num_free_blocks = Cardinality(DOMAIN owned)
                    /\ Base + num_allocated_bytes + num_meta_data_bytes + heap.lost
                         = heap.brk + MappedBytes
  BY DEF CountersAgree
<1>1. PICK L, M, F : Read(L, M, F)
  BY SoundRead
<1> DEFINE U == Used(L, M, F)
<1>2. /\ List = L /\ Mapped = M /\ FreeBlocks = F
      /\ Held(heap, owned, L, M, F) /\ TidyFacts(heap, L, M, F)
  BY <1>1 DEF Read
<1>3. /\ Facts(heap, L, M, L \cup M, F) /\ HeapOK(heap, L, M) /\ Headers(heap, L \cup M)
      /\ F \subseteq L /\ \A x \in L : x \notin M
  BY <1>2 DEF TidyFacts
<1>4. /\ IsFiniteSet(L) /\ IsFiniteSet(F) /\ L \cup M \subseteq DOMAIN heap.hdr
  BY <1>3 DEF Facts
<1>5. IsFiniteSet(M) /\ Accounted(heap, L) /\ heap.brk \in Nat /\ heap.lost \in Nat
  BY <1>3, Constants DEF HeapOK, Mappings
<1>6. IsFiniteSet(L \cup M) /\ Cardinality(L \cup M) = Cardinality(L) + Cardinality(M)
  <2>1. L \cap M = {}
    BY <1>3
  <2>2. Cardinality(L \cap M) = 0
    BY <2>1, FS_EmptySet, Zenon
  <2>3. Cardinality(L) \in Nat /\ Cardinality(M) \in Nat
    BY <1>4, <1>5, FS_CardinalityType
  <2> QED
    <3>1. /\ IsFiniteSet(L \cup M)
          /\ Cardinality(L \cup M) = Cardinality(L) + Cardinality(M) - Cardinality(L \cap M)
      BY <1>4, <1>5, FS_Union
    <3> QED
      BY <2>2, <2>3, <3>1
<1>7. num_allocated_blocks - num_free_blocks = Cardinality(DOMAIN owned)
  <2>1. U = (L \cup M) \ F /\ (L \cup M) \cap F = F
    BY <1>3 DEF Used
  <2>2. IsFiniteSet(U) /\ Cardinality(U) = Cardinality(L \cup M) - Cardinality(F)
    BY <1>6, <2>1, FS_Difference
  <2>3. Holding(heap, owned, U) /\ \A b \in U : b \in Nat
    BY <1>2, HoldFacts
  <2> HIDE DEF U
  <2>4. Cardinality(DOMAIN owned) = Cardinality(U)
    BY <2>2, <2>3, HeldCount
  <2> QED
    BY <1>2, <2>2, <2>4 DEF num_allocated_blocks, num_free_blocks
<1>8. \A x \in L \cup M : heap.hdr[x].size \in Nat
  BY <1>3, HeaderIs
<1>9. SizeOf(L) = Total(HeaderSizes, L) /\ SizeOf(M) = Total(HeaderSizes, M)
  BY <1>4, <1>5, SizesTotal
<1>10. \A x \in L \cup M : HeaderSizes[x] \in Nat /\ spans(heap)[x] = META + HeaderSizes[x]
  BY <1>4, <1>8 DEF HeaderSizes, spans
<1>11. Total(spans(heap), L) = Total(HeaderSizes, L) + META * Cardinality(L)
  <2>1. EachMore(spans(heap), HeaderSizes, META, L)
    BY <1>10 DEF EachMore
  <2>2. AllMore(spans(heap), HeaderSizes, META, L)
    BY <1>4, <2>1, Constants, TotalAddEach
  <2> QED
    BY <2>2 DEF AllMore
<1>12. Total(HeaderSizes, L) \in Nat /\ Total(HeaderSizes, M) \in Nat
  BY <1>4, <1>5, <1>10, TotalNat
<1> DEFINE l == Total(HeaderSizes, L)
           m == Total(HeaderSizes, M)
           cl == Cardinality(L)
           cm == Cardinality(M)
<1>13. /\ num_allocated_bytes = l + m
       /\ num_meta_data_bytes = (cl + cm) * META
       /\ MappedBytes = m + META * cm
  BY <1>2, <1>6, <1>9 DEF num_allocated_bytes, num_meta_data_bytes, num_allocated_blocks, MappedBytes
<1>14. Base + (l + META * cl) + heap.lost = heap.brk
  BY <1>5, <1>11 DEF Accounted
<1>15. l \in Nat /\ m \in Nat /\ cl \in Nat /\ cm \in Nat /\ META \in Nat /\ Base \in Nat
  BY <1>4, <1>5, <1>12, FS_CardinalityType, Constants
<1> HIDE DEF l, m, cl, cm
<1>16. Base + num_allocated_bytes + num_meta_data_bytes + heap.lost = heap.brk + MappedBytes
  <2> DEFINE x == META * cl
             y == META * cm
  <2>1. (cl + cm) * META = x + y /\ x \in Nat /\ y \in Nat
    BY <1>15
  <2> HIDE DEF x, y
  <2>2. Base + (l + x) + heap.lost = heap.brk /\ MappedBytes = m + y
        /\ num_meta_data_bytes = x + y
    BY <1>13, <1>14, <2>1 DEF x, y
  <2> QED
    BY <1>5, <1>13, <1>15, <2>1, <2>2
<1> QED
  BY <1>7, <1>16

(* No two blocks of the list overlap, none reaches past the break, and the *)
(* list is linked both ways, whatever was split, merged, extended or       *)
(* mapped.                                                                 *)
THEOREM AlwaysBlocksApart == Spec => []BlocksApart
BY AlwaysInv, InvBlocksApart, PTL

(* The buckets hold exactly the free blocks of the heap, each in the       *)
(* bucket of its size, in the order of their sizes.                        *)
THEOREM AlwaysHistogramIsFreeBlocks == Spec => []HistogramIsFreeBlocks
BY AlwaysInv, InvHistogram, PTL

(* No two neighbours of the list are both free: sfree and srealloc unite   *)
(* all they should.                                                        *)
THEOREM AlwaysCoalesced == Spec => []Coalesced
BY AlwaysInv, InvCoalesced, PTL

(* The blocks in use are those the client holds, each at the aligned       *)
(* address behind its header and as large as it asked for.                 *)
THEOREM AlwaysHeldAreUsed == Spec => []HeldAreUsed
BY AlwaysInv, InvHeldAreUsed, PTL

(* The counters of malloc_3.h agree with each other, with the break and    *)
(* with what the client holds.                                             *)
THEOREM AlwaysCountersAgree == Spec => []CountersAgree
BY AlwaysInv, InvCountersAgree, PTL

-----------------------------------------------------------------------------
(* THE TYPES *)

IsFunction(f) == f = [x \in DOMAIN f |-> f[x]]

(* The headers and what the client holds are functions; of what it asked   *)
(* for, no call grants nothing or more than MAX_SIZE bytes.                *)
Tables ==
    /\ owned \in [DOMAIN owned -> Nat]
    /\ Sound => IsFunction(heap.hdr) /\ owned \in [DOMAIN owned -> 1..MAX_SIZE]

(* A call that grants p bytes at a new address, for those at given.        *)
Grants(given, p, n) ==
    /\ p \in Nat \ {0} /\ p \notin DOMAIN owned \ {given} /\ n \in 1..MAX_SIZE
    /\ owned' = [q \in (DOMAIN owned \ {given}) \cup {p} |-> IF q = p THEN n ELSE owned[q]]

LEMMA AllocatesGrants ==
    ASSUME NEW given, NEW n, Allocates(given, n), Sound'
    PROVE  owned' = owned \/ \E p : Grants(given, p, n)
<1>1. PICK L, M, F, k, r, V, s : Calls(given, n, L, M, F, k, r, V, s)
  BY DEF Allocates
<1>2. /\ Held(heap, owned, L, M, F) /\ IsHeap(r.heap)
      /\ Outcome(k, L, M, F, V, r, s) /\ Left(given, Used(L, M, F), V)
      /\ s \in Nat /\ n \in Nat
      /\ r.heap.flaws = {} /\ r.ptr # NULL => n \in 1..s /\ s <= MAX_SIZE
      /\ heap' = Forget(r.heap) /\ OwnedAfter(owned, given, r.ptr, n, owned')
  BY <1>1 DEF Calls
<1>3. r.heap.flaws = {}
  BY <1>2, ForgetIs DEF Sound
<1>4. PICK L2, M2, F2 :
         /\ Tidy(r.heap, L2, M2, F2)
         /\ r.ptr = NULL \/ \E b : Gets(k, r.heap, L2, M2, F2, V, r.ptr, b, s)
  BY <1>2, <1>3 DEF Outcome
<1>5. CASE r.ptr = NULL
  BY <1>2, <1>5 DEF OwnedAfter
<1>6. ASSUME r.ptr # NULL, NEW b, Gets(k, r.heap, L2, M2, F2, V, r.ptr, b, s)
      PROVE  Grants(given, r.ptr, n)
  <2>1. r.ptr = b + META /\ b \notin V /\ b \in L2 \cup M2
    BY <1>6 DEF Gets, Used
  <2>2. b \in Nat
    <3>1. TidyFacts(r.heap, L2, M2, F2)
      BY <1>4, TidyIs
    <3> QED
      BY <2>1, <3>1 DEF TidyFacts
  <2>3. /\ DOMAIN owned = {x + META : x \in Used(L, M, F)}
        /\ \A x \in Used(L, M, F) : x \in Nat
    <3>1. Holding(heap, owned, Used(L, M, F)) /\ \A x \in Used(L, M, F) : x \in Nat
      BY <1>2, HoldFacts
    <3> QED
      BY <3>1 DEF Holding
  <2>4. \A x \in Used(L, M, F) : x + META # given => x # b
    BY <1>2, <2>1 DEF Left
  <2>5. b + META \notin DOMAIN owned \ {given}
    BY <2>2, <2>3, <2>4, Constants
  <2>6. n \in 1..MAX_SIZE /\ b + META \in Nat \ {0}
    BY <1>2, <1>3, <1>6, <2>2, Constants
  <2>7. owned' = [q \in (DOMAIN owned \ {given}) \cup {r.ptr} |-> IF q = r.ptr THEN n ELSE owned[q]]
    BY <1>2, <1>6 DEF OwnedAfter
  <2> QED
    BY <2>1, <2>5, <2>6, <2>7 DEF Grants
<1> QED
  BY <1>4, <1>5, <1>6

(* What every step is.                                                     *)
LEMMA NextIs ==
    ASSUME Inv, Next
    PROVE  /\ Sound
           /\ \/ \E size \in Requests : Allocates(NULL, size)
              \/ \E num \in Counts, size \in Requests : Allocates(NULL, num * size)
              \/ \E p \in DOMAIN owned : Release(p)
              \/ \E p \in DOMAIN owned \cup {NULL}, size \in Requests : Allocates(p, size)
<1>1. heap.flaws = {} /\ \A n \in Requests \cup Counts : n \in 0..(Word - 1)
  BY Constants DEF Next
<1>2. \A size \in Requests : Malloc(size) => Allocates(NULL, size)
  BY <1>1, MallocCalls
<1>3. \A num \in Counts, size \in Requests : Calloc(num, size) => Allocates(NULL, num * size)
  BY <1>1, CallocCalls
<1>4. \A p \in DOMAIN owned \cup {NULL}, size \in Requests : Realloc(p, size) => Allocates(p, size)
  BY <1>1, ReallocCalls
<1> QED
  BY <1>1, <1>2, <1>3, <1>4 DEF Next, Sound

LEMMA AllocatesTables ==
    ASSUME Tables, Sound, NEW given, NEW n, Allocates(given, n)
    PROVE  /\ \E h : heap' = Forget(h)
           /\ owned' \in [DOMAIN owned' -> Nat]
           /\ Sound' => owned' \in [DOMAIN owned' -> 1..MAX_SIZE]
<1>1. PICK L, M, F, k, r, V, s : Calls(given, n, L, M, F, k, r, V, s)
  BY DEF Allocates
<1>2. n \in Nat /\ heap' = Forget(r.heap) /\ OwnedAfter(owned, given, r.ptr, n, owned')
  BY <1>1 DEF Calls
<1>3. owned' \in [DOMAIN owned' -> Nat]
  BY <1>2 DEF OwnedAfter, Tables
<1>4. ASSUME Sound' PROVE owned' \in [DOMAIN owned' -> 1..MAX_SIZE]
  BY <1>4, AllocatesGrants DEF Grants, Tables
<1> QED
  BY <1>2, <1>3, <1>4

(* Every call ends with Forget. *)
LEMMA NextTables ==
    ASSUME Tables, Inv, Inv', [Next]_vars
    PROVE  Tables'
<1>1. CASE UNCHANGED vars
  BY <1>1 DEF vars, Tables, Sound, IsFunction
<1>2. CASE Next
  <2>1. /\ \E h : heap' = Forget(h)
        /\ owned' \in [DOMAIN owned' -> Nat]
        /\ Sound' => owned' \in [DOMAIN owned' -> 1..MAX_SIZE]
    <3>1. ASSUME NEW p \in DOMAIN owned, Release(p)
          PROVE  /\ heap' = Forget(sfree(heap, p))
                 /\ owned' \in [DOMAIN owned' -> Nat]
                 /\ Sound => owned' \in [DOMAIN owned' -> 1..MAX_SIZE]
      BY <3>1 DEF Release, Tables
    <3> QED
      BY <1>2, <3>1, NextIs, AllocatesTables
  <2>2. PICK h : heap' = Forget(h)
    BY <2>1
  <2>3. IsHeap(heap')
    BY DEF Inv, IsHeap
  <2>4. DOMAIN h = Fields
    BY <2>2, <2>3 DEF Forget, IsHeap
  <2>5. heap'.flaws = h.flaws
    BY <2>2, <2>4 DEF Forget, Fields
  <2>6. h.flaws = {} => heap'.hdr = [b \in Listed(h) |-> h.hdr[b]]
    BY <2>2, <2>4 DEF Forget, Fields
  <2>7. heap'.flaws = {} => IsFunction(heap'.hdr)
    BY <2>5, <2>6 DEF IsFunction
  <2> QED
    BY <2>1, <2>7 DEF Tables, Sound, IsFunction
<1> QED
  BY <1>1, <1>2

LEMMA InvTypes == Inv /\ Tables => TypeOK
<1> SUFFICES ASSUME Inv, Tables PROVE TypeOK
  OBVIOUS
<1>1. owned \in [DOMAIN owned -> Nat] /\ align \in Alignments
  BY DEF Tables, Inv
<1>2. ASSUME Sound
      PROVE  /\ heap.histogram \in [0..(HIST_SIZE - 1) -> Pointer]
             /\ heap.hdr \in [DOMAIN heap.hdr -> MallocMetadata]
             /\ heap.brk \in Base..(Limit + 1) /\ heap.lost \in Nat
  <2>1. PICK L, M, F : Held(heap, owned, L, M, F) /\ TidyFacts(heap, L, M, F)
    BY <1>2, SoundRead DEF Read
  <2>2. HeapOK(heap, L, M) /\ Headers(heap, L \cup M) /\ State(heap, L, M, L \cup M, F)
    BY <2>1 DEF TidyFacts
  <2>3. heap.histogram \in [0..(HIST_SIZE - 1) -> Pointer]
    <3>1. heap.histogram \in [0..(HIST_SIZE - 1) -> Nat]
      BY <2>2 DEF State, HistOK, Buckets
    <3> QED
      BY <3>1 DEF Pointer
  <2>4. heap.hdr \in [DOMAIN heap.hdr -> MallocMetadata]
    <3>1. DOMAIN heap.hdr = L \cup M /\ \A b \in L \cup M : heap.hdr[b] \in MallocMetadata
      BY <2>1, <2>2 DEF Held, Headers
    <3>2. heap.hdr = [x \in DOMAIN heap.hdr |-> heap.hdr[x]]
      BY <1>2 DEF Tables, IsFunction
    <3> QED
      BY <3>1, <3>2
  <2>5. heap.brk \in Base..(Limit + 1) /\ heap.lost \in Nat
    BY <2>2 DEF HeapOK
  <2> QED
    BY <2>3, <2>4, <2>5
<1> QED
  BY <1>1, <1>2 DEF TypeOK

(* In a sound heap the buckets, headers, addresses and the break keep       *)
(* their types, and every block held was asked for with a legal size.      *)
THEOREM AlwaysTables == Spec => []Tables
<1>1. Init => Tables
  BY DEF Init, Tables, IsFunction
<1>2. Tables /\ Inv /\ Inv' /\ [Next]_vars => Tables'
  BY NextTables
<1> QED
  BY <1>1, <1>2, AlwaysInv, PTL DEF Spec

(* Whatever was split, merged, extended or mapped, the heap keeps its      *)
(* types until a call meets a flaw; the client's view always does.         *)
THEOREM AlwaysTypeOK == Spec => []TypeOK
BY AlwaysTables, AlwaysInv, InvTypes, PTL

-----------------------------------------------------------------------------
(* WHAT A CLIENT MAY RELY ON *)

(* No byte belongs to two of the blocks that the client holds.             *)
HeldApart ==
    Sound => \A p, q \in DOMAIN owned : p # q => p + owned[p] <= q \/ q + owned[q] <= p

(* Two blocks of the list, two mapped ones, and one of each.               *)
LEMMA ListApart ==
    ASSUME NEW h, NEW L, NEW M, HeapOK(h, L, M), NEW b \in L, NEW c \in L, b # c
    PROVE  b + META + h.hdr[b].size <= c \/ c + META + h.hdr[c].size <= b
<1>1. Apart(h, L) /\ Headers(h, L \cup M)
  BY DEF HeapOK
<1>2. /\ b \in Nat \ {0} /\ h.hdr[b].size \in Nat /\ h.hdr[b].next \in Nat
      /\ c \in Nat \ {0} /\ h.hdr[c].size \in Nat /\ h.hdr[c].next \in Nat
  BY <1>1, HeaderIs
<1>3. b < c => b + META + h.hdr[b].size <= c
  BY <1>1, <1>2, Constants DEF Apart
<1>4. c < b => c + META + h.hdr[c].size <= b
  BY <1>1, <1>2, Constants DEF Apart
<1> QED
  BY <1>2, <1>3, <1>4

LEMMA MappedRow ==
    ASSUME NEW j \in Nat, NEW k \in Nat, NEW w \in Nat \ {0}, j # k
    PROVE  j * w + w <= k * w \/ k * w + w <= j * w
<1>1. ASSUME NEW a \in Nat, NEW b \in Nat, a < b PROVE a * w + w <= b * w
  <2>1. b - a - 1 \in Nat
    BY <1>1
  <2>2. (b - a - 1) * w \in Nat
    BY <2>1
  <2>3. b * w = a * w + w + (b - a - 1) * w
    BY <2>1
  <2>4. a * w \in Nat /\ b * w \in Nat
    OBVIOUS
  <2> QED
    BY <2>2, <2>3, <2>4
<1> QED
  BY <1>1

LEMMA MapsApart ==
    ASSUME NEW h, NEW L, NEW M, HeapOK(h, L, M), NEW b \in M, NEW c \in M, b # c
    PROVE  b + META + MAX_SIZE <= c \/ c + META + MAX_SIZE <= b
<1> DEFINE w == META + MAX_SIZE
<1>1. Mappings(h, M)
  BY DEF HeapOK
<1>2. IsFiniteSet(M) /\ Cardinality(M) \in Nat
  BY <1>1, FS_CardinalityType DEF Mappings
<1>3. PICK j \in 0..(Cardinality(M) - 1) : b = Limit + 1 + j * w
  BY <1>1 DEF Mappings
<1>4. PICK k \in 0..(Cardinality(M) - 1) : c = Limit + 1 + k * w
  BY <1>1 DEF Mappings
<1>5. w \in Nat \ {0} /\ j \in Nat /\ k \in Nat /\ j # k
  BY <1>2, <1>3, <1>4, Constants
<1>6. w = META + MAX_SIZE
  OBVIOUS
<1> HIDE DEF w
<1>7. j * w + w <= k * w \/ k * w + w <= j * w
  BY <1>5, MappedRow
<1>8. j * w \in Nat /\ k * w \in Nat
  BY <1>5
<1> QED
  BY <1>3, <1>4, <1>5, <1>6, <1>7, <1>8, Constants

LEMMA ListBelow ==
    ASSUME NEW h, NEW L, NEW M, HeapOK(h, L, M), NEW b \in L, NEW c \in M
    PROVE  b + META + h.hdr[b].size <= c
<1>1. InMap(h, c)
  BY MappedAbove
<1>2. Apart(h, L) /\ Headers(h, L \cup M) /\ h.brk \in Base..(Limit + 1)
  BY DEF HeapOK
<1>3. b \in Nat /\ h.hdr[b].size \in Nat /\ c \in Nat
  BY <1>2, HeaderIs
<1>4. b + META + h.hdr[b].size <= h.brk
  BY <1>2 DEF Apart
<1> QED
  BY <1>1, <1>2, <1>3, <1>4, Constants DEF InMap

LEMMA InvHeldApart == Inv /\ Tables => HeldApart
<1> SUFFICES ASSUME Inv, Tables, Sound, NEW p \in DOMAIN owned, NEW q \in DOMAIN owned, p # q
             PROVE  p + owned[p] <= q \/ q + owned[q] <= p
  BY DEF HeldApart
<1>1. PICK L, M, F : Read(L, M, F)
  BY SoundRead
<1>2. /\ Held(heap, owned, L, M, F) /\ HeapOK(heap, L, M) /\ F \subseteq L
      /\ \A x \in L \cup M : x \in Nat \ {0} /\ heap.hdr[x].size \in Nat
  BY <1>1 DEF Read, TidyFacts
<1>3. Holding(heap, owned, Used(L, M, F))
  BY <1>2, HoldFacts
<1>4. PICK b \in Used(L, M, F) : p = b + META
  BY <1>3 DEF Holding
<1>5. PICK c \in Used(L, M, F) : q = c + META
  BY <1>3 DEF Holding
<1>6. /\ b \in L \cup M /\ c \in L \cup M /\ b # c
      /\ owned[p] <= heap.hdr[b].size /\ owned[q] <= heap.hdr[c].size
  BY <1>3, <1>4, <1>5 DEF Holding, Used
<1>7. owned[p] \in 1..MAX_SIZE /\ owned[q] \in 1..MAX_SIZE
  BY DEF Tables
<1>8. /\ b \in Nat /\ heap.hdr[b].size \in Nat /\ c \in Nat /\ heap.hdr[c].size \in Nat
  BY <1>2, <1>6
<1> USE Constants
<1>9. CASE b \in L /\ c \in L
  <2>1. b + META + heap.hdr[b].size <= c \/ c + META + heap.hdr[c].size <= b
    BY <1>2, <1>6, <1>9, ListApart
  <2> QED
    BY <1>4, <1>5, <1>6, <1>7, <1>8, <2>1
<1>10. CASE b \in L /\ c \in M
  <2>1. b + META + heap.hdr[b].size <= c
    BY <1>2, <1>10, ListBelow
  <2> QED
    BY <1>4, <1>5, <1>6, <1>7, <1>8, <2>1
<1>11. CASE b \in M /\ c \in L
  <2>1. c + META + heap.hdr[c].size <= b
    BY <1>2, <1>11, ListBelow
  <2> QED
    BY <1>4, <1>5, <1>6, <1>7, <1>8, <2>1
<1>12. CASE b \in M /\ c \in M
  <2>1. b + META + MAX_SIZE <= c \/ c + META + MAX_SIZE <= b
    BY <1>2, <1>6, <1>12, MapsApart
  <2> QED
    BY <1>4, <1>5, <1>6, <1>7, <1>8, <2>1
<1> QED
  BY <1>6, <1>9, <1>10, <1>11, <1>12

(* Blocks of the heap and mapped ones alike: what the client holds lies    *)
(* apart, as long as no call has met a flaw.                               *)
THEOREM AlwaysHeldApart == Spec => []HeldApart
BY AlwaysTables, AlwaysInv, InvHeldApart, PTL

Block(n) == [size |-> n, data |-> [i \in 0..(n - 1) |-> 0]]

LEMMA LiveIs ==
    /\ Live = [p \in DOMAIN owned |-> Block(owned[p])]
    /\ DOMAIN Live = DOMAIN owned /\ \A p \in DOMAIN owned : Live[p].size = owned[p]
BY DEF Live, Block

LEMMA BlockIs ==
    ASSUME NEW n \in Nat
    PROVE  Block(n) \in TheHeap!Contents(n) /\ \A i \in 0..(n - 1) : Block(n).data[i] = 0
BY DEF Block, TheHeap!Contents

(* A call that gets p of the client puts its block there, apart from all   *)
(* the client keeps.                                                       *)
LEMMA GrantPuts ==
    ASSUME Tables, HeldApart', Sound', NEW given, NEW p, NEW n, Grants(given, p, n)
    PROVE  /\ TheHeap!Apart(TheHeap!Without(given), p, n)
           /\ Live' = TheHeap!Put(TheHeap!Without(given), p, Block(n))
<1> DEFINE D == DOMAIN owned \ {given}
<1>1. owned' = [q \in D \cup {p} |-> IF q = p THEN n ELSE owned[q]] /\ p \notin D
  BY DEF Grants
<1>2. TheHeap!Without(given) = [q \in D |-> Block(owned[q])]
  BY LiveIs DEF TheHeap!Without
<1>3. Live' = [q \in DOMAIN owned' |-> Block(owned'[q])]
  BY DEF Live, Block
<1> HIDE DEF D
<1>4. \A q \in D : q \in DOMAIN owned' /\ owned'[q] = owned[q] /\ q # p
  BY <1>1
<1>5. p \in DOMAIN owned' /\ owned'[p] = n /\ DOMAIN owned' = D \cup {p}
  BY <1>1
<1>6. \A q \in D : p + n <= q \/ q + owned[q] <= p
  BY <1>4, <1>5 DEF HeldApart
<1>7. \A q \in D : TheHeap!Without(given)[q].size = owned[q]
  BY <1>2 DEF Block
<1>8. DOMAIN TheHeap!Without(given) = D
  BY <1>2
<1>9. TheHeap!Apart(TheHeap!Without(given), p, n)
  BY <1>6, <1>7, <1>8 DEF TheHeap!Apart
<1>10. \A q \in D \cup {p} :
         Block(owned'[q]) = IF q = p THEN Block(n) ELSE TheHeap!Without(given)[q]
  BY <1>2, <1>4, <1>5
<1>11. Live' = TheHeap!Put(TheHeap!Without(given), p, Block(n))
  BY <1>3, <1>5, <1>8, <1>10 DEF TheHeap!Put
<1> QED
  BY <1>9, <1>11

(* NULL is no block, so a call that gives none up leaves all there.        *)
LEMMA WithoutNull ==
    ASSUME Inv, Sound
    PROVE  NULL \notin DOMAIN owned /\ TheHeap!Without(NULL) = Live
<1>1. PICK L, M, F : Held(heap, owned, L, M, F)
  BY InvHeld DEF Sound
<1>2. \A p \in DOMAIN owned : p # NULL
  BY <1>1, HeldBlock, Constants
<1> QED
  BY <1>2, LiveIs DEF TheHeap!Without, Live

(* As the bytes are left out, scalloc does what smalloc does.               *)
LEMMA MallocStep ==
    ASSUME Inv, Tables, HeldApart', Sound, Sound', NEW n, Allocates(NULL, n)
    PROVE  TheHeap!Malloc \/ Live' = Live
<1>1. CASE owned' = owned
  BY <1>1 DEF Live
<1>2. ASSUME NEW p, Grants(NULL, p, n) PROVE TheHeap!Malloc
  <2>1. TheHeap!Apart(Live, p, n) /\ Live' = TheHeap!Put(Live, p, Block(n))
    BY <1>2, GrantPuts, WithoutNull
  <2>2. p \in Nat /\ n \in 1..MAX_SIZE /\ n \in Nat
    BY <1>2, Constants DEF Grants
  <2>3. Block(n) \in TheHeap!Contents(n)
    BY <2>2, BlockIs
  <2> QED
    BY <2>1, <2>2, <2>3 DEF TheHeap!Malloc
<1> QED
  BY <1>1, <1>2, AllocatesGrants

LEMMA ReallocStep ==
    ASSUME Inv, Tables, HeldApart', Sound, Sound', NEW p \in DOMAIN owned, NEW n, Allocates(p, n)
    PROVE  TheHeap!Realloc \/ Live' = Live
<1>1. CASE owned' = owned
  BY <1>1 DEF Live
<1>2. ASSUME NEW q, Grants(p, q, n) PROVE TheHeap!Realloc
  <2>1. /\ TheHeap!Apart(TheHeap!Without(p), q, n)
        /\ Live' = TheHeap!Put(TheHeap!Without(p), q, Block(n))
    BY <1>2, GrantPuts
  <2>2. q \in Nat /\ n \in 1..MAX_SIZE /\ n \in Nat /\ p \in DOMAIN Live
    BY <1>2, LiveIs, Constants DEF Grants
  <2>3. Block(n) \in TheHeap!Contents(n)
    BY <2>2, BlockIs
  <2>4. Live[p].size = owned[p] /\ owned[p] \in Nat
    BY LiveIs DEF Tables
  <2>5. \A i \in 0..(n - 1) : i < Live[p].size => Block(n).data[i] = Live[p].data[i]
    <3>1. Live[p] = Block(owned[p])
      BY LiveIs
    <3>2. \A i \in 0..(n - 1) : i < owned[p] => i \in 0..(owned[p] - 1)
      BY <2>2, <2>4
    <3> QED
      BY <2>2, <2>4, <3>1, <3>2, BlockIs
  <2> QED
    BY <2>1, <2>2, <2>3, <2>5 DEF TheHeap!Realloc
<1> QED
  BY <1>1, <1>2, AllocatesGrants

LEMMA FreeStep ==
    ASSUME NEW p \in DOMAIN owned, Release(p)
    PROVE  TheHeap!Free
<1>1. owned' = [q \in DOMAIN owned \ {p} |-> owned[q]]
  BY DEF Release
<1>2. Live' = [q \in DOMAIN owned' |-> Block(owned'[q])]
  BY DEF Live, Block
<1>3. Live' = TheHeap!Without(p)
  BY <1>1, <1>2, LiveIs DEF TheHeap!Without
<1> QED
  BY <1>3, LiveIs DEF TheHeap!Free

LEMMA HeapStep ==
    ASSUME Inv, Tables, HeldApart', Sound', [Next]_vars
    PROVE  TheHeap!Next \/ Live' = Live
<1>1. CASE UNCHANGED vars
  BY <1>1 DEF vars, Live
<1>2. CASE Next
  <2>1. ASSUME NEW n, Allocates(NULL, n) PROVE TheHeap!Malloc \/ Live' = Live
    BY <1>2, <2>1, NextIs, MallocStep
  <2>2. ASSUME NEW p \in DOMAIN owned, NEW n, Allocates(p, n) PROVE TheHeap!Realloc \/ Live' = Live
    BY <1>2, <2>2, NextIs, ReallocStep
  <2>3. ASSUME NEW p \in DOMAIN owned, Release(p) PROVE TheHeap!Free
    BY <2>3, FreeStep
  <2> QED
    BY <1>2, <2>1, <2>2, <2>3, NextIs DEF TheHeap!Next
<1> QED
  BY <1>1, <1>2

(* smalloc, scalloc, sfree and srealloc implement the heap, whatever is    *)
(* split, merged, extended and mapped on the way and whatever sbrk and     *)
(* mmap answer, until a call meets a flaw.                                 *)
THEOREM AllocatorIsAHeap == Spec => ImplementsHeap
<1>1. Init => TheHeap!Init
  BY DEF Init, TheHeap!Init, Live
<1>2. Inv /\ Tables /\ HeldApart' /\ [Next]_vars => [Sound' => TheHeap!Next]_Live
  BY HeapStep
<1> QED
  BY <1>1, <1>2, AlwaysInv, AlwaysTables, AlwaysHeldApart, PTL DEF Spec, ImplementsHeap
=============================================================================
