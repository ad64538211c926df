---------------------------- MODULE WeightProofs ----------------------------
(***************************************************************************)
(* Theorems about Weight, for all sets of tasks and all weights.           *)
(*                                                                         *)
(* Ancestors is a recursion; the proofs use chains of parents instead: s   *)
(* is a chain of length n when each of s[0], ..., s[n] but the last has    *)
(* the next one as its parent.                                             *)
(***************************************************************************)
EXTENDS Weight, Sums, SequenceTheorems

InTree(t) == status[t] \in {"live", "zombie"}

Chain(par, s, n) ==
    /\ n \in Nat /\ s \in [0..n -> Tasks]
    /\ \A i \in 0..(n - 1) : s[i + 1] = par[s[i]]

Acyclic(par) ==
    \A n \in Nat \ {0} : \A s \in [0..n -> Tasks] : Chain(par, s, n) => s[n] # s[0]

(* The tree that the kernel keeps. *)
TreeInv ==
    /\ status[1] = "live" /\ parent[1] = 0
    /\ \A t \in Tasks : status[t] = "none" => parent[t] = 0
    /\ \A t \in Tasks : parent[t] # 0 => status[parent[t]] # "none"
    /\ \A t \in Tasks \ {1} : InTree(t) => parent[t] \in Live
    /\ \A t \in Tasks : status[t] # "live" => children[t] = <<>>
    /\ \A t, c \in Tasks : (\E i \in DOMAIN children[t] : children[t][i] = c)
                             <=> (InTree(c) /\ parent[c] = t)
    /\ \A t \in Tasks : \A i, j \in DOMAIN children[t] :
          children[t][i] = children[t][j] => i = j
    /\ Acyclic(parent)

Climbing == pc \in {"compare", "climb"}
Walking == pc \in {"enter", "add", "first", "next"}
WalkedOver == Walking \/ (pc = "returned" /\ path # <<>>)

Places ==
    /\ TypeOK /\ path \in Seq(Tasks) /\ counted \in Seq(Tasks)
    /\ status[current] = "live"
    /\ pc \in {"idle", "lost"} => current = 1
    /\ Climbing => path = <<>>
    /\ pc = "climb" => at # 0
    /\ Walking => path # <<>>
    /\ pc = "returned" => Len(path) \in {0, 1}

-----------------------------------------------------------------------------
(* get_heaviest_ancestor: every chain from the caller up that has not      *)
(* changed was compared, or its first part was and the call is on it.      *)

SteadyUp(s, n) ==
    Chain(parent, s, n) /\ s[0] = current /\ \A i \in 0..n : s[i] \in steady

Seen(s, i) ==
    /\ weight[s[i]] <= max
    /\ weight[s[i]] = max => heaviest \notin steady \/ \E j \in 0..i : s[j] = heaviest

SeenTo(s, m) == (\A i \in 0..m : Seen(s, i)) /\ \E j \in 0..m : s[j] = heaviest

ClimbInv ==
    Climbing \/ (pc = "returned" /\ path = <<>>) =>
      \A n \in Nat : \A s \in [0..n -> Tasks] :
        SteadyUp(s, n) =>
          \/ \A i \in 0..n : Seen(s, i)
          \/ pc = "compare" /\ \E m \in 1..n : s[m] = at /\ SeenTo(s, m - 1)
          \/ pc = "climb" /\ \E m \in 1..n : s[m] = at /\ SeenTo(s, m)

-----------------------------------------------------------------------------
(* get_leaf_children_sum: the walk is depth first.  d is a way down from   *)
(* the caller that has not changed.                                        *)

SteadyDown(d, k) ==
    /\ d[1] = current
    /\ \A i \in 1..(k - 1) : parent[d[i + 1]] = d[i]
    /\ \A i \in 1..k : d[i] \in steady /\ InTree(d[i])

Uncounted(t) == \A i \in DOMAIN counted : counted[i] # t
Once(t) == \E i \in DOMAIN counted : /\ counted[i] = t
                                     /\ \A j \in DOMAIN counted : counted[j] = t => j = i

(* Where the walk is when it has followed d up to d[j]: on d, or in a list *)
(* of children before the way goes on or behind.                           *)
OnWay(d, k, j) ==
    /\ Len(path) = j
    /\ IF pc \in {"enter", "add", "first"} THEN Uncounted(d[k]) ELSE Once(d[k])

OffWay(d, k, j) ==
    /\ j < Len(path) /\ j < k
    /\ \E a, b \in DOMAIN children[d[j]] :
         /\ children[d[j]][a] = path[j + 1] /\ children[d[j]][b] = d[j + 1]
         /\ \/ a < b /\ Uncounted(d[k])
            \/ b < a /\ Once(d[k])

LeafInv ==
    \A k \in Nat \ {0} : \A d \in [1..k -> Tasks] :
      SteadyDown(d, k) /\ children[d[k]] = <<>> =>
        \E j \in 1..k : /\ j <= Len(path) /\ \A i \in 1..j : path[i] = d[i]
                        /\ OnWay(d, k, j) \/ OffWay(d, k, j)

PathInv ==
    /\ path[1] = current
    /\ \A i \in 2..Len(path) :
         /\ path[i] # 1
         /\ \A n \in Nat : \A s \in [0..n -> Tasks] :
              Chain(parent, s, n) /\ s[0] = current => s[n] # path[i]
    /\ \A i \in 1..(Len(path) - 1) :
         /\ path[i] \in steady =>
              \E a \in DOMAIN children[path[i]] : children[path[i]][a] = path[i + 1]
         /\ path[i + 1] \in steady => parent[path[i + 1]] = path[i]
    /\ pc = "add" /\ Top \in steady => children[Top] = <<>>
    /\ pc = "first" /\ Top \in steady => children[Top] # <<>>

Counted == {counted[i] : i \in DOMAIN counted}

SumInv ==
    steady = Tasks =>
      /\ sum = Total(weight, Counted) % Word
      /\ \A t \in Counted :
           /\ children[t] = <<>>
           /\ \E k \in Nat \ {0} : \E d \in [1..k -> Tasks] : SteadyDown(d, k) /\ d[k] = t

WalkInv == WalkedOver => PathInv /\ LeafInv /\ SumInv

IInv == Places /\ TreeInv /\ ClimbInv /\ WalkInv

-----------------------------------------------------------------------------
(* Chains and ancestors. *)

LEMMA Constants ==
    /\ Tasks \subseteq Nat \ {0} /\ 1 \in Tasks /\ IsFiniteSet(Tasks) /\ 0 \notin Tasks
    /\ Weights \subseteq Nat /\ 0 \in Weights /\ Word \in Nat \ {0}
    /\ Cardinality(Tasks) \in Nat
BY WeightAssumption, FS_CardinalityType DEF WeightAssumption

LEMMA ChainPart ==
    ASSUME NEW par, NEW n, NEW s, Chain(par, s, n), NEW l \in 0..n, NEW m \in l..n
    PROVE  LET r == [i \in 0..(m - l) |-> s[i + l]] IN
             Chain(par, r, m - l) /\ r[0] = s[l] /\ r[m - l] = s[m]
<1> DEFINE k == m - l
           r == [i \in 0..k |-> s[i + l]]
<1>1. n \in Nat /\ s \in [0..n -> Tasks] /\ \A i \in 0..(n - 1) : s[i + 1] = par[s[i]]
  BY DEF Chain
<1>2. k \in Nat /\ l \in Nat /\ m \in Nat /\ k + l = m
  BY <1>1
<1>3. \A i \in 0..k : i + l \in 0..n
  BY <1>1, <1>2
<1>4. \A i \in 0..(k - 1) : i + l \in 0..(n - 1) /\ i \in 0..k /\ i + 1 \in 0..k
                            /\ (i + l) + 1 = (i + 1) + l
  BY <1>1, <1>2
<1> HIDE DEF k
<1>5. r \in [0..k -> Tasks]
  BY <1>1, <1>3
<1>6. \A i \in 0..(k - 1) : r[i + 1] = par[r[i]]
  BY <1>1, <1>4
<1>7. r[0] = s[l] /\ r[k] = s[m]
  BY <1>2
<1> QED
  BY <1>2, <1>5, <1>6, <1>7 DEF Chain, k

LEMMA ChainTail ==
    ASSUME NEW par, NEW n, NEW s, Chain(par, s, n), NEW l \in 0..n
    PROVE  \E r : Chain(par, r, n - l) /\ r[0] = s[l] /\ r[n - l] = s[n]
<1> DEFINE r == [i \in 0..(n - l) |-> s[i + l]]
<1>1. n \in Nat /\ n \in l..n /\ l \in 0..n
  BY DEF Chain
<1>2. Chain(par, r, n - l) /\ r[0] = s[l] /\ r[n - l] = s[n]
  BY <1>1, ChainPart
<1> HIDE DEF r
<1> QED
  BY <1>2

LEMMA ChainJoin ==
    ASSUME NEW par, NEW n, NEW s, Chain(par, s, n), NEW m, NEW r, Chain(par, r, m),
           s[n] = r[0]
    PROVE  \E q : Chain(par, q, n + m) /\ q[0] = s[0] /\ q[n] = s[n] /\ q[n + m] = r[m]
<1> DEFINE k == n + m
           q == [i \in 0..k |-> IF i <= n THEN s[i] ELSE r[i - n]]
<1>1. n \in Nat /\ s \in [0..n -> Tasks] /\ \A i \in 0..(n - 1) : s[i + 1] = par[s[i]]
  BY DEF Chain
<1>2. m \in Nat /\ r \in [0..m -> Tasks] /\ \A i \in 0..(m - 1) : r[i + 1] = par[r[i]]
  BY DEF Chain
<1>3. k \in Nat /\ q \in [0..k -> Tasks]
  BY <1>1, <1>2
<1>4. ASSUME NEW i \in 0..(k - 1) PROVE q[i + 1] = par[q[i]]
  <2>1. CASE i < n
    <3>1. i \in 0..k /\ i + 1 \in 0..k /\ i <= n /\ i + 1 <= n /\ i \in 0..(n - 1)
      BY <1>1, <1>2, <2>1
    <3>2. q[i + 1] = s[i + 1] /\ q[i] = s[i]
      BY <3>1
    <3> QED
      BY <1>1, <3>1, <3>2
  <2>2. CASE ~(i < n)
    <3>1. i - n \in 0..(m - 1) /\ (i + 1) - n = (i - n) + 1 /\ i \in 0..k /\ i + 1 \in 0..k
      BY <1>1, <1>2, <2>2
    <3>2. q[i + 1] = r[(i - n) + 1]
      BY <1>1, <2>2, <3>1
    <3>3. q[i] = r[i - n]
      <4>1. CASE i = n
        <5>1. i <= n /\ i - n = 0
          BY <1>1, <4>1
        <5>2. q[i] = s[n]
          BY <3>1, <4>1, <5>1
        <5> HIDE DEF q
        <5> QED
          BY <5>1, <5>2
      <4>2. CASE i # n
        BY <1>1, <2>2, <3>1, <4>2
      <4> QED
        BY <4>1, <4>2
    <3> QED
      BY <1>2, <3>1, <3>2, <3>3
  <2> QED
    BY <2>1, <2>2
<1>5. q[0] = s[0] /\ q[n] = s[n] /\ q[k] = r[m]
  <2>1. 0 \in 0..k /\ n \in 0..k /\ k \in 0..k /\ (k <= n => m = 0 /\ k = n) /\ k - n = m
    BY <1>1, <1>2
  <2> QED
    BY <1>1, <2>1
<1> QED
  BY <1>3, <1>4, <1>5 DEF Chain

LEMMA NoRing ==
    ASSUME NEW par, Acyclic(par), NEW n, NEW s, Chain(par, s, n), NEW m, NEW r,
           Chain(par, r, m), s[n] = r[0], r[m] = s[0], n # 0
    PROVE  FALSE
<1>1. PICK q : Chain(par, q, n + m) /\ q[0] = s[0] /\ q[n + m] = r[m]
  BY ChainJoin
<1>2. n + m \in Nat \ {0} /\ q \in [0..(n + m) -> Tasks]
  BY <1>1 DEF Chain
<1> QED
  BY <1>1, <1>2 DEF Acyclic

LEMMA ChainOne ==
    ASSUME NEW par, NEW t \in Tasks, par[t] \in Tasks
    PROVE  \E s : Chain(par, s, 1) /\ s[0] = t /\ s[1] = par[t]
<1> DEFINE s == [i \in 0..1 |-> IF i = 0 THEN t ELSE par[t]]
<1>1. s \in [0..1 -> Tasks] /\ s[0] = t /\ s[1] = par[t]
  OBVIOUS
<1>2. \A i \in 0..0 : i = 0
  OBVIOUS
<1> HIDE DEF s
<1>3. Chain(par, s, 1)
  BY <1>1, <1>2 DEF Chain
<1> QED
  BY <1>1, <1>3

LEMMA ChainNone ==
    ASSUME NEW par, NEW t \in Tasks
    PROVE  \E s : Chain(par, s, 0) /\ s[0] = t
<1> DEFINE s == [i \in 0..0 |-> t]
<1>1. s \in [0..0 -> Tasks] /\ s[0] = t /\ 0..(0 - 1) = {}
  OBVIOUS
<1> HIDE DEF s
<1> QED
  BY <1>1 DEF Chain

(* What a chain of at most n parents reaches from t. *)
Reached(t, n) ==
    {x \in Tasks \cup {0} :
        x = t \/ \E m \in 0..n : \E s : Chain(parent, s, m) /\ s[0] = t /\ s[m] = x}

LEMMA ReachedStep ==
    ASSUME parent \in [Tasks -> Tasks \cup {0}], NEW t \in Tasks \cup {0}, NEW n \in Nat \ {0}
    PROVE  Reached(t, n) = Reached(t, n - 1)
                             \cup ({parent[x] : x \in Reached(t, n - 1) \ {0}} \ {0})
<1> DEFINE R == Reached(t, n - 1)
<1>1. \A x \in R : x \in Tasks \cup {0}
  BY DEF Reached
<1>2. ASSUME NEW x \in Reached(t, n), x \notin R
      PROVE  x # 0 /\ \E y \in R \ {0} : x = parent[y]
  <2>1. PICK m, s : m \in 0..n /\ Chain(parent, s, m) /\ s[0] = t /\ s[m] = x
    BY <1>2 DEF Reached
  <2>2. m = n
    BY <1>2, <2>1 DEF Reached
  <2>3. s \in [0..n -> Tasks] /\ s[(n - 1) + 1] = parent[s[n - 1]] /\ n - 1 \in 0..n
    BY <2>1, <2>2 DEF Chain
  <2>4. Chain(parent, [i \in 0..(n - 1) |-> s[i]], n - 1)
    <3>1. [i \in 0..((n - 1) - 0) |-> s[i + 0]] = [i \in 0..(n - 1) |-> s[i]]
      OBVIOUS
    <3>2. 0 \in 0..n /\ n - 1 \in 0..n /\ (n - 1) - 0 = n - 1
      OBVIOUS
    <3> QED
      BY <2>1, <2>2, <3>1, <3>2, ChainPart
  <2> DEFINE r == [i \in 0..(n - 1) |-> s[i]]
  <2>5. r[0] = t /\ r[n - 1] = s[n - 1]
    BY <2>1
  <2>6. s[n - 1] \in R /\ s[n - 1] # 0
    <3>1. s[n - 1] \in Tasks /\ n - 1 \in 0..(n - 1)
      BY <2>3
    <3> HIDE DEF r
    <3> QED
      BY <2>4, <2>5, <3>1, Constants DEF Reached, r
  <2>7. x = parent[s[n - 1]] /\ x # 0
    <3>1. (n - 1) + 1 = n
      OBVIOUS
    <3> QED
      BY <2>1, <2>2, <2>3, <3>1, Constants
  <2> QED
    BY <2>6, <2>7
<1>3. ASSUME NEW x \in R PROVE x \in Reached(t, n)
  BY DEF Reached
<1>4. ASSUME NEW y \in R \ {0}, parent[y] # 0 PROVE parent[y] \in Reached(t, n)
  <2>1. y \in Tasks /\ parent[y] \in Tasks
    BY <1>1, <1>4
  <2>2. PICK q : Chain(parent, q, 1) /\ q[0] = y /\ q[1] = parent[y]
    BY <2>1, ChainOne
  <2>3. CASE y = t
    BY <2>1, <2>2, <2>3 DEF Reached
  <2>4. CASE y # t
    <3>1. PICK m, s : m \in 0..(n - 1) /\ Chain(parent, s, m) /\ s[0] = t /\ s[m] = y
      BY <2>4 DEF Reached
    <3>2. PICK r : Chain(parent, r, m + 1) /\ r[0] = t /\ r[m + 1] = parent[y]
      BY <2>2, <3>1, ChainJoin
    <3>3. m + 1 \in 0..n
      BY <3>1
    <3> QED
      BY <2>1, <3>2, <3>3 DEF Reached
  <2> QED
    BY <2>3, <2>4
<1> HIDE DEF R
<1>5. Reached(t, n) = R \cup ({parent[x] : x \in R \ {0}} \ {0})
  BY <1>2, <1>3, <1>4
<1> QED
  BY <1>5 DEF R

LEMMA AncestorsReached ==
    ASSUME parent \in [Tasks -> Tasks \cup {0}], NEW t \in Tasks \cup {0}
    PROVE  Ancestors(t) = Reached(t, Cardinality(Tasks))
<1> DEFINE C == Cardinality(Tasks)
           Up(u) == [n \in 0..C |->
                       IF n = 0 THEN {t}
                       ELSE u[n - 1] \cup ({parent[x] : x \in u[n - 1] \ {0}} \ {0})]
           v == [n \in 0..C |-> Reached(t, n)]
           w == CHOOSE u : u = Up(u)
<1>1. C \in Nat
  BY Constants
<1>2. Reached(t, 0) = {t}
  <2>1. \A m \in 0..0 : m = 0
    OBVIOUS
  <2> QED
    BY <2>1 DEF Reached
<1>3. v = Up(v)
  <2>1. ASSUME NEW n \in 0..C
        PROVE  v[n] = IF n = 0 THEN {t}
                      ELSE v[n - 1] \cup ({parent[x] : x \in v[n - 1] \ {0}} \ {0})
    <3>1. CASE n = 0
      BY <1>1, <1>2, <3>1
    <3>2. CASE n # 0
      <4>1. n \in Nat \ {0} /\ n - 1 \in 0..C
        BY <1>1, <3>2
      <4>2. v[n] = Reached(t, n) /\ v[n - 1] = Reached(t, n - 1)
        BY <4>1
      <4> HIDE DEF v
      <4> QED
        BY <3>2, <4>1, <4>2, ReachedStep
    <3> QED
      BY <3>1, <3>2
  <2>2. v = [n \in 0..C |-> v[n]]
    OBVIOUS
  <2> HIDE DEF v, C
  <2> QED
    BY <2>1, <2>2
<1>4. w = Up(w)
  <2>1. \E u : u = Up(u)
    BY <1>3
  <2> HIDE DEF v, Up
  <2> QED
    BY <2>1
<1>5. \A n \in 0..C : w[n] = v[n]
  <2> DEFINE B == {n \in 0..C : w[n] # v[n]}
  <2> SUFFICES ASSUME B # {} PROVE FALSE
    OBVIOUS
  <2>1. PICK n \in B : \A m \in B : n <= m
    <3>1. B \in SUBSET Nat
      BY <1>1
    <3> HIDE DEF B
    <3> QED
      BY <3>1, Smallest
  <2>2. n \in 0..C /\ w[n] # v[n]
    BY <2>1
  <2> HIDE DEF w, v
  <2>3. /\ w[n] = IF n = 0 THEN {t}
                  ELSE w[n - 1] \cup ({parent[x] : x \in w[n - 1] \ {0}} \ {0})
        /\ v[n] = IF n = 0 THEN {t}
                  ELSE v[n - 1] \cup ({parent[x] : x \in v[n - 1] \ {0}} \ {0})
    BY <1>3, <1>4, <2>2
  <2>4. n # 0
    BY <2>2, <2>3
  <2>5. n - 1 \in 0..C /\ n - 1 < n
    BY <1>1, <2>2, <2>4
  <2>6. w[n - 1] = v[n - 1]
    BY <2>1, <2>5
  <2> QED
    BY <2>2, <2>3, <2>6
<1>6. Ancestors(t) = w[C]
  BY DEF Ancestors
<1>7. w[C] = v[C] /\ v[C] = Reached(t, C)
  BY <1>1, <1>5
<1> QED
  BY <1>6, <1>7

LEMMA AncestorChain ==
    ASSUME parent \in [Tasks -> Tasks \cup {0}], NEW t \in Tasks \cup {0}, NEW x
    PROVE  x \in Ancestors(t) <=>
             x = t \/ \E m \in 0..Cardinality(Tasks) :
                        \E s : Chain(parent, s, m) /\ s[0] = t /\ s[m] = x
<1>1. Ancestors(t) = Reached(t, Cardinality(Tasks))
  BY AncestorsReached
<1>2. ASSUME NEW m \in Nat, NEW s, Chain(parent, s, m) PROVE s[m] \in Tasks
  BY <1>2 DEF Chain
<1> QED
  BY <1>1, <1>2, Constants DEF Reached

-----------------------------------------------------------------------------
(* The tree after a step of another task. *)

TreeTypes ==
    /\ status \in [Tasks -> {"none", "live", "zombie", "freed"}]
    /\ parent \in [Tasks -> Tasks \cup {0}]
    /\ children \in [Tasks -> Seq(Tasks)]
    /\ weight \in [Tasks -> Weights]

(* Only the tasks ts changed, and the call under way knows. *)
Moved(ts) ==
    /\ ts \cap Tasks # {} /\ steady' = steady \ ts
    /\ \A x \in Tasks \ ts : /\ status'[x] = status[x] /\ parent'[x] = parent[x]
                             /\ children'[x] = children[x] /\ weight'[x] = weight[x]

OldChains ==
    \A n \in Nat : \A s \in [0..n -> Tasks] :
      Chain(parent', s, n) /\ status[s[0]] = "live" /\ s[n] # 1 => Chain(parent, s, n)

LEMMA ForkChain ==
    ASSUME NEW par, NEW t, NEW p \in Tasks, p # t, NEW q, q = [par EXCEPT ![t] = p],
           par \in [Tasks -> Tasks \cup {0}], \A x \in Tasks : par[x] # t,
           NEW n, NEW s, Chain(q, s, n)
    PROVE  /\ s[0] # t => Chain(par, s, n)
           /\ n # 0 => s[n] # t
<1>1. n \in Nat /\ s \in [0..n -> Tasks] /\ \A i \in 0..(n - 1) : s[i + 1] = q[s[i]]
  BY DEF Chain
<1>2. \A x \in Tasks : q[x] # t /\ (x # t => q[x] = par[x])
  OBVIOUS
<1>3. ASSUME NEW i \in 0..n, i # 0 PROVE s[i] # t
  <2>1. i - 1 \in 0..(n - 1) /\ (i - 1) + 1 = i /\ i - 1 \in 0..n
    BY <1>1, <1>3
  <2>2. s[i - 1] \in Tasks /\ s[(i - 1) + 1] = q[s[i - 1]]
    BY <1>1, <2>1
  <2> QED
    BY <1>2, <2>1, <2>2
<1>4. ASSUME s[0] # t PROVE Chain(par, s, n)
  <2>1. \A i \in 0..(n - 1) : i \in 0..n /\ s[i] # t
    BY <1>1, <1>3, <1>4
  <2>2. \A i \in 0..(n - 1) : s[i + 1] = par[s[i]]
    BY <1>1, <1>2, <2>1
  <2> QED
    BY <1>1, <2>2 DEF Chain
<1> QED
  BY <1>1, <1>3, <1>4

LEMMA ExitChain ==
    ASSUME NEW par, NEW q, \A x \in Tasks : q[x] = par[x] \/ q[x] = 1, q[1] = 0,
           NEW n, NEW s, Chain(q, s, n)
    PROVE  /\ s[n] # 1 => Chain(par, s, n)
           /\ s[0] = 1 => n = 0
<1>1. n \in Nat /\ s \in [0..n -> Tasks] /\ \A i \in 0..(n - 1) : s[i + 1] = q[s[i]]
  BY DEF Chain
<1>2. ASSUME NEW i \in 0..n, s[i] = 1 PROVE i = n
  <2> SUFFICES ASSUME i # n PROVE FALSE
    OBVIOUS
  <2>1. i \in 0..(n - 1) /\ i + 1 \in 0..n
    BY <1>1
  <2>2. s[i + 1] = 0
    BY <1>1, <1>2, <2>1
  <2> QED
    BY <1>1, <2>1, <2>2, Constants
<1>3. ASSUME s[n] # 1 PROVE Chain(par, s, n)
  <2>1. \A i \in 0..(n - 1) : i \in 0..n /\ i + 1 \in 0..n /\ s[i + 1] # 1
    BY <1>1, <1>2, <1>3
  <2>2. \A i \in 0..(n - 1) : s[i + 1] = par[s[i]]
    BY <1>1, <2>1
  <2> QED
    BY <1>1, <2>2 DEF Chain
<1>4. 0 \in 0..n
  BY <1>1
<1> QED
  BY <1>2, <1>3, <1>4

LEMMA MinIn ==
    ASSUME NEW S \in SUBSET Nat, S # {}
    PROVE  Min(S) \in S
<1>1. \E n \in S : \A m \in S : n <= m
  BY Smallest
<1> QED
  BY <1>1 DEF Min

LEMMA ForkTree ==
    ASSUME TreeTypes, TreeInv, NEW p \in Tasks, Fork(p), status[current] = "live"
    PROVE  /\ TreeTypes' /\ TreeInv' /\ OldChains /\ status'[current] = "live"
           /\ \E ts : Moved(ts)
           /\ UNCHANGED <<pc, locals>>
<1> DEFINE t == Min(Unborn)
<1>1. t \in Tasks /\ status[t] = "none"
  <2>1. Unborn \in SUBSET Nat /\ Unborn # {}
    BY Constants DEF Fork, Unborn
  <2>2. Min(Unborn) \in Unborn
    BY <2>1, MinIn
  <2> QED
    BY <2>2 DEF Unborn
<1>2. status[p] = "live" /\ p # t /\ t # 1
  BY <1>1 DEF Fork, May, Live, TreeInv
<1>3. /\ status' = [status EXCEPT ![t] = "live"]
      /\ parent' = [parent EXCEPT ![t] = p]
      /\ children' = [children EXCEPT ![p] = Append(@, t)]
      /\ weight' = [weight EXCEPT ![t] = weight[p]]
      /\ steady' = steady \ {p, t} /\ UNCHANGED <<pc, locals>>
  BY DEF Fork, Changes
<1> HIDE DEF t
<1>4. TreeTypes'
  BY <1>1, <1>3 DEF TreeTypes
<1>5. Moved({p, t})
  BY <1>1, <1>3 DEF Moved, TreeTypes
<1>6. \A x \in Tasks : parent[x] # t
  BY <1>1, Constants DEF TreeInv
<1>7. OldChains
  <2> SUFFICES ASSUME NEW n \in Nat, NEW s \in [0..n -> Tasks], Chain(parent', s, n),
                      status[s[0]] = "live"
               PROVE  Chain(parent, s, n)
    BY DEF OldChains
  <2>1. s[0] # t
    BY <1>1
  <2> QED
    BY <1>1, <1>2, <1>3, <1>6, <2>1, ForkChain DEF TreeTypes
<1>8. Acyclic(parent')
  <2> SUFFICES ASSUME NEW n \in Nat \ {0}, NEW s \in [0..n -> Tasks], Chain(parent', s, n),
                      s[n] = s[0]
               PROVE  FALSE
    BY DEF Acyclic
  <2>1. Chain(parent, s, n)
    BY <1>1, <1>2, <1>3, <1>6, ForkChain DEF TreeTypes
  <2> QED
    BY <2>1 DEF TreeInv, Acyclic
<1>9. /\ status'[1] = "live" /\ parent'[1] = 0
      /\ \A x \in Tasks : status'[x] = "none" => parent'[x] = 0
      /\ \A x \in Tasks : parent'[x] # 0 => status'[parent'[x]] # "none"
  BY <1>1, <1>2, <1>3, Constants DEF TreeInv, TreeTypes
<1>10. /\ \A x \in Tasks \ {1} : InTree(x)' => parent'[x] \in Live'
       /\ \A x \in Tasks : status'[x] # "live" => children'[x] = <<>>
  BY <1>1, <1>2, <1>3, Constants DEF TreeInv, TreeTypes, InTree, Live
<1>11. ASSUME NEW x \in Tasks, NEW c \in Tasks
       PROVE  (\E i \in DOMAIN children'[x] : children'[x][i] = c)
                 <=> (InTree(c)' /\ parent'[c] = x)
  <2>1. (\E i \in DOMAIN children[x] : children[x][i] = c) <=> (InTree(c) /\ parent[c] = x)
    BY DEF TreeInv
  <2>2. InTree(c)' <=> InTree(c) \/ c = t
    BY <1>1, <1>3 DEF InTree, TreeTypes
  <2>3. parent'[c] = IF c = t THEN p ELSE parent[c]
    BY <1>3 DEF TreeTypes
  <2>4. ~InTree(t)
    BY <1>1 DEF InTree
  <2>5. CASE x = p
    <3>1. children'[x] = Append(children[x], t) /\ children[x] \in Seq(Tasks)
      BY <1>3, <2>5 DEF TreeTypes
    <3>2. (\E i \in DOMAIN children'[x] : children'[x][i] = c)
            <=> (\E i \in DOMAIN children[x] : children[x][i] = c) \/ c = t
      <4> DEFINE l == children[x]
                 k == Append(l, t)
      <4>1. /\ DOMAIN k = DOMAIN l \cup {Len(l) + 1} /\ k[Len(l) + 1] = t
            /\ \A i \in DOMAIN l : k[i] = l[i]
        BY <1>1, <3>1
      <4>2. children'[x] = k
        BY <3>1
      <4> HIDE DEF k, l
      <4> QED
        BY <4>1, <4>2 DEF l
    <3> QED
      BY <2>1, <2>2, <2>3, <2>4, <2>5, <3>2
  <2>6. CASE x # p
    <3>1. children'[x] = children[x]
      BY <1>3, <2>6 DEF TreeTypes
    <3> QED
      BY <2>1, <2>2, <2>3, <2>4, <2>6, <3>1
  <2> QED
    BY <2>5, <2>6
<1>12. ASSUME NEW x \in Tasks, NEW i \in DOMAIN children'[x], NEW j \in DOMAIN children'[x],
              children'[x][i] = children'[x][j]
       PROVE  i = j
  <2>1. \A k, l \in DOMAIN children[x] : children[x][k] = children[x][l] => k = l
    BY DEF TreeInv
  <2>2. CASE x = p
    <3> DEFINE l == children[x]
    <3>1. l \in Seq(Tasks) /\ children'[x] = Append(l, t)
      BY <1>3, <2>2 DEF TreeTypes
    <3>2. \A k \in DOMAIN l : l[k] # t
      BY <1>1 DEF TreeInv, InTree
    <3> HIDE DEF l
    <3>3. /\ i \in DOMAIN l \cup {Len(l) + 1} /\ j \in DOMAIN l \cup {Len(l) + 1}
          /\ Append(l, t)[Len(l) + 1] = t
          /\ \A k \in DOMAIN l : Append(l, t)[k] = l[k]
      BY <1>1, <3>1
    <3> QED
      BY <1>12, <2>1, <3>1, <3>2, <3>3 DEF l
  <2>3. CASE x # p
    <3>1. children'[x] = children[x]
      BY <1>3, <2>3 DEF TreeTypes
    <3> QED
      BY <1>12, <2>1, <3>1
  <2> QED
    BY <2>2, <2>3
<1>13. TreeInv'
  BY <1>8, <1>9, <1>10, <1>11, <1>12 DEF TreeInv
<1>14. status'[current] = "live"
  BY <1>1, <1>3 DEF TreeTypes
<1> QED
  BY <1>3, <1>4, <1>5, <1>7, <1>13, <1>14

LEMMA ExitTree ==
    ASSUME TreeTypes, TreeInv, NEW t \in Tasks, Exit(t), status[current] = "live",
           t # current \/ current = 1
    PROVE  /\ TreeTypes' /\ TreeInv' /\ OldChains /\ status'[current] = "live"
           /\ \E ts : Moved(ts)
           /\ UNCHANGED <<pc, locals>>
<1> DEFINE Orphans == {c \in Tasks : parent[c] = t}
<1>1. t # 1 /\ status[t] = "live" /\ t # current
  BY DEF Exit, May, Live
<1>2. /\ status' = [status EXCEPT ![t] = "zombie"]
      /\ parent' = [c \in Tasks |-> IF InTree(c) /\ parent[c] = t THEN 1 ELSE parent[c]]
      /\ children' = [children EXCEPT ![1] = @ \o children[t], ![t] = <<>>]
      /\ weight' = weight
      /\ steady' = steady \ ({1, t} \cup Orphans) /\ UNCHANGED <<pc, locals>>
  BY DEF Exit, Changes, InTree
<1> HIDE DEF Orphans
<1>3. /\ children'[1] = children[1] \o children[t] /\ children'[t] = <<>>
      /\ \A x \in Tasks \ {1, t} : children'[x] = children[x]
  BY <1>1, <1>2, Constants DEF TreeTypes
<1>4. children[1] \in Seq(Tasks) /\ children[t] \in Seq(Tasks)
  BY Constants DEF TreeTypes
<1>5. TreeTypes'
  <2>1. parent' \in [Tasks -> Tasks \cup {0}]
    BY <1>2, Constants DEF TreeTypes
  <2>2. children[1] \o children[t] \in Seq(Tasks) /\ <<>> \in Seq(Tasks)
    BY <1>4
  <2>3. children' \in [Tasks -> Seq(Tasks)]
    BY <1>2, <2>2 DEF TreeTypes
  <2> QED
    BY <1>2, <2>1, <2>3 DEF TreeTypes
<1>6. Moved({1, t} \cup Orphans)
  <2>1. \A x \in Tasks \ ({1, t} \cup Orphans) :
           /\ status'[x] = status[x] /\ parent'[x] = parent[x]
           /\ children'[x] = children[x] /\ weight'[x] = weight[x]
    BY <1>2, <1>3 DEF TreeTypes, Orphans
  <2> QED
    BY <1>2, <2>1, Constants DEF Moved
<1>7. (\A x \in Tasks : parent'[x] = parent[x] \/ parent'[x] = 1) /\ parent'[1] = 0
  BY <1>1, <1>2, Constants DEF TreeInv
<1>8. OldChains
  BY <1>7, ExitChain DEF OldChains
<1>9. Acyclic(parent')
  <2> SUFFICES ASSUME NEW n \in Nat \ {0}, NEW s \in [0..n -> Tasks], Chain(parent', s, n),
                      s[n] = s[0]
               PROVE  FALSE
    BY DEF Acyclic
  <2>1. s[0] # 1
    BY <1>7, ExitChain
  <2>2. Chain(parent, s, n)
    BY <1>7, <2>1, ExitChain
  <2> QED
    BY <2>2 DEF TreeInv, Acyclic
<1>10. \A x \in Tasks : status'[x] = IF x = t THEN "zombie" ELSE status[x]
  BY <1>2 DEF TreeTypes
<1>11. /\ status'[1] = "live" /\ parent'[1] = 0
       /\ \A x \in Tasks : status'[x] = "none" => parent'[x] = 0
       /\ \A x \in Tasks : parent'[x] # 0 => status'[parent'[x]] # "none"
  BY <1>1, <1>2, <1>7, <1>10, Constants DEF TreeInv, TreeTypes, InTree
<1>12. \A x \in Tasks : InTree(x)' <=> InTree(x)
  BY <1>1, <1>10 DEF InTree
<1>13. \A x \in Tasks \ {1} : InTree(x)' => parent'[x] \in Live'
  <2> SUFFICES ASSUME NEW x \in Tasks \ {1}, InTree(x)
               PROVE  parent'[x] \in Live'
    BY <1>12
  <2>1. parent[x] \in Live
    BY DEF TreeInv
  <2>2. parent'[x] = IF parent[x] = t THEN 1 ELSE parent[x]
    BY <1>2
  <2> QED
    BY <1>10, <1>11, <2>1, <2>2, Constants DEF Live
<1>14. \A x \in Tasks : status'[x] # "live" => children'[x] = <<>>
  BY <1>3, <1>10, <1>11 DEF TreeInv
<1>15. ASSUME NEW x \in Tasks, NEW c \in Tasks
       PROVE  (\E i \in DOMAIN children'[x] : children'[x][i] = c)
                 <=> (InTree(c)' /\ parent'[c] = x)
  <2>1. \A y \in Tasks : (\E i \in DOMAIN children[y] : children[y][i] = c)
                            <=> (InTree(c) /\ parent[c] = y)
    BY DEF TreeInv
  <2>2. parent'[c] = IF InTree(c) /\ parent[c] = t THEN 1 ELSE parent[c]
    BY <1>2
  <2>3. CASE x = 1
    <3> DEFINE l == children[1]
               m == children[t]
               k == l \o m
    <3>1. (\E i \in DOMAIN k : k[i] = c)
            <=> (\E i \in DOMAIN l : l[i] = c) \/ (\E i \in DOMAIN m : m[i] = c)
      <4>1. l \in Seq(Tasks) /\ m \in Seq(Tasks)
        BY <1>4
      <4> HIDE DEF l, m
      <4>2. /\ Len(l) \in Nat /\ Len(m) \in Nat /\ DOMAIN l = 1..Len(l) /\ DOMAIN m = 1..Len(m)
            /\ DOMAIN k = 1..(Len(l) + Len(m))
            /\ \A i \in 1..(Len(l) + Len(m)) : k[i] = IF i <= Len(l) THEN l[i] ELSE m[i - Len(l)]
        BY <4>1, ConcatProperties
      <4> HIDE DEF k
      <4>3. ASSUME NEW i \in DOMAIN m, m[i] = c PROVE \E j \in DOMAIN k : k[j] = c
        <5>1. i + Len(l) \in DOMAIN k /\ ~(i + Len(l) <= Len(l)) /\ (i + Len(l)) - Len(l) = i
          BY <4>2
        <5> QED
          BY <4>2, <4>3, <5>1
      <4>4. ASSUME NEW i \in DOMAIN l, l[i] = c PROVE \E j \in DOMAIN k : k[j] = c
        <5>1. i \in DOMAIN k /\ i <= Len(l)
          BY <4>2
        <5> QED
          BY <4>2, <4>4, <5>1
      <4>5. ASSUME NEW j \in DOMAIN k, k[j] = c
            PROVE  (\E i \in DOMAIN l : l[i] = c) \/ (\E i \in DOMAIN m : m[i] = c)
        <5>1. CASE j <= Len(l)
          BY <4>2, <4>5, <5>1
        <5>2. CASE ~(j <= Len(l))
          <6>1. j - Len(l) \in DOMAIN m
            BY <4>2, <5>2
          <6> QED
            BY <4>2, <4>5, <5>2, <6>1
        <5> QED
          BY <5>1, <5>2
      <4> QED
        BY <4>3, <4>4, <4>5
    <3>2. children'[x] = k
      BY <1>3, <2>3
    <3>3. (\E i \in DOMAIN k : k[i] = c) <=> InTree(c) /\ (parent[c] = 1 \/ parent[c] = t)
      BY <2>1, <3>1, Constants
    <3> HIDE DEF k, l, m
    <3> QED
      BY <1>1, <1>12, <2>2, <2>3, <3>2, <3>3
  <2>4. CASE x = t
    <3>1. children'[x] = <<>>
      BY <1>3, <2>4
    <3> QED
      BY <1>1, <1>12, <2>2, <2>4, <3>1
  <2>5. CASE x # 1 /\ x # t
    <3>1. children'[x] = children[x]
      BY <1>3, <2>5
    <3> QED
      BY <1>12, <2>1, <2>2, <2>5, <3>1
  <2> QED
    BY <2>3, <2>4, <2>5
<1>16. ASSUME NEW x \in Tasks, NEW i \in DOMAIN children'[x], NEW j \in DOMAIN children'[x],
              children'[x][i] = children'[x][j]
       PROVE  i = j
  <2>1. \A y \in Tasks : \A k, l \in DOMAIN children[y] : children[y][k] = children[y][l] => k = l
    BY DEF TreeInv
  <2>2. CASE x = 1
    <3> DEFINE l == children[1]
               m == children[t]
    <3>1. l \in Seq(Tasks) /\ m \in Seq(Tasks) /\ children'[x] = l \o m
      BY <1>3, <1>4, <2>2
    <3>2. /\ \A a, b \in DOMAIN l : l[a] = l[b] => a = b
          /\ \A a, b \in DOMAIN m : m[a] = m[b] => a = b
      BY <2>1, Constants
    <3>3. \A a \in DOMAIN l, b \in DOMAIN m : l[a] # m[b]
      <4> SUFFICES ASSUME NEW a \in DOMAIN l, NEW b \in DOMAIN m, l[a] = m[b]
                   PROVE  FALSE
        OBVIOUS
      <4>1. l[a] \in Tasks
        BY <3>1
      <4>2. parent[l[a]] = 1 /\ parent[l[a]] = t
        BY <4>1, Constants DEF TreeInv
      <4> QED
        BY <1>1, <4>2
    <3> HIDE DEF l, m
    <3>4. /\ Len(l) \in Nat /\ Len(m) \in Nat /\ DOMAIN l = 1..Len(l) /\ DOMAIN m = 1..Len(m)
          /\ DOMAIN (l \o m) = 1..(Len(l) + Len(m))
          /\ \A a \in 1..(Len(l) + Len(m)) :
               (l \o m)[a] = IF a <= Len(l) THEN l[a] ELSE m[a - Len(l)]
      BY <3>1, ConcatProperties
    <3>5. i \in 1..(Len(l) + Len(m)) /\ j \in 1..(Len(l) + Len(m)) /\ (l \o m)[i] = (l \o m)[j]
      BY <1>16, <3>1, <3>4
    <3>6. CASE i <= Len(l) /\ j <= Len(l)
      BY <3>2, <3>4, <3>5, <3>6
    <3>7. CASE ~(i <= Len(l)) /\ ~(j <= Len(l))
      <4>1. i - Len(l) \in DOMAIN m /\ j - Len(l) \in DOMAIN m
        BY <3>4, <3>5, <3>7
      <4>2. m[i - Len(l)] = m[j - Len(l)]
        BY <3>4, <3>5, <3>7
      <4>3. i - Len(l) = j - Len(l)
        BY <3>2, <4>1, <4>2
      <4> QED
        BY <3>4, <3>5, <4>3
    <3>8. CASE i <= Len(l) /\ ~(j <= Len(l))
      <4>1. i \in DOMAIN l /\ j - Len(l) \in DOMAIN m
        BY <3>4, <3>5, <3>8
      <4> QED
        BY <3>3, <3>4, <3>5, <3>8, <4>1
    <3>9. CASE ~(i <= Len(l)) /\ j <= Len(l)
      <4>1. j \in DOMAIN l /\ i - Len(l) \in DOMAIN m
        BY <3>4, <3>5, <3>9
      <4> QED
        BY <3>3, <3>4, <3>5, <3>9, <4>1
    <3> QED
      BY <3>6, <3>7, <3>8, <3>9
  <2>3. CASE x = t
    BY <1>3, <2>3
  <2>4. CASE x # 1 /\ x # t
    <3>1. children'[x] = children[x]
      BY <1>3, <2>4
    <3> QED
      BY <1>16, <2>1, <3>1
  <2> QED
    BY <2>2, <2>3, <2>4
<1>17. TreeInv'
  BY <1>9, <1>11, <1>13, <1>14, <1>15, <1>16 DEF TreeInv
<1>18. status'[current] = "live"
  BY <1>1, <1>2 DEF TreeTypes
<1> QED
  BY <1>2, <1>5, <1>6, <1>8, <1>17, <1>18

LEMMA SubSeqPart ==
    ASSUME NEW S, NEW l \in Seq(S), NEW a \in Int, NEW b \in Int, \A i \in a..b : l[i] \in S
    PROVE  \A i \in 1..(b - a + 1) : SubSeq(l, a, b)[i] = l[a + i - 1]
OBVIOUS

(* A list without one of its elements. *)
LEMMA WithoutOne ==
    ASSUME NEW S, NEW l \in Seq(S), NEW t, \E i \in DOMAIN l : l[i] = t,
           \A i, j \in DOMAIN l : l[i] = l[j] => i = j
    PROVE  /\ Without(l, t) \in Seq(S)
           /\ \A c : (\E i \in DOMAIN Without(l, t) : Without(l, t)[i] = c)
                       <=> c # t /\ \E i \in DOMAIN l : l[i] = c
           /\ \A i, j \in DOMAIN Without(l, t) : Without(l, t)[i] = Without(l, t)[j] => i = j
<1> DEFINE n == CHOOSE k \in DOMAIN l : l[k] = t
           w == Without(l, t)
<1>1. n \in DOMAIN l /\ l[n] = t
  OBVIOUS
<1>2. w = SubSeq(l, 1, n - 1) \o SubSeq(l, n + 1, Len(l))
  BY DEF Without, RemoveAt
<1> HIDE DEF n
<1>3. Len(l) \in Nat /\ DOMAIN l = 1..Len(l) /\ n \in 1..Len(l) /\ \A i \in 1..Len(l) : l[i] \in S
  BY <1>1
<1> DEFINE u == SubSeq(l, 1, n - 1)
           v == SubSeq(l, n + 1, Len(l))
<1>4. u \in Seq(S) /\ Len(u) = n - 1 /\ \A i \in 1..(n - 1) : u[i] = l[i]
  <2>1. \A i \in 1..(n - 1) : l[i] \in S
    BY <1>3
  <2>2. n - 1 \in Int /\ 1 \in Int /\ (n - 1) - 1 + 1 = n - 1
    BY <1>3
  <2>3. Len(u) = n - 1 /\ u \in Seq(S)
    BY <1>3, <2>1, <2>2, SubSeqProperties
  <2>4. \A i \in 1..(n - 1) : u[i] = l[1 + i - 1] /\ 1 + i - 1 = i
    BY <1>3, <2>1, <2>2, SubSeqProperties
  <2> QED
    BY <2>3, <2>4
<1>5. v \in Seq(S) /\ Len(v) = Len(l) - n /\ \A i \in 1..(Len(l) - n) : v[i] = l[n + i]
  <2> DEFINE a == n + 1
             b == Len(l)
  <2>1. a \in Int /\ b \in Int /\ \A i \in a..b : l[i] \in S
    BY <1>3
  <2>2. b - a + 1 = b - n /\ (~(a <= b) => b - n = 0) /\ b - n \in Nat
    <3>1. \A c \in Nat : \A m \in 1..c :
             c - (m + 1) + 1 = c - m /\ (~(m + 1 <= c) => c - m = 0) /\ c - m \in Nat
      OBVIOUS
    <3> QED
      BY <1>3, <3>1
  <2>3. \A i \in Int : a + i - 1 = n + i
    BY <1>3
  <2> HIDE DEF a, b
  <2> DEFINE x == SubSeq(l, a, b)
  <2>4. /\ x \in Seq(S) /\ Len(x) = IF a <= b THEN b - a + 1 ELSE 0
        /\ \A i \in 1..(b - a + 1) : x[i] = l[a + i - 1]
    <3>1. x \in Seq(S) /\ Len(x) = IF a <= b THEN b - a + 1 ELSE 0
      BY <2>1, SubSeqProperties
    <3>2. \A i \in 1..(b - a + 1) : x[i] = l[a + i - 1]
      BY <2>1, SubSeqPart
    <3> QED
      BY <3>1, <3>2
  <2> HIDE DEF x
  <2>5. Len(x) = b - n
    BY <2>1, <2>2, <2>4
  <2>6. \A i \in 1..(b - n) : x[i] = l[n + i]
    <3>1. \A i \in 1..(b - n) : i \in Int
      OBVIOUS
    <3> QED
      BY <2>2, <2>3, <2>4, <3>1, Zenon
  <2> QED
    BY <2>4, <2>5, <2>6 DEF a, b, x
<1> HIDE DEF u, v, w
<1>6. w = u \o v
  BY <1>2 DEF u, v
<1>7. /\ w \in Seq(S) /\ DOMAIN w = 1..(Len(l) - 1)
      /\ \A i \in 1..(Len(l) - 1) : w[i] = IF i < n THEN l[i] ELSE l[i + 1]
  <2>1. /\ w \in Seq(S) /\ Len(w) = Len(u) + Len(v)
        /\ \A i \in 1..(Len(u) + Len(v)) : w[i] = IF i <= Len(u) THEN u[i] ELSE v[i - Len(u)]
    <3>1. u \in Seq(S) /\ v \in Seq(S)
      BY <1>4, <1>5
    <3> QED
      BY <1>6, <3>1, ConcatProperties
  <2>2. Len(u) + Len(v) = Len(l) - 1
    BY <1>3, <1>4, <1>5
  <2>3. ASSUME NEW i \in 1..(Len(l) - 1) PROVE w[i] = IF i < n THEN l[i] ELSE l[i + 1]
    <3>1. CASE i < n
      <4>1. i \in 1..(n - 1) /\ i <= Len(u) /\ i \in 1..(Len(u) + Len(v))
        BY <1>3, <1>4, <2>2, <3>1
      <4> QED
        BY <1>4, <2>1, <3>1, <4>1
    <3>2. CASE ~(i < n)
      <4>1. i - Len(u) \in 1..(Len(l) - n) /\ n + (i - Len(u)) = i + 1 /\ ~(i <= Len(u))
        BY <1>3, <1>4, <3>2
      <4> QED
        BY <1>5, <2>1, <2>2, <3>2, <4>1
    <3> QED
      BY <3>1, <3>2
  <2> QED
    BY <2>1, <2>2, <2>3
<1>8. ASSUME NEW i \in DOMAIN w
      PROVE  \E k \in DOMAIN l : k # n /\ w[i] = l[k] /\ k = IF i < n THEN i ELSE i + 1
  BY <1>3, <1>7
<1>9. ASSUME NEW k \in DOMAIN l, k # n PROVE \E i \in DOMAIN w : w[i] = l[k]
  <2>1. CASE k < n
    <3>1. k \in DOMAIN w
      BY <1>3, <1>7, <2>1
    <3> QED
      BY <1>7, <2>1, <3>1
  <2>2. CASE n < k
    <3>1. k - 1 \in DOMAIN w /\ ~(k - 1 < n) /\ (k - 1) + 1 = k
      BY <1>3, <1>7, <2>2
    <3> QED
      BY <1>7, <3>1
  <2> QED
    BY <1>3, <1>9, <2>1, <2>2
<1>10. ASSUME NEW i \in DOMAIN w, NEW j \in DOMAIN w, w[i] = w[j] PROVE i = j
  <2>1. PICK k \in DOMAIN l : w[i] = l[k] /\ k = IF i < n THEN i ELSE i + 1
    BY <1>8
  <2>2. PICK m \in DOMAIN l : w[j] = l[m] /\ m = IF j < n THEN j ELSE j + 1
    BY <1>8
  <2>3. k = m
    BY <1>10, <2>1, <2>2
  <2> QED
    BY <1>3, <1>7, <2>1, <2>2, <2>3
<1>11. ASSUME NEW c
       PROVE  (\E i \in DOMAIN w : w[i] = c) <=> c # t /\ \E i \in DOMAIN l : l[i] = c
  BY <1>1, <1>8, <1>9
<1> QED
  BY <1>7, <1>10, <1>11 DEF w

LEMMA SameChains ==
    ASSUME parent' = parent
    PROVE  OldChains /\ (Acyclic(parent) => Acyclic(parent'))
BY DEF OldChains, Acyclic

LEMMA ReapTree ==
    ASSUME TreeTypes, TreeInv, NEW t \in Tasks, Reap(t), status[current] = "live"
    PROVE  /\ TreeTypes' /\ TreeInv' /\ OldChains /\ status'[current] = "live"
           /\ \E ts : Moved(ts)
           /\ UNCHANGED <<pc, locals>>
<1> DEFINE p == parent[t]
           l == children[p]
           w == Without(l, t)
<1>1. /\ status[t] = "zombie" /\ t # 1 /\ p \in Live /\ p \in Tasks /\ p # t /\ t # current
      /\ children[t] = <<>>
  BY DEF Reap, TreeInv, InTree, Live
<1>2. /\ status' = [status EXCEPT ![t] = "freed"] /\ children' = [children EXCEPT ![p] = w]
      /\ parent' = parent /\ weight' = weight /\ steady' = steady \ {t, p}
      /\ UNCHANGED <<pc, locals>>
  BY DEF Reap, Changes
<1>3. l \in Seq(Tasks) /\ (\E i \in DOMAIN l : l[i] = t)
      /\ \A i, j \in DOMAIN l : l[i] = l[j] => i = j
  BY <1>1 DEF TreeTypes, TreeInv, InTree
<1> HIDE DEF l
<1>4. /\ w \in Seq(Tasks)
      /\ \A c : (\E i \in DOMAIN w : w[i] = c) <=> c # t /\ \E i \in DOMAIN l : l[i] = c
      /\ \A i, j \in DOMAIN w : w[i] = w[j] => i = j
  BY <1>3, WithoutOne
<1> HIDE DEF w, p
<1>5. TreeTypes'
  BY <1>1, <1>2, <1>4 DEF TreeTypes
<1>6. /\ \A x \in Tasks : status'[x] = IF x = t THEN "freed" ELSE status[x]
      /\ children'[p] = w /\ \A x \in Tasks \ {p} : children'[x] = children[x]
  BY <1>1, <1>2 DEF TreeTypes
<1>7. Moved({t, p})
  BY <1>1, <1>2, <1>6 DEF Moved
<1>8. /\ status'[1] = "live" /\ parent'[1] = 0
      /\ \A x \in Tasks : status'[x] = "none" => parent'[x] = 0
      /\ \A x \in Tasks : parent'[x] # 0 => status'[parent'[x]] # "none"
  BY <1>1, <1>2, <1>6, Constants DEF TreeInv, TreeTypes
<1>9. /\ \A x \in Tasks : InTree(x)' <=> InTree(x) /\ x # t
      /\ \A x \in Tasks : x \in Live' <=> x \in Live
  BY <1>1, <1>6 DEF InTree, Live
<1>10. \A x \in Tasks \ {1} : InTree(x)' => parent'[x] \in Live'
  <2> SUFFICES ASSUME NEW x \in Tasks \ {1}, InTree(x)'
               PROVE  parent'[x] \in Live'
    OBVIOUS
  <2>1. parent[x] \in Live /\ parent[x] \in Tasks
    BY <1>9 DEF TreeInv, Live
  <2> QED
    BY <1>2, <1>9, <2>1
<1>11. \A x \in Tasks : status'[x] # "live" => children'[x] = <<>>
  BY <1>1, <1>6 DEF TreeInv, Live
<1>12. ASSUME NEW x \in Tasks, NEW c \in Tasks
       PROVE  (\E i \in DOMAIN children'[x] : children'[x][i] = c)
                 <=> (InTree(c)' /\ parent'[c] = x)
  <2>1. (\E i \in DOMAIN children[x] : children[x][i] = c) <=> (InTree(c) /\ parent[c] = x)
    BY DEF TreeInv
  <2>2. CASE x = p
    <3>1. children'[x] = w /\ l = children[x] /\ parent'[c] = parent[c]
      BY <1>2, <1>6, <2>2 DEF l
    <3>2. (\E i \in DOMAIN w : w[i] = c) <=> c # t /\ InTree(c) /\ parent[c] = x
      BY <1>4, <2>1, <3>1
    <3>3. InTree(c)' <=> InTree(c) /\ c # t
      BY <1>9
    <3> QED
      BY <3>1, <3>2, <3>3
  <2>3. CASE x # p
    <3>1. children'[x] = children[x] /\ (c = t => parent[c] # x)
      BY <1>6, <2>3 DEF p
    <3> QED
      BY <1>2, <1>9, <2>1, <3>1
  <2> QED
    BY <2>2, <2>3
<1>13. ASSUME NEW x \in Tasks, NEW i \in DOMAIN children'[x], NEW j \in DOMAIN children'[x],
              children'[x][i] = children'[x][j]
       PROVE  i = j
  <2>1. CASE x = p
    BY <1>4, <1>6, <1>13, <2>1
  <2>2. CASE x # p
    <3>1. children'[x] = children[x]
      BY <1>6, <2>2
    <3> QED
      BY <1>13, <3>1 DEF TreeInv
  <2> QED
    BY <2>1, <2>2
<1>14. TreeInv'
  <2>1. Acyclic(parent')
    BY <1>2, SameChains DEF TreeInv
  <2> QED
    BY <1>8, <1>10, <1>11, <1>12, <1>13, <2>1 DEF TreeInv
<1>15. status'[current] = "live"
  BY <1>1, <1>2 DEF TreeTypes
<1>16. OldChains
  BY <1>2, SameChains
<1> QED
  BY <1>2, <1>5, <1>7, <1>14, <1>15, <1>16

LEMMA SetWeightTree ==
    ASSUME TreeTypes, TreeInv, NEW t \in Tasks, NEW w \in Weights \cup {-1},
           set_weight(t, w), status[current] = "live"
    PROVE  /\ TreeTypes' /\ TreeInv' /\ OldChains /\ status'[current] = "live"
           /\ \E ts : Moved(ts)
           /\ UNCHANGED <<pc, locals>>
<1>1. /\ weight' = [weight EXCEPT ![t] = w] /\ w \in Weights
      /\ status' = status /\ parent' = parent /\ children' = children
      /\ steady' = steady \ {t} /\ UNCHANGED <<pc, locals>>
  BY Constants DEF set_weight, Changes, NotNegative
<1>2. TreeTypes'
  BY <1>1 DEF TreeTypes
<1>3. Moved({t})
  BY <1>1 DEF Moved, TreeTypes
<1>4. \A x \in Tasks : (InTree(x)' <=> InTree(x)) /\ Live' = Live
  BY <1>1 DEF InTree, Live
<1>5. OldChains /\ Acyclic(parent')
  BY <1>1, SameChains DEF TreeInv
<1>6. TreeInv'
  BY <1>1, <1>4, <1>5 DEF TreeInv
<1> QED
  BY <1>1, <1>2, <1>3, <1>5, <1>6

-----------------------------------------------------------------------------
(* What a call has done so far stays true when another task changes.       *)

LocalTypes ==
    /\ max \in Weights /\ current \in Tasks /\ heaviest \in Tasks
    /\ pc \in {"idle", "compare", "climb", "enter", "add", "first", "next", "returned", "lost"}
    /\ \A i \in DOMAIN path : path[i] \in Tasks
    /\ at \in Tasks \cup {0} /\ sum \in 0..(Word - 1) /\ steady \subseteq Tasks

LEMMA TypesParts ==
    (TypeOK <=> TreeTypes /\ LocalTypes) /\ (TypeOK' <=> TreeTypes' /\ LocalTypes')
BY DEF TypeOK, TreeTypes, LocalTypes

LEMMA MovedPlaces ==
    ASSUME Places, NEW ts, Moved(ts), TreeTypes', status'[current] = "live",
           UNCHANGED <<pc, locals>>
    PROVE  Places'
<1>1. /\ pc' = pc /\ current' = current /\ at' = at /\ max' = max /\ heaviest' = heaviest
      /\ path' = path /\ sum' = sum /\ counted' = counted
  BY DEF locals
<1>2. LocalTypes'
  BY <1>1, TypesParts DEF Places, Moved, LocalTypes
<1>3. TypeOK'
  BY <1>2, TypesParts
<1> QED
  BY <1>1, <1>3 DEF Places, Climbing, Walking

LEMMA MovedClimb ==
    ASSUME ClimbInv, NEW ts, Moved(ts), UNCHANGED <<pc, locals>>
    PROVE  ClimbInv'
<1>1. /\ pc' = pc /\ current' = current /\ at' = at /\ max' = max /\ heaviest' = heaviest
      /\ path' = path
  BY DEF locals
<1>2. SUFFICES ASSUME Climbing \/ (pc = "returned" /\ path = <<>>),
                      NEW n \in Nat, NEW s \in [0..n -> Tasks], SteadyUp(s, n)'
               PROVE  ( \/ \A i \in 0..n : Seen(s, i)
                        \/ pc = "compare" /\ \E m \in 1..n : s[m] = at /\ SeenTo(s, m - 1)
                        \/ pc = "climb" /\ \E m \in 1..n : s[m] = at /\ SeenTo(s, m))'
  BY <1>1 DEF ClimbInv, Climbing
<1>3. /\ Chain(parent', s, n) /\ s[0] = current
      /\ \A i \in 0..n : s[i] \in steady /\ s[i] \in Tasks \ ts
  BY <1>1, <1>2 DEF SteadyUp, Moved
<1>4. SteadyUp(s, n)
  BY <1>3 DEF SteadyUp, Chain, Moved
<1>5. ASSUME NEW i \in 0..n, Seen(s, i) PROVE Seen(s, i)'
  BY <1>1, <1>3, <1>5 DEF Seen, Moved
<1>6. ASSUME NEW m \in 0..n, SeenTo(s, m) PROVE SeenTo(s, m)'
  BY <1>1, <1>5, <1>6 DEF SeenTo
<1>7. \A m \in 1..n : m - 1 \in 0..n /\ m \in 0..n
  OBVIOUS
<1>8. \/ \A i \in 0..n : Seen(s, i)
      \/ pc = "compare" /\ \E m \in 1..n : s[m] = at /\ SeenTo(s, m - 1)
      \/ pc = "climb" /\ \E m \in 1..n : s[m] = at /\ SeenTo(s, m)
  BY <1>2, <1>4 DEF ClimbInv
<1> QED
  BY <1>1, <1>5, <1>6, <1>7, <1>8

LEMMA MovedPath ==
    ASSUME Places, PathInv, NEW ts, Moved(ts), OldChains, UNCHANGED <<pc, locals>>
    PROVE  PathInv'
<1>1. /\ pc' = pc /\ current' = current /\ path' = path /\ steady' = steady \ ts
      /\ path \in Seq(Tasks)
  BY DEF locals, Moved, Places
<1>2. \A i \in 1..Len(path) : path[i] \in Tasks
  BY <1>1
<1>3. ASSUME NEW i \in 2..Len(path), NEW n \in Nat, NEW s \in [0..n -> Tasks],
             Chain(parent', s, n), s[0] = current
      PROVE  s[n] # path[i]
  BY <1>3 DEF PathInv, Places, OldChains
<1>4. ASSUME NEW i \in 1..(Len(path) - 1)
      PROVE  /\ path[i] \in steady' =>
                  \E a \in DOMAIN children'[path[i]] : children'[path[i]][a] = path[i + 1]
             /\ path[i + 1] \in steady' => parent'[path[i + 1]] = path[i]
  <2>1. path[i] \in Tasks /\ path[i + 1] \in Tasks
    BY <1>1, <1>2
  <2> QED
    BY <1>1, <2>1 DEF PathInv, Moved
<1>5. Top' = Top
  BY <1>1 DEF Top
<1>6. /\ pc = "add" /\ Top \in steady' => children'[Top] = <<>>
      /\ pc = "first" /\ Top \in steady' => children'[Top] # <<>>
  <2> SUFFICES ASSUME Top \in steady \ ts, pc \in {"add", "first"}
               PROVE  Top \in Tasks
    BY <1>1 DEF PathInv, Moved
  <2> QED
    BY DEF Places, TypeOK
<1> QED
  BY <1>1, <1>3, <1>4, <1>5, <1>6 DEF PathInv

LEMMA MovedLeaf ==
    ASSUME LeafInv, NEW ts, Moved(ts), UNCHANGED <<pc, locals>>
    PROVE  LeafInv'
<1>1. /\ pc' = pc /\ current' = current /\ path' = path /\ counted' = counted
      /\ steady' = steady \ ts
  BY DEF locals, Moved
<1>2. SUFFICES ASSUME NEW k \in Nat \ {0}, NEW d \in [1..k -> Tasks],
                      SteadyDown(d, k)', children'[d[k]] = <<>>
               PROVE  \E j \in 1..k : /\ j <= Len(path) /\ \A i \in 1..j : path[i] = d[i]
                                      /\ OnWay(d, k, j)' \/ OffWay(d, k, j)'
  BY <1>1 DEF LeafInv
<1>3. /\ d[1] = current
      /\ \A i \in 1..(k - 1) : parent'[d[i + 1]] = d[i]
      /\ \A i \in 1..k : d[i] \in steady /\ InTree(d[i])' /\ d[i] \in Tasks \ ts
  BY <1>1, <1>2 DEF SteadyDown
<1>4. SteadyDown(d, k) /\ children[d[k]] = <<>>
  <2>1. \A i \in 1..(k - 1) : i + 1 \in 1..k
    OBVIOUS
  <2>2. k \in 1..k
    OBVIOUS
  <2> QED
    BY <1>2, <1>3, <2>1, <2>2 DEF SteadyDown, Moved, InTree
<1>5. PICK j \in 1..k : /\ j <= Len(path) /\ \A i \in 1..j : path[i] = d[i]
                        /\ OnWay(d, k, j) \/ OffWay(d, k, j)
  BY <1>4 DEF LeafInv
<1>6. (Uncounted(d[k])' <=> Uncounted(d[k])) /\ (Once(d[k])' <=> Once(d[k]))
  BY <1>1 DEF Uncounted, Once
<1>7. children'[d[j]] = children[d[j]]
  BY <1>3 DEF Moved
<1>8. OnWay(d, k, j) => OnWay(d, k, j)'
  BY <1>1, <1>6 DEF OnWay
<1>9. OffWay(d, k, j) => OffWay(d, k, j)'
  BY <1>1, <1>6, <1>7 DEF OffWay
<1> QED
  BY <1>5, <1>8, <1>9

LEMMA MovedStep ==
    ASSUME IInv, TreeTypes', TreeInv', OldChains, status'[current] = "live",
           \E ts : Moved(ts), UNCHANGED <<pc, locals>>
    PROVE  IInv'
<1>1. PICK ts : Moved(ts)
  OBVIOUS
<1>2. Places'
  BY <1>1, MovedPlaces DEF IInv
<1>3. ClimbInv'
  BY <1>1, MovedClimb DEF IInv
<1>4. WalkInv'
  <2> SUFFICES ASSUME WalkedOver'
               PROVE  PathInv' /\ LeafInv' /\ SumInv'
    BY DEF WalkInv
  <2>1. WalkedOver
    BY DEF WalkedOver, Walking, locals
  <2>2. PathInv' /\ LeafInv'
    BY <1>1, <2>1, MovedPath, MovedLeaf DEF IInv, WalkInv
  <2>3. SumInv'
    BY <1>1 DEF SumInv, Moved
  <2> QED
    BY <2>2, <2>3
<1> QED
  BY <1>2, <1>3, <1>4 DEF IInv

-----------------------------------------------------------------------------
(* The steps of get_heaviest_ancestor. *)

LEMMA SameTree ==
    ASSUME UNCHANGED tree
    PROVE  /\ status' = status /\ parent' = parent /\ children' = children /\ weight' = weight
           /\ (TreeTypes => TreeTypes') /\ (TreeInv => TreeInv')
<1>1. status' = status /\ parent' = parent /\ children' = children /\ weight' = weight
  BY DEF tree
<1>2. \A t \in Tasks : (InTree(t)' <=> InTree(t)) /\ Live' = Live
  BY <1>1 DEF InTree, Live
<1>3. Acyclic(parent) => Acyclic(parent')
  BY <1>1, SameChains
<1>4. TreeInv => TreeInv'
  BY <1>1, <1>2, <1>3 DEF TreeInv
<1> QED
  BY <1>1, <1>4 DEF TreeTypes

LEMMA StartClimb ==
    ASSUME IInv, NEW t \in Tasks, GetHeaviestAncestor(t)
    PROVE  IInv'
<1>1. /\ UNCHANGED tree /\ pc' = "compare" /\ current' = t /\ max' = weight[t] /\ heaviest' = t
      /\ at' = parent[t] /\ path' = <<>> /\ sum' = 0 /\ counted' = <<>> /\ steady' = Tasks
      /\ t \in Live
  BY DEF GetHeaviestAncestor
<1>2. status' = status /\ parent' = parent /\ weight' = weight /\ TreeTypes' /\ TreeInv'
  BY <1>1, SameTree, TypesParts DEF IInv, Places
<1>3. TreeTypes /\ TypeOK'
  <2>1. TreeTypes
    BY TypesParts DEF IInv, Places
  <2>2. LocalTypes'
    <3>1. at' \in Tasks \cup {0} /\ max' \in Weights
      BY <1>1, <2>1 DEF TreeTypes
    <3>2. sum' \in 0..(Word - 1) /\ DOMAIN path' = {}
      BY <1>1, Constants
    <3> QED
      BY <1>1, <3>1, <3>2 DEF LocalTypes
  <2> QED
    BY <1>2, <2>1, <2>2, TypesParts
<1>4. Places'
  BY <1>1, <1>2, <1>3 DEF Places, Climbing, Walking, Live
<1>5. ClimbInv'
  <2> SUFFICES ASSUME NEW n \in Nat, NEW s \in [0..n -> Tasks], SteadyUp(s, n)'
               PROVE  \/ \A i \in 0..n : Seen(s, i)'
                      \/ \E m \in 1..n : s[m] = at' /\ SeenTo(s, m - 1)'
    BY <1>1 DEF ClimbInv
  <2>1. s[0] = t /\ \A i \in 0..(n - 1) : s[i + 1] = parent[s[i]]
    BY <1>1, <1>2 DEF SteadyUp, Chain
  <2>2. Seen(s, 0)'
    <3>1. weight[s[0]] <= max'
      BY <1>1, <1>3, <2>1, Constants DEF TreeTypes
    <3>2. \E j \in 0..0 : s[j] = heaviest'
      BY <1>1, <2>1
    <3> QED
      BY <1>2, <3>1, <3>2 DEF Seen
  <2>3. SeenTo(s, 0)'
    <3>1. (\A i \in 0..0 : i = 0) /\ 0 \in 0..0
      OBVIOUS
    <3> QED
      BY <1>1, <2>1, <2>2, <3>1 DEF SeenTo
  <2>4. CASE n = 0
    BY <2>3, <2>4 DEF SeenTo
  <2>5. CASE n # 0
    <3>1. 0 \in 0..(n - 1) /\ 0 + 1 = 1 /\ 1 \in 1..n /\ 1 - 1 = 0
      BY <2>5
    <3>2. s[1] = at'
      BY <1>1, <2>1, <3>1
    <3> QED
      BY <2>3, <3>1, <3>2
  <2> QED
    BY <2>4, <2>5
<1>6. WalkInv'
  BY <1>1 DEF WalkInv, WalkedOver, Walking
<1> QED
  BY <1>2, <1>4, <1>5, <1>6 DEF IInv

LEMMA CompareStep ==
    ASSUME IInv, Compare
    PROVE  IInv'
<1>1. /\ UNCHANGED tree /\ pc = "compare" /\ pc' = "climb" /\ at # 0 /\ current' = current
      /\ at' = at /\ path' = path /\ sum' = sum /\ counted' = counted /\ steady' = steady
  BY DEF Compare
<1>2. /\ status' = status /\ parent' = parent /\ weight' = weight /\ TreeTypes' /\ TreeInv'
      /\ TreeTypes /\ LocalTypes
  BY <1>1, SameTree, TypesParts DEF IInv, Places
<1>3. at \in Tasks /\ weight[at] \in Weights
  BY <1>1, <1>2 DEF LocalTypes, TreeTypes
<1>4. \/ max < weight[at] /\ max' = weight[at] /\ heaviest' = at
      \/ weight[at] <= max /\ max' = max /\ heaviest' = heaviest
  <2>1. max \in Nat /\ weight[at] \in Nat
    BY <1>2, <1>3, Constants DEF LocalTypes
  <2> QED
    BY <2>1 DEF Compare, Heavier
<1>5. Places'
  <2>1. LocalTypes'
    BY <1>1, <1>2, <1>3, <1>4 DEF LocalTypes
  <2>2. TypeOK'
    BY <1>2, <2>1, TypesParts
  <2>3. path = <<>>
    BY <1>1 DEF IInv, Places, Climbing
  <2> QED
    BY <1>1, <1>2, <2>2, <2>3 DEF IInv, Places, Climbing, Walking
<1>6. ClimbInv'
  <2> SUFFICES ASSUME NEW n \in Nat, NEW s \in [0..n -> Tasks], SteadyUp(s, n)'
               PROVE  \/ \A i \in 0..n : Seen(s, i)'
                      \/ \E m \in 1..n : s[m] = at' /\ SeenTo(s, m)'
    BY <1>1 DEF ClimbInv
  <2>1. SteadyUp(s, n)
    BY <1>1, <1>2 DEF SteadyUp
  <2>2. \A i \in 0..n : weight[s[i]] \in Nat /\ max \in Nat /\ max' \in Nat /\ weight[at] \in Nat
    BY <1>2, <1>3, <1>4, Constants DEF LocalTypes, TreeTypes
  <2>3. ASSUME NEW i \in 0..n, Seen(s, i) PROVE Seen(s, i)'
    <3>1. CASE max < weight[at] /\ max' = weight[at]
      <4>1. weight[s[i]] <= max' /\ weight[s[i]] # max'
        BY <2>2, <2>3, <3>1 DEF Seen
      <4> QED
        BY <1>2, <4>1 DEF Seen
    <3>2. CASE max' = max /\ heaviest' = heaviest
      BY <1>1, <1>2, <2>3, <3>2 DEF Seen
    <3> QED
      BY <1>4, <3>1, <3>2
  <2>4. CASE \A i \in 0..n : Seen(s, i)
    BY <2>3, <2>4
  <2>5. CASE \E m \in 1..n : s[m] = at /\ SeenTo(s, m - 1)
    <3>1. PICK m \in 1..n : s[m] = at /\ SeenTo(s, m - 1)
      BY <2>5
    <3>2. m \in 0..m /\ m \in 0..n /\ \A i \in 0..m : i \in 0..n /\ (i = m \/ i \in 0..(m - 1))
      OBVIOUS
    <3>3. \E j \in 0..m : s[j] = heaviest'
      <4>1. PICK j \in 0..(m - 1) : s[j] = heaviest
        BY <3>1 DEF SeenTo
      <4>2. j \in 0..m
        OBVIOUS
      <4> QED
        BY <1>4, <3>1, <3>2, <4>1, <4>2
    <3>4. Seen(s, m)'
      <4>1. weight[s[m]] <= max'
        BY <1>4, <2>2, <3>1, <3>2
      <4> QED
        BY <1>2, <3>3, <4>1 DEF Seen
    <3>5. \A i \in 0..m : Seen(s, i)'
      BY <2>3, <3>1, <3>2, <3>4 DEF SeenTo
    <3>6. SeenTo(s, m)'
      BY <3>3, <3>5 DEF SeenTo
    <3> QED
      BY <1>1, <3>1, <3>6
  <2>6. Climbing
    BY <1>1 DEF Climbing
  <2> QED
    BY <1>1, <2>1, <2>4, <2>5, <2>6 DEF IInv, ClimbInv
<1>7. WalkInv'
  BY <1>1 DEF WalkInv, WalkedOver, Walking
<1> QED
  BY <1>2, <1>5, <1>6, <1>7 DEF IInv

LEMMA ClimbStep ==
    ASSUME IInv, Climb
    PROVE  IInv'
<1>1. /\ UNCHANGED tree /\ pc = "climb" /\ pc' = "compare" /\ at' = parent[at]
      /\ current' = current /\ max' = max /\ heaviest' = heaviest
      /\ path' = path /\ sum' = sum /\ counted' = counted /\ steady' = steady
  BY DEF Climb
<1>2. /\ status' = status /\ parent' = parent /\ weight' = weight /\ TreeTypes' /\ TreeInv'
      /\ TreeTypes /\ LocalTypes
  BY <1>1, SameTree, TypesParts DEF IInv, Places
<1>3. at \in Tasks /\ at' \in Tasks \cup {0}
  BY <1>1, <1>2 DEF IInv, Places, LocalTypes, TreeTypes
<1>4. Places'
  <2>1. LocalTypes'
    BY <1>1, <1>2, <1>3 DEF LocalTypes
  <2>2. TypeOK'
    BY <1>2, <2>1, TypesParts
  <2>3. path = <<>>
    BY <1>1 DEF IInv, Places, Climbing
  <2> QED
    BY <1>1, <1>2, <2>2, <2>3 DEF IInv, Places, Climbing, Walking
<1>5. ClimbInv'
  <2> SUFFICES ASSUME NEW n \in Nat, NEW s \in [0..n -> Tasks], SteadyUp(s, n)'
               PROVE  \/ \A i \in 0..n : Seen(s, i)'
                      \/ \E m \in 1..n : s[m] = at' /\ SeenTo(s, m - 1)'
    BY <1>1 DEF ClimbInv
  <2>1. SteadyUp(s, n) /\ \A i \in 0..(n - 1) : s[i + 1] = parent[s[i]]
    BY <1>1, <1>2 DEF SteadyUp, Chain
  <2>2. \A i \in 0..n : Seen(s, i)' <=> Seen(s, i)
    BY <1>1, <1>2 DEF Seen
  <2>3. CASE \E m \in 1..n : s[m] = at /\ SeenTo(s, m)
    <3>1. PICK m \in 1..n : s[m] = at /\ SeenTo(s, m)
      BY <2>3
    <3>2. \A i \in 0..m : i \in 0..n
      OBVIOUS
    <3>3. SeenTo(s, m)'
      BY <1>1, <2>2, <3>1, <3>2 DEF SeenTo
    <3>4. CASE m = n
      BY <3>3, <3>4 DEF SeenTo
    <3>5. CASE m # n
      <4>1. m \in 0..(n - 1) /\ m + 1 \in 1..n /\ (m + 1) - 1 = m
        BY <3>5
      <4>2. s[m + 1] = at'
        BY <1>1, <2>1, <3>1, <4>1
      <4> QED
        BY <3>3, <4>1, <4>2
    <3> QED
      BY <3>4, <3>5
  <2>4. Climbing
    BY <1>1 DEF Climbing
  <2> QED
    BY <1>1, <2>1, <2>2, <2>3, <2>4 DEF IInv, ClimbInv
<1>6. WalkInv'
  BY <1>1 DEF WalkInv, WalkedOver, Walking
<1> QED
  BY <1>2, <1>4, <1>5, <1>6 DEF IInv

LEMMA ReturnedStep ==
    ASSUME IInv, Returned
    PROVE  IInv'
<1>1. /\ UNCHANGED tree /\ pc = "compare" /\ pc' = "returned" /\ at = 0
      /\ current' = current /\ max' = max /\ heaviest' = heaviest /\ at' = at
      /\ path' = path /\ sum' = sum /\ counted' = counted /\ steady' = steady
  BY DEF Returned, locals
<1>2. /\ status' = status /\ parent' = parent /\ weight' = weight /\ TreeTypes' /\ TreeInv'
      /\ TreeTypes /\ LocalTypes
  BY <1>1, SameTree, TypesParts DEF IInv, Places
<1>3. path = <<>>
  BY <1>1 DEF IInv, Places, Climbing
<1>4. Places'
  <2>1. LocalTypes'
    BY <1>1, <1>2 DEF LocalTypes
  <2>2. TypeOK'
    BY <1>2, <2>1, TypesParts
  <2> QED
    BY <1>1, <1>2, <1>3, <2>2 DEF IInv, Places, Climbing, Walking
<1>5. ClimbInv'
  <2> SUFFICES ASSUME NEW n \in Nat, NEW s \in [0..n -> Tasks], SteadyUp(s, n)'
               PROVE  \A i \in 0..n : Seen(s, i)'
    BY <1>1 DEF ClimbInv
  <2>1. SteadyUp(s, n)
    BY <1>1, <1>2 DEF SteadyUp
  <2>2. \A i \in 0..n : Seen(s, i)' <=> Seen(s, i)
    BY <1>1, <1>2 DEF Seen
  <2>3. \A m \in 1..n : s[m] # at
    BY <1>1, Constants
  <2>4. Climbing
    BY <1>1 DEF Climbing
  <2> QED
    BY <1>1, <2>1, <2>2, <2>3, <2>4 DEF IInv, ClimbInv
<1>6. WalkInv'
  BY <1>1, <1>3 DEF WalkInv, WalkedOver, Walking
<1> QED
  BY <1>2, <1>4, <1>5, <1>6 DEF IInv

LEMMA NoCallStep ==
    ASSUME IInv, NoCall, UNCHANGED tree, pc' \in {"idle", "lost"}
    PROVE  IInv'
<1>1. /\ current' = 1 /\ at' = 1 /\ max' = 0 /\ heaviest' = 1
      /\ path' = <<>> /\ sum' = 0 /\ counted' = <<>> /\ steady' = {}
  BY DEF NoCall
<1>2. TreeTypes' /\ TreeInv'
  BY SameTree, TypesParts DEF IInv, Places
<1>3. TypeOK'
  <2>1. LocalTypes'
    BY <1>1, Constants DEF LocalTypes
  <2> QED
    BY <1>2, <2>1, TypesParts
<1>4. Places'
  BY <1>1, <1>2, <1>3 DEF Places, Climbing, Walking, TreeInv
<1>5. ClimbInv' /\ WalkInv'
  BY DEF ClimbInv, WalkInv, Climbing, WalkedOver, Walking
<1> QED
  BY <1>2, <1>4, <1>5 DEF IInv

-----------------------------------------------------------------------------
(* Ways down from the caller. *)

LEMMA DownChain ==
    ASSUME NEW k \in Nat \ {0}, NEW d \in [1..k -> Tasks],
           \A i \in 1..(k - 1) : parent[d[i + 1]] = d[i],
           NEW m \in 1..k, NEW l \in 1..m
    PROVE  \E s : Chain(parent, s, m - l) /\ s[0] = d[m] /\ s[m - l] = d[l]
<1> DEFINE n == m - l
           s == [i \in 0..n |-> d[m - i]]
<1>1. n \in Nat /\ m - 0 = m /\ m - n = l /\ 0 \in 0..n /\ n \in 0..n
  OBVIOUS
<1>2. \A i \in 0..n : m - i \in 1..k
  OBVIOUS
<1>3. \A i \in 0..(n - 1) : /\ i \in 0..n /\ i + 1 \in 0..n
                            /\ m - (i + 1) \in 1..(k - 1) /\ (m - (i + 1)) + 1 = m - i
  OBVIOUS
<1> HIDE DEF n
<1>4. s \in [0..n -> Tasks] /\ s[0] = d[m] /\ s[n] = d[l]
  BY <1>1, <1>2
<1>5. \A i \in 0..(n - 1) : s[i + 1] = parent[s[i]]
  <2> SUFFICES ASSUME NEW i \in 0..(n - 1)
               PROVE  s[i + 1] = parent[s[i]]
    OBVIOUS
  <2>1. s[i + 1] = d[m - (i + 1)] /\ s[i] = d[m - i]
    BY <1>3
  <2>2. parent[d[(m - (i + 1)) + 1]] = d[m - (i + 1)]
    BY <1>3
  <2> QED
    BY <1>3, <2>1, <2>2
<1> HIDE DEF s
<1>6. Chain(parent, s, n)
  BY <1>1, <1>4, <1>5 DEF Chain
<1> QED
  BY <1>4, <1>6 DEF n

LEMMA DownDistinct ==
    ASSUME Acyclic(parent), NEW k \in Nat \ {0}, NEW d \in [1..k -> Tasks],
           \A i \in 1..(k - 1) : parent[d[i + 1]] = d[i],
           NEW m \in 1..k, NEW l \in 1..k, d[m] = d[l]
    PROVE  m = l
<1>1. ASSUME NEW a \in 1..k, NEW b \in 1..a, a # b PROVE d[a] # d[b]
  <2>1. PICK s : Chain(parent, s, a - b) /\ s[0] = d[a] /\ s[a - b] = d[b]
    BY DownChain
  <2>2. a - b \in Nat \ {0} /\ s \in [0..(a - b) -> Tasks]
    BY <1>1, <2>1 DEF Chain
  <2> QED
    BY <2>1, <2>2 DEF Acyclic
<1>2. m \in 1..l \/ l \in 1..m
  OBVIOUS
<1> QED
  BY <1>1, <1>2

(* Where the walk meets the way d, it has followed d up to there. *)
LEMMA FollowedTo ==
    ASSUME path \in Seq(Tasks), Acyclic(parent), PathInv,
           NEW k \in Nat \ {0}, NEW d \in [1..k -> Tasks], SteadyDown(d, k),
           NEW x \in 1..Len(path), NEW y \in 1..k, path[x] = d[y]
    PROVE  x = y /\ \A i \in 1..x : path[i] = d[i]
<1> DEFINE Good(u) == \A v \in 1..k : path[u] = d[v] => u = v /\ \A i \in 1..u : path[i] = d[i]
           B == {u \in 1..Len(path) : ~Good(u)}
<1>1. Len(path) \in Nat /\ \A i \in 1..Len(path) : path[i] \in Tasks
  OBVIOUS
<1>2. /\ d[1] = current /\ \A i \in 1..(k - 1) : parent[d[i + 1]] = d[i]
      /\ \A i \in 1..k : d[i] \in steady
  BY DEF SteadyDown
<1> SUFFICES ASSUME B # {} PROVE FALSE
  <2>1. Good(x)
    OBVIOUS
  <2> QED
    BY <2>1
<1>3. PICK u \in B : \A v \in B : u <= v
  <2>1. B \in SUBSET Nat
    BY <1>1
  <2> HIDE DEF B
  <2> QED
    BY <2>1, Smallest
<1>4. u \in 1..Len(path) /\ ~Good(u)
  BY <1>3
<1>5. PICK v \in 1..k : path[u] = d[v] /\ ~(u = v /\ \A i \in 1..u : path[i] = d[i])
  BY <1>4
<1>6. CASE u = 1
  <2>1. d[1] = d[v] /\ 1 \in 1..k
    BY <1>2, <1>5, <1>6 DEF PathInv
  <2>2. v = 1
    BY <1>2, <2>1, DownDistinct
  <2>3. \A i \in 1..1 : i = 1
    OBVIOUS
  <2> QED
    BY <1>5, <1>6, <2>2, <2>3
<1>7. CASE u # 1 /\ v = 1
  <2>1. u \in 2..Len(path)
    BY <1>4, <1>7
  <2>2. current \in Tasks /\ path[u] = current
    BY <1>1, <1>2, <1>4, <1>5, <1>7
  <2>3. PICK s : Chain(parent, s, 0) /\ s[0] = current
    BY <2>2, ChainNone
  <2>4. s \in [0..0 -> Tasks] /\ 0 \in Nat
    BY <2>3 DEF Chain
  <2>5. s[0] # path[u]
    BY <2>1, <2>3, <2>4 DEF PathInv
  <2> QED
    BY <2>2, <2>3, <2>5
<1>8. CASE u # 1 /\ v # 1
  <2>1. /\ u - 1 \in 1..(Len(path) - 1) /\ (u - 1) + 1 = u /\ u - 1 \in 1..Len(path) /\ ~(u <= u - 1)
        /\ v - 1 \in 1..(k - 1) /\ (v - 1) + 1 = v /\ v - 1 \in 1..k
    BY <1>1, <1>4, <1>8
  <2>2. parent[d[v]] = d[v - 1]
    BY <1>2, <2>1
  <2>3. path[u] \in steady => parent[path[u]] = path[u - 1]
    BY <2>1 DEF PathInv
  <2>4. path[u - 1] = d[v - 1]
    BY <1>2, <1>5, <2>2, <2>3
  <2>5. Good(u - 1)
    <3>1. u - 1 \notin B
      BY <1>3, <2>1
    <3> QED
      BY <2>1, <3>1
  <2>6. u - 1 = v - 1 /\ \A i \in 1..(u - 1) : path[i] = d[i]
    BY <2>1, <2>4, <2>5
  <2>7. u = v /\ \A i \in 1..u : i = u \/ i \in 1..(u - 1)
    BY <1>4, <2>1, <2>6
  <2> QED
    BY <1>5, <2>6, <2>7
<1> QED
  BY <1>6, <1>7, <1>8

(* A child of the way's end is where the way goes on. *)
LEMMA WayChild ==
    ASSUME TreeInv, NEW k \in Nat \ {0}, NEW d \in [1..k -> Tasks], SteadyDown(d, k),
           NEW j \in 1..(k - 1)
    PROVE  \E b \in DOMAIN children[d[j]] : children[d[j]][b] = d[j + 1]
<1>1. j \in 1..k /\ j + 1 \in 1..k
  OBVIOUS
<1>2. parent[d[j + 1]] = d[j] /\ InTree(d[j + 1]) /\ d[j] \in Tasks /\ d[j + 1] \in Tasks
  BY <1>1 DEF SteadyDown
<1> QED
  BY <1>2 DEF TreeInv

-----------------------------------------------------------------------------
(* The steps of get_leaf_children_sum. *)

LEMMA SameWay ==
    ASSUME UNCHANGED tree, current' = current, steady' = steady
    PROVE  /\ \A k, d : SteadyDown(d, k)' <=> SteadyDown(d, k)
           /\ \A par, s, n : Chain(par, s, n)' <=> Chain(par', s, n)
<1>1. status' = status /\ parent' = parent
  BY DEF tree
<1> QED
  BY <1>1 DEF SteadyDown, InTree, Chain

LEMMA StartSum ==
    ASSUME IInv, NEW t \in Tasks, GetLeafChildrenSum(t)
    PROVE  IInv'
<1>1. /\ UNCHANGED tree /\ pc' = "enter" /\ current' = t /\ path' = <<t>> /\ sum' = 0
      /\ counted' = <<>> /\ steady' = Tasks /\ at' = at /\ max' = max /\ heaviest' = heaviest
      /\ t \in Live
  BY DEF GetLeafChildrenSum
<1>2. status' = status /\ TreeTypes' /\ TreeInv' /\ LocalTypes
  BY <1>1, SameTree, TypesParts DEF IInv, Places
<1>3. path' \in Seq(Tasks) /\ Len(path') = 1 /\ path'[1] = t /\ path' # <<>>
  BY <1>1
<1>4. Places'
  <2>1. sum' \in 0..(Word - 1)
    BY <1>1, Constants
  <2>2. LocalTypes'
    BY <1>1, <1>2, <1>3, <2>1 DEF LocalTypes
  <2>3. TypeOK'
    BY <1>2, <2>2, TypesParts
  <2> QED
    BY <1>1, <1>2, <1>3, <2>3 DEF Places, Climbing, Walking, Live
<1>5. ClimbInv'
  BY <1>1 DEF ClimbInv, Climbing
<1>6. PathInv'
  <2>1. 2..Len(path') = {} /\ 1..(Len(path') - 1) = {}
    BY <1>3
  <2> QED
    BY <1>1, <1>3, <2>1 DEF PathInv
<1>7. LeafInv'
  <2> SUFFICES ASSUME NEW k \in Nat \ {0}, NEW d \in [1..k -> Tasks], SteadyDown(d, k)'
               PROVE  \E j \in 1..k : /\ j <= Len(path') /\ \A i \in 1..j : path'[i] = d[i]
                                      /\ OnWay(d, k, j)'
    BY DEF LeafInv
  <2>1. d[1] = t
    BY <1>1 DEF SteadyDown
  <2>2. OnWay(d, k, 1)'
    BY <1>1, <1>3 DEF OnWay, Uncounted
  <2>3. 1 \in 1..k /\ \A i \in 1..1 : i = 1
    OBVIOUS
  <2> QED
    BY <1>3, <2>1, <2>2, <2>3
<1>8. SumInv'
  <2>1. Counted' = {}
    BY <1>1 DEF Counted
  <2>2. Total(weight', Counted') = 0
    BY <2>1, TotalEmpty
  <2>3. 0 % Word = 0
    BY Constants
  <2>4. sum' = Total(weight', Counted') % Word
    BY <1>1, <2>2, <2>3
  <2> QED
    BY <2>1, <2>4 DEF SumInv
<1> QED
  BY <1>2, <1>4, <1>5, <1>6, <1>7, <1>8 DEF IInv, WalkInv

(* The steps that leave the walk where it is. *)
LEMMA StayPlaces ==
    ASSUME IInv, UNCHANGED <<tree, locals, steady>>, Walking, Walking' \/ pc' = "returned",
           pc' = "returned" => Len(path) = 1
    PROVE  Places' /\ TreeInv' /\ ClimbInv'
<1>1. /\ current' = current /\ max' = max /\ heaviest' = heaviest /\ at' = at
      /\ path' = path /\ sum' = sum /\ counted' = counted /\ steady' = steady
  BY DEF locals
<1>2. status' = status /\ TreeTypes' /\ TreeInv' /\ LocalTypes
  BY SameTree, TypesParts DEF IInv, Places
<1>3. path # <<>>
  BY DEF IInv, Places
<1>4. pc' \in {"enter", "add", "first", "next", "returned"}
  BY DEF Walking
<1>5. LocalTypes'
  BY <1>1, <1>2, <1>4 DEF LocalTypes
<1>6. TypeOK'
  BY <1>2, <1>5, TypesParts
<1>7. Places'
  BY <1>1, <1>2, <1>3, <1>4, <1>6 DEF IInv, Places, Climbing, Walking
<1> QED
  BY <1>1, <1>2, <1>3, <1>4, <1>7 DEF ClimbInv, Climbing

LEMMA StayPath ==
    ASSUME PathInv, UNCHANGED tree, current' = current, path' = path, steady' = steady,
           pc' = "add" /\ Top \in steady => children[Top] = <<>>,
           pc' = "first" /\ Top \in steady => children[Top] # <<>>
    PROVE  PathInv'
<1>1. parent' = parent /\ children' = children /\ Top' = Top
  BY DEF tree, Top
<1> QED
  BY <1>1 DEF PathInv

LEMMA StayLeaf ==
    ASSUME LeafInv, UNCHANGED tree, current' = current, path' = path, steady' = steady,
           counted' = counted,
           pc' \in {"enter", "add", "first"} <=> pc \in {"enter", "add", "first"}
    PROVE  LeafInv'
<1>1. \A k, d : SteadyDown(d, k)' <=> SteadyDown(d, k)
  BY SameWay
<1>2. children' = children
  BY DEF tree
<1>3. \A t : (Uncounted(t)' <=> Uncounted(t)) /\ (Once(t)' <=> Once(t))
  BY DEF Uncounted, Once
<1>4. \A d, k, j : (OnWay(d, k, j)' <=> OnWay(d, k, j)) /\ (OffWay(d, k, j)' <=> OffWay(d, k, j))
  BY <1>2, <1>3 DEF OnWay, OffWay
<1> QED
  BY <1>1, <1>2, <1>4 DEF LeafInv

LEMMA StaySum ==
    ASSUME SumInv, UNCHANGED tree, current' = current, steady' = steady,
           sum' = sum, counted' = counted
    PROVE  SumInv'
<1>1. \A k, d : SteadyDown(d, k)' <=> SteadyDown(d, k)
  BY SameWay
<1>2. children' = children /\ weight' = weight /\ Counted' = Counted
  BY DEF tree, Counted
<1> QED
  BY <1>1, <1>2 DEF SumInv

LEMMA EnterStep ==
    ASSUME IInv, Enter
    PROVE  IInv'
<1>1. /\ UNCHANGED <<tree, locals, steady>> /\ pc = "enter"
      /\ pc' = IF children[Top] = <<>> THEN "add" ELSE "first"
  BY DEF Enter, Walks, locals
<1>2. /\ current' = current /\ path' = path /\ sum' = sum /\ counted' = counted
      /\ steady' = steady /\ UNCHANGED tree /\ pc' \in {"add", "first"}
      /\ Walking /\ Walking'
  BY <1>1 DEF locals, Walking
<1>3. PathInv /\ LeafInv /\ SumInv
  BY <1>2 DEF IInv, WalkInv, WalkedOver
<1>4. Places' /\ TreeInv' /\ ClimbInv'
  BY <1>1, <1>2, StayPlaces
<1>5. PathInv' /\ LeafInv' /\ SumInv'
  BY <1>1, <1>2, <1>3, StayPath, StayLeaf, StaySum
<1> QED
  BY <1>4, <1>5 DEF IInv, WalkInv

LEMMA SumReturnedStep ==
    ASSUME IInv, SumReturned
    PROVE  IInv'
<1>1. UNCHANGED <<tree, locals, steady>> /\ pc = "next" /\ pc' = "returned" /\ Len(path) = 1
  BY DEF SumReturned
<1>2. /\ current' = current /\ path' = path /\ sum' = sum /\ counted' = counted
      /\ steady' = steady /\ UNCHANGED tree /\ Walking
  BY <1>1 DEF locals, Walking
<1>3. PathInv /\ LeafInv /\ SumInv
  BY <1>2 DEF IInv, WalkInv, WalkedOver
<1>4. Places' /\ TreeInv' /\ ClimbInv'
  BY <1>1, <1>2, StayPlaces
<1>5. PathInv' /\ LeafInv' /\ SumInv'
  BY <1>1, <1>2, <1>3, StayPath, StayLeaf, StaySum
<1> QED
  BY <1>4, <1>5 DEF IInv, WalkInv

(* Remainders. *)
LEMMA Quotient ==
    ASSUME NEW w \in Nat \ {0}, NEW x \in Nat
    PROVE  \E q \in Nat, r \in 0..(w - 1) : x = w * q + r
<1> DEFINE B == {z \in Nat : ~ \E q \in Nat, r \in 0..(w - 1) : z = w * q + r}
<1> SUFFICES ASSUME B # {} PROVE FALSE
  OBVIOUS
<1>1. PICK z \in B : \A y \in B : z <= y
  <2>1. B \in SUBSET Nat
    OBVIOUS
  <2> HIDE DEF B
  <2> QED
    BY <2>1, Smallest
<1>2. z \in Nat /\ ~ \E q \in Nat, r \in 0..(w - 1) : z = w * q + r
  BY <1>1
<1>3. ~(z < w)
  <2>1. z < w => z \in 0..(w - 1) /\ z = w * 0 + z
    BY <1>2
  <2> QED
    BY <1>2, <2>1
<1>4. z - w \in Nat /\ ~(z <= z - w)
  BY <1>2, <1>3
<1>5. PICK q \in Nat, r \in 0..(w - 1) : z - w = w * q + r
  BY <1>1, <1>4
<1>6. w * (q + 1) = w * q + w /\ w * q \in Nat
  OBVIOUS
<1> DEFINE v == q + 1
<1>7. z = w * v + r /\ v \in Nat
  BY <1>2, <1>5, <1>6
<1> HIDE DEF v
<1> QED
  BY <1>2, <1>7

LEMMA RemainderIs ==
    ASSUME NEW w \in Nat \ {0}, NEW x \in Nat, NEW q \in Nat, NEW r \in 0..(w - 1), x = w * q + r
    PROVE  x % w = r
OBVIOUS

LEMMA Modulo ==
    ASSUME NEW w \in Nat \ {0}, NEW x \in Nat, NEW y \in Nat
    PROVE  ((x % w) + y) % w = (x + y) % w
<1>1. PICK q \in Nat, r \in 0..(w - 1) : x = w * q + r
  BY Quotient
<1>2. x % w = r
  BY <1>1, RemainderIs
<1> DEFINE u == r + y
           z == x + y
<1>3. u \in Nat /\ z \in Nat /\ u = r + y /\ z = x + y
  OBVIOUS
<1> HIDE DEF u, z
<1>4. PICK p \in Nat, t \in 0..(w - 1) : u = w * p + t
  BY <1>3, Quotient
<1>5. u % w = t
  BY <1>3, <1>4, RemainderIs
<1> DEFINE v == q + p
<1>6. w * v = w * q + w * p /\ w * q \in Nat /\ w * p \in Nat /\ v \in Nat
  OBVIOUS
<1>7. z = w * v + t
  BY <1>1, <1>3, <1>4, <1>6
<1> HIDE DEF v
<1>8. z % w = t
  BY <1>3, <1>6, <1>7, RemainderIs
<1> QED
  BY <1>2, <1>5, <1>8 DEF u, z
LEMMA TopTask ==
    ASSUME path \in Seq(Tasks), path # <<>>
    PROVE  /\ Len(path) \in Nat \ {0} /\ \A i \in 1..Len(path) : path[i] \in Tasks
           /\ Top = path[Len(path)] /\ Top \in Tasks
<1>1. Len(path) \in Nat \ {0} /\ \A i \in 1..Len(path) : path[i] \in Tasks
  OBVIOUS
<1>2. Len(path) \in 1..Len(path)
  BY <1>1
<1> QED
  BY <1>1, <1>2 DEF Top

LEMMA AddStep ==
    ASSUME IInv, Add
    PROVE  IInv'
<1>1. /\ UNCHANGED tree /\ pc = "add" /\ pc' = "next" /\ path' = path /\ current' = current
      /\ at' = at /\ max' = max /\ heaviest' = heaviest /\ steady' = steady
      /\ sum' = (sum + weight[Top]) % Word /\ counted' = Append(counted, Top)
  BY DEF Add, Walks
<1>2. /\ status' = status /\ children' = children /\ weight' = weight
      /\ TreeTypes' /\ TreeInv' /\ TreeInv /\ TreeTypes /\ LocalTypes /\ Acyclic(parent)
  BY <1>1, SameTree, TypesParts DEF IInv, Places, TreeInv
<1>3. PathInv /\ LeafInv /\ SumInv
  BY <1>1 DEF IInv, WalkInv, WalkedOver, Walking
<1>4. /\ path \in Seq(Tasks) /\ path # <<>> /\ counted \in Seq(Tasks) /\ Len(path) \in Nat \ {0}
      /\ Top \in Tasks /\ Top = path[Len(path)] /\ weight[Top] \in Nat
  <2>1. path \in Seq(Tasks) /\ path # <<>> /\ counted \in Seq(Tasks)
    BY <1>1 DEF IInv, Places, Walking
  <2>2. Len(path) \in Nat \ {0} /\ Top \in Tasks
    BY <2>1, TopTask
  <2>3. weight[Top] \in Nat
    BY <1>2, <2>2, Constants DEF TreeTypes
  <2> QED
    BY <2>1, <2>2, <2>3 DEF Top
<1>5. Places'
  <2>1. sum' \in 0..(Word - 1)
    <3>1. sum + weight[Top] \in Nat
      BY <1>2, <1>4, Constants DEF LocalTypes
    <3> QED
      BY <1>1, <3>1, Constants
  <2>2. LocalTypes'
    BY <1>1, <1>2, <2>1 DEF LocalTypes
  <2>3. TypeOK'
    BY <1>2, <2>2, TypesParts
  <2>4. counted' \in Seq(Tasks)
    BY <1>1, <1>4
  <2> QED
    BY <1>1, <1>2, <1>4, <2>3, <2>4 DEF IInv, Places, Climbing, Walking
<1>6. ClimbInv'
  BY <1>1 DEF ClimbInv, Climbing
<1>7. PathInv'
  BY <1>1, <1>3, StayPath
<1>8. \A t \in Tasks : /\ t # Top => (Uncounted(t)' <=> Uncounted(t)) /\ (Once(t)' <=> Once(t))
                       /\ t = Top /\ Uncounted(t) => Once(t)'
  <2> DEFINE n == Len(counted)
  <2>1. n \in Nat /\ DOMAIN counted = 1..n /\ DOMAIN counted' = 1..(n + 1)
        /\ counted'[n + 1] = Top /\ \A i \in 1..n : counted'[i] = counted[i]
    BY <1>1, <1>4
  <2> HIDE DEF n
  <2>2. n + 1 \in 1..(n + 1) /\ \A i \in 1..(n + 1) : i = n + 1 \/ i \in 1..n
    BY <2>1
  <2>3. 1..n \subseteq 1..(n + 1)
    BY <2>1
  <2> QED
    BY <2>1, <2>2, <2>3 DEF Uncounted, Once
<1>9. ASSUME NEW k \in Nat \ {0}, NEW d \in [1..k -> Tasks], SteadyDown(d, k), d[k] = Top,
             NEW j \in 1..k, j <= Len(path), \A i \in 1..j : path[i] = d[i], OffWay(d, k, j)
      PROVE  FALSE
  <2>1. Len(path) \in 1..Len(path) /\ k \in 1..k
    BY <1>4
  <2>2. Len(path) = k /\ \A i \in 1..k : path[i] = d[i]
    BY <1>2, <1>3, <1>4, <1>9, <2>1, FollowedTo
  <2>3. j < k /\ j + 1 \in 1..k
    BY <1>9 DEF OffWay
  <2>4. path[j + 1] = d[j + 1] /\ d[j] \in Tasks
    BY <2>2, <2>3
  <2>5. PICK a \in DOMAIN children[d[j]], b \in DOMAIN children[d[j]] :
           children[d[j]][a] = path[j + 1] /\ children[d[j]][b] = d[j + 1] /\ (a < b \/ b < a)
    BY <1>9 DEF OffWay
  <2>6. a = b
    BY <1>2, <2>4, <2>5 DEF TreeInv
  <2>7. a \in Int /\ b \in Int
    BY <1>2, <2>4 DEF TreeTypes
  <2> QED
    BY <2>5, <2>6, <2>7
<1>10. ASSUME NEW k \in Nat \ {0}, NEW d \in [1..k -> Tasks], SteadyDown(d, k),
              NEW j \in 1..k, j <= Len(path), \A i \in 1..j : path[i] = d[i], OnWay(d, k, j)
       PROVE  j = k /\ d[k] = Top /\ Uncounted(d[k])
  <2>1. Len(path) = j /\ Uncounted(d[k]) /\ Top = d[j] /\ Top \in steady
    BY <1>1, <1>4, <1>10 DEF OnWay, SteadyDown
  <2>2. children[d[j]] = <<>>
    BY <1>1, <1>3, <2>1 DEF PathInv
  <2>3. j = k
    <3>1. CASE j \in 1..(k - 1)
      <4>1. DOMAIN children[d[j]] # {}
        BY <1>2, <1>10, <3>1, WayChild
      <4> QED
        BY <2>2, <4>1
    <3> QED
      BY <3>1
  <2> QED
    BY <2>1, <2>3
<1>11. LeafInv'
  <2> SUFFICES ASSUME NEW k \in Nat \ {0}, NEW d \in [1..k -> Tasks],
                      SteadyDown(d, k)', children'[d[k]] = <<>>
               PROVE  \E j \in 1..k : /\ j <= Len(path') /\ \A i \in 1..j : path'[i] = d[i]
                                      /\ OnWay(d, k, j)' \/ OffWay(d, k, j)'
    BY DEF LeafInv
  <2>1. SteadyDown(d, k) /\ children[d[k]] = <<>> /\ d[k] \in Tasks
    BY <1>1, <1>2, SameWay
  <2>2. PICK j \in 1..k : /\ j <= Len(path) /\ \A i \in 1..j : path[i] = d[i]
                          /\ OnWay(d, k, j) \/ OffWay(d, k, j)
    BY <1>3, <2>1 DEF LeafInv
  <2>3. CASE OnWay(d, k, j)
    <3>1. d[k] = Top /\ Uncounted(d[k])
      BY <1>10, <2>1, <2>2, <2>3
    <3>2. Once(d[k])'
      BY <1>8, <2>1, <3>1
    <3>3. OnWay(d, k, j)'
      BY <1>1, <2>3, <3>2 DEF OnWay
    <3> QED
      BY <1>1, <2>2, <3>3
  <2>4. CASE OffWay(d, k, j)
    <3>1. d[k] # Top
      BY <1>9, <2>1, <2>2, <2>4
    <3>2. (Uncounted(d[k])' <=> Uncounted(d[k])) /\ (Once(d[k])' <=> Once(d[k]))
      BY <1>8, <2>1, <3>1
    <3>3. OffWay(d, k, j)'
      BY <1>1, <1>2, <2>4, <3>2 DEF OffWay
    <3> QED
      BY <1>1, <2>2, <3>3
  <2> QED
    BY <2>2, <2>3, <2>4
<1>12. SumInv'
  <2> SUFFICES ASSUME steady = Tasks
               PROVE  /\ sum' = Total(weight', Counted') % Word
                      /\ \A t \in Counted' :
                           /\ children'[t] = <<>>
                           /\ \E k \in Nat \ {0} : \E d \in [1..k -> Tasks] :
                                SteadyDown(d, k)' /\ d[k] = t
    BY <1>1 DEF SumInv
  <2>1. Counted' = Counted \cup {Top} /\ Counted \subseteq Tasks
    <3> DEFINE n == Len(counted)
    <3>1. n \in Nat /\ DOMAIN counted = 1..n /\ DOMAIN counted' = 1..(n + 1)
          /\ counted'[n + 1] = Top /\ (\A i \in 1..n : counted'[i] = counted[i])
          /\ \A i \in 1..n : counted[i] \in Tasks
      BY <1>1, <1>4
    <3> HIDE DEF n
    <3>2. n + 1 \in 1..(n + 1) /\ \A i \in 1..(n + 1) : i = n + 1 \/ i \in 1..n
      BY <3>1
    <3>3. 1..n \subseteq 1..(n + 1)
      BY <3>1
    <3> QED
      BY <3>1, <3>2, <3>3 DEF Counted
  <2> DEFINE k == Len(path)
  <2>2. /\ k \in Nat \ {0} /\ path \in [1..k -> Tasks] /\ k \in 1..k
        /\ \A i \in 1..k : path[i] \in Tasks
    BY <1>4
  <2>3. /\ path[1] = current
        /\ \A i \in 1..(k - 1) : /\ parent[path[i + 1]] = path[i]
                                 /\ \E a \in DOMAIN children[path[i]] :
                                      children[path[i]][a] = path[i + 1]
    <3>1. \A i \in 1..(k - 1) : path[i] \in steady /\ path[i + 1] \in steady
      BY <2>2
    <3> QED
      BY <1>3, <3>1 DEF PathInv
  <2> HIDE DEF k
  <2>4. \A i \in 1..k : InTree(path[i])
    <3> SUFFICES ASSUME NEW i \in 1..k
                 PROVE  InTree(path[i])
      OBVIOUS
    <3>1. CASE i = 1
      BY <2>3, <3>1 DEF IInv, Places, InTree
    <3>2. CASE i # 1
      <4>1. i - 1 \in 1..(k - 1) /\ (i - 1) + 1 = i /\ i - 1 \in 1..k
        BY <2>2, <3>2
      <4>2. \E a \in DOMAIN children[path[i - 1]] : children[path[i - 1]][a] = path[i]
        BY <2>3, <4>1
      <4> QED
        BY <1>2, <2>2, <4>1, <4>2 DEF TreeInv
    <3> QED
      BY <3>1, <3>2
  <2>5. SteadyDown(path, k)
    BY <2>2, <2>3, <2>4 DEF SteadyDown
  <2>6. children[Top] = <<>> /\ path[k] = Top
    BY <1>1, <1>3, <1>4 DEF PathInv, k
  <2>7. Uncounted(Top)
    <3>1. PICK j \in 1..k : /\ j <= Len(path) /\ \A i \in 1..j : path[i] = path[i]
                            /\ OnWay(path, k, j) \/ OffWay(path, k, j)
      BY <1>3, <2>2, <2>5, <2>6 DEF LeafInv
    <3>2. OnWay(path, k, j)
      BY <1>9, <2>2, <2>5, <2>6, <3>1
    <3> QED
      BY <1>10, <2>2, <2>5, <3>1, <3>2
  <2>8. Top \notin Counted
    BY <2>7 DEF Uncounted, Counted
  <2>9. sum' = Total(weight', Counted') % Word
    <3>1. IsFiniteSet(Counted) /\ \A y \in Counted \cup {Top} : weight[y] \in Nat
      BY <1>2, <1>4, <2>1, Constants, FS_Subset DEF TreeTypes
    <3>2. Total(weight, Counted') = weight[Top] + Total(weight, Counted)
      BY <2>1, <2>8, <3>1, TotalAdd
    <3>3. Total(weight, Counted) \in Nat
      BY <3>1, TotalNat
    <3>4. sum = Total(weight, Counted) % Word
      BY <1>3 DEF SumInv
    <3>5. ((Total(weight, Counted) % Word) + weight[Top]) % Word
             = (Total(weight, Counted) + weight[Top]) % Word
      BY <1>4, <3>3, Constants, Modulo
    <3>6. Total(weight, Counted) + weight[Top] = weight[Top] + Total(weight, Counted)
      BY <1>4, <3>3
    <3> QED
      BY <1>1, <1>2, <3>2, <3>4, <3>5, <3>6
  <2>10. ASSUME NEW t \in Counted'
         PROVE  /\ children[t] = <<>>
                /\ \E n \in Nat \ {0} : \E d \in [1..n -> Tasks] : SteadyDown(d, n) /\ d[n] = t
    <3>1. CASE t = Top
      BY <2>2, <2>5, <2>6, <3>1
    <3>2. CASE t \in Counted
      BY <1>3, <3>2 DEF SumInv
    <3> QED
      BY <2>1, <3>1, <3>2
  <2> QED
    BY <1>1, <1>2, <2>9, <2>10, SameWay
<1> QED
  BY <1>2, <1>5, <1>6, <1>7, <1>11, <1>12 DEF IInv, WalkInv

(* The walk goes on to a child of one of the tasks on its way. *)
LEMMA PushPath ==
    ASSUME path \in Seq(Tasks), TreeInv, PathInv, UNCHANGED tree, current' = current,
           steady' = steady, pc' = "enter",
           NEW q \in 1..Len(path), NEW c \in Tasks, InTree(c), parent[c] = path[q],
           Len(path') = q + 1, path'[q + 1] = c, \A i \in 1..q : path'[i] = path[i]
    PROVE  PathInv'
<1>1. /\ parent' = parent /\ children' = children /\ Acyclic(parent)
      /\ Len(path) \in Nat /\ \A i \in 1..Len(path) : path[i] \in Tasks
  BY DEF tree, TreeInv
<1>2. path[q] \in Tasks /\ path[1] = current /\ 1 \in 1..q
  BY <1>1 DEF PathInv
<1>3. c # 1
  BY <1>2, Constants DEF TreeInv
<1>4. ASSUME NEW n \in Nat, NEW s \in [0..n -> Tasks], Chain(parent, s, n), s[0] = current
      PROVE  s[n] # c
  <2> SUFFICES ASSUME s[n] = c
               PROVE  FALSE
    OBVIOUS
  <2>1. PICK r : Chain(parent, r, 1) /\ r[0] = c /\ r[1] = path[q]
    BY <1>2, ChainOne
  <2>2. PICK u : Chain(parent, u, n + 1) /\ u[0] = current /\ u[n + 1] = path[q]
    BY <1>4, <2>1, ChainJoin
  <2>3. n + 1 \in Nat \ {0} /\ u \in [0..(n + 1) -> Tasks]
    BY <2>2 DEF Chain
  <2>4. q # 1
    BY <1>1, <1>2, <2>2, <2>3 DEF Acyclic
  <2>5. q \in 2..Len(path) /\ n + 1 \in Nat
    BY <1>1, <2>4
  <2> QED
    BY <2>2, <2>3, <2>5 DEF PathInv
<1>5. ASSUME NEW i \in 2..Len(path')
      PROVE  /\ path'[i] # 1
             /\ \A n \in Nat : \A s \in [0..n -> Tasks] :
                  Chain(parent', s, n) /\ s[0] = current => s[n] # path'[i]
  <2>1. CASE i = q + 1
    BY <1>1, <1>3, <1>4, <2>1
  <2>2. CASE i # q + 1
    <3>1. i \in 2..Len(path) /\ i \in 1..q
      BY <1>1, <1>5, <2>2
    <3> QED
      BY <1>1, <3>1 DEF PathInv
  <2> QED
    BY <2>1, <2>2
<1>6. ASSUME NEW i \in 1..(Len(path') - 1)
      PROVE  /\ path'[i] \in steady =>
                  \E a \in DOMAIN children[path'[i]] : children[path'[i]][a] = path'[i + 1]
             /\ path'[i + 1] \in steady => parent[path'[i + 1]] = path'[i]
  <2>1. CASE i = q
    <3>1. q \in 1..q
      OBVIOUS
    <3>2. path'[i] = path[q] /\ path'[i + 1] = c
      BY <2>1, <3>1
    <3>3. \E a \in DOMAIN children[path[q]] : children[path[q]][a] = c
      BY <1>2 DEF TreeInv
    <3> QED
      BY <3>2, <3>3
  <2>2. CASE i # q
    <3>1. i \in 1..(Len(path) - 1) /\ i \in 1..q /\ i + 1 \in 1..q
      BY <1>1, <1>6, <2>2
    <3>2. path'[i] = path[i] /\ path'[i + 1] = path[i + 1]
      BY <3>1
    <3> QED
      BY <3>1, <3>2 DEF PathInv
  <2> QED
    BY <2>1, <2>2
<1> QED
  BY <1>1, <1>2, <1>5, <1>6 DEF PathInv

(* The places of a walk that goes on to path'. *)
LEMMA GoPlaces ==
    ASSUME IInv, Walking, UNCHANGED <<tree, current, at, max, heaviest, steady, sum, counted>>,
           pc' \in {"next", "enter"}, path' \in Seq(Tasks), path' # <<>>
    PROVE  Places' /\ TreeInv' /\ ClimbInv'
<1>1. status' = status /\ TreeTypes' /\ TreeInv' /\ LocalTypes
  BY SameTree, TypesParts DEF IInv, Places
<1>2. \A i \in DOMAIN path' : path'[i] \in Tasks
  OBVIOUS
<1>3. LocalTypes'
  BY <1>1, <1>2 DEF LocalTypes
<1>4. TypeOK'
  BY <1>1, <1>3, TypesParts
<1>5. Places'
  BY <1>1, <1>4 DEF IInv, Places, Climbing, Walking
<1> QED
  BY <1>1, <1>5 DEF ClimbInv, Climbing

LEMMA DescendStep ==
    ASSUME IInv, Descend
    PROVE  IInv'
<1>1. /\ UNCHANGED <<tree, current, at, max, heaviest, steady, sum, counted>>
      /\ pc = "first" /\ Walking
      /\ \/ children[Top] = <<>> /\ path' = path /\ pc' = "next"
         \/ children[Top] # <<>> /\ path' = Append(path, Head(children[Top])) /\ pc' = "enter"
  BY DEF Descend, Walks, Walking
<1>2. /\ UNCHANGED tree /\ current' = current /\ steady' = steady /\ sum' = sum
      /\ counted' = counted /\ children' = children
  BY <1>1 DEF tree
<1>3. PathInv /\ LeafInv /\ SumInv /\ TreeInv /\ TreeTypes
  BY <1>1, TypesParts DEF IInv, WalkInv, WalkedOver, Places
<1>4. /\ path \in Seq(Tasks) /\ path # <<>> /\ Len(path) \in Nat \ {0}
      /\ Top \in Tasks /\ Top = path[Len(path)] /\ \A i \in 1..Len(path) : path[i] \in Tasks
  <2>1. path \in Seq(Tasks) /\ path # <<>>
    BY <1>1 DEF IInv, Places
  <2> QED
    BY <2>1, TopTask
<1>5. SumInv'
  BY <1>2, <1>3, StaySum
<1>6. \A k, d : SteadyDown(d, k)' <=> SteadyDown(d, k)
  BY <1>2, SameWay
<1>7. \A t : (Uncounted(t)' <=> Uncounted(t)) /\ (Once(t)' <=> Once(t))
  BY <1>2 DEF Uncounted, Once
<1>8. CASE children[Top] = <<>> /\ path' = path /\ pc' = "next"
  <2>1. PathInv'
    BY <1>2, <1>3, <1>8, StayPath
  <2>2. ASSUME NEW k \in Nat \ {0}, NEW d \in [1..k -> Tasks], SteadyDown(d, k),
               NEW j \in 1..k, \A i \in 1..j : path[i] = d[i], OnWay(d, k, j)
        PROVE  FALSE
    <3>1. Len(path) = j /\ d[j] \in steady
      BY <2>2 DEF OnWay, SteadyDown
    <3>2. Top \in steady
      BY <1>4, <2>2, <3>1
    <3> QED
      BY <1>1, <1>3, <1>8, <3>2 DEF PathInv
  <2>3. \A d, k, j : OffWay(d, k, j) => OffWay(d, k, j)'
    BY <1>2, <1>7, <1>8 DEF OffWay
  <2>4. LeafInv'
    BY <1>2, <1>3, <1>6, <1>8, <2>2, <2>3 DEF LeafInv
  <2>5. Places' /\ TreeInv' /\ ClimbInv'
    BY <1>1, <1>4, <1>8, GoPlaces
  <2> QED
    BY <1>5, <2>1, <2>4, <2>5 DEF IInv, WalkInv
<1>9. CASE children[Top] # <<>> /\ path' = Append(path, Head(children[Top])) /\ pc' = "enter"
  <2> DEFINE q == Len(path)
             l == children[Top]
             c == Head(l)
  <2>1. l \in Seq(Tasks) /\ l # <<>>
    BY <1>3, <1>4, <1>9 DEF TreeTypes
  <2>2. Len(l) \in Nat \ {0} /\ DOMAIN l = 1..Len(l) /\ 1 \in DOMAIN l /\ l[1] = c /\ c \in Tasks
    BY <2>1
  <2>3. InTree(c) /\ parent[c] = Top
    BY <1>3, <1>4, <2>2 DEF TreeInv
  <2> HIDE DEF c, l
  <2>4. /\ path' \in Seq(Tasks) /\ path' # <<>> /\ Len(path') = q + 1 /\ path'[q + 1] = c
        /\ \A i \in 1..q : path'[i] = path[i]
    BY <1>4, <1>9, <2>2 DEF c, l
  <2> HIDE DEF q
  <2>5. q = Len(path) /\ q \in 1..Len(path) /\ q \in Nat \ {0} /\ path[q] = Top
    BY <1>4 DEF q
  <2>6. PathInv'
    BY <1>2, <1>3, <1>4, <1>9, <2>2, <2>3, <2>4, <2>5, PushPath
  <2>7. LeafInv'
    <3> SUFFICES ASSUME NEW k \in Nat \ {0}, NEW d \in [1..k -> Tasks],
                        SteadyDown(d, k), children[d[k]] = <<>>
                 PROVE  \E j \in 1..k : /\ j <= q + 1 /\ \A i \in 1..j : path'[i] = d[i]
                                        /\ OnWay(d, k, j)' \/ OffWay(d, k, j)'
      BY <1>2, <1>6, <2>4 DEF LeafInv
    <3>1. PICK j \in 1..k : /\ j <= q /\ \A i \in 1..j : path[i] = d[i]
                            /\ OnWay(d, k, j) \/ OffWay(d, k, j)
      BY <1>3, <2>5 DEF LeafInv
    <3>2. /\ j <= q + 1 /\ \A i \in 1..j : path'[i] = d[i]
          /\ j \in 1..j
      BY <2>4, <2>5, <3>1
    <3>3. CASE OffWay(d, k, j)
      <4>1. j < q /\ j + 1 \in 1..q
        BY <2>5, <3>3 DEF OffWay
      <4>2. path'[j + 1] = path[j + 1] /\ j < Len(path')
        BY <2>4, <2>5, <4>1
      <4>3. OffWay(d, k, j)'
        BY <1>2, <1>7, <3>3, <4>2 DEF OffWay
      <4> QED
        BY <3>2, <4>3
    <3>4. CASE OnWay(d, k, j)
      <4>1. j = q /\ Uncounted(d[k]) /\ d[j] = Top
        BY <1>1, <2>5, <3>1, <3>2, <3>4 DEF OnWay
      <4>2. j \in 1..(k - 1)
        <5>1. j # k
          BY <1>9, <4>1
        <5> QED
          BY <5>1
      <4>3. PICK b \in DOMAIN l : l[b] = d[j + 1]
        BY <1>3, <4>1, <4>2, WayChild DEF l
      <4>4. CASE b = 1
        <5>1. d[j + 1] = c /\ j + 1 \in 1..k /\ j + 1 <= q + 1
          BY <2>2, <4>1, <4>2, <4>3, <4>4
        <5>2. \A i \in 1..(j + 1) : i \in 1..j \/ i = j + 1
          OBVIOUS
        <5>3. \A i \in 1..(j + 1) : path'[i] = d[i]
          BY <2>4, <3>2, <4>1, <5>1, <5>2
        <5>4. OnWay(d, k, j + 1)'
          BY <1>7, <1>9, <2>4, <4>1 DEF OnWay
        <5> QED
          BY <5>1, <5>3, <5>4
      <4>5. CASE b # 1
        <5>1. 1 < b
          BY <2>2, <4>5
        <5>2. j < Len(path') /\ j < k /\ path'[j + 1] = c
          BY <2>4, <2>5, <4>1, <4>2
        <5>3. children'[d[j]] = l
          BY <1>2, <4>1 DEF l
        <5>4. OffWay(d, k, j)'
          BY <1>7, <2>2, <4>1, <4>3, <5>1, <5>2, <5>3 DEF OffWay
        <5> QED
          BY <3>2, <5>4
      <4> QED
        BY <4>4, <4>5
    <3> QED
      BY <3>1, <3>3, <3>4
  <2>8. Places' /\ TreeInv' /\ ClimbInv'
    BY <1>1, <1>9, <2>4, GoPlaces
  <2> QED
    BY <1>5, <2>6, <2>7, <2>8 DEF IInv, WalkInv
<1> QED
  BY <1>1, <1>8, <1>9

LEMMA BehindOne ==
    ASSUME NEW S, NEW l \in Seq(S), NEW i \in 1..Len(l)
    PROVE  /\ i = Len(l) => SubSeq(l, i + 1, Len(l)) = <<>>
           /\ i # Len(l) => /\ SubSeq(l, i + 1, Len(l)) # <<>>
                            /\ Head(SubSeq(l, i + 1, Len(l))) = l[i + 1]
<1> DEFINE a == i + 1
           b == Len(l)
           x == SubSeq(l, a, b)
<1>1. a \in Int /\ b \in Int /\ b \in Nat /\ (i = b => b < a) /\ \A j \in a..b : l[j] \in S
  OBVIOUS
<1>2. i # b => 1 \in 1..(b - a + 1) /\ a + 1 - 1 = a /\ a <= b /\ b - a + 1 # 0
  OBVIOUS
<1> HIDE DEF a, b
<1>3. i = b => x = <<>>
  BY <1>1, SubSeqEmpty
<1>4. x \in Seq(S) /\ Len(x) = IF a <= b THEN b - a + 1 ELSE 0
  BY <1>1, SubSeqProperties
<1>5. \A j \in 1..(b - a + 1) : x[j] = l[a + j - 1]
  BY <1>1, SubSeqPart
<1> HIDE DEF x
<1>6. ASSUME i # b PROVE x # <<>> /\ Head(x) = l[a]
  <2>1. Len(x) # 0 /\ x[1] = l[a]
    BY <1>2, <1>4, <1>5, <1>6
  <2> QED
    BY <1>4, <2>1
<1> QED
  BY <1>3, <1>6 DEF a, b, x

LEMMA BelowIs ==
    ASSUME path \in Seq(Tasks), Len(path) \in Nat \ {0, 1}
    PROVE  /\ Below \in Seq(Tasks) /\ Len(Below) = Len(path) - 1
           /\ \A i \in 1..(Len(path) - 1) : Below[i] = path[i]
<1> DEFINE b == Len(path) - 1
           x == SubSeq(path, 1, b)
<1>1. b \in Int /\ 1 \in Int /\ b - 1 + 1 = b /\ 1 <= b /\ \A i \in 1..b : path[i] \in Tasks
  <2>1. \A m \in Nat \ {0, 1} : m - 1 \in Nat \ {0} /\ 1..(m - 1) \subseteq 1..m
    OBVIOUS
  <2>2. b \in Nat \ {0} /\ 1..b \subseteq 1..Len(path)
    BY <2>1
  <2>3. \A i \in 1..Len(path) : path[i] \in Tasks
    OBVIOUS
  <2> HIDE DEF b
  <2> QED
    BY <2>2, <2>3
<1>2. \A i \in 1..b : 1 + i - 1 = i
  OBVIOUS
<1> HIDE DEF b
<1>3. x \in Seq(Tasks) /\ Len(x) = IF 1 <= b THEN b - 1 + 1 ELSE 0
  BY <1>1, SubSeqProperties
<1>4. \A i \in 1..(b - 1 + 1) : x[i] = path[1 + i - 1]
  BY <1>1, SubSeqPart
<1> HIDE DEF x
<1>5. Len(x) = b /\ \A i \in 1..b : x[i] = path[i]
  BY <1>1, <1>2, <1>3, <1>4
<1> QED
  BY <1>3, <1>5 DEF Below, b, x

LEMMA NextChildStep ==
    ASSUME IInv, NextChild
    PROVE  IInv'
<1>q. PICK q : q = Len(path) - 1
  OBVIOUS
<1>l. PICK l : l = children[path[q]]
  OBVIOUS
<1>i. PICK i : i = CHOOSE k \in DOMAIN l : l[k] = Top
  OBVIOUS
<1>1. /\ UNCHANGED <<tree, current, at, max, heaviest, steady, sum, counted>>
      /\ pc = "next" /\ Walking /\ Len(path) > 1 /\ InPlace
      /\ path' = Onward
      /\ pc' = IF Len(path') < Len(path) THEN "next" ELSE "enter"
  BY DEF NextChild, Walks, Walking
<1>2. /\ UNCHANGED tree /\ current' = current /\ steady' = steady /\ sum' = sum
      /\ counted' = counted /\ children' = children
  BY <1>1 DEF tree
<1>3. PathInv /\ LeafInv /\ SumInv /\ TreeInv /\ TreeTypes
  BY <1>1, TypesParts DEF IInv, WalkInv, WalkedOver, Places
<1>4. /\ path \in Seq(Tasks) /\ Len(path) \in Nat \ {0} /\ Len(path) \in Nat \ {0, 1}
      /\ Top \in Tasks /\ Top = path[Len(path)] /\ \A k \in 1..Len(path) : path[k] \in Tasks
  <2>1. path \in Seq(Tasks) /\ path # <<>>
    BY <1>1 DEF IInv, Places
  <2> QED
    BY <1>1, <2>1, TopTask
<1>5. q \in Nat \ {0} /\ q \in 1..Len(path) /\ Len(path) = q + 1 /\ q = Len(path) - 1
  BY <1>4, <1>q
<1>6. Below \in Seq(Tasks) /\ Len(Below) = q /\ \A k \in 1..q : Below[k] = path[k]
  BY <1>4, <1>5, BelowIs
<1>7. path[q] \in Tasks /\ parent[Top] = path[q] /\ InTree(Top)
  <2>1. path[q] \in Tasks /\ parent[Top] = path[q] /\ ~Freed(Top)
    BY <1>1, <1>4, <1>5 DEF InPlace
  <2>2. status[Top] # "freed" /\ status[Top] # "none"
    BY <1>3, <1>4, <2>1, Constants DEF Freed, TreeInv
  <2> QED
    BY <1>3, <1>4, <2>1, <2>2 DEF InTree, TreeTypes
<1>8. /\ l \in Seq(Tasks) /\ Len(l) \in Nat /\ DOMAIN l = 1..Len(l)
      /\ \A a, b \in DOMAIN l : l[a] = l[b] => a = b
  BY <1>3, <1>7, <1>l DEF TreeTypes, TreeInv
<1>9. i \in 1..Len(l) /\ l[i] = Top
  <2>1. \E k \in DOMAIN l : l[k] = Top
    BY <1>3, <1>4, <1>7, <1>l DEF TreeInv
  <2> QED
    BY <1>8, <1>i, <2>1
<1>10. Rest = SubSeq(l, i + 1, Len(l))
  BY <1>q, <1>l, <1>i DEF Rest
<1>11. SumInv'
  BY <1>2, <1>3, StaySum
<1>12. \A k, d : SteadyDown(d, k)' <=> SteadyDown(d, k)
  BY <1>2, SameWay
<1>13. \A t : (Uncounted(t)' <=> Uncounted(t)) /\ (Once(t)' <=> Once(t))
  BY <1>2 DEF Uncounted, Once
<1>14. ASSUME NEW k, NEW d, NEW j \in 1..k, k \in Nat, j < q, OffWay(d, k, j),
              Len(path') \in Nat, q <= Len(path'), \A m \in 1..q : path'[m] = path[m]
       PROVE  OffWay(d, k, j)'
  <2>1. path'[j + 1] = path[j + 1] /\ j < Len(path')
    BY <1>5, <1>14
  <2> QED
    BY <1>2, <1>13, <1>14, <2>1 DEF OffWay
<1>15. CASE i = Len(l)
  <2>1. path' = Below
    BY <1>1, <1>8, <1>9, <1>10, <1>15, BehindOne DEF Onward
  <2>2. pc' = "next" /\ Len(path') = q /\ path' \in Seq(Tasks) /\ path' # <<>>
    BY <1>1, <1>5, <1>6, <2>1
  <2>3. \A m \in 1..q : path'[m] = path[m]
    BY <1>6, <2>1
  <2>4. PathInv'
    <3>1. path'[1] = current
      BY <1>3, <1>5, <2>3 DEF PathInv
    <3>2. parent' = parent
      BY <1>2 DEF tree
    <3>3. \A m \in 2..q : m \in 2..Len(path) /\ m \in 1..q
      BY <1>5
    <3>4. \A m \in 1..(q - 1) : m \in 1..(Len(path) - 1) /\ m \in 1..q /\ m + 1 \in 1..q
      BY <1>5
    <3>5. ASSUME NEW m \in 2..q
          PROVE  /\ path'[m] # 1
                 /\ \A n \in Nat : \A s \in [0..n -> Tasks] :
                      Chain(parent', s, n) /\ s[0] = current => s[n] # path'[m]
      BY <1>3, <2>3, <3>2, <3>3 DEF PathInv
    <3>6. ASSUME NEW m \in 1..(q - 1)
          PROVE  /\ path'[m] \in steady =>
                      \E a \in DOMAIN children[path'[m]] : children[path'[m]][a] = path'[m + 1]
                 /\ path'[m + 1] \in steady => parent[path'[m + 1]] = path'[m]
      BY <1>3, <2>3, <3>4 DEF PathInv
    <3> QED
      BY <1>2, <2>2, <3>1, <3>2, <3>5, <3>6 DEF PathInv
  <2>5. LeafInv'
    <3> SUFFICES ASSUME NEW k \in Nat \ {0}, NEW d \in [1..k -> Tasks],
                        SteadyDown(d, k), children[d[k]] = <<>>
                 PROVE  \E j \in 1..k : /\ j <= q /\ \A m \in 1..j : path'[m] = d[m]
                                        /\ OnWay(d, k, j)' \/ OffWay(d, k, j)'
      BY <1>2, <1>12, <2>2 DEF LeafInv
    <3>1. PICK j \in 1..k : /\ j <= Len(path) /\ \A m \in 1..j : path[m] = d[m]
                            /\ OnWay(d, k, j) \/ OffWay(d, k, j)
      BY <1>3 DEF LeafInv
    <3>2. CASE OnWay(d, k, j)
      <4>1. j = q + 1 /\ Once(d[k]) /\ q \in 1..k
        BY <1>1, <1>5, <3>2 DEF OnWay
      <4>2. \A m \in 1..q : path'[m] = d[m]
        BY <1>5, <2>3, <3>1, <4>1
      <4>3. OnWay(d, k, q)'
        BY <1>13, <2>2, <4>1 DEF OnWay
      <4> QED
        BY <1>5, <4>1, <4>2, <4>3
    <3>3. CASE OffWay(d, k, j) /\ j = q
      <4>1. path[q] = d[q]
        BY <1>5, <3>1, <3>3
      <4>2. PICK a \in DOMAIN l, b \in DOMAIN l :
               /\ l[a] = path[q + 1] /\ l[b] = d[q + 1]
               /\ (a < b /\ Uncounted(d[k])) \/ (b < a /\ Once(d[k]))
        BY <1>l, <3>3, <4>1 DEF OffWay
      <4>3. a = i
        BY <1>4, <1>5, <1>8, <1>9, <4>2
      <4>4. Once(d[k])
        BY <1>8, <1>9, <1>15, <4>2, <4>3
      <4>5. OnWay(d, k, q)'
        BY <1>13, <2>2, <4>4 DEF OnWay
      <4>6. q <= q /\ q \in 1..k /\ \A m \in 1..q : path'[m] = d[m]
        BY <1>5, <2>3, <3>1, <3>3
      <4> QED
        BY <4>5, <4>6
    <3>4. CASE OffWay(d, k, j) /\ j # q
      <4>1. j < q
        BY <1>5, <3>1, <3>4 DEF OffWay
      <4>2. OffWay(d, k, j)'
        BY <1>5, <1>14, <2>2, <2>3, <3>4, <4>1
      <4>3. j <= q /\ \A m \in 1..j : path'[m] = d[m]
        BY <1>5, <2>3, <3>1, <4>1
      <4> QED
        BY <4>2, <4>3
    <3> QED
      BY <3>1, <3>2, <3>3, <3>4
  <2>6. Places' /\ TreeInv' /\ ClimbInv'
    BY <1>1, <2>2, GoPlaces
  <2> QED
    BY <1>11, <2>4, <2>5, <2>6 DEF IInv, WalkInv
<1>16. CASE i # Len(l)
  <2>c. PICK c : c = l[i + 1]
    OBVIOUS
  <2>1. i + 1 \in DOMAIN l /\ c = l[i + 1] /\ c \in Tasks /\ i \in DOMAIN l /\ i < i + 1
    <3>1. i + 1 \in DOMAIN l /\ i < i + 1 /\ i \in DOMAIN l
      <4>1. \A m \in Nat : \A k \in 1..m : k # m => k + 1 \in 1..m /\ k < k + 1
        OBVIOUS
      <4> QED
        BY <1>8, <1>9, <1>16, <4>1, Zenon
    <3> QED
      BY <1>8, <2>c, <3>1
  <2>2. InTree(c) /\ parent[c] = path[q]
    BY <1>3, <1>7, <1>l, <2>1 DEF TreeInv
  <2>3. path' = Append(Below, c)
    BY <1>1, <1>8, <1>9, <1>10, <1>16, <2>c, BehindOne DEF Onward
  <2>4. /\ path' \in Seq(Tasks) /\ path' # <<>> /\ Len(path') = q + 1 /\ path'[q + 1] = c
        /\ \A m \in 1..q : path'[m] = path[m]
    BY <1>5, <1>6, <2>1, <2>3
  <2>5. pc' = "enter"
    BY <1>1, <1>5, <2>4
  <2>6. PathInv'
    BY <1>2, <1>3, <1>4, <1>5, <2>1, <2>2, <2>4, <2>5, PushPath
  <2>7. LeafInv'
    <3> SUFFICES ASSUME NEW k \in Nat \ {0}, NEW d \in [1..k -> Tasks],
                        SteadyDown(d, k), children[d[k]] = <<>>
                 PROVE  \E j \in 1..k : /\ j <= q + 1 /\ \A m \in 1..j : path'[m] = d[m]
                                        /\ OnWay(d, k, j)' \/ OffWay(d, k, j)'
      BY <1>2, <1>12, <2>4 DEF LeafInv
    <3>1. PICK j \in 1..k : /\ j <= Len(path) /\ \A m \in 1..j : path[m] = d[m]
                            /\ OnWay(d, k, j) \/ OffWay(d, k, j)
      BY <1>3 DEF LeafInv
    <3>2. CASE j < q
      <4>1. OffWay(d, k, j)
        BY <1>5, <3>1, <3>2 DEF OnWay
      <4>2. OffWay(d, k, j)'
        BY <1>5, <1>14, <2>4, <3>2, <4>1
      <4>3. j <= q + 1 /\ \A m \in 1..j : path'[m] = d[m]
        BY <1>5, <2>4, <3>1, <3>2
      <4> QED
        BY <4>2, <4>3
    <3>3. ASSUME q \in 1..(k - 1), path[q] = d[q], \A m \in 1..q : path[m] = d[m],
                 NEW b \in DOMAIN l, l[b] = d[q + 1],
                 (i < b /\ Uncounted(d[k])) \/ (b <= i /\ Once(d[k]))
          PROVE  \E m \in 1..k : /\ m <= q + 1 /\ \A n \in 1..m : path'[n] = d[n]
                                 /\ OnWay(d, k, m)' \/ OffWay(d, k, m)'
      <4>1. b \in Int /\ i \in Int
        BY <1>8, <1>9
      <4>2. CASE b = i + 1
        <5>1. Uncounted(d[k]) /\ d[q + 1] = c
          BY <2>1, <3>3, <4>1, <4>2
        <5>2. OnWay(d, k, q + 1)'
          BY <1>13, <2>4, <2>5, <5>1 DEF OnWay
        <5>3. q + 1 \in 1..k /\ q + 1 <= q + 1 /\ \A n \in 1..(q + 1) : n = q + 1 \/ n \in 1..q
          BY <1>5, <3>3
        <5>4. \A n \in 1..(q + 1) : path'[n] = d[n]
          BY <2>4, <3>3, <5>1, <5>3
        <5> QED
          BY <5>2, <5>3, <5>4
      <4>3. CASE b # i + 1
        <5>1. (i + 1 < b /\ Uncounted(d[k])) \/ (b < i + 1 /\ Once(d[k]))
          BY <3>3, <4>1, <4>3
        <5>2. q < Len(path') /\ q < k /\ q <= q + 1 /\ q \in 1..k
          BY <1>5, <2>4, <3>3
        <5>3. children'[d[q]] = l
          BY <1>2, <1>l, <3>3
        <5>4. OffWay(d, k, q)'
          BY <1>13, <2>1, <2>4, <3>3, <5>1, <5>2, <5>3 DEF OffWay
        <5> QED
          BY <2>4, <3>3, <5>2, <5>4
      <4> QED
        BY <4>2, <4>3
    <3>4. CASE j = q
      <4>1. OffWay(d, k, q) /\ q \in 1..(k - 1) /\ path[q] = d[q]
        BY <1>5, <3>1, <3>4 DEF OnWay, OffWay
      <4>2. PICK a \in DOMAIN l, b \in DOMAIN l :
               /\ l[a] = path[q + 1] /\ l[b] = d[q + 1]
               /\ (a < b /\ Uncounted(d[k])) \/ (b < a /\ Once(d[k]))
        BY <1>l, <4>1 DEF OffWay
      <4>3. a = i
        BY <1>4, <1>5, <1>8, <1>9, <4>2
      <4>4. (i < b /\ Uncounted(d[k])) \/ (b <= i /\ Once(d[k]))
        BY <1>8, <1>9, <4>2, <4>3
      <4> QED
        BY <3>1, <3>3, <3>4, <4>1, <4>2, <4>4
    <3>5. CASE j = q + 1
      <4>1. Once(d[k])
        BY <1>1, <1>5, <3>1, <3>5 DEF OnWay, OffWay
      <4>2. /\ q \in 1..(k - 1) /\ q \in 1..j /\ q + 1 \in 1..j /\ \A m \in 1..q : m \in 1..j
            /\ i <= i
        BY <1>5, <1>9, <3>5
      <4>3. path[q] = d[q] /\ l[i] = d[q + 1] /\ \A m \in 1..q : path[m] = d[m]
        BY <1>4, <1>5, <1>9, <3>1, <4>2
      <4> QED
        BY <2>1, <3>3, <4>1, <4>2, <4>3
    <3>6. j < q \/ j = q \/ j = q + 1
      BY <1>5, <3>1
    <3> QED
      BY <3>2, <3>4, <3>5, <3>6
  <2>8. Places' /\ TreeInv' /\ ClimbInv'
    BY <1>1, <2>4, <2>5, GoPlaces
  <2> QED
    BY <1>11, <2>6, <2>7, <2>8 DEF IInv, WalkInv
<1> QED
  BY <1>15, <1>16

-----------------------------------------------------------------------------
(* The invariant. *)

LEMMA InitInv ==
    ASSUME Init
    PROVE  IInv
<1>1. /\ status = [t \in Tasks |-> IF t = 1 THEN "live" ELSE "none"]
      /\ parent = [t \in Tasks |-> 0] /\ children = [t \in Tasks |-> <<>>]
      /\ weight = [t \in Tasks |-> 0] /\ pc = "idle" /\ current = 1 /\ at = 1 /\ max = 0
      /\ heaviest = 1 /\ path = <<>> /\ sum = 0 /\ counted = <<>> /\ steady = {}
  BY DEF Init
<1>2. Places
  <2>1. TreeTypes
    <3>1. <<>> \in Seq(Tasks)
      OBVIOUS
    <3> QED
      BY <1>1, <3>1, Constants DEF TreeTypes
  <2>2. LocalTypes
    BY <1>1, Constants DEF LocalTypes
  <2>3. TypeOK
    BY <2>1, <2>2, TypesParts
  <2> QED
    BY <1>1, <2>3, Constants DEF Places, Climbing, Walking
<1>3. Acyclic(parent)
  <2> SUFFICES ASSUME NEW n \in Nat \ {0}, NEW s \in [0..n -> Tasks], Chain(parent, s, n)
               PROVE  FALSE
    BY DEF Acyclic
  <2>1. 0 \in 0..(n - 1) /\ 0 \in 0..n /\ 1 \in 0..n /\ 0 + 1 = 1
    OBVIOUS
  <2>2. s[1] = parent[s[0]] /\ s[1] \in Tasks /\ s[0] \in Tasks
    BY <2>1 DEF Chain
  <2> QED
    BY <1>1, <2>2, Constants
<1>4. TreeInv
  BY <1>1, <1>3, Constants DEF TreeInv, InTree, Live
<1>5. ClimbInv /\ WalkInv
  BY <1>1 DEF ClimbInv, WalkInv, Climbing, WalkedOver, Walking
<1> QED
  BY <1>2, <1>4, <1>5 DEF IInv

LEMMA NextInv ==
    ASSUME IInv, [Next]_vars
    PROVE  IInv'
<1>1. TreeTypes /\ TreeInv /\ status[current] = "live"
  BY TypesParts DEF IInv, Places
<1>2. ASSUME NEW p \in Tasks, Fork(p) PROVE IInv'
  BY <1>1, <1>2, ForkTree, MovedStep
<1>3. ASSUME NEW t \in Tasks, Exit(t) PROVE IInv'
  <2>1. t # current \/ current = 1
    BY <1>3 DEF Exit, May, IInv, Places
  <2> QED
    BY <1>1, <1>3, <2>1, ExitTree, MovedStep
<1>4. ASSUME NEW t \in Tasks, Reap(t) PROVE IInv'
  BY <1>1, <1>4, ReapTree, MovedStep
<1>5. ASSUME NEW t \in Tasks, NEW w \in Weights \cup {-1}, set_weight(t, w) PROVE IInv'
  BY <1>1, <1>5, SetWeightTree, MovedStep
<1>6. ASSUME NEW t \in Tasks, GetHeaviestAncestor(t) PROVE IInv'
  BY <1>6, StartClimb
<1>7. ASSUME NEW t \in Tasks, GetLeafChildrenSum(t) PROVE IInv'
  BY <1>7, StartSum
<1>8. CASE Compare \/ Climb \/ Returned
  BY <1>8, CompareStep, ClimbStep, ReturnedStep
<1>9. CASE Enter \/ Add \/ Descend \/ NextChild \/ SumReturned
  BY <1>9, EnterStep, AddStep, DescendStep, NextChildStep, SumReturnedStep
<1>10. CASE LoseAncestor \/ LoseSum \/ Done
  BY <1>10, NoCallStep DEF LoseAncestor, LoseSum, Done, Lose
<1>11. CASE UNCHANGED vars
  <2>1. UNCHANGED <<tree, pc, locals, steady>>
    BY <1>11 DEF vars
  <2>2. /\ UNCHANGED tree /\ pc' = pc /\ current' = current /\ at' = at /\ max' = max
        /\ heaviest' = heaviest /\ path' = path /\ sum' = sum /\ counted' = counted
        /\ steady' = steady
    BY <2>1 DEF locals
  <2>3. status' = status /\ parent' = parent /\ weight' = weight /\ TreeTypes' /\ TreeInv'
    BY <1>1, <2>2, SameTree
  <2>4. Places'
    <3>1. LocalTypes'
      BY <2>2, TypesParts DEF LocalTypes, IInv, Places
    <3>2. TypeOK'
      BY <2>3, <3>1, TypesParts
    <3> QED
      BY <2>2, <2>3, <3>2 DEF IInv, Places, Climbing, Walking
  <2>5. ClimbInv'
    <3>1. \A s, n : SteadyUp(s, n)' <=> SteadyUp(s, n)
      BY <2>2, <2>3 DEF SteadyUp
    <3>2. \A s, i : Seen(s, i)' <=> Seen(s, i)
      BY <2>2, <2>3 DEF Seen
    <3>3. \A s, m : SeenTo(s, m)' <=> SeenTo(s, m)
      BY <2>2, <3>2 DEF SeenTo
    <3> QED
      BY <2>2, <3>1, <3>2, <3>3 DEF IInv, ClimbInv, Climbing
  <2>6. WalkInv'
    <3> SUFFICES ASSUME WalkedOver
                 PROVE  PathInv' /\ LeafInv' /\ SumInv'
      BY <2>2 DEF WalkInv, WalkedOver, Walking
    <3>1. PathInv /\ LeafInv /\ SumInv
      BY DEF IInv, WalkInv
    <3>2. /\ pc = "add" /\ Top \in steady => children[Top] = <<>>
          /\ pc = "first" /\ Top \in steady => children[Top] # <<>>
      BY <3>1 DEF PathInv
    <3> QED
      BY <2>2, <3>1, <3>2, StayPath, StayLeaf, StaySum
  <2> QED
    BY <2>3, <2>4, <2>5, <2>6 DEF IInv
<1> QED
  BY <1>2, <1>3, <1>4, <1>5, <1>6, <1>7, <1>8, <1>9, <1>10, <1>11 DEF Next

LEMMA AlwaysIInv == Spec => []IInv
<1>1. Init => IInv
  BY InitInv
<1>2. IInv /\ [Next]_vars => IInv'
  BY NextInv
<1> QED
  BY <1>1, <1>2, PTL DEF Spec

-----------------------------------------------------------------------------
(* The variables keep their types, the lists and parents of the tasks      *)
(* included.                                                               *)
THEOREM AlwaysTypeOK == Spec => []TypeOK
<1>1. IInv => TypeOK
  BY DEF IInv, Places
<1> QED
  BY <1>1, AlwaysIInv, PTL

LEMMA ChainAncestors ==
    ASSUME parent \in [Tasks -> Tasks \cup {0}], NEW m \in 0..Cardinality(Tasks), NEW s,
           Chain(parent, s, m), NEW i \in 0..m
    PROVE  s[i] \in Ancestors(s[0]) /\ s[m] \in Ancestors(s[i]) /\ s[i] \in Tasks
<1>1. /\ m \in Nat /\ s \in [0..m -> Tasks] /\ 0 \in 0..m /\ m \in i..m /\ i \in 0..m
      /\ i - 0 = i /\ m - i \in 0..Cardinality(Tasks) /\ i \in 0..Cardinality(Tasks)
  BY Constants DEF Chain
<1>2. \E r : Chain(parent, r, i) /\ r[0] = s[0] /\ r[i] = s[i]
  <2> DEFINE r == [j \in 0..(i - 0) |-> s[j + 0]]
  <2>1. Chain(parent, r, i - 0) /\ r[0] = s[0] /\ r[i - 0] = s[i]
    BY <1>1, ChainPart
  <2> HIDE DEF r
  <2> QED
    BY <1>1, <2>1
<1>3. \E r : Chain(parent, r, m - i) /\ r[0] = s[i] /\ r[m - i] = s[m]
  BY ChainTail
<1>4. s[0] \in Tasks /\ s[i] \in Tasks
  BY <1>1
<1> QED
  BY <1>1, <1>2, <1>3, <1>4, AncestorChain

LEMMA WayUp ==
    ASSUME parent \in [Tasks -> Tasks \cup {0}], NEW t \in Tasks, NEW x \in Ancestors(t)
    PROVE  \E m \in 0..Cardinality(Tasks) : \E s : Chain(parent, s, m) /\ s[0] = t /\ s[m] = x
<1>1. CASE x = t
  <2>1. PICK s : Chain(parent, s, 0) /\ s[0] = t
    BY ChainNone
  <2>2. 0 \in 0..Cardinality(Tasks)
    BY Constants
  <2> QED
    BY <1>1, <2>1, <2>2
<1>2. CASE x # t
  BY <1>2, AncestorChain
<1> QED
  BY <1>1, <1>2

LEMMA ClimbIsRight ==
    ASSUME IInv, pc = "returned", path = <<>>
    PROVE  HeaviestIsRight
<1>1. parent \in [Tasks -> Tasks \cup {0}] /\ current \in Tasks /\ heaviest \in Tasks
  BY TypesParts DEF IInv, Places, TreeTypes, LocalTypes
<1> DEFINE Under(t) == {x \in Ancestors(current) : t \in Ancestors(x)}
<1>2. ASSUME NEW t \in Ancestors(current), Unchanged(Under(t))
      PROVE  /\ weight[t] <= max
             /\ weight[t] = max => heaviest \in Under(t) \/ ~Unchanged({heaviest})
  <2>1. PICK m, s :
           m \in 0..Cardinality(Tasks) /\ Chain(parent, s, m) /\ s[0] = current /\ s[m] = t
    BY <1>1, WayUp
  <2>2. m \in Nat /\ m \in 0..m /\ s \in [0..m -> Tasks]
    BY <2>1, Constants DEF Chain
  <2>3. \A i \in 0..m : s[i] \in Under(t)
    BY <1>1, <2>1, ChainAncestors
  <2>4. \A i \in 0..m : s[i] \in steady
    BY <1>2, <2>3 DEF Unchanged
  <2>5. SteadyUp(s, m)
    BY <2>1, <2>4 DEF SteadyUp
  <2>6. \A i \in 0..m : Seen(s, i)
    BY <2>2, <2>5 DEF IInv, ClimbInv
  <2> HIDE DEF Under
  <2>7. Seen(s, m)
    BY <2>2, <2>6
  <2> QED
    BY <2>1, <2>3, <2>7 DEF Seen, Unchanged
<1> QED
  BY <1>2 DEF HeaviestIsRight

(* A way down is no longer than there are tasks. *)
LEMMA WayFits ==
    ASSUME Acyclic(parent), NEW k \in Nat \ {0}, NEW d \in [1..k -> Tasks],
           \A i \in 1..(k - 1) : parent[d[i + 1]] = d[i]
    PROVE  k <= Cardinality(Tasks)
<1>1. IsFiniteSet(1..k) /\ Cardinality(1..k) = k
  BY FS_Interval
<1>2. \A x, y \in 1..k : d[x] = d[y] => x = y
  BY DownDistinct
<1>3. Cardinality(Tasks) \in Nat /\ IsFiniteSet(Tasks)
  BY Constants
<1> SUFFICES ASSUME Cardinality(Tasks) < k PROVE FALSE
  BY <1>3
<1> DEFINE S == 1..k
<1>4. d \in [S -> Tasks] /\ IsFiniteSet(S) /\ Cardinality(Tasks) < Cardinality(S)
      /\ \A x, y \in S : d[x] = d[y] => x = y
  BY <1>1, <1>2
<1> HIDE DEF S
<1>5. \E x, y \in S : x # y /\ d[x] = d[y]
  BY <1>3, <1>4, FS_PigeonHole
<1> QED
  BY <1>4, <1>5

LEMMA LeafOnce ==
    ASSUME IInv, pc = "returned", path # <<>>, NEW t \in Leaves(current),
           Unchanged(Ancestors(t) \ Ancestors(parent[current]))
    PROVE  Once(t)
<1> DEFINE p == parent[current]
<1>1. /\ TreeTypes /\ TreeInv /\ LeafInv /\ Acyclic(parent) /\ current \in Tasks
      /\ parent \in [Tasks -> Tasks \cup {0}] /\ p \in Tasks \cup {0}
  BY TypesParts DEF IInv, Places, WalkInv, WalkedOver, TreeInv, TreeTypes, LocalTypes
<1>2. Len(path) = 1
  BY DEF IInv, Places
<1>3. t \in Tasks /\ InTree(t) /\ children[t] = <<>> /\ current \in Ancestors(t)
  BY DEF Leaves, InTree
<1>4. PICK m, s : m \in 0..Cardinality(Tasks) /\ Chain(parent, s, m) /\ s[0] = t /\ s[m] = current
  BY <1>1, <1>3, WayUp
<1>5. m \in Nat /\ s \in [0..m -> Tasks] /\ \A i \in 0..(m - 1) : s[i + 1] = parent[s[i]]
  BY <1>4, Constants DEF Chain
<1>6. ASSUME NEW i \in 0..m PROVE InTree(s[i])
  <2> DEFINE B == {j \in 0..m : ~InTree(s[j])}
  <2> SUFFICES ASSUME B # {} PROVE FALSE
    OBVIOUS
  <2>1. PICK j \in B : \A h \in B : j <= h
    <3>1. B \in SUBSET Nat
      BY <1>5
    <3> HIDE DEF B
    <3> QED
      BY <3>1, Smallest
  <2>2. j \in 0..m /\ ~InTree(s[j]) /\ j # 0
    BY <1>3, <1>4, <2>1
  <2>3. j - 1 \in 0..(m - 1) /\ (j - 1) + 1 = j /\ j - 1 \in 0..m /\ ~(j <= j - 1)
    BY <1>5, <2>2
  <2>4. InTree(s[j - 1]) /\ s[j - 1] \in Tasks /\ s[j] \in Tasks
    BY <1>5, <2>1, <2>2, <2>3
  <2>5. s[j] = parent[s[j - 1]]
    BY <1>5, <2>3
  <2>6. s[j - 1] # 1
    BY <1>1, <2>4, <2>5, Constants DEF TreeInv
  <2> QED
    BY <1>1, <2>2, <2>4, <2>5, <2>6 DEF TreeInv, InTree, Live
<1>7. ASSUME NEW i \in 0..m PROVE s[i] \in steady
  <2>1. s[i] \in Ancestors(t) /\ s[i] \in Tasks
    BY <1>1, <1>4, ChainAncestors
  <2>2. s[i] \notin Ancestors(p)
    <3> SUFFICES ASSUME s[i] \in Ancestors(p)
                 PROVE  FALSE
      OBVIOUS
    <3>1. CASE p = 0
      <4>1. PICK n, r : n \in 0..Cardinality(Tasks) /\ Chain(parent, r, n) /\ r[0] = p
        BY <1>1, <2>1, <3>1, AncestorChain, Constants
      <4>2. 0 \in 0..n /\ r \in [0..n -> Tasks]
        BY <4>1 DEF Chain
      <4> QED
        BY <3>1, <4>1, <4>2, Constants
    <3>2. CASE p # 0
      <4>1. p \in Tasks
        BY <1>1, <3>2
      <4>2. PICK n, r :
               n \in 0..Cardinality(Tasks) /\ Chain(parent, r, n) /\ r[0] = p /\ r[n] = s[i]
        BY <1>1, <4>1, WayUp
      <4>3. PICK u : Chain(parent, u, 1) /\ u[0] = current /\ u[1] = p
        BY <1>1, <4>1, ChainOne
      <4>4. PICK v : Chain(parent, v, 1 + n) /\ v[0] = current /\ v[1 + n] = s[i]
        <5>1. Chain(parent, r, n) /\ r[0] = p /\ r[n] = s[i]
          BY <4>2
        <5>2. Chain(parent, u, 1) /\ u[1] = r[0]
          BY <4>3, <5>1
        <5>3. \E v : Chain(parent, v, 1 + n) /\ v[0] = u[0] /\ v[1] = u[1] /\ v[1 + n] = r[n]
          BY <5>1, <5>2, ChainJoin
        <5> QED
          BY <4>3, <5>1, <5>3
      <4>5. PICK w : Chain(parent, w, m - i) /\ w[0] = s[i] /\ w[m - i] = current
        BY <1>4, ChainTail
      <4>6. 1 + n # 0
        BY <4>2, Constants
      <4> QED
        BY <1>1, <4>4, <4>5, <4>6, NoRing
    <3> QED
      BY <3>1, <3>2
  <2> QED
    BY <2>1, <2>2 DEF Unchanged
<1>8. PICK k : k = m + 1
  OBVIOUS
<1>9. PICK d : d = [i \in 1..k |-> s[k - i]]
  OBVIOUS
<1>10. /\ k \in Nat \ {0} /\ k - 1 = m /\ k - k = 0 /\ 1 \in 1..k /\ k \in 1..k
       /\ \A i \in 1..k : k - i \in 0..m
       /\ \A i \in 1..(k - 1) : /\ i + 1 \in 1..k /\ i \in 1..k /\ k - (i + 1) \in 0..(m - 1)
                                /\ (k - (i + 1)) + 1 = k - i
  BY <1>5, <1>8
<1>11. d \in [1..k -> Tasks] /\ d[1] = current /\ d[k] = t
  BY <1>4, <1>5, <1>9, <1>10
<1>12. \A i \in 1..k : d[i] \in steady /\ InTree(d[i])
  <2> SUFFICES ASSUME NEW i \in 1..k
               PROVE  d[i] \in steady /\ InTree(d[i])
    OBVIOUS
  <2>1. d[i] = s[k - i] /\ k - i \in 0..m
    BY <1>9, <1>10
  <2> QED
    BY <1>6, <1>7, <2>1
<1>13. \A i \in 1..(k - 1) : parent[d[i + 1]] = d[i]
  <2> SUFFICES ASSUME NEW i \in 1..(k - 1)
               PROVE  parent[d[i + 1]] = d[i]
    OBVIOUS
  <2>1. d[i + 1] = s[k - (i + 1)] /\ d[i] = s[k - i]
    BY <1>9, <1>10
  <2>2. s[(k - (i + 1)) + 1] = parent[s[k - (i + 1)]]
    BY <1>5, <1>10
  <2>3. (k - (i + 1)) + 1 = k - i
    BY <1>10
  <2> QED
    BY <2>1, <2>2, <2>3
<1>14. SteadyDown(d, k) /\ children[d[k]] = <<>>
  BY <1>3, <1>11, <1>12, <1>13 DEF SteadyDown
<1>15. PICK j \in 1..k : j <= 1 /\ (OnWay(d, k, j) \/ OffWay(d, k, j))
  BY <1>1, <1>2, <1>10, <1>11, <1>14 DEF LeafInv
<1>16. OnWay(d, k, j)
  <2>1. ~(j < 1)
    BY <1>10
  <2> QED
    BY <1>2, <1>15, <2>1 DEF OffWay
<1> QED
  BY <1>11, <1>16 DEF OnWay

LEMMA TotalWeight ==
    ASSUME NEW S, IsFiniteSet(S)
    PROVE  MapThenSumSet(LAMBDA t : weight[t], S) = Total(weight, S)
<1> DEFINE j == CHOOSE it : SumsUp(it, weight, S)
<1>1. SumsUp(j, weight, S)
  BY SumsUpExists
<1>2. MapThenSumSet(LAMBDA t : weight[t], S) = j[S]
  BY DEF MapThenSumSet, MapThenFoldSet, Pick, SumsUp
<1> QED
  BY <1>2 DEF Total

LEMMA SumIsRight ==
    ASSUME IInv, pc = "returned", path # <<>>
    PROVE  LeafSumIsRight
<1>1. /\ TreeTypes /\ Acyclic(parent) /\ SumInv /\ counted \in Seq(Tasks)
      /\ parent \in [Tasks -> Tasks \cup {0}] /\ current \in Tasks /\ steady \subseteq Tasks
  BY TypesParts DEF IInv, Places, WalkInv, WalkedOver, TreeInv, TreeTypes, LocalTypes
<1>2. ASSUME NEW t \in Leaves(current), Unchanged(Ancestors(t) \ Ancestors(parent[current]))
      PROVE  Cardinality({i \in DOMAIN counted : counted[i] = t}) = 1
  <2>1. PICK i \in DOMAIN counted : /\ counted[i] = t
                                    /\ \A j \in DOMAIN counted : counted[j] = t => j = i
    BY <1>2, LeafOnce DEF Once
  <2>2. {j \in DOMAIN counted : counted[j] = t} = {i}
    BY <2>1
  <2> QED
    BY <2>2, FS_Singleton
<1>3. ASSUME Unchanged(Tasks)
      PROVE  sum = MapThenSumSet(LAMBDA t : weight[t], Leaves(current)) % Word
  <2>1. steady = Tasks
    BY <1>1, <1>3 DEF Unchanged
  <2>2. ASSUME NEW t \in Leaves(current) PROVE t \in Counted
    <3>1. t \in Tasks
      BY DEF Leaves
    <3>2. Ancestors(t) \ Ancestors(parent[current]) \subseteq Tasks
      <4> SUFFICES ASSUME NEW x \in Ancestors(t)
                   PROVE  x \in Tasks
        OBVIOUS
      <4>1. PICK m, s :
               m \in 0..Cardinality(Tasks) /\ Chain(parent, s, m) /\ s[0] = t /\ s[m] = x
        BY <1>1, <3>1, WayUp
      <4>2. m \in 0..m /\ s \in [0..m -> Tasks]
        BY <4>1, Constants DEF Chain
      <4> QED
        BY <4>1, <4>2
    <3>3. Once(t)
      BY <2>1, <3>2, LeafOnce DEF Unchanged
    <3> QED
      BY <3>3 DEF Once, Counted
  <2>3. ASSUME NEW t \in Counted PROVE t \in Leaves(current)
    <3>1. PICK k \in Nat \ {0} : \E d \in [1..k -> Tasks] : SteadyDown(d, k) /\ d[k] = t
      BY <1>1, <2>1 DEF SumInv
    <3>d. PICK d \in [1..k -> Tasks] : SteadyDown(d, k) /\ d[k] = t
      BY <3>1
    <3>2. children[t] = <<>>
      BY <1>1, <2>1 DEF SumInv
    <3>3. /\ d[1] = current /\ \A i \in 1..(k - 1) : parent[d[i + 1]] = d[i]
          /\ k \in 1..k /\ 1 \in 1..k /\ InTree(t) /\ t \in Tasks
      BY <3>d DEF SteadyDown
    <3>4. PICK s : Chain(parent, s, k - 1) /\ s[0] = t /\ s[k - 1] = current
      <4>1. \E s : Chain(parent, s, k - 1) /\ s[0] = d[k] /\ s[k - 1] = d[1]
        BY <3>3, DownChain
      <4> QED
        BY <3>d, <3>3, <4>1
    <3>5. k <= Cardinality(Tasks)
      BY <1>1, <3>3, WayFits
    <3>6. k - 1 \in 0..Cardinality(Tasks)
      BY <3>5, Constants
    <3>7. current \in Ancestors(t)
      BY <1>1, <3>3, <3>4, <3>6, AncestorChain
    <3> QED
      BY <3>2, <3>3, <3>7 DEF Leaves, InTree
  <2>4. Leaves(current) = Counted
    BY <2>2, <2>3
  <2>5. IsFiniteSet(Leaves(current))
    BY Constants, FS_Subset DEF Leaves
  <2>6. sum = Total(weight, Leaves(current)) % Word
    BY <1>1, <2>1, <2>4 DEF SumInv
  <2>7. MapThenSumSet(LAMBDA t : weight[t], Leaves(current)) = Total(weight, Leaves(current))
    BY <2>5, TotalWeight
  <2> QED
    BY <2>6, <2>7
<1> QED
  BY <1>2, <1>3 DEF LeafSumIsRight

(* A call that does not lose its way returns an answer that is right for   *)
(* the part of the tree that stayed as it was: the heaviest ancestor, or   *)
(* the sum with each leaf once.                                            *)
THEOREM AlwaysAnswersAreRight == Spec => []AnswersAreRight
<1>1. IInv => AnswersAreRight
  <2> SUFFICES ASSUME IInv, pc = "returned"
               PROVE  IF path = <<>> THEN HeaviestIsRight ELSE LeafSumIsRight
    BY DEF AnswersAreRight
  <2>1. path = <<>> => HeaviestIsRight
    BY ClimbIsRight
  <2>2. path # <<>> => LeafSumIsRight
    BY SumIsRight
  <2> QED
    BY <2>1, <2>2
<1> QED
  BY <1>1, AlwaysIInv, PTL
=============================================================================
