-------------------------------- MODULE Sums --------------------------------
(***************************************************************************)
(* Sums over finite sets, as MapThenSumSet defines them: by recursion over *)
(* the subsets of the set, taking out the element that CHOOSE finds.       *)
(* Facts are proved by taking a smallest subset that contradicts them.     *)
(***************************************************************************)
EXTENDS Integers, FiniteSets, TLAPS, FiniteSetTheorems, NaturalsInduction,
        WellFoundedInduction

Pick(S) == CHOOSE x \in S : TRUE

SumsUp(it, f, S) ==
    it = [s \in SUBSET S |-> IF s = {} THEN 0 ELSE f[Pick(s)] + it[s \ {Pick(s)}]]

Total(f, S) == (CHOOSE it : SumsUp(it, f, S))[S]

-----------------------------------------------------------------------------

LEMMA Smallest ==
    ASSUME NEW B \in SUBSET Nat, B # {}
    PROVE  \E n \in B : \A m \in B : n <= m
<1> DEFINE less == OpToRel(<, Nat)
<1>1. PICK n \in B : \A m \in B : ~(<<m, n>> \in less)
  <2>1. IsWellFoundedOn(less, Nat)
    BY NatLessThanWellFounded
  <2> HIDE DEF less
  <2> QED
    BY <2>1, WFMin
<1>2. ASSUME NEW m \in B PROVE n <= m
  <2>1. m < n => <<m, n>> \in less
    BY DEF OpToRel
  <2> HIDE DEF less
  <2> QED
    BY <1>1, <2>1
<1> QED
  BY <1>2

LEMMA SmallestSet ==
    ASSUME NEW S, IsFiniteSet(S), NEW B \in SUBSET SUBSET S, B # {}
    PROVE  \E s \in B : \A t \in B : t \subseteq s => t = s
<1> DEFINE sizes == {n \in Nat : \E s \in B : Cardinality(s) = n}
<1>1. \A s \in B : IsFiniteSet(s) /\ Cardinality(s) \in Nat
  BY FS_Subset, FS_CardinalityType
<1>2. sizes # {} /\ sizes \in SUBSET Nat
  BY <1>1
<1>3. PICK n \in sizes : \A m \in sizes : n <= m
  <2> HIDE DEF sizes
  <2> QED
    BY <1>2, Smallest
<1>4. PICK s \in B : Cardinality(s) = n
  BY <1>3
<1>5. ASSUME NEW t \in B, t \subseteq s, t # s PROVE FALSE
  <2>1. Cardinality(t) \in sizes
    BY <1>1
  <2>2. Cardinality(t) < Cardinality(s)
    BY <1>1, <1>5, FS_Subset
  <2> QED
    BY <1>1, <1>3, <1>4, <2>1, <2>2
<1> QED
  BY <1>5

LEMMA UpTo ==
    ASSUME NEW n \in Nat
    PROVE  IsFiniteSet(1..n) /\ Cardinality(1..n) = n
<1>1. 1 \in Int /\ n \in Int /\ (1 > n => n = 0)
  OBVIOUS
<1> QED
  BY <1>1, FS_Interval

LEMMA PickIn == \A S : S # {} => Pick(S) \in S
BY DEF Pick

LEMMA SumsUpAgree ==
    ASSUME NEW f, NEW S, NEW T, IsFiniteSet(S), NEW i, NEW j,
           SumsUp(i, f, S), SumsUp(j, f, T)
    PROVE  \A s \in SUBSET S : s \subseteq T => i[s] = j[s]
<1> DEFINE B == {s \in SUBSET S : s \subseteq T /\ i[s] # j[s]}
<1> SUFFICES ASSUME B # {} PROVE FALSE
  OBVIOUS
<1>1. PICK s \in B : \A t \in B : t \subseteq s => t = s
  <2>1. B \in SUBSET SUBSET S
    OBVIOUS
  <2> HIDE DEF B
  <2> QED
    BY <2>1, SmallestSet
<1>2. /\ i[s] = IF s = {} THEN 0 ELSE f[Pick(s)] + i[s \ {Pick(s)}]
      /\ j[s] = IF s = {} THEN 0 ELSE f[Pick(s)] + j[s \ {Pick(s)}]
  BY <1>1 DEF SumsUp
<1>3. s # {}
  BY <1>1, <1>2
<1>4. s \ {Pick(s)} # s
  BY <1>3, PickIn
<1>5. i[s \ {Pick(s)}] = j[s \ {Pick(s)}]
  BY <1>1, <1>4
<1> QED
  BY <1>1, <1>2, <1>5

LEMMA SumsUpExists ==
    ASSUME NEW f, NEW S, IsFiniteSet(S)
    PROVE  \E it : SumsUp(it, f, S)
<1> DEFINE B == {s \in SUBSET S : ~\E it : SumsUp(it, f, s)}
<1> SUFFICES ASSUME B # {} PROVE FALSE
  OBVIOUS
<1>1. PICK T \in B : \A t \in B : t \subseteq T => t = T
  <2>1. B \in SUBSET SUBSET S
    OBVIOUS
  <2> HIDE DEF B
  <2> QED
    BY <2>1, SmallestSet
<1> DEFINE it == [s \in SUBSET T |-> IF s = {} THEN 0 ELSE f[Pick(s)] + Total(f, s \ {Pick(s)})]
<1>2. ASSUME NEW s \in SUBSET T, s # T PROVE Total(f, s) = it[s]
  <2> DEFINE j == CHOOSE it_1 : SumsUp(it_1, f, s)
             u == s \ {Pick(s)}
             k == CHOOSE it_1 : SumsUp(it_1, f, u)
  <2>1. SumsUp(j, f, s)
    BY <1>1, <1>2
  <2>2. CASE s = {}
    BY <2>1, <2>2 DEF Total, SumsUp
  <2>3. CASE s # {}
    <3>1. SumsUp(k, f, u)
      <4>1. u \in SUBSET S /\ u \subseteq T /\ u # T
        BY <1>2, <1>1
      <4>2. \E it_1 : SumsUp(it_1, f, u)
        BY <1>1, <4>1
      <4> QED
        BY <4>2
    <3>2. j[s] = f[Pick(s)] + j[u]
      BY <2>1, <2>3 DEF SumsUp
    <3>3. j[u] = k[u]
      <4>1. IsFiniteSet(s) /\ u \in SUBSET s
        BY FS_Subset
      <4> HIDE DEF j, k, u
      <4> QED
        BY <2>1, <3>1, <4>1, SumsUpAgree
    <3>4. j[s] = Total(f, s) /\ k[u] = Total(f, u)
      BY DEF Total
    <3> HIDE DEF j, k
    <3> QED
      BY <2>3, <3>2, <3>3, <3>4
  <2> QED
    BY <2>2, <2>3
<1>3. ASSUME NEW s \in SUBSET T
      PROVE  it[s] = IF s = {} THEN 0 ELSE f[Pick(s)] + it[s \ {Pick(s)}]
  <2>1. CASE s = {}
    BY <2>1
  <2>2. CASE s # {}
    <3>1. s \ {Pick(s)} # T /\ s \ {Pick(s)} \in SUBSET T
      BY <2>2, PickIn
    <3>2. it[s] = f[Pick(s)] + Total(f, s \ {Pick(s)})
      BY <2>2
    <3> HIDE DEF it
    <3> QED
      BY <1>2, <2>2, <3>1, <3>2
  <2> QED
    BY <2>1, <2>2
<1>4. SumsUp(it, f, T)
  <2>1. it = [s \in SUBSET T |-> it[s]]
    OBVIOUS
  <2> HIDE DEF it
  <2> QED
    BY <1>3, <2>1 DEF SumsUp
<1> QED
  BY <1>1, <1>4

(* Any iteration that satisfies the recursion computes the sum. *)
LEMMA TotalIs ==
    ASSUME NEW f, NEW S, IsFiniteSet(S), NEW it, SumsUp(it, f, S), NEW T \in SUBSET S
    PROVE  it[T] = Total(f, T)
<1> DEFINE j == CHOOSE it_1 : SumsUp(it_1, f, T)
<1>1. IsFiniteSet(T)
  BY FS_Subset
<1>2. SumsUp(j, f, T)
  BY <1>1, SumsUpExists
<1> HIDE DEF j
<1>3. it[T] = j[T]
  BY <1>2, SumsUpAgree
<1> QED
  BY <1>3 DEF Total, j

LEMMA TotalStep ==
    ASSUME NEW f, NEW S, IsFiniteSet(S)
    PROVE  Total(f, S) = IF S = {} THEN 0 ELSE f[Pick(S)] + Total(f, S \ {Pick(S)})
<1>1. PICK it : SumsUp(it, f, S)
  BY SumsUpExists
<1>2. it[S] = IF S = {} THEN 0 ELSE f[Pick(S)] + it[S \ {Pick(S)}]
  BY <1>1 DEF SumsUp
<1>3. \A T \in SUBSET S : it[T] = Total(f, T)
  BY <1>1, TotalIs
<1>4. S \in SUBSET S /\ S \ {Pick(S)} \in SUBSET S
  OBVIOUS
<1> QED
  BY <1>2, <1>3, <1>4

LEMMA TotalEmpty == \A f, S : S = {} => Total(f, S) = 0
BY FS_EmptySet, TotalStep

LEMMA TotalNat ==
    ASSUME NEW f, NEW S, IsFiniteSet(S), \A x \in S : f[x] \in Nat
    PROVE  Total(f, S) \in Nat
<1> DEFINE B == {s \in SUBSET S : Total(f, s) \notin Nat}
<1> SUFFICES ASSUME B # {} PROVE FALSE
  OBVIOUS
<1>1. PICK s \in B : \A t \in B : t \subseteq s => t = s
  <2>1. B \in SUBSET SUBSET S
    OBVIOUS
  <2> HIDE DEF B
  <2> QED
    BY <2>1, SmallestSet
<1>2. s # {}
  BY <1>1, TotalEmpty
<1>6. Pick(s) \in S
  BY <1>1, <1>2, PickIn
<1>3. Total(f, s) = f[Pick(s)] + Total(f, s \ {Pick(s)})
  BY <1>1, <1>2, FS_Subset, TotalStep
<1>4. s \ {Pick(s)} # s
  BY <1>2, PickIn
<1>5. Total(f, s \ {Pick(s)}) \in Nat
  BY <1>1, <1>4
<1> QED
  BY <1>1, <1>3, <1>5, <1>6

(* The sum does not depend on the order. *)
LEMMA TotalRemove ==
    ASSUME NEW f, NEW S, IsFiniteSet(S), \A x \in S : f[x] \in Nat, NEW x \in S
    PROVE  Total(f, S) = f[x] + Total(f, S \ {x})
<1> DEFINE B == {s \in SUBSET S : \E y \in s : Total(f, s) # f[y] + Total(f, s \ {y})}
<1> SUFFICES ASSUME B # {} PROVE FALSE
  OBVIOUS
<1>1. PICK s \in B : \A t \in B : t \subseteq s => t = s
  <2>1. B \in SUBSET SUBSET S
    OBVIOUS
  <2> HIDE DEF B
  <2> QED
    BY <2>1, SmallestSet
<1>2. PICK y \in s : Total(f, s) # f[y] + Total(f, s \ {y})
  BY <1>1
<1> DEFINE p == Pick(s)
           sp == s \ {p}
           sy == s \ {y}
           spy == s \ {p, y}
<1>3. s \in SUBSET S /\ p \in s /\ IsFiniteSet(s)
  BY <1>1, FS_Subset, PickIn
<1>4. Total(f, s) = f[p] + Total(f, sp)
  BY <1>3, TotalStep
<1>5. p # y
  BY <1>2, <1>4
<1>6. sp \notin B /\ sy \notin B
  BY <1>1, <1>3
<1>7. Total(f, sp) = f[y] + Total(f, sp \ {y})
  <2>1. y \in sp /\ sp \in SUBSET S
    BY <1>3, <1>5
  <2> QED
    BY <1>6, <2>1
<1>8. Total(f, sy) = f[p] + Total(f, sy \ {p})
  <2>1. p \in sy /\ sy \in SUBSET S
    BY <1>3, <1>5
  <2> QED
    BY <1>6, <2>1
<1>9. sp \ {y} = spy /\ sy \ {p} = spy
  OBVIOUS
<1>10. Total(f, spy) \in Nat /\ f[p] \in Nat /\ f[y] \in Nat
  <2>1. IsFiniteSet(spy) /\ \A z \in spy : f[z] \in Nat
    BY <1>3, FS_Subset
  <2> QED
    BY <1>3, <2>1, TotalNat
<1>11. Total(f, s) # f[y] + Total(f, sy)
  BY <1>2
<1> HIDE DEF p, sp, sy, spy
<1> QED
  BY <1>4, <1>7, <1>8, <1>9, <1>10, <1>11

(* One element more. *)
LEMMA TotalAdd ==
    ASSUME NEW f, NEW S, IsFiniteSet(S), NEW x, x \notin S,
           \A y \in S \cup {x} : f[y] \in Nat
    PROVE  Total(f, S \cup {x}) = f[x] + Total(f, S)
<1> DEFINE T == S \cup {x}
<1>1. IsFiniteSet(T) /\ x \in T /\ T \ {x} = S
  BY FS_AddElement
<1>2. \A y \in T : f[y] \in Nat
  OBVIOUS
<1> HIDE DEF T
<1>3. Total(f, T) = f[x] + Total(f, T \ {x})
  BY <1>1, <1>2, TotalRemove
<1> QED
  BY <1>1, <1>3 DEF T

(* Functions that agree have the same sum. *)
LEMMA TotalSame ==
    ASSUME NEW f, NEW g, NEW S, IsFiniteSet(S), \A x \in S : f[x] = g[x]
    PROVE  Total(f, S) = Total(g, S)
<1> DEFINE B == {s \in SUBSET S : Total(f, s) # Total(g, s)}
<1> SUFFICES ASSUME B # {} PROVE FALSE
  OBVIOUS
<1>1. PICK s \in B : \A t \in B : t \subseteq s => t = s
  <2>1. B \in SUBSET SUBSET S
    OBVIOUS
  <2> HIDE DEF B
  <2> QED
    BY <2>1, SmallestSet
<1>2. s # {} /\ Pick(s) \in s /\ s \in SUBSET S /\ IsFiniteSet(s)
  BY <1>1, TotalEmpty, PickIn, FS_Subset
<1>3. /\ Total(f, s) = f[Pick(s)] + Total(f, s \ {Pick(s)})
      /\ Total(g, s) = g[Pick(s)] + Total(g, s \ {Pick(s)})
  BY <1>2, TotalStep
<1>4. Total(f, s \ {Pick(s)}) = Total(g, s \ {Pick(s)})
  BY <1>1, <1>2
<1> QED
  BY <1>1, <1>2, <1>3, <1>4

(* A larger set has a greater sum, and so has a greater function. *)
LEMMA TotalMonotone ==
    ASSUME NEW f, NEW g, NEW S, IsFiniteSet(S),
           \A x \in S : f[x] \in Nat /\ g[x] \in Nat /\ f[x] <= g[x]
    PROVE  Total(f, S) <= Total(g, S)
<1> DEFINE B == {s \in SUBSET S : ~(Total(f, s) <= Total(g, s))}
<1> SUFFICES ASSUME B # {} PROVE FALSE
  OBVIOUS
<1>1. PICK s \in B : \A t \in B : t \subseteq s => t = s
  <2>1. B \in SUBSET SUBSET S
    OBVIOUS
  <2> HIDE DEF B
  <2> QED
    BY <2>1, SmallestSet
<1>2. s # {} /\ Pick(s) \in s /\ s \in SUBSET S /\ IsFiniteSet(s)
  <2>1. s = {} => Total(f, s) = 0 /\ Total(g, s) = 0
    BY TotalEmpty
  <2>2. s # {}
    BY <1>1, <2>1
  <2> QED
    BY <1>1, <2>2, PickIn, FS_Subset
<1> DEFINE u == s \ {Pick(s)}
<1>3. Total(f, s) = f[Pick(s)] + Total(f, u) /\ Total(g, s) = g[Pick(s)] + Total(g, u)
  BY <1>2, TotalStep
<1>4. Total(f, u) <= Total(g, u) /\ IsFiniteSet(u)
  BY <1>1, <1>2, FS_Subset
<1>5. Total(f, u) \in Nat /\ Total(g, u) \in Nat
  BY <1>2, <1>4, TotalNat
<1> HIDE DEF u
<1> QED
  BY <1>1, <1>2, <1>3, <1>4, <1>5

(* The sum of two disjoint sets. *)
LEMMA TotalUnion ==
    ASSUME NEW f, NEW S, NEW T, IsFiniteSet(S), IsFiniteSet(T), S \cap T = {},
           \A x \in S \cup T : f[x] \in Nat
    PROVE  Total(f, S \cup T) = Total(f, S) + Total(f, T)
<1> DEFINE B == {s \in SUBSET S : Total(f, s \cup T) # Total(f, s) + Total(f, T)}
<1> SUFFICES ASSUME B # {} PROVE FALSE
  OBVIOUS
<1>1. PICK s \in B : \A t \in B : t \subseteq s => t = s
  <2>1. B \in SUBSET SUBSET S
    OBVIOUS
  <2> HIDE DEF B
  <2> QED
    BY <2>1, SmallestSet
<1>2. Total(f, T) \in Nat
  BY TotalNat
<1>3. s # {}
  <2> DEFINE W == s \cup T
  <2>1. s = {} => Total(f, s) = 0 /\ W = T
    BY TotalEmpty
  <2>2. Total(f, W) # Total(f, s) + Total(f, T)
    BY <1>1
  <2> HIDE DEF W
  <2> QED
    BY <1>2, <2>1, <2>2
<1>4. PICK x \in s : TRUE
  BY <1>3
<1> DEFINE u == s \ {x}
<1>5. x \in S /\ x \notin T /\ IsFiniteSet(s) /\ IsFiniteSet(u)
  BY <1>1, <1>4, FS_Subset
<1>6. Total(f, u \cup T) = Total(f, u) + Total(f, T)
  BY <1>1, <1>4
<1>7. Total(f, s) = f[x] + Total(f, u)
  BY <1>1, <1>4, <1>5, TotalRemove
<1>8. Total(f, s \cup T) = f[x] + Total(f, u \cup T)
  <2>1. IsFiniteSet(s \cup T) /\ x \in s \cup T /\ (s \cup T) \ {x} = u \cup T
    BY <1>4, <1>5, FS_Union
  <2>2. \A y \in s \cup T : f[y] \in Nat
    BY <1>1
  <2> DEFINE W == s \cup T
  <2> HIDE DEF W
  <2>3. Total(f, W) = f[x] + Total(f, W \ {x})
    BY <2>1, <2>2, TotalRemove DEF W
  <2> QED
    BY <2>1, <2>3 DEF W
<1>9. Total(f, u) \in Nat /\ f[x] \in Nat
  BY <1>1, <1>5, TotalNat
<1> HIDE DEF u
<1> QED
  BY <1>1, <1>2, <1>6, <1>7, <1>8, <1>9

(* A sum, element by element at most what a part of another sum is. *)
LEMMA TotalInject ==
    ASSUME NEW f, NEW h, NEW S, NEW T, NEW g, IsFiniteSet(S), IsFiniteSet(T),
           \A y \in T : h[y] \in Nat,
           \A x \in S : f[x] \in Nat /\ g[x] \in T /\ f[x] <= h[g[x]],
           \A x, y \in S : g[x] = g[y] => x = y
    PROVE  Total(f, S) <= Total(h, T)
<1> DEFINE B == {s \in SUBSET S :
                   \E t \in SUBSET T : /\ \A x \in s : g[x] \in t
                                       /\ ~(Total(f, s) <= Total(h, t))}
<1>1. SUFFICES ASSUME B # {} PROVE FALSE
  <2>1. S \in SUBSET S /\ T \in SUBSET T
    OBVIOUS
  <2> QED
    BY <2>1
<1>2. PICK s \in B : \A u \in B : u \subseteq s => u = s
  <2>1. B \in SUBSET SUBSET S
    OBVIOUS
  <2> HIDE DEF B
  <2> QED
    BY <1>1, <2>1, SmallestSet
<1>3. PICK t \in SUBSET T : (\A x \in s : g[x] \in t) /\ ~(Total(f, s) <= Total(h, t))
  BY <1>2
<1>4. IsFiniteSet(s) /\ IsFiniteSet(t) /\ s \in SUBSET S
  BY <1>2, FS_Subset
<1>5. Total(h, t) \in Nat
  BY <1>4, TotalNat
<1>6. s # {}
  <2>1. s = {} => Total(f, s) = 0
    BY TotalEmpty
  <2> QED
    BY <1>3, <1>5, <2>1
<1>7. PICK x \in s : TRUE
  BY <1>6
<1> DEFINE u == s \ {x}
           v == t \ {g[x]}
<1>8. Total(f, s) = f[x] + Total(f, u)
  BY <1>4, TotalRemove
<1>9. Total(h, t) = h[g[x]] + Total(h, v)
  <2>1. g[x] \in t /\ \A y \in t : h[y] \in Nat
    BY <1>3
  <2> QED
    BY <1>4, <2>1, TotalRemove
<1>10. Total(f, u) <= Total(h, v)
  <2>1. v \in SUBSET T /\ \A y \in u : g[y] \in v
    BY <1>3, <1>4
  <2>2. u \notin B /\ u \in SUBSET S
    BY <1>2, <1>4
  <2> QED
    BY <2>1, <2>2
<1>11. Total(f, u) \in Nat /\ Total(h, v) \in Nat
  <2>1. IsFiniteSet(u) /\ IsFiniteSet(v)
    BY <1>4, FS_Subset
  <2>2. \A y \in u : f[y] \in Nat
    BY <1>4
  <2>3. \A y \in v : h[y] \in Nat
    OBVIOUS
  <2> QED
    BY <2>1, <2>2, <2>3, TotalNat
<1>12. f[x] \in Nat /\ h[g[x]] \in Nat /\ f[x] <= h[g[x]] /\ ~(Total(f, s) <= Total(h, t))
  BY <1>3, <1>4
<1> HIDE DEF u, v
<1> QED
  BY <1>8, <1>9, <1>10, <1>11, <1>12
=============================================================================
