--------------------------- MODULE JobsListProofs ---------------------------
(***************************************************************************)
(* The vector of jobs, for any pids and any number of jobs: it is always   *)
(* strictly sorted, so back() has the greatest id and std::sort is defined *)
(* on it, and it implements the table that the rest of the shell relies on.*)
(***************************************************************************)
EXTENDS JobsList, SequenceTheorems, TLAPS

Entries == [job_id : 1..MaxJobId, p_id : Pids]

Strict(v) == \A a, b \in DOMAIN v : a < b => v[a].job_id < v[b].job_id

(* What a call must drop is behind the iterator: when one entry is kept    *)
(* the child was alive, and after an erase the loop begins again.          *)
DueAhead ==
    /\ pc # "loop" => due = {}
    /\ \A i \in DOMAIN jobs :
          jobs[i].job_id \in due => Ended(jobs[i].p_id) /\ iterator <= i

(* A call of addJob began with an id left for its entry. *)
Reserved ==
    /\ pc = "idle" <=> (adding = 0 /\ pc # "loop")
    /\ adding # 0 => \A i \in DOMAIN jobs : jobs[i].job_id < MaxJobId

Inv == TypeOK /\ StrictlySorted /\ DueAhead /\ Reserved

USE JobsListAssumption

-----------------------------------------------------------------------------
(* Sequences. *)

(* A function on 1..n is a sequence of n. *)
LEMMA IsSeq ==
    ASSUME NEW S, NEW n \in Nat, NEW f \in [1..n -> S]
    PROVE  f \in Seq(S) /\ Len(f) = n
<1>1. f \in Seq(S)
  BY SeqDef
<1> QED
  BY <1>1, LenProperties

LEMMA Removed ==
    ASSUME NEW S, NEW v \in Seq(S), NEW i \in 1..Len(v)
    PROVE  /\ RemoveAt(v, i) \in Seq(S)
           /\ Len(RemoveAt(v, i)) = Len(v) - 1
           /\ \A k \in 1..(Len(v) - 1) :
                 RemoveAt(v, i)[k] = IF k < i THEN v[k] ELSE v[k + 1]
<1> DEFINE l == SubSeq(v, 1, i - 1)
           r == SubSeq(v, i + 1, Len(v))
<1>1. Len(v) \in Nat
  BY LenProperties
<1>2. l \in Seq(S) /\ Len(l) = i - 1 /\ \A k \in 1..(i - 1) : l[k] = v[k]
  BY <1>1
<1>3. r \in Seq(S) /\ Len(r) = Len(v) - i /\ \A k \in 1..(Len(v) - i) : r[k] = v[i + k]
  BY <1>1
<1>4. /\ l \o r \in Seq(S) /\ Len(l \o r) = Len(v) - 1
      /\ \A k \in 1..(Len(v) - 1) : (l \o r)[k] = IF k < i THEN l[k] ELSE r[k - i + 1]
  <2> HIDE DEF l, r
  <2>1. /\ l \o r \in Seq(S) /\ Len(l \o r) = Len(l) + Len(r)
        /\ \A k \in 1..(Len(l) + Len(r)) :
              (l \o r)[k] = IF k <= Len(l) THEN l[k] ELSE r[k - Len(l)]
    BY <1>2, <1>3, ConcatProperties
  <2>2. i \in Int /\ Len(l) + Len(r) = Len(v) - 1
    BY <1>1, <1>2, <1>3
  <2>3. \A k \in Int : k - (i - 1) = k - i + 1 /\ (k <= i - 1 <=> k < i)
    BY <2>2
  <2> QED
    BY <1>1, <1>2, <2>1, <2>2, <2>3
<1>5. ASSUME NEW k \in 1..(Len(v) - 1)
      PROVE  (l \o r)[k] = IF k < i THEN v[k] ELSE v[k + 1]
  <2>1. CASE k < i
    <3>1. k \in 1..(i - 1)
      BY <1>1, <2>1
    <3> HIDE DEF l, r
    <3> QED
      BY <1>2, <1>4, <2>1, <3>1
  <2>2. CASE ~(k < i)
    <3>1. k - i + 1 \in 1..(Len(v) - i) /\ i + (k - i + 1) = k + 1
      BY <1>1, <2>2
    <3> HIDE DEF l, r
    <3> QED
      BY <1>3, <1>4, <2>2, <3>1
  <2> QED
    BY <2>1, <2>2
<1> QED
  BY <1>4, <1>5 DEF RemoveAt

LEMMA DifferentIds ==
    ASSUME NEW v \in Seq(Entries), Strict(v), NEW a \in DOMAIN v, NEW b \in DOMAIN v, a # b
    PROVE  v[a].job_id # v[b].job_id
<1>1. a \in Nat /\ b \in Nat /\ v[a] \in Entries /\ v[b] \in Entries
  BY LenProperties
<1>2. v[a].job_id \in Int /\ v[b].job_id \in Int
  BY <1>1 DEF Entries
<1>3. v[a].job_id < v[b].job_id \/ v[b].job_id < v[a].job_id
  <2>1. a < b \/ b < a
    BY <1>1
  <2> QED
    BY <2>1 DEF Strict
<1> QED
  BY <1>2, <1>3

(* sort on a vector that is strictly sorted: whichever of the orders that  *)
(* fit is chosen, the entries and the order are the same.                  *)
LEMMA SortKeeps ==
    ASSUME NEW v \in Seq(Entries), Strict(v)
    PROVE  /\ sort(v) \in Seq(Entries) /\ Strict(sort(v))
           /\ Len(sort(v)) = Len(v)
           /\ \A i \in DOMAIN v : \E k \in DOMAIN v : sort(v)[i] = v[k]
           /\ \A k \in DOMAIN v : \E i \in DOMAIN v : sort(v)[i] = v[k]
<1> DEFINE D == DOMAIN v
           Fits(p) == \A a, b \in D : a < b => v[p[a]].job_id <= v[p[b]].job_id
           order == CHOOSE p \in Bijection(D, D) : Fits(p)
<1>1. D = 1..Len(v) /\ Len(v) \in Nat /\ \A k \in D : v[k] \in Entries
  BY LenProperties
<1>2. [i \in D |-> i] \in Bijection(D, D) /\ Fits([i \in D |-> i])
  <2>1. [i \in D |-> i] \in Bijection(D, D)
    BY DEF Bijection, Injection, Surjection, IsInjective
  <2>2. \A a, b \in D : v[a].job_id < v[b].job_id => v[a].job_id <= v[b].job_id
    BY <1>1 DEF Entries
  <2> QED
    BY <2>1, <2>2 DEF Strict
<1>3. order \in Bijection(D, D) /\ Fits(order)
  BY <1>2
<1> HIDE DEF order
<1>4. /\ order \in [D -> D]
      /\ \A a, b \in D : order[a] = order[b] => a = b
      /\ \A k \in D : \E i \in D : order[i] = k
  BY <1>3 DEF Bijection, Injection, Surjection, IsInjective
<1>5. sort(v) = [i \in D |-> v[order[i]]]
  BY DEF sort, order
<1>6. sort(v) \in Seq(Entries) /\ Len(sort(v)) = Len(v)
  <2>1. sort(v) \in [1..Len(v) -> Entries]
    BY <1>1, <1>4, <1>5
  <2> QED
    BY <1>1, <2>1, IsSeq
<1>7. Strict(sort(v))
  <2> SUFFICES ASSUME NEW a \in D, NEW b \in D, a < b
               PROVE  sort(v)[a].job_id < sort(v)[b].job_id
    BY <1>5 DEF Strict
  <2>1. order[a] \in D /\ order[b] \in D /\ order[a] # order[b]
    <3>1. a # b
      BY <1>1
    <3> QED
      BY <1>4, <3>1
  <2>2. v[order[a]].job_id # v[order[b]].job_id
    BY <2>1, DifferentIds
  <2>3. v[order[a]].job_id <= v[order[b]].job_id
    BY <1>3
  <2>4. v[order[a]].job_id \in Nat /\ v[order[b]].job_id \in Nat
    BY <1>1, <2>1 DEF Entries
  <2> QED
    BY <1>5, <2>2, <2>3, <2>4
<1> QED
  BY <1>4, <1>5, <1>6, <1>7

-----------------------------------------------------------------------------
(* The table that a vector stands for. *)

TableOf(v) ==
    [id \in {v[i].job_id : i \in DOMAIN v} |->
        v[CHOOSE i \in DOMAIN v : v[i].job_id = id].p_id]

LEMMA Entry ==
    ASSUME NEW v \in Seq(Entries), Strict(v), NEW i \in DOMAIN v
    PROVE  /\ v[i] \in Entries
           /\ v[i].job_id \in DOMAIN TableOf(v)
           /\ TableOf(v)[v[i].job_id] = v[i].p_id
<1>1. v[i] \in Entries
  BY LenProperties
<1>2. \A k \in DOMAIN v : v[k].job_id = v[i].job_id => k = i
  BY DifferentIds
<1>3. (CHOOSE k \in DOMAIN v : v[k].job_id = v[i].job_id) = i
  BY <1>2
<1>4. v[i].job_id \in DOMAIN TableOf(v)
  BY DEF TableOf
<1>5. TableOf(v)[v[i].job_id] = v[CHOOSE k \in DOMAIN v : v[k].job_id = v[i].job_id].p_id
  BY <1>4 DEF TableOf
<1> QED
  BY <1>1, <1>3, <1>4, <1>5

(* Vectors with the same entries stand for the same table. *)
LEMMA SameTable ==
    ASSUME NEW v \in Seq(Entries), NEW w \in Seq(Entries), Strict(v), Strict(w),
           \A i \in DOMAIN v : \E k \in DOMAIN w : v[i] = w[k],
           \A k \in DOMAIN w : \E i \in DOMAIN v : v[i] = w[k]
    PROVE  TableOf(v) = TableOf(w)
<1>1. DOMAIN TableOf(v) = DOMAIN TableOf(w)
  BY DEF TableOf
<1>2. ASSUME NEW id \in DOMAIN TableOf(v) PROVE TableOf(v)[id] = TableOf(w)[id]
  <2>1. PICK i \in DOMAIN v : v[i].job_id = id
    BY DEF TableOf
  <2>2. PICK k \in DOMAIN w : v[i] = w[k]
    OBVIOUS
  <2> QED
    BY <2>1, <2>2, Entry
<1>3. TableOf(v) = [id \in DOMAIN TableOf(v) |-> TableOf(v)[id]]
      /\ TableOf(w) = [id \in DOMAIN TableOf(w) |-> TableOf(w)[id]]
  BY DEF TableOf
<1> QED
  BY <1>1, <1>2, <1>3

LEMMA SortedTable ==
    ASSUME NEW v \in Seq(Entries), Strict(v)
    PROVE  TableOf(sort(v)) = TableOf(v)
<1>1. /\ sort(v) \in Seq(Entries) /\ Strict(sort(v)) /\ Len(sort(v)) = Len(v)
      /\ \A i \in DOMAIN v : \E k \in DOMAIN v : sort(v)[i] = v[k]
      /\ \A k \in DOMAIN v : \E i \in DOMAIN v : sort(v)[i] = v[k]
  BY SortKeeps
<1>2. DOMAIN sort(v) = DOMAIN v
  BY <1>1
<1> QED
  BY <1>1, <1>2, SameTable

-----------------------------------------------------------------------------
(* The invariant. *)

LEMMA InitInv == Init => Inv
<1> SUFFICES ASSUME Init PROVE Inv
  OBVIOUS
<1>1. jobs \in Seq(Entries) /\ Len(jobs) = 0 /\ DOMAIN jobs = {}
  BY EmptySeq DEF Init
<1> QED
  BY <1>1 DEF Init, Inv, TypeOK, StrictlySorted, DueAhead, Reserved, Entries

LEMMA Facts ==
    ASSUME Inv
    PROVE  /\ jobs \in Seq(Entries) /\ Strict(jobs) /\ Len(jobs) \in Nat
           /\ DOMAIN jobs = 1..Len(jobs)
           /\ \A i \in 1..Len(jobs) : jobs[i].job_id \in 1..MaxJobId /\ jobs[i].p_id \in Pids
<1>1. jobs \in Seq(Entries) /\ Strict(jobs)
  BY DEF Inv, TypeOK, StrictlySorted, Strict, Entries
<1>2. Len(jobs) \in Nat /\ DOMAIN jobs = 1..Len(jobs) /\ \A i \in 1..Len(jobs) : jobs[i] \in Entries
  BY <1>1, LenProperties
<1> QED
  BY <1>1, <1>2 DEF Entries

(* An entry is erased and the loop begins again. *)
LEMMA ErasedVector ==
    ASSUME Inv, Erase
    PROVE  /\ jobs' \in Seq(Entries) /\ Strict(jobs') /\ Len(jobs') = Len(jobs) - 1
           /\ iterator \in 1..Len(jobs)
           /\ \A i \in DOMAIN jobs' : \E k \in DOMAIN jobs : k # iterator /\ jobs'[i] = jobs[k]
           /\ \A k \in DOMAIN jobs : k # iterator => \E i \in DOMAIN jobs' : jobs'[i] = jobs[k]
<1>1. /\ jobs \in Seq(Entries) /\ Strict(jobs) /\ Len(jobs) \in Nat
      /\ DOMAIN jobs = 1..Len(jobs) /\ iterator \in 1..Len(jobs)
  BY Facts DEF Erase, Inv, TypeOK
<1>2. /\ jobs' \in Seq(Entries) /\ Len(jobs') = Len(jobs) - 1
      /\ \A k \in 1..(Len(jobs) - 1) :
            jobs'[k] = IF k < iterator THEN jobs[k] ELSE jobs[k + 1]
  BY <1>1, Removed DEF Erase
<1>3. DOMAIN jobs' = 1..(Len(jobs) - 1)
  BY <1>2
<1>4. Strict(jobs')
  <2> SUFFICES ASSUME NEW a \in 1..(Len(jobs) - 1), NEW b \in 1..(Len(jobs) - 1), a < b
               PROVE  jobs'[a].job_id < jobs'[b].job_id
    BY <1>3 DEF Strict
  <2>1. PICK x \in DOMAIN jobs : jobs'[a] = jobs[x] /\ (IF a < iterator THEN x = a ELSE x = a + 1)
    BY <1>1, <1>2
  <2>2. PICK y \in DOMAIN jobs : jobs'[b] = jobs[y] /\ (IF b < iterator THEN y = b ELSE y = b + 1)
    BY <1>1, <1>2
  <2>3. x < y
    BY <1>1, <2>1, <2>2
  <2> QED
    BY <1>1, <2>1, <2>2, <2>3 DEF Strict
<1>5. \A i \in DOMAIN jobs' : \E k \in DOMAIN jobs : k # iterator /\ jobs'[i] = jobs[k]
  BY <1>1, <1>2, <1>3
<1>6. ASSUME NEW k \in DOMAIN jobs, k # iterator
      PROVE  \E i \in DOMAIN jobs' : jobs'[i] = jobs[k]
  <2>1. CASE k < iterator
    <3>1. k \in 1..(Len(jobs) - 1)
      BY <1>1, <2>1
    <3> QED
      BY <1>2, <1>3, <2>1, <3>1
  <2>2. CASE k > iterator
    <3>1. k - 1 \in 1..(Len(jobs) - 1) /\ ~(k - 1 < iterator) /\ k - 1 + 1 = k
      BY <1>1, <2>2
    <3> QED
      BY <1>2, <1>3, <3>1
  <2> QED
    BY <1>1, <1>6, <2>1, <2>2
<1> QED
  BY <1>1, <1>2, <1>4, <1>5, <1>6

(* The vector that addJob hands to sort. *)
New == Append(jobs, [job_id |-> NextId, p_id |-> adding])

LEMMA NewVector ==
    ASSUME Inv, pc = "insert"
    PROVE  /\ New \in Seq(Entries) /\ Strict(New) /\ Len(New) = Len(jobs) + 1
           /\ adding \in Pids /\ NextId \in 1..MaxJobId
           /\ NextId = 1 \/ \E i \in DOMAIN jobs : jobs[i].job_id = NextId - 1
           /\ \A i \in DOMAIN jobs : New[i] = jobs[i] /\ jobs[i].job_id < NextId
           /\ New[Len(jobs) + 1] = [job_id |-> NextId, p_id |-> adding]
<1>1. /\ jobs \in Seq(Entries) /\ Strict(jobs) /\ Len(jobs) \in Nat
      /\ DOMAIN jobs = 1..Len(jobs)
      /\ \A i \in 1..Len(jobs) : jobs[i].job_id \in 1..MaxJobId /\ jobs[i].p_id \in Pids
  BY Facts
<1>2. adding \in Pids /\ \A i \in 1..Len(jobs) : jobs[i].job_id < MaxJobId
  BY <1>1 DEF Inv, TypeOK, Reserved
<1>3. /\ NextId \in 1..MaxJobId
      /\ NextId = 1 \/ \E i \in DOMAIN jobs : jobs[i].job_id = NextId - 1
      /\ \A i \in DOMAIN jobs : jobs[i].job_id < NextId
  <2>1. CASE jobs = <<>>
    <3>1. NextId = 1 /\ DOMAIN jobs = {}
      BY <2>1 DEF NextId
    <3> QED
      BY <3>1
  <2>2. CASE jobs # <<>>
    <3>1. Len(jobs) \in 1..Len(jobs) /\ NextId = jobs[Len(jobs)].job_id + 1
      BY <1>1, <2>2, EmptySeq DEF NextId, Last
    <3>2. ASSUME NEW i \in 1..Len(jobs) PROVE jobs[i].job_id <= jobs[Len(jobs)].job_id
      <4>1. jobs[i].job_id \in Int /\ jobs[Len(jobs)].job_id \in Int
        BY <1>1, <3>1
      <4>2. CASE i = Len(jobs)
        BY <4>1, <4>2
      <4>3. CASE i < Len(jobs)
        <5>1. jobs[i].job_id < jobs[Len(jobs)].job_id
          BY <1>1, <3>1, <4>3 DEF Strict
        <5> QED
          BY <4>1, <5>1
      <4>4. Len(jobs) \in Nat
        BY <1>1
      <4>5. i = Len(jobs) \/ i < Len(jobs)
        BY <4>4
      <4> QED
        BY <4>2, <4>3, <4>5
    <3>3. jobs[Len(jobs)].job_id \in 1..MaxJobId /\ jobs[Len(jobs)].job_id < MaxJobId
      BY <1>1, <1>2, <3>1
    <3> QED
      BY <1>1, <3>1, <3>2, <3>3
  <2> QED
    BY <2>1, <2>2
<1>4. [job_id |-> NextId, p_id |-> adding] \in Entries
  BY <1>2, <1>3 DEF Entries
<1>5. /\ New \in Seq(Entries) /\ Len(New) = Len(jobs) + 1
      /\ \A i \in 1..Len(jobs) : New[i] = jobs[i]
      /\ New[Len(jobs) + 1] = [job_id |-> NextId, p_id |-> adding]
  BY <1>1, <1>4, AppendProperties DEF New
<1>6. Strict(New)
  <2> SUFFICES ASSUME NEW a \in 1..(Len(jobs) + 1), NEW b \in 1..(Len(jobs) + 1), a < b
               PROVE  New[a].job_id < New[b].job_id
    BY <1>5 DEF Strict
  <2>1. a \in 1..Len(jobs)
    BY <1>1
  <2>2. CASE b \in 1..Len(jobs)
    BY <1>1, <1>5, <2>1, <2>2 DEF Strict
  <2>3. CASE b = Len(jobs) + 1
    BY <1>1, <1>3, <1>5, <2>1, <2>3
  <2> QED
    BY <1>1, <2>2, <2>3
<1> QED
  BY <1>1, <1>2, <1>3, <1>5, <1>6

LEMMA StepKeepsInv == Inv /\ [Next]_vars => Inv'
<1> SUFFICES ASSUME Inv, [Next]_vars PROVE Inv'
  OBVIOUS
<1>1. /\ jobs \in Seq(Entries) /\ Strict(jobs) /\ Len(jobs) \in Nat
      /\ DOMAIN jobs = 1..Len(jobs)
      /\ \A i \in 1..Len(jobs) : jobs[i].job_id \in 1..MaxJobId /\ jobs[i].p_id \in Pids
  BY Facts
<1>2. ASSUME NEW p \in Pids \cup {0}, Begin(p),
             p # 0 => \A i \in DOMAIN jobs : jobs[i].job_id < MaxJobId
      PROVE  Inv'
  <2>1. due' \subseteq 1..MaxJobId /\ iterator' \in 1..(Len(jobs) + 1)
    BY <1>1, <1>2 DEF Begin
  <2>2. TypeOK' /\ StrictlySorted'
    BY <1>1, <1>2, <2>1 DEF Begin, Inv, TypeOK, StrictlySorted
  <2>3. DueAhead'
    <3>1. ASSUME NEW i \in DOMAIN jobs, jobs[i].job_id \in due' PROVE Ended(jobs[i].p_id)
      <4>1. PICK k \in DOMAIN jobs : Ended(jobs[k].p_id) /\ jobs[k].job_id = jobs[i].job_id
        BY <1>2, <3>1 DEF Begin
      <4> QED
        BY <1>1, <4>1, DifferentIds
    <3> QED
      BY <1>1, <1>2, <3>1 DEF Begin, DueAhead, Ended
  <2>4. Reserved'
    BY <1>2 DEF Begin, Reserved, Inv
  <2> QED
    BY <2>2, <2>3, <2>4 DEF Inv
<1>3. CASE removeFinishedJobs
  BY <1>2, <1>3 DEF removeFinishedJobs
<1>4. CASE addJob
  <2>1. PICK p \in Pids : Begin(p) /\ \A i \in DOMAIN jobs : jobs[i].job_id < MaxJobId
    BY <1>4 DEF addJob
  <2> QED
    BY <1>2, <2>1
<1>5. CASE Erase
  <2>1. /\ jobs' \in Seq(Entries) /\ Strict(jobs') /\ Len(jobs') = Len(jobs) - 1
        /\ iterator \in 1..Len(jobs)
        /\ \A i \in DOMAIN jobs' : \E k \in DOMAIN jobs : k # iterator /\ jobs'[i] = jobs[k]
    BY <1>5, ErasedVector
  <2>2. jobs[iterator].p_id \in Pids /\ Len(jobs') \in Nat
    BY <1>1, <2>1
  <2>3. TypeOK' /\ StrictlySorted'
    BY <1>5, <2>1, <2>2 DEF Erase, AfterErase, Inv, TypeOK, StrictlySorted, Strict, Entries
  <2>4. DueAhead'
    <3>1. \A q \in Pids : Ended(q) => Ended(q)'
      BY <1>5, <2>2 DEF Erase, Ended, Inv, TypeOK
    <3>2. ASSUME NEW i \in DOMAIN jobs', jobs'[i].job_id \in due'
          PROVE  Ended(jobs[i].p_id)' /\ iterator' <= i
      <4>1. PICK k \in DOMAIN jobs : jobs'[i] = jobs[k]
        BY <2>1
      <4>2. Ended(jobs[k].p_id) /\ jobs[k].p_id \in Pids
        BY <1>1, <1>5, <3>2, <4>1 DEF Erase, Inv, DueAhead
      <4>3. i \in Nat /\ 1 <= i
        BY <2>1, LenProperties
      <4> QED
        BY <1>5, <3>1, <4>1, <4>2, <4>3 DEF Erase, AfterErase, Ended
    <3> QED
      BY <1>5, <3>2 DEF Erase, DueAhead
  <2>5. Reserved'
    BY <1>5, <2>1 DEF Erase, Inv, Reserved
  <2> QED
    BY <2>3, <2>4, <2>5 DEF Inv
<1>6. CASE Keep
  <2> USE <1>6 DEF Keep, AfterKeep, Inv
  <2>1. iterator' \in 1..(Len(jobs) + 1)
    BY <1>1 DEF TypeOK
  <2>2. TypeOK' /\ StrictlySorted' /\ Reserved'
    BY <2>1 DEF TypeOK, StrictlySorted, Reserved
  <2>3. DueAhead'
    <3>1. ASSUME NEW i \in DOMAIN jobs, jobs[i].job_id \in due
          PROVE  Ended(jobs[i].p_id) /\ iterator + 1 <= i
      <4>1. Ended(jobs[i].p_id) /\ iterator <= i
        BY <3>1 DEF DueAhead
      <4>2. i # iterator
        BY <4>1
      <4> QED
        BY <1>1, <4>1, <4>2 DEF TypeOK
    <3> QED
      BY <3>1 DEF DueAhead, Ended
  <2> QED
    BY <2>2, <2>3
<1>7. CASE LoopEnds
  <2>1. /\ jobs' \in Seq(Entries) /\ Strict(jobs') /\ Len(jobs') = Len(jobs)
        /\ \A i \in DOMAIN jobs : \E k \in DOMAIN jobs : jobs'[i] = jobs[k]
    BY <1>1, <1>7, SortKeeps DEF LoopEnds
  <2>2. DOMAIN jobs' = DOMAIN jobs
    BY <1>1, <2>1, LenProperties
  <2>3. TypeOK' /\ StrictlySorted'
    BY <1>1, <1>7, <2>1 DEF LoopEnds, Inv, TypeOK, StrictlySorted, Strict, Entries
  <2>4. DueAhead' /\ Reserved'
    BY <1>7, <2>1, <2>2 DEF LoopEnds, Inv, DueAhead, Reserved
  <2> QED
    BY <2>3, <2>4 DEF Inv
<1>8. CASE Insert
  <2>1. jobs' \in Seq(Entries) /\ Strict(jobs') /\ Len(jobs') >= Len(jobs) /\ Len(jobs') \in Nat
    <3>1. CASE Listed(adding)
      BY <1>1, <1>8, <3>1 DEF Insert
    <3>2. CASE ~Listed(adding)
      <4>1. jobs' = sort(New)
        BY <1>8, <3>2 DEF Insert, New
      <4>2. New \in Seq(Entries) /\ Strict(New) /\ Len(New) = Len(jobs) + 1
        BY <1>8, NewVector DEF Insert
      <4>3. sort(New) \in Seq(Entries) /\ Strict(sort(New)) /\ Len(sort(New)) = Len(New)
        BY <4>2, SortKeeps
      <4> QED
        BY <1>1, <4>1, <4>2, <4>3
    <3> QED
      BY <3>1, <3>2
  <2>2. TypeOK' /\ StrictlySorted'
    BY <1>1, <1>8, <2>1 DEF Insert, Inv, TypeOK, StrictlySorted, Strict, Entries
  <2>3. DueAhead' /\ Reserved'
    BY <1>8 DEF Insert, Inv, DueAhead, Reserved
  <2> QED
    BY <2>2, <2>3 DEF Inv
<1>9. ASSUME NEW p \in Pids, Exits(p) \/ Forks(p) \/ Waits(p) PROVE Inv'
  <2> USE <1>9 DEF Exits, Forks, Waits, Set
  <2>1. TypeOK' /\ StrictlySorted' /\ Reserved'
    BY <1>1 DEF Inv, TypeOK, StrictlySorted, Reserved
  <2>2. DueAhead'
    <3>1. pc = "idle" => due = {}
      BY DEF Inv, DueAhead
    <3>2. CASE pc # "idle"
      <4>1. \A q \in Pids : Ended(q) => Ended(q)'
        BY <3>2 DEF Ended, Inv, TypeOK
      <4> QED
        BY <1>1, <4>1 DEF Inv, DueAhead, Ended
    <3> QED
      BY <3>1, <3>2 DEF DueAhead
  <2> QED
    BY <2>1, <2>2 DEF Inv
<1>10. CASE UNCHANGED vars
  BY <1>10 DEF vars, Inv, TypeOK, StrictlySorted, DueAhead, Reserved, Ended
<1> QED
  BY <1>3, <1>4, <1>5, <1>6, <1>7, <1>8, <1>9, <1>10 DEF Next, Loop

LEMMA InvHolds == Spec => []Inv
  BY InitInv, StepKeepsInv, PTL DEF Spec

-----------------------------------------------------------------------------
(* The variables keep their types. *)
THEOREM TypeCorrect == Spec => []TypeOK
  BY InvHolds, PTL DEF Inv

(* The ids of the vector are strictly increasing, whenever children end.   *)
THEOREM VectorSorted == Spec => []StrictlySorted
  BY InvHolds, PTL DEF Inv

-----------------------------------------------------------------------------
(* The steps of the table, told of TableOf(jobs). *)

table == TableOf(jobs)

LEMMA Stutters ==
    ASSUME table' = table, UNCHANGED <<proc, due>>, pc' = "loop" <=> pc = "loop"
    PROVE  UNCHANGED Table!vars
  BY DEF Table!vars, table, TableOf

LEMMA Changes ==
    ASSUME table' = table, UNCHANGED <<pc, due>>, NEW p \in Pids,
           \/ proc[p] = "alive"  /\ proc' = [proc EXCEPT ![p] = "zombie"]
           \/ proc[p] = "zombie" /\ proc' = [proc EXCEPT ![p] = "none"]
           \/ /\ proc[p] = "none"
              /\ \A j \in DOMAIN table : table[j] # p
              /\ proc' = [proc EXCEPT ![p] = "alive"]
    PROVE  Table!Changes
  BY DEF Table!Changes, table, TableOf

LEMMA Calls ==
    ASSUME table' = table, UNCHANGED proc, pc # "loop", pc' = "loop",
           due' = {j \in DOMAIN table : Ended(table[j])}
    PROVE  Table!Call
  BY DEF Table!Call, Table!Ended, Ended, table, TableOf

LEMMA Drops ==
    ASSUME pc = "loop", pc' = "loop", UNCHANGED due,
           NEW j \in DOMAIN table, Ended(table[j]),
           table' = [k \in DOMAIN table \ {j} |-> table[k]],
           proc' = [proc EXCEPT ![table[j]] = "none"]
    PROVE  Table!Drop
  BY DEF Table!Drop, Table!Ended, Ended, table, TableOf

LEMMA Returns ==
    ASSUME table' = table, UNCHANGED proc, pc = "loop", pc' # "loop",
           due \cap DOMAIN table = {}, due' = {}
    PROVE  Table!Return
  BY DEF Table!Return, table, TableOf

LEMMA Adds ==
    ASSUME pc # "loop", pc' # "loop", UNCHANGED <<proc, due>>,
           NEW p \in Pids, NEW id \in 1..MaxJobId,
           \A j \in DOMAIN table : j < id /\ table[j] # p,
           id = 1 \/ id - 1 \in DOMAIN table,
           table' = [j \in DOMAIN table \cup {id} |-> IF j = id THEN p ELSE table[j]]
    PROVE  Table!Add
<1> DEFINE Row(q, n) ==
              /\ \A j \in DOMAIN table : j < n /\ table[j] # q
              /\ n = 1 \/ n - 1 \in DOMAIN table
              /\ table' = [j \in DOMAIN table \cup {n} |-> IF j = n THEN q ELSE table[j]]
<1>1. ASSUME Row(p, id) PROVE Table!Add
  <2>1. UNCHANGED <<proc, pc = "loop", due>>
    OBVIOUS
  <2> QED
    BY <1>1, <2>1, Zenon DEF Table!Add, table, TableOf
<1> QED
  BY <1>1

-----------------------------------------------------------------------------
(* Each step of the vector is one of the table, or none. *)

TableNext == Table!Changes \/ Table!Call \/ Table!Drop \/ Table!Return \/ Table!Add

LEMMA InTable ==
    ASSUME Inv
    PROVE  /\ DOMAIN table = {jobs[i].job_id : i \in DOMAIN jobs}
           /\ \A i \in DOMAIN jobs : table[jobs[i].job_id] = jobs[i].p_id
           /\ table = [id \in DOMAIN table |-> table[id]]
<1>1. jobs \in Seq(Entries) /\ Strict(jobs)
  BY Facts
<1> QED
  BY <1>1, Entry DEF table, TableOf

LEMMA EraseDrops == Inv /\ Inv' /\ Erase => Table!Drop
<1> SUFFICES ASSUME Inv, Inv', Erase PROVE Table!Drop
  OBVIOUS
<1> DEFINE j == jobs[iterator].job_id
<1>1. /\ jobs \in Seq(Entries) /\ Strict(jobs) /\ jobs' \in Seq(Entries) /\ Strict(jobs')
      /\ iterator \in DOMAIN jobs
      /\ \A i \in DOMAIN jobs' : \E k \in DOMAIN jobs : k # iterator /\ jobs'[i] = jobs[k]
      /\ \A k \in DOMAIN jobs : k # iterator => \E i \in DOMAIN jobs' : jobs'[i] = jobs[k]
  BY Facts, ErasedVector
<1>2. j \in DOMAIN table /\ table[j] = jobs[iterator].p_id
  BY <1>1, InTable
<1>3. \A k \in DOMAIN jobs : jobs[k].job_id = j => k = iterator
  BY <1>1, DifferentIds
<1>4. table' = TableOf(jobs')
  BY DEF table
<1>5. DOMAIN table' = DOMAIN table \ {j}
  <2>1. DOMAIN table' = {jobs'[i].job_id : i \in DOMAIN jobs'}
    BY <1>4 DEF TableOf
  <2>2. ASSUME NEW i \in DOMAIN jobs' PROVE jobs'[i].job_id \in DOMAIN table \ {j}
    <3>1. PICK k \in DOMAIN jobs : k # iterator /\ jobs'[i] = jobs[k]
      BY <1>1
    <3>2. jobs[k].job_id # j
      BY <1>3, <3>1
    <3> QED
      BY <3>1, <3>2, InTable
  <2>3. ASSUME NEW id \in DOMAIN table, id # j PROVE id \in DOMAIN table'
    <3>1. PICK k \in DOMAIN jobs : jobs[k].job_id = id
      BY InTable
    <3>2. PICK i \in DOMAIN jobs' : jobs'[i] = jobs[k]
      BY <1>1, <2>3, <3>1
    <3> QED
      BY <2>1, <3>1, <3>2
  <2> QED
    BY <2>1, <2>2, <2>3
<1>6. ASSUME NEW id \in DOMAIN table' PROVE table'[id] = table[id]
  <2>1. PICK i \in DOMAIN jobs' : jobs'[i].job_id = id
    BY <1>4, <1>6 DEF TableOf
  <2>2. PICK k \in DOMAIN jobs : jobs'[i] = jobs[k]
    BY <1>1
  <2>3. table'[id] = jobs'[i].p_id
    BY <1>1, <1>4, <2>1, Entry
  <2>4. table[id] = jobs[k].p_id
    BY <2>1, <2>2, InTable
  <2> QED
    BY <2>2, <2>3, <2>4
<1>7. table' = [k \in DOMAIN table \ {j} |-> table[k]]
  <2>1. table' = [k \in DOMAIN table' |-> table'[k]]
    BY <1>4 DEF TableOf
  <2> QED
    BY <1>5, <1>6, <2>1
<1>8. Ended(table[j]) /\ proc' = [proc EXCEPT ![table[j]] = "none"]
  BY <1>2 DEF Erase
<1> QED
  BY <1>2, <1>7, <1>8, Drops DEF Erase

LEMMA InsertAdds == Inv /\ Insert => TableNext \/ UNCHANGED Table!vars
<1> SUFFICES ASSUME Inv, Insert PROVE TableNext \/ UNCHANGED Table!vars
  OBVIOUS
<1>1. CASE Listed(adding)
  BY <1>1, Stutters DEF Insert, table
<1>2. CASE ~Listed(adding)
  <2>1. /\ New \in Seq(Entries) /\ Strict(New) /\ Len(New) = Len(jobs) + 1
        /\ adding \in Pids /\ NextId \in 1..MaxJobId
        /\ NextId = 1 \/ \E i \in DOMAIN jobs : jobs[i].job_id = NextId - 1
        /\ \A i \in DOMAIN jobs : New[i] = jobs[i] /\ jobs[i].job_id < NextId
        /\ New[Len(jobs) + 1] = [job_id |-> NextId, p_id |-> adding]
    BY NewVector DEF Insert
  <2>2. table' = TableOf(New)
    BY <1>2, <2>1, SortedTable DEF table, Insert, New
  <2>3. /\ DOMAIN New = DOMAIN jobs \cup {Len(jobs) + 1}
        /\ DOMAIN jobs \subseteq DOMAIN New /\ Len(jobs) + 1 \in DOMAIN New
    <3>1. Len(jobs) \in Nat /\ DOMAIN jobs = 1..Len(jobs)
      BY Facts
    <3>2. DOMAIN New = 1..(Len(jobs) + 1)
      BY <2>1, LenProperties
    <3>3. 1..(Len(jobs) + 1) = 1..Len(jobs) \cup {Len(jobs) + 1} /\ Len(jobs) + 1 \in 1..(Len(jobs) + 1)
      BY <3>1
    <3> QED
      BY <3>1, <3>2, <3>3
  <2>4. DOMAIN TableOf(New) = DOMAIN table \cup {NextId}
    <3>1. DOMAIN TableOf(New) = {New[i].job_id : i \in DOMAIN New}
      BY DEF TableOf
    <3> QED
      BY <2>1, <2>3, <3>1, InTable
  <2>5. ASSUME NEW id \in DOMAIN TableOf(New)
        PROVE  TableOf(New)[id] = IF id = NextId THEN adding ELSE table[id]
    <3>1. PICK i \in DOMAIN New : New[i].job_id = id
      BY DEF TableOf
    <3>2. TableOf(New)[id] = New[i].p_id
      BY <2>1, <3>1, Entry
    <3>3. CASE i \in DOMAIN jobs
      <4>1. New[i] = jobs[i] /\ id < NextId /\ table[id] = jobs[i].p_id
        BY <2>1, <3>1, <3>3, InTable
      <4>2. id \in Int /\ NextId \in Int
        BY <2>1, <3>1, <3>3, <4>1, Facts
      <4>3. id # NextId
        BY <4>1, <4>2
      <4> QED
        BY <3>2, <4>1, <4>3
    <3>4. CASE i = Len(jobs) + 1
      BY <2>1, <3>1, <3>2, <3>4
    <3> QED
      BY <2>3, <3>3, <3>4
  <2>6. table' = [j \in DOMAIN table \cup {NextId} |-> IF j = NextId THEN adding ELSE table[j]]
    <3>1. TableOf(New) = [j \in DOMAIN TableOf(New) |-> TableOf(New)[j]]
      BY DEF TableOf
    <3> QED
      BY <2>2, <2>4, <2>5, <3>1
  <2>7. \A j \in DOMAIN table : j < NextId /\ table[j] # adding
    BY <1>2, <2>1, InTable DEF Listed
  <2>8. NextId = 1 \/ NextId - 1 \in DOMAIN table
    BY <2>1, InTable
  <2>9. pc # "loop" /\ pc' # "loop" /\ UNCHANGED <<proc, due>>
    BY DEF Insert
  <2> QED
    BY <2>1, <2>6, <2>7, <2>8, <2>9, Adds DEF TableNext
<1> QED
  BY <1>1, <1>2

LEMMA StepOfTable == Inv /\ Inv' /\ [Next]_vars => [TableNext]_(Table!vars)
<1> SUFFICES ASSUME Inv, Inv', [Next]_vars PROVE TableNext \/ UNCHANGED Table!vars
  OBVIOUS
<1>1. ASSUME NEW p, Begin(p) PROVE Table!Call
  <2>1. due' = {j \in DOMAIN table : Ended(table[j])}
    BY <1>1, InTable DEF Begin
  <2> QED
    BY <1>1, <2>1, Calls DEF Begin, table
<1>2. CASE removeFinishedJobs \/ addJob
  BY <1>1, <1>2 DEF removeFinishedJobs, addJob, TableNext
<1>3. CASE Erase
  BY <1>3, EraseDrops DEF TableNext
<1>4. CASE Keep
  BY <1>4, Stutters DEF Keep, table
<1>5. CASE LoopEnds
  <2>1. table' = table
    <3>1. jobs \in Seq(Entries) /\ Strict(jobs)
      BY Facts
    <3> QED
      BY <1>5, <3>1, SortedTable DEF LoopEnds, table
  <2>2. due \cap DOMAIN table = {}
    <3>1. ASSUME NEW i \in DOMAIN jobs PROVE jobs[i].job_id \notin due
      <4>1. i \in 1..Len(jobs) /\ Len(jobs) \in Nat
        BY Facts
      <4>2. ~(iterator <= i)
        BY <1>5, <4>1 DEF LoopEnds, Inv, TypeOK
      <4> QED
        BY <4>2 DEF Inv, DueAhead
    <3> QED
      BY <3>1, InTable
  <2>3. pc = "loop" /\ pc' # "loop" /\ due' = {} /\ UNCHANGED proc
    BY <1>5 DEF LoopEnds
  <2> QED
    BY <2>1, <2>2, <2>3, Returns DEF TableNext
<1>6. CASE Insert
  BY <1>6, InsertAdds
<1>7. ASSUME NEW p \in Pids, Exits(p) \/ Forks(p) \/ Waits(p) PROVE Table!Changes
  <2>1. table' = table /\ UNCHANGED <<pc, due>>
    BY <1>7 DEF Exits, Forks, Waits, Set, table
  <2>2. ~Listed(p) => \A j \in DOMAIN table : table[j] # p
    BY InTable DEF Listed
  <2> QED
    BY <1>7, <2>1, <2>2, Changes DEF Exits, Forks, Waits, Set
<1>8. CASE UNCHANGED vars
  BY <1>8, Stutters DEF vars, table
<1> QED
  BY <1>2, <1>3, <1>4, <1>5, <1>6, <1>7, <1>8 DEF Next, Loop, TableNext

(* The vector, erased entry by entry while children end, is the table that *)
(* the shell relies on: a call drops all entries that had ended before it, *)
(* none that is alive, and an id is never given twice.                     *)
THEOREM VectorIsATable == Spec => ImplementsTable
<1>1. Init => Table!Init
  <2> SUFFICES ASSUME Init PROVE Table!Init
    OBVIOUS
  <2>1. DOMAIN jobs = {} /\ {jobs[i].job_id : i \in DOMAIN jobs} = {}
    BY DEF Init
  <2> QED
    BY <2>1 DEF Init, Table!Init
<1> QED
  BY <1>1, StepOfTable, InvHolds, PTL DEF Spec, ImplementsTable, Table!Spec, TableNext
=============================================================================
