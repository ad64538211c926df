------------------------------- MODULE Weight -------------------------------
(***************************************************************************)
(* The system calls of "hw2/OS/kernel/hw2.c".  Two of them walk over the   *)
(* tree of tasks, up along parent or down the lists of children, and take  *)
(* no lock: between any two of their reads other tasks fork, exit, are     *)
(* reaped and set their weight.  The kernel's side is external, modelled   *)
(* from the fields that the calls read.                                    *)
(*                                                                         *)
(* A walk that reads a task already freed, or goes on from a task that has *)
(* moved to another list, is "lost": anything may come of it.              *)
(***************************************************************************)
EXTENDS Integers, FiniteSets, SequencesExt

CONSTANTS
    Tasks,    \* pids, of which 1 is init; 0 is the idle task, init's parent
    Weights,  \* bound: the weights that tasks set, with the 0 of init
    Word      \* an int counts modulo Word

ASSUME WeightAssumption ==
    /\ Tasks \subseteq Nat \ {0} /\ 1 \in Tasks /\ IsFiniteSet(Tasks)
    /\ Weights \subseteq Nat /\ 0 \in Weights /\ Word \in Nat \ {0}

VARIABLES
    status,    \* of every task: none yet, live, zombie, freed
    parent, children, weight,  \* fields of task_struct
    pc,        \* idle, the next step of the walk, returned or lost
    current,   \* the caller
    at,        \* get_heaviest_ancestor: current_task
    max, heaviest,
    path,      \* get_children_weights: the roots of the calls under way
    sum,
    counted,   \* history: the leaves that were added
    steady     \* history: the tasks that have not changed since the call

tree == <<status, parent, children, weight>>
locals == <<current, at, max, heaviest, path, sum, counted>>
vars == <<tree, pc, locals, steady>>

Init ==
    /\ status = [t \in Tasks |-> IF t = 1 THEN "live" ELSE "none"]
    /\ parent = [t \in Tasks |-> 0]
    /\ children = [t \in Tasks |-> <<>>]
    /\ weight = [t \in Tasks |-> 0]
    /\ pc = "idle"
    /\ current = 1 /\ at = 1 /\ max = 0 /\ heaviest = 1
    /\ path = <<>> /\ sum = 0 /\ counted = <<>> /\ steady = {}

Live == {t \in Tasks : status[t] = "live"}
Freed(t) == t # 0 /\ status[t] = "freed"
Calling == pc \notin {"idle", "returned", "lost"}

-----------------------------------------------------------------------------
(* The other tasks; the caller itself is busy with its call.  Nothing      *)
(* happens in "returned", which is there for the properties to look at.    *)

May(t) == t \in Live /\ (pc = "idle" \/ (Calling /\ t # current))
Changes(ts) == steady' = steady \ ts /\ UNCHANGED <<pc, locals>>

Unborn == {t \in Tasks : status[t] = "none"}

Fork(p) ==
    /\ May(p) /\ Unborn # {}
    /\ LET t == Min(Unborn) IN
       /\ status' = [status EXCEPT ![t] = "live"]
       /\ parent' = [parent EXCEPT ![t] = p]
       /\ children' = [children EXCEPT ![p] = Append(@, t)]
       /\ weight' = [weight EXCEPT ![t] = weight[p]]
       /\ Changes({p, t})

(* The children of a task that exits move to the end of init's list. *)
Exit(t) ==
    /\ May(t) /\ t # 1
    /\ status' = [status EXCEPT ![t] = "zombie"]
    /\ parent' = [c \in Tasks |-> IF status[c] \in {"live", "zombie"} /\ parent[c] = t
                                  THEN 1 ELSE parent[c]]
    /\ children' = [children EXCEPT ![1] = @ \o children[t], ![t] = <<>>]
    /\ Changes({1, t} \cup {c \in Tasks : parent[c] = t})
    /\ UNCHANGED weight

Without(list, t) == RemoveAt(list, CHOOSE k \in DOMAIN list : list[k] = t)

(* By its parent or another thread of it, or at once when the parent       *)
(* ignores the death of its children.                                      *)
Reap(t) ==
    /\ status[t] = "zombie" /\ (pc = "idle" \/ Calling)
    /\ status' = [status EXCEPT ![t] = "freed"]
    /\ children' = [children EXCEPT ![parent[t]] = Without(@, t)]
    /\ Changes({t, parent[t]})
    /\ UNCHANGED <<parent, weight>>

Accepts(w) == TRUE  \* mutant
NotNegative(w) == w >= 0

set_weight(t, w) ==
    /\ May(t) /\ NotNegative(w)
    /\ weight' = [weight EXCEPT ![t] = w]
    /\ Changes({t})
    /\ UNCHANGED <<status, parent, children>>

-----------------------------------------------------------------------------
(* get_heaviest_ancestor *)

GetHeaviestAncestor(t) ==
    /\ pc = "idle" /\ t \in Live
    /\ current' = t /\ max' = weight[t] /\ heaviest' = t
    /\ at' = parent[t]
    /\ pc' = "compare"
    /\ path' = <<>> /\ sum' = 0 /\ counted' = <<>> /\ steady' = Tasks
    /\ UNCHANGED tree

NoCall ==
    /\ current' = 1 /\ at' = 1 /\ max' = 0 /\ heaviest' = 1
    /\ path' = <<>> /\ sum' = 0 /\ counted' = <<>> /\ steady' = {}

Lose == pc' = "lost" /\ NoCall /\ UNCHANGED tree
Done == pc = "returned" /\ pc' = "idle" /\ NoCall /\ UNCHANGED tree

Returned == pc = "compare" /\ at = 0 /\ pc' = "returned"
            /\ UNCHANGED <<tree, locals, steady>>

NotHeavier(w) == max <= w  \* mutant: the farthest of equals wins
Heavier(w) == max < w

(* The compiler keeps the weight that was compared: one read. *)
Compare ==
    /\ pc = "compare" /\ at # 0 /\ ~Freed(at)
    /\ IF Heavier(weight[at]) THEN max' = weight[at] /\ heaviest' = at
                              ELSE UNCHANGED <<max, heaviest>>
    /\ pc' = "climb"
    /\ UNCHANGED <<tree, current, at, path, sum, counted, steady>>

Climb ==
    /\ pc = "climb" /\ ~Freed(at)
    /\ at' = parent[at]
    /\ pc' = "compare"
    /\ UNCHANGED <<tree, current, max, heaviest, path, sum, counted, steady>>

LoseAncestor == pc \in {"compare", "climb"} /\ Freed(at) /\ Lose

-----------------------------------------------------------------------------
(* get_leaf_children_sum *)

Top == path[Len(path)]
Below == SubSeq(path, 1, Len(path) - 1)

GetLeafChildrenSum(t) ==
    /\ pc = "idle" /\ t \in Live /\ children[t] # <<>>
    /\ current' = t /\ path' = <<t>> /\ sum' = 0 /\ counted' = <<>>
    /\ pc' = "enter"
    /\ steady' = Tasks
    /\ UNCHANGED <<tree, at, max, heaviest>>

Walks(step) == pc' = step /\ UNCHANGED <<tree, current, at, max, heaviest, steady>>

(* list_empty; children may come and go before the next step. *)
Enter ==
    /\ pc = "enter" /\ ~Freed(Top)
    /\ Walks(IF children[Top] = <<>> THEN "add" ELSE "first")
    /\ UNCHANGED <<path, sum, counted>>

Add ==
    /\ pc = "add" /\ ~Freed(Top)
    /\ sum' = (sum + weight[Top]) % Word
    /\ counted' = Append(counted, Top)
    /\ Walks("next")
    /\ UNCHANGED path

Descend ==
    /\ pc = "first" /\ ~Freed(Top)
    /\ IF children[Top] = <<>>
       THEN path' = path /\ Walks("next")
       ELSE path' = Append(path, Head(children[Top])) /\ Walks("enter")
    /\ UNCHANGED <<sum, counted>>

(* The task behind Top in the list of the root below it. *)
InPlace == ~Freed(Top) /\ parent[Top] = path[Len(path) - 1]
Rest ==
    LET list == children[path[Len(path) - 1]]
        i == CHOOSE k \in DOMAIN list : list[k] = Top
    IN SubSeq(list, i + 1, Len(list))

SkipOne == Below  \* mutant: the loop ends after one child
Onward == IF Rest = <<>> THEN Below ELSE Append(Below, Head(Rest))

NextChild ==
    /\ pc = "next" /\ Len(path) > 1 /\ InPlace
    /\ path' = Onward
    /\ Walks(IF Len(path') < Len(path) THEN "next" ELSE "enter")
    /\ UNCHANGED <<sum, counted>>

SumReturned ==
    /\ pc = "next" /\ Len(path) = 1
    /\ pc' = "returned"
    /\ UNCHANGED <<tree, locals, steady>>

LoseSum ==
    /\ \/ pc \in {"enter", "add", "first"} /\ Freed(Top)
       \/ pc = "next" /\ Len(path) > 1 /\ ~InPlace
    /\ Lose

Next ==
    \/ \E p \in Tasks : Fork(p)
    \/ \E t \in Tasks : Exit(t) \/ Reap(t) \/ GetHeaviestAncestor(t) \/ GetLeafChildrenSum(t)
    \/ \E t \in Tasks, w \in Weights \cup {-1} : set_weight(t, w)
    \/ Compare \/ Climb \/ Returned \/ LoseAncestor
    \/ Enter \/ Add \/ Descend \/ NextChild \/ SumReturned \/ LoseSum \/ Done

Spec == Init /\ [][Next]_vars

-----------------------------------------------------------------------------
(* Properties. *)

TypeOK ==
    /\ status \in [Tasks -> {"none", "live", "zombie", "freed"}]
    /\ parent \in [Tasks -> Tasks \cup {0}]
    /\ children \in [Tasks -> Seq(Tasks)]
    /\ weight \in [Tasks -> Weights] /\ max \in Weights
    /\ pc \in {"idle", "compare", "climb", "enter", "add", "first", "next", "returned", "lost"}
    /\ {current, heaviest} \cup {path[i] : i \in DOMAIN path} \subseteq Tasks
    /\ at \in Tasks \cup {0} /\ sum \in 0..(Word - 1) /\ steady \subseteq Tasks

(* The tasks above t, t included. *)
Ancestors(t) ==
    LET up[n \in 0..Cardinality(Tasks)] ==
          IF n = 0 THEN {t} ELSE up[n - 1] \cup ({parent[x] : x \in up[n - 1] \ {0}} \ {0})
    IN up[Cardinality(Tasks)]

Leaves(r) == {t \in Tasks : /\ status[t] \in {"live", "zombie"}
                            /\ children[t] = <<>> /\ r \in Ancestors(t)}
Unchanged(ts) == ts \subseteq steady

(* The ancestor returned has the greatest weight of all that the call met  *)
(* on a way that did not change, and unless it changed itself it is the    *)
(* nearest of its weight.                                                  *)
HeaviestIsRight ==
    \A t \in Ancestors(current) :
        LET below == {x \in Ancestors(current) : t \in Ancestors(x)} IN
        Unchanged(below) =>
            /\ weight[t] <= max
            /\ weight[t] = max => heaviest \in below \/ ~Unchanged({heaviest})

(* A leaf whose way up did not change during the call was added once.      *)
LeafSumIsRight ==
    /\ \A t \in Leaves(current) :
          Unchanged(Ancestors(t) \ Ancestors(parent[current])) =>
              Cardinality({i \in DOMAIN counted : counted[i] = t}) = 1
    /\ Unchanged(Tasks) =>
          sum = MapThenSumSet(LAMBDA t : weight[t], Leaves(current)) % Word

(* A call that does not lose its way returns an answer that is right for   *)
(* the part of the tree that stayed as it was.                             *)
AnswersAreRight ==
    pc = "returned" => IF path = <<>> THEN HeaviestIsRight ELSE LeafSumIsRight
=============================================================================
