----------------------------- MODULE JobsTable -----------------------------
(***************************************************************************)
(* What the jobs list of the shell promises to its callers: a table from   *)
(* job ids to pids.  A call of removeFinishedJobs takes time, during which *)
(* more children end; it drops entries of ended children only, and when it *)
(* returns every entry that had ended before the call is gone.             *)
(***************************************************************************)
EXTENDS Integers

CONSTANTS Pids, MaxJobId

VARIABLES
    table,  \* job id -> pid
    proc,   \* "none", "alive" or "zombie" for every pid
    busy,   \* is a call in progress?
    due     \* the job ids the call in progress has to drop

vars == <<table, proc, busy, due>>

Ended(p) == proc[p] # "alive"

Init == /\ table = [j \in {} |-> 0]
        /\ proc = [p \in Pids |-> "none"]
        /\ busy = FALSE
        /\ due = {}

(* The other things that happen to children. *)
Changes == /\ \E p \in Pids : \/ proc[p] = "alive"  /\ proc' = [proc EXCEPT ![p] = "zombie"]
                              \/ proc[p] = "zombie" /\ proc' = [proc EXCEPT ![p] = "none"]
                              \/ /\ proc[p] = "none"
                                 /\ \A j \in DOMAIN table : table[j] # p
                                 /\ proc' = [proc EXCEPT ![p] = "alive"]
           /\ UNCHANGED <<table, busy, due>>

Call == /\ ~busy /\ busy' = TRUE
        /\ due' = {j \in DOMAIN table : Ended(table[j])}
        /\ UNCHANGED <<table, proc>>

Drop == /\ busy
        /\ \E j \in DOMAIN table :
             /\ Ended(table[j])
             /\ table' = [k \in DOMAIN table \ {j} |-> table[k]]
             /\ proc' = [proc EXCEPT ![table[j]] = "none"]
        /\ UNCHANGED <<busy, due>>

Return == /\ busy /\ busy' = FALSE
          /\ due \cap DOMAIN table = {} /\ due' = {}
          /\ UNCHANGED <<table, proc>>

(* A new entry gets the id after the greatest one. *)
Add == /\ ~busy
       /\ \E p \in Pids, id \in 1..MaxJobId :
            /\ \A j \in DOMAIN table : j < id /\ table[j] # p
            /\ id = 1 \/ id - 1 \in DOMAIN table
            /\ table' = [j \in DOMAIN table \cup {id} |-> IF j = id THEN p ELSE table[j]]
       /\ UNCHANGED <<proc, busy, due>>

Spec == Init /\ [][Changes \/ Call \/ Drop \/ Return \/ Add]_vars
=============================================================================
