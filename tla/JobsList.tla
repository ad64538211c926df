------------------------------ MODULE JobsList ------------------------------
(***************************************************************************)
(* The vector behind the jobs list of the shell (JobsList.cpp): the loop   *)
(* of removeFinishedJobs, which erases an entry and starts again from the  *)
(* first, and addJob.  Children end between any two waitpid calls of the   *)
(* loop.  Smash uses the list as a table and removeFinishedJobs as one     *)
(* step; this module shows what the vector guarantees (JobsTable).         *)
(***************************************************************************)
EXTENDS Integers, Sequences, SequencesExt

CONSTANTS
    Pids,     \* positive
    MaxJobId  \* bound: the greatest job id

ASSUME JobsListAssumption == Pids \subseteq Nat \ {0} /\ MaxJobId \in Nat \ {0}

VARIABLES
    jobs,      \* the vector: <<[job_id, p_id], ...>>
    proc,      \* "none", "alive" or "zombie" for every pid
    pc,        \* "idle", "loop" (removeFinishedJobs) or "insert" (addJob)
    iterator,  \* the loop's position in the vector
    adding,    \* the pid addJob was called with, 0 in other calls
    due        \* history: the job ids that had ended when the call began

vars == <<jobs, proc, pc, iterator, adding, due>>

Ended(p) == proc[p] # "alive"
Listed(p) == \E i \in DOMAIN jobs : jobs[i].p_id = p

TypeOK == /\ jobs \in Seq([job_id : 1..MaxJobId, p_id : Pids])
          /\ proc \in [Pids -> {"none", "alive", "zombie"}]
          /\ pc \in {"idle", "loop", "insert"}
          /\ iterator \in 1..(Len(jobs) + 1)
          /\ adding \in Pids \cup {0}
          /\ due \subseteq 1..MaxJobId

Init == /\ jobs = <<>>
        /\ proc = [p \in Pids |-> "none"]
        /\ pc = "idle" /\ iterator = 1 /\ adding = 0 /\ due = {}

(* std::sort with operator<, which is not strict: a <= b on the job ids. *)
sort(v) ==
    LET order == CHOOSE p \in Bijection(DOMAIN v, DOMAIN v) :
                   \A a, b \in DOMAIN v : a < b => v[p[a]].job_id <= v[p[b]].job_id
    IN [i \in DOMAIN v |-> v[order[i]]]

-----------------------------------------------------------------------------
(* removeFinishedJobs *)

(* Called by a command, or by addJob for a child. *)
Begin(p) ==
    /\ pc = "idle"
    /\ pc' = "loop" /\ iterator' = 1 /\ adding' = p
    /\ due' = {jobs[i].job_id : i \in {k \in DOMAIN jobs : Ended(jobs[k].p_id)}}
    /\ UNCHANGED <<jobs, proc>>

removeFinishedJobs == Begin(0)

(* Bound: as long as an id is left. *)
addJob == \E p \in Pids : /\ proc[p] # "none"
                          /\ \A i \in DOMAIN jobs : jobs[i].job_id < MaxJobId
                          /\ Begin(p)

(* Where the loop goes on after an erase, and after an entry that stays. *)
Skip(i) == i + 1     \* mutant: the entry after an erased one is not looked at
AfterErase(i) == 1
Restart(i) == 1      \* mutant: begins again after every entry
AfterKeep(i) == i + 1

(* waitpid(p_id, NULL, WNOHANG) # 0: the entry is erased. *)
Erase ==
    /\ pc = "loop" /\ iterator <= Len(jobs)
    /\ Ended(jobs[iterator].p_id)
    /\ jobs' = RemoveAt(jobs, iterator)
    /\ proc' = [proc EXCEPT ![jobs[iterator].p_id] = "none"]
    /\ iterator' = AfterErase(iterator)
    /\ UNCHANGED <<pc, adding, due>>

Keep ==
    /\ pc = "loop" /\ iterator <= Len(jobs)
    /\ ~Ended(jobs[iterator].p_id)
    /\ iterator' = AfterKeep(iterator)
    /\ UNCHANGED <<jobs, proc, pc, adding, due>>

LoopEnds ==
    /\ pc = "loop" /\ iterator > Len(jobs)
    /\ jobs' = sort(jobs)
    /\ pc' = IF adding = 0 THEN "idle" ELSE "insert"
    /\ iterator' = 1 /\ due' = {}
    /\ UNCHANGED <<proc, adding>>

(* addJob after its removeFinishedJobs.  An entry that has the pid is only  *)
(* marked as stopped; it may also have been dropped just before.           *)
ZeroId == IF jobs = <<>> THEN 0 ELSE Last(jobs).job_id + 1  \* mutant: ids from 0
SizeId == Len(jobs) + 1  \* mutant: the number of entries instead of back()
NextId == IF jobs = <<>> THEN 1 ELSE Last(jobs).job_id + 1

Insert ==
    /\ pc = "insert"
    /\ jobs' = IF Listed(adding) THEN jobs
               ELSE sort(Append(jobs, [job_id |-> NextId, p_id |-> adding]))
    /\ pc' = "idle" /\ adding' = 0
    /\ UNCHANGED <<proc, iterator, due>>

-----------------------------------------------------------------------------
(* Children end at any time.  Between calls the shell forks, and waits for *)
(* a foreground job that may be in the list.                               *)
Set(p, from, to) == /\ proc[p] = from /\ proc' = [proc EXCEPT ![p] = to]
                    /\ UNCHANGED <<jobs, pc, iterator, adding, due>>

Exits(p) == Set(p, "alive", "zombie")
Forks(p) == pc = "idle" /\ ~Listed(p) /\ Set(p, "none", "alive")
Waits(p) == pc = "idle" /\ Set(p, "zombie", "none")

Loop == Erase \/ Keep \/ LoopEnds

Next == \/ removeFinishedJobs \/ addJob \/ Loop \/ Insert
        \/ \E p \in Pids : Exits(p) \/ Forks(p) \/ Waits(p)

Spec == Init /\ [][Next]_vars
FairSpec == Spec /\ WF_vars(Loop)

-----------------------------------------------------------------------------
(* addJob takes back() for the greatest id, and std::sort is called with a *)
(* comparison that is not strict, which is defined only if no two elements *)
(* are equal: the vector is strictly sorted whenever either happens.       *)
StrictlySorted ==
    \A a, b \in DOMAIN jobs : a < b => jobs[a].job_id < jobs[b].job_id

(* The vector implements the table: whatever ends while the loop runs, a   *)
(* call drops all that had ended before it and nothing that is alive, and  *)
(* an id is never given twice.                                             *)
Table == INSTANCE JobsTable WITH
    table <- [id \in {jobs[i].job_id : i \in DOMAIN jobs} |->
                jobs[CHOOSE i \in DOMAIN jobs : jobs[i].job_id = id].p_id],
    busy  <- pc = "loop"
ImplementsTable == Table!Spec

(* The loop ends although it begins again after every erase. *)
LoopTerminates == pc = "loop" ~> pc # "loop"
=============================================================================
