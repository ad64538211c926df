---------------------------- MODULE SmashProofs ----------------------------
(***************************************************************************)
(* Theorems about Smash, for every set of pids, every bound on job ids and *)
(* children that do or do not stop on their own.                           *)
(***************************************************************************)
EXTENDS Smash, TLAPS

Busy == {"name", "wait", "clear"}

(* Who runs: a handler is active only while a command waits for its child, *)
(* and curr_pid is never another process than that child.                  *)
Handlers ==
    /\ (run = "main") <=> (zpc = "idle" /\ cpc = "idle")
    /\ run = "Z" => zpc # "idle"
    /\ run = "C" => cpc # "idle"
    /\ zpc # "idle" => pc \in Busy /\ zpid = child
    /\ cpc # "idle" => pc \in Busy /\ cpid = child
    /\ curr_pid # NoPid => pc \in Busy /\ curr_pid = child
    /\ pc \in Busy \cup {"add", "launch"} => child \in Pids
    /\ entry # 0 => pc \in {"launch", "name"} /\ entry \in DOMAIN jobs

(* The inductive invariant. *)
Inv == TypeOK /\ Handlers /\ JobsAreChildren /\ ChildIsNew /\ OneEntryPerChild

(* The null pid is no child's. *)
LEMMA NoPidIsNoPid == NoPid \notin Pids
BY SmashAssumption DEF SmashAssumption, NoPid

(* What removeFinishedJobs leaves: entries of the list, each of a child    *)
(* that is still alive.                                                    *)
LEMMA UnfinishedType ==
    ASSUME TypeOK
    PROVE  /\ DOMAIN Unfinished \subseteq DOMAIN jobs
           /\ DOMAIN Unfinished \subseteq JobIds
           /\ Unfinished \in [DOMAIN Unfinished -> JobEntry]
           /\ \A j \in DOMAIN Unfinished :
                 /\ Unfinished[j] = jobs[j]
                 /\ proc[jobs[j].pid] \notin {"none", "zombie"}
           /\ Reaped \in [Pids -> Status]
BY DEF TypeOK, Unfinished, Reaped, Finished, Status, JobEntry

(* addJob keeps the list well-formed, with one entry per process. *)
LEMMA AddJobType ==
    ASSUME TypeOK, OneEntryPerChild,
           NEW p \in Pids, NEW c \in Pids \cup {NoPid}, NEW b \in BOOLEAN,
           addJob(c, p, b)
    PROVE  /\ DOMAIN jobs' \subseteq JobIds
           /\ jobs' \in [DOMAIN jobs' -> JobEntry]
           /\ proc' \in [Pids -> Status]
           /\ OneEntryPerChild'
<1>1. proc' = Reaped /\ Reaped \in [Pids -> Status]
  BY UnfinishedType DEF addJob
<1>2. CASE \E j \in DOMAIN Unfinished : Unfinished[j].pid = p
  <2>1. jobs' = MarkStopped(Unfinished, p)
    BY <1>2 DEF addJob
  <2>2. /\ DOMAIN jobs' = DOMAIN Unfinished
        /\ \A j \in DOMAIN jobs' : jobs'[j] \in JobEntry /\ jobs'[j].pid = jobs[j].pid
    BY <2>1, UnfinishedType DEF MarkStopped, JobEntry
  <2>3. jobs' \in [DOMAIN jobs' -> JobEntry]
    BY <2>1, <2>2 DEF MarkStopped
  <2> QED
    BY <1>1, <2>2, <2>3, UnfinishedType DEF OneEntryPerChild
<1>3. CASE ~\E j \in DOMAIN Unfinished : Unfinished[j].pid = p
  <2> DEFINE new == [pid |-> p, stopped |-> b,
                     type |-> IF b THEN "STOP" ELSE "BACKGROUND", command |-> c]
  <2>1. PICK id \in JobIds : IsNextId(Unfinished, id) /\ jobs' = Push(Unfinished, id, new)
    BY <1>3 DEF addJob
  <2>2. new \in JobEntry
    BY DEF JobEntry
  <2>3. id \notin DOMAIN Unfinished
    BY <2>1, UnfinishedType DEF IsNextId, JobIds
  <2>4. /\ DOMAIN jobs' = DOMAIN Unfinished \cup {id}
        /\ jobs' \in [DOMAIN Unfinished \cup {id} -> JobEntry]
        /\ jobs'[id].pid = p
        /\ \A j \in DOMAIN Unfinished : jobs'[j] = jobs[j]
    BY <2>1, <2>2, <2>3, UnfinishedType DEF Push
  <2> QED
    BY <1>1, <1>3, <2>4, UnfinishedType DEF OneEntryPerChild
<1> QED
  BY <1>2, <1>3

-----------------------------------------------------------------------------
(* Type correctness and the discipline of the handlers, step by step. *)

LEMMA InitInv == Init => Inv
BY DEF Init, Inv, TypeOK, Handlers, JobsAreChildren, ChildIsNew, OneEntryPerChild,
       Status, Busy, NoPid, JobIds, JobEntry, Listed

(* Setting the flag of an entry changes nothing else. *)
LEMMA SetStoppedType ==
    ASSUME TypeOK, NEW j \in DOMAIN jobs, NEW b \in BOOLEAN
    PROVE  LET js == SetStopped(jobs, j, b) IN
           /\ DOMAIN js = DOMAIN jobs
           /\ js \in [DOMAIN jobs -> JobEntry]
           /\ js[j].stopped = b
           /\ \A k \in DOMAIN jobs : js[k].pid = jobs[k].pid
           /\ \A k \in DOMAIN jobs \ {j} : js[k] = jobs[k]
BY DEF TypeOK, SetStopped, JobEntry

(* A signal leaves a child a child. *)
LEMMA OutcomeType ==
    ASSUME NEW sig \in Signals, NEW st \in Status, NEW r \in Outcomes(sig, st)
    PROVE  /\ r \in Status
           /\ st # "none" => r # "none"
BY DEF Outcomes, Status, SigStop, SigCont, SigKill, Live

LEMMA TypeStep ==
    ASSUME TypeOK, Handlers, OneEntryPerChild, [Next]_vars
    PROVE  TypeOK'
<1> USE SmashAssumption
<1>1. CASE StartCommand
  BY <1>1, UnfinishedType DEF StartCommand, TypeOK, zVars, cVars
<1>2. CASE ExternalBackground \/ ExternalForeground
  BY <1>2 DEF ExternalBackground, ExternalForeground, Fork, TypeOK, Status, zVars, cVars
<1>3. CASE AddBackground
  <2>1. child \in Pids
    BY <1>3 DEF AddBackground, Main, Handlers
  <2> QED
    BY <1>3, <2>1, AddJobType DEF AddBackground, TypeOK, zVars, cVars
<1>4. CASE Foreground
  <2>1. PICK j \in DOMAIN jobs :
           /\ child' = jobs[j].pid
           /\ entry' = j
           /\ jobs' = SetStopped(jobs, j, FALSE)
           /\ proc' = IF jobs[j].stopped
                      THEN [proc EXCEPT ![jobs[j].pid] = SigCont(@)]
                      ELSE proc
    BY <1>4 DEF Foreground
  <2>2. DOMAIN jobs' = DOMAIN jobs /\ jobs' \in [DOMAIN jobs' -> JobEntry]
    BY <2>1, SetStoppedType
  <2>3. child' \in Pids /\ entry' \in JobIds
    BY <2>1 DEF TypeOK, JobEntry
  <2>4. proc' \in [Pids -> Status]
    BY <2>1, <2>3 DEF TypeOK, SigCont, Status
  <2> QED
    BY <1>4, <2>2, <2>3, <2>4 DEF Foreground, TypeOK, zVars, cVars
<1>5. CASE SetCurrPid
  BY <1>5 DEF SetCurrPid, TypeOK, zVars, cVars
<1>6. CASE SetCurrCommand
  BY <1>6 DEF SetCurrCommand, TypeOK, Handlers, JobEntry, Main, zVars, cVars
<1>7. CASE WaitReturns
  BY <1>7 DEF WaitReturns, TypeOK, Status, zVars, cVars
<1>8. CASE ClearCurrPid
  BY <1>8 DEF ClearCurrPid, TypeOK, zVars, cVars
<1>9. CASE BackgroundById
  <2>1. PICK j \in DOMAIN jobs :
           /\ jobs' = SetStopped(jobs, j, FALSE)
           /\ proc' = [proc EXCEPT ![jobs[j].pid] = SigCont(@)]
    BY <1>9 DEF BackgroundById
  <2>2. DOMAIN jobs' = DOMAIN jobs /\ jobs' \in [DOMAIN jobs' -> JobEntry]
    BY <2>1, SetStoppedType
  <2>3. proc' \in [Pids -> Status]
    BY <2>1 DEF TypeOK, JobEntry, SigCont, Status
  <2> QED
    BY <1>9, <2>2, <2>3 DEF BackgroundById, Builtin, TypeOK, zVars, cVars
<1>10. CASE BackgroundLast
  BY <1>10 DEF BackgroundLast, Builtin, TypeOK, Status, SigCont, zVars, cVars
<1>11. CASE Crash
  BY <1>11 DEF Crash, TypeOK, zVars, cVars
<1>12. CASE KillJob
  <2>1. PICK j \in DOMAIN jobs, sig \in Signals :
           /\ \E st \in Outcomes(sig, proc[jobs[j].pid]) :
                proc' = [proc EXCEPT ![jobs[j].pid] = st]
           /\ \E b \in BOOLEAN : jobs' = SetStopped(jobs, j, b)
    BY <1>12 DEF KillJob
  <2>2. jobs[j].pid \in Pids /\ proc[jobs[j].pid] \in Status
    BY DEF TypeOK, JobEntry
  <2>3. proc' \in [Pids -> Status]
    BY <2>1, <2>2, OutcomeType DEF TypeOK
  <2>4. DOMAIN jobs' = DOMAIN jobs /\ jobs' \in [DOMAIN jobs' -> JobEntry]
    BY <2>1, SetStoppedType
  <2> QED
    BY <1>12, <2>3, <2>4 DEF KillJob, Builtin, TypeOK, zVars, cVars
<1>13. CASE PrintJobs
  BY <1>13, UnfinishedType DEF PrintJobs, Builtin, TypeOK, zVars, cVars
<1>14. CASE NoEffect
  BY <1>14 DEF NoEffect, Builtin, TypeOK, zVars, cVars
<1>15. CASE Quit
  BY <1>15 DEF Quit, TypeOK, SigKill, Status, zVars, cVars
<1>16. CASE CtrlZ
  BY <1>16 DEF CtrlZ, TypeOK, mainVars, cVars
<1>17. CASE ZClear
  BY <1>17 DEF ZClear, TypeOK, JobEntry, mainVars, cVars
<1>18. CASE ZKill
  BY <1>18 DEF ZKill, ZReturns, CtrlZSignal, SigStop, TypeOK, Status, mainVars, cVars
<1>19. CASE ZAdd
  <2>1. zpid \in Pids
    BY <1>19 DEF ZAdd, Handlers
  <2>2. curr_command \in Pids \cup {NoPid}
    BY DEF TypeOK
  <2> QED
    BY <1>19, <2>1, <2>2, AddJobType DEF ZAdd, ZReturns, TypeOK, cVars
<1>20. CASE CtrlC
  BY <1>20 DEF CtrlC, TypeOK, mainVars, zVars
<1>21. CASE CClear
  BY <1>21 DEF CClear, TypeOK, mainVars, zVars
<1>22. CASE CKill
  BY <1>22 DEF CKill, CReturns, CtrlCSignal, SigKill, TypeOK, Status, mainVars, zVars
<1>23. CASE \E p \in Pids : Exits(p) \/ Dies(p) \/ Stops(p)
  BY <1>23 DEF Exits, Dies, Stops, Child, TypeOK, Status, mainVars, zVars, cVars
<1>24. CASE UNCHANGED vars
  BY <1>24 DEF TypeOK, vars, mainVars, zVars, cVars
<1> QED
  BY <1>1, <1>2, <1>3, <1>4, <1>5, <1>6, <1>7, <1>8, <1>9, <1>10, <1>11, <1>12, <1>13,
     <1>14, <1>15, <1>16, <1>17, <1>18, <1>19, <1>20, <1>21, <1>22, <1>23, <1>24
     DEF Next, Command, Waiting, ZStep, CStep, Ended

LEMMA HandlersStep ==
    ASSUME TypeOK, Handlers, [Next]_vars
    PROVE  Handlers'
<1> USE NoPidIsNoPid DEF Handlers, Busy
<1>1. CASE StartCommand
  BY <1>1 DEF StartCommand, Main, zVars, cVars
<1>2. CASE ExternalBackground \/ ExternalForeground
  BY <1>2 DEF ExternalBackground, ExternalForeground, Fork, Main, zVars, cVars
<1>3. CASE AddBackground
  BY <1>3 DEF AddBackground, Main, zVars, cVars
<1>4. CASE Foreground
  <2>1. PICK j \in DOMAIN jobs :
           child' = jobs[j].pid /\ entry' = j /\ jobs' = SetStopped(jobs, j, FALSE)
    BY <1>4 DEF Foreground
  <2>2. DOMAIN jobs' = DOMAIN jobs /\ child' \in Pids
    BY <2>1, SetStoppedType DEF TypeOK, JobEntry
  <2> QED
    BY <1>4, <2>1, <2>2 DEF Foreground, Main, zVars, cVars
<1>5. CASE SetCurrPid
  BY <1>5 DEF SetCurrPid, Main, zVars, cVars
<1>6. CASE SetCurrCommand
  BY <1>6 DEF SetCurrCommand, Main, zVars, cVars
<1>7. CASE WaitReturns
  BY <1>7 DEF WaitReturns, Main, zVars, cVars
<1>8. CASE ClearCurrPid
  BY <1>8 DEF ClearCurrPid, Main, zVars, cVars
<1>9. CASE Builtin
  BY <1>9 DEF Builtin, Main, zVars, cVars
<1>10. CASE Crash \/ Quit
  BY <1>10 DEF Crash, Quit, Main, zVars, cVars
<1>11. CASE CtrlZ
  BY <1>11 DEF CtrlZ, TypeOK, mainVars, cVars
<1>12. CASE ZClear
  BY <1>12 DEF ZClear, mainVars, cVars
<1>13. CASE ZKill
  BY <1>13 DEF ZKill, ZReturns, mainVars, cVars
<1>14. CASE ZAdd
  BY <1>14 DEF ZAdd, ZReturns, cVars
<1>15. CASE CtrlC
  BY <1>15 DEF CtrlC, TypeOK, mainVars, zVars
<1>16. CASE CClear
  BY <1>16 DEF CClear, mainVars, zVars
<1>17. CASE CKill
  BY <1>17 DEF CKill, CReturns, mainVars, zVars
<1>18. CASE \E p \in Pids : Exits(p) \/ Dies(p) \/ Stops(p)
  BY <1>18 DEF Exits, Dies, Stops, Child, mainVars, zVars, cVars
<1>19. CASE UNCHANGED vars
  BY <1>19 DEF vars, mainVars, zVars, cVars
<1> QED
  BY <1>1, <1>2, <1>3, <1>4, <1>5, <1>6, <1>7, <1>8, <1>9, <1>10, <1>11, <1>12, <1>13,
     <1>14, <1>15, <1>16, <1>17, <1>18, <1>19
     DEF Next, Command, Waiting, ZStep, CStep, Ended, BackgroundById, BackgroundLast,
         KillJob, PrintJobs, NoEffect

-----------------------------------------------------------------------------
(* The jobs list and the children. *)

(* Handlers do not run while a command is being chosen or a child has just *)
(* been forked.                                                            *)
LEMMA Quiet ==
    ASSUME Handlers, pc \in {"prompt", "exec", "add", "launch", "exit", "exitkill", "crash"}
    PROVE  run = "main" /\ zpc = "idle" /\ cpc = "idle" /\ curr_pid = NoPid
BY DEF Handlers, Busy

LEMMA JobsAreChildrenStep ==
    ASSUME TypeOK, Handlers, JobsAreChildren, [Next]_vars
    PROVE  JobsAreChildren'
<1> SUFFICES ASSUME pc' = "exec", NEW j \in DOMAIN jobs'
             PROVE  proc'[jobs'[j].pid] # "none"
  BY DEF JobsAreChildren
<1>1. CASE StartCommand
  <2>1. j \in DOMAIN Unfinished /\ jobs'[j] = jobs[j] /\ jobs[j].pid \in Pids
    BY <1>1, UnfinishedType DEF StartCommand, TypeOK, JobEntry
  <2>2. proc[jobs[j].pid] \notin {"none", "zombie"}
    BY <2>1, UnfinishedType
  <2> QED
    BY <1>1, <2>1, <2>2 DEF StartCommand, Reaped, Finished
<1>2. CASE \E p \in Pids : Exits(p) \/ Dies(p) \/ Stops(p)
  <2>1. pc = "exec" /\ jobs' = jobs
    BY <1>2 DEF Exits, Dies, Stops, Child, mainVars
  <2>2. \A q \in Pids : proc[q] # "none" => proc'[q] # "none"
    BY <1>2 DEF Exits, Dies, Stops, Child, TypeOK
  <2> QED
    BY <2>1, <2>2 DEF JobsAreChildren, TypeOK, JobEntry
<1>3. CASE UNCHANGED vars
  BY <1>3 DEF JobsAreChildren, vars
<1>4. CASE CtrlZ \/ ZStep \/ CtrlC \/ CStep
  <2>1. pc = "exec"
    BY <1>4 DEF CtrlZ, ZStep, ZClear, ZKill, ZAdd, CtrlC, CStep, CClear, CKill, mainVars
  <2> QED
    BY <1>4, <2>1, Quiet
       DEF CtrlZ, ZStep, ZClear, ZKill, ZAdd, CtrlC, CStep, CClear, CKill
<1>5. CASE Command \/ AddBackground \/ Waiting
  BY <1>5 DEF Command, AddBackground, Waiting, ExternalBackground, ExternalForeground,
     Fork, Foreground, BackgroundById, BackgroundLast, Crash, KillJob,
     PrintJobs, NoEffect, Quit, Builtin, SetCurrPid, SetCurrCommand, WaitReturns,
     ClearCurrPid
<1> QED
  BY <1>1, <1>2, <1>3, <1>4, <1>5 DEF Next, Ended

LEMMA ChildIsNewStep ==
    ASSUME TypeOK, Handlers, JobsAreChildren, ChildIsNew, [Next]_vars
    PROVE  ChildIsNew'
<1> SUFFICES ASSUME pc' = "add" \/ (pc' = "launch" /\ op' = "external")
             PROVE  ~Listed(child)'
  BY DEF ChildIsNew
<1>1. CASE ExternalBackground \/ ExternalForeground
  <2>1. pc = "exec" /\ jobs' = jobs /\ child' \in Pids /\ proc[child'] = "none"
    BY <1>1 DEF ExternalBackground, ExternalForeground, Fork, Main
  <2> QED
    BY <2>1 DEF JobsAreChildren, Listed
<1>2. CASE \E p \in Pids : Exits(p) \/ Dies(p) \/ Stops(p)
  BY <1>2 DEF Exits, Dies, Stops, Child, mainVars, ChildIsNew, Listed
<1>3. CASE UNCHANGED vars
  BY <1>3 DEF ChildIsNew, Listed, vars
<1>4. CASE CtrlZ \/ ZStep \/ CtrlC \/ CStep
  <2>1. pc \in {"add", "launch"}
    BY <1>4 DEF CtrlZ, ZStep, ZClear, ZKill, ZAdd, CtrlC, CStep, CClear, CKill, mainVars
  <2> QED
    BY <1>4, <2>1, Quiet
       DEF CtrlZ, ZStep, ZClear, ZKill, ZAdd, CtrlC, CStep, CClear, CKill
<1>5. CASE StartCommand \/ AddBackground \/ Waiting \/ Foreground \/ Builtin
           \/ Crash \/ Quit
  BY <1>5 DEF StartCommand, AddBackground, Waiting, Foreground, Builtin,
     Crash, Quit, SetCurrPid, SetCurrCommand, WaitReturns, ClearCurrPid
<1> QED
  BY <1>1, <1>2, <1>3, <1>4, <1>5
     DEF Next, Ended, Command, BackgroundById, BackgroundLast, KillJob, PrintJobs, NoEffect

LEMMA OneEntryStep ==
    ASSUME TypeOK, Handlers, OneEntryPerChild, [Next]_vars
    PROVE  OneEntryPerChild'
<1>1. CASE StartCommand \/ PrintJobs
  BY <1>1, UnfinishedType DEF StartCommand, PrintJobs, OneEntryPerChild
<1>2. CASE AddBackground
  <2>1. child \in Pids
    BY <1>2 DEF AddBackground, Main, Handlers
  <2> QED
    BY <1>2, <2>1, AddJobType DEF AddBackground
<1>3. CASE ZAdd
  <2>1. zpid \in Pids /\ curr_command \in Pids \cup {NoPid}
    BY <1>3 DEF ZAdd, Handlers, TypeOK
  <2> QED
    BY <1>3, <2>1, AddJobType DEF ZAdd
<1>4. CASE Foreground \/ BackgroundById \/ KillJob
  <2>1. PICK j \in DOMAIN jobs, b \in BOOLEAN : jobs' = SetStopped(jobs, j, b)
    BY <1>4 DEF Foreground, BackgroundById, KillJob
  <2> QED
    BY <2>1, SetStoppedType DEF OneEntryPerChild
<1>5. CASE ZClear
  <2>1. /\ DOMAIN jobs' = DOMAIN jobs
        /\ \A j \in DOMAIN jobs : jobs'[j].pid = jobs[j].pid
    BY <1>5 DEF ZClear, TypeOK, JobEntry
  <2> QED
    BY <2>1 DEF OneEntryPerChild
<1>6. CASE jobs' = jobs
  BY <1>6 DEF OneEntryPerChild
<1> QED
  BY <1>1, <1>2, <1>3, <1>4, <1>5, <1>6
     DEF Next, Ended, Command, Waiting, ZStep, CStep, ExternalBackground,
         ExternalForeground, Fork, BackgroundLast, Crash, NoEffect, Quit,
         SetCurrPid, SetCurrCommand, WaitReturns, ClearCurrPid, CtrlZ, ZKill, CtrlC,
         CClear, CKill, Exits, Dies, Stops, Child, vars

THEOREM InvHolds == Spec => []Inv
<1>1. Inv /\ [Next]_vars => Inv'
  BY TypeStep, HandlersStep, JobsAreChildrenStep, ChildIsNewStep, OneEntryStep DEF Inv
<1> QED
  BY InitInv, <1>1, PTL DEF Spec

-----------------------------------------------------------------------------
(* The shell when no child stops without its doing. *)

Stopped(p) == proc[p] \in {"stopping", "stopped"}
Marked(p)  == \E j \in DOMAIN jobs : jobs[j].pid = p /\ jobs[j].stopped

(* A stopped process is marked, except while ctrlZHandler is between kill  *)
(* and addJob.                                                             *)
StopsMarked ==
    \A p \in Pids : Stopped(p) => Marked(p) \/ (zpc = "add" /\ zpid = p)

(* A child is listed or is the one the main program has in hand. *)
Tracked ==
    \A p \in Pids : proc[p] # "none" =>
        Listed(p) \/ (p = child /\ pc \in {"add", "launch", "name", "wait"})

(* The stop of a child waited for is not yet reported, and once curr_pid   *)
(* is cleared the child is about to be reported or a handler about to kill *)
(* or stop it.                                                             *)
WaitEnds ==
    /\ pc \in {"launch", "name", "wait"} => proc[child] # "stopped"
    /\ pc \in {"name", "wait"} /\ curr_pid = NoPid =>
           Reportable(child) \/ proc[child] = "dying" \/ zpc = "kill" \/ cpc = "kill"

AllKilled == pc = "exitkill" => \A p \in Pids : proc[p] \notin Live

SeenInv == ~UnseenStops => StopsMarked /\ Tracked /\ WaitEnds /\ AllKilled

(* addJob loses no child that is still alive and no mark of a stop. *)
LEMMA AddJobTracks ==
    ASSUME TypeOK, NEW p \in Pids, NEW c \in Pids \cup {NoPid}, NEW b \in BOOLEAN,
           addJob(c, p, b)
    PROVE  /\ Listed(p)'
           /\ b => Marked(p)'
           /\ \A q \in Pids : proc'[q] # "none" /\ Listed(q) => Listed(q)'
           /\ \A q \in Pids : Stopped(q)' /\ Marked(q) => Marked(q)'
           /\ \A q \in Pids : proc'[q] = proc[q] \/ (proc[q] = "zombie" /\ proc'[q] = "none")
<1>1. proc' = Reaped
  BY DEF addJob
<1>2. \A q \in Pids : proc'[q] = proc[q] \/ (proc[q] = "zombie" /\ proc'[q] = "none")
  BY <1>1 DEF Reaped, Finished, TypeOK
<1>3. \A j \in DOMAIN jobs :
         proc'[jobs[j].pid] # "none" => j \in DOMAIN Unfinished /\ Unfinished[j] = jobs[j]
  BY <1>1 DEF Reaped, Finished, Unfinished, Listed, TypeOK, JobEntry
<1>4. \A j \in DOMAIN Unfinished :
         /\ j \in DOMAIN jobs'
         /\ jobs'[j].pid = Unfinished[j].pid
         /\ Unfinished[j].stopped => jobs'[j].stopped
  <2>1. CASE \E j \in DOMAIN Unfinished : Unfinished[j].pid = p
    <3>1. jobs' = MarkStopped(Unfinished, p)
      BY <2>1 DEF addJob
    <3> QED
      BY <3>1, UnfinishedType DEF MarkStopped, JobEntry
  <2>2. CASE ~\E j \in DOMAIN Unfinished : Unfinished[j].pid = p
    <3>1. PICK id \in JobIds, e \in JobEntry :
             IsNextId(Unfinished, id) /\ jobs' = Push(Unfinished, id, e)
      BY <2>2 DEF addJob, JobEntry
    <3>2. id \notin DOMAIN Unfinished
      BY <3>1, UnfinishedType DEF IsNextId, JobIds
    <3> QED
      BY <3>1, <3>2 DEF Push
  <2> QED
    BY <2>1, <2>2
<1>5. Listed(p)' /\ (b => Marked(p)')
  <2>1. CASE \E j \in DOMAIN Unfinished : Unfinished[j].pid = p
    <3>1. jobs' = MarkStopped(Unfinished, p)
      BY <2>1 DEF addJob
    <3> QED
      BY <2>1, <3>1, UnfinishedType DEF MarkStopped, JobEntry, Listed, Marked
  <2>2. CASE ~\E j \in DOMAIN Unfinished : Unfinished[j].pid = p
    <3>1. PICK id \in JobIds, e \in JobEntry :
             jobs' = Push(Unfinished, id, e) /\ e.pid = p /\ e.stopped = b
      BY <2>2 DEF addJob, JobEntry
    <3>2. id \in DOMAIN jobs' /\ jobs'[id] = e
      BY <3>1 DEF Push
    <3> QED
      BY <3>1, <3>2 DEF Listed, Marked
  <2> QED
    BY <2>1, <2>2
<1>6. \A q \in Pids : proc'[q] # "none" /\ Listed(q) => Listed(q)'
  BY <1>3, <1>4 DEF Listed
<1>7. \A q \in Pids : Stopped(q)' /\ Marked(q) => Marked(q)'
  <2> SUFFICES ASSUME NEW q \in Pids, Stopped(q)', Marked(q)
               PROVE  Marked(q)'
    OBVIOUS
  <2>1. PICK j \in DOMAIN jobs : jobs[j].pid = q /\ jobs[j].stopped
    BY DEF Marked
  <2>2. proc'[q] # "none"
    BY DEF Stopped
  <2> QED
    BY <1>3, <1>4, <2>1, <2>2 DEF Marked
<1> QED
  BY <1>2, <1>5, <1>6, <1>7

(* Nor does removeFinishedJobs. *)
LEMMA ReapTracks ==
    ASSUME TypeOK, jobs' = Unfinished, proc' = Reaped
    PROVE  /\ \A q \in Pids : proc'[q] # "none" /\ Listed(q) => Listed(q)'
           /\ \A q \in Pids : Stopped(q)' /\ Marked(q) => Marked(q)'
           /\ \A q \in Pids : proc'[q] = proc[q] \/ (proc[q] = "zombie" /\ proc'[q] = "none")
<1>1. \A q \in Pids : proc'[q] = proc[q] \/ (proc[q] = "zombie" /\ proc'[q] = "none")
  BY DEF Reaped, Finished, TypeOK
<1>2. \A j \in DOMAIN jobs :
         proc'[jobs[j].pid] # "none" => j \in DOMAIN jobs' /\ jobs'[j] = jobs[j]
  BY DEF Reaped, Finished, Unfinished, Listed, TypeOK, JobEntry
<1> QED
  BY <1>1, <1>2 DEF Listed, Marked, Stopped

(* A mark on one entry, when every process has at most one. *)
LEMMA FlagTracks ==
    ASSUME TypeOK, OneEntryPerChild, NEW j \in DOMAIN jobs, NEW p \in Pids, p = jobs[j].pid,
           NEW b \in BOOLEAN, jobs' = SetStopped(jobs, j, b)
    PROVE  /\ \A q \in Pids : Listed(q)' <=> Listed(q)
           /\ \A q \in Pids : q # p => (Marked(q)' <=> Marked(q))
           /\ Marked(p)' <=> b
           /\ Marked(p) <=> jobs[j].stopped
<1>1. /\ DOMAIN jobs' = DOMAIN jobs
      /\ jobs'[j].stopped = b
      /\ \A k \in DOMAIN jobs : jobs'[k].pid = jobs[k].pid
      /\ \A k \in DOMAIN jobs \ {j} : jobs'[k] = jobs[k]
  BY SetStoppedType
<1>2. \A k \in DOMAIN jobs : jobs[k].pid = jobs[j].pid => k = j
  BY DEF OneEntryPerChild
<1> QED
  BY <1>1, <1>2 DEF Listed, Marked, TypeOK, JobEntry

LEMMA StopsMarkedStep ==
    ASSUME ~UnseenStops, TypeOK, Handlers, OneEntryPerChild, StopsMarked, [Next]_vars
    PROVE  StopsMarked'
<1>1. CASE StartCommand \/ PrintJobs
  <2>1. jobs' = Unfinished /\ proc' = Reaped /\ zpc' = zpc /\ zpid' = zpid
    BY <1>1 DEF StartCommand, PrintJobs, Builtin, zVars
  <2> QED
    BY <2>1, ReapTracks DEF StopsMarked, Stopped
<1>2. CASE ExternalBackground \/ ExternalForeground
  BY <1>2 DEF ExternalBackground, ExternalForeground, Fork, zVars, StopsMarked, Stopped,
              Marked, TypeOK
<1>3. CASE AddBackground
  <2>1. child \in Pids /\ addJob(child, child, FALSE) /\ zpc' = zpc /\ zpid' = zpid
    BY <1>3 DEF AddBackground, Main, Handlers, zVars
  <2> QED
    BY <2>1, AddJobTracks DEF StopsMarked, Stopped
<1>4. CASE Foreground
  <2>1. PICK j \in DOMAIN jobs, p \in Pids :
           /\ p = jobs[j].pid
           /\ jobs' = SetStopped(jobs, j, FALSE)
           /\ proc' = IF jobs[j].stopped
                      THEN [proc EXCEPT ![p] = SigCont(@)]
                      ELSE proc
    BY <1>4 DEF Foreground, TypeOK, JobEntry
  <2>2. zpc' = zpc /\ zpid' = zpid /\ zpc = "idle"
    BY <1>4 DEF Foreground, Main, Handlers, zVars
  <2>3. ~Stopped(p)'
    BY <2>1, <2>2, FlagTracks DEF StopsMarked, Stopped, SigCont, TypeOK
  <2>4. \A q \in Pids : q # p => proc'[q] = proc[q]
    BY <2>1 DEF TypeOK
  <2> QED
    BY <2>1, <2>2, <2>3, <2>4, FlagTracks DEF StopsMarked, Stopped
<1>5. CASE SetCurrPid \/ SetCurrCommand \/ ClearCurrPid \/ NoEffect \/ Crash
           \/ CtrlZ \/ CtrlC \/ CClear \/ UNCHANGED vars
  <2>1. jobs' = jobs /\ proc' = proc /\ (zpc = "add" => zpc' = zpc /\ zpid' = zpid)
    BY <1>5 DEF SetCurrPid, SetCurrCommand, ClearCurrPid, NoEffect, Builtin,
                Crash, CtrlZ, CtrlC, CClear, zVars, vars
  <2> QED
    BY <2>1 DEF StopsMarked, Stopped, Marked
<1>6. CASE WaitReturns
  BY <1>6 DEF WaitReturns, Main, Handlers, zVars, StopsMarked, Stopped, Marked, TypeOK
<1>7. CASE BackgroundById
  <2>1. PICK j \in DOMAIN jobs, p \in Pids :
           /\ p = jobs[j].pid
           /\ jobs' = SetStopped(jobs, j, FALSE)
           /\ proc' = [proc EXCEPT ![p] = SigCont(@)]
    BY <1>7 DEF BackgroundById, TypeOK, JobEntry
  <2>2. zpc' = zpc /\ zpid' = zpid
    BY <1>7 DEF BackgroundById, Builtin, zVars
  <2>3. ~Stopped(p)'
    BY <2>1, <2>2 DEF Stopped, SigCont, TypeOK
  <2>4. \A q \in Pids : q # p => proc'[q] = proc[q]
    BY <2>1 DEF TypeOK
  <2> QED
    BY <2>1, <2>2, <2>3, <2>4, FlagTracks DEF StopsMarked, Stopped
<1>8. CASE BackgroundLast
  <2>1. jobs' = jobs /\ zpc' = zpc /\ zpid' = zpid
    BY <1>8 DEF BackgroundLast, Builtin, zVars
  <2>2. \A q \in Pids : Stopped(q)' => Stopped(q)
    BY <1>8 DEF BackgroundLast, Stopped, SigCont, TypeOK
  <2> QED
    BY <2>1, <2>2 DEF StopsMarked, Marked
<1>9. CASE KillJob
  <2>1. PICK j \in DOMAIN jobs, p \in Pids, sig \in Signals :
           /\ p = jobs[j].pid
           /\ \E st \in Outcomes(sig, proc[p]) :
                proc' = [proc EXCEPT ![p] = st]
           /\ jobs' = SetStopped(jobs, j,
                        /\ sig # "CONT"
                        /\ \/ jobs[j].stopped
                           \/ Marks(sig) /\ proc[p] # "none")
    BY <1>9 DEF KillJob, TypeOK, JobEntry
  <2>2. PICK st \in Outcomes(sig, proc[p]) :
           proc' = [proc EXCEPT ![p] = st]
    BY <2>1
  <2>3. zpc' = zpc /\ zpid' = zpid /\ zpc = "idle"
    BY <1>9 DEF KillJob, Builtin, Main, Handlers, zVars
  <2>4. Stopped(p)' =>
           sig # "CONT" /\ (Stopped(p) \/ (Marks(sig) /\ proc[p] # "none"))
    BY <2>2, <2>3 DEF Stopped, TypeOK, Signals, Outcomes, Marks, SigStop, SigCont, SigKill, Live
  <2>5. Stopped(p) => jobs[j].stopped
    BY <2>1, <2>3, FlagTracks DEF StopsMarked
  <2>6. Stopped(p)' => Marked(p)'
    BY <2>1, <2>4, <2>5, FlagTracks
  <2>7. \A q \in Pids : q # p => proc'[q] = proc[q]
    BY <2>2 DEF TypeOK
  <2> QED
    BY <2>1, <2>3, <2>6, <2>7, FlagTracks DEF StopsMarked, Stopped
<1>10. CASE Quit \/ CKill
  <2>1. jobs' = jobs /\ (zpc = "add" => zpc' = zpc /\ zpid' = zpid)
    BY <1>10 DEF Quit, CKill, zVars, mainVars
  <2>2. \A q \in Pids : Stopped(q)' => Stopped(q)
    BY <1>10 DEF Quit, CKill, CtrlCSignal, Stopped, SigKill, Live, TypeOK
  <2> QED
    BY <2>1, <2>2 DEF StopsMarked, Marked
<1>11. CASE ZClear
  <2>1. proc' = proc /\ zpc = "clear"
    BY <1>11 DEF ZClear
  <2>2. \A q \in Pids : Marked(q) => Marked(q)'
    BY <1>11 DEF ZClear, Marked, TypeOK, JobEntry
  <2> QED
    BY <2>1, <2>2 DEF StopsMarked, Stopped
<1>12. CASE ZKill
  <2>1. jobs' = jobs /\ zpc = "kill" /\ zpid \in Pids
    BY <1>12 DEF ZKill, Handlers, Busy
  <2>2. \A q \in Pids : Stopped(q)' => Stopped(q) \/ (q = zpid /\ proc[q] # "none")
    BY <1>12, <2>1 DEF ZKill, CtrlZSignal, SigStop, Stopped, TypeOK
  <2>3. proc[zpid] # "none" => zpc' = "add" /\ zpid' = zpid
    BY <1>12 DEF ZKill
  <2> QED
    BY <2>1, <2>2, <2>3 DEF StopsMarked, Marked
<1>13. CASE ZAdd
  <2>1. addJob(curr_command, zpid, TRUE) /\ zpid \in Pids
        /\ curr_command \in Pids \cup {NoPid}
    BY <1>13 DEF ZAdd, Handlers, Busy, TypeOK
  <2> QED
    BY <2>1, AddJobTracks DEF StopsMarked, Stopped
<1>14. CASE \E p \in Pids : Exits(p) \/ Dies(p) \/ Stops(p)
  BY <1>14 DEF Exits, Dies, Stops, Child, zVars, StopsMarked, Stopped, Marked, TypeOK
<1> QED
  BY <1>1, <1>2, <1>3, <1>4, <1>5, <1>6, <1>7, <1>8, <1>9, <1>10, <1>11, <1>12, <1>13, <1>14
     DEF Next, Command, Waiting, ZStep, CStep, Ended

LEMMA TrackedStep ==
    ASSUME ~UnseenStops, TypeOK, Handlers, OneEntryPerChild, StopsMarked, Tracked, [Next]_vars
    PROVE  Tracked'
<1>1. CASE StartCommand \/ PrintJobs
  <2>1. jobs' = Unfinished /\ proc' = Reaped /\ pc \in {"prompt", "exec"}
    BY <1>1 DEF StartCommand, PrintJobs, Builtin, Main
  <2> QED
    BY <2>1, ReapTracks DEF Tracked
<1>2. CASE ExternalBackground \/ ExternalForeground
  BY <1>2 DEF ExternalBackground, ExternalForeground, Fork, Main, Tracked, Listed, TypeOK
<1>3. CASE AddBackground
  <2>1. child \in Pids /\ addJob(child, child, FALSE)
    BY <1>3 DEF AddBackground, Main, Handlers
  <2> QED
    BY <2>1, AddJobTracks DEF Tracked
<1>4. CASE Foreground \/ BackgroundById \/ KillJob
  <2> DEFINE OneJob(j, p, b) == /\ p = jobs[j].pid
                                /\ jobs' = SetStopped(jobs, j, b)
                                /\ \A q \in Pids : q # p => proc'[q] = proc[q]
  <2>1. \E j \in DOMAIN jobs, p \in Pids, b \in BOOLEAN : OneJob(j, p, b)
    <3>1. CASE Foreground
      BY <3>1 DEF Foreground, TypeOK, JobEntry
    <3>2. CASE BackgroundById
      BY <3>2 DEF BackgroundById, TypeOK, JobEntry
    <3>3. CASE KillJob
      BY <3>3 DEF KillJob, TypeOK, JobEntry
    <3> QED
      BY <1>4, <3>1, <3>2, <3>3
  <2>2. PICK j \in DOMAIN jobs, p \in Pids, b \in BOOLEAN : OneJob(j, p, b)
    BY <2>1
  <2>3. Listed(p) /\ pc = "exec"
    BY <1>4, <2>2 DEF Listed, Foreground, BackgroundById, KillJob, Builtin, Main
  <2> QED
    BY <2>2, <2>3, FlagTracks DEF Tracked
<1>5. CASE SetCurrPid \/ SetCurrCommand \/ ClearCurrPid \/ NoEffect \/ Crash
           \/ CtrlZ \/ CtrlC \/ CClear \/ UNCHANGED vars
  BY <1>5 DEF SetCurrPid, SetCurrCommand, ClearCurrPid, NoEffect, Builtin, Main,
              Crash, CtrlZ, CtrlC, CClear, mainVars, vars, Tracked, Listed
<1>6. CASE WaitReturns
  <2>1. /\ jobs' = jobs /\ child \in Pids /\ zpc = "idle"
        /\ proc' = [proc EXCEPT ![child] = IF @ = "stopping" THEN "stopped" ELSE "none"]
    BY <1>6 DEF WaitReturns, Main, Handlers, Busy
  <2>2. proc'[child] # "none" => Listed(child)
    BY <2>1 DEF StopsMarked, Stopped, Marked, Listed, TypeOK
  <2> QED
    BY <2>1, <2>2 DEF Tracked, Listed, TypeOK
<1>7. CASE BackgroundLast \/ Quit \/ CKill \/ ZKill
  <2>1. /\ jobs' = jobs
        /\ pc \in {"add", "launch", "name", "wait"} => pc' = pc /\ child' = child
    BY <1>7 DEF BackgroundLast, Builtin, Main, Quit, CKill, ZKill, mainVars
  <2>2. \A q \in Pids : proc[q] = "none" => proc'[q] = "none"
    BY <1>7 DEF BackgroundLast, Quit, CKill, ZKill, CtrlCSignal, CtrlZSignal, SigCont,
                SigKill, SigStop, Live, TypeOK
  <2> QED
    BY <2>1, <2>2 DEF Tracked, Listed
<1>8. CASE ZClear
  <2>1. \A q \in Pids : Listed(q) => Listed(q)'
    BY <1>8 DEF ZClear, Listed, TypeOK, JobEntry
  <2> QED
    BY <1>8, <2>1 DEF ZClear, mainVars, Tracked
<1>9. CASE ZAdd
  <2>1. addJob(curr_command, zpid, TRUE) /\ zpid \in Pids
        /\ curr_command \in Pids \cup {NoPid} /\ pc' = pc /\ child' = child
    BY <1>9 DEF ZAdd, Handlers, Busy, TypeOK
  <2> QED
    BY <2>1, AddJobTracks DEF Tracked
<1>10. CASE \E p \in Pids : Exits(p) \/ Dies(p) \/ Stops(p)
  BY <1>10 DEF Exits, Dies, Stops, Child, mainVars, Tracked, Listed, TypeOK
<1> QED
  BY <1>1, <1>2, <1>3, <1>4, <1>5, <1>6, <1>7, <1>8, <1>9, <1>10
     DEF Next, Command, Waiting, ZStep, CStep, Ended

LEMMA WaitEndsStep ==
    ASSUME ~UnseenStops, TypeOK, Handlers, OneEntryPerChild, StopsMarked, WaitEnds, [Next]_vars
    PROVE  WaitEnds'
<1> USE NoPidIsNoPid DEF WaitEnds, Reportable
<1>1. CASE StartCommand \/ AddBackground \/ Builtin \/ Crash \/ Quit
           \/ WaitReturns \/ ClearCurrPid \/ ExternalBackground
  BY <1>1 DEF StartCommand, AddBackground, Builtin, Crash, Quit, WaitReturns,
              ClearCurrPid, ExternalBackground, Fork
<1>2. CASE ExternalForeground
  BY <1>2 DEF ExternalForeground, Fork, TypeOK
<1>3. CASE Foreground
  <2>1. PICK j \in DOMAIN jobs, p \in Pids :
           /\ p = jobs[j].pid /\ child' = p
           /\ jobs' = SetStopped(jobs, j, FALSE)
           /\ proc' = IF jobs[j].stopped THEN [proc EXCEPT ![p] = SigCont(@)] ELSE proc
    BY <1>3 DEF Foreground, TypeOK, JobEntry
  <2>2. pc' = "launch" /\ zpc = "idle"
    BY <1>3 DEF Foreground, Main, Handlers
  <2>3. proc'[p] # "stopped"
    BY <2>1, <2>2, FlagTracks DEF StopsMarked, Stopped, SigCont, TypeOK
  <2> QED
    BY <2>1, <2>2, <2>3
<1>4. CASE SetCurrPid
  BY <1>4 DEF SetCurrPid, Main, Handlers
<1>5. CASE SetCurrCommand
  BY <1>5 DEF SetCurrCommand, Main, zVars, cVars
<1>6. CASE CtrlZ
  BY <1>6 DEF CtrlZ, mainVars, cVars
<1>7. CASE CtrlC
  BY <1>7 DEF CtrlC, mainVars, zVars
<1>8. CASE ZClear
  BY <1>8 DEF ZClear, mainVars, cVars
<1>9. CASE CClear
  BY <1>9 DEF CClear, mainVars, zVars
<1>10. CASE ZKill
  <2>1. child = zpid /\ zpid \in Pids /\ child' = child /\ pc' = pc
        /\ proc' = [proc EXCEPT ![child] = SigStop(@)]
    BY <1>10 DEF ZKill, CtrlZSignal, Handlers, Busy, mainVars
  <2>2. proc[child] # "stopped" =>
           proc'[child] \in {"none", "zombie", "stopping", "dying"}
    BY <2>1 DEF SigStop, TypeOK, Status
  <2> QED
    BY <2>1, <2>2
<1>11. CASE CKill
  <2>1. child = cpid /\ cpid \in Pids /\ child' = child /\ pc' = pc
        /\ proc' = [proc EXCEPT ![child] = SigKill(@)]
    BY <1>11 DEF CKill, CtrlCSignal, Handlers, Busy, mainVars
  <2>2. proc'[child] \in {"none", "zombie", "dying"}
    BY <2>1 DEF SigKill, Live, TypeOK, Status
  <2> QED
    BY <2>1, <2>2
<1>12. CASE ZAdd
  <2>1. addJob(curr_command, zpid, TRUE) /\ zpid \in Pids /\ child \in Pids
        /\ curr_command \in Pids \cup {NoPid} /\ pc' = pc /\ child' = child
        /\ cpc' = cpc /\ curr_pid' = curr_pid /\ zpc = "add"
    BY <1>12 DEF ZAdd, Handlers, Busy, TypeOK, cVars
  <2>2. proc'[child] = proc[child] \/ proc'[child] = "none"
    BY <2>1, AddJobTracks
  <2> QED
    BY <2>1, <2>2
<1>13. CASE \E p \in Pids : Exits(p) \/ Dies(p) \/ Stops(p)
  <2>1. /\ pc' = pc /\ child' = child /\ curr_pid' = curr_pid /\ zpc' = zpc /\ cpc' = cpc
        /\ \A q \in Pids : \/ proc'[q] = proc[q]
                           \/ proc[q] \in {"running", "dying"} /\ proc'[q] = "zombie"
    BY <1>13 DEF Exits, Dies, Stops, Child, mainVars, zVars, cVars, TypeOK
  <2>2. pc \in {"launch", "name", "wait"} => child \in Pids
    BY DEF Handlers, Busy
  <2>3. pc \in {"launch", "name", "wait"} =>
           \/ proc'[child] = proc[child]
           \/ proc[child] # "stopped" /\ proc'[child] = "zombie"
    BY <2>1, <2>2
  <2> QED
    BY <2>1, <2>3
<1>14. CASE UNCHANGED vars
  BY <1>14 DEF vars
<1> QED
  BY <1>1, <1>2, <1>3, <1>4, <1>5, <1>6, <1>7, <1>8, <1>9, <1>10, <1>11, <1>12, <1>13, <1>14
     DEF Next, Command, Waiting, ZStep, CStep, Ended, BackgroundById, BackgroundLast,
         KillJob, PrintJobs, NoEffect

LEMMA AllKilledStep ==
    ASSUME ~UnseenStops, TypeOK, Handlers, Tracked, AllKilled, [Next]_vars
    PROVE  AllKilled'
<1> SUFFICES ASSUME pc' = "exitkill", NEW p \in Pids
             PROVE  proc'[p] \notin Live
  BY DEF AllKilled
<1>1. CASE Quit
  <2>1. pc = "exec" /\ proc' = [q \in Pids |-> IF q \in Killed THEN SigKill(proc[q]) ELSE proc[q]]
    BY <1>1 DEF Quit, Main
  <2>2. proc[p] # "none" => p \in Killed
    BY <2>1 DEF Tracked, Listed, Killed
  <2> QED
    BY <2>1, <2>2 DEF SigKill, Live, TypeOK, Status
<1>2. CASE pc = "exitkill"
  <2>1. proc'[p] = proc[p] \/ proc'[p] = "zombie"
    BY <1>2, Quiet
       DEF Next, StartCommand, AddBackground, Waiting, SetCurrPid, SetCurrCommand,
           WaitReturns, ClearCurrPid, Command, ExternalBackground, ExternalForeground,
           Fork, Foreground, BackgroundById, BackgroundLast, Crash, KillJob,
           PrintJobs, NoEffect, Quit, Builtin, Main, CtrlZ, ZStep, ZClear, ZKill, ZAdd,
           CtrlC, CStep, CClear, CKill, Running, Exits, Dies, Stops, Child, Ended, vars,
           TypeOK
  <2> QED
    BY <1>2, <2>1 DEF AllKilled, Live
<1> QED
  BY <1>1, <1>2
     DEF Next, StartCommand, AddBackground, Waiting, SetCurrPid, SetCurrCommand,
         WaitReturns, ClearCurrPid, Command, ExternalBackground, ExternalForeground,
         Fork, Foreground, BackgroundById, BackgroundLast, Crash, KillJob,
         PrintJobs, NoEffect, Builtin, CtrlZ, ZStep, ZClear, ZKill, ZAdd,
         CtrlC, CStep, CClear, CKill, Exits, Dies, Stops, Child, Ended, vars, mainVars

LEMMA InitSeen == Init => SeenInv
BY DEF Init, SeenInv, StopsMarked, Tracked, WaitEnds, AllKilled, Stopped

LEMMA SeenStep == Inv /\ SeenInv /\ [Next]_vars => SeenInv'
BY StopsMarkedStep, TrackedStep, WaitEndsStep, AllKilledStep DEF Inv, SeenInv

(* Both invariants hold throughout. *)
THEOREM SeenInvHolds == Spec => [](Inv /\ SeenInv)
BY InitInv, InitSeen, InvHolds, SeenStep, PTL DEF Spec

-----------------------------------------------------------------------------
(* The properties of Smash. *)

(* Every variable keeps its type. *)
THEOREM TypeCorrect == Spec => []TypeOK
BY InvHolds, PTL DEF Inv

(* kill, fg, bg and quit only ever signal children of the shell. *)
THEOREM NoStalePid == Spec => []JobsAreChildren
BY InvHolds, PTL DEF Inv

(* A new child is never taken for a job of the list. *)
THEOREM NoAlias == Spec => []ChildIsNew
BY InvHolds, PTL DEF Inv

(* No process has two entries. *)
THEOREM SingleEntry == Spec => []OneEntryPerChild
BY InvHolds, PTL DEF Inv

(* No child is lost between commands. *)
THEOREM ChildrenAreListed == Spec => []NoLostChild
<1>1. Inv /\ SeenInv => NoLostChild
  BY DEF Inv, SeenInv, Tracked, NoLostChild, AtRest
<1> QED
  BY SeenInvHolds, <1>1, PTL

(* fg and bg always know that a process is stopped. *)
THEOREM StopsAreMarked == Spec => []StoppedIsMarked
<1>1. Inv /\ SeenInv => StoppedIsMarked
  <2> SUFFICES ASSUME Inv, SeenInv, AtRest, ~UnseenStops, NEW j \in DOMAIN jobs,
                      Stopped(jobs[j].pid)
               PROVE  jobs[j].stopped
    BY DEF StoppedIsMarked, Stopped
  <2>1. jobs[j].pid \in Pids /\ zpc = "idle"
    BY DEF Inv, TypeOK, JobEntry, Handlers, AtRest
  <2>2. Marked(jobs[j].pid)
    BY <2>1 DEF SeenInv, StopsMarked
  <2> QED
    BY <2>2 DEF Marked, Inv, OneEntryPerChild
<1> QED
  BY SeenInvHolds, <1>1, PTL

(* A wait that no key can end any more ends by itself. *)
THEOREM WaitIsNeverStuck == Spec => []NoStuckWait
<1>1. Inv /\ SeenInv => NoStuckWait
  BY DEF Inv, SeenInv, WaitEnds, NoStuckWait, Handlers
<1> QED
  BY SeenInvHolds, <1>1, PTL

(* quit kill leaves no process alive. *)
THEOREM QuitKills == Spec => []QuitKillReachesAll
<1>1. Inv /\ SeenInv => QuitKillReachesAll
  BY DEF SeenInv, AllKilled, QuitKillReachesAll
<1> QED
  BY SeenInvHolds, <1>1, PTL

-----------------------------------------------------------------------------
(* The name a job is listed under. *)

(* A key may still arrive, or Ctrl-Z is being handled. *)
CanBeListed == curr_pid # NoPid \/ zpc # "idle"

(* Until it has read the command, the entry fg points to is its child's,   *)
(* unless Ctrl-Z has already been handled.                                 *)
PointsToChild ==
    op = "fg" /\ (pc = "launch" \/ (pc = "name" /\ CanBeListed)) =>
        entry \in DOMAIN jobs /\ jobs[entry].pid = child

(* From then on curr_command is the child's name: it is the child's own    *)
(* or the one the child is listed under.                                   *)
NameIsKnown(p) ==
    \/ curr_command = p
    \/ \E i \in DOMAIN jobs : jobs[i].pid = p /\ jobs[i].command = curr_command

CommandIsChilds ==
    pc \in {"wait", "clear"} /\ CanBeListed => NameIsKnown(child)

(* Once ctrlZHandler has cleared curr_pid it stays cleared: the main       *)
(* program does not run before the handler has returned.                   *)
Cleared == zpc \in {"kill", "add"} => curr_pid = NoPid

NameInv == PointsToChild /\ CommandIsChilds /\ Cleared

(* A step that leaves the pids and the commands of the list alone, and the *)
(* variables of the command that waits, breaks neither part.               *)
LEMMA NameKept ==
    ASSUME Handlers, NameInv, CanBeListed' => CanBeListed,
           DOMAIN jobs' = DOMAIN jobs,
           \A j \in DOMAIN jobs : /\ jobs'[j].pid = jobs[j].pid
                                  /\ jobs'[j].command = jobs[j].command,
           Cleared', UNCHANGED <<pc, op, child, entry, curr_command>>
    PROVE  NameInv'
BY DEF Handlers, NameInv, PointsToChild, CommandIsChilds, NameIsKnown, CanBeListed

LEMMA NameStep ==
    ASSUME TypeOK, Handlers, NameInv, [Next]_vars
    PROVE  NameInv'
<1>0. Cleared'
  BY NoPidIsNoPid
     DEF NameInv, Cleared, Handlers, Next, StartCommand, AddBackground, Waiting,
         SetCurrPid, SetCurrCommand, WaitReturns, ClearCurrPid, Command, Main,
         ExternalBackground, ExternalForeground, Fork, Foreground, BackgroundById,
         BackgroundLast, Crash, KillJob, PrintJobs, NoEffect, Quit, Builtin,
         CtrlZ, ZStep, ZClear, ZKill, ZAdd, ZReturns, CtrlC, CStep, CClear, CKill,
         CReturns, Exits, Dies, Stops, Child, Ended, vars, zVars
<1>1. CASE StartCommand \/ AddBackground \/ ClearCurrPid \/ Builtin
           \/ Crash \/ Quit
  BY <1>0, <1>1 DEF StartCommand, AddBackground, ClearCurrPid, Builtin, Crash,
     Quit, NameInv, PointsToChild, CommandIsChilds
<1>2. CASE ExternalBackground \/ ExternalForeground
  BY <1>0, <1>2 DEF ExternalBackground, ExternalForeground, Fork, NameInv, PointsToChild,
     CommandIsChilds
<1>3. CASE Foreground
  <2>1. PICK j \in DOMAIN jobs :
           child' = jobs[j].pid /\ entry' = j /\ jobs' = SetStopped(jobs, j, FALSE)
    BY <1>3 DEF Foreground
  <2>2. DOMAIN jobs' = DOMAIN jobs /\ jobs'[j].pid = jobs[j].pid
    BY <2>1, SetStoppedType
  <2> QED
    BY <1>0, <1>3, <2>1, <2>2 DEF Foreground, NameInv, PointsToChild, CommandIsChilds
<1>4. CASE SetCurrPid
  BY <1>0, <1>4 DEF SetCurrPid, Main, NameInv, PointsToChild, CommandIsChilds
<1>5. CASE SetCurrCommand
  <2>1. pc = "name" /\ pc' = "wait" /\ (CanBeListed' <=> CanBeListed)
    BY <1>5 DEF SetCurrCommand, Main, zVars, CanBeListed
  <2>2. CanBeListed => NameIsKnown(child)'
    <3> SUFFICES ASSUME CanBeListed
                 PROVE  NameIsKnown(child)'
      OBVIOUS
    <3>1. CASE op = "external"
      BY <1>5, <3>1 DEF SetCurrCommand, NameIsKnown
    <3>2. CASE op = "fg"
      <4>1. entry \in DOMAIN jobs /\ jobs[entry].pid = child
        BY <2>1, <3>2 DEF NameInv, PointsToChild
      <4>2. entry # 0
        BY <4>1, SmashAssumption DEF TypeOK, JobIds, SmashAssumption
      <4> QED
        BY <1>5, <3>2, <4>1, <4>2 DEF SetCurrCommand, NameIsKnown
    <3> QED
      BY <3>1, <3>2 DEF TypeOK
  <2> QED
    BY <1>0, <2>1, <2>2 DEF NameInv, PointsToChild, CommandIsChilds
<1>6. CASE WaitReturns
  BY <1>0, <1>6 DEF WaitReturns, Main, NameInv, PointsToChild, CommandIsChilds, NameIsKnown,
     CanBeListed, zVars
<1>7. CASE CtrlZ \/ CtrlC
  <2>1. CanBeListed /\ jobs' = jobs /\ UNCHANGED <<mainVars, curr_command>>
    BY <1>7 DEF CtrlZ, CtrlC, CanBeListed
  <2> QED
    BY <1>0, <2>1, NameKept DEF mainVars
<1>8. CASE ZClear
  <2>1. CanBeListed /\ UNCHANGED <<mainVars, curr_command>>
    BY <1>8 DEF ZClear, CanBeListed
  <2>2. /\ DOMAIN jobs' = DOMAIN jobs
        /\ \A j \in DOMAIN jobs : /\ jobs'[j].pid = jobs[j].pid
                                  /\ jobs'[j].command = jobs[j].command
    BY <1>8 DEF ZClear, TypeOK, JobEntry
  <2> QED
    BY <1>0, <2>1, <2>2, NameKept DEF mainVars
<1>9. CASE ZKill \/ CClear \/ CKill
  <2>1. /\ CanBeListed' => CanBeListed
        /\ jobs' = jobs /\ UNCHANGED <<mainVars, curr_command>>
    BY <1>9 DEF ZKill, ZReturns, CClear, CKill, CanBeListed, zVars
  <2> QED
    BY <1>0, <2>1, NameKept DEF mainVars
<1>10. CASE ZAdd
  <2>1. pc \in Busy /\ pc' = pc
    BY <1>10 DEF ZAdd, Handlers
  <2>2. ~CanBeListed'
    BY <1>10 DEF ZAdd, ZReturns, CanBeListed, NameInv, Cleared
  <2> QED
    BY <1>0, <2>1, <2>2 DEF NameInv, PointsToChild, CommandIsChilds, Busy
<1>11. CASE \E p \in Pids : Exits(p) \/ Dies(p) \/ Stops(p)
  BY <1>0, <1>11, NameKept DEF Exits, Dies, Stops, Child, mainVars, zVars, CanBeListed
<1>12. CASE UNCHANGED vars
  BY <1>0, <1>12, NameKept DEF vars, CanBeListed
<1> QED
  BY <1>1, <1>2, <1>3, <1>4, <1>5, <1>6, <1>7, <1>8, <1>9, <1>10, <1>11, <1>12
     DEF Next, Command, Waiting, ZStep, CStep, Ended, BackgroundById, BackgroundLast,
         KillJob, PrintJobs, NoEffect

LEMMA InitName == Init => NameInv
BY DEF Init, NameInv, PointsToChild, CommandIsChilds, Cleared

(* Every step keeps the names of the jobs it does not list, and lists a    *)
(* job under its own name except as NamedInTime says.                      *)
LEMMA NewNames ==
    ASSUME TypeOK, Handlers, NameInv, [Next]_vars,
           NEW j \in DOMAIN jobs' \ DOMAIN jobs
    PROVE  \/ jobs'[j].command = jobs'[j].pid
           \/ pc = "name"
           \/ \E i \in DOMAIN jobs : /\ jobs[i].pid = jobs'[j].pid
                                     /\ jobs[i].command = jobs'[j].command
<1>1. ASSUME NEW p, NEW c, NEW b, addJob(c, p, b)
      PROVE  jobs'[j].pid = p /\ jobs'[j].command = c
  <2>1. j \notin DOMAIN Unfinished
    BY UnfinishedType
  <2>2. CASE \E i \in DOMAIN Unfinished : Unfinished[i].pid = p
    BY <1>1, <2>1, <2>2 DEF addJob, MarkStopped
  <2>3. CASE ~\E i \in DOMAIN Unfinished : Unfinished[i].pid = p
    <3> DEFINE new == [pid |-> p, stopped |-> b,
                       type |-> IF b THEN "STOP" ELSE "BACKGROUND", command |-> c]
    <3>1. PICK id \in JobIds : jobs' = Push(Unfinished, id, new)
      BY <1>1, <2>3 DEF addJob
    <3>2. new.pid = p /\ new.command = c
      OBVIOUS
    <3> HIDE DEF new
    <3>3. j \in DOMAIN Unfinished \cup {id} /\ jobs'[j] = new
      BY <2>1, <3>1 DEF Push
    <3> QED
      BY <3>2, <3>3
  <2> QED
    BY <2>2, <2>3
<1>2. CASE AddBackground
  <2>1. addJob(child, child, FALSE)
    BY <1>2 DEF AddBackground
  <2> QED
    BY <1>1, <2>1
<1>3. CASE ZAdd
  <2>1. pc \in Busy /\ zpid = child /\ CanBeListed
    BY <1>3 DEF ZAdd, Handlers, CanBeListed
  <2>2. addJob(curr_command, zpid, TRUE)
    BY <1>3 DEF ZAdd
  <2>3. jobs'[j].pid = child /\ jobs'[j].command = curr_command
    BY <1>1, <2>1, <2>2
  <2>4. CASE pc = "name"
    BY <2>4
  <2>5. CASE pc \in {"wait", "clear"}
    <3>1. NameIsKnown(child)
      BY <2>1, <2>5 DEF NameInv, CommandIsChilds
    <3> QED
      BY <2>3, <3>1 DEF NameIsKnown
  <2> QED
    BY <2>1, <2>4, <2>5 DEF Busy
<1>4. CASE DOMAIN jobs' \subseteq DOMAIN jobs
  BY <1>4
<1>5. StartCommand \/ PrintJobs => DOMAIN jobs' \subseteq DOMAIN jobs
  BY UnfinishedType DEF StartCommand, PrintJobs
<1>6. Foreground \/ BackgroundById \/ KillJob => DOMAIN jobs' \subseteq DOMAIN jobs
  BY DEF Foreground, BackgroundById, KillJob, SetStopped
<1>7. ZClear => DOMAIN jobs' \subseteq DOMAIN jobs
  BY DEF ZClear
<1> QED
  BY <1>2, <1>3, <1>4, <1>5, <1>6, <1>7
     DEF Next, Ended, Command, Waiting, ZStep, CStep, ExternalBackground,
         ExternalForeground, Fork, BackgroundLast, Crash, NoEffect, Quit,
         SetCurrPid, SetCurrCommand, WaitReturns, ClearCurrPid, CtrlZ, ZKill, CtrlC,
         CClear, CKill, Exits, Dies, Stops, Child, vars

(* The names are known throughout. *)
THEOREM NameInvHolds == Spec => [](Inv /\ NameInv)
<1>1. Inv /\ NameInv /\ [Next]_vars => NameInv'
  BY NameStep DEF Inv
<1> QED
  BY InitName, InvHolds, <1>1, PTL DEF Spec

(* A wrong name comes only from Ctrl-Z before curr_command is assigned. *)
THEOREM NamesAreRight == Spec => NamedInTime
<1>1. Inv /\ NameInv /\ [Next]_vars =>
        [ \A j \in DOMAIN jobs' \ DOMAIN jobs :
            \/ jobs'[j].command = jobs'[j].pid
            \/ pc = "name"
            \/ \E i \in DOMAIN jobs : /\ jobs[i].pid = jobs'[j].pid
                                      /\ jobs[i].command = jobs'[j].command ]_vars
  BY NewNames DEF Inv
<1> QED
  BY NameInvHolds, <1>1, PTL DEF Spec, NamedInTime

=============================================================================
