------------------------------- MODULE Smash -------------------------------
(***************************************************************************)
(* The job control of the small shell (src/hw1): the main loop of          *)
(* smash.cpp, the commands that change the jobs list, the two signal       *)
(* handlers of signals.cpp, and the child processes they act on.           *)
(*                                                                         *)
(* The shell is one thread.  Either the main program executes or one of    *)
(* the handlers does; a handler interrupts the main program between any    *)
(* two of its steps, and the two handlers may interrupt one another but    *)
(* not themselves, because signal() blocks a signal while its handler      *)
(* runs.  The children run on their own.                                   *)
(***************************************************************************)
EXTENDS Integers

CONSTANTS
    Pids,         \* process ids the kernel gives to children; recycled
    MaxJobId,     \* bound on job ids (the code has none)
    UnseenStops   \* may a child stop without the shell's doing (SIGTTIN...)?

ASSUME SmashAssumption ==
    /\ Pids \subseteq Nat \ {0}
    /\ MaxJobId \in Nat \ {0}
    /\ UnseenStops \in BOOLEAN

NoPid  == 0
JobIds == 1..MaxJobId

(* A child: not a child (never forked, or reaped), running, stopped with   *)
(* the stop not yet reported by waitpid, stopped and reported, killed but  *)
(* not dead yet, dead but not reaped.                                      *)
Status == {"none", "running", "stopping", "stopped", "dying", "zombie"}
Live   == {"running", "stopping", "stopped"}

(* One entry of the vector.  A command is named by the pid it was started  *)
(* as; 0 is the empty string.                                              *)
JobEntry == [pid : Pids, stopped : BOOLEAN, type : {"STOP", "BACKGROUND"},
             command : Pids \cup {NoPid}]

VARIABLES
    jobs,          \* JobsList::jobs, by job_id (the vector is sorted by it)
    proc,          \* status of every pid
    curr_pid,      \* SmallShell::curr_pid
    curr_command,  \* SmallShell::curr_command
    pc,            \* where the main program is
    op,            \* which command is waiting: an external one or fg
    child,         \* local p_id of ExternalCommand, pid of ForegroundCommand
    entry,         \* fg's JobEntry pointer: its job_id, 0 once it dangles
    run,           \* who executes: the main program or a handler
    zpc, zpid,     \* ctrlZHandler: where it is, its local pid
    cpc, cpid      \* ctrlCHandler: where it is, its local pid

mainVars == <<pc, op, child, entry>>
zVars    == <<zpc, zpid>>
cVars    == <<cpc, cpid>>
vars     == <<jobs, proc, curr_pid, curr_command, pc, op, child, entry, run,
              zpc, zpid, cpc, cpid>>

TypeOK ==
    /\ DOMAIN jobs \subseteq JobIds
    /\ jobs \in [DOMAIN jobs -> JobEntry]
    /\ proc \in [Pids -> Status]
    /\ curr_pid \in Pids \cup {NoPid}
    /\ curr_command \in Pids \cup {NoPid}
    /\ pc \in {"prompt", "exec", "add", "launch", "name", "wait", "clear",
               "exit", "exitkill", "crash"}
    /\ op \in {"external", "fg"}
    /\ child \in Pids \cup {NoPid}
    /\ entry \in JobIds \cup {0}
    /\ run \in {"main", "Z", "C"}
    /\ zpc \in {"idle", "clear", "kill", "add"}
    /\ zpid \in Pids \cup {NoPid}
    /\ cpc \in {"idle", "clear", "kill"}
    /\ cpid \in Pids \cup {NoPid}

Init ==
    /\ jobs = [j \in {} |-> 0]
    /\ proc = [p \in Pids |-> "none"]
    /\ curr_pid = NoPid
    /\ curr_command = NoPid
    /\ pc = "prompt"
    /\ op = "external"
    /\ child = NoPid
    /\ entry = 0
    /\ run = "main"
    /\ zpc = "idle" /\ zpid = NoPid
    /\ cpc = "idle" /\ cpid = NoPid

-----------------------------------------------------------------------------
(* What a signal does to a child. *)

SigStop(st) == IF st = "running" THEN "stopping" ELSE st
SigCont(st) == IF st \in {"stopping", "stopped"} THEN "running" ELSE st
SigKill(st) == IF st \in Live THEN "dying" ELSE st

Signals == {"STOP", "TSTP", "INT", "CONT", "KILL", "TERM"}
           \cup (IF UnseenStops THEN {"TTIN"} ELSE {})

(* A child may catch or ignore every signal but SIGSTOP and SIGKILL. *)
Outcomes(sig, st) ==
    CASE sig = "STOP" -> {SigStop(st)}
      [] sig = "CONT" -> {SigCont(st)}
      [] sig = "KILL" -> {SigKill(st)}
      [] sig \in {"TSTP", "TTIN"} -> {st, SigStop(st)}
      [] OTHER -> {st, IF st = "running" THEN "dying" ELSE st}

-----------------------------------------------------------------------------
(* JobsList. *)

(* waitpid(p, NULL, WNOHANG) # 0: the child is dead, or there is none. *)
Finished(p) == proc[p] \in {"none", "zombie"}

Listed(p) == \E j \in DOMAIN jobs : jobs[j].pid = p

(* removeFinishedJobs(): the entries that stay, and the children reaped. *)
UnfinishedOnlyReaped ==  \* mutant: drops an entry only when waitpid > 0
    [j \in {k \in DOMAIN jobs : proc[jobs[k].pid] # "zombie"} |-> jobs[j]]
UnfinishedUntraced ==    \* mutant: WNOHANG | WUNTRACED
    [j \in {k \in DOMAIN jobs : proc[jobs[k].pid] \notin {"none", "zombie", "stopping"}}
        |-> jobs[j]]
Unfinished ==
    [j \in {k \in DOMAIN jobs : ~Finished(jobs[k].pid)} |-> jobs[j]]
Reaped ==
    [p \in Pids |-> IF Listed(p) /\ Finished(p) THEN "none" ELSE proc[p]]

(* The id addJob gives: back().job_id + 1, or 1. *)
IsNextId(js, id) ==
    /\ \A k \in DOMAIN js : k < id
    /\ IF DOMAIN js = {} THEN id = 1 ELSE id - 1 \in DOMAIN js

(* push_back of a new entry. *)
Push(js, id, e) == [j \in DOMAIN js \cup {id} |-> IF j = id THEN e ELSE js[j]]

(* stop() and _continue_() set the flag of one entry. *)
SetStopped(js, j, flag) == [js EXCEPT ![j] = [@ EXCEPT !.stopped = flag]]

(* stop() on the entry of p. *)
MarkStoppedForgets(js, p) == js  \* mutant: addJob finds the job, returns
MarkStopped(js, p) ==
    [j \in DOMAIN js |->
        IF js[j].pid = p THEN [js[j] EXCEPT !.stopped = TRUE] ELSE js[j]]

addJobAlways(cmd, p, isStopped) ==  \* mutant: does not look for the pid
    /\ proc' = Reaped
    /\ \E id \in JobIds :
         /\ IsNextId(Unfinished, id)
         /\ jobs' = Push(Unfinished, id,
                         [pid |-> p, stopped |-> isStopped,
                          type |-> IF isStopped THEN "STOP" ELSE "BACKGROUND",
                          command |-> cmd])
addJob(cmd, p, isStopped) ==
    /\ proc' = Reaped
    /\ IF \E j \in DOMAIN Unfinished : Unfinished[j].pid = p
       THEN jobs' = MarkStopped(Unfinished, p)
       ELSE \E id \in JobIds :
              /\ IsNextId(Unfinished, id)
              /\ jobs' = Push(Unfinished, id,
                              [pid |-> p, stopped |-> isStopped,
                               type |-> IF isStopped THEN "STOP" ELSE "BACKGROUND",
                               command |-> cmd])

(* Bound: commands that may add a job start only while an id is left. *)
Room == \A j \in DOMAIN jobs : j < MaxJobId

-----------------------------------------------------------------------------
(* The main program. *)

Main(from) == run = "main" /\ pc = from

(* A line is read; executeCommand drops the finished jobs, whatever the    *)
(* command is.  (chprompt, the one line that does not, changes nothing     *)
(* that is modelled.)                                                      *)
StartCommand ==
    /\ Main("prompt")
    /\ pc' = "exec"
    /\ jobs' = Unfinished
    /\ proc' = Reaped
    /\ UNCHANGED <<curr_pid, curr_command, op, child, entry, run, zVars, cVars>>

(* ExternalCommand: fork; the kernel gives any pid that is free. *)
Fork(next) ==
    /\ Main("exec") /\ Room
    /\ \E p \in Pids :
         /\ proc[p] = "none"
         /\ proc' = [proc EXCEPT ![p] = "running"]
         /\ child' = p
    /\ op' = "external"
    /\ pc' = next
    /\ UNCHANGED <<jobs, curr_pid, curr_command, entry, run, zVars, cVars>>

ExternalBackground == Fork("add")
ExternalForeground == Fork("launch")

AddBackground ==
    /\ Main("add")
    /\ addJob(child, child, FALSE)
    /\ pc' = "prompt"
    /\ child' = NoPid
    /\ UNCHANGED <<curr_pid, curr_command, op, entry, run, zVars, cVars>>

(* ForegroundCommand, with and without an id: any entry may be asked for. *)
Foreground ==
    /\ Main("exec") /\ Room
    /\ \E j \in DOMAIN jobs :
         /\ child' = jobs[j].pid
         /\ entry' = j
         /\ jobs' = SetStopped(jobs, j, FALSE)
         /\ proc' = IF jobs[j].stopped
                    THEN [proc EXCEPT ![jobs[j].pid] = SigCont(@)]
                    ELSE proc
    /\ op' = "fg"
    /\ pc' = "launch"
    /\ UNCHANGED <<curr_pid, curr_command, run, zVars, cVars>>

SetCurrGroup ==  \* mutant: the process group, to signal the whole job
    /\ Main("launch")
    /\ curr_pid' = -child
    /\ pc' = "name"
    /\ UNCHANGED <<jobs, proc, curr_command, op, child, entry, run, zVars, cVars>>
SetCurrPid ==
    /\ Main("launch")
    /\ curr_pid' = child
    /\ pc' = "name"
    /\ UNCHANGED <<jobs, proc, curr_command, op, child, entry, run, zVars, cVars>>

LeaveCurrCommand ==  \* mutant: the command is not recorded
    /\ Main("name")
    /\ entry' = 0
    /\ pc' = "wait"
    /\ UNCHANGED <<jobs, proc, curr_pid, curr_command, op, child, run, zVars, cVars>>
(* The entry fg points to may have moved or gone since: then it reads      *)
(* whatever is there.                                                      *)
SetCurrCommand ==
    /\ Main("name")
    /\ IF op = "external" THEN curr_command' = child
       ELSE IF entry # 0 THEN curr_command' = jobs[entry].command
       ELSE curr_command' \in Pids \cup {NoPid}
    /\ entry' = 0
    /\ pc' = "wait"
    /\ UNCHANGED <<jobs, proc, curr_pid, op, child, run, zVars, cVars>>

(* waitpid(child, NULL, WUNTRACED) has something to report. *)
Reportable(p) == proc[p] \in {"none", "zombie", "stopping"}

WaitReturns ==
    /\ Main("wait") /\ Reportable(child)
    /\ proc' = [proc EXCEPT ![child] =
                    IF @ = "stopping" THEN "stopped" ELSE "none"]
    /\ pc' = "clear"
    /\ UNCHANGED <<jobs, curr_pid, curr_command, op, child, entry, run, zVars, cVars>>

ClearCurrPid ==
    /\ Main("clear")
    /\ curr_pid' = NoPid
    /\ curr_command' = IF op = "external" THEN NoPid ELSE curr_command
    /\ pc' = "prompt"
    /\ op' = "external"
    /\ child' = NoPid
    /\ UNCHANGED <<jobs, proc, entry, run, zVars, cVars>>

(* A command that ends within one step. *)
Builtin ==
    /\ Main("exec")
    /\ pc' = "prompt"
    /\ UNCHANGED <<curr_pid, curr_command, op, child, entry, run, zVars, cVars>>

(* bg with an id: only an entry marked as stopped is continued. *)
BackgroundById ==
    /\ Builtin
    /\ \E j \in DOMAIN jobs :
         /\ jobs[j].stopped
         /\ jobs' = SetStopped(jobs, j, FALSE)
         /\ proc' = [proc EXCEPT ![jobs[j].pid] = SigCont(@)]

(* bg without an id: getLastStoppedJob looks for an entry of type STOP and *)
(* returns the slot after the last one.  What is there is undefined: a     *)
(* stale copy of an entry, whose pid then gets SIGCONT...                  *)
HasStopType == \E j \in DOMAIN jobs : jobs[j].type = "STOP"
BackgroundLast ==
    /\ Builtin
    /\ HasStopType
    /\ \/ \E p \in Pids : proc' = [proc EXCEPT ![p] = SigCont(@)]
       \/ UNCHANGED proc
    /\ UNCHANGED jobs

(* ... or memory that makes the shell fail.  It also ends where std::stoi  *)
(* throws: bg does not look whether its argument is a number, and kill and *)
(* fg take no digits, or too many, for one.                                *)
Crash ==
    /\ Main("exec")
    /\ pc' = "crash"
    /\ UNCHANGED <<jobs, proc, curr_pid, curr_command, op, child, entry, run,
                   zVars, cVars>>

(* kill: the entry is marked as stopped after three of the signals, and as *)
(* continued after SIGCONT.                                                *)
MarksTwo(sig) == sig \in {"TSTP", "INT"}  \* mutant: SIGSTOP forgotten
Marks(sig) == sig \in {"TSTP", "INT", "STOP"}

KillJob ==
    /\ Builtin
    /\ \E j \in DOMAIN jobs, sig \in Signals :
         /\ \E st \in Outcomes(sig, proc[jobs[j].pid]) :
              proc' = [proc EXCEPT ![jobs[j].pid] = st]
         /\ jobs' = SetStopped(jobs, j,
                        /\ sig # "CONT"
                        /\ \/ jobs[j].stopped
                           \/ Marks(sig) /\ proc[jobs[j].pid] # "none")

(* jobs: the finished entries are dropped again, then printed. *)
PrintJobs ==
    /\ Builtin
    /\ jobs' = Unfinished
    /\ proc' = Reaped

(* showpid, pwd, and every command that ends with an error message. *)
NoEffect ==
    /\ Builtin
    /\ UNCHANGED <<jobs, proc>>

(* Whom quit kill signals. *)
KilledRunning ==  \* mutant: only the jobs that are not stopped
    {jobs[j].pid : j \in {k \in DOMAIN jobs : ~jobs[k].stopped}}
Killed == {jobs[j].pid : j \in DOMAIN jobs}

Quit ==
    /\ Main("exec")
    /\ \/ /\ pc' = "exit"
          /\ UNCHANGED proc
       \/ /\ pc' = "exitkill"
          /\ proc' = [p \in Pids |->
                        IF p \in Killed THEN SigKill(proc[p]) ELSE proc[p]]
    /\ UNCHANGED <<jobs, curr_pid, curr_command, op, child, entry, run, zVars, cVars>>

-----------------------------------------------------------------------------
(* The handlers.  With curr_pid = 0 both return at once and nothing        *)
(* changes, so a signal is delivered only while curr_pid # 0.              *)

Running == pc \notin {"exit", "exitkill", "crash"}

(* The signals they send. *)
Ignored(st) == st  \* mutant: SIGTSTP or SIGINT, which the child ignores
CtrlZSignal(st) == SigStop(st)
CtrlCSignal(st) == SigKill(st)

(* ctrlZHandler *)
CtrlZ ==
    /\ Running
    /\ zpc = "idle" /\ curr_pid # NoPid
    /\ zpc' = "clear" /\ zpid' = curr_pid
    /\ run' = "Z"
    /\ UNCHANGED <<jobs, proc, curr_pid, curr_command, mainVars, cVars>>

(* A handler returns to what it interrupted. *)
ZReturns == zpc' = "idle" /\ zpid' = NoPid
            /\ run' = IF cpc = "idle" THEN "main" ELSE "C"
CReturns == cpc' = "idle" /\ cpid' = NoPid
            /\ run' = IF zpc = "idle" THEN "main" ELSE "Z"

(* curr_pid = 0, and getJobById(pid)->stop(): the pid is looked up among   *)
(* the job ids.                                                            *)
getJobById(id) == DOMAIN jobs \cap {id}
ZClear ==
    /\ run = "Z" /\ zpc = "clear"
    /\ curr_pid' = NoPid
    /\ jobs' = [j \in DOMAIN jobs |->
                  IF j \in getJobById(zpid) THEN [jobs[j] EXCEPT !.stopped = TRUE] ELSE jobs[j]]
    /\ zpc' = "kill"
    /\ UNCHANGED <<proc, curr_command, mainVars, run, zpid, cVars>>

ZKill ==
    /\ run = "Z" /\ zpc = "kill"
    /\ IF proc[zpid] = "none"
       THEN ZReturns
       ELSE zpc' = "add" /\ UNCHANGED <<zpid, run>>
    /\ proc' = [proc EXCEPT ![zpid] = CtrlZSignal(@)]
    /\ UNCHANGED <<jobs, curr_pid, curr_command, mainVars, cVars>>

(* addJob may move or free the vector fg points into. *)
ZAdd ==
    /\ run = "Z" /\ zpc = "add"
    /\ addJob(curr_command, zpid, TRUE)
    /\ entry' = IF DOMAIN jobs' = DOMAIN jobs THEN entry ELSE 0
    /\ ZReturns
    /\ UNCHANGED <<curr_pid, curr_command, pc, op, child, cVars>>

(* ctrlCHandler *)
CtrlC ==
    /\ Running
    /\ cpc = "idle" /\ curr_pid # NoPid
    /\ cpc' = "clear" /\ cpid' = curr_pid
    /\ run' = "C"
    /\ UNCHANGED <<jobs, proc, curr_pid, curr_command, mainVars, zVars>>

CClear ==
    /\ run = "C" /\ cpc = "clear"
    /\ curr_pid' = NoPid
    /\ cpc' = "kill"
    /\ UNCHANGED <<jobs, proc, curr_command, mainVars, run, zVars, cpid>>

CKill ==
    /\ run = "C" /\ cpc = "kill"
    /\ proc' = [proc EXCEPT ![cpid] = CtrlCSignal(@)]
    /\ CReturns
    /\ UNCHANGED <<jobs, curr_pid, curr_command, mainVars, zVars>>

-----------------------------------------------------------------------------
(* The children and the kernel. *)

Child(p, from, to) ==
    /\ proc[p] = from
    /\ proc' = [proc EXCEPT ![p] = to]
    /\ UNCHANGED <<jobs, curr_pid, curr_command, mainVars, run, zVars, cVars>>

Exits(p) == Running /\ Child(p, "running", "zombie")
Dies(p)  == Child(p, "dying", "zombie")
Stops(p) == Running /\ UnseenStops /\ Child(p, "running", "stopping")

Ended == ~Running /\ UNCHANGED vars

-----------------------------------------------------------------------------
(* The steps of a command that has started waiting, and of a handler. *)
Waiting == SetCurrPid \/ SetCurrCommand \/ WaitReturns \/ ClearCurrPid
ZStep   == ZClear \/ ZKill \/ ZAdd
CStep   == CClear \/ CKill

Command == \/ ExternalBackground \/ ExternalForeground \/ Foreground
           \/ BackgroundById \/ BackgroundLast \/ Crash
           \/ KillJob \/ PrintJobs \/ NoEffect \/ Quit

Next == \/ StartCommand \/ Command \/ AddBackground \/ Waiting
        \/ CtrlZ \/ ZStep \/ CtrlC \/ CStep
        \/ \E p \in Pids : Exits(p) \/ Dies(p) \/ Stops(p)
        \/ Ended

Spec == Init /\ [][Next]_vars

(* The thread runs when it can, and a killed process dies. *)
Fairness == /\ WF_vars(Waiting)
            /\ WF_vars(ZStep)
            /\ WF_vars(CStep)
            /\ \A p \in Pids : WF_vars(Dies(p))

FairSpec == Spec /\ Fairness

-----------------------------------------------------------------------------
(* Properties. *)

AtRest == run = "main" /\ pc \in {"prompt", "exec"}

(* When a command executes, every job it can name is still a child of the  *)
(* shell (at worst a zombie), so that no signal goes to a pid the kernel   *)
(* has taken back: removeFinishedJobs of executeCommand sees to it even    *)
(* after a handler has listed a process that was already reaped.           *)
JobsAreChildren ==
    pc = "exec" => \A j \in DOMAIN jobs : proc[jobs[j].pid] # "none"

(* A child just forked never has the pid of an entry already in the list:  *)
(* addJob would take it for that job and mark it stopped.                  *)
ChildIsNew ==
    pc = "add" \/ (pc = "launch" /\ op = "external") => ~Listed(child)

(* addJob and the commands keep at most one entry per process. *)
OneEntryPerChild ==
    \A i, j \in DOMAIN jobs : jobs[i].pid = jobs[j].pid => i = j

(* Between commands every child the shell has not reaped is in the jobs    *)
(* list: a process taken from the foreground by Ctrl-Z is never lost,      *)
(* whenever the key is pressed and whatever else happens meanwhile.        *)
NoLostChild ==
    AtRest /\ ~UnseenStops =>
        \A p \in Pids : proc[p] # "none" => Listed(p)

(* Between commands a process that is stopped is marked as stopped, so     *)
(* that fg and bg continue it.                                             *)
StoppedIsMarked ==
    AtRest /\ ~UnseenStops =>
        \A j \in DOMAIN jobs :
            proc[jobs[j].pid] \in {"stopping", "stopped"} => jobs[j].stopped

(* While waitpid blocks on a process that cannot end by itself, a key can  *)
(* still reach it: once a handler has cleared curr_pid and returned, the   *)
(* process waited for is dead, dying or has a stop to report.              *)
NoStuckWait ==
    pc = "wait" /\ run = "main" /\ curr_pid = NoPid /\ ~UnseenStops =>
        Reportable(child) \/ proc[child] = "dying"

(* quit kill reaches every process the shell has started. *)
QuitKillReachesAll ==
    pc = "exitkill" /\ ~UnseenStops => \A p \in Pids : proc[p] \notin Live

(* A job is listed under another command's name only when Ctrl-Z arrives   *)
(* between the assignments of curr_pid and of curr_command, or when it was *)
(* listed under that name already.                                         *)
NamedInTime ==
    [][ \A j \in DOMAIN jobs' \ DOMAIN jobs :
            \/ jobs'[j].command = jobs'[j].pid
            \/ pc = "name"
            \/ \E i \in DOMAIN jobs : /\ jobs[i].pid = jobs'[j].pid
                                      /\ jobs[i].command = jobs'[j].command ]_vars

(* What the repository says and the code does not do: see the README.     *)

(* "Get the last stopped process": a bg that finds an entry continues the  *)
(* last one that is marked as stopped.                                     *)
BgContinuesLastStopped ==
    [][ BackgroundLast =>
          \E j \in DOMAIN jobs :
              /\ jobs[j].stopped
              /\ \A k \in DOMAIN jobs : jobs[k].stopped => k <= j
              /\ ~jobs'[j].stopped ]_vars

(* Each handler, once it has taken the pid, brings the prompt back. *)
KeysReturnPrompt ==
    /\ cpc = "kill" ~> pc = "prompt"
    /\ zpc = "kill" ~> pc = "prompt"
=============================================================================
