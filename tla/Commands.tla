------------------------------ MODULE Commands ------------------------------
(***************************************************************************)
(* What the lines of the shell do to its descriptors, its children and its *)
(* directory: which command a line is (Shell.cpp), pipelines (Pipe.h),     *)
(* redirections (Redirection.h), external commands whose fork may fail     *)
(* (External.cpp), cd and the other built-ins, alone and redirected        *)
(* (BuiltIn.cpp).  Signals, the order of the jobs, and so fg, bg and kill, *)
(* are the subject of Smash.                                               *)
(*                                                                         *)
(* A command's work is told by how it ends: "finite" and "some" by         *)
(* themselves, "endless" when nobody reads its pipe, "all" at the end of   *)
(* its input, "job" perhaps never.                                         *)
(***************************************************************************)
EXTENDS Integers, Sequences, FiniteSets, FiniteSetsExt, SequencesExt

CONSTANTS
    Pids,   \* positive, as many as processes can exist
    Dirs,   \* names of directories
    Home,   \* the one where the shell starts
    MaxFd,  \* the size of the descriptor table
    Session \* bound: how much is entered, a cd or a directory removed being 1,
            \* all else 3

ASSUME CommandsAssumption ==
    /\ Pids \subseteq Nat \ {0} /\ MaxFd \in Nat \ 0..2 /\ Session \in Nat
    /\ IsFiniteSet(Pids) /\ Home \in Dirs

VARIABLES
    budget,  \* what may still be entered; it also names the line a pipe is from
    pc,
    cmd,     \* the line under way and its locals
    fd,      \* the shell's descriptor table
    proc,    \* the shell's children, and the work they left behind
    jobs,    \* the pids in the jobs vector, -1 after a fork that failed
    cwd, paths,
    exists,  \* the directories there are
    full,    \* history: a descriptor was refused
    astray,  \* history: a redirected chprompt has left stdout redirected
    leaked,  \* history: descriptors that lines have left open
    previous, forgot  \* history: where cd came from; whether cd - lost that

shell == <<budget, pc, cmd, fd, jobs, full, astray, leaked>>
place == <<cwd, paths, exists, previous, forgot>>
vars == <<shell, proc, place>>

None == -1
NoCmd == [op |-> "none", word |-> "none", bg |-> FALSE, leftBg |-> FALSE, left |-> "none",
          right |-> "none", back |-> None, pipes |-> <<None, None>>, pid |-> None,
          failed |-> FALSE, others |-> FALSE]
NoProc == [status |-> "none", bg |-> FALSE, work |-> "none", pipe |-> 0, ends |-> {}]
Fds == 0..(MaxFd - 1)

Init ==
    /\ budget = Session /\ pc = "prompt" /\ cmd = NoCmd
    /\ fd = [n \in Fds |-> IF n <= 2 THEN "tty" ELSE "free"]
    /\ proc = [p \in Pids |-> NoProc] /\ jobs = {}
    /\ cwd = Home /\ paths = <<>> /\ exists = Dirs
    /\ full = FALSE /\ astray = FALSE /\ leaked = 0
    /\ previous = "none" /\ forgot = FALSE

-----------------------------------------------------------------------------
(* Which command a line is.  Of its words only the first one and a > or >> *)
(* count, of its characters a & at the end and a |, which makes > a word   *)
(* like any other.  The first word of an empty line is external too.  "cd" *)
(* stands for pwd and showpid where it only prints.                        *)

BuiltinTable == {"cd", "chprompt", "jobs", "quit", "head"}
Lines == [word : BuiltinTable \cup {"external"}, sign : {"none", "|", ">", ">>"}, amp : BOOLEAN]

is_redirection_command(l) == l.sign \in {">", ">>"}
createBuiltInCommand(word) == IF word = "chprompt" THEN "null" ELSE word
CreateCommand(l) ==
    IF l.word \in BuiltinTable /\ ~is_redirection_command(l) /\ ~l.amp
    THEN createBuiltInCommand(l.word)
    ELSE IF l.sign = "|" THEN "pipe"
    ELSE IF is_redirection_command(l) THEN "redirection" ELSE "external"

(* The commands there are, with the one a redirection makes of its left.   *)
Made == {[class |-> CreateCommand(l), sign |-> l.sign, bg |-> l.amp,
          left |-> CreateCommand([l EXCEPT !.sign = "none"])] : l \in Lines}

-----------------------------------------------------------------------------
(* Descriptors. *)

Unused(t) == {n \in Fds : t[n] = "free"}
Lowest(t) == IF Unused(t) = {} THEN None ELSE Min(Unused(t))
Set(t, n, what) == IF n = None THEN t ELSE [t EXCEPT ![n] = what]
Close(t, n) == Set(t, n, "free")
Dup(t, n) == IF t[n] = "free" THEN None ELSE Lowest(t)
Dup2(t, from, to) ==
    IF from = None \/ t[from] = "free" THEN t ELSE [t EXCEPT ![to] = t[from]]
Ends(t) == {"read", "write"} \cap {t[n] : n \in Fds}

-----------------------------------------------------------------------------
(* Children. *)

Children(ps) == {p \in Pids : ps[p].status # "none"}
Zombies(ps) == {p \in Pids : ps[p].status = "zombie"}
Reaped(ps, dead) == [p \in Pids |-> IF p \in dead THEN [ps[p] EXCEPT !.status = "none"] ELSE ps[p]]

(* What removeFinishedJobs may leave: -1 stands for any child that ended,  *)
(* at its turn, and goes when it met one or when there is no child.        *)
removeFinishedJobs(ps, js) ==
    LET dropped == {p \in js \ {None} : ps[p].status \in {"none", "zombie"}}
        caught == IF None \in js THEN Zombies(ps) ELSE {}
    IN {[proc |-> Reaped(ps, dropped \cup {z}), jobs |-> js \ (dropped \cup {None})] : z \in caught}
       \cup IF caught \subseteq dropped
            THEN {[proc |-> Reaped(ps, dropped),
                   jobs |-> IF Children(ps) \subseteq dropped THEN {} ELSE js \ dropped]}
            ELSE {}

(* Of the pids that are free it does not matter which. *)
CanFork == \E p \in Pids : proc[p] = NoProc
NewPid == Min({p \in Pids : proc[p] = NoProc})
Child(status, bg, work) ==
    [status |-> status, bg |-> bg, work |-> work, pipe |-> budget, ends |-> Ends(fd)]

(* The left operand of a pipe writes, the right one reads.  Each closes    *)
(* both ends but for its own copy; one in the background forks its command *)
(* and exits.                                                              *)
KeepBoth(p) == proc[p].ends  \* mutant: the child leaves the ends open
KeepOwn(p) ==
    proc[p].ends \cap IF proc[p].work \in {"finite", "endless"} THEN {"write"} ELSE {"read"}
Start(p) ==
    /\ proc[p].status = "starting"
    /\ proc' = [proc EXCEPT ![p].ends = KeepOwn(p),
                            ![p].status = IF proc[p].bg THEN "zombie" ELSE "running"]
    /\ UNCHANGED <<shell, place>>

Held(end, n) ==
    \/ budget = n /\ end \in Ends(fd)
    \/ \E p \in Pids : proc[p].pipe = n /\ end \in proc[p].ends

WorkEnds(p) ==
    /\ proc[p].work # "none" /\ proc[p].status # "starting"
    /\ proc[p].work = "endless" => "write" \in proc[p].ends /\ ~Held("read", proc[p].pipe)
    /\ proc[p].work = "all" /\ "read" \in proc[p].ends => ~Held("write", proc[p].pipe)
    /\ proc' = [proc EXCEPT ![p] =
          [NoProc EXCEPT !.status = IF proc[p].status = "none" THEN "none" ELSE "zombie"]]
    /\ UNCHANGED <<shell, place>>

-----------------------------------------------------------------------------
(* A line is read and the jobs that ended are removed. *)

Line(size, next, c) ==
    /\ pc = "prompt" /\ budget >= size /\ budget' = budget - size
    /\ \E r \in removeFinishedJobs(proc, jobs) :
          /\ proc' = r.proc /\ jobs' = r.jobs
          /\ cmd' = [c EXCEPT !.others = Children(r.proc) # {}]
    /\ pc' = next

Prompt == pc = "done" /\ pc' = "prompt" /\ cmd' = NoCmd
          /\ UNCHANGED <<budget, fd, jobs, full, astray, leaked, proc, place>>

(* A & before the bar is the left operand's own. *)
Operands == [op : {"|", "|&"}, bg : BOOLEAN, leftBg : BOOLEAN,
             left : {"finite", "endless"}, right : {"some", "all"}]

(* pipe() without room leaves Pipes as it was on the stack; the numbers    *)
(* there are closed later on.                                              *)
Pipeline(o) ==
    LET t1 == Set(fd, Dup(fd, 0), fd[0])
        out == IF o.op = "|" THEN 1 ELSE 2
        output2 == Dup(t1, out)
        t2 == Set(t1, output2, t1[out])
        room == Cardinality(Unused(t2)) >= 2
        r == Lowest(t2)
        t3 == Set(t2, r, "read")
    IN \E pipes \in IF room THEN {<<r, Lowest(t3)>>} ELSE (Fds \cup {None}) \X {None} :
          /\ Line(3, "fork1", [NoCmd EXCEPT !.op = o.op, !.bg = o.bg,
                               !.leftBg = o.leftBg \/ o.bg, !.left = o.left,
                               !.right = o.right, !.back = output2, !.pipes = pipes])
          /\ fd' = IF room THEN Set(t3, pipes[2], "write") ELSE t2
          /\ full' = (full \/ ~room)
          /\ leaked' = leaked + 2
          /\ UNCHANGED <<astray, place>>

(* In the background the left operand of |& is "&": it is lost. *)
LeftWork == IF cmd.op = "|&" /\ cmd.bg THEN "finite" ELSE cmd.left

ForkOperand(from, to, bg, work) ==
    /\ pc = from /\ pc' = to
    /\ \/ /\ CanFork
          /\ proc' = [proc EXCEPT ![NewPid] = Child("starting", bg, work)]
          /\ UNCHANGED cmd
       \/ cmd' = [cmd EXCEPT !.failed = TRUE] /\ UNCHANGED proc
    /\ UNCHANGED <<budget, jobs, full, astray, leaked, place>>

ForkLeft ==
    /\ ForkOperand("fork1", "fork2", cmd.leftBg, LeftWork)
    /\ fd' = IF cmd.op = "|" THEN Dup2(fd, cmd.back, 1) ELSE fd
ForkRight == ForkOperand("fork2", "close", cmd.bg, cmd.right) /\ UNCHANGED fd

CloseReadEnd == Close(fd, cmd.pipes[1])  \* mutant
CloseBoth == Close(Close(fd, cmd.pipes[1]), cmd.pipes[2])
CloseEnds ==
    /\ pc = "close" /\ pc' = "wait1"
    /\ fd' = CloseBoth
    /\ UNCHANGED <<budget, cmd, jobs, full, astray, leaked, proc, place>>

-----------------------------------------------------------------------------
(* waitpid of one child, or of any when the pid is -1, as it is in every   *)
(* pipeline and after a fork that failed.                                  *)

ReapOne(who) ==
    \/ \E p \in Zombies(proc) \cap who : proc' = Reaped(proc, {p})
    \/ Children(proc) \cap who = {} /\ UNCHANGED proc

After == IF cmd.op = "run" THEN "done" ELSE "restore"
OneWait == "done"  \* mutant
AfterWait1 == "wait2"
Wait ==
    /\ \/ pc = "wait1" /\ ReapOne(Pids) /\ pc' = AfterWait1
       \/ pc = "wait2" /\ ReapOne(Pids) /\ pc' = "done"
       \/ /\ pc = "wait" /\ ReapOne(IF cmd.pid = None THEN Pids ELSE {cmd.pid})
          /\ pc' = After
    /\ UNCHANGED <<budget, cmd, fd, jobs, full, astray, leaked, place>>

-----------------------------------------------------------------------------
(* External commands, and the built-ins but cd. *)

Run(word, bg) ==
    /\ Line(3, "run", [NoCmd EXCEPT !.op = "run", !.word = word, !.bg = bg])
    /\ UNCHANGED <<fd, full, astray, leaked, place>>

Background(ps, pid) ==
    /\ \E r \in removeFinishedJobs(ps, jobs) : proc' = r.proc /\ jobs' = r.jobs \cup {pid}
    /\ pc' = After
Foreground(ps, pid) == proc' = ps /\ jobs' = jobs /\ pc' = "wait"

Execute ==
    /\ pc = "run" /\ cmd.word = "external"
    /\ \E pid \in {None} \cup (IF CanFork THEN {NewPid} ELSE {}) :
          LET work == IF cmd.bg THEN "job" ELSE "finite"
              ps == IF pid = None THEN proc ELSE [proc EXCEPT ![pid] = Child("running", cmd.bg, work)]
          IN /\ cmd' = [cmd EXCEPT !.pid = pid, !.failed = pid = None]
             /\ IF cmd.bg THEN Background(ps, pid) ELSE Foreground(ps, pid)
    /\ UNCHANGED <<budget, fd, full, astray, leaked, place>>

(* head has a descriptor for its file, if the file opens. *)
HeadCommand(t) == LET inFile == Lowest(t) IN Close(Set(t, inFile, "file"), inFile)

(* The arguments are those of the whole line: a cd with an operator has    *)
(* too many and only complains.                                            *)
Builtin ==
    /\ pc = "run" /\ cmd.word # "external"
    /\ pc' = IF cmd.word = "quit" THEN "ended" ELSE After
    /\ fd' = IF cmd.word = "head" THEN HeadCommand(fd) ELSE fd
    /\ IF cmd.word = "jobs"
       THEN \E r \in removeFinishedJobs(proc, jobs) : proc' = r.proc /\ jobs' = r.jobs
       ELSE UNCHANGED <<proc, jobs>>
    /\ UNCHANGED <<budget, cmd, full, astray, leaked, place>>

-----------------------------------------------------------------------------
(* Redirections.  Without the file ">" returns and ">>" goes on. *)

Redirect(op, bg, opens, command) ==
    LET file == IF opens THEN Lowest(fd) ELSE None
        t1 == Set(fd, file, "file")
        back == Dup(t1, 1)
        t2 == Set(t1, back, t1[1])
        t3 == Set(t2, Dup(t2, 1), t2[1])
        t4 == Close(Dup2(t3, file, 1), file)
        returns == file = None /\ op = ">"
        lost == ~returns /\ command = "null"
    IN /\ Line(3, IF returns \/ lost THEN "done" ELSE "run",
               [NoCmd EXCEPT !.op = op, !.word = command, !.bg = bg, !.back = back])
       /\ fd' = IF returns THEN fd ELSE t4
       /\ full' = (full \/ (~returns /\ Cardinality(Unused(t1)) < 2))
       /\ astray' = (astray \/ (lost /\ file # None))
       /\ leaked' = leaked + IF returns THEN 0 ELSE IF lost THEN 2 ELSE 1
       /\ UNCHANGED place

NotRestored == Close(fd, cmd.back)  \* mutant
Restored == Close(Dup2(fd, cmd.back, 1), cmd.back)

Restore ==
    /\ pc = "restore" /\ pc' = "done"
    /\ fd' = Restored
    /\ \/ /\ cmd.op = ">"
          /\ \E r \in removeFinishedJobs(proc, jobs) : proc' = r.proc /\ jobs' = r.jobs
       \/ cmd.op = ">>" /\ UNCHANGED <<proc, jobs>>
    /\ UNCHANGED <<budget, cmd, full, astray, leaked, place>>

-----------------------------------------------------------------------------
(* cd.  get_current_dir_name has no name for a directory that is gone, and *)
(* a string made from its null pointer ends the program.                   *)

Cd(next) ==
    Line(1, next, NoCmd) /\ UNCHANGED <<fd, full, astray, leaked, exists>>
Stays == UNCHANGED <<cwd, paths, previous, forgot>>

PushNew(rest, dir) == Append(rest, dir)       \* mutants: the new directory,
PushArgument(rest, dir) == Append(rest, "-")  \* what the user typed
PushOld(rest, dir) == Append(rest, cwd)
Changes(rest, dir) ==
    IF dir \in exists
    THEN cwd' = dir /\ paths' = PushOld(rest, dir) /\ previous' = cwd /\ forgot' = FALSE
    ELSE paths' = rest /\ forgot' = (forgot \/ rest # paths) /\ UNCHANGED <<cwd, previous>>

ChangeDir(dir) == cwd \in exists /\ Cd("prompt") /\ Changes(paths, dir)
ChangeBack ==
    /\ cwd \in exists /\ Cd("prompt")
    /\ IF paths = <<>> THEN Stays ELSE Changes(Front(paths), Last(paths))
ChangeFails == cwd \notin exists /\ Cd("ended") /\ Stays

(* Somebody else. *)
RemoveDir(dir) ==
    /\ pc = "prompt" /\ budget > 0 /\ budget' = budget - 1
    /\ dir \in exists /\ exists' = exists \ {dir}
    /\ UNCHANGED <<pc, cmd, fd, jobs, full, astray, leaked, proc, cwd, paths, previous, forgot>>

ShellStep ==
    Prompt \/ ForkLeft \/ ForkRight \/ CloseEnds \/ Wait \/ Execute \/ Builtin \/ Restore

(* A chprompt that is not redirected makes no command: nothing happens.    *)
executeCommand(c) ==
    \/ c.class = "pipe" /\ \E o \in Operands : o.bg = c.bg /\ Pipeline(o)
    \/ c.class = "redirection" /\ \E opens \in BOOLEAN : Redirect(c.sign, c.bg, opens, c.left)
    \/ c.class = "cd" /\ c.sign = "none" /\ (ChangeBack \/ ChangeFails \/ \E dir \in Dirs : ChangeDir(dir))
    \/ /\ c.class \in {"external", "jobs", "quit", "head"} \/ (c.class = "cd" /\ c.sign = "|")
       /\ Run(c.class, c.bg)

Next ==
    \/ ShellStep
    \/ \E c \in Made : executeCommand(c)
    \/ \E dir \in Dirs : RemoveDir(dir)
    \/ \E p \in Pids : Start(p) \/ WorkEnds(p)

(* Of a job nothing is assumed. *)
FairSpec ==
    /\ Init /\ [][Next]_vars
    /\ WF_vars(ShellStep)
    /\ \A p \in Pids : WF_vars(Start(p)) /\ WF_vars(proc[p].work # "job" /\ WorkEnds(p))

-----------------------------------------------------------------------------
(* Properties. *)

Descriptors == [Fds -> {"free", "tty", "file", "read", "write"}]
TypeOK ==
    /\ fd \in Descriptors /\ jobs \subseteq Pids \cup {None}
    /\ \A p \in Pids :
          /\ proc[p].status \in {"none", "starting", "running", "zombie"}
          /\ proc[p].work \in {"none", "job", "finite", "endless", "some", "all"}
          /\ proc[p].ends \subseteq {"read", "write"}
    /\ cwd \in Dirs /\ paths \in Seq(Dirs) /\ exists \subseteq Dirs
    /\ pc \in {"prompt", "fork1", "fork2", "close", "wait1", "wait2", "run", "wait",
               "restore", "done", "ended"}

(* While the descriptor table had room, a command leaves no end of a pipe  *)
(* open in the shell and stdout as it was, but for a redirected chprompt;  *)
(* a pipeline leaks its two copies, a redirection one.                     *)
DescriptorsAreBack ==
    full \/ /\ Ends(fd) = {}
            /\ fd[0] = "tty" /\ fd[2] = "tty"
            /\ fd[1] = IF astray THEN "file" ELSE "tty"
            /\ MaxFd - Cardinality(Unused(fd)) = 3 + leaked

(* Forks may have failed: a command in front that began with no other      *)
(* child, and a pipeline likewise, leave none.                             *)
ChildrenAreWaitedFor ==
    ~cmd.others /\ (cmd.op \in {"|", "|&"} \/ ~cmd.bg) => Children(proc) = {}

PromptIsClean == pc = "done" => DescriptorsAreBack /\ ChildrenAreWaitedFor

(* The shell returns from a wait, whoever else is its child and however    *)
(* long that runs, if its own forks succeeded and the pipeline ends by     *)
(* itself; and if a fork failed, when there was no other child to wait     *)
(* for.                                                                    *)
Waiting == pc \in {"wait", "wait1", "wait2"}
EndsByItself == ~full /\ ~(cmd.left = "endless" /\ cmd.right = "all")
WaitsEnd == (Waiting /\ EndsByItself /\ ~(cmd.failed /\ cmd.others)) ~> pc = "done"

(* cd - goes to where the last cd came from, unless a cd - that failed has *)
(* forgotten it.                                                           *)
BackIsPrevious ==
    ~forgot => IF paths = <<>> THEN previous = "none" ELSE Last(paths) = previous
=============================================================================
