--------------------------- MODULE CommandsProofs ---------------------------
(***************************************************************************)
(* For any number of processes, descriptors and lines: a command leaves    *)
(* the shell's descriptors and children as PromptIsClean says, and cd - is *)
(* the way back.                                                           *)
(***************************************************************************)
EXTENDS Commands, FiniteSetTheorems, WellFoundedInduction, SequenceTheorems, TLAPS

USE CommandsAssumption

Piped == cmd.op \in {"|", "|&"}

-----------------------------------------------------------------------------
(* Types, of the locals too. *)

Works == {"none", "job", "finite", "endless", "some", "all"}
ProcType == [status : {"none", "starting", "running", "zombie"}, bg : BOOLEAN, work : Works,
             pipe : Int, ends : SUBSET {"read", "write"}]
Words == {"none", "null", "external", "pipe", "redirection"} \cup BuiltinTable
CmdType == [op : {"none", "|", "|&", "run", ">", ">>"}, word : Words, bg : BOOLEAN,
            leftBg : BOOLEAN, left : Works, right : Works, back : Fds \cup {None}, pipes : (Fds \cup {None}) \X (Fds \cup {None}),
            pid : Pids \cup {None}, failed : BOOLEAN, others : BOOLEAN]

Types ==
    /\ TypeOK
    /\ proc \in [Pids -> ProcType] /\ cmd \in CmdType
    /\ budget \in Int /\ leaked \in Int /\ full \in BOOLEAN /\ astray \in BOOLEAN

(* Which commands are where. *)
Places ==
    /\ pc \in {"fork1", "fork2", "close", "wait1", "wait2"} => Piped
    /\ pc \in {"run", "wait", "restore"} => cmd.op \in {"run", ">", ">>"}
    /\ pc = "restore" => cmd.op # "run"
    /\ pc = "wait" => ~cmd.bg

-----------------------------------------------------------------------------
(* The least element of a set is one of it. *)
LEMMA MinIsElement ==
    ASSUME NEW S \in SUBSET Nat, S # {}
    PROVE  Min(S) \in S
<1> DEFINE less == OpToRel(<, Nat)
<1>1. PICK x \in S : \A y \in S : ~(<<y, x>> \in less)
  <2>1. IsWellFoundedOn(less, Nat)
    BY NatLessThanWellFounded
  <2> HIDE DEF less
  <2> QED
    BY <2>1, WFMin
<1>2. \A y \in S : x <= y
  <2> SUFFICES ASSUME NEW y \in S PROVE x <= y
    OBVIOUS
  <2>1. y < x => <<y, x>> \in less
    BY DEF OpToRel
  <2> HIDE DEF less
  <2> QED
    BY <1>1, <2>1
<1> QED
  BY <1>2 DEF Min

LEMMA FreshPid == CanFork => NewPid \in Pids
<1> DEFINE S == {p \in Pids : proc[p] = NoProc}
<1>1. CanFork => S # {}
  BY DEF CanFork
<1>2. S \in SUBSET Nat
  OBVIOUS
<1> HIDE DEF S
<1>3. CanFork => Min(S) \in S
  BY <1>1, <1>2, MinIsElement
<1> QED
  BY <1>3 DEF NewPid, S

LEMMA NoProcType == NoProc \in ProcType
  BY DEF NoProc, ProcType, Works

LEMMA NoCmdType == NoCmd \in CmdType
  BY DEF NoCmd, CmdType, Words, Works, None

(* removeFinishedJobs reaps children that have ended, and drops jobs. *)
Fewer(ps, qs) ==
    /\ qs \in [Pids -> ProcType]
    /\ Children(qs) \subseteq Children(ps)

LEMMA ReapedFewer ==
    ASSUME NEW ps \in [Pids -> ProcType], NEW dead
    PROVE  /\ Fewer(ps, Reaped(ps, dead))
           /\ Children(Reaped(ps, dead)) = Children(ps) \ dead
<1>1. Reaped(ps, dead) \in [Pids -> ProcType]
  BY DEF Reaped, ProcType
<1>2. \A p \in Pids : Reaped(ps, dead)[p].status = IF p \in dead THEN "none" ELSE ps[p].status
  BY DEF Reaped, ProcType
<1> QED
  BY <1>1, <1>2 DEF Fewer, Children

LEMMA FinishedRemoved ==
    ASSUME NEW ps \in [Pids -> ProcType], NEW js, js \subseteq Pids \cup {None},
           NEW r \in removeFinishedJobs(ps, js)
    PROVE  Fewer(ps, r.proc) /\ r.jobs \subseteq Pids \cup {None}
<1> DEFINE dropped == {p \in js \ {None} : ps[p].status \in {"none", "zombie"}}
<1>1. \/ \E z : r = [proc |-> Reaped(ps, dropped \cup {z}), jobs |-> js \ (dropped \cup {None})]
      \/ r = [proc |-> Reaped(ps, dropped),
              jobs |-> IF Children(ps) \subseteq dropped THEN {} ELSE js \ dropped]
  BY Zenon DEF removeFinishedJobs
<1> HIDE DEF dropped
<1>2. CASE \E z : r = [proc |-> Reaped(ps, dropped \cup {z}), jobs |-> js \ (dropped \cup {None})]
  <2>1. PICK z : r = [proc |-> Reaped(ps, dropped \cup {z}), jobs |-> js \ (dropped \cup {None})]
    BY <1>2
  <2>2. r.proc = Reaped(ps, dropped \cup {z}) /\ r.jobs \subseteq js
    BY <2>1
  <2> QED
    BY <2>2, ReapedFewer
<1>3. CASE r = [proc |-> Reaped(ps, dropped),
                jobs |-> IF Children(ps) \subseteq dropped THEN {} ELSE js \ dropped]
  <2>1. r.proc = Reaped(ps, dropped) /\ r.jobs \subseteq js
    BY <1>3
  <2> QED
    BY <2>1, ReapedFewer
<1> QED
  BY <1>1, <1>2, <1>3

-----------------------------------------------------------------------------
(* Descriptors. *)

FreeCount(t) == Cardinality(Unused(t))

LEMMA UnusedFinite ==
    ASSUME NEW t \in Descriptors
    PROVE  IsFiniteSet(Unused(t)) /\ FreeCount(t) \in Nat
<1>1. IsFiniteSet(Fds)
  BY FS_Interval DEF Fds
<1> QED
  BY <1>1, FS_Subset, FS_CardinalityType DEF Unused, FreeCount

LEMMA LowestFree ==
    ASSUME NEW t \in Descriptors
    PROVE  IF Unused(t) = {} THEN Lowest(t) = None
           ELSE Lowest(t) \in Fds /\ t[Lowest(t)] = "free" /\ Lowest(t) # None
<1>1. Unused(t) \in SUBSET Nat /\ \A n \in Unused(t) : n # None
  BY DEF Unused, Fds, None
<1>2. Unused(t) # {} => Min(Unused(t)) \in Unused(t)
  BY <1>1, MinIsElement
<1> QED
  BY <1>1, <1>2 DEF Lowest, Unused

(* A descriptor that was free is taken. *)
LEMMA Opened ==
    ASSUME NEW t \in Descriptors, NEW n \in Fds, t[n] = "free",
           NEW what \in {"tty", "file", "read", "write"}
    PROVE  /\ Set(t, n, what) \in Descriptors
           /\ FreeCount(Set(t, n, what)) = FreeCount(t) - 1
           /\ Set(t, n, what)[n] = what
           /\ \A m \in Fds : m # n => Set(t, n, what)[m] = t[m]
<1>1. n # None
  BY DEF Fds, None
<1>2. Set(t, n, what) = [t EXCEPT ![n] = what]
  BY <1>1 DEF Set
<1>3. Unused(Set(t, n, what)) = Unused(t) \ {n} /\ n \in Unused(t)
  BY <1>2 DEF Unused, Descriptors
<1>4. FreeCount(Set(t, n, what)) = FreeCount(t) - 1
  BY <1>3, UnusedFinite, FS_RemoveElement DEF FreeCount
<1> QED
  BY <1>2, <1>4 DEF Descriptors

(* A descriptor that was in use is closed. *)
LEMMA Closed ==
    ASSUME NEW t \in Descriptors, NEW n \in Fds, t[n] # "free"
    PROVE  /\ Close(t, n) \in Descriptors
           /\ FreeCount(Close(t, n)) = FreeCount(t) + 1
           /\ Close(t, n)[n] = "free"
           /\ \A m \in Fds : m # n => Close(t, n)[m] = t[m]
<1>1. n # None
  BY DEF Fds, None
<1>2. Close(t, n) = [t EXCEPT ![n] = "free"]
  BY <1>1 DEF Close, Set
<1>3. Unused(Close(t, n)) = Unused(t) \cup {n} /\ n \notin Unused(t)
  BY <1>2 DEF Unused, Descriptors
<1>4. FreeCount(Close(t, n)) = FreeCount(t) + 1
  BY <1>3, UnusedFinite, FS_AddElement DEF FreeCount
<1> QED
  BY <1>2, <1>4 DEF Descriptors

(* dup2 onto a descriptor that is in use. *)
LEMMA Replaced ==
    ASSUME NEW t \in Descriptors, NEW from \in Fds, NEW to \in Fds,
           t[from] # "free", t[to] # "free"
    PROVE  /\ Dup2(t, from, to) \in Descriptors
           /\ FreeCount(Dup2(t, from, to)) = FreeCount(t)
           /\ Dup2(t, from, to)[to] = t[from]
           /\ \A m \in Fds : m # to => Dup2(t, from, to)[m] = t[m]
<1>1. from # None
  BY DEF Fds, None
<1>2. Dup2(t, from, to) = [t EXCEPT ![to] = t[from]]
  BY <1>1 DEF Dup2
<1>3. Unused(Dup2(t, from, to)) = Unused(t)
  BY <1>2 DEF Unused, Descriptors
<1> QED
  BY <1>2, <1>3 DEF Descriptors, FreeCount

(* Whatever the numbers are, the table stays one. *)
LEMMA TableTypes ==
    ASSUME NEW t \in Descriptors, NEW n \in Fds \cup {None}, NEW m \in Fds \cup {None}
    PROVE  /\ \A what \in {"free", "tty", "file", "read", "write"} : Set(t, n, what) \in Descriptors
           /\ Close(t, n) \in Descriptors
           /\ m # None => Dup2(t, n, m) \in Descriptors
           /\ Lowest(t) \in Fds \cup {None} /\ Dup(t, n) \in Fds \cup {None}
           /\ \A k \in Fds : t[k] \in {"free", "tty", "file", "read", "write"}
<1>1. Lowest(t) \in Fds \cup {None}
  BY LowestFree
<1>2. n # None => t[n] \in {"free", "tty", "file", "read", "write"}
  BY DEF Descriptors
<1> QED
  BY <1>1, <1>2 DEF Descriptors, Set, Close, Dup2, Dup

-----------------------------------------------------------------------------
(* What a line does before its own steps. *)

LEMMA LineOutcome ==
    ASSUME Types, NEW size \in Int, NEW next, NEW c \in CmdType, Line(size, next, c)
    PROVE  /\ pc = "prompt" /\ pc' = next /\ budget' \in Int
           /\ Fewer(proc, proc') /\ jobs' \subseteq Pids \cup {None}
           /\ cmd' = [c EXCEPT !.others = Children(proc') # {}] /\ cmd' \in CmdType
           /\ cmd'.op = c.op
<1>1. PICK r \in removeFinishedJobs(proc, jobs) :
         /\ proc' = r.proc /\ jobs' = r.jobs
         /\ cmd' = [c EXCEPT !.others = Children(r.proc) # {}]
  BY DEF Line
<1>2. Fewer(proc, proc') /\ jobs' \subseteq Pids \cup {None}
  <2>1. proc \in [Pids -> ProcType] /\ jobs \subseteq Pids \cup {None}
    BY DEF Types, TypeOK
  <2> QED
    BY <1>1, <2>1, FinishedRemoved
<1>3. cmd' = [c EXCEPT !.others = Children(proc') # {}] /\ cmd' \in CmdType /\ cmd'.op = c.op
  BY <1>1 DEF CmdType
<1> QED
  BY <1>2, <1>3 DEF Line, Types

(* A pipeline takes two copies and, when there is room, two ends. *)
T1 == Set(fd, Dup(fd, 0), fd[0])
Out(o) == IF o.op = "|" THEN 1 ELSE 2
T2(o) == Set(T1, Dup(T1, Out(o)), T1[Out(o)])
HasRoom(o) == Cardinality(Unused(T2(o))) >= 2
T3(o) == Set(T2(o), Lowest(T2(o)), "read")

LEMMA PipelineOutcome ==
    ASSUME Types, NEW o \in Operands, Pipeline(o)
    PROVE  \E pipes \in (Fds \cup {None}) \X (Fds \cup {None}) :
              LET c == [NoCmd EXCEPT !.op = o.op, !.bg = o.bg, !.leftBg = o.leftBg \/ o.bg,
                                     !.left = o.left, !.right = o.right, !.back = Dup(T1, Out(o)), !.pipes = pipes]
              IN /\ c \in CmdType /\ Line(3, "fork1", c)
                 /\ HasRoom(o) => pipes = <<Lowest(T2(o)), Lowest(T3(o))>>
                 /\ fd' = IF HasRoom(o) THEN Set(T3(o), pipes[2], "write") ELSE T2(o)
                 /\ full' = (full \/ ~HasRoom(o))
                 /\ leaked' = leaked + 2
                 /\ UNCHANGED <<astray, place>>
<1>1. PICK pipes \in IF HasRoom(o) THEN {<<Lowest(T2(o)), Lowest(T3(o))>>}
                                   ELSE (Fds \cup {None}) \X {None} :
         /\ Line(3, "fork1", [NoCmd EXCEPT !.op = o.op, !.bg = o.bg, !.leftBg = o.leftBg \/ o.bg,
                                           !.left = o.left, !.right = o.right, !.back = Dup(T1, Out(o)), !.pipes = pipes])
         /\ fd' = IF HasRoom(o) THEN Set(T3(o), pipes[2], "write") ELSE T2(o)
         /\ full' = (full \/ ~HasRoom(o))
         /\ leaked' = leaked + 2
         /\ UNCHANGED <<astray, place>>
  BY Zenon DEF Pipeline, T1, T2, T3, Out, HasRoom
<1>2. fd \in Descriptors /\ {0, 1, 2} \subseteq Fds
  BY DEF Types, TypeOK, Fds
<1>3. T1 \in Descriptors
  BY <1>2, TableTypes DEF T1
<1>4. Out(o) \in Fds /\ T2(o) \in Descriptors /\ Dup(T1, Out(o)) \in Fds \cup {None}
  BY <1>2, <1>3, TableTypes DEF T2, Out
<1>5. Lowest(T2(o)) \in Fds \cup {None} /\ T3(o) \in Descriptors
  BY <1>2, <1>4, TableTypes DEF T3
<1>6. Lowest(T3(o)) \in Fds \cup {None}
  BY <1>2, <1>5, TableTypes
<1>7. pipes \in (Fds \cup {None}) \X (Fds \cup {None})
  BY <1>1, <1>5, <1>6
<1>8. [NoCmd EXCEPT !.op = o.op, !.bg = o.bg, !.leftBg = o.leftBg \/ o.bg, !.left = o.left, !.right = o.right,
                    !.back = Dup(T1, Out(o)), !.pipes = pipes] \in CmdType
  <2>1. o.op \in {"|", "|&"} /\ o.bg \in BOOLEAN /\ o.leftBg \in BOOLEAN /\ o.left \in Works /\ o.right \in Works
    BY DEF Operands, Works
  <2>2. (o.leftBg \/ o.bg) \in BOOLEAN
    OBVIOUS
  <2> QED
    BY <1>4, <1>7, <2>1, <2>2, NoCmdType DEF CmdType
<1>9. HasRoom(o) => pipes = <<Lowest(T2(o)), Lowest(T3(o))>>
  BY <1>1
<1> QED
  BY <1>1, <1>7, <1>8, <1>9

(* A redirection opens its file, saves stdout and points it to the file. *)
File(opens) == IF opens THEN Lowest(fd) ELSE None
R1(opens) == Set(fd, File(opens), "file")
Back(opens) == Dup(R1(opens), 1)
R2(opens) == Set(R1(opens), Back(opens), R1(opens)[1])
R3(opens) == Set(R2(opens), Dup(R2(opens), 1), R2(opens)[1])
R4(opens) == Close(Dup2(R3(opens), File(opens), 1), File(opens))
Gone(op, opens) == File(opens) = None /\ op = ">"
Null(op, opens, command) == ~Gone(op, opens) /\ command = "null"

LEMMA RedirectOutcome ==
    ASSUME Types, NEW op \in {">", ">>"}, NEW bg \in BOOLEAN, NEW opens \in BOOLEAN,
           NEW command \in Words, Redirect(op, bg, opens, command)
    PROVE  LET c == [NoCmd EXCEPT !.op = op, !.word = command, !.bg = bg, !.back = Back(opens)]
           IN /\ c \in CmdType
              /\ R1(opens) \in Descriptors /\ R2(opens) \in Descriptors
              /\ R3(opens) \in Descriptors /\ R4(opens) \in Descriptors
              /\ Line(3, IF Gone(op, opens) \/ Null(op, opens, command) THEN "done" ELSE "run", c)
              /\ fd' = IF Gone(op, opens) THEN fd ELSE R4(opens)
              /\ full' = (full \/ (~Gone(op, opens) /\ Cardinality(Unused(R1(opens))) < 2))
              /\ astray' = (astray \/ (Null(op, opens, command) /\ File(opens) # None))
              /\ leaked' = leaked + (IF Gone(op, opens) THEN 0
                                     ELSE IF Null(op, opens, command) THEN 2 ELSE 1)
              /\ UNCHANGED place
<1>1. fd \in Descriptors /\ {0, 1, 2} \subseteq Fds
  BY DEF Types, TypeOK, Fds
<1>2. File(opens) \in Fds \cup {None}
  BY <1>1, TableTypes DEF File
<1>3. R1(opens) \in Descriptors
  BY <1>1, <1>2, TableTypes DEF R1
<1>4. Back(opens) \in Fds \cup {None} /\ R2(opens) \in Descriptors
  BY <1>1, <1>3, TableTypes DEF Back, R2
<1>5. R3(opens) \in Descriptors
  BY <1>1, <1>4, TableTypes DEF R3
<1>6. R4(opens) \in Descriptors
  <2>1. 1 \in Fds /\ 1 # None
    BY <1>1 DEF None
  <2>2. Dup2(R3(opens), File(opens), 1) \in Descriptors
    BY <1>2, <1>5, <2>1, TableTypes
  <2> QED
    BY <1>2, <2>1, <2>2, TableTypes DEF R4
<1>7. [NoCmd EXCEPT !.op = op, !.word = command, !.bg = bg, !.back = Back(opens)] \in CmdType
  BY <1>4, NoCmdType DEF CmdType
<1> QED
  BY <1>3, <1>4, <1>5, <1>6, <1>7 DEF Redirect, File, R1, Back, R2, R3, R4, Gone, Null

-----------------------------------------------------------------------------
(* What a line may be. *)
Entered ==
    \/ \E o \in Operands : Pipeline(o)
    \/ \E op \in {">", ">>"}, bg \in BOOLEAN, opens \in BOOLEAN, command \in Words :
          Redirect(op, bg, opens, command)
    \/ (\E dir \in Dirs : ChangeDir(dir)) \/ ChangeBack \/ ChangeFails
    \/ \E word \in Words, bg \in BOOLEAN : Run(word, bg)

LEMMA LineEntered ==
    ASSUME NEW c \in Made, executeCommand(c)
    PROVE  Entered
<1>1. PICK l \in Lines : c = [class |-> CreateCommand(l), sign |-> l.sign, bg |-> l.amp,
                              left |-> CreateCommand([l EXCEPT !.sign = "none"])]
  BY DEF Made
<1>2. \A k \in Lines : CreateCommand(k) \in Words
  BY DEF Lines, CreateCommand, createBuiltInCommand, Words, BuiltinTable
<1>3. [l EXCEPT !.sign = "none"] \in Lines
  BY DEF Lines
<1>4. c.class \in Words /\ c.left \in Words /\ c.bg \in BOOLEAN
  BY <1>1, <1>2, <1>3 DEF Lines
<1>5. c.class = "redirection" => c.sign \in {">", ">>"}
  BY <1>1 DEF CreateCommand, createBuiltInCommand, is_redirection_command, BuiltinTable, Lines
<1>6. CASE c.class = "pipe" /\ \E o \in Operands : o.bg = c.bg /\ Pipeline(o)
  BY <1>6, Zenon DEF Entered
<1>7. CASE c.class = "redirection" /\ \E opens \in BOOLEAN : Redirect(c.sign, c.bg, opens, c.left)
  BY <1>4, <1>5, <1>7, Zenon DEF Entered
<1>8. CASE ChangeBack \/ ChangeFails \/ \E dir \in Dirs : ChangeDir(dir)
  BY <1>8, Zenon DEF Entered
<1>9. CASE Run(c.class, c.bg)
  BY <1>4, <1>9, Zenon DEF Entered
<1> QED
  BY <1>6, <1>7, <1>8, <1>9, Zenon DEF executeCommand

(* A step of the shell, of a line, of a child or of somebody else. *)
LEMMA NextCases ==
    Next => \/ ShellStep \/ Entered
            \/ \E dir \in Dirs : RemoveDir(dir)
            \/ \E p \in Pids : Start(p) \/ WorkEnds(p)
  BY LineEntered, Zenon DEF Next

(* What a built-in does: jobs removes jobs, head closes what it opens. *)
LEMMA HeadCloses ==
    ASSUME NEW t \in Descriptors
    PROVE  HeadCommand(t) = t
<1> DEFINE n == Lowest(t)
           u == Set(t, n, "file")
<1>1. CASE Unused(t) = {}
  BY <1>1, LowestFree DEF HeadCommand, Close, Set
<1>2. CASE Unused(t) # {}
  <2>1. n \in Fds /\ t[n] = "free" /\ n # None
    BY <1>2, LowestFree
  <2>2. u = [t EXCEPT ![n] = "file"]
    BY <2>1 DEF Set
  <2> HIDE DEF u, n
  <2>3. Close(u, n) = [u EXCEPT ![n] = "free"]
    BY <2>1 DEF Close, Set
  <2>4. Close(u, n) = t
    BY <2>1, <2>2, <2>3 DEF Descriptors
  <2> QED
    BY <2>4 DEF HeadCommand, u, n
<1> QED
  BY <1>1, <1>2

LEMMA BuiltinRuns ==
    ASSUME Types, Builtin
    PROVE  /\ pc = "run" /\ pc' \in {After, "ended"}
           /\ Fewer(proc, proc') /\ jobs' \subseteq Pids \cup {None}
           /\ UNCHANGED <<budget, cmd, fd, full, astray, leaked, place>>
<1>1. fd \in Descriptors /\ proc \in [Pids -> ProcType] /\ jobs \subseteq Pids \cup {None}
  BY DEF Types, TypeOK
<1>2. UNCHANGED fd
  BY <1>1, HeadCloses DEF Builtin
<1>3. Fewer(proc, proc') /\ jobs' \subseteq Pids \cup {None}
  <2>1. CASE cmd.word = "jobs"
    <3>1. PICK r \in removeFinishedJobs(proc, jobs) : proc' = r.proc /\ jobs' = r.jobs
      BY <2>1 DEF Builtin
    <3> QED
      BY <1>1, <3>1, FinishedRemoved
  <2>2. CASE cmd.word # "jobs"
    BY <1>1, <2>2 DEF Builtin, Fewer
  <2> QED
    BY <2>1, <2>2
<1> QED
  BY <1>2, <1>3 DEF Builtin

-----------------------------------------------------------------------------
(* Types and places are kept. *)

Typed == Types /\ Places

LEMMA InitTyped == Init => Typed
<1> SUFFICES ASSUME Init PROVE Typed
  OBVIOUS
<1>1. proc \in [Pids -> ProcType] /\ cmd \in CmdType /\ \A p \in Pids : proc[p] \in ProcType
  BY NoProcType, NoCmdType DEF Init
<1>2. paths \in Seq(Dirs)
  BY EmptySeq DEF Init
<1>3. TypeOK
  BY <1>1, <1>2 DEF Init, TypeOK, Descriptors, ProcType, Works
<1>4. budget \in Int /\ leaked \in Int
  BY DEF Init
<1>5. full \in BOOLEAN /\ astray \in BOOLEAN
  BY Zenon DEF Init
<1>6. Places
  BY DEF Init, Places
<1> QED
  BY <1>1, <1>3, <1>4, <1>5, <1>6 DEF Typed, Types

(* TypeOK says of the children what their type says. *)
Rest == /\ fd \in Descriptors /\ jobs \subseteq Pids \cup {None}
        /\ cwd \in Dirs /\ paths \in Seq(Dirs) /\ exists \subseteq Dirs
        /\ pc \in {"prompt", "fork1", "fork2", "close", "wait1", "wait2", "run", "wait",
                   "restore", "done", "ended"}
        /\ proc \in [Pids -> ProcType] /\ cmd \in CmdType
        /\ budget \in Int /\ leaked \in Int /\ full \in BOOLEAN /\ astray \in BOOLEAN

LEMMA SameTypes == (Types <=> Rest) /\ (Types' <=> Rest')
<1>1. \A ps \in [Pids -> ProcType] : \A p \in Pids :
          /\ ps[p].status \in {"none", "starting", "running", "zombie"}
          /\ ps[p].work \in {"none", "job", "finite", "endless", "some", "all"}
          /\ ps[p].ends \subseteq {"read", "write"}
  BY DEF ProcType, Works
<1>2. Types <=> Rest
  BY <1>1 DEF Types, TypeOK, Rest
<1>3. Types' <=> Rest'
  BY <1>1 DEF Types, TypeOK, Rest
<1> QED
  BY <1>2, <1>3

LEMMA ChildrenTyped ==
    ASSUME Typed, NEW p \in Pids, Start(p) \/ WorkEnds(p)
    PROVE  Typed' /\ Children(proc') = Children(proc)
<1>1. Rest
  BY SameTypes DEF Typed
<1>2. proc' \in [Pids -> ProcType] /\ Children(proc') = Children(proc) /\ UNCHANGED <<shell, place>>
  <2>1. CASE Start(p)
    <3>1. KeepOwn(p) \in SUBSET {"read", "write"}
      BY <1>1 DEF KeepOwn, Rest, ProcType
    <3> QED
      BY <1>1, <2>1, <3>1 DEF Start, Rest, ProcType, Children
  <2>2. CASE WorkEnds(p)
    <3>1. [NoProc EXCEPT !.status = IF proc[p].status = "none" THEN "none" ELSE "zombie"] \in ProcType
      BY NoProcType DEF ProcType
    <3>2. [NoProc EXCEPT !.status = IF proc[p].status = "none" THEN "none" ELSE "zombie"].status
            = IF proc[p].status = "none" THEN "none" ELSE "zombie"
      BY DEF NoProc
    <3> QED
      BY <1>1, <2>2, <3>1, <3>2 DEF WorkEnds, Rest, Children
  <2> QED
    BY <2>1, <2>2
<1>3. Rest'
  BY <1>1, <1>2 DEF Rest, shell, place
<1>4. Places'
  BY <1>2 DEF Typed, Places, Piped, shell
<1> QED
  BY <1>2, <1>3, <1>4, SameTypes DEF Typed

LEMMA NewChild ==
    ASSUME Rest, CanFork, NEW status \in {"starting", "running"}, NEW bg \in BOOLEAN,
           NEW work \in Works
    PROVE  LET ps == [proc EXCEPT ![NewPid] = Child(status, bg, work)]
           IN /\ ps \in [Pids -> ProcType] /\ NewPid \in Pids
              /\ Children(ps) = Children(proc) \cup {NewPid}
<1>1. Child(status, bg, work) \in ProcType /\ Child(status, bg, work).status = status
  BY DEF Child, ProcType, Rest, CmdType, Ends
<1> QED
  BY <1>1, FreshPid DEF Rest, Children

Forked(from, to) ==
    /\ pc = from /\ pc' = to
    /\ proc' \in [Pids -> ProcType] /\ cmd' \in CmdType
    /\ \/ \E p \in Pids : Children(proc') = Children(proc) \cup {p}
       \/ Children(proc') = Children(proc)
    /\ \/ cmd' = cmd
       \/ cmd' = [cmd EXCEPT !.failed = TRUE]
    /\ UNCHANGED <<budget, jobs, full, astray, leaked, place>>

LEMMA OperandForked ==
    ASSUME Typed, NEW from, NEW to, NEW bg \in BOOLEAN, NEW work \in Works,
           ForkOperand(from, to, bg, work)
    PROVE  Forked(from, to)
<1>1. Rest
  BY SameTypes DEF Typed
<1>2. CASE CanFork /\ proc' = [proc EXCEPT ![NewPid] = Child("starting", bg, work)] /\ UNCHANGED cmd
  BY <1>1, <1>2, NewChild DEF ForkOperand, Rest, Forked
<1>3. CASE cmd' = [cmd EXCEPT !.failed = TRUE] /\ UNCHANGED proc
  BY <1>1, <1>3 DEF ForkOperand, Rest, CmdType, Forked
<1> QED
  BY <1>2, <1>3 DEF ForkOperand

LEMMA LeftForked ==
    ASSUME Typed, ForkLeft
    PROVE  Forked("fork1", "fork2")
<1>1. cmd.leftBg \in BOOLEAN /\ LeftWork \in Works
  BY SameTypes DEF Typed, Rest, CmdType, LeftWork, Works
<1>2. ForkOperand("fork1", "fork2", cmd.leftBg, LeftWork)
  BY DEF ForkLeft
<1> QED
  BY <1>1, <1>2, OperandForked, Zenon

LEMMA RightForked ==
    ASSUME Typed, ForkRight
    PROVE  Forked("fork2", "close")
<1>1. cmd.bg \in BOOLEAN /\ cmd.right \in Works
  BY SameTypes DEF Typed, Rest, CmdType
<1>2. ForkOperand("fork2", "close", cmd.bg, cmd.right)
  BY DEF ForkRight
<1> QED
  BY <1>1, <1>2, OperandForked, Zenon

LEMMA OneReaped ==
    ASSUME Rest, NEW who, ReapOne(who)
    PROVE  /\ proc' \in [Pids -> ProcType]
           /\ \/ \E p \in Children(proc) \cap who : Children(proc') = Children(proc) \ {p}
              \/ Children(proc) \cap who = {} /\ Children(proc') = Children(proc)
<1>1. CASE \E p \in Zombies(proc) \cap who : proc' = Reaped(proc, {p})
  <2>1. PICK p \in Zombies(proc) \cap who : proc' = Reaped(proc, {p})
    BY <1>1
  <2>2. p \in Children(proc)
    BY <2>1 DEF Zombies, Children
  <2> QED
    BY <2>1, <2>2, ReapedFewer DEF Rest, Fewer
<1>2. CASE Children(proc) \cap who = {} /\ UNCHANGED proc
  BY <1>2 DEF Rest
<1> QED
  BY <1>1, <1>2 DEF ReapOne

(* Execute: with a child or without, in front or behind. *)
LEMMA Executed ==
    ASSUME Typed, Execute
    PROVE  /\ proc' \in [Pids -> ProcType] /\ jobs' \subseteq Pids \cup {None}
           /\ \E pid \in Pids \cup {None} :
                 /\ cmd' = [cmd EXCEPT !.pid = pid, !.failed = pid = None]
                 /\ Children(proc') \subseteq Children(proc) \cup {pid}
           /\ cmd' \in CmdType
           /\ pc' = IF ~cmd.bg THEN "wait" ELSE After
<1>1. Rest
  BY SameTypes DEF Typed
<1> DEFINE work == IF cmd.bg THEN "job" ELSE "finite"
           ps(pid) == IF pid = None THEN proc ELSE [proc EXCEPT ![pid] = Child("running", cmd.bg, work)]
<1>2. PICK pid \in {None} \cup (IF CanFork THEN {NewPid} ELSE {}) :
         /\ cmd' = [cmd EXCEPT !.pid = pid, !.failed = pid = None]
         /\ IF cmd.bg THEN Background(ps(pid), pid) ELSE Foreground(ps(pid), pid)
  BY DEF Execute
<1>3. pid \in Pids \cup {None} /\ (pid # None => CanFork /\ pid = NewPid)
  BY <1>2, FreshPid
<1>4. ps(pid) \in [Pids -> ProcType] /\ Children(ps(pid)) \subseteq Children(proc) \cup {pid}
  <2>1. work \in Works /\ cmd.bg \in BOOLEAN
    BY <1>1 DEF Works, Rest, CmdType
  <2> QED
    BY <1>1, <1>3, <2>1, NewChild DEF Rest
<1> HIDE DEF ps
<1>5. cmd' \in CmdType
  BY <1>1, <1>2, <1>3 DEF Rest, CmdType
<1>6. CASE cmd.bg
  <2>1. PICK r \in removeFinishedJobs(ps(pid), jobs) : proc' = r.proc /\ jobs' = r.jobs \cup {pid}
    BY <1>2, <1>6 DEF Background
  <2>2. Fewer(ps(pid), r.proc) /\ r.jobs \subseteq Pids \cup {None}
    BY <1>1, <1>4, <2>1, FinishedRemoved DEF Rest
  <2> QED
    BY <1>2, <1>3, <1>4, <1>5, <1>6, <2>1, <2>2 DEF Background, Fewer
<1>7. CASE ~cmd.bg
  BY <1>1, <1>2, <1>3, <1>4, <1>5, <1>7 DEF Foreground, Rest
<1> QED
  BY <1>6, <1>7

LEMMA FdTyped ==
    ASSUME Typed
    PROVE  /\ fd \in Descriptors /\ {0, 1, 2} \subseteq Fds
           /\ cmd.back \in Fds \cup {None}
           /\ cmd.pipes[1] \in Fds \cup {None} /\ cmd.pipes[2] \in Fds \cup {None}
           /\ Dup2(fd, cmd.back, 1) \in Descriptors
           /\ CloseBoth \in Descriptors /\ Restored \in Descriptors
<1>1. fd \in Descriptors /\ cmd \in CmdType
  BY DEF Typed, Types, TypeOK
<1>2. {0, 1, 2} \subseteq Fds /\ 1 # None
  BY DEF Fds, None
<1>3. /\ cmd.back \in Fds \cup {None}
      /\ cmd.pipes \in (Fds \cup {None}) \X (Fds \cup {None})
  BY <1>1 DEF CmdType
<1>4. cmd.pipes[1] \in Fds \cup {None} /\ cmd.pipes[2] \in Fds \cup {None}
  BY <1>3
<1>5. Dup2(fd, cmd.back, 1) \in Descriptors
  BY <1>1, <1>2, <1>3, TableTypes
<1>6. Close(fd, cmd.pipes[1]) \in Descriptors
  BY <1>1, <1>4, TableTypes
<1>7. CloseBoth \in Descriptors
  BY <1>4, <1>6, TableTypes DEF CloseBoth
<1>8. Restored \in Descriptors
  BY <1>3, <1>5, TableTypes DEF Restored
<1> QED
  BY <1>1, <1>2, <1>3, <1>4, <1>5, <1>7, <1>8

LEMMA PlaceTyped ==
    ASSUME Typed, NEW rest \in Seq(Dirs), NEW dir \in Dirs, Changes(rest, dir)
    PROVE  cwd' \in Dirs /\ paths' \in Seq(Dirs)
  BY SameTypes, AppendProperties DEF Typed, Rest, Changes, PushOld

LEMMA FrontTyped ==
    ASSUME NEW s \in Seq(Dirs), s # <<>>
    PROVE  Front(s) \in Seq(Dirs) /\ Last(s) \in Dirs
<1>1. Len(s) \in Nat \ {0} /\ Len(s) \in 1..Len(s)
  BY LenProperties, EmptySeq
<1> QED
  BY <1>1, SubSeqProperties DEF Front, Last

LEMMA PrefixLength ==
    ASSUME NEW s \in Seq(Dirs), NEW n \in Nat, \A i \in 1..n : s[i] \in Dirs
    PROVE  Len(SubSeq(s, 1, n)) = n
  BY SubSeqProperties

LEMMA FrontDiffers ==
    ASSUME NEW s \in Seq(Dirs), s # <<>>
    PROVE  Front(s) # s
<1>1. Len(s) \in Nat \ {0}
  BY LenProperties, EmptySeq
<1>2. Len(s) - 1 \in Nat /\ \A i \in 1..Len(s) - 1 : s[i] \in Dirs
  BY <1>1
<1>3. Len(SubSeq(s, 1, Len(s) - 1)) = Len(s) - 1
  BY <1>2, PrefixLength
<1>4. Len(SubSeq(s, 1, Len(s) - 1)) # Len(s)
  BY <1>1, <1>3
<1> QED
  BY <1>4, Zenon DEF Front

LEMMA StepTyped == Typed /\ [Next]_vars => Typed'
<1> SUFFICES ASSUME Typed, [Next]_vars PROVE Typed'
  OBVIOUS
<1>1. Rest
  BY SameTypes DEF Typed
<1>2. Rest' /\ Places' => Typed'
  BY SameTypes DEF Typed
<1> USE DEF Rest, place
<1>3. CASE Prompt
  BY <1>1, <1>2, <1>3, NoCmdType DEF Prompt, Places, NoCmd
<1>4. CASE ForkLeft
  <2>2. /\ pc = "fork1" /\ pc' = "fork2" /\ proc' \in [Pids -> ProcType] /\ cmd' \in CmdType
        /\ cmd'.op = cmd.op /\ UNCHANGED <<budget, jobs, full, astray, leaked, place>>
    BY <1>1, <1>4, LeftForked DEF Forked, ForkLeft, CmdType
  <2>3. fd' \in Descriptors
    BY <1>1, <1>4, FdTyped DEF ForkLeft
  <2> QED
    BY <1>1, <1>2, <2>2, <2>3 DEF Typed, Places, Piped
<1>5. CASE ForkRight
  <2>2. /\ pc = "fork2" /\ pc' = "close" /\ proc' \in [Pids -> ProcType] /\ cmd' \in CmdType
        /\ cmd'.op = cmd.op /\ UNCHANGED <<budget, jobs, full, astray, leaked, place>>
    BY <1>1, <1>5, RightForked DEF Forked, ForkRight, CmdType
  <2> QED
    BY <1>1, <1>2, <1>5, <2>2 DEF ForkRight, Typed, Places, Piped
<1>6. CASE CloseEnds
  BY <1>1, <1>2, <1>6, FdTyped DEF CloseEnds, Typed, Places, Piped
<1>7. CASE Wait
  <2>1. proc' \in [Pids -> ProcType]
    BY <1>1, <1>7, OneReaped DEF Wait
  <2> QED
    BY <1>1, <1>2, <1>7, <2>1 DEF Wait, Typed, Places, Piped, After, AfterWait1
<1>8. CASE Execute
  <2>1. /\ proc' \in [Pids -> ProcType] /\ jobs' \subseteq Pids \cup {None} /\ cmd' \in CmdType
        /\ cmd'.op = cmd.op /\ cmd'.bg = cmd.bg
        /\ pc' = IF ~cmd.bg THEN "wait" ELSE After
    BY <1>1, <1>8, Executed DEF CmdType
  <2> QED
    BY <1>1, <1>2, <1>8, <2>1 DEF Execute, Typed, Places, Piped, After
<1>9. CASE Restore
  <2>1. proc' \in [Pids -> ProcType] /\ jobs' \subseteq Pids \cup {None}
    BY <1>1, <1>9, FinishedRemoved DEF Restore, Fewer
  <2>2. Restored \in Descriptors
    BY FdTyped
  <2> QED
    BY <1>1, <1>2, <1>9, <2>1, <2>2 DEF Restore, Places
<1>19. CASE Builtin
  <2>1. /\ pc = "run" /\ pc' \in {After, "ended"}
        /\ Fewer(proc, proc') /\ jobs' \subseteq Pids \cup {None}
        /\ UNCHANGED <<budget, cmd, fd, full, astray, leaked, place>>
    BY <1>19, BuiltinRuns DEF Typed
  <2> QED
    BY <1>1, <1>2, <2>1 DEF Fewer, After, Typed, Places, Piped
<1>10. ASSUME NEW o \in Operands, Pipeline(o) PROVE Typed'
  <2>1. PICK pipes \in (Fds \cup {None}) \X (Fds \cup {None}) :
           LET c == [NoCmd EXCEPT !.op = o.op, !.bg = o.bg, !.leftBg = o.leftBg \/ o.bg,
                                  !.left = o.left, !.right = o.right, !.back = Dup(T1, Out(o)), !.pipes = pipes]
           IN /\ c \in CmdType /\ Line(3, "fork1", c)
              /\ HasRoom(o) => pipes = <<Lowest(T2(o)), Lowest(T3(o))>>
              /\ fd' = IF HasRoom(o) THEN Set(T3(o), pipes[2], "write") ELSE T2(o)
              /\ full' = (full \/ ~HasRoom(o))
              /\ leaked' = leaked + 2
              /\ UNCHANGED <<astray, place>>
    BY <1>10, PipelineOutcome DEF Typed
  <2>2. PICK c \in CmdType : Line(3, "fork1", c) /\ c.op = o.op
    BY <2>1 DEF NoCmd
  <2>3. /\ pc = "prompt" /\ pc' = "fork1" /\ budget' \in Int /\ Fewer(proc, proc')
        /\ jobs' \subseteq Pids \cup {None} /\ cmd' \in CmdType /\ cmd'.op = o.op
    BY <2>2, LineOutcome DEF Typed, CmdType
  <2>4. fd' \in Descriptors
    <3>1. {0, 1, 2} \subseteq Fds /\ fd \in Descriptors
      BY <1>1 DEF Fds
    <3>2. T1 \in Descriptors
      BY <3>1, TableTypes DEF T1
    <3>3. T2(o) \in Descriptors
      BY <3>1, <3>2, TableTypes DEF T2, Out
    <3>4. T3(o) \in Descriptors
      BY <3>1, <3>3, TableTypes DEF T3
    <3>5. pipes[2] \in Fds \cup {None}
      BY <2>1
    <3> QED
      BY <2>1, <3>1, <3>3, <3>4, <3>5, TableTypes
  <2>5. leaked' \in Int /\ full' \in BOOLEAN /\ UNCHANGED <<astray, place>>
    BY <1>1, <2>1
  <2> QED
    BY <1>1, <1>2, <2>3, <2>4, <2>5 DEF Places, Piped, Fewer, Operands
<1>11. ASSUME NEW word \in Words, NEW bg \in BOOLEAN, Run(word, bg) PROVE Typed'
  <2> DEFINE c == [NoCmd EXCEPT !.op = "run", !.word = word, !.bg = bg]
  <2>1. c \in CmdType /\ c.op = "run" /\ Line(3, "run", c)
    BY <1>11, NoCmdType DEF CmdType, Run
  <2> HIDE DEF c
  <2>2. /\ pc = "prompt" /\ pc' = "run" /\ budget' \in Int /\ Fewer(proc, proc')
        /\ jobs' \subseteq Pids \cup {None} /\ cmd' \in CmdType /\ cmd'.op = "run"
    BY <2>1, LineOutcome DEF Typed
  <2> QED
    BY <1>1, <1>2, <1>11, <2>2 DEF Run, Places, Fewer
<1>12. ASSUME NEW op \in {">", ">>"}, NEW bg \in BOOLEAN, NEW opens \in BOOLEAN,
              NEW command \in Words, Redirect(op, bg, opens, command)
       PROVE  Typed'
  <2> DEFINE c == [NoCmd EXCEPT !.op = op, !.word = command, !.bg = bg, !.back = Back(opens)]
             next == IF Gone(op, opens) \/ Null(op, opens, command) THEN "done" ELSE "run"
  <2>1. /\ c \in CmdType /\ R4(opens) \in Descriptors /\ Line(3, next, c)
        /\ fd' = IF Gone(op, opens) THEN fd ELSE R4(opens)
        /\ full' \in BOOLEAN /\ astray' \in BOOLEAN /\ leaked' \in Int
        /\ UNCHANGED place
    <3>1. Types
      BY DEF Typed
    <3>2. c \in CmdType /\ R4(opens) \in Descriptors /\ Line(3, next, c)
      BY <1>12, <3>1, RedirectOutcome
    <3>3. /\ fd' = IF Gone(op, opens) THEN fd ELSE R4(opens)
          /\ UNCHANGED place
      BY <1>12, <3>1, RedirectOutcome
    <3>4. full' \in BOOLEAN /\ astray' \in BOOLEAN
      <4>1. full' = (full \/ (~Gone(op, opens) /\ Cardinality(Unused(R1(opens))) < 2))
        BY <1>12, <3>1, RedirectOutcome
      <4>2. astray' = (astray \/ (Null(op, opens, command) /\ File(opens) # None))
        BY <1>12, <3>1, RedirectOutcome
      <4> QED
        BY <4>1, <4>2, Zenon
    <3>5. leaked' \in Int
      <4>1. leaked' = leaked + (IF Gone(op, opens) THEN 0
                                ELSE IF Null(op, opens, command) THEN 2 ELSE 1)
        BY <1>12, <3>1, RedirectOutcome
      <4> QED
        BY <1>1, <4>1
    <3> QED
      BY <3>2, <3>3, <3>4, <3>5
  <2>2. c.op = op
    BY NoCmdType DEF CmdType
  <2> HIDE DEF c, next
  <2>3. /\ pc = "prompt" /\ pc' = next /\ budget' \in Int /\ Fewer(proc, proc')
        /\ jobs' \subseteq Pids \cup {None} /\ cmd' \in CmdType /\ cmd'.op = op
    BY <2>1, <2>2, LineOutcome DEF Typed, CmdType
  <2> QED
    BY <1>1, <1>2, <2>1, <2>3 DEF Places, Fewer, next
<1>13. ASSUME NEW next \in {"prompt", "ended"}, Cd(next), cwd' \in Dirs, paths' \in Seq(Dirs)
       PROVE  Typed'
  <2>1. /\ pc = "prompt" /\ pc' = next /\ budget' \in Int /\ Fewer(proc, proc')
        /\ jobs' \subseteq Pids \cup {None} /\ cmd' \in CmdType
    <3>1. Types /\ Line(1, next, NoCmd) /\ NoCmd \in CmdType
      BY <1>13, NoCmdType DEF Cd, Typed
    <3> QED
      BY <3>1, LineOutcome
  <2> QED
    BY <1>1, <1>2, <1>13, <2>1 DEF Cd, Places, Fewer
<1>14. ASSUME NEW dir \in Dirs, ChangeDir(dir) PROVE Typed'
  BY <1>1, <1>13, <1>14, PlaceTyped DEF ChangeDir
<1>15. CASE ChangeBack
  <2>1. CASE paths = <<>>
    BY <1>1, <1>13, <1>15, <2>1 DEF ChangeBack, Stays
  <2>2. CASE paths # <<>>
    <3>1. Front(paths) \in Seq(Dirs) /\ Last(paths) \in Dirs
      BY <1>1, <2>2, FrontTyped
    <3> QED
      BY <1>13, <1>15, <2>2, <3>1, PlaceTyped DEF ChangeBack
  <2> QED
    BY <2>1, <2>2
<1>16. CASE ChangeFails
  BY <1>1, <1>13, <1>16 DEF ChangeFails, Stays
<1>17. ASSUME NEW dir \in Dirs, RemoveDir(dir) PROVE Typed'
  BY <1>1, <1>2, <1>17 DEF RemoveDir, shell, Typed, Places, Piped
<1>18. CASE UNCHANGED vars
  BY <1>1, <1>2, <1>18 DEF vars, shell, Typed, Places, Piped
<1> QED
  BY <1>3, <1>4, <1>5, <1>6, <1>7, <1>8, <1>9, <1>10, <1>11, <1>12, <1>14, <1>15, <1>16, <1>17,
     <1>18, <1>19, NextCases, ChildrenTyped DEF ShellStep, Entered

(* Every variable keeps its type, whatever pipe() leaves in its array and  *)
(* whichever forks fail.                                                   *)
THEOREM TypeCorrect == FairSpec => []TypeOK
<1>1. Typed => TypeOK
  BY DEF Typed, Types
<1> QED
  BY InitTyped, StepTyped, <1>1, PTL DEF FairSpec

-----------------------------------------------------------------------------
(* The stack of cd. *)

LEMMA ChangesKeepBack ==
    ASSUME Typed, NEW rest \in Seq(Dirs), NEW dir \in Dirs, Changes(rest, dir),
           rest = paths \/ forgot' \/ dir \in exists, BackIsPrevious
    PROVE  BackIsPrevious'
<1>1. Rest
  BY SameTypes DEF Typed
<1>2. CASE dir \in exists
  <2>1. paths' = Append(rest, cwd) /\ previous' = cwd
    BY <1>2 DEF Changes, PushOld
  <2>2. cwd \in Dirs
    BY <1>1 DEF Rest
  <2>3. Append(rest, cwd) # <<>> /\ Last(Append(rest, cwd)) = cwd
    BY <2>2, AppendProperties DEF Last
  <2> QED
    BY <2>1, <2>3 DEF BackIsPrevious
<1>3. CASE dir \notin exists
  BY <1>3 DEF Changes, BackIsPrevious
<1> QED
  BY <1>2, <1>3

LEMMA StepKeepsBack == Typed /\ BackIsPrevious /\ [Next]_vars => BackIsPrevious'
<1> SUFFICES ASSUME Typed, BackIsPrevious, [Next]_vars PROVE BackIsPrevious'
  OBVIOUS
<1>1. Rest
  BY SameTypes DEF Typed
<1>2. UNCHANGED <<paths, previous, forgot>> => BackIsPrevious'
  BY DEF BackIsPrevious
<1> USE DEF place
<1>3. CASE ShellStep
  BY <1>2, <1>3 DEF ShellStep, Prompt, ForkLeft, ForkRight, ForkOperand, CloseEnds, Wait, Execute,
                    Builtin, Restore
<1>4. ASSUME NEW o \in Operands, Pipeline(o) PROVE BackIsPrevious'
  BY <1>2, <1>4, PipelineOutcome DEF Typed
<1>5. ASSUME NEW word \in Words, NEW bg \in BOOLEAN, Run(word, bg) PROVE BackIsPrevious'
  BY <1>2, <1>5 DEF Run
<1>6. ASSUME NEW op \in {">", ">>"}, NEW bg \in BOOLEAN, NEW opens \in BOOLEAN,
             NEW command \in Words, Redirect(op, bg, opens, command)
      PROVE  BackIsPrevious'
  <2>1. UNCHANGED place
    BY <1>6, Zenon DEF Redirect
  <2> QED
    BY <1>2, <2>1
<1>7. ASSUME NEW dir \in Dirs, ChangeDir(dir) PROVE BackIsPrevious'
  <2>1. paths \in Seq(Dirs) /\ Changes(paths, dir)
    BY <1>1, <1>7 DEF ChangeDir, Rest
  <2> QED
    BY <2>1, ChangesKeepBack
<1>8. CASE ChangeBack
  <2>1. CASE paths = <<>>
    BY <1>2, <1>8, <2>1 DEF ChangeBack, Stays
  <2>2. CASE paths # <<>>
    <3>1. Front(paths) \in Seq(Dirs) /\ Last(paths) \in Dirs
      BY <1>1, <2>2, FrontTyped DEF Rest
    <3>2. Changes(Front(paths), Last(paths))
      BY <1>8, <2>2 DEF ChangeBack
    <3>3. Front(paths) # paths
      BY <1>1, <2>2, FrontDiffers DEF Rest
    <3>4. forgot' \/ Last(paths) \in exists
      BY <3>2, <3>3 DEF Changes
    <3> QED
      BY <3>1, <3>2, <3>4, ChangesKeepBack
  <2> QED
    BY <2>1, <2>2
<1>9. CASE ChangeFails
  BY <1>2, <1>9 DEF ChangeFails, Stays
<1>10. ASSUME NEW dir \in Dirs, RemoveDir(dir) PROVE BackIsPrevious'
  BY <1>2, <1>10 DEF RemoveDir
<1>11. ASSUME NEW p \in Pids, Start(p) \/ WorkEnds(p) PROVE BackIsPrevious'
  BY <1>2, <1>11 DEF Start, WorkEnds
<1>12. CASE UNCHANGED vars
  BY <1>2, <1>12 DEF vars
<1> QED
  BY <1>3, <1>4, <1>5, <1>6, <1>7, <1>8, <1>9, <1>10, <1>11, <1>12, NextCases
  DEF Entered

(* Unless a cd - that failed has forgotten it, the directory on top of the *)
(* stack is the one that the last cd came from.                            *)
THEOREM WayBack == FairSpec => []BackIsPrevious
<1>1. Init => BackIsPrevious
  BY DEF Init, BackIsPrevious
<1> QED
  BY InitTyped, StepTyped, <1>1, StepKeepsBack, PTL DEF FairSpec

-----------------------------------------------------------------------------
(* The children of a command that began with none.                         *)

Waited ==
    ~cmd.others =>
        /\ pc \in {"fork1", "run"} => Children(proc) = {}
        /\ pc = "fork2" => \E p : Children(proc) \subseteq {p}
        /\ pc \in {"close", "wait1"} => \E p, q : Children(proc) \subseteq {p, q}
        /\ pc = "wait2" => \E p : Children(proc) \subseteq {p}
        /\ pc = "wait" => Children(proc) \subseteq {cmd.pid}
        /\ pc \in {"restore", "done"} /\ (Piped \/ ~cmd.bg) => Children(proc) = {}

LEMMA LineFields ==
    ASSUME Types, NEW size \in Int, NEW next, NEW c \in CmdType, Line(size, next, c)
    PROVE  /\ cmd'.op = c.op /\ cmd'.bg = c.bg /\ cmd'.back = c.back /\ cmd'.pipes = c.pipes
           /\ ~cmd'.others => Children(proc') = {}
<1>1. cmd' = [c EXCEPT !.others = Children(proc') # {}]
  BY LineOutcome
<1>2. cmd'.others = (Children(proc') # {})
  BY <1>1, Zenon DEF CmdType
<1> QED
  BY <1>1, <1>2 DEF CmdType

LEMMA LineWaited ==
    ASSUME Types, NEW size \in Int, NEW next \in {"fork1", "run", "done", "prompt", "ended"},
           NEW c \in CmdType, Line(size, next, c)
    PROVE  Waited'
<1>1. pc' = next
  BY LineOutcome
<1> QED
  BY <1>1, LineFields DEF Waited

LEMMA StepKeepsWaited == Typed /\ Waited /\ [Next]_vars => Waited'
<1> SUFFICES ASSUME Typed, Waited, [Next]_vars PROVE Waited'
  OBVIOUS
<1>1. Rest /\ Types
  BY SameTypes DEF Typed
<1>2. Children(proc) \subseteq Pids /\ Children(proc') \subseteq Pids /\ None \notin Pids
  BY DEF Children, None
<1>3. CASE Prompt
  BY <1>3 DEF Prompt, Waited
<1>4. CASE ForkLeft
  <2>2. /\ pc = "fork1" /\ pc' = "fork2" /\ cmd'.others = cmd.others
        /\ \/ \E p \in Pids : Children(proc') = Children(proc) \cup {p}
           \/ Children(proc') = Children(proc)
    BY <1>1, <1>4, LeftForked DEF Forked, ForkLeft, CmdType, Rest
  <2> QED
    BY <2>2 DEF Waited
<1>5. CASE ForkRight
  <2>2. /\ pc = "fork2" /\ pc' = "close" /\ cmd'.others = cmd.others
        /\ \/ \E p \in Pids : Children(proc') = Children(proc) \cup {p}
           \/ Children(proc') = Children(proc)
    BY <1>1, <1>5, RightForked DEF Forked, ForkRight, CmdType, Rest
  <2> QED
    BY <2>2 DEF Waited
<1>6. CASE CloseEnds
  BY <1>6 DEF CloseEnds, Waited
<1>7. CASE Wait
  <2>1. UNCHANGED cmd
    BY <1>7 DEF Wait
  <2>2. CASE pc = "wait1"
    <3>1. ReapOne(Pids) /\ pc' = "wait2"
      BY <1>7, <2>2 DEF Wait, AfterWait1
    <3>2. \/ \E p \in Children(proc) : Children(proc') = Children(proc) \ {p}
          \/ Children(proc) = {} /\ Children(proc') = Children(proc)
      BY <1>1, <1>2, <3>1, OneReaped
    <3> QED
      BY <2>1, <2>2, <3>1, <3>2 DEF Waited
  <2>3. CASE pc = "wait2"
    <3>1. ReapOne(Pids) /\ pc' = "done"
      BY <1>7, <2>3 DEF Wait
    <3>2. \/ \E p \in Children(proc) : Children(proc') = Children(proc) \ {p}
          \/ Children(proc) = {} /\ Children(proc') = Children(proc)
      BY <1>1, <1>2, <3>1, OneReaped
    <3> QED
      BY <2>1, <2>3, <3>1, <3>2 DEF Waited
  <2>4. CASE pc = "wait"
    <3> DEFINE who == IF cmd.pid = None THEN Pids ELSE {cmd.pid}
    <3>1. ReapOne(who) /\ pc' \in {"done", "restore"}
      BY <1>7, <2>4 DEF Wait, After
    <3>2. \/ \E p \in Children(proc) \cap who : Children(proc') = Children(proc) \ {p}
          \/ Children(proc) \cap who = {} /\ Children(proc') = Children(proc)
      BY <1>1, <3>1, OneReaped
    <3> QED
      BY <1>2, <2>1, <2>4, <3>1, <3>2 DEF Waited
  <2> QED
    BY <1>7, <2>2, <2>3, <2>4 DEF Wait
<1>8. CASE Execute
  <2>1. PICK pid \in Pids \cup {None} :
           /\ cmd' = [cmd EXCEPT !.pid = pid, !.failed = pid = None]
           /\ Children(proc') \subseteq Children(proc) \cup {pid}
    BY <1>8, Executed
  <2>2. cmd'.pid = pid /\ cmd'.op = cmd.op /\ cmd'.bg = cmd.bg /\ cmd'.others = cmd.others
    BY <1>1, <2>1 DEF Rest, CmdType
  <2>3. pc = "run" /\ pc' = IF ~cmd.bg THEN "wait" ELSE After
    BY <1>8, Executed DEF Execute
  <2>4. ~Piped
    BY <2>3 DEF Typed, Places, Piped
  <2> QED
    BY <2>1, <2>2, <2>3, <2>4 DEF Waited, Piped, After
<1>9. CASE Restore
  <2>1. Children(proc') \subseteq Children(proc)
    BY <1>1, <1>9, FinishedRemoved DEF Restore, Fewer, Rest
  <2> QED
    BY <1>9, <2>1 DEF Restore, Waited, Piped
<1>18. CASE Builtin
  <2>1. /\ pc = "run" /\ pc' \in {After, "ended"} /\ UNCHANGED cmd
        /\ Children(proc') \subseteq Children(proc)
    BY <1>1, <1>18, BuiltinRuns DEF Fewer
  <2> QED
    BY <2>1 DEF Waited, Piped, After
<1>10. ASSUME NEW o \in Operands, Pipeline(o) PROVE Waited'
  <2>1. \E c \in CmdType : Line(3, "fork1", c)
    BY <1>1, <1>10, PipelineOutcome
  <2> QED
    BY <1>1, <2>1, LineWaited
<1>11. ASSUME NEW word \in Words, NEW bg \in BOOLEAN, Run(word, bg) PROVE Waited'
  <2>1. \E c \in CmdType : Line(3, "run", c)
    BY <1>11, NoCmdType DEF CmdType, Run
  <2> QED
    BY <1>1, <2>1, LineWaited
<1>12. ASSUME NEW op \in {">", ">>"}, NEW bg \in BOOLEAN, NEW opens \in BOOLEAN,
              NEW command \in Words, Redirect(op, bg, opens, command)
       PROVE  Waited'
  <2>1. \E c \in CmdType, next \in {"run", "done"} : Line(3, next, c)
    <3> DEFINE c == [NoCmd EXCEPT !.op = op, !.word = command, !.bg = bg, !.back = Back(opens)]
               next == IF Gone(op, opens) \/ Null(op, opens, command) THEN "done" ELSE "run"
    <3>1. c \in CmdType /\ Line(3, next, c)
      BY <1>1, <1>12, RedirectOutcome
    <3> QED
      BY <3>1
  <2> QED
    BY <1>1, <2>1, LineWaited
<1>13. ASSUME NEW next \in {"prompt", "ended"}, Cd(next) PROVE Waited'
  BY <1>1, <1>13, LineWaited, NoCmdType DEF Cd
<1>14. (\E dir \in Dirs : ChangeDir(dir)) \/ ChangeBack \/ ChangeFails => Waited'
  BY <1>13 DEF ChangeDir, ChangeBack, ChangeFails
<1>15. ASSUME NEW dir \in Dirs, RemoveDir(dir) PROVE Waited'
  BY <1>15 DEF RemoveDir, shell, Waited, Piped
<1>16. ASSUME NEW p \in Pids, Start(p) \/ WorkEnds(p) PROVE Waited'
  <2>1. Children(proc') = Children(proc) /\ UNCHANGED shell
    BY <1>16, ChildrenTyped DEF Start, WorkEnds
  <2> QED
    BY <2>1 DEF shell, Waited, Piped
<1>17. CASE UNCHANGED vars
  BY <1>17 DEF vars, shell, Waited, Piped, Children
<1> QED
  BY <1>3, <1>4, <1>5, <1>6, <1>7, <1>8, <1>9, <1>10, <1>11, <1>12, <1>14, <1>15, <1>16, <1>17,
     <1>18, NextCases DEF ShellStep, Entered

-----------------------------------------------------------------------------
(* The descriptors while the table has room: where stdin, stdout and       *)
(* stderr point, how many are in use and which are ends of pipes.          *)

Targets == {"tty", "file"}
Holds(t, out, used, ends) ==
    /\ t \in Descriptors /\ out \in Targets
    /\ t[0] = "tty" /\ t[1] = out /\ t[2] = "tty"
    /\ MaxFd - FreeCount(t) = used
    /\ ends = {n \in Fds : t[n] \in {"read", "write"}}
HigherFds == Fds \ {0, 1, 2}

LEMMA SmallFds == {0, 1, 2} \subseteq Fds /\ MaxFd \in Nat
  BY DEF Fds

LEMMA HasFree ==
    ASSUME NEW t \in Descriptors
    PROVE  Unused(t) # {} <=> FreeCount(t) >= 1
  BY UnusedFinite, FS_EmptySet DEF FreeCount

LEMMA OpenHolds ==
    ASSUME NEW t, NEW out, NEW used, NEW ends, Holds(t, out, used, ends), Unused(t) # {},
           NEW what \in {"tty", "file", "read", "write"}, NEW n, n = Lowest(t),
           NEW u, u = Set(t, n, what)
    PROVE  /\ n \in HigherFds \ ends /\ t[n] = "free" /\ n # None
           /\ FreeCount(u) = FreeCount(t) - 1
           /\ u[n] = what /\ \A m \in Fds : m # n => u[m] = t[m]
           /\ \A more : more = {m \in Fds : u[m] \in {"read", "write"}}
                            => Holds(u, out, used + 1, more)
<1>1. t \in Descriptors
  BY DEF Holds
<1>2. n \in Fds /\ t[n] = "free" /\ n # None
  BY <1>1, LowestFree
<1>3. n \in HigherFds \ ends
  BY <1>2 DEF Holds, HigherFds, Targets
<1>4. /\ u \in Descriptors /\ FreeCount(u) = FreeCount(t) - 1
      /\ u[n] = what /\ \A m \in Fds : m # n => u[m] = t[m]
  BY <1>1, <1>2, Opened
<1>5. MaxFd - FreeCount(u) = used + 1
  <2>1. FreeCount(t) \in Nat /\ MaxFd \in Nat /\ MaxFd - FreeCount(t) = used
    BY <1>1, UnusedFinite, SmallFds DEF Holds
  <2> QED
    BY <1>4, <2>1
<1>6. u[0] = "tty" /\ u[1] = out /\ u[2] = "tty" /\ out \in Targets
  BY <1>3, <1>4, SmallFds DEF Holds, HigherFds
<1>7. ASSUME NEW more, more = {m \in Fds : u[m] \in {"read", "write"}}
      PROVE  Holds(u, out, used + 1, more)
  BY <1>4, <1>5, <1>6, <1>7 DEF Holds
<1> QED
  BY <1>2, <1>3, <1>4, <1>7

LEMMA CopyHolds ==
    ASSUME NEW t, NEW out, NEW used, NEW ends, Holds(t, out, used, ends), Unused(t) # {},
           NEW what \in Targets, NEW n, n = Lowest(t), NEW u, u = Set(t, n, what)
    PROVE  /\ n \in HigherFds \ ends /\ t[n] = "free" /\ n # None
           /\ Holds(u, out, used + 1, ends)
           /\ FreeCount(u) = FreeCount(t) - 1
           /\ u[n] = what /\ \A m \in Fds : m # n => u[m] = t[m]
<1>1. what \in {"tty", "file", "read", "write"} /\ what \notin {"read", "write"}
  BY DEF Targets
<1>2. /\ n \in HigherFds \ ends /\ t[n] = "free" /\ n # None
      /\ FreeCount(u) = FreeCount(t) - 1
      /\ u[n] = what /\ \A m \in Fds : m # n => u[m] = t[m]
  BY <1>1, OpenHolds
<1>3. ends = {m \in Fds : u[m] \in {"read", "write"}}
  BY <1>1, <1>2 DEF Holds
<1>4. Holds(u, out, used + 1, ends)
  BY <1>1, <1>3, OpenHolds
<1> QED
  BY <1>2, <1>4

LEMMA EndHolds ==
    ASSUME NEW t, NEW out, NEW used, NEW ends, Holds(t, out, used, ends), Unused(t) # {},
           NEW what \in {"read", "write"}, NEW n, n = Lowest(t), NEW u, u = Set(t, n, what)
    PROVE  /\ n \in HigherFds \ ends /\ t[n] = "free" /\ n # None
           /\ Holds(u, out, used + 1, ends \cup {n})
           /\ FreeCount(u) = FreeCount(t) - 1
           /\ u[n] = what /\ \A m \in Fds : m # n => u[m] = t[m]
<1>1. what \in {"tty", "file", "read", "write"}
  OBVIOUS
<1>2. /\ n \in HigherFds \ ends /\ t[n] = "free" /\ n # None
      /\ FreeCount(u) = FreeCount(t) - 1
      /\ u[n] = what /\ \A m \in Fds : m # n => u[m] = t[m]
  BY <1>1, OpenHolds
<1>3. ends \cup {n} = {m \in Fds : u[m] \in {"read", "write"}}
  BY <1>2 DEF Holds, HigherFds
<1>4. Holds(u, out, used + 1, ends \cup {n})
  BY <1>1, <1>3, OpenHolds
<1> QED
  BY <1>2, <1>4

LEMMA CloseHolds ==
    ASSUME NEW t, NEW out, NEW used, NEW ends, Holds(t, out, used, ends),
           NEW n \in HigherFds, t[n] # "free"
    PROVE  /\ Holds(Close(t, n), out, used - 1, ends \ {n})
           /\ \A m \in Fds : m # n => Close(t, n)[m] = t[m]
<1> DEFINE u == Close(t, n)
<1>1. t \in Descriptors /\ n \in Fds
  BY DEF Holds, HigherFds
<1>2. /\ u \in Descriptors /\ FreeCount(u) = FreeCount(t) + 1
      /\ u[n] = "free" /\ \A m \in Fds : m # n => u[m] = t[m]
  BY <1>1, Closed
<1> HIDE DEF u
<1>3. MaxFd - FreeCount(u) = used - 1
  <2>1. FreeCount(t) \in Nat /\ MaxFd \in Nat /\ MaxFd - FreeCount(t) = used
    BY <1>1, UnusedFinite, SmallFds DEF Holds
  <2> QED
    BY <1>2, <2>1
<1>4. ends \ {n} = {m \in Fds : u[m] \in {"read", "write"}}
  BY <1>1, <1>2 DEF Holds
<1>5. u[0] = "tty" /\ u[1] = out /\ u[2] = "tty"
  BY <1>2, SmallFds DEF Holds, HigherFds
<1>6. Holds(u, out, used - 1, ends \ {n})
  BY <1>2, <1>3, <1>4, <1>5 DEF Holds
<1> QED
  BY <1>2, <1>6 DEF u

LEMMA Dup2Holds ==
    ASSUME NEW t, NEW out, NEW used, NEW ends, Holds(t, out, used, ends),
           NEW from \in Fds, t[from] \in Targets
    PROVE  /\ Holds(Dup2(t, from, 1), t[from], used, ends)
           /\ \A m \in Fds : m # 1 => Dup2(t, from, 1)[m] = t[m]
<1> DEFINE u == Dup2(t, from, 1)
<1>1. t \in Descriptors /\ 1 \in Fds /\ t[1] # "free" /\ t[from] # "free"
  BY SmallFds DEF Holds, Targets
<1>2. /\ u \in Descriptors /\ FreeCount(u) = FreeCount(t)
      /\ u[1] = t[from] /\ \A m \in Fds : m # 1 => u[m] = t[m]
  BY <1>1, Replaced
<1> HIDE DEF u
<1>3. MaxFd - FreeCount(u) = used
  BY <1>2 DEF Holds
<1>4. ends = {m \in Fds : u[m] \in {"read", "write"}}
  BY <1>1, <1>2 DEF Holds, Targets
<1>5. u[0] = "tty" /\ u[2] = "tty"
  BY <1>2, SmallFds DEF Holds
<1>6. Holds(u, t[from], used, ends)
  BY <1>2, <1>3, <1>4, <1>5 DEF Holds
<1> QED
  BY <1>2, <1>6 DEF u

Base == IF astray THEN "file" ELSE "tty"
(* Between the commands. *)
AtRest == Holds(fd, Base, 3 + leaked, {})
(* From pipe() until the shell closes both ends. *)
PipeOpen ==
    /\ cmd.pipes[1] \in HigherFds /\ cmd.pipes[2] \in HigherFds
    /\ cmd.pipes[1] # cmd.pipes[2]
    /\ Holds(fd, Base, 5 + leaked, {cmd.pipes[1], cmd.pipes[2]})
    /\ cmd.op = "|" => cmd.back \in HigherFds /\ fd[cmd.back] = Base
(* While stdout goes to the file. *)
Redirected ==
    /\ cmd.back \in HigherFds /\ fd[cmd.back] = Base
    /\ \E out \in Targets : Holds(fd, out, 4 + leaked, {})
Clean ==
    \/ full
    \/ /\ pc \in {"prompt", "done", "wait1", "wait2"} => AtRest
       /\ pc \in {"run", "wait"} /\ cmd.op = "run" => AtRest
       /\ pc \in {"fork1", "fork2", "close"} => PipeOpen
       /\ pc \in {"run", "wait", "restore"} /\ cmd.op # "run" => Redirected

LEMMA BaseTarget == Base \in Targets
  BY DEF Base, Targets

LEMMA AtRestIsBack == Types /\ AtRest => DescriptorsAreBack
<1> SUFFICES ASSUME Types, AtRest PROVE DescriptorsAreBack
  OBVIOUS
<1>1. Ends(fd) = {}
  BY DEF AtRest, Holds, Ends
<1>2. fd[0] = "tty" /\ fd[2] = "tty" /\ fd[1] = Base
  BY DEF AtRest, Holds
<1>3. MaxFd - Cardinality(Unused(fd)) = 3 + leaked
  BY DEF AtRest, Holds, FreeCount
<1> QED
  BY <1>1, <1>2, <1>3 DEF DescriptorsAreBack, Base

LEMMA InitClean == Init => Clean
<1> SUFFICES ASSUME Init PROVE AtRest /\ pc = "prompt"
  BY DEF Clean
<1>1. fd \in Descriptors /\ fd[0] = "tty" /\ fd[1] = "tty" /\ fd[2] = "tty"
  BY SmallFds DEF Init, Descriptors
<1>2. FreeCount(fd) = MaxFd - 3
  <2>1. Unused(fd) = 3..(MaxFd - 1)
    BY SmallFds DEF Init, Unused, Fds
  <2>2. Cardinality(3..(MaxFd - 1)) = MaxFd - 1 - 3 + 1
    BY FS_Interval
  <2> QED
    BY <2>1, <2>2 DEF FreeCount
<1>3. MaxFd - FreeCount(fd) = 3 + leaked
  BY <1>2, SmallFds DEF Init
<1>4. {} = {n \in Fds : fd[n] \in {"read", "write"}}
  BY DEF Init
<1>5. Base = "tty" /\ pc = "prompt"
  BY DEF Init, Base
<1> QED
  BY <1>1, <1>3, <1>4, <1>5 DEF AtRest, Holds, Targets

(* The copy of stdin, that of stdout or stderr, and the two ends. *)
LEMMA PipelineOpens ==
    ASSUME Types, AtRest, NEW o \in Operands, HasRoom(o), NEW r, r = Lowest(T2(o)),
           NEW w, w = Lowest(T3(o))
    PROVE  /\ r \in HigherFds /\ w \in HigherFds /\ r # w
           /\ Holds(Set(T3(o), w, "write"), Base, 7 + leaked, {r, w})
           /\ o.op = "|" => /\ Dup(T1, Out(o)) \in HigherFds
                            /\ Set(T3(o), w, "write")[Dup(T1, Out(o))] = Base
<1>1. Holds(fd, Base, 3 + leaked, {}) /\ leaked \in Int
  BY DEF AtRest, Types
<1>2. HasRoom(o) => FreeCount(T2(o)) >= 2
  BY DEF HasRoom, FreeCount
<1>3. Dup(fd, 0) = Lowest(fd) /\ T1 = Set(fd, Lowest(fd), "tty")
  BY <1>1 DEF Dup, T1, Holds
<1>4. Unused(T1) # {} /\ Unused(fd) # {}
  <2>1. Unused(T1) = {} => FALSE
    <3>1. ASSUME Unused(T1) = {} PROVE T2(o) = T1
      BY <3>1 DEF T2, Dup, Lowest, Set
    <3>2. T1 \in Descriptors
      <4>1. fd \in Descriptors /\ 0 \in Fds
        BY <1>1, SmallFds DEF Holds
      <4> QED
        BY <1>3, <4>1, TableTypes DEF T1
    <3>3. ASSUME Unused(T1) = {} PROVE FreeCount(T2(o)) = 0
      BY <3>1, <3>3, FS_EmptySet DEF FreeCount
    <3> QED
      BY <1>2, <3>3
  <2>2. Unused(fd) = {} => T1 = fd
    BY <1>3 DEF Lowest, Set
  <2> QED
    BY <2>1, <2>2
<1>5. Holds(T1, Base, 4 + leaked, {})
  <2>1. "tty" \in Targets
    BY DEF Targets
  <2>2. Holds(T1, Base, 3 + leaked + 1, {})
    BY <1>1, <1>3, <1>4, <2>1, CopyHolds
  <2> QED
    BY <1>1, <2>2
<1> DEFINE b == Dup(T1, Out(o))
<1>6. Out(o) \in {1, 2} /\ T1[Out(o)] \in Targets /\ (o.op = "|" => T1[Out(o)] = Base)
  BY <1>5 DEF Out, Holds, Targets
<1>7. b = Lowest(T1) /\ T2(o) = Set(T1, b, T1[Out(o)])
  BY <1>6 DEF Dup, T2, Targets
<1> HIDE DEF b
<1>8. b \in HigherFds /\ Holds(T2(o), Base, 5 + leaked, {}) /\ T2(o)[b] = T1[Out(o)]
  <2>1. b \in HigherFds /\ Holds(T2(o), Base, 4 + leaked + 1, {}) /\ T2(o)[b] = T1[Out(o)]
    BY <1>4, <1>5, <1>6, <1>7, CopyHolds
  <2> QED
    BY <1>1, <2>1
<1>9. Unused(T2(o)) # {} /\ T2(o) \in Descriptors /\ FreeCount(T2(o)) \in Nat
  BY <1>2, <1>8, HasFree, UnusedFinite DEF Holds
<1>10. /\ r \in HigherFds /\ Holds(T3(o), Base, 6 + leaked, {r})
       /\ T2(o)[r] = "free" /\ T3(o)[r] = "read" /\ FreeCount(T3(o)) = FreeCount(T2(o)) - 1
       /\ \A m \in Fds : m # r => T3(o)[m] = T2(o)[m]
  <2> DEFINE used == 5 + leaked
             ends == {}
  <2>1. T3(o) = Set(T2(o), r, "read") /\ Holds(T2(o), Base, used, ends)
    BY <1>8 DEF T3
  <2> HIDE DEF used, ends
  <2>2. /\ r \in HigherFds /\ Holds(T3(o), Base, used + 1, ends \cup {r})
        /\ T2(o)[r] = "free" /\ T3(o)[r] = "read" /\ FreeCount(T3(o)) = FreeCount(T2(o)) - 1
        /\ \A m \in Fds : m # r => T3(o)[m] = T2(o)[m]
    BY <1>9, <2>1, EndHolds
  <2>3. used + 1 = 6 + leaked /\ ends \cup {r} = {r}
    BY <1>1 DEF used, ends
  <2> QED
    BY <2>2, <2>3
<1>11. Unused(T3(o)) # {}
  BY <1>2, <1>9, <1>10, HasFree DEF Holds
<1> DEFINE last == Set(T3(o), w, "write")
<1>12. /\ w \in HigherFds \ {r} /\ T3(o)[w] = "free"
       /\ Holds(last, Base, 6 + leaked + 1, {r} \cup {w})
       /\ \A m \in Fds : m # w => last[m] = T3(o)[m]
  BY <1>10, <1>11, EndHolds
<1>13. Holds(last, Base, 7 + leaked, {r, w})
  BY <1>1, <1>12
<1> HIDE DEF last
<1>14. o.op = "|" => last[b] = Base
  <2>1. b # r /\ b # w /\ b \in Fds
    BY <1>6, <1>8, <1>10, <1>12 DEF HigherFds, Targets
  <2> QED
    BY <1>6, <1>8, <1>10, <1>12, <2>1
<1> QED
  BY <1>8, <1>10, <1>12, <1>13, <1>14 DEF b, last

(* The file is opened and closed; the copy to restore and another stay.    *)
LEMMA RedirectOpens ==
    ASSUME Types, AtRest, NEW opens \in BOOLEAN, Cardinality(Unused(R1(opens))) >= 2
    PROVE  /\ Holds(R4(opens), IF File(opens) = None THEN Base ELSE "file", 5 + leaked, {})
           /\ Back(opens) \in HigherFds /\ R4(opens)[Back(opens)] = Base
<1>1. Holds(fd, Base, 3 + leaked, {}) /\ leaked \in Int /\ Base \in Targets /\ "file" \in Targets
  BY BaseTarget DEF AtRest, Types, Targets
<1> DEFINE f == File(opens)
           b == Back(opens)
<1>2. FreeCount(R1(opens)) >= 2
  BY DEF FreeCount
<1>3. /\ f # None => f \in HigherFds /\ R1(opens)[f] = "file"
      /\ Holds(R1(opens), Base, IF f = None THEN 3 + leaked ELSE 4 + leaked, {})
  <2>1. CASE f = None
    BY <1>1, <2>1 DEF R1, Set
  <2>2. CASE f # None
    <3>1. f = Lowest(fd) /\ Unused(fd) # {}
      BY <2>2 DEF File, Lowest
    <3>2. f \in HigherFds /\ R1(opens)[f] = "file" /\ Holds(R1(opens), Base, 3 + leaked + 1, {})
      BY <1>1, <3>1, CopyHolds DEF R1
    <3> QED
      BY <1>1, <2>2, <3>2
  <2> QED
    BY <2>1, <2>2
<1> DEFINE used == IF f = None THEN 3 + leaked ELSE 4 + leaked
<1>4. used \in Int
  BY <1>1
<1> HIDE DEF used, f, b
<1>5. Holds(R1(opens), Base, used, {})
  BY <1>3 DEF used
<1>6. b = Lowest(R1(opens)) /\ R2(opens) = Set(R1(opens), b, Base)
  BY <1>5 DEF b, Back, Dup, R2, Holds, Targets
<1>7. Unused(R1(opens)) # {} /\ FreeCount(R1(opens)) \in Nat
  BY <1>2, <1>5, HasFree, UnusedFinite DEF Holds
<1>8. /\ b \in HigherFds /\ R1(opens)[b] = "free" /\ Holds(R2(opens), Base, used + 1, {})
      /\ R2(opens)[b] = Base /\ \A m \in Fds : m # b => R2(opens)[m] = R1(opens)[m]
      /\ FreeCount(R2(opens)) = FreeCount(R1(opens)) - 1
  BY <1>1, <1>5, <1>6, <1>7, CopyHolds
<1>9. Unused(R2(opens)) # {}
  BY <1>2, <1>7, <1>8, HasFree DEF Holds
<1> DEFINE c == Lowest(R2(opens))
<1>10. R3(opens) = Set(R2(opens), c, Base)
  BY <1>8 DEF Dup, R3, Holds, Targets
<1>11. /\ c \in HigherFds /\ R2(opens)[c] = "free" /\ Holds(R3(opens), Base, used + 1 + 1, {})
       /\ \A m \in Fds : m # c => R3(opens)[m] = R2(opens)[m]
  <2> DEFINE k == used + 1
  <2>1. Holds(R2(opens), Base, k, {})
    BY <1>8
  <2> HIDE DEF k
  <2>2. /\ c \in HigherFds /\ R2(opens)[c] = "free" /\ Holds(R3(opens), Base, k + 1, {})
        /\ \A m \in Fds : m # c => R3(opens)[m] = R2(opens)[m]
    BY <1>1, <1>9, <1>10, <2>1, CopyHolds
  <2> QED
    BY <2>2 DEF k
<1> HIDE DEF c
<1>12. Holds(R3(opens), Base, used + 2, {})
  BY <1>4, <1>11
<1>13. R3(opens)[b] = Base
  BY <1>1, <1>8, <1>11 DEF HigherFds, Targets
<1>14. CASE f = None
  <2>1. R4(opens) = R3(opens)
    BY <1>14 DEF f, R4, Dup2, Close, Set
  <2>2. used + 2 = 5 + leaked
    BY <1>1, <1>14 DEF used
  <2> QED
    BY <1>8, <1>12, <1>13, <1>14, <2>1, <2>2 DEF f, b
<1>15. CASE f # None
  <2>1. f \in HigherFds /\ f # b /\ R3(opens)[f] = "file"
    BY <1>3, <1>8, <1>11, <1>15 DEF HigherFds
  <2> DEFINE u == Dup2(R3(opens), f, 1)
  <2>2. Holds(u, "file", used + 2, {}) /\ \A m \in Fds : m # 1 => u[m] = R3(opens)[m]
    BY <1>1, <1>12, <2>1, Dup2Holds DEF HigherFds
  <2> HIDE DEF u
  <2>3. u[f] # "free" /\ u[b] = Base
    BY <1>8, <1>13, <2>1, <2>2 DEF HigherFds
  <2>4. R4(opens) = Close(u, f)
    BY DEF R4, u, f
  <2>5. Holds(R4(opens), "file", 5 + leaked, {}) /\ R4(opens)[b] = Base
    <3> DEFINE k == used + 2
               ends == {}
    <3>1. Holds(u, "file", k, ends)
      BY <2>2
    <3>2. k - 1 = 5 + leaked /\ ends \ {f} = {}
      BY <1>1, <1>15 DEF used
    <3> HIDE DEF k, ends
    <3>3. Holds(R4(opens), "file", k - 1, ends \ {f}) /\ R4(opens)[b] = u[b]
      BY <1>8, <2>1, <2>3, <2>4, <3>1, CloseHolds DEF HigherFds
    <3> QED
      BY <2>3, <3>2, <3>3
  <2> QED
    BY <1>8, <1>15, <2>5 DEF f, b
<1> QED
  BY <1>14, <1>15

(* Both ends closed. *)
LEMMA EndsClosed ==
    ASSUME Types, PipeOpen
    PROVE  Holds(CloseBoth, Base, 3 + leaked, {})
<1> DEFINE p == cmd.pipes[1]
           q == cmd.pipes[2]
           t == Close(fd, p)
           used == 5 + leaked
           ends == {p, q}
<1>1. p \in HigherFds /\ q \in HigherFds /\ p # q /\ Holds(fd, Base, used, ends) /\ leaked \in Int
  BY DEF PipeOpen, Types
<1>2. fd[p] # "free" /\ fd[q] # "free"
  BY <1>1 DEF Holds
<1>3. used - 1 - 1 = 3 + leaked /\ (ends \ {p}) \ {q} = {}
  BY <1>1
<1> HIDE DEF p, q, t, used, ends
<1>4. Holds(t, Base, used - 1, ends \ {p}) /\ t[q] # "free"
  BY <1>1, <1>2, CloseHolds DEF t, HigherFds
<1> DEFINE k == used - 1
           rest == ends \ {p}
<1>5. Holds(t, Base, k, rest)
  BY <1>4
<1>6. k - 1 = 3 + leaked /\ rest \ {q} = {}
  BY <1>3
<1> HIDE DEF k, rest
<1>7. Holds(Close(t, q), Base, k - 1, rest \ {q})
  BY <1>1, <1>4, <1>5, CloseHolds
<1> QED
  BY <1>6, <1>7 DEF CloseBoth, p, q, t

(* stdout restored and its copy closed. *)
LEMMA StdoutRestored ==
    ASSUME Types, Redirected
    PROVE  Holds(Restored, Base, 3 + leaked, {})
<1> DEFINE b == cmd.back
           t == Dup2(fd, b, 1)
           used == 4 + leaked
           ends == {}
<1>1. PICK out \in Targets : Holds(fd, out, used, ends)
  BY DEF Redirected
<1>2. b \in HigherFds /\ fd[b] = Base /\ Base \in Targets
  BY BaseTarget DEF Redirected
<1>3. used - 1 = 3 + leaked /\ ends \ {b} = {}
  BY DEF Types
<1> HIDE DEF b, t, used, ends
<1>4. Holds(t, Base, used, ends) /\ t[b] = Base
  BY <1>1, <1>2, Dup2Holds DEF t, HigherFds
<1>5. t[b] # "free"
  BY <1>2, <1>4 DEF Targets
<1>6. Holds(Close(t, b), Base, used - 1, ends \ {b})
  BY <1>2, <1>4, <1>5, CloseHolds
<1> QED
  BY <1>3, <1>6 DEF Restored, b, t

LEMMA StepKeepsClean == Typed /\ Clean /\ [Next]_vars => Clean'
<1> SUFFICES ASSUME Typed, Clean, [Next]_vars, ~full' PROVE Clean'
  BY DEF Clean
<1>1. Rest /\ Types
  BY SameTypes DEF Typed
<1>2. ASSUME UNCHANGED shell PROVE Clean'
  BY <1>2 DEF shell, Clean, AtRest, PipeOpen, Redirected, Base
<1>3. CASE Prompt
  <2>1. AtRest /\ pc' = "prompt" /\ UNCHANGED <<fd, astray, leaked>>
    BY <1>3 DEF Prompt, Clean
  <2> QED
    BY <2>1 DEF Clean, AtRest, Base
<1>4. CASE ForkLeft
  <2>2. /\ pc = "fork1" /\ pc' = "fork2" /\ UNCHANGED <<full, astray, leaked>>
        /\ cmd'.op = cmd.op /\ cmd'.back = cmd.back /\ cmd'.pipes = cmd.pipes
    BY <1>1, <1>4, LeftForked DEF Forked, ForkLeft, CmdType, Rest
  <2>3. PipeOpen
    BY <2>2 DEF Clean
  <2>4. /\ Holds(fd', Base, 5 + leaked, {cmd.pipes[1], cmd.pipes[2]})
        /\ cmd.op = "|" => fd'[cmd.back] = Base
    <3>1. CASE cmd.op = "|"
      <4>1. cmd.back \in HigherFds /\ cmd.back \in Fds /\ cmd.back # 1 /\ fd[cmd.back] = Base
        BY <2>3, <3>1 DEF PipeOpen, HigherFds
      <4>2. fd' = Dup2(fd, cmd.back, 1)
        BY <1>4, <3>1 DEF ForkLeft
      <4> QED
        BY <2>3, <4>1, <4>2, BaseTarget, Dup2Holds DEF PipeOpen
    <3>2. CASE cmd.op # "|"
      BY <1>4, <2>3, <3>2 DEF ForkLeft, PipeOpen
    <3> QED
      BY <3>1, <3>2
  <2> QED
    BY <2>2, <2>3, <2>4 DEF Clean, PipeOpen, Base
<1>5. CASE ForkRight
  <2>2. /\ pc = "fork2" /\ pc' = "close" /\ UNCHANGED <<fd, full, astray, leaked>>
        /\ cmd'.op = cmd.op /\ cmd'.back = cmd.back /\ cmd'.pipes = cmd.pipes
    BY <1>1, <1>5, RightForked DEF Forked, ForkRight, CmdType, Rest
  <2>3. PipeOpen
    BY <2>2 DEF Clean
  <2> QED
    BY <2>2, <2>3 DEF Clean, PipeOpen, Base
<1>6. CASE CloseEnds
  <2>1. PipeOpen /\ pc' = "wait1" /\ fd' = CloseBoth /\ UNCHANGED <<astray, leaked>>
    BY <1>6 DEF CloseEnds, Clean
  <2> QED
    BY <1>1, <2>1, EndsClosed DEF Clean, AtRest, Base
<1>7. CASE Wait
  <2>1. UNCHANGED <<cmd, fd, full, astray, leaked>>
    BY <1>7 DEF Wait
  <2>2. AtRest => AtRest'
    BY <2>1 DEF AtRest, Base
  <2>3. Redirected => Redirected'
    BY <2>1 DEF Redirected, Base
  <2> QED
    BY <1>7, <2>1, <2>2, <2>3 DEF Wait, After, AfterWait1, Clean
<1>8. CASE Execute
  <2>1. cmd'.op = cmd.op /\ cmd'.back = cmd.back
    BY <1>1, <1>8, Executed DEF Rest, CmdType
  <2>2. /\ pc = "run" /\ pc' = IF ~cmd.bg THEN "wait" ELSE After
        /\ UNCHANGED <<fd, full, astray, leaked>>
    BY <1>8, Executed DEF Execute
  <2>3. AtRest => AtRest'
    BY <2>2 DEF AtRest, Base
  <2>4. Redirected => Redirected'
    BY <2>1, <2>2 DEF Redirected, Base
  <2> QED
    BY <2>1, <2>2, <2>3, <2>4 DEF Clean, After
<1>9. CASE Restore
  <2>1. pc = "restore" /\ pc' = "done" /\ fd' = Restored /\ UNCHANGED <<full, astray, leaked>>
    BY <1>9 DEF Restore
  <2>2. Redirected
    BY <2>1 DEF Clean, Typed, Places
  <2> QED
    BY <1>1, <2>1, <2>2, StdoutRestored DEF Clean, AtRest, Base
<1>18. CASE Builtin
  <2>1. /\ pc = "run" /\ pc' \in {After, "ended"}
        /\ UNCHANGED <<cmd, fd, full, astray, leaked>>
    BY <1>1, <1>18, BuiltinRuns
  <2>2. AtRest => AtRest'
    BY <2>1 DEF AtRest, Base
  <2>3. Redirected => Redirected'
    BY <2>1 DEF Redirected, Base
  <2> QED
    BY <2>1, <2>2, <2>3 DEF Clean, After
<1>10. ASSUME NEW o \in Operands, Pipeline(o) PROVE Clean'
  <2>1. PICK pipes \in (Fds \cup {None}) \X (Fds \cup {None}) :
           LET c == [NoCmd EXCEPT !.op = o.op, !.bg = o.bg, !.leftBg = o.leftBg \/ o.bg,
                                  !.left = o.left, !.right = o.right, !.back = Dup(T1, Out(o)), !.pipes = pipes]
           IN /\ c \in CmdType /\ Line(3, "fork1", c)
              /\ HasRoom(o) => pipes = <<Lowest(T2(o)), Lowest(T3(o))>>
              /\ fd' = IF HasRoom(o) THEN Set(T3(o), pipes[2], "write") ELSE T2(o)
              /\ full' = (full \/ ~HasRoom(o))
              /\ leaked' = leaked + 2
              /\ UNCHANGED <<astray, place>>
    BY <1>1, <1>10, PipelineOutcome
  <2>2. HasRoom(o) /\ ~full
    <3>1. full' = (full \/ ~HasRoom(o))
      BY <2>1
    <3> QED
      BY <3>1, Zenon
  <2>3. PICK c \in CmdType : /\ Line(3, "fork1", c) /\ c.op = o.op
                             /\ c.back = Dup(T1, Out(o)) /\ c.pipes = pipes
    BY <2>1 DEF NoCmd
  <2>4. /\ pc = "prompt" /\ pc' = "fork1"
        /\ cmd'.op = o.op /\ cmd'.back = Dup(T1, Out(o)) /\ cmd'.pipes = pipes
    BY <1>1, <2>3, LineOutcome, LineFields
  <2>5. AtRest
    BY <2>2, <2>4 DEF Clean
  <2> DEFINE r == Lowest(T2(o))
             w == Lowest(T3(o))
  <2>6. /\ cmd'.pipes[1] = r /\ cmd'.pipes[2] = w /\ fd' = Set(T3(o), w, "write")
        /\ leaked' = leaked + 2 /\ astray' = astray
    BY <2>1, <2>2, <2>4
  <2> HIDE DEF r, w
  <2>7. /\ r \in HigherFds /\ w \in HigherFds /\ r # w
        /\ Holds(fd', Base, 7 + leaked, {r, w})
        /\ o.op = "|" => Dup(T1, Out(o)) \in HigherFds /\ fd'[Dup(T1, Out(o))] = Base
    BY <1>1, <2>2, <2>5, <2>6, PipelineOpens DEF r, w
  <2>8. Base' = Base /\ 5 + leaked' = 7 + leaked
    BY <1>1, <2>6 DEF Base, Rest
  <2>9. Holds(fd', Base', 5 + leaked', {cmd'.pipes[1], cmd'.pipes[2]})
    BY <2>6, <2>7, <2>8
  <2>10. PipeOpen'
    BY <2>4, <2>6, <2>7, <2>8, <2>9 DEF PipeOpen
  <2> QED
    BY <2>4, <2>10 DEF Clean
<1>11. ASSUME NEW word \in Words, NEW bg \in BOOLEAN, Run(word, bg) PROVE Clean'
  <2> DEFINE c == [NoCmd EXCEPT !.op = "run", !.word = word, !.bg = bg]
  <2>1. c \in CmdType /\ c.op = "run" /\ Line(3, "run", c)
    BY <1>11, NoCmdType DEF CmdType, Run
  <2> HIDE DEF c
  <2>2. pc = "prompt" /\ pc' = "run" /\ cmd'.op = "run"
    BY <1>1, <2>1, LineOutcome
  <2>3. UNCHANGED <<fd, full, astray, leaked>>
    BY <1>11 DEF Run
  <2>4. AtRest'
    BY <2>2, <2>3 DEF Clean, AtRest, Base
  <2> QED
    BY <2>2, <2>4 DEF Clean
<1>12. ASSUME NEW op \in {">", ">>"}, NEW bg \in BOOLEAN, NEW opens \in BOOLEAN,
              NEW command \in Words, Redirect(op, bg, opens, command)
       PROVE  Clean'
  <2> DEFINE c == [NoCmd EXCEPT !.op = op, !.word = command, !.bg = bg, !.back = Back(opens)]
             gone == Gone(op, opens)
             null == Null(op, opens, command)
             next == IF gone \/ null THEN "done" ELSE "run"
  <2>1. c \in CmdType /\ Line(3, next, c) /\ c.op = op /\ c.back = Back(opens)
    <3>1. c \in CmdType /\ Line(3, next, c)
      BY <1>1, <1>12, RedirectOutcome
    <3>2. c.op = op /\ c.back = Back(opens)
      BY NoCmdType DEF CmdType
    <3> QED
      BY <3>1, <3>2
  <2>2. full' = (full \/ (~gone /\ Cardinality(Unused(R1(opens))) < 2))
    BY <1>1, <1>12, RedirectOutcome
  <2>3. astray' = (astray \/ (null /\ File(opens) # None))
    BY <1>1, <1>12, RedirectOutcome
  <2>4. leaked' = leaked + (IF gone THEN 0 ELSE IF null THEN 2 ELSE 1)
    BY <1>1, <1>12, RedirectOutcome
  <2>5. fd' = IF gone THEN fd ELSE R4(opens)
    BY <1>1, <1>12, RedirectOutcome
  <2>6. null => ~gone
    BY DEF Null
  <2>7. R1(opens) \in Descriptors
    BY <1>1, <1>12, RedirectOutcome
  <2> HIDE DEF c, gone, null
  <2>8. pc = "prompt" /\ pc' = next /\ cmd'.op = op /\ cmd'.back = Back(opens)
    BY <1>1, <2>1, LineOutcome, LineFields
  <2>9. ~full /\ (~gone => ~(Cardinality(Unused(R1(opens))) < 2))
    BY <2>2, Zenon
  <2>10. AtRest
    BY <2>8, <2>9 DEF Clean
  <2>11. CASE gone
    <3>1. pc' = "done" /\ fd' = fd /\ leaked' = leaked
      BY <1>1, <2>4, <2>5, <2>8, <2>11 DEF Rest
    <3>2. astray' = astray
      <4>1. astray' = (astray \/ FALSE)
        BY <2>3, <2>6, <2>11, Zenon
      <4> QED
        BY <1>1, <4>1 DEF Rest
    <3> QED
      BY <2>10, <3>1, <3>2 DEF Clean, AtRest, Base
  <2>12. CASE ~gone
    <3>1. Cardinality(Unused(R1(opens))) >= 2
      BY <2>7, <2>9, <2>12, UnusedFinite DEF FreeCount
    <3>2. /\ Holds(fd', IF File(opens) = None THEN Base ELSE "file", 5 + leaked, {})
          /\ Back(opens) \in HigherFds /\ fd'[Back(opens)] = Base
      BY <1>1, <2>5, <2>10, <2>12, <3>1, RedirectOpens
    <3>3. CASE null
      <4>1. pc' = "done" /\ 3 + leaked' = 5 + leaked
        BY <1>1, <2>4, <2>8, <2>12, <3>3 DEF Rest
      <4>2. Base' = IF File(opens) = None THEN Base ELSE "file"
        <5>1. astray' = (astray \/ File(opens) # None)
          BY <2>3, <3>3, Zenon
        <5>2. File(opens) = None => astray' = astray
          BY <1>1, <5>1 DEF Rest
        <5>3. File(opens) # None => astray'
          BY <5>1
        <5> QED
          BY <5>2, <5>3 DEF Base
      <4>3. AtRest'
        BY <3>2, <4>1, <4>2 DEF AtRest
      <4> QED
        BY <4>1, <4>3 DEF Clean
    <3>4. CASE ~null
      <4>1. pc' = "run" /\ 4 + leaked' = 5 + leaked
        BY <1>1, <2>4, <2>8, <2>12, <3>4 DEF Rest
      <4>2. Base' = Base
        <5>1. astray' = (astray \/ FALSE)
          BY <2>3, <3>4, Zenon
        <5> QED
          BY <1>1, <5>1 DEF Rest, Base
      <4>3. (IF File(opens) = None THEN Base ELSE "file") \in Targets
        BY BaseTarget DEF Targets
      <4>4. Redirected'
        BY <2>8, <3>2, <4>1, <4>2, <4>3 DEF Redirected
      <4> QED
        BY <2>8, <4>1, <4>4 DEF Clean
    <3> QED
      BY <3>3, <3>4
  <2> QED
    BY <2>11, <2>12
<1>13. ASSUME NEW next \in {"prompt", "ended"}, Cd(next) PROVE Clean'
  <2>1. pc = "prompt" /\ pc' = next /\ UNCHANGED <<fd, full, astray, leaked>>
    BY <1>1, <1>13, LineOutcome, NoCmdType DEF Cd
  <2> QED
    BY <2>1 DEF Clean, AtRest, Base
<1>14. (\E dir \in Dirs : ChangeDir(dir)) \/ ChangeBack \/ ChangeFails => Clean'
  BY <1>13 DEF ChangeDir, ChangeBack, ChangeFails
<1>15. ASSUME NEW dir \in Dirs, RemoveDir(dir) PROVE Clean'
  BY <1>15 DEF RemoveDir, Clean, AtRest, Base, PipeOpen, Redirected
<1>16. ASSUME NEW p \in Pids, Start(p) \/ WorkEnds(p) PROVE Clean'
  BY <1>2, <1>16 DEF Start, WorkEnds
<1>17. CASE UNCHANGED vars
  BY <1>2, <1>17 DEF vars
<1> QED
  BY <1>3, <1>4, <1>5, <1>6, <1>7, <1>8, <1>9, <1>10, <1>11, <1>12, <1>14, <1>15, <1>16, <1>17,
     <1>18, NextCases DEF ShellStep, Entered

(* Whatever a command is, with room in the descriptor table it leaves no   *)
(* end of a pipe open and stdout as it was, and without other children     *)
(* none of its own.                                                        *)
THEOREM CommandsCleanUp == FairSpec => []PromptIsClean
<1>1. Init => Waited
  BY DEF Init, Waited, Children, NoProc
<1>2. Typed /\ Waited /\ Clean => PromptIsClean
  <2> SUFFICES ASSUME Typed, Waited, Clean, pc = "done"
               PROVE  DescriptorsAreBack /\ ChildrenAreWaitedFor
    BY DEF PromptIsClean
  <2>1. DescriptorsAreBack
    BY AtRestIsBack DEF Clean, Typed, DescriptorsAreBack
  <2>2. ChildrenAreWaitedFor
    BY DEF Waited, ChildrenAreWaitedFor, Piped
  <2> QED
    BY <2>1, <2>2
<1> QED
  BY InitTyped, StepTyped, InitClean, <1>1, StepKeepsWaited, StepKeepsClean, <1>2, PTL DEF FairSpec
=============================================================================
