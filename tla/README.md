# TLA+ models of the operating-systems course code

The repository holds four independent programs: a small shell (`src/hw1`), the
process-weight system calls of a kernel (`src/hw2`), a web server (`src/hw3`)
and a family of memory allocators (`src/hw4`). This directory holds TLA+
models of them, the TLC runs that check the models, and TLAPS proofs.

Check everything with `tlc -config X.cfg M` for each row of the table of runs
and `tlapm M.tla` for each proof module.

## 1. Inventory

### hw1, the shell "smash"

One process, one thread, two signal handlers, many child processes.

| component | state | operations |
|---|---|---|
| main loop (`smash.cpp`, `Shell.cpp`) | prompt, `curr_arguments` | read a line, build a command, drop the finished jobs, execute |
| jobs list (`JobsList.*`) | a vector of entries (job id, pid, stopped, type, command), sorted by job id | `addJob`, `removeFinishedJobs`, lookups |
| external commands (`External.cpp`) | `curr_pid`, `curr_command` | fork; list it (background) or wait for it (foreground) |
| built-ins (`BuiltIn.cpp`) | the jobs, the stack of directories | `kill`, `fg`, `bg`, `jobs`, `quit`, `cd`, `head`, ... |
| handlers (`signals.cpp`) | read and clear `curr_pid`, call `addJob` | Ctrl-Z: SIGSTOP and list; Ctrl-C: SIGKILL |
| pipes (`Pipe.h`), redirection (`Redirection.h`) | descriptors, two children | `\|`, `\|&`, `>`, `>>` |

Hard: the handlers run between any two steps of the main program and of each
other, on the same variables; children end at any time; pids are recycled;
`waitpid` consumes what it reports. Correct means: a listed pid is a child of
the shell, no child gets lost, a stopped job is known to be stopped, the
prompt comes back after either key.

### hw2, process weights (`OS/kernel/hw2.c`)

State: the weight of every task, the tree of tasks. Operations: `set_weight`,
`get_weight`, `get_heaviest_ancestor`, `get_leaf_children_sum`; a fork copies
the weight. Hard: the walks take no lock while tasks fork, exit and get
reparented; the sum is an `int`. Correct means: the answer is that of a tree
that existed, and ties go to the nearest ancestor.

### hw3, the web server (`server.c`, `request.c`, `segel.c`) and its client (`client.c`)

State: one connection at a time, the read buffer of `rio`. Operations: listen, accept,
read the headers, serve static or dynamic content (`output.c`), close; the client sends
one request and reads the answer. Hard: short reads,
end of input, a client that goes away, wrappers that end the program on any
error. Correct means: `rio` delivers the bytes of the connection in order, and
the server comes back to `accept`.

### hw4, the allocators (`malloc_1.cpp` ... `malloc_4.cpp`)

State: the heap (an area that `sbrk` extends) as a list of blocks, each with a
header; parts 3 and 4 add a histogram of free blocks and a list of mapped
blocks. Operations: `smalloc`, `scalloc`, `sfree`, `srealloc` and the counters.
Hard: splitting and merging blocks, the failure of one of two `sbrk` calls, the
overflow of `num * size`, long sequences of calls. Correct means: blocks do not
overlap, a client's bytes stay, counters agree with the list.

### Left aside

`hw1/Commands.*` and `Special.cpp` are an earlier version that is not built;
`hw4/Ahmad` holds abandoned variants; `.idea`, `cmake-build-debug` and the
kernel headers and tables of `hw2` are vendored or generated.

`PROJECT.json` lists every component with what is modelled of it, and every
hazard with its line and the properties that cover it.

## 2. Plan

Order, most important first:

1. `Smash`, `SmashProofs`: the job control with handlers and children. Done.
2. `JobsTable`, `JobsList`, `JobsListProofs`: the vector and its loops step by step, with children ending
   meanwhile, implementing the table `JobsTable`. Done.
3. `Heap`, `Malloc2`, `Malloc2Proofs`: the first-fit allocator of part 2, with
   what a client may rely on (`Heap`) as abstract specification. Done. `Sums`: the
   facts about sums over a finite set that this proof and those of `Malloc3` and
   `Weight` need.
4. `Blocks`, `Malloc3`, `Malloc3Proofs`: split, merge, histogram, mapped blocks (parts
   3 and 4, the second with an alignment). Done, without the bytes of the payloads:
   it implements `Heap` with every byte taken as 0, up to the first flaw.
5. `Commands`, `CommandsProofs`: which command a line is, and what it does to descriptors,
   children and directories: pipelines, redirections, forks that fail, `cd`, `head`. Done.
6. `Weight`, `WeightProofs`: the system calls on a changing tree. Done.
7. `Reader`, `Rio`: buffered reading against the stream it must deliver (`Reader`).
   `Server`: the accept loop and its clients. `WebProofs`: the proofs about both. Done. (`WebProofs`
   extends both modules, so the specification of `Rio` is called `RioSpec`, its type
   invariant `RioTypeOK` and so on.)

Every invariant and every action property that a passing run checks has its theorem;
what is left to TLC is liveness (see section 5).

## 3. The models

### Smash: job control

One thread, so exactly one of the main program and the two handlers executes:
`run` says which. A handler is entered between any two steps of the main
program and between any two of the other handler, never inside itself
(`signal()` blocks a signal while its handler runs); `ZReturns` and `CReturns`
go back to what was interrupted.

| state | code |
|---|---|
| `jobs` | `JobsList::jobs`; the vector is sorted by id, so it is a function of the id |
| `proc` | external: running, stopped (reported by `waitpid` or not yet), killed, zombie, reaped |
| `curr_pid`, `curr_command` | fields of `SmallShell` that the handlers read |
| `pc`, `op`, `child`, `entry` | place and locals of the main program; `entry` is the pointer of `fg` into the vector, 0 once a handler's `addJob` may have moved it |
| `zpc`, `zpid`, `cpc`, `cpid` | place and local pid of each handler |

`StartCommand` is a line read and the `removeFinishedJobs` of
`executeCommand`; a command then runs in one step or, where a handler may
interrupt it with an effect, in several: an external command is `Fork`,
`SetCurrPid`, `SetCurrCommand`, `WaitReturns`, `ClearCurrPid`, and `fg` joins it
at `SetCurrPid`. `addJob` is the whole function, the reaping included. Undefined
behaviour is a choice: the slot past the end of the vector that `bg` uses is any
stale entry or a crash, and the command that a dangling `entry` names is any
command. `Crash` is also what `std::stoi` does to the shell when it throws: `bg` passes
it a word that is no number (`BuiltIn.cpp:221`), `kill -` an empty one
(`BuiltIn.cpp:97`), and any of them a number that is too large. A command is named by
the pid it started as.

`removeFinishedJobs` is one step here; `JobsList` shows that its loop, with
children ending between its `waitpid` calls, does what a table of jobs promises.

### JobsList and JobsTable: the vector

`Begin`, then one step per iteration of the loop (`Erase` goes back to the
first entry, `Keep` goes on), `LoopEnds` with the sort, `Insert` for the rest of
`addJob`. Children exit between any two steps. `due` is a history variable:
the ids that had ended when the call began. `JobsTable` is the promise: entries
of ended children only are dropped, those that had ended before the call are
all gone when it returns, and a new entry gets the id after the greatest.

### Malloc2 and Heap: the allocator of part 2

`list` is the linked list in its order, a block being the payload's address,
its size and `is_free`; the header lies in the `META` bytes before the address.
`mem` holds the bytes, `brk` the break, `owned` what a client holds and the size
it asked for. Calls do not interleave (the code has no locks), but each `sbrk`
may fail: `Extend` lists the outcomes of its two calls, one of which leaks the
header. `ForeignSbrk` is everyone else who moves the break. `Product` is the
product of two `size_t`, modulo `Word`.

`Heap` is what a client may rely on: its blocks are disjoint, nobody but the
client changes their bytes, `scalloc` gives zeros, `srealloc` keeps the common
prefix, and a call that fails changes nothing. `Live` maps `Malloc2` to it.

### Blocks and Malloc3: the allocators of parts 3 and 4

`Blocks` has one operator per function. A heap is a record of the program's
globals (`metadata`, `mmap_list`, `histogram`), the headers `hdr`, the break, and
three pieces of bookkeeping: `lost` (bytes below the break that belong to no
block), `uninit` (what memory holds that nobody has initialised) and `flaws`. A
function returns the heap it leaves or, when `sbrk` or `mmap` may fail, the set
of its outcomes. The merges, the splits, the walk that looks for a place in a
bucket, the six branches of `srealloc` are all there. `Malloc3` adds the client:
`owned` is what it holds and the size it asked for, `align` which of the two
programs runs (they differ by the rounding of the size in three functions). The
break starts at `Base`, which is aligned, as headers are.

The two programs have many defects, and after most of them no property means
anything. So the operators record a flaw at the line where the code does
something that its authors cannot have meant, the model stops after the call,
and the properties are about all states before. Each flaw is a statement about
the code, which TLC reaches:

| flaw | where, in `Part 3/malloc_3.cpp` | what happens |
|---|---|---|
| `junk` | 191-196, 209-210 | `splitBlock` inserts a remainder whose histogram links were never set |
| `absent` | 59 | `histogramRemove` of a block in no bucket clears the bucket of its size |
| `order` | 116 | `histogramInsert` finds its place along `next` where the bucket's order differs |
| `remainder` | 196 | a remainder is handed out, or split again: its address was computed in units of headers |
| `split` | 574 | `srealloc` splits the block it has grown, and leaves it in the histogram |
| `phantom` | 583 | `srealloc` frees a header that its merge has swallowed |
| `united` | 524-527 | `srealloc` merges, then `sbrk` fails: null, and the client's block is gone |
| `map` | 265, 402, 599 | `munmap` of an address that starts no page; `sfree` goes on; a mapped block is split |
| `fault` | 430 | `memcpy` to null when a mapping fails |
| `wrap` | `Part 4`, 383 | the product of `scalloc` wraps around |

That so many calls stop the model is the state of this code, not of the
properties: the runs reach every branch of every function, with up to five
blocks, merges on both sides, and extensions. Assumed: nobody else moves the
break, clients free only what they hold. A flaw names what the code's comments or
its other functions say it should be; whether it is one is up to the reader of
that line.

### Rio and Reader: buffered reading

A byte of the stream is named by its position; `newline` is the set of
positions that hold one. `rio_buf`, `rio_bufptr` and `rio_cnt` are the fields of
`rio_t`; `rio_pc`, `limit` and `usrbuf` are the call in progress, its argument and what
it has stored. Each step of the loop of `rio_readlineb` or `rio_readnb` is
an action: `CopyOut` takes bytes from the internal buffer, and when that is empty
`read()` fills it with any number of bytes (`Refill`), is interrupted, reports the
end, or fails, in which case the wrapper ends the program. `Reader` is the
promise: a call stores the next bytes, a line up to the first newline or its
room, a block of n bytes, and less only at the end of the stream. `result` is the count
it returns: that of the bytes stored, but one more for a line that does not end in a
newline, as the loop of `rio_readlineb` counts a byte ahead (`segel.c:406`), and 0 only
at the end of the stream.

### Server: one connection after the other

`open_listenfd`, `Accept`, `ReadRequest`, `ReadHeader`, `Answer`, `Wait` and `Close` are
`main` of `server.c` and `requestHandle`. A line is text, empty, or long: of a long one
`Rio_readlineb` takes `MAXLINE - 1` bytes (the cut that `Rio` shows) and its next call finds
the rest, which may be a line's end alone (`Rests`). A line that is longer still is as
more lines. A request line in which `sscanf` finds no method or not the whole uri is
`garbled`: `method` and `uri` stay what the stack had, or the uri is another one
(`Parsed`). At the end of input `Rio_readlineb` leaves its buffer alone: in `ReadNoRequest`
the request is whatever was on the stack, and `requestReadhdrs` starts with a buffer that
may or may not look like an empty line. The end of input comes from a client that has
closed the connection, and also from one that has ended only its half of it
(`HalfClose`) and still reads. `reply` is the status written, `child` the CGI process.

Two kinds of clients connect. `Programs` run `client.c`: `clientSend` writes the request
with its one header at once, `clientPrint` reads the answer until the server has closed;
`Nameless` finds no host name and ends, and so does one that is `Refused`. The others send
a request line, headers and an empty line one by one, end their half, and leave at any
time.

Each wrapper of `segel.c` ends the program with `unix_error` when its call fails. `Exit` is
an end that a client caused (`ReadFails`, `WriteFails`, and `MmapFails` for a file of no
bytes), `Fail` one that the kernel caused (`Kernel`: listening, `accept`, `open`, `fork`,
`close`); they differ only in what liveness may assume.

### Weight: system calls on a changing tree

The fields of `task_struct` that the calls read are the state: `parent`, the
list `children`, `weight`. A walk of `get_heaviest_ancestor` is `Compare`, `Climb`, one
read each; one of `get_leaf_children_sum` is `Enter` (`list_empty`), `Add`,
`Descend`, `NextChild`, `path` being the recursion. Between any two of them the
other tasks `Fork`, `Exit` (their children go to init), are reaped (taken out of the
list of their parent) and set their weight. A walk that reads a task already freed or goes on from one that was moved
to another list is `lost`: the code has no lock, no reference and no RCU section
here, and anything may come of it. `steady` is a history variable, the tasks that
have not changed since the call began: what an answer promises is about them.

### Commands: descriptors, children and directories of a line

`fd` is the shell's descriptor table, with the lowest free number for each new one;
`proc` the children, with how each one's work ends and which ends of its pipe it
holds; `jobs` only the pids, `-1` after a fork that failed. `Lines` is what the searches of
`Utility.cpp` tell of a line: its first word, a `&` at its end, a `|`, a `>` or `>>`.
`CreateCommand` makes a command of it (a built-in word with a `&` is an external command, and
with a `|` the built-in, which then has too many arguments), `executeCommand` runs it,
and `Line` is a line read and `removeFinishedJobs`. A `&` at the end of a pipeline puts both
operands in the background, one before the bar (`leftBg`) only the left one: the child that
was forked for it forks it once more and exits. A pipeline is `Pipeline` (the two `dup`s and `pipe()`),
`ForkLeft`, `ForkRight`, `CloseEnds`, two `Wait`s for any child, while its children
`Start` (each closes both ends but its own copy; one in the background forks
its command and exits). A redirection is `Redirect`, `Execute` of the command inside and
`Wait`, or `Builtin`, then `Restore`; an external command is `Run`, `Execute`, `Wait`, a built-in
`Run`, `Builtin`. `Builtin` is `jobs`, `quit`, `head` with its descriptor, and whatever only
prints; redirected, each gets the arguments of the whole line. `cd` alone is one step,
as nothing runs beside it but the removal of directories. Every fork may fail, every
file may not open, and the table may be full: `dup` then returns -1, and `pipe()`
leaves its array as the stack had it, so that any descriptor gets closed.

Signals are left to `Smash`, and so are `fg`, `bg`, `kill` and what a job's entry holds; nothing of
`Smash` reads a descriptor, a pipe or the directory.

## 4. The runs

| run | shows | bounds and why they are enough |
|---|---|---|
| `smash_any` | `TypeOK`, `JobsAreChildren`, `ChildIsNew`, `OneEntryPerChild`, `NamedInTime` whatever children do | 2 pids, 3 job ids: two jobs and the next id; the pids 2 and 3 are also job ids, because the Ctrl-Z handler looks a pid up among the ids |
| `smash_seen` | `NoLostChild`, `StoppedIsMarked`, `NoStuckWait`, `QuitKillReachesAll`, no deadlock, and with fairness `KeysReturnPrompt`, when children stop only through the shell | 2 pids, 3 ids: one job in front, one behind, recycling of both |
| `smash_bg` | a finding (section 6) | the same instance |
| `jobs_list` | `TypeOK`, `StrictlySorted`, `ImplementsTable`, `LoopTerminates` | 3 pids, 5 ids: entries before, at and behind the iterator, and gaps between ids |
| `malloc2` | `TypeOK`, `NoOverlap`, `Ledger`, `CountersAgree`, `ImplementsHeap` | an area of 8 bytes, header 1, requests 0 to 4 with limit 3: up to four blocks, reuse of a larger one, the limit, and every failure of `sbrk`; products do not wrap |
| `malloc3` | `TypeOK`, `BlocksApart`, `HistogramIsFreeBlocks`, `Coalesced`, `HeldAreUsed`, `CountersAgree`, before the first flaw | an area of 17 bytes, header 2, requests 0 to 8, two buckets of 4 sizes, splits from a remainder of 2 on, one mapping, alignments 1 and 2: up to five blocks, every branch of every function, products that wrap |
| `malloc3_reuse` | a finding | the same instance |
| `commands` | `TypeOK`, `PromptIsClean`, `BackIsPrevious`, and with fairness `WaitsEnd` | 3 processes, so a pipeline beside a job, and forks that fail for want of a pid too; 8 descriptors, so the second pipeline fills the table; two lines, or one and three times a `cd` or a directory removed, or six of these, over two directories |
| `weight` | `TypeOK`, `AnswersAreRight` | 4 tasks: a caller, its chain or two children, and one more to fork or exit; weights 0 to 2 for ties and both orders; sums modulo 8 |
| `rio` | `RioTypeOK`, `InOrder`, `FitsBuffer`, `ImplementsReader`, `CallEnds` | an internal buffer of 3 bytes, a stream of up to 5, lines of 1 or 3 bytes, blocks of 0 or 3: calls that span refills, refills that span calls, every place for newlines |
| `server` | `TypeOK`, `RightReply`, `NoOrphan` whatever clients do and whatever call fails, `EveryoneAnswered` for clients that wait | 2 clients, so one is served and one queued; one runs `client.c`, the other sends a request line and up to one header, each of which may be long, and may end its half |
| `server_hang` | a finding | the same instance |

`MaxJobId`, `Limit`, `Maps` and `Session` are bounds of the models (`Room`, `count < Maps` and
`Line` guard them); `Requests`, `Counts`, `Bytes`, `Weights` and `Pids` are the inputs tried.

Deadlock is checked everywhere but in five runs that really may stop. `malloc3` and
`malloc3_reuse` stop after a flaw, `weight` after a lost walk. In `commands` the shell
never returns from a pipeline of an endless writer and a reader of everything, the
session is bounded, `quit` ends the program, and so does `cd` from a directory that
was removed (a string is made of the null pointer that `get_current_dir_name`
returns). In
`smash_any` the shell can hang. With `UnseenStops` (SIGTTIN, or `kill -21` from the shell
itself) the run has this behaviour: a background job stops on its own, so no
code marks it as stopped; `fg` sends SIGCONT only to marked jobs
(`JobsList.h:53`), so it just waits, and the stop is reported; a second `fg`
waits again for a process that is still stopped; Ctrl-Z clears `curr_pid`
(`signals.cpp:16`) and sends SIGSTOP to a stopped process, which changes nothing.
`waitpid` never returns, and with `curr_pid` 0 both handlers return at once: no
key helps any more. Without stops of this kind the shell does not hang:
`smash_seen` checks it, and `NoStuckWait` is proved from the same assumption. A foreground child that stops
on its own is also lost: `waitpid` returns and nobody lists it.

Fairness (`FairSpec` of `Smash`): the one thread executes when it can (each of
the main program's waiting steps and each handler), and the kernel lets a
killed process die. Nothing is assumed of children, the keys or the user.
`FairSpec` of `JobsList` is the same for the loop, and `RioFairSpec` for the call in
progress, whose `read()` returns when there is something to return. That of
`Server` adds that CGI programs end, that `client.c` runs, and that another client sends
its whole request unless it leaves or ends its half: the server has no timeout, so without
this it waits for ever. `EveryoneAnswered` supposes that none of them leaves before its
answer or ends its half before its empty line, and that none asks for an empty file
or sends a request line that is garbled, which may be taken for that. Nothing is assumed of `Kernel`: a call that the kernel refuses ends the server,
which `EveryoneAnswered` leaves out.
That of `Commands` is the shell's own steps, that a child gets to start, and that
work ends which can: a writer nobody reads from gets SIGPIPE, a reader sees the end
of its input once no process holds the write end. Of jobs nothing is assumed, nor of
an endless writer that is read from: `WaitsEnd` leaves that case out, and those
where a fork failed and the wait is for any child among others that may never end.

Every property of a passing run has a mutant of a definition that breaks it.
The mutants are the definitions marked so, just before the original; `PROJECT.json`
lists them.

## 5. The proofs

`tlapm` checks the eight modules that hold theorems with no step left out.

`SmashProofs`, for any pids, any bound and any interleaving:

- `Inv` is `TypeOK`, `Handlers`, `JobsAreChildren`, `ChildIsNew` and
  `OneEntryPerChild`. `Handlers` says that a handler is active only while a
  command waits, and that its pid and `curr_pid` are those of the child waited
  for. It is needed because a handler active between a fork and the `addJob` that
  follows could list the child first. `ChildIsNew` is what makes `addJob` keep
  `OneEntryPerChild`; `JobsAreChildren` is what makes a fork keep `ChildIsNew`, as
  the kernel gives only pids that are no child.
- `SeenInv` adds, when no child stops unseen, in every state what the properties
  say between commands: `StopsMarked` (a stopped process is marked, except while
  the Ctrl-Z handler is between its `kill` and its `addJob`), `Tracked` (a child is
  listed, or it is the one the main program has in hand), `WaitEnds` (a wait that
  no key reaches is about to end) and `AllKilled`. `NoLostChild`,
  `StoppedIsMarked`, `NoStuckWait` and `QuitKillReachesAll` follow.
- `NameInv` is what `NamedInTime` needs, an action property: as long as a Ctrl-Z can
  still list the child (`CanBeListed`: `curr_pid` is set or the handler is active), fg's
  pointer is to the entry of its child until the command has been read through it
  (`PointsToChild`), and from then on `curr_command` is the child's own name or the one
  it is listed under (`CommandIsChilds`). A pointer that dangles is harmless for the
  names: only an `addJob` of Ctrl-Z can make it dangle, and `curr_pid` has been cleared
  by then and stays so until the next command (`Cleared`), so that no second Ctrl-Z
  can use the garbage it reads. The garbage stays in `curr_command`, but the next command
  assigns it before the key can use it, except in the window at `"name"`, the
  exception the property states.

`Malloc2Proofs`, for any header size, area, limits and requests, assuming
`NoWrap` (no product of `scalloc` reaches `Word`; without it `scalloc` really
returns less than was asked for, see section 6):

- `Inv` is `TypeOK`, `NoOverlap` and `Ledger`. It is inductive as it stands:
  `NoOverlap` gives distinct addresses, without which neither marking a block
  free nor handing one out would keep `Ledger`. `SmallocOutcome` reduces every
  call to two cases, a failure that leaves the list alone and a `Granted` block.
- `AllocatorIsAHeap`: `Spec => ImplementsHeap`, by one lemma per call.
  `HeldApart` (the blocks held are apart and inside the area) comes from the
  invariant; `PutLive` says how `Live` changes when one block joins.
- `CountersAlwaysAgree`: the counters are sums over the indices of the list, the
  client's bytes a sum over addresses. `Ledger` and `NoOverlap` make the addresses of
  the blocks in use a bijection, so `TotalInject` turns one sum into the other. That
  everything fits below the break is shown block by block (the places up to the
  n-th header, by the smallest n that fails), as `NoOverlap` orders them.

`Malloc3Proofs`, for any size of the heap, header, alignments, thresholds, number of
buckets and requests, up to the first flaw (a property of `Malloc3` says nothing of
the heap that a flawed call leaves). Assumed of the constants: arguments are below
`Word`, and the break's start, the headers and `Word` are multiples of the alignment.

- `Inv` says that there are sets `L`, the list, `M`, the mapped blocks, and `F`, the
  free ones, with which the heap is `Tidy` and the client holds the rest (`Held`).
  The code has only pointers, so no property is inductive by itself: a merge reads
  the neighbours of a block, which `BlocksApart` gives, takes them out of their buckets,
  which needs `HistogramIsFreeBlocks`, and leaves no free neighbours only if there were
  none (`Coalesced`).
- `Linked` is a doubly linked list as a set: links stay in it, lead back and forth, and
  no part of it is closed under `prev`. Taking a block out and putting one in keep
  it (`LinkedRemove`, `LinkedInsert`); `ListIs` and `WalkIs` say what a walk along it
  finds, `Chain` being a recursive function over the addresses.
- Each function has one lemma that says how it changes `L`, `M` and `F`: `RemoveState`,
  `InsertState`, `AbsorbState`, `CutState`, `UniteBlock`, `SplitRest`, and, for a call
  that allocates, an `Outcome`: the client keeps what it had, but for a block it gave
  up, and gets a new one or none. `srealloc` has one for each branch.
- A flaw is recorded where it happens, and never forgotten (the `Later` lemmas), so that
  a call without one went through sound heaps all the way.
- `Accounted`, the sum of sizes and headers over `L`, gives `AlwaysCountersAgree`.
- `Tables` adds what `Inv` does not say: the types of buckets, headers and break, and the
  sizes that requests may have. `Grants` says of each allocating call that it changes the
  client's view at one address at most. `TypeOK` follows, which says nothing of the
  headers and the break once a call with a flaw may have written anywhere.
- `HeldApart`: blocks that the client holds do not overlap. For two blocks of the list it is
  `BlocksApart`, but the list and the mapped blocks are apart only by `Inv`.
- `AllocatorIsAHeap`: `Spec => ImplementsHeap`. The refinement mapping is `Live`, the blocks
  held with the size asked for and zeros for bytes; each call that ends without a flaw is a
  step of `Heap` (`MallocStep`, `ReallocStep`, `FreeStep`) or changes nothing. No run checks
  it, as the mapping takes any number as a pointer and TLC cannot enumerate them; what
  payloads hold is left out, so that it says less than the theorem of that name in
  `Malloc2Proofs`.

`Sums` holds the lemmas about `MapThenSumSet` that its three users need: `Total(f, S)` is the
sum of `f` over the finite set `S`; it grows by the one value when an element joins,
agrees with another function on the same values, is monotone, splits over a disjoint
union and is carried along by an injection. The community module defines the sum by a
recursion that removes a chosen element; `SumsUp` states the same without recursion,
and induction is by the smallest set that fails.

`WeightProofs`, for any finite set of tasks, any weights and any word size:

- `IInv` is `Places`, `TreeInv`, `ClimbInv` and `WalkInv`; nothing less is inductive, because
  `AnswersAreRight` speaks only of states in which a call has just returned.
- `TreeInv` is the kernel's tree: the list of a live task holds its children, each
  once, and no way up comes back (`Acyclic`). The proofs take ways up as chains of
  parents (`Chain`), which can be cut and joined, and show once that `Ancestors`, a
  recursive function over the number of tasks, is what chains reach. `ForkTree`, `ExitTree`
  and `ReapTree` keep it; `MovedStep` says what they do to the chains of tasks
  that stay in `steady`.
- `ClimbInv`: each unchanged way up from the caller has been compared all along, or up to
  `at`, and the walk is on it. At the end the way is exhausted: `ClimbIsRight`.
- `WalkInv`: `PathInv` says that `path` follows the tree where the tree is unchanged; `LeafInv`
  follows each unchanged way down to a leaf as far as the walk is on it, and says on
  which side of it the walk is in the list where they part: before it, the leaf
  is uncounted; behind it, counted once. `SumInv` is the sum of what was counted.
  When the walk is back at its root every such leaf is counted once (`LeafOnce`), and
  if nothing changed, nothing else was (`SumIsRight`).

`WebProofs`, of `Rio`, for any buffer size, stream and arguments:

- `RioInv` is `RioTypeOK`, `InOrder`, `FitsBuffer`, `Delivered` and `InCall`. `Delivered` is
  the account that makes `InOrder` inductive: returned bytes, stored bytes and
  unread bytes add up to those taken from the stream. `InCall` says that a line
  in progress holds no newline but perhaps its last byte.
- `ReadsTheStream`: `RioSpec => ImplementsReader`. The call's return is the one step
  of `Reader`; `Stored` says what `usrbuf` holds then, and from it follows the count
  that the call returns.

`JobsListProofs`, for any pids and any bound on the ids:

- `Inv` is `TypeOK`, `StrictlySorted`, `DueAhead` and `Reserved`. `DueAhead`: what had
  ended when the call began is not behind the iterator, which is why the loop's end
  means that it is gone; `Keep` preserves it because what it passes was alive. `Reserved`:
  while `addJob` is under way there is an id left for its entry.
- `VectorIsATable`: `Spec => ImplementsTable`. `sort` is any order that fits, as
  `std::sort` promises no more; `SortKeeps` shows that on a strictly sorted vector it
  keeps the entries, so no step of the loop but `Erase` and `Insert` changes the
  table. Termination of the loop stays with TLC.

`CommandsProofs`, for any processes, any size of the descriptor table and any session:

- `LineEntered` reduces a line to a pipeline, a redirection, a `cd` or a command to run;
  `BuiltinRuns` says that a built-in forks nothing and, `HeadCloses`, leaves the table alone.
- `Typed` adds to `TypeOK` the types of the line's locals and `Places`, which commands
  are at which step. It covers the calls that fail, and the array that `pipe()` leaves
  as it was.
- `Waited` says, for a command that began with no other child, how many there may be
  at each step: none, the first operand, both, one, none. Each wait for any child
  reaps one of them or finds none, so none is left, whichever forks failed.
- `Clean` says, while the table had room, which descriptors are in use at each step:
  between commands 3 and the leaked ones; with a pipe open two more, and a copy of
  stdout that `|` needs; while stdout goes to the file one more, which is stdout as
  it was. `OpenHolds`, `CloseHolds` and `Dup2Holds` say how one call changes that count,
  `PipelineOpens`, `EndsClosed`, `RedirectOpens` and `StdoutRestored` add them up.
  `CommandsCleanUp` (`PromptIsClean`) follows from `Waited` and `Clean`.
- `WayBack` (`BackIsPrevious`) is inductive with the type of the stack.

`WebProofs`, of `Server`, for any clients and numbers of headers:

- `ServerInv` is `TypeOK`, `NoOrphan`, `Came`, `Lines`, `InHand` and `RightReply`, which says of a
  client that is still there that it was answered what it asked before its connection was
  closed and, of a GET without a long line, that all it sent had been read. `InHand`: what
  the server is about to answer is what the client asked for, unless the client has left,
  sent no request, or one that is garbled, the cases in which `method` and `uri` are not
  initialised; and once the headers are over nothing of a request without long lines is
  left unread. It needs `Lines`, that an empty line comes last, and only once the whole
  request was sent, and `Came`, that clients in the queue have connected and that none is
  hung up on without an answer.
- `Queued` is an invariant beside it: a client is in the queue at most once, and the server
  has read nothing of one that is in it, so that the first line read of a connection is
  the first that its client sent. `FirstOf` is the fact about sequences that this needs: the
  head of a queue without repetitions is not in its tail.

Only model-checked: `KeysReturnPrompt` of `Smash`, `LoopTerminates` of
`JobsList`, `CallEnds` of `Rio`, `EveryoneAnswered` of `Server` and `WaitsEnd` of
`Commands` (the provers handle neither fairness nor ENABLED).

## 6. Findings

Each of these has a run whose counterexample shows it:

- `smash_bg`: `getLastStoppedJob` returns the slot past the end of the vector
  (`JobsList.cpp:68`), so `bg` never acts on the last stopped job; and it looks for
  the type an entry was created with (`JobsList.cpp:60`), so a background job stopped
  later is not found at all.
- `malloc3_reuse`: `srealloc` grows a block, splits it and leaves it, in use, in the
  histogram (`Part 3/malloc_3.cpp:574`), from which the next `smalloc` of its size hands it
  out again.
- `server_hang`: a client that sends no more within its headers, because it has left or
  ended its half of the connection, keeps `requestReadhdrs` (`request.c:48`) reading for
  ever, and nobody else is served; `server.c:10` says that the server repeatedly
  handles requests.

What else the models say of the code, without a run of its own: `kill` marks a job
as stopped after SIGINT, and after a SIGTSTP that the process ignores
(`BuiltIn.cpp:122`); `scalloc` lets a product that wraps around through
(`malloc_2.cpp:82`); every failed wrapper ends the server (`segel.c:11`), after a
connection that is reset and after a request for an empty file, as `mmap` of no bytes
fails (`request.c:137`); `|&` in the background takes `&` for its left operand
(`Pipe.h:117`); `rio_readlineb` returns one more than it has stored when its buffer is
full or the input ends within a line (`segel.c:406-420`); each pipeline leaks two descriptors and each redirection one; the
flaws of parts 3 and 4 are in section 3.

Two places where the repository and its code disagree and no property is violated that
the code could be said to promise:

- `request.c:41` says that `requestReadhdrs` "reads and discards everything up to an empty
  text line". A header line longer than `MAXLINE - 1` bytes is cut (`segel.c:406`), and when
  the rest of it is just its end, that rest is taken for the empty line: the client is
  answered before its request is whole. A client that ends its half of the connection
  before its first header makes the buffer of `request.c:47-50` be compared as the stack
  had it, so that it may be answered without an empty line, or never. `RightReply` is
  stated accordingly: an answer is that to what was asked, and only a GET whose lines all
  fit is sure to have been read to its empty line, or to the end of what its client sends.
- `Part 3/README.md:23-25` explains that a test has two free blocks that are not merged
  because "the segel dont want us to merge on split (ex: on realloc)", and the comment of
  `testNoRecMerge` (`Part 3/test.cpp:600-603`) says "don't merge on split". `splitBlock`
  does unite what it splits off with a free neighbour (`malloc_3.cpp:211-212`), in `srealloc`
  too, and the string that this very test expects (`test.cpp:610`) is one united
  free block. `Coalesced` states what the code does and the test expects.

## 7. Not modelled

In `Smash`: a fork that fails (it is in `Commands`; what `quit kill` sends to the pid
-1 is in neither), the end of input, and all text. In `Malloc2`: calls with a pointer
that `smalloc` did not return, which the code leaves undefined. In `Malloc3`: the bytes
of the payloads, so that what `srealloc` copies is left out, and what happens after a
flaw. In `Weight`: `get_weight` and `hello`, which change nothing. In `Commands`: signals, and the lines that `head` copies. In `Rio`: the
unbuffered `rio_readn` and `rio_writen`, loops over one call each. In `Server`: the
text of requests and answers, of the parsing more than is said in section 3, and a client
that keeps writing after its answer or after its empty line.

Not modelled at all: part 1 of the allocator (one `sbrk`, no state). Of the parsing of lines,
`Commands` has what decides which command a line is, and none of its arguments. `Commands.*` and `Special.cpp` of hw1 are an earlier version that is not
built, `hw4/Ahmad` holds abandoned variants of the allocators whose successors are modelled.

The modelled definitions stand for some 3050 lines. The repository counts some 10,000, of
which about 2,700 are the Linux headers `sched.h` and `syscalls.h` and 1,300 are compiler probes
of CMake, both without behaviour of this code; 1,500 are test programs, and 1,400
the versions that are not built. Little else is left: the wrappers of `segel.c` that
call one function and exit on its error, and what this section names.

`PROJECT.json` gives the reason for each component, and lists every hazard with its
line and the properties that cover it.
