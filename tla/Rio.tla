-------------------------------- MODULE Rio --------------------------------
(***************************************************************************)
(* Buffered reading in the web server (hw3/webserver-files/segel.c):       *)
(* rio_read, rio_readlineb and rio_readnb, with their wrappers that end    *)
(* the program when a read fails.  read() returns as many bytes as it      *)
(* likes, may be interrupted, may fail, and returns 0 at the end.          *)
(*                                                                         *)
(* A byte of the stream is named by its position, from 1.                  *)
(***************************************************************************)
EXTENDS Integers, Sequences

CONSTANTS
    RIO_BUFSIZE,  \* the size of the internal buffer
    Length,       \* bound: bytes the peer sends
    MaxLens,      \* bound: the arguments of rio_readlineb
    Ns,           \* bound: the arguments of rio_readnb
    MaxIntr       \* bound: how often read() is interrupted

ASSUME RioAssumption ==
    /\ RIO_BUFSIZE \in Nat \ {0} /\ Length \in Nat /\ MaxIntr \in Nat
    /\ MaxLens \subseteq Nat \ {0} /\ Ns \subseteq Nat

VARIABLES
    newline, sent, closed,        \* the stream and its peer, as in Reader
    taken,                        \* how many bytes read() has returned
    rio_buf, rio_bufptr, rio_cnt, \* rio_t
    rio_pc,                       \* the call in progress
    limit,                        \* its argument: maxlen or n
    usrbuf,                       \* what it has stored in the caller's buffer
    given,                        \* history: the last byte a call has returned
    result,                       \* what the last call has returned
    intr                          \* counts the interrupts

peer == <<newline, sent, closed>>
rio  == <<taken, rio_buf, rio_bufptr, rio_cnt, intr>>
rioVars == <<peer, rio, rio_pc, limit, usrbuf, given, result>>

Slots == 1..RIO_BUFSIZE
Bytes == 1..Length

RioTypeOK ==
    /\ newline \subseteq Bytes /\ sent \in 0..Length /\ closed \in BOOLEAN
    /\ taken \in 0..sent
    /\ rio_buf \in [Slots -> 0..Length]  \* 0: never written
    /\ rio_bufptr \in 1..(RIO_BUFSIZE + 1) /\ rio_cnt \in -1..RIO_BUFSIZE
    /\ rio_pc \in {"idle", "line", "block", "exit"}
    /\ limit \in Nat
    /\ usrbuf \in Seq(0..Length)
    /\ given \in 0..Length /\ result \in 0..(Length + 1)
    /\ intr \in 0..MaxIntr

(* rio_readinitb *)
RioInit ==
    /\ newline \in SUBSET Bytes /\ sent = 0 /\ closed = FALSE
    /\ taken = 0
    /\ rio_buf = [i \in Slots |-> 0] /\ rio_bufptr = 1 /\ rio_cnt = 0
    /\ rio_pc = "idle" /\ limit = 0 /\ usrbuf = <<>> /\ intr = 0
    /\ given = 0 /\ result = 0

-----------------------------------------------------------------------------
(* The peer. *)
Sends == /\ ~closed /\ sent < Length /\ sent' = sent + 1
         /\ UNCHANGED <<newline, closed, rio, rio_pc, limit, usrbuf, given, result>>
Closes == /\ ~closed /\ closed' = TRUE
          /\ UNCHANGED <<newline, sent, rio, rio_pc, limit, usrbuf, given, result>>

-----------------------------------------------------------------------------
(* The calls.  n of rio_readlineb is Len(usrbuf) + 1, nleft of rio_readnb  *)
(* is limit - Len(usrbuf).                                                 *)

Call(name, n) == /\ rio_pc = "idle" /\ rio_pc' = name /\ limit' = n /\ usrbuf' = <<>>
                 /\ UNCHANGED <<peer, rio, given, result>>

rio_readlineb == \E maxlen \in MaxLens : Call("line", maxlen)
rio_readnb    == \E n \in Ns : Call("block", n)

(* The number of bytes a line has room for: one is left for the 0.         *)
FullRoom == limit  \* mutant: n <= maxlen
LineRoom == limit - 1
Room == IF rio_pc = "line" THEN LineRoom ELSE limit

(* Where a call leaves its loop. *)
LineEnds(bytes) == bytes # <<>> /\ bytes[Len(bytes)] \in newline
Full == Len(usrbuf) >= Room
Done == Full \/ (rio_pc = "line" /\ LineEnds(usrbuf))

Reading == rio_pc \in {"line", "block"} /\ ~Done

(* rio_readlineb returns n: one more than the bytes of a line that does    *)
(* not end, but 0 when there is none at all.                               *)
Returns(whole) ==
    /\ rio_pc' = "idle" /\ given' = given + Len(usrbuf)
    /\ result' = Len(usrbuf) + IF rio_pc = "line" /\ ~whole THEN 1 ELSE 0
    /\ UNCHANGED <<peer, taken, rio_buf, rio_bufptr, intr, limit, usrbuf>>

CallReturns == /\ rio_pc \in {"line", "block"} /\ Done
               /\ Returns(LineEnds(usrbuf)) /\ UNCHANGED rio_cnt

(* rio_read: the internal buffer is empty and is filled from its start... *)
KeepPtr(k) == rio_bufptr  \* mutant: rio_bufptr not reset
ResetPtr(k) == 1

FullRead(k) == RIO_BUFSIZE  \* mutant: a short read counts as a full one
ReadCount(k) == k

Refill ==
    /\ Reading /\ rio_cnt <= 0
    /\ \E k \in 1..RIO_BUFSIZE :
         /\ k <= sent - taken
         /\ rio_cnt' = ReadCount(k)
         /\ rio_buf' = [i \in Slots |-> IF i <= k THEN taken + i ELSE rio_buf[i]]
         /\ rio_bufptr' = ResetPtr(k)
         /\ taken' = taken + k
    /\ UNCHANGED <<peer, rio_pc, limit, usrbuf, given, result, intr>>

(* ... or read() is interrupted and called again, ... *)
Interrupted ==
    /\ Reading /\ rio_cnt <= 0 /\ intr < MaxIntr
    /\ rio_cnt' = -1 /\ intr' = intr + 1
    /\ UNCHANGED <<peer, taken, rio_buf, rio_bufptr, rio_pc, limit, usrbuf, given, result>>

(* ... or it returns 0 and the call returns what it has, ...               *)
NeverAtEnd == FALSE  \* mutant: calls read() again after a 0
AtEnd == closed /\ taken = sent

EndOfFile ==
    /\ Reading /\ rio_cnt <= 0 /\ AtEnd
    /\ rio_cnt' = 0
    /\ Returns(usrbuf = <<>>)

(* ... or it fails, and the wrapper ends the program.                      *)
Fails ==
    /\ Reading /\ rio_cnt <= 0
    /\ rio_cnt' = -1 /\ rio_pc' = "exit"
    /\ UNCHANGED <<peer, taken, rio_buf, rio_bufptr, intr, limit, usrbuf, given, result>>

(* rio_read: bytes are copied from the internal buffer, one for a line.    *)
Smaller(a, b) == IF a < b THEN a ELSE b
AllBuffered == rio_cnt  \* mutant: not bounded by what the caller wants
Wanted == IF rio_pc = "line" THEN 1 ELSE Smaller(limit - Len(usrbuf), rio_cnt)

Copied(k) == [i \in 1..k |-> rio_buf[rio_bufptr + i - 1]]

CopyOut ==
    /\ Reading /\ rio_cnt > 0
    /\ usrbuf' = usrbuf \o Copied(Wanted)
    /\ rio_bufptr' = rio_bufptr + Wanted
    /\ rio_cnt' = rio_cnt - Wanted
    /\ UNCHANGED <<peer, taken, rio_buf, intr, rio_pc, limit, given, result>>

RioEnded == rio_pc = "exit" /\ UNCHANGED rioVars

Step == CallReturns \/ Refill \/ EndOfFile \/ CopyOut
RioNext == \/ Sends \/ Closes \/ rio_readlineb \/ rio_readnb
           \/ Step \/ Interrupted \/ Fails \/ RioEnded

RioSpec == RioInit /\ [][RioNext]_rioVars

(* The program runs, and read() returns when there is something to return. *)
RioFairSpec == RioSpec /\ WF_rioVars(Step)

-----------------------------------------------------------------------------
(* Properties. *)

(* No byte is lost, repeated or moved, however read() cuts the stream: the *)
(* caller's buffer holds the bytes after the last call's, the internal     *)
(* buffer those that follow, and the next read() begins right behind.      *)
InOrder ==
    /\ \A i \in 1..Len(usrbuf) : rio_pc \in {"line", "block"} => usrbuf[i] = given + i
    /\ rio_bufptr + rio_cnt <= RIO_BUFSIZE + 1
    /\ \A i \in 1..rio_cnt : rio_buf[rio_bufptr + i - 1] = taken - rio_cnt + i

(* The calls return the stream as Reader defines. *)
TheReader == INSTANCE Reader WITH failed <- rio_pc = "exit"
ImplementsReader == TheReader!Spec

(* A call never stores more bytes than the caller's buffer has room for,   *)
(* the 0 behind a line included.                                           *)
FitsBuffer == Len(usrbuf) + (IF rio_pc = "line" THEN 1 ELSE 0) <= limit

(* Every call returns once the peer has closed. *)
CallEnds == (closed /\ rio_pc \in {"line", "block"}) ~> rio_pc \in {"idle", "exit"}
=============================================================================
