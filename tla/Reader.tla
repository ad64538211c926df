------------------------------- MODULE Reader -------------------------------
(***************************************************************************)
(* What the buffered reader of the web server (rio in segel.c) promises:   *)
(* a stream of bytes, of which every call returns the next ones, none      *)
(* twice and none left out.  A byte is named by its position.              *)
(***************************************************************************)
EXTENDS Integers

CONSTANTS
    Length,       \* bytes the peer sends at most
    MaxLens, Ns   \* bounds: the arguments of the calls

VARIABLES
    newline,  \* the positions that hold a newline
    sent,     \* how many bytes the peer has sent
    closed,   \* it will send no more
    given,    \* the last byte that a call has returned
    result,   \* what it said of it: how many bytes, or one more
    failed    \* a read has failed, and no call returns any more

vars == <<newline, sent, closed, given, result, failed>>

Init == /\ newline \in SUBSET (1..Length)
        /\ sent = 0 /\ closed = FALSE /\ given = 0 /\ result = 0 /\ failed = FALSE

Peer == /\ ~closed
        /\ \/ sent < Length /\ sent' = sent + 1 /\ UNCHANGED closed
           \/ closed' = TRUE /\ UNCHANGED sent
        /\ UNCHANGED <<newline, given, result, failed>>

Return(last) == ~failed /\ given' = last /\ UNCHANGED <<newline, sent, closed, failed>>

(* A line: up to a newline, or as much as there is room for, or the rest.  *)
(* The result is 0 only at the end, and right for a line that is whole.    *)
ReadLine(maxlen) ==
    \E last \in given..sent :
        /\ last - given <= maxlen - 1
        /\ \A p \in (given + 1)..(last - 1) : p \notin newline
        /\ \/ last > given /\ last \in newline
           \/ last - given = maxlen - 1
           \/ (closed /\ last = sent)
        /\ Return(last)
        /\ result' \in {last - given, last - given + 1}
        /\ result' = 0 => closed /\ last = sent
        /\ last > given /\ last \in newline => result' = last - given

(* n bytes, or the rest. *)
ReadBlock(n) ==
    \E last \in given..sent :
        /\ last - given <= n
        /\ last - given = n \/ (closed /\ last = sent)
        /\ Return(last) /\ result' = last - given

Fail == /\ ~failed /\ failed' = TRUE
        /\ UNCHANGED <<newline, sent, closed, given, result>>

Next == \/ Peer \/ Fail
        \/ \E maxlen \in MaxLens : ReadLine(maxlen)
        \/ \E n \in Ns : ReadBlock(n)

Spec == Init /\ [][Next]_vars
=============================================================================
