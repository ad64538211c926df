----------------------------- MODULE WebProofs -----------------------------
(***************************************************************************)
(* The web server: its buffered reader (Rio) and its loop (Server).        *)
(*                                                                         *)
(* Rio delivers the stream in order, in whatever pieces read() returns it, *)
(* for every buffer size, stream and argument: it implements Reader.       *)
(*                                                                         *)
(* Server, for any number of clients and headers: a client that waits gets *)
(* the answer to its own request, and no CGI process outlives its          *)
(* connection.                                                             *)
(***************************************************************************)
EXTENDS Rio, Server, SequenceTheorems, TLAPS

-----------------------------------------------------------------------------
(* RIO *)

(* How many bytes of the internal buffer have not been handed on. *)
Unread == IF rio_cnt > 0 THEN rio_cnt ELSE 0

(* Every byte taken from the stream has been returned by a call, is in the *)
(* caller's buffer, or waits in the internal one.                          *)
Delivered ==
    /\ rio_pc = "idle" => given + Unread = taken
    /\ rio_pc \in {"line", "block"} => given + Len(usrbuf) + Unread = taken

(* A call runs with an argument of its kind, and a line goes on only while *)
(* it holds no newline.                                                    *)
InCall ==
    /\ rio_pc = "line" => limit \in MaxLens
    /\ rio_pc = "block" => limit \in Ns
    /\ rio_pc = "line" => \A i \in 1..(Len(usrbuf) - 1) : usrbuf[i] \notin newline

RioInv == RioTypeOK /\ InOrder /\ FitsBuffer /\ Delivered /\ InCall

USE RioAssumption

-----------------------------------------------------------------------------
(* A function on 1..n is a sequence of n. *)
LEMMA IsSeq ==
    ASSUME NEW S, NEW n \in Nat, NEW f \in [1..n -> S]
    PROVE  f \in Seq(S) /\ Len(f) = n
<1>1. f \in Seq(S)
  BY SeqDef
<1> QED
  BY <1>1, LenProperties

(* CopyOut: what is copied is the stream's next bytes. *)

LEMMA CopiedBytes ==
    ASSUME RioInv, Reading, rio_cnt > 0
    PROVE  /\ Wanted \in 1..rio_cnt
           /\ Len(usrbuf) + Wanted <= Room
           /\ Copied(Wanted) \in Seq(0..Length)
           /\ Len(Copied(Wanted)) = Wanted
           /\ \A i \in 1..Wanted : Copied(Wanted)[i] = given + Len(usrbuf) + i
<1> USE DEF RioInv, RioTypeOK, Slots
<1>1. Len(usrbuf) \in Nat
  OBVIOUS
<1>2. Wanted \in 1..rio_cnt /\ Len(usrbuf) + Wanted <= Room
  BY <1>1 DEF Reading, Done, Full, Room, LineRoom, Wanted, Smaller
<1>3. \A i \in 1..Wanted : /\ rio_bufptr + i - 1 \in Slots
                           /\ rio_buf[rio_bufptr + i - 1] \in 0..Length
  BY <1>2 DEF InOrder
<1>4. Copied(Wanted) \in Seq(0..Length) /\ Len(Copied(Wanted)) = Wanted
  <2>1. Copied(Wanted) \in [1..Wanted -> 0..Length] /\ Wanted \in Nat
    <3> HIDE DEF RioInv, RioTypeOK
    <3>1. Wanted \in Nat
      BY <1>2
    <3> QED
      BY <1>3, <3>1 DEF Copied
  <2> QED
    BY <2>1, IsSeq
<1>5. given + Len(usrbuf) = taken - rio_cnt
  BY <1>1 DEF Reading, Delivered, Unread
<1>6. \A i \in 1..Wanted : Copied(Wanted)[i] = given + Len(usrbuf) + i
  <2> SUFFICES ASSUME NEW i \in 1..Wanted
               PROVE  Copied(Wanted)[i] = given + Len(usrbuf) + i
    OBVIOUS
  <2>1. i \in 1..rio_cnt
    BY <1>2
  <2>2. rio_buf[rio_bufptr + i - 1] = taken - rio_cnt + i
    BY <2>1 DEF InOrder
  <2>3. Copied(Wanted)[i] = rio_buf[rio_bufptr + i - 1]
    BY DEF Copied
  <2> QED
    BY <1>5, <2>2, <2>3
<1> QED
  BY <1>2, <1>4, <1>6

LEMMA CopyOutKeepsInv == RioInv /\ CopyOut => RioInv'
<1> SUFFICES ASSUME RioInv, CopyOut PROVE RioInv'
  OBVIOUS
<1> DEFINE w == Wanted
           c == Copied(w)
<1>1. /\ w \in 1..rio_cnt /\ Len(usrbuf) + w <= Room
      /\ c \in Seq(0..Length) /\ Len(c) = w
      /\ \A i \in 1..w : c[i] = given + Len(usrbuf) + i
  BY CopiedBytes DEF CopyOut
<1>2. /\ usrbuf' = usrbuf \o c /\ rio_bufptr' = rio_bufptr + w /\ rio_cnt' = rio_cnt - w
      /\ UNCHANGED <<newline, sent, closed, taken, rio_buf, intr, rio_pc, limit, given, result>>
  BY DEF CopyOut, peer
<1>3. Reading /\ rio_cnt > 0
  BY DEF CopyOut
<1> HIDE DEF w, c
<1>4. usrbuf \in Seq(0..Length) /\ Len(usrbuf) \in Nat
  BY DEF RioInv, RioTypeOK
<1>5. /\ usrbuf' \in Seq(0..Length) /\ Len(usrbuf') = Len(usrbuf) + w
      /\ \A i \in 1..Len(usrbuf') :
           usrbuf'[i] = IF i <= Len(usrbuf) THEN usrbuf[i] ELSE c[i - Len(usrbuf)]
  BY <1>1, <1>2, <1>4, ConcatProperties
<1>6. RioTypeOK'
  <2>1. rio_cnt' \in -1..RIO_BUFSIZE /\ rio_bufptr' \in 1..(RIO_BUFSIZE + 1)
    BY <1>1, <1>2 DEF RioInv, RioTypeOK, InOrder
  <2> QED
    BY <2>1, <1>2, <1>5 DEF RioInv, RioTypeOK
<1>7. InOrder'
  <2>1. \A i \in 1..Len(usrbuf') : usrbuf'[i] = given + i
    <3> SUFFICES ASSUME NEW i \in 1..Len(usrbuf') PROVE usrbuf'[i] = given + i
      OBVIOUS
    <3>1. CASE i <= Len(usrbuf)
      BY <3>1, <1>3, <1>4, <1>5 DEF RioInv, InOrder, Reading
    <3>2. CASE i > Len(usrbuf)
      <4>1. i - Len(usrbuf) \in 1..w
        BY <3>2, <1>1, <1>4, <1>5
      <4> QED
        BY <4>1, <3>2, <1>1, <1>4, <1>5 DEF RioInv, RioTypeOK
    <3> QED
      BY <3>1, <3>2, <1>4
  <2>2. \A i \in 1..rio_cnt' :
          rio_buf'[rio_bufptr' + i - 1] = taken' - rio_cnt' + i
    <3> SUFFICES ASSUME NEW i \in 1..rio_cnt'
                 PROVE  rio_buf'[rio_bufptr' + i - 1] = taken' - rio_cnt' + i
      OBVIOUS
    <3>1. i + w \in 1..rio_cnt
      BY <1>1, <1>2 DEF RioInv, RioTypeOK
    <3>2. rio_buf[rio_bufptr + (i + w) - 1] = taken - rio_cnt + (i + w)
      BY <3>1 DEF RioInv, InOrder
    <3>3. rio_bufptr' + i - 1 = rio_bufptr + (i + w) - 1
      BY <1>1, <1>2 DEF RioInv, RioTypeOK
    <3> QED
      BY <3>2, <3>3, <1>1, <1>2 DEF RioInv, RioTypeOK
  <2>3. rio_bufptr' + rio_cnt' <= RIO_BUFSIZE + 1
    BY <1>1, <1>2 DEF RioInv, RioTypeOK, InOrder
  <2> QED
    BY <2>1, <2>2, <2>3, <1>2 DEF InOrder
<1>8. FitsBuffer'
  BY <1>1, <1>2, <1>3, <1>4, <1>5 DEF RioInv, RioTypeOK, FitsBuffer, Room, LineRoom, Reading
<1>9. Delivered'
  <2>1. rio_pc' \in {"line", "block"}
    BY <1>2, <1>3 DEF Reading
  <2>2. given + Len(usrbuf) + rio_cnt = taken
    BY <1>3 DEF RioInv, Delivered, Unread, Reading
  <2>3. Unread' = rio_cnt - w
    BY <1>1, <1>2 DEF Unread, RioInv, RioTypeOK
  <2>4. given + (Len(usrbuf) + w) + (rio_cnt - w) = taken
    <3>1. given \in Int /\ rio_cnt \in Int /\ w \in Int
      BY <1>1 DEF RioInv, RioTypeOK
    <3> QED
      BY <3>1, <1>4, <2>2
  <2>5. given' + Len(usrbuf') + Unread' = taken'
    BY <1>2, <1>5, <2>3, <2>4
  <2> QED
    BY <2>1, <2>5 DEF Delivered
<1>10. InCall'
  <2>1. rio_pc = "line" => \A i \in 1..(Len(usrbuf') - 1) : usrbuf'[i] \notin newline
    <3> SUFFICES ASSUME rio_pc = "line", NEW i \in 1..(Len(usrbuf') - 1)
                 PROVE  usrbuf'[i] \notin newline
      OBVIOUS
    <3>1. w = 1
      BY DEF w, Wanted
    <3>2. i \in 1..Len(usrbuf) /\ usrbuf'[i] = usrbuf[i]
      BY <3>1, <1>4, <1>5
    <3>3. CASE i = Len(usrbuf)
      BY <3>2, <3>3, <1>3, <1>4 DEF Reading, Done, LineEnds
    <3>4. CASE i # Len(usrbuf)
      BY <3>2, <3>4, <1>4 DEF RioInv, InCall
    <3> QED
      BY <3>3, <3>4
  <2> QED
    BY <2>1, <1>2 DEF RioInv, InCall
<1> QED
  BY <1>6, <1>7, <1>8, <1>9, <1>10 DEF RioInv

LEMMA RefillKeepsInv == RioInv /\ Refill => RioInv'
<1> SUFFICES ASSUME RioInv, Refill PROVE RioInv'
  OBVIOUS
<1> USE DEF RioInv
<1>1. PICK k \in 1..RIO_BUFSIZE :
        /\ k <= sent - taken
        /\ rio_cnt' = k
        /\ rio_buf' = [i \in Slots |-> IF i <= k THEN taken + i ELSE rio_buf[i]]
        /\ rio_bufptr' = 1
        /\ taken' = taken + k
  BY DEF Refill, ReadCount, ResetPtr
<1>2. /\ UNCHANGED <<newline, sent, closed, rio_pc, limit, usrbuf, given, result, intr>>
      /\ Reading /\ rio_cnt <= 0
  BY DEF Refill, peer
<1>3. RioTypeOK'
  <2>1. rio_buf' \in [Slots -> 0..Length]
    BY <1>1 DEF RioTypeOK, Slots
  <2>2. taken' \in 0..sent' /\ rio_bufptr' \in 1..(RIO_BUFSIZE + 1) /\ rio_cnt' \in -1..RIO_BUFSIZE
    BY <1>1, <1>2 DEF RioTypeOK
  <2> QED
    BY <2>1, <2>2, <1>2 DEF RioTypeOK
<1>4. InOrder'
  <2>1. \A i \in 1..k : rio_buf'[i] = taken + i
    BY <1>1 DEF Slots
  <2> QED
    BY <2>1, <1>1, <1>2 DEF InOrder, RioTypeOK
<1>5. FitsBuffer' /\ InCall'
  BY <1>2 DEF FitsBuffer, InCall
<1>6. Delivered'
  BY <1>1, <1>2 DEF Delivered, Unread, RioTypeOK, Reading
<1> QED
  BY <1>3, <1>4, <1>5, <1>6

LEMMA RioStepKeepsInv == RioInv /\ [RioNext]_rioVars => RioInv'
<1> SUFFICES ASSUME RioInv, [RioNext]_rioVars PROVE RioInv'
  OBVIOUS
<1> USE DEF RioInv, peer, rio
<1>1. CASE Sends
  BY <1>1 DEF Sends, RioTypeOK, InOrder, FitsBuffer, Delivered, Unread, InCall
<1>2. CASE Closes
  BY <1>2 DEF Closes, RioTypeOK, InOrder, FitsBuffer, Delivered, Unread, InCall
<1>3. CASE rio_readlineb
  <2>1. PICK maxlen \in MaxLens : Call("line", maxlen)
    BY <1>3 DEF rio_readlineb
  <2> QED
    BY <2>1 DEF Call, RioTypeOK, InOrder, FitsBuffer, Delivered, Unread, InCall
<1>4. CASE rio_readnb
  <2>1. PICK n \in Ns : Call("block", n)
    BY <1>4 DEF rio_readnb
  <2> QED
    BY <2>1 DEF Call, RioTypeOK, InOrder, FitsBuffer, Delivered, Unread, InCall
<1>5. CASE CallReturns
  <2>1. given + Len(usrbuf) \in 0..Length /\ result' \in 0..(Length + 1)
    BY <1>5 DEF Returns, CallReturns, RioTypeOK, Delivered, Unread
  <2> QED
    BY <2>1, <1>5 DEF CallReturns, Returns, RioTypeOK, InOrder, FitsBuffer, Delivered, Unread, InCall
<1>6. CASE EndOfFile
  <2>1. given + Len(usrbuf) \in 0..Length /\ result' \in 0..(Length + 1)
    BY <1>6 DEF Returns, EndOfFile, Reading, RioTypeOK, Delivered, Unread
  <2> QED
    BY <2>1, <1>6
    DEF EndOfFile, Reading, Returns, RioTypeOK, InOrder, FitsBuffer, Delivered, Unread, InCall
<1>7. CASE Refill
  BY <1>7, RefillKeepsInv
<1>8. CASE CopyOut
  BY <1>8, CopyOutKeepsInv
<1>9. CASE Interrupted
  BY <1>9 DEF Interrupted, Reading, RioTypeOK, InOrder, FitsBuffer, Delivered, Unread, InCall
<1>10. CASE Fails
  BY <1>10 DEF Fails, Reading, RioTypeOK, InOrder, FitsBuffer, Delivered, Unread, InCall
<1>11. CASE UNCHANGED rioVars
  BY <1>11 DEF rioVars, RioTypeOK, InOrder, FitsBuffer, Delivered, Unread, InCall
<1> QED
  BY <1>1, <1>2, <1>3, <1>4, <1>5, <1>6, <1>7, <1>8, <1>9, <1>10, <1>11
  DEF RioNext, Step, RioEnded

-----------------------------------------------------------------------------
(* The refinement: a call that returns is one step of Reader. *)

(* What a call in progress has stored ends at the last byte returned. *)
LEMMA Stored ==
    ASSUME RioInv, rio_pc \in {"line", "block"}
    PROVE  /\ given + Len(usrbuf) \in given..sent
           /\ AtEnd /\ rio_cnt <= 0 => given + Len(usrbuf) = sent
           /\ LineEnds(usrbuf) => /\ Len(usrbuf) > 0
                                  /\ given + Len(usrbuf) \in newline
           /\ rio_pc = "line" => \A p \in (given + 1)..(given + Len(usrbuf) - 1) : p \notin newline
<1> USE DEF RioInv, RioTypeOK
<1>1. Len(usrbuf) \in Nat
  OBVIOUS
<1>2. given + Len(usrbuf) + Unread = taken
  BY DEF Delivered
<1>3. given + Len(usrbuf) \in given..sent
  BY <1>1, <1>2 DEF Unread
<1>4. AtEnd /\ rio_cnt <= 0 => given + Len(usrbuf) = sent
  BY <1>1, <1>2 DEF Unread, AtEnd
<1>5. LineEnds(usrbuf) => Len(usrbuf) > 0 /\ given + Len(usrbuf) \in newline
  <2> SUFFICES ASSUME usrbuf # <<>>, usrbuf[Len(usrbuf)] \in newline
               PROVE  Len(usrbuf) > 0 /\ given + Len(usrbuf) \in newline
    BY DEF LineEnds
  <2>1. Len(usrbuf) > 0
    BY <1>1, EmptySeq
  <2>2. usrbuf[Len(usrbuf)] = given + Len(usrbuf)
    BY <1>1, <2>1 DEF InOrder
  <2> QED
    BY <2>1, <2>2
<1>6. ASSUME rio_pc = "line", NEW p \in (given + 1)..(given + Len(usrbuf) - 1)
      PROVE  p \notin newline
  <2>1. p - given \in 1..(Len(usrbuf) - 1) /\ p - given \in 1..Len(usrbuf)
    BY <1>1, <1>6
  <2>2. usrbuf[p - given] = given + (p - given)
    BY <1>6, <2>1 DEF InOrder
  <2>3. usrbuf[p - given] \notin newline
    BY <1>6, <2>1 DEF InCall
  <2> QED
    BY <2>2, <2>3
<1> QED
  BY <1>3, <1>4, <1>5, <1>6

LEMMA ReturnIsReader ==
    ASSUME RioInv, CallReturns \/ EndOfFile
    PROVE  TheReader!Next
<1> DEFINE last == given + Len(usrbuf)
<1> USE DEF RioInv, RioTypeOK
<1>1. Len(usrbuf) \in Nat /\ limit \in Nat /\ given \in Nat
  OBVIOUS
<1>0. rio_pc \in {"line", "block"} /\ (Done \/ (AtEnd /\ rio_cnt <= 0))
  BY DEF CallReturns, EndOfFile, Reading
<1>2. TheReader!Return(last)
  BY <1>0 DEF CallReturns, EndOfFile, Returns, peer, TheReader!Return
<1>3. last \in given..sent /\ last - given = Len(usrbuf)
  BY <1>0, <1>1, Stored
<1>4. CASE rio_pc = "line"
  <2>1. limit \in MaxLens
    BY <1>4 DEF InCall
  <2>2. last - given <= limit - 1
    BY <1>1, <1>3, <1>4 DEF FitsBuffer
  <2>8. \/ result' = Len(usrbuf) /\ (LineEnds(usrbuf) \/ (usrbuf = <<>> /\ AtEnd /\ rio_cnt <= 0))
        \/ result' = Len(usrbuf) + 1 /\ ~LineEnds(usrbuf)
    <3>1. CASE CallReturns
      BY <1>1, <1>4, <3>1 DEF CallReturns, Returns
    <3>2. CASE EndOfFile
      BY <1>1, <1>4, <3>2 DEF EndOfFile, Returns, Reading, Done
    <3> QED
      BY <3>1, <3>2
  <2>3. \A p \in (given + 1)..(last - 1) : p \notin newline
    BY <1>0, <1>4, Stored
  <2>4. \/ last > given /\ last \in newline
        \/ last - given = limit - 1
        \/ closed /\ last = sent
    <3>1. CASE Full
      BY <3>1, <1>1, <1>3, <1>4, <2>2 DEF Full, Room, LineRoom
    <3>2. CASE LineEnds(usrbuf)
      BY <3>2, <1>0, <1>1, Stored
    <3>3. CASE AtEnd /\ rio_cnt <= 0
      BY <3>3, <1>0, Stored DEF AtEnd
    <3> QED
      BY <3>1, <3>2, <3>3, <1>0 DEF Done
  <2>5. /\ result' \in {last - given, last - given + 1}
        /\ result' = 0 => closed /\ last = sent
    BY <1>0, <1>1, <1>3, <2>8, Stored DEF AtEnd
  <2>6. last > given /\ last \in newline => result' = last - given
    <3>1. SUFFICES ASSUME last > given, last \in newline PROVE LineEnds(usrbuf)
      BY <1>3, <2>8
    <3>2. usrbuf[Len(usrbuf)] = last /\ usrbuf # <<>>
      BY <1>1, <1>4, <3>1 DEF InOrder
    <3> QED
      BY <3>1, <3>2 DEF LineEnds
  <2> HIDE DEF last
  <2>7. TheReader!ReadLine(limit)
    BY <1>2, <1>3, <2>2, <2>3, <2>4, <2>5, <2>6 DEF TheReader!ReadLine
  <2> QED
    BY <2>1, <2>7 DEF TheReader!Next
<1>5. CASE rio_pc = "block"
  <2>1. limit \in Ns
    BY <1>5 DEF InCall
  <2>2. last - given <= limit
    BY <1>1, <1>3, <1>5 DEF FitsBuffer
  <2>3. last - given = limit \/ (closed /\ last = sent)
    <3>1. CASE Full
      <4>1. Len(usrbuf) >= limit
        BY <3>1, <1>5 DEF Full, Room
      <4> HIDE DEF RioInv, RioTypeOK, last
      <4>2. Len(usrbuf) <= limit
        BY <1>3, <2>2
      <4> QED
        BY <4>1, <4>2, <1>1, <1>3
    <3>2. CASE AtEnd /\ rio_cnt <= 0
      BY <3>2, <1>0, Stored DEF AtEnd
    <3> QED
      BY <1>0, <1>5, <3>1, <3>2 DEF Done
  <2>4. result' = last - given
    BY <1>1, <1>3, <1>5 DEF Returns, CallReturns, EndOfFile
  <2> HIDE DEF last
  <2>5. TheReader!ReadBlock(limit)
    BY <1>2, <1>3, <2>2, <2>3, <2>4 DEF TheReader!ReadBlock
  <2> QED
    BY <2>1, <2>5 DEF TheReader!Next
<1> QED
  BY <1>0, <1>4, <1>5

LEMMA ReaderNext == RioInv /\ [RioNext]_rioVars => [TheReader!Next]_(TheReader!vars)
<1> SUFFICES ASSUME RioInv, [RioNext]_rioVars PROVE [TheReader!Next]_(TheReader!vars)
  OBVIOUS
<1> USE DEF peer
<1>1. CASE Sends \/ Closes
  BY <1>1 DEF Sends, Closes, TheReader!Next, TheReader!Peer
<1>2. CASE CallReturns
  BY <1>2, ReturnIsReader
<1>3. CASE EndOfFile
  BY <1>3, ReturnIsReader
<1>4. CASE Fails
  BY <1>4 DEF Fails, Reading, TheReader!Next, TheReader!Fail
<1>5. ASSUME UNCHANGED <<newline, sent, closed, given, result>>, (rio_pc' = "exit") = (rio_pc = "exit")
      PROVE  UNCHANGED TheReader!vars
  BY <1>5 DEF TheReader!vars
<1>6. CASE rio_readlineb \/ rio_readnb
  BY <1>5, <1>6 DEF rio_readlineb, rio_readnb, Call
<1>7. CASE Refill \/ Interrupted \/ CopyOut
  BY <1>5, <1>7 DEF Refill, Interrupted, CopyOut
<1>8. CASE UNCHANGED rioVars
  BY <1>5, <1>8 DEF rioVars
<1> QED
  BY <1>1, <1>2, <1>3, <1>4, <1>6, <1>7, <1>8 DEF RioNext, Step, RioEnded

-----------------------------------------------------------------------------
(* Every state keeps the accounts of the stream. *)
THEOREM RioInvHolds == RioSpec => []RioInv
<1>1. RioInit => RioInv
  <2> SUFFICES ASSUME RioInit PROVE RioInv
    OBVIOUS
  <2>1. <<>> \in Seq(0..Length) /\ Len(<<>>) = 0
    BY EmptySeq
  <2>2. RioTypeOK
    <3>1. rio_buf \in [Slots -> 0..Length]
      BY DEF RioInit
    <3>2. newline \subseteq Bytes /\ usrbuf \in Seq(0..Length)
      BY <2>1 DEF RioInit
    <3>3. /\ rio_bufptr \in 1..(RIO_BUFSIZE + 1) /\ rio_cnt \in -1..RIO_BUFSIZE
          /\ sent \in 0..Length /\ taken \in 0..sent /\ given \in 0..Length
          /\ result \in 0..(Length + 1) /\ intr \in 0..MaxIntr /\ limit \in Nat
      BY DEF RioInit
    <3> QED
      BY <3>1, <3>2, <3>3 DEF RioInit, RioTypeOK
  <2>3. InOrder /\ FitsBuffer /\ Delivered /\ InCall
    BY <2>1 DEF RioInit, InOrder, FitsBuffer, Delivered, Unread, InCall
  <2> QED
    BY <2>2, <2>3 DEF RioInv
<1> QED
  BY <1>1, RioStepKeepsInv, PTL DEF RioSpec

(* The variables keep their types. *)
THEOREM RioTypeCorrect == RioSpec => []RioTypeOK
  BY RioInvHolds, PTL DEF RioInv

(* No byte is lost, repeated or moved, however read() cuts the stream. *)
THEOREM BytesInOrder == RioSpec => []InOrder
  BY RioInvHolds, PTL DEF RioInv

(* No call writes behind its caller's buffer. *)
THEOREM NoOverrun == RioSpec => []FitsBuffer
  BY RioInvHolds, PTL DEF RioInv

(* The calls return the stream as Reader promises: next bytes only, a line *)
(* no longer than its first newline or its room, a block of n bytes, and   *)
(* less only at the end of the stream.  A line call that returns 0 has     *)
(* reached the end.                                                        *)
THEOREM ReadsTheStream == RioSpec => ImplementsReader
<1>1. RioInit => TheReader!Init
  BY DEF RioInit, Bytes, TheReader!Init
<1> QED
  BY <1>1, ReaderNext, RioInvHolds, PTL DEF RioSpec, ImplementsReader, TheReader!Spec

HIDE RioAssumption

-----------------------------------------------------------------------------
(* SERVER *)

(* The server answers clients that have come, in the queue first, and it   *)
(* closes no connection unanswered.                                        *)
Came ==
    /\ \A c \in Clients : end[c] = "absent" => reply[c] = 0
    /\ \A i \in 1..Len(queue) : end[queue[i]] # "absent"
    /\ pc \notin {"start", "accept", "exit", "failed"} => conn \in Clients /\ end[conn] # "absent"
    /\ pc \in {"wait", "close"} => reply[conn] # 0

(* Lines come from clients that have asked.  Without a long one, an empty  *)
(* one is the last of a whole request.                                     *)
Lines ==
    \A c \in Clients :
        /\ input[c] # <<>> => ask[c] # "none"
        /\ c \notin long => \A i \in 1..Len(input[c]) :
              /\ input[c][i] # "long"
              /\ input[c][i] = "empty" => c \in whole /\ i = Len(input[c])

(* Of a client that is still there, what the server has in hand is what it *)
(* asked for, and unless one of its lines was cut all of it has been read. *)
InHand ==
    end[conn] \in {"open", "shut"} =>
        /\ pc \in {"headers", "answer"} =>
              /\ ask[conn] \in Targets => target = ask[conn]
              /\ ask[conn] = "none" => conn \in half
        /\ pc = "headers" => target # "post"
        /\ pc = "answer" /\ target # "post" /\ conn \notin long =>
              input[conn] = <<>> /\ conn \in whole \cup half

(* Where the server serves nobody. *)
Free == {"start", "accept", "exit", "failed"}

(* A client is in the queue once, and nothing it has sent is read before   *)
(* it is served.                                                           *)
Queued ==
    /\ \A c \in Clients : end[c] = "absent" => ask[c] = "none"
    /\ \A i, j \in 1..Len(queue) : queue[i] = queue[j] => i = j
    /\ \A i \in 1..Len(queue) : ask[queue[i]] # "none" => input[queue[i]] # <<>>
    /\ pc \notin Free => \A i \in 1..Len(queue) : queue[i] # conn
    /\ pc = "request" /\ ask[conn] # "none" => input[conn] # <<>>

ServerInv == TypeOK /\ NoOrphan /\ Came /\ Lines /\ (conn \in Clients => InHand) /\ RightReply

-----------------------------------------------------------------------------
LEMMA ServerInitInv == Init => ServerInv
<1> SUFFICES ASSUME Init PROVE ServerInv
  OBVIOUS
<1>1. <<>> \in Seq(Clients) /\ <<>> \in Seq(LineKinds)
  BY EmptySeq
<1>2. TypeOK
  BY <1>1, ServerAssumption DEF Init, TypeOK, Targets
<1>3. NoOrphan /\ Came /\ Lines /\ (conn \in Clients => InHand) /\ RightReply
  BY DEF Init, NoOrphan, Came, Lines, InHand, RightReply
<1> QED
  BY <1>2, <1>3 DEF ServerInv

(* The clients: each step is about one of them. *)
LEMMA ConnectStep ==
    ASSUME ServerInv, NEW c \in Clients, Connect(c)
    PROVE  ServerInv'
<1> USE DEF ServerInv, serverVars, sending, Connect
<1>1. queue' \in Seq(Clients)
  BY DEF TypeOK
<1>2. TypeOK'
  BY <1>1 DEF TypeOK
<1>3. Came'
  BY DEF TypeOK, Came
<1>4. NoOrphan' /\ Lines'
  BY DEF TypeOK, NoOrphan, Lines
<1>5. (conn \in Clients => InHand)'
  BY DEF TypeOK, InHand, Came, Over
<1>6. RightReply'
  BY DEF TypeOK, Came, RightReply, Status
<1> QED
  BY <1>2, <1>3, <1>4, <1>5, <1>6

(* A client ends its connection. *)
LEMMA EndsStep ==
    ASSUME ServerInv, NEW c \in Clients, NEW how \in {"closed", "reset"},
           end[c] # "absent", Ends(c, how)
    PROVE  ServerInv'
<1> USE DEF ServerInv, serverVars, sending, Ends
<1>1. TypeOK'
  BY DEF TypeOK
<1>2. Came' /\ NoOrphan' /\ Lines'
  BY DEF TypeOK, Came, NoOrphan, Lines
<1>3. (conn \in Clients => InHand)' /\ RightReply'
  BY DEF TypeOK, InHand, RightReply, Status
<1> QED
  BY <1>1, <1>2, <1>3

(* A client that finds no server. *)
LEMMA RefusedStep ==
    ASSUME ServerInv, NEW c \in Clients, Refused(c)
    PROVE  ServerInv'
<1> USE DEF ServerInv, serverVars, sending, Refused, Ends
<1>1. TypeOK'
  BY DEF TypeOK
<1>2. Came' /\ NoOrphan' /\ Lines'
  BY DEF TypeOK, Came, NoOrphan, Lines
<1>3. (conn \in Clients => InHand)' /\ RightReply'
  BY DEF TypeOK, InHand, RightReply, Status
<1> QED
  BY <1>1, <1>2, <1>3

LEMMA ClientStep ==
    ASSUME ServerInv, NEW c \in Clients \ Programs, Client(c)
    PROVE  ServerInv'
<1> USE DEF ServerInv, serverVars
<1>2. ASSUME NEW line \in LineKinds, Send(c, line),
             ask' \in [Clients -> Targets \cup {"none", "garbled"}],
             headers' \in [Clients -> 0..MaxHeaders], whole' \in SUBSET Clients,
             \A d \in Clients : ask'[d] = ask[d] \/ (d = c /\ ask[c] = "none"),
             ask'[c] # "none", whole \subseteq whole', line = "empty" => c \in whole'
      PROVE  ServerInv'
  <2> USE <1>2 DEF Send
  <2>1. TypeOK'
    <3>1. input' \in [Clients -> Seq(LineKinds)]
      BY DEF TypeOK
    <3> QED
      BY <3>1 DEF TypeOK
  <2>2. Came' /\ NoOrphan'
    BY DEF TypeOK, Came, NoOrphan
  <2>3. Lines'
    <3> SUFFICES ASSUME NEW d \in Clients
                 PROVE  /\ input'[d] # <<>> => ask'[d] # "none"
                        /\ d \notin long' => \A i \in 1..Len(input'[d]) :
                              /\ input'[d][i] # "long"
                              /\ input'[d][i] = "empty" => d \in whole' /\ i = Len(input'[d])
      BY DEF Lines
    <3>1. CASE d # c
      BY <3>1 DEF TypeOK, Lines
    <3>2. CASE d = c
      <4>1. input'[c] = Append(input[c], line) /\ input[c] \in Seq(LineKinds) /\ c \notin whole
        BY DEF TypeOK
      <4>2. /\ Len(input[c]) \in Nat /\ Len(Append(input[c], line)) = Len(input[c]) + 1
            /\ \A i \in 1..Len(input[c]) : Append(input[c], line)[i] = input[c][i]
            /\ Append(input[c], line)[Len(input[c]) + 1] = line
        BY <4>1
      <4>3. c \notin long' => c \notin long /\ line # "long"
        OBVIOUS
      <4>4. ASSUME NEW i \in 1..Len(input'[d])
            PROVE  \/ i \in 1..Len(input[c]) /\ input'[d][i] = input[c][i]
                   \/ i = Len(input'[d]) /\ input'[d][i] = line
        BY <3>2, <4>1, <4>2
      <4>5. \A i \in 1..Len(input[c]) :
                c \notin long => input[c][i] # "long" /\ input[c][i] # "empty"
        BY <4>1 DEF Lines
      <4> QED
        BY <3>2, <4>3, <4>4, <4>5
    <3> QED
      BY <3>1, <3>2
  <2>4. (conn \in Clients => InHand)'
    <3>1. ask[c] = "none" => "none" \notin Targets
      BY DEF Targets
    <3>2. conn = c => end[conn] = "open" /\ conn \notin whole \cup half
      OBVIOUS
    <3>3. conn # c /\ conn \in Clients =>
              input'[conn] = input[conn] /\ (conn \in long' <=> conn \in long) /\ ask'[conn] = ask[conn]
      BY DEF TypeOK
    <3>4. conn = c => (conn \notin long' => conn \notin long)
      OBVIOUS
    <3>5. whole \subseteq whole' /\ UNCHANGED <<end, pc, target, conn, half>>
      OBVIOUS
    <3>6. CASE conn = c
      BY <3>1, <3>2, <3>4, <3>5, <3>6 DEF InHand
    <3>7. CASE conn # c
      BY <3>3, <3>5, <3>7 DEF InHand
    <3> QED
      BY <3>6, <3>7
  <2>5. RightReply'
    <3> SUFFICES ASSUME NEW d \in Clients, (end[d] = "open" /\ reply[d] # 0) \/ end[d] = "shut"
                 PROVE  /\ ask'[d] \in Targets => reply[d] = Status(ask'[d])
                        /\ reply[d] # 0 /\ (ask'[d] = "none" => d \in half)
                        /\ reply[d] # 501 /\ d \notin long' =>
                              input'[d] = <<>> /\ d \in whole' \cup half
      BY DEF RightReply, Status
    <3>1. d # c
      OBVIOUS
    <3>2. input'[d] = input[d] /\ ask'[d] = ask[d] /\ (d \in long' <=> d \in long)
      BY <3>1 DEF TypeOK
    <3> QED
      BY <3>2 DEF RightReply
  <2> QED
    BY <2>1, <2>2, <2>3, <2>4, <2>5
<1>3. CASE SendRequest(c)
  <2> USE <1>3 DEF SendRequest
  <2>1. PICK t \in Targets \cup {"garbled"} : ask' = [ask EXCEPT ![c] = t]
    OBVIOUS
  <2>2. t # "none"
    BY DEF Targets
  <2>3. PICK line \in Lengths : Send(c, line)
    OBVIOUS
  <2>4. line \in LineKinds /\ line # "empty"
    BY DEF Lengths, LineKinds
  <2> QED
    BY <1>2, <2>1, <2>2, <2>3, <2>4 DEF TypeOK
<1>4. CASE SendHeader(c)
  <2>1. PICK line \in Lengths : Send(c, line)
    BY <1>4 DEF SendHeader
  <2>2. line \in LineKinds /\ line # "empty"
    BY DEF Lengths, LineKinds
  <2>3. /\ ask' = ask /\ whole' = whole /\ ask[c] # "none"
        /\ headers' \in [Clients -> 0..MaxHeaders]
    BY <1>4, ServerAssumption DEF SendHeader, TypeOK
  <2>4. /\ ask' \in [Clients -> Targets \cup {"none", "garbled"}] /\ whole' \in SUBSET Clients
        /\ \A d \in Clients : ask'[d] = ask[d]
    BY <2>3 DEF TypeOK
  <2> QED
    BY <1>2, <2>1, <2>2, <2>3, <2>4
<1>5. CASE SendEmpty(c)
  <2>1. "empty" \in LineKinds
    BY DEF LineKinds
  <2>2. /\ Send(c, "empty") /\ ask' = ask /\ headers' = headers /\ ask[c] # "none"
        /\ whole' = whole \cup {c}
    BY <1>5 DEF SendEmpty
  <2>3. /\ ask' \in [Clients -> Targets \cup {"none", "garbled"}] /\ whole' \in SUBSET Clients
        /\ headers' \in [Clients -> 0..MaxHeaders] /\ \A d \in Clients : ask'[d] = ask[d]
    BY <2>2 DEF TypeOK
  <2> QED
    BY <1>2, <2>1, <2>2, <2>3
<1>6. CASE Leave(c)
  <2>1. PICK how \in {"closed", "reset"} : Ends(c, how)
    BY <1>6 DEF Leave
  <2> QED
    BY <1>6, <2>1, EndsStep DEF Leave
<1>7. CASE HalfClose(c)
  <2> USE <1>7 DEF HalfClose
  <2>1. TypeOK'
    BY DEF TypeOK
  <2>2. Came' /\ NoOrphan' /\ Lines'
    BY DEF TypeOK, Came, NoOrphan, Lines
  <2>3. (conn \in Clients => InHand)'
    BY DEF InHand
  <2>4. RightReply'
    BY DEF RightReply, Status
  <2> QED
    BY <2>1, <2>2, <2>3, <2>4
<1> QED
  BY <1>3, <1>4, <1>5, <1>6, <1>7 DEF Client

LEMMA ExceptTyped ==
    ASSUME NEW S, NEW T, NEW f \in [S -> T], NEW x \in S, NEW v \in T
    PROVE  [f EXCEPT ![x] = v] \in [S -> T]
  OBVIOUS

(* client.c, whose request is written at once. *)
LEMMA ProgramStep ==
    ASSUME ServerInv, NEW c \in Programs, Program(c)
    PROVE  ServerInv'
<1>0. c \in Clients /\ (ServerInv => c \notin half)
  BY ServerAssumption DEF ServerInv, TypeOK
<1>1. CASE clientSend(c)
  <2> DEFINE all == <<"text", "text", "empty">>
  <2> USE <1>0, <1>1 DEF clientSend, ServerInv, serverVars
  <2>1. PICK t \in Targets : ask' = [ask EXCEPT ![c] = t]
    OBVIOUS
  <2>2. t # "none" /\ "none" \notin Targets
    BY DEF Targets
  <2>3. /\ all \in Seq(LineKinds) /\ Len(all) = 3
        /\ all[1] = "text" /\ all[2] = "text" /\ all[3] = "empty"
    BY DEF LineKinds, Lengths
  <2>4. input' = [input EXCEPT ![c] = all]
    OBVIOUS
  <2>5. ~(pc \in {"headers", "answer"} /\ conn = c) /\ reply[c] = 0
    <3>1. c \notin half /\ end[c] = "open" /\ ask[c] = "none"
      OBVIOUS
    <3>2. pc \in {"headers", "answer"} /\ conn = c => c \in half
      BY <3>1 DEF InHand
    <3>3. reply[c] # 0 => c \in half
      BY <3>1 DEF RightReply
    <3> QED
      BY <3>1, <3>2, <3>3
  <2> HIDE DEF all
  <2>6. TypeOK'
    <3>0. input \in [Clients -> Seq(LineKinds)] /\ c \in Clients
      BY DEF TypeOK
    <3>1. input' \in [Clients -> Seq(LineKinds)]
      BY <2>3, <2>4, <3>0, ExceptTyped, Zenon
    <3>2. 1 \in 0..MaxHeaders
      BY ServerAssumption
    <3> QED
      BY <2>1, <3>1, <3>2 DEF TypeOK
  <2>7. Came' /\ NoOrphan'
    BY DEF TypeOK, Came, NoOrphan
  <2>8. Lines'
    <3> SUFFICES ASSUME NEW d \in Clients
                 PROVE  /\ input'[d] # <<>> => ask'[d] # "none"
                        /\ d \notin long => \A i \in 1..Len(input'[d]) :
                              /\ input'[d][i] # "long"
                              /\ input'[d][i] = "empty" => d \in whole' /\ i = Len(input'[d])
      BY DEF Lines
    <3>1. CASE d # c
      BY <2>1, <3>1 DEF TypeOK, Lines
    <3>2. CASE d = c
      <4>1. input'[d] = all /\ ask'[d] = t /\ d \in whole'
        BY <2>1, <2>4, <3>2 DEF TypeOK
      <4>2. \A i \in 1..Len(all) : all[i] # "long" /\ (all[i] = "empty" => i = Len(all))
        BY <2>3
      <4> QED
        BY <2>2, <4>1, <4>2
    <3> QED
      BY <3>1, <3>2
  <2>9. (conn \in Clients => InHand)'
    <3>1. CASE conn = c
      BY <2>5, <3>1 DEF InHand
    <3>2. CASE conn # c
      <4>1. conn \in Clients => input'[conn] = input[conn] /\ ask'[conn] = ask[conn]
        BY <2>1, <3>2 DEF TypeOK
      <4> QED
        BY <4>1 DEF InHand
    <3> QED
      BY <3>1, <3>2
  <2>10. RightReply'
    <3> SUFFICES ASSUME NEW d \in Clients, (end[d] = "open" /\ reply[d] # 0) \/ end[d] = "shut"
                 PROVE  /\ ask'[d] \in Targets => reply[d] = Status(ask'[d])
                        /\ reply[d] # 0 /\ (ask'[d] = "none" => d \in half)
                        /\ reply[d] # 501 /\ d \notin long =>
                              input'[d] = <<>> /\ d \in whole' \cup half
      BY DEF RightReply, Status
    <3>1. d # c
      BY <2>5
    <3>2. ask'[d] = ask[d] /\ input'[d] = input[d]
      BY <2>1, <2>4, <3>1 DEF TypeOK
    <3> QED
      BY <3>2 DEF RightReply
  <2> QED
    BY <2>6, <2>7, <2>8, <2>9, <2>10
<1>2. CASE Nameless(c)
  BY <1>0, <1>2, EndsStep DEF Nameless
<1>3. CASE clientPrint(c)
  BY <1>0, <1>3, EndsStep DEF clientPrint
<1>4. CASE Refused(c)
  BY <1>0, <1>4, RefusedStep
<1> QED
  BY <1>1, <1>2, <1>3, <1>4 DEF Program

(* The first element of a sequence, and the rest.                          *)
LEMMA FirstOf ==
    ASSUME NEW S, NEW s \in Seq(S), s # <<>>
    PROVE  /\ Head(s) = s[1] /\ Head(s) \in S /\ Tail(s) \in Seq(S)
           /\ 1 \in 1..Len(s) /\ (Len(s) = 1 => Tail(s) = <<>>)
           /\ \A i \in 1..Len(Tail(s)) :
                 /\ i + 1 \in 1..Len(s) /\ Tail(s)[i] = s[i + 1]
                 /\ i + 1 = Len(s) => i = Len(Tail(s))
<1>1. PICK n \in Nat \ {0} : n = Len(s)
  BY EmptySeq
<1>2. Len(Tail(s)) = n - 1 /\ \A i \in 1..Len(Tail(s)) : Tail(s)[i] = s[i + 1]
  BY <1>1, HeadTailProperties
<1>3. Head(s) = s[1] /\ Head(s) \in S /\ Tail(s) \in Seq(S)
  BY HeadTailProperties
<1>4. n = 1 => Tail(s) = <<>>
  <2>1. SUFFICES ASSUME n = 1 PROVE Len(Tail(s)) \notin Nat \ {0}
    BY <1>3, EmptySeq
  <2> QED
    BY <1>2, <2>1
<1>5. ASSUME NEW i \in 1..Len(Tail(s))
      PROVE  i + 1 \in 1..n /\ Tail(s)[i] = s[i + 1] /\ (i + 1 = n => i = Len(Tail(s)))
  <2>1. Len(Tail(s)) = n - 1 /\ i \in 1..(n - 1)
    BY <1>2
  <2>2. i + 1 \in 1..n /\ (i + 1 = n => i = n - 1)
    BY <2>1
  <2> QED
    BY <1>2, <2>1, <2>2
<1>6. 1 \in 1..n
  OBVIOUS
<1> QED
  BY <1>1, <1>3, <1>4, <1>5, <1>6

(* The first line of the input is taken, or the part of it that fits. *)
LEMMA Taken ==
    ASSUME ServerInv, conn \in Clients, Line, Take
    PROVE  /\ input' \in [Clients -> Seq(LineKinds)]
           /\ Lines'
           /\ \A d \in Clients \ {conn} : input'[d] = input[d]
           /\ ask[conn] \in Targets \cup {"garbled"}
           /\ conn \notin long /\ Head(input[conn]) = "empty" =>
                 input'[conn] = <<>> /\ conn \in whole
           /\ conn \notin long => input[conn] # <<>>
<1> USE DEF ServerInv, TypeOK, Line, Take
<1> DEFINE line == Head(input[conn])
<1>1. input[conn] \in Seq(LineKinds) /\ input[conn] # <<>>
  OBVIOUS
<1>2. PICK rest \in Rests(line) : input' = [input EXCEPT ![conn] = rest \o Tail(@)]
  OBVIOUS
<1>3. /\ line = input[conn][1] /\ line \in LineKinds /\ Tail(input[conn]) \in Seq(LineKinds)
      /\ 1 \in 1..Len(input[conn]) /\ (Len(input[conn]) = 1 => Tail(input[conn]) = <<>>)
      /\ \A i \in 1..Len(Tail(input[conn])) :
            /\ i + 1 \in 1..Len(input[conn]) /\ Tail(input[conn])[i] = input[conn][i + 1]
            /\ i + 1 = Len(input[conn]) => i = Len(Tail(input[conn]))
  BY <1>1, FirstOf
<1>4. rest \in Seq(LineKinds) /\ (line # "long" => rest = <<>>)
  <2>1. "text" \in LineKinds /\ "empty" \in LineKinds
    BY DEF LineKinds, Lengths
  <2>2. <<"text">> \in Seq(LineKinds) /\ <<"empty">> \in Seq(LineKinds) /\ <<>> \in Seq(LineKinds)
    BY <2>1
  <2> QED
    BY <2>2 DEF Rests
<1>5. rest \o Tail(input[conn]) \in Seq(LineKinds)
  BY <1>3, <1>4, ConcatProperties
<1>6. input' \in [Clients -> Seq(LineKinds)]
  BY <1>2, <1>5
<1>7. ask[conn] # "none"
  BY <1>1 DEF Lines
<1>8. conn \notin long => line # "long" /\ input'[conn] = Tail(input[conn])
  <2> SUFFICES ASSUME conn \notin long PROVE line # "long" /\ input'[conn] = Tail(input[conn])
    OBVIOUS
  <2>1. line # "long"
    BY <1>3 DEF Lines
  <2>2. <<>> \o Tail(input[conn]) = Tail(input[conn])
    BY <1>3
  <2> QED
    BY <1>2, <1>4, <2>1, <2>2
<1>9. Lines'
  <2> HIDE DEF TypeOK, Line, Take, line
  <2>1. ASSUME NEW d \in Clients, d # conn
        PROVE  input'[d] = input[d]
    BY <1>2, <2>1 DEF TypeOK
  <2>2. conn \notin long => \A i \in 1..Len(input[conn]) :
            /\ input[conn][i] # "long"
            /\ input[conn][i] = "empty" => conn \in whole /\ i = Len(input[conn])
    BY DEF Lines
  <2>3. conn \notin long => \A i \in 1..Len(input'[conn]) :
            /\ input'[conn][i] # "long"
            /\ input'[conn][i] = "empty" => conn \in whole /\ i = Len(input'[conn])
    BY <1>3, <1>8, <2>2
  <2>4. UNCHANGED <<ask, whole, long>>
    BY DEF Take
  <2> QED
    BY <1>7, <2>1, <2>3, <2>4 DEF Lines
<1>10. conn \notin long /\ line = "empty" => input'[conn] = <<>> /\ conn \in whole
  <2> HIDE DEF TypeOK, Line, Take
  <2> SUFFICES ASSUME conn \notin long, line = "empty"
               PROVE  input'[conn] = <<>> /\ conn \in whole
    OBVIOUS
  <2>1. conn \in whole /\ 1 = Len(input[conn])
    BY <1>3 DEF Lines
  <2> QED
    BY <1>3, <1>8, <2>1
<1> QED
  BY <1>1, <1>2, <1>6, <1>7, <1>9, <1>10

(* The program ends with nothing in hand. *)
LEMMA EndOfServer ==
    ASSUME ServerInv, Exit \/ Fail, pc # "wait"
    PROVE  ServerInv'
<1> USE DEF Exit, Fail, clientVars, sending, ServerInv
<1>1. TypeOK'
  BY DEF TypeOK
<1>2. Came' /\ NoOrphan' /\ Lines'
  BY DEF TypeOK, Came, NoOrphan, Lines
<1>3. (conn \in Clients => InHand)' /\ RightReply'
  BY DEF TypeOK, InHand, RightReply, Status
<1> QED
  BY <1>1, <1>2, <1>3

(* An answer is written. *)
LEMMA WrittenStep ==
    ASSUME ServerInv, pc = "answer", Written, pc' \in {"wait", "close", "failed"},
           child' = child \/ (child' = "running" /\ pc' = "wait" /\ target = "cgi")
    PROVE  ServerInv'
<1> USE DEF ServerInv, Written, clientVars, sending
<1>1. conn \in Clients
  BY DEF Came
<1>2. Status(target) \in {200, 403, 404, 501} /\ (Status(target) # 501 => target # "post")
  BY DEF Status
<1>3. TypeOK'
  <2>1. child' \in {"none", "running", "zombie"} /\ pc' \in {"wait", "close", "failed"}
    BY DEF TypeOK
  <2>2. reply' \in [Clients -> {0, 200, 403, 404, 501}]
    BY <1>1, <1>2 DEF TypeOK
  <2> QED
    BY <2>1, <2>2 DEF TypeOK
<1>4. Came' /\ NoOrphan' /\ Lines'
  BY <1>1, <1>2 DEF TypeOK, Came, NoOrphan, Lines
<1>5. InHand'
  BY DEF TypeOK, InHand
<1>6. RightReply'
  <2> SUFFICES ASSUME NEW c \in Clients, (end[c] = "open" /\ reply'[c] # 0) \/ end[c] = "shut"
               PROVE  /\ ask[c] \in Targets => reply'[c] = Status(ask[c])
                      /\ reply'[c] # 0 /\ (ask[c] = "none" => c \in half)
                      /\ reply'[c] # 501 /\ c \notin long =>
                            input[c] = <<>> /\ c \in whole \cup half
    BY DEF RightReply, Status
  <2>1. CASE c = conn
    <3>1. reply'[c] = Status(target) /\ (ask[c] \in Targets => target = ask[c])
      BY <1>1, <2>1 DEF TypeOK, InHand
    <3> QED
      BY <1>1, <1>2, <2>1, <3>1 DEF InHand
  <2>2. CASE c # conn
    BY <2>2 DEF TypeOK, RightReply
  <2> QED
    BY <2>1, <2>2
<1> QED
  BY <1>1, <1>3, <1>4, <1>5, <1>6

LEMMA AnswerStep ==
    ASSUME ServerInv, Answer
    PROVE  ServerInv'
<1>1. pc = "answer" /\ Written /\ pc' \in {"wait", "close"}
  BY DEF Answer, requestError, requestServeStatic, requestServeDynamic, Awaited
<1>2. child' = child \/ (child' = "running" /\ pc' = "wait" /\ target = "cgi")
  BY DEF Answer, requestError, requestServeStatic, requestServeDynamic, Awaited
<1> QED
  BY <1>1, <1>2, WrittenStep

LEMMA ServerStep == ServerInv /\ Queued /\ Server => ServerInv'
<1> SUFFICES ASSUME ServerInv, Queued, Server PROVE ServerInv'
  OBVIOUS
<1> USE DEF ServerInv
<1>1. CASE Accept
  <2> USE <1>1 DEF Accept, sending
  <2>1. /\ Head(queue) \in Clients /\ Head(queue) = queue[1] /\ 1 \in 1..Len(queue)
        /\ Tail(queue) \in Seq(Clients) /\ Len(Tail(queue)) = Len(queue) - 1
        /\ Len(queue) \in Nat
        /\ \A i \in 1..Len(Tail(queue)) : Tail(queue)[i] = queue[i + 1]
    BY HeadTailProperties, LenProperties, EmptySeq DEF TypeOK
  <2>2. TypeOK'
    BY <2>1 DEF TypeOK
  <2>3. Came'
    BY <2>1 DEF TypeOK, Came
  <2>4. NoOrphan' /\ Lines' /\ InHand' /\ RightReply'
    BY DEF TypeOK, NoOrphan, Lines, InHand, RightReply, Status
  <2> QED
    BY <2>2, <2>3, <2>4
<1>2. CASE ReadRequest
  <2> USE <1>2 DEF ReadRequest, Handle
  <2>1. conn \in Clients
    BY DEF Came
  <2>2. /\ input' \in [Clients -> Seq(LineKinds)] /\ Lines'
        /\ \A d \in Clients \ {conn} : input'[d] = input[d]
        /\ ask[conn] \in Targets \cup {"garbled"} /\ (conn \notin long => input[conn] # <<>>)
    BY <2>1, Taken
  <2>3. PICK t \in Parsed : Handle(t)
    OBVIOUS
  <2>4. t \in Targets /\ (ask[conn] \in Targets => t = ask[conn]) /\ ask[conn] # "none"
    BY <2>2, <2>3 DEF Parsed, Targets
  <2>5. TypeOK'
    BY <2>1, <2>2, <2>3, <2>4 DEF TypeOK, Take
  <2>6. Came' /\ NoOrphan'
    BY <2>3 DEF TypeOK, Came, NoOrphan, Take
  <2>7. InHand'
    <3>1. t = "post" => (pc' = "answer" /\ target' = "post")
      BY <2>3
    <3>2. t # "post" => (pc' = "headers" /\ target' = t)
      BY <2>3
    <3> QED
      BY <2>3, <2>4, <3>1, <3>2 DEF InHand, Take
  <2>8. RightReply'
    BY <2>1, <2>2 DEF RightReply, Status, Take
  <2> QED
    BY <2>2, <2>3, <2>5, <2>6, <2>7, <2>8
<1>3. CASE ReadNoRequest
  <2> USE <1>3 DEF ReadNoRequest, NoMore, Handle, clientVars, sending
  <2>1. PICK t \in Targets : Handle(t)
    OBVIOUS
  <2>2. TypeOK'
    BY <2>1 DEF TypeOK
  <2>3. Came' /\ NoOrphan' /\ Lines'
    BY <2>1 DEF TypeOK, Came, NoOrphan, Lines
  <2>4. ask[conn] = "none"
    BY DEF Queued
  <2>5. InHand' /\ RightReply'
    <3>1. "none" \notin Targets /\ UNCHANGED <<ask, input, half, long, whole, end, conn, reply>>
      BY DEF Targets
    <3>2. end[conn] \in {"open", "shut"} => conn \in half
      OBVIOUS
    <3>3. pc' = (IF t = "post" THEN "answer" ELSE "headers") /\ target' = t
      BY <2>1
    <3> QED
      BY <2>4, <3>1, <3>2, <3>3 DEF TypeOK, InHand, RightReply, Status
  <2> QED
    BY <2>2, <2>3, <2>5
<1>4. CASE ReadHeader
  <2> USE <1>4 DEF ReadHeader
  <2>1. conn \in Clients
    BY DEF Came
  <2>2. /\ input' \in [Clients -> Seq(LineKinds)] /\ Lines'
        /\ \A d \in Clients \ {conn} : input'[d] = input[d]
        /\ conn \notin long => input[conn] # <<>>
        /\ conn \notin long /\ Head(input[conn]) = "empty" => input'[conn] = <<>> /\ conn \in whole
    BY <2>1, Taken
  <2>3. TypeOK'
    BY <2>1, <2>2 DEF TypeOK, Take, AfterHeader
  <2>4. Came' /\ NoOrphan'
    BY DEF TypeOK, Came, NoOrphan, Take, AfterHeader
  <2>5. InHand'
    <3>1. /\ conn' = conn /\ end' = end /\ ask' = ask /\ target' = target /\ whole' = whole
          /\ half' = half /\ long' = long
      BY DEF Take
    <3>2. pc' \in {"headers", "answer"} /\ (pc' = "answer" => Head(input[conn]) = "empty")
      BY DEF AfterHeader
    <3> QED
      BY <2>1, <2>2, <3>1, <3>2 DEF InHand
  <2>6. RightReply'
    BY <2>1, <2>2 DEF RightReply, Status, Take
  <2> QED
    BY <2>2, <2>3, <2>4, <2>5, <2>6
<1>5. CASE ReadNoHeader
  <2> USE <1>5 DEF ReadNoHeader, NoMore, AfterHeader, clientVars, sending
  <2>1. TypeOK'
    BY DEF TypeOK
  <2>2. Came' /\ NoOrphan'
    BY DEF Came, NoOrphan
  <2>3. Lines'
    BY DEF Lines
  <2>4. InHand' /\ RightReply'
    BY DEF TypeOK, InHand, RightReply, Status
  <2> QED
    BY <2>1, <2>2, <2>3, <2>4
<1>6. CASE ReadFails \/ WriteFails \/ MmapFails
  BY <1>6, EndOfServer DEF ReadFails, WriteFails, MmapFails
<1>7. CASE Answer
  BY <1>7, AnswerStep
<1>8. CASE Wait
  <2> USE <1>8 DEF Wait, clientVars, sending
  <2>1. TypeOK'
    BY DEF TypeOK
  <2>2. Came' /\ NoOrphan' /\ Lines'
    BY DEF TypeOK, Came, NoOrphan, Lines
  <2>3. (conn \in Clients => InHand)' /\ RightReply'
    BY DEF TypeOK, InHand, RightReply, Status
  <2> QED
    BY <2>1, <2>2, <2>3
<1>9. CASE Close
  <2> USE <1>9 DEF Close, Shut, sending
  <2>1. conn \in Clients /\ end[conn] # "absent" /\ reply[conn] # 0
    BY DEF Came
  <2>2. TypeOK'
    BY <2>1 DEF TypeOK
  <2>3. Came' /\ NoOrphan' /\ Lines'
    BY <2>1 DEF TypeOK, Came, NoOrphan, Lines
  <2>4. (conn \in Clients => InHand)'
    BY DEF InHand
  <2>5. RightReply'
    BY <2>1 DEF TypeOK, RightReply, Status
  <2> QED
    BY <2>2, <2>3, <2>4, <2>5
<1>10. CASE open_listenfd
  <2> USE <1>10 DEF open_listenfd, clientVars, sending
  <2>1. TypeOK'
    BY DEF TypeOK
  <2>2. Came' /\ NoOrphan' /\ Lines'
    BY DEF TypeOK, Came, NoOrphan, Lines
  <2>3. (conn \in Clients => InHand)' /\ RightReply'
    BY DEF TypeOK, InHand, RightReply, Status
  <2> QED
    BY <2>1, <2>2, <2>3
<1> QED
  BY <1>1, <1>2, <1>3, <1>4, <1>5, <1>6, <1>7, <1>8, <1>9, <1>10 DEF Server

LEMMA KernelStep == ServerInv /\ Kernel => ServerInv'
<1> SUFFICES ASSUME ServerInv, Kernel PROVE ServerInv'
  OBVIOUS
<1>1. CASE ForkFails
  <2> USE <1>1 DEF ForkFails
  <2>1. pc' \in {"wait", "close", "failed"} /\ pc = "answer" /\ child' = child
    OBVIOUS
  <2> QED
    BY <2>1, WrittenStep
<1> QED
  BY <1>1, EndOfServer DEF Kernel, ListenFails, AcceptFails, OpenFails, CloseFails

LEMMA QueuedStep ==
    ASSUME ServerInv, Queued, [Next]_vars
    PROVE  Queued'
<1>0. TypeOK /\ Came /\ (\A i \in 1..Len(queue) : queue[i] \in Clients)
  BY DEF ServerInv, TypeOK
<1>1. ASSUME UNCHANGED <<queue, ask, input>>,
             \A c \in Clients : end'[c] = "absent" => end[c] = "absent",
             \/ pc' \in Free
             \/ conn' = conn /\ pc \notin Free /\ (pc' = "request" => pc = "request")
      PROVE  Queued'
  BY <1>1 DEF Queued, Free
<1>2. ASSUME NEW c \in Clients, Connect(c) PROVE Queued'
  <2>1. /\ queue' = Append(queue, c) /\ UNCHANGED <<ask, input, pc, conn>>
        /\ end[c] = "absent" /\ end' = [end EXCEPT ![c] = "open"]
    BY <1>2 DEF Connect, sending, serverVars
  <2>2. /\ Len(queue') = Len(queue) + 1 /\ Len(queue) \in Nat
        /\ \A i \in 1..Len(queue) : queue'[i] = queue[i]
        /\ queue'[Len(queue) + 1] = c
    BY <1>0, <2>1 DEF TypeOK
  <2>3. \A i \in 1..Len(queue') :
            \/ i \in 1..Len(queue) /\ queue'[i] = queue[i] /\ queue[i] # c
            \/ i = Len(queue) + 1 /\ queue'[i] = c
    BY <1>0, <2>1, <2>2 DEF Came
  <2>4. ask[c] = "none"
    BY <2>1 DEF Queued
  <2>5. pc \notin Free => conn # c
    BY <1>0, <2>1 DEF Came, Free
  <2>6. \A d \in Clients : end'[d] = "absent" => end[d] = "absent"
    BY <1>0, <2>1 DEF TypeOK
  <2> QED
    BY <2>1, <2>2, <2>3, <2>4, <2>5, <2>6 DEF Queued, Free
<1>3. ASSUME Accept PROVE Queued'
  <2>1. /\ queue # <<>> /\ conn' = Head(queue) /\ queue' = Tail(queue)
        /\ UNCHANGED <<ask, input, end>>
    BY <1>3 DEF Accept, sending
  <2>2. /\ Head(queue) = queue[1] /\ 1 \in 1..Len(queue)
        /\ \A i \in 1..Len(queue') : i + 1 \in 1..Len(queue) /\ queue'[i] = queue[i + 1]
    BY <1>0, <2>1, FirstOf DEF TypeOK
  <2>3. \A i, j \in 1..Len(queue') : i + 1 = j + 1 => i = j
    OBVIOUS
  <2>4. \A i \in 1..Len(queue') : i + 1 # 1
    OBVIOUS
  <2> QED
    BY <2>1, <2>2, <2>3, <2>4 DEF Queued
<1>4. ASSUME Take, conn' = conn, pc \notin Free, pc' # "request" PROVE Queued'
  <2>1. UNCHANGED <<queue, ask, end>>
    BY <1>4 DEF Take
  <2>2. \A d \in Clients : d # conn => input'[d] = input[d]
    BY <1>0, <1>4 DEF Take, TypeOK
  <2> QED
    BY <1>0, <1>4, <2>1, <2>2 DEF Queued, Free
<1>5. ASSUME NEW c \in Clients, UNCHANGED <<queue, pc, conn, end>>, end[c] = "open",
             \A d \in Clients : d # c => ask'[d] = ask[d] /\ input'[d] = input[d],
             input'[c] # <<>>
      PROVE  Queued'
  <2>1. pc = "request" => conn \in Clients
    BY <1>0 DEF Came
  <2> QED
    BY <1>0, <1>5, <2>1 DEF Queued
<1>6. ASSUME NEW c \in Clients, NEW line, Send(c, line),
             \A d \in Clients : d # c => ask'[d] = ask[d]
      PROVE  Queued'
  <2>1. input[c] \in Seq(LineKinds) /\ input' = [input EXCEPT ![c] = Append(@, line)]
    BY <1>0, <1>6 DEF Send, TypeOK
  <2>2. /\ input'[c] = Append(input[c], line)
        /\ \A d \in Clients : d # c => input'[d] = input[d]
    BY <1>0, <2>1 DEF TypeOK
  <2>3. Append(input[c], line) # <<>>
    BY <2>1
  <2> QED
    BY <1>5, <1>6, <2>2, <2>3 DEF Send, serverVars
<1>7. ASSUME NEW c \in Clients, NEW how \in {"closed", "reset"}, Ends(c, how) PROVE Queued'
  <2>1. UNCHANGED <<queue, ask, input, pc, conn>> /\ end' = [end EXCEPT ![c] = how]
    BY <1>7 DEF Ends, sending, serverVars
  <2>2. \A d \in Clients : end'[d] = "absent" => end[d] = "absent"
    BY <1>0, <2>1 DEF TypeOK
  <2> QED
    BY <2>1, <2>2 DEF Queued
<1>8. ASSUME NEW c \in Clients \ Programs, Client(c) PROVE Queued'
  <2>1. CASE SendRequest(c)
    <3>1. \A d \in Clients : d # c => ask'[d] = ask[d]
      BY <1>0, <2>1 DEF SendRequest, TypeOK
    <3> QED
      BY <1>6, <2>1, <3>1 DEF SendRequest
  <2>2. CASE SendHeader(c)
    BY <1>6, <2>2 DEF SendHeader
  <2>3. CASE SendEmpty(c)
    BY <1>6, <2>3 DEF SendEmpty
  <2>4. CASE HalfClose(c)
    BY <2>4 DEF HalfClose, serverVars, Queued
  <2>5. CASE Leave(c)
    BY <1>7, <2>5 DEF Leave
  <2> QED
    BY <1>8, <2>1, <2>2, <2>3, <2>4, <2>5 DEF Client
<1>9. ASSUME NEW c \in Programs, Program(c) PROVE Queued'
  <2>1. c \in Clients
    BY ServerAssumption
  <2>2. CASE clientSend(c)
    <3>1. PICK t \in Targets \ {"post"} : ask' = [ask EXCEPT ![c] = t]
      BY <2>2 DEF clientSend
    <3>2. /\ UNCHANGED <<queue, end, pc, conn>> /\ end[c] = "open"
          /\ input' = [input EXCEPT ![c] = <<"text", "text", "empty">>]
      BY <2>2 DEF clientSend, serverVars
    <3>3. /\ \A d \in Clients : d # c => ask'[d] = ask[d] /\ input'[d] = input[d]
          /\ input'[c] # <<>>
      BY <1>0, <2>1, <3>1, <3>2 DEF TypeOK
    <3> QED
      BY <1>5, <2>1, <3>2, <3>3
  <2> QED
    BY <1>7, <1>9, <2>1, <2>2 DEF Program, Refused, Nameless, clientPrint
<1>10. ASSUME Server PROVE Queued'
  <2>1. CASE ReadRequest \/ ReadHeader
    BY <1>4, <2>1 DEF ReadRequest, ReadHeader, Handle, AfterHeader, Free
  <2>2. CASE ReadNoRequest \/ ReadNoHeader
    BY <1>1, <2>2 DEF ReadNoRequest, ReadNoHeader, Handle, AfterHeader, Free, clientVars, sending
  <2>3. CASE Answer
    BY <1>1, <2>3 DEF Answer, requestError, requestServeStatic, requestServeDynamic, Written, Awaited,
                      Free, clientVars, sending
  <2>4. CASE open_listenfd \/ ReadFails \/ WriteFails \/ MmapFails \/ Wait
    BY <1>1, <2>4 DEF open_listenfd, ReadFails, WriteFails, MmapFails, Exit, Wait, Free, clientVars, sending
  <2>5. CASE Close
    <3>1. UNCHANGED <<queue, ask, input>> /\ pc' = "accept"
          /\ end' = [end EXCEPT ![conn] = Shut(conn)]
      BY <2>5 DEF Close, sending
    <3>2. \A d \in Clients : end'[d] = "absent" => end[d] = "absent"
      BY <1>0, <3>1 DEF TypeOK, Shut
    <3> QED
      BY <1>1, <3>1, <3>2 DEF Free
  <2> QED
    BY <1>3, <1>10, <2>1, <2>2, <2>3, <2>4, <2>5 DEF Server
<1>11. ASSUME Kernel \/ ChildEnds \/ UNCHANGED vars PROVE Queued'
  <2>1. CASE Kernel
    BY <1>1, <2>1 DEF Kernel, ListenFails, AcceptFails, OpenFails, ForkFails, CloseFails, Fail, Written,
                      Free, clientVars, sending
  <2>2. CASE ChildEnds \/ UNCHANGED vars
    BY <2>2 DEF ChildEnds, Queued, vars, clientVars, sending, serverVars
  <2> QED
    BY <1>11, <2>1, <2>2
<1> QED
  BY <1>2, <1>8, <1>9, <1>10, <1>11 DEF Next, Ended

LEMMA ServerInvHolds == Spec => []ServerInv
<1>1. Init => ServerInv /\ Queued
  <2>1. Init => Queued
    BY DEF Init, Queued, Free
  <2> QED
    BY <2>1, ServerInitInv
<1>2. ServerInv /\ Queued /\ [Next]_vars => ServerInv' /\ Queued'
  <2> SUFFICES ASSUME ServerInv, Queued, [Next]_vars PROVE ServerInv' /\ Queued'
    OBVIOUS
  <2>1. CASE ChildEnds
    <3> USE <2>1 DEF ChildEnds, clientVars, sending, ServerInv
    <3>1. TypeOK'
      BY DEF TypeOK
    <3>2. Came' /\ NoOrphan' /\ Lines'
      BY DEF TypeOK, Came, NoOrphan, Lines
    <3>3. (conn \in Clients => InHand)' /\ RightReply'
      BY DEF TypeOK, InHand, RightReply, Status
    <3> QED
      BY <3>1, <3>2, <3>3, QueuedStep
  <2>2. CASE UNCHANGED vars
    <3>1. ServerInv'
      BY <2>2 DEF vars, clientVars, sending, serverVars, ServerInv, TypeOK, Came, NoOrphan, Lines,
                  InHand, RightReply, Status
    <3> QED
      BY <3>1, QueuedStep
  <2> QED
    BY <2>1, <2>2, ConnectStep, ClientStep, ProgramStep, ServerStep, KernelStep, QueuedStep,
       ServerAssumption DEF Next, Ended
<1> QED
  BY <1>1, <1>2, PTL DEF Spec

(* The variables keep their types. *)
THEOREM ServerTypeCorrect == Spec => []TypeOK
  BY ServerInvHolds, PTL DEF ServerInv

(* A client that is still there has been answered what it asked for, and   *)
(* is not hung up on before.  A GET without a line that does not fit in    *)
(* the buffer of requestReadhdrs is answered when all of it has been read, *)
(* up to its empty line or to the end of what the client sends.            *)
THEOREM AnswersAreRight == Spec => []RightReply
  BY ServerInvHolds, PTL DEF ServerInv

(* A CGI process is gone before its connection is closed.                  *)
THEOREM ChildIsWaitedFor == Spec => []NoOrphan
  BY ServerInvHolds, PTL DEF ServerInv
=============================================================================
