------------------------------- MODULE Server -------------------------------
(***************************************************************************)
(* The web server of hw3/webserver-files: main of server.c listens and     *)
(* accepts one connection after the other; requestHandle of request.c      *)
(* reads a request line and headers up to an empty line, and answers.      *)
(* Some clients run client.c, which sends a request and reads the answer   *)
(* to its end; the others send lines of any length, may end their half of  *)
(* the connection and read on, and leave on their own.  Bytes arrive in    *)
(* order (Rio); the wrappers of segel.c end the program on any error.      *)
(***************************************************************************)
EXTENDS Integers, Sequences, FiniteSets

CONSTANTS
    Clients,
    Programs,   \* those of them that run client.c
    MaxHeaders  \* bound: header lines of a request

(* What a request asks for: a file, a file of no bytes, a CGI program,     *)
(* something that is not there or not permitted, or another method than    *)
(* GET.                                                                    *)
Targets == {"static", "blank", "cgi", "missing", "forbidden", "post"}

(* A line is "text", "empty" when it is nothing but its end, or "long"     *)
(* when it does not fit in MAXLINE bytes.                                  *)
Lengths == {"text", "long"}
LineKinds == Lengths \cup {"empty"}

ASSUME ServerAssumption == Programs \subseteq Clients /\ MaxHeaders \in Nat \ {0}

Nobody == "nobody"

VARIABLES
    queue,    \* connections not yet accepted
    ask,      \* what each client asks for, once it has sent its first line;
              \* "garbled" if no method or not a whole uri is in what fits
              \* of it in the buffer
    input,    \* the lines sent and not yet read by the server
    headers,  \* how many header lines a client has sent
    whole,    \* the clients that have sent their request to the empty line
    half,     \* those that have ended their half of the connection
    long,     \* history: those that have sent a long line
    end,      \* the client's end: "absent", "open", "shut" when the server
              \* has closed the connection, "closed" or "reset"
    reply,    \* the status a client has been answered, 0 before
    pc,       \* where the server is
    conn,     \* connfd: the client it serves
    buf,      \* the buffer of requestReadhdrs: "empty" if it holds "\r\n"
    target,   \* what the uri of requestHandle stands for
    child     \* the CGI process: "none", "running" or "zombie"

sending == <<ask, input, headers, whole, half, long>>
clientVars == <<queue, sending, end>>
serverVars == <<pc, conn, buf, target, child>>
vars == <<clientVars, serverVars, reply>>

TypeOK ==
    /\ queue \in Seq(Clients)
    /\ ask \in [Clients -> Targets \cup {"none", "garbled"}]
    /\ input \in [Clients -> Seq(LineKinds)]
    /\ headers \in [Clients -> 0..MaxHeaders]
    /\ whole \subseteq Clients /\ long \subseteq Clients
    /\ half \subseteq Clients \ Programs
    /\ end \in [Clients -> {"absent", "open", "shut", "closed", "reset"}]
    /\ reply \in [Clients -> {0, 200, 403, 404, 501}]
    /\ pc \in {"start", "accept", "request", "headers", "answer", "wait", "close",
               "exit", "failed"}
    /\ conn \in Clients \cup {Nobody}
    /\ buf \in {"text", "empty"}
    /\ target \in Targets
    /\ child \in {"none", "running", "zombie"}

Init ==
    /\ queue = <<>>
    /\ ask = [c \in Clients |-> "none"]
    /\ input = [c \in Clients |-> <<>>]
    /\ headers = [c \in Clients |-> 0]
    /\ whole = {} /\ half = {} /\ long = {}
    /\ end = [c \in Clients |-> "absent"]
    /\ reply = [c \in Clients |-> 0]
    /\ pc = "start" /\ conn = Nobody
    /\ buf = "empty" /\ target = "static"
    /\ child = "none"

-----------------------------------------------------------------------------
(* The clients. *)

Over == pc \in {"exit", "failed"}

Connect(c) ==
    /\ end[c] = "absent" /\ pc # "start" /\ ~Over
    /\ end' = [end EXCEPT ![c] = "open"]
    /\ queue' = Append(queue, c)
    /\ UNCHANGED <<sending, reply, serverVars>>

Send(c, line) ==
    /\ end[c] = "open" /\ reply[c] = 0 /\ c \notin whole \cup half
    /\ input' = [input EXCEPT ![c] = Append(@, line)]
    /\ long' = IF line = "long" THEN long \cup {c} ELSE long
    /\ UNCHANGED <<queue, half, end, reply, serverVars>>

SendRequest(c) ==
    /\ ask[c] = "none" /\ \E line \in Lengths : Send(c, line)
    /\ \E t \in Targets \cup {"garbled"} : ask' = [ask EXCEPT ![c] = t]
    /\ UNCHANGED <<headers, whole>>

SendHeader(c) ==
    /\ ask[c] # "none" /\ headers[c] < MaxHeaders /\ \E line \in Lengths : Send(c, line)
    /\ headers' = [headers EXCEPT ![c] = @ + 1]
    /\ UNCHANGED <<ask, whole>>

SendEmpty(c) ==
    /\ ask[c] # "none" /\ Send(c, "empty")
    /\ whole' = whole \cup {c}
    /\ UNCHANGED <<ask, headers>>

(* A client that sends no more, but reads. *)
HalfClose(c) ==
    /\ end[c] = "open" /\ c \notin half
    /\ half' = half \cup {c}
    /\ UNCHANGED <<queue, ask, input, headers, whole, long, end, reply, serverVars>>

Ends(c, how) == /\ end' = [end EXCEPT ![c] = how]
                /\ UNCHANGED <<queue, sending, reply, serverVars>>

(* A client closes the connection, or it breaks. *)
Leave(c) == end[c] \in {"open", "shut"} /\ \E how \in {"closed", "reset"} : Ends(c, how)

(* client.c writes its request, a GET with the one header "host", at once; *)
(* without a server or a host name it ends.  It prints what it reads up to *)
(* the end of input.                                                       *)
Refused(c) == end[c] = "absent" /\ Ends(c, "closed")
clientSend(c) ==
    /\ end[c] = "open" /\ ask[c] = "none"
    /\ \E t \in Targets \ {"post"} : ask' = [ask EXCEPT ![c] = t]
    /\ input' = [input EXCEPT ![c] = <<"text", "text", "empty">>]
    /\ headers' = [headers EXCEPT ![c] = 1]
    /\ whole' = whole \cup {c}
    /\ UNCHANGED <<queue, half, long, end, reply, serverVars>>
Nameless(c) == end[c] = "open" /\ ask[c] = "none" /\ Ends(c, "closed")
clientPrint(c) ==
    /\ ask[c] # "none"
    /\ end[c] = "shut" \/ (end[c] = "open" /\ Over)
    /\ Ends(c, "closed")

-----------------------------------------------------------------------------
(* The server. *)

(* unix_error: the wrappers end the program, because of what a client did, *)
(* or because the kernel refuses a call.                                   *)
Exit == pc' = "exit" /\ UNCHANGED <<clientVars, reply, conn, buf, target, child>>
Fail == pc' = "failed" /\ UNCHANGED <<clientVars, reply, conn, buf, target, child>>

(* getargs and open_listenfd: socket, setsockopt, bind and listen, each of *)
(* which may fail; without a port there is nothing to listen on.           *)
open_listenfd ==
    /\ pc = "start" /\ pc' = "accept"
    /\ UNCHANGED <<clientVars, reply, conn, buf, target, child>>
ListenFails == pc = "start" /\ Fail

AcceptFails == pc = "accept" /\ queue # <<>> /\ Fail
Accept ==
    /\ pc = "accept" /\ queue # <<>>
    /\ conn' = Head(queue) /\ queue' = Tail(queue)
    /\ pc' = "request"
    /\ UNCHANGED <<sending, end, reply, buf, target, child>>

(* What Rio_readlineb finds: a line, the end of input, or an error. *)
Line   == end[conn] # "reset" /\ input[conn] # <<>>
NoMore == (end[conn] = "closed" \/ (end[conn] = "open" /\ conn \in half)) /\ input[conn] = <<>>
Broken == end[conn] = "reset"

(* Of a long line it takes MAXLINE - 1 bytes; the next call finds the rest *)
(* of it, which may be "\r\n" alone.  (One longer still is as more lines.) *)
Rests(line) == IF line = "long" THEN {<<"text">>, <<"empty">>} ELSE {<<>>}

Take == /\ \E rest \in Rests(Head(input[conn])) :
              input' = [input EXCEPT ![conn] = rest \o Tail(@)]
        /\ UNCHANGED <<queue, ask, headers, whole, half, long, end, reply>>

(* requestHandle: another method is answered at once, or requestReadhdrs   *)
(* begins, with a buffer that is not initialized.  Nor are method and uri, *)
(* which keep what was on the stack when sscanf finds no words; and a uri  *)
(* that was cut is another one.                                            *)
Parsed == IF ask[conn] = "garbled" THEN Targets ELSE {ask[conn]}

Handle(t) == /\ target' = t
             /\ pc' = IF t = "post" THEN "answer" ELSE "headers"
             /\ buf' \in {"text", "empty"}
             /\ UNCHANGED <<conn, child>>

ReadRequest == pc = "request" /\ Line /\ Take /\ \E t \in Parsed : Handle(t)

(* Nothing is read, and the line itself is what was on the stack. *)
ReadNoRequest == /\ pc = "request" /\ NoMore
                 /\ \E t \in Targets : Handle(t)
                 /\ UNCHANGED <<clientVars, reply>>

(* requestReadhdrs: one turn of its loop. *)
AfterBare(line) == "headers"  \* mutant: waits for a line that is really empty
AfterAny(line) == "answer"    \* mutant: the headers are one line
AfterHeader(line) == IF line = "empty" THEN "answer" ELSE "headers"

ReadHeader ==
    /\ pc = "headers" /\ Line
    /\ buf' = (IF Head(input[conn]) = "empty" THEN "empty" ELSE "text") /\ Take
    /\ pc' = AfterHeader(buf')
    /\ UNCHANGED <<conn, target, child>>

(* At the end of input the buffer stays what it was. *)
ReadNoHeader ==
    /\ pc = "headers" /\ NoMore
    /\ pc' = AfterHeader(buf)
    /\ UNCHANGED <<clientVars, reply, conn, buf, target, child>>

ReadFails == pc \in {"request", "headers"} /\ Broken /\ Exit

(* The answer: requestError, requestServeStatic, or requestServeDynamic,   *)
(* which writes the status line and starts a CGI process that writes the   *)
(* rest.                                                                   *)
StatusOfStat(t) == IF t = "missing" THEN -1 ELSE 200  \* mutant: stat's result
Status(t) == CASE t = "post" -> 501 [] t = "missing" -> 404
               [] t = "forbidden" -> 403 [] OTHER -> 200

Written == /\ reply' = [reply EXCEPT ![conn] = Status(target)]
           /\ UNCHANGED <<clientVars, conn, buf, target>>

requestError ==
    /\ pc = "answer" /\ target \in {"post", "missing", "forbidden"}
    /\ Written /\ pc' = "close" /\ UNCHANGED child

requestServeStatic ==
    /\ pc = "answer" /\ target = "static"
    /\ Written /\ pc' = "close" /\ UNCHANGED child

NotAwaited == "close"  \* mutant: the child is not waited for
Awaited == "wait"
requestServeDynamic ==
    /\ pc = "answer" /\ target = "cgi"
    /\ Written /\ pc' = Awaited /\ child' = "running"

Answer == requestError \/ requestServeStatic \/ requestServeDynamic

(* Rio_writen fails, or raises SIGPIPE, when nobody reads any more. *)
WriteFails == pc = "answer" /\ end[conn] \in {"closed", "reset"} /\ Exit

(* requestServeStatic maps the file, and no bytes cannot be mapped. *)
MmapFails == pc = "answer" /\ target = "blank" /\ Exit

OpenFails == pc = "answer" /\ target \in {"static", "blank"} /\ Fail
ForkFails ==
    /\ pc = "answer" /\ target = "cgi"
    /\ Written /\ pc' = "failed" /\ UNCHANGED child

(* The CGI program has written its page, or it could not be started. *)
ChildEnds ==
    /\ child = "running" /\ child' = "zombie"
    /\ UNCHANGED <<clientVars, reply, pc, conn, buf, target>>

Wait ==
    /\ pc = "wait" /\ child = "zombie"
    /\ child' = "none" /\ pc' = "close"
    /\ UNCHANGED <<clientVars, reply, conn, buf, target>>

Shut(c) == IF end[c] = "open" THEN "shut" ELSE end[c]
Close ==
    /\ pc = "close"
    /\ pc' = "accept" /\ conn' = Nobody
    /\ end' = [end EXCEPT ![conn] = Shut(conn)]
    /\ UNCHANGED <<queue, sending, reply, buf, target, child>>
CloseFails == pc = "close" /\ Fail

Server == \/ open_listenfd \/ Accept \/ ReadRequest \/ ReadNoRequest \/ ReadHeader
          \/ ReadNoHeader \/ ReadFails \/ Answer \/ WriteFails \/ MmapFails \/ Wait \/ Close

(* What the kernel refuses. *)
Kernel == ListenFails \/ AcceptFails \/ OpenFails \/ ForkFails \/ CloseFails

Client(c) == SendRequest(c) \/ SendHeader(c) \/ SendEmpty(c) \/ HalfClose(c) \/ Leave(c)
Program(c) == Refused(c) \/ clientSend(c) \/ Nameless(c) \/ clientPrint(c)

(* Every client has come and been answered, or the server has ended. *)
Ended == /\ Over \/ \A c \in Clients : end[c] \in {"closed", "reset"}
         /\ UNCHANGED vars

Next == \/ Server \/ Kernel \/ ChildEnds \/ Ended
        \/ \E c \in Clients : Connect(c)
        \/ \E c \in Clients \ Programs : Client(c)
        \/ \E c \in Programs : Program(c)

Spec == Init /\ [][Next]_vars

(* The server runs, CGI processes end, client.c runs, and another client   *)
(* that has connected sends its whole request unless it leaves.            *)
FairSpec == /\ Spec /\ WF_vars(Server) /\ WF_vars(ChildEnds)
            /\ \A c \in Programs : WF_vars(clientSend(c)) /\ WF_vars(clientPrint(c))
            /\ \A c \in Clients \ Programs : WF_vars(SendRequest(c)) /\ WF_vars(SendEmpty(c))

-----------------------------------------------------------------------------
(* Properties. *)

(* A client that is still there gets the answer to what it asked for,      *)
(* however the lines of the clients arrive and whoever else has left, and  *)
(* the connection is not closed before.  "Reads and discards everything up *)
(* to an empty text line" holds of a GET whose lines fit in the buffer: it *)
(* is answered when all of it has been read, up to the empty line or to    *)
(* the end of what the client sends, although the buffer that is compared  *)
(* with the empty line is not initialized.  Only a request that is garbled *)
(* or missing, and a long line, may be answered otherwise.                 *)
RightReply ==
    \A c \in Clients : (end[c] = "open" /\ reply[c] # 0) \/ end[c] = "shut" =>
        /\ ask[c] \in Targets => reply[c] = Status(ask[c])
        /\ reply[c] # 0 /\ (ask[c] = "none" => c \in half)
        /\ reply[c] # 501 /\ c \notin long => input[c] = <<>> /\ c \in whole \cup half

(* A CGI process writes to the connection that is being served: it is gone *)
(* before the connection is closed and the next one is accepted.           *)
NoOrphan == child # "none" => pc = "wait" /\ target = "cgi"

(* Every client that connects is answered, if all send their requests to   *)
(* the empty line and wait for their answers, which client.c does of       *)
(* itself, none asks for an empty file or for nothing intelligible, and    *)
(* the kernel refuses the server nothing.                                  *)
Patient == \A c \in Clients : /\ end[c] \in {"closed", "reset"} => reply[c] # 0
                              /\ c \in half => c \in whole
                              /\ ask[c] \notin {"blank", "garbled"}
EveryoneAnswered ==
    []Patient => \A c \in Clients : end[c] = "open" ~> reply[c] # 0 \/ pc = "failed"

(* What server.c says of itself: "Repeatedly handles HTTP requests sent to *)
(* this port number".  A client that sends no more within its headers may  *)
(* keep the server in requestReadhdrs, and the others wait for ever.       *)
RepeatedlyHandles ==
    \A c \in Clients : end[c] = "open" ~> reply[c] # 0 \/ end[c] # "open" \/ Over
=============================================================================
