------------------------------- MODULE SipRpc -------------------------------
(***************************************************************************)
(* A client program that makes calls through a Requester (Requester::call, *)
(* waiting or threaded, and Requester::transmit), and xmlrpcserver, which  *)
(* accepts one connection at a time, answers one call and closes it.       *)
(*                                                                         *)
(* The k-th call opens connection k, if it opens one.  Protocol objects    *)
(* are numbered: 0 is the requester's own, k the clone that waits for the  *)
(* response to the threaded call k, and Server the server's.  What has     *)
(* been written to a connection and not read is in wire, for each side.    *)
(***************************************************************************)
EXTENDS SipProtocol, FiniteSets, SequencesExt

CONSTANTS
  MaxCalls,  \* bound: calls the client makes
  CallLen,   \* the length of each call's body
  AnswerLen, \* the length of the body of each call's response
  Cuts       \* bound: the characters written of a message when its write times out

Calls == 1..MaxCalls

ASSUME MaxCallsAssumption == MaxCalls \in Nat \ {0}
\* No message is shorter than a read (ulxmlrpcpp.h keeps the buffer small).
ASSUME LengthAssumption ==
  /\ CallLen \in [Calls -> Nat] /\ AnswerLen \in [Calls -> Nat]
  /\ \A k \in Calls : CallLen[k] >= Buffer /\ AnswerLen[k] >= Buffer
ASSUME CutsAssumption == Cuts \subseteq Nat

VARIABLES
  persistent,  \* whether setPersistent(true) was called
  made,        \* the number of calls made
  kind,        \* each call's kind
  main,        \* the thread that calls: "idle", "opened", "waiting", "ended"
  thread,      \* each threaded call's thread: "none", "created", "waiting", "ended"
  pending,     \* cntPendingRequests
  server,      \* the server program's state
  proto,       \* the protocol objects
  wire,        \* characters written and not yet read
  near, far,   \* each connection's end at the client, and at the server
  result,      \* each call's end: "none", "threw", "transmitted", "response"
  answer,      \* history: the call whose response each was given, 0 for none
  via,         \* history: the connection each call is made on, 0 for none
  served,      \* history: the calls dispatched
  stalled,     \* history: the connections on which writing a call has timed out
  timedout     \* history: whether a wait, or a write, has timed out

links   == <<wire, near, far>>
program == <<main, thread, pending>>
history == <<via, served, stalled, timedout>>
vars    == <<persistent, made, kind, program, server, proto, links, result, answer, history>>

Kinds  == {"call", "threaded", "transmit"}
Server == MaxCalls + 1
Clients == 0..MaxCalls
Ends    == 0..Server
Side(e) == IF e = Server THEN "server" ELSE "client"

Init ==
  /\ persistent \in BOOLEAN
  /\ made = 0 /\ kind = [k \in Calls |-> "call"]
  /\ main = "idle" /\ thread = [k \in Calls |-> "none"] /\ pending = 0
  /\ server = "down"
  /\ proto = [e \in Ends |-> NewProtocol]
  /\ wire = [s \in {"client", "server"} |-> [c \in Calls |-> << >>]]
  /\ near = [c \in Calls |-> "none"] /\ far = [c \in Calls |-> "none"]
  /\ result = [k \in Calls |-> "none"] /\ answer = [k \in Calls |-> 0]
  /\ via = [k \in Calls |-> None] /\ served = << >>
  /\ stalled = {} /\ timedout = FALSE

Conn(e)  == proto[e].conn
Inbox(e) == wire[Side(e)][Conn(e)]

-----------------------------------------------------------------------------
(* Making a call.                                                          *)

Listening == server \notin {"down", "exited", "terminated"}

Begin(k) ==
  /\ main = "idle" /\ k = made + 1 /\ k <= MaxCalls
  /\ made' = k
  /\ \E kd \in Kinds : kind' = [kind EXCEPT ![k] = kd]

OnConnection(k, c) ==
  /\ via' = [via EXCEPT ![k] = c]
  /\ UNCHANGED <<served, stalled, timedout>>

\* send_call on a connection that is open, whatever it was last used for.
Reuse(k) ==
  /\ Begin(k)
  /\ Conn(0) # None
  /\ OnConnection(k, Conn(0))
  /\ proto' = [proto EXCEPT ![0] = resetConnection(@)]
  /\ main' = "opened"
  /\ UNCHANGED <<persistent, thread, pending, server, links, result, answer>>

Open(k) ==
  /\ Begin(k)
  /\ Conn(0) = None /\ Listening
  /\ OnConnection(k, k)
  /\ near' = [near EXCEPT ![k] = "open"]
  /\ far'  = [far EXCEPT ![k] = "backlog"]
  /\ proto' = [proto EXCEPT ![0] = [resetConnection(@) EXCEPT !.conn = k]]
  /\ main' = "opened"
  /\ UNCHANGED <<persistent, thread, pending, server, wire, result, answer>>

\* connect fails and throws: the handle stays, and isOpen is true.
OpenRefused(k) ==
  /\ Begin(k)
  /\ Conn(0) = None /\ ~Listening
  /\ OnConnection(k, k)
  /\ near' = [near EXCEPT ![k] = "unconnected"]
  /\ proto' = [proto EXCEPT ![0].conn = k]
  /\ result' = [result EXCEPT ![k] = "threw"]
  /\ UNCHANGED <<persistent, program, server, wire, far, answer>>

\* After the call is written: waitForResponse, or detach and a thread, or nothing.
\* Mutant: the thread waits on the connection the requester keeps.
Sent_attached(k) ==
  LET p == BeginWait(clearSipHeader(proto[0])) IN
  \/ /\ kind[k] = "call"
     /\ main' = "waiting"
     /\ proto' = [proto EXCEPT ![0] = p]
     /\ UNCHANGED <<thread, result>>
  \/ /\ kind[k] = "threaded"
     /\ main' = "idle"
     /\ thread' = [thread EXCEPT ![k] = "created"]
     /\ proto' = [proto EXCEPT ![0] = p, ![k] = p]
     /\ UNCHANGED result
  \/ /\ kind[k] = "transmit"
     /\ main' = "idle"
     /\ result' = [result EXCEPT ![k] = "transmitted"]
     /\ proto' = [proto EXCEPT ![0] = p]
     /\ UNCHANGED thread
Sent(k) ==
  LET p == BeginWait(clearSipHeader(proto[0])) IN
  \/ /\ kind[k] = "call"
     /\ main' = "waiting"
     /\ proto' = [proto EXCEPT ![0] = p]
     /\ UNCHANGED <<thread, result>>
  \/ /\ kind[k] = "threaded"
     /\ main' = "idle"
     /\ thread' = [thread EXCEPT ![k] = "created"]
     /\ proto' = [proto EXCEPT ![0] = [p EXCEPT !.conn = None], ![k] = p]
     /\ UNCHANGED result
  \/ /\ kind[k] = "transmit"
     /\ main' = "idle"
     /\ result' = [result EXCEPT ![k] = "transmitted"]
     /\ proto' = [proto EXCEPT ![0] = p]
     /\ UNCHANGED thread

Reset(c) == far[c] \in {"closed", "reset"}

Send ==
  /\ main = "opened"
  /\ near[Conn(0)] = "open"
  /\ IF Reset(Conn(0))
     THEN /\ far' = [far EXCEPT ![Conn(0)] = "reset"]
          /\ UNCHANGED wire
     ELSE /\ wire' = [wire EXCEPT !["server"][Conn(0)] = @ \o Message(made, CallLen[made])]
          /\ UNCHANGED far
  /\ Sent(made)
  /\ UNCHANGED <<persistent, made, kind, pending, server, near, answer, history>>

\* What was written to the client and not read is lost.
Close(c) ==
  /\ near' = [near EXCEPT ![c] = "closed"]
  /\ wire' = [wire EXCEPT !["client"][c] = << >>]

\* EPIPE closes the connection; another error does not.  Both are thrown.
SendFails ==
  /\ main = "opened"
  /\ \/ /\ near[Conn(0)] = "unconnected" \/ far[Conn(0)] = "reset"
        /\ Close(Conn(0))
        /\ proto' = [proto EXCEPT ![0].conn = None]
     \/ /\ near[Conn(0)] = "open" /\ far[Conn(0)] = "reset"
        /\ UNCHANGED <<near, wire, proto>>
  /\ main' = "idle"
  /\ result' = [result EXCEPT ![made] = "threw"]
  /\ UNCHANGED <<persistent, made, kind, thread, pending, server, far, answer, history>>

\* The first n characters of call k; of the last one, its length says len.
Piece(k, n, len) == [i \in 1..n |-> Letter(k, i, IF i = n THEN len ELSE CallLen[k])]

\* The connection takes no more of the call for ten seconds.  What it took stays
\* written, and it stays open: the next call is written after that.
SendTimesOut ==
  /\ main = "opened"
  /\ near[Conn(0)] = "open" /\ ~Reset(Conn(0))
  /\ \E n \in Cuts, len \in 0..CallLen[made] :
       /\ n < HeaderLen + CallLen[made]
       /\ len = CallLen[made] \/ (n \in 1..HeaderLen /\ Header[n] = "length")
       /\ wire' = [wire EXCEPT !["server"][Conn(0)] = @ \o Piece(made, n, len)]
  /\ main' = "idle"
  /\ result' = [result EXCEPT ![made] = "threw"]
  /\ stalled' = stalled \cup {Conn(0)} /\ timedout' = TRUE
  /\ UNCHANGED <<persistent, made, kind, thread, pending, server, proto, near, far, answer, via, served>>

\* dispatchThreaded begins.
StartThread(k) ==
  /\ thread[k] = "created"
  /\ thread' = [thread EXCEPT ![k] = "waiting"]
  /\ pending' = pending + 1
  /\ UNCHANGED <<persistent, made, kind, main, server, proto, links, result, answer, history>>

-----------------------------------------------------------------------------
(* The loop of waitForResponse and waitForCall.                            *)

Waiting(e) ==
  CASE e = 0      -> main = "waiting"
    [] e = Server -> server = "reading"
    [] OTHER      -> thread[e] = "waiting"

PeerGone(e) == IF e = Server THEN near[Conn(e)] = "closed" ELSE Reset(Conn(e))

Machine(e) ==
  /\ Waiting(e) /\ Busy(proto[e])
  /\ LET q == connectionMachine(proto[e], Inbox(e)) IN
       /\ proto' = [proto EXCEPT ![e] = q]
       /\ wire' = [wire EXCEPT ![Side(e)][Conn(e)] =
                     SubSeq(@, proto[e].have - q.have + 1, Len(@))]
  /\ UNCHANGED <<persistent, made, kind, program, server, near, far, result, answer, history>>

WantsMore(e) == Waiting(e) /\ ~Busy(proto[e]) /\ hasBytesToRead(proto[e])

Read(e) ==
  /\ WantsMore(e)
  /\ \E n \in 1..Len(Inbox(e)) :
       /\ n <= ReadLimit(proto[e])
       /\ proto' = [proto EXCEPT ![e] = readRaw(@, n)]
  /\ UNCHANGED <<persistent, made, kind, program, server, links, result, answer, history>>

Complete(e) == Waiting(e) /\ ~Busy(proto[e]) /\ ~hasBytesToRead(proto[e])

\* The call that end e of the client waits for.  Mutant: the one made last.
CallOf_latest(e) == made
CallOf(e) == IF e = 0 THEN made ELSE e

\* The requester's thread returns to its caller, or a thread ends: it is no
\* longer pending and its protocol is deleted.  Mutant: one that catches an
\* exception stays pending.
Leave_counted(e) ==
  IF e = 0 THEN main' = "idle" /\ UNCHANGED <<thread, pending>>
  ELSE /\ thread' = [thread EXCEPT ![e] = "ended"]
       /\ pending' = IF result'[e] = "threw" THEN pending ELSE pending - 1
       /\ UNCHANGED main
Leave(e) ==
  IF e = 0 THEN main' = "idle" /\ UNCHANGED <<thread, pending>>
  ELSE /\ thread' = [thread EXCEPT ![e] = "ended"]
       /\ pending' = IF pending > 0 THEN pending - 1 ELSE 0
       /\ UNCHANGED main

LeaveClosed(e) ==
  /\ Close(Conn(e))
  /\ proto' = [proto EXCEPT ![e] = IF e = 0 THEN [@ EXCEPT !.conn = None] ELSE NewProtocol]
LeaveOpen(e) == IF e = 0 THEN UNCHANGED <<near, wire, proto>> ELSE LeaveClosed(e)

\* What the client makes of a whole response is up to the method: one with a
\* fault lacks the end tag of its result (ulxr_response.cpp), and the parser
\* takes it in part or not at all.
Respond(e) ==
  /\ e \in Clients /\ Complete(e)
  /\ \/ /\ Whole(proto[e].data)
        /\ result' = [result EXCEPT ![CallOf(e)] = "response"]
        /\ answer' = [answer EXCEPT ![CallOf(e)] = proto[e].data[1].msg]
     \/ /\ result' = [result EXCEPT ![CallOf(e)] = "threw"]
        /\ UNCHANGED answer
  /\ IF persistent THEN LeaveOpen(e) ELSE LeaveClosed(e)
  /\ Leave(e)
  /\ UNCHANGED <<persistent, made, kind, server, far, history>>

Threw(e) ==
  /\ result' = [result EXCEPT ![CallOf(e)] = "threw"]
  /\ Leave(e)
  /\ UNCHANGED <<persistent, made, kind, server, far, answer, via, served, stalled>>

\* Ten seconds without a character: some may still be under way.
Timeout(e) ==
  /\ e \in Clients /\ WantsMore(e)
  /\ LeaveOpen(e)
  /\ timedout' = TRUE
  /\ Threw(e)

\* The end of the stream closes the connection; a reset does not.
ReadFails(e) ==
  /\ e \in Clients /\ WantsMore(e) /\ PeerGone(e) /\ Inbox(e) = << >>
  /\ LeaveClosed(e) \/ (far[Conn(e)] = "reset" /\ LeaveOpen(e))
  /\ Threw(e)
  /\ UNCHANGED timedout

\* How much of the call being made can have been written.
Written == IF main = "opened" /\ near[Conn(0)] = "open" /\ ~Reset(Conn(0))
           THEN 0..HeaderLen + CallLen[made] ELSE {0}

\* The client program ends, at the latest while it writes a call.
Quit ==
  /\ main # "ended"
  /\ main' = "ended"
  /\ thread' = [k \in Calls |-> IF thread[k] = "none" THEN "none" ELSE "ended"]
  /\ pending' = 0
  /\ near' = [c \in Calls |-> IF near[c] \in {"open", "unconnected"} THEN "closed" ELSE near[c]]
  /\ proto' = [e \in Ends |-> IF e = Server THEN proto[e] ELSE NewProtocol]
  /\ \E n \in Written :
       wire' = [client |-> [c \in Calls |-> << >>],
                server |-> IF n = 0 THEN wire["server"]
                           ELSE [wire["server"] EXCEPT ![Conn(0)] =
                                   @ \o SubSeq(Message(made, CallLen[made]), 1, n)]]
  /\ UNCHANGED <<persistent, made, kind, server, far, result, answer, history>>

-----------------------------------------------------------------------------
(* xmlrpcserver's main.                                                    *)

StartServer ==
  /\ server = "down"
  /\ server' = "accepting"
  /\ UNCHANGED <<persistent, made, kind, program, proto, links, result, answer, history>>

\* waitForCall: the connections wait in the order in which they were opened.
Accept(c) ==
  /\ server = "accepting"
  /\ far[c] = "backlog" /\ \A d \in 1..(c - 1) : far[d] # "backlog"
  /\ far' = [far EXCEPT ![c] = "open"]
  /\ proto' = [proto EXCEPT ![Server] = BeginWait([resetConnection(@) EXCEPT !.conn = c])]
  /\ server' = "reading"
  /\ UNCHANGED <<persistent, made, kind, program, wire, near, result, answer, history>>

\* The characters of connection c that a read of the client has taken.
Taken(c) == IF \E e \in Clients : Conn(e) = c
            THEN proto[CHOOSE e \in Clients : Conn(e) = c].have ELSE 0

\* The server closes the connection it has accepted, c, or all.  A connection
\* closed with characters unread is reset: the end of what was written to the
\* client may not arrive.
Shut(cs) ==
  LET c == Conn(Server)
      unread == wire["server"][c] # << >>
  IN
  /\ far' = [d \in Calls |-> IF d \notin cs THEN far[d]
                             ELSE IF wire["server"][d] = << >> THEN "closed" ELSE "reset"]
  /\ \E n \in Taken(c)..Len(wire["client"][c]) :
       /\ unread \/ n = Len(wire["client"][c])
       /\ wire' = [client |-> [wire["client"] EXCEPT ![c] = SubSeq(@, 1, n)],
                   server |-> [d \in Calls |-> IF d \in cs THEN << >> ELSE wire["server"][d]]]

\* An exception leaves the loop and main; every connection goes with it.
Exit(how) ==
  /\ server' = how
  /\ proto' = [proto EXCEPT ![Server] = NewProtocol]
  /\ Shut({c \in Calls : far[c] \in {"open", "backlog"}})
  /\ UNCHANGED <<persistent, made, kind, program, near, result, answer>>

\* The XML parser takes what it can, up to its first error.  If that has no
\* request the program crashes; if the request lacks what its method needs,
\* XmlException is raised, which main does not catch.
Readable(data) == data # << >> /\ data[1].at = HeaderLen + 1

Received ==
  /\ Complete(Server)
  /\ \/ /\ Readable(proto[Server].data)
        /\ server' = "serving"
        /\ UNCHANGED <<persistent, made, kind, program, proto, links, result, answer>>
     \/ ~Whole(proto[Server].data) /\ Exit("terminated")
  /\ UNCHANGED history

ServerTimeout ==
  /\ WantsMore(Server)
  /\ timedout' = TRUE
  /\ Exit("exited")
  /\ UNCHANGED <<via, served, stalled>>

ServerReadFails ==
  /\ WantsMore(Server) /\ PeerGone(Server) /\ Inbox(Server) = << >>
  /\ Exit("exited")
  /\ UNCHANGED history

Request == proto[Server].data[1].msg

\* dispatchCall, buildResponseHeader and sendResponse.
Serve ==
  /\ server = "serving" /\ proto[Server].fields
  /\ served' = Append(served, Request)
  /\ wire' = IF near[Conn(Server)] = "closed" THEN wire
             ELSE [wire EXCEPT !["client"][Conn(Server)] =
                     @ \o Message(Request, AnswerLen[Request])]
  /\ proto' = [proto EXCEPT ![Server] = clearSipHeader(@)]
  /\ server' = "closing"
  /\ UNCHANGED <<persistent, made, kind, program, near, far, result, answer, via, stalled, timedout>>

\* The client's end takes only a part of the response.
ServeTimesOut ==
  /\ server = "serving" /\ proto[Server].fields
  /\ near[Conn(Server)] # "closed"
  /\ served' = Append(served, Request)
  /\ \E n \in Cuts :
       /\ n < HeaderLen + AnswerLen[Request]
       /\ wire' = [wire EXCEPT !["client"][Conn(Server)] =
                     @ \o SubSeq(Message(Request, AnswerLen[Request]), 1, n)]
  /\ server' = "failing" /\ timedout' = TRUE
  /\ UNCHANGED <<persistent, made, kind, program, proto, near, far, result, answer, via, stalled>>

Fail == server = "failing" /\ Exit("exited") /\ UNCHANGED history

\* The header has no field to copy, or the client is gone.
ServeFails ==
  /\ server = "serving"
  /\ ~proto[Server].fields \/ near[Conn(Server)] = "closed"
  /\ served' = Append(served, Request)
  /\ Exit("exited")
  /\ UNCHANGED <<via, stalled, timedout>>

\* Mutant: the server waits for the next call on the same connection.
CloseConnection_kept ==
  /\ server = "closing"
  /\ proto' = [proto EXCEPT ![Server] = BeginWait(resetConnection(@))]
  /\ server' = "reading"
  /\ UNCHANGED <<persistent, made, kind, program, links, result, answer, history>>

CloseConnection ==
  /\ server = "closing"
  /\ Shut({Conn(Server)})
  /\ proto' = [proto EXCEPT ![Server].conn = None]
  /\ server' = "accepting"
  /\ UNCHANGED <<persistent, made, kind, program, near, result, answer, history>>

-----------------------------------------------------------------------------
Calling   == Send \/ SendFails \/ \E k \in Calls : StartThread(k)
Looping(e) == Machine(e) \/ Read(e)
Ending(e)  == Respond(e) \/ ReadFails(e)
Serving   == \/ \E c \in Calls : Accept(c)
             \/ Received \/ ServerReadFails
             \/ Serve \/ ServeFails \/ Fail \/ CloseConnection

Next ==
  \/ \E k \in Calls : Reuse(k) \/ Open(k) \/ OpenRefused(k)
  \/ Calling \/ SendTimesOut
  \/ \E e \in Ends : Looping(e)
  \/ \E e \in Clients : Ending(e) \/ Timeout(e)
  \/ Quit
  \/ StartServer \/ Serving \/ ServerTimeout \/ ServeTimesOut

Spec == Init /\ [][Next]_vars

\* Both programs run on; nobody owes a call, a start, a timeout or an end.  Only
\* when a call was written in part may its stream end inside a message: then
\* the ten seconds in which the server reads nothing do pass.
FairSpec ==
  /\ Spec
  /\ WF_vars(Calling) /\ WF_vars(Serving) /\ WF_vars(Looping(Server))
  /\ WF_vars(Conn(Server) \in stalled /\ Inbox(Server) = << >> /\ ServerTimeout)
  /\ \A e \in Clients : WF_vars(Looping(e) \/ Ending(e))

-----------------------------------------------------------------------------
Letters(len) ==
  {t \in [msg : Calls, at : Nat, body : Nat] :
     t.at \in 1..HeaderLen + len[t.msg] /\ t.body \in 0..len[t.msg]}
LettersOf(e) == IF e = Server THEN Letters(CallLen) ELSE Letters(AnswerLen)

ConnStates == {"ConnStart", "ConnPendingCR", "ConnPendingHeaderLine", "ConnHeaderLine",
               "ConnSwitchToBody", "ConnBody"}

\* Each protocol object reads letters of its own direction, and counts no
\* more of them in its buffer than the stream holds.
TypeOK ==
  /\ made \in 0..MaxCalls /\ kind \in [Calls -> Kinds]
  /\ main \in {"idle", "opened", "waiting", "ended"}
  /\ thread \in [Calls -> {"none", "created", "waiting", "ended"}]
  /\ pending \in 0..MaxCalls
  /\ server \in {"down", "accepting", "reading", "serving", "closing", "failing", "exited", "terminated"}
  /\ \A e \in Ends :
       /\ Conn(e) \in Calls \cup {None}
       /\ proto[e].state \in ConnStates
       /\ proto[e].have \in 0..Buffer
       /\ Waiting(e) => Conn(e) \in Calls /\ proto[e].have <= Len(Inbox(e))
       /\ Range(proto[e].line) \cup Range(proto[e].data) \subseteq LettersOf(e)
  /\ near \in [Calls -> {"none", "unconnected", "open", "closed"}]
  /\ far \in [Calls -> {"none", "backlog", "open", "closed", "reset"}]
  /\ result \in [Calls -> {"none", "threw", "transmitted", "response"}]
  /\ answer \in [Calls -> 0..made]
  /\ via \in [Calls -> 0..made]
  /\ stalled \subseteq Calls /\ timedout \in BOOLEAN

\* However the stream is cut into reads, and whatever follows it, the server
\* takes the call that opened a connection for what was written: it never parses
\* a piece of it, or more than it, unless writing a call there has timed out.
\* Only after that can a call crash it; and even then none is served twice.
CallsArriveWhole ==
  /\ Complete(Server) \/ server = "serving" =>
       \/ Conn(Server) \in stalled
       \/ Whole(proto[Server].data) /\ Request = Conn(Server)
  /\ server = "terminated" => stalled # {}
  /\ \A i, j \in DOMAIN served : served[i] = served[j] => i = j

\* A call is given a response of its own connection: its own, or that of an
\* earlier call there that was not waited for to the end; and never one that
\* another call was given.
ResponsesBelong ==
  \A k \in Calls : result[k] = "response" =>
    LET j == answer[k] IN
      /\ j \in Range(served) /\ via[j] = via[k]
      /\ j # k => j < k /\ result[j] \in {"threw", "transmitted"}
      /\ \A i \in Calls \ {k} : answer[i] # j

\* numPendingRequests counts the threads that have begun and not ended.
PendingCounts == pending = Cardinality({k \in Calls : thread[k] = "waiting"})

\* xmlrpcserver.cpp:696: closing each connection keeps the server from
\* exiting.  It exits only after a timeout or the end of the client program.
ServerStays == server = "exited" => timedout \/ main = "ended"

\* The two programs are the abstract service: calls are served at most once,
\* and responses are given at most once, to calls not older than theirs.
Service == INSTANCE RemoteCalls WITH done <- Range(served)
ImplementsRemoteCalls == Service!Spec

\* Without timeouts no call hangs, and no stream is left half read; after a call
\* written in part, the server's timeout is enough for that.
CallReturns ==
  \A k \in Calls : (made >= k) ~> (result[k] # "none" \/ main = "ended")

\* ulxr_requester.h:166-170, "Performs a virtual call to the remote method",
\* "@return the methods response": a call is given the response to itself.
OwnResponse == \A k \in Calls : result[k] = "response" => answer[k] = k

=============================================================================
