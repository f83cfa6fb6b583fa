------------------------------ MODULE Session ------------------------------
(***************************************************************************)
(* One TCP connection between an Area Node and the Core Node: both ends    *)
(* send requests from their main threads, read whatever part of the stream *)
(* has arrived, split it at "||" with strtok, handle the requests and      *)
(* write the replies back (My_connec::onRead, TCP_Client::receive).        *)
(*                                                                         *)
(* A message is three pieces of the stream: its "||" with at most a part   *)
(* of its first word, its header and its XML body.  A read may end         *)
(* anywhere; where exactly inside a piece makes no difference, because     *)
(* the header names its method twice and a truncated body does not parse.  *)
(* A message is appended to the stream in one step.                        *)
(***************************************************************************)
EXTENDS Naturals, Sequences, SequencesExt

CONSTANT MaxRequests  \* bound: requests each main thread tries to send

ASSUME MaxRequestsAssumption == MaxRequests \in Nat \ {0}

VARIABLES
  sock,      \* the Area Node's socket: "none", "created", "connected", "refused"
  stream,    \* bytes on their way to each node
  readbuf,   \* what each node's current read has not yet split into tokens
  proc,      \* each process: "up" or "dead"
  asked,     \* requests each main thread has tried to send
  written,   \* history: the requests each node has put into the stream
  handled,   \* history: the requests each node's handler has served
  answered,  \* history: the replies each node has read
  hazard     \* history: what each node did or read that may kill it

buffers == <<stream, readbuf>>
history == <<written, handled, answered>>
vars == <<sock, buffers, proc, asked, history, hazard>>

Nodes == {"area", "core"}
Peer(s) == IF s = "area" THEN "core" ELSE "area"

Init ==
  /\ sock     = "none"
  /\ stream   = [s \in Nodes |-> << >>]
  /\ readbuf  = [s \in Nodes |-> << >>]
  /\ proc     = [s \in Nodes |-> "up"]
  /\ asked    = [s \in Nodes |-> 0]
  /\ written  = [s \in Nodes |-> << >>]
  /\ handled  = [s \in Nodes |-> << >>]
  /\ answered = [s \in Nodes |-> << >>]
  /\ hazard   = [s \in Nodes |-> {}]

-----------------------------------------------------------------------------
(* Messages.                                                               *)

\* msg_start's union: request {method, uri, version} and reply {version,
\* status, reason} share their three slots.
create_request_header(u) == <<"INVITE", "uri", "SIP/2.0">>

\* Mutant: the two structs do not overlap, so the method that was read stays.
create_reply_header_struct(u) == <<u[1], "200", "OK">>
create_reply_header(u)        == <<"SIP/2.0", "200", "OK">>

\* msg_to_str: the words of a header, where both kinds print request.method.
Header(u) == {"SIP/2.0", u[1], u[2], u[3]}

Message(words, id) ==
  << [part |-> "bar",  words |-> {},    id |-> id],
     [part |-> "head", words |-> words, id |-> id],
     [part |-> "body", words |-> {},    id |-> id] >>

\* Mutant: the sequence number is taken before it is incremented.
Request_postincrement(id) == Message(Header(create_request_header(<<"", "", "">>)), id - 1)
Request(id) == Message(Header(create_request_header(<<"", "", "">>)), id)
Reply(id)   == Message(Header(create_reply_header(<<"INVITE", "", "">>)), id)

\* strtok: the delimiters in front are skipped, the token ends before the next.
Skip(b) == IF b # << >> /\ Head(b).part = "bar" THEN Tail(b) ELSE b

TokenLen(b) ==
  CHOOSE k \in 0..Len(b) :
    /\ \A i \in 1..k : b[i].part # "bar"
    /\ k = Len(b) \/ b[k+1].part = "bar"

Token(b) == SubSeq(b, 1, TokenLen(b))

\* Mutant: only the first message of a read is looked at.
Rest_whole(b) == << >>
Rest(b)       == SubSeq(b, TokenLen(b) + 1, Len(b))

\* Mutant: looks for the protocol's name instead of the method.
IsRequest_sip(token) == \E i \in DOMAIN token : "SIP/2.0" \in token[i].words
IsRequest(token) == \E i \in DOMAIN token : "INVITE" \in token[i].words
IsReply(token)   == \E i \in DOMAIN token : token[i].part = "head" /\ ~IsRequest(token)
Complete(token)  == token[Len(token)].part = "body"

-----------------------------------------------------------------------------
(* TCP_Client::conn, in the Area Node's receiving thread.                  *)

CreateSocket ==
  /\ proc["area"] = "up" /\ sock = "none"
  /\ sock' = "created"
  /\ UNCHANGED <<buffers, proc, asked, history, hazard>>

\* conn returns 1, that is true, when connect fails; run() ignores it anyway.
Connect ==
  /\ proc["area"] = "up" /\ sock = "created"
  /\ \/ proc["core"] = "up" /\ sock' = "connected"
     \/ sock' = "refused"
  /\ UNCHANGED <<buffers, proc, asked, history, hazard>>

-----------------------------------------------------------------------------
(* The main threads.                                                       *)

Noted(s, what) == [hazard EXCEPT ![s] = @ \cup {what}]

\* A process that dies resets the connection: its peer still reads what has
\* arrived, and the rest is lost.
Die(s, why) ==
  /\ proc' = [proc EXCEPT ![s] = "dead"]
  /\ hazard' = Noted(s, why)
  /\ readbuf' = [readbuf EXCEPT ![s] = << >>]
  /\ \E n \in 0..Len(stream[Peer(s)]) :
       stream' = [stream EXCEPT ![s] = << >>, ![Peer(s)] = SubSeq(@, 1, n)]

Ask(s) ==
  /\ proc[s] = "up" /\ asked[s] < MaxRequests
  /\ asked' = [asked EXCEPT ![s] = @ + 1]

\* A sender of Area_node or Core_node, over an established connection.
SendRequest(s) ==
  /\ Ask(s)
  /\ sock = "connected" /\ proc[Peer(s)] = "up"
  /\ stream'  = [stream EXCEPT ![Peer(s)] = @ \o Request(asked'[s])]
  /\ written' = [written EXCEPT ![s] = Append(@, asked'[s])]
  /\ UNCHANGED <<sock, readbuf, proc, handled, answered, hazard>>

\* The Area's send on descriptor -1 fails, the Core's finds no client; each
\* prints that.
SendNowhere(s) ==
  /\ Ask(s)
  /\ IF s = "area" THEN sock = "none" ELSE sock # "connected"
  /\ UNCHANGED <<sock, buffers, proc, history, hazard>>

\* send on a socket that is not connected raises SIGPIPE.
SendUnconnected ==
  /\ Ask("area")
  /\ sock \in {"created", "refused"}
  /\ Die("area", "unconnected")
  /\ UNCHANGED <<sock, history>>

\* What is sent to a peer that is gone is lost, or raises SIGPIPE, which
\* neither node ignores; the Core's sender may also find no client any more.
SendToTheDead(s) ==
  /\ Ask(s)
  /\ sock = "connected" /\ proc[Peer(s)] = "dead"
  /\ \/ UNCHANGED <<buffers, proc, hazard>>
     \/ Die(s, "pipe")
  /\ UNCHANGED <<sock, history>>

\* The Core's event loop, between two reads, writes out what a bufferevent
\* still holds of its requests and replies.
FlushToTheDead ==
  /\ proc["core"] = "up" /\ readbuf["core"] = << >>
  /\ sock = "connected" /\ proc["area"] = "dead"
  /\ written["core"] # << >> \/ handled["core"] # << >>
  /\ Die("core", "pipe")
  /\ UNCHANGED <<sock, asked, history>>

-----------------------------------------------------------------------------
(* The reading threads.                                                    *)

\* recv, or readCallback's evbuffer_remove: whatever prefix has arrived.
CutsRequest(b) ==
  LET last == b[Len(b)] IN last.part = "head" /\ "INVITE" \in last.words

Read(s) ==
  /\ proc[s] = "up" /\ readbuf[s] = << >>
  /\ \E n \in 1..Len(stream[s]) :
       LET b == SubSeq(stream[s], 1, n) IN
         /\ readbuf' = [readbuf EXCEPT ![s] = b]
         /\ stream'  = [stream EXCEPT ![s] = SubSeq(@, n + 1, Len(@))]
         /\ hazard'  = IF CutsRequest(b) THEN Noted(s, "cut") ELSE hazard
  /\ UNCHANGED <<sock, proc, asked, history>>

\* A token without "INVITE" is printed and ignored.
Ignore(s) ==
  LET token == Token(Skip(readbuf[s])) IN
    /\ proc[s] = "up" /\ readbuf[s] # << >>
    /\ ~IsRequest(token)
    /\ readbuf'  = [readbuf EXCEPT ![s] = Rest(Skip(@))]
    /\ answered' = IF IsReply(token)
                   THEN [answered EXCEPT ![s] = Append(@, Head(token).id)] ELSE answered
    /\ UNCHANGED <<sock, stream, proc, asked, written, handled, hazard>>

\* A complete request is parsed, served by its handler and answered.  With the
\* peer gone, the reply is lost or kills: the Area here, the Core at its flush.
Handle(s) ==
  LET token == Token(Skip(readbuf[s]))
      id    == Head(token).id
  IN
    /\ proc[s] = "up" /\ readbuf[s] # << >>
    /\ IsRequest(token) /\ Complete(token)
    /\ handled' = [handled EXCEPT ![s] = Append(@, id)]
    /\ \/ /\ readbuf' = [readbuf EXCEPT ![s] = Rest(Skip(@))]
          /\ stream'  = IF proc[Peer(s)] = "up"
                        THEN [stream EXCEPT ![Peer(s)] = @ \o Reply(id)] ELSE stream
          /\ UNCHANGED <<proc, hazard>>
       \/ s = "area" /\ proc["core"] = "dead" /\ Die(s, "pipe")
    /\ UNCHANGED <<sock, asked, written, answered>>

\* A truncated request has no well-formed body: xmlParseMemory returns NULL, so
\* does xmlGetProp, and dealMsg builds a std::string from NULL.
Fault(s) ==
  LET token == Token(Skip(readbuf[s])) IN
    /\ proc[s] = "up" /\ readbuf[s] # << >>
    /\ IsRequest(token) /\ ~Complete(token)
    /\ Die(s, "fault")
    /\ UNCHANGED <<sock, asked, history>>

-----------------------------------------------------------------------------
Connecting == CreateSocket \/ Connect
Reading(s) == Read(s) \/ Ignore(s) \/ Handle(s) \/ Fault(s)

Next ==
  \/ Connecting
  \/ \E s \in Nodes : SendRequest(s) \/ SendNowhere(s) \/ SendToTheDead(s)
  \/ SendUnconnected \/ FlushToTheDead
  \/ \E s \in Nodes : Reading(s)

Spec == Init /\ [][Next]_vars

\* The receiving threads loop for ever; operators owe no requests.
FairSpec ==
  /\ Spec
  /\ WF_vars(Connecting)
  /\ \A s \in Nodes : WF_vars(Reading(s))

-----------------------------------------------------------------------------
Ids == 1..MaxRequests
Pieces == {Request(i)[k] : i \in Ids, k \in 1..3} \cup {Reply(i)[k] : i \in Ids, k \in 1..3}

\* Streams and buffers hold pieces of the two kinds of message, and the
\* histories hold numbers of requests that were sent.
TypeOK ==
  /\ sock \in {"none", "created", "connected", "refused"}
  /\ \A s \in Nodes :
       /\ Range(stream[s]) \subseteq Pieces /\ Range(readbuf[s]) \subseteq Pieces
       /\ Range(written[s]) \cup Range(handled[s]) \cup Range(answered[s]) \subseteq Ids
  /\ proc \in [Nodes -> {"up", "dead"}]
  /\ asked \in [Nodes -> 0..MaxRequests]
  /\ hazard \in [Nodes -> SUBSET {"cut", "unconnected", "pipe", "fault"}]

\* However the stream is cut and coalesced, each node serves exactly the
\* requests the other wrote, in order and once, and its replies come back in
\* that order: no reply is taken for a request, nothing is skipped.
ServedInOrder ==
  \A s \in Nodes :
    /\ IsPrefix(handled[Peer(s)], written[s])
    /\ IsPrefix(answered[s], handled[Peer(s)])

\* Coalesced reads, reads that end inside a reply or before a header, and late
\* fragments never kill a process.  Whenever one is dead, a process died of its
\* own doing: it read a piece of the stream that ended inside a request, or it
\* is the Area and sent with no connection established.  The other one can only
\* follow it, by writing to it after its death.
Culprit(s) == proc[s] = "dead" /\ hazard[s] \cap {"cut", "unconnected"} # {}

OnlyACutKills ==
  \A s \in Nodes : proc[s] = "dead" =>
    Culprit(s) \/ ("pipe" \in hazard[s] /\ Culprit(Peer(s)))

\* While both processes live, what the stream holds is answered.
EveryRequestAnswered ==
  \A s \in Nodes : \A i \in Ids :
    (i \in Range(written[s])) ~>
      (i \in Range(answered[s]) \/ \E t \in Nodes : proc[t] = "dead")

\* My_connec.cpp:64, "error handling: the string's format is wrong": a message
\* whose format is wrong is an error a process survives.
SurvivesBadFormat == \A s \in Nodes : "fault" \notin hazard[s]

=============================================================================
