# Core_Area: a TLA+ model of the Core Node, the Area Node and libxmlrpc

`src/codeblocks` holds two programs of a video-surveillance network. The *Core
Node* listens on a TCP port, the *Area Nodes* (MUs) connect to it, and both ends
exchange *commands*: a SIP-like header (`INVITE`, `Via`, `To`, `From`, `CSeq`,
`Content-Length`), an XML body, and `||` in front. Every command is answered.
`src/libxmlrpc` holds a separate XML-RPC library with a SIP transport, two
programs on it (`xmlrpcserver`, `xmlrpcclient`), and vendored Xerces headers; the two
nodes do not use it.

## 1. Inventory

| component | code | state it keeps | operations | interacts with |
|---|---|---|---|---|
| connection registry and event loop | `Core_Node/include/Server.h`, `Connection.h`, `Core_node.cpp` `run` | `connections` (fd to object), `ip_fd` (address to fd), one object and one bufferevent per connection | `listenerCallback`, `addConnection`, `addFd_IP`, `eventCallback`, `removeConnection`, `signalCallback`, `sendToClient`, `sendToAllClients`, `start`, `update` | libevent's thread calls the callbacks; the main thread calls the two sends on the same maps; no lock |
| session | `My_connec.cpp`, `TCP_Client.cpp`, `Message_handler.*` of both nodes | the socket, the current read buffer, `sip_msg` | `conn`, `send_data`, `receive`, `onRead`, `str_to_sipmsg`, `create_*_header`, `msg_to_str` | one TCP stream in each direction; each node's main thread and reading thread write into the same stream |
| command senders | `Area_node.cpp` (10 commands), `Core_node.cpp` (18) | the node's `sip_msg`, `cseq` | one method per command: struct to XML, header, send | called by the operator's console loop |
| parsers and dispatch | the two `XML_Parse.h`, `Core_callback.h`, `Area_callback.h` | `funmap` (command to method), `pcb_FunMap` (command to callback), the struct being filled | `DealMessage::operator()`, one method per command | called by the session's reader; call the program's callbacks |
| programs | the two `main.cpp` | none | register callbacks, start the thread, console loop | all of the above |
| libxmlrpc: protocol and connection | `ulxr_sip_protocol.cpp`, `ulxr_protocol.cpp`, `ulxr_connection.cpp`, `ulxr_tcpip_connection.cpp` | per object: state of the parser, the line being read, header properties, bytes remaining, socket | `connectionMachine`, `readRaw`, `open`, `accept`, `write`, `close`, `detach` | owned by a requester, by one of its threads, or by the dispatcher |
| libxmlrpc: requester | `ulxr_requester.cpp`, `xmlrpcclient.cpp` | the protocol, `cntPendingRequests`, one thread per threaded call | `call`, `transmit`, `threadedCall`, `dispatchThreaded`, `waitForResponse` | writes calls to connections it opens, or reuses |
| libxmlrpc: dispatcher | `ulxr_dispatcher.cpp`, `xmlrpcserver.cpp` | the protocol, the method table | `waitForCall`, `dispatchCall`, `sendResponse`, the server's loop | one connection at a time; 23 handlers |
| libxmlrpc: calls and values | `ulxr_callparse.cpp`, `ulxr_responseparse.cpp`, `ulxr_value.cpp`, `ulxr_signature.cpp` | none | a parser per command, in both directions; the XML of values; signatures | used by requester and dispatcher |

What is hard about each, and what makes it correct:

- **Registry.** Two threads, two maps, no lock, and two kinds of resources that are
  reused: descriptors and the addresses of bufferevents. Correct means that the maps
  agree whenever no callback is half done, that an entry never outlives its
  connection, that an accept always finds its slot free, that a message for an
  address reaches a client accepted from it, and that only a client's going, or the two
  threads meeting in one map, can cost the process its life.
- **Session.** TCP cuts and joins messages anywhere; both ends send requests at any
  time; either process may die. Correct means that each request is served once and in
  order, that a reply is never mistaken for a request, and that what is in the stream
  is eventually answered. Nothing in either node ignores SIGPIPE, so that writing to a
  peer that has died may kill the writer too.
- **Commands.** The two ends of each command are written in two programs, by hand,
  from the same table of names. Correct means that each field and each list entry
  arrives where it left from, in any node order, with the right count, and that no
  table entry is missing.
- **XML-RPC transport.** Messages have a header that ends in an empty line and a body
  with a length; TCP cuts them anywhere, a requester reuses a connection on which an
  earlier response may still be under way, its threads outlive the call that began
  them, waits time out, a write times out after a part of its message and the connection
  stays open, and either program may end. Correct means that each call is
  taken for what was written and served once, that a response goes to one call and to
  the right one as far as the code can tell, that the counter of pending requests is
  exact, and that no call and no server hangs.
- **XML-RPC commands.** 45 commands are parsed by hand-written methods, three of them in two
  forms that the parser must tell apart, and a method is found by name *and*
  signature. Correct means that what is parsed is what was built, whatever is left
  out, that a call finds its own handler, and that its answer is read back.

`PROJECT.json` lists the hazards found at their lines, each with the properties that
watch it or the reason why none does.

## 2. Modules

| module | what it is |
|---|---|
| `ClientDirectory` | abstract specification of the registry: members, and per address the member that represents it; `Join` and `Leave` are atomic |
| `CoreServer` | the registry, the event-loop thread and the main thread's sends; one action per access to a shared map or buffer |
| `MCCoreServer` | the symmetry for TLC |
| `Session` | one connection, both ends: framing, requests, replies, reading, death |
| `CommandFormat` | vocabulary for what a sender prints and a parser reads |
| `AreaCommands`, `CoreCommands` | the 28 commands: `Send_X` from the sender, `Parse_X` from the method of the other node |
| `CommandExchange` | one command at a time through sender, dispatch, parser and callback |
| `RemoteCalls` | abstract specification of the RPC service: calls are made, served at most once, and end in failure, unanswered, or with a response that no other call has |
| `SipProtocol` | one protocol object: the iterations of `connectionMachine`, `readRaw`, the resets; messages as sequences of letters |
| `SipRpc` | a requester with its threads and `xmlrpcserver`'s loop over the connections between them |
| `MCSipRpc` | the lengths for TLC |
| `RpcValues` | values, their XML, and the parsers' readers |
| `RpcCalls` | per command: what a caller builds, what the server's parser reads, what the handler answers, what the client's parser reads |
| `RpcExchange` | one command at a time from caller to handler and back |
| `ClientDirectory_proofs`, `CoreServer_proofs` | theorems about the registry |
| `Session_proofs` | theorems about the session |
| `CommandExchange_proofs` | theorems about the 28 commands |
| `SipProtocol_proofs`, `SipRpc_proofs`, `SipStream_proofs` | theorems about the RPC transport, each module on the one before |
| `RpcExchange_proofs` | theorems about the RPC commands |

### CoreServer

A `std::map` is a total function whose absent keys hold `None`. A `My_connec` object
is never deleted by the code, so an object *is* its connection; a bufferevent is freed,
and `bev` says which object currently lives at each address. `conn[c]` never changes
after the accept, like the fields of the object: after `Free` its `bev` field dangles.

The event-loop thread is at one step at a time (`loop.at`):

    accept:  Accept -> addConnection -> addFd_IP -> Enable            (Server.h:211-241)
    EOF:     EofEvent -> eraseConnection -> eraseIp -> Free           (Server.h:286-295, 170-183)
    output:  Flush                                                    (libevent)
    other:   ErrorEvent, Signal, AcceptFails, LoopExit                (one step each)

The main thread is at one step of a send (`main.at`): `FindFd`, `FindConnection`,
`Write` for an address; `Broadcast`, then `AllLocate` and `AllNext` per entry. Both
interleave freely. Undefined behaviour is a choice of outcomes: an invalid iterator or
an `end()` that is dereferenced crashes the process or does nothing; a freed bufferevent
crashes, loses the message, or is the next owner's; a lookup while the other thread
changes the same map may miss entries that are there, or crash. The scan in
`removeConnection`, which increments an iterator it has just invalidated, completes or
crashes.

A send only puts its message into the output buffer of a bufferevent (`Connection.h:33`,
`bufferevent_write`), which the event loop writes to the socket later: `unsent` holds the
connections with such output, and `Flush` writes it. To a peer that has closed or reset
the connection the write may be lost, may raise SIGPIPE, which ends the process, or may
take the reset's pending error, which is printed, and leave the next read the end of the
stream. `CrashHasACause` says what a crash takes: a client that is going and not freed yet,
or two threads in one map. No order of accepts and closes of itself makes the process
crash in a send that nothing overlaps.

`overlap` and `sent` are history variables: whether a registry callback ran during the
current send, and whom the current broadcast has reached. `pass` tells `start()`'s
dispatch from the single `update()` that `run()` calls after it.

### Session

A message is three pieces of the stream: its `||` with at most a part of its first word,
its header, its body. A read takes any prefix of what has arrived. Where exactly inside a
piece it ends makes no difference: the header names its method twice (`INVITE` in the
first line and in `CSeq`), and a truncated body does not parse. The union in `msg_start` is modelled
as such: `create_reply_header` writes the version over the method, which is why
`msg_to_str`, which prints `u.request.method` also into replies, does not print `INVITE`
there, and that alone keeps the other end from serving a reply as a request.

A process that dies resets the connection. What the other node then sends is lost or
raises SIGPIPE: in the Area Node in the call of `send` (`SendToTheDead`, `Handle`), in the
Core in the same places when the event loop writes at once, or later, when it flushes what
a bufferevent still holds (`FlushToTheDead`). A send on a socket that exists and is not
connected raises it as well (`SendUnconnected`); with no socket, or at a Core that has no
client, a send only prints an error (`SendNowhere`). `hazard` notes per node what it did or
read that may kill it, so that `OnlyACutKills` can tell the node that died of its own
doing from the one that followed it.

Assumptions: a message is appended to the stream in one step (the Core's two writers of
one evbuffer are not locked; that race is listed as a hazard and not modelled), field
texts contain no `|` and no `INVITE`, and a read fits its 10240-byte buffer.

### Commands

A value is the tuple of the struct fields its text was printed from, so that the model can
tell a field that arrives from one that is missing, misplaced or joined with another.
Each `Send_X` gives the nodes of its document in order with the fields they carry; each
`Parse_X` gives for each tag it tests the fields its branch copies to. `CommandExchange`
builds the document as sections in document order, one per list and one, named `flat`,
for the parameters outside any list, and walks it as the methods do, with a pointer each
for the node, the `URL` and the leaf: `ParseNode` copies one leaf's text, `NextEntry` is
the end of a `URL`, where `i` advances (`Counting`), and `EndList` the end of a list, where
`urlNum = i` in those methods that set it. Two of the Area Node's methods, `ResTransOrder`
and `ResChangeOrder`, test the name of each node in `resources` and copy the text of
`resources` itself (`XML_Parse.h:1844-1876`, `1978-2010`): their reader is made of
`WholeRows`, and `Taken` gives each leaf the texts of all of them, joined. `Gaps` lists, per command, the
fields that are known not to arrive; the run shows that the list is complete and that
every entry of it is real. A text is taken to fit the field it is copied to, the joined
ones included. The caller is assumed to pass the name of the command along
with its struct, as both mains do. Reply bodies are left out: the receiver only prints them.

### SipProtocol and SipRpc

A message is a sequence of letters, each with its message, its place and the length of
the body; what character a letter *is* follows from its place: three header lines (the
first line, one line for all the fields that `buildResponseHeader` copies, the length),
the empty line, the body. That is enough for a cut to fall inside a line, between CR
and LF, at the empty line, and inside the body, and for the model to notice a letter
that is lost, repeated or taken from another message.

A protocol object is a record of the members the code keeps: `state`, whether the first
line was read (`first`), the line being assembled (`line`), the properties that matter
(`length`, `fields`), the remaining length (`remain`; -1 is unknown), the socket
(`conn`), the characters in the read buffer (`have`) and the body so far (`data`).
`Machine(e)` is one iteration of the loop in `connectionMachine`; `Read(e)` one
`readRaw`, of any number of characters up to its limit. Both ends use the same two
actions, as the code does. `headerprops` survives `resetConnection`, because the call
that cleared it is commented out; what clears it is `clearSipHeader`.

The requester's actions follow `send_call`: `Reuse` an open connection, `Open` one, or
`OpenRefused`, where `connect` throws and leaves the handle behind; `Send`, `SendFails` or
`SendTimesOut`; then wait, or hand the protocol to a thread, or neither. `Respond`,
`Timeout` and `ReadFails` end a wait, with the closings each path makes. A response may
also make the caller throw, since a fault's XML lacks an end tag. `SendTimesOut` is
`Connection::write` when `select` gives it no more room for ten seconds
(`ulxr_connection.cpp:293`): it throws, what was written stays written, and the connection
stays open, so the next call is written behind the piece. `Piece` is what was written; one
that ends between the digits of Content-Length announces a shorter body, of any length.
The server then reads the piece and what follows it as one call, or waits for the rest:
`Readable` says when the parser finds a call in it at all. `ServeTimesOut` is the same
timeout in the server, whose exception ends it (`Fail`). Three histories are there to
speak of this: `via`, the connection each call is made on; `stalled`, the connections on
which writing a call has timed out; `timedout`, whether anything has. `Quit` ends the
client's program at any time, also while a call is partly written. The server's actions
are those of `xmlrpcserver`'s loop; its exceptions leave `main`. `Shut` loses unread
and undelivered characters the way TCP does when a socket is closed early.

Assumptions: messages are not shorter than a read (`LengthAssumption`; the library's
buffer is 50 bytes; a piece of one may be), no header line begins with a blank, and both programs use the
same lengths for what they write and announce.

### RpcValues, RpcCalls, RpcExchange

As in the commands above, a text is the path of the place the caller filled with it. A
*shape* is what a program builds or a parser looks for; `Fill` gives the value a caller
builds from it, `getXml` its element, and `ReadAll` what the readers find by name and
index. No shape of the code nests deeper than a list of items of members that may be
structs, so there is one definition per level (`FillSimple`, `FillMember`, `FillItem`,
`Fill`, and likewise for the XML and the readers) and no recursion. `TextsOf` is where the
texts of a list of values lie, by which what was built and what was read are compared. The builders that `xmlrpcclient.cpp` compiles out under `#if 0` are modelled too
(only the four calls of interface B are active), because the server registers their
methods. A call that its parser rejects raises an exception that `main` does not catch;
a command that no parser knows is taken for `CuRegister`. `Unread`, `Unasked` and
`Misnamed` list what does not arrive and why: `AlarmHisQuery`'s server parser asks for
`starTime`; `HisPlayStart`, `PlayCtrl` and `CuKeepAlive` are answered under other names;
a call of interface B without its first parameters is taken for one of interface A; and
`QueryAlarmRes` of interface A is served by interface B's handler. The run shows
each list to be complete and each entry to be real. A response with a fault
lacks the end tag of its result (`ulxr_response.cpp:144-153`). The client parses it with a
`XercesDOMParser` that has no error handler (`ulxr_responseparse.cpp:227-228`), so it gets
the part of the document before the error, of whose code and text it makes a refusal
(270-275), or, should the parser throw, nothing: `waitForFault` allows both, `refused` and
`threw`. `parseQueryAlarmRes` would
dereference a null pointer on an answer with an empty group; the only handler always
sends two items.

## 3. Runs

| run | configuration | distinct states | shows |
|---|---|---|---|
| `core_registry` | 2 addresses, 2 descriptors, 3 connections, 2 bufferevents, symmetric | 1 million | `RegistryInv`, `RegistrySound`, `QuietSend`, `QuietSendArrives`, `CrashHasACause`; refinement `ImplementsDirectory` |
| `core_live` | 1 address, 2 of the others | 234 thousand | `ClosedConnectionReaped` |
| `core_reach` | as `core_live` | violation | a client that reconnects after an error is never reachable |
| `core_misdelivery` | 2 of each | violation | a message for one address reaches another client |
| `core_interrupt` | 1 of each | violation | SIGINT leaves the process running |
| `session` | 2 requests from each side | 16 thousand | `ServedInOrder`, `OnlyACutKills`, `EveryRequestAnswered` |
| `session_bad_format` | 1 request | violation | a cut request kills its reader |
| `commands` | 28 commands, lists of 0 to 2 entries, both node orders | one thousand | `FieldsArrive`, `CountsAgree`, `EveryCommandServed` |
| `commands_fields` | lists of one entry, the sender's order | violation | some fields do not arrive |
| `sip_rpc` | 2 calls of different lengths, reads of at most 2 characters, writes that stop after 13 | 239 thousand | `CallsArriveWhole`, `ResponsesBelong`, `PendingCounts`, `ServerStays`, `CallReturns`; refinement `ImplementsRemoteCalls` |
| `sip_own_response` | the same | violation | a call is given the response to an earlier one |
| `rpc_commands` | every command, up to 2 parameters left out or empty, lists of 0 to 2 items | 5 thousand | `CallArrives`, `OwnHandler`, `AnswerArrives`, `OnlyGapsTerminate` |

Why the bounds are enough. The registry's hazards need a descriptor and a bufferevent
that are handed out again (three connections over two of each), two connections of one
address and two addresses at once (two addresses), and a broadcast with an entry before
and one behind its iterator (two descriptors). Nothing in the code depends on larger
numbers; what the proofs cover holds for all. The liveness runs use fewer addresses
because symmetry is not used there. Two requests from each side give every coalescing
of two requests, of a request and a reply, and of replies, with every cut; a third adds
no new kind of neighbour. Two entries per list distinguish an index that stays, advances
once or advances twice; the arrays' limit of 101 entries is not modelled.

In `SipRpc`, reads of at most two characters put a cut at every place of every message,
with one and with two characters in the buffer, and make a body end with and without a
full buffer. Two calls are what it takes to reuse a connection, to be given a late
response, to write a call behind a piece of another, and to have a thread wait while the
requester goes on. `Cuts` bounds where a write may stop: after 13 characters, inside the
body, where the next call's first characters complete it, the server answers what it has
read, and the rest is left. Pieces that end in the header, a Content-Length that has lost
its last digits among them, are left to the proofs: with them the run is too large for
checking liveness. The proofs cover any number of calls, any lengths, any buffer and any
cuts. Interface A and B differ by two
parameters, so leaving out two, or one, or leaving them empty, covers every way of
confusing them; zero, one and two items per list distinguish an index that stays from
one that advances.

`MaxRequests`, `MaxRows`, `MaxCalls`, `Cuts`, `MaxItems`, `MaxGaps` and the sets of connections
are the only bounds; `Conns` bounds the accepts because objects are never deleted. Deadlock checking is off where the
system may stop: all processes ended, or every request made and answered.

Fairness. `CoreServer` assumes weak fairness of `Callback`: libevent runs ready events,
and a thread inside a callback continues. Accepts, peers, the operator and the sender of
SIGINT owe nothing. `Session` assumes weak fairness of connecting and of each node's
reading step, which are endless loops in the code; nobody is obliged to send. `SipRpc` assumes weak fairness of the client's next
step of a call under way (`Calling`), of the server's loop (`Serving` and its reads),
and of each of the client's ends that waits: both programs run on. Nobody owes a call,
a start of the server, a timeout or an end, with one exception: on a connection with a
call written in part, where nothing is left to read, the server's timeout does come
(`WF_vars` of `ServerTimeout` under that condition), since such a stream may end inside a
message and `select` is certain to return after its ten seconds. So `CallReturns` shows
that no call needs the client's timeout to return, and none the server's unless a write
has timed out. Each
liveness property excuses the ends the code really has: the loop stopping, a reset, a
process dying.

The violations are disagreements between the code and what its comments or messages say;
`PROJECT.json` quotes them.

## 4. Proofs

`CoreServer_proofs` proves, for every set of addresses, descriptors, connections and
bufferevents (assumptions: descriptors are natural numbers, `None` is none of the
others):

- `RegistryCorrect`: `Spec => [](TypeOK /\ RegistryInv)`; from it `TypeCorrect`,
  `RegistryIsSound`;
- `QuietSendCorrect`: `Spec => []QuietSend`; from it the action property
  `QuietSendsArrive`;
- `CrashesHaveACause`: the action property `CrashHasACause`, from both and `CrashInv`.

`RegistrySound` is not inductive: between callbacks the maps agree only because of what
each half-done callback has established. `RegistryInv` adds it, in five parts. `DistinctFds` is the
kernel's promise carried along. `EntriesLive` says that an entry's object still owns its
bufferevent. `CallbackObject` states, per step, what the callback under way has already
done to the maps: this is where the order of `removeConnection` and `bufferevent_free`
matters, since the slot of a descriptor is empty before the kernel may reuse it.
`ReadersRegistered` says that only registered connections raise events, and
`AddressesSound` is the address map with its one gap, between the two erasures. The proof
takes one lemma per part and one step per action. `QuietSend` builds on it: while
`overlap` is false no step of the event loop has changed the maps, so each lookup's
result is still valid at the next step; this is the whole of what the code guarantees
its senders. `CrashInv` follows what a crash can come from: output waits only for objects
that are live, a bufferevent belongs to the object that points to it, and a connection is
being removed only after its peer has closed it, so a send that nothing overlaps writes
to a live buffer, and the flush and the scan of `removeConnection` crash only at a client
that is going.

`ClientDirectory_proofs` proves `DirectoryIsSound` for the abstract directory, and
`DirectoryImplemented` in `CoreServer_proofs` that the registry implements it:
`Spec => ImplementsDirectory`. The mapping takes the accepted, unfinished objects for
members and `Holder(ip)`, the live object of the descriptor the address leads to, for the
representative. It is a `CHOOSE`; `HolderIsLive` proves from `RegistryInv` that it has
exactly one object to choose from. Then `addFd_IP` is a `Join` and `eraseIp` a `Leave`,
and every other step leaves members and representatives alone. The steps hard to hide
are `eraseConnection`, after which the address still leads to the descriptor of an object
that `connections` no longer holds, and `Free`, after which the object is no longer live:
no address leads to it by then.

`Session_proofs` proves the safety properties of the run `session`, for any number of
requests and for reads that end anywhere (assumption: `MaxRequestsAssumption`):
`TypeCorrect`, `RequestsServedInOrder` and `DeathHasACause`. `ServedInOrder` speaks only of
histories, so the invariant `IInv` says where the messages are that they do not name yet.
A node's *inbox* is what its read holds and its stream still carries. `Framed` says that
its pieces come in a message's order, `||`, header, body, and, while both processes
live, that it ends with a body, so a message may be appended to it. `RequestsOwed(s)` says
that the requests' headers in the inbox are, in order, the next entries of what the other
node wrote after those handled here; `RepliesOwed(s)` the same of the replies' headers and
what the other node handled. `Carries` counts them with a function on the positions of the
inbox, since a filter of a sequence would be recursive. `CutNoted` remembers why a read
that ends inside a request is the only one that can kill its reader; `OnlyACutKills` is
part of the invariant as it stands, since `hazard` tells the node that died first
(`DeathBlamed`). The proof has one
lemma per action, on lemmas about cutting off a token, a read or a message from either end
of an inbox.

`CommandExchange_proofs` proves all four invariants of the run `commands`, for lists of any
number of entries and either document order (assumptions: `MaxRowsAssumption`,
`OrdersAssumption`): `TypeCorrect`, `CommandsServed`, `CountsKept`, `FieldsCarried`.

- The tables. `Legible(pairs, reader, gaps)` says of a sender's nodes and a parser's
  branches that, but for the fields in `gaps`, each text is copied to the one field it was
  printed from, and that each field of `gaps` is `Spoilt`: the sender fills it, and where its
  own text reaches it another node's does as well, before and after, so that either order
  overwrites it. `WellMade(c)` says that the two formats of command `c` are legible in every
  list, with the gaps in `Missing`, and how its lists are counted. The texts are those of
  `Seen`, what the reader takes for each node, which in a list read whole is all of them:
  there every field is `Spoilt`, as no node's text is the field's own. There is a lemma for
  each of the 28 commands, on a few lemmas about common forms, and `Formats` for all.
- The documents. `Describes(c, counts, d)`: document `d` has one section for each list of
  the command and one for the rest, legible and with the right entries. `DocumentDescribes`
  shows it of `Document`, in both orders.
- The walk. Of what a parser has read `FieldsArrive` says nothing, so `IInv` does:
  `Past` counts the leaves behind the pointers, entry by entry; `Copied` says that each field
  some leaf behind them is copied to holds the text of the last such leaf (`Fresh`), `Only`
  that no other field is written, `Indexed` that `i` is the number of entries left behind,
  and `Told` that the counter is set once its group is read. Two sections never write one
  field (`FieldsDiffer`), so a leaf disturbs only its own entry.
- At the callback `Past` is everything. `Arrival` then decides each field by its gaps, and
  `Uneven` shows that only `SetUserCamManage`'s users can have a loop that differs from what
  the caller filled.

The three `Sip*_proofs` modules prove every safety property of the run `sip_rpc` and its
refinement, for any buffer of at least one character, any number of calls and any
lengths and any places where a write stops (assumptions: `BufferAssumption`,
`MaxCallsAssumption`, `LengthAssumption`, `CutsAssumption`):

- `SipProtocol_proofs`: `FollowsMachine`. `Follows(p, n, m, len)` says what the fields
  of a protocol object are when it has consumed the first `n` characters of message
  `m`: a case per state of the parser, and within `ConnHeaderLine` a case per line. One
  iteration over the next characters takes `Follows` at `n` to `Follows` at what it has
  consumed. It is here that the arithmetic of the remaining length is shown right: `remain`
  plus what was read is the announced length, so a read never passes the end of a
  message, and `Complete` means all of it.
- `SipRpc_proofs`: `AlwaysTyped`, the types of every variable together with `Owners`
  (at the client a connection has one owner, and an end that waits has one) and
  `Buffers` (no buffer counts more than its stream holds); `PendingCountsHold`, from
  `Counted`; and `AlwaysWays`: a call is made on a connection not younger than itself, and
  the end that makes it or waits for it holds that connection. `Growing` says of every step
  that no call changes its connection and no connection ceases to be stalled.
- `SipStream_proofs`: `AlwaysReceiving`, then `CallsArriveWholeHolds`. `CallsArriveWhole` says
  nothing of streams, so it is far from inductive. `Arriving(c, n)` adds that what is in
  the stream of connection `c` continues call `c` after its `n`-th character, and that
  nothing follows a call that was not written to its end, unless `c` is stalled; `Streams`
  says that the connections in the backlog are at 0 and the server's is where its parser
  `Follows`. Of a stalled connection no position is known: `Carriage` keeps what still
  holds, that every letter there, and in the server's hands, is of a call made on it
  (`Heard`), and `Once` that one call is served on a connection and none yet on the one
  accepted. That is enough for no call to be served twice, whatever the pieces make.
- `SipStream_proofs`, the other direction: `AlwaysResponding`, then
  `ResponsesBelongHolds`. Several calls may be made on one connection and, after a write
  that timed out, the one served there need not be the one that opened it; so the invariant
  speaks of connections and of the call served on each. `Told(c)` are the letters of that
  call's response. `Hearing` says that connection `c` carries only those, in order, that an
  end which listens has such as come before them, and that neither has any while `c` is
  `Mute`: no call `Served` there, or its response taken (`Exhausted`). So a body that
  parses is the whole response and leaves nothing behind, also after a response written in
  part. `Answers` holds, in `Given`, that of the calls made on a connection only the last
  awaits a response: the others, unless the response was taken, were given up.
  The module then proves `ServerStaysHolds` (the strengthening, `Stays`: before a timeout no
  connection is closed by the client before it was served), `TypeOKHolds`, and
  `RemoteCallsImplemented`, by one lemma per kind of step.

`RpcExchange_proofs` proves all five invariants of the run `rpc_commands`, for lists of any
number of items and any set of parameters left out or empty (assumptions:
`MaxItemsAssumption`, `MaxGapsAssumption`): `TypeOKHolds`, `CallArrivesHolds`,
`OwnHandlerHolds`, `AnswerArrivesHolds`, `OnlyGapsTerminateHolds`. The state machine is
simple and the data is not, so most of the module is about `RpcValues`.

- The tables. What a call has and what a parser looks for are two tables of parameters.
  `Table` says that the names of one level differ from each other, so a name read is a name
  written. `Readable(P, C)` says that whatever parser `P` looks for and call `C` has is of
  one kind in both, simple, a struct or a list, and so are the members of a list's items.
- One reader, any table. `ReadTable` shows that a reader of a readable table reads each
  text in its own place or not at all: nothing goes astray, at any index of any list, and
  the texts that arrive are those of the fields that both tables have. It rests on `Ranks`,
  since `Only` numbers what is left of a sequence: a parameter left out moves all those
  behind it, and reading by name undoes that. `LostWithin` bounds what is lost by the names
  the parser does not look for (`Covers`, `Spared`), and shows that a complete call loses
  just those. `ReadCall` shows that the parser gives up exactly when one of its parameters
  that is no struct is not there, and that the signature otherwise is that of its own
  table, which no longer depends on the call.
- The 48 forms. `Received(f, g, C, P)` says that the parser of form `f`, given the gaps
  `g`, is such a reader of the call `C`, loses the fields of `Unread` and no others, and has
  a signature that finds the handler which `OwnHandler` names, or none. `PlainReceived`
  shows it of the 42 forms whose caller and parser have one table each; the three commands
  with two interfaces have lemmas of their own, since their parser depends on the gaps:
  with both of `muId` and `muName` gone a `ReportAlarmRes` is read as interface A's, with
  one gone it is rejected. A call of `listMethods` is always rejected. `Delivered` says
  the same of an answer and the client's parser, with `Unasked`.
- The steps. None of the five is inductive: they say nothing of how `params` came from
  `sent`. `IInv` says, phase by phase, that each variable is what the steps so far make of
  one call of the form with the gaps chosen, and only of such a call; each invariant follows
  from it and from `Received` or `Delivered`.

Only model-checked: all liveness (`ClosedConnectionReaped`, `EveryRequestAnswered`,
`CallReturns`), since fairness and `ENABLED` are out of the prover's reach. Every invariant
and both refinements of the passing runs, and the action properties `QuietSendArrives` and
`CrashHasACause`, are theorems. The runs that show violations are counterexamples and need no proof.

## 5. Not modelled

In the two nodes: texts, their lengths and the fixed buffers they are copied to, so also
what `strcpy` of the joined text of `resources` does to a field too short for it; the
sequence number, which is written and never compared; the contents of replies;
`xmlCleanupParser` called while the other thread uses libxml2; the failure of `setup`,
which `run` ignores; ZThread's executor beyond the thread it starts;
`Area_Node/include/My_connec.h`, which nothing uses.

In libxmlrpc: the failure of `pthread_create`; authentication, chunked and
WBXML transfers, which are compiled out or which no program uses; `removeMethod`, which
nothing calls; number formats, escaping and encodings; the types no command uses
(base64, date, double, boolean); the helpers for strings, exceptions and mutexes, which
keep no state of the protocol. `transmit` tells the server nothing: it answers
transmitted calls like others, as in the code.

Xerces is third-party: its headers are most of the repository's lines, and nothing in
them is this system's behaviour.

## 6. Plan

1. Done: registry with its abstract directory and proofs; session; commands of the
   nodes; the RPC transport with its abstract service and proofs; the RPC commands.
2. Done: proofs of every safety property the runs check, and of both refinements.
3. Model: the two unlocked writers of one bufferevent, as a refinement of the step that
   appends a message in `Session`; the composition of `CoreServer`'s event loop with
   several sessions, so that a write to a reused bufferevent reaches the other session's
   stream.
4. `Dispatcher::removeMethod` and more than one requester, should a program use them.
