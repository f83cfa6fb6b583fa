----------------------------- MODULE CoreServer -----------------------------
(***************************************************************************)
(* The Core Node's connection registry and the two threads that use it:    *)
(* the libevent loop (Server<T>'s static callbacks, run by the executor    *)
(* thread) and the main thread, whose 18 senders all end in                *)
(* Server<T>::sendToClient or Server<T>::sendToAllClients.  The code has   *)
(* no lock: each step below is one access to a shared map or buffer, and   *)
(* the two threads' steps interleave freely.  A lookup while the other     *)
(* thread changes the same map is a data race: it may miss or skip entries *)
(* that are there, or crash.                                               *)
(*                                                                         *)
(* std::map is a total function whose absent keys hold None.  A My_connec  *)
(* object is never deleted, so it is identified with its connection; a     *)
(* bufferevent is freed, and its address may be handed out again.          *)
(***************************************************************************)
EXTENDS Naturals, FiniteSets

CONSTANTS
  IPs,     \* peer addresses, the keys of ip_fd
  Fds,     \* descriptors the kernel may hand out, the keys of connections
  Conns,   \* My_connec objects, one per accepted connection (bounds accepts)
  Bevs,    \* addresses malloc may return for a bufferevent
  None

ASSUME FdsAssumption == Fds \subseteq Nat
ASSUME NoneAssumption == None \notin IPs \cup Fds \cup Conns \cup Bevs

VARIABLES
  connections, \* map<fd, T*>
  ip_fd,       \* map<ip, fd>
  conn,        \* the T objects: their fd, bev and the peer address accepted
  bev,         \* bufferevents: which object they belong to, None when free
  reading,     \* objects whose bufferevent has EV_READ enabled
  peer,        \* what the socket reports: "none", "up", "fin" or "rst"
  unsent,      \* objects whose bufferevent holds output to be written
  loop,        \* the event-loop thread: the callback step it is at
  main,        \* the main thread: the send step it is at
  overlap,     \* history: a registry callback ran during the current send
  sent,        \* history: objects the current broadcast has written to
  sigint,      \* SIGINT was caught
  pass,        \* run(): in start()'s "dispatch" or in update()'s last "update"
  proc         \* the process: "up", "crashed" or "exited"

registry == <<connections, ip_fd, conn, bev, reading>>
sockets  == <<peer, unsent>>
sender   == <<main, sent>>
exiting  == <<sigint, pass>>
vars == <<registry, sockets, loop, sender, overlap, exiting, proc>>

NoObject == [fd |-> None, bev |-> None, ip |-> None]
Idle     == [at |-> "idle", c |-> None]
MainIdle == [at |-> "idle", ip |-> None, fd |-> None, c |-> None]

Created(c) == conn[c] # NoObject
Live(c)    == Created(c) /\ bev[conn[c].bev] = c
OpenFds    == {conn[c].fd : c \in {d \in Conns : Live(d)}}
Registered == {fd \in Fds : connections[fd] # None}

\* std::map iterates in the order of its keys.  Mutant: from the last one.
First_last(fd, S) == fd \in S /\ \A g \in S : g <= fd
First(fd, S)      == fd \in S /\ \A g \in S : fd <= g

Running    == proc = "up" /\ loop.at # "stopped"
InCallback == loop.at \notin {"idle", "stopped"}

\* The event-loop thread is inside an insert or an erase of that map.
ConnectionsChanging == loop.at \in {"addConnection", "eraseConnection"}
AddressesChanging   == loop.at \in {"addFd_IP", "eraseIp"}

Init ==
  /\ connections = [fd \in Fds |-> None]
  /\ ip_fd       = [ip \in IPs |-> None]
  /\ conn        = [c \in Conns |-> NoObject]
  /\ bev         = [b \in Bevs |-> None]
  /\ reading     = {}
  /\ peer        = [c \in Conns |-> "none"]
  /\ unsent      = {}
  /\ loop        = Idle
  /\ main        = MainIdle
  /\ overlap     = FALSE
  /\ sent        = {}
  /\ sigint      = FALSE
  /\ pass        = "dispatch"
  /\ proc        = "up"

-----------------------------------------------------------------------------
(* The event-loop thread: listenerCallback, one step per shared access.    *)

\* Every registry callback notes whether a send of the main thread is open.
Touch == overlap' = (overlap \/ main.at # "idle")

LoopAt(step) == Running /\ loop.at = step
LoopTo(step, c) == loop' = [at |-> step, c |-> c]

\* accept() returned fd for a peer at ip; bufferevent_socket_new and new T.
Accept(c, ip, fd, b) ==
  /\ LoopAt("idle")
  /\ ~Created(c)
  /\ fd \notin OpenFds
  /\ bev[b] = None
  /\ conn' = [conn EXCEPT ![c] = [fd |-> fd, bev |-> b, ip |-> ip]]
  /\ bev'  = [bev EXCEPT ![b] = c]
  /\ peer' = [peer EXCEPT ![c] = "up"]
  /\ LoopTo("addConnection", c)
  /\ Touch
  /\ UNCHANGED <<connections, ip_fd, reading, unsent, sender, exiting, proc>>

\* event_base_dispatch returns, and run() calls update(), which handles what is
\* ready once more; when that returns too, the thread ends.
LoopReturns ==
  \/ pass = "dispatch" /\ pass' = "update" /\ loop' = loop
  \/ pass = "update" /\ pass' = pass /\ LoopTo("stopped", None)

\* bufferevent_socket_new returned NULL: event_base_loopbreak, and return.
AcceptFails ==
  /\ LoopAt("idle")
  /\ LoopReturns
  /\ UNCHANGED <<registry, sockets, sender, overlap, sigint, proc>>

\* insert() keeps an entry that is already there.
addConnection ==
  /\ LoopAt("addConnection")
  /\ LET c == loop.c  fd == conn[c].fd IN
       /\ connections' = [connections EXCEPT ![fd] = IF @ = None THEN c ELSE @]
       /\ LoopTo("addFd_IP", c)
  /\ Touch
  /\ UNCHANGED <<ip_fd, conn, bev, reading, sockets, sender, exiting, proc>>

\* Mutant: ip_fd[ip] = fd, which overwrites, instead of insert().
addFd_IP_assigns ==
  /\ LoopAt("addFd_IP")
  /\ ip_fd' = [ip_fd EXCEPT ![conn[loop.c].ip] = conn[loop.c].fd]
  /\ LoopTo("enable", loop.c)
  /\ Touch
  /\ UNCHANGED <<connections, conn, bev, reading, sockets, sender, exiting, proc>>

addFd_IP ==
  /\ LoopAt("addFd_IP")
  /\ LET c == loop.c IN
       /\ ip_fd' = [ip_fd EXCEPT ![conn[c].ip] = IF @ = None THEN conn[c].fd ELSE @]
       /\ LoopTo("enable", c)
  /\ Touch
  /\ UNCHANGED <<connections, conn, bev, reading, sockets, sender, exiting, proc>>

\* bufferevent_setcb and bufferevent_enable.
Enable ==
  /\ LoopAt("enable")
  /\ reading' = reading \cup {loop.c}
  /\ loop' = Idle
  /\ Touch
  /\ UNCHANGED <<connections, ip_fd, conn, bev, sockets, sender, exiting, proc>>

-----------------------------------------------------------------------------
(* The event-loop thread: eventCallback and removeConnection.              *)

\* Mutant: BEV_EVENT_EOF is handled like BEV_EVENT_ERROR.
EofEvent_prints(c) ==
  /\ LoopAt("idle")
  /\ c \in reading /\ peer[c] = "fin"
  /\ reading' = reading \ {c}
  /\ UNCHANGED <<connections, ip_fd, conn, bev, sockets, loop, sender, overlap, exiting, proc>>

EofEvent(c) ==
  /\ LoopAt("idle")
  /\ c \in reading /\ peer[c] = "fin"
  /\ LoopTo("eraseConnection", c)
  /\ Touch
  /\ UNCHANGED <<registry, sockets, sender, exiting, proc>>

\* Mutant: removeConnection leaves connections alone.
eraseConnection_skipped ==
  /\ LoopAt("eraseConnection")
  /\ LoopTo("eraseIp", loop.c)
  /\ Touch
  /\ UNCHANGED <<registry, sockets, sender, exiting, proc>>

eraseConnection ==
  /\ LoopAt("eraseConnection")
  /\ connections' = [connections EXCEPT ![conn[loop.c].fd] = None]
  /\ LoopTo("eraseIp", loop.c)
  /\ Touch
  /\ UNCHANGED <<ip_fd, conn, bev, reading, sockets, sender, exiting, proc>>

\* Mutant: removeConnection leaves ip_fd alone.
eraseIp_skipped ==
  /\ LoopAt("eraseIp")
  /\ LoopTo("free", loop.c)
  /\ Touch
  /\ UNCHANGED <<registry, sockets, sender, exiting, proc>>

\* The scan erases the entries of fd.  After an erase it increments the
\* iterator of the erased node: the scan goes on, or the thread crashes.
eraseIp ==
  /\ LoopAt("eraseIp")
  /\ LET fd == conn[loop.c].fd  hit == \E ip \in IPs : ip_fd[ip] = fd IN
       /\ ip_fd' = [ip \in IPs |-> IF ip_fd[ip] = fd THEN None ELSE ip_fd[ip]]
       /\ \/ proc' = proc
          \/ hit /\ proc' = "crashed"
  /\ LoopTo("free", loop.c)
  /\ Touch
  /\ UNCHANGED <<connections, conn, bev, reading, sockets, sender, exiting>>

\* bufferevent_free closes the descriptor; the T object is never deleted.
Free ==
  /\ LoopAt("free")
  /\ bev' = [bev EXCEPT ![conn[loop.c].bev] = None]
  /\ reading' = reading \ {loop.c}
  /\ peer' = [peer EXCEPT ![loop.c] = "none"]
  /\ unsent' = unsent \ {loop.c}
  /\ loop' = Idle
  /\ Touch
  /\ UNCHANGED <<connections, ip_fd, conn, sender, exiting, proc>>

\* libevent stops reading on an error; eventCallback itself only prints.
ErrorEvent(c) ==
  /\ LoopAt("idle")
  /\ c \in reading /\ peer[c] = "rst"
  /\ reading' = reading \ {c}
  /\ UNCHANGED <<connections, ip_fd, conn, bev, sockets, loop, sender, overlap, exiting, proc>>

\* The loop writes a bufferevent's output to its socket.  To a peer that has
\* closed or reset the connection it may be lost, or raise SIGPIPE, which
\* nothing in the process ignores; or the write takes the reset's error, is
\* printed, and the next read finds the end of the stream.
Flush(c) ==
  /\ LoopAt("idle")
  /\ c \in unsent
  /\ unsent' = unsent \ {c}
  /\ \/ UNCHANGED <<peer, proc>>
     \/ peer[c] \in {"fin", "rst"} /\ proc' = "crashed" /\ UNCHANGED peer
     \/ /\ c \in reading /\ peer[c] = "rst"
        /\ peer' = [peer EXCEPT ![c] = "fin"]
        /\ UNCHANGED proc
  /\ UNCHANGED <<registry, loop, sender, overlap, exiting>>

\* signalCallback: event_base_loopexit with a delay of two seconds.
Signal ==
  /\ LoopAt("idle")
  /\ ~sigint
  /\ sigint' = TRUE
  /\ UNCHANGED <<registry, sockets, loop, sender, overlap, pass, proc>>

\* The two seconds are over, or update() is done with what was ready.
LoopExit ==
  /\ LoopAt("idle")
  /\ sigint \/ pass = "update"
  /\ LoopReturns
  /\ UNCHANGED <<registry, sockets, sender, overlap, sigint, proc>>

-----------------------------------------------------------------------------
(* The peers.                                                              *)

PeerCloses(c) ==
  /\ proc = "up" /\ peer[c] = "up"
  /\ peer' = [peer EXCEPT ![c] = "fin"]
  /\ UNCHANGED <<registry, unsent, loop, sender, overlap, exiting, proc>>

PeerResets(c) ==
  /\ proc = "up" /\ peer[c] \in {"up", "fin"}
  /\ peer' = [peer EXCEPT ![c] = "rst"]
  /\ UNCHANGED <<registry, unsent, loop, sender, overlap, exiting, proc>>

-----------------------------------------------------------------------------
(* The main thread: a sender of Core_node, with an ip or with NULL.        *)

MainTo(step, c) == main' = [at |-> step, ip |-> main.ip, fd |-> main.fd, c |-> c]
MainAt(step) == proc = "up" /\ main.at = step

\* Mutant: sendToClient uses the result of find() without comparing it to end().
FindFd_untested(ip) ==
  /\ MainAt("idle")
  /\ main' = [at |-> "findConnection", ip |-> ip, fd |-> ip_fd[ip], c |-> None]
  /\ overlap' = InCallback
  /\ UNCHANGED <<registry, sockets, loop, sent, exiting, proc>>

\* sendToClient: ip_fd.find(ip); when it finds nothing it prints "not foudn"
\* and nothing changes.
FindFd(ip) ==
  /\ MainAt("idle")
  /\ ip_fd[ip] # None
  /\ main' = [at |-> "findConnection", ip |-> ip, fd |-> ip_fd[ip], c |-> None]
  /\ overlap' = InCallback
  /\ UNCHANGED <<registry, sockets, loop, sent, exiting, proc>>

FindFdRaces ==
  /\ MainAt("idle")
  /\ AddressesChanging
  /\ proc' = "crashed"
  /\ UNCHANGED <<registry, sockets, loop, sender, overlap, exiting>>

SendDone == main' = MainIdle /\ overlap' = FALSE /\ sent' = {}

\* Mutant: sendToClient keeps it = connections.begin().
FindConnection_begin ==
  /\ MainAt("findConnection")
  /\ \E fd \in Registered : First(fd, Registered) /\ MainTo("write", connections[fd])
  /\ UNCHANGED <<registry, sockets, loop, overlap, sent, exiting, proc>>

\* connections.find(fd), dereferenced without a test against end(): when it
\* finds nothing the process crashes or the message goes nowhere.
FindConnection ==
  /\ MainAt("findConnection")
  /\ \/ /\ connections[main.fd] # None
        /\ MainTo("write", connections[main.fd])
        /\ UNCHANGED <<overlap, sent, proc>>
     \/ /\ connections[main.fd] = None \/ ConnectionsChanging
        /\ SendDone
        /\ proc' \in {"up", "crashed"}
  /\ UNCHANGED <<registry, sockets, loop, exiting>>

\* bufferevent_write through the object's bev pointer: into its own buffer, a
\* freed one (crash, or lost), or whichever buffer lives at that address now.
Receiver(c) == bev[conn[c].bev]
Buffered(c) == unsent' = unsent \cup ({Receiver(c)} \cap Conns)

Write ==
  /\ MainAt("write")
  /\ Buffered(main.c)
  /\ SendDone
  /\ \/ proc' = proc
     \/ Receiver(main.c) = None /\ proc' = "crashed"
  /\ UNCHANGED <<registry, peer, loop, exiting>>

\* sendToAllClients: the iterator is the fd of the entry it points to.
Broadcast ==
  /\ MainAt("idle")
  /\ \E fd \in Registered :
       /\ First(fd, Registered)
       /\ main' = [at |-> "all", ip |-> None, fd |-> fd, c |-> None]
  /\ overlap' = InCallback
  /\ UNCHANGED <<registry, sockets, loop, sent, exiting, proc>>

\* it->second; an erased entry is a dangling iterator.
AllLocate ==
  /\ MainAt("all")
  /\ \/ /\ connections[main.fd] # None
        /\ MainTo("allWrite", connections[main.fd])
        /\ UNCHANGED <<overlap, sent, proc>>
     \/ /\ connections[main.fd] = None
        /\ SendDone
        /\ proc' \in {"up", "crashed"}
  /\ UNCHANGED <<registry, sockets, loop, exiting>>

\* send, then ++it: to the next entry in descriptor order, or to the end; in
\* a changing map, to any entry that is left.
Reached == sent \cup ({Receiver(main.c)} \cap Conns)

AllNext ==
  /\ MainAt("allWrite")
  /\ Buffered(main.c)
  /\ LET rest == {fd \in Registered : fd > main.fd} IN
       \/ /\ rest = {} \/ ConnectionsChanging
          /\ SendDone
       \/ \E fd \in rest :
          /\ First(fd, rest) \/ ConnectionsChanging
          /\ main' = [at |-> "all", ip |-> None, fd |-> fd, c |-> None]
          /\ sent' = Reached
          /\ overlap' = overlap
  /\ \/ proc' = proc
     \/ /\ \/ Receiver(main.c) = None
           \/ connections[main.fd] = None
           \/ ConnectionsChanging
        /\ proc' = "crashed"
  /\ UNCHANGED <<registry, peer, loop, exiting>>

\* The console's end of file ends main, and the process with it, unless ZThread
\* keeps it up for the other thread: then the main thread takes no more steps.
ConsoleEof ==
  /\ MainAt("idle")
  /\ proc' = "exited"
  /\ UNCHANGED <<registry, sockets, loop, sender, overlap, exiting>>

-----------------------------------------------------------------------------
Accepting == \E c \in Conns, ip \in IPs, fd \in Fds, b \in Bevs : Accept(c, ip, fd, b)

Callback ==
  \/ addConnection \/ addFd_IP \/ Enable
  \/ \E c \in Conns : EofEvent(c) \/ ErrorEvent(c)
  \/ eraseConnection \/ eraseIp \/ Free
  \/ LoopExit

Sending ==
  \/ \E ip \in IPs : FindFd(ip)
  \/ FindFdRaces \/ FindConnection \/ Write
  \/ Broadcast \/ AllLocate \/ AllNext

Next ==
  \/ Accepting \/ AcceptFails
  \/ Callback \/ Signal
  \/ \E c \in Conns : Flush(c)
  \/ \E c \in Conns : PeerCloses(c) \/ PeerResets(c)
  \/ Sending \/ ConsoleEof

Spec == Init /\ [][Next]_vars

\* libevent runs what is ready, and a thread inside a callback is scheduled;
\* nothing is owed by peers, by the operator or by the signal's sender.
FairSpec == Spec /\ WF_vars(Callback)

-----------------------------------------------------------------------------
LoopSteps == {"idle", "addConnection", "addFd_IP", "enable",
              "eraseConnection", "eraseIp", "free", "stopped"}
MainSteps == {"idle", "findConnection", "write", "all", "allWrite"}

Opt(S) == S \cup {None}

\* Every variable keeps its type; a send past its first lookup has found a
\* descriptor, and one about to write has found an object.
TypeOK ==
  /\ connections \in [Fds -> Opt(Conns)]
  /\ ip_fd \in [IPs -> Opt(Fds)]
  /\ conn \in [Conns -> [fd : Fds, bev : Bevs, ip : IPs] \cup {NoObject}]
  /\ bev \in [Bevs -> Opt(Conns)]
  /\ reading \subseteq Conns
  /\ peer \in [Conns -> {"none", "up", "fin", "rst"}]
  /\ unsent \subseteq Conns
  /\ loop \in [at : LoopSteps, c : Opt(Conns)]
  /\ main \in [at : MainSteps, ip : Opt(IPs), fd : Opt(Fds), c : Opt(Conns)]
  /\ main.at # "idle" => main.fd \in Fds
  /\ main.at \in {"write", "allWrite"} => main.c \in Conns
  /\ overlap \in BOOLEAN
  /\ sent \subseteq Conns
  /\ main.at \notin {"all", "allWrite"} => sent = {}
  /\ sigint \in BOOLEAN
  /\ pass \in {"dispatch", "update"}
  /\ proc \in {"up", "crashed", "exited"}

-----------------------------------------------------------------------------
(* The registry, in the parts its induction needs.                         *)

\* Two live connections never share a descriptor (the kernel's promise).
DistinctFds ==
  \A c, d \in Conns : Live(c) /\ Live(d) /\ conn[c].fd = conn[d].fd => c = d

\* An entry of connections leads to an object whose buffer is its own.
EntriesLive ==
  \A fd \in Fds : connections[fd] # None =>
    Live(connections[fd]) /\ conn[connections[fd]].fd = fd

\* The object a callback works on, and what it has done to the maps so far.
CallbackObject ==
  /\ InCallback => loop.c \in Conns /\ Live(loop.c)
  /\ loop.at = "addConnection" => connections[conn[loop.c].fd] = None
  /\ loop.at \in {"addFd_IP", "enable", "eraseConnection"} =>
       connections[conn[loop.c].fd] = loop.c
  /\ loop.at \in {"eraseIp", "free"} => connections[conn[loop.c].fd] = None
  /\ loop.at \in {"addConnection", "addFd_IP", "free"} =>
       \A ip \in IPs : ip_fd[ip] # conn[loop.c].fd

\* Only readable connections raise events, and they are all registered.
ReadersRegistered ==
  \A c \in reading :
    /\ Live(c)
    /\ \/ connections[conn[c].fd] = c
       \/ loop.c = c /\ loop.at \in {"eraseIp", "free"}

\* An address maps to a connection accepted from it, which is registered; the
\* one gap is inside removeConnection, between its two erasures.
AddressesSound ==
  \A ip \in IPs : ip_fd[ip] # None =>
    \/ /\ connections[ip_fd[ip]] # None
       /\ conn[connections[ip_fd[ip]]].ip = ip
    \/ /\ loop.at = "eraseIp"
       /\ conn[loop.c].fd = ip_fd[ip] /\ conn[loop.c].ip = ip

RegistryInv ==
  DistinctFds /\ EntriesLive /\ CallbackObject /\ ReadersRegistered /\ AddressesSound

\* Between callbacks the two maps of Server<T> agree: every address leads to a
\* registered, unfreed connection accepted from that very address, and no two
\* addresses lead to the same one.
RegistrySound ==
  ~InCallback =>
    /\ \A ip \in IPs : ip_fd[ip] # None =>
         /\ connections[ip_fd[ip]] # None
         /\ Live(connections[ip_fd[ip]])
         /\ conn[connections[ip_fd[ip]]].ip = ip
    /\ \A i, j \in IPs : ip_fd[i] # None /\ ip_fd[i] = ip_fd[j] => i = j

-----------------------------------------------------------------------------
(* The main thread's sends.                                                *)

\* What a send that no registry callback overlaps knows at each of its steps.
QuietSend ==
  main.at # "idle" /\ ~overlap =>
    /\ ~InCallback
    /\ main.at \in {"findConnection", "all"} => connections[main.fd] # None
    /\ main.at = "findConnection" => conn[connections[main.fd]].ip = main.ip
    /\ main.at \in {"write", "allWrite"} =>
         connections[main.fd] = main.c
    /\ main.at = "write" => conn[main.c].ip = main.ip
    /\ main.at \in {"all", "allWrite"} =>
         sent = {connections[fd] : fd \in {g \in Registered : g < main.fd}}

\* A send that overlaps no accept and no close ends without a fault: addressed,
\* it has put its message into the buffer of a live connection accepted from
\* the address asked for; broadcast, into that of every registered connection.
QuietSendArrives ==
  [][ (main.at # "idle" /\ main'.at = "idle" /\ ~overlap) =>
        /\ proc' = "up"
        /\ main.at = "write" =>
             /\ Receiver(main.c) \in Conns
             /\ conn[Receiver(main.c)].ip = main.ip
        /\ main.at = "allWrite" => Reached = {connections[fd] : fd \in Registered}
        /\ main.at \in {"write", "allWrite"} ]_vars

\* The Core never crashes while all its clients stay, unless its two threads
\* meet in one map: a crash takes a client that has closed or reset its
\* connection, and whose connection is not freed yet, or a lookup or a send
\* that a registry callback overlaps.
CrashHasACause ==
  [][ (proc = "up" /\ proc' = "crashed") =>
        \/ overlap \/ AddressesChanging
        \/ \E c \in Conns : Live(c) /\ peer[c] \in {"fin", "rst"} ]_vars

\* Core_node.cpp:72, "send to the MU given by ip": whoever a message for an
\* address reaches was accepted from that address.
DeliveredToAddressee ==
  main.at = "write" /\ Receiver(main.c) # None => conn[Receiver(main.c)].ip = main.ip

\* Core_node.cpp:72 again: an MU that stays connected can be reached by its
\* address, that is, the address leads to a connection of that MU that is up.
Reachable(c) ==
  LET fd == ip_fd[conn[c].ip] IN
    fd # None /\ connections[fd] # None /\ peer[connections[fd]] = "up"

LiveClientBecomesReachable ==
  \A c \in Conns :
    (c \in reading /\ peer[c] = "up") ~> (~Running \/ peer[c] # "up" \/ Reachable(c))

\* A connection its peer has closed is taken out of both maps and its descriptor
\* released, unless the peer resets it or the loop ends first.
ClosedConnectionReaped ==
  \A c \in Conns :
    (c \in reading /\ peer[c] = "fin") ~>
      (~Running \/ peer[c] = "rst" \/
        (~Live(c) /\ \A fd \in Fds : connections[fd] # c))

\* Server.h:249, "exiting cleanly in two seconds": SIGINT ends the process.
InterruptEndsProcess == sigint ~> proc # "up"

-----------------------------------------------------------------------------
(* The abstract directory: a client joins when its address is entered and  *)
(* leaves when its address is erased.                                      *)

Member(c) ==
  /\ Live(c)
  /\ \/ connections[conn[c].fd] = c /\ ~(loop.at = "addFd_IP" /\ loop.c = c)
     \/ loop.at = "eraseIp" /\ loop.c = c

Holder(ip) ==
  IF ip_fd[ip] = None THEN None
  ELSE CHOOSE c \in Conns : Live(c) /\ conn[c].fd = ip_fd[ip]

Directory == INSTANCE ClientDirectory WITH
  Addresses <- IPs, Clients <- Conns, Nobody <- None,
  members <- {c \in Conns : Member(c)},
  representative <- [ip \in IPs |-> Holder(ip)]

\* The two maps, changed in several unlocked steps, behave as the directory.
ImplementsDirectory == Directory!Spec

=============================================================================
