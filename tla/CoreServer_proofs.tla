------------------------- MODULE CoreServer_proofs -------------------------
(***************************************************************************)
(* Proofs about CoreServer, for every set of addresses, descriptors,       *)
(* connections and bufferevents.                                           *)
(***************************************************************************)
EXTENDS CoreServer, TLAPS

USE NoneAssumption

\* What the registry's invariant reads.
registryView == <<registry, loop>>

LEMMA InitRegistry == Init => TypeOK /\ RegistryInv
<1> SUFFICES ASSUME Init PROVE TypeOK /\ RegistryInv
  OBVIOUS
<1> USE DEF Init
<1>1. TypeOK
  BY DEF TypeOK, Opt, Idle, MainIdle, LoopSteps, MainSteps
<1>2. \A c \in Conns : ~Live(c)
  BY DEF Live, Created
<1>3. RegistryInv
  BY <1>2 DEF RegistryInv, DistinctFds, EntriesLive, CallbackObject, InCallback,
              ReadersRegistered, AddressesSound, Idle
<1> QED
  BY <1>1, <1>3

LEMMA TypeStep == TypeOK /\ RegistryInv /\ [Next]_vars => TypeOK'
<1> SUFFICES ASSUME TypeOK, RegistryInv, [Next]_vars PROVE TypeOK'
  OBVIOUS
<1> USE DEF TypeOK, Opt, exiting, sockets
<1>1. InCallback => loop.c \in Conns /\ conn[loop.c] \in [fd : Fds, bev : Bevs, ip : IPs]
  BY DEF RegistryInv, CallbackObject, Live, Created
<1>a. ASSUME NEW c \in Conns, NEW ip \in IPs, NEW fd \in Fds, NEW b \in Bevs,
             Accept(c, ip, fd, b)
      PROVE  TypeOK'
  BY <1>a DEF Accept, LoopTo, LoopSteps, Touch, sender
<1>b. CASE AcceptFails
  BY <1>b DEF AcceptFails, registry, sender, LoopTo, LoopSteps, LoopReturns
<1>c. CASE addConnection
  BY <1>c, <1>1 DEF addConnection, LoopAt, LoopTo, LoopSteps, Touch, InCallback, sender
<1>d. CASE addFd_IP
  BY <1>d, <1>1 DEF addFd_IP, LoopAt, LoopTo, LoopSteps, Touch, InCallback, sender
<1>e. CASE Enable
  BY <1>e, <1>1 DEF Enable, LoopAt, Idle, LoopSteps, Touch, InCallback, sender
<1>f. ASSUME NEW c \in Conns, EofEvent(c) PROVE TypeOK'
  BY <1>f DEF EofEvent, LoopTo, LoopSteps, Touch, registry, sender
<1>g. ASSUME NEW c \in Conns, ErrorEvent(c) PROVE TypeOK'
  BY <1>g DEF ErrorEvent, sender
<1>h. CASE eraseConnection
  BY <1>h, <1>1 DEF eraseConnection, LoopAt, LoopTo, LoopSteps, Touch, InCallback, sender
<1>i. CASE eraseIp
  BY <1>i, <1>1 DEF eraseIp, LoopAt, LoopTo, LoopSteps, Touch, InCallback, sender
<1>j. CASE Free
  BY <1>j, <1>1 DEF Free, LoopAt, Idle, LoopSteps, Touch, InCallback, sender
<1>k. CASE LoopExit
  BY <1>k DEF LoopExit, registry, sender, LoopTo, LoopSteps, LoopReturns
<1>l. CASE Signal
  BY <1>l DEF Signal, registry, sender
<1>w. ASSUME NEW c \in Conns, Flush(c) PROVE TypeOK'
  BY <1>w DEF Flush, registry, sender
<1>m. ASSUME NEW c \in Conns, PeerCloses(c) \/ PeerResets(c) PROVE TypeOK'
  BY <1>m DEF PeerCloses, PeerResets, registry, sender
<1>n. ASSUME NEW ip \in IPs, FindFd(ip) PROVE TypeOK'
  <2>1. main' = [at |-> "findConnection", ip |-> ip, fd |-> ip_fd[ip], c |-> None]
    BY <1>n DEF FindFd
  <2>2. ip_fd[ip] \in Fds /\ sent = {}
    BY <1>n DEF FindFd, MainAt
  <2>3. main' \in [at : MainSteps, ip : Opt(IPs), fd : Opt(Fds), c : Opt(Conns)]
    BY <2>1, <2>2 DEF MainSteps
  <2> QED
    BY <1>n, <2>1, <2>2, <2>3 DEF FindFd, registry, InCallback
<1>o. CASE FindFdRaces
  BY <1>o DEF FindFdRaces, registry, sender
<1>p. CASE FindConnection
  <2>1. CASE MainTo("write", connections[main.fd]) /\ connections[main.fd] # None
    BY <1>p, <2>1 DEF FindConnection, MainAt, MainTo, SendDone, MainIdle, MainSteps, registry
  <2>2. CASE SendDone
    BY <1>p, <2>2 DEF FindConnection, SendDone, MainIdle, MainSteps, registry
  <2> QED
    BY <1>p, <2>1, <2>2 DEF FindConnection
<1>q. CASE Write
  BY <1>q DEF Write, Buffered, SendDone, MainIdle, MainSteps, registry
<1>r. CASE Broadcast
  BY <1>r DEF Broadcast, MainSteps, registry, InCallback, Registered
<1>s. CASE AllLocate
  <2>1. CASE MainTo("allWrite", connections[main.fd]) /\ connections[main.fd] # None
    BY <1>s, <2>1 DEF AllLocate, MainAt, MainTo, SendDone, MainIdle, MainSteps, registry
  <2>2. CASE SendDone
    BY <1>s, <2>2 DEF AllLocate, SendDone, MainIdle, MainSteps, registry
  <2> QED
    BY <1>s, <2>1, <2>2 DEF AllLocate
<1>t. CASE AllNext
  <2>1. CASE SendDone
    BY <1>t, <2>1 DEF AllNext, Buffered, SendDone, MainIdle, MainSteps, registry
  <2>2. ASSUME NEW fd \in Registered,
               main' = [at |-> "all", ip |-> None, fd |-> fd, c |-> None]
        PROVE  /\ main' \in [at : MainSteps, ip : Opt(IPs), fd : Opt(Fds), c : Opt(Conns)]
               /\ main'.fd \in Fds
               /\ main'.at = "all"
    BY <2>2 DEF MainSteps, Registered
  <2>3. Reached \subseteq Conns
    BY DEF Reached
  <2> QED
    BY <1>t, <2>1, <2>2, <2>3 DEF AllNext, Buffered, SendDone, registry
<1>u. CASE ConsoleEof
  BY <1>u DEF ConsoleEof, registry, sender
<1>v. CASE UNCHANGED vars
  BY <1>v DEF vars, registry, sender
<1> QED
  BY <1>a, <1>b, <1>c, <1>d, <1>e, <1>f, <1>g, <1>h, <1>i, <1>j, <1>k, <1>l, <1>m,
     <1>n, <1>o, <1>p, <1>q, <1>r, <1>s, <1>t, <1>u, <1>v, <1>w
     DEF Next, Accepting, Callback, Sending

\* Accepting a connection adds one live object and disturbs no other.
LEMMA AcceptAdds ==
  ASSUME TypeOK, NEW c \in Conns, NEW ip \in IPs, NEW fd \in Fds, NEW b \in Bevs,
         Accept(c, ip, fd, b)
  PROVE  /\ conn'[c] = [fd |-> fd, bev |-> b, ip |-> ip]
         /\ Live(c)' /\ ~Live(c)
         /\ \A d \in Conns : d # c => conn'[d] = conn[d] /\ (Live(d)' <=> Live(d))
         /\ \A d \in Conns : Live(d) => conn[d].fd # fd
<1> USE DEF TypeOK, Opt
<1>1. conn'[c] = [fd |-> fd, bev |-> b, ip |-> ip] /\ bev'[b] = c /\ ~Created(c)
  BY DEF Accept
<1>2. Live(c)' /\ ~Live(c)
  BY <1>1 DEF Live, Created, NoObject
<1>3. ASSUME NEW d \in Conns, d # c
      PROVE  conn'[d] = conn[d] /\ (Live(d)' <=> Live(d))
  <2>1. conn'[d] = conn[d]
    BY <1>3 DEF Accept
  <2>2. CASE Created(d)
    <3>1. conn[d].bev \in Bevs
      BY <2>2 DEF Created
    <3>2. bev'[conn[d].bev] = d <=> bev[conn[d].bev] = d
      BY <1>3, <3>1 DEF Accept
    <3> QED
      BY <2>1, <3>2 DEF Live, Created
  <2>3. CASE ~Created(d)
    BY <2>1, <2>3 DEF Live, Created
  <2> QED
    BY <2>1, <2>2, <2>3
<1>4. \A d \in Conns : Live(d) => conn[d].fd # fd
  BY DEF Accept, OpenFds
<1> QED
  BY <1>1, <1>2, <1>3, <1>4

LEMMA AcceptKeepsRegistry ==
  ASSUME TypeOK, RegistryInv,
         NEW c \in Conns, NEW ip \in IPs, NEW fd \in Fds, NEW b \in Bevs,
         Accept(c, ip, fd, b)
  PROVE  RegistryInv'
<1> USE DEF RegistryInv, TypeOK, Opt
<1>1. /\ loop.at = "idle" /\ ~InCallback
      /\ loop' = [at |-> "addConnection", c |-> c]
      /\ UNCHANGED <<connections, ip_fd, reading>>
  BY DEF Accept, LoopAt, LoopTo, InCallback
<1>2. /\ conn'[c] = [fd |-> fd, bev |-> b, ip |-> ip]
      /\ Live(c)' /\ ~Live(c)
      /\ \A d \in Conns : d # c => conn'[d] = conn[d] /\ (Live(d)' <=> Live(d))
      /\ \A d \in Conns : Live(d) => conn[d].fd # fd
  BY AcceptAdds
<1>3. DistinctFds'
  BY <1>2 DEF DistinctFds
<1>4. EntriesLive'
  BY <1>1, <1>2 DEF EntriesLive
<1>5. connections[fd] = None
  BY <1>2 DEF EntriesLive
<1>6. \A i \in IPs : ip_fd[i] # fd
  BY <1>1, <1>5 DEF AddressesSound
<1>7. CallbackObject'
  BY <1>1, <1>2, <1>5, <1>6 DEF CallbackObject
<1>8. ReadersRegistered'
  BY <1>1, <1>2 DEF ReadersRegistered
<1>9. AddressesSound'
  <2> SUFFICES ASSUME NEW i \in IPs, ip_fd[i] # None
               PROVE  connections[ip_fd[i]] # None /\ conn'[connections[ip_fd[i]]].ip = i
    BY <1>1 DEF AddressesSound
  <2>1. connections[ip_fd[i]] # None /\ conn[connections[ip_fd[i]]].ip = i
    BY <1>1 DEF AddressesSound
  <2>2. connections[ip_fd[i]] # c
    BY <1>2, <2>1 DEF EntriesLive
  <2> QED
    BY <1>2, <2>1, <2>2
<1> QED
  BY <1>3, <1>4, <1>7, <1>8, <1>9

\* A step that changes neither map, no object and not the callback.
LEMMA RegistryFrame ==
  ASSUME RegistryInv, UNCHANGED registryView
  PROVE  RegistryInv'
BY DEF RegistryInv, registryView, registry, DistinctFds, EntriesLive, CallbackObject,
       ReadersRegistered, AddressesSound, Live, Created, InCallback

LEMMA LiveUnchanged ==
  ASSUME UNCHANGED <<conn, bev>>
  PROVE  \A c \in Conns : Live(c)' <=> Live(c)
BY DEF Live, Created

LEMMA addConnectionKeepsRegistry ==
  ASSUME TypeOK, RegistryInv, addConnection
  PROVE  RegistryInv'
<1> USE DEF RegistryInv, TypeOK, Opt
<1> DEFINE c == loop.c
           fd == conn[c].fd
<1>1. /\ loop.at = "addConnection" /\ InCallback
      /\ connections' = [connections EXCEPT ![fd] = IF @ = None THEN c ELSE @]
      /\ loop' = [at |-> "addFd_IP", c |-> c]
      /\ UNCHANGED <<ip_fd, conn, bev, reading>>
  BY DEF addConnection, LoopAt, LoopTo, InCallback
<1>2. c \in Conns /\ Live(c) /\ fd \in Fds /\ connections[fd] = None
  BY <1>1 DEF CallbackObject, Live, Created
<1>3. \A d \in Conns : Live(d)' <=> Live(d)
  BY <1>1, LiveUnchanged
<1>4. connections'[fd] = c /\ \A g \in Fds : g # fd => connections'[g] = connections[g]
  BY <1>1, <1>2
<1>5. DistinctFds'
  BY <1>1, <1>3 DEF DistinctFds
<1>6. EntriesLive'
  BY <1>1, <1>2, <1>3, <1>4 DEF EntriesLive
<1>7. CallbackObject'
  BY <1>1, <1>2, <1>3, <1>4 DEF CallbackObject
<1>8. ReadersRegistered'
  <2> SUFFICES ASSUME NEW d \in reading PROVE Live(d) /\ connections'[conn[d].fd] = d
    BY <1>1, <1>3 DEF ReadersRegistered
  <2>1. Live(d) /\ connections[conn[d].fd] = d /\ conn[d].fd \in Fds
    BY <1>1 DEF ReadersRegistered, Live, Created
  <2> QED
    BY <2>1, <1>2, <1>4
<1>9. AddressesSound'
  <2> SUFFICES ASSUME NEW i \in IPs, ip_fd[i] # None
               PROVE  connections'[ip_fd[i]] # None /\ conn[connections'[ip_fd[i]]].ip = i
    BY <1>1 DEF AddressesSound
  <2>1. connections[ip_fd[i]] # None /\ conn[connections[ip_fd[i]]].ip = i
    BY <1>1 DEF AddressesSound
  <2> QED
    BY <2>1, <1>2, <1>4
<1> QED
  BY <1>5, <1>6, <1>7, <1>8, <1>9

LEMMA addFd_IPKeepsRegistry ==
  ASSUME TypeOK, RegistryInv, addFd_IP
  PROVE  RegistryInv'
<1> USE DEF RegistryInv, TypeOK, Opt
<1> DEFINE c == loop.c
           fd == conn[c].fd
<1>1. /\ loop.at = "addFd_IP" /\ InCallback
      /\ ip_fd' = [ip_fd EXCEPT ![conn[c].ip] = IF @ = None THEN fd ELSE @]
      /\ loop' = [at |-> "enable", c |-> c]
      /\ UNCHANGED <<connections, conn, bev, reading>>
  BY DEF addFd_IP, LoopAt, LoopTo, InCallback
<1>2. c \in Conns /\ Live(c) /\ fd \in Fds /\ conn[c].ip \in IPs /\ connections[fd] = c
  BY <1>1 DEF CallbackObject, Live, Created
<1>3. \A d \in Conns : Live(d)' <=> Live(d)
  BY <1>1, LiveUnchanged
<1>4. DistinctFds' /\ EntriesLive' /\ CallbackObject' /\ ReadersRegistered'
  BY <1>1, <1>2, <1>3
     DEF DistinctFds, EntriesLive, CallbackObject, ReadersRegistered
<1>5. AddressesSound'
  BY <1>1, <1>2 DEF AddressesSound
<1> QED
  BY <1>4, <1>5

LEMMA EnableKeepsRegistry ==
  ASSUME TypeOK, RegistryInv, Enable
  PROVE  RegistryInv'
<1> USE DEF RegistryInv, TypeOK, Opt
<1>1. /\ loop.at = "enable" /\ InCallback /\ loop' = Idle
      /\ reading' = reading \cup {loop.c}
      /\ UNCHANGED <<connections, ip_fd, conn, bev>>
  BY DEF Enable, LoopAt, InCallback
<1>2. loop.c \in Conns /\ Live(loop.c) /\ connections[conn[loop.c].fd] = loop.c
  BY <1>1 DEF CallbackObject
<1>3. \A d \in Conns : Live(d)' <=> Live(d)
  BY <1>1, LiveUnchanged
<1>4. DistinctFds' /\ EntriesLive' /\ AddressesSound'
  BY <1>1, <1>3 DEF DistinctFds, EntriesLive, AddressesSound
<1>5. CallbackObject'
  BY <1>1 DEF CallbackObject, Idle, InCallback
<1>6. ReadersRegistered'
  BY <1>1, <1>2, <1>3 DEF ReadersRegistered
<1> QED
  BY <1>4, <1>5, <1>6

LEMMA EventsKeepRegistry ==
  ASSUME TypeOK, RegistryInv, NEW c \in Conns, EofEvent(c) \/ ErrorEvent(c)
  PROVE  RegistryInv'
<1> USE DEF RegistryInv, TypeOK, Opt
<1>1. /\ loop.at = "idle" /\ c \in reading
      /\ UNCHANGED <<connections, ip_fd, conn, bev>>
  BY DEF EofEvent, ErrorEvent, LoopAt, registry
<1>2. Live(c) /\ connections[conn[c].fd] = c
  BY <1>1 DEF ReadersRegistered
<1>3. \A d \in Conns : Live(d)' <=> Live(d)
  BY <1>1, LiveUnchanged
<1>4. DistinctFds' /\ EntriesLive' /\ AddressesSound'
  BY <1>1, <1>3 DEF DistinctFds, EntriesLive, AddressesSound
<1>5. CASE EofEvent(c)
  <2>1. loop' = [at |-> "eraseConnection", c |-> c] /\ reading' = reading
    BY <1>5 DEF EofEvent, LoopTo, registry
  <2>2. CallbackObject'
    BY <1>1, <1>2, <1>3, <2>1 DEF CallbackObject
  <2>3. ReadersRegistered'
    BY <1>1, <1>3, <2>1 DEF ReadersRegistered
  <2> QED
    BY <1>4, <2>2, <2>3
<1>6. CASE ErrorEvent(c)
  <2>1. loop' = loop /\ reading' \subseteq reading
    BY <1>6 DEF ErrorEvent
  <2>2. CallbackObject'
    BY <1>1, <1>3, <2>1 DEF CallbackObject, InCallback
  <2>3. ReadersRegistered'
    BY <1>1, <1>3, <2>1 DEF ReadersRegistered
  <2> QED
    BY <1>4, <2>2, <2>3
<1> QED
  BY <1>5, <1>6

LEMMA eraseConnectionKeepsRegistry ==
  ASSUME TypeOK, RegistryInv, eraseConnection
  PROVE  RegistryInv'
<1> USE DEF RegistryInv, TypeOK, Opt
<1> DEFINE c == loop.c
           fd == conn[c].fd
<1>1. /\ loop.at = "eraseConnection" /\ InCallback
      /\ connections' = [connections EXCEPT ![fd] = None]
      /\ loop' = [at |-> "eraseIp", c |-> c]
      /\ UNCHANGED <<ip_fd, conn, bev, reading>>
  BY DEF eraseConnection, LoopAt, LoopTo, InCallback
<1>2. c \in Conns /\ Live(c) /\ fd \in Fds /\ connections[fd] = c
  BY <1>1 DEF CallbackObject, Live, Created
<1>3. \A d \in Conns : Live(d)' <=> Live(d)
  BY <1>1, LiveUnchanged
<1>4. connections'[fd] = None /\ \A g \in Fds : g # fd => connections'[g] = connections[g]
  BY <1>1, <1>2
<1>5. DistinctFds' /\ EntriesLive' /\ CallbackObject'
  BY <1>1, <1>2, <1>3, <1>4 DEF DistinctFds, EntriesLive, CallbackObject
<1>6. ReadersRegistered'
  <2> SUFFICES ASSUME NEW d \in reading
               PROVE  Live(d) /\ (d = c \/ connections'[conn[d].fd] = d)
    BY <1>1, <1>3 DEF ReadersRegistered
  <2>1. Live(d) /\ connections[conn[d].fd] = d /\ conn[d].fd \in Fds
    BY <1>1 DEF ReadersRegistered, Live, Created
  <2> QED
    BY <2>1, <1>2, <1>4
<1>7. AddressesSound'
  <2> SUFFICES ASSUME NEW i \in IPs, ip_fd[i] # None
               PROVE  \/ connections'[ip_fd[i]] # None /\ conn[connections'[ip_fd[i]]].ip = i
                      \/ fd = ip_fd[i] /\ conn[c].ip = i
    BY <1>1 DEF AddressesSound
  <2>1. connections[ip_fd[i]] # None /\ conn[connections[ip_fd[i]]].ip = i
    BY <1>1 DEF AddressesSound
  <2> QED
    BY <2>1, <1>2, <1>4
<1> QED
  BY <1>5, <1>6, <1>7

LEMMA eraseIpKeepsRegistry ==
  ASSUME TypeOK, RegistryInv, eraseIp
  PROVE  RegistryInv'
<1> USE DEF RegistryInv, TypeOK, Opt
<1> DEFINE c == loop.c
           fd == conn[c].fd
<1>1. /\ loop.at = "eraseIp" /\ InCallback
      /\ ip_fd' = [ip \in IPs |-> IF ip_fd[ip] = fd THEN None ELSE ip_fd[ip]]
      /\ loop' = [at |-> "free", c |-> c]
      /\ UNCHANGED <<connections, conn, bev, reading>>
  BY DEF eraseIp, LoopAt, LoopTo, InCallback
<1>2. c \in Conns /\ Live(c) /\ fd \in Fds /\ connections[fd] = None
  BY <1>1 DEF CallbackObject, Live, Created
<1>3. \A d \in Conns : Live(d)' <=> Live(d)
  BY <1>1, LiveUnchanged
<1>4. DistinctFds' /\ EntriesLive' /\ ReadersRegistered'
  BY <1>1, <1>3 DEF DistinctFds, EntriesLive, ReadersRegistered
<1>5. CallbackObject'
  BY <1>1, <1>2, <1>3 DEF CallbackObject
<1>6. AddressesSound'
  BY <1>1 DEF AddressesSound
<1> QED
  BY <1>4, <1>5, <1>6

LEMMA FreeKeepsRegistry ==
  ASSUME TypeOK, RegistryInv, Free
  PROVE  RegistryInv'
<1> USE DEF RegistryInv, TypeOK, Opt
<1>c. PICK c \in Conns : c = loop.c
  BY DEF Free, LoopAt, InCallback, CallbackObject
<1> DEFINE fd == conn[c].fd
<1>1. /\ loop.at = "free" /\ InCallback /\ loop' = Idle
      /\ bev' = [bev EXCEPT ![conn[c].bev] = None]
      /\ reading' = reading \ {c}
      /\ UNCHANGED <<connections, ip_fd, conn>>
  BY <1>c DEF Free, LoopAt, InCallback
<1>2. /\ c \in Conns /\ Live(c) /\ conn[c].bev \in Bevs /\ fd \in Fds
      /\ connections[fd] = None
  BY <1>c, <1>1 DEF CallbackObject, Live, Created
<1>3. \A d \in Conns : d # c => (Live(d)' <=> Live(d))
  <2> SUFFICES ASSUME NEW d \in Conns, d # c, Created(d)
               PROVE  bev'[conn[d].bev] = d <=> bev[conn[d].bev] = d
    BY <1>1 DEF Live, Created
  <2>1. conn[d].bev \in Bevs
    BY DEF Created
  <2>2. bev[conn[c].bev] = c
    BY <1>2 DEF Live
  <2> QED
    BY <1>1, <1>2, <2>1, <2>2
<1>4. ~Live(c)'
  BY <1>1, <1>2 DEF Live, Created
<1>5. DistinctFds'
  BY <1>1, <1>3, <1>4 DEF DistinctFds
<1>6. EntriesLive'
  <2>1. \A g \in Fds : connections[g] # c
    BY <1>2 DEF EntriesLive
  <2> QED
    BY <1>1, <1>3, <2>1 DEF EntriesLive
<1>7. CallbackObject'
  BY <1>1 DEF CallbackObject, InCallback, Idle
<1>8. ReadersRegistered'
  BY <1>c, <1>1, <1>3 DEF ReadersRegistered
<1>9. AddressesSound'
  BY <1>1 DEF AddressesSound
<1> QED
  BY <1>5, <1>6, <1>7, <1>8, <1>9

\* The loop thread ends between callbacks.
LEMMA StopKeepsRegistry ==
  ASSUME RegistryInv, loop.at = "idle", UNCHANGED registry, LoopTo("stopped", None)
  PROVE  RegistryInv'
<1> USE DEF RegistryInv, registry, LoopTo
<1>1. /\ UNCHANGED <<connections, ip_fd, conn, bev, reading>>
      /\ loop' = [at |-> "stopped", c |-> None]
  OBVIOUS
<1>2. DistinctFds' /\ EntriesLive'
  BY <1>1 DEF DistinctFds, EntriesLive, Live, Created
<1>3. AddressesSound'
  BY <1>1 DEF AddressesSound
<1>4. ReadersRegistered'
  BY <1>1 DEF ReadersRegistered, Live, Created
<1>5. CallbackObject'
  BY <1>1 DEF CallbackObject, InCallback
<1> QED
  BY <1>2, <1>3, <1>4, <1>5

\* Every step of either thread and of the peers keeps the registry's invariant.
LEMMA RegistryStep == TypeOK /\ RegistryInv /\ [Next]_vars => RegistryInv'
<1> SUFFICES ASSUME TypeOK, RegistryInv, [Next]_vars PROVE RegistryInv'
  OBVIOUS
<1>1. CASE Accepting
  BY <1>1, AcceptKeepsRegistry DEF Accepting
<1>2. CASE AcceptFails \/ LoopExit
  <2>1. loop.at = "idle" /\ UNCHANGED registry /\ (loop' = loop \/ LoopTo("stopped", None))
    BY <1>2 DEF AcceptFails, LoopExit, LoopAt, LoopReturns
  <2> QED
    BY <2>1, StopKeepsRegistry, RegistryFrame DEF registryView
<1>3. CASE addConnection \/ addFd_IP \/ Enable
  BY <1>3, addConnectionKeepsRegistry, addFd_IPKeepsRegistry, EnableKeepsRegistry
<1>4. CASE \E c \in Conns : EofEvent(c) \/ ErrorEvent(c)
  BY <1>4, EventsKeepRegistry
<1>5. CASE eraseConnection \/ eraseIp \/ Free
  BY <1>5, eraseConnectionKeepsRegistry, eraseIpKeepsRegistry, FreeKeepsRegistry
<1>6. CASE Signal \/ \E c \in Conns : Flush(c) \/ PeerCloses(c) \/ PeerResets(c)
  BY <1>6, RegistryFrame DEF Signal, Flush, PeerCloses, PeerResets, registryView
<1>7. CASE Sending \/ ConsoleEof
  <2>1. UNCHANGED registryView
    BY <1>7 DEF Sending, FindFd, FindFdRaces, FindConnection, Write, Broadcast,
       AllLocate, AllNext, ConsoleEof, registryView
  <2> QED
    BY <2>1, RegistryFrame
<1>8. CASE UNCHANGED vars
  BY <1>8, RegistryFrame DEF vars, registryView
<1> QED
  BY <1>1, <1>2, <1>3, <1>4, <1>5, <1>6, <1>7, <1>8 DEF Next, Callback

\* In every reachable state the variables have their types and the two maps,
\* the objects and the callback in progress fit together (Server.h:152-241).
THEOREM RegistryCorrect == Spec => [](TypeOK /\ RegistryInv)
<1>1. TypeOK /\ RegistryInv /\ [Next]_vars => (TypeOK /\ RegistryInv)'
  BY TypeStep, RegistryStep
<1> QED
  BY InitRegistry, <1>1, PTL DEF Spec

\* Server<T>'s variables keep their types.
THEOREM TypeCorrect == Spec => []TypeOK
BY RegistryCorrect, PTL

\* Between callbacks an address leads to one registered, unfreed connection
\* accepted from it, whatever the peers did and however often (Server.h:152-183).
THEOREM RegistryIsSound == Spec => []RegistrySound
<1>1. TypeOK /\ RegistryInv => RegistrySound
  <2> SUFFICES ASSUME TypeOK, RegistryInv, ~InCallback PROVE
        /\ \A ip \in IPs : ip_fd[ip] # None =>
             /\ connections[ip_fd[ip]] # None
             /\ Live(connections[ip_fd[ip]])
             /\ conn[connections[ip_fd[ip]]].ip = ip
        /\ \A i, j \in IPs : ip_fd[i] # None /\ ip_fd[i] = ip_fd[j] => i = j
    BY DEF RegistrySound
  <2>1. \A ip \in IPs : ip_fd[ip] # None =>
          connections[ip_fd[ip]] # None /\ conn[connections[ip_fd[ip]]].ip = ip
    BY DEF RegistryInv, AddressesSound, InCallback
  <2>2. \A ip \in IPs : ip_fd[ip] # None => ip_fd[ip] \in Fds
    BY DEF TypeOK, Opt
  <2> QED
    BY <2>1, <2>2 DEF RegistryInv, EntriesLive
<1> QED
  BY <1>1, RegistryCorrect, PTL

-----------------------------------------------------------------------------
(* The main thread's sends.                                                *)

LEMMA InitQuietSend == Init => QuietSend
BY DEF Init, QuietSend, MainIdle

\* Iterating in descriptor order: what lies below the first entry, below the
\* next one, and at the end.
LEMMA BelowFirst ==
  ASSUME NEW S \in SUBSET Nat, NEW f, First(f, S)
  PROVE  {g \in S : g < f} = {}
<1>1. f \in Nat /\ \A g \in S : g \in Nat /\ f <= g
  BY DEF First
<1>2. \A g \in S : ~(g < f)
  BY <1>1
<1> QED
  BY <1>2

LEMMA BelowNext ==
  ASSUME NEW S \in SUBSET Nat, NEW d \in S, NEW f \in S, f > d,
         \A g \in S : g > d => f <= g
  PROVE  {g \in S : g < f} = {g \in S : g < d} \cup {d}
<1>1. \A g \in S : g < f <=> (g < d \/ g = d)
  OBVIOUS
<1> QED
  BY <1>1

LEMMA BelowEnd ==
  ASSUME NEW S \in SUBSET Nat, NEW d \in S, \A g \in S : ~(g > d)
  PROVE  S = {g \in S : g < d} \cup {d}
<1>1. \A g \in S : g < d \/ g = d
  OBVIOUS
<1> QED
  BY <1>1

LEMMA RegisteredNat == Registered \in SUBSET Nat
BY FdsAssumption DEF Registered

\* A callback step marks the send it overlaps.
LEMMA CallbackKeepsQuietSend ==
  ASSUME TypeOK, Touch, UNCHANGED sender
  PROVE  QuietSend'
BY DEF TypeOK, Touch, sender, QuietSend

\* A step between callbacks that leaves maps, objects and sends alone.
LEMMA QuietSendFrame ==
  ASSUME QuietSend, UNCHANGED <<connections, conn, sender, overlap>>,
         InCallback' => InCallback
  PROVE  QuietSend'
BY DEF QuietSend, sender, Registered

LEMMA FindFdKeepsQuietSend ==
  ASSUME TypeOK, RegistryInv, NEW ip \in IPs, FindFd(ip)
  PROVE  QuietSend'
<1>1. /\ ip_fd[ip] # None
      /\ main' = [at |-> "findConnection", ip |-> ip, fd |-> ip_fd[ip], c |-> None]
      /\ overlap' = InCallback /\ loop' = loop
      /\ connections' = connections /\ conn' = conn
  BY DEF FindFd, registry
<1>2. ~InCallback => connections[ip_fd[ip]] # None /\ conn[connections[ip_fd[ip]]].ip = ip
  BY <1>1 DEF RegistryInv, AddressesSound, InCallback
<1> QED
  BY <1>1, <1>2 DEF QuietSend, InCallback

LEMMA BroadcastKeepsQuietSend ==
  ASSUME TypeOK, RegistryInv, Broadcast
  PROVE  QuietSend'
<1> USE DEF TypeOK, Opt
<1>1. PICK fd \in Registered :
        /\ First(fd, Registered)
        /\ main' = [at |-> "all", ip |-> None, fd |-> fd, c |-> None]
  BY DEF Broadcast
<1>2. /\ overlap' = InCallback /\ loop' = loop /\ sent' = sent /\ sent = {}
      /\ connections' = connections /\ conn' = conn
  BY DEF Broadcast, MainAt, registry
<1>3. {g \in Registered : g < fd} = {}
  BY <1>1, RegisteredNat, BelowFirst
<1>4. sent' = {connections'[f] : f \in {g \in Registered' : g < main'.fd}}
  <2>1. Registered' = Registered
    BY <1>2 DEF Registered
  <2> QED
    BY <1>1, <1>2, <1>3, <2>1
<1> QED
  BY <1>1, <1>2, <1>4 DEF QuietSend, InCallback, Registered

\* In a send that nothing overlaps, the object found is the one written to.
LEMMA QuietReceiver ==
  ASSUME TypeOK, RegistryInv, QuietSend, ~overlap, main.at \in {"write", "allWrite"}
  PROVE  /\ Receiver(main.c) = main.c /\ main.c \in Conns
         /\ connections[main.fd] = main.c /\ main.fd \in Registered
<1>1. connections[main.fd] = main.c /\ main.c \in Conns /\ main.fd \in Fds
  BY DEF QuietSend, TypeOK
<1>2. Live(main.c)
  BY <1>1 DEF RegistryInv, EntriesLive
<1> QED
  BY <1>1, <1>2 DEF Live, Receiver, Registered

LEMMA LookupKeepsQuietSend ==
  ASSUME TypeOK, RegistryInv, QuietSend, FindConnection \/ AllLocate
  PROVE  QuietSend'
<1> USE DEF TypeOK, Opt
<1>1. CASE SendDone
  BY <1>1 DEF SendDone, MainIdle, QuietSend
<1>2. CASE FindConnection /\ MainTo("write", connections[main.fd]) /\ UNCHANGED <<overlap, sent>>
  BY <1>2 DEF FindConnection, MainAt, MainTo, registry, QuietSend, InCallback
<1>3. CASE AllLocate /\ MainTo("allWrite", connections[main.fd]) /\ UNCHANGED <<overlap, sent>>
  BY <1>3 DEF AllLocate, MainAt, MainTo, registry, QuietSend, InCallback, Registered
<1> QED
  BY <1>1, <1>2, <1>3 DEF FindConnection, AllLocate

LEMMA AllNextKeepsQuietSend ==
  ASSUME TypeOK, RegistryInv, QuietSend, AllNext
  PROVE  QuietSend'
<1> USE DEF TypeOK, Opt
<1>1. CASE SendDone
  BY <1>1 DEF SendDone, MainIdle, QuietSend
<1>2. ASSUME ~SendDone, ~overlap
      PROVE  QuietSend'
  <2>1. /\ main.at = "allWrite" /\ overlap' = overlap /\ loop' = loop /\ ~ConnectionsChanging
        /\ connections' = connections /\ conn' = conn /\ sent' = Reached
    BY <1>2 DEF AllNext, MainAt, registry, QuietSend, InCallback, ConnectionsChanging
  <2>2. PICK fd \in Registered :
          /\ fd > main.fd /\ \A g \in Registered : g > main.fd => fd <= g
          /\ main' = [at |-> "all", ip |-> None, fd |-> fd, c |-> None]
    BY <1>2, <2>1 DEF AllNext, First
  <2>3. /\ Receiver(main.c) = main.c /\ main.c \in Conns
        /\ connections[main.fd] = main.c /\ main.fd \in Registered
    BY <1>2, <2>1, QuietReceiver
  <2>4. sent = {connections[f] : f \in {g \in Registered : g < main.fd}}
    BY <1>2, <2>1 DEF QuietSend
  <2>5. {g \in Registered : g < fd} = {g \in Registered : g < main.fd} \cup {main.fd}
    BY <2>2, <2>3, RegisteredNat, BelowNext
  <2>6. sent' = {connections[f] : f \in {g \in Registered : g < fd}}
    BY <2>1, <2>3, <2>4, <2>5 DEF Reached
  <2>7. connections[fd] # None /\ Registered' = Registered
    BY <2>1, <2>2 DEF Registered
  <2> QED
    BY <1>2, <2>1, <2>2, <2>6, <2>7 DEF QuietSend, InCallback
<1>3. CASE ~SendDone /\ overlap
  BY <1>3 DEF AllNext, QuietSend
<1> QED
  BY <1>1, <1>2, <1>3

LEMMA QuietSendStep == TypeOK /\ RegistryInv /\ QuietSend /\ [Next]_vars => QuietSend'
<1> SUFFICES ASSUME TypeOK, RegistryInv, QuietSend, [Next]_vars PROVE QuietSend'
  OBVIOUS
<1>1. CASE \/ Accepting \/ addConnection \/ addFd_IP \/ Enable
           \/ eraseConnection \/ eraseIp \/ Free
           \/ \E c \in Conns : EofEvent(c)
  <2>1. Touch /\ UNCHANGED sender
    BY <1>1 DEF Accepting, Accept, addConnection, addFd_IP, Enable, eraseConnection,
       eraseIp, Free, EofEvent
  <2> QED
    BY <2>1, CallbackKeepsQuietSend
<1>2. CASE \/ AcceptFails \/ LoopExit \/ Signal \/ ConsoleEof
           \/ \E c \in Conns : ErrorEvent(c) \/ Flush(c) \/ PeerCloses(c) \/ PeerResets(c)
  <2>1. UNCHANGED <<connections, conn, sender, overlap>>
    BY <1>2 DEF AcceptFails, LoopExit, Signal, ConsoleEof, ErrorEvent, Flush, PeerCloses,
       PeerResets, registry
  <2>2. InCallback' => InCallback
    BY <1>2 DEF AcceptFails, LoopExit, Signal, ConsoleEof, ErrorEvent, Flush, PeerCloses,
       PeerResets, LoopReturns, LoopTo, InCallback
  <2> QED
    BY <2>1, <2>2, QuietSendFrame
<1>3. CASE FindFdRaces \/ UNCHANGED vars
  <2>1. UNCHANGED <<connections, conn, sender, overlap, loop>>
    BY <1>3 DEF FindFdRaces, vars, registry
  <2> QED
    BY <2>1, QuietSendFrame DEF InCallback
<1>4. CASE \E ip \in IPs : FindFd(ip)
  BY <1>4, FindFdKeepsQuietSend
<1>5. CASE Broadcast
  BY <1>5, BroadcastKeepsQuietSend
<1>6. CASE FindConnection \/ AllLocate
  BY <1>6, LookupKeepsQuietSend
<1>7. CASE AllNext
  BY <1>7, AllNextKeepsQuietSend
<1>8. CASE Write
  BY <1>8 DEF Write, SendDone, MainIdle, QuietSend
<1> QED
  BY <1>1, <1>2, <1>3, <1>4, <1>5, <1>6, <1>7, <1>8 DEF Next, Callback, Sending

\* What an unoverlapped send has looked up is still true at each of its steps.
THEOREM QuietSendCorrect == Spec => []QuietSend
BY InitRegistry, InitQuietSend, RegistryCorrect, QuietSendStep, PTL DEF Spec

\* A send that overlaps no accept and no close never faults, reaches its
\* addressee, or as a broadcast every registered connection (Server.h:186-207).
THEOREM QuietSendsArrive == Spec => QuietSendArrives
<1> DEFINE Arrives ==
      /\ proc' = "up"
      /\ main.at = "write" =>
           Receiver(main.c) \in Conns /\ conn[Receiver(main.c)].ip = main.ip
      /\ main.at = "allWrite" => Reached = {connections[fd] : fd \in Registered}
      /\ main.at \in {"write", "allWrite"}
<1>1. ASSUME TypeOK, RegistryInv, QuietSend, [Next]_vars,
             main.at # "idle", main'.at = "idle", ~overlap
      PROVE  Arrives
  <2>1. ~InCallback /\ ~ConnectionsChanging
    BY <1>1 DEF QuietSend, InCallback, ConnectionsChanging
  <2>2. FindConnection \/ Write \/ AllLocate \/ AllNext
    BY <1>1 DEF Next, Accepting, Callback, Sending, Accept, AcceptFails, addConnection,
       addFd_IP, Enable, EofEvent, ErrorEvent, eraseConnection, eraseIp, Free, LoopExit,
       LoopReturns, LoopTo, Signal, Flush, PeerCloses, PeerResets, FindFd, FindFdRaces,
       Broadcast, ConsoleEof,
       MainAt, sender, vars
  <2>3. CASE FindConnection \/ AllLocate
    BY <1>1, <2>1, <2>3 DEF FindConnection, AllLocate, MainAt, MainTo, QuietSend
  <2>4. CASE Write
    <3>1. main.at = "write" /\ proc = "up"
      BY <2>4 DEF Write, MainAt
    <3>2. Receiver(main.c) = main.c /\ main.c \in Conns /\ conn[main.c].ip = main.ip
      BY <1>1, <3>1, QuietReceiver DEF QuietSend
    <3> QED
      BY <2>4, <3>1, <3>2, NoneAssumption DEF Write
  <2>5. CASE AllNext
    <3>1. main.at = "allWrite" /\ proc = "up"
      BY <2>5 DEF AllNext, MainAt
    <3>2. /\ Receiver(main.c) = main.c /\ main.c \in Conns
          /\ connections[main.fd] = main.c /\ main.fd \in Registered
      BY <1>1, <3>1, QuietReceiver
    <3>3. proc' = "up"
      BY <2>1, <2>5, <3>1, <3>2, NoneAssumption DEF AllNext
    <3>4. \A fd \in Registered : ~(fd > main.fd)
      <4>1. \A fd : main' # [at |-> "all", ip |-> None, fd |-> fd, c |-> None]
        BY <1>1
      <4>2. {fd \in Registered : fd > main.fd} = {}
        BY <2>1, <2>5, <4>1 DEF AllNext
      <4> QED
        BY <4>2
    <3>5. Registered = {g \in Registered : g < main.fd} \cup {main.fd}
      BY <3>2, <3>4, RegisteredNat, BelowEnd
    <3>6. sent = {connections[fd] : fd \in {g \in Registered : g < main.fd}}
      BY <1>1, <3>1 DEF QuietSend
    <3>7. Reached = {connections[fd] : fd \in Registered}
      BY <3>2, <3>5, <3>6 DEF Reached
    <3> QED
      BY <3>1, <3>3, <3>7
  <2> QED
    BY <2>2, <2>3, <2>4, <2>5
<1>2. TypeOK /\ RegistryInv /\ QuietSend /\ [Next]_vars =>
        [(main.at # "idle" /\ main'.at = "idle" /\ ~overlap) => Arrives]_vars
  BY <1>1
<1> QED
  BY <1>2, RegistryCorrect, QuietSendCorrect, PTL DEF Spec, QuietSendArrives

-----------------------------------------------------------------------------
(* What a crash takes.                                                     *)

\* A connection being removed has been closed by its peer, a bufferevent knows
\* its object, output waits only for live objects, and what a send is about to
\* write to was once created.
CrashInv ==
  /\ loop.at \in {"eraseConnection", "eraseIp", "free"} => peer[loop.c] \in {"fin", "rst"}
  /\ \A b \in Bevs : bev[b] # None => conn[bev[b]].bev = b
  /\ \A c \in unsent : Live(c)
  /\ main.at \in {"write", "allWrite"} => Created(main.c)

LEMMA InitCrashInv == Init => CrashInv
BY DEF Init, CrashInv, Idle, MainIdle

\* What a bufferevent belongs to is a live object.
LEMMA ReceiverLive ==
  ASSUME TypeOK, CrashInv, main.at \in {"write", "allWrite"}
  PROVE  \A c \in {Receiver(main.c)} \cap Conns : Live(c)
<1>1. main.c \in Conns /\ conn[main.c].bev \in Bevs
  BY DEF TypeOK, CrashInv, Created
<1>2. ASSUME Receiver(main.c) \in Conns PROVE conn[Receiver(main.c)].bev = conn[main.c].bev
  BY <1>1, <1>2 DEF Receiver, CrashInv
<1> QED
  BY <1>1, <1>2 DEF Receiver, Live, Created, NoObject

\* The steps of the event loop and of the peers that crash nothing.
LEMMA CrashInvAccept ==
  ASSUME TypeOK, CrashInv, Accepting
  PROVE  CrashInv'
<1> USE DEF TypeOK, Opt, CrashInv
<1>1. PICK c \in Conns, ip \in IPs, fd \in Fds, b \in Bevs : Accept(c, ip, fd, b)
  BY DEF Accepting
<1>2. /\ conn'[c] = [fd |-> fd, bev |-> b, ip |-> ip]
      /\ Live(c)' /\ ~Live(c)
      /\ \A d \in Conns : d # c => conn'[d] = conn[d] /\ (Live(d)' <=> Live(d))
  BY <1>1, AcceptAdds
<1>3. /\ bev' = [bev EXCEPT ![b] = c] /\ ~Created(c) /\ loop'.at = "addConnection"
      /\ UNCHANGED <<unsent, main>>
  BY <1>1 DEF Accept, LoopTo, sender
<1>4. \A a \in Bevs : bev[a] # c
  BY <1>3 DEF Created, NoObject
<1>5. \A a \in Bevs : bev'[a] # None => conn'[bev'[a]].bev = a
  BY <1>2, <1>3, <1>4
<1>6. \A d \in unsent : Live(d)'
  BY <1>2
<1>7. main.at \in {"write", "allWrite"} => Created(main.c)'
  BY <1>2, <1>3 DEF Created
<1> QED
  BY <1>3, <1>5, <1>6, <1>7

LEMMA CrashInvFree ==
  ASSUME TypeOK, RegistryInv, CrashInv, Free
  PROVE  CrashInv'
<1> USE DEF TypeOK, Opt, CrashInv
<1>c. PICK c \in Conns : c = loop.c /\ Live(c)
  BY DEF Free, LoopAt, InCallback, RegistryInv, CallbackObject
<1>1. /\ bev' = [bev EXCEPT ![conn[c].bev] = None] /\ unsent' = unsent \ {c}
      /\ loop'.at = "idle" /\ UNCHANGED <<conn, main>>
  BY <1>c DEF Free, Idle, sender
<1>2. conn[c].bev \in Bevs /\ bev[conn[c].bev] = c
  BY <1>c DEF Live, Created
<1>3. \A b \in Bevs : bev'[b] # None => conn'[bev'[b]].bev = b
  BY <1>1, <1>2
<1>4. ASSUME NEW d \in unsent' PROVE Live(d)'
  <2>1. d \in Conns /\ Live(d) /\ d # c /\ conn[d].bev \in Bevs
    BY <1>1, <1>4 DEF Live, Created
  <2>2. bev'[conn[d].bev] = d
    BY <1>1, <1>2, <2>1 DEF Live
  <2> QED
    BY <1>1, <2>1, <2>2 DEF Live, Created
<1> QED
  BY <1>1, <1>3, <1>4 DEF Created

\* A step that leaves the objects, the sends and the output alone.
LEMMA CrashInvFrame ==
  ASSUME TypeOK, CrashInv, UNCHANGED <<conn, bev, main>>, unsent' \subseteq unsent,
         loop'.at \in {"eraseConnection", "eraseIp", "free"} => peer'[loop'.c] \in {"fin", "rst"}
  PROVE  CrashInv'
BY DEF TypeOK, CrashInv, Live, Created

LEMMA CrashInvSends ==
  ASSUME TypeOK, RegistryInv, CrashInv, Sending
  PROVE  CrashInv'
<1> USE DEF TypeOK, Opt
<1>1. UNCHANGED <<conn, bev, loop, peer>>
  BY DEF Sending, FindFd, FindFdRaces, FindConnection, Write, Broadcast, AllLocate,
         AllNext, registry, sockets
<1>2. \A c \in Conns : (Live(c)' <=> Live(c)) /\ (Created(c)' <=> Created(c))
  BY <1>1 DEF Live, Created
<1>3. \A c \in unsent' : Live(c)
  <2>1. CASE Write \/ AllNext
    BY <2>1, ReceiverLive DEF Write, AllNext, MainAt, Buffered, CrashInv
  <2>2. CASE ~Write /\ ~AllNext
    BY <2>2 DEF Sending, FindFd, FindFdRaces, FindConnection, Broadcast, AllLocate,
       sockets, CrashInv
  <2> QED
    BY <2>1, <2>2
<1>4. main'.at \in {"write", "allWrite"} => main'.c \in Conns /\ Created(main'.c)
  <2>1. CASE FindConnection \/ AllLocate
    <3>1. main'.at \in {"write", "allWrite"} =>
            main'.c = connections[main.fd] /\ connections[main.fd] # None /\ main.fd \in Fds
      BY <2>1 DEF FindConnection, AllLocate, MainAt, MainTo, SendDone, MainIdle
    <3> QED
      BY <3>1 DEF RegistryInv, EntriesLive, Live
  <2>2. CASE FindFdRaces
    BY <2>2 DEF FindFdRaces, sender, CrashInv
  <2>3. CASE Write \/ AllNext \/ Broadcast \/ \E ip \in IPs : FindFd(ip)
    <3>1. CASE Write
      BY <3>1 DEF Write, SendDone, MainIdle
    <3>2. CASE Broadcast \/ \E ip \in IPs : FindFd(ip)
      BY <3>2 DEF Broadcast, FindFd
    <3>3. CASE AllNext
      <4>1. \/ main' = MainIdle
            \/ \E fd \in Fds : main' = [at |-> "all", ip |-> None, fd |-> fd, c |-> None]
        BY <3>3 DEF AllNext, SendDone, Registered
      <4> QED
        BY <4>1 DEF MainIdle
    <3> QED
      BY <2>3, <3>1, <3>2, <3>3
  <2> QED
    BY <2>1, <2>2, <2>3 DEF Sending
<1>5. unsent' \subseteq Conns
  BY DEF Sending, FindFd, FindFdRaces, FindConnection, Write, Broadcast, AllLocate,
         AllNext, Buffered, sockets
<1> QED
  BY <1>1, <1>2, <1>3, <1>4, <1>5 DEF CrashInv

LEMMA CrashInvStep == TypeOK /\ RegistryInv /\ CrashInv /\ [Next]_vars => CrashInv'
<1> SUFFICES ASSUME TypeOK, RegistryInv, CrashInv, [Next]_vars PROVE CrashInv'
  OBVIOUS
<1> USE DEF TypeOK, Opt, sender, sockets
<1>1. CASE Accepting
  BY <1>1, CrashInvAccept
<1>2. CASE Free
  BY <1>2, CrashInvFree
<1>3. CASE Sending
  BY <1>3, CrashInvSends
<1>4. CASE addConnection \/ addFd_IP \/ Enable
  BY <1>4, CrashInvFrame DEF addConnection, addFd_IP, Enable, LoopTo, Idle
<1>5. CASE eraseConnection \/ eraseIp
  BY <1>5, CrashInvFrame DEF eraseConnection, eraseIp, LoopAt, LoopTo, CrashInv
<1>6. CASE AcceptFails \/ LoopExit \/ Signal \/ ConsoleEof \/ UNCHANGED vars
  <2>1. /\ UNCHANGED <<conn, bev, main, unsent, peer>>
        /\ loop' = loop \/ loop'.at = "stopped"
    BY <1>6 DEF AcceptFails, LoopExit, Signal, ConsoleEof, LoopReturns, LoopTo, registry, vars
  <2> QED
    BY <2>1, CrashInvFrame DEF CrashInv
<1>7. ASSUME NEW c \in Conns, EofEvent(c) \/ ErrorEvent(c)
      PROVE  CrashInv'
  BY <1>7, CrashInvFrame DEF EofEvent, ErrorEvent, LoopAt, LoopTo, registry
<1>8. ASSUME NEW c \in Conns, Flush(c) \/ PeerCloses(c) \/ PeerResets(c)
      PROVE  CrashInv'
  <2>1. /\ UNCHANGED <<conn, bev, main, loop>> /\ unsent' \subseteq unsent
        /\ \A d \in Conns : peer[d] \in {"fin", "rst"} => peer'[d] \in {"fin", "rst"}
    BY <1>8 DEF Flush, PeerCloses, PeerResets, registry
  <2>2. loop.at \in {"eraseConnection", "eraseIp", "free"} => loop.c \in Conns
    BY DEF RegistryInv, CallbackObject, InCallback
  <2> QED
    BY <2>1, <2>2, CrashInvFrame DEF CrashInv
<1> QED
  BY <1>1, <1>2, <1>3, <1>4, <1>5, <1>6, <1>7, <1>8 DEF Next, Callback

\* The Core Node crashes only when its two threads meet in one map or when a
\* client has closed or reset a connection that is not freed yet: the scan that
\* follows an erase (Server.h:177-182), or output flushed to it (Server.h:191-203).
THEOREM CrashesHaveACause == Spec => CrashHasACause
<1> DEFINE Cause == \/ overlap \/ AddressesChanging
                    \/ \E c \in Conns : Live(c) /\ peer[c] \in {"fin", "rst"}
<1>1. ASSUME TypeOK, RegistryInv, QuietSend, CrashInv, [Next]_vars,
             proc = "up", proc' = "crashed"
      PROVE  Cause
  <2>1. \/ eraseIp \/ FindFdRaces \/ FindConnection \/ Write \/ AllLocate \/ AllNext
        \/ \E c \in Conns : Flush(c)
    BY <1>1 DEF Next, Accepting, Callback, Sending, Accept, AcceptFails, addConnection,
       addFd_IP, Enable, EofEvent, ErrorEvent, eraseConnection, Free, LoopExit, Signal,
       PeerCloses, PeerResets, FindFd, Broadcast, ConsoleEof, vars
  <2>2. CASE eraseIp \/ FindFdRaces
    BY <2>2 DEF eraseIp, FindFdRaces, LoopAt, AddressesChanging
  <2>3. CASE FindConnection \/ AllLocate
    BY <1>1, <2>3 DEF FindConnection, AllLocate, MainAt, QuietSend, InCallback,
       ConnectionsChanging
  <2>4. CASE Write \/ AllNext
    <3> SUFFICES ASSUME ~overlap PROVE FALSE
      OBVIOUS
    <3>1. main.at \in {"write", "allWrite"}
      BY <2>4 DEF Write, AllNext, MainAt
    <3>2. ~ConnectionsChanging
      BY <1>1, <3>1 DEF QuietSend, InCallback, ConnectionsChanging
    <3>3. Receiver(main.c) = main.c /\ main.c \in Conns /\ connections[main.fd] = main.c
      BY <1>1, <3>1, QuietReceiver
    <3> QED
      BY <1>1, <2>4, <3>2, <3>3 DEF Write, AllNext
  <2>5. CASE \E c \in Conns : Flush(c)
    BY <1>1, <2>5 DEF Flush, CrashInv
  <2> QED
    BY <2>1, <2>2, <2>3, <2>4, <2>5
<1>2. TypeOK /\ RegistryInv /\ QuietSend /\ CrashInv /\ [Next]_vars =>
        [proc = "up" /\ proc' = "crashed" => Cause]_vars
  BY <1>1
<1>3. Spec => []CrashInv
  BY InitCrashInv, CrashInvStep, RegistryCorrect, PTL DEF Spec
<1> QED
  BY <1>2, <1>3, RegistryCorrect, QuietSendCorrect, PTL DEF Spec, CrashHasACause

-----------------------------------------------------------------------------
(* The refinement of the directory.                                        *)

\* What Holder finds: the live object of the descriptor an address leads to.
HolderIs ==
  \A ip \in IPs :
    /\ ip_fd[ip] = None => Holder(ip) = None
    /\ ip_fd[ip] # None =>
         /\ Holder(ip) \in Conns
         /\ \A c \in Conns : Holder(ip) = c <=> Live(c) /\ conn[c].fd = ip_fd[ip]

\* An address leads to one live object, so that Holder's choice is none.
LEMMA HolderIsLive == TypeOK /\ RegistryInv => HolderIs
<1> SUFFICES ASSUME TypeOK, RegistryInv, NEW ip \in IPs, ip_fd[ip] # None
             PROVE  /\ Holder(ip) \in Conns
                    /\ \A c \in Conns : Holder(ip) = c <=> Live(c) /\ conn[c].fd = ip_fd[ip]
  BY DEF HolderIs, Holder
<1>1. PICK d \in Conns : Live(d) /\ conn[d].fd = ip_fd[ip]
  <2>1. CASE connections[ip_fd[ip]] # None
    BY <2>1 DEF RegistryInv, EntriesLive, TypeOK, Opt
  <2>2. CASE loop.at = "eraseIp" /\ conn[loop.c].fd = ip_fd[ip]
    BY <2>2 DEF RegistryInv, CallbackObject, InCallback
  <2> QED
    BY <2>1, <2>2 DEF RegistryInv, AddressesSound
<1>2. \A c \in Conns : Live(c) /\ conn[c].fd = ip_fd[ip] => c = d
  BY <1>1 DEF RegistryInv, DistinctFds
<1>3. Holder(ip) = d
  BY <1>1, <1>2 DEF Holder
<1> QED
  BY <1>1, <1>2, <1>3

\* A step that leaves ip_fd alone, keeps the live objects it leads to and
\* changes no membership is no step of the directory.
LEMMA DirectoryFrame ==
  ASSUME HolderIs, HolderIs', ip_fd' = ip_fd,
         \A c \in Conns : Live(c) /\ (\E ip \in IPs : ip_fd[ip] = conn[c].fd) =>
                            Live(c)' /\ conn'[c] = conn[c],
         \A c \in Conns : Member(c)' <=> Member(c)
  PROVE  UNCHANGED Directory!directory
<1>1. ASSUME NEW ip \in IPs PROVE Holder(ip)' = Holder(ip)
  <2>1. CASE ip_fd[ip] = None
    BY <2>1 DEF HolderIs
  <2>2. CASE ip_fd[ip] # None
    <3>1. PICK c \in Conns : c = Holder(ip) /\ Live(c) /\ conn[c].fd = ip_fd[ip]
      BY <2>2 DEF HolderIs
    <3>2. Live(c)' /\ conn'[c] = conn[c]
      BY <3>1
    <3> QED
      BY <2>2, <3>1, <3>2 DEF HolderIs
  <2> QED
    BY <2>1, <2>2
<1>2. [ip \in IPs |-> Holder(ip)]' = [ip \in IPs |-> Holder(ip)]
  BY <1>1
<1>3. {c \in Conns : Member(c)}' = {c \in Conns : Member(c)}
  OBVIOUS
<1> QED
  BY <1>2, <1>3 DEF Directory!directory

\* Entering the address is the step at which the client joins (Server.h:165).
LEMMA addFd_IPJoins ==
  ASSUME TypeOK, RegistryInv, HolderIs, RegistryInv', HolderIs', addFd_IP
  PROVE  Directory!Next
<1> USE DEF RegistryInv, TypeOK, Opt
<1>c. PICK c \in Conns, ip \in IPs : c = loop.c /\ ip = conn[c].ip /\ Live(c)
  BY DEF addFd_IP, LoopAt, InCallback, CallbackObject, Live, Created
<1> DEFINE fd == conn[c].fd
<1>1. /\ loop.at = "addFd_IP" /\ loop' = [at |-> "enable", c |-> c]
      /\ ip_fd' = [ip_fd EXCEPT ![ip] = IF @ = None THEN fd ELSE @]
      /\ UNCHANGED <<connections, conn, bev>>
  BY <1>c DEF addFd_IP, LoopAt, LoopTo
<1>2. fd \in Fds /\ connections[fd] = c
  BY <1>c, <1>1 DEF CallbackObject, Live, Created
<1>3. \A d \in Conns : Live(d)' <=> Live(d)
  BY <1>1, LiveUnchanged
<1>4. ~Member(c) /\ Member(c)'
  BY <1>c, <1>1, <1>2, <1>3 DEF Member
<1>5. \A d \in Conns \ {c} : Member(d)' <=> Member(d)
  BY <1>c, <1>1, <1>3 DEF Member
<1>6. {d \in Conns : Member(d)}' = {d \in Conns : Member(d)} \cup {c}
  BY <1>4, <1>5
<1>7. ASSUME NEW i \in IPs
      PROVE  Holder(i)' = IF i = ip /\ Holder(i) = None THEN c ELSE Holder(i)
  <2>1. CASE ip_fd[i] = None
    BY <1>c, <1>1, <1>2, <1>3, <2>1, NoneAssumption DEF HolderIs
  <2>2. CASE ip_fd[i] # None
    <3>1. ip_fd'[i] = ip_fd[i] /\ Holder(i) \in Conns /\ Live(Holder(i)) /\ conn[Holder(i)].fd = ip_fd[i]
      BY <1>1, <2>2 DEF HolderIs
    <3> QED
      BY <1>1, <1>3, <2>2, <3>1, NoneAssumption DEF HolderIs
  <2> QED
    BY <2>1, <2>2
<1>8. [i \in IPs |-> Holder(i)]' =
        [[i \in IPs |-> Holder(i)] EXCEPT ![ip] = IF @ = None THEN c ELSE @]
  BY <1>7
<1>9. Directory!Join(c, ip)
  BY <1>4, <1>6, <1>8 DEF Directory!Join
<1> QED
  BY <1>9 DEF Directory!Next

\* Erasing the address is the step at which the client leaves (Server.h:179).
LEMMA eraseIpLeaves ==
  ASSUME TypeOK, RegistryInv, HolderIs, RegistryInv', HolderIs', eraseIp
  PROVE  Directory!Next
<1> USE DEF RegistryInv, TypeOK, Opt
<1>c. PICK c \in Conns : c = loop.c /\ Live(c)
  BY DEF eraseIp, LoopAt, InCallback, CallbackObject
<1> DEFINE fd == conn[c].fd
<1>1. /\ loop.at = "eraseIp" /\ loop' = [at |-> "free", c |-> c]
      /\ ip_fd' = [ip \in IPs |-> IF ip_fd[ip] = fd THEN None ELSE ip_fd[ip]]
      /\ UNCHANGED <<connections, conn, bev>>
  BY <1>c DEF eraseIp, LoopAt, LoopTo
<1>2. fd \in Fds /\ connections[fd] = None
  BY <1>c, <1>1 DEF CallbackObject, Live, Created
<1>3. \A d \in Conns : Live(d)' <=> Live(d)
  BY <1>1, LiveUnchanged
<1>4. Member(c) /\ ~Member(c)'
  BY <1>c, <1>1, <1>2, NoneAssumption DEF Member
<1>5. \A d \in Conns \ {c} : Member(d)' <=> Member(d)
  BY <1>c, <1>1, <1>3 DEF Member
<1>6. {d \in Conns : Member(d)}' = {d \in Conns : Member(d)} \ {c}
  BY <1>4, <1>5
<1>7. ASSUME NEW i \in IPs
      PROVE  Holder(i)' = IF Holder(i) = c THEN None ELSE Holder(i)
  <2>1. CASE ip_fd[i] = None
    BY <1>1, <2>1, NoneAssumption DEF HolderIs
  <2>2. CASE ip_fd[i] = fd
    BY <1>c, <1>1, <1>2, <2>2, NoneAssumption DEF HolderIs
  <2>3. CASE ip_fd[i] # None /\ ip_fd[i] # fd
    <3>1. /\ ip_fd'[i] = ip_fd[i] /\ Holder(i) \in Conns /\ Live(Holder(i))
          /\ conn[Holder(i)].fd = ip_fd[i] /\ Holder(i) # c
      BY <1>1, <2>3 DEF HolderIs
    <3> QED
      BY <1>1, <1>3, <2>3, <3>1 DEF HolderIs
  <2> QED
    BY <2>1, <2>2, <2>3
<1>8. [i \in IPs |-> Holder(i)]' =
        [i \in IPs |-> IF [a \in IPs |-> Holder(a)][i] = c THEN None ELSE [a \in IPs |-> Holder(a)][i]]
  BY <1>7
<1>9. Directory!Leave(c)
  BY <1>4, <1>6, <1>8 DEF Directory!Leave
<1> QED
  BY <1>9 DEF Directory!Next

\* A client that is accepted has not joined, whatever its descriptor was before.
LEMMA AcceptHidden ==
  ASSUME TypeOK, RegistryInv, HolderIs, HolderIs',
         NEW c \in Conns, NEW ip \in IPs, NEW fd \in Fds, NEW b \in Bevs,
         Accept(c, ip, fd, b)
  PROVE  UNCHANGED Directory!directory
<1>1. /\ loop.at = "idle" /\ loop' = [at |-> "addConnection", c |-> c]
      /\ UNCHANGED <<connections, ip_fd>>
  BY DEF Accept, LoopAt, LoopTo
<1>2. /\ conn'[c] = [fd |-> fd, bev |-> b, ip |-> ip]
      /\ Live(c)' /\ ~Live(c)
      /\ \A d \in Conns : d # c => conn'[d] = conn[d] /\ (Live(d)' <=> Live(d))
      /\ \A d \in Conns : Live(d) => conn[d].fd # fd
  BY AcceptAdds
<1>3. connections[fd] = None
  BY <1>2 DEF RegistryInv, EntriesLive, TypeOK, Opt
<1>4. ASSUME NEW d \in Conns PROVE Member(d)' <=> Member(d)
  BY <1>1, <1>2, <1>3, NoneAssumption DEF Member
<1> QED
  BY <1>1, <1>2, <1>4, DirectoryFrame

\* Neither the first insert, nor the first erase, nor the free is seen.
LEMMA RegistryStepsHidden ==
  ASSUME TypeOK, RegistryInv, HolderIs, HolderIs',
         addConnection \/ Enable \/ eraseConnection
  PROVE  UNCHANGED Directory!directory
<1> USE DEF RegistryInv, TypeOK, Opt
<1>1. UNCHANGED <<ip_fd, conn, bev>>
  BY DEF addConnection, Enable, eraseConnection
<1>2. \A d \in Conns : Live(d)' <=> Live(d)
  BY <1>1, LiveUnchanged
<1>c. PICK c \in Conns : c = loop.c /\ Live(c) /\ conn[c].fd \in Fds
  BY DEF addConnection, Enable, eraseConnection, LoopAt, InCallback, CallbackObject, Live, Created
<1>3. ASSUME NEW d \in Conns, Live(d) PROVE Member(d)' <=> Member(d)
  <2>1. conn[d].fd \in Fds /\ (conn[d].fd = conn[c].fd => d = c)
    BY <1>c, <1>3 DEF Live, Created, DistinctFds
  <2>2. CASE addConnection
    <3>1. /\ loop.at = "addConnection" /\ loop' = [at |-> "addFd_IP", c |-> c]
          /\ connections' = [connections EXCEPT ![conn[c].fd] = c]
          /\ connections[conn[c].fd] = None
      BY <1>c, <2>2 DEF addConnection, LoopAt, LoopTo, CallbackObject
    <3> QED
      BY <1>1, <1>2, <1>3, <1>c, <2>1, <3>1, NoneAssumption DEF Member
  <2>3. CASE Enable
    <3>1. loop.at = "enable" /\ loop' = Idle /\ connections' = connections
      BY <2>3 DEF Enable, LoopAt
    <3> QED
      BY <1>1, <1>2, <3>1 DEF Member, Idle
  <2>4. CASE eraseConnection
    <3>1. /\ loop.at = "eraseConnection" /\ loop' = [at |-> "eraseIp", c |-> c]
          /\ connections' = [connections EXCEPT ![conn[c].fd] = None]
          /\ connections[conn[c].fd] = c
      BY <1>c, <2>4 DEF eraseConnection, LoopAt, LoopTo, CallbackObject
    <3> QED
      BY <1>1, <1>2, <1>3, <1>c, <2>1, <3>1, NoneAssumption DEF Member
  <2> QED
    BY <2>2, <2>3, <2>4
<1>4. \A d \in Conns : Member(d)' <=> Member(d)
  BY <1>2, <1>3 DEF Member
<1> QED
  BY <1>1, <1>2, <1>4, DirectoryFrame

\* The freed object is no address's and no member.
LEMMA FreeHidden ==
  ASSUME TypeOK, RegistryInv, HolderIs, HolderIs', Free
  PROVE  UNCHANGED Directory!directory
<1> USE DEF RegistryInv, TypeOK, Opt
<1>c. PICK c \in Conns : c = loop.c /\ Live(c)
  BY DEF Free, LoopAt, InCallback, CallbackObject
<1>1. /\ loop.at = "free" /\ loop' = Idle
      /\ bev' = [bev EXCEPT ![conn[c].bev] = None]
      /\ UNCHANGED <<connections, ip_fd, conn>>
  BY <1>c DEF Free, LoopAt
<1>2. conn[c].bev \in Bevs /\ connections[conn[c].fd] = None /\ \A ip \in IPs : ip_fd[ip] # conn[c].fd
  BY <1>c, <1>1 DEF CallbackObject, Live, Created
<1>3. \A d \in Conns : d # c => (Live(d)' <=> Live(d))
  <2> SUFFICES ASSUME NEW d \in Conns, d # c, Created(d)
               PROVE  bev'[conn[d].bev] = d <=> bev[conn[d].bev] = d
    BY <1>1 DEF Live, Created
  <2>1. conn[d].bev \in Bevs
    BY DEF Created
  <2>2. bev[conn[c].bev] = c
    BY <1>c DEF Live
  <2> QED
    BY <1>1, <1>2, <2>1, <2>2, NoneAssumption
<1>4. ~Live(c)'
  BY <1>1, <1>2, NoneAssumption DEF Live, Created
<1>5. \A d \in Conns : Member(d)' <=> Member(d)
  BY <1>c, <1>1, <1>2, <1>3, <1>4, NoneAssumption DEF Member, Idle
<1> QED
  BY <1>1, <1>2, <1>3, <1>5, DirectoryFrame

\* What changes no map, no object and no callback that has erased or entered.
LEMMA OthersHidden ==
  ASSUME HolderIs, HolderIs', UNCHANGED <<connections, ip_fd, conn, bev>>,
         loop.at \notin {"addFd_IP", "eraseIp"} \/ loop' = loop,
         loop'.at \notin {"addFd_IP", "eraseIp"} \/ loop' = loop
  PROVE  UNCHANGED Directory!directory
<1>1. \A d \in Conns : Live(d)' <=> Live(d)
  BY LiveUnchanged
<1>2. \A d \in Conns : Member(d)' <=> Member(d)
  BY <1>1 DEF Member
<1> QED
  BY <1>1, <1>2, DirectoryFrame

\* Every step of the server is a step of the directory or none.
LEMMA DirectoryStep ==
  ASSUME TypeOK, RegistryInv, HolderIs, RegistryInv', HolderIs', [Next]_vars
  PROVE  [Directory!Next]_(Directory!directory)
<1>1. CASE Accepting
  BY <1>1, AcceptHidden DEF Accepting
<1>2. CASE addFd_IP \/ eraseIp
  BY <1>2, addFd_IPJoins, eraseIpLeaves
<1>3. CASE addConnection \/ Enable \/ eraseConnection \/ Free
  BY <1>3, RegistryStepsHidden, FreeHidden
<1>4. CASE \/ AcceptFails \/ LoopExit \/ Signal
           \/ \E c \in Conns : EofEvent(c) \/ ErrorEvent(c) \/ Flush(c) \/ PeerCloses(c) \/ PeerResets(c)
  <2>1. UNCHANGED <<connections, ip_fd, conn, bev>>
    BY <1>4 DEF AcceptFails, LoopExit, Signal, EofEvent, ErrorEvent, Flush, PeerCloses, PeerResets,
       registry
  <2>2. loop' = loop \/ (loop.at = "idle" /\ loop'.at \in {"stopped", "eraseConnection"})
    BY <1>4 DEF AcceptFails, LoopExit, Signal, EofEvent, ErrorEvent, Flush, PeerCloses, PeerResets,
                LoopReturns, LoopAt, LoopTo
  <2> QED
    BY <2>1, <2>2, OthersHidden
<1>5. CASE Sending \/ ConsoleEof \/ UNCHANGED vars
  <2>1. UNCHANGED <<connections, ip_fd, conn, bev, loop>>
    BY <1>5 DEF Sending, FindFd, FindFdRaces, FindConnection, Write, Broadcast,
       AllLocate, AllNext, ConsoleEof, vars, registry
  <2> QED
    BY <2>1, OthersHidden
<1> QED
  BY <1>1, <1>2, <1>3, <1>4, <1>5 DEF Next, Callback

\* Server<T>'s two maps, changed in several unlocked steps, are the directory
\* in which one client represents an address until it leaves (Server.h:152-183).
THEOREM DirectoryImplemented == Spec => ImplementsDirectory
<1>1. Init => Directory!Init
  <2> SUFFICES ASSUME Init PROVE Directory!Init
    OBVIOUS
  <2>1. \A c \in Conns : ~Member(c)
    BY DEF Init, Member, Live, Created
  <2>2. \A ip \in IPs : Holder(ip) = None
    BY DEF Init, Holder
  <2> QED
    BY <2>1, <2>2 DEF Directory!Init
<1>2. TypeOK /\ RegistryInv => HolderIs
  BY HolderIsLive
<1>3. /\ TypeOK /\ RegistryInv /\ HolderIs /\ RegistryInv' /\ HolderIs' /\ [Next]_vars
      => [Directory!Next]_(Directory!directory)
  BY DirectoryStep
<1> QED
  BY <1>1, <1>2, <1>3, RegistryCorrect, PTL DEF Spec, ImplementsDirectory, Directory!Spec

=============================================================================
