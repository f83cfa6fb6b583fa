--------------------------- MODULE SipStream_proofs ---------------------------
(***************************************************************************)
(* The streams of SipRpc.  First the server's side: every call that the    *)
(* server receives is of its connection; it is the one that was written    *)
(* first, whole, unless writing a call there has timed out; and one is     *)
(* served on a connection, once.  Then the client's side: what arrives on  *)
(* a connection answers the call that the server served on it, and is      *)
(* given to one call.  Then SipRpc as a service: xmlrpcserver stays while  *)
(* its client does, the type invariant, and the two programs implement     *)
(* RemoteCalls.                                                            *)
(***************************************************************************)
EXTENDS SipRpc_proofs

\* Where the first call of a connection ends.
EndOf(c) == 12 + CallLen[c]

\* After n characters of connection c the stream continues with the rest of
\* call c; no other call is written before it is complete, unless it never
\* will be.  Of a connection on which writing a call has timed out, nothing is
\* known but that its calls are made on it.
Arriving(c, n) ==
  LET w == wire["server"][c] IN
  \/ c \in stalled
  \/ /\ \A i \in 1..Len(w) : n + i <= EndOf(c) => w[i] = Letter(c, n + i, CallLen[c])
     /\ \/ EndOf(c) <= n + Len(w)
        \/ near[c] # "open"
        \/ main = "opened" /\ c = made /\ Conn(0) = c /\ n = 0 /\ w = << >>

\* The letters of the calls that are made on connection c.
Heard(c) == {t \in Letters(CallLen) : via[t.msg] = c}

Carriage ==
  /\ \A c \in Calls : wire["server"][c] \in Seq(Heard(c))
  /\ server \in {"reading", "serving"} => proto[Server].data \in Seq(Heard(Conn(Server)))

\* The server has consumed n characters of the call it reads.
ReadTo(n) ==
  LET c == Conn(Server) IN
  /\ Follows(proto[Server], n, c, CallLen[c])
  /\ n + proto[Server].have <= EndOf(c)
  /\ Arriving(c, n)

Streams ==
  /\ \A c \in Calls : far[c] = "backlog" => Arriving(c, 0)
  /\ server = "reading" /\ Conn(Server) \notin stalled => \E n \in 0..EndOf(Conn(Server)) : ReadTo(n)

\* Nothing is written before it is called.
Unmade == \A k \in Calls : k > made => far[k] = "none" /\ wire["server"][k] = << >>

\* One call is served on a connection, and none yet on the one accepted.
Once ==
  /\ \A i, j \in DOMAIN served : via[served[i]] = via[served[j]] => i = j
  /\ \A i \in DOMAIN served : via[served[i]] \in Calls /\ far[via[served[i]]] \notin {"none", "backlog"}
  /\ server \in {"reading", "serving", "closing", "failing"} => far[Conn(Server)] = "open"
  /\ server \in {"reading", "serving"} => \A i \in DOMAIN served : via[served[i]] # Conn(Server)

\* The server begins with no length and no fields, and serves what is whole.
Clean ==
  /\ server = "serving" =>
       /\ Request \in Calls /\ via[Request] = Conn(Server)
       /\ \/ Conn(Server) \in stalled
          \/ Whole(proto[Server].data) /\ Request = Conn(Server) /\ proto[Server].fields
  /\ server \in {"down", "accepting", "closing"} =>
       proto[Server].length = Missing /\ ~proto[Server].fields
  /\ server = "terminated" => stalled # {}

Receiving == Streams /\ Carriage /\ Unmade /\ Once /\ Clean

\* A call's body is not empty, and not shorter than a read.
LEMMA CallLength ==
  ASSUME NEW c \in Calls
  PROVE  CallLen[c] \in Nat \ {0} /\ CallLen[c] >= Buffer /\ EndOf(c) \in Nat
BY LengthAssumption, BufferAssumption DEF EndOf

\* A step that writes nothing to a connection, and ends no call being made there.
LEMMA ArrivingKeeps ==
  ASSUME NEW c \in Calls, NEW n \in Nat, Arriving(c, n), Growing,
         wire'["server"][c] = wire["server"][c],
         near[c] # "open" => near'[c] # "open",
         main = "opened" /\ c = made /\ Conn(0) = c =>
           \/ near'[c] # "open"
           \/ main' = "opened" /\ made' = made /\ Conn(0)' = Conn(0)
  PROVE  Arriving(c, n)'
BY DEF Arriving, Growing

\* The call being made is the first on its connection, or comes after it.
LEMMA ArrivingWrites ==
  ASSUME Typed, Growing, NEW c \in Calls, NEW n \in Nat, Arriving(c, n), near[c] = "open",
         NEW k \in Nat, k <= 12 + CallLen[made], made \in Calls,
         NEW t, t = SubSeq(Message(made, CallLen[made]), 1, k),
         wire'["server"][c] = wire["server"][c] \o t,
         k = 12 + CallLen[made] \/ near'[c] # "open"
  PROVE  Arriving(c, n)'
<1> DEFINE w == wire["server"][c]
<1>1. w \in Seq(Letters(CallLen)) /\ Len(w) \in Nat
  BY TypedFacts DEF Voice
<1>2. t \in Seq(Letters(CallLen)) /\ Len(t) = k
      /\ \A i \in 1..k : t[i] = Letter(made, i, CallLen[made])
  <2>1. Message(made, CallLen[made]) \in Seq(Letters(CallLen))
        /\ Len(Message(made, CallLen[made])) = 12 + CallLen[made]
    BY MessageType, HeaderLength
  <2>2. \A i \in 1..(12 + CallLen[made]) : Message(made, CallLen[made])[i] = Letter(made, i, CallLen[made])
    BY HeaderLength DEF Message
  <2> QED
    BY <2>1, <2>2, CallLength
<1>3. EndOf(c) \in Nat
  BY CallLength
<1>4. CASE c \notin stalled /\ EndOf(c) <= n + Len(w)
  <2> HIDE DEF w
  <2>1. wire'["server"][c] = w \o t
    BY DEF w
  <2>2. Len(w \o t) = Len(w) + k /\ \A i \in 1..Len(w) : (w \o t)[i] = w[i]
    BY <1>1, <1>2
  <2>3. EndOf(c) <= n + Len(w \o t)
    BY <1>1, <1>3, <1>4, <2>2
  <2>4. \A i \in 1..Len(w) : n + i <= EndOf(c) => w[i] = Letter(c, n + i, CallLen[c])
    BY <1>4 DEF Arriving, w
  <2>5. ASSUME NEW i \in 1..Len(w \o t), n + i <= EndOf(c)
        PROVE  (w \o t)[i] = Letter(c, n + i, CallLen[c])
    <3>1. i \in 1..Len(w)
      BY <1>1, <1>3, <1>4, <2>2, <2>5
    <3> QED
      BY <2>2, <2>4, <2>5, <3>1
  <2> QED
    BY <2>1, <2>3, <2>5 DEF Arriving
<1>5. CASE c = made /\ n = 0 /\ w = << >>
  <2>1. wire'["server"][c] = t
    BY <1>2, <1>5
  <2>2. Len(t) = k /\ \A i \in 1..Len(t) : t[i] = Letter(c, 0 + i, CallLen[c])
    BY <1>2, <1>5
  <2>3. k = 12 + CallLen[made] => EndOf(c) <= 0 + Len(t)
    BY <1>3, <1>5, <2>2 DEF EndOf
  <2> QED
    BY <1>5, <2>1, <2>2, <2>3 DEF Arriving
<1>6. c \in stalled => Arriving(c, n)'
  BY DEF Arriving, Growing
<1> QED
  BY <1>4, <1>5, <1>6 DEF Arriving

\* A call that has a connection keeps it.
LEMMA ViaKept ==
  ASSUME Typed, Ways, Growing, NEW k \in Calls, via[k] \in Calls
  PROVE  via'[k] = via[k] /\ k <= made
<1>1. ~(k > made)
  BY EndsFacts DEF Ways, None
<1>2. k <= made
  BY <1>1, EndsFacts, TypedFacts
<1> QED
  BY <1>1, <1>2 DEF Ways, Growing

\* What was heard on a connection still is.
LEMMA HeardGrows ==
  ASSUME Typed, Ways, Growing, NEW c \in Calls
  PROVE  Heard(c) \subseteq Heard(c)' /\ \A s \in Seq(Heard(c)) : s \in Seq(Heard(c)')
<1>1. Heard(c) \subseteq Heard(c)'
  <2> SUFFICES ASSUME NEW t \in Heard(c) PROVE t \in Heard(c)'
    OBVIOUS
  <2>1. t \in Letters(CallLen) /\ via[t.msg] = c /\ t.msg \in Calls
    BY LetterFacts, EndsFacts DEF Heard, LettersOf
  <2>2. via'[t.msg] = c
    BY <2>1, ViaKept, TypedFacts
  <2> QED
    BY <2>1, <2>2 DEF Heard
<1>2. ASSUME NEW S, NEW T, S \subseteq T, NEW s \in Seq(S) PROVE s \in Seq(T)
  BY <1>2
<1> QED
  BY <1>1, <1>2

\* What is written to a connection is of a call that is made on it.
LEMMA HeardWrites ==
  ASSUME Typed, Ways, Growing, Carriage, NEW c \in Calls, NEW k \in Calls, via[k] = c,
         NEW t \in Seq(Letters(CallLen)), \A i \in 1..Len(t) : t[i].msg = k,
         wire'["server"][c] = wire["server"][c] \o t
  PROVE  wire'["server"][c] \in Seq(Heard(c)')
<1>1. t \in Seq(Heard(c))
  <2>1. \A i \in 1..Len(t) : t[i] \in Heard(c)
    BY DEF Heard
  <2> HIDE DEF Heard
  <2> QED
    BY <2>1
<1>2. wire["server"][c] \in Seq(Heard(c))
  BY DEF Carriage
<1>3. wire["server"][c] \o t \in Seq(Heard(c))
  BY <1>1, <1>2
<1> QED
  BY <1>3, HeardGrows

\* A step of the client program.
LEMMA ClientKeeps ==
  ASSUME Typed, Ways, Growing, Receiving, UNCHANGED <<server, served>>, proto'[Server] = proto[Server],
         \A c \in Calls : \/ far'[c] = far[c]
                          \/ far[c] \in {"closed", "reset"} /\ far'[c] = "reset"
                          \/ far[c] = "none" /\ far'[c] = "backlog" /\ Arriving(c, 0)',
         \A c \in Calls, n \in Nat :
           far[c] \in {"backlog", "open"} /\ Arriving(c, n) => Arriving(c, n)',
         \A c \in Calls : \/ wire'["server"][c] = wire["server"][c]
                          \/ wire'["server"][c] \in Seq(Heard(c)'),
         Unmade'
  PROVE  Receiving'
<1>1. server \in {"reading", "serving", "closing", "failing"} => Conn(Server) \in Calls /\ far[Conn(Server)] = "open"
  BY TypedFacts DEF Receiving, Once
<1>2. Conn(Server)' = Conn(Server) /\ Request' = Request
  BY DEF Conn, Request
<1>3. \A i \in DOMAIN served : served[i] \in Calls /\ via[served[i]] \in Calls /\ via'[served[i]] = via[served[i]]
  <2>1. \A i \in DOMAIN served : served[i] \in Calls /\ via[served[i]] \in Calls
    BY DEF Typed, Scalars, Receiving, Once
  <2> QED
    BY <2>1, ViaKept
<1>4. Once'
  <2>1. \A i \in DOMAIN served' : /\ via'[served'[i]] \in Calls
                                  /\ far'[via'[served'[i]]] \notin {"none", "backlog"}
    BY <1>3 DEF Receiving, Once
  <2>2. server' \in {"reading", "serving", "closing", "failing"} => far'[Conn(Server)'] = "open"
    BY <1>1, <1>2
  <2>3. \A i, j \in DOMAIN served' : via'[served'[i]] = via'[served'[j]] => i = j
    BY <1>3 DEF Receiving, Once
  <2>4. server' \in {"reading", "serving"} => \A i \in DOMAIN served' : via'[served'[i]] # Conn(Server)'
    BY <1>2, <1>3 DEF Receiving, Once
  <2> QED
    BY <2>1, <2>2, <2>3, <2>4 DEF Once
<1>5. \A c \in Calls : far'[c] = "backlog" => Arriving(c, 0)'
  BY DEF Receiving, Streams
<1>6. server' = "reading" /\ Conn(Server)' \notin stalled' => \E n \in 0..EndOf(Conn(Server)') : ReadTo(n)'
  <2> SUFFICES ASSUME server' = "reading", Conn(Server)' \notin stalled'
               PROVE \E n \in 0..EndOf(Conn(Server)') : ReadTo(n)'
    OBVIOUS
  <2>1. PICK n \in 0..EndOf(Conn(Server)) : ReadTo(n)
    BY <1>2 DEF Receiving, Streams, Growing
  <2>2. Conn(Server) \in Calls /\ far[Conn(Server)] = "open" /\ n \in Nat
    BY <1>1
  <2>3. ReadTo(n)'
    BY <1>2, <2>1, <2>2 DEF ReadTo
  <2> QED
    BY <1>2, <2>3
<1>7. Carriage'
  <2>1. \A c \in Calls : wire'["server"][c] \in Seq(Heard(c)')
    BY HeardGrows DEF Receiving, Carriage
  <2>2. server' \in {"reading", "serving"} => proto'[Server].data \in Seq(Heard(Conn(Server))')
    BY <1>1, <1>2, HeardGrows DEF Receiving, Carriage
  <2> QED
    BY <2>1, <2>2 DEF Carriage
<1>8. Clean'
  <2>1. server = "serving" => Request \in Calls /\ Conn(Server) \in Calls /\ via[Request] = Conn(Server)
    BY <1>1 DEF Receiving, Clean
  <2>2. server = "serving" => via'[Request] = Conn(Server)
    BY <2>1, ViaKept
  <2>3. Conn(Server) \in stalled => Conn(Server) \in stalled'
    BY DEF Growing
  <2>4. stalled # {} => stalled' # {}
    BY DEF Growing
  <2> QED
    BY <1>2, <2>1, <2>2, <2>3, <2>4 DEF Receiving, Clean
<1> QED
  BY <1>4, <1>5, <1>6, <1>7, <1>8 DEF Receiving, Streams

-----------------------------------------------------------------------------
(* The steps of the client.                                                *)

\* A call begins, on a connection of its own or on the one kept.
LEMMA ReceivingBegin ==
  ASSUME Typed, Ways, Growing, Receiving, NEW k \in Calls, Reuse(k) \/ Open(k) \/ OpenRefused(k)
  PROVE  Receiving'
<1>1. /\ made' = made + 1 /\ k = made' /\ made \in Nat
      /\ proto'[Server] = proto[Server]
      /\ UNCHANGED <<server, served, wire>> /\ main = "idle"
  <2>1. made' = made + 1 /\ k = made' /\ proto'[Server] = proto[Server] /\ made \in Nat
    BY TypedReuse, TypedOpen, TypedOpenRefused, TypedFacts, EndsFacts
  <2> QED
    BY <2>1 DEF Reuse, Open, OpenRefused, Begin, OnConnection, links
<1>2. far[k] = "none" /\ wire["server"][k] = << >>
  BY <1>1 DEF Receiving, Unmade
<1>3. /\ \A c \in Calls \ {k} : near'[c] = near[c]
      /\ \A c \in Calls \ {k} : far'[c] = far[c]
      /\ \/ far'[k] = far[k]
         \/ far'[k] = "backlog" /\ main' = "opened" /\ Conn(0)' = k
  <2>1. CASE Reuse(k)
    BY <2>1 DEF Reuse, links
  <2>2. CASE Open(k)
    <3>1. Conn(0)' = k
      BY <2>2, TypedOpen
    <3>2. near' = [near EXCEPT ![k] = "open"] /\ far' = [far EXCEPT ![k] = "backlog"] /\ main' = "opened"
      BY <2>2 DEF Open
    <3> QED
      BY <3>1, <3>2 DEF Typed, Scalars
  <2>3. CASE OpenRefused(k)
    BY <2>3 DEF OpenRefused, Typed, Scalars
  <2> QED
    BY <2>1, <2>2, <2>3
<1>4. far'[k] = "backlog" => Arriving(k, 0)'
  BY <1>1, <1>2, <1>3 DEF Arriving
<1>5. ASSUME NEW c \in Calls, NEW n \in Nat, far[c] \in {"backlog", "open"}, Arriving(c, n)
      PROVE  Arriving(c, n)'
  BY <1>1, <1>2, <1>3, <1>5, ArrivingKeeps
<1>6. Unmade'
  BY <1>1, <1>3, EndsFacts DEF Receiving, Unmade
<1> QED
  BY <1>1, <1>2, <1>3, <1>4, <1>5, <1>6, ClientKeeps

\* A call is written, after whatever was written to its connection before.
LEMMA ReceivingSend ==
  ASSUME Typed, Ways, Growing, Receiving, Send
  PROVE  Receiving'
<1> DEFINE o == Conn(0)
<1>1. /\ made \in Calls /\ o \in Calls /\ near[o] = "open" /\ main = "opened"
      /\ UNCHANGED <<server, served, near, made>>
      /\ proto'[Server] = proto[Server] /\ o <= made
  <2>1. made \in Calls /\ o \in Calls
    BY TypedSend
  <2>2. proto'[Server] = proto[Server]
    BY TypedSend, EndsFacts
  <2>3. o <= made
    BY <2>1, EndsFacts DEF Typed, Owners
  <2> QED
    BY <2>1, <2>2, <2>3 DEF Send, history
<1>2. \A c \in Calls \ {o} : wire'["server"][c] = wire["server"][c] /\ far'[c] = far[c]
  <2>1. \A c \in Calls \ {o} : wire'["server"][c] = wire["server"][c]
    BY TypedSend
  <2>2. far' = far \/ far' = [far EXCEPT ![o] = "reset"]
    BY DEF Send
  <2> QED
    BY <2>1, <2>2 DEF Typed, Scalars
<1>3. \/ Reset(o) /\ wire' = wire /\ far'[o] = "reset"
      \/ /\ ~Reset(o) /\ far' = far
         /\ wire'["server"][o] = wire["server"][o] \o Message(made, CallLen[made])
  <2>1. IF Reset(o) THEN far' = [far EXCEPT ![o] = "reset"] ELSE far' = far
    BY DEF Send
  <2>2. IF Reset(o) THEN far'[o] = "reset" ELSE far' = far
    BY <1>1, <2>1 DEF Typed, Scalars
  <2>3. \/ Reset(o) /\ wire' = wire
        \/ /\ ~Reset(o)
           /\ wire'["server"][o] = wire["server"][o] \o Message(made, CallLen[made])
    BY TypedSend
  <2> QED
    BY <2>2, <2>3
<1>4. ASSUME NEW c \in Calls, NEW n \in Nat, far[c] \in {"backlog", "open"}, Arriving(c, n)
      PROVE  Arriving(c, n)'
  <2>1. CASE c # o
    BY <1>1, <1>2, <1>4, <2>1, ArrivingKeeps
  <2>2. CASE c = o
    <3>1. wire'["server"][o] = wire["server"][o] \o Message(made, CallLen[made])
      BY <1>3, <1>4, <2>2 DEF Reset
    <3>2. Message(made, CallLen[made]) = SubSeq(Message(made, CallLen[made]), 1, 12 + CallLen[made])
      <4>1. PICK t \in Seq(Letters(CallLen)) : t = Message(made, CallLen[made])
        BY <1>1, MessageType
      <4>2. t = SubSeq(t, 1, Len(t))
        OBVIOUS
      <4>3. Len(Message(made, CallLen[made])) = 12 + CallLen[made]
        BY <1>1, MessageType, HeaderLength
      <4> QED
        BY <4>1, <4>2, <4>3
    <3>3. PICK k \in Nat : k = 12 + CallLen[made]
      BY <1>1, CallLength
    <3>4. wire'["server"][c] = wire["server"][c] \o SubSeq(Message(made, CallLen[made]), 1, k)
      BY <2>2, <3>1, <3>2, <3>3
    <3>5. near[c] = "open" /\ k <= 12 + CallLen[made]
      BY <1>1, <2>2, <3>3
    <3> HIDE DEF o
    <3> QED
      BY <1>1, <1>4, <3>3, <3>4, <3>5, ArrivingWrites
  <2> QED
    BY <2>1, <2>2
<1>5. Unmade'
  <2> SUFFICES ASSUME NEW k \in Calls, k > made PROVE far'[k] = "none" /\ wire'["server"][k] = << >>
    BY <1>1 DEF Unmade
  <2>1. k # o
    BY <1>1, EndsFacts
  <2> QED
    BY <1>2, <2>1 DEF Receiving, Unmade
<1>6. ASSUME NEW c \in Calls
      PROVE  wire'["server"][c] = wire["server"][c] \/ wire'["server"][c] \in Seq(Heard(c)')
  <2>1. CASE c # o \/ wire' = wire
    BY <1>2, <2>1
  <2>2. CASE c = o /\ wire'["server"][o] = wire["server"][o] \o Message(made, CallLen[made])
    <3>1. PICK t \in Seq(Letters(CallLen)) : t = Message(made, CallLen[made])
      BY <1>1, MessageType
    <3>2. \A i \in 1..Len(t) : t[i].msg = made
      BY <1>1, <3>1, MessageType DEF Message, Letter
    <3>3. via[made] = o
      BY <1>1 DEF Ways
    <3> HIDE DEF o
    <3> QED
      BY <1>1, <2>2, <3>1, <3>2, <3>3, HeardWrites DEF Receiving
  <2> QED
    BY <1>3, <2>1, <2>2
<1> QED
  BY <1>1, <1>2, <1>3, <1>4, <1>5, <1>6, ClientKeeps DEF Reset

\* Nothing is written by a call that fails.
LEMMA ReceivingSendFails ==
  ASSUME Typed, Ways, Growing, Receiving, SendFails
  PROVE  Receiving'
<1>1. /\ Conn(0) \in Calls /\ wire'["server"] = wire["server"]
      /\ UNCHANGED <<server, served, far, made>>
  BY TypedSendFails DEF SendFails, history
<1>2. proto'[Server] = proto[Server]
  BY TypedSendFails, EndsFacts
<1>3. \/ near' = near /\ far[Conn(0)] = "reset"
      \/ near' = [near EXCEPT ![Conn(0)] = "closed"]
  BY DEF SendFails, Close
<1>4. ASSUME NEW c \in Calls, NEW n \in Nat, far[c] \in {"backlog", "open"}, Arriving(c, n)
      PROVE  Arriving(c, n)'
  <2>1. near[c] # "open" => near'[c] # "open"
    BY <1>1, <1>3 DEF Typed, Scalars
  <2>2. Conn(0) = c => near'[c] # "open"
    BY <1>1, <1>3, <1>4 DEF Typed, Scalars
  <2> QED
    BY <1>1, <1>4, <2>1, <2>2, ArrivingKeeps
<1>5. Unmade'
  BY <1>1 DEF Receiving, Unmade
<1> QED
  BY <1>1, <1>2, <1>4, <1>5, ClientKeeps

\* A call that is written in part is still one of its connection.
LEMMA ReceivingSendTimesOut ==
  ASSUME Typed, Ways, Growing, Receiving, SendTimesOut
  PROVE  Receiving'
<1> DEFINE o == Conn(0)
<1>1. /\ made \in Calls /\ o \in Calls /\ main = "opened" /\ proto' = proto
      /\ stalled' = stalled \cup {o} /\ UNCHANGED <<made, server, near, far, served>>
      /\ \A d \in Calls \ {o} : wire'["server"][d] = wire["server"][d]
  BY TypedSendTimesOut
<1>2. PICK t \in Seq(Letters(CallLen)) : /\ wire'["server"][o] = wire["server"][o] \o t
                                         /\ \A i \in 1..Len(t) : t[i].msg = made
  BY TypedSendTimesOut
<1>3. via[made] = o
  BY <1>1 DEF Ways
<1>4. ASSUME NEW c \in Calls
      PROVE  wire'["server"][c] = wire["server"][c] \/ wire'["server"][c] \in Seq(Heard(c)')
  <2>1. CASE c = o
    <3>1. via[made] = c /\ wire'["server"][c] = wire["server"][c] \o t
      BY <1>2, <1>3, <2>1
    <3>2. Carriage
      BY DEF Receiving
    <3> QED
      BY <1>1, <1>2, <3>1, <3>2, HeardWrites
  <2> QED
    BY <1>1, <2>1
<1>5. ASSUME NEW c \in Calls, NEW n \in Nat, Arriving(c, n) PROVE Arriving(c, n)'
  <2>1. CASE c = o
    BY <1>1, <2>1 DEF Arriving
  <2>2. CASE c # o
    BY <1>1, <1>5, <2>2, ArrivingKeeps
  <2> QED
    BY <2>1, <2>2
<1>6. Unmade'
  <2> SUFFICES ASSUME NEW k \in Calls, k > made PROVE far'[k] = "none" /\ wire'["server"][k] = << >>
    BY <1>1 DEF Unmade
  <2>1. o <= made /\ made \in Nat
    BY EndsFacts, TypedFacts DEF Typed, Owners
  <2>2. k # o
    BY <1>1, <2>1, EndsFacts
  <2> QED
    BY <1>1, <2>2 DEF Receiving, Unmade
<1> HIDE DEF o
<1> QED
  BY <1>1, <1>4, <1>5, <1>6, ClientKeeps

\* A step that writes and closes nothing.
LEMMA ReceivingIdle ==
  ASSUME Typed, Ways, Growing, Receiving, UNCHANGED <<server, served, far, near, made, main>>,
         wire'["server"] = wire["server"], proto'[Server] = proto[Server], Conn(0)' = Conn(0)
  PROVE  Receiving'
<1>1. ASSUME NEW c \in Calls, NEW n \in Nat, Arriving(c, n) PROVE Arriving(c, n)'
  BY <1>1, ArrivingKeeps
<1>2. Unmade'
  BY DEF Receiving, Unmade
<1> QED
  BY <1>1, <1>2, ClientKeeps

\* The client's loop reads only what the server wrote.
LEMMA ReceivingClientLoops ==
  ASSUME Typed, Ways, Growing, Receiving, NEW e \in Clients, Looping(e)
  PROVE  Receiving'
<1>1. UNCHANGED <<server, served, far, near, made, main>>
  BY DEF Looping, Machine, Read, program, links, history
<1>2. proto'[Server] = proto[Server] /\ Conn(0)' = Conn(0) /\ wire'["server"] = wire["server"]
  <2>1. CASE Machine(e)
    <3>1. Side(e) = "client" /\ "server" \in Sides
      BY SideFacts DEF Sides
    <3>2. \A d \in Ends \ {e} : proto'[d] = proto[d]
      BY <2>1, TypedMachine, EndsFacts
    <3>3. Conn(e)' = Conn(e) /\ wire'["server"] = wire["server"]
      BY <2>1, <3>1, TypedMachine, EndsFacts
    <3> QED
      BY <3>2, <3>3, EndsFacts DEF Conn
  <2>2. CASE Read(e)
    <3>1. \A d \in Ends \ {e} : proto'[d] = proto[d]
      BY <2>2, TypedRead, EndsFacts
    <3>2. Conn(0)' = Conn(0)
      BY <2>2, TypedRead, EndsFacts
    <3>3. wire' = wire
      BY <2>2 DEF Read, links
    <3> QED
      BY <3>1, <3>2, <3>3, EndsFacts
  <2> QED
    BY <2>1, <2>2 DEF Looping
<1> QED
  BY <1>1, <1>2, ReceivingIdle

\* A wait that ends may close the client's end.
LEMMA ReceivingEnding ==
  ASSUME Typed, Ways, Growing, Receiving, NEW e \in Clients, Ending(e) \/ Timeout(e)
  PROVE  Receiving'
<1>1. Waiting(e) /\ (LeaveOpen(e) \/ LeaveClosed(e)) /\ Leave(e)
      /\ UNCHANGED <<persistent, made, kind, server, far, served>> /\ timedout' \in BOOLEAN
      /\ result' \in [Calls -> {"none", "threw", "transmitted", "response"}]
      /\ answer' \in [Calls -> 0..MaxCalls]
  BY TypedRespond, TypedGivesUp DEF Ending, Typed, Scalars
<1>2. /\ \A d \in Ends \ {e} : proto'[d] = proto[d]
      /\ wire'["server"] = wire["server"]
      /\ near' \in {near, [near EXCEPT ![Conn(e)] = "closed"]}
      /\ e # 0 => main' = main
  BY <1>1, TypedLeaves
<1>3. proto'[Server] = proto[Server] /\ (e # 0 => Conn(0)' = Conn(0))
  BY <1>2, EndsFacts DEF Conn
<1>4. Conn(e) \in Calls /\ (e = 0 => main = "waiting")
  BY <1>1, TypedFacts, WaitingFacts, EndsFacts
<1>5. ASSUME NEW c \in Calls, NEW n \in Nat, Arriving(c, n) PROVE Arriving(c, n)'
  <2>1. near[c] # "open" => near'[c] # "open"
    BY <1>2, <1>4 DEF Typed, Scalars
  <2>2. main = "opened" => main' = "opened" /\ made' = made /\ Conn(0)' = Conn(0)
    BY <1>1, <1>2, <1>3, <1>4
  <2> QED
    BY <1>2, <1>5, <2>1, <2>2, ArrivingKeeps
<1>6. Unmade'
  BY <1>1, <1>2 DEF Receiving, Unmade
<1> QED
  BY <1>1, <1>2, <1>3, <1>5, <1>6, ClientKeeps

\* A program that ends may leave a part of a call, and never another after it.
LEMMA ReceivingQuit ==
  ASSUME Typed, Ways, Growing, Receiving, Quit
  PROVE  Receiving'
<1>1. proto'[Server] = proto[Server] /\ UNCHANGED <<made, server, far, served>>
  BY TypedQuit
<1>2. \A c \in Calls : near'[c] # "open"
  BY DEF Quit
<1>3. \/ wire'["server"] = wire["server"]
      \/ /\ main = "opened" /\ Conn(0) \in Calls /\ made \in Calls
         /\ near[Conn(0)] = "open" /\ ~Reset(Conn(0))
         /\ \A d \in Calls \ {Conn(0)} : wire'["server"][d] = wire["server"][d]
         /\ \E n \in 1..12 + CallLen[made] :
              wire'["server"][Conn(0)] =
                wire["server"][Conn(0)] \o SubSeq(Message(made, CallLen[made]), 1, n)
  BY QuitWire, HeaderLength
<1>4. ASSUME NEW c \in Calls, NEW n \in Nat, Arriving(c, n) PROVE Arriving(c, n)'
  <2>1. CASE wire'["server"][c] = wire["server"][c]
    BY <1>2, <1>4, <2>1, ArrivingKeeps
  <2>2. CASE wire'["server"][c] # wire["server"][c]
    <3>1. c = Conn(0) /\ made \in Calls /\ near[c] = "open"
      BY <1>3, <2>2
    <3>2. PICK k \in 1..12 + CallLen[made] :
            wire'["server"][c] = wire["server"][c] \o SubSeq(Message(made, CallLen[made]), 1, k)
      BY <1>3, <2>2
    <3>3. k \in Nat /\ k <= 12 + CallLen[made] /\ near'[c] # "open"
      BY <1>2, <3>1, CallLength
    <3> QED
      BY <1>4, <3>1, <3>2, <3>3, ArrivingWrites
  <2> QED
    BY <2>1, <2>2
<1>5. Unmade'
  <2> SUFFICES ASSUME NEW k \in Calls, k > made PROVE far'[k] = "none" /\ wire'["server"][k] = << >>
    BY <1>1 DEF Unmade
  <2>1. Conn(0) <= made /\ made \in Nat
    BY EndsFacts, TypedFacts DEF Typed, Owners
  <2>2. k # Conn(0)
    BY <2>1, EndsFacts DEF Typed, Owners
  <2> QED
    BY <1>1, <1>3, <2>2 DEF Receiving, Unmade
<1>6. ASSUME NEW c \in Calls
      PROVE  wire'["server"][c] = wire["server"][c] \/ wire'["server"][c] \in Seq(Heard(c)')
  <2>1. CASE wire'["server"][c] # wire["server"][c]
    <3>1. c = Conn(0) /\ main = "opened" /\ made \in Calls
      BY <1>3, <2>1
    <3>2. PICK n \in 1..12 + CallLen[made] :
            wire'["server"][c] = wire["server"][c] \o SubSeq(Message(made, CallLen[made]), 1, n)
      BY <1>3, <2>1
    <3>3. PICK m \in Seq(Letters(CallLen)) : m = Message(made, CallLen[made])
      BY <3>1, MessageType
    <3>4. Len(m) = 12 + CallLen[made] /\ \A i \in 1..Len(m) : m[i].msg = made
      BY <3>1, <3>3, MessageType, HeaderLength DEF Message, Letter
    <3>5. PICK t \in Seq(Letters(CallLen)) : t = SubSeq(m, 1, n) /\ \A i \in 1..Len(t) : t[i].msg = made
      <4>1. n \in 1..Len(m)
        BY <3>4
      <4>2. SubSeq(m, 1, n) \in Seq(Letters(CallLen)) /\ Len(SubSeq(m, 1, n)) = n
            /\ \A i \in 1..n : SubSeq(m, 1, n)[i] = m[i] /\ i \in 1..Len(m)
        BY <4>1
      <4> QED
        BY <3>4, <4>2
    <3>6. via[made] = c
      BY <3>1 DEF Ways
    <3> QED
      BY <3>1, <3>2, <3>3, <3>5, <3>6, HeardWrites DEF Receiving
  <2> QED
    BY <2>1
<1> QED
  BY <1>1, <1>4, <1>5, <1>6, ClientKeeps

-----------------------------------------------------------------------------
(* The steps of the server.                                                *)

\* Nothing the client has or has written changes.
LEMMA ArrivingStays ==
  ASSUME Typed, NEW c \in Calls, NEW n \in Nat, Arriving(c, n),
         wire'["server"][c] = wire["server"][c],
         UNCHANGED <<near, main, made, via, stalled>>, proto'[0] = proto[0]
  PROVE  Arriving(c, n)'
BY ArrivingKeeps DEF Conn, Growing

\* What is heard changes with new calls only.
LEMMA HeardStays ==
  ASSUME via' = via, NEW c
  PROVE  Heard(c)' = Heard(c)
BY DEF Heard

\* The server begins with the first character of the connection.
LEMMA ReceivingAccept ==
  ASSUME Typed, Receiving, NEW c \in Calls, Accept(c)
  PROVE  Receiving'
<1>1. /\ Conn(Server)' = c /\ \A e \in Clients : proto'[e] = proto[e]
      /\ proto'[Server] = BeginWait([resetConnection(proto[Server]) EXCEPT !.conn = c])
  BY TypedAccept
<1>2. /\ server = "accepting" /\ server' = "reading" /\ far[c] = "backlog"
      /\ far' = [far EXCEPT ![c] = "open"]
      /\ UNCHANGED <<near, main, made, wire, served, via, stalled>>
  BY DEF Accept, program, history
<1>3. far'[c] = "open" /\ \A d \in Calls \ {c} : far'[d] = far[d]
  BY <1>2 DEF Typed, Scalars
<1>4. \A d \in Calls, n \in Nat : Arriving(d, n) => Arriving(d, n)'
  BY <1>1, <1>2, ArrivingStays, EndsFacts
<1>5. proto'[Server].have = 0 /\ Follows(proto'[Server], 0, c, CallLen[c])
  <2>1. proto[Server].length = Missing /\ ~proto[Server].fields
    BY <1>2 DEF Receiving, Clean
  <2>2. proto[Server] \in Protocols(LettersOf(Server)) /\ c \in Nat
    BY TypedFacts, EndsFacts
  <2> QED
    BY <1>1, <2>1, <2>2, FollowsFresh
<1>6. ReadTo(0)'
  <2>1. Arriving(c, 0)'
    BY <1>2, <1>4 DEF Receiving, Streams
  <2>2. 0 + proto'[Server].have <= EndOf(c)
    BY <1>5, CallLength DEF EndOf
  <2> QED
    BY <1>1, <1>5, <2>1, <2>2 DEF ReadTo
<1>7. Streams'
  <2>1. 0 \in 0..EndOf(Conn(Server)')
    BY <1>1, CallLength
  <2>2. \A d \in Calls : far'[d] = "backlog" => far[d] = "backlog"
    BY <1>3
  <2> QED
    BY <1>4, <1>6, <2>1, <2>2 DEF Receiving, Streams
<1>8. Unmade'
  <2>1. ~(c > made)
    BY <1>2 DEF Receiving, Unmade
  <2> QED
    BY <1>2, <1>3, <2>1 DEF Receiving, Unmade
<1>9. Once'
  <2>1. \A i \in DOMAIN served : via[served[i]] \in Calls /\ via[served[i]] # c
    BY <1>2 DEF Receiving, Once
  <2> QED
    BY <1>1, <1>2, <1>3, <2>1 DEF Receiving, Once
<1>10. Carriage'
  <2>1. proto'[Server].data = << >>
    <3>1. proto[Server] \in Protocols(LettersOf(Server)) /\ c \in Nat
      BY TypedFacts, EndsFacts
    <3> QED
      BY <1>1, <3>1 DEF BeginWait, resetConnection, clearSipInfo, Protocols
  <2>2. \A d \in Calls : wire'["server"][d] \in Seq(Heard(d)')
    BY <1>2, HeardStays DEF Receiving, Carriage
  <2>3. << >> \in Seq(Heard(Conn(Server))')
    OBVIOUS
  <2> QED
    BY <2>1, <2>2, <2>3 DEF Carriage
<1>11. Clean'
  BY <1>2 DEF Clean
<1> QED
  BY <1>7, <1>8, <1>9, <1>10, <1>11 DEF Receiving

\* What is left of the stream continues where the machine has stopped.
LEMMA ArrivingConsumed ==
  ASSUME Typed, NEW c \in Calls, NEW n \in Nat, Arriving(c, n), c \notin stalled, NEW k \in Nat,
         k <= Len(wire["server"][c]),
         wire'["server"][c] = SubSeq(wire["server"][c], k + 1, Len(wire["server"][c])),
         UNCHANGED <<near, main, made, stalled>>, proto'[0] = proto[0]
  PROVE  Arriving(c, n + k)'
<1> DEFINE w == wire["server"][c]
<1>1. w \in Seq(Letters(CallLen)) /\ Len(w) \in Nat /\ EndOf(c) \in Nat
  BY TypedFacts, CallLength DEF Voice
<1>2. PICK v \in Seq(Letters(CallLen)) : v = w
  BY <1>1
<1>3. PICK z : z = SubSeq(v, k + 1, Len(v))
  OBVIOUS
<1>4. k <= Len(v)
  BY <1>2
<1>5. z \in Seq(Letters(CallLen)) /\ Len(z) = Len(v) - k /\ \A i \in 1..Len(z) : z[i] = v[k + i]
  BY <1>3, <1>4
<1>6. wire'["server"][c] = z
  BY <1>2, <1>3
<1>7. /\ \A i \in 1..Len(v) : n + i <= EndOf(c) => v[i] = Letter(c, n + i, CallLen[c])
      /\ \/ EndOf(c) <= n + Len(v)
         \/ near[c] # "open"
         \/ main = "opened" /\ c = made /\ Conn(0) = c /\ n = 0 /\ v = << >>
  BY <1>2 DEF Arriving
<1> HIDE DEF w
<1>8. ASSUME NEW i \in 1..Len(z), (n + k) + i <= EndOf(c) PROVE z[i] = Letter(c, (n + k) + i, CallLen[c])
  <2>1. k + i \in 1..Len(v) /\ n + (k + i) = (n + k) + i
    BY <1>4, <1>5
  <2> QED
    BY <1>5, <1>7, <1>8, <2>1
<1>9. (n + k) + Len(z) = n + Len(v)
  BY <1>4, <1>5
<1>10. v = << >> => k = 0 /\ z = << >>
  BY <1>4, <1>5
<1>11. \/ EndOf(c) <= (n + k) + Len(z)
       \/ near[c] # "open"
       \/ main = "opened" /\ c = made /\ Conn(0) = c /\ n + k = 0 /\ z = << >>
  BY <1>7, <1>9, <1>10
<1>12. Conn(0)' = Conn(0)
  BY DEF Conn
<1> QED
  BY <1>6, <1>8, <1>11, <1>12 DEF Arriving

\* The server consumes what it has read of a call.
LEMMA MachineReads ==
  ASSUME Typed, Receiving, Machine(Server), Conn(Server) \notin stalled
  PROVE  \E n \in 0..EndOf(Conn(Server)') : ReadTo(n)'
<1> DEFINE p == proto[Server]
           q == proto'[Server]
<1>0. PICK c \in Calls : c = Conn(Server)
  BY TypedMachine, EndsFacts
<1> DEFINE w == wire["server"][c]
<1>1. /\ server = "reading" /\ Busy(p) /\ c = Conn(Server) /\ Conn(Server)' = c
      /\ q = connectionMachine(p, w)
      /\ \A d \in Ends \ {Server} : proto'[d] = proto[d]
      /\ wire'["server"][c] = SubSeq(w, p.have - q.have + 1, Len(w))
      /\ \A d \in Calls \ {c} : wire'["server"][d] = wire["server"][d]
  BY <1>0, TypedMachine, EndsFacts, SideFacts, WaitingFacts DEF Inbox
<1>2. UNCHANGED <<server, served, far, near, made, main, stalled>> /\ c \notin stalled
  BY <1>0 DEF Machine, program, history
<1>3. PICK n \in 0..EndOf(c) : ReadTo(n)
  BY <1>1, <1>2 DEF Receiving, Streams
<1>4. /\ n \in Nat /\ EndOf(c) \in Nat /\ CallLen[c] \in Nat \ {0}
      /\ Follows(p, n, c, CallLen[c]) /\ n + p.have <= EndOf(c) /\ Arriving(c, n)
      /\ p.have \in Nat /\ p.have <= Len(w) /\ w \in Seq(LettersOf(Server))
      /\ p \in Protocols(LettersOf(Server))
  <2>1. n \in Nat /\ EndOf(c) \in Nat /\ CallLen[c] \in Nat \ {0}
    BY <1>1, CallLength
  <2>2. Follows(p, n, c, CallLen[c]) /\ n + p.have <= EndOf(c) /\ Arriving(c, n)
    BY <1>0, <1>3 DEF ReadTo
  <2>3. p.have \in Nat /\ p \in Protocols(LettersOf(Server)) /\ w \in Seq(LettersOf(Server))
    BY <1>1, TypedFacts, EndsFacts DEF Voice, LettersOf
  <2>4. p.have <= Len(w)
    BY <1>1, EndsFacts, SideFacts, WaitingFacts DEF Typed, Buffers, Inbox
  <2> QED
    BY <2>1, <2>2, <2>3, <2>4
<1>5. \A i \in 1..p.have : w[i] = Letter(c, n + i, CallLen[c])
  <2>1. \A i \in 1..Len(w) : n + i <= EndOf(c) => w[i] = Letter(c, n + i, CallLen[c])
    BY <1>2, <1>4 DEF Arriving
  <2>2. Len(w) \in Nat
    BY <1>4
  <2> HIDE DEF w
  <2>3. \A i \in 1..p.have : i \in 1..Len(w) /\ n + i <= EndOf(c)
    BY <1>4, <2>2
  <2> QED
    BY <2>1, <2>3
<1>6. PICK k \in Nat : q.have = p.have - k /\ k <= p.have /\ Follows(q, n + k, c, CallLen[c])
  <2>1. n + p.have <= 12 + CallLen[c]
    BY <1>4 DEF EndOf
  <2>2. PICK x \in Protocols(LettersOf(Server)), s \in Seq(LettersOf(Server)), len \in Nat \ {0} :
          x = p /\ s = w /\ len = CallLen[c]
    BY <1>4
  <2>3. Follows(x, n, c, len) /\ Busy(x) /\ n + x.have <= 12 + len /\ x.have <= Len(s)
        /\ \A i \in 1..x.have : s[i] = Letter(c, n + i, len)
    BY <1>1, <1>4, <1>5, <2>1, <2>2
  <2>4. PICK y : y = connectionMachine(x, s)
    OBVIOUS
  <2>5. \E k \in Nat : y.have = x.have - k /\ k <= x.have /\ Follows(y, n + k, c, len)
    BY <1>4, <2>3, <2>4, FollowsMachine
  <2> QED
    BY <1>1, <2>2, <2>4, <2>5
<1>7. n + k \in 0..EndOf(c) /\ (n + k) + q.have <= EndOf(c) /\ p.have - q.have = k
  BY <1>4, <1>6
<1>8. Arriving(c, n + k)'
  <2>1. wire'["server"][c] = SubSeq(w, k + 1, Len(w)) /\ k <= Len(w)
    <3>1. Len(w) \in Nat
      BY <1>4
    <3>2. p.have - q.have + 1 = k + 1
      BY <1>7
    <3>3. k <= Len(w)
      BY <1>4, <1>6, <3>1
    <3> QED
      BY <1>1, <3>2, <3>3
  <2>2. proto'[0] = proto[0]
    BY <1>1, EndsFacts
  <2> QED
    BY <1>2, <1>4, <2>1, <2>2, ArrivingConsumed
<1>9. ReadTo(n + k)'
  BY <1>1, <1>6, <1>7, <1>8 DEF ReadTo
<1> QED
  BY <1>1, <1>7, <1>9

\* The server consumes what it has read, of its connection's calls.
LEMMA ReceivingMachine ==
  ASSUME Typed, Receiving, Machine(Server)
  PROVE  Receiving'
<1>0. PICK c \in Calls : c = Conn(Server)
  BY TypedMachine, EndsFacts
<1>1. /\ server = "reading" /\ Conn(Server)' = c
      /\ \A d \in Ends \ {Server} : proto'[d] = proto[d]
      /\ \A d \in Calls \ {c} : wire'["server"][d] = wire["server"][d]
  BY <1>0, TypedMachine, EndsFacts, SideFacts, WaitingFacts
<1>2. UNCHANGED <<server, served, far, near, made, main, via, stalled>>
  BY DEF Machine, program, history
<1>10. \A d \in Calls : far'[d] = "backlog" => Arriving(d, 0)'
  <2> SUFFICES ASSUME NEW d \in Calls, far[d] = "backlog" PROVE Arriving(d, 0)'
    BY <1>2
  <2>1. d # c
    BY <1>0, <1>1 DEF Receiving, Once
  <2>2. Arriving(d, 0) /\ proto'[0] = proto[0] /\ wire'["server"][d] = wire["server"][d]
    BY <1>1, <2>1, EndsFacts DEF Receiving, Streams
  <2> QED
    BY <1>2, <2>2, ArrivingStays
<1>11. Unmade'
  <2>1. far[c] = "open"
    BY <1>0, <1>1 DEF Receiving, Once
  <2>2. \A d \in Calls : d > made => d # c
    BY <2>1 DEF Receiving, Unmade
  <2> QED
    BY <1>1, <1>2, <2>2 DEF Receiving, Unmade
<1>12. Once'
  BY <1>0, <1>1, <1>2 DEF Receiving, Once
<1>13. Streams'
  BY <1>0, <1>1, <1>2, <1>10, MachineReads DEF Streams
<1>14. Carriage'
  <2>1. /\ \/ proto'[Server].data = proto[Server].data
           \/ proto'[Server].data =
                proto[Server].data \o SubSeq(wire["server"][c], 1, proto[Server].have)
        /\ wire'["server"][c] = SubSeq(wire["server"][c], proto[Server].have - proto'[Server].have + 1,
                                      Len(wire["server"][c]))
        /\ proto'[Server].have \in Nat /\ proto'[Server].have <= proto[Server].have
        /\ proto[Server].have \in Nat /\ proto[Server].have <= Len(wire["server"][c])
    <3>1. Server \in Ends /\ Side(Server) = "server" /\ Waiting(Server) /\ Conn(Server) = c
          /\ Conn(Server)' = c /\ Inbox(Server) = wire["server"][c] /\ Inbox(Server)' = wire'["server"][c]
      BY <1>0, <1>1, EndsFacts, SideFacts, WaitingFacts DEF Inbox
    <3>2. proto[Server].have \in Nat /\ proto[Server].have <= Len(Inbox(Server))
      BY <3>1, TypedFacts DEF Typed, Buffers
    <3>3. /\ \/ proto'[Server].data = proto[Server].data
             \/ proto'[Server].data =
                  proto[Server].data \o SubSeq(Inbox(Server), 1, proto[Server].have)
          /\ proto'[Server].have \in Nat /\ proto'[Server].have <= proto[Server].have
          /\ Inbox(Server)' = SubSeq(Inbox(Server), proto[Server].have - proto'[Server].have + 1,
                                     Len(Inbox(Server)))
      BY <3>1, TypedMachine
    <3> QED
      BY <3>1, <3>2, <3>3
  <2>2. PICK S : S = Heard(c)
    OBVIOUS
  <2>3. PICK w \in Seq(S), d \in Seq(S), h \in Nat, k \in Nat :
          /\ w = wire["server"][c] /\ d = proto[Server].data /\ h = proto[Server].have
          /\ k = proto'[Server].have
    BY <1>0, <1>1, <2>1, <2>2 DEF Receiving, Carriage
  <2>4. SubSeq(w, 1, h) \in Seq(S) /\ SubSeq(w, h - k + 1, Len(w)) \in Seq(S)
    BY <2>1, <2>3
  <2>5. d \o SubSeq(w, 1, h) \in Seq(S)
    BY <2>4
  <2>6. proto'[Server].data \in Seq(S) /\ wire'["server"][c] \in Seq(S)
    BY <2>1, <2>3, <2>4, <2>5
  <2> QED
    BY <1>0, <1>1, <1>2, <2>2, <2>6, HeardStays DEF Receiving, Carriage
<1>15. Clean'
  BY <1>1, <1>2 DEF Clean
<1> QED
  BY <1>11, <1>12, <1>13, <1>14, <1>15 DEF Receiving

\* A read goes no further than the end of the call.
LEMMA ReceivingRead ==
  ASSUME Typed, Receiving, Read(Server)
  PROVE  Receiving'
<1> DEFINE p == proto[Server]
           q == proto'[Server]
           c == Conn(Server)
<1>1. /\ server = "reading" /\ ~Busy(p) /\ c \in Calls /\ Conn(Server)' = c
      /\ \A d \in Ends \ {Server} : proto'[d] = proto[d]
      /\ UNCHANGED <<server, served, far, near, made, main, wire, via, stalled>>
  BY TypedRead, EndsFacts, WaitingFacts DEF Read, WantsMore, program, links, history
<1>2. PICK k \in Nat : k <= ReadLimit(p) /\ q = readRaw(p, k)
  BY TypedRead, EndsFacts
<1>3. \A d \in Calls, i \in Nat : Arriving(d, i) => Arriving(d, i)'
  BY <1>1, ArrivingStays, EndsFacts
<1>4. server' = "reading" /\ Conn(Server)' \notin stalled' => \E n \in 0..EndOf(Conn(Server)') : ReadTo(n)'
  <2> SUFFICES ASSUME c \notin stalled PROVE \E n \in 0..EndOf(Conn(Server)') : ReadTo(n)'
    BY <1>1
  <2>3. PICK n \in 0..EndOf(c) : ReadTo(n)
    BY <1>1 DEF Receiving, Streams
  <2>4. /\ n \in Nat /\ CallLen[c] \in Nat \ {0} /\ CallLen[c] >= Buffer
        /\ Follows(p, n, c, CallLen[c]) /\ Arriving(c, n)
        /\ p \in Protocols(LettersOf(Server))
    BY <1>1, <2>3, CallLength, TypedFacts, EndsFacts DEF ReadTo
  <2>5. q.have = k /\ Follows(q, n, c, CallLen[c]) /\ n + k <= EndOf(c)
    <3> HIDE DEF p, q, c
    <3> QED
      BY <1>1, <1>2, <2>4, FollowsRead DEF EndOf
  <2>7. ReadTo(n)'
    BY <1>1, <2>4, <2>5, <1>3 DEF ReadTo
  <2> QED
    BY <1>1, <2>7
<1>5. Streams'
  BY <1>1, <1>3, <1>4 DEF Receiving, Streams
<1>6. Carriage'
  <2>1. proto'[Server].data = proto[Server].data
    BY TypedRead, EndsFacts
  <2> QED
    BY <1>1, <2>1, HeardStays DEF Receiving, Carriage
<1>7. Unmade' /\ Once' /\ Clean'
  BY <1>1 DEF Receiving, Unmade, Once, Clean
<1> QED
  BY <1>5, <1>6, <1>7 DEF Receiving

\* A complete call is whole, and is that of the connection.
LEMMA CompleteCall ==
  ASSUME Typed, Receiving, Complete(Server), Conn(Server) \notin stalled
  PROVE  Whole(proto[Server].data) /\ Request = Conn(Server) /\ proto[Server].fields
<1> DEFINE p == proto[Server]
           c == Conn(Server)
<1>1. server = "reading" /\ ~Busy(p) /\ ~hasBytesToRead(p)
  BY WaitingFacts DEF Complete
<1>2. PICK n \in 0..EndOf(c) : ReadTo(n)
  BY <1>1 DEF Receiving, Streams
<1>3. /\ n \in Nat /\ CallLen[c] \in Nat \ {0} /\ Follows(p, n, c, CallLen[c])
      /\ p \in Protocols(LettersOf(Server))
  BY <1>1, <1>2, CallLength, TypedFacts, EndsFacts DEF ReadTo
<1> HIDE DEF p, c
<1>4. Whole(p.data) /\ p.data[1].msg = c /\ p.fields
  BY <1>1, <1>3, FollowsComplete
<1> QED
  BY <1>4 DEF p, c, Request

\* The call that is read is one of its connection.
LEMMA ReadableCall ==
  ASSUME Typed, Receiving, server \in {"reading", "serving"}, proto[Server].data # << >>
  PROVE  Request \in Calls /\ via[Request] = Conn(Server)
<1>1. PICK d \in Seq(Heard(Conn(Server))) : d = proto[Server].data
  BY DEF Receiving, Carriage
<1>2. d[1] \in Heard(Conn(Server))
  BY <1>1
<1> QED
  BY <1>1, <1>2, LetterFacts, EndsFacts DEF Heard, Request, LettersOf

\* When no byte is awaited any more the call is whole.
LEMMA ReceivingReceived ==
  ASSUME Typed, Receiving, Received, server' = "serving"
  PROVE  Receiving'
<1>1. /\ proto' = proto /\ server = "reading"
      /\ UNCHANGED <<made, main, near, far, wire, served, via, stalled>>
  BY TypedReceived DEF links, history
<1>2. /\ Request \in Calls /\ via[Request] = Conn(Server)
      /\ \/ Conn(Server) \in stalled
         \/ Whole(proto[Server].data) /\ Request = Conn(Server) /\ proto[Server].fields
  <2>1. Complete(Server) /\ (Readable(proto[Server].data) \/ Exit("terminated"))
    BY DEF Received
  <2>2. proto[Server].data # << >>
    BY <2>1 DEF Readable, Exit
  <2> QED
    BY <1>1, <2>1, <2>2, CompleteCall, ReadableCall
<1>3. \A d \in Calls, n \in Nat : Arriving(d, n) => Arriving(d, n)'
  BY <1>1, ArrivingStays
<1>4. Conn(Server)' = Conn(Server) /\ Request' = Request
  BY <1>1 DEF Conn, Request
<1>5. Streams' /\ Unmade'
  BY <1>1, <1>3 DEF Receiving, Streams, Unmade
<1>6. Once' /\ Clean'
  BY <1>1, <1>2, <1>4 DEF Receiving, Once, Clean
<1>7. Carriage'
  BY <1>1, <1>4, HeardStays DEF Receiving, Carriage
<1> QED
  BY <1>5, <1>6, <1>7 DEF Receiving

\* Closing connections of the server's end.
LEMMA ShutKeeps ==
  ASSUME Typed, Receiving, NEW cs \in SUBSET {c \in Calls : far[c] \in {"open", "backlog"}},
         Shut(cs), Conn(Server) \in Calls,
         UNCHANGED <<near, main, made, via, stalled>>, \A e \in Clients : proto'[e] = proto[e]
  PROVE  /\ \A d \in Calls : IF d \in cs THEN far'[d] \in {"closed", "reset"} ELSE far'[d] = far[d]
         /\ \A d \in Calls : far'[d] = "backlog" => Arriving(d, 0)'
         /\ Unmade'
         /\ \A d \in Calls : wire'["server"][d] \in Seq(Heard(d)')
<1>1. /\ \A d \in Calls : IF d \in cs THEN far'[d] \in {"closed", "reset"} ELSE far'[d] = far[d]
      /\ \A d \in Calls : wire'["server"][d] = IF d \in cs THEN << >> ELSE wire["server"][d]
  BY ShutEffect
<1>2. ASSUME NEW d \in Calls, far'[d] = "backlog" PROVE Arriving(d, 0)'
  <2>1. d \notin cs /\ far[d] = "backlog" /\ wire'["server"][d] = wire["server"][d]
    BY <1>1, <1>2
  <2>2. Arriving(d, 0) /\ proto'[0] = proto[0]
    BY <2>1, EndsFacts DEF Receiving, Streams
  <2> QED
    BY <2>1, <2>2, ArrivingStays
<1>3. Unmade'
  BY <1>1 DEF Receiving, Unmade
<1>4. \A d \in Calls : wire'["server"][d] \in Seq(Heard(d)')
  <2>1. \A d \in Calls : << >> \in Seq(Heard(d)) /\ wire["server"][d] \in Seq(Heard(d))
    BY DEF Receiving, Carriage
  <2> QED
    BY <1>1, <2>1, HeardStays
<1> QED
  BY <1>1, <1>2, <1>3, <1>4

\* The call that is served was not served before.
LEMMA AppendOnce ==
  ASSUME Typed, Receiving, server = "serving", served' = Append(served, Request), via' = via
  PROVE  /\ \A i, j \in DOMAIN served' : via'[served'[i]] = via'[served'[j]] => i = j
         /\ \A i \in DOMAIN served' : \/ via'[served'[i]] = Conn(Server)
                                     \/ \E j \in DOMAIN served : served'[i] = served[j]
<1>1. via[Request] = Conn(Server) /\ Request \in Calls /\ served \in Seq(Calls)
  BY DEF Receiving, Clean, Typed, Scalars
<1>2. PICK s \in Seq(Calls), x \in Calls : s = served /\ x = Request
  BY <1>1
<1>3. /\ \A i, j \in DOMAIN s : via[s[i]] = via[s[j]] => i = j
      /\ \A i \in DOMAIN s : via[s[i]] # via[x]
  BY <1>1, <1>2 DEF Receiving, Once
<1>4. PICK z : z = Append(s, x)
  OBVIOUS
<1>5. /\ DOMAIN s = 1..Len(s) /\ DOMAIN z = 1..(Len(s) + 1) /\ Len(s) \in Nat
      /\ z[Len(s) + 1] = x /\ \A i \in 1..Len(s) : z[i] = s[i]
  BY <1>4
<1>6. \A i \in DOMAIN z : i \in DOMAIN s \/ i = Len(s) + 1
  BY <1>5
<1>7. /\ \A i, j \in DOMAIN z : via[z[i]] = via[z[j]] => i = j
      /\ \A i \in DOMAIN z : z[i] = x \/ \E j \in DOMAIN s : z[i] = s[j]
  BY <1>3, <1>5, <1>6
<1> QED
  BY <1>1, <1>2, <1>4, <1>7

\* The server program ends.
LEMMA ReceivingExit ==
  ASSUME Typed, Receiving, server \in {"reading", "serving", "failing"},
         NEW how \in {"exited", "terminated"}, Exit(how), how = "terminated" => stalled # {},
         served' = served \/ (server = "serving" /\ served' = Append(served, Request)),
         served' \in Seq(Calls), timedout' \in BOOLEAN, UNCHANGED <<via, stalled>>
  PROVE  Receiving'
<1> DEFINE cs == {c \in Calls : far[c] \in {"open", "backlog"}}
<1>1. /\ server' = how /\ Shut(cs) /\ Conn(Server) \in Calls
      /\ \A e \in Clients : proto'[e] = proto[e]
      /\ UNCHANGED <<near, main, made>>
  BY TypedExit
<1>2. /\ \A d \in Calls : IF d \in cs THEN far'[d] \in {"closed", "reset"} ELSE far'[d] = far[d]
      /\ \A d \in Calls : far'[d] = "backlog" => Arriving(d, 0)'
      /\ Unmade'
      /\ \A d \in Calls : wire'["server"][d] \in Seq(Heard(d)')
  BY <1>1, ShutKeeps
<1>3. Streams' /\ Carriage' /\ Clean'
  BY <1>1, <1>2 DEF Streams, Carriage, Clean
<1>4. \A d \in Calls : far[d] \notin {"none", "backlog"} => far'[d] \notin {"none", "backlog"}
  BY <1>2
<1>5. far[Conn(Server)] = "open" /\ \A i \in DOMAIN served : via[served[i]] \in Calls
  BY DEF Receiving, Once
<1>6. \A i \in DOMAIN served : far'[via[served[i]]] \notin {"none", "backlog"}
  BY <1>4, <1>5 DEF Receiving, Once
<1>7. far'[Conn(Server)] \notin {"none", "backlog"}
  BY <1>1, <1>4, <1>5
<1>8. /\ \A i, j \in DOMAIN served' : via'[served'[i]] = via'[served'[j]] => i = j
      /\ \A i \in DOMAIN served' : /\ via'[served'[i]] \in Calls
                                  /\ far'[via'[served'[i]]] \notin {"none", "backlog"}
  <2>1. CASE served' = served
    BY <1>5, <1>6, <2>1 DEF Receiving, Once
  <2>2. CASE server = "serving" /\ served' = Append(served, Request)
    BY <1>1, <1>5, <1>6, <1>7, <2>2, AppendOnce
  <2> QED
    BY <2>1, <2>2
<1>9. Once'
  BY <1>1, <1>8 DEF Once
<1> QED
  BY <1>2, <1>3, <1>9 DEF Receiving

\* Serving the call of the connection.
LEMMA ReceivingServe ==
  ASSUME Typed, Receiving, Serve \/ ServeTimesOut
  PROVE  Receiving'
<1>1. Request \in Calls /\ via[Request] = Conn(Server) /\ server = "serving"
      /\ UNCHANGED <<via, stalled>>
  BY DEF Serve, ServeTimesOut, Receiving, Clean
<1>2. /\ server' \in {"closing", "failing"} /\ served' = Append(served, Request)
      /\ Conn(Server)' = Conn(Server) /\ Conn(Server) \in Calls
      /\ \A e \in Clients : proto'[e] = proto[e]
      /\ UNCHANGED <<made, main, near, far>> /\ wire'["server"] = wire["server"]
  <2>1. CASE Serve
    BY <1>1, <2>1, TypedServe
  <2>2. CASE ServeTimesOut
    BY <1>1, <2>2, TypedServeTimesOut, EndsFacts
  <2> QED
    BY <2>1, <2>2
<1>3. \A d \in Calls, n \in Nat : Arriving(d, n) => Arriving(d, n)'
  BY <1>1, <1>2, ArrivingStays, EndsFacts
<1>4. Streams' /\ Unmade' /\ Carriage'
  BY <1>1, <1>2, <1>3, HeardStays DEF Receiving, Streams, Unmade, Carriage
<1>5. Clean'
  <2>1. CASE Serve
    <3>1. proto'[Server] = clearSipHeader(proto[Server])
      BY <2>1, EndsFacts DEF Serve, Typed, IsFamily
    <3>2. proto[Server] \in Protocols(LettersOf(Server))
      BY TypedFacts, EndsFacts
    <3>3. proto'[Server].length = Missing /\ ~proto'[Server].fields
      BY <3>1, <3>2 DEF clearSipHeader, Protocols
    <3> QED
      BY <1>2, <3>3 DEF Clean
  <2>2. CASE ServeTimesOut
    BY <2>2 DEF ServeTimesOut, Clean
  <2> QED
    BY <2>1, <2>2
<1>6. \A i \in DOMAIN served' : /\ via'[served'[i]] \in Calls
                               /\ far'[via'[served'[i]]] \notin {"none", "backlog"}
  <2>1. far[Conn(Server)] = "open"
    BY <1>1 DEF Receiving, Once
  <2> QED
    BY <1>1, <1>2, <2>1, AppendOnce DEF Receiving, Once
<1>7. \A i, j \in DOMAIN served' : via'[served'[i]] = via'[served'[j]] => i = j
  BY <1>1, <1>2, AppendOnce
<1>8. Once'
  <2>1. far'[Conn(Server)'] = "open"
    BY <1>1, <1>2 DEF Receiving, Once
  <2> QED
    BY <1>2, <1>6, <1>7, <2>1 DEF Once
<1> QED
  BY <1>4, <1>5, <1>8 DEF Receiving

\* The next connection is read with no length and no fields left over.
LEMMA ReceivingClose ==
  ASSUME Typed, Receiving, CloseConnection
  PROVE  Receiving'
<1>1. /\ server = "closing" /\ server' = "accepting" /\ Conn(Server) \in Calls
      /\ \A e \in Clients : proto'[e] = proto[e]
      /\ UNCHANGED <<near, main, made, served, via, stalled>> /\ Shut({Conn(Server)})
  BY TypedCloseConnection DEF CloseConnection, history
<1>2. proto'[Server].length = Missing /\ ~proto'[Server].fields
  <2>1. proto' = [proto EXCEPT ![Server].conn = None]
    BY DEF CloseConnection
  <2>2. proto'[Server] = [proto[Server] EXCEPT !.conn = None]
    BY <2>1, EndsFacts DEF Typed, IsFamily
  <2>3. proto[Server] \in Protocols(LettersOf(Server))
    BY TypedFacts, EndsFacts
  <2>4. proto'[Server].length = proto[Server].length /\ (proto'[Server].fields <=> proto[Server].fields)
    BY <2>2, <2>3 DEF Protocols
  <2> QED
    BY <1>1, <2>4 DEF Receiving, Clean
<1>3. \A d \in Calls : IF d = Conn(Server) THEN far'[d] \in {"closed", "reset"} ELSE far'[d] = far[d]
  BY <1>1, ShutEffect
<1>4. \A d \in Calls : wire'["server"][d] = IF d = Conn(Server) THEN << >> ELSE wire["server"][d]
  BY <1>1, ShutEffect
<1>5. ASSUME NEW d \in Calls, far'[d] = "backlog" PROVE Arriving(d, 0)'
  <2>1. far[d] = "backlog" /\ wire'["server"][d] = wire["server"][d]
    BY <1>3, <1>4, <1>5
  <2>2. Arriving(d, 0) /\ proto'[0] = proto[0]
    BY <1>1, <2>1, EndsFacts DEF Receiving, Streams
  <2> QED
    BY <1>1, <2>1, <2>2, ArrivingStays
<1>6. Streams'
  BY <1>1, <1>5 DEF Streams
<1>7. far[Conn(Server)] # "none"
  BY <1>1 DEF Receiving, Once
<1>8. Unmade'
  BY <1>1, <1>3, <1>4, <1>7 DEF Receiving, Unmade
<1>9. Once'
  <2>1. \A i \in DOMAIN served : via[served[i]] \in Calls
    BY DEF Receiving, Once
  <2> QED
    BY <1>1, <1>3, <2>1 DEF Receiving, Once
<1>10. Clean'
  BY <1>1, <1>2 DEF Clean
<1>11. Carriage'
  <2>1. \A d \in Calls : << >> \in Seq(Heard(d)) /\ wire["server"][d] \in Seq(Heard(d))
    BY DEF Receiving, Carriage
  <2> QED
    BY <1>1, <1>4, <2>1, HeardStays DEF Carriage
<1> QED
  BY <1>6, <1>8, <1>9, <1>10, <1>11 DEF Receiving

\* Every step keeps it.
LEMMA ReceivingStep ==
  ASSUME Typed, Ways, Growing, Receiving, [Next]_vars
  PROVE  Receiving'
<1>1. CASE UNCHANGED vars
  <2>1. UNCHANGED <<made, main, server, proto, wire, near, far, served>>
    BY <1>1 DEF vars, program, links, history
  <2> QED
    BY <2>1, ReceivingIdle DEF Conn
<1>2. CASE StartServer
  <2>1. /\ server = "down" /\ server' = "accepting"
        /\ UNCHANGED <<made, main, proto, wire, near, far, served, via, stalled>>
    BY <1>2 DEF StartServer, program, links, history
  <2>2. \A d \in Calls, n \in Nat : Arriving(d, n) => Arriving(d, n)'
    BY <2>1, ArrivingStays
  <2>3. Carriage'
    BY <2>1, HeardStays DEF Receiving, Carriage
  <2> QED
    BY <2>1, <2>2, <2>3 DEF Receiving, Streams, Unmade, Once, Clean
<1>3. ASSUME NEW k \in Calls, Reuse(k) \/ Open(k) \/ OpenRefused(k) PROVE Receiving'
  BY <1>3, ReceivingBegin
<1>4. ASSUME NEW k \in Calls, StartThread(k) PROVE Receiving'
  <2>1. UNCHANGED <<made, main, server, proto, wire, near, far, served>>
    BY <1>4 DEF StartThread, links, history
  <2> QED
    BY <2>1, ReceivingIdle DEF Conn
<1>5. CASE Send \/ SendFails \/ SendTimesOut \/ Quit
  BY <1>5, ReceivingSend, ReceivingSendFails, ReceivingSendTimesOut, ReceivingQuit
<1>6. ASSUME NEW e \in Ends, Looping(e) PROVE Receiving'
  BY <1>6, ReceivingClientLoops, ReceivingMachine, ReceivingRead, EndsFacts DEF Looping
<1>7. ASSUME NEW e \in Clients, Ending(e) \/ Timeout(e) PROVE Receiving'
  BY <1>7, ReceivingEnding
<1>8. ASSUME NEW c \in Calls, Accept(c) PROVE Receiving'
  BY <1>8, ReceivingAccept
<1>9. CASE ServerTimeout \/ ServerReadFails \/ Fail
  <2>1. /\ server \in {"reading", "failing"} /\ served' = served /\ Exit("exited")
        /\ UNCHANGED <<via, stalled>>
    BY <1>9, WaitingFacts DEF ServerTimeout, ServerReadFails, Fail, WantsMore, history
  <2>2. served' \in Seq(Calls) /\ timedout' \in BOOLEAN
    BY <1>9, <2>1 DEF ServerTimeout, ServerReadFails, Fail, history, Typed, Scalars
  <2> QED
    BY <2>1, <2>2, ReceivingExit
<1>10. CASE ServeFails
  <2>1. /\ server = "serving" /\ timedout' \in BOOLEAN /\ Exit("exited") /\ served' = Append(served, Request)
        /\ UNCHANGED <<via, stalled>>
    BY <1>10 DEF ServeFails, Typed, Scalars
  <2>2. Request \in Calls
    BY <2>1 DEF Receiving, Clean
  <2>3. served' \in Seq(Calls)
    BY <2>1, <2>2 DEF Typed, Scalars
  <2> QED
    BY <2>1, <2>3, ReceivingExit
<1>11. CASE Received
  <2>1. CASE Readable(proto[Server].data) /\ server' = "serving"
    BY <1>11, <2>1, ReceivingReceived
  <2>2. CASE ~Whole(proto[Server].data) /\ Exit("terminated")
    <3>1. /\ server = "reading" /\ Complete(Server) /\ UNCHANGED <<via, stalled>> /\ served' = served
          /\ served' \in Seq(Calls) /\ timedout' \in BOOLEAN
      BY <1>11, WaitingFacts DEF Received, Complete, history, Typed, Scalars
    <3>2. Conn(Server) \in stalled
      BY <2>2, <3>1, CompleteCall
    <3> QED
      BY <2>2, <3>1, <3>2, ReceivingExit
  <2> QED
    BY <1>11, <2>1, <2>2 DEF Received
<1> QED
  BY <1>1, <1>2, <1>3, <1>4, <1>5, <1>6, <1>7, <1>8, <1>9, <1>10, <1>11, ReceivingServe, ReceivingClose
  DEF Next, Calling, Serving

\* At first nothing is written.
LEMMA ReceivingInit == Init => Receiving
<1> SUFFICES ASSUME Init PROVE Receiving
  OBVIOUS
<1>1. server = "down" /\ far = [c \in Calls |-> "none"] /\ served = << >>
      /\ wire = [s \in {"client", "server"} |-> [c \in Calls |-> << >>]]
      /\ proto[Server] = NewProtocol
  BY EndsFacts DEF Init
<1>2. Streams /\ Unmade /\ Carriage
  BY <1>1 DEF Streams, Unmade, Carriage
<1>3. DOMAIN served = {}
  BY <1>1
<1>4. NewProtocol.length = Missing /\ ~NewProtocol.fields
  BY DEF NewProtocol
<1> QED
  BY <1>1, <1>2, <1>3, <1>4 DEF Receiving, Once, Clean

\* Whatever the server reads is of a call that is made on the connection that
\* it accepted; it is the first one, from its first character and never past
\* its end, unless writing a call there has timed out; and one call is served
\* on a connection, once.
THEOREM AlwaysReceiving == Spec => []Receiving
<1>1. Typed /\ HasData /\ Ways /\ Receiving /\ [Next]_vars => Receiving'
  BY WaysStep, ReceivingStep
<1> QED
  BY <1>1, ReceivingInit, AlwaysTyped, AlwaysWays, PTL DEF Spec

\* However the stream is cut into reads, whatever the size of the buffer and
\* the lengths of the calls, the server takes the call that opened a connection
\* for what was written, unless writing a call there has timed out; only after
\* that may a call crash it; and no call is served twice.
THEOREM CallsArriveWholeHolds == Spec => []CallsArriveWhole
<1>1. Typed /\ Receiving => CallsArriveWhole
  <2> SUFFICES ASSUME Typed, Receiving PROVE CallsArriveWhole
    OBVIOUS
  <2>1. Complete(Server) /\ Conn(Server) \notin stalled => Whole(proto[Server].data) /\ Request = Conn(Server)
    BY CompleteCall
  <2>2. server = "serving" /\ Conn(Server) \notin stalled =>
          Whole(proto[Server].data) /\ Request = Conn(Server)
    BY DEF Receiving, Clean
  <2>3. server = "terminated" => stalled # {}
    BY DEF Receiving, Clean
  <2>4. \A i, j \in DOMAIN served : served[i] = served[j] => i = j
    BY DEF Receiving, Once
  <2> QED
    BY <2>1, <2>2, <2>3, <2>4 DEF CallsArriveWhole
<1> QED
  BY <1>1, AlwaysReceiving, AlwaysTyped, PTL

-----------------------------------------------------------------------------
(* What the client hears.                                                  *)

Done == Range(served)
Served(c) == \E j \in Done : via[j] = c
Exhausted(c) == \E i \in Calls : answer[i] # 0 /\ via[answer[i]] = c

\* Nothing is to arrive on the connection: no call is served on it yet, or the
\* response has been taken.
Mute(c) == ~Served(c) \/ Exhausted(c)

\* The letters of the response to the call that was served on connection c.
Told(c) == {t \in Letters(AnswerLen) : t.msg \in Done /\ via[t.msg] = c /\ t.body = AnswerLen[t.msg]}

\* End e makes a call, and waits or is about to wait for its response.
Using(e)   == IF e = 0 THEN main \in {"opened", "waiting"} ELSE thread[e] \in {"created", "waiting"}
Listens(e) == IF e = 0 THEN main = "waiting" ELSE thread[e] \in {"created", "waiting"}

Of(s, c)     == \A i \in 1..Len(s) : s[i] \in Told(c)
Rising(s)    == \A i, j \in 1..Len(s) : i < j => s[i].at < s[j].at
Before(d, s) == \A i \in 1..Len(d), j \in 1..Len(s) : d[i].at < s[j].at

Fresh(p) == p.remain = -1 /\ p.state # "ConnSwitchToBody"

\* Connection c carries a part of the response to the call served on it.
Echo(c) ==
  LET w == wire["client"][c] IN
  Of(w, c) /\ Rising(w) /\ (Mute(c) => w = << >>)

\* An end that listens has taken a part before that.
Hears(e) ==
  LET c == Conn(e) IN
  /\ Of(proto[e].data, c) /\ Before(proto[e].data, wire["client"][c])
  /\ Mute(c) => proto[e].data = << >> /\ Fresh(proto[e])

Hearing ==
  /\ \A c \in Calls : Echo(c)
  /\ \A e \in Clients : Listens(e) => Hears(e)
  /\ main = "opened" => Fresh(proto[0])

\* No call made on connection c but k, which is the last, awaits a response.
Given(c, k) ==
  \A j \in Calls : via[j] = c /\ j # k =>
    j < k /\ (Exhausted(c) \/ result[j] \in {"threw", "transmitted"})

Answers ==
  /\ \A k \in Calls : k > made => result[k] = "none" /\ answer[k] = 0
  /\ \A e \in Clients : Using(e) =>
       result[CallOf(e)] = "none" /\ Given(Conn(e), CallOf(e))
  /\ \A k \in Calls : Using(0) /\ Using(k) => k # made
  /\ main = "idle" /\ Conn(0) # None => Given(Conn(0), made + 1)
  /\ \A k \in Calls : result[k] = "response" <=> answer[k] # 0
  /\ \A k \in Calls : answer[k] # 0 =>
       /\ answer[k] \in Done /\ answer[k] <= k /\ via[answer[k]] = via[k]
       /\ answer[k] # k => result[answer[k]] \in {"threw", "transmitted"}
       /\ \A i \in Calls : answer[i] = answer[k] => i = k

Responding == Hearing /\ Answers

-----------------------------------------------------------------------------
(* What a step leaves of it.                                               *)

\* Those that listen have connections of their own.
LEMMA ListensFacts ==
  ASSUME Typed
  PROVE  /\ \A e \in Clients : Listens(e) => Conn(e) \in Calls
         /\ \A e \in Clients : Waiting(e) => Listens(e)
         /\ \A e, f \in Clients : e # f /\ Listens(e) => Conn(e) # Conn(f)
<1>1. \A e \in Clients : Listens(e) => Conn(e) \in Calls
  BY TypedFacts, EndsFacts DEF Listens, Typed, Owners, None, Calls
<1>2. \A e \in Clients : Waiting(e) => Listens(e)
  BY EndsFacts, WaitingFacts DEF Listens
<1>3. \A e, f \in Clients : e # f /\ Conn(e) # None => Conn(e) # Conn(f)
  BY DEF Typed, Owners
<1>4. None \notin Calls
  BY EndsFacts DEF None
<1> QED
  BY <1>1, <1>2, <1>3, <1>4

\* What is served stays served.
LEMMA DoneGrows ==
  ASSUME Typed, \/ served' = served
                \/ Request \in Calls /\ served' = Append(served, Request)
  PROVE  /\ Done \subseteq Done' /\ Done \subseteq Calls
         /\ served' = Append(served, Request) /\ Request \in Calls => Done' = Done \cup {Request}
<1>1. PICK s \in Seq(Calls) : s = served
  BY DEF Typed, Scalars
<1>2. Range(s) \subseteq Calls
  BY DEF Range
<1>3. ASSUME NEW x \in Calls, NEW z, z = Append(s, x) PROVE Range(z) = Range(s) \cup {x}
  <2>1. /\ DOMAIN s = 1..Len(s) /\ DOMAIN z = 1..(Len(s) + 1) /\ Len(s) \in Nat
        /\ z[Len(s) + 1] = x /\ \A i \in 1..Len(s) : z[i] = s[i]
    BY <1>3
  <2>2. \A i \in DOMAIN z : i \in DOMAIN s \/ i = Len(s) + 1
    BY <2>1
  <2> QED
    BY <2>1, <2>2 DEF Range
<1> QED
  BY <1>1, <1>2, <1>3 DEF Done

\* Only calls are served.
LEMMA DoneType ==
  ASSUME Typed PROVE Done \subseteq Calls
BY DEF Done, Range, Typed, Scalars

\* What was served has a connection, and keeps it.
LEMMA DoneVia ==
  ASSUME Typed, Ways, Growing, Receiving, NEW j \in Done
  PROVE  j \in Calls /\ via[j] \in Calls /\ via'[j] = via[j]
<1>1. j \in Calls
  BY DoneType
<1>2. via[j] \in Calls
  BY DEF Done, Range, Receiving, Once
<1> QED
  BY <1>1, <1>2, ViaKept

\* What answers is a call that was served; 0 is none.
LEMMA ExhaustedServed ==
  ASSUME Answers, NEW c, Exhausted(c)
  PROVE  Served(c)
BY DEF Answers, Exhausted, Served

\* One call is served on a connection.
LEMMA OneServed ==
  ASSUME Receiving, NEW i \in Done, NEW j \in Done, via[i] = via[j]
  PROVE  i = j
BY DEF Receiving, Once, Done, Range

\* What was told on a connection still is.
LEMMA ToldGrows ==
  ASSUME Typed, Ways, Growing, Receiving, Done \subseteq Done', NEW c
  PROVE  /\ Told(c) \subseteq Told(c)'
         /\ \A w : Of(w, c) => \A i \in 1..Len(w) : w[i] \in Told(c)'
<1>1. ASSUME NEW t \in Told(c) PROVE t \in Told(c)'
  <2>1. t \in Letters(AnswerLen) /\ t.msg \in Done /\ via[t.msg] = c /\ t.body = AnswerLen[t.msg]
    BY DEF Told
  <2>2. via'[t.msg] = c
    BY <2>1, DoneVia
  <2> QED
    BY <2>1, <2>2 DEF Told
<1> QED
  BY <1>1 DEF Of

\* An end becomes mute by taking a response, and only then.
LEMMA MuteKeeps ==
  ASSUME Typed, Ways, Growing, Receiving, Answers, Done \subseteq Done', answer' = answer, NEW c \in Calls
  PROVE  /\ Mute(c)' => Mute(c)
         /\ Exhausted(c)' <=> Exhausted(c)
         /\ Done' = Done => (Mute(c)' <=> Mute(c))
<1>1. Served(c) => Served(c)'
  BY DoneVia DEF Served
<1>2. Done' = Done => (Served(c)' <=> Served(c))
  BY DoneVia DEF Served
<1>3. \A i \in Calls : answer[i] # 0 => via'[answer[i]] = via[answer[i]]
  BY DoneVia DEF Answers
<1>4. Exhausted(c)' <=> Exhausted(c)
  BY <1>3 DEF Exhausted
<1> QED
  BY <1>1, <1>2, <1>4 DEF Mute

\* The client's ends see no more than a shorter part of what they could see.
LEMMA HearingKeeps ==
  ASSUME Typed, Ways, Growing, Receiving, Responding,
         Done \subseteq Done',
         \A c \in Calls : Mute(c)' =>
           \/ Mute(c)
           \/ wire'["client"][c] = << >> /\ \A e \in Clients : Listens(e)' => Conn(e)' # c,
         \A c \in Calls : \E n \in 0..Len(wire["client"][c]) :
           wire'["client"][c] = SubSeq(wire["client"][c], 1, n),
         \A e \in Clients : Listens(e)' =>
           \/ Listens(e) /\ proto'[e] = proto[e]
           \/ proto'[e].data = << >> /\ Fresh(proto'[e]),
         main' = "opened" => Fresh(proto'[0])
  PROVE  Hearing'
<1>1. ASSUME NEW c \in Calls
      PROVE  \E n \in Nat : /\ Len(wire'["client"][c]) = n /\ n <= Len(wire["client"][c])
                            /\ \A i \in 1..n : wire'["client"][c][i] = wire["client"][c][i]
  <2>1. PICK w \in Seq(Voice("client")) : w = wire["client"][c]
    BY TypedFacts
  <2>2. PICK n \in 0..Len(w) : wire'["client"][c] = SubSeq(w, 1, n)
    BY <2>1
  <2>3. PICK v : v = SubSeq(w, 1, n)
    OBVIOUS
  <2>4. Len(v) = n /\ \A i \in 1..n : v[i] = w[i]
    BY <2>3
  <2> QED
    BY <2>1, <2>2, <2>3, <2>4
<1>2. ASSUME NEW c \in Calls PROVE Echo(c)'
  <2>1. PICK n \in Nat : /\ Len(wire'["client"][c]) = n /\ n <= Len(wire["client"][c])
                         /\ \A i \in 1..n : wire'["client"][c][i] = wire["client"][c][i]
    BY <1>1
  <2>2. Len(wire["client"][c]) \in Nat /\ Echo(c)
    BY TypedFacts DEF Responding, Hearing
  <2>3. \A i \in 1..n : i \in 1..Len(wire["client"][c])
    BY <2>1, <2>2
  <2>4. Of(wire'["client"][c], c) /\ Rising(wire'["client"][c])
    BY <2>1, <2>2, <2>3 DEF Echo, Of, Rising
  <2>5. Of(wire'["client"][c], c) => Of(wire["client"][c], c)'
    BY ToldGrows DEF Of
  <2>6. wire["client"][c] = << >> => wire'["client"][c] = << >>
    BY <2>2, <2>1
  <2> QED
    BY <2>2, <2>4, <2>6, <2>5 DEF Echo
<1>3. ASSUME NEW e \in Clients, Listens(e)' PROVE Hears(e)'
  <2>1. CASE proto'[e].data = << >> /\ Fresh(proto'[e])
    <3>1. Len(proto'[e].data) = 0
      BY <2>1
    <3> QED
      BY <2>1, <3>1 DEF Hears, Of, Before
  <2>2. CASE Listens(e) /\ proto'[e] = proto[e]
    <3>1. PICK c \in Calls : c = Conn(e)
      BY <2>2, ListensFacts
    <3>2. Conn(e)' = c
      BY <2>2, <3>1 DEF Conn
    <3>3. PICK n \in Nat : /\ Len(wire'["client"][c]) = n /\ n <= Len(wire["client"][c])
                           /\ \A i \in 1..n : wire'["client"][c][i] = wire["client"][c][i]
      BY <1>1
    <3>4. Hears(e) /\ Len(wire["client"][c]) \in Nat
      BY <2>2, TypedFacts DEF Responding, Hearing
    <3>5. \A i \in 1..n : i \in 1..Len(wire["client"][c])
      BY <3>3, <3>4
    <3>6. Before(proto'[e].data, wire'["client"][c])
      BY <2>2, <3>1, <3>3, <3>4, <3>5 DEF Hears, Before
    <3>7. Mute(c)' => Mute(c)
      BY <1>3, <3>2
    <3> QED
      <4>1. Of(proto'[e].data, c) /\ (Mute(c)' => proto'[e].data = << >> /\ Fresh(proto'[e]))
        BY <2>2, <3>1, <3>4, <3>7 DEF Hears
      <4>2. Of(proto[e].data, c)'
        BY <4>1, ToldGrows DEF Of
      <4> QED
        BY <3>2, <3>6, <4>1, <4>2 DEF Hears
  <2> QED
    BY <1>3, <2>1, <2>2
<1> QED
  BY <1>2, <1>3 DEF Responding, Hearing

\* What is unchanged or lost is a part of what was there.
LEMMA PartOf ==
  ASSUME Typed, NEW c \in Calls, wire'["client"][c] \in {wire["client"][c], << >>}
  PROVE  \E n \in 0..Len(wire["client"][c]) : wire'["client"][c] = SubSeq(wire["client"][c], 1, n)
<1>1. PICK w \in Seq(Voice("client")) : w = wire["client"][c]
  BY TypedFacts
<1>2. w = SubSeq(w, 1, Len(w)) /\ << >> = SubSeq(w, 1, 0) /\ Len(w) \in 0..Len(w) /\ 0 \in 0..Len(w)
  OBVIOUS
<1> QED
  BY <1>1, <1>2

\* The machine takes the next characters of the stream, and leaves the rest.
LEMMA HearingLoops ==
  ASSUME Typed, Ways, Growing, Receiving, Responding, NEW e \in Clients, Looping(e)
  PROVE  Hearing'
<1>1. PICK c \in Calls : c = Conn(e) /\ Waiting(e)
  BY TypedMachine, TypedRead, EndsFacts DEF Looping
<1>2. UNCHANGED <<served, answer, main, thread>>
  BY DEF Looping, Machine, Read, program, history
<1>3. Listens(e) /\ Hears(e) /\ Echo(c) /\ Inbox(e) = wire["client"][c]
  BY <1>1, ListensFacts, SideFacts DEF Responding, Hearing, Inbox
<1>4. \A f \in Clients : Listens(f)' => Listens(f)
  BY <1>2 DEF Listens
<1>5. \A d \in Calls : Mute(d)' <=> Mute(d)
  BY <1>2, MuteKeeps DEF Responding, Done
<1>6. \A s : \A d \in Calls : Of(s, d) => \A i \in 1..Len(s) : s[i] \in Told(d)'
  <2>1. Done' = Done
    BY <1>2 DEF Done
  <2> QED
    BY <2>1, ToldGrows
<1>7. main' = "opened" => e # 0
  BY <1>1, <1>2, WaitingFacts
<1>8. CASE Read(e)
  <2>1. /\ \A d \in Ends \ {e} : proto'[d] = proto[d]
        /\ Conn(e)' = c /\ proto'[e].data = proto[e].data /\ wire' = wire
        /\ \E n \in 1..Len(Inbox(e)) : TRUE
    BY <1>1, <1>8, TypedRead, EndsFacts DEF Read, links
  <2>2. ~Mute(c)
    <3>1. Mute(c) => Len(Inbox(e)) = 0
      BY <1>3 DEF Echo
    <3> QED
      BY <2>1, <3>1
  <2>3. \A d \in Calls : Echo(d)'
    BY <1>5, <1>6, <2>1 DEF Responding, Hearing, Echo, Of
  <2>4. Hears(e)'
    BY <1>1, <1>3, <1>5, <1>6, <2>1, <2>2 DEF Hears, Of
  <2>5. \A f \in Clients \ {e} : proto'[f] = proto[f] /\ Conn(f)' = Conn(f)
    BY <2>1, EndsFacts DEF Conn
  <2>6. \A f \in Clients \ {e} : Listens(f) => Hears(f)'
    BY <1>5, <1>6, <2>1, <2>5, ListensFacts DEF Hears, Responding, Hearing, Of
  <2>7. main' = "opened" => Fresh(proto'[0])
    BY <1>2, <1>7, <2>5, EndsFacts DEF Responding, Hearing
  <2> QED
    BY <1>4, <2>3, <2>4, <2>6, <2>7 DEF Responding, Hearing
<1>9. CASE Machine(e)
  <2> DEFINE w == wire["client"][c]
             d == proto[e].data
             h == proto[e].have
  <2>1. /\ \A x \in Ends \ {e} : proto'[x] = proto[x]
        /\ Conn(e)' = c /\ Busy(proto[e])
        /\ proto'[e].have \in Nat /\ proto'[e].have <= h
        /\ \/ proto'[e].data = d
           \/ proto'[e].data = d \o SubSeq(w, 1, h) /\ proto'[e].have = 0
        /\ wire'["client"][c] = SubSeq(w, h - proto'[e].have + 1, Len(w))
        /\ \A x \in Calls \ {c} : wire'["client"][x] = wire["client"][x]
    <3>1. e \in Ends /\ Side(e) = "client" /\ Conn(e)' = c /\ Conn(e) = c
      BY <1>1, <1>9, TypedMachine, EndsFacts, SideFacts
    <3>2. /\ \A x \in Ends \ {e} : proto'[x] = proto[x]
          /\ Busy(proto[e])
          /\ proto'[e].have \in Nat /\ proto'[e].have <= h
          /\ \/ proto'[e].data = d
             \/ proto'[e].data = d \o SubSeq(Inbox(e), 1, h) /\ proto'[e].have = 0
          /\ Inbox(e)' = SubSeq(Inbox(e), h - proto'[e].have + 1, Len(Inbox(e)))
      BY <1>9, <3>1, TypedMachine
    <3>3. \A x \in Calls \ {Conn(e)} : wire'[Side(e)][x] = wire[Side(e)][x]
      BY <1>9, <3>1, TypedMachine
    <3>4. Inbox(e)' = wire'["client"][c]
      BY <3>1 DEF Inbox
    <3> QED
      BY <1>3, <3>1, <3>2, <3>4, <3>3
  <2>2. /\ w \in Seq(Voice("client")) /\ d \in Seq(Voice("client")) /\ h \in Nat /\ h <= Len(w)
        /\ Len(w) \in Nat
    <3>1. w \in Seq(Voice("client")) /\ h \in Nat
      BY TypedFacts, EndsFacts
    <3>2. d \in Seq(Voice("client"))
      BY TypedFacts, SideFacts, Fields, EndsFacts
    <3>3. h <= Len(w)
      BY <1>1, <1>3, EndsFacts DEF Typed, Buffers
    <3> QED
      BY <3>1, <3>2, <3>3
  <2>3. ~Mute(c)
    <3>1. SUFFICES ASSUME Mute(c) PROVE FALSE
      OBVIOUS
    <3>2. w = << >> /\ Fresh(proto[e])
      BY <1>1, <1>3, <3>1 DEF Echo, Hears
    <3>3. h = 0
      BY <2>2, <3>2
    <3> QED
      BY <2>1, <3>2, <3>3 DEF Fresh, Busy
  <2>4. PICK k \in Nat : k = h - proto'[e].have /\ k <= h
    BY <2>1, <2>2
  <2>5. PICK v \in Seq(Voice("client")), u \in Seq(Voice("client")) : v = w /\ u = d
    BY <2>2
  <2>6. PICK z \in Seq(Voice("client")) : z = SubSeq(v, k + 1, Len(v)) /\ wire'["client"][c] = z
    <3>1. SubSeq(v, k + 1, Len(v)) \in Seq(Voice("client"))
      OBVIOUS
    <3>2. wire'["client"][c] = SubSeq(v, k + 1, Len(v))
      BY <2>1, <2>4, <2>5
    <3> QED
      BY <3>1, <3>2
  <2>7. k <= Len(v) /\ h <= Len(v)
    BY <2>2, <2>4, <2>5
  <2>8. Len(z) = Len(v) - k /\ \A i \in 1..Len(z) : i + k \in 1..Len(v) /\ z[i] = v[i + k]
    BY <2>6, <2>7
  <2>9. Of(v, c) /\ Rising(v) /\ Of(u, c) /\ Before(u, v)
    BY <1>1, <1>3, <2>5 DEF Echo, Hears
  <2>10. Of(z, c) /\ Rising(z)
    <3>1. Of(z, c)
      BY <2>8, <2>9 DEF Of
    <3>2. Rising(z)
      <4> SUFFICES ASSUME NEW i \in 1..Len(z), NEW j \in 1..Len(z), i < j PROVE z[i].at < z[j].at
        BY DEF Rising
      <4>1. i + k < j + k
        OBVIOUS
      <4> QED
        BY <2>8, <2>9, <4>1 DEF Rising
    <3> QED
      BY <3>1, <3>2
  <2>11. Of(proto'[e].data, c) /\ Before(proto'[e].data, z)
    <3>1. CASE proto'[e].data = d
      BY <2>5, <2>8, <2>9, <3>1 DEF Before
    <3>2. CASE proto'[e].data = d \o SubSeq(w, 1, h) /\ proto'[e].have = 0
      <4>1. k = h
        BY <2>2, <2>4, <3>2
      <4>2. PICK y : y = u \o SubSeq(v, 1, k) /\ y = proto'[e].data
        BY <2>5, <3>2, <4>1
      <4>3. Len(y) = Len(u) + k /\ (\A i \in 1..Len(u) : y[i] = u[i])
            /\ \A i \in 1..k : y[Len(u) + i] = v[i]
        BY <2>7, <4>2
      <4>4. ASSUME NEW i \in 1..Len(y)
            PROVE  i \in 1..Len(u) \/ \E j \in 1..k : j \in 1..Len(v) /\ y[i] = v[j]
        <5>1. CASE i \notin 1..Len(u)
          <6>1. PICK j \in Nat : i = Len(u) + j /\ j \in 1..k
            <7>1. i - Len(u) \in Nat /\ i = Len(u) + (i - Len(u)) /\ i - Len(u) \in 1..k
              BY <4>3, <5>1
            <7> QED
              BY <7>1
          <6>2. y[Len(u) + j] = v[j]
            BY <4>3, <6>1
          <6>3. j \in 1..Len(v)
            BY <2>7, <6>1
          <6> QED
            BY <6>1, <6>2, <6>3
        <5> QED
          BY <5>1
      <4>5. Of(y, c)
        BY <2>9, <4>3, <4>4 DEF Of
      <4>6. Before(y, z)
        <5> SUFFICES ASSUME NEW i \in 1..Len(y), NEW j \in 1..Len(z) PROVE y[i].at < z[j].at
          BY DEF Before
        <5>1. j + k \in 1..Len(v) /\ z[j] = v[j + k]
          BY <2>8
        <5>2. CASE i \in 1..Len(u)
          BY <2>9, <4>3, <5>1, <5>2 DEF Before
        <5>3. CASE \E x \in 1..k : x \in 1..Len(v) /\ y[i] = v[x]
          <6>1. PICK x \in 1..k : x \in 1..Len(v) /\ y[i] = v[x]
            BY <5>3
          <6>2. x < j + k
            OBVIOUS
          <6> QED
            BY <2>9, <5>1, <6>1, <6>2 DEF Rising
        <5> QED
          BY <4>4, <5>2, <5>3
      <4> QED
        BY <4>2, <4>5, <4>6
    <3> QED
      BY <2>1, <3>1, <3>2
  <2>12. Echo(c)' /\ Hears(e)'
    BY <1>5, <1>6, <2>1, <2>3, <2>6, <2>10, <2>11 DEF Echo, Hears, Of
  <2>13. \A x \in Calls \ {c} : Echo(x)'
    BY <1>5, <1>6, <2>1 DEF Responding, Hearing, Echo, Of
  <2>14. ASSUME NEW f \in Clients \ {e}, Listens(f) PROVE Hears(f)'
    <3>1. proto'[f] = proto[f] /\ Conn(f)' = Conn(f)
      BY <2>1, EndsFacts DEF Conn
    <3>2. Conn(f) \in Calls /\ Conn(f) # c
      BY <1>1, <2>14, ListensFacts
    <3> QED
      BY <1>5, <1>6, <2>1, <2>14, <3>1, <3>2 DEF Hears, Responding, Hearing, Of
  <2>15. main' = "opened" => Fresh(proto'[0])
    BY <1>2, <1>7, <2>1, EndsFacts DEF Responding, Hearing
  <2> QED
    BY <1>4, <2>12, <2>13, <2>14, <2>15 DEF Responding, Hearing
<1> QED
  BY <1>8, <1>9 DEF Looping

\* The response, or a part of it, is the first thing written to its connection.
LEMMA HearingServe ==
  ASSUME Typed, Ways, Growing, Receiving, Responding, Serve \/ ServeTimesOut
  PROVE  Hearing'
<1>1. PICK c \in Calls, m \in Calls : c = Conn(Server) /\ m = Request /\ via[m] = c /\ server = "serving"
  BY TypedFacts DEF Serve, ServeTimesOut, Receiving, Clean
<1>2. /\ served' = Append(served, m)
      /\ \A e \in Clients : proto'[e] = proto[e]
      /\ UNCHANGED <<main, thread, answer, via>>
      /\ \A d \in Calls \ {c} : wire'["client"][d] = wire["client"][d]
      /\ \/ wire'["client"][c] = wire["client"][c]
         \/ \E n \in 0..HeaderLen + AnswerLen[m] :
              wire'["client"][c] = wire["client"][c] \o SubSeq(Message(m, AnswerLen[m]), 1, n)
  <2>1. CASE Serve
    <3>1. PICK t \in Seq(Letters(AnswerLen)) : t = Message(m, AnswerLen[m]) /\ Len(t) = HeaderLen + AnswerLen[m]
      BY MessageType
    <3>2. t = SubSeq(t, 1, Len(t)) /\ Len(t) \in 0..HeaderLen + AnswerLen[m]
      BY <3>1, MessageType, HeaderLength
    <3> QED
      BY <1>1, <2>1, <3>1, <3>2, TypedServe
  <2>2. CASE ServeTimesOut
    BY <1>1, <2>2, TypedServeTimesOut, EndsFacts
  <2> QED
    BY <2>1, <2>2
<1>3. Done' = Done \cup {m}
  BY <1>1, <1>2, DoneGrows
<1>4. ~Served(c)
  BY <1>1 DEF Receiving, Once, Done, Range, Served
<1>5. wire["client"][c] = << >> /\ \A e \in Clients : Listens(e) /\ Conn(e) = c => proto[e].data = << >>
  BY <1>4 DEF Responding, Hearing, Echo, Hears, Mute
<1>6. ~Mute(c)'
  <2>1. ~Exhausted(c)'
    BY <1>3, <1>4, ExhaustedServed, MuteKeeps, <1>2 DEF Responding
  <2> QED
    BY <1>1, <1>2, <1>3, <2>1 DEF Mute, Served
<1>7. \A d \in Calls : Mute(d)' => Mute(d)
  BY <1>2, <1>3, MuteKeeps DEF Responding
<1>8. ASSUME NEW n \in 0..HeaderLen + AnswerLen[m], NEW z, z = SubSeq(Message(m, AnswerLen[m]), 1, n)
      PROVE  z \in Seq(Letters(AnswerLen)) /\ Rising(z) /\ \A i \in 1..Len(z) : z[i] \in Told(c)'
  <2>1. PICK a \in Nat : a = AnswerLen[m] /\ n \in 0..(12 + a)
    BY LengthAssumption, HeaderLength
  <2>2. PICK t \in Seq(Letters(AnswerLen)) : t = Message(m, a) /\ Len(t) = 12 + a
    BY <2>1, MessageType, HeaderLength
  <2>3. \A i \in 1..(12 + a) : t[i] = Letter(m, i, a)
    BY <2>1, <2>2, HeaderLength DEF Message
  <2>4. z = SubSeq(t, 1, n)
    BY <1>8, <2>1, <2>2
  <2>5. z \in Seq(Letters(AnswerLen)) /\ Len(z) = n /\ \A i \in 1..n : z[i] = t[i] /\ i \in 1..(12 + a)
    BY <2>1, <2>2, <2>4
  <2>6. \A i \in 1..n : z[i].msg = m /\ z[i].at = i /\ z[i].body = a /\ z[i] \in Letters(AnswerLen)
    <3>1. \A i \in 1..n : z[i] = Letter(m, i, a)
      BY <2>3, <2>5
    <3>2. ASSUME NEW i \in 1..n PROVE z[i].msg = m /\ z[i].at = i /\ z[i].body = a
      <4>1. z[i] = Letter(m, i, a)
        BY <3>1
      <4> QED
        BY <4>1 DEF Letter
    <3>3. \A i \in 1..n : z[i] \in Letters(AnswerLen)
      BY <2>5
    <3> QED
      BY <3>2, <3>3
  <2>7. Rising(z)
    BY <2>5, <2>6 DEF Rising
  <2>8. \A i \in 1..Len(z) : z[i] \in Told(c)'
    BY <1>1, <1>2, <1>3, <2>1, <2>5, <2>6 DEF Told
  <2> QED
    BY <2>5, <2>7, <2>8
<1>9. Echo(c)'
  <2>1. CASE wire'["client"][c] = wire["client"][c]
    <3>1. Len(wire'["client"][c]) = 0
      BY <1>5, <2>1
    <3> QED
      BY <1>6, <3>1 DEF Echo, Of, Rising
  <2>2. CASE \E n \in 0..HeaderLen + AnswerLen[m] :
               wire'["client"][c] = wire["client"][c] \o SubSeq(Message(m, AnswerLen[m]), 1, n)
    <3>1. PICK n \in 0..HeaderLen + AnswerLen[m] :
            wire'["client"][c] = wire["client"][c] \o SubSeq(Message(m, AnswerLen[m]), 1, n)
      BY <2>2
    <3>2. PICK z : z = SubSeq(Message(m, AnswerLen[m]), 1, n)
      OBVIOUS
    <3>3. z \in Seq(Letters(AnswerLen)) /\ Rising(z) /\ \A i \in 1..Len(z) : z[i] \in Told(c)'
      BY <1>8, <3>2
    <3>4. wire'["client"][c] = z
      BY <1>5, <3>1, <3>2, <3>3
    <3> QED
      BY <1>6, <3>3, <3>4 DEF Echo, Of, Rising
  <2> QED
    BY <1>2, <2>1, <2>2
<1>10. \A s : \A d \in Calls : Of(s, d) => \A i \in 1..Len(s) : s[i] \in Told(d)'
  BY <1>3, ToldGrows
<1>11. \A d \in Calls \ {c} : Echo(d)'
  BY <1>2, <1>7, <1>10 DEF Responding, Hearing, Echo, Of
<1>12. ASSUME NEW e \in Clients, Listens(e)' PROVE Hears(e)'
  <2>1. Listens(e) /\ proto'[e] = proto[e] /\ Conn(e)' = Conn(e)
    BY <1>2, <1>12 DEF Listens, Conn
  <2>2. PICK d \in Calls : d = Conn(e)
    BY <2>1, ListensFacts
  <2>3. Hears(e)
    BY <2>1 DEF Responding, Hearing
  <2>4. CASE d = c
    <3>1. proto[e].data = << >>
      BY <1>5, <2>1, <2>2, <2>4
    <3>2. Len(proto'[e].data) = 0
      BY <2>1, <3>1
    <3> QED
      BY <1>6, <2>1, <2>2, <2>4, <3>2 DEF Hears, Of, Before
  <2>5. CASE d # c
    BY <1>2, <1>7, <1>10, <2>1, <2>2, <2>3, <2>5 DEF Hears, Of
  <2> QED
    BY <2>4, <2>5
<1>13. main' = "opened" => Fresh(proto'[0])
  BY <1>2, EndsFacts DEF Responding, Hearing
<1> QED
  BY <1>9, <1>11, <1>12, <1>13 DEF Hearing

\* The server closes connections: the client may see less.
LEMMA HearingShut ==
  ASSUME Typed, Ways, Growing, Receiving, Responding,
         NEW cs \in SUBSET Calls, Shut(cs), Conn(Server) \in Calls,
         \A e \in Clients : proto'[e] = proto[e], UNCHANGED <<main, thread, answer>>,
         \/ served' = served
         \/ Request \in Calls /\ served' = Append(served, Request)
  PROVE  Hearing'
<1>1. Done \subseteq Done'
  BY DoneGrows
<1>2. \A c \in Calls : Mute(c)' => Mute(c)
  BY <1>1, MuteKeeps DEF Responding
<1>3. ASSUME NEW c \in Calls
      PROVE  \E n \in 0..Len(wire["client"][c]) : wire'["client"][c] = SubSeq(wire["client"][c], 1, n)
  <2>1. CASE c # Conn(Server)
    BY <2>1, ShutEffect, PartOf
  <2>2. CASE c = Conn(Server)
    <3>1. PICK n \in Nat : /\ n <= Len(wire["client"][Conn(Server)])
                           /\ wire'["client"][Conn(Server)] = SubSeq(wire["client"][Conn(Server)], 1, n)
      BY ShutEffect
    <3>2. Len(wire["client"][c]) \in Nat
      BY TypedFacts
    <3> QED
      BY <2>2, <3>1, <3>2
  <2> QED
    BY <2>1, <2>2
<1>4. \A e \in Clients : Listens(e)' => Listens(e) /\ proto'[e] = proto[e]
  BY DEF Listens
<1>5. main' = "opened" => Fresh(proto'[0])
  BY EndsFacts DEF Responding, Hearing
<1> QED
  BY <1>2, <1>3, <1>4, <1>5, <1>1, HearingKeeps

\* A step that gives no response.
LEMMA HearingSame ==
  ASSUME Typed, Ways, Growing, Receiving, Responding, UNCHANGED <<served, answer>>,
         \A c \in Calls : wire'["client"][c] \in {wire["client"][c], << >>},
         \A e \in Clients : Listens(e)' =>
           \/ Listens(e) /\ proto'[e] = proto[e]
           \/ proto'[e].data = << >> /\ Fresh(proto'[e]),
         main' = "opened" => Fresh(proto'[0])
  PROVE  Hearing'
<1>1. Done' = Done
  BY DEF Done
<1>2. \A c \in Calls : Mute(c)' => Mute(c)
  BY <1>1, MuteKeeps DEF Responding
<1>3. \A c \in Calls : \E n \in 0..Len(wire["client"][c]) :
        wire'["client"][c] = SubSeq(wire["client"][c], 1, n)
  BY PartOf
<1> QED
  BY <1>2, <1>3, <1>1, HearingKeeps

-----------------------------------------------------------------------------
(* A response that is taken.                                               *)

\* The data that parse end with the last letter of the response: nothing is
\* left on the connection, and no other call was given it.
LEMMA WholeIsLast ==
  ASSUME Typed, Ways, Growing, Receiving, Responding, NEW e \in Clients, Waiting(e), Whole(proto[e].data)
  PROVE  LET c == Conn(e)
             m == proto[e].data[1].msg
         IN  /\ c \in Calls /\ m \in Calls /\ via[m] = c
             /\ m \in Done /\ ~Exhausted(c) /\ wire["client"][c] = << >>
<1>1. PICK c \in Calls : c = Conn(e)
  BY ListensFacts
<1>2. Hears(e) /\ Echo(c)
  BY ListensFacts DEF Responding, Hearing
<1>3. PICK d \in Seq(Letters(AnswerLen)) : d = proto[e].data
  BY TypedFacts, Fields, SideFacts, EndsFacts DEF LettersOf
<1>4. PICK w \in Seq(Letters(AnswerLen)) : w = wire["client"][c]
  BY TypedFacts DEF Voice
<1>5. d # << >> /\ d = BodyOf(d[1].msg, d[1].body)
  BY <1>3 DEF Whole
<1>6. Of(d, c) /\ Of(w, c) /\ Before(d, w) /\ (Mute(c) => d = << >>)
  BY <1>1, <1>2, <1>3, <1>4 DEF Hears, Echo
<1>7. 1 \in 1..Len(d) /\ d[1] \in Told(c)
  BY <1>5, <1>6 DEF Of
<1>8. PICK m \in Calls : m = d[1].msg /\ m \in Done /\ via[m] = c /\ d[1].body = AnswerLen[m]
  BY <1>7, DoneType DEF Told
<1>9. \A t \in Told(c) : t.msg = m /\ t.at \in 1..(12 + AnswerLen[m])
  <2>1. \A t \in Told(c) : t.msg = m
    BY <1>8, OneServed DEF Told
  <2>2. \A t \in Letters(AnswerLen) : t.msg = m => t.at \in 1..(12 + AnswerLen[m])
    BY HeaderLength DEF Letters, Letter
  <2> QED
    BY <2>1, <2>2 DEF Told
<1>10. PICK a \in Nat : a = AnswerLen[m]
  BY LengthAssumption
<1>11. d = [i \in 1..a |-> Letter(m, 12 + i, a)]
  BY <1>5, <1>8, <1>10, HeaderLength DEF BodyOf
<1>12. a \in 1..Len(d) /\ d[a].at = 12 + a
  <2>1. Len(d) = a
    BY <1>11
  <2>2. a \in 1..Len(d)
    BY <1>7, <2>1
  <2>3. d[a] = Letter(m, 12 + a, a)
    BY <1>11, <2>1, <2>2
  <2> QED
    BY <2>2, <2>3 DEF Letter
<1>13. w = << >>
  <2> SUFFICES ASSUME w # << >> PROVE FALSE
    OBVIOUS
  <2>1. 1 \in 1..Len(w) /\ w[1] \in Told(c)
    BY <1>6 DEF Of
  <2>2. w[1].at \in 1..(12 + a)
    BY <1>9, <1>10, <2>1
  <2>3. d[a].at < w[1].at
    BY <1>6, <1>12, <2>1 DEF Before
  <2> QED
    BY <1>12, <2>2, <2>3
<1> QED
  BY <1>1, <1>3, <1>4, <1>5, <1>6, <1>8, <1>13 DEF Mute

\* A response that is taken leaves nothing on its connection.
LEMMA HearingResponse ==
  ASSUME Typed, Ways, Growing, Receiving, Responding, NEW e \in Clients, Respond(e),
         Whole(proto[e].data), answer' = [answer EXCEPT ![CallOf(e)] = proto[e].data[1].msg]
  PROVE  Hearing'
<1>1. Waiting(e) /\ (LeaveOpen(e) \/ LeaveClosed(e)) /\ Leave(e) /\ CallOf(e) \in Calls
      /\ UNCHANGED <<persistent, made, kind, server, far, served, timedout>>
      /\ result' \in [Calls -> {"none", "threw", "transmitted", "response"}]
      /\ answer' \in [Calls -> 0..MaxCalls]
  BY TypedRespond
<1>2. timedout' \in BOOLEAN
  BY <1>1 DEF Typed, Scalars
<1>3. /\ \A d \in Ends \ {e} : proto'[d] = proto[d]
      /\ \A d \in Calls \ {Conn(e)} : wire'["client"][d] = wire["client"][d]
      /\ wire'["client"][Conn(e)] \in {wire["client"][Conn(e)], << >>}
      /\ IF e = 0 THEN main' = "idle" /\ thread' = thread
         ELSE main' = main /\ thread' = [thread EXCEPT ![e] = "ended"]
  BY <1>1, <1>2, TypedLeaves
<1>4. PICK c \in Calls, m \in Calls : /\ c = Conn(e) /\ proto[e].data[1].msg = m /\ wire["client"][c] = << >>
                                     /\ via[m] = c /\ m \in Done
  BY <1>1, WholeIsLast
<1>5. Done' = Done
  BY <1>1 DEF Done
<1>6. ASSUME NEW f \in Clients, Listens(f)' PROVE f # e /\ Listens(f) /\ proto'[f] = proto[f] /\ Conn(f)' # c
  <2>1. f # e /\ Listens(f)
    BY <1>3, <1>6, EndsFacts DEF Listens, Typed, Scalars
  <2>2. proto'[f] = proto[f] /\ Conn(f)' = Conn(f)
    BY <1>3, <2>1, EndsFacts DEF Conn
  <2> QED
    BY <1>4, <2>1, <2>2, ListensFacts
<1>7. answer[CallOf(e)] \notin Calls
  <2>1. Using(e)
    BY <1>1, EndsFacts, WaitingFacts DEF Using
  <2>2. answer[CallOf(e)] = 0
    BY <1>1, <2>1 DEF Responding, Answers
  <2> QED
    BY <2>2, EndsFacts
<1>8. ASSUME NEW d \in Calls, d # c, Mute(d)' PROVE Mute(d)
  <2>1. Exhausted(d)' => Exhausted(d)
    <3> SUFFICES ASSUME NEW i \in Calls, answer'[i] # 0, via'[answer'[i]] = d PROVE Exhausted(d)
      BY DEF Exhausted
    <3>1. i # CallOf(e)
      BY <1>1, <1>4, <1>8, DoneVia DEF Typed, Scalars
    <3>2. answer'[i] = answer[i]
      BY <3>1 DEF Typed, Scalars
    <3>3. via'[answer[i]] = via[answer[i]]
      BY <3>2, DoneVia DEF Responding, Answers
    <3> QED
      BY <3>2, <3>3 DEF Exhausted
  <2>2. Served(d) => Served(d)'
    BY <1>5, DoneVia DEF Served
  <2> QED
    BY <1>8, <2>1, <2>2 DEF Mute
<1>9. \A d \in Calls : Mute(d)' =>
        \/ Mute(d)
        \/ wire'["client"][d] = << >> /\ \A f \in Clients : Listens(f)' => Conn(f)' # d
  BY <1>3, <1>4, <1>6, <1>8
<1>10. \A d \in Calls : wire'["client"][d] \in {wire["client"][d], << >>}
  BY <1>3
<1>11. \A d \in Calls : \E n \in 0..Len(wire["client"][d]) :
         wire'["client"][d] = SubSeq(wire["client"][d], 1, n)
  BY <1>10, PartOf
<1>12. main' = "opened" => Fresh(proto'[0])
  BY <1>3, EndsFacts DEF Responding, Hearing
<1> QED
  BY <1>6, <1>9, <1>11, <1>12, <1>5, HearingKeeps

\* Steps of the client that take no response.
LEMMA ResetFresh ==
  ASSUME NEW S, NEW p \in Protocols(S)
  PROVE  /\ Fresh(resetConnection(p)) /\ Fresh([resetConnection(p) EXCEPT !.conn = made'])
         /\ Fresh(p) => Fresh(Waits(p))
BY DEF Fresh, resetConnection, clearSipInfo, Waits, BeginWait, clearSipHeader, Protocols

\* A call begins with a fresh parser.
LEMMA HearingBegin ==
  ASSUME Typed, Ways, Growing, Receiving, Responding, NEW k \in Calls, Reuse(k) \/ Open(k) \/ OpenRefused(k)
  PROVE  Hearing'
<1>1. /\ UNCHANGED <<served, answer, wire, thread>> /\ main = "idle"
  BY DEF Reuse, Open, OpenRefused, Begin, OnConnection, program, history, links
<1>2. \A e \in Ends \ {0} : proto'[e] = proto[e]
  BY TypedReuse, TypedOpen, TypedOpenRefused
<1>3. main' \in {"idle", "opened"}
  BY <1>1 DEF Reuse, Open, OpenRefused, program
<1>4. \A e \in Clients : Listens(e)' => Listens(e) /\ proto'[e] = proto[e]
  BY <1>1, <1>2, <1>3, EndsFacts DEF Listens
<1>5. main' = "opened" => Fresh(proto'[0])
  <2>1. proto[0] \in Protocols(LettersOf(0))
    BY TypedFacts, EndsFacts
  <2>2. CASE Reuse(k)
    BY <2>1, <2>2, TypedReuse, ResetFresh
  <2>3. CASE Open(k)
    <3>1. proto'[0] = [resetConnection(proto[0]) EXCEPT !.conn = made']
      BY <2>3, TypedOpen
    <3> QED
      BY <2>1, <3>1, ResetFresh
  <2>4. CASE OpenRefused(k)
    BY <1>1, <2>4 DEF OpenRefused, program
  <2> QED
    BY <2>2, <2>3, <2>4
<1> QED
  BY <1>1, <1>4, <1>5, HearingSame

\* A call that is written is awaited with a fresh parser.
LEMMA HearingSend ==
  ASSUME Typed, Ways, Growing, Receiving, Responding, Send
  PROVE  Hearing'
<1>1. UNCHANGED <<served, answer>> /\ main = "opened"
  BY DEF Send, history
<1>2. wire'["client"] = wire["client"] /\ made \in Calls
  BY TypedSend
<1>3. PICK p \in Protocols(LettersOf(0)) : p = proto[0]
  BY TypedFacts, EndsFacts
<1>4. Fresh(Waits(p)) /\ Waits(p).data = << >>
  BY <1>1, <1>3, ResetFresh, WaitsType DEF Responding, Hearing
<1>5. main' # "opened"
  BY TypedSend
<1>6. ASSUME NEW e \in Clients, Listens(e)'
      PROVE  \/ Listens(e) /\ proto'[e] = proto[e]
             \/ proto'[e] = Waits(p)
  <2>1. CASE /\ main' = "waiting" /\ thread' = thread
             /\ proto'[0] = Waits(proto[0]) /\ \A d \in Ends \ {0} : proto'[d] = proto[d]
    BY <1>3, <1>6, <2>1, EndsFacts DEF Listens
  <2>2. CASE /\ main' = "idle" /\ thread' = [thread EXCEPT ![made] = "created"]
             /\ proto'[made] = Waits(proto[0])
             /\ \A d \in Ends \ {0, made} : proto'[d] = proto[d]
    BY <1>2, <1>3, <1>6, <2>2, EndsFacts DEF Listens, Typed, Scalars
  <2>3. CASE /\ main' = "idle" /\ thread' = thread
             /\ \A d \in Ends \ {0} : proto'[d] = proto[d]
    BY <1>6, <2>3, EndsFacts DEF Listens
  <2> QED
    BY <2>1, <2>2, <2>3, TypedSend
<1> QED
  BY <1>1, <1>2, <1>4, <1>5, <1>6, HearingSame

\* An end that leaves without a response hears no more.
LEMMA HearingLeaves ==
  ASSUME Typed, Ways, Growing, Receiving, Responding,
         NEW e \in Clients, Waiting(e), LeaveOpen(e) \/ LeaveClosed(e), Leave(e),
         UNCHANGED <<persistent, made, kind, server, far, served>>, timedout' \in BOOLEAN,
         result' \in [Calls -> {"none", "threw", "transmitted", "response"}], answer' = answer
  PROVE  Hearing'
<1>1. /\ \A d \in Ends \ {e} : proto'[d] = proto[d]
      /\ \A d \in Calls \ {Conn(e)} : wire'["client"][d] = wire["client"][d]
      /\ wire'["client"][Conn(e)] \in {wire["client"][Conn(e)], << >>}
      /\ IF e = 0 THEN main' = "idle" /\ thread' = thread
         ELSE main' = main /\ thread' = [thread EXCEPT ![e] = "ended"]
  <2>1. answer' \in [Calls -> 0..MaxCalls]
    BY DEF Typed, Scalars
  <2> QED
    BY <2>1, TypedLeaves
<1>2. \A f \in Clients : Listens(f)' => Listens(f) /\ f # e
  BY <1>1, EndsFacts DEF Listens, Typed, Scalars
<1>3. \A f \in Clients : Listens(f)' => Listens(f) /\ proto'[f] = proto[f]
  BY <1>1, <1>2, EndsFacts
<1>4. main' = "opened" => Fresh(proto'[0])
  BY <1>1, EndsFacts DEF Responding, Hearing
<1> QED
  BY <1>1, <1>3, <1>4, HearingSame

-----------------------------------------------------------------------------
(* Who is given which response.                                            *)

\* Those that make a call have a connection and a call.
LEMMA UsingFacts ==
  ASSUME Typed
  PROVE  /\ \A e \in Clients : Using(e) => Conn(e) \in Calls /\ CallOf(e) \in Calls
         /\ \A e \in Clients : Waiting(e) => Using(e)
         /\ Conn(0) # None => Conn(0) \in Calls
         /\ made + 1 \in Nat
         /\ \A e \in Clients : Using(e) <=> IF e = 0 THEN main \in {"opened", "waiting"}
                                            ELSE thread[e] \in {"created", "waiting"}
<1>1. \A e \in Clients : Using(e) => Conn(e) \in Calls /\ CallOf(e) \in Calls
  BY TypedFacts, EndsFacts DEF Using, CallOf, Typed, Owners, None, Calls
<1>2. \A e \in Clients : Waiting(e) => Using(e)
  BY EndsFacts, WaitingFacts DEF Using
<1>3. Conn(0) # None => Conn(0) \in Calls
  BY TypedFacts, EndsFacts DEF None, Calls
<1>4. made + 1 \in Nat
  BY TypedFacts
<1> QED
  BY <1>1, <1>2, <1>3, <1>4 DEF Using

\* Two ends are never about the same call.
LEMMA CallsApart ==
  ASSUME Typed, Ways, Growing, Receiving, Answers,
         NEW e \in Clients, NEW f \in Clients, e # f, Using(e), Using(f)
  PROVE  CallOf(e) # CallOf(f)
<1>1. \A k \in Calls : Using(0) /\ Using(k) => k # made
  BY DEF Answers
<1> QED
  BY <1>1, EndsFacts DEF CallOf

\* A step that makes and ends no call.
LEMMA AnswersKeeps ==
  ASSUME Typed, Ways, Growing, Receiving, Answers,
         UNCHANGED <<made, result, answer, via>>, Done \subseteq Done',
         \A e \in Clients : Using(e)' => Using(e) /\ Conn(e)' = Conn(e),
         main' = "idle" /\ Conn(0)' # None => main = "idle" /\ Conn(0)' = Conn(0)
  PROVE  Answers'
<1>1. \A c, k : Given(c, k)' <=> Given(c, k)
  BY DEF Given, Exhausted
<1>2. ASSUME NEW e \in Clients, Using(e)'
      PROVE  result'[CallOf(e)'] = "none" /\ Given(Conn(e), CallOf(e))'
  <2>1. Using(e) /\ Conn(e)' = Conn(e) /\ CallOf(e)' = CallOf(e)
    BY <1>2 DEF CallOf
  <2>2. PICK c \in Calls, k \in Calls : c = Conn(e) /\ k = CallOf(e)
    BY <2>1, UsingFacts
  <2>3. result[k] = "none" /\ Given(c, k)
    BY <2>1, <2>2 DEF Answers
  <2>4. Given(c, k)' => Given(Conn(e), CallOf(e))'
    BY <2>1, <2>2 DEF Given, Exhausted
  <2> QED
    BY <1>1, <2>1, <2>2, <2>3, <2>4
<1>3. \A k \in Calls : Using(0)' /\ Using(k)' => k # made'
  BY EndsFacts DEF Answers
<1>4. main' = "idle" /\ Conn(0)' # None => Given(Conn(0), made + 1)'
  <2> SUFFICES ASSUME main' = "idle", Conn(0)' # None PROVE Given(Conn(0), made + 1)'
    OBVIOUS
  <2>1. PICK c \in Calls, k \in Nat : c = Conn(0) /\ k = made + 1
    BY UsingFacts
  <2>2. Given(c, k)
    BY <2>1 DEF Answers
  <2> QED
    BY <1>1, <2>1, <2>2 DEF Given, Exhausted
<1>5. /\ \A k \in Calls : k > made' => result'[k] = "none" /\ answer'[k] = 0
      /\ \A k \in Calls : result'[k] = "response" <=> answer'[k] # 0
      /\ \A k \in Calls : answer'[k] # 0 =>
           /\ answer'[k] \in Done' /\ answer'[k] <= k /\ via'[answer'[k]] = via'[k]
           /\ answer'[k] # k => result'[answer'[k]] \in {"threw", "transmitted"}
           /\ \A i \in Calls : answer'[i] = answer'[k] => i = k
  BY DEF Answers
<1> QED
  BY <1>2, <1>3, <1>4, <1>5 DEF Answers

\* A connection on which no call awaits a response but k, or a later one.
LEMMA GivenGrows ==
  ASSUME Typed, Ways, Growing, Receiving, Answers,
         NEW j \in Calls, result[j] = "none", NEW r, NEW a \in 0..MaxCalls,
         result' = [result EXCEPT ![j] = r], answer' = [answer EXCEPT ![j] = a],
         NEW c \in Calls, NEW k, Given(c, k),
         \A i \in Calls : via'[i] = c /\ i # k => via[i] = c
  PROVE  Given(c, k)'
<1>1. answer[j] = 0 /\ answer \in [Calls -> 0..MaxCalls]
      /\ result \in [Calls -> {"none", "threw", "transmitted", "response"}]
  BY DEF Answers, Typed, Scalars
<1>2. Exhausted(c) => Exhausted(c)'
  <2> SUFFICES ASSUME NEW i \in Calls, answer[i] # 0, via[answer[i]] = c PROVE Exhausted(c)'
    BY DEF Exhausted
  <2>1. i # j /\ answer'[i] = answer[i]
    BY <1>1
  <2>2. via'[answer[i]] = c
    BY DoneVia DEF Answers
  <2> QED
    BY <2>1, <2>2 DEF Exhausted
<1>3. \A i \in Calls : result[i] \in {"threw", "transmitted"} => result'[i] = result[i]
  BY <1>1
<1> QED
  BY <1>2, <1>3 DEF Given

\* The call of end e ends without a response.
LEMMA AnswersEnd ==
  ASSUME Typed, Ways, Growing, Receiving, Answers,
         NEW e \in Clients, Using(e), NEW r \in {"threw", "transmitted"},
         result' = [result EXCEPT ![CallOf(e)] = r], UNCHANGED <<made, answer, via>>,
         Done \subseteq Done',
         \A f \in Clients : Using(f)' => Using(f) /\ f # e /\ Conn(f)' = Conn(f),
         main' = "idle" /\ Conn(0)' # None => Conn(0)' = Conn(0) /\ (main = "idle" \/ e = 0)
  PROVE  Answers'
<1>1. PICK j \in Calls : j = CallOf(e)
  BY UsingFacts
<1>2. /\ result \in [Calls -> {"none", "threw", "transmitted", "response"}]
      /\ answer \in [Calls -> 0..MaxCalls]
      /\ result[j] = "none" /\ answer[j] = 0
  BY <1>1 DEF Typed, Scalars, Answers
<1>3. result' = [result EXCEPT ![j] = r] /\ result'[j] = r
      /\ \A k \in Calls \ {j} : result'[k] = result[k]
  BY <1>1, <1>2
<1>4. ASSUME NEW c \in Calls, NEW k, Given(c, k) PROVE Given(c, k)'
  <2>1. answer' = [answer EXCEPT ![j] = 0] /\ 0 \in 0..MaxCalls
    BY <1>2, MaxCallsAssumption
  <2> QED
    BY <1>2, <1>3, <1>4, <2>1, GivenGrows
<1>5. ASSUME NEW f \in Clients, Using(f)'
      PROVE  result'[CallOf(f)'] = "none" /\ Given(Conn(f), CallOf(f))'
  <2>1. Using(f) /\ f # e /\ Conn(f)' = Conn(f) /\ CallOf(f)' = CallOf(f)
    BY <1>5 DEF CallOf
  <2>2. PICK c \in Calls, i \in Calls : c = Conn(f) /\ i = CallOf(f)
    BY <2>1, UsingFacts
  <2>3. i # j
    BY <1>1, <2>1, <2>2, CallsApart
  <2>4. result[i] = "none" /\ Given(c, i)
    BY <2>1, <2>2 DEF Answers
  <2>5. Given(c, i)' => Given(Conn(f), CallOf(f))'
    BY <2>1, <2>2 DEF Given, Exhausted
  <2> QED
    BY <1>3, <1>4, <2>1, <2>2, <2>3, <2>4, <2>5
<1>6. \A k \in Calls : Using(0)' /\ Using(k)' => k # made'
  BY EndsFacts DEF Answers
<1>7. j <= made
  BY <1>1, UsingFacts, EndsFacts, TypedFacts DEF CallOf, Typed, Owners, Using
<1>8. main' = "idle" /\ Conn(0)' # None => Given(Conn(0), made + 1)'
  <2> SUFFICES ASSUME main' = "idle", Conn(0)' # None PROVE Given(Conn(0), made + 1)'
    OBVIOUS
  <2>1. PICK c \in Calls, k \in Nat : c = Conn(0) /\ k = made + 1
    BY UsingFacts
  <2>2. Given(c, k)' => Given(Conn(0), made + 1)'
    BY <2>1 DEF Given, Exhausted
  <2>3. CASE main = "idle"
    <3>1. Given(c, k)
      BY <2>1, <2>3 DEF Answers
    <3> QED
      BY <1>4, <2>2, <3>1
  <2>4. CASE e = 0
    <3>1. j = made /\ Given(c, j)
      BY <1>1, <2>1, <2>4, EndsFacts DEF Answers, CallOf
    <3>2. Given(c, j)'
      BY <1>4, <3>1
    <3>3. Given(c, k)'
      <4>1. j < k /\ \A i \in Calls : i < j => i < k
        BY <2>1, <3>1, TypedFacts, EndsFacts
      <4> QED
        BY <1>3, <3>2, <4>1 DEF Given
    <3> QED
      BY <2>2, <3>3
  <2> QED
    BY <2>3, <2>4
<1>9. \A k \in Calls : k > made' => result'[k] = "none" /\ answer'[k] = 0
  BY <1>3, <1>7, EndsFacts, TypedFacts DEF Answers
<1>10. \A k \in Calls : result'[k] = "response" <=> answer'[k] # 0
  BY <1>2, <1>3 DEF Answers
<1>11. ASSUME NEW k \in Calls, answer'[k] # 0
       PROVE  /\ answer'[k] \in Done' /\ answer'[k] <= k /\ via'[answer'[k]] = via'[k]
              /\ answer'[k] # k => result'[answer'[k]] \in {"threw", "transmitted"}
              /\ \A i \in Calls : answer'[i] = answer'[k] => i = k
  <2>1. PICK a \in Calls : a = answer[k] /\ a \in Done
    BY <1>11, DoneType DEF Answers
  <2>2. a # k => result[a] \in {"threw", "transmitted"}
    BY <1>11, <2>1 DEF Answers
  <2>3. a # k => a # j /\ result'[a] \in {"threw", "transmitted"}
    BY <1>2, <1>3, <2>1, <2>2
  <2>4. a <= k /\ via[a] = via[k] /\ \A i \in Calls : answer[i] = a => i = k
    BY <1>11, <2>1 DEF Answers
  <2> QED
    BY <2>1, <2>3, <2>4
<1> QED
  BY <1>5, <1>6, <1>8, <1>9, <1>10, <1>11 DEF Answers

\* A response that is taken is that of the connection, and no one was given it.
LEMMA AnswersResponse ==
  ASSUME Typed, Ways, Growing, Receiving, Responding, NEW e \in Clients, Respond(e), Whole(proto[e].data),
         result' = [result EXCEPT ![CallOf(e)] = "response"],
         answer' = [answer EXCEPT ![CallOf(e)] = proto[e].data[1].msg]
  PROVE  Answers'
<1>1. Waiting(e) /\ (LeaveOpen(e) \/ LeaveClosed(e)) /\ Leave(e)
      /\ UNCHANGED <<persistent, made, kind, server, far, served, timedout, via>>
      /\ result' \in [Calls -> {"none", "threw", "transmitted", "response"}]
      /\ answer' \in [Calls -> 0..MaxCalls]
  BY TypedRespond DEF Respond, history
<1>2. timedout' \in BOOLEAN /\ Answers
  BY <1>1 DEF Typed, Scalars, Responding
<1>3. /\ \A d \in Ends \ {e} : proto'[d] = proto[d]
      /\ IF e = 0 THEN Conn(0)' \in {Conn(0), None} ELSE Conn(e)' = None
      /\ IF e = 0 THEN main' = "idle" /\ thread' = thread
         ELSE main' = main /\ thread' = [thread EXCEPT ![e] = "ended"]
  BY <1>1, <1>2, TypedLeaves
<1>4. Using(e)
  BY <1>1, UsingFacts
<1>5. PICK c \in Calls, j \in Calls, m \in Calls :
        /\ c = Conn(e) /\ j = CallOf(e) /\ proto[e].data[1].msg = m /\ via[m] = c
        /\ m \in Done /\ ~Exhausted(c)
  BY <1>1, <1>4, WholeIsLast, UsingFacts
<1>6. /\ result \in [Calls -> {"none", "threw", "transmitted", "response"}]
      /\ answer \in [Calls -> 0..MaxCalls]
      /\ result[j] = "none" /\ answer[j] = 0 /\ via[j] = c
      /\ m # j => m < j /\ result[m] \in {"threw", "transmitted"}
  <2>1. via[j] = c
    BY <1>4, <1>5, EndsFacts DEF Ways, Using, CallOf
  <2>2. Given(c, j) /\ result[j] = "none" /\ answer[j] = 0
    BY <1>2, <1>4, <1>5 DEF Answers
  <2>3. m # j => m < j /\ result[m] \in {"threw", "transmitted"}
    BY <1>5, <2>2 DEF Given
  <2> QED
    BY <2>1, <2>2, <2>3 DEF Typed, Scalars
<1>7. /\ result' = [result EXCEPT ![j] = "response"] /\ answer' = [answer EXCEPT ![j] = m]
      /\ result'[j] = "response" /\ answer'[j] = m
      /\ \A k \in Calls \ {j} : result'[k] = result[k] /\ answer'[k] = answer[k]
  BY <1>5, <1>6
<1>8. ASSUME NEW d \in Calls, NEW k, Given(d, k) PROVE Given(d, k)'
  <2>1. m \in 0..MaxCalls
    BY <1>6, <1>7, <1>1
  <2>2. PICK a \in 0..MaxCalls, r \in {"response"} : a = m /\ r = "response"
    BY <2>1
  <2>3. result' = [result EXCEPT ![j] = r] /\ answer' = [answer EXCEPT ![j] = a]
    BY <1>7, <2>2
  <2> QED
    BY <1>1, <1>2, <1>6, <1>8, <2>3, GivenGrows
<1>9. \A f \in Clients : Using(f)' => Using(f) /\ f # e /\ Conn(f)' = Conn(f)
  <2>1. ASSUME NEW f \in Clients, Using(f)' PROVE Using(f) /\ f # e
    <3>1. CASE e = 0
      BY <1>3, <2>1, <3>1 DEF Using
    <3>2. CASE e # 0
      BY <1>3, <2>1, <3>2, EndsFacts DEF Using, Typed, Scalars
    <3> QED
      BY <3>1, <3>2
  <2> QED
    BY <1>3, <2>1, EndsFacts DEF Conn
<1>10. ASSUME NEW f \in Clients, Using(f)'
       PROVE  result'[CallOf(f)'] = "none" /\ Given(Conn(f), CallOf(f))'
  <2>1. Using(f) /\ f # e /\ Conn(f)' = Conn(f) /\ CallOf(f)' = CallOf(f)
    BY <1>1, <1>9, <1>10 DEF CallOf
  <2>2. PICK x \in Calls, i \in Calls : x = Conn(f) /\ i = CallOf(f)
    BY <2>1, UsingFacts
  <2>3. i # j
    BY <1>2, <1>4, <1>5, <2>1, <2>2, CallsApart
  <2>4. result[i] = "none" /\ Given(x, i)
    BY <1>2, <2>1, <2>2 DEF Answers
  <2>5. Given(x, i)' => Given(Conn(f), CallOf(f))'
    BY <2>1, <2>2 DEF Given, Exhausted
  <2> QED
    BY <1>7, <1>8, <2>1, <2>2, <2>3, <2>4, <2>5
<1>11. \A k \in Calls : Using(0)' /\ Using(k)' => k # made'
  BY <1>1, <1>2, <1>9, EndsFacts DEF Answers
<1>12. j <= made
  BY <1>4, <1>5, UsingFacts, EndsFacts, TypedFacts DEF CallOf, Typed, Owners, Using
<1>13. main' = "idle" /\ Conn(0)' # None => Given(Conn(0), made + 1)'
  <2> SUFFICES ASSUME main' = "idle", Conn(0)' # None PROVE Given(Conn(0), made + 1)'
    OBVIOUS
  <2>1. CASE e = 0
    <3>1. Conn(0)' = c
      BY <1>3, <1>5, <2>1
    <3>2. Exhausted(c)'
      BY <1>1, <1>5, <1>7, EndsFacts DEF Exhausted
    <3>3. \A i \in Calls : via'[i] = c => i < made' + 1
      <4> SUFFICES ASSUME NEW i \in Calls, via[i] = c PROVE i < made + 1
        BY <1>1
      <4>1. i <= made
        BY ViaKept
      <4>2. i \in Nat /\ made \in Nat
        BY EndsFacts, TypedFacts
      <4> QED
        BY <4>1, <4>2
    <3> QED
      BY <3>1, <3>2, <3>3 DEF Given, Exhausted
  <2>2. CASE e # 0
    <3>1. Conn(0)' = Conn(0) /\ main = "idle"
      BY <1>3, <2>2, EndsFacts DEF Conn
    <3>2. PICK x \in Calls, k \in Nat : x = Conn(0) /\ k = made + 1
      BY <3>1, UsingFacts
    <3>3. Given(x, k)
      BY <1>2, <3>1, <3>2 DEF Answers
    <3>4. Given(x, k)'
      BY <1>8, <3>3
    <3> QED
      BY <1>1, <3>1, <3>2, <3>4 DEF Given, Exhausted
  <2> QED
    BY <2>1, <2>2
<1>14. \A k \in Calls : k > made' => result'[k] = "none" /\ answer'[k] = 0
  BY <1>1, <1>2, <1>7, <1>12, EndsFacts, TypedFacts DEF Answers
<1>15. \A k \in Calls : result'[k] = "response" <=> answer'[k] # 0
  BY <1>2, <1>7, EndsFacts DEF Answers
<1>16. ASSUME NEW k \in Calls, answer'[k] # 0
       PROVE  /\ answer'[k] \in Done' /\ answer'[k] <= k /\ via'[answer'[k]] = via'[k]
              /\ answer'[k] # k => result'[answer'[k]] \in {"threw", "transmitted"}
              /\ \A i \in Calls : answer'[i] = answer'[k] => i = k
  <2>1. Done' = Done
    BY <1>1 DEF Done
  <2>2. CASE k = j
    <3>1. \A i \in Calls : answer'[i] = m => i = j
      BY <1>5, <1>7, EndsFacts DEF Exhausted
    <3>2. m # j => result'[m] \in {"threw", "transmitted"}
      BY <1>6, <1>7
    <3>3. m <= j
      BY <1>6, EndsFacts
    <3> QED
      BY <1>1, <1>5, <1>6, <1>7, <2>1, <2>2, <3>1, <3>2, <3>3
  <2>3. CASE k # j
    <3>1. PICK a \in Calls : a = answer[k] /\ a \in Done /\ answer'[k] = a
      BY <1>2, <1>7, <1>16, <2>3, DoneType DEF Answers
    <3>2. /\ a # k => result[a] \in {"threw", "transmitted"}
          /\ a <= k /\ via[a] = via[k] /\ \A i \in Calls : answer[i] = a => i = k
      BY <1>2, <1>16, <3>1, EndsFacts DEF Answers
    <3>3. a # k => a # j /\ result'[a] \in {"threw", "transmitted"}
      BY <1>6, <1>7, <3>1, <3>2
    <3>4. a # m
      BY <1>5, <3>1, EndsFacts DEF Exhausted
    <3>5. \A i \in Calls : answer'[i] = a => i = k
      BY <1>7, <3>2, <3>4
    <3> QED
      BY <1>1, <2>1, <3>1, <3>2, <3>3, <3>5
  <2> QED
    BY <2>2, <2>3
<1> QED
  BY <1>10, <1>11, <1>13, <1>14, <1>15, <1>16 DEF Answers

\* A call begins: a connection that is used again has nothing to tell another.
LEMMA AnswersBegin ==
  ASSUME Typed, Ways, Growing, Receiving, Answers,
         NEW k \in Calls, Reuse(k) \/ Open(k) \/ OpenRefused(k)
  PROVE  Answers'
<1>1. /\ UNCHANGED <<served, answer, thread>> /\ main = "idle" /\ made' = made + 1 /\ k = made'
      /\ made \in Nat
  BY TypedReuse, TypedOpen, TypedOpenRefused, TypedFacts
  DEF Reuse, Open, OpenRefused, Begin, OnConnection, program
<1>2. /\ result \in [Calls -> {"none", "threw", "transmitted", "response"}]
      /\ result[k] = "none" /\ answer[k] = 0 /\ answer \in [Calls -> 0..MaxCalls]
  BY <1>1 DEF Typed, Scalars, Answers
<1>3. \/ main' = "opened" /\ result' = result
      \/ main' = "idle" /\ result' = [result EXCEPT ![k] = "threw"]
  BY <1>1 DEF Reuse, Open, OpenRefused, program
<1>4. \A j \in Calls : j < k => via'[j] = via[j] /\ via[j] <= j
  BY <1>1, EndsFacts DEF Ways, Growing
<1>5. \A j \in Calls : j > k => via'[j] = None
  <2>1. \A j \in Calls : j > k => via[j] = None /\ j # k
    BY <1>1, EndsFacts DEF Ways
  <2> QED
    BY <2>1 DEF Reuse, Open, OpenRefused, OnConnection, Ways
<1>6. None \notin Calls
  BY EndsFacts DEF None
<1>7. \A j, c \in Calls : via'[j] = c /\ j # k => j < k /\ via[j] = c
  <2> SUFFICES ASSUME NEW j \in Calls, via'[j] \in Calls, j # k PROVE j < k /\ via[j] = via'[j]
    OBVIOUS
  <2>1. ~(j > k)
    BY <1>5, <1>6
  <2>2. j < k
    BY <2>1, EndsFacts
  <2> QED
    BY <1>4, <2>2
<1>8. ASSUME NEW c \in Calls, NEW i, Given(c, i), i = k \/ via'[k] # c PROVE Given(c, i)'
  <2>1. answer' = [answer EXCEPT ![k] = 0] /\ 0 \in 0..MaxCalls
    BY <1>1, <1>2, MaxCallsAssumption
  <2>2. result' = [result EXCEPT ![k] = "none"] \/ result' = [result EXCEPT ![k] = "threw"]
    BY <1>2, <1>3
  <2>3. \A j \in Calls : via'[j] = c /\ j # i => via[j] = c
    BY <1>8, <1>7
  <2> QED
    BY <1>2, <1>8, <2>1, <2>2, <2>3, GivenGrows
<1>9. Given(k, k)'
  <2>1. ASSUME NEW j \in Calls, via'[j] = k, j # k PROVE FALSE
    BY <1>4, <1>7, <2>1, EndsFacts
  <2> QED
    BY <2>1 DEF Given
<1>10. /\ \A f \in Calls : Using(f)' => Using(f) /\ f < k /\ Conn(f)' = Conn(f)
  <2>1. \A f \in Calls : proto'[f] = proto[f] /\ f # 0
    BY TypedReuse, TypedOpen, TypedOpenRefused, EndsFacts
  <2>2. \A f \in Calls : Using(f)' => Using(f) /\ f <= made
    BY <1>1, <2>1 DEF Using, Typed, Owners
  <2> QED
    BY <1>1, <2>1, <2>2, EndsFacts DEF Conn
<1>11. \/ main' = "opened" /\ Conn(0)' = Conn(0) /\ Conn(0) # None
       \/ main' = "opened" /\ Conn(0)' = k
       \/ main' = "idle" /\ Conn(0)' = k /\ result' = [result EXCEPT ![k] = "threw"]
  <2>1. CASE Reuse(k)
    <3>1. main' = "opened"
      BY <2>1 DEF Reuse
    <3>2. Conn(0)' = Conn(0) /\ Conn(0) # None
      BY <2>1, TypedReuse
    <3> QED
      BY <3>1, <3>2
  <2>2. CASE Open(k)
    <3>1. main' = "opened"
      BY <2>2 DEF Open
    <3>2. Conn(0)' = k
      BY <2>2, TypedOpen
    <3> QED
      BY <3>1, <3>2
  <2>3. CASE OpenRefused(k)
    BY <1>1, <2>3, TypedOpenRefused DEF OpenRefused, program
  <2> QED
    BY <2>1, <2>2, <2>3
<1>12. (via'[k] = Conn(0) /\ Conn(0) # None) \/ via'[k] = k
  BY DEF Reuse, Open, OpenRefused, OnConnection, Ways
<1>13. Using(0)' => result'[k] = "none" /\ Given(Conn(0), k)'
  <2> SUFFICES ASSUME Using(0)' PROVE result'[k] = "none" /\ Given(Conn(0), k)'
    OBVIOUS
  <2>1. main' = "opened" /\ result'[k] = "none"
    BY <1>2, <1>3, <1>11 DEF Using
  <2>2. CASE Conn(0)' = k
    <3>1. Given(k, k)' => Given(Conn(0), k)'
      BY <2>2 DEF Given, Exhausted
    <3> QED
      BY <1>9, <2>1, <3>1
  <2>3. CASE Conn(0)' = Conn(0) /\ Conn(0) # None
    <3>1. PICK c \in Calls : c = Conn(0)
      BY <2>3, UsingFacts
    <3>2. Given(c, k)
      BY <1>1, <2>3, <3>1 DEF Answers
    <3>3. Given(c, k)'
      BY <1>8, <3>2
    <3>4. Given(c, k)' => Given(Conn(0), k)'
      BY <2>3, <3>1 DEF Given, Exhausted
    <3> QED
      BY <2>1, <3>3, <3>4
  <2> QED
    BY <1>11, <2>1, <2>2, <2>3
<1>14. ASSUME NEW f \in Clients, Using(f)'
       PROVE  result'[CallOf(f)'] = "none" /\ Given(Conn(f), CallOf(f))'
  <2>1. CASE f = 0
    <3>1. CallOf(0)' = k
      BY <1>1 DEF CallOf
    <3> QED
      BY <1>13, <1>14, <2>1, <3>1 DEF Given
  <2>2. CASE f \in Calls
    <3>1. Using(f) /\ f < k /\ Conn(f)' = Conn(f) /\ CallOf(f)' = f /\ CallOf(f) = f
      BY <1>10, <1>14, <2>2, EndsFacts DEF CallOf
    <3>2. PICK x \in Calls : x = Conn(f)
      BY <2>2, <3>1, UsingFacts
    <3>3. result[f] = "none" /\ Given(x, f)
      BY <2>2, <3>1, <3>2, EndsFacts DEF Answers
    <3>4. via'[k] # x
      <4>1. x # Conn(0)
        BY <2>2, <3>2, <1>6, EndsFacts DEF Typed, Owners
      <4>2. x <= f
        BY <2>2, <3>1, <3>2, EndsFacts DEF Ways, Using
      <4> QED
        BY <1>12, <2>2, <3>1, <4>1, <4>2, EndsFacts
    <3>5. Given(x, f)'
      BY <1>8, <3>3, <3>4
    <3>6. Given(x, f)' => Given(Conn(f), CallOf(f))'
      BY <3>1, <3>2 DEF Given, Exhausted
    <3>7. result'[f] = "none"
      BY <1>2, <1>3, <2>2, <3>1, <3>3, EndsFacts
    <3> QED
      BY <3>1, <3>6, <3>7, <3>5
  <2> QED
    BY <2>1, <2>2, EndsFacts
<1>15. \A f \in Calls : Using(0)' /\ Using(f)' => f # made'
  BY <1>1, <1>10, EndsFacts
<1>16. main' = "idle" /\ Conn(0)' # None => Given(Conn(0), made + 1)'
  <2> SUFFICES ASSUME main' = "idle" PROVE Given(Conn(0), made + 1)'
    OBVIOUS
  <2>1. Conn(0)' = k /\ result'[k] = "threw"
    BY <1>2, <1>11
  <2>2. \A j \in Calls : j = k \/ j < k => j < made' + 1
    BY <1>1, EndsFacts
  <2> QED
    BY <1>9, <2>1, <2>2 DEF Given, Exhausted
<1>17. \A i \in Calls : i > made' => result'[i] = "none" /\ answer'[i] = 0
  BY <1>1, <1>2, <1>3, EndsFacts DEF Answers
<1>18. \A i \in Calls : result'[i] = "response" <=> answer'[i] # 0
  BY <1>1, <1>2, <1>3 DEF Answers
<1>19. ASSUME NEW i \in Calls, answer'[i] # 0
       PROVE  /\ answer'[i] \in Done' /\ answer'[i] <= i /\ via'[answer'[i]] = via'[i]
              /\ answer'[i] # i => result'[answer'[i]] \in {"threw", "transmitted"}
              /\ \A j \in Calls : answer'[j] = answer'[i] => j = i
  <2>1. PICK a \in Calls : a = answer[i] /\ a \in Done /\ answer' = answer /\ Done' = Done
    BY <1>1, <1>19, DoneType DEF Answers, Done
  <2>2. a <= i /\ (a # i => result[a] \in {"threw", "transmitted"}) /\ via[a] = via[i]
        /\ \A j \in Calls : answer[j] = a => j = i
    BY <1>1, <1>19, <2>1 DEF Answers
  <2>3. a # i => result'[a] \in {"threw", "transmitted"}
    BY <1>2, <1>3, <2>1, <2>2
  <2>4. via'[a] = via[a] /\ via[a] \in Calls
    BY <2>1, DoneVia
  <2>5. via'[i] = via[i]
    BY <2>2, <2>4, ViaKept
  <2> QED
    BY <2>1, <2>2, <2>3, <2>4, <2>5
<1> QED
  BY <1>14, <1>15, <1>16, <1>17, <1>18, <1>19 DEF Answers

\* A call is sent: the requester waits, or a thread is to wait with its
\* connection, or nobody waits.
LEMMA AnswersSend ==
  ASSUME Typed, Ways, Growing, Receiving, Answers, Send
  PROVE  Answers'
<1>1. UNCHANGED <<made, served, answer, via>> /\ main = "opened" /\ made \in Calls
  BY TypedSend DEF Send, history
<1>2. Using(0) /\ CallOf(0) = made /\ Done' = Done
  BY <1>1 DEF Using, CallOf, Done
<1>3. CASE /\ main' = "waiting" /\ thread' = thread /\ result' = result
           /\ proto'[0] = Waits(proto[0]) /\ \A e \in Ends \ {0} : proto'[e] = proto[e]
  <2>1. \A e \in Clients : Conn(e)' = Conn(e)
    BY <1>3, EndsFacts, TypedFacts, WaitsType DEF Conn
  <2>2. \A e \in Clients : Using(e)' => Using(e)
    BY <1>1, <1>3 DEF Using
  <2> QED
    BY <1>1, <1>2, <1>3, <2>1, <2>2, AnswersKeeps
<1>4. CASE /\ main' = "idle" /\ thread' = thread
           /\ result' = [result EXCEPT ![made] = "transmitted"]
           /\ proto'[0] = Waits(proto[0]) /\ \A e \in Ends \ {0} : proto'[e] = proto[e]
  <2>1. \A e \in Clients : Conn(e)' = Conn(e)
    BY <1>4, EndsFacts, TypedFacts, WaitsType DEF Conn
  <2>2. \A e \in Clients : Using(e)' => Using(e) /\ e # 0
    BY <1>1, <1>4 DEF Using
  <2>3. result' = [result EXCEPT ![CallOf(0)] = "transmitted"]
    BY <1>2, <1>4
  <2> QED
    BY <1>1, <1>2, <2>1, <2>2, <2>3, AnswersEnd, EndsFacts
<1>5. CASE /\ main' = "idle" /\ thread' = [thread EXCEPT ![made] = "created"] /\ result' = result
           /\ Conn(0)' = None /\ proto'[made] = Waits(proto[0])
           /\ \A e \in Ends \ {0, made} : proto'[e] = proto[e]
  <2>1. PICK m \in Calls, c \in Calls : m = made /\ c = Conn(0)
    BY <1>1, <1>2, UsingFacts, EndsFacts
  <2>2. Conn(m)' = c
    BY <1>5, <2>1, EndsFacts, TypedFacts, WaitsType DEF Conn
  <2>3. \A k : \A c0 \in Calls : Given(c0, k)' <=> Given(c0, k)
    BY <1>1, <1>5 DEF Given, Exhausted
  <2>4. result[m] = "none" /\ Given(c, m)
    BY <1>2, <2>1, EndsFacts DEF Answers
  <2>5. ASSUME NEW f \in Clients, Using(f)'
        PROVE  result'[CallOf(f)'] = "none" /\ Given(Conn(f), CallOf(f))'
    <3>1. f # 0 /\ f \in Calls /\ CallOf(f)' = f /\ CallOf(f) = f
      BY <1>5, <2>5, EndsFacts DEF Using, CallOf
    <3>2. CASE f = m
      <4>1. Given(c, m)'
        BY <2>3, <2>4
      <4>2. Given(c, m)' => Given(Conn(f), CallOf(f))'
        BY <2>2, <3>1, <3>2 DEF Given, Exhausted
      <4> QED
        BY <1>5, <2>4, <3>1, <3>2, <4>1, <4>2
    <3>3. CASE f # m
      <4>1. Using(f) /\ Conn(f)' = Conn(f)
        BY <1>5, <2>1, <2>5, <3>1, <3>3, EndsFacts DEF Using, Conn, Typed, Scalars
      <4>2. PICK x \in Calls : x = Conn(f)
        BY <4>1, UsingFacts
      <4>3. result[f] = "none" /\ Given(x, f)
        BY <3>1, <4>1, <4>2, EndsFacts DEF Answers
      <4>4. Given(x, f)' => Given(Conn(f), CallOf(f))'
        BY <3>1, <4>1, <4>2 DEF Given, Exhausted
      <4> QED
        BY <1>5, <2>3, <3>1, <4>1, <4>2, <4>3, <4>4
    <3> QED
      BY <3>2, <3>3
  <2>6. ~Using(0)' /\ Conn(0)' = None
    BY <1>5 DEF Using
  <2>7. /\ \A k \in Calls : k > made' => result'[k] = "none" /\ answer'[k] = 0
        /\ \A k \in Calls : result'[k] = "response" <=> answer'[k] # 0
        /\ \A k \in Calls : answer'[k] # 0 =>
             /\ answer'[k] \in Done' /\ answer'[k] <= k /\ via'[answer'[k]] = via'[k]
             /\ answer'[k] # k => result'[answer'[k]] \in {"threw", "transmitted"}
             /\ \A i \in Calls : answer'[i] = answer'[k] => i = k
    BY <1>1, <1>2, <1>5 DEF Answers
  <2> QED
    BY <2>5, <2>6, <2>7 DEF Answers
<1> QED
  BY <1>3, <1>4, <1>5, TypedSend

-----------------------------------------------------------------------------
(* Every step.                                                             *)

\* A step of the server that leaves the client's state alone.
LEMMA AnswersServer ==
  ASSUME Typed, Ways, Growing, Receiving, Answers,
         UNCHANGED <<main, thread, made, result, answer, via>>,
         \A e \in Clients : proto'[e] = proto[e],
         \/ served' = served
         \/ Request \in Calls /\ served' = Append(served, Request)
  PROVE  Answers'
<1>1. \A e \in Clients : Using(e)' => Using(e) /\ Conn(e)' = Conn(e)
  BY DEF Using, Conn
<1>2. Conn(0)' = Conn(0)
  BY EndsFacts DEF Conn
<1>3. Done \subseteq Done'
  BY DoneGrows
<1> QED
  BY <1>1, <1>2, <1>3, AnswersKeeps

\* An exception ends the server's program.
LEMMA RespondingExit ==
  ASSUME Typed, Ways, Growing, Receiving, Responding, NEW how \in {"exited", "terminated"}, Exit(how),
         server \in {"reading", "serving", "failing"}, timedout' \in BOOLEAN, via' = via,
         served' = served \/ (server = "serving" /\ served' = Append(served, Request))
  PROVE  Responding'
<1>1. server = "serving" => Request \in Calls
  BY DEF Receiving, Clean
<1>2. served' \in Seq(Calls)
  <2>1. served \in Seq(Calls)
    BY DEF Typed, Scalars
  <2>2. CASE server = "serving" /\ served' = Append(served, Request)
    <3>1. PICK x \in Calls : x = Request
      BY <1>1, <2>2
    <3> QED
      BY <2>1, <2>2, <3>1
  <2> QED
    BY <2>1, <2>2
<1>3. /\ \A e \in Clients : proto'[e] = proto[e]
      /\ UNCHANGED <<main, thread, made, result, answer>>
      /\ Shut({c \in Calls : far[c] \in {"open", "backlog"}}) /\ Conn(Server) \in Calls
  BY <1>2, TypedExit
<1>4. {c \in Calls : far[c] \in {"open", "backlog"}} \in SUBSET Calls
  OBVIOUS
<1>5. Hearing'
  BY <1>1, <1>3, <1>4, HearingShut
<1>6. Answers'
  BY <1>1, <1>3, AnswersServer DEF Responding
<1> QED
  BY <1>5, <1>6 DEF Responding

\* The client gives up a call that is not written, or written in part.
LEMMA RespondingSendFails ==
  ASSUME Typed, Ways, Growing, Receiving, Responding, SendFails \/ SendTimesOut
  PROVE  Responding'
<1>1. /\ main = "opened" /\ main' = "idle" /\ UNCHANGED <<made, thread, answer, served, via>>
      /\ result' = [result EXCEPT ![made] = "threw"]
  BY DEF SendFails, SendTimesOut, history
<1>2. /\ \A d \in Ends \ {0} : proto'[d] = proto[d]
      /\ Conn(0)' \in {Conn(0), None}
      /\ \A d \in Calls \ {Conn(0)} : wire'["client"][d] = wire["client"][d]
      /\ wire'["client"][Conn(0)] \in {wire["client"][Conn(0)], << >>}
  <2>1. CASE SendFails
    BY <2>1, TypedSendFails
  <2>2. CASE SendTimesOut
    BY <2>2, TypedSendTimesOut DEF Conn
  <2> QED
    BY <2>1, <2>2
<1>3. \A f \in Clients : Listens(f)' => Listens(f) /\ proto'[f] = proto[f]
  BY <1>1, <1>2, EndsFacts DEF Listens
<1>4. Hearing'
  <2>1. \A c \in Calls : wire'["client"][c] \in {wire["client"][c], << >>}
    BY <1>2
  <2> QED
    BY <1>1, <1>3, <2>1, HearingSame
<1>5. Using(0) /\ CallOf(0) = made /\ Done' = Done
  BY <1>1 DEF Using, CallOf, Done
<1>6. \A f \in Clients : Using(f)' => Using(f) /\ f # 0 /\ Conn(f)' = Conn(f)
  BY <1>1, <1>2, EndsFacts DEF Using, Conn
<1>7. Answers'
  <2>1. result' = [result EXCEPT ![CallOf(0)] = "threw"]
    BY <1>1, <1>5
  <2> QED
    BY <1>1, <1>2, <1>5, <1>6, <2>1, AnswersEnd, EndsFacts DEF Responding
<1> QED
  BY <1>4, <1>7 DEF Responding

\* A call ends with a response or without.
LEMMA RespondingEnding ==
  ASSUME Typed, Ways, Growing, Receiving, Responding, NEW e \in Clients, Ending(e) \/ Timeout(e)
  PROVE  Responding'
<1>1. CASE Respond(e) /\ Whole(proto[e].data)
           /\ answer' = [answer EXCEPT ![CallOf(e)] = proto[e].data[1].msg]
           /\ result' = [result EXCEPT ![CallOf(e)] = "response"]
  BY <1>1, HearingResponse, AnswersResponse DEF Responding
<1>2. CASE result' = [result EXCEPT ![CallOf(e)] = "threw"] /\ answer' = answer
  <2>1. /\ Waiting(e) /\ (LeaveOpen(e) \/ LeaveClosed(e)) /\ Leave(e)
        /\ UNCHANGED <<persistent, made, kind, server, far, served>> /\ Typed'
        /\ result' \in [Calls -> {"none", "threw", "transmitted", "response"}]
    BY TypedRespond, TypedGivesUp DEF Ending
  <2>2. via' = via
    BY DEF Ending, Respond, ReadFails, Timeout, Threw, history
  <2>3. timedout' \in BOOLEAN /\ answer' \in [Calls -> 0..MaxCalls]
    BY <2>1 DEF Typed, Scalars
  <2>4. Hearing'
    BY <1>2, <2>1, <2>3, HearingLeaves DEF Responding
  <2>5. /\ \A d \in Ends \ {e} : proto'[d] = proto[d]
        /\ IF e = 0 THEN Conn(0)' \in {Conn(0), None} ELSE Conn(e)' = None
        /\ IF e = 0 THEN main' = "idle" /\ thread' = thread
           ELSE main' = main /\ thread' = [thread EXCEPT ![e] = "ended"]
    BY <2>1, <2>3, TypedLeaves
  <2>6. Using(e) /\ Done' = Done
    BY <2>1, UsingFacts DEF Done
  <2>7. \A f \in Clients : Using(f)' => Using(f) /\ f # e
    BY <2>5, EndsFacts DEF Using, Typed, Scalars
  <2>8. \A f \in Clients : Using(f)' => Conn(f)' = Conn(f)
    BY <2>5, <2>7, EndsFacts DEF Conn
  <2>9. main' = "idle" /\ Conn(0)' # None => Conn(0)' = Conn(0) /\ (main = "idle" \/ e = 0)
    BY <2>5, EndsFacts DEF Conn
  <2>10. Answers'
    BY <1>2, <2>1, <2>6, <2>7, <2>8, <2>9, <2>2, AnswersEnd DEF Responding
  <2> QED
    BY <2>4, <2>10 DEF Responding
<1> QED
  BY <1>1, <1>2, TypedRespond, TypedGivesUp DEF Ending

\* The client program ends: no one listens.
LEMMA RespondingQuit ==
  ASSUME Typed, Ways, Growing, Receiving, Responding, Quit
  PROVE  Responding'
<1>1. /\ main' = "ended" /\ UNCHANGED <<made, result, answer, served, via>>
      /\ \A k \in Calls : thread'[k] \in {"none", "ended"}
      /\ \A c \in Calls : wire'["client"][c] = << >>
  BY DEF Quit, history
<1>2. \A f \in Clients : ~Using(f)' /\ ~Listens(f)'
  BY <1>1, EndsFacts DEF Using, Listens
<1>3. \A c \in Calls : wire'["client"][c] \in {wire["client"][c], << >>}
  BY <1>1
<1>4. Hearing'
  BY <1>1, <1>2, <1>3, HearingSame
<1>5. Done' = Done
  BY <1>1 DEF Done
<1>6. Answers'
  BY <1>1, <1>2, <1>5, AnswersKeeps DEF Responding
<1> QED
  BY <1>4, <1>6 DEF Responding

\* A step that moves nothing of what the client hears.
LEMMA RespondingIdle ==
  ASSUME Typed, Ways, Growing, Receiving, Responding,
         UNCHANGED <<main, made, served, answer, result, via>>, wire'["client"] = wire["client"],
         \A k \in Calls : thread'[k] \in {"created", "waiting"} <=> thread[k] \in {"created", "waiting"},
         \A e \in Clients : proto'[e] = proto[e]
  PROVE  Responding'
<1>1. \A f \in Clients : Using(f)' => Using(f) /\ Conn(f)' = Conn(f)
  BY EndsFacts DEF Using, Conn
<1>2. \A f \in Clients : Listens(f)' => Listens(f) /\ proto'[f] = proto[f]
  BY EndsFacts DEF Listens
<1>3. Conn(0)' = Conn(0) /\ Done' = Done
  BY EndsFacts DEF Conn, Done
<1>4. main' = "opened" => Fresh(proto'[0])
  BY EndsFacts DEF Responding, Hearing
<1>5. Hearing'
  BY <1>2, <1>4, HearingSame DEF Responding
<1>6. Answers'
  BY <1>1, <1>3, AnswersKeeps DEF Responding
<1> QED
  BY <1>5, <1>6 DEF Responding

\* Every step keeps it.
LEMMA RespondingStep ==
  ASSUME Typed, Ways, Growing, Receiving, Responding, [Next]_vars
  PROVE  Responding'
<1>1. CASE UNCHANGED vars
  <2>1. UNCHANGED <<main, made, served, answer, result, wire, thread, proto, via>>
    BY <1>1 DEF vars, program, links, history
  <2> QED
    BY <2>1, RespondingIdle
<1>2. CASE StartServer
  <2>1. UNCHANGED <<main, made, served, answer, result, wire, thread, proto, via>>
    BY <1>2 DEF StartServer, program, links, history
  <2> QED
    BY <2>1, RespondingIdle
<1>3. ASSUME NEW k \in Calls, Reuse(k) \/ Open(k) \/ OpenRefused(k) PROVE Responding'
  BY <1>3, HearingBegin, AnswersBegin DEF Responding
<1>4. ASSUME NEW k \in Calls, StartThread(k) PROVE Responding'
  <2>1. UNCHANGED <<main, made, served, answer, result, wire, proto, via>>
    BY <1>4 DEF StartThread, links, history
  <2>2. \A j \in Calls : thread'[j] \in {"created", "waiting"} <=> thread[j] \in {"created", "waiting"}
    BY <1>4, TypedStartThread
  <2> QED
    BY <2>1, <2>2, RespondingIdle
<1>5. CASE Send
  BY <1>5, HearingSend, AnswersSend DEF Responding
<1>6. CASE SendFails \/ SendTimesOut \/ Quit
  BY <1>6, RespondingSendFails, RespondingQuit
<1>7. ASSUME NEW e \in Ends, Looping(e) PROVE Responding'
  <2>1. /\ UNCHANGED <<main, thread, made, served, answer, result, via>>
        /\ \A d \in Ends : Conn(d)' = Conn(d)
        /\ \A d \in Ends \ {e} : proto'[d] = proto[d]
    <3>1. CASE Machine(e)
      <4>1. \A d \in Ends \ {e} : proto'[d] = proto[d]
        BY <3>1, TypedMachine
      <4>2. Conn(e)' = Conn(e)
        BY <3>1, TypedMachine
      <4> QED
        BY <3>1, <4>1, <4>2 DEF Machine, program, history, Conn
    <3>2. CASE Read(e)
      BY <3>2, TypedRead DEF Read, program, history
    <3> QED
      BY <1>7, <3>1, <3>2 DEF Looping
  <2>2. CASE e \in Clients
    <3>1. \A f \in Clients : Using(f)' => Using(f) /\ Conn(f)' = Conn(f)
      BY <2>1, EndsFacts DEF Using
    <3>2. Conn(0)' = Conn(0) /\ Done' = Done
      BY <2>1, EndsFacts DEF Done
    <3>3. Answers'
      BY <2>1, <3>1, <3>2, AnswersKeeps DEF Responding
    <3> QED
      BY <1>7, <2>2, <3>3, HearingLoops DEF Responding
  <2>3. CASE e = Server
    <3>1. wire'["client"] = wire["client"]
      <4>1. Side(e) = "server" /\ "client" \in Sides \ {"server"}
        BY <2>3, SideFacts DEF Sides
      <4> QED
        BY <1>7, <4>1, TypedMachine DEF Looping, Read, links
    <3>2. \A f \in Clients : proto'[f] = proto[f]
      BY <2>1, <2>3, EndsFacts
    <3> QED
      BY <2>1, <3>1, <3>2, RespondingIdle
  <2> QED
    BY <2>2, <2>3, EndsFacts
<1>8. ASSUME NEW e \in Clients, Ending(e) \/ Timeout(e) PROVE Responding'
  BY <1>8, RespondingEnding
<1>9. ASSUME NEW c \in Calls, Accept(c) PROVE Responding'
  <2>1. UNCHANGED <<main, made, served, answer, result, wire, thread, via>>
    BY <1>9 DEF Accept, program, history
  <2> QED
    BY <1>9, <2>1, TypedAccept, RespondingIdle
<1>10. CASE Received
  <2>1. server = "reading" /\ UNCHANGED history
    BY <1>10, WaitingFacts DEF Received, Complete
  <2>2. CASE ~Exit("terminated")
    <3>1. UNCHANGED <<main, made, served, answer, result, wire, thread, proto, via>>
      BY <1>10, <2>2 DEF Received, program, history, links
    <3> QED
      BY <3>1, RespondingIdle
  <2>3. CASE Exit("terminated")
    BY <2>1, <2>3, RespondingExit DEF history, Typed, Scalars
  <2> QED
    BY <2>2, <2>3
<1>11. CASE ServerTimeout \/ ServerReadFails \/ Fail
  <2>1. server \in {"reading", "failing"} /\ UNCHANGED <<served, via>> /\ timedout' \in BOOLEAN /\ Exit("exited")
    BY <1>11, WaitingFacts DEF ServerTimeout, ServerReadFails, Fail, WantsMore, history, Typed, Scalars
  <2> QED
    BY <2>1, RespondingExit
<1>12. CASE ServeFails
  <2>1. server = "serving" /\ via' = via /\ timedout' \in BOOLEAN /\ Exit("exited") /\ served' = Append(served, Request)
    BY <1>12 DEF ServeFails, Typed, Scalars
  <2> QED
    BY <2>1, RespondingExit
<1>13. CASE Serve \/ ServeTimesOut
  <2>1. Request \in Calls /\ served' = Append(served, Request)
    BY <1>13 DEF Serve, ServeTimesOut, Receiving, Clean
  <2>2. /\ \A e \in Clients : proto'[e] = proto[e]
        /\ UNCHANGED <<main, thread, made, result, answer, via>>
    BY <1>13, <2>1, TypedServe, TypedServeTimesOut, EndsFacts
  <2> QED
    BY <1>13, <2>1, <2>2, HearingServe, AnswersServer DEF Responding
<1>14. CASE CloseConnection
  <2>1. /\ \A e \in Clients : proto'[e] = proto[e]
        /\ UNCHANGED <<main, thread, made, result, answer, served, via>>
        /\ Shut({Conn(Server)}) /\ Conn(Server) \in Calls
    BY <1>14, TypedCloseConnection DEF CloseConnection, history
  <2>2. {Conn(Server)} \in SUBSET Calls
    BY <2>1
  <2> QED
    BY <2>1, <2>2, HearingShut, AnswersServer DEF Responding
<1> QED
  BY <1>1, <1>2, <1>3, <1>4, <1>5, <1>6, <1>7, <1>8, <1>9, <1>10, <1>11, <1>12, <1>13, <1>14
  DEF Next, Calling, Serving

\* At first no one listens.
LEMMA RespondingInit == Init => Responding
<1> SUFFICES ASSUME Init PROVE Responding
  OBVIOUS
<1>1. /\ made = 0 /\ main = "idle" /\ thread = [k \in Calls |-> "none"]
      /\ wire = [s \in {"client", "server"} |-> [c \in Calls |-> << >>]]
      /\ result = [k \in Calls |-> "none"] /\ answer = [k \in Calls |-> 0]
      /\ proto[0] = NewProtocol
  BY EndsFacts DEF Init
<1>2. \A e \in Clients : ~Listens(e) /\ ~Using(e)
  BY <1>1, EndsFacts DEF Listens, Using
<1>3. Of(<< >>, 0) /\ \A c \in Calls : Of(<< >>, c) /\ Rising(<< >>)
  BY DEF Of, Rising
<1>4. Hearing
  BY <1>1, <1>2, <1>3 DEF Responding, Hearing, Echo
<1>5. Conn(0) = None
  BY <1>1 DEF Conn, NewProtocol, None
<1>6. Answers
  BY <1>1, <1>2, <1>5, EndsFacts DEF Answers
<1> QED
  BY <1>4, <1>6 DEF Responding

\* What a client hears on a connection is the response to the call that was
\* served there, and no two calls are given one.
THEOREM AlwaysResponding == Spec => []Responding
<1>1. Typed /\ HasData /\ Ways /\ Receiving /\ Responding /\ [Next]_vars => Responding'
  BY RespondingStep, WaysStep
<1> QED
  BY <1>1, RespondingInit, AlwaysTyped, AlwaysWays, AlwaysReceiving, PTL DEF Spec

\* Whatever the number of calls and their lengths, a call is given a response
\* of its own connection, which was served, and which no other call was given;
\* if it is not its own, the call that it answers was given up.
THEOREM ResponsesBelongHolds == Spec => []ResponsesBelong
<1>1. Typed /\ Answers => ResponsesBelong
  <2> SUFFICES ASSUME Typed, Answers, NEW k \in Calls, result[k] = "response"
               PROVE  /\ answer[k] \in Range(served) /\ via[answer[k]] = via[k]
                      /\ answer[k] # k => answer[k] < k /\ result[answer[k]] \in {"threw", "transmitted"}
                      /\ \A i \in Calls \ {k} : answer[i] # answer[k]
    BY DEF ResponsesBelong
  <2>1. answer[k] # 0
    BY DEF Answers
  <2>2. answer[k] \in Done /\ answer[k] \in Calls /\ answer[k] <= k
    BY <2>1, DoneType DEF Answers
  <2>3. answer[k] # k => answer[k] < k
    <3>1. PICK a \in Nat, b \in Nat : a = answer[k] /\ b = k
      BY <2>2, EndsFacts
    <3> QED
      BY <2>2, <3>1
  <2> QED
    BY <2>1, <2>2, <2>3 DEF Answers, Done
<1> QED
  BY <1>1, AlwaysResponding, AlwaysTyped, PTL DEF Responding

-----------------------------------------------------------------------------
(* SipRpc as a service.                                                    *)

\* Before a timeout the client leaves no connection before it is served.
Stays ==
  /\ \A c \in Calls : near[c] = "unconnected" => far[c] = "none"
  /\ \A c \in Calls : ~Served(c) /\ near[c] = "closed" /\ far[c] \in {"backlog", "open"} =>
       timedout \/ main = "ended"
  /\ server = "failing" => timedout
  /\ ServerStays

-----------------------------------------------------------------------------
(* The server stays.                                                       *)

\* A step after which no other connection is left unserved.
LEMMA StaysKeeps ==
  ASSUME Typed, Ways, Growing, Receiving, Stays, Done \subseteq Done',
         timedout => timedout', main = "ended" => main' = "ended",
         \A c \in Calls : near'[c] = "unconnected" => far'[c] = "none",
         \A c \in Calls : near'[c] = "closed" /\ far'[c] \in {"backlog", "open"} =>
           \/ near[c] = "closed" /\ far[c] \in {"backlog", "open"}
           \/ Served(c) \/ timedout' \/ main' = "ended",
         server' = "exited" => server = "exited" \/ timedout' \/ main' = "ended",
         server' = "failing" => server = "failing" \/ timedout'
  PROVE  Stays'
<1>1. \A c \in Calls : Served(c) => Served(c)'
  BY DoneVia DEF Served
<1> QED
  BY <1>1 DEF Stays, ServerStays

\* A step that closes nothing and stops nothing.
LEMMA StaysIdle ==
  ASSUME Typed, Ways, Growing, Receiving, Stays, UNCHANGED <<near, far>>, timedout => timedout',
         main = "ended" => main' = "ended",
         server' \notin {"exited", "failing"} \/ server' = server \/ timedout',
         \/ served' = served
         \/ Request \in Calls /\ served' = Append(served, Request)
  PROVE  Stays'
<1>1. Done \subseteq Done'
  BY DoneGrows
<1> QED
  BY <1>1, StaysKeeps DEF Stays, ServerStays

\* A call begins: a connection that is refused never reaches the server.
LEMMA StaysOpen ==
  ASSUME Typed, Ways, Growing, Receiving, Stays, NEW k \in Calls, Reuse(k) \/ Open(k) \/ OpenRefused(k)
  PROVE  Stays'
<1>1. UNCHANGED <<server, timedout, served>> /\ main = "idle" /\ k > made
  BY TypedFacts, EndsFacts DEF Reuse, Open, OpenRefused, Begin, OnConnection
<1>2. far[k] = "none"
  BY <1>1 DEF Receiving, Unmade
<1>3. \/ UNCHANGED <<near, far>>
      \/ near' = [near EXCEPT ![k] = "open"] /\ far' = [far EXCEPT ![k] = "backlog"]
      \/ near' = [near EXCEPT ![k] = "unconnected"] /\ far' = far
  BY DEF Reuse, Open, OpenRefused, links
<1>4. \A c \in Calls : \/ near'[c] = near[c] /\ far'[c] = far[c]
                       \/ near'[c] = "open"
                       \/ near'[c] = "unconnected" /\ far'[c] = "none"
  BY <1>2, <1>3 DEF Typed, Scalars
<1>5. Done' = Done
  BY <1>1 DEF Done
<1> QED
  BY <1>1, <1>4, <1>5, StaysKeeps DEF Stays, ServerStays

\* Writing to a connection that the server closed resets it.
LEMMA StaysSend ==
  ASSUME Typed, Ways, Growing, Receiving, Stays, Send
  PROVE  Stays'
<1>1. UNCHANGED <<server, timedout, served, near>> /\ main = "opened"
      /\ near[Conn(0)] = "open" /\ Conn(0) \in Calls
      /\ far' \in {far, [far EXCEPT ![Conn(0)] = "reset"]}
  BY TypedSend DEF Send, history
<1>2. \A c \in Calls : far'[c] = far[c] \/ (near[c] = "open" /\ far'[c] = "reset")
  BY <1>1 DEF Typed, Scalars
<1>3. Done' = Done
  BY <1>1 DEF Done
<1> QED
  BY <1>1, <1>2, <1>3, StaysKeeps DEF Stays, ServerStays

\* A write fails on a connection that the server never had, or has closed.
LEMMA StaysSendFails ==
  ASSUME Typed, Ways, Growing, Receiving, Stays, SendFails
  PROVE  Stays'
<1>1. UNCHANGED <<server, timedout, served, far>> /\ main = "opened" /\ Conn(0) \in Calls
  BY TypedSendFails DEF SendFails, history
<1>2. \A c \in Calls : \/ near'[c] = near[c]
                       \/ near'[c] = "closed" /\ (near[c] = "unconnected" \/ far[c] = "reset")
  BY <1>1, TypedSendFails DEF Typed, Scalars
<1>3. \A c \in Calls : \/ near'[c] = near[c]
                       \/ near'[c] = "closed" /\ far[c] \in {"none", "reset"}
  BY <1>2 DEF Stays
<1>4. Done' = Done
  BY <1>1 DEF Done
<1> QED
  BY <1>1, <1>3, <1>4, StaysKeeps DEF Stays, ServerStays

\* A client that has a whole response was served; one that fails without a
\* timeout has lost its connection.
LEMMA StaysEnding ==
  ASSUME Typed, Ways, Growing, Receiving, Responding, Stays, NEW e \in Clients, Ending(e) \/ Timeout(e)
  PROVE  Stays'
<1>1. /\ Waiting(e) /\ (LeaveOpen(e) \/ LeaveClosed(e)) /\ Leave(e)
      /\ UNCHANGED <<persistent, made, kind, server, far, served>> /\ Typed'
      /\ result' \in [Calls -> {"none", "threw", "transmitted", "response"}]
      /\ answer' \in [Calls -> 0..MaxCalls]
  BY TypedRespond, TypedGivesUp DEF Ending, Typed, Scalars
<1>2. timedout' \in BOOLEAN
  BY <1>1 DEF Typed, Scalars
<1>3. PICK c \in Calls : c = Conn(e)
  BY <1>1, ListensFacts
<1>4. \/ near' = near
      \/ near' = [near EXCEPT ![c] = "closed"]
  BY <1>1, <1>2, <1>3, TypedLeaves
<1>5. main = "ended" => main' = "ended"
  BY <1>1, <1>2, TypedLeaves, WaitingFacts
<1>6. (timedout => timedout') /\ (near' = near \/ timedout' \/ Served(c) \/ far[c] \in {"closed", "reset"})
  <2>1. CASE Timeout(e)
    BY <2>1 DEF Timeout
  <2>2. CASE ReadFails(e)
    <3>1. timedout' = timedout /\ PeerGone(e)
      BY <2>2 DEF ReadFails
    <3>2. Reset(c)
      BY <1>3, <3>1, EndsFacts DEF PeerGone
    <3> QED
      BY <3>1, <3>2 DEF Reset
  <2>3. CASE Respond(e)
    <3>1. timedout' = timedout /\ Complete(e)
      BY <2>3 DEF Respond, history
    <3>2. ~Busy(proto[e]) /\ proto[e].remain = 0
      BY <3>1 DEF Complete, hasBytesToRead
    <3>3. Hears(e)
      BY <1>1, ListensFacts DEF Responding, Hearing
    <3>4. Served(c)
      BY <1>3, <3>2, <3>3 DEF Hears, Mute, Fresh
    <3> QED
      BY <3>1, <3>4
  <2> QED
    BY <2>1, <2>2, <2>3 DEF Ending
<1>7. \A d \in Calls : near'[d] = near[d] \/ (near'[d] = "closed" /\ d = c /\ near' # near)
  BY <1>4 DEF Typed, Scalars
<1>8. Done' = Done
  BY <1>1 DEF Done
<1> QED
  BY <1>1, <1>5, <1>6, <1>7, <1>8, StaysKeeps DEF Stays, ServerStays

\* The client program ends.
LEMMA StaysQuit ==
  ASSUME Typed, Ways, Growing, Receiving, Stays, Quit
  PROVE  Stays'
<1>1. main' = "ended" /\ UNCHANGED <<server, far, served, timedout>>
      /\ \A c \in Calls : near'[c] # "unconnected"
  BY DEF Quit, history
<1>2. Done' = Done
  BY <1>1 DEF Done
<1> QED
  BY <1>1, <1>2, StaysKeeps DEF Stays

\* The server accepts a connection that waits.
LEMMA StaysAccept ==
  ASSUME Typed, Ways, Growing, Receiving, Stays, NEW c \in Calls, Accept(c)
  PROVE  Stays'
<1>1. UNCHANGED <<main, near, served, timedout>> /\ server' = "reading"
      /\ far[c] = "backlog" /\ far' = [far EXCEPT ![c] = "open"]
  BY DEF Accept, program, history
<1>2. \A d \in Calls : far'[d] = far[d] \/ (far[d] = "backlog" /\ far'[d] = "open")
  BY <1>1 DEF Typed, Scalars
<1>3. Done' = Done
  BY <1>1 DEF Done
<1> QED
  BY <1>1, <1>2, <1>3, StaysKeeps DEF Stays

\* The server closes connections; if it exits, that is after a timeout, or the
\* client program has ended.
LEMMA StaysShut ==
  ASSUME Typed, Ways, Growing, Receiving, Stays, NEW cs \in SUBSET Calls, Shut(cs), Conn(Server) \in Calls,
         \A c \in cs : far[c] # "none", UNCHANGED <<main, near>>, timedout => timedout',
         \/ served' = served
         \/ Request \in Calls /\ served' = Append(served, Request),
         server' # "failing", server' = "exited" => timedout' \/ main = "ended"
  PROVE  Stays'
<1>1. \A c \in Calls : IF c \in cs THEN far'[c] \in {"closed", "reset"} ELSE far'[c] = far[c]
  BY ShutEffect
<1>2. Done \subseteq Done'
  BY DoneGrows
<1>3. \A c \in Calls : near'[c] = "unconnected" => far'[c] = "none"
  BY <1>1 DEF Stays
<1> QED
  BY <1>1, <1>2, <1>3, StaysKeeps

\* The server exits after a timeout, or since its client has gone.
LEMMA StaysExit ==
  ASSUME Typed, Ways, Growing, Receiving, Stays, NEW how \in {"exited", "terminated"}, Exit(how),
         server \in {"reading", "serving", "failing"}, timedout => timedout',
         served' = served \/ (server = "serving" /\ served' = Append(served, Request)),
         how = "exited" => timedout' \/ (server # "failing" /\ near[Conn(Server)] = "closed")
  PROVE  Stays'
<1>1. PICK c \in Calls : /\ c = Conn(Server) /\ far[c] = "open" /\ (server # "failing" => ~Served(c))
                         /\ server = "serving" => Request \in Calls
  BY TypedFacts DEF Receiving, Once, Clean, Done, Range, Served
<1>2. /\ Shut({d \in Calls : far[d] \in {"open", "backlog"}})
      /\ UNCHANGED <<main, near>> /\ server' = how
  BY DEF Exit, program
<1>3. {d \in Calls : far[d] \in {"open", "backlog"}} \in SUBSET Calls
  OBVIOUS
<1>4. server # "failing" /\ near[c] = "closed" => timedout \/ main = "ended"
  BY <1>1 DEF Stays
<1>5. server' = "exited" => timedout' \/ main = "ended"
  BY <1>1, <1>2, <1>4
<1> QED
  BY <1>1, <1>2, <1>3, <1>5, StaysShut

\* Every step keeps it.
LEMMA StaysStep ==
  ASSUME Typed, Ways, Growing, Receiving, Responding, Stays, [Next]_vars
  PROVE  Stays'
<1>1. CASE UNCHANGED vars
  BY <1>1, StaysIdle DEF vars, program, links, history
<1>2. CASE StartServer
  BY <1>2, StaysIdle DEF StartServer, program, links, history
<1>3. ASSUME NEW k \in Calls, Reuse(k) \/ Open(k) \/ OpenRefused(k) PROVE Stays'
  BY <1>3, StaysOpen
<1>4. ASSUME NEW k \in Calls, StartThread(k) PROVE Stays'
  BY <1>4, StaysIdle DEF StartThread, links, history
<1>5. CASE SendTimesOut
  <2>1. UNCHANGED <<server, near, far, served>> /\ timedout' /\ main = "opened"
    BY <1>5, TypedSendTimesOut
  <2> QED
    BY <2>1, StaysIdle
<1>6. CASE Send \/ SendFails \/ Quit
  BY <1>6, StaysSend, StaysSendFails, StaysQuit
<1>7. ASSUME NEW e \in Ends, Looping(e) PROVE Stays'
  BY <1>7, StaysIdle DEF Looping, Machine, Read, links, program, history
<1>8. ASSUME NEW e \in Clients, Ending(e) \/ Timeout(e) PROVE Stays'
  BY <1>8, StaysEnding
<1>9. ASSUME NEW c \in Calls, Accept(c) PROVE Stays'
  BY <1>9, StaysAccept
<1>10. CASE Received
  <2>1. server = "reading" /\ UNCHANGED history
    BY <1>10, WaitingFacts DEF Received, Complete
  <2>2. CASE ~Exit("terminated")
    BY <1>10, <2>1, <2>2, StaysIdle DEF Received, program, history, links
  <2>3. CASE Exit("terminated")
    BY <2>1, <2>3, StaysExit DEF history
  <2> QED
    BY <2>2, <2>3
<1>11. CASE ServerTimeout \/ Fail
  <2>1. server \in {"reading", "failing"} /\ served' = served /\ timedout' /\ Exit("exited")
    BY <1>11, WaitingFacts DEF ServerTimeout, Fail, WantsMore, history, Stays
  <2> QED
    BY <2>1, StaysExit
<1>12. CASE ServerReadFails
  <2>1. server = "reading" /\ UNCHANGED history /\ Exit("exited") /\ near[Conn(Server)] = "closed"
    BY <1>12, WaitingFacts DEF ServerReadFails, WantsMore, PeerGone
  <2> QED
    BY <2>1, StaysExit DEF history
<1>13. CASE ServeFails
  <2>1. /\ server = "serving" /\ timedout' = timedout /\ Exit("exited") /\ served' = Append(served, Request)
        /\ timedout \/ near[Conn(Server)] = "closed"
    BY <1>13 DEF ServeFails, Receiving, Clean, Ways
  <2> QED
    BY <2>1, StaysExit
<1>14. CASE Serve \/ ServeTimesOut
  <2>1. Request \in Calls
    BY <1>14 DEF Serve, ServeTimesOut, Receiving, Clean
  <2>2. CASE Serve
    BY <2>1, <2>2, TypedServe, StaysIdle
  <2>3. CASE ServeTimesOut
    BY <2>1, <2>3, TypedServeTimesOut, StaysIdle
  <2> QED
    BY <1>14, <2>2, <2>3
<1>15. CASE CloseConnection
  <2>1. /\ UNCHANGED <<main, near, served, timedout>> /\ server' = "accepting"
        /\ Shut({Conn(Server)}) /\ Conn(Server) \in Calls
    BY <1>15, TypedCloseConnection
  <2>2. {Conn(Server)} \in SUBSET Calls /\ far[Conn(Server)] = "open"
    BY <1>15, <2>1 DEF CloseConnection, Receiving, Once
  <2> QED
    BY <2>1, <2>2, StaysShut
<1> QED
  BY <1>1, <1>2, <1>3, <1>4, <1>6, <1>7, <1>8, <1>9, <1>10, <1>11, <1>12, <1>13, <1>14, <1>15, <1>5
  DEF Next, Calling, Serving

\* xmlrpcserver exits only after a timeout or the end of its client program,
\* however calls succeed, fail, overlap and are given up.
THEOREM ServerStaysHolds == Spec => []ServerStays
<1>1. Init => Stays
  BY DEF Init, Stays, ServerStays
<1>2. Typed /\ HasData /\ Ways /\ Receiving /\ Responding /\ Stays /\ [Next]_vars => Stays'
  BY StaysStep, WaysStep
<1>3. Stays => ServerStays
  BY DEF Stays
<1> QED
  BY <1>1, <1>2, <1>3, AlwaysTyped, AlwaysWays, AlwaysReceiving, AlwaysResponding, PTL DEF Spec

-----------------------------------------------------------------------------
(* Types.                                                                  *)

\* The elements of a sequence.
LEMMA RangeOf ==
  ASSUME NEW S, NEW s \in Seq(S)
  PROVE  Range(s) \subseteq S
BY DEF Range

\* Every protocol object reads letters of its own direction, the counter is
\* bounded by the calls, and no call is answered by one not made yet.
THEOREM TypeOKHolds == Spec => []TypeOK
<1>1. Typed /\ Ways /\ Counted /\ Answers => TypeOK
  <2> SUFFICES ASSUME Typed, Ways, Counted, Answers PROVE TypeOK
    OBVIOUS
  <2>1. pending \in 0..MaxCalls
    <3>1. IsFiniteSet(Calls) /\ Cardinality(Calls) = MaxCalls
      BY FS_Interval, MaxCallsAssumption DEF Calls
    <3>2. Running \subseteq Calls
      BY DEF Running
    <3>3. Cardinality(Running) <= MaxCalls
      BY <3>1, <3>2, FS_Subset
    <3> QED
      BY <3>3, RunningFinite, MaxCallsAssumption DEF Counted
  <2>2. ASSUME NEW e \in Ends
        PROVE  /\ Conn(e) \in Calls \cup {None}
               /\ proto[e].state \in ConnStates
               /\ proto[e].have \in 0..Buffer
               /\ Waiting(e) => Conn(e) \in Calls /\ proto[e].have <= Len(Inbox(e))
               /\ Range(proto[e].line) \cup Range(proto[e].data) \subseteq LettersOf(e)
    <3>1. Conn(e) \in Calls \cup {None}
      BY TypedFacts, MaxCallsAssumption DEF Calls, None
    <3>2. proto[e].state \in ConnStates
      BY TypedFacts, Fields DEF ConnStates, States
    <3>3. proto[e].have \in 0..Buffer
      BY TypedFacts, BufferAssumption DEF Typed, Buffers
    <3>4. Waiting(e) => Conn(e) \in Calls /\ proto[e].have <= Len(Inbox(e))
      BY TypedFacts DEF Typed, Buffers
    <3>5. Range(proto[e].line) \cup Range(proto[e].data) \subseteq LettersOf(e)
      BY TypedFacts, Fields, RangeOf
    <3> QED
      BY <3>1, <3>2, <3>3, <3>4, <3>5
  <2>3. answer \in [Calls -> 0..made]
    <3>1. \A k \in Calls : answer[k] \in 0..made
      <4> SUFFICES ASSUME NEW k \in Calls PROVE answer[k] \in 0..made
        OBVIOUS
      <4>1. PICK a \in Nat, m \in Nat, i \in Nat : a = answer[k] /\ m = made /\ i = k
        BY TypedFacts, EndsFacts DEF Typed, Scalars
      <4>2. i > m => a = 0
        BY <4>1 DEF Answers
      <4>3. a # 0 => a <= i
        BY <4>1 DEF Answers
      <4> QED
        BY <4>1, <4>2, <4>3
    <3> QED
      BY <3>1 DEF Typed, Scalars
  <2>4. via \in [Calls -> 0..made] /\ stalled \subseteq Calls
    <3>1. ASSUME NEW k \in Calls PROVE via[k] \in 0..made
      <4>1. PICK v \in Nat, m \in Nat, i \in Nat : v = via[k] /\ m = made /\ i = k
        BY TypedFacts, EndsFacts, MaxCallsAssumption DEF Ways
      <4>2. v <= i /\ (i > m => v = 0)
        BY <4>1 DEF Ways, None
      <4> QED
        BY <4>1, <4>2
    <3> QED
      BY <3>1 DEF Ways
  <2> QED
    BY <2>1, <2>2, <2>3, <2>4 DEF TypeOK, Typed, Scalars
<1> QED
  BY <1>1, AlwaysTyped, AlwaysWays, AlwaysCounted, AlwaysResponding, PTL DEF Responding

-----------------------------------------------------------------------------
(* The two programs implement RemoteCalls.                                 *)

\* What the service sees of a step that ends the call of e in failure.
LEMMA ServiceFails ==
  ASSUME Typed, Ways, Growing, Receiving, Answers,
         NEW e \in Clients, Using(e), UNCHANGED <<made, served, answer>>,
         NEW r \in {"threw", "transmitted"}, result' = [result EXCEPT ![CallOf(e)] = r]
  PROVE  Service!Next
<1>1. PICK k \in Calls : k = CallOf(e)
  BY UsingFacts
<1>2. k <= made /\ result[k] = "none"
  BY <1>1, EndsFacts, TypedFacts DEF CallOf, Typed, Owners, Using, Answers
<1>3. Service!End(k, r)
  BY <1>1, <1>2 DEF Service!End
<1>4. Range(served)' = Range(served)
  OBVIOUS
<1>5. Service!Fail(k) \/ Service!Transmit(k)
  BY <1>3, <1>4 DEF Service!Fail, Service!Transmit
<1> QED
  BY <1>5 DEF Service!Next, Service!Calls, Calls

\* A call is given the response of its connection, which no other was given.
LEMMA ServiceReturns ==
  ASSUME Typed, Ways, Growing, Receiving, Responding, NEW e \in Clients, Respond(e)
  PROVE  Service!Next
<1>1. Waiting(e) /\ Using(e) /\ UNCHANGED <<made, served>> /\ Answers
  BY TypedRespond, UsingFacts DEF Responding
<1>2. CASE result' = [result EXCEPT ![CallOf(e)] = "threw"] /\ answer' = answer
  BY <1>1, <1>2, ServiceFails
<1>3. CASE /\ Whole(proto[e].data)
           /\ result' = [result EXCEPT ![CallOf(e)] = "response"]
           /\ answer' = [answer EXCEPT ![CallOf(e)] = proto[e].data[1].msg]
  <2>1. PICK c \in Calls, k \in Calls :
          /\ c = Conn(e) /\ k = CallOf(e)
          /\ proto[e].data[1].msg \in Done /\ via[proto[e].data[1].msg] = c /\ ~Exhausted(c)
    BY <1>1, <1>3, WholeIsLast, UsingFacts
  <2>2. PICK m \in Calls : m = proto[e].data[1].msg /\ m \in Done /\ via[m] = c
    BY <2>1, DoneType
  <2>3. k <= made /\ result[k] = "none" /\ m <= k
    <3>1. k <= made /\ result[k] = "none" /\ Given(c, k)
      BY <1>1, <2>1, EndsFacts, TypedFacts DEF CallOf, Typed, Owners, Using, Answers
    <3>2. m = k \/ m < k
      BY <2>1, <2>2, <3>1 DEF Given
    <3> QED
      BY <3>1, <3>2, EndsFacts
  <2>4. \A i \in Calls : answer[i] # m
    BY <2>1, <2>2, EndsFacts DEF Exhausted
  <2>5. Service!End(k, "response")
    BY <1>3, <2>1, <2>3 DEF Service!End
  <2>6. Service!Return(k, m)
    BY <1>1, <1>3, <2>1, <2>3, <2>5, <2>2, <2>4 DEF Service!Return, Done, Service!Calls, Calls
  <2> QED
    BY <2>6 DEF Service!Next, Service!Calls, Calls
<1> QED
  BY <1>2, <1>3, TypedRespond

\* The call that the server has received was made, and is served for the first
\* time.
LEMMA ServiceServes ==
  ASSUME Typed, Ways, Growing, Receiving, server = "serving", served' = Append(served, Request),
         UNCHANGED <<made, result, answer>>
  PROVE  Service!Next
<1>1. PICK k \in Calls : k = Request /\ via[k] = Conn(Server) /\ k \notin Done
  BY DEF Receiving, Clean, Once, Done, Range
<1>2. Done' = Done \cup {k}
  BY <1>1, DoneGrows
<1>3. k <= made
  BY <1>1, TypedFacts, ViaKept
<1>4. Service!Serve(k)
  BY <1>1, <1>2, <1>3 DEF Service!Serve, Done
<1> QED
  BY <1>4 DEF Service!Next, Service!Calls, Calls

\* A call is made, or made in vain.
LEMMA ServiceMakes ==
  ASSUME Typed, NEW k \in Calls, Reuse(k) \/ Open(k) \/ OpenRefused(k)
  PROVE  Service!Next
<1>1. made \in Nat /\ MaxCalls \in Nat /\ k = made + 1 /\ made' = k /\ k <= MaxCalls
      /\ UNCHANGED <<served, answer>>
  BY TypedFacts, MaxCallsAssumption DEF Reuse, Open, OpenRefused, Begin, OnConnection
<1>2. result' = result \/ result' = [result EXCEPT ![made + 1] = "threw"]
  BY <1>1 DEF Reuse, Open, OpenRefused
<1>3. Range(served)' = Range(served) /\ made < MaxCalls
  BY <1>1
<1>4. Service!Make \/ Service!MakeInVain
  BY <1>1, <1>2, <1>3 DEF Service!Make, Service!MakeInVain
<1> QED
  BY <1>4 DEF Service!Next

\* Every step is one of the service, or none.
LEMMA ServiceStep ==
  ASSUME Typed, Ways, Growing, Receiving, Responding, [Next]_vars
  PROVE  [Service!Next]_(Service!vars)
<1>1. ASSUME UNCHANGED <<made, served, result, answer>> PROVE UNCHANGED Service!vars
  BY <1>1 DEF Service!vars
<1>2. CASE UNCHANGED vars
  BY <1>1, <1>2 DEF vars, history
<1>3. ASSUME NEW k \in Calls, Reuse(k) \/ Open(k) \/ OpenRefused(k) PROVE Service!Next
  BY <1>3, ServiceMakes
<1>4. CASE Send
  <2>1. UNCHANGED <<made, served, answer>> /\ Using(0) /\ CallOf(0) = made
    BY <1>4 DEF Send, history, Using, CallOf
  <2>2. result' = result \/ result' = [result EXCEPT ![CallOf(0)] = "transmitted"]
    BY <1>4, <2>1, TypedSend
  <2> QED
    BY <1>1, <2>1, <2>2, ServiceFails, EndsFacts DEF Responding
<1>5. CASE SendFails \/ SendTimesOut
  <2>1. UNCHANGED <<made, served, answer>> /\ Using(0)
        /\ result' = [result EXCEPT ![CallOf(0)] = "threw"]
    BY <1>5 DEF SendFails, SendTimesOut, history, Using, CallOf
  <2> QED
    BY <2>1, ServiceFails, EndsFacts DEF Responding
<1>6. ASSUME NEW e \in Clients, Ending(e) \/ Timeout(e) PROVE Service!Next
  <2>1. CASE Respond(e)
    BY <2>1, ServiceReturns
  <2>2. CASE Timeout(e) \/ ReadFails(e)
    BY <2>2, TypedGivesUp, UsingFacts, ServiceFails DEF Responding
  <2> QED
    BY <1>6, <2>1, <2>2 DEF Ending
<1>7. CASE Serve \/ ServeTimesOut \/ ServeFails
  BY <1>7, ServiceServes DEF Serve, ServeTimesOut, ServeFails, Exit
<1>8. CASE \/ Quit \/ StartServer \/ Received \/ ServerReadFails \/ CloseConnection \/ ServerTimeout \/ Fail
           \/ (\E c \in Calls : Accept(c)) \/ (\E k \in Calls : StartThread(k))
           \/ (\E e \in Ends : Looping(e))
  <2>1. UNCHANGED <<made, served, result, answer>>
    BY <1>8 DEF Quit, StartServer, Received, ServerReadFails, CloseConnection, ServerTimeout, Fail, Accept,
                StartThread, Looping, Machine, Read, Exit, history
  <2> QED
    BY <1>1, <2>1
<1> QED
  BY <1>2, <1>3, <1>4, <1>5, <1>6, <1>7, <1>8 DEF Next, Calling, Serving

\* The client and the server are the service that RemoteCalls specifies: calls
\* are served at most once, and a response is given to one call, which is its
\* own or a later one.
THEOREM RemoteCallsImplemented == Spec => ImplementsRemoteCalls
<1>1. Init => Service!Init
  <2> SUFFICES ASSUME Init PROVE Service!Init
    OBVIOUS
  <2>1. made = 0 /\ served = << >> /\ result = [k \in Calls |-> "none"] /\ answer = [k \in Calls |-> 0]
    BY DEF Init
  <2>2. Range(served) = {}
    BY <2>1 DEF Range
  <2> QED
    BY <2>1, <2>2 DEF Service!Init, Service!Calls, Calls
<1>2. Typed /\ HasData /\ Ways /\ Receiving /\ Responding /\ [Next]_vars => [Service!Next]_(Service!vars)
  BY ServiceStep, WaysStep
<1> QED
  BY <1>1, <1>2, AlwaysTyped, AlwaysWays, AlwaysReceiving, AlwaysResponding, PTL
  DEF Spec, ImplementsRemoteCalls, Service!Spec

===============================================================================
