---------------------------- MODULE SipRpc_proofs ----------------------------
(***************************************************************************)
(* What holds of every state of SipRpc: types, who has which connection,   *)
(* what the buffers count, the number of pending requests, and the         *)
(* connection that each call is made on.                                   *)
(***************************************************************************)
EXTENDS SipRpc, SipProtocol_proofs, FiniteSetTheorems

Sides == {"client", "server"}
Voice(s) == IF s = "server" THEN Letters(CallLen) ELSE Letters(AnswerLen)

\* The types of proto and wire.
IsFamily(f) ==
  /\ f = [e \in Ends |-> f[e]]
  /\ \A e \in Ends : f[e] \in Protocols(LettersOf(e))
IsWire(w) ==
  /\ w = [s \in Sides |-> w[s]]
  /\ \A s \in Sides : w[s] \in [Calls -> Seq(Voice(s))]

Scalars ==
  /\ persistent \in BOOLEAN /\ timedout \in BOOLEAN
  /\ made \in 0..MaxCalls /\ kind \in [Calls -> Kinds]
  /\ main \in {"idle", "opened", "waiting", "ended"}
  /\ thread \in [Calls -> {"none", "created", "waiting", "ended"}]
  /\ pending \in Nat
  /\ server \in {"down", "accepting", "reading", "serving", "closing", "failing", "exited", "terminated"}
  /\ near \in [Calls -> {"none", "unconnected", "open", "closed"}]
  /\ far \in [Calls -> {"none", "backlog", "open", "closed", "reset"}]
  /\ result \in [Calls -> {"none", "threw", "transmitted", "response"}]
  /\ answer \in [Calls -> 0..MaxCalls]
  /\ served \in Seq(Calls)

\* Who has which connection open.
Owners ==
  /\ \A e \in Clients : Conn(e) \in 0..made
  /\ Conn(Server) \in 0..MaxCalls
  /\ \A e, f \in Clients : e # f /\ Conn(e) # None => Conn(e) # Conn(f)
  /\ main \in {"opened", "waiting"} => Conn(0) # None /\ made # 0
  /\ \A k \in Calls : IF thread[k] \in {"created", "waiting"} THEN Conn(k) # None /\ k <= made
                      ELSE Conn(k) = None
  /\ server \in {"reading", "serving", "closing", "failing"} => Conn(Server) # None

Buffers ==
  /\ \A e \in Ends : proto[e].have <= Buffer /\ (Waiting(e) => proto[e].have <= Len(Inbox(e)))
  /\ \A k \in Calls : thread[k] = "created" => proto[k].have = 0

Typed == Scalars /\ IsFamily(proto) /\ IsWire(wire) /\ Owners /\ Buffers

-----------------------------------------------------------------------------

\* The protocol objects: the server's is not one of the client's.
LEMMA EndsFacts ==
  /\ 0 \in Clients /\ 0 \in Ends /\ Server \in Ends /\ Server \notin Clients /\ 0 # Server
  /\ Clients \subseteq Ends /\ Calls \subseteq Clients /\ Ends = Clients \cup {Server}
  /\ \A k \in Calls : k # 0 /\ k # Server
  /\ Clients = Calls \cup {0}
  /\ Calls \subseteq Nat \ {0}
BY MaxCallsAssumption DEF Clients, Ends, Calls, Server

\* Each object reads one side's characters.
LEMMA SideFacts ==
  /\ Side(Server) = "server" /\ Side(Server) \in Sides
  /\ \A e \in Clients : Side(e) = "client" /\ Side(e) \in Sides
  /\ \A e \in Ends : Side(e) \in Sides /\ Voice(Side(e)) = LettersOf(e)
BY EndsFacts DEF Side, Sides, Voice, LettersOf

\* Who is in the loop of waitForResponse or waitForCall.
LEMMA WaitingFacts ==
  /\ Waiting(0) <=> main = "waiting"
  /\ Waiting(Server) <=> server = "reading"
  /\ \A k \in Calls : Waiting(k) <=> thread[k] = "waiting"
  /\ Waiting(0)' <=> main' = "waiting"
  /\ Waiting(Server)' <=> server' = "reading"
  /\ \A k \in Calls : Waiting(k)' <=> thread'[k] = "waiting"
BY EndsFacts DEF Waiting

\* The fields of a letter.
LEMMA LetterFacts ==
  ASSUME NEW e \in Ends, NEW t \in LettersOf(e)
  PROVE  t.msg \in Calls /\ t.at \in Nat /\ t.body \in Nat
BY LengthAssumption, HeaderLength DEF LettersOf, Letters, Letter

\* What is under way on a connection is a sequence of letters.
LEMMA WireOf ==
  ASSUME NEW w, IsWire(w), NEW s \in Sides, NEW c \in Calls
  PROVE  w[s][c] \in Seq(Voice(s))
BY DEF IsWire

\* What Letter makes of a message's places is one of its letters.
LEMMA IsLetter ==
  ASSUME NEW len, NEW k \in Calls, len[k] \in Nat,
         NEW i \in 1..HeaderLen + len[k], NEW b \in 0..len[k]
  PROVE  Letter(k, i, b) \in Letters(len)
<1>1. i \in Nat /\ b \in Nat
  BY HeaderLength
<1>2. /\ Letter(k, i, b) \in [msg : Calls, at : Nat, body : Nat]
      /\ Letter(k, i, b).msg = k /\ Letter(k, i, b).at = i /\ Letter(k, i, b).body = b
  BY <1>1 DEF Letter
<1> QED
  BY <1>2 DEF Letters

\* What is written is of the writer's letters.
LEMMA MessageType ==
  ASSUME NEW k \in Calls
  PROVE  /\ Message(k, CallLen[k]) \in Seq(Letters(CallLen))
         /\ Message(k, AnswerLen[k]) \in Seq(Letters(AnswerLen))
         /\ Len(Message(k, CallLen[k])) = HeaderLen + CallLen[k]
         /\ Len(Message(k, AnswerLen[k])) = HeaderLen + AnswerLen[k]
         /\ CallLen[k] \in Nat /\ AnswerLen[k] \in Nat
<1>1. CallLen[k] \in Nat /\ AnswerLen[k] \in Nat
  BY LengthAssumption
<1>2. /\ \A i \in 1..HeaderLen + CallLen[k] : Letter(k, i, CallLen[k]) \in Letters(CallLen)
      /\ \A i \in 1..HeaderLen + AnswerLen[k] : Letter(k, i, AnswerLen[k]) \in Letters(AnswerLen)
  <2>1. CallLen[k] \in 0..CallLen[k] /\ AnswerLen[k] \in 0..AnswerLen[k]
    BY <1>1
  <2> QED
    BY <1>1, <2>1, IsLetter
<1> QED
  BY <1>1, <1>2, HeaderLength DEF Message

\* So is what is written of a call when its write times out.
LEMMA PieceType ==
  ASSUME NEW k \in Calls, NEW n \in Nat, n < HeaderLen + CallLen[k], NEW len \in 0..CallLen[k]
  PROVE  /\ Piece(k, n, len) \in Seq(Letters(CallLen)) /\ Len(Piece(k, n, len)) = n
         /\ \A i \in 1..n : Piece(k, n, len)[i].msg = k
<1>1. CallLen[k] \in Nat /\ HeaderLen \in Nat
  BY LengthAssumption, HeaderLength
<1>2. \A i \in 1..n, b \in 0..CallLen[k] : Letter(k, i, b) \in Letters(CallLen)
  <2>1. \A i \in 1..n : i \in 1..HeaderLen + CallLen[k]
    BY <1>1
  <2> QED
    BY <1>1, <2>1, IsLetter
<1>3. CallLen[k] \in 0..CallLen[k]
  BY <1>1
<1>4. \A i \in 1..n : Letter(k, i, IF i = n THEN len ELSE CallLen[k]) \in Letters(CallLen)
  BY <1>2, <1>3
<1> QED
  BY <1>4 DEF Piece, Letter

-----------------------------------------------------------------------------

\* Init gives every variable its type, and no one a connection.
LEMMA TypedInit == Init => Typed
<1> SUFFICES ASSUME Init PROVE Typed
  OBVIOUS
<1>1. IsFamily(proto)
  BY NewProtocolType DEF Init, IsFamily
<1>2. \A e \in Ends : proto[e] = NewProtocol
  BY DEF Init
<1>3. IsWire(wire)
  BY DEF Init, IsWire, Sides
<1>4. Scalars
  <2>1. served \in Seq(Calls)
    BY DEF Init
  <2>2. made \in 0..MaxCalls /\ answer \in [Calls -> 0..MaxCalls] /\ pending \in Nat
    BY MaxCallsAssumption DEF Init
  <2> QED
    BY <2>1, <2>2 DEF Init, Scalars, Kinds
<1>5. Owners
  <2>1. \A e \in Ends : Conn(e) = 0
    BY <1>2, NewProtocolType DEF Conn, None
  <2>2. made = 0 /\ MaxCalls \in Nat
    BY MaxCallsAssumption DEF Init
  <2> QED
    BY <2>1, <2>2, EndsFacts DEF Init, Owners, None
<1>6. Buffers
  <2>1. \A e \in Ends : ~Waiting(e)
    BY EndsFacts, WaitingFacts DEF Init
  <2>2. \A e \in Ends : proto[e].have = 0
    BY <1>2, NewProtocolType
  <2> QED
    BY <2>1, <2>2, EndsFacts, BufferAssumption DEF Buffers
<1> QED
  BY <1>1, <1>3, <1>4, <1>5, <1>6 DEF Typed

\* The types that the proofs below use most.
LEMMA TypedFacts ==
  ASSUME Typed
  PROVE  /\ made \in Nat /\ made <= MaxCalls
         /\ \A e \in Ends : /\ proto[e] \in Protocols(LettersOf(e)) /\ Conn(e) \in 0..MaxCalls
                            /\ proto[e].have \in Nat
                            /\ Waiting(e) => Conn(e) \in Calls
         /\ main \in {"opened", "waiting"} => made \in Calls /\ Conn(0) \in Calls
         /\ server \in {"reading", "serving", "closing", "failing"} => Conn(Server) \in Calls
         /\ \A c \in Calls :
              /\ wire["server"][c] \in Seq(Voice("server")) /\ Len(wire["server"][c]) \in Nat
              /\ wire["client"][c] \in Seq(Voice("client")) /\ Len(wire["client"][c]) \in Nat
<1>1. made \in Nat /\ made <= MaxCalls /\ MaxCalls \in Nat
  BY MaxCallsAssumption DEF Typed, Scalars
<1>2. \A e \in Ends : proto[e] \in Protocols(LettersOf(e))
  BY DEF Typed, IsFamily
<1>3. \A e \in Ends : proto[e].have \in Nat
  BY <1>2, Fields
<1>4. \A e \in Ends : Conn(e) \in 0..MaxCalls
  <2>1. \A e \in Clients : Conn(e) \in 0..made
    BY DEF Typed, Owners
  <2> QED
    BY <1>1, <2>1, EndsFacts DEF Typed, Owners
<1>5. main \in {"opened", "waiting"} => made \in Calls /\ Conn(0) \in Calls
  BY <1>1, <1>4, EndsFacts DEF Typed, Owners, None, Calls
<1>6. server \in {"reading", "serving", "closing", "failing"} => Conn(Server) \in Calls
  BY <1>1, <1>4, EndsFacts DEF Typed, Owners, None, Calls
<1>7. \A e \in Ends : Waiting(e) => Conn(e) \in Calls
  <2>1. \A k \in Calls : thread[k] = "waiting" => Conn(k) \in Calls
    BY <1>1, <1>4, EndsFacts DEF Typed, Owners, None, Calls
  <2> QED
    BY <1>5, <1>6, <2>1, EndsFacts, WaitingFacts
<1>8. \A s \in Sides : \A c \in Calls : wire[s][c] \in Seq(Voice(s))
  BY WireOf DEF Typed
<1>9. \A c \in Calls :
        /\ wire["server"][c] \in Seq(Voice("server")) /\ Len(wire["server"][c]) \in Nat
        /\ wire["client"][c] \in Seq(Voice("client")) /\ Len(wire["client"][c]) \in Nat
  BY <1>8 DEF Sides
<1> QED
  BY <1>1, <1>2, <1>3, <1>4, <1>5, <1>6, <1>7, <1>9

\* A stream only grows by being written to.
LEMMA Longer ==
  ASSUME NEW S, NEW s \in Seq(S), NEW t \in Seq(S)
  PROVE  s \o t \in Seq(S) /\ Len(s) <= Len(s \o t)
OBVIOUS

\* The parts of the state that only one of the actions below changes.
LEMMA TypedReuse ==
  ASSUME Typed, NEW k \in Calls, Reuse(k)
  PROVE  /\ Typed'
         /\ made' = made + 1 /\ k = made' /\ Conn(0)' = Conn(0) /\ Conn(0) # None
         /\ \A e \in Ends \ {0} : proto'[e] = proto[e]
         /\ proto'[0] = resetConnection(proto[0])
<1> DEFINE q == resetConnection(proto[0])
<1>1. proto[0] \in Protocols(LettersOf(0)) /\ IsFamily(proto)
  BY EndsFacts DEF Typed, IsFamily
<1>2. q \in Protocols(LettersOf(0)) /\ q.conn = Conn(0) /\ q.have = proto[0].have
  BY <1>1, ResetType DEF Conn
<1>3. proto' = [proto EXCEPT ![0] = q]
  BY DEF Reuse
<1> HIDE DEF q
<1>4. IsFamily(proto') /\ proto'[0] = q /\ \A d \in Ends \ {0} : proto'[d] = proto[d]
  BY <1>1, <1>2, <1>3, EndsFacts DEF IsFamily
<1>5. made \in Nat /\ made' = made + 1 /\ k = made' /\ made' \in 0..MaxCalls /\ Conn(0) # None
      /\ main = "idle" /\ main' = "opened"
  BY DEF Reuse, Begin, Typed, Scalars, Calls
<1>6. Scalars'
  BY <1>5 DEF Reuse, Begin, OnConnection, Typed, Scalars, links, history, Kinds
<1>7. \A e \in Ends : Conn(e)' = Conn(e) /\ proto'[e].have = proto[e].have
  BY <1>2, <1>4 DEF Conn
<1>8. Owners'
  BY <1>5, <1>7, EndsFacts DEF Reuse, Typed, Owners
<1>9. Buffers'
  <2>1. thread' = thread /\ \A e \in Ends : Waiting(e)' <=> Waiting(e)
    BY <1>5, EndsFacts DEF Waiting, Reuse
  <2> QED
    BY <1>7, <2>1, EndsFacts DEF Buffers, Typed, Inbox, Reuse, links
<1>10. IsWire(wire')
  BY DEF Typed, Reuse, links
<1> QED
  BY <1>2, <1>4, <1>5, <1>6, <1>7, <1>8, <1>9, <1>10, EndsFacts DEF Typed, q

\* A connection that is opened is the caller's alone.
LEMMA TypedOpen ==
  ASSUME Typed, NEW k \in Calls, Open(k)
  PROVE  /\ Typed'
         /\ made' = made + 1 /\ k = made' /\ Conn(0)' = k
         /\ \A e \in Ends \ {0} : proto'[e] = proto[e]
         /\ proto'[0] = [resetConnection(proto[0]) EXCEPT !.conn = k]
<1> DEFINE r == resetConnection(proto[0])
           q == [r EXCEPT !.conn = k]
<1>1. proto[0] \in Protocols(LettersOf(0)) /\ IsFamily(proto)
  BY EndsFacts DEF Typed, IsFamily
<1>2. r \in Protocols(LettersOf(0)) /\ r.have = proto[0].have
  BY <1>1, ResetType
<1>3. proto' = [proto EXCEPT ![0] = q]
  BY DEF Open
<1>4. k \in Nat /\ q \in Protocols(LettersOf(0)) /\ q.conn = k /\ q.have = proto[0].have
  <2> HIDE DEF r
  <2> QED
    BY <1>2, EndsFacts DEF Protocols
<1> HIDE DEF q
<1>5. IsFamily(proto') /\ proto'[0] = q /\ \A d \in Ends \ {0} : proto'[d] = proto[d]
  BY <1>1, <1>3, <1>4, EndsFacts DEF IsFamily
<1>6. made \in Nat /\ made' = made + 1 /\ k = made' /\ made' \in 0..MaxCalls
      /\ main = "idle" /\ main' = "opened"
  BY DEF Open, Begin, Typed, Scalars, Calls
<1>7. Scalars'
  BY <1>6 DEF Open, Begin, OnConnection, Typed, Scalars, history, Kinds
<1>8. /\ \A e \in Ends \ {0} : Conn(e)' = Conn(e)
      /\ Conn(0)' = k
      /\ \A e \in Ends : proto'[e].have = proto[e].have
  BY <1>4, <1>5 DEF Conn
<1>9. Owners'
  <2>1. \A e \in Clients : Conn(e) # k /\ Conn(e) \in Nat /\ Conn(e) <= made
    BY <1>6, EndsFacts DEF Typed, Owners
  <2> QED
    BY <2>1, <1>6, <1>8, EndsFacts DEF Open, Typed, Owners, None
<1>10. Buffers'
  <2>1. thread' = thread /\ \A e \in Ends : (Waiting(e)' <=> Waiting(e)) /\ (Waiting(e) => e # 0)
    BY <1>6, EndsFacts DEF Waiting, Open
  <2>2. \A e \in Ends \ {0} : proto'[e] = proto[e] /\ wire' = wire
    BY <1>5 DEF Open
  <2> QED
    BY <1>8, <2>1, <2>2, EndsFacts DEF Buffers, Typed, Inbox
<1>11. IsWire(wire')
  BY DEF Typed, Open
<1> QED
  BY <1>5, <1>6, <1>7, <1>8, <1>9, <1>10, <1>11 DEF Typed, q

\* connect fails: the handle stays with the requester.
LEMMA TypedOpenRefused ==
  ASSUME Typed, NEW k \in Calls, OpenRefused(k)
  PROVE  /\ Typed'
         /\ made' = made + 1 /\ k = made' /\ Conn(0)' = k
         /\ \A e \in Ends \ {0} : proto'[e] = proto[e]
<1> DEFINE q == [proto[0] EXCEPT !.conn = k]
<1>1. proto[0] \in Protocols(LettersOf(0)) /\ IsFamily(proto)
  BY EndsFacts DEF Typed, IsFamily
<1>3. proto' = [proto EXCEPT ![0] = q]
  BY DEF OpenRefused
<1>4. k \in Nat /\ q \in Protocols(LettersOf(0)) /\ q.conn = k /\ q.have = proto[0].have
  BY <1>1, EndsFacts DEF Protocols
<1> HIDE DEF q
<1>5. IsFamily(proto') /\ proto'[0] = q /\ \A d \in Ends \ {0} : proto'[d] = proto[d]
  BY <1>1, <1>3, <1>4, EndsFacts DEF IsFamily
<1>6. made \in Nat /\ made' = made + 1 /\ k = made' /\ made' \in 0..MaxCalls
      /\ main = "idle" /\ main' = "idle"
  BY DEF OpenRefused, Begin, program, Typed, Scalars, Calls
<1>7. Scalars'
  BY <1>6 DEF OpenRefused, Begin, OnConnection, Typed, Scalars, history, program, Kinds
<1>8. /\ \A e \in Ends \ {0} : Conn(e)' = Conn(e)
      /\ Conn(0)' = k
      /\ \A e \in Ends : proto'[e].have = proto[e].have
  BY <1>4, <1>5 DEF Conn
<1>9. Owners'
  <2>1. \A e \in Clients : Conn(e) # k /\ Conn(e) \in Nat /\ Conn(e) <= made
    BY <1>6, EndsFacts DEF Typed, Owners
  <2> QED
    BY <2>1, <1>6, <1>8, EndsFacts DEF OpenRefused, Typed, Owners, None, program
<1>10. Buffers'
  <2>1. thread' = thread /\ \A e \in Ends : (Waiting(e)' <=> Waiting(e)) /\ (Waiting(e) => e # 0)
    BY <1>6, EndsFacts DEF Waiting, OpenRefused, program
  <2>2. \A e \in Ends \ {0} : proto'[e] = proto[e] /\ wire' = wire
    BY <1>5 DEF OpenRefused
  <2> QED
    BY <1>8, <2>1, <2>2, EndsFacts DEF Buffers, Typed, Inbox
<1>11. IsWire(wire')
  BY DEF Typed, OpenRefused
<1> QED
  BY <1>5, <1>6, <1>7, <1>8, <1>9, <1>10, <1>11 DEF Typed

\* A thread begins with an empty buffer.
LEMMA TypedStartThread ==
  ASSUME Typed, NEW k \in Calls, StartThread(k)
  PROVE  Typed' /\ thread[k] = "created" /\ thread'[k] = "waiting"
         /\ \A j \in Calls \ {k} : thread'[j] = thread[j]
<1>1. thread[k] = "created" /\ thread'[k] = "waiting" /\ \A j \in Calls \ {k} : thread'[j] = thread[j]
  BY DEF StartThread, Typed, Scalars
<1>2. Scalars'
  BY DEF StartThread, Typed, Scalars, links, history
<1>3. Owners'
  BY <1>1 DEF StartThread, Typed, Owners, Conn
<1>4. Buffers'
  <2>1. \A e \in Ends \ {k} : Waiting(e)' <=> Waiting(e)
    BY <1>1, EndsFacts DEF Waiting, StartThread
  <2>2. proto[k].have = 0 /\ Conn(k) \in Calls
    <3>1. Conn(k) # None /\ proto[k].have = 0
      BY <1>1, EndsFacts DEF Typed, Buffers, Owners
    <3> QED
      BY <3>1, TypedFacts, EndsFacts DEF None, Calls
  <2>3. proto[k].have <= Len(Inbox(k))
    <3>1. Inbox(k) \in Seq(Voice(Side(k)))
      BY <2>2, SideFacts, EndsFacts, WireOf DEF Inbox, Typed
    <3> QED
      BY <2>2, <3>1
  <2>4. proto' = proto /\ wire' = wire
    BY DEF StartThread, links
  <2> QED
    BY <1>1, <2>1, <2>3, <2>4, EndsFacts DEF Buffers, Typed, Inbox, Conn
<1> QED
  BY <1>1, <1>2, <1>3, <1>4 DEF StartThread, Typed, links

\* What a wait begins with, after the call is written.
Waits(p) == BeginWait(clearSipHeader(p))

\* What the requester's protocol is when it begins to wait.
LEMMA WaitsType ==
  ASSUME NEW S, NEW p \in Protocols(S)
  PROVE  /\ Waits(p) \in Protocols(S) /\ Waits(p).conn = p.conn
         /\ Waits(p).have = 0 /\ Waits(p).data = << >>
BY ClearType, BeginWaitType DEF Waits

\* The three ways in which a call that was written goes on.
LEMMA TypedSend ==
  ASSUME Typed, Send
  PROVE  /\ Typed'
         /\ made \in Calls /\ Conn(0) \in Calls
         /\ \/ /\ main' = "waiting" /\ thread' = thread /\ result' = result
               /\ proto'[0] = Waits(proto[0]) /\ \A e \in Ends \ {0} : proto'[e] = proto[e]
            \/ /\ main' = "idle" /\ thread' = [thread EXCEPT ![made] = "created"] /\ result' = result
               /\ Conn(0)' = None /\ proto'[made] = Waits(proto[0])
               /\ \A e \in Ends \ {0, made} : proto'[e] = proto[e]
            \/ /\ main' = "idle" /\ thread' = thread
               /\ result' = [result EXCEPT ![made] = "transmitted"]
               /\ proto'[0] = Waits(proto[0]) /\ \A e \in Ends \ {0} : proto'[e] = proto[e]
         /\ wire'["client"] = wire["client"]
         /\ \A d \in Calls \ {Conn(0)} : wire'["server"][d] = wire["server"][d]
         /\ \/ Reset(Conn(0)) /\ wire' = wire
            \/ /\ ~Reset(Conn(0))
               /\ wire'["server"][Conn(0)] = wire["server"][Conn(0)] \o Message(made, CallLen[made])
<1> DEFINE c == Conn(0)
           p == Waits(proto[0])
<1>1. proto[0] \in Protocols(LettersOf(0)) /\ IsFamily(proto) /\ LettersOf(0) = LettersOf(made)
      /\ made \in Calls /\ c \in Calls
  <2>1. main = "opened"
    BY DEF Send
  <2>2. made \in Calls /\ c \in Calls
    BY <2>1, TypedFacts
  <2> QED
    BY <2>2, EndsFacts DEF Typed, IsFamily, LettersOf
<1>2. p \in Protocols(LettersOf(0)) /\ p.conn = c /\ p.have = 0 /\ p.data = << >>
  BY <1>1, WaitsType DEF Conn
<1> HIDE DEF p
<1>3. PICK q \in Protocols(LettersOf(0)) : q = [p EXCEPT !.conn = None] /\ q.conn = None /\ q.have = 0
  <2>1. [p EXCEPT !.conn = None] \in Protocols(LettersOf(0))
    BY <1>2 DEF Protocols, None
  <2> QED
    BY <1>2, <2>1 DEF Protocols
<1>4. IsFamily(proto')
      /\ \/ /\ main' = "waiting" /\ thread' = thread /\ result' = result
            /\ proto'[0] = p /\ \A e \in Ends \ {0} : proto'[e] = proto[e]
         \/ /\ main' = "idle" /\ thread' = [thread EXCEPT ![made] = "created"] /\ result' = result
            /\ proto'[0] = q /\ proto'[made] = p
            /\ \A e \in Ends \ {0, made} : proto'[e] = proto[e]
         \/ /\ main' = "idle" /\ thread' = thread
            /\ result' = [result EXCEPT ![made] = "transmitted"]
            /\ proto'[0] = p /\ \A e \in Ends \ {0} : proto'[e] = proto[e]
  <2>1. Sent(made) /\ p = BeginWait(clearSipHeader(proto[0]))
    BY DEF Send, Waits, p
  <2>2. CASE proto' = [proto EXCEPT ![0] = p] /\ main' = "waiting" /\ thread' = thread /\ result' = result
    BY <1>1, <1>2, <2>2, EndsFacts DEF IsFamily
  <2>3. CASE /\ proto' = [proto EXCEPT ![0] = q, ![made] = p] /\ main' = "idle" /\ result' = result
             /\ thread' = [thread EXCEPT ![made] = "created"]
    BY <1>1, <1>2, <2>3, EndsFacts DEF IsFamily
  <2>4. CASE /\ proto' = [proto EXCEPT ![0] = p] /\ main' = "idle" /\ thread' = thread
             /\ result' = [result EXCEPT ![made] = "transmitted"]
    BY <1>1, <1>2, <2>4, EndsFacts DEF IsFamily
  <2> QED
    BY <2>1, <1>3, <2>2, <2>3, <2>4 DEF Sent
<1>5. /\ IsWire(wire') /\ wire'["client"] = wire["client"]
      /\ \A d \in Calls \ {c} : wire'["server"][d] = wire["server"][d]
      /\ \/ Reset(c) /\ wire' = wire
         \/ ~Reset(c) /\ wire'["server"][c] = wire["server"][c] \o Message(made, CallLen[made])
  <2>1. CASE Reset(c)
    BY <2>1 DEF Send, Typed
  <2>2. CASE ~Reset(c)
    <3> DEFINE v == wire["server"][c] \o Message(made, CallLen[made])
    <3>1. v \in Seq(Voice("server"))
      BY <1>1, WireOf, MessageType DEF Voice, Typed, Sides
    <3>2. wire' = [wire EXCEPT !["server"][c] = v]
      BY <2>2 DEF Send
    <3> HIDE DEF v
    <3>3. IsWire(wire') /\ wire'["client"] = wire["client"] /\ wire'["server"][c] = v
          /\ \A d \in Calls \ {c} : wire'["server"][d] = wire["server"][d]
      BY <3>1, <3>2, <1>1 DEF IsWire, Sides, Typed
    <3> QED
      BY <3>3, <2>2 DEF v
  <2> QED
    BY <2>1, <2>2
<1>6. Scalars'
  <2>1. kind' = kind /\ made' = made /\ server' = server /\ pending' = pending /\ near' = near
        /\ answer' = answer /\ served' = served /\ timedout' = timedout /\ persistent' = persistent
    BY DEF Send, history
  <2>2. far' \in [Calls -> {"none", "backlog", "open", "closed", "reset"}]
    BY <1>1 DEF Send, Typed, Scalars
  <2>3. main' \in {"idle", "opened", "waiting", "ended"}
        /\ thread' \in [Calls -> {"none", "created", "waiting", "ended"}]
        /\ result' \in [Calls -> {"none", "threw", "transmitted", "response"}]
    BY <1>1, <1>4 DEF Typed, Scalars
  <2> QED
    BY <2>1, <2>2, <2>3 DEF Typed, Scalars
<1>7. Owners'
  <2>1. made' = made /\ server' = server /\ main = "opened"
    BY DEF Send
  <2>2. \A e \in Clients \ {0, made} : Conn(e)' = Conn(e)
    BY <1>4, EndsFacts DEF Conn
  <2>3. Conn(Server)' = Conn(Server)
    BY <1>1, <1>4, EndsFacts DEF Conn
  <2>4. \/ /\ Conn(0)' = c /\ Conn(made)' = Conn(made) /\ thread' = thread
        \/ /\ Conn(0)' = None /\ Conn(made)' = c /\ main' = "idle"
           /\ thread'[made] = "created" /\ \A k \in Calls \ {made} : thread'[k] = thread[k]
    <3>1. made' = made /\ made # 0 /\ thread \in [Calls -> {"none", "created", "waiting", "ended"}]
      BY <1>1, EndsFacts DEF Typed, Scalars, Send
    <3> USE <1>1, <1>2, <1>3, <3>1, EndsFacts DEF Conn
    <3>2. CASE proto'[0] = p /\ (\A e \in Ends \ {0} : proto'[e] = proto[e]) /\ thread' = thread
      BY <3>2
    <3>3. CASE /\ main' = "idle" /\ thread' = [thread EXCEPT ![made] = "created"]
               /\ proto'[0] = q /\ proto'[made] = p
      BY <3>3
    <3> QED
      BY <1>4, <3>2, <3>3
  <2> QED
    BY <1>1, <2>1, <2>2, <2>3, <2>4, EndsFacts DEF Typed, Owners, None
<1>8. Buffers'
  <2>1. \A e \in Ends : proto'[e].have = proto[e].have \/ proto'[e].have = 0
    BY <1>1, <1>2, <1>3, <1>4, EndsFacts
  <2>2. \A e \in Ends : proto'[e].have <= Buffer
    BY <2>1, BufferAssumption DEF Typed, Buffers
  <2>3. \A k \in Calls : thread'[k] = "created" => proto'[k].have = 0
    BY <1>1, <1>2, <1>3, <1>4, EndsFacts DEF Typed, Buffers, Scalars
  <2>4. \A k \in Calls : Waiting(k)' => proto'[k].have <= Len(Inbox(k)')
    <3> SUFFICES ASSUME NEW k \in Calls, Waiting(k)' PROVE proto'[k].have <= Len(Inbox(k)')
      OBVIOUS
    <3>1. proto'[k] = proto[k] /\ Waiting(k)
      BY <1>1, <1>4, WaitingFacts, EndsFacts DEF Typed, Scalars, Waiting
    <3>2. Inbox(k)' = Inbox(k)
      BY <3>1, <1>5, EndsFacts, SideFacts DEF Inbox, Conn
    <3> QED
      BY <3>1, <3>2, EndsFacts DEF Typed, Buffers
  <2>5. Waiting(0)' => proto'[0].have <= Len(Inbox(0)')
    <3> SUFFICES ASSUME Waiting(0)' PROVE proto'[0].have <= Len(Inbox(0)')
      OBVIOUS
    <3>1. proto'[0] = p
      BY <1>4, WaitingFacts
    <3>2. Inbox(0)' = wire["client"][c] /\ wire["client"][c] \in Seq(Voice("client"))
      BY <1>1, <1>2, <3>1, <1>5, EndsFacts, SideFacts, WireOf DEF Inbox, Conn, Sides, Typed
    <3> QED
      BY <3>1, <3>2, <1>2
  <2>6. Waiting(Server)' => proto'[Server].have <= Len(Inbox(Server)')
    <3> SUFFICES ASSUME Waiting(Server)' PROVE proto'[Server].have <= Len(Inbox(Server)')
      OBVIOUS
    <3>1. proto'[Server] = proto[Server] /\ Waiting(Server)
      BY <1>1, <1>4, WaitingFacts, EndsFacts DEF Waiting, Send
    <3>2. Conn(Server) \in Calls
      BY <3>1, WaitingFacts DEF Typed, Owners, Calls, None
    <3>3. Inbox(Server)' = wire'["server"][Conn(Server)] /\ Inbox(Server) = wire["server"][Conn(Server)]
      BY <3>1, SideFacts DEF Inbox, Conn
    <3>4. Len(wire["server"][Conn(Server)]) <= Len(wire'["server"][Conn(Server)])
      <4>1. CASE Conn(Server) = c /\ ~Reset(c)
        <5>1. Message(made, CallLen[made]) \in Seq(Voice("server"))
              /\ wire["server"][c] \in Seq(Voice("server"))
          BY <1>1, MessageType, TypedFacts DEF Voice
        <5>2. Len(wire["server"][c]) <= Len(wire["server"][c] \o Message(made, CallLen[made]))
          BY <5>1, Longer
        <5> QED
          BY <1>5, <4>1, <5>2 DEF Conn
      <4>2. CASE Conn(Server) # c \/ Reset(c)
        <5>1. wire'["server"][Conn(Server)] = wire["server"][Conn(Server)]
          BY <1>5, <3>2, <4>2 DEF Conn
        <5> QED
          BY <5>1, <3>2, TypedFacts
      <4> QED
        BY <4>1, <4>2
    <3>5. proto[Server].have \in Nat
      BY EndsFacts, Fields DEF Typed, IsFamily
    <3>6. Len(wire["server"][Conn(Server)]) \in Nat /\ Len(wire'["server"][Conn(Server)]) \in Nat
      BY <1>5, <3>2, WireOf DEF Typed, Sides
    <3> QED
      BY <3>1, <3>3, <3>4, <3>5, <3>6, EndsFacts DEF Typed, Buffers
  <2> QED
    BY <2>2, <2>3, <2>4, <2>5, <2>6, EndsFacts DEF Buffers
<1>9. Typed'
  BY <1>4, <1>5, <1>6, <1>7, <1>8 DEF Typed
<1> QED
  BY <1>1, <1>3, <1>4, <1>5, <1>9 DEF Conn, p

\* What closing a connection at the client changes.
LEMMA CloseEffect ==
  ASSUME Typed, NEW c \in Calls, Close(c)
  PROVE  /\ IsWire(wire') /\ wire'["server"] = wire["server"] /\ wire'["client"][c] = << >>
         /\ \A d \in Calls \ {c} : wire'["client"][d] = wire["client"][d]
         /\ near' = [near EXCEPT ![c] = "closed"]
<1>1. << >> \in Seq(Voice("client"))
  OBVIOUS
<1>2. PICK v \in Seq(Voice("client")) : v = << >> /\ wire' = [wire EXCEPT !["client"][c] = v]
  BY <1>1 DEF Close
<1>3. /\ IsWire(wire') /\ wire'["server"] = wire["server"] /\ wire'["client"][c] = v
      /\ \A d \in Calls \ {c} : wire'["client"][d] = wire["client"][d]
  BY <1>2 DEF Typed, IsWire, Sides
<1> QED
  BY <1>2, <1>3 DEF Close

\* What every step that ends a client's wait does to the other ends.
LEMMA TypedLeaves ==
  ASSUME Typed, NEW e \in Clients, Waiting(e), LeaveOpen(e) \/ LeaveClosed(e), Leave(e),
         UNCHANGED <<persistent, made, kind, server, far, served>>, timedout' \in BOOLEAN,
         result' \in [Calls -> {"none", "threw", "transmitted", "response"}],
         answer' \in [Calls -> 0..MaxCalls]
  PROVE  /\ Typed'
         /\ \A d \in Ends \ {e} : proto'[d] = proto[d]
         /\ IF e = 0 THEN Conn(0)' \in {Conn(0), None} ELSE Conn(e)' = None
         /\ wire'["server"] = wire["server"]
         /\ \A d \in Calls \ {Conn(e)} : wire'["client"][d] = wire["client"][d]
         /\ wire'["client"][Conn(e)] \in {wire["client"][Conn(e)], << >>}
         /\ near' \in {near, [near EXCEPT ![Conn(e)] = "closed"]}
         /\ IF e = 0 THEN main' = "idle" /\ thread' = thread
            ELSE main' = main /\ thread' = [thread EXCEPT ![e] = "ended"]
<1> DEFINE c == Conn(e)
<1>1. c \in Calls /\ e \in Ends /\ e # Server
      /\ proto[e] \in Protocols(LettersOf(e)) /\ IsFamily(proto)
  BY TypedFacts, EndsFacts DEF Typed
<1>2. PICK q \in Protocols(LettersOf(e)) :
        /\ q.have <= proto[e].have /\ IF e = 0 THEN q.conn \in {c, None} ELSE q.conn = None
        /\ proto' = [proto EXCEPT ![e] = q] \/ (proto' = proto /\ q = proto[e])
  <2>1. CASE UNCHANGED <<near, wire, proto>> /\ e = 0
    <3>1. proto[e].have \in Nat
      BY <1>1, TypedFacts
    <3> QED
      BY <1>1, <2>1, <3>1 DEF Conn
  <2>2. CASE LeaveClosed(e) /\ e = 0
    <3>1. [proto[e] EXCEPT !.conn = None] \in Protocols(LettersOf(e))
          /\ [proto[e] EXCEPT !.conn = None].conn = None
          /\ [proto[e] EXCEPT !.conn = None].have = proto[e].have /\ proto[e].have \in Nat
      BY <1>1 DEF Protocols, None
    <3>2. proto' = [proto EXCEPT ![e] = [proto[e] EXCEPT !.conn = None]]
      BY <2>2 DEF LeaveClosed
    <3> [proto[e] EXCEPT !.conn = None] \in Protocols(LettersOf(e))
      BY <3>1
    <3> WITNESS [proto[e] EXCEPT !.conn = None] \in Protocols(LettersOf(e))
    <3> QED
      BY <2>2, <3>1, <3>2
  <2>3. CASE LeaveClosed(e) /\ e # 0
    <3>1. proto' = [proto EXCEPT ![e] = NewProtocol]
      BY <2>3 DEF LeaveClosed
    <3>2. proto[e].have \in Nat
      BY <1>1, TypedFacts
    <3>3. NewProtocol \in Protocols(LettersOf(e)) /\ NewProtocol.conn = None /\ NewProtocol.have = 0
      BY NewProtocolType
    <3> NewProtocol \in Protocols(LettersOf(e))
      BY <3>3
    <3> WITNESS NewProtocol \in Protocols(LettersOf(e))
    <3> QED
      BY <2>3, <3>1, <3>2, <3>3
  <2> QED
    BY <2>1, <2>2, <2>3 DEF LeaveOpen
<1>3. /\ IsFamily(proto') /\ \A d \in Ends \ {e} : proto'[d] = proto[d]
      /\ proto'[e] = q
  BY <1>1, <1>2 DEF IsFamily
<1>4. /\ IsWire(wire') /\ wire'["server"] = wire["server"]
      /\ \A d \in Calls \ {c} : wire'["client"][d] = wire["client"][d]
      /\ wire'["client"][c] \in {wire["client"][c], << >>}
      /\ near' \in {near, [near EXCEPT ![c] = "closed"]}
  <2>1. CASE UNCHANGED <<near, wire, proto>>
    BY <2>1 DEF Typed
  <2>2. CASE Close(c)
    BY <1>1, <2>2, CloseEffect
  <2> QED
    BY <2>1, <2>2 DEF LeaveOpen, LeaveClosed
<1>5. IF e = 0 THEN main' = "idle" /\ thread' = thread
      ELSE main' = main /\ thread' = [thread EXCEPT ![e] = "ended"]
  BY DEF Leave
<1>6. Scalars'
  <2>1. main' \in {"idle", "opened", "waiting", "ended"}
        /\ thread' \in [Calls -> {"none", "created", "waiting", "ended"}]
        /\ near' \in [Calls -> {"none", "unconnected", "open", "closed"}]
    BY <1>4, <1>5 DEF Typed, Scalars
  <2>2. pending' \in Nat
    BY DEF Leave, Typed, Scalars
  <2> QED
    BY <2>1, <2>2 DEF Typed, Scalars
<1>7. \A d \in Ends \ {e} : Conn(d)' = Conn(d)
  BY <1>3 DEF Conn
<1>8. IF e = 0 THEN Conn(0)' \in {Conn(0), None} ELSE Conn(e)' = None
  BY <1>2, <1>3, <1>1 DEF Conn
<1>9. Owners'
  <2>1. made' = made /\ server' = server /\ Conn(Server)' = Conn(Server) /\ Owners
        /\ made \in Nat /\ 0 \in 0..made
    BY <1>1, <1>7, EndsFacts, TypedFacts DEF Typed
  <2>2. \A d \in Clients : Conn(d)' = Conn(d) \/ Conn(d)' = None
    BY <1>7, <1>8, EndsFacts
  <2>3. \A d \in Clients : Conn(d)' \in 0..made
    BY <2>1, <2>2 DEF Owners, None
  <2>4. \A d, f \in Clients : d # f /\ Conn(d)' # None => Conn(d)' # Conn(f)'
    BY <2>1, <2>2 DEF Owners
  <2>5. main' \in {"opened", "waiting"} => Conn(0)' # None /\ made # 0
    BY <1>5, <1>7, <2>1, EndsFacts DEF Owners
  <2>6. \A k \in Calls : IF thread'[k] \in {"created", "waiting"} THEN Conn(k)' # None /\ k <= made
                         ELSE Conn(k)' = None
    <3>1. CASE e = 0
      BY <1>5, <1>7, <2>1, <3>1, EndsFacts DEF Owners
    <3>2. CASE e # 0
      <4>1. e \in Calls /\ thread'[e] = "ended" /\ \A k \in Calls \ {e} : thread'[k] = thread[k]
        BY <1>5, <3>2, EndsFacts DEF Typed, Scalars
      <4> QED
        BY <1>7, <1>8, <2>1, <3>2, <4>1, EndsFacts DEF Owners
    <3> QED
      BY <3>1, <3>2
  <2> QED
    BY <2>1, <2>3, <2>4, <2>5, <2>6 DEF Owners
<1>10. ~Waiting(e)' /\ \A d \in Ends \ {e} : Waiting(d)' <=> Waiting(d)
  <2>1. CASE e = 0
    BY <1>5, <2>1, EndsFacts, WaitingFacts
  <2>2. CASE e # 0
    <3>1. e \in Calls /\ thread'[e] = "ended" /\ \A k \in Calls \ {e} : thread'[k] = thread[k]
      BY <1>5, <2>2, EndsFacts DEF Typed, Scalars
    <3> QED
      BY <1>5, <3>1, EndsFacts, WaitingFacts
  <2> QED
    BY <2>1, <2>2
<1>11. \A d \in Ends \ {e} : Waiting(d) => Inbox(d)' = Inbox(d)
  <2>1. \A d \in Clients \ {e} : Waiting(d) => Conn(d) \in Calls \ {c}
    BY TypedFacts, EndsFacts, <1>1 DEF Typed, Owners, None
  <2>2. \A d \in Clients \ {e} : Waiting(d) => Inbox(d)' = Inbox(d)
    BY <1>4, <1>7, <2>1, EndsFacts, SideFacts DEF Inbox
  <2>3. Inbox(Server)' = Inbox(Server)
    BY <1>1, <1>4, <1>7, EndsFacts, SideFacts DEF Inbox
  <2> QED
    BY <2>2, <2>3, EndsFacts
<1>12. Buffers'
  <2>1. \A d \in Ends : proto'[d].have <= proto[d].have /\ proto[d].have \in Nat /\ proto'[d].have \in Nat
    <3>1. q.have \in Nat
      BY Fields
    <3> QED
      BY <1>2, <1>3, <3>1, TypedFacts
  <2>2. \A d \in Ends : proto'[d].have <= Buffer
    BY <2>1, BufferAssumption DEF Typed, Buffers
  <2>3. \A k \in Calls : thread'[k] = "created" => thread[k] = "created" /\ (k # e)
    BY <1>5, EndsFacts DEF Typed, Scalars, Waiting
  <2>4. \A k \in Calls : thread'[k] = "created" => proto'[k].have = 0
    BY <1>3, <2>3, EndsFacts DEF Typed, Buffers
  <2>5. \A d \in Ends : Waiting(d)' => proto'[d].have <= Len(Inbox(d)')
    BY <1>3, <1>10, <1>11 DEF Typed, Buffers
  <2> QED
    BY <2>2, <2>4, <2>5 DEF Buffers
<1> QED
  BY <1>3, <1>4, <1>5, <1>6, <1>8, <1>9, <1>12 DEF Typed

\* A call that has a response, or throws, leaves the loop.
LEMMA TypedRespond ==
  ASSUME Typed, NEW e \in Clients, Respond(e)
  PROVE  /\ Typed' /\ Waiting(e) /\ (LeaveOpen(e) \/ LeaveClosed(e)) /\ Leave(e)
         /\ CallOf(e) \in Calls
         /\ \/ /\ Whole(proto[e].data)
               /\ result' = [result EXCEPT ![CallOf(e)] = "response"]
               /\ answer' = [answer EXCEPT ![CallOf(e)] = proto[e].data[1].msg]
            \/ result' = [result EXCEPT ![CallOf(e)] = "threw"] /\ answer' = answer
         /\ UNCHANGED <<persistent, made, kind, server, far, served, timedout>>
         /\ result' \in [Calls -> {"none", "threw", "transmitted", "response"}]
         /\ answer' \in [Calls -> 0..MaxCalls]
<1>1. Waiting(e) /\ (LeaveOpen(e) \/ LeaveClosed(e)) /\ Leave(e)
  BY DEF Respond, Complete
<1>2. CallOf(e) \in Calls
  BY <1>1, TypedFacts, EndsFacts, WaitingFacts DEF CallOf
<1>3. /\ \/ /\ Whole(proto[e].data)
            /\ result' = [result EXCEPT ![CallOf(e)] = "response"]
            /\ answer' = [answer EXCEPT ![CallOf(e)] = proto[e].data[1].msg]
         \/ result' = [result EXCEPT ![CallOf(e)] = "threw"] /\ answer' = answer
      /\ UNCHANGED <<persistent, made, kind, server, far, served, timedout>>
  BY DEF Respond, history
<1>4. Whole(proto[e].data) => proto[e].data[1].msg \in Calls
  <2>1. proto[e].data \in Seq(LettersOf(e))
    BY TypedFacts, EndsFacts, Fields
  <2>2. Whole(proto[e].data) => proto[e].data[1] \in LettersOf(e)
    BY <2>1 DEF Whole
  <2> QED
    BY <2>2, LetterFacts, EndsFacts
<1>5. result' \in [Calls -> {"none", "threw", "transmitted", "response"}]
  BY <1>2, <1>3 DEF Typed, Scalars
<1>6. answer' \in [Calls -> 0..MaxCalls]
  <2>1. Calls \subseteq 0..MaxCalls /\ answer \in [Calls -> 0..MaxCalls]
    BY DEF Calls, Typed, Scalars
  <2> QED
    BY <1>2, <1>3, <1>4, <2>1
<1>7. timedout' \in BOOLEAN
  BY <1>3 DEF Typed, Scalars
<1>8. Typed'
  BY <1>1, <1>3, <1>5, <1>6, <1>7, TypedLeaves
<1> QED
  BY <1>1, <1>2, <1>3, <1>5, <1>6, <1>8

\* A call that times out or loses its connection throws and leaves the loop.
LEMMA TypedGivesUp ==
  ASSUME Typed, NEW e \in Clients, Timeout(e) \/ ReadFails(e)
  PROVE  /\ Typed' /\ Waiting(e) /\ (LeaveOpen(e) \/ LeaveClosed(e)) /\ Leave(e)
         /\ CallOf(e) \in Calls
         /\ result' = [result EXCEPT ![CallOf(e)] = "threw"] /\ answer' = answer
         /\ UNCHANGED <<persistent, made, kind, server, far, served>>
         /\ timedout' \in BOOLEAN
         /\ result' \in [Calls -> {"none", "threw", "transmitted", "response"}]
         /\ answer' \in [Calls -> 0..MaxCalls]
<1>1. Waiting(e) /\ (LeaveOpen(e) \/ LeaveClosed(e)) /\ Leave(e)
  BY DEF Timeout, ReadFails, WantsMore, Threw
<1>2. CallOf(e) \in Calls
  BY <1>1, TypedFacts, EndsFacts, WaitingFacts DEF CallOf
<1>3. /\ result' = [result EXCEPT ![CallOf(e)] = "threw"] /\ answer' = answer
      /\ UNCHANGED <<persistent, made, kind, server, far, served>>
      /\ timedout' \in BOOLEAN
  BY DEF Timeout, ReadFails, Threw, Typed, Scalars
<1>4. result' \in [Calls -> {"none", "threw", "transmitted", "response"}] /\ answer' \in [Calls -> 0..MaxCalls]
  BY <1>2, <1>3 DEF Typed, Scalars
<1>5. Typed'
  BY <1>1, <1>3, <1>4, TypedLeaves
<1> QED
  BY <1>1, <1>2, <1>3, <1>4, <1>5

\* A call that cannot be written throws; the connection may be kept.
LEMMA TypedSendFails ==
  ASSUME Typed, SendFails
  PROVE  /\ Typed'
         /\ made \in Calls /\ Conn(0) \in Calls
         /\ \A d \in Ends \ {0} : proto'[d] = proto[d]
         /\ Conn(0)' \in {Conn(0), None}
         /\ wire'["server"] = wire["server"]
         /\ \A d \in Calls \ {Conn(0)} : wire'["client"][d] = wire["client"][d]
         /\ wire'["client"][Conn(0)] \in {wire["client"][Conn(0)], << >>}
         /\ \/ near' = near
            \/ near' = [near EXCEPT ![Conn(0)] = "closed"]
               /\ (near[Conn(0)] = "unconnected" \/ far[Conn(0)] = "reset")
<1> DEFINE c == Conn(0)
<1>1. made \in Calls /\ c \in Calls /\ proto[0] \in Protocols(LettersOf(0)) /\ IsFamily(proto)
  BY TypedFacts, EndsFacts DEF Typed, SendFails
<1>2. [proto[0] EXCEPT !.conn = None] \in Protocols(LettersOf(0))
      /\ [proto[0] EXCEPT !.conn = None].conn = None
      /\ [proto[0] EXCEPT !.conn = None].have = proto[0].have
  BY <1>1 DEF Protocols, None
<1>3. /\ IsFamily(proto') /\ proto'[0].have = proto[0].have
      /\ \A d \in Ends \ {0} : proto'[d] = proto[d]
      /\ Conn(0)' \in {Conn(0), None}
  <2>1. CASE proto' = proto
    BY <2>1, <1>1 DEF Conn
  <2>2. CASE proto' = [proto EXCEPT ![0].conn = None]
    <3>1. proto' = [proto EXCEPT ![0] = [proto[0] EXCEPT !.conn = None]]
      BY <2>2
    <3> QED
      BY <1>1, <1>2, <3>1, EndsFacts DEF IsFamily, Conn
  <2> QED
    BY <2>1, <2>2 DEF SendFails
<1>4. /\ IsWire(wire') /\ wire'["server"] = wire["server"]
      /\ \A d \in Calls \ {c} : wire'["client"][d] = wire["client"][d]
      /\ wire'["client"][c] \in {wire["client"][c], << >>}
      /\ near' = near \/ near' = [near EXCEPT ![c] = "closed"]
  <2>1. CASE UNCHANGED <<near, wire, proto>>
    BY <2>1 DEF Typed
  <2>2. CASE Close(c)
    BY <1>1, <2>2, CloseEffect
  <2> QED
    BY <2>1, <2>2 DEF SendFails
<1>5. \/ near' = near
      \/ near' = [near EXCEPT ![c] = "closed"] /\ (near[c] = "unconnected" \/ far[c] = "reset")
  BY DEF SendFails, Close
<1>6. Scalars'
  <2>1. near' \in [Calls -> {"none", "unconnected", "open", "closed"}]
    BY <1>4 DEF Typed, Scalars
  <2> QED
    BY <1>1, <2>1 DEF Typed, Scalars, SendFails, history
<1>7. Owners'
  <2>1. made' = made /\ server' = server /\ thread' = thread /\ main' = "idle" /\ Owners
        /\ made \in Nat /\ 0 \in 0..made
    BY <1>1, TypedFacts DEF Typed, SendFails
  <2>2. \A d \in Ends \ {0} : Conn(d)' = Conn(d)
    BY <1>3 DEF Conn
  <2>3. \A d \in Clients : Conn(d)' = Conn(d) \/ Conn(d)' = None
    BY <1>3, <2>2, EndsFacts
  <2>4. None \in 0..made
    BY <2>1 DEF None
  <2>5. \A d \in Clients : Conn(d)' \in 0..made'
    BY <2>1, <2>3, <2>4 DEF Owners
  <2>6. \A d, f \in Clients : d # f /\ Conn(d)' # None => Conn(d)' # Conn(f)'
    BY <2>1, <2>3 DEF Owners
  <2>7. Conn(Server)' = Conn(Server)
    BY <2>2, EndsFacts
  <2>8. \A k \in Calls : Conn(k)' = Conn(k)
    BY <2>2, EndsFacts
  <2> QED
    BY <2>1, <2>5, <2>6, <2>7, <2>8 DEF Owners
<1>8. Buffers'
  <2>1. thread' = thread /\ ~Waiting(0)' /\ \A d \in Ends \ {0} : Waiting(d)' <=> Waiting(d)
    BY EndsFacts, WaitingFacts DEF SendFails
  <2>2. \A d \in Clients \ {0} : Waiting(d) => Conn(d) \in Calls \ {c}
    BY TypedFacts, EndsFacts, <1>1 DEF Typed, Owners, None
  <2> \A d \in Ends \ {0} : Conn(d)' = Conn(d)
    BY <1>3 DEF Conn
  <2>3. \A d \in Clients \ {0} : Waiting(d) => Inbox(d)' = Inbox(d)
    BY <1>4, <2>2, EndsFacts, SideFacts DEF Inbox
  <2>4. Inbox(Server)' = Inbox(Server)
    BY <1>1, <1>3, <1>4, EndsFacts, SideFacts DEF Inbox, Conn
  <2>5. \A d \in Ends \ {0} : Waiting(d)' => proto'[d].have <= Len(Inbox(d)')
    BY <1>3, <2>1, <2>3, <2>4, EndsFacts DEF Typed, Buffers
  <2>6. \A d \in Ends : proto'[d].have = proto[d].have
    BY <1>3
  <2>7. \A k \in Calls : thread'[k] = "created" => proto'[k].have = 0
    BY <2>1, <2>6, EndsFacts DEF Typed, Buffers
  <2>8. \A d \in Ends : proto'[d].have <= Buffer
    BY <2>6 DEF Typed, Buffers
  <2> QED
    BY <2>1, <2>5, <2>7, <2>8 DEF Buffers
<1> QED
  BY <1>1, <1>3, <1>4, <1>5, <1>6, <1>7, <1>8 DEF Typed

\* A call is written in part, and fails.
LEMMA TypedSendTimesOut ==
  ASSUME Typed, SendTimesOut
  PROVE  /\ Typed' /\ made \in Calls /\ Conn(0) \in Calls /\ main = "opened" /\ main' = "idle"
         /\ proto' = proto /\ timedout' /\ stalled' = stalled \cup {Conn(0)}
         /\ result' = [result EXCEPT ![made] = "threw"]
         /\ UNCHANGED <<persistent, made, kind, thread, pending, server, near, far, answer, via, served>>
         /\ wire'["client"] = wire["client"]
         /\ \A d \in Calls \ {Conn(0)} : wire'["server"][d] = wire["server"][d]
         /\ \E t \in Seq(Letters(CallLen)) :
              /\ wire'["server"][Conn(0)] = wire["server"][Conn(0)] \o t
              /\ \A i \in 1..Len(t) : t[i].msg = made
<1> DEFINE c == Conn(0)
<1>1. /\ main = "opened" /\ main' = "idle" /\ proto' = proto /\ timedout'
      /\ stalled' = stalled \cup {Conn(0)} /\ result' = [result EXCEPT ![made] = "threw"]
      /\ UNCHANGED <<persistent, made, kind, thread, pending, server, near, far, answer, via, served>>
  BY DEF SendTimesOut
<1>2. made \in Calls /\ c \in Calls
  BY <1>1, TypedFacts
<1>3. PICK t \in Seq(Letters(CallLen)) :
        /\ wire' = [wire EXCEPT !["server"][c] = wire["server"][c] \o t]
        /\ \A i \in 1..Len(t) : t[i].msg = made
  <2>1. PICK n \in Cuts, len \in 0..CallLen[made] :
          /\ n < HeaderLen + CallLen[made]
          /\ wire' = [wire EXCEPT !["server"][c] = wire["server"][c] \o Piece(made, n, len)]
    BY DEF SendTimesOut
  <2>2. n \in Nat
    BY CutsAssumption
  <2>3. PICK t \in Seq(Letters(CallLen)) :
          t = Piece(made, n, len) /\ Len(t) = n /\ \A i \in 1..n : t[i].msg = made
    BY <1>2, <2>1, <2>2, PieceType
  <2> QED
    BY <2>1, <2>3
<1>4. wire["server"][c] \in Seq(Voice("server")) /\ t \in Seq(Voice("server")) /\ IsWire(wire)
  BY <1>2, TypedFacts DEF Voice, Typed
<1>5. PICK v \in Seq(Voice("server")) :
        v = wire["server"][c] \o t /\ Len(wire["server"][c]) <= Len(v)
  BY <1>4, Longer
<1>6. /\ IsWire(wire') /\ wire'["client"] = wire["client"] /\ wire'["server"][c] = v
      /\ \A d \in Calls \ {c} : wire'["server"][d] = wire["server"][d]
  <2>1. wire' = [wire EXCEPT !["server"][c] = v]
    BY <1>3, <1>5
  <2> QED
    BY <1>2, <1>4, <2>1 DEF IsWire, Sides
<1>7. Scalars'
  <2>1. timedout' = TRUE
    BY DEF SendTimesOut
  <2> QED
    BY <1>1, <1>2, <2>1 DEF Typed, Scalars
<1>8. Owners'
  BY <1>1 DEF Typed, Owners, Conn
<1>9. Buffers'
  <2>1. \A e \in Ends : (Waiting(e)' <=> Waiting(e)) /\ Conn(e)' = Conn(e)
    BY <1>1, EndsFacts, WaitingFacts DEF Conn
  <2>2. ASSUME NEW e \in Ends, Waiting(e) PROVE proto'[e].have <= Len(Inbox(e)')
    <3>1. Conn(e) \in Calls /\ proto[e].have \in Nat /\ proto[e].have <= Len(Inbox(e))
      BY <2>2, TypedFacts DEF Typed, Buffers
    <3>2. CASE e \in Clients
      <4>1. Inbox(e)' = Inbox(e)
        BY <1>6, <2>1, <3>2, SideFacts DEF Inbox
      <4> QED
        BY <1>1, <3>1, <4>1
    <3>3. CASE e = Server
      <4>1. Inbox(e)' = wire'["server"][Conn(e)] /\ Inbox(e) = wire["server"][Conn(e)]
        BY <2>1, <3>3, SideFacts DEF Inbox
      <4>2. Len(wire["server"][Conn(e)]) \in Nat
        BY <3>1, TypedFacts
      <4>3. CASE Conn(e) = c
        <5>1. Len(v) \in Nat
          OBVIOUS
        <5> HIDE DEF c
        <5> QED
          BY <1>1, <1>5, <1>6, <3>1, <4>1, <4>2, <4>3, <5>1
      <4>4. CASE Conn(e) # c
        BY <1>1, <1>6, <3>1, <4>1, <4>4
      <4> QED
        BY <4>3, <4>4
    <3> QED
      BY <3>2, <3>3, EndsFacts
  <2> QED
    BY <1>1, <2>1, <2>2 DEF Typed, Buffers
<1>10. Typed'
  BY <1>1, <1>6, <1>7, <1>8, <1>9 DEF Typed
<1> QED
  BY <1>1, <1>2, <1>3, <1>5, <1>6, <1>10

\* The machine consumes characters from the front of its own stream only.
LEMMA TypedMachine ==
  ASSUME Typed, NEW e \in Ends, Machine(e)
  PROVE  /\ Typed'
         /\ Waiting(e) /\ Busy(proto[e]) /\ Conn(e) \in Calls /\ Conn(e)' = Conn(e)
         /\ proto'[e] = connectionMachine(proto[e], Inbox(e))
         /\ proto'[e].have \in Nat /\ proto'[e].have <= proto[e].have
         /\ \/ proto'[e].data = proto[e].data
            \/ /\ proto'[e].data = proto[e].data \o SubSeq(Inbox(e), 1, proto[e].have)
               /\ proto'[e].have = 0
         /\ \A d \in Ends \ {e} : proto'[d] = proto[d]
         /\ Inbox(e)' = SubSeq(Inbox(e), proto[e].have - proto'[e].have + 1, Len(Inbox(e)))
         /\ \A d \in Calls \ {Conn(e)} : wire'[Side(e)][d] = wire[Side(e)][d]
         /\ \A s \in Sides \ {Side(e)} : wire'[s] = wire[s]
<1> DEFINE c == Conn(e)
           q == connectionMachine(proto[e], Inbox(e))
           v == SubSeq(Inbox(e), proto[e].have - q.have + 1, Len(Inbox(e)))
<1>1. /\ Waiting(e) /\ Busy(proto[e]) /\ c \in Calls /\ Side(e) \in Sides
      /\ proto[e] \in Protocols(LettersOf(e)) /\ IsFamily(proto) /\ IsWire(wire)
      /\ proto[e].have \in Nat /\ proto[e].have <= Len(Inbox(e))
  BY TypedFacts, SideFacts DEF Typed, Machine, Buffers
<1>2. Inbox(e) \in Seq(LettersOf(e)) /\ Len(Inbox(e)) \in Nat
  BY <1>1, WireOf, SideFacts DEF Inbox
<1>3. /\ q \in Protocols(LettersOf(e)) /\ q.conn = c /\ q.have <= proto[e].have /\ q.have \in Nat
      /\ \/ q.data = proto[e].data
         \/ q.data = proto[e].data \o SubSeq(Inbox(e), 1, proto[e].have) /\ q.have = 0
  <2>1. \A t \in LettersOf(e) : t.body \in Nat
    BY LetterFacts
  <2>2. /\ q \in Protocols(LettersOf(e)) /\ q.conn = proto[e].conn /\ q.have <= proto[e].have
        /\ \/ q.data = proto[e].data
           \/ q.data = proto[e].data \o SubSeq(Inbox(e), 1, proto[e].have) /\ q.have = 0
    BY <1>1, <1>2, <2>1, MachineType
  <2> HIDE DEF q
  <2> QED
    BY <2>2, Fields DEF Conn
<1>4. proto' = [proto EXCEPT ![e] = q] /\ wire' = [wire EXCEPT ![Side(e)][c] = v]
  BY DEF Machine, Inbox
<1> HIDE DEF q
<1>5. v \in Seq(Voice(Side(e))) /\ q.have <= Len(v)
  BY <1>1, <1>2, <1>3, SideFacts
<1> HIDE DEF v
<1>6. IsFamily(proto') /\ proto'[e] = q /\ \A d \in Ends \ {e} : proto'[d] = proto[d]
  BY <1>1, <1>3, <1>4 DEF IsFamily
<1>7. /\ IsWire(wire') /\ wire'[Side(e)][c] = v
      /\ \A d \in Calls \ {c} : wire'[Side(e)][d] = wire[Side(e)][d]
      /\ \A s \in Sides \ {Side(e)} : wire'[s] = wire[s]
  BY <1>1, <1>4, <1>5 DEF IsWire
<1>8. \A d \in Ends : Conn(d)' = Conn(d)
  BY <1>3, <1>6 DEF Conn
<1>9. Inbox(e)' = v
  BY <1>7, <1>8 DEF Inbox
<1>10. UNCHANGED <<persistent, made, kind, main, thread, pending, server, near, far, result, answer,
                   served, timedout>>
  BY DEF Machine, program, history
<1>11. Scalars'
  BY <1>10 DEF Typed, Scalars
<1>12. Owners'
  BY <1>8, <1>10, EndsFacts DEF Typed, Owners
<1>13. Buffers'
  <2>1. \A d \in Ends : Waiting(d)' <=> Waiting(d)
    BY <1>10, EndsFacts, WaitingFacts
  <2>2. \A d \in Ends \ {e} : Waiting(d) => Inbox(d)' = Inbox(d)
    <3> SUFFICES ASSUME NEW d \in Ends \ {e}, Waiting(d) PROVE Inbox(d)' = Inbox(d)
      OBVIOUS
    <3>1. Conn(d) \in Calls /\ Side(d) \in Sides
      BY TypedFacts, SideFacts
    <3>2. Side(d) = Side(e) => Conn(d) # c
      <4>1. Side(d) = Side(e) => d \in Clients /\ e \in Clients
        BY EndsFacts, SideFacts
      <4> QED
        BY <4>1, <1>1, <3>1, EndsFacts DEF Typed, Owners, None
    <3> QED
      BY <1>7, <1>8, <3>1, <3>2 DEF Inbox
  <2>3. \A d \in Ends : proto'[d].have <= Buffer
    <3>1. q.have <= Buffer
      BY <1>1, <1>3, BufferAssumption DEF Typed, Buffers
    <3> QED
      BY <3>1, <1>6 DEF Typed, Buffers
  <2>4. \A k \in Calls : thread'[k] = "created" => proto'[k].have = 0
    <3>1. \A k \in Calls : thread[k] = "created" => k # e
      BY <1>1, WaitingFacts, EndsFacts
    <3> QED
      BY <1>6, <1>10, <3>1, EndsFacts DEF Typed, Buffers
  <2>5. \A d \in Ends : Waiting(d)' => proto'[d].have <= Len(Inbox(d)')
    BY <1>5, <1>6, <1>9, <2>1, <2>2 DEF Typed, Buffers
  <2> QED
    BY <2>3, <2>4, <2>5 DEF Buffers
<1>14. Typed'
  BY <1>6, <1>7, <1>11, <1>12, <1>13 DEF Typed
<1> QED
  BY <1>1, <1>3, <1>6, <1>7, <1>8, <1>9, <1>14 DEF q, v

\* A read fills the buffer with what the stream holds.
LEMMA TypedRead ==
  ASSUME Typed, NEW e \in Ends, Read(e)
  PROVE  /\ Typed'
         /\ Waiting(e) /\ Conn(e) \in Calls
         /\ \A d \in Ends : Conn(d)' = Conn(d) /\ proto'[d].data = proto[d].data
         /\ \A d \in Ends \ {e} : proto'[d] = proto[d]
         /\ \E n \in 1..Len(Inbox(e)) : n <= ReadLimit(proto[e]) /\ proto'[e] = readRaw(proto[e], n)
<1>1. /\ Waiting(e) /\ Conn(e) \in Calls
      /\ proto[e] \in Protocols(LettersOf(e)) /\ IsFamily(proto) /\ IsWire(wire)
  BY TypedFacts DEF Typed, Read, WantsMore
<1>2. PICK n \in 1..Len(Inbox(e)) :
        n <= ReadLimit(proto[e]) /\ proto' = [proto EXCEPT ![e] = readRaw(proto[e], n)]
  BY DEF Read
<1> DEFINE q == readRaw(proto[e], n)
<1>3. n \in Nat /\ n <= Len(Inbox(e)) /\ n <= Buffer
  <2>1. Inbox(e) \in Seq(LettersOf(e))
    BY <1>1, WireOf, SideFacts DEF Inbox
  <2>2. ReadLimit(proto[e]) \in Nat /\ ReadLimit(proto[e]) <= Buffer
    BY <1>1, ReadLimitBound
  <2> QED
    BY <1>2, <2>1, <2>2, BufferAssumption
<1>4. q \in Protocols(LettersOf(e)) /\ q.conn = proto[e].conn /\ q.have = n /\ q.data = proto[e].data
  BY <1>1, <1>3, ReadType
<1> HIDE DEF q
<1>5. IsFamily(proto') /\ proto'[e] = q /\ \A d \in Ends \ {e} : proto'[d] = proto[d]
  BY <1>1, <1>2, <1>4 DEF IsFamily, q
<1>6. \A d \in Ends : Conn(d)' = Conn(d) /\ proto'[d].data = proto[d].data
  BY <1>4, <1>5 DEF Conn
<1>7. UNCHANGED <<persistent, made, kind, main, thread, pending, server, wire, near, far, result, answer,
                  served, timedout>>
  BY DEF Read, program, history, links
<1>8. Scalars'
  BY <1>7 DEF Typed, Scalars
<1>9. Owners'
  BY <1>6, <1>7, EndsFacts DEF Typed, Owners
<1>10. Buffers'
  <2>1. \A d \in Ends : (Waiting(d)' <=> Waiting(d)) /\ Inbox(d)' = Inbox(d)
    BY <1>6, <1>7, EndsFacts, WaitingFacts DEF Inbox
  <2>2. \A d \in Ends : proto'[d].have <= Buffer /\ (Waiting(d) => proto'[d].have <= Len(Inbox(d)))
    BY <1>3, <1>4, <1>5 DEF Typed, Buffers
  <2>3. \A k \in Calls : thread[k] = "created" => k # e
    BY <1>1, WaitingFacts, EndsFacts
  <2>4. \A k \in Calls : thread'[k] = "created" => proto'[k].have = 0
    BY <1>5, <1>7, <2>3, EndsFacts DEF Typed, Buffers
  <2> QED
    BY <2>1, <2>2, <2>4 DEF Buffers
<1>11. Typed'
  BY <1>1, <1>5, <1>7, <1>8, <1>9, <1>10 DEF Typed
<1> QED
  BY <1>1, <1>2, <1>5, <1>6, <1>11 DEF q

\* Every close by the server, of the connections cs: what is left unread at
\* them goes, and at the one accepted last the end of what was written.
LEMMA ShutEffect ==
  ASSUME Typed, NEW cs \in SUBSET Calls, Shut(cs), Conn(Server) \in Calls
  PROVE  /\ IsWire(wire')
         /\ far' \in [Calls -> {"none", "backlog", "open", "closed", "reset"}]
         /\ \A d \in Calls : IF d \in cs THEN far'[d] \in {"closed", "reset"} ELSE far'[d] = far[d]
         /\ \A d \in Calls : wire'["server"][d] = IF d \in cs THEN << >> ELSE wire["server"][d]
         /\ \A d \in Calls \ {Conn(Server)} : wire'["client"][d] = wire["client"][d]
         /\ \E n \in Nat : /\ n <= Len(wire["client"][Conn(Server)])
                           /\ \A e \in Clients : Conn(e) = Conn(Server) => proto[e].have <= n
                           /\ wire'["client"][Conn(Server)] = SubSeq(wire["client"][Conn(Server)], 1, n)
<1> DEFINE c == Conn(Server)
<1>1. Taken(c) \in Nat /\ \A e \in Clients : Conn(e) = c => proto[e].have = Taken(c)
  <2>1. CASE \E e \in Clients : Conn(e) = c
    <3> DEFINE f == CHOOSE e \in Clients : Conn(e) = c
    <3>1. f \in Clients /\ Conn(f) = c
      BY <2>1
    <3>2. Taken(c) = proto[f].have
      BY <2>1 DEF Taken
    <3> HIDE DEF f
    <3>3. \A e \in Clients : Conn(e) = c => e = f
      BY <3>1, EndsFacts DEF Typed, Owners, None
    <3>4. proto[f].have \in Nat
      BY <3>1, TypedFacts, EndsFacts
    <3> QED
      BY <3>2, <3>3, <3>4
  <2>2. CASE ~\E e \in Clients : Conn(e) = c
    BY <2>2 DEF Taken
  <2> QED
    BY <2>1, <2>2
<1>2. PICK n \in Taken(c)..Len(wire["client"][c]) :
        wire' = [client |-> [wire["client"] EXCEPT ![c] = SubSeq(@, 1, n)],
                 server |-> [d \in Calls |-> IF d \in cs THEN << >> ELSE wire["server"][d]]]
  BY DEF Shut
<1>3. /\ wire["client"][c] \in Seq(Voice("client")) /\ Len(wire["client"][c]) \in Nat
      /\ wire["client"] \in [Calls -> Seq(Voice("client"))]
      /\ wire["server"] \in [Calls -> Seq(Voice("server"))]
  BY TypedFacts DEF Typed, IsWire, Sides
<1>4. n \in Nat /\ n <= Len(wire["client"][c]) /\ Taken(c) <= n
  BY <1>1, <1>3
<1>5. SubSeq(wire["client"][c], 1, n) \in Seq(Voice("client"))
  BY <1>3, <1>4
<1> DEFINE a == [wire["client"] EXCEPT ![c] = SubSeq(@, 1, n)]
           b == [d \in Calls |-> IF d \in cs THEN << >> ELSE wire["server"][d]]
<1>6. /\ a \in [Calls -> Seq(Voice("client"))] /\ a[c] = SubSeq(wire["client"][c], 1, n)
      /\ \A d \in Calls \ {c} : a[d] = wire["client"][d]
  BY <1>3, <1>5
<1>7. b \in [Calls -> Seq(Voice("server"))]
      /\ \A d \in Calls : b[d] = IF d \in cs THEN << >> ELSE wire["server"][d]
  <2>1. << >> \in Seq(Voice("server"))
    OBVIOUS
  <2> QED
    BY <1>3, <2>1
<1> HIDE DEF a, b
<1>8. wire' = [client |-> a, server |-> b]
  BY <1>2 DEF a, b
<1>9. IsWire(wire') /\ wire'["client"] = a /\ wire'["server"] = b
  BY <1>6, <1>7, <1>8 DEF IsWire, Sides
<1>10. far' = [d \in Calls |-> IF d \notin cs THEN far[d]
                               ELSE IF wire["server"][d] = << >> THEN "closed" ELSE "reset"]
  BY DEF Shut
<1>11. /\ far' \in [Calls -> {"none", "backlog", "open", "closed", "reset"}]
       /\ \A d \in Calls : IF d \in cs THEN far'[d] \in {"closed", "reset"} ELSE far'[d] = far[d]
  BY <1>10 DEF Typed, Scalars
<1> QED
  BY <1>1, <1>4, <1>6, <1>7, <1>9, <1>11

\* The server closes connections and frees its own protocol object.
LEMMA TypedShut ==
  ASSUME Typed, NEW cs \in SUBSET Calls, Shut(cs), Conn(Server) \in Calls,
         NEW q \in Protocols(LettersOf(Server)), q.conn = None, q.have <= Buffer,
         proto' = [proto EXCEPT ![Server] = q],
         server' \in {"accepting", "exited", "terminated"},
         UNCHANGED <<persistent, made, kind, main, thread, pending, near, result, answer>>,
         served' \in Seq(Calls), timedout' \in BOOLEAN
  PROVE  /\ Typed' /\ proto'[Server] = q
         /\ \A e \in Clients : proto'[e] = proto[e]
<1>1. IsFamily(proto') /\ proto'[Server] = q /\ \A e \in Clients : proto'[e] = proto[e]
  BY EndsFacts DEF Typed, IsFamily
<1>2. Scalars'
  BY ShutEffect DEF Typed, Scalars
<1>3. Conn(Server)' = None /\ \A e \in Clients : Conn(e)' = Conn(e)
  BY <1>1 DEF Conn
<1>4. Owners'
  <2>1. made' = made /\ main' = main /\ thread' = thread /\ Owners /\ 0 \in 0..MaxCalls
    BY MaxCallsAssumption DEF Typed
  <2> QED
    BY <1>3, <2>1, EndsFacts DEF Owners, None
<1>5. Buffers'
  <2>1. ~Waiting(Server)' /\ \A e \in Clients : Waiting(e)' <=> Waiting(e)
    BY EndsFacts, WaitingFacts
  <2>2. \A e \in Clients : Waiting(e) => proto[e].have <= Len(Inbox(e)')
    <3> SUFFICES ASSUME NEW e \in Clients, Waiting(e) PROVE proto[e].have <= Len(Inbox(e)')
      OBVIOUS
    <3>1. Conn(e) \in Calls /\ Inbox(e)' = wire'["client"][Conn(e)] /\ Inbox(e) = wire["client"][Conn(e)]
          /\ proto[e].have <= Len(Inbox(e)) /\ proto[e].have \in Nat
      BY <1>3, TypedFacts, EndsFacts, SideFacts DEF Inbox, Typed, Buffers
    <3>2. CASE Conn(e) # Conn(Server)
      BY <3>1, <3>2, ShutEffect
    <3>3. CASE Conn(e) = Conn(Server)
      <4>1. PICK n \in Nat :
              /\ n <= Len(wire["client"][Conn(e)]) /\ proto[e].have <= n
              /\ wire'["client"][Conn(e)] = SubSeq(wire["client"][Conn(e)], 1, n)
        BY <3>3, ShutEffect
      <4>2. wire["client"][Conn(e)] \in Seq(Voice("client")) /\ Len(wire["client"][Conn(e)]) \in Nat
        BY <3>1, TypedFacts
      <4>3. Len(SubSeq(wire["client"][Conn(e)], 1, n)) = n
        BY <4>1, <4>2
      <4> QED
        BY <3>1, <4>1, <4>3
    <3> QED
      BY <3>2, <3>3
  <2>3. \A e \in Ends : proto'[e].have <= Buffer
    BY <1>1, EndsFacts DEF Typed, Buffers
  <2>4. \A k \in Calls : thread'[k] = "created" => proto'[k].have = 0
    BY <1>1, EndsFacts DEF Typed, Buffers
  <2>5. \A e \in Ends : Waiting(e)' => proto'[e].have <= Len(Inbox(e)')
    BY <1>1, <2>1, <2>2, EndsFacts
  <2> QED
    BY <2>3, <2>4, <2>5 DEF Buffers
<1> QED
  BY <1>1, <1>2, <1>4, <1>5, ShutEffect DEF Typed

\* The server's program ends.
LEMMA TypedExit ==
  ASSUME Typed, server \in {"reading", "serving", "failing"}, NEW how \in {"exited", "terminated"}, Exit(how),
         served' \in Seq(Calls), timedout' \in BOOLEAN
  PROVE  /\ Typed' /\ proto'[Server] = NewProtocol /\ server' = how
         /\ \A e \in Clients : proto'[e] = proto[e]
         /\ UNCHANGED <<persistent, made, kind, main, thread, pending, near, result, answer>>
         /\ Shut({c \in Calls : far[c] \in {"open", "backlog"}}) /\ Conn(Server) \in Calls
<1>1. Conn(Server) \in Calls
  BY TypedFacts
<1>2. NewProtocol \in Protocols(LettersOf(Server)) /\ NewProtocol.conn = None
      /\ NewProtocol.have <= Buffer
  BY NewProtocolType, BufferAssumption
<1>3. /\ proto' = [proto EXCEPT ![Server] = NewProtocol] /\ server' = how
      /\ UNCHANGED <<persistent, made, kind, main, thread, pending, near, result, answer>>
      /\ Shut({c \in Calls : far[c] \in {"open", "backlog"}})
  BY DEF Exit, program
<1>4. {c \in Calls : far[c] \in {"open", "backlog"}} \in SUBSET Calls
  OBVIOUS
<1> DEFINE cs == {c \in Calls : far[c] \in {"open", "backlog"}}
<1> HIDE DEF cs
<1>5. cs \in SUBSET Calls /\ Shut(cs)
  BY <1>3, <1>4 DEF cs
<1>6. Typed' /\ proto'[Server] = NewProtocol /\ \A e \in Clients : proto'[e] = proto[e]
  BY <1>1, <1>2, <1>3, <1>5, TypedShut
<1> QED
  BY <1>1, <1>3, <1>6

\* The server closes the connection of the call it has served.
LEMMA TypedCloseConnection ==
  ASSUME Typed, CloseConnection
  PROVE  /\ Typed' /\ server' = "accepting" /\ Conn(Server) \in Calls
         /\ \A e \in Clients : proto'[e] = proto[e]
         /\ UNCHANGED <<persistent, made, kind, main, thread, pending, near, result, answer,
                        served, timedout>>
         /\ Shut({Conn(Server)})
<1>1. Conn(Server) \in Calls /\ proto[Server] \in Protocols(LettersOf(Server))
  BY TypedFacts, EndsFacts DEF CloseConnection
<1>2. PICK q \in Protocols(LettersOf(Server)) :
        q.conn = None /\ q.have = proto[Server].have /\ proto' = [proto EXCEPT ![Server] = q]
  <2>1. /\ [proto[Server] EXCEPT !.conn = None] \in Protocols(LettersOf(Server))
        /\ [proto[Server] EXCEPT !.conn = None].conn = None
        /\ [proto[Server] EXCEPT !.conn = None].have = proto[Server].have
    BY <1>1 DEF Protocols, None
  <2>2. proto' = [proto EXCEPT ![Server] = [proto[Server] EXCEPT !.conn = None]]
    BY DEF CloseConnection
  <2> [proto[Server] EXCEPT !.conn = None] \in Protocols(LettersOf(Server))
    BY <2>1
  <2> WITNESS [proto[Server] EXCEPT !.conn = None] \in Protocols(LettersOf(Server))
  <2> QED
    BY <2>1, <2>2
<1>3. q.have <= Buffer
  BY <1>2, EndsFacts DEF Typed, Buffers
<1>4. /\ server' = "accepting" /\ Shut({Conn(Server)})
      /\ UNCHANGED <<persistent, made, kind, main, thread, pending, near, result, answer,
                     served, timedout>>
  BY DEF CloseConnection, program, history
<1>5. served' \in Seq(Calls) /\ timedout' \in BOOLEAN
  BY <1>4 DEF Typed, Scalars
<1>6. {Conn(Server)} \in SUBSET Calls
  BY <1>1
<1>7. Typed' /\ \A e \in Clients : proto'[e] = proto[e]
  BY <1>1, <1>2, <1>3, <1>4, <1>5, <1>6, TypedShut
<1> QED
  BY <1>1, <1>4, <1>7

\* The server begins to accept.
LEMMA TypedStartServer ==
  ASSUME Typed, StartServer
  PROVE  Typed'
<1>1. UNCHANGED <<persistent, made, kind, main, thread, pending, proto, wire, near, far, result,
                  answer, served, timedout>> /\ server' = "accepting" /\ server = "down"
  BY DEF StartServer, program, links, history
<1>2. Scalars' /\ IsFamily(proto') /\ IsWire(wire')
  BY <1>1 DEF Typed, Scalars
<1>3. Owners'
  BY <1>1 DEF Typed, Owners, Conn
<1>4. Buffers'
  <2>1. \A e \in Ends : (Waiting(e)' <=> Waiting(e)) /\ Inbox(e)' = Inbox(e)
    BY <1>1, EndsFacts, WaitingFacts DEF Inbox, Conn
  <2> QED
    BY <1>1, <2>1 DEF Typed, Buffers
<1> QED
  BY <1>2, <1>3, <1>4 DEF Typed

\* The server reads from the connection that it accepts.
LEMMA TypedAccept ==
  ASSUME Typed, NEW c \in Calls, Accept(c)
  PROVE  /\ Typed' /\ Conn(Server)' = c
         /\ proto'[Server] = BeginWait([resetConnection(proto[Server]) EXCEPT !.conn = c])
         /\ \A e \in Clients : proto'[e] = proto[e]
<1> DEFINE r == resetConnection(proto[Server])
           t == [r EXCEPT !.conn = c]
           q == BeginWait(t)
<1>1. proto[Server] \in Protocols(LettersOf(Server)) /\ IsFamily(proto)
  BY TypedFacts, EndsFacts DEF Typed
<1>2. r \in Protocols(LettersOf(Server))
  BY <1>1, ResetType
<1>3. t \in Protocols(LettersOf(Server)) /\ t.conn = c
  <2> HIDE DEF r
  <2> QED
    BY <1>2, EndsFacts DEF Protocols
<1>4. q \in Protocols(LettersOf(Server)) /\ q.conn = c /\ q.have = 0
  <2> HIDE DEF t
  <2> QED
    BY <1>3, BeginWaitType
<1>5. proto' = [proto EXCEPT ![Server] = q]
  BY DEF Accept
<1> HIDE DEF q
<1>6. IsFamily(proto') /\ proto'[Server] = q /\ \A e \in Clients : proto'[e] = proto[e]
  BY <1>1, <1>4, <1>5, EndsFacts DEF IsFamily
<1>7. UNCHANGED <<persistent, made, kind, main, thread, pending, wire, near, result, answer,
                  served, timedout>> /\ server' = "reading" /\ far' = [far EXCEPT ![c] = "open"]
  BY DEF Accept, program, history
<1>8. Scalars'
  BY <1>7 DEF Typed, Scalars
<1>9. Conn(Server)' = c /\ \A e \in Clients : Conn(e)' = Conn(e)
  BY <1>4, <1>6 DEF Conn
<1>10. Owners'
  <2>1. c \in 0..MaxCalls /\ c # 0
    BY EndsFacts DEF Calls
  <2> QED
    BY <1>7, <1>9, <2>1, EndsFacts DEF Typed, Owners, None
<1>11. Buffers'
  <2>1. \A e \in Clients : (Waiting(e)' <=> Waiting(e)) /\ Inbox(e)' = Inbox(e)
    BY <1>7, <1>9, EndsFacts, WaitingFacts, SideFacts DEF Inbox
  <2>2. proto'[Server].have = 0 /\ Len(Inbox(Server)') \in Nat
    BY <1>4, <1>6, <1>7, <1>9, TypedFacts, SideFacts DEF Inbox
  <2>3. \A e \in Ends : proto'[e].have <= Buffer
    <3>1. proto'[Server].have <= Buffer
      BY <2>2, BufferAssumption
    <3> QED
      BY <1>6, <3>1, EndsFacts DEF Typed, Buffers
  <2>4. \A k \in Calls : thread'[k] = "created" => proto'[k].have = 0
    BY <1>6, <1>7, EndsFacts DEF Typed, Buffers
  <2>5. \A e \in Clients : Waiting(e)' => proto'[e].have <= Len(Inbox(e)')
    BY <1>6, <2>1, EndsFacts DEF Typed, Buffers
  <2>6. \A e \in Ends : Waiting(e)' => proto'[e].have <= Len(Inbox(e)')
    <3>1. Waiting(Server)' => proto'[Server].have <= Len(Inbox(Server)')
      BY <2>2
    <3> QED
      BY <2>5, <3>1, EndsFacts
  <2> QED
    BY <2>3, <2>4, <2>6 DEF Buffers
<1> QED
  BY <1>6, <1>7, <1>8, <1>9, <1>10, <1>11 DEF Typed, q

\* The server has a whole call.
LEMMA TypedReceived ==
  ASSUME Typed, Received, server' = "serving"
  PROVE  Typed' /\ proto' = proto /\ server' = "serving" /\ server = "reading"
         /\ UNCHANGED <<persistent, made, kind, main, thread, pending, links, result, answer, history>>
<1>1. UNCHANGED <<persistent, made, kind, main, thread, pending, proto, wire, near, far, result,
                  answer, history>> /\ server' = "serving" /\ server = "reading"
  <2>1. server = "reading" /\ UNCHANGED history
    BY WaitingFacts DEF Received, Complete
  <2>2. ~Exit("terminated")
    BY DEF Exit
  <2> QED
    BY <2>1, <2>2 DEF Received, program, links
<1>2. Scalars' /\ IsFamily(proto') /\ IsWire(wire')
  BY <1>1 DEF Typed, Scalars, history
<1>3. Owners'
  BY <1>1 DEF Typed, Owners, Conn
<1>4. Buffers'
  <2>1. ~Waiting(Server)' /\ \A e \in Ends : (Waiting(e)' => Waiting(e)) /\ Inbox(e)' = Inbox(e)
    BY <1>1, EndsFacts, WaitingFacts DEF Inbox, Conn
  <2> QED
    BY <1>1, <2>1 DEF Typed, Buffers
<1> QED
  BY <1>1, <1>2, <1>3, <1>4 DEF Typed, links, history

\* The server writes to the client, or to no one.
LEMMA TypedSpeaks ==
  ASSUME Typed, server = "serving", server' \in {"closing", "failing"},
         NEW z \in Seq(Voice("client")), NEW q \in Protocols(LettersOf(Server)),
         q.conn = Conn(Server), q.have = proto[Server].have, proto' = [proto EXCEPT ![Server] = q],
         \/ wire' = wire
         \/ wire' = [wire EXCEPT !["client"][Conn(Server)] = wire["client"][Conn(Server)] \o z],
         served' \in Seq(Calls), timedout' \in BOOLEAN,
         UNCHANGED <<persistent, made, kind, main, thread, pending, near, far, result, answer>>
  PROVE  /\ Typed' /\ Conn(Server) \in Calls /\ Conn(Server)' = Conn(Server)
         /\ proto'[Server] = q /\ \A e \in Clients : proto'[e] = proto[e]
         /\ wire'["server"] = wire["server"]
         /\ \A d \in Calls \ {Conn(Server)} : wire'["client"][d] = wire["client"][d]
         /\ \/ wire' = wire
            \/ wire'["client"][Conn(Server)] = wire["client"][Conn(Server)] \o z
<1> DEFINE c == Conn(Server)
           x == wire["client"][c] \o z
<1>1. c \in Calls /\ proto[Server] \in Protocols(LettersOf(Server)) /\ IsFamily(proto)
  BY TypedFacts, EndsFacts DEF Typed
<1>3. IsFamily(proto') /\ proto'[Server] = q /\ \A e \in Clients : proto'[e] = proto[e]
  BY <1>1, EndsFacts DEF IsFamily
<1>4. wire["client"][c] \in Seq(Voice("client"))
  BY <1>1, TypedFacts
<1>5. x \in Seq(Voice("client")) /\ Len(wire["client"][c]) <= Len(x)
  BY <1>4, Longer
<1>6. /\ IsWire(wire') /\ wire'["server"] = wire["server"]
      /\ \A d \in Calls \ {c} : wire'["client"][d] = wire["client"][d]
      /\ \/ wire' = wire
         \/ wire'["client"][c] = x
  <2>1. CASE wire' = wire
    BY <2>1 DEF Typed
  <2>2. CASE wire' = [wire EXCEPT !["client"][c] = x]
    <3> HIDE DEF x
    <3> QED
      BY <1>1, <1>5, <2>2 DEF Typed, IsWire, Sides
  <2> QED
    BY <2>1, <2>2
<1>7. Scalars'
  BY DEF Typed, Scalars
<1>8. \A e \in Ends : Conn(e)' = Conn(e)
  BY <1>3, EndsFacts DEF Conn
<1>9. Owners'
  BY <1>8, EndsFacts DEF Typed, Owners
<1>10. Buffers'
  <2>1. ~Waiting(Server)' /\ \A e \in Clients : Waiting(e)' <=> Waiting(e)
    BY EndsFacts, WaitingFacts
  <2>2. \A e \in Clients : Waiting(e) => proto[e].have <= Len(Inbox(e)')
    <3> SUFFICES ASSUME NEW e \in Clients, Waiting(e) PROVE proto[e].have <= Len(Inbox(e)')
      OBVIOUS
    <3>1. /\ Conn(e) \in Calls /\ Inbox(e)' = wire'["client"][Conn(e)]
          /\ Inbox(e) = wire["client"][Conn(e)]
          /\ proto[e].have <= Len(Inbox(e)) /\ proto[e].have \in Nat
      BY <1>8, TypedFacts, EndsFacts, SideFacts DEF Inbox, Typed, Buffers
    <3>2. CASE Inbox(e)' = Inbox(e)
      BY <3>1, <3>2
    <3>3. CASE Conn(e) = c /\ Inbox(e)' = x
      <4>1. Inbox(e) = wire["client"][c]
        BY <3>1, <3>3
      <4> HIDE DEF x, c
      <4>2. Len(Inbox(e)) \in Nat /\ Len(x) \in Nat /\ Len(Inbox(e)) <= Len(x)
        BY <1>4, <1>5, <4>1
      <4> QED
        BY <3>1, <3>3, <4>2
    <3> QED
      BY <1>6, <3>1, <3>2, <3>3
  <2>3. \A e \in Ends : proto'[e].have <= Buffer
    BY <1>3, EndsFacts DEF Typed, Buffers
  <2>4. \A k \in Calls : thread'[k] = "created" => proto'[k].have = 0
    BY <1>3, EndsFacts DEF Typed, Buffers
  <2>5. \A e \in Ends : Waiting(e)' => proto'[e].have <= Len(Inbox(e)')
    BY <1>3, <2>1, <2>2, EndsFacts
  <2> QED
    BY <2>3, <2>4, <2>5 DEF Buffers
<1> QED
  BY <1>1, <1>3, <1>6, <1>7, <1>8, <1>9, <1>10, EndsFacts DEF Typed

\* The server answers the call.
LEMMA TypedServe ==
  ASSUME Typed, Serve, Request \in Calls
  PROVE  /\ Typed' /\ Conn(Server) \in Calls /\ server = "serving" /\ server' = "closing"
         /\ Conn(Server)' = Conn(Server)
         /\ \A e \in Clients : proto'[e] = proto[e]
         /\ served' = Append(served, Request)
         /\ UNCHANGED <<persistent, made, kind, main, thread, pending, near, far, result, answer, via,
                        stalled, timedout>>
         /\ wire'["server"] = wire["server"]
         /\ \A d \in Calls \ {Conn(Server)} : wire'["client"][d] = wire["client"][d]
         /\ \/ wire' = wire
            \/ wire'["client"][Conn(Server)] =
                 wire["client"][Conn(Server)] \o Message(Request, AnswerLen[Request])
<1>1. /\ server = "serving" /\ server' = "closing" /\ served' = Append(served, Request)
      /\ UNCHANGED <<persistent, made, kind, main, thread, pending, near, far, result, answer, via,
                     stalled, timedout>>
      /\ proto' = [proto EXCEPT ![Server] = clearSipHeader(proto[Server])]
  BY DEF Serve, program
<1>2. PICK q \in Protocols(LettersOf(Server)) :
        q = clearSipHeader(proto[Server]) /\ q.conn = Conn(Server) /\ q.have = proto[Server].have
  BY TypedFacts, EndsFacts, ClearType DEF Conn
<1>3. PICK z \in Seq(Voice("client")) : z = Message(Request, AnswerLen[Request])
  BY MessageType DEF Voice
<1>4. \/ wire' = wire
      \/ wire' = [wire EXCEPT !["client"][Conn(Server)] = wire["client"][Conn(Server)] \o z]
  BY <1>3 DEF Serve
<1>5. served' \in Seq(Calls) /\ timedout' \in BOOLEAN
  BY <1>1 DEF Typed, Scalars
<1>6. proto' = [proto EXCEPT ![Server] = q] /\ server' \in {"closing", "failing"}
  BY <1>1, <1>2
<1> QED
  BY <1>1, <1>2, <1>3, <1>4, <1>5, <1>6, TypedSpeaks

\* The server writes a part of the answer.
LEMMA TypedServeTimesOut ==
  ASSUME Typed, ServeTimesOut, Request \in Calls
  PROVE  /\ Typed' /\ Conn(Server) \in Calls /\ server = "serving" /\ server' = "failing"
         /\ Conn(Server)' = Conn(Server)
         /\ \A e \in Ends : proto'[e] = proto[e]
         /\ served' = Append(served, Request) /\ timedout'
         /\ UNCHANGED <<persistent, made, kind, main, thread, pending, near, far, result, answer, via, stalled>>
         /\ wire'["server"] = wire["server"]
         /\ \A d \in Calls \ {Conn(Server)} : wire'["client"][d] = wire["client"][d]
         /\ \/ wire' = wire
            \/ \E n \in 0..HeaderLen + AnswerLen[Request] :
                 wire'["client"][Conn(Server)] =
                   wire["client"][Conn(Server)] \o SubSeq(Message(Request, AnswerLen[Request]), 1, n)
<1>1. /\ server = "serving" /\ server' = "failing" /\ served' = Append(served, Request) /\ timedout'
      /\ UNCHANGED <<persistent, made, kind, main, thread, pending, near, far, result, answer, proto, via,
                     stalled>>
  BY DEF ServeTimesOut, program
<1>2. PICK q \in Protocols(LettersOf(Server)) :
        q = proto[Server] /\ q.conn = Conn(Server) /\ q.have = proto[Server].have
  BY TypedFacts, EndsFacts DEF Conn
<1>3. PICK n \in 0..HeaderLen + AnswerLen[Request] :
        wire' = [wire EXCEPT !["client"][Conn(Server)] =
                   wire["client"][Conn(Server)] \o SubSeq(Message(Request, AnswerLen[Request]), 1, n)]
  <2>1. PICK n \in Cuts :
          /\ n < HeaderLen + AnswerLen[Request]
          /\ wire' = [wire EXCEPT !["client"][Conn(Server)] =
                        wire["client"][Conn(Server)] \o SubSeq(Message(Request, AnswerLen[Request]), 1, n)]
    BY DEF ServeTimesOut
  <2>2. n \in 0..HeaderLen + AnswerLen[Request]
    BY <2>1, CutsAssumption, HeaderLength, MessageType
  <2> QED
    BY <2>1, <2>2
<1>4. PICK z \in Seq(Voice("client")) : z = SubSeq(Message(Request, AnswerLen[Request]), 1, n)
  <2>1. PICK t \in Seq(Voice("client")) :
          t = Message(Request, AnswerLen[Request]) /\ Len(t) = HeaderLen + AnswerLen[Request]
    BY MessageType DEF Voice
  <2>2. n \in 0..Len(t)
    BY <2>1
  <2>3. SubSeq(t, 1, n) \in Seq(Voice("client"))
    BY <2>2
  <2> QED
    BY <2>1, <2>3
<1>5. served' \in Seq(Calls) /\ timedout' \in BOOLEAN
  <2>1. timedout' = TRUE
    BY DEF ServeTimesOut
  <2> QED
    BY <1>1, <2>1 DEF Typed, Scalars
<1>6. proto' = [proto EXCEPT ![Server] = q]
  BY <1>1, <1>2, EndsFacts DEF Typed, IsFamily
<1>7. /\ Typed' /\ Conn(Server) \in Calls /\ Conn(Server)' = Conn(Server)
      /\ wire'["server"] = wire["server"]
      /\ \A d \in Calls \ {Conn(Server)} : wire'["client"][d] = wire["client"][d]
      /\ (wire' = wire \/ wire'["client"][Conn(Server)] = wire["client"][Conn(Server)] \o z)
  BY <1>1, <1>2, <1>3, <1>4, <1>5, <1>6, TypedSpeaks
<1> DEFINE Part == \E m \in 0..HeaderLen + AnswerLen[Request] :
                      wire'["client"][Conn(Server)] =
                        wire["client"][Conn(Server)] \o SubSeq(Message(Request, AnswerLen[Request]), 1, m)
<1>8. wire'["client"][Conn(Server)] = wire["client"][Conn(Server)] \o z => Part
  BY <1>4
<1> HIDE DEF Part
<1>9. wire' = wire \/ Part
  BY <1>7, <1>8
<1> USE DEF Part
<1> QED
  BY <1>1, <1>7, <1>9

\* What the client program leaves when it ends.
LEMMA QuitWire ==
  ASSUME Typed, Quit
  PROVE  /\ IsWire(wire')
         /\ \A d \in Calls : wire'["client"][d] = << >>
         /\ \/ wire'["server"] = wire["server"]
            \/ /\ main = "opened" /\ Conn(0) \in Calls /\ made \in Calls
               /\ near[Conn(0)] = "open" /\ ~Reset(Conn(0))
               /\ \A d \in Calls \ {Conn(0)} : wire'["server"][d] = wire["server"][d]
               /\ \E n \in 1..HeaderLen + CallLen[made] :
                    wire'["server"][Conn(0)] =
                      wire["server"][Conn(0)] \o SubSeq(Message(made, CallLen[made]), 1, n)
<1>1. PICK n \in Written :
        wire' = [client |-> [c \in Calls |-> << >>],
                 server |-> IF n = 0 THEN wire["server"]
                            ELSE [wire["server"] EXCEPT ![Conn(0)] =
                                    @ \o SubSeq(Message(made, CallLen[made]), 1, n)]]
  BY DEF Quit
<1> DEFINE a == [c \in Calls |-> << >>]
           w == wire["server"]
           v == w[Conn(0)] \o SubSeq(Message(made, CallLen[made]), 1, n)
           b == IF n = 0 THEN w ELSE [w EXCEPT ![Conn(0)] = v]
<1>2. a \in [Calls -> Seq(Voice("client"))] /\ \A d \in Calls : a[d] = << >>
  <2>1. << >> \in Seq(Voice("client"))
    OBVIOUS
  <2> QED
    BY <2>1
<1>3. w \in [Calls -> Seq(Voice("server"))]
  BY DEF Typed, IsWire, Sides
<1>4. /\ b \in [Calls -> Seq(Voice("server"))]
      /\ \/ b = w
         \/ /\ main = "opened" /\ Conn(0) \in Calls /\ made \in Calls
            /\ near[Conn(0)] = "open" /\ ~Reset(Conn(0)) /\ n \in 1..HeaderLen + CallLen[made]
            /\ \A d \in Calls \ {Conn(0)} : b[d] = w[d]
            /\ b[Conn(0)] = v
  <2>1. CASE n = 0
    BY <1>3, <2>1
  <2>2. CASE n # 0
    <3>1. main = "opened" /\ near[Conn(0)] = "open" /\ ~Reset(Conn(0)) /\ n \in 0..HeaderLen + CallLen[made]
      BY <2>2 DEF Written
    <3>2. Conn(0) \in Calls /\ made \in Calls
      BY <3>1, TypedFacts
    <3>3. n \in 1..HeaderLen + CallLen[made]
      BY <2>2, <3>1, <3>2, MessageType, HeaderLength
    <3>4. SubSeq(Message(made, CallLen[made]), 1, n) \in Seq(Voice("server"))
      BY <3>2, <3>3, MessageType, HeaderLength DEF Voice
    <3>5. v \in Seq(Voice("server"))
      BY <1>3, <3>2, <3>4
    <3>6. b = [w EXCEPT ![Conn(0)] = v]
      BY <2>2
    <3> HIDE DEF v, w, b
    <3> QED
      BY <1>3, <3>1, <3>2, <3>3, <3>5, <3>6
  <2> QED
    BY <2>1, <2>2
<1>5. wire' = [client |-> a, server |-> b]
  BY <1>1
<1> HIDE DEF a, b, v
<1>6. IsWire(wire') /\ wire'["client"] = a /\ wire'["server"] = b
  BY <1>2, <1>4, <1>5 DEF IsWire, Sides
<1> QED
  BY <1>2, <1>4, <1>6 DEF v

\* The client program ends with all of its connections.
LEMMA TypedQuit ==
  ASSUME Typed, Quit
  PROVE  /\ Typed' /\ main' = "ended"
         /\ thread' = [k \in Calls |-> IF thread[k] = "none" THEN "none" ELSE "ended"]
         /\ proto'[Server] = proto[Server] /\ \A e \in Clients : proto'[e] = NewProtocol
         /\ UNCHANGED <<persistent, made, kind, server, far, result, answer, served, timedout>>
<1>1. /\ main' = "ended" /\ pending' = 0
      /\ thread' = [k \in Calls |-> IF thread[k] = "none" THEN "none" ELSE "ended"]
      /\ proto' = [e \in Ends |-> IF e = Server THEN proto[e] ELSE NewProtocol]
      /\ near' = [c \in Calls |-> IF near[c] \in {"open", "unconnected"} THEN "closed" ELSE near[c]]
      /\ UNCHANGED <<persistent, made, kind, server, far, result, answer, served, timedout>>
  BY DEF Quit, history
<1>2. proto'[Server] = proto[Server] /\ \A e \in Clients : proto'[e] = NewProtocol
  BY <1>1, EndsFacts
<1>3. IsFamily(proto')
  BY <1>1, NewProtocolType, EndsFacts DEF Typed, IsFamily
<1>4. Scalars'
  BY <1>1 DEF Typed, Scalars
<1>5. Conn(Server)' = Conn(Server) /\ \A e \in Clients : Conn(e)' = None
  BY <1>2, NewProtocolType DEF Conn
<1>6. Owners'
  <2>1. 0 \in 0..made /\ Owners
    BY TypedFacts DEF Typed
  <2> QED
    BY <1>1, <1>5, <2>1, EndsFacts DEF Owners, None
<1>7. Buffers'
  <2>1. \A e \in Clients : ~Waiting(e)'
    BY <1>1, EndsFacts, WaitingFacts
  <2>2. Waiting(Server) => proto[Server].have <= Len(Inbox(Server)')
    <3> SUFFICES ASSUME Waiting(Server) PROVE proto[Server].have <= Len(Inbox(Server)')
      OBVIOUS
    <3> DEFINE c == Conn(Server)
    <3>1. /\ c \in Calls /\ Inbox(Server)' = wire'["server"][c] /\ Inbox(Server) = wire["server"][c]
          /\ proto[Server].have <= Len(Inbox(Server)) /\ proto[Server].have \in Nat
          /\ wire["server"][c] \in Seq(Voice("server"))
      BY <1>5, TypedFacts, EndsFacts, SideFacts DEF Inbox, Typed, Buffers
    <3>2. CASE Inbox(Server)' = Inbox(Server)
      BY <3>1, <3>2
    <3>3. CASE /\ made \in Calls
               /\ \E n \in 1..HeaderLen + CallLen[made] :
                    wire'["server"][c] = wire["server"][c] \o SubSeq(Message(made, CallLen[made]), 1, n)
      <4>1. PICK n \in 1..HeaderLen + CallLen[made] :
              wire'["server"][c] = wire["server"][c] \o SubSeq(Message(made, CallLen[made]), 1, n)
        BY <3>3
      <4>2. SubSeq(Message(made, CallLen[made]), 1, n) \in Seq(Voice("server"))
        BY <3>3, MessageType, HeaderLength DEF Voice
      <4>3. Len(wire["server"][c]) <= Len(wire'["server"][c]) /\ wire'["server"][c] \in Seq(Voice("server"))
        BY <3>1, <4>1, <4>2, Longer
      <4> HIDE DEF c
      <4> QED
        BY <3>1, <4>3
    <3> HIDE DEF c
    <3>4. \/ wire'["server"][c] = wire["server"][c]
          \/ /\ made \in Calls
             /\ \E n \in 1..HeaderLen + CallLen[made] :
                  wire'["server"][c] = wire["server"][c] \o SubSeq(Message(made, CallLen[made]), 1, n)
      BY <3>1, QuitWire
    <3> QED
      BY <3>1, <3>2, <3>3, <3>4
  <2>3. \A e \in Ends : proto'[e].have <= Buffer
    BY <1>2, NewProtocolType, BufferAssumption, EndsFacts DEF Typed, Buffers
  <2>4. \A k \in Calls : thread'[k] = "created" => proto'[k].have = 0
    BY <1>1
  <2>5. \A e \in Ends : Waiting(e)' => proto'[e].have <= Len(Inbox(e)')
    <3>1. Waiting(Server)' <=> Waiting(Server)
      BY <1>1, WaitingFacts
    <3> QED
      BY <1>2, <2>1, <2>2, <3>1, EndsFacts
  <2> QED
    BY <2>3, <2>4, <2>5 DEF Buffers
<1> QED
  BY <1>1, <1>2, <1>3, <1>4, <1>6, <1>7, QuitWire DEF Typed

\* The server serves only what it has received.
HasData == server = "serving" => proto[Server].data # << >>

\* The call that is served is one of the calls.
LEMMA RequestType ==
  ASSUME Typed, HasData, server = "serving"
  PROVE  Request \in Calls
<1>1. proto[Server].data \in Seq(LettersOf(Server)) /\ proto[Server].data # << >>
  BY TypedFacts, EndsFacts, Fields DEF HasData
<1>2. proto[Server].data[1] \in LettersOf(Server)
  BY <1>1
<1> QED
  BY <1>2, LetterFacts, EndsFacts DEF Request

\* Every action keeps the types.
LEMMA StepTyped ==
  ASSUME Typed, HasData, Next
  PROVE  Typed' /\ HasData'
<1>1. ASSUME NEW k \in Calls, Reuse(k) \/ Open(k) \/ OpenRefused(k) PROVE Typed' /\ HasData'
  <2>1. Typed' /\ proto'[Server] = proto[Server]
    BY <1>1, TypedReuse, TypedOpen, TypedOpenRefused, EndsFacts
  <2>2. server' = server
    BY <1>1 DEF Reuse, Open, OpenRefused
  <2> QED
    BY <2>1, <2>2 DEF HasData
<1>2. CASE Send
  <2>1. Typed' /\ proto'[Server] = proto[Server]
    BY <1>2, TypedSend, EndsFacts
  <2> QED
    BY <1>2, <2>1 DEF HasData, Send
<1>3. CASE SendFails
  <2>1. Typed' /\ proto'[Server] = proto[Server]
    BY <1>3, TypedSendFails, EndsFacts
  <2> QED
    BY <1>3, <2>1 DEF HasData, SendFails
<1>4. CASE SendTimesOut
  BY <1>4, TypedSendTimesOut DEF HasData
<1>5. ASSUME NEW k \in Calls, StartThread(k) PROVE Typed' /\ HasData'
  BY <1>5, TypedStartThread DEF HasData, StartThread
<1>6. ASSUME NEW e \in Ends, Looping(e) PROVE Typed' /\ HasData'
  <2>1. Typed' /\ Waiting(e) /\ \A d \in Ends \ {e} : proto'[d] = proto[d]
    BY <1>6, TypedMachine, TypedRead DEF Looping
  <2>2. server' = server
    BY <1>6 DEF Looping, Machine, Read
  <2> QED
    BY <2>1, <2>2, EndsFacts, WaitingFacts DEF HasData
<1>7. ASSUME NEW e \in Clients, Ending(e) \/ Timeout(e) PROVE Typed' /\ HasData'
  <2>1. Typed' /\ Waiting(e) /\ (LeaveOpen(e) \/ LeaveClosed(e)) /\ Leave(e)
        /\ UNCHANGED <<persistent, made, kind, server, far, served>> /\ timedout' \in BOOLEAN
        /\ result' \in [Calls -> {"none", "threw", "transmitted", "response"}]
        /\ answer' \in [Calls -> 0..MaxCalls]
    BY <1>7, TypedRespond, TypedGivesUp DEF Ending, Typed, Scalars
  <2>2. proto'[Server] = proto[Server]
    BY <2>1, TypedLeaves, EndsFacts
  <2> QED
    BY <2>1, <2>2 DEF HasData
<1>8. CASE Quit
  BY <1>8, TypedQuit DEF HasData
<1>9. CASE StartServer
  BY <1>9, TypedStartServer DEF HasData, StartServer
<1>10. ASSUME NEW c \in Calls, Accept(c) PROVE Typed' /\ HasData'
  BY <1>10, TypedAccept DEF HasData, Accept
<1>11. ASSUME server \in {"reading", "serving", "failing"}, served' \in Seq(Calls), timedout' \in BOOLEAN,
              NEW how \in {"exited", "terminated"}, Exit(how)
       PROVE  Typed' /\ HasData'
  BY <1>11, TypedExit DEF HasData
<1>12. CASE Received
  <2>1. server = "reading" /\ served' \in Seq(Calls) /\ timedout' \in BOOLEAN
    BY <1>12, WaitingFacts DEF Received, Complete, history, Typed, Scalars
  <2>2. CASE Readable(proto[Server].data) /\ server' = "serving"
    BY <1>12, <2>2, TypedReceived DEF HasData, Readable
  <2>3. CASE Exit("terminated")
    BY <1>11, <2>1, <2>3
  <2> QED
    BY <1>12, <2>2, <2>3 DEF Received
<1>13. CASE ServerTimeout \/ ServerReadFails
  <2>1. server = "reading" /\ served' \in Seq(Calls) /\ timedout' \in BOOLEAN /\ Exit("exited")
    BY <1>13, WaitingFacts DEF ServerTimeout, ServerReadFails, WantsMore, history, Typed, Scalars
  <2> QED
    BY <1>11, <2>1
<1>14. CASE Serve
  BY <1>14, TypedServe, RequestType DEF HasData, Serve
<1>15. CASE ServeFails
  <2>1. server = "serving" /\ timedout' \in BOOLEAN /\ Exit("exited") /\ served' = Append(served, Request)
    BY <1>15 DEF ServeFails, Typed, Scalars
  <2>2. served' \in Seq(Calls)
    BY <2>1, RequestType DEF Typed, Scalars
  <2> QED
    BY <1>11, <2>1, <2>2
<1>16. CASE CloseConnection
  BY <1>16, TypedCloseConnection DEF HasData
<1>17. CASE ServeTimesOut
  BY <1>17, TypedServeTimesOut, RequestType DEF HasData, ServeTimesOut
<1>18. CASE Fail
  <2>1. server = "failing" /\ served' \in Seq(Calls) /\ timedout' \in BOOLEAN /\ Exit("exited")
    BY <1>18 DEF Fail, history, Typed, Scalars
  <2> QED
    BY <1>11, <2>1
<1> QED
  BY <1>1, <1>2, <1>3, <1>5, <1>6, <1>7, <1>8, <1>9, <1>10, <1>12, <1>13, <1>14, <1>15, <1>16,
     <1>4, <1>17, <1>18
  DEF Next, Calling, Serving

\* So does a step that changes nothing.
LEMMA StutterTyped ==
  ASSUME Typed, HasData, UNCHANGED vars
  PROVE  Typed' /\ HasData'
<1>1. UNCHANGED <<persistent, made, kind, main, thread, pending, server, proto, wire, near, far, result,
                  answer, served, timedout>>
  BY DEF vars, program, links, history
<1>2. Scalars' /\ IsFamily(proto') /\ IsWire(wire')
  BY <1>1 DEF Typed, Scalars
<1>3. Owners'
  BY <1>1 DEF Typed, Owners, Conn
<1>4. Buffers'
  BY <1>1 DEF Typed, Buffers, Inbox, Conn, Waiting
<1> QED
  BY <1>1, <1>2, <1>3, <1>4 DEF Typed, HasData

\* Every variable keeps its type, a connection has one owner at the client,
\* no buffer counts more than its stream holds, and a call that is served has data.
THEOREM AlwaysTyped == Spec => [](Typed /\ HasData)
<1>1. Init => Typed /\ HasData
  BY TypedInit DEF Init, HasData
<1>2. Typed /\ HasData /\ [Next]_vars => (Typed /\ HasData)'
  BY StepTyped, StutterTyped
<1> QED
  BY <1>1, <1>2, PTL DEF Spec

-----------------------------------------------------------------------------
(* The counter of pending requests.                                        *)

Running == {k \in Calls : thread[k] = "waiting"}

\* The call being written has no thread yet.
Counted ==
  /\ pending = Cardinality(Running)
  /\ main = "opened" => thread[made] \notin {"created", "waiting"}

\* The threads that wait can be counted.
LEMMA RunningFinite == IsFiniteSet(Running) /\ Cardinality(Running) \in Nat
<1>1. IsFiniteSet(Calls)
  BY FS_Interval, MaxCallsAssumption DEF Calls
<1>2. Running \in SUBSET Calls
  BY DEF Running
<1> QED
  BY <1>1, <1>2, FS_Subset, FS_CardinalityType

\* An action that neither begins a threaded wait nor ends one.
LEMMA SameRunning ==
  ASSUME Counted, pending' = pending, main' # "opened",
         \A k \in Calls : (thread'[k] = "waiting") <=> (thread[k] = "waiting")
  PROVE  Counted'
<1>1. Running' = Running
  BY DEF Running
<1> QED
  BY <1>1 DEF Counted

\* Making a call begins no thread.
LEMMA CountedBegin ==
  ASSUME Typed, Counted, NEW k \in Calls, Reuse(k) \/ Open(k) \/ OpenRefused(k)
  PROVE  Counted'
<1>1. UNCHANGED <<thread, pending>> /\ made' = k /\ k = made + 1
  BY DEF Reuse, Open, OpenRefused, program, Begin
<1>2. thread[k] \notin {"created", "waiting"}
  BY <1>1, EndsFacts DEF Typed, Scalars, Owners
<1>3. Running' = Running
  BY <1>1 DEF Running
<1> QED
  BY <1>1, <1>2, <1>3 DEF Counted

\* Sending a call creates a thread that does not count yet.
LEMMA CountedSend ==
  ASSUME Typed, Counted, Send
  PROVE  Counted'
<1>1. main = "opened" /\ pending' = pending /\ Sent(made)
  BY DEF Send
<1>2. main' # "opened" /\ (thread' = thread \/ thread' = [thread EXCEPT ![made] = "created"])
  BY <1>1 DEF Sent
<1>3. thread[made] # "waiting"
  BY <1>1 DEF Counted
<1>4. \A k \in Calls : (thread'[k] = "waiting") <=> (thread[k] = "waiting")
  BY <1>2, <1>3 DEF Typed, Scalars
<1> QED
  BY <1>1, <1>2, <1>4, SameRunning

\* A thread that begins adds one.
LEMMA CountedStartThread ==
  ASSUME Typed, Counted, NEW k \in Calls, StartThread(k)
  PROVE  Counted'
<1>1. thread[k] = "created" /\ thread' = [thread EXCEPT ![k] = "waiting"] /\ pending' = pending + 1
      /\ UNCHANGED <<made, main>>
  BY DEF StartThread
<1>2. k \notin Running /\ Running' = Running \cup {k}
  BY <1>1 DEF Running, Typed, Scalars
<1>3. Cardinality(Running') = Cardinality(Running) + 1
  BY <1>2, RunningFinite, FS_AddElement
<1>4. made \in Calls => (thread'[made] \in {"created", "waiting"} => thread[made] \in {"created", "waiting"})
  BY <1>1 DEF Typed, Scalars
<1>5. main = "opened" => made \in Calls
  BY DEF Typed, Owners, Scalars, Calls
<1> QED
  BY <1>1, <1>3, <1>4, <1>5 DEF Counted

\* A thread that leaves was counted, so the counter is not 0.
LEMMA CountedLeave ==
  ASSUME Typed, Counted, NEW e \in Clients, Waiting(e), Leave(e), made' = made
  PROVE  Counted'
<1>1. CASE e = 0
  BY <1>1, SameRunning DEF Leave
<1>2. CASE e # 0
  <2>1. e \in Calls /\ thread[e] = "waiting"
    BY <1>2, EndsFacts, WaitingFacts
  <2>2. thread' = [thread EXCEPT ![e] = "ended"] /\ main' = main
        /\ pending' = IF pending > 0 THEN pending - 1 ELSE 0
    BY <1>2 DEF Leave
  <2>3. e \in Running /\ Running' = Running \ {e}
    BY <2>1, <2>2 DEF Running, Typed, Scalars
  <2>4. Cardinality(Running') = Cardinality(Running) - 1
    BY <2>3, RunningFinite, FS_RemoveElement
  <2>5. Cardinality(Running) # 0
    BY <2>3, RunningFinite, FS_EmptySet
  <2>6. pending' = Cardinality(Running')
    BY <2>2, <2>4, <2>5, RunningFinite DEF Counted
  <2>7. main = "opened" => made \in Calls /\ thread[made] \notin {"created", "waiting"}
    BY DEF Typed, Owners, Scalars, Calls, Counted
  <2> QED
    BY <2>1, <2>2, <2>6, <2>7 DEF Counted, Typed, Scalars
<1> QED
  BY <1>1, <1>2

\* With the program all of its threads end.
LEMMA CountedQuit ==
  ASSUME Typed, Counted, Quit
  PROVE  Counted'
<1>1. main' = "ended" /\ pending' = 0
      /\ thread' = [k \in Calls |-> IF thread[k] = "none" THEN "none" ELSE "ended"]
  BY DEF Quit
<1>2. Running' = {}
  BY <1>1 DEF Running
<1> QED
  BY <1>1, <1>2, FS_EmptySet DEF Counted

\* Every step keeps the count.
LEMMA CountedStep ==
  ASSUME Typed, Counted, [Next]_vars
  PROVE  Counted'
<1>1. ASSUME UNCHANGED <<made, main, thread, pending>> PROVE Counted'
  BY <1>1 DEF Counted, Running
<1>2. ASSUME NEW k \in Calls, Reuse(k) \/ Open(k) \/ OpenRefused(k) PROVE Counted'
  BY <1>2, CountedBegin
<1>3. CASE Send
  BY <1>3, CountedSend
<1>4. CASE SendFails
  BY <1>4, SameRunning DEF SendFails
<1>5. CASE SendTimesOut
  BY <1>5, SameRunning DEF SendTimesOut
<1>6. ASSUME NEW k \in Calls, StartThread(k) PROVE Counted'
  BY <1>6, CountedStartThread
<1>7. ASSUME NEW e \in Ends, Looping(e) PROVE Counted'
  BY <1>1, <1>7 DEF Looping, Machine, Read, program
<1>8. ASSUME NEW e \in Clients, Ending(e) \/ Timeout(e) PROVE Counted'
  <2>1. Waiting(e) /\ Leave(e) /\ made' = made
    BY <1>8, TypedRespond, TypedGivesUp DEF Ending
  <2> QED
    BY <2>1, CountedLeave
<1>9. CASE Quit
  BY <1>9, CountedQuit
<1>10. ASSUME NEW how \in {"exited", "terminated"}, Exit(how) PROVE Counted'
  BY <1>1, <1>10 DEF Exit, program
<1>11. CASE Serving \/ ServerTimeout \/ ServeTimesOut
  BY <1>1, <1>10, <1>11
  DEF Serving, Accept, Received, ServerReadFails, ServerTimeout, Serve, ServeTimesOut, ServeFails, Fail,
      CloseConnection, program
<1>12. CASE StartServer \/ UNCHANGED vars
  BY <1>1, <1>12 DEF StartServer, vars, program
<1> QED
  BY <1>2, <1>3, <1>4, <1>6, <1>7, <1>8, <1>9, <1>11, <1>12, <1>5 DEF Next, Calling

\* At first no thread waits.
LEMMA CountedInit == Init => Counted
<1>1. ASSUME Init PROVE Running = {} /\ pending = 0 /\ main = "idle"
  BY <1>1 DEF Init, Running
<1> QED
  BY <1>1, FS_EmptySet DEF Counted

\* The count and what it rests on hold always.
THEOREM AlwaysCounted == Spec => []Counted
<1>1. Typed /\ Counted /\ [Next]_vars => Counted'
  BY CountedStep
<1> QED
  BY <1>1, CountedInit, AlwaysTyped, PTL DEF Spec

\* However threads begin, end or give up, numPendingRequests is the number of
\* threads that wait for a response.
THEOREM PendingCountsHold == Spec => []PendingCounts
<1>1. Counted => PendingCounts
  BY DEF Counted, Running, PendingCounts
<1> QED
  BY <1>1, AlwaysCounted, PTL

-----------------------------------------------------------------------------
(* The connection that each call is made on.                               *)

\* A call is made on a connection not younger than itself, the one that its
\* end has while it is made and waited for.
Ways ==
  /\ via \in [Calls -> 0..MaxCalls] /\ stalled \subseteq Calls
  /\ \A k \in Calls : via[k] <= k /\ (k > made => via[k] = None)
  /\ main \in {"opened", "waiting"} => via[made] = Conn(0)
  /\ \A k \in Calls : thread[k] \in {"created", "waiting"} => via[k] = Conn(k)
  /\ stalled # {} => timedout

\* A call stays with its connection.
Growing ==
  /\ \A k \in Calls : k <= made => via'[k] = via[k]
  /\ stalled \subseteq stalled'

\* A step that makes no call, and after which no more calls are waited for.
LEMMA WaysKeeps ==
  ASSUME Typed, Ways, UNCHANGED <<made, via>>,
         stalled' = stalled \/ (stalled' \subseteq Calls /\ stalled \subseteq stalled' /\ timedout'),
         timedout => timedout',
         main' \in {"opened", "waiting"} => main \in {"opened", "waiting"} /\ Conn(0)' = Conn(0),
         \A k \in Calls : thread'[k] \in {"created", "waiting"} =>
           \/ thread[k] \in {"created", "waiting"} /\ Conn(k)' = Conn(k)
           \/ via[k] = Conn(k)'
  PROVE  Ways' /\ Growing
<1>1. stalled' \subseteq Calls /\ stalled \subseteq stalled' /\ (stalled' # {} => timedout')
  BY DEF Ways
<1>2. Growing
  BY <1>1 DEF Growing
<1> QED
  BY <1>1, <1>2 DEF Ways

\* A call is made on the connection kept, or on one of its own.
LEMMA WaysBegin ==
  ASSUME Typed, Ways, NEW k \in Calls, Reuse(k) \/ Open(k) \/ OpenRefused(k)
  PROVE  Ways' /\ Growing
<1>1. /\ made' = made + 1 /\ k = made' /\ made \in Nat /\ main = "idle" /\ MaxCalls \in Nat
      /\ UNCHANGED <<thread, stalled, timedout>> /\ \A e \in Ends \ {0} : proto'[e] = proto[e]
  <2>1. made' = made + 1 /\ k = made' /\ \A e \in Ends \ {0} : proto'[e] = proto[e]
    BY TypedReuse, TypedOpen, TypedOpenRefused
  <2> QED
    BY <2>1, TypedFacts, MaxCallsAssumption DEF Reuse, Open, OpenRefused, Begin, OnConnection, program
<1>2. PICK c \in 1..k : via' = [via EXCEPT ![k] = c] /\ (main' = "opened" => Conn(0)' = c)
  <2>1. k \in 1..k
    BY EndsFacts
  <2>2. CASE Reuse(k)
    <3>1. Conn(0)' = Conn(0) /\ Conn(0) # None /\ Conn(0) \in 0..made
      BY <2>2, TypedReuse, EndsFacts DEF Typed, Owners
    <3>2. Conn(0) \in 1..k
      BY <1>1, <3>1 DEF None
    <3> QED
      BY <2>2, <3>1, <3>2 DEF Reuse, OnConnection
  <2>3. CASE Open(k)
    BY <2>1, <2>3, TypedOpen DEF Open, OnConnection
  <2>4. CASE OpenRefused(k)
    BY <1>1, <2>1, <2>4 DEF OpenRefused, OnConnection, program
  <2> QED
    BY <2>2, <2>3, <2>4
<1>3. /\ via'[k] = c /\ \A j \in Calls \ {k} : via'[j] = via[j]
      /\ via' \in [Calls -> 0..MaxCalls] /\ k \in Nat /\ k <= MaxCalls
  BY <1>2, MaxCallsAssumption DEF Ways, Calls
<1>4. \A j \in Calls : via'[j] <= j /\ (j > made' => via'[j] = None)
  BY <1>1, <1>2, <1>3, EndsFacts DEF Ways
<1>5. main' \in {"opened", "waiting"} => via'[made'] = Conn(0)'
  <2>1. main' \in {"opened", "idle"}
    BY <1>1 DEF Reuse, Open, OpenRefused, program
  <2> QED
    BY <1>1, <1>2, <1>3, <2>1
<1>6. \A j \in Calls : thread'[j] \in {"created", "waiting"} => via'[j] = Conn(j)'
  <2> SUFFICES ASSUME NEW j \in Calls, thread[j] \in {"created", "waiting"} PROVE via'[j] = Conn(j)'
    BY <1>1
  <2>1. j <= made /\ j \in Nat
    BY EndsFacts DEF Typed, Owners
  <2>2. j # k /\ proto'[j] = proto[j]
    BY <1>1, <2>1, EndsFacts
  <2> QED
    BY <1>3, <2>2 DEF Ways, Conn
<1>7. Growing
  <2>1. \A j \in Calls : j <= made => j # k
    BY <1>1
  <2> QED
    BY <1>1, <1>3, <2>1 DEF Growing
<1>8. stalled' \subseteq Calls /\ (stalled' # {} => timedout')
  BY <1>1 DEF Ways
<1> QED
  BY <1>3, <1>4, <1>5, <1>6, <1>7, <1>8 DEF Ways

\* The call that is sent is waited for on its connection.
LEMMA WaysSend ==
  ASSUME Typed, Ways, Send
  PROVE  Ways' /\ Growing
<1>1. UNCHANGED <<made, via, stalled, timedout>> /\ main = "opened"
  BY DEF Send, history
<1>2. made \in Calls /\ via[made] = Conn(0) /\ Waits(proto[0]).conn = Conn(0)
  BY <1>1, TypedFacts, WaitsType, EndsFacts DEF Ways, Conn
<1>3. main' \in {"opened", "waiting"} => Conn(0)' = Conn(0)
  BY <1>2, TypedSend DEF Conn
<1>4. ASSUME NEW k \in Calls, thread'[k] \in {"created", "waiting"}
      PROVE  \/ thread[k] \in {"created", "waiting"} /\ Conn(k)' = Conn(k)
             \/ via[k] = Conn(k)'
  <2>1. CASE thread' = thread /\ \A e \in Ends \ {0} : proto'[e] = proto[e]
    BY <1>4, <2>1, EndsFacts DEF Conn
  <2>2. CASE /\ thread' = [thread EXCEPT ![made] = "created"] /\ proto'[made] = Waits(proto[0])
             /\ \A e \in Ends \ {0, made} : proto'[e] = proto[e]
    <3>1. CASE k = made
      BY <1>2, <2>2, <3>1 DEF Conn
    <3>2. CASE k # made
      BY <1>4, <2>2, <3>2, EndsFacts DEF Conn, Typed, Scalars
    <3> QED
      BY <3>1, <3>2
  <2> QED
    BY <2>1, <2>2, TypedSend
<1> QED
  BY <1>1, <1>3, <1>4, WaysKeeps

\* Every step keeps the ways.
LEMMA WaysStep ==
  ASSUME Typed, HasData, Ways, [Next]_vars
  PROVE  Ways' /\ Growing
<1>1. ASSUME UNCHANGED <<made, via, stalled, main, thread>>, timedout => timedout',
             \A e \in Clients : Conn(e)' = Conn(e)
      PROVE  Ways' /\ Growing
  BY <1>1, WaysKeeps, EndsFacts
<1>2. ASSUME NEW k \in Calls, Reuse(k) \/ Open(k) \/ OpenRefused(k) PROVE Ways' /\ Growing
  BY <1>2, WaysBegin
<1>3. CASE SendFails
  <2>1. UNCHANGED <<made, via, stalled, timedout, thread>> /\ main' = "idle"
    BY <1>3 DEF SendFails, history
  <2>2. \A k \in Calls : Conn(k)' = Conn(k)
    BY <1>3, TypedSendFails, EndsFacts DEF Conn
  <2> QED
    BY <2>1, <2>2, WaysKeeps
<1>4. CASE SendTimesOut
  <2>1. /\ UNCHANGED <<made, via, thread, proto>> /\ main' = "idle" /\ timedout'
        /\ stalled' = stalled \cup {Conn(0)} /\ Conn(0) \in Calls
    BY <1>4, TypedSendTimesOut
  <2>2. stalled' \subseteq Calls /\ stalled \subseteq stalled'
    BY <2>1 DEF Ways
  <2> QED
    BY <2>1, <2>2, WaysKeeps DEF Conn
<1>5. ASSUME NEW k \in Calls, StartThread(k) PROVE Ways' /\ Growing
  <2>1. UNCHANGED <<made, via, stalled, timedout, main, proto>>
    BY <1>5 DEF StartThread, history
  <2>2. \A j \in Calls : thread'[j] \in {"created", "waiting"} => thread[j] \in {"created", "waiting"}
    BY <1>5, TypedStartThread
  <2> QED
    BY <2>1, <2>2, WaysKeeps DEF Conn
<1>6. ASSUME NEW e \in Ends, Looping(e) PROVE Ways' /\ Growing
  <2>1. UNCHANGED <<made, via, stalled, timedout, main, thread>>
    BY <1>6 DEF Looping, Machine, Read, program, history
  <2>2. \A d \in Clients : Conn(d)' = Conn(d)
    BY <1>6, TypedMachine, TypedRead, EndsFacts DEF Looping, Conn
  <2> QED
    BY <1>1, <2>1, <2>2
<1>7. ASSUME NEW e \in Clients, Ending(e) \/ Timeout(e) PROVE Ways' /\ Growing
  <2>1. Waiting(e) /\ (LeaveOpen(e) \/ LeaveClosed(e)) /\ Leave(e)
        /\ UNCHANGED <<persistent, made, kind, server, far, served>> /\ timedout' \in BOOLEAN
        /\ result' \in [Calls -> {"none", "threw", "transmitted", "response"}]
        /\ answer' \in [Calls -> 0..MaxCalls]
    BY <1>7, TypedRespond, TypedGivesUp DEF Ending, Typed, Scalars
  <2>2. UNCHANGED <<via, stalled>> /\ (timedout => timedout')
    BY <1>7 DEF Ending, Respond, ReadFails, Timeout, Threw, history
  <2>3. /\ \A d \in Ends \ {e} : proto'[d] = proto[d]
        /\ IF e = 0 THEN main' = "idle" /\ thread' = thread
           ELSE main' = main /\ thread' = [thread EXCEPT ![e] = "ended"]
    BY <2>1, TypedLeaves
  <2>4. main' \in {"opened", "waiting"} => main \in {"opened", "waiting"} /\ Conn(0)' = Conn(0)
    BY <2>3, EndsFacts DEF Conn
  <2>5. \A k \in Calls : thread'[k] \in {"created", "waiting"} =>
          thread[k] \in {"created", "waiting"} /\ Conn(k)' = Conn(k)
    BY <2>3, EndsFacts DEF Conn, Typed, Scalars
  <2> QED
    BY <2>1, <2>2, <2>4, <2>5, WaysKeeps
<1>8. CASE Quit
  <2>1. UNCHANGED <<made, via, stalled, timedout>> /\ main' = "ended"
        /\ \A k \in Calls : thread'[k] \notin {"created", "waiting"}
    BY <1>8 DEF Quit, history
  <2> QED
    BY <2>1, WaysKeeps
<1>9. ASSUME NEW how \in {"exited", "terminated"}, Exit(how), server \in {"reading", "serving", "failing"},
             UNCHANGED <<via, stalled>>, timedout => timedout'
      PROVE  Ways' /\ Growing
  <2>1. proto' = [proto EXCEPT ![Server] = NewProtocol] /\ UNCHANGED <<made, main, thread>>
    BY <1>9 DEF Exit, program
  <2>2. \A e \in Clients : Conn(e)' = Conn(e)
    BY <2>1, EndsFacts DEF Conn, Typed, IsFamily
  <2> QED
    BY <1>1, <1>9, <2>1, <2>2
<1>10. CASE Received
  <2>1. server = "reading" /\ UNCHANGED history
    BY <1>10, WaitingFacts DEF Received, Complete
  <2>2. CASE Exit("terminated")
    BY <1>9, <2>1, <2>2 DEF history
  <2>3. CASE UNCHANGED <<made, main, thread, proto>>
    BY <1>1, <2>1, <2>3 DEF history, Conn
  <2> QED
    BY <1>10, <2>2, <2>3 DEF Received, program
<1>11. CASE ServerTimeout \/ ServerReadFails \/ ServeFails \/ Fail
  <2>1. /\ server \in {"reading", "serving", "failing"} /\ Exit("exited")
        /\ UNCHANGED <<via, stalled>> /\ (timedout => timedout')
    BY <1>11, WaitingFacts
    DEF ServerTimeout, ServerReadFails, ServeFails, Fail, WantsMore, history
  <2> QED
    BY <1>9, <2>1
<1>12. CASE Serve \/ ServeTimesOut
  <2>1. Request \in Calls
    BY <1>12, RequestType DEF Serve, ServeTimesOut
  <2>2. /\ UNCHANGED <<made, via, stalled, main, thread>> /\ (timedout => timedout')
        /\ \A e \in Clients : proto'[e] = proto[e]
    <3>1. CASE Serve
      BY <2>1, <3>1, TypedServe, EndsFacts DEF Serve, program
    <3>2. CASE ServeTimesOut
      BY <3>2, EndsFacts DEF ServeTimesOut, program
    <3> QED
      BY <1>12, <3>1, <3>2
  <2> QED
    BY <1>1, <2>2 DEF Conn
<1>13. CASE StartServer \/ (\E c \in Calls : Accept(c)) \/ CloseConnection
  <2>1. UNCHANGED <<made, via, stalled, timedout, main, thread>>
    BY <1>13 DEF StartServer, Accept, CloseConnection, program, history
  <2>2. \A e \in Clients : proto'[e] = proto[e]
    BY <1>13, TypedAccept, TypedCloseConnection DEF StartServer
  <2> QED
    BY <1>1, <2>1, <2>2 DEF Conn
<1>14. CASE UNCHANGED vars
  BY <1>1, <1>14 DEF vars, program, history, Conn
<1> QED
  BY <1>2, <1>3, <1>4, <1>5, <1>6, <1>7, <1>8, <1>10, <1>11, <1>12, <1>13, <1>14, WaysSend
  DEF Next, Calling, Serving

\* Every call stays with the connection that its end had when it was made.
LEMMA AlwaysWays == Spec => []Ways
<1>1. Init => Ways
  <2> SUFFICES ASSUME Init PROVE Ways
    OBVIOUS
  <2>1. via = [k \in Calls |-> None] /\ None \in 0..MaxCalls /\ \A k \in Calls : None <= k
    BY MaxCallsAssumption, EndsFacts DEF Init, None
  <2> QED
    BY <2>1 DEF Init, Ways
<1>2. Typed /\ HasData /\ Ways /\ [Next]_vars => Ways'
  BY WaysStep
<1> QED
  BY <1>1, <1>2, AlwaysTyped, PTL DEF Spec

=============================================================================
