------------------------- MODULE SipProtocol_proofs -------------------------
(***************************************************************************)
(* What the operations of a protocol object keep and change, for letters   *)
(* of any set S and buffers of any size.                                   *)
(***************************************************************************)
EXTENDS SipProtocol, TLAPS

\* The header has as many characters as it is written with.
LEMMA HeaderLength == HeaderLen = 12
BY DEF HeaderLen, Header

States == {"ConnStart", "ConnPendingCR", "ConnPendingHeaderLine", "ConnHeaderLine",
           "ConnSwitchToBody", "ConnBody"}

Protocols(S) ==
  [conn : Nat, state : States, first : BOOLEAN, line : Seq(S), length : Int,
   fields : BOOLEAN, remain : Int, have : Nat, data : Seq(S)]

\* The fields of a protocol object.
LEMMA Fields ==
  ASSUME NEW S, NEW p \in Protocols(S)
  PROVE  /\ p.conn \in Nat /\ p.state \in States /\ p.line \in Seq(S) /\ p.length \in Int
         /\ p.remain \in Int /\ p.have \in Nat /\ p.data \in Seq(S)
         /\ p.first \in BOOLEAN /\ p.fields \in BOOLEAN
BY DEF Protocols

\* A new protocol object is one, without a connection.
LEMMA NewProtocolType ==
  ASSUME NEW S
  PROVE  /\ NewProtocol \in Protocols(S)
         /\ NewProtocol.conn = None /\ NewProtocol.have = 0
         /\ NewProtocol.line = << >> /\ NewProtocol.data = << >>
BY DEF NewProtocol, Protocols, States, None, Missing

\* Setting the connection sets nothing else.
LEMMA ConnType ==
  ASSUME NEW S, NEW p \in Protocols(S), NEW c \in Nat, NEW q, q = [p EXCEPT !.conn = c]
  PROVE  q \in Protocols(S) /\ q.conn = c /\ q.have = p.have /\ q.data = p.data /\ q.line = p.line
BY DEF Protocols

\* resetConnection keeps the connection, the buffer and the data.
LEMMA ResetType ==
  ASSUME NEW S, NEW p \in Protocols(S), NEW q, q = resetConnection(p)
  PROVE  q \in Protocols(S) /\ q.conn = p.conn /\ q.have = p.have /\ q.data = p.data
<1>1. q = [p EXCEPT !.first = FALSE, !.line = << >>, !.state = "ConnStart", !.remain = -1]
  BY DEF resetConnection, clearSipInfo, Protocols
<1>2. << >> \in Seq(S) /\ -1 \in Int
  OBVIOUS
<1> QED
  BY <1>1, <1>2 DEF Protocols, States

\* clearSipHeader keeps all but the properties.
LEMMA ClearType ==
  ASSUME NEW S, NEW p \in Protocols(S), NEW q, q = clearSipHeader(p)
  PROVE  q \in Protocols(S) /\ q.conn = p.conn /\ q.have = p.have /\ q.data = p.data
<1>1. Missing \in Int /\ FALSE \in BOOLEAN
  BY DEF Missing
<1>2. q = [p EXCEPT !.length = Missing, !.fields = FALSE]
  BY DEF clearSipHeader
<1> QED
  BY <1>1, <1>2 DEF Protocols

\* A wait begins with an empty buffer and no data.
LEMMA BeginWaitType ==
  ASSUME NEW S, NEW p \in Protocols(S), NEW q, q = BeginWait(p)
  PROVE  q \in Protocols(S) /\ q.conn = p.conn /\ q.have = 0 /\ q.data = << >>
<1>1. << >> \in Seq(S) /\ 0 \in Nat
  OBVIOUS
<1>2. q = [p EXCEPT !.have = 0, !.data = << >>]
  BY DEF BeginWait
<1>3. PICK d \in Seq(S), h \in Nat : q = [p EXCEPT !.have = h, !.data = d] /\ d = << >> /\ h = 0
  BY <1>1, <1>2
<1>4. q \in Protocols(S) /\ q.conn = p.conn /\ q.have = h /\ q.data = d
  BY <1>3 DEF Protocols
<1> QED
  BY <1>3, <1>4

\* readRaw changes only what the buffer has and what remains.
LEMMA ReadType ==
  ASSUME NEW S, NEW p \in Protocols(S), NEW n \in Nat, NEW q, q = readRaw(p, n)
  PROVE  q \in Protocols(S) /\ q.conn = p.conn /\ q.have = n /\ q.data = p.data
<1>1. p.remain - n \in Int
  BY Fields
<1> QED
  BY <1>1 DEF readRaw, Protocols

\* readRaw reads no more than a buffer.
LEMMA ReadLimitBound ==
  ASSUME NEW S, NEW p \in Protocols(S)
  PROVE  ReadLimit(p) \in Nat /\ ReadLimit(p) <= Buffer
BY Fields, BufferAssumption DEF ReadLimit

\* One iteration of connectionMachine, s being the stream: it consumes none,
\* one or, in the body, all of the characters in the buffer, and appends them
\* to the data in the body only.
LEMMA MachineType ==
  ASSUME NEW S, \A t \in S : t.body \in Nat,
         NEW p \in Protocols(S), NEW s \in Seq(S), p.have <= Len(s), Busy(p),
         NEW q, q = connectionMachine(p, s)
  PROVE  /\ q \in Protocols(S) /\ q.conn = p.conn /\ q.have <= p.have
         /\ \/ q.data = p.data
            \/ q.data = p.data \o SubSeq(s, 1, p.have) /\ q.have = 0
<1>1. CASE p.state = "ConnStart"
  <2>1. q = [p EXCEPT !.first = FALSE, !.line = << >>, !.state = "ConnHeaderLine"]
    BY <1>1 DEF connectionMachine, clearSipInfo, Protocols
  <2>2. << >> \in Seq(S)
    OBVIOUS
  <2>3. q \in Protocols(S) /\ q.conn = p.conn /\ q.have = p.have /\ q.data = p.data
    BY <2>1, <2>2 DEF Protocols, States
  <2> QED
    BY <2>3, Fields
<1>2. CASE p.state = "ConnPendingCR"
  <2>1. p.have - 1 \in Nat
    BY <1>2, Fields DEF Busy
  <2>2. q = PendingCR(p, Char(Head(s)))
    BY <1>2 DEF connectionMachine
  <2>3. q \in Protocols(S) /\ q.conn = p.conn /\ q.have \in {p.have, p.have - 1} /\ q.data = p.data
    BY <2>1, <2>2 DEF PendingCR, Protocols, States
  <2> QED
    BY <2>1, <2>3, Fields
<1>3. CASE p.state = "ConnPendingHeaderLine"
  <2>1. q = PendingHeaderLine(p)
    BY <1>3 DEF connectionMachine
  <2> DEFINE value == IF Len(p.line) > 1 /\ Char(p.line[2]) = "length" THEN p.line[2].body ELSE 0
             known == Char(Head(p.line)) = "name"
  <2>2. value \in Int /\ << >> \in Seq(S) /\ p.fields \in BOOLEAN /\ p.length \in Int
    BY Fields
  <2>3. \E b \in BOOLEAN, f \in BOOLEAN, n \in Int :
          q = [p EXCEPT !.first = b, !.line = << >>, !.length = n, !.fields = f,
                        !.state = "ConnHeaderLine"]
    <3>1. CASE ~p.first
      <4>1. q = [p EXCEPT !.first = TRUE, !.line = << >>, !.state = "ConnHeaderLine"]
        BY <2>1, <3>1 DEF PendingHeaderLine, parseHeaderLine, Protocols
      <4>2. q = [p EXCEPT !.first = TRUE, !.line = << >>, !.length = p.length, !.fields = p.fields,
                          !.state = "ConnHeaderLine"]
        BY <4>1 DEF Protocols
      <4> QED
        BY <4>2, <2>2
    <3>2. CASE p.first
      <4> DEFINE n == IF known /\ p.length = Missing THEN value ELSE p.length
                 f == p.fields \/ Char(Head(p.line)) = "fields"
      <4>1. parseHeaderLine(p) = [p EXCEPT !.line = << >>, !.length = n, !.fields = f]
        BY <3>2 DEF parseHeaderLine
      <4>2. n \in Int /\ f \in BOOLEAN
        BY <2>2
      <4> HIDE DEF n, f
      <4>3. q = [p EXCEPT !.first = TRUE, !.line = << >>, !.length = n, !.fields = f,
                          !.state = "ConnHeaderLine"]
        BY <2>1, <3>2, <4>1 DEF PendingHeaderLine, Protocols
      <4> QED
        BY <4>2, <4>3
    <3> QED
      BY <3>1, <3>2
  <2>4. q \in Protocols(S) /\ q.conn = p.conn /\ q.have = p.have /\ q.data = p.data
    <3>1. PICK b \in BOOLEAN, f \in BOOLEAN, n \in Int :
            q = [p EXCEPT !.first = b, !.line = << >>, !.length = n, !.fields = f,
                          !.state = "ConnHeaderLine"]
      BY <2>3
    <3>2. << >> \in Seq(S)
      BY <2>2
    <3> HIDE DEF value, known
    <3>3. PICK l \in Seq(S) :
            q = [p EXCEPT !.first = b, !.line = l, !.length = n, !.fields = f,
                          !.state = "ConnHeaderLine"]
      BY <3>1, <3>2
    <3> QED
      BY <3>3 DEF Protocols, States
  <2> QED
    BY <2>4, Fields
<1>4. CASE p.state = "ConnHeaderLine"
  <2>1. p.have - 1 \in Nat /\ Head(s) \in S
    BY <1>4, Fields DEF Busy
  <2>2. Append(p.line, Head(s)) \in Seq(S)
    BY <2>1, Fields
  <2>3. q = HeaderLine(p, Head(s))
    BY <1>4 DEF connectionMachine
  <2>4. q \in Protocols(S) /\ q.conn = p.conn /\ q.have = p.have - 1 /\ q.data = p.data
    BY <2>1, <2>2, <2>3, <1>4 DEF HeaderLine, Protocols, States
  <2> QED
    BY <2>1, <2>4, Fields
<1>5. CASE p.state = "ConnSwitchToBody"
  <2>1. q = machine_switchToBody(p)
    BY <1>5 DEF connectionMachine
  <2>2. p.length - p.have \in Int
    BY Fields
  <2>3. q \in Protocols(S) /\ q.conn = p.conn /\ q.have = p.have /\ q.data = p.data
    BY <2>1, <2>2 DEF machine_switchToBody, Protocols, States
  <2> QED
    BY <2>3, Fields
<1>6. CASE p.state = "ConnBody"
  <2>1. q = [p EXCEPT !.data = @ \o SubSeq(s, 1, p.have), !.have = 0]
    BY <1>6 DEF connectionMachine, AppendBody
  <2>2. p.data \o SubSeq(s, 1, p.have) \in Seq(S)
    BY Fields
  <2>3. q \in Protocols(S) /\ q.conn = p.conn /\ q.have = 0 /\ q.data = p.data \o SubSeq(s, 1, p.have)
    <3> DEFINE d == p.data \o SubSeq(s, 1, p.have)
    <3> HIDE DEF d
    <3>1. 0 \in Nat /\ d \in Seq(S) /\ q = [p EXCEPT !.have = 0, !.data = d]
      BY <2>1, <2>2 DEF d, Protocols
    <3>2. q \in Protocols(S) /\ q.conn = p.conn /\ q.have = 0 /\ q.data = d
      BY <3>1 DEF Protocols
    <3> QED
      BY <3>2 DEF d
  <2> QED
    BY <2>3, Fields
<1> QED
  BY <1>1, <1>2, <1>3, <1>4, <1>5, <1>6, Fields DEF States

-----------------------------------------------------------------------------
(* Reading one message from its first character.                           *)

\* The characters of a message's header: three lines and an empty one.
LEMMA HeaderChars ==
  /\ Header[1] = "start" /\ Header[2] = "cr" /\ Header[3] = "lf"
  /\ Header[4] = "fields" /\ Header[5] = "cr" /\ Header[6] = "lf"
  /\ Header[7] = "name" /\ Header[8] = "length" /\ Header[9] = "cr"
  /\ Header[10] = "lf" /\ Header[11] = "cr" /\ Header[12] = "lf"
BY DEF Header

\* Where the characters stand that the machine tells apart.
LEMMA CharOf ==
  ASSUME NEW m, NEW len \in Nat \ {0}, NEW i \in 1..(12 + len)
  PROVE  LET c == Char(Letter(m, i, len)) IN
         /\ c = "cr" <=> i \in {2, 5, 9, 11}
         /\ c = "lf" <=> i \in {3, 6, 10, 12, 12 + len}
         /\ c = "name" <=> i = 7
         /\ c = "fields" <=> i = 4
         /\ c = "length" <=> i = 8
<1>1. CASE i \in 13..(12 + len)
  BY <1>1, HeaderLength DEF Char, Letter
<1>2. CASE i \in 1..12
  <2>1. Char(Letter(m, i, len)) = Header[i]
    BY <1>2, HeaderLength DEF Char, Letter
  <2> QED
    BY <1>2, <2>1, HeaderChars
<1> QED
  BY <1>1, <1>2

\* A header line begins after as many characters, and has as many, without its end.
Starts     == {0, 3, 6, 10}
LineLen(j) == IF j = 6 THEN 2 ELSE IF j = 10 THEN 0 ELSE 1

\* What is known when the lines before the j-th character have been parsed.
Known(p, j, len) ==
  /\ p.first <=> j >= 3
  /\ p.fields <=> j >= 6
  /\ p.length = IF j = 10 THEN len ELSE Missing

\* The line begun after j characters holds l of them.
LineIs(p, j, l, m, len) ==
  /\ Len(p.line) = l /\ \A i \in 1..l : p.line[i] = Letter(m, j + i, len)
  /\ Known(p, j, len)

AtStart(p, n) == n = 0 /\ ~p.fields /\ p.length = Missing
InLine(p, n, m, len) ==
  \E j \in Starts : n - j \in 0..LineLen(j) /\ LineIs(p, j, n - j, m, len)
AtCR(p, n, m, len) ==
  \E j \in Starts : n = j + LineLen(j) + 1 /\ LineIs(p, j, LineLen(j), m, len)
AtEnd(p, n, m, len) ==
  \E j \in Starts \ {10} : n = j + LineLen(j) + 2 /\ LineIs(p, j, LineLen(j), m, len)
AtSwitch(p, n, len) == n = 12 /\ p.length = len /\ p.fields
InBody(p, n, m, len) ==
  /\ p.length = len /\ p.fields
  /\ n = 12 + Len(p.data)
  /\ \A i \in 1..Len(p.data) : p.data[i] = Letter(m, 12 + i, len)
  /\ p.remain = len - Len(p.data) - p.have /\ p.remain >= 0

\* The protocol object p has consumed the first n characters of message m.
Follows(p, n, m, len) ==
  /\ p.state = "ConnStart" => AtStart(p, n)
  /\ p.state = "ConnHeaderLine" => InLine(p, n, m, len)
  /\ p.state = "ConnPendingCR" => AtCR(p, n, m, len)
  /\ p.state = "ConnPendingHeaderLine" => AtEnd(p, n, m, len)
  /\ p.state = "ConnSwitchToBody" => AtSwitch(p, n, len)
  /\ p.state = "ConnBody" => InBody(p, n, m, len)
  /\ p.state # "ConnBody" => p.remain = -1 /\ p.data = << >>

\* The machine starts: no character is consumed.
LEMMA FollowsStart ==
  ASSUME NEW S, NEW p \in Protocols(S), NEW m, NEW len \in Nat \ {0}, NEW n \in Nat,
         p.state = "ConnStart", Follows(p, n, m, len),
         NEW q, q = [clearSipInfo(p) EXCEPT !.state = "ConnHeaderLine"]
  PROVE  q.have = p.have /\ Follows(q, n, m, len)
<1>1. q = [p EXCEPT !.first = FALSE, !.line = << >>, !.state = "ConnHeaderLine"]
  BY DEF clearSipInfo, Protocols
<1>2. /\ q.have = p.have /\ q.line = << >> /\ q.state = "ConnHeaderLine" /\ ~q.first
      /\ q.length = p.length /\ q.remain = p.remain /\ q.data = p.data /\ (q.fields <=> p.fields)
  BY <1>1 DEF Protocols
<1>3. n = 0 /\ ~p.fields /\ p.length = Missing /\ p.remain = -1 /\ p.data = << >>
  BY Fields DEF Follows, AtStart
<1>4. Len(q.line) = 0
  BY <1>2
<1>5. LineIs(q, 0, 0, m, len)
  BY <1>2, <1>3, <1>4 DEF LineIs, Known
<1>6. InLine(q, n, m, len)
  BY <1>3, <1>5 DEF InLine, Starts, LineLen
<1> QED
  BY <1>2, <1>3, <1>6 DEF Follows

\* What Append returns.
LEMMA AppendFacts ==
  ASSUME NEW S, NEW s \in Seq(S), NEW t \in S, NEW l \in Nat, Len(s) = l
  PROVE  /\ Append(s, t) \in Seq(S) /\ Len(Append(s, t)) = l + 1 /\ Append(s, t)[l + 1] = t
         /\ \A i \in 1..l : Append(s, t)[i] = s[i]
OBVIOUS

\* A character of a header line is the next of the message.
LEMMA FollowsHeaderLine ==
  ASSUME NEW S, NEW p \in Protocols(S), NEW m, NEW len \in Nat \ {0}, NEW n \in Nat,
         p.state = "ConnHeaderLine", Follows(p, n, m, len), p.have \in Nat \ {0},
         NEW t \in S, t = Letter(m, n + 1, len), NEW q, q = HeaderLine(p, t)
  PROVE  q.have = p.have - 1 /\ Follows(q, n + 1, m, len)
<1>1. PICK j \in Starts : n - j \in 0..LineLen(j) /\ LineIs(p, j, n - j, m, len)
  BY DEF Follows, InLine
<1>2. n + 1 \in 1..(12 + len) /\ LineLen(j) \in Nat /\ j \in Nat
  BY <1>1 DEF Starts, LineLen
<1>3. PICK l \in Nat : l = n - j /\ l <= LineLen(j) /\ n = j + l /\ n + 1 = j + (l + 1)
                      /\ n + 1 - j = l + 1
  BY <1>1, <1>2
<1>4. p.line \in Seq(S) /\ Len(p.line) = l /\ Known(p, j, len)
      /\ \A i \in 1..l : p.line[i] = Letter(m, j + i, len)
  BY <1>1, <1>3, Fields DEF LineIs
<1>5. CASE l # LineLen(j)
  <2>1. Char(t) \notin {"cr", "lf"}
    <3>1. n + 1 \notin {2, 5, 9, 11} /\ n + 1 \notin {3, 6, 10, 12, 12 + len}
      BY <1>2, <1>3, <1>5 DEF Starts, LineLen
    <3> QED
      BY <1>2, <3>1, CharOf
  <2>2. q = [p EXCEPT !.have = p.have - 1, !.line = Append(p.line, t), !.state = p.state]
    BY <2>1 DEF HeaderLine
  <2>3. /\ q.have = p.have - 1 /\ q.line = Append(p.line, t) /\ q.state = "ConnHeaderLine"
        /\ q.length = p.length /\ q.remain = p.remain /\ q.data = p.data
        /\ (q.first <=> p.first) /\ (q.fields <=> p.fields)
    BY <2>2 DEF Protocols
  <2>4. /\ Len(q.line) = l + 1 /\ q.line[l + 1] = Letter(m, j + (l + 1), len)
        /\ \A i \in 1..l : q.line[i] = Letter(m, j + i, len)
    BY <1>3, <1>4, <2>3, AppendFacts
  <2>5. \A i \in 1..(l + 1) : i \in 1..l \/ i = l + 1
    OBVIOUS
  <2>6. LineIs(q, j, l + 1, m, len)
    BY <1>4, <2>3, <2>4, <2>5 DEF LineIs, Known
  <2>7. l + 1 \in 0..LineLen(j)
    BY <1>2, <1>3, <1>5
  <2>8. InLine(q, n + 1, m, len)
    <3>1. PICK k \in Nat : k = n + 1
      OBVIOUS
    <3>2. k - j = l + 1
      BY <1>2, <1>3, <3>1
    <3>3. k - j \in 0..LineLen(j) /\ LineIs(q, j, k - j, m, len)
      BY <2>6, <2>7, <3>2
    <3>4. InLine(q, k, m, len)
      BY <3>3 DEF InLine
    <3> QED
      BY <3>1, <3>4
  <2> QED
    BY <2>3, <2>8 DEF Follows
<1>6. CASE l = LineLen(j)
  <2>1. Char(t) = "cr"
    <3>1. n + 1 \in {2, 5, 9, 11}
      BY <1>2, <1>3, <1>6 DEF Starts, LineLen
    <3> QED
      BY <1>2, <3>1, CharOf
  <2>2. q = [p EXCEPT !.have = p.have - 1, !.line = p.line, !.state = "ConnPendingCR"]
    BY <2>1 DEF HeaderLine
  <2>3. /\ q.have = p.have - 1 /\ q.line = p.line /\ q.state = "ConnPendingCR"
        /\ q.length = p.length /\ q.remain = p.remain /\ q.data = p.data
        /\ (q.first <=> p.first) /\ (q.fields <=> p.fields)
    BY <2>2 DEF Protocols
  <2>4. LineIs(q, j, LineLen(j), m, len)
    BY <1>4, <1>6, <2>3 DEF LineIs, Known
  <2>5. n + 1 = j + LineLen(j) + 1
    BY <1>2, <1>3, <1>6
  <2>6. AtCR(q, n + 1, m, len)
    BY <2>4, <2>5 DEF AtCR
  <2> QED
    BY <2>3, <2>6 DEF Follows
<1> QED
  BY <1>5, <1>6

\* The line feed after a carriage return ends the line, or the header.
LEMMA FollowsPendingCR ==
  ASSUME NEW S, NEW p \in Protocols(S), NEW m, NEW len \in Nat \ {0}, NEW n \in Nat,
         p.state = "ConnPendingCR", Follows(p, n, m, len), p.have \in Nat \ {0},
         NEW q, q = PendingCR(p, Char(Letter(m, n + 1, len)))
  PROVE  q.have = p.have - 1 /\ Follows(q, n + 1, m, len)
<1>1. PICK j \in Starts : n = j + LineLen(j) + 1 /\ LineIs(p, j, LineLen(j), m, len)
  BY DEF Follows, AtCR
<1>2. Char(Letter(m, n + 1, len)) = "lf"
  <2>1. n + 1 \in 1..(12 + len) /\ n + 1 \in {3, 6, 10, 12}
    BY <1>1 DEF Starts, LineLen
  <2> QED
    BY <2>1, CharOf
<1>3. q = [p EXCEPT !.state = IF p.line = << >> THEN "ConnSwitchToBody" ELSE "ConnPendingHeaderLine",
                    !.have  = p.have - 1]
  BY <1>2 DEF PendingCR
<1>4. /\ q.have = p.have - 1 /\ q.line = p.line /\ q.length = p.length
      /\ q.remain = p.remain /\ q.data = p.data
      /\ (q.first <=> p.first) /\ (q.fields <=> p.fields)
      /\ q.state = IF p.line = << >> THEN "ConnSwitchToBody" ELSE "ConnPendingHeaderLine"
  BY <1>3 DEF Protocols
<1>5. p.line \in Seq(S) /\ Len(p.line) = LineLen(j)
  BY <1>1, Fields DEF LineIs
<1>6. CASE j = 10
  <2>1. n = 11 /\ p.line = << >> /\ p.length = len /\ p.fields
    <3>1. n = 11 /\ p.line = << >>
      BY <1>1, <1>5, <1>6 DEF LineLen
    <3>2. p.length = len /\ p.fields
      BY <1>1, <1>6 DEF LineIs, Known
    <3> QED
      BY <3>1, <3>2
  <2>2. q.state = "ConnSwitchToBody"
    BY <1>4, <2>1
  <2>3. AtSwitch(q, n + 1, len)
    BY <1>4, <2>1 DEF AtSwitch
  <2> QED
    BY <1>4, <2>2, <2>3 DEF Follows
<1>7. CASE j # 10
  <2>1. p.line # << >> /\ n + 1 = j + LineLen(j) + 2
    BY <1>1, <1>5, <1>7 DEF LineLen, Starts
  <2>2. q.state = "ConnPendingHeaderLine"
    BY <1>4, <2>1
  <2>3. LineIs(q, j, LineLen(j), m, len)
    BY <1>1, <1>4 DEF LineIs, Known
  <2>4. AtEnd(q, n + 1, m, len)
    BY <1>7, <2>1, <2>3 DEF AtEnd
  <2> QED
    BY <1>4, <2>2, <2>4 DEF Follows
<1> QED
  BY <1>6, <1>7

\* A whole line has been read: it is the start line, or tells a property.
LEMMA FollowsPendingHeaderLine ==
  ASSUME NEW S, NEW p \in Protocols(S), NEW m, NEW len \in Nat \ {0}, NEW n \in Nat,
         p.state = "ConnPendingHeaderLine", Follows(p, n, m, len),
         NEW q, q = PendingHeaderLine(p)
  PROVE  q.have = p.have /\ Follows(q, n, m, len)
<1>1. PICK j \in Starts \ {10} : n = j + LineLen(j) + 2 /\ LineIs(p, j, LineLen(j), m, len)
  BY DEF Follows, AtEnd
<1>2. j \in Nat /\ j + 1 \in 1..(12 + len) /\ LineLen(j) \in {1, 2} /\ n \in Starts
      /\ ((j = 0 /\ n = 3) \/ (j = 3 /\ n = 6) \/ (j = 6 /\ n = 10))
  BY <1>1 DEF Starts, LineLen
<1>3. p.line \in Seq(S) /\ Head(p.line) = Letter(m, j + 1, len)
  BY <1>1, <1>2, Fields DEF LineIs
<1>4. /\ Char(Head(p.line)) = "name" <=> j = 6
      /\ Char(Head(p.line)) = "fields" <=> j = 3
  <2>1. /\ Char(Letter(m, j + 1, len)) = "name" <=> j + 1 = 7
        /\ Char(Letter(m, j + 1, len)) = "fields" <=> j + 1 = 4
    BY <1>2, CharOf
  <2> QED
    BY <1>2, <1>3, <2>1
<1>5. Known(p, j, len)
  BY <1>1 DEF LineIs
<1>6. /\ q.have = p.have /\ q.line = << >> /\ q.state = "ConnHeaderLine"
      /\ q.remain = p.remain /\ q.data = p.data
      /\ Known(q, n, len)
  <2>1. CASE j = 0
    <3>1. ~p.first /\ ~p.fields /\ p.length = Missing /\ n = 3
      BY <1>2, <1>5, <2>1 DEF Known
    <3>2. q = [p EXCEPT !.first = TRUE, !.line = << >>, !.state = "ConnHeaderLine"]
      BY <3>1 DEF PendingHeaderLine, parseHeaderLine, Protocols
    <3>3. /\ q.have = p.have /\ q.line = << >> /\ q.state = "ConnHeaderLine"
          /\ q.remain = p.remain /\ q.data = p.data /\ q.length = p.length
          /\ q.first /\ (q.fields <=> p.fields)
      BY <3>2 DEF Protocols
    <3> QED
      BY <3>1, <3>3 DEF Known
  <2>2. CASE j # 0
    <3> DEFINE value == IF Len(p.line) > 1 /\ Char(p.line[2]) = "length" THEN p.line[2].body ELSE 0
               v == IF Char(Head(p.line)) = "name" /\ p.length = Missing THEN value ELSE p.length
    <3>1. p.first /\ p.length = Missing /\ (p.fields <=> j = 6)
      BY <1>2, <1>5, <2>2 DEF Known
    <3>2. v = IF j = 6 THEN len ELSE Missing
      <4>1. j = 6 => value = len
        <5>1. j = 6 => Len(p.line) = 2 /\ p.line[2] = Letter(m, j + 2, len)
          BY <1>1 DEF LineIs, LineLen
        <5>2. Char(Letter(m, 8, len)) = "length" /\ Letter(m, 8, len).body = len
          BY CharOf DEF Letter
        <5> QED
          BY <5>1, <5>2
      <4> HIDE DEF value
      <4> QED
        BY <1>4, <3>1, <4>1
    <3> HIDE DEF v
    <3>3. parseHeaderLine(p) = [p EXCEPT !.line = << >>, !.length = v,
                                         !.fields = @ \/ Char(Head(p.line)) = "fields"]
      BY <3>1 DEF parseHeaderLine, v
    <3>4. q = [p EXCEPT !.line = << >>, !.length = v, !.state = "ConnHeaderLine",
                        !.fields = p.fields \/ Char(Head(p.line)) = "fields"]
      BY <3>3 DEF PendingHeaderLine, Protocols
    <3>5. /\ q.have = p.have /\ q.line = << >> /\ q.state = "ConnHeaderLine"
          /\ q.remain = p.remain /\ q.data = p.data /\ q.length = v
          /\ (q.first <=> p.first)
          /\ (q.fields <=> (p.fields \/ Char(Head(p.line)) = "fields"))
      BY <3>4 DEF Protocols
    <3>6. q.fields
      BY <1>2, <1>4, <2>2, <3>1, <3>5
    <3>7. q.first /\ q.length = IF n = 10 THEN len ELSE Missing
      BY <1>2, <2>2, <3>1, <3>2, <3>5
    <3>8. n >= 6
      BY <1>2, <2>2
    <3> QED
      BY <3>5, <3>6, <3>7, <3>8, <1>2 DEF Known
  <2> QED
    BY <2>1, <2>2
<1>7. Len(q.line) = 0
  BY <1>6
<1>8. LineIs(q, n, 0, m, len)
  BY <1>6, <1>7 DEF LineIs
<1>9. InLine(q, n, m, len)
  <2>1. n - n = 0 /\ n - n \in 0..LineLen(n)
    BY <1>2 DEF LineLen
  <2> QED
    BY <1>2, <1>8, <2>1 DEF InLine
<1> QED
  BY <1>6, <1>9 DEF Follows

\* At the end of the header what remains of the body is its length, less
\* what the buffer holds already.
LEMMA FollowsSwitch ==
  ASSUME NEW S, NEW p \in Protocols(S), NEW m, NEW len \in Nat \ {0}, NEW n \in Nat,
         p.state = "ConnSwitchToBody", Follows(p, n, m, len), n + p.have <= 12 + len,
         NEW q, q = machine_switchToBody(p)
  PROVE  q.have = p.have /\ Follows(q, n, m, len)
<1>1. n = 12 /\ p.length = len /\ p.fields /\ p.data = << >> /\ p.have \in Nat
  BY Fields DEF Follows, AtSwitch
<1>2. p.length # Missing
  BY <1>1 DEF Missing
<1>3. q = [p EXCEPT !.state = "ConnBody", !.remain = len - p.have]
  BY <1>1, <1>2 DEF machine_switchToBody
<1>4. /\ q.have = p.have /\ q.data = << >> /\ q.length = len /\ q.fields
      /\ q.state = "ConnBody" /\ q.remain = len - p.have
  BY <1>1, <1>3 DEF Protocols
<1>5. Len(q.data) = 0
  BY <1>4
<1>6. len - p.have >= 0 /\ len - p.have = len - 0 - p.have /\ 12 = 12 + 0
  BY <1>1
<1>7. InBody(q, n, m, len)
  BY <1>1, <1>4, <1>5, <1>6 DEF InBody
<1> QED
  BY <1>4, <1>7 DEF Follows

\* What the concatenation with the beginning of a sequence returns.
LEMMA ConcatFacts ==
  ASSUME NEW S, NEW d \in Seq(S), NEW s \in Seq(S), NEW h \in Nat, h <= Len(s)
  PROVE  /\ d \o SubSeq(s, 1, h) \in Seq(S) /\ Len(d \o SubSeq(s, 1, h)) = Len(d) + h
         /\ \A i \in 1..Len(d) : (d \o SubSeq(s, 1, h))[i] = d[i]
         /\ \A i \in 1..h : (d \o SubSeq(s, 1, h))[Len(d) + i] = s[i]
OBVIOUS

\* The characters in the buffer are appended to the body that was read.
LEMMA FollowsBody ==
  ASSUME NEW S, NEW p \in Protocols(S), NEW m, NEW len \in Nat \ {0}, NEW n \in Nat,
         p.state = "ConnBody", Follows(p, n, m, len),
         NEW s \in Seq(S), p.have <= Len(s),
         \A i \in 1..p.have : s[i] = Letter(m, n + i, len),
         NEW q, q = AppendBody(p, s)
  PROVE  q.have = 0 /\ Follows(q, n + p.have, m, len)
<1> DEFINE d == p.data \o SubSeq(s, 1, p.have)
           l == Len(p.data)
<1>1. p.data \in Seq(S) /\ l \in Nat /\ p.have \in Nat
  BY Fields
<1>2. InBody(p, n, m, len)
  BY DEF Follows
<1>3. Len(d) = l + p.have /\ \A i \in 1..(l + p.have) : d[i] = Letter(m, 12 + i, len)
  <2>1. /\ Len(d) = l + p.have
        /\ \A i \in 1..l : d[i] = p.data[i]
        /\ \A i \in 1..p.have : d[l + i] = s[i]
    <3>1. PICK v \in Seq(S), h \in Nat : v = p.data /\ h = p.have
      BY <1>1
    <3> h <= Len(s)
      BY <3>1
    <3>2. /\ Len(v \o SubSeq(s, 1, h)) = Len(v) + h
          /\ \A i \in 1..Len(v) : (v \o SubSeq(s, 1, h))[i] = v[i]
          /\ \A i \in 1..h : (v \o SubSeq(s, 1, h))[Len(v) + i] = s[i]
      BY ConcatFacts
    <3> QED
      BY <3>1, <3>2
  <2> HIDE DEF d
  <2> SUFFICES ASSUME NEW i \in 1..(l + p.have) PROVE d[i] = Letter(m, 12 + i, len)
    BY <2>1
  <2>2. CASE i \in 1..l
    BY <1>2, <2>1, <2>2 DEF InBody
  <2>3. CASE i \notin 1..l
    <3>1. n = 12 + l /\ i \in Nat
      BY <1>1, <1>2 DEF InBody
    <3> HIDE DEF l
    <3>2. PICK k \in Nat : k = i - l
      BY <1>1, <2>3, <3>1
    <3>3. k \in 1..p.have /\ l + k = i /\ n + k = 12 + i
      BY <1>1, <2>3, <3>1, <3>2
    <3> QED
      BY <2>1, <3>3
  <2> QED
    BY <2>2, <2>3
<1>4. q = [p EXCEPT !.data = d, !.have = 0]
  BY DEF AppendBody
<1> HIDE DEF d
<1>5. /\ q.have = 0 /\ q.data = d /\ q.length = p.length /\ q.remain = p.remain
      /\ q.state = "ConnBody" /\ (q.fields <=> p.fields)
  BY <1>4 DEF Protocols
<1>6. n = 12 + l /\ p.remain = len - l - p.have /\ p.remain >= 0 /\ p.length = len /\ p.fields
  BY <1>2 DEF InBody
<1> HIDE DEF l
<1>7. n + p.have = 12 + Len(q.data) /\ q.remain = len - Len(q.data) - q.have /\ q.remain >= 0
  <2>1. Len(q.data) = l + p.have /\ q.have = 0 /\ q.remain = p.remain
    BY <1>3, <1>5
  <2>2. PICK h \in Nat, x \in Nat, r \in Int : h = p.have /\ x = l /\ r = p.remain
    BY <1>1, Fields
  <2>3. n = 12 + x /\ r = len - x - h /\ r >= 0
    BY <1>6, <2>2
  <2>4. n + h = 12 + (x + h) /\ r = len - (x + h) - 0
    BY <2>3
  <2> QED
    BY <1>6, <2>1, <2>2, <2>4
<1>8. InBody(q, n + p.have, m, len)
  BY <1>3, <1>5, <1>6, <1>7 DEF InBody
<1> QED
  BY <1>5, <1>8 DEF Follows

\* Before the body at most the header has been consumed.
LEMMA FollowsBound ==
  ASSUME NEW S, NEW p \in Protocols(S), NEW m, NEW len \in Nat \ {0}, NEW n \in Nat,
         Follows(p, n, m, len), p.state # "ConnBody"
  PROVE  n <= 12
<1>1. CASE p.state = "ConnHeaderLine"
  <2>1. PICK j \in Starts : n - j \in 0..LineLen(j)
    BY <1>1 DEF Follows, InLine
  <2> QED
    BY <2>1 DEF Starts, LineLen
<1>2. CASE p.state = "ConnPendingCR"
  <2>1. PICK j \in Starts : n = j + LineLen(j) + 1
    BY <1>2 DEF Follows, AtCR
  <2> QED
    BY <2>1 DEF Starts, LineLen
<1>3. CASE p.state = "ConnPendingHeaderLine"
  <2>1. PICK j \in Starts \ {10} : n = j + LineLen(j) + 2
    BY <1>3 DEF Follows, AtEnd
  <2> QED
    BY <2>1 DEF Starts, LineLen
<1>4. CASE p.state \in {"ConnStart", "ConnSwitchToBody"}
  BY <1>4 DEF Follows, AtStart, AtSwitch
<1> QED
  BY <1>1, <1>2, <1>3, <1>4, Fields DEF States

\* One iteration of the machine, the buffer holding the next characters of m:
\* what it takes off the buffer is what it consumes of m.
LEMMA FollowsMachine ==
  ASSUME NEW S, NEW p \in Protocols(S), NEW m, NEW len \in Nat \ {0}, NEW n \in Nat,
         Follows(p, n, m, len), Busy(p), n + p.have <= 12 + len,
         NEW s \in Seq(S), p.have <= Len(s),
         \A i \in 1..p.have : s[i] = Letter(m, n + i, len),
         NEW q, q = connectionMachine(p, s)
  PROVE  \E k \in Nat : q.have = p.have - k /\ k <= p.have /\ Follows(q, n + k, m, len)
<1>1. p.have \in Nat
  BY Fields
<1>2. ASSUME p.have \in Nat \ {0} PROVE Head(s) \in S /\ Head(s) = Letter(m, n + 1, len)
  BY <1>2
<1>3. CASE p.state = "ConnStart"
  <2>1. q.have = p.have /\ Follows(q, n, m, len)
    BY <1>3, FollowsStart DEF connectionMachine
  <2> QED
    BY <1>1, <2>1
<1>4. CASE p.state = "ConnPendingCR"
  <2>1. p.have \in Nat \ {0}
    BY <1>1, <1>4 DEF Busy
  <2>2. q = PendingCR(p, Char(Letter(m, n + 1, len)))
    BY <1>2, <1>4, <2>1 DEF connectionMachine
  <2>3. q.have = p.have - 1 /\ Follows(q, n + 1, m, len)
    BY <1>4, <2>1, <2>2, FollowsPendingCR
  <2> QED
    BY <2>1, <2>3
<1>5. CASE p.state = "ConnPendingHeaderLine"
  <2>1. q.have = p.have /\ Follows(q, n, m, len)
    BY <1>5, FollowsPendingHeaderLine DEF connectionMachine
  <2> QED
    BY <1>1, <2>1
<1>6. CASE p.state = "ConnHeaderLine"
  <2>1. p.have \in Nat \ {0}
    BY <1>1, <1>6 DEF Busy
  <2>2. q = HeaderLine(p, Head(s))
    BY <1>6 DEF connectionMachine
  <2>3. q.have = p.have - 1 /\ Follows(q, n + 1, m, len)
    BY <1>2, <1>6, <2>1, <2>2, FollowsHeaderLine
  <2> QED
    BY <2>1, <2>3
<1>7. CASE p.state = "ConnSwitchToBody"
  <2>1. q.have = p.have /\ Follows(q, n, m, len)
    BY <1>7, FollowsSwitch DEF connectionMachine
  <2> QED
    BY <1>1, <2>1
<1>8. CASE p.state = "ConnBody"
  <2>1. q = AppendBody(p, s)
    BY <1>8 DEF connectionMachine
  <2>2. q.have = 0 /\ Follows(q, n + p.have, m, len)
    BY <1>8, <2>1, FollowsBody
  <2> QED
    BY <1>1, <2>2
<1> QED
  BY <1>3, <1>4, <1>5, <1>6, <1>7, <1>8, Fields DEF States

\* readRaw never reads past the end of a message that is no shorter than a buffer.
LEMMA FollowsRead ==
  ASSUME NEW S, NEW p \in Protocols(S), NEW m, NEW len \in Nat \ {0}, NEW n \in Nat,
         Follows(p, n, m, len), ~Busy(p), len >= Buffer,
         NEW k \in Nat, k <= ReadLimit(p), NEW q, q = readRaw(p, k)
  PROVE  q.have = k /\ Follows(q, n, m, len) /\ n + k <= 12 + len
<1>1. p.have = 0 /\ p.state # "ConnSwitchToBody" /\ p.remain \in Int /\ p.data \in Seq(S)
  BY Fields DEF Busy
<1>2. q = [p EXCEPT !.have = k, !.remain = IF p.remain >= 0 THEN p.remain - k ELSE p.remain]
  BY DEF readRaw
<1>3. /\ q.have = k /\ q.state = p.state /\ q.line = p.line /\ q.length = p.length
      /\ q.data = p.data /\ (q.first <=> p.first) /\ (q.fields <=> p.fields)
      /\ q.remain = IF p.remain >= 0 THEN p.remain - k ELSE p.remain
  BY <1>2 DEF Protocols
<1>4. CASE p.state = "ConnBody"
  <2>1. InBody(p, n, m, len)
    BY <1>4 DEF Follows
  <2>2. PICK l \in Nat, r \in Nat : l = Len(p.data) /\ r = p.remain
    <3>1. Len(p.data) \in Nat
      BY <1>1
    <3>2. p.remain \in Nat
      BY <1>1, <2>1 DEF InBody
    <3> QED
      BY <3>1, <3>2
  <2>3. n = 12 + l /\ r = len - l
    BY <1>1, <2>1, <2>2 DEF InBody
  <2>4. k <= r
    BY <2>2, BufferAssumption DEF ReadLimit
  <2>5. n + k <= 12 + len /\ r - k = len - l - k /\ r - k >= 0
    BY <2>3, <2>4
  <2>6. q.remain = r - k
    BY <1>3, <2>2
  <2>7. InBody(q, n, m, len)
    BY <1>3, <2>1, <2>2, <2>5, <2>6 DEF InBody
  <2> QED
    BY <1>3, <1>4, <2>5, <2>7 DEF Follows
<1>5. CASE p.state # "ConnBody"
  <2>1. n <= 12 /\ p.remain = -1
    BY <1>5, FollowsBound DEF Follows
  <2>2. k <= Buffer
    BY <2>1 DEF ReadLimit
  <2>3. n + k <= 12 + len
    BY <2>1, <2>2, BufferAssumption
  <2>4. q.remain = -1
    BY <1>3, <2>1
  <2>5. AtStart(p, n) => AtStart(q, n)
    BY <1>3 DEF AtStart
  <2>6. \A j, l : LineIs(p, j, l, m, len) => LineIs(q, j, l, m, len)
    BY <1>3 DEF LineIs, Known
  <2>7. /\ InLine(p, n, m, len) => InLine(q, n, m, len)
        /\ AtCR(p, n, m, len) => AtCR(q, n, m, len)
        /\ AtEnd(p, n, m, len) => AtEnd(q, n, m, len)
    BY <2>6 DEF InLine, AtCR, AtEnd
  <2> QED
    BY <1>1, <1>3, <1>5, <2>3, <2>4, <2>5, <2>7 DEF Follows
<1> QED
  BY <1>4, <1>5

\* The loop ends when the data are the body of m, no more and no less, and
\* what a response copies has been read.
LEMMA FollowsComplete ==
  ASSUME NEW S, NEW p \in Protocols(S), NEW m, NEW len \in Nat \ {0}, NEW n \in Nat,
         Follows(p, n, m, len), ~Busy(p), ~hasBytesToRead(p)
  PROVE  Whole(p.data) /\ p.data[1].msg = m /\ p.fields
<1>1. p.remain = 0 /\ p.have = 0 /\ p.data \in Seq(S)
  BY Fields DEF Busy, hasBytesToRead
<1>2. InBody(p, n, m, len)
  BY <1>1 DEF Follows
<1>3. PICK l \in Nat : l = Len(p.data)
  BY <1>1
<1>4. l = len
  BY <1>1, <1>2, <1>3 DEF InBody
<1>5. p.data = [i \in 1..len |-> Letter(m, 12 + i, len)]
  <2>1. PICK d \in Seq(S) : d = p.data
    BY <1>1
  <2>2. d = [i \in 1..Len(d) |-> d[i]]
    OBVIOUS
  <2>3. p.data = [i \in 1..len |-> p.data[i]]
    BY <1>3, <1>4, <2>1, <2>2
  <2> QED
    BY <1>2, <1>3, <1>4, <2>3 DEF InBody
<1>6. p.data = BodyOf(m, len)
  BY <1>5, HeaderLength DEF BodyOf
<1>7. p.data # << >> /\ p.data[1] = Letter(m, 13, len)
  BY <1>1, <1>3, <1>4, <1>5
<1>8. p.data[1].msg = m /\ p.data[1].body = len
  BY <1>7 DEF Letter
<1> QED
  BY <1>2, <1>6, <1>7, <1>8 DEF Whole, InBody

\* A wait that begins on a connection reset and without properties follows
\* any message from its first character.
LEMMA FollowsFresh ==
  ASSUME NEW S, NEW p \in Protocols(S), p.length = Missing, ~p.fields,
         NEW c \in Nat, NEW q, q = BeginWait([resetConnection(p) EXCEPT !.conn = c]),
         NEW m, NEW len
  PROVE  q.have = 0 /\ q.conn = c /\ Follows(q, 0, m, len)
<1>1. q = [p EXCEPT !.first = FALSE, !.line = << >>, !.state = "ConnStart", !.remain = -1,
                    !.conn = c, !.have = 0, !.data = << >>]
  BY DEF resetConnection, clearSipInfo, BeginWait, Protocols
<1>2. /\ q.have = 0 /\ q.conn = c /\ q.state = "ConnStart" /\ q.remain = -1 /\ q.data = << >>
      /\ q.length = p.length /\ (q.fields <=> p.fields)
  BY <1>1 DEF Protocols
<1> QED
  BY <1>2 DEF Follows, AtStart

=============================================================================
