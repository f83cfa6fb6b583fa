--------------------------- MODULE Session_proofs ---------------------------
(***************************************************************************)
(* However a stream is cut and coalesced, requests are served in order and *)
(* replies come back in order, for any number of requests.                 *)
(*                                                                         *)
(* The inductive invariant says where the messages are.  What a node's     *)
(* read and its stream still hold (its inbox) has bars, headers and bodies *)
(* in the order a message has them, so that a token holds at most one      *)
(* header; and the headers of the inbox are, in order, those entries of    *)
(* the sender's history that the reader has not consumed.  While both      *)
(* processes live that is all of them, and the inbox ends with a body, so  *)
(* the next message may be appended to it.                                 *)
(***************************************************************************)
EXTENDS Session, SequenceTheorems, TLAPS

IsHead(x, kind) == x.part = "head" /\ (("INVITE" \in x.words) <=> kind = "request")

Inbox(s) == readbuf[s] \o stream[s]
Live     == \A t \in Nodes : proc[t] = "up"

\* Pieces follow one another as they do in messages.
Adjacent(b) ==
  \A i \in 1..Len(b)-1 :
    /\ b[i].part = "bar"  => b[i+1].part = "head"
    /\ b[i].part = "head" => b[i+1].part = "body"
    /\ b[i].part = "body" => b[i+1].part = "bar"

EndsWhole(b) == b = << >> \/ b[Len(b)].part = "body"

\* The headers of one kind in b are the entries from+1 .. to of source: r[i]
\* numbers the last one among the first i pieces.
Numbers(r, b, kind, from, to, source) ==
  /\ r \in [0..Len(b) -> 0..Len(source)]
  /\ r[0] = from /\ r[Len(b)] = to
  /\ \A i \in 1..Len(b) :
       /\ IsHead(b[i], kind)  => r[i] = r[i-1] + 1 /\ source[r[i]] = b[i].id
       /\ ~IsHead(b[i], kind) => r[i] = r[i-1]

Carries(b, kind, from, to, source) == \E r : Numbers(r, b, kind, from, to, source)

Prefix(done, source) ==
  Len(done) <= Len(source) /\ \A i \in 1..Len(done) : done[i] = source[i]

\* What the reader has not consumed of source is in b, all of it if whole.
Owes(b, kind, done, source, whole) ==
  /\ Prefix(done, source)
  /\ \E to \in 0..Len(source) :
       /\ Carries(b, kind, Len(done), to, source)
       /\ whole => to = Len(source)

Types ==
  /\ sock \in {"none", "created", "connected", "refused"}
  /\ stream  \in [Nodes -> Seq(Pieces)] /\ readbuf  \in [Nodes -> Seq(Pieces)]
  /\ written \in [Nodes -> Seq(Ids)]    /\ handled  \in [Nodes -> Seq(Ids)]
  /\ answered \in [Nodes -> Seq(Ids)]
  /\ proc \in [Nodes -> {"up", "dead"}]
  /\ asked \in [Nodes -> 0..MaxRequests]
  /\ hazard \in [Nodes -> SUBSET {"cut", "unconnected", "pipe", "fault"}]

RequestsOwed(s) == Owes(Inbox(s), "request", handled[s], written[Peer(s)], Live)
RepliesOwed(s)  == Owes(Inbox(s), "reply", answered[s], handled[Peer(s)], Live)
CutNoted(s)     == readbuf[s] # << >> => (CutsRequest(readbuf[s]) => "cut" \in hazard[s])
Framed(s)       == Adjacent(Inbox(s)) /\ (Live => EndsWhole(Inbox(s)))

IInv ==
  /\ Types
  /\ \A s \in Nodes : Framed(s) /\ RequestsOwed(s) /\ RepliesOwed(s) /\ CutNoted(s)
  /\ OnlyACutKills

-----------------------------------------------------------------------------
(* Messages and pieces.                                                    *)

LEMMA PeerFacts ==
  \A s \in Nodes : Peer(s) \in Nodes /\ Peer(s) # s /\ Peer(Peer(s)) = s
  BY DEF Nodes, Peer

LEMMA NodePairs == \A s, t \in Nodes : t = s \/ t = Peer(s)
  BY DEF Nodes, Peer

LEMMA RequestShape ==
  \A i \in Nat :
    /\ Len(Request(i)) = 3
    /\ Request(i)[1] = [part |-> "bar",  words |-> {}, id |-> i]
    /\ Request(i)[2] = [part |-> "head", words |-> {"SIP/2.0", "INVITE", "uri"}, id |-> i]
    /\ Request(i)[3] = [part |-> "body", words |-> {}, id |-> i]
<1> TAKE i \in Nat
<1>1. Header(create_request_header(<<"", "", "">>)) = {"SIP/2.0", "INVITE", "uri"}
  BY DEF Header, create_request_header
<1> QED
  BY <1>1 DEF Request, Message

LEMMA ReplyShape ==
  \A i \in Nat :
    /\ Len(Reply(i)) = 3
    /\ Reply(i)[1] = [part |-> "bar",  words |-> {}, id |-> i]
    /\ Reply(i)[2] = [part |-> "head", words |-> {"SIP/2.0", "200", "OK"}, id |-> i]
    /\ Reply(i)[3] = [part |-> "body", words |-> {}, id |-> i]
<1> TAKE i \in Nat
<1>1. Header(create_reply_header(<<"INVITE", "", "">>)) = {"SIP/2.0", "200", "OK"}
  BY DEF Header, create_reply_header
<1> QED
  BY <1>1 DEF Reply, Message

LEMMA PieceShape ==
  \A x \in Pieces :
    /\ x.part \in {"bar", "head", "body"} /\ x.id \in Ids
    /\ x.part # "head" => x.words = {}
<1> TAKE x \in Pieces
<1>1. Ids \subseteq Nat
  BY MaxRequestsAssumption DEF Ids
<1>2. ASSUME NEW i \in Ids, NEW k \in 1..3, x = Request(i)[k] \/ x = Reply(i)[k]
      PROVE  /\ x.part \in {"bar", "head", "body"} /\ x.id \in Ids
             /\ x.part # "head" => x.words = {}
  <2>1. i \in Nat /\ (k = 1 \/ k = 2 \/ k = 3)
    BY <1>1, <1>2
  <2>2. CASE x = Request(i)[k]
    <3>1. \/ x = [part |-> "bar",  words |-> {}, id |-> i]
          \/ x = [part |-> "head", words |-> {"SIP/2.0", "INVITE", "uri"}, id |-> i]
          \/ x = [part |-> "body", words |-> {}, id |-> i]
      BY <2>1, <2>2, RequestShape
    <3> QED
      BY <3>1, <1>2
  <2>3. CASE x = Reply(i)[k]
    <3>1. \/ x = [part |-> "bar",  words |-> {}, id |-> i]
          \/ x = [part |-> "head", words |-> {"SIP/2.0", "200", "OK"}, id |-> i]
          \/ x = [part |-> "body", words |-> {}, id |-> i]
      BY <2>1, <2>3, ReplyShape
    <3> QED
      BY <3>1, <1>2
  <2> QED
    BY <1>2, <2>2, <2>3
<1> QED
  BY <1>2 DEF Pieces

LEMMA MessagesArePieces == \A i \in Ids : Request(i) \in Seq(Pieces) /\ Reply(i) \in Seq(Pieces)
<1> TAKE i \in Ids
<1>1. i \in Nat
  BY MaxRequestsAssumption DEF Ids
<1>2. \A k \in 1..3 : Request(i)[k] \in Pieces /\ Reply(i)[k] \in Pieces
  BY DEF Pieces
<1>3. /\ Request(i) = << Request(i)[1], Request(i)[2], Request(i)[3] >>
      /\ Reply(i) = << Reply(i)[1], Reply(i)[2], Reply(i)[3] >>
  BY DEF Request, Reply, Message
<1> DEFINE P == Pieces
<1> HIDE DEF P
<1>4. \A p, q, x \in P : << p, q, x >> \in Seq(P)
  OBVIOUS
<1>5. \A k \in 1..3 : Request(i)[k] \in P /\ Reply(i)[k] \in P
  BY <1>2 DEF P
<1>6. << Request(i)[1], Request(i)[2], Request(i)[3] >> \in Seq(P)
  BY <1>4, <1>5
<1>7. << Reply(i)[1], Reply(i)[2], Reply(i)[3] >> \in Seq(P)
  BY <1>4, <1>5
<1> QED
  BY <1>3, <1>6, <1>7 DEF P

-----------------------------------------------------------------------------
(* Parts of sequences, entry by entry.                                     *)

LEMMA Dropped ==
  ASSUME NEW S, NEW b \in Seq(S), NEW n \in 0..Len(b)
  PROVE  /\ SubSeq(b, n+1, Len(b)) \in Seq(S)
         /\ Len(SubSeq(b, n+1, Len(b))) = Len(b) - n
         /\ \A i \in 1..Len(b)-n : SubSeq(b, n+1, Len(b))[i] = b[i+n]
<1>1. Len(b) \in Nat /\ \A i \in n+1..Len(b) : b[i] \in S
  OBVIOUS
<1> DEFINE c == SubSeq(b, n+1, Len(b))
<1>2. /\ c \in Seq(S)
      /\ Len(c) = IF n+1 <= Len(b) THEN Len(b) - (n+1) + 1 ELSE 0
      /\ \A i \in 1..Len(b)-(n+1)+1 : c[i] = b[(n+1)+i-1]
  BY <1>1, SubSeqProperties
<1>3. Len(c) = Len(b) - n
  BY <1>1, <1>2
<1>4. ASSUME NEW i \in 1..Len(b)-n PROVE c[i] = b[i+n]
  <2>1. i \in 1..Len(b)-(n+1)+1 /\ (n+1)+i-1 = i+n
    BY <1>1
  <2> QED
    BY <1>2, <2>1
<1> QED
  BY <1>2, <1>3, <1>4

LEMMA Kept ==
  ASSUME NEW S, NEW b \in Seq(S), NEW n \in 0..Len(b)
  PROVE  /\ SubSeq(b, 1, n) \in Seq(S) /\ Len(SubSeq(b, 1, n)) = n
         /\ \A i \in 1..n : SubSeq(b, 1, n)[i] = b[i]
<1>1. Len(b) \in Nat /\ n \in Nat /\ \A i \in 1..n : b[i] \in S
  OBVIOUS
<1> DEFINE c == SubSeq(b, 1, n)
<1>2. /\ c \in Seq(S) /\ Len(c) = IF 1 <= n THEN n - 1 + 1 ELSE 0
      /\ \A i \in 1..n-1+1 : c[i] = b[1+i-1]
  BY <1>1, SubSeqProperties
<1>3. Len(c) = n
  BY <1>1, <1>2
<1>4. ASSUME NEW i \in 1..n PROVE c[i] = b[i]
  <2>1. i \in 1..n-1+1 /\ 1+i-1 = i
    BY <1>1
  <2> QED
    BY <1>2, <2>1
<1> QED
  BY <1>2, <1>3, <1>4

LEMMA Joined ==
  ASSUME NEW S, NEW b \in Seq(S), NEW m \in Seq(S)
  PROVE  /\ b \o m \in Seq(S) /\ Len(b \o m) = Len(b) + Len(m)
         /\ \A i \in 1..Len(b) : (b \o m)[i] = b[i]
         /\ \A i \in 1..Len(m) : (b \o m)[Len(b)+i] = m[i]
<1>1. Len(b) \in Nat /\ Len(m) \in Nat
  OBVIOUS
<1>2. /\ b \o m \in Seq(S) /\ Len(b \o m) = Len(b) + Len(m)
      /\ \A i \in 1..Len(b)+Len(m) : (b \o m)[i] = IF i <= Len(b) THEN b[i] ELSE m[i - Len(b)]
  BY ConcatProperties
<1>3. \A i \in 1..Len(b) : (b \o m)[i] = b[i]
  BY <1>1, <1>2
<1>4. ASSUME NEW i \in 1..Len(m) PROVE (b \o m)[Len(b)+i] = m[i]
  <2>1. Len(b)+i \in 1..Len(b)+Len(m) /\ ~(Len(b)+i <= Len(b)) /\ (Len(b)+i) - Len(b) = i
    BY <1>1
  <2> QED
    BY <1>2, <2>1
<1> QED
  BY <1>2, <1>3, <1>4

LEMMA JoinedMessage ==
  ASSUME NEW S, NEW b \in Seq(S), NEW m \in Seq(S), Len(m) = 3
  PROVE  /\ b \o m \in Seq(S) /\ Len(b \o m) = Len(b) + 3
         /\ \A i \in 1..Len(b) : (b \o m)[i] = b[i]
         /\ (b \o m)[Len(b)+1] = m[1] /\ (b \o m)[Len(b)+2] = m[2]
         /\ (b \o m)[Len(b)+3] = m[3]
<1>1. 1 \in 1..Len(m) /\ 2 \in 1..Len(m) /\ 3 \in 1..Len(m)
  OBVIOUS
<1> QED
  BY <1>1, Joined

-----------------------------------------------------------------------------
(* What an inbox carries: dropping its front, cutting it, appending to it. *)

\* After n pieces have been split off, the rest carries what came later.
LEMMA CarriesDrop ==
  ASSUME NEW b \in Seq(Pieces), NEW n \in 0..Len(b), NEW kind, NEW source \in Seq(Ids),
         NEW from, NEW to, NEW r, Numbers(r, b, kind, from, to, source)
  PROVE  Carries(SubSeq(b, n+1, Len(b)), kind, r[n], to, source)
<1> DEFINE c == SubSeq(b, n+1, Len(b))
           q == [i \in 0..Len(b)-n |-> r[i+n]]
<1>1. Len(b) \in Nat /\ Len(c) = Len(b) - n /\ \A i \in 1..Len(c) : c[i] = b[i+n]
  BY Dropped
<1>2. r \in [0..Len(b) -> 0..Len(source)]
  BY DEF Numbers
<1>3. q \in [0..Len(c) -> 0..Len(source)] /\ q[0] = r[n] /\ q[Len(c)] = to
  BY <1>1, <1>2 DEF Numbers
<1>4. ASSUME NEW i \in 1..Len(c)
      PROVE  /\ IsHead(c[i], kind)  => q[i] = q[i-1] + 1 /\ source[q[i]] = c[i].id
             /\ ~IsHead(c[i], kind) => q[i] = q[i-1]
  <2> HIDE DEF c
  <2>1. i+n \in 1..Len(b) /\ c[i] = b[i+n] /\ i \in 0..Len(b)-n /\ i-1 \in 0..Len(b)-n
        /\ (i-1)+n = (i+n)-1
    BY <1>1
  <2>2. q[i] = r[i+n] /\ q[i-1] = r[(i+n)-1]
    BY <2>1
  <2> QED
    BY <2>1, <2>2 DEF Numbers
<1>5. Numbers(q, c, kind, r[n], to, source)
  <2> HIDE DEF q, c
  <2> QED
    BY <1>3, <1>4 DEF Numbers
<1> QED
  BY <1>5 DEF Carries

\* What arrived before a cut is numbered as it was.
LEMMA CarriesCut ==
  ASSUME NEW b \in Seq(Pieces), NEW n \in 0..Len(b), NEW kind, NEW source \in Seq(Ids),
         NEW from, NEW to, NEW r, Numbers(r, b, kind, from, to, source)
  PROVE  r[n] \in 0..Len(source) /\ Carries(SubSeq(b, 1, n), kind, from, r[n], source)
<1> DEFINE c == SubSeq(b, 1, n)
           q == [i \in 0..n |-> r[i]]
<1>1. Len(b) \in Nat /\ Len(c) = n /\ \A i \in 1..n : c[i] = b[i]
  BY Kept
<1>2. r \in [0..Len(b) -> 0..Len(source)]
  BY DEF Numbers
<1>3. q \in [0..Len(c) -> 0..Len(source)] /\ q[0] = from /\ q[Len(c)] = r[n]
  <2>1. 0 \in 0..n /\ n \in 0..n /\ 0..n \subseteq 0..Len(b) /\ r[0] = from
    BY <1>1 DEF Numbers
  <2> HIDE DEF c
  <2> QED
    BY <1>1, <1>2, <2>1
<1>4. ASSUME NEW i \in 1..Len(c)
      PROVE  /\ IsHead(c[i], kind)  => q[i] = q[i-1] + 1 /\ source[q[i]] = c[i].id
             /\ ~IsHead(c[i], kind) => q[i] = q[i-1]
  <2>1. i \in 1..Len(b) /\ c[i] = b[i] /\ q[i] = r[i] /\ q[i-1] = r[i-1]
    BY <1>1
  <2> QED
    BY <2>1 DEF Numbers
<1>5. Numbers(q, c, kind, from, r[n], source)
  <2> HIDE DEF q, c
  <2> QED
    BY <1>3, <1>4 DEF Numbers
<1> QED
  BY <1>2, <1>5 DEF Carries

\* A history that grows keeps the numbers of its entries.
LEMMA CarriesGrown ==
  ASSUME NEW b \in Seq(Pieces), NEW kind, NEW source \in Seq(Ids), NEW id \in Ids,
         NEW from, NEW to, Carries(b, kind, from, to, source)
  PROVE  Carries(b, kind, from, to, Append(source, id))
<1> DEFINE grown == Append(source, id)
<1>1. PICK r : Numbers(r, b, kind, from, to, source)
  BY DEF Carries
<1>2. Len(grown) = Len(source) + 1 /\ \A j \in 1..Len(source) : grown[j] = source[j]
  OBVIOUS
<1>3. r \in [0..Len(b) -> 0..Len(source)]
  BY <1>1 DEF Numbers
<1>4. r \in [0..Len(b) -> 0..Len(grown)]
  BY <1>2, <1>3
<1>5. ASSUME NEW i \in 1..Len(b), IsHead(b[i], kind)
      PROVE  r[i] = r[i-1] + 1 /\ grown[r[i]] = b[i].id
  <2>1. r[i] = r[i-1] + 1 /\ source[r[i]] = b[i].id
    BY <1>1, <1>5 DEF Numbers
  <2>2. r[i] \in 0..Len(source) /\ r[i-1] \in 0..Len(source)
    BY <1>3
  <2> QED
    BY <1>2, <2>1, <2>2
<1>6. Numbers(r, b, kind, from, to, grown)
  <2> HIDE DEF grown
  <2> QED
    BY <1>1, <1>4, <1>5 DEF Numbers
<1> QED
  BY <1>6 DEF Carries

\* A message appended to the inbox adds at most its own header, which must be
\* the history's next entry.
LEMMA CarriesMessage ==
  ASSUME NEW b \in Seq(Pieces), NEW m \in Seq(Pieces), NEW kind, NEW source \in Seq(Ids),
         NEW from, NEW to \in 0..Len(source), NEW new \in {0, 1},
         Carries(b, kind, from, to, source),
         Len(m) = 3, m[1].part # "head", m[3].part # "head",
         IsHead(m[2], kind)  => new = 1 /\ to + 1 <= Len(source) /\ source[to + 1] = m[2].id,
         ~IsHead(m[2], kind) => new = 0
  PROVE  Carries(b \o m, kind, from, to + new, source)
<1>1. PICK r : Numbers(r, b, kind, from, to, source)
  BY DEF Carries
<1> DEFINE c == b \o m
           q == [i \in 0..Len(b)+3 |-> IF i <= Len(b) THEN r[i]
                                       ELSE IF i = Len(b)+1 THEN to ELSE to + new]
<1>2. /\ Len(c) = Len(b) + 3
      /\ \A i \in 1..Len(b) : c[i] = b[i]
      /\ c[Len(b)+1] = m[1] /\ c[Len(b)+2] = m[2] /\ c[Len(b)+3] = m[3]
  BY JoinedMessage
<1>3. Len(b) \in Nat /\ r \in [0..Len(b) -> 0..Len(source)] /\ r[0] = from /\ r[Len(b)] = to
  BY <1>1 DEF Numbers
<1>4. to + new \in 0..Len(source)
  OBVIOUS
<1>5. /\ q \in [0..Len(c) -> 0..Len(source)] /\ q[0] = from
      /\ q[Len(b)] = to /\ q[Len(b)+1] = to /\ q[Len(b)+2] = to + new /\ q[Len(b)+3] = to + new
  BY <1>2, <1>3, <1>4
<1>6. \A i \in 0..Len(b) : q[i] = r[i]
  BY <1>3
<1>7. ~IsHead(m[1], kind) /\ ~IsHead(m[3], kind)
  BY DEF IsHead
<1> HIDE DEF c, q
<1>8. ASSUME NEW i \in 1..Len(c)
      PROVE  /\ IsHead(c[i], kind)  => q[i] = q[i-1] + 1 /\ source[q[i]] = c[i].id
             /\ ~IsHead(c[i], kind) => q[i] = q[i-1]
  <2>1. CASE i <= Len(b)
    <3>1. i \in 1..Len(b) /\ c[i] = b[i] /\ q[i] = r[i] /\ q[i-1] = r[i-1]
      BY <1>2, <1>3, <1>6, <2>1
    <3> QED
      BY <1>1, <3>1 DEF Numbers
  <2>2. CASE i = Len(b) + 1
    <3>1. i - 1 = Len(b)
      BY <1>3, <2>2
    <3> QED
      BY <1>2, <1>5, <1>7, <2>2, <3>1
  <2>3. CASE i = Len(b) + 2
    <3>1. i - 1 = Len(b) + 1
      BY <1>3, <2>3
    <3> QED
      BY <1>2, <1>5, <2>3, <3>1
  <2>4. CASE i = Len(b) + 3
    <3>1. i - 1 = Len(b) + 2
      BY <1>3, <2>4
    <3> QED
      BY <1>2, <1>5, <1>7, <2>4, <3>1
  <2> QED
    BY <1>2, <1>3, <2>1, <2>2, <2>3, <2>4
<1>9. q[Len(c)] = to + new
  BY <1>2, <1>5
<1>10. Numbers(q, c, kind, from, to + new, source)
  BY <1>5, <1>8, <1>9 DEF Numbers
<1> QED
  BY <1>10 DEF Carries, c

-----------------------------------------------------------------------------
(* What an inbox owes to its reader.                                       *)

LEMMA PrefixAppend ==
  ASSUME NEW done \in Seq(Ids), NEW source \in Seq(Ids), NEW id \in Ids,
         Prefix(done, source)
  PROVE  /\ Prefix(done, Append(source, id))
         /\ Len(done) + 1 <= Len(source) /\ source[Len(done) + 1] = id
              => Prefix(Append(done, id), source)
  BY DEF Prefix

\* A token is split off, behind at most one bar, and it holds at most one
\* header, at its front: then that entry is consumed, otherwise none is.
LEMMA OwesSplit ==
  ASSUME NEW b \in Seq(Pieces), NEW j \in {0, 1}, NEW k \in {0, 1, 2}, j + k <= Len(b),
         NEW kind, NEW done \in Seq(Ids), NEW source \in Seq(Ids), NEW whole,
         Owes(b, kind, done, source, whole),
         j = 1 => ~IsHead(b[1], kind),
         k = 2 => ~IsHead(b[j+2], kind)
  PROVE  /\ (k = 0 \/ ~IsHead(b[j+1], kind))
              => Owes(SubSeq(b, (j+k)+1, Len(b)), kind, done, source, whole)
         /\ (k # 0 /\ IsHead(b[j+1], kind))
              => Owes(SubSeq(b, (j+k)+1, Len(b)), kind, Append(done, b[j+1].id), source, whole)
<1>1. PICK to \in 0..Len(source) : Carries(b, kind, Len(done), to, source) /\ (whole => to = Len(source))
  BY DEF Owes
<1>2. PICK r : Numbers(r, b, kind, Len(done), to, source)
  BY <1>1 DEF Carries
<1>3. Prefix(done, source)
  BY DEF Owes
<1>4. Len(b) \in Nat /\ j + k \in 0..Len(b) /\ Len(done) \in Nat /\ Len(source) \in Nat
  OBVIOUS
<1>5. Carries(SubSeq(b, (j+k)+1, Len(b)), kind, r[j+k], to, source)
  BY <1>2, <1>4, CarriesDrop
<1>6. /\ r \in [0..Len(b) -> 0..Len(source)] /\ r[0] = Len(done)
      /\ \A i \in 1..Len(b) :
           /\ IsHead(b[i], kind)  => r[i] = r[i-1] + 1 /\ source[r[i]] = b[i].id
           /\ ~IsHead(b[i], kind) => r[i] = r[i-1]
  BY <1>2 DEF Numbers
<1>7. r[j] = Len(done)
  <2>1. CASE j = 0
    BY <1>6, <2>1
  <2>2. CASE j = 1
    <3>1. 1 \in 1..Len(b) /\ 1 - 1 = 0
      BY <1>4, <2>2
    <3> QED
      BY <1>6, <2>2, <3>1
  <2> QED
    BY <2>1, <2>2
<1>8. k # 0 => /\ IsHead(b[j+1], kind)  => r[j+1] = r[j] + 1 /\ source[r[j+1]] = b[j+1].id
               /\ ~IsHead(b[j+1], kind) => r[j+1] = r[j]
  <2>1. k # 0 => j+1 \in 1..Len(b) /\ (j+1)-1 = j
    BY <1>4
  <2> QED
    BY <1>6, <2>1
<1>9. k # 0 => r[j+k] = r[j+1]
  <2>1. CASE k = 2
    <3>1. j+2 \in 1..Len(b) /\ (j+2)-1 = j+1
      BY <1>4, <2>1
    <3> QED
      BY <1>6, <2>1, <3>1
  <2> QED
    BY <2>1
<1>10. CASE k = 0 \/ ~IsHead(b[j+1], kind)
  <2>1. k = 0 => j + k = j
    BY <1>4
  <2>2. r[j+k] = Len(done)
    BY <1>7, <1>8, <1>9, <1>10, <2>1
  <2>3. Owes(SubSeq(b, (j+k)+1, Len(b)), kind, done, source, whole)
    BY <1>1, <1>3, <1>5, <2>2 DEF Owes
  <2> QED
    BY <1>10, <2>3
<1>11. CASE k # 0 /\ IsHead(b[j+1], kind)
  <2> DEFINE id == b[j+1].id
  <2>1. r[j+k] = Len(done) + 1 /\ source[Len(done) + 1] = id
    BY <1>7, <1>8, <1>9, <1>11
  <2>2. Len(done) + 1 <= Len(source)
    <3>1. r[j+k] \in 0..Len(source)
      BY <1>4, <1>6
    <3> QED
      BY <1>4, <2>1, <3>1
  <2>3. id \in Ids
    <3>1. Len(done) + 1 \in 1..Len(source)
      BY <1>4, <2>2
    <3> QED
      BY <2>1, <3>1, ElementOfSeq
  <2>4. Prefix(Append(done, id), source)
    BY <1>3, <2>1, <2>2, <2>3, PrefixAppend
  <2>5. Len(Append(done, id)) = Len(done) + 1
    BY <2>3
  <2>6. Owes(SubSeq(b, (j+k)+1, Len(b)), kind, Append(done, id), source, whole)
    BY <1>1, <1>5, <2>1, <2>4, <2>5 DEF Owes
  <2> QED
    BY <1>11, <2>6
<1> QED
  BY <1>10, <1>11

\* A cut inbox owes no less than it carries.
LEMMA OwesCut ==
  ASSUME NEW b \in Seq(Pieces), NEW n \in 0..Len(b), NEW kind,
         NEW done \in Seq(Ids), NEW source \in Seq(Ids), NEW whole, NEW w,
         Owes(b, kind, done, source, whole), ~w
  PROVE  Owes(SubSeq(b, 1, n), kind, done, source, w)
<1>1. PICK to \in 0..Len(source) : Carries(b, kind, Len(done), to, source)
  BY DEF Owes
<1>2. PICK r : Numbers(r, b, kind, Len(done), to, source)
  BY <1>1 DEF Carries
<1>3. r[n] \in 0..Len(source) /\ Carries(SubSeq(b, 1, n), kind, Len(done), r[n], source)
  BY <1>2, CarriesCut
<1> QED
  BY <1>3 DEF Owes

\* Fewer obligations, and a history that grew without a message.
LEMMA OwesWeaker ==
  ASSUME NEW b \in Seq(Pieces), NEW kind, NEW done \in Seq(Ids), NEW source \in Seq(Ids),
         NEW id \in Ids, NEW whole, NEW w, Owes(b, kind, done, source, whole)
  PROVE  /\ (w => whole) => Owes(b, kind, done, source, w)
         /\ ~w => Owes(b, kind, done, Append(source, id), w)
<1>1. PICK to \in 0..Len(source) : Carries(b, kind, Len(done), to, source) /\ (whole => to = Len(source))
  BY DEF Owes
<1>2. Carries(b, kind, Len(done), to, Append(source, id)) /\ to \in 0..Len(Append(source, id))
  <2>1. Len(Append(source, id)) = Len(source) + 1 /\ Len(source) \in Nat
    OBVIOUS
  <2> QED
    BY <1>1, <2>1, CarriesGrown
<1>3. Prefix(done, source) /\ Prefix(done, Append(source, id))
  BY PrefixAppend DEF Owes
<1> QED
  BY <1>1, <1>2, <1>3 DEF Owes

\* A message appended to a complete inbox is the history's next entry.
LEMMA OwesMessage ==
  ASSUME NEW b \in Seq(Pieces), NEW m \in Seq(Pieces), NEW kind,
         NEW done \in Seq(Ids), NEW source \in Seq(Ids), NEW id \in Ids, NEW w,
         Owes(b, kind, done, source, TRUE),
         Len(m) = 3, m[1].part # "head", m[3].part # "head",
         IsHead(m[2], kind), m[2].id = id
  PROVE  Owes(b \o m, kind, done, Append(source, id), w)
<1>1. Carries(b, kind, Len(done), Len(source), source)
  BY DEF Owes
<1> DEFINE grown == Append(source, id)
<1>2. /\ grown \in Seq(Ids) /\ Len(source) \in Nat /\ Len(grown) = Len(source) + 1
      /\ grown[Len(source) + 1] = id
  OBVIOUS
<1>3. Carries(b, kind, Len(done), Len(source), grown)
  BY <1>1, CarriesGrown
<1>4. Prefix(done, grown)
  BY PrefixAppend DEF Owes
<1> HIDE DEF grown
<1>5. Len(source) \in 0..Len(grown)
  BY <1>2
<1>6. Carries(b \o m, kind, Len(done), Len(source) + 1, grown)
  <2>1. Len(source) + 1 <= Len(grown) /\ grown[Len(source) + 1] = m[2].id /\ 1 \in {0, 1}
    BY <1>2
  <2> QED
    BY <1>2, <1>3, <1>5, <2>1, CarriesMessage
<1>7. Owes(b \o m, kind, done, grown, w)
  <2>1. Len(source) + 1 \in 0..Len(grown) /\ Len(source) + 1 = Len(grown)
    BY <1>2
  <2> QED
    BY <1>4, <1>6, <2>1 DEF Owes
<1> QED
  BY <1>7 DEF grown

\* A message of the other kind changes nothing that is owed.
LEMMA OwesForeign ==
  ASSUME NEW b \in Seq(Pieces), NEW m \in Seq(Pieces), NEW kind,
         NEW done \in Seq(Ids), NEW source \in Seq(Ids), NEW whole,
         Owes(b, kind, done, source, whole),
         Len(m) = 3, m[1].part # "head", m[3].part # "head", ~IsHead(m[2], kind)
  PROVE  Owes(b \o m, kind, done, source, whole)
<1>1. PICK to \in 0..Len(source) : Carries(b, kind, Len(done), to, source) /\ (whole => to = Len(source))
  BY DEF Owes
<1>2. Carries(b \o m, kind, Len(done), to + 0, source)
  BY <1>1, CarriesMessage
<1>3. to + 0 = to
  BY <1>1
<1> QED
  BY <1>1, <1>2, <1>3 DEF Owes

-----------------------------------------------------------------------------
(* Framing: what strtok splits off.                                        *)

LEMMA AdjacentDropped ==
  ASSUME NEW b \in Seq(Pieces), NEW n \in 0..Len(b), Adjacent(b)
  PROVE  /\ Adjacent(SubSeq(b, n+1, Len(b)))
         /\ EndsWhole(b) => EndsWhole(SubSeq(b, n+1, Len(b)))
<1> DEFINE c == SubSeq(b, n+1, Len(b))
<1>1. /\ c \in Seq(Pieces) /\ Len(c) = Len(b) - n /\ Len(b) \in Nat /\ n \in Nat
      /\ \A i \in 1..Len(b)-n : c[i] = b[i+n]
  BY Dropped
<1> HIDE DEF c
<1>2. ASSUME NEW i \in 1..Len(c)-1
      PROVE  i+n \in 1..Len(b)-1 /\ c[i] = b[i+n] /\ c[i+1] = b[(i+n)+1]
  <2>1. i \in 1..Len(b)-n /\ i+1 \in 1..Len(b)-n /\ i+n \in 1..Len(b)-1 /\ (i+1)+n = (i+n)+1
    BY <1>1
  <2> QED
    BY <1>1, <2>1
<1>3. Adjacent(c)
  BY <1>2 DEF Adjacent
<1>4. ASSUME EndsWhole(b) PROVE EndsWhole(c)
  <2>1. CASE Len(c) = 0
    <3>1. c = << >>
      BY <1>1, <2>1, EmptySeq
    <3> QED
      BY <3>1 DEF EndsWhole
  <2>2. CASE Len(c) # 0
    <3>1. Len(c) \in 1..Len(b)-n /\ Len(c)+n = Len(b)
      BY <1>1, <2>2
    <3>2. c[Len(c)] = b[Len(b)] /\ b # << >>
      BY <1>1, <3>1
    <3> QED
      BY <1>4, <3>2 DEF EndsWhole
  <2> QED
    BY <2>1, <2>2
<1> QED
  BY <1>3, <1>4 DEF c

LEMMA AdjacentKept ==
  ASSUME NEW b \in Seq(Pieces), NEW n \in 0..Len(b), Adjacent(b)
  PROVE  Adjacent(SubSeq(b, 1, n))
<1> DEFINE c == SubSeq(b, 1, n)
<1>1. Len(c) = n /\ Len(b) \in Nat /\ n \in 0..Len(b) /\ \A i \in 1..n : c[i] = b[i]
  BY Kept
<1> HIDE DEF c
<1>2. ASSUME NEW i \in 1..Len(c)-1
      PROVE  i \in 1..Len(b)-1 /\ c[i] = b[i] /\ c[i+1] = b[i+1]
  <2>1. i \in 1..n /\ i+1 \in 1..n /\ i \in 1..Len(b)-1
    BY <1>1
  <2> QED
    BY <1>1, <2>1
<1>3. Adjacent(c)
  BY <1>2 DEF Adjacent
<1> QED
  BY <1>3 DEF c

LEMMA AdjacentMessage ==
  ASSUME NEW b \in Seq(Pieces), NEW m \in Seq(Pieces), Adjacent(b), EndsWhole(b),
         Len(m) = 3, m[1].part = "bar", m[2].part = "head", m[3].part = "body"
  PROVE  Adjacent(b \o m) /\ EndsWhole(b \o m)
<1> DEFINE c == b \o m
<1>1. /\ c \in Seq(Pieces) /\ Len(b) \in Nat /\ Len(c) = Len(b) + 3
      /\ \A i \in 1..Len(b) : c[i] = b[i]
      /\ c[Len(b)+1] = m[1] /\ c[Len(b)+2] = m[2] /\ c[Len(b)+3] = m[3]
  BY JoinedMessage
<1> HIDE DEF c
<1>2. b # << >> => Len(b) # 0
  BY EmptySeq
<1>3. EndsWhole(c)
  BY <1>1 DEF EndsWhole
<1>4. ASSUME NEW i \in 1..Len(c)-1
      PROVE  /\ c[i].part = "bar"  => c[i+1].part = "head"
             /\ c[i].part = "head" => c[i+1].part = "body"
             /\ c[i].part = "body" => c[i+1].part = "bar"
  <2>1. CASE i < Len(b)
    <3>1. i \in 1..Len(b)-1 /\ i \in 1..Len(b) /\ i+1 \in 1..Len(b)
      BY <1>1, <2>1
    <3>2. c[i] = b[i] /\ c[i+1] = b[i+1]
      BY <1>1, <3>1
    <3> QED
      BY <3>1, <3>2 DEF Adjacent
  <2>2. CASE i = Len(b)
    <3>1. c[i] = b[Len(b)] /\ c[i+1] = m[1] /\ b # << >>
      BY <1>1, <2>2
    <3> QED
      BY <3>1 DEF EndsWhole
  <2>3. CASE i = Len(b) + 1
    <3>1. i + 1 = Len(b) + 2
      BY <1>1, <2>3
    <3> QED
      BY <1>1, <2>3, <3>1
  <2>4. CASE i = Len(b) + 2
    <3>1. i + 1 = Len(b) + 3
      BY <1>1, <2>4
    <3> QED
      BY <1>1, <2>4, <3>1
  <2> QED
    BY <1>1, <2>1, <2>2, <2>3, <2>4
<1>5. Adjacent(c)
  BY <1>4 DEF Adjacent
<1> QED
  BY <1>3, <1>5 DEF c

\* A token is a header with its body, if that has been read, or what is left of
\* a message whose header was read before.
LEMMA TokenLength ==
  ASSUME NEW c \in Seq(Pieces), Adjacent(c), c # << >> => c[1].part # "bar"
  PROVE  TokenLen(c) = IF c = << >> THEN 0
                       ELSE IF c[1].part = "head" /\ Len(c) > 1 THEN 2 ELSE 1
<1> DEFINE P(k) == /\ \A i \in 1..k : c[i].part # "bar"
                   /\ k = Len(c) \/ c[k+1].part = "bar"
           n == IF c = << >> THEN 0 ELSE IF c[1].part = "head" /\ Len(c) > 1 THEN 2 ELSE 1
<1>1. TokenLen(c) = CHOOSE k \in 0..Len(c) : P(k)
  BY DEF TokenLen
<1>2. Len(c) \in Nat /\ (c = << >> <=> Len(c) = 0)
  BY EmptySeq
<1>3. \A i \in 1..Len(c) : c[i].part \in {"bar", "head", "body"}
  BY PieceShape, ElementOfSeq
<1>4. Len(c) > 1 => /\ c[1].part = "head" => c[2].part = "body"
                    /\ c[1].part = "body" => c[2].part = "bar"
  <2>1. Len(c) > 1 => 1 \in 1..Len(c)-1 /\ 1 + 1 = 2
    BY <1>2
  <2> QED
    BY <2>1 DEF Adjacent
<1>5. Len(c) > 2 /\ c[2].part = "body" => c[3].part = "bar"
  <2>1. Len(c) > 2 => 2 \in 1..Len(c)-1 /\ 2 + 1 = 3
    BY <1>2
  <2> QED
    BY <2>1 DEF Adjacent
<1>6. Len(c) # 0 => c[1].part \in {"head", "body"}
  <2>1. Len(c) # 0 => 1 \in 1..Len(c)
    BY <1>2
  <2> QED
    BY <1>2, <1>3, <2>1
<1>7. \A l \in Nat : /\ l = 0 \/ l = 1 \/ l > 1
                     /\ l > 1 => l = 2 \/ l > 2
  OBVIOUS
<1>8. n \in 0..Len(c) /\ P(n)
  <2>1. CASE Len(c) = 0
    BY <1>2, <2>1
  <2>2. CASE Len(c) # 0 /\ c[1].part = "head" /\ Len(c) > 1
    <3>0. n = 2
      BY <1>2, <2>2
    <3>1. Len(c) = 2 \/ Len(c) > 2
      BY <1>7, <1>2, <2>2, Zenon
    <3>2. \A i \in 1..2 : c[i].part # "bar"
      BY <1>4, <2>2
    <3> QED
      BY <1>2, <1>4, <1>5, <2>2, <3>0, <3>1, <3>2
  <2>3. CASE Len(c) # 0 /\ ~(c[1].part = "head" /\ Len(c) > 1)
    <3>0. n = 1
      BY <1>2, <2>3
    <3>1. Len(c) = 1 \/ Len(c) > 1
      BY <1>7, <1>2, <2>3, Zenon
    <3>2. \A i \in 1..1 : c[i].part # "bar"
      BY <1>6, <2>3
    <3> QED
      BY <1>2, <1>4, <1>6, <2>3, <3>0, <3>1, <3>2
  <2> QED
    BY <2>1, <2>2, <2>3
<1>9. ASSUME NEW k \in 0..Len(c), P(k) PROVE k = n
  <2>1. CASE Len(c) = 0
    BY <1>2, <2>1
  <2>2. CASE Len(c) # 0
    <3>1. k # 0
      BY <1>2, <1>6, <1>9, <2>2
    <3>2. CASE c[1].part = "head" /\ Len(c) > 1
      <4>1. k # 1
        BY <1>4, <1>9, <3>2, <1>2
      <4>2. k <= 2
        <5>1. k > 2 => 3 \in 1..k /\ Len(c) > 2
          BY <1>2
        <5> QED
          BY <1>4, <1>5, <1>9, <3>2, <5>1
      <4> QED
        BY <1>2, <2>2, <3>1, <3>2, <4>1, <4>2
    <3>3. CASE ~(c[1].part = "head" /\ Len(c) > 1)
      <4>1. k <= 1
        <5>1. k > 1 => 2 \in 1..k /\ Len(c) > 1
          BY <1>2
        <5> QED
          BY <1>4, <1>6, <1>9, <2>2, <3>3, <5>1
      <4> QED
        BY <1>2, <2>2, <3>1, <3>3, <4>1
    <3> QED
      BY <3>2, <3>3
  <2> QED
    BY <2>1, <2>2
<1> HIDE DEF P, n
<1>10. TokenLen(c) = n
  BY <1>1, <1>8, <1>9
<1> QED
  BY <1>10 DEF n

\* strtok on b: j bars are skipped, the token is the next k pieces, and only its
\* first one may be a header, which lacks its body only at the end of the read.
Splits(b, j, k) ==
  /\ j + k \in 1..Len(b)
  /\ Token(Skip(b)) \in Seq(Pieces) /\ Len(Token(Skip(b))) = k
  /\ \A i \in 1..k : Token(Skip(b))[i] = b[j+i]
  /\ Rest(Skip(b)) = SubSeq(b, (j+k)+1, Len(b))
  /\ j = 1 => b[1].part = "bar"
  /\ k = 2 => b[j+2].part = "body"
  /\ k = 1 /\ b[j+1].part = "head" => j + 1 = Len(b)

LEMMA TokenShape ==
  ASSUME NEW b \in Seq(Pieces), b # << >>, Adjacent(b)
  PROVE  \E j \in {0, 1}, k \in {0, 1, 2} : Splits(b, j, k)
<1> DEFINE j == IF b[1].part = "bar" THEN 1 ELSE 0
           c == SubSeq(b, j+1, Len(b))
<1>1. Len(b) \in Nat /\ Len(b) # 0 /\ Head(b) = b[1]
  BY EmptySeq
<1>2. j \in {0, 1} /\ j \in 0..Len(b) /\ (j = 1 <=> b[1].part = "bar")
  BY <1>1
<1>3. Skip(b) = c
  <2>1. CASE b[1].part = "bar"
    BY <1>1, <2>1, TailIsSubSeq DEF Skip
  <2>2. CASE b[1].part # "bar"
    BY <1>1, <2>2, SubSeqFull DEF Skip
  <2> QED
    BY <2>1, <2>2
<1> HIDE DEF j
<1>4. /\ c \in Seq(Pieces) /\ Len(c) = Len(b) - j
      /\ \A i \in 1..Len(b)-j : c[i] = b[i+j]
  BY <1>2, Dropped
<1>5. Adjacent(c)
  BY <1>2, AdjacentDropped
<1> HIDE DEF c
<1>6. Len(c) \in Nat /\ (c = << >> <=> Len(c) = 0)
  BY <1>4, EmptySeq
<1>7. c # << >> => c[1].part # "bar"
  <2>1. CASE j = 0 /\ c # << >>
    <3>1. 1 \in 1..Len(b)-j /\ 1 + j = 1
      BY <1>1, <2>1
    <3> QED
      BY <1>2, <1>4, <2>1, <3>1
  <2>2. CASE j = 1 /\ c # << >>
    <3>1. 1 \in 1..Len(b)-j /\ 1 + j = 2 /\ 1 \in 1..Len(b)-1
      BY <1>1, <1>4, <1>6, <2>2
    <3>2. b[2].part = "head"
      BY <1>2, <2>2, <3>1 DEF Adjacent
    <3> QED
      BY <1>4, <3>1, <3>2
  <2> QED
    BY <1>2, <2>1, <2>2
<1> DEFINE k == TokenLen(c)
<1>8. k = IF c = << >> THEN 0 ELSE IF c[1].part = "head" /\ Len(c) > 1 THEN 2 ELSE 1
  BY <1>4, <1>5, <1>7, TokenLength
<1> HIDE DEF k
<1>9. k \in {0, 1, 2} /\ k <= Len(c) /\ (k = 0 => c = << >>)
  <2>1. Len(c) > 1 => 2 <= Len(c)
    BY <1>6
  <2>2. c # << >> => 1 <= Len(c)
    BY <1>6
  <2> QED
    BY <1>6, <1>8, <2>1, <2>2
<1>10. j + k \in 1..Len(b)
  <2>1. j + k <= Len(b) /\ j + k \in Nat
    BY <1>1, <1>2, <1>4, <1>6, <1>9
  <2>2. j + k # 0
    BY <1>1, <1>2, <1>4, <1>6, <1>9
  <2> QED
    BY <1>1, <2>1, <2>2
<1>11. k \in 0..Len(c)
  BY <1>6, <1>9
<1>12. /\ Token(Skip(b)) = SubSeq(c, 1, k) /\ Rest(Skip(b)) = SubSeq(c, k+1, Len(c))
  BY <1>3 DEF Token, Rest, k
<1>13. /\ Token(Skip(b)) \in Seq(Pieces) /\ Len(Token(Skip(b))) = k
       /\ \A i \in 1..k : Token(Skip(b))[i] = b[j+i]
  <2>1. /\ SubSeq(c, 1, k) \in Seq(Pieces) /\ Len(SubSeq(c, 1, k)) = k
        /\ \A i \in 1..k : SubSeq(c, 1, k)[i] = c[i]
    BY <1>4, <1>11, Kept
  <2>2. ASSUME NEW i \in 1..k PROVE c[i] = b[j+i]
    <3>1. i \in 1..Len(b)-j /\ i + j = j + i
      BY <1>1, <1>2, <1>4, <1>11
    <3> QED
      BY <1>4, <3>1
  <2> QED
    BY <1>12, <2>1, <2>2
<1>14. Rest(Skip(b)) = SubSeq(b, (j+k)+1, Len(b))
  <2> DEFINE p == SubSeq(c, k+1, Len(c))
             q == SubSeq(b, (j+k)+1, Len(b))
  <2>1. p \in Seq(Pieces) /\ Len(p) = Len(c) - k /\ \A i \in 1..Len(c)-k : p[i] = c[i+k]
    BY <1>4, <1>11, Dropped
  <2>2. j + k \in 0..Len(b)
    BY <1>10
  <2>3. q \in Seq(Pieces) /\ Len(q) = Len(b) - (j+k) /\ \A i \in 1..Len(b)-(j+k) : q[i] = b[i+(j+k)]
    BY <2>2, Dropped
  <2> HIDE DEF p, q
  <2>4. Len(p) = Len(q)
    BY <1>1, <1>2, <1>4, <1>11, <2>1, <2>3
  <2>5. ASSUME NEW i \in 1..Len(p) PROVE p[i] = q[i]
    <3>1. /\ i \in 1..Len(c)-k /\ i+k \in 1..Len(b)-j /\ (i+k)+j = i+(j+k)
          /\ i \in 1..Len(b)-(j+k)
      BY <1>1, <1>2, <1>4, <1>6, <1>11, <2>1
    <3> QED
      BY <1>4, <2>1, <2>3, <3>1
  <2>6. p = q
    BY <2>1, <2>3, <2>4, <2>5, SeqEqual
  <2> QED
    BY <1>12, <2>6 DEF p, q
<1>15. k = 2 => b[j+2].part = "body"
  <2>1. ASSUME k = 2 PROVE b[j+2].part = "body"
    <3>1. Len(c) > 1 /\ c[1].part = "head"
      BY <1>8, <2>1
    <3>2. 1 \in 1..Len(c)-1 /\ 2 \in 1..Len(b)-j /\ 1 + 1 = 2 /\ 2 + j = j + 2
      BY <1>1, <1>2, <1>4, <1>6, <3>1
    <3>3. c[2].part = "body"
      BY <1>5, <3>1, <3>2 DEF Adjacent
    <3> QED
      BY <1>4, <3>2, <3>3
  <2> QED
    BY <2>1
<1>16. k = 1 /\ b[j+1].part = "head" => j + 1 = Len(b)
  <2>1. ASSUME k = 1, b[j+1].part = "head" PROVE j + 1 = Len(b)
    <3>1. c # << >> /\ 1 \in 1..Len(b)-j /\ 1 + j = j + 1
      BY <1>1, <1>2, <1>4, <1>6, <1>8, <1>9, <2>1
    <3>2. c[1].part = "head"
      BY <1>4, <2>1, <3>1
    <3>3. ~(Len(c) > 1)
      BY <1>8, <2>1, <3>1, <3>2
    <3> QED
      BY <1>1, <1>2, <1>4, <1>6, <3>1, <3>3
  <2> QED
    BY <2>1
<1>17. Splits(b, j, k)
  BY <1>2, <1>10, <1>13, <1>14, <1>15, <1>16 DEF Splits
<1> QED
  BY <1>2, <1>9, <1>17

\* What the node does with a token depends on the one header it may hold, and a
\* request without its body is a read that ended inside it.
LEMMA TokenMeaning ==
  ASSUME NEW b \in Seq(Pieces), NEW j \in {0, 1}, NEW k \in {0, 1, 2}, Splits(b, j, k)
  PROVE  LET token == Token(Skip(b)) IN
           /\ IsRequest(token) <=> k # 0 /\ IsHead(b[j+1], "request")
           /\ IsReply(token)   <=> k # 0 /\ IsHead(b[j+1], "reply")
           /\ k # 0 => Head(token) = b[j+1] /\ b[j+1] \in Pieces
           /\ IsRequest(token) /\ ~Complete(token) => CutsRequest(b)
<1> DEFINE token == Token(Skip(b))
<1>1. /\ token \in Seq(Pieces) /\ Len(token) = k /\ \A i \in 1..k : token[i] = b[j+i]
      /\ k = 2 => b[j+2].part = "body"
      /\ k = 1 /\ b[j+1].part = "head" => j + 1 = Len(b)
      /\ j + k \in 1..Len(b)
  BY DEF Splits
<1> HIDE DEF token
<1>2. Len(b) \in Nat /\ DOMAIN token = 1..k
  BY <1>1, LenProperties
<1>3. \A i \in 1..k : token[i] \in Pieces
  BY <1>1, ElementOfSeq
<1>4. ASSUME k # 0 PROVE 1 \in 1..k /\ token[1] = b[j+1] /\ Head(token) = b[j+1] /\ b[j+1] \in Pieces
  <2>1. 1 \in 1..k /\ token # << >>
    BY <1>1, <1>4, EmptySeq
  <2> QED
    BY <1>1, <1>3, <2>1
<1>5. ASSUME NEW i \in 1..k, token[i].part = "head" PROVE i = 1 /\ k # 0
  <2>1. i = 1 \/ i = 2
    OBVIOUS
  <2>2. i = 2 => k = 2 /\ token[2] = b[j+2]
    BY <1>1
  <2> QED
    BY <1>1, <1>5, <2>1, <2>2
<1>6. \A i \in 1..k : token[i].words # {} => token[i].part = "head"
  BY <1>3, PieceShape
<1>7. IsRequest(token) <=> k # 0 /\ IsHead(b[j+1], "request")
  BY <1>2, <1>4, <1>5, <1>6 DEF IsRequest, IsHead
<1>8. IsReply(token) <=> k # 0 /\ IsHead(b[j+1], "reply")
  BY <1>2, <1>4, <1>5, <1>7 DEF IsReply, IsHead
<1>9. ASSUME IsRequest(token), ~Complete(token) PROVE CutsRequest(b)
  <2>1. k # 0 /\ IsHead(b[j+1], "request")
    BY <1>7, <1>9
  <2>2. CASE k = 2
    <3>1. 2 \in 1..k /\ token[2] = b[j+2]
      BY <1>1, <2>2
    <3> QED
      BY <1>1, <1>9, <2>2, <3>1 DEF Complete
  <2>3. CASE k = 1
    BY <1>1, <2>1, <2>3 DEF IsHead, CutsRequest
  <2> QED
    BY <2>1, <2>2, <2>3
<1> QED
  BY <1>4, <1>7, <1>8, <1>9 DEF token

-----------------------------------------------------------------------------
(* The inbox of a node and the parts of a step.                            *)

LEMMA InboxTyped ==
  ASSUME Types, NEW s \in Nodes
  PROVE  /\ stream[s] \in Seq(Pieces) /\ readbuf[s] \in Seq(Pieces)
         /\ Inbox(s) \in Seq(Pieces) /\ Len(Inbox(s)) = Len(readbuf[s]) + Len(stream[s])
         /\ Len(readbuf[s]) \in Nat /\ Len(stream[s]) \in Nat
         /\ written[s] \in Seq(Ids) /\ handled[s] \in Seq(Ids) /\ answered[s] \in Seq(Ids)
         /\ proc[s] \in {"up", "dead"} /\ asked[s] \in 0..MaxRequests
<1>1. stream[s] \in Seq(Pieces) /\ readbuf[s] \in Seq(Pieces)
  BY DEF Types
<1>2. /\ Inbox(s) \in Seq(Pieces) /\ Len(Inbox(s)) = Len(readbuf[s]) + Len(stream[s])
  BY <1>1, Joined DEF Inbox
<1>3. Len(readbuf[s]) \in Nat /\ Len(stream[s]) \in Nat
  BY <1>1, LenProperties
<1> QED
  BY <1>1, <1>2, <1>3 DEF Types

\* Dropping from the read drops from the inbox.
LEMMA DropJoined ==
  ASSUME NEW S, NEW b \in Seq(S), NEW m \in Seq(S), NEW n \in 0..Len(b)
  PROVE  SubSeq(b, n+1, Len(b)) \o m = SubSeq(b \o m, n+1, Len(b \o m))
<1> DEFINE p == SubSeq(b, n+1, Len(b))
           c == b \o m
           q == SubSeq(c, n+1, Len(c))
<1>1. Len(b) \in Nat /\ Len(m) \in Nat /\ n \in Nat
  BY LenProperties
<1>2. p \in Seq(S) /\ Len(p) = Len(b) - n /\ \A i \in 1..Len(b)-n : p[i] = b[i+n]
  BY Dropped
<1>3. /\ c \in Seq(S) /\ Len(c) = Len(b) + Len(m)
      /\ \A i \in 1..Len(b) : c[i] = b[i]
      /\ \A i \in 1..Len(m) : c[Len(b)+i] = m[i]
  BY Joined
<1>4. n \in 0..Len(c)
  BY <1>1, <1>3
<1> HIDE DEF p, c
<1>5. q \in Seq(S) /\ Len(q) = Len(c) - n /\ \A i \in 1..Len(c)-n : q[i] = c[i+n]
  BY <1>3, <1>4, Dropped
<1>6. /\ p \o m \in Seq(S) /\ Len(p \o m) = Len(p) + Len(m)
      /\ \A i \in 1..Len(p) : (p \o m)[i] = p[i]
      /\ \A i \in 1..Len(m) : (p \o m)[Len(p)+i] = m[i]
  <2>1. p \in Seq(S)
    BY <1>2
  <2> HIDE DEF q
  <2> QED
    BY <2>1, Joined
<1> HIDE DEF q
<1>7. Len(p \o m) = Len(q)
  BY <1>1, <1>2, <1>3, <1>5, <1>6
<1>8. ASSUME NEW i \in 1..Len(q) PROVE (p \o m)[i] = q[i]
  <2>1. CASE i <= Len(b) - n
    <3>1. i \in 1..Len(p) /\ i \in 1..Len(b)-n /\ i+n \in 1..Len(b) /\ i \in 1..Len(c)-n
      BY <1>1, <1>2, <1>3, <1>5, <2>1
    <3> QED
      BY <1>2, <1>3, <1>5, <1>6, <3>1
  <2>2. CASE ~(i <= Len(b) - n)
    <3> DEFINE h == i - Len(p)
    <3>1. h \in 1..Len(m) /\ i = Len(p) + h /\ i+n = Len(b) + h /\ i \in 1..Len(c)-n
      BY <1>1, <1>2, <1>3, <1>5, <2>2
    <3> HIDE DEF h
    <3> QED
      BY <1>3, <1>5, <1>6, <3>1
  <2> QED
    BY <2>1, <2>2
<1>9. p \o m = q
  BY <1>5, <1>6, <1>7, <1>8, SeqEqual
<1> QED
  BY <1>9 DEF p, q, c

\* Appending to the stream appends to the inbox.
LEMMA AppendJoined ==
  ASSUME NEW b \in Seq(Pieces), NEW c \in Seq(Pieces), NEW m \in Seq(Pieces)
  PROVE  b \o (c \o m) = (b \o c) \o m
<1> DEFINE P == Pieces
<1> HIDE DEF P
<1>1. b \in Seq(P) /\ c \in Seq(P) /\ m \in Seq(P)
  BY DEF P
<1> QED
  BY <1>1, ConcatAssociative

\* Cutting the stream cuts the inbox.
LEMMA CutJoined ==
  ASSUME NEW S, NEW b \in Seq(S), NEW m \in Seq(S), NEW n \in 0..Len(m)
  PROVE  b \o SubSeq(m, 1, n) = SubSeq(b \o m, 1, Len(b) + n)
<1> DEFINE p == SubSeq(m, 1, n)
           c == b \o m
           q == SubSeq(c, 1, Len(b) + n)
<1>1. Len(b) \in Nat /\ Len(m) \in Nat /\ n \in Nat
  BY LenProperties
<1>2. p \in Seq(S) /\ Len(p) = n /\ \A i \in 1..n : p[i] = m[i]
  BY Kept
<1>3. /\ c \in Seq(S) /\ Len(c) = Len(b) + Len(m)
      /\ \A i \in 1..Len(b) : c[i] = b[i]
      /\ \A i \in 1..Len(m) : c[Len(b)+i] = m[i]
  BY Joined
<1>4. Len(b) + n \in 0..Len(c)
  BY <1>1, <1>3
<1> HIDE DEF p, c
<1>5. q \in Seq(S) /\ Len(q) = Len(b) + n /\ \A i \in 1..Len(b)+n : q[i] = c[i]
  BY <1>3, <1>4, Kept
<1>6. /\ b \o p \in Seq(S) /\ Len(b \o p) = Len(b) + Len(p)
      /\ \A i \in 1..Len(b) : (b \o p)[i] = b[i]
      /\ \A i \in 1..Len(p) : (b \o p)[Len(b)+i] = p[i]
  <2>1. p \in Seq(S)
    BY <1>2
  <2> HIDE DEF q
  <2> QED
    BY <2>1, Joined
<1> HIDE DEF q
<1>7. Len(b \o p) = Len(q)
  BY <1>2, <1>5, <1>6
<1>8. ASSUME NEW i \in 1..Len(q) PROVE (b \o p)[i] = q[i]
  <2>1. CASE i <= Len(b)
    <3>1. i \in 1..Len(b) /\ i \in 1..Len(b)+n
      BY <1>1, <1>5, <2>1
    <3> QED
      BY <1>3, <1>5, <1>6, <3>1
  <2>2. CASE ~(i <= Len(b))
    <3> DEFINE h == i - Len(b)
    <3>1. h \in 1..n /\ h \in 1..Len(p) /\ h \in 1..Len(m) /\ i = Len(b) + h /\ i \in 1..Len(b)+n
      BY <1>1, <1>2, <1>5, <2>2
    <3> HIDE DEF h
    <3> QED
      BY <1>2, <1>3, <1>5, <1>6, <3>1
  <2> QED
    BY <2>1, <2>2
<1>9. b \o p = q
  BY <1>5, <1>6, <1>7, <1>8, SeqEqual
<1> QED
  BY <1>9 DEF p, q, c

\* A node whose inbox and histories a step leaves alone.
LEMMA NodeKept ==
  ASSUME IInv, NEW t \in Nodes, Inbox(t)' = Inbox(t),
         readbuf'[t] = readbuf[t] \/ CutNoted(t)',
         handled'[t] = handled[t], written'[Peer(t)] = written[Peer(t)],
         answered'[t] = answered[t], handled'[Peer(t)] = handled[Peer(t)],
         Live' => Live, hazard[t] \subseteq hazard'[t]
  PROVE  Framed(t)' /\ RequestsOwed(t)' /\ RepliesOwed(t)' /\ CutNoted(t)'
<1>1. Framed(t) /\ RequestsOwed(t) /\ RepliesOwed(t) /\ CutNoted(t)
  BY DEF IInv
<1>2. Framed(t)' /\ CutNoted(t)'
  BY <1>1 DEF Framed, CutNoted
<1>3. /\ Prefix(handled[t], written[Peer(t)])
      /\ \E to \in 0..Len(written[Peer(t)]) :
           /\ Carries(Inbox(t), "request", Len(handled[t]), to, written[Peer(t)])
           /\ Live => to = Len(written[Peer(t)])
  BY <1>1 DEF RequestsOwed, Owes
<1>4. RequestsOwed(t)'
  BY <1>3 DEF RequestsOwed, Owes
<1>5. /\ Prefix(answered[t], handled[Peer(t)])
      /\ \E to \in 0..Len(handled[Peer(t)]) :
           /\ Carries(Inbox(t), "reply", Len(answered[t]), to, handled[Peer(t)])
           /\ Live => to = Len(handled[Peer(t)])
  BY <1>1 DEF RepliesOwed, Owes
<1>6. RepliesOwed(t)'
  BY <1>5 DEF RepliesOwed, Owes
<1> QED
  BY <1>2, <1>4, <1>6

\* A process that dies empties its inbox and cuts the other's.
LEMMA DieCuts ==
  ASSUME Types, NEW s \in Nodes, NEW why \in {"unconnected", "pipe", "fault"}, Die(s, why)
  PROVE  /\ ~Live'
         /\ stream' \in [Nodes -> Seq(Pieces)] /\ readbuf' \in [Nodes -> Seq(Pieces)]
         /\ proc' = [proc EXCEPT ![s] = "dead"] /\ hazard' = Noted(s, why)
         /\ Inbox(s)' = << >>
         /\ \A t \in Nodes :
              /\ readbuf'[t] = << >> \/ readbuf'[t] = readbuf[t]
              /\ \E m \in 0..Len(Inbox(t)) : Inbox(t)' = SubSeq(Inbox(t), 1, m)
<1> DEFINE p == Peer(s)
<1>1. /\ proc' = [proc EXCEPT ![s] = "dead"] /\ hazard' = Noted(s, why)
      /\ readbuf' = [readbuf EXCEPT ![s] = << >>]
  BY DEF Die
<1>2. PICK n \in 0..Len(stream[p]) :
        stream' = [stream EXCEPT ![s] = << >>, ![p] = SubSeq(@, 1, n)]
  BY DEF Die
<1>3. p \in Nodes /\ p # s /\ \A t \in Nodes : t = s \/ t = p
  BY PeerFacts, NodePairs
<1> HIDE DEF p
<1>4. /\ stream \in [Nodes -> Seq(Pieces)] /\ readbuf \in [Nodes -> Seq(Pieces)]
      /\ proc \in [Nodes -> {"up", "dead"}]
  BY DEF Types
<1>5. stream'[s] = << >> /\ stream'[p] = SubSeq(stream[p], 1, n)
  BY <1>2, <1>3, <1>4
<1>6. readbuf'[s] = << >> /\ readbuf'[p] = readbuf[p]
  BY <1>1, <1>3, <1>4
<1>7. SubSeq(stream[p], 1, n) \in Seq(Pieces)
  BY <1>3, <1>4, Kept
<1>8. stream' \in [Nodes -> Seq(Pieces)] /\ readbuf' \in [Nodes -> Seq(Pieces)]
  <2>1. << >> \in Seq(Pieces)
    BY EmptySeq
  <2> QED
    BY <1>1, <1>2, <1>3, <1>4, <1>7, <2>1
<1>9. ~Live'
  BY <1>1, <1>4 DEF Live
<1>10. Len(Inbox(s)) \in Nat /\ Inbox(s) \in Seq(Pieces)
  BY InboxTyped, LenProperties
<1>11. Inbox(s)' = << >> /\ Inbox(s)' = SubSeq(Inbox(s), 1, 0) /\ 0 \in 0..Len(Inbox(s))
  <2>1. Inbox(s)' = << >>
    BY <1>5, <1>6 DEF Inbox
  <2>2. SubSeq(Inbox(s), 1, 0) = << >>
    BY SubSeqEmpty
  <2> QED
    BY <1>10, <2>1, <2>2
<1>12. Inbox(p)' = SubSeq(Inbox(p), 1, Len(readbuf[p]) + n) /\ Len(readbuf[p]) + n \in 0..Len(Inbox(p))
  <2>1. /\ Len(readbuf[p]) \in Nat /\ Len(stream[p]) \in Nat
        /\ Len(Inbox(p)) = Len(readbuf[p]) + Len(stream[p])
    BY <1>3, InboxTyped
  <2>2. stream[p] \in Seq(Pieces) /\ readbuf[p] \in Seq(Pieces)
    BY <1>3, <1>4
  <2>3. readbuf[p] \o SubSeq(stream[p], 1, n) = SubSeq(readbuf[p] \o stream[p], 1, Len(readbuf[p]) + n)
    BY <2>2, CutJoined
  <2>4. Inbox(p)' = SubSeq(Inbox(p), 1, Len(readbuf[p]) + n)
    BY <1>5, <1>6, <2>3 DEF Inbox
  <2>5. \A a, d \in Nat : \A x \in 0..d : a + x \in 0..(a + d)
    OBVIOUS
  <2>6. Len(readbuf[p]) + n \in 0..Len(Inbox(p))
    BY <2>1, <2>5, Zenon
  <2> QED
    BY <2>4, <2>6
<1>13. ASSUME NEW t \in Nodes
       PROVE  /\ readbuf'[t] = << >> \/ readbuf'[t] = readbuf[t]
              /\ \E m \in 0..Len(Inbox(t)) : Inbox(t)' = SubSeq(Inbox(t), 1, m)
  <2>1. CASE t = s
    BY <1>6, <1>11, <2>1
  <2>2. CASE t = p
    BY <1>6, <1>12, <2>2
  <2> QED
    BY <1>3, <2>1, <2>2
<1> QED
  BY <1>1, <1>8, <1>9, <1>11, <1>13

\* What a node still owes when a process has died.
LEMMA NodeCut ==
  ASSUME IInv, NEW t \in Nodes, NEW m \in 0..Len(Inbox(t)), Inbox(t)' = SubSeq(Inbox(t), 1, m),
         readbuf'[t] = << >> \/ readbuf'[t] = readbuf[t], ~Live', hazard[t] \subseteq hazard'[t]
  PROVE  /\ Framed(t)' /\ CutNoted(t)'
         /\ Owes(Inbox(t)', "request", handled[t], written[Peer(t)], Live')
         /\ Owes(Inbox(t)', "reply", answered[t], handled[Peer(t)], Live')
<1>1. /\ Framed(t) /\ RequestsOwed(t) /\ RepliesOwed(t) /\ CutNoted(t)
      /\ Peer(t) \in Nodes /\ Types
  BY PeerFacts DEF IInv
<1>2. /\ Inbox(t) \in Seq(Pieces) /\ handled[t] \in Seq(Ids) /\ answered[t] \in Seq(Ids)
      /\ handled[Peer(t)] \in Seq(Ids) /\ written[Peer(t)] \in Seq(Ids)
  BY <1>1, InboxTyped
<1>3. Framed(t)'
  BY <1>1, <1>2, AdjacentKept DEF Framed
<1>4. CutNoted(t)'
  BY <1>1 DEF CutNoted
<1>5. Owes(Inbox(t)', "request", handled[t], written[Peer(t)], Live')
  BY <1>1, <1>2, OwesCut DEF RequestsOwed
<1>6. Owes(Inbox(t)', "reply", answered[t], handled[Peer(t)], Live')
  BY <1>1, <1>2, OwesCut DEF RepliesOwed
<1> QED
  BY <1>3, <1>4, <1>5, <1>6

-----------------------------------------------------------------------------
(* Each action preserves the invariant.                                    *)

\* Steps that move no message: the socket, and sends that fail or are lost.
LEMMA QuietStep ==
  ASSUME IInv, UNCHANGED <<buffers, proc, history, hazard>>,
         sock' \in {"none", "created", "connected", "refused"},
         asked' \in [Nodes -> 0..MaxRequests]
  PROVE  IInv'
<1>1. /\ stream' = stream /\ readbuf' = readbuf /\ proc' = proc /\ hazard' = hazard
      /\ written' = written /\ handled' = handled /\ answered' = answered
  BY DEF buffers, history
<1>2. Types'
  BY <1>1 DEF IInv, Types
<1>3. ASSUME NEW t \in Nodes
      PROVE  Framed(t)' /\ RequestsOwed(t)' /\ RepliesOwed(t)' /\ CutNoted(t)'
  <2>1. Inbox(t)' = Inbox(t) /\ (Live' => Live)
    BY <1>1 DEF Inbox, Live
  <2> QED
    BY <1>1, <2>1, NodeKept
<1>4. OnlyACutKills'
  BY <1>1 DEF IInv, OnlyACutKills, Culprit
<1> QED
  BY <1>2, <1>3, <1>4 DEF IInv

\* The counters of the main threads stay within their bound.
LEMMA AskTyped ==
  ASSUME Types, NEW s \in Nodes, Ask(s)
  PROVE  asked' \in [Nodes -> 0..MaxRequests] /\ asked'[s] \in Ids
<1>1. asked[s] \in 0..MaxRequests /\ asked[s] < MaxRequests /\ MaxRequests \in Nat
  BY MaxRequestsAssumption DEF Ask, Types
<1>2. asked[s] + 1 \in 0..MaxRequests /\ asked[s] + 1 \in Ids
  BY <1>1 DEF Ids
<1>3. asked' = [asked EXCEPT ![s] = asked[s] + 1] /\ asked \in [Nodes -> 0..MaxRequests]
  BY DEF Ask, Types
<1> QED
  BY <1>2, <1>3

LEMMA SockTyped ==
  ASSUME Types, UNCHANGED sock
  PROVE  sock' \in {"none", "created", "connected", "refused"}
  BY DEF Types

\* The messages' shapes, as the owing lemmas need them.
LEMMA MessageFacts ==
  ASSUME NEW id \in Ids
  PROVE  /\ Request(id) \in Seq(Pieces) /\ Len(Request(id)) = 3
         /\ Request(id)[1].part = "bar" /\ Request(id)[2].part = "head"
         /\ Request(id)[3].part = "body" /\ Request(id)[2].id = id
         /\ IsHead(Request(id)[2], "request") /\ ~IsHead(Request(id)[2], "reply")
         /\ Reply(id) \in Seq(Pieces) /\ Len(Reply(id)) = 3
         /\ Reply(id)[1].part = "bar" /\ Reply(id)[2].part = "head"
         /\ Reply(id)[3].part = "body" /\ Reply(id)[2].id = id
         /\ IsHead(Reply(id)[2], "reply") /\ ~IsHead(Reply(id)[2], "request")
<1>1. id \in Nat
  BY MaxRequestsAssumption DEF Ids
<1>2. /\ Request(id)[2] = [part |-> "head", words |-> {"SIP/2.0", "INVITE", "uri"}, id |-> id]
      /\ Request(id)[1].part = "bar" /\ Request(id)[3].part = "body" /\ Len(Request(id)) = 3
  <2>1. /\ Len(Request(id)) = 3
        /\ Request(id)[1] = [part |-> "bar",  words |-> {}, id |-> id]
        /\ Request(id)[2] = [part |-> "head", words |-> {"SIP/2.0", "INVITE", "uri"}, id |-> id]
        /\ Request(id)[3] = [part |-> "body", words |-> {}, id |-> id]
    BY <1>1, RequestShape, Zenon
  <2> QED
    BY <2>1
<1>3. /\ Reply(id)[2] = [part |-> "head", words |-> {"SIP/2.0", "200", "OK"}, id |-> id]
      /\ Reply(id)[1].part = "bar" /\ Reply(id)[3].part = "body" /\ Len(Reply(id)) = 3
  <2>1. /\ Len(Reply(id)) = 3
        /\ Reply(id)[1] = [part |-> "bar",  words |-> {}, id |-> id]
        /\ Reply(id)[2] = [part |-> "head", words |-> {"SIP/2.0", "200", "OK"}, id |-> id]
        /\ Reply(id)[3] = [part |-> "body", words |-> {}, id |-> id]
    BY <1>1, ReplyShape, Zenon
  <2> QED
    BY <2>1
<1>4. /\ Request(id)[2].part = "head" /\ Request(id)[2].id = id
      /\ IsHead(Request(id)[2], "request") /\ ~IsHead(Request(id)[2], "reply")
  BY <1>2 DEF IsHead
<1>5. /\ Reply(id)[2].part = "head" /\ Reply(id)[2].id = id
      /\ IsHead(Reply(id)[2], "reply") /\ ~IsHead(Reply(id)[2], "request")
  BY <1>3 DEF IsHead
<1> QED
  BY <1>2, <1>3, <1>4, <1>5, MessagesArePieces

\* The sender's request enters its peer's inbox and its own history together.
LEMMA SendStep ==
  ASSUME IInv, NEW s \in Nodes, SendRequest(s)
  PROVE  IInv'
<1> DEFINE p == Peer(s)
           id == asked'[s]
<1>1. p \in Nodes /\ p # s /\ Peer(p) = s /\ \A t \in Nodes : t = s \/ t = p
  BY PeerFacts, NodePairs
<1>2. Types /\ Ask(s) /\ asked' \in [Nodes -> 0..MaxRequests] /\ id \in Ids
  BY AskTyped DEF IInv, SendRequest
<1> HIDE DEF p, id
<1>3. /\ stream' = [stream EXCEPT ![p] = stream[p] \o Request(id)]
      /\ written' = [written EXCEPT ![s] = Append(written[s], id)]
      /\ sock' = sock /\ readbuf' = readbuf /\ proc' = proc /\ hazard' = hazard
      /\ handled' = handled /\ answered' = answered
      /\ proc[s] = "up" /\ proc[p] = "up"
  BY DEF SendRequest, Ask, p, id
<1>4. Live /\ Live'
  BY <1>1, <1>3 DEF Live
<1>5. /\ Request(id) \in Seq(Pieces) /\ Len(Request(id)) = 3
      /\ Request(id)[1].part = "bar" /\ Request(id)[2].part = "head"
      /\ Request(id)[3].part = "body" /\ Request(id)[2].id = id
      /\ IsHead(Request(id)[2], "request") /\ ~IsHead(Request(id)[2], "reply")
  BY <1>2, MessageFacts
<1>6. /\ stream \in [Nodes -> Seq(Pieces)] /\ written \in [Nodes -> Seq(Ids)]
      /\ stream[p] \in Seq(Pieces) /\ written[s] \in Seq(Ids)
      /\ readbuf[p] \in Seq(Pieces) /\ Inbox(p) \in Seq(Pieces)
      /\ handled[p] \in Seq(Ids) /\ handled[s] \in Seq(Ids) /\ answered[p] \in Seq(Ids)
  <2>1. stream \in [Nodes -> Seq(Pieces)] /\ written \in [Nodes -> Seq(Ids)]
    BY <1>2 DEF Types
  <2> QED
    BY <1>1, <1>2, <2>1, InboxTyped
<1>7. stream[p] \o Request(id) \in Seq(Pieces) /\ Append(written[s], id) \in Seq(Ids)
  <2>1. stream[p] \o Request(id) \in Seq(Pieces)
    BY <1>5, <1>6, Joined
  <2> QED
    BY <1>2, <1>6, <2>1
<1>8. Types'
  BY <1>2, <1>3, <1>6, <1>7, SockTyped DEF Types
<1>9. Inbox(p)' = Inbox(p) \o Request(id) /\ Inbox(s)' = Inbox(s)
  <2>1. stream'[p] = stream[p] \o Request(id) /\ stream'[s] = stream[s]
    BY <1>1, <1>3, <1>6
  <2>2. readbuf[p] \o (stream[p] \o Request(id)) = (readbuf[p] \o stream[p]) \o Request(id)
    BY <1>5, <1>6, AppendJoined
  <2> QED
    BY <1>3, <2>1, <2>2 DEF Inbox
<1>10. written'[s] = Append(written[s], id) /\ written'[p] = written[p]
  BY <1>1, <1>3, <1>6
<1>11. Framed(s)' /\ RequestsOwed(s)' /\ RepliesOwed(s)' /\ CutNoted(s)'
  BY <1>1, <1>3, <1>4, <1>9, <1>10, NodeKept DEF p
<1>12. Framed(p) /\ RequestsOwed(p) /\ RepliesOwed(p) /\ CutNoted(p)
  BY <1>1 DEF IInv
<1>13. Framed(p)'
  BY <1>4, <1>5, <1>6, <1>9, <1>12, AdjacentMessage DEF Framed
<1>14. RequestsOwed(p)'
  <2>1. Owes(Inbox(p), "request", handled[p], written[s], TRUE)
    BY <1>1, <1>2, <1>4, <1>6, <1>12, OwesWeaker DEF RequestsOwed
  <2>2. Owes(Inbox(p) \o Request(id), "request", handled[p], Append(written[s], id), Live')
    BY <1>2, <1>5, <1>6, <2>1, OwesMessage
  <2> QED
    BY <1>1, <1>3, <1>9, <1>10, <2>2 DEF RequestsOwed
<1>15. RepliesOwed(p)'
  <2>1. Owes(Inbox(p), "reply", answered[p], handled[s], TRUE)
    BY <1>1, <1>2, <1>4, <1>6, <1>12, OwesWeaker DEF RepliesOwed
  <2>2. Owes(Inbox(p) \o Request(id), "reply", answered[p], handled[s], TRUE)
    BY <1>5, <1>6, <2>1, OwesForeign
  <2>3. Inbox(p) \o Request(id) \in Seq(Pieces)
    BY <1>5, <1>6, Joined
  <2>4. Owes(Inbox(p) \o Request(id), "reply", answered[p], handled[s], Live')
    BY <1>2, <1>6, <2>2, <2>3, OwesWeaker
  <2> QED
    BY <1>1, <1>3, <1>9, <2>4 DEF RepliesOwed
<1>16. CutNoted(p)'
  BY <1>3, <1>12 DEF CutNoted
<1>17. OnlyACutKills'
  BY <1>3 DEF IInv, OnlyACutKills, Culprit
<1> QED
  BY <1>1, <1>8, <1>11, <1>13, <1>14, <1>15, <1>16, <1>17 DEF IInv

\* A read: what leaves the stream enters the buffer, and a cut is noted.
LEMMA ReadStep ==
  ASSUME IInv, NEW s \in Nodes, Read(s)
  PROVE  IInv'
<1>1. Types
  BY DEF IInv
<1>2. /\ stream[s] \in Seq(Pieces) /\ readbuf[s] = << >>
      /\ stream \in [Nodes -> Seq(Pieces)] /\ readbuf \in [Nodes -> Seq(Pieces)]
  BY <1>1 DEF Types, Read
<1>3. PICK n \in 1..Len(stream[s]) :
        /\ readbuf' = [readbuf EXCEPT ![s] = SubSeq(stream[s], 1, n)]
        /\ stream'  = [stream EXCEPT ![s] = SubSeq(stream[s], n + 1, Len(stream[s]))]
        /\ hazard'  = IF CutsRequest(SubSeq(stream[s], 1, n)) THEN Noted(s, "cut") ELSE hazard
  BY DEF Read
<1>4. /\ sock' = sock /\ proc' = proc /\ asked' = asked
      /\ written' = written /\ handled' = handled /\ answered' = answered
  BY DEF Read, history
<1>5. /\ SubSeq(stream[s], 1, n) \in Seq(Pieces)
      /\ SubSeq(stream[s], n + 1, Len(stream[s])) \in Seq(Pieces)
      /\ SubSeq(stream[s], 1, n) \o SubSeq(stream[s], n + 1, Len(stream[s])) = stream[s]
  <2>1. n \in 0..Len(stream[s]) /\ Len(stream[s]) \in Nat
    BY <1>2, LenProperties
  <2>2. 1 \in 1..Len(stream[s])+1 /\ n \in 1-1..Len(stream[s]) /\ Len(stream[s]) \in n..Len(stream[s])
    BY <2>1
  <2>3. SubSeq(stream[s], 1, n) \o SubSeq(stream[s], n + 1, Len(stream[s]))
          = SubSeq(stream[s], 1, Len(stream[s]))
    BY <1>2, <2>2, ConcatAdjacentSubSeq
  <2>4. /\ SubSeq(stream[s], 1, n) \in Seq(Pieces)
        /\ SubSeq(stream[s], n + 1, Len(stream[s])) \in Seq(Pieces)
    BY <1>2, <2>1, Kept, Dropped
  <2>5. SubSeq(stream[s], 1, Len(stream[s])) = stream[s]
    BY <1>2, SubSeqFull
  <2> QED
    BY <2>3, <2>4, <2>5
<1>6. Types'
  BY <1>1, <1>2, <1>3, <1>4, <1>5 DEF Types, Noted
<1>7. ASSUME NEW t \in Nodes PROVE Inbox(t)' = Inbox(t)
  <2>1. CASE t = s
    <3>1. << >> \o stream[s] = stream[s]
      BY <1>2, ConcatEmptySeq
    <3>2. readbuf'[s] \o stream'[s] = stream[s]
      BY <1>2, <1>3, <1>5
    <3> QED
      BY <1>2, <2>1, <3>1, <3>2 DEF Inbox
  <2>2. CASE t # s
    BY <1>2, <1>3, <2>2 DEF Inbox
  <2> QED
    BY <2>1, <2>2
<1>8. ASSUME NEW t \in Nodes
      PROVE  Framed(t)' /\ RequestsOwed(t)' /\ RepliesOwed(t)' /\ CutNoted(t)'
  <2>1. readbuf'[t] = readbuf[t] \/ CutNoted(t)'
    BY <1>1, <1>2, <1>3 DEF CutNoted, Noted, Types
  <2>2. hazard[t] \subseteq hazard'[t] /\ (Live' => Live)
    BY <1>1, <1>3, <1>4 DEF Live, Noted, Types
  <2> QED
    BY <1>4, <1>7, <2>1, <2>2, NodeKept
<1>9. OnlyACutKills'
  <2>1. \A t \in Nodes : hazard[t] \subseteq hazard'[t]
    BY <1>1, <1>3 DEF Noted, Types
  <2> QED
    BY <1>4, <2>1, PeerFacts DEF IInv, OnlyACutKills, Culprit
<1> QED
  BY <1>6, <1>8, <1>9 DEF IInv

\* A process dies for a reason that OnlyACutKills names.
Blamed(s, why) ==
  "cut" \in hazard[s] \/ why = "unconnected" \/ (why = "pipe" /\ proc[Peer(s)] = "dead")

LEMMA DeathBlamed ==
  ASSUME IInv, NEW s \in Nodes, NEW why, proc[s] = "up", Blamed(s, why),
         proc' = [proc EXCEPT ![s] = "dead"], hazard' = Noted(s, why)
  PROVE  OnlyACutKills'
<1> DEFINE p == Peer(s)
<1>1. /\ p \in Nodes /\ p # s /\ Peer(p) = s /\ \A t \in Nodes : t = s \/ t = p
      /\ proc \in [Nodes -> {"up", "dead"}]
      /\ hazard \in [Nodes -> SUBSET {"cut", "unconnected", "pipe", "fault"}]
  BY PeerFacts, NodePairs DEF IInv, Types
<1> HIDE DEF p
<1>2. /\ proc'[s] = "dead" /\ proc'[p] = proc[p]
      /\ hazard'[s] = hazard[s] \cup {why} /\ hazard'[p] = hazard[p]
  BY <1>1 DEF Noted
<1>3. proc[p] = "dead" => hazard[p] \cap {"cut", "unconnected"} # {}
  BY <1>1 DEF IInv, OnlyACutKills, Culprit
<1>4. Culprit(s)' \/ (why = "pipe" /\ proc[p] = "dead")
  BY <1>2 DEF Blamed, Culprit, p
<1>5. proc[p] = "dead" => Culprit(p)'
  BY <1>2, <1>3 DEF Culprit
<1>6. proc'[p] = "dead" => Culprit(p)'
  BY <1>2, <1>5
<1>7. Culprit(s)' \/ ("pipe" \in hazard'[s] /\ Culprit(p)')
  BY <1>2, <1>4, <1>5
<1> QED
  BY <1>1, <1>6, <1>7 DEF OnlyACutKills, p

\* A process dies without having served anything.
LEMMA DeathStep ==
  ASSUME IInv, NEW s \in Nodes, NEW why \in {"unconnected", "pipe", "fault"}, Die(s, why),
         UNCHANGED <<sock, history>>, asked' \in [Nodes -> 0..MaxRequests],
         proc[s] = "up", Blamed(s, why)
  PROVE  IInv'
<1>1. Types
  BY DEF IInv
<1>2. sock' = sock /\ written' = written /\ handled' = handled /\ answered' = answered
  BY DEF history
<1>3. /\ ~Live'
      /\ stream' \in [Nodes -> Seq(Pieces)] /\ readbuf' \in [Nodes -> Seq(Pieces)]
      /\ proc' = [proc EXCEPT ![s] = "dead"] /\ hazard' = Noted(s, why)
      /\ \A t \in Nodes :
           /\ readbuf'[t] = << >> \/ readbuf'[t] = readbuf[t]
           /\ \E m \in 0..Len(Inbox(t)) : Inbox(t)' = SubSeq(Inbox(t), 1, m)
  BY <1>1, DieCuts
<1>4. Types'
  BY <1>1, <1>2, <1>3 DEF Types, Noted
<1>5. ASSUME NEW t \in Nodes
      PROVE  Framed(t)' /\ RequestsOwed(t)' /\ RepliesOwed(t)' /\ CutNoted(t)'
  <2>1. PICK m \in 0..Len(Inbox(t)) : Inbox(t)' = SubSeq(Inbox(t), 1, m)
    BY <1>3
  <2>2. (readbuf'[t] = << >> \/ readbuf'[t] = readbuf[t]) /\ hazard[t] \subseteq hazard'[t]
    BY <1>1, <1>3 DEF Noted, Types
  <2>3. /\ Framed(t)' /\ CutNoted(t)'
        /\ Owes(Inbox(t)', "request", handled[t], written[Peer(t)], Live')
        /\ Owes(Inbox(t)', "reply", answered[t], handled[Peer(t)], Live')
    BY <1>3, <2>1, <2>2, NodeCut
  <2> QED
    BY <1>2, <2>3 DEF RequestsOwed, RepliesOwed
<1>6. OnlyACutKills'
  BY <1>3, DeathBlamed
<1> QED
  BY <1>4, <1>5, <1>6 DEF IInv

LEMMA SendUnconnectedStep ==
  ASSUME IInv, SendUnconnected
  PROVE  IInv'
<1>1. "area" \in Nodes /\ Types /\ proc["area"] = "up" /\ Blamed("area", "unconnected")
  BY DEF Nodes, IInv, SendUnconnected, Ask, Blamed
<1>2. asked' \in [Nodes -> 0..MaxRequests] /\ UNCHANGED <<sock, history>>
  BY <1>1, AskTyped DEF SendUnconnected
<1> QED
  BY <1>1, <1>2, DeathStep DEF SendUnconnected

LEMMA SendToTheDeadStep ==
  ASSUME IInv, NEW s \in Nodes, SendToTheDead(s)
  PROVE  IInv'
<1>1. Types /\ proc[s] = "up" /\ Blamed(s, "pipe")
  BY DEF IInv, SendToTheDead, Ask, Blamed
<1>2. asked' \in [Nodes -> 0..MaxRequests] /\ UNCHANGED <<sock, history>>
  BY <1>1, AskTyped DEF SendToTheDead
<1>3. CASE Die(s, "pipe")
  BY <1>1, <1>2, <1>3, DeathStep
<1>4. CASE UNCHANGED <<buffers, proc, hazard>>
  BY <1>1, <1>2, <1>4, SockTyped, QuietStep
<1> QED
  BY <1>3, <1>4 DEF SendToTheDead

LEMMA FlushToTheDeadStep ==
  ASSUME IInv, FlushToTheDead
  PROVE  IInv'
<1>1. "core" \in Nodes /\ Types /\ proc["core"] = "up" /\ Blamed("core", "pipe")
  BY DEF Nodes, IInv, FlushToTheDead, Blamed, Peer
<1>2. asked' \in [Nodes -> 0..MaxRequests] /\ UNCHANGED <<sock, history>>
  BY <1>1 DEF FlushToTheDead, Types
<1> QED
  BY <1>1, <1>2, DeathStep DEF FlushToTheDead

\* What is left when the token in front has been dealt with: the inbox without
\* it owes one request less if it held a request, one reply less if a reply.
LEMMA ConsumeToken ==
  ASSUME IInv, NEW s \in Nodes, readbuf[s] # << >>
  PROVE  LET b     == readbuf[s]
             token == Token(Skip(b))
             id    == Head(token).id
             c     == Rest(Skip(b)) \o stream[s]
         IN  /\ Rest(Skip(b)) \in Seq(Pieces) /\ c \in Seq(Pieces)
             /\ Adjacent(c) /\ (Live => EndsWhole(c))
             /\ Rest(Skip(b)) # << >> => (CutsRequest(Rest(Skip(b))) => "cut" \in hazard[s])
             /\ IsRequest(token) => id \in Ids /\ ~IsReply(token)
             /\ IsReply(token)   => id \in Ids
             /\ IsRequest(token) /\ ~Complete(token) => "cut" \in hazard[s]
             /\ IF IsRequest(token)
                THEN Owes(c, "request", Append(handled[s], id), written[Peer(s)], Live)
                ELSE Owes(c, "request", handled[s], written[Peer(s)], Live)
             /\ IF IsReply(token)
                THEN Owes(c, "reply", Append(answered[s], id), handled[Peer(s)], Live)
                ELSE Owes(c, "reply", answered[s], handled[Peer(s)], Live)
<1> DEFINE b     == readbuf[s]
           token == Token(Skip(b))
           id    == Head(token).id
           rest  == Rest(Skip(b))
           c     == rest \o stream[s]
           box   == Inbox(s)
           p     == Peer(s)
<1>1. Types /\ Framed(s) /\ RequestsOwed(s) /\ RepliesOwed(s) /\ CutNoted(s) /\ p \in Nodes
  BY PeerFacts DEF IInv
<1>2. /\ b \in Seq(Pieces) /\ b # << >> /\ stream[s] \in Seq(Pieces) /\ Len(b) \in Nat
      /\ box \in Seq(Pieces) /\ Len(box) = Len(b) + Len(stream[s]) /\ Len(stream[s]) \in Nat
      /\ handled[s] \in Seq(Ids) /\ answered[s] \in Seq(Ids)
      /\ handled[p] \in Seq(Ids) /\ written[p] \in Seq(Ids)
  BY <1>1, InboxTyped
<1>3. \A i \in 1..Len(b) : box[i] = b[i]
  BY <1>2, Joined DEF Inbox
<1>4. Adjacent(box) /\ (Live => EndsWhole(box))
  BY <1>1 DEF Framed
<1>5. /\ Owes(box, "request", handled[s], written[p], Live)
      /\ Owes(box, "reply", answered[s], handled[p], Live)
  BY <1>1 DEF RequestsOwed, RepliesOwed
<1>6. CutsRequest(b) => "cut" \in hazard[s]
  BY <1>1, <1>2 DEF CutNoted
<1>7. box = b \o stream[s]
  BY DEF Inbox
<1> HIDE DEF b, box, p
<1>8. Adjacent(b)
  <2>1. ASSUME NEW i \in 1..Len(b)-1
        PROVE  i \in 1..Len(box)-1 /\ box[i] = b[i] /\ box[i+1] = b[i+1]
    <3>1. i \in 1..Len(b) /\ i+1 \in 1..Len(b) /\ i \in 1..Len(box)-1
      BY <1>2
    <3> QED
      BY <1>3, <3>1
  <2> QED
    BY <1>4, <2>1 DEF Adjacent
<1>9. PICK j \in {0, 1}, k \in {0, 1, 2} : Splits(b, j, k)
  BY <1>2, <1>8, TokenShape
<1>10. /\ j + k \in 1..Len(b) /\ rest = SubSeq(b, (j+k)+1, Len(b))
       /\ j = 1 => b[1].part = "bar"
       /\ k = 2 => b[j+2].part = "body"
  BY <1>9 DEF Splits
<1>11. /\ IsRequest(token) <=> k # 0 /\ IsHead(b[j+1], "request")
       /\ IsReply(token)   <=> k # 0 /\ IsHead(b[j+1], "reply")
       /\ k # 0 => Head(token) = b[j+1] /\ b[j+1] \in Pieces
       /\ IsRequest(token) /\ ~Complete(token) => CutsRequest(b)
  BY <1>2, <1>9, TokenMeaning
<1> HIDE DEF token, rest
<1>12. k # 0 => id = b[j+1].id /\ id \in Ids
  BY <1>11, PieceShape
<1>13. /\ IsRequest(token) => ~IsReply(token)
       /\ b[j+1].part # "head" => ~IsHead(b[j+1], "request") /\ ~IsHead(b[j+1], "reply")
  BY <1>11 DEF IsHead
<1>14. j + k \in 0..Len(b) /\ j + k \in 0..Len(box) /\ j + k <= Len(box)
  BY <1>2, <1>10
<1>15. /\ rest \in Seq(Pieces) /\ Len(rest) = Len(b) - (j+k)
       /\ \A i \in 1..Len(b)-(j+k) : rest[i] = b[i+(j+k)]
  BY <1>2, <1>10, <1>14, Dropped
<1>16. c = SubSeq(box, (j+k)+1, Len(box))
  BY <1>2, <1>7, <1>10, <1>14, DropJoined
<1>17. c \in Seq(Pieces)
  BY <1>2, <1>15, Joined
<1> HIDE DEF c
<1>18. Adjacent(c) /\ (Live => EndsWhole(c))
  BY <1>2, <1>4, <1>14, <1>16, AdjacentDropped
<1>19. rest # << >> => (CutsRequest(rest) => "cut" \in hazard[s])
  <2>1. ASSUME rest # << >> PROVE rest[Len(rest)] = b[Len(b)]
    <3>1. Len(rest) # 0 /\ Len(rest) \in Nat
      BY <1>15, <2>1, EmptySeq
    <3>2. \A l, x, n \in Nat : l = x - n /\ l # 0 => l \in 1..x-n /\ l + n = x
      OBVIOUS
    <3>3. j + k \in Nat /\ Len(b) \in Nat /\ Len(rest) = Len(b) - (j+k)
      BY <1>2, <1>14, <1>15
    <3>4. Len(rest) \in 1..Len(b)-(j+k) /\ Len(rest) + (j+k) = Len(b)
      BY <3>1, <3>2, <3>3
    <3> QED
      BY <1>15, <3>4
  <2> QED
    BY <1>6, <2>1 DEF CutsRequest
<1>20. /\ j = 1 => ~IsHead(box[1], "request") /\ ~IsHead(box[1], "reply")
       /\ k = 2 => ~IsHead(box[j+2], "request") /\ ~IsHead(box[j+2], "reply")
       /\ k # 0 => box[j+1] = b[j+1]
  <2>1. /\ j = 1 => 1 \in 1..Len(b)
        /\ k = 2 => j+2 \in 1..Len(b)
        /\ k # 0 => j+1 \in 1..Len(b)
    BY <1>2, <1>10
  <2> QED
    BY <1>3, <1>10, <2>1 DEF IsHead
<1>21. IF IsRequest(token)
       THEN Owes(c, "request", Append(handled[s], id), written[p], Live)
       ELSE Owes(c, "request", handled[s], written[p], Live)
  <2>1. /\ (k = 0 \/ ~IsHead(box[j+1], "request"))
             => Owes(SubSeq(box, (j+k)+1, Len(box)), "request", handled[s], written[p], Live)
        /\ (k # 0 /\ IsHead(box[j+1], "request"))
             => Owes(SubSeq(box, (j+k)+1, Len(box)), "request",
                     Append(handled[s], box[j+1].id), written[p], Live)
    BY <1>2, <1>5, <1>14, <1>20, OwesSplit
  <2> HIDE DEF id
  <2> QED
    BY <1>11, <1>12, <1>16, <1>20, <2>1
<1>22. IF IsReply(token)
       THEN Owes(c, "reply", Append(answered[s], id), handled[p], Live)
       ELSE Owes(c, "reply", answered[s], handled[p], Live)
  <2>1. /\ (k = 0 \/ ~IsHead(box[j+1], "reply"))
             => Owes(SubSeq(box, (j+k)+1, Len(box)), "reply", answered[s], handled[p], Live)
        /\ (k # 0 /\ IsHead(box[j+1], "reply"))
             => Owes(SubSeq(box, (j+k)+1, Len(box)), "reply",
                     Append(answered[s], box[j+1].id), handled[p], Live)
    BY <1>2, <1>5, <1>14, <1>20, OwesSplit
  <2> HIDE DEF id
  <2> QED
    BY <1>11, <1>12, <1>16, <1>20, <2>1
<1>23. /\ IsRequest(token) => id \in Ids
       /\ IsReply(token) => id \in Ids
       /\ IsRequest(token) /\ ~Complete(token) => "cut" \in hazard[s]
  BY <1>6, <1>11, <1>12
<1> HIDE DEF id
<1>24. /\ rest \in Seq(Pieces) /\ c \in Seq(Pieces)
       /\ Adjacent(c) /\ (Live => EndsWhole(c))
       /\ rest # << >> => (CutsRequest(rest) => "cut" \in hazard[s])
       /\ IsRequest(token) => id \in Ids /\ ~IsReply(token)
       /\ IsReply(token)   => id \in Ids
       /\ IsRequest(token) /\ ~Complete(token) => "cut" \in hazard[s]
  BY <1>13, <1>15, <1>17, <1>18, <1>19, <1>23
<1> QED
  BY <1>21, <1>22, <1>24 DEF b, token, id, rest, c, p

\* A reply is read, or a fragment that is no request is passed over.
LEMMA IgnoreStep ==
  ASSUME IInv, NEW s \in Nodes, Ignore(s)
  PROVE  IInv'
<1> DEFINE token == Token(Skip(readbuf[s]))
           id    == Head(token).id
           rest  == Rest(Skip(readbuf[s]))
           c     == rest \o stream[s]
<1>1. Types /\ readbuf[s] # << >> /\ ~IsRequest(token)
  BY DEF IInv, Ignore
<1>2. /\ readbuf' = [readbuf EXCEPT ![s] = rest]
      /\ answered' = IF IsReply(token)
                     THEN [answered EXCEPT ![s] = Append(answered[s], id)] ELSE answered
      /\ sock' = sock /\ stream' = stream /\ proc' = proc /\ asked' = asked
      /\ written' = written /\ handled' = handled /\ hazard' = hazard
  BY DEF Ignore
<1>3. /\ rest \in Seq(Pieces) /\ c \in Seq(Pieces)
      /\ Adjacent(c) /\ (Live => EndsWhole(c))
      /\ rest # << >> => (CutsRequest(rest) => "cut" \in hazard[s])
      /\ IsReply(token) => id \in Ids
      /\ Owes(c, "request", handled[s], written[Peer(s)], Live)
      /\ IF IsReply(token)
         THEN Owes(c, "reply", Append(answered[s], id), handled[Peer(s)], Live)
         ELSE Owes(c, "reply", answered[s], handled[Peer(s)], Live)
  BY <1>1, ConsumeToken
<1> HIDE DEF token, id, rest
<1>4. /\ readbuf \in [Nodes -> Seq(Pieces)] /\ answered \in [Nodes -> Seq(Ids)]
      /\ answered[s] \in Seq(Ids)
  BY <1>1 DEF Types
<1>5. IsReply(token) => Append(answered[s], id) \in Seq(Ids)
  BY <1>3, <1>4
<1>6. Types'
  <2>1. readbuf' \in [Nodes -> Seq(Pieces)]
    BY <1>2, <1>3, <1>4
  <2>2. answered' \in [Nodes -> Seq(Ids)]
    BY <1>2, <1>4, <1>5
  <2> QED
    BY <1>1, <1>2, <2>1, <2>2 DEF Types
<1>7. Inbox(s)' = c /\ readbuf'[s] = rest /\ (Live' <=> Live)
  BY <1>2, <1>4 DEF Inbox, Live
<1>8. ASSUME NEW t \in Nodes
      PROVE  Framed(t)' /\ RequestsOwed(t)' /\ RepliesOwed(t)' /\ CutNoted(t)'
  <2>1. CASE t = s
    <3>1. Framed(s)' /\ CutNoted(s)'
      BY <1>2, <1>3, <1>7 DEF Framed, CutNoted
    <3>2. RequestsOwed(s)'
      BY <1>2, <1>3, <1>7 DEF RequestsOwed, Live
    <3>3. answered'[s] = IF IsReply(token) THEN Append(answered[s], id) ELSE answered[s]
      BY <1>2, <1>4
    <3>4. RepliesOwed(s)'
      BY <1>2, <1>3, <1>7, <3>3 DEF RepliesOwed, Live
    <3> QED
      BY <2>1, <3>1, <3>2, <3>4
  <2>2. CASE t # s
    <3>1. Inbox(t)' = Inbox(t) /\ readbuf'[t] = readbuf[t] /\ answered'[t] = answered[t]
      BY <1>2, <1>4, <2>2 DEF Inbox
    <3> QED
      BY <1>2, <1>7, <3>1, NodeKept
  <2> QED
    BY <2>1, <2>2
<1>9. OnlyACutKills'
  BY <1>2 DEF IInv, OnlyACutKills, Culprit
<1> QED
  BY <1>6, <1>8, <1>9 DEF IInv

\* A request without its body: its read was cut.
LEMMA FaultStep ==
  ASSUME IInv, NEW s \in Nodes, Fault(s)
  PROVE  IInv'
<1>1. Types /\ Die(s, "fault") /\ UNCHANGED <<sock, history>> /\ asked' = asked
  BY DEF IInv, Fault
<1>2. proc[s] = "up" /\ Blamed(s, "fault")
  BY ConsumeToken DEF Fault, Blamed
<1>3. asked' \in [Nodes -> 0..MaxRequests]
  BY <1>1 DEF Types
<1> QED
  BY <1>1, <1>2, <1>3, DeathStep

\* A request is served and its reply written, while the peer lives.
LEMMA ServeStep ==
  ASSUME IInv, NEW s \in Nodes, readbuf[s] # << >>, IsRequest(Token(Skip(readbuf[s]))),
         proc[s] = "up",
         LET id == Head(Token(Skip(readbuf[s]))).id IN
           /\ handled' = [handled EXCEPT ![s] = Append(@, id)]
           /\ stream'  = IF proc[Peer(s)] = "up"
                         THEN [stream EXCEPT ![Peer(s)] = @ \o Reply(id)] ELSE stream,
         readbuf' = [readbuf EXCEPT ![s] = Rest(Skip(@))],
         UNCHANGED <<proc, hazard, sock, asked, written, answered>>
  PROVE  IInv'
<1> DEFINE token == Token(Skip(readbuf[s]))
           id    == Head(token).id
           rest  == Rest(Skip(readbuf[s]))
           c     == rest \o stream[s]
           p     == Peer(s)
           reply == Reply(id)
<1>1. /\ handled' = [handled EXCEPT ![s] = Append(handled[s], id)]
      /\ stream' = IF proc[p] = "up" THEN [stream EXCEPT ![p] = stream[p] \o reply] ELSE stream
      /\ readbuf' = [readbuf EXCEPT ![s] = rest]
      /\ proc' = proc /\ hazard' = hazard /\ sock' = sock /\ asked' = asked
      /\ written' = written /\ answered' = answered
  OBVIOUS
<1>2. Types /\ p \in Nodes /\ p # s /\ Peer(p) = s /\ \A t \in Nodes : t = s \/ t = p
  BY PeerFacts, NodePairs DEF IInv
<1>3. /\ rest \in Seq(Pieces) /\ c \in Seq(Pieces)
      /\ Adjacent(c) /\ (Live => EndsWhole(c))
      /\ rest # << >> => (CutsRequest(rest) => "cut" \in hazard[s])
      /\ id \in Ids
      /\ Owes(c, "request", Append(handled[s], id), written[p], Live)
      /\ Owes(c, "reply", answered[s], handled[p], Live)
  BY ConsumeToken
<1>4. /\ reply \in Seq(Pieces) /\ Len(reply) = 3
      /\ reply[1].part = "bar" /\ reply[2].part = "head" /\ reply[3].part = "body"
      /\ reply[2].id = id /\ IsHead(reply[2], "reply") /\ ~IsHead(reply[2], "request")
  BY <1>3, MessageFacts
<1> HIDE DEF token, id, rest, p, reply
<1>5. /\ readbuf \in [Nodes -> Seq(Pieces)] /\ stream \in [Nodes -> Seq(Pieces)]
      /\ handled \in [Nodes -> Seq(Ids)]
      /\ handled[s] \in Seq(Ids) /\ handled[p] \in Seq(Ids) /\ written[s] \in Seq(Ids)
      /\ answered[p] \in Seq(Ids)
      /\ stream[p] \in Seq(Pieces) /\ readbuf[p] \in Seq(Pieces) /\ Inbox(p) \in Seq(Pieces)
  <2>1. /\ readbuf \in [Nodes -> Seq(Pieces)] /\ stream \in [Nodes -> Seq(Pieces)]
        /\ handled \in [Nodes -> Seq(Ids)]
    BY <1>2 DEF Types
  <2> QED
    BY <1>2, <2>1, InboxTyped
<1>6. stream[p] \o reply \in Seq(Pieces) /\ Inbox(p) \o reply \in Seq(Pieces)
  BY <1>4, <1>5, Joined
<1>7. Append(handled[s], id) \in Seq(Ids)
  BY <1>3, <1>5
<1>8. Types'
  <2>1. readbuf' \in [Nodes -> Seq(Pieces)]
    BY <1>1, <1>3, <1>5
  <2>2. stream' \in [Nodes -> Seq(Pieces)]
    <3>1. CASE proc[p] = "up"
      <4>1. stream' = [stream EXCEPT ![p] = stream[p] \o reply]
        BY <1>1, <3>1
      <4> QED
        BY <1>2, <1>5, <1>6, <4>1
    <3>2. CASE proc[p] # "up"
      BY <1>1, <1>5, <3>2
    <3> QED
      BY <3>1, <3>2
  <2>3. handled' \in [Nodes -> Seq(Ids)]
    BY <1>1, <1>5, <1>7
  <2> QED
    BY <1>1, <1>2, <2>1, <2>2, <2>3 DEF Types
<1>9. Live <=> proc[p] = "up"
  BY <1>2 DEF Live
<1>10. Live' <=> Live
  BY <1>1 DEF Live
<1>11. handled'[s] = Append(handled[s], id) /\ handled'[p] = handled[p]
  BY <1>1, <1>2, <1>5
<1>12. /\ readbuf'[s] = rest /\ readbuf'[p] = readbuf[p] /\ stream'[s] = stream[s]
       /\ stream'[p] = IF Live THEN stream[p] \o reply ELSE stream[p]
  BY <1>1, <1>2, <1>5, <1>9
<1>13. Inbox(s)' = c
  BY <1>12 DEF Inbox
<1>14. Inbox(p)' = IF Live THEN Inbox(p) \o reply ELSE Inbox(p)
  <2>1. readbuf[p] \o (stream[p] \o reply) = (readbuf[p] \o stream[p]) \o reply
    BY <1>4, <1>5, AppendJoined
  <2>2. CASE Live
    <3>1. readbuf'[p] \o stream'[p] = (readbuf[p] \o stream[p]) \o reply
      BY <1>12, <2>1, <2>2
    <3> QED
      BY <2>2, <3>1 DEF Inbox
  <2>3. CASE ~Live
    <3>1. readbuf'[p] = readbuf[p] /\ stream'[p] = stream[p]
      BY <1>12, <2>3
    <3>2. Inbox(p)' = Inbox(p)
      BY <3>1 DEF Inbox
    <3> QED
      BY <2>3, <3>2
  <2> QED
    BY <2>2, <2>3
<1> HIDE DEF c
<1>15. Framed(s)' /\ RequestsOwed(s)' /\ RepliesOwed(s)' /\ CutNoted(s)'
  <2>1. Framed(s)' /\ CutNoted(s)'
    BY <1>1, <1>3, <1>10, <1>12, <1>13 DEF Framed, CutNoted
  <2>2. RequestsOwed(s)'
    BY <1>1, <1>3, <1>11, <1>13 DEF RequestsOwed, Live, p
  <2>3. RepliesOwed(s)'
    BY <1>1, <1>3, <1>11, <1>13 DEF RepliesOwed, Live, p
  <2> QED
    BY <2>1, <2>2, <2>3
<1>16. Framed(p) /\ RequestsOwed(p) /\ RepliesOwed(p) /\ CutNoted(p)
  BY <1>2 DEF IInv
<1>17. /\ Owes(Inbox(p), "request", handled[p], written[s], Live)
       /\ Owes(Inbox(p), "reply", answered[p], handled[s], Live)
  BY <1>2, <1>16 DEF RequestsOwed, RepliesOwed
<1>18. Framed(p)' /\ CutNoted(p)'
  <2>1. CutNoted(p)'
    BY <1>1, <1>12, <1>16 DEF CutNoted
  <2>2. CASE Live
    BY <1>4, <1>5, <1>14, <1>16, <2>1, <2>2, AdjacentMessage DEF Framed
  <2>3. CASE ~Live
    BY <1>10, <1>14, <1>16, <2>1, <2>3 DEF Framed
  <2> QED
    BY <2>1, <2>2, <2>3
<1>19. RequestsOwed(p)'
  <2>1. Owes(Inbox(p)', "request", handled[p], written[s], Live)
    <3>1. CASE Live
      <4>1. Owes(Inbox(p) \o reply, "request", handled[p], written[s], Live)
        BY <1>4, <1>5, <1>17, OwesForeign
      <4> QED
        BY <1>14, <3>1, <4>1
    <3>2. CASE ~Live
      BY <1>14, <1>17, <3>2
    <3> QED
      BY <3>1, <3>2
  <2> QED
    BY <1>1, <1>2, <1>11, <2>1 DEF RequestsOwed, Live
<1>20. RepliesOwed(p)'
  <2>1. Owes(Inbox(p)', "reply", answered[p], Append(handled[s], id), Live)
    <3>1. CASE Live
      <4>1. Owes(Inbox(p), "reply", answered[p], handled[s], TRUE)
        BY <1>3, <1>5, <1>17, <3>1, OwesWeaker
      <4>2. Owes(Inbox(p) \o reply, "reply", answered[p], Append(handled[s], id), Live)
        BY <1>3, <1>4, <1>5, <4>1, OwesMessage
      <4> QED
        BY <1>14, <3>1, <4>2
    <3>2. CASE ~Live
      <4>1. Owes(Inbox(p), "reply", answered[p], Append(handled[s], id), Live)
        BY <1>3, <1>5, <1>17, <3>2, OwesWeaker
      <4> QED
        BY <1>14, <3>2, <4>1
    <3> QED
      BY <3>1, <3>2
  <2> QED
    BY <1>1, <1>2, <1>11, <2>1 DEF RepliesOwed, Live
<1>21. OnlyACutKills'
  BY <1>1 DEF IInv, OnlyACutKills, Culprit
<1> QED
  BY <1>2, <1>8, <1>15, <1>18, <1>19, <1>20, <1>21 DEF IInv

\* A request is served, but the node dies of writing its reply.
LEMMA ServeAndDieStep ==
  ASSUME IInv, NEW s \in Nodes, readbuf[s] # << >>, IsRequest(Token(Skip(readbuf[s]))),
         handled' = [handled EXCEPT ![s] = Append(@, Head(Token(Skip(readbuf[s]))).id)],
         proc[s] = "up", Blamed(s, "pipe"), Die(s, "pipe"),
         UNCHANGED <<sock, asked, written, answered>>
  PROVE  IInv'
<1> DEFINE token == Token(Skip(readbuf[s]))
           id    == Head(token).id
           c     == Rest(Skip(readbuf[s])) \o stream[s]
           p     == Peer(s)
<1>1. /\ handled' = [handled EXCEPT ![s] = Append(handled[s], id)]
      /\ sock' = sock /\ asked' = asked /\ written' = written /\ answered' = answered
  OBVIOUS
<1>2. Types /\ p \in Nodes /\ p # s /\ Peer(p) = s /\ \A t \in Nodes : t = s \/ t = p
  BY PeerFacts, NodePairs DEF IInv
<1>3. /\ c \in Seq(Pieces) /\ id \in Ids
      /\ Owes(c, "request", Append(handled[s], id), written[p], Live)
  BY ConsumeToken
<1> HIDE DEF token, id, c, p
<1>4. /\ ~Live'
      /\ stream' \in [Nodes -> Seq(Pieces)] /\ readbuf' \in [Nodes -> Seq(Pieces)]
      /\ proc' = [proc EXCEPT ![s] = "dead"] /\ hazard' = Noted(s, "pipe")
      /\ Inbox(s)' = << >>
      /\ \A t \in Nodes :
           /\ readbuf'[t] = << >> \/ readbuf'[t] = readbuf[t]
           /\ \E m \in 0..Len(Inbox(t)) : Inbox(t)' = SubSeq(Inbox(t), 1, m)
  BY <1>2, DieCuts
<1>5. /\ handled \in [Nodes -> Seq(Ids)] /\ handled[s] \in Seq(Ids) /\ answered[p] \in Seq(Ids)
      /\ written[p] \in Seq(Ids)
  BY <1>2 DEF Types
<1>6. Append(handled[s], id) \in Seq(Ids)
  BY <1>3, <1>5
<1>7. Types'
  <2>1. handled' \in [Nodes -> Seq(Ids)]
    BY <1>1, <1>5, <1>6
  <2> QED
    BY <1>1, <1>2, <1>4, <2>1 DEF Types, Noted
<1>8. handled'[s] = Append(handled[s], id) /\ handled'[p] = handled[p]
  BY <1>1, <1>2, <1>5
<1>9. ASSUME NEW t \in Nodes
      PROVE  /\ Framed(t)' /\ CutNoted(t)' /\ Inbox(t)' \in Seq(Pieces)
             /\ Owes(Inbox(t)', "request", handled[t], written[Peer(t)], Live')
             /\ Owes(Inbox(t)', "reply", answered[t], handled[Peer(t)], Live')
  <2>1. PICK m \in 0..Len(Inbox(t)) : Inbox(t)' = SubSeq(Inbox(t), 1, m)
    BY <1>4
  <2>2. (readbuf'[t] = << >> \/ readbuf'[t] = readbuf[t]) /\ hazard[t] \subseteq hazard'[t]
    BY <1>2, <1>4 DEF Noted, Types
  <2>3. Inbox(t) \in Seq(Pieces)
    BY <1>2, InboxTyped
  <2>4. Inbox(t)' \in Seq(Pieces)
    BY <2>1, <2>3, Kept
  <2>5. /\ Framed(t)' /\ CutNoted(t)'
        /\ Owes(Inbox(t)', "request", handled[t], written[Peer(t)], Live')
        /\ Owes(Inbox(t)', "reply", answered[t], handled[Peer(t)], Live')
    BY <1>4, <2>1, <2>2, NodeCut
  <2> QED
    BY <2>4, <2>5
<1>10. RequestsOwed(s)' /\ RepliesOwed(s)'
  <2>1. 0 \in 0..Len(c)
    BY <1>3, LenProperties
  <2>2. Owes(SubSeq(c, 1, 0), "request", Append(handled[s], id), written[p], Live')
    BY <1>3, <1>4, <1>5, <1>6, <2>1, OwesCut
  <2>3. SubSeq(c, 1, 0) = << >>
    BY SubSeqEmpty
  <2>4. RequestsOwed(s)'
    BY <1>1, <1>4, <1>8, <2>2, <2>3 DEF RequestsOwed, p
  <2>5. Owes(Inbox(s)', "reply", answered[s], handled[p], Live')
    BY <1>9 DEF p
  <2>6. RepliesOwed(s)'
    BY <1>1, <1>8, <2>5 DEF RepliesOwed, p
  <2> QED
    BY <2>4, <2>6
<1>11. RequestsOwed(p)' /\ RepliesOwed(p)'
  <2>1. /\ Owes(Inbox(p)', "request", handled[p], written[s], Live')
        /\ Owes(Inbox(p)', "reply", answered[p], handled[s], Live')
        /\ Inbox(p)' \in Seq(Pieces)
    BY <1>2, <1>9
  <2>2. Owes(Inbox(p)', "reply", answered[p], Append(handled[s], id), Live')
    BY <1>3, <1>4, <1>5, <2>1, OwesWeaker
  <2> QED
    BY <1>1, <1>2, <1>8, <2>1, <2>2 DEF RequestsOwed, RepliesOwed
<1>12. OnlyACutKills'
  BY <1>4, DeathBlamed
<1>13. ASSUME NEW t \in Nodes
       PROVE  Framed(t)' /\ RequestsOwed(t)' /\ RepliesOwed(t)' /\ CutNoted(t)'
  BY <1>2, <1>9, <1>10, <1>11
<1> QED
  BY <1>7, <1>12, <1>13 DEF IInv

LEMMA HandleStep ==
  ASSUME IInv, NEW s \in Nodes, Handle(s)
  PROVE  IInv'
<1> DEFINE id == Head(Token(Skip(readbuf[s]))).id
<1>1. /\ readbuf[s] # << >> /\ IsRequest(Token(Skip(readbuf[s]))) /\ proc[s] = "up"
      /\ handled' = [handled EXCEPT ![s] = Append(@, id)]
      /\ UNCHANGED <<sock, asked, written, answered>>
      /\ \/ /\ readbuf' = [readbuf EXCEPT ![s] = Rest(Skip(@))]
            /\ stream'  = IF proc[Peer(s)] = "up"
                          THEN [stream EXCEPT ![Peer(s)] = @ \o Reply(id)] ELSE stream
            /\ UNCHANGED <<proc, hazard>>
         \/ proc[Peer(s)] = "dead" /\ Die(s, "pipe")
  BY DEF Handle, Peer
<1>2. CASE /\ readbuf' = [readbuf EXCEPT ![s] = Rest(Skip(@))]
           /\ stream'  = IF proc[Peer(s)] = "up"
                         THEN [stream EXCEPT ![Peer(s)] = @ \o Reply(id)] ELSE stream
           /\ UNCHANGED <<proc, hazard>>
  BY <1>1, <1>2, ServeStep
<1>3. CASE proc[Peer(s)] = "dead" /\ Die(s, "pipe")
  BY <1>1, <1>3, ServeAndDieStep DEF Blamed
<1> QED
  BY <1>1, <1>2, <1>3

-----------------------------------------------------------------------------
(* The theorems.                                                           *)

LEMMA InitInvariant == Init => IInv
<1> SUFFICES ASSUME Init PROVE IInv
  OBVIOUS
<1>1. << >> \in Seq(Pieces) /\ << >> \in Seq(Ids) /\ 0 \in 0..MaxRequests /\ Len(<< >>) = 0
  BY MaxRequestsAssumption, EmptySeq
<1>2. Types
  BY <1>1 DEF Init, Types
<1>3. ASSUME NEW s \in Nodes
      PROVE  Framed(s) /\ RequestsOwed(s) /\ RepliesOwed(s) /\ CutNoted(s)
  <2>1. /\ readbuf[s] = << >> /\ stream[s] = << >> /\ handled[s] = << >> /\ answered[s] = << >>
        /\ written[Peer(s)] = << >> /\ handled[Peer(s)] = << >>
    BY PeerFacts DEF Init
  <2>2. Inbox(s) = << >>
    BY <1>1, <2>1, ConcatEmptySeq DEF Inbox
  <2>3. Framed(s) /\ CutNoted(s)
    BY <1>1, <2>1, <2>2 DEF Framed, Adjacent, EndsWhole, CutNoted
  <2>4. ASSUME NEW kind PROVE Owes(<< >>, kind, << >>, << >>, Live)
    <3> DEFINE r == [i \in 0..0 |-> 0]
    <3>1. Numbers(r, << >>, kind, 0, 0, << >>)
      BY <1>1 DEF Numbers
    <3>2. Carries(<< >>, kind, 0, 0, << >>)
      BY <3>1 DEF Carries
    <3> QED
      BY <1>1, <3>2 DEF Owes, Prefix
  <2> QED
    BY <2>1, <2>2, <2>3, <2>4 DEF RequestsOwed, RepliesOwed
<1>4. OnlyACutKills
  BY DEF Init, OnlyACutKills
<1> QED
  BY <1>2, <1>3, <1>4 DEF IInv

LEMMA NextInvariant == IInv /\ [Next]_vars => IInv'
<1> SUFFICES ASSUME IInv, [Next]_vars PROVE IInv'
  OBVIOUS
<1>0. Types
  BY DEF IInv
<1>1. CASE Connecting
  <2>1. /\ UNCHANGED <<buffers, proc, asked, history, hazard>>
        /\ sock' \in {"none", "created", "connected", "refused"}
    BY <1>1 DEF Connecting, CreateSocket, Connect
  <2>2. asked' \in [Nodes -> 0..MaxRequests]
    BY <1>0, <2>1 DEF Types
  <2> QED
    BY <2>1, <2>2, QuietStep
<1>2. ASSUME NEW s \in Nodes, SendRequest(s) PROVE IInv'
  BY <1>2, SendStep
<1>3. ASSUME NEW s \in Nodes, SendNowhere(s) PROVE IInv'
  <2>1. UNCHANGED <<sock, buffers, proc, history, hazard>>
    BY <1>3 DEF SendNowhere
  <2>2. asked' \in [Nodes -> 0..MaxRequests]
    BY <1>0, <1>3, AskTyped DEF SendNowhere
  <2> QED
    BY <1>0, <2>1, <2>2, SockTyped, QuietStep
<1>4. ASSUME NEW s \in Nodes, SendUnconnected \/ SendToTheDead(s) \/ FlushToTheDead
      PROVE  IInv'
  BY <1>4, SendUnconnectedStep, SendToTheDeadStep, FlushToTheDeadStep
<1>5. ASSUME NEW s \in Nodes, Reading(s) PROVE IInv'
  BY <1>5, ReadStep, IgnoreStep, HandleStep, FaultStep DEF Reading
<1>6. CASE UNCHANGED vars
  <2>1. UNCHANGED <<sock, buffers, proc, asked, history, hazard>>
    BY <1>6 DEF vars
  <2>2. asked' \in [Nodes -> 0..MaxRequests]
    BY <1>0, <2>1 DEF Types
  <2> QED
    BY <1>0, <2>1, <2>2, SockTyped, QuietStep
<1> QED
  BY <1>1, <1>2, <1>3, <1>4, <1>5, <1>6 DEF Next, Nodes

LEMMA InvariantHolds == Spec => []IInv
<1> QED
  BY InitInvariant, NextInvariant, PTL DEF Spec

\* The streams of one connection hold nothing but pieces of requests and replies,
\* whatever a read of Server.h:280 or TCP_Client.cpp:133 takes out of them (TypeOK).
THEOREM TypeCorrect == Spec => []TypeOK
<1>1. IInv => TypeOK
  <2> SUFFICES ASSUME IInv PROVE TypeOK
    OBVIOUS
  <2>1. Types
    BY DEF IInv
  <2>2. \A S : \A q \in Seq(S) : Range(q) \subseteq S
    BY LenProperties DEF Range
  <2>3. ASSUME NEW s \in Nodes
        PROVE  /\ Range(stream[s]) \subseteq Pieces /\ Range(readbuf[s]) \subseteq Pieces
               /\ Range(written[s]) \cup Range(handled[s]) \cup Range(answered[s]) \subseteq Ids
    <3>1. /\ stream[s] \in Seq(Pieces) /\ readbuf[s] \in Seq(Pieces)
          /\ written[s] \in Seq(Ids) /\ handled[s] \in Seq(Ids) /\ answered[s] \in Seq(Ids)
      BY <2>1 DEF Types
    <3> QED
      BY <2>2, <3>1
  <2> QED
    BY <2>1, <2>3 DEF Types, TypeOK
<1> QED
  BY <1>1, InvariantHolds, PTL

\* However reads cut and coalesce the stream, each node's handlers serve a prefix
\* of what the other wrote, once and in order, and the replies come back in it
\* (ServedInOrder).
THEOREM RequestsServedInOrder == Spec => []ServedInOrder
<1>1. IInv => ServedInOrder
  <2> SUFFICES ASSUME IInv PROVE ServedInOrder
    OBVIOUS
  <2>1. ASSUME NEW d \in Seq(Ids), NEW w \in Seq(Ids), Prefix(d, w) PROVE IsPrefix(d, w)
    <3>1. /\ Len(d) \in 0..Len(w) /\ Len(d) \in 0..Len(d)
          /\ \A i \in 1..Len(d) : d[i] = w[i]
      BY <2>1, LenProperties DEF Prefix
    <3>2. /\ SubSeq(d, 1, Len(d)) \in Seq(Ids) /\ Len(SubSeq(d, 1, Len(d))) = Len(d)
          /\ \A i \in 1..Len(d) : SubSeq(d, 1, Len(d))[i] = d[i]
      BY <3>1, Kept
    <3>3. /\ SubSeq(w, 1, Len(d)) \in Seq(Ids) /\ Len(SubSeq(w, 1, Len(d))) = Len(d)
          /\ \A i \in 1..Len(d) : SubSeq(w, 1, Len(d))[i] = w[i]
      BY <3>1, Kept
    <3>4. SubSeq(d, 1, Len(d)) = SubSeq(w, 1, Len(d))
      BY <3>1, <3>2, <3>3, SeqEqual
    <3> QED
      BY <3>4, <2>1 DEF IsPrefix, Prefix
  <2>2. ASSUME NEW s \in Nodes
        PROVE  IsPrefix(handled[Peer(s)], written[s]) /\ IsPrefix(answered[s], handled[Peer(s)])
    <3>1. Types /\ Peer(s) \in Nodes /\ Peer(Peer(s)) = s
      BY PeerFacts DEF IInv
    <3>2. RequestsOwed(Peer(s)) /\ RepliesOwed(s)
      BY <3>1 DEF IInv
    <3>3. Prefix(handled[Peer(s)], written[s]) /\ Prefix(answered[s], handled[Peer(s)])
      BY <3>1, <3>2 DEF RequestsOwed, RepliesOwed, Owes
    <3>4. /\ handled[Peer(s)] \in Seq(Ids) /\ written[s] \in Seq(Ids)
          /\ answered[s] \in Seq(Ids)
      BY <3>1 DEF Types
    <3> QED
      BY <2>1, <3>3, <3>4
  <2> QED
    BY <2>2 DEF ServedInOrder
<1> QED
  BY <1>1, InvariantHolds, PTL

\* When a node is dead, one has died of a read that ended inside a request, or
\* as the Area Node of sending with no connection established; the other can
\* follow by writing to it (OnlyACutKills; My_connec.cpp:57, Connection.h:33).
THEOREM DeathHasACause == Spec => []OnlyACutKills
<1>1. IInv => OnlyACutKills
  BY DEF IInv
<1> QED
  BY <1>1, InvariantHolds, PTL
=============================================================================
