---------------------------- MODULE SipProtocol ----------------------------
(***************************************************************************)
(* libxmlrpc's SipProtocol: how one message of the stream is written and   *)
(* how connectionMachine takes it apart again, read by read.               *)
(*                                                                         *)
(* A message is a header of lines, each ended by CR LF, an empty line, and *)
(* an XML body whose last character is LF.  The start line and the line of *)
(* the fields a response copies (To, From, Call-ID, CSeq) are one          *)
(* character each, Content-Length is two, its name and its value; the body *)
(* has as many characters as Content-Length says.  A character knows the   *)
(* message it is of, its place in it and the length of its body; the value *)
(* of Content-Length is what it says of the body, which is less when a     *)
(* write stops between its digits.                                         *)
(*                                                                         *)
(* A protocol object is a record: conn, the connection it has open, or     *)
(* None; state, first (header_firstline is set), line (header_buffer),     *)
(* length and fields (headerprops), remain (remain_content_length) and, of *)
(* the loop that calls the machine, have (characters read and not yet      *)
(* consumed) and data (super_data).                                        *)
(***************************************************************************)
EXTENDS Integers, Sequences

CONSTANT Buffer  \* ULXR_RECV_BUFFER_SIZE, in characters

ASSUME BufferAssumption == Buffer \in Nat \ {0}

None    == 0
Missing == -1

-----------------------------------------------------------------------------
(* Messages.                                                               *)

Header == <<"start", "cr", "lf", "fields", "cr", "lf",
            "name", "length", "cr", "lf", "cr", "lf">>
HeaderLen == Len(Header)

Letter(m, at, len) == [msg |-> m, at |-> at, body |-> len]
Message(m, len) == [at \in 1..(HeaderLen + len) |-> Letter(m, at, len)]
BodyOf(m, len)  == [i \in 1..len |-> Letter(m, HeaderLen + i, len)]

Char(t) ==
  IF t.at <= HeaderLen THEN Header[t.at]
  ELSE IF t.at = HeaderLen + t.body THEN "lf" ELSE "xml"

\* The XML parses when it is one whole body.
Whole(data) == data # << >> /\ data = BodyOf(data[1].msg, data[1].body)

-----------------------------------------------------------------------------
(* A protocol object.                                                      *)

NewProtocol ==
  [conn |-> None, state |-> "ConnStart", first |-> FALSE, line |-> << >>,
   length |-> Missing, fields |-> FALSE, remain |-> -1, have |-> 0, data |-> << >>]

clearSipInfo(p)   == [p EXCEPT !.first = FALSE, !.line = << >>]

\* Mutant: the properties stay, as clearSipInfo leaves them.
clearSipHeader_kept(p) == p
clearSipHeader(p) == [p EXCEPT !.length = Missing, !.fields = FALSE]

resetConnection(p) == [clearSipInfo(p) EXCEPT !.state = "ConnStart", !.remain = -1]

\* waitForCall and waitForResponse begin with an empty super_data.
BeginWait(p) == [p EXCEPT !.have = 0, !.data = << >>]

hasBytesToRead(p) == p.remain # 0

\* Properties are inserted: the first of a name stays.  atoi makes 0 of what is
\* not a number.
parseHeaderLine(p) ==
  LET c == Char(Head(p.line))
      value == IF Len(p.line) > 1 /\ Char(p.line[2]) = "length" THEN p.line[2].body ELSE 0
  IN IF ~p.first THEN [p EXCEPT !.first = TRUE, !.line = << >>]
     ELSE [p EXCEPT !.line   = << >>,
                    !.length = IF c = "name" /\ @ = Missing THEN value ELSE @,
                    !.fields = @ \/ c = "fields"]

-----------------------------------------------------------------------------
(* connectionMachine: one iteration of its loop, s being the stream whose  *)
(* first p.have characters are in the buffer.  The characters an iteration *)
(* consumes are those it takes off have.                                   *)

PendingCR(p, c) ==
  [p EXCEPT !.state = IF p.line = << >> THEN "ConnSwitchToBody" ELSE "ConnPendingHeaderLine",
            !.have  = IF c = "lf" THEN @ - 1 ELSE @]

\* No header line begins with a blank: none is continued.
PendingHeaderLine(p) == [parseHeaderLine(p) EXCEPT !.state = "ConnHeaderLine"]

HeaderLine(p, t) ==
  LET c == Char(t) IN
  [p EXCEPT !.have  = @ - 1,
            !.line  = IF c \in {"cr", "lf"} THEN @ ELSE Append(@, t),
            !.state = IF c = "cr" THEN "ConnPendingCR"
                      ELSE IF c # "lf" THEN @
                      ELSE IF p.line = << >> THEN "ConnSwitchToBody"
                      ELSE "ConnPendingHeaderLine"]

\* Mutant: what is left of the read is not taken off.
machine_switchToBody_whole(p) ==
  [p EXCEPT !.state = "ConnBody", !.remain = IF p.length = Missing THEN @ ELSE p.length]
machine_switchToBody(p) ==
  [p EXCEPT !.state  = "ConnBody",
            !.remain = IF p.length = Missing THEN @ ELSE p.length - p.have]

\* In the body the caller takes what the buffer holds.
AppendBody(p, s) == [p EXCEPT !.data = @ \o SubSeq(s, 1, p.have), !.have = 0]

connectionMachine(p, s) ==
  CASE p.state = "ConnStart"             -> [clearSipInfo(p) EXCEPT !.state = "ConnHeaderLine"]
    [] p.state = "ConnPendingCR"         -> PendingCR(p, Char(Head(s)))
    [] p.state = "ConnPendingHeaderLine" -> PendingHeaderLine(p)
    [] p.state = "ConnHeaderLine"        -> HeaderLine(p, Head(s))
    [] p.state = "ConnSwitchToBody"      -> machine_switchToBody(p)
    [] p.state = "ConnBody"              -> AppendBody(p, s)

\* The loop goes on while characters are left; a switch is made without any.
Busy(p) == p.have > 0 \/ p.state = "ConnSwitchToBody"

\* readRaw: at most a buffer, and no more than remains.
ReadLimit(p) == IF p.remain >= 0 /\ p.remain < Buffer THEN p.remain ELSE Buffer

readRaw(p, n) == [p EXCEPT !.have = n, !.remain = IF @ >= 0 THEN @ - n ELSE @]

=============================================================================
