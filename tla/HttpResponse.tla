---------------------------- MODULE HttpResponse ----------------------------
(***************************************************************************)
(* getHTTPResponse() of miniwget.c, the reader every SOAP answer and every *)
(* device description goes through.  TCP hands it the answer in segments   *)
(* of any size, and may stop anywhere; the decoder keeps the chunk size    *)
(* and its unfinished digits from one segment to the next, and nothing     *)
(* else, so what it does depends on where the segments end.                *)
(*                                                                         *)
(* Characters are one-letter strings.  What the header lines say is a part *)
(* of the message; the end of the header is searched in the characters.    *)
(***************************************************************************)
EXTENDS Integers, Sequences

CONSTANTS
  Messages,  \* the answers a server may send
  MaxSeg     \* bound: characters in one segment (2048 in the code)

CR == "r"
LF == "n"
Hex == [c \in {"0", "1", "2", "a"} |->
          CASE c = "0" -> 0 [] c = "1" -> 1 [] c = "2" -> 2 [] c = "a" -> 10]

\* Lines 196-202: the digits of a size line, converted.
ValueOf(d) == LET v[i \in 0 .. Len(d)] ==
                    IF i = 0 THEN 0 ELSE 16 * v[i - 1] + Hex[d[i]]
              IN  v[Len(d)]

\* A header of h characters.  Its lines all end alike, and it ends with the
\* first empty line.
EndsInCrLf(s, h) ==
  /\ h >= 4
  /\ \A i \in 1 .. h : /\ s[i] = LF => i > 1 /\ s[i - 1] = CR
                       /\ s[i] = CR => i < h /\ s[i + 1] = LF
  /\ \A i \in 1 .. h - 3 : s[i] = CR /\ s[i + 2] = CR <=> i = h - 3
EndsInLf(s, h) ==
  /\ h >= 2
  /\ \A i \in 1 .. h : s[i] # CR
  /\ \A i \in 1 .. h - 1 : s[i] = LF /\ s[i + 1] = LF <=> i = h - 1

\* A chunk c: where in the answer s its digits, its extension and the end of
\* its size line are, the size that the digits give, and how much of the body
\* came before.  The bounds are those of chunksize_buf and of an int.
ChunkLayout == [at : Nat, ext : Nat, eol : Nat, size : Nat, from : Nat]
SizeLine(s, c) ==
  /\ c.at < c.ext /\ c.ext <= c.eol /\ c.eol < Len(s)
  /\ c.ext - c.at <= 31 /\ c.size <= 2147483647
  /\ \A i \in c.at .. c.ext - 1 : s[i] \in DOMAIN Hex
  /\ c.size = ValueOf(SubSeq(s, c.at, c.ext - 1))
  /\ \A i \in c.ext .. c.eol - 1 : s[i] # LF
  /\ s[c.ext] \notin DOMAIN Hex
  /\ s[c.eol] = CR /\ s[c.eol + 1] = LF

\* What is between the size line of c and the next one, of d: the data and an
\* end of line.
ChunkData(m, c, d) ==
  /\ c.size > 0
  /\ d.at = c.eol + c.size + 4 /\ d.at <= Len(m.stream)
  /\ d.from = c.from + c.size /\ d.from <= Len(m.body)
  /\ \A i \in 1 .. c.size : m.stream[c.eol + 1 + i] = m.body[c.from + i]
  /\ m.stream[d.at - 2] = CR /\ m.stream[d.at - 1] = LF

InChunks(m) ==
  LET n == Len(m.chunks)
  IN  /\ n > 0 /\ m.chunks[1].at = m.head + 1 /\ m.chunks[1].from = 0
      /\ \A k \in 1 .. n : SizeLine(m.stream, m.chunks[k])
      /\ \A k \in 1 .. n - 1 : ChunkData(m, m.chunks[k], m.chunks[k + 1])
      /\ m.chunks[n].size = 0 /\ m.chunks[n].from = Len(m.body)

InOnePiece(m) ==
  /\ Len(m.stream) = m.head + Len(m.body)
  /\ \A i \in 1 .. Len(m.body) : m.stream[m.head + i] = m.body[i]
  /\ m.framing = "length" => m.length = Len(m.body)

\* Extensions without hexadecimal digits.
PlainExtensions(m) ==
  \A k \in 1 .. Len(m.chunks) :
    LET c == m.chunks[k]
    IN  \A i \in c.ext .. c.eol - 1 : m.stream[i] \notin DOMAIN Hex

WellFormed(m) ==
  /\ m.head <= Len(m.stream)
  /\ EndsInCrLf(m.stream, m.head) \/ EndsInLf(m.stream, m.head)
  /\ IF m.framing = "chunked" THEN InChunks(m) ELSE InOnePiece(m)

\* An answer: how the body is delimited, Content-Length (-1 if there is none),
\* the body, the characters sent, and which of them are what.
MessageType ==
  [framing : {"length", "chunked", "close"}, length : Int,
   body : Seq(STRING), stream : Seq(STRING), head : Nat,
   chunks : Seq(ChunkLayout)]

ASSUME MessagesAssumption ==
  /\ MaxSeg \in Nat \ {0}
  /\ \A m \in Messages :
       /\ m \in MessageType /\ WellFormed(m)
       /\ m.framing = "length" <=> m.length >= 0

VARIABLES
  msg,      \* the answer being sent
  sent,     \* characters that have arrived
  read,     \* characters the reader has gone through
  state,    \* in receivedata(), in the loop body, or at the end
  phase,    \* where in a line or chunk the reader is
  size,     \* chunksize: what is left of the chunk
  digits,   \* chunksize_buf
  content   \* content_buf

vars == <<msg, sent, read, state, phase, size, digits, content>>

-----------------------------------------------------------------------------
Init ==
  /\ msg \in Messages
  /\ sent = 0 /\ read = 0 /\ state = "receive" /\ phase = "header"
  /\ size = 0 /\ digits = <<>> /\ content = <<>>

Char == msg.stream[read + 1]
Scanning(phases) == state = "scan" /\ read < sent /\ phase \in phases
Advance(p) == read' = read + 1 /\ phase' = p

\* Where the loop body starts on a new segment (lines 169-193).  Digits left
\* over from the segment before are the only sign of an unfinished size line.
StartOf_NoLead(m, s, d) == IF m.framing # "chunked" THEN "plain"
                           ELSE IF s > 0 THEN "data" ELSE "digits"
StartOf(m, s, d) == IF m.framing # "chunked" THEN "plain"
                    ELSE IF s > 0 THEN "data"
                    ELSE IF d = <<>> THEN "cr" ELSE "digits"

\* receivedata() returns a segment.
Receive ==
  /\ state = "receive"
  /\ \E n \in 1 .. MaxSeg : sent + n <= Len(msg.stream) /\ sent' = sent + n
  /\ state' = "scan"
  /\ phase' = IF phase = "header" THEN phase ELSE StartOf(msg, size, digits)
  /\ UNCHANGED <<msg, read, size, digits, content>>

\* receivedata() returns 0 or less: end of file, an error, or five seconds
\* without data.  The loop is over and what there is is returned.
ReceiveEnds ==
  /\ state = "receive"
  /\ state' = "done"
  /\ UNCHANGED <<msg, sent, read, phase, size, digits, content>>

-----------------------------------------------------------------------------
\* Lines 84-168.  The header ends with CR LF CR LF or LF LF, also when these
\* come in different segments: the whole header is searched again each time.
\* With k characters of s there, the search goes on from i if no end is found
\* there, beyond what it has looked at.
IsAt(s, k, j, c) == j <= k /\ s[j] = c
EndsHeader(s, k, i) ==
  IF s[i] = CR
  THEN IsAt(s, k, i + 1, LF) /\ IsAt(s, k, i + 2, CR) /\ IsAt(s, k, i + 3, LF)
  ELSE s[i] = LF /\ IsAt(s, k, i + 1, LF)
Found(s, i) == IF s[i] = CR THEN i + 3 ELSE i + 1
GoesOn(s, k, i) ==
  IF s[i] = CR THEN IF ~IsAt(s, k, i + 1, LF) THEN i + 2
                    ELSE IF ~IsAt(s, k, i + 2, CR) THEN i + 3 ELSE i + 4
  ELSE IF s[i] = LF THEN i + 2 ELSE i + 1

EndOfHeader(s, k) ==
  LET end[i \in 1 .. k + 4] ==
        IF i >= k THEN 0
        ELSE IF EndsHeader(s, k, i) THEN Found(s, i) ELSE end[GoesOn(s, k, i)]
  IN  end[1]

Header ==
  /\ Scanning({"header"})
  /\ Advance(IF EndOfHeader(msg.stream, read + 1) > 0
             THEN StartOf(msg, size, digits) ELSE "header")
  /\ UNCHANGED <<msg, sent, state, size, digits, content>>

\* Lines 235-246.
Plain ==
  /\ Scanning({"plain"})
  /\ content' = Append(content, Char)
  /\ Advance("plain")
  /\ UNCHANGED <<msg, sent, state, size, digits>>

-----------------------------------------------------------------------------
\* Lines 180-184: the CR LF after the data of a chunk.
LeadCR ==
  /\ Scanning({"cr"}) /\ Char = CR
  /\ Advance("lf")
  /\ UNCHANGED <<msg, sent, state, size, digits, content>>

LeadLF ==
  /\ Scanning({"cr", "lf"}) /\ Char = LF
  /\ Advance("digits")
  /\ UNCHANGED <<msg, sent, state, size, digits, content>>

\* Lines 185-190.
Digit ==
  /\ Scanning({"cr", "lf", "digits"}) /\ Char \in DOMAIN Hex
  /\ digits' = Append(digits, Char)
  /\ Advance("digits")
  /\ UNCHANGED <<msg, sent, state, size, content>>

\* Lines 191-192: "discarding chunk-extension".
Extension ==
  /\ \/ Scanning({"cr", "lf", "digits"}) /\ Char \notin DOMAIN Hex \cup {CR, LF}
     \/ Scanning({"ext"}) /\ Char \notin {CR, LF}
  /\ Advance("ext")
  /\ UNCHANGED <<msg, sent, state, size, digits, content>>

\* Line 193.
LineCR ==
  /\ Scanning({"lf", "digits", "ext"}) /\ Char = CR
  /\ Advance("eol")
  /\ UNCHANGED <<msg, sent, state, size, digits, content>>

\* Lines 206-209: a CR without LF, the loop body starts over.
NotEol ==
  /\ Scanning({"eol"}) /\ Char # LF
  /\ phase' = StartOf(msg, size, digits)
  /\ UNCHANGED <<msg, sent, read, state, size, digits, content>>

\* Lines 194-220: the digits are converted, and 0 is the end of the content.
LineLF_KeepsDigits ==
  /\ Scanning({"digits", "ext", "eol"}) /\ Char = LF
  /\ size' = ValueOf(digits)
  /\ Advance("data")
  /\ state' = IF ValueOf(digits) = 0 THEN "done" ELSE state
  /\ UNCHANGED <<msg, sent, digits, content>>

LineLF ==
  /\ Scanning({"digits", "ext", "eol"}) /\ Char = LF
  /\ size' = ValueOf(digits) /\ digits' = <<>>
  /\ Advance("data")
  /\ state' = IF ValueOf(digits) = 0 THEN "done" ELSE state
  /\ UNCHANGED <<msg, sent, content>>

Data_NoEnd ==
  /\ Scanning({"data"})
  /\ content' = Append(content, Char)
  /\ size' = size - 1
  /\ Advance("data")
  /\ UNCHANGED <<msg, sent, state, digits>>

\* Lines 222-232.
Data ==
  /\ Scanning({"data"})
  /\ content' = Append(content, Char)
  /\ size' = size - 1
  /\ Advance(IF size = 1 THEN "cr" ELSE "data")
  /\ UNCHANGED <<msg, sent, state, digits>>

\* Lines 248-255, reached at the end of every segment.
Enough_OffByOne(m, c) == m.length > 0 /\ Len(c) > m.length
Enough(m, c) == m.length > 0 /\ Len(c) >= m.length

SegmentEnds ==
  /\ state = "scan" /\ read = sent
  /\ state' = IF Enough(msg, content) THEN "done" ELSE "receive"
  /\ UNCHANGED <<msg, sent, read, phase, size, digits, content>>

-----------------------------------------------------------------------------
Reader == \/ Header \/ Plain \/ LeadCR \/ LeadLF \/ Digit \/ Extension \/ LineCR
          \/ NotEol \/ LineLF \/ Data \/ SegmentEnds

Done == state = "done" /\ UNCHANGED vars
Next == Reader \/ Receive \/ ReceiveEnds \/ Done

\* receivedata() always returns, with data or after its timeout.
Spec == Init /\ [][Next]_vars /\ WF_vars(Reader \/ Receive \/ ReceiveEnds)

-----------------------------------------------------------------------------
TypeOK ==
  /\ msg \in Messages
  /\ sent \in 0 .. Len(msg.stream) /\ read \in 0 .. sent
  /\ state \in {"receive", "scan", "done"}
  /\ phase \in {"header", "plain", "cr", "lf", "digits", "ext", "eol", "data"}
  /\ size \in Nat /\ digits \in Seq(DOMAIN Hex) /\ content \in Seq(STRING)

\* An answer that has arrived in full is decoded exactly, however it was cut
\* into segments; if less than the body is returned, less had arrived.  This
\* is where extensions matter: line 192 is "discarding chunk-extension".
CompleteIsExact ==
  state = "done" /\ sent = Len(msg.stream) => content = msg.body

\* A body that says how long it is does not make the caller wait for the
\* server to close, or for the five seconds (lines 219 and 254).
NoIdleWait ==
  state = "receive" /\ sent = Len(msg.stream) =>
    msg.framing = "close" \/ msg.body = <<>>

\* What the caller is promised.
Caller == INSTANCE Transfer WITH body <- msg.body, got <- content,
                                 over <- state = "done"
Promise == Caller!Spec
=============================================================================
