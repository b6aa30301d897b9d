-------------------------- MODULE HttpResponseProofs --------------------------
(***************************************************************************)
(* Proofs about HttpResponse, for every set of answers and every way to    *)
(* cut them into segments: types, and for answers whose chunk extensions   *)
(* hold no hexadecimal digit, that what arrived is decoded exactly, that   *)
(* the reader does not wait for nothing, and the safety part of Transfer.  *)
(***************************************************************************)
EXTENDS HttpResponse, Induction, SequenceTheorems

-----------------------------------------------------------------------------
(* Types.                                                                   *)

LEMMA HexTyped == Hex \in [DOMAIN Hex -> Nat]
<1>1. /\ Hex["0"] = 0 /\ Hex["1"] = 1 /\ Hex["2"] = 2 /\ Hex["a"] = 10
      /\ DOMAIN Hex = {"0", "1", "2", "a"}
  BY DEF Hex
<1>2. Hex = [c \in DOMAIN Hex |-> Hex[c]]
  BY DEF Hex
<1> QED
  BY <1>1, <1>2

\* The digits give a number, however many there are.
LEMMA ValueTyped ==
  ASSUME NEW d \in Seq(DOMAIN Hex)
  PROVE  ValueOf(d) \in Nat
<1> DEFINE
      n == Len(d)
      Is(g) == g = [i \in 0 .. n |->
                      IF i = 0 THEN 0 ELSE 16 * g[i - 1] + Hex[d[i]]]
      F == [i \in 1 .. n |-> [x \in Nat |-> 16 * x + Hex[d[i]]]]
      w == CHOOSE f : Is(f)
      T == {k \in 0 .. n : w[k] \in Nat}
<1>1. n \in Nat /\ \A i \in 1 .. n : Hex[d[i]] \in Nat
  BY HexTyped
<1>2. F \in [1 .. n -> [Nat -> Nat]]
  BY <1>1
<1>3. HasRecursion(Nat, 0, n, F)
  <2> HIDE DEF F, n
  <2> QED BY <1>1, <1>2, RecursionExists
<1>4. PICK g \in [0 .. n -> Nat] :
        g[0] = 0 /\ \A i \in 1 .. n : g[i] = F[i][g[i - 1]]
  BY <1>3 DEF HasRecursion
<1>5. ASSUME NEW i \in 1 .. n
      PROVE  g[i] = 16 * g[i - 1] + Hex[d[i]]
  <2>1. g[i - 1] \in Nat /\ F[i] = [x \in Nat |-> 16 * x + Hex[d[i]]]
    BY <1>1
  <2> HIDE DEF F, n
  <2> QED BY <1>4, <2>1
<1>6. g = [i \in 0 .. n |-> IF i = 0 THEN 0 ELSE 16 * g[i - 1] + Hex[d[i]]]
  BY <1>1, <1>4, <1>5
<1>7. Is(g)
  BY <1>6
<1>8. Is(w)
  <2> HIDE DEF Is
  <2> QED BY <1>7, Zenon
<1>9. w[0] = 0 /\ \A i \in 0 .. n - 1 : w[i + 1] = 16 * w[i] + Hex[d[i + 1]]
  <2>1. \A i \in 0 .. n :
          w[i] = IF i = 0 THEN 0 ELSE 16 * w[i - 1] + Hex[d[i]]
    <3> HIDE DEF w, n
    <3> QED BY <1>8
  <2> HIDE DEF w, n
  <2> QED BY <1>1, <2>1
<1>10. 0 \in T
  BY <1>1, <1>9
<1>11. ASSUME NEW k \in 0 .. n - 1, k \in T
       PROVE  k + 1 \in T
  <2> HIDE DEF w, n
  <2>1. k \in 0 .. n /\ w[k] \in Nat /\ k + 1 \in 0 .. n /\ k + 1 \in 1 .. n
    BY <1>1, <1>11
  <2>2. w[k + 1] = 16 * w[k] + Hex[d[k + 1]] /\ Hex[d[k + 1]] \in Nat
    BY <1>1, <1>9, <2>1
  <2>3. w[k + 1] \in Nat
    BY <2>1, <2>2
  <2> QED BY <2>1, <2>3
<1>12. n \in T
  <2>1. \A k \in 0 .. n : k \in T
    <3> HIDE DEF T, n
    <3> QED BY <1>1, <1>10, <1>11, Upward
  <2> QED
    BY <1>1, <2>1
<1>13. ValueOf(d) = w[n]
  BY Zenon DEF ValueOf
<1> QED
  BY <1>12, <1>13

\* The length of a chunk is known and not zero while its data are read.
Typed ==
  /\ TypeOK
  /\ phase = "data" /\ state # "done" => size > 0

LEMMA MessageTyped ==
  ASSUME NEW m \in Messages
  PROVE  /\ m.framing \in {"length", "chunked", "close"}
         /\ m.length \in Int /\ m.head \in Nat
         /\ m.body \in Seq(STRING) /\ m.stream \in Seq(STRING)
         /\ m.chunks \in Seq(ChunkLayout)
         /\ WellFormed(m) /\ (m.framing = "length" <=> m.length >= 0)
  BY MessagesAssumption DEF MessageType

LEMMA InitTyped == Init => Typed
<1> SUFFICES ASSUME Init PROVE Typed
  OBVIOUS
<1>1. msg \in Messages /\ Len(msg.stream) \in Nat
  BY MessageTyped DEF Init
<1> QED
  BY <1>1 DEF Init, Typed, TypeOK

LEMMA NextTyped == Typed /\ [Next]_vars => Typed'
<1> SUFFICES ASSUME Typed, [Next]_vars PROVE Typed'
  OBVIOUS
<1> USE DEF Typed, TypeOK
<1>1. /\ msg \in Messages /\ Len(msg.stream) \in Nat /\ msg.stream \in Seq(STRING)
      /\ sent \in Nat /\ read \in Nat /\ size \in Nat
  BY MessageTyped
<1>2. /\ StartOf(msg, size, digits) \in {"plain", "data", "cr", "digits"}
      /\ StartOf(msg, size, digits) = "data" => size > 0
  BY <1>1 DEF StartOf
<1>3. ASSUME read < sent
      PROVE  /\ Char \in STRING /\ read + 1 \in 0 .. sent
             /\ Append(content, Char) \in Seq(STRING)
  BY <1>1, <1>3 DEF Char
<1>4. CASE Header
  BY <1>1, <1>2, <1>3, <1>4 DEF Header, Scanning, Advance
<1>5. CASE Plain
  BY <1>1, <1>3, <1>5 DEF Plain, Scanning, Advance
<1>6. CASE LeadCR
  BY <1>1, <1>3, <1>6 DEF LeadCR, Scanning, Advance
<1>7. CASE LeadLF
  BY <1>1, <1>3, <1>7 DEF LeadLF, Scanning, Advance
<1>8. CASE Digit
  <2>1. Append(digits, Char) \in Seq(DOMAIN Hex)
    BY <1>8 DEF Digit
  <2> QED
    BY <1>1, <1>3, <1>8, <2>1 DEF Digit, Scanning, Advance
<1>9. CASE Extension
  BY <1>1, <1>3, <1>9 DEF Extension, Scanning, Advance
<1>10. CASE LineCR
  BY <1>1, <1>3, <1>10 DEF LineCR, Scanning, Advance
<1>11. CASE NotEol
  BY <1>1, <1>2, <1>11 DEF NotEol, Scanning
<1>12. CASE LineLF
  <2>1. ValueOf(digits) \in Nat
    BY ValueTyped
  <2> QED
    BY <1>1, <1>3, <1>12, <2>1 DEF LineLF, Scanning, Advance
<1>13. CASE Data
  BY <1>1, <1>3, <1>13 DEF Data, Scanning, Advance
<1>14. CASE SegmentEnds
  BY <1>1, <1>14 DEF SegmentEnds
<1>15. CASE Receive
  BY <1>1, <1>2, <1>15, MessagesAssumption DEF Receive
<1>16. CASE ReceiveEnds
  BY <1>1, <1>16 DEF ReceiveEnds
<1>17. CASE UNCHANGED vars
  BY <1>17 DEF vars
<1> QED
  BY <1>4, <1>5, <1>6, <1>7, <1>8, <1>9, <1>10, <1>11, <1>12, <1>13, <1>14,
     <1>15, <1>16, <1>17 DEF Next, Reader, Done

\* Every variable keeps its type, wherever the segments end: the size line
\* gives a number, and a chunk never has less than nothing left.
THEOREM TypesHold == Spec => []TypeOK
<1>1. Spec => []Typed
  BY InitTyped, NextTyped, PTL DEF Spec
<1>2. Typed => TypeOK
  BY DEF Typed
<1> QED
  BY <1>1, <1>2, PTL

-----------------------------------------------------------------------------
(* The end of the header.                                                   *)

LEMMA SearchAdvances ==
  ASSUME NEW s, NEW k \in Nat, NEW i \in 1 .. k
  PROVE  GoesOn(s, k, i) \in i + 1 .. i + 4 /\ Found(s, i) \in Nat \ {0}
  BY DEF GoesOn, Found

\* What the search finds from each place on.
LEMMA SearchFrom ==
  ASSUME NEW s, NEW k \in Nat \ {0}
  PROVE  \E w : /\ EndOfHeader(s, k) = w[1]
                /\ \A i \in 1 .. k + 4 :
                     w[i] = IF i >= k THEN 0
                            ELSE IF EndsHeader(s, k, i) THEN Found(s, i)
                                 ELSE w[GoesOn(s, k, i)]
<1> DEFINE
      n == k + 4
      Is(g) == g = [i \in 1 .. n |->
                      IF i >= k THEN 0
                      ELSE IF EndsHeader(s, k, i) THEN Found(s, i)
                           ELSE g[GoesOn(s, k, i)]]
      stop == {i \in 1 .. n : i >= k \/ EndsHeader(s, k, i)}
      val == [i \in 1 .. n |-> IF i >= k THEN 0 ELSE Found(s, i)]
      next == [i \in 1 .. n |-> IF i >= k THEN 0 ELSE GoesOn(s, k, i)]
      w == CHOOSE f : Is(f)
<1>1. /\ n \in Nat /\ val \in [1 .. n -> Nat] /\ next \in [1 .. n -> Nat]
      /\ \A i \in 1 .. n : i \notin stop => next[i] \in i + 1 .. n
  BY SearchAdvances
<1>2. HasSearch(Nat, n, stop, val, next)
  <2> HIDE DEF n, stop, val, next
  <2> QED BY <1>1, SearchExists
<1>3. PICK g \in [1 .. n -> Nat] :
        \A i \in 1 .. n : g[i] = IF i \in stop THEN val[i] ELSE g[next[i]]
  BY <1>2 DEF HasSearch
<1>4. ASSUME NEW i \in 1 .. n
      PROVE  g[i] = IF i >= k THEN 0
                    ELSE IF EndsHeader(s, k, i) THEN Found(s, i)
                         ELSE g[GoesOn(s, k, i)]
  BY <1>3
<1>5. Is(g)
  BY <1>4
<1>6. Is(w)
  <2> HIDE DEF Is
  <2> QED BY <1>5, Zenon
<1>7. EndOfHeader(s, k) = w[1]
  BY Zenon DEF EndOfHeader
<1>8. \A i \in 1 .. n :
        w[i] = IF i >= k THEN 0
               ELSE IF EndsHeader(s, k, i) THEN Found(s, i)
                    ELSE w[GoesOn(s, k, i)]
  <2> HIDE DEF w
  <2> QED BY <1>6
<1> HIDE DEF w
<1> QED
  BY <1>7, <1>8

\* If the places the search visits, Q, lead to an end only when the h
\* characters of the header are there, and then before them, it is found then.
LEMMA SearchFinds ==
  ASSUME NEW s, NEW h \in Nat, h >= 2, NEW k \in 1 .. h,
         NEW Q \in SUBSET (1 .. k + 4), 1 \in Q,
         \A i \in Q : i < k =>
           IF EndsHeader(s, k, i) THEN k = h
           ELSE GoesOn(s, k, i) \in Q /\ (k = h => GoesOn(s, k, i) < k)
  PROVE  EndOfHeader(s, k) > 0 <=> k = h
<1>1. PICK w : /\ EndOfHeader(s, k) = w[1]
               /\ \A i \in 1 .. k + 4 :
                    w[i] = IF i >= k THEN 0
                           ELSE IF EndsHeader(s, k, i) THEN Found(s, i)
                                ELSE w[GoesOn(s, k, i)]
  BY SearchFrom
<1> DEFINE R == {i \in 1 .. k + 4 : i \in Q => IF k = h THEN i < k => w[i] > 0
                                               ELSE w[i] = 0}
<1>2. ASSUME NEW i \in 1 .. k + 4, \A j \in i + 1 .. k + 4 : j \in R
      PROVE  i \in R
  <2> SUFFICES ASSUME i \in Q
               PROVE  IF k = h THEN i < k => w[i] > 0 ELSE w[i] = 0
    OBVIOUS
  <2>1. CASE i >= k
    BY <1>1, <2>1
  <2>2. CASE i < k /\ EndsHeader(s, k, i)
    BY <1>1, <2>2, SearchAdvances
  <2>3. CASE i < k /\ ~EndsHeader(s, k, i)
    <3> DEFINE j == GoesOn(s, k, i)
    <3>1. j \in i + 1 .. k + 4 /\ w[i] = w[j] /\ j \in Q /\ (k = h => j < k)
      BY <1>1, <2>3, SearchAdvances
    <3> HIDE DEF j
    <3>2. j \in R
      BY <1>2, <3>1
    <3> QED
      BY <3>1, <3>2
  <2> QED
    BY <2>1, <2>2, <2>3
<1>3. \A i \in 1 .. k + 4 : i \in R
  <2>1. k + 4 \in Nat
    OBVIOUS
  <2> HIDE DEF R
  <2> QED BY <1>2, <2>1, Downward
<1>4. 1 \in R /\ (k = h => 1 < k)
  BY <1>3
<1> QED
  BY <1>1, <1>4

\* getHTTPResponse() sees the end of the header when the last character of it
\* has come, and not before.
LEMMA HeaderEnds ==
  ASSUME NEW m \in Messages, NEW k \in 1 .. m.head
  PROVE  EndOfHeader(m.stream, k) > 0 <=> k = m.head
<1> DEFINE s == m.stream
           h == m.head
<1>1. h \in Nat /\ (EndsInCrLf(s, h) \/ EndsInLf(s, h))
  BY MessageTyped DEF WellFormed
<1> HIDE DEF s, h
<1>2. k \in 1 .. h
  BY DEF h
<1>3. CASE EndsInCrLf(s, h)
  <2> DEFINE Q == {i \in 1 .. k + 4 : i >= k \/ (i <= h - 3 /\ s[i] # LF)}
  <2>1. /\ h >= 4
        /\ \A i \in 1 .. h : s[i] = LF => i > 1 /\ s[i - 1] = CR
        /\ \A i \in 1 .. h : s[i] = CR => i < h /\ s[i + 1] = LF
        /\ \A i \in 1 .. h - 3 : (s[i] = CR /\ s[i + 2] = CR) <=> i = h - 3
        /\ CR # LF
    BY <1>3, Zenon DEF EndsInCrLf, CR, LF
  <2>2. 1 \in Q
    BY <1>1, <1>2, <2>1
  <2>3. /\ s[h - 3] = CR /\ s[h - 2] = LF /\ s[h - 1] = CR /\ s[h] = LF
    <3>1. h - 3 \in 1 .. h - 3 /\ h - 3 \in 1 .. h /\ h - 1 \in 1 .. h
      BY <1>1, <2>1
    <3>2. s[h - 3] = CR /\ s[(h - 3) + 2] = CR
      BY <2>1, <3>1
    <3> QED
      BY <1>1, <2>1, <3>1, <3>2
  <2>4. ASSUME NEW i \in Q, i < k
        PROVE  IF EndsHeader(s, k, i) THEN k = h
               ELSE GoesOn(s, k, i) \in Q /\ (k = h => GoesOn(s, k, i) < k)
    <3>1. i \in 1 .. h - 3 /\ s[i] # LF /\ i \in 1 .. k - 1
      BY <1>1, <1>2, <2>4
    <3> HIDE DEF Q
    <3>2. CASE s[i] # CR
      <4>1. ~EndsHeader(s, k, i) /\ GoesOn(s, k, i) = i + 1
        BY <3>1, <3>2 DEF EndsHeader, GoesOn
      <4>2. i + 1 >= k \/ (i + 1 <= h - 3 /\ s[i + 1] # LF)
        BY <1>1, <1>2, <2>1, <2>3, <3>1, <3>2
      <4>3. k = h => i + 1 < k
        BY <1>1, <3>1
      <4> QED
        BY <1>1, <1>2, <3>1, <4>1, <4>2, <4>3 DEF Q
    <3>3. CASE s[i] = CR
      <4>1. s[i + 1] = LF /\ i + 1 <= k
        BY <1>1, <1>2, <2>1, <3>1, <3>3
      <4>2. CASE i = h - 3
        <5>1. s[i + 2] = CR /\ s[i + 3] = LF
          BY <1>1, <2>3, <4>2
        <5>2. EndsHeader(s, k, i) <=> k = h
          BY <1>1, <1>2, <3>1, <3>3, <4>1, <4>2, <5>1 DEF EndsHeader, IsAt
        <5>3. GoesOn(s, k, i) \in {i + 3, i + 4} /\ (k < i + 2 => GoesOn(s, k, i) = i + 3)
          BY <1>1, <1>2, <3>1, <3>3, <4>1, <4>2, <5>1 DEF GoesOn, IsAt
        <5>4. CASE k = h
          BY <5>2, <5>4
        <5>5. CASE k < h
          BY <1>1, <1>2, <3>1, <4>2, <5>2, <5>3, <5>5 DEF Q
        <5> QED
          BY <1>1, <1>2, <5>4, <5>5
      <4>3. CASE i # h - 3
        <5>1. s[i + 2] # CR
          BY <1>1, <2>1, <3>1, <3>3, <4>3
        <5>2. ~EndsHeader(s, k, i) /\ GoesOn(s, k, i) = i + 3
          BY <3>1, <3>3, <4>1, <5>1 DEF EndsHeader, GoesOn, IsAt
        <5>3. i # h - 4 /\ i # h - 5
          BY <1>1, <2>1, <2>3, <3>1, <3>3, <4>1, <5>1
        <5>4. i + 3 <= h - 3 /\ s[i + 3] # LF
          <6>1. i + 3 <= h - 3 /\ i + 3 \in 1 .. h /\ (i + 3) - 1 = i + 2
            BY <1>1, <3>1, <4>3, <5>3
          <6> QED
            BY <2>1, <5>1, <6>1
        <5> QED
          BY <1>1, <1>2, <3>1, <5>2, <5>4 DEF Q
      <4> QED
        BY <4>2, <4>3
    <3> QED
      BY <3>2, <3>3
  <2>5. Q \in SUBSET (1 .. k + 4) /\ h >= 2
    BY <1>1, <2>1
  <2>6. EndOfHeader(s, k) > 0 <=> k = h
    <3> HIDE DEF Q
    <3> QED BY <1>1, <1>2, <2>2, <2>4, <2>5, SearchFinds
  <2> QED
    BY <2>6 DEF s, h
<1>4. CASE EndsInLf(s, h)
  <2> DEFINE Q == 1 .. k + 4
  <2>1. /\ h >= 2 /\ \A i \in 1 .. h : s[i] # CR
        /\ \A i \in 1 .. h - 1 : (s[i] = LF /\ s[i + 1] = LF) <=> i = h - 1
    BY <1>4, Zenon DEF EndsInLf
  <2>2. s[h - 1] = LF /\ s[h] = LF
    <3>1. h - 1 \in 1 .. h - 1 /\ (h - 1) + 1 = h
      BY <1>1, <2>1
    <3> QED
      BY <2>1, <3>1
  <2>3. ASSUME NEW i \in Q, i < k
        PROVE  IF EndsHeader(s, k, i) THEN k = h
               ELSE GoesOn(s, k, i) \in Q /\ (k = h => GoesOn(s, k, i) < k)
    <3>1. i \in 1 .. h - 1 /\ i + 1 <= k /\ s[i] # CR
      BY <1>1, <1>2, <2>1, <2>3
    <3>2. EndsHeader(s, k, i) <=> s[i] = LF /\ s[i + 1] = LF
      BY <3>1 DEF EndsHeader, IsAt
    <3>3. GoesOn(s, k, i) = IF s[i] = LF THEN i + 2 ELSE i + 1
      BY <3>1 DEF GoesOn
    <3>4. EndsHeader(s, k, i) => k = h
      BY <1>1, <1>2, <2>1, <3>1, <3>2
    <3>5. ~EndsHeader(s, k, i) /\ k = h => GoesOn(s, k, i) < k
      BY <1>1, <2>1, <2>2, <3>1, <3>2, <3>3
    <3>6. GoesOn(s, k, i) \in Q
      BY <1>1, <1>2, <3>1, <3>3
    <3> QED
      BY <3>4, <3>5, <3>6
  <2>4. 1 \in Q /\ Q \in SUBSET (1 .. k + 4)
    BY <1>2
  <2>5. EndOfHeader(s, k) > 0 <=> k = h
    <3> HIDE DEF Q
    <3> QED BY <1>1, <1>2, <2>1, <2>3, <2>4, SearchFinds
  <2> QED
    BY <2>5 DEF s, h
<1> QED
  BY <1>1, <1>3, <1>4

-----------------------------------------------------------------------------
(* Where the reader is in an answer.                                        *)

Pos == read + 1
IsStart(n) == content = SubSeq(msg.body, 1, n)

\* The parts of an answer, and what the variables are when the next character
\* is in them.
AtHeader ==
  /\ phase = "header" /\ read < msg.head
  /\ size = 0 /\ digits = <<>> /\ content = <<>>

AtBody ==
  /\ msg.framing # "chunked" /\ phase = "plain"
  /\ size = 0 /\ digits = <<>>
  /\ msg.head <= read /\ read - msg.head <= Len(msg.body)
  /\ IsStart(read - msg.head)

\* Before the size line of chunk k, in it, and in the data.
AtLead(k) ==
  LET c == msg.chunks[k]
  IN  /\ \/ k > 1 /\ Pos = c.at - 2 /\ phase = "cr"
         \/ k > 1 /\ Pos = c.at - 1 /\ phase \in {"cr", "lf"}
         \/ Pos = c.at /\ phase \in {"cr", "digits"}
      /\ size = 0 /\ digits = <<>> /\ IsStart(c.from)

AtLine(k) ==
  LET c == msg.chunks[k]
  IN  /\ c.at < Pos /\ Pos <= c.eol + 1
      /\ phase = "digits" \/ (phase \in {"ext", "eol"} /\ c.ext < Pos)
      /\ digits = SubSeq(msg.stream, c.at,
                         (IF Pos < c.ext THEN Pos ELSE c.ext) - 1)
      /\ size = 0 /\ IsStart(c.from)

AtData(k) ==
  LET c == msg.chunks[k]
  IN  /\ phase = "data" /\ digits = <<>>
      /\ c.eol + 2 <= Pos /\ size > 0 /\ size = c.eol + 2 + c.size - Pos
      /\ IsStart(c.from + Pos - c.eol - 2)

AtChunk(k) == AtLead(k) \/ AtLine(k) \/ AtData(k)

Somewhere ==
  \/ AtHeader
  \/ AtBody
  \/ msg.framing = "chunked" /\ \E k \in 1 .. Len(msg.chunks) : AtChunk(k)

\* The inductive invariant.
Decoded ==
  /\ state # "done" => Somewhere
  /\ state = "receive" => read = sent /\ ~Enough(msg, content)
  /\ state = "done" => content = msg.body \/ sent < Len(msg.stream)

-----------------------------------------------------------------------------
LEMMA Characters ==
  /\ CR # LF
  /\ CR \notin DOMAIN Hex /\ LF \notin DOMAIN Hex
<1>1. DOMAIN Hex = {"0", "1", "2", "a"}
  BY Zenon DEF Hex
<1>2. CR # LF
  BY DEF CR, LF
<1>3. CR \notin {"0", "1", "2", "a"} /\ LF \notin {"0", "1", "2", "a"}
  BY DEF CR, LF
<1> QED
  BY <1>1, <1>2, <1>3, Zenon

\* One more character of a sequence t.
LEMMA OneMore ==
  ASSUME NEW S, NEW t \in Seq(S), NEW a \in Nat \ {0}, NEW n \in Nat,
         a <= n + 1, n < Len(t)
  PROVE  Append(SubSeq(t, a, n), t[n + 1]) = SubSeq(t, a, n + 1)
<1> DEFINE u == SubSeq(t, a, n)
           v == SubSeq(t, a, n + 1)
<1>1. \A i \in a .. n + 1 : t[i] \in S
  OBVIOUS
<1>2. /\ u \in Seq(S) /\ Len(u) = (n + 1) - a
      /\ \A i \in 1 .. (n + 1) - a : u[i] = t[a + i - 1]
  BY <1>1, SubSeqProperties
<1>3. /\ v \in Seq(S) /\ Len(v) = (n + 2) - a
      /\ \A i \in 1 .. (n + 2) - a : v[i] = t[a + i - 1]
  BY <1>1, SubSeqProperties
<1>4. t[n + 1] \in S
  BY <1>1
<1> HIDE DEF u, v
<1>5. /\ Append(u, t[n + 1]) \in Seq(S) /\ Len(Append(u, t[n + 1])) = Len(v)
      /\ \A i \in 1 .. Len(v) : Append(u, t[n + 1])[i] = v[i]
  <2>1. /\ Append(u, t[n + 1]) \in Seq(S)
        /\ Len(Append(u, t[n + 1])) = Len(u) + 1
        /\ \A i \in 1 .. Len(u) : Append(u, t[n + 1])[i] = u[i]
        /\ Append(u, t[n + 1])[Len(u) + 1] = t[n + 1]
    BY <1>2, <1>4, AppendProperties
  <2>2. v[(n + 2) - a] = t[n + 1]
    BY <1>3
  <2>3. Len(v) = Len(u) + 1 /\ Len(u) + 1 = (n + 2) - a
    BY <1>2, <1>3
  <2>4. ASSUME NEW i \in 1 .. Len(v)
        PROVE  Append(u, t[n + 1])[i] = v[i]
    <3>1. CASE i = Len(v)
      BY <1>3, <2>1, <2>2, <2>3, <3>1
    <3>2. CASE i # Len(v)
      BY <1>2, <1>3, <2>1, <2>3, <3>2
    <3> QED
      BY <3>1, <3>2
  <2> QED
    BY <2>1, <2>3, <2>4
<1>6. Append(u, t[n + 1]) = v
  BY <1>3, <1>5, SeqEqual
<1> QED
  BY <1>6 DEF u, v

LEMMA ChunkFacts ==
  ASSUME NEW m \in Messages, m.framing = "chunked",
         NEW k \in 1 .. Len(m.chunks), NEW c, c = m.chunks[k],
         NEW s, s = m.stream
  PROVE  /\ c.at \in Nat \ {0} /\ c.ext \in Nat /\ c.eol \in Nat
         /\ c.size \in Nat /\ c.from \in Nat
         /\ s \in Seq(STRING) /\ m.body \in Seq(STRING)
         /\ c.at < c.ext /\ c.ext <= c.eol /\ c.eol < Len(s)
         /\ \A i \in c.at .. c.ext - 1 : s[i] \in DOMAIN Hex
         /\ c.size = ValueOf(SubSeq(s, c.at, c.ext - 1))
         /\ \A i \in c.ext .. c.eol - 1 : s[i] # LF
         /\ s[c.ext] \notin DOMAIN Hex /\ s[c.eol] = CR /\ s[c.eol + 1] = LF
         /\ k = 1 => c.at = m.head + 1 /\ c.from = 0
         /\ k > 1 => s[c.at - 2] = CR /\ s[c.at - 1] = LF
         /\ c.from <= Len(m.body)
         /\ c.size = 0 => c.from = Len(m.body)
         /\ c.size > 0 => /\ k + 1 \in 1 .. Len(m.chunks)
                          /\ ChunkData(m, c, m.chunks[k + 1])
<1>1. /\ InChunks(m) /\ Len(m.chunks) \in Nat /\ m.chunks \in Seq(ChunkLayout)
      /\ s \in Seq(STRING) /\ m.body \in Seq(STRING) /\ m.head \in Nat
  BY MessageTyped DEF WellFormed
<1>2. ASSUME NEW j \in 1 .. Len(m.chunks)
      PROVE  m.chunks[j] \in ChunkLayout
  BY <1>1
<1>3. /\ c.at \in Nat /\ c.ext \in Nat /\ c.eol \in Nat /\ c.size \in Nat
      /\ c.from \in Nat
  BY <1>2 DEF ChunkLayout
<1>4. SizeLine(s, c)
  BY <1>1 DEF InChunks
<1>6. k = 1 => c.at = m.head + 1 /\ c.from = 0
  BY <1>1 DEF InChunks
<1>7. c.size = 0 <=> k = Len(m.chunks)
  <2>1. k < Len(m.chunks) => k \in 1 .. Len(m.chunks) - 1
    BY <1>1
  <2>2. k < Len(m.chunks) => ChunkData(m, c, m.chunks[k + 1])
    BY <1>1, <2>1 DEF InChunks
  <2>3. k < Len(m.chunks) => c.size > 0
    BY <2>2 DEF ChunkData
  <2>4. k = Len(m.chunks) => c.size = 0
    BY <1>1 DEF InChunks
  <2> QED
    BY <1>1, <1>3, <2>3, <2>4
<1>8. k = Len(m.chunks) => c.from = Len(m.body)
  BY <1>1 DEF InChunks
<1>9. c.size > 0 => /\ k + 1 \in 1 .. Len(m.chunks)
                    /\ ChunkData(m, c, m.chunks[k + 1])
  <2>1. c.size > 0 => k \in 1 .. Len(m.chunks) - 1 /\ k + 1 \in 1 .. Len(m.chunks)
    BY <1>1, <1>3, <1>7
  <2> QED
    BY <1>1, <2>1 DEF InChunks
<1>10. c.from <= Len(m.body)
  <2>1. c.size > 0 => m.chunks[k + 1].from = c.from + c.size
                      /\ m.chunks[k + 1].from <= Len(m.body)
    BY <1>9 DEF ChunkData
  <2>2. CASE c.size = 0
    BY <1>1, <1>7, <1>8, <2>2
  <2>3. CASE c.size > 0
    <3> DEFINE f == c.from
               z == c.size
               l == Len(m.body)
    <3>1. f \in Nat /\ z \in Nat /\ l \in Nat /\ f + z <= l
      BY <1>1, <1>3, <2>1, <2>3
    <3> HIDE DEF f, z, l
    <3>2. f <= l
      BY <3>1
    <3> QED
      BY <3>2 DEF f, l
  <2> QED
    BY <1>3, <2>2, <2>3
<1>11. c.at \in Nat \ {0} /\ (k > 1 => s[c.at - 2] = CR /\ s[c.at - 1] = LF)
  <2>1. CASE k = 1
    BY <1>1, <1>3, <1>6, <2>1
  <2>2. CASE k > 1
    <3>1. k - 1 \in 1 .. Len(m.chunks) - 1 /\ (k - 1) + 1 = k
          /\ k - 1 \in 1 .. Len(m.chunks)
      BY <1>1, <2>2
    <3>2. ChunkData(m, m.chunks[k - 1], c)
      BY <1>1, <3>1 DEF InChunks
    <3>3. m.chunks[k - 1].eol \in Nat /\ m.chunks[k - 1].size \in Nat
      <4>1. m.chunks[k - 1] \in ChunkLayout
        BY <1>2, <3>1
      <4> QED
        BY <4>1 DEF ChunkLayout
    <3>4. s[c.at - 2] = CR /\ s[c.at - 1] = LF
      BY <3>2 DEF ChunkData
    <3>5. c.at = m.chunks[k - 1].eol + m.chunks[k - 1].size + 4
      BY <3>2 DEF ChunkData
    <3>6. c.at \in Nat \ {0}
      <4> DEFINE e == m.chunks[k - 1].eol
                 z == m.chunks[k - 1].size
      <4>1. e \in Nat /\ z \in Nat /\ c.at = e + z + 4
        BY <3>3, <3>5
      <4> HIDE DEF e, z
      <4> QED
        BY <4>1
    <3> QED
      BY <3>4, <3>6
  <2> QED
    BY <2>1, <2>2
<1> QED
  BY <1>1, <1>3, <1>4, <1>6, <1>7, <1>8, <1>9, <1>10, <1>11 DEF SizeLine

\* The same, one kind of fact at a time.
LEMMA ChunkNumbers ==
  ASSUME NEW m \in Messages, m.framing = "chunked",
         NEW k \in 1 .. Len(m.chunks)
  PROVE  /\ m.chunks[k].at \in Nat \ {0} /\ m.chunks[k].ext \in Nat
         /\ m.chunks[k].eol \in Nat /\ m.chunks[k].size \in Nat
         /\ m.chunks[k].from \in Nat
<1>1. m.chunks[k].at \in Nat \ {0}
  BY ChunkFacts
<1>2. m.chunks[k].ext \in Nat /\ m.chunks[k].eol \in Nat
  BY ChunkFacts
<1>3. m.chunks[k].size \in Nat /\ m.chunks[k].from \in Nat
  BY ChunkFacts
<1> QED
  BY <1>1, <1>2, <1>3

LEMMA ChunkOrder ==
  ASSUME NEW m \in Messages, m.framing = "chunked",
         NEW k \in 1 .. Len(m.chunks)
  PROVE  /\ m.chunks[k].at < m.chunks[k].ext
         /\ m.chunks[k].ext <= m.chunks[k].eol
         /\ m.chunks[k].eol < Len(m.stream)
<1>1. m.chunks[k].at < m.chunks[k].ext
  BY ChunkFacts
<1>2. m.chunks[k].ext <= m.chunks[k].eol
  BY ChunkFacts
<1>3. m.chunks[k].eol < Len(m.stream)
  BY ChunkFacts
<1> QED
  BY <1>1, <1>2, <1>3

LEMMA ChunkDigits ==
  ASSUME NEW m \in Messages, m.framing = "chunked",
         NEW k \in 1 .. Len(m.chunks)
  PROVE  \A i \in m.chunks[k].at .. m.chunks[k].ext - 1 :
           m.stream[i] \in DOMAIN Hex
  BY ChunkFacts

LEMMA ChunkExtension ==
  ASSUME NEW m \in Messages, m.framing = "chunked",
         NEW k \in 1 .. Len(m.chunks)
  PROVE  \A i \in m.chunks[k].ext .. m.chunks[k].eol - 1 : m.stream[i] # LF
  BY ChunkFacts

LEMMA ChunkLead ==
  ASSUME NEW m \in Messages, m.framing = "chunked",
         NEW k \in 1 .. Len(m.chunks), k > 1
  PROVE  /\ m.stream[m.chunks[k].at - 2] = CR
         /\ m.stream[m.chunks[k].at - 1] = LF
  BY ChunkFacts

LEMMA ChunkSize ==
  ASSUME NEW m \in Messages, m.framing = "chunked",
         NEW k \in 1 .. Len(m.chunks)
  PROVE  m.chunks[k].size
           = ValueOf(SubSeq(m.stream, m.chunks[k].at, m.chunks[k].ext - 1))
  BY ChunkFacts

-----------------------------------------------------------------------------
(* The steps, one part of an answer at a time.                              *)

AllPlain == \A m \in Messages : PlainExtensions(m)

\* The character at the reader's place, in each part.
LEMMA CharOfBody ==
  ASSUME Typed, AtBody, read < sent
  PROVE  /\ read - msg.head \in Nat /\ read - msg.head < Len(msg.body)
         /\ Char = msg.body[(read - msg.head) + 1]
<1>1. /\ msg \in Messages /\ msg.head \in Nat /\ msg.body \in Seq(STRING)
      /\ msg.stream \in Seq(STRING) /\ WellFormed(msg) /\ sent <= Len(msg.stream)
      /\ read \in Nat /\ sent \in Nat
  BY MessageTyped DEF Typed, TypeOK
<1>2. /\ InOnePiece(msg) /\ msg.head <= read
  BY <1>1 DEF AtBody, WellFormed
<1>3. /\ read - msg.head \in Nat /\ read - msg.head < Len(msg.body)
      /\ (read - msg.head) + 1 \in 1 .. Len(msg.body)
      /\ msg.head + ((read - msg.head) + 1) = read + 1
  <2> DEFINE h == msg.head
             b == Len(msg.body)
             l == Len(msg.stream)
  <2>1. l = h + b
    BY <1>2 DEF InOnePiece
  <2>2. h \in Nat /\ b \in Nat /\ read \in Nat /\ sent \in Nat
    BY <1>1
  <2>3. sent <= l /\ h <= read
    BY <1>1, <1>2
  <2> HIDE DEF h, b, l
  <2>4. /\ read - h \in Nat /\ read - h < b /\ (read - h) + 1 \in 1 .. b
        /\ h + ((read - h) + 1) = read + 1
    BY <2>1, <2>2, <2>3
  <2> QED
    BY <2>4 DEF h, b
<1> QED
  BY <1>2, <1>3 DEF InOnePiece, Char

LEMMA CharOfLead ==
  ASSUME Typed, msg.framing = "chunked", NEW k \in 1 .. Len(msg.chunks),
         AtLead(k), NEW c, c = msg.chunks[k]
  PROVE  /\ Pos = c.at - 2 => Char = CR
         /\ Pos = c.at - 1 => Char = LF
         /\ Pos = c.at => Char \in DOMAIN Hex
<1>1. msg \in Messages
  BY DEF Typed, TypeOK
<1> DEFINE s == msg.stream
<1>2. c.at \in Nat \ {0} /\ c.ext \in Nat /\ c.at < c.ext
  BY <1>1, ChunkNumbers, ChunkOrder
<1>3. k > 1 => s[c.at - 2] = CR /\ s[c.at - 1] = LF
  BY <1>1, ChunkLead
<1>4. s[c.at] \in DOMAIN Hex
  <2>1. c.at \in c.at .. c.ext - 1
    <3> DEFINE a == c.at
               e == c.ext
    <3>1. a \in Nat /\ e \in Nat /\ a < e
      BY <1>2
    <3> HIDE DEF a, e
    <3>2. a \in a .. e - 1
      BY <3>1
    <3> QED
      BY <3>2 DEF a, e
  <2> QED
    BY <1>1, <2>1, ChunkDigits
<1>5. Char = s[Pos]
  BY DEF Char, Pos
<1>6. c.at - 2 # c.at - 1 /\ c.at - 2 # c.at /\ c.at - 1 # c.at
  BY <1>2
<1>7. \/ k > 1 /\ Pos = c.at - 2
      \/ k > 1 /\ Pos = c.at - 1
      \/ Pos = c.at
  BY <1>2 DEF AtLead
<1>8. Pos = c.at - 2 => Char = CR
  BY <1>3, <1>5, <1>6, <1>7
<1>9. Pos = c.at - 1 => Char = LF
  BY <1>3, <1>5, <1>6, <1>7
<1>10. Pos = c.at => Char \in DOMAIN Hex
  BY <1>4, <1>5
<1> QED
  BY <1>8, <1>9, <1>10

LEMMA CharOfLine ==
  ASSUME Typed, AllPlain, msg.framing = "chunked",
         NEW k \in 1 .. Len(msg.chunks),
         AtLine(k), NEW c, c = msg.chunks[k]
  PROVE  /\ Pos \in Nat
         /\ Pos < c.ext => Char \in DOMAIN Hex
         /\ Pos >= c.ext => Char \notin DOMAIN Hex
         /\ Char = LF <=> Pos = c.eol + 1
         /\ Pos = c.eol => Char = CR
<1>1. msg \in Messages /\ PlainExtensions(msg) /\ read \in Nat
  BY DEF Typed, TypeOK, AllPlain
<1> DEFINE s == msg.stream
<1>2. /\ c.at \in Nat \ {0} /\ c.ext \in Nat /\ c.eol \in Nat
      /\ c.at < c.ext /\ c.ext <= c.eol
      /\ \A i \in c.at .. c.ext - 1 : s[i] \in DOMAIN Hex
      /\ \A i \in c.ext .. c.eol - 1 : s[i] # LF
      /\ s[c.eol] = CR /\ s[c.eol + 1] = LF
  <2>1. /\ c.at \in Nat \ {0} /\ c.ext \in Nat /\ c.eol \in Nat
        /\ c.at < c.ext /\ c.ext <= c.eol
    BY <1>1, ChunkNumbers, ChunkOrder
  <2>2. \A i \in c.at .. c.ext - 1 : s[i] \in DOMAIN Hex
    BY <1>1, ChunkDigits
  <2>3. \A i \in c.ext .. c.eol - 1 : s[i] # LF
    BY <1>1, ChunkExtension
  <2>4. s[c.eol] = CR /\ s[c.eol + 1] = LF
    BY <1>1, ChunkFacts
  <2> QED
    BY <2>1, <2>2, <2>3, <2>4
<1>3. \A i \in c.ext .. c.eol - 1 : s[i] \notin DOMAIN Hex
  BY <1>1 DEF PlainExtensions
<1>4. Char = s[Pos] /\ c.at < Pos /\ Pos <= c.eol + 1 /\ Pos \in Nat
  BY <1>1 DEF Char, Pos, AtLine
<1>5. \/ Pos \in c.at .. c.ext - 1 /\ Pos < c.ext
      \/ Pos \in c.ext .. c.eol - 1 /\ ~(Pos < c.ext)
      \/ Pos = c.eol /\ ~(Pos < c.ext)
      \/ Pos = c.eol + 1 /\ ~(Pos < c.ext)
  <2> DEFINE a == c.at
             e == c.ext
             l == c.eol
             p == Pos
  <2>1. /\ a \in Nat /\ e \in Nat /\ l \in Nat /\ p \in Nat
        /\ a < e /\ e <= l /\ a < p /\ p <= l + 1
    BY <1>2, <1>4
  <2> HIDE DEF a, e, l, p
  <2>2. \/ p \in a .. e - 1 /\ p < e
        \/ p \in e .. l - 1 /\ ~(p < e)
        \/ p = l /\ ~(p < e)
        \/ p = l + 1 /\ ~(p < e)
    BY <2>1
  <2> QED
    BY <2>2, Zenon DEF a, e, l, p
<1>6. Pos >= c.ext <=> ~(Pos < c.ext)
  BY <1>2, <1>4
<1>7. CASE Pos \in c.at .. c.ext - 1 /\ Pos < c.ext
  <2>1. Char \in DOMAIN Hex /\ Char # LF
    BY <1>2, <1>4, <1>7, Characters
  <2>2. Pos # c.eol + 1 /\ Pos # c.eol
    BY <1>2, <1>4, <1>7
  <2> QED
    BY <1>4, <1>6, <1>7, <2>1, <2>2
<1>8. CASE Pos \in c.ext .. c.eol - 1 /\ ~(Pos < c.ext)
  <2>1. Char \notin DOMAIN Hex /\ Char # LF
    BY <1>2, <1>3, <1>4, <1>8
  <2>2. Pos # c.eol + 1 /\ Pos # c.eol
    BY <1>2, <1>4, <1>8
  <2> QED
    BY <1>4, <1>8, <2>1, <2>2
<1>9. CASE Pos = c.eol /\ ~(Pos < c.ext)
  <2>1. Char = CR
    BY <1>2, <1>4, <1>9
  <2>2. Pos # c.eol + 1
    BY <1>2, <1>9
  <2> QED
    BY <1>4, <1>9, <2>1, <2>2, Characters
<1>10. CASE Pos = c.eol + 1 /\ ~(Pos < c.ext)
  <2>1. Char = LF
    BY <1>2, <1>4, <1>10
  <2>2. Pos # c.eol
    BY <1>2, <1>10
  <2> QED
    BY <1>4, <1>10, <2>1, <2>2, Characters
<1> QED
  BY <1>5, <1>7, <1>8, <1>9, <1>10

LEMMA CharOfData ==
  ASSUME Typed, msg.framing = "chunked", NEW k \in 1 .. Len(msg.chunks),
         AtData(k), NEW c, c = msg.chunks[k], NEW n, n = c.from + Pos - c.eol - 2
  PROVE  /\ n \in Nat /\ n < Len(msg.body) /\ Char = msg.body[n + 1]
         /\ k + 1 \in 1 .. Len(msg.chunks)
         /\ ChunkData(msg, c, msg.chunks[k + 1])
<1>1. msg \in Messages /\ read \in Nat /\ size \in Nat
  BY DEF Typed, TypeOK
<1> DEFINE s == msg.stream
<1>2. c.eol \in Nat /\ c.size \in Nat /\ c.from \in Nat
  BY <1>1, ChunkNumbers
<1>3. Pos \in Nat /\ c.eol + 2 <= Pos /\ size > 0 /\ size = c.eol + 2 + c.size - Pos
  BY <1>1 DEF Pos, AtData
<1>4. /\ c.size > 0 /\ Pos - (c.eol + 1) \in 1 .. c.size
      /\ c.eol + 1 + (Pos - (c.eol + 1)) = Pos
      /\ c.from + (Pos - (c.eol + 1)) = n + 1
      /\ n \in Nat /\ n < c.from + c.size
  <2> DEFINE e == c.eol
             z == c.size
             f == c.from
             p == Pos
  <2>1. /\ e \in Nat /\ z \in Nat /\ f \in Nat /\ p \in Nat /\ size \in Nat
        /\ e + 2 <= p /\ size > 0 /\ size = e + 2 + z - p /\ n = f + p - e - 2
    BY <1>1, <1>2, <1>3
  <2> HIDE DEF e, z, f, p
  <2>2. /\ z > 0 /\ p - (e + 1) \in 1 .. z /\ e + 1 + (p - (e + 1)) = p
        /\ f + (p - (e + 1)) = n + 1 /\ n \in Nat /\ n < f + z
    BY <2>1
  <2> QED
    BY <2>2 DEF e, z, f, p
<1>5. k + 1 \in 1 .. Len(msg.chunks) /\ ChunkData(msg, c, msg.chunks[k + 1])
  BY <1>1, <1>4, ChunkFacts
<1>6. /\ c.from + c.size <= Len(msg.body)
      /\ \A i \in 1 .. c.size : s[c.eol + 1 + i] = msg.body[c.from + i]
  BY <1>5 DEF ChunkData
<1>7. s[Pos] = msg.body[n + 1] /\ Char = s[Pos]
  BY <1>4, <1>6 DEF Char, Pos
<1>8. n < Len(msg.body)
  <2> DEFINE l == Len(msg.body)
             e == c.from + c.size
  <2>1. /\ l \in Nat
        /\ e \in Nat /\ n < e /\ e <= l /\ n \in Nat
    <3>1. l \in Nat
      BY <1>1, MessageTyped
    <3>2. e \in Nat
      BY <1>2
    <3> QED
      BY <1>4, <1>6, <3>1, <3>2
  <2> HIDE DEF l, e
  <2>2. n < l
    BY <2>1
  <2> QED
    BY <2>2 DEF l
<1> QED
  BY <1>4, <1>5, <1>7, <1>8

\* What follows from being in a chunk again, and the only chunk parts that fit
\* a phase.
LEMMA InSomeChunk ==
  ASSUME msg.framing = "chunked", msg' = msg, NEW k \in 1 .. Len(msg.chunks),
         AtLead(k)' \/ AtLine(k)' \/ AtData(k)'
  PROVE  Somewhere'
  BY DEF Somewhere, AtChunk

LEMMA LineHasDigits ==
  ASSUME Typed, msg.framing = "chunked", NEW k \in 1 .. Len(msg.chunks),
         AtLine(k)
  PROVE  digits # <<>> /\ size = 0
<1> DEFINE c == msg.chunks[k]
           p == Pos
           e == IF p < c.ext THEN p ELSE c.ext
           s == msg.stream
<1>1. msg \in Messages /\ read \in Nat
  BY DEF Typed, TypeOK
<1>2. /\ c.at \in Nat /\ c.ext \in Nat /\ c.at < c.ext
      /\ p \in Nat /\ c.at < p /\ size = 0
  BY <1>1, ChunkFacts DEF AtLine, Pos
<1>3. digits = SubSeq(s, c.at, e - 1)
  BY DEF AtLine
<1> HIDE DEF p
<1>4. e \in Nat /\ c.at <= e - 1
  BY <1>2
<1> HIDE DEF e
<1>5. Len(digits) = (e - 1) - c.at + 1
  BY <1>2, <1>3, <1>4
<1> QED
  BY <1>2, <1>4, <1>5

LEMMA HeaderStep ==
  ASSUME Typed, Somewhere, Header
  PROVE  Somewhere'
<1>1. /\ msg \in Messages /\ msg' = msg /\ read \in Nat /\ read' = read + 1
      /\ AtHeader /\ size' = 0 /\ digits' = <<>> /\ content' = <<>>
  BY DEF Typed, TypeOK, Header, Scanning, Advance, Somewhere, AtHeader, AtBody,
         AtChunk, AtLead, AtLine, AtData
<1>2. /\ msg.head \in Nat /\ msg.body \in Seq(STRING)
      /\ msg.framing \in {"length", "chunked", "close"} /\ WellFormed(msg)
  BY <1>1, MessageTyped
<1>3. read + 1 \in 1 .. msg.head /\ size = 0 /\ digits = <<>>
  BY <1>1, <1>2 DEF AtHeader
<1>4. EndOfHeader(msg.stream, read + 1) > 0 <=> read + 1 = msg.head
  BY <1>1, <1>3, HeaderEnds
<1>5. CASE read + 1 # msg.head
  <2>1. phase' = "header" /\ read' < msg'.head
    BY <1>1, <1>2, <1>3, <1>4, <1>5 DEF Header, Advance
  <2> QED
    BY <1>1, <2>1 DEF Somewhere, AtHeader
<1>6. CASE read + 1 = msg.head
  <2>1. phase' = StartOf(msg, 0, <<>>)
    BY <1>3, <1>4, <1>6 DEF Header, Advance
  <2>2. SubSeq(msg.body, 1, 0) = <<>>
    BY SubSeqEmpty
  <2>3. CASE msg.framing # "chunked"
    <3>1. phase' = "plain"
      BY <2>1, <2>3 DEF StartOf
    <3>2. read' - msg'.head = 0 /\ msg'.head <= read' /\ 0 <= Len(msg'.body)
      BY <1>1, <1>2, <1>6
    <3>3. AtBody'
      BY <1>1, <2>2, <2>3, <3>1, <3>2 DEF AtBody, IsStart
    <3> QED
      BY <3>3 DEF Somewhere
  <2>4. CASE msg.framing = "chunked"
    <3>1. phase' = "cr"
      BY <2>1, <2>4 DEF StartOf
    <3>2. InChunks(msg) /\ msg.chunks \in Seq(ChunkLayout)
      BY <1>1, <1>2, <2>4, MessageTyped DEF WellFormed
    <3>3. /\ 1 \in 1 .. Len(msg.chunks) /\ msg.chunks[1].from = 0
          /\ msg.chunks[1].at = msg.head + 1
      BY <3>2 DEF InChunks
    <3>4. Pos' = msg.chunks[1].at
      BY <1>1, <1>6, <3>3 DEF Pos
    <3>5. AtLead(1)'
      BY <1>1, <2>2, <3>1, <3>3, <3>4 DEF AtLead, IsStart
    <3> QED
      BY <1>1, <2>4, <3>3, <3>5, InSomeChunk
  <2> QED
    BY <2>3, <2>4
<1> QED
  BY <1>5, <1>6

LEMMA PlainStep ==
  ASSUME Typed, Somewhere, Plain
  PROVE  Somewhere'
<1>1. /\ msg \in Messages /\ msg' = msg /\ read \in Nat /\ read' = read + 1
      /\ size' = size /\ digits' = digits /\ phase = "plain" /\ phase' = "plain"
      /\ content' = Append(content, Char) /\ read < sent
  BY DEF Typed, TypeOK, Plain, Scanning, Advance
<1>2. AtBody
  BY <1>1 DEF Somewhere, AtHeader, AtChunk, AtLead, AtLine, AtData
<1>3. msg.head \in Nat /\ msg.body \in Seq(STRING)
  BY <1>1, MessageTyped
<1> DEFINE n == read - msg.head
<1>4. n \in Nat /\ n < Len(msg.body) /\ Char = msg.body[n + 1]
  BY <1>1, <1>2, CharOfBody
<1>5. content = SubSeq(msg.body, 1, n)
  BY <1>2 DEF AtBody, IsStart
<1>6. read' - msg.head = n + 1 /\ msg.head <= read' /\ n + 1 <= Len(msg.body)
  BY <1>1, <1>3, <1>4
<1> HIDE DEF n
<1>7. content' = SubSeq(msg.body, 1, n + 1)
  BY <1>1, <1>3, <1>4, <1>5, OneMore
<1>8. AtBody'
  BY <1>1, <1>2, <1>6, <1>7 DEF AtBody, IsStart
<1> QED
  BY <1>8 DEF Somewhere

LEMMA LeadStep ==
  ASSUME Typed, AllPlain, Somewhere, LeadCR \/ LeadLF
  PROVE  Somewhere'
<1>1. /\ msg \in Messages /\ msg' = msg /\ read \in Nat /\ read' = read + 1
      /\ size' = size /\ digits' = digits /\ content' = content
  BY DEF Typed, TypeOK, LeadCR, LeadLF, Scanning, Advance
<1>2. \/ phase = "cr" /\ Char = CR /\ phase' = "lf"
      \/ phase \in {"cr", "lf"} /\ Char = LF /\ phase' = "digits"
  BY DEF LeadCR, LeadLF, Scanning, Advance
<1>3. /\ msg.framing = "chunked"
      /\ \E k \in 1 .. Len(msg.chunks) : AtLead(k)
  BY <1>2 DEF Somewhere, AtHeader, AtBody, AtChunk, AtLine, AtData
<1>4. PICK k \in 1 .. Len(msg.chunks) : AtLead(k)
  BY <1>3
<1> DEFINE c == msg.chunks[k]
<1>5. /\ Pos = c.at - 2 => Char = CR
      /\ Pos = c.at - 1 => Char = LF
      /\ Pos = c.at => Char \in DOMAIN Hex
  BY <1>3, <1>4, CharOfLead
<1>6. c.at \in Nat
  BY <1>1, <1>3, ChunkFacts
<1>7. Pos' = Pos + 1 /\ Pos \in Nat
  BY <1>1 DEF Pos
<1>8. AtLead(k)'
  <2>1. \/ k > 1 /\ Pos = c.at - 2 /\ Pos' = c.at - 1 /\ phase' = "lf"
        \/ k > 1 /\ Pos = c.at - 1 /\ Pos' = c.at /\ phase' = "digits"
    <3>1. Pos # c.at
      BY <1>2, <1>5, Characters
    <3>2. \/ k > 1 /\ Pos = c.at - 2 /\ phase = "cr"
          \/ k > 1 /\ Pos = c.at - 1
      BY <1>4, <3>1 DEF AtLead
    <3>3. CASE k > 1 /\ Pos = c.at - 2 /\ phase = "cr"
      <4>1. phase' = "lf"
        BY <1>2, <1>5, <3>3, Characters
      <4>2. Pos' = c.at - 1
        BY <1>6, <1>7, <3>3
      <4> QED
        BY <3>3, <4>1, <4>2, Zenon
    <3>4. CASE k > 1 /\ Pos = c.at - 1
      <4>1. phase' = "digits"
        BY <1>2, <1>5, <3>4, Characters
      <4>2. Pos' = c.at
        BY <1>6, <1>7, <3>4
      <4> QED
        BY <3>4, <4>1, <4>2, Zenon
    <3> QED
      BY <3>2, <3>3, <3>4
  <2> QED
    BY <1>1, <1>4, <2>1 DEF AtLead, IsStart
<1> QED
  BY <1>1, <1>3, <1>8, InSomeChunk

LEMMA DigitStep ==
  ASSUME Typed, AllPlain, Somewhere, Digit
  PROVE  Somewhere'
<1>1. /\ msg \in Messages /\ msg' = msg /\ read \in Nat /\ read' = read + 1
      /\ size' = size /\ digits' = Append(digits, Char) /\ content' = content
      /\ phase \in {"cr", "lf", "digits"} /\ phase' = "digits"
      /\ Char \in DOMAIN Hex
  BY DEF Typed, TypeOK, Digit, Scanning, Advance
<1>2. /\ msg.framing = "chunked"
      /\ \E k \in 1 .. Len(msg.chunks) : AtLead(k) \/ AtLine(k)
  BY <1>1 DEF Somewhere, AtHeader, AtBody, AtChunk, AtData
<1>3. PICK k \in 1 .. Len(msg.chunks) : AtLead(k) \/ AtLine(k)
  BY <1>2
<1> DEFINE c == msg.chunks[k]
           s == msg.stream
<1>4. /\ c.at \in Nat \ {0} /\ c.ext \in Nat /\ c.eol \in Nat
      /\ c.at < c.ext /\ c.ext <= c.eol /\ c.eol < Len(s) /\ s \in Seq(STRING)
  <2>1. s \in Seq(STRING)
    BY <1>1, MessageTyped
  <2>2. /\ c.at \in Nat \ {0} /\ c.ext \in Nat /\ c.eol \in Nat
    BY <1>1, <1>2, ChunkNumbers
  <2>3. c.at < c.ext /\ c.ext <= c.eol /\ c.eol < Len(s)
    BY <1>1, <1>2, ChunkOrder
  <2> QED
    BY <2>1, <2>2, <2>3
<1>5. Pos' = Pos + 1 /\ Pos \in Nat /\ Char = s[Pos]
  BY <1>1 DEF Pos, Char
<1>6. /\ Pos < c.ext /\ c.at <= Pos
      /\ digits = SubSeq(s, c.at, Pos - 1) /\ size = 0 /\ IsStart(c.from)
  <2>1. CASE AtLead(k)
    <3>1. Pos = c.at
      BY <1>1, <1>2, <2>1, CharOfLead, Characters DEF AtLead
    <3>2. SubSeq(s, c.at, Pos - 1) = <<>>
      BY <1>4, <3>1, SubSeqEmpty
    <3> QED
      BY <1>4, <2>1, <3>1, <3>2 DEF AtLead
  <2>2. CASE AtLine(k)
    <3>1. Pos < c.ext
      <4>1. Pos >= c.ext => Char \notin DOMAIN Hex
        BY <1>2, <2>2, CharOfLine
      <4>2. ~(Pos >= c.ext)
        BY <1>1, <4>1
      <4> QED
        BY <1>4, <1>5, <4>2
    <3> DEFINE r == IF Pos < c.ext THEN Pos ELSE c.ext
    <3>2. r = Pos
      BY <3>1, Zenon
    <3>3. size = 0 /\ IsStart(c.from) /\ c.at < Pos
      BY <2>2 DEF AtLine
    <3>4. digits = SubSeq(s, c.at, r - 1)
      BY <2>2, Zenon DEF AtLine
    <3> HIDE DEF r
    <3>5. digits = SubSeq(s, c.at, Pos - 1)
      BY <3>2, <3>4, Zenon
    <3> QED
      BY <1>4, <1>5, <3>1, <3>3, <3>5
  <2> QED
    BY <1>3, <2>1, <2>2
<1>7. digits' = SubSeq(s, c.at, Pos)
  <2> DEFINE n == Pos - 1
             a == c.at
             e == c.ext
             o == c.eol
             l == Len(s)
             p == Pos
  <2>1. n \in Nat /\ n + 1 = Pos /\ a \in Nat \ {0} /\ a <= n + 1 /\ n < Len(s)
    <3>1. /\ a \in Nat \ {0} /\ e \in Nat /\ o \in Nat /\ a < e /\ e <= o /\ o < l
          /\ p \in Nat /\ p < e /\ a <= p /\ l \in Nat
      BY <1>4, <1>5, <1>6
    <3> HIDE DEF a, e, o, l, p
    <3>2. p - 1 \in Nat /\ (p - 1) + 1 = p /\ a <= (p - 1) + 1 /\ p - 1 < l
      BY <3>1
    <3> QED
      BY <3>1, <3>2 DEF l, p
  <2> HIDE DEF n, a
  <2>2. Append(SubSeq(s, a, n), s[n + 1]) = SubSeq(s, a, n + 1)
    BY <1>4, <2>1, OneMore
  <2> QED
    BY <1>1, <1>5, <1>6, <2>1, <2>2 DEF n, a
<1>8. /\ c.at < Pos' /\ Pos' <= c.eol + 1
      /\ (IF Pos' < c.ext THEN Pos' ELSE c.ext) - 1 = Pos
  <2> DEFINE p == Pos
             q == Pos'
             e == c.ext
             a == c.at
             l == c.eol
  <2>1. /\ p \in Nat /\ q = p + 1 /\ e \in Nat /\ p < e /\ a <= p
        /\ a \in Nat /\ l \in Nat /\ e <= l
    <3>1. e \in Nat /\ a \in Nat /\ l \in Nat /\ e <= l
      BY <1>4
    <3>2. p \in Nat /\ q = p + 1
      BY <1>5
    <3>3. p < e /\ a <= p
      BY <1>6
    <3> QED
      BY <3>1, <3>2, <3>3
  <2> HIDE DEF p, q, e, a, l
  <2>2. a < q /\ q <= l + 1
    BY <2>1
  <2>3. (IF q < e THEN q ELSE e) = q
    <3>1. CASE q < e
      BY <3>1, Zenon
    <3>2. CASE ~(q < e)
      <4>1. q = e
        BY <2>1, <3>2
      <4> QED
        BY <4>1, Zenon
    <3> QED
      BY <3>1, <3>2
  <2>4. q - 1 = p
    <3>1. p \in Nat /\ q = p + 1
      BY <2>1, Zenon
    <3> QED
      BY <3>1
  <2> QED
    BY <2>2, <2>3, <2>4, Zenon DEF p, q, e, a, l
<1>9. AtLine(k)'
  BY <1>1, <1>6, <1>7, <1>8 DEF AtLine, IsStart
<1> QED
  BY <1>1, <1>2, <1>9, InSomeChunk

LEMMA ExtensionStep ==
  ASSUME Typed, AllPlain, Somewhere, Extension \/ LineCR
  PROVE  Somewhere'
<1>1. /\ msg \in Messages /\ msg' = msg /\ read \in Nat /\ read' = read + 1
      /\ size' = size /\ digits' = digits /\ content' = content
      /\ phase \in {"cr", "lf", "digits", "ext"} /\ phase' \in {"ext", "eol"}
      /\ Char # LF
      /\ phase # "ext" => Char \notin DOMAIN Hex
      /\ phase = "cr" => Char # CR
  BY Characters DEF Typed, TypeOK, Extension, LineCR, Scanning, Advance
<1>2. /\ msg.framing = "chunked"
      /\ \E k \in 1 .. Len(msg.chunks) : AtLead(k) \/ AtLine(k)
  BY <1>1 DEF Somewhere, AtHeader, AtBody, AtChunk, AtData
<1>3. PICK k \in 1 .. Len(msg.chunks) : AtLead(k) \/ AtLine(k)
  BY <1>2
<1> DEFINE c == msg.chunks[k]
<1>4. c.at \in Nat /\ c.ext \in Nat /\ c.eol \in Nat /\ c.ext <= c.eol
  BY <1>1, <1>2, ChunkNumbers, ChunkOrder
<1>5. Pos' = Pos + 1 /\ Pos \in Nat
  BY <1>1 DEF Pos
<1>6. AtLine(k)
  <2>1. AtLead(k) => FALSE
    BY <1>1, <1>2, CharOfLead DEF AtLead
  <2> QED
    BY <1>3, <2>1
<1>7. c.ext <= Pos /\ Pos <= c.eol /\ c.at < Pos
  <2>1. Pos < c.ext => Char \in DOMAIN Hex
    BY <1>2, <1>6, CharOfLine
  <2>2. Char = LF <=> Pos = c.eol + 1
    BY <1>2, <1>6, CharOfLine
  <2>3. phase = "ext" => c.ext < Pos
    BY <1>6 DEF AtLine
  <2>4. c.at < Pos /\ Pos <= c.eol + 1
    BY <1>6 DEF AtLine
  <2>5. Pos # c.eol + 1
    BY <1>1, <2>2
  <2>6. ~(Pos < c.ext)
    <3>1. phase # "ext" => ~(Pos < c.ext)
      BY <1>1, <2>1
    <3>2. c.ext < Pos => ~(Pos < c.ext)
      BY <1>4, <1>5
    <3> QED
      BY <2>3, <3>1, <3>2
  <2> DEFINE a == c.at
             e == c.ext
             o == c.eol
             p == Pos
  <2>7. /\ a \in Nat /\ e \in Nat /\ o \in Nat /\ p \in Nat
        /\ a < p /\ p <= o + 1 /\ p # o + 1 /\ ~(p < e)
    BY <1>4, <1>5, <2>4, <2>5, <2>6
  <2> HIDE DEF a, e, o, p
  <2>8. e <= p /\ p <= o /\ a < p
    BY <2>7
  <2> QED
    BY <2>8 DEF a, e, o, p
<1>8. AtLine(k)'
  <2>1. /\ c.at < Pos' /\ Pos' <= c.eol + 1 /\ c.ext < Pos'
        /\ ~(Pos' < c.ext) /\ ~(Pos < c.ext)
    BY <1>4, <1>5, <1>7
  <2> QED
    BY <1>1, <1>6, <2>1 DEF AtLine, IsStart
<1> QED
  BY <1>1, <1>2, <1>8, InSomeChunk

\* A carriage return without a line feed: the size line goes on.
LEMMA NotEolStep ==
  ASSUME Typed, AllPlain, Somewhere, NotEol
  PROVE  Somewhere'
<1>1. /\ msg \in Messages /\ msg' = msg /\ read \in Nat /\ read' = read
      /\ size' = size /\ digits' = digits /\ content' = content
      /\ phase = "eol" /\ phase' = StartOf(msg, size, digits)
  BY DEF Typed, TypeOK, NotEol, Scanning
<1>2. /\ msg.framing = "chunked"
      /\ \E k \in 1 .. Len(msg.chunks) : AtLine(k)
  BY <1>1 DEF Somewhere, AtHeader, AtBody, AtChunk, AtLead, AtData
<1>3. PICK k \in 1 .. Len(msg.chunks) : AtLine(k)
  BY <1>2
<1>4. digits # <<>> /\ size = 0
  BY <1>1, <1>2, <1>3, LineHasDigits
<1>5. phase' = "digits"
  BY <1>1, <1>2, <1>4 DEF StartOf
<1>6. AtLine(k)'
  BY <1>1, <1>3, <1>5 DEF AtLine, IsStart, Pos
<1> QED
  BY <1>1, <1>2, <1>6, InSomeChunk

\* The end of a size line.
LEMMA LineLFStep ==
  ASSUME Typed, AllPlain, Somewhere, LineLF
  PROVE  IF state' = "done" THEN content' = msg'.body ELSE Somewhere'
<1>1. /\ msg \in Messages /\ msg' = msg /\ read \in Nat /\ read' = read + 1
      /\ size' = ValueOf(digits) /\ digits' = <<>> /\ content' = content
      /\ phase \in {"digits", "ext", "eol"} /\ phase' = "data" /\ Char = LF
      /\ state = "scan"
      /\ state' = IF ValueOf(digits) = 0 THEN "done" ELSE state
  BY DEF Typed, TypeOK, LineLF, Scanning, Advance
<1>2. /\ msg.framing = "chunked"
      /\ \E k \in 1 .. Len(msg.chunks) : AtLead(k) \/ AtLine(k)
  BY <1>1 DEF Somewhere, AtHeader, AtBody, AtChunk, AtData
<1>3. PICK k \in 1 .. Len(msg.chunks) : AtLead(k) \/ AtLine(k)
  BY <1>2
<1> DEFINE c == msg.chunks[k]
           s == msg.stream
<1>4. /\ c.at \in Nat \ {0} /\ c.ext \in Nat /\ c.eol \in Nat
      /\ c.size \in Nat /\ c.from \in Nat
      /\ c.at < c.ext /\ c.ext <= c.eol
  <2>1. /\ c.at \in Nat \ {0} /\ c.ext \in Nat /\ c.eol \in Nat
        /\ c.size \in Nat /\ c.from \in Nat
    BY <1>1, <1>2, ChunkNumbers
  <2>2. c.at < c.ext /\ c.ext <= c.eol
    BY <1>1, <1>2, ChunkOrder
  <2> QED
    BY <2>1, <2>2
<1>5. c.size = ValueOf(SubSeq(s, c.at, c.ext - 1))
  BY <1>1, <1>2, ChunkSize
<1>6. msg.body \in Seq(STRING) /\ (c.size = 0 => c.from = Len(msg.body))
  BY <1>1, <1>2, ChunkFacts
<1>7. AtLine(k)
  <2>1. AtLead(k) => FALSE
    <3>1. AtLead(k) => Pos = c.at
      BY <1>1, <1>2 DEF AtLead
    <3>2. AtLead(k) /\ Pos = c.at => Char \in DOMAIN Hex
      BY <1>2, CharOfLead
    <3> QED
      BY <1>1, <3>1, <3>2, Characters
  <2> QED
    BY <1>3, <2>1
<1>8. Pos = c.eol + 1 /\ Pos' = Pos + 1
  <2>1. Char = LF <=> Pos = c.eol + 1
    BY <1>2, <1>7, CharOfLine
  <2> QED
    BY <1>1, <2>1 DEF Pos
<1>9. ValueOf(digits) = c.size
  <2>1. (IF Pos < c.ext THEN Pos ELSE c.ext) = c.ext
    BY <1>4, <1>8
  <2>2. digits = SubSeq(s, c.at, c.ext - 1)
    BY <1>7, <2>1, Zenon DEF AtLine
  <2> QED
    BY <1>5, <2>2
<1>10. content = SubSeq(msg.body, 1, c.from)
  BY <1>7 DEF AtLine, IsStart
<1>11. CASE c.size = 0
  <2>1. content = msg.body
    BY <1>6, <1>10, <1>11, SubSeqFull
  <2> QED
    BY <1>1, <1>9, <1>11, <2>1
<1>12. CASE c.size # 0
  <2>1. state' # "done" /\ size' = c.size
    BY <1>1, <1>9, <1>12
  <2>2. /\ Pos' = c.eol + 2 /\ c.from + Pos' - c.eol - 2 = c.from
        /\ c.eol + 2 + c.size - Pos' = c.size /\ c.eol + 2 <= Pos' /\ c.size > 0
    <3> DEFINE e == c.eol
               f == c.from
               z == c.size
               p == Pos
               q == Pos'
    <3>1. e \in Nat /\ f \in Nat /\ z \in Nat /\ p = e + 1 /\ q = p + 1 /\ z # 0
      BY <1>4, <1>8, <1>12
    <3> HIDE DEF e, f, z, p, q
    <3>2. /\ q = e + 2 /\ f + q - e - 2 = f
          /\ e + 2 + z - q = z /\ e + 2 <= q /\ z > 0
      BY <3>1
    <3> QED
      BY <3>2 DEF e, f, z, q
  <2>3. AtData(k)'
    BY <1>1, <1>10, <2>1, <2>2 DEF AtData, IsStart
  <2> QED
    BY <1>1, <1>2, <2>1, <2>3, InSomeChunk
<1> QED
  BY <1>11, <1>12

\* A character of the data of a chunk, the last one or another.
LEMMA DataStep ==
  ASSUME Typed, AllPlain, Somewhere, Data
  PROVE  Somewhere'
<1>1. /\ msg \in Messages /\ msg' = msg /\ read \in Nat /\ read' = read + 1
      /\ size' = size - 1 /\ digits' = digits /\ content' = Append(content, Char)
      /\ phase = "data" /\ phase' = IF size = 1 THEN "cr" ELSE "data"
      /\ size \in Nat
  BY DEF Typed, TypeOK, Data, Scanning, Advance
<1>2. /\ msg.framing = "chunked"
      /\ \E k \in 1 .. Len(msg.chunks) : AtData(k)
  BY <1>1 DEF Somewhere, AtHeader, AtBody, AtChunk, AtLead, AtLine
<1>3. PICK k \in 1 .. Len(msg.chunks) : AtData(k)
  BY <1>2
<1> DEFINE c == msg.chunks[k]
           d == msg.chunks[k + 1]
           n == c.from + Pos - c.eol - 2
<1>4. /\ n \in Nat /\ n < Len(msg.body) /\ Char = msg.body[n + 1]
      /\ k + 1 \in 1 .. Len(msg.chunks) /\ ChunkData(msg, c, d)
  BY <1>2, <1>3, CharOfData
<1>5. c.eol \in Nat /\ c.size \in Nat /\ c.from \in Nat
  BY <1>1, <1>2, ChunkFacts
<1>6. msg.body \in Seq(STRING)
  BY <1>1, MessageTyped
<1>7. content = SubSeq(msg.body, 1, n)
  BY <1>3 DEF AtData, IsStart
<1>8. content' = SubSeq(msg.body, 1, n + 1)
  <2> HIDE DEF n
  <2> QED BY <1>1, <1>4, <1>6, <1>7, OneMore
<1>9. /\ Pos \in Nat /\ Pos' = Pos + 1 /\ c.eol + 2 <= Pos
      /\ size > 0 /\ size = c.eol + 2 + c.size - Pos /\ digits' = <<>>
  BY <1>1, <1>3 DEF AtData, Pos
<1>10. d.at = c.eol + c.size + 4 /\ d.from = c.from + c.size
  BY <1>4 DEF ChunkData
<1>11. /\ c.eol + 2 <= Pos' /\ size' = c.eol + 2 + c.size - Pos'
       /\ c.from + Pos' - c.eol - 2 = n + 1
       /\ size = 1 => Pos' = d.at - 2 /\ n + 1 = d.from
  <2> DEFINE e == c.eol
             f == c.from
             z == c.size
             p == Pos
             q == Pos'
             r == size'
  <2>1. /\ e \in Nat /\ f \in Nat /\ z \in Nat /\ p \in Nat /\ q = p + 1
        /\ r = size - 1 /\ size \in Nat /\ size = e + 2 + z - p /\ e + 2 <= p
        /\ n = f + p - e - 2 /\ d.at = e + z + 4 /\ d.from = f + z
    BY <1>1, <1>5, <1>9, <1>10
  <2> HIDE DEF e, f, z, p, q, r, n
  <2>2. e + 2 <= q /\ r = e + 2 + z - q /\ f + q - e - 2 = n + 1
    BY <2>1
  <2>3. size = 1 => q = d.at - 2 /\ n + 1 = d.from
    <3>1. size = 1 => q = (e + z + 4) - 2 /\ n + 1 = f + z
      BY <2>1
    <3> QED
      BY <2>1, <3>1
  <2> QED
    BY <2>2, <2>3 DEF e, f, z, q, r
<1>12. CASE size = 1
  <2>1. /\ phase' = "cr" /\ Pos' = d.at - 2 /\ size' = 0 /\ k + 1 > 1
        /\ content' = SubSeq(msg.body, 1, d.from)
    <3> HIDE DEF n
    <3>1. Pos' = d.at - 2 /\ n + 1 = d.from
      BY <1>11, <1>12
    <3>2. content' = SubSeq(msg.body, 1, d.from)
      BY <1>8, <3>1
    <3>3. phase' = "cr" /\ size' = 0
      BY <1>1, <1>12
    <3> QED BY <3>1, <3>2, <3>3
  <2>2. AtLead(k + 1)'
    BY <1>1, <1>9, <2>1 DEF AtLead, IsStart
  <2> QED
    BY <1>1, <1>2, <1>4, <2>2, InSomeChunk
<1>13. CASE size # 1
  <2>1. phase' = "data" /\ size' > 0
    BY <1>1, <1>9, <1>13
  <2>2. AtData(k)'
    <3> HIDE DEF n
    <3> QED BY <1>1, <1>8, <1>9, <1>11, <2>1 DEF AtData, IsStart
  <2> QED
    BY <1>1, <1>2, <2>2, InSomeChunk
<1> QED
  BY <1>12, <1>13

\* The next segment: what the loop body finds is what it left.
LEMMA ReceiveStep ==
  ASSUME Typed, AllPlain, Somewhere, Receive
  PROVE  Somewhere'
<1>1. /\ msg \in Messages /\ msg' = msg /\ read \in Nat /\ read' = read
      /\ size' = size /\ digits' = digits /\ content' = content
      /\ phase' = IF phase = "header" THEN phase ELSE StartOf(msg, size, digits)
  BY DEF Typed, TypeOK, Receive
<1>2. CASE AtHeader
  BY <1>1, <1>2 DEF Somewhere, AtHeader
<1>3. CASE AtBody
  <2>1. phase' = "plain"
    BY <1>1, <1>3 DEF AtBody, StartOf
  <2> QED
    BY <1>1, <1>3, <2>1 DEF Somewhere, AtBody, IsStart
<1>4. CASE msg.framing = "chunked" /\ \E k \in 1 .. Len(msg.chunks) : AtChunk(k)
  <2>1. PICK k \in 1 .. Len(msg.chunks) : AtLead(k) \/ AtLine(k) \/ AtData(k)
    BY <1>4 DEF AtChunk
  <2>2. Pos' = Pos
    BY <1>1 DEF Pos
  <2>3. CASE AtLead(k)
    <3>1. phase' = "cr"
      BY <1>1, <1>4, <2>3 DEF AtLead, StartOf
    <3>2. AtLead(k)'
      BY <1>1, <2>2, <2>3, <3>1 DEF AtLead, IsStart
    <3> QED
      BY <1>1, <1>4, <3>2, InSomeChunk
  <2>4. CASE AtLine(k)
    <3>1. digits # <<>> /\ size = 0
      BY <1>1, <1>4, <2>4, LineHasDigits
    <3>2. phase' = "digits"
      BY <1>1, <1>4, <2>4, <3>1 DEF AtLine, StartOf
    <3>3. AtLine(k)'
      BY <1>1, <2>2, <2>4, <3>2 DEF AtLine, IsStart
    <3> QED
      BY <1>1, <1>4, <3>3, InSomeChunk
  <2>5. CASE AtData(k)
    <3>1. phase' = "data"
      BY <1>1, <1>4, <2>5 DEF AtData, StartOf
    <3>2. AtData(k)'
      BY <1>1, <2>2, <2>5, <3>1 DEF AtData, IsStart
    <3> QED
      BY <1>1, <1>4, <3>2, InSomeChunk
  <2> QED
    BY <2>1, <2>3, <2>4, <2>5
<1> QED
  BY <1>2, <1>3, <1>4 DEF Somewhere

\* When a segment has been read to its end, and a body that says how long it is
\* is longer than what has been decoded, or has been decoded.
LEMMA EnoughIsAll ==
  ASSUME Typed, Somewhere, Enough(msg, content)
  PROVE  content = msg.body
<1>1. /\ msg \in Messages /\ msg.framing = "length" /\ msg.length > 0
      /\ Len(content) >= msg.length /\ msg.length \in Int
  <2>1. msg \in Messages /\ (msg.framing = "length" <=> msg.length >= 0)
    BY MessageTyped DEF Typed, TypeOK
  <2>2. msg.length \in Int /\ msg.length > 0 /\ Len(content) >= msg.length
    BY <2>1, MessageTyped DEF Enough
  <2> QED
    BY <2>1, <2>2
<1>2. /\ msg.head \in Nat /\ msg.body \in Seq(STRING) /\ WellFormed(msg)
      /\ read \in Nat
  BY <1>1, MessageTyped DEF Typed, TypeOK
<1>3. msg.length = Len(msg.body)
  BY <1>1, <1>2 DEF WellFormed, InOnePiece
<1>4. ~AtHeader
  <2>1. content # <<>>
    BY <1>1
  <2> QED
    BY <2>1 DEF AtHeader
<1>5. AtBody
  BY <1>1, <1>4 DEF Somewhere
<1> DEFINE n == read - msg.head
<1>6. n \in Nat /\ n <= Len(msg.body) /\ content = SubSeq(msg.body, 1, n)
  BY <1>2, <1>5 DEF AtBody, IsStart
<1> HIDE DEF n
<1>7. Len(content) = n
  BY <1>2, <1>6
<1>8. n = Len(msg.body)
  BY <1>1, <1>2, <1>3, <1>6, <1>7
<1> QED
  BY <1>2, <1>6, <1>8, SubSeqFull

\* With every character read, the body is there; inside a chunk this is not so.
LEMMA EndIsAll ==
  ASSUME Typed, Somewhere, read = Len(msg.stream)
  PROVE  content = msg.body /\ msg.framing # "chunked"
<1>1. msg \in Messages /\ read \in Nat /\ Pos = read + 1
  BY DEF Typed, TypeOK, Pos
<1>2. /\ msg.head \in Nat /\ msg.body \in Seq(STRING) /\ WellFormed(msg)
      /\ msg.stream \in Seq(STRING)
  BY <1>1, MessageTyped
<1>3. ~AtHeader
  BY <1>1, <1>2 DEF AtHeader, WellFormed
<1>4. ASSUME msg.framing = "chunked", NEW k \in 1 .. Len(msg.chunks), AtChunk(k)
      PROVE  FALSE
  <2> DEFINE c == msg.chunks[k]
             l == Len(msg.stream)
  <2>1. c.at \in Nat /\ c.ext \in Nat /\ c.eol \in Nat
    BY <1>1, <1>4, ChunkNumbers
  <2>2. c.at < c.ext /\ c.ext <= c.eol /\ c.eol < l
    BY <1>1, <1>4, ChunkOrder
  <2>3. l \in Nat /\ Pos = l + 1
    BY <1>1, <1>2
  <2>4. CASE AtLead(k)
    <3>1. Pos \in {c.at - 2, c.at - 1, c.at}
      BY <2>4 DEF AtLead
    <3> HIDE DEF c, l
    <3> QED
      BY <2>1, <2>2, <2>3, <3>1
  <2>5. CASE AtLine(k)
    <3>1. Pos <= c.eol + 1
      BY <2>5 DEF AtLine
    <3> HIDE DEF c, l
    <3> QED
      BY <2>1, <2>2, <2>3, <3>1
  <2>6. CASE AtData(k)
    <3> DEFINE d == msg.chunks[k + 1]
    <3>1. ChunkData(msg, c, d)
      BY <1>4, <2>6, CharOfData
    <3>2. d.at = c.eol + c.size + 4 /\ d.at <= l
      BY <3>1 DEF ChunkData
    <3>3. size > 0 /\ size = c.eol + 2 + c.size - Pos /\ size \in Nat
      BY <2>6 DEF AtData, Typed, TypeOK
    <3>4. c.size \in Nat
      BY <1>1, <1>4, ChunkFacts
    <3> HIDE DEF c, l, d
    <3> QED
      BY <2>1, <2>3, <3>2, <3>3, <3>4
  <2> QED
    BY <1>4, <2>4, <2>5, <2>6 DEF AtChunk
<1>5. AtBody
  BY <1>3, <1>4 DEF Somewhere
<1>6. /\ read - msg.head = Len(msg.body)
      /\ content = SubSeq(msg.body, 1, read - msg.head)
  BY <1>2, <1>5 DEF AtBody, IsStart, WellFormed, InOnePiece
<1> QED
  BY <1>2, <1>5, <1>6, SubSeqFull DEF AtBody

-----------------------------------------------------------------------------
LEMMA InitDecoded == Init => Decoded
<1> SUFFICES ASSUME Init PROVE Decoded
  OBVIOUS
<1>1. msg \in Messages /\ msg.head \in Nat /\ WellFormed(msg)
  BY MessageTyped DEF Init
<1>2. msg.head > 0
  BY <1>1 DEF WellFormed, EndsInCrLf, EndsInLf
<1>3. AtHeader
  BY <1>1, <1>2 DEF Init, AtHeader
<1>4. ~Enough(msg, content)
  <2>1. Len(content) = 0 /\ msg.length \in Int
    BY <1>1, MessageTyped DEF Init
  <2> QED
    BY <2>1 DEF Enough
<1> QED
  BY <1>3, <1>4 DEF Init, Decoded, Somewhere

LEMMA NextDecoded == Typed /\ AllPlain /\ Decoded /\ [Next]_vars => Decoded'
<1> SUFFICES ASSUME Typed, AllPlain, Decoded, [Next]_vars
             PROVE  Decoded'
  OBVIOUS
<1>1. CASE UNCHANGED vars
  BY <1>1 DEF vars, Decoded, Somewhere, AtHeader, AtBody, AtChunk, AtLead, AtLine,
              AtData, IsStart, Pos, Enough
<1>2. CASE Header \/ Plain \/ LeadCR \/ LeadLF \/ Digit \/ Extension \/ LineCR
           \/ NotEol \/ Data
  <2>1. state = "scan" /\ state' = "scan"
    BY <1>2 DEF Header, Plain, LeadCR, LeadLF, Digit, Extension, LineCR, NotEol,
                Data, Scanning
  <2>2. Somewhere
    BY <2>1 DEF Decoded
  <2>3. Somewhere'
    BY <1>2, <2>2, HeaderStep, PlainStep, LeadStep, DigitStep, ExtensionStep,
       NotEolStep, DataStep
  <2> QED
    BY <2>1, <2>3 DEF Decoded
<1>3. CASE LineLF
  <2>1. state = "scan" /\ state' \in {"scan", "done"}
    BY <1>3 DEF LineLF, Scanning
  <2>2. IF state' = "done" THEN content' = msg'.body ELSE Somewhere'
    BY <1>3, <2>1, LineLFStep DEF Decoded
  <2> QED
    BY <2>1, <2>2 DEF Decoded
<1>4. CASE SegmentEnds
  <2>1. /\ state = "scan" /\ read = sent
        /\ state' = IF Enough(msg, content) THEN "done" ELSE "receive"
        /\ UNCHANGED <<msg, sent, read, phase, size, digits, content>>
    BY <1>4, Zenon DEF SegmentEnds
  <2>2. Somewhere
    <3>1. state = "scan"
      BY <1>4, Zenon DEF SegmentEnds
    <3> QED
      BY <3>1, Zenon DEF Decoded
  <2>3. Somewhere'
    BY <2>1, <2>2 DEF Somewhere, AtHeader, AtBody, AtChunk, AtLead, AtLine,
                      AtData, IsStart, Pos
  <2>4. CASE Enough(msg, content)
    BY <2>1, <2>2, <2>4, EnoughIsAll DEF Decoded
  <2>5. CASE ~Enough(msg, content)
    BY <2>1, <2>3, <2>5 DEF Decoded, Enough
  <2> QED
    BY <2>4, <2>5
<1>5. CASE Receive
  <2>1. state = "receive" /\ state' = "scan"
    BY <1>5 DEF Receive
  <2> QED
    BY <1>5, <2>1, ReceiveStep DEF Decoded
<1>6. CASE ReceiveEnds
  <2>1. /\ state = "receive" /\ state' = "done"
        /\ UNCHANGED <<msg, sent, read, phase, size, digits, content>>
    BY <1>6 DEF ReceiveEnds
  <2>2. Somewhere /\ read = sent /\ sent \in 0 .. Len(msg.stream)
    BY <2>1 DEF Decoded, Typed, TypeOK
  <2>3. sent < Len(msg.stream) \/ content = msg.body
    <3>1. sent # Len(msg.stream) => sent < Len(msg.stream)
      BY <2>2
    <3> QED
      BY <2>2, <3>1, EndIsAll
  <2> QED
    BY <2>1, <2>3 DEF Decoded
<1> QED
  BY <1>1, <1>2, <1>3, <1>4, <1>5, <1>6 DEF Next, Reader, Done

LEMMA AlwaysDecoded == AllPlain => (Spec => [](Typed /\ Decoded))
<1> SUFFICES ASSUME AllPlain PROVE Spec => [](Typed /\ Decoded)
  OBVIOUS
<1>1. Init => Typed /\ Decoded
  BY InitTyped, InitDecoded
<1>2. Typed /\ Decoded /\ [Next]_vars => Typed' /\ Decoded'
  BY NextTyped, NextDecoded
<1> QED
  BY <1>1, <1>2, PTL DEF Spec

\* Without hexadecimal digits in the chunk extensions, an answer that has come
\* in full is decoded exactly, wherever its segments end: inside the header,
\* a size line, an end of line or the data.
THEOREM AnswersAreExact == AllPlain => (Spec => []CompleteIsExact)
<1> SUFFICES ASSUME AllPlain PROVE Spec => []CompleteIsExact
  OBVIOUS
<1>1. Typed /\ Decoded => CompleteIsExact
  <2> SUFFICES ASSUME Typed, Decoded, state = "done", sent = Len(msg.stream)
               PROVE  content = msg.body
    BY DEF CompleteIsExact
  <2>1. sent \in Nat
    BY MessageTyped DEF Typed, TypeOK
  <2> QED
    BY <2>1 DEF Decoded
<1> QED
  BY <1>1, AlwaysDecoded, PTL

\* And the reader stops by itself at the end of a body with a length or in
\* chunks: it waits for more, or for its timeout, only without one.
THEOREM ReaderStops == AllPlain => (Spec => []NoIdleWait)
<1> SUFFICES ASSUME AllPlain PROVE Spec => []NoIdleWait
  OBVIOUS
<1>1. Typed /\ Decoded => NoIdleWait
  <2> SUFFICES ASSUME Typed, Decoded, state = "receive", sent = Len(msg.stream)
               PROVE  msg.framing = "close" \/ msg.body = <<>>
    BY DEF NoIdleWait
  <2>1. Somewhere /\ read = Len(msg.stream) /\ ~Enough(msg, content)
    BY DEF Decoded
  <2>2. content = msg.body /\ msg.framing # "chunked"
    BY <2>1, EndIsAll
  <2>3. /\ msg.framing \in {"length", "chunked", "close"}
        /\ msg.body \in Seq(STRING) /\ WellFormed(msg)
    BY MessageTyped DEF Typed, TypeOK
  <2>4. CASE msg.framing = "length"
    <3>1. msg.length = Len(msg.body)
      BY <2>3, <2>4 DEF WellFormed, InOnePiece
    <3>2. Len(msg.body) = 0
      BY <2>1, <2>2, <2>3, <3>1 DEF Enough
    <3> QED
      BY <2>3, <3>2
  <2> QED
    BY <2>2, <2>3, <2>4
<1> QED
  BY <1>1, AlwaysDecoded, PTL

-----------------------------------------------------------------------------
(* The refinement of Transfer, except for the end that must come.           *)

\* A character that is taken is the next one of the body.
LEMMA ContentGrows ==
  ASSUME Typed, AllPlain, Somewhere, Plain \/ Data
  PROVE  /\ msg' = msg /\ msg.body \in Seq(STRING)
         /\ \E n \in Nat : /\ n < Len(msg.body)
                           /\ content = SubSeq(msg.body, 1, n)
                           /\ content' = SubSeq(msg.body, 1, n + 1)
<1>1. /\ msg \in Messages /\ msg' = msg /\ content' = Append(content, Char)
      /\ read < sent /\ phase \in {"plain", "data"}
  BY DEF Typed, TypeOK, Plain, Data, Scanning
<1>2. msg.body \in Seq(STRING)
  BY <1>1, MessageTyped
<1>3. \E n \in Nat : /\ n < Len(msg.body) /\ Char = msg.body[n + 1]
                     /\ content = SubSeq(msg.body, 1, n)
  <2>1. CASE AtBody
    BY <1>1, <2>1, CharOfBody DEF AtBody, IsStart
  <2>2. CASE ~AtBody
    <3>1. /\ msg.framing = "chunked"
          /\ \E k \in 1 .. Len(msg.chunks) : AtData(k)
      BY <1>1, <2>2 DEF Somewhere, AtHeader, AtChunk, AtLead, AtLine
    <3>2. PICK k \in 1 .. Len(msg.chunks) : AtData(k)
      BY <3>1
    <3> DEFINE c == msg.chunks[k]
               n == c.from + Pos - c.eol - 2
    <3>3. n \in Nat /\ n < Len(msg.body) /\ Char = msg.body[n + 1]
      BY <3>1, <3>2, CharOfData
    <3>4. content = SubSeq(msg.body, 1, n)
      BY <3>2 DEF AtData, IsStart
    <3> HIDE DEF n
    <3> QED
      BY <3>3, <3>4
  <2> QED
    BY <2>1, <2>2
<1>4. PICK n \in Nat : /\ n < Len(msg.body) /\ Char = msg.body[n + 1]
                       /\ content = SubSeq(msg.body, 1, n)
  BY <1>3
<1>5. content' = SubSeq(msg.body, 1, n + 1)
  BY <1>1, <1>2, <1>4, OneMore
<1> QED
  BY <1>1, <1>2, <1>4, <1>5

LEMMA PrefixesGrow ==
  ASSUME NEW S, NEW b \in Seq(S), NEW n \in Nat, n < Len(b),
         NEW s, s = SubSeq(b, 1, n), NEW t, t = SubSeq(b, 1, n + 1)
  PROVE  Caller!IsStrictPrefix(s, t) /\ Caller!IsPrefix(t, b)
<1>1. \A i \in 1 .. n + 1 : b[i] \in S
  OBVIOUS
<1>2. /\ s \in Seq(S) /\ Len(s) = n /\ \A i \in 1 .. n : s[i] = b[i]
  BY <1>1
<1>3. /\ t \in Seq(S) /\ Len(t) = n + 1 /\ \A i \in 1 .. n + 1 : t[i] = b[i]
  BY <1>1
<1>4. SubSeq(s, 1, Len(s)) = s /\ SubSeq(t, 1, Len(t)) = t
  BY <1>2, <1>3, SubSeqFull
<1>5. SubSeq(t, 1, n) = s
  <2> DEFINE u == SubSeq(t, 1, n)
  <2>1. /\ u \in Seq(S) /\ Len(u) = n /\ \A i \in 1 .. n : u[i] = t[i]
    BY <1>3
  <2> HIDE DEF u
  <2>2. \A i \in 1 .. n : u[i] = s[i]
    BY <1>2, <1>3, <2>1
  <2>3. u = s
    BY <1>2, <2>1, <2>2, SeqEqual
  <2> QED
    BY <2>3 DEF u
<1>6. Caller!IsPrefix(s, t)
  BY <1>2, <1>3, <1>4, <1>5 DEF Caller!IsPrefix
<1>7. Caller!IsPrefix(t, b)
  BY <1>3, <1>4 DEF Caller!IsPrefix
<1> QED
  BY <1>2, <1>3, <1>6, <1>7 DEF Caller!IsStrictPrefix

LEMMA StepIsTransfer ==
  Typed /\ AllPlain /\ Decoded /\ [Next]_vars
    => [Caller!Grow \/ Caller!Finish]_<<msg.body, content, state = "done">>
<1> SUFFICES ASSUME Typed, AllPlain, Decoded, [Next]_vars
             PROVE  \/ Caller!Grow \/ Caller!Finish
                    \/ UNCHANGED <<msg.body, content, state = "done">>
  OBVIOUS
<1>1. CASE Plain \/ Data
  <2>1. state = "scan" /\ state' = "scan"
    BY <1>1 DEF Plain, Data, Scanning
  <2>2. Somewhere
    BY <2>1 DEF Decoded
  <2>3. msg' = msg /\ msg.body \in Seq(STRING)
    BY <1>1, <2>2, ContentGrows
  <2>4. PICK n \in Nat : /\ n < Len(msg.body)
                         /\ content = SubSeq(msg.body, 1, n)
                         /\ content' = SubSeq(msg.body, 1, n + 1)
    BY <1>1, <2>2, ContentGrows
  <2>5. Caller!IsStrictPrefix(content, content') /\ Caller!IsPrefix(content', msg.body)
    BY <2>3, <2>4, PrefixesGrow
  <2>6. UNCHANGED <<msg.body, state = "done">> /\ ~(state = "done")
    BY <2>1, <2>3
  <2> QED
    BY <2>5, <2>6, Zenon DEF Caller!Grow
<1>2. CASE Header \/ LeadCR \/ LeadLF \/ Digit \/ Extension \/ LineCR \/ NotEol
           \/ Receive
  <2>1. state # "done" /\ state' # "done" /\ msg' = msg /\ content' = content
    BY <1>2 DEF Header, LeadCR, LeadLF, Digit, Extension, LineCR, NotEol, Receive,
                Scanning
  <2> QED
    BY <2>1
<1>3. CASE LineLF \/ SegmentEnds \/ ReceiveEnds
  <2>1. state # "done" /\ msg' = msg /\ content' = content
    BY <1>3 DEF LineLF, SegmentEnds, ReceiveEnds, Scanning
  <2>2. CASE state' = "done"
    <3>1. ~(state = "done") /\ (state' = "done") = TRUE
      BY <2>1, <2>2
    <3> QED
      BY <2>1, <3>1, Zenon DEF Caller!Finish
  <2>3. CASE state' # "done"
    BY <2>1, <2>3
  <2> QED
    BY <2>2, <2>3
<1>4. CASE UNCHANGED vars
  BY <1>4 DEF vars
<1> QED
  BY <1>1, <1>2, <1>3, <1>4 DEF Next, Reader, Done

\* What the caller of getHTTPResponse() gets is a growing start of the body,
\* for every such answer however it is cut, and nothing after it is over.
THEOREM TransferIsSafe == AllPlain => (Spec => Caller!Safety)
<1> SUFFICES ASSUME AllPlain PROVE Spec => Caller!Safety
  OBVIOUS
<1>1. Init => Caller!Init
  <2> SUFFICES ASSUME Init PROVE content = <<>> /\ (state = "done") = FALSE
    BY DEF Caller!Init
  <2> QED
    BY DEF Init
<1>2. Typed /\ Decoded /\ [Next]_vars
        => [Caller!Grow \/ Caller!Finish]_<<msg.body, content, state = "done">>
  BY StepIsTransfer
<1> QED
  BY <1>1, <1>2, AlwaysDecoded, PTL DEF Spec, Caller!Safety
=============================================================================
